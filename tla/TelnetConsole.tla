---------------------------- MODULE TelnetConsole ----------------------------
(***************************************************************************)
(* A Telnet console: TelnetClient (autoenv/telnet_client.py) with the      *)
(* TelnetRemote that serves a script (autoenv/remote_environment.py), and  *)
(* the device at the other end of the serial gateway.                      *)
(*                                                                         *)
(* Text is a sequence of tokens: a line of output, the keyword a wait      *)
(* looks for, a prompt, a login prompt, or the line a printf leaves with   *)
(* its marker and the exit code of the command before it. A packet is any  *)
(* prefix of what is on the wire. Commands and markers are numbered as     *)
(* they are sent, as the uuids of the code are fresh. A gateway keeps its  *)
(* device: what it answers to a lost connection may come over the next.    *)
(***************************************************************************)
EXTENDS Integers, Sequences, SequencesExt, FiniteSets

CONSTANTS
    ShellModes,     \* the configured shell_mode: "auto", "posix", "prompt_only"
    Devices,        \* what is at the other end: "posix", "appliance"
    Logins,         \* whether the configuration has a username
    MaxOps,         \* operations of the script (bound)
    MaxEvents,      \* reboots and breaks of the connection (bound)
    Limit,          \* tokens an unread text may have: _passive_limit
    None

ASSUME ConsoleAssumption ==
    /\ ShellModes \subseteq {"auto", "posix", "prompt_only"}
    /\ Devices \subseteq {"posix", "appliance"}
    /\ Logins \subseteq BOOLEAN
    /\ MaxOps \in Nat /\ MaxEvents \in Nat /\ Limit \in Nat \ {0}

VARIABLES
    config,     \* the connection's entry and the device behind it
    dev,        \* the device: its state, its unread input, what commands did
    wire,       \* sent by the device, not yet received
    live,       \* the TCP connection stands
    client,     \* the TelnetClient
    op,         \* the operation that holds the client's lock
    remote,     \* available and the scope of the last self-check
    result,     \* the last CommandResult of a command
    answer,     \* the text the last console operation gave the script
    count       \* operations and events so far

vars == <<config, dev, wire, live, client, op, remote, result, answer, count>>

Codes == {0, 12}

Token(kind, n, rc) == [k |-> kind, n |-> n, rc |-> rc]
Out(n) == Token("out", n, 0)
Key == Token("key", 0, 0)
Prompt == Token("prompt", 0, 0)
Marker(n, rc) == Token("marker", n, rc)
LoginPrompt == Token("login", 0, 0)
PasswordPrompt == Token("password", 0, 0)
Incorrect == Token("incorrect", 0, 0)

\* _find_prompt: the last line looks like a prompt, and not like a login.
FindPrompt(text) == text # <<>> /\ Last(text).k = "prompt"

\* Mutant: the marker is the same for every command.
MarkersOfAny(text, n) == {i \in 1..Len(text) : text[i].k = "marker"}

\* _extract_exit_code: the first line with this command's marker.
Markers(text, n) == {i \in 1..Len(text) : text[i].k = "marker" /\ text[i].n = n}

HasCode(text, n) == Markers(text, n) # {}

ExitCode(text, n) == text[CHOOSE i \in Markers(text, n) : \A j \in Markers(text, n) : i <= j].rc

LastIs(text, kind) == text # <<>> /\ Last(text).k = kind
Has(text, kind) == \E i \in 1..Len(text) : text[i].k = kind

Dropped == [sock |-> FALSE, prompt |-> FALSE, mode |-> None, buf |-> <<>>, cursor |-> 0, floor |-> 0]

Unread(c) == SubSeq(c.buf, c.cursor + 1, Len(c.buf))

\* "own": the session was opened by this operation, with _open_session.
Idle == [pc |-> "idle", of |-> None, n |-> 0, base |-> 0, got |-> <<>>, expect |-> FALSE, own |-> FALSE]

NoResult == [status |-> None, code |-> None, n |-> 0, text |-> {}, lost |-> FALSE]

Init ==
    /\ config \in [mode : ShellModes, device : Devices, login : Logins, secret : BOOLEAN, probe : BOOLEAN, gateway : BOOLEAN]
    /\ config.gateway \/ (~config.login /\ ~config.probe)
    /\ config.secret => config.login
    /\ config.probe => config.mode = "prompt_only"
    /\ \E s \in {"login", "shell"} :
          dev = [state |-> s, input |-> <<>>, code |-> <<>>, leaked |-> FALSE, late |-> FALSE]
    /\ wire = <<>> /\ live = FALSE
    /\ client = Dropped
    /\ op = Idle
    /\ remote = [available |-> ~config.gateway, scope |-> None]
    /\ result = NoResult /\ answer = <<>>
    /\ count = [ops |-> 0, events |-> 0, sent |-> 0]

---------------------------------------------------------------------------
(* The device (external). *)

\* The prompt of the state the device is in.
Greeting(state) ==
    CASE state = "login" -> <<LoginPrompt>>
      [] state = "password" -> <<PasswordPrompt>>
      [] state = "shell" -> <<Prompt>>
      [] OTHER -> <<>>

Says(text, state) ==
    /\ wire' = IF live THEN wire \o text ELSE wire
    /\ dev' = [dev EXCEPT !.input = Tail(@), !.state = state]

LastCode == IF dev.code = <<>> THEN 0 ELSE Last(dev.code)[2]

\* A line in the shell. A password there is a command like any other.
ShellReads(in) ==
    \/ in.k \in {"line", "user"} /\ Says(<<Prompt>>, "shell")
    \/ /\ in.k = "command"
       /\ \E rc \in Codes, text \in {<<Prompt>>, <<Out(in.n), Prompt>>,
                                    <<Out(in.n), Prompt, Prompt>>, <<Key, Prompt>>} :
             /\ wire' = IF live THEN wire \o text ELSE wire
             /\ dev' = [dev EXCEPT !.input = Tail(@), !.code = Append(@, <<in.n, rc>>)]
    \/ /\ in.k = "printf"
       /\ Says(IF config.device = "posix"
               THEN <<Marker(in.n, LastCode), Prompt>> ELSE <<Out(in.n), Prompt>>, "shell")
    \/ /\ in.k = "secret"
       /\ wire' = IF live THEN wire \o <<Prompt>> ELSE wire
       /\ dev' = [dev EXCEPT !.input = Tail(@), !.leaked = TRUE]

LoginReads(in) ==
    \/ dev.state = "login" /\ in.k \in {"user", "command"}
          /\ IF in.k = "user" /\ ~config.secret THEN Says(<<Prompt>>, "shell") ELSE Says(<<PasswordPrompt>>, "password")
    \/ dev.state = "login" /\ in.k \notin {"user", "command"} /\ Says(<<LoginPrompt>>, "login")
    \/ dev.state = "password"
          /\ \/ in.k = "secret" /\ Says(<<Prompt>>, "shell")
             \/ Says(<<Incorrect, LoginPrompt>>, "login")

DeviceReads ==
    /\ dev.input # <<>>
    /\ LET in == Head(dev.input)
       IN IF dev.state = "shell" THEN ShellReads(in) ELSE LoginReads(in)
    /\ UNCHANGED <<config, live, client, op, remote, result, answer, count>>

\* A reboot by another way, say SSH: what was typed is lost; the keyword and a
\* new prompt appear. A login under way is not interrupted.
Reboots ==
    /\ count.events < MaxEvents /\ dev.state # "password"
    /\ op.pc \notin {"login", "password", "authenticated"}
    /\ \E s \in {"login", "shell"} :
          /\ dev' = [dev EXCEPT !.state = s, !.input = <<>>]
          /\ wire' = IF live THEN wire \o (<<Key>> \o Greeting(s)) ELSE wire
    /\ count' = [count EXCEPT !.events = @ + 1]
    /\ UNCHANGED <<config, live, client, op, remote, result, answer>>

\* The connection breaks. What was on the way arrives up to some byte; the digits
\* of an exit code may be cut too.
Breaks ==
    /\ live /\ count.events < MaxEvents
    /\ live' = FALSE
    /\ \E i \in 0..Len(wire) : \E cut \in BOOLEAN :
          LET w == SubSeq(wire, 1, i)
          IN /\ cut => LastIs(w, "marker") /\ Last(w).rc = 12
             /\ wire' = IF cut THEN [w EXCEPT ![i].rc = 1] ELSE w
    /\ count' = [count EXCEPT !.events = @ + 1]
    /\ UNCHANGED <<config, dev, client, op, remote, result, answer>>

Device == DeviceReads \/ Reboots \/ Breaks
---------------------------------------------------------------------------
(* What every operation is made of. *)

\* sendall: a broken connection may still take it.
Send(inputs) == dev' = [dev EXCEPT !.input = IF live THEN @ \o inputs ELSE @]

In(kind, n) == [k |-> kind, n |-> n]

\* Commands and markers are numbered as the code draws a uuid for each.
Fresh == count.sent + 1
Numbered == count' = [count EXCEPT !.sent = Fresh]

\* A TCP connection; a Telnet service greets, a serial gateway need not.
Connects == live' = TRUE /\ wire' \in {<<>>, Greeting(dev.state)}

\* Mutant: the buffer is cut at the cursor and the cursor is kept.
CompactKeepsCursor(c) == [c EXCEPT !.buf = Unread(c)]

\* _compact_passive.
Compact(c) == [c EXCEPT !.buf = Unread(c), !.cursor = 0,
                        !.floor = IF @ > c.cursor THEN @ - c.cursor ELSE 0]

\* _passive_receive: the packet joins the unread text; a prompt after the floor is
\* the client's prompt from now on.
Fed(c, packet) ==
    LET b == c.buf \o packet
        seen == FindPrompt(SubSeq(b, c.floor + 1, Len(b)))
    IN [c EXCEPT !.buf = b, !.prompt = @ \/ (seen /\ Len(b) <= Limit),
                 !.mode = IF seen /\ Len(b) <= Limit /\ config.mode # "auto" THEN config.mode ELSE @]

Overflows(c, packet) == Len(c.buf) + Len(packet) > Limit

\* invalidate_passive_prompt, and what a sent answer does to the prompt.
Unframed(c, floor) == [c EXCEPT !.prompt = FALSE, !.mode = None, !.floor = floor]

Packets == {SubSeq(wire, 1, i) : i \in 1..Len(wire)}
Gone(packet) == wire' = SubSeq(wire, Len(packet) + 1, Len(wire))
Closed == ~live /\ wire = <<>>

Passive == {"login", "password", "authenticated", "prompt", "wait", "read", "mark", "probe", "quiet"}

\* A packet for an operation on the passive stream.
PassiveReceive ==
    /\ op.pc \in Passive /\ client.sock
    /\ \E p \in Packets :
          /\ ~Overflows(client, p)
          /\ Gone(p) /\ client' = Fed(client, p)
    /\ UNCHANGED <<config, dev, live, op, remote, result, answer, count>>

Frame(c) == c.prompt /\ c.mode # None

\* The self-check ends. An exception leaves the connection as it is, but for the
\* ones execute has dropped.
CheckEnds(ok, scope) ==
    /\ remote' = [available |-> ok, scope |-> scope]
    /\ op' = Idle

CheckFails == CheckEnds(FALSE, None)

\* The lines a result shows: without the prompt at its end and the marker of its
\* own command, which a keyword wait does not have.
Cleaned(text, n) ==
    {text[i] : i \in {j \in 1..Len(text) : /\ FindPrompt(text) => j < Len(text)
                                           /\ text[j].k = "marker" => text[j].n # n}}

\* A command's result; a self-check looks for its token in the output too.
Finish(status, code, lost) ==
    /\ result' = [status |-> status, code |-> code, n |-> op.n, text |-> Cleaned(op.got, op.n), lost |-> lost]
    /\ IF op.of = "check"
       THEN CheckEnds(status = "SUCCESS" /\ code = 0 /\ Contains(op.got, Out(op.n)), "command")
       ELSE op' = Idle /\ UNCHANGED remote

\* _drop_connection.
Drop == client' = Dropped /\ live' = FALSE /\ wire' = <<>>

\* The command, and in POSIX mode the printf that tells its exit code.
SendCommand(c) ==
    /\ Send(IF c.mode = "posix" THEN <<In("command", Fresh), In("printf", Fresh)>> ELSE <<In("command", Fresh)>>)
    /\ Numbered
    /\ op' = [op EXCEPT !.pc = "run", !.n = Fresh, !.got = <<>>]

\* The printf that finds out whether the shell can.
SendCapabilityProbe ==
    /\ Send(<<In("printf", Fresh)>>)
    /\ Numbered
    /\ op' = [op EXCEPT !.pc = "capability", !.n = Fresh, !.got = <<>>]

\* The session has its prompt and its mode: the self-check's own command, the probe
\* of a console, or the command of the script.
Framed(c) ==
    /\ client' = c
    /\ IF op.of = "check" /\ c.mode = "prompt_only"
       THEN IF config.probe
            THEN op' = [op EXCEPT !.pc = "quiet"] /\ UNCHANGED <<dev, count, remote>>
            ELSE CheckEnds(TRUE, "prompt") /\ UNCHANGED <<dev, count>>
       ELSE SendCommand(c) /\ UNCHANGED remote

\* prepare_passive_command up to the first thing it waits for.
Prepare(c) ==
    LET found == c.prompt \/ FindPrompt(SubSeq(c.buf, c.floor + 1, Len(c.buf)))
    IN IF Frame(c) THEN Framed(c)
       ELSE IF ~found THEN /\ op' = [op EXCEPT !.pc = "prompt"] /\ client' = c
                           /\ UNCHANGED <<dev, count, remote>>
       ELSE LET d == [c EXCEPT !.prompt = TRUE, !.mode = config.mode]
            IN IF config.mode = "auto" THEN client' = d /\ SendCapabilityProbe /\ UNCHANGED remote
               ELSE Framed(d)
---------------------------------------------------------------------------
(* The operations of the script. *)

Begin(of, pc) ==
    /\ op.pc = "idle" /\ count.ops < MaxOps
    /\ op' = [Idle EXCEPT !.of = of, !.pc = pc]
    /\ count' = [count EXCEPT !.ops = @ + 1]

\* create_remote and retry: a new client, then the self-check.
Check ==
    /\ config.gateway
    /\ Begin("check", IF config.login THEN "login" ELSE "session")
    /\ IF config.login \/ config.mode = "prompt_only"
       THEN client' = [Dropped EXCEPT !.sock = TRUE] /\ Connects
       ELSE client' = Dropped /\ live' = FALSE /\ wire' = <<>>
    /\ dev' = [dev EXCEPT !.late = @ \/ dev.input # <<>>]
    /\ answer' = <<>> /\ result' = NoResult
    /\ UNCHANGED <<config, remote>>

\* execute: of an available remote, prepared when its prompt is unknown; of a plain
\* client, as it is.
Execute ==
    /\ remote.available
    /\ \E expect \in BOOLEAN :
          /\ op.pc = "idle" /\ count.ops < MaxOps
          /\ op' = [Idle EXCEPT !.of = "execute", !.expect = expect,
                       !.pc = IF ~client.sock THEN "session"
                              ELSE IF config.gateway /\ ~client.prompt THEN "prepare" ELSE "send"]
    /\ count' = [count EXCEPT !.ops = @ + 1]
    /\ answer' = <<>> /\ result' = NoResult
    /\ UNCHANGED <<config, dev, wire, live, client, remote>>

\* execute_on_output of a plain client.
ExecuteOnOutput ==
    /\ ~config.gateway
    /\ Begin("onoutput", IF client.sock THEN "send" ELSE "session")
    /\ answer' = <<>> /\ result' = NoResult
    /\ UNCHANGED <<config, dev, wire, live, client, remote>>

\* read, mark_output, wait_reboot and telnet_wait_exec need no available remote: they
\* connect when there is no connection.
Console ==
    /\ config.gateway
    /\ \E of \in {"read", "mark", "wait_reboot", "wait_exec"} :
          /\ Begin(of, IF of \in {"read", "mark"} THEN of ELSE "wait")
          /\ LET c == IF of = "wait_reboot" THEN Unframed(client, client.cursor) ELSE client
             IN IF client.sock THEN client' = Compact(c) /\ UNCHANGED <<wire, live>>
                ELSE client' = [Dropped EXCEPT !.sock = TRUE] /\ Connects
    /\ answer' = <<>> /\ result' = NoResult
    /\ UNCHANGED <<config, dev, remote>>

Operations == Check \/ Execute \/ ExecuteOnOutput \/ Console
---------------------------------------------------------------------------
(* login_passive *)

\* _respond_to_observed_login_prompt: the text up to the prompt is consumed.
Respond(kind, in) ==
    LET i == CHOOSE j \in 1..Len(client.buf) : client.buf[j].k = kind
                 /\ \A m \in (j + 1)..Len(client.buf) : client.buf[m].k # kind
    IN /\ client' = [Unframed(client, Len(client.buf)) EXCEPT !.cursor = i]
       /\ Send(<<In(in, 0)>>)

\* Already logged in: the shell's prompt is there, and no credential is sent.
LoggedIn ==
    /\ client.prompt
    /\ \/ op.pc = "login" /\ ~LastIs(Unread(client), "login")
       \/ op.pc = "password" /\ ~LastIs(Unread(client), "password") /\ ~Has(Unread(client), "incorrect")
       \/ op.pc = "authenticated"
    /\ Prepare(client)
    /\ UNCHANGED <<config, wire, live, result, answer>>

AnswerLogin ==
    /\ op.pc = "login" /\ LastIs(Unread(client), "login")
    /\ Respond("login", "user")
    /\ op' = [op EXCEPT !.pc = "password"]
    /\ UNCHANGED <<config, wire, live, remote, result, answer, count>>

\* Mutant: the password follows the user name without a prompt for it.
AnswerPasswordBlindly ==
    /\ op.pc = "password"
    /\ client' = Unframed(client, Len(client.buf))
    /\ Send(<<In("secret", 0)>>)
    /\ op' = [op EXCEPT !.pc = "authenticated"]
    /\ UNCHANGED <<config, wire, live, remote, result, answer, count>>

AnswerPassword ==
    /\ op.pc = "password" /\ LastIs(Unread(client), "password")
    /\ ~Has(Unread(client), "incorrect")
    /\ Respond("password", "secret")
    /\ op' = [op EXCEPT !.pc = "authenticated"]
    /\ UNCHANGED <<config, wire, live, remote, result, answer, count>>

\* Refused, not accepted, or no prompt in time.
LoginFails ==
    /\ op.pc \in {"login", "password", "authenticated"}
    /\ CheckFails
    /\ UNCHANGED <<config, dev, wire, live, client, result, answer, count>>
---------------------------------------------------------------------------
(* _open_session and prepare_passive_command *)

\* A connection of its own begins with an empty line.
OpenSession ==
    /\ op.pc = "session" /\ ~client.sock
    /\ client' = [Dropped EXCEPT !.sock = TRUE]
    /\ Connects
    /\ dev' = [dev EXCEPT !.input = IF config.gateway THEN Append(@, In("line", 0)) ELSE <<In("line", 0)>>]
    /\ op' = [op EXCEPT !.pc = "hello", !.own = TRUE]
    /\ UNCHANGED <<config, remote, result, answer, count>>

PrepareSession ==
    /\ \/ op.pc = "session" /\ client.sock
       \/ op.pc = "prepare"
       \/ op.pc = "prompt" /\ client.prompt
    /\ Prepare(client)
    /\ UNCHANGED <<config, wire, live, result, answer>>

Posix == client.mode = "posix"

\* A prompt ends a command, in POSIX mode once its own marker has come.
Complete(text, n) == client.prompt /\ FindPrompt(text) /\ (Posix => HasCode(text, n))

Satisfied ==
    IF op.pc = "hello" THEN FindPrompt(op.got)
    ELSE IF op.pc = "capability" THEN FindPrompt(op.got) /\ HasCode(op.got, op.n)
    ELSE IF op.of = "onoutput" THEN Has(op.got, "key")
    ELSE Complete(op.got, op.n)

\* _receive_until reads the socket, past the passive stream.
Receive ==
    /\ op.pc \in {"hello", "capability", "run"} /\ ~Satisfied
    /\ \E p \in Packets : Gone(p) /\ op' = [op EXCEPT !.got = @ \o p]
    /\ UNCHANGED <<config, dev, live, client, remote, result, answer, count>>

Hello ==
    /\ op.pc = "hello" /\ FindPrompt(op.got)
    /\ IF config.mode = "auto"
       THEN client' = [client EXCEPT !.prompt = TRUE] /\ SendCapabilityProbe /\ UNCHANGED remote
       ELSE Framed([client EXCEPT !.prompt = TRUE, !.mode = config.mode])
    /\ UNCHANGED <<config, wire, live, result, answer>>

\* The mode is what the probe's output says; a prompt without the marker counts when
\* the time is up.
Capability ==
    /\ op.pc = "capability" /\ FindPrompt(op.got)
    /\ Framed([client EXCEPT !.mode = IF HasCode(op.got, op.n) THEN "posix" ELSE "prompt_only"])
    /\ UNCHANGED <<config, wire, live, result, answer>>

\* An operation ends before its command was sent.
NoCommand(status) ==
    IF op.of = "check" THEN CheckFails /\ UNCHANGED result
    ELSE /\ op' = Idle /\ UNCHANGED remote
         /\ result' = IF op.of \in {"execute", "onoutput"} THEN [NoResult EXCEPT !.status = status] ELSE result

\* No prompt or no end of the probe in time, or the connection is lost. An execute
\* drops the session it has opened and a lost one; a self-check and the preparation
\* of a passive connection leave what they have.
SessionFails ==
    /\ op.pc \in {"hello", "capability", "prompt"} /\ ~FindPrompt(op.got)
    /\ op.pc = "prompt" => ~client.prompt
    /\ IF op.of # "check" /\ (Closed \/ op.own) THEN Drop ELSE UNCHANGED <<client, live, wire>>
    /\ NoCommand(IF Closed THEN IF op.own THEN "CONNECTION_FAILED" ELSE "DISCONNECTED"
                 ELSE IF op.pc = "capability" THEN "TIMEOUT" ELSE "PROTOCOL_ERROR")
    /\ UNCHANGED <<config, dev, answer, count>>

\* The connection is refused.
ConnectFails ==
    /\ op.pc = "session" /\ ~client.sock
    /\ NoCommand("CONNECTION_FAILED")
    /\ UNCHANGED <<config, dev, wire, live, client, answer, count>>
---------------------------------------------------------------------------
(* _execute_locked *)

SendBusiness ==
    /\ op.pc = "send"
    /\ SendCommand(IF op.of = "onoutput" THEN [client EXCEPT !.mode = None] ELSE client)
    /\ UNCHANGED <<config, wire, live, client, remote, result, answer>>

CodeStatus(code) == IF code = 0 THEN "SUCCESS" ELSE "COMMAND_FAILED"

\* The exit code of the marker, when POSIX mode has received it.
Coded(lost) == LET code == ExitCode(op.got, op.n) IN Finish(CodeStatus(code), code, lost)

Completed ==
    /\ op.pc = "run" /\ op.of # "onoutput" /\ Complete(op.got, op.n)
    /\ IF Posix THEN Coded(FALSE) ELSE Finish("RESULT_UNKNOWN", None, FALSE)
    /\ UNCHANGED <<config, dev, wire, live, client, answer, count>>

TimedOut ==
    /\ op.pc = "run" /\ ~Satisfied
    /\ Finish(IF op.of # "onoutput" /\ Posix /\ FindPrompt(op.got) THEN "PROTOCOL_ERROR" ELSE "TIMEOUT", None, FALSE)
    /\ Drop
    /\ UNCHANGED <<config, dev, answer, count>>

\* The end of the connection; a marker that has come still counts.
ConnectionClosed ==
    /\ op.pc = "run" /\ Closed /\ ~Satisfied
    /\ IF op.of # "onoutput" /\ Posix /\ HasCode(op.got, op.n) THEN Coded(TRUE)
       ELSE Finish(IF op.expect THEN "SUCCESS" ELSE "DISCONNECTED", None, TRUE)
    /\ Drop
    /\ UNCHANGED <<config, dev, answer, count>>

\* A connection that is broken does not take the command, or the answer of
\* execute_on_output; either arrives whole or not at all.
SendFails ==
    /\ op.pc = "run" /\ ~live
    /\ \/ op.got = <<>> /\ Finish("DISCONNECTED", None, TRUE)
       \/ op.of = "onoutput" /\ Has(op.got, "key") /\ Finish("PROTOCOL_ERROR", None, FALSE)
    /\ Drop
    /\ UNCHANGED <<config, dev, answer, count>>

\* execute_on_output: the keyword, then the raw answer; the connection is dropped.
AnswerOutput ==
    /\ op.pc = "run" /\ op.of = "onoutput" /\ Has(op.got, "key")
    /\ Send(<<In("line", 0)>>)
    /\ Finish("SUCCESS", None, FALSE)
    /\ Drop
    /\ UNCHANGED <<config, answer, count>>

Command == SendBusiness \/ SendFails \/ Completed \/ TimedOut \/ ConnectionClosed \/ AnswerOutput
---------------------------------------------------------------------------
(* read_passive, mark_passive_output, wait_passive *)

ReadEnds ==
    /\ op.pc = "read"
    /\ answer' = Unread(client)
    /\ client' = [client EXCEPT !.cursor = Len(client.buf)]
    /\ op' = Idle
    /\ UNCHANGED <<config, dev, wire, live, remote, result, count>>

MarkEnds ==
    /\ op.pc = "mark"
    /\ client' = [client EXCEPT !.cursor = Len(client.buf)]
    /\ op' = Idle
    /\ UNCHANGED <<config, dev, wire, live, remote, result, answer, count>>

\* The first keyword after the cursor ends a wait; the answer of telnet_wait_exec is
\* sent, and the prompt is to be found anew in what comes after all that was read.
WaitEnds ==
    /\ op.pc = "wait" /\ Has(Unread(client), "key")
    /\ LET text == Unread(client)
           i == CHOOSE j \in 1..Len(text) : text[j].k = "key" /\ ~Has(SubSeq(text, 1, j - 1), "key")
           c == [client EXCEPT !.cursor = @ + i]
       IN /\ answer' = SubSeq(text, 1, i)
          /\ IF op.of = "wait_exec" THEN Send(<<In("line", 0)>>) /\ client' = Unframed(c, Len(c.buf))
             ELSE client' = c /\ UNCHANGED dev
    /\ op' = Idle
    /\ UNCHANGED <<config, wire, live, remote, result, count>>

WaitFails ==
    /\ op.pc = "wait" /\ ~Has(Unread(client), "key")
    /\ answer' = Unread(client)
    /\ op' = Idle
    /\ UNCHANGED <<config, dev, wire, live, client, remote, result, count>>

\* The connection has ended: it is dropped, but by a self-check.
StreamEnds ==
    /\ op.pc \in Passive /\ Closed
    /\ IF op.of = "check" THEN UNCHANGED <<client, live, wire>> ELSE Drop
    /\ NoCommand("DISCONNECTED")
    /\ UNCHANGED <<config, dev, answer, count>>

\* An unread text that grows past the limit fails the operation that has read it.
StreamOverflows ==
    /\ op.pc \in Passive
    /\ \E p \in Packets : Overflows(client, p) /\ Gone(p) /\ client' = Fed(client, p)
    /\ NoCommand("PROTOCOL_ERROR")
    /\ UNCHANGED <<config, dev, live, answer, count>>

\* The business probe of a self-check: the stream falls silent, the probe is sent, and
\* its keyword and the prompt after it are looked for behind the baseline.
SendProbe ==
    /\ op.pc = "quiet"
    /\ Send(<<In("command", Fresh)>>) /\ Numbered
    /\ op' = [op EXCEPT !.pc = "probe", !.n = Fresh, !.base = Len(client.buf)]
    /\ UNCHANGED <<config, wire, live, client, remote, result, answer>>

ProbeEnds ==
    /\ op.pc = "probe"
    /\ LET text == SubSeq(client.buf, op.base + 1, Len(client.buf))
       IN IF Has(text, "key") /\ (client.prompt => FindPrompt(text)) THEN CheckEnds(TRUE, "keyword") ELSE CheckFails
    /\ UNCHANGED <<config, dev, wire, live, client, result, answer, count>>

Stream == ReadEnds \/ MarkEnds \/ WaitEnds \/ WaitFails \/ StreamEnds \/ StreamOverflows \/ SendProbe \/ ProbeEnds

Next ==
    \/ Device \/ Operations \/ PassiveReceive
    \/ LoggedIn \/ AnswerLogin \/ AnswerPassword \/ LoginFails
    \/ OpenSession \/ PrepareSession \/ Receive \/ Hello \/ Capability \/ SessionFails \/ ConnectFails
    \/ Command \/ Stream

Spec == Init /\ [][Next]_vars
---------------------------------------------------------------------------
(* Properties. *)

\* A command that a result says has ended with a code has run on the device and ended
\* with it, whatever markers and prompts of other commands came first; only of a lost
\* connection the digits may be cut, and never to or from success.
ResultIsOwn ==
    result.code # None =>
        \E i \in 1..Len(dev.code) :
            /\ dev.code[i][1] = result.n
            /\ (dev.code[i][2] = 0) <=> (result.code = 0)
            /\ ~result.lost => dev.code[i][2] = result.code

\* On a connection that only commands use, the output of a command with a code is its own.
OutputIsOwn ==
    ~config.gateway /\ result.code # None =>
        \A t \in result.text : t.k = "out" => t.n = result.n

\* The configured password never becomes a command of a shell (telnet_client.py 402), on a
\* device that has read what earlier attempts sent before it is connected to again.
PasswordAtPrompts == dev.leaked => dev.late

\* The console keeps the contract of its text.
Reader ==
    CASE op.pc \in {"idle", "session"} -> "none"
      [] op.pc \in {"hello", "capability", "run"} -> "command"
      [] op.pc \in {"login", "password", "mark"} -> "discard"
      [] OTHER -> "console"
Contract == INSTANCE ConsoleContract WITH up <- client.sock, unread <- Unread(client), reader <- Reader
ImplementsConsole == Contract!ContractSpec
=============================================================================
