------------------------------- MODULE Remotes -------------------------------
(***************************************************************************)
(* A remote object of a script, of the class its connection's type asks for: *)
(* create_remote in autoenv/remote_environment.py makes a Telnet console, or  *)
(* an SSH or FTP host, and nothing that one does is seen by the other.       *)
(***************************************************************************)
EXTENDS TelnetConsole

CONSTANTS
    Protocols,   \* of the hosts
    Keyword,     \* what execute_on_output waits for on a host
    MaxText      \* characters a host writes to one stream (bound)

ASSUME HostAssumption ==
    /\ Protocols \subseteq {"scp", "sftp", "ftp"} /\ Protocols # {}
    /\ Keyword \in Seq(STRING) /\ Keyword # <<>> /\ MaxText \in Nat

VARIABLES
    kind,        \* "telnet" or "host"
    host, device, local, call

hostVars == <<host, device, local, call>>
Host == INSTANCE RemoteHost

\* The class that was not asked for has one initial state.
SomeOf(set) == CHOOSE x \in set : TRUE

RemotesInit ==
    /\ kind \in {"telnet", "host"}
    /\ Init /\ Host!HostInit
    /\ kind = "telnet" => host.protocol = SomeOf(Protocols) /\ device.file = "absent"
    /\ kind = "host" =>
          /\ config.mode = SomeOf(ShellModes) /\ config.device = SomeOf(Devices)
          /\ ~config.gateway /\ dev.state = "shell"

RemotesNext ==
    \/ kind = "telnet" /\ Next /\ UNCHANGED <<kind, hostVars>>
    \/ kind = "host" /\ Host!HostNext /\ UNCHANGED <<kind, vars>>

RemotesSpec == RemotesInit /\ [][RemotesNext]_<<kind, vars, hostVars>>

-----------------------------------------------------------------------------
\* What a remote object answers of a command is true of that command: a console
\* gives its own code, and on a connection that only commands use its own output
\* (TelnetClient.execute); a host gives the device's exit status, and a keyword
\* when one stream has shown it, however it was cut (SSHHost._execute).
AnswersAreTrue ==
    /\ ResultIsOwn /\ OutputIsOwn
    /\ Host!VerdictIsTheDevices /\ Host!KeywordIsAnswered

\* An upload or download that reports success has left the whole file.
TransfersAreWhole == Host!TransfersAreWhole
=============================================================================
