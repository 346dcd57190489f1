----------------------------- MODULE RemoteHost -----------------------------
(***************************************************************************)
(* One remote target: the commands and the file transfers of SSHHost in      *)
(* autoenv/ssh_host.py and of FTPHost in autoenv/ftp_host.py, over a          *)
(* connection that may die at any moment and a device that runs commands and *)
(* keeps one file.                                                          *)
(***************************************************************************)
EXTENDS Integers, Sequences, SequencesExt

CONSTANTS
    Protocols,  \* the ones a target may have, out of scp, sftp and ftp
    Keyword,    \* what execute_on_output waits for, a sequence of characters
    MaxText     \* characters the device writes to one stream, at most

VARIABLES
    host,     \* the client: its protocol, its connection, whether it is closed and
              \* whether commands may name the file as one it has uploaded
    device,   \* the remote file, and how far the device is with the command
    local,    \* the file a download leaves, and its .part
    call      \* the operation under way, or the result of the last one

hostVars == <<host, device, local, call>>
Streams == {"stdout", "stderr"}
Idle == {"none", "over"}

NoCall == [op |-> "none", pc |-> "none", status |-> "none"]
NoFile == [of |-> "absent", whole |-> TRUE]
NewHost(p) == [protocol |-> p, conn |-> "none", closed |-> FALSE, uploaded |-> FALSE]

HostInit ==
    /\ \E p \in Protocols : host = NewHost(p)
    /\ device \in [file : {"absent", "old"}, command : {"none"}]
    /\ local = [file |-> NoFile, part |-> NoFile] /\ call = NoCall

\* The connection dies; Paramiko reports it as exit status -1.
ConnectionDies ==
    /\ host.conn = "up"
    /\ host' = [host EXCEPT !.conn = "dead"]
    /\ UNCHANGED <<device, local, call>>

Drop == host' = [host EXCEPT !.conn = "none"]
Goes(pc) == call' = [call EXCEPT !.pc = pc]
Ends(status) ==
    call' = [k \in DOMAIN call \ {"text", "tail"} |->
                CASE k = "pc" -> "over" [] k = "status" -> status [] OTHER -> call[k]]
At(op, pc) == call.op = op /\ call.pc = pc

\* A step that asks the device: over SCP a short command of its own, whose output
\* is read to the end.
Reaches(op, pc) == At(op, pc) /\ host.conn = "up"

-----------------------------------------------------------------------------
(* Commands.                                                                *)
\* execute, and execute_on_output with a keyword.
BeginExecute(keyword, expect) ==
    /\ call.pc \in Idle /\ host.protocol # "ftp"
    /\ keyword => ~expect
    /\ call' = [op |-> "execute", pc |-> "connect", status |-> "none",
                keyword |-> keyword, expect |-> expect, connected |-> FALSE,
                sent |-> FALSE, attempted |-> FALSE, answered |-> FALSE,
                text |-> [s \in Streams |-> <<>>], tail |-> [s \in Streams |-> <<>>]]
    /\ device' = [device EXCEPT !.command = "none"]
    /\ UNCHANGED <<host, local>>

\* What an error may be taken for; "lost" is one of the operating system whose
\* number or text says that the connection is gone.
Errors == {"auth", "timeout", "eof", "lost", "os", "other"}

\* The except branches of _execute, in their order, for an error that is an
\* authentication, a timeout, an end of the stream, one of the operating system
\* that looks like a lost connection or not, or something else.
Verdict(e) ==
    IF e = "auth" THEN "auth_failed"
    ELSE IF e = "closed" THEN "connection_failed"
    ELSE IF e # "eof" /\ call.attempted /\ ~call.answered THEN "protocol_error"
    ELSE IF e = "timeout" /\ (call.sent \/ call.connected) THEN "timeout"
    ELSE IF e \in {"eof", "lost"} /\ call.sent THEN IF call.expect THEN "success" ELSE "disconnected"
    ELSE IF e = "eof" \/ (e # "other" /\ ~call.connected) THEN "connection_failed"
    ELSE "protocol_error"

\* A timeout and a host that is closed leave the connection alone.
Raises(e) ==
    /\ Ends(Verdict(e))
    /\ IF e = "closed" \/ (e = "timeout" /\ call.connected) THEN UNCHANGED host ELSE Drop

\* A dead connection is replaced by _ensure_transport of SSH, and used again by
\* _connect of FTP.
Connects ==
    /\ call.pc = "connect" /\ ~host.closed
    /\ host' = [host EXCEPT !.conn = IF host.protocol = "ftp" /\ @ = "dead" THEN @ ELSE "up"]
    /\ IF call.op = "execute"
       THEN call' = [call EXCEPT !.pc = "send", !.connected = TRUE]
       ELSE Goes("probe")
    /\ UNCHANGED <<device, local>>

ConnectFails ==
    /\ At("execute", "connect")
    /\ \E e \in IF host.closed THEN {"closed"} ELSE Errors : Raises(e)
    /\ UNCHANGED <<device, local>>

\* exec_command waits for the device to confirm.  The command may run
\* although the confirmation is lost.
Send ==
    /\ At("execute", "send")
    /\ \/ /\ host.conn = "up" /\ device' = [device EXCEPT !.command = "running"]
          /\ call' = [call EXCEPT !.pc = "output", !.sent = TRUE] /\ UNCHANGED host
       \/ /\ device' \in {device, [device EXCEPT !.command = "running"]}
          /\ host.conn = "dead"
          /\ \E e \in {"eof", "lost", "os", "other"} : Raises(e)
       \/ UNCHANGED device /\ \E e \in {"timeout", "other"} : Raises(e)
    /\ UNCHANGED local

\* What the device does by itself.
DeviceFinishes ==
    /\ device.command = "running"
    /\ \E end \in {"zero", "nonzero"} : device' = [device EXCEPT !.command = end]
    /\ UNCHANGED <<host, local, call>>

\* receive looks for the keyword in what is new and the end of what came
\* before on the same stream.
Window(stream, chunk) == call.tail[stream] \o chunk
Occurs(text) == \E i \in 1..Len(text) : IsPrefix(Keyword, SubSeq(text, i, Len(text)))

\* Mutant: each chunk is looked at by itself.
KeptNothing(text) == <<>>

KeptTail(text) == SubSeq(text, Max({1, Len(text) - Len(Keyword) + 2}), Len(text))

\* A chunk of either stream; when the keyword is complete the response is sent.
Receive ==
    /\ At("execute", "output") /\ call.keyword /\ ~call.answered
    /\ \E s \in Streams, chunk \in [1..1 -> Range(Keyword)] \cup [1..2 -> Range(Keyword)] :
          LET window == Window(s, chunk)
              got == [call EXCEPT !.text[s] = @ \o chunk, !.tail[s] = KeptTail(window)]
          IN  /\ Len(call.text[s]) + Len(chunk) <= MaxText
              /\ IF ~Occurs(window) THEN call' = got
                 ELSE IF host.conn = "up"
                 THEN call' = [got EXCEPT !.attempted = TRUE, !.answered = TRUE]
                 ELSE call' = [got EXCEPT !.attempted = TRUE, !.pc = "answer"]
    /\ UNCHANGED <<host, device, local>>

\* The response cannot be sent.
AnswerFails ==
    /\ At("execute", "answer")
    /\ \E e \in Errors \ {"auth", "eof"} : Raises(e)
    /\ UNCHANGED <<device, local>>

Answered ==
    /\ At("execute", "output") /\ call.answered
    /\ Ends("success")
    /\ UNCHANGED <<host, device, local>>

\* Mutant: an exit status of -1 is an exit status.
ReadAnyExit ==
    /\ At("execute", "output") /\ ~call.answered
    /\ \/ device.command \in {"zero", "nonzero"} \/ host.conn = "dead"
    /\ Ends(IF ~call.keyword /\ device.command = "zero" /\ host.conn = "up"
            THEN "success" ELSE "command_failed")
    /\ UNCHANGED <<host, device, local>>

\* The device says how the command ended; with a keyword that is too early.
ReadExit ==
    /\ At("execute", "output") /\ ~call.answered
    /\ device.command \in {"zero", "nonzero"}
    /\ Ends(IF ~call.keyword /\ device.command = "zero" THEN "success" ELSE "command_failed")
    /\ UNCHANGED <<host, device, local>>

\* The channel closes without an exit status, or the transport is not active.
LosesDevice ==
    /\ At("execute", "output") /\ ~call.answered /\ host.conn = "dead"
    /\ Raises("eof")
    /\ UNCHANGED <<device, local>>

\* No time is left, or an error that is none of the above.
GivesUp ==
    /\ At("execute", "output") /\ ~call.answered
    /\ \/ Ends("timeout") /\ UNCHANGED host
       \/ \E e \in {"timeout", "os", "other"} : Raises(e)
    /\ UNCHANGED <<device, local>>

ExecuteStep ==
    \/ ConnectFails \/ Send \/ Receive \/ AnswerFails \/ Answered \/ ReadExit
    \/ LosesDevice \/ GivesUp

-----------------------------------------------------------------------------
(* Transfers.                                                               *)
\* What stat, wc or SIZE say of the file on the device.
FileIsThere == device.file # "absent"

\* The local file is resolved and its digest taken before the connection.
BeginUpload(overwrite) ==
    /\ call.pc \in Idle
    /\ call' = [op |-> "upload", pc |-> "connect", status |-> "none", overwrite |-> overwrite]
    /\ UNCHANGED <<host, device, local>>

\* A dead connection is replaced between two steps: each one over SCP, and each
\* one of a download over SFTP, looks for its own.
Reconnects ==
    /\ call.op = "download" \/ (call.op = "upload" /\ host.protocol = "scp")
    /\ call.pc \in {"probe", "put", "verify", "get"} /\ host.protocol # "ftp"
    /\ host.conn = "dead" /\ host' = [host EXCEPT !.conn = "up"]
    /\ UNCHANGED <<device, local, call>>

\* A file that is whole may be named by the commands that follow; SSH only.
FinishUpload(status) ==
    /\ Ends(status)
    /\ host' = [host EXCEPT !.uploaded = @ \/ (status = "success" /\ host.protocol # "ftp")]

\* Directories are made; without overwrite a file that is there is left alone.
ProbeUpload ==
    /\ Reaches("upload", "probe")
    /\ IF FileIsThere /\ ~call.overwrite THEN FinishUpload("remote_file_exists")
       ELSE Goes("put") /\ UNCHANGED host
    /\ UNCHANGED <<device, local>>

\* The device writes the file in place; it may get less than was sent, which leaves
\* a file that is shorter.
Put ==
    /\ Reaches("upload", "put")
    /\ \E got \in {"new", "torn"} : device' = [device EXCEPT !.file = got]
    /\ Goes("verify")
    /\ UNCHANGED <<host, local>>

\* Mutant: what arrived is not looked at.
VerifyNothing ==
    /\ Reaches("upload", "verify")
    /\ FinishUpload("success")
    /\ UNCHANGED <<device, local>>

\* SSH compares the digests; FTP the sizes, which tell a file that is shorter.
VerifyUpload ==
    /\ Reaches("upload", "verify")
    /\ FinishUpload(IF device.file = "new" THEN "success" ELSE "verification_failed")
    /\ UNCHANGED <<device, local>>

\* _download: the size first, then the file into .part.  FTP always overwrites.
BeginDownload(overwrite) ==
    /\ call.pc \in Idle /\ (overwrite \/ host.protocol # "ftp")
    /\ call' = [op |-> "download", pc |-> "connect", status |-> "none", overwrite |-> overwrite]
    /\ UNCHANGED <<host, device, local>>

ProbeDownload ==
    /\ Reaches("download", "probe")
    /\ IF ~FileIsThere THEN Ends("remote_file_not_found")
       ELSE IF local.file # NoFile /\ ~call.overwrite THEN Ends("local_file_exists")
       ELSE Goes("get")
    /\ UNCHANGED <<host, device, local>>

Get ==
    /\ Reaches("download", "get")
    /\ \E whole \in BOOLEAN :
          local' = [local EXCEPT !.part = [of |-> device.file, whole |-> whole]]
    /\ Goes("size")
    /\ UNCHANGED <<host, device>>

CheckDownload ==
    /\ At("download", "size")
    /\ IF local.part.whole
       THEN local' = [file |-> local.part, part |-> NoFile] /\ Ends("success")
       ELSE local' = [local EXCEPT !.part = NoFile] /\ Ends("verification_failed")
    /\ UNCHANGED <<host, device>>

\* Any step may fail: what was sent so far is on the device, .part is removed.
\* An SSH connection is dropped unless the failure came from this side, an FTP
\* host that fails to upload is closed for good.
TransferFails ==
    /\ call.op \in {"upload", "download"} /\ call.pc \notin Idle
    /\ device' \in IF At("upload", "put") THEN {device, [device EXCEPT !.file = "torn"]} ELSE {device}
    /\ local' = [local EXCEPT !.part = NoFile]
    /\ Ends(IF host.closed THEN "connection_failed" ELSE "transfer_failed")
    /\ host' \in IF host.protocol = "ftp"
                 THEN {[host EXCEPT !.conn = "none", !.closed = @ \/ call.op = "upload"], host}
                 ELSE {[host EXCEPT !.conn = "none"], host}

TransferStep ==
    \/ ProbeUpload \/ Put \/ VerifyUpload
    \/ ProbeDownload \/ Get \/ CheckDownload \/ Reconnects \/ TransferFails

\* close: for good, an operation that comes later fails.
Close ==
    /\ call.pc \in Idle /\ ~host.closed
    /\ host' = [host EXCEPT !.closed = TRUE, !.conn = "none"]
    /\ UNCHANGED <<device, local, call>>

HostNext ==
    \/ \E keyword, expect \in BOOLEAN : BeginExecute(keyword, expect)
    \/ \E overwrite \in BOOLEAN : BeginUpload(overwrite) \/ BeginDownload(overwrite)
    \/ Close
    \/ Connects \/ ExecuteStep \/ TransferStep \/ DeviceFinishes \/ ConnectionDies

-----------------------------------------------------------------------------
\* The status of a command says what the device did: success and failure of a
\* plain command mean that it ended that way, never that its connection was
\* lost, and success of a command that was to cut the connection means that it
\* was sent and the connection is gone (SSHHost._execute).
VerdictIsTheDevices ==
    call.op = "execute" /\ call.pc = "over" /\ ~call.keyword =>
        /\ call.status = "success" /\ ~call.expect => device.command = "zero"
        /\ call.status = "success" /\ device.command # "zero" =>
              call.sent /\ host.conn = "none"
        /\ call.status = "command_failed" => device.command = "nonzero"

\* The response is sent exactly when one stream has shown the keyword, however
\* the output was cut into chunks (receive in SSHHost._execute).
KeywordIsAnswered ==
    call.op = "execute" /\ call.pc # "over" /\ call.keyword =>
        (call.attempted <=> \E s \in Streams : Occurs(call.text[s]))

\* An upload that reports success left the whole file on the device, a file that
\* commands may name as uploaded is one this host wrote, and a download leaves a
\* whole file or none (_upload, _finish_upload and _download of SSHHost and
\* FTPHost).
TransfersAreWhole ==
    /\ call.op = "upload" /\ call.status = "success" => device.file = "new"
    /\ host.uploaded => device.file \in {"new", "torn"}
    /\ local.file.whole
    /\ call.pc \in Idle => local.part = NoFile
=============================================================================
