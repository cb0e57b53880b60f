-------------------------------- MODULE Sftp --------------------------------
(***************************************************************************)
(* An SFTP session (lib/sshv2.c): a program ssh is started with a socket   *)
(* for the protocol and a terminal for its questions, then each request is *)
(* answered by one message.  The number of a request is not compared with  *)
(* that of the answer: the next message is the answer.                     *)
(*                                                                         *)
(* The request keeps a handle, and transfer_buffer, a READ or WRITE made   *)
(* once for a transfer and sent again with another offset: both outlive a  *)
(* disconnect.                                                             *)
(***************************************************************************)
EXTENDS Naturals, Sequences, SequencesExt

CONSTANTS
  SftpHandles,   \* handles the server gives out
  SftpSize,      \* length of the file and of the listing
  SftpBlock,     \* trans_blksize, and names in one answer to READDIR
  SftpPrompts    \* bound: questions of one login

ASSUME SftpSizeAssumption == {SftpSize, SftpBlock, SftpPrompts} \subseteq Nat \ {0}
ASSUME SftpHandleAssumption == "none" \notin SftpHandles

VARIABLES
  sftpReq,      \* request and sshv2_params
  sftpWait,     \* what the message that is awaited is for, and the request it answers
  sftpJob,      \* the caller's operation, what it returned, what it was given
  sftpOut,      \* requests on their way
  sftpIn,       \* messages on their way
  sftpTty,      \* a question on the terminal
  sftpServer    \* ssh and the server behind it

sftpVars == <<sftpReq, sftpWait, sftpJob, sftpOut, sftpIn, sftpTty, sftpServer>>

SftpData == [i \in 1..SftpSize |-> i]
SftpBytes == UNION {[1..n -> 0..SftpSize] : n \in 0..SftpSize}
SftpPurposes == {"none", "version", "cwd", "cwd again", "chdir", "list", "next", "open",
                 "size", "read", "write", "close", "stat", "command"}
SftpCmds == {"INIT", "REALPATH", "OPENDIR", "READDIR", "OPEN", "STAT", "READ", "WRITE", "CLOSE", "COMMAND"}
SftpKinds == {"VERSION", "STATUS", "HANDLE", "DATA", "NAME", "ATTRS", "OTHER"}
SftpCodes == {"ok", "eof", "failure", "denied", "bad"}
SftpQuestions == {"none", "password", "yes/no", "passcode", "text"}
SftpRequests == [cmd : SftpCmds, h : SftpHandles \cup {"none"}, pos : 0..SftpSize, data : SftpBytes]
SftpMessages == [to : SftpCmds, kind : SftpKinds, code : SftpCodes, h : SftpHandles \cup {"none"}, data : SftpBytes]

SftpTypeOK ==
  /\ sftpReq \in [up : BOOLEAN, login : {"no", "yes", "wrotepw"}, handle : SftpHandles \cup {"none"},
                  buf : SftpHandles \cup {"none"}, stale : BOOLEAN, offset : 0..SftpSize, names : SftpBytes]
  /\ sftpWait \in SftpPurposes
  /\ sftpJob \in [op : {"none", "connect", "list", "get", "put", "chdir", "command"}, on : BOOLEAN,
                  ret : {"none", "ok", "retry", "fatal"}, start : 0..SftpSize, from : 0..SftpSize, got : SftpBytes,
                  clean : BOOLEAN]
  /\ sftpOut \in Seq(SftpRequests) /\ sftpIn \in Seq(SftpMessages)
  /\ sftpTty \in SftpQuestions
  /\ sftpServer \in [open : [SftpHandles -> {"free", "dir", "get", "put"}], names : 0..SftpSize, file : SftpBytes,
                     gone : BOOLEAN, prompts : 0..SftpPrompts]

SftpNoJob == [op |-> "none", on |-> FALSE, ret |-> "none", start |-> 0, from |-> 0, got |-> <<>>, clean |-> TRUE]
SftpFresh(file) ==
  [open |-> [h \in SftpHandles |-> "free"], names |-> 0, file |-> file, gone |-> FALSE, prompts |-> 0]

SftpInit ==
  /\ sftpReq = [up |-> FALSE, login |-> "no", handle |-> "none", buf |-> "none", stale |-> FALSE,
                offset |-> 0, names |-> <<>>]
  /\ sftpWait = "none" /\ sftpJob = SftpNoJob
  /\ sftpOut = <<>> /\ sftpIn = <<>> /\ sftpTty = "none"
  /\ sftpServer = SftpFresh(<<>>)

-----------------------------------------------------------------------------
(* An outcome: the request and the operation as they become, and the       *)
(* request that is sent, for a purpose, if any.                            *)

SftpOutcome(req, job, purpose, send) == [req |-> req, job |-> job, for |-> purpose, send |-> send]
\* sshv2_send_command()
SftpSend(req, job, purpose, cmd, h, pos, data) ==
  SftpOutcome(req, job, purpose, <<[cmd |-> cmd, h |-> h, pos |-> pos, data |-> data]>>)
SftpAsk(req, job, purpose, cmd) == SftpSend(req, job, purpose, cmd, "none", 0, <<>>)

\* The transfer or the listing goes on: its next call comes from the caller.
SftpGoOn(req, job) == SftpOutcome(req, job, "none", <<>>)
SftpReturn(req, job, ret) == SftpOutcome(req, [job EXCEPT !.on = FALSE, !.ret = ret], "none", <<>>)

\* The operation fails; a transfer_buffer that is left is stale from here on.
SftpFail(req, job, ret) == SftpReturn([req EXCEPT !.stale = req.buf # "none"], job, ret)

\* sshv2_disconnect(): neither handle_len nor transfer_buffer is touched.
SftpDropped(req) == [req EXCEPT !.up = FALSE, !.login = "no", !.names = <<>>]

\* sshv2_wrong_response()
SftpWrong(req, job) == SftpFail(SftpDropped(req), job, "fatal")

\* sshv2_response_return_code()
SftpReturnCode(req, job, code) ==
  CASE code \in {"ok", "eof", "failure"} -> SftpFail(req, job, "retry")
    [] code = "denied" -> SftpFail(req, job, "fatal")
    [] code = "bad" -> SftpWrong(req, job)

\* sshv2_read_status_response(), for an answer that is not of the kind expected: the
\* server's refusal, or anything else.
SftpRefused(r, req, job) ==
  CASE r.kind # "STATUS" -> SftpWrong(req, job)
    [] r.kind = "STATUS" /\ r.code = "denied" -> SftpFail(req, job, "fatal")
    [] OTHER -> SftpFail(req, job, "retry")

-----------------------------------------------------------------------------
(* The end of a transfer *)

SftpKeepsBuffer(req, job) == SftpReturn([req EXCEPT !.handle = "none"], job, "ok")
\* The end of sshv2_end_transfer()
SftpEnded(req, job) ==
  SftpReturn([req EXCEPT !.handle = "none", !.buf = "none", !.stale = FALSE], job, "ok")

SftpEndUnread(req, job) ==
  [SftpSend([req EXCEPT !.names = <<>>, !.handle = "none"], job, "none", "CLOSE", req.handle, 0, <<>>) EXCEPT
    !.job = [job EXCEPT !.on = FALSE, !.ret = "ok"]]
\* sshv2_end_transfer(): what is left of a listing is dropped, the handle is closed.
SftpEnd(req, job) ==
  LET r == [req EXCEPT !.names = <<>>]
  IN IF req.handle # "none" THEN SftpSend(r, job, "close", "CLOSE", req.handle, 0, <<>>) ELSE SftpEnded(r, job)

SftpClosed(r, req, job) == IF r.kind = "STATUS" THEN SftpEnded(req, job) ELSE SftpWrong(req, job)

-----------------------------------------------------------------------------
(* Login *)

\* sshv2_getcwd() and sshv2_chdir()
SftpGetcwd(req, job, purpose) == SftpAsk(req, job, purpose, "REALPATH")
SftpGotCwd(r, req, job) == IF r.kind = "NAME" THEN SftpReturn(req, job, "ok") ELSE SftpRefused(r, req, job)

\* sshv2_connect(), from the VERSION on: when the directory is not there the one of the login
\* is asked for, and when that fails too the session is left.
SftpGotVersion(r, req, job) ==
  IF r.kind = "VERSION" THEN SftpGetcwd([req EXCEPT !.login = "no"], job, "cwd") ELSE SftpWrong(req, job)
SftpGotFirst(r, req, job) ==
  LET first == SftpGotCwd(r, req, job)
  IN CASE first.job.ret = "ok" -> first
       [] first.job.ret # "ok" /\ first.req.up -> SftpGetcwd(req, job, "cwd again")
       [] OTHER -> SftpWrong(req, job)
SftpGotSecond(r, req, job) ==
  LET second == SftpGotCwd(r, req, job)
  IN IF second.job.ret = "ok" THEN second ELSE [second EXCEPT !.req = SftpDropped(@)]

\* sshv2_start_login_sequence(): the same question for the password a second time means it
\* was wrong; the user may say no, or give no pass code, and the terminal may not take the
\* answer.
SftpAnswers ==
  LET login == sftpReq.login
      going == SftpOutcome(sftpReq, sftpJob, sftpWait, <<>>)
      given == [going EXCEPT !.req.login = "wrotepw"]
      given_up == SftpWrong(sftpReq, sftpJob)
  IN CASE sftpTty = "password" -> IF login = "wrotepw" THEN {given_up} ELSE {given, given_up}
       [] sftpTty \in {"yes/no", "passcode"} -> {going, given_up}
       [] OTHER -> {going}

-----------------------------------------------------------------------------
(* Listings and transfers *)

\* sshv2_list_files() and sshv2_open_file()
SftpGotHandle(r, req, job) ==
  LET q == [req EXCEPT !.handle = r.h]
  IN CASE r.kind = "HANDLE" /\ job.op = "get" -> SftpAsk(q, job, "size", "STAT")
       [] r.kind = "HANDLE" /\ job.op # "get" -> SftpGoOn(q, job)
       [] OTHER -> SftpRefused(r, req, job)

\* sshv2_get_file(): the handle stays open when its size is not to be had.
SftpGotSize(r, req, job) == IF r.kind = "ATTRS" THEN SftpGoOn(req, job) ELSE SftpRefused(r, req, job)

\* sshv2_get_next_file(): the next name of the message; any status is the end of the listing.
SftpGiveName(req, job) == SftpGoOn([req EXCEPT !.names = Tail(@)], [job EXCEPT !.got = Append(@, Head(req.names))])
SftpGotNames(r, req, job) ==
  CASE r.kind = "NAME" -> SftpGiveName([req EXCEPT !.names = r.data], job)
    [] r.kind = "STATUS" -> SftpEnd(req, [job EXCEPT !.clean = r.code = "eof"])
    [] OTHER -> SftpWrong(req, job)

\* transfer_buffer as the next READ or WRITE finds it
SftpBuffer(req) == IF req.buf = "none" THEN [req EXCEPT !.buf = req.handle] ELSE req

SftpSkipsShort(r, req, job) ==
  IF r.kind = "DATA" THEN SftpGoOn([req EXCEPT !.offset = IF @ + SftpBlock < SftpSize THEN @ + SftpBlock ELSE SftpSize],
                                   [job EXCEPT !.got = @ \o r.data])
  ELSE SftpEnd(req, job)
\* sshv2_get_next_file_chunk(): the file goes on after the bytes that came, which may be fewer
\* than were asked for.
SftpGotData(r, req, job) ==
  CASE r.kind = "DATA" -> SftpGoOn([req EXCEPT !.offset = @ + Len(r.data)], [job EXCEPT !.got = @ \o r.data])
    [] r.kind # "DATA" /\ r.code = "eof" -> SftpEnd(req, job)
    [] OTHER -> SftpReturnCode(req, job, r.code)

\* The bytes of the next WRITE
SftpChunk(job) == SubSeq(SftpData, job.from + 1, IF job.from + SftpBlock < SftpSize THEN job.from + SftpBlock ELSE SftpSize)

\* sshv2_put_next_file_chunk(): num is not set when the answer is a refusal, and a num that
\* happens to be SSH_FX_EOF ends the file.
SftpGotWritten(r, req, job) ==
  LET n == Len(SftpChunk(job))
      failed == SftpReturnCode(req, job, r.code)
  IN CASE r.kind # "STATUS" -> {SftpWrong(req, job)}
       [] r.kind = "STATUS" /\ r.code = "ok" -> {SftpGoOn([req EXCEPT !.offset = @ + n], [job EXCEPT !.from = @ + n])}
       [] OTHER -> {failed, IF failed.req.up THEN SftpEnd(req, [job EXCEPT !.clean = FALSE]) ELSE failed}

\* sshv2_send_command_and_check_response() does not look at the kind of the answer.
SftpChecked(r, req, job) ==
  IF r.code = "ok" THEN SftpReturn(req, job, "ok") ELSE SftpReturnCode(req, job, r.code)

SftpOutcomes(r) ==
  LET q == sftpReq
      j == sftpJob
  IN CASE sftpWait = "version" -> {SftpGotVersion(r, q, j)}
       [] sftpWait = "cwd" -> {SftpGotFirst(r, q, j)}
       [] sftpWait = "cwd again" -> {SftpGotSecond(r, q, j)}
       [] sftpWait = "chdir" -> {SftpGotCwd(r, q, j)}
       [] sftpWait \in {"list", "open"} -> {SftpGotHandle(r, q, j)}
       [] sftpWait = "size" -> {SftpGotSize(r, q, j)}
       [] sftpWait = "next" -> {SftpGotNames(r, q, j)}
       [] sftpWait = "read" -> {SftpGotData(r, q, j)}
       [] sftpWait = "write" -> SftpGotWritten(r, q, j)
       [] sftpWait = "close" -> {SftpClosed(r, q, j)}
       [] sftpWait = "stat" -> {SftpReturn(q, j, IF r.kind = "ATTRS" THEN "ok" ELSE SftpRefused(r, q, j).job.ret)}
       [] sftpWait = "command" -> {SftpChecked(r, q, j)}

-----------------------------------------------------------------------------
(* The session reads, waits in vain, or loops *)

\* The code goes on to outcome o; what a session had on its way ends with it.
SftpApply(o, in) ==
  /\ sftpReq' = o.req /\ sftpJob' = o.job /\ sftpWait' = IF o.req.up THEN o.for ELSE "none"
  /\ IF o.req.up THEN sftpOut' = sftpOut \o o.send /\ sftpIn' = in /\ UNCHANGED sftpServer
     ELSE sftpOut' = <<>> /\ sftpIn' = <<>> /\ sftpServer' = SftpFresh(sftpServer.file)

\* sshv2_read_response(); in the login, as soon as there is something to read.
SftpRead ==
  /\ sftpWait # "none" /\ sftpIn # <<>>
  /\ \E o \in SftpOutcomes(Head(sftpIn)) : SftpApply(o, Tail(sftpIn))
  /\ sftpTty' = "none"

\* gftp_fd_read() or gftp_fd_write() fails, or waits network_timeout in vain.
SftpBroken ==
  /\ sftpWait # "none" /\ sftpReq.login = "no"
  /\ SftpApply(SftpFail(SftpDropped(sftpReq), sftpJob, IF sftpWait = "cwd" THEN "fatal" ELSE "retry"), <<>>)
  /\ sftpTty' = "none"

\* At the end of file gftp_fd_read() returns 0, and sshv2_read_response() reads again.
SftpSpins == sftpServer.gone /\ sftpIn = <<>>
SftpSpin == sftpWait # "none" /\ SftpSpins /\ UNCHANGED sftpVars

SftpLogin ==
  /\ sftpReq.login # "no" /\ sftpTty # "none" /\ sftpIn = <<>>
  /\ \E o \in SftpAnswers : SftpApply(o, sftpIn)
  /\ sftpTty' = "none"

\* select() fails, or the user cancels; it has no timeout.
SftpLoginBroken ==
  /\ sftpReq.login # "no"
  /\ SftpApply(SftpFail(SftpDropped(sftpReq), sftpJob, "retry"), <<>>)
  /\ sftpTty' = "none"

SftpClient == SftpRead \/ SftpBroken \/ SftpSpin \/ SftpLogin \/ SftpLoginBroken

-----------------------------------------------------------------------------
(* The caller *)

SftpCall(o) == SftpApply(o, sftpIn) /\ UNCHANGED sftpTty
SftpIdle == ~sftpJob.on /\ sftpWait = "none"

\* gftp_get_transfer_status() disconnects after a transfer that failed.
SftpReady == SftpIdle /\ sftpReq.up /\ ~(sftpJob.op \in {"get", "put"} /\ sftpJob.ret \in {"retry", "fatal"})
SftpNew(op) == [SftpNoJob EXCEPT !.op = op, !.on = TRUE]
SftpMoving(op) == sftpJob.on /\ sftpJob.op = op /\ sftpWait = "none"

\* sshv2_connect(): gftp_exec(), and INIT, which is written before the login.
SftpConnect ==
  /\ SftpIdle /\ ~sftpReq.up
  /\ SftpCall(SftpAsk([sftpReq EXCEPT !.up = TRUE, !.login = "yes"], SftpNew("connect"), "version", "INIT"))

\* sshv2_rmdir(), sshv2_rmfile(), sshv2_chmod(), sshv2_mkdir(), sshv2_rename(), sshv2_set_file_time()
SftpCommand == SftpReady /\ SftpCall(SftpAsk(sftpReq, SftpNew("command"), "command", "COMMAND"))
\* sshv2_stat_filename() and sshv2_get_file_size()
SftpStat == SftpReady /\ SftpCall(SftpAsk(sftpReq, SftpNew("command"), "stat", "STAT"))
SftpChdir == SftpReady /\ SftpCall(SftpGetcwd(sftpReq, SftpNew("chdir"), "chdir"))

SftpListFiles ==
  SftpReady /\ SftpCall(SftpAsk([sftpReq EXCEPT !.names = <<>>], SftpNew("list"), "list", "OPENDIR"))
SftpNextFile ==
  /\ SftpMoving("list")
  /\ SftpCall(IF sftpReq.names # <<>> THEN SftpGiveName(sftpReq, sftpJob)
              ELSE SftpSend(sftpReq, sftpJob, "next", "READDIR", sftpReq.handle, 0, <<>>))

SftpGetFile ==
  \E start \in {0, 1} :
    SftpReady /\ SftpCall(SftpAsk([sftpReq EXCEPT !.offset = start],
                                 [SftpNew("get") EXCEPT !.start = start], "open", "OPEN"))
\* sshv2_put_file(), from the start or from the end of the file as it is
SftpPutFile ==
  \E start \in {0, Len(sftpServer.file)} :
    SftpReady /\ SftpCall(SftpAsk([sftpReq EXCEPT !.offset = start],
                                 [SftpNew("put") EXCEPT !.start = start, !.from = start], "open", "OPEN"))

SftpNextRead ==
  LET req == SftpBuffer(sftpReq)
  IN SftpMoving("get") /\ SftpCall(SftpSend(req, sftpJob, "read", "READ", req.buf, req.offset, <<>>))
\* Once more, or the end of the source
SftpNextWrite ==
  LET req == SftpBuffer(sftpReq)
  IN /\ SftpMoving("put")
     /\ SftpCall(IF SftpChunk(sftpJob) = <<>> THEN SftpEnd(sftpReq, sftpJob)
                 ELSE SftpSend(req, sftpJob, "write", "WRITE", req.buf, req.offset, SftpChunk(sftpJob)))

\* abort_transfer is sshv2_end_transfer().
SftpAbort ==
  (SftpMoving("get") \/ SftpMoving("put")) /\ SftpCall(SftpEnd(sftpReq, [sftpJob EXCEPT !.clean = FALSE]))
SftpDisconnect ==
  sftpReq.up /\ sftpWait = "none" /\ SftpCall(SftpFail(SftpDropped(sftpReq), sftpJob, "none"))

SftpCaller ==
  \/ SftpConnect \/ SftpCommand \/ SftpStat \/ SftpChdir \/ SftpListFiles \/ SftpNextFile
  \/ SftpGetFile \/ SftpPutFile \/ SftpNextRead \/ SftpNextWrite \/ SftpAbort \/ SftpDisconnect

-----------------------------------------------------------------------------
(* ssh and the server *)

SftpMsg(q, kind, code, h, data) == [to |-> q.cmd, kind |-> kind, code |-> code, h |-> h, data |-> data]

\* Refusals: a status, or a message nobody expects.
SftpRefusals(q) ==
  {SftpMsg(q, "STATUS", code, "none", <<>>) : code \in {"failure", "denied", "bad"}} \cup
  {SftpMsg(q, "OTHER", "bad", "none", <<>>)}

SftpLaid(file, pos, data) == SubSeq(file, 1, pos) \o data \o SubSeq(file, pos + Len(data) + 1, Len(file))

SftpGrant(q, kind, data, server) == {[msg |-> SftpMsg(q, kind, "ok", q.h, data), server |-> server]}
SftpOpens(q, use, server) ==
  {[msg |-> SftpMsg(q, "HANDLE", "ok", h, <<>>), server |-> [server EXCEPT !.open[h] = use]] :
     h \in {g \in SftpHandles : sftpServer.open[g] = "free"}}
SftpAtEnd(q) == {[msg |-> SftpMsg(q, "STATUS", "eof", "none", <<>>), server |-> sftpServer]}
SftpUse(q) == IF q.h = "none" THEN "free" ELSE sftpServer.open[q.h]
SftpUpTo(n) == {k \in 1..SftpBlock : n + k <= SftpSize}

\* What the server may do with q when it grants it
SftpGrants(q) ==
  LET s == sftpServer
  IN CASE q.cmd = "INIT" -> SftpGrant(q, "VERSION", <<>>, s)
       [] q.cmd = "REALPATH" -> SftpGrant(q, "NAME", <<>>, s)
       [] q.cmd = "STAT" -> SftpGrant(q, "ATTRS", <<>>, s)
       [] q.cmd = "COMMAND" -> SftpGrant(q, "STATUS", <<>>, s)
       [] q.cmd = "OPENDIR" -> SftpOpens(q, "dir", [s EXCEPT !.names = 0])
       [] q.cmd = "OPEN" ->
            SftpOpens(q, sftpJob.op, IF sftpJob.op = "put" /\ sftpJob.start = 0 THEN [s EXCEPT !.file = <<>>] ELSE s)
       [] q.cmd = "READDIR" /\ SftpUse(q) = "dir" ->
            IF s.names = SftpSize THEN SftpAtEnd(q)
            ELSE UNION {SftpGrant(q, "NAME", SubSeq(SftpData, s.names + 1, s.names + k), [s EXCEPT !.names = @ + k]) :
                          k \in SftpUpTo(s.names)}
       [] q.cmd = "READ" /\ SftpUse(q) = "get" ->
            IF q.pos = SftpSize THEN SftpAtEnd(q)
            ELSE UNION {SftpGrant(q, "DATA", SubSeq(SftpData, q.pos + 1, q.pos + k), s) : k \in SftpUpTo(q.pos)}
       [] q.cmd = "WRITE" /\ SftpUse(q) = "put" ->
            SftpGrant(q, "STATUS", <<>>, [s EXCEPT !.file = SftpLaid(@, q.pos, q.data)])
       [] q.cmd = "CLOSE" /\ SftpUse(q) # "free" -> SftpGrant(q, "STATUS", <<>>, [s EXCEPT !.open[q.h] = "free"])
       [] OTHER -> {}

SftpServe ==
  /\ sftpOut # <<>> /\ ~sftpServer.gone /\ sftpTty = "none"
  /\ LET q == Head(sftpOut)
     IN \E a \in SftpGrants(q) \cup {[msg |-> m, server |-> sftpServer] : m \in SftpRefusals(q)} :
          sftpIn' = Append(sftpIn, a.msg) /\ sftpServer' = a.server
  /\ sftpOut' = Tail(sftpOut)
  /\ UNCHANGED <<sftpReq, sftpWait, sftpJob, sftpTty>>

\* ssh asks something, before it has read INIT.
SftpPrompt ==
  /\ sftpReq.login # "no" /\ sftpOut # <<>> /\ ~sftpServer.gone
  /\ sftpTty = "none" /\ sftpServer.prompts < SftpPrompts
  /\ sftpTty' \in SftpQuestions \ {"none"}
  /\ sftpServer' = [sftpServer EXCEPT !.prompts = @ + 1]
  /\ UNCHANGED <<sftpReq, sftpWait, sftpJob, sftpOut, sftpIn>>

SftpQuit ==
  /\ sftpReq.up /\ ~sftpServer.gone /\ sftpServer' = [sftpServer EXCEPT !.gone = TRUE]
  /\ UNCHANGED <<sftpReq, sftpWait, sftpJob, sftpOut, sftpIn, sftpTty>>

SftpServerSide == SftpServe \/ SftpPrompt \/ SftpQuit

SftpNext == SftpClient \/ SftpCaller \/ SftpServerSide

\* Only outside the login is every wait bounded by network_timeout.
SftpTimely == sftpReq.login = "no" /\ (SftpRead \/ SftpBroken)
SftpFairness == WF_sftpVars(SftpTimely)
SftpSpec == SftpInit /\ [][SftpNext]_sftpVars /\ SftpFairness

-----------------------------------------------------------------------------
(* Properties *)

\* One answer is read for each request, and it is its own, though their numbers are not
\* compared (sshv2_read_response(), sshv2_end_transfer()).
SftpInStep ==
  /\ Len(sftpOut) + Len(sftpIn) = IF sftpWait = "none" THEN 0 ELSE 1
  /\ sftpIn # <<>> => (Head(sftpIn).to = "CLOSE" <=> sftpWait = "close")

\* A READ or WRITE names a handle that the server has open for this very transfer, and a
\* READDIR one of a directory; except that after a transfer that failed transfer_buffer still
\* names the old handle (sshv2_get_next_file_chunk(), sshv2_disconnect()).
SftpRightHandle ==
  \A i \in 1..Len(sftpOut) :
    LET q == sftpOut[i]
    IN /\ q.cmd \in {"READ", "WRITE"} => sftpReq.stale \/ SftpUse(q) = sftpJob.op
       /\ q.cmd = "READDIR" => SftpUse(q) = "dir"

\* What was downloaded, and the file of the server, are the bytes of the source in order from
\* the start of the transfer, whole when it ended without a refusal; a listing that ends with
\* SSH_FX_EOF has every name once (the offset of sshv2_get_next_file_chunk() and
\* sshv2_put_next_file_chunk(), the names left of sshv2_get_next_file()).
SftpIntact ==
  LET whole == sftpJob.ret = "ok" /\ sftpJob.clean
      wanted == SubSeq(SftpData, sftpJob.start + 1, SftpSize)
  IN /\ IsPrefix(sftpServer.file, SftpData)
     /\ sftpJob.op \in {"get", "list"} => IsPrefix(sftpJob.got, wanted)
     /\ whole /\ sftpJob.op \in {"get", "list"} => sftpJob.got = wanted
     /\ whole /\ sftpJob.op = "put" => sftpServer.file = SftpData

\* Outside the login a call returns, unless the connection is at its end of file
\* (sshv2_read_response(), gftp_fd_read()).
SftpWaits == sftpWait # "none" /\ sftpReq.login = "no" /\ ~sftpServer.gone
SftpReturns == SftpWaits ~> ~SftpWaits
=============================================================================
