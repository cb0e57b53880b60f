---------------------------- MODULE FtpControl ----------------------------
(***************************************************************************)
(* The control connection of an FTP session (lib/rfc959.c): one command is *)
(* written, one reply is read and taken for the answer.  Nothing in the    *)
(* protocol ties the two together, so the two ends agree only as long as   *)
(* every reply is read, once.                                              *)
(*                                                                         *)
(* A reply of class 42x makes rfc959_send_command() reconnect and send the *)
(* command again, from wherever it was called, the commands of the login   *)
(* included: calls is the resulting stack of C calls that wait for a       *)
(* reply.  Below is always the operation the caller asked for, above it    *)
(* are gftp_connect() calls.                                               *)
(***************************************************************************)
EXTENDS Naturals, Sequences, SequencesExt

CONSTANTS
  HasAccount,     \* request->account != NULL
  HasDirectory,   \* request->directory is set
  DefaultAscii,   \* the option "ascii_transfers"
  Ops,            \* the operations the callers use
  MaxDepth,       \* bound on nested calls: the server is not busy beyond it
  MaxUnread       \* bound on the replies that wait for the client

AllOps == {"connect", "command", "rename", "chdir", "list", "get", "put", "end", "abort"}
Logins == {"USER", "PASS", "ACCT", "SYST", "CWD", "PWD"}
TypeCmd(ascii) == IF ascii THEN "TYPE A" ELSE "TYPE I"
Setups == {"TYPE A", "TYPE I", "PASV", "PORT", "REST"}
Cmds == Logins \cup Setups \cup {"BANNER", "XFER", "CMD", "RNFR", "RNTO", "ABOR"}
Classes == {"1", "2", "3", "4", "42", "5"}

ASSUME OptionAssumption == {HasAccount, HasDirectory, DefaultAscii} \subseteq BOOLEAN
ASSUME BoundAssumption == MaxDepth \in Nat \ {0, 1} /\ MaxUnread \in Nat /\ Ops \subseteq AllOps

VARIABLES
  calls,     \* the calls that wait for a reply, the innermost last
  conn,      \* the request: its descriptors, its data type, its option passive_transfer
  job,       \* the operation at work, with its arguments
  ret,       \* what the last operation returned
  skew,      \* since the login, ABOR was sent in a transfer, or the end of file was read
  toServer,  \* commands on their way
  net,       \* replies on their way
  inbox,     \* parms->datafd_rbuf: lines read from the socket, not yet used
  srv        \* the server's end of the session

vars == <<calls, conn, job, ret, skew, toServer, net, inbox, srv>>

Replies == [cmd : Cmds \cup {"IDLE"}, c : Classes, mine : BOOLEAN]

TypeOK ==
  /\ calls \in Seq([fn : {"op", "connect"}, cmd : Cmds \cup {"END", "RECONNECT"}, again : BOOLEAN, pre : BOOLEAN])
  /\ conn \in [up : BOOLEAN, data : {"none", "made", "open"}, ascii : BOOLEAN, passive : BOOLEAN, moving : BOOLEAN]
  /\ job \in [op : AllOps, ascii : BOOLEAN, resume : BOOLEAN]
  /\ ret \in {"none", "ok", "retry", "fatal", "timeout"}
  /\ skew \in {"no", "abort", "eof"}
  /\ toServer \in Seq(Cmds) /\ net \in Seq(Replies) /\ inbox \in Seq(Replies)
  /\ srv \in [open : BOOLEAN, login : {"no", "user", "account", "yes"}, data : BOOLEAN,
              rest : BOOLEAN, from : BOOLEAN, xfer : BOOLEAN, offset : BOOLEAN]

FreshServer == [open |-> TRUE, login |-> "no", data |-> FALSE, rest |-> FALSE,
                from |-> FALSE, xfer |-> FALSE, offset |-> FALSE]
NoServer == [FreshServer EXCEPT !.open = FALSE]

Job(op, ascii, resume) == [op |-> op, ascii |-> ascii, resume |-> resume]
Plain(op) == Job(op, FALSE, FALSE)

Init ==
  /\ calls = <<>>
  /\ conn = [up |-> FALSE, data |-> "none", ascii |-> FALSE, passive |-> TRUE, moving |-> FALSE]
  /\ job = Plain("connect")
  /\ ret = "none"
  /\ skew = "no"
  /\ toServer = <<>> /\ net = <<>> /\ inbox = <<>>
  /\ srv = NoServer

-----------------------------------------------------------------------------
(* Outcomes: what the client does when it has a reply, up to the next time *)
(* it waits or the operation returns.  k is the request as it becomes.     *)

Frame(fn, cmd, again, pre) == [fn |-> fn, cmd |-> cmd, again |-> again, pre |-> pre]
Top == Last(calls)
Outcome(k, frames, send, r) == [conn |-> k, calls |-> frames, send |-> send, ret |-> r]

\* The operation returns r.
Return(k, r) == Outcome(k, <<>>, "nothing", r)
\* rfc959_send_command (request, cmd, ...), in the innermost of frames
Ask(k, frames, fn, cmd, again, pre) ==
  Outcome(k, Append(frames, Frame(fn, cmd, again, pre)), cmd, "none")

\* gftp_disconnect()
Dropped(k) == [k EXCEPT !.up = FALSE, !.data = "none", !.moving = FALSE]
DataNotReset(k) == [k EXCEPT !.data = "closed"]
\* rfc959_close_data_connection()
NoData(k) == [k EXCEPT !.data = "none"]

\* gftp_connect(), called from the innermost of frames: the server accepts, or not.
Connect(k, frames) ==
  {Ask([k EXCEPT !.up = TRUE], frames, "connect", "BANNER", FALSE, FALSE), Return(k, "retry"), Return(k, "fatal")}

\* The innermost call returns the error e, and so do the calls below it; only
\* gftp_transfer_file() takes GFTP_ETIMEDOUT from its source for a reason to try again.
Fail(k, e) ==
  IF job.op = "get" /\ e = "timeout" /\ calls[1].cmd # "RECONNECT"
    THEN Connect(k, <<Frame("op", "RECONNECT", FALSE, FALSE)>>)
    ELSE {Return(k, e)}

\* rfc959_ipv4_data_connection_new(): a socket, and PASV or PORT.
MakeData(k, frames, again, pre) ==
  Ask([k EXCEPT !.data = "made"], frames, "op", IF k.passive THEN "PASV" ELSE "PORT", again, pre)

\* The steps of rfc959_setup_file_transfer(), each from the point where it starts.
AskTransfer(k) == Ask(k, <<>>, "op", "XFER", FALSE, FALSE)
AskOffset(k, j) == IF j.resume THEN Ask(k, <<>>, "op", "REST", FALSE, FALSE) ELSE AskTransfer(k)
AskData(k, j, pre) == IF k.data = "none" THEN MakeData(k, <<>>, FALSE, pre) ELSE AskOffset(k, j)
\* rfc959_set_data_type()
AskType(k, j, pre) == IF k.ascii = j.ascii THEN AskData(k, j, pre)
                      ELSE Ask([k EXCEPT !.ascii = j.ascii], <<>>, "op", TypeCmd(j.ascii), FALSE, pre)
\* rfc959_put_file() sets the type and the data connection up itself, and calls
\* rfc959_setup_file_transfer(), which does both again where they are still missing.
DataReady(k, pre) ==
  CASE job.op = "list" -> AskTransfer(k)
    [] job.op # "list" /\ pre -> AskType(k, job, FALSE)
    [] OTHER -> AskOffset(k, job)

\* gftp_connect() returned 0 to the call below it, which sends its command again; the
\* data connection went with the old session.
Reconnected(k) ==
  LET below == Front(Front(calls))
      f == calls[Len(calls) - 1]
  IN CASE Len(calls) = 1 -> Return(k, "ok")
       [] Len(calls) > 1 /\ f.cmd = "RECONNECT" -> AskType(k, job, FALSE)
       [] Len(calls) > 1 /\ f.cmd \in {"PASV", "PORT"} -> MakeData(k, below, TRUE, f.pre)
       [] OTHER -> Ask(k, below, f.fn, f.cmd, TRUE, f.pre)

CwdUnchecked(r, done) == {done}
CwdUnquoted(r, done) == IF r.c = "2" THEN {done} ELSE Fail(Dropped(conn), "retry")
\* rfc959_getcwd(): the reply must hold a quoted name; only the answer to PWD does.
GotCwd(r, done) ==
  CASE r.c # "2" -> Fail(Dropped(conn), "retry")
    [] r.c = "2" /\ r.cmd # "PWD" -> Fail(Dropped(conn), "fatal")
    [] OTHER -> {done}

-----------------------------------------------------------------------------
(* rfc959_connect() *)

NextLogin(cmd, c) ==
  CASE cmd = "BANNER" /\ c = "2" -> "USER"
    [] cmd = "USER" /\ c = "3" -> "PASS"
    [] cmd = "PASS" /\ c = "3" /\ HasAccount -> "ACCT"
    [] cmd \in {"USER", "PASS", "ACCT"} /\ c = "2" -> "SYST"
    [] cmd = "SYST" -> TypeCmd(DefaultAscii)
    [] cmd \in {"TYPE A", "TYPE I"} -> IF HasDirectory THEN "CWD" ELSE "PWD"
    [] cmd = "CWD" -> "PWD"
    [] OTHER -> "refused"

GotLogin(cmd, r) ==
  LET next == NextLogin(cmd, r.c)
      k == IF cmd = "SYST" THEN [conn EXCEPT !.ascii = DefaultAscii] ELSE conn
  IN CASE cmd = "PWD" -> GotCwd(r, Reconnected(conn))
       [] cmd # "PWD" /\ next # "refused" -> {Ask(k, Front(calls), "connect", next, FALSE, FALSE)}
       [] OTHER -> Fail(Dropped(conn), IF cmd # "BANNER" /\ r.c = "5" THEN "fatal" ELSE "retry")

-----------------------------------------------------------------------------
(* The operations *)

\* rfc959_ipv4_data_connection_new() once PASV or PORT is answered: only the answer to
\* PASV has an address in it, and the connection to that address may fail.  A server
\* that refuses PASV is asked for PORT, from now on.
GotData(f, r) ==
  CASE f.cmd = "PASV" /\ r.c # "2" ->
         {MakeData([conn EXCEPT !.passive = FALSE], <<>>, f.again, f.pre)}
    [] f.cmd = "PASV" /\ r.c = "2" /\ r.cmd # "PASV" -> Fail(Dropped(conn), "fatal")
    [] f.cmd = "PASV" /\ r.c = "2" /\ r.cmd = "PASV" ->
         {DataReady([conn EXCEPT !.data = "open"], f.pre)} \cup Fail(Dropped(conn), "retry")
    [] f.cmd = "PORT" /\ r.c = "2" -> {DataReady(conn, f.pre)}
    [] OTHER -> Fail(Dropped(conn), "retry")

\* A server that refuses REST would send the whole file.
OffsetUnchecked(r) == AskTransfer(conn)
GotOffset(r) == IF r.c = "3" THEN AskTransfer(conn) ELSE Return(NoData(conn), "retry")

\* A 1xx reply starts the transfer, after rfc959_accept_active_connection() when the
\* server is to connect.  rfc959_list_files() keeps the socket of a refused LIST.
GotTransfer(r) ==
  LET started == {Return([conn EXCEPT !.data = "open", !.moving = TRUE], "ok")}
  IN CASE r.c = "1" -> started \cup (IF conn.passive THEN {} ELSE {Return(Dropped(conn), "retry")})
       [] r.c # "1" /\ job.op = "list" -> {Return(conn, "retry")}
       [] OTHER -> {Return(NoData(conn), IF r.c = "5" THEN "fatal" ELSE "retry")}

\* rfc959_mkdir(), rfc959_rmdir(), rfc959_rmfile(), rfc959_chmod(), rfc959_site(), and
\* the last command of rfc959_rename() and rfc959_end_transfer()
Confirmed(r) == {Return(conn, IF r.c = "2" THEN "ok" ELSE "retry")}

GotOp(f, r) ==
  CASE f.cmd \in {"CMD", "RNTO", "END"} -> Confirmed(r)
    [] f.cmd = "RNFR" -> {IF r.c = "3" THEN Ask(conn, <<>>, "op", "RNTO", FALSE, FALSE) ELSE Return(conn, "retry")}
    [] f.cmd = "CWD" -> {IF r.c = "2" THEN Ask(conn, <<>>, "op", "PWD", FALSE, FALSE) ELSE Return(conn, "retry")}
    [] f.cmd = "PWD" -> GotCwd(r, Return(conn, "ok"))
    [] f.cmd \in {"TYPE A", "TYPE I"} -> {AskData(conn, job, f.pre)}
    [] f.cmd \in {"PASV", "PORT"} -> GotData(f, r)
    [] f.cmd = "REST" -> {GotOffset(r)}
    [] f.cmd = "XFER" -> GotTransfer(r)
    [] OTHER -> {Return(conn, "none")}     \* rfc959_abort_transfer() takes any reply

\* rfc959_read_response(): 42x disconnects; rfc959_send_command() then reconnects, once.
Busy(f) ==
  IF f.cmd \in {"BANNER", "END"} \/ f.again
    THEN Fail(Dropped(conn), "timeout")
    ELSE Connect(Dropped(conn), calls)

Got(f, r) ==
  IF r.c = "42" /\ f.cmd # "ABOR" THEN Busy(f)
  ELSE IF f.fn = "connect" THEN GotLogin(f.cmd, r) ELSE GotOp(f, r)

-----------------------------------------------------------------------------
(* Steps of the client *)

\* Once another command is sent, a reply that is still to be read answers an earlier one.
Aged(s) == [i \in DOMAIN s |-> [s[i] EXCEPT !.mine = FALSE]]

\* A server that closed its end reads no more commands.
Heard(cmds) == IF srv'.open THEN cmds ELSE <<>>

\* The outcome o of job j, with the lines left in the buffer and on the network.  A connection
\* that is closed takes with it what is on the network, never what is in the buffer.
Apply(o, buffer, line, j) ==
  LET fresh == o.send = "BANNER"
      old == IF conn.up /\ o.conn.up /\ ~fresh THEN [in |-> toServer, out |-> line] ELSE [in |-> <<>>, out |-> <<>>]
  IN /\ calls' = o.calls /\ conn' = o.conn /\ ret' = o.ret
     /\ job' = IF o.calls = <<>> /\ ~o.conn.moving THEN Plain("connect") ELSE j
     /\ net' = IF o.send = "nothing" THEN old.out ELSE Aged(old.out)
     /\ inbox' = IF o.send = "nothing" THEN buffer ELSE Aged(buffer)
     /\ srv' = CASE fresh -> FreshServer
                  [] ~fresh /\ o.conn.up -> srv
                  [] OTHER -> NoServer
     /\ toServer' = Heard(IF o.send = "nothing" THEN old.in ELSE Append(old.in, o.send))

\* A login that succeeds shows that the two ends are in step again.
LoginDone(r) == Top.fn = "connect" /\ Top.cmd = "PWD" /\ r.cmd = "PWD" /\ r.c = "2"

\* gftp_get_line(): the next line of the buffer; when it is empty, a read() brings some
\* of the lines that have arrived.
Read ==
  /\ calls # <<>>
  /\ \E n \in 0..Len(net) :
       LET buffer == inbox \o SubSeq(net, 1, n)
       IN /\ (n = 0) <=> (inbox # <<>>)
          /\ \E o \in Got(Top, Head(buffer)) : Apply(o, Tail(buffer), SubSeq(net, n + 1, Len(net)), job)
          /\ skew' = IF LoginDone(Head(buffer)) THEN "no" ELSE skew

\* At the end of file the line is whatever is on the stack, often an earlier reply.
ReadEof ==
  /\ calls # <<>> /\ ~srv.open /\ inbox = <<>> /\ net = <<>>
  /\ \E r \in [cmd : {Top.cmd, "IDLE"}, c : Classes, mine : {FALSE}] :
       /\ r.c = "42" => Len(calls) < MaxDepth
       /\ \E o \in Got(Top, r) : Apply(o, inbox, net, job)
  /\ skew' = "eof"

NoTimeout == FALSE
\* network_timeout, a reset connection or a failed write: gftp_fd_read() and
\* gftp_fd_write() disconnect.  A failing socket(), bind() or listen() before PASV or
\* PORT comes to the same.  rfc959_abort_transfer() returns 0 all the same.
ReadFails ==
  /\ calls # <<>> /\ inbox = <<>>
  /\ \E o \in Fail(Dropped(conn), IF Top.cmd = "ABOR" THEN "none" ELSE "retry") : Apply(o, inbox, net, job)
  /\ UNCHANGED skew

\* The caller's next operation.
Call(o, j) == Apply(o, inbox, net, j)

Unread == toServer \o net \o inbox
Idle == calls = <<>>
Ready == Idle /\ conn.up /\ ~conn.moving /\ Len(Unread) <= MaxUnread

CallConnect ==
  /\ "connect" \in Ops /\ Idle /\ ~conn.up
  /\ \E o \in Connect(conn, <<>>) : Call(o, Plain("connect"))
  /\ UNCHANGED skew

CallCommand(op, cmd) ==
  /\ op \in Ops /\ Ready
  /\ Call(Ask(conn, <<>>, "op", cmd, FALSE, FALSE), Plain(op))
  /\ UNCHANGED skew

CallList ==
  /\ "list" \in Ops /\ Ready
  /\ Call(MakeData(conn, <<>>, FALSE, FALSE), Plain("list"))
  /\ UNCHANGED skew

\* gftp_transfer_file(): this request is its source, or its destination.
CallTransfer(op) ==
  /\ op \in Ops /\ Ready
  /\ \E ascii, resume \in BOOLEAN :
       LET j == Job(op, ascii, resume) IN Call(AskType(conn, j, op = "put"), j)
  /\ UNCHANGED skew

EndUnread ==
  /\ "end" \in Ops /\ Idle /\ conn.up /\ conn.moving
  /\ Call(Return([NoData(conn) EXCEPT !.moving = FALSE], "ok"), Plain("end"))
  /\ UNCHANGED skew
\* rfc959_end_transfer()
CallEnd ==
  /\ "end" \in Ops /\ Idle /\ conn.up /\ conn.moving
  /\ Call(Outcome([NoData(conn) EXCEPT !.moving = FALSE], <<Frame("op", "END", FALSE, FALSE)>>, "nothing", "none"), Plain("end"))
  /\ UNCHANGED skew

\* rfc959_abort_transfer(), also called when the transfer had not started or was over
CallAbort ==
  /\ "abort" \in Ops /\ Idle /\ conn.up /\ job.op # "list"
  /\ Len(Unread) <= MaxUnread
  /\ Call(Ask([NoData(conn) EXCEPT !.moving = FALSE], <<>>, "op", "ABOR", FALSE, FALSE), Plain("abort"))
  /\ skew' = IF conn.moving /\ skew = "no" THEN "abort" ELSE skew

\* gftp_disconnect(), by the user, after an error, or by a read of the data connection
\* that failed
CallDisconnect ==
  /\ Idle /\ conn.up
  /\ Call(Return(Dropped(conn), "none"), job)
  /\ UNCHANGED skew

-----------------------------------------------------------------------------
(* The server *)

Answer(c, s) == [c |-> c, srv |-> s]
\* RNTO must follow RNFR at once; the offset of a transfer that is over means nothing.
Settled == [srv EXCEPT !.from = FALSE, !.offset = srv.offset /\ srv.xfer]
Accepts(cmd) ==
  LET in == srv.login = "yes"
      s == Settled
  IN CASE cmd \in {"BANNER", "SYST", "TYPE A", "TYPE I"} -> {Answer("2", s)}
       [] cmd = "USER" -> {Answer("3", [s EXCEPT !.login = "user"]), Answer("2", [s EXCEPT !.login = "yes"])}
       [] cmd = "PASS" /\ srv.login = "user" ->
            {Answer("2", [s EXCEPT !.login = "yes"]), Answer("3", [s EXCEPT !.login = "account"])}
       [] cmd = "ACCT" /\ srv.login = "account" -> {Answer("2", [s EXCEPT !.login = "yes"])}
       [] cmd \in {"PASS", "CWD", "PWD", "CMD"} /\ in -> {Answer("2", s)}
       [] cmd \in {"PASV", "PORT"} /\ in -> {Answer("2", [s EXCEPT !.data = TRUE])}
       [] cmd = "REST" /\ in -> {Answer("3", [s EXCEPT !.rest = TRUE])}
       [] cmd = "RNFR" /\ in -> {Answer("3", [s EXCEPT !.from = TRUE])}
       [] cmd = "RNTO" /\ in /\ srv.from -> {Answer("2", s)}
       [] cmd = "XFER" /\ in /\ srv.data ->
            {Answer("1", [s EXCEPT !.data = FALSE, !.rest = FALSE, !.xfer = TRUE, !.offset = srv.rest])}
       [] cmd = "XFER" /\ in /\ ~srv.data -> {Answer("42", s)}    \* 425 Use PASV or PORT first
       [] OTHER -> {}

\* The server may refuse any command, and forget the data connection of a transfer it
\* refuses; 4xx is the other way to refuse.
Refuses(cmd) ==
  IF cmd = "XFER" THEN {Answer(c, [Settled EXCEPT !.rest = FALSE, !.data = d]) : c \in {"4", "5"}, d \in {FALSE, srv.data}}
  ELSE {Answer("5", Settled)}

\* 421: the server is too busy and closes.
TooBusy == IF Len(calls) < MaxDepth THEN {Answer("42", [srv EXCEPT !.open = FALSE])} ELSE {}

\* Replies to the oldest command.  ABOR in a transfer has two: that of the transfer,
\* 426, and that of ABOR.
Serve ==
  /\ srv.open /\ toServer # <<>>
  /\ LET cmd == Head(toServer)
         mine == Len(toServer) = 1
         reply(of, c) == [cmd |-> of, c |-> c, mine |-> mine]
     IN \/ /\ cmd # "ABOR"
           /\ \E a \in Accepts(cmd) \cup Refuses(cmd) \cup TooBusy :
                net' = Append(net, reply(cmd, a.c)) /\ srv' = a.srv
        \/ /\ cmd = "ABOR" /\ srv.xfer
           /\ net' = net \o <<reply("XFER", "4"), reply("ABOR", "2")>>
           /\ srv' = [srv EXCEPT !.xfer = FALSE]
        \/ /\ cmd = "ABOR" /\ ~srv.xfer
           /\ net' = Append(net, reply("ABOR", "2")) /\ srv' = srv
  /\ toServer' = Heard(Tail(toServer))
  /\ UNCHANGED <<calls, conn, job, ret, skew, inbox>>

\* The transfer is over, well or not: 226, 426 or 451.
Complete ==
  /\ srv.open /\ srv.xfer /\ toServer = <<>>
  /\ srv' = [srv EXCEPT !.xfer = FALSE]
  /\ \E c \in {"2", "4"} : net' = Append(net, [cmd |-> "XFER", c |-> c, mine |-> TRUE])
  /\ UNCHANGED <<calls, conn, job, ret, skew, inbox, toServer>>

\* 421 Timeout, unasked; or the server just goes away.
Close ==
  /\ srv.open /\ conn.up
  /\ srv' = [srv EXCEPT !.open = FALSE]
  /\ \/ /\ ~srv.xfer /\ Len(calls) < MaxDepth /\ Len(net \o inbox) <= MaxUnread
        /\ net' = Append(net, [cmd |-> "IDLE", c |-> "42", mine |-> FALSE])
     \/ net' = net
  /\ toServer' = <<>>
  /\ UNCHANGED <<calls, conn, job, ret, skew, inbox>>

-----------------------------------------------------------------------------
Client == Read \/ ReadEof \/ ReadFails
Caller ==
  \/ CallConnect \/ CallList \/ CallEnd \/ CallAbort \/ CallDisconnect
  \/ CallCommand("command", "CMD") \/ CallCommand("rename", "RNFR") \/ CallCommand("chdir", "CWD")
  \/ \E op \in {"get", "put"} : CallTransfer(op)
Server == Serve \/ Complete \/ Close

Next == Client \/ Caller \/ Server

\* select() returns in the end, with an answer or because of network_timeout.
Spec == Init /\ [][Next]_vars /\ WF_vars(Client)

-----------------------------------------------------------------------------
(* Properties *)

\* The reply that Read takes.
NextLine == Head(inbox \o net)

\* The server closed, and may have said so.
Farewell(r) == r.cmd = "IDLE"

\* An operation that returns success was confirmed by the reply to its own last command:
\* rfc959_read_response() cannot know, the callers believe it.
SuccessIsAnswered ==
  [][~Idle /\ Idle' /\ ret' = "ok" /\ skew' = "no" => inbox \o net # <<>> /\ NextLine.mine]_vars

\* When an operation is over there is nothing left to read: the next command will have its
\* own reply.
InStep == Idle /\ conn.up /\ ~conn.moving /\ skew = "no" =>
            /\ toServer = <<>>
            /\ \A i \in DOMAIN (net \o inbox) : Farewell((net \o inbox)[i])

\* Between operations a connected request is logged in, whatever was left in the buffer
\* of an earlier session and however often the server was busy.
LoggedIn == Idle /\ conn.up /\ skew = "no" => srv.login = "yes"

\* A transfer that starts does so where the caller asked, even when the session was
\* replaced between REST and RETR or STOR.
OffsetHonoured == conn.moving /\ skew = "no" /\ job.op \in {"get", "put"} => srv.offset = job.resume

\* Every operation returns, unless the server goes on answering that it is busy.
NotBusy == ~ReadEof /\ (Read => NextLine.c # "42")
OperationReturns == <>[][NotBusy]_vars => (calls # <<>> ~> calls = <<>>)
=============================================================================
