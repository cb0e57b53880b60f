-------------------------------- MODULE Fsp --------------------------------
(***************************************************************************)
(* An FSP session (lib/fsp.c, lib/fsplib/fsplib.c): requests and replies   *)
(* are datagrams, lost, repeated and late.  fsp_transaction() sends its    *)
(* request again until a reply matches it; an upload is a series of blocks *)
(* written to a temporary file of the server, which INSTALL names.         *)
(*                                                                         *)
(* One thread runs the session, so there is one transaction at a time;     *)
(* fspCall.for says what the caller does with its outcome.  A byte of the  *)
(* file at the source is its own place in it, from 1; 0 is a hole.         *)
(***************************************************************************)
EXTENDS Naturals, Sequences, FiniteSets, SequencesExt

CONSTANTS
  FspSeqs,     \* what random() & 0xfff8 may return
  FspSize,     \* length of the file that is read or written, and of the listing
  FspSpace,    \* FSP_SPACE: most bytes in one packet
  FspChunk,    \* trans_blksize: bytes the worker asks for at once
  FspSends     \* bound: packets sent before s->timeout is over

ASSUME FspSizeAssumption == {FspSize, FspSpace, FspChunk, FspSends} \subseteq Nat \ {0}
ASSUME FspSeqAssumption ==
  /\ IsFiniteSet(FspSeqs) /\ FspSeqs # {}
  /\ FspSeqs = 0..Cardinality(FspSeqs) - 1 /\ Cardinality(FspSeqs) % 2 = 0

VARIABLES
  fspSession,   \* FSP_SESSION: connected, the last sequence number, the key for the next request
  fspFile,      \* protocol_data->file, buf being the bytes in its packet
  fspCall,      \* the transaction at work
  fspJob,       \* the caller's operation, what it returned, the bytes it was given
  fspNet,       \* datagrams that may still arrive
  fspServer     \* the server: the temporary file, the file, whether it obeyed fspCall

fspVars == <<fspSession, fspFile, fspCall, fspJob, fspNet, fspServer>>

FspData == [i \in 1..FspSize |-> i]
FspBytes == UNION {[1..n -> 0..FspSize] : n \in 0..FspSize}
FspAsked == {"dir", "read", "write"}
FspCommands == FspAsked \cup {"stat", "pro", "install", "cancel", "simple", "bye"}
FspPurposes == FspCommands \cup {"none", "exists", "flush"}

FspAsks(purpose, cmd, pos, data) == [for |-> purpose, cmd |-> cmd, pos |-> pos, data |-> data, sends |-> 1]
FspNothing == [FspAsks("none", "bye", 0, <<>>) EXCEPT !.sends = 0]
FspNoFile == [open |-> FALSE, writing |-> FALSE, eof |-> FALSE, pos |-> 0, buf |-> <<>>]
FspNoJob == [op |-> "none", on |-> FALSE, ret |-> "none", part |-> <<>>, from |-> 0,
             block |-> 0, got |-> <<>>, clean |-> TRUE]

\* A datagram.  key is relative: 0 is the key the server expects, 1 the one before.
FspPackets ==
  [to : {"server", "client"}, seq : FspSeqs, cmd : FspCommands, pos : 0..FspSize, data : FspBytes,
   key : 0..2, err : BOOLEAN, late : BOOLEAN]

FspTypeOK ==
  /\ fspSession \in [up : BOOLEAN, seq : FspSeqs, key : 0..2]
  /\ fspFile \in [open : BOOLEAN, writing : BOOLEAN, eof : BOOLEAN, pos : 0..FspSize, buf : FspBytes]
  /\ fspCall \in [for : FspPurposes, cmd : FspCommands, pos : 0..FspSize, data : FspBytes, sends : 0..FspSends]
  /\ fspJob \in [op : {"none", "get", "put", "abort", "close", "simple", "list"}, on : BOOLEAN,
                 ret : {"none", "ok", "retry", "fatal"}, part : FspBytes, from : 0..FspSize,
                 block : 0..FspSpace, got : FspBytes, clean : BOOLEAN]
  /\ \A p \in fspNet : p \in FspPackets
  /\ fspServer \in [tmp : FspBytes, file : FspBytes, obeyed : BOOLEAN]

FspInit ==
  /\ fspSession = [up |-> FALSE, seq |-> 0, key |-> 0]
  /\ fspFile = FspNoFile /\ fspCall = FspNothing /\ fspJob = FspNoJob
  /\ fspNet = {}
  /\ fspServer = [tmp |-> <<>>, file |-> <<>>, obeyed |-> FALSE]

-----------------------------------------------------------------------------
(* An outcome is what the code leaves up to its next transaction: the      *)
(* file, the caller's operation and what is asked, if anything.            *)

FspOut(f, job, ask) == [file |-> f, job |-> job, ask |-> ask]

FspReturn(f, job, ret) ==
  FspOut(f, [job EXCEPT !.on = FALSE, !.ret = ret, !.part = <<>>, !.from = 0, !.block = 0], FspNothing)

FspBye == FspAsks("bye", "bye", 0, <<>>)

\* fsp_fclose() returned: the operation is over, or fsp_disconnect() goes on.
FspClosed(job, ok) ==
  CASE job.op = "close" -> FspOut(FspNoFile, job, FspBye)
    [] job.op = "abort" -> FspReturn(FspNoFile, job, "none")
    [] OTHER -> FspReturn(FspNoFile, job, IF ok THEN "ok" ELSE "fatal")

\* fsp_install()
FspInstall(f, job) == FspOut(f, job, FspAsks("install", "install", 0, <<>>))

\* fsp_fflush(): the next thing, if there is nothing to write.
FspFlush(f, job) ==
  IF f.buf = <<>> THEN FspInstall(f, job) ELSE FspOut(f, job, FspAsks("flush", "write", f.pos, f.buf))

\* fsp_fclose()
FspClose(f, job) == IF f.writing THEN FspFlush(f, job) ELSE FspClosed(job, TRUE)

\* One round of the worker's loop gave it part.  Nothing at all is the end of the file,
\* whatever the reason, and it ends the transfer.
FspRound(f, job, part) ==
  IF part = <<>> THEN FspClose(f, [job EXCEPT !.part = <<>>])
  ELSE FspOut(f, [job EXCEPT !.part = <<>>, !.got = @ \o part], FspNothing)

\* fsp_fread(), part having been copied already
FspFread(f, job, part) ==
  LET all == part \o f.buf
  IN CASE f.eof -> FspRound(f, job, <<>>)
       [] ~f.eof /\ Len(all) <= FspChunk ->
            FspOut([f EXCEPT !.buf = <<>>], [job EXCEPT !.part = all], FspAsks("read", "read", f.pos, <<>>))
       [] OTHER -> FspRound([f EXCEPT !.buf = SubSeq(all, FspChunk + 1, Len(all))], job, SubSeq(all, 1, FspChunk))

\* fsp_fwrite(), rest being still to copy
FspFwrite(f, job, rest) ==
  LET free == FspSpace - Len(f.buf)
      full == f.buf \o SubSeq(rest, 1, free)
  IN IF free <= Len(rest)
       THEN FspOut([f EXCEPT !.buf = full], [job EXCEPT !.part = SubSeq(rest, free + 1, Len(rest))],
                   FspAsks("write", "write", f.pos, full))
       ELSE FspOut([f EXCEPT !.buf = f.buf \o rest], [job EXCEPT !.part = <<>>], FspNothing)

\* fsp_fopen()
FspOpened(job, writing) ==
  FspOut([FspNoFile EXCEPT !.open = TRUE, !.writing = writing, !.pos = job.from], job, FspNothing)

-----------------------------------------------------------------------------
(* What the caller does with a transaction's outcome: ok and data, or a    *)
(* failure, which is an error reply, no reply in time, or a socket error.  *)

\* fsp_stat(), for fsp_get_file() or for fsp_canupload()
FspStated(job, ok) == IF ok THEN FspOpened(job, FALSE) ELSE FspReturn(fspFile, job, "retry")
FspAbsent(job, ok) == IF ok THEN FspReturn(fspFile, job, "retry") ELSE FspOpened(job, TRUE)

\* fsp_canupload(): the directory is ours, or files may be added and deleted there; where
\* they may only be added the file must not exist.
FspAllowed(job, ok) ==
  {FspReturn(fspFile, job, "retry")} \cup
  IF ok THEN {FspOpened(job, TRUE), FspOut(fspFile, job, FspAsks("exists", "stat", 0, <<>>))} ELSE {}

FspReadDone(job, ok, data) ==
  LET f == [fspFile EXCEPT !.buf = data, !.pos = @ + Len(data), !.eof = ok /\ data = <<>>]
  IN IF ok /\ data # <<>> THEN FspFread(f, job, job.part) ELSE FspRound(f, job, job.part)

FspWriteSkips(job, ok) ==
  FspFwrite([fspFile EXCEPT !.buf = <<>>, !.pos = @ + Len(fspFile.buf)], job, job.part)
\* A block that was not written stays in the packet, where fsp_fclose() finds it.
FspWriteDone(job, ok) ==
  LET f == [fspFile EXCEPT !.buf = <<>>, !.pos = @ + Len(fspFile.buf)]
  IN IF ok THEN FspFwrite(f, job, job.part) ELSE FspRound(fspFile, job, <<>>)

FspFlushDone(job, ok) == IF ok THEN FspInstall([fspFile EXCEPT !.buf = <<>>], job) ELSE FspClosed(job, FALSE)

\* fsp_opendir(): a block shorter than the first, or an empty one, is the last.
FspDirDone(job, ok, data) ==
  LET all == job.part \o data
      block == IF job.block = 0 THEN Len(data) ELSE job.block
  IN CASE ~ok -> FspReturn(fspFile, job, "retry")
       [] ok /\ data # <<>> /\ Len(data) >= block ->
            FspOut(fspFile, [job EXCEPT !.part = all, !.block = block], FspAsks("dir", "dir", Len(all), <<>>))
       [] OTHER -> FspReturn(fspFile, [job EXCEPT !.got = all], "ok")

\* fsp_abort_transfer(), after the answer to the INSTALL of nothing
FspCancelled(job) == FspClose([fspFile EXCEPT !.writing = FALSE], job)

\* simplecommand(), fsp_rename(), fsp_getpro() for fsp_chdir()
FspSimpleDone(job, ok) == FspReturn(fspFile, job, IF ok THEN "ok" ELSE "retry")

FspOutcomes(ok, data) ==
  LET job == [fspJob EXCEPT !.clean = @ /\ ok]
  IN CASE fspCall.for = "read" -> {FspReadDone(job, ok, data)}
       [] fspCall.for = "dir" -> {FspDirDone(job, ok, data)}
       [] fspCall.for = "stat" -> {FspStated(job, ok)}
       [] fspCall.for = "pro" -> FspAllowed(job, ok)
       [] fspCall.for = "exists" -> {FspAbsent(job, ok)}
       [] fspCall.for = "write" -> {FspWriteDone(job, ok)}
       [] fspCall.for = "flush" -> {FspFlushDone(job, ok)}
       [] fspCall.for = "install" -> {FspClosed(job, ok)}
       [] fspCall.for = "cancel" -> {FspCancelled(job)}
       [] fspCall.for = "simple" -> {FspSimpleDone(job, ok)}
       [] fspCall.for = "bye" -> {FspReturn(FspNoFile, job, "none")}

-----------------------------------------------------------------------------
(* fsp_transaction() *)

\* The number of a transaction differs from that of the one before (^= 0x1080).
FspAnySeq(last, random) == random
FspSeqCounts(last, random) == IF random # last THEN random ELSE last + 1
FspNextSeq(last, random) == IF random # last THEN random ELSE IF last % 2 = 0 THEN last + 1 ELSE last - 1

\* The packet of transaction c of session s; its retry bits play no part.
FspRequest(s, c) ==
  [to |-> "server", seq |-> s.seq, cmd |-> c.cmd, pos |-> c.pos, data |-> c.data,
   key |-> s.key, err |-> FALSE, late |-> FALSE]

\* A datagram lives until the end of the transaction after its own.
FspStillOut == {[p EXCEPT !.late = TRUE] : p \in {q \in fspNet : ~q.late}}

\* The code goes on to outcome o, in session s: the next transaction starts, or none.
FspApply(s, o) ==
  /\ fspFile' = o.file /\ fspJob' = o.job /\ fspCall' = o.ask
  /\ IF o.ask = FspNothing THEN fspSession' = s /\ UNCHANGED <<fspNet, fspServer>>
     ELSE \E random \in FspSeqs :
            /\ fspSession' = [s EXCEPT !.seq = FspNextSeq(s.seq, random)]
            /\ fspNet' = FspStillOut \cup {FspRequest(fspSession', o.ask)}
            /\ fspServer' = [fspServer EXCEPT !.obeyed = FALSE]

\* fsp_close_session() follows the answer to BYE, or its absence.
FspAfter(s) == [s EXCEPT !.up = fspCall.for # "bye"]

FspUnnumbered(p) == p.cmd = fspCall.cmd /\ (fspCall.cmd \in FspAsked => p.pos = fspCall.pos)
\* The tests of the sequence number, of the command, and of the position where it matters; an
\* error may come with any.
FspMatches(p) ==
  /\ p.seq = fspSession.seq
  /\ p.err \/ p.cmd = fspCall.cmd
  /\ fspCall.cmd \in FspAsked => p.pos = fspCall.pos

\* The key that came with the reply is the next request's.
FspReceive ==
  \E p \in fspNet :
    /\ fspCall.for # "none" /\ p.to = "client" /\ FspMatches(p)
    /\ \E o \in FspOutcomes(~p.err, p.data) : FspApply(FspAfter([fspSession EXCEPT !.key = p.key]), o)

\* No reply yet: the packet is sent again.
FspResend ==
  /\ fspCall.for # "none" /\ fspCall.sends < FspSends
  /\ fspCall' = [fspCall EXCEPT !.sends = @ + 1]
  /\ fspNet' = fspNet \cup {FspRequest(fspSession, fspCall)}
  /\ UNCHANGED <<fspSession, fspFile, fspJob, fspServer>>

FspNoTimeout == FALSE
\* s->timeout is over; an error of the socket comes to the same, only earlier.
FspTimeout ==
  /\ fspCall.for # "none" /\ fspCall.sends = FspSends
  /\ \E o \in FspOutcomes(FALSE, <<>>) : FspApply(FspAfter(fspSession), o)

FspClient == FspReceive \/ FspResend \/ FspTimeout

-----------------------------------------------------------------------------
(* The caller *)

FspIdle == ~fspJob.on /\ fspCall.for = "none"
FspMoving == fspJob.on /\ fspCall.for = "none" /\ fspFile.open

\* A new operation: what it asks first.
FspCallOp(op, purpose, cmd, start) ==
  /\ FspIdle /\ fspSession.up
  /\ FspApply(fspSession, FspOut(fspFile, [FspNoJob EXCEPT !.op = op, !.on = TRUE, !.from = start],
                                 FspAsks(purpose, cmd, 0, <<>>)))

\* fsp_connect() and fsp_open_session(): the key is that of the lock, which outlives the session.
FspConnect ==
  /\ FspIdle /\ ~fspSession.up
  /\ FspApply([fspSession EXCEPT !.up = TRUE], FspOut(FspNoFile, FspNoJob, FspNothing))

\* fsp_get_file(), from offset start
FspGetFile == \E start \in {0, 1} : start < FspSize /\ FspCallOp("get", "stat", "stat", start)
\* fsp_put_file()
FspPutFile == FspCallOp("put", "pro", "pro", 0)
\* fsp_list_files()
FspListFiles == FspCallOp("list", "dir", "dir", 0)
\* fsp_chdir(): the directory as it was is put back when the answer is no.
FspChdir == FspCallOp("simple", "simple", "pro", 0)
\* fsp_makedir(), fsp_removedir(), fsp_rmfile() and fsp_ren()
FspCommand == FspCallOp("simple", "simple", "simple", 0)

\* One round of the worker: gftp_get_next_file_chunk() of a download.
FspNextRead ==
  /\ FspMoving /\ ~fspFile.writing
  /\ FspApply(fspSession, FspFread(fspFile, fspJob, <<>>))

\* The same of an upload: gftp_put_next_file_chunk(), or the source is at its end.
FspNextWrite ==
  LET to == IF fspJob.from + FspChunk < FspSize THEN fspJob.from + FspChunk ELSE FspSize
  IN /\ FspMoving /\ fspFile.writing
     /\ FspApply(fspSession, IF fspJob.from = FspSize THEN FspClose(fspFile, fspJob)
                             ELSE FspFwrite(fspFile, [fspJob EXCEPT !.from = to],
                                            SubSeq(FspData, fspJob.from + 1, to)))

FspAbortInstalls(f, job) == FspClose(f, job)
\* fsp_abort_transfer(): once a block was written, an INSTALL of nothing drops them.
FspAborted(f, job) ==
  IF f.writing /\ f.pos > 0 THEN FspOut(f, job, FspAsks("cancel", "cancel", 0, <<>>)) ELSE FspClose(f, job)
FspAbort == FspMoving /\ FspApply(fspSession, FspAborted(fspFile, [fspJob EXCEPT !.op = "abort"]))

\* fsp_disconnect(), with a file still open when the other side of the transfer failed
FspDisconnect ==
  /\ fspSession.up /\ (FspIdle \/ FspMoving)
  /\ FspApply(fspSession, IF fspFile.open THEN FspClose(fspFile, [fspJob EXCEPT !.op = "close"])
                          ELSE FspOut(fspFile, [FspNoJob EXCEPT !.op = "close", !.on = TRUE], FspBye))

FspCaller ==
  \/ FspConnect \/ FspGetFile \/ FspPutFile \/ FspListFiles \/ FspChdir \/ FspCommand
  \/ FspNextRead \/ FspNextWrite \/ FspAbort \/ FspDisconnect

-----------------------------------------------------------------------------
(* The server and the network: a datagram that is lost is one that nobody  *)
(* takes, and one that was taken may come again.                           *)

\* data laid over tmp from position pos; the first block starts a new file.
FspLaid(tmp, pos, data) ==
  LET old == IF pos = 0 THEN <<>> ELSE tmp
      len == IF pos + Len(data) > Len(old) THEN pos + Len(data) ELSE Len(old)
  IN [i \in 1..len |-> IF i > pos /\ i <= pos + Len(data) THEN data[i - pos]
                       ELSE IF i <= Len(old) THEN old[i] ELSE 0]

FspServed(p) ==
  CASE p.cmd = "write" -> [fspServer EXCEPT !.tmp = FspLaid(@, p.pos, p.data)]
    [] p.cmd = "install" -> [fspServer EXCEPT !.file = fspServer.tmp, !.tmp = <<>>]
    [] p.cmd = "cancel" -> [fspServer EXCEPT !.tmp = <<>>]
    [] OTHER -> fspServer

\* INSTALL of a file that is gone, and a directory made or removed twice, are errors.
FspRefuses(p) ==
  \/ p.cmd = "install" /\ fspServer.tmp = <<>>
  \/ p.cmd = "simple" /\ ~p.late /\ fspServer.obeyed

FspReply(p, err) ==
  [p EXCEPT !.to = "client", !.key = 0, !.err = err,
            !.data = IF err \/ p.cmd \notin {"read", "dir"} THEN <<>>
                     ELSE SubSeq(FspData, p.pos + 1,
                                 IF p.pos + FspSpace < FspSize THEN p.pos + FspSpace ELSE FspSize)]

\* The server has a new key: those of all others age.
FspAged(k) == IF k < 2 THEN k + 1 ELSE 2

\* A request, which may come again, is obeyed or refused; its key must be the one expected,
\* or, for a repeat, the one before.
FspServe ==
  \E p \in fspNet, no \in BOOLEAN :
    /\ p.to = "server" /\ p.key < 2
    /\ LET err == no \/ FspRefuses(p)
           aged == IF p.key = 0 THEN {[q EXCEPT !.key = FspAged(@)] : q \in fspNet} ELSE fspNet
       IN /\ fspServer' = IF err THEN fspServer
                          ELSE [FspServed(p) EXCEPT !.obeyed = @ \/ ~p.late]
          /\ fspNet' = aged \cup {FspReply(p, err)}
          /\ fspSession' = IF p.key = 0 THEN [fspSession EXCEPT !.key = FspAged(@)] ELSE fspSession
    /\ UNCHANGED <<fspFile, fspCall, fspJob>>

FspNext == FspClient \/ FspCaller \/ FspServe
FspFairness == WF_fspVars(FspClient)
FspSpec == FspInit /\ [][FspNext]_fspVars /\ FspFairness

-----------------------------------------------------------------------------
(* Properties *)

\* A file of the server, and what a download has delivered, are bytes of the source in their
\* order and without a hole, wherever the transfer failed, was cancelled or repeated a block
\* (fsp_fread(), fsp_fwrite(), fsp_fclose()); and the whole of it when no transaction failed.
FspBytesIntact ==
  LET whole == fspJob.ret = "ok" /\ fspJob.clean
  IN /\ IsPrefix(fspServer.file, FspData)
     /\ fspJob.op = "get" => \E i \in {0, 1} : IsPrefix(fspJob.got, SubSeq(FspData, i + 1, FspSize))
     /\ whole /\ fspJob.op = "get" => fspJob.got # <<>> /\ Last(fspJob.got) = FspSize
     /\ whole /\ fspJob.op = "put" => fspServer.file = FspData
     /\ whole /\ fspJob.op = "list" => fspJob.got = FspData

\* A command that succeeded was obeyed by the server for this transaction, not for an earlier
\* one whose reply is late or repeated (fsp_transaction(): the sequence number and the command).
FspOkIsDone == fspJob.ret = "ok" /\ fspJob.op \in {"simple", "list", "put"} /\ fspJob.clean => fspServer.obeyed

\* An upload the user aborts before it is over, and of which a block has been sent, does not
\* replace the file of the server (fsp_abort_transfer()).
FspAbortKeeps ==
  [][fspJob.op = "abort" /\ fspFile.pos > 0 => fspServer'.file = fspServer.file]_fspVars

\* A transaction ends, answered or not (fsp_transaction(): s->timeout).
FspWaits == fspCall.for # "none"
FspReturns == FspWaits ~> ~FspWaits
=============================================================================
