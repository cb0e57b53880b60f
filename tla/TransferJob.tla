---------------------------- MODULE TransferJob ----------------------------
(***************************************************************************)
(* One queued transfer (a gftp_transfer, "tdata") and the two threads that *)
(* share it: the GTK main thread, which runs update_downloads() every half *)
(* second and the Transfers menu in between, and the worker thread that    *)
(* runs gftpui_common_transfer_files().                                    *)
(*                                                                         *)
(* What the two threads share, and how the code protects it:               *)
(*   - the GList of files with curfle (the worker's position) and updfle   *)
(*     (how far the main thread has post-processed), under structmutex;    *)
(*   - the eight one-bit flags cancel ... next_file.  They are bit-fields  *)
(*     of one byte (lib/gftp.h), so every write is a load and a store of   *)
(*     the whole byte.  Main writes them under structmutex, the worker     *)
(*     writes done, cancel and stalled without it: a data race.            *)
(* A critical section of the worker is one action, enabled while the main  *)
(* thread does not hold structmutex (Held).                                *)
(***************************************************************************)
EXTENDS Naturals, Sequences, Functions

CONSTANTS
  Queue,          \* the files the job is created with, in order
  LateFiles,      \* files the user may append while the job is queued
  NoFile,         \* the NULL list node
  Dirs,           \* the files that are directories
  Exists,         \* the files with startsize > 0: they exist on the other side
  NBlocks,        \* blocks of a file
  Retries,        \* the option "retries"; 0 means retry indefinitely
  CapRetries,     \* bound on current_file_retries when Retries = 0
  NoTimeout,      \* conn_error_no_timeout: the upload of an edited file
  StartTransfers, \* the option "start_transfers"
  RefreshFiles,   \* the option "refresh_files"
  AskPassword,    \* gftp_need_password (fromreq): show_transfer() prompts for it
  SameDir,        \* the destination window still shows the target directory
  Racy,           \* whether two read-modify-writes of the flag byte may overlap
  UserOps         \* the Transfers menu entries the user uses

Files == Range(Queue) \cup LateFiles
AllOps == {"start", "stop", "skip", "remove", "move_queued", "move_running", "append"}

ASSUME QueueAssumption ==
  /\ Queue \in Seq(Files) /\ Queue # <<>>
  /\ \A i, j \in DOMAIN Queue : Queue[i] = Queue[j] => i = j
  /\ LateFiles \cap Range(Queue) = {}
  /\ NoFile \notin Files
ASSUME FileAssumption == Dirs \subseteq Files /\ Exists \subseteq Range(Queue) \ Dirs
ASSUME NumberAssumption ==
  /\ NBlocks \in Nat \ {0} /\ Retries \in Nat
  /\ CapRetries \in Nat /\ Retries < CapRetries
ASSUME OptionAssumption ==
  /\ {NoTimeout, StartTransfers, RefreshFiles, AskPassword, SameDir, Racy} \subseteq BOOLEAN
  /\ UserOps \subseteq AllOps

VARIABLES
  td,         \* the flag byte of tdata
  skip_file,  \* the ninth flag, in a byte of its own
  files, curfle, updfle,
  action,     \* transfer_action of each file
  transfer_done, retry_transfer,
  got,        \* blocks of each file present at the destination
  retries,    \* current_file_retries
  pc,         \* where the worker thread is
  wf,         \* the worker's local curfle
  ret,        \* the worker's local ret
  moved,      \* num_trans > 0: this call of do_transfer_file moved a block
  wcopy,      \* the flag byte the worker has loaded and not yet stored
  mainpc,     \* where the main thread is
  freed,      \* free_tdata() has been called
  hist        \* history: what the user asked for and what became of the files

jobVars == <<td, skip_file, files, curfle, updfle, action, transfer_done, retry_transfer, got, retries>>
workerVars == <<pc, wf, ret, moved, wcopy>>
vars == <<jobVars, workerVars, mainpc, freed, hist>>

Flags == [cancel : BOOLEAN, ready : BOOLEAN, started : BOOLEAN,
          done : BOOLEAN, show : BOOLEAN, next_file : BOOLEAN]
NoCopy == [none |-> TRUE]

Actions == {"none", "overwrite", "resume", "skip"}
\* The program points of the worker; "none" before the thread exists.
Labels == {"none", "init", "loop", "check", "open", "test", "block", "end", "returned",
           "status", "reconnect", "next", "after", "clear", "finish", "exit"}
\* ... where it is on a file
OnFile == {"check", "open", "test", "block", "end", "returned", "status", "reconnect", "next", "after"}
History == [stop : BOOLEAN,            \* Stop Transfer was used on the running job
            lateBlocks : 0..2,         \* blocks moved since then (2: two or more)
            gaveUp : BOOLEAN,          \* the retries are used up
            asked : SUBSET Files,      \* files the user asked to skip or remove
            passed : SUBSET Files,     \* files a reconnect has passed over
            fatal : SUBSET Files,      \* files that failed for good
            logged : SUBSET Files,     \* files reported as successfully transferred
            processed : SUBSET Files]  \* files on_next_transfer() has dealt with
\* The negative return codes of the protocol layer (lib/gftp.h 188-197).
NetErrors == {"retryable", "fatal", "timeout"}

-----------------------------------------------------------------------------
(* Lists and the flag byte. *)

Pos(f) == CHOOSE i \in DOMAIN files : files[i] = f
\* templist->next
NextNode(f) == IF f = NoFile \/ f \notin Range(files) \/ Pos(f) = Len(files) THEN NoFile ELSE files[Pos(f) + 1]
\* f comes before g in the list; every node comes before NULL.
Before(f, g) == f \in Range(files) /\ (g = NoFile \/ Pos(f) < Pos(g))

\* structmutex is held by the main thread across a nested main loop, for ever
\* once that thread has locked it twice.
Held == mainpc \in {"refresh", "hung"}

\* The main thread writes the flag byte.  If the worker is between its load and
\* its store, either store may come last.
SetFlags(byte) == /\ td' = byte
                  /\ wcopy' \in {wcopy, NoCopy}

\* The worker writes the flag byte without structmutex.
WorkerWrite(byte) == \/ /\ td' = byte
                        /\ wcopy' = wcopy
                     \/ /\ Racy
                        /\ wcopy' = byte
                        /\ td' = td

-----------------------------------------------------------------------------
TypeOK ==
  /\ td \in Flags /\ skip_file \in BOOLEAN
  /\ files \in Seq(Files) /\ files # <<>>
  /\ curfle \in Range(files) \cup {NoFile} /\ updfle \in Range(files) \cup {NoFile}
  /\ action \in [Files -> Actions]
  /\ transfer_done \in [Files -> BOOLEAN] /\ retry_transfer \in [Files -> BOOLEAN]
  /\ got \in [Files -> 0..NBlocks]
  /\ retries \in 0..CapRetries
  /\ pc \in Labels
  /\ wf \in Files \cup {NoFile} /\ (pc \in OnFile => wf \in Files)
  /\ ret \in {"ok", "positive"} \cup NetErrors
  /\ moved \in BOOLEAN
  /\ wcopy \in Flags \cup {NoCopy}
  /\ mainpc \in {"idle", "refresh", "reap", "hung", "crashed"}
  /\ freed \in BOOLEAN
  /\ hist \in History

\* gftpui_common_add_file_transfer(): a new tdata.  With files that exist on
\* the other side the Overwrite/Resume/Skip dialog is up, and ready is 0.
Init ==
  /\ td = [cancel |-> FALSE, ready |-> Exists = {}, started |-> FALSE,
           done |-> FALSE, show |-> Exists = {}, next_file |-> FALSE]
  /\ skip_file = FALSE
  /\ files = Queue
  /\ curfle = NoFile /\ updfle = NoFile
  /\ action \in {a \in [Files -> Actions] : \A f \in Files : a[f] = "none" <=> f \notin Exists}
  /\ transfer_done = [f \in Files |-> FALSE]
  /\ retry_transfer = [f \in Files |-> FALSE]
  /\ got = [f \in Files |-> IF f \in Exists THEN 1 ELSE 0]
  /\ retries = 0
  /\ pc = "none" /\ wf = NoFile /\ ret = "ok" /\ moved = FALSE /\ wcopy = NoCopy
  /\ mainpc = "idle" /\ freed = FALSE
  /\ hist = [stop |-> FALSE, lateBlocks |-> 0, gaveUp |-> FALSE, asked |-> {}, passed |-> {},
             fatal |-> {}, logged |-> {}, processed |-> {}]

-----------------------------------------------------------------------------
(* The worker thread: gftpui_common_transfer_files(). *)

At(label) == pc = label /\ wcopy = NoCopy

\* A pending store of the flag byte reaches memory.
WorkerStore ==
  /\ wcopy # NoCopy
  /\ td' = wcopy /\ wcopy' = NoCopy
  /\ UNCHANGED <<skip_file, files, curfle, updfle, action, transfer_done, retry_transfer, got, retries,
                 pc, wf, ret, moved, mainpc, freed, hist>>

\* tdata->curfle = tdata->files, without structmutex.
WorkerInit ==
  /\ At("init")
  /\ curfle' = files[1] /\ pc' = "loop"
  /\ UNCHANGED <<td, skip_file, files, updfle, action, transfer_done, retry_transfer, got, retries,
                 wf, ret, moved, wcopy, mainpc, freed, hist>>

\* while (tdata->curfle != NULL), and the first critical section of
\* _gftpui_common_trans_file_or_dir(), whose locals start afresh.
WorkerLoop ==
  /\ At("loop")
  /\ \/ curfle = NoFile /\ pc' = "finish"
     \/ curfle # NoFile /\ ~Held /\ pc' = "check"
  /\ wf' = curfle /\ ret' = "ok" /\ moved' = FALSE
  /\ UNCHANGED <<jobVars, wcopy, mainpc, freed, hist>>

\* curfle->transfer_action == GFTP_TRANS_ACTION_SKIP
Skipped(f) == action[f] = "skip"

\* transfer_action == SKIP returns 0; otherwise both sides are connected and the
\* size is looked up, each of which may fail before retry_transfer is touched.
WorkerCheck ==
  /\ At("check")
  /\ \/ /\ Skipped(wf)
        /\ ret' = "ok" /\ pc' = "returned"
     \/ /\ ~Skipped(wf)
        /\ \/ ret' \in NetErrors /\ pc' = "returned"
           \/ ret' = ret /\ pc' = "open"
  /\ UNCHANGED <<jobVars, wf, moved, wcopy, mainpc, freed, hist>>

\* gftp_make_directory(), or ret = 1 for a directory that is already there.
WorkerMkdir ==
  /\ At("open") /\ wf \in Dirs
  /\ ret' \in {"ok", "positive"} \cup NetErrors /\ pc' = "returned"
  /\ retry_transfer' = [retry_transfer EXCEPT ![wf] = @ \/ ret' # "ok"]
  /\ UNCHANGED <<td, skip_file, files, curfle, updfle, action, transfer_done, got, retries,
                 wf, moved, wcopy, mainpc, freed, hist>>

\* A retried file resumes; gftp_transfer_file() opens both ends and truncates the
\* destination unless it resumes.
WorkerOpen ==
  /\ At("open") /\ wf \notin Dirs
  /\ action' = IF retry_transfer[wf] THEN [action EXCEPT ![wf] = "resume"] ELSE action
  /\ \/ /\ ret' \in NetErrors /\ pc' = "returned"
        /\ retry_transfer' = [retry_transfer EXCEPT ![wf] = TRUE]
        /\ got' = got
     \/ /\ pc' = "test"
        /\ got' = IF action'[wf] = "resume" THEN got ELSE [got EXCEPT ![wf] = 0]
        /\ UNCHANGED <<retry_transfer, ret>>
  /\ UNCHANGED <<td, skip_file, files, curfle, updfle, transfer_done, retries,
                 wf, moved, wcopy, mainpc, freed, hist>>

\* The test of the block loop.
CancelUnseen == FALSE
LoopCancelled == td.cancel

\* while (!tdata->cancel && ...) of _gftpui_common_do_transfer_file().  When the
\* loop ends because of cancel, num_trans is still what the last block returned.
WorkerTest ==
  /\ At("test")
  /\ \/ ~LoopCancelled /\ pc' = "block" /\ UNCHANGED <<ret, retry_transfer>>
     \/ LoopCancelled /\ ~moved /\ pc' = "end" /\ UNCHANGED <<ret, retry_transfer>>
     \/ /\ LoopCancelled /\ moved
        /\ ret' = "positive" /\ pc' = "returned"
        /\ retry_transfer' = [retry_transfer EXCEPT ![wf] = TRUE]
  /\ UNCHANGED <<td, skip_file, files, curfle, updfle, action, transfer_done, got, retries,
                 wf, moved, wcopy, mainpc, freed, hist>>

\* The source has another block to read.
ReadPastEnd(f) == got[f] <= NBlocks
MoreToRead(f) == got[f] < NBlocks

\* _do_transfer_block() and gftp_calc_kbs(), which clears stalled in the flag
\* byte under statmutex only.  A moved block resets current_file_retries.
WorkerBlock ==
  /\ At("block")
  /\ \/ /\ MoreToRead(wf)
        /\ got' = [got EXCEPT ![wf] = @ + 1]
        /\ moved' = TRUE /\ retries' = 0 /\ pc' = "test"
        /\ WorkerWrite(td)
        /\ hist' = [hist EXCEPT !.lateBlocks = IF hist.stop /\ @ < 2 THEN @ + 1 ELSE @]
        /\ UNCHANGED <<ret, retry_transfer>>
     \/ /\ ~MoreToRead(wf)
        /\ pc' = "end"
        /\ UNCHANGED <<td, got, moved, retries, ret, retry_transfer, wcopy, hist>>
     \/ /\ ret' \in NetErrors /\ pc' = "returned"
        /\ retry_transfer' = [retry_transfer EXCEPT ![wf] = TRUE]
        /\ UNCHANGED <<td, got, moved, retries, wcopy, hist>>
  /\ UNCHANGED <<skip_file, files, curfle, updfle, action, transfer_done, wf, mainpc, freed>>

\* gftp_end_transfer() on both sides, the "Successfully transferred" message, and
\* _gftpui_common_preserve_perm_time(), whose error does not set retry_transfer.
WorkerEnd ==
  /\ At("end") /\ pc' = "returned"
  /\ \/ /\ ret' \in NetErrors
        /\ retry_transfer' = [retry_transfer EXCEPT ![wf] = TRUE]
        /\ hist' = hist
     \/ /\ ret' \in {"ok"} \cup NetErrors
        /\ hist' = [hist EXCEPT !.logged = @ \cup {wf}]
        /\ retry_transfer' = retry_transfer
  /\ UNCHANGED <<td, skip_file, files, curfle, updfle, action, transfer_done, got, retries,
                 wf, moved, wcopy, mainpc, freed>>

\* Back in gftpui_common_transfer_files(): cancelled, fatal, retryable or fine.
WorkerReturned ==
  /\ At("returned")
  /\ pc' = IF ~td.cancel /\ ret \in {"retryable", "timeout"} THEN "status" ELSE "next"
  /\ hist' = [hist EXCEPT !.fatal = IF ~td.cancel /\ ret = "fatal" THEN @ \cup {wf} ELSE @]
  /\ UNCHANGED <<jobVars, wf, ret, moved, wcopy, mainpc, freed>>

\* gftp_get_transfer_status() up to its loop: disconnect both, give up when
\* cancelled or when the retries are used up.
WorkerStatus ==
  /\ At("status") /\ ~Held
  /\ \/ /\ td.cancel
        /\ pc' = "finish" /\ hist' = hist
     \/ /\ ~td.cancel /\ ret # "timeout" /\ ~NoTimeout /\ Retries # 0 /\ retries >= Retries
        /\ pc' = "finish" /\ hist' = [hist EXCEPT !.gaveUp = TRUE]
     \/ /\ ~td.cancel /\ (ret = "timeout" \/ NoTimeout \/ Retries = 0 \/ retries < Retries)
        /\ pc' = "reconnect" /\ hist' = hist
  /\ UNCHANGED <<jobVars, wf, ret, moved, wcopy, mainpc, freed>>

\* while (retries == 0 || current_file_retries <= retries)
RetryForever == TRUE
RetriesLeft == Retries = 0 \/ retries <= Retries

\* if (tdata->skip_file), once both sides are connected again.
SkipLost == FALSE
SkipPending == skip_file

\* One iteration of the reconnect loop: both sides connect, one fails for good,
\* or one fails for now.  tdata->cancel is not looked at here.
WorkerReconnect ==
  /\ At("reconnect") /\ RetriesLeft
  /\ retries' = (retries + 1) % (CapRetries + 1)   \* wraps only when Retries = 0
  /\ \/ /\ ~Held /\ SkipPending
        /\ curfle' = NextNode(curfle)
        /\ td' = [td EXCEPT !.next_file = TRUE, !.cancel = FALSE]
        /\ skip_file' = FALSE
        /\ hist' = [hist EXCEPT !.passed = @ \cup {wf}]
        /\ pc' = "loop" /\ action' = action
     \/ /\ ~Held /\ ~SkipPending
        /\ action' = [action EXCEPT ![wf] = "resume"]
        /\ pc' = "loop"
        /\ UNCHANGED <<td, skip_file, curfle, hist>>
     \/ /\ pc' = "finish" /\ hist' = [hist EXCEPT !.gaveUp = TRUE]
        /\ UNCHANGED <<td, skip_file, curfle, action>>
     \/ UNCHANGED <<td, skip_file, curfle, action, pc, hist>>
  /\ UNCHANGED <<files, updfle, transfer_done, retry_transfer, got, wf, ret, moved, wcopy, mainpc, freed>>

\* The loop's condition has become false: the last retry failed.
WorkerGiveUp ==
  /\ At("reconnect") /\ ~RetriesLeft
  /\ pc' = "finish" /\ hist' = [hist EXCEPT !.gaveUp = TRUE]
  /\ UNCHANGED <<jobVars, wf, ret, moved, wcopy, mainpc, freed>>

\* _gftpui_common_next_file_in_trans()
WorkerNext ==
  /\ At("next") /\ ~Held
  /\ td' = [td EXCEPT !.next_file = TRUE]
  /\ transfer_done' = [transfer_done EXCEPT ![curfle] = TRUE]
  /\ curfle' = NextNode(curfle)
  /\ pc' = "after"
  /\ UNCHANGED <<skip_file, files, updfle, action, retry_transfer, got, retries,
                 wf, ret, moved, wcopy, mainpc, freed, hist>>

\* if (!tdata->skip_file) break;
BreakOnStop == ~skip_file

\* if (tdata->cancel) { if (!tdata->skip_file) break; ... }
WorkerAfter ==
  /\ At("after")
  /\ pc' = IF ~td.cancel THEN "loop" ELSE IF BreakOnStop THEN "finish" ELSE "clear"
  /\ UNCHANGED <<jobVars, wf, ret, moved, wcopy, mainpc, freed, hist>>

\* tdata->cancel = 0, without structmutex; skip_file keeps its value.
WorkerClear ==
  /\ At("clear")
  /\ WorkerWrite([td EXCEPT !.cancel = FALSE])
  /\ pc' = "loop"
  /\ UNCHANGED <<skip_file, files, curfle, updfle, action, transfer_done, retry_transfer, got, retries,
                 wf, ret, moved, mainpc, freed, hist>>

\* tdata->done = 1, without structmutex: the thread's last access to tdata.
WorkerFinish ==
  /\ At("finish")
  /\ WorkerWrite([td EXCEPT !.done = TRUE])
  /\ pc' = "exit"
  /\ UNCHANGED <<skip_file, files, curfle, updfle, action, transfer_done, retry_transfer, got, retries,
                 wf, ret, moved, mainpc, freed, hist>>

Worker == \/ WorkerStore \/ WorkerInit \/ WorkerLoop \/ WorkerCheck \/ WorkerMkdir \/ WorkerOpen
          \/ WorkerTest \/ WorkerBlock \/ WorkerEnd \/ WorkerReturned \/ WorkerStatus
          \/ WorkerReconnect \/ WorkerGiveUp \/ WorkerNext \/ WorkerAfter \/ WorkerClear \/ WorkerFinish

-----------------------------------------------------------------------------
(* The Overwrite/Resume/Skip dialog, run before the job is ready. *)

\* gftpui_gtk_set_action(): a button press on a selected row.
SetAction(f, a) ==
  /\ ~td.ready /\ f \in Exists
  /\ action' = [action EXCEPT ![f] = a]
  /\ UNCHANGED <<td, skip_file, files, curfle, updfle, transfer_done, retry_transfer, got, retries,
                 workerVars, mainpc, freed, hist>>

\* The end of gftpui_ask_transfer().
AskTransfer(ok) ==
  LET allSkipped == \A f \in Range(files) : action[f] = "skip" IN
  /\ ~td.ready
  /\ SetFlags([td EXCEPT !.ready = TRUE, !.show = ok /\ ~allSkipped, !.done = ~ok \/ allSkipped])
  /\ UNCHANGED <<skip_file, files, curfle, updfle, action, transfer_done, retry_transfer, got, retries,
                 pc, wf, ret, moved, mainpc, freed, hist>>

-----------------------------------------------------------------------------
(* The main thread's tick: update_downloads() for this job. *)

\* create_transfer(): the flags it sets and the thread it starts.
Created(byte) == [byte EXCEPT !.started = TRUE]

\* The nodes the walk of updfle visits: up to, not including, the node at "to".
WalkIncludesCurfle(from, to) == {files[i] : i \in from..(IF to > Len(files) THEN Len(files) ELSE to)}
Walked(from, to) == {files[i] : i \in from..(to - 1)}

\* on_next_transfer(): walk updfle up to curfle.  When curfle is behind updfle
\* the walk runs off the end of the list and dereferences NULL.
OnNextTransfer ==
  LET from == IF updfle = NoFile THEN Len(files) + 1 ELSE Pos(updfle)
      to == IF curfle = NoFile THEN Len(files) + 1 ELSE Pos(curfle)
      walked == Walked(from, IF from <= to THEN to ELSE Len(files) + 1)
  IN
  /\ td.next_file
  /\ SetFlags([td EXCEPT !.next_file = FALSE])
  /\ hist' = [hist EXCEPT !.processed = @ \cup walked]
  /\ IF from > to
       THEN updfle' = NoFile /\ mainpc' = "crashed"
       ELSE /\ updfle' = curfle
            /\ \/ mainpc' = mainpc
               \/ /\ RefreshFiles /\ SameDir /\ curfle # NoFile /\ NextNode(curfle) # NoFile
                  /\ mainpc' = "refresh"
  /\ UNCHANGED <<skip_file, files, curfle, action, transfer_done, retry_transfer, got, retries,
                 pc, wf, ret, moved, freed>>

\* The tail of a tick: start the job if transfers start by themselves and, with
\* one_transfer, no other one is in progress (slot).
StartIfAllowed(byte, slot) ==
  IF ~byte.started /\ StartTransfers /\ slot
    THEN SetFlags(Created(byte)) /\ pc' = "init"
    ELSE SetFlags(byte) /\ pc' = pc

\* show_transfer(), and the tail of the tick.  When the user cancels the prompt for
\* the source's password, gftpui_common_cancel_file_transfer() is called with
\* structmutex held, and locks it again.
ShowTransfer(slot) ==
  /\ ~td.next_file /\ td.show
  /\ curfle' = files[1] /\ updfle' = files[1]
  /\ \/ /\ StartIfAllowed([td EXCEPT !.show = FALSE], slot)
        /\ mainpc' = mainpc
     \/ /\ AskPassword
        /\ SetFlags([td EXCEPT !.show = FALSE]) /\ pc' = pc
        /\ mainpc' = "hung"
  /\ UNCHANGED <<skip_file, files, action, transfer_done, retry_transfer, got, retries,
                 wf, ret, moved, freed, hist>>

StartQueued(slot) ==
  /\ ~td.next_file /\ ~td.show /\ ~td.done /\ curfle # NoFile
  /\ ~td.started /\ StartTransfers /\ slot
  /\ StartIfAllowed(td, slot)
  /\ UNCHANGED <<skip_file, files, curfle, updfle, action, transfer_done, retry_transfer, got, retries,
                 wf, ret, moved, mainpc, freed, hist>>

\* transfer_done(): a started job whose target directory is shown refreshes that
\* window in a nested main loop, without structmutex, before it is freed.
TransferDone ==
  /\ ~td.next_file /\ ~td.show /\ td.done
  /\ \/ freed' = TRUE /\ mainpc' = mainpc
     \/ td.started /\ SameDir /\ mainpc' = "reap" /\ freed' = freed
  /\ UNCHANGED <<jobVars, workerVars, hist>>

Tick == /\ mainpc = "idle" /\ ~freed /\ td.ready
        /\ \/ OnNextTransfer
           \/ \E slot \in BOOLEAN : ShowTransfer(slot) \/ StartQueued(slot)
           \/ TransferDone

\* The nested main loop of gftpui_refresh() ends and the tick goes on.
RefreshReturns ==
  /\ mainpc \in {"refresh", "reap"}
  /\ freed' = (mainpc = "reap")
  /\ mainpc' = "idle"
  /\ UNCHANGED <<jobVars, workerVars, hist>>

-----------------------------------------------------------------------------
(* The Transfers menu.  Its callbacks run whenever the main loop does, in the *)
(* nested main loops too; the job's row exists from show_transfer() on.       *)

RowShown == pc # "none" \/ (td.ready /\ ~td.show /\ curfle # NoFile)
Menu(op) == op \in UserOps /\ RowShown /\ ~freed /\ mainpc \in {"idle", "reap"}

\* Every entry locks structmutex.  In the nested main loop of on_next_transfer()
\* the same thread holds it already.
MenuHangs ==
  /\ UserOps # {} /\ RowShown /\ mainpc = "refresh"
  /\ mainpc' = "hung"
  /\ UNCHANGED <<jobVars, workerVars, freed, hist>>

\* start_transfer(): neither done nor one_transfer is looked at.
StartTransfer ==
  /\ Menu("start") /\ ~td.started
  /\ SetFlags(Created(td)) /\ pc' = "init"
  /\ UNCHANGED <<skip_file, files, curfle, updfle, action, transfer_done, retry_transfer, got, retries,
                 wf, ret, moved, mainpc, freed, hist>>

\* The flag a stop sets: cancel tells the worker, done tells the tick.
StopSetsDone == [td EXCEPT !.cancel = TRUE, !.done = TRUE]
StopFlags == IF td.started THEN [td EXCEPT !.cancel = TRUE] ELSE [td EXCEPT !.done = TRUE]

\* gftpui_common_cancel_file_transfer()
StopTransfer ==
  /\ Menu("stop")
  /\ SetFlags(StopFlags)
  /\ skip_file' = (skip_file /\ ~td.started)
  /\ hist' = [hist EXCEPT !.stop = @ \/ td.started]
  /\ UNCHANGED <<files, curfle, updfle, action, transfer_done, retry_transfer, got, retries,
                 pc, wf, ret, moved, mainpc, freed>>

\* gftpui_common_skip_file_transfer().  The test is a bit mask: OVERWRITE, RESUME
\* and SKIP all have a bit of SKIP (3) set, so only "none" passes it.
SkipFile(f) ==
  /\ hist' = [hist EXCEPT !.asked = IF td.started THEN @ \cup {f} ELSE @]
  /\ IF td.started /\ action[f] = "none"
       THEN /\ action' = [action EXCEPT ![f] = "skip"]
            /\ IF f = curfle
                 THEN SetFlags([td EXCEPT !.cancel = TRUE]) /\ skip_file' = TRUE
                 ELSE UNCHANGED <<td, wcopy, skip_file>>
       ELSE UNCHANGED <<td, wcopy, skip_file, action>>
  /\ UNCHANGED <<files, curfle, updfle, transfer_done, retry_transfer, got, retries,
                 pc, wf, ret, moved, freed>>

\* skip_transfer(): curfle->data is read before structmutex is taken, so the file
\* may be the one the worker has just left; with curfle NULL it is a crash.
SkipTransfer ==
  /\ Menu("skip")
  /\ \/ /\ curfle # NoFile
        /\ SkipFile(curfle) /\ mainpc' = mainpc
     \/ /\ pc = "after"
        /\ SkipFile(wf) /\ mainpc' = mainpc
     \/ /\ curfle = NoFile
        /\ mainpc' = "crashed"
        /\ UNCHANGED <<jobVars, workerVars, freed, hist>>

\* remove_file_transfer(): the same on the selected file's row.
RemoveFileTransfer(f) ==
  /\ Menu("remove") /\ f \in Range(files)
  /\ SkipFile(f) /\ mainpc' = mainpc

\* transfer->curfle is neither of the two nodes.
MoveAnything(i) == TRUE
MoveAllowed(i) == ~td.started \/ curfle \notin {files[i], files[i + 1]}

\* move_transfer_up() moves files[i + 1] before files[i], move_transfer_down() moves
\* files[i] after it: the same exchange of neighbours, under the same test.
MoveTransfer(i) ==
  /\ Menu(IF td.started THEN "move_running" ELSE "move_queued")
  /\ i \in 1..(Len(files) - 1)
  /\ MoveAllowed(i)
  /\ files' = [files EXCEPT ![i] = files[i + 1], ![i + 1] = files[i]]
  /\ UNCHANGED <<td, skip_file, curfle, updfle, action, transfer_done, retry_transfer, got, retries,
                 workerVars, mainpc, freed, hist>>

\* The job the new file may join: a job whose worker has not passed the last file.
JoinAny == TRUE
Joinable == curfle # NoFile

\* gftpui_common_add_file_transfer() with append_transfers and one_transfer: the
\* file joins the first job between the same hosts whose curfle is not NULL.
AppendFile(f) ==
  /\ "append" \in UserOps /\ ~freed /\ mainpc \in {"idle", "reap"}
  /\ f \in LateFiles \ Range(files) /\ Joinable
  /\ files' = Append(files, f)
  /\ UNCHANGED <<td, skip_file, curfle, updfle, action, transfer_done, retry_transfer, got, retries,
                 workerVars, mainpc, freed, hist>>

User == \/ \E f \in Exists, a \in Actions \ {"none"} : SetAction(f, a)
        \/ \E ok \in BOOLEAN : AskTransfer(ok)
        \/ MenuHangs \/ StartTransfer \/ StopTransfer \/ SkipTransfer
        \/ \E f \in Files : RemoveFileTransfer(f) \/ AppendFile(f)
        \/ \E i \in DOMAIN files : MoveTransfer(i)

Next == Worker \/ Tick \/ RefreshReturns \/ User

Spec == Init /\ [][Next]_vars

\* The two threads keep running; the user owes nothing, but does answer the
\* modal dialog; refreshes end.
FairSpec == /\ Spec /\ WF_vars(Worker) /\ WF_vars(Tick) /\ WF_vars(RefreshReturns)
            /\ WF_vars(\E ok \in BOOLEAN : AskTransfer(ok))

-----------------------------------------------------------------------------
(* Correctness. *)

\* free_tdata() is only called once the worker has made its last access to tdata
\* (or was never created): the flag done is what tells the main thread so.
NoUseAfterFree == freed => pc \in {"none", "exit"} /\ wcopy = NoCopy

\* However the user reorders or extends the list while the worker walks it, the
\* files before curfle are exactly those the worker is done with: no file is
\* transferred twice and none is jumped over.
WalkIsExact ==
  pc \notin {"none", "init"} =>
    \A f \in Range(files) : Before(f, curfle) <=> transfer_done[f] \/ f \in hist.passed

\* on_next_transfer() post-processes (views, removes, reports) a file only after
\* the worker is done with it, and its walk of updfle to curfle never runs off the
\* end of the list.
PostProcessedAfterTransfer ==
  /\ \A f \in hist.processed : transfer_done[f] \/ f \in hist.passed
  /\ mainpc # "crashed"

\* After Stop Transfer on a running job the worker moves at most the block it had
\* already begun.
StopStopsBytes == hist.lateBlocks <= 1

\* A job that ends by itself (not stopped, retries not used up) leaves no file of
\* its list behind: each is complete at the destination and reported as such, was
\* skipped by the user, or failed for good.
EveryFileAccounted ==
  pc = "exit" /\ ~hist.stop /\ ~hist.gaveUp =>
    \A f \in Range(files) \ Dirs :
      \/ f \in hist.logged /\ got[f] = NBlocks
      \/ f \in hist.fatal \cup hist.asked
      \/ action[f] = "skip"

\* A skip the job has accepted is never undone: no retry path puts RESUME over the
\* SKIP of a file (while nobody stops the job).
SkipSticks ==
  [][\A f \in Files : action[f] = "skip" /\ td.ready /\ ~hist.stop => action'[f] = "skip"]_vars

\* The worker's thread ends, and the job is taken off the queue and freed,
\* whatever the network does (with a finite number of retries).
StartedJobEnds == td.started ~> freed

\* What started, done and a pending store of the flag byte say about the worker:
\* the inductive invariant behind NoUseAfterFree.
StartedMeansThread == (td.started <=> pc # "none") /\ (td.started => td.ready)
DoneMeansExit == td.done /\ td.started => pc = "exit"
PendingStore == wcopy # NoCopy =>
                  /\ pc # "none" /\ wcopy.started /\ wcopy.ready /\ ~wcopy.show /\ ~td.done
                  /\ wcopy.done => pc = "exit"
ShowMeansQueued == td.show => ~td.started /\ ~td.done
ReapMeansDone == mainpc = "reap" \/ freed => td.done /\ td.ready
JobInv == StartedMeansThread /\ DoneMeansExit /\ PendingStore /\ ShowMeansQueued /\ ReapMeansDone
=============================================================================
