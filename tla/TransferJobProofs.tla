------------------------- MODULE TransferJobProofs -------------------------
(***************************************************************************)
(* Proofs about TransferJob for every queue, every number of blocks and    *)
(* retries, every choice of options, and with the race on the flag byte:   *)
(* types, the count of files left, the lists of the two threads, the walk  *)
(* over a list that the user reorders and extends, the files processed     *)
(* after their transfer, skipped files, Stop, and an account of every file *)
(* of a transfer that is over.                                             *)
(***************************************************************************)
EXTENDS TransferJob, SequenceTheorems, TLAPS

-----------------------------------------------------------------------------
(* Lists. *)

\* A node's position is a position of the list.
LEMMA PosType ==
  ASSUME files \in Seq(Files), NEW f \in Range(files)
  PROVE  Pos(f) \in 1..Len(files) /\ files[Pos(f)] = f
<1>1. \E i \in DOMAIN files : files[i] = f
  BY DEF Range
<1>2. Pos(f) \in DOMAIN files /\ files[Pos(f)] = f
  BY <1>1 DEF Pos
<1> QED
  BY <1>2

\* The elements of a list of files are files; its first one is one of them.
LEMMA RangeType ==
  ASSUME files \in Seq(Files), files # <<>>
  PROVE  /\ Range(files) \subseteq Files
         /\ \A i \in 1..Len(files) : files[i] \in Range(files)
         /\ files[1] \in Range(files)
BY DEF Range

\* The successor of a node of the list is a node of the list or NULL.
LEMMA NextNodeType ==
  ASSUME files \in Seq(Files), files # <<>>, NEW f
  PROVE  NextNode(f) \in Range(files) \cup {NoFile}
<1>1. CASE f = NoFile \/ f \notin Range(files) \/ Pos(f) = Len(files)
  BY <1>1 DEF NextNode
<1>2. CASE f \in Range(files) /\ f # NoFile /\ Pos(f) # Len(files)
  <2>1. Pos(f) + 1 \in 1..Len(files)
    BY <1>2, PosType
  <2> QED
    BY <1>2, <2>1, RangeType DEF NextNode
<1> QED
  BY <1>1, <1>2

\* Exchanging two neighbours of a list of files gives a list of the same files.
LEMMA SwapType ==
  ASSUME files \in Seq(Files), NEW i \in 1..(Len(files) - 1)
  PROVE  LET s == [files EXCEPT ![i] = files[i + 1], ![i + 1] = files[i]]
         IN  s \in Seq(Files) /\ s # <<>> /\ Range(s) = Range(files)
<1> DEFINE t == [files EXCEPT ![i] = files[i + 1]]
           s == [t EXCEPT ![i + 1] = files[i]]
<1>1. i \in 1..Len(files) /\ i + 1 \in 1..Len(files)
  OBVIOUS
<1>2. files[i] \in Files /\ files[i + 1] \in Files
  BY <1>1
<1>3. /\ t \in Seq(Files) /\ Len(t) = Len(files)
      /\ \A j \in 1..Len(files) : t[j] = IF j = i THEN files[i + 1] ELSE files[j]
  BY <1>1, <1>2, ExceptSeq
<1>4. /\ s \in Seq(Files) /\ Len(s) = Len(t)
      /\ \A j \in 1..Len(t) : s[j] = IF j = i + 1 THEN files[i] ELSE t[j]
  BY <1>1, <1>2, <1>3, ExceptSeq
<1>5. s # <<>>
  BY <1>1, <1>3, <1>4
<1>6. s[i] = files[i + 1] /\ s[i + 1] = files[i]
  BY <1>1, <1>3, <1>4
<1>7. \A j \in 1..Len(files) : j # i /\ j # i + 1 => s[j] = files[j]
  BY <1>3, <1>4
<1>8. DOMAIN s = 1..Len(files) /\ DOMAIN files = 1..Len(files)
  BY <1>3, <1>4
<1> HIDE DEF s, t
<1>9. Range(s) = Range(files)
  <2>1. ASSUME NEW x \in Range(s) PROVE x \in Range(files)
    BY <2>1, <1>1, <1>6, <1>7, <1>8 DEF Range
  <2>2. ASSUME NEW x \in Range(files) PROVE x \in Range(s)
    <3>1. PICK k \in 1..Len(files) : files[k] = x
      BY <2>2, <1>8 DEF Range
    <3>2. \E j \in 1..Len(files) : s[j] = x
      BY <3>1, <1>1, <1>6, <1>7
    <3> QED
      BY <3>2, <1>8 DEF Range
  <2> QED
    BY <2>1, <2>2
<1>10. [files EXCEPT ![i] = files[i + 1], ![i + 1] = files[i]] = s
  BY DEF s, t
<1> QED
  BY <1>4, <1>5, <1>9, <1>10

\* Appending a file keeps the files there are.
LEMMA AppendType ==
  ASSUME files \in Seq(Files), NEW f \in Files
  PROVE  /\ Append(files, f) \in Seq(Files) /\ Append(files, f) # <<>>
         /\ Range(files) \subseteq Range(Append(files, f))
<1>1. /\ Append(files, f) \in Seq(Files) /\ Append(files, f) # <<>>
      /\ Len(Append(files, f)) = Len(files) + 1
      /\ \A i \in 1..Len(files) : Append(files, f)[i] = files[i]
  BY AppendProperties
<1>2. ASSUME NEW x \in Range(files) PROVE x \in Range(Append(files, f))
  <2>1. PICK k \in 1..Len(files) : files[k] = x
    BY DEF Range
  <2>2. k \in DOMAIN Append(files, f) /\ Append(files, f)[k] = x
    BY <1>1, <2>1
  <2> QED
    BY <2>2 DEF Range
<1> QED
  BY <1>1, <1>2

-----------------------------------------------------------------------------
(* Type correctness. *)

\* Writing one flag of a flag byte gives a flag byte.
LEMMA FlagsWrite ==
  ASSUME NEW b \in Flags, NEW v \in BOOLEAN
  PROVE  /\ [b EXCEPT !.cancel = v] \in Flags
         /\ [b EXCEPT !.ready = v] \in Flags
         /\ [b EXCEPT !.started = v] \in Flags
         /\ [b EXCEPT !.done = v] \in Flags
         /\ [b EXCEPT !.show = v] \in Flags
         /\ [b EXCEPT !.next_file = v] \in Flags
BY DEF Flags

\* Recording one more event keeps the history well formed.
LEMMA HistoryFlag ==
  ASSUME NEW h \in History, NEW v \in BOOLEAN
  PROVE  [h EXCEPT !.stop = v] \in History /\ [h EXCEPT !.gaveUp = v] \in History
BY DEF History

\* The record of what happened stays a record when late blocks are counted,
LEMMA HistoryCount ==
  ASSUME NEW h \in History, NEW n \in 0..2
  PROVE  [h EXCEPT !.lateBlocks = n] \in History
BY DEF History

\* or when one of its sets of files is replaced.
LEMMA HistorySet ==
  ASSUME NEW h \in History, NEW F \in SUBSET Files
  PROVE  /\ [h EXCEPT !.asked = F] \in History
         /\ [h EXCEPT !.passed = F] \in History
         /\ [h EXCEPT !.fatal = F] \in History
         /\ [h EXCEPT !.logged = F] \in History
         /\ [h EXCEPT !.processed = F] \in History
BY DEF History

\* A process that starts has every variable in its type,
LEMMA InitType == Init => TypeOK
<1> SUFFICES ASSUME Init PROVE TypeOK
  OBVIOUS
<1>1. got \in [Files -> 0..NBlocks]
  BY NumberAssumption DEF Init
<1>2. files \in Seq(Files) /\ files # <<>>
  BY QueueAssumption DEF Init
<1>3. td \in Flags
  BY DEF Init, Flags
<1>4. hist \in History
  BY DEF Init, History
<1>5. action \in [Files -> Actions]
  BY DEF Init
<1>6. retries \in 0..CapRetries
  BY NumberAssumption DEF Init
<1> QED
  BY <1>1, <1>2, <1>3, <1>4, <1>5, <1>6 DEF Init, TypeOK, Labels, OnFile

\* The flag byte and the pending store, when the worker writes the byte.
LEMMA WorkerWriteType ==
  ASSUME TypeOK, NEW byte \in Flags, WorkerWrite(byte)
  PROVE  td' \in Flags /\ wcopy' \in Flags \cup {NoCopy}
BY DEF TypeOK, WorkerWrite

\* A step of the worker thread preserves types.
LEMMA WorkerType == TypeOK /\ Worker => TypeOK'
<1> SUFFICES ASSUME TypeOK, Worker PROVE TypeOK'
  OBVIOUS
<1> USE NumberAssumption DEF TypeOK, At, jobVars, Labels, OnFile
<1>h. /\ hist.stop \in BOOLEAN /\ hist.lateBlocks \in 0..2 /\ hist.fatal \in SUBSET Files
      /\ hist.logged \in SUBSET Files /\ hist.passed \in SUBSET Files
  BY DEF History
<1>1. CASE WorkerStore
  BY <1>1 DEF WorkerStore
<1>2. CASE WorkerInit
  BY <1>2, RangeType DEF WorkerInit
<1>3. CASE WorkerLoop
  BY <1>3, RangeType DEF WorkerLoop
<1>4. CASE WorkerCheck
  BY <1>4 DEF WorkerCheck
<1>5. CASE WorkerMkdir
  BY <1>5 DEF WorkerMkdir
<1>6. CASE WorkerOpen
  <2>1. action' \in [Files -> Actions]
    BY <1>6 DEF WorkerOpen, Actions
  <2>2. retry_transfer' \in [Files -> BOOLEAN]
    BY <1>6 DEF WorkerOpen
  <2>4. got' \in [Files -> 0..NBlocks]
    BY <1>6 DEF WorkerOpen
  <2>3. pc' \in {"test", "returned"} /\ ret' \in {ret} \cup NetErrors
    BY <1>6 DEF WorkerOpen
  <2> QED
    BY <1>6, <2>1, <2>2, <2>3, <2>4 DEF WorkerOpen
<1>7. CASE WorkerTest
  <2>1. retry_transfer' \in [Files -> BOOLEAN]
    BY <1>7 DEF WorkerTest
  <2>2. pc' \in {"block", "end", "returned"} /\ ret' \in {ret, "positive"}
    BY <1>7 DEF WorkerTest
  <2> QED
    BY <1>7, <2>1, <2>2 DEF WorkerTest
<1>8. CASE WorkerBlock
  <2>1. hist' \in History
    <3>1. (IF hist.stop /\ hist.lateBlocks < 2 THEN hist.lateBlocks + 1 ELSE hist.lateBlocks) \in 0..2
      BY <1>h
    <3>2. [hist EXCEPT !.lateBlocks = IF hist.stop /\ @ < 2 THEN @ + 1 ELSE @] \in History
      BY <3>1, HistoryCount
    <3> QED
      BY <1>8, <3>2 DEF WorkerBlock
  <2>2. td' \in Flags /\ wcopy' \in Flags \cup {NoCopy}
    BY <1>8 DEF WorkerBlock, WorkerWrite
  <2>3. got' \in [Files -> 0..NBlocks]
    BY <1>8 DEF WorkerBlock, MoreToRead
  <2>4. retry_transfer' \in [Files -> BOOLEAN]
    BY <1>8 DEF WorkerBlock
  <2>5. pc' \in {"test", "end", "returned"} /\ ret' \in {ret} \cup NetErrors /\ moved' \in BOOLEAN
    BY <1>8 DEF WorkerBlock
  <2>6. retries' \in 0..CapRetries
    BY <1>8 DEF WorkerBlock
  <2> QED
    BY <1>8, <2>1, <2>2, <2>3, <2>4, <2>5, <2>6 DEF WorkerBlock
<1>9. CASE WorkerEnd
  <2>1. hist' \in History
    <3>1. hist.logged \cup {wf} \in SUBSET Files
      BY <1>h, <1>9 DEF WorkerEnd
    <3>2. [hist EXCEPT !.logged = @ \cup {wf}] \in History
      BY <3>1, HistorySet
    <3> QED
      BY <1>9, <3>2 DEF WorkerEnd
  <2>2. retry_transfer' \in [Files -> BOOLEAN] /\ ret' \in {"ok"} \cup NetErrors
    BY <1>9 DEF WorkerEnd
  <2> QED
    BY <1>9, <2>1, <2>2 DEF WorkerEnd
<1>10. CASE WorkerReturned
  <2>1. hist' \in History
    <3>1. hist.fatal \cup {wf} \in SUBSET Files
      BY <1>h, <1>10 DEF WorkerReturned
    <3>2. [hist EXCEPT !.fatal = IF ~td.cancel /\ ret = "fatal" THEN @ \cup {wf} ELSE @] \in History
      BY <1>h, <3>1, HistorySet
    <3> QED
      BY <1>10, <3>2 DEF WorkerReturned
  <2> QED
    BY <1>10, <2>1 DEF WorkerReturned
<1>11. CASE WorkerStatus
  <2>1. hist' \in History
    BY <1>11, HistoryFlag DEF WorkerStatus
  <2>2. pc' \in {"finish", "reconnect"}
    BY <1>11 DEF WorkerStatus
  <2> QED
    BY <1>11, <2>1, <2>2 DEF WorkerStatus
<1>12. CASE WorkerReconnect
  <2>1. hist' \in History
    <3>1. hist.passed \cup {wf} \in SUBSET Files
      BY <1>h, <1>12 DEF WorkerReconnect
    <3>2. /\ [hist EXCEPT !.passed = @ \cup {wf}] \in History
          /\ [hist EXCEPT !.gaveUp = TRUE] \in History
      BY <3>1, HistorySet, HistoryFlag
    <3> QED
      BY <1>12, <3>2 DEF WorkerReconnect
  <2>2. td' \in Flags
    <3>1. [td EXCEPT !.next_file = TRUE] \in Flags
      BY FlagsWrite
    <3>2. [td EXCEPT !.next_file = TRUE, !.cancel = FALSE] \in Flags
      BY <3>1, FlagsWrite
    <3> QED
      BY <1>12, <3>2 DEF WorkerReconnect
  <2>3. curfle' \in Range(files) \cup {NoFile}
    BY <1>12, NextNodeType DEF WorkerReconnect
  <2>4. retries' \in 0..CapRetries
    BY <1>12 DEF WorkerReconnect
  <2>5. action' \in [Files -> Actions]
    BY <1>12 DEF WorkerReconnect, Actions
  <2>6. pc' \in {"loop", "finish", "reconnect"} /\ skip_file' \in BOOLEAN
    BY <1>12 DEF WorkerReconnect
  <2> QED
    BY <1>12, <2>1, <2>2, <2>3, <2>4, <2>5, <2>6 DEF WorkerReconnect
<1>13. CASE WorkerGiveUp
  <2>1. hist' \in History
    BY <1>13, HistoryFlag DEF WorkerGiveUp
  <2> QED
    BY <1>13, <2>1 DEF WorkerGiveUp
<1>14. CASE WorkerNext
  <2>1. td' \in Flags
    BY <1>14, FlagsWrite DEF WorkerNext
  <2>2. curfle' \in Range(files) \cup {NoFile}
    BY <1>14, NextNodeType DEF WorkerNext
  <2>3. transfer_done' \in [Files -> BOOLEAN]
    BY <1>14 DEF WorkerNext
  <2> QED
    BY <1>14, <2>1, <2>2, <2>3 DEF WorkerNext
<1>15. CASE WorkerAfter
  BY <1>15 DEF WorkerAfter
<1>16. CASE WorkerClear
  <2>1. [td EXCEPT !.cancel = FALSE] \in Flags
    BY FlagsWrite
  <2>2. td' \in Flags /\ wcopy' \in Flags \cup {NoCopy}
    BY <1>16, <2>1, WorkerWriteType DEF WorkerClear
  <2> QED
    BY <1>16, <2>2 DEF WorkerClear
<1>17. CASE WorkerFinish
  <2>1. [td EXCEPT !.done = TRUE] \in Flags
    BY FlagsWrite
  <2>2. td' \in Flags /\ wcopy' \in Flags \cup {NoCopy}
    BY <1>17, <2>1, WorkerWriteType DEF WorkerFinish
  <2> QED
    BY <1>17, <2>2 DEF WorkerFinish
<1> QED
  BY <1>1, <1>2, <1>3, <1>4, <1>5, <1>6, <1>7, <1>8, <1>9, <1>10, <1>11, <1>12, <1>13, <1>14,
     <1>15, <1>16, <1>17 DEF Worker

\* The flag byte and the pending store, when the main thread writes the byte.
LEMMA SetFlagsType ==
  ASSUME TypeOK, NEW byte \in Flags, SetFlags(byte)
  PROVE  td' \in Flags /\ wcopy' \in Flags \cup {NoCopy}
BY DEF TypeOK, SetFlags

\* A tick of update_downloads() preserves types.
LEMMA TickType == TypeOK /\ Tick => TypeOK'
<1> SUFFICES ASSUME TypeOK, Tick PROVE TypeOK'
  OBVIOUS
<1> USE DEF TypeOK, Labels, OnFile, jobVars, workerVars
<1>1. CASE OnNextTransfer
  <2> DEFINE from == IF updfle = NoFile THEN Len(files) + 1 ELSE Pos(updfle)
             to == IF curfle = NoFile THEN Len(files) + 1 ELSE Pos(curfle)
             walked == Walked(from, IF from <= to THEN to ELSE Len(files) + 1)
  <2>1. from \in 1..(Len(files) + 1) /\ to \in 1..(Len(files) + 1)
    BY PosType
  <2>2. walked \subseteq Files
    BY <2>1, RangeType DEF Walked
  <2>3. hist' = [hist EXCEPT !.processed = @ \cup walked]
    BY <1>1 DEF OnNextTransfer
  <2> HIDE DEF walked, from, to
  <2>4. hist' \in History
    <3>1. hist.processed \in SUBSET Files
      BY DEF History
    <3>2. hist.processed \cup walked \in SUBSET Files
      BY <2>2, <3>1
    <3> QED
      BY <2>3, <3>2, HistorySet
  <2>5. td' \in Flags /\ wcopy' \in Flags \cup {NoCopy}
    <3>1. SetFlags([td EXCEPT !.next_file = FALSE])
      BY <1>1 DEF OnNextTransfer
    <3>2. [td EXCEPT !.next_file = FALSE] \in Flags
      BY FlagsWrite
    <3> QED
      BY <3>1, <3>2, SetFlagsType
  <2>6. updfle' \in Range(files) \cup {NoFile} /\ mainpc' \in {mainpc, "crashed", "refresh"}
    BY <1>1 DEF OnNextTransfer
  <2> QED
    BY <1>1, <2>4, <2>5, <2>6 DEF OnNextTransfer
<1>2. ASSUME NEW slot \in BOOLEAN, NEW byte \in Flags, StartIfAllowed(byte, slot)
      PROVE  td' \in Flags /\ wcopy' \in Flags \cup {NoCopy} /\ pc' \in {pc, "init"}
  <2>1. Created(byte) \in Flags
    BY FlagsWrite DEF Created
  <2> QED
    BY <1>2, <2>1, SetFlagsType DEF StartIfAllowed
<1>3. ASSUME NEW slot \in BOOLEAN, ShowTransfer(slot) PROVE TypeOK'
  <2>1. [td EXCEPT !.show = FALSE] \in Flags
    BY FlagsWrite
  <2>2. td' \in Flags /\ wcopy' \in Flags \cup {NoCopy} /\ pc' \in {pc, "init"}
    BY <1>2, <1>3, <2>1, SetFlagsType DEF ShowTransfer
  <2>3. mainpc' \in {mainpc, "hung"}
    BY <1>3 DEF ShowTransfer
  <2> QED
    BY <1>3, <2>2, <2>3, RangeType DEF ShowTransfer
<1>4. ASSUME NEW slot \in BOOLEAN, StartQueued(slot) PROVE TypeOK'
  <2>1. td' \in Flags /\ wcopy' \in Flags \cup {NoCopy} /\ pc' \in {pc, "init"}
    BY <1>2, <1>4 DEF StartQueued
  <2> QED
    BY <1>4, <2>1 DEF StartQueued
<1>5. CASE TransferDone
  <2>1. freed' \in BOOLEAN /\ mainpc' \in {mainpc, "reap"}
    BY <1>5 DEF TransferDone
  <2> QED
    BY <1>5, <2>1 DEF TransferDone
<1> QED
  BY <1>1, <1>3, <1>4, <1>5 DEF Tick

\* The end of a nested main loop, the dialog and the menu preserve types.
LEMMA UserType == TypeOK /\ (RefreshReturns \/ User) => TypeOK'
<1> SUFFICES ASSUME TypeOK, RefreshReturns \/ User PROVE TypeOK'
  OBVIOUS
<1> USE DEF TypeOK, Labels, OnFile, jobVars, workerVars
<1>1. CASE RefreshReturns
  <2>1. freed' \in BOOLEAN /\ mainpc' = "idle"
    BY <1>1 DEF RefreshReturns
  <2> QED
    BY <1>1, <2>1 DEF RefreshReturns
<1>2. ASSUME NEW f \in Exists, NEW a \in Actions \ {"none"}, SetAction(f, a) PROVE TypeOK'
  <2>1. action' \in [Files -> Actions]
    BY <1>2 DEF SetAction
  <2> QED
    BY <1>2, <2>1 DEF SetAction
<1>3. ASSUME NEW ok \in BOOLEAN, AskTransfer(ok) PROVE TypeOK'
  <2> DEFINE sk == \A f \in Range(files) : action[f] = "skip"
             byte == [td EXCEPT !.ready = TRUE, !.show = ok /\ ~sk, !.done = ~ok \/ sk]
  <2>1. SetFlags(byte)
    BY <1>3 DEF AskTransfer
  <2>2. (ok /\ ~sk) \in BOOLEAN /\ (~ok \/ sk) \in BOOLEAN
    OBVIOUS
  <2>3. byte \in Flags
    BY <2>2 DEF Flags
  <2>4. td' \in Flags /\ wcopy' \in Flags \cup {NoCopy}
    BY <2>1, <2>3, SetFlagsType
  <2> QED
    BY <1>3, <2>4 DEF AskTransfer
<1>4. CASE MenuHangs
  BY <1>4 DEF MenuHangs
<1>5. CASE StartTransfer
  <2>1. Created(td) \in Flags
    BY FlagsWrite DEF Created
  <2>2. td' \in Flags /\ wcopy' \in Flags \cup {NoCopy}
    BY <1>5, <2>1, SetFlagsType DEF StartTransfer
  <2> QED
    BY <1>5, <2>2 DEF StartTransfer
<1>6. CASE StopTransfer
  <2>1. StopFlags \in Flags
    BY FlagsWrite DEF StopFlags
  <2>2. td' \in Flags /\ wcopy' \in Flags \cup {NoCopy}
    BY <1>6, <2>1, SetFlagsType DEF StopTransfer
  <2>3. hist' \in History
    <3>1. (hist.stop \/ td.started) \in BOOLEAN
      OBVIOUS
    <3> QED
      BY <1>6, <3>1, HistoryFlag DEF StopTransfer
  <2>4. skip_file' \in BOOLEAN
    BY <1>6 DEF StopTransfer
  <2> QED
    BY <1>6, <2>2, <2>3, <2>4 DEF StopTransfer
<1>7. ASSUME NEW f \in Files, SkipFile(f), mainpc' = mainpc PROVE TypeOK'
  <2>1. hist' \in History
    <3>1. hist.asked \in SUBSET Files
      BY DEF History
    <3>2. (IF td.started THEN hist.asked \cup {f} ELSE hist.asked) \in SUBSET Files
      BY <3>1
    <3> QED
      BY <1>7, <3>2, HistorySet DEF SkipFile
  <2>2. td' \in Flags /\ wcopy' \in Flags \cup {NoCopy}
    <3>1. [td EXCEPT !.cancel = TRUE] \in Flags
      BY FlagsWrite
    <3> QED
      BY <1>7, <3>1, SetFlagsType DEF SkipFile
  <2>3. skip_file' \in BOOLEAN /\ action' \in [Files -> Actions]
    BY <1>7 DEF SkipFile, Actions
  <2> QED
    BY <1>7, <2>1, <2>2, <2>3 DEF SkipFile
<1>8. CASE SkipTransfer
  <2>1. CASE curfle # NoFile /\ SkipFile(curfle) /\ mainpc' = mainpc
    BY <1>7, <2>1, RangeType
  <2>2. CASE pc = "after" /\ SkipFile(wf) /\ mainpc' = mainpc
    BY <1>7, <2>2
  <2>3. CASE mainpc' = "crashed" /\ UNCHANGED <<jobVars, workerVars, freed, hist>>
    BY <2>3
  <2> QED
    BY <1>8, <2>1, <2>2, <2>3 DEF SkipTransfer
<1>9. ASSUME NEW f \in Files, RemoveFileTransfer(f) PROVE TypeOK'
  BY <1>7, <1>9 DEF RemoveFileTransfer
<1>10. ASSUME NEW f \in Files, AppendFile(f) PROVE TypeOK'
  BY <1>10, AppendType DEF AppendFile
<1>11. ASSUME NEW i \in DOMAIN files, MoveTransfer(i) PROVE TypeOK'
  <2>1. i \in 1..(Len(files) - 1) /\ files' = [files EXCEPT ![i] = files[i + 1], ![i + 1] = files[i]]
    BY <1>11 DEF MoveTransfer
  <2>2. files' \in Seq(Files) /\ files' # <<>> /\ Range(files') = Range(files)
    BY <2>1, SwapType
  <2> QED
    BY <1>11, <2>2 DEF MoveTransfer
<1> QED
  BY <1>1, <1>2, <1>3, <1>4, <1>5, <1>6, <1>8, <1>9, <1>10, <1>11 DEF User

\* Every reachable state is well typed, curfle and updfle are nodes of the list or
\* NULL, and the worker is never on a NULL file, for every queue and option.
THEOREM TypeCorrect == Spec => []TypeOK
<1>1. Init => TypeOK
  BY InitType
<1>2. TypeOK /\ [Next]_vars => TypeOK'
  <2>1. ASSUME TypeOK, UNCHANGED vars PROVE TypeOK'
    BY <2>1 DEF TypeOK, vars, jobVars, workerVars
  <2> QED
    BY <2>1, WorkerType, TickType, UserType DEF Next
<1> QED
  BY <1>1, <1>2, PTL DEF Spec

-----------------------------------------------------------------------------
(* The worker's last access to tdata comes before free_tdata(), unless the    *)
(* user starts a job by hand (start_transfer() does not look at done).        *)

\* and no transfer.
LEMMA InitJob == Init => JobInv
BY DEF Init, JobInv, StartedMeansThread, DoneMeansExit, PendingStore, ShowMeansQueued, ReapMeansDone

\* The worker: done is its last write, and what it stores is never a byte from
\* before the job was started.
LEMMA WorkerJob == TypeOK /\ JobInv /\ Worker => JobInv'
<1> SUFFICES ASSUME TypeOK, JobInv, Worker PROVE JobInv'
  OBVIOUS
<1>t. td \in Flags /\ wcopy \in Flags \cup {NoCopy}
  BY DEF TypeOK
<1> USE DEF JobInv, StartedMeansThread, DoneMeansExit, PendingStore, ShowMeansQueued, ReapMeansDone, At
<1>1. CASE WorkerStore
  BY <1>1, <1>t DEF WorkerStore, Flags
<1>2. CASE WorkerInit \/ WorkerLoop \/ WorkerCheck \/ WorkerMkdir \/ WorkerOpen \/ WorkerTest \/ WorkerEnd
  BY <1>2, <1>t DEF WorkerInit, WorkerLoop, WorkerCheck, WorkerMkdir, WorkerOpen, WorkerTest, WorkerEnd,
     jobVars
<1>3. CASE WorkerBlock
  BY <1>3, <1>t DEF WorkerBlock, WorkerWrite
<1>4. CASE WorkerReturned \/ WorkerStatus \/ WorkerGiveUp \/ WorkerAfter
  BY <1>4, <1>t DEF WorkerReturned, WorkerStatus, WorkerGiveUp, WorkerAfter, jobVars
<1>5. CASE WorkerReconnect
  BY <1>5, <1>t DEF WorkerReconnect, Flags
<1>6. CASE WorkerNext
  BY <1>6, <1>t DEF WorkerNext, Flags
<1>7. CASE WorkerClear
  BY <1>7, <1>t DEF WorkerClear, WorkerWrite, Flags
<1>8. CASE WorkerFinish
  BY <1>8, <1>t DEF WorkerFinish, WorkerWrite, Flags
<1> QED
  BY <1>1, <1>2, <1>3, <1>4, <1>5, <1>6, <1>7, <1>8 DEF Worker

\* The tick frees only what is done, and starts only what is not.
LEMMA TickJob == TypeOK /\ JobInv /\ (Tick \/ RefreshReturns) => JobInv'
<1> SUFFICES ASSUME TypeOK, JobInv, Tick \/ RefreshReturns PROVE JobInv'
  OBVIOUS
<1>t. td \in Flags /\ wcopy \in Flags \cup {NoCopy}
  BY DEF TypeOK
<1> USE DEF JobInv, StartedMeansThread, DoneMeansExit, PendingStore, ShowMeansQueued, ReapMeansDone
<1>1. CASE mainpc = "idle" /\ ~freed /\ td.ready /\ OnNextTransfer
  BY <1>1, <1>t DEF OnNextTransfer, SetFlags, Flags
<1>2. ASSUME NEW slot \in BOOLEAN, mainpc = "idle" /\ ~freed /\ td.ready, ShowTransfer(slot) PROVE JobInv'
  BY <1>2, <1>t DEF ShowTransfer, StartIfAllowed, SetFlags, Created, Flags
<1>3. ASSUME NEW slot \in BOOLEAN, mainpc = "idle" /\ ~freed /\ td.ready, StartQueued(slot) PROVE JobInv'
  BY <1>3, <1>t DEF StartQueued, StartIfAllowed, SetFlags, Created, Flags
<1>4. CASE mainpc = "idle" /\ ~freed /\ td.ready /\ TransferDone
  BY <1>4 DEF TransferDone, jobVars, workerVars
<1>5. CASE RefreshReturns
  BY <1>5 DEF RefreshReturns, jobVars, workerVars
<1> QED
  BY <1>1, <1>2, <1>3, <1>4, <1>5 DEF Tick

\* The menu without Start Transfer.
LEMMA UserJob ==
  ASSUME "start" \notin UserOps
  PROVE  TypeOK /\ JobInv /\ User => JobInv'
<1> SUFFICES ASSUME TypeOK, JobInv, User PROVE JobInv'
  OBVIOUS
<1>t. td \in Flags /\ wcopy \in Flags \cup {NoCopy}
  BY DEF TypeOK
<1> USE DEF JobInv, StartedMeansThread, DoneMeansExit, PendingStore, ShowMeansQueued, ReapMeansDone
<1>1. ASSUME NEW f \in Exists, NEW a \in Actions \ {"none"}, SetAction(f, a) PROVE JobInv'
  BY <1>1 DEF SetAction, workerVars
<1>2. ASSUME NEW ok \in BOOLEAN, AskTransfer(ok) PROVE JobInv'
  BY <1>2, <1>t DEF AskTransfer, SetFlags, Flags
<1>3. CASE MenuHangs
  BY <1>3 DEF MenuHangs, jobVars, workerVars
<1>4. CASE StartTransfer
  BY <1>4 DEF StartTransfer, Menu
<1>5. CASE StopTransfer
  <2>1. CASE td.started
    BY <1>5, <1>t, <2>1 DEF StopTransfer, StopFlags, SetFlags, Flags
  <2>2. CASE ~td.started
    BY <1>5, <1>t, <2>2 DEF StopTransfer, StopFlags, SetFlags, Flags, Menu, RowShown
  <2> QED
    BY <2>1, <2>2
<1>6. ASSUME NEW f, SkipFile(f), mainpc' = mainpc PROVE JobInv'
  BY <1>6, <1>t DEF SkipFile, SetFlags, Flags
<1>7. CASE SkipTransfer
  <2>1. CASE mainpc' = "crashed" /\ UNCHANGED <<jobVars, workerVars, freed, hist>>
    BY <2>1 DEF jobVars, workerVars
  <2> QED
    BY <1>6, <1>7, <2>1 DEF SkipTransfer
<1>8. ASSUME NEW f \in Files, RemoveFileTransfer(f) PROVE JobInv'
  BY <1>6, <1>8 DEF RemoveFileTransfer
<1>9. ASSUME NEW f \in Files, AppendFile(f) PROVE JobInv'
  BY <1>9 DEF AppendFile, workerVars
<1>10. ASSUME NEW i \in DOMAIN files, MoveTransfer(i) PROVE JobInv'
  BY <1>10 DEF MoveTransfer, workerVars
<1> QED
  BY <1>1, <1>2, <1>3, <1>4, <1>5, <1>7, <1>8, <1>9, <1>10 DEF User

\* What started and done say about the worker holds in every reachable state,
\* whatever the interleaving of the two threads' writes to the flag byte.
THEOREM JobInvariant ==
  ASSUME "start" \notin UserOps
  PROVE  Spec => []JobInv
<1>1. Init => JobInv
  BY InitJob
<1>2. TypeOK /\ JobInv /\ [Next]_vars => JobInv'
  <2>1. ASSUME JobInv, UNCHANGED vars PROVE JobInv'
    BY <2>1 DEF JobInv, StartedMeansThread, DoneMeansExit, PendingStore, ShowMeansQueued, ReapMeansDone,
       vars, jobVars, workerVars
  <2> QED
    BY <2>1, WorkerJob, TickJob, UserJob DEF Next
<1> QED
  BY <1>1, <1>2, TypeCorrect, PTL DEF Spec

\* transfer_done() frees tdata only when no thread can touch it any more.
THEOREM FreeIsSafe ==
  ASSUME "start" \notin UserOps
  PROVE  Spec => []NoUseAfterFree
<1>1. JobInv => NoUseAfterFree
  BY DEF JobInv, StartedMeansThread, DoneMeansExit, PendingStore, ReapMeansDone, NoUseAfterFree
<1> QED
  BY <1>1, JobInvariant, PTL

-----------------------------------------------------------------------------
(* Order in a list of files without duplicates. *)

NoDuplicates(s) == \A i, j \in DOMAIN s : s[i] = s[j] => i = j
PosIn(s, f) == CHOOSE i \in DOMAIN s : s[i] = f
Precedes(s, f, g) == f \in Range(s) /\ (g = NoFile \/ PosIn(s, f) < PosIn(s, g))
Exchanged(s, i) == [s EXCEPT ![i] = s[i + 1], ![i + 1] = s[i]]

-----------------------------------------------------------------------------
(* The walk over the list. *)

\* The thread exists exactly when the job is started, and no pending store of the flag
\* byte undoes that.
Thread ==
  /\ td.started <=> pc # "none"
  /\ td.started => td.ready
  /\ td.show => ~td.started
  /\ wcopy # NoCopy => pc # "none" /\ wcopy.started /\ wcopy.ready /\ ~wcopy.show

\* The worker is on curfle from the start of a file to the end.
OnCurfle == pc \in OnFile \ {"after"} => wf = curfle

\* Nothing is done before the walk begins, nor is what is not in the list.
Untouched(f) == ~transfer_done[f] /\ f \notin hist.passed
Fresh == /\ pc \in {"none", "init"} => \A f \in Files : Untouched(f)
         /\ \A f \in Files \ Range(files) : Untouched(f)

WalkInv == NoDuplicates(files) /\ Thread /\ OnCurfle /\ Fresh /\ WalkIsExact

\* next_file is set by a worker that walks, and updfle is not after curfle.
Walking == pc \notin {"none", "init"}
NextMeansWalking == (td.next_file => Walking) /\ (wcopy # NoCopy /\ wcopy.next_file => Walking)
Behind(u, c) == c = NoFile \/ (u \in Range(files) /\ (u = c \/ Before(u, c)))
UpdBehind == /\ Walking => Behind(updfle, curfle)
             /\ pc = "none" => curfle = updfle /\ curfle \in {NoFile, files[1]}
             /\ pc = "init" => updfle = files[1] /\ curfle = files[1]
UpdInv == NextMeansWalking /\ UpdBehind /\ PostProcessedAfterTransfer

\* A file that has failed resumes; a Skip the job accepts for the file the worker is on
\* is remembered in skip_file.
FreshRetry == \A f \in Files : retry_transfer[f] =>
                 Walking /\ (transfer_done[f] \/ f \in hist.passed \/ f = curfle)
RetryResumes == pc \in {"check", "open"} /\ retry_transfer[wf] => action[wf] = "resume"
RetryResumesLoop == pc = "loop" /\ curfle # NoFile /\ retry_transfer[curfle] => action[curfle] = "resume"
RetryFresh == pc \in {"after", "clear"} /\ curfle # NoFile => ~retry_transfer[curfle]
SkipRemembered ==
  /\ pc \in {"open", "test", "block", "end", "status", "reconnect"} /\ action[wf] = "skip" /\ ~hist.stop => skip_file
  /\ pc = "returned" /\ action[wf] = "skip" /\ ~hist.stop => skip_file \/ ret = "ok"
SkipInv == FreshRetry /\ RetryResumes /\ RetryResumesLoop /\ RetryFresh /\ SkipRemembered

\* A node's position, in a list without duplicates.
LEMMA PosIs ==
  ASSUME NEW s \in Seq(Files), NoDuplicates(s), NEW i \in 1..Len(s)
  PROVE  PosIn(s, s[i]) = i
BY DEF NoDuplicates, PosIn

\* A file of the list is at its position.
LEMMA PosAt ==
  ASSUME NEW s \in Seq(Files), NEW f \in Range(s)
  PROVE  PosIn(s, f) \in 1..Len(s) /\ s[PosIn(s, f)] = f
<1>1. \E i \in DOMAIN s : s[i] = f
  BY DEF Range
<1> QED
  BY <1>1 DEF PosIn

\* The order of the proofs is that of the model, in this state
LEMMA BeforeIsPrecedes == \A f, g : Before(f, g) <=> Precedes(files, f, g)
BY DEF Before, Precedes, Pos, PosIn

\* and in the next one, whose list may have other files.
LEMMA BeforeIsPrecedesNext == \A f : Before(f, curfle)' <=> Precedes(files', f, curfle')
BY DEF Before, Precedes, Pos, PosIn

\* No file comes before the first.
LEMMA FirstPrecedes ==
  ASSUME NEW s \in Seq(Files), s # <<>>, NoDuplicates(s)
  PROVE  s[1] \in Range(s) /\ s[1] # NoFile /\ \A f : ~Precedes(s, f, s[1])
<1>1. 1 \in 1..Len(s) /\ DOMAIN s = 1..Len(s)
  OBVIOUS
<1>2. PosIn(s, s[1]) = 1
  BY <1>1, PosIs
<1>3. s[1] \in Range(s) /\ s[1] \in Files
  BY <1>1 DEF Range
<1>4. s[1] # NoFile
  BY <1>3, QueueAssumption
<1>5. ASSUME NEW f, Precedes(s, f, s[1]) PROVE FALSE
  <2>1. f \in Range(s) /\ PosIn(s, f) < 1
    BY <1>2, <1>4, <1>5 DEF Precedes
  <2> QED
    BY <2>1, PosAt
<1> QED
  BY <1>3, <1>4, <1>5

\* A file comes before the next of c when it comes before c or is c, and c is not before
\* itself.
LEMMA NextPrecedes ==
  ASSUME files \in Seq(Files), NoDuplicates(files), NEW c \in Range(files)
  PROVE  /\ \A f \in Range(files) : Precedes(files, f, NextNode(c)) <=> Precedes(files, f, c) \/ f = c
         /\ ~Precedes(files, c, c)
         /\ c # NextNode(c)
<1>1. c \in Files /\ c # NoFile
  BY QueueAssumption DEF Range
<1>2. PosIn(files, c) \in 1..Len(files) /\ files[PosIn(files, c)] = c /\ Pos(c) = PosIn(files, c)
  BY PosAt DEF Pos, PosIn
<1>3. ~Precedes(files, c, c)
  BY <1>1, <1>2 DEF Precedes
<1>4. ASSUME NEW f \in Range(files)
      PROVE  /\ PosIn(files, f) \in 1..Len(files)
             /\ PosIn(files, f) = PosIn(files, c) <=> f = c
  BY <1>2, PosAt
<1>5. CASE Pos(c) = Len(files)
  <2>1. NextNode(c) = NoFile
    BY <1>5 DEF NextNode
  <2> QED
    BY <1>1, <1>2, <1>3, <1>4, <1>5, <2>1 DEF Precedes
<1>6. CASE Pos(c) # Len(files)
  <2>1. NextNode(c) = files[Pos(c) + 1] /\ Pos(c) + 1 \in 1..Len(files)
    BY <1>1, <1>2, <1>6 DEF NextNode
  <2>2. PosIn(files, NextNode(c)) = PosIn(files, c) + 1 /\ NextNode(c) \in Files
    BY <1>2, <2>1, PosIs
  <2>3. NextNode(c) # NoFile
    BY <2>2, QueueAssumption
  <2> QED
    BY <1>1, <1>2, <1>3, <1>4, <2>2, <2>3 DEF Precedes
<1> QED
  BY <1>5, <1>6

\* An exchange of two neighbours leaves what is before every other node.
LEMMA ExchangePrecedes ==
  ASSUME NEW s \in Seq(Files), NoDuplicates(s), NEW i \in 1..(Len(s) - 1)
  PROVE  /\ NoDuplicates(Exchanged(s, i)) /\ Range(Exchanged(s, i)) = Range(s)
         /\ \A c \in (Range(s) \cup {NoFile}) \ {s[i], s[i + 1]}, f \in Range(s) :
              Precedes(Exchanged(s, i), f, c) <=> Precedes(s, f, c)
         /\ i # 1 => Exchanged(s, i)[1] = s[1]
<1> DEFINE t == Exchanged(s, i)
           p(k) == IF k = i THEN i + 1 ELSE IF k = i + 1 THEN i ELSE k
<1>0. i \in 1..Len(s) /\ i + 1 \in 1..Len(s) /\ DOMAIN s = 1..Len(s) /\ s # <<>>
  OBVIOUS
<1>1. t \in Seq(Files) /\ Len(t) = Len(s) /\ \A k \in 1..Len(s) : t[k] = s[p(k)]
  <2> DEFINE u == [s EXCEPT ![i] = s[i + 1]]
             v == [u EXCEPT ![i + 1] = s[i]]
  <2>1. s[i] \in Files /\ s[i + 1] \in Files
    BY <1>0
  <2>2. /\ u \in Seq(Files) /\ Len(u) = Len(s)
        /\ \A j \in 1..Len(s) : u[j] = IF j = i THEN s[i + 1] ELSE s[j]
    BY <1>0, <2>1, ExceptSeq
  <2>3. /\ v \in Seq(Files) /\ Len(v) = Len(u)
        /\ \A j \in 1..Len(u) : v[j] = IF j = i + 1 THEN s[i] ELSE u[j]
    BY <1>0, <2>1, <2>2, ExceptSeq
  <2>4. t = v
    BY DEF Exchanged
  <2> HIDE DEF t, u, v
  <2> QED
    BY <1>0, <2>2, <2>3, <2>4
<1> HIDE DEF t
<1>2. \A k \in 1..Len(s) : p(k) \in 1..Len(s) /\ p(p(k)) = k
  BY <1>0
<1>3. DOMAIN t = 1..Len(s)
  BY <1>1
<1>4. NoDuplicates(t)
  <2>1. SUFFICES ASSUME NEW a \in 1..Len(s), NEW b \in 1..Len(s), t[a] = t[b] PROVE a = b
    BY <1>3 DEF NoDuplicates
  <2>2. p(a) = p(b)
    BY <1>0, <1>1, <1>2, <2>1 DEF NoDuplicates
  <2> QED
    BY <1>2, <2>2
<1>5. Range(t) = Range(s)
  <2>1. ASSUME NEW x \in Range(t) PROVE x \in Range(s)
    <3>1. PICK k \in 1..Len(s) : t[k] = x
      BY <1>3 DEF Range
    <3> QED
      BY <1>0, <1>1, <1>2, <3>1 DEF Range
  <2>2. ASSUME NEW x \in Range(s) PROVE x \in Range(t)
    <3>1. PICK k \in 1..Len(s) : s[k] = x
      BY <1>0 DEF Range
    <3>2. p(k) \in 1..Len(s) /\ t[p(k)] = x
      BY <1>1, <1>2, <3>1
    <3> QED
      BY <1>3, <3>2 DEF Range
  <2> QED
    BY <2>1, <2>2
<1>6. \A f \in Range(s) : PosIn(t, f) = p(PosIn(s, f)) /\ PosIn(s, f) \in 1..Len(s) /\ s[PosIn(s, f)] = f
  <2>1. SUFFICES ASSUME NEW f \in Range(s)
                 PROVE  PosIn(t, f) = p(PosIn(s, f)) /\ PosIn(s, f) \in 1..Len(s) /\ s[PosIn(s, f)] = f
    OBVIOUS
  <2>2. PosIn(s, f) \in 1..Len(s) /\ s[PosIn(s, f)] = f
    BY PosAt
  <2>3. p(PosIn(s, f)) \in 1..Len(t) /\ t[p(PosIn(s, f))] = f
    BY <1>1, <1>2, <2>2
  <2>4. PosIn(t, t[p(PosIn(s, f))]) = p(PosIn(s, f))
    BY <1>1, <1>4, <2>3, PosIs
  <2> QED
    BY <2>2, <2>3, <2>4
<1>7. ASSUME NEW c \in (Range(s) \cup {NoFile}) \ {s[i], s[i + 1]}, NEW f \in Range(s)
      PROVE  Precedes(t, f, c) <=> Precedes(s, f, c)
  <2>1. CASE c = NoFile
    BY <1>5, <2>1 DEF Precedes
  <2>2. CASE c # NoFile
    <3>1. c \in Range(s)
      BY <2>2
    <3>2. PosIn(s, c) # i /\ PosIn(s, c) # i + 1 /\ PosIn(s, c) \in 1..Len(s) /\ PosIn(t, c) = PosIn(s, c)
      BY <1>6, <3>1
    <3>3. PosIn(s, f) \in 1..Len(s) /\ PosIn(t, f) = p(PosIn(s, f))
      BY <1>6
    <3>4. PosIn(t, f) < PosIn(t, c) <=> PosIn(s, f) < PosIn(s, c)
      BY <1>0, <3>2, <3>3
    <3> QED
      BY <1>5, <2>2, <3>4 DEF Precedes
  <2> QED
    BY <2>1, <2>2
<1>8. i # 1 => t[1] = s[1]
  BY <1>0, <1>1
<1> QED
  BY <1>4, <1>5, <1>7, <1>8 DEF t

\* A file appended to the list comes after every other.
LEMMA AppendPrecedes ==
  ASSUME NEW s \in Seq(Files), NoDuplicates(s), s # <<>>, NEW g \in Files \ Range(s)
  PROVE  /\ NoDuplicates(Append(s, g)) /\ Range(Append(s, g)) = Range(s) \cup {g}
         /\ \A c \in Range(s), f \in Range(s) : Precedes(Append(s, g), f, c) <=> Precedes(s, f, c)
         /\ \A c \in Range(s) : ~Precedes(Append(s, g), g, c)
         /\ Append(s, g)[1] = s[1]
<1> DEFINE t == Append(s, g)
<1>0. DOMAIN s = 1..Len(s) /\ 1 \in 1..Len(s)
  OBVIOUS
<1>1. /\ t \in Seq(Files) /\ Len(t) = Len(s) + 1 /\ t[Len(s) + 1] = g
      /\ \A k \in 1..Len(s) : t[k] = s[k]
  BY AppendProperties
<1> HIDE DEF t
<1>2. DOMAIN t = 1..(Len(s) + 1)
  BY <1>1
<1>3. \A k \in 1..Len(s) : s[k] # g /\ s[k] \in Range(s)
  BY DEF Range
<1>4. NoDuplicates(t)
  BY <1>0, <1>1, <1>2, <1>3 DEF NoDuplicates
<1>5. Range(t) = Range(s) \cup {g}
  <2>1. ASSUME NEW x \in Range(t) PROVE x \in Range(s) \cup {g}
    <3>1. PICK k \in 1..(Len(s) + 1) : t[k] = x
      BY <1>2 DEF Range
    <3>2. k \in 1..Len(s) \/ k = Len(s) + 1
      OBVIOUS
    <3> QED
      BY <1>1, <1>3, <3>1, <3>2
  <2>2. ASSUME NEW x \in Range(s) \cup {g} PROVE x \in Range(t)
    <3>1. \E k \in 1..(Len(s) + 1) : t[k] = x
      BY <1>0, <1>1, <2>2 DEF Range
    <3> QED
      BY <1>2, <3>1 DEF Range
  <2> QED
    BY <2>1, <2>2
<1>6. \A f \in Range(s) : PosIn(t, f) = PosIn(s, f) /\ PosIn(s, f) \in 1..Len(s)
  <2>1. SUFFICES ASSUME NEW f \in Range(s) PROVE PosIn(t, f) = PosIn(s, f) /\ PosIn(s, f) \in 1..Len(s)
    OBVIOUS
  <2>2. PosIn(s, f) \in 1..Len(s) /\ s[PosIn(s, f)] = f
    BY PosAt
  <2>3. PosIn(s, f) \in 1..Len(t) /\ t[PosIn(s, f)] = f
    BY <1>1, <2>2
  <2>4. PosIn(t, t[PosIn(s, f)]) = PosIn(s, f)
    BY <1>1, <1>4, <2>3, PosIs
  <2> QED
    BY <2>2, <2>3, <2>4
<1>7. PosIn(t, g) = Len(s) + 1
  <2>1. Len(s) + 1 \in 1..Len(t)
    BY <1>1
  <2> QED
    BY <1>1, <1>4, <2>1, PosIs
<1>8. NoFile \notin Range(s)
  BY QueueAssumption DEF Range
<1>9. \A c \in Range(s), f \in Range(s) : Precedes(t, f, c) <=> Precedes(s, f, c)
  BY <1>5, <1>6, <1>8 DEF Precedes
<1>10. \A c \in Range(s) : ~Precedes(t, g, c)
  BY <1>6, <1>7, <1>8 DEF Precedes
<1> QED
  BY <1>0, <1>1, <1>4, <1>5, <1>9, <1>10 DEF t

\* A job is created with a list without duplicates, nothing done and no thread.
LEMMA WalkInit == Init => WalkInv
<1> SUFFICES ASSUME Init PROVE WalkInv
  OBVIOUS
<1>1. NoDuplicates(files)
  BY QueueAssumption DEF Init, NoDuplicates
<1>2. Thread /\ OnCurfle /\ Fresh /\ WalkIsExact
  BY DEF Init, Thread, OnCurfle, OnFile, Fresh, Untouched, WalkIsExact
<1> QED
  BY <1>1, <1>2 DEF WalkInv

\* The thread is started once, by the tick or by the menu.
LEMMA ThreadStep ==
  ASSUME TypeOK, Thread, [Next]_vars
  PROVE  Thread'
<1>t. td \in Flags /\ wcopy \in Flags \cup {NoCopy}
  BY DEF TypeOK
<1> USE DEF Thread, At
<1>1. CASE WorkerStore
  BY <1>1, <1>t DEF WorkerStore, Flags
<1>2. CASE WorkerInit \/ WorkerLoop \/ WorkerCheck \/ WorkerMkdir \/ WorkerOpen \/ WorkerTest \/ WorkerEnd
  BY <1>2, <1>t DEF WorkerInit, WorkerLoop, WorkerCheck, WorkerMkdir, WorkerOpen, WorkerTest, WorkerEnd, jobVars
<1>3. CASE WorkerBlock
  BY <1>3, <1>t DEF WorkerBlock, WorkerWrite
<1>4. CASE WorkerReturned \/ WorkerStatus \/ WorkerGiveUp \/ WorkerAfter
  BY <1>4, <1>t DEF WorkerReturned, WorkerStatus, WorkerGiveUp, WorkerAfter, jobVars
<1>5. CASE WorkerReconnect
  BY <1>5, <1>t DEF WorkerReconnect, Flags
<1>6. CASE WorkerNext
  BY <1>6, <1>t DEF WorkerNext, Flags
<1>7. CASE WorkerClear
  BY <1>7, <1>t DEF WorkerClear, WorkerWrite, Flags
<1>8. CASE WorkerFinish
  BY <1>8, <1>t DEF WorkerFinish, WorkerWrite, Flags
<1>9. CASE Worker
  BY <1>1, <1>2, <1>3, <1>4, <1>5, <1>6, <1>7, <1>8, <1>9 DEF Worker
<1>10. CASE OnNextTransfer
  BY <1>10, <1>t DEF OnNextTransfer, SetFlags, Flags
<1>11. ASSUME NEW slot \in BOOLEAN, td.ready, ShowTransfer(slot) PROVE Thread'
  BY <1>11, <1>t DEF ShowTransfer, StartIfAllowed, SetFlags, Created, Flags
<1>12. ASSUME NEW slot \in BOOLEAN, td.ready, StartQueued(slot) PROVE Thread'
  BY <1>12, <1>t DEF StartQueued, StartIfAllowed, SetFlags, Created, Flags
<1>13. CASE TransferDone \/ RefreshReturns \/ MenuHangs
  BY <1>13 DEF TransferDone, RefreshReturns, MenuHangs, jobVars, workerVars
<1>14. CASE Tick
  BY <1>10, <1>11, <1>12, <1>13, <1>14 DEF Tick
<1>15. ASSUME NEW f \in Exists, NEW a \in Actions \ {"none"}, SetAction(f, a) PROVE Thread'
  BY <1>15 DEF SetAction, workerVars
<1>16. ASSUME NEW ok \in BOOLEAN, AskTransfer(ok) PROVE Thread'
  BY <1>16, <1>t DEF AskTransfer, SetFlags, Flags
<1>17. CASE StartTransfer
  BY <1>17, <1>t DEF StartTransfer, Menu, RowShown, SetFlags, Created, Flags
<1>18. CASE StopTransfer
  BY <1>18, <1>t DEF StopTransfer, StopFlags, SetFlags, Flags
<1>19. ASSUME NEW f, SkipFile(f) PROVE Thread'
  BY <1>19, <1>t DEF SkipFile, SetFlags, Flags
<1>20. CASE SkipTransfer
  <2>1. CASE mainpc' = "crashed" /\ UNCHANGED <<jobVars, workerVars, freed, hist>>
    BY <2>1 DEF jobVars, workerVars
  <2> QED
    BY <1>19, <1>20, <2>1 DEF SkipTransfer
<1>21. ASSUME NEW f \in Files, RemoveFileTransfer(f) PROVE Thread'
  BY <1>19, <1>21 DEF RemoveFileTransfer
<1>22. ASSUME NEW f \in Files, AppendFile(f) PROVE Thread'
  BY <1>22 DEF AppendFile, workerVars
<1>23. ASSUME NEW i \in DOMAIN files, MoveTransfer(i) PROVE Thread'
  BY <1>23 DEF MoveTransfer, workerVars
<1>24. CASE User
  BY <1>13, <1>15, <1>16, <1>17, <1>18, <1>20, <1>21, <1>22, <1>23, <1>24 DEF User
<1>25. CASE UNCHANGED vars
  BY <1>25 DEF vars, jobVars, workerVars
<1> QED
  BY <1>9, <1>13, <1>14, <1>24, <1>25 DEF Next

\* What a step may do to the walk: nothing, begin it, advance it by one file, reorder
\* neighbours away from curfle, or add a file after it.
Still == UNCHANGED <<files, curfle, transfer_done>> /\ hist'.passed = hist.passed
Keeps == Still /\ Walking' = Walking
Shows == /\ UNCHANGED <<files, transfer_done>> /\ hist'.passed = hist.passed
         /\ pc = "none" /\ ~Walking' /\ curfle' = files[1] /\ updfle' = files[1]
Begins == /\ UNCHANGED <<files, transfer_done>> /\ hist'.passed = hist.passed
          /\ pc = "init" /\ curfle' = files[1] /\ pc' = "loop"
Advances == /\ Walking /\ Walking' /\ curfle \in Range(files) /\ files' = files
            /\ curfle' = NextNode(curfle)
            /\ \/ /\ transfer_done' = [transfer_done EXCEPT ![curfle] = TRUE]
                  /\ hist'.passed = hist.passed
               \/ /\ transfer_done' = transfer_done
                  /\ hist'.passed = hist.passed \cup {curfle}
            /\ \/ pc = "next" /\ pc' = "after"
               \/ skip_file /\ pc = "reconnect" /\ pc' = "loop"
Reorders == /\ UNCHANGED <<curfle, transfer_done, pc>> /\ hist'.passed = hist.passed
            /\ \E i \in 1..(Len(files) - 1) :
                 /\ files' = Exchanged(files, i)
                 /\ IF pc = "none" THEN "move_queued" \in UserOps ELSE curfle \notin {files[i], files[i + 1]}
Extends == /\ UNCHANGED <<curfle, transfer_done, pc>> /\ hist'.passed = hist.passed
           /\ curfle # NoFile
           /\ \E f \in Files \ Range(files) : files' = Append(files, f)

\* The worker's steps: all but three leave the walk where it is.
LEMMA WorkerWalk ==
  ASSUME TypeOK, OnCurfle, Worker
  PROVE  /\ Keeps \/ Begins \/ Advances
         /\ pc = "init" /\ pc' # "init" => Begins
         /\ OnCurfle'
<1>t. /\ curfle \in Range(files) \cup {NoFile} /\ hist \in History /\ Range(files) \subseteq Files
      /\ pc \in Labels /\ (pc \in OnFile => wf \in Files)
  BY RangeType DEF TypeOK
<1>n. NoFile \notin Files
  BY QueueAssumption
<1> DEFINE Goal == /\ Keeps \/ Begins \/ Advances
                   /\ pc = "init" /\ pc' # "init" => Begins
                   /\ OnCurfle'
<1>1. ASSUME Still, Walking, Walking', UNCHANGED wf, pc' \in OnFile \ {"after"} => pc \in OnFile \ {"after"}
      PROVE  Goal
  BY <1>1 DEF Keeps, Still, OnCurfle, Walking
<1> USE DEF At, jobVars, OnFile, Walking
<1>2. CASE WorkerStore
  <2>1. Still /\ UNCHANGED <<wf, pc>>
    BY <1>2 DEF WorkerStore, Still
  <2> QED
    BY <2>1 DEF Keeps, Still, OnCurfle
<1>3. CASE WorkerInit
  BY <1>3 DEF WorkerInit, Begins, OnCurfle
<1>4. CASE WorkerLoop
  BY <1>4 DEF WorkerLoop, Keeps, Still, OnCurfle
<1>5. CASE WorkerCheck
  BY <1>1, <1>5 DEF WorkerCheck, Still
<1>6. CASE WorkerMkdir
  BY <1>1, <1>6 DEF WorkerMkdir, Still
<1>7. CASE WorkerOpen
  BY <1>1, <1>7 DEF WorkerOpen, Still
<1>8. CASE WorkerTest
  BY <1>1, <1>8 DEF WorkerTest, Still
<1>9. CASE WorkerBlock
  <2>1. hist'.passed = hist.passed
    BY <1>9, <1>t DEF WorkerBlock, History
  <2> QED
    BY <1>1, <1>9, <2>1 DEF WorkerBlock, Still
<1>10. CASE WorkerEnd
  <2>1. hist'.passed = hist.passed
    BY <1>10, <1>t DEF WorkerEnd, History
  <2> QED
    BY <1>1, <1>10, <2>1 DEF WorkerEnd, Still
<1>11. CASE WorkerReturned
  <2>1. hist'.passed = hist.passed
    BY <1>11, <1>t DEF WorkerReturned, History
  <2> QED
    BY <1>1, <1>11, <2>1 DEF WorkerReturned, Still
<1>12. CASE WorkerStatus
  <2>1. hist'.passed = hist.passed
    BY <1>12, <1>t DEF WorkerStatus, History
  <2> QED
    BY <1>1, <1>12, <2>1 DEF WorkerStatus, Still
<1>13. CASE WorkerReconnect
  <2>1. pc = "reconnect" /\ curfle = wf /\ wf \in Files /\ curfle \in Range(files)
    BY <1>13, <1>t, <1>n DEF WorkerReconnect, OnCurfle
  <2>2. CASE curfle' = NextNode(curfle) /\ hist' = [hist EXCEPT !.passed = @ \cup {wf}] /\ pc' = "loop"
             /\ SkipPending
    <3>1. hist'.passed = hist.passed \cup {curfle}
      BY <1>t, <2>1, <2>2 DEF History
    <3> QED
      BY <1>13, <2>1, <2>2, <3>1 DEF WorkerReconnect, SkipPending, Advances, OnCurfle
  <2>3. CASE curfle' = curfle /\ hist' \in {hist, [hist EXCEPT !.gaveUp = TRUE]}
             /\ pc' \in {"loop", "finish", "reconnect"}
    <3>1. hist'.passed = hist.passed
      BY <1>t, <2>3 DEF History
    <3> QED
      BY <1>1, <1>13, <2>1, <2>3, <3>1 DEF WorkerReconnect, Still
  <2> QED
    BY <1>13, <2>1, <2>2, <2>3 DEF WorkerReconnect
<1>14. CASE WorkerGiveUp
  <2>1. hist'.passed = hist.passed
    BY <1>14, <1>t DEF WorkerGiveUp, History
  <2> QED
    BY <1>1, <1>14, <2>1 DEF WorkerGiveUp, Still
<1>15. CASE WorkerNext
  <2>1. curfle \in Range(files)
    BY <1>15, <1>t, <1>n DEF WorkerNext, OnCurfle
  <2> QED
    BY <1>15, <2>1 DEF WorkerNext, Advances, OnCurfle
<1>16. CASE WorkerAfter
  BY <1>16, <1>1 DEF WorkerAfter, Still
<1>17. CASE WorkerClear
  BY <1>17, <1>1 DEF WorkerClear, Still
<1>18. CASE WorkerFinish
  BY <1>18, <1>1 DEF WorkerFinish, Still
<1> QED
  BY <1>2, <1>3, <1>4, <1>5, <1>6, <1>7, <1>8, <1>9, <1>10, <1>11, <1>12, <1>13, <1>14, <1>15, <1>16,
     <1>17, <1>18 DEF Worker

\* The steps of the main thread.
LEMMA MainWalk ==
  ASSUME TypeOK, Thread, OnCurfle, Tick \/ RefreshReturns \/ User
  PROVE  /\ Keeps \/ Shows \/ Reorders \/ Extends
         /\ pc = "init" => pc' = "init"
         /\ OnCurfle'
<1>t. hist \in History
  BY DEF TypeOK
<1> DEFINE Goal == /\ Keeps \/ Shows \/ Reorders \/ Extends
                   /\ pc = "init" => pc' = "init"
                   /\ OnCurfle'
<1>1. ASSUME Still, UNCHANGED wf, pc' = pc \/ (pc = "none" /\ pc' = "init") PROVE Goal
  BY <1>1 DEF Keeps, Still, OnCurfle, OnFile, Walking
<1> USE DEF jobVars, workerVars
<1>2. CASE OnNextTransfer
  <2>1. hist'.passed = hist.passed
    BY <1>2, <1>t DEF OnNextTransfer, History
  <2> QED
    BY <1>1, <1>2, <2>1 DEF OnNextTransfer, Still
<1>3. ASSUME NEW slot \in BOOLEAN, ShowTransfer(slot) PROVE Goal
  <2>1. pc = "none" /\ pc' \in {"none", "init"}
    BY <1>3 DEF ShowTransfer, StartIfAllowed, Thread
  <2> QED
    BY <1>3, <2>1 DEF ShowTransfer, Shows, Walking, OnCurfle, OnFile
<1>4. ASSUME NEW slot \in BOOLEAN, StartQueued(slot) PROVE Goal
  <2>1. pc = "none" /\ pc' \in {"none", "init"}
    BY <1>4 DEF StartQueued, StartIfAllowed, Thread
  <2> QED
    BY <1>1, <1>4, <2>1 DEF StartQueued, Still
<1>5. CASE TransferDone \/ RefreshReturns \/ MenuHangs
  BY <1>1, <1>5 DEF TransferDone, RefreshReturns, MenuHangs, Still
<1>6. ASSUME NEW f \in Exists, NEW a \in Actions \ {"none"}, SetAction(f, a) PROVE Goal
  BY <1>1, <1>6 DEF SetAction, Still
<1>7. ASSUME NEW ok \in BOOLEAN, AskTransfer(ok) PROVE Goal
  BY <1>1, <1>7 DEF AskTransfer, Still
<1>8. CASE StartTransfer
  <2>1. pc = "none" /\ pc' = "init"
    BY <1>8 DEF StartTransfer, Thread
  <2> QED
    BY <1>1, <1>8, <2>1 DEF StartTransfer, Still
<1>9. CASE StopTransfer
  <2>1. hist'.passed = hist.passed
    BY <1>9, <1>t DEF StopTransfer, History
  <2> QED
    BY <1>1, <1>9, <2>1 DEF StopTransfer, Still
<1>10. ASSUME NEW f, SkipFile(f) PROVE Goal
  <2>1. hist'.passed = hist.passed
    BY <1>10, <1>t DEF SkipFile, History
  <2> QED
    BY <1>1, <1>10, <2>1 DEF SkipFile, Still
<1>11. CASE SkipTransfer
  <2>1. CASE UNCHANGED <<jobVars, workerVars, freed, hist>>
    BY <1>1, <2>1 DEF Still
  <2> QED
    BY <1>10, <1>11, <2>1 DEF SkipTransfer
<1>12. ASSUME NEW f \in Files, RemoveFileTransfer(f) PROVE Goal
  BY <1>10, <1>12 DEF RemoveFileTransfer
<1>13. ASSUME NEW f \in Files, AppendFile(f) PROVE Goal
  <2>1. f \in Files \ Range(files) /\ curfle # NoFile
    BY <1>13 DEF AppendFile, Joinable
  <2>2. Extends
    BY <1>13, <2>1 DEF AppendFile, Extends
  <2> QED
    BY <1>13, <2>2 DEF AppendFile, OnCurfle
<1>14. ASSUME NEW i \in DOMAIN files, MoveTransfer(i) PROVE Goal
  <2>1. /\ i \in 1..(Len(files) - 1) /\ files' = Exchanged(files, i)
        /\ IF pc = "none" THEN "move_queued" \in UserOps ELSE curfle \notin {files[i], files[i + 1]}
    BY <1>14 DEF MoveTransfer, MoveAllowed, Menu, Thread, Exchanged
  <2>2. Reorders
    BY <1>14, <2>1 DEF MoveTransfer, Reorders
  <2> QED
    BY <1>14, <2>2 DEF MoveTransfer, OnCurfle
<1>15. CASE Tick
  BY <1>2, <1>3, <1>4, <1>5, <1>15 DEF Tick
<1>16. CASE User
  BY <1>5, <1>6, <1>7, <1>8, <1>9, <1>11, <1>12, <1>13, <1>14, <1>16 DEF User
<1> QED
  BY <1>5, <1>15, <1>16

\* What a step can do to the place of the walk in a list of files that is being transferred.
LEMMA WalkKinds ==
  ASSUME TypeOK, Thread, OnCurfle, [Next]_vars
  PROVE  /\ Keeps \/ Shows \/ Begins \/ Advances \/ Reorders \/ Extends
         /\ pc = "init" /\ pc' # "init" => Begins
         /\ OnCurfle'
<1>1. CASE UNCHANGED vars
  BY <1>1 DEF vars, jobVars, workerVars, Keeps, Still, OnCurfle, Walking
<1> QED
  BY <1>1, WorkerWalk, MainWalk DEF Next

\* The list, what is done and what precedes curfle, step by step.
LEMMA WalkStep ==
  ASSUME TypeOK, WalkInv, [Next]_vars
  PROVE  WalkInv'
<1>t. /\ files \in Seq(Files) /\ files # <<>> /\ Range(files) \subseteq Files
      /\ curfle \in Range(files) \cup {NoFile} /\ NoFile \notin Files
      /\ transfer_done \in [Files -> BOOLEAN] /\ NoDuplicates(files)
  BY RangeType, QueueAssumption DEF TypeOK, WalkInv
<1>w. Walking => \A f \in Range(files) : Precedes(files, f, curfle) <=> ~Untouched(f)
  BY BeforeIsPrecedes DEF WalkInv, WalkIsExact, Walking, Untouched
<1>f. /\ ~Walking => \A f \in Files : Untouched(f)
      /\ \A f \in Files \ Range(files) : Untouched(f)
  BY DEF WalkInv, Fresh, Walking
<1>1. /\ Thread' /\ OnCurfle'
      /\ Keeps \/ Shows \/ Begins \/ Advances \/ Reorders \/ Extends
  BY ThreadStep, WalkKinds DEF WalkInv
<1> DEFINE Fresh2(f) == ~transfer_done'[f] /\ f \notin hist'.passed
<1> DEFINE Goal == /\ NoDuplicates(files')
                   /\ ~Walking' => \A f \in Files : Fresh2(f)
                   /\ \A f \in Files \ Range(files') : Fresh2(f)
                   /\ Walking' => \A f \in Range(files') : Precedes(files', f, curfle') <=> ~Fresh2(f)
<1>2. ASSUME Keeps PROVE Goal
  BY <1>2, <1>t, <1>w, <1>f DEF Keeps, Still, Untouched
<1>3. ASSUME Shows PROVE Goal
  <2>1. ~Walking
    BY <1>3 DEF Shows, Walking
  <2> QED
    BY <1>3, <1>t, <1>f, <2>1 DEF Shows, Untouched
<1>4. ASSUME Begins PROVE Goal
  <2>1. ~Walking
    BY <1>4 DEF Begins, Walking
  <2>2. \A f : ~Precedes(files', f, curfle')
    BY <1>4, <1>t, FirstPrecedes DEF Begins
  <2>3. \A f \in Files : Fresh2(f)
    BY <1>4, <1>f, <2>1 DEF Begins, Untouched
  <2> QED
    BY <1>4, <1>t, <2>2, <2>3 DEF Begins
<1>5. ASSUME Advances PROVE Goal
  <2>1. curfle \in Range(files) /\ curfle' = NextNode(curfle) /\ files' = files /\ Walking /\ Walking'
    BY <1>5 DEF Advances
  <2>2. \A f \in Files : Fresh2(f) <=> Untouched(f) /\ f # curfle
    BY <1>5, <1>t, <2>1 DEF Advances, Untouched
  <2>3. \A f \in Range(files) : Precedes(files, f, NextNode(curfle)) <=> Precedes(files, f, curfle) \/ f = curfle
    BY <1>t, <2>1, NextPrecedes
  <2> QED
    BY <1>t, <1>w, <1>f, <2>1, <2>2, <2>3
<1>6. ASSUME Reorders PROVE Goal
  <2>1. PICK i \in 1..(Len(files) - 1) : /\ files' = Exchanged(files, i)
                                         /\ pc # "none" => curfle \notin {files[i], files[i + 1]}
    BY <1>6 DEF Reorders
  <2>2. /\ NoDuplicates(files') /\ Range(files') = Range(files)
        /\ \A c \in (Range(files) \cup {NoFile}) \ {files[i], files[i + 1]}, f \in Range(files) :
              Precedes(files', f, c) <=> Precedes(files, f, c)
    BY <1>t, <2>1, ExchangePrecedes
  <2>3. Walking' = Walking /\ curfle' = curfle /\ \A f \in Files : Fresh2(f) <=> Untouched(f)
    BY <1>6 DEF Reorders, Walking, Untouched
  <2>4. Walking => pc # "none"
    BY DEF Walking
  <2> QED
    BY <1>t, <1>w, <1>f, <2>1, <2>2, <2>3, <2>4
<1>7. ASSUME Extends PROVE Goal
  <2>1. PICK g \in Files \ Range(files) : files' = Append(files, g)
    BY <1>7 DEF Extends
  <2>2. /\ NoDuplicates(files') /\ Range(files') = Range(files) \cup {g}
        /\ \A c \in Range(files), f \in Range(files) : Precedes(files', f, c) <=> Precedes(files, f, c)
        /\ \A c \in Range(files) : ~Precedes(files', g, c)
    BY <1>t, <2>1, AppendPrecedes
  <2>3. Walking' = Walking /\ curfle' = curfle /\ \A f \in Files : Fresh2(f) <=> Untouched(f)
    BY <1>7 DEF Extends, Walking, Untouched
  <2>4. curfle \in Range(files)
    BY <1>7, <1>t DEF Extends
  <2> QED
    BY <1>t, <1>w, <1>f, <2>2, <2>3, <2>4
<1> HIDE DEF Goal
<1>8. Goal
  BY <1>1, <1>2, <1>3, <1>4, <1>5, <1>6, <1>7
<1>9. NoDuplicates(files)' /\ Fresh'
  BY <1>8 DEF Goal, NoDuplicates, Fresh, Walking, Untouched
<1>10. WalkIsExact'
  BY <1>8, BeforeIsPrecedesNext DEF Goal, WalkIsExact, Walking, Untouched
<1> QED
  BY <1>1, <1>9, <1>10 DEF WalkInv

\* A job's list has no duplicates, its thread is started once and works on curfle, and
\* nothing is done before the walk begins.
THEOREM WalkInvariant == Spec => []WalkInv
<1>1. Init => WalkInv
  BY WalkInit
<1>2. TypeOK /\ WalkInv /\ [Next]_vars => WalkInv'
  BY WalkStep
<1> QED
  BY <1>1, <1>2, TypeCorrect, PTL DEF Spec

\* Whatever the user moves, appends, skips, stops and starts, and with the race on the
\* flag byte, the files before curfle are exactly those the worker is done with.
THEOREM WalkExact == Spec => []WalkIsExact
<1>1. WalkInv => WalkIsExact
  BY DEF WalkInv
<1> QED
  BY <1>1, WalkInvariant, PTL

-----------------------------------------------------------------------------
(* Post-processing. *)

\* The flag byte and the position of the post-processing.
LEMMA NextStep ==
  ASSUME TypeOK, Thread, NextMeansWalking, [Next]_vars
  PROVE  NextMeansWalking'
<1>t. td \in Flags /\ wcopy \in Flags \cup {NoCopy}
  BY DEF TypeOK
<1> USE DEF NextMeansWalking, Walking, At
<1>1. CASE WorkerStore
  BY <1>1, <1>t DEF WorkerStore, Flags
<1>2. CASE WorkerInit \/ WorkerLoop \/ WorkerCheck \/ WorkerMkdir \/ WorkerOpen \/ WorkerTest \/ WorkerEnd
  BY <1>2, <1>t DEF WorkerInit, WorkerLoop, WorkerCheck, WorkerMkdir, WorkerOpen, WorkerTest, WorkerEnd, jobVars
<1>3. CASE WorkerBlock
  BY <1>3, <1>t DEF WorkerBlock, WorkerWrite
<1>4. CASE WorkerReturned \/ WorkerStatus \/ WorkerGiveUp \/ WorkerAfter
  BY <1>4, <1>t DEF WorkerReturned, WorkerStatus, WorkerGiveUp, WorkerAfter, jobVars
<1>5. CASE WorkerReconnect
  BY <1>5, <1>t DEF WorkerReconnect
<1>6. CASE WorkerNext
  BY <1>6, <1>t DEF WorkerNext
<1>7. CASE WorkerClear
  BY <1>7, <1>t DEF WorkerClear, WorkerWrite, Flags
<1>8. CASE WorkerFinish
  BY <1>8, <1>t DEF WorkerFinish, WorkerWrite, Flags
<1>9. CASE Worker
  BY <1>1, <1>2, <1>3, <1>4, <1>5, <1>6, <1>7, <1>8, <1>9 DEF Worker
<1>10. CASE OnNextTransfer
  BY <1>10, <1>t DEF OnNextTransfer, SetFlags, Flags
<1>11. ASSUME NEW slot \in BOOLEAN, ShowTransfer(slot) PROVE NextMeansWalking'
  BY <1>11, <1>t DEF ShowTransfer, StartIfAllowed, SetFlags, Created, Flags, Thread
<1>12. ASSUME NEW slot \in BOOLEAN, StartQueued(slot) PROVE NextMeansWalking'
  BY <1>12, <1>t DEF StartQueued, StartIfAllowed, SetFlags, Created, Flags, Thread
<1>13. CASE TransferDone \/ RefreshReturns \/ MenuHangs
  BY <1>13 DEF TransferDone, RefreshReturns, MenuHangs, jobVars, workerVars
<1>14. CASE Tick
  BY <1>10, <1>11, <1>12, <1>13, <1>14 DEF Tick
<1>15. ASSUME NEW f \in Exists, NEW a \in Actions \ {"none"}, SetAction(f, a) PROVE NextMeansWalking'
  BY <1>15 DEF SetAction, workerVars
<1>16. ASSUME NEW ok \in BOOLEAN, AskTransfer(ok) PROVE NextMeansWalking'
  BY <1>16, <1>t DEF AskTransfer, SetFlags, Flags
<1>17. CASE StartTransfer
  BY <1>17, <1>t DEF StartTransfer, SetFlags, Created, Flags, Thread
<1>18. CASE StopTransfer
  BY <1>18, <1>t DEF StopTransfer, StopFlags, SetFlags, Flags
<1>19. ASSUME NEW f, SkipFile(f) PROVE NextMeansWalking'
  BY <1>19, <1>t DEF SkipFile, SetFlags, Flags
<1>20. CASE SkipTransfer
  <2>1. CASE mainpc' = "crashed" /\ UNCHANGED <<jobVars, workerVars, freed, hist>>
    BY <2>1 DEF jobVars, workerVars
  <2> QED
    BY <1>19, <1>20, <2>1 DEF SkipTransfer
<1>21. ASSUME NEW f \in Files, RemoveFileTransfer(f) PROVE NextMeansWalking'
  BY <1>19, <1>21 DEF RemoveFileTransfer
<1>22. ASSUME NEW f \in Files, AppendFile(f) PROVE NextMeansWalking'
  BY <1>22 DEF AppendFile, workerVars
<1>23. ASSUME NEW i \in DOMAIN files, MoveTransfer(i) PROVE NextMeansWalking'
  BY <1>23 DEF MoveTransfer, workerVars
<1>24. CASE User
  BY <1>13, <1>15, <1>16, <1>17, <1>18, <1>20, <1>21, <1>22, <1>23, <1>24 DEF User
<1>25. CASE UNCHANGED vars
  BY <1>25 DEF vars, jobVars, workerVars
<1> QED
  BY <1>9, <1>13, <1>14, <1>24, <1>25 DEF Next

\* A step that is not of the post-processing leaves its position and its record alone.
NoUpdate == /\ updfle' = updfle \/ Shows
            /\ hist'.processed = hist.processed
            /\ mainpc' = "crashed" => mainpc = "crashed" \/ "skip" \in UserOps
            /\ pc' = "none" => pc = "none"
            /\ pc' = "init" => pc = "init" \/ (pc = "none" /\ (curfle # NoFile \/ Shows))

\* The worker thread never touches updfle.
LEMMA WorkerUpdate ==
  ASSUME TypeOK, Thread, Worker
  PROVE  NoUpdate
<1>t. hist \in History
  BY DEF TypeOK
<1> USE DEF NoUpdate, At, jobVars
<1>1. CASE WorkerStore \/ WorkerInit \/ WorkerLoop \/ WorkerCheck \/ WorkerMkdir \/ WorkerOpen \/ WorkerTest
  BY <1>1 DEF WorkerStore, WorkerInit, WorkerLoop, WorkerCheck, WorkerMkdir, WorkerOpen, WorkerTest
<1>2. CASE WorkerBlock
  BY <1>2, <1>t DEF WorkerBlock, History
<1>3. CASE WorkerEnd
  BY <1>3, <1>t DEF WorkerEnd, History
<1>4. CASE WorkerReturned
  BY <1>4, <1>t DEF WorkerReturned, History
<1>5. CASE WorkerStatus
  BY <1>5, <1>t DEF WorkerStatus, History
<1>6. CASE WorkerReconnect
  BY <1>6, <1>t DEF WorkerReconnect, History
<1>7. CASE WorkerGiveUp
  BY <1>7, <1>t DEF WorkerGiveUp, History
<1>8. CASE WorkerNext \/ WorkerAfter \/ WorkerClear \/ WorkerFinish
  BY <1>8 DEF WorkerNext, WorkerAfter, WorkerClear, WorkerFinish
<1> QED
  BY <1>1, <1>2, <1>3, <1>4, <1>5, <1>6, <1>7, <1>8 DEF Worker

\* Of the main loop only the tick that processes finished files does.
LEMMA MainUpdate ==
  ASSUME TypeOK, Thread, Tick \/ RefreshReturns \/ User, ~OnNextTransfer
  PROVE  NoUpdate
<1>t. hist \in History
  BY DEF TypeOK
<1> USE DEF NoUpdate, jobVars, workerVars
<1>1. ASSUME NEW slot \in BOOLEAN, ShowTransfer(slot) PROVE NoUpdate
  <2>1. pc = "none" /\ pc' \in {"none", "init"} /\ mainpc' \in {mainpc, "hung"}
    BY <1>1 DEF ShowTransfer, StartIfAllowed, Thread
  <2>2. Shows
    BY <1>1, <2>1 DEF ShowTransfer, Shows, Walking
  <2> QED
    BY <1>1, <2>1, <2>2 DEF ShowTransfer
<1>2. ASSUME NEW slot \in BOOLEAN, StartQueued(slot) PROVE NoUpdate
  <2>1. pc = "none" /\ pc' \in {"none", "init"}
    BY <1>2 DEF StartQueued, StartIfAllowed, Thread
  <2> QED
    BY <1>2, <2>1 DEF StartQueued
<1>3. CASE TransferDone \/ RefreshReturns \/ MenuHangs
  BY <1>3 DEF TransferDone, RefreshReturns, MenuHangs
<1>4. ASSUME NEW f \in Exists, NEW a \in Actions \ {"none"}, SetAction(f, a) PROVE NoUpdate
  BY <1>4 DEF SetAction
<1>5. ASSUME NEW ok \in BOOLEAN, AskTransfer(ok) PROVE NoUpdate
  BY <1>5 DEF AskTransfer
<1>6. CASE StartTransfer
  <2>1. pc = "none" /\ pc' = "init" /\ curfle # NoFile
    BY <1>6 DEF StartTransfer, Menu, RowShown, Thread
  <2> QED
    BY <1>6, <2>1 DEF StartTransfer
<1>7. CASE StopTransfer
  BY <1>7, <1>t DEF StopTransfer, History
<1>8. ASSUME NEW f, SkipFile(f), mainpc' = mainpc PROVE NoUpdate
  BY <1>8, <1>t DEF SkipFile, History
<1>9. CASE SkipTransfer
  <2>1. "skip" \in UserOps
    BY <1>9 DEF SkipTransfer, Menu
  <2>2. CASE UNCHANGED <<jobVars, workerVars, freed, hist>>
    BY <2>1, <2>2
  <2> QED
    BY <1>8, <1>9, <2>2 DEF SkipTransfer
<1>10. ASSUME NEW f \in Files, RemoveFileTransfer(f) PROVE NoUpdate
  BY <1>8, <1>10 DEF RemoveFileTransfer
<1>11. ASSUME NEW f \in Files, AppendFile(f) PROVE NoUpdate
  BY <1>11 DEF AppendFile
<1>12. ASSUME NEW i \in DOMAIN files, MoveTransfer(i) PROVE NoUpdate
  BY <1>12 DEF MoveTransfer
<1>13. CASE Tick
  BY <1>1, <1>2, <1>3, <1>13 DEF Tick
<1>14. CASE User
  BY <1>3, <1>4, <1>5, <1>6, <1>7, <1>9, <1>10, <1>11, <1>12, <1>14 DEF User
<1> QED
  BY <1>3, <1>13, <1>14

\* on_next_transfer() walks from updfle to curfle, over files the worker is done with.
LEMMA CatchUp ==
  ASSUME TypeOK, WalkInv, UpdInv, OnNextTransfer
  PROVE  UpdBehind' /\ PostProcessedAfterTransfer'
<1> DEFINE from == IF updfle = NoFile THEN Len(files) + 1 ELSE Pos(updfle)
           to == IF curfle = NoFile THEN Len(files) + 1 ELSE Pos(curfle)
           walked == Walked(from, to)
<1>t. /\ files \in Seq(Files) /\ Range(files) \subseteq Files /\ NoFile \notin Files /\ NoDuplicates(files)
      /\ hist \in History /\ DOMAIN files = 1..Len(files)
      /\ updfle \in Range(files) \cup {NoFile} /\ curfle \in Range(files) \cup {NoFile}
  BY RangeType, QueueAssumption DEF TypeOK, WalkInv
<1>1. Walking /\ Behind(updfle, curfle)
  BY DEF OnNextTransfer, UpdInv, NextMeansWalking, UpdBehind
<1>2. from \in 1..(Len(files) + 1) /\ to \in 1..(Len(files) + 1) /\ from <= to
  BY <1>1, <1>t, PosType DEF Behind, Before
<1>3. \A f \in walked : f \in Range(files) /\ Before(f, curfle)
  <2>1. SUFFICES ASSUME NEW k \in from..(to - 1) PROVE files[k] \in Range(files) /\ Before(files[k], curfle)
    BY DEF Walked
  <2>2. k \in 1..Len(files)
    BY <1>2, <2>1
  <2>3. files[k] \in Range(files)
    BY <1>t, <2>2 DEF Range
  <2>4. Pos(files[k]) = k
    BY <1>t, <2>2, PosIs DEF Pos, PosIn
  <2>5. k < to
    BY <1>2, <2>1
  <2> QED
    BY <2>3, <2>4, <2>5 DEF Before
<1>4. \A f \in walked : transfer_done[f] \/ f \in hist.passed
  BY <1>1, <1>3 DEF Walking, WalkInv, WalkIsExact
<1>5. hist' = [hist EXCEPT !.processed = @ \cup walked] /\ updfle' = curfle /\ mainpc' \in {mainpc, "refresh"}
  BY <1>2 DEF OnNextTransfer
<1> HIDE DEF from, to, walked
<1>6. hist'.processed = hist.processed \cup walked /\ hist'.passed = hist.passed
  BY <1>5, <1>t DEF History
<1>7. UNCHANGED <<files, curfle, pc, transfer_done>>
  BY DEF OnNextTransfer
<1>8. PostProcessedAfterTransfer'
  BY <1>4, <1>5, <1>6, <1>7 DEF UpdInv, PostProcessedAfterTransfer
<1>9. UpdBehind'
  BY <1>1, <1>5, <1>7, <1>t DEF UpdBehind, Behind, Walking
<1> QED
  BY <1>8, <1>9

\* Every other step keeps updfle behind curfle.
LEMMA BehindStep ==
  ASSUME "move_queued" \notin UserOps, TypeOK, WalkInv, UpdInv, [Next]_vars, NoUpdate
  PROVE  UpdBehind'
<1>t. /\ files \in Seq(Files) /\ files # <<>> /\ Range(files) \subseteq Files /\ NoFile \notin Files
      /\ NoDuplicates(files)
      /\ updfle \in Range(files) \cup {NoFile} /\ curfle \in Range(files) \cup {NoFile}
  BY RangeType, QueueAssumption DEF TypeOK, WalkInv
<1> DEFINE Behind2(u, c) == c = NoFile \/ (u \in Range(files') /\ (u = c \/ Precedes(files', u, c)))
           Goal == /\ Walking' => Behind2(updfle', curfle')
                   /\ pc' = "none" => curfle' = updfle' /\ curfle' \in {NoFile, files'[1]}
                   /\ pc' = "init" => updfle' = files'[1] /\ curfle' = files'[1]
<1>b. /\ Walking => curfle = NoFile \/ (updfle \in Range(files) /\ (updfle = curfle \/ Precedes(files, updfle, curfle)))
      /\ pc = "none" => curfle = updfle /\ curfle \in {NoFile, files[1]}
      /\ pc = "init" => updfle = files[1] /\ curfle = files[1]
  BY BeforeIsPrecedes DEF UpdInv, UpdBehind, Behind
<1>1. Keeps \/ Shows \/ Begins \/ Advances \/ Reorders \/ Extends
  BY WalkKinds DEF WalkInv
<1>2. ASSUME Shows PROVE Goal
  BY <1>2 DEF Shows
<1>3. ASSUME ~Shows PROVE /\ updfle' = updfle /\ (pc' = "none" => pc = "none")
                          /\ pc' = "init" => pc = "init" \/ (pc = "none" /\ curfle # NoFile)
  BY <1>3 DEF NoUpdate
<1>4. ASSUME Keeps, ~Shows PROVE Goal
  BY <1>3, <1>4, <1>b, <1>t DEF Keeps, Still
<1>5. ASSUME Begins, ~Shows PROVE Goal
  <2>1. files[1] \in Range(files)
    BY <1>t, RangeType
  <2> QED
    BY <1>3, <1>5, <1>b, <2>1 DEF Begins
<1>6. ASSUME Advances, ~Shows PROVE Goal
  <2>1. NextNode(curfle) = NoFile \/ Precedes(files, updfle, NextNode(curfle))
    BY <1>6, <1>b, <1>t, NextPrecedes DEF Advances
  <2>2. pc' \notin {"none", "init"} /\ curfle' = NextNode(curfle) /\ files' = files
    BY <1>6 DEF Advances
  <2>3. updfle \in Range(files)
    BY <1>6, <1>b, <1>t DEF Advances
  <2> QED
    BY <1>3, <1>6, <2>1, <2>2, <2>3
<1>7. ASSUME Reorders, ~Shows PROVE Goal
  <2>1. PICK i \in 1..(Len(files) - 1) : /\ files' = Exchanged(files, i) /\ pc # "none"
                                         /\ curfle \notin {files[i], files[i + 1]}
    BY <1>7 DEF Reorders
  <2>2. /\ Range(files') = Range(files)
        /\ i # 1 => files'[1] = files[1]
        /\ \A f \in Range(files) : Precedes(files', f, curfle) <=> Precedes(files, f, curfle)
    BY <1>t, <2>1, ExchangePrecedes
  <2>3. pc' = pc /\ curfle' = curfle
    BY <1>7 DEF Reorders
  <2>4. CASE pc = "init"
    <3>1. i # 1
      BY <1>b, <2>1, <2>4
    <3> QED
      BY <1>3, <1>7, <1>b, <2>2, <2>3, <2>4, <3>1 DEF Walking
  <2>5. CASE Walking
    BY <1>3, <1>7, <1>b, <2>2, <2>3, <2>5 DEF Walking
  <2> QED
    BY <2>1, <2>4, <2>5 DEF Walking
<1>8. ASSUME Extends, ~Shows PROVE Goal
  <2>1. PICK g \in Files \ Range(files) : files' = Append(files, g)
    BY <1>8 DEF Extends
  <2>2. /\ Range(files') = Range(files) \cup {g} /\ files'[1] = files[1]
        /\ \A c \in Range(files), f \in Range(files) : Precedes(files', f, c) <=> Precedes(files, f, c)
    BY <1>t, <2>1, AppendPrecedes
  <2>3. pc' = pc /\ curfle' = curfle /\ curfle \in Range(files)
    BY <1>8, <1>t DEF Extends
  <2> QED
    BY <1>3, <1>8, <1>b, <2>2, <2>3 DEF Walking
<1> HIDE DEF Goal
<1>9. Goal
  BY <1>1, <1>2, <1>4, <1>5, <1>6, <1>7, <1>8
<1>10. \A f : Before(f, curfle)' <=> Precedes(files', f, curfle')
  BY BeforeIsPrecedesNext
<1> QED
  BY <1>9, <1>10, BeforeIsPrecedesNext DEF Goal, UpdBehind, Behind, Walking, Before, Precedes, Pos, PosIn

\* ... and what was processed stays done.
LEMMA ProcessedStep ==
  ASSUME "skip" \notin UserOps, TypeOK, WalkInv, UpdInv, [Next]_vars, NoUpdate
  PROVE  PostProcessedAfterTransfer'
<1>1. \A f \in Files : transfer_done[f] \/ f \in hist.passed => transfer_done'[f] \/ f \in hist'.passed
  <2>1. Keeps \/ Shows \/ Begins \/ Advances \/ Reorders \/ Extends
    BY WalkKinds DEF WalkInv
  <2>2. transfer_done \in [Files -> BOOLEAN]
    BY DEF TypeOK
  <2> QED
    BY <2>1, <2>2 DEF Keeps, Still, Shows, Begins, Advances, Reorders, Extends
<1>2. hist'.processed = hist.processed /\ hist.processed \subseteq Files
  BY DEF NoUpdate, TypeOK, History
<1> QED
  BY <1>1, <1>2 DEF NoUpdate, UpdInv, PostProcessedAfterTransfer

\* Every step keeps what UpdInv says of the files behind updfle.
LEMMA UpdStep ==
  ASSUME "skip" \notin UserOps, "move_queued" \notin UserOps, TypeOK, WalkInv, UpdInv, [Next]_vars
  PROVE  UpdInv'
<1>1. NextMeansWalking'
  BY NextStep DEF WalkInv, UpdInv
<1>2. CASE OnNextTransfer
  BY <1>1, <1>2, CatchUp DEF UpdInv
<1>3. CASE ~OnNextTransfer
  <2>1. NoUpdate
    <3>1. CASE UNCHANGED vars
      BY <3>1 DEF vars, jobVars, workerVars, NoUpdate
    <3> QED
      BY <1>3, <3>1, WorkerUpdate, MainUpdate DEF Next, WalkInv
  <2> QED
    BY <1>1, <2>1, BehindStep, ProcessedStep DEF UpdInv
<1> QED
  BY <1>2, <1>3

\* on_next_transfer() never meets a file the worker is not done with, and never runs off
\* the end of the list, while the user moves files of running jobs only (moving the
\* first file of a queued job leaves updfle behind it) and does not use Skip Current
\* File (whose NULL curfle is a crash of its own).
THEOREM ProcessedAfterTransfer ==
  ASSUME "skip" \notin UserOps, "move_queued" \notin UserOps
  PROVE  Spec => []PostProcessedAfterTransfer
<1>1. Init => UpdInv
  BY DEF Init, UpdInv, NextMeansWalking, UpdBehind, PostProcessedAfterTransfer, Walking
<1>2. TypeOK /\ WalkInv /\ UpdInv /\ [Next]_vars => UpdInv'
  BY UpdStep
<1>3. UpdInv => PostProcessedAfterTransfer
  BY DEF UpdInv
<1> QED
  BY <1>1, <1>2, <1>3, TypeCorrect, WalkInvariant, PTL DEF Spec

-----------------------------------------------------------------------------
(* Skip and retry. *)

\* The file the worker moves on to has never been tried.
LEMMA NextIsFresh ==
  ASSUME TypeOK, WalkInv, WalkInv', [Next]_vars, FreshRetry, Advances, retry_transfer' = retry_transfer
  PROVE  curfle' # NoFile => ~retry_transfer'[curfle']
<1>t. /\ files \in Seq(Files) /\ files # <<>> /\ NoDuplicates(files) /\ Range(files) \subseteq Files
  BY RangeType DEF TypeOK, WalkInv
<1>1. SUFFICES ASSUME curfle' # NoFile PROVE ~retry_transfer[curfle']
  OBVIOUS
<1>2. curfle' \in Range(files) /\ files' = files /\ curfle' # curfle /\ Walking'
  BY <1>t, <1>1, NextNodeType, NextPrecedes DEF Advances
<1>3. ~Precedes(files, curfle', curfle')
  BY <1>t, <1>2, NextPrecedes
<1>4. ~Before(curfle, curfle)'
  BY <1>2, <1>3 DEF Before, Precedes, Pos, PosIn
<1>5. Untouched(curfle)'
  BY <1>2, <1>4 DEF WalkInv, WalkIsExact, Walking, Untouched
<1>6. ~transfer_done[curfle'] /\ curfle' \notin hist.passed
  <2>1. transfer_done \in [Files -> BOOLEAN] /\ curfle' \in Files
    BY <1>t, <1>2 DEF TypeOK
  <2> QED
    BY <1>2, <1>5, <2>1 DEF Untouched, Advances
<1> QED
  BY <1>t, <1>2, <1>6 DEF FreshRetry

\* Which files have failed: the one the worker is on, and those it has left.
LEMMA FreshRetryStep ==
  ASSUME TypeOK, WalkInv, FreshRetry, [Next]_vars,
         \A f \in Files : retry_transfer'[f] => retry_transfer[f] \/ (Walking /\ Keeps /\ f = curfle)
  PROVE  FreshRetry'
<1>t. transfer_done \in [Files -> BOOLEAN]
  BY DEF TypeOK
<1>1. Keeps \/ Shows \/ Begins \/ Advances \/ Reorders \/ Extends
  BY WalkKinds DEF WalkInv
<1>2. CASE Keeps
  BY <1>2 DEF Keeps, Still, FreshRetry
<1>3. CASE Shows \/ Begins
  BY <1>3 DEF Keeps, Shows, Begins, FreshRetry, Walking, Still
<1>4. CASE Advances
  BY <1>4, <1>t DEF Advances, FreshRetry, Keeps, Still
<1>5. CASE Reorders
  BY <1>5 DEF Reorders, FreshRetry, Walking, Keeps, Still
<1>6. CASE Extends
  BY <1>6 DEF Extends, FreshRetry, Walking, Keeps, Still
<1> QED
  BY <1>1, <1>2, <1>3, <1>4, <1>5, <1>6

\* What a step of the main thread leaves alone: an action only changes in the dialog or
\* from "none" to "skip".
MainQuiet ==
  /\ UNCHANGED <<wf, ret, got, retry_transfer, moved, transfer_done>>
  /\ pc' = pc \/ (pc = "none" /\ pc' = "init")
  /\ /\ hist'.gaveUp = hist.gaveUp /\ hist'.fatal = hist.fatal
     /\ hist'.logged = hist.logged /\ hist'.lateBlocks = hist.lateBlocks
     /\ hist.asked \subseteq hist'.asked
     /\ hist.stop => hist'.stop
  /\ \A f \in Files : action'[f] # action[f] =>
       ~td.ready \/ (action[f] = "none" /\ action'[f] = "skip" /\ (f = curfle => skip_file'))
  /\ skip_file /\ td.started => skip_file' \/ hist'.stop

\* The main loop and the user move no byte of a transfer, and start at most its thread.
LEMMA MainIsQuiet ==
  ASSUME TypeOK, Thread, Tick \/ RefreshReturns \/ User
  PROVE  MainQuiet
<1>t. hist \in History /\ action \in [Files -> Actions]
  BY DEF TypeOK
<1> USE DEF MainQuiet, jobVars, workerVars
<1>1. CASE OnNextTransfer
  <2>1. /\ hist'.gaveUp = hist.gaveUp /\ hist'.fatal = hist.fatal /\ hist'.logged = hist.logged
        /\ hist'.lateBlocks = hist.lateBlocks /\ hist'.asked = hist.asked /\ hist'.stop = hist.stop
    BY <1>1, <1>t DEF OnNextTransfer, History
  <2> QED
    BY <1>1, <2>1 DEF OnNextTransfer
<1>2. ASSUME NEW slot \in BOOLEAN, ShowTransfer(slot) PROVE MainQuiet
  <2>1. pc' = pc \/ (pc = "none" /\ pc' = "init")
    BY <1>2 DEF ShowTransfer, StartIfAllowed, Thread
  <2> QED
    BY <1>2, <2>1 DEF ShowTransfer
<1>3. ASSUME NEW slot \in BOOLEAN, StartQueued(slot) PROVE MainQuiet
  <2>1. pc' = pc \/ (pc = "none" /\ pc' = "init")
    BY <1>3 DEF StartQueued, StartIfAllowed, Thread
  <2> QED
    BY <1>3, <2>1 DEF StartQueued
<1>4. CASE TransferDone \/ RefreshReturns \/ MenuHangs
  BY <1>4 DEF TransferDone, RefreshReturns, MenuHangs
<1>5. ASSUME NEW f \in Exists, NEW a \in Actions \ {"none"}, SetAction(f, a) PROVE MainQuiet
  BY <1>5 DEF SetAction
<1>6. ASSUME NEW ok \in BOOLEAN, AskTransfer(ok) PROVE MainQuiet
  BY <1>6 DEF AskTransfer
<1>7. CASE StartTransfer
  BY <1>7 DEF StartTransfer, Thread
<1>8. CASE StopTransfer
  <2>1. /\ hist'.gaveUp = hist.gaveUp /\ hist'.fatal = hist.fatal /\ hist'.logged = hist.logged
        /\ hist'.lateBlocks = hist.lateBlocks /\ hist'.asked = hist.asked
        /\ hist'.stop = (hist.stop \/ td.started)
    BY <1>8, <1>t DEF StopTransfer, History
  <2> QED
    BY <1>8, <2>1 DEF StopTransfer
<1>9. ASSUME NEW f, SkipFile(f) PROVE MainQuiet
  <2>1. /\ hist'.gaveUp = hist.gaveUp /\ hist'.fatal = hist.fatal /\ hist'.logged = hist.logged
        /\ hist'.lateBlocks = hist.lateBlocks /\ hist'.stop = hist.stop
        /\ hist.asked \subseteq hist'.asked
    BY <1>9, <1>t DEF SkipFile, History
  <2>2. \A g \in Files : action'[g] # action[g] =>
          action[g] = "none" /\ action'[g] = "skip" /\ (g = curfle => skip_file')
    BY <1>9, <1>t DEF SkipFile
  <2>3. skip_file => skip_file'
    BY <1>9 DEF SkipFile
  <2> QED
    BY <1>9, <2>1, <2>2, <2>3 DEF SkipFile
<1>10. CASE SkipTransfer
  <2>1. CASE UNCHANGED <<jobVars, workerVars, freed, hist>>
    BY <2>1
  <2> QED
    BY <1>9, <1>10, <2>1 DEF SkipTransfer
<1>11. ASSUME NEW f \in Files, RemoveFileTransfer(f) PROVE MainQuiet
  BY <1>9, <1>11 DEF RemoveFileTransfer
<1>12. ASSUME NEW f \in Files, AppendFile(f) PROVE MainQuiet
  BY <1>12 DEF AppendFile
<1>13. ASSUME NEW i \in DOMAIN files, MoveTransfer(i) PROVE MainQuiet
  BY <1>13 DEF MoveTransfer
<1>14. CASE Tick
  BY <1>1, <1>2, <1>3, <1>4, <1>14 DEF Tick
<1>15. CASE User
  BY <1>4, <1>5, <1>6, <1>7, <1>8, <1>10, <1>11, <1>12, <1>13, <1>15 DEF User
<1> QED
  BY <1>4, <1>14, <1>15

\* A step of the main thread keeps what is known of retries and skips.
LEMMA MainSkip ==
  ASSUME TypeOK, WalkInv, SkipInv, Tick \/ RefreshReturns \/ User
  PROVE  SkipInv'
<1>1. MainQuiet
  BY MainIsQuiet DEF WalkInv
<1>2. Keeps \/ Shows \/ Reorders \/ Extends
  BY MainWalk DEF WalkInv
<1>3. FreshRetry'
  BY <1>1, FreshRetryStep DEF Next, MainQuiet, SkipInv
<1>t. wf \in Files \cup {NoFile} /\ (pc \in OnFile => wf \in Files) /\ curfle \in Files \cup {NoFile}
  BY RangeType DEF TypeOK
<1>4. Walking => td.started /\ td.ready /\ curfle' = curfle /\ Walking' /\ pc' = pc
  BY <1>1, <1>2 DEF WalkInv, Thread, Walking, Shows, Keeps, Still, Reorders, Extends, MainQuiet
<1>5. ~Walking => ~Walking'
  BY <1>1 DEF MainQuiet, Walking
<1>6. RetryResumes' /\ RetryResumesLoop' /\ RetryFresh'
  BY <1>1, <1>4, <1>5, <1>t DEF MainQuiet, SkipInv, RetryResumes, RetryResumesLoop, RetryFresh, Walking, OnFile
<1>7. SkipRemembered'
  <2>1. CASE ~Walking
    BY <1>5, <2>1 DEF SkipRemembered, Walking
  <2>2. CASE Walking /\ pc \in OnFile \ {"after"}
    <3>1. wf' = wf /\ wf \in Files /\ wf = curfle /\ pc' = pc /\ ret' = ret /\ td.ready
      BY <1>1, <1>4, <1>t, <2>2 DEF MainQuiet, WalkInv, OnCurfle
    <3>2. action'[wf] = "skip" /\ ~hist'.stop => ~hist.stop /\ (action[wf] = "skip" \/ skip_file')
      BY <1>1, <3>1 DEF MainQuiet
    <3>3. skip_file => skip_file' \/ hist'.stop
      BY <1>1, <1>4, <2>2 DEF MainQuiet
    <3> QED
      BY <3>1, <3>2, <3>3 DEF SkipInv, SkipRemembered
  <2>3. CASE Walking /\ pc \notin OnFile \ {"after"}
    BY <1>4, <2>3 DEF SkipRemembered, OnFile
  <2> QED
    BY <2>1, <2>2, <2>3
<1> QED
  BY <1>3, <1>6, <1>7 DEF SkipInv

\* The worker never puts RESUME over a SKIP the job has accepted, and keeps what is
\* known of retries and skips.
LEMMA WorkerSkip ==
  ASSUME TypeOK, WalkInv, WalkInv', SkipInv, Worker
  PROVE  /\ SkipInv'
         /\ \A f \in Files : action[f] = "skip" /\ ~hist.stop => action'[f] = "skip"
<1>t. /\ hist \in History /\ action \in [Files -> Actions] /\ retry_transfer \in [Files -> BOOLEAN]
      /\ wf \in Files \cup {NoFile} /\ (pc \in OnFile => wf \in Files) /\ curfle \in Files \cup {NoFile}
      /\ NoFile \notin Files
  BY RangeType, QueueAssumption DEF TypeOK
<1>k. Keeps \/ Begins \/ Advances
  BY WorkerWalk DEF WalkInv
<1>c. OnCurfle
  BY DEF WalkInv
<1> DEFINE Parts == RetryResumes' /\ RetryResumesLoop' /\ RetryFresh' /\ SkipRemembered'
           Sticks == \A f \in Files : action[f] = "skip" /\ ~hist.stop => action'[f] = "skip"
           Tried == \A f \in Files : retry_transfer'[f] => retry_transfer[f] \/ (Walking /\ Keeps /\ f = curfle)
           Goal == Parts /\ Sticks /\ Tried
<1> USE DEF At, jobVars, SkipInv, RetryResumes, RetryResumesLoop, RetryFresh, SkipRemembered, OnCurfle, OnFile
<1>1. ASSUME WorkerStore PROVE Goal
  <2>1. UNCHANGED <<skip_file, curfle, action, retry_transfer, pc, wf, ret, hist>>
    BY <1>1 DEF WorkerStore
  <2> QED
    BY <2>1
<1>2. ASSUME WorkerInit PROVE Goal
  <2>1. pc = "init" /\ pc' = "loop" /\ curfle' \in Files
    BY <1>2, RangeType DEF WorkerInit, TypeOK
  <2>2. \A f \in Files : ~retry_transfer[f]
    BY <2>1 DEF FreshRetry, Walking
  <2>3. UNCHANGED <<action, retry_transfer>>
    BY <1>2 DEF WorkerInit
  <2> QED
    BY <2>1, <2>2, <2>3
<1>3. ASSUME WorkerLoop PROVE Goal
  BY <1>3, <1>t DEF WorkerLoop
<1>4. ASSUME WorkerCheck PROVE Goal
  BY <1>4, <1>t, <1>c DEF WorkerCheck, Skipped
<1>5. ASSUME WorkerMkdir PROVE Goal
  <2>1. Keeps /\ Walking
    BY <1>5, <1>k DEF WorkerMkdir, Begins, Advances, Walking
  <2> QED
    BY <1>5, <1>t, <1>c, <2>1 DEF WorkerMkdir
<1>6. ASSUME WorkerOpen PROVE Goal
  <2>1. Keeps /\ Walking
    BY <1>6, <1>k DEF WorkerOpen, Begins, Advances, Walking
  <2>2. retry_transfer[wf] => action[wf] = "resume"
    BY <1>6 DEF WorkerOpen
  <2>3. action' = action
    BY <1>6, <1>t, <2>2 DEF WorkerOpen
  <2> QED
    BY <1>6, <1>t, <1>c, <2>1, <2>3 DEF WorkerOpen
<1>7. ASSUME WorkerTest PROVE Goal
  <2>1. Keeps /\ Walking
    BY <1>7, <1>k DEF WorkerTest, Begins, Advances, Walking
  <2> QED
    BY <1>7, <1>t, <1>c, <2>1 DEF WorkerTest
<1>8. ASSUME WorkerBlock PROVE Goal
  <2>1. Keeps /\ Walking
    BY <1>8, <1>k DEF WorkerBlock, Begins, Advances, Walking
  <2>2. hist'.stop = hist.stop
    BY <1>8, <1>t DEF WorkerBlock, History
  <2> QED
    BY <1>8, <1>t, <1>c, <2>1, <2>2 DEF WorkerBlock
<1>9. ASSUME WorkerEnd PROVE Goal
  <2>1. Keeps /\ Walking
    BY <1>9, <1>k DEF WorkerEnd, Begins, Advances, Walking
  <2>2. hist'.stop = hist.stop
    BY <1>9, <1>t DEF WorkerEnd, History
  <2> QED
    BY <1>9, <1>t, <1>c, <2>1, <2>2 DEF WorkerEnd
<1>10. ASSUME WorkerReturned PROVE Goal
  <2>2. hist'.stop = hist.stop
    BY <1>10, <1>t DEF WorkerReturned, History
  <2> QED
    BY <1>10, <1>t, <1>c, <2>2 DEF WorkerReturned
<1>11. ASSUME WorkerStatus PROVE Goal
  <2>2. hist'.stop = hist.stop
    BY <1>11, <1>t DEF WorkerStatus, History
  <2> QED
    BY <1>11, <1>t, <1>c, <2>2 DEF WorkerStatus
<1>12. ASSUME WorkerReconnect PROVE Goal
  <2>1. hist'.stop = hist.stop
    BY <1>12, <1>t DEF WorkerReconnect, History
  <2>2. CASE Advances
    <3>1. skip_file /\ pc' = "loop" /\ retry_transfer' = retry_transfer
      BY <1>12, <2>2 DEF WorkerReconnect, Advances
    <3>2. curfle' # NoFile => ~retry_transfer'[curfle']
      BY <2>2, <3>1, NextIsFresh DEF Next
    <3>3. action' = action
      BY <1>12, <3>1, <1>t DEF WorkerReconnect, SkipPending
    <3> QED
      BY <1>12, <3>1, <3>2, <3>3
  <2>3. CASE Keeps
    <3>1. CASE action' = [action EXCEPT ![wf] = "resume"] /\ ~skip_file /\ pc' = "loop" /\ UNCHANGED <<skip_file, curfle>>
      BY <1>12, <1>t, <1>c, <2>1, <3>1 DEF WorkerReconnect
    <3>2. CASE action' = action /\ pc' \in {"finish", "reconnect"} /\ UNCHANGED <<skip_file, curfle>>
      BY <1>12, <1>t, <2>1, <3>2 DEF WorkerReconnect
    <3>3. CASE skip_file /\ curfle' = NextNode(curfle)
      <4>1. curfle \in Range(files) /\ NextNode(curfle) # curfle
        <5>1. curfle \in Range(files)
          BY <1>12, <1>t, <1>c DEF WorkerReconnect, TypeOK
        <5> QED
          BY <5>1, NextPrecedes DEF TypeOK, WalkInv
      <4> QED
        BY <2>3, <3>3, <4>1 DEF Keeps, Still
    <3> QED
      BY <1>12, <3>1, <3>2, <3>3 DEF WorkerReconnect, SkipPending
  <2> QED
    BY <1>12, <1>k, <2>2, <2>3 DEF WorkerReconnect, Begins
<1>13. ASSUME WorkerGiveUp PROVE Goal
  BY <1>13, <1>t DEF WorkerGiveUp
<1>14. ASSUME WorkerNext PROVE Goal
  <2>1. Advances
    <3>1. pc = "next" /\ wf \in Files /\ curfle = wf /\ curfle \in Range(files)
      BY <1>14, <1>t, <1>c DEF WorkerNext, TypeOK
    <3>2. NextNode(curfle) # curfle
      BY <3>1, NextPrecedes DEF TypeOK, WalkInv
    <3>3. curfle' # curfle
      BY <1>14, <3>2 DEF WorkerNext
    <3> QED
      BY <1>k, <3>1, <3>3 DEF Begins, Keeps, Still
  <2>2. curfle' # NoFile => ~retry_transfer'[curfle']
    BY <1>14, <2>1, NextIsFresh DEF Next, WorkerNext
  <2> QED
    BY <1>14, <1>t, <2>2 DEF WorkerNext
<1>15. ASSUME WorkerAfter PROVE Goal
  BY <1>15, <1>t DEF WorkerAfter
<1>16. ASSUME WorkerClear \/ WorkerFinish PROVE Goal
  BY <1>16, <1>t DEF WorkerClear, WorkerFinish
<1> HIDE DEF Goal
<1>17. Goal
  BY <1>1, <1>2, <1>3, <1>4, <1>5, <1>6, <1>7, <1>8, <1>9, <1>10, <1>11, <1>12, <1>13, <1>14, <1>15, <1>16 DEF Worker
<1>18. FreshRetry'
  BY <1>17, FreshRetryStep DEF Next, Goal
<1> QED
  BY <1>17, <1>18 DEF Goal

\* What is known of retries and skips, in every reachable state.
LEMMA SkipInvariant == Spec => []SkipInv
<1>1. Init => SkipInv
  BY DEF Init, SkipInv, FreshRetry, RetryResumes, RetryResumesLoop, RetryFresh, SkipRemembered
<1>2. TypeOK /\ WalkInv /\ WalkInv' /\ SkipInv /\ [Next]_vars => SkipInv'
  <2>1. SUFFICES ASSUME TypeOK, WalkInv, WalkInv', SkipInv, [Next]_vars PROVE SkipInv'
    OBVIOUS
  <2>2. CASE UNCHANGED vars
    <3>1. UNCHANGED <<skip_file, curfle, action, transfer_done, retry_transfer, pc, wf, ret, hist>>
      BY <2>2 DEF vars, jobVars, workerVars
    <3> QED
      BY <2>1, <3>1 DEF SkipInv, FreshRetry, RetryResumes, RetryResumesLoop, RetryFresh, SkipRemembered, Walking
  <2> QED
    BY <2>1, <2>2, WorkerSkip, MainSkip DEF Next
<1> QED
  BY <1>1, <1>2, TypeCorrect, WalkInvariant, PTL DEF Spec

\* skip_transfer(), remove_file_transfer() and the dialog against every retry of the
\* worker, in every interleaving: a file marked SKIP stays so, unless the job is stopped.
THEOREM SkipStays == Spec => SkipSticks
<1>1. TypeOK /\ WalkInv /\ WalkInv' /\ SkipInv /\ [Next]_vars =>
        [\A f \in Files : action[f] = "skip" /\ td.ready /\ ~hist.stop => action'[f] = "skip"]_vars
  <2>1. SUFFICES ASSUME TypeOK, WalkInv, WalkInv', SkipInv, Next
                 PROVE  \A f \in Files : action[f] = "skip" /\ td.ready /\ ~hist.stop => action'[f] = "skip"
    OBVIOUS
  <2>2. CASE Worker
    BY <2>1, <2>2, WorkerSkip
  <2>3. CASE Tick \/ RefreshReturns \/ User
    <3>1. MainQuiet
      BY <2>1, <2>3, MainIsQuiet DEF WalkInv
    <3> QED
      BY <3>1 DEF MainQuiet
  <2> QED
    BY <2>1, <2>2, <2>3 DEF Next
<1> QED
  BY <1>1, TypeCorrect, WalkInvariant, SkipInvariant, PTL DEF Spec, SkipSticks

-----------------------------------------------------------------------------
(* Stop Transfer. *)

\* Without Skip and Remove, cancel means Stop, and without the race it stays set.
CancelIsStop ==
  /\ ~skip_file /\ pc # "clear"
  /\ ~hist.stop => ~td.cancel /\ (wcopy # NoCopy => ~wcopy.cancel)
  /\ ~Racy => wcopy = NoCopy /\ (hist.stop => td.cancel)

\* A cancel flag that is seen was set by Stop, not left by an earlier skip.
LEMMA CancelStep ==
  ASSUME "skip" \notin UserOps, "remove" \notin UserOps, TypeOK, Thread, CancelIsStop, [Next]_vars
  PROVE  CancelIsStop'
<1>t. td \in Flags /\ wcopy \in Flags \cup {NoCopy} /\ hist \in History
  BY DEF TypeOK
<1> USE DEF CancelIsStop, At
<1>1. CASE WorkerStore
  BY <1>1, <1>t DEF WorkerStore, Flags
<1>2. CASE WorkerInit \/ WorkerLoop \/ WorkerCheck \/ WorkerMkdir \/ WorkerOpen \/ WorkerTest
  BY <1>2, <1>t DEF WorkerInit, WorkerLoop, WorkerCheck, WorkerMkdir, WorkerOpen, WorkerTest, jobVars
<1>3. CASE WorkerBlock
  <2>1. hist'.stop = hist.stop
    BY <1>3, <1>t DEF WorkerBlock, History
  <2> QED
    BY <1>3, <1>t, <2>1 DEF WorkerBlock, WorkerWrite
<1>4. CASE WorkerEnd
  <2>1. hist'.stop = hist.stop
    BY <1>4, <1>t DEF WorkerEnd, History
  <2> QED
    BY <1>4, <2>1 DEF WorkerEnd
<1>5. CASE WorkerReturned \/ WorkerStatus \/ WorkerGiveUp
  <2>1. hist'.stop = hist.stop
    BY <1>5, <1>t DEF WorkerReturned, WorkerStatus, WorkerGiveUp, History
  <2> QED
    BY <1>5, <2>1 DEF WorkerReturned, WorkerStatus, WorkerGiveUp, jobVars
<1>6. CASE WorkerReconnect
  <2>1. hist'.stop = hist.stop /\ UNCHANGED <<td, skip_file, wcopy>> /\ pc' # "clear"
    BY <1>6, <1>t DEF WorkerReconnect, SkipPending, History
  <2> QED
    BY <2>1
<1>7. CASE WorkerNext
  BY <1>7, <1>t DEF WorkerNext, Flags
<1>8. CASE WorkerAfter \/ WorkerClear
  BY <1>8 DEF WorkerAfter, BreakOnStop, WorkerClear, jobVars
<1>9. CASE WorkerFinish
  BY <1>9, <1>t DEF WorkerFinish, WorkerWrite, Flags
<1>10. CASE Worker
  BY <1>1, <1>2, <1>3, <1>4, <1>5, <1>6, <1>7, <1>8, <1>9, <1>10 DEF Worker
<1>11. CASE OnNextTransfer
  <2>1. hist'.stop = hist.stop
    BY <1>11, <1>t DEF OnNextTransfer, History
  <2> QED
    BY <1>11, <1>t, <2>1 DEF OnNextTransfer, SetFlags, Flags
<1>12. ASSUME NEW slot \in BOOLEAN, ShowTransfer(slot) PROVE CancelIsStop'
  BY <1>12, <1>t DEF ShowTransfer, StartIfAllowed, SetFlags, Created, Flags
<1>13. ASSUME NEW slot \in BOOLEAN, StartQueued(slot) PROVE CancelIsStop'
  BY <1>13, <1>t DEF StartQueued, StartIfAllowed, SetFlags, Created, Flags
<1>14. CASE TransferDone \/ RefreshReturns \/ MenuHangs
  BY <1>14 DEF TransferDone, RefreshReturns, MenuHangs, jobVars, workerVars
<1>15. CASE Tick
  BY <1>11, <1>12, <1>13, <1>14, <1>15 DEF Tick
<1>16. ASSUME NEW f \in Exists, NEW a \in Actions \ {"none"}, SetAction(f, a) PROVE CancelIsStop'
  BY <1>16 DEF SetAction, workerVars
<1>17. ASSUME NEW ok \in BOOLEAN, AskTransfer(ok) PROVE CancelIsStop'
  BY <1>17, <1>t DEF AskTransfer, SetFlags, Flags
<1>18. CASE StartTransfer
  BY <1>18, <1>t DEF StartTransfer, SetFlags, Created, Flags
<1>19. CASE StopTransfer
  <2>1. hist'.stop = (hist.stop \/ td.started)
    BY <1>19, <1>t DEF StopTransfer, History
  <2>2. td'.cancel = (td.cancel \/ td.started)
    BY <1>19, <1>t DEF StopTransfer, StopFlags, SetFlags, Flags
  <2>3. skip_file' = FALSE /\ wcopy' \in {wcopy, NoCopy} /\ pc' = pc
    BY <1>19 DEF StopTransfer, SetFlags
  <2> QED
    BY <2>1, <2>2, <2>3
<1>20. ~SkipTransfer /\ \A f : ~RemoveFileTransfer(f)
  BY DEF SkipTransfer, RemoveFileTransfer, Menu
<1>21. ASSUME NEW f \in Files, AppendFile(f) PROVE CancelIsStop'
  BY <1>21 DEF AppendFile, workerVars
<1>22. ASSUME NEW i \in DOMAIN files, MoveTransfer(i) PROVE CancelIsStop'
  BY <1>22 DEF MoveTransfer, workerVars
<1>23. CASE User
  BY <1>14, <1>16, <1>17, <1>18, <1>19, <1>20, <1>21, <1>22, <1>23 DEF User
<1>24. CASE UNCHANGED vars
  BY <1>24 DEF vars, jobVars, workerVars
<1> QED
  BY <1>10, <1>14, <1>15, <1>23, <1>24 DEF Next

\* So it is in every state.
LEMMA CancelInvariant ==
  ASSUME "skip" \notin UserOps, "remove" \notin UserOps
  PROVE  Spec => []CancelIsStop
<1>1. Init => CancelIsStop
  BY DEF Init, CancelIsStop
<1>2. TypeOK /\ WalkInv /\ CancelIsStop /\ [Next]_vars => CancelIsStop'
  BY CancelStep DEF WalkInv
<1> QED
  BY <1>1, <1>2, TypeCorrect, WalkInvariant, PTL DEF Spec

\* After Stop Transfer the worker is not on a block it has not begun before.
StopInv == /\ hist.stop /\ pc = "block" => hist.lateBlocks = 0
           /\ ~hist.stop => hist.lateBlocks = 0
           /\ StopStopsBytes

\* After Stop at most the block in the buffer is still written.
LEMMA StopStep ==
  ASSUME ~Racy, TypeOK, Thread, CancelIsStop, StopInv, [Next]_vars
  PROVE  StopInv'
<1>t. hist \in History /\ hist.lateBlocks \in 0..2
  BY DEF TypeOK, History
<1> USE DEF StopInv, StopStopsBytes, At
<1>1. CASE WorkerTest
  BY <1>1 DEF WorkerTest, LoopCancelled, CancelIsStop
<1>2. CASE WorkerBlock
  <2>1. \/ hist' = hist
        \/ hist' = [hist EXCEPT !.lateBlocks = IF hist.stop /\ @ < 2 THEN @ + 1 ELSE @]
    BY <1>2 DEF WorkerBlock
  <2>3. hist.lateBlocks = 0
    BY <1>2 DEF WorkerBlock
  <2>2. pc' # "block"
    BY <1>2 DEF WorkerBlock
  <2>4. hist'.stop = hist.stop /\ hist'.lateBlocks \in {0, IF hist.stop THEN 1 ELSE 0}
    BY <1>t, <2>1, <2>3 DEF History
  <2> QED
    BY <2>2, <2>4
<1>3. CASE WorkerStore
  BY <1>3 DEF WorkerStore
<1>4. ASSUME hist'.stop = hist.stop, hist'.lateBlocks = hist.lateBlocks, pc' # "block" PROVE StopInv'
  BY <1>4
<1>5. CASE WorkerInit \/ WorkerLoop \/ WorkerCheck \/ WorkerMkdir \/ WorkerOpen \/ WorkerNext \/ WorkerAfter
             \/ WorkerClear \/ WorkerFinish
  BY <1>4, <1>5 DEF WorkerInit, WorkerLoop, WorkerCheck, WorkerMkdir, WorkerOpen, WorkerNext, WorkerAfter,
     WorkerClear, WorkerFinish
<1>6. CASE WorkerEnd \/ WorkerReturned \/ WorkerStatus \/ WorkerReconnect \/ WorkerGiveUp
  <2>1. hist'.stop = hist.stop /\ hist'.lateBlocks = hist.lateBlocks
    BY <1>6, <1>t DEF WorkerEnd, WorkerReturned, WorkerStatus, WorkerReconnect, WorkerGiveUp, History
  <2>2. pc' # "block"
    BY <1>6 DEF WorkerEnd, WorkerReturned, WorkerStatus, WorkerReconnect, WorkerGiveUp
  <2> QED
    BY <1>4, <2>1, <2>2
<1>7. CASE Tick \/ RefreshReturns \/ User
  <2>1. MainQuiet
    BY <1>7, MainIsQuiet
  <2> QED
    BY <2>1 DEF MainQuiet
<1>8. CASE UNCHANGED vars
  BY <1>8 DEF vars, workerVars
<1> QED
  BY <1>1, <1>2, <1>3, <1>5, <1>6, <1>7, <1>8 DEF Next, Worker

\* The worker sees cancel after at most one more block, without the race on the flag
\* byte (which can lose cancel) and without Skip and Remove (which clear it).
THEOREM StopStops ==
  ASSUME ~Racy, "skip" \notin UserOps, "remove" \notin UserOps
  PROVE  Spec => []StopStopsBytes
<1>1. Init => StopInv
  BY DEF Init, StopInv, StopStopsBytes
<1>2. TypeOK /\ WalkInv /\ CancelIsStop /\ StopInv /\ [Next]_vars => StopInv'
  BY StopStep DEF WalkInv
<1>3. StopInv => StopStopsBytes
  BY DEF StopInv
<1> QED
  BY <1>1, <1>2, <1>3, TypeCorrect, WalkInvariant, CancelInvariant, PTL DEF Spec

-----------------------------------------------------------------------------
(* Every file is accounted for. *)

\* What becomes of a file of a job that is not stopped.
Settled(f) == \/ f \in Dirs
              \/ f \in hist.logged /\ got[f] = NBlocks
              \/ f \in hist.fatal \cup hist.asked
              \/ action[f] = "skip"
AllSettled == Walking => \A f \in Range(files) : Before(f, curfle) => Settled(f)
EndIsWhole == pc = "end" => got[wf] = NBlocks
ReturnedSettled == /\ pc = "returned" /\ ret \in {"ok", "positive"} => Settled(wf)
                   /\ pc = "next" => Settled(wf)
EndsAtNull == ~hist.gaveUp /\ pc \in {"finish", "exit"} => curfle = NoFile
AccountInv == ~hist.stop => AllSettled /\ EndIsWhole /\ ReturnedSettled /\ EndsAtNull

\* A settled file stays settled, unless it is the one the worker is on.
LEMMA SettledKept ==
  ASSUME TypeOK, Thread, [Next]_vars, NEW f \in Files, Settled(f), Walking,
         pc \in {"open", "block", "reconnect"} => f # wf
  PROVE  Settled(f)'
<1>t. /\ hist \in History /\ action \in [Files -> Actions] /\ got \in [Files -> 0..NBlocks]
      /\ td.ready
  BY DEF TypeOK, Thread, Walking
<1>1. CASE Tick \/ RefreshReturns \/ User
  <2>1. MainQuiet
    BY <1>1, MainIsQuiet
  <2> QED
    BY <1>t, <2>1 DEF MainQuiet, Settled
<1>2. CASE Worker
  <2>1. got'[f] = got[f] /\ action'[f] = action[f]
    BY <1>2, <1>t DEF Worker, WorkerStore, WorkerInit, WorkerLoop, WorkerCheck, WorkerMkdir, WorkerOpen, WorkerTest,
       WorkerBlock, WorkerEnd, WorkerReturned, WorkerStatus, WorkerReconnect, WorkerGiveUp, WorkerNext, WorkerAfter,
       WorkerClear, WorkerFinish, At, jobVars
  <2>2. hist.logged \subseteq hist'.logged /\ hist.fatal \subseteq hist'.fatal /\ hist.asked \subseteq hist'.asked
    BY <1>2, <1>t DEF Worker, WorkerStore, WorkerInit, WorkerLoop, WorkerCheck, WorkerMkdir, WorkerOpen, WorkerTest,
       WorkerBlock, WorkerEnd, WorkerReturned, WorkerStatus, WorkerReconnect, WorkerGiveUp, WorkerNext, WorkerAfter,
       WorkerClear, WorkerFinish, History
  <2> QED
    BY <2>1, <2>2 DEF Settled
<1>3. CASE UNCHANGED vars
  BY <1>3 DEF vars, jobVars, Settled
<1> QED
  BY <1>1, <1>2, <1>3 DEF Next

\* The files before curfle.
LEMMA AllSettledStep ==
  ASSUME TypeOK, WalkInv, ~skip_file, AllSettled, ReturnedSettled, [Next]_vars
  PROVE  AllSettled'
<1>t. /\ files \in Seq(Files) /\ files # <<>> /\ Range(files) \subseteq Files /\ NoFile \notin Files
      /\ curfle \in Range(files) \cup {NoFile} /\ NoDuplicates(files)
  BY RangeType, QueueAssumption DEF TypeOK, WalkInv
<1>1. ASSUME NEW f \in Range(files), Walking, Precedes(files, f, curfle) PROVE Settled(f)'
  <2>1. Settled(f)
    BY <1>1, BeforeIsPrecedes DEF AllSettled
  <2>2. pc \in {"open", "block", "reconnect"} => f # wf
    <3>1. curfle \in Range(files) => ~Precedes(files, curfle, curfle)
      BY <1>t, NextPrecedes
    <3>2. curfle = NoFile => f # curfle
      BY <1>1, <1>t
    <3> QED
      BY <1>1, <1>t, <3>1, <3>2 DEF WalkInv, OnCurfle, OnFile
  <2> QED
    BY <1>1, <1>t, <2>1, <2>2, SettledKept DEF WalkInv
<1>2. Keeps \/ Shows \/ Begins \/ Advances \/ Reorders \/ Extends
  BY WalkKinds DEF WalkInv
<1>3. SUFFICES ASSUME Walking', NEW f \in Range(files'), Precedes(files', f, curfle') PROVE Settled(f)'
  BY BeforeIsPrecedesNext DEF AllSettled
<1>4. CASE Keeps
  BY <1>1, <1>3, <1>4 DEF Keeps, Still
<1>5. CASE Shows
  BY <1>3, <1>5 DEF Shows
<1>6. CASE Begins
  BY <1>3, <1>6, <1>t, FirstPrecedes DEF Begins
<1>7. CASE Advances
  <2>1. /\ pc = "next" /\ files' = files /\ curfle' = NextNode(curfle) /\ curfle \in Range(files) /\ Walking
        /\ wf = curfle
    BY <1>7, <1>t DEF Advances, WalkInv, OnCurfle, OnFile
  <2>2. CASE f = curfle
    BY <1>t, <2>1, <2>2, SettledKept DEF ReturnedSettled, WalkInv
  <2>3. CASE f # curfle
    <3>1. Precedes(files, f, curfle)
      BY <1>3, <1>t, <2>1, <2>3, NextPrecedes
    <3> QED
      BY <1>1, <1>3, <2>1, <3>1
  <2> QED
    BY <2>2, <2>3
<1>8. CASE Reorders
  <2>1. Walking /\ pc # "none" /\ curfle' = curfle
    BY <1>3, <1>8 DEF Reorders, Walking
  <2>2. PICK i \in 1..(Len(files) - 1) : files' = Exchanged(files, i) /\ curfle \notin {files[i], files[i + 1]}
    BY <1>8, <2>1 DEF Reorders
  <2>3. f \in Range(files) /\ Precedes(files, f, curfle)
    BY <1>3, <1>t, <2>1, <2>2, ExchangePrecedes
  <2> QED
    BY <1>1, <2>1, <2>3
<1>9. CASE Extends
  <2>1. PICK g \in Files \ Range(files) : files' = Append(files, g)
    BY <1>9 DEF Extends
  <2>2. curfle \in Range(files) /\ curfle' = curfle /\ Walking
    BY <1>3, <1>9, <1>t DEF Extends, Walking
  <2>3. f \in Range(files) /\ Precedes(files, f, curfle)
    BY <1>3, <1>t, <2>1, <2>2, AppendPrecedes
  <2> QED
    BY <1>1, <2>2, <2>3
<1> QED
  BY <1>2, <1>4, <1>5, <1>6, <1>7, <1>8, <1>9

\* The file the worker is on.
LEMMA AccountStep ==
  ASSUME TypeOK, WalkInv, CancelIsStop, AccountInv, [Next]_vars
  PROVE  AccountInv'
<1>t. /\ hist \in History /\ got \in [Files -> 0..NBlocks] /\ action \in [Files -> Actions]
      /\ wf \in Files \cup {NoFile} /\ (pc \in OnFile => wf \in Files) /\ NBlocks \in Nat
  BY NumberAssumption DEF TypeOK
<1>1. SUFFICES ASSUME ~hist'.stop PROVE AllSettled' /\ EndIsWhole' /\ ReturnedSettled' /\ EndsAtNull'
  BY DEF AccountInv
<1>2. ~hist.stop
  <2>1. CASE Tick \/ RefreshReturns \/ User
    BY <1>1, <2>1, MainIsQuiet DEF MainQuiet, WalkInv
  <2>2. CASE Worker
    BY <1>1, <1>t, <2>2 DEF Worker, WorkerStore, WorkerInit, WorkerLoop, WorkerCheck, WorkerMkdir, WorkerOpen, WorkerTest,
       WorkerBlock, WorkerEnd, WorkerReturned, WorkerStatus, WorkerReconnect, WorkerGiveUp, WorkerNext, WorkerAfter,
       WorkerClear, WorkerFinish, History
  <2>3. CASE UNCHANGED vars
    BY <1>1, <2>3 DEF vars
  <2> QED
    BY <2>1, <2>2, <2>3 DEF Next
<1>3. AllSettled /\ EndIsWhole /\ ReturnedSettled /\ EndsAtNull /\ ~skip_file /\ ~td.cancel
  BY <1>2 DEF AccountInv, CancelIsStop
<1>4. AllSettled'
  BY <1>3, AllSettledStep
<1> DEFINE Goal == EndIsWhole' /\ ReturnedSettled' /\ EndsAtNull'
<1>5. ASSUME pc' = pc, wf' = wf, ret' = ret, got' = got, hist'.gaveUp = hist.gaveUp, curfle' = curfle \/ ~Walking
      PROVE  Goal
  <2>1. pc \in {"returned", "next"} => (Settled(wf) => Settled(wf)')
    BY <1>5, <1>t, SettledKept DEF WalkInv, OnFile, Walking
  <2> QED
    BY <1>3, <1>5, <2>1 DEF EndIsWhole, ReturnedSettled, EndsAtNull, Walking
<1>6. ASSUME pc' \notin {"end", "returned", "next", "finish", "exit"} PROVE Goal
  BY <1>6 DEF EndIsWhole, ReturnedSettled, EndsAtNull
<1>7. CASE Tick \/ RefreshReturns \/ User
  <2>1. MainQuiet
    BY <1>7, MainIsQuiet DEF WalkInv
  <2>2. Walking => curfle' = curfle
    BY <1>7, MainWalk DEF WalkInv, Keeps, Still, Shows, Reorders, Extends, Walking
  <2> QED
    BY <1>5, <1>6, <2>1, <2>2, <1>4 DEF MainQuiet
<1>8. CASE UNCHANGED vars
  BY <1>4, <1>5, <1>8 DEF vars, jobVars, workerVars
<1> USE DEF At
<1>9. ASSUME WorkerStore PROVE Goal
  BY <1>5, <1>9 DEF WorkerStore
<1>10. ASSUME WorkerInit PROVE Goal
  BY <1>6, <1>10 DEF WorkerInit
<1>11. ASSUME WorkerLoop PROVE Goal
  BY <1>11 DEF WorkerLoop, EndIsWhole, ReturnedSettled, EndsAtNull, jobVars
<1>12. ASSUME WorkerCheck PROVE Goal
  BY <1>12 DEF WorkerCheck, Skipped, EndIsWhole, ReturnedSettled, EndsAtNull, Settled, NetErrors, jobVars
<1>13. ASSUME WorkerMkdir PROVE Goal
  BY <1>13 DEF WorkerMkdir, EndIsWhole, ReturnedSettled, EndsAtNull, Settled
<1>14. ASSUME WorkerOpen PROVE Goal
  BY <1>14 DEF WorkerOpen, EndIsWhole, ReturnedSettled, EndsAtNull, NetErrors
<1>15. ASSUME WorkerTest PROVE Goal
  BY <1>3, <1>6, <1>15 DEF WorkerTest, LoopCancelled
<1>16. ASSUME WorkerBlock PROVE Goal
  BY <1>16, <1>t DEF WorkerBlock, MoreToRead, EndIsWhole, ReturnedSettled, EndsAtNull, NetErrors, OnFile
<1>17. ASSUME WorkerEnd PROVE Goal
  <2>1. wf' = wf /\ got' = got /\ pc = "end" /\ pc' = "returned" /\ got[wf] = NBlocks
    BY <1>3, <1>17 DEF WorkerEnd, EndIsWhole
  <2>2. ret' \in NetErrors \/ wf \in hist'.logged
    BY <1>17, <1>t DEF WorkerEnd, History
  <2> QED
    BY <2>1, <2>2 DEF EndIsWhole, ReturnedSettled, EndsAtNull, Settled, NetErrors
<1>18. ASSUME WorkerReturned PROVE Goal
  <2>1. pc = "returned" /\ wf \in Files /\ Walking /\ wf' = wf
    BY <1>18, <1>t DEF WorkerReturned, OnFile, Walking
  <2>2. Settled(wf) => Settled(wf)'
    BY <2>1, SettledKept DEF WalkInv
  <2>3. ret = "fatal" => wf \in hist'.fatal
    BY <1>3, <1>18, <1>t DEF WorkerReturned, History
  <2>4. ret \in {"ok", "positive"} \cup NetErrors
    BY DEF TypeOK
  <2>5. pc' = "next" => Settled(wf)'
    BY <1>3, <1>18, <2>1, <2>2, <2>3, <2>4 DEF WorkerReturned, ReturnedSettled, Settled, NetErrors
  <2>6. pc' \in {"status", "next"}
    BY <1>18 DEF WorkerReturned
  <2> QED
    BY <2>1, <2>5, <2>6 DEF EndIsWhole, ReturnedSettled, EndsAtNull, Settled
<1>19. ASSUME WorkerStatus PROVE Goal
  BY <1>3, <1>19, <1>t DEF WorkerStatus, EndIsWhole, ReturnedSettled, EndsAtNull, History
<1>20. ASSUME WorkerReconnect PROVE Goal
  BY <1>3, <1>20, <1>t DEF WorkerReconnect, EndIsWhole, ReturnedSettled, EndsAtNull, History
<1>21. ASSUME WorkerGiveUp PROVE Goal
  BY <1>21, <1>t DEF WorkerGiveUp, EndIsWhole, ReturnedSettled, EndsAtNull, History
<1>22. ASSUME WorkerNext PROVE Goal
  BY <1>6, <1>22 DEF WorkerNext
<1>23. ASSUME WorkerAfter PROVE Goal
  BY <1>3, <1>6, <1>23 DEF WorkerAfter
<1>24. ASSUME WorkerClear PROVE Goal
  BY <1>6, <1>24 DEF WorkerClear
<1>25. ASSUME WorkerFinish PROVE Goal
  BY <1>3, <1>25 DEF WorkerFinish, EndIsWhole, ReturnedSettled, EndsAtNull
<1> HIDE DEF Goal
<1>26. CASE Worker
  <2>1. Goal
    BY <1>9, <1>10, <1>11, <1>12, <1>13, <1>14, <1>15, <1>16, <1>17, <1>18, <1>19, <1>20, <1>21, <1>22, <1>23, <1>24,
       <1>25, <1>26 DEF Worker
  <2> QED
    BY <1>4, <2>1 DEF Goal
<1> QED
  BY <1>7, <1>8, <1>26 DEF Next

\* A job that ends by itself leaves no file of its list behind, whatever the user moves
\* and appends meanwhile and whatever fails, without Skip and Remove (whose skip_file
\* outlives the file it was meant for).
THEOREM FilesAccounted ==
  ASSUME "skip" \notin UserOps, "remove" \notin UserOps
  PROVE  Spec => []EveryFileAccounted
<1>1. Init => AccountInv
  BY DEF Init, AccountInv, AllSettled, EndIsWhole, ReturnedSettled, EndsAtNull, Walking
<1>2. TypeOK /\ WalkInv /\ CancelIsStop /\ AccountInv /\ [Next]_vars => AccountInv'
  BY AccountStep
<1>3. TypeOK /\ AccountInv => EveryFileAccounted
  BY RangeType DEF AccountInv, AllSettled, EndsAtNull, EveryFileAccounted, Walking, Before, Settled
<1> QED
  BY <1>1, <1>2, <1>3, TypeCorrect, WalkInvariant, CancelInvariant, PTL DEF Spec
=============================================================================
