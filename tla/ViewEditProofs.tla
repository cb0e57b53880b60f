--------------------------- MODULE ViewEditProofs ---------------------------
(***************************************************************************)
(* Proofs about ViewEdit, for any number of files, programs, directories   *)
(* and moves of the windows: what an editor saved is kept until it is      *)
(* given up, and an upload goes back to where the file came from.          *)
(***************************************************************************)
EXTENDS ViewEdit, SequenceTheorems, TLAPS

(***************************************************************************)
(* The inductive invariant                                                 *)
(***************************************************************************)

Dirs == Places \cup {Here}
Reasons == {"excused", "elsewhere"}
Kinds == {"none", "view", "edit", "own", "log"}
TaskType == [kind : Kinds, place : Dirs, win : Windows]
CopyType == [there : BOOLEAN, edited : BOOLEAN, changed : BOOLEAN]
TransferType == [task : Tasks, up : BOOLEAN, from : Dirs, to : Dirs, passed : BOOLEAN]
ProcType == [pid : Tasks, view : BOOLEAN, rm : BOOLEAN, dontupload : BOOLEAN, remote : BOOLEAN,
             fromwdata : Windows, torequest : Dirs]

TypeInv ==
  /\ shown \in [Windows -> Dirs]
  /\ task \in [Tasks -> TaskType]
  /\ copy \in [Tasks -> CopyType]
  /\ transfers \subseteq TransferType
  /\ child \in [Tasks \cup OtherPids -> {"none", "running", "ok", "failed", "reaped"}]
  /\ stored \in [Tasks -> SUBSET Dirs]
  /\ hist \in [Tasks -> SUBSET Reasons]
  /\ programs \in [view : BOOLEAN, ext : BOOLEAN]

\* What is known of a process when its end is looked at: a viewer of a copy belongs to a task
\* that views, and what may be uploaded goes back.
Procs(tsk, h) ==
  {p \in ProcType : /\ tsk[p.pid].kind # "none"
                    /\ p.view /\ p.remote => tsk[p.pid].kind = "view"
                    /\ ~p.dontupload /\ "elsewhere" \notin h[p.pid] => p.torequest = tsk[p.pid].place}

ProcInv ==
  /\ viewedit_processes \in Seq(Procs(task, hist))
  /\ main.ve_proc \subseteq Procs(task, hist)
  /\ main.pc = "asking" => \A p \in main.ve_proc : ~p.dontupload

\* An upload goes back, and has left its text on a server when it is over, unless it failed.
UploadOk(t, tsk, h, st) ==
  t.up => /\ "elsewhere" \notin h[t.task] => t.to = tsk[t.task].place
          /\ t.passed => st[t.task] # {} \/ "excused" \in h[t.task]

\* Of a copy on its way nothing has been opened.
DownloadOk(t, ch, cp) == ~t.up => ch[t.task] = "none" /\ ~cp[t.task].edited

TransferInv ==
  /\ \A t \in transfers : /\ task[t.task].kind # "none"
                          /\ UploadOk(t, task, hist, stored) /\ DownloadOk(t, child, copy)
  /\ \A t, u \in transfers : ~t.up /\ ~u.up /\ t.task = u.task => t = u

CopyInv ==
  /\ \A k \in Tasks : copy[k].edited => task[k].kind \in {"edit", "own"}
  /\ \A k \in Tasks : task[k].kind = "none" => child[k] = "none"
  /\ EditKept

ViewEditInv == TypeInv /\ ProcInv /\ TransferInv /\ CopyInv

-----------------------------------------------------------------------------
(* Lemmas *)

\* A request has another window to be copied from or to.
LEMMA OtherWindow == \A w \in Windows : Other(w) \in Windows
<1>1. Other("window1") = "window2" /\ Other("window2") = "window1"
  BY DEF Other, Windows
<1> QED BY <1>1 DEF Windows

\* What is known of a process stays known: tasks are given once, reasons only added.
Later(tsk1, tsk2, h1, h2) ==
  \A k \in Tasks : (tsk1[k].kind # "none" => tsk2[k] = tsk1[k]) /\ h1[k] \subseteq h2[k]

\* Later there are more tasks and more reasons: what was a process still is one,
LEMMA ProcsKept ==
  ASSUME NEW tsk1, NEW tsk2, NEW h1, NEW h2, Later(tsk1, tsk2, h1, h2)
  PROVE  Procs(tsk1, h1) \subseteq Procs(tsk2, h2)
<1>1. SUFFICES ASSUME NEW p \in Procs(tsk1, h1) PROVE p \in Procs(tsk2, h2)
  OBVIOUS
<1>2. p \in ProcType /\ p.pid \in Tasks
  BY <1>1 DEF Procs, ProcType
<1> QED BY <1>1, <1>2 DEF Later, Procs

\* and a list of processes still is a list of processes.
LEMMA ProcSeqKept ==
  ASSUME NEW tsk1, NEW tsk2, NEW h1, NEW h2, Later(tsk1, tsk2, h1, h2), NEW s \in Seq(Procs(tsk1, h1))
  PROVE  s \in Seq(Procs(tsk2, h2))
<1>1. Procs(tsk1, h1) \subseteq Procs(tsk2, h2)
  BY ProcsKept
<1> QED BY <1>1, SeqMonotonic

\* Remember() adds a reason.
LEMMA RememberAdds ==
  ASSUME hist \in [Tasks -> SUBSET Reasons], NEW k \in Tasks, NEW why \in SUBSET Reasons, Remember(k, why)
  PROVE  /\ hist' \in [Tasks -> SUBSET Reasons]
         /\ \A j \in Tasks : hist[j] \subseteq hist'[j]
         /\ why \subseteq hist'[k]
BY DEF Remember

\* Unlink() takes one file away and leaves the rest of what is known of it.
LEMMA UnlinkTakes ==
  ASSUME copy \in [Tasks -> CopyType], NEW k \in Tasks, Unlink(k)
  PROVE  /\ copy' \in [Tasks -> CopyType]
         /\ \A j \in Tasks : copy'[j].edited = copy[j].edited /\ copy'[j].changed = copy[j].changed
         /\ \A j \in Tasks : j # k => copy'[j] = copy[j]
BY DEF Unlink, Unlinked, CopyType

\* remove_file() takes only the copy of its own process away.
LEMMA RemoveTakes ==
  ASSUME copy \in [Tasks -> CopyType], NEW p \in ProcType, remove_file(p)
  PROVE  /\ copy' \in [Tasks -> CopyType]
         /\ \A j \in Tasks : copy'[j].edited = copy[j].edited /\ copy'[j].changed = copy[j].changed
         /\ \A j \in Tasks : j # p.pid \/ ~p.remote => copy'[j] = copy[j]
<1>1. p.pid \in Tasks
  BY DEF ProcType
<1> QED BY <1>1, UnlinkTakes DEF remove_file

(***************************************************************************)
(* view_file(): what the start of a program changes                        *)
(***************************************************************************)

Options == [view : BOOLEAN, rm : BOOLEAN, dontupload : BOOLEAN, remote : BOOLEAN,
            wdata : SUBSET Windows, ext : BOOLEAN]

\* The three callers of view_file() give it arguments that it knows.
LEMMA OptionsOfCallers ==
  ASSUME TypeInv
  PROVE  /\ \A v \in BOOLEAN : Transferred(v) \in Options
         /\ \A v \in BOOLEAN, w \in Windows : Own(v, w) \in Options
         /\ Log \in Options
BY DEF TypeInv, Transferred, Own, Log, Options

\* The new process is one of which what must be known is known.
LEMMA NewProcKnown ==
  ASSUME TypeInv, NEW k \in Tasks, NEW o \in Options, NEW tsk, NEW h,
         tsk[k].kind # "none",
         o.view /\ o.remote => tsk[k].kind = "view",
         ~o.dontupload => o.wdata = {} /\ tsk = task,
         o.wdata = {} => "elsewhere" \in h[k] \/ (shown["window2"] = task[k].place)
  PROVE  NewProc(k, o) \in Procs(tsk, h)
<1> DEFINE from == IF o.wdata = {"window2"} THEN "window2" ELSE "window1"
<1>1. from \in Windows /\ Other(from) \in Windows
  BY OtherWindow DEF Windows
<1>2. NewProc(k, o) \in ProcType
  BY <1>1 DEF NewProc, ProcType, Options, TypeInv
<1>3. o.wdata = {} => NewProc(k, o).torequest = shown["window2"]
  BY DEF NewProc, Other, Windows
<1>4. /\ NewProc(k, o).pid = k /\ NewProc(k, o).view = o.view /\ NewProc(k, o).remote = o.remote
      /\ NewProc(k, o).dontupload = o.dontupload
  BY DEF NewProc
<1> QED BY <1>2, <1>3, <1>4 DEF Procs

\* view_file() starts at most one program, on the file it is given.
LEMMA ViewFileKeeps ==
  ASSUME TypeInv, ProcInv, NEW k \in Tasks, NEW o \in Options, NEW c \in [Tasks -> CopyType],
         \A j \in Tasks : task[j].kind # "none" => task'[j] = task[j],
         task'[k].kind # "none",
         o.view /\ o.remote => task'[k].kind = "view",
         ~o.dontupload => o.wdata = {} /\ task' = task,
         main.pc # "asking",
         view_file(k, o, c)
  PROVE  /\ ProcInv'
         /\ hist' \in [Tasks -> SUBSET Reasons]
         /\ \A j \in Tasks : hist[j] \subseteq hist'[j]
         /\ child' \in [Tasks \cup OtherPids -> {"none", "running", "ok", "failed", "reaped"}]
         /\ copy' \in [Tasks -> CopyType]
         /\ \A j \in Tasks : j # k => child'[j] = child[j] /\ copy'[j] = c[j]
         /\ copy'[k].edited = c[k].edited
<1>1. copy' \in [Tasks -> CopyType] /\ (\A j \in Tasks : j # k => copy'[j] = c[j])
      /\ copy'[k].edited = c[k].edited
  <2>1. CASE copy' = [c EXCEPT ![k].changed = o.ext]
    BY <2>1 DEF CopyType, Options
  <2>2. CASE copy' = IF o.rm THEN Unlinked(c, k) ELSE c
    BY <2>2 DEF CopyType, Unlinked
  <2> QED BY <2>1, <2>2 DEF view_file
<1>2. CASE fork_process(k, o)
  <2> DEFINE why == IF o.wdata # {} \/ (task[k].win = "window2" /\ shown["window2"] = task[k].place)
                    THEN {} ELSE {"elsewhere"}
  <2>1. /\ hist' \in [Tasks -> SUBSET Reasons] /\ \A j \in Tasks : hist[j] \subseteq hist'[j]
        /\ why \subseteq hist'[k]
    <3>1. why \in SUBSET Reasons /\ Remember(k, why)
      BY <1>2 DEF fork_process, Reasons
    <3> QED BY <3>1, RememberAdds DEF TypeInv
  <2>2. Later(task, task', hist, hist')
    BY <2>1 DEF Later
  <2>3. NewProc(k, o) \in Procs(task', hist')
    BY <2>1, NewProcKnown
  <2>4. viewedit_processes \in Seq(Procs(task', hist')) /\ main.ve_proc \subseteq Procs(task', hist')
    BY <2>2, ProcSeqKept, ProcsKept DEF ProcInv
  <2>5. viewedit_processes' \in Seq(Procs(task', hist'))
    BY <1>2, <2>3, <2>4, AppendProperties DEF fork_process
  <2>6. main'.ve_proc \subseteq Procs(task', hist') /\ main'.pc # "asking"
    BY <1>2, <2>3, <2>4 DEF fork_process
  <2>7. /\ child' \in [Tasks \cup OtherPids -> {"none", "running", "ok", "failed", "reaped"}]
        /\ \A j \in Tasks : j # k => child'[j] = child[j]
    BY <1>2 DEF fork_process, TypeInv
  <2> QED BY <1>1, <2>1, <2>5, <2>6, <2>7 DEF ProcInv
<1>3. CASE ~fork_process(k, o)
  <2>1. UNCHANGED <<viewedit_processes, child, hist>> /\ (main' = main \/ main' = At("crashed"))
    BY <1>3 DEF view_file, ForkFails
  <2>2. Later(task, task', hist, hist')
    BY <2>1 DEF Later
  <2>3. viewedit_processes' \in Seq(Procs(task', hist')) /\ main.ve_proc \subseteq Procs(task', hist')
    BY <2>1, <2>2, ProcSeqKept, ProcsKept DEF ProcInv
  <2>4. main'.ve_proc \subseteq Procs(task', hist') /\ main'.pc # "asking"
    BY <2>1, <2>3 DEF At
  <2> QED BY <1>1, <2>1, <2>3, <2>4 DEF ProcInv, TypeInv
<1> QED BY <1>2, <1>3

-----------------------------------------------------------------------------
(* Steps *)

\* Actions that give a task or leave them alone, and start nothing that is known of before.
LEMMA ProcInvKept ==
  ASSUME ProcInv, Later(task, task', hist, hist'), UNCHANGED viewedit_processes,
         main'.ve_proc \subseteq main.ve_proc, main'.pc = "asking" => main.pc = "asking"
  PROVE  ProcInv'
<1>1. viewedit_processes \in Seq(Procs(task', hist')) /\ main.ve_proc \subseteq Procs(task', hist')
  BY ProcSeqKept, ProcsKept DEF ProcInv
<1> QED BY <1>1 DEF ProcInv

\* Nothing that TransferInv says of a transfer depends on a task without one.
LEMMA TransferInvKept ==
  ASSUME TypeInv, TransferInv, UNCHANGED <<transfers, stored>>,
         \A j \in Tasks : hist[j] \subseteq hist'[j],
         \A j \in Tasks : task[j].kind # "none" =>
                          task'[j] = task[j] /\ child'[j] = child[j] /\ copy'[j].edited = copy[j].edited
  PROVE  TransferInv'
<1>1. SUFFICES ASSUME NEW t \in transfers
               PROVE  /\ task'[t.task].kind # "none"
                      /\ UploadOk(t, task', hist', stored') /\ DownloadOk(t, child', copy')
  BY DEF TransferInv
<1>2. t.task \in Tasks /\ task[t.task].kind # "none"
  BY DEF TypeInv, TransferInv, TransferType
<1>3. /\ task'[t.task] = task[t.task] /\ child'[t.task] = child[t.task]
      /\ copy'[t.task].edited = copy[t.task].edited /\ hist[t.task] \subseteq hist'[t.task]
  BY <1>2
<1>4. UploadOk(t, task, hist, stored) /\ DownloadOk(t, child, copy)
  BY DEF TransferInv
<1>5. UploadOk(t, task', hist', stored')
  BY <1>2, <1>3, <1>4 DEF UploadOk
<1>6. DownloadOk(t, child', copy')
  BY <1>3, <1>4 DEF DownloadOk
<1> QED BY <1>2, <1>3, <1>5, <1>6

\* No program runs at the start.
LEMMA InitInv == ViewEditInit => ViewEditInv
<1> SUFFICES ASSUME ViewEditInit PROVE ViewEditInv
  OBVIOUS
<1>1. TypeInv
  BY ViewEditAssumption DEF ViewEditInit, TypeInv, NoTask, NoCopy, Dirs, Kinds, TaskType, CopyType,
         Windows, Reasons
<1>2. ProcInv
  BY EmptySeq DEF ViewEditInit, ProcInv, At
<1>3. TransferInv /\ CopyInv
  BY DEF ViewEditInit, TransferInv, CopyInv, EditKept, NoTask, NoCopy
<1> QED BY <1>1, <1>2, <1>3 DEF ViewEditInv

\* A file that is not fetched is opened: one of the user's own, or the log.
LEMMA OpenStep ==
  ASSUME ViewEditInv, main.pc # "asking", NEW k \in Tasks,
         NEW o \in Options, o.dontupload, ~o.remote,
         NEW what \in TaskType, what.kind # "none", Given(k, what),
         NEW c \in [Tasks -> CopyType], c = NewFile(k), view_file(k, o, c),
         UNCHANGED <<programs, shown, transfers, stored>>
  PROVE  ViewEditInv'
<1>1. /\ task[k].kind = "none" /\ task' \in [Tasks -> TaskType] /\ task'[k].kind # "none"
      /\ \A j \in Tasks : j # k => task'[j] = task[j]
  BY DEF Given, ViewEditInv, TypeInv
<1>2. c[k].edited = FALSE /\ \A j \in Tasks : j # k => c[j] = copy[j]
  BY DEF NewFile, NoCopy, ViewEditInv, TypeInv
<1>3. /\ TypeInv /\ ProcInv
      /\ \A j \in Tasks : task[j].kind # "none" => task'[j] = task[j]
      /\ task'[k].kind # "none"
      /\ o.view /\ o.remote => task'[k].kind = "view"
      /\ ~o.dontupload => o.wdata = {} /\ task' = task
  BY <1>1 DEF ViewEditInv
<1>4. /\ ProcInv' /\ hist' \in [Tasks -> SUBSET Reasons]
      /\ \A j \in Tasks : hist[j] \subseteq hist'[j]
      /\ child' \in [Tasks \cup OtherPids -> {"none", "running", "ok", "failed", "reaped"}]
      /\ copy' \in [Tasks -> CopyType]
      /\ \A j \in Tasks : j # k => child'[j] = child[j] /\ copy'[j] = c[j]
      /\ copy'[k].edited = c[k].edited
  BY ONLY <1>3, main.pc # "asking", k \in Tasks, o \in Options, c \in [Tasks -> CopyType],
          view_file(k, o, c), ViewFileKeeps
<1>5. TypeInv'
  BY <1>1, <1>4 DEF ViewEditInv, TypeInv
<1>6. TransferInv'
  BY <1>1, <1>2, <1>4, TransferInvKept DEF ViewEditInv
<1>7. CopyInv'
  BY <1>1, <1>2, <1>4 DEF ViewEditInv, CopyInv, EditKept
<1> QED BY <1>4, <1>5, <1>6, <1>7 DEF ViewEditInv

\* The copy of a new task is like the others.
LEMMA NewFileType ==
  ASSUME TypeInv, NEW k \in Tasks
  PROVE  NewFile(k) \in [Tasks -> CopyType]
BY DEF NewFile, NoCopy, CopyType, TypeInv

\* A local file is viewed or edited in its place.
LEMMA OpenOwnStep ==
  ASSUME ViewEditInv, main.pc = "idle", NEW k \in Tasks, NEW w \in Windows, NEW v \in BOOLEAN,
         OpenOwn(k, w, v), UNCHANGED <<programs, shown, child_process_done, browsed, stored>>
  PROVE  ViewEditInv'
<1> DEFINE what == [kind |-> "own", place |-> Here, win |-> "window1"]
<1>1. what \in TaskType /\ what.kind # "none" /\ Given(k, what)
  BY DEF OpenOwn, TaskType, Kinds, Dirs, Windows
<1>2. Own(v, w) \in Options /\ Own(v, w).dontupload /\ ~Own(v, w).remote
  BY OptionsOfCallers DEF Own, ViewEditInv
<1>3. NewFile(k) \in [Tasks -> CopyType] /\ view_file(k, Own(v, w), NewFile(k)) /\ UNCHANGED transfers
  BY NewFileType DEF OpenOwn, ViewEditInv
<1> HIDE DEF what
<1> QED BY <1>1, <1>2, <1>3, OpenStep

\* The log is written to a file of its own and viewed.
LEMMA ViewLogStep ==
  ASSUME ViewEditInv, viewlog
  PROVE  ViewEditInv'
<1> DEFINE what == [kind |-> "log", place |-> Here, win |-> "window1"]
<1>1. what \in TaskType /\ what.kind # "none"
  BY DEF TaskType, Kinds, Dirs, Windows
<1>2. Log \in Options /\ Log.dontupload /\ ~Log.remote
  BY OptionsOfCallers DEF Log, ViewEditInv
<1>3. PICK k \in Tasks : Given(k, what) /\ view_file(k, Log, NewFile(k))
  BY DEF viewlog
<1>4. NewFile(k) \in [Tasks -> CopyType]
  BY NewFileType DEF ViewEditInv
<1>5. main.pc # "asking" /\ UNCHANGED <<programs, shown, transfers, stored>>
  BY DEF viewlog
<1> HIDE DEF what
<1> QED BY <1>1, <1>2, <1>3, <1>4, <1>5, OpenStep

\* A copy of a remote file is asked for.
LEMMA FetchCopyStep ==
  ASSUME ViewEditInv, main.pc = "idle", NEW k \in Tasks, NEW w \in Windows, NEW v \in BOOLEAN,
         FetchCopy(k, w, v), UNCHANGED <<programs, shown, child_process_done, browsed, stored>>
  PROVE  ViewEditInv'
<1>1. /\ task[k].kind = "none" /\ task' \in [Tasks -> TaskType] /\ task'[k].kind # "none"
      /\ \A j \in Tasks : j # k => task'[j] = task[j]
  BY DEF FetchCopy, Given, ViewEditInv, TypeInv, TaskType, Kinds, Dirs
<1>2. copy' \in [Tasks -> CopyType] /\ copy'[k].edited = FALSE
      /\ \A j \in Tasks : j # k => copy'[j] = copy[j]
  BY DEF FetchCopy, NewFile, NoCopy, CopyType, ViewEditInv, TypeInv
<1>3. ProcInv'
  BY <1>1, ProcInvKept DEF FetchCopy, Later, ViewEditInv
<1> DEFINE t == [task |-> k, up |-> FALSE, from |-> shown[w], to |-> shown[Other(w)], passed |-> FALSE]
<1>4. t \in TransferType /\ transfers' = transfers \cup {t}
  BY OtherWindow DEF FetchCopy, TransferType, ViewEditInv, TypeInv
<1>5. TypeInv'
  BY <1>1, <1>2, <1>4 DEF FetchCopy, ViewEditInv, TypeInv
<1>6. t.task = k /\ ~t.up /\ child[k] = "none"
  BY <1>1 DEF ViewEditInv, CopyInv
<1>7. TransferInv'
  <2>1. \A u \in transfers : u.task \in Tasks /\ u.task # k
    BY <1>1 DEF ViewEditInv, TypeInv, TransferInv, TransferType
  <2>2. \A u \in transfers' : /\ task'[u.task].kind # "none"
                              /\ UploadOk(u, task', hist', stored') /\ DownloadOk(u, child', copy')
    BY <1>1, <1>2, <1>4, <1>6, <2>1 DEF FetchCopy, ViewEditInv, TransferInv, UploadOk, DownloadOk
  <2>3. \A u, u2 \in transfers : ~u.up /\ ~u2.up /\ u.task = u2.task => u = u2
    BY DEF ViewEditInv, TransferInv
  <2> HIDE DEF t
  <2>4. \A u, u2 \in transfers' : ~u.up /\ ~u2.up /\ u.task = u2.task => u = u2
    BY <1>4, <1>6, <2>1, <2>3
  <2> QED BY <2>2, <2>4 DEF TransferInv
<1>8. CopyInv'
  BY <1>1, <1>2 DEF FetchCopy, ViewEditInv, CopyInv, EditKept
<1> QED BY <1>3, <1>5, <1>7, <1>8 DEF ViewEditInv
\* The menu entries start a transfer for a remote file, a program for a local one.
LEMMA ViewOrEditStep ==
  ASSUME ViewEditInv, NEW v \in BOOLEAN, do_view_or_edit_file(v)
  PROVE  ViewEditInv'
BY OpenOwnStep, FetchCopyStep DEF do_view_or_edit_file

\* A window moves.
LEMMA BrowseStep ==
  ASSUME ViewEditInv, NEW w \in Windows, Browse(w)
  PROVE  ViewEditInv'
<1>1. TypeInv'
  BY DEF Browse, ViewEditInv, TypeInv, Dirs
<1>2. ProcInv'
  BY ProcInvKept DEF Browse, ViewEditInv, Later
<1>3. TransferInv' /\ CopyInv'
  BY DEF Browse, ViewEditInv, TransferInv, CopyInv, UploadOk, DownloadOk, EditKept
<1> QED BY <1>1, <1>2, <1>3 DEF ViewEditInv

\* The worker ends a file.
LEMMA WorkerStep ==
  ASSUME ViewEditInv, Worker
  PROVE  ViewEditInv'
<1>1. PICK t \in transfers : ~t.passed /\ EndsFile(t) /\ (Download(t) \/ Upload(t))
  BY DEF Worker
<1>2. t \in TransferType /\ t.task \in Tasks
  BY DEF ViewEditInv, TypeInv, TransferType
<1> DEFINE t2 == [t EXCEPT !.passed = TRUE]
<1>3. /\ t2 \in TransferType /\ t2.task = t.task /\ t2.up = t.up /\ t2.to = t.to
      /\ transfers' \subseteq (transfers \ {t}) \cup {t2}
  BY <1>1, <1>2 DEF EndsFile, TransferType
<1>4. /\ hist' \in [Tasks -> SUBSET Reasons] /\ \A j \in Tasks : hist[j] \subseteq hist'[j]
      /\ stored' \in [Tasks -> SUBSET Dirs] /\ \A j \in Tasks : stored[j] # {} => stored'[j] # {}
      /\ t.up => stored'[t.task] # {} \/ "excused" \in hist'[t.task]
  <2>1. CASE Download(t)
    BY <2>1 DEF Download, ViewEditInv, TypeInv
  <2>2. CASE Upload(t) /\ hist' = hist
    <3>1. CASE stored' = [stored EXCEPT ![t.task] = {t.to}]
      BY <1>2, <2>2, <3>1 DEF ViewEditInv, TypeInv, TransferType
    <3>2. CASE stored' = stored /\ Remember(t.task, {"excused"})
      BY <1>2, <2>2, <3>2, RememberAdds DEF ViewEditInv, TypeInv, Reasons
    <3> QED BY <2>2, <3>1, <3>2 DEF Upload
  <2>3. CASE Upload(t) /\ hist' # hist
    <3>1. stored' = stored /\ Remember(t.task, {"excused"})
      BY <2>3 DEF Upload
    <3> QED BY <1>2, <3>1, RememberAdds DEF ViewEditInv, TypeInv, Reasons
  <2> QED BY <1>1, <2>1, <2>2, <2>3
<1>5. TypeInv'
  BY <1>3, <1>4 DEF Worker, ViewEditInv, TypeInv
<1>6. ProcInv'
  BY <1>4, ProcInvKept DEF Worker, ViewEditInv, Later
<1>7. TransferInv'
  <2>1. \A u \in transfers : /\ u.task \in Tasks /\ task[u.task].kind # "none"
                             /\ UploadOk(u, task, hist, stored) /\ DownloadOk(u, child, copy)
    BY DEF ViewEditInv, TypeInv, TransferInv, TransferType
  <2>2. \A u \in transfers : UploadOk(u, task, hist', stored')
    BY <1>4, <2>1 DEF UploadOk
  <2>3. UploadOk(t2, task, hist', stored') /\ DownloadOk(t2, child, copy)
    BY <1>2, <1>3, <1>4, <2>1, <2>2 DEF UploadOk, DownloadOk
  <2>4. \A u \in transfers' : /\ task'[u.task].kind # "none"
                              /\ UploadOk(u, task', hist', stored') /\ DownloadOk(u, child', copy')
    BY <1>3, <2>1, <2>2, <2>3 DEF Worker
  <2>5. \A u, u2 \in transfers' : ~u.up /\ ~u2.up /\ u.task = u2.task => u = u2
    BY <1>3 DEF ViewEditInv, TransferInv
  <2> QED BY <2>4, <2>5 DEF TransferInv
<1>8. CopyInv'
  BY <1>4 DEF Worker, ViewEditInv, CopyInv, EditKept
<1> QED BY <1>5, <1>6, <1>7, <1>8 DEF ViewEditInv

\* The programs.
LEMMA SavesStep ==
  ASSUME ViewEditInv, Saves
  PROVE  ViewEditInv'
<1>1. PICK k \in Tasks, later \in BOOLEAN :
        /\ child[k] = "running" /\ task[k].kind \in {"edit", "own"} /\ copy[k].there
        /\ copy' = [copy EXCEPT ![k].edited = TRUE, ![k].changed = @ \/ later]
        /\ UNCHANGED <<programs, shown, task, transfers, viewedit_processes, child, child_process_done,
                       main, browsed, stored, hist>>
  BY DEF Saves
<1>2. copy' \in [Tasks -> CopyType] /\ copy'[k].there /\ \A j \in Tasks : j # k => copy'[j] = copy[j]
  <2>1. copy \in [Tasks -> CopyType]
    BY DEF ViewEditInv, TypeInv
  <2> QED BY <1>1, <2>1 DEF CopyType
<1>3. TypeInv'
  BY <1>1, <1>2 DEF ViewEditInv, TypeInv
<1>4. ProcInv'
  BY <1>1, ProcInvKept DEF ViewEditInv, Later
<1>5. TransferInv'
  <2>1. \A t \in transfers : DownloadOk(t, child, copy')
    BY <1>1, <1>2 DEF ViewEditInv, TypeInv, TransferInv, TransferType, DownloadOk
  <2> QED BY <1>1, <2>1 DEF ViewEditInv, TransferInv
<1>6. CopyInv'
  BY <1>1, <1>2 DEF ViewEditInv, CopyInv, EditKept
<1> QED BY <1>3, <1>4, <1>5, <1>6 DEF ViewEditInv

\* A rename changes a name that an edit process may hold.
LEMMA RenamesStep ==
  ASSUME ViewEditInv, Renames
  PROVE  ViewEditInv'
<1>1. PICK k \in Tasks :
        /\ Unlink(k) /\ Remember(k, {"excused"})
        /\ UNCHANGED <<programs, shown, task, transfers, viewedit_processes, child, child_process_done,
                       main, browsed, stored>>
  BY DEF Renames
<1>2. /\ copy' \in [Tasks -> CopyType]
      /\ \A j \in Tasks : copy'[j].edited = copy[j].edited /\ copy'[j].changed = copy[j].changed
      /\ \A j \in Tasks : j # k => copy'[j] = copy[j]
  BY <1>1, UnlinkTakes DEF ViewEditInv, TypeInv
<1>3. /\ hist' \in [Tasks -> SUBSET Reasons] /\ \A j \in Tasks : hist[j] \subseteq hist'[j]
      /\ "excused" \in hist'[k]
  BY <1>1, RememberAdds DEF ViewEditInv, TypeInv, Reasons
<1>4. TypeInv'
  BY <1>1, <1>2, <1>3 DEF ViewEditInv, TypeInv
<1>5. ProcInv'
  BY <1>1, <1>3, ProcInvKept DEF ViewEditInv, Later
<1>6. TransferInv'
  BY <1>1, <1>2, <1>3, TransferInvKept DEF ViewEditInv
<1>7. CopyInv'
  BY <1>1, <1>2, <1>3 DEF ViewEditInv, CopyInv, EditKept
<1> QED BY <1>4, <1>5, <1>6, <1>7 DEF ViewEditInv

\* A program ends when it wants.
LEMMA ExitsStep ==
  ASSUME ViewEditInv, Exits
  PROVE  ViewEditInv'
<1>1. PICK p \in DOMAIN child, how \in Ended :
        /\ child[p] = "running" /\ child' = [child EXCEPT ![p] = how]
        /\ UNCHANGED <<programs, shown, task, copy, transfers, viewedit_processes, main, browsed,
                       stored, hist>>
  BY DEF Exits
<1>2. TypeInv' /\ \A k \in Tasks : child[k] = "none" => child'[k] = "none"
  BY <1>1 DEF ViewEditInv, TypeInv, Ended
<1>3. ProcInv'
  BY <1>1, ProcInvKept DEF ViewEditInv, Later
<1>4. TransferInv'
  <2>1. \A t \in transfers : DownloadOk(t, child', copy)
    BY <1>2 DEF ViewEditInv, TypeInv, TransferInv, TransferType, DownloadOk
  <2> QED BY <1>1, <2>1 DEF ViewEditInv, TransferInv
<1>5. CopyInv'
  BY <1>1, <1>2 DEF ViewEditInv, CopyInv, EditKept
<1> QED BY <1>2, <1>3, <1>4, <1>5 DEF ViewEditInv

\* The tick, where it changes nothing of a file: its begin, its end and the stat() of a file.
LEMMA TickStep ==
  ASSUME ViewEditInv, TickBegins \/ TickEnds \/ StatAfterFork
  PROVE  ViewEditInv'
<1>1. /\ UNCHANGED <<programs, shown, task, transfers, viewedit_processes, child, stored, hist>>
      /\ main'.ve_proc = {}
  BY DEF TickBegins, TickEnds, StatAfterFork, At
<1>2. /\ copy' \in [Tasks -> CopyType]
      /\ \A j \in Tasks : copy'[j].edited = copy[j].edited /\ copy'[j].there = copy[j].there
                          /\ (copy'[j].changed => copy[j].changed)
  <2>1. copy \in [Tasks -> CopyType]
    BY DEF ViewEditInv, TypeInv
  <2>2. CASE copy' = [k \in Tasks |-> [copy[k] EXCEPT !.changed = @ /\ \A p \in main.ve_proc : p.pid # k]]
    BY <2>1, <2>2 DEF CopyType
  <2> QED BY <2>1, <2>2 DEF TickBegins, TickEnds, StatAfterFork
<1>3. TypeInv'
  BY <1>1, <1>2 DEF ViewEditInv, TypeInv
<1>4. ProcInv'
  BY <1>1 DEF ViewEditInv, ProcInv
<1>5. TransferInv'
  BY <1>1, <1>2, TransferInvKept DEF ViewEditInv
<1>6. CopyInv'
  BY <1>1, <1>2 DEF ViewEditInv, CopyInv, EditKept
<1> QED BY <1>3, <1>4, <1>5, <1>6 DEF ViewEditInv

\* The end of a process: what is removed is a copy that was viewed, or one that was not changed.
LEMMA ProcessEndKeeps ==
  ASSUME ViewEditInv, NEW p \in Procs(task, hist), NEW how, _check_viewedit_process_status(p, how)
  PROVE  /\ copy' \in [Tasks -> CopyType]
         /\ \A j \in Tasks : copy'[j].edited = copy[j].edited /\ copy'[j].changed = copy[j].changed
         /\ \A j \in Tasks : copy[j].edited /\ copy[j].changed /\ copy[j].there => copy'[j].there
         /\ \/ main' = main
            \/ main'.ve_proc = {p} /\ ~p.dontupload
<1>1. p \in ProcType /\ p.pid \in Tasks /\ (p.view /\ p.remote => task[p.pid].kind = "view")
  BY DEF Procs, ProcType
<1>2. copy \in [Tasks -> CopyType] /\ \A k \in Tasks : copy[k].edited => task[k].kind \in {"edit", "own"}
  BY DEF ViewEditInv, TypeInv, CopyInv
<1>3. CASE how = "ok" /\ ~p.view /\ ~p.dontupload
  <2>1. _prompt_to_upload_edited_file(p)
    BY <1>3 DEF _check_viewedit_process_status
  <2>2. CASE copy[p.pid].there /\ copy[p.pid].changed
    BY <1>2, <1>3, <2>1, <2>2 DEF _prompt_to_upload_edited_file
  <2>3. CASE ~(copy[p.pid].there /\ copy[p.pid].changed)
    <3>1. remove_file(p) /\ main' = main
      BY <2>1, <2>3 DEF _prompt_to_upload_edited_file
    <3> QED BY <1>1, <1>2, <2>3, <3>1, RemoveTakes
  <2> QED BY <2>2, <2>3
<1>4. CASE ~(how = "ok" /\ ~p.view /\ ~p.dontupload) /\ p.view /\ (how = "failed" \/ p.rm)
  <2>1. remove_file(p) /\ main' = main
    BY <1>4 DEF _check_viewedit_process_status
  <2>2. p.remote => ~copy[p.pid].edited
    BY <1>1, <1>2, <1>4
  <2> QED BY <1>1, <1>2, <2>1, <2>2, RemoveTakes
<1>5. CASE ~(how = "ok" /\ ~p.view /\ ~p.dontupload) /\ ~(p.view /\ (how = "failed" \/ p.rm))
  BY <1>2, <1>5 DEF _check_viewedit_process_status
<1> QED BY <1>3, <1>4, <1>5

\* check_done_process() takes every ended program off the list.
LEMMA ReapStep ==
  ASSUME ViewEditInv, check_done_process
  PROVE  ViewEditInv'
<1>1. /\ UNCHANGED <<programs, shown, task, transfers, stored, hist>> /\ main.pc = "reaping"
  BY DEF check_done_process
<1>2. /\ viewedit_processes' \in Seq(Procs(task, hist))
      /\ copy' \in [Tasks -> CopyType]
      /\ \A j \in Tasks : copy'[j].edited = copy[j].edited /\ copy'[j].changed = copy[j].changed
      /\ \A j \in Tasks : copy[j].edited /\ copy[j].changed /\ copy[j].there => copy'[j].there
      /\ main'.ve_proc \subseteq Procs(task, hist)
      /\ main'.pc = "asking" => \A p \in main'.ve_proc : ~p.dontupload
  <2>1. CASE UNCHANGED <<viewedit_processes, copy>> /\ (main' = main \/ main'.ve_proc = {})
    BY <1>1, <2>1 DEF ViewEditInv, TypeInv, ProcInv
  <2>2. CASE \E how : /\ viewedit_processes # <<>> /\ viewedit_processes' = Tail(viewedit_processes)
                      /\ _check_viewedit_process_status(Head(viewedit_processes), how)
    <3>1. /\ Head(viewedit_processes) \in Procs(task, hist)
          /\ Tail(viewedit_processes) \in Seq(Procs(task, hist))
      BY <2>2, HeadTailProperties DEF ViewEditInv, ProcInv
    <3>2. PICK how : _check_viewedit_process_status(Head(viewedit_processes), how)
      BY <2>2
    <3>3. main.ve_proc \subseteq Procs(task, hist)
      BY DEF ViewEditInv, ProcInv
    <3> QED BY <1>1, <2>2, <3>1, <3>2, <3>3, ProcessEndKeeps
  <2>3. \/ \E p \in Zombies : do_check_done_process(p, child[p])
        \/ UNCHANGED <<viewedit_processes, copy>> /\ main' = At("passing")
    BY DEF check_done_process
  <2>4. ASSUME NEW p, do_check_done_process(p, child[p])
        PROVE  \/ UNCHANGED <<viewedit_processes, copy>> /\ (main' = main \/ main'.ve_proc = {})
               \/ \E how : /\ viewedit_processes # <<>> /\ viewedit_processes' = Tail(viewedit_processes)
                           /\ _check_viewedit_process_status(Head(viewedit_processes), how)
    BY <2>4 DEF do_check_done_process, At
  <2> QED BY <2>1, <2>2, <2>3, <2>4 DEF At
<1>3. /\ child' \in [Tasks \cup OtherPids -> {"none", "running", "ok", "failed", "reaped"}]
      /\ \A k \in Tasks : child[k] = "none" => child'[k] = "none"
  <2>1. child' = child \/ \E p \in Zombies : child' = [child EXCEPT ![p] = "reaped"]
    BY DEF check_done_process
  <2> QED BY <2>1 DEF Zombies, Ended, ViewEditInv, TypeInv
<1>4. TypeInv'
  BY <1>1, <1>2, <1>3 DEF ViewEditInv, TypeInv
<1>5. ProcInv'
  BY <1>1, <1>2 DEF ProcInv
<1>6. TransferInv'
  <2>1. \A t \in transfers : DownloadOk(t, child', copy')
    BY <1>2, <1>3 DEF ViewEditInv, TypeInv, TransferInv, TransferType, DownloadOk
  <2> QED BY <1>1, <2>1 DEF ViewEditInv, TransferInv
<1>7. CopyInv'
  BY <1>1, <1>2, <1>3 DEF ViewEditInv, CopyInv, EditKept
<1> QED BY <1>4, <1>5, <1>6, <1>7 DEF ViewEditInv

\* The answer of the user: an upload that goes back, or a copy given up.
LEMMA AnswerStep ==
  ASSUME ViewEditInv, Answer
  PROVE  ViewEditInv'
<1>1. PICK p \in main.ve_proc :
        \/ transfers' = transfers \cup {Returned(p)} /\ UNCHANGED <<copy, hist>>
        \/ remove_file(p) /\ Remember(p.pid, {"excused"}) /\ UNCHANGED transfers
  BY DEF Answer
<1>2. /\ UNCHANGED <<programs, shown, task, viewedit_processes, child, stored>>
      /\ main.pc = "asking" /\ main'.ve_proc = {}
  BY DEF Answer, At
<1>3. p \in Procs(task, hist) /\ p \in ProcType /\ p.pid \in Tasks /\ ~p.dontupload
  BY <1>2 DEF ViewEditInv, ProcInv, Procs, ProcType
<1>4. CASE transfers' = transfers \cup {Returned(p)} /\ UNCHANGED <<copy, hist>>
  <2> DEFINE t == Returned(p)
  <2>1. t \in TransferType /\ t.task = p.pid /\ t.up /\ ~t.passed /\ t.to = p.torequest
    BY <1>3 DEF Returned, TransferType, ProcType, ViewEditInv, TypeInv
  <2>2. task[p.pid].kind # "none" /\ UploadOk(t, task, hist, stored) /\ DownloadOk(t, child, copy)
    BY <1>3, <2>1 DEF Procs, UploadOk, DownloadOk
  <2>3. TypeInv'
    BY <1>2, <1>4, <2>1 DEF ViewEditInv, TypeInv
  <2>4. ProcInv'
    BY <1>2, <1>4 DEF ViewEditInv, ProcInv
  <2>5. TransferInv'
    <3>1. \A u \in transfers' : /\ task[u.task].kind # "none"
                                /\ UploadOk(u, task, hist, stored) /\ DownloadOk(u, child, copy)
      BY <1>4, <2>1, <2>2 DEF ViewEditInv, TransferInv
    <3>2. \A u, u2 \in transfers' : ~u.up /\ ~u2.up /\ u.task = u2.task => u = u2
      BY <1>4, <2>1 DEF ViewEditInv, TransferInv
    <3> QED BY <1>2, <1>4, <3>1, <3>2 DEF TransferInv
  <2>6. CopyInv'
    BY <1>2, <1>4 DEF ViewEditInv, CopyInv, EditKept
  <2> QED BY <2>3, <2>4, <2>5, <2>6 DEF ViewEditInv
<1>5. CASE remove_file(p) /\ Remember(p.pid, {"excused"}) /\ UNCHANGED transfers
  <2>1. /\ copy' \in [Tasks -> CopyType]
        /\ \A j \in Tasks : copy'[j].edited = copy[j].edited /\ copy'[j].changed = copy[j].changed
        /\ \A j \in Tasks : j # p.pid => copy'[j] = copy[j]
    BY <1>3, <1>5, RemoveTakes DEF ViewEditInv, TypeInv
  <2>2. /\ hist' \in [Tasks -> SUBSET Reasons] /\ \A j \in Tasks : hist[j] \subseteq hist'[j]
        /\ "excused" \in hist'[p.pid]
    BY <1>3, <1>5, RememberAdds DEF ViewEditInv, TypeInv, Reasons
  <2>3. TypeInv'
    BY <1>2, <1>5, <2>1, <2>2 DEF ViewEditInv, TypeInv
  <2>4. ProcInv'
    <3>1. Later(task, task', hist, hist')
      BY <1>2, <2>2 DEF Later
    <3>2. viewedit_processes' \in Seq(Procs(task', hist'))
      BY <1>2, <3>1, ProcSeqKept DEF ViewEditInv, ProcInv
    <3> QED BY <1>2, <3>2 DEF ProcInv
  <2>5. TransferInv'
    BY <1>2, <1>5, <2>1, <2>2, TransferInvKept DEF ViewEditInv
  <2>6. CopyInv'
    BY <1>2, <2>1, <2>2 DEF ViewEditInv, CopyInv, EditKept
  <2> QED BY <2>3, <2>4, <2>5, <2>6 DEF ViewEditInv
<1> QED BY <1>1, <1>4, <1>5

\* A file the worker has passed: a copy is opened once, and what an upload leaves behind is
\* removed when its text is on a server, or the upload has failed.
LEMMA PassingStep ==
  ASSUME ViewEditInv, on_next_transfer
  PROVE  ViewEditInv'
<1>1. PICK t \in transfers :
        /\ t.passed /\ transfers' = transfers \ {t}
        /\ \/ ~t.up /\ view_file(t.task, Transferred(task[t.task].kind = "view"), copy)
           \/ ~t.up /\ UNCHANGED <<copy, viewedit_processes, child, main, hist>>
           \/ /\ t.up /\ (IF t.from = Here THEN Unlink(t.task) ELSE UNCHANGED copy)
              /\ UNCHANGED <<viewedit_processes, child, main, hist>>
  BY DEF on_next_transfer
<1>2. UNCHANGED <<programs, shown, task, stored>> /\ main.pc # "asking"
  BY DEF on_next_transfer
<1>3. /\ t \in TransferType /\ t.task \in Tasks /\ t.up \in BOOLEAN /\ task[t.task].kind # "none"
      /\ UploadOk(t, task, hist, stored) /\ DownloadOk(t, child, copy)
  BY DEF ViewEditInv, TypeInv, TransferInv, TransferType
<1>4. CASE ~t.up /\ view_file(t.task, Transferred(task[t.task].kind = "view"), copy)
  <2> DEFINE k == t.task
             o == Transferred(task[t.task].kind = "view")
  <2>1. o \in Options /\ (o.view => task[k].kind = "view") /\ o.wdata = {}
    BY OptionsOfCallers DEF ViewEditInv, Transferred
  <2>2. view_file(k, o, copy) /\ copy \in [Tasks -> CopyType] /\ k \in Tasks /\ task'[k].kind # "none"
    BY <1>2, <1>3, <1>4 DEF ViewEditInv, TypeInv
  <2> HIDE DEF o, k
  <2>3. /\ ProcInv' /\ hist' \in [Tasks -> SUBSET Reasons]
        /\ \A j \in Tasks : hist[j] \subseteq hist'[j]
        /\ child' \in [Tasks \cup OtherPids -> {"none", "running", "ok", "failed", "reaped"}]
        /\ copy' \in [Tasks -> CopyType]
        /\ \A j \in Tasks : j # k => child'[j] = child[j] /\ copy'[j] = copy[j]
        /\ copy'[k].edited = copy[k].edited
    BY <1>2, <2>1, <2>2, ViewFileKeeps DEF ViewEditInv
  <2>4. ~copy[k].edited
    BY <1>3, <1>4 DEF DownloadOk, k
  <2>5. TypeInv'
    BY <1>1, <1>2, <2>3 DEF ViewEditInv, TypeInv
  <2>6. TransferInv'
    <3>1. \A u \in transfers' : /\ u \in transfers /\ u.task \in Tasks /\ task[u.task].kind # "none"
                                /\ UploadOk(u, task, hist, stored) /\ DownloadOk(u, child, copy)
      BY <1>1 DEF ViewEditInv, TypeInv, TransferInv, TransferType
    <3>2. \A u \in transfers' : UploadOk(u, task, hist', stored)
      BY <2>3, <3>1 DEF UploadOk
    <3>3. \A u \in transfers' : ~u.up => u.task # k
      BY <1>1, <1>4 DEF ViewEditInv, TransferInv, k
    <3>4. \A u \in transfers' : DownloadOk(u, child', copy')
      BY <2>3, <3>1, <3>3 DEF DownloadOk
    <3>5. \A u, u2 \in transfers' : ~u.up /\ ~u2.up /\ u.task = u2.task => u = u2
      BY <3>1 DEF ViewEditInv, TransferInv
    <3> QED BY <1>2, <3>1, <3>2, <3>4, <3>5 DEF TransferInv
  <2>7. CopyInv'
    BY <1>2, <2>2, <2>3, <2>4 DEF ViewEditInv, CopyInv, EditKept
  <2> QED BY <2>3, <2>5, <2>6, <2>7 DEF ViewEditInv
<1>5. CASE UNCHANGED <<viewedit_processes, child, main, hist>>
           /\ (UNCHANGED copy \/ (t.up /\ Unlink(t.task)))
  <2>1. /\ copy' \in [Tasks -> CopyType]
        /\ \A j \in Tasks : copy'[j].edited = copy[j].edited /\ copy'[j].changed = copy[j].changed
        /\ \A j \in Tasks : copy'[j] = copy[j] \/ stored[j] # {} \/ "excused" \in hist[j]
    <3>1. CASE UNCHANGED copy
      BY <3>1 DEF ViewEditInv, TypeInv
    <3>2. CASE t.up /\ Unlink(t.task)
      <4>1. stored[t.task] # {} \/ "excused" \in hist[t.task]
        BY <1>1, <1>3, <3>2 DEF UploadOk
      <4> QED BY <1>3, <3>2, <4>1, UnlinkTakes DEF ViewEditInv, TypeInv
    <3> QED BY <1>5, <3>1, <3>2
  <2>2. TypeInv'
    BY <1>1, <1>2, <1>5, <2>1 DEF ViewEditInv, TypeInv
  <2>3. ProcInv'
    BY <1>2, <1>5 DEF ViewEditInv, ProcInv
  <2>4. TransferInv'
    <3>1. \A u \in transfers : DownloadOk(u, child, copy')
      BY <2>1 DEF ViewEditInv, TypeInv, TransferInv, TransferType, DownloadOk
    <3> QED BY <1>1, <1>2, <1>5, <3>1 DEF ViewEditInv, TransferInv
  <2>5. CopyInv'
    BY <1>2, <1>5, <2>1 DEF ViewEditInv, CopyInv, EditKept
  <2> QED BY <2>2, <2>3, <2>4, <2>5 DEF ViewEditInv
<1> QED BY <1>1, <1>4, <1>5

-----------------------------------------------------------------------------
(* Theorems *)

\* Every step of the model keeps the invariant.
LEMMA NextInv == ViewEditInv /\ [ViewEditNext]_viewVars => ViewEditInv'
<1> SUFFICES ASSUME ViewEditInv, [ViewEditNext]_viewVars PROVE ViewEditInv'
  OBVIOUS
<1>1. CASE Main
  BY <1>1, TickStep, ReapStep, AnswerStep, PassingStep DEF Main
<1>2. CASE User
  BY <1>2, ViewOrEditStep, ViewLogStep, BrowseStep DEF User
<1>3. CASE Worker \/ Saves \/ Renames \/ Exits
  BY <1>3, WorkerStep, SavesStep, RenamesStep, ExitsStep
<1>4. CASE UNCHANGED viewVars
  BY <1>4 DEF viewVars, ViewEditInv, TypeInv, ProcInv, TransferInv, CopyInv, UploadOk, DownloadOk, EditKept
<1> QED BY <1>1, <1>2, <1>3, <1>4 DEF ViewEditNext

\* The inductive invariant: what each process, transfer and copy must remember of its task for
\* the removals of remove_file(), view_file() and on_next_transfer() to be safe.
THEOREM ViewEditInvariant == ViewEditSpec => []ViewEditInv
BY InitInv, NextInv, PTL DEF ViewEditSpec

\* No removal of a copy, in remove_file(), view_file() or on_next_transfer(), loses what an editor
\* saved and nobody has given up.
THEOREM EditsKept == ViewEditSpec => []EditKept
<1>1. ViewEditInv => EditKept
  BY DEF ViewEditInv, CopyInv
<1> QED BY <1>1, ViewEditInvariant, PTL

\* An upload goes back to the directory the file came from (torequest, set by fork_process()).
THEOREM UploadsGoBack == ViewEditSpec => []UploadGoesBack
<1>1. ViewEditInv => UploadGoesBack
  BY DEF ViewEditInv, TransferInv, UploadOk, UploadGoesBack
<1> QED BY <1>1, ViewEditInvariant, PTL
=============================================================================
