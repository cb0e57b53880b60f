------------------------------ MODULE ViewEdit ------------------------------
(***************************************************************************)
(* Files that are viewed and edited: a temporary copy of a remote file is  *)
(* transferred, a program is forked on it, and after its end an edited     *)
(* copy is offered for upload.  The processes run beside the main thread,  *)
(* which learns of their end from a SIGCHLD and a tick, update_downloads().*)
(*                                                                         *)
(* "task" is one View, Edit or View Log of the user.  The process id of    *)
(* its program and the name of its copy stand for the task too.            *)
(***************************************************************************)
EXTENDS Naturals, Sequences, FiniteSets, Functions

CONSTANTS
  Programs,    \* settings of the options: view_program is set; so is the extension's program
  Tasks,       \* bound: what the user views and edits
  OtherPids,   \* the other children of the program: each ssh of a connection (lib/pty.c)
  Places,      \* directories of remote sites
  Here,        \* a local directory
  MaxBrowse    \* bound: how often a window goes elsewhere

ASSUME ViewEditAssumption ==
  /\ Programs \subseteq [view : BOOLEAN, ext : BOOLEAN]
  /\ Tasks \cap OtherPids = {} /\ Here \notin Places
  /\ MaxBrowse \in Nat

VARIABLES
  programs,    \* the options, as the user has set them
  shown,       \* what each window shows
  task,        \* of each task: what was asked for, and of what place
  copy,        \* the file on disk: there, edited, st_mtime differs from ve_proc->st
  transfers,   \* the transfers of copies
  viewedit_processes,
  child,       \* of each process: none, running, how it has ended, reaped
  child_process_done,  \* set by the signal handler
  main,        \* where the tick stands
  browsed,
  stored,      \* the place where the edited text of a copy is on a server
  hist         \* history: why an edit may be lost, or go elsewhere

viewVars == <<programs, shown, task, copy, transfers, viewedit_processes, child,
              child_process_done, main, browsed, stored, hist>>

Windows == {"window1", "window2"}
Other(w) == CHOOSE v \in Windows : v # w

NoTask == [kind |-> "none", place |-> Here, win |-> "window1"]
NoCopy == [there |-> FALSE, edited |-> FALSE, changed |-> FALSE]
At(pc) == [pc |-> pc, ve_proc |-> {}, back |-> "idle"]
Ended == {"ok", "failed"}

ViewEditInit ==
  /\ programs \in Programs
  /\ shown \in {[window1 |-> Here, window2 |-> p] : p \in Places}
  /\ task = [k \in Tasks |-> NoTask]
  /\ copy = [k \in Tasks |-> NoCopy]
  /\ transfers = {}
  /\ viewedit_processes = <<>>
  /\ child = [p \in Tasks \cup OtherPids |-> IF p \in Tasks THEN "none" ELSE "running"]
  /\ child_process_done = FALSE
  /\ main = At("idle")
  /\ browsed = 0
  /\ stored = [k \in Tasks |-> {}]
  /\ hist = [k \in Tasks |-> {}]

Remember(k, why) == hist' = [hist EXCEPT ![k] = @ \cup why]
Unlinked(c, k) == [c EXCEPT ![k].there = FALSE]
Unlink(k) == copy' = Unlinked(copy, k)

(***************************************************************************)
(* view_file() and fork_process()                                          *)
(***************************************************************************)

\* What view_file() is called with: for a file of the user's own, for a copy that has been
\* transferred, and for the log, whose name has no extension.
Own(view, w) == [view |-> view, rm |-> FALSE, dontupload |-> TRUE, remote |-> FALSE,
                 wdata |-> {w}, ext |-> programs.ext]
Transferred(view) == [view |-> view, rm |-> view, dontupload |-> FALSE, remote |-> TRUE,
                      wdata |-> {}, ext |-> programs.ext]
Log == [view |-> TRUE, rm |-> TRUE, dontupload |-> TRUE, remote |-> FALSE, wdata |-> {}, ext |-> FALSE]

External(o) == o.ext \/ ~o.view \/ programs.view

\* The window the process belongs to: without a wdata, as after a transfer, it is window1.
NewProc(k, o) ==
  LET from == IF o.wdata = {"window2"} THEN "window2" ELSE "window1"
  IN  [pid |-> k, view |-> o.view, rm |-> o.rm, dontupload |-> o.dontupload, remote |-> o.remote,
       fromwdata |-> from, torequest |-> shown[Other(from)]]

\* Only the editor of the options has its file looked at after the fork.
fork_process(k, o) ==
  /\ viewedit_processes' = Append(viewedit_processes, NewProc(k, o))
  /\ child' = [child EXCEPT ![k] = "running"]
  /\ main' = IF o.view \/ o.ext THEN main ELSE [pc |-> "stat", ve_proc |-> {NewProc(k, o)}, back |-> main.pc]
  /\ Remember(k, IF o.wdata # {} \/ (task[k].win = "window2" /\ shown["window2"] = task[k].place)
                 THEN {} ELSE {"elsewhere"})

\* The result of fork_process() is not tested when an editor is started: newproc->st is a write
\* through NULL.
ForkFails(o) ==
  /\ main' = IF o.view \/ o.ext THEN main ELSE At("crashed")
  /\ UNCHANGED <<viewedit_processes, child, hist>>

\* c: the files at the call.  The built-in viewer reads the text into a dialog, and the name of
\* a copy is gone before that.
view_file(k, o, c) ==
  \/ External(o) /\ copy' = [c EXCEPT ![k].changed = o.ext] /\ (fork_process(k, o) \/ ForkFails(o))
  \/ /\ ~External(o)
     /\ copy' = IF o.rm THEN Unlinked(c, k) ELSE c
     /\ UNCHANGED <<viewedit_processes, child, main, hist>>

\* stat (non_utf8, &newproc->st), while the editor runs.
StatAfterFork ==
  /\ main.pc = "stat"
  /\ copy' = [k \in Tasks |-> [copy[k] EXCEPT !.changed = @ /\ \A p \in main.ve_proc : p.pid # k]]
  /\ main' = At(main.back)
  /\ UNCHANGED <<programs, shown, task, transfers, viewedit_processes, child, child_process_done,
                 browsed, stored, hist>>

(***************************************************************************)
(* The user                                                                *)
(***************************************************************************)

Given(k, what) == task[k].kind = "none" /\ task' = [task EXCEPT ![k] = what]
NewFile(k) == [copy EXCEPT ![k] = [NoCopy EXCEPT !.there = TRUE]]

\* A file of a local directory is opened as it is: copy[k] is the user's own file.
OpenOwn(k, w, view) ==
  /\ shown[w] = Here
  /\ Given(k, [kind |-> "own", place |-> Here, win |-> "window1"])
  /\ view_file(k, Own(view, w), NewFile(k))
  /\ UNCHANGED transfers

\* A remote file is transferred to a new file of mkstemps(), through the request of the other
\* window, whatever that shows.
FetchCopy(k, w, view) ==
  /\ shown[w] # Here
  /\ Given(k, [kind |-> IF view THEN "view" ELSE "edit", place |-> shown[w], win |-> w])
  /\ copy' = NewFile(k)
  /\ transfers' = transfers \cup
       {[task |-> k, up |-> FALSE, from |-> shown[w], to |-> shown[Other(w)], passed |-> FALSE]}
  /\ UNCHANGED <<viewedit_processes, child, main, hist>>

do_view_or_edit_file(view) ==
  /\ main.pc = "idle"
  /\ \E k \in Tasks, w \in Windows : OpenOwn(k, w, view) \/ FetchCopy(k, w, view)
  /\ UNCHANGED <<programs, shown, child_process_done, browsed, stored>>

viewlog ==
  /\ main.pc = "idle"
  /\ \E k \in Tasks :
       /\ Given(k, [kind |-> "log", place |-> Here, win |-> "window1"])
       /\ view_file(k, Log, NewFile(k))
  /\ UNCHANGED <<programs, shown, transfers, child_process_done, browsed, stored>>

\* A window is used for something else.
Browse(w) ==
  /\ main.pc = "idle" /\ browsed < MaxBrowse
  /\ \E p \in (Places \cup {Here}) \ {shown[w]} : shown' = [shown EXCEPT ![w] = p]
  /\ browsed' = browsed + 1
  /\ UNCHANGED <<programs, task, copy, transfers, viewedit_processes, child, child_process_done,
                 main, stored, hist>>

(***************************************************************************)
(* The worker of a transfer, and the processes                             *)
(***************************************************************************)

\* _gftpui_common_next_file_in_trans(): after a file that was transferred, and after one that
\* was skipped, stopped or refused.  Or the job gives up before, and the tick never sees the file.
EndsFile(t) ==
  transfers' = (transfers \ {t}) \cup {[t EXCEPT !.passed = TRUE]} \/ transfers' = transfers \ {t}

\* A copy that comes only in part is a copy all the same; in a job between two remote sites it
\* stays empty.
Download(t) ==
  ~t.up /\ UNCHANGED <<stored, hist>>

\* The file is found only if the request it is read by is the local one.
Upload(t) ==
  /\ t.up
  /\ \/ /\ t.from = Here /\ copy[t.task].there
        /\ stored' = [stored EXCEPT ![t.task] = {t.to}]
        /\ UNCHANGED hist
     \/ UNCHANGED stored /\ Remember(t.task, {"excused"})

Worker ==
  /\ \E t \in transfers : ~t.passed /\ EndsFile(t) /\ (Download(t) \/ Upload(t))
  /\ UNCHANGED <<programs, shown, task, copy, viewedit_processes, child, child_process_done, main,
                 browsed>>

\* An editor saves the file.  st_mtime counts seconds: a save in the second of the one before
\* leaves it as it was.
Saves ==
  \E k \in Tasks, later \in BOOLEAN :
    /\ child[k] = "running" /\ task[k].kind \in {"edit", "own"} /\ copy[k].there
    /\ copy' = [copy EXCEPT ![k].edited = TRUE, ![k].changed = @ \/ later]
    /\ UNCHANGED <<programs, shown, task, transfers, viewedit_processes, child, child_process_done,
                   main, browsed, stored, hist>>

\* The program itself removes the file, or renames it.
Renames ==
  \E k \in Tasks :
    /\ child[k] = "running" /\ task[k].kind = "edit" /\ copy[k].there
    /\ Unlink(k) /\ Remember(k, {"excused"})
    /\ UNCHANGED <<programs, shown, task, transfers, viewedit_processes, child, child_process_done,
                   main, browsed, stored>>

\* A process ends, with its exit status; gftpui_common_sig_child().
Exits ==
  \E p \in DOMAIN child, how \in Ended :
    /\ child[p] = "running" /\ (p \in OtherPids => how = "ok")
    /\ child' = [child EXCEPT ![p] = how]
    /\ child_process_done' = TRUE
    /\ UNCHANGED <<programs, shown, task, copy, transfers, viewedit_processes, main, browsed,
                   stored, hist>>

(***************************************************************************)
(* The tick                                                                *)
(***************************************************************************)

TickBegins ==
  /\ main.pc = "idle"
  /\ main' = At(IF child_process_done THEN "reaping" ELSE "passing")
  /\ child_process_done' = FALSE
  /\ UNCHANGED <<programs, shown, task, copy, transfers, viewedit_processes, child, browsed,
                 stored, hist>>

TickEnds ==
  /\ main.pc = "passing" /\ main' = At("idle")
  /\ UNCHANGED <<programs, shown, task, copy, transfers, viewedit_processes, child,
                 child_process_done, browsed, stored, hist>>

remove_file(p) == IF p.remote THEN Unlink(p.pid) ELSE UNCHANGED copy

\* The program ended without error, and an edited copy is offered if its time has changed.
_prompt_to_upload_edited_file(p) ==
  IF copy[p.pid].there /\ copy[p.pid].changed
  THEN main' = [pc |-> "asking", ve_proc |-> {p}, back |-> "reaping"] /\ UNCHANGED copy
  ELSE remove_file(p) /\ UNCHANGED main

\* Mutant: the copy goes with the process, also when the editor could not be run (ChangeLog:805).
AlwaysCleans(p, how) ==
  IF how = "ok" /\ ~p.view /\ ~p.dontupload THEN _prompt_to_upload_edited_file(p)
  ELSE remove_file(p) /\ UNCHANGED main

_check_viewedit_process_status(p, how) ==
  CASE how = "ok" /\ ~p.view /\ ~p.dontupload -> _prompt_to_upload_edited_file(p)
    [] p.view /\ (how = "failed" \/ p.rm)      -> remove_file(p) /\ UNCHANGED main
    [] OTHER                                   -> UNCHANGED <<copy, main>>

\* The loop goes round for ever at a process that is not the one: "continue" without the next.
do_check_done_process(pid, how) ==
  IF viewedit_processes = <<>>
  THEN UNCHANGED <<viewedit_processes, copy, main>>
  ELSE LET ve_proc == Head(viewedit_processes)
       IN  IF ve_proc.pid # pid
           THEN main' = At("hung") /\ UNCHANGED <<viewedit_processes, copy>>
           ELSE /\ viewedit_processes' = Tail(viewedit_processes)
                /\ _check_viewedit_process_status(ve_proc, how)

Zombies == {p \in DOMAIN child : child[p] \in Ended}

\* Mutant: one waitpid() for each signal.
WaitsOnce ==
  /\ main.pc = "reaping"
  /\ main' = At("passing") /\ UNCHANGED copy
  /\ \/ \E p \in Zombies :
          /\ child' = [child EXCEPT ![p] = "reaped"]
          /\ viewedit_processes' = SelectSeq(viewedit_processes, LAMBDA ve_proc : ve_proc.pid # p)
     \/ Zombies = {} /\ UNCHANGED <<viewedit_processes, child>>
  /\ UNCHANGED <<programs, shown, task, transfers, child_process_done, browsed, stored, hist>>

check_done_process ==
  /\ main.pc = "reaping"
  /\ \/ \E p \in Zombies :
          child' = [child EXCEPT ![p] = "reaped"] /\ do_check_done_process(p, child[p])
     \/ Zombies = {} /\ main' = At("passing") /\ UNCHANGED <<viewedit_processes, copy, child>>
  /\ UNCHANGED <<programs, shown, task, transfers, child_process_done, browsed, stored, hist>>

\* Mutant: the upload goes to what the other window shows (ChangeLog:2491).
ReturnedToCurrent(p) ==
  [task |-> p.pid, up |-> TRUE, from |-> shown[p.fromwdata], to |-> shown[Other(p.fromwdata)],
   passed |-> FALSE]

\* The transfer of an edited file: from what the window shows now to what the other one showed
\* at the fork.
Returned(p) ==
  [task |-> p.pid, up |-> TRUE, from |-> shown[p.fromwdata], to |-> p.torequest, passed |-> FALSE]

\* "Would you like to upload it?"
Answer ==
  /\ main.pc = "asking" /\ main' = At(main.back)
  /\ \E p \in main.ve_proc :
       \/ transfers' = transfers \cup {Returned(p)} /\ UNCHANGED <<copy, hist>>
       \/ remove_file(p) /\ Remember(p.pid, {"excused"}) /\ UNCHANGED transfers
  /\ UNCHANGED <<programs, shown, task, viewedit_processes, child, child_process_done, browsed,
                 stored>>

\* A file the worker has passed: a copy is opened, unless it was skipped; the copy an upload was
\* made from is removed by the request it was read by, whatever became of the upload.
on_next_transfer ==
  /\ main.pc = "passing"
  /\ \E t \in transfers :
       /\ t.passed /\ transfers' = transfers \ {t}
       /\ \/ ~t.up /\ view_file(t.task, Transferred(task[t.task].kind = "view"), copy)
          \/ ~t.up /\ UNCHANGED <<copy, viewedit_processes, child, main, hist>>
          \/ /\ t.up /\ (IF t.from = Here THEN Unlink(t.task) ELSE UNCHANGED copy)
             /\ UNCHANGED <<viewedit_processes, child, main, hist>>
  /\ UNCHANGED <<programs, shown, task, child_process_done, browsed, stored>>

Main ==
  TickBegins \/ check_done_process \/ Answer \/ on_next_transfer \/ StatAfterFork \/ TickEnds

User ==
  \/ do_view_or_edit_file(TRUE) \/ do_view_or_edit_file(FALSE) \/ viewlog
  \/ \E w \in Windows : Browse(w)

\* With the main thread lost there is no program to speak of.
Lost == main.pc \in {"hung", "crashed"}

ViewEditNext ==
  ~Lost /\ (Main \/ Worker \/ Saves \/ Renames \/ Exits \/ User)

\* The main thread runs: a tick every 500 ms, a modal dialog is answered.
ViewEditSpec == ViewEditInit /\ [][ViewEditNext]_viewVars /\ WF_viewVars(Main)

(***************************************************************************)
(* Properties                                                              *)
(***************************************************************************)

\* What an editor saved is in its file or on a server, whatever the end of the program, until
\* the user does not want it (remove_file(), _prompt_to_upload_edited_file()).  Left out: an
\* upload that failed, after which on_next_transfer() removes the only copy; a save before the
\* stat() or in the second of it; a file the program itself moved away.
EditKept ==
  \A k \in Tasks :
    copy[k].edited /\ copy[k].changed /\ "excused" \notin hist[k] => copy[k].there \/ stored[k] # {}

\* An upload goes to the directory the file came from, wherever the windows are by then
\* (torequest, a copy made at the fork), if the file came from window2 and that still showed the
\* directory when the editor was started.
UploadGoesBack ==
  \A t \in transfers : t.up /\ "elsewhere" \notin hist[t.task] => t.to = task[t.task].place

\* No process that ended is forgotten: the flag of the signal handler and the loop of
\* check_done_process() find each, however many signals are merged into one.  Left out: the two
\* ways the main thread itself is lost.
ChildrenReaped ==
  Zombies # {} ~> Zombies = {} \/ Lost
=============================================================================
