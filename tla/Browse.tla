------------------------------- MODULE Browse -------------------------------
(***************************************************************************)
(* The operations the user runs in the two windows of the program, and the *)
(* cache of directory listings they share.                                 *)
(*                                                                         *)
(* gftpui_generic_thread() starts a thread for an operation and spins a    *)
(* main loop until request->stopable is 0 again; the loop dispatches the   *)
(* user's clicks, so operations nest: "stack" is the stack of calls of the *)
(* main thread, and only its last operation can be resumed.  "th" is where *)
(* the thread of an operation stands, "main" where the main thread does    *)
(* in it.  Both windows show directories of one site, the case in which    *)
(* they share lines of the index of the cache.                             *)
(***************************************************************************)
EXTENDS Integers, Sequences, FiniteSets, Functions, SequencesExt

CONSTANTS
  Windows,      \* window1 and window2
  Dirs, Home,   \* the directories of the site, the one a login starts in
  NoDir,        \* the directory of a request that has been destroyed
  CacheFiles,   \* the names mkstemp() makes: cache.XXXXXX
  NoFile,
  Retries,      \* the option "retries", for a login
  MaxStarts,    \* bound: operations the user starts
  MaxChanges,   \* bound: changes of one directory
  MaxDepth,     \* bound: operations nested in each other
  MaxEmptied    \* bound: listings that age, and clicks on "Clear Cache"

ASSUME BrowseAssumption ==
  /\ Home \in Dirs /\ NoDir \notin Dirs /\ NoFile \notin CacheFiles
  /\ IsFiniteSet(Dirs) /\ \E name \in [Dirs -> CacheFiles] : IsInjective(name)
  /\ {Retries, MaxStarts, MaxChanges, MaxDepth, MaxEmptied} \subseteq Nat

VARIABLES
  win,       \* of each window: its request, its list and what the user did in it
  stack,     \* the operations, the innermost last
  index,     \* cache/index.db: its readable lines, and whether its end has lost the newline
  newdb,     \* cache/index.db.new, shared by purges that run at once
  files,     \* the files of listings
  server,    \* how often a directory has changed
  stop_btn,  \* the Stop button can be pressed
  starts,    \* operations the user has started
  emptied,   \* how often lines have left the cache by age or by the menu
  told       \* history: the version of a directory at its last purge

browseVars == <<win, stack, index, newdb, files, server, stop_btn, starts, emptied, told>>

Nothing == [dir |-> NoDir, v |-> 0]

NoListing == [on |-> FALSE, v |-> 0, part |-> "empty", over |-> FALSE]

Whole == [NoListing EXCEPT !.on = TRUE, !.part = "whole"]

NoDb == [there |-> FALSE, lines |-> {}, mixed |-> FALSE]
NoIndex == [there |-> FALSE, lines |-> <<>>, glue |-> FALSE]

\* What gftp_request_destroy() leaves of a request, and of the window's list.
\* made: the version of each directory that the window's last change of it made.
\* crossed: an operation of the window was started inside another one of it, since the
\* request was blank.
Blank == [up |-> FALSE, cancel |-> FALSE, stopable |-> FALSE, named |-> FALSE, dir |-> NoDir,
          shown |-> Nothing, made |-> [d \in Dirs |-> 0], crossed |-> FALSE]

\* Logged in, with the listing of the first directory on the screen.
Open == [Blank EXCEPT !.up = TRUE, !.named = TRUE, !.dir = Home, !.shown = [dir |-> Home, v |-> 0]]

\* The start of the program, with no cache; or both windows logged in, and a
\* listing of every directory in the cache, so that the operations of a run are
\* those that come after.
BrowseInit ==
  /\ \/ win = [w \in Windows |-> Blank] /\ index = NoIndex /\ files = [f \in CacheFiles |-> NoListing]
     \/ /\ win = [w \in Windows |-> Open]
        /\ LET name == CHOOSE name \in [Dirs -> CacheFiles] : IsInjective(name)
           IN  /\ index = [NoIndex EXCEPT !.there = TRUE,
                           !.lines = SetToSeq({[dir |-> d, file |-> name[d]] : d \in Dirs})]
               /\ files = [f \in CacheFiles |-> IF f \in Range(name) THEN Whole ELSE NoListing]
  /\ stack = <<>>
  /\ newdb = NoDb
  /\ server = [d \in Dirs |-> 0]
  /\ stop_btn = FALSE
  /\ starts = 0
  /\ emptied = 0
  /\ told = [d \in Dirs |-> 0]

Other(w) == CHOOSE o \in Windows : o # w

\* What the thread of an operation does first.
FirstStep == [connect |-> "connect", change |-> "change", delete |-> "delete", chdir |-> "chdir", ls |-> "find"]

\* The callback data of an operation.
Frame(w, op, d) ==
  [w |-> w, op |-> op, dir |-> d, th |-> FirstStep[op], main |-> "loop",
   left |-> IF op = "connect" THEN Retries ELSE 0, ret |-> "retry", file |-> NoFile, got |-> Nothing]

Top == Len(stack)
FramesOf(w) == {i \in DOMAIN stack : stack[i].w = w}

\* The main thread is in a main loop: the outermost, or that of an operation.
Clickable == \A i \in DOMAIN stack : stack[i].main = "loop"

(***************************************************************************)
(* The cache                                                               *)
(***************************************************************************)

\* gftp_find_cache_entry(): the first line of the directory counts, and no
\* other when its file is gone or empty.
Found(d) ==
  LET first == {i \in DOMAIN index.lines :
                  index.lines[i].dir = d /\ \A j \in 1..i - 1 : index.lines[j].dir # d}
      usable == {f \in CacheFiles : /\ files[f].on /\ files[f].part # "empty"
                                   /\ \E i \in first : index.lines[i].file = f}
  IN  IF usable = {} THEN NoFile ELSE CHOOSE f \in usable : TRUE

\* A name nothing refers to.
FreeFiles ==
  CacheFiles \ ({l.file : l \in ToSet(index.lines) \union newdb.lines} \union {stack[i].file : i \in DOMAIN stack})

\* mkstemp(): which of them it takes makes no difference.
NewFile == CHOOSE c \in FreeFiles : TRUE

\* gftp_new_cache_entry(): a line, and an empty file.  After the damaged end of
\* a purged index the line is part of that end, and nobody can read it.
AddLine(d, f) ==
  /\ index' = [there |-> TRUE, glue |-> FALSE,
               lines |-> IF index.glue THEN index.lines ELSE Append(index.lines, [dir |-> d, file |-> f])]
  /\ files' = [files EXCEPT ![f] = [NoListing EXCEPT !.on = TRUE]]

\* The lines a purge of the window's directory, or of its whole site, is about.
Doomed(w, whole) ==
  {l \in ToSet(index.lines) : IF whole THEN win[w].named ELSE l.dir = win[w].dir}

\* Mutant: the purge drops the line and leaves the file.
PurgeKeepsFiles(lines) == files

\* unlink(): a file that is open stays until it is closed.
Unlinked(lines) ==
  [f \in CacheFiles |->
     CASE \A l \in lines : l.file # f -> files[f]
       [] (\E l \in lines : l.file = f) /\ (\E i \in DOMAIN stack : stack[i].file = f) -> [files[f] EXCEPT !.on = FALSE]
       [] OTHER -> NoListing]

\* gftp_delete_cache_entry(), the loop: the files of the doomed lines go, the
\* other lines go to index.db.new.  It is opened without O_TRUNC or O_EXCL, so
\* two purges write over each other.
PurgeRead(w, whole) ==
  LET doomed == Doomed(w, whole)
  IN  /\ files' = Unlinked(doomed)
      /\ newdb' = [there |-> TRUE, lines |-> newdb.lines \union (ToSet(index.lines) \ doomed),
                   mixed |-> newdb.there]
      /\ told' = [d \in Dirs |-> IF (IF whole THEN win[w].named ELSE d = win[w].dir) THEN server[d] ELSE told[d]]

\* gftp_delete_cache_entry(), the end: unlink() and rename().  A line that was
\* kept has lost its newline and the last digit of its date, "buf[len--]", so
\* that all of them are one line of the past; where two purges wrote over each
\* other one line can have come out whole.  Of two purges that shared the new
\* file the second only removes what the first has put in place.
PurgeSwap ==
  /\ newdb' = NoDb
  /\ IF newdb.there
     THEN \E whole \in {{}} \union (IF newdb.mixed THEN {{l} : l \in newdb.lines} ELSE {}) :
            index' = [there |-> TRUE, lines |-> SetToSeq(whole), glue |-> newdb.lines # {}]
     ELSE index' = NoIndex

(***************************************************************************)
(* The thread of an operation: _gftpui_common_thread_callback()            *)
(***************************************************************************)

Settled == {"ok", "fatal", "listed"}

\* Mutant: one attempt more than "retries" says.
OneTooMany(f, r, ret) == r.cancel \/ ret \in Settled \/ f.left < 0

\* An attempt has returned: stop, or wait and try again.
LastAttempt(f, r, ret) == r.cancel \/ ret \in Settled \/ f.left = 0

Attempted(i, f, r, ret) ==
  IF LastAttempt(f, r, ret)
  THEN /\ stack' = [stack EXCEPT ![i] = [f EXCEPT !.th = "ended", !.ret = ret]]
       /\ win' = [win EXCEPT ![f.w] = [r EXCEPT !.stopable = FALSE]]
  ELSE /\ stack' = [stack EXCEPT ![i] = [f EXCEPT !.th = FirstStep[f.op], !.left = @ - 1]]
       /\ win' = [win EXCEPT ![f.w] = r]

\* while (!cancel): the thread stands before an attempt, and a cancelled
\* operation is not even attempted.

Attempts(i, step) == stack[i].th = step /\ ~win[stack[i].w].cancel

\* Mutant: an operation that is cancelled returns without clearing stopable.
StaysStopable(i) ==
  LET f == stack[i]
  IN  /\ f.op \in DOMAIN FirstStep /\ f.th = FirstStep[f.op] /\ win[f.w].cancel
      /\ stack' = [stack EXCEPT ![i].th = "ended"]
      /\ UNCHANGED <<win, index, newdb, files, server, stop_btn, starts, emptied, told>>

Cancelled(i) ==
  LET f == stack[i]
  IN  /\ f.op \in DOMAIN FirstStep /\ f.th = FirstStep[f.op] /\ win[f.w].cancel
      /\ stack' = [stack EXCEPT ![i].th = "ended"]
      /\ win' = [win EXCEPT ![f.w].stopable = FALSE]
      /\ UNCHANGED <<index, newdb, files, server, stop_btn, starts, emptied, told>>

Lost(r) == [r EXCEPT !.up = FALSE]

\* gftp_connect()
Connecting(i) ==
  LET f == stack[i]
      r == win[f.w]
  IN  /\ Attempts(i, "connect")
      /\ \/ Attempted(i, f, [r EXCEPT !.up = TRUE], "ok")
         \/ \E ret \in {"retry", "fatal"} : Attempted(i, f, r, ret)
      /\ UNCHANGED <<index, newdb, files, server, stop_btn, starts, emptied, told>>

\* The server changes the directory of window w.
Changed(w) ==
  LET d == win[w].dir
  IN  server[d] < MaxChanges /\ server' = [server EXCEPT ![d] = @ + 1]

Made(w) == [win[w] EXCEPT !.made[win[w].dir] = server[win[w].dir] + 1]

\* gftp_make_directory(), gftp_rename_file(), gftp_chmod(), gftp_site_cmd():
\* done, refused, or the connection is lost before or after it was done.
Changing(i) ==
  LET f == stack[i]
      r == win[f.w]
  IN  /\ Attempts(i, "change")
      /\ \/ Changed(f.w) /\ Attempted(i, f, Made(f.w), "ok")
         \/ Changed(f.w) /\ Attempted(i, f, Lost(r), "retry")
         \/ UNCHANGED server /\ Attempted(i, f, Lost(r), "retry")
         \/ UNCHANGED server /\ Attempted(i, f, r, "fatal")
      /\ UNCHANGED <<index, newdb, files, stop_btn, starts, emptied, told>>

\* gftpui_common_run_delete(), the loop over the files: all removed; some, and
\* the rest refused or the connection lost; none.
Deleting(i) ==
  LET f == stack[i]
      r == win[f.w]
      Then(ret) == stack' = [stack EXCEPT ![i].th = "purge", ![i].ret = ret]
  IN  /\ Attempts(i, "delete")
      /\ \/ Changed(f.w) /\ Then("ok") /\ win' = [win EXCEPT ![f.w] = Made(f.w)]
         \/ Changed(f.w) /\ Then("fatal") /\ UNCHANGED win
         \/ Changed(f.w) /\ Then("retry") /\ win' = [win EXCEPT ![f.w] = Lost(r)]
         \/ Changed(f.w) /\ Attempted(i, f, Lost(r), "retry")
         \/ UNCHANGED server /\ Attempted(i, f, Lost(r), "retry")
         \/ UNCHANGED server /\ Attempted(i, f, r, "fatal")
      /\ UNCHANGED <<index, newdb, files, stop_btn, starts, emptied, told>>

\* gftpui_common_run_delete(), the end: the thread purges the directory it has changed.
DeletePurges(i) ==
  LET f == stack[i]
  IN  /\ f.th = "purge"
      /\ IF index.there
         THEN PurgeRead(f.w, FALSE) /\ stack' = [stack EXCEPT ![i].th = "swap"] /\ UNCHANGED win
         ELSE Attempted(i, f, win[f.w], f.ret) /\ UNCHANGED <<files, newdb, told>>
      /\ UNCHANGED <<index, server, stop_btn, starts, emptied>>

DeleteSwaps(i) ==
  LET f == stack[i]
  IN  /\ f.th = "swap"
      /\ PurgeSwap
      /\ Attempted(i, f, win[f.w], f.ret)
      /\ UNCHANGED <<files, server, stop_btn, starts, emptied, told>>

\* gftp_set_directory(): a request without a connection just takes the directory.
Chdir(i) ==
  LET f == stack[i]
      r == win[f.w]
  IN  /\ Attempts(i, "chdir")
      /\ \/ Attempted(i, f, [r EXCEPT !.dir = f.dir], "ok")
         \/ r.up /\ \E ret \in {"fatal", "retry"} : Attempted(i, f, [r EXCEPT !.up = ret = "fatal"], ret)
      /\ UNCHANGED <<index, newdb, files, server, stop_btn, starts, emptied, told>>

\* gftp_list_files(): from the cache, or a new entry of the cache.
Find(i) ==
  LET f == stack[i]
      c == Found(win[f.w].dir)
  IN  /\ Attempts(i, "find")
      /\ stack' = [stack EXCEPT ![i].th = IF c = NoFile THEN "enter" ELSE "read", ![i].file = c]
      /\ UNCHANGED <<win, index, newdb, files, server, stop_btn, starts, emptied, told>>

Enter(i) ==
  LET f == stack[i]
  IN  /\ f.th = "enter"
      /\ \/ /\ FreeFiles # {}
            /\ AddLine(win[f.w].dir, NewFile)
            /\ stack' = [stack EXCEPT ![i].th = "list", ![i].file = NewFile]
         \/ stack' = [stack EXCEPT ![i].th = "list"] /\ UNCHANGED <<index, files>>
      /\ UNCHANGED <<win, newdb, server, stop_btn, starts, emptied, told>>

Written(f, part, v) ==
  files' = IF f.file = NoFile THEN files ELSE [files EXCEPT ![f.file].part = part, ![f.file].v = v]

\* request->list_files() and gftp_get_next_file(): the server reads the
\* directory, and each entry that comes is written to the cache too; or it
\* refuses.  On an error gftpui_common_run_ls() returns without
\* gftp_end_transfer().
List(i) ==
  LET f == stack[i]
      r == win[f.w]
  IN  /\ f.th = "list"
      /\ \/ /\ stack' = [stack EXCEPT ![i].th = "fill", ![i].got = [dir |-> r.dir, v |-> server[r.dir]]]
            /\ Written(f, "part", server[r.dir])
            /\ UNCHANGED win
         \/ UNCHANGED files /\ Attempted(i, f, r, "fatal")
         \/ UNCHANGED files /\ Attempted(i, f, Lost(r), "retry")
      /\ UNCHANGED <<index, newdb, server, stop_btn, starts, emptied, told>>

\* The end of gftpui_common_run_ls(): the listing is whole, or is short because
\* the data connection has ended early or the file could not be written, or the
\* connection is lost.  It returns 1 in every case.
Filled(i) ==
  LET f == stack[i]
      r == win[f.w]
  IN  /\ f.th = "fill"
      /\ \/ \E part \in {"whole", "short"} : Written(f, part, f.got.v) /\ Attempted(i, f, r, "listed")
         \/ UNCHANGED files /\ Attempted(i, f, Lost(r), "listed")
      /\ UNCHANGED <<index, newdb, server, stop_btn, starts, emptied, told>>

\* The listing of the cache, also one that is still being written.
ReadCache(i) ==
  LET f == stack[i]
      r == win[f.w]
      g == [f EXCEPT !.got = [dir |-> r.dir, v |-> files[f.file].v]]
  IN  /\ f.th = "read"
      /\ Attempted(i, g, r, "listed")
      /\ UNCHANGED <<index, newdb, files, server, stop_btn, starts, emptied, told>>

Thread(i) ==
  /\ i \in DOMAIN stack
  /\ \/ Cancelled(i) \/ Connecting(i) \/ Changing(i) \/ Deleting(i) \/ DeletePurges(i) \/ DeleteSwaps(i)
     \/ Chdir(i) \/ Find(i) \/ Enter(i) \/ List(i) \/ Filled(i) \/ ReadCache(i)

(***************************************************************************)
(* The main thread in the innermost operation                              *)
(***************************************************************************)

Return == stack' = Front(stack)

\* ftp_list_files() in the place k of the stack.
StartList(k, w, r) ==
  /\ stack' = SubSeq(stack, 1, k - 1) \o <<Frame(w, "ls", NoDir)>>
  /\ win' = [win EXCEPT ![w] = [r EXCEPT !.stopable = TRUE]]
  /\ stop_btn' = TRUE

\* Mutant: the listing after a change comes from the cache.
ChangeKeepsCache(op) == op \in {"chdir", "change"}

\* gftpui_refresh() after gftpui_run_callback_function(): dont_clear_cache is
\* set by chdir alone.
KeepsCache(op) == op = "chdir"

\* gftpui_common_run_callback_function() and ftp_list_files() after the thread.
Resume(f) ==
  LET w == f.w
      r == win[w]
  IN  CASE f.op = "ls" /\ f.got # Nothing ->
             Return /\ win' = [win EXCEPT ![w].shown = f.got] /\ stop_btn' = FALSE
        [] f.op = "ls" /\ f.got = Nothing ->
             stack' = [stack EXCEPT ![Top].main = "drop"] /\ stop_btn' = FALSE /\ UNCHANGED win
        [] f.op # "ls" /\ f.ret = "ok" /\ KeepsCache(f.op) ->
             StartList(Top, w, [r EXCEPT !.shown = Nothing])
        [] f.op # "ls" /\ f.ret = "ok" /\ ~KeepsCache(f.op) ->
             stack' = [stack EXCEPT ![Top].main = "clear"] /\ stop_btn' = FALSE /\ UNCHANGED win
        [] OTHER -> Return /\ stop_btn' = FALSE /\ UNCHANGED win

\* Mutant: a lost connection is not looked for.
JoinUnlooked ==
  /\ stack # <<>>
  /\ LET f == stack[Top]
     IN  f.main = "loop" /\ f.th = "ended" /\ ~win[f.w].stopable /\ Resume(f)
  /\ UNCHANGED <<index, newdb, files, server, starts, emptied, told>>

\* gftpui_generic_thread() leaves its loop.
Join ==
  /\ stack # <<>>
  /\ LET f == stack[Top]
     IN  /\ f.main = "loop" /\ f.th = "ended" /\ ~win[f.w].stopable
         /\ IF win[f.w].up THEN Resume(f)
            ELSE stack' = [stack EXCEPT ![Top].main = "lost"] /\ stop_btn' = FALSE /\ UNCHANGED win
  /\ UNCHANGED <<index, newdb, files, server, starts, emptied, told>>

\* gftpui_disconnect(), the purge of the site.  ftp_list_files() calls it once
\* more, for a request that names no site any longer.
DropReads ==
  /\ stack # <<>>
  /\ stack[Top].main \in {"lost", "drop"}
  /\ index.there
  /\ PurgeRead(stack[Top].w, TRUE)
  /\ stack' = [stack EXCEPT ![Top].main = IF @ = "lost" THEN "lost_swap" ELSE "drop_swap"]
  /\ UNCHANGED <<win, index, server, stop_btn, starts, emptied>>

Drops ==
  /\ stack # <<>>
  /\ LET f == stack[Top]
     IN  /\ \/ f.main \in {"lost_swap", "drop_swap"} /\ PurgeSwap
            \/ f.main \in {"lost", "drop"} /\ ~index.there /\ UNCHANGED <<index, newdb>>
         /\ win' = [win EXCEPT ![f.w] = Blank]
         /\ IF f.op = "ls" /\ f.main \in {"lost", "lost_swap"}
            THEN stack' = [stack EXCEPT ![Top].main = "drop"] ELSE Return
  /\ UNCHANGED <<files, server, stop_btn, starts, emptied, told>>

\* gftpui_refresh(): the purge of the directory, and the new listing.
ClearReads ==
  /\ stack # <<>>
  /\ stack[Top].main = "clear"
  /\ index.there
  /\ PurgeRead(stack[Top].w, FALSE)
  /\ stack' = [stack EXCEPT ![Top].main = "clear_swap"]
  /\ UNCHANGED <<win, index, server, stop_btn, starts, emptied>>

Relist ==
  /\ stack # <<>>
  /\ LET f == stack[Top]
     IN  /\ \/ f.main = "clear_swap" /\ PurgeSwap
            \/ f.main = "clear" /\ ~index.there /\ UNCHANGED <<index, newdb>>
         /\ StartList(Top, f.w, [win[f.w] EXCEPT !.shown = Nothing])
  /\ UNCHANGED <<files, server, starts, emptied, told>>

Main == Join \/ DropReads \/ Drops \/ ClearReads \/ Relist

(***************************************************************************)
(* The user                                                                *)
(***************************************************************************)

\* Mutant: only the other window is asked about.
AsksOther(w, check_other_stop) == (check_other_stop => ~win[Other(w)].stopable) /\ win[w].up

\* check_status(): the window is idle and connected, and the other one idle
\* where the caller asks for it.
check_status(w, check_other_stop) ==
  /\ ~win[w].stopable
  /\ check_other_stop => ~win[Other(w)].stopable
  /\ win[w].up

\* A half written listing of a window that starts something else is its own no more.
Begin(frame, r) ==
  LET w == frame.w
  IN  /\ Clickable /\ starts < MaxStarts /\ Top < MaxDepth
      /\ starts' = starts + 1
      /\ stack' = Append(stack, frame)
      /\ win' = [win EXCEPT ![w] = [r EXCEPT !.crossed = @ \/ FramesOf(w) # {}]]
      /\ files' = [f \in CacheFiles |->
                     IF \E i \in FramesOf(w) : stack[i].file = f
                     THEN [files[f] EXCEPT !.over = TRUE] ELSE files[f]]
      /\ UNCHANGED <<index, newdb, server, emptied, told>>

\* gftpui_generic_thread() starts the thread.
BeginThread(w, op, d, r) ==
  Begin(Frame(w, op, d), [r EXCEPT !.stopable = TRUE]) /\ stop_btn' = TRUE

\* gftpui_refresh() and gftpui_disconnect() begin in the main thread.
BeginMain(w, op, at) ==
  Begin([Frame(w, "change", NoDir) EXCEPT !.op = op, !.th = "ended", !.main = at], win[w]) /\ UNCHANGED stop_btn

\* toolbar_hostedit(): gftp_disconnect(), which purges nothing and leaves the
\* list and "cancel", then the login.
Connect(w) ==
  /\ ~win[w].stopable
  /\ BeginThread(w, "connect", NoDir, [win[w] EXCEPT !.up = FALSE, !.named = TRUE, !.dir = Home])

\* Mkdir, Rename and Chmod; and SITE, which does not ask about the other window.
Change(w) == check_status(w, TRUE) /\ BeginThread(w, "change", NoDir, win[w])
Site(w) == check_status(w, FALSE) /\ BeginThread(w, "change", NoDir, win[w])

Delete(w) == check_status(w, TRUE) /\ win[w].shown # Nothing /\ BeginThread(w, "delete", NoDir, win[w])

ChangeDirectory(w, d) == check_status(w, TRUE) /\ BeginThread(w, "chdir", d, win[w])

\* list_doaction(): a double click on a directory asks nobody.  In a busy window
\* it starts a second thread on the request, ui_disconnect() destroys the request
\* under its thread, and gftpui_refresh() writes "refreshing", in the byte of
\* stopable, before it looks: bound, a busy window gets none of the three clicks.
DoubleClick(w, d) ==
  /\ win[w].shown.dir \notin {NoDir, d} /\ ~win[w].stopable
  /\ BeginThread(w, "chdir", d, win[w])

Refresh(w) == check_status(w, FALSE) /\ BeginMain(w, "refresh", "clear")

\* ui_disconnect()
Disconnect(w) == win[w].up /\ ~win[w].stopable /\ BeginMain(w, "disconnect", "drop")

\* stop_button().  cancel shares a byte with "cached", which the thread of a
\* listing writes first of all: its store can undo this one.
Stop ==
  /\ Clickable /\ stop_btn
  /\ \E undone \in SUBSET {w \in Windows : \E i \in FramesOf(w) : stack[i].th = "find"} :
       win' = [w \in Windows |-> IF w \in undone THEN win[w] ELSE [win[w] EXCEPT !.cancel = TRUE]]
  /\ UNCHANGED <<stack, index, newdb, files, server, stop_btn, starts, emptied, told>>

Empties == emptied < MaxEmptied /\ emptied' = emptied + 1

\* clear_cache()
ClearCache ==
  /\ Clickable /\ index.there
  /\ files' = Unlinked(ToSet(index.lines))
  /\ index' = NoIndex
  /\ Empties
  /\ UNCHANGED <<win, stack, newdb, server, stop_btn, starts, told>>

\* The oldest line is past its date, "cache_ttl" seconds after it was written:
\* nobody takes it any more, and the next purge removes its file.
Expire ==
  /\ index.lines # <<>>
  /\ index' = [index EXCEPT !.lines = Tail(@)]
  /\ files' = Unlinked({Head(index.lines)})
  /\ Empties
  /\ UNCHANGED <<win, stack, newdb, server, stop_btn, starts, told>>

User ==
  \/ \E w \in Windows :
       \/ Connect(w) \/ Change(w) \/ Site(w) \/ Delete(w) \/ Refresh(w) \/ Disconnect(w)
       \/ \E d \in Dirs : ChangeDirectory(w, d) \/ DoubleClick(w, d)
  \/ Stop \/ ClearCache \/ Expire

System == Main \/ \E i \in 1..MaxDepth : Thread(i)

BrowseNext == System \/ User

\* Every request ends or runs into network_timeout, and the main loop runs; which
\* of them goes first is left open.
BrowseFairness == WF_browseVars(System)

BrowseSpec == BrowseInit /\ [][BrowseNext]_browseVars /\ BrowseFairness

(***************************************************************************)
(* Properties                                                              *)
(***************************************************************************)

\* The state is what the variables' comments say, nothing waits under a main
\* thread that is busy, and no operation has been tried more often than the
\* option "retries" allows: the counting of _gftpui_common_thread_callback().
BrowseTypeOK ==
  /\ win \in [Windows -> [up : BOOLEAN, cancel : BOOLEAN, stopable : BOOLEAN, named : BOOLEAN,
                          crossed : BOOLEAN, dir : Dirs \union {NoDir},
                          shown : [dir : Dirs \union {NoDir}, v : 0..MaxChanges],
                          made : [Dirs -> 0..MaxChanges]]]
  /\ \A i \in DOMAIN stack :
       /\ stack[i].left \in 0..Retries
       /\ stack[i].th \in {"connect", "change", "delete", "purge", "swap", "chdir", "find", "enter",
                          "list", "fill", "read", "ended"}
       /\ stack[i].main \in {"loop", "lost", "lost_swap", "drop", "drop_swap", "clear", "clear_swap"}
       /\ stack[i].main # "loop" => i = Top
  /\ \A f \in CacheFiles : files[f].part \in {"empty", "part", "short", "whole"}

\* A listing that gftp_find_cache_entry() takes from the cache is not older
\* than the directory was when it was last purged, by either window: also when
\* the purge runs beside the look-up, or beside another purge.
CacheIsFresh ==
  [][\A i \in DOMAIN stack \intersect DOMAIN stack' :
       stack[i].th = "find" /\ stack'[i].th = "read"
         => files[stack'[i].file].v >= told[win[stack[i].w].dir]]_browseVars

\* A half written listing can be found in the cache only while the operation
\* that writes it is on the stack, or while its window has gone on without it:
\* a connection that is lost in the middle takes the listings of the site out
\* of the cache, gftpui_generic_thread().
HalfIsTemporary ==
  \A l \in ToSet(index.lines) :
    files[l.file].on /\ files[l.file].part = "part" /\ ~files[l.file].over
      => \E i \in DOMAIN stack : stack[i].file = l.file

\* One thread at a time works on the request of a window, and "stopable" is 1
\* just as long: what check_status() and the loop of gftpui_generic_thread()
\* rely on.
OneThreadPerRequest ==
  \A w \in Windows :
    LET running == {i \in FramesOf(w) : stack[i].th # "ended"}
    IN  Cardinality(running) <= 1 /\ (win[w].stopable <=> running # {})

\* A connected window at rest shows the directory its request is in, with all
\* the changes the window itself has made there, unless its operations have
\* been started inside each other: gftpui_run_callback_function() refreshes
\* after each of them, from the server after a change.
ShowsOwnWork ==
  \A w \in Windows :
    FramesOf(w) = {} /\ win[w].up /\ ~win[w].crossed
      => win[w].shown.dir = win[w].dir /\ win[w].shown.v >= win[w].made[win[w].dir]

\* The user gets the outermost main loop back: however operations nest, are
\* stopped, fail or lose their connection, each of them returns.
OperationsEnd == stack # <<>> ~> stack = <<>>
=============================================================================
