---------------------------- MODULE BrowseProofs ----------------------------
(***************************************************************************)
(* Proofs about Browse, for any number of directories, of files in the     *)
(* cache and of operations nested in each other: one thread at a time      *)
(* works on a request, half a listing does not stay in the cache, a        *)
(* listing taken from the cache is no older than the last purge of its     *)
(* directory, and a window at rest shows what its user has done.           *)
(***************************************************************************)
EXTENDS Browse, SequenceTheorems, FiniteSetTheorems, TLAPS

(***************************************************************************)
(* The inductive invariant                                                 *)
(***************************************************************************)

Listing == [dir : Dirs \cup {NoDir}, v : 0..MaxChanges]
WinType ==
  [up : BOOLEAN, cancel : BOOLEAN, stopable : BOOLEAN, named : BOOLEAN, crossed : BOOLEAN,
   dir : Dirs \cup {NoDir}, shown : Listing, made : [Dirs -> 0..MaxChanges]]
Ops == {"connect", "change", "delete", "chdir", "ls", "refresh", "disconnect"}
ThreadSteps ==
  {"connect", "change", "delete", "purge", "swap", "chdir", "find", "enter", "list", "fill", "read"}
MainSteps == {"loop", "lost", "lost_swap", "drop", "drop_swap", "clear", "clear_swap"}

\* The steps of the thread of an operation; a refresh and a disconnect have no thread.
StepsOf ==
  [connect |-> {"connect"}, change |-> {"change"}, delete |-> {"delete", "purge", "swap"}, chdir |-> {"chdir"},
   ls |-> {"find", "enter", "list", "fill", "read"}, refresh |-> {}, disconnect |-> {}]
FrameType ==
  {f \in [w : Windows, op : Ops, dir : Dirs \cup {NoDir}, th : ThreadSteps \cup {"ended"}, main : MainSteps,
          left : 0..Retries, ret : {"retry", "fatal", "ok", "listed"}, file : CacheFiles \cup {NoFile},
          got : Listing] : f.th = "ended" \/ f.th \in StepsOf[f.op]}
LineType == [dir : Dirs, file : CacheFiles]
FileType == [on : BOOLEAN, v : 0..MaxChanges, part : {"empty", "part", "short", "whole"}, over : BOOLEAN]
Lines == ToSet(index.lines)

StackType == win \in [Windows -> WinType] /\ stack \in Seq(FrameType)
CacheType ==
  /\ index \in [there : BOOLEAN, lines : Seq(LineType), glue : BOOLEAN]
  /\ newdb \in [there : BOOLEAN, lines : SUBSET LineType, mixed : BOOLEAN]
  /\ files \in [CacheFiles -> FileType]
ServerType == server \in [Dirs -> 0..MaxChanges] /\ told \in [Dirs -> 0..MaxChanges]

\* A request that is connected, or shows something, knows its site, and is in a directory.
RequestOk(r) ==
  /\ r.up => r.named
  /\ r.named => r.dir \in Dirs
  /\ r.shown.dir # NoDir => r.named

\* While a thread runs the main thread of its operation is in its loop.
FrameOk(f, r) ==
  /\ f.th # "ended" => r.named /\ f.main = "loop"
  /\ f.op = "chdir" => f.dir \in Dirs
  /\ f.op \in {"refresh", "disconnect"} => f.main # "loop"
  /\ f.main \in {"clear", "clear_swap"} => r.up
  /\ f.th = "read" => f.file \in CacheFiles
  /\ f.th = "enter" => f.file = NoFile
  /\ f.th \notin {"purge", "swap", "ended"} => f.ret = "retry"

\* An operation starts in a window only when the earlier ones of the window have no thread
\* any more; "stopable" tells whether there is one.
StackInv ==
  /\ \A w \in Windows : RequestOk(win[w])
  /\ \A i \in DOMAIN stack : FrameOk(stack[i], win[stack[i].w])
  /\ \A i \in DOMAIN stack : stack[i].main # "loop" => i = Top
  /\ \A i, j \in DOMAIN stack : i < j /\ stack[i].w = stack[j].w => stack[i].th = "ended"
  /\ \A w \in Windows : win[w].stopable <=> \E i \in DOMAIN stack : stack[i].w = w /\ stack[i].th # "ended"

\* What a purge keeps is still in the index, or has lost its file.
CacheInv ==
  /\ ~index.there => index.lines = <<>>
  /\ \A l \in newdb.lines : l \in Lines \/ ~files[l.file].on

\* The operation i will see to the half written file f: its thread writes it, or has ended
\* without a connection, and its main thread will purge the site.
Holds(i, f) ==
  /\ stack[i].file = f
  /\ \/ stack[i].th = "fill"
     \/ /\ stack[i].th = "ended" /\ ~win[stack[i].w].up /\ win[stack[i].w].named
        /\ stack[i].main \in {"loop", "lost"}
        /\ \A j \in DOMAIN stack : stack[j].w = stack[i].w => j <= i
Half(f) == files[f].on /\ files[f].part = "part" /\ ~files[f].over
HalfInv == \A l \in Lines : Half(l.file) => \E i \in DOMAIN stack : Holds(i, l.file)

\* gftp_find_cache_entry() can take the file.
Usable(f) == files[f].on /\ files[f].part # "empty"

\* The threads that write listings write different files, each of the directory its request
\* is in.
Writing(i) == stack[i].th \in {"list", "fill"} /\ stack[i].file # NoFile
WriterOk(i) ==
  LET f == stack[i]
  IN  /\ Writing(i) => \A l \in Lines \cup newdb.lines : l.file = f.file => l.dir = win[f.w].dir
      /\ Writing(i) /\ f.th = "list" => files[f.file].part = "empty"
      /\ Writing(i) /\ f.th = "fill" => files[f.file].part = "part" /\ files[f.file].v = f.got.v
      /\ f.th = "fill" => f.got.dir = win[f.w].dir
      /\ f.th = "read" => files[f.file].part # "empty"
WriterInv ==
  /\ \A i \in DOMAIN stack : WriterOk(i)
  /\ \A i, j \in DOMAIN stack : Writing(i) /\ Writing(j) /\ stack[i].file = stack[j].file => i = j

\* Nobody knows a version that the server has not had, and no listing of the cache is older
\* than the last purge of its directory.
ServerInv ==
  /\ \A d \in Dirs : told[d] <= server[d]
  /\ \A w \in Windows, d \in Dirs : win[w].made[d] <= server[d]
FreshInv == \A l \in Lines : Usable(l.file) => files[l.file].v >= told[l.dir]

\* A window whose operations have not been started inside each other: what it has changed is
\* not in the cache any more, or the operation that has changed it has the purge before it;
\* and the listing its operation brings, or else the one on the screen, has all of it.
Pending(f) == f.op \in {"change", "delete"} /\ f.ret = "ok" /\ f.main # "clear_swap"
Leaves(f) == f.op \notin {"ls", "refresh", "disconnect"} /\ f.ret # "ok"
Shows(x, r) == x.dir = r.dir /\ x.v >= r.made[r.dir]
FrameShows(f, r) ==
  /\ f.op = "ls" /\ r.up /\ f.got # Nothing => Shows(f.got, r)
  /\ f.th = "read" => files[f.file].v >= r.made[r.dir]
Own(w) ==
  LET r == win[w]
  IN  /\ r.up \/ r.stopable => \A i, j \in DOMAIN stack : stack[i].w = w /\ stack[j].w = w => i = j
      /\ \A l \in Lines : Usable(l.file) =>
           \/ files[l.file].v >= r.made[l.dir]
           \/ l.dir = r.dir /\ \E i \in DOMAIN stack : stack[i].w = w /\ Pending(stack[i])
      /\ \A i \in DOMAIN stack : stack[i].w = w => FrameShows(stack[i], r)
      /\ r.up /\ (\A i \in DOMAIN stack : stack[i].w = w => Leaves(stack[i])) => Shows(r.shown, r)
OwnInv == \A w \in Windows : ~win[w].crossed => Own(w)

BrowseInv ==
  /\ StackType /\ CacheType /\ ServerType
  /\ StackInv /\ CacheInv /\ HalfInv /\ WriterInv /\ ServerInv /\ FreshInv /\ OwnInv

-----------------------------------------------------------------------------
(* How a step moves the stack and the request of one window. *)

\* The thread k, or the main thread in the innermost operation, makes the operation g and its
\* request r.
Moves(k, g, r) ==
  /\ k \in DOMAIN stack /\ (stack[k].th # "ended" \/ k = Top)
  /\ g \in FrameType /\ g.w = stack[k].w /\ (g.main # "loop" => k = Top)
  /\ r \in WinType /\ RequestOk(r) /\ FrameOk(g, r) /\ (r.stopable <=> g.th # "ended")
  /\ stack' = [stack EXCEPT ![k] = g]
  /\ win' = [win EXCEPT ![stack[k].w] = r]

\* The innermost operation returns, and leaves its request as r.
Pops(r) ==
  /\ stack # <<>> /\ stack[Top].th = "ended"
  /\ r \in WinType /\ RequestOk(r) /\ ~r.stopable
  /\ stack' = Front(stack)
  /\ win' = [win EXCEPT ![stack[Top].w] = r]

\* The user starts the operation g, with the request r.
Pushes(g, r) ==
  /\ Clickable /\ g \in FrameType /\ ~win[g.w].stopable
  /\ r \in WinType /\ RequestOk(r) /\ FrameOk(g, r) /\ (r.stopable <=> g.th # "ended")
  /\ stack' = Append(stack, g)
  /\ win' = [win EXCEPT ![g.w] = r]

\* The stack of operations has frames of the two windows in it.
LEMMA StackFacts ==
  ASSUME StackType
  PROVE  /\ Top \in Nat /\ DOMAIN stack = 1..Top
         /\ \A i \in DOMAIN stack : stack[i] \in FrameType /\ stack[i].w \in Windows
         /\ stack # <<>> => Top \in DOMAIN stack
<1>1. Top \in Nat /\ DOMAIN stack = 1..Top
  BY LenProperties DEF StackType, Top
<1>2. \A i \in DOMAIN stack : stack[i] \in FrameType
  BY <1>1, ElementOfSeq DEF StackType, Top
<1>3. \A f \in FrameType : f.w \in Windows
  BY DEF FrameType
<1>4. stack # <<>> => Top # 0
  BY EmptySeq DEF StackType, Top
<1> QED
  BY <1>1, <1>2, <1>3, <1>4

\* The other operations of the window of a step lie below, and have no thread.
LEMMA OthersRest ==
  ASSUME StackType, StackInv, NEW k \in DOMAIN stack, stack[k].th # "ended" \/ k = Top,
         NEW j \in DOMAIN stack, j # k, stack[j].w = stack[k].w
  PROVE  j < k /\ stack[j].th = "ended" /\ stack[j].main = "loop"
<1>1. Top \in Nat /\ DOMAIN stack = 1..Top
  BY StackFacts
<1>2. j < k
  <2>1. CASE k = Top
    BY <2>1, <1>1
  <2>2. CASE stack[k].th # "ended"
    <3>1. ~(k < j)
      BY <2>2 DEF StackInv
    <3> QED
      BY <3>1, <1>1
  <2> QED
    BY <2>1, <2>2
<1>3. stack[j].th = "ended"
  BY <1>2 DEF StackInv
<1>4. j # Top
  BY <1>1, <1>2
<1> QED
  BY <1>2, <1>3, <1>4 DEF StackInv

\* A step of the operation k leaves the other operations and the other window alone,
LEMMA MovesFacts ==
  ASSUME StackType, NEW k, NEW g, NEW r, Moves(k, g, r)
  PROVE  /\ StackType' /\ DOMAIN stack' = DOMAIN stack /\ Top' = Top
         /\ stack'[k] = g
         /\ \A j \in DOMAIN stack : j # k => stack'[j] = stack[j]
         /\ \A j \in DOMAIN stack : stack'[j].w = stack[j].w
         /\ stack[k].w \in Windows /\ win'[stack[k].w] = r
         /\ \A w \in Windows : w # stack[k].w => win'[w] = win[w]
<1>1. k \in 1..Len(stack) /\ DOMAIN stack = 1..Len(stack)
  BY StackFacts DEF Moves, Top
<1>2. /\ stack' \in Seq(FrameType) /\ Len(stack') = Len(stack)
      /\ \A j \in 1..Len(stack) : stack'[j] = IF j = k THEN g ELSE stack[j]
  BY <1>1, ExceptSeq DEF Moves, StackType
<1>3. DOMAIN stack' = 1..Len(stack')
  BY <1>2, LenProperties
<1>4. stack[k].w \in Windows
  BY StackFacts DEF Moves
<1>5. /\ win' \in [Windows -> WinType] /\ win'[stack[k].w] = r
      /\ \A w \in Windows : w # stack[k].w => win'[w] = win[w]
  BY <1>4 DEF Moves, StackType
<1>6. g.w = stack[k].w
  BY DEF Moves
<1> QED
  BY <1>1, <1>2, <1>3, <1>4, <1>5, <1>6 DEF StackType, Top

\* and the operations of one window stay in each other.
LEMMA MovesStack ==
  ASSUME StackType, StackInv, NEW k, NEW g, NEW r, Moves(k, g, r)
  PROVE  StackInv'
<1> DEFINE v == stack[k].w
<1>1. /\ DOMAIN stack' = DOMAIN stack /\ Top' = Top /\ stack'[k] = g
      /\ \A j \in DOMAIN stack : j # k => stack'[j] = stack[j]
      /\ \A j \in DOMAIN stack : stack'[j].w = stack[j].w
      /\ v \in Windows /\ win'[v] = r
      /\ \A w \in Windows : w # v => win'[w] = win[w]
  BY MovesFacts
<1>2. /\ k \in DOMAIN stack /\ g.w = v /\ (g.main # "loop" => k = Top)
      /\ RequestOk(r) /\ FrameOk(g, r) /\ (r.stopable <=> g.th # "ended")
  BY DEF Moves
<1>3. \A j \in DOMAIN stack : j # k /\ stack[j].w = v => j < k /\ stack[j].th = "ended" /\ stack[j].main = "loop"
  BY OthersRest DEF Moves
<1>4. \A w \in Windows : RequestOk(win'[w])
  BY <1>1, <1>2 DEF StackInv
<1>5. ASSUME NEW i \in DOMAIN stack PROVE FrameOk(stack'[i], win'[stack'[i].w])
  <2>1. CASE i = k
    BY <2>1, <1>1, <1>2
  <2>2. CASE i # k /\ stack[i].w # v
    <3>1. stack[i].w \in Windows
      BY StackFacts
    <3> QED
      BY <2>2, <3>1, <1>1 DEF StackInv
  <2>3. CASE i # k /\ stack[i].w = v
    <3>1. stack[i].th = "ended" /\ stack[i].main = "loop"
      BY <2>3, <1>3
    <3>2. FrameOk(stack[i], win[v])
      BY <2>3 DEF StackInv
    <3>3. FrameOk(stack[i], r)
      BY <3>1, <3>2 DEF FrameOk
    <3> QED
      BY <3>3, <2>3, <1>1
  <2> QED
    BY <2>1, <2>2, <2>3
<1>6. \A i \in DOMAIN stack : stack'[i].main # "loop" => i = Top
  BY <1>1, <1>2 DEF StackInv
<1>7. ASSUME NEW i \in DOMAIN stack, NEW j \in DOMAIN stack, i < j, stack[i].w = stack[j].w
      PROVE  stack'[i].th = "ended"
  <2>1. Top \in Nat /\ DOMAIN stack = 1..Top
    BY StackFacts
  <2>2. i # k
    <3>1. SUFFICES ASSUME i = k PROVE FALSE
      OBVIOUS
    <3>2. j # k /\ stack[j].w = v
      BY <3>1, <1>7, <2>1
    <3>3. j < k
      BY <3>2, <1>3
    <3> QED
      BY <3>1, <3>3, <1>7, <2>1
  <2>3. stack[i].th = "ended"
    BY <1>7 DEF StackInv
  <2> QED
    BY <2>2, <2>3, <1>1
<1>8. ASSUME NEW w \in Windows
      PROVE  win'[w].stopable <=> \E i \in DOMAIN stack : stack'[i].w = w /\ stack'[i].th # "ended"
  <2>1. CASE w = v
    <3>1. win'[w].stopable <=> g.th # "ended"
      BY <2>1, <1>1, <1>2
    <3>2. \A i \in DOMAIN stack : stack'[i].w = w /\ i # k => stack'[i].th = "ended"
      BY <2>1, <1>1, <1>3
    <3> QED
      BY <3>1, <3>2, <2>1, <1>1, <1>2
  <2>2. CASE w # v
    BY <2>2, <1>1, <1>2 DEF StackInv
  <2> QED
    BY <2>1, <2>2
<1> QED
  BY <1>1, <1>4, <1>5, <1>6, <1>7, <1>8 DEF StackInv

\* An operation that returns leaves the ones below it as they are,
LEMMA PopsFacts ==
  ASSUME StackType, NEW r, Pops(r)
  PROVE  /\ StackType' /\ Top \in DOMAIN stack
         /\ DOMAIN stack' = DOMAIN stack \ {Top}
         /\ \A j \in DOMAIN stack' : stack'[j] = stack[j]
         /\ stack[Top].w \in Windows /\ win'[stack[Top].w] = r
         /\ \A w \in Windows : w # stack[Top].w => win'[w] = win[w]
<1>1. Top \in Nat /\ DOMAIN stack = 1..Top /\ Top \in DOMAIN stack /\ stack[Top].w \in Windows
  BY StackFacts DEF Pops
<1>2. stack' = SubSeq(stack, 1, Top - 1)
  BY DEF Pops, Front, Top
<1>3. \A i \in 1..Top - 1 : stack[i] \in FrameType
  BY <1>1, StackFacts
<1>4. /\ stack' \in Seq(FrameType) /\ Len(stack') = Top - 1
      /\ \A i \in 1..Top - 1 : stack'[i] = stack[i]
  <2>1. /\ stack' \in Seq(FrameType)
        /\ Len(stack') = IF 1 <= Top - 1 THEN (Top - 1) - 1 + 1 ELSE 0
        /\ \A i \in 1..(Top - 1) - 1 + 1 : stack'[i] = stack[1 + i - 1]
    BY <1>1, <1>2, <1>3, SubSeqProperties
  <2>2. Len(stack') = Top - 1
    BY <1>1, <2>1
  <2>3. ASSUME NEW i \in 1..Top - 1 PROVE stack'[i] = stack[i]
    <3>1. i \in 1..(Top - 1) - 1 + 1 /\ 1 + i - 1 = i
      BY <1>1
    <3> QED
      BY <3>1, <2>1
  <2> QED
    BY <2>1, <2>2, <2>3
<1>5. DOMAIN stack' = 1..Top - 1
  BY <1>4, LenProperties
<1>6. /\ win' \in [Windows -> WinType] /\ win'[stack[Top].w] = r
      /\ \A w \in Windows : w # stack[Top].w => win'[w] = win[w]
  BY <1>1 DEF Pops, StackType
<1> QED
  BY <1>1, <1>4, <1>5, <1>6 DEF StackType

\* in each other as before.
LEMMA PopsStack ==
  ASSUME StackType, StackInv, NEW r, Pops(r)
  PROVE  StackInv'
<1> DEFINE v == stack[Top].w
<1>1. /\ Top \in DOMAIN stack /\ DOMAIN stack' = DOMAIN stack \ {Top}
      /\ \A j \in DOMAIN stack' : stack'[j] = stack[j]
      /\ v \in Windows /\ win'[v] = r
      /\ \A w \in Windows : w # v => win'[w] = win[w]
  BY PopsFacts
<1>2. RequestOk(r) /\ ~r.stopable
  BY DEF Pops
<1>3. \A j \in DOMAIN stack' : stack[j].main = "loop" /\ (stack[j].w = v => stack[j].th = "ended")
  BY <1>1, OthersRest DEF StackInv
<1>4. \A w \in Windows : RequestOk(win'[w])
  BY <1>1, <1>2 DEF StackInv
<1>5. ASSUME NEW i \in DOMAIN stack' PROVE FrameOk(stack'[i], win'[stack'[i].w])
  <2>1. stack[i].w \in Windows /\ FrameOk(stack[i], win[stack[i].w])
    BY <1>1, StackFacts DEF StackInv
  <2>2. CASE stack[i].w # v
    BY <2>1, <2>2, <1>1
  <2>3. CASE stack[i].w = v
    <3>1. FrameOk(stack[i], r)
      BY <2>1, <2>3, <1>3 DEF FrameOk
    <3> QED
      BY <3>1, <2>3, <1>1
  <2> QED
    BY <2>2, <2>3
<1>6. \A i \in DOMAIN stack' : stack'[i].main = "loop"
  BY <1>1, <1>3
<1>7. \A i, j \in DOMAIN stack' : i < j /\ stack'[i].w = stack'[j].w => stack'[i].th = "ended"
  BY <1>1 DEF StackInv
<1>8. ASSUME NEW w \in Windows
      PROVE  win'[w].stopable <=> \E i \in DOMAIN stack' : stack'[i].w = w /\ stack'[i].th # "ended"
  <2>1. CASE w = v
    BY <2>1, <1>1, <1>2, <1>3
  <2>2. CASE w # v
    BY <2>2, <1>1 DEF StackInv
  <2> QED
    BY <2>1, <2>2
<1> QED
  BY <1>4, <1>5, <1>6, <1>7, <1>8 DEF StackInv

\* An operation that starts is the innermost one; those below it stay as they are,
LEMMA PushesFacts ==
  ASSUME StackType, NEW g, NEW r, Pushes(g, r)
  PROVE  /\ StackType' /\ Top \in Nat
         /\ DOMAIN stack = 1..Top /\ DOMAIN stack' = 1..Top + 1 /\ Top' = Top + 1
         /\ stack'[Top + 1] = g
         /\ \A j \in DOMAIN stack : stack'[j] = stack[j]
         /\ g.w \in Windows /\ win'[g.w] = r
         /\ \A w \in Windows : w # g.w => win'[w] = win[w]
<1>1. Top \in Nat /\ DOMAIN stack = 1..Top
  BY StackFacts
<1>2. g \in FrameType /\ g.w \in Windows
  BY DEF Pushes, FrameType
<1>3. /\ stack' \in Seq(FrameType) /\ Len(stack') = Top + 1
      /\ \A j \in 1..Top : stack'[j] = stack[j]
      /\ stack'[Top + 1] = g
  BY <1>2, AppendProperties DEF Pushes, StackType, Top
<1>4. DOMAIN stack' = 1..Top + 1
  BY <1>3, LenProperties
<1>5. /\ win' \in [Windows -> WinType] /\ win'[g.w] = r
      /\ \A w \in Windows : w # g.w => win'[w] = win[w]
  BY <1>2 DEF Pushes, StackType
<1>6. Top' = Top + 1
  BY <1>3 DEF Top
<1> QED
  BY <1>1, <1>2, <1>3, <1>4, <1>5, <1>6 DEF StackType

\* and it has its window to itself, or a thread that is over.
LEMMA PushesStack ==
  ASSUME StackType, StackInv, NEW g, NEW r, Pushes(g, r)
  PROVE  StackInv'
<1>1. /\ Top \in Nat /\ DOMAIN stack = 1..Top /\ DOMAIN stack' = 1..Top + 1 /\ Top' = Top + 1
      /\ stack'[Top + 1] = g
      /\ \A j \in DOMAIN stack : stack'[j] = stack[j]
      /\ g.w \in Windows /\ win'[g.w] = r
      /\ \A w \in Windows : w # g.w => win'[w] = win[w]
  BY PushesFacts
<1>2. RequestOk(r) /\ FrameOk(g, r) /\ (r.stopable <=> g.th # "ended")
  BY DEF Pushes
<1>3. \A j \in DOMAIN stack : stack[j].main = "loop" /\ (stack[j].w = g.w => stack[j].th = "ended")
  BY <1>1 DEF Pushes, Clickable, StackInv
<1>4. \A i \in DOMAIN stack' : i = Top + 1 \/ i \in DOMAIN stack
  BY <1>1
<1>5. \A w \in Windows : RequestOk(win'[w])
  BY <1>1, <1>2 DEF StackInv
<1>6. ASSUME NEW i \in DOMAIN stack' PROVE FrameOk(stack'[i], win'[stack'[i].w])
  <2>1. CASE i = Top + 1
    BY <2>1, <1>1, <1>2
  <2>2. CASE i \in DOMAIN stack
    <3>1. stack[i].w \in Windows /\ FrameOk(stack[i], win[stack[i].w]) /\ stack'[i] = stack[i]
      BY <2>2, <1>1, StackFacts DEF StackInv
    <3>2. CASE stack[i].w # g.w
      BY <3>1, <3>2, <1>1
    <3>3. CASE stack[i].w = g.w
      <4>1. FrameOk(stack[i], r)
        BY <3>1, <3>3, <2>2, <1>3 DEF FrameOk
      <4> QED
        BY <4>1, <3>1, <3>3, <1>1
    <3> QED
      BY <3>2, <3>3
  <2> QED
    BY <2>1, <2>2, <1>4
<1>7. \A i \in DOMAIN stack' : stack'[i].main # "loop" => i = Top'
  BY <1>1, <1>3, <1>4
<1>8. ASSUME NEW i \in DOMAIN stack', NEW j \in DOMAIN stack', i < j, stack'[i].w = stack'[j].w
      PROVE  stack'[i].th = "ended"
  <2>1. i \in DOMAIN stack
    BY <1>1, <1>8
  <2>2. CASE j = Top + 1
    BY <2>1, <2>2, <1>1, <1>3, <1>8
  <2>3. CASE j \in DOMAIN stack
    BY <2>1, <2>3, <1>1, <1>8 DEF StackInv
  <2> QED
    BY <2>2, <2>3, <1>4
<1>9. ASSUME NEW w \in Windows
      PROVE  win'[w].stopable <=> \E i \in DOMAIN stack' : stack'[i].w = w /\ stack'[i].th # "ended"
  <2>1. Top + 1 \in DOMAIN stack' /\ DOMAIN stack \subseteq DOMAIN stack'
    BY <1>1
  <2>2. CASE w = g.w
    BY <2>1, <2>2, <1>1, <1>2, <1>3, <1>4
  <2>3. CASE w # g.w
    BY <2>1, <2>3, <1>1, <1>4 DEF StackInv
  <2> QED
    BY <2>2, <2>3
<1> QED
  BY <1>5, <1>6, <1>7, <1>8, <1>9 DEF StackInv

-----------------------------------------------------------------------------
(* How a step changes the cache: but for the thread that writes a listing, no file becomes *)
(* usable or changes its text, and the files of operations stay. *)

SameText(f) == files'[f].part = files[f].part /\ files'[f].v = files[f].v

Kept ==
  /\ CacheType' /\ CacheInv'
  /\ \A l \in Lines' : Usable(l.file)' =>
       l \in Lines /\ Usable(l.file) /\ SameText(l.file) /\ (files[l.file].over => files'[l.file].over)
  /\ \A i \in DOMAIN stack : stack[i].file \in CacheFiles => SameText(stack[i].file)
  /\ \A l \in Lines' \cup newdb'.lines :
       l \in Lines \cup newdb.lines \/ \A i \in DOMAIN stack : stack[i].file # l.file

\* A line of the index names a directory and a cache file.
LEMMA LinesType ==
  ASSUME CacheType
  PROVE  Lines \subseteq LineType /\ newdb.lines \subseteq LineType
         /\ \A l \in Lines \cup newdb.lines : l.file \in CacheFiles /\ l.dir \in Dirs
<1>1. index.lines \in Seq(LineType) /\ newdb.lines \subseteq LineType
  BY DEF CacheType
<1>2. Lines \subseteq LineType
  BY <1>1, LenProperties, ElementOfSeq DEF Lines, ToSet
<1>3. \A l \in LineType : l.file \in CacheFiles /\ l.dir \in Dirs
  BY DEF LineType
<1> QED
  BY <1>1, <1>2, <1>3

\* Unlinking takes files out of the cache; it writes none.
LEMMA UnlinkedFacts ==
  ASSUME CacheType, NEW lines
  PROVE  /\ Unlinked(lines) \in [CacheFiles -> FileType]
         /\ \A f \in CacheFiles : Unlinked(lines)[f].on =>
              Unlinked(lines)[f] = files[f] /\ \A l \in lines : l.file # f
         /\ \A i \in DOMAIN stack, f \in CacheFiles : stack[i].file = f =>
              Unlinked(lines)[f].part = files[f].part /\ Unlinked(lines)[f].v = files[f].v
<1>1. NoListing \in FileType /\ ~NoListing.on
  BY BrowseAssumption DEF NoListing, FileType
<1>2. files \in [CacheFiles -> FileType]
  BY DEF CacheType
<1>3. \A x \in FileType : /\ [x EXCEPT !.on = FALSE] \in FileType /\ ~[x EXCEPT !.on = FALSE].on
                          /\ [x EXCEPT !.on = FALSE].part = x.part /\ [x EXCEPT !.on = FALSE].v = x.v
  BY DEF FileType
<1>4. ASSUME NEW f \in CacheFiles
      PROVE  /\ Unlinked(lines)[f] \in FileType
             /\ Unlinked(lines)[f].on => Unlinked(lines)[f] = files[f] /\ \A l \in lines : l.file # f
             /\ \A i \in DOMAIN stack : stack[i].file = f =>
                  Unlinked(lines)[f].part = files[f].part /\ Unlinked(lines)[f].v = files[f].v
  <2>1. CASE \A l \in lines : l.file # f
    <3>1. Unlinked(lines)[f] = files[f]
      BY <2>1 DEF Unlinked
    <3> QED
      BY <3>1, <2>1, <1>2
  <2>2. CASE (\E l \in lines : l.file = f) /\ \E i \in DOMAIN stack : stack[i].file = f
    <3>1. Unlinked(lines)[f] = [files[f] EXCEPT !.on = FALSE]
      BY <2>2 DEF Unlinked
    <3> QED
      BY <3>1, <1>2, <1>3
  <2>3. CASE (\E l \in lines : l.file = f) /\ ~\E i \in DOMAIN stack : stack[i].file = f
    <3>1. Unlinked(lines)[f] = NoListing
      BY <2>3 DEF Unlinked
    <3> QED
      BY <3>1, <2>3, <1>1
  <2> QED
    BY <2>1, <2>2, <2>3
<1>5. Unlinked(lines) = [f \in CacheFiles |-> Unlinked(lines)[f]]
  BY DEF Unlinked
<1> QED
  BY <1>4, <1>5

\* A step that leaves the cache alone keeps it.
LEMMA SameKept ==
  ASSUME CacheType, CacheInv, UNCHANGED <<index, newdb, files>>
  PROVE  Kept
<1>1. Lines' = Lines
  BY DEF Lines
<1> QED
  BY <1>1 DEF Kept, CacheType, CacheInv, SameText, Usable

\* The first half of a purge: the files of the lines that it drops are gone.
LEMMA PurgeReadKept ==
  ASSUME CacheType, CacheInv, NEW w, NEW whole, PurgeRead(w, whole), index' = index
  PROVE  /\ Kept
         /\ \A l \in Lines' : (IF whole THEN win[w].named ELSE l.dir = win[w].dir) => ~files'[l.file].on
<1> DEFINE gone == Doomed(w, whole)
<1>1. Lines' = Lines /\ files' = Unlinked(gone)
      /\ newdb' = [there |-> TRUE, lines |-> newdb.lines \cup (Lines \ gone), mixed |-> newdb.there]
  BY DEF Lines, PurgeRead
<1>2. \A l \in Lines : l \in gone <=> IF whole THEN win[w].named ELSE l.dir = win[w].dir
  BY DEF Doomed, Lines
<1>3. \A l \in Lines \cup newdb.lines : l.file \in CacheFiles
  BY LinesType
<1>4. /\ files' \in [CacheFiles -> FileType]
      /\ \A f \in CacheFiles : files'[f].on => files'[f] = files[f] /\ \A l \in gone : l.file # f
      /\ \A i \in DOMAIN stack : stack[i].file \in CacheFiles => SameText(stack[i].file)
  BY <1>1, UnlinkedFacts DEF SameText
<1>5. CacheType'
  <2>1. newdb' \in [there : BOOLEAN, lines : SUBSET LineType, mixed : BOOLEAN]
    BY <1>1, LinesType DEF CacheType
  <2> QED
    BY <2>1, <1>4 DEF CacheType
<1>6. CacheInv'
  <2>1. ASSUME NEW l \in newdb'.lines PROVE l \in Lines' \/ ~files'[l.file].on
    <3>1. l \in Lines \/ (l \in newdb.lines /\ ~files[l.file].on)
      BY <1>1 DEF CacheInv
    <3> QED
      BY <3>1, <1>1, <1>3, <1>4
  <2> QED
    BY <2>1 DEF CacheInv
<1>7. ASSUME NEW l \in Lines', Usable(l.file)'
      PROVE  l \in Lines /\ Usable(l.file) /\ SameText(l.file) /\ (files[l.file].over => files'[l.file].over)
  <2>1. l \in Lines /\ l.file \in CacheFiles /\ files'[l.file].on
    BY <1>1, <1>3, <1>7 DEF Usable
  <2>2. files'[l.file] = files[l.file]
    BY <2>1, <1>4
  <2> QED
    BY <2>1, <2>2, <1>7 DEF Usable, SameText
<1>8. Lines' \cup newdb'.lines \subseteq Lines \cup newdb.lines
  BY <1>1
<1>9. Kept
  BY <1>4, <1>5, <1>6, <1>7, <1>8 DEF Kept
<1>10. ASSUME NEW l \in Lines', IF whole THEN win[w].named ELSE l.dir = win[w].dir
       PROVE  ~files'[l.file].on
  BY <1>1, <1>2, <1>3, <1>4, <1>10
<1> QED
  BY <1>9, <1>10

\* The list of a finite set holds nothing else.
LEMMA ListOfSet ==
  ASSUME NEW T, NEW S \in SUBSET T, IsFiniteSet(S)
  PROVE  SetToSeq(S) \in Seq(T) /\ ToSet(SetToSeq(S)) \subseteq S
<1>1. Cardinality(S) \in Nat /\ ExistsBijection(1..Cardinality(S), S)
  BY FS_CardinalityType
<1>2. \E f \in [1..Cardinality(S) -> S] : IsInjective(f)
  BY <1>1 DEF ExistsBijection, Bijection, Injection
<1>3. SetToSeq(S) \in [1..Cardinality(S) -> S]
  BY <1>2 DEF SetToSeq
<1>4. SetToSeq(S) \in Seq(S)
  BY <1>1, <1>3, SeqDef
<1>5. SetToSeq(S) \in Seq(T)
  BY <1>4, SeqMonotonic
<1> QED
  BY <1>3, <1>5 DEF ToSet

\* The second half: the new index takes the place of the old one.
LEMMA PurgeSwapKept ==
  ASSUME CacheType, CacheInv, PurgeSwap, files' = files
  PROVE  Kept
<1>1. PICK whole : /\ whole \subseteq newdb.lines /\ (whole = {} \/ \E l \in newdb.lines : whole = {l})
                   /\ index' = NoIndex \/ index' = [there |-> TRUE, lines |-> SetToSeq(whole), glue |-> newdb.lines # {}]
  <2>1. CASE newdb.there
    <3>1. PICK whole \in {{}} \cup (IF newdb.mixed THEN {{l} : l \in newdb.lines} ELSE {}) :
               index' = [there |-> TRUE, lines |-> SetToSeq(whole), glue |-> newdb.lines # {}]
      BY <2>1 DEF PurgeSwap
    <3> QED
      BY <3>1
  <2>2. CASE ~newdb.there
    <3>1. index' = NoIndex /\ {} \subseteq newdb.lines
      BY <2>2 DEF PurgeSwap
    <3> QED
      BY <3>1
  <2> QED
    BY <2>1, <2>2
<1>2. newdb' = NoDb /\ newdb.lines \subseteq LineType
  BY DEF PurgeSwap, CacheType
<1>3. SetToSeq(whole) \in Seq(LineType) /\ ToSet(SetToSeq(whole)) \subseteq whole
  <2>1. IsFiniteSet(whole)
    BY <1>1, FS_EmptySet, FS_Singleton
  <2> QED
    BY <2>1, <1>1, <1>2, ListOfSet
<1>4. NoIndex \in [there : BOOLEAN, lines : Seq(LineType), glue : BOOLEAN] /\ ToSet(NoIndex.lines) = {}
  BY EmptySeq DEF NoIndex, ToSet
<1>5. Lines' \subseteq newdb.lines
  <2>1. CASE index' = NoIndex
    BY <2>1, <1>4 DEF Lines
  <2>2. CASE index' = [there |-> TRUE, lines |-> SetToSeq(whole), glue |-> newdb.lines # {}]
    BY <2>2, <1>1, <1>3 DEF Lines
  <2> QED
    BY <2>1, <2>2, <1>1
<1>6. CacheType'
  <2>1. index' \in [there : BOOLEAN, lines : Seq(LineType), glue : BOOLEAN]
    <3>1. CASE index' = NoIndex
      BY <3>1, <1>4
    <3>2. CASE index' = [there |-> TRUE, lines |-> SetToSeq(whole), glue |-> newdb.lines # {}]
      BY <3>2, <1>3
    <3> QED
      BY <3>1, <3>2, <1>1
  <2>2. newdb' \in [there : BOOLEAN, lines : SUBSET LineType, mixed : BOOLEAN]
    BY <1>2 DEF NoDb
  <2> QED
    BY <2>1, <2>2 DEF CacheType
<1>7. CacheInv'
  <2>1. ~index'.there => index'.lines = <<>>
    BY <1>1 DEF NoIndex
  <2> QED
    BY <2>1, <1>2 DEF CacheInv, NoDb
<1>8. ASSUME NEW l \in Lines', Usable(l.file)'
      PROVE  l \in Lines /\ Usable(l.file) /\ SameText(l.file) /\ (files[l.file].over => files'[l.file].over)
  BY <1>5, <1>8 DEF CacheInv, Usable, SameText
<1>9. Lines' \cup newdb'.lines \subseteq Lines \cup newdb.lines
  BY <1>2, <1>5 DEF NoDb
<1> QED
  BY <1>6, <1>7, <1>8, <1>9 DEF Kept, SameText

\* A new line names a file that nobody used.
LEMMA AddLineKept ==
  ASSUME CacheType, CacheInv, NEW d \in Dirs, NEW f \in FreeFiles, AddLine(d, f), newdb' = newdb
  PROVE  /\ Kept
         /\ \A l \in Lines' \cup newdb'.lines : (l \in Lines \cup newdb.lines /\ l.file # f) \/ l = [dir |-> d, file |-> f]
         /\ files'[f].part = "empty"
<1>1. /\ f \in CacheFiles /\ \A l \in Lines \cup newdb.lines : l.file # f
      /\ \A i \in DOMAIN stack : stack[i].file # f
  BY DEF FreeFiles, Lines
<1>2. /\ index' = [there |-> TRUE, glue |-> FALSE,
                   lines |-> IF index.glue THEN index.lines ELSE Append(index.lines, [dir |-> d, file |-> f])]
      /\ files' = [files EXCEPT ![f] = [NoListing EXCEPT !.on = TRUE]]
  BY DEF AddLine
<1>3. [dir |-> d, file |-> f] \in LineType /\ index.lines \in Seq(LineType)
  BY <1>1 DEF LineType, CacheType
<1> DEFINE new == [dir |-> d, file |-> f]
<1>4. index'.lines \in Seq(LineType) /\ Lines' \subseteq Lines \cup {new}
  <2> HIDE DEF new
  <2>1. CASE index.glue
    BY <2>1, <1>2, <1>3 DEF Lines, new
  <2>2. CASE ~index.glue
    <3>1. index'.lines = Append(index.lines, new)
      BY <2>2, <1>2 DEF new
    <3>2. /\ index'.lines \in Seq(LineType) /\ Len(index'.lines) = Len(index.lines) + 1
          /\ \A i \in 1..Len(index.lines) : index'.lines[i] = index.lines[i]
          /\ index'.lines[Len(index.lines) + 1] = new
      BY <3>1, <1>3, AppendProperties DEF new
    <3>3. DOMAIN index.lines = 1..Len(index.lines) /\ DOMAIN index'.lines = 1..Len(index.lines) + 1
          /\ Len(index.lines) \in Nat
      BY <3>2, <1>3, LenProperties
    <3>4. ASSUME NEW i \in DOMAIN index'.lines
          PROVE  index'.lines[i] \in Lines \cup {new}
      <4>1. CASE i = Len(index.lines) + 1
        BY <4>1, <3>2
      <4>2. CASE i \in 1..Len(index.lines)
        <5>1. index.lines[i] \in Lines
          BY <4>2, <3>3 DEF Lines, ToSet
        <5> QED
          BY <5>1, <4>2, <3>2
      <4> QED
        BY <4>1, <4>2, <3>3
    <3> QED
      BY <3>2, <3>4 DEF Lines, ToSet
  <2> QED
    BY <2>1, <2>2
<1>5. /\ files' \in [CacheFiles -> FileType] /\ files'[f].part = "empty"
      /\ \A c \in CacheFiles : c # f => files'[c] = files[c]
  <2>1. NoListing \in FileType /\ NoListing.part = "empty"
    BY BrowseAssumption DEF NoListing, FileType
  <2>2. \A x \in FileType : [x EXCEPT !.on = TRUE] \in FileType /\ [x EXCEPT !.on = TRUE].part = x.part
    BY DEF FileType
  <2>4. [NoListing EXCEPT !.on = TRUE] \in FileType /\ [NoListing EXCEPT !.on = TRUE].part = "empty"
    BY <2>1, <2>2
  <2> QED
    BY <2>4, <1>1, <1>2 DEF CacheType
<1>6. CacheType'
  <2>1. index' \in [there : BOOLEAN, lines : Seq(LineType), glue : BOOLEAN]
    BY <1>2, <1>4
  <2> QED
    BY <2>1, <1>5 DEF CacheType
<1>7. CacheInv'
  <2>1. Lines \subseteq Lines' \/ index.glue
    <3>1. CASE ~index.glue
      <4>1. index'.lines = Append(index.lines, [dir |-> d, file |-> f])
        BY <3>1, <1>2
      <4>2. Len(index'.lines) = Len(index.lines) + 1
            /\ \A i \in 1..Len(index.lines) : index'.lines[i] = index.lines[i]
        BY <4>1, <1>3, AppendProperties
      <4>3. DOMAIN index.lines = 1..Len(index.lines) /\ DOMAIN index'.lines = 1..Len(index.lines) + 1
            /\ Len(index.lines) \in Nat
        BY <4>2, <1>3, <1>4, LenProperties
      <4> QED
        BY <4>2, <4>3 DEF Lines, ToSet
    <3> QED
      BY <3>1 DEF CacheType
  <2>2. index.glue => Lines' = Lines
    BY <1>2 DEF Lines
  <2>3. Lines \subseteq Lines'
    BY <2>1, <2>2
  <2>4. \A l \in newdb.lines : l.file \in CacheFiles /\ l.file # f
    BY <1>1, LinesType
  <2> QED
    BY <2>3, <2>4, <1>2, <1>5 DEF CacheInv
<1>8. ASSUME NEW l \in Lines', Usable(l.file)'
      PROVE  l \in Lines /\ Usable(l.file) /\ SameText(l.file) /\ (files[l.file].over => files'[l.file].over)
  <2>1. l \in Lines /\ l.file # f
    BY <1>1, <1>4, <1>5, <1>8 DEF Usable
  <2>2. l.file \in CacheFiles
    BY <2>1, LinesType
  <2> QED
    BY <2>1, <2>2, <1>5, <1>8 DEF Usable, SameText
<1>9. \A i \in DOMAIN stack : stack[i].file \in CacheFiles => SameText(stack[i].file)
  BY <1>1, <1>5 DEF SameText
<1>10. \A l \in Lines' \cup newdb'.lines : (l \in Lines \cup newdb.lines /\ l.file # f) \/ l = [dir |-> d, file |-> f]
  BY <1>1, <1>4
<1>11. \A l \in Lines' \cup newdb'.lines :
         l \in Lines \cup newdb.lines \/ \A i \in DOMAIN stack : stack[i].file # l.file
  BY <1>1, <1>10
<1> QED
  BY <1>5, <1>6, <1>7, <1>8, <1>9, <1>10, <1>11 DEF Kept

\* A file that is over is only marked.
LEMMA OverKept ==
  ASSUME CacheType, CacheInv, NEW F, UNCHANGED <<index, newdb>>,
         files' = [f \in CacheFiles |-> IF f \in F THEN [files[f] EXCEPT !.over = TRUE] ELSE files[f]]
  PROVE  Kept /\ \A f \in CacheFiles \cap F : files'[f].over
<1>1. files \in [CacheFiles -> FileType] /\ Lines' = Lines
  BY DEF CacheType, Lines
<1>2. ASSUME NEW f \in CacheFiles
      PROVE  /\ files'[f] \in FileType /\ files'[f].on = files[f].on /\ SameText(f)
             /\ files[f].over => files'[f].over
             /\ f \in F => files'[f].over
  BY <1>1 DEF FileType, SameText
<1>3. files' \in [CacheFiles -> FileType]
  BY <1>2
<1>4. CacheType'
  BY <1>3 DEF CacheType
<1>5. \A l \in Lines \cup newdb.lines : l.file \in CacheFiles
  BY LinesType
<1>6. CacheInv'
  BY <1>1, <1>2, <1>5 DEF CacheInv
<1>7. ASSUME NEW l \in Lines', Usable(l.file)'
      PROVE  l \in Lines /\ Usable(l.file) /\ SameText(l.file) /\ (files[l.file].over => files'[l.file].over)
  BY <1>1, <1>2, <1>5, <1>7 DEF Usable, SameText
<1> QED
  BY <1>1, <1>2, <1>4, <1>6, <1>7 DEF Kept

\* clear_cache(), and a line that is past its date.
LEMMA UnlinkKept ==
  ASSUME CacheType, CacheInv, NEW gone, files' = Unlinked(gone), newdb' = newdb,
         index' \in [there : BOOLEAN, lines : Seq(LineType), glue : BOOLEAN],
         ~index'.there => index'.lines = <<>>, Lines' \subseteq Lines,
         \A l \in Lines : l \in gone \/ l \in Lines'
  PROVE  Kept
<1>1. /\ files' \in [CacheFiles -> FileType]
      /\ \A f \in CacheFiles : files'[f].on => files'[f] = files[f] /\ \A l \in gone : l.file # f
      /\ \A i \in DOMAIN stack : stack[i].file \in CacheFiles => SameText(stack[i].file)
  BY UnlinkedFacts DEF SameText
<1>2. \A l \in Lines \cup newdb.lines : l.file \in CacheFiles
  BY LinesType
<1>3. CacheType'
  BY <1>1 DEF CacheType
<1>4. CacheInv'
  <2>1. ASSUME NEW l \in newdb.lines PROVE l \in Lines' \/ ~files'[l.file].on
    <3>1. CASE l \in Lines
      BY <3>1, <1>1, <1>2
    <3>2. CASE ~files[l.file].on
      BY <3>2, <1>1, <1>2
    <3> QED
      BY <3>1, <3>2 DEF CacheInv
  <2> QED
    BY <2>1 DEF CacheInv
<1>5. ASSUME NEW l \in Lines', Usable(l.file)'
      PROVE  l \in Lines /\ Usable(l.file) /\ SameText(l.file) /\ (files[l.file].over => files'[l.file].over)
  <2>1. files'[l.file] = files[l.file]
    BY <1>1, <1>2, <1>5 DEF Usable
  <2> QED
    BY <2>1, <1>5 DEF Usable, SameText
<1> QED
  BY <1>1, <1>3, <1>4, <1>5 DEF Kept

-----------------------------------------------------------------------------
(* What such steps keep of the invariant. *)

\* A file that an operation has open is a cache file.
LEMMA InCache ==
  ASSUME StackType, NEW i \in DOMAIN stack, stack[i].file # NoFile
  PROVE  stack[i].file \in CacheFiles
BY StackFacts DEF FrameType

\* Who sees to a half written file is the last operation of its window.
LEMMA HolderIsLast ==
  ASSUME StackType, StackInv, NEW i \in DOMAIN stack, NEW f, Holds(i, f),
         NEW k \in DOMAIN stack, stack[k].th # "ended" \/ k = Top, stack[i].w = stack[k].w
  PROVE  i = k
<1> SUFFICES ASSUME i # k PROVE FALSE
  OBVIOUS
<1>1. Top \in Nat /\ DOMAIN stack = 1..Top
  BY StackFacts
<1>2. i < k /\ stack[i].th = "ended"
  BY OthersRest
<1>3. k <= i
  BY <1>2 DEF Holds
<1> QED
  BY <1>1, <1>2, <1>3

\* A half listing that stays in the cache still has its writer after a step of operation k,
LEMMA HalfMoves ==
  ASSUME StackType, StackInv, HalfInv, NEW k, NEW g, NEW r, Moves(k, g, r), Kept,
         \A l \in Lines' : Half(l.file)' /\ Holds(k, l.file) => Holds(k, l.file)'
  PROVE  HalfInv'
<1> SUFFICES ASSUME NEW l \in Lines', Half(l.file)'
             PROVE  \E i \in DOMAIN stack' : Holds(i, l.file)'
  BY DEF HalfInv
<1>1. l \in Lines /\ Half(l.file)
  BY DEF Kept, Half, Usable, SameText
<1>2. PICK i \in DOMAIN stack : Holds(i, l.file)
  BY <1>1 DEF HalfInv
<1>3. /\ DOMAIN stack' = DOMAIN stack /\ k \in DOMAIN stack
      /\ \A j \in DOMAIN stack : j # k => stack'[j] = stack[j]
      /\ \A j \in DOMAIN stack : stack'[j].w = stack[j].w
      /\ \A w \in Windows : w # stack[k].w => win'[w] = win[w]
  BY MovesFacts DEF Moves
<1>4. CASE i = k
  BY <1>2, <1>3, <1>4
<1>5. CASE i # k
  <2>1. stack[i].w # stack[k].w /\ stack[i].w \in Windows
    BY <1>2, <1>3, <1>5, HolderIsLast, StackFacts DEF Moves
  <2>2. stack'[i] = stack[i] /\ win'[stack[i].w] = win[stack[i].w]
    BY <2>1, <1>3, <1>5
  <2>3. Holds(i, l.file)'
    BY <2>2, <1>2, <1>3 DEF Holds
  <2> QED
    BY <2>3, <1>3
<1> QED
  BY <1>4, <1>5

\* after an operation that returns,
LEMMA HalfPops ==
  ASSUME StackType, StackInv, HalfInv, NEW r, Pops(r), Kept,
         \A l \in Lines' : Half(l.file)' => ~Holds(Top, l.file)
  PROVE  HalfInv'
<1> SUFFICES ASSUME NEW l \in Lines', Half(l.file)'
             PROVE  \E i \in DOMAIN stack' : Holds(i, l.file)'
  BY DEF HalfInv
<1>1. l \in Lines /\ Half(l.file)
  BY DEF Kept, Half, Usable, SameText
<1>2. PICK i \in DOMAIN stack : Holds(i, l.file)
  BY <1>1 DEF HalfInv
<1>3. /\ DOMAIN stack' = DOMAIN stack \ {Top} /\ Top \in DOMAIN stack
      /\ \A j \in DOMAIN stack' : stack'[j] = stack[j]
      /\ \A w \in Windows : w # stack[Top].w => win'[w] = win[w]
  BY PopsFacts
<1>4. i # Top
  BY <1>2
<1>5. stack[i].w # stack[Top].w /\ stack[i].w \in Windows
  BY <1>2, <1>3, <1>4, HolderIsLast, StackFacts
<1>6. i \in DOMAIN stack' /\ stack'[i] = stack[i] /\ win'[stack[i].w] = win[stack[i].w]
  BY <1>3, <1>4, <1>5
<1>7. Holds(i, l.file)'
  BY <1>6, <1>2, <1>3 DEF Holds
<1> QED
  BY <1>6, <1>7

\* and after an operation that starts.
LEMMA HalfPushes ==
  ASSUME StackType, StackInv, HalfInv, NEW g, NEW r, Pushes(g, r), Kept,
         \A l \in Lines', i \in DOMAIN stack : Half(l.file)' /\ stack[i].w = g.w => stack[i].file # l.file
  PROVE  HalfInv'
<1> SUFFICES ASSUME NEW l \in Lines', Half(l.file)'
             PROVE  \E i \in DOMAIN stack' : Holds(i, l.file)'
  BY DEF HalfInv
<1>1. l \in Lines /\ Half(l.file)
  BY DEF Kept, Half, Usable, SameText
<1>2. PICK i \in DOMAIN stack : Holds(i, l.file)
  BY <1>1 DEF HalfInv
<1>3. /\ Top \in Nat /\ DOMAIN stack = 1..Top /\ DOMAIN stack' = 1..Top + 1
      /\ stack'[Top + 1] = g
      /\ \A j \in DOMAIN stack : stack'[j] = stack[j]
      /\ \A w \in Windows : w # g.w => win'[w] = win[w]
  BY PushesFacts
<1>4. stack[i].w # g.w /\ stack[i].w \in Windows
  BY <1>2, StackFacts DEF Holds
<1>5. i \in DOMAIN stack' /\ stack'[i] = stack[i] /\ win'[stack[i].w] = win[stack[i].w]
  BY <1>3, <1>4
<1>6. \A j \in DOMAIN stack' : stack'[j].w = stack[i].w => j \in DOMAIN stack /\ stack[j].w = stack[i].w
  BY <1>3, <1>4
<1>7. Holds(i, l.file)'
  BY <1>5, <1>6, <1>2 DEF Holds
<1> QED
  BY <1>5, <1>7

\* An operation that a step leaves alone goes on writing its own file.
LEMMA WriterKept ==
  ASSUME StackType, StackInv, Kept, NEW i \in DOMAIN stack, WriterOk(i), i \in DOMAIN stack', stack'[i] = stack[i],
         win'[stack[i].w] = win[stack[i].w] \/ stack[i].th = "ended"
  PROVE  WriterOk(i)'
<1>1. Writing(i)' => Writing(i)
  BY DEF Writing
<1>2. stack[i].file # NoFile => SameText(stack[i].file)
  BY InCache DEF Kept
<1>3. stack[i].th = "read" => stack[i].file # NoFile
  BY BrowseAssumption DEF StackInv, FrameOk
<1>4. ASSUME Writing(i)', NEW l \in Lines' \cup newdb'.lines, l.file = stack[i].file
      PROVE  l \in Lines \cup newdb.lines
  BY <1>4 DEF Kept
<1>5. CASE stack[i].th = "ended"
  BY <1>5 DEF WriterOk, Writing
<1>6. CASE win'[stack[i].w] = win[stack[i].w]
  BY <1>1, <1>2, <1>3, <1>4, <1>6 DEF WriterOk, Writing, SameText
<1> QED
  BY <1>5, <1>6

\* A writer still has a file of its own after a step of operation k,
LEMMA WriterMoves ==
  ASSUME StackType, StackInv, WriterInv, NEW k, NEW g, NEW r, Moves(k, g, r), Kept,
         WriterOk(k)',
         \A j \in DOMAIN stack : j # k /\ Writing(j) /\ Writing(k)' => stack[j].file # g.file
  PROVE  WriterInv'
<1>1. /\ DOMAIN stack' = DOMAIN stack /\ k \in DOMAIN stack
      /\ \A j \in DOMAIN stack : j # k => stack'[j] = stack[j]
      /\ stack'[k] = g
      /\ \A w \in Windows : w # stack[k].w => win'[w] = win[w]
  BY MovesFacts DEF Moves
<1>2. ASSUME NEW i \in DOMAIN stack, i # k PROVE WriterOk(i)'
  <2>1. win'[stack[i].w] = win[stack[i].w] \/ stack[i].th = "ended"
    BY <1>1, <1>2, OthersRest, StackFacts DEF Moves
  <2> QED
    BY <2>1, <1>1, <1>2, WriterKept DEF WriterInv
<1>3. ASSUME NEW i \in DOMAIN stack, NEW j \in DOMAIN stack, Writing(i)', Writing(j)',
             stack'[i].file = stack'[j].file
      PROVE  i = j
  <2>1. \A n \in DOMAIN stack : n # k /\ Writing(n)' => Writing(n)
    BY <1>1 DEF Writing
  <2> QED
    BY <2>1, <1>1, <1>3 DEF WriterInv
<1> QED
  BY <1>1, <1>2, <1>3 DEF WriterInv

\* after an operation that returns,
LEMMA WriterPops ==
  ASSUME StackType, StackInv, WriterInv, NEW r, Pops(r), Kept
  PROVE  WriterInv'
<1>1. /\ DOMAIN stack' = DOMAIN stack \ {Top} /\ Top \in DOMAIN stack
      /\ \A j \in DOMAIN stack' : stack'[j] = stack[j]
      /\ \A w \in Windows : w # stack[Top].w => win'[w] = win[w]
  BY PopsFacts
<1>2. ASSUME NEW i \in DOMAIN stack' PROVE WriterOk(i)'
  <2>1. win'[stack[i].w] = win[stack[i].w] \/ stack[i].th = "ended"
    BY <1>1, OthersRest, StackFacts
  <2> QED
    BY <2>1, <1>1, WriterKept DEF WriterInv
<1>3. \A n \in DOMAIN stack' : Writing(n)' => Writing(n)
  BY <1>1 DEF Writing
<1> QED
  BY <1>1, <1>2, <1>3 DEF WriterInv

\* and after an operation that starts.
LEMMA WriterPushes ==
  ASSUME StackType, StackInv, WriterInv, NEW g, NEW r, Pushes(g, r), Kept,
         g.th \notin {"list", "fill", "read"}
  PROVE  WriterInv'
<1>1. /\ Top \in Nat /\ DOMAIN stack = 1..Top /\ DOMAIN stack' = 1..Top + 1
      /\ stack'[Top + 1] = g
      /\ \A j \in DOMAIN stack : stack'[j] = stack[j]
      /\ g.w \in Windows
      /\ \A w \in Windows : w # g.w => win'[w] = win[w]
  BY PushesFacts
<1>2. \A i \in DOMAIN stack' : i = Top + 1 \/ i \in DOMAIN stack
  BY <1>1
<1>3. ASSUME NEW i \in DOMAIN stack PROVE WriterOk(i)'
  <2>1. win'[stack[i].w] = win[stack[i].w] \/ stack[i].th = "ended"
    BY <1>1, StackFacts DEF StackInv, Pushes
  <2>2. i \in DOMAIN stack'
    BY <1>1
  <2> QED
    BY <2>1, <2>2, <1>1, WriterKept DEF WriterInv
<1>4. ASSUME NEW i, i = Top + 1 PROVE WriterOk(i)' /\ ~Writing(i)'
  BY <1>1, <1>4 DEF WriterOk, Writing
<1>5. \A n \in DOMAIN stack : Writing(n)' => Writing(n)
  BY <1>1 DEF Writing
<1>6. ASSUME NEW i \in DOMAIN stack', NEW j \in DOMAIN stack', Writing(i)', Writing(j)',
             stack'[i].file = stack'[j].file
      PROVE  i = j
  <2>1. i \in DOMAIN stack /\ j \in DOMAIN stack
    BY <1>2, <1>4, <1>6
  <2> QED
    BY <2>1, <1>1, <1>5, <1>6 DEF WriterInv
<1>7. \A i \in DOMAIN stack' : WriterOk(i)'
  BY <1>2, <1>3, <1>4
<1> QED
  BY <1>6, <1>7 DEF WriterInv

\* A window that a step leaves alone.
LEMMA OwnKept ==
  ASSUME StackType, StackInv, CacheType, NEW w \in Windows, Own(w), win'[w] = win[w],
         \A i \in DOMAIN stack' : stack'[i].w = w => i \in DOMAIN stack /\ stack'[i] = stack[i],
         \A i \in DOMAIN stack : stack[i].w = w => i \in DOMAIN stack' /\ stack'[i] = stack[i],
         \A l \in Lines' : Usable(l.file)' =>
           files'[l.file].v >= win[w].made[l.dir]
             \/ (l \in Lines /\ Usable(l.file) /\ files'[l.file].v = files[l.file].v),
         \A i \in DOMAIN stack : stack[i].th = "read" => files'[stack[i].file].v = files[stack[i].file].v
  PROVE  Own(w)'
<1> DEFINE r == win[w]
<1>1. r.up \/ r.stopable => \A i, j \in DOMAIN stack' : stack'[i].w = w /\ stack'[j].w = w => i = j
  BY DEF Own
<1>2. ASSUME NEW l \in Lines', Usable(l.file)'
      PROVE  \/ files'[l.file].v >= r.made[l.dir]
             \/ l.dir = r.dir /\ \E i \in DOMAIN stack' : stack'[i].w = w /\ Pending(stack'[i])
  <2>1. CASE files'[l.file].v >= r.made[l.dir]
    BY <2>1
  <2>2. CASE l \in Lines /\ Usable(l.file) /\ files'[l.file].v = files[l.file].v
    <3>1. CASE files[l.file].v >= r.made[l.dir]
      BY <2>2, <3>1
    <3>2. CASE l.dir = r.dir /\ \E i \in DOMAIN stack : stack[i].w = w /\ Pending(stack[i])
      <4>1. PICK i \in DOMAIN stack : stack[i].w = w /\ Pending(stack[i])
        BY <3>2
      <4>2. i \in DOMAIN stack' /\ stack'[i] = stack[i]
        BY <4>1
      <4>3. stack'[i].w = w /\ Pending(stack'[i])
        BY <4>1, <4>2 DEF Pending
      <4> QED
        BY <3>2, <4>2, <4>3
    <3> QED
      BY <2>2, <3>1, <3>2 DEF Own
  <2> QED
    BY <1>2, <2>1, <2>2
<1>3. ASSUME NEW i \in DOMAIN stack', stack'[i].w = w PROVE FrameShows(stack[i], win[w])'
  <2>1. i \in DOMAIN stack /\ stack'[i] = stack[i] /\ r' = r
    BY <1>3
  <2>2. FrameShows(stack[i], r)
    BY <2>1, <1>3 DEF Own
  <2>3. stack[i].th = "read" => files'[stack[i].file].v = files[stack[i].file].v
    BY <2>1
  <2> QED
    BY <2>1, <2>2, <2>3 DEF FrameShows, Shows
<1>4. r.up /\ (\A i \in DOMAIN stack' : stack'[i].w = w => Leaves(stack'[i])) => Shows(r.shown, r)
  <2>1. (\A i \in DOMAIN stack' : stack'[i].w = w => Leaves(stack'[i])) =>
          \A i \in DOMAIN stack : stack[i].w = w => Leaves(stack[i])
    BY DEF Leaves
  <2> QED
    BY <2>1 DEF Own
<1>5. /\ r'.up \/ r'.stopable => \A i, j \in DOMAIN stack' : stack'[i].w = w /\ stack'[j].w = w => i = j
      /\ \A l \in Lines' : Usable(l.file)' =>
           \/ files'[l.file].v >= r'.made[l.dir]
           \/ l.dir = r'.dir /\ \E i \in DOMAIN stack' : stack'[i].w = w /\ Pending(stack'[i])
      /\ \A i \in DOMAIN stack' : stack'[i].w = w => FrameShows(stack[i], win[w])'
      /\ r'.up /\ (\A i \in DOMAIN stack' : stack'[i].w = w => Leaves(stack'[i])) => Shows(r'.shown, r')
  BY <1>1, <1>2, <1>3, <1>4
<1> QED
  BY <1>5 DEF Own, Pending, Leaves, Shows, FrameShows

-----------------------------------------------------------------------------
(* The window of a step whose operations have not been started inside each other. *)

OwnNow(f, r) ==
  /\ \A l \in Lines : Usable(l.file) => files[l.file].v >= r.made[l.dir] \/ (l.dir = r.dir /\ Pending(f))
  /\ FrameShows(f, r)
  /\ r.up /\ Leaves(f) => Shows(r.shown, r)

CacheShows(g, r) ==
  \A l \in Lines' : Usable(l.file)' => files'[l.file].v >= r.made[l.dir] \/ (l.dir = r.dir /\ Pending(g))
OwnNext(g, r) ==
  /\ CacheShows(g, r)
  /\ g.op = "ls" /\ r.up /\ g.got # Nothing => Shows(g.got, r)
  /\ g.th = "read" => files'[g.file].v >= r.made[r.dir]
  /\ r.up /\ Leaves(g) => Shows(r.shown, r)

\* Such a window has one operation at most.
LEMMA OwnAlone ==
  ASSUME StackType, OwnInv, NEW k \in DOMAIN stack, NEW w, w = stack[k].w, ~win[w].crossed,
         win[w].up \/ win[w].stopable
  PROVE  OwnNow(stack[k], win[w]) /\ \A j \in DOMAIN stack : stack[j].w = w => j = k
<1>1. Own(w)
  BY StackFacts DEF OwnInv
<1>2. \A j \in DOMAIN stack : stack[j].w = w => j = k
  BY <1>1 DEF Own
<1> QED
  BY <1>1, <1>2 DEF Own, OwnNow

\* What the user has done shows after a step of the only operation of the window,
LEMMA OwnMoved ==
  ASSUME StackType, NEW k, NEW g, NEW r, Moves(k, g, r), OwnNext(g, r), NEW w, w = stack[k].w,
         \A j \in DOMAIN stack : stack[j].w = w => j = k
  PROVE  Own(w)'
<1>0. k \in DOMAIN stack
  BY DEF Moves
<1>1. /\ DOMAIN stack' = DOMAIN stack /\ k \in DOMAIN stack
      /\ stack'[k] = g
      /\ \A j \in DOMAIN stack : stack'[j].w = stack[j].w
      /\ win'[w] = r
  BY <1>0, MovesFacts
<1>2. \A j \in DOMAIN stack' : stack'[j].w = w <=> j = k
  BY <1>1
<1> QED
  BY <1>1, <1>2 DEF Own, OwnNext, CacheShows, FrameShows, Shows, Leaves, Pending

\* and after the start of the only one.
LEMMA OwnPushed ==
  ASSUME StackType, NEW g, NEW r, Pushes(g, r), OwnNext(g, r), NEW w, w = g.w,
         \A j \in DOMAIN stack : stack[j].w # w
  PROVE  Own(w)'
<1>1. /\ Top \in Nat /\ DOMAIN stack = 1..Top /\ DOMAIN stack' = 1..Top + 1
      /\ stack'[Top + 1] = g
      /\ \A j \in DOMAIN stack : stack'[j] = stack[j]
      /\ win'[g.w] = r
  BY PushesFacts
<1>2. g.w = w
  OBVIOUS
<1>3. PICK k : k = Top + 1
  OBVIOUS
<1>4. k \in DOMAIN stack' /\ \A j \in DOMAIN stack' : stack'[j].w = w <=> j = k
  BY <1>1, <1>3
<1>5. stack'[k] = g
  BY <1>1, <1>3
<1> QED
  BY <1>1, <1>2, <1>4, <1>5 DEF Own, OwnNext, CacheShows, FrameShows, Shows, Leaves, Pending

\* The cache and the window, when the step has changed neither the directory nor what the
\* window has made, or what it has made is pending.
LEMMA OwnCache ==
  ASSUME Kept, NEW f, NEW q, NEW g, NEW r, OwnNow(f, q), r.made = q.made,
         Pending(f) => r.dir = q.dir /\ Pending(g)
  PROVE  CacheShows(g, r)
<1> SUFFICES ASSUME NEW l \in Lines', Usable(l.file)'
             PROVE  files'[l.file].v >= r.made[l.dir] \/ (l.dir = r.dir /\ Pending(g))
  BY DEF CacheShows
<1>1. l \in Lines /\ Usable(l.file) /\ files'[l.file].v = files[l.file].v
  BY DEF Kept, SameText
<1> QED
  BY <1>1 DEF OwnNow

-----------------------------------------------------------------------------
(* A step that moves one window and keeps the cache keeps the invariant. *)

\* No listing in the cache is older than the last purge of its directory.
LEMMA FreshKept ==
  ASSUME FreshInv, Kept, \A l \in Lines' : Usable(l.file)' => told'[l.dir] = told[l.dir]
  PROVE  FreshInv'
BY DEF FreshInv, Kept, SameText, Usable

\* Nobody writes to the file that a thread is reading.
LEMMA ReadText ==
  ASSUME StackType, StackInv, Kept, NEW i \in DOMAIN stack, stack[i].th = "read"
  PROVE  files'[stack[i].file].v = files[stack[i].file].v
BY DEF StackInv, FrameOk, Kept, SameText

\* A step of operation k,
LEMMA MovesInv ==
  ASSUME BrowseInv, NEW k, NEW g, NEW r, Moves(k, g, r), Kept, ServerType',
         \A l \in Lines' : Half(l.file)' /\ Holds(k, l.file) => Holds(k, l.file)',
         WriterOk(k)',
         \A j \in DOMAIN stack : j # k /\ Writing(j) /\ Writing(k)' => stack[j].file # g.file,
         \A d \in Dirs : server[d] <= server'[d] /\ told'[d] <= server'[d] /\ r.made[d] <= server'[d],
         \A l \in Lines' : Usable(l.file)' => told'[l.dir] = told[l.dir],
         NEW v, v = stack[k].w, ~r.crossed => Own(v)'
  PROVE  BrowseInv'
<1>1. /\ StackType' /\ DOMAIN stack' = DOMAIN stack
      /\ \A j \in DOMAIN stack : j # k => stack'[j] = stack[j]
      /\ \A j \in DOMAIN stack : stack'[j].w = stack[j].w
      /\ v \in Windows /\ win'[v] = r
      /\ \A w \in Windows : w # v => win'[w] = win[w]
  BY MovesFacts DEF BrowseInv
<1>2. StackInv'
  BY MovesStack DEF BrowseInv
<1>3. HalfInv'
  BY HalfMoves DEF BrowseInv
<1>4. WriterInv'
  BY WriterMoves DEF BrowseInv
<1>5. ServerInv'
  <2>1. ASSUME NEW w \in Windows, NEW d \in Dirs PROVE win'[w].made[d] <= server'[d]
    <3>1. CASE w = v
      BY <3>1, <1>1
    <3>2. CASE w # v
      <4>1. win[w].made[d] <= server[d] /\ server[d] <= server'[d] /\ win'[w] = win[w]
        BY <3>2, <1>1 DEF BrowseInv, ServerInv
      <4>2. win[w].made[d] \in Nat /\ server[d] \in Nat /\ server'[d] \in Nat
        <5>1. 0..MaxChanges \subseteq Nat
          OBVIOUS
        <5>2. win[w] \in WinType
          BY DEF BrowseInv, StackType
        <5>3. win[w].made \in [Dirs -> 0..MaxChanges]
          BY <5>2 DEF WinType
        <5> QED
          BY <5>1, <5>3 DEF BrowseInv, ServerType
      <4> QED
        BY <4>1, <4>2
    <3> QED
      BY <3>1, <3>2
  <2> QED
    BY <2>1 DEF ServerInv
<1>6. FreshInv'
  BY FreshKept DEF BrowseInv
<1>7. OwnInv'
  <2> SUFFICES ASSUME NEW w \in Windows, ~win'[w].crossed PROVE Own(w)'
    BY DEF OwnInv
  <2>1. CASE w = v
    BY <2>1, <1>1
  <2>2. CASE w # v
    <3>1. Own(w) /\ win'[w] = win[w]
      BY <2>2, <1>1 DEF BrowseInv, OwnInv
    <3>2. /\ \A i \in DOMAIN stack' : stack'[i].w = w => i \in DOMAIN stack /\ stack'[i] = stack[i]
          /\ \A i \in DOMAIN stack : stack[i].w = w => i \in DOMAIN stack' /\ stack'[i] = stack[i]
      BY <2>2, <1>1
    <3>3. \A l \in Lines' : Usable(l.file)' =>
            l \in Lines /\ Usable(l.file) /\ files'[l.file].v = files[l.file].v
      BY DEF Kept, SameText
    <3>4. \A i \in DOMAIN stack : stack[i].th = "read" => files'[stack[i].file].v = files[stack[i].file].v
      BY ReadText DEF BrowseInv
    <3> QED
      BY <3>1, <3>2, <3>3, <3>4, OwnKept DEF BrowseInv
  <2> QED
    BY <2>1, <2>2
<1> QED
  BY <1>1, <1>2, <1>3, <1>4, <1>5, <1>6, <1>7 DEF BrowseInv, Kept

\* an operation that returns,
LEMMA PopsInv ==
  ASSUME BrowseInv, NEW r, Pops(r), Kept, UNCHANGED <<server, told>>,
         \A l \in Lines' : Half(l.file)' => ~Holds(Top, l.file),
         \A d \in Dirs : r.made[d] <= server[d],
         NEW v, v = stack[Top].w, ~r.crossed => Own(v)'
  PROVE  BrowseInv'
<1>1. /\ StackType' /\ DOMAIN stack' = DOMAIN stack \ {Top}
      /\ \A j \in DOMAIN stack' : stack'[j] = stack[j]
      /\ v \in Windows /\ win'[v] = r
      /\ \A w \in Windows : w # v => win'[w] = win[w]
  BY PopsFacts DEF BrowseInv
<1>2. StackInv'
  BY PopsStack DEF BrowseInv
<1>3. HalfInv'
  BY HalfPops DEF BrowseInv
<1>4. WriterInv'
  BY WriterPops DEF BrowseInv
<1>5. ServerInv'
  BY <1>1 DEF BrowseInv, ServerInv
<1>6. FreshInv'
  BY FreshKept DEF BrowseInv
<1>7. OwnInv'
  <2> SUFFICES ASSUME NEW w \in Windows, ~win'[w].crossed PROVE Own(w)'
    BY DEF OwnInv
  <2>1. CASE w = v
    BY <2>1, <1>1
  <2>2. CASE w # v
    <3>1. Own(w) /\ win'[w] = win[w]
      BY <2>2, <1>1 DEF BrowseInv, OwnInv
    <3>2. /\ \A i \in DOMAIN stack' : stack'[i].w = w => i \in DOMAIN stack /\ stack'[i] = stack[i]
          /\ \A i \in DOMAIN stack : stack[i].w = w => i \in DOMAIN stack' /\ stack'[i] = stack[i]
      BY <2>2, <1>1
    <3>3. \A l \in Lines' : Usable(l.file)' =>
            l \in Lines /\ Usable(l.file) /\ files'[l.file].v = files[l.file].v
      BY DEF Kept, SameText
    <3>4. \A i \in DOMAIN stack : stack[i].th = "read" => files'[stack[i].file].v = files[stack[i].file].v
      BY ReadText DEF BrowseInv
    <3> QED
      BY <3>1, <3>2, <3>3, <3>4, OwnKept DEF BrowseInv
  <2> QED
    BY <2>1, <2>2
<1>8. ServerType'
  BY DEF BrowseInv, ServerType
<1> QED
  BY <1>1, <1>2, <1>3, <1>4, <1>5, <1>6, <1>7, <1>8 DEF BrowseInv, Kept

\* and an operation that starts keep the invariant.
LEMMA PushesInv ==
  ASSUME BrowseInv, NEW g, NEW r, Pushes(g, r), Kept, UNCHANGED <<server, told>>,
         \A l \in Lines', i \in DOMAIN stack : Half(l.file)' /\ stack[i].w = g.w => stack[i].file # l.file,
         g.th \notin {"list", "fill", "read"},
         \A d \in Dirs : r.made[d] <= server[d],
         NEW v, v = g.w, ~r.crossed => Own(v)'
  PROVE  BrowseInv'
<1>1. /\ StackType'
      /\ Top \in Nat /\ DOMAIN stack = 1..Top /\ DOMAIN stack' = 1..Top + 1
      /\ stack'[Top + 1] = g
      /\ \A j \in DOMAIN stack : stack'[j] = stack[j]
      /\ v \in Windows /\ win'[v] = r
      /\ \A w \in Windows : w # v => win'[w] = win[w]
  BY PushesFacts DEF BrowseInv
<1>2. StackInv'
  BY PushesStack DEF BrowseInv
<1>3. HalfInv'
  BY HalfPushes DEF BrowseInv
<1>4. WriterInv'
  BY WriterPushes DEF BrowseInv
<1>5. ServerInv'
  BY <1>1 DEF BrowseInv, ServerInv
<1>6. FreshInv'
  BY FreshKept DEF BrowseInv
<1>7. OwnInv'
  <2> SUFFICES ASSUME NEW w \in Windows, ~win'[w].crossed PROVE Own(w)'
    BY DEF OwnInv
  <2>1. CASE w = v
    BY <2>1, <1>1
  <2>2. CASE w # v
    <3>1. Own(w) /\ win'[w] = win[w]
      BY <2>2, <1>1 DEF BrowseInv, OwnInv
    <3>2. /\ \A i \in DOMAIN stack' : stack'[i].w = w => i \in DOMAIN stack /\ stack'[i] = stack[i]
          /\ \A i \in DOMAIN stack : stack[i].w = w => i \in DOMAIN stack' /\ stack'[i] = stack[i]
      BY <2>2, <1>1
    <3>3. \A l \in Lines' : Usable(l.file)' =>
            l \in Lines /\ Usable(l.file) /\ files'[l.file].v = files[l.file].v
      BY DEF Kept, SameText
    <3>4. \A i \in DOMAIN stack : stack[i].th = "read" => files'[stack[i].file].v = files[stack[i].file].v
      BY ReadText DEF BrowseInv
    <3> QED
      BY <3>1, <3>2, <3>3, <3>4, OwnKept DEF BrowseInv
  <2> QED
    BY <2>1, <2>2
<1>8. ServerType'
  BY DEF BrowseInv, ServerType
<1> QED
  BY <1>1, <1>2, <1>3, <1>4, <1>5, <1>6, <1>7, <1>8 DEF BrowseInv, Kept

\* A step that moves no operation, and of the windows at most "cancel".
LEMMA CacheInvStep ==
  ASSUME BrowseInv, Kept, UNCHANGED <<stack, server, told>>, StackType',
         \A w \in Windows : /\ win'[w].up = win[w].up /\ win'[w].stopable = win[w].stopable
                            /\ win'[w].named = win[w].named /\ win'[w].dir = win[w].dir
                            /\ win'[w].shown = win[w].shown /\ win'[w].made = win[w].made
                            /\ win'[w].crossed = win[w].crossed
  PROVE  BrowseInv'
<1>1. \A i \in DOMAIN stack : stack[i].w \in Windows
  BY StackFacts DEF BrowseInv
<1>2. StackInv'
  <2>1. StackInv
    BY DEF BrowseInv
  <2>2. \A w \in Windows : RequestOk(win'[w])
    BY <2>1 DEF StackInv, RequestOk
  <2>3. \A i \in DOMAIN stack : FrameOk(stack[i], win'[stack[i].w])
    BY <2>1, <1>1 DEF StackInv, FrameOk
  <2> QED
    BY <2>1, <2>2, <2>3 DEF StackInv, Top
<1>3. HalfInv'
  <2> SUFFICES ASSUME NEW l \in Lines', Half(l.file)'
               PROVE  \E i \in DOMAIN stack' : Holds(i, l.file)'
    BY DEF HalfInv
  <2>1. l \in Lines /\ Half(l.file)
    BY DEF Kept, Half, Usable, SameText
  <2>2. PICK i \in DOMAIN stack : Holds(i, l.file)
    BY <2>1 DEF BrowseInv, HalfInv
  <2>3. Holds(i, l.file)'
    BY <2>2, <1>1 DEF Holds
  <2> QED
    BY <2>3
<1>4. WriterInv'
  <2>1. ASSUME NEW i \in DOMAIN stack PROVE WriterOk(i)'
    <3>1. WriterOk(i)
      BY DEF BrowseInv, WriterInv
    <3>2. stack[i].file # NoFile => SameText(stack[i].file)
      BY InCache DEF Kept, BrowseInv
    <3>3. stack[i].th = "read" => stack[i].file # NoFile
      BY BrowseAssumption DEF BrowseInv, StackInv, FrameOk
    <3>4. ASSUME NEW l \in Lines' \cup newdb'.lines, l.file = stack[i].file
          PROVE  l \in Lines \cup newdb.lines
      BY <3>4 DEF Kept
    <3>5. win'[stack[i].w].dir = win[stack[i].w].dir
      BY <1>1
    <3> QED
      BY <3>1, <3>2, <3>3, <3>4, <3>5 DEF WriterOk, Writing, SameText
  <2> QED
    BY <2>1 DEF WriterInv, Writing, BrowseInv
<1>5. ServerInv'
  BY DEF BrowseInv, ServerInv
<1>6. FreshInv'
  BY FreshKept DEF BrowseInv
<1>7. OwnInv'
  <2> SUFFICES ASSUME NEW w \in Windows, ~win[w].crossed PROVE Own(w)'
    BY DEF OwnInv
  <2>1. Own(w)
    BY DEF BrowseInv, OwnInv
  <2>2. \A l \in Lines' : Usable(l.file)' =>
          l \in Lines /\ Usable(l.file) /\ files'[l.file].v = files[l.file].v
    BY DEF Kept, SameText
  <2>3. \A i \in DOMAIN stack : stack[i].th = "read" => files'[stack[i].file].v = files[stack[i].file].v
    BY ReadText DEF BrowseInv
  <2> QED
    BY <2>1, <2>2, <2>3 DEF Own, FrameShows, Shows, Pending, Leaves
<1>8. ServerType'
  BY DEF BrowseInv, ServerType
<1> QED
  BY <1>2, <1>3, <1>4, <1>5, <1>6, <1>7, <1>8 DEF BrowseInv, Kept

-----------------------------------------------------------------------------
(* The steps of a thread. *)

\* The steps that the threads of each operation have.
LEMMA StepFacts ==
  /\ DOMAIN FirstStep = {"connect", "change", "delete", "chdir", "ls"}
  /\ \A op \in DOMAIN FirstStep : /\ FirstStep[op] \in StepsOf[op]
                                  /\ FirstStep[op] \in {"connect", "change", "delete", "chdir", "find"}
  /\ \A op \in Ops : StepsOf[op] # {} => op \in DOMAIN FirstStep
  /\ \A op \in Ops : /\ "connect" \in StepsOf[op] <=> op = "connect"
                     /\ "change" \in StepsOf[op] <=> op = "change"
                     /\ "chdir" \in StepsOf[op] <=> op = "chdir"
                     /\ \A th \in {"delete", "purge", "swap"} : th \in StepsOf[op] <=> op = "delete"
                     /\ \A th \in {"find", "enter", "list", "fill", "read"} : th \in StepsOf[op] <=> op = "ls"
BY DEF FirstStep, StepsOf, Ops

\* An operation whose thread runs: its request is named, in use, and has one thread.
LEMMA Running ==
  ASSUME BrowseInv, NEW i \in DOMAIN stack, stack[i].th # "ended"
  PROVE  /\ stack[i] \in FrameType /\ stack[i].w \in Windows /\ win[stack[i].w] \in WinType
         /\ RequestOk(win[stack[i].w]) /\ FrameOk(stack[i], win[stack[i].w])
         /\ win[stack[i].w].named /\ win[stack[i].w].stopable /\ win[stack[i].w].dir \in Dirs
         /\ stack[i].main = "loop" /\ stack[i].op \in DOMAIN FirstStep /\ stack[i].th \in StepsOf[stack[i].op]
         /\ ~win[stack[i].w].crossed => /\ OwnNow(stack[i], win[stack[i].w])
                                        /\ \A j \in DOMAIN stack : stack[j].w = stack[i].w => j = i
<1>1. stack[i] \in FrameType /\ stack[i].w \in Windows /\ win[stack[i].w] \in WinType
  BY StackFacts DEF BrowseInv, StackType
<1>2. RequestOk(win[stack[i].w]) /\ FrameOk(stack[i], win[stack[i].w]) /\ win[stack[i].w].stopable
  BY <1>1 DEF BrowseInv, StackInv
<1>3. win[stack[i].w].named /\ stack[i].main = "loop" /\ win[stack[i].w].dir \in Dirs
  BY <1>2 DEF FrameOk, RequestOk
<1>4. stack[i].th \in StepsOf[stack[i].op] /\ stack[i].op \in Ops
  BY <1>1 DEF FrameType
<1>5. stack[i].op \in DOMAIN FirstStep
  BY <1>4, StepFacts
<1>6. ASSUME ~win[stack[i].w].crossed
      PROVE  /\ OwnNow(stack[i], win[stack[i].w])
             /\ \A j \in DOMAIN stack : stack[j].w = stack[i].w => j = i
  BY <1>2, <1>6, OwnAlone DEF BrowseInv
<1> QED
  BY <1>1, <1>2, <1>3, <1>4, <1>5, <1>6

\* No window knows of a change that the server has not seen.
LEMMA Versions ==
  ASSUME BrowseInv
  PROVE  /\ \A d \in Dirs : server[d] \in Nat /\ told[d] \in Nat /\ told[d] <= server[d]
         /\ \A w \in Windows, d \in Dirs : win[w].made[d] \in Nat /\ win[w].made[d] <= server[d]
<1>1. 0..MaxChanges \subseteq Nat
  OBVIOUS
<1>2. \A d \in Dirs : server[d] \in Nat /\ told[d] \in Nat /\ told[d] <= server[d]
  BY <1>1 DEF BrowseInv, ServerType, ServerInv
<1>3. ASSUME NEW w \in Windows PROVE win[w].made \in [Dirs -> 0..MaxChanges]
  <2>1. win[w] \in WinType
    BY DEF BrowseInv, StackType
  <2> QED
    BY <2>1 DEF WinType
<1>4. \A w \in Windows, d \in Dirs : win[w].made[d] \in Nat /\ win[w].made[d] <= server[d]
  BY <1>1, <1>3 DEF BrowseInv, ServerInv
<1> QED
  BY <1>2, <1>4

\* A thread that does not write a listing.
LEMMA ThreadInv ==
  ASSUME BrowseInv, NEW k, NEW g, NEW r, Moves(k, g, r), Kept, ServerType',
         stack[k].th \notin {"ended", "fill"}, g.th \notin {"list", "fill", "read"},
         \A d \in Dirs : server[d] <= server'[d] /\ told'[d] <= server'[d] /\ r.made[d] <= server'[d],
         \A l \in Lines' : Usable(l.file)' => told'[l.dir] = told[l.dir],
         r.crossed = win[stack[k].w].crossed,
         ~r.crossed /\ OwnNow(stack[k], win[stack[k].w]) => OwnNext(g, r)
  PROVE  BrowseInv'
<1>1. k \in DOMAIN stack
  BY DEF Moves
<1>2. stack'[k] = g
  BY MovesFacts DEF BrowseInv
<1>3. WriterOk(k)' /\ ~Writing(k)'
  BY <1>2 DEF WriterOk, Writing
<1>4. \A f : ~Holds(k, f)
  BY DEF Holds
<1>5. PICK v : v = stack[k].w
  OBVIOUS
<1>6. ASSUME ~r.crossed PROVE Own(v)'
  <2>1. OwnNow(stack[k], win[v]) /\ \A j \in DOMAIN stack : stack[j].w = v => j = k
    BY <1>1, <1>5, <1>6, Running
  <2> QED
    BY <2>1, <1>5, <1>6, OwnMoved DEF BrowseInv
<1> QED
  BY <1>3, <1>4, <1>5, <1>6, MovesInv

\* A step of a thread with no news of the server.
LEMMA ThreadQuiet ==
  ASSUME BrowseInv, NEW k, NEW g, NEW r, Moves(k, g, r), Kept, UNCHANGED <<server, told>>,
         stack[k].th \notin {"ended", "fill"}, g.th \notin {"list", "fill", "read"},
         r.made = win[stack[k].w].made, r.crossed = win[stack[k].w].crossed,
         ~r.crossed /\ OwnNow(stack[k], win[stack[k].w]) => OwnNext(g, r)
  PROVE  BrowseInv'
<1>1. stack[k].w \in Windows
  BY StackFacts DEF Moves, BrowseInv
<1>2. \A d \in Dirs : server[d] <= server'[d] /\ told'[d] <= server'[d] /\ r.made[d] <= server'[d]
  BY <1>1, Versions
<1>3. ServerType'
  BY DEF BrowseInv, ServerType
<1> QED
  BY <1>2, <1>3, ThreadInv

\* What _gftpui_common_thread_callback() makes of an attempt.
Tried(f, r, ret, g, q) ==
  /\ g.op = f.op /\ g.got = f.got /\ g.file = f.file /\ g.main = "loop"
  /\ \/ g.th = "ended" /\ g.ret = ret
     \/ g.th = FirstStep[f.op] /\ g.ret = "retry" /\ ret = "retry"
  /\ q.up = r.up /\ q.named = r.named /\ q.dir = r.dir /\ q.shown = r.shown
  /\ q.made = r.made /\ q.crossed = r.crossed

\* An attempt of gftpui_generic_thread() moves one operation.
LEMMA TriedMoves ==
  ASSUME BrowseInv, NEW i \in DOMAIN stack, stack[i].th # "ended",
         NEW f \in FrameType, f.w = stack[i].w, f.op = stack[i].op, f.dir = stack[i].dir, f.main = "loop",
         NEW r \in WinType, RequestOk(r), r.named, r.stopable,
         NEW ret \in {"retry", "fatal", "ok", "listed"}, f.ret \in {"retry", ret},
         Attempted(i, f, r, ret)
  PROVE  \E g, q : Moves(i, g, q) /\ Tried(f, r, ret, g, q)
<1>1. /\ f.op \in DOMAIN FirstStep /\ FrameOk(stack[i], win[stack[i].w]) /\ f.op \in Ops
      /\ stack[i].w \in Windows
  BY Running DEF FrameType
<1>2. /\ FirstStep[f.op] \in StepsOf[f.op]
      /\ FirstStep[f.op] \in {"connect", "change", "delete", "chdir", "find"}
  BY <1>1, StepFacts
<1>3. f.left \in 0..Retries
  BY DEF FrameType
<1>4. CASE LastAttempt(f, r, ret)
  <2> DEFINE g == [f EXCEPT !.th = "ended", !.ret = ret]
             q == [r EXCEPT !.stopable = FALSE]
  <2>1. stack' = [stack EXCEPT ![i] = g] /\ win' = [win EXCEPT ![f.w] = q]
    BY <1>4 DEF Attempted
  <2>2. /\ g \in FrameType /\ g.w = f.w /\ g.op = f.op /\ g.got = f.got /\ g.file = f.file /\ g.main = "loop"
        /\ g.dir = f.dir /\ g.th = "ended" /\ g.ret = ret
    BY DEF FrameType
  <2>3. /\ q \in WinType /\ ~q.stopable /\ q.up = r.up /\ q.dir = r.dir /\ q.shown = r.shown
        /\ q.made = r.made /\ q.crossed = r.crossed /\ q.named = r.named
    BY DEF WinType
  <2> HIDE DEF g, q
  <2>4. FrameOk(g, q)
    BY <2>2, <2>3, <1>1 DEF FrameOk
  <2>5. RequestOk(q)
    BY <2>3 DEF RequestOk
  <2>6. Moves(i, g, q) /\ Tried(f, r, ret, g, q)
    BY <2>1, <2>2, <2>3, <2>4, <2>5 DEF Moves, Tried
  <2> QED
    BY <2>6
<1>5. CASE ~LastAttempt(f, r, ret)
  <2> DEFINE g == [f EXCEPT !.th = FirstStep[f.op], !.left = @ - 1]
  <2>1. stack' = [stack EXCEPT ![i] = g] /\ win' = [win EXCEPT ![f.w] = r]
    BY <1>5 DEF Attempted
  <2>2. ret = "retry" /\ f.left # 0
    BY <1>5 DEF LastAttempt, Settled
  <2>3. f.left - 1 \in 0..Retries
    BY <2>2, <1>3, BrowseAssumption
  <2>4. /\ g \in FrameType /\ g.w = f.w /\ g.op = f.op /\ g.got = f.got /\ g.file = f.file /\ g.main = "loop"
        /\ g.dir = f.dir /\ g.th = FirstStep[f.op] /\ g.ret = "retry"
    BY <2>2, <2>3, <1>2 DEF FrameType, ThreadSteps
  <2> HIDE DEF g
  <2>5. FrameOk(g, r)
    BY <2>4, <1>1, <1>2 DEF FrameOk
  <2>6. Moves(i, g, r) /\ Tried(f, r, ret, g, r)
    BY <2>1, <2>2, <2>4, <2>5, <1>2 DEF Moves, Tried
  <2> QED
    BY <2>6
<1> QED
  BY <1>4, <1>5

\* Stop was seen: the thread disconnects.
LEMMA CancelledInv ==
  ASSUME BrowseInv, NEW i \in DOMAIN stack, Cancelled(i)
  PROVE  BrowseInv'
<1> DEFINE f == stack[i]
           r == win[f.w]
           g == [f EXCEPT !.th = "ended"]
           q == [r EXCEPT !.stopable = FALSE]
<1>1. /\ f.op \in DOMAIN FirstStep /\ f.th = FirstStep[f.op]
      /\ stack' = [stack EXCEPT ![i] = g] /\ win' = [win EXCEPT ![f.w] = q]
      /\ UNCHANGED <<index, newdb, files, server, told>>
  BY DEF Cancelled
<1>2. f.th \notin {"ended", "fill", "purge", "swap", "enter", "list", "read"}
  BY <1>1, StepFacts
<1>3. /\ f \in FrameType /\ f.w \in Windows /\ r \in WinType /\ RequestOk(r) /\ FrameOk(f, r)
      /\ r.named /\ f.main = "loop"
  BY <1>2, Running
<1>4. /\ g \in FrameType /\ g.w = f.w /\ g.op = f.op /\ g.dir = f.dir /\ g.main = "loop" /\ g.th = "ended"
      /\ g.ret = f.ret /\ g.got = f.got
  BY <1>3 DEF FrameType
<1>5. /\ q \in WinType /\ ~q.stopable /\ q.up = r.up /\ q.named = r.named /\ q.dir = r.dir /\ q.shown = r.shown
      /\ q.made = r.made /\ q.crossed = r.crossed
  BY <1>3 DEF WinType
<1>6. Kept
  BY <1>1, SameKept DEF BrowseInv
<1> HIDE DEF g, q
<1>7. RequestOk(q) /\ FrameOk(g, q)
  BY <1>3, <1>4, <1>5 DEF RequestOk, FrameOk
<1>8. Moves(i, g, q)
  BY <1>1, <1>2, <1>4, <1>5, <1>7 DEF Moves
<1>9. ASSUME OwnNow(f, r) PROVE OwnNext(g, q)
  <2>1. Pending(g) <=> Pending(f)
    BY <1>4, <1>3 DEF Pending
  <2>2. CacheShows(g, q)
    BY <2>1, <1>5, <1>6, <1>9, OwnCache
  <2> QED
    BY <2>2, <1>4, <1>5, <1>9 DEF OwnNow, OwnNext, FrameShows, Shows, Leaves
<1> QED
  BY <1>1, <1>2, <1>4, <1>5, <1>6, <1>8, <1>9, ThreadQuiet

\* An attempt that neither lists nor changes anything that the window knows.
LEMMA TriedInv ==
  ASSUME BrowseInv, NEW i \in DOMAIN stack, stack[i].th \notin {"ended", "fill"},
         UNCHANGED <<server, told>>, Kept,
         NEW r \in WinType, RequestOk(r), r.named, r.stopable,
         r.made = win[stack[i].w].made, r.crossed = win[stack[i].w].crossed,
         NEW ret \in {"retry", "fatal", "ok", "listed"}, stack[i].ret \in {"retry", ret},
         Attempted(i, stack[i], r, ret),
         \/ r = win[stack[i].w] /\ (ret = "ok" => stack[i].ret = "ok")
         \/ ~r.up /\ ~Pending(stack[i])
         \/ ret = "ok" /\ stack[i].op \in {"connect", "chdir"}
  PROVE  BrowseInv'
<1> DEFINE f == stack[i]
           z == win[f.w]
<1>1. f \in FrameType /\ f.main = "loop" /\ f.th # "ended" /\ f.op \in DOMAIN FirstStep
  BY Running
<1>2. PICK g, q : Moves(i, g, q) /\ Tried(f, r, ret, g, q)
  BY <1>1, TriedMoves
<1>3. g.th \notin {"list", "fill", "read"}
  BY <1>1, <1>2, StepFacts DEF Tried
<1>4. ASSUME OwnNow(f, z) PROVE OwnNext(g, q)
  <2>1. q.made = z.made
    BY <1>2 DEF Tried
  <2>2. CASE r = z /\ (ret = "ok" => f.ret = "ok")
    <3>1. Pending(f) => Pending(g)
      BY <1>2, <2>2 DEF Pending, Tried
    <3>2. q.dir = z.dir /\ q.up = z.up /\ q.shown = z.shown
      BY <1>2, <2>2 DEF Tried
    <3>3. CacheShows(g, q)
      BY <2>1, <3>1, <3>2, <1>4, OwnCache
    <3>4. Leaves(g) => Leaves(f)
      BY <1>2, <2>2 DEF Tried, Leaves
    <3> QED
      BY <3>2, <3>3, <3>4, <2>1, <1>2, <1>3, <1>4 DEF OwnNow, OwnNext, FrameShows, Shows, Tried
  <2>3. CASE ~r.up /\ ~Pending(f)
    <3>1. CacheShows(g, q)
      BY <2>1, <2>3, <1>4, OwnCache
    <3> QED
      BY <3>1, <2>3, <1>2, <1>3 DEF OwnNext, Tried
  <2>4. CASE ret = "ok" /\ f.op \in {"connect", "chdir"}
    <3>1. ~Pending(f)
      BY <2>4 DEF Pending
    <3>2. CacheShows(g, q)
      BY <2>1, <3>1, <1>4, OwnCache
    <3> QED
      BY <3>2, <2>4, <1>2, <1>3 DEF OwnNext, Tried, Leaves
  <2> QED
    BY <2>2, <2>3, <2>4
<1>5. q.made = z.made /\ q.crossed = z.crossed
  BY <1>2 DEF Tried
<1> QED
  BY <1>2, <1>3, <1>4, <1>5, ThreadQuiet

\* gftp_connect(), successful or not
LEMMA ConnectingInv ==
  ASSUME BrowseInv, NEW i \in DOMAIN stack, Connecting(i)
  PROVE  BrowseInv'
<1> DEFINE f == stack[i]
           r == win[f.w]
<1>1. f.th = "connect"
  BY DEF Connecting, Attempts
<1>2. Kept /\ UNCHANGED <<server, told>>
  BY SameKept DEF Connecting, BrowseInv
<1>3. /\ f \in FrameType /\ f.w \in Windows /\ r \in WinType /\ RequestOk(r) /\ FrameOk(f, r)
      /\ r.named /\ r.stopable /\ f.op \in Ops /\ f.th \in StepsOf[f.op]
  BY <1>1, Running DEF FrameType
<1>4. f.ret = "retry" /\ f.op = "connect"
  BY <1>1, <1>3, StepFacts DEF FrameOk
<1>5. CASE Attempted(i, f, [r EXCEPT !.up = TRUE], "ok")
  <2>1. PICK q : q = [r EXCEPT !.up = TRUE]
    OBVIOUS
  <2>2. /\ q \in WinType /\ q.named /\ q.stopable /\ q.made = r.made /\ q.crossed = r.crossed
        /\ q.dir = r.dir /\ q.shown = r.shown
    BY <2>1, <1>3 DEF WinType
  <2>3. RequestOk(q)
    BY <2>2, <1>3 DEF RequestOk
  <2> QED
    BY <2>1, <2>2, <2>3, <1>1, <1>2, <1>4, <1>5, TriedInv
<1>6. ASSUME NEW ret \in {"retry", "fatal"}, Attempted(i, f, r, ret) PROVE BrowseInv'
  BY <1>1, <1>2, <1>3, <1>4, <1>6, TriedInv
<1> QED
  BY <1>5, <1>6 DEF Connecting

\* gftp_set_directory(), successful or not
LEMMA ChdirInv ==
  ASSUME BrowseInv, NEW i \in DOMAIN stack, Chdir(i)
  PROVE  BrowseInv'
<1> DEFINE f == stack[i]
           r == win[f.w]
<1>1. f.th = "chdir"
  BY DEF Chdir, Attempts
<1>2. Kept /\ UNCHANGED <<server, told>>
  BY SameKept DEF Chdir, BrowseInv
<1>3. /\ f \in FrameType /\ f.w \in Windows /\ r \in WinType /\ RequestOk(r) /\ FrameOk(f, r)
      /\ r.named /\ r.stopable /\ f.op \in Ops /\ f.th \in StepsOf[f.op]
  BY <1>1, Running DEF FrameType
<1>4. f.ret = "retry" /\ f.op = "chdir" /\ f.dir \in Dirs
  BY <1>1, <1>3, StepFacts DEF FrameOk
<1>5. CASE Attempted(i, f, [r EXCEPT !.dir = f.dir], "ok")
  <2>1. PICK q : q = [r EXCEPT !.dir = f.dir]
    OBVIOUS
  <2>2. /\ q \in WinType /\ q.named /\ q.stopable /\ q.made = r.made /\ q.crossed = r.crossed
        /\ q.dir = f.dir /\ q.shown = r.shown
    BY <2>1, <1>3, <1>4 DEF WinType
  <2>3. RequestOk(q)
    BY <2>2, <1>4 DEF RequestOk
  <2> QED
    BY <2>1, <2>2, <2>3, <1>1, <1>2, <1>4, <1>5, TriedInv
<1>6. ASSUME r.up, NEW ret \in {"fatal", "retry"}, Attempted(i, f, [r EXCEPT !.up = ret = "fatal"], ret)
      PROVE  BrowseInv'
  <2>1. PICK q : q = [r EXCEPT !.up = ret = "fatal"]
    OBVIOUS
  <2>2. /\ q \in WinType /\ q.named /\ q.stopable /\ q.made = r.made /\ q.crossed = r.crossed
        /\ q.dir = r.dir /\ q.shown = r.shown /\ q.cancel = r.cancel /\ (q.up <=> ret = "fatal")
    BY <2>1, <1>3 DEF WinType
  <2>3. RequestOk(q)
    BY <2>2, <1>3 DEF RequestOk
  <2>4. ret = "fatal" => q = r
    BY <2>1, <1>3, <1>6 DEF WinType
  <2>5. ~Pending(f)
    BY <1>4 DEF Pending
  <2> QED
    BY <2>1, <2>2, <2>3, <2>4, <2>5, <1>1, <1>2, <1>4, <1>6, TriedInv
<1> QED
  BY <1>5, <1>6 DEF Chdir

\* A change on the server makes the listings of its directory old,
LEMMA ChangedFacts ==
  ASSUME BrowseInv, NEW w \in Windows, win[w].dir \in Dirs, Changed(w), told' = told
  PROVE  /\ ServerType'
         /\ \A d \in Dirs : server[d] <= server'[d] /\ told'[d] <= server'[d] /\ win[w].made[d] <= server'[d]
         /\ server'[win[w].dir] = server[win[w].dir] + 1 /\ server[win[w].dir] + 1 \in 0..MaxChanges
<1> DEFINE e == win[w].dir
<1>1. \A d \in Dirs : /\ server[d] \in Nat /\ told[d] \in Nat /\ told[d] <= server[d]
                      /\ win[w].made[d] \in Nat /\ win[w].made[d] <= server[d]
  BY Versions
<1>2. server' = [server EXCEPT ![e] = server[e] + 1] /\ server[e] < MaxChanges
  BY DEF Changed
<1>3. server[e] + 1 \in 0..MaxChanges
  BY <1>1, <1>2, BrowseAssumption
<1>4. server \in [Dirs -> 0..MaxChanges] /\ told \in [Dirs -> 0..MaxChanges]
  BY DEF BrowseInv, ServerType
<1>5. ServerType'
  BY <1>2, <1>3, <1>4 DEF ServerType
<1>6. \A d \in Dirs : server'[d] = IF d = e THEN server[d] + 1 ELSE server[d]
  BY <1>2, <1>4
<1>7. \A d \in Dirs : server[d] <= server'[d] /\ told'[d] <= server'[d] /\ win[w].made[d] <= server'[d]
  BY <1>1, <1>6
<1> QED
  BY <1>3, <1>5, <1>6, <1>7

\* which the window that made it knows;
LEMMA MadeFacts ==
  ASSUME BrowseInv, NEW w \in Windows, win[w].dir \in Dirs, server[win[w].dir] + 1 \in 0..MaxChanges
  PROVE  /\ Made(w) \in WinType /\ Made(w).up = win[w].up /\ Made(w).named = win[w].named
         /\ Made(w).stopable = win[w].stopable /\ Made(w).dir = win[w].dir /\ Made(w).shown = win[w].shown
         /\ Made(w).crossed = win[w].crossed
         /\ \A d \in Dirs : Made(w).made[d] = IF d = win[w].dir THEN server[d] + 1 ELSE win[w].made[d]
<1>1. win[w] \in WinType
  BY DEF BrowseInv, StackType
<1>2. win[w].made \in [Dirs -> 0..MaxChanges]
  BY <1>1 DEF WinType
<1>3. [win[w].made EXCEPT ![win[w].dir] = server[win[w].dir] + 1] \in [Dirs -> 0..MaxChanges]
  BY <1>2
<1>4. Made(w) = [win[w] EXCEPT !.made = [win[w].made EXCEPT ![win[w].dir] = server[win[w].dir] + 1]]
  BY DEF Made
<1> QED
  BY <1>1, <1>2, <1>3, <1>4 DEF WinType

\* a connection that breaks changes nothing else.
LEMMA LostFacts ==
  ASSUME NEW r \in WinType, RequestOk(r)
  PROVE  /\ Lost(r) \in WinType /\ RequestOk(Lost(r)) /\ ~Lost(r).up /\ Lost(r).named = r.named
         /\ Lost(r).stopable = r.stopable /\ Lost(r).made = r.made /\ Lost(r).crossed = r.crossed
         /\ Lost(r).dir = r.dir
BY DEF Lost, WinType, RequestOk

\* What a window has made is pending when the operation that has made it ends or goes on to purge.
LEMMA OwnMade ==
  ASSUME BrowseInv, NEW w \in Windows, win[w].dir \in Dirs, server[win[w].dir] + 1 \in 0..MaxChanges,
         Kept, NEW f, OwnNow(f, win[w]), ~Pending(f), NEW g, Pending(g),
         NEW q, q.made = Made(w).made, q.dir = win[w].dir
  PROVE  CacheShows(g, q)
<1> SUFFICES ASSUME NEW l \in Lines', Usable(l.file)', l.dir # q.dir
             PROVE  files'[l.file].v >= q.made[l.dir]
  BY DEF CacheShows
<1>1. l \in Lines /\ Usable(l.file) /\ files'[l.file].v = files[l.file].v
  BY DEF Kept, SameText
<1>2. l.dir \in Dirs
  BY <1>1, LinesType DEF BrowseInv
<1>3. q.made[l.dir] = win[w].made[l.dir]
  BY <1>2, MadeFacts
<1>4. files[l.file].v >= win[w].made[l.dir]
  BY <1>1 DEF OwnNow
<1> QED
  BY <1>1, <1>3, <1>4

\* An attempt that has changed the directory, and lost its connection or not.
LEMMA TriedChange ==
  ASSUME BrowseInv, NEW i \in DOMAIN stack, stack[i].th \in {"change", "delete"}, Kept,
         Changed(stack[i].w), told' = told,
         \/ stack[i].th = "change" /\ Attempted(i, stack[i], Made(stack[i].w), "ok")
         \/ Attempted(i, stack[i], Lost(win[stack[i].w]), "retry")
  PROVE  BrowseInv'
<1> DEFINE f == stack[i]
           r == win[f.w]
<1>1. f.th \notin {"ended", "fill", "purge", "swap"}
  OBVIOUS
<1>2. /\ f \in FrameType /\ f.w \in Windows /\ r \in WinType /\ RequestOk(r) /\ FrameOk(f, r) /\ r.dir \in Dirs
      /\ r.named /\ r.stopable /\ f.op \in Ops /\ f.th \in StepsOf[f.op] /\ f.main = "loop"
  BY <1>1, Running DEF FrameType
<1>3. f.ret = "retry" /\ f.op \in {"change", "delete"} /\ ~Pending(f) /\ (f.th = "change" => f.op = "change")
  BY <1>1, <1>2, StepFacts DEF FrameOk, Pending
<1>4. /\ ServerType'
      /\ \A d \in Dirs : server[d] <= server'[d] /\ told'[d] <= server'[d] /\ r.made[d] <= server'[d]
      /\ server'[r.dir] = server[r.dir] + 1 /\ server[r.dir] + 1 \in 0..MaxChanges
  BY <1>2, ChangedFacts
<1>5. CASE f.th = "change" /\ Attempted(i, f, Made(f.w), "ok")
  <2>1. PICK m : m = Made(f.w)
    OBVIOUS
  <2>2. /\ m \in WinType /\ m.up = r.up /\ m.named /\ m.stopable /\ m.dir = r.dir /\ m.shown = r.shown
        /\ m.crossed = r.crossed
        /\ \A d \in Dirs : m.made[d] = IF d = r.dir THEN server[d] + 1 ELSE r.made[d]
    BY <2>1, <1>2, <1>4, MadeFacts
  <2>3. RequestOk(m)
    BY <2>2, <1>2 DEF RequestOk
  <2>4. PICK g, q : Moves(i, g, q) /\ Tried(f, m, "ok", g, q)
    BY <2>1, <2>2, <2>3, <1>1, <1>2, <1>3, <1>5, TriedMoves
  <2>5. \A d \in Dirs : q.made[d] <= server'[d]
    <3>1. server'[r.dir] \in Nat /\ server[r.dir] \in Nat
      BY <1>2, <1>4, Versions
    <3> QED
      BY <3>1, <2>2, <2>4, <1>4 DEF Tried
  <2>6. ASSUME OwnNow(f, r) PROVE OwnNext(g, q)
    <3>1. Pending(g) /\ ~Leaves(g) /\ g.op # "ls" /\ g.th # "read"
      BY <2>4, <1>5, <1>3 DEF Tried, Pending, Leaves
    <3>2. CacheShows(g, q)
      BY <3>1, <2>1, <2>2, <2>4, <2>6, <1>2, <1>3, <1>4, OwnMade DEF Tried
    <3> QED
      BY <3>1, <3>2 DEF OwnNext
  <2>7. q.crossed = r.crossed /\ g.th = "ended"
    BY <2>2, <2>4 DEF Tried
  <2> QED
    BY <2>4, <2>5, <2>6, <2>7, <1>1, <1>4, ThreadInv
<1>6. CASE Attempted(i, f, Lost(r), "retry")
  <2>1. PICK m : m = Lost(r)
    OBVIOUS
  <2>2. m \in WinType /\ RequestOk(m) /\ ~m.up /\ m.named /\ m.stopable /\ m.made = r.made /\ m.crossed = r.crossed
    BY <2>1, <1>2, LostFacts
  <2>3. PICK g, q : Moves(i, g, q) /\ Tried(f, m, "retry", g, q)
    BY <2>1, <2>2, <1>1, <1>2, <1>3, <1>6, TriedMoves
  <2>4. g.th \notin {"list", "fill", "read"}
    BY <2>3, <1>3, StepFacts DEF Tried
  <2>5. q.made = r.made /\ q.crossed = r.crossed /\ ~q.up
    BY <2>2, <2>3 DEF Tried
  <2>6. ASSUME OwnNow(f, r) PROVE OwnNext(g, q)
    <3>1. CacheShows(g, q)
      BY <2>5, <2>6, <1>3, OwnCache
    <3> QED
      BY <3>1, <2>4, <2>5 DEF OwnNext
  <2> QED
    BY <2>3, <2>4, <2>5, <2>6, <1>1, <1>4, ThreadInv
<1> QED
  BY <1>5, <1>6

\* An attempt that has changed nothing: the connection is lost, or the server refuses.
LEMMA TriedNothing ==
  ASSUME BrowseInv, NEW i \in DOMAIN stack, stack[i].th \in {"change", "delete", "list"}, Kept,
         UNCHANGED <<server, told>>,
         \/ Attempted(i, stack[i], Lost(win[stack[i].w]), "retry")
         \/ Attempted(i, stack[i], win[stack[i].w], "fatal")
  PROVE  BrowseInv'
<1> DEFINE f == stack[i]
           r == win[f.w]
<1>1. f.th \notin {"ended", "fill", "purge", "swap"}
  OBVIOUS
<1>2. /\ f \in FrameType /\ f.w \in Windows /\ r \in WinType /\ RequestOk(r) /\ FrameOk(f, r)
      /\ r.named /\ r.stopable
  BY <1>1, Running
<1>3. f.ret = "retry" /\ ~Pending(f)
  BY <1>1, <1>2 DEF FrameOk, Pending
<1>4. CASE Attempted(i, f, Lost(r), "retry")
  <2>1. PICK m : m = Lost(r)
    OBVIOUS
  <2>2. m \in WinType /\ RequestOk(m) /\ ~m.up /\ m.named /\ m.stopable /\ m.made = r.made /\ m.crossed = r.crossed
    BY <2>1, <1>2, LostFacts
  <2> QED
    BY <2>1, <2>2, <1>1, <1>3, <1>4, TriedInv
<1>5. CASE Attempted(i, f, r, "fatal")
  BY <1>1, <1>2, <1>3, <1>5, TriedInv
<1> QED
  BY <1>4, <1>5

\* A command that changes the directory
LEMMA ChangingInv ==
  ASSUME BrowseInv, NEW i \in DOMAIN stack, Changing(i)
  PROVE  BrowseInv'
<1>1. stack[i].th = "change" /\ Kept /\ told' = told
  BY SameKept DEF Changing, Attempts, BrowseInv
<1> QED
  BY <1>1, TriedChange, TriedNothing DEF Changing

\* A delete that the server may have done
LEMMA DeletingInv ==
  ASSUME BrowseInv, NEW i \in DOMAIN stack, Deleting(i)
  PROVE  BrowseInv'
<1> DEFINE f == stack[i]
           r == win[f.w]
<1>1. f.th = "delete" /\ Kept /\ told' = told
  BY SameKept DEF Deleting, Attempts, BrowseInv
<1>2. /\ f \in FrameType /\ f.w \in Windows /\ r \in WinType /\ RequestOk(r) /\ FrameOk(f, r) /\ r.dir \in Dirs
      /\ r.named /\ r.stopable /\ f.op \in Ops /\ f.th \in StepsOf[f.op] /\ f.main = "loop"
  BY <1>1, Running DEF FrameType
<1>3. f.ret = "retry" /\ f.op = "delete" /\ ~Pending(f) /\ Leaves(f)
  BY <1>1, <1>2, StepFacts DEF FrameOk, Pending, Leaves
<1>4. ASSUME NEW ret \in {"ok", "fatal", "retry"}, Changed(f.w),
             stack' = [stack EXCEPT ![i].th = "purge", ![i].ret = ret],
             NEW q, win' = [win EXCEPT ![f.w] = q],
             \/ ret = "ok" /\ q = Made(f.w)
             \/ ret = "fatal" /\ q = r
             \/ ret = "retry" /\ q = Lost(r)
      PROVE  BrowseInv'
  <2>1. /\ ServerType'
        /\ \A d \in Dirs : server[d] <= server'[d] /\ told'[d] <= server'[d] /\ r.made[d] <= server'[d]
        /\ server'[r.dir] = server[r.dir] + 1 /\ server[r.dir] + 1 \in 0..MaxChanges
    BY <1>1, <1>2, <1>4, ChangedFacts
  <2>2. PICK g : g = [f EXCEPT !.th = "purge", !.ret = ret]
    OBVIOUS
  <2>3. stack' = [stack EXCEPT ![i] = g]
    BY <1>4, <2>2
  <2>4. /\ g \in FrameType /\ g.w = f.w /\ g.op = f.op /\ g.main = "loop" /\ g.dir = f.dir /\ g.th = "purge"
        /\ g.ret = ret /\ g.got = f.got
    <3>1. "purge" \in StepsOf[f.op] /\ ret \in {"retry", "fatal", "ok", "listed"}
      BY <1>2, <1>3, StepFacts
    <3> QED
      BY <3>1, <2>2, <1>2 DEF FrameType, ThreadSteps
  <2>5. /\ q \in WinType /\ RequestOk(q) /\ q.named /\ q.stopable /\ q.crossed = r.crossed
        /\ q.dir = r.dir /\ (q.up => r.up)
        /\ ret # "ok" => q.made = r.made
        /\ ret = "fatal" => q = r
        /\ ret = "retry" => ~q.up
        /\ ret = "ok" => \A d \in Dirs : q.made[d] = IF d = r.dir THEN server[d] + 1 ELSE r.made[d]
    <3>1. CASE ret = "ok" /\ q = Made(f.w)
      <4>1. /\ q \in WinType /\ q.up = r.up /\ q.named /\ q.stopable /\ q.dir = r.dir /\ q.shown = r.shown
            /\ q.crossed = r.crossed
            /\ \A d \in Dirs : q.made[d] = IF d = r.dir THEN server[d] + 1 ELSE r.made[d]
        BY <3>1, <2>1, <1>2, MadeFacts
      <4>2. RequestOk(q)
        BY <4>1, <1>2 DEF RequestOk
      <4> QED
        BY <4>1, <4>2, <3>1
    <3>2. CASE ret = "fatal" /\ q = r
      BY <3>2, <1>2
    <3>3. CASE ret = "retry" /\ q = Lost(r)
      BY <3>3, <1>2, LostFacts
    <3> QED
      BY <3>1, <3>2, <3>3, <1>4
  <2>6. FrameOk(g, q)
    BY <2>4, <2>5, <1>2 DEF FrameOk
  <2>7. Moves(i, g, q)
    BY <2>3, <2>4, <2>5, <2>6, <1>1, <1>4 DEF Moves
  <2>8. \A d \in Dirs : q.made[d] <= server'[d]
    <3>1. server'[r.dir] \in Nat /\ server[r.dir] \in Nat
      BY <1>2, <2>1, Versions
    <3> QED
      BY <3>1, <2>1, <2>5
  <2>9. ASSUME OwnNow(f, r) PROVE OwnNext(g, q)
    <3>1. g.op # "ls" /\ g.th # "read"
      BY <2>4, <1>3
    <3>2. CASE ret = "ok"
      <4>1. Pending(g) /\ ~Leaves(g)
        BY <3>2, <2>4, <1>3 DEF Pending, Leaves
      <4>2. CacheShows(g, q)
        <5>1. q.made = Made(f.w).made
          BY <3>2, <1>4
        <5> QED
          BY <5>1, <4>1, <2>1, <2>5, <2>9, <1>1, <1>2, <1>3, OwnMade
      <4> QED
        BY <4>1, <4>2, <3>1 DEF OwnNext
    <3>3. CASE ret # "ok"
      <4>1. CacheShows(g, q)
        BY <3>3, <2>5, <2>9, <1>1, <1>3, OwnCache
      <4>2. q.up => Shows(q.shown, q)
        BY <3>3, <2>5, <2>9, <1>3, <1>4 DEF OwnNow
      <4> QED
        BY <4>1, <4>2, <3>1 DEF OwnNext
    <3> QED
      BY <3>2, <3>3
  <2> QED
    BY <2>1, <2>4, <2>5, <2>7, <2>8, <2>9, <1>1, ThreadInv
<1>5. CASE Changed(f.w) /\ stack' = [stack EXCEPT ![i].th = "purge", ![i].ret = "ok"] /\ win' = [win EXCEPT ![f.w] = Made(f.w)]
  BY <1>4, <1>5
<1>6. CASE Changed(f.w) /\ stack' = [stack EXCEPT ![i].th = "purge", ![i].ret = "fatal"] /\ UNCHANGED win
  <2>1. win' = [win EXCEPT ![f.w] = r]
    BY <1>6, <1>2 DEF BrowseInv, StackType
  <2> QED
    BY <2>1, <1>4, <1>6
<1>7. CASE Changed(f.w) /\ stack' = [stack EXCEPT ![i].th = "purge", ![i].ret = "retry"] /\ win' = [win EXCEPT ![f.w] = Lost(r)]
  BY <1>4, <1>7
<1>8. CASE Changed(f.w) /\ Attempted(i, f, Lost(r), "retry")
  BY <1>1, <1>8, TriedChange
<1>9. CASE UNCHANGED server /\ (Attempted(i, f, Lost(r), "retry") \/ Attempted(i, f, r, "fatal"))
  BY <1>1, <1>9, TriedNothing
<1> QED
  BY <1>5, <1>6, <1>7, <1>8, <1>9 DEF Deleting

\* After the first half of a purge no listing of the directory is usable.
LEMMA PurgeFacts ==
  ASSUME BrowseInv, NEW w \in Windows, NEW whole \in BOOLEAN, PurgeRead(w, whole), index' = index, server' = server
  PROVE  /\ Kept /\ ServerType'
         /\ \A d \in Dirs : server[d] <= server'[d] /\ told'[d] <= server'[d] /\ win[w].made[d] <= server'[d]
         /\ \A l \in Lines' : Usable(l.file)' => told'[l.dir] = told[l.dir]
         /\ \A l \in Lines' : (IF whole THEN win[w].named ELSE l.dir = win[w].dir) => ~Usable(l.file)'
<1>1. /\ Kept
      /\ \A l \in Lines' : (IF whole THEN win[w].named ELSE l.dir = win[w].dir) => ~files'[l.file].on
  BY PurgeReadKept DEF BrowseInv
<1>2. told' = [d \in Dirs |-> IF (IF whole THEN win[w].named ELSE d = win[w].dir) THEN server[d] ELSE told[d]]
  BY DEF PurgeRead
<1>3. \A d \in Dirs : /\ server[d] \in Nat /\ told[d] \in Nat /\ told[d] <= server[d]
                      /\ win[w].made[d] <= server[d]
  BY Versions
<1>4. ServerType'
  BY <1>2 DEF BrowseInv, ServerType
<1>5. \A d \in Dirs : server[d] <= server'[d] /\ told'[d] <= server'[d] /\ win[w].made[d] <= server'[d]
  BY <1>2, <1>3
<1>6. ASSUME NEW l \in Lines', Usable(l.file)' PROVE told'[l.dir] = told[l.dir]
  <2>1. ~(IF whole THEN win[w].named ELSE l.dir = win[w].dir)
    BY <1>1, <1>6 DEF Usable
  <2>2. l \in Lines /\ CacheType
    BY <1>1, <1>6 DEF Kept, BrowseInv
  <2>3. l.dir \in Dirs
    BY <2>2, LinesType
  <2> QED
    BY <2>1, <2>3, <1>2
<1> QED
  BY <1>1, <1>4, <1>5, <1>6 DEF Usable

\* gftp_delete_cache_entry() in the thread of a delete: it reads the index,
LEMMA DeletePurgesInv ==
  ASSUME BrowseInv, NEW i \in DOMAIN stack, DeletePurges(i)
  PROVE  BrowseInv'
<1> DEFINE f == stack[i]
           r == win[f.w]
<1>1. f.th = "purge" /\ UNCHANGED <<index, server>>
  BY DEF DeletePurges
<1>2. /\ f \in FrameType /\ f.w \in Windows /\ r \in WinType /\ RequestOk(r) /\ FrameOk(f, r)
      /\ r.named /\ r.stopable /\ f.op \in Ops /\ f.th \in StepsOf[f.op] /\ f.main = "loop"
      /\ f.ret \in {"retry", "fatal", "ok", "listed"}
  BY <1>1, Running DEF FrameType
<1>3. f.op = "delete"
  BY <1>1, <1>2, StepFacts
<1>4. CASE PurgeRead(f.w, FALSE) /\ stack' = [stack EXCEPT ![i].th = "swap"] /\ UNCHANGED win
  <2>1. /\ Kept /\ ServerType'
        /\ \A d \in Dirs : server[d] <= server'[d] /\ told'[d] <= server'[d] /\ r.made[d] <= server'[d]
        /\ \A l \in Lines' : Usable(l.file)' => told'[l.dir] = told[l.dir]
    BY <1>1, <1>2, <1>4, PurgeFacts
  <2>2. PICK g : g = [f EXCEPT !.th = "swap"]
    OBVIOUS
  <2>3. stack' = [stack EXCEPT ![i] = g] /\ win' = [win EXCEPT ![f.w] = r]
    BY <1>2, <1>4, <2>2 DEF BrowseInv, StackType
  <2>4. /\ g \in FrameType /\ g.w = f.w /\ g.op = f.op /\ g.main = "loop" /\ g.dir = f.dir /\ g.th = "swap"
        /\ g.ret = f.ret /\ g.got = f.got
    <3>1. "swap" \in StepsOf[f.op]
      BY <1>2, <1>3, StepFacts
    <3> QED
      BY <3>1, <2>2, <1>2 DEF FrameType, ThreadSteps
  <2>5. FrameOk(g, r)
    BY <2>4, <1>2 DEF FrameOk
  <2>6. Moves(i, g, r)
    BY <2>3, <2>4, <2>5, <1>1, <1>2 DEF Moves
  <2>7. ASSUME OwnNow(f, r) PROVE OwnNext(g, r)
    <3>1. Pending(f) => Pending(g)
      BY <2>4, <1>2 DEF Pending
    <3>2. CacheShows(g, r)
      BY <3>1, <2>1, <2>7, OwnCache
    <3> QED
      BY <3>2, <2>4, <2>7, <1>3 DEF OwnNow, OwnNext, Leaves
  <2> QED
    BY <2>1, <2>4, <2>6, <2>7, <1>1, ThreadInv
<1>5. CASE Attempted(i, f, r, f.ret) /\ UNCHANGED <<files, newdb, told>>
  <2>1. Kept
    BY <1>1, <1>5, SameKept DEF BrowseInv
  <2> QED
    BY <2>1, <1>1, <1>2, <1>5, TriedInv
<1> QED
  BY <1>4, <1>5 DEF DeletePurges

\* and replaces it.
LEMMA DeleteSwapsInv ==
  ASSUME BrowseInv, NEW i \in DOMAIN stack, DeleteSwaps(i)
  PROVE  BrowseInv'
<1> DEFINE f == stack[i]
           r == win[f.w]
<1>1. f.th = "swap" /\ PurgeSwap /\ UNCHANGED <<files, server, told>> /\ Attempted(i, f, r, f.ret)
  BY DEF DeleteSwaps
<1>2. /\ r \in WinType /\ RequestOk(r) /\ r.named /\ r.stopable
      /\ f.ret \in {"retry", "fatal", "ok", "listed"}
  BY <1>1, Running DEF FrameType
<1>3. Kept
  BY <1>1, PurgeSwapKept DEF BrowseInv
<1> QED
  BY <1>1, <1>2, <1>3, TriedInv

\* What gftp_find_cache_entry() returns is a usable file of the directory.
LEMMA FoundFacts ==
  ASSUME NEW d, Found(d) # NoFile
  PROVE  Found(d) \in CacheFiles /\ Usable(Found(d)) /\ \E l \in Lines : l.dir = d /\ l.file = Found(d)
<1> DEFINE first == {i \in DOMAIN index.lines :
                       index.lines[i].dir = d /\ \A j \in 1..i - 1 : index.lines[j].dir # d}
           usable == {f \in CacheFiles : /\ files[f].on /\ files[f].part # "empty"
                                        /\ \E i \in first : index.lines[i].file = f}
<1>1. Found(d) = IF usable = {} THEN NoFile ELSE CHOOSE f \in usable : TRUE
  BY DEF Found
<1>2. Found(d) \in usable
  BY <1>1
<1>3. PICK i \in first : index.lines[i].file = Found(d)
  BY <1>2
<1>4. index.lines[i] \in Lines /\ index.lines[i].dir = d
  BY <1>3 DEF Lines, ToSet
<1> QED
  BY <1>2, <1>3, <1>4 DEF Usable

\* gftp_find_cache_entry() finds a usable file, or none.
LEMMA FindInv ==
  ASSUME BrowseInv, NEW i \in DOMAIN stack, Find(i)
  PROVE  BrowseInv'
<1> DEFINE f == stack[i]
           r == win[f.w]
<1>1. f.th = "find" /\ UNCHANGED <<win, index, newdb, files, server, told>>
  BY DEF Find, Attempts
<1>2. /\ f \in FrameType /\ f.w \in Windows /\ r \in WinType /\ RequestOk(r) /\ FrameOk(f, r)
      /\ r.named /\ r.stopable /\ r.dir \in Dirs /\ f.op \in Ops /\ f.th \in StepsOf[f.op] /\ f.main = "loop"
  BY <1>1, Running DEF FrameType
<1>3. f.op = "ls" /\ f.ret = "retry"
  BY <1>1, <1>2, StepFacts DEF FrameOk
<1>4. Kept
  BY <1>1, SameKept DEF BrowseInv
<1>5. PICK c : c = Found(r.dir)
  OBVIOUS
<1>6. c # NoFile => c \in CacheFiles /\ Usable(c) /\ \E l \in Lines : l.dir = r.dir /\ l.file = c
  BY <1>5, FoundFacts
<1>7. PICK g : g = [f EXCEPT !.th = IF c = NoFile THEN "enter" ELSE "read", !.file = c]
  OBVIOUS
<1>8. stack' = [stack EXCEPT ![i] = g] /\ win' = [win EXCEPT ![f.w] = r]
  BY <1>1, <1>2, <1>5, <1>7 DEF Find, BrowseInv, StackType
<1>9. /\ g \in FrameType /\ g.w = f.w /\ g.op = "ls" /\ g.main = "loop" /\ g.dir = f.dir
      /\ g.th = (IF c = NoFile THEN "enter" ELSE "read") /\ g.file = c /\ g.ret = "retry" /\ g.got = f.got
  <2>1. "enter" \in StepsOf["ls"] /\ "read" \in StepsOf["ls"]
    BY DEF StepsOf
  <2> QED
    BY <2>1, <1>2, <1>3, <1>6, <1>7 DEF FrameType, ThreadSteps
<1>10. FrameOk(g, r)
  BY <1>2, <1>6, <1>9 DEF FrameOk
<1>11. Moves(i, g, r)
  BY <1>1, <1>2, <1>8, <1>9, <1>10 DEF Moves
<1>12. stack'[i] = g
  BY <1>11, MovesFacts DEF BrowseInv
<1>13. WriterOk(i)' /\ ~Writing(i)'
  BY <1>1, <1>6, <1>9, <1>12 DEF WriterOk, Writing, Usable
<1>14. \A d \in Dirs : server[d] <= server'[d] /\ told'[d] <= server'[d] /\ r.made[d] <= server'[d]
  BY <1>1, <1>2, Versions
<1>15. PICK v : v = f.w
  OBVIOUS
<1>16. ASSUME ~r.crossed PROVE Own(v)'
  <2>1. OwnNow(f, r) /\ \A j \in DOMAIN stack : stack[j].w = v => j = i
    BY <1>1, <1>15, <1>16, Running
  <2>2. ~Pending(f) /\ ~Leaves(g)
    BY <1>3, <1>9 DEF Pending, Leaves
  <2>3. CacheShows(g, r)
    BY <2>1, <2>2, <1>4, OwnCache
  <2>4. g.th = "read" => files'[c].v >= r.made[r.dir]
    BY <2>1, <2>2, <1>1, <1>6, <1>9 DEF OwnNow
  <2>5. r.up /\ g.got # Nothing => Shows(g.got, r)
    BY <2>1, <1>3, <1>9 DEF OwnNow, FrameShows
  <2>6. OwnNext(g, r)
    BY <2>2, <2>3, <2>4, <2>5, <1>9 DEF OwnNext
  <2> QED
    BY <2>1, <2>6, <1>11, <1>15, OwnMoved DEF BrowseInv
<1>17. \A x : ~Holds(i, x)
  BY <1>1 DEF Holds
<1>18. ServerType'
  BY <1>1 DEF BrowseInv, ServerType
<1> QED
  BY <1>1, <1>4, <1>11, <1>13, <1>14, <1>15, <1>16, <1>17, <1>18, MovesInv

\* gftp_new_cache_entry() adds a line for a file that is still empty.
LEMMA EnterInv ==
  ASSUME BrowseInv, NEW i \in DOMAIN stack, Enter(i)
  PROVE  BrowseInv'
<1> DEFINE f == stack[i]
           r == win[f.w]
<1>1. f.th = "enter" /\ UNCHANGED <<win, newdb, server, told>>
  BY DEF Enter
<1>2. /\ f \in FrameType /\ f.w \in Windows /\ r \in WinType /\ RequestOk(r) /\ FrameOk(f, r)
      /\ r.named /\ r.stopable /\ r.dir \in Dirs /\ f.op \in Ops /\ f.th \in StepsOf[f.op] /\ f.main = "loop"
  BY <1>1, Running DEF FrameType
<1>3. f.op = "ls" /\ f.ret = "retry" /\ f.file = NoFile
  BY <1>1, <1>2, StepFacts DEF FrameOk
<1>4. ASSUME NEW g, stack' = [stack EXCEPT ![i] = g], NEW c \in CacheFiles \cup {NoFile},
             g = [f EXCEPT !.th = "list", !.file = c], Kept,
             c # NoFile => files'[c].part = "empty",
             c # NoFile => \A l \in Lines' \cup newdb'.lines : l.file = c => l.dir = r.dir,
             c # NoFile => \A j \in DOMAIN stack : stack[j].file # c
      PROVE  BrowseInv'
  <2>1. /\ g \in FrameType /\ g.w = f.w /\ g.op = "ls" /\ g.main = "loop" /\ g.dir = f.dir
        /\ g.th = "list" /\ g.file = c /\ g.ret = "retry" /\ g.got = f.got
    <3>1. "list" \in StepsOf["ls"]
      BY DEF StepsOf
    <3> QED
      BY <3>1, <1>2, <1>3, <1>4 DEF FrameType, ThreadSteps
  <2>2. FrameOk(g, r)
    BY <2>1, <1>2 DEF FrameOk
  <2>3. Moves(i, g, r)
    <3>1. win' = [win EXCEPT ![f.w] = r]
      BY <1>1, <1>2 DEF BrowseInv, StackType
    <3> QED
      BY <3>1, <2>1, <2>2, <1>1, <1>2, <1>4 DEF Moves
  <2>4. stack'[i] = g
    BY <2>3, MovesFacts DEF BrowseInv
  <2>5. WriterOk(i)'
    BY <2>1, <2>4, <1>1, <1>2, <1>4 DEF WriterOk, Writing
  <2>6. \A j \in DOMAIN stack : j # i /\ Writing(j) /\ Writing(i)' => stack[j].file # g.file
    BY <2>1, <2>4, <1>4 DEF Writing
  <2>7. \A d \in Dirs : server[d] <= server'[d] /\ told'[d] <= server'[d] /\ r.made[d] <= server'[d]
    BY <1>1, <1>2, Versions
  <2>8. PICK v : v = f.w
    OBVIOUS
  <2>9. ASSUME ~r.crossed PROVE Own(v)'
    <3>1. OwnNow(f, r) /\ \A j \in DOMAIN stack : stack[j].w = v => j = i
      BY <1>1, <2>8, <2>9, Running
    <3>2. ~Pending(f) /\ ~Leaves(g)
      BY <1>3, <2>1 DEF Pending, Leaves
    <3>3. CacheShows(g, r)
      BY <3>1, <3>2, <1>4, OwnCache
    <3>4. r.up /\ g.got # Nothing => Shows(g.got, r)
      BY <3>1, <1>3, <2>1 DEF OwnNow, FrameShows
    <3>5. OwnNext(g, r)
      BY <3>2, <3>3, <3>4, <2>1 DEF OwnNext
    <3> QED
      BY <3>1, <3>5, <2>3, <2>8, OwnMoved DEF BrowseInv
  <2>10. \A x : ~Holds(i, x)
    BY <1>1 DEF Holds
  <2>11. ServerType'
    BY <1>1 DEF BrowseInv, ServerType
  <2> QED
    BY <1>1, <1>4, <2>3, <2>5, <2>6, <2>7, <2>8, <2>9, <2>10, <2>11, MovesInv
<1>5. CASE /\ FreeFiles # {} /\ AddLine(r.dir, NewFile)
           /\ stack' = [stack EXCEPT ![i].th = "list", ![i].file = NewFile]
  <2>1. PICK c : c = NewFile
    OBVIOUS
  <2>2. c \in FreeFiles
    BY <2>1, <1>5 DEF NewFile
  <2>3. c \in CacheFiles /\ c # NoFile /\ (\A l \in Lines \cup newdb.lines : l.file # c)
        /\ \A j \in DOMAIN stack : stack[j].file # c
    BY <2>2, BrowseAssumption DEF FreeFiles, Lines
  <2>4. /\ Kept
        /\ \A l \in Lines' \cup newdb'.lines : (l \in Lines \cup newdb.lines /\ l.file # c) \/ l = [dir |-> r.dir, file |-> c]
        /\ files'[c].part = "empty"
    BY <2>1, <2>2, <1>1, <1>2, <1>5, AddLineKept DEF BrowseInv
  <2>5. \A l \in Lines' \cup newdb'.lines : l.file = c => l.dir = r.dir
    BY <2>4
  <2>6. PICK g : g = [f EXCEPT !.th = "list", !.file = c]
    OBVIOUS
  <2>7. stack' = [stack EXCEPT ![i] = g]
    BY <2>1, <2>6, <1>5
  <2> QED
    BY <2>3, <2>4, <2>5, <2>6, <2>7, <1>4
<1>6. CASE stack' = [stack EXCEPT ![i].th = "list"] /\ UNCHANGED <<index, files>>
  <2>1. PICK g : g = [f EXCEPT !.th = "list"]
    OBVIOUS
  <2>2. stack' = [stack EXCEPT ![i] = g]
    BY <2>1, <1>6
  <2>3. g = [f EXCEPT !.th = "list", !.file = NoFile]
    BY <2>1, <1>2, <1>3 DEF FrameType
  <2>4. Kept
    BY <1>1, <1>6, SameKept DEF BrowseInv
  <2> QED
    BY <2>2, <2>3, <2>4, <1>4
<1> QED
  BY <1>5, <1>6 DEF Enter


\* The thread of a listing writes its file: the listing comes, or its end.
WritesFile(k, g, r, x, p, v) ==
  /\ stack[k].file = x /\ x # NoFile /\ UNCHANGED <<index, newdb, server, told>>
  /\ files' = [files EXCEPT ![x].part = p, ![x].v = v]
  /\ g.op = "ls" /\ r.dir = win[stack[k].w].dir /\ r.made = win[stack[k].w].made
  /\ r.crossed = win[stack[k].w].crossed
  /\ \/ /\ stack[k].th = "list" /\ g.th = "fill" /\ g.file = x /\ p = "part"
        /\ v = server[r.dir] /\ g.got = [dir |-> r.dir, v |-> v]
     \/ /\ stack[k].th = "fill" /\ g.th = "ended" /\ p \in {"whole", "short"} /\ v = files[x].v

\* A thread writes to the file that it has open and to no other;
LEMMA WrittenFacts ==
  ASSUME BrowseInv, NEW k, NEW g, NEW r, Moves(k, g, r), NEW x, NEW p, NEW v, WritesFile(k, g, r, x, p, v)
  PROVE  /\ stack[k].op = "ls" /\ stack[k].th # "ended" /\ Writing(k)
         /\ x \in CacheFiles /\ v \in 0..MaxChanges /\ p \in {"part", "short", "whole"}
         /\ files'[x].part = p /\ files'[x].v = v /\ files'[x].on = files[x].on
         /\ \A c \in CacheFiles : /\ c # x => files'[c] = files[c]
                                  /\ files'[c].on = files[c].on /\ files'[c].over = files[c].over
         /\ CacheType' /\ CacheInv' /\ Lines' = Lines
         /\ \A l \in Lines \cup newdb.lines : l.file \in CacheFiles /\ l.dir \in Dirs /\ (l.file = x => l.dir = r.dir)
         /\ r.dir \in Dirs
<1>1. k \in DOMAIN stack /\ stack[k].th \in {"list", "fill"} /\ stack[k].file = x
  BY DEF Moves, WritesFile
<1>2. /\ stack[k] \in FrameType /\ stack[k].w \in Windows /\ win[stack[k].w].dir \in Dirs
      /\ stack[k].th \in StepsOf[stack[k].op] /\ stack[k].op \in Ops
  BY <1>1, Running DEF FrameType
<1>3. stack[k].op = "ls" /\ Writing(k)
  BY <1>1, <1>2, StepFacts DEF Writing, WritesFile
<1>4. x \in CacheFiles
  BY <1>1, <1>2 DEF FrameType, WritesFile
<1>5. files \in [CacheFiles -> FileType]
  BY DEF BrowseInv, CacheType
<1>6. v \in 0..MaxChanges /\ p \in {"part", "short", "whole"} /\ r.dir \in Dirs
  BY <1>2, <1>4, <1>5 DEF WritesFile, FileType, BrowseInv, ServerType
<1>7. \A y \in FileType : LET z == [y EXCEPT !.part = p, !.v = v]
                          IN z \in FileType /\ z.on = y.on /\ z.over = y.over /\ z.part = p /\ z.v = v
  BY <1>6 DEF FileType
<1>8. files' = [files EXCEPT ![x] = [files[x] EXCEPT !.part = p, !.v = v]]
  BY DEF WritesFile
<1>9. /\ files' \in [CacheFiles -> FileType]
      /\ files'[x].part = p /\ files'[x].v = v /\ files'[x].on = files[x].on
      /\ \A c \in CacheFiles : /\ c # x => files'[c] = files[c]
                               /\ files'[c].on = files[c].on /\ files'[c].over = files[c].over
  BY <1>4, <1>5, <1>7, <1>8
<1>10. Lines' = Lines /\ UNCHANGED <<index, newdb>>
  BY DEF WritesFile, Lines
<1>11. CacheType'
  BY <1>9, <1>10 DEF BrowseInv, CacheType
<1>12. \A l \in Lines \cup newdb.lines : l.file \in CacheFiles /\ l.dir \in Dirs
  BY LinesType DEF BrowseInv
<1>13. CacheInv'
  BY <1>9, <1>10, <1>12 DEF BrowseInv, CacheInv
<1>14. WriterOk(k)
  BY <1>1 DEF BrowseInv, WriterInv
<1>15. \A l \in Lines \cup newdb.lines : l.file = x => l.dir = r.dir
  BY <1>1, <1>3, <1>14 DEF WriterOk, WritesFile
<1> QED
  BY <1>1, <1>3, <1>4, <1>6, <1>9, <1>10, <1>11, <1>12, <1>13, <1>15

\* the invariant holds after that, whatever it writes.
LEMMA WrittenInv ==
  ASSUME BrowseInv, NEW k, NEW g, NEW r, Moves(k, g, r), NEW x, NEW p, NEW v, WritesFile(k, g, r, x, p, v),
         ~r.crossed /\ OwnNow(stack[k], win[stack[k].w]) => (r.up /\ g.got # Nothing => Shows(g.got, r))
  PROVE  BrowseInv'
<1> DEFINE f == stack[k]
<1>1. k \in DOMAIN stack
  BY DEF Moves
<1>2. /\ StackType' /\ DOMAIN stack' = DOMAIN stack /\ stack'[k] = g
      /\ \A j \in DOMAIN stack : j # k => stack'[j] = stack[j]
      /\ \A j \in DOMAIN stack : stack'[j].w = stack[j].w
      /\ f.w \in Windows /\ win'[f.w] = r
      /\ \A w \in Windows : w # f.w => win'[w] = win[w]
  BY MovesFacts DEF BrowseInv
<1>3. StackInv'
  BY MovesStack DEF BrowseInv
<1>4. /\ f.op = "ls" /\ f.th # "ended" /\ Writing(k)
      /\ x \in CacheFiles /\ v \in 0..MaxChanges /\ p \in {"part", "short", "whole"}
      /\ files'[x].part = p /\ files'[x].v = v /\ files'[x].on = files[x].on
      /\ \A c \in CacheFiles : /\ c # x => files'[c] = files[c]
                               /\ files'[c].on = files[c].on /\ files'[c].over = files[c].over
      /\ CacheType' /\ CacheInv' /\ Lines' = Lines
      /\ \A l \in Lines \cup newdb.lines : l.file \in CacheFiles /\ l.dir \in Dirs /\ (l.file = x => l.dir = r.dir)
      /\ r.dir \in Dirs
  BY WrittenFacts
<1>5. /\ f.file = x /\ x # NoFile /\ UNCHANGED <<index, newdb, server, told>>
      /\ g.op = "ls" /\ r.dir = win[f.w].dir /\ r.made = win[f.w].made /\ r.crossed = win[f.w].crossed
      /\ \/ /\ f.th = "list" /\ g.th = "fill" /\ g.file = x /\ p = "part"
            /\ v = server[r.dir] /\ g.got = [dir |-> r.dir, v |-> v]
         \/ /\ f.th = "fill" /\ g.th = "ended" /\ p \in {"whole", "short"} /\ v = files[x].v
  BY DEF WritesFile
<1>6. WriterOk(k)
  BY <1>1 DEF BrowseInv, WriterInv
<1>7. f.th = "list" => files[x].part = "empty"
  BY <1>4, <1>5, <1>6 DEF WriterOk
<1>8. f.th = "fill" => files[x].part = "part"
  BY <1>4, <1>5, <1>6 DEF WriterOk
<1>9. HalfInv'
  <2> SUFFICES ASSUME NEW l \in Lines', Half(l.file)'
               PROVE  \E i \in DOMAIN stack' : Holds(i, l.file)'
    BY DEF HalfInv
  <2>1. l \in Lines /\ l.file \in CacheFiles
    BY <1>4
  <2>2. CASE l.file = x
    <3>1. g.th = "fill" /\ g.file = x
      BY <2>2, <1>4, <1>5 DEF Half
    <3>2. Holds(k, l.file)'
      BY <3>1, <2>2, <1>2 DEF Holds
    <3> QED
      BY <3>2, <1>1, <1>2
  <2>3. CASE l.file # x
    <3>1. Half(l.file)
      BY <2>1, <2>3, <1>4 DEF Half
    <3>2. PICK i \in DOMAIN stack : Holds(i, l.file)
      BY <3>1, <2>1 DEF BrowseInv, HalfInv
    <3>3. i # k
      BY <3>2, <2>3, <1>5 DEF Holds
    <3>4. stack[i].w # f.w /\ stack[i].w \in Windows
      BY <3>2, <3>3, <1>1, <1>4, HolderIsLast, StackFacts DEF BrowseInv
    <3>5. stack'[i] = stack[i] /\ win'[stack[i].w] = win[stack[i].w]
      BY <3>3, <3>4, <1>2
    <3>6. Holds(i, l.file)'
      BY <3>2, <3>5, <1>2 DEF Holds
    <3> QED
      BY <3>6, <1>2
  <2> QED
    BY <2>2, <2>3
<1>10. \A i \in DOMAIN stack : win'[stack[i].w].dir = win[stack[i].w].dir
  BY <1>2, <1>5, StackFacts DEF BrowseInv
<1>11. WriterInv'
  <2>1. ASSUME NEW i \in DOMAIN stack, i # k PROVE WriterOk(i)'
    <3>1. WriterOk(i) /\ stack'[i] = stack[i] /\ win'[stack[i].w].dir = win[stack[i].w].dir
      BY <2>1, <1>2, <1>10 DEF BrowseInv, WriterInv
    <3>2. Writing(i)' => Writing(i)
      BY <3>1 DEF Writing
    <3>3. Writing(i) => stack[i].file # x /\ stack[i].file \in CacheFiles
      BY <2>1, <1>1, <1>4, <1>5, InCache DEF BrowseInv, WriterInv, Writing
    <3>4. stack[i].th = "read" => stack[i].file \in CacheFiles
      BY DEF BrowseInv, StackInv, FrameOk
    <3>5. stack[i].th = "read" => files'[stack[i].file].part # "empty"
      BY <3>1, <3>4, <1>4 DEF WriterOk
    <3>6. Writing(i) => files'[stack[i].file] = files[stack[i].file]
      BY <3>3, <1>4
    <3>7. Lines' = Lines /\ newdb' = newdb
      BY <1>4, <1>5
    <3>8. Writing(i)' => \A l \in Lines' \cup newdb'.lines : l.file = stack'[i].file => l.dir = win'[stack'[i].w].dir
      BY <3>1, <3>2, <3>7 DEF WriterOk
    <3>9. Writing(i)' /\ stack'[i].th = "list" => files'[stack'[i].file].part = "empty"
      BY <3>1, <3>2, <3>6 DEF WriterOk
    <3>10. Writing(i)' /\ stack'[i].th = "fill" =>
             files'[stack'[i].file].part = "part" /\ files'[stack'[i].file].v = stack'[i].got.v
      BY <3>1, <3>2, <3>6 DEF WriterOk
    <3>11. stack'[i].th = "fill" => stack'[i].got.dir = win'[stack'[i].w].dir
      BY <3>1 DEF WriterOk
    <3> QED
      BY <3>1, <3>5, <3>8, <3>9, <3>10, <3>11 DEF WriterOk
  <2>2. WriterOk(k)'
    <3>1. stack'[k] = g /\ win'[stack'[k].w] = r /\ Lines' = Lines /\ newdb' = newdb
      BY <1>1, <1>2, <1>4, <1>5
    <3>2. CASE g.th = "fill"
      <4>1. g.file = x /\ p = "part" /\ g.got.dir = r.dir /\ g.got.v = v
        BY <3>2, <1>5
      <4> QED
        BY <4>1, <3>1, <3>2, <1>4 DEF WriterOk, Writing
    <3>3. CASE g.th = "ended"
      BY <3>1, <3>3 DEF WriterOk, Writing
    <3> QED
      BY <3>2, <3>3, <1>5
  <2>3. \A i \in DOMAIN stack : Writing(i)' => Writing(i) /\ stack'[i].file = stack[i].file
    BY <1>2, <1>4, <1>5 DEF Writing
  <2>4. \A i, j \in DOMAIN stack' : Writing(i)' /\ Writing(j)' /\ stack'[i].file = stack'[j].file => i = j
    BY <2>3, <1>2 DEF BrowseInv, WriterInv
  <2> QED
    BY <2>1, <2>2, <2>4, <1>2 DEF WriterInv
<1>12. ServerInv' /\ ServerType'
  BY <1>2, <1>5 DEF BrowseInv, ServerInv, ServerType
<1>13. \A d \in Dirs : /\ server[d] \in Nat /\ told[d] \in Nat /\ told[d] <= server[d]
                       /\ \A w \in Windows : win[w].made[d] \in Nat /\ win[w].made[d] <= server[d]
  BY Versions
\* A line of the file that is written is as new as the server's directory, or was usable before.
<1>14. ASSUME NEW l \in Lines', Usable(l.file)'
       PROVE  /\ l \in Lines /\ l.dir \in Dirs
              /\ \/ Usable(l.file) /\ files'[l.file].v = files[l.file].v
                 \/ files'[l.file].v = server[l.dir]
  <2>1. l \in Lines /\ l.file \in CacheFiles /\ l.dir \in Dirs /\ (l.file = x => l.dir = r.dir)
    BY <1>4
  <2>2. CASE l.file # x
    BY <2>1, <2>2, <1>4, <1>14 DEF Usable
  <2>3. CASE l.file = x /\ f.th = "list"
    BY <2>1, <2>3, <1>4, <1>5
  <2>4. CASE l.file = x /\ f.th = "fill"
    BY <2>1, <2>4, <1>4, <1>5, <1>8, <1>14 DEF Usable
  <2> QED
    BY <2>1, <2>2, <2>3, <2>4, <1>5
<1>15. FreshInv'
  <2> SUFFICES ASSUME NEW l \in Lines', Usable(l.file)'
               PROVE  files'[l.file].v >= told'[l.dir]
    BY DEF FreshInv
  <2> QED
    BY <1>5, <1>13, <1>14 DEF BrowseInv, FreshInv
<1>16. ASSUME NEW i \in DOMAIN stack, stack[i].th = "read"
       PROVE  files'[stack[i].file].v = files[stack[i].file].v
  <2>1. stack[i].file \in CacheFiles /\ files[stack[i].file].part # "empty"
    BY <1>16 DEF BrowseInv, StackInv, FrameOk, WriterInv, WriterOk
  <2> QED
    BY <2>1, <1>4, <1>5, <1>7
<1>17. ASSUME NEW w, w = f.w, ~r.crossed PROVE Own(w)'
  <2>1. OwnNow(f, win[f.w]) /\ \A j \in DOMAIN stack : stack[j].w = w => j = k
    BY <1>1, <1>4, <1>5, <1>17, Running
  <2>2. ~Pending(f) /\ ~Leaves(g)
    BY <1>4, <1>5 DEF Pending, Leaves
  <2>3. CacheShows(g, r)
    <3> SUFFICES ASSUME NEW l \in Lines', Usable(l.file)'
                 PROVE  files'[l.file].v >= r.made[l.dir]
      BY DEF CacheShows
    <3>1. CASE Usable(l.file) /\ files'[l.file].v = files[l.file].v
      BY <3>1, <2>1, <2>2, <1>5, <1>14 DEF OwnNow
    <3>2. CASE files'[l.file].v = server[l.dir]
      <4>1. l.dir \in Dirs /\ r.made[l.dir] = win[f.w].made[l.dir] /\ f.w \in Windows
        BY <1>2, <1>5, <1>14
      <4> QED
        BY <3>2, <4>1, <1>13
    <3> QED
      BY <3>1, <3>2, <1>14
  <2>4. OwnNext(g, r)
    BY <2>1, <2>2, <2>3, <1>5, <1>17 DEF OwnNext
  <2> QED
    BY <2>1, <2>4, <1>17, OwnMoved DEF BrowseInv
<1>18. OwnInv'
  <2> SUFFICES ASSUME NEW w \in Windows, ~win'[w].crossed PROVE Own(w)'
    BY DEF OwnInv
  <2>1. CASE w = f.w
    BY <2>1, <1>2, <1>17
  <2>2. CASE w # f.w
    <3>1. Own(w) /\ win'[w] = win[w]
      BY <2>2, <1>2 DEF BrowseInv, OwnInv
    <3>2. /\ \A i \in DOMAIN stack' : stack'[i].w = w => i \in DOMAIN stack /\ stack'[i] = stack[i]
          /\ \A i \in DOMAIN stack : stack[i].w = w => i \in DOMAIN stack' /\ stack'[i] = stack[i]
      BY <2>2, <1>2
    <3>3. \A l \in Lines' : Usable(l.file)' =>
            files'[l.file].v >= win[w].made[l.dir]
              \/ (l \in Lines /\ Usable(l.file) /\ files'[l.file].v = files[l.file].v)
      BY <1>13, <1>14
    <3> QED
      BY <3>1, <3>2, <3>3, <1>16, OwnKept DEF BrowseInv
  <2> QED
    BY <2>1, <2>2
<1> QED
  BY <1>2, <1>3, <1>4, <1>9, <1>11, <1>12, <1>15, <1>18 DEF BrowseInv

\* A listing starts, is refused, or breaks.
LEMMA ListInv ==
  ASSUME BrowseInv, NEW i \in DOMAIN stack, List(i)
  PROVE  BrowseInv'
<1> DEFINE f == stack[i]
           r == win[f.w]
<1>1. f.th = "list" /\ UNCHANGED <<index, newdb, server, told>>
  BY DEF List
<1>2. /\ f \in FrameType /\ f.w \in Windows /\ r \in WinType /\ RequestOk(r) /\ FrameOk(f, r)
      /\ r.named /\ r.stopable /\ r.dir \in Dirs /\ f.op \in Ops /\ f.th \in StepsOf[f.op] /\ f.main = "loop"
  BY <1>1, Running DEF FrameType
<1>3. f.op = "ls" /\ f.ret = "retry"
  BY <1>1, <1>2, StepFacts DEF FrameOk
<1>4. CASE /\ stack' = [stack EXCEPT ![i].th = "fill", ![i].got = [dir |-> r.dir, v |-> server[r.dir]]]
           /\ Written(f, "part", server[r.dir])
           /\ UNCHANGED win
  <2>1. PICK got : got = [dir |-> r.dir, v |-> server[r.dir]]
    OBVIOUS
  <2>2. PICK g : g = [f EXCEPT !.th = "fill", !.got = got]
    OBVIOUS
  <2>3. stack' = [stack EXCEPT ![i] = g] /\ win' = [win EXCEPT ![f.w] = r]
    BY <1>2, <1>4, <2>1, <2>2 DEF BrowseInv, StackType
  <2>4. /\ g \in FrameType /\ g.w = f.w /\ g.op = "ls" /\ g.main = "loop" /\ g.dir = f.dir
        /\ g.th = "fill" /\ g.file = f.file /\ g.ret = "retry" /\ g.got = got
    <3>1. "fill" \in StepsOf["ls"]
      BY DEF StepsOf
    <3>2. got \in Listing
      BY <2>1, <1>2 DEF Listing, BrowseInv, ServerType
    <3> QED
      BY <3>1, <3>2, <2>2, <1>2, <1>3 DEF FrameType, ThreadSteps
  <2>5. FrameOk(g, r)
    BY <2>4, <1>2 DEF FrameOk
  <2>6. Moves(i, g, r)
    BY <2>3, <2>4, <2>5, <1>1, <1>2 DEF Moves
  <2>7. \A d \in Dirs : server[d] <= server'[d] /\ told'[d] <= server'[d] /\ r.made[d] <= server'[d]
    BY <1>1, <1>2, Versions
  <2>8. Shows(got, r)
    BY <2>1, <2>7, <1>1, <1>2 DEF Shows
  <2>9. CASE f.file # NoFile
    <3>1. PICK v : v = server[r.dir]
      OBVIOUS
    <3>2. PICK x : x = f.file
      OBVIOUS
    <3>3. WritesFile(i, g, r, x, "part", v)
      BY <3>1, <3>2, <2>1, <2>4, <2>9, <1>1, <1>4 DEF WritesFile, Written
    <3> QED
      BY <3>3, <2>4, <2>6, <2>8, WrittenInv
  <2>10. CASE f.file = NoFile
    <3>1. files' = files
      BY <2>10, <1>4 DEF Written
    <3>2. Kept
      BY <3>1, <1>1, SameKept DEF BrowseInv
    <3>3. stack'[i] = g /\ win'[f.w] = r
      BY <2>6, MovesFacts DEF BrowseInv
    <3>4. WriterOk(i)' /\ ~Writing(i)'
      BY <3>3, <2>1, <2>4, <2>10 DEF WriterOk, Writing
    <3>5. \A y : ~Holds(i, y)
      BY <1>1 DEF Holds
    <3>6. ServerType'
      BY <1>1 DEF BrowseInv, ServerType
    <3>7. PICK w : w = f.w
      OBVIOUS
    <3>8. ASSUME ~r.crossed PROVE Own(w)'
      <4>1. OwnNow(f, r) /\ \A j \in DOMAIN stack : stack[j].w = w => j = i
        BY <1>1, <3>7, <3>8, Running
      <4>2. ~Pending(f) /\ ~Leaves(g)
        BY <1>3, <2>4 DEF Pending, Leaves
      <4>3. CacheShows(g, r)
        BY <4>1, <4>2, <3>2, OwnCache
      <4>4. OwnNext(g, r)
        BY <4>2, <4>3, <2>4, <2>8 DEF OwnNext
      <4> QED
        BY <4>1, <4>4, <2>6, <3>7, OwnMoved DEF BrowseInv
    <3> QED
      BY <1>1, <2>6, <2>7, <3>2, <3>4, <3>5, <3>6, <3>7, <3>8, MovesInv
  <2> QED
    BY <2>9, <2>10
<1>5. CASE UNCHANGED files /\ (Attempted(i, f, r, "fatal") \/ Attempted(i, f, Lost(r), "retry"))
  <2>1. Kept
    BY <1>1, <1>5, SameKept DEF BrowseInv
  <2> QED
    BY <2>1, <1>1, <1>5, TriedNothing
<1> QED
  BY <1>4, <1>5 DEF List

\* A listing has come, and its thread ends: nothing of the cache changes.
LEMMA ListedInv ==
  ASSUME BrowseInv, NEW i \in DOMAIN stack, stack[i].th \in {"fill", "read"}, Kept, UNCHANGED <<server, told>>,
         NEW g, NEW q, Moves(i, g, q), g.th = "ended", g.op = "ls", g.file = stack[i].file, g.main = "loop",
         q.made = win[stack[i].w].made, q.crossed = win[stack[i].w].crossed, q.dir = win[stack[i].w].dir,
         q.named = win[stack[i].w].named,
         stack[i].th = "fill" => ~q.up \/ stack[i].file = NoFile,
         ~q.crossed /\ OwnNow(stack[i], win[stack[i].w]) => (q.up /\ g.got # Nothing => Shows(g.got, q))
  PROVE  BrowseInv'
<1> DEFINE f == stack[i]
           r == win[f.w]
<1>1. f.th # "ended"
  OBVIOUS
<1>2. f \in FrameType /\ f.w \in Windows /\ r.named /\ f.op \in Ops /\ f.th \in StepsOf[f.op]
  BY <1>1, Running DEF FrameType
<1>3. f.op = "ls"
  BY <1>2, StepFacts
<1>4. /\ stack'[i] = g /\ win'[f.w] = q /\ DOMAIN stack' = DOMAIN stack
      /\ \A j \in DOMAIN stack : stack'[j].w = stack[j].w
  BY MovesFacts DEF BrowseInv
<1>5. WriterOk(i)' /\ ~Writing(i)'
  BY <1>4 DEF WriterOk, Writing
<1>6. ASSUME NEW l \in Lines', Half(l.file)', Holds(i, l.file) PROVE Holds(i, l.file)'
  <2>1. f.file = l.file /\ f.th = "fill"
    BY <1>1, <1>6 DEF Holds
  <2>2. l.file \in CacheFiles
    <3>1. CacheType'
      BY DEF Kept
    <3>2. Usable(l.file)'
      BY <1>6 DEF Half, Usable
    <3>3. l \in Lines /\ CacheType
      BY <3>2, <1>6 DEF Kept, BrowseInv
    <3> QED
      BY <3>3, LinesType
  <2>3. ~q.up /\ q.named
    BY <2>1, <2>2, <1>2, BrowseAssumption
  <2>4. Top \in Nat /\ DOMAIN stack = 1..Top
    BY StackFacts DEF BrowseInv
  <2>5. \A j \in DOMAIN stack : stack[j].w = f.w => j <= i
    <3>1. \A j \in DOMAIN stack : j # i /\ stack[j].w = f.w => j < i
      BY <1>1, OthersRest DEF BrowseInv
    <3> QED
      BY <3>1, <2>4
  <2>6. \A j \in DOMAIN stack' : stack'[j].w = stack'[i].w => j <= i
    BY <2>5, <1>4
  <2> QED
    BY <2>1, <2>3, <2>6, <1>4 DEF Holds
<1>7. \A d \in Dirs : server[d] <= server'[d] /\ told'[d] <= server'[d] /\ q.made[d] <= server'[d]
  BY <1>2, Versions
<1>8. ServerType'
  BY DEF BrowseInv, ServerType
<1>9. PICK w : w = f.w
  OBVIOUS
<1>10. ASSUME ~q.crossed PROVE Own(w)'
  <2>1. OwnNow(f, r) /\ \A j \in DOMAIN stack : stack[j].w = w => j = i
    BY <1>1, <1>9, <1>10, Running
  <2>2. ~Pending(f) /\ ~Leaves(g)
    BY <1>3 DEF Pending, Leaves
  <2>3. CacheShows(g, q)
    BY <2>1, <2>2, OwnCache
  <2>4. OwnNext(g, q)
    BY <2>1, <2>2, <2>3, <1>10 DEF OwnNext
  <2> QED
    BY <2>1, <2>4, <1>9, OwnMoved DEF BrowseInv
<1> QED
  BY <1>5, <1>6, <1>7, <1>8, <1>9, <1>10, MovesInv

\* The last block: the file is whole, or the thread drops it.
LEMMA FilledInv ==
  ASSUME BrowseInv, NEW i \in DOMAIN stack, Filled(i)
  PROVE  BrowseInv'
<1> DEFINE f == stack[i]
           r == win[f.w]
<1>1. f.th = "fill" /\ UNCHANGED <<index, newdb, server, told>>
  BY DEF Filled
<1>2. /\ f \in FrameType /\ f.w \in Windows /\ r \in WinType /\ RequestOk(r) /\ FrameOk(f, r)
      /\ r.named /\ r.stopable /\ r.dir \in Dirs /\ f.op \in Ops /\ f.th \in StepsOf[f.op] /\ f.main = "loop"
  BY <1>1, Running DEF FrameType
<1>3. f.op = "ls" /\ f.ret = "retry"
  BY <1>1, <1>2, StepFacts DEF FrameOk
<1>4. "listed" \in Settled
  BY DEF Settled
<1>5. CASE UNCHANGED files /\ Attempted(i, f, Lost(r), "listed")
  <2>1. PICK m : m = Lost(r)
    OBVIOUS
  <2>2. /\ m \in WinType /\ RequestOk(m) /\ ~m.up /\ m.named /\ m.stopable /\ m.made = r.made
        /\ m.crossed = r.crossed /\ m.dir = r.dir
    BY <2>1, <1>2, LostFacts
  <2>3. PICK g, q : Moves(i, g, q) /\ Tried(f, m, "listed", g, q)
    BY <2>1, <2>2, <1>1, <1>2, <1>3, <1>5, TriedMoves
  <2>4. /\ g.th = "ended" /\ g.op = "ls" /\ g.file = f.file /\ g.main = "loop"
        /\ ~q.up /\ q.named = r.named /\ q.made = r.made /\ q.crossed = r.crossed /\ q.dir = r.dir
    BY <2>2, <2>3, <1>2, <1>3 DEF Tried
  <2>5. Kept
    BY <1>1, <1>5, SameKept DEF BrowseInv
  <2> QED
    BY <2>3, <2>4, <2>5, <1>1, ListedInv
<1>6. ASSUME NEW part \in {"whole", "short"}, Written(f, part, f.got.v), Attempted(i, f, r, "listed")
      PROVE  BrowseInv'
  <2>1. PICK g, q : Moves(i, g, q) /\ Tried(f, r, "listed", g, q)
    BY <1>1, <1>2, <1>3, <1>6, TriedMoves
  <2>2. /\ g.th = "ended" /\ g.op = "ls" /\ g.file = f.file /\ g.main = "loop" /\ g.got = f.got
        /\ q.up = r.up /\ q.named = r.named /\ q.made = r.made /\ q.crossed = r.crossed /\ q.dir = r.dir
    BY <2>1, <1>3 DEF Tried
  <2>3. ~q.crossed /\ OwnNow(f, r) => (q.up /\ g.got # Nothing => Shows(g.got, q))
    BY <2>2, <1>3 DEF OwnNow, FrameShows, Shows
  <2>4. CASE f.file # NoFile
    <3>1. Writing(i) /\ WriterOk(i)
      BY <2>4, <1>1 DEF Writing, BrowseInv, WriterInv
    <3>2. files[f.file].v = f.got.v
      BY <3>1, <1>1 DEF WriterOk
    <3>3. PICK v : v = f.got.v
      OBVIOUS
    <3>4. PICK x : x = f.file
      OBVIOUS
    <3>5. WritesFile(i, g, q, x, part, v)
      BY <3>2, <3>3, <3>4, <2>2, <2>4, <1>1, <1>6 DEF WritesFile, Written
    <3> QED
      BY <3>5, <2>1, <2>3, WrittenInv
  <2>5. CASE f.file = NoFile
    <3>1. files' = files
      BY <2>5, <1>6 DEF Written
    <3>2. Kept
      BY <3>1, <1>1, SameKept DEF BrowseInv
    <3> QED
      BY <3>2, <2>1, <2>2, <2>3, <2>5, <1>1, ListedInv
  <2> QED
    BY <2>4, <2>5
<1> QED
  BY <1>5, <1>6 DEF Filled

\* A listing read from the cache
LEMMA ReadCacheInv ==
  ASSUME BrowseInv, NEW i \in DOMAIN stack, ReadCache(i)
  PROVE  BrowseInv'
<1> DEFINE f == stack[i]
           r == win[f.w]
<1>1. f.th = "read" /\ UNCHANGED <<index, newdb, files, server, told>>
  BY DEF ReadCache
<1>2. /\ f \in FrameType /\ f.w \in Windows /\ r \in WinType /\ RequestOk(r) /\ FrameOk(f, r)
      /\ r.named /\ r.stopable /\ r.dir \in Dirs /\ f.op \in Ops /\ f.th \in StepsOf[f.op] /\ f.main = "loop"
  BY <1>1, Running DEF FrameType
<1>3. f.op = "ls" /\ f.ret = "retry" /\ f.file \in CacheFiles
  BY <1>1, <1>2, StepFacts DEF FrameOk
<1>4. PICK got : got = [dir |-> r.dir, v |-> files[f.file].v]
  OBVIOUS
<1>5. PICK h : h = [f EXCEPT !.got = got]
  OBVIOUS
<1>6. Attempted(i, h, r, "listed")
  BY <1>4, <1>5 DEF ReadCache
<1>7. /\ h \in FrameType /\ h.w = f.w /\ h.op = f.op /\ h.dir = f.dir /\ h.main = "loop" /\ h.ret = "retry"
      /\ h.file = f.file /\ h.got = got
  <2>1. files[f.file] \in FileType
    BY <1>3 DEF BrowseInv, CacheType
  <2>2. got \in Listing
    BY <2>1, <1>2, <1>4 DEF Listing, FileType
  <2> QED
    BY <2>2, <1>2, <1>3, <1>5 DEF FrameType
<1>8. "listed" \in {"retry", "fatal", "ok", "listed"} /\ h.ret \in {"retry", "listed"} /\ f.th # "ended"
  BY <1>1, <1>7
<1>9. PICK g, q : Moves(i, g, q) /\ Tried(h, r, "listed", g, q)
  BY <1>2, <1>6, <1>7, <1>8, TriedMoves
<1>10. /\ g.th = "ended" /\ g.op = "ls" /\ g.file = f.file /\ g.main = "loop" /\ g.got = got
       /\ q.up = r.up /\ q.named = r.named /\ q.made = r.made /\ q.crossed = r.crossed /\ q.dir = r.dir
  BY <1>3, <1>7, <1>9 DEF Tried
<1>11. Kept
  BY <1>1, SameKept DEF BrowseInv
<1>12. OwnNow(f, r) => Shows(got, q)
  BY <1>1, <1>4, <1>10 DEF OwnNow, FrameShows, Shows
<1> QED
  BY <1>1, <1>9, <1>10, <1>11, <1>12, ListedInv

\* Every step of a thread keeps the invariant.
LEMMA ThreadStep ==
  ASSUME BrowseInv, NEW i, Thread(i)
  PROVE  BrowseInv'
<1>1. i \in DOMAIN stack
  BY DEF Thread
<1>2. CASE Cancelled(i)
  BY <1>1, <1>2, CancelledInv
<1>3. CASE Connecting(i)
  BY <1>1, <1>3, ConnectingInv
<1>4. CASE Changing(i)
  BY <1>1, <1>4, ChangingInv
<1>5. CASE Deleting(i)
  BY <1>1, <1>5, DeletingInv
<1>6. CASE DeletePurges(i)
  BY <1>1, <1>6, DeletePurgesInv
<1>7. CASE DeleteSwaps(i)
  BY <1>1, <1>7, DeleteSwapsInv
<1>8. CASE Chdir(i)
  BY <1>1, <1>8, ChdirInv
<1>9. CASE Find(i)
  BY <1>1, <1>9, FindInv
<1>10. CASE Enter(i)
  BY <1>1, <1>10, EnterInv
<1>11. CASE List(i)
  BY <1>1, <1>11, ListInv
<1>12. CASE Filled(i)
  BY <1>1, <1>12, FilledInv
<1>13. CASE ReadCache(i)
  BY <1>1, <1>13, ReadCacheInv
<1> QED
  BY <1>2, <1>3, <1>4, <1>5, <1>6, <1>7, <1>8, <1>9, <1>10, <1>11, <1>12, <1>13 DEF Thread

-----------------------------------------------------------------------------
(* The steps of the main thread. *)

\* The operation of the main thread: its own thread is over.
LEMMA AtTop ==
  ASSUME BrowseInv, stack # <<>>, stack[Top].th = "ended" \/ stack[Top].main # "loop"
  PROVE  /\ Top \in DOMAIN stack /\ stack[Top] \in FrameType /\ stack[Top].w \in Windows
         /\ stack[Top].th = "ended" /\ stack[Top].op \in Ops
         /\ win[stack[Top].w] \in WinType /\ RequestOk(win[stack[Top].w]) /\ FrameOk(stack[Top], win[stack[Top].w])
         /\ ~win[stack[Top].w].stopable
         /\ ~win[stack[Top].w].crossed /\ win[stack[Top].w].up =>
              /\ OwnNow(stack[Top], win[stack[Top].w])
              /\ \A j \in DOMAIN stack : stack[j].w = stack[Top].w => j = Top
<1>1. Top \in DOMAIN stack /\ stack[Top] \in FrameType /\ stack[Top].w \in Windows
  BY StackFacts DEF BrowseInv
<1>2. FrameOk(stack[Top], win[stack[Top].w]) /\ RequestOk(win[stack[Top].w])
  BY <1>1 DEF BrowseInv, StackInv
<1>3. stack[Top].th = "ended"
  BY <1>2 DEF FrameOk
<1>4. \A j \in DOMAIN stack : stack[j].w = stack[Top].w => stack[j].th = "ended"
  BY <1>1, <1>3, OthersRest DEF BrowseInv
<1>5. ~win[stack[Top].w].stopable
  BY <1>1, <1>4 DEF BrowseInv, StackInv
<1>6. win[stack[Top].w] \in WinType /\ stack[Top].op \in Ops
  BY <1>1 DEF BrowseInv, StackType, FrameType
<1>7. ASSUME ~win[stack[Top].w].crossed, win[stack[Top].w].up
      PROVE  /\ OwnNow(stack[Top], win[stack[Top].w])
             /\ \A j \in DOMAIN stack : stack[j].w = stack[Top].w => j = Top
  BY <1>1, <1>7, OwnAlone DEF BrowseInv
<1> QED
  BY <1>1, <1>2, <1>3, <1>5, <1>6, <1>7

\* A half listing that is still in the cache after a step is seen to by the operation that
\* was on top, only while its window has lost the connection.
LEMMA HoldsAtTop ==
  ASSUME stack[Top].th = "ended", NEW x, Holds(Top, x)
  PROVE  /\ ~win[stack[Top].w].up /\ win[stack[Top].w].named /\ stack[Top].main \in {"loop", "lost"}
         /\ stack[Top].file = x
BY DEF Holds

\* The main thread goes on in its operation, or starts the listing in its place.
LEMMA MainMovesInv ==
  ASSUME BrowseInv, stack # <<>>, stack[Top].th = "ended", NEW g, NEW r, Moves(Top, g, r), Kept, ServerType',
         \A d \in Dirs : server[d] <= server'[d] /\ told'[d] <= server'[d] /\ r.made[d] <= server'[d],
         \A l \in Lines' : Usable(l.file)' => told'[l.dir] = told[l.dir],
         g.th \in {"ended", "find"},
         \A l \in Lines' : Half(l.file)' /\ Holds(Top, l.file) => Holds(Top, l.file)',
         NEW v, v = stack[Top].w, ~r.crossed => Own(v)'
  PROVE  BrowseInv'
<1>1. PICK k : k = Top
  OBVIOUS
<1>2. Moves(k, g, r) /\ v = stack[k].w
  BY <1>1
<1>3. stack'[k] = g
  BY <1>2, MovesFacts DEF BrowseInv
<1>4. WriterOk(k)' /\ ~Writing(k)'
  BY <1>3 DEF WriterOk, Writing
<1>5. Top' = Top
  BY <1>2, MovesFacts DEF BrowseInv
<1>6. \A l \in Lines' : Half(l.file)' /\ Holds(k, l.file) => Holds(k, l.file)'
  BY <1>1, <1>5 DEF Holds
<1> QED
  BY <1>2, <1>4, <1>6, MovesInv

\* The window of the operation is connected: the operation is the only one of the window, or
\* the window has been crossed.
LEMMA OwnMainUp ==
  ASSUME BrowseInv, stack # <<>>, stack[Top].th = "ended", NEW g, NEW r, Moves(Top, g, r),
         NEW v, v = stack[Top].w, win[v].up, ~win[v].crossed, OwnNow(stack[Top], win[v]) => OwnNext(g, r)
  PROVE  Own(v)'
<1>1. OwnNow(stack[Top], win[v]) /\ \A j \in DOMAIN stack : stack[j].w = v => j = Top
  BY AtTop
<1>2. PICK k : k = Top
  OBVIOUS
<1>3. Moves(k, g, r) /\ v = stack[k].w /\ \A j \in DOMAIN stack : stack[j].w = v => j = k
  BY <1>1, <1>2
<1> QED
  BY <1>1, <1>3, OwnMoved DEF BrowseInv

\* The window has lost its connection.
LEMMA OwnMainDown ==
  ASSUME BrowseInv, stack # <<>>, stack[Top].th = "ended", NEW g, NEW r, Moves(Top, g, r), Kept,
         NEW v, v = stack[Top].w, ~win[v].crossed, ~r.up, ~r.stopable, g.th = "ended",
         r.made = win[v].made, r.dir = win[v].dir, Pending(stack[Top]) => Pending(g)
  PROVE  Own(v)'
<1>1. Top \in DOMAIN stack /\ v \in Windows
  BY AtTop
<1>2. PICK k : k = Top
  OBVIOUS
<1>3. /\ DOMAIN stack' = DOMAIN stack /\ k \in DOMAIN stack
      /\ \A j \in DOMAIN stack : j # k => stack'[j] = stack[j]
      /\ \A j \in DOMAIN stack : stack'[j].w = stack[j].w
      /\ stack'[k] = g /\ win'[v] = r
  <2>1. Moves(k, g, r) /\ v = stack[k].w
    BY <1>2
  <2> QED
    BY <2>1, <1>1, <1>2, MovesFacts DEF BrowseInv
<1>4. Own(v)
  BY <1>1 DEF BrowseInv, OwnInv
<1>5. ASSUME NEW l \in Lines', Usable(l.file)'
      PROVE  \/ files'[l.file].v >= r.made[l.dir]
             \/ l.dir = r.dir /\ \E i \in DOMAIN stack' : stack'[i].w = v /\ Pending(stack'[i])
  <2>1. l \in Lines /\ Usable(l.file) /\ files'[l.file].v = files[l.file].v
    BY <1>5 DEF Kept, SameText
  <2>2. CASE files[l.file].v >= win[v].made[l.dir]
    BY <2>1, <2>2
  <2>3. CASE l.dir = win[v].dir /\ \E i \in DOMAIN stack : stack[i].w = v /\ Pending(stack[i])
    <3>1. PICK i \in DOMAIN stack : stack[i].w = v /\ Pending(stack[i])
      BY <2>3
    <3>2. stack'[i].w = v /\ Pending(stack'[i])
      <4>1. CASE i = k
        BY <4>1, <3>1, <1>2, <1>3
      <4>2. CASE i # k
        <5>1. stack'[i] = stack[i]
          BY <4>2, <1>3
        <5>2. \A a, b : a = b /\ Pending(b) => Pending(a)
          OBVIOUS
        <5> QED
          BY <5>1, <5>2, <3>1
      <4> QED
        BY <4>1, <4>2
    <3> QED
      BY <3>2, <2>3, <1>3
  <2> QED
    BY <2>1, <2>2, <2>3, <1>4 DEF Own
<1>6. ASSUME NEW i \in DOMAIN stack', stack'[i].w = v PROVE stack'[i].th # "read"
  <2>1. CASE i = k
    BY <2>1, <1>3
  <2>2. CASE i # k
    BY <2>2, <1>1, <1>2, <1>3, <1>6, OthersRest DEF BrowseInv
  <2> QED
    BY <2>1, <2>2
<1> QED
  BY <1>3, <1>5, <1>6 DEF Own, FrameShows, Pending

\* A window whose only operation has returned.
LEMMA OwnPopped ==
  ASSUME BrowseInv, NEW r, Pops(r), Kept, NEW v, v = stack[Top].w, win[v].up, ~win[v].crossed,
         ~Pending(stack[Top]), r.made = win[v].made,
         OwnNow(stack[Top], win[v]) => Shows(r.shown, r)
  PROVE  Own(v)'
<1>1. stack # <<>> /\ stack[Top].th = "ended"
  BY DEF Pops
<1>2. OwnNow(stack[Top], win[v]) /\ \A j \in DOMAIN stack : stack[j].w = v => j = Top
  BY <1>1, AtTop
<1>3. /\ DOMAIN stack' = DOMAIN stack \ {Top} /\ win'[v] = r
      /\ \A j \in DOMAIN stack' : stack'[j] = stack[j]
  BY PopsFacts DEF BrowseInv
<1>4. \A j \in DOMAIN stack' : stack'[j].w # v
  BY <1>2, <1>3
<1>5. \A l \in Lines' : Usable(l.file)' => files'[l.file].v >= r.made[l.dir]
  BY <1>2 DEF Kept, SameText, OwnNow
<1> QED
  BY <1>2, <1>3, <1>4, <1>5 DEF Own, Shows

\* ftp_list_files() takes the place of the operation.
LEMMA ListFrame ==
  ASSUME NEW w \in Windows
  PROVE  LET g == Frame(w, "ls", NoDir)
         IN  /\ g \in FrameType /\ g.w = w /\ g.op = "ls" /\ g.th = "find" /\ g.main = "loop" /\ g.dir = NoDir
             /\ g.ret = "retry" /\ g.file = NoFile /\ g.got = Nothing
<1>1. FirstStep["ls"] = "find" /\ "find" \in StepsOf["ls"]
  BY DEF FirstStep, StepsOf
<1>2. Nothing \in Listing /\ 0 \in 0..Retries
  BY BrowseAssumption DEF Nothing, Listing
<1>3. Frame(w, "ls", NoDir) =
        [w |-> w, op |-> "ls", dir |-> NoDir, th |-> "find", main |-> "loop",
         left |-> 0, ret |-> "retry", file |-> NoFile, got |-> Nothing]
  BY <1>1 DEF Frame
<1> QED
  BY <1>1, <1>2, <1>3 DEF FrameType, Ops, ThreadSteps, MainSteps

\* Replacing the innermost operation is changing it.
LEMMA InPlace ==
  ASSUME StackType, stack # <<>>, NEW g \in FrameType
  PROVE  SubSeq(stack, 1, Top - 1) \o <<g>> = [stack EXCEPT ![Top] = g]
<1>1. Top \in Nat /\ DOMAIN stack = 1..Top /\ Top \in DOMAIN stack
  BY StackFacts
<1>2. \A i \in 1..Top - 1 : stack[i] \in FrameType
  BY <1>1, StackFacts
<1> DEFINE s == SubSeq(stack, 1, Top - 1)
<1>3. /\ s \in Seq(FrameType) /\ Len(s) = Top - 1
      /\ \A i \in 1..Top - 1 : s[i] = stack[i]
  <2>1. /\ s \in Seq(FrameType)
        /\ Len(s) = IF 1 <= Top - 1 THEN (Top - 1) - 1 + 1 ELSE 0
        /\ \A i \in 1..(Top - 1) - 1 + 1 : s[i] = stack[1 + i - 1]
    BY <1>1, <1>2, SubSeqProperties
  <2>2. Len(s) = Top - 1
    BY <1>1, <2>1
  <2>3. ASSUME NEW i \in 1..Top - 1 PROVE s[i] = stack[i]
    <3>1. i \in 1..(Top - 1) - 1 + 1 /\ 1 + i - 1 = i
      BY <1>1
    <3> QED
      BY <3>1, <2>1
  <2> QED
    BY <2>1, <2>2, <2>3
<1> HIDE DEF s
<1>4. <<g>> \in Seq(FrameType) /\ Len(<<g>>) = 1 /\ <<g>>[1] = g
  OBVIOUS
<1>5. PICK t : t = s \o <<g>>
  OBVIOUS
<1>6. /\ t \in Seq(FrameType) /\ Len(t) = Top
      /\ \A i \in 1..Top : t[i] = IF i <= Top - 1 THEN s[i] ELSE <<g>>[i - (Top - 1)]
  <2>1. /\ s \o <<g>> \in Seq(FrameType)
        /\ Len(s \o <<g>>) = Len(s) + Len(<<g>>)
        /\ \A i \in 1..Len(s) + Len(<<g>>) : (s \o <<g>>)[i] = IF i <= Len(s) THEN s[i] ELSE <<g>>[i - Len(s)]
    BY <1>3, <1>4, ConcatProperties
  <2>2. Len(s) + Len(<<g>>) = Top
    BY <1>1, <1>3, <1>4
  <2> QED
    BY <2>1, <2>2, <1>3, <1>5
<1>7. \A i \in 1..Top : t[i] = IF i = Top THEN g ELSE stack[i]
  <2> SUFFICES ASSUME NEW i \in 1..Top PROVE t[i] = IF i = Top THEN g ELSE stack[i]
    OBVIOUS
  <2>1. CASE i = Top
    <3>1. i - (Top - 1) = 1 /\ ~(i <= Top - 1)
      BY <2>1, <1>1
    <3> QED
      BY <2>1, <3>1, <1>4, <1>6
  <2>2. CASE i # Top
    <3>1. i \in 1..Top - 1 /\ i <= Top - 1
      BY <2>2, <1>1
    <3> QED
      BY <2>2, <3>1, <1>3, <1>6
  <2> QED
    BY <2>1, <2>2
<1>8. PICK e : e = [stack EXCEPT ![Top] = g]
  OBVIOUS
<1>9. /\ e \in Seq(FrameType) /\ Len(e) = Top
      /\ \A i \in 1..Top : e[i] = IF i = Top THEN g ELSE stack[i]
  BY <1>1, <1>8, ExceptSeq DEF StackType, Top
<1>10. t = e
  BY <1>6, <1>7, <1>9, SeqEqual
<1> QED
  BY <1>5, <1>8, <1>10 DEF s

\* A refresh goes on as a listing, in the place of the operation that asked for it.
LEMMA StartListMoves ==
  ASSUME BrowseInv, stack # <<>>, stack[Top].th = "ended", win[stack[Top].w].up,
         StartList(Top, stack[Top].w, [win[stack[Top].w] EXCEPT !.shown = Nothing])
  PROVE  \E g, r : /\ Moves(Top, g, r) /\ g.op = "ls" /\ g.th = "find" /\ g.got = Nothing
                   /\ r.up /\ r.dir = win[stack[Top].w].dir /\ r.made = win[stack[Top].w].made
                   /\ r.crossed = win[stack[Top].w].crossed
<1> DEFINE w == stack[Top].w
           z == win[w]
<1>1. /\ Top \in DOMAIN stack /\ w \in Windows /\ z \in WinType /\ RequestOk(z)
  BY AtTop
<1>2. PICK g : g = Frame(w, "ls", NoDir)
  OBVIOUS
<1>3. /\ g \in FrameType /\ g.w = w /\ g.op = "ls" /\ g.th = "find" /\ g.main = "loop" /\ g.dir = NoDir
      /\ g.ret = "retry" /\ g.file = NoFile /\ g.got = Nothing
  BY <1>1, <1>2, ListFrame
<1>4. PICK r : r = [[z EXCEPT !.shown = Nothing] EXCEPT !.stopable = TRUE]
  OBVIOUS
<1>5. stack' = [stack EXCEPT ![Top] = g] /\ win' = [win EXCEPT ![w] = r]
  BY <1>2, <1>3, <1>4, InPlace DEF StartList, BrowseInv
<1>6. Nothing \in Listing /\ Nothing.dir = NoDir
  BY BrowseAssumption DEF Nothing, Listing
<1>7. /\ r \in WinType /\ r.stopable /\ r.up = z.up /\ r.named = z.named /\ r.dir = z.dir /\ r.made = z.made
      /\ r.crossed = z.crossed /\ r.shown = Nothing
  BY <1>1, <1>4, <1>6 DEF WinType
<1>8. RequestOk(r) /\ r.named
  BY <1>1, <1>6, <1>7 DEF RequestOk
<1>9. FrameOk(g, r)
  BY <1>3, <1>8 DEF FrameOk
<1>10. Moves(Top, g, r)
  BY <1>1, <1>3, <1>5, <1>7, <1>8, <1>9 DEF Moves
<1> QED
  BY <1>3, <1>7, <1>10

\* It shows nothing yet.
LEMMA RelistInv ==
  ASSUME BrowseInv, stack # <<>>, stack[Top].th = "ended", win[stack[Top].w].up, Kept, UNCHANGED <<server, told>>,
         StartList(Top, stack[Top].w, [win[stack[Top].w] EXCEPT !.shown = Nothing]),
         ~Pending(stack[Top]) \/ Lines' = {}
  PROVE  BrowseInv'
<1>1. PICK v : v = stack[Top].w
  OBVIOUS
<1>2. PICK g, r : /\ Moves(Top, g, r) /\ g.op = "ls" /\ g.th = "find" /\ g.got = Nothing
                  /\ r.up /\ r.dir = win[v].dir /\ r.made = win[v].made /\ r.crossed = win[v].crossed
  BY <1>1, StartListMoves
<1>3. v \in Windows
  BY <1>1, AtTop
<1>4. ASSUME OwnNow(stack[Top], win[v]) PROVE OwnNext(g, r)
  <2>1. CASE ~Pending(stack[Top])
    <3>1. CacheShows(g, r)
      BY <2>1, <1>2, <1>4, OwnCache
    <3> QED
      BY <3>1, <1>2 DEF OwnNext, Leaves
  <2>2. CASE Lines' = {}
    BY <2>2, <1>2 DEF OwnNext, Leaves, CacheShows
  <2> QED
    BY <2>1, <2>2
<1>5. ASSUME ~r.crossed PROVE Own(v)'
  BY <1>1, <1>2, <1>4, <1>5, OwnMainUp
<1>6. \A x : ~Holds(Top, x)
  BY HoldsAtTop
<1>7. \A d \in Dirs : server[d] <= server'[d] /\ told'[d] <= server'[d] /\ r.made[d] <= server'[d]
  BY <1>2, <1>3, Versions
<1>8. ServerType'
  BY DEF BrowseInv, ServerType
<1> QED
  BY <1>1, <1>2, <1>5, <1>6, <1>7, <1>8, MainMovesInv

\* An operation that returns from a window that is connected.
LEMMA ReturnInv ==
  ASSUME BrowseInv, stack # <<>>, stack[Top].th = "ended", win[stack[Top].w].up, Kept, UNCHANGED <<server, told>>,
         NEW r, Pops(r), ~Pending(stack[Top]), r.made = win[stack[Top].w].made,
         r.crossed = win[stack[Top].w].crossed, OwnNow(stack[Top], win[stack[Top].w]) => Shows(r.shown, r)
  PROVE  BrowseInv'
<1>1. PICK v : v = stack[Top].w
  OBVIOUS
<1>2. ASSUME ~r.crossed PROVE Own(v)'
  BY <1>1, <1>2, OwnPopped
<1>3. \A x : ~Holds(Top, x)
  BY HoldsAtTop
<1>4. \A d \in Dirs : r.made[d] <= server[d]
  BY AtTop, Versions
<1> QED
  BY <1>1, <1>2, <1>3, <1>4, PopsInv

\* The main thread goes from one point of the operation to the next.
LEMMA PlaceMoves ==
  ASSUME BrowseInv, stack # <<>>, stack[Top].th = "ended", NEW place \in MainSteps \ {"loop"},
         place \in {"clear", "clear_swap"} => win[stack[Top].w].up,
         stack' = [stack EXCEPT ![Top].main = place], UNCHANGED win
  PROVE  \E g : /\ Moves(Top, g, win[stack[Top].w]) /\ g.op = stack[Top].op /\ g.ret = stack[Top].ret
                /\ g.got = stack[Top].got /\ g.file = stack[Top].file /\ g.th = "ended" /\ g.main = place
<1> DEFINE f == stack[Top]
<1>1. /\ Top \in DOMAIN stack /\ f \in FrameType /\ f.w \in Windows /\ win[f.w] \in WinType
      /\ RequestOk(win[f.w]) /\ FrameOk(f, win[f.w]) /\ ~win[f.w].stopable
  BY AtTop
<1>2. PICK g : g = [f EXCEPT !.main = place]
  OBVIOUS
<1>3. /\ g \in FrameType /\ g.w = f.w /\ g.op = f.op /\ g.ret = f.ret /\ g.got = f.got /\ g.file = f.file
      /\ g.th = "ended" /\ g.main = place /\ g.dir = f.dir
  BY <1>1, <1>2 DEF FrameType
<1>4. FrameOk(g, win[f.w])
  BY <1>1, <1>3 DEF FrameOk
<1>5. stack' = [stack EXCEPT ![Top] = g] /\ win' = [win EXCEPT ![f.w] = win[f.w]]
  BY <1>1, <1>2 DEF BrowseInv, StackType
<1>6. Moves(Top, g, win[f.w])
  BY <1>1, <1>3, <1>4, <1>5 DEF Moves
<1> QED
  BY <1>3, <1>6

\* Such a step that keeps the cache, or purges it.
LEMMA PlaceInv ==
  ASSUME BrowseInv, stack # <<>>, stack[Top].th = "ended", NEW place \in MainSteps \ {"loop"},
         place \in {"clear", "clear_swap"} => win[stack[Top].w].up,
         stack' = [stack EXCEPT ![Top].main = place], UNCHANGED win,
         Kept, ServerType',
         \A d \in Dirs : server[d] <= server'[d] /\ told'[d] <= server'[d] /\ win[stack[Top].w].made[d] <= server'[d],
         \A l \in Lines' : Usable(l.file)' => told'[l.dir] = told[l.dir],
         \A l \in Lines' : Half(l.file)' /\ Holds(Top, l.file) => place = "lost",
         place = "clear_swap" => \A l \in Lines' : l.dir = win[stack[Top].w].dir => ~Usable(l.file)'
  PROVE  BrowseInv'
<1> DEFINE f == stack[Top]
<1>1. PICK v : v = f.w
  OBVIOUS
<1>2. PICK r : r = win[v]
  OBVIOUS
<1>3. PICK g : /\ Moves(Top, g, r) /\ g.op = f.op /\ g.ret = f.ret
               /\ g.got = f.got /\ g.file = f.file /\ g.th = "ended" /\ g.main = place
  BY <1>1, <1>2, PlaceMoves
<1>4. Top \in DOMAIN stack /\ f.w \in Windows /\ ~r.stopable
  BY <1>1, <1>2, AtTop
<1>5. PICK k : k = Top
  OBVIOUS
<1>6. Moves(k, g, r)
  BY <1>3, <1>5
<1>7. /\ stack'[k] = g /\ DOMAIN stack' = DOMAIN stack /\ Top' = Top /\ win'[v] = r
      /\ \A j \in DOMAIN stack : stack'[j].w = stack[j].w
  <2>1. stack[k].w = v
    BY <1>1, <1>5
  <2> QED
    BY <2>1, <1>6, MovesFacts DEF BrowseInv
<1>8. place # "clear_swap" => (Pending(f) => Pending(g))
  BY <1>3 DEF Pending
<1>9. ASSUME ~r.crossed PROVE Own(v)'
  <2>1. CASE r.up
    <3>1. ASSUME OwnNow(f, r) PROVE OwnNext(g, r)
      <4>1. CacheShows(g, r)
        <5>1. CASE place # "clear_swap"
          BY <5>1, <3>1, <1>8, OwnCache
        <5>2. CASE place = "clear_swap"
          <6> SUFFICES ASSUME NEW l \in Lines', Usable(l.file)'
                       PROVE  files'[l.file].v >= r.made[l.dir]
            BY DEF CacheShows
          <6>1. l.dir # r.dir
            BY <5>2, <1>1, <1>2
          <6>2. l \in Lines /\ Usable(l.file) /\ files'[l.file].v = files[l.file].v
            BY DEF Kept, SameText
          <6> QED
            BY <6>1, <6>2, <3>1 DEF OwnNow
        <5> QED
          BY <5>1, <5>2
      <4> QED
        BY <4>1, <3>1, <1>3 DEF OwnNow, OwnNext, FrameShows, Leaves
    <3> QED
      BY <3>1, <2>1, <1>1, <1>2, <1>3, <1>9, OwnMainUp
  <2>2. CASE ~r.up
    BY <2>2, <1>1, <1>2, <1>3, <1>4, <1>8, <1>9, OwnMainDown
  <2> QED
    BY <2>1, <2>2
<1>10. ASSUME NEW l \in Lines', Half(l.file)', Holds(Top, l.file) PROVE Holds(Top, l.file)'
  <2>1. place = "lost"
    BY <1>10
  <2>2. /\ ~r.up /\ r.named /\ f.file = l.file
    BY <1>1, <1>2, <1>10, HoldsAtTop
  <2>3. \A j \in DOMAIN stack' : stack'[j].w = stack'[k].w => j <= k
    <3>1. k \in DOMAIN stack
      BY <1>4, <1>5
    <3>2. \A j \in DOMAIN stack : stack[j].w = stack[k].w => j <= k
      BY <1>5, <1>10, <2>2 DEF Holds
    <3> QED
      BY <3>1, <3>2, <1>7
  <2>4. stack'[k].w = v
    BY <1>1, <1>4, <1>5, <1>7
  <2>5. Holds(k, l.file)'
    BY <2>1, <2>2, <2>3, <2>4, <1>3, <1>7 DEF Holds
  <2> QED
    BY <2>5, <1>5, <1>7 DEF Holds
<1> QED
  BY <1>1, <1>2, <1>3, <1>9, <1>10, MainMovesInv

\* gftpui_run_callback() goes on after the thread.
LEMMA JoinInv ==
  ASSUME BrowseInv, Join
  PROVE  BrowseInv'
<1> DEFINE f == stack[Top]
           r == win[f.w]
<1>1. /\ stack # <<>> /\ f.main = "loop" /\ f.th = "ended" /\ ~r.stopable
      /\ UNCHANGED <<index, newdb, server, files, told>>
  BY DEF Join
<1>2. /\ Top \in DOMAIN stack /\ f \in FrameType /\ f.w \in Windows /\ f.op \in Ops
      /\ r \in WinType /\ RequestOk(r) /\ FrameOk(f, r)
  BY <1>1, AtTop
<1>3. Kept
  BY <1>1, SameKept DEF BrowseInv
<1>4. ServerType' /\ \A d \in Dirs : server[d] <= server'[d] /\ told'[d] <= server'[d] /\ r.made[d] <= server'[d]
  <2>1. ServerType'
    BY <1>1 DEF BrowseInv, ServerType
  <2> QED
    BY <2>1, <1>1, <1>2, Versions
<1>5. CASE ~r.up
  <2>1. stack' = [stack EXCEPT ![Top].main = "lost"] /\ UNCHANGED win
    BY <1>5 DEF Join
  <2>2. "lost" \in MainSteps \ {"loop"}
    BY DEF MainSteps
  <2> QED
    BY <2>1, <2>2, <1>1, <1>3, <1>4, PlaceInv
<1>6. CASE r.up
  <2>1. Resume(f)
    BY <1>6 DEF Join
  <2>2. f.op \notin {"refresh", "disconnect"}
    BY <1>1, <1>2 DEF FrameOk
  <2>3. CASE f.op = "ls" /\ f.got # Nothing
    <3>1. stack' = Front(stack) /\ win' = [win EXCEPT ![f.w].shown = f.got]
      BY <2>1, <2>3 DEF Resume, Return
    <3>2. PICK q : q = [r EXCEPT !.shown = f.got]
      OBVIOUS
    <3>3. win' = [win EXCEPT ![f.w] = q]
      BY <3>1, <3>2
    <3>4. /\ q \in WinType /\ q.up = r.up /\ q.stopable = r.stopable /\ q.named = r.named /\ q.dir = r.dir
          /\ q.made = r.made /\ q.crossed = r.crossed /\ q.shown = f.got
      BY <3>2, <1>2 DEF WinType, FrameType
    <3>5. RequestOk(q)
      BY <3>4, <1>2, <1>6 DEF RequestOk
    <3>6. Pops(q)
      BY <3>1, <3>3, <3>4, <3>5, <1>1 DEF Pops
    <3>7. OwnNow(f, r) => Shows(q.shown, q)
      BY <3>4, <2>3, <1>6 DEF OwnNow, FrameShows, Shows
    <3>8. ~Pending(f)
      BY <2>3 DEF Pending
    <3> QED
      BY <3>4, <3>6, <3>7, <3>8, <1>1, <1>3, <1>6, ReturnInv
  <2>4. CASE f.op = "ls" /\ f.got = Nothing
    <3>1. stack' = [stack EXCEPT ![Top].main = "drop"] /\ UNCHANGED win
      BY <2>1, <2>4 DEF Resume
    <3>2. "drop" \in MainSteps \ {"loop"}
      BY DEF MainSteps
    <3>3. \A x : ~Holds(Top, x)
      BY <1>1, <1>6, HoldsAtTop
    <3> QED
      BY <3>1, <3>2, <3>3, <1>1, <1>3, <1>4, PlaceInv
  <2>5. CASE f.op # "ls" /\ f.ret = "ok" /\ KeepsCache(f.op)
    <3>1. StartList(Top, f.w, [r EXCEPT !.shown = Nothing])
      BY <2>1, <2>5 DEF Resume
    <3>2. ~Pending(f)
      BY <2>5 DEF Pending, KeepsCache
    <3> QED
      BY <3>1, <3>2, <1>1, <1>3, <1>6, RelistInv
  <2>6. CASE f.op # "ls" /\ f.ret = "ok" /\ ~KeepsCache(f.op)
    <3>1. stack' = [stack EXCEPT ![Top].main = "clear"] /\ UNCHANGED win
      BY <2>1, <2>6 DEF Resume
    <3>2. "clear" \in MainSteps \ {"loop"}
      BY DEF MainSteps
    <3>3. \A x : ~Holds(Top, x)
      BY <1>1, <1>6, HoldsAtTop
    <3> QED
      BY <3>1, <3>2, <3>3, <1>1, <1>3, <1>4, <1>6, PlaceInv
  <2>7. CASE f.op # "ls" /\ f.ret # "ok"
    <3>1. stack' = Front(stack) /\ UNCHANGED win
      BY <2>1, <2>7 DEF Resume, Return
    <3>2. win' = [win EXCEPT ![f.w] = r]
      BY <3>1, <1>2 DEF BrowseInv, StackType
    <3>3. Pops(r)
      BY <3>1, <3>2, <1>1, <1>2 DEF Pops
    <3>4. ~Pending(f) /\ Leaves(f)
      BY <2>2, <2>7 DEF Pending, Leaves
    <3>5. OwnNow(f, r) => Shows(r.shown, r)
      BY <3>4, <1>6 DEF OwnNow
    <3> QED
      BY <3>3, <3>4, <3>5, <1>1, <1>3, <1>6, ReturnInv
  <2> QED
    BY <2>3, <2>4, <2>5, <2>6, <2>7
<1> QED
  BY <1>5, <1>6

\* gftp_disconnect(): the first half of the purge of a file that is not whole
LEMMA DropReadsInv ==
  ASSUME BrowseInv, DropReads
  PROVE  BrowseInv'
<1> DEFINE f == stack[Top]
           r == win[f.w]
<1>1. /\ stack # <<>> /\ f.main \in {"lost", "drop"} /\ PurgeRead(f.w, TRUE) /\ UNCHANGED <<win, index, server>>
      /\ stack' = [stack EXCEPT ![Top].main = IF @ = "lost" THEN "lost_swap" ELSE "drop_swap"]
  BY DEF DropReads
<1>2. Top \in DOMAIN stack /\ f.w \in Windows /\ f.th = "ended"
  BY <1>1, AtTop
<1>3. PICK place : place = IF f.main = "lost" THEN "lost_swap" ELSE "drop_swap"
  OBVIOUS
<1>4. stack' = [stack EXCEPT ![Top].main = place]
  BY <1>1, <1>2, <1>3
<1>5. place \in MainSteps \ {"loop"} /\ place \notin {"clear", "clear_swap"}
  BY <1>3 DEF MainSteps
<1>6. /\ Kept /\ ServerType'
      /\ \A d \in Dirs : server[d] <= server'[d] /\ told'[d] <= server'[d] /\ r.made[d] <= server'[d]
      /\ \A l \in Lines' : Usable(l.file)' => told'[l.dir] = told[l.dir]
      /\ \A l \in Lines' : r.named => ~Usable(l.file)'
  BY <1>1, <1>2, PurgeFacts
<1>7. \A l \in Lines' : ~(Half(l.file)' /\ Holds(Top, l.file))
  BY <1>2, <1>6, HoldsAtTop DEF Half, Usable
<1> QED
  BY <1>1, <1>2, <1>4, <1>5, <1>6, <1>7, PlaceInv

\* gftpui_refresh(): the first half of its purge
LEMMA ClearReadsInv ==
  ASSUME BrowseInv, ClearReads
  PROVE  BrowseInv'
<1> DEFINE f == stack[Top]
           r == win[f.w]
<1>1. /\ stack # <<>> /\ f.main = "clear" /\ PurgeRead(f.w, FALSE) /\ UNCHANGED <<win, index, server>>
      /\ stack' = [stack EXCEPT ![Top].main = "clear_swap"]
  BY DEF ClearReads
<1>2. Top \in DOMAIN stack /\ f.w \in Windows /\ f.th = "ended" /\ FrameOk(f, r)
  BY <1>1, AtTop
<1>3. r.up /\ "clear_swap" \in MainSteps \ {"loop"}
  BY <1>1, <1>2 DEF FrameOk, MainSteps
<1>4. /\ Kept /\ ServerType'
      /\ \A d \in Dirs : server[d] <= server'[d] /\ told'[d] <= server'[d] /\ r.made[d] <= server'[d]
      /\ \A l \in Lines' : Usable(l.file)' => told'[l.dir] = told[l.dir]
      /\ \A l \in Lines' : l.dir = r.dir => ~Usable(l.file)'
  BY <1>1, <1>2, PurgeFacts
<1>5. \A x : ~Holds(Top, x)
  BY <1>2, <1>3, HoldsAtTop
<1> QED
  BY <1>1, <1>2, <1>3, <1>4, <1>5, PlaceInv

\* A request that was disconnected knows nothing.
LEMMA BlankFacts ==
  /\ Blank \in WinType /\ RequestOk(Blank) /\ ~Blank.up /\ ~Blank.stopable /\ ~Blank.crossed
  /\ \A d \in Dirs : Blank.made[d] = 0
<1>1. Nothing \in Listing /\ Nothing.dir = NoDir
  BY BrowseAssumption DEF Nothing, Listing
<1>2. [d \in Dirs |-> 0] \in [Dirs -> 0..MaxChanges]
  BY BrowseAssumption
<1>3. Blank \in WinType
  BY <1>1, <1>2 DEF Blank, WinType
<1> QED
  BY <1>1, <1>3 DEF Blank, RequestOk

\* gftp_disconnect(), after the purge
LEMMA DropsInv ==
  ASSUME BrowseInv, Drops
  PROVE  BrowseInv'
<1> DEFINE f == stack[Top]
<1>1. /\ stack # <<>> /\ f.main \in {"lost", "drop", "lost_swap", "drop_swap"}
      /\ win' = [win EXCEPT ![f.w] = Blank] /\ UNCHANGED <<files, server, told>>
  BY DEF Drops
<1>2. /\ Top \in DOMAIN stack /\ f \in FrameType /\ f.w \in Windows /\ f.th = "ended"
  BY <1>1, AtTop
<1>3. /\ Kept
      /\ f.main = "lost" => Lines' = {}
  <2>1. CASE f.main \in {"lost_swap", "drop_swap"} /\ PurgeSwap
    BY <2>1, <1>1, PurgeSwapKept DEF BrowseInv
  <2>2. CASE f.main \in {"lost", "drop"} /\ ~index.there /\ UNCHANGED <<index, newdb>>
    <3>1. index.lines = <<>>
      BY <2>2 DEF BrowseInv, CacheInv
    <3>2. Lines' = {}
      BY <3>1, <2>2 DEF Lines, ToSet
    <3> QED
      BY <3>2, <2>2, <1>1, SameKept DEF BrowseInv
  <2> QED
    BY <2>1, <2>2 DEF Drops
<1>4. \A l \in Lines' : ~Holds(Top, l.file)
  BY <1>1, <1>2, <1>3, HoldsAtTop
<1>5. \A d \in Dirs : /\ server[d] <= server'[d] /\ told'[d] <= server'[d] /\ Blank.made[d] <= server'[d]
                      /\ server'[d] = server[d] /\ told'[d] = told[d]
  BY <1>1, BlankFacts, Versions
<1>6. ServerType'
  BY <1>1 DEF BrowseInv, ServerType
<1>7. PICK v : v = f.w
  OBVIOUS
<1>8. \A l \in Lines' : Usable(l.file)' => files'[l.file].v >= Blank.made[l.dir]
  <2>1. ASSUME NEW l \in Lines', Usable(l.file)' PROVE l.dir \in Dirs /\ files'[l.file].v \in Nat
    <3>1. l \in Lines /\ CacheType
      BY <2>1, <1>3 DEF Kept, BrowseInv
    <3>2. l.dir \in Dirs /\ l.file \in CacheFiles
      BY <3>1, LinesType
    <3>3. files[l.file] \in FileType
      BY <3>1, <3>2 DEF CacheType
    <3> QED
      BY <3>2, <3>3, <1>1 DEF FileType
  <2> QED
    BY <2>1, BlankFacts
<1>9. \A j \in DOMAIN stack : stack[j].w = v => stack[j].th = "ended"
  BY <1>2, <1>7, OthersRest DEF BrowseInv
<1>10. CASE f.op = "ls" /\ f.main \in {"lost", "lost_swap"}
  <2>1. PICK g : g = [f EXCEPT !.main = "drop"]
    OBVIOUS
  <2>2. stack' = [stack EXCEPT ![Top] = g]
    BY <2>1, <1>10 DEF Drops
  <2>3. g \in FrameType /\ g.w = f.w /\ g.op = "ls" /\ g.th = "ended" /\ g.main = "drop"
    BY <2>1, <1>2, <1>10 DEF FrameType, MainSteps
  <2>4. FrameOk(g, Blank)
    BY <2>3 DEF FrameOk
  <2>5. Moves(Top, g, Blank)
    BY <2>2, <2>3, <2>4, <1>1, <1>2, BlankFacts DEF Moves
  <2>6. Own(v)'
    <3>1. PICK k : k = Top
      OBVIOUS
    <3>2. Moves(k, g, Blank) /\ v = stack[k].w
      BY <2>5, <3>1, <1>7
    <3>3. /\ DOMAIN stack' = DOMAIN stack /\ stack'[k] = g /\ win'[v] = Blank
          /\ \A j \in DOMAIN stack : j # k => stack'[j] = stack[j]
          /\ \A j \in DOMAIN stack : stack'[j].w = stack[j].w
      BY <3>2, MovesFacts DEF BrowseInv
    <3>4. \A j \in DOMAIN stack' : stack'[j].w = v => stack'[j].th = "ended"
      BY <3>3, <2>3, <1>9
    <3> QED
      BY <3>3, <3>4, <1>8, BlankFacts DEF Own, FrameShows
  <2> QED
    BY <2>3, <2>5, <2>6, <1>1, <1>2, <1>3, <1>4, <1>5, <1>6, <1>7, MainMovesInv
<1>11. CASE ~(f.op = "ls" /\ f.main \in {"lost", "lost_swap"})
  <2>1. stack' = Front(stack)
    BY <1>11 DEF Drops, Return
  <2>2. Pops(Blank)
    BY <2>1, <1>1, <1>2, BlankFacts DEF Pops
  <2>3. Own(v)'
    <3>1. /\ DOMAIN stack' = DOMAIN stack \ {Top} /\ win'[v] = Blank
          /\ \A j \in DOMAIN stack' : stack'[j] = stack[j]
      BY <2>2, <1>7, PopsFacts DEF BrowseInv
    <3>2. \A j \in DOMAIN stack' : stack'[j].w = v => stack'[j].th = "ended"
      BY <3>1, <1>9
    <3> QED
      BY <3>1, <3>2, <1>8, BlankFacts DEF Own, FrameShows
  <2> QED
    BY <2>2, <2>3, <1>1, <1>3, <1>4, <1>5, <1>7, PopsInv
<1> QED
  BY <1>10, <1>11

\* Every step of the main thread keeps the invariant.
LEMMA MainStep ==
  ASSUME BrowseInv, Main
  PROVE  BrowseInv'
<1>1. CASE Join
  BY <1>1, JoinInv
<1>2. CASE DropReads
  BY <1>2, DropReadsInv
<1>3. CASE Drops
  BY <1>3, DropsInv
<1>4. CASE ClearReads
  BY <1>4, ClearReadsInv
<1>5. CASE Relist
  <2>1. /\ stack # <<>> /\ stack[Top].main \in {"clear", "clear_swap"} /\ UNCHANGED <<files, server, told>>
        /\ StartList(Top, stack[Top].w, [win[stack[Top].w] EXCEPT !.shown = Nothing])
    BY <1>5 DEF Relist
  <2>2. stack[Top].th = "ended" /\ win[stack[Top].w].up
    BY <2>1, AtTop DEF FrameOk
  <2>3. CASE stack[Top].main = "clear_swap" /\ PurgeSwap
    <3>1. Kept
      BY <2>1, <2>3, PurgeSwapKept DEF BrowseInv
    <3>2. ~Pending(stack[Top])
      BY <2>3 DEF Pending
    <3> QED
      BY <3>1, <3>2, <2>1, <2>2, RelistInv
  <2>4. CASE stack[Top].main = "clear" /\ ~index.there /\ UNCHANGED <<index, newdb>>
    <3>1. Kept
      BY <2>1, <2>4, SameKept DEF BrowseInv
    <3>2. index'.lines = <<>>
      BY <2>4 DEF BrowseInv, CacheInv
    <3>3. Lines' = {}
      BY <3>2 DEF Lines, ToSet
    <3> QED
      BY <3>1, <3>3, <2>1, <2>2, RelistInv
  <2> QED
    BY <2>3, <2>4, <1>5 DEF Relist
<1> QED
  BY <1>1, <1>2, <1>3, <1>4, <1>5 DEF Main

-----------------------------------------------------------------------------
(* The steps of the user. *)

\* An operation starts in a window whose earlier ones have no thread.
LEMMA BeginInv ==
  ASSUME BrowseInv, NEW g, NEW r, Begin(g, r), g \in FrameType, g.th \notin {"list", "fill", "read"},
         ~win[g.w].stopable, r \in WinType, RequestOk(r), FrameOk(g, r), r.stopable <=> g.th # "ended",
         r.made = win[g.w].made, r.crossed = win[g.w].crossed, g.got = Nothing, ~Pending(g),
         r.up /\ Leaves(g) => win[g.w].up /\ r.dir = win[g.w].dir /\ r.shown = win[g.w].shown
  PROVE  BrowseInv'
<1> DEFINE F == {stack[i].file : i \in FramesOf(g.w)}
<1>1. g.w \in Windows
  BY DEF FrameType
<1>2. PICK q : q = [r EXCEPT !.crossed = @ \/ FramesOf(g.w) # {}]
  OBVIOUS
<1>3. /\ q \in WinType /\ q.up = r.up /\ q.stopable = r.stopable /\ q.named = r.named /\ q.dir = r.dir
      /\ q.made = r.made /\ q.shown = r.shown /\ (q.crossed <=> r.crossed \/ FramesOf(g.w) # {})
  BY <1>2 DEF WinType
<1>4. RequestOk(q) /\ FrameOk(g, q)
  BY <1>3 DEF RequestOk, FrameOk
<1>5. Pushes(g, q)
  BY <1>2, <1>3, <1>4 DEF Begin, Pushes
<1>6. Kept /\ \A f \in CacheFiles \cap F : files'[f].over
  <2>1. files' = [f \in CacheFiles |-> IF f \in F THEN [files[f] EXCEPT !.over = TRUE] ELSE files[f]]
    BY DEF Begin
  <2>2. UNCHANGED <<index, newdb>>
    BY DEF Begin
  <2> HIDE DEF F
  <2> QED
    BY <2>1, <2>2, OverKept DEF BrowseInv
<1>7. ASSUME NEW l \in Lines', NEW i \in DOMAIN stack, Half(l.file)', stack[i].w = g.w
      PROVE  stack[i].file # l.file
  <2>1. i \in FramesOf(g.w)
    BY <1>7 DEF FramesOf
  <2>2. l \in Lines /\ CacheType
    BY <1>6, <1>7 DEF Kept, Half, Usable, BrowseInv
  <2>3. l.file \in CacheFiles
    BY <2>2, LinesType
  <2> QED
    BY <2>1, <2>3, <1>6, <1>7 DEF Half
<1>8. UNCHANGED <<server, told>>
  BY DEF Begin
<1>9. \A d \in Dirs : q.made[d] <= server[d]
  BY <1>1, <1>3, Versions
<1>10. PICK v : v = g.w
  OBVIOUS
<1>11. ASSUME ~q.crossed PROVE Own(v)'
  <2>1. \A j \in DOMAIN stack : stack[j].w # v
    BY <1>3, <1>10, <1>11 DEF FramesOf
  <2>2. Own(v)
    BY <1>1, <1>3, <1>10, <1>11 DEF BrowseInv, OwnInv
  <2>3. CacheShows(g, q)
    <3> SUFFICES ASSUME NEW l \in Lines', Usable(l.file)'
                 PROVE  files'[l.file].v >= q.made[l.dir]
      BY DEF CacheShows
    <3>1. l \in Lines /\ Usable(l.file) /\ files'[l.file].v = files[l.file].v
      BY <1>6 DEF Kept, SameText
    <3> QED
      BY <3>1, <2>1, <2>2, <1>3, <1>10 DEF Own
  <2>4. q.up /\ Leaves(g) => Shows(q.shown, q)
    BY <2>1, <2>2, <1>3, <1>10 DEF Own, Shows
  <2>5. OwnNext(g, q)
    BY <2>3, <2>4 DEF OwnNext
  <2> QED
    BY <2>1, <2>5, <1>5, <1>10, OwnPushed DEF BrowseInv
<1> QED
  BY <1>5, <1>6, <1>7, <1>8, <1>9, <1>10, <1>11, PushesInv

\* The first frame of an operation
LEMMA StartFrame ==
  ASSUME NEW w \in Windows, NEW op \in {"connect", "change", "delete", "chdir"}, NEW d \in Dirs \cup {NoDir}
  PROVE  LET g == Frame(w, op, d)
         IN  /\ g \in FrameType /\ g.w = w /\ g.op = op /\ g.th = FirstStep[op] /\ g.main = "loop" /\ g.dir = d
             /\ g.ret = "retry" /\ g.file = NoFile /\ g.got = Nothing
             /\ g.th \in {"connect", "change", "delete", "chdir"}
<1>1. FirstStep[op] \in StepsOf[op] /\ FirstStep[op] \in {"connect", "change", "delete", "chdir"}
  BY DEF FirstStep, StepsOf
<1>2. Nothing \in Listing /\ (IF op = "connect" THEN Retries ELSE 0) \in 0..Retries
  BY BrowseAssumption DEF Nothing, Listing
<1>3. Frame(w, op, d) =
        [w |-> w, op |-> op, dir |-> d, th |-> FirstStep[op], main |-> "loop",
         left |-> IF op = "connect" THEN Retries ELSE 0, ret |-> "retry", file |-> NoFile, got |-> Nothing]
  BY DEF Frame
<1> QED
  BY <1>1, <1>2, <1>3 DEF FrameType, Ops, ThreadSteps, MainSteps

\* gftpui_generic_thread().
LEMMA BeginThreadInv ==
  ASSUME BrowseInv, NEW w \in Windows, NEW op \in {"connect", "change", "delete", "chdir"},
         NEW d \in Dirs \cup {NoDir}, op = "chdir" => d \in Dirs, NEW r \in WinType, RequestOk(r), r.named,
         BeginThread(w, op, d, r), ~win[w].stopable, r.made = win[w].made, r.crossed = win[w].crossed,
         r.up => win[w].up /\ r.dir = win[w].dir /\ r.shown = win[w].shown
  PROVE  BrowseInv'
<1>1. PICK g : g = Frame(w, op, d)
  OBVIOUS
<1>2. /\ g \in FrameType /\ g.w = w /\ g.op = op /\ g.main = "loop" /\ g.dir = d
      /\ g.ret = "retry" /\ g.file = NoFile /\ g.got = Nothing
      /\ g.th \in {"connect", "change", "delete", "chdir"}
  BY <1>1, StartFrame
<1>3. PICK q : q = [r EXCEPT !.stopable = TRUE]
  OBVIOUS
<1>4. /\ q \in WinType /\ q.stopable /\ q.up = r.up /\ q.named /\ q.dir = r.dir
      /\ q.made = r.made /\ q.shown = r.shown /\ q.crossed = r.crossed
  BY <1>3 DEF WinType
<1>5. RequestOk(q)
  BY <1>4 DEF RequestOk
<1>6. FrameOk(g, q)
  BY <1>2, <1>4 DEF FrameOk
<1>7. Begin(g, q)
  BY <1>1, <1>3 DEF BeginThread
<1>8. ~Pending(g)
  BY <1>2 DEF Pending
<1> QED
  BY <1>2, <1>4, <1>5, <1>6, <1>7, <1>8, BeginInv

\* gftpui_refresh() and gftpui_disconnect().
LEMMA BeginMainInv ==
  ASSUME BrowseInv, NEW w \in Windows, win[w].up, ~win[w].stopable,
         NEW op \in {"refresh", "disconnect"}, NEW at \in {"clear", "drop"}, BeginMain(w, op, at)
  PROVE  BrowseInv'
<1>1. PICK h : h = Frame(w, "change", NoDir)
  OBVIOUS
<1>2. /\ h \in FrameType /\ h.w = w /\ h.dir = NoDir /\ h.ret = "retry" /\ h.file = NoFile /\ h.got = Nothing
  BY <1>1, StartFrame
<1>3. PICK g : g = [h EXCEPT !.op = op, !.th = "ended", !.main = at]
  OBVIOUS
<1>4. /\ g \in FrameType /\ g.w = w /\ g.op = op /\ g.th = "ended" /\ g.main = at /\ g.dir = NoDir
      /\ g.ret = "retry" /\ g.file = NoFile /\ g.got = Nothing
  BY <1>2, <1>3 DEF FrameType, Ops, MainSteps
<1>5. win[w] \in WinType /\ RequestOk(win[w])
  BY DEF BrowseInv, StackType, StackInv
<1>6. FrameOk(g, win[w])
  BY <1>4 DEF FrameOk
<1>7. ~Pending(g) /\ ~Leaves(g)
  BY <1>4 DEF Pending, Leaves
<1>8. Begin(g, win[w])
  BY <1>1, <1>3 DEF BeginMain
<1> QED
  BY <1>4, <1>5, <1>6, <1>7, <1>8, BeginInv

\* Stop sets the cancel flags.
LEMMA StopInv ==
  ASSUME BrowseInv, Stop
  PROVE  BrowseInv'
<1>1. UNCHANGED <<stack, index, newdb, files, server, told>>
  BY DEF Stop
<1>2. PICK undone \in SUBSET {w \in Windows : \E i \in FramesOf(w) : stack[i].th = "find"} :
        win' = [w \in Windows |-> IF w \in undone THEN win[w] ELSE [win[w] EXCEPT !.cancel = TRUE]]
  BY DEF Stop
<1>3. ASSUME NEW w \in Windows
      PROVE  /\ win'[w] \in WinType
             /\ win'[w].up = win[w].up /\ win'[w].stopable = win[w].stopable
             /\ win'[w].named = win[w].named /\ win'[w].dir = win[w].dir
             /\ win'[w].shown = win[w].shown /\ win'[w].made = win[w].made
             /\ win'[w].crossed = win[w].crossed
  <2>1. win[w] \in WinType
    BY DEF BrowseInv, StackType
  <2>2. win'[w] = win[w] \/ win'[w] = [win[w] EXCEPT !.cancel = TRUE]
    BY <1>2
  <2> QED
    BY <2>1, <2>2 DEF WinType
<1>4. win' \in [Windows -> WinType]
  BY <1>2, <1>3
<1>5. StackType'
  BY <1>1, <1>4 DEF BrowseInv, StackType
<1>6. Kept
  BY <1>1, SameKept DEF BrowseInv
<1> QED
  BY <1>1, <1>3, <1>5, <1>6, CacheInvStep

\* A step that only takes lines out of the cache.
LEMMA EmptiesInv ==
  ASSUME BrowseInv, Kept, UNCHANGED <<win, stack, server, told>>
  PROVE  BrowseInv'
<1>1. StackType'
  BY DEF BrowseInv, StackType
<1> QED
  BY <1>1, CacheInvStep

\* The cache is emptied.
LEMMA ClearCacheInv ==
  ASSUME BrowseInv, ClearCache
  PROVE  BrowseInv'
<1>1. /\ UNCHANGED <<win, stack, newdb, server, told>> /\ index' = NoIndex
      /\ files' = Unlinked(ToSet(index.lines))
  BY DEF ClearCache
<1>2. index' \in [there : BOOLEAN, lines : Seq(LineType), glue : BOOLEAN] /\ index'.lines = <<>>
  BY <1>1, EmptySeq DEF NoIndex
<1>3. Lines' = {}
  BY <1>2 DEF Lines, ToSet
<1>4. PICK gone : gone = Lines /\ files' = Unlinked(gone)
  BY <1>1 DEF Lines
<1>5. Kept
  BY <1>1, <1>2, <1>3, <1>4, UnlinkKept DEF BrowseInv
<1> QED
  BY <1>1, <1>5, EmptiesInv

\* Listings get too old.
LEMMA ExpireInv ==
  ASSUME BrowseInv, Expire
  PROVE  BrowseInv'
<1>1. /\ UNCHANGED <<win, stack, newdb, server, told>> /\ index' = [index EXCEPT !.lines = Tail(@)]
      /\ files' = Unlinked({Head(index.lines)}) /\ index.lines # <<>>
  BY DEF Expire
<1>2. index \in [there : BOOLEAN, lines : Seq(LineType), glue : BOOLEAN] /\ index.lines \in Seq(LineType)
      /\ (~index.there => index.lines = <<>>)
  BY DEF BrowseInv, CacheType, CacheInv
<1>3. PICK s : s = index.lines
  OBVIOUS
<1>4. s \in Seq(LineType) /\ s # <<>>
  BY <1>1, <1>2, <1>3
<1>5. /\ Tail(s) \in Seq(LineType) /\ Len(Tail(s)) = Len(s) - 1 /\ Len(s) \in Nat /\ Len(s) # 0
      /\ \A i \in 1..Len(Tail(s)) : Tail(s)[i] = s[i + 1]
      /\ Head(s) = s[1]
  BY <1>4, HeadTailProperties, EmptySeq, LenProperties
<1>6. DOMAIN s = 1..Len(s) /\ DOMAIN Tail(s) = 1..Len(s) - 1
  BY <1>4, <1>5, LenProperties
<1>7. index'.lines = Tail(s) /\ index'.there = index.there
      /\ index' \in [there : BOOLEAN, lines : Seq(LineType), glue : BOOLEAN]
  BY <1>1, <1>2, <1>3, <1>5
<1>8. Lines = {s[i] : i \in 1..Len(s)} /\ Lines' = {Tail(s)[i] : i \in 1..Len(s) - 1}
  BY <1>3, <1>6, <1>7 DEF Lines, ToSet
<1>9. Lines' \subseteq Lines
  <2>1. \A i \in 1..Len(s) - 1 : Tail(s)[i] = s[i + 1] /\ i + 1 \in 1..Len(s)
    BY <1>5
  <2> QED
    BY <2>1, <1>8
<1>10. PICK gone : gone = {Head(s)}
  OBVIOUS
<1>11. \A l \in Lines : l \in gone \/ l \in Lines'
  <2>1. ASSUME NEW i \in 1..Len(s) PROVE s[i] \in gone \/ s[i] \in Lines'
    <3>1. CASE i = 1
      BY <3>1, <1>5, <1>10
    <3>2. CASE i # 1
      <4>1. i - 1 \in 1..Len(s) - 1 /\ (i - 1) + 1 = i
        BY <3>2, <1>5
      <4>2. Tail(s)[i - 1] = s[i]
        BY <4>1, <1>5
      <4> QED
        BY <4>1, <4>2, <1>8
    <3> QED
      BY <3>1, <3>2
  <2> QED
    BY <2>1, <1>8
<1>12. files' = Unlinked(gone) /\ (~index'.there => index'.lines = <<>>)
  BY <1>1, <1>2, <1>3, <1>4, <1>7, <1>10
<1>13. Kept
  BY <1>1, <1>7, <1>9, <1>11, <1>12, UnlinkKept DEF BrowseInv
<1> QED
  BY <1>1, <1>13, EmptiesInv

\* Everything the user does keeps the invariant.
LEMMA UserStep ==
  ASSUME BrowseInv, User
  PROVE  BrowseInv'
<1>1. ASSUME NEW w \in Windows
      PROVE  win[w] \in WinType /\ RequestOk(win[w]) /\ (win[w].up \/ win[w].shown.dir # NoDir => win[w].named)
  <2>1. win[w] \in WinType /\ RequestOk(win[w])
    BY DEF BrowseInv, StackType, StackInv
  <2> QED
    BY <2>1 DEF RequestOk
<1>2. NoDir \in Dirs \cup {NoDir}
  OBVIOUS
<1>3. ASSUME NEW w \in Windows, Connect(w) PROVE BrowseInv'
  <2>1. PICK r : r = [win[w] EXCEPT !.up = FALSE, !.named = TRUE, !.dir = Home]
    OBVIOUS
  <2>2. /\ r \in WinType /\ ~r.up /\ r.named /\ r.dir = Home /\ r.made = win[w].made /\ r.crossed = win[w].crossed
    BY <2>1, <1>1, BrowseAssumption DEF WinType
  <2>3. RequestOk(r)
    BY <2>2, BrowseAssumption DEF RequestOk
  <2>4. BeginThread(w, "connect", NoDir, r) /\ ~win[w].stopable
    BY <2>1, <1>3 DEF Connect
  <2> QED
    BY <2>2, <2>3, <2>4, <1>2, BeginThreadInv
<1>4. ASSUME NEW w \in Windows, Change(w) \/ Site(w) PROVE BrowseInv'
  <2>1. BeginThread(w, "change", NoDir, win[w]) /\ ~win[w].stopable /\ win[w].up
    BY <1>4 DEF Change, Site, check_status
  <2> QED
    BY <2>1, <1>1, <1>2, BeginThreadInv
<1>5. ASSUME NEW w \in Windows, Delete(w) PROVE BrowseInv'
  <2>1. BeginThread(w, "delete", NoDir, win[w]) /\ ~win[w].stopable /\ win[w].up
    BY <1>5 DEF Delete, check_status
  <2> QED
    BY <2>1, <1>1, <1>2, BeginThreadInv
<1>6. ASSUME NEW w \in Windows, NEW d \in Dirs, ChangeDirectory(w, d) \/ DoubleClick(w, d) PROVE BrowseInv'
  <2>1. BeginThread(w, "chdir", d, win[w]) /\ ~win[w].stopable /\ (win[w].up \/ win[w].shown.dir # NoDir)
    BY <1>6 DEF ChangeDirectory, DoubleClick, check_status
  <2> QED
    BY <2>1, <1>1, BeginThreadInv
<1>7. ASSUME NEW w \in Windows, Refresh(w) PROVE BrowseInv'
  BY <1>7, BeginMainInv DEF Refresh, check_status
<1>8. ASSUME NEW w \in Windows, Disconnect(w) PROVE BrowseInv'
  BY <1>8, BeginMainInv DEF Disconnect
<1> QED
  BY <1>3, <1>4, <1>5, <1>6, <1>7, <1>8, StopInv, ClearCacheInv, ExpireInv DEF User

-----------------------------------------------------------------------------
(* The start of the program. *)

\* A cache with a whole listing of every directory.
LEMMA FilledCache ==
  ASSUME NEW name \in [Dirs -> CacheFiles],
         index = [NoIndex EXCEPT !.there = TRUE, !.lines = SetToSeq({[dir |-> d, file |-> name[d]] : d \in Dirs})]
  PROVE  index \in [there : BOOLEAN, lines : Seq(LineType), glue : BOOLEAN] /\ index.there
<1> DEFINE S == {[dir |-> d, file |-> name[d]] : d \in Dirs}
<1>1. S \in SUBSET LineType
  BY DEF LineType
<1>2. IsFiniteSet(S)
  <2>1. PICK f : f = [d \in Dirs |-> [dir |-> d, file |-> name[d]]]
    OBVIOUS
  <2>2. f \in Surjection(Dirs, S)
    BY <2>1 DEF Surjection
  <2> HIDE DEF S
  <2> QED
    BY <2>2, FS_Surjection, BrowseAssumption
<1>3. SetToSeq(S) \in Seq(LineType)
  <2> HIDE DEF S
  <2> QED
    BY <1>1, <1>2, ListOfSet
<1> QED
  BY <1>3 DEF NoIndex

\* The cache of an earlier session is whole.
LEMMA InitInv ==
  ASSUME BrowseInit
  PROVE  BrowseInv
<1>1. /\ stack = <<>> /\ newdb = NoDb /\ server = [d \in Dirs |-> 0] /\ told = [d \in Dirs |-> 0]
  BY DEF BrowseInit
<1>2. Blank \in WinType /\ RequestOk(Blank) /\ ~Blank.up /\ ~Blank.stopable /\ \A d \in Dirs : Blank.made[d] = 0
  BY BlankFacts
<1>3. /\ Open \in WinType /\ RequestOk(Open) /\ ~Open.stopable /\ Shows(Open.shown, Open)
      /\ \A d \in Dirs : Open.made[d] = 0
  <2>1. Home \in Dirs /\ [dir |-> Home, v |-> 0] \in Listing
    BY BrowseAssumption DEF Listing
  <2>2. /\ Open \in WinType /\ Open.up /\ Open.named /\ Open.dir = Home /\ Open.made = Blank.made
        /\ Open.shown = [dir |-> Home, v |-> 0] /\ ~Open.stopable
    BY <2>1, <1>2 DEF Open, WinType
  <2> QED
    BY <2>1, <2>2, <1>2 DEF RequestOk, Shows
<1>4. NoListing \in FileType /\ Whole \in FileType /\ NoListing.v = 0 /\ Whole.v = 0
      /\ NoListing.part = "empty" /\ Whole.part = "whole"
  <2>1. NoListing \in FileType /\ NoListing.v = 0 /\ NoListing.part = "empty"
    BY BrowseAssumption DEF NoListing, FileType
  <2> QED
    BY <2>1 DEF Whole, FileType
<1>5. /\ win \in [Windows -> {Blank, Open}] /\ files \in [CacheFiles -> {NoListing, Whole}]
      /\ index \in [there : BOOLEAN, lines : Seq(LineType), glue : BOOLEAN]
      /\ ~index.there => index.lines = <<>>
  <2>1. CASE win = [w \in Windows |-> Blank] /\ index = NoIndex /\ files = [f \in CacheFiles |-> NoListing]
    BY <2>1, EmptySeq DEF NoIndex
  <2>2. CASE /\ win = [w \in Windows |-> Open]
             /\ LET name == CHOOSE name \in [Dirs -> CacheFiles] : IsInjective(name)
                IN  /\ index = [NoIndex EXCEPT !.there = TRUE,
                                !.lines = SetToSeq({[dir |-> d, file |-> name[d]] : d \in Dirs})]
                    /\ files = [f \in CacheFiles |-> IF f \in Range(name) THEN Whole ELSE NoListing]
    <3>1. PICK at : at = CHOOSE name \in [Dirs -> CacheFiles] : IsInjective(name)
      OBVIOUS
    <3>2. at \in [Dirs -> CacheFiles]
      BY <3>1, BrowseAssumption
    <3>3. index = [NoIndex EXCEPT !.there = TRUE,
                   !.lines = SetToSeq({[dir |-> d, file |-> at[d]] : d \in Dirs})]
      BY <2>2, <3>1
    <3>4. files = [f \in CacheFiles |-> IF f \in Range(at) THEN Whole ELSE NoListing]
      BY <2>2, <3>1
    <3>5. files \in [CacheFiles -> {NoListing, Whole}]
      BY <3>4
    <3>6. index \in [there : BOOLEAN, lines : Seq(LineType), glue : BOOLEAN] /\ index.there
      BY <3>2, <3>3, FilledCache
    <3> QED
      BY <2>2, <3>5, <3>6
  <2> QED
    BY <2>1, <2>2 DEF BrowseInit
<1>6. StackType
  <2>1. win \in [Windows -> WinType]
    BY <1>2, <1>3, <1>5
  <2> QED
    BY <2>1, <1>1, EmptySeq DEF StackType
<1>7. CacheType
  <2>1. files \in [CacheFiles -> FileType]
    BY <1>4, <1>5
  <2> QED
    BY <2>1, <1>1, <1>5 DEF CacheType, NoDb
<1>8. ServerType
  BY <1>1, BrowseAssumption DEF ServerType
<1>9. DOMAIN stack = {}
  BY <1>1
<1>10. \A w \in Windows : /\ RequestOk(win[w]) /\ ~win[w].stopable
                          /\ win[w].up => Shows(win[w].shown, win[w])
                          /\ \A d \in Dirs : win[w].made[d] = 0
  BY <1>2, <1>3, <1>5
<1>11. StackInv
  BY <1>9, <1>10 DEF StackInv
<1>12. CacheInv
  BY <1>1, <1>5 DEF CacheInv, NoDb
<1>13. \A l \in Lines : /\ l.dir \in Dirs /\ files[l.file].v = 0 /\ files[l.file].part # "part"
  <2>1. \A l \in Lines : l.dir \in Dirs /\ l.file \in CacheFiles
    BY <1>7, LinesType
  <2> QED
    BY <2>1, <1>4, <1>5
<1>14. HalfInv
  BY <1>13 DEF HalfInv, Half
<1>15. WriterInv
  BY <1>9 DEF WriterInv
<1>16. ServerInv
  BY <1>1, <1>10 DEF ServerInv
<1>17. FreshInv
  BY <1>1, <1>13 DEF FreshInv
<1>18. OwnInv
  BY <1>9, <1>10, <1>13 DEF OwnInv, Own
<1> QED
  BY <1>6, <1>7, <1>8, <1>11, <1>12, <1>14, <1>15, <1>16, <1>17, <1>18 DEF BrowseInv

\* Every step keeps the invariant.
LEMMA NextInv ==
  BrowseInv /\ [BrowseNext]_browseVars => BrowseInv'
<1> SUFFICES ASSUME BrowseInv, [BrowseNext]_browseVars PROVE BrowseInv'
  OBVIOUS
<1>1. CASE BrowseNext
  BY <1>1, MainStep, ThreadStep, UserStep DEF BrowseNext, System
<1>2. CASE UNCHANGED browseVars
  <2>1. UNCHANGED <<win, stack, index, newdb, files, server, told>>
    BY <1>2 DEF browseVars
  <2>2. Kept
    BY <2>1, SameKept DEF BrowseInv
  <2> QED
    BY <2>1, <2>2, EmptiesInv
<1> QED
  BY <1>1, <1>2

-----------------------------------------------------------------------------
(* The properties. *)

\* The inductive invariant of the windows, their operations and the cache.
THEOREM BrowseInvariant == BrowseSpec => []BrowseInv
BY InitInv, NextInv, PTL DEF BrowseSpec

\* The requests of the windows, the operations and the files of the cache are what their comments say, and an
\* operation is tried no more often than "retries" allows: _gftpui_common_thread_callback().
THEOREM BrowseTypes == BrowseSpec => []BrowseTypeOK
<1>1. BrowseInv => BrowseTypeOK
  <2> SUFFICES ASSUME BrowseInv PROVE BrowseTypeOK
    OBVIOUS
  <2>1. win \in [Windows -> [up : BOOLEAN, cancel : BOOLEAN, stopable : BOOLEAN, named : BOOLEAN,
                             crossed : BOOLEAN, dir : Dirs \union {NoDir},
                             shown : [dir : Dirs \union {NoDir}, v : 0..MaxChanges],
                             made : [Dirs -> 0..MaxChanges]]]
    <3>1. win \in [Windows -> WinType]
      BY DEF BrowseInv, StackType
    <3>2. \A r \in WinType : r \in [up : BOOLEAN, cancel : BOOLEAN, stopable : BOOLEAN, named : BOOLEAN,
                             crossed : BOOLEAN, dir : Dirs \union {NoDir},
                             shown : [dir : Dirs \union {NoDir}, v : 0..MaxChanges],
                             made : [Dirs -> 0..MaxChanges]]
      BY DEF WinType, Listing
    <3> QED
      BY <3>1, <3>2
  <2>2. ASSUME NEW i \in DOMAIN stack
        PROVE  /\ stack[i].left \in 0..Retries
               /\ stack[i].th \in {"connect", "change", "delete", "purge", "swap", "chdir", "find", "enter",
                                  "list", "fill", "read", "ended"}
               /\ stack[i].main \in {"loop", "lost", "lost_swap", "drop", "drop_swap", "clear", "clear_swap"}
               /\ stack[i].main # "loop" => i = Top
    <3>1. stack[i] \in FrameType
      BY StackFacts DEF BrowseInv
    <3>2. stack[i].left \in 0..Retries /\ stack[i].th \in ThreadSteps \cup {"ended"} /\ stack[i].main \in MainSteps
      BY <3>1 DEF FrameType
    <3> QED
      BY <3>2 DEF ThreadSteps, MainSteps, BrowseInv, StackInv
  <2>3. \A f \in CacheFiles : files[f].part \in {"empty", "part", "short", "whole"}
    BY DEF BrowseInv, CacheType, FileType
  <2> QED
    BY <2>1, <2>2, <2>3 DEF BrowseTypeOK
<1> QED
  BY <1>1, BrowseInvariant, PTL

\* However operations nest in the main loop of gftpui_generic_thread(), one thread at most works on the request of
\* a window, and "stopable" tells whether there is one.
THEOREM OneThread == BrowseSpec => []OneThreadPerRequest
<1>1. BrowseInv => OneThreadPerRequest
  <2> SUFFICES ASSUME BrowseInv, NEW w \in Windows
               PROVE  LET running == {i \in FramesOf(w) : stack[i].th # "ended"}
                      IN  Cardinality(running) <= 1 /\ (win[w].stopable <=> running # {})
    BY DEF OneThreadPerRequest
  <2> DEFINE running == {i \in FramesOf(w) : stack[i].th # "ended"}
  <2>1. win[w].stopable <=> running # {}
    BY DEF FramesOf, BrowseInv, StackInv
  <2>2. \A i, j \in running : i = j
    <3>1. Top \in Nat /\ DOMAIN stack = 1..Top
      BY StackFacts DEF BrowseInv
    <3>2. \A i, j \in DOMAIN stack : i < j /\ stack[i].w = stack[j].w => stack[i].th = "ended"
      BY DEF BrowseInv, StackInv
    <3>3. \A i, j \in running : ~(i < j) /\ i \in 1..Top /\ j \in 1..Top
      BY <3>1, <3>2 DEF FramesOf
    <3> QED
      BY <3>1, <3>3
  <2> HIDE DEF running
  <2>3. CASE running = {}
    <3>1. Cardinality(running) = 0
      BY <2>3, FS_EmptySet
    <3> QED
      BY <3>1, <2>1 DEF running
  <2>4. CASE running # {}
    <3>1. PICK i : running = {i}
      BY <2>2, <2>4
    <3>2. Cardinality(running) = 1
      BY <3>1, FS_Singleton
    <3> QED
      BY <3>2, <2>1 DEF running
  <2> QED
    BY <2>3, <2>4
<1> QED
  BY <1>1, BrowseInvariant, PTL

\* A half written listing is in the cache only while an operation with its file is on the stack, or its window has
\* gone on without it: gftpui_generic_thread() purges the site when the connection is lost.
THEOREM HalfListingsGo == BrowseSpec => []HalfIsTemporary
<1>1. BrowseInv => HalfIsTemporary
  BY DEF BrowseInv, HalfInv, Half, Holds, Lines, HalfIsTemporary
<1> QED
  BY <1>1, BrowseInvariant, PTL

\* A connected window at rest shows its directory with all that the window has changed there, however the other
\* window and its purges run beside it: gftpui_run_callback_function().
THEOREM OwnWorkShown == BrowseSpec => []ShowsOwnWork
<1>1. BrowseInv => ShowsOwnWork
  <2> SUFFICES ASSUME BrowseInv, NEW w \in Windows, FramesOf(w) = {}, win[w].up, ~win[w].crossed
               PROVE  win[w].shown.dir = win[w].dir /\ win[w].shown.v >= win[w].made[win[w].dir]
    BY DEF ShowsOwnWork
  <2>1. Own(w)
    BY DEF BrowseInv, OwnInv
  <2>2. \A i \in DOMAIN stack : stack[i].w # w
    BY DEF FramesOf
  <2> QED
    BY <2>1, <2>2 DEF Own, Shows
<1> QED
  BY <1>1, BrowseInvariant, PTL

\* Of a thread that is about to look into the cache only its own look-up makes one that reads a file.
LEMMA OnlyFindReads ==
  ASSUME BrowseInv, [BrowseNext]_browseVars, NEW i \in DOMAIN stack \cap DOMAIN stack',
         stack[i].th = "find", stack'[i].th = "read"
  PROVE  Find(i)
<1>1. StackType /\ Top \in Nat /\ DOMAIN stack = 1..Top
  BY StackFacts DEF BrowseInv
<1>2. stack'[i] # stack[i]
  OBVIOUS
<1>3. CASE UNCHANGED browseVars
  BY <1>2, <1>3 DEF browseVars
<1>4. ASSUME NEW k, Thread(k) PROVE Find(i)
  <2>1. k \in DOMAIN stack
    BY <1>4 DEF Thread
  <2>2. \A e : stack' = [stack EXCEPT ![k] = e] => k = i /\ stack'[i] = e
    BY <1>2, <2>1
  <2>3. k = i
    BY <1>2, <1>4, <2>2 DEF Thread, Cancelled, Connecting, Changing, Deleting, DeletePurges, DeleteSwaps, Chdir, Find,
      Enter, List, Filled, ReadCache, Attempted
  <2>4. ~Cancelled(i)
    <3>1. SUFFICES ASSUME Cancelled(i) PROVE FALSE
      OBVIOUS
    <3>2. stack' = [stack EXCEPT ![i].th = "ended"]
      BY <3>1 DEF Cancelled
    <3>3. stack[i] \in FrameType
      BY StackFacts DEF BrowseInv
    <3>4. stack'[i] = [stack[i] EXCEPT !.th = "ended"]
      BY <3>2
    <3>5. stack'[i].th = "ended"
      BY <3>3, <3>4 DEF FrameType
    <3> QED
      BY <3>5
  <2> QED
    BY <1>4, <2>3, <2>4 DEF Thread, Connecting, Changing, Deleting, DeletePurges, DeleteSwaps, Chdir, Enter, List,
      Filled, ReadCache, Attempts
<1>5. CASE Main
  <2>1. stack # <<>> /\ (stack[Top].th = "ended" \/ stack[Top].main # "loop")
    BY <1>5 DEF Main, Join, DropReads, Drops, ClearReads, Relist
  <2>2. stack[Top].th = "ended" /\ Top \in DOMAIN stack /\ stack[Top].w \in Windows
    BY <2>1, AtTop
  <2>3. i # Top
    BY <2>2
  <2>4. stack' # Front(stack)
    <3>1. SUFFICES ASSUME stack' = Front(stack) PROVE FALSE
      OBVIOUS
    <3>2. stack' = SubSeq(stack, 1, Top - 1)
      BY <3>1 DEF Front, Top
    <3>3. \A j \in 1..Top - 1 : stack[j] \in FrameType
      BY <1>1, StackFacts
    <3>4. /\ stack' \in Seq(FrameType)
          /\ Len(stack') = IF 1 <= Top - 1 THEN (Top - 1) - 1 + 1 ELSE 0
          /\ \A j \in 1..(Top - 1) - 1 + 1 : stack'[j] = stack[1 + j - 1]
      BY <1>1, <2>2, <3>2, <3>3, SubSeqProperties
    <3>5. i \in 1..Top - 1
      BY <1>1, <2>3
    <3>6. i \in 1..(Top - 1) - 1 + 1 /\ 1 + i - 1 = i
      BY <1>1, <3>5
    <3> QED
      BY <1>2, <3>4, <3>6
  <2>5. \A e : stack' # [stack EXCEPT ![Top] = e]
    BY <1>2, <2>3
  <2>6. \A w \in Windows : \A r : ~StartList(Top, w, r)
    BY <1>1, <2>1, <2>5, InPlace, ListFrame DEF StartList
  <2>7. \A place : stack' # [stack EXCEPT ![Top].main = place]
    BY <2>5
  <2>8. ~DropReads /\ ~Drops /\ ~ClearReads
    BY <2>4, <2>7, <2>5 DEF DropReads, Drops, ClearReads, Return
  <2>9. ~Relist
    BY <2>2, <2>6 DEF Relist
  <2>10. ~Join
    <3>1. ~Resume(stack[Top])
      BY <2>2, <2>4, <2>6, <2>7 DEF Resume, Return
    <3> QED
      BY <3>1, <2>7 DEF Join
  <2> QED
    BY <1>5, <2>8, <2>9, <2>10 DEF Main
<1>6. CASE User
  <2>1. stack' # stack
    BY <1>2
  <2>2. \A g, r : Begin(g, r) => (g.w \in Windows => g \notin FrameType)
    <3>1. SUFFICES ASSUME NEW g \in FrameType, stack' = Append(stack, g) PROVE FALSE
      BY DEF Begin
    <3>2. \A j \in 1..Top : stack'[j] = stack[j]
      BY <1>1, <3>1, AppendProperties DEF StackType, Top
    <3> QED
      BY <1>1, <1>2, <3>2
  <2>3. \A w \in Windows, op \in {"connect", "change", "delete", "chdir"}, d \in Dirs \cup {NoDir} :
          \A r : ~BeginThread(w, op, d, r)
    BY <2>2, StartFrame DEF BeginThread
  <2>4. \A w \in Windows, op \in {"refresh", "disconnect"}, at \in {"clear", "drop"} : ~BeginMain(w, op, at)
    <3> SUFFICES ASSUME NEW w \in Windows, NEW op \in {"refresh", "disconnect"}, NEW at \in {"clear", "drop"}
                 PROVE  ~BeginMain(w, op, at)
      OBVIOUS
    <3>1. PICK h : h = Frame(w, "change", NoDir)
      OBVIOUS
    <3>2. h \in FrameType /\ h.w = w
      BY <3>1, StartFrame
    <3>3. [h EXCEPT !.op = op, !.th = "ended", !.main = at] \in FrameType
      BY <3>2 DEF FrameType, Ops, MainSteps
    <3>4. [h EXCEPT !.op = op, !.th = "ended", !.main = at].w = w
      BY <3>2 DEF FrameType
    <3> QED
      BY <3>1, <3>3, <3>4, <2>2 DEF BeginMain
  <2>5. NoDir \in Dirs \cup {NoDir}
    OBVIOUS
  <2> QED
    BY <1>6, <2>1, <2>3, <2>4, <2>5 DEF User, Connect, Change, Site, Delete, ChangeDirectory, DoubleClick, Refresh,
      Disconnect, Stop, ClearCache, Expire
<1> QED
  BY <1>3, <1>4, <1>5, <1>6 DEF BrowseNext, System

\* What gftp_find_cache_entry() finds is no older than the last purge of its directory, also when purges and
\* look-ups of both windows run beside each other on one index.db and one index.db.new.
THEOREM CacheStaysFresh == BrowseSpec => CacheIsFresh
<1>1. BrowseInv /\ [BrowseNext]_browseVars =>
        [\A i \in DOMAIN stack \cap DOMAIN stack' :
           stack[i].th = "find" /\ stack'[i].th = "read"
             => files[stack'[i].file].v >= told[win[stack[i].w].dir]]_browseVars
  <2> SUFFICES ASSUME BrowseInv, [BrowseNext]_browseVars, NEW i \in DOMAIN stack \cap DOMAIN stack',
                      stack[i].th = "find", stack'[i].th = "read"
               PROVE  files[stack'[i].file].v >= told[win[stack[i].w].dir]
    OBVIOUS
  <2>1. Find(i)
    BY OnlyFindReads
  <2>2. PICK c : c = Found(win[stack[i].w].dir)
    OBVIOUS
  <2>3. stack[i] \in FrameType
    BY StackFacts DEF BrowseInv
  <2>4. stack'[i] = [[stack[i] EXCEPT !.th = IF c = NoFile THEN "enter" ELSE "read"] EXCEPT !.file = c]
    BY <2>1, <2>2 DEF Find
  <2>5. stack'[i].th = (IF c = NoFile THEN "enter" ELSE "read") /\ stack'[i].file = c
    BY <2>3, <2>4 DEF FrameType
  <2>6. c # NoFile
    BY <2>5
  <2>7. Usable(c) /\ \E l \in Lines : l.dir = win[stack[i].w].dir /\ l.file = c
    BY <2>2, <2>6, FoundFacts
  <2> QED
    BY <2>5, <2>7 DEF BrowseInv, FreshInv
<1> QED
  BY <1>1, BrowseInvariant, PTL DEF BrowseSpec, CacheIsFresh
=============================================================================
