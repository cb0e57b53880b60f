------------------------- MODULE ConnectionsProofs -------------------------
(***************************************************************************)
(* Proofs about Connections, for any number of transfers, hosts and        *)
(* descriptors, any depth of nested main loops and any behaviour of the    *)
(* user: no descriptor is ever in two requests, what a request has is      *)
(* open, the count of running transfers is exact, and the whole implements *)
(* the transfer queue.                                                     *)
(***************************************************************************)
EXTENDS Connections, FiniteSetTheorems, SequenceTheorems, TLAPS

(* What is said of descriptors, as predicates of the three functions. *)
Distinct(fd) == \A r1, r2 \in Requests : fd[r1] = fd[r2] /\ r1 # r2 => fd[r1] = NoSock
OpenFds(fd, p) == \A r \in Requests : fd[r] # NoSock => p[fd[r]] # NoHost
LocalNone(fd, h) == \A r \in Requests : h[r] = Local => fd[r] = NoSock
FdInv(fd, h, p) ==
  /\ fd \in [Requests -> Socks \cup {NoSock}]
  /\ h \in [Requests -> Hosts]
  /\ p \in [Socks -> RemoteHosts \cup {NoHost}]
  /\ Distinct(fd) /\ OpenFds(fd, p) /\ LocalNone(fd, h)

(* What is said of transfers, frames and the count. *)
QueueInv ==
  /\ cached \in [Requests -> BOOLEAN] /\ stopable \in [Wins -> BOOLEAN]
  /\ st \in [Jobs -> {"none", "collecting", "queued", "running", "done", "reaping", "freed"}]
  /\ fromwdata \in [Jobs -> Wins]
  /\ num_transfers_in_progress \in Nat
  /\ stack \in Seq(Frames)
  /\ torn \in BOOLEAN
  /\ FramesMatch /\ CountIsExact

JobInv == IdleHasNone /\ CollectsRemote

Inv == FdInv(datafd, host, peer) /\ QueueInv /\ JobInv

-----------------------------------------------------------------------------
(* Windows. *)

\* Of two windows, the other one is the other one.
LEMMA OtherWindow == \A w \in Wins : Other(w) \in Wins /\ Other(w) # w
<1>1. SUFFICES ASSUME NEW w \in Wins PROVE Other(w) \in Wins /\ Other(w) # w
  OBVIOUS
<1>2. \E v \in Wins : v # w
  BY WindowAssumption
<1> QED BY <1>2 DEF Other

\* The two requests of a job are no windows, and a transfer has two different sides.
LEMMA RequestKinds == /\ \A j \in Jobs, side \in Sides : <<j, side>> \in Requests /\ <<j, side>> \notin Wins
                      /\ \A w \in Wins : w \in Requests
                      /\ "from" \in Sides /\ "to" \in Sides /\ "from" # "to"
BY WindowAssumption DEF Requests, JobReqs, Sides

\* The windows of a job exist and are different ones.
LEMMA WindowsOfJob ==
  ASSUME fromwdata \in [Jobs -> Wins], NEW j \in Jobs
  PROVE  /\ Window(j, "from") \in Wins /\ Window(j, "to") \in Wins
         /\ Window(j, "from") # Window(j, "to")
BY OtherWindow DEF Window, SideWin

-----------------------------------------------------------------------------
(* Moving, closing and opening descriptors. *)

\* gftp_swap_socks() keeps descriptors distinct and open.
LEMMA SwapKeeps ==
  ASSUME NEW fd, FdInv(fd, host, peer), NEW d \in Requests, NEW s \in Requests, d # s
  PROVE  FdInv(SwapFds(fd, d, s), host, peer)
<1> DEFINE g == SwapFds(fd, d, s)
<1>1. CASE ~SameProtocol(d, s)
  BY <1>1 DEF SwapFds
<1>2. CASE SameProtocol(d, s)
  <2>1. g = [fd EXCEPT ![d] = fd[s], ![s] = NoSock]
    BY <1>2 DEF SwapFds, FdInv, LocalNone
  <2>2. g \in [Requests -> Socks \cup {NoSock}] /\ g[d] = fd[s] /\ g[s] = NoSock
        /\ \A r \in Requests : r # d /\ r # s => g[r] = fd[r]
    BY <2>1 DEF FdInv
  <2>3. Distinct(g)
    BY <2>2 DEF FdInv, Distinct
  <2>4. OpenFds(g, peer)
    BY <2>2 DEF FdInv, OpenFds
  <2>5. LocalNone(g, host)
    BY <2>2, <1>2 DEF FdInv, LocalNone, SameProtocol
  <2> QED BY <2>2, <2>3, <2>4, <2>5 DEF FdInv
<1> QED BY <1>1, <1>2

\* Closing the descriptors of some requests, and forgetting or changing hosts to
\* ones that are not the file system.
LEMMA CloseKeeps ==
  ASSUME FdInv(datafd, host, peer), NEW rs \in SUBSET Requests, CloseAll(rs), host' \in [Requests -> Hosts],
         \A r \in Requests : host'[r] = Local => host[r] = Local
  PROVE  FdInv(datafd', host', peer')
<1>1. /\ datafd' \in [Requests -> Socks \cup {NoSock}]
      /\ peer' \in [Socks -> RemoteHosts \cup {NoHost}]
      /\ \A r \in Requests : datafd'[r] = IF r \in rs THEN NoSock ELSE datafd[r]
      /\ \A s \in Socks : peer'[s] = IF \E r \in rs : datafd[r] = s /\ host[r] # NoHost THEN NoHost ELSE peer[s]
  BY DEF CloseAll, FdInv
<1>2. Distinct(datafd')
  BY <1>1 DEF FdInv, Distinct
<1>3. LocalNone(datafd', host')
  BY <1>1 DEF FdInv, LocalNone
<1>4. OpenFds(datafd', peer')
  <2>1. SUFFICES ASSUME NEW r \in Requests, datafd'[r] # NoSock PROVE peer'[datafd'[r]] # NoHost
    BY DEF OpenFds
  <2>2. r \notin rs /\ datafd'[r] = datafd[r] /\ datafd[r] \in Socks
    BY <1>1, <2>1 DEF FdInv
  <2>3. \A q \in rs : datafd[q] # datafd[r]
    BY <2>1, <2>2 DEF FdInv, Distinct
  <2> QED BY <1>1, <2>1, <2>2, <2>3 DEF FdInv, OpenFds
<1> QED BY <1>1, <1>2, <1>3, <1>4 DEF FdInv

\* gftpui_disconnect() and free_tdata().
LEMMA DestroyKeeps ==
  ASSUME FdInv(datafd, host, peer), NEW rs \in SUBSET Requests, Destroy(rs)
  PROVE  FdInv(datafd', host', peer')
<1>1. host' \in [Requests -> Hosts]
  BY DEF Destroy, FdInv, Hosts
<1>2. \A r \in Requests : host'[r] = Local => host[r] = Local
  BY HostAssumption DEF Destroy
<1> QED BY <1>1, <1>2, CloseKeeps DEF Destroy

\* A new connection.
LEMMA OpensKeeps ==
  ASSUME FdInv(datafd, host, peer), NEW r \in Requests, NEW s \in Socks, Opens(r, s), host' = host
  PROVE  FdInv(datafd', host', peer')
<1>1. /\ datafd' \in [Requests -> Socks \cup {NoSock}]
      /\ datafd'[r] = s /\ \A q \in Requests : q # r => datafd'[q] = datafd[q]
  BY DEF Opens, FdInv
<1>2. /\ peer' \in [Socks -> RemoteHosts \cup {NoHost}]
      /\ peer'[s] = host[r] /\ peer'[s] # NoHost /\ \A x \in Socks : x # s => peer'[x] = peer[x]
  BY HostAssumption DEF Opens, FdInv
<1>3. \A q \in Requests : datafd[q] # s
  BY SockAssumption DEF Opens, FdInv, OpenFds
<1>4. Distinct(datafd')
  BY <1>1, <1>3 DEF FdInv, Distinct
<1>5. OpenFds(datafd', peer')
  BY <1>1, <1>2 DEF FdInv, OpenFds
<1>6. LocalNone(datafd', host')
  BY <1>1, HostAssumption DEF FdInv, LocalNone, Opens
<1> QED BY <1>1, <1>2, <1>4, <1>5, <1>6 DEF FdInv

-----------------------------------------------------------------------------
(* Each action keeps descriptors distinct and open. *)

\* gftpui_refresh() of one window leaves the descriptors of the others as they are.
LEMMA RefreshKeeps ==
  ASSUME FdInv(datafd, host, peer), NEW w \in Wins, NEW below, NEW frame, Refresh(w, below, frame)
  PROVE  FdInv(datafd', host', peer')
<1>1. CASE Destroy({w})
  BY <1>1, DestroyKeeps, RequestKinds
<1>2. CASE UNCHANGED reqVars
  BY <1>2 DEF reqVars
<1> QED BY <1>1, <1>2 DEF Refresh

\* gftp_get_all_subdirs() borrows the window's request and gives it back.
LEMMA TransferFilesKeeps ==
  ASSUME Inv, NEW w \in Wins, NEW j \in Jobs, TransferFiles(w, j)
  PROVE  FdInv(datafd', host', peer')
<1> DEFINE to == Other(w)
           f == <<j, "from">>
           t == <<j, "to">>
           toHost == IF Lent(to) THEN NoHost ELSE host[to]
<1> USE DEF Inv
<1>0. /\ to \in Wins /\ w # to /\ w \in Requests /\ to \in Requests /\ f \in Requests /\ t \in Requests
      /\ f # t /\ f # w /\ f # to /\ t # w /\ t # to
  BY OtherWindow, RequestKinds
<1>1. CASE Destroy({v \in Wins : Lent(v)}) \/ Destroy({to})
  BY <1>0, <1>1, DestroyKeeps, RequestKinds
<1>2. CASE /\ ~Lent(w) /\ host[w] # Local
           /\ host' = [host EXCEPT ![f] = host[w], ![t] = toHost, ![to] = toHost]
           /\ datafd' = [datafd EXCEPT ![f] = datafd[w], ![w] = NoSock, ![t] = datafd[to], ![to] = NoSock]
           /\ peer' = peer
  <2>1. /\ host' \in [Requests -> Hosts] /\ host'[f] = host[w] /\ host'[t] = toHost /\ host'[to] = toHost
        /\ \A r \in Requests : r \notin {f, t, to} => host'[r] = host[r]
    BY <1>0, <1>2 DEF FdInv, Hosts
  <2>2. /\ datafd' \in [Requests -> Socks \cup {NoSock}]
        /\ datafd'[f] = datafd[w] /\ datafd'[w] = NoSock /\ datafd'[t] = datafd[to] /\ datafd'[to] = NoSock
        /\ \A r \in Requests : r \notin {f, t, w, to} => datafd'[r] = datafd[r]
    BY <1>0, <1>2 DEF FdInv
  <2>3. Distinct(datafd')
    BY <1>0, <2>2 DEF FdInv, Distinct
  <2>4. OpenFds(datafd', peer')
    BY <1>0, <1>2, <2>2 DEF FdInv, OpenFds
  <2>5. LocalNone(datafd', host')
    BY <1>0, <1>2, <2>1, <2>2, HostAssumption DEF FdInv, LocalNone
  <2> QED BY <1>2, <2>1, <2>2, <2>3, <2>4, <2>5 DEF FdInv
<1>3. CASE /\ host[w] = Local /\ ~Lent(to)
           /\ host' = [host EXCEPT ![f] = Local, ![t] = toHost]
           /\ UNCHANGED <<datafd, peer>> /\ st[j] = "none"
  <2>1. /\ host' \in [Requests -> Hosts]
        /\ \A r \in Requests : r \notin {f, t} => host'[r] = host[r]
    BY <1>0, <1>3 DEF FdInv, Hosts
  <2>2. datafd[f] = NoSock /\ datafd[t] = NoSock
    BY <1>3, RequestKinds DEF JobInv, IdleHasNone
  <2> QED BY <1>0, <1>3, <2>1, <2>2 DEF FdInv, LocalNone
<1> QED BY <1>1, <1>2, <1>3 DEF TransferFiles

\* create_transfer(): at most two swaps, of different requests.
LEMMA CreateTransferKeeps ==
  ASSUME Inv, NEW j \in Jobs, CreateTransfer(j)
  PROVE  FdInv(datafd', host', peer')
<1> DEFINE fd(f, side) == IF Lends(j, side) THEN SwapFds(f, <<j, side>>, Window(j, side)) ELSE f
<1>1. \A side \in Sides : <<j, side>> \in Requests /\ Window(j, side) \in Requests /\ <<j, side>> # Window(j, side)
  BY WindowsOfJob, RequestKinds DEF Inv, QueueInv, Sides
<1>2. \A f, side : FdInv(f, host, peer) /\ side \in Sides => FdInv(fd(f, side), host, peer)
  BY <1>1, SwapKeeps
<1>3. FdInv(fd(fd(datafd, "from"), "to"), host, peer)
  BY <1>2, RequestKinds DEF Inv
<1> QED BY <1>3 DEF CreateTransfer

\* What transfer_done() does to every descriptor.
LEMMA ReturnedFds ==
  ASSUME Inv, NEW j \in Jobs
  PROVE  /\ ReturnFds(j) \in [Requests -> Socks \cup {NoSock}]
         /\ \A side \in Sides :
              /\ ReturnFds(j)[<<j, side>>] = NoSock
              /\ ReturnFds(j)[Window(j, side)] =
                   IF GivesBack(j, side) THEN datafd[<<j, side>>] ELSE datafd[Window(j, side)]
         /\ \A r \in Requests : (\A side \in Sides : r # <<j, side>> /\ r # Window(j, side))
                                   => ReturnFds(j)[r] = datafd[r]
<1> DEFINE fd(f, side) == IF GivesBack(j, side) THEN SwapFds(f, Window(j, side), <<j, side>>)
                          ELSE [f EXCEPT ![<<j, side>>] = NoSock]
           a == <<j, "from">>
           b == <<j, "to">>
           wa == Window(j, "from")
           wb == Window(j, "to")
<1>1. /\ a \in Requests /\ b \in Requests /\ wa \in Requests /\ wb \in Requests
      /\ a # b /\ wa # wb /\ a # wa /\ a # wb /\ b # wa /\ b # wb
  BY WindowsOfJob, RequestKinds DEF Inv, QueueInv
<1>2. \A side \in Sides : GivesBack(j, side) =>
        SameProtocol(Window(j, side), <<j, side>>) /\ host[<<j, side>>] # Local
  BY DEF GivesBack, SameProtocol, CompareRequest
<1>3. \A f \in [Requests -> Socks \cup {NoSock}], side \in Sides :
        fd(f, side) = IF GivesBack(j, side)
                        THEN [f EXCEPT ![Window(j, side)] = f[<<j, side>>], ![<<j, side>>] = NoSock]
                        ELSE [f EXCEPT ![<<j, side>>] = NoSock]
  BY <1>2 DEF SwapFds
<1>4. datafd \in [Requests -> Socks \cup {NoSock}]
  BY DEF Inv, FdInv
<1> DEFINE g == fd(datafd, "from")
<1>5. /\ g \in [Requests -> Socks \cup {NoSock}] /\ g[a] = NoSock
      /\ g[wa] = IF GivesBack(j, "from") THEN datafd[a] ELSE datafd[wa]
      /\ \A r \in Requests : r # a /\ r # wa => g[r] = datafd[r]
  BY <1>1, <1>3, <1>4, RequestKinds
<1> HIDE DEF g
<1> DEFINE h == fd(g, "to")
<1>6. /\ h \in [Requests -> Socks \cup {NoSock}] /\ h[b] = NoSock
      /\ h[wb] = IF GivesBack(j, "to") THEN g[b] ELSE g[wb]
      /\ \A r \in Requests : r # b /\ r # wb => h[r] = g[r]
  BY <1>1, <1>3, <1>5, RequestKinds
<1>7. ReturnFds(j) = h
  BY DEF ReturnFds, g
<1> HIDE DEF h
<1> QED BY <1>1, <1>5, <1>6, <1>7 DEF Sides

\* transfer_done() gives back or closes.
LEMMA TransferDoneKeeps ==
  ASSUME Inv, NEW j \in Jobs, TransferDone(j)
  PROVE  FdInv(datafd', host', peer')
<1> DEFINE a == <<j, "from">>
           b == <<j, "to">>
           wa == Window(j, "from")
           wb == Window(j, "to")
<1>1. /\ a \in Requests /\ b \in Requests /\ wa \in Requests /\ wb \in Requests
      /\ a # b /\ wa # wb /\ a # wa /\ a # wb /\ b # wa /\ b # wb
  BY WindowsOfJob, RequestKinds DEF Inv, QueueInv
<1>2. /\ datafd' \in [Requests -> Socks \cup {NoSock}]
      /\ datafd'[a] = NoSock /\ datafd'[b] = NoSock
      /\ datafd'[wa] = IF GivesBack(j, "from") THEN datafd[a] ELSE datafd[wa]
      /\ datafd'[wb] = IF GivesBack(j, "to") THEN datafd[b] ELSE datafd[wb]
      /\ \A r \in Requests : r \notin {a, b, wa, wb} => datafd'[r] = datafd[r]
  BY ReturnedFds, RequestKinds DEF TransferDone, Sides
<1>3. /\ peer' \in [Socks -> RemoteHosts \cup {NoHost}]
      /\ \A s \in Socks : peer'[s] = IF \/ ~GivesBack(j, "from") /\ datafd[a] = s
                                        \/ ~GivesBack(j, "to") /\ datafd[b] = s THEN NoHost ELSE peer[s]
  BY DEF TransferDone, Sides, Inv, FdInv
<1>4. GivesBack(j, "from") => datafd[wa] = NoSock /\ host[wa] # Local
  BY DEF GivesBack
<1>5. GivesBack(j, "to") => datafd[wb] = NoSock /\ host[wb] # Local
  BY DEF GivesBack
<1>6. host' \in [Requests -> Hosts] /\ \A r \in Requests : host'[r] = Local => host[r] = Local
  BY HostAssumption DEF TransferDone, Forget, Hosts, Inv, FdInv
<1>7. Distinct(datafd')
  BY <1>1, <1>2, <1>4, <1>5 DEF Distinct, Inv, FdInv
<1>8. OpenFds(datafd', peer')
  <2>1. SUFFICES ASSUME NEW r \in Requests, datafd'[r] # NoSock PROVE peer'[datafd'[r]] # NoHost
    BY DEF OpenFds
  <2>2. datafd'[r] \in Socks
    BY <1>2, <2>1
  <2>3. PICK q \in Requests : datafd[q] = datafd'[r] /\ (q = a => GivesBack(j, "from")) /\ (q = b => GivesBack(j, "to"))
    BY <1>1, <1>2, <2>1
  <2>4. peer[datafd[q]] # NoHost
    BY <2>1, <2>3 DEF Inv, FdInv, OpenFds
  <2>5. /\ ~GivesBack(j, "from") => datafd[a] # datafd[q]
        /\ ~GivesBack(j, "to") => datafd[b] # datafd[q]
    BY <1>1, <2>1, <2>3 DEF Inv, FdInv, Distinct
  <2> QED BY <1>3, <2>2, <2>3, <2>4, <2>5
<1>9. LocalNone(datafd', host')
  BY <1>1, <1>2, <1>4, <1>5, <1>6 DEF LocalNone, Inv, FdInv
<1> QED BY <1>2, <1>3, <1>6, <1>7, <1>8, <1>9 DEF FdInv

-----------------------------------------------------------------------------
(* The stack of nested main loops. *)

\* The innermost frame, and the stack without it.
LEMMA TopFrame ==
  ASSUME stack \in Seq(Frames), stack # <<>>
  PROVE  /\ Len(stack) \in DOMAIN stack /\ Top \in Frames /\ Top.w \in Wins /\ Top.j \in Jobs
         /\ Popped \in Seq(Frames)
         /\ \A i \in DOMAIN Popped : i \in DOMAIN stack /\ i # Len(stack) /\ Popped[i] = stack[i]
<1>1. Len(stack) \in Nat \ {0} /\ DOMAIN stack = 1..Len(stack)
  BY EmptySeq
<1>2. Top \in Frames
  BY <1>1, ElementOfSeq DEF Top
<1>3. Top.w \in Wins /\ Top.j \in Jobs
  BY <1>2 DEF Frames
<1>4. Popped \in Seq(Frames) /\ \A i \in DOMAIN Popped : i \in DOMAIN stack /\ i # Len(stack) /\ Popped[i] = stack[i]
  BY <1>1 DEF Popped
<1> QED BY <1>1, <1>2, <1>3, <1>4

\* transfer_window_files() after the walk keeps descriptors distinct and open.
LEMMA CollectReturnsKeeps ==
  ASSUME Inv, CollectReturns
  PROVE  FdInv(datafd', host', peer')
<1> DEFINE j == Top.j
           w == Top.w
           f == <<j, "from">>
           t == <<j, "to">>
<1>1. w \in Wins /\ j \in Jobs
  BY TopFrame DEF CollectReturns, Returns, Inv, QueueInv
<1> HIDE DEF j, w
<1>2. /\ w \in Requests /\ Other(w) \in Requests /\ f \in Requests /\ t \in Requests
      /\ w # f /\ Other(w) # t
  BY <1>1, OtherWindow, RequestKinds
<1>3. \A side \in Sides : Window(j, side) \in Requests
  BY <1>1, WindowsOfJob, RequestKinds DEF Sides, Inv, QueueInv
<1>4. CASE \E rs \in SUBSET Requests : Destroy(rs)
  BY <1>4, DestroyKeeps DEF Inv
<1>5. CASE /\ datafd' = SwapFds(SwapFds(datafd, w, f), Other(w), t)
           /\ peer' = peer
           /\ host' = host \/ Forget(j, {})
  <2> DEFINE g == SwapFds(datafd, w, f)
  <2>1. FdInv(g, host, peer)
    BY <1>2, SwapKeeps DEF Inv
  <2> HIDE DEF g
  <2>2. FdInv(SwapFds(g, Other(w), t), host, peer)
    BY <1>2, <2>1, SwapKeeps
  <2>3. FdInv(datafd', host, peer')
    BY <1>5, <2>2 DEF g
  <2>4. host' \in [Requests -> Hosts] /\ \A r \in Requests : host'[r] = Local => host[r] = Local
    BY <1>5, HostAssumption DEF Forget, Hosts, Inv, FdInv
  <2> QED BY <2>3, <2>4 DEF FdInv, LocalNone
<1>6. CASE PurgeUnlessConnected(w, {f, t} \cup {Window(j, side) : side \in {x \in Sides : ~IsConnected(<<j, x>>)}})
  <2> DEFINE ws == {f, t} \cup {Window(j, side) : side \in {x \in Sides : ~IsConnected(<<j, x>>)}}
  <2>1. ws \in SUBSET Requests /\ ws \cup {w} \in SUBSET Requests
    BY <1>2, <1>3
  <2> QED BY <1>4, <1>6, <2>1 DEF PurgeUnlessConnected
<1> QED BY <1>5, <1>6 DEF CollectReturns, j, w

\* Descriptors stay distinct and open in every step.
LEMMA FdStep ==
  ASSUME Inv, [Next]_vars
  PROVE  FdInv(datafd', host', peer')
<1>0. FdInv(datafd, host, peer) /\ host \in [Requests -> Hosts]
  BY DEF Inv, FdInv
<1>1. CASE \E w \in Wins : Browse(w)
  BY <1>0, <1>1, RefreshKeeps DEF Browse
<1>2. CASE \E w \in Wins : Disconnect(w)
  BY <1>0, <1>2, DestroyKeeps, RequestKinds DEF Disconnect
<1>3. CASE \E w \in Wins, h \in RemoteHosts : Connect(w, h)
  <2>1. PICK w \in Wins, h \in RemoteHosts : Connect(w, h)
    BY <1>3
  <2>2. {w} \in SUBSET Requests /\ CloseAll({w}) /\ host' = [host EXCEPT ![w] = h]
    BY <2>1, RequestKinds DEF Connect
  <2>3. host' \in [Requests -> Hosts] /\ \A r \in Requests : host'[r] = Local => host[r] = Local
    BY <1>0, <2>2, HostAssumption DEF Hosts
  <2> QED BY <1>0, <2>2, <2>3, CloseKeeps
<1>4. CASE \E w \in Wins, j \in Jobs : TransferFiles(w, j)
  BY <1>4, TransferFilesKeeps
<1>5. CASE \E j \in Jobs : StopQueued(j)
  <2>1. PICK j \in Jobs : StopQueued(j)
    BY <1>5
  <2>2. /\ host' \in [Requests -> Hosts] /\ UNCHANGED <<datafd, peer>>
        /\ \A r \in Requests : host'[r] = Local => host[r] = Local
    BY <1>0, <2>1, HostAssumption DEF StopQueued, Hosts
  <2> QED BY <1>0, <2>2 DEF FdInv, LocalNone
<1>6. CASE \E j \in Jobs : CreateTransfer(j)
  BY <1>6, CreateTransferKeeps
<1>7. CASE \E j \in Jobs : TransferDone(j)
  BY <1>7, TransferDoneKeeps
<1>8. CASE \E j \in Jobs, side \in Sides : JobDrops(j, side)
  <2>1. PICK j \in Jobs, side \in Sides : JobDrops(j, side)
    BY <1>8
  <2>2. {<<j, side>>} \in SUBSET Requests /\ CloseAll({<<j, side>>}) /\ host' = host
    BY <2>1, RequestKinds DEF JobDrops
  <2> QED BY <1>0, <2>2, CloseKeeps
<1>9. CASE \E j \in Jobs, side \in Sides, s \in Socks : JobConnects(j, side, s)
  BY <1>0, <1>9, OpensKeeps, RequestKinds DEF JobConnects
<1>10. CASE \E w \in Wins : ListThread(w)
  <2>1. PICK w \in Wins : ListThread(w)
    BY <1>10
  <2>2. CASE CloseAll({w})
    <3>1. {w} \in SUBSET Requests /\ host' = host
      BY <2>1, RequestKinds DEF ListThread
    <3> QED BY <1>0, <2>2, <3>1, CloseKeeps
  <2>3. CASE UNCHANGED <<datafd, peer>>
    BY <1>0, <2>1, <2>3 DEF ListThread
  <2> QED BY <2>1, <2>2, <2>3 DEF ListThread
<1>11. CASE \E w \in Wins : ConnectThread(w)
  <2>1. PICK w \in Wins : ConnectThread(w)
    BY <1>11
  <2>2. host' = host /\ w \in Requests
    BY <2>1, RequestKinds DEF ConnectThread
  <2>3. CASE \E s \in Socks : Opens(w, s)
    BY <1>0, <2>2, <2>3, OpensKeeps
  <2>4. CASE UNCHANGED <<datafd, cached, peer>>
    BY <1>0, <2>2, <2>4
  <2> QED BY <2>1, <2>3, <2>4 DEF ConnectThread
<1>12. CASE \E w \in Wins : CollectThread(w)
  <2>1. PICK w \in Wins, i \in DOMAIN stack, lost \in SUBSET Sides :
           CloseAll({<<stack[i].j, side>> : side \in lost}) /\ host' = host
    BY <1>12 DEF CollectThread
  <2>2. stack[i] \in Frames
    BY <2>1, ElementOfSeq DEF Inv, QueueInv
  <2>3. {<<stack[i].j, side>> : side \in lost} \in SUBSET Requests
    BY <2>1, <2>2, RequestKinds DEF Frames
  <2> QED BY <1>0, <2>1, <2>3, CloseKeeps
<1>13. CASE OpReturns \/ ReapReturns
  <2>1. Top.w \in Wins /\ Top.j \in Jobs
    BY <1>13, TopFrame DEF OpReturns, ReapReturns, Returns, Inv, QueueInv
  <2>2. \E rs \in SUBSET Requests : Destroy(rs)
    <3>1. {} \in SUBSET Requests /\ {Top.w} \in SUBSET Requests
          /\ {<<Top.j, "from">>, <<Top.j, "to">>} \in SUBSET Requests
          /\ {<<Top.j, "from">>, <<Top.j, "to">>} \cup {Top.w} \in SUBSET Requests
      BY <2>1, RequestKinds
    <3>2. CASE OpReturns
      BY <3>1, <3>2 DEF OpReturns, PurgeUnlessConnected
    <3>3. CASE ReapReturns
      BY <3>1, <3>3 DEF ReapReturns, PurgeUnlessConnected
    <3> QED BY <1>13, <3>2, <3>3
  <2> QED BY <1>0, <2>2, DestroyKeeps
<1>14. CASE ConnectReturns
  <2>1. Top.w \in Wins
    BY <1>14, TopFrame DEF ConnectReturns, Returns, Inv, QueueInv
  <2>2. CASE Destroy({Top.w})
    BY <1>0, <2>1, <2>2, DestroyKeeps, RequestKinds
  <2>3. CASE Refresh(Top.w, Popped, Frame("op", Top.w, AnyJob))
    BY <1>0, <2>1, <2>3, RefreshKeeps
  <2> QED BY <1>14, <2>2, <2>3 DEF ConnectReturns
<1>15. CASE CollectReturns
  BY <1>15, CollectReturnsKeeps
<1>16. CASE UNCHANGED reqVars
  BY <1>0, <1>16 DEF reqVars
<1>17. [Next]_vars => UNCHANGED vars \/ Next
  OBVIOUS
<1> QED BY <1>1, <1>2, <1>3, <1>4, <1>5, <1>6, <1>7, <1>8, <1>9, <1>10, <1>11, <1>12, <1>13, <1>14, <1>15, <1>16
   DEF Next, User, Tick, TickStarts, StartTransfer, JobThreads, JobEnds, WindowThreads, LoopReturns, vars

-----------------------------------------------------------------------------
(* Frames match the states of their transfers. *)

Owning == {"reap", "collect"}
Matches(stk, s, fw) ==
  \A i \in DOMAIN stk : stk[i].kind \in Owning =>
    /\ s[stk[i].j] = FrameState(stk[i].kind)
    /\ stk[i].kind = "collect" => stk[i].w = fw[stk[i].j]
    /\ \A k \in DOMAIN stk : stk[k].kind \in Owning /\ stk[k].j = stk[i].j => k = i
\* No frame belongs to transfer j.
Unframed(stk, j) == \A i \in DOMAIN stk : stk[i].kind \in Owning => stk[i].j # j
States == {"none", "collecting", "queued", "running", "done", "reaping", "freed"}

\* A transfer that is neither collected nor reaped has no frame.
LEMMA NoFrame ==
  ASSUME NEW stk, NEW s, NEW fw, NEW j, Matches(stk, s, fw), s[j] \notin {"collecting", "reaping"}
  PROVE  Unframed(stk, j)
BY DEF Matches, Unframed, FrameState, Owning

\* The state of a transfer without a frame can change.
LEMMA MatchSet ==
  ASSUME NEW stk \in Seq(Frames), NEW s \in [Jobs -> States], NEW fw \in [Jobs -> Wins], NEW j \in Jobs,
         Matches(stk, s, fw), Unframed(stk, j), NEW x, NEW v
  PROVE  Matches(stk, [s EXCEPT ![j] = x], fw) /\ Matches(stk, s, [fw EXCEPT ![j] = v])
<1>1. \A i \in DOMAIN stk : stk[i] \in Frames
  BY ElementOfSeq
<1>2. \A i \in DOMAIN stk : stk[i].j \in Jobs
  BY <1>1 DEF Frames
<1> QED BY <1>2 DEF Matches, Unframed

\* A frame is entered for a transfer that has none and is in its state, or for none.
LEMMA MatchPush ==
  ASSUME NEW stk \in Seq(Frames), NEW s, NEW fw, NEW fr \in Frames, Matches(stk, s, fw),
         fr.kind \in Owning => /\ Unframed(stk, fr.j) /\ s[fr.j] = FrameState(fr.kind)
                               /\ (fr.kind = "collect" => fr.w = fw[fr.j])
  PROVE  Append(stk, fr) \in Seq(Frames) /\ Matches(Append(stk, fr), s, fw)
<1> DEFINE g == Append(stk, fr)
           n == Len(stk) + 1
<1>1. /\ g \in Seq(Frames) /\ DOMAIN stk = 1..Len(stk) /\ DOMAIN g = 1..n /\ Len(stk) \in Nat
      /\ g[n] = fr /\ \A i \in 1..Len(stk) : g[i] = stk[i]
  BY AppendProperties
<1>2. \A i \in DOMAIN g : i = n \/ (i \in DOMAIN stk /\ g[i] = stk[i])
  BY <1>1
<1> HIDE DEF g
<1> QED BY <1>1, <1>2 DEF Matches, Unframed, g

\* The innermost frame is left: its transfer has none any more.
LEMMA MatchPop ==
  ASSUME stack \in Seq(Frames), stack # <<>>, NEW s, NEW fw, Matches(stack, s, fw)
  PROVE  Matches(Popped, s, fw) /\ (Top.kind \in Owning => Unframed(Popped, Top.j))
<1>1. /\ Len(stack) \in DOMAIN stack
      /\ \A i \in DOMAIN Popped : i \in DOMAIN stack /\ i # Len(stack) /\ Popped[i] = stack[i]
  BY TopFrame
<1> QED BY <1>1 DEF Matches, Unframed, Top

-----------------------------------------------------------------------------
(* The count of active transfers. *)

ActiveIn(s) == {j \in Jobs : s[j] \in {"running", "done", "reaping"}}

\* A step that changes the state of one transfer moves the count by at most one.
LEMMA CountSet ==
  ASSUME NEW s \in [Jobs -> States], NEW j \in Jobs, NEW x \in States
  PROVE  /\ IsFiniteSet(ActiveIn(s)) /\ Cardinality(ActiveIn(s)) \in Nat
         /\ (j \in ActiveIn(s) <=> x \in {"running", "done", "reaping"})
              => ActiveIn([s EXCEPT ![j] = x]) = ActiveIn(s)
         /\ j \notin ActiveIn(s) /\ x \in {"running", "done", "reaping"}
              => Cardinality(ActiveIn([s EXCEPT ![j] = x])) = Cardinality(ActiveIn(s)) + 1
         /\ j \in ActiveIn(s) /\ x \notin {"running", "done", "reaping"}
              => /\ Cardinality(ActiveIn([s EXCEPT ![j] = x])) = Cardinality(ActiveIn(s)) - 1
                 /\ Cardinality(ActiveIn(s)) # 0
<1> DEFINE A == {"running", "done", "reaping"}
           a == ActiveIn(s)
           b == ActiveIn([s EXCEPT ![j] = x])
<1>1. IsFiniteSet(a) /\ Cardinality(a) \in Nat
  BY JobAssumption, FS_Subset, FS_CardinalityType DEF ActiveIn
<1>2. (j \in a <=> x \in A) => b = a
  BY DEF ActiveIn
<1>3. j \notin a /\ x \in A => b = a \cup {j}
  BY DEF ActiveIn
<1>4. j \in a /\ x \notin A => b = a \ {j}
  BY DEF ActiveIn
<1>5. ASSUME j \notin a, x \in A PROVE Cardinality(b) = Cardinality(a) + 1
  BY <1>1, <1>3, <1>5, FS_AddElement
<1>6. ASSUME j \in a, x \notin A PROVE Cardinality(b) = Cardinality(a) - 1 /\ Cardinality(a) # 0
  <2>1. Cardinality(b) = Cardinality(a) - 1
    BY <1>1, <1>4, <1>6, FS_RemoveElement
  <2>2. a # {}
    BY <1>6
  <2>3. Cardinality(a) # 0
    BY <1>1, <2>2, FS_EmptySet
  <2> QED BY <2>1, <2>3
<1> QED BY <1>1, <1>2, <1>5, <1>6

-----------------------------------------------------------------------------
(* Types that take a case each: cached and stopable. *)

\* The cached flags stay flags when a connection changes hands,
LEMMA SwapCachedType ==
  ASSUME NEW c \in [Requests -> BOOLEAN], NEW d \in Requests, NEW s \in Requests
  PROVE  SwapCached(c, d, s) \in [Requests -> BOOLEAN]
BY DEF SwapCached

\* and when a job returns its connections.
LEMMA ReturnCachedType ==
  ASSUME cached \in [Requests -> BOOLEAN], fromwdata \in [Jobs -> Wins], NEW j \in Jobs
  PROVE  ReturnCached(j) \in [Requests -> BOOLEAN]
<1> DEFINE c(f, side) == IF GivesBack(j, side) THEN SwapCached(f, Window(j, side), <<j, side>>)
                         ELSE [f EXCEPT ![<<j, side>>] = FALSE]
<1>1. \A side \in Sides : <<j, side>> \in Requests /\ Window(j, side) \in Requests
  BY WindowsOfJob, RequestKinds DEF Sides
<1>2. \A f \in [Requests -> BOOLEAN], side \in Sides : c(f, side) \in [Requests -> BOOLEAN]
  BY <1>1, SwapCachedType
<1>3. c(c(cached, "from"), "to") \in [Requests -> BOOLEAN]
  BY <1>2, RequestKinds
<1> QED BY <1>3 DEF ReturnCached

\* No step makes anything else of them.
LEMMA CachedStep ==
  ASSUME Inv, [Next]_vars
  PROVE  cached' \in [Requests -> BOOLEAN]
<1>0. cached \in [Requests -> BOOLEAN] /\ fromwdata \in [Jobs -> Wins]
  BY DEF Inv, QueueInv
<1>1. ASSUME NEW rs, CloseAll(rs) PROVE cached' \in [Requests -> BOOLEAN]
  BY <1>0, <1>1 DEF CloseAll
<1>2. CASE UNCHANGED cached
  BY <1>0, <1>2
<1>3. ASSUME NEW w, NEW below, NEW fr, Refresh(w, below, fr) PROVE cached' \in [Requests -> BOOLEAN]
  BY <1>1, <1>2, <1>3 DEF Refresh, Destroy, reqVars
<1>4. ASSUME NEW w \in Wins, NEW j \in Jobs, TransferFiles(w, j) PROVE cached' \in [Requests -> BOOLEAN]
  <2>1. CASE Destroy({v \in Wins : Lent(v)}) \/ Destroy({Other(w)})
    BY <1>1, <2>1 DEF Destroy
  <2>2. CASE \E x \in BOOLEAN : cached' = [cached EXCEPT ![w] = TRUE, ![Other(w)] = x]
    BY <1>0, <2>2
  <2>3. CASE cached' = [cached EXCEPT ![Other(w)] = FALSE]
    BY <1>0, <2>3
  <2> QED BY <1>4, <2>1, <2>2, <2>3 DEF TransferFiles
<1>5. ASSUME NEW j \in Jobs, CreateTransfer(j) PROVE cached' \in [Requests -> BOOLEAN]
  <2> DEFINE c(f, side) == IF Lends(j, side) THEN SwapCached(f, <<j, side>>, Window(j, side)) ELSE f
  <2>1. \A side \in Sides : <<j, side>> \in Requests /\ Window(j, side) \in Requests
    BY <1>0, WindowsOfJob, RequestKinds DEF Sides
  <2>2. \A f \in [Requests -> BOOLEAN], side \in Sides : c(f, side) \in [Requests -> BOOLEAN]
    BY <2>1, SwapCachedType
  <2>3. c(c(cached, "from"), "to") \in [Requests -> BOOLEAN]
    BY <1>0, <2>2, RequestKinds
  <2> QED BY <1>5, <2>3 DEF CreateTransfer
<1>6. ASSUME NEW j \in Jobs, TransferDone(j) PROVE cached' \in [Requests -> BOOLEAN]
  <2>1. ReturnCached(j) \in [Requests -> BOOLEAN]
    BY <1>0, ReturnCachedType
  <2> QED BY <1>6, <2>1 DEF TransferDone
<1>7. CASE \E w \in Wins : ListThread(w)
  BY <1>0, <1>1, <1>7 DEF ListThread
<1>8. CASE CollectReturns
  <2> DEFINE j == Top.j
             w == Top.w
  <2>1. w \in Wins /\ j \in Jobs
    BY <1>8, TopFrame DEF CollectReturns, Returns, Inv, QueueInv
  <2>2. CASE cached' = [SwapCached(SwapCached(cached, w, <<j, "from">>), Other(w), <<j, "to">>)
                          EXCEPT ![<<j, "from">>] = FALSE, ![<<j, "to">>] = FALSE]
    <3> DEFINE g == SwapCached(cached, w, <<j, "from">>)
               h == SwapCached(g, Other(w), <<j, "to">>)
    <3>1. g \in [Requests -> BOOLEAN]
      BY <1>0, <2>1, SwapCachedType, RequestKinds
    <3>2. h \in [Requests -> BOOLEAN]
      <4> HIDE DEF g
      <4> QED BY <2>1, <3>1, SwapCachedType, RequestKinds, OtherWindow
    <3> HIDE DEF h
    <3>3. [h EXCEPT ![<<j, "from">>] = FALSE, ![<<j, "to">>] = FALSE] \in [Requests -> BOOLEAN]
      BY <3>2
    <3> QED BY <2>2, <3>3 DEF h
  <2>3. CASE \E rs : Destroy(rs)
    BY <1>1, <2>3 DEF Destroy
  <2> QED BY <1>8, <2>2, <2>3 DEF CollectReturns, PurgeUnlessConnected
<1>9. CASE OpReturns \/ ReapReturns \/ ConnectReturns
  BY <1>1, <1>3, <1>9 DEF OpReturns, ReapReturns, ConnectReturns, PurgeUnlessConnected, Destroy
<1> QED BY <1>1, <1>2, <1>3, <1>4, <1>5, <1>6, <1>7, <1>8, <1>9
   DEF Next, User, Tick, TickStarts, StartTransfer, JobThreads, JobEnds, WindowThreads, LoopReturns, vars, reqVars,
       Browse, Connect, Disconnect, Destroy, StopQueued, JobDrops, JobConnects, Opens, ConnectThread, CollectThread

-----------------------------------------------------------------------------
(* Each action keeps frames, states and the count together. *)

\* The part of QueueInv that is about frames, states and the count.
Counted(stk, s, fw, n) ==
  /\ stk \in Seq(Frames) /\ s \in [Jobs -> States] /\ fw \in [Jobs -> Wins]
  /\ n \in Nat /\ n = Cardinality(ActiveIn(s)) /\ Matches(stk, s, fw)
Now == Counted(stack, st, fromwdata, num_transfers_in_progress)

\* In a state of the invariant the number of running transfers is the count of active jobs.
LEMMA InvCounted == Inv => Now
BY DEF Inv, QueueInv, Now, Counted, States, FramesMatch, Matches, Owning, CountIsExact, Active, ActiveIn

\* Frames that belong to no transfer.
LEMMA PlainFrame ==
  ASSUME NEW w \in Wins, NEW kind \in {"op", "connect"}
  PROVE  Frame(kind, w, AnyJob) \in Frames /\ Frame(kind, w, AnyJob).kind \notin Owning
<1>1. AnyJob \in Jobs
  BY JobAssumption DEF AnyJob
<1> QED BY <1>1 DEF Frame, Frames, Owning

\* A plain frame is entered.
LEMMA PushPlain ==
  ASSUME NEW stk, NEW s, NEW fw, NEW n, Counted(stk, s, fw, n), NEW w \in Wins, NEW kind \in {"op", "connect"}
  PROVE  Counted(Append(stk, Frame(kind, w, AnyJob)), s, fw, n)
<1> DEFINE fr == Frame(kind, w, AnyJob)
<1>1. fr \in Frames /\ fr.kind \notin Owning
  BY PlainFrame
<1> HIDE DEF fr
<1>2. Append(stk, fr) \in Seq(Frames) /\ Matches(Append(stk, fr), s, fw)
  BY <1>1, MatchPush DEF Counted
<1> QED BY <1>2 DEF Counted, fr

\* The innermost frame is left.
LEMMA PopCounted ==
  ASSUME Now, stack # <<>>
  PROVE  /\ Counted(Popped, st, fromwdata, num_transfers_in_progress)
         /\ Top \in Frames /\ Top.w \in Wins /\ Top.j \in Jobs
         /\ (Top.kind \in Owning => Unframed(Popped, Top.j) /\ st[Top.j] = FrameState(Top.kind))
         /\ (Top.kind = "collect" => Top.w = fromwdata[Top.j])
<1>1. Popped \in Seq(Frames) /\ Top \in Frames /\ Top.w \in Wins /\ Top.j \in Jobs /\ Len(stack) \in DOMAIN stack
  BY TopFrame DEF Now, Counted
<1>2. Matches(Popped, st, fromwdata) /\ (Top.kind \in Owning => Unframed(Popped, Top.j))
  BY MatchPop DEF Now, Counted
<1>3. /\ (Top.kind \in Owning => st[Top.j] = FrameState(Top.kind))
      /\ (Top.kind = "collect" => Top.w = fromwdata[Top.j])
  BY <1>1 DEF Now, Counted, Matches, Top, Owning
<1> QED BY <1>1, <1>2, <1>3 DEF Now, Counted

\* The state of a transfer without a frame changes and the count follows.
LEMMA SetCounted ==
  ASSUME NEW stk, NEW s, NEW fw, NEW n, Counted(stk, s, fw, n), NEW j \in Jobs, Unframed(stk, j), NEW x \in States
  PROVE  LET A == {"running", "done", "reaping"}
             t == [s EXCEPT ![j] = x]
         IN  /\ (s[j] \in A <=> x \in A) => Counted(stk, t, fw, n)
             /\ s[j] \notin A /\ x \in A => Counted(stk, t, fw, n + 1)
             /\ s[j] \in A /\ x \notin A => Counted(stk, t, fw, n - 1)
<1> DEFINE A == {"running", "done", "reaping"}
           t == [s EXCEPT ![j] = x]
<1>1. t \in [Jobs -> States] /\ s \in [Jobs -> States] /\ (j \in ActiveIn(s) <=> s[j] \in A)
  BY DEF Counted, ActiveIn
<1>2. Matches(stk, t, fw)
  BY MatchSet DEF Counted
<1>3. (s[j] \in A <=> x \in A) => Cardinality(ActiveIn(t)) = Cardinality(ActiveIn(s))
  BY <1>1, CountSet
<1>4. s[j] \notin A /\ x \in A => Cardinality(ActiveIn(t)) = Cardinality(ActiveIn(s)) + 1
  BY <1>1, CountSet
<1>5. s[j] \in A /\ x \notin A => Cardinality(ActiveIn(t)) = Cardinality(ActiveIn(s)) - 1
                                  /\ Cardinality(ActiveIn(s)) # 0
  BY <1>1, CountSet
<1> HIDE DEF t, A
<1>6. Counted(stk, s, fw, n) /\ n \in Nat /\ (n # 0 => n - 1 \in Nat) /\ n + 1 \in Nat
  BY DEF Counted
<1>7. (s[j] \in A <=> x \in A) => Counted(stk, t, fw, n)
  BY <1>1, <1>2, <1>3, <1>6 DEF Counted
<1>8. s[j] \notin A /\ x \in A => Counted(stk, t, fw, n + 1)
  BY <1>1, <1>2, <1>4, <1>6 DEF Counted
<1>9. s[j] \in A /\ x \notin A => Counted(stk, t, fw, n - 1)
  BY <1>1, <1>2, <1>5, <1>6 DEF Counted
<1> QED BY <1>7, <1>8, <1>9 DEF t, A

\* Frames, states and the count agree after every step.
LEMMA CountedStep ==
  ASSUME Inv, [Next]_vars
  PROVE  Counted(stack', st', fromwdata', num_transfers_in_progress')
<1> DEFINE n == num_transfers_in_progress
           Goal == Counted(stack', st', fromwdata', n')
<1>0. Now /\ Counted(stack, st, fromwdata, n) /\ n \in Nat /\ \A j \in Jobs : st[j] \in States
  BY InvCounted DEF Now, Counted
<1>1. \A j \in Jobs : st[j] \notin {"collecting", "reaping"} => Unframed(stack, j)
  BY <1>0, NoFrame DEF Counted
<1>2. CASE UNCHANGED <<stack, st, fromwdata, n>>
  BY <1>0, <1>2
<1>3. ASSUME NEW w \in Wins, Browse(w) PROVE Goal
  <2>1. CASE stack' = stack
    BY <1>2, <1>3, <2>1 DEF Browse
  <2>2. CASE stack' = Append(stack, Frame("op", w, AnyJob))
    BY <1>0, <1>3, <2>2, PushPlain DEF Browse
  <2> QED BY <1>3, <2>1, <2>2 DEF Browse, Refresh
<1>4. ASSUME NEW w \in Wins, NEW h, Connect(w, h) PROVE Goal
  BY <1>0, <1>4, PushPlain DEF Connect
<1>5. ASSUME NEW w \in Wins, NEW j \in Jobs, TransferFiles(w, j) PROVE Goal
  <2> DEFINE fw == [fromwdata EXCEPT ![j] = w]
  <2>1. /\ fromwdata' = fw /\ n' = n /\ st[j] = "none"
        /\ \/ UNCHANGED <<stack, st>>
           \/ st' = [st EXCEPT ![j] = "collecting"] /\ stack' = Append(stack, Frame("collect", w, j))
           \/ st' = [st EXCEPT ![j] = "queued"] /\ stack' = stack
    BY <1>5 DEF TransferFiles
  <2>2. Unframed(stack, j)
    BY <1>1, <2>1
  <2>3. Counted(stack, st, fw, n)
    BY <1>0, <2>2, MatchSet DEF Counted
  <2>4. fw[j] = w
    BY <1>0 DEF Counted
  <2> HIDE DEF fw
  <2>5. CASE UNCHANGED <<stack, st>>
    BY <2>1, <2>3, <2>5
  <2>6. CASE st' = [st EXCEPT ![j] = "queued"] /\ stack' = stack
    BY <2>1, <2>2, <2>3, <2>6, SetCounted DEF States
  <2>7. CASE st' = [st EXCEPT ![j] = "collecting"] /\ stack' = Append(stack, Frame("collect", w, j))
    <3> DEFINE fr == Frame("collect", w, j)
    <3>1. Counted(stack, st', fw, n)
      BY <2>1, <2>2, <2>3, <2>7, SetCounted DEF States
    <3>2. fr \in Frames /\ fr.kind = "collect" /\ fr.j = j /\ fr.w = w
      BY DEF Frame, Frames
    <3>3. st'[j] = "collecting"
      BY <1>0, <2>7 DEF Counted
    <3> HIDE DEF fr
    <3>4. Append(stack, fr) \in Seq(Frames) /\ Matches(Append(stack, fr), st', fw)
      BY <2>2, <2>4, <3>1, <3>2, <3>3, MatchPush DEF Counted, FrameState
    <3> QED BY <2>1, <2>7, <3>1, <3>4 DEF Counted, fr
  <2> QED BY <2>1, <2>5, <2>6, <2>7
<1>6. ASSUME NEW j \in Jobs, StopQueued(j) PROVE Goal
  <2>1. st[j] = "queued" /\ st' = [st EXCEPT ![j] = "freed"] /\ UNCHANGED <<stack, fromwdata, n>>
    BY <1>6 DEF StopQueued
  <2> QED BY <1>0, <1>1, <2>1, SetCounted DEF States
<1>7. ASSUME NEW j \in Jobs, CreateTransfer(j) PROVE Goal
  <2>1. st[j] = "queued" /\ st' = [st EXCEPT ![j] = "running"] /\ n' = n + 1 /\ UNCHANGED <<stack, fromwdata>>
    BY <1>7 DEF CreateTransfer, OneMore
  <2> QED BY <1>0, <1>1, <2>1, SetCounted DEF States
<1>8. ASSUME NEW j \in Jobs, JobEnds(j) PROVE Goal
  <2>1. st[j] = "running" /\ st' = [st EXCEPT ![j] = "done"] /\ UNCHANGED <<stack, fromwdata, n>>
    BY <1>8 DEF JobEnds
  <2> QED BY <1>0, <1>1, <2>1, SetCounted DEF States
<1>9. ASSUME NEW j \in Jobs, TransferDone(j) PROVE Goal
  <2> DEFINE to == Window(j, "to")
  <2>1. /\ fromwdata' = fromwdata /\ st[j] = "done"
        /\ \/ st' = [st EXCEPT ![j] = "freed"] /\ n' = n - 1 /\ stack' = stack
           \/ st' = [st EXCEPT ![j] = "reaping"] /\ n' = n /\ stack' = Append(stack, Frame("reap", to, j))
    BY <1>9 DEF TransferDone
  <2>2. Unframed(stack, j) /\ to \in Wins
    BY <1>0, <1>1, <2>1, WindowsOfJob DEF Counted
  <2> HIDE DEF to
  <2>3. CASE st' = [st EXCEPT ![j] = "freed"] /\ n' = n - 1 /\ stack' = stack
    BY <1>0, <2>1, <2>2, <2>3, SetCounted DEF States
  <2>4. CASE st' = [st EXCEPT ![j] = "reaping"] /\ n' = n /\ stack' = Append(stack, Frame("reap", to, j))
    <3> DEFINE fr == Frame("reap", to, j)
    <3>1. Counted(stack, st', fromwdata, n)
      BY <1>0, <2>1, <2>2, <2>4, SetCounted DEF States
    <3>2. fr \in Frames /\ fr.kind = "reap" /\ fr.j = j
      BY <2>2 DEF Frame, Frames
    <3>3. st'[j] = "reaping"
      BY <1>0, <2>4 DEF Counted
    <3> HIDE DEF fr
    <3>4. Append(stack, fr) \in Seq(Frames) /\ Matches(Append(stack, fr), st', fromwdata)
      BY <2>2, <3>1, <3>2, <3>3, MatchPush DEF Counted, FrameState
    <3> QED BY <2>1, <2>4, <3>1, <3>4 DEF Counted, fr
  <2> QED BY <2>1, <2>3, <2>4
<1>10. CASE OpReturns
  BY <1>0, <1>10, PopCounted DEF OpReturns, Returns
<1>11. CASE ReapReturns
  <2>1. /\ stack # <<>> /\ Top.kind = "reap" /\ stack' = Popped /\ st' = [st EXCEPT ![Top.j] = "freed"]
        /\ n' = n - 1 /\ fromwdata' = fromwdata
    BY <1>11 DEF ReapReturns, Returns
  <2>2. Counted(Popped, st, fromwdata, n) /\ Top.j \in Jobs /\ Unframed(Popped, Top.j) /\ st[Top.j] = "reaping"
    BY <1>0, <2>1, PopCounted DEF Owning, FrameState
  <2> QED BY <2>1, <2>2, SetCounted DEF States
<1>12. CASE ConnectReturns
  <2>1. Counted(Popped, st, fromwdata, n) /\ Top.w \in Wins /\ UNCHANGED <<st, fromwdata, n>>
    BY <1>0, <1>12, PopCounted DEF ConnectReturns, Returns
  <2>2. stack' = Popped \/ stack' = Append(Popped, Frame("op", Top.w, AnyJob))
    BY <1>12 DEF ConnectReturns, Refresh
  <2>3. CASE stack' = Popped
    BY <2>1, <2>3
  <2>4. CASE stack' = Append(Popped, Frame("op", Top.w, AnyJob))
    <3>1. Counted(Append(Popped, Frame("op", Top.w, AnyJob)), st, fromwdata, n)
      BY <2>1, PushPlain
    <3> QED BY <2>1, <2>4, <3>1
  <2> QED BY <2>2, <2>3, <2>4
<1>13. CASE CollectReturns
  <2>1. /\ stack # <<>> /\ Top.kind = "collect" /\ stack' = Popped /\ UNCHANGED <<fromwdata, n>>
        /\ st' = [st EXCEPT ![Top.j] = "freed"] \/ st' = [st EXCEPT ![Top.j] = "queued"]
    BY <1>13 DEF CollectReturns, Returns
  <2>2. Counted(Popped, st, fromwdata, n) /\ Top.j \in Jobs /\ Unframed(Popped, Top.j) /\ st[Top.j] = "collecting"
    BY <1>0, <2>1, PopCounted DEF Owning, FrameState
  <2>3. \A x \in {"freed", "queued"} : Counted(Popped, [st EXCEPT ![Top.j] = x], fromwdata, n)
    BY <2>2, SetCounted DEF States
  <2> QED BY <2>1, <2>3
<1> QED BY <1>2, <1>3, <1>4, <1>5, <1>6, <1>7, <1>8, <1>9, <1>10, <1>11, <1>12, <1>13
   DEF Next, User, Tick, TickStarts, StartTransfer, JobThreads, WindowThreads, LoopReturns, vars,
       Disconnect, JobDrops, JobConnects, ListThread, ConnectThread, CollectThread

\* The flags of a running operation stay flags in every step.
LEMMA StopableStep ==
  ASSUME Inv, [Next]_vars
  PROVE  stopable' \in [Wins -> BOOLEAN] /\ torn' \in BOOLEAN
<1>0. stopable \in [Wins -> BOOLEAN] /\ torn \in BOOLEAN
  BY DEF Inv, QueueInv
<1>1. torn' = torn \/ \E w \in Wins : torn' = stopable[w]
  BY DEF Next, User, Tick, TickStarts, StartTransfer, JobThreads, WindowThreads, LoopReturns, vars, Browse, Connect,
     Disconnect, TransferFiles, StopQueued, CreateTransfer, TransferDone, JobEnds, JobDrops, JobConnects,
     ListThread, ConnectThread, CollectThread, OpReturns, ReapReturns, ConnectReturns, CollectReturns
<1> DEFINE Set(w) == \E x \in BOOLEAN : stopable' = [stopable EXCEPT ![w] = x]
<1>2. ASSUME NEW w, NEW below, NEW fr, Refresh(w, below, fr) PROVE stopable' = stopable \/ Set(w)
  BY <1>2 DEF Refresh
<1>3. stopable' = stopable \/ \E w : Set(w)
  BY <1>2 DEF Next, User, Tick, TickStarts, StartTransfer, JobThreads, WindowThreads, LoopReturns, vars, Browse,
     Connect, Disconnect, TransferFiles, StopQueued, CreateTransfer, TransferDone, JobEnds, JobDrops, JobConnects,
     ThreadEnds, ListThread, ConnectThread, CollectThread, OpReturns, ReapReturns, ConnectReturns, CollectReturns
<1> QED BY <1>0, <1>1, <1>3

-----------------------------------------------------------------------------
(* Transfers that are not under way have no descriptor, and what is collected *)
(* does not become the file system.                                           *)

\* A step that leaves the transfers' states and hosts alone, at most closes their
\* descriptors, and makes no window local.
LEMMA QuietStep ==
  ASSUME Inv, UNCHANGED <<st, fromwdata>>,
         \A j \in Jobs, side \in Sides : /\ st[j] # "running" => datafd'[<<j, side>>] \in {datafd[<<j, side>>], NoSock}
                                       /\ host'[<<j, side>>] = host[<<j, side>>],
         \A w \in Wins : host'[w] = Local => host[w] = Local
  PROVE  JobInv'
<1>1. \A j \in Jobs, side \in Sides : Window(j, side)' = Window(j, side) /\ Window(j, side) \in Wins
  BY WindowsOfJob DEF Window, SideWin, Inv, QueueInv, Sides
<1>2. IdleHasNone'
  BY DEF Inv, JobInv, IdleHasNone
<1>3. CollectsRemote'
  BY <1>1 DEF Inv, JobInv, CollectsRemote
<1> QED BY <1>2, <1>3 DEF JobInv

\* Closing or destroying a window's request is such a step.
LEMMA QuietDestroy ==
  ASSUME Inv, UNCHANGED <<st, fromwdata>>, NEW rs \in SUBSET Wins, Destroy(rs)
  PROVE  JobInv'
<1>1. \A j \in Jobs, side \in Sides : /\ datafd'[<<j, side>>] = datafd[<<j, side>>]
                                     /\ host'[<<j, side>>] = host[<<j, side>>]
  BY RequestKinds DEF Destroy, CloseAll
<1>2. \A w \in Wins : host'[w] = Local => host[w] = Local
  BY RequestKinds, HostAssumption DEF Destroy
<1> QED BY <1>1, <1>2, QuietStep

\* The state of transfer j changes to one that is not "collecting", its requests have
\* no descriptor then unless it is active, and other transfers are left alone.
LEMMA MovedStep ==
  ASSUME Inv, NEW j \in Jobs, NEW x \in States, x # "collecting", st' = [st EXCEPT ![j] = x],
         \A k \in Jobs : k # j => fromwdata'[k] = fromwdata[k],
         x \in {"none", "queued", "freed"} => \A side \in Sides : datafd'[<<j, side>>] = NoSock,
         \A k \in Jobs, side \in Sides : k # j => /\ datafd'[<<k, side>>] = datafd[<<k, side>>]
                                              /\ host'[<<k, side>>] = host[<<k, side>>],
         \A w \in Wins : host'[w] = Local => host[w] = Local
  PROVE  JobInv'
<1>0. \A k \in Jobs : st'[k] = IF k = j THEN x ELSE st[k]
  BY DEF Inv, QueueInv
<1>1. \A k \in Jobs, side \in Sides : k # j => Window(k, side)' = Window(k, side) /\ Window(k, side) \in Wins
  BY WindowsOfJob DEF Window, SideWin, Inv, QueueInv, Sides
<1>2. IdleHasNone'
  BY <1>0 DEF Inv, JobInv, IdleHasNone
<1>3. CollectsRemote'
  BY <1>0, <1>1 DEF Inv, JobInv, CollectsRemote
<1> QED BY <1>2, <1>3 DEF JobInv

\* What two swaps in create_transfer() leave alone.
LEMMA CreateTouches ==
  ASSUME Inv, NEW j \in Jobs, CreateTransfer(j)
  PROVE  \A k \in Jobs, side \in Sides : k # j => datafd'[<<k, side>>] = datafd[<<k, side>>]
<1> DEFINE fd(f, side) == IF Lends(j, side) THEN SwapFds(f, <<j, side>>, Window(j, side)) ELSE f
<1>1. \A side \in Sides : <<j, side>> \in Requests /\ Window(j, side) \in Wins
  BY WindowsOfJob, RequestKinds DEF Inv, QueueInv, Sides
<1>2. \A f \in [Requests -> Socks \cup {NoSock}], d, s \in Requests :
        /\ SwapFds(f, d, s) \in [Requests -> Socks \cup {NoSock}]
        /\ \A r \in Requests : r # d /\ r # s => SwapFds(f, d, s)[r] = f[r]
  BY DEF SwapFds
<1>3. \A f \in [Requests -> Socks \cup {NoSock}], side \in Sides :
        /\ fd(f, side) \in [Requests -> Socks \cup {NoSock}]
        /\ \A k \in Jobs, sd \in Sides : k # j => fd(f, side)[<<k, sd>>] = f[<<k, sd>>]
  <2>1. SUFFICES ASSUME NEW f \in [Requests -> Socks \cup {NoSock}], NEW side \in Sides
        PROVE  /\ fd(f, side) \in [Requests -> Socks \cup {NoSock}]
               /\ \A k \in Jobs, sd \in Sides : k # j => fd(f, side)[<<k, sd>>] = f[<<k, sd>>]
    OBVIOUS
  <2>2. \A k \in Jobs, sd \in Sides : k # j => /\ <<k, sd>> \in Requests
                                             /\ <<k, sd>> # <<j, side>> /\ <<k, sd>> # Window(j, side)
    BY <1>1, RequestKinds
  <2>3. CASE Lends(j, side)
    <3> DEFINE g == SwapFds(f, <<j, side>>, Window(j, side))
    <3>1. /\ g \in [Requests -> Socks \cup {NoSock}]
          /\ \A r \in Requests : r # <<j, side>> /\ r # Window(j, side) => g[r] = f[r]
      BY <1>1, <1>2, RequestKinds
    <3>2. fd(f, side) = g
      BY <2>3
    <3> HIDE DEF g, fd
    <3> QED BY <2>2, <3>1, <3>2
  <2> QED BY <2>3
<1>4. datafd \in [Requests -> Socks \cup {NoSock}]
  BY DEF Inv, FdInv
<1> HIDE DEF fd
<1>5. fd(datafd, "from") \in [Requests -> Socks \cup {NoSock}]
  BY <1>3, <1>4, RequestKinds
<1>6. \A k \in Jobs, sd \in Sides : k # j => fd(fd(datafd, "from"), "to")[<<k, sd>>] = datafd[<<k, sd>>]
  BY <1>3, <1>4, <1>5, RequestKinds
<1> QED BY <1>6 DEF CreateTransfer, fd

\* After the walk both connections have gone back: a window that is the file system
\* took from a request that is, too.
LEMMA CollectedReturn ==
  ASSUME Inv, CollectReturns,
         datafd' = SwapFds(SwapFds(datafd, Top.w, <<Top.j, "from">>), Other(Top.w), <<Top.j, "to">>)
  PROVE  /\ \A side \in Sides : datafd'[<<Top.j, side>>] = NoSock
         /\ \A k \in Jobs, side \in Sides : k # Top.j => datafd'[<<k, side>>] = datafd[<<k, side>>]
<1> DEFINE j == Top.j
           w == Top.w
           o == Other(w)
           f == <<j, "from">>
           t == <<j, "to">>
           g == SwapFds(datafd, w, f)
<1>1. j \in Jobs /\ w \in Wins /\ st[j] = "collecting" /\ w = fromwdata[j]
  BY InvCounted, PopCounted DEF CollectReturns, Returns, Owning, FrameState
<1> HIDE DEF j, w
<1>2. /\ o \in Wins /\ w \in Requests /\ o \in Requests /\ f \in Requests /\ t \in Requests
      /\ w # f /\ w # t /\ o # f /\ o # t /\ f # t /\ w # o
  BY <1>1, OtherWindow, RequestKinds
<1>3. /\ host[w] = Local => host[f] = Local
      /\ host[o] = Local => host[t] = Local
  BY <1>1, RequestKinds DEF Inv, JobInv, CollectsRemote, Window, SideWin
<1>4. datafd \in [Requests -> Socks \cup {NoSock}] /\ LocalNone(datafd, host)
  BY DEF Inv, FdInv
<1>5. /\ g \in [Requests -> Socks \cup {NoSock}] /\ g[f] = NoSock
      /\ \A r \in Requests : r # f /\ r # w => g[r] = datafd[r]
  BY <1>2, <1>3, <1>4 DEF SwapFds, SameProtocol, LocalNone
<1>6. host[t] = Local => g[t] = NoSock
  BY <1>2, <1>4, <1>5 DEF LocalNone
<1> HIDE DEF g
<1> DEFINE h == SwapFds(g, o, t)
<1>7. /\ h[t] = NoSock
      /\ \A r \in Requests : r # t /\ r # o => h[r] = g[r]
  BY <1>2, <1>3, <1>5, <1>6 DEF SwapFds, SameProtocol
<1>8. datafd' = h
  BY DEF g, j, w
<1> HIDE DEF h, o
<1>9. \A side \in Sides : datafd'[<<j, side>>] = NoSock
  BY <1>2, <1>5, <1>7, <1>8 DEF Sides
<1>10. \A k \in Jobs, side \in Sides : k # j => datafd'[<<k, side>>] = datafd[<<k, side>>]
  BY <1>1, <1>2, <1>5, <1>7, <1>8, RequestKinds
<1> QED BY <1>9, <1>10 DEF j

\* The two facts about transfers survive every step.
LEMMA JobStep ==
  ASSUME Inv, [Next]_vars
  PROVE  JobInv'
<1>0. /\ st \in [Jobs -> States] /\ fromwdata \in [Jobs -> Wins] /\ host \in [Requests -> Hosts]
      /\ datafd \in [Requests -> Socks \cup {NoSock}]
  BY DEF Inv, QueueInv, FdInv, States
<1>1. ASSUME NEW w \in Wins, NEW below, NEW fr, Refresh(w, below, fr), UNCHANGED <<st, fromwdata>> PROVE JobInv'
  <2>1. CASE Destroy({w})
    BY <1>1, <2>1, QuietDestroy
  <2>2. CASE UNCHANGED reqVars
    BY <1>1, <2>2, QuietStep DEF reqVars
  <2> QED BY <1>1, <2>1, <2>2 DEF Refresh
<1>2. ASSUME NEW w \in Wins, Browse(w) PROVE JobInv'
  BY <1>1, <1>2 DEF Browse
<1>3. ASSUME NEW w \in Wins, Disconnect(w) PROVE JobInv'
  BY <1>3, QuietDestroy DEF Disconnect
<1>4. ASSUME NEW w \in Wins, NEW h \in RemoteHosts, Connect(w, h) PROVE JobInv'
  <2>1. \A j \in Jobs, side \in Sides : /\ datafd'[<<j, side>>] = datafd[<<j, side>>]
                                       /\ host'[<<j, side>>] = host[<<j, side>>]
    BY <1>0, <1>4, RequestKinds DEF Connect, CloseAll
  <2>2. \A v \in Wins : host'[v] = Local => host[v] = Local
    BY <1>0, <1>4, RequestKinds, HostAssumption DEF Connect
  <2> QED BY <1>4, <2>1, <2>2, QuietStep DEF Connect
<1>5. ASSUME NEW w \in Wins, NEW j \in Jobs, TransferFiles(w, j) PROVE JobInv'
  <2> DEFINE to == Other(w)
             toHost == IF Lent(to) THEN NoHost ELSE host[to]
             f == <<j, "from">>
             t == <<j, "to">>
  <2>0. /\ st[j] = "none" /\ fromwdata' = [fromwdata EXCEPT ![j] = w] /\ to \in Wins /\ to # w
        /\ f \in Requests /\ t \in Requests /\ w \in Requests /\ to \in Requests
        /\ f # t /\ f # w /\ f # to /\ t # w /\ t # to
    BY <1>5, OtherWindow, RequestKinds DEF TransferFiles
  <2>1. /\ datafd[f] = NoSock /\ datafd[t] = NoSock
        /\ \A k \in Jobs : k # j => fromwdata'[k] = fromwdata[k]
    BY <1>0, <2>0, RequestKinds DEF Inv, JobInv, IdleHasNone
  <2>2. ASSUME NEW rs \in SUBSET Wins, Destroy(rs), st' = st PROVE JobInv'
    <3>1. \A k \in Jobs, side \in Sides : /\ datafd'[<<k, side>>] = datafd[<<k, side>>]
                                         /\ host'[<<k, side>>] = host[<<k, side>>]
      BY <2>2, RequestKinds DEF Destroy, CloseAll
    <3>2. \A v \in Wins : host'[v] = Local => host[v] = Local
      BY <2>2, RequestKinds, HostAssumption DEF Destroy
    <3>3. st' = [st EXCEPT ![j] = "none"]
      BY <1>0, <2>0, <2>2
    <3>4. /\ "none" \in States /\ "none" # "collecting"
          /\ \A side \in Sides : datafd'[<<j, side>>] = NoSock
      BY <2>1, <3>1 DEF States, Sides
    <3> QED BY <2>1, <3>1, <3>2, <3>3, <3>4, MovedStep
  <2>3. CASE /\ host' = [host EXCEPT ![f] = host[w], ![t] = toHost, ![to] = toHost]
             /\ datafd' = [datafd EXCEPT ![f] = datafd[w], ![w] = NoSock, ![t] = datafd[to], ![to] = NoSock]
             /\ st' = [st EXCEPT ![j] = "collecting"]
    <3>1. /\ \A k \in Jobs : st'[k] = IF k = j THEN "collecting" ELSE st[k]
          /\ \A k \in Jobs : fromwdata'[k] = IF k = j THEN w ELSE fromwdata[k]
      BY <1>0, <2>0, <2>3
    <3>2. /\ host'[f] = host[w] /\ host'[w] = host[w] /\ host'[t] = toHost /\ host'[to] = toHost
          /\ \A r \in Requests : r \notin {f, t, to} => host'[r] = host[r]
          /\ \A r \in Requests : r \notin {f, t, w, to} => datafd'[r] = datafd[r]
      BY <1>0, <2>0, <2>3
    <3>3. \A k \in Jobs, side \in Sides : k # j => /\ <<k, side>> \in Requests
                                                /\ <<k, side>> \notin {f, t, w, to}
      BY <2>0, RequestKinds
    <3>4. \A v \in Wins : host'[v] = Local => host[v] = Local
      BY <2>0, <3>2, RequestKinds, HostAssumption
    <3>5. IdleHasNone'
      BY <3>1, <3>2, <3>3 DEF Inv, JobInv, IdleHasNone
    <3>6. \A side \in Sides : host'[SideWin(w, side)] = host'[<<j, side>>] /\ fromwdata'[j] = w
      BY <3>1, <3>2 DEF SideWin, Sides
    <3>7. ASSUME NEW k \in Jobs, NEW side \in Sides, st'[k] = "collecting",
                 host'[SideWin(fromwdata'[k], side)] = Local
          PROVE  host'[<<k, side>>] = Local
      <4>1. CASE k = j
        BY <3>6, <3>7, <4>1
      <4>2. CASE k # j
        <5>1. host[Window(k, side)] = Local /\ st[k] = "collecting"
          <6>1. fromwdata'[k] = fromwdata[k]
            BY <3>1, <4>2
          <6>2. SideWin(fromwdata'[k], side) = SideWin(fromwdata[k], side)
            BY <6>1 DEF SideWin
          <6>3. SideWin(fromwdata[k], side) \in Wins
            BY <1>0, OtherWindow DEF SideWin
          <6>4. host[SideWin(fromwdata[k], side)] = Local
            BY <3>4, <3>7, <6>2, <6>3
          <6> QED BY <3>1, <3>7, <4>2, <6>4 DEF Window
        <5>2. host[<<k, side>>] = Local
          BY <5>1 DEF Inv, JobInv, CollectsRemote
        <5> QED BY <3>2, <3>3, <4>2, <5>2
      <4> QED BY <4>1, <4>2
    <3>8. CollectsRemote'
      BY <3>7 DEF CollectsRemote, Window
    <3> QED BY <3>5, <3>8 DEF JobInv
  <2>4. CASE /\ host' = [host EXCEPT ![f] = Local, ![t] = toHost]
             /\ datafd' = datafd /\ st' = [st EXCEPT ![j] = "queued"]
    <3>1. \A k \in Jobs, side \in Sides : k # j => /\ <<k, side>> \in Requests /\ <<k, side>> \notin {f, t}
      BY <2>0, RequestKinds
    <3>2. \A r \in Requests : r \notin {f, t} => host'[r] = host[r]
      BY <1>0, <2>0, <2>4
    <3>3. \A v \in Wins : v \in Requests /\ v \notin {f, t}
      BY RequestKinds
    <3> QED BY <2>0, <2>1, <2>4, <3>1, <3>2, <3>3, MovedStep DEF States, Sides
  <2>5. {v \in Wins : Lent(v)} \in SUBSET Wins /\ {to} \in SUBSET Wins
    BY <2>0
  <2>6. \/ Destroy({v \in Wins : Lent(v)}) /\ st' = st
        \/ Destroy({to}) /\ st' = st
        \/ <2>3!1 \/ <2>4!1
    BY <1>5 DEF TransferFiles
  <2> QED BY <2>2, <2>3, <2>4, <2>5, <2>6
<1>6. ASSUME NEW j \in Jobs, StopQueued(j) PROVE JobInv'
  <2>1. \A k \in Jobs, side \in Sides : k # j => host'[<<k, side>>] = host[<<k, side>>]
    BY <1>0, <1>6, RequestKinds DEF StopQueued
  <2>2. \A v \in Wins : host'[v] = host[v]
    BY <1>0, <1>6, RequestKinds DEF StopQueued
  <2>3. \A side \in Sides : datafd[<<j, side>>] = NoSock
    BY <1>6 DEF StopQueued, Inv, JobInv, IdleHasNone
  <2>4. st' = [st EXCEPT ![j] = "freed"] /\ UNCHANGED <<datafd, fromwdata>>
    BY <1>6 DEF StopQueued
  <2> QED BY <2>1, <2>2, <2>3, <2>4, MovedStep DEF States
<1>7. ASSUME NEW j \in Jobs, CreateTransfer(j) PROVE JobInv'
  <2>1. st' = [st EXCEPT ![j] = "running"] /\ UNCHANGED <<host, fromwdata>>
    BY <1>7 DEF CreateTransfer
  <2> QED BY <1>7, <2>1, CreateTouches, MovedStep DEF States
<1>8. ASSUME NEW j \in Jobs, JobEnds(j) PROVE JobInv'
  <2>1. st' = [st EXCEPT ![j] = "done"] /\ UNCHANGED <<datafd, host, fromwdata>>
    BY <1>8 DEF JobEnds, reqVars
  <2> QED BY <2>1, MovedStep DEF States
<1>9. ASSUME NEW j \in Jobs, TransferDone(j) PROVE JobInv'
  <2>1. PICK x \in {"freed", "reaping"} : st' = [st EXCEPT ![j] = x] /\ fromwdata' = fromwdata
    BY <1>9 DEF TransferDone
  <2>2. /\ \A side \in Sides : datafd'[<<j, side>>] = NoSock /\ Window(j, side) \in Wins
        /\ \A r \in Requests : (\A side \in Sides : r # <<j, side>> /\ r # Window(j, side)) => datafd'[r] = datafd[r]
    BY <1>0, <1>9, ReturnedFds, WindowsOfJob DEF TransferDone, Sides
  <2>3. \A k \in Jobs, side \in Sides : k # j => datafd'[<<k, side>>] = datafd[<<k, side>>]
    BY <2>2, RequestKinds
  <2>4. \/ host' = host
        \/ \E ws \in SUBSET Wins : Forget(j, ws)
    <3>1. Window(j, "to") \in Wins
      BY <1>0, WindowsOfJob
    <3>2. {} \in SUBSET Wins /\ {Window(j, "to")} \in SUBSET Wins
      BY <3>1
    <3> QED BY <1>9, <3>2 DEF TransferDone
  <2>5. \A k \in Jobs, side \in Sides : k # j => host'[<<k, side>>] = host[<<k, side>>]
    BY <2>4, RequestKinds DEF Forget
  <2>6. \A v \in Wins : host'[v] = Local => host[v] = Local
    BY <2>4, RequestKinds, HostAssumption DEF Forget
  <2> QED BY <2>1, <2>2, <2>3, <2>5, <2>6, MovedStep DEF States
<1>10. ASSUME NEW j \in Jobs, NEW side \in Sides, JobDrops(j, side) PROVE JobInv'
  <2>1. \A k \in Jobs, sd \in Sides : datafd'[<<k, sd>>] \in {datafd[<<k, sd>>], NoSock}
    BY <1>10, RequestKinds DEF JobDrops, CloseAll
  <2> QED BY <1>10, <2>1, QuietStep DEF JobDrops
<1>11. ASSUME NEW j \in Jobs, NEW side \in Sides, NEW s \in Socks, JobConnects(j, side, s) PROVE JobInv'
  <2>1. st[j] = "running" /\ datafd' = [datafd EXCEPT ![<<j, side>>] = s] /\ UNCHANGED <<host, st, fromwdata>>
    BY <1>11 DEF JobConnects, Opens
  <2>2. \A k \in Jobs, sd \in Sides : st[k] # "running" => datafd'[<<k, sd>>] = datafd[<<k, sd>>]
    BY <1>0, <2>1, RequestKinds
  <2> QED BY <2>1, <2>2, QuietStep
<1>12. ASSUME NEW w \in Wins, ListThread(w) PROVE JobInv'
  <2>1. \A k \in Jobs, sd \in Sides : datafd'[<<k, sd>>] = datafd[<<k, sd>>]
    <3>1. datafd' = datafd \/ datafd' = [datafd EXCEPT ![w] = NoSock]
      BY <1>0, <1>12 DEF ListThread, CloseAll
    <3> QED BY <1>0, <3>1, RequestKinds
  <2> QED BY <1>12, <2>1, QuietStep DEF ListThread
<1>13. ASSUME NEW w \in Wins, ConnectThread(w) PROVE JobInv'
  <2>1. \A k \in Jobs, sd \in Sides : datafd'[<<k, sd>>] = datafd[<<k, sd>>]
    <3>1. datafd' = datafd \/ \E s \in Socks : datafd' = [datafd EXCEPT ![w] = s]
      BY <1>13 DEF ConnectThread, Opens
    <3> QED BY <1>0, <3>1, RequestKinds
  <2>2. UNCHANGED <<host, st, fromwdata>>
    BY <1>13 DEF ConnectThread
  <2> QED BY <2>1, <2>2, QuietStep
<1>14. ASSUME NEW w \in Wins, CollectThread(w) PROVE JobInv'
  <2>1. \A k \in Jobs, sd \in Sides : datafd'[<<k, sd>>] \in {datafd[<<k, sd>>], NoSock}
    BY <1>14, RequestKinds DEF CollectThread, CloseAll
  <2> QED BY <1>14, <2>1, QuietStep DEF CollectThread
<1>15. CASE OpReturns
  <2>1. Top.w \in Wins
    BY <1>15, TopFrame DEF OpReturns, Returns, Inv, QueueInv
  <2>2. Destroy({}) \/ Destroy({Top.w})
    BY <1>15 DEF OpReturns, PurgeUnlessConnected
  <2>3. {} \in SUBSET Wins /\ {Top.w} \in SUBSET Wins /\ UNCHANGED <<st, fromwdata>>
    BY <1>15, <2>1 DEF OpReturns
  <2> QED BY <2>2, <2>3, QuietDestroy
<1>16. ASSUME NEW j \in Jobs, NEW ws \in SUBSET Wins, Destroy({<<j, "from">>, <<j, "to">>} \cup ws),
              st' = [st EXCEPT ![j] = "freed"], fromwdata' = fromwdata
       PROVE  JobInv'
  <2>1. /\ \A side \in Sides : datafd'[<<j, side>>] = NoSock
        /\ \A k \in Jobs, side \in Sides : k # j => /\ datafd'[<<k, side>>] = datafd[<<k, side>>]
                                                 /\ host'[<<k, side>>] = host[<<k, side>>]
    BY <1>16, RequestKinds DEF Destroy, CloseAll, Sides
  <2>2. \A v \in Wins : host'[v] = Local => host[v] = Local
    BY <1>16, RequestKinds, HostAssumption DEF Destroy
  <2> QED BY <1>16, <2>1, <2>2, MovedStep DEF States
<1>17. CASE ReapReturns
  <2>1. Top.w \in Wins /\ Top.j \in Jobs
    BY <1>17, TopFrame DEF ReapReturns, Returns, Inv, QueueInv
  <2>2. \E ws \in SUBSET Wins : Destroy({<<Top.j, "from">>, <<Top.j, "to">>} \cup ws)
    <3>1. {} \in SUBSET Wins /\ {Top.w} \in SUBSET Wins
      BY <2>1
    <3>2. {<<Top.j, "from">>, <<Top.j, "to">>} = {<<Top.j, "from">>, <<Top.j, "to">>} \cup {}
      OBVIOUS
    <3> QED BY <1>17, <3>1, <3>2 DEF ReapReturns, PurgeUnlessConnected
  <2>3. st' = [st EXCEPT ![Top.j] = "freed"] /\ fromwdata' = fromwdata
    BY <1>17 DEF ReapReturns
  <2> QED BY <1>16, <2>1, <2>2, <2>3
<1>18. CASE ConnectReturns
  <2>1. Top.w \in Wins
    BY <1>18, TopFrame DEF ConnectReturns, Returns, Inv, QueueInv
  <2>2. {Top.w} \in SUBSET Wins /\ UNCHANGED <<st, fromwdata>>
    BY <1>18, <2>1 DEF ConnectReturns
  <2>3. Destroy({Top.w}) \/ Refresh(Top.w, Popped, Frame("op", Top.w, AnyJob))
    BY <1>18 DEF ConnectReturns
  <2> QED BY <1>1, <2>1, <2>2, <2>3, QuietDestroy
<1>19. CASE CollectReturns
  <2> DEFINE j == Top.j
             mine == {<<j, "from">>, <<j, "to">>}
             lost == {side \in Sides : ~IsConnected(<<j, side>>)}
             theirs == {Window(j, side) : side \in lost}
  <2>1. Top.w \in Wins /\ j \in Jobs
    BY <1>19, TopFrame DEF CollectReturns, Returns, Inv, QueueInv
  <2>2. CASE PurgeUnlessConnected(Top.w, mine \cup theirs) /\ st' = [st EXCEPT ![j] = "freed"]
    <3>1. theirs \in SUBSET Wins /\ theirs \cup {Top.w} \in SUBSET Wins
      BY <1>0, <2>1, WindowsOfJob DEF Sides
    <3>2. (mine \cup theirs) \cup {Top.w} = mine \cup (theirs \cup {Top.w})
      OBVIOUS
    <3>3. \E ws \in SUBSET Wins : Destroy(mine \cup ws)
      BY <2>2, <3>1, <3>2 DEF PurgeUnlessConnected
    <3> QED BY <1>16, <1>19, <2>1, <2>2, <3>3 DEF CollectReturns
  <2>3. CASE /\ datafd' = SwapFds(SwapFds(datafd, Top.w, <<j, "from">>), Other(Top.w), <<j, "to">>)
             /\ \/ st' = [st EXCEPT ![j] = "queued"] /\ host' = host
                \/ st' = [st EXCEPT ![j] = "freed"] /\ Forget(j, {})
    <3>1. /\ \A side \in Sides : datafd'[<<j, side>>] = NoSock
          /\ \A k \in Jobs, side \in Sides : k # j => datafd'[<<k, side>>] = datafd[<<k, side>>]
      BY <1>19, <2>3, CollectedReturn
    <3>2. /\ \A k \in Jobs, side \in Sides : k # j => host'[<<k, side>>] = host[<<k, side>>]
          /\ \A v \in Wins : host'[v] = host[v]
      <4>1. CASE host' = host
        BY <4>1
      <4>2. CASE Forget(j, {})
        <5> HIDE DEF j
        <5> QED BY <2>1, <4>2, RequestKinds DEF Forget
      <4> QED BY <2>3, <4>1, <4>2
    <3>3. PICK x \in {"queued", "freed"} : st' = [st EXCEPT ![j] = x] /\ fromwdata' = fromwdata
      BY <1>19, <2>3 DEF CollectReturns
    <3> HIDE DEF j
    <3> QED BY <2>1, <3>1, <3>2, <3>3, MovedStep DEF States
  <2> QED BY <1>19, <2>2, <2>3 DEF CollectReturns
<1>20. CASE UNCHANGED vars
  BY <1>20, QuietStep DEF vars, reqVars
<1> QED BY <1>2, <1>3, <1>4, <1>5, <1>6, <1>7, <1>8, <1>9, <1>10, <1>11, <1>12, <1>13, <1>14, <1>15, <1>17, <1>18,
      <1>19, <1>20
   DEF Next, User, Tick, TickStarts, StartTransfer, JobThreads, WindowThreads, LoopReturns

-----------------------------------------------------------------------------
(* The invariant. *)

\* No request has a descriptor when the program starts.
LEMMA InitInv == Init => Inv
<1> SUFFICES ASSUME Init PROVE Inv
  OBVIOUS
<1>1. FdInv(datafd, host, peer)
  BY DEF Init, FdInv, Hosts, Distinct, OpenFds, LocalNone
<1>2. Active = {} /\ Cardinality({}) = 0
  BY FS_EmptySet DEF Init, Active
<1>3. stack \in Seq(Frames) /\ DOMAIN stack = {}
  BY DEF Init
<1>4. FramesMatch
  BY <1>3 DEF FramesMatch
<1>5. /\ cached \in [Requests -> BOOLEAN] /\ stopable \in [Wins -> BOOLEAN] /\ torn \in BOOLEAN
      /\ st \in [Jobs -> States] /\ num_transfers_in_progress = 0
      /\ fromwdata \in [Jobs -> Wins]
  BY WindowAssumption DEF Init, States
<1>6. QueueInv
  BY <1>2, <1>3, <1>4, <1>5 DEF QueueInv, States, CountIsExact
<1>7. JobInv
  BY RequestKinds DEF Init, JobInv, IdleHasNone, CollectsRemote
<1> QED BY <1>1, <1>6, <1>7 DEF Inv

\* Every step keeps the invariant.
LEMMA InvStep == Inv /\ [Next]_vars => Inv'
<1> SUFFICES ASSUME Inv, [Next]_vars PROVE Inv'
  OBVIOUS
<1>1. FdInv(datafd', host', peer')
  BY FdStep
<1>2. Counted(stack', st', fromwdata', num_transfers_in_progress')
  BY CountedStep
<1>3. /\ FramesMatch' /\ CountIsExact' /\ stack' \in Seq(Frames) /\ st' \in [Jobs -> States]
      /\ fromwdata' \in [Jobs -> Wins] /\ num_transfers_in_progress' \in Nat
  BY <1>2 DEF Counted, FramesMatch, Matches, Owning, CountIsExact, Active, ActiveIn
<1>4. QueueInv'
  BY <1>3, CachedStep, StopableStep DEF QueueInv, States
<1>5. JobInv'
  BY JobStep
<1> QED BY <1>1, <1>4, <1>5 DEF Inv

\* The invariant holds in every reachable state.
THEOREM InvHolds == Spec => []Inv
BY InitInv, InvStep, PTL DEF Spec

\* Every variable keeps its type: descriptors, hosts, the states of transfers, and
\* num_transfers_in_progress, which never goes below zero.
THEOREM TypeCorrect == Spec => []TypeOK
<1>1. Inv => TypeOK
  BY DEF Inv, FdInv, QueueInv, TypeOK
<1> QED BY <1>1, InvHolds, PTL

\* The invariant the runs check.
THEOREM ConnInvariant == Spec => []ConnInv
<1>1. Inv => ConnInv
  BY DEF Inv, FdInv, QueueInv, JobInv, ConnInv, Distinct, OpenFds, LocalNone, Exclusive, HeldIsOpen, LocalHasNone
<1> QED BY <1>1, InvHolds, PTL

\* gftp_swap_socks(), gftpui_disconnect(), transfer_done() and the threads never put
\* a descriptor in two requests, at any depth of nested main loops.
THEOREM ConnectionsExclusive == Spec => []Exclusive
<1>1. ConnInv => Exclusive
  BY DEF ConnInv
<1> QED BY <1>1, ConnInvariant, PTL

\* ... nor close one under another request.
THEOREM ConnectionsOpen == Spec => []HeldIsOpen
<1>1. ConnInv => HeldIsOpen
  BY DEF ConnInv
<1> QED BY <1>1, ConnInvariant, PTL

\* num_transfers_in_progress counts the transfers that are under way.
THEOREM CountExact == Spec => []CountIsExact
<1>1. ConnInv => CountIsExact
  BY DEF ConnInv
<1> QED BY <1>1, ConnInvariant, PTL

-----------------------------------------------------------------------------
(* What one step may do with connections: every one that is in use stays   *)
(* in a request or is closed, and none is paired with another host.        *)

KeptInUse == \A s \in Socks : InUse(s) => Held(s)' \/ peer'[s] = NoHost
StaysMatched == Matched => Matched'
Kept == KeptInUse /\ StaysMatched

\* Nothing moves, and a request that has a descriptor keeps its host.
LEMMA NothingMoves ==
  ASSUME UNCHANGED <<datafd, peer>>, \A r \in Requests : datafd[r] # NoSock => host'[r] = host[r]
  PROVE  Kept
BY DEF Kept, KeptInUse, StaysMatched, InUse, Held, Matched

\* Requests are closed, and may forget or change their hosts; the others keep theirs.
LEMMA ClosedKept ==
  ASSUME Inv, NEW rs \in SUBSET Requests, CloseAll(rs), \A r \in Requests \ rs : host'[r] = host[r]
  PROVE  Kept
<1>1. /\ \A r \in Requests : datafd[r] \in Socks \cup {NoSock}
      /\ \A r \in Requests : datafd'[r] = IF r \in rs THEN NoSock ELSE datafd[r]
      /\ \A s \in Socks : peer'[s] = IF \E r \in rs : datafd[r] = s /\ host[r] # NoHost THEN NoHost ELSE peer[s]
  BY DEF CloseAll, Inv, FdInv
<1>2. KeptInUse
  BY <1>1 DEF KeptInUse, InUse, Held
<1>3. ASSUME Matched, NEW r \in Requests, datafd'[r] # NoSock PROVE peer'[datafd'[r]] = host'[r]
  <2>1. r \notin rs /\ datafd'[r] = datafd[r] /\ datafd[r] \in Socks
    BY <1>1, <1>3
  <2>2. \A q \in rs : datafd[q] # datafd[r]
    BY <1>3, <2>1 DEF Inv, FdInv, Distinct
  <2> QED BY <1>1, <1>3, <2>1, <2>2 DEF Matched
<1> QED BY <1>2, <1>3 DEF Kept, StaysMatched, Matched

\* Destroying requests loses no connection of another one,
LEMMA DestroyedKept ==
  ASSUME Inv, NEW rs \in SUBSET Requests, Destroy(rs)
  PROVE  Kept
BY ClosedKept DEF Destroy

\* A new connection is to the request's host, under a descriptor nobody has.
LEMMA OpenedKept ==
  ASSUME Inv, NEW r \in Requests, NEW s \in Socks, Opens(r, s), host' = host
  PROVE  Kept
<1>1. /\ datafd'[r] = s /\ datafd[r] = NoSock
      /\ \A q \in Requests : q # r => datafd'[q] = datafd[q]
      /\ \A q \in Requests : datafd[q] \in Socks \cup {NoSock}
  BY DEF Opens, Inv, FdInv
<1>2. peer'[s] = host[r] /\ \A x \in Socks : x # s => peer'[x] = peer[x]
  BY DEF Opens, Inv, FdInv
<1>3. \A q \in Requests : datafd[q] # s
  BY SockAssumption DEF Opens, Inv, FdInv, OpenFds
<1>4. KeptInUse
  BY <1>1, SockAssumption DEF KeptInUse, InUse, Held
<1>5. StaysMatched
  BY <1>1, <1>2, <1>3 DEF StaysMatched, Matched
<1> QED BY <1>4, <1>5 DEF Kept

\* nor does a refresh.
LEMMA RefreshedKept ==
  ASSUME Inv, NEW w \in Wins, NEW below, NEW frame, Refresh(w, below, frame)
  PROVE  Kept
<1>1. CASE Destroy({w})
  BY <1>1, DestroyedKept, RequestKinds
<1>2. CASE UNCHANGED reqVars
  BY <1>2, NothingMoves DEF reqVars
<1> QED BY <1>1, <1>2 DEF Refresh

\* transfer_window_files() moves both windows' connections to requests that have none.
LEMMA CollectedKept ==
  ASSUME Inv, NEW w \in Wins, NEW j \in Jobs, TransferFiles(w, j)
  PROVE  Kept
<1> DEFINE to == Other(w)
           f == <<j, "from">>
           t == <<j, "to">>
           toHost == IF Lent(to) THEN NoHost ELSE host[to]
<1>0. /\ to \in Wins /\ w # to /\ w \in Requests /\ to \in Requests /\ f \in Requests /\ t \in Requests
      /\ f # t /\ f # w /\ f # to /\ t # w /\ t # to
  BY OtherWindow, RequestKinds
<1>1. CASE Destroy({v \in Wins : Lent(v)}) \/ Destroy({to})
  BY <1>0, <1>1, DestroyedKept, RequestKinds
<1>2. datafd[f] = NoSock /\ datafd[t] = NoSock
  BY RequestKinds DEF TransferFiles, Inv, JobInv, IdleHasNone
<1>3. CASE /\ ~Lent(w) /\ host[w] # Local
           /\ host' = [host EXCEPT ![f] = host[w], ![t] = toHost, ![to] = toHost]
           /\ datafd' = [datafd EXCEPT ![f] = datafd[w], ![w] = NoSock, ![t] = datafd[to], ![to] = NoSock]
           /\ peer' = peer
  <2>1. /\ host'[f] = host[w] /\ host'[t] = toHost
        /\ \A r \in Requests : r \notin {f, t, to} => host'[r] = host[r]
    BY <1>0, <1>3 DEF Inv, FdInv
  <2>2. /\ datafd'[f] = datafd[w] /\ datafd'[w] = NoSock /\ datafd'[t] = datafd[to] /\ datafd'[to] = NoSock
        /\ \A r \in Requests : r \notin {f, t, w, to} => datafd'[r] = datafd[r]
    BY <1>0, <1>3 DEF Inv, FdInv
  <2>3. KeptInUse
    BY <1>0, <1>2, <2>2, SockAssumption DEF KeptInUse, InUse, Held
  <2>4. datafd[to] # NoSock => toHost = host[to]
    BY DEF Lent
  <2>5. ASSUME Matched, NEW r \in Requests, datafd'[r] # NoSock PROVE peer'[datafd'[r]] = host'[r]
    <3>1. r # w /\ r # to
      BY <2>2, <2>5
    <3>2. CASE r = f
      BY <1>0, <1>3, <2>1, <2>2, <2>5, <3>2 DEF Matched
    <3>3. CASE r = t
      BY <1>0, <1>3, <2>1, <2>2, <2>4, <2>5, <3>3 DEF Matched
    <3>4. CASE r # f /\ r # t
      BY <1>3, <2>1, <2>2, <2>5, <3>1, <3>4 DEF Matched
    <3> QED BY <3>2, <3>3, <3>4
  <2> QED BY <2>3, <2>5 DEF Kept, StaysMatched, Matched
<1>4. CASE /\ host[w] = Local /\ ~Lent(to)
           /\ host' = [host EXCEPT ![f] = Local, ![t] = toHost]
           /\ UNCHANGED <<datafd, peer>>
  <2>1. \A r \in Requests : r \notin {f, t} => host'[r] = host[r]
    BY <1>0, <1>4 DEF Inv, FdInv
  <2> QED BY <1>2, <1>4, <2>1, NothingMoves
<1>5. \/ Destroy({v \in Wins : Lent(v)}) \/ Destroy({to})
      \/ /\ ~Lent(w) /\ host[w] # Local
         /\ host' = [host EXCEPT ![f] = host[w], ![t] = toHost, ![to] = toHost]
         /\ datafd' = [datafd EXCEPT ![f] = datafd[w], ![w] = NoSock, ![t] = datafd[to], ![to] = NoSock]
         /\ peer' = peer
      \/ /\ host[w] = Local /\ ~Lent(to)
         /\ host' = [host EXCEPT ![f] = Local, ![t] = toHost]
         /\ UNCHANGED <<datafd, peer>>
  BY DEF TransferFiles
<1> QED BY <1>1, <1>3, <1>4, <1>5

\* create_transfer(): an idle window on the same host lends its connection to a request
\* that has none.
LEMMA CreatedKept ==
  ASSUME Inv, NEW j \in Jobs, CreateTransfer(j)
  PROVE  Kept
<1> DEFINE a == <<j, "from">>
           b == <<j, "to">>
           wa == Window(j, "from")
           wb == Window(j, "to")
           fd(f, side) == IF Lends(j, side) THEN SwapFds(f, <<j, side>>, Window(j, side)) ELSE f
<1>1. /\ a \in Requests /\ b \in Requests /\ wa \in Requests /\ wb \in Requests
      /\ a # b /\ wa # wb /\ a # wa /\ a # wb /\ b # wa /\ b # wb
  BY WindowsOfJob, RequestKinds DEF Inv, QueueInv
<1>2. datafd[a] = NoSock /\ datafd[b] = NoSock
  BY RequestKinds DEF CreateTransfer, Inv, JobInv, IdleHasNone
<1>3. \A f \in [Requests -> Socks \cup {NoSock}], side \in Sides :
        fd(f, side) = IF Lends(j, side)
                        THEN [f EXCEPT ![<<j, side>>] = f[Window(j, side)], ![Window(j, side)] = NoSock]
                        ELSE f
  BY DEF Lends, CompareRequest, SameProtocol, SwapFds
<1>4. datafd \in [Requests -> Socks \cup {NoSock}]
  BY DEF Inv, FdInv
<1> DEFINE g == fd(datafd, "from")
<1>5. /\ g \in [Requests -> Socks \cup {NoSock}]
      /\ g[a] = IF Lends(j, "from") THEN datafd[wa] ELSE datafd[a]
      /\ g[wa] = IF Lends(j, "from") THEN NoSock ELSE datafd[wa]
      /\ \A r \in Requests : r # a /\ r # wa => g[r] = datafd[r]
  BY <1>1, <1>3, <1>4, RequestKinds
<1> HIDE DEF g
<1> DEFINE h == fd(g, "to")
<1>6. /\ h[b] = IF Lends(j, "to") THEN g[wb] ELSE g[b]
      /\ h[wb] = IF Lends(j, "to") THEN NoSock ELSE g[wb]
      /\ \A r \in Requests : r # b /\ r # wb => h[r] = g[r]
  BY <1>1, <1>3, <1>5, RequestKinds
<1>7. datafd' = h /\ peer' = peer /\ host' = host
  BY DEF CreateTransfer, g
<1> HIDE DEF h
<1>8. /\ datafd'[a] = IF Lends(j, "from") THEN datafd[wa] ELSE NoSock
      /\ datafd'[wa] = IF Lends(j, "from") THEN NoSock ELSE datafd[wa]
      /\ datafd'[b] = IF Lends(j, "to") THEN datafd[wb] ELSE NoSock
      /\ datafd'[wb] = IF Lends(j, "to") THEN NoSock ELSE datafd[wb]
      /\ \A r \in Requests : r \notin {a, b, wa, wb} => datafd'[r] = datafd[r]
  BY <1>1, <1>2, <1>5, <1>6, <1>7
<1>9. /\ Lends(j, "from") => host[a] = host[wa]
      /\ Lends(j, "to") => host[b] = host[wb]
  BY DEF Lends, CompareRequest
<1>10. KeptInUse
  BY <1>1, <1>2, <1>8, SockAssumption DEF KeptInUse, InUse, Held
<1>11. StaysMatched
  BY <1>1, <1>7, <1>8, <1>9 DEF StaysMatched, Matched
<1> QED BY <1>10, <1>11 DEF Kept

\* transfer_done(): each connection goes to a window on its host that has none, or is
\* closed.
LEMMA DoneKept ==
  ASSUME Inv, NEW j \in Jobs, TransferDone(j)
  PROVE  Kept
<1> DEFINE a == <<j, "from">>
           b == <<j, "to">>
           wa == Window(j, "from")
           wb == Window(j, "to")
<1>1. /\ a \in Requests /\ b \in Requests /\ wa \in Requests /\ wb \in Requests
      /\ a # b /\ wa # wb /\ a # wa /\ a # wb /\ b # wa /\ b # wb
  BY WindowsOfJob, RequestKinds DEF Inv, QueueInv
<1>2. /\ datafd'[a] = NoSock /\ datafd'[b] = NoSock
      /\ datafd'[wa] = IF GivesBack(j, "from") THEN datafd[a] ELSE datafd[wa]
      /\ datafd'[wb] = IF GivesBack(j, "to") THEN datafd[b] ELSE datafd[wb]
      /\ \A r \in Requests : r \notin {a, b, wa, wb} => datafd'[r] = datafd[r]
  BY ReturnedFds, RequestKinds DEF TransferDone, Sides
<1>3. \A s \in Socks : peer'[s] = IF \/ ~GivesBack(j, "from") /\ datafd[a] = s
                                     \/ ~GivesBack(j, "to") /\ datafd[b] = s THEN NoHost ELSE peer[s]
  BY DEF TransferDone, Sides
<1>4. GivesBack(j, "from") => datafd[wa] = NoSock /\ host[a] = host[wa]
  BY DEF GivesBack, CompareRequest
<1>5. GivesBack(j, "to") => datafd[wb] = NoSock /\ host[b] = host[wb]
  BY DEF GivesBack, CompareRequest
<1>6. \A r \in Requests : r \notin {a, b} /\ datafd'[r] # NoSock => host'[r] = host[r]
  <2>1. CASE Forget(j, {}) \/ host' = host
    BY <2>1 DEF Forget
  <2>2. CASE Forget(j, {wb}) /\ Lent(wb) /\ ~GivesBack(j, "to")
    <3>1. datafd'[wb] = NoSock
      BY <1>2, <2>2 DEF Lent
    <3> QED BY <2>2, <3>1 DEF Forget
  <2> QED BY <2>1, <2>2 DEF TransferDone
<1>7. KeptInUse
  <2>1. SUFFICES ASSUME NEW s \in Socks, NEW r \in Requests, datafd[r] = s
                 PROVE  Held(s)' \/ peer'[s] = NoHost
    BY DEF KeptInUse, InUse
  <2>2. s # NoSock
    BY SockAssumption
  <2>3. CASE r \notin {a, b}
    <3>1. datafd'[r] = s
      BY <1>1, <1>2, <1>4, <1>5, <2>1, <2>2, <2>3
    <3> QED BY <3>1 DEF Held
  <2>4. CASE r = a
    BY <1>1, <1>2, <1>3, <2>1, <2>4 DEF Held
  <2>5. CASE r = b
    BY <1>1, <1>2, <1>3, <2>1, <2>5 DEF Held
  <2> QED BY <2>3, <2>4, <2>5
<1>8. StaysMatched
  <2>1. SUFFICES ASSUME Matched, NEW r \in Requests, datafd'[r] # NoSock
                 PROVE  peer'[datafd'[r]] = host'[r]
    BY DEF StaysMatched, Matched
  <2>2. PICK q \in Requests : /\ datafd[q] = datafd'[r] /\ host[q] = host[r]
                             /\ (q = a => GivesBack(j, "from")) /\ (q = b => GivesBack(j, "to"))
    BY <1>1, <1>2, <1>4, <1>5, <2>1
  <2>3. datafd[q] \in Socks /\ peer[datafd[q]] = host[q]
    BY <2>1, <2>2 DEF Matched, Inv, FdInv
  <2>4. /\ ~GivesBack(j, "from") => datafd[a] # datafd[q]
        /\ ~GivesBack(j, "to") => datafd[b] # datafd[q]
    BY <1>1, <2>1, <2>2 DEF Inv, FdInv, Distinct
  <2>5. peer'[datafd'[r]] = peer[datafd[q]]
    BY <1>3, <2>2, <2>3, <2>4
  <2>6. host'[r] = host[r]
    BY <1>2, <1>6, <2>1
  <2> QED BY <2>2, <2>3, <2>5, <2>6
<1> QED BY <1>7, <1>8 DEF Kept

\* No step but transfer_window_files() after its walk drops a connection or pairs one
\* with another host.
LEMMA KeptStep ==
  ASSUME Inv, [Next]_vars, ~CollectReturns
  PROVE  Kept
<1>1. ASSUME NEW w \in Wins, Browse(w) PROVE Kept
  BY <1>1, RefreshedKept DEF Browse
<1>2. ASSUME NEW w \in Wins, Disconnect(w) PROVE Kept
  BY <1>2, DestroyedKept, RequestKinds DEF Disconnect
<1>3. ASSUME NEW w \in Wins, NEW h \in RemoteHosts, Connect(w, h) PROVE Kept
  <2>1. \A r \in Requests \ {w} : host'[r] = host[r]
    BY <1>3 DEF Connect, Inv, FdInv
  <2> QED BY <1>3, <2>1, ClosedKept, RequestKinds DEF Connect
<1>4. ASSUME NEW j \in Jobs, StopQueued(j) PROVE Kept
  <2>1. \A side \in Sides : datafd[<<j, side>>] = NoSock
    BY <1>4 DEF StopQueued, Inv, JobInv, IdleHasNone
  <2>2. \A r \in Requests : datafd[r] # NoSock => host'[r] = host[r]
    BY <1>4, <2>1, RequestKinds DEF StopQueued, Inv, FdInv
  <2> QED BY <1>4, <2>2, NothingMoves DEF StopQueued
<1>5. ASSUME NEW j \in Jobs, NEW side \in Sides, JobDrops(j, side) PROVE Kept
  BY <1>5, ClosedKept, RequestKinds DEF JobDrops
<1>6. ASSUME NEW j \in Jobs, NEW side \in Sides, NEW s \in Socks, JobConnects(j, side, s) PROVE Kept
  BY <1>6, OpenedKept, RequestKinds DEF JobConnects
<1>7. ASSUME NEW j \in Jobs, JobEnds(j) PROVE Kept
  BY <1>7, NothingMoves DEF JobEnds, reqVars
<1>8. ASSUME NEW w \in Wins, ListThread(w) PROVE Kept
  <2>1. CASE UNCHANGED <<datafd, peer>>
    BY <1>8, <2>1, NothingMoves DEF ListThread
  <2>2. CASE CloseAll({w})
    BY <1>8, <2>2, ClosedKept, RequestKinds DEF ListThread
  <2> QED BY <1>8, <2>1, <2>2 DEF ListThread
<1>9. ASSUME NEW w \in Wins, ConnectThread(w) PROVE Kept
  BY <1>9, OpenedKept, NothingMoves, RequestKinds DEF ConnectThread
<1>10. ASSUME NEW w \in Wins, CollectThread(w) PROVE Kept
  <2>1. PICK i \in DOMAIN stack, lost \in SUBSET Sides : CloseAll({<<stack[i].j, side>> : side \in lost})
    BY <1>10 DEF CollectThread
  <2>2. stack[i].j \in Jobs
    <3>1. stack[i] \in Frames
      BY ElementOfSeq DEF Inv, QueueInv
    <3> QED BY <3>1 DEF Frames
  <2>3. {<<stack[i].j, side>> : side \in lost} \in SUBSET Requests
    BY <2>2, RequestKinds
  <2> QED BY <1>10, <2>1, <2>3, ClosedKept DEF CollectThread
<1>11. ASSUME Returns("op") \/ Returns("reap") \/ Returns("connect")
       PROVE  Top.w \in Wins /\ Top.j \in Jobs
  BY <1>11, TopFrame DEF Returns, Inv, QueueInv
<1>12. ASSUME NEW w \in Wins, NEW rs \in SUBSET Requests, PurgeUnlessConnected(w, rs) PROVE Kept
  <2>1. rs \in SUBSET Requests /\ rs \cup {w} \in SUBSET Requests
    BY <1>12, RequestKinds
  <2> QED BY <1>12, <2>1, DestroyedKept DEF PurgeUnlessConnected
<1>13. CASE OpReturns
  <2>1. {} \in SUBSET Requests
    OBVIOUS
  <2> QED BY <1>11, <1>12, <1>13, <2>1 DEF OpReturns
<1>14. CASE ReapReturns
  <2>1. Top.w \in Wins /\ Top.j \in Jobs
    BY <1>11, <1>14 DEF ReapReturns
  <2>2. {<<Top.j, "from">>, <<Top.j, "to">>} \in SUBSET Requests
    BY <2>1, RequestKinds
  <2> QED BY <1>12, <1>14, <2>1, <2>2 DEF ReapReturns
<1>15. CASE ConnectReturns
  <2>1. Top.w \in Wins /\ {Top.w} \in SUBSET Requests
    BY <1>11, <1>15, RequestKinds DEF ConnectReturns
  <2>2. Destroy({Top.w}) \/ Refresh(Top.w, Popped, Frame("op", Top.w, AnyJob))
    BY <1>15 DEF ConnectReturns
  <2> QED BY <2>1, <2>2, DestroyedKept, RefreshedKept
<1>16. CASE UNCHANGED vars
  BY <1>16, NothingMoves DEF vars, reqVars
<1> QED BY <1>1, <1>2, <1>3, <1>4, <1>5, <1>6, <1>7, <1>8, <1>9, <1>10, <1>13, <1>14, <1>15, <1>16,
      CollectedKept, CreatedKept, DoneKept
   DEF Next, User, Tick, TickStarts, StartTransfer, JobThreads, WindowThreads, LoopReturns

\* The descriptor of a request that has a host is never lost, whatever swaps, closes
\* and nested main loops do, except where transfer_window_files() gives the
\* connections back: it stays in some request or gftp_disconnect() closes it.
THEOREM ConnectionsNotDropped == Spec => NoConnectionDropped
<1>1. Inv /\ [Next]_vars => [~CollectReturns => \A s \in Socks : InUse(s) => Held(s)' \/ peer'[s] = NoHost]_vars
  BY KeptStep DEF Kept, KeptInUse
<1> QED BY <1>1, InvHolds, PTL DEF Spec, NoConnectionDropped

\* GFTP_IS_SAME_HOST_START_TRANS and GFTP_IS_SAME_HOST_STOP_TRANS are enough: no
\* hand-over but that of transfer_window_files() pairs a request with a connection
\* to another host.
THEOREM HostsKept == Spec => HostKept
<1>1. Inv /\ [Next]_vars => [~CollectReturns /\ Matched => Matched']_vars
  BY KeptStep DEF Kept, StaysMatched
<1> QED BY <1>1, InvHolds, PTL DEF Spec, HostKept

-----------------------------------------------------------------------------
(* The transfer queue. *)

Waiting == {j \in Jobs : st[j] = "queued"}
Gone == {j \in Jobs : st[j] = "freed"}

\* A step that moves one transfer along its way is a step of the queue.
LEMMA MovesOne ==
  ASSUME Inv, NEW j \in Jobs, NEW x \in States, st' = [st EXCEPT ![j] = x]
  PROVE  /\ Waiting' = IF x = "queued" THEN Waiting \cup {j} ELSE Waiting \ {j}
         /\ Gone' = IF x = "freed" THEN Gone \cup {j} ELSE Gone \ {j}
         /\ Active' = IF x \in {"running", "done", "reaping"} THEN Active \cup {j} ELSE Active \ {j}
         /\ (j \in Waiting <=> st[j] = "queued") /\ (j \in Gone <=> st[j] = "freed")
         /\ (j \in Active <=> st[j] \in {"running", "done", "reaping"})
<1>1. \A k \in Jobs : st'[k] = IF k = j THEN x ELSE st[k]
  BY DEF Inv, QueueInv
<1> QED BY <1>1 DEF Waiting, Gone, Active

\* No transfer is active when the count is zero.
LEMMA NoneActive == Inv /\ num_transfers_in_progress = 0 => Active = {}
<1>1. IsFiniteSet(Active)
  BY JobAssumption, FS_Subset DEF Active
<1> QED BY <1>1, FS_EmptySet DEF Inv, QueueInv, CountIsExact

\* Every step is a step of the queue of connections, or leaves it alone.
LEMMA QueueStep ==
  ASSUME "start" \notin UserOps, Inv, [Next]_vars
  PROVE  [Queue!Next]_(Queue!queueVars)
<1> DEFINE Goal == [Queue!Next]_(Queue!queueVars)
<1>1. CASE UNCHANGED st
  BY <1>1 DEF Queue!queueVars, Active
<1>2. ASSUME NEW j \in Jobs, NEW x \in {"collecting", "queued", "freed", "running", "done", "reaping"},
             st' = [st EXCEPT ![j] = x],
             \/ st[j] = "none" /\ x \in {"collecting", "queued"}
             \/ st[j] = "collecting" /\ x \in {"queued", "freed"}
             \/ st[j] = "queued" /\ x = "freed"
             \/ st[j] = "queued" /\ x = "running" /\ (OneTransfer => Active = {})
             \/ st[j] = "running" /\ x = "done"
             \/ st[j] = "done" /\ x \in {"reaping", "freed"}
             \/ st[j] = "reaping" /\ x = "freed"
      PROVE  Goal
  <2>1. x \in States
    BY DEF States
  <2>2. /\ Waiting' = IF x = "queued" THEN Waiting \cup {j} ELSE Waiting \ {j}
        /\ Gone' = IF x = "freed" THEN Gone \cup {j} ELSE Gone \ {j}
        /\ Active' = IF x \in {"running", "done", "reaping"} THEN Active \cup {j} ELSE Active \ {j}
        /\ (j \in Waiting <=> st[j] = "queued") /\ (j \in Gone <=> st[j] = "freed")
        /\ (j \in Active <=> st[j] \in {"running", "done", "reaping"})
    BY <1>2, <2>1, MovesOne
  <2>3. CASE <<st[j], x>> \in {<<"none", "collecting">>, <<"running", "done">>, <<"done", "reaping">>}
    <3>1. Waiting' = Waiting /\ Gone' = Gone /\ Active' = Active
      BY <2>2, <2>3
    <3> QED BY <3>1 DEF Queue!queueVars, Waiting, Gone
  <2>4. CASE st[j] \in {"none", "collecting"} /\ x = "queued"
    <3>1. j \notin Waiting \cup Active \cup Gone /\ Waiting' = Waiting \cup {j} /\ Gone' = Gone /\ Active' = Active
      BY <2>2, <2>4
    <3>2. Queue!Submit(j)
      BY <3>1 DEF Queue!Submit, Waiting, Gone
    <3> QED BY <3>2 DEF Queue!Next
  <2>5. CASE st[j] = "collecting" /\ x = "freed"
    <3>1. j \notin Waiting \cup Active \cup Gone /\ Gone' = Gone \cup {j} /\ Waiting' = Waiting /\ Active' = Active
      BY <2>2, <2>5
    <3>2. Queue!Reject(j)
      BY <3>1 DEF Queue!Reject, Waiting, Gone
    <3> QED BY <3>2 DEF Queue!Next
  <2>6. CASE st[j] = "queued" /\ x = "freed"
    <3>1. j \in Waiting /\ Waiting' = Waiting \ {j} /\ Gone' = Gone \cup {j} /\ Active' = Active
      BY <2>2, <2>6
    <3>2. Queue!Withdraw(j)
      BY <3>1 DEF Queue!Withdraw, Waiting, Gone
    <3> QED BY <3>2 DEF Queue!Next
  <2>7. CASE st[j] = "queued" /\ x = "running" /\ (OneTransfer => Active = {})
    <3>1. j \in Waiting /\ Waiting' = Waiting \ {j} /\ Gone' = Gone /\ Active' = Active \cup {j}
      BY <2>2, <2>7
    <3>2. Queue!Start(j)
      BY <2>7, <3>1 DEF Queue!Start, Waiting, Gone
    <3> QED BY <3>2 DEF Queue!Next
  <2>8. CASE st[j] \in {"done", "reaping"} /\ x = "freed"
    <3>1. j \in Active /\ Active' = Active \ {j} /\ Gone' = Gone \cup {j} /\ Waiting' = Waiting
      BY <2>2, <2>8
    <3>2. Queue!Finish(j)
      BY <3>1 DEF Queue!Finish, Waiting, Gone
    <3> QED BY <3>2 DEF Queue!Next
  <2>9. \/ <<st[j], x>> \in {<<"none", "collecting">>, <<"running", "done">>, <<"done", "reaping">>}
        \/ st[j] \in {"none", "collecting"} /\ x = "queued"
        \/ st[j] = "collecting" /\ x = "freed"
        \/ st[j] = "queued" /\ x = "freed"
        \/ st[j] = "queued" /\ x = "running" /\ (OneTransfer => Active = {})
        \/ st[j] \in {"done", "reaping"} /\ x = "freed"
    BY <1>2
  <2> HIDE DEF Goal
  <2> QED BY <2>3, <2>4, <2>5, <2>6, <2>7, <2>8, <2>9, Zenon
<1>3. ASSUME NEW w \in Wins, NEW j \in Jobs, TransferFiles(w, j) PROVE Goal
  <2>1. \/ UNCHANGED st
        \/ st[j] = "none" /\ \E x \in {"collecting", "queued"} : st' = [st EXCEPT ![j] = x]
    BY <1>3 DEF TransferFiles
  <2> QED BY <1>1, <1>2, <2>1
<1>4. ASSUME NEW j \in Jobs, StopQueued(j) PROVE Goal
  BY <1>2, <1>4 DEF StopQueued
<1>5. ASSUME NEW j \in Jobs, TickStarts(j) PROVE Goal
  <2>1. OneTransfer => Active = {}
    BY <1>5, NoneActive DEF TickStarts, SlotFree
  <2>2. st[j] = "queued" /\ st' = [st EXCEPT ![j] = "running"]
    BY <1>5 DEF TickStarts, CreateTransfer
  <2> QED BY <1>2, <2>1, <2>2
<1>6. ASSUME NEW j \in Jobs, TransferDone(j) PROVE Goal
  <2>1. st[j] = "done" /\ \E x \in {"freed", "reaping"} : st' = [st EXCEPT ![j] = x]
    BY <1>6 DEF TransferDone
  <2> QED BY <1>2, <2>1
<1>7. ASSUME NEW j \in Jobs, JobEnds(j) PROVE Goal
  BY <1>2, <1>7 DEF JobEnds
<1>8. CASE ReapReturns
  <2>1. Top.j \in Jobs /\ st[Top.j] = "reaping"
    BY <1>8, InvCounted, PopCounted DEF ReapReturns, Returns, Owning, FrameState
  <2>2. st' = [st EXCEPT ![Top.j] = "freed"]
    BY <1>8 DEF ReapReturns
  <2> QED BY <1>2, <2>1, <2>2
<1>9. CASE CollectReturns
  <2>1. Top.j \in Jobs /\ st[Top.j] = "collecting"
    BY <1>9, InvCounted, PopCounted DEF CollectReturns, Returns, Owning, FrameState
  <2>2. \E x \in {"freed", "queued"} : st' = [st EXCEPT ![Top.j] = x]
    BY <1>9 DEF CollectReturns
  <2> QED BY <1>2, <2>1, <2>2
<1>10. \A j \in Jobs : ~StartTransfer(j)
  BY DEF StartTransfer, May
<1> QED BY <1>1, <1>3, <1>4, <1>5, <1>6, <1>7, <1>8, <1>9, <1>10
   DEF Next, User, Tick, JobThreads, WindowThreads, LoopReturns, vars, Browse, Connect, Disconnect, JobDrops,
       JobConnects, ListThread, ConnectThread, CollectThread, OpReturns, ConnectReturns

\* Without Start Transfer, which ignores one_transfer, the whole of update_downloads(),
\* transfer_done(), the windows and their nested main loops implements the queue: a
\* transfer waits, is active and is gone, in that order and once, and with
\* one_transfer none starts while another is active.
THEOREM QueueImplemented ==
  ASSUME "start" \notin UserOps
  PROVE  Spec => ImplementsQueue
<1>1. Init => Queue!Init
  BY DEF Init, Queue!Init, Active
<1>2. Inv /\ [Next]_vars => [Queue!Next]_(Queue!queueVars)
  BY QueueStep
<1> QED BY <1>1, <1>2, InvHolds, PTL DEF Spec, ImplementsQueue, Queue!Spec
=============================================================================
