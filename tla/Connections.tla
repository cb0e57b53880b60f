---------------------------- MODULE Connections ----------------------------
(***************************************************************************)
(* Who holds which connection.  The two windows of gFTP and the requests   *)
(* of every transfer are gftp_request structures, each with one datafd.    *)
(* gftp_swap_socks() moves a connection from one request to another: from  *)
(* a window to the transfer being collected and back, to a transfer that   *)
(* starts, and back to the window when it is done.                         *)
(*                                                                         *)
(* A window operation runs in a thread while the main thread spins in a    *)
(* nested main loop (gftpui_generic_thread) that handles every event: the  *)
(* other window's operations, the menus, the half-second tick.  stack is   *)
(* the nesting; only its last frame can return.                            *)
(***************************************************************************)
EXTENDS Naturals, Sequences, FiniteSets

CONSTANTS
  Wins,           \* the two windows
  Jobs,           \* transfers
  RemoteHosts,    \* the FTP sites
  Local,          \* the file system: always_connected
  NoHost,         \* the hostname of a request after gftp_request_destroy (request, 0)
  Socks, NoSock,  \* descriptors of connections, and -1
  LocalWin,       \* the window that shows the file system at startup
  Connectable,    \* the windows the user connects to a site
  OneTransfer,    \* the option "one_transfer"
  MaxDepth,       \* bound on nested main loops
  UserOps         \* what the user does

Sides == {"from", "to"}
AllOps == {"connect", "disconnect", "disconnect_busy", "browse", "transfer", "start", "stop"}
JobReqs == Jobs \X Sides
Requests == Wins \cup JobReqs
Hosts == RemoteHosts \cup {Local, NoHost}

ASSUME WindowAssumption ==
  /\ \A w \in Wins : \E v \in Wins : v # w /\ Wins = {v, w}
  /\ LocalWin \in Wins /\ Connectable \subseteq Wins /\ Wins \cap JobReqs = {}
ASSUME HostAssumption == Local \notin RemoteHosts /\ NoHost \notin RemoteHosts \cup {Local}
ASSUME SockAssumption == NoSock \notin Socks
ASSUME OptionAssumption == OneTransfer \in BOOLEAN /\ MaxDepth \in Nat /\ UserOps \subseteq AllOps
ASSUME JobAssumption == IsFiniteSet(Jobs) /\ Jobs # {}

VARIABLES
  host, datafd, cached,  \* of every gftp_request
  peer,        \* what each descriptor is connected to; NoHost when it is closed
  stopable,    \* a thread is working for the window
  st,          \* where each transfer is
  fromwdata,   \* the window each transfer comes from
  num_transfers_in_progress,
  stack,       \* nested main loops, the innermost last
  torn         \* a request was destroyed under the thread that uses it

reqVars == <<host, datafd, cached, peer>>
vars == <<reqVars, stopable, st, fromwdata, num_transfers_in_progress, stack, torn>>

Frames == [kind : {"op", "connect", "collect", "reap"}, w : Wins, j : Jobs]

TypeOK ==
  /\ host \in [Requests -> Hosts]
  /\ datafd \in [Requests -> Socks \cup {NoSock}]
  /\ cached \in [Requests -> BOOLEAN]
  /\ peer \in [Socks -> RemoteHosts \cup {NoHost}]
  /\ stopable \in [Wins -> BOOLEAN]
  /\ st \in [Jobs -> {"none", "collecting", "queued", "running", "done", "reaping", "freed"}]
  /\ fromwdata \in [Jobs -> Wins]
  /\ num_transfers_in_progress \in Nat
  /\ stack \in Seq(Frames)
  /\ torn \in BOOLEAN

Init ==
  /\ host = [r \in Requests |-> IF r = LocalWin THEN Local ELSE NoHost]
  /\ datafd = [r \in Requests |-> NoSock]
  /\ cached = [r \in Requests |-> FALSE]
  /\ peer = [s \in Socks |-> NoHost]
  /\ stopable = [w \in Wins |-> FALSE]
  /\ st = [j \in Jobs |-> "none"]
  /\ fromwdata = [j \in Jobs |-> LocalWin]
  /\ num_transfers_in_progress = 0
  /\ stack = <<>>
  /\ torn = FALSE

-----------------------------------------------------------------------------
(* Requests. *)

Other(w) == CHOOSE v \in Wins : v # w
\* tdata->fromwdata or tdata->towdata, for a transfer from window w.
SideWin(w, side) == IF side = "from" THEN w ELSE Other(w)
Window(j, side) == SideWin(fromwdata[j], side)

IsConnected(r) == datafd[r] # NoSock \/ cached[r] \/ host[r] = Local
\* The request's connection is elsewhere: with a transfer, or gone with it.
Lent(r) == cached[r] /\ datafd[r] = NoSock /\ host[r] # Local
\* compare_request (r1, r2, 0)
AnyHost(r1, r2) == (host[r1] = Local) <=> (host[r2] = Local)
CompareRequest(r1, r2) == host[r1] = host[r2]

\* gftp_swap_socks (dest, source) on a function fd of descriptors.  It returns at
\* once when the protocols differ; a zeroed request has protonum 0, which is FTP.
SameProtocol(r1, r2) == (host[r1] = Local) <=> (host[r2] = Local)
SwapKeepsSource(fd, dest, source) == [fd EXCEPT ![dest] = fd[source]]
SwapFds(fd, dest, source) ==
  IF ~SameProtocol(dest, source) THEN fd
  ELSE [fd EXCEPT ![dest] = fd[source], ![source] = IF host[source] = Local THEN fd[source] ELSE NoSock]
SwapCached(c, dest, source) ==
  IF ~SameProtocol(dest, source) THEN c
  ELSE [c EXCEPT ![dest] = FALSE, ![source] = IF host[source] = Local THEN c[source] ELSE TRUE]

\* gftp_disconnect() on the requests rs closes their descriptors, with the disconnect
\* function of the protocol, which a zeroed request does not have.
CloseAll(rs) ==
  /\ datafd' = [r \in Requests |-> IF r \in rs THEN NoSock ELSE datafd[r]]
  /\ cached' = [r \in Requests |-> cached[r] /\ r \notin rs]
  /\ peer' = [s \in Socks |-> IF \E r \in rs : datafd[r] = s /\ host[r] # NoHost THEN NoHost ELSE peer[s]]

\* gftpui_disconnect() and free_tdata(): gftp_request_destroy() forgets the host too.
Destroy(rs) ==
  /\ CloseAll(rs)
  /\ host' = [r \in Requests |-> IF r \in rs THEN NoHost ELSE host[r]]

\* The protocol's connect function returns with a new descriptor.
Opens(r, s) ==
  /\ peer[s] = NoHost /\ host[r] \in RemoteHosts /\ datafd[r] = NoSock
  /\ datafd' = [datafd EXCEPT ![r] = s]
  /\ peer' = [peer EXCEPT ![s] = host[r]]
  /\ cached' = cached

-----------------------------------------------------------------------------
(* The main thread's nested main loops. *)

AnyJob == CHOOSE j \in Jobs : TRUE
Frame(kind, w, j) == [kind |-> kind, w |-> w, j |-> j]
Room == Len(stack) < MaxDepth
Top == stack[Len(stack)]
Popped == SubSeq(stack, 1, Len(stack) - 1)
\* update_downloads() re-arms its timer when it ends: no tick within a tick.
Ticking == \E i \in DOMAIN stack : stack[i].kind = "reap"
\* Frame i, of the given kind, waits for the thread that works for window w: it is
\* the innermost one of w.
ThreadOf(w, i, kinds) == /\ stack[i].w = w /\ stack[i].kind \in kinds
                         /\ \A k \in DOMAIN stack : stack[k].w = w => k <= i

\* gftpui_refresh(), on top of the frames below.  When the window is lent,
\* check_reconnect() calls gftpui_common_cmd_open(), whose GFTP_IS_CONNECTED test is
\* true of a cached request: gftpui_disconnect() zeroes it, and with it the protocol's
\* functions, so that connecting and listing both fail and it is disconnected again.
Refresh(w, below, frame) ==
  IF Lent(w) \/ host[w] = NoHost
    THEN /\ Destroy({w}) /\ stack' = below /\ stopable' = stopable
    ELSE /\ stopable' = [stopable EXCEPT ![w] = TRUE]
         /\ stack' = Append(below, frame)
         /\ UNCHANGED reqVars

-----------------------------------------------------------------------------
(* The user. *)

May(op) == op \in UserOps /\ ~torn

\* An operation on a remote window: check_status(), then the listing.
Browse(w) ==
  /\ May("browse") /\ Room
  /\ ~stopable[w] /\ IsConnected(w) /\ host[w] # Local
  /\ Refresh(w, stack, Frame("op", w, AnyJob))
  /\ UNCHANGED <<st, fromwdata, num_transfers_in_progress, torn>>

\* toolbar_hostedit() and gftpui_common_cmd_open(): the old connection is closed and
\* a thread makes the new one.
Connect(w, h) ==
  /\ May("connect") /\ Room /\ w \in Connectable /\ ~stopable[w]
  /\ CloseAll({w})
  /\ host' = [host EXCEPT ![w] = h]
  /\ stopable' = [stopable EXCEPT ![w] = TRUE]
  /\ stack' = Append(stack, Frame("connect", w, AnyJob))
  /\ UNCHANGED <<st, fromwdata, num_transfers_in_progress, torn>>

\* ui_disconnect(), which does not look at stopable.
Disconnect(w) ==
  /\ May(IF stopable[w] THEN "disconnect_busy" ELSE "disconnect")
  /\ w \in Connectable /\ IsConnected(w)
  /\ Destroy({w})
  /\ stopable' = [stopable EXCEPT ![w] = FALSE]
  /\ torn' = stopable[w]
  /\ UNCHANGED <<st, fromwdata, num_transfers_in_progress, stack>>

\* transfer_window_files() up to gftp_gtk_get_subdirs().  check_reconnect() zeroes a
\* lent window: a zeroed source shows no files any more.  Otherwise both connections
\* move to the new transfer while the directories are walked: in a thread, or at
\* once when the source is local.
TransferFiles(w, j) ==
  LET to == Other(w)
      toHost == IF Lent(to) THEN NoHost ELSE host[to]
  IN
  /\ May("transfer") /\ Room /\ st[j] = "none"
  /\ host[w] # NoHost /\ host[to] # NoHost   \* get_file and put_file are not NULL
  /\ ~stopable[w] /\ ~stopable[to] /\ IsConnected(w) /\ IsConnected(to)
  /\ fromwdata' = [fromwdata EXCEPT ![j] = w]
  /\ \/ /\ Lent(w)
        /\ Destroy({v \in Wins : Lent(v)})
        /\ UNCHANGED <<st, stopable, stack>>
     \/ /\ ~Lent(w) /\ host[w] # Local
        /\ host' = [host EXCEPT ![<<j, "from">>] = host[w], ![<<j, "to">>] = toHost, ![to] = toHost]
        /\ datafd' = [datafd EXCEPT ![<<j, "from">>] = datafd[w], ![w] = NoSock,
                                    ![<<j, "to">>] = datafd[to], ![to] = NoSock]
        /\ cached' = [cached EXCEPT ![w] = TRUE, ![to] = toHost # Local]
        /\ st' = [st EXCEPT ![j] = "collecting"]
        /\ stopable' = [stopable EXCEPT ![w] = TRUE]
        /\ stack' = Append(stack, Frame("collect", w, j))
        /\ peer' = peer
     \/ /\ host[w] = Local /\ Lent(to)
        /\ Destroy({to})
        /\ UNCHANGED <<st, stopable, stack>>
     \/ /\ host[w] = Local /\ ~Lent(to)
        /\ host' = [host EXCEPT ![<<j, "from">>] = Local, ![<<j, "to">>] = toHost]
        /\ cached' = [cached EXCEPT ![to] = FALSE]
        /\ st' = [st EXCEPT ![j] = "queued"]
        /\ UNCHANGED <<datafd, peer, stopable, stack>>
  /\ UNCHANGED <<num_transfers_in_progress, torn>>

\* gftpui_common_cancel_file_transfer() on a transfer that has not started.
StopQueued(j) ==
  /\ May("stop") /\ st[j] = "queued"
  /\ st' = [st EXCEPT ![j] = "freed"]
  /\ host' = [host EXCEPT ![<<j, "from">>] = NoHost, ![<<j, "to">>] = NoHost]
  /\ UNCHANGED <<datafd, cached, peer, stopable, fromwdata, num_transfers_in_progress, stack, torn>>

-----------------------------------------------------------------------------
(* Transfers start and end. *)

\* GFTP_IS_SAME_HOST_START_TRANS: an idle window on the same host lends its connection.
Lends(j, side) ==
  LET w == Window(j, side) IN
  datafd[w] # NoSock /\ host[w] # Local /\ ~stopable[w] /\ CompareRequest(<<j, side>>, w)

NotCounted == num_transfers_in_progress
OneMore == num_transfers_in_progress + 1

\* create_transfer()
CreateTransfer(j) ==
  LET fd(f, side) == IF Lends(j, side) THEN SwapFds(f, <<j, side>>, Window(j, side)) ELSE f
      c(f, side) == IF Lends(j, side) THEN SwapCached(f, <<j, side>>, Window(j, side)) ELSE f
  IN
  /\ ~torn /\ st[j] = "queued"
  /\ datafd' = fd(fd(datafd, "from"), "to")
  /\ cached' = c(c(cached, "from"), "to")
  /\ st' = [st EXCEPT ![j] = "running"]
  /\ num_transfers_in_progress' = OneMore
  /\ UNCHANGED <<host, peer, stopable, fromwdata, stack, torn>>

\* if (num_transfers_in_progress == 0 || !do_one_transfer_at_a_time)
SlotIgnored == TRUE
SlotFree == num_transfers_in_progress = 0 \/ ~OneTransfer

\* The tail of update_downloads(), with start_transfers.
TickStarts(j) == ~Ticking /\ SlotFree /\ CreateTransfer(j)

\* start_transfer(): one_transfer is not looked at.
StartTransfer(j) == May("start") /\ CreateTransfer(j)

\* GFTP_IS_SAME_HOST_STOP_TRANS: the window is still on the host and without a
\* connection.
GiveAnyway(j, side) ==
  LET w == Window(j, side) IN
  cached[w] /\ host[w] # Local /\ datafd[<<j, side>>] # NoSock /\ CompareRequest(<<j, side>>, w)
GivesBack(j, side) ==
  LET w == Window(j, side) IN
  /\ datafd[w] = NoSock /\ host[w] # Local /\ cached[w] /\ ~stopable[w]
  /\ datafd[<<j, side>>] # NoSock /\ CompareRequest(<<j, side>>, w)

\* transfer_done(), up to the refresh: each connection goes back or is closed.
ReturnFds(j) ==
  LET fd(f, side) == IF GivesBack(j, side) THEN SwapFds(f, Window(j, side), <<j, side>>)
                     ELSE [f EXCEPT ![<<j, side>>] = NoSock]
  IN fd(fd(datafd, "from"), "to")
ReturnCached(j) ==
  LET c(f, side) == IF GivesBack(j, side) THEN SwapCached(f, Window(j, side), <<j, side>>)
                    ELSE [f EXCEPT ![<<j, side>>] = FALSE]
  IN c(c(cached, "from"), "to")

\* free_tdata() forgets the transfer's requests.
Forget(j, ws) == host' = [r \in Requests |-> IF r \in {<<j, "from">>, <<j, "to">>} \cup ws THEN NoHost ELSE host[r]]

\* transfer_done(): the destination window is refreshed if it still shows the target
\* directory.  The count goes down when that is over.
TransferDone(j) ==
  LET to == Window(j, "to")
      refresh == /\ CompareRequest(<<j, "to">>, to) /\ host[to] # Local
                 /\ ~stopable[to] /\ IsConnected(to)
      zeroed == Lent(to) /\ ~GivesBack(j, "to")
  IN
  /\ ~torn /\ ~Ticking /\ st[j] = "done"
  /\ datafd' = ReturnFds(j)
  /\ peer' = [s \in Socks |-> IF \E side \in Sides : ~GivesBack(j, side) /\ datafd[<<j, side>>] = s
                                THEN NoHost ELSE peer[s]]
  /\ \/ /\ cached' = ReturnCached(j) /\ Forget(j, {})
        /\ st' = [st EXCEPT ![j] = "freed"]
        /\ num_transfers_in_progress' = num_transfers_in_progress - 1
        /\ UNCHANGED <<stopable, stack>>
     \/ /\ refresh /\ zeroed
        /\ cached' = [ReturnCached(j) EXCEPT ![to] = FALSE] /\ Forget(j, {to})
        /\ st' = [st EXCEPT ![j] = "freed"]
        /\ num_transfers_in_progress' = num_transfers_in_progress - 1
        /\ UNCHANGED <<stopable, stack>>
     \/ /\ refresh /\ ~zeroed /\ Room
        /\ cached' = ReturnCached(j) /\ host' = host
        /\ st' = [st EXCEPT ![j] = "reaping"]
        /\ stopable' = [stopable EXCEPT ![to] = TRUE]
        /\ stack' = Append(stack, Frame("reap", to, j))
        /\ UNCHANGED num_transfers_in_progress
  /\ UNCHANGED <<fromwdata, torn>>

-----------------------------------------------------------------------------
(* The threads of running transfers. *)

\* gftp_connect() in the transfer's thread.
JobConnects(j, side, s) ==
  /\ ~torn /\ st[j] = "running" /\ Opens(<<j, side>>, s)
  /\ UNCHANGED <<host, stopable, st, fromwdata, num_transfers_in_progress, stack, torn>>

\* A network error or the end of the last file.
JobDrops(j, side) ==
  /\ ~torn /\ st[j] = "running" /\ datafd[<<j, side>>] # NoSock
  /\ CloseAll({<<j, side>>})
  /\ UNCHANGED <<host, stopable, st, fromwdata, num_transfers_in_progress, stack, torn>>

JobEnds(j) ==
  /\ ~torn /\ st[j] = "running"
  /\ st' = [st EXCEPT ![j] = "done"]
  /\ UNCHANGED <<reqVars, stopable, fromwdata, num_transfers_in_progress, stack, torn>>

-----------------------------------------------------------------------------
(* The threads of window operations, and the frames that wait for them. *)

ThreadEnds(w) == ~torn /\ stopable[w] /\ stopable' = [stopable EXCEPT ![w] = FALSE]

\* gftpui_common_run_ls(): from the cache, from the server, or the connection is lost.
ListThread(w) ==
  /\ ThreadEnds(w) /\ \E i \in DOMAIN stack : ThreadOf(w, i, {"op", "reap"})
  /\ \/ \E hit \in BOOLEAN : cached' = [cached EXCEPT ![w] = hit] /\ UNCHANGED <<datafd, peer>>
     \/ CloseAll({w})
  /\ UNCHANGED <<host, st, fromwdata, num_transfers_in_progress, stack, torn>>

\* gftpui_common_run_connect()
ConnectThread(w) ==
  /\ ThreadEnds(w) /\ \E i \in DOMAIN stack : ThreadOf(w, i, {"connect"})
  /\ \/ \E s \in Socks : Opens(w, s)
     \/ UNCHANGED <<datafd, cached, peer>>
  /\ UNCHANGED <<host, st, fromwdata, num_transfers_in_progress, stack, torn>>

\* _gftp_getdir_thread() works with the connections of the new transfer.
CollectThread(w) ==
  /\ ThreadEnds(w)
  /\ \E i \in DOMAIN stack, lost \in SUBSET Sides :
       ThreadOf(w, i, {"collect"}) /\ CloseAll({<<stack[i].j, side>> : side \in lost})
  /\ UNCHANGED <<host, st, fromwdata, num_transfers_in_progress, stack, torn>>

Returns(kind) == ~torn /\ stack # <<>> /\ Top.kind = kind /\ ~stopable[Top.w]

\* The end of gftpui_generic_thread() and ftp_list_files(): a window that has lost
\* its connection is disconnected.
PurgeUnlessConnected(w, ws) == Destroy(IF IsConnected(w) THEN ws ELSE ws \cup {w})

OpReturns ==
  /\ Returns("op")
  /\ PurgeUnlessConnected(Top.w, {})
  /\ stack' = Popped
  /\ UNCHANGED <<stopable, st, fromwdata, num_transfers_in_progress, torn>>

\* ... in transfer_done()
ReapReturns ==
  LET j == Top.j IN
  /\ Returns("reap")
  /\ PurgeUnlessConnected(Top.w, {<<j, "from">>, <<j, "to">>})
  /\ stack' = Popped
  /\ st' = [st EXCEPT ![j] = "freed"]
  /\ num_transfers_in_progress' = num_transfers_in_progress - 1
  /\ UNCHANGED <<stopable, fromwdata, torn>>

\* ... in gftpui_common_cmd_open(): a new connection is followed by a refresh.
ConnectReturns ==
  LET w == Top.w IN
  /\ Returns("connect")
  /\ IF IsConnected(w)
       THEN Refresh(w, Popped, Frame("op", w, AnyJob))
       ELSE Destroy({w}) /\ stack' = Popped /\ stopable' = stopable
  /\ UNCHANGED <<st, fromwdata, num_transfers_in_progress, torn>>

\* transfer_window_files() after the walk: the connections go back to the windows
\* and the transfer is queued (or its files join a queued one); a window whose
\* connection was lost is disconnected, and the transfer freed.
CollectReturns ==
  LET j == Top.j
      w == Top.w
      lost == {side \in Sides : ~IsConnected(<<j, side>>)}
      mine == {<<j, "from">>, <<j, "to">>}
  IN
  /\ Returns("collect")
  /\ stack' = Popped
  /\ \/ /\ lost # {}
        /\ PurgeUnlessConnected(w, mine \cup {Window(j, side) : side \in lost})
        /\ st' = [st EXCEPT ![j] = "freed"]
     \/ /\ lost = {}
        /\ datafd' = SwapFds(SwapFds(datafd, w, <<j, "from">>), Other(w), <<j, "to">>)
        /\ cached' = [SwapCached(SwapCached(cached, w, <<j, "from">>), Other(w), <<j, "to">>)
                        EXCEPT ![<<j, "from">>] = FALSE, ![<<j, "to">>] = FALSE]
        /\ peer' = peer
        /\ \/ st' = [st EXCEPT ![j] = "queued"] /\ host' = host
           \/ /\ \E k \in Jobs : st[k] \in {"queued", "running"}
              /\ st' = [st EXCEPT ![j] = "freed"] /\ Forget(j, {})
  /\ UNCHANGED <<stopable, fromwdata, num_transfers_in_progress, torn>>

User == \/ \E w \in Wins : Browse(w) \/ Disconnect(w)
        \/ \E w \in Wins, h \in RemoteHosts : Connect(w, h)
        \/ \E w \in Wins, j \in Jobs : TransferFiles(w, j)
        \/ \E j \in Jobs : StartTransfer(j) \/ StopQueued(j)
Tick == \E j \in Jobs : TickStarts(j) \/ TransferDone(j)
JobThreads == \E j \in Jobs : \/ JobEnds(j)
                              \/ \E side \in Sides : JobDrops(j, side) \/ \E s \in Socks : JobConnects(j, side, s)
WindowThreads == \E w \in Wins : ListThread(w) \/ ConnectThread(w) \/ CollectThread(w)
LoopReturns == OpReturns \/ ReapReturns \/ ConnectReturns \/ CollectReturns

Next == User \/ Tick \/ JobThreads \/ WindowThreads \/ LoopReturns
Spec == Init /\ [][Next]_vars

\* Ticks come every half second; the thread of every transfer ends (StartedJobEnds of
\* TransferJob), and so do the threads of windows, which give up on a timeout.  A
\* nested main loop looks at its flag whenever the loop inside it has ended, however
\* often the user starts another: strong fairness.
FairSpec ==
  /\ Spec
  /\ WF_vars(Tick)
  /\ SF_vars(OpReturns) /\ SF_vars(ReapReturns) /\ SF_vars(ConnectReturns) /\ SF_vars(CollectReturns)
  /\ \A j \in Jobs : WF_vars(JobEnds(j))
  /\ \A w \in Wins : WF_vars(ListThread(w) \/ ConnectThread(w) \/ CollectThread(w))

-----------------------------------------------------------------------------
(* Correctness. *)

Held(s) == \E r \in Requests : datafd[r] = s
InUse(s) == \E r \in Requests : datafd[r] = s /\ host[r] # NoHost
Active == {j \in Jobs : st[j] \in {"running", "done", "reaping"}}

\* However connections move between windows and transfers, no descriptor is in two
\* requests at once: two threads never talk on one connection, and none is closed
\* under another request.
Exclusive == \A r1, r2 \in Requests : datafd[r1] = datafd[r2] /\ r1 # r2 => datafd[r1] = NoSock

\* A request that has a descriptor has an open one.
HeldIsOpen == \A r \in Requests : datafd[r] # NoSock => peer[datafd[r]] # NoHost

\* num_transfers_in_progress, which alone keeps one_transfer, counts the transfers
\* that have started and are not yet freed, through failed starts, nested loops and
\* transfers that end in any order.
CountIsExact == num_transfers_in_progress = Cardinality(Active)

\* update_downloads(), transfer_done() and the menus, with all their nested loops,
\* implement the transfer queue (Start Transfer, which ignores one_transfer, aside).
Queue == INSTANCE TransferQueue WITH
           waiting <- {j \in Jobs : st[j] = "queued"},
           active <- Active,
           gone <- {j \in Jobs : st[j] = "freed"}
ImplementsQueue == Queue!Spec

\* Except in transfer_window_files(), the descriptor of a request that has a host is
\* never dropped: from one step to the next it stays in some request or is closed.
NoConnectionDropped ==
  [][~CollectReturns => \A s \in Socks : InUse(s) => Held(s)' \/ peer'[s] = NoHost]_vars

\* Only transfer_window_files() can pair a request with a connection to another host:
\* no other hand-over does, whatever the windows were connected to meanwhile.
Matched == \A r \in Requests : datafd[r] # NoSock => peer[datafd[r]] = host[r]
HostKept == [][~CollectReturns /\ Matched => Matched']_vars

\* Every transfer that is queued is started, ends and is freed.
QueueDrains == \A j \in Jobs : st[j] = "queued" ~> st[j] = "freed"

\* The inductive invariant behind Exclusive, HeldIsOpen and CountIsExact: the file
\* system has no connection, nor has a transfer that is not collected or started; the
\* frames of nested loops belong to the transfers whose state says so, one frame
\* each; and what a transfer is collecting from is not the file system.
LocalHasNone == \A r \in Requests : host[r] = Local => datafd[r] = NoSock
FrameState(kind) == IF kind = "reap" THEN "reaping" ELSE "collecting"
FramesMatch ==
  \A i \in DOMAIN stack : stack[i].kind \in {"reap", "collect"} =>
    /\ st[stack[i].j] = FrameState(stack[i].kind)
    /\ stack[i].kind = "collect" => stack[i].w = fromwdata[stack[i].j]
    /\ \A k \in DOMAIN stack : stack[k].kind \in {"reap", "collect"} /\ stack[k].j = stack[i].j => k = i
IdleHasNone ==
  \A j \in Jobs, side \in Sides : st[j] \in {"none", "queued", "freed"} => datafd[<<j, side>>] = NoSock
CollectsRemote ==
  \A j \in Jobs, side \in Sides :
    st[j] = "collecting" /\ host[Window(j, side)] = Local => host[<<j, side>>] = Local
ConnInv == Exclusive /\ HeldIsOpen /\ LocalHasNone /\ FramesMatch /\ CountIsExact /\ IdleHasNone /\ CollectsRemote

-----------------------------------------------------------------------------
(* What the user's guide says of transfers, and the code does not do. *)

\* Connecting a window to another site while files are queued does not concern the
\* transfers: a transfer's connection goes to the transfer's host.
TransferTalksToItsHost ==
  \A r \in JobReqs : datafd[r] # NoSock => peer[datafd[r]] = host[r]
=============================================================================
