# gFTP in TLA+

TLA+ models of gFTP (the GTK file transfer client in this repository), the TLC
configurations that check them, and TLAPS proofs about them. Paths below are
relative to the repository (`src/gtk/transfer.c` is `src/src/gtk/transfer.c` in
`PROJECT.json`, whose paths start one level higher).

Checking: `tlc -config JobRace.cfg MCTransferJob.tla` (each run of
`PROJECT.json` names its module and cfg) and `tlapm ConnectionsProofs.tla`.

## The system

gFTP has two windows. Each shows the file system or a remote site. Files
selected in one window are queued as a *transfer* to the other. There is one
GTK main thread, one thread per running transfer, and one thread per window
operation, for which the main thread waits in a *nested main loop* that goes on
handling every event.

| Part | State it keeps | Operations | Talks to |
| --- | --- | --- | --- |
| Transfer job (`gftp_transfer`; `src/gtk/gftp-gtk.c` 1578-1862, `transfer.c`, `gtkui.c`, `lib/protocols.c` 1421-1607) | list of files, `curfle`, `updfle`, nine flags, retries | worker: open, move blocks, next file, reconnect; tick: show, post-process, start, free; menu: start, stop, skip, remove, move, append | both requests of the transfer, the windows it refreshes |
| Transfer queue (`update_downloads`, `num_transfers_in_progress`) | the list of transfers, how many run | submit, start, withdraw, finish | jobs, windows |
| Windows and requests (`gftp_window_data`, `gftp_request`) | host, descriptor, `cached`, `stopable` | connect, disconnect, browse, lend and take back a connection | transfers, window threads |
| Window operations (`gftpui_generic_thread`) | the thread, `cancel`, retries | mkdir, rename, chdir, list, delete, chmod | requests, cache |
| View and edit (`gtk/view_dialog.c`, `do_check_done_process`) | `viewedit_processes`, child processes, temporary copies | download, fork, SIGCHLD, `waitpid`, compare, ask, upload, remove | transfer queue, both windows |
| Cache (`lib/cache.c`) | index file, its temporary successor, listing files | find, new entry, delete, expire, clear | every listing |
| FTP, SSH2, HTTP, FSP, local clients | one protocol state machine per request | connect, list, get, put, ... | sockets |
| Sockets (`sockutils.c`, `socket-connect*.c`, `sslcommon.c`) | line buffers, descriptors | get line, read, write with timeout and cancel | the clients |
| Listing parser, URL parser, charset conversion | none to speak of | string algorithms | the clients |
| Options and bookmarks | option table, bookmark tree | read, write, edit | every part |
| Dialogs, menus, drag and drop | widgets | translate clicks into the operations above | windows, queue |

Interactions that matter: the worker and the main thread share `gftp_transfer`,
partly under `structmutex`, partly without; a connection (a descriptor) moves
between a window's request and a transfer's by `gftp_swap_socks()`; the tick
`update_downloads()` (every 500 ms) and every menu callback can run inside a
nested main loop, in the middle of another operation of the main thread.

Hard behaviour: data races on a byte of bit-fields; a list that is reordered and
extended while two positions move through it; freeing a job another thread
uses; one connection with two owners; retries that race with a stop or a skip;
nested main loops that end only in reverse order of their start.

What makes each part correct: a job is freed only after its thread; every file
of a job is reached once, in the list's order at that moment, and accounted
for; a skip sticks; a stop takes effect; a job ends. A connection has one owner,
is not dropped without being closed and is not given to a request for another
host; the queue starts, ends and frees every transfer, one at a time when asked
to. A window operation ends; its retry never repeats what was done. The cache
never serves what was deleted or changed; the clients keep the order of
commands and replies; parsers keep within their
input. What was edited is not lost, and an edited file goes back where it came
from. What a client delivers is the file, in order, or an error.

## Modules

| Module | What it is |
| --- | --- |
| `TransferJob` | one transfer, its worker thread and the main thread |
| `MCTransferJob` | queues of two and three files for TLC |
| `TransferJobProofs` | TLAPS proofs about `TransferJob` |
| `TransferQueue` | the abstract queue: waiting, active, gone |
| `Connections` | windows, transfers, connections, nested main loops |
| `MCConnections` | two windows, two transfers, three descriptors for TLC |
| `ConnectionsProofs` | TLAPS proofs about `Connections`, and that it implements `TransferQueue` |
| `FtpControl` | the control connection of one FTP session, and a server |
| `MCFtpControl` | every operation of one session for TLC |
| `FtpControlProofs` | TLAPS proofs about `FtpControl` |
| `Fsp` | one FSP session over datagrams, and a server |
| `FspProofs` | TLAPS proofs about `Fsp`, and about the three clients of `MCClients` together |
| `Sftp` | one SFTP session over a child `ssh`, and a server |
| `SftpProofs` | TLAPS proofs about `Sftp`; it begins with the lemmas on consecutive pieces of a file that `FspProofs` uses too |
| `Http` | one HTTP session: headers, bodies, chunks, keep-alive, and a server |
| `HttpProofs` | TLAPS proofs about `Http` |
| `MCClients` | a session of one of the three for TLC |
| `Browse` | the operations of the two windows, and the cache of listings they share |
| `MCBrowse` | two windows and two operations for TLC |
| `BrowseProofs` | TLAPS proofs about `Browse` |
| `ViewEdit` | copies of files that are viewed and edited, their programs and their upload |
| `MCViewEdit` | two files at once, beside an `ssh`, for TLC |
| `ViewEditProofs` | TLAPS proofs about `ViewEdit` |

### TransferJob

State: `td` is the byte of flags `cancel, ready, started, done, show, next_file`
of `gftp_transfer` (`lib/gftp.h` 511-519; `stalled` shares the byte, has no
reader that matters here, but its write is a write of the byte), `skip_file` the
ninth flag in a byte of its own, `files` the `GList`, `curfle` and `updfle` the
positions in it, `action`, `transfer_done`, `retry_transfer` and `got` (blocks at
the destination) of each file, `retries` is `current_file_retries`. The worker's
locals are `wf` (`curfle` as it read it), `ret`, `moved` (`num_trans > 0`) and the
program counter `pc`; `mainpc` says whether the main thread is in a nested main
loop, with `structmutex` held (`refresh`) or without (`reap`), or is hung or has
crashed. `hist` is history that properties refer to.

One action per piece of the worker between two places where the main thread can
interfere: a critical section of `structmutex` is one action, enabled unless the
main thread holds the mutex. The flag byte is written by the worker outside the
mutex in `gftp_calc_kbs` (`stalled`), `gftpui_common_transfer_files` (`cancel`,
`done`). With `Racy` such a write is a load (`wcopy`) and a later store
(`WorkerStore`) of the whole byte; a main-thread write in between is either
overwritten or the last, as `SetFlags` says. The tick's actions are the branches
of `update_downloads` for this job; the menu's actions are the callbacks of the
Transfers menu with the flags, the tests and the order of the code. The
Overwrite/Resume/Skip dialog and the creation of the job (with appending to it)
are `AskTransfer`, `SetAction`, `Init`, `AppendFile`.

Abstractions: a file is `NBlocks` blocks; errors are the protocol layer's codes
(retryable, fatal, timeout), chosen by the network at every call that can
return them; `one_transfer` is a nondeterministic `slot` here and modelled in
`Connections`; view and edit post-processing is the set `hist.processed`.

### Connections and TransferQueue

State: `host`, `datafd` and `cached` of every `gftp_request` (two windows, two
per transfer), `peer` (what a descriptor is connected to), `stopable` of each
window, `st` and `fromwdata` of each transfer, `num_transfers_in_progress`, and
`stack`, the nested main loops. A frame of `stack` remembers the operation that
waits: only the innermost frame can return, when its window's `stopable` is 0.
`torn` stops the model when a request was destroyed under its thread.

`Browse`, `Connect`, `Disconnect`, `TransferFiles`, `StopQueued`, `StartTransfer`
are the user's; `TickStarts` and `TransferDone` the tick's; `JobConnects`,
`JobDrops`, `JobEnds` a transfer's thread; `ListThread`, `ConnectThread`,
`CollectThread` a window's thread; `OpReturns`, `ReapReturns`, `ConnectReturns`,
`CollectReturns` the code after a nested loop. `SwapFds`, `SwapCached`,
`GivesBack`, `Lends`, `CompareRequest`, `CloseAll`, `Destroy` are the helpers of
the same names or macros (`gftp_swap_socks`, `GFTP_IS_SAME_HOST_*`,
`compare_request`, `gftp_disconnect`, `gftp_request_destroy`).

`TransferQueue` says what all this amounts to: a transfer is submitted or
rejected, waits, is started (not while another is active, with `one_transfer`),
is finished or withdrawn, once. `Connections!ImplementsQueue` is its `Spec` under
the mapping of `st`.

Abstractions: remote sites are FTP sites (all of one protocol number, which is
also that of a zeroed request, so `gftp_swap_socks` compares equal); transfers
are chosen from a finite set and not reused; the worker is reduced to connecting,
dropping and ending, as `TransferJob` shows it does.

A nested loop's `g_main_context_iteration(NULL, TRUE)` is woken by the next
event, whose handler runs before the loop's `while (stopable)` test. A step of
another handler between the end of a thread and the return of its loop is
therefore normal and not an artefact.

### FtpControl

The client waits for a reply in `rfc959_read_response()`, called by
`rfc959_send_command()`, called from anywhere in `lib/rfc959.c`. A reply 42x makes
`rfc959_send_command()` call `gftp_connect()` and send the command again, which
happens inside a login too. `calls` is this stack of C calls: each frame has the
command it waits for, `again` (`dont_try_to_reconnect`) and `pre`
(`rfc959_put_file()` sets the data connection up before
`rfc959_setup_file_transfer()` does). A reply is turned by `Got` into outcomes: the
request as it becomes, the frames that remain, the command sent, the value
returned; `Apply` makes an outcome the next state. So one action, `Read`, is a
whole piece of the client from one reply to the next time it waits; `ReadEof` and
`ReadFails` are the same for the end of file and for a timeout or a reset. The
`Call...` actions are the entry points of the request's function table, made by
callers in any order. `inbox` is `datafd_rbuf`, which `rfc959_disconnect()` does not
empty.

The server is external and is modelled from RFC 959 as far as the client depends on
it: commands in order, one reply each; a command may be refused, answered 421 and
the session closed, or accepted with its effect; a transfer ends with a second
reply; ABOR in a transfer has two. A reply carries the command it answers (`cmd`)
and whether no later command has been sent (`mine`): the client never looks at
`mine`, and at `cmd` only where the text of the reply tells it (a quoted name for
PWD, an address for PASV). `skew` is history: since the last complete login, ABOR was sent
in a transfer, or the end of file was taken for a reply.

Abstractions: file names, reply texts beyond the class, multi-line replies and the
bytes of the data connection; all commands with the shape of MKD are `CMD`; CDUP is
CWD; EPSV and EPRT of the IPv6 variant have the shape of PASV and PORT; a server
connects at once to an offered port. Not modelled: site to site transfers, a proxy's
login, AUTH TLS.

### Fsp

One transaction at a time: `fspCall` is `fsp_transaction()` at work, its `for` the
caller that gets the outcome (`FspReturn`: the piece of `fsplib.c` and `fsp.c` from
one transaction to the next). `fspNet` is a set of datagrams: a request or a reply is
lost by not being received, repeated by being received twice, and late when it
survives its transaction. `FspResend` is the repetition after a timeout, at most
`FspSends` times in place of `s->timeout`. `fspFile` is the `FSP_FILE` with the
packet it buffers, `fspServer` the server's temporary file and the file INSTALL
makes of it. Keys are relative to the one the server expects; `fsp_lock.c` keeps the
last one for the next program on this host, which here is the next session.

### Sftp

`sftpReq` is the request with `sshv2_params`: login state, `handle`, `transfer_buffer`
(`buf`: the handle inside the READ or WRITE made once for a transfer), `offset`.
`sftpTty` is the terminal `ssh` asks its questions on, `sftpOut` and `sftpIn` the socket.
The client numbers its requests but never compares the number of an answer; `to` of
a message, which the client does not look at, says what request it answers. One
action per message that `sshv2_read_response()` returns, with all the client does
until it waits again; `SftpBroken` is the other
end of that wait, `SftpSpin` the loop that has none.

### Http

Tokens stand for lines, chunk headers, ends of line and units of data; one `read()`
(`HttpRead`) returns any number of those that have arrived, so each may be the last one
of a read, which is what the code is sensitive to. `rbuf` is the line buffer of
`gftp_get_line()`, `extra` what `rfc2068_chunked_read()` keeps for its next call, `depth`
and `leak` its `read_ref_cnt`. `HttpLoop` is one pass of the function's loop over the chunk
headers: `ptr.done` is what it has moved down to `ptr`, `ptr.rest` what is at `stpos` and after.
A response is composed by `HttpServe`, a chunk of any size at a time (`todo` is what is still
to be put into chunks); a read waits until that is over and then takes as much as it likes, so
that no order of reads and arrivals is lost.

The servers of the three modules are external, as that of `FtpControl` is: they do
what the protocol allows, including refusing, cutting short and going away.

### Browse

A frame of `stack` is one call of `gftpui_generic_thread()`: `th` is where its thread
stands (login, the change, the purge of the cache, `chdir`, find, list, fill, read),
`main` where the main thread stands in the code after the loop. The thread of every
frame runs; the main thread only in the top frame, and only when that window's
`stopable` is 0. Between two places of `th` the other window's thread, the user and
the tick can come in. `User` has the operations that `check_status()` lets through
and the Stop button; `Attempted` is what `_gftpui_common_thread_callback()` makes of a
failure, a retry or an end; `Main` the code after the loop (`Resume`, `Drops`, `Relist`).

The cache is the four files the code has: `index` (lines in order; `glue` when a purge
took the newline of the last one), `newdb` (`index.db.new`, opened by two purges at once
without `O_EXCL`), the listing files, and the age of lines. A listing is a version of its
directory, `server` counts the versions, and a listing file can be empty, partly
written, cut short or whole. `told` is history: the version at the last purge. `crossed` is
history too: an operation of the window was started inside another one of it, so that their
listings may arrive in either order, until its request is blank again. It is not reset by the next listing: the
proof showed that a refresh which belongs to an outer operation may still purge the directory
that window was in before, after a later listing has been shown. `BrowseAssumption` says that
directories are finite and that their names tell them apart.

### ViewEdit

`task` is one View, Edit or View Log. Its copy, its process and its transfer carry the
name of the task. `main` is where the tick stands: `TickBegins` clears
`child_process_done`, `check_done_process` waits for one process per step with
`waitpid(-1)`, which also returns each `ssh` of a connection (`OtherPids`, `lib/pty.c`);
`Answer` is the dialog "Would you like to upload it?"; `on_next_transfer` opens a copy
that arrived or removes the one that was uploaded. `StatAfterFork` is separate from the
fork because the program may have saved in between. `hung` is the loop of
`transfer.c:433`, `crashed` the NULL of a failed fork. `copy.changed` is the test of the
modification time. `hist` says why an edit may be lost (`excused`) or go elsewhere.

Abstractions: the transfer of a copy is one step with any result (`TransferJob` has it
whole); an editor's content is edited or not.

## Runs

Deadlock is checked in `FtpSession` and `Clients`. It is not checked
(`CHECK_DEADLOCK FALSE`) in the others: a job ends and a user may stop doing anything,
so a state without successors is a legal end.

| Run | Question | Instance |
| --- | --- | --- |
| `JobRace` | is the job ever freed under its worker, whatever stores are lost? does a skip stick? | two files, one of them existing at the destination, `Racy`, stop, skip, remove and move |
| `JobLists` | is every file reached once and post-processed only when done? does a job that ends leave a file behind? | two files (one a directory), a third appended late; start, moves of a running job, refreshes in a nested loop, the password prompt |
| `JobEnds` | does every started job end and get freed; does a stop stop the bytes? | two files of two blocks, fairness, one retry, an edited file's timeouts |
| `ConnQueue` | does the code implement the queue; are connections shared, dropped or given to the wrong host? | local to remote, two transfers, two sites, three descriptors, two nested loops |
| `ConnSites` | the same with a site in both windows, Start Transfer, and Disconnect in mid-operation | one transfer, two sites |
| `ConnDrains` | is every queued transfer started and freed? | two transfers, one site, fairness, no symmetry |
| `FtpSession` | do replies stay in step with commands, whatever the server does and whenever it goes away? does every operation return? | every operation in any order, three nested calls, at most one unread reply |
| `Clients` | is what is delivered the file in order, and success the truth? do answers go to their requests? does every call return? | one session of each client, files of two or three units, at most two sends of a packet |
| `Browse` | does the cache give out what was purged, or half a listing? does a window show its own work? is there one thread per request, and does every operation return? | two operations nested in two windows, two directories, one retry, one change of a directory, one expiry or Clear Cache |
| `ViewEdit` | can an edit be lost, or go to the wrong directory? is every child waited for? | two tasks, one `ssh`, one change of directory, with and without programs set |
| `JobStopStart` (violation) | the first question with Stop Transfer and Start Transfer | |
| `ConnWrongSite` (violation) | does a transfer's connection go to its host? | |

Properties:

- `NoUseAfterFree`: `free_tdata()` only after the worker's last access.
- `WalkIsExact`: the files before `curfle` are exactly those the worker is done with.
- `PostProcessedAfterTransfer`: `updfle` never passes an unfinished file, nor the end.
- `EveryFileAccounted`: a job that ends by itself leaves nothing undone or unreported.
- `SkipSticks`: no retry path writes RESUME over SKIP.
- `StopStopsBytes`: at most one more block after a stop.
- `StartedJobEnds`, `QueueDrains`: liveness.
- `Exclusive`, `HeldIsOpen`, `NoConnectionDropped`, `HostKept`: who holds a connection.
- `CountIsExact`, `ImplementsQueue`: the queue and its counter.
- `InStep`: an operation that is over leaves no reply unread, but a 421 of the server's own.
- `SuccessIsAnswered`: an operation that returns success read the reply to its last command.
- `LoggedIn`: between operations a connected request is logged in, whatever the old
  session left in the buffer and however often the server was busy in the login.
- `OffsetHonoured`: a session replaced between REST and RETR or STOR never starts
  the transfer at the wrong place (the new session refuses RETR without PASV).
- `OperationReturns`: liveness.
- `FspBytesIntact`, `SftpIntact`, `HttpInOrder`: what is delivered or stored is a piece of the
  source, in order and without holes, whatever is lost, repeated, late or cut.
- `FspOkIsDone`: an operation that succeeds was obeyed for this transaction, not for an
  earlier one whose reply is late or repeated.
- `FspAbortKeeps`: an upload aborted after its first block leaves the file on the server alone.
- `SftpInStep`, `SftpRightHandle`: one answer is read for each request and is its own,
  and what is read or written is the handle open for this transfer.
- `ClientsReturn`: liveness.
- `CacheIsFresh`: what is found in the cache is not older than the last purge of it, also when
  two purges and a look-up overlap.
- `HalfIsTemporary`: half a listing is in the cache only while it is being written.
- `ShowsOwnWork`: a window at rest shows its directory with its own changes.
- `OneThreadPerRequest`, `OperationsEnd`: the nested loops and their threads.
- `EditKept`: what an editor saved is on disk or on a server until it is given up.
- `UploadGoesBack`: an upload goes to the directory the file came from.
- `ChildrenReaped`: merged SIGCHLDs lose no process (liveness).

Where the code does not keep one of these in some state, the property names that state as a
condition (`clean`, `stale`, `crossed`, `over`, `excused`, `elsewhere`, `Lost`, ...), and
"What the code does not keep" tells it.

Bounds. `NBlocks` is 1 or 2: the second block is what lets a stop come after
one block and before another. `Retries = 1` gives a first failure, a retry and
giving up; `CapRetries` bounds the counter for `Retries = 0` only. Two files make
a "next file", a third a neighbour for a move and a late append. Two transfers,
because `one_transfer` and the hand-over of one window's connection are about a
second one; two sites, because a window can be elsewhere when its connection
comes back; three descriptors, one more than two owners of one site can use;
`MaxDepth = 2` nests one window's operation in the other's, and a window has at
most one thread. Descriptors are interchangeable, hence the symmetry in the
safety runs. `FtpControl!MaxDepth` bounds how often in a row the server is busy: 3 is
the operation, the login it needs, and the login that one needs, so that a login command
is sent again after a nested login. `MaxUnread = 1`: a reply left behind is enough to shift
the next; a caller goes on only while no more than that is left, which also bounds
the repeated ABORs. `Clients`: three bytes in packets of two make a full packet and a
short one, two sequence numbers a match and a mismatch, two sends a repetition; two SFTP
handles are the one in use and the one a stale buffer still names; three units of HTTP data
make up to three chunks of one unit, or a chunk of two before or after one. `Browse`: two operations, because a purge
races with one other purge or look-up; three cache files, one for each listing and one
more; the windows are alike, so the first operation is in `w1`. A third operation
shows two refreshes of one window returning in the wrong order, which `crossed` leaves out;
the proofs of `BrowseProofs` are for any number of them.
`ViewEdit`: two tasks and an `ssh`, because both the order of `viewedit_processes` and a
foreign process matter; one change of directory is enough to be elsewhere.

Fairness. `TransferJob!FairSpec`: the worker thread is scheduled, the tick comes
every 500 ms, a refresh ends, a modal dialog is answered. Nothing is assumed of
the network: any call may fail or time out each time it is made, and of the
user no menu entry is expected. `Connections!FairSpec`: the tick; the end of each
transfer's thread (this is `StartedJobEnds`); the end of each window's thread,
which has timeouts; and strong fairness for a nested loop's return, because the
user may start another operation on top of it, again and again, each of which
ends. `FtpControl!Spec`: a client that waits gets an answer or `network_timeout` (`Read`,
`ReadEof`, `ReadFails` as one action; which one, nothing says). Nothing is assumed of the
server, except in `OperationReturns` itself: that from some time on replies are not 42x and
the end of file is not taken for one. Without it the property is false, see below.
`MCClients!ClientsFairness`: the thread of a call runs, and each wait of FSP and HTTP and of
SFTP outside its login has a timeout; datagrams need not arrive. `Browse`: the threads
and the main thread run; of the user and the network nothing. `ViewEdit`: the tick comes and
the modal dialog is answered; editors need not end.

## Proofs

All proofs are for every value of the constants (any list of files, number of
transfers, sites, descriptors, nesting depth).

`TransferJobProofs`: `TypeCorrect` (`Spec => []TypeOK`, with the fact that the
worker is never on a NULL file), `JobInvariant` and `FreeIsSafe`, the last two under
the assumption `"start" \notin UserOps`, which `JobStopStart` shows is needed.
`NoUseAfterFree` alone is not inductive: a free happens when the tick sees `done`,
so the invariant has to say that `done` of a started job is only set by the
worker's last store (`DoneMeansExit`), that no store still pending carries a
`done` from earlier and that none is pending once `done` is visible
(`PendingStore`), and that `started` and the existence of the thread go together
(`StartedMeansThread`), so that a stop of a job that has not started, which sets
`done` too, meets no thread.

`ConnectionsProofs`: `TypeCorrect`, `ConnInvariant` and from it
`ConnectionsExclusive`, `ConnectionsOpen`, `CountExact`; `QueueImplemented` (under
`"start" \notin UserOps`: Start Transfer does not look at `one_transfer`). `Exclusive`
is not inductive either: it needs that the file system and transfers that have
not started hold no descriptor (`LocalHasNone`, `IdleHasNone`), so that a swap
overwrites nothing; that the frames on `stack` and the transfers agree, one frame
each (`FramesMatch`), so that a walk gives its connections back once; and that
what a transfer collects from is not the file system (`CollectsRemote`). The
refinement uses `CountIsExact` to turn the code's test of
`num_transfers_in_progress` into the queue's `active = {}`.

`JobInvariant` and `ConnInvariant` state the strengthened invariants; TLC found both to hold on
the instances of `JobRace` and `ConnQueue` before they were proved, and the runs
check the properties that follow from them. `ConnectionsNotDropped` and `HostsKept` are the
action properties `NoConnectionDropped` and `HostKept`, from the same invariant, one lemma
for each action.

More of `TransferJobProofs`, each from an invariant of its own on top of `TypeOK`:

- `WalkExact` (no assumption). `WalkInvariant` adds where the thread and the walk's `curfle`
  stand to each other, and that a file is in the list once, so that a move keeps `curfle` on
  the file it was on.
- `ProcessedAfterTransfer`, for `UserOps` without "skip" and "move_queued": `updfle` is never
  after `curfle` (`UpdBehind`). Moving the first file of a job still queued leaves it behind
  that file, and Skip Current File crashes on a NULL `curfle`, see below.
- `SkipStays` (no assumption), the action property `SkipSticks`: what `skip_file` and
  `retry_transfer` have to say at each place of the thread (`SkipInv`).
- `StopStops`, for builds in which the stores into the byte of flags are not torn (`~Racy`)
  and without "skip" and "remove": with them `cancel` can be lost, which `JobRace` shows.
- `FilesAccounted`, without "skip" and "remove": every file of a job that was not stopped is
  done, failed or skipped when the thread returns (`AccountInv`).

`ViewEditProofs`: `ViewEditInvariant`, `EditsKept` and `UploadsGoBack`, for any number of
tasks, programs, places and moves, without an assumption beyond that of the module. `EditKept` is
not inductive: a copy is removed in five places, and each is safe for a reason that lies
elsewhere. The viewer that ends must be the viewer of a copy nobody edits (`Procs`: what is known
of a process, which only grows, so that it can be said of the whole list); an upload
that is over must have left its text on a server or have failed (`UploadOk`); and
nothing may have been edited before the transfer that brings the copy is passed, which needs
that no task has two of them (`DownloadOk`, `TransferInv`). `UploadGoesBack` needs what
`Procs` says of `torequest`, from the fork to the answer. TLC found `ViewEditInv` to hold on
the instance of `ViewEdit.cfg` before it was proved.

`BrowseProofs`: `BrowseInvariant` and from it `BrowseTypes`, `OneThread`, `HalfListingsGo`,
`OwnWorkShown` and the action property `CacheStaysFresh`, for any number of directories,
cache files, retries and nested operations. None of them is inductive. `BrowseInv` says that
the operations of a window lie on the stack with at most the last one's thread alive, and what
`stopable` has to do with it (`StackInv`); that every listing that is not whole has a thread
which is still at work on it (`HalfInv`) and that no two threads fill one file (`WriterInv`), so
that a purge of one window cannot turn the other one's work into a half listing; that a line
of the index is as new as the last purge of its directory (`FreshInv`), which
has to survive two purges that share `index.db.new`; and, place by place of the thread and of
the code after the loop, what still has to happen before a window shows its user's work
(`OwnInv`).

`FtpControlProofs`: `FtpTypes` without an assumption; `SessionInvariant` and from it
`SessionsLoggedIn`, `SessionsInStep`, `TransfersStartRight` and the action property
`SuccessesAnswered` for behaviours in which no transfer is aborted in the middle
(`[]NoAbort`). `LoggedIn` looks at a session at rest, so `SessionInv` follows it through a
call: it is down, or its connection is dead, or it logs in, or it is in an operation that
knows which command's answers are in the buffer, or it rests. The hard part is a login whose
answers are one behind (`Behind`), because of a line that an earlier connection left in the
buffer: it does not get past PWD, whose answer has to be one to PWD; and one that will meet an
earlier connection's farewell (`Doomed`) fails there. The hypothesis is needed: an abort leaves as
many lines in the buffer as the server sent, and enough of them, the last an answer to
PWD, would answer a whole login. `FtpSession` checks the four properties with aborts too, within
`MaxUnread`.

`SftpProofs`: `SftpInvariant` and from it `SftpTypes`, `SftpAnswersInStep`, `SftpHandlesRight`
and `SftpBytesIntact`, for any number of handles, any size of the file and of the packets, without
an assumption beyond those of the module. No property is inductive. `SftpInv` has five
parts. `CallInv` and `WireInv`: a call that waits has exactly one request, or the answer to it, on
its way, and what waits is what the request was for; a session that is left takes both with it, so
that the missing comparison of numbers does no harm. `HandleInv`: from the answer to OPEN or OPENDIR
to the CLOSE the handle is the server's, open for this operation. `BufferInv`: `transfer_buffer`,
which outlives a session, is the current transfer's unless it is `stale`. `DataInv`: the file, the
download, the names and the data on their way are each a piece of the source between two places that
`offset`, `from`, `start` and the server's own position agree on (`Part`, with lemmas
for how pieces are cut and joined at the start of the module); a WRITE whose answer is lost has its bytes in the file and
its offset behind, which only the loss of the session allows. The steps go through outcomes: one
lemma says what an outcome must keep (`OutcomeOk`), one for each function of the client that its
outcomes do, one for each request what the server does with it. TLC found `SftpInv` to hold for
files of one and two blocks before it was proved.

`FspProofs`: `FspInvariant` and from it `FspTypes`, `FspCommandsDone`, `FspIntact` and
`FspAbortsKeep`, for any length of the file, sizes of packets and of the worker's chunks, number of
packets sent before the timeout, and any order, loss and repetition of datagrams. Two assumptions
come from the module: the sequence numbers are pairs (`FspSeqAssumption`: what `random() & 0xfff8`
gives and `^= 0x1080` pairs off, numbered from 0), and a datagram does not outlive the transaction
after its own (`FspStillOut`); with an older one the numbers could meet again. No property is
inductive. `FspInv` has three groups of parts. Of the client (`ClientInv`):
`GetInv`, `PutInv` and `ListInv` say that what was delivered, what is copied and what is in the
packet are adjacent pieces of the source. Of the datagrams (`NetInv`): there is one request at work
and at most one late one, a reply that is not late was given with the key the server expects next, so every request
still out has an older key (`RepliesInv`), and of two requests that change the file the late one is
either the same block, or a block that ends where the next begins and is refused once the next has
been taken (`Follows`). That relation is what makes a block that arrives late or twice harmless, and
what an INSTALL needs: no block comes in behind it. Of the server (`ServerInv`): the temporary file is the first bytes of the source, up to the block at work
or past it (`BlockInv`), it is whole before the last INSTALL and gone after it (`InstallInv`),
and between two transactions of an upload no late request is taken (`MoveInv`). The proof has one lemma
for each outcome of a transaction (`OutOk` says what an outcome must find), one for each operation of
the caller, and for `FspServe` one for each part of the invariant, from what the server does with a
request (`Effect`) and how keys age (`WasFor`). TLC found `FspInv` to hold on eight choices of the
constants, the largest of 1.1 million states, before it was proved. `FspAbortsKeep` then needs
only that no INSTALL is on its way while the INSTALL of nothing is (`LateIs`).

`HttpProofs`: `HttpTypes` and `HttpKeepsOrder`, for a file of any length, chunks of any sizes, any
rest of an earlier response and reads that end at any token, without an assumption beyond that of
the module. `HttpInOrder` speaks of what was delivered; to keep it the proof must know what comes
next, wherever it is. `HttpPlaced` says so for each place of a call. In the headers
(`HttpInHeaders`): how many lines are left in the line buffer and the connection together, and what
follows them; or, where `chunked_transfer` is still set from the last response, that the first read
finds no chunk header in what it got and ends the session (`HttpStaleHeaders`). At the first size
(`HttpInSize`): a chunk, and the next behind it. In the body (`HttpInBody`): what was delivered and
what is in the line buffer are consecutive units; the rest of the chunk, then the next chunk header,
lies in `extra` and the connection (`HttpBetween`), or is split between the part of the buffer the
loop has passed, the part it has not, and the connection (`HttpInLoop`); or the last chunk was seen
(`HttpEnded`). "The next chunk" is said of every chunk size in a sequence at once (`HttpLaid`),
because the sizes are the server's, and a sequence keeps the property when its front is read or its
end cut off. Each of `HttpLine`, `HttpFromBuffer`, `HttpRead` and `HttpLoop` has a
lemma for each case of what it finds; `HttpServe` has one for a chunk and one for the last. `HttpTyped`
bounds the depth of `rfc2068_chunked_read()`, which calls itself. TLC found the invariant to hold for
files of one, two and three units (54,760 states) before it was proved. The first form of the model took a whole call of
the loop as one recursive operator, about which nothing can be proved; a pass is now a step.

The last section of `FspProofs` is about `MCClients`, where a request is with one of the three
clients: `ClientsInvariant`, `ClientsTypes`, `ClientsIntact` (the six safety properties of the run
`Clients`) and `ClientsAbortsKeep`. A step of the composition is a step of one session that leaves
the other two alone (`ClientsStep`); the rest is what was proved of each.

Only model-checked: `FtpControl` after an abort, `ChildrenReaped`, `EveryFileAccounted` and the
others of `TransferJob` outside the assumptions above, and all liveness, which is beyond the prover.

## What the code does not keep

Two disagreements have a run. `JobStopStart`: Stop Transfer on a queued job
sets `done`, Start Transfer looks only at `started`, and the tick frees the job
under its new thread. `ConnWrongSite`: the connection of a
directory walk is swapped into a window that shows another site by then.

Others follow from the models as they stand, and a reader can reproduce each by
writing the property down:

- `lib/protocols.c:1519`: a skip sets `cancel`; an error that arrives while it is set makes
  `gftp_get_transfer_status` return a fatal error, and the job ends with the rest of its
  files untouched (`EveryFileAccounted` with `skip` in `UserOps`).
- `lib/rfc959.c:1373`: `rfc959_abort_transfer` reads one of the two replies of an ABOR in a
  transfer; the other answers the next command, and a PASV answered so disconnects, though
  `ChangeLog:2513` says "When a transfer is aborted, you will not be disconnected from the
  remote site".
- `transfer.c:499`: files moved while the job is queued leave `updfle` behind the
  new head of the list, which is post-processed before it is transferred, or
  makes the walk run off the list.
- `gftp-gtk.c:1851, 1858` and `lib/protocols.c:1470`: writes of the flag byte
  outside `structmutex` can undo a Stop Transfer or be undone by one; a lost
  `done` leaves the job on the queue for ever.
- `gftp-gtk.c:1851`: `skip_file` survives the skip, and the next file that loses
  its connection is passed over.
- `transfer.c:970`: `transfer_action & GFTP_TRANS_ACTION_SKIP` is a bit test, so a
  file set to Overwrite or Resume cannot be skipped.
- `gftp-gtk.c:1697`: a stop before the first block reports the file as transferred.
- `transfer.c:511`, `show_transfer`: a menu entry, or a cancelled password prompt,
  while the tick holds `structmutex` locks it a second time.
- `gtkui.c:424`: a file can join a job that was stopped.
- `lib/protocols.c:1545`: the reconnect loop does not look at `cancel`; with
  `retries = 0` a stop during an outage has no effect.
- `transfer.c:940`: Start Transfer does not look at `one_transfer`.
- `misc-gtk.c:488`: browsing a window whose connection is lent disconnects it.
- `transfer.c:239`: a window disconnected during a walk gets the connection back
  and nothing ever closes it.
- `gftp-gtk.c:128`: Disconnect does not look at `stopable` (`torn`).
- `lib/rfc959.c:1373`: after an ABOR whose second reply is unread, the next MKD, DELE
  or RNFR takes a 226 for its own reply: it reports success when it was refused.
- `lib/rfc959.c:133`: the end of file is not an error; the buffer on the stack,
  unset or an earlier line, becomes the reply.
- `lib/protocols.c:247`: `goto get_file` after each 42x is not counted. A server that
  always answers 42x to RETR is reconnected to for ever, whatever `retries`
  (`lib/options.h:130`) says.
- `lib/rfc959.c:1148`: TYPE's answer is not looked at, and a reconnect inside it resets
  `is_ascii_transfer` after it was set, then sends TYPE: flag and server disagree.
- `lib/protocols.c:1406`: a connection is swapped without its `is_ascii_transfer`.
- `lib/rfc959.c:1070`: `accept()` is outside `network_timeout`: a server that answers 150 and
  never connects to the port stops the thread.
- `lib/rfc959.c:733`: the socket made for a refused PASV is never closed;
  `lib/rfc959.c:1414`: that of a refused LIST stays in `data_connection`, and the next
  transfer skips PASV because it is there.

Windows and cache:

- `gftp-gtk.c:1537`: nested loops return in reverse order, so of two refreshes of one window the
  older listing can be shown last, and a purge can hit the directory the window has moved to.
- `gftp-gtk.c:1366`: Stop sets `cancel` of the other window's request too, and only a disconnect
  clears it: the next operation there is not run, and its refresh disconnects the window. A
  Stop during a change that succeeds has the refresh after it cancelled.
- `lib/gftp.h:402`: `cancel` and `cached` share a byte, which the listing thread and Stop both
  write: a Stop can be lost.
- `lib/cache.c:376`: a purge cuts the last digit of the expiry and the newline off the lines that
  stay: they are not found any more, and the next entry is glued to the last one
  (`ChangeLog:3137` speaks of a fix "for restoring newlines").
- `lib/cache.c:336`: `index.db.new` is opened without `O_EXCL` and `O_TRUNC`, so two purges mix.
- `lib/protocols.c:476`: a listing cut short by the server or a full disk is cached as a whole one;
  that of a refused LIST keeps the directory out of the cache until a purge; a second window
  can read a listing that is being written.
- `retries = 0` ends the login loop of a window at once, where `lib/options.h:130` says "Set this
  to 0 to retry indefinitely".
- A delete that fails half way purges the cache but does not refresh the window.
- `gftp-gtk.c:694` and others: a double click, Disconnect and Refresh do not look at `stopable`. In a
  busy window they start a second thread, free the request under its thread, or write the
  bit next to `stopable` and bring it back to 1, after which the loop never ends.

View and edit:

- `transfer.c:497`: the copy of an edited file is removed after its upload, whatever became of it.
- `transfer.c:433`: `continue` without the next element: when the process that ended is not the first
  of `viewedit_processes`, or is an `ssh`, the main thread loops for ever.
- `view_dialog.c:273`: after a failed fork `newproc` is NULL and `&newproc->st` is written.
- `transfer.c:395`: files that were transferred belong to `window1` and `window2` whatever window
  they came from. A file edited from window1, or whose window moved on before the editor
  started, is uploaded to the wrong directory; the copy is read through window1's request, so
  if that one shows a site the upload fails. With sites in both windows the copy stays
  empty and is opened all the same. `ChangeLog:2491` promises the opposite.
- The test for a change compares seconds with a `stat()` made after the fork: a save before
  it, or in the same second, is not seen, and the copy is removed. The program of an
  extension has no `stat()` at all, so its file always counts as changed.
- A download that failed in the middle is opened as if it were whole; the copy of one that
  was given up or skipped stays in the temporary directory.

FSP, SFTP, HTTP:

- `lib/fsplib/fsplib.c`: `fsp_fread` returns 0 for an error as for the end of file, so a download
  that breaks off is reported as a success; after a failed `fsp_fwrite`, `fsp_fclose` writes
  the block again and installs the truncated file; so does a disconnect during an upload.
- A repeated MKD or INSTALL whose first reply was lost is answered by an error, though it
  was done. An abort before the second block installs the first.
- `fsplib.c:590, 745`: an empty first block of a directory is dereferenced; `fsp_readdir` tests
  an unset variable.
- `lib/sshv2.c:780, 846`: a read of 0 is read again, for ever, when `ssh` ends; `sshv2.c:411`: the
  login has no timeout.
- `sshv2.c:1885`: `transfer_buffer` outlives its transfer and its connection, with a handle of the old
  session in it. `count` outlives a disconnect, and a listing from the cache leaves it set.
- `sshv2.c:2013`: after a refused WRITE the length to return is unset; every status ends a
  listing as a success; the high word of a 64 bit number is shifted away.
- `lib/rfc2068.c`: headers that end with a `read()`, or a chunk header alone in one, make the next
  read return 0, which is the end of the file: an empty or short download, reported as a success.
  The end of the connection inside the headers loops for ever.
- `rfc2068.c:820`: `read_ref_cnt` is not taken back when the inner call fails, and never reset;
  `chunked_transfer` stays set after an error response; `rbuf` outlives a disconnect and is read
  as the status of the next response; bytes of the body that came with the headers are not
  counted, so keep-alive waits for the server to close.

## Plan

Done: `TransferJob`, `Connections`, `TransferQueue`, `FtpControl`, `Fsp`, `Sftp`, `Http`,
`Browse`, `ViewEdit`, with their runs; the safety properties of `TransferJob`, `Connections`,
`Browse`, `ViewEdit`, `Sftp`, `Fsp`, `Http` and, without aborts, `FtpControl` proved, and the
refinement of `TransferQueue`.

Next:

1. Proofs: what holds of `FtpControl` after an abort.
2. `FtpHandover`: two requests that pass one FTP connection on, with its data type and its line
   buffer (`lib/protocols.c:1406`). Site to site transfers, a proxy's login.
3. `TransferBytes`: `startsize`, `curtrans`, `curresumed`; a resumed destination is a prefix of
   the source.

## Not modelled

- Local file system protocol: system calls answered at once, one thread per request.
- Listing parsers and URL parsing: string scanning without state; what is hard there is byte
  offsets and the formats of servers, which a finite set of tokens does not show.
- SSL and character sets: calls into OpenSSL and iconv, whose state is theirs.
- Options and configuration files: read at the start and written at the end by one thread;
  the options that matter are constants of the models.
- Bookmarks: a tree edited by one dialog of the main thread; sequential.
- Dialogs, menus, drag and drop: widgets; what they change in windows and transfers is in
  `Browse`, `Connections` and `TransferJob`.
- Translations, documentation, packaging: no behaviour.
- Parts of modelled components: FTP site to site transfers, proxies and AUTH TLS; attributes and
  message layouts of SFTP; directory pages and proxies of HTTP; checksums and names of FSP;
  name lookup and the addresses tried in turn; byte positions of resumed files.
