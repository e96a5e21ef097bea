# Verification of the FSP server

FSPServer is a file-sharing server. Clients sign in over TCP, register the tree
of files they share, learn about the files of the others through notifications,
and download files that the server fetches from their owner and keeps in a local
copy. This directory holds TLA+ specifications of its core, the TLC instances
that check them and TLAPS proofs of the central properties.
Paths below are relative to `src/FSPServer/`.

## Inventory

| component | state | operations | hard part |
|---|---|---|---|
| request scheduler (`priority_scheduler.h`, `request_scheduler.h`) | queue of closures by priority, mutex and condition variable, `stopped_` | `post`, `run` on every thread, `stop`, `stop_threads` | lost wake-ups, double execution, threads left parked by `stop` |
| connections (`connection.*`, `client.h`) | socket, `stopped_` flag, client state (connected, logged, processing), nickname | `start_read`, `read_action`, `start_write`, `start_shared_write`, `stop` | completions on the io thread, handlers on scheduler threads, `weak_ptr` checks, two actors stopping one connection |
| connection manager (`connection_manager.*`) | `connections_`, `processing_counter_`, `shared_storage_`, `SharedStorageIDCounter`, `mutex_` | `start`, `notify_files_registration`, `do_notify`, `notify_disconnection`, `notify_shared_write_done`, `isLogged`, the download operations | one buffer is shared by many writes and freed by the last; the number of writes is guessed from a counter |
| handlers (`server_side_handler.*`) and validators | none of their own | one `do_*` per command | checks made when a request is read are stale when it is served |
| users database (`IUsersDB.*`, `SQLiteDB.*`) | accounts | `retrieve_user`, `register_user`, `erase_user` | check, then insert |
| file tree (`VirtualFileSystemTree.h`) | nodes with name, children, parent, `Cached_`; a spin lock; the local copies on disk | `Add`, `Remove`, `Rename`, `Get`, `Find`, `SetCached`, `Empty`, destructor | `Get` walks a list outside the lock; a string used after its destruction; disk and tree change in separate steps |
| backed-up requests (`backup_requests_manager.*`) | id -> owner, path, waiting requests, timer; a mutex | `BackupAndStartTimer`, `IsDownloadPending`, `IsRequestIDValid`, `ForEachAndRemoveWrapper` | timer against late answer, an id counter without a lock, several threads about to answer one request |
| downloads and uploads (`download_manager.*`; `upload_manager.*` is empty) | download and upload transactions, their timers, a mutex for each table, the download thread | `Begin`/`TryStart`/`Close`/`EndDownloadTransaction`, `Begin`/`TryStart`/`EndUploadTransaction`, the greeting of clients | blocking reads on the only download thread, callbacks under a mutex, upload ids read without a lock, effects inside `assert` |
| file transfer (receivers and deliverers) | bytes received or sent, a buffer, the file handle | chained asynchronous reads and writes | short reads, end of stream, files of a whole number of buffers, errors |
| server (`Server.*`, `Main.cpp`) | acceptor, io threads | accept loop, `run`, destructor | shutdown order |

Interactions. The io thread runs the acceptor and every socket completion. A
complete message is validated there and posted to the scheduler, whose threads
run the `do_*` handlers. Handlers call the connection manager, which walks
`connections_` under `mutex_` and starts shared writes; their completions run
on the io thread and count the shared buffer down *without* `mutex_`. A stop of
a connection comes from the io thread (an error) or from a handler
(`do_logout`), and ends in `notify_disconnection`. `stop_all` has no caller.

A download goes through three threads. A scheduler thread serves
`DOWNLOAD_FILE`: it delivers a cached file at once, joins a pending download of
the same file, or asks the owner and backs the request up under a new id with a
timer. The io thread takes the owner's approval, stops that timer and begins a
download transaction with a timer of its own. The download thread accepts the
owner, receives the file, and then delivers it to all requests that wait, or
denies them; it also runs the uploads and the transactions' timers.

What makes each part correct: the scheduler executes every posted request once,
highest priority first, and stops completely; the connection manager frees a
buffer neither too early nor never, tells every processing client of every
other one, and gets rid of stopped connections; the file tree finds what was
added, lists what is there, and leaves no copies on the disk behind; a download
request is answered exactly once, with the file or a denial; a client gets the
bytes the owner sent, in order. The hazards behind these are listed in
`PROJECT.json`.

## Modules

* `RequestPool` is what the scheduler promises: a pool of `Threads` executing
  requests, the highest pending priority first.
* `PriorityScheduler` is `priority_scheduler::run/post/stop` step by step: the
  queue, the predicate, the waiting threads, `notify_one` and `notify_all`,
  spurious wake-ups, and `request_scheduler`'s pool and stop. `ImplementsPool`
  states that it implements `RequestPool`, with the executing and idle threads
  computed from the program counters.
* `ConnectionManager` is the session and broadcast core. Actors are the io
  thread and the scheduler's threads. A step is a stretch of code with at most
  one access to state that another actor may change: the checks `expired()` and
  `lock()`, the reads of `isLogged`, of the state in `notify_disconnection` and
  the critical sections are steps of their own, and a loop over `connections_`
  inside `mutex_` takes one step per connection with `mutex_` held. Undefined
  behaviour (a null or dangling connection, a torn `std::map`) is a step to
  `crashed`. `Asserts` distinguishes the Debug from the Release build, because
  `notify_shared_write_done` erases a buffer inside `assert(...)`. Three ghost
  variables record what no code reads: who was counted, which buffers were
  announced with a wrong count, and whom the messages sent to a client name.
* `VirtualFileSystem` is one client's file tree and its copies on the server's
  disk. The owner's edits are one step each (they hold the spin lock), `Get` is
  one step per child and one for each move to the next, and a download is seen
  as far as it touches the tree and the disk. Node numbers grow with every
  link, so the newest child of a name (the first of the `forward_list`) is the
  one with the largest number. `do_add` uses a component after popping it from
  its list: the name such a string still holds is a choice, as is the crash.
* `DownloadService` is what clients are promised: while the server is up, every
  request is answered once, unless its client has left. It concedes one thing
  to the code, `Lose`: a request handled at the same time as another one may be
  lost, or the timer of its entry may be for another id; so may one that joins
  such an entry. A lost request may still be answered, once.
* `Downloads` is the path of a request from `do_download_file` to its answer.
  `step`, `io` and `dl` are the program counters of the scheduler's threads, the
  io thread and the download thread; `backed` is `backedup_requests_`, `trans`
  and `armed` are `download_transactions_` and their running timers, `counter`
  is `DownloadTransactionsIDCounter`, whose unlocked increment is a load and a
  store. `BackupAndStartTimer` is given the counter itself, by reference, and
  reads it three times: for the id its timer's handler captures
  (`CaptureRequestID`, before the lock), for the key of the entry
  (`EmplaceBackup`) and for the entry whose timer is started
  (`StartBackupTimer`, which dereferences null when there is none). Each is a
  step. `timers` are the timer objects, each with the id it has captured: a
  timer denies that id, whatever entry it hangs on. The history variable
  `stranded` has the requests whose entry got a timer that names another id or
  was not started. A critical section is a step, except that the backup's
  `mutex_` is held from the emplace to the start, and `download_mutex_` while
  the download thread reads the first chunk header. `disk`, `reading` and the
  writers decide, by the share modes of `CreateFile`, who may open a copy.
  Failed assertions, escaping exceptions, null receivers (gzip) and dangling
  views are steps to `crashed`. `ImplementsService` states that `Downloads`
  implements `DownloadService`.
* `FileReceiver` is both receivers: what the owner sends, the buffer, the bytes
  written, and the verdict by the number of bytes. `Uploads` is upload
  transactions (the id counter is read three times without and once with
  `upload_mutex_`), both deliverers and the clean-up handler. A client may say
  hello again for an id that is in the table: the deliverer's socket is replaced
  under its pending operation and it is started again, which is the end of the
  process or a delivery that goes on, from where the file is, on the new
  connection; the history variable `repeated` has the clients that did so to a
  delivery they were connected to. `FileTransfer`
  composes the two with `INSTANCE`: the copy that is received is what the
  uploads deliver, and both share the download thread.
* `MCPriorityScheduler`, `MCConnectionManager`, `MCVirtualFileSystem`,
  `MCDownloads` and `MCFileTransfer` give the constants their values.
  `PriorityScheduler_proofs`, `ConnectionManager_proofs`,
  `ConnectionRoster_proofs` (which builds on it), `Downloads_proofs`,
  `FileTransfer_proofs` and `VirtualFileSystem_proofs` hold the theorems.

Definitions whose comment calls them mutants, or that no action uses, are
mutated forms of the definition that follows them; `PROJECT.json` pairs them
with the property each one breaks.

## Runs

| run | instance | shows |
|---|---|---|
| `scheduler` | 3 threads, 3 requests of 2 priorities | every request once, no lost wake-up, `stop` leaves nobody parked, a quiet queue drains, `RequestPool` is implemented |
| `sessions` | 2 clients that come to an empty server, with 5 requests, or 2 processing clients and one joining, with 2 more requests; 2 threads and the io thread | types and locking; the counter covers the processing clients and never wraps; registered clients know each other; a shared buffer stays in the pool while a write of it is in flight |
| `liveness` | 2 clients, 1 thread, 4 requests | a stopped connection leaves `connections_`; if nobody stops, every buffer is reclaimed |
| `files` | paths `/a`, `/b`, `/a/b` and the empty one, 3 nodes, 1 download | a listing misses no file that stayed; an added path is found; an edit stays below its path; without renames no complete copy is left behind |
| `downloads` | 2 requests for one file, 2 scheduler threads, io and download thread, zlib, Debug build | no request is answered twice or forgotten; a waiting request has somebody who will answer it, unless its entry got another id's timer; `DownloadService` is implemented, liveness included |
| `transfer` | owners' files of 0 to 4 bytes, announced sizes 0 to 4, buffers of 2, both modes, 2 clients and a second file, hellos repeated | the client gets the copy's bytes, in order and all of them; a good transfer is accepted and a short one is not; clean-ups hit their own upload; transfers end |
| `release_leak`, `notifier`, `double_login`, `silent_peer`, `renamed_copy`, `misnamed_timer` | as small as shows it | disagreements of the code with its own comments, see Findings |

Bounds. `MaxRequests` caps the requests clients send; the cases the properties
are about (a registration against a disconnection, two notifications at once,
pipelined requests, two actors stopping one connection) need two clients, three
for a broadcast that somebody joins, and at most five requests. Two scheduler
threads and the io thread give every pair of concurrent code paths.
`CounterMax` stands for 2^64 - 1 and is far above any count reached.
`sessions` and `notifier` start from states that every such server passes
through: an empty one that a client has left (`Departed`), or one with signed-in
clients (`Established`), to spend the requests on the interesting part. Three nodes give nested paths, equally
named siblings and root lists of three. Symmetry is used only in runs without
liveness properties and permutes clients and threads, which no definition tells
apart. `LiveView` forgets whether a read is in flight for a destroyed
connection: that read's handler does nothing. `Focus` explores listings and
downloads in one run without interleaving them: a listing reads shape and
names, a download changes `Cached_`, the disk and `moving`, and neither reads
what the other writes (the proofs about `VirtualFileSystem` have no such
restriction).
Two requests for one file give every meeting in `downloads`: both ask the owner
under one id or under two, one joins the other, one is served while the other's
transaction writes the copy. In `transfer`, files of 0 to 4 bytes against
buffers of 2 are shorter than, equal to, and one more than a buffer and two
whole buffers; two clients are what it takes to read one upload id twice.
Deadlock is not checked: a server whose clients are done, or that has crashed,
stops; `DrainsWhenQuiet` and `StoppedLeaves` say what may not get stuck.

Fairness. Every scheduler thread keeps running its handler and keeps taking
queued requests, the io thread serves completions, and a write in flight
completes or fails (strong fairness: completions are queued in order and reads
cannot overtake them for ever). Nothing is assumed of clients: they may send
nothing and stay for ever. `PriorityScheduler` assumes that a thread that can
go on does; nothing is assumed about who posts or stops.
`Downloads` has two parts. `ServerFairness`: threads go on, and a handler that is
due (a timer, a reply's continuation waiting for `download_mutex_`) is run
although others come in between, because an io_context queues them (strong
fairness). `PeersFairness`: a client on the download port says something or
closes, and a started transfer ends. Nothing in the code enforces the second,
which is finding 4; with it `ImplementsService` holds, in a Debug build with
compressions that have a receiver. In a Release build nothing ends a
transaction or an upload, and liveness is not claimed. `FileTransfer` assumes
that the threads go on, that an owner goes on sending or closes, and that a
connected client reads or is gone; no client has to connect.

## Findings

Each is a violation run against a line the repository itself contains.

1. `release_leak`: in a Release build (`NDEBUG`) the erase in
   `notify_shared_write_done` is compiled out, so buffers are never freed.
2. `notifier`: `do_notify` says it is called only for processing connections; a
   queued `ADD_FILE` runs for one that has been erased and counted out, and the
   buffer expects one write too few. `BuffersOutliveSends` names these buffers
   (`lame`) as its only exception.
3. `double_login`: `isLogged` and the store of the nickname are two steps.
4. `silent_peer`: the 60-second limit on a client's hello has no effect, because
   the future of `std::async` waits for the read when it is destroyed. One
   client that connects and says nothing stops every transaction timer, which
   `resolve_download_reply` relies on.
5. `renamed_copy`: `Rename` moves the local copy of a cached file to a path
   below that very file, which fails; the node is cached under a path that has
   no copy.
6. `misnamed_timer`: "worst case is handled by timer", says
   `resolve_download_reply`; but the id counter may move between the read that
   names the timer's entry and the read that stores the entry
   (`backup_requests_manager.h:66`, `:75`). The timer then denies another id,
   and the entry, with all who join it, stays for ever. `Kept` and
   `DownloadService` name these requests (`stranded`) as an exception.

Behaviours the models have and the properties concede, without a run of their
own: two pipelined `PUSH_FILES` count one client twice; a client that stops
while its registration completes is never announced as logged out; two requests
that get one download id lose one of them (`lost`); two uploads that begin at
once may be told or clean up each other's id, and the assertion of the clean-up
handler then fails (`Mixed`); a client that says hello again to
its own delivery may end the process or get a part of the file only
(`repeated`); an owner that closes
before the first chunk header leaves the download thread waiting for its own
mutex; the timer of an upload is set up and never started, so an upload nobody
fetches stays, although a comment gives the client 30 seconds
(`connection_manager.cpp:412`).

## Proofs

All proofs are for any number of threads, requests, clients, files and
nicknames, from the `ASSUME`s of the modules: `Conn` and `Req` are finite, the
special values are distinct, `MaxRequests < CounterMax` (a 64-bit counter is not
counted up to its end), files are sequences of `Byte`, buffers are not empty,
paths are sequences of `Names`, `Asserts` is either value. Every inductive
invariant below was checked with TLC on the run's instance before it was proved.
Every invariant and every action property that a passing run checks is now a
theorem.

`PriorityScheduler_proofs`: the inductive invariant `IInv` adds to the types and
the three properties only that a request being posted is not yet anywhere in
the pool (`PostingFresh`). `NoLostWakeup` counts: while a thread is parked, the
queued requests are at most the threads and notifications on their way; taking
a request, being woken and parking again each keep the balance. `TypeCorrect`,
`RunOnceHolds`, `NoLostWakeupHolds`, `StopReachesAllHolds`; `SimulatesPool` is
the safety part of `ImplementsPool`.

`ConnectionManager_proofs`: `CounterCoversProcessing` is not inductive, because
the counter is compared with a set that `stop`, a late sign-in and a
registration change at other moments than the counter. `CounterInv` compares it
with the *counted* connections (`Covering`) and adds that a processing client is
counted (`Counted`), and that a connection is disconnected by one actor at most
and is registered until then (`Membership`). From it follow `CounterCovers` and
`NeverWraps` (the decrement happens only while a counted connection is there).
`BuffersOutlive` needs that a buffer expects at least the writes in flight plus
the ones the announcing loop will still start (`Owing`, with `Fresh`: a
connection still to be visited has not been sent the buffer): at the
announcement the counter covers the processing clients, a loop step turns a
write to come into a write in flight, a completion takes one from both sides,
and leaving the processing state only lowers what is owed. It holds for both
builds.

`Downloads_proofs`: everything holds for any set of compressions and both
builds. `AnsweredOnce` and `Accounted` are proved together as `Custody`: a
request that a worker holds is unsettled and held by no other (`OneHolder`), a
waiting request is unsettled, in one entry and in no worker's hands
(`OneEntry`), and what nobody has begun to serve, or was lost, has no answer
(`Untaken`); every step that answers takes the requests out of the place they
were in. `Timing` says what the three reads of the counter leave intact: one
worker at most is between the emplace and the start (`OneStarter`, the mutex);
an entry's timer was made by a request that waits in it, and names it unless
that request is stranded (`Owned`); the timer of a request nobody has taken, or
that a worker still holds, was never started (`Unstarted`); and a counter that
moved under a worker was moved by another request (`Overtaken`). So a timer that
expires clears its own entry or none that counted on it, and an entry that is
not stranded keeps its timer until somebody takes it over. `Kept` needs
`Timing` and `EndedApart`: a download thread about to end a transaction
has erased the transaction's entry, and an entry of the same id that came since
has its own timer or the io thread, or is stranded. `AtHome` (a worker's request has not gone,
and a crash leaves nobody at work) gives, with these, `SimulatesService`, the
safety part of `ImplementsService`: every step is a step of `DownloadService` or
a stutter.

`ConnectionRoster_proofs`: `RosterComplete` speaks of moments at which no loop
over `connections_` is under way; `Roster` says what holds inside the loop: the
clients a registration has already visited know the new one and it knows them,
and all processing clients know each other throughout. It needs that whoever
works for a client goes by that client's nickname, from the check of a sign-in
to the loop (`Accounts`), and that a disconnecting client has left the set
(`Gone`), on top of `CounterInv`. `RosterIsComplete` has one hypothesis,
`OwnAccounts`: a client has at most one account and nobody else has it. Without
it finding 3 (two sessions under one nickname) makes the property false; the
`sessions` run has such accounts.

`FileTransfer_proofs`: files, announced sizes, buffers and clients are
arbitrary. On the receiving side `InTransit` says that until the receiver is
done its copy, its buffer and what is on the wire are adjacent pieces of the
owner's file; with compression the wire is a sequence of chunks, and `Cuts`
gives the offset of each in the file. `Finished` says what the comparison of
sizes is worth afterwards. On the delivering side `Settled` says that a copy
that is being delivered changes no more, `Distinct` that clean-ups and writes
belong to one upload each, and `Matched` relates an upload's position and
buffer to what its client has got, for as long as no two uploads have read one
id (`~Mixed`) and for the clients outside `repeated`. That a second hello
disturbs nobody else is part of it: the deliverer a connected client names has
that client as its peer (`OwnConnection`), so only its own delivery is restarted,
and the process dies only with `repeated` non-empty. From their conjunction follow `TypesHold`, `TransferIsEndToEnd`,
`CompleteFilesAccepted` and `CleanUpIsSafe`.

`VirtualFileSystem_proofs`: names, paths and the number of nodes are arbitrary.
The path of a node (`PathsTo`) and the look-up of a path (`do_find_path`) are
recursive functions; that they satisfy their equations, and what they compute,
is proved by least counterexample (`Least`: a non-empty set of naturals has a
least member, from the well-foundedness of `<`). The lemmas about them: a node
found under a path has that path (`FoundHasPath`), nodes keep their paths when
others are linked or freed (`PathsAgree`), subtrees are closed and least
(`SubtreeClosed`, `SubtreeLeast`), every node is below a child of the root
(`BelowSomeChild`). `Types` strengthens `TypeOK` with the root being its own
parent and an idle walk standing nowhere. `ListingComplete` needs `Listing`:
what a walk still owes is in the tree, below the child it visits next or below
an older one, which it comes to later, and no edit moves a node below another
child of the root. `NoStrayFiles` is inductive with `Types`, because the node
`SetCached` finds for a stored file has exactly that file's path. The two
action properties follow from `Types`: two trees lead the same way down a path
unless some node on the way has other children of the next name (`SameWay`), and
an edit changes the children of one node only (`RemoveStays`, `RenameStays`,
`AddStays`); the nodes `do_add` links continue the way (`AddFinds`).

Only model-checked: all liveness (`DrainsWhenQuiet`, `StoppedLeaves`,
`BuffersReclaimed`, `TransfersEnd`, the fairness halves of `ImplementsPool` and
`ImplementsService`), which is outside the prover's reach.

## Not modelled

Replies (except the answers to downloads) and the bytes of messages; a partial write is part of its send. The
deadline timer of a connection never fires (its `weak_ptr` is taken in the
constructor and is empty). Torn reads of a nickname while it is assigned are
left out: the assignment is one step. In `Get`, a race on the head of the list
with a `push_front` is taken as seeing the old or the new head. Whether the
users table refuses a duplicate nickname is not in the repository. The
database library, asio and the file system are external. `state_machine.h`,
`actions.h`, `guards.h` and `protocol_impl.h` are an unused earlier sketch;
`Configuration` is a read-only set of settings.

Of the downloads: a denial by the owner changes nothing, so it is no action;
numbers in a reply that do not parse are the crash of
`BeginDownloadTransaction`; what the owner does to its tree meanwhile is in
`VirtualFileSystem`. Of the transfers: chunk lengths are assumed to fit the
receiver's buffer; decompression gives back what was compressed or throws; which
compression an upload uses is left open, since both deliverers take the same
steps; the TLS handshake and shutdown, `async_windows_file_io` and
`simple_timer` are external: a `simple_timer` that is started again after its
handler has run (and dropped the timer's reference to itself) may fire or be the
end of the process. A client of an upload names the id it was told, any number
of times, and no other. The server's start and its destructor (the io
thread is joined, the download thread is not) are not modelled: the process ends
right after it, and what `stop` must do is `StopReachesAll`.

## Plan

1. Done: the scheduler with its abstract pool; sessions and broadcasts; the file
   tree with its local copies; the downloads with their abstract service; the
   transfer of bytes, composed from receiver and uploads; the theorems above.
2. Done: theorems for every invariant and action property of the runs, the
   roster, the transfer of bytes and the file tree included.
3. Left: the fairness halves of the two refinements and the other liveness
   properties stay with TLC. Shorter proofs, where a lemma is still stated for
   one action and holds for several.
