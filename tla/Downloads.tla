----------------------------- MODULE Downloads -----------------------------
(***************************************************************************)
(* Downloads: from a client's DOWNLOAD_FILE query to the answer it gets.   *)
(*                                                                         *)
(* Three kinds of threads take part.  A scheduler thread (Worker) serves a *)
(* query: it answers at once, or it joins the requests that wait for the   *)
(* same file, or it asks the owner and backs the request up under a new id *)
(* with a timer.  The io thread takes the owner's replies, which begin a   *)
(* transaction, and runs the timers of backed-up requests.  The download   *)
(* thread greets the clients that connect to the download port, receives   *)
(* files and runs the timers of transactions.                              *)
(*                                                                         *)
(* A step ends where another thread may change what the next line reads.   *)
(* A critical section is one step, with two exceptions: the backup's       *)
(* mutex_ is held between the two statements of BackupAndStartTimer        *)
(* ("start"), because each of them reads the id counter anew, and          *)
(* download_mutex_ while the download thread reads the first chunk header  *)
(* ("header").                                                             *)
(*                                                                         *)
(* A file stands for its owner and path.  What a client does to its own    *)
(* tree is in VirtualFileSystem, how the bytes of a file travel is in      *)
(* FileTransfer.  Share modes: a file open for writing can be opened by    *)
(* nobody else, one open for reading only for reading.                     *)
(***************************************************************************)
EXTENDS Naturals, Sequences, FiniteSets

CONSTANTS
    Req,        \* DOWNLOAD_FILE queries, each from a connection of its own
    File,       \* (owner, path) pairs
    FileOf,     \* FileOf[r]: the file r asks for
    Worker,     \* threads of the request scheduler
    Modes,      \* compressions an owner's reply may name
    Asserts,    \* TRUE in a Debug build: assert(e) evaluates e
    None        \* no request, no file

ASSUME RequestsAssumption == IsFiniteSet(Req) /\ None \notin Req \cup File
ASSUME FilesAssumption == FileOf \in [Req -> File]
ASSUME ModesAssumption == Modes \subseteq {"nocompression", "zlib", "gzip"}
ASSUME BuildAssumption == Asserts \in BOOLEAN

VARIABLES
    counter,    \* DownloadTransactionsIDCounter
    step,       \* Worker -> where it is, its request, a value it has read
    taken,      \* requests a worker has begun to serve
    replies,    \* Req -> the answers sent to it
    gone,       \* requests whose connection is no more
    lost,       \* history: requests whose backup found its id in use
    stranded,   \* history: requests whose entry has a timer that is not for it
    online,     \* files whose owner is in connections_
    cached,     \* files whose node has Cached_ set
    disk,       \* File -> "none" | "empty" | "partial" | "full", its local copy
    reading,    \* requests whose upload has the local copy open
    io,         \* the io thread: where it is, the reply's id, file and mode
    backed,     \* backedup_requests_: id -> file, waiting requests, timer
    timers,     \* Req -> the backup timer it makes: the id captured, its state
    trans,      \* download_transactions_: id -> file, mode, state
    armed,      \* ids of transactions whose timer is running
    worn,       \* ids of transactions whose timer was started a second time
    dl,         \* the download thread: where it is, the id it works on
    crashed     \* the process has died

clientVars == <<taken, replies, gone, lost, stranded>>
fileVars == <<online, cached, disk, reading>>
backupVars == <<counter, backed, timers>>
transVars == <<trans, armed, worn>>
vars == <<clientVars, fileVars, backupVars, transVars, step, io, dl, crashed>>

----------------------------------------------------------------------------
(* Maps, and the two tables.                                               *)

Put(f, i, v) == [j \in DOMAIN f \cup {i} |-> IF j = i THEN v ELSE f[j]]

Drop(f, i) == [j \in DOMAIN f \ {i} |-> f[j]]

WorkerStep == {"idle", "deliver", "pending", "load", "store", "capture", "emplace",
               "start"}
IoStep == {"idle", "begin", "notify", "deny"}
DlStep == {"idle", "hello", "header", "close", "cache", "deliver", "deny", "end"}

Idle == [at |-> "idle", req |-> None, id |-> 0]
IoIdle == [at |-> "idle", id |-> 0, file |-> None, mode |-> "nocompression"]
DlIdle == [at |-> "idle", id |-> 0, ok |-> FALSE]

(* simple_timer.  A timer's handler drops the timer's reference to itself  *)
(* when it has run, for an expiry or an abort: what one does that is       *)
(* started "again" after that is not to be relied on.                      *)
NewTimer == [names |-> 0, at |-> "new"]

Running(r) == timers[r].at \in {"running", "again"}

StartOf(r) == [timers EXCEPT ![r].at = IF @ = "new" THEN "running" ELSE "again"]

StopOf(r) == [timers EXCEPT ![r].at = IF @ = "new" THEN @ ELSE "over"]

(* The transactions that have the local copy of f open for writing.        *)
Writers(f) == {i \in DOMAIN trans :
                 trans[i].file = f /\ trans[i].state \in {"waiting", "receiving"}}

(* CreateFile of a receiver and of a deliverer, as far as the program's    *)
(* own handles decide; both may fail for other reasons.                    *)
CanWrite(f) == Writers(f) = {} /\ \A r \in reading : FileOf[r] # f
CanRead(f) == Writers(f) = {} /\ disk[f] \in {"partial", "full"}

Held == {step[w].req : w \in Worker} \ {None}

(* Nobody has the backup's mutex_.                                         *)
Unlocked == \A w \in Worker : step[w].at # "start"

----------------------------------------------------------------------------
Init ==
  /\ counter = 1 /\ backed = <<>>
  /\ timers = [r \in Req |-> NewTimer]
  /\ trans = <<>> /\ armed = {} /\ worn = {}
  /\ step = [w \in Worker |-> Idle]
  /\ io = IoIdle /\ dl = DlIdle
  /\ taken = {} /\ gone = {} /\ lost = {} /\ stranded = {}
  /\ replies = [r \in Req |-> <<>>]
  /\ online = File /\ cached = {} /\ reading = {}
  /\ disk = [f \in File |-> "none"]
  /\ crashed = FALSE

(* An exception no handler catches, a failed assertion, a null or a        *)
(* dangling pointer: the process dies, and its memory with it.             *)
Crash ==
  /\ crashed' = TRUE
  /\ counter' = 1 /\ backed' = <<>>
  /\ timers' = [r \in Req |-> NewTimer]
  /\ trans' = <<>> /\ armed' = {} /\ worn' = {}
  /\ step' = [w \in Worker |-> Idle]
  /\ io' = IoIdle /\ dl' = DlIdle
  /\ online' = {} /\ cached' = {} /\ reading' = {}
  /\ UNCHANGED <<clientVars, disk>>

Answer(S, kind) ==
  replies' = [r \in Req |-> IF r \in S THEN Append(replies[r], kind) ELSE replies[r]]

Goto(w, at) == step' = [step EXCEPT ![w].at = at]
Release(w) == step' = [step EXCEPT ![w] = Idle]

(* DeliverFileFromLocalStorage, BeginUploadTransaction: of the requests S  *)
(* for f the ones in D get an upload of their own, the others are denied.  *)
Deliver(S, D, f) ==
  /\ D \subseteq S
  /\ D # {} => CanRead(f)
  /\ replies' = [r \in Req |->
                   IF r \in S THEN Append(replies[r], IF r \in D THEN "deliver" ELSE "deny")
                   ELSE replies[r]]
  /\ reading' = reading \cup D

(* ForEachAndRemoveWrapper with the deny handler: the waiting requests     *)
(* whose connection is still there are answered, the entry is erased.  An  *)
(* id that has no entry is created empty and erased again.                 *)
Waiting(i) == IF i \in DOMAIN backed THEN backed[i].reqs \ gone ELSE {}

(* Mutant: the entry is not erased. *)
DenyAllKeeping(i) == Unlocked /\ Answer(Waiting(i), "deny") /\ UNCHANGED backed

DenyAll(i) ==
  /\ Unlocked
  /\ Answer(Waiting(i), "deny")
  /\ backed' = Drop(backed, i)

----------------------------------------------------------------------------
(* Scheduler threads: resolve_download_file_querry.                        *)

(* The check of the SSL version, then the look-up of owner and path under  *)
(* connection_manager's mutex_.                                            *)
Serve(w, r) ==
  /\ ~crashed /\ step[w].at = "idle" /\ r \notin taken \cup gone
  /\ taken' = taken \cup {r}
  /\ \/ Answer({r}, "ssl") /\ UNCHANGED step
     \/ FileOf[r] \notin online /\ Answer({r}, "deny") /\ UNCHANGED step
     \/ /\ FileOf[r] \in online
        /\ step' = [step EXCEPT ![w] =
              [at |-> IF FileOf[r] \in cached THEN "deliver" ELSE "pending",
               req |-> r, id |-> 0]]
        /\ UNCHANGED replies
  /\ UNCHANGED <<gone, lost, stranded, fileVars, backupVars, transVars, io, dl, crashed>>

DeliverFileFromLocalStorage(w) ==
  /\ step[w].at = "deliver"
  /\ \E D \in SUBSET {step[w].req} : Deliver({step[w].req}, D, FileOf[step[w].req])
  /\ Release(w)
  /\ UNCHANGED <<taken, gone, lost, stranded, online, cached, disk, backupVars,
                 transVars, io, dl, crashed>>

(* A request for a file that others wait for joins them, under whichever   *)
(* id comes first in the map.                                              *)
Pending(f) == {i \in DOMAIN backed : backed[i].file = f}

(* Mutant: the newcomer takes the place of the ones that wait. *)
IsDownloadPendingReplacing(w) ==
  LET r == step[w].req
      P == Pending(FileOf[r])
  IN
  /\ step[w].at = "pending" /\ Unlocked
  /\ \/ P = {} /\ Goto(w, "load") /\ UNCHANGED backed
     \/ \E i \in P : backed' = [backed EXCEPT ![i].reqs = {r}] /\ Release(w)
  /\ UNCHANGED <<clientVars, fileVars, counter, timers, transVars, io, dl, crashed>>

IsDownloadPending(w) ==
  LET r == step[w].req
      P == Pending(FileOf[r])
  IN
  /\ step[w].at = "pending" /\ Unlocked
  /\ \/ P = {} /\ Goto(w, "load") /\ UNCHANGED <<backed, stranded>>
     \/ \E i \in P :
          /\ \A j \in P : i <= j
          /\ backed' = [backed EXCEPT ![i].reqs = @ \cup {r}]
          /\ stranded' = stranded \cup IF backed[i].timer \in stranded THEN {r} ELSE {}
          /\ Release(w)
  /\ UNCHANGED <<taken, replies, gone, lost, fileVars, counter, timers, transVars,
                 io, dl, crashed>>

(* ++DownloadTransactionsIDCounter is a load and a store.                  *)
LoadCounter(w) ==
  /\ step[w].at = "load"
  /\ step' = [step EXCEPT ![w] = [@ EXCEPT !.at = "store", !.id = counter]]
  /\ UNCHANGED <<clientVars, fileVars, backupVars, transVars, io, dl, crashed>>

(* The owner is then asked, under what the counter holds by that time.     *)
(* Whom the query reached does not matter: any client's approval of any id *)
(* is accepted.                                                            *)
StoreCounter(w) ==
  /\ step[w].at = "store"
  /\ counter' = step[w].id + 1
  /\ Goto(w, "capture")
  /\ UNCHANGED <<clientVars, fileVars, backed, timers, transVars, io, dl, crashed>>

(* BackupAndStartTimer is given the counter by reference and reads it three *)
(* times: for the handler of the timer, before the lock; ...               *)
CaptureRequestID(w) ==
  /\ step[w].at = "capture"
  /\ timers' = [timers EXCEPT ![step[w].req].names = counter]
  /\ Goto(w, "emplace")
  /\ UNCHANGED <<clientVars, fileVars, counter, backed, transVars, io, dl, crashed>>

(* ... for the entry: emplace leaves one that is there as it is, and the   *)
(* request is gone with the arguments; ...                                 *)
EmplaceBackup(w) ==
  LET r == step[w].req IN
  /\ step[w].at = "emplace" /\ Unlocked
  /\ \/ /\ counter \in DOMAIN backed
        /\ lost' = lost \cup {r}
        /\ UNCHANGED <<backed, stranded>>
     \/ /\ counter \notin DOMAIN backed
        /\ backed' = Put(backed, counter,
                         [file |-> FileOf[r], reqs |-> {r}, timer |-> r])
        /\ stranded' = stranded \cup IF timers[r].names = counter THEN {} ELSE {r}
        /\ UNCHANGED lost
  /\ step' = [step EXCEPT ![w] = [at |-> "start", req |-> None, id |-> counter]]
  /\ UNCHANGED <<taken, replies, gone, fileVars, counter, timers, transVars,
                 io, dl, crashed>>

(* Mutant: the timer is not started. *)
StartNoTimer(w) ==
  /\ step[w].at = "start"
  /\ Release(w)
  /\ UNCHANGED <<clientVars, fileVars, backupVars, transVars, io, dl, crashed>>

(* ... and for the timer that is started, which is that of the entry found *)
(* now, if there is one.                                                   *)
StartBackupTimer(w) ==
  LET r == backed[step[w].id].timer IN
  /\ step[w].at = "start"
  /\ \/ /\ counter \in DOMAIN backed
        /\ timers' = StartOf(backed[counter].timer)
        /\ stranded' = stranded \cup
             IF counter # step[w].id /\ timers[r].at = "new" THEN {r} ELSE {}
        /\ Release(w)
        /\ UNCHANGED <<taken, replies, gone, lost, fileVars, counter, backed,
                       transVars, io, dl, crashed>>
     \/ counter \notin DOMAIN backed /\ Crash

----------------------------------------------------------------------------
(* The io thread: resolve_download_reply and the timers of the backup.     *)

(* An approval, the first or a repeated one, for an id that is backed up,  *)
(* from whichever client.  IsRequestIDValid stops the entry's timer.       *)
(* Denials, and replies to ids that have no entry, change nothing.         *)
DownloadReply(i, c) ==
  /\ io.at = "idle" /\ Unlocked
  /\ i \in DOMAIN backed
  /\ timers' = StopOf(backed[i].timer)
  /\ io' = [at |-> "begin", id |-> i, file |-> backed[i].file, mode |-> c]
  /\ UNCHANGED <<clientVars, fileVars, counter, backed, transVars, step, dl, crashed>>

(* Mutant: a transaction that cannot begin is left at that. *)
BeginOrGiveUp ==
  LET i == io.id
      f == io.file
  IN
  /\ io.at = "begin" /\ dl.at # "header"
  /\ \/ /\ CanWrite(f)
        /\ disk' = [disk EXCEPT ![f] = "empty"]
        /\ trans' = IF i \in DOMAIN trans THEN trans
                    ELSE Put(trans, i, [file |-> f, mode |-> io.mode, state |-> "waiting"])
        /\ armed' = armed \cup {i}
        /\ worn' = IF i \in DOMAIN trans THEN worn \cup {i} ELSE worn \ {i}
        /\ io' = [io EXCEPT !.at = "notify"]
        /\ UNCHANGED <<clientVars, online, cached, reading, backupVars, step, dl, crashed>>
     \/ /\ io' = IoIdle
        /\ UNCHANGED <<clientVars, fileVars, backupVars, transVars, step, dl, crashed>>

(* BeginDownloadTransaction.  CREATE_ALWAYS empties the file; emplace      *)
(* leaves a transaction of this id as it is, and the timer that is started *)
(* is that one's.  The size in the reply or the directory may throw.       *)
BeginDownloadTransaction ==
  LET i == io.id
      f == io.file
  IN
  /\ io.at = "begin"
  /\ dl.at # "header"
  /\ \/ /\ CanWrite(f)
        /\ disk' = [disk EXCEPT ![f] = "empty"]
        /\ trans' = IF i \in DOMAIN trans THEN trans
                    ELSE Put(trans, i, [file |-> f, mode |-> io.mode, state |-> "waiting"])
        /\ armed' = armed \cup {i}
        /\ worn' = IF i \in DOMAIN trans THEN worn \cup {i} ELSE worn \ {i}
        /\ io' = [io EXCEPT !.at = "notify"]
        /\ UNCHANGED <<clientVars, online, cached, reading, backupVars, step, dl, crashed>>
     \/ /\ io' = [io EXCEPT !.at = "deny"]
        /\ UNCHANGED <<clientVars, fileVars, backupVars, transVars, step, dl, crashed>>
     \/ Crash

(* NotifyFileDownload, whether it finds the owner or not.  FileOwner is a  *)
(* view of the entry's string: the entry may have been erased meanwhile.   *)
NotifyFileDownload ==
  /\ io.at = "notify"
  /\ \/ /\ io' = IoIdle
        /\ UNCHANGED <<clientVars, fileVars, backupVars, transVars, step, dl, crashed>>
     \/ io.id \notin DOMAIN backed /\ Crash

(* The transaction could not begin: the timer is stopped already, so the   *)
(* waiting requests are denied here.                                       *)
DenyWaiting ==
  /\ io.at = "deny"
  /\ DenyAll(io.id)
  /\ io' = IoIdle
  /\ UNCHANGED <<taken, gone, lost, stranded, fileVars, counter, timers, transVars,
                 step, dl, crashed>>

(* The timer that r made, whether its entry is still there or not, denies  *)
(* what waits under the id it has captured.                                *)
BackupTimer(r) ==
  /\ io.at = "idle" /\ Running(r)
  /\ \/ /\ DenyAll(timers[r].names)
        /\ timers' = StopOf(r)
        /\ UNCHANGED <<taken, gone, lost, stranded, fileVars, counter, transVars, step,
                       io, dl, crashed>>
     \/ timers[r].at = "again" /\ Crash

----------------------------------------------------------------------------
(* The download thread.                                                    *)

(* HandleAccept, HandleHandshake: a client has connected, and the thread   *)
(* waits for its hello.  The future of std::async is destroyed at the end  *)
(* of the statement, which waits for the read whatever wait_for returned.  *)
HandleHandshake ==
  /\ ~crashed /\ dl.at = "idle"
  /\ dl' = [DlIdle EXCEPT !.at = "hello"]
  /\ UNCHANGED <<clientVars, fileVars, backupVars, transVars, step, io, crashed>>

(* No hello, a malformed one, one of a receiver or for an unknown id.      *)
HelloRefused ==
  /\ dl.at = "hello"
  /\ dl' = DlIdle
  /\ UNCHANGED <<clientVars, fileVars, backupVars, transVars, step, io, crashed>>

(* A second hello for a receiver at work destroys the socket under it; one *)
(* for a receiver whose file is closed lets it receive what it cannot      *)
(* write.  There is no receiver for gzip.  The start byte is written       *)
(* inside an assertion, in a function that must not throw.                 *)
TryStartDownloadTransaction(i) ==
  /\ dl.at = "hello" /\ i \in DOMAIN trans
  /\ \/ /\ trans[i].mode # "gzip"
        /\ armed' = armed \ {i} /\ UNCHANGED worn
        /\ trans' = [trans EXCEPT ![i].state =
                       IF @ \in {"waiting", "receiving"} THEN "receiving" ELSE "broken"]
        /\ dl' = IF trans[i].mode = "zlib" THEN [dl EXCEPT !.at = "header", !.id = i]
                 ELSE DlIdle
        /\ UNCHANGED <<clientVars, fileVars, backupVars, step, io, crashed>>
     \/ (trans[i].mode = "gzip" \/ trans[i].state # "waiting" \/ Asserts) /\ Crash

(* CompressedModeFileReceiver::Start reads the first header with           *)
(* download_mutex_ held; its error path locks that mutex again.            *)
ReadHeader ==
  /\ dl.at = "header"
  /\ \/ /\ dl' = DlIdle
        /\ UNCHANGED <<clientVars, fileVars, backupVars, transVars, step, io, crashed>>
     \/ Crash

(* The receiver is through: the sender has closed, or a read or a write    *)
(* has failed.  The file may have been deleted meanwhile.  One whose file  *)
(* is closed judges by the bytes it wrote before.                          *)
Received(i, ok) ==
  LET f == trans[i].file IN
  /\ dl.at = "idle"
  /\ i \in DOMAIN trans
  /\ trans[i].state \in {"receiving", "broken"}
  /\ disk' \in {[disk EXCEPT ![f] = d] :
                  d \in IF disk[f] = "none" \/ trans[i].state = "broken" THEN {disk[f]}
                        ELSE IF ok THEN {"full"} ELSE {"empty", "partial"}}
  /\ dl' = [at |-> "close", id |-> i, ok |-> ok]
  /\ UNCHANGED <<clientVars, online, cached, reading, backupVars, transVars, step, io,
                 crashed>>

(* Mutant: the transaction is removed before its waiting requests are served. *)
CloseErasing ==
  /\ dl.at = "close"
  /\ trans' = Drop(trans, dl.id)
  /\ dl' = [dl EXCEPT !.at = IF dl.ok THEN "cache" ELSE "deny"]
  /\ UNCHANGED <<clientVars, fileVars, backupVars, armed, worn, step, io, crashed>>

CloseDownloadTransaction ==
  /\ dl.at = "close"
  /\ trans' = [trans EXCEPT ![dl.id].state = "closed"]
  /\ dl' = [dl EXCEPT !.at = IF dl.ok THEN "cache" ELSE "deny"]
  /\ UNCHANGED <<clientVars, fileVars, backupVars, armed, worn, step, io, crashed>>

(* Again inside an assertion: a Release build marks nothing, and a Debug   *)
(* build dies when the owner has removed or renamed the path meanwhile.    *)
SetFileToCached ==
  /\ dl.at = "cache"
  /\ \/ /\ cached' = cached \cup {f \in online : Asserts /\ f = trans[dl.id].file}
        /\ dl' = [dl EXCEPT !.at = "deliver"]
        /\ UNCHANGED <<clientVars, online, disk, reading, backupVars, transVars, step,
                       io, crashed>>
     \/ Asserts /\ trans[dl.id].file \in online /\ Crash

DeliverToAll ==
  /\ dl.at = "deliver" /\ Unlocked
  /\ \E D \in SUBSET Waiting(dl.id) : Deliver(Waiting(dl.id), D, trans[dl.id].file)
  /\ backed' = Drop(backed, dl.id)
  /\ dl' = [dl EXCEPT !.at = "end"]
  /\ UNCHANGED <<taken, gone, lost, stranded, online, cached, disk, counter, timers,
                 transVars, step, io, crashed>>

(* The completion handler of a failed transfer, and the timer's handler.   *)
DenyToAll ==
  /\ dl.at = "deny"
  /\ DenyAll(dl.id)
  /\ dl' = [dl EXCEPT !.at = "end"]
  /\ UNCHANGED <<taken, gone, lost, stranded, fileVars, counter, timers, transVars,
                 step, io, crashed>>

(* assert(EndDownloadTransaction(ID)): a Release build keeps the           *)
(* transaction.  A receiver destroyed at work leaves its handlers dangling. *)
EndDownloadTransaction ==
  /\ dl.at = "end"
  /\ \/ /\ Asserts => dl.id \in DOMAIN trans
        /\ trans' = IF Asserts THEN Drop(trans, dl.id) ELSE trans
        /\ dl' = DlIdle
        /\ UNCHANGED <<clientVars, fileVars, backupVars, armed, worn, step, io, crashed>>
     \/ /\ Asserts
        /\ dl.id \in DOMAIN trans => trans[dl.id].state \in {"receiving", "broken"}
        /\ Crash

TransactionTimer(i) ==
  /\ dl.at = "idle" /\ i \in armed
  /\ \/ /\ armed' = armed \ {i}
        /\ dl' = [at |-> "deny", id |-> i, ok |-> FALSE]
        /\ UNCHANGED <<clientVars, fileVars, backupVars, trans, worn, step, io, crashed>>
     \/ i \in worn /\ Crash

(* The cleanup of an upload (again inside an assertion) closes its file.   *)
UploadDone(r) ==
  /\ dl.at = "idle" /\ r \in reading /\ Asserts
  /\ reading' = reading \ {r}
  /\ UNCHANGED <<clientVars, online, cached, disk, backupVars, transVars, step, io, dl,
                 crashed>>

----------------------------------------------------------------------------
(* Clients.                                                                *)

(* notify_disconnection of an owner: its tree is destroyed, and the local  *)
(* copies are deleted or, by the early return, left behind.                *)
OwnerLeaves(f) ==
  /\ f \in online
  /\ online' = online \ {f}
  /\ cached' = cached \ {f}
  /\ disk' \in {disk, [disk EXCEPT ![f] = "none"]}
  /\ UNCHANGED <<clientVars, reading, backupVars, transVars, step, io, dl, crashed>>

(* The last owner of the connection object drops it; a worker that serves  *)
(* the request still is one, until it has only a timer to start.  After    *)
(* the answer it makes no difference.                                      *)
RequesterLeaves(r) ==
  /\ ~crashed /\ r \notin gone \cup Held /\ replies[r] = <<>>
  /\ gone' = gone \cup {r}
  /\ UNCHANGED <<taken, replies, lost, stranded, fileVars, backupVars, transVars, step, io, dl,
                 crashed>>

----------------------------------------------------------------------------
Work(w) ==
  \/ DeliverFileFromLocalStorage(w)
  \/ IsDownloadPending(w)
  \/ LoadCounter(w)
  \/ StoreCounter(w)
  \/ CaptureRequestID(w)
  \/ EmplaceBackup(w)
  \/ StartBackupTimer(w)

IoWork == BeginDownloadTransaction \/ NotifyFileDownload \/ DenyWaiting

DlWork ==
  \/ CloseDownloadTransaction
  \/ SetFileToCached
  \/ DeliverToAll
  \/ DenyToAll
  \/ EndDownloadTransaction

Hello == HelloRefused \/ \E i \in DOMAIN trans : TryStartDownloadTransaction(i)

Next ==
  \/ \E w \in Worker : Work(w)
  \/ \E w \in Worker, r \in Req : Serve(w, r)
  \/ \E i \in DOMAIN backed, c \in Modes : DownloadReply(i, c)
  \/ \E r \in Req : BackupTimer(r)
  \/ IoWork
  \/ HandleHandshake
  \/ Hello
  \/ ReadHeader
  \/ \E i \in DOMAIN trans, ok \in BOOLEAN : Received(i, ok)
  \/ DlWork
  \/ \E i \in armed : TransactionTimer(i)
  \/ \E r \in Req : UploadDone(r)
  \/ \E r \in Req : RequesterLeaves(r)
  \/ \E f \in File : OwnerLeaves(f)

(* The ids that requests can get: the counter is incremented before use.   *)
Ids == 2 .. Cardinality(Req) + 1

(* The threads go on; a handler that is due is run although others come in *)
(* between (the handlers of an io_context queue up), and a mutex that is   *)
(* released again and again is obtained.                                   *)
ServerFairness ==
  /\ \A w \in Worker : WF_vars(Work(w))
  /\ SF_vars(IoWork)
  /\ WF_vars(DlWork)
  /\ SF_vars(\E r \in Req : BackupTimer(r))
  /\ SF_vars(\E i \in armed : TransactionTimer(i))

(* Clients that connect to the download port say something or close, and   *)
(* a transfer that was started ends.  Nothing in the code enforces it.     *)
PeersFairness ==
  /\ WF_vars(Hello \/ ReadHeader)
  /\ SF_vars(\E i \in DOMAIN trans, ok \in BOOLEAN : Received(i, ok))

SafeSpec == Init /\ [][Next]_vars
ServerSpec == SafeSpec /\ ServerFairness
Spec == ServerSpec /\ PeersFairness

----------------------------------------------------------------------------
(* Properties.                                                             *)

Entry == [file : File, reqs : SUBSET Req, timer : Req]
Timer == [names : Nat, at : {"new", "running", "over", "again"}]
AllModes == {"nocompression", "zlib", "gzip"}
Transaction == [file : File, mode : AllModes,
                state : {"waiting", "receiving", "closed", "broken"}]

ClientTypes ==
  /\ {taken, gone, lost, stranded} \subseteq SUBSET Req
  /\ replies \in [Req -> Seq({"ssl", "deny", "deliver"})]

FileTypes ==
  /\ online \subseteq File /\ cached \subseteq File /\ reading \subseteq Req
  /\ disk \in [File -> {"none", "empty", "partial", "full"}]

TableTypes ==
  /\ counter \in Nat /\ armed \subseteq Nat /\ worn \subseteq Nat
  /\ timers \in [Req -> Timer]
  /\ DOMAIN backed \subseteq Nat /\ \A i \in DOMAIN backed : backed[i] \in Entry
  /\ DOMAIN trans \subseteq Nat /\ \A i \in DOMAIN trans : trans[i] \in Transaction

ThreadTypes ==
  /\ step \in [Worker -> [at : WorkerStep, req : Req \cup {None}, id : Nat]]
  /\ io \in [at : IoStep, id : Nat, file : File \cup {None}, mode : AllModes]
  /\ dl \in [at : DlStep, id : Nat, ok : BOOLEAN]
  /\ \A w \in Worker : step[w].at \in {"idle", "start"} <=> step[w].req = None
  /\ \A w \in Worker : step[w].at = "start" => step[w].id \in DOMAIN backed
  /\ io.at \in {"begin", "notify"} => io.file \in File
  /\ dl.at \in {"header", "close", "cache", "deliver"} => dl.id \in DOMAIN trans
  /\ crashed \in BOOLEAN

(* The types of the state; a thread at work has a request, a file or an    *)
(* existing transaction to work on.                                        *)
TypeOK == ClientTypes /\ FileTypes /\ TableTypes /\ ThreadTypes

(* No request is answered twice, although a worker, the backup's timer,    *)
(* the io thread and the download thread may all be about to answer it.    *)
AnsweredOnce == \A r \in Req : Len(replies[r]) <= 1

(* A request that is being served and has no answer yet is in the hands of *)
(* a worker or among the waiting ones of an entry, unless its connection   *)
(* is gone or its backup found the id in use (connection_manager.cpp:430). *)
Accounted ==
  \A r \in taken :
    \/ crashed
    \/ replies[r] # <<>>
    \/ r \in gone \cup lost
    \/ r \in Held
    \/ \E i \in DOMAIN backed : r \in backed[i].reqs

(* Whoever waits has somebody who will answer: stopping the timer of an    *)
(* entry (IsRequestIDValid) hands it to the io thread, from there to the   *)
(* timer of a transaction, to its receiver or to the download thread, and  *)
(* no step in between leaves an entry to nobody.  The exception are the    *)
(* entries whose timer has captured another id, or was not the one that    *)
(* was started, because the counter changed between two of the three reads *)
(* (backup_requests_manager.h:66, :75, :76).                               *)
Clocked(i) ==
  \/ Running(backed[i].timer)
  \/ /\ timers[backed[i].timer].at = "new"
     /\ \E w \in Worker : step[w].at = "start" /\ step[w].id = i

Keeper(i) ==
  \/ Clocked(i)
  \/ io.id = i /\ io.at \in {"begin", "deny"}
  \/ i \in armed
  \/ i \in DOMAIN trans /\ trans[i].state \in {"receiving", "broken"}
  \/ dl.id = i /\ dl.at \in {"close", "cache", "deliver", "deny"}

Kept == \A i \in DOMAIN backed : backed[i].timer \in stranded \/ Keeper(i)

(* The download service: every request is answered once, or its client     *)
(* leaves; see DownloadService for what it concedes.                       *)
StatusOf(r) ==
  CASE Len(replies[r]) = 1 -> "answered"
    [] Len(replies[r]) > 1 -> "answered twice"
    [] replies[r] = <<>> /\ r \in gone -> "left"
    [] replies[r] = <<>> /\ r \in (lost \cup stranded) \ gone -> "lost"
    [] replies[r] = <<>> /\ r \in taken \ (lost \cup stranded \cup gone) -> "open"
    [] OTHER -> "new"

Service == INSTANCE DownloadService WITH
             status <- [r \in Req |-> StatusOf(r)], up <- ~crashed

ImplementsService == Service!Spec

(* The timer of a transaction expires unless the sender has come: "when    *)
(* timer will expire, he will clear all clients atomically, and will       *)
(* remove transaction" (connection_manager.cpp:531).                       *)
TimersExpire == \A i \in Ids : i \in armed ~> (i \notin armed \/ crashed)

(* Of a request whose owner does not approve, "we handle oly good case,    *)
(* worst case is handled by timer" (connection_manager.cpp:497): an entry  *)
(* is cleared in the end.                                                  *)
WorstCaseHandled ==
  \A i \in Ids : i \in DOMAIN backed ~> (i \notin DOMAIN backed \/ crashed)
=============================================================================
