------------------------------ MODULE Uploads ------------------------------
(***************************************************************************)
(* Upload transactions: local copies delivered to the clients that asked   *)
(* for them.                                                               *)
(*                                                                         *)
(* A transaction is begun by the thread that answers the request, one of   *)
(* the scheduler's or the download thread.  The id counter is read three   *)
(* times without upload_mutex_ (for the clean-up handler, for the timer    *)
(* and for the client) and a fourth time, and incremented, with it.  The   *)
(* timer is never started, so what it captures has no effect.  The client  *)
(* connects to the download port, names the id it was told and is sent the *)
(* file, buffer by buffer, by the download thread.                         *)
(*                                                                         *)
(* The stream and the compressed deliverer differ in what a buffer looks   *)
(* like on the wire; a client decompresses what it gets.                   *)
(***************************************************************************)
EXTENDS Naturals, Sequences

CONSTANTS
    Client,     \* clients whose request a thread is about to answer
    File,       \* files with a local copy
    FileOf,     \* FileOf[c]: the file c has asked for
    BlockSize,  \* bytes that a deliverer's Buffer holds
    Asserts     \* TRUE in a Debug build: assert(e) evaluates e

VARIABLES
    available,  \* files a thread may deliver (of the receiver, not changed here)
    content,    \* File -> the bytes of its local copy (as above)
    counter,    \* upload_transactions_id_counter_
    begun,      \* Client -> BeginUploadTransaction: where it is, ids it has read
    uploads,    \* upload_transactions_
    got,        \* Client -> the bytes it has received
    broken,     \* history: clients whose delivery met a read or write error
    repeated,   \* history: clients that said hello again, to a delivery begun
    aborted     \* the process has died

Drop(f, i) == [j \in DOMAIN f \ {i} |-> f[j]]

Init ==
  /\ counter = 1
  /\ begun = [c \in Client |-> [at |-> "asked", clean |-> 0, told |-> 0, id |-> 0]]
  /\ uploads = <<>>
  /\ got = [c \in Client |-> <<>>]
  /\ broken = {} /\ repeated = {} /\ aborted = FALSE

----------------------------------------------------------------------------
(* BeginUploadTransaction, as called by DeliverFileFromLocalStorage.       *)

(* An empty file, or one that cannot be opened, is denied.  The clean-up   *)
(* handler captures the counter.                                           *)
OpenLocalFile(c) ==
  /\ begun[c].at = "asked" /\ FileOf[c] \in available
  /\ \/ begun' = [begun EXCEPT ![c].at = "denied"]
     \/ /\ content[FileOf[c]] # <<>>
        /\ begun' = [begun EXCEPT ![c].at = "opened", ![c].clean = counter]
  /\ UNCHANGED <<counter, uploads, got, broken, repeated, aborted>>

ReadTransactionID(c) ==
  /\ begun[c].at = "opened"
  /\ begun' = [begun EXCEPT ![c].at = "read", ![c].told = counter]
  /\ UNCHANGED <<counter, uploads, got, broken, repeated, aborted>>

(* Mutant: the counter stays as it is. *)
EmplaceSameId(c) ==
  /\ begun[c].at = "read"
  /\ uploads' = IF counter \in DOMAIN uploads THEN uploads
                ELSE [i \in DOMAIN uploads \cup {counter} |->
                       IF i = counter
                       THEN [file |-> FileOf[c], clean |-> begun[c].clean, at |-> "waiting",
                             peer |-> c, pos |-> 0, buf |-> <<>>, done |-> FALSE]
                       ELSE uploads[i]]
  /\ begun' = [begun EXCEPT ![c].at = "told", ![c].id = counter]
  /\ UNCHANGED <<counter, got, broken, repeated, aborted>>

(* The critical section; then the client is told its id.                   *)
EmplaceUpload(c) ==
  /\ begun[c].at = "read"
  /\ uploads' = [i \in DOMAIN uploads \cup {counter} |->
                   IF i = counter
                   THEN [file |-> FileOf[c], clean |-> begun[c].clean, at |-> "waiting",
                         peer |-> c, pos |-> 0, buf |-> <<>>, done |-> FALSE]
                   ELSE uploads[i]]
  /\ counter' = counter + 1
  /\ begun' = [begun EXCEPT ![c].at = "told", ![c].id = counter]
  /\ UNCHANGED <<got, broken, repeated, aborted>>

----------------------------------------------------------------------------
(* Delivery, on the download thread.                                       *)

Abort ==
  /\ aborted' = TRUE
  /\ uploads' = <<>>
  /\ UNCHANGED begun

(* TryStartUploadTransaction: the deliverer of the id that c was told      *)
(* takes the connection, however often.  One that is at work loses the     *)
(* connection it is working on and is started again, while an operation is *)
(* pending that uses the same buffer: that may be the end, or the delivery *)
(* goes on where the file is, on the new connection.  So does one that is  *)
(* over and was left in the table.                                         *)
Connect(c) ==
  LET i == begun[c].told IN
  /\ ~aborted /\ begun[c].at \in {"told", "connected"}
  /\ \/ /\ i \in DOMAIN uploads /\ uploads[i].at = "waiting"
        /\ uploads' = [uploads EXCEPT ![i].at = "read", ![i].peer = c]
        /\ begun' = [begun EXCEPT ![c].at = "connected"]
        /\ UNCHANGED <<counter, got, broken, repeated, aborted>>
     \/ /\ i \notin DOMAIN uploads /\ begun[c].at = "told"
        /\ begun' = [begun EXCEPT ![c].at = "refused"]
        /\ UNCHANGED <<counter, uploads, got, broken, repeated, aborted>>
     \/ /\ i \in DOMAIN uploads /\ uploads[i].at # "waiting"
        /\ repeated' = repeated \cup {d \in {c} : begun[c].at = "connected"}
        /\ \/ /\ uploads' = [uploads EXCEPT ![i].at = "read", ![i].peer = c, ![i].buf = <<>>]
              /\ begun' = [begun EXCEPT ![c].at = "connected"]
              /\ UNCHANGED aborted
           \/ uploads[i].at \in {"read", "write"} /\ Abort
        /\ UNCHANGED <<counter, got, broken>>

(* The clean-up handler: assert(EndUploadTransaction(ID)) with the id that *)
(* was captured.  It must be in the table, and destroying a deliverer that *)
(* is at work is fatal, too.  A Release build leaves everything in place.  *)
CleanUp(i) ==
  LET k == uploads[i].clean IN
  \/ /\ k = i \/ ~Asserts
     /\ uploads' = IF Asserts THEN Drop(uploads, i) ELSE [uploads EXCEPT ![i].at = "over"]
     /\ UNCHANGED <<begun, aborted>>
  \/ /\ Asserts /\ k # i /\ k \in DOMAIN uploads /\ uploads[k].at \in {"waiting", "over"}
     /\ uploads' = Drop([uploads EXCEPT ![i].at = "over"], k)
     /\ UNCHANGED <<begun, aborted>>
  \/ /\ Asserts /\ k # i /\ (k \in DOMAIN uploads => uploads[k].at \in {"read", "write"})
     /\ Abort

Remaining(u) == Len(content[u.file]) - u.pos

Last(u) == Remaining(u) < BlockSize

(* Mutant: the position moves on by a whole buffer at the end, too. *)
HandleReadPast(i) ==
  LET u == uploads[i]
      n == IF Last(u) THEN Remaining(u) ELSE BlockSize
  IN
  /\ u.at = "read"
  /\ \/ /\ n > 0
        /\ uploads' = [uploads EXCEPT ![i] =
             [u EXCEPT !.at = "write", !.pos = u.pos + BlockSize, !.done = Last(u),
                       !.buf = SubSeq(content[u.file], u.pos + 1, u.pos + n)]]
        /\ UNCHANGED <<begun, aborted>>
     \/ n = 0 /\ CleanUp(i)
  /\ UNCHANGED <<counter, got, broken, repeated>>

(* Mutant: the end of the file with nothing read is not the end. *)
HandleReadEmptyEnd(i) ==
  LET u == uploads[i]
      n == IF Last(u) THEN Remaining(u) ELSE BlockSize
  IN
  /\ u.at = "read" /\ n > 0
  /\ uploads' = [uploads EXCEPT ![i] =
       [u EXCEPT !.at = "write", !.pos = u.pos + n, !.done = Last(u),
                 !.buf = SubSeq(content[u.file], u.pos + 1, u.pos + n)]]
  /\ UNCHANGED <<counter, begun, got, broken, repeated, aborted>>

(* A read fills the buffer or meets the end of the file, which sets        *)
(* DoneFlag; with nothing read at the end the deliverer is through.        *)
HandleRead(i) ==
  LET u == uploads[i]
      n == IF Last(u) THEN Remaining(u) ELSE BlockSize
  IN
  /\ u.at = "read"
  /\ \/ /\ n > 0
        /\ uploads' = [uploads EXCEPT ![i] =
             [u EXCEPT !.at = "write", !.pos = u.pos + n, !.done = Last(u),
                       !.buf = SubSeq(content[u.file], u.pos + 1, u.pos + n)]]
        /\ UNCHANGED <<begun, aborted>>
     \/ n = 0 /\ CleanUp(i)
  /\ UNCHANGED <<counter, got, broken, repeated>>

HandleWrite(i) ==
  LET u == uploads[i] IN
  /\ u.at = "write"
  /\ got' = [got EXCEPT ![u.peer] = @ \o u.buf]
  /\ \/ u.done /\ CleanUp(i)
     \/ /\ ~u.done
        /\ uploads' = [uploads EXCEPT ![i].at = "read", ![i].buf = <<>>]
        /\ UNCHANGED <<begun, aborted>>
  /\ UNCHANGED <<counter, broken, repeated>>

(* The local copy cannot be read, or the client has closed.                *)
DeliveryError(i) ==
  /\ uploads[i].at \in {"read", "write"}
  /\ broken' = broken \cup {uploads[i].peer}
  /\ CleanUp(i)
  /\ UNCHANGED <<counter, got, repeated>>

----------------------------------------------------------------------------
Begin(c) == ~aborted /\ (OpenLocalFile(c) \/ ReadTransactionID(c) \/ EmplaceUpload(c))

DeliverBlock(i) == HandleRead(i) \/ HandleWrite(i)

Next ==
  \/ \E c \in Client : Begin(c) \/ Connect(c)
  \/ \E i \in DOMAIN uploads : DeliverBlock(i) \/ DeliveryError(i)
=============================================================================
