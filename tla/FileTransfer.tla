---------------------------- MODULE FileTransfer ----------------------------
(***************************************************************************)
(* The way of a file from its owner to the clients that asked for it: one  *)
(* file (Fresh) is being received, the others have a local copy already,   *)
(* and both are delivered, the fresh one by the download thread once the   *)
(* receiver has closed it, the others by threads of the scheduler.         *)
(***************************************************************************)
EXTENDS Naturals, Sequences

CONSTANTS Sources, Sizes, Modes, BufferSize,
          Client, File, FileOf, BlockSize, Asserts,
          Byte,       \* what files are made of
          Fresh,      \* the file that is received
          Stored      \* the bytes of the other files' copies

ASSUME FilesAssumption == Fresh \in File /\ FileOf \in [Client -> File]
ASSUME BytesAssumption == Sources \subseteq Seq(Byte) /\ Stored \in Seq(Byte)
ASSUME ModesAssumption == Modes \subseteq {"nocompression", "zlib"}
ASSUME SizesAssumption == Sizes \subseteq Nat /\ {BufferSize, BlockSize} \subseteq Nat \ {0}
ASSUME BuildAssumption == Asserts \in BOOLEAN

VARIABLES source, FileSize, mode, sent, wire, closed, copy, rcv, result, faulty,
          counter, begun, uploads, got, broken, repeated, aborted

Received == INSTANCE FileReceiver

Delivered == INSTANCE Uploads WITH
  available <- (File \ {Fresh}) \cup (IF result = "ok" THEN {Fresh} ELSE {}),
  content <- [f \in File |-> IF f = Fresh THEN copy ELSE Stored]

receiverVars == <<source, FileSize, mode, sent, wire, closed, copy, rcv, result, faulty>>
uploadVars == <<counter, begun, uploads, got, broken, repeated, aborted>>
vars == <<receiverVars, uploadVars>>

Init == Received!Init /\ Delivered!Init

(* The download thread waits for a chunk header, or for its own mutex, and *)
(* does nothing else meanwhile.                                            *)
Blocked == rcv.at \in {"first", "header", "dead"}

Receiving ==
  /\ ~aborted
  /\ Received!Start \/ Received!Receive
  /\ UNCHANGED uploadVars

OwnerSends ==
  /\ Received!Send \/ Received!Close
  /\ UNCHANGED uploadVars

Beginning(c) ==
  /\ Delivered!Begin(c)
  /\ UNCHANGED receiverVars

Connecting(c) ==
  /\ ~Blocked
  /\ Delivered!Connect(c)
  /\ UNCHANGED receiverVars

Delivering(i) ==
  /\ ~Blocked
  /\ Delivered!DeliverBlock(i)
  /\ UNCHANGED receiverVars

Failing(i) ==
  /\ ~Blocked
  /\ Delivered!DeliveryError(i)
  /\ UNCHANGED receiverVars

Next ==
  \/ Receiving
  \/ OwnerSends
  \/ \E c \in Client : Beginning(c) \/ Connecting(c)
  \/ \E i \in DOMAIN uploads : Delivering(i) \/ Failing(i)

(* The threads go on, an owner that has begun to send goes on or closes,   *)
(* and a client that has connected reads what it is sent or is gone.       *)
(* Nobody has to connect, and nothing has to fail.                         *)
Fairness ==
  /\ WF_vars(Receiving /\ rcv.at # "waiting")
  /\ WF_vars(OwnerSends)
  /\ \A c \in Client : WF_vars(Beginning(c))
  /\ WF_vars(\E i \in DOMAIN uploads : Delivering(i))

Spec == Init /\ [][Next]_vars /\ Fairness

----------------------------------------------------------------------------
(* Properties.                                                             *)

Content(f) == IF f = Fresh THEN copy ELSE Stored

(* Two threads have read the id counter before either incremented it.      *)
Mixed == \E c \in Client :
           /\ begun[c].at \in {"told", "connected", "refused"}
           /\ begun[c].id # begun[c].told \/ begun[c].id # begun[c].clean

Served(c) ==
  /\ begun[c].at = "connected" /\ begun[c].told \notin DOMAIN uploads
  /\ c \notin broken /\ ~aborted

(* The types of the state.                                                 *)
TypeOK ==
  /\ FileSize \in Sizes /\ sent \in 0 .. Len(source) /\ closed \in BOOLEAN
  /\ rcv.at \in {"waiting", "first", "header", "read", "write", "done", "dead"}
  /\ result \in {"none", "ok", "fail"} /\ (result = "none" <=> rcv.at # "done")
  /\ \A c \in Client : begun[c].at \in {"asked", "denied", "opened", "read", "told",
                                       "connected", "refused"}
  /\ repeated \subseteq Client
  /\ \A i \in DOMAIN uploads :
       /\ uploads[i].peer \in Client
       /\ uploads[i].at \in {"waiting", "read", "write", "over"}
       /\ uploads[i].pos \in 0 .. Len(Content(uploads[i].file))

(* From the owner to the client: what a client has got is the beginning of *)
(* the local copy of the file it asked for, all of it when its delivery    *)
(* ended without an error, whatever the size of the file and the buffers   *)
(* (unless two uploads began at once, or the client itself said hello to a *)
(* delivery at work); and the copy a receiver reports as good has as many  *)
(* bytes as were announced, the owner's, in order.                         *)
EndToEnd ==
  /\ ~Mixed => \A c \in Client \ repeated :
       LET whole == Content(FileOf[c]) IN
       /\ Len(got[c]) <= Len(whole) /\ got[c] = SubSeq(whole, 1, Len(got[c]))
       /\ Served(c) => got[c] = whole
  /\ result = "ok" =>
       /\ FileSize <= Len(source) /\ FileSize <= Len(copy)
       /\ SubSeq(copy, 1, FileSize) = SubSeq(source, 1, FileSize)

(* A file that arrives as it was announced is accepted: with or without    *)
(* compression, empty, or as long as a number of buffers.                  *)
Accepted ==
  rcv.at = "done" /\ FileSize = Len(source) /\ sent = Len(source) /\ ~faulty
    => result = "ok"

(* assert(EndUploadTransaction(ID)) holds and no deliverer is destroyed at *)
(* work or loses its connection, unless two uploads began at once or a     *)
(* client said hello a second time for an upload that was under way.       *)
CleanUpSafe == aborted => Mixed \/ repeated # {}

(* A transfer that was started ends, and a delivery does; the exception is *)
(* a download thread that has locked its mutex twice.                      *)
TransfersEnd ==
  /\ rcv.at # "waiting" ~> rcv.at \in {"done", "dead"} \/ aborted
  /\ \A c \in Client :
       begun[c].at = "connected" ~>
         \/ begun[c].told \notin DOMAIN uploads
         \/ uploads[begun[c].told].at = "over"
         \/ rcv.at = "dead"
=============================================================================
