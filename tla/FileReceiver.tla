---------------------------- MODULE FileReceiver ----------------------------
(***************************************************************************)
(* A receiver of the download port: it writes what the owner of a file     *)
(* sends to the local copy, and when no more comes in it reports success   *)
(* if as many bytes were written as the owner's reply had announced.       *)
(*                                                                         *)
(* Without compression the bytes come as a stream, and a read completes    *)
(* when the buffer is full or the owner has closed.  With zlib every chunk *)
(* has a header; the header is read by a blocking call on the download     *)
(* thread, the first one with download_mutex_ held.  Decompression gives   *)
(* the bytes the owner compressed.  Chunks fit the buffer.                 *)
(***************************************************************************)
EXTENDS Naturals, Sequences

CONSTANTS
    Sources,    \* the files an owner may have, sequences of bytes
    Sizes,      \* the sizes an owner's reply may announce
    Modes,      \* compressions with a receiver: "nocompression", "zlib"
    BufferSize  \* bytes that Buffer holds

VARIABLES
    source,     \* the owner's file
    FileSize,   \* the size its reply announced
    mode,       \* the compression its reply named
    sent,       \* how much of source the owner has sent
    wire,       \* what was sent and not read: bytes, or chunks
    closed,     \* the owner has closed the connection
    copy,       \* FileOnDisk
    rcv,        \* the receiver: where it is, Buffer, BytesWrottedToDisck
    result,     \* what Handler was called with
    faulty      \* history: a write to the disk has failed

peerVars == <<source, FileSize, mode, sent, closed>>

(* A chunk whose bytes did not all arrive, or do not decompress.           *)
Cut == <<>>

Init ==
  /\ source \in Sources /\ FileSize \in Sizes /\ mode \in Modes
  /\ sent = 0 /\ wire = <<>> /\ closed = FALSE
  /\ copy = <<>>
  /\ rcv = [at |-> "waiting", buf |-> <<>>, written |-> 0]
  /\ result = "none" /\ faulty = FALSE

----------------------------------------------------------------------------
(* The owner, after the start byte.  It may close at any moment, also in   *)
(* the middle of a chunk.                                                  *)

Send ==
  /\ rcv.at # "waiting" /\ ~closed /\ sent < Len(source)
  /\ \E n \in 1 .. BufferSize :
       /\ n = 1 \/ mode = "zlib"
       /\ sent + n <= Len(source)
       /\ LET bytes == SubSeq(source, sent + 1, sent + n) IN
            wire' = IF mode = "zlib" THEN Append(wire, bytes) ELSE wire \o bytes
       /\ sent' = sent + n
  /\ UNCHANGED <<source, FileSize, mode, closed, copy, rcv, result, faulty>>

Close ==
  /\ rcv.at # "waiting" /\ ~closed
  /\ closed' = TRUE
  /\ \/ UNCHANGED wire
     \/ mode = "zlib" /\ sent < Len(source) /\ wire' = Append(wire, Cut)
  /\ UNCHANGED <<source, FileSize, mode, sent, copy, rcv, result, faulty>>

----------------------------------------------------------------------------
(* The receiver.                                                           *)

Start ==
  /\ rcv.at = "waiting"
  /\ rcv' = [rcv EXCEPT !.at = IF mode = "zlib" THEN "first" ELSE "read"]
  /\ UNCHANGED <<peerVars, wire, copy, result, faulty>>

(* Mutant: whatever ends the transfer, it has succeeded. *)
CheckNothing ==
  /\ result' = "ok"
  /\ rcv' = [rcv EXCEPT !.at = "done", !.buf = <<>>]

CheckDownloadSuccess ==
  /\ result' = IF rcv.written = FileSize THEN "ok" ELSE "fail"
  /\ rcv' = [rcv EXCEPT !.at = "done", !.buf = <<>>]

(* A header is read, or the owner has closed without one.  The first one   *)
(* is read under download_mutex_, which the handler locks again: the       *)
(* thread never comes back ("dead").                                       *)
ReadChunkHeader ==
  /\ rcv.at \in {"first", "header"}
  /\ \/ /\ wire # <<>>
        /\ rcv' = [rcv EXCEPT !.at = "read"]
        /\ UNCHANGED result
     \/ /\ wire = <<>> /\ closed /\ rcv.at = "header"
        /\ CheckDownloadSuccess
     \/ /\ wire = <<>> /\ closed /\ rcv.at = "first"
        /\ rcv' = [rcv EXCEPT !.at = "dead"]
        /\ UNCHANGED result
  /\ UNCHANGED <<peerVars, wire, copy, faulty>>

(* Mutant: bytes that come with the end of the stream are not written. *)
StreamHandleReadFullOnly ==
  /\ rcv.at = "read" /\ mode = "nocompression"
  /\ \/ /\ Len(wire) >= BufferSize
        /\ rcv' = [rcv EXCEPT !.at = "write", !.buf = SubSeq(wire, 1, BufferSize)]
        /\ wire' = SubSeq(wire, BufferSize + 1, Len(wire))
        /\ UNCHANGED result
     \/ /\ closed /\ Len(wire) < BufferSize
        /\ CheckDownloadSuccess
        /\ UNCHANGED wire
  /\ UNCHANGED <<peerVars, copy, faulty>>

StreamHandleRead ==
  /\ rcv.at = "read" /\ mode = "nocompression"
  /\ LET n == IF Len(wire) >= BufferSize THEN BufferSize ELSE Len(wire) IN
     /\ n = BufferSize \/ closed
     /\ \/ /\ n > 0
           /\ rcv' = [rcv EXCEPT !.at = "write", !.buf = SubSeq(wire, 1, n)]
           /\ wire' = SubSeq(wire, n + 1, Len(wire))
           /\ UNCHANGED result
        \/ /\ n = 0
           /\ CheckDownloadSuccess
           /\ UNCHANGED wire
  /\ UNCHANGED <<peerVars, copy, faulty>>

CompressedHandleRead ==
  /\ rcv.at = "read" /\ mode = "zlib"
  /\ wire' = Tail(wire)
  /\ \/ /\ Head(wire) # Cut
        /\ rcv' = [rcv EXCEPT !.at = "write", !.buf = Head(wire)]
        /\ UNCHANGED result
     \/ /\ Head(wire) = Cut
        /\ CheckDownloadSuccess
  /\ UNCHANGED <<peerVars, copy, faulty>>

HandleWrite ==
  /\ rcv.at = "write"
  /\ copy' = copy \o rcv.buf
  /\ rcv' = [at |-> IF mode = "zlib" THEN "header" ELSE "read",
             buf |-> <<>>, written |-> rcv.written + Len(rcv.buf)]
  /\ UNCHANGED <<peerVars, wire, result, faulty>>

(* Some of the buffer may be on the disk.  The stream receiver reports an  *)
(* error, the compressed one compares what it has counted.                 *)
HandleWriteError ==
  /\ rcv.at = "write"
  /\ \E n \in 0 .. Len(rcv.buf) : copy' = copy \o SubSeq(rcv.buf, 1, n)
  /\ \/ mode = "zlib" /\ CheckDownloadSuccess
     \/ /\ mode = "nocompression"
        /\ result' = "fail"
        /\ rcv' = [rcv EXCEPT !.at = "done", !.buf = <<>>]
  /\ faulty' = TRUE
  /\ UNCHANGED <<peerVars, wire>>

----------------------------------------------------------------------------
Receive ==
  \/ ReadChunkHeader
  \/ StreamHandleRead
  \/ CompressedHandleRead
  \/ HandleWrite
  \/ HandleWriteError

Next == Start \/ Send \/ Close \/ Receive
=============================================================================
