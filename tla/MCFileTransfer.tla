--------------------------- MODULE MCFileTransfer ---------------------------
(* Owners' files of up to four bytes, buffers of two, two clients.        *)
EXTENDS FileTransfer

CONSTANTS f1, f2, c1, c2

MCSources == {[i \in 1 .. n |-> i] : n \in 0 .. 4}
MCFileOf == [c \in {c1, c2} |-> IF c = c1 THEN f1 ELSE f2]
MCStored == <<10, 11>>
=============================================================================
