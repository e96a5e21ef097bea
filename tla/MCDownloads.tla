---------------------------- MODULE MCDownloads ----------------------------
(* Requests for one file.                                                  *)
EXTENDS Downloads

CONSTANTS f1, r1, r2

OneFile == [r \in Req |-> f1]
============================================================================
