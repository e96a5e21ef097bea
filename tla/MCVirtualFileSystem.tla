------------------------ MODULE MCVirtualFileSystem ------------------------
(***************************************************************************)
(* Two component names, paths of up to two components.                     *)
(***************************************************************************)
EXTENDS VirtualFileSystem

CONSTANTS a, b

MCPaths == {<<>>, <<a>>, <<b>>, <<a, b>>}

(* A listing reads the shape of the tree and the names in it, a download    *)
(* changes only Cached_, the disk and moving: neither sees the other, so    *)
(* they are explored side by side and not interleaved.                     *)
Focus == walk.phase = "idle" \/ (moving = <<>> /\ disk = <<>> /\ owner = "in")
============================================================================
