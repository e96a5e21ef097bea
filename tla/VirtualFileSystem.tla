------------------------- MODULE VirtualFileSystem -------------------------
(***************************************************************************)
(* The tree of files a client shares (VirtualFileSystemTree.h) and the     *)
(* copies of them the server keeps on its own disk.                        *)
(*                                                                         *)
(* The owner's requests (PUSH_FILES, ADD_FILE, REMOVE_PATH, RENAME_PATH)   *)
(* run on any thread of the scheduler and change the tree, each under the  *)
(* tree's spin lock, so one request is one step.  A registration lists the *)
(* tree with Get, which walks the root's list of children OUTSIDE the lock *)
(* and takes it once per child: that walk is several steps.  A download    *)
(* looks a path up, stores the file under <owner>/<path> and only then     *)
(* marks the node as cached; the owner may change the tree, or leave, in   *)
(* between.                                                                *)
(*                                                                         *)
(* A path is the sequence of its non-empty components (get_components).    *)
(* Nodes are numbered in the order in which they are linked: push_front    *)
(* and remove keep a list of children sorted from the newest to the        *)
(* oldest, so the first child of a name is the one with the largest        *)
(* number.  The path of a file on the server's disk is its path in the     *)
(* tree (the owner's directory in front of it is left out).                *)
(***************************************************************************)
EXTENDS Integers, Sequences, FiniteSets, FiniteSetsExt

Seqs == INSTANCE SequencesExt

CONSTANTS
    Names,      \* path components
    NoName,     \* the empty or unprintable name of a destroyed string
    Paths,      \* the paths that appear in requests
    MaxNodes,   \* bound: nodes linked below the root
    MaxMoving,  \* bound: downloads in progress at once
    Asserts     \* TRUE in a Debug build: assert(e) evaluates e

ASSUME NamesAssumption == NoName \notin Names
ASSUME PathsAssumption == \A p \in Paths : p \in Seq(Names)
ASSUME BoundsAssumption == MaxNodes \in Nat /\ MaxMoving \in Nat
ASSUME BuildAssumption == Asserts \in BOOLEAN

VARIABLES
    nodes,      \* the tree: number -> name, parent, Cached_
    disk,       \* files in the owner's directory: path -> "partial" | "full"
    moving,     \* downloads from the owner: path -> how far they are
    owner,      \* "in" connections_, "leaving", "out", "gone": tree destroyed;
                \* "crashed": the process has died
    walk,       \* the progress of one Get, and what it should report
    renamed     \* history: some Rename has succeeded

vars == <<nodes, disk, moving, owner, walk, renamed>>

Root == 0
None == -1

----------------------------------------------------------------------------
(* The tree.  t is a value of nodes.                                       *)

Node(name, parent) == [name |-> name, parent |-> parent, cached |-> FALSE]

Childrens(t, n) == {m \in DOMAIN t \ {Root} : t[m].parent = n}

IsLeaf(t, n) == Childrens(t, n) = {}

GetChildren(t, n, name) ==
    LET found == {m \in Childrens(t, n) : t[m].name = name}
    IN  IF found = {} THEN None ELSE Max(found)

(* Newest-first: the list begins with the largest number. *)
NextChild(t, below) ==
    LET later == {m \in Childrens(t, Root) : m < below}
    IN  IF later = {} THEN None ELSE Max(later)

(* LocalPathToMe and MyPath, for every node. *)
PathsTo(t) ==
    LET path[n \in DOMAIN t] ==
            IF n = Root THEN <<>> ELSE Append(path[t[n].parent], t[n].name)
    IN  path

(* The node and all below it: the least set that holds n and the children *)
(* of its members.                                                        *)
Subtree(t, n) ==
    {m \in DOMAIN t :
        \A S \in SUBSET DOMAIN t :
            (n \in S /\ \A c \in DOMAIN t \ {Root} : t[c].parent \in S => c \in S)
            => m \in S}

(* The nodes that the components of p lead through, from the root on. *)
do_find_path(t, p) ==
    LET at[i \in 0..Len(p)] ==
            IF i = 0 THEN Root
            ELSE IF at[i - 1] = None THEN None
            ELSE GetChildren(t, at[i - 1], p[i])
    IN  at

do_find_node(t, p) == IF p = <<>> THEN None ELSE do_find_path(t, p)[Len(p)]

(* The leaves at and below n, as Get reports them (PathType::FILE). *)
do_get_paths(t, n) == {PathsTo(t)[m] : m \in {l \in Subtree(t, n) : IsLeaf(t, l)}}

(* Mutant: the children of a freed node stay linked to it. *)
DeleteKeepsChildren(t, n) == [m \in DOMAIN t \ {n} |-> t[m]]

(* Mutant: only the node that is named takes its local copy with it. *)
LocalFilesTop(t, n) == {PathsTo(t)[m] : m \in {l \in {n} : t[l].cached}}

(* ~Node: the node goes with its children, and each takes its local copy. *)
Delete(t, n) == [m \in DOMAIN t \ Subtree(t, n) |-> t[m]]
LocalFiles(t, n) == {PathsTo(t)[m] : m \in {l \in Subtree(t, n) : t[l].cached}}

(* push_front: the new nodes join the lists of children. *)
Link(t, new) ==
    [n \in DOMAIN t \cup DOMAIN new |-> IF n \in DOMAIN t THEN t[n] ELSE new[n]]

(* What a std::string may hold after its destructor has run. *)
Leftover(name) == {name, NoName}

(* Functions with one entry more, or without some. *)
Put(f, x, v) == [y \in DOMAIN f \cup {x} |-> IF y = x THEN v ELSE f[y]]
Without(f, S) == [x \in DOMAIN f \ S |-> f[x]]

----------------------------------------------------------------------------
(* Files on the disk: one path cannot be a file and a directory.           *)

Creatable(p) ==
    \A f \in DOMAIN disk : ~Seqs!IsStrictPrefix(f, p) /\ ~Seqs!IsStrictPrefix(p, f)

MoveFile(from, to) ==
    IF from \in DOMAIN disk /\ \A f \in DOMAIN disk : ~Seqs!IsStrictPrefix(f, to)
    THEN Put(Without(disk, {from}), to, disk[from])
    ELSE disk

----------------------------------------------------------------------------
(* Reference for the listing: the files of a tree, stated on its own.      *)

Files(t) ==
    {<<n, PathsTo(t)[n]>> :
        n \in {m \in DOMAIN t \ {Root} : \A c \in DOMAIN t : c # Root => t[c].parent # m}}

NoWalk == [phase |-> "idle", at |-> None, owed |-> {}]

(* What a walk in progress still owes after the tree has become t: the     *)
(* files it has not reported and that have been there all the time.  A     *)
(* walk whose current child is freed is left dangling.                     *)
Observe(t) ==
    IF walk.phase \in {"idle", "done"} THEN walk
    ELSE [walk EXCEPT !.at = IF @ \in DOMAIN t THEN @ ELSE None,
                      !.owed = @ \cap Files(t)]

SetTree(t) == nodes' = t /\ walk' = Observe(t)

(* Handlers hold the connection, so the tree is there while they run. *)
Served == owner \in {"in", "leaving", "out"}
Running == owner # "crashed"

Crash == owner' = "crashed" /\ UNCHANGED <<nodes, disk, moving, walk, renamed>>

----------------------------------------------------------------------------
(* The owner's requests.                                                   *)

Deepest(p) == Max({i \in 0..Len(p) : do_find_path(nodes, p)[i] # None})
NextNode == Max(DOMAIN nodes) + 1

(* Mutant: only the last component is linked. *)
LinkedLast(p, d) ==
    [k \in {NextNode} |-> Node(p[Len(p)], do_find_path(nodes, p)[d])]

(* New nodes for the components of p from depth d on. *)
Linked(p, d) ==
    [k \in NextNode..(NextNode + Len(p) - d - 1) |->
        LET i == d + 1 + k - NextNode
        IN  Node(p[i], IF i = d + 1 THEN do_find_path(nodes, p)[d] ELSE k - 1)]

(* After the recursion the loops of do_add go on to compare the component *)
(* they have popped with the older siblings; a match pops an empty list.  *)
PopsEmpty(p, d) ==
    \E i \in 1..d :
        /\ i < Len(p)
        /\ \E m \in Childrens(nodes, do_find_path(nodes, p)[i - 1]) :
              m < do_find_path(nodes, p)[i] /\ nodes[m].name \in Leftover(p[i])

(* Add of a path that exists hangs a node with the popped string as its   *)
(* name below the one found.                                              *)
Add(p) ==
    LET d == Deepest(p) IN
    /\ Served
    /\ p # <<>>
    /\ NextNode + Len(p) - d - 1 <= MaxNodes
    /\ \/ /\ d < Len(p)
          /\ SetTree(Link(nodes, Linked(p, d)))
          /\ UNCHANGED <<disk, moving, owner, renamed>>
       \/ /\ d = Len(p)
          /\ NextNode <= MaxNodes
          /\ \E name \in Leftover(p[d]) :
                SetTree(Put(nodes, NextNode, Node(name, do_find_path(nodes, p)[d])))
          /\ UNCHANGED <<disk, moving, owner, renamed>>
       \/ d = Len(p) /\ Crash
       \/ PopsEmpty(p, d) /\ Crash

(* Mutant: the directory goes when its last file goes. *)
RemovePrunes(p) ==
    LET n == do_find_node(nodes, p)
        up == nodes[n].parent
        top == IF up # Root /\ Childrens(nodes, up) = {n} THEN up ELSE n IN
    /\ Served
    /\ n # None
    /\ SetTree(Delete(nodes, top))
    /\ disk' = Without(disk, LocalFiles(nodes, top))
    /\ UNCHANGED <<moving, owner, renamed>>

Remove(p) ==
    LET n == do_find_node(nodes, p) IN
    /\ Served
    /\ n # None
    /\ SetTree(Delete(nodes, n))
    /\ disk' = Without(disk, LocalFiles(nodes, n))
    /\ UNCHANGED <<moving, owner, renamed>>

(* The node takes the last component of the new path, whatever its        *)
(* siblings are called.  The local copy is to be moved to a path INSIDE   *)
(* the file it is in: relative_path().append(FileName).                   *)
Rename(p, name) ==
    LET n == do_find_node(nodes, p) IN
    /\ Served
    /\ n # None
    /\ name # NoName
    /\ SetTree([nodes EXCEPT ![n].name = name])
    /\ disk' = IF nodes[n].cached
               THEN MoveFile(PathsTo(nodes)[n], Append(PathsTo(nodes)[n], name))
               ELSE disk
    /\ renamed' = TRUE
    /\ UNCHANGED <<moving, owner>>

----------------------------------------------------------------------------
(* Get, as one registration runs it.                                       *)

GetBegin ==
    /\ Served
    /\ walk.phase = "idle"
    /\ walk' = [phase |-> IF IsLeaf(nodes, Root) THEN "done" ELSE "visit",
                at |-> NextChild(nodes, MaxNodes + 1),
                owed |-> Files(nodes)]
    /\ UNCHANGED <<nodes, disk, moving, owner, renamed>>

(* One child, under the spin lock. *)
GetVisit ==
    /\ Running
    /\ walk.phase = "visit"
    /\ walk.at # None
    /\ walk' = [walk EXCEPT !.phase = "next",
                            !.owed = {f \in @ : f[2] \notin do_get_paths(nodes, walk.at)}]
    /\ UNCHANGED <<nodes, disk, moving, owner, renamed>>

(* Mutant: the body of the loop advances the iterator too. *)
GetNextTwice ==
    /\ Running
    /\ walk.phase = "next"
    /\ walk.at # None
    /\ LET n == NextChild(nodes, NextChild(nodes, walk.at)) IN
       walk' = [walk EXCEPT !.phase = IF n = None THEN "done" ELSE "visit", !.at = n]
    /\ UNCHANGED <<nodes, disk, moving, owner, renamed>>

(* On to the next child, with the lock released. *)
GetNext ==
    /\ Running
    /\ walk.phase = "next"
    /\ walk.at # None
    /\ LET n == NextChild(nodes, walk.at) IN
       walk' = [walk EXCEPT !.phase = IF n = None THEN "done" ELSE "visit", !.at = n]
    /\ UNCHANGED <<nodes, disk, moving, owner, renamed>>

(* The child was freed: the walk reads freed memory. *)
GetDangling ==
    /\ Running
    /\ walk.phase \in {"visit", "next"}
    /\ walk.at = None
    /\ walk' = NoWalk
    /\ owner' \in {owner, "crashed"}
    /\ UNCHANGED <<nodes, disk, moving, renamed>>

GetEnd ==
    /\ Running
    /\ walk.phase = "done"
    /\ walk' = NoWalk
    /\ UNCHANGED <<nodes, disk, moving, owner, renamed>>

----------------------------------------------------------------------------
(* Downloads, as far as the tree and the disk are concerned.               *)

(* The path is listed and not cached, and nobody has asked for it yet. *)
Ask(p) ==
    LET n == do_find_node(nodes, p) IN
    /\ owner = "in"
    /\ n # None
    /\ ~nodes[n].cached
    /\ p \notin DOMAIN moving
    /\ Cardinality(DOMAIN moving) < MaxMoving
    /\ moving' = Put(moving, p, "asked")
    /\ UNCHANGED <<nodes, disk, owner, walk, renamed>>

(* The owner agrees: the directories are made and the file is created. *)
Open(p) ==
    /\ Running
    /\ moving[p] = "asked"
    /\ Creatable(p)
    /\ disk' = Put(disk, p, "partial")
    /\ moving' = [moving EXCEPT ![p] = "receiving"]
    /\ UNCHANGED <<nodes, owner, walk, renamed>>

(* All bytes are written, unless the file has been unlinked meanwhile. *)
Received(p) ==
    /\ Running
    /\ moving[p] = "receiving"
    /\ moving' = [moving EXCEPT ![p] = "stored"]
    /\ disk' = [f \in DOMAIN disk |-> IF f = p THEN "full" ELSE disk[f]]
    /\ UNCHANGED <<nodes, owner, walk, renamed>>

(* Refused, timed out or broken off: what is on the disk stays there. *)
GiveUp(p) ==
    /\ Running
    /\ moving[p] \in {"asked", "receiving"}
    /\ moving' = Without(moving, {p})
    /\ UNCHANGED <<nodes, disk, owner, walk, renamed>>

(* assert(SetCached(FilePath, true)): it finds the node, or aborts the     *)
(* Debug build; a Release build does not even look.                       *)
SetFileToCached(p) ==
    LET n == do_find_node(nodes, p) IN
    /\ Running
    /\ moving[p] = "stored"
    /\ IF owner = "in" /\ Asserts /\ n = None
       THEN Crash
       ELSE /\ moving' = Without(moving, {p})
            /\ nodes' = IF owner = "in" /\ Asserts
                        THEN [nodes EXCEPT ![n].cached = TRUE] ELSE nodes
            /\ UNCHANGED <<disk, owner, walk, renamed>>

----------------------------------------------------------------------------
(* The owner leaves: erased from connections_, its directory removed (the  *)
(* last processing client returns before that), and the tree destroyed     *)
(* when the last handler lets go of the connection.                        *)

Leave ==
    /\ owner = "in"
    /\ owner' = "leaving"
    /\ UNCHANGED <<nodes, disk, moving, walk, renamed>>

RemoveDirectory ==
    /\ owner = "leaving"
    /\ owner' = "out"
    /\ disk' \in {<<>>, disk}
    /\ UNCHANGED <<nodes, moving, walk, renamed>>

Destroy ==
    /\ owner = "out"
    /\ walk.phase \in {"idle", "done"}
    /\ owner' = "gone"
    /\ nodes' = Delete(nodes, Root)
    /\ disk' = Without(disk, LocalFiles(nodes, Root))
    /\ UNCHANGED <<moving, walk, renamed>>

----------------------------------------------------------------------------
Init ==
    /\ nodes = [n \in {Root} |-> Node(NoName, Root)]
    /\ disk = <<>>
    /\ moving = <<>>
    /\ owner = "in"
    /\ walk = NoWalk
    /\ renamed = FALSE

Next ==
    \/ \E p \in Paths : Add(p)
    \/ \E p \in Paths : Remove(p)
    \/ \E p \in Paths, name \in Names \cup {NoName} : Rename(p, name)
    \/ GetBegin
    \/ GetVisit
    \/ GetNext
    \/ GetDangling
    \/ GetEnd
    \/ \E p \in Paths : Ask(p)
    \/ \E p \in DOMAIN moving : Open(p)
    \/ \E p \in DOMAIN moving : Received(p)
    \/ \E p \in DOMAIN moving : GiveUp(p)
    \/ \E p \in DOMAIN moving : SetFileToCached(p)
    \/ Leave
    \/ RemoveDirectory
    \/ Destroy

Spec == Init /\ [][Next]_vars

----------------------------------------------------------------------------
(* Properties.                                                             *)

(* The tree is a tree: every node hangs below a live node linked before    *)
(* it, so nothing that do_add links or ~Node unlinks is ever lost or       *)
(* freed with a child still alive; the other variables have their types.   *)
TypeOK ==
    /\ DOMAIN nodes \subseteq Root..MaxNodes
    /\ \A n \in DOMAIN nodes :
          /\ nodes[n].name \in Names \cup {NoName}
          /\ nodes[n].cached \in BOOLEAN
          /\ nodes[n].parent \in DOMAIN nodes
          /\ n # Root => nodes[n].parent < n
    /\ owner # "crashed" => (Root \in DOMAIN nodes <=> owner # "gone")
    /\ \A f \in DOMAIN disk : disk[f] \in {"partial", "full"}
    /\ DOMAIN moving \subseteq Paths
    /\ \A p \in DOMAIN moving : moving[p] \in {"asked", "receiving", "stored"}
    /\ owner \in {"in", "leaving", "out", "gone", "crashed"}
    /\ walk.phase \in {"idle", "visit", "next", "done"}
    /\ walk.at \in {None} \cup (DOMAIN nodes \ {Root})
    /\ renamed \in BOOLEAN

(* A listing reports every file that was in the tree for as long as the    *)
(* walk took, although Get holds the spin lock for one child at a time     *)
(* and the owner adds, removes and renames in between.                     *)
ListingComplete == walk.phase = "done" => walk.owed = {}

(* As long as nothing has been renamed, the complete copies on the disk    *)
(* of a present owner all belong to a cached node or to a download that    *)
(* is about to mark one: the copies ~Node leaves behind would never be     *)
(* found again (Debug build).                                              *)
NoStrayFiles ==
    owner = "in" /\ Asserts /\ ~renamed =>
        \A f \in DOMAIN disk :
            disk[f] = "full" =>
                \/ \E n \in DOMAIN nodes : nodes[n].cached /\ PathsTo(nodes)[n] = f
                \/ f \in DOMAIN moving /\ moving[f] = "stored"

(* do_add and do_find_node agree: a path that was added is found, whatever *)
(* equally named siblings renames have left on the way.                    *)
AddedIsFound ==
    [][\A p \in Paths \ {<<>>} :
          do_find_node(nodes', p) = None => ~(Add(p) /\ owner' # "crashed")]_vars

(* An edit of a path changes what is found under that path and under its   *)
(* new name, and nothing else.                                             *)
EditsStayBelow ==
    [][\A q \in {r \in Paths \ {<<>>} : do_find_node(nodes, r) # do_find_node(nodes', r)},
          p \in Paths \ {<<>>} :
             ~Seqs!IsPrefix(p, q) =>
                /\ ~Remove(p)
                /\ do_find_node(nodes, q) # None => ~Add(p)
                /\ \A name \in Names :
                      Rename(p, name) => Seqs!IsPrefix(Append(Seqs!Front(p), name), q)]_vars

(* The comment "deliver async from local storage": a node that Find calls  *)
(* cached has a complete copy under its own path.  Rename breaks it.       *)
CachedIsStored ==
    owner = "in" =>
        \A n \in DOMAIN nodes :
            nodes[n].cached =>
                /\ PathsTo(nodes)[n] \in DOMAIN disk
                /\ disk[PathsTo(nodes)[n]] = "full"
============================================================================
