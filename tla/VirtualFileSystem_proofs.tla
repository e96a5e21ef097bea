---------------------- MODULE VirtualFileSystem_proofs ----------------------
(***************************************************************************)
(* Proofs about the shared tree and the local copies                       *)
(* (VirtualFileSystem).                                                    *)
(*                                                                         *)
(* The paths of nodes and the look-up of a path are recursive functions.   *)
(* What they compute is proved by least counterexample: a set of naturals  *)
(* that is not empty has a least member (Least).  First come facts about   *)
(* trees, then the type invariant, the listing and the local copies, and   *)
(* last what an edit of the tree does to the look-up of every path.        *)
(***************************************************************************)
EXTENDS VirtualFileSystem, SequenceTheorems, WellFoundedInduction, TLAPS

----------------------------------------------------------------------------
(* Least and largest numbers.                                              *)

(* A set of naturals that is not empty has a least member. *)
LEMMA Least ==
    ASSUME NEW T \in SUBSET Nat, T # {}
    PROVE  \E x \in T : \A y \in T : x <= y
<1>1. PICK x \in T : \A y \in T : ~(<<y, x>> \in OpToRel(<, Nat))
  BY NatLessThanWellFounded, WFMin
<1>2. ASSUME NEW a \in Nat, NEW b \in Nat, a < b
      PROVE  <<a, b>> \in OpToRel(<, Nat)
  BY <1>2 DEF OpToRel
<1>3. ASSUME NEW y \in T, y < x PROVE FALSE
  BY <1>1, <1>2, <1>3
<1> QED BY <1>3

(* A bounded set of naturals that is not empty has a largest member, and   *)
(* Max is it.                                                              *)
LEMMA MaxIsLargest ==
    ASSUME NEW S \in SUBSET Nat, S # {},
           NEW b \in Nat, \A y \in S : y <= b
    PROVE  Max(S) \in S /\ \A y \in S : y <= Max(S)
<1> DEFINE T == {k \in Nat : \A y \in S : y <= k}
<1>1. PICK k \in T : \A j \in T : k <= j
  <2>1. b \in T OBVIOUS
  <2> QED BY <2>1, Least
<1>2. k \in S
  <2>1. SUFFICES ASSUME k \notin S PROVE FALSE OBVIOUS
  <2>2. \A y \in S : y < k BY <2>1
  <2>3. k \in Nat /\ k # 0
    <3>1. PICK y \in S : TRUE OBVIOUS
    <3>2. y \in Nat /\ k \in Nat /\ y < k BY <2>2
    <3> QED BY <3>2
  <2>5. \A y \in S : y \in Nat /\ y <= k - 1
    BY <2>2, <2>3
  <2>4. k - 1 \in T BY <2>3, <2>5
  <2> QED BY <2>4, <1>1
<1>3. \A y \in S : k >= y OBVIOUS
<1> QED BY <1>2, <1>3 DEF Max

----------------------------------------------------------------------------
(* Trees: every node hangs below a node of a smaller number.               *)

NodeType == [name : Names \cup {NoName}, parent : Nat, cached : BOOLEAN]

Tree(t) ==
    /\ DOMAIN t \subseteq 0..MaxNodes
    /\ t \in [DOMAIN t -> NodeType]
    /\ \A n \in DOMAIN t :
          /\ t[n].parent \in DOMAIN t
          /\ IF n = Root THEN t[n].parent = Root ELSE t[n].parent < n

(* u is t with more nodes, or with other names and marks. *)
Grows(u, t) ==
    /\ DOMAIN t \subseteq DOMAIN u
    /\ \A n \in DOMAIN t : u[n].parent = t[n].parent

(* u is t with more nodes, or with other marks. *)
Extends(u, t) == Grows(u, t) /\ \A n \in DOMAIN t : u[n].name = t[n].name

(* The first child of a name is a child of that name, and no child of the  *)
(* name was linked after it.                                               *)
LEMMA ChildrenFound ==
    ASSUME NEW t, Tree(t), NEW n, NEW name
    PROVE  LET g == GetChildren(t, n, name) IN
           \/ /\ g = None
              /\ \A m \in Childrens(t, n) : t[m].name # name
           \/ /\ g \in Childrens(t, n)
              /\ t[g].name = name
              /\ \A m \in Childrens(t, n) : t[m].name = name => m <= g
<1> DEFINE found == {m \in Childrens(t, n) : t[m].name = name}
<1>1. CASE found = {}
  BY <1>1 DEF GetChildren
<1>2. CASE found # {}
  <2>1. found \in SUBSET Nat /\ \A y \in found : y <= MaxNodes
    BY DEF Childrens, Tree
  <2>2. Max(found) \in found /\ \A y \in found : y <= Max(found)
    BY <2>1, <1>2, MaxIsLargest, BoundsAssumption
  <2>3. GetChildren(t, n, name) = Max(found)
    BY <1>2 DEF GetChildren
  <2> QED BY <2>2, <2>3
<1> QED BY <1>1, <1>2

(* The next child of the root in the list is the newest of the older ones. *)
LEMMA NextChildFound ==
    ASSUME NEW t, Tree(t), NEW below \in Int
    PROVE  LET g == NextChild(t, below) IN
           \/ /\ g = None
              /\ \A m \in Childrens(t, Root) : ~(m < below)
           \/ /\ g \in Childrens(t, Root)
              /\ g < below
              /\ \A m \in Childrens(t, Root) : m < below => m <= g
<1> DEFINE later == {m \in Childrens(t, Root) : m < below}
<1>1. CASE later = {}
  BY <1>1 DEF NextChild
<1>2. CASE later # {}
  <2>1. later \in SUBSET Nat /\ \A y \in later : y <= MaxNodes
    BY DEF Childrens, Tree
  <2>2. Max(later) \in later /\ \A y \in later : y <= Max(later)
    BY <2>1, <1>2, MaxIsLargest, BoundsAssumption
  <2>3. NextChild(t, below) = Max(later)
    BY <1>2 DEF NextChild
  <2> QED BY <2>2, <2>3
<1> QED BY <1>1, <1>2

----------------------------------------------------------------------------
(* The paths of nodes.                                                     *)

(* f is the path of every node of t below k. *)
PathsBelow(t, k, f) ==
    f = [n \in {m \in DOMAIN t : m < k} |->
            IF n = Root THEN <<>> ELSE Append(f[t[n].parent], t[n].name)]

(* In a tree the recursion of LocalPathToMe is well founded. *)
LEMMA PathsExist ==
    ASSUME NEW t, Tree(t)
    PROVE  \A k \in Nat : \E f : PathsBelow(t, k, f)
<1> DEFINE Bad == {k \in Nat : ~ \E f : PathsBelow(t, k, f)}
<1> SUFFICES ASSUME Bad # {} PROVE FALSE OBVIOUS
<1>1. PICK k \in Bad : \A j \in Bad : k <= j
  BY Least
<1>2. k # 0
  <2>1. {m \in DOMAIN t : m < 0} = {} BY DEF Tree
  <2>2. PathsBelow(t, 0, [n \in {} |-> <<>>])
    BY <2>1 DEF PathsBelow
  <2> QED BY <2>2
<1>3. k - 1 \in Nat /\ k - 1 \notin Bad
  BY <1>1, <1>2
<1>4. PICK f : PathsBelow(t, k - 1, f)
  BY <1>3
<1> DEFINE S == {m \in DOMAIN t : m < k - 1}
           D == {m \in DOMAIN t : m < k}
           last == IF k - 1 = Root THEN <<>>
                   ELSE Append(f[t[k - 1].parent], t[k - 1].name)
           g == [n \in D |-> IF n \in S THEN f[n] ELSE last]
<1>5. /\ DOMAIN f = S
      /\ \A n \in S :
            f[n] = IF n = Root THEN <<>> ELSE Append(f[t[n].parent], t[n].name)
  BY <1>4 DEF PathsBelow
<1>6. \A n \in D : n \in S \/ n = k - 1
  BY <1>3 DEF Tree
<1>7. \A n \in D : n # Root => t[n].parent \in S /\ t[n].parent \in D
  BY <1>3 DEF Tree
<1>8. \A n \in D :
         g[n] = IF n = Root THEN <<>> ELSE Append(g[t[n].parent], t[n].name)
  <2> SUFFICES ASSUME NEW n \in D
               PROVE g[n] = IF n = Root THEN <<>> ELSE Append(g[t[n].parent], t[n].name)
    OBVIOUS
  <2>1. n # Root => g[t[n].parent] = f[t[n].parent]
    BY <1>7
  <2>2. CASE n \in S BY <2>1, <2>2, <1>5
  <2>3. CASE n \notin S
    <3>1. n = k - 1 BY <2>3, <1>6
    <3> QED BY <3>1, <2>3, <2>1
  <2> QED BY <2>2, <2>3
<1>9. PathsBelow(t, k, g)
  BY <1>8 DEF PathsBelow
<1> QED BY <1>9

LEMMA PathsDef ==
    ASSUME NEW t, Tree(t)
    PROVE  /\ DOMAIN PathsTo(t) = DOMAIN t
           /\ \A n \in DOMAIN t :
                 PathsTo(t)[n] = IF n = Root THEN <<>>
                                 ELSE Append(PathsTo(t)[t[n].parent], t[n].name)
<1> DEFINE P(g) == g = [n \in DOMAIN t |->
                          IF n = Root THEN <<>> ELSE Append(g[t[n].parent], t[n].name)]
<1>1. PICK f : PathsBelow(t, MaxNodes + 1, f)
  BY PathsExist, BoundsAssumption
<1>2. {m \in DOMAIN t : m < MaxNodes + 1} = DOMAIN t
  <2>1. \A m \in DOMAIN t : m < MaxNodes + 1
    BY BoundsAssumption DEF Tree
  <2> QED BY <2>1
<1>3. P(f)
  BY <1>1, <1>2 DEF PathsBelow
<1>4. PathsTo(t) = CHOOSE g : P(g)
  BY DEF PathsTo
<1>5. P(CHOOSE g : P(g)) BY <1>3
<1>6. P(PathsTo(t)) BY <1>4, <1>5
<1> QED BY <1>6

(* Two trees that agree on a set of nodes closed under parents give these  *)
(* nodes the same paths.                                                   *)
LEMMA PathsAgree ==
    ASSUME NEW t, Tree(t), NEW u, Tree(u),
           NEW S, S \subseteq DOMAIN t, S \subseteq DOMAIN u,
           \A n \in S \ {Root} : /\ t[n].parent \in S
                                 /\ u[n].parent = t[n].parent
                                 /\ u[n].name = t[n].name
    PROVE  \A n \in S : PathsTo(u)[n] = PathsTo(t)[n]
<1> DEFINE Bad == {m \in S : PathsTo(u)[m] # PathsTo(t)[m]}
<1> SUFFICES ASSUME Bad # {} PROVE FALSE OBVIOUS
<1>1. PICK m \in Bad : \A j \in Bad : m <= j
  <2>1. Bad \in SUBSET Nat BY DEF Tree
  <2> QED BY <2>1, Least
<1>2. m \in S /\ m \in DOMAIN t /\ m \in DOMAIN u OBVIOUS
<1>3. m # Root BY <1>2, PathsDef
<1>4. t[m].parent \in S /\ t[m].parent < m
  BY <1>2, <1>3 DEF Tree
<1>5. t[m].parent \notin Bad
  <2>1. DOMAIN t \subseteq Nat BY DEF Tree
  <2>2. t[m].parent \in Nat /\ m \in Nat BY <1>2, <1>4, <2>1
  <2> QED BY <1>1, <1>4, <2>2
<1>6. /\ PathsTo(t)[m] = Append(PathsTo(t)[t[m].parent], t[m].name)
      /\ PathsTo(u)[m] = Append(PathsTo(u)[u[m].parent], u[m].name)
  BY <1>2, <1>3, PathsDef
<1> QED BY <1>2, <1>3, <1>4, <1>5, <1>6

(* Nodes that are added, or marks that change, leave the paths alone. *)
LEMMA PathsKept ==
    ASSUME NEW t, Tree(t), NEW u, Tree(u), Extends(u, t)
    PROVE  \A n \in DOMAIN t : PathsTo(u)[n] = PathsTo(t)[n]
<1>1. \A n \in DOMAIN t \ {Root} : /\ t[n].parent \in DOMAIN t
                                   /\ u[n].parent = t[n].parent
                                   /\ u[n].name = t[n].name
  BY DEF Tree, Extends, Grows
<1> QED BY <1>1, PathsAgree DEF Extends, Grows

----------------------------------------------------------------------------
(* What is at and below a node.                                            *)

Closed(t, S) == \A c \in DOMAIN t \ {Root} : t[c].parent \in S => c \in S

LEMMA SubtreeDef ==
    ASSUME NEW t, NEW n, NEW m
    PROVE  m \in Subtree(t, n) <=>
              /\ m \in DOMAIN t
              /\ \A S \in SUBSET DOMAIN t : n \in S /\ Closed(t, S) => m \in S
BY DEF Subtree, Closed

(* A node is in its subtree with the children of every member, and the     *)
(* subtree is the least such set.                                          *)
LEMMA SubtreeClosed ==
    ASSUME NEW t, NEW n \in DOMAIN t
    PROVE  /\ Subtree(t, n) \subseteq DOMAIN t
           /\ n \in Subtree(t, n)
           /\ Closed(t, Subtree(t, n))
<1>1. Subtree(t, n) \subseteq DOMAIN t /\ n \in Subtree(t, n)
  BY SubtreeDef
<1>2. ASSUME NEW c \in DOMAIN t \ {Root}, t[c].parent \in Subtree(t, n)
      PROVE  c \in Subtree(t, n)
  <2>1. ASSUME NEW S \in SUBSET DOMAIN t, n \in S, Closed(t, S)
        PROVE  c \in S
    BY <2>1, <1>2, SubtreeDef DEF Closed
  <2> QED BY <2>1, SubtreeDef
<1> QED BY <1>1, <1>2 DEF Closed

LEMMA SubtreeLeast ==
    ASSUME NEW t, NEW n, NEW S \in SUBSET DOMAIN t, n \in S, Closed(t, S)
    PROVE  Subtree(t, n) \subseteq S
BY SubtreeDef

(* Every other member of a subtree hangs below a member. *)
LEMMA SubtreeParent ==
    ASSUME NEW t, NEW n \in DOMAIN t, NEW m \in Subtree(t, n), m # n
    PROVE  m # Root /\ t[m].parent \in Subtree(t, n)
<1> SUFFICES ASSUME m = Root \/ t[m].parent \notin Subtree(t, n) PROVE FALSE
  OBVIOUS
<1> DEFINE S == Subtree(t, n) \ {m}
<1>1. S \in SUBSET DOMAIN t /\ n \in S
  BY SubtreeClosed
<1>2. Closed(t, S)
  BY SubtreeClosed DEF Closed
<1> QED BY <1>1, <1>2, SubtreeLeast

LEMMA RootNotBelow ==
    ASSUME NEW t, NEW n \in DOMAIN t, n # Root
    PROVE  Root \notin Subtree(t, n)
BY SubtreeParent

(* All of a tree is below its root. *)
LEMMA RootAboveAll ==
    ASSUME NEW t, Tree(t), Root \in DOMAIN t
    PROVE  Subtree(t, Root) = DOMAIN t
<1> DEFINE Bad == DOMAIN t \ Subtree(t, Root)
<1> SUFFICES ASSUME Bad # {} PROVE FALSE
  BY SubtreeClosed
<1>1. DOMAIN t \subseteq Nat BY DEF Tree
<1>2. PICK m \in Bad : \A j \in Bad : m <= j
  BY <1>1, Least
<1>3. m # Root BY SubtreeClosed
<1>4. t[m].parent \in DOMAIN t /\ t[m].parent < m
  BY <1>3 DEF Tree
<1>5. t[m].parent \notin Bad
  BY <1>1, <1>2, <1>4
<1> QED BY <1>3, <1>4, <1>5, SubtreeClosed DEF Closed

(* Every node is at or below a child of the root. *)
LEMMA BelowSomeChild ==
    ASSUME NEW t, Tree(t), NEW n \in DOMAIN t, n # Root
    PROVE  \E c \in Childrens(t, Root) : n \in Subtree(t, c)
<1> DEFINE Bad == {m \in DOMAIN t \ {Root} :
                      ~ \E c \in Childrens(t, Root) : m \in Subtree(t, c)}
<1> SUFFICES ASSUME Bad # {} PROVE FALSE
  OBVIOUS
<1>1. DOMAIN t \subseteq Nat BY DEF Tree
<1>2. PICK m \in Bad : \A j \in Bad : m <= j
  BY <1>1, Least
<1>3. m \in DOMAIN t /\ m # Root OBVIOUS
<1>4. t[m].parent # Root
  <2>1. SUFFICES ASSUME t[m].parent = Root PROVE FALSE OBVIOUS
  <2>2. m \in Childrens(t, Root) BY <1>3, <2>1 DEF Childrens
  <2> QED BY <1>3, <2>2, SubtreeClosed
<1>5. t[m].parent \in DOMAIN t /\ t[m].parent < m
  BY <1>3 DEF Tree
<1>6. t[m].parent \notin Bad
  BY <1>1, <1>2, <1>5
<1>7. PICK c \in Childrens(t, Root) : t[m].parent \in Subtree(t, c)
  BY <1>4, <1>5, <1>6
<1>8. c \in DOMAIN t BY DEF Childrens
<1>9. m \in Subtree(t, c)
  BY <1>3, <1>7, <1>8, SubtreeClosed DEF Closed
<1> QED BY <1>9

(* Adding nodes takes nothing out of a subtree. *)
LEMMA SubtreeGrows ==
    ASSUME NEW t, NEW u, Grows(u, t), NEW c \in DOMAIN t
    PROVE  Subtree(t, c) \subseteq Subtree(u, c)
<1> SUFFICES ASSUME NEW m \in Subtree(t, c),
                    NEW S \in SUBSET DOMAIN u, c \in S, Closed(u, S)
             PROVE  m \in S
  <2>1. Subtree(t, c) \subseteq DOMAIN u BY SubtreeClosed DEF Grows
  <2> QED BY <2>1, SubtreeDef
<1>1. Closed(t, S \cap DOMAIN t)
  BY DEF Closed, Grows
<1> QED BY <1>1, SubtreeLeast

----------------------------------------------------------------------------
(* Freeing a node.                                                         *)

LEMMA DeleteDef ==
    ASSUME NEW t, NEW n
    PROVE  /\ DOMAIN Delete(t, n) = DOMAIN t \ Subtree(t, n)
           /\ \A m \in DOMAIN t \ Subtree(t, n) : Delete(t, n)[m] = t[m]
BY DEF Delete

LEMMA DeleteKeepsTree ==
    ASSUME NEW t, Tree(t), NEW n \in DOMAIN t
    PROVE  Tree(Delete(t, n))
<1> DEFINE u == Delete(t, n)
<1>1. u \in [DOMAIN u -> NodeType] /\ DOMAIN u \subseteq 0..MaxNodes
  <2>1. u = [m \in DOMAIN t \ Subtree(t, n) |-> t[m]] BY DEF Delete
  <2>2. \A m \in DOMAIN t : t[m] \in NodeType BY DEF Tree
  <2>3. DOMAIN u \subseteq DOMAIN t BY DeleteDef
  <2>4. DOMAIN t \subseteq 0..MaxNodes BY DEF Tree
  <2> HIDE DEF u
  <2> QED BY <2>1, <2>2, <2>3, <2>4
<1>2. ASSUME NEW m \in DOMAIN u, m # Root
      PROVE  u[m].parent \in DOMAIN u /\ u[m].parent < m
  <2>1. m \in DOMAIN t /\ m \notin Subtree(t, n) /\ u[m] = t[m] BY DeleteDef
  <2>2. t[m].parent \in DOMAIN t /\ t[m].parent < m BY <2>1, <1>2 DEF Tree
  <2>3. t[m].parent \notin Subtree(t, n)
    BY <2>1, <1>2, SubtreeClosed DEF Closed
  <2> QED BY <2>1, <2>2, <2>3, DeleteDef
<1>3. ASSUME Root \in DOMAIN u PROVE u[Root].parent \in DOMAIN u /\ u[Root].parent = Root
  <2>1. Root \in DOMAIN t /\ u[Root] = t[Root] BY <1>3, DeleteDef
  <2> QED BY <2>1, <1>3, DeleteDef DEF Tree
<1> HIDE DEF u
<1>4. Tree(u) BY <1>1, <1>2, <1>3 DEF Tree
<1> QED BY <1>4 DEF u

(* What is freed takes nothing out of the subtree of a node that stays,    *)
(* and no node stays below one that goes.                                  *)
LEMMA SubtreeKept ==
    ASSUME NEW t, NEW n \in DOMAIN t, NEW c \in DOMAIN t,
           NEW m \in Subtree(t, c), m \notin Subtree(t, n)
    PROVE  c \in DOMAIN Delete(t, n) /\ m \in Subtree(Delete(t, n), c)
<1> DEFINE u == Delete(t, n)
<1>1. c \notin Subtree(t, n)
  BY SubtreeClosed, SubtreeLeast
<1>2. m \in DOMAIN u /\ c \in DOMAIN u
  BY <1>1, DeleteDef, SubtreeClosed
<1>3. ASSUME NEW S \in SUBSET DOMAIN u, c \in S, Closed(u, S)
      PROVE  m \in S
  <2> DEFINE W == S \cup Subtree(t, n)
  <2>1. W \in SUBSET DOMAIN t /\ c \in W
    BY <1>3, DeleteDef, SubtreeClosed
  <2>2. ASSUME NEW d \in DOMAIN t \ {Root}, t[d].parent \in W, d \notin Subtree(t, n)
        PROVE  d \in S
    <3>1. t[d].parent \notin Subtree(t, n)
      BY <2>2, SubtreeClosed DEF Closed
    <3>2. d \in DOMAIN u /\ u[d] = t[d]
      BY <2>2, DeleteDef
    <3> QED BY <3>1, <3>2, <2>2, <1>3 DEF Closed
  <2>3. Closed(t, W)
    BY <2>2 DEF Closed
  <2> QED BY <2>1, <2>3, SubtreeLeast
<1> QED BY <1>2, <1>3, SubtreeDef

(* The nodes that stay keep their paths. *)
LEMMA PathsAfterDelete ==
    ASSUME NEW t, Tree(t), NEW n \in DOMAIN t
    PROVE  \A m \in DOMAIN Delete(t, n) : PathsTo(Delete(t, n))[m] = PathsTo(t)[m]
<1> DEFINE u == Delete(t, n)
<1>1. Tree(u) BY DeleteKeepsTree
<1>2. DOMAIN u \subseteq DOMAIN t BY DeleteDef
<1>3. \A m \in DOMAIN u \ {Root} : /\ t[m].parent \in DOMAIN u
                                   /\ u[m].parent = t[m].parent
                                   /\ u[m].name = t[m].name
  <2> SUFFICES ASSUME NEW m \in DOMAIN u \ {Root}
               PROVE  u[m] = t[m] /\ t[m].parent \in DOMAIN u
    OBVIOUS
  <2>1. u[m] = t[m] BY DeleteDef
  <2> QED BY <2>1, <1>1 DEF Tree
<1> HIDE DEF u
<1> QED BY <1>1, <1>2, <1>3, PathsAgree DEF u

----------------------------------------------------------------------------
(* Looking a path up.                                                      *)

(* f is the way down the first k components of p. *)
WayDown(t, p, k, f) ==
    f = [i \in 0..k |->
            IF i = 0 THEN Root
            ELSE IF f[i - 1] = None THEN None
            ELSE GetChildren(t, f[i - 1], p[i])]

LEMMA WaysExist ==
    ASSUME NEW t, NEW p
    PROVE  \A k \in Nat : \E f : WayDown(t, p, k, f)
<1> DEFINE Bad == {k \in Nat : ~ \E f : WayDown(t, p, k, f)}
<1> SUFFICES ASSUME Bad # {} PROVE FALSE OBVIOUS
<1>1. PICK k \in Bad : \A j \in Bad : k <= j
  BY Least
<1>2. k # 0
  <2>1. \A i \in 0..0 : i = 0 OBVIOUS
  <2>2. WayDown(t, p, 0, [i \in 0..0 |-> Root])
    BY <2>1 DEF WayDown
  <2> QED BY <2>2
<1>3. k \in Nat /\ k - 1 \in Nat /\ k - 1 \notin Bad
  BY <1>1, <1>2
<1>4. PICK f : WayDown(t, p, k - 1, f)
  BY <1>3
<1> DEFINE last == IF f[k - 1] = None THEN None ELSE GetChildren(t, f[k - 1], p[k])
           g == [i \in 0..k |-> IF i = k THEN last ELSE f[i]]
<1>5. \A i \in 0..(k - 1) :
         f[i] = IF i = 0 THEN Root
                ELSE IF f[i - 1] = None THEN None ELSE GetChildren(t, f[i - 1], p[i])
  BY <1>4 DEF WayDown
<1>6. \A i \in 0..k :
         g[i] = IF i = 0 THEN Root
                ELSE IF g[i - 1] = None THEN None ELSE GetChildren(t, g[i - 1], p[i])
  <2> SUFFICES ASSUME NEW i \in 0..k
               PROVE  g[i] = IF i = 0 THEN Root
                             ELSE IF g[i - 1] = None THEN None
                             ELSE GetChildren(t, g[i - 1], p[i])
    OBVIOUS
  <2>1. i # 0 => i - 1 \in 0..k /\ i - 1 # k BY <1>3
  <2>2. i # 0 => g[i - 1] = f[i - 1] BY <2>1
  <2>3. CASE i = k BY <2>2, <2>3, <1>2
  <2>4. CASE i # k
    <3>1. i \in 0..(k - 1) BY <2>4, <1>3
    <3> QED BY <2>2, <2>4, <3>1, <1>5
  <2> QED BY <2>3, <2>4
<1>7. WayDown(t, p, k, g)
  BY <1>6 DEF WayDown
<1> QED BY <1>7

LEMMA FindDef ==
    ASSUME NEW t, NEW p \in Seq(Names)
    PROVE  /\ do_find_path(t, p)[0] = Root
           /\ \A i \in 1..Len(p) :
                 do_find_path(t, p)[i] =
                    IF do_find_path(t, p)[i - 1] = None THEN None
                    ELSE GetChildren(t, do_find_path(t, p)[i - 1], p[i])
<1> DEFINE P(g) == g = [i \in 0..Len(p) |->
                          IF i = 0 THEN Root
                          ELSE IF g[i - 1] = None THEN None
                          ELSE GetChildren(t, g[i - 1], p[i])]
<1>0. Len(p) \in Nat OBVIOUS
<1>1. PICK f : WayDown(t, p, Len(p), f)
  BY <1>0, WaysExist
<1>2. P(f)
  BY <1>1 DEF WayDown
<1>3. do_find_path(t, p) = CHOOSE g : P(g)
  BY DEF do_find_path
<1>4. P(CHOOSE g : P(g)) BY <1>2
<1>5. P(do_find_path(t, p)) BY <1>3, <1>4
<1> HIDE DEF P
<1>7. \A i \in 0..Len(p) :
         do_find_path(t, p)[i] =
            IF i = 0 THEN Root
            ELSE IF do_find_path(t, p)[i - 1] = None THEN None
            ELSE GetChildren(t, do_find_path(t, p)[i - 1], p[i])
  BY <1>5 DEF P
<1> QED BY <1>0, <1>7

(* The node that i components lead to has these components as its path. *)
LEMMA FoundHasPath ==
    ASSUME NEW t, Tree(t), Root \in DOMAIN t, NEW p \in Seq(Names), NEW i \in 0..Len(p),
           do_find_path(t, p)[i] # None
    PROVE  /\ do_find_path(t, p)[i] \in DOMAIN t
           /\ i # 0 => do_find_path(t, p)[i] # Root
           /\ PathsTo(t)[do_find_path(t, p)[i]] = SubSeq(p, 1, i)
<1> DEFINE at == do_find_path(t, p)
           Good(j) == /\ at[j] \in DOMAIN t
                      /\ j # 0 => at[j] # Root
                      /\ PathsTo(t)[at[j]] = SubSeq(p, 1, j)
           Bad == {j \in 0..Len(p) : at[j] # None /\ ~Good(j)}
<1> SUFFICES ASSUME Bad # {} PROVE FALSE OBVIOUS
<1>0. Len(p) \in Nat OBVIOUS
<1>1. PICK j \in Bad : \A k \in Bad : j <= k
  <2>1. Bad \in SUBSET Nat BY <1>0
  <2> QED BY <2>1, Least
<1> HIDE DEF at
<1>2. j \in 0..Len(p) /\ at[j] # None /\ ~Good(j) OBVIOUS
<1>3. Good(0)
  <2>1. at[0] = Root BY FindDef DEF at
  <2>2. PathsTo(t)[Root] = <<>> BY PathsDef
  <2>3. SubSeq(p, 1, 0) = <<>> BY SubSeqEmpty
  <2> QED BY <2>1, <2>2, <2>3
<1>4. j \in 1..Len(p) /\ j - 1 \in 0..Len(p)
  <2>1. j # 0 BY <1>2, <1>3
  <2> QED BY <1>0, <1>2, <2>1
<1>5. at[j - 1] # None /\ at[j] = GetChildren(t, at[j - 1], p[j])
  BY <1>2, <1>4, FindDef DEF at
<1>6. Good(j - 1)
  <2>1. j - 1 \notin Bad BY <1>1, <1>4
  <2> HIDE DEF Good
  <2> QED BY <2>1, <1>4, <1>5
<1>7. at[j] \in Childrens(t, at[j - 1]) /\ t[at[j]].name = p[j]
  BY <1>2, <1>5, ChildrenFound
<1>8. at[j] \in DOMAIN t /\ at[j] # Root /\ t[at[j]].parent = at[j - 1]
  BY <1>7 DEF Childrens
<1>9. PathsTo(t)[at[j]] = Append(SubSeq(p, 1, j - 1), p[j])
  BY <1>6, <1>7, <1>8, PathsDef
<1>10. SubSeq(p, 1, j) = Append(SubSeq(p, 1, j - 1), p[j])
  <2>1. p \in Seq(Names) /\ 1 \in 1..Len(p) + 1 /\ j \in 1..Len(p)
    BY <1>0, <1>4
  <2> QED BY <2>1, <1>0
<1> QED BY <1>2, <1>8, <1>9, <1>10

LEMMA NodeFound ==
    ASSUME NEW t, Tree(t), Root \in DOMAIN t, NEW p \in Seq(Names),
           do_find_node(t, p) # None
    PROVE  /\ p # <<>>
           /\ do_find_node(t, p) \in DOMAIN t \ {Root}
           /\ PathsTo(t)[do_find_node(t, p)] = p
<1>1. p # <<>> /\ do_find_node(t, p) = do_find_path(t, p)[Len(p)]
  BY DEF do_find_node
<1>2. Len(p) \in 0..Len(p) /\ Len(p) # 0
  BY <1>1, EmptySeq
<1>3. SubSeq(p, 1, Len(p)) = p BY SubSeqFull
<1> QED BY <1>1, <1>2, <1>3, FoundHasPath

(* A way down does not resume once it has failed. *)
LEMMA FoundAbove ==
    ASSUME NEW t, NEW p \in Seq(Names), NEW i \in 0..Len(p), NEW j \in 0..i,
           do_find_path(t, p)[i] # None
    PROVE  do_find_path(t, p)[j] # None
<1> DEFINE at == do_find_path(t, p)
           Bad == {k \in j..i : at[k] # None}
<1>0. Len(p) \in Nat OBVIOUS
<1>1. PICK k \in Bad : \A l \in Bad : k <= l
  <2>1. Bad \in SUBSET Nat BY <1>0
  <2>2. i \in Bad BY <1>0
  <2> QED BY <2>1, <2>2, Least
<1> HIDE DEF at
<1>2. SUFFICES ASSUME k # j PROVE FALSE
  BY DEF at
<1>3. k \in 1..Len(p) /\ k - 1 \in j..i BY <1>0, <1>2
<1>4. at[k - 1] # None BY <1>3, FindDef DEF at
<1>5. k - 1 \in Bad BY <1>3, <1>4
<1> QED BY <1>1, <1>3, <1>5

(* do_add follows the path as far as it exists. *)
LEMMA DeepestFound ==
    ASSUME NEW p \in Seq(Names)
    PROVE  /\ Deepest(p) \in 0..Len(p)
           /\ \A i \in 0..Len(p) : do_find_path(nodes, p)[i] # None <=> i <= Deepest(p)
<1> DEFINE at == do_find_path(nodes, p)
           S == {i \in 0..Len(p) : at[i] # None}
<1>0. Len(p) \in Nat OBVIOUS
<1>1. 0 \in S
  BY <1>0, FindDef DEF Root, None
<1>2. S \in SUBSET Nat /\ \A y \in S : y <= Len(p)
  BY <1>0
<1> HIDE DEF S
<1>3. Max(S) \in S /\ \A y \in S : y <= Max(S)
  BY <1>0, <1>1, <1>2, MaxIsLargest
<1>4. Deepest(p) = Max(S) BY DEF Deepest, S
<1>5. Deepest(p) \in 0..Len(p) /\ at[Deepest(p)] # None
  BY <1>3, <1>4 DEF S
<1>6. ASSUME NEW i \in 0..Len(p), i <= Deepest(p) PROVE at[i] # None
  <2>1. i \in 0..Deepest(p) BY <1>0, <1>5, <1>6
  <2> QED BY <2>1, <1>5, FoundAbove
<1>7. ASSUME NEW i \in 0..Len(p), at[i] # None PROVE i <= Deepest(p)
  BY <1>3, <1>4, <1>7 DEF S
<1> QED BY <1>5, <1>6, <1>7

----------------------------------------------------------------------------
(* Linking new nodes.                                                      *)

LEMMA NewNodesFit ==
    ASSUME NEW t, Tree(t), NEW new, DOMAIN new \cap DOMAIN t = {},
           \A k \in DOMAIN new :
              /\ k \in 1..MaxNodes
              /\ new[k] \in NodeType
              /\ new[k].parent \in DOMAIN t \cup DOMAIN new
              /\ new[k].parent < k
    PROVE  /\ Tree(Link(t, new))
           /\ Extends(Link(t, new), t)
           /\ DOMAIN Link(t, new) = DOMAIN t \cup DOMAIN new
           /\ \A n \in DOMAIN t : Link(t, new)[n] = t[n]
           /\ \A k \in DOMAIN new : Link(t, new)[k] = new[k]
<1> DEFINE u == Link(t, new)
<1>1. u = [x \in DOMAIN t \cup DOMAIN new |-> IF x \in DOMAIN t THEN t[x] ELSE new[x]]
  BY DEF Link
<1> HIDE DEF u
<1>2. /\ DOMAIN u = DOMAIN t \cup DOMAIN new
      /\ \A n \in DOMAIN t : u[n] = t[n]
      /\ \A k \in DOMAIN new : u[k] = new[k]
  BY <1>1
<1>3. Extends(u, t)
  BY <1>2 DEF Extends, Grows
<1>4. DOMAIN u \subseteq 0..MaxNodes
  BY <1>2, BoundsAssumption DEF Tree
<1>5. u \in [DOMAIN u -> NodeType]
  <2>1. \A n \in DOMAIN u : u[n] \in NodeType
    BY <1>2 DEF Tree
  <2> QED BY <1>1, <2>1
<1>6. ASSUME NEW n \in DOMAIN u
      PROVE  /\ u[n].parent \in DOMAIN u
             /\ IF n = Root THEN u[n].parent = Root ELSE u[n].parent < n
  <2>1. CASE n \in DOMAIN t BY <2>1, <1>2 DEF Tree
  <2>2. CASE n \in DOMAIN new BY <2>2, <1>2, BoundsAssumption DEF Root
  <2> QED BY <2>1, <2>2, <1>2
<1>7. Tree(u) BY <1>4, <1>5, <1>6 DEF Tree
<1> QED BY <1>2, <1>3, <1>7 DEF u

(* A new node is numbered above all others. *)
LEMMA NextNodeIsNew ==
    ASSUME Tree(nodes), Root \in DOMAIN nodes
    PROVE  /\ NextNode \in Nat \ {0}
           /\ \A n \in DOMAIN nodes : n < NextNode
<1>1. DOMAIN nodes \in SUBSET Nat /\ \A n \in DOMAIN nodes : n <= MaxNodes
  BY DEF Tree
<1>2. Max(DOMAIN nodes) \in DOMAIN nodes /\ \A n \in DOMAIN nodes : n <= Max(DOMAIN nodes)
  BY <1>1, MaxIsLargest, BoundsAssumption
<1> QED BY <1>1, <1>2 DEF NextNode

(* The nodes do_add links for the components of p that are missing. *)
LEMMA LinkedNodes ==
    ASSUME Tree(nodes), Root \in DOMAIN nodes, NEW p \in Seq(Names),
           Deepest(p) < Len(p),
           NextNode + Len(p) - Deepest(p) - 1 <= MaxNodes
    PROVE  LET d == Deepest(p)
               new == Linked(p, d) IN
           /\ DOMAIN new = NextNode..(NextNode + Len(p) - d - 1)
           /\ \A k \in DOMAIN new :
                 /\ k \in 1..MaxNodes
                 /\ k \notin DOMAIN nodes
                 /\ d + 1 + k - NextNode \in (d + 1)..Len(p)
                 /\ new[k] = Node(p[d + 1 + k - NextNode],
                                  IF k = NextNode THEN do_find_path(nodes, p)[d] ELSE k - 1)
                 /\ new[k] \in NodeType
                 /\ new[k].parent \in DOMAIN nodes \cup DOMAIN new
                 /\ new[k].parent < k
<1> DEFINE d == Deepest(p)
           N == NextNode
           new == Linked(p, d)
           top == do_find_path(nodes, p)[d]
           I == N..(N + Len(p) - d - 1)
<1>0. Len(p) \in Nat /\ d \in 0..Len(p) /\ d < Len(p) /\ N \in Nat \ {0}
      /\ N + Len(p) - d - 1 <= MaxNodes
  BY DeepestFound, NextNodeIsNew
<1>1. top \in DOMAIN nodes
  BY <1>0, DeepestFound, FoundHasPath
<1>2. new = [k \in I |-> Node(p[d + 1 + k - N],
                              IF d + 1 + k - N = d + 1 THEN top ELSE k - 1)]
  BY DEF Linked
<1> HIDE DEF d, N, new, top
<1>3. DOMAIN new = I
  BY <1>2
<1>4. ASSUME NEW k \in I
      PROVE  /\ k \in 1..MaxNodes
             /\ k \notin DOMAIN nodes
             /\ d + 1 + k - N \in (d + 1)..Len(p)
             /\ new[k] = Node(p[d + 1 + k - N], IF k = N THEN top ELSE k - 1)
             /\ new[k] \in NodeType
             /\ new[k].parent \in DOMAIN nodes \cup DOMAIN new
             /\ new[k].parent < k
  <2>1. k \in Nat /\ N <= k /\ k <= N + Len(p) - d - 1 BY <1>0
  <2>2. k \in 1..MaxNodes /\ d + 1 + k - N \in (d + 1)..Len(p)
    BY <1>0, <2>1, BoundsAssumption
  <2>3. k \notin DOMAIN nodes
    BY <2>1, <1>0, NextNodeIsNew DEF N
  <2>4. d + 1 + k - N = d + 1 <=> k = N BY <1>0, <2>1
  <2>5. new[k] = Node(p[d + 1 + k - N], IF k = N THEN top ELSE k - 1)
    BY <1>2, <2>4
  <2>6. p[d + 1 + k - N] \in Names
    <3>1. d + 1 + k - N \in 1..Len(p) BY <1>0, <2>2
    <3> QED BY <3>1
  <2>7. top \in Nat /\ top < N
    <3>1. DOMAIN nodes \subseteq Nat BY DEF Tree
    <3> QED BY <1>1, <3>1, NextNodeIsNew DEF N
  <2>8. k # N => k - 1 \in I /\ k - 1 \in Nat BY <2>1, <1>0
  <2>9. new[k].parent = IF k = N THEN top ELSE k - 1
    BY <2>5 DEF Node
  <2>10. new[k] \in NodeType
    BY <2>5, <2>6, <2>7, <2>8 DEF Node, NodeType
  <2>11. new[k].parent < k
    BY <2>9, <2>7, <2>1, <1>0
  <2>12. new[k].parent \in DOMAIN nodes \cup DOMAIN new
    BY <2>9, <1>1, <1>3, <2>8
  <2> QED BY <2>2, <2>3, <2>5, <2>10, <2>11, <2>12
<1> QED BY <1>3, <1>4 DEF d, N, new, top

(* The node do_add hangs below a path that exists. *)
LEMMA HungNode ==
    ASSUME Tree(nodes), Root \in DOMAIN nodes, NEW top \in DOMAIN nodes,
           NEW name \in Names \cup {NoName}, NextNode <= MaxNodes
    PROVE  LET u == Put(nodes, NextNode, Node(name, top)) IN
           /\ Tree(u)
           /\ Extends(u, nodes)
           /\ DOMAIN u = DOMAIN nodes \cup {NextNode}
           /\ NextNode \notin DOMAIN nodes
           /\ \A n \in DOMAIN nodes : u[n] = nodes[n]
           /\ u[NextNode] = Node(name, top)
<1> DEFINE new == [k \in {NextNode} |-> Node(name, top)]
<1>1. DOMAIN new = {NextNode} /\ new[NextNode] = Node(name, top)
  OBVIOUS
<1>2. top \in Nat /\ top < NextNode /\ NextNode \in Nat \ {0} /\ NextNode \notin DOMAIN nodes
  <2>1. DOMAIN nodes \subseteq Nat BY DEF Tree
  <2>2. NextNode \in Nat \ {0} /\ top < NextNode BY NextNodeIsNew
  <2>3. NextNode \notin DOMAIN nodes
    <3>1. SUFFICES ASSUME NextNode \in DOMAIN nodes PROVE FALSE OBVIOUS
    <3>2. NextNode < NextNode BY <3>1, NextNodeIsNew
    <3> QED BY <3>2, <2>2
  <2> QED BY <2>1, <2>2, <2>3
<1>3. Node(name, top) \in NodeType /\ Node(name, top).parent = top
  BY <1>2 DEF Node, NodeType
<1>4. NextNode \in 1..MaxNodes BY <1>2, BoundsAssumption
<1>5. Put(nodes, NextNode, Node(name, top)) = Link(nodes, new)
  BY <1>2 DEF Put, Link
<1> HIDE DEF new
<1>6. /\ DOMAIN new \cap DOMAIN nodes = {}
      /\ \A k \in DOMAIN new :
            /\ k \in 1..MaxNodes
            /\ new[k] \in NodeType
            /\ new[k].parent \in DOMAIN nodes \cup DOMAIN new
            /\ new[k].parent < k
  BY <1>1, <1>2, <1>3, <1>4
<1>7. /\ Tree(Link(nodes, new))
      /\ Extends(Link(nodes, new), nodes)
      /\ DOMAIN Link(nodes, new) = DOMAIN nodes \cup DOMAIN new
      /\ \A n \in DOMAIN nodes : Link(nodes, new)[n] = nodes[n]
      /\ \A k \in DOMAIN new : Link(nodes, new)[k] = new[k]
  BY <1>6, NewNodesFit
<1> QED BY <1>1, <1>2, <1>5, <1>7

----------------------------------------------------------------------------
(* The type invariant, in its inductive form.                              *)

Types ==
    /\ Tree(nodes)
    /\ owner # "crashed" => (Root \in DOMAIN nodes <=> owner # "gone")
    /\ \A f \in DOMAIN disk : disk[f] \in {"partial", "full"}
    /\ DOMAIN moving \subseteq Paths
    /\ \A p \in DOMAIN moving : moving[p] \in {"asked", "receiving", "stored"}
    /\ owner \in {"in", "leaving", "out", "gone", "crashed"}
    /\ walk = [phase |-> walk.phase, at |-> walk.at, owed |-> walk.owed]
    /\ walk.phase \in {"idle", "visit", "next", "done"}
    /\ walk.at \in {None} \cup (DOMAIN nodes \ {Root})
    /\ walk.phase \in {"idle", "done"} => walk.at = None
    /\ renamed \in BOOLEAN

LEMMA TypesInit == Init => Types
<1> SUFFICES ASSUME Init PROVE Types OBVIOUS
<1>1. DOMAIN nodes = {Root} /\ nodes[Root] = Node(NoName, Root)
      /\ nodes = [n \in {Root} |-> Node(NoName, Root)]
  BY DEF Init
<1>2. Node(NoName, Root) \in NodeType /\ Node(NoName, Root).parent = Root
  BY DEF Node, NodeType, Root
<1>3. Tree(nodes)
  BY <1>1, <1>2, BoundsAssumption DEF Tree, Root
<1>4. /\ \A f \in DOMAIN disk : disk[f] \in {"partial", "full"}
      /\ DOMAIN moving \subseteq Paths
      /\ \A p \in DOMAIN moving : moving[p] \in {"asked", "receiving", "stored"}
  BY DEF Init
<1> QED BY <1>1, <1>3, <1>4 DEF Init, Types, NoWalk

LEMMA TypesImplyTypeOK == Types => TypeOK
<1> SUFFICES ASSUME Types PROVE TypeOK OBVIOUS
<1>1. ASSUME NEW n \in DOMAIN nodes
      PROVE  /\ nodes[n].name \in Names \cup {NoName}
             /\ nodes[n].cached \in BOOLEAN
             /\ nodes[n].parent \in DOMAIN nodes
             /\ n # Root => nodes[n].parent < n
  BY DEF Types, Tree, NodeType
<1>2. DOMAIN nodes \subseteq Root..MaxNodes
  BY DEF Types, Tree, Root
<1> QED BY <1>1, <1>2 DEF Types, TypeOK

(* What becomes of a walk when the tree changes under it. *)
LEMMA ObserveTypes ==
    ASSUME Types, NEW t, SetTree(t)
    PROVE  /\ nodes' = t
           /\ walk' = [phase |-> walk'.phase, at |-> walk'.at, owed |-> walk'.owed]
           /\ walk'.phase = walk.phase
           /\ walk'.at \in {None} \cup (DOMAIN t \ {Root})
           /\ walk'.at # None => walk'.at = walk.at
           /\ walk.phase \in {"idle", "done"} => walk' = walk
           /\ walk.phase \in {"visit", "next"} => walk'.owed = walk.owed \cap Files(t)
<1>1. nodes' = t /\ walk' = Observe(t)
  BY DEF SetTree
<1>2. CASE walk.phase \in {"idle", "done"}
  <2>1. walk' = walk BY <1>1, <1>2 DEF Observe
  <2> QED BY <1>1, <1>2, <2>1 DEF Types
<1>3. CASE walk.phase \notin {"idle", "done"}
  <2>1. walk' = [walk EXCEPT !.at = IF @ \in DOMAIN t THEN @ ELSE None,
                             !.owed = @ \cap Files(t)]
    BY <1>1, <1>3 DEF Observe
  <2>2. /\ walk' = [phase |-> walk.phase,
                    at |-> IF walk.at \in DOMAIN t THEN walk.at ELSE None,
                    owed |-> walk.owed \cap Files(t)]
    BY <2>1 DEF Types
  <2> QED BY <1>1, <1>3, <2>2 DEF Types
<1> QED BY <1>2, <1>3

LEMMA PathsAreSeqs ==
    ASSUME NEW p \in Paths
    PROVE  p \in Seq(Names) /\ Len(p) \in Nat
BY PathsAssumption

(* A tree that changes under a walk and leaves the rest alone. *)
LEMMA TypesSetTree ==
    ASSUME Types, NEW t, SetTree(t), Tree(t), Root \in DOMAIN t, Served,
           \A f \in DOMAIN disk' : disk'[f] \in {"partial", "full"},
           UNCHANGED <<moving, owner>>, renamed' \in BOOLEAN
    PROVE  Types'
<1>1. /\ nodes' = t
      /\ walk' = [phase |-> walk'.phase, at |-> walk'.at, owed |-> walk'.owed]
      /\ walk'.phase = walk.phase
      /\ walk'.at \in {None} \cup (DOMAIN t \ {Root})
      /\ walk.phase \in {"idle", "done"} => walk' = walk
  BY ObserveTypes
<1>2. owner' \in {"in", "leaving", "out"} BY DEF Served
<1> QED BY <1>1, <1>2 DEF Types

(* Every Add crashes the server or links new nodes to the tree it finds. *)
LEMMA AddLinks ==
    ASSUME Types, NEW p \in Paths, Add(p)
    PROVE  \/ Crash
           \/ /\ Served
              /\ UNCHANGED <<disk, moving, owner, renamed>>
              /\ Root \in DOMAIN nodes
              /\ \E t : /\ SetTree(t)
                        /\ Tree(t)
                        /\ Extends(t, nodes)
                        /\ \A n \in DOMAIN nodes : t[n] = nodes[n]
<1> DEFINE d == Deepest(p)
           new == Linked(p, d)
           top == do_find_path(nodes, p)[d]
<1>0. Tree(nodes) /\ Root \in DOMAIN nodes /\ Served
  BY DEF Add, Types, Served
<1>1. p \in Seq(Names) /\ Len(p) \in Nat BY PathsAreSeqs
<1>2. CASE /\ d < Len(p)
           /\ NextNode + Len(p) - d - 1 <= MaxNodes
           /\ SetTree(Link(nodes, new))
           /\ UNCHANGED <<disk, moving, owner, renamed>>
  <2>1. /\ DOMAIN new \cap DOMAIN nodes = {}
        /\ \A k \in DOMAIN new :
              /\ k \in 1..MaxNodes
              /\ new[k] \in NodeType
              /\ new[k].parent \in DOMAIN nodes \cup DOMAIN new
              /\ new[k].parent < k
    BY <1>0, <1>1, <1>2, LinkedNodes
  <2>2. /\ Tree(Link(nodes, new))
        /\ Extends(Link(nodes, new), nodes)
        /\ \A n \in DOMAIN nodes : Link(nodes, new)[n] = nodes[n]
    BY <1>0, <2>1, NewNodesFit
  <2> QED BY <1>0, <1>2, <2>2
<1>3. CASE /\ d = Len(p)
           /\ NextNode <= MaxNodes
           /\ \E name \in Leftover(p[d]) : SetTree(Put(nodes, NextNode, Node(name, top)))
           /\ UNCHANGED <<disk, moving, owner, renamed>>
           /\ p # <<>>
  <2>1. PICK name \in Leftover(p[d]) : SetTree(Put(nodes, NextNode, Node(name, top)))
    BY <1>3
  <2>2. d \in 1..Len(p)
    BY <1>1, <1>3, EmptySeq
  <2>3. p[d] \in Names
    BY <1>1, <2>2
  <2>4. name \in Names \cup {NoName}
    BY <2>3 DEF Leftover
  <2>5. top \in DOMAIN nodes
    <3>1. d \in 0..Len(p) /\ top # None BY <1>1, <2>2, DeepestFound
    <3> QED BY <3>1, <1>0, <1>1, FoundHasPath
  <2> HIDE DEF d, top
  <2>6. LET u == Put(nodes, NextNode, Node(name, top)) IN
           /\ Tree(u)
           /\ Extends(u, nodes)
           /\ \A n \in DOMAIN nodes : u[n] = nodes[n]
    BY <1>0, <1>3, <2>4, <2>5, HungNode
  <2> QED BY <1>0, <1>3, <2>1, <2>6
<1> QED BY <1>2, <1>3 DEF Add

(* Remove and Rename work on a node that hangs below the root. *)
LEMMA EditedNode ==
    ASSUME Types, Served, NEW p \in Paths, do_find_node(nodes, p) # None
    PROVE  /\ Root \in DOMAIN nodes
           /\ do_find_node(nodes, p) \in DOMAIN nodes \ {Root}
           /\ PathsTo(nodes)[do_find_node(nodes, p)] = p
<1>1. Tree(nodes) /\ Root \in DOMAIN nodes
  BY DEF Types, Served
<1> QED BY <1>1, NodeFound, PathsAreSeqs

LEMMA RenameKeepsTree ==
    ASSUME NEW t, Tree(t), NEW n \in DOMAIN t, NEW name \in Names
    PROVE  LET u == [t EXCEPT ![n].name = name] IN
           /\ Tree(u)
           /\ Grows(u, t)
           /\ DOMAIN u = DOMAIN t
           /\ u[n].name = name
           /\ \A m \in DOMAIN t \ {n} : u[m] = t[m]
<1> DEFINE u == [t EXCEPT ![n].name = name]
<1>1. /\ DOMAIN u = DOMAIN t
      /\ \A m \in DOMAIN t \ {n} : u[m] = t[m]
      /\ u[n] = [t[n] EXCEPT !.name = name]
  OBVIOUS
<1>2. t[n] \in NodeType BY DEF Tree
<1>3. u[n] \in NodeType /\ u[n].name = name /\ u[n].parent = t[n].parent
  BY <1>1, <1>2 DEF NodeType
<1>4. u \in [DOMAIN u -> NodeType]
  <2>1. \A m \in DOMAIN t : u[m] \in NodeType BY <1>1, <1>3 DEF Tree
  <2> QED BY <2>1
<1> HIDE DEF u
<1>5. Tree(u) BY <1>1, <1>3, <1>4 DEF Tree
<1> QED BY <1>1, <1>3, <1>5 DEF u, Grows

LEMMA MarkKeepsTree ==
    ASSUME NEW t, Tree(t), NEW n \in DOMAIN t
    PROVE  LET u == [t EXCEPT ![n].cached = TRUE] IN
           /\ Tree(u)
           /\ Extends(u, t)
           /\ DOMAIN u = DOMAIN t
           /\ u[n].cached
           /\ \A m \in DOMAIN t \ {n} : u[m] = t[m]
<1> DEFINE u == [t EXCEPT ![n].cached = TRUE]
<1>1. /\ DOMAIN u = DOMAIN t
      /\ \A m \in DOMAIN t \ {n} : u[m] = t[m]
      /\ u[n] = [t[n] EXCEPT !.cached = TRUE]
  OBVIOUS
<1>2. t[n] \in NodeType BY DEF Tree
<1>3. /\ u[n] \in NodeType
      /\ u[n].cached
      /\ u[n].parent = t[n].parent
      /\ u[n].name = t[n].name
  BY <1>1, <1>2 DEF NodeType
<1>4. u \in [DOMAIN u -> NodeType]
  <2>1. \A m \in DOMAIN t : u[m] \in NodeType BY <1>1, <1>3 DEF Tree
  <2> QED BY <2>1
<1> HIDE DEF u
<1>5. Tree(u) BY <1>1, <1>3, <1>4 DEF Tree
<1> QED BY <1>1, <1>3, <1>5 DEF u, Extends, Grows

LEMMA TypesNext == Types /\ [Next]_vars => Types'
<1> SUFFICES ASSUME Types, [Next]_vars PROVE Types'
  OBVIOUS
<1>c. ASSUME Crash PROVE Types'
  BY <1>c DEF Types, Crash
<1>1. ASSUME NEW p \in Paths, Add(p) PROVE Types'
  <2>1. CASE Crash BY <2>1, <1>c
  <2>2. CASE ~Crash
    <3>1. /\ Served
          /\ UNCHANGED <<disk, moving, owner, renamed>>
          /\ Root \in DOMAIN nodes
      BY <1>1, <2>2, AddLinks
    <3>2. PICK t : SetTree(t) /\ Tree(t) /\ Extends(t, nodes)
      BY <1>1, <2>2, AddLinks
    <3>3. Root \in DOMAIN t BY <3>1, <3>2 DEF Extends, Grows
    <3>4. /\ \A f \in DOMAIN disk' : disk'[f] \in {"partial", "full"}
          /\ renamed' \in BOOLEAN
      BY <3>1 DEF Types
    <3> QED BY <3>1, <3>2, <3>3, <3>4, TypesSetTree
  <2> QED BY <2>1, <2>2
<1>2. ASSUME NEW p \in Paths, Remove(p) PROVE Types'
  <2> DEFINE n == do_find_node(nodes, p)
             t == Delete(nodes, n)
  <2>1. /\ Served
        /\ n # None
        /\ SetTree(t)
        /\ disk' = Without(disk, LocalFiles(nodes, n))
        /\ UNCHANGED <<moving, owner, renamed>>
    BY <1>2 DEF Remove
  <2>2. Tree(nodes) /\ Root \in DOMAIN nodes /\ n \in DOMAIN nodes \ {Root}
    BY <2>1, EditedNode DEF Types
  <2>3. Tree(t) /\ Root \in DOMAIN t
    BY <2>2, DeleteKeepsTree, DeleteDef, RootNotBelow
  <2>4. /\ \A f \in DOMAIN disk' : disk'[f] \in {"partial", "full"}
        /\ renamed' \in BOOLEAN
    BY <2>1 DEF Types, Without
  <2> HIDE DEF t
  <2> QED BY <2>1, <2>3, <2>4, TypesSetTree
<1>3. ASSUME NEW p \in Paths, NEW name \in Names \cup {NoName}, Rename(p, name)
      PROVE  Types'
  <2> DEFINE n == do_find_node(nodes, p)
             t == [nodes EXCEPT ![n].name = name]
             from == PathsTo(nodes)[n]
             to == Append(from, name)
  <2>1. /\ Served
        /\ n # None
        /\ name # NoName
        /\ SetTree(t)
        /\ disk' = IF nodes[n].cached THEN MoveFile(from, to) ELSE disk
        /\ renamed' = TRUE
        /\ UNCHANGED <<moving, owner>>
    BY <1>3 DEF Rename
  <2>2. Tree(nodes) /\ Root \in DOMAIN nodes /\ n \in DOMAIN nodes /\ name \in Names
    BY <2>1, EditedNode DEF Types
  <2>3. Tree(t) /\ DOMAIN t = DOMAIN nodes
    BY <2>2, RenameKeepsTree
  <2> HIDE DEF t, from, to
  <2>4. \A f \in DOMAIN MoveFile(from, to) : MoveFile(from, to)[f] \in {"partial", "full"}
    <3>1. CASE MoveFile(from, to) = disk BY <3>1 DEF Types
    <3>2. CASE /\ from \in DOMAIN disk
               /\ MoveFile(from, to) = Put(Without(disk, {from}), to, disk[from])
      BY <3>2 DEF Types, Put, Without
    <3> QED BY <3>1, <3>2 DEF MoveFile
  <2>5. /\ \A f \in DOMAIN disk' : disk'[f] \in {"partial", "full"}
        /\ renamed' \in BOOLEAN
    BY <2>1, <2>4 DEF Types
  <2> QED BY <2>1, <2>2, <2>3, <2>5, TypesSetTree
<1>4. ASSUME GetBegin PROVE Types'
  <2> DEFINE c == NextChild(nodes, MaxNodes + 1)
  <2>1. /\ walk' = [phase |-> IF IsLeaf(nodes, Root) THEN "done" ELSE "visit",
                    at |-> c, owed |-> Files(nodes)]
        /\ UNCHANGED <<nodes, disk, moving, owner, renamed>>
    BY <1>4 DEF GetBegin
  <2>2. MaxNodes + 1 \in Int /\ Tree(nodes) BY BoundsAssumption DEF Types
  <2>3. c = None \/ c \in Childrens(nodes, Root)
    BY <2>2, NextChildFound
  <2>4. c \in {None} \cup (DOMAIN nodes \ {Root}) BY <2>3 DEF Childrens
  <2>5. IsLeaf(nodes, Root) => c = None BY <2>3 DEF IsLeaf
  <2> HIDE DEF c
  <2> QED BY <2>1, <2>4, <2>5 DEF Types
<1>5. ASSUME GetVisit PROVE Types'
  <2>1. /\ walk' = [phase |-> "next", at |-> walk.at, owed |-> walk'.owed]
        /\ UNCHANGED <<nodes, disk, moving, owner, renamed>>
    BY <1>5 DEF GetVisit, Types
  <2> QED BY <2>1 DEF Types
<1>6. ASSUME GetNext PROVE Types'
  <2> DEFINE c == NextChild(nodes, walk.at)
  <2>1. /\ walk' = [phase |-> IF c = None THEN "done" ELSE "visit",
                    at |-> c, owed |-> walk.owed]
        /\ walk.at # None
        /\ UNCHANGED <<nodes, disk, moving, owner, renamed>>
    BY <1>6 DEF GetNext, Types
  <2>2. walk.at \in Int /\ Tree(nodes) BY <2>1 DEF Types, Tree
  <2>3. c = None \/ c \in Childrens(nodes, Root)
    BY <2>2, NextChildFound
  <2>4. c \in {None} \cup (DOMAIN nodes \ {Root}) BY <2>3 DEF Childrens
  <2> HIDE DEF c
  <2> QED BY <2>1, <2>4 DEF Types
<1>7. ASSUME GetDangling PROVE Types'
  BY <1>7 DEF GetDangling, Types, NoWalk, Running
<1>8. ASSUME GetEnd PROVE Types'
  BY <1>8 DEF GetEnd, Types, NoWalk
<1>9. ASSUME NEW p \in Paths, Ask(p) PROVE Types'
  BY <1>9 DEF Ask, Types, Put
<1>10. ASSUME NEW p \in DOMAIN moving, Open(p) PROVE Types'
  BY <1>10 DEF Open, Types, Put
<1>11. ASSUME NEW p \in DOMAIN moving, Received(p) PROVE Types'
  BY <1>11 DEF Received, Types
<1>12. ASSUME NEW p \in DOMAIN moving, GiveUp(p) PROVE Types'
  BY <1>12 DEF GiveUp, Types, Without
<1>13. ASSUME NEW p \in DOMAIN moving, SetFileToCached(p) PROVE Types'
  <2> DEFINE n == do_find_node(nodes, p)
             t == [nodes EXCEPT ![n].cached = TRUE]
  <2>1. CASE Crash BY <2>1, <1>c
  <2>2. CASE ~Crash
    <3>1. /\ moving' = Without(moving, {p})
          /\ nodes' = IF owner = "in" /\ Asserts THEN t ELSE nodes
          /\ UNCHANGED <<disk, owner, walk, renamed>>
          /\ ~(owner = "in" /\ Asserts /\ n = None)
      BY <1>13, <2>2 DEF SetFileToCached
    <3>2. owner = "in" /\ Asserts => Tree(t) /\ DOMAIN t = DOMAIN nodes
      <4> SUFFICES ASSUME owner = "in", Asserts PROVE Tree(t) /\ DOMAIN t = DOMAIN nodes
        OBVIOUS
      <4>1. p \in Paths /\ Served /\ n # None BY <3>1 DEF Types, Served
      <4>2. n \in DOMAIN nodes /\ Tree(nodes) BY <4>1, EditedNode DEF Types
      <4> QED BY <4>2, MarkKeepsTree
    <3> HIDE DEF t
    <3>3. Tree(nodes') /\ DOMAIN nodes' = DOMAIN nodes BY <3>1, <3>2 DEF Types
    <3>4. /\ DOMAIN moving' \subseteq Paths
          /\ \A q \in DOMAIN moving' : moving'[q] \in {"asked", "receiving", "stored"}
      BY <3>1 DEF Types, Without
    <3> QED BY <3>1, <3>3, <3>4 DEF Types
  <2> QED BY <2>1, <2>2
<1>14. ASSUME Leave PROVE Types'
  BY <1>14 DEF Leave, Types
<1>15. ASSUME RemoveDirectory PROVE Types'
  <2>1. \A f \in DOMAIN disk' : disk'[f] \in {"partial", "full"}
    BY <1>15 DEF RemoveDirectory, Types
  <2> QED BY <1>15, <2>1 DEF RemoveDirectory, Types
<1>16. ASSUME Destroy PROVE Types'
  <2>1. Tree(nodes) /\ Root \in DOMAIN nodes BY <1>16 DEF Destroy, Types
  <2>2. Tree(nodes') /\ DOMAIN nodes' = {}
    <3>1. nodes' = Delete(nodes, Root) BY <1>16 DEF Destroy
    <3>2. DOMAIN Delete(nodes, Root) = DOMAIN nodes \ Subtree(nodes, Root)
      BY DEF Delete
    <3>3. Subtree(nodes, Root) = DOMAIN nodes BY <2>1, RootAboveAll
    <3>4. Tree(Delete(nodes, Root)) BY <2>1, DeleteKeepsTree
    <3> QED BY <3>1, <3>2, <3>3, <3>4
  <2>3. \A f \in DOMAIN disk' : disk'[f] \in {"partial", "full"}
    BY <1>16 DEF Destroy, Types, Without
  <2> QED BY <1>16, <2>2, <2>3 DEF Destroy, Types
<1>17. CASE UNCHANGED vars
  BY <1>17 DEF vars, Types
<1> QED BY <1>1, <1>2, <1>3, <1>4, <1>5, <1>6, <1>7, <1>8, <1>9, <1>10, <1>11, <1>12,
           <1>13, <1>14, <1>15, <1>16, <1>17 DEF Next

LEMMA TypesAlways == Spec => []Types
BY TypesInit, TypesNext, PTL DEF Spec

(* The tree stays a tree: whatever do_add links, ~Node frees, Rename names *)
(* and SetCached marks, every node hangs below a live node linked before   *)
(* it, the root is there until the tree is destroyed, and a listing in     *)
(* progress stands on a live child or is marked as dangling.               *)
THEOREM TypesHold == Spec => []TypeOK
BY TypesAlways, TypesImplyTypeOK, PTL

----------------------------------------------------------------------------
(* The listing.                                                            *)

(* Everything a walk still owes is in the tree, below the child the walk   *)
(* is about to visit or below an older one, which it comes to later.       *)
Listing ==
    /\ walk.phase \in {"visit", "next"} => walk.owed \subseteq Files(nodes)
    /\ walk.phase \in {"visit", "next"} /\ walk.at # None =>
          \A f \in walk.owed : \E c \in Childrens(nodes, Root) :
             /\ f[1] \in Subtree(nodes, c)
             /\ c <= walk.at
             /\ walk.phase = "next" => c # walk.at
    /\ walk.phase = "done" => walk.owed = {}

LEMMA FilesDef ==
    ASSUME NEW t, NEW f
    PROVE  f \in Files(t) <=>
              \E n \in DOMAIN t \ {Root} : f = <<n, PathsTo(t)[n]>> /\ IsLeaf(t, n)
BY DEF Files, IsLeaf, Childrens

(* The tree may change under a walk as long as what stays in it stays      *)
(* below the same child of the root.                                       *)
LEMMA ListingSetTree ==
    ASSUME Types, Listing, NEW t, SetTree(t),
           \A c \in Childrens(nodes, Root) : \A n \in Subtree(nodes, c) :
              n \in DOMAIN t => c \in Childrens(t, Root) /\ n \in Subtree(t, c)
    PROVE  Listing'
<1>1. /\ nodes' = t
      /\ walk'.phase = walk.phase
      /\ walk'.at # None => walk'.at = walk.at
      /\ walk.phase \in {"idle", "done"} => walk' = walk
      /\ walk.phase \in {"visit", "next"} => walk'.owed = walk.owed \cap Files(t)
  BY ObserveTypes
<1>2. walk'.phase = "done" => walk'.owed = {}
  BY <1>1 DEF Listing
<1>3. walk'.phase \in {"visit", "next"} => walk'.owed \subseteq Files(nodes')
  BY <1>1
<1>4. ASSUME walk.phase \in {"visit", "next"}, walk'.at # None, NEW f \in walk'.owed
      PROVE  \E c \in Childrens(t, Root) :
                /\ f[1] \in Subtree(t, c)
                /\ c <= walk'.at
                /\ walk.phase = "next" => c # walk'.at
  <2>1. f \in walk.owed /\ f \in Files(t) /\ walk'.at = walk.at
    BY <1>1, <1>4
  <2>2. PICK c \in Childrens(nodes, Root) :
           /\ f[1] \in Subtree(nodes, c)
           /\ c <= walk.at
           /\ walk.phase = "next" => c # walk.at
    BY <2>1, <1>4 DEF Listing
  <2>3. f[1] \in DOMAIN t
    <3>1. PICK n \in DOMAIN t \ {Root} : f = <<n, PathsTo(t)[n]>>
      BY <2>1, FilesDef
    <3> QED BY <3>1
  <2> QED BY <2>1, <2>2, <2>3
<1> QED BY <1>1, <1>2, <1>3, <1>4 DEF Listing

LEMMA ListingGrows ==
    ASSUME NEW t, NEW u, Grows(u, t), NEW c \in Childrens(t, Root), NEW n \in Subtree(t, c)
    PROVE  c \in Childrens(u, Root) /\ n \in Subtree(u, c)
<1>1. c \in DOMAIN t BY DEF Childrens
<1>2. c \in Childrens(u, Root) BY DEF Childrens, Grows
<1> QED BY <1>1, <1>2, SubtreeGrows

LEMMA ListingNext == Types /\ Listing /\ [Next]_vars => Listing'
<1> SUFFICES ASSUME Types, Listing, [Next]_vars PROVE Listing'
  OBVIOUS
<1>c. ASSUME UNCHANGED <<nodes, walk>> PROVE Listing'
  BY <1>c DEF Listing
<1>1. ASSUME NEW p \in Paths, Add(p) PROVE Listing'
  <2>1. CASE Crash BY <2>1, <1>c DEF Crash
  <2>2. CASE ~Crash
    <3>1. PICK t : SetTree(t) /\ Tree(t) /\ Extends(t, nodes)
      BY <1>1, <2>2, AddLinks
    <3>2. Grows(t, nodes) BY <3>1 DEF Extends
    <3> QED BY <3>1, <3>2, ListingSetTree, ListingGrows
  <2> QED BY <2>1, <2>2
<1>2. ASSUME NEW p \in Paths, Remove(p) PROVE Listing'
  <2> DEFINE n == do_find_node(nodes, p)
             t == Delete(nodes, n)
  <2>1. Served /\ n # None /\ SetTree(t)
    BY <1>2 DEF Remove
  <2>2. n \in DOMAIN nodes
    BY <2>1, EditedNode
  <2>3. ASSUME NEW c \in Childrens(nodes, Root), NEW m \in Subtree(nodes, c), m \in DOMAIN t
        PROVE  c \in Childrens(t, Root) /\ m \in Subtree(t, c)
    <3>1. c \in DOMAIN nodes /\ c # Root /\ nodes[c].parent = Root BY DEF Childrens
    <3>2. m \notin Subtree(nodes, n) BY <2>3, DeleteDef
    <3>3. c \in DOMAIN t /\ m \in Subtree(t, c)
      BY <2>2, <3>1, <3>2, SubtreeKept
    <3>4. t[c] = nodes[c] BY <3>3, DeleteDef
    <3> QED BY <3>1, <3>3, <3>4 DEF Childrens
  <2> HIDE DEF t
  <2> QED BY <2>1, <2>3, ListingSetTree
<1>3. ASSUME NEW p \in Paths, NEW name \in Names \cup {NoName}, Rename(p, name)
      PROVE  Listing'
  <2> DEFINE n == do_find_node(nodes, p)
             t == [nodes EXCEPT ![n].name = name]
  <2>1. Served /\ n # None /\ name \in Names /\ SetTree(t)
    BY <1>3 DEF Rename
  <2>2. Tree(nodes) /\ n \in DOMAIN nodes
    BY <2>1, EditedNode DEF Types
  <2>3. Grows(t, nodes)
    BY <2>1, <2>2, RenameKeepsTree
  <2> HIDE DEF t
  <2> QED BY <2>1, <2>3, ListingSetTree, ListingGrows
<1>4. ASSUME GetBegin PROVE Listing'
  <2> DEFINE top == NextChild(nodes, MaxNodes + 1)
  <2>1. /\ walk' = [phase |-> IF IsLeaf(nodes, Root) THEN "done" ELSE "visit",
                    at |-> top, owed |-> Files(nodes)]
        /\ nodes' = nodes
    BY <1>4 DEF GetBegin
  <2>2. MaxNodes + 1 \in Int /\ Tree(nodes) BY BoundsAssumption DEF Types
  <2>3. ASSUME NEW f \in Files(nodes)
        PROVE  \E c \in Childrens(nodes, Root) : f[1] \in Subtree(nodes, c)
    <3>1. PICK n \in DOMAIN nodes \ {Root} : f = <<n, PathsTo(nodes)[n]>>
      BY FilesDef
    <3>2. PICK c \in Childrens(nodes, Root) : n \in Subtree(nodes, c)
      BY <2>2, <3>1, BelowSomeChild
    <3> QED BY <3>1, <3>2
  <2>4. CASE IsLeaf(nodes, Root)
    <3>1. Files(nodes) = {} BY <2>3, <2>4 DEF IsLeaf
    <3> QED BY <2>1, <2>4, <3>1 DEF Listing
  <2>5. CASE ~IsLeaf(nodes, Root)
    <3>1. \A c \in Childrens(nodes, Root) : c < MaxNodes + 1
      BY <2>2, BoundsAssumption DEF Childrens, Tree
    <3>2. \A c \in Childrens(nodes, Root) : c <= top
      BY <2>2, <3>1, NextChildFound
    <3> HIDE DEF top
    <3>3. walk'.phase = "visit" /\ walk'.at = top /\ walk'.owed = Files(nodes)
      BY <2>1, <2>5
    <3> QED BY <2>1, <2>3, <3>2, <3>3 DEF Listing
  <2> QED BY <2>4, <2>5
<1>5. ASSUME GetVisit PROVE Listing'
  <2>1. /\ walk.phase = "visit" /\ walk.at # None
        /\ walk'.phase = "next" /\ walk'.at = walk.at
        /\ walk'.owed = {f \in walk.owed : f[2] \notin do_get_paths(nodes, walk.at)}
        /\ nodes' = nodes
    BY <1>5 DEF GetVisit, Types
  <2>2. ASSUME NEW f \in walk'.owed
        PROVE  \E c \in Childrens(nodes, Root) :
                  f[1] \in Subtree(nodes, c) /\ c <= walk.at /\ c # walk.at
    <3>1. PICK c \in Childrens(nodes, Root) : f[1] \in Subtree(nodes, c) /\ c <= walk.at
      BY <2>1 DEF Listing
    <3>2. PICK n \in DOMAIN nodes \ {Root} :
             f = <<n, PathsTo(nodes)[n]>> /\ IsLeaf(nodes, n)
      BY <2>1, FilesDef DEF Listing
    <3>3. c # walk.at
      <4> SUFFICES ASSUME c = walk.at PROVE FALSE OBVIOUS
      <4>1. n \in {l \in Subtree(nodes, walk.at) : IsLeaf(nodes, l)}
        BY <3>1, <3>2
      <4>2. f[2] \in do_get_paths(nodes, walk.at)
        BY <3>2, <4>1 DEF do_get_paths
      <4> QED BY <2>1, <4>2
    <3> QED BY <3>1, <3>3
  <2>3. walk'.owed \subseteq Files(nodes)
    BY <2>1 DEF Listing
  <2> QED BY <2>1, <2>2, <2>3 DEF Listing
<1>6. ASSUME GetNext PROVE Listing'
  <2> DEFINE top == NextChild(nodes, walk.at)
  <2>1. /\ walk.phase = "next" /\ walk.at # None
        /\ walk'.phase = (IF top = None THEN "done" ELSE "visit")
        /\ walk'.at = top
        /\ walk'.owed = walk.owed
        /\ nodes' = nodes
    BY <1>6 DEF GetNext, Types
  <2>2. walk.at \in Int /\ Tree(nodes) BY <2>1 DEF Types, Tree
  <2>3. ASSUME NEW f \in walk.owed
        PROVE  \E c \in Childrens(nodes, Root) : f[1] \in Subtree(nodes, c) /\ c < walk.at
    <3>1. PICK c \in Childrens(nodes, Root) :
             f[1] \in Subtree(nodes, c) /\ c <= walk.at /\ c # walk.at
      BY <2>1 DEF Listing
    <3>2. c \in Int BY <2>2 DEF Childrens, Tree
    <3> QED BY <2>2, <3>1, <3>2
  <2>4. \/ top = None /\ \A m \in Childrens(nodes, Root) : ~(m < walk.at)
        \/ /\ top \in Childrens(nodes, Root)
           /\ \A m \in Childrens(nodes, Root) : m < walk.at => m <= top
    BY <2>2, NextChildFound
  <2>5. top \in Childrens(nodes, Root) => top # None
    BY <2>2 DEF Childrens, Tree, None
  <2> HIDE DEF top
  <2>6. CASE top = None
    <3>1. walk.owed = {} BY <2>3, <2>4, <2>5, <2>6
    <3> QED BY <2>1, <2>6, <3>1 DEF Listing
  <2>7. CASE top # None
    <3>1. \A f \in walk.owed : \E c \in Childrens(nodes, Root) :
             f[1] \in Subtree(nodes, c) /\ c <= top
      BY <2>3, <2>4, <2>7
    <3>2. walk.owed \subseteq Files(nodes) BY <2>1 DEF Listing
    <3> QED BY <2>1, <2>7, <3>1, <3>2 DEF Listing
  <2> QED BY <2>6, <2>7
<1>7. ASSUME GetDangling \/ GetEnd PROVE Listing'
  BY <1>7 DEF GetDangling, GetEnd, Listing, NoWalk
<1>8. ASSUME \/ \E p \in Paths : Ask(p)
             \/ \E p \in DOMAIN moving : Open(p) \/ Received(p) \/ GiveUp(p)
             \/ Leave
             \/ RemoveDirectory
      PROVE  Listing'
  <2>1. UNCHANGED <<nodes, walk>>
    BY <1>8 DEF Ask, Open, Received, GiveUp, Leave, RemoveDirectory
  <2> QED BY <1>c, <2>1
<1>9. ASSUME NEW p \in DOMAIN moving, SetFileToCached(p) PROVE Listing'
  <2> DEFINE n == do_find_node(nodes, p)
             t == [nodes EXCEPT ![n].cached = TRUE]
  <2>1. CASE UNCHANGED <<nodes, walk>> BY <2>1, <1>c
  <2>2. CASE ~UNCHANGED <<nodes, walk>>
    <3>1. owner = "in" /\ Asserts /\ n # None /\ nodes' = t /\ walk' = walk
      BY <1>9, <2>2 DEF SetFileToCached, Crash
    <3>2. p \in Paths /\ Served BY <3>1 DEF Types, Served
    <3>3. n \in DOMAIN nodes /\ Tree(nodes) BY <3>1, <3>2, EditedNode DEF Types
    <3>4. Tree(t) /\ Extends(t, nodes) /\ DOMAIN t = DOMAIN nodes
      BY <3>3, MarkKeepsTree
    <3> HIDE DEF t
    <3>5. \A m \in DOMAIN nodes : PathsTo(t)[m] = PathsTo(nodes)[m]
      BY <3>3, <3>4, PathsKept
    <3>6. \A m \in DOMAIN nodes : IsLeaf(t, m) <=> IsLeaf(nodes, m)
      BY <3>4 DEF IsLeaf, Childrens, Extends, Grows
    <3>7. Files(t) = Files(nodes)
      <4>1. ASSUME NEW f PROVE f \in Files(t) <=> f \in Files(nodes)
        BY <3>4, <3>5, <3>6, FilesDef
      <4> QED BY <4>1
    <3>8. Grows(t, nodes) BY <3>4 DEF Extends
    <3>9. \A c \in Childrens(nodes, Root) : \A m \in Subtree(nodes, c) :
             c \in Childrens(t, Root) /\ m \in Subtree(t, c)
      BY <3>8, ListingGrows
    <3> QED BY <3>1, <3>7, <3>9 DEF Listing
  <2> QED BY <2>1, <2>2
<1>10. ASSUME Destroy PROVE Listing'
  BY <1>10 DEF Destroy, Listing
<1>11. CASE UNCHANGED vars
  BY <1>11, <1>c DEF vars
<1> QED BY <1>1, <1>2, <1>3, <1>4, <1>5, <1>6, <1>7, <1>8, <1>9, <1>10, <1>11 DEF Next

LEMMA ListingAlways == Spec => []Listing
<1>1. Init => Listing BY DEF Init, Listing, NoWalk
<1> QED BY <1>1, TypesAlways, ListingNext, PTL DEF Spec

(* Get misses no file: although it holds the spin lock for one child of    *)
(* the root at a time, whatever the owner adds, removes and renames        *)
(* between two children, a file that was in the tree from the first child  *)
(* to the last is in the listing.                                          *)
THEOREM ListingsAreComplete == Spec => []ListingComplete
<1>1. Listing => ListingComplete BY DEF Listing, ListingComplete
<1> QED BY <1>1, ListingAlways, PTL

----------------------------------------------------------------------------
(* The local copies.                                                       *)

(* A complete copy that somebody answers for. *)
Owned(f) ==
    \/ \E n \in DOMAIN nodes : nodes[n].cached /\ PathsTo(nodes)[n] = f
    \/ f \in DOMAIN moving /\ moving[f] = "stored"

LEMMA OwnedDef ==
    NoStrayFiles <=>
       (owner = "in" /\ Asserts /\ ~renamed =>
           \A f \in DOMAIN disk : disk[f] = "full" => Owned(f))
BY DEF NoStrayFiles, Owned

LEMMA StrayNext == Types /\ Types' /\ NoStrayFiles /\ [Next]_vars => NoStrayFiles'
<1> SUFFICES ASSUME Types, Types', NoStrayFiles, [Next]_vars,
                    owner' = "in", Asserts, ~renamed',
                    NEW f \in DOMAIN disk', disk'[f] = "full"
             PROVE  Owned(f)'
  BY DEF NoStrayFiles, Owned
<1> USE DEF Owned
<1>0. ASSUME owner = "in", ~renamed, f \in DOMAIN disk, disk[f] = "full"
      PROVE  Owned(f)
  BY <1>0, OwnedDef
<1>c. ASSUME UNCHANGED <<nodes, disk, owner, renamed>>,
             \A q \in DOMAIN moving : moving[q] = "stored" =>
                q \in DOMAIN moving' /\ moving'[q] = "stored"
      PROVE  Owned(f)'
  BY <1>0, <1>c
<1>1. ASSUME NEW p \in Paths, Add(p) PROVE Owned(f)'
  <2>1. ~Crash BY DEF Crash
  <2>2. UNCHANGED <<disk, moving, owner, renamed>>
    BY <1>1, <2>1, AddLinks
  <2>3. PICK t : /\ SetTree(t) /\ Tree(t) /\ Extends(t, nodes)
                 /\ \A n \in DOMAIN nodes : t[n] = nodes[n]
    BY <1>1, <2>1, AddLinks
  <2>4. nodes' = t /\ Tree(nodes) BY <2>3 DEF SetTree, Types
  <2>5. \A n \in DOMAIN nodes : /\ n \in DOMAIN nodes'
                                /\ nodes'[n] = nodes[n]
                                /\ PathsTo(nodes')[n] = PathsTo(nodes)[n]
    BY <2>3, <2>4, PathsKept DEF Extends, Grows
  <2>6. Owned(f) BY <1>0, <2>2
  <2> QED BY <2>2, <2>5, <2>6
<1>2. ASSUME NEW p \in Paths, Remove(p) PROVE Owned(f)'
  <2> DEFINE n == do_find_node(nodes, p)
  <2>1. /\ Served
        /\ n # None
        /\ nodes' = Delete(nodes, n)
        /\ disk' = Without(disk, LocalFiles(nodes, n))
        /\ UNCHANGED <<moving, owner, renamed>>
    BY <1>2 DEF Remove, SetTree
  <2>2. Tree(nodes) /\ n \in DOMAIN nodes BY <2>1, EditedNode DEF Types
  <2> HIDE DEF n
  <2>3. f \in DOMAIN disk /\ f \notin LocalFiles(nodes, n) /\ disk[f] = "full"
    BY <2>1 DEF Without
  <2>4. Owned(f) BY <1>0, <2>1, <2>3
  <2>5. ASSUME NEW m \in DOMAIN nodes, nodes[m].cached, PathsTo(nodes)[m] = f
        PROVE  m \in DOMAIN nodes' /\ nodes'[m].cached /\ PathsTo(nodes')[m] = f
    <3>1. m \notin Subtree(nodes, n)
      BY <2>3, <2>5 DEF LocalFiles
    <3>2. m \in DOMAIN nodes' /\ nodes'[m] = nodes[m]
      BY <2>1, <3>1, DeleteDef
    <3>3. PathsTo(nodes')[m] = PathsTo(nodes)[m]
      BY <2>1, <2>2, <3>2, PathsAfterDelete
    <3> QED BY <2>5, <3>2, <3>3
  <2> QED BY <2>1, <2>4, <2>5
<1>3. ASSUME NEW p \in Paths, NEW name \in Names \cup {NoName}, Rename(p, name)
      PROVE  Owned(f)'
  BY <1>3 DEF Rename
<1>4. ASSUME GetBegin \/ GetVisit \/ GetNext \/ GetDangling \/ GetEnd PROVE Owned(f)'
  <2>1. UNCHANGED <<nodes, disk, moving, renamed>> /\ owner' \in {owner, "crashed"}
    BY <1>4 DEF GetBegin, GetVisit, GetNext, GetDangling, GetEnd
  <2> QED BY <1>c, <2>1
<1>5. ASSUME NEW p \in Paths, Ask(p) PROVE Owned(f)'
  BY <1>5, <1>c DEF Ask, Put
<1>6. ASSUME NEW p \in DOMAIN moving, Open(p) PROVE Owned(f)'
  <2>1. /\ moving[p] = "asked"
        /\ disk' = Put(disk, p, "partial")
        /\ moving' = [moving EXCEPT ![p] = "receiving"]
        /\ UNCHANGED <<nodes, owner, renamed>>
    BY <1>6 DEF Open
  <2>2. f # p /\ f \in DOMAIN disk /\ disk[f] = "full"
    BY <2>1 DEF Put
  <2>3. Owned(f) BY <1>0, <2>1, <2>2
  <2> QED BY <2>1, <2>2, <2>3
<1>7. ASSUME NEW p \in DOMAIN moving, Received(p) PROVE Owned(f)'
  <2>1. /\ moving[p] = "receiving"
        /\ disk' = [g \in DOMAIN disk |-> IF g = p THEN "full" ELSE disk[g]]
        /\ moving' = [moving EXCEPT ![p] = "stored"]
        /\ UNCHANGED <<nodes, owner, renamed>>
    BY <1>7 DEF Received
  <2>2. CASE f = p BY <2>1, <2>2
  <2>3. CASE f # p
    <3>1. f \in DOMAIN disk /\ disk[f] = "full" BY <2>1, <2>3
    <3>2. Owned(f) BY <1>0, <2>1, <3>1
    <3> QED BY <2>1, <2>3, <3>2
  <2> QED BY <2>2, <2>3
<1>8. ASSUME NEW p \in DOMAIN moving, GiveUp(p) PROVE Owned(f)'
  BY <1>8, <1>c DEF GiveUp, Without
<1>9. ASSUME NEW p \in DOMAIN moving, SetFileToCached(p) PROVE Owned(f)'
  <2> DEFINE n == do_find_node(nodes, p)
             t == [nodes EXCEPT ![n].cached = TRUE]
  <2>1. ~Crash BY DEF Crash
  <2>2. /\ moving' = Without(moving, {p})
        /\ nodes' = IF owner = "in" /\ Asserts THEN t ELSE nodes
        /\ UNCHANGED <<disk, owner, renamed>>
        /\ ~(owner = "in" /\ Asserts /\ n = None)
    BY <1>9, <2>1 DEF SetFileToCached
  <2>3. owner = "in" /\ p \in Paths /\ Served /\ n # None /\ nodes' = t
    BY <2>2 DEF Types, Served
  <2>4. n \in DOMAIN nodes /\ PathsTo(nodes)[n] = p /\ Tree(nodes)
    BY <2>3, EditedNode DEF Types
  <2>5. /\ Tree(t) /\ Extends(t, nodes) /\ DOMAIN t = DOMAIN nodes
        /\ t[n].cached
        /\ \A m \in DOMAIN nodes \ {n} : t[m] = nodes[m]
    BY <2>4, MarkKeepsTree
  <2> HIDE DEF t, n
  <2>6. \A m \in DOMAIN nodes : PathsTo(t)[m] = PathsTo(nodes)[m]
    BY <2>4, <2>5, PathsKept
  <2>7. CASE f = p BY <2>3, <2>4, <2>5, <2>6, <2>7
  <2>8. CASE f # p
    <3>1. Owned(f) BY <1>0, <2>2, <2>3
    <3>2. CASE f \in DOMAIN moving /\ moving[f] = "stored"
      BY <2>2, <2>8, <3>2 DEF Without
    <3>3. CASE \E m \in DOMAIN nodes : nodes[m].cached /\ PathsTo(nodes)[m] = f
      <4>1. PICK m \in DOMAIN nodes : nodes[m].cached /\ PathsTo(nodes)[m] = f
        BY <3>3
      <4>2. m \in DOMAIN t /\ t[m].cached /\ PathsTo(t)[m] = f
        BY <2>5, <2>6, <4>1
      <4> QED BY <2>3, <4>2
    <3> QED BY <3>1, <3>2, <3>3
  <2> QED BY <2>7, <2>8
<1>10. ASSUME Leave \/ RemoveDirectory \/ Destroy PROVE Owned(f)'
  BY <1>10 DEF Leave, RemoveDirectory, Destroy
<1>11. CASE UNCHANGED vars
  BY <1>11, <1>c DEF vars
<1> QED BY <1>1, <1>2, <1>3, <1>4, <1>5, <1>6, <1>7, <1>8, <1>9, <1>10, <1>11 DEF Next

(* No copy goes astray: as long as nothing has been renamed, every         *)
(* complete copy in the directory of a present owner belongs to a cached   *)
(* node of the same path or to a download that is about to mark it, so     *)
(* ~Node, which removes the copies of the nodes it frees, leaves none      *)
(* behind (Debug build).                                                   *)
THEOREM NoFileIsStray == Spec => []NoStrayFiles
<1>1. Init => NoStrayFiles BY DEF Init, NoStrayFiles
<1> QED BY <1>1, TypesAlways, StrayNext, PTL DEF Spec

----------------------------------------------------------------------------
(* Edits and the look-up of paths.                                         *)

(* A path and its first components. *)
LEMMA PrefixOfPath ==
    ASSUME NEW q \in Seq(Names), NEW i \in 1..Len(q)
    PROVE  /\ SubSeq(q, 1, i) = Append(SubSeq(q, 1, i - 1), q[i])
           /\ SubSeq(q, 1, i - 1) \in Seq(Names)
           /\ Len(SubSeq(q, 1, i)) = i
           /\ Len(SubSeq(q, 1, i - 1)) = i - 1
           /\ Seqs!IsPrefix(SubSeq(q, 1, i), q)
<1>0. Len(q) \in Nat OBVIOUS
<1>1. SubSeq(q, 1, i) \in Seq(Names) /\ Len(SubSeq(q, 1, i)) = i
  BY <1>0
<1>2. SubSeq(q, 1, i - 1) \in Seq(Names) /\ Len(SubSeq(q, 1, i - 1)) = i - 1
  BY <1>0
<1>3. SubSeq(q, 1, i) = Append(SubSeq(q, 1, i - 1), q[i])
  BY <1>0
<1>4. SubSeq(SubSeq(q, 1, i), 1, i) = SubSeq(q, 1, i)
  BY <1>1, SubSeqFull
<1>5. Seqs!IsPrefix(SubSeq(q, 1, i), q)
  BY <1>0, <1>1, <1>4 DEF Seqs!IsPrefix
<1> QED BY <1>1, <1>2, <1>3, <1>5

LEMMA PathOfChild ==
    ASSUME NEW t, Tree(t), NEW x, NEW m \in Childrens(t, x)
    PROVE  m \in DOMAIN t /\ m # Root /\ PathsTo(t)[m] = Append(PathsTo(t)[x], t[m].name)
BY PathsDef DEF Childrens

(* The same children of a name, the same first one. *)
LEMMA SameChildren ==
    ASSUME NEW t, NEW u, NEW x, NEW name,
           \A m : m \in Childrens(t, x) /\ t[m].name = name <=>
                  m \in Childrens(u, x) /\ u[m].name = name
    PROVE  GetChildren(u, x, name) = GetChildren(t, x, name)
<1>1. {m \in Childrens(u, x) : u[m].name = name} = {m \in Childrens(t, x) : t[m].name = name}
  OBVIOUS
<1> QED BY <1>1 DEF GetChildren

(* Two trees lead the same way down a path as long as no node on the way   *)
(* has other children of the next name.                                    *)
LEMMA SameWay ==
    ASSUME NEW t, NEW u, NEW q \in Seq(Names), NEW k \in 0..Len(q),
           \A i \in 1..k :
              /\ do_find_path(u, q)[i - 1] = do_find_path(t, q)[i - 1]
              /\ do_find_path(t, q)[i - 1] # None
              => GetChildren(u, do_find_path(t, q)[i - 1], q[i])
                    = GetChildren(t, do_find_path(t, q)[i - 1], q[i])
    PROVE  \A i \in 0..k : do_find_path(u, q)[i] = do_find_path(t, q)[i]
<1> DEFINE at == do_find_path(t, q)
           bt == do_find_path(u, q)
           Bad == {i \in 0..k : bt[i] # at[i]}
<1> SUFFICES ASSUME Bad # {} PROVE FALSE OBVIOUS
<1>0. Len(q) \in Nat /\ k \in Nat OBVIOUS
<1>1. PICK i \in Bad : \A j \in Bad : i <= j
  <2>1. Bad \in SUBSET Nat BY <1>0
  <2> QED BY <2>1, Least
<1>2. at[0] = Root /\ bt[0] = Root BY FindDef
<1>3. i \in 1..k /\ i \in 1..Len(q) /\ i - 1 \in 0..k
  <2>1. i \in 0..k /\ i # 0 BY <1>2
  <2> QED BY <1>0, <2>1
<1>4. bt[i - 1] = at[i - 1]
  <2>1. i - 1 \notin Bad BY <1>1, <1>3
  <2> QED BY <2>1, <1>3
<1>5. /\ at[i] = IF at[i - 1] = None THEN None ELSE GetChildren(t, at[i - 1], q[i])
      /\ bt[i] = IF bt[i - 1] = None THEN None ELSE GetChildren(u, bt[i - 1], q[i])
  BY <1>3, FindDef
<1>6. at[i - 1] # None => GetChildren(u, at[i - 1], q[i]) = GetChildren(t, at[i - 1], q[i])
  BY <1>3, <1>4
<1>7. bt[i] # at[i] OBVIOUS
<1> QED BY <1>4, <1>5, <1>6, <1>7

LEMMA SameNode ==
    ASSUME NEW t, NEW u, NEW q \in Seq(Names), q # <<>>,
           \A i \in 0..Len(q) : do_find_path(u, q)[i] = do_find_path(t, q)[i]
    PROVE  do_find_node(u, q) = do_find_node(t, q)
<1>1. Len(q) \in 0..Len(q) OBVIOUS
<1> QED BY <1>1 DEF do_find_node

(* Freeing a node changes the look-up of the paths through it, no other. *)
LEMMA RemoveStays ==
    ASSUME NEW t, Tree(t), Root \in DOMAIN t, NEW n \in DOMAIN t \ {Root},
           NEW q \in Seq(Names), q # <<>>, ~Seqs!IsPrefix(PathsTo(t)[n], q)
    PROVE  do_find_node(Delete(t, n), q) = do_find_node(t, q)
<1> DEFINE u == Delete(t, n)
<1>0. /\ Len(q) \in Nat
      /\ Tree(u)
      /\ Root \in DOMAIN u
  <2>1. Tree(u) BY DeleteKeepsTree
  <2>2. Root \notin Subtree(t, n) BY RootNotBelow
  <2>3. Root \in DOMAIN u BY <2>2 DEF Delete
  <2> QED BY <2>1, <2>3
<1>1. ASSUME NEW i \in 1..Len(q), NEW x, x = do_find_path(t, q)[i - 1],
             do_find_path(u, q)[i - 1] = x, x # None
      PROVE  GetChildren(u, x, q[i]) = GetChildren(t, x, q[i])
  <2>0. i - 1 \in 0..Len(q) BY <1>0
  <2>1. x \in DOMAIN u
    BY <1>0, <1>1, <2>0, FoundHasPath
  <2>2. PathsTo(t)[x] = SubSeq(q, 1, i - 1)
    BY <1>1, <2>0, FoundHasPath
  <2>3. x \in DOMAIN t /\ x \notin Subtree(t, n)
    BY <2>1 DEF Delete
  <2>4. ASSUME NEW m \in Childrens(t, x), t[m].name = q[i]
        PROVE  m \in Childrens(u, x) /\ u[m].name = q[i]
    <3>1. m \in DOMAIN t /\ m # Root /\ t[m].parent = x BY DEF Childrens
    <3>2. m # n
      <4> SUFFICES ASSUME m = n PROVE FALSE OBVIOUS
      <4>1. PathsTo(t)[n] = Append(SubSeq(q, 1, i - 1), q[i])
        BY <2>2, <2>4, PathOfChild
      <4>2. PathsTo(t)[n] = SubSeq(q, 1, i) BY <4>1, PrefixOfPath
      <4> QED BY <4>2, PrefixOfPath
    <3>3. m \notin Subtree(t, n)
      BY <2>3, <3>1, <3>2, SubtreeParent
    <3>4. m \in DOMAIN u /\ u[m] = t[m] BY <3>1, <3>3, DeleteDef
    <3> QED BY <2>4, <3>1, <3>4 DEF Childrens
  <2>5. ASSUME NEW m \in Childrens(u, x), u[m].name = q[i]
        PROVE  m \in Childrens(t, x) /\ t[m].name = q[i]
    <3>1. m \in DOMAIN u /\ m # Root /\ u[m].parent = x BY DEF Childrens
    <3>2. m \in DOMAIN t /\ u[m] = t[m] BY <3>1, DeleteDef
    <3> QED BY <2>5, <3>1, <3>2 DEF Childrens
  <2> HIDE DEF u
  <2> QED BY <2>4, <2>5, SameChildren
<1> HIDE DEF u
<1>2. \A i \in 0..Len(q) : do_find_path(u, q)[i] = do_find_path(t, q)[i]
  <2>1. Len(q) \in 0..Len(q) BY <1>0
  <2> QED BY <1>1, <2>1, SameWay
<1> QED BY <1>2, SameNode DEF u

(* A new name changes the look-up of the paths through the node and of     *)
(* those through its new path, no other.                                   *)
LEMMA RenameStays ==
    ASSUME NEW t, Tree(t), Root \in DOMAIN t, NEW n \in DOMAIN t \ {Root},
           NEW name \in Names, NEW p \in Seq(Names), p # <<>>, PathsTo(t)[n] = p,
           NEW q \in Seq(Names), q # <<>>, ~Seqs!IsPrefix(p, q),
           ~Seqs!IsPrefix(Append(Seqs!Front(p), name), q)
    PROVE  do_find_node([t EXCEPT ![n].name = name], q) = do_find_node(t, q)
<1> DEFINE u == [t EXCEPT ![n].name = name]
<1>0. /\ Len(q) \in Nat
      /\ Tree(u)
      /\ Grows(u, t)
      /\ DOMAIN u = DOMAIN t
      /\ u[n].name = name
      /\ \A m \in DOMAIN t \ {n} : u[m] = t[m]
  BY RenameKeepsTree
<1> HIDE DEF u
<1>1. ASSUME NEW i \in 1..Len(q), NEW x, x = do_find_path(t, q)[i - 1], x # None
      PROVE  GetChildren(u, x, q[i]) = GetChildren(t, x, q[i])
  <2>0. i - 1 \in 0..Len(q) BY <1>0
  <2>1. PathsTo(t)[x] = SubSeq(q, 1, i - 1)
    BY <1>1, <2>0, FoundHasPath
  <2>2. \A m : m \in Childrens(u, x) <=> m \in Childrens(t, x)
    BY <1>0 DEF Childrens, Grows
  <2>3. n \in Childrens(t, x) => t[n].name # q[i] /\ name # q[i]
    <3> SUFFICES ASSUME n \in Childrens(t, x) PROVE t[n].name # q[i] /\ name # q[i]
      OBVIOUS
    <3>1. p = Append(SubSeq(q, 1, i - 1), t[n].name)
      BY <2>1, PathOfChild
    <3>2. t[n].name # q[i]
      <4> SUFFICES ASSUME t[n].name = q[i] PROVE FALSE OBVIOUS
      <4>1. p = SubSeq(q, 1, i) BY <3>1, PrefixOfPath
      <4> QED BY <4>1, PrefixOfPath
    <3>3. SubSeq(q, 1, i - 1) \in Seq(Names) BY PrefixOfPath
    <3>4. t[n].name \in Names
      <4>1. Len(p) \in 1..Len(p) /\ p[Len(p)] = t[n].name
        BY <3>1, <3>3
      <4> QED BY <4>1
    <3>5. Seqs!Front(p) = SubSeq(q, 1, i - 1)
      BY <3>1, <3>3, <3>4 DEF Seqs!Front
    <3>6. name # q[i]
      <4> SUFFICES ASSUME name = q[i] PROVE FALSE OBVIOUS
      <4>1. Append(Seqs!Front(p), name) = SubSeq(q, 1, i) BY <3>5, PrefixOfPath
      <4> QED BY <4>1, PrefixOfPath
    <3> QED BY <3>2, <3>6
  <2>4. \A m \in Childrens(t, x) : u[m].name = q[i] <=> t[m].name = q[i]
    <3> SUFFICES ASSUME NEW m \in Childrens(t, x)
                 PROVE  u[m].name = q[i] <=> t[m].name = q[i]
      OBVIOUS
    <3>1. m \in DOMAIN t BY DEF Childrens
    <3>2. CASE m = n BY <3>2, <2>3, <1>0
    <3>3. CASE m # n BY <3>1, <3>3, <1>0
    <3> QED BY <3>2, <3>3
  <2> QED BY <2>2, <2>4, SameChildren
<1>2. \A i \in 0..Len(q) : do_find_path(u, q)[i] = do_find_path(t, q)[i]
  <2>1. Len(q) \in 0..Len(q) BY <1>0
  <2> QED BY <1>1, <2>1, SameWay
<1> QED BY <1>2, SameNode DEF u

(* u is the tree with the node N hung below top, and maybe more below N. *)
HungBelow(u, top, N) ==
    /\ Tree(u)
    /\ top \in DOMAIN nodes
    /\ N \notin DOMAIN nodes
    /\ Extends(u, nodes)
    /\ \A x \in DOMAIN nodes, m \in DOMAIN u :
          m \in Childrens(u, x) <=> m \in Childrens(nodes, x) \/ (x = top /\ m = N)

LEMMA ChildrenInTree ==
    ASSUME NEW t, NEW x
    PROVE  Childrens(t, x) \subseteq DOMAIN t
BY DEF Childrens

(* New nodes lead no path astray that does not end above them with their   *)
(* name to come.                                                           *)
LEMMA AddStays ==
    ASSUME Tree(nodes), Root \in DOMAIN nodes, NEW u, NEW top, NEW N, HungBelow(u, top, N),
           NEW q \in Seq(Names), NEW k \in 0..Len(q),
           \A i \in 1..k : do_find_path(nodes, q)[i - 1] = top => u[N].name # q[i]
    PROVE  \A i \in 0..k : do_find_path(u, q)[i] = do_find_path(nodes, q)[i]
<1>0. Len(q) \in Nat /\ k \in Nat OBVIOUS
<1>1. ASSUME NEW i \in 1..k, NEW x, x = do_find_path(nodes, q)[i - 1], x # None
      PROVE  GetChildren(u, x, q[i]) = GetChildren(nodes, x, q[i])
  <2>0. i - 1 \in 0..Len(q) BY <1>0
  <2>1. x \in DOMAIN nodes
    BY <1>1, <2>0, FoundHasPath
  <2>2. x = top => u[N].name # q[i]
    BY <1>1
  <2>3. ASSUME NEW m \in Childrens(nodes, x), nodes[m].name = q[i]
        PROVE  m \in Childrens(u, x) /\ u[m].name = q[i]
    <3>1. m \in DOMAIN nodes /\ m \in DOMAIN u
      BY ChildrenInTree DEF HungBelow, Extends, Grows
    <3> QED BY <2>1, <2>3, <3>1 DEF HungBelow, Extends
  <2>4. ASSUME NEW m \in Childrens(u, x), u[m].name = q[i]
        PROVE  m \in Childrens(nodes, x) /\ nodes[m].name = q[i]
    <3>1. m \in DOMAIN u BY ChildrenInTree
    <3>2. m \in Childrens(nodes, x)
      BY <2>1, <2>2, <2>4, <3>1 DEF HungBelow
    <3>3. m \in DOMAIN nodes BY <3>2, ChildrenInTree
    <3> QED BY <2>4, <3>2, <3>3 DEF HungBelow, Extends
  <2> QED BY <2>3, <2>4, SameChildren
<1> QED BY <1>1, SameWay

(* What do_add links for a path that is not there. *)
LEMMA LinkedBelow ==
    ASSUME Tree(nodes), Root \in DOMAIN nodes, NEW p \in Seq(Names),
           Deepest(p) < Len(p),
           NextNode + Len(p) - Deepest(p) - 1 <= MaxNodes
    PROVE  LET d == Deepest(p)
               N == NextNode
               I == N..(N + Len(p) - d - 1)
               u == Link(nodes, Linked(p, d)) IN
           /\ HungBelow(u, do_find_path(nodes, p)[d], N)
           /\ DOMAIN u = DOMAIN nodes \cup I
           /\ \A k \in I : /\ k \notin DOMAIN nodes
                           /\ u[k].name = p[d + 1 + k - N]
                           /\ u[k].parent = IF k = N THEN do_find_path(nodes, p)[d] ELSE k - 1
<1> DEFINE d == Deepest(p)
           N == NextNode
           I == N..(N + Len(p) - d - 1)
           new == Linked(p, d)
           u == Link(nodes, new)
           top == do_find_path(nodes, p)[d]
<1>0. /\ Len(p) \in Nat /\ d \in 0..Len(p) /\ d < Len(p)
      /\ N \in Nat \ {0}
      /\ top \in DOMAIN nodes
  <2>1. Len(p) \in Nat /\ d \in 0..Len(p) /\ top # None
    BY DeepestFound
  <2> QED BY <2>1, FoundHasPath, NextNodeIsNew
<1>1. /\ DOMAIN new = I
      /\ \A k \in I :
            /\ k \in 1..MaxNodes
            /\ k \notin DOMAIN nodes
            /\ new[k] = Node(p[d + 1 + k - N], IF k = N THEN top ELSE k - 1)
            /\ new[k] \in NodeType
            /\ new[k].parent \in DOMAIN nodes \cup DOMAIN new
            /\ new[k].parent < k
  BY LinkedNodes
<1> HIDE DEF d, N, new, top
<1>2. /\ Tree(u)
      /\ Extends(u, nodes)
      /\ DOMAIN u = DOMAIN nodes \cup I
      /\ \A n \in DOMAIN nodes : u[n] = nodes[n]
      /\ \A k \in I : u[k] = new[k]
  <2> HIDE DEF I
  <2>1. DOMAIN new \cap DOMAIN nodes = {} BY <1>1
  <2>2. \A k \in DOMAIN new : /\ k \in 1..MaxNodes
                             /\ new[k] \in NodeType
                             /\ new[k].parent \in DOMAIN nodes \cup DOMAIN new
                             /\ new[k].parent < k
    BY <1>1
  <2>3. /\ Tree(u)
        /\ Extends(u, nodes)
        /\ DOMAIN u = DOMAIN nodes \cup DOMAIN new
        /\ \A n \in DOMAIN nodes : u[n] = nodes[n]
        /\ \A k \in DOMAIN new : u[k] = new[k]
    BY <2>1, <2>2, NewNodesFit
  <2> QED BY <1>1, <2>3
<1> HIDE DEF u
<1>3. \A k \in I : /\ k \notin DOMAIN nodes
                   /\ u[k].name = p[d + 1 + k - N]
                   /\ u[k].parent = IF k = N THEN top ELSE k - 1
  BY <1>1, <1>2 DEF Node
<1>4. N \in I BY <1>0
<1>5. ASSUME NEW x \in DOMAIN nodes, NEW m \in DOMAIN u
      PROVE  m \in Childrens(u, x) <=> m \in Childrens(nodes, x) \/ (x = top /\ m = N)
  <2>1. CASE m \in DOMAIN nodes
    <3>1. m # N BY <1>3, <1>4, <2>1
    <3> QED BY <1>2, <2>1, <3>1 DEF Childrens
  <2>2. CASE m \in I
    <3>1. m \notin DOMAIN nodes /\ m # Root BY <1>3, <2>2
    <3>2. m # N => m - 1 \in I BY <1>0, <2>2
    <3>3. m # N => u[m].parent \notin DOMAIN nodes BY <1>3, <2>2, <3>2
    <3>4. m \in Childrens(u, x) <=> u[m].parent = x BY <3>1 DEF Childrens
    <3>5. m \notin Childrens(nodes, x) BY <3>1 DEF Childrens
    <3>6. m = N => u[m].parent = top BY <1>3, <1>4
    <3> QED BY <3>3, <3>4, <3>5, <3>6
  <2> QED BY <1>2, <2>1, <2>2
<1>6. HungBelow(u, top, N)
  BY <1>0, <1>2, <1>3, <1>4, <1>5 DEF HungBelow
<1> QED BY <1>2, <1>3, <1>6 DEF d, N, new, top, u

(* What do_add hangs below a path that is there. *)
LEMMA HungBelowFound ==
    ASSUME Tree(nodes), Root \in DOMAIN nodes, NEW top \in DOMAIN nodes,
           NEW name \in Names \cup {NoName}, NextNode <= MaxNodes
    PROVE  HungBelow(Put(nodes, NextNode, Node(name, top)), top, NextNode)
<1> DEFINE u == Put(nodes, NextNode, Node(name, top))
           N == NextNode
<1>1. /\ Tree(u)
      /\ Extends(u, nodes)
      /\ DOMAIN u = DOMAIN nodes \cup {N}
      /\ N \notin DOMAIN nodes
      /\ \A n \in DOMAIN nodes : u[n] = nodes[n]
      /\ u[N] = Node(name, top)
  BY HungNode
<1>2. u[N].parent = top /\ N # Root
  BY <1>1 DEF Node
<1> HIDE DEF u, N
<1>3. ASSUME NEW x \in DOMAIN nodes, NEW m \in DOMAIN u
      PROVE  m \in Childrens(u, x) <=> m \in Childrens(nodes, x) \/ (x = top /\ m = N)
  BY <1>1, <1>2 DEF Childrens
<1>4. HungBelow(u, top, N) BY <1>1, <1>3 DEF HungBelow
<1> QED BY <1>4 DEF u, N

(* The nodes on the way down a path are all different. *)
LEMMA WayDescends ==
    ASSUME NEW t, Tree(t), Root \in DOMAIN t, NEW p \in Seq(Names), NEW q \in Seq(Names),
           NEW i \in 0..Len(p), NEW j \in 0..Len(q),
           do_find_path(t, p)[i] = do_find_path(t, q)[j], do_find_path(t, p)[i] # None
    PROVE  i = j /\ SubSeq(p, 1, i) = SubSeq(q, 1, j)
<1>0. Len(p) \in Nat /\ Len(q) \in Nat OBVIOUS
<1>1. SubSeq(p, 1, i) = SubSeq(q, 1, j)
  BY FoundHasPath
<1>2. Len(SubSeq(p, 1, i)) = i /\ Len(SubSeq(q, 1, j)) = j
  BY <1>0
<1> QED BY <1>1, <1>2

(* do_add has made two kinds of tree when it has not crashed the server. *)
LEMMA AddCases ==
    ASSUME Types, NEW p \in Paths, Add(p), owner' # "crashed"
    PROVE  /\ Tree(nodes) /\ Root \in DOMAIN nodes
           /\ p \in Seq(Names) /\ p # <<>> /\ Len(p) \in Nat /\ Deepest(p) \in 0..Len(p)
           /\ do_find_path(nodes, p)[Deepest(p)] # None
           /\ \/ /\ Deepest(p) < Len(p)
                 /\ NextNode + Len(p) - Deepest(p) - 1 <= MaxNodes
                 /\ nodes' = Link(nodes, Linked(p, Deepest(p)))
              \/ /\ Deepest(p) = Len(p)
                 /\ HungBelow(nodes', do_find_path(nodes, p)[Deepest(p)], NextNode)
<1> DEFINE d == Deepest(p)
           top == do_find_path(nodes, p)[d]
<1>0. Tree(nodes) /\ Root \in DOMAIN nodes /\ p # <<>>
  BY DEF Add, Types, Served
<1>1. p \in Seq(Names) /\ Len(p) \in Nat BY PathsAreSeqs
<1>2. d \in 0..Len(p) /\ top # None BY <1>1, DeepestFound
<1>3. ~Crash BY DEF Crash
<1>4. ASSUME d = Len(p), NextNode <= MaxNodes, NEW name \in Leftover(p[d]),
             nodes' = Put(nodes, NextNode, Node(name, top))
      PROVE  HungBelow(nodes', top, NextNode)
  <2>1. d \in 1..Len(p) BY <1>0, <1>1, <1>4, EmptySeq
  <2>2. p[d] \in Names BY <1>1, <2>1
  <2>3. name \in Names \cup {NoName} BY <2>2 DEF Leftover
  <2>4. top \in DOMAIN nodes BY <1>0, <1>1, <1>2, FoundHasPath
  <2> HIDE DEF d, top
  <2> QED BY <1>0, <1>4, <2>3, <2>4, HungBelowFound
<1>5. \/ /\ d < Len(p)
         /\ NextNode + Len(p) - d - 1 <= MaxNodes
         /\ nodes' = Link(nodes, Linked(p, d))
      \/ /\ d = Len(p)
         /\ NextNode <= MaxNodes
         /\ \E name \in Leftover(p[d]) : nodes' = Put(nodes, NextNode, Node(name, top))
  BY <1>3 DEF Add, SetTree
<1> QED BY <1>0, <1>1, <1>2, <1>4, <1>5

(* The new nodes continue the way down the path they were added for. *)
LEMMA AddFinds ==
    ASSUME Types, NEW p \in Paths, Add(p), owner' # "crashed"
    PROVE  do_find_node(nodes', p) # None
<1> DEFINE d == Deepest(p)
           N == NextNode
           I == N..(N + Len(p) - d - 1)
           at == do_find_path(nodes, p)
           bt == do_find_path(nodes', p)
           top == at[d]
<1>0. /\ Tree(nodes) /\ Root \in DOMAIN nodes
      /\ p \in Seq(Names) /\ p # <<>> /\ Len(p) \in Nat /\ d \in 0..Len(p)
      /\ top # None
  BY AddCases
<1>1. SUFFICES bt[Len(p)] # None
  BY <1>0 DEF do_find_node
<1>2. ASSUME HungBelow(nodes', top, N)
      PROVE  bt[d] = top
  <2>1. \A i \in 1..d : at[i - 1] # top
    <3> SUFFICES ASSUME NEW i \in 1..d, at[i - 1] = top PROVE FALSE OBVIOUS
    <3>1. i - 1 \in 0..Len(p) /\ i - 1 # d BY <1>0
    <3> QED BY <1>0, <3>1, WayDescends
  <2>2. \A i \in 0..d : bt[i] = at[i]
    BY <1>0, <1>2, <2>1, AddStays
  <2>3. d \in 0..d BY <1>0
  <2> QED BY <2>2, <2>3
<1>3. CASE d = Len(p) /\ HungBelow(nodes', top, N)
  BY <1>0, <1>2, <1>3
<1>4. CASE /\ d < Len(p)
           /\ N + Len(p) - d - 1 <= MaxNodes
           /\ nodes' = Link(nodes, Linked(p, d))
  <2>1. /\ HungBelow(nodes', top, N)
        /\ DOMAIN nodes' = DOMAIN nodes \cup I
        /\ \A k \in I : /\ k \notin DOMAIN nodes
                        /\ nodes'[k].name = p[d + 1 + k - N]
                        /\ nodes'[k].parent = IF k = N THEN top ELSE k - 1
    BY <1>0, <1>4, LinkedBelow
  <2>2. bt[d] = top BY <1>2, <2>1
  <2>3. N \in Nat \ {0} /\ N \in I /\ \A n \in DOMAIN nodes : n < N
    BY <1>0, <1>4, NextNodeIsNew
  <2>4. Tree(nodes') /\ top \in DOMAIN nodes BY <2>1 DEF HungBelow
  <2>5. at[d + 1] = None
    <3>1. d + 1 \in 0..Len(p) /\ ~(d + 1 <= d) BY <1>0, <1>4
    <3> QED BY <1>0, <3>1, DeepestFound
  <2>n. d \in Nat /\ N \in Nat /\ Len(p) \in Nat /\ 1 <= N /\ d < Len(p)
    BY <1>0, <1>4, <2>3
  <2>w. \A i \in 1..Len(p) : bt[i] = IF bt[i - 1] = None THEN None
                                    ELSE GetChildren(nodes', bt[i - 1], p[i])
    BY <1>0, FindDef
  <2> HIDE DEF d, N, at, bt, top
  <2> DEFINE Bad == {i \in (d + 1)..Len(p) : bt[i] # N + i - d - 1}
  <2>6. Bad = {}
    <3> SUFFICES ASSUME Bad # {} PROVE FALSE OBVIOUS
    <3>1. PICK i \in Bad : \A j \in Bad : i <= j
      <4>1. Bad \in SUBSET Nat BY <2>n
      <4> QED BY <4>1, Least
    <3>2. i \in (d + 1)..Len(p) /\ bt[i] # N + i - d - 1 OBVIOUS
    <3> DEFINE k == N + i - d - 1
               x == bt[i - 1]
    <3>3. /\ i \in Nat /\ i \in 1..Len(p) /\ i - 1 \in 0..Len(p) /\ k \in I /\ k \in Nat
          /\ d + 1 + k - N = i
      BY <2>n, <3>2
    <3>4. x = IF k = N THEN top ELSE k - 1
      <4>1. CASE i = d + 1
        BY <4>1, <2>2, <2>n
      <4>2. CASE i # d + 1
        <5>1. i - 1 \in (d + 1)..Len(p) /\ i - 1 < i BY <2>n, <3>2, <4>2
        <5>2. i - 1 \notin Bad BY <3>1, <3>3, <5>1
        <5>3. bt[i - 1] = N + (i - 1) - d - 1 BY <5>1, <5>2
        <5>4. k # N /\ k - 1 = N + (i - 1) - d - 1 BY <2>n, <3>2, <4>2
        <5> QED BY <5>3, <5>4
      <4> QED BY <4>1, <4>2
    <3>5. x # None
      <4>1. k # N => k - 1 # None BY <2>n, <3>3 DEF None
      <4> QED BY <1>0, <3>4, <4>1
    <3>6. bt[i] = GetChildren(nodes', x, p[i])
      BY <2>w, <3>3, <3>5
    <3> DEFINE y == bt[i]
    <3>i. k \in I /\ k \in Nat /\ N <= k BY <2>n, <3>3
    <3> HIDE DEF x, k, y
    <3>7. /\ k \in Childrens(nodes', x)
          /\ nodes'[k].name = p[i]
      <4>1. k \in DOMAIN nodes' /\ k # Root /\ k \notin DOMAIN nodes
        BY <2>1, <3>i, <1>0
      <4>2. nodes'[k].parent = x /\ nodes'[k].name = p[i]
        BY <2>1, <3>3, <3>4
      <4> QED BY <4>1, <4>2 DEF Childrens
    <3>8. y \in Childrens(nodes', x) /\ nodes'[y].name = p[i] /\ k <= y
      BY <2>4, <3>6, <3>7, ChildrenFound DEF y
    <3>9. y \in I
      <4>1. y \in DOMAIN nodes' BY <3>8, ChildrenInTree
      <4>2. y \notin DOMAIN nodes
        <5> SUFFICES ASSUME y \in DOMAIN nodes PROVE FALSE OBVIOUS
        <5>1. DOMAIN nodes \subseteq Nat BY <1>0 DEF Tree
        <5>2. y \in Nat /\ y < N BY <2>3, <5>1
        <5> QED BY <2>n, <3>i, <3>8, <5>2
      <4> QED BY <2>1, <4>1, <4>2
    <3>10. x = IF y = N THEN top ELSE y - 1
      BY <2>1, <3>8, <3>9 DEF Childrens
    <3>11. top \notin I BY <2>1, <2>4
    <3>12. y = k
      <4>0. y \in Nat /\ N <= y BY <2>n, <3>9
      <4>1. CASE k = N
        <5>1. y # N => y - 1 \in I BY <2>n, <3>9, <4>0
        <5> QED BY <4>1, <5>1, <3>4, <3>10, <3>11
      <4>2. CASE k # N
        <5>1. y # N BY <2>n, <3>i, <4>0, <4>2, <3>8
        <5>2. y - 1 = k - 1 BY <4>2, <5>1, <3>4, <3>10
        <5> QED BY <3>i, <4>0, <5>2
      <4> QED BY <4>1, <4>2
    <3> QED BY <3>2, <3>12 DEF k, y
  <2>7. bt[Len(p)] = N + Len(p) - d - 1
    <3>1. Len(p) \in (d + 1)..Len(p) BY <2>n
    <3> QED BY <2>6, <3>1
  <2> QED BY <2>n, <2>7 DEF None
<1> QED BY <1>3, <1>4, AddCases

(* do_add and do_find_node agree: whatever equally named siblings the      *)
(* renames of the owner have left in the tree, a path that Add has taken   *)
(* is found when it is looked up next.                                     *)
THEOREM AddedPathsAreFound == Spec => AddedIsFound
<1>1. Types /\ [Next]_vars =>
         [\A p \in Paths \ {<<>>} :
             do_find_node(nodes', p) = None => ~(Add(p) /\ owner' # "crashed")]_vars
  BY AddFinds
<1> QED BY <1>1, TypesAlways, PTL DEF Spec, AddedIsFound

LEMMA AddLeavesFound ==
    ASSUME Types, NEW p \in Paths, Add(p), NEW q \in Paths, q # <<>>,
           do_find_node(nodes, q) # None, ~Seqs!IsPrefix(p, q)
    PROVE  do_find_node(nodes', q) = do_find_node(nodes, q)
<1> DEFINE d == Deepest(p)
           N == NextNode
           at == do_find_path(nodes, p)
           ct == do_find_path(nodes, q)
           top == at[d]
<1>1. CASE owner' = "crashed"
  <2>1. owner # "crashed" BY DEF Add, Served
  <2>2. nodes' = nodes BY <1>1, <2>1 DEF Add, Crash
  <2> QED BY <2>2
<1>2. CASE owner' # "crashed"
  <2>0. /\ Tree(nodes) /\ Root \in DOMAIN nodes
        /\ p \in Seq(Names) /\ p # <<>> /\ Len(p) \in Nat /\ d \in 0..Len(p)
        /\ top # None
    BY <1>2, AddCases
  <2>1. q \in Seq(Names) /\ Len(q) \in Nat BY PathsAreSeqs
  <2>2. \A i \in 0..Len(q) : ct[i] # None
    <3>1. Len(q) \in 0..Len(q) BY <2>1
    <3>2. ct[Len(q)] # None BY DEF do_find_node
    <3> QED BY <2>1, <3>1, <3>2, FoundAbove
  <2>3. ASSUME NEW i \in 1..Len(q), ct[i - 1] = top
        PROVE  i - 1 = d /\ SubSeq(p, 1, d) = SubSeq(q, 1, d)
    <3>1. i - 1 \in 0..Len(q) BY <2>1
    <3> QED BY <2>0, <2>1, <2>3, <3>1, WayDescends
  <2>4. ASSUME HungBelow(nodes', top, N),
               \A i \in 1..Len(q) : ct[i - 1] = top => nodes'[N].name # q[i]
        PROVE  do_find_node(nodes', q) = do_find_node(nodes, q)
    <3>1. Len(q) \in 0..Len(q) BY <2>1
    <3>2. \A i \in 0..Len(q) : do_find_path(nodes', q)[i] = ct[i]
      BY <2>0, <2>1, <2>4, <3>1, AddStays
    <3> QED BY <2>1, <3>2, SameNode
  <2>5. CASE d = Len(p) /\ HungBelow(nodes', top, N)
    <3>1. ASSUME NEW i \in 1..Len(q), ct[i - 1] = top PROVE FALSE
      <4>1. i - 1 = d /\ SubSeq(p, 1, d) = SubSeq(q, 1, d) BY <3>1, <2>3
      <4>2. d <= Len(q) BY <2>0, <2>1, <4>1
      <4>3. Seqs!IsPrefix(p, q) BY <2>5, <4>1, <4>2 DEF Seqs!IsPrefix
      <4> QED BY <4>3
    <3> QED BY <2>4, <2>5, <3>1
  <2>6. CASE /\ d < Len(p)
             /\ N + Len(p) - d - 1 <= MaxNodes
             /\ nodes' = Link(nodes, Linked(p, d))
    <3>1. /\ HungBelow(nodes', top, N)
          /\ \A k \in N..(N + Len(p) - d - 1) : nodes'[k].name = p[d + 1 + k - N]
      BY <2>0, <2>6, LinkedBelow
    <3>2. nodes'[N].name = p[d + 1]
      <4>1. N \in Nat BY <2>0, NextNodeIsNew
      <4>2. N \in N..(N + Len(p) - d - 1) /\ d + 1 + N - N = d + 1
        BY <2>0, <2>6, <4>1
      <4> QED BY <3>1, <4>2
    <3>3. ASSUME NEW i \in 1..Len(q), ct[i - 1] = top, p[d + 1] = q[i] PROVE FALSE
      <4>1. i = d + 1
        <5>1. i - 1 = d BY <2>3, <3>3
        <5> QED BY <5>1, <2>0
      <4>2. d + 1 \in 1..Len(p) /\ d + 1 \in 0..Len(p) /\ ~(d + 1 <= d) /\ (d + 1) - 1 = d
        BY <2>0, <2>6
      <4>3. at[d + 1] = None
        BY <2>0, <4>2, DeepestFound
      <4>4. at[d + 1] = GetChildren(nodes, top, p[d + 1])
        BY <2>0, <4>2, FindDef
      <4>5. ct[i] = GetChildren(nodes, top, q[i])
        BY <2>0, <2>1, <3>3, FindDef
      <4>6. i \in 0..Len(q) BY <2>1
      <4> QED BY <2>2, <3>3, <4>3, <4>4, <4>5, <4>6
    <3> QED BY <2>4, <3>1, <3>2, <3>3
  <2> QED BY <1>2, <2>5, <2>6, AddCases
<1> QED BY <1>1, <1>2

(* An edit stays where it is made: Remove(p) changes what is found at or   *)
(* below p and nothing else, Add(p) finds no other node for a path that    *)
(* was there and is not below p, and Rename changes what is found below    *)
(* the old and below the new path, whatever equally named siblings it      *)
(* meets.                                                                  *)
THEOREM EditsStayBelowTheirPath == Spec => EditsStayBelow
<1> DEFINE Stay(q, p) ==
        ~Seqs!IsPrefix(p, q) =>
           /\ ~Remove(p)
           /\ do_find_node(nodes, q) # None => ~Add(p)
           /\ \A name \in Names :
                 Rename(p, name) => Seqs!IsPrefix(Append(Seqs!Front(p), name), q)
<1>1. ASSUME Types, NEW q \in Paths \ {<<>>}, do_find_node(nodes, q) # do_find_node(nodes', q),
             NEW p \in Paths \ {<<>>}
      PROVE  Stay(q, p)
  <2> SUFFICES ASSUME ~Seqs!IsPrefix(p, q)
               PROVE  /\ ~Remove(p)
                      /\ do_find_node(nodes, q) # None => ~Add(p)
                      /\ \A name \in Names :
                            Rename(p, name) => Seqs!IsPrefix(Append(Seqs!Front(p), name), q)
    OBVIOUS
  <2> DEFINE n == do_find_node(nodes, p)
  <2>0. p \in Seq(Names) /\ q \in Seq(Names) /\ p # <<>> /\ q # <<>> /\ p \in Paths /\ q \in Paths
    BY PathsAreSeqs
  <2>1. ASSUME Served, n # None
        PROVE  /\ Tree(nodes) /\ Root \in DOMAIN nodes
               /\ n \in DOMAIN nodes \ {Root} /\ PathsTo(nodes)[n] = p
    BY <1>1, <2>0, <2>1, EditedNode DEF Types
  <2>2. ASSUME Remove(p) PROVE FALSE
    <3>1. Served /\ n # None /\ nodes' = Delete(nodes, n)
      BY <2>2 DEF Remove, SetTree
    <3> HIDE DEF n
    <3>2. do_find_node(Delete(nodes, n), q) = do_find_node(nodes, q)
      BY <2>0, <2>1, <3>1, RemoveStays
    <3> QED BY <1>1, <3>1, <3>2
  <2>3. ASSUME Add(p), do_find_node(nodes, q) # None PROVE FALSE
    BY <1>1, <2>0, <2>3, AddLeavesFound
  <2>4. ASSUME NEW name \in Names, Rename(p, name),
               ~Seqs!IsPrefix(Append(Seqs!Front(p), name), q)
        PROVE  FALSE
    <3>1. Served /\ n # None /\ nodes' = [nodes EXCEPT ![n].name = name]
      BY <2>4 DEF Rename, SetTree
    <3> HIDE DEF n
    <3>2. /\ Tree(nodes) /\ Root \in DOMAIN nodes
          /\ n \in DOMAIN nodes \ {Root} /\ PathsTo(nodes)[n] = p
      BY <2>1, <3>1
    <3>3. do_find_node([nodes EXCEPT ![n].name = name], q) = do_find_node(nodes, q)
      BY ONLY <2>0, <2>4, <3>2, RenameStays, ~Seqs!IsPrefix(p, q)
    <3> QED BY <1>1, <3>1, <3>3
  <2> QED BY <2>2, <2>3, <2>4
<1>2. Types /\ [Next]_vars =>
         [\A q \in {r \in Paths \ {<<>>} : do_find_node(nodes, r) # do_find_node(nodes', r)},
             p \in Paths \ {<<>>} :
                ~Seqs!IsPrefix(p, q) =>
                   /\ ~Remove(p)
                   /\ do_find_node(nodes, q) # None => ~Add(p)
                   /\ \A name \in Names :
                         Rename(p, name) =>
                            Seqs!IsPrefix(Append(Seqs!Front(p), name), q)]_vars
  BY <1>1
<1> QED BY <1>2, TypesAlways, PTL DEF Spec, EditsStayBelow
============================================================================
