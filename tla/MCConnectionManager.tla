------------------------ MODULE MCConnectionManager ------------------------
(***************************************************************************)
(* Instances of ConnectionManager for TLC, from a new server (Spec) or     *)
(* from states every server of a few clients passes through: it is empty,  *)
(* after g has come, signed in and out and left (Departed); or all have    *)
(* signed in, those of P have also pushed their files, and everything they *)
(* were sent has arrived (Established).                                    *)
(***************************************************************************)
EXTENDS ConnectionManager, TLC

OwnCreds == [c \in Conn |-> {c}]    \* every client uses its own account
AnyCreds == [c \in Conn |-> Nick]   \* clients share accounts
ActorSymmetry == Permutations(Conn) \cup Permutations(Worker)

NothingGoesOn ==
  /\ storage = [b \in {} |-> 0] /\ sends = {} /\ lame = {} /\ mutex = None
  /\ pending = [r \in Request |-> 0]
  /\ pc = [a \in Actor |-> "idle"]
  /\ conn = [a \in Actor |-> None]
  /\ cmd = [a \in Actor |-> None]
  /\ name = [a \in Actor |-> None]
  /\ was = [a \in Actor |-> FALSE]
  /\ buf = [a \in Actor |-> 0]
  /\ todo = [a \in Actor |-> {}]

Departed(g) ==
  /\ NothingGoesOn
  /\ connections = {} /\ stopped = {g} /\ reading = {g}
  /\ state = [c \in Conn |-> IF c = g THEN "logged" ELSE "connected"]
  /\ nick = [c \in Conn |-> IF c = g THEN g ELSE None]
  /\ counter = 0 /\ counted = {} /\ nextId = 0
  /\ known = [c \in Conn |-> {}]
  /\ users \in {N \in SUBSET Nick : g \in N} /\ posted = 2

Established(P) ==
  /\ NothingGoesOn
  /\ connections = Conn /\ stopped = {} /\ reading = Conn
  /\ state = [c \in Conn |-> IF c \in P THEN "processing" ELSE "logged"]
  /\ nick = [c \in Conn |-> c]
  /\ counter = Cardinality(P) /\ counted = P /\ nextId = Cardinality(P) - 1
  /\ known = [c \in Conn |-> IF c \in P THEN P \ {c} ELSE {}]
  /\ users = Nick /\ posted = Cardinality(Conn) + Cardinality(P)

\* A read in flight of a destroyed connection never matters again: its handler
\* finds the weak_ptr expired and the connection is not accepted a second time.
\* States that differ in nothing else need not be told apart.
LiveView == <<connections, state, nick, {c \in reading : Alive(c)}, stopped, counter, counted, storage,
              nextId, sends, lame, known, mutex, traffic, pc, locals>>

\* Everybody is processing.
BroadcastSpec == Established(Conn) /\ [][Next]_vars
\* Two clients come to an empty server; or all but one client are processing,
\* and that one has only signed in.
SessionsSpec ==
  (\E c \in Conn : Departed(c) \/ Established(Conn \ {c})) /\ [][Next]_vars
=============================================================================
