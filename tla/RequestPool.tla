---------------------------- MODULE RequestPool ----------------------------
(***************************************************************************)
(* What the request scheduler promises to the connections that post work   *)
(* to it: a pool of at most Threads concurrently executing requests that   *)
(* always takes a request of the highest pending priority, never loses or  *)
(* invents one, takes no new request once it is stopped, and does not stay *)
(* idle while a request is pending.                                        *)
(***************************************************************************)
EXTENDS Naturals

CONSTANTS Item,      \* posted closures (an element may be posted again once done)
          Priority,  \* Priority[i]: the priority a closure is posted with
          Threads    \* number of threads of the pool

VARIABLES queue,     \* pending requests
          running,   \* requests being executed
          idle,      \* threads not executing one
          stopped    \* the pool was told to stop

poolVars == <<queue, running, idle, stopped>>

\* The pending requests no other pending request outranks.
Top(q) == {i \in q : \A j \in q : Priority[j] <= Priority[i]}

Init == queue = {} /\ running = {} /\ idle = Threads /\ stopped = FALSE

Post(i) ==
  /\ i \notin queue \cup running
  /\ queue' = queue \cup {i}
  /\ UNCHANGED <<running, idle, stopped>>

Start(i) ==
  /\ ~stopped
  /\ i \in Top(queue)
  /\ idle > 0
  /\ queue' = queue \ {i}
  /\ running' = running \cup {i}
  /\ idle' = idle - 1
  /\ UNCHANGED stopped

Finish(i) ==
  /\ i \in running
  /\ running' = running \ {i}
  /\ idle' = idle + 1
  /\ UNCHANGED <<queue, stopped>>

Stop == stopped' = TRUE /\ UNCHANGED <<queue, running, idle>>

Next == Stop \/ \E i \in Item : Post(i) \/ Start(i) \/ Finish(i)

Spec ==
  /\ Init /\ [][Next]_poolVars
  /\ WF_poolVars(\E i \in Item : Start(i))
  /\ \A i \in Item : WF_poolVars(Finish(i))
=============================================================================
