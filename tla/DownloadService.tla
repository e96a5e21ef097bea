-------------------------- MODULE DownloadService --------------------------
(***************************************************************************)
(* What the server promises to the clients that ask it for a file: while   *)
(* it is up, every request is answered once, several possibly at a time,   *)
(* unless the client that asked has left; a request that was answered, or  *)
(* whose client left, is settled for good.                                 *)
(*                                                                         *)
(* Lose is what the promise has to concede to the code: of requests that   *)
(* are handled at the same time one may get the id of another, or wait     *)
(* under an id that no timer clears.  Such a request need not be answered. *)
(***************************************************************************)
EXTENDS FiniteSets

CONSTANT Req

VARIABLES status,   \* Req -> "new" | "open" | "answered" | "left" | "lost"
          up        \* FALSE once the server process has died

serviceVars == <<status, up>>

Init == status = [r \in Req |-> "new"] /\ up = TRUE

Settle(S, how) == status' = [r \in Req |-> IF r \in S THEN how ELSE status[r]]

Ask(r) ==
  /\ up /\ status[r] = "new"
  /\ \/ Settle({r}, "open")
     \/ Settle({r}, "answered")
  /\ UNCHANGED up

(* One transfer, or one timer, settles all the requests that wait for it.  *)
Answer(S) ==
  /\ up /\ S # {}
  /\ \A r \in S : status[r] \in {"open", "lost"}
  /\ Settle(S, "answered")
  /\ UNCHANGED up

Leave(r) ==
  /\ status[r] \in {"new", "open", "lost"}
  /\ Settle({r}, "left")
  /\ UNCHANGED up

Lose(r) ==
  /\ up /\ status[r] = "open"
  /\ \E q \in Req \ {r} : status[q] # "new"
  /\ Settle({r}, "lost")
  /\ UNCHANGED up

Die == up' = FALSE /\ UNCHANGED status

Next ==
  \/ Die
  \/ \E r \in Req : Ask(r) \/ Leave(r) \/ Lose(r)
  \/ \E S \in SUBSET Req : Answer(S)

Spec ==
  /\ Init /\ [][Next]_serviceVars
  /\ \A r \in Req :
       WF_serviceVars(status[r] = "open" /\ \E S \in SUBSET Req : r \in S /\ Answer(S))
=============================================================================
