---------------------- MODULE PriorityScheduler_proofs ----------------------
(***************************************************************************)
(* Safety of the request scheduler for every number of threads, every set  *)
(* of requests and every assignment of priorities: type correctness, the   *)
(* single execution of a posted closure, the absence of lost wake-ups, and *)
(* the step simulation of RequestPool.                                     *)
(***************************************************************************)
EXTENDS PriorityScheduler, FiniteSetTheorems, TLAPS

\* What the io thread's call in progress and the once_flag guarantee in between.
PostingFresh ==
  /\ posting \notin queue
  /\ posting # NoItem => launched
  /\ ~launched => \A w \in Worker : pc[w] = "created"

\* The inductive invariant.
IInv == TypeOK /\ PostingFresh /\ RunOnce /\ NoLostWakeup /\ StopReachesAll

LEMMA AtFinite ==
  ASSUME NEW l
  PROVE  /\ IsFiniteSet(At(l)) /\ Cardinality(At(l)) \in Nat
         /\ IsFiniteSet(At(l)') /\ Cardinality(At(l)') \in Nat
  BY WorkerAssumption, FS_Subset, FS_CardinalityType DEF At

\* The initial state satisfies the invariant: nothing was posted, no thread runs.
LEMMA InitInv == Init => IInv
  <1> SUFFICES ASSUME Init PROVE IInv
    OBVIOUS
  <1>1. TypeOK
    BY FS_EmptySet, NoItemAssumption DEF Init, TypeOK, Location
  <1>2. PostingFresh
    BY DEF Init, PostingFresh
  <1>3. RunOnce /\ NoLostWakeup /\ StopReachesAll
    BY DEF Init, RunOnce, NoLostWakeup, StopReachesAll, At
  <1> QED BY <1>1, <1>2, <1>3 DEF IInv

\* A thread that comes to a location, or leaves it, counts for one.
LEMMA CountIn ==
  ASSUME NEW S, IsFiniteSet(S), NEW w, w \notin S
  PROVE  Cardinality(S \cup {w}) = Cardinality(S) + 1
  BY FS_AddElement

LEMMA CountOut ==
  ASSUME NEW S, IsFiniteSet(S), NEW w \in S
  PROVE  Cardinality(S \ {w}) = Cardinality(S) - 1
  BY FS_RemoveElement

\* BeginPost leaves every parked thread alone: the first one finds none.
LEMMA BeginPostInv == ASSUME IInv, NEW i \in Item, BeginPost(i) PROVE IInv'
  <1> USE DEF IInv
  <1>1. TypeOK'
    <2>1. pc' \in [Worker -> Location]
      BY DEF BeginPost, TypeOK, Location
    <2>2. \A w \in Worker : pc'[w] = "exec" <=> item'[w] # NoItem
      BY DEF BeginPost, TypeOK, PostingFresh
    <2> QED BY <2>1, <2>2 DEF BeginPost, TypeOK
  <1>2. PostingFresh'
    BY DEF BeginPost, TypeOK, PostingFresh
  <1>3. CASE launched
    <2>1. UNCHANGED <<pc, item, queue, stopped>>
      BY <1>3 DEF BeginPost
    <2>2. RunOnce'
      BY <2>1 DEF BeginPost, RunOnce, At, Running
    <2> QED BY <1>1, <1>2, <2>1, <2>2 DEF NoLostWakeup, StopReachesAll, At
  <1>4. CASE ~launched
    <2>1. pc' = [w \in Worker |-> "dispatched"]
      BY <1>4 DEF BeginPost
    <2>2. At("exec")' = {} /\ At("wait")' = {}
      BY <2>1 DEF At
    <2> QED BY <1>1, <1>2, <2>2 DEF RunOnce, NoLostWakeup, StopReachesAll
  <1> QED BY <1>3, <1>4

\* Push adds one request and, if some thread is parked, one thread to "lock".
LEMMA PushInv == ASSUME IInv, Push PROVE IInv'
  <1> USE DEF IInv
  <1>1. /\ posting \in Item /\ queue' = queue \cup {posting}
        /\ IsFiniteSet(queue') /\ Cardinality(queue') = Cardinality(queue) + 1
        /\ Cardinality(queue) \in Nat
    BY FS_AddElement, FS_CardinalityType DEF Push, TypeOK, PostingFresh
  <1>2. CASE At("wait") = {}
    <2>1. UNCHANGED <<pc, item, stopped>>
      BY <1>2 DEF Push, NotifyOne
    <2>2. TypeOK'
      BY <1>1, <2>1 DEF Push, TypeOK
    <2>3. PostingFresh'
      BY <2>1, <1>1, NoItemAssumption DEF Push, TypeOK, PostingFresh
    <2>4. RunOnce'
      BY <2>1, <1>1 DEF Push, RunOnce, At
    <2> QED BY <1>2, <2>1, <2>2, <2>3, <2>4 DEF NoLostWakeup, StopReachesAll, At
  <1>3. CASE At("wait") # {}
    <2>1. PICK w \in At("wait") : pc' = [pc EXCEPT ![w] = "lock"]
      BY <1>3 DEF Push, NotifyOne
    <2>2. w \in Worker /\ pc[w] = "wait" /\ "lock" \in Location
      BY DEF At, Location
    <2>3. /\ Cardinality(At("lock")') = Cardinality(At("lock")) + 1
          /\ At("exec")' = At("exec") /\ At("wait")' \subseteq At("wait")
      <3>1. /\ At("lock")' = At("lock") \cup {w} /\ w \notin At("lock")
            /\ At("exec")' = At("exec") /\ At("wait")' \subseteq At("wait")
        BY <2>1, <2>2 DEF TypeOK, At
      <3> QED BY <3>1, AtFinite, CountIn
    <2>4. TypeOK'
      BY <1>1, <2>1, <2>2 DEF Push, TypeOK
    <2>5. PostingFresh'
      BY <2>1, <2>2, <1>1, NoItemAssumption DEF Push, TypeOK, PostingFresh
    <2>6. RunOnce'
      BY <2>3, <1>1 DEF Push, RunOnce
    <2>7. NoLostWakeup'
      BY <1>1, <1>3, <2>3, AtFinite DEF NoLostWakeup
    <2>8. StopReachesAll'
      BY <1>3, <2>3 DEF Push, StopReachesAll
    <2> QED BY <2>4, <2>5, <2>6, <2>7, <2>8
  <1> QED BY <1>2, <1>3

\* Moves of one thread that touch neither the queue nor the closures.
LEMMA QuietMoveInv ==
  ASSUME IInv, NEW w \in Worker, NEW l \in Location,
         pc[w] # l, pc[w] # "exec", l # "exec", pc[w] # "created",
         pc' = [pc EXCEPT ![w] = l],
         pc[w] = "lock" => queue = {} \/ stopped,
         l = "wait" => queue = {} /\ ~stopped,
         UNCHANGED <<launched, posting, queue, stopped, poolStopped, item>>
  PROVE  IInv'
  <1> USE DEF IInv
  <1>1. TypeOK'
    BY DEF TypeOK
  <1>2. PostingFresh'
    BY DEF TypeOK, PostingFresh
  <1>3. At("exec")' = At("exec")
    BY DEF TypeOK, At
  <1>4. RunOnce'
    BY <1>3 DEF RunOnce
  <1>5. StopReachesAll'
    BY DEF TypeOK, StopReachesAll, At
  <1>6. NoLostWakeup'
    <2>1. CASE queue = {}
      BY <2>1, FS_EmptySet, WorkerAssumption, FS_Subset, FS_CardinalityType DEF NoLostWakeup, At
    <2>2. CASE stopped
      BY <2>2, <1>5 DEF NoLostWakeup, StopReachesAll
    <2>3. CASE queue # {} /\ ~stopped
      <3>1. pc[w] # "lock" /\ l # "wait"
        BY <2>3
      <3>2. At("wait")' \subseteq At("wait")
        BY <3>1 DEF TypeOK, At
      <3>3. Cardinality(At("lock")') >= Cardinality(At("lock"))
        <4>1. CASE l = "lock"
          <5>1. At("lock")' = At("lock") \cup {w} /\ w \notin At("lock")
            BY <4>1 DEF TypeOK, At
          <5> QED BY <5>1, AtFinite, CountIn
        <4>2. CASE l # "lock"
          <5>1. At("lock")' = At("lock")
            BY <3>1, <4>2 DEF TypeOK, At
          <5> QED BY <5>1, AtFinite
        <4> QED BY <4>1, <4>2
      <3> QED BY <3>2, <3>3, AtFinite, FS_CardinalityType DEF NoLostWakeup, TypeOK
    <2> QED BY <2>1, <2>2, <2>3
  <1> QED BY <1>1, <1>2, <1>4, <1>5, <1>6

\* Take removes one request and one thread from "lock".
LEMMA TakeInv == ASSUME IInv, NEW w \in Worker, Take(w) PROVE IInv'
  <1> USE DEF IInv
  <1>1. PICK i \in Top(queue) :
          /\ queue' = queue \ {i}
          /\ item' = [item EXCEPT ![w] = i]
    BY DEF Take
  <1>2. /\ i \in queue /\ i \in Item /\ i # NoItem /\ i # posting
        /\ pc[w] = "lock" /\ pc' = [pc EXCEPT ![w] = "exec"]
        /\ UNCHANGED <<launched, posting, stopped, poolStopped>>
    BY <1>1, NoItemAssumption DEF Take, Top, TypeOK, PostingFresh
  <1>3. /\ IsFiniteSet(queue') /\ Cardinality(queue') = Cardinality(queue) - 1
        /\ Cardinality(queue) \in Nat
    BY <1>1, <1>2, FS_RemoveElement, FS_CardinalityType DEF TypeOK
  <1>4. TypeOK'
    BY <1>1, <1>2, <1>3 DEF TypeOK, Location
  <1>5. PostingFresh'
    BY <1>1, <1>2 DEF TypeOK, PostingFresh
  <1>6. /\ At("exec")' = At("exec") \cup {w} /\ w \notin At("exec")
        /\ At("wait")' = At("wait")
        /\ Cardinality(At("lock")') = Cardinality(At("lock")) - 1
    <2>1. /\ At("exec")' = At("exec") \cup {w} /\ w \notin At("exec")
          /\ At("wait")' = At("wait")
          /\ At("lock")' = At("lock") \ {w} /\ w \in At("lock")
      BY <1>2 DEF TypeOK, At
    <2> QED BY <2>1, AtFinite, CountOut
  <1>7. \A v \in At("exec") : v \in Worker /\ item'[v] = item[v]
    BY <1>1, <1>6 DEF At, TypeOK
  <1>8. item'[w] = i
    BY <1>1 DEF TypeOK
  <1>9. RunOnce'
    <2>1. \A v \in At("exec")' : item'[v] # NoItem /\ item'[v] \notin (queue \cup {posting})'
      BY <1>1, <1>2, <1>6, <1>7, <1>8 DEF RunOnce
    <2>2. \A u, v \in At("exec")' : item'[u] = item'[v] => u = v
      BY <1>2, <1>6, <1>7, <1>8 DEF RunOnce
    <2> QED BY <2>1, <2>2 DEF RunOnce
  <1>10. NoLostWakeup'
    BY <1>3, <1>6, AtFinite DEF NoLostWakeup
  <1>11. StopReachesAll'
    BY <1>2, <1>6 DEF StopReachesAll
  <1> QED BY <1>4, <1>5, <1>9, <1>10, <1>11

LEMMA FinishInv == ASSUME IInv, NEW w \in Worker, Finish(w) PROVE IInv'
  <1> USE DEF IInv
  <1>1. /\ pc[w] = "exec" /\ pc' = [pc EXCEPT ![w] = "lock"]
        /\ item' = [item EXCEPT ![w] = NoItem]
        /\ UNCHANGED <<launched, posting, queue, stopped, poolStopped>>
    BY DEF Finish
  <1>2. TypeOK'
    BY <1>1 DEF TypeOK, Location
  <1>3. PostingFresh'
    BY <1>1 DEF TypeOK, PostingFresh
  <1>4. /\ At("exec")' = At("exec") \ {w} /\ At("wait")' = At("wait")
        /\ Cardinality(At("lock")') = Cardinality(At("lock")) + 1
    <2>1. /\ At("exec")' = At("exec") \ {w} /\ At("wait")' = At("wait")
          /\ At("lock")' = At("lock") \cup {w} /\ w \notin At("lock")
      BY <1>1 DEF TypeOK, At
    <2> QED BY <2>1, AtFinite, CountIn
  <1>5. RunOnce'
    BY <1>1, <1>4 DEF RunOnce, TypeOK, At
  <1>6. NoLostWakeup'
    BY <1>1, <1>4, AtFinite, FS_CardinalityType DEF NoLostWakeup, TypeOK
  <1>7. StopReachesAll'
    BY <1>1, <1>4 DEF StopReachesAll
  <1> QED BY <1>2, <1>3, <1>5, <1>6, <1>7

\* stop() empties the wait set.
LEMMA StopInv == ASSUME IInv, Stop PROVE IInv'
  <1> USE DEF IInv
  <1>1. TypeOK'
    BY DEF Stop, TypeOK, Location
  <1>2. PostingFresh'
    BY DEF Stop, TypeOK, PostingFresh
  <1>3. At("exec")' = At("exec") /\ At("wait")' = {}
    BY DEF Stop, TypeOK, At
  <1>4. RunOnce'
    BY <1>3 DEF Stop, RunOnce
  <1> QED BY <1>1, <1>2, <1>3, <1>4 DEF NoLostWakeup, StopReachesAll

\* Every step of the scheduler preserves the invariant.
LEMMA NextInv == IInv /\ [Next]_vars => IInv'
  <1> SUFFICES ASSUME IInv, [Next]_vars PROVE IInv'
    OBVIOUS
  <1>1. ASSUME NEW i \in Item, BeginPost(i) PROVE IInv'
    BY <1>1, BeginPostInv
  <1>2. CASE Push
    BY <1>2, PushInv
  <1>3. ASSUME NEW w \in Worker, ThreadStep(w) PROVE IInv'
    <2>1. CASE EnterRun(w)
      BY <2>1, QuietMoveInv DEF EnterRun, Location
    <2>2. CASE Park(w)
      BY <2>2, QuietMoveInv DEF Park, Location
    <2>3. CASE Leave(w)
      BY <2>3, QuietMoveInv DEF Leave, Location
    <2>4. CASE Take(w)
      BY <2>4, TakeInv
    <2>5. CASE Finish(w)
      BY <2>5, FinishInv
    <2> QED BY <1>3, <2>1, <2>2, <2>3, <2>4, <2>5 DEF ThreadStep
  <1>4. ASSUME NEW w \in Worker, SpuriousWakeup(w) PROVE IInv'
    BY <1>4, QuietMoveInv DEF SpuriousWakeup, Location
  <1>5. CASE Stop
    BY <1>5, StopInv
  <1>6. CASE StopPool
    BY <1>6 DEF StopPool, IInv, TypeOK, PostingFresh, RunOnce, NoLostWakeup, StopReachesAll, At
  <1>7. CASE UNCHANGED vars
    BY <1>7 DEF vars, IInv, TypeOK, PostingFresh, RunOnce, NoLostWakeup, StopReachesAll, At
  <1> QED BY <1>1, <1>2, <1>3, <1>4, <1>5, <1>6, <1>7 DEF Next

LEMMA SpecInv == Spec => []IInv
  BY InitInv, NextInv, PTL DEF Spec

\* Every variable of the scheduler keeps its type, and a thread holds a closure
\* exactly while it executes it.
THEOREM TypeCorrect == Spec => []TypeOK
  <1>1. IInv => TypeOK
    BY DEF IInv
  <1> QED BY <1>1, SpecInv, PTL

\* run(): a posted closure is executed by one thread only, once per post.
THEOREM RunOnceHolds == Spec => []RunOnce
  <1>1. IInv => RunOnce
    BY DEF IInv
  <1> QED BY <1>1, SpecInv, PTL

\* post() and run(): a notify_one is never lost, whatever the number of threads.
THEOREM NoLostWakeupHolds == Spec => []NoLostWakeup
  <1>1. IInv => NoLostWakeup
    BY DEF IInv
  <1> QED BY <1>1, SpecInv, PTL

\* stop(): no thread stays parked once stopped_ is set.
THEOREM StopReachesAllHolds == Spec => []StopReachesAll
  <1>1. IInv => StopReachesAll
    BY DEF IInv
  <1> QED BY <1>1, SpecInv, PTL

-----------------------------------------------------------------------------
(* The scheduler simulates RequestPool step by step. *)

LEMMA PoolInit == Init => Pool!Init
  <1> SUFFICES ASSUME Init PROVE Pool!Init
    OBVIOUS
  <1>1. At("exec") = {} /\ Worker \ {} = Worker
    BY DEF Init, At
  <1>2. Idle = Cardinality(Worker) /\ Running = {}
    BY <1>1 DEF Idle, Running
  <1> QED BY <1>2 DEF Init, Pool!Init

\* Every step is a step of the pool or leaves what the pool shows alone.
LEMMA PoolStep == IInv /\ [Next]_vars => [Pool!Next]_(Pool!poolVars)
  <1> SUFFICES ASSUME IInv, [Next]_vars PROVE [Pool!Next]_(Pool!poolVars)
    OBVIOUS
  <1> USE DEF IInv, Pool!poolVars
  <1>1. ASSUME NEW i \in Item, BeginPost(i) PROVE UNCHANGED <<queue, Running, Idle, stopped>>
    <2>1. At("exec")' = At("exec")
      BY <1>1 DEF BeginPost, At, PostingFresh
    <2> QED BY <1>1, <2>1 DEF BeginPost, Running, Idle
  <1>2. CASE Push
    <2>1. At("exec")' = At("exec")
      BY <1>2 DEF Push, NotifyOne, At, TypeOK
    <2>2. Running' = Running /\ Idle' = Idle
      BY <1>2, <2>1 DEF Push, Running, Idle
    <2>3. posting \in Item /\ posting \notin queue \cup Running
      BY <1>2 DEF Push, TypeOK, PostingFresh, RunOnce, Running
    <2>4. Pool!Post(posting)
      BY <1>2, <2>2, <2>3 DEF Push, Pool!Post
    <2> QED BY <2>3, <2>4 DEF Pool!Next
  <1>3. ASSUME NEW w \in Worker, EnterRun(w) \/ Park(w) \/ Leave(w) \/ SpuriousWakeup(w)
        PROVE UNCHANGED <<queue, Running, Idle, stopped>>
    <2>1. At("exec")' = At("exec") /\ UNCHANGED <<item, queue, stopped>>
      BY <1>3 DEF EnterRun, Park, Leave, SpuriousWakeup, At, TypeOK
    <2> QED BY <2>1 DEF Running, Idle
  <1>4. ASSUME NEW w \in Worker, Take(w) PROVE Pool!Next
    <2>1. PICK i \in Top(queue) : queue' = queue \ {i} /\ item' = [item EXCEPT ![w] = i]
      BY <1>4 DEF Take
    <2>2. i \in Item /\ Pool!Top(queue) = Top(queue)
      BY <2>1 DEF Top, Pool!Top, TypeOK
    <2>3. /\ pc[w] = "lock" /\ ~stopped /\ UNCHANGED stopped
          /\ pc' = [pc EXCEPT ![w] = "exec"]
      BY <1>4 DEF Take
    <2>4. At("exec")' = At("exec") \cup {w} /\ w \notin At("exec")
      BY <2>3 DEF At, TypeOK
    <2>5. item'[w] = i /\ \A v \in At("exec") : item'[v] = item[v]
      BY <2>1, <2>4 DEF TypeOK, At
    <2>6. Running' = Running \cup {i}
      BY <2>4, <2>5 DEF Running
    <2>7. Idle > 0 /\ Idle' = Idle - 1
      <3>1. IsFiniteSet(Worker \ At("exec")) /\ w \in Worker \ At("exec")
        BY <2>4, WorkerAssumption, FS_Difference
      <3>2. (Worker \ At("exec")) \ {w} = Worker \ At("exec")'
        BY <2>4
      <3>3. IsFiniteSet((Worker \ At("exec")) \ {w})
        BY <3>1, FS_RemoveElement
      <3>4. Cardinality((Worker \ At("exec")) \ {w}) = Cardinality(Worker \ At("exec")) - 1
        BY <3>1, CountOut
      <3>5. /\ Cardinality((Worker \ At("exec")) \ {w}) \in Nat
            /\ Cardinality(Worker \ At("exec")) \in Nat
        BY <3>1, <3>3, FS_CardinalityType
      <3> QED BY <3>2, <3>4, <3>5 DEF Idle
    <2>8. Pool!Start(i)
      BY <2>1, <2>2, <2>3, <2>6, <2>7 DEF Pool!Start
    <2> QED BY <2>2, <2>8 DEF Pool!Next
  <1>5. ASSUME NEW w \in Worker, Finish(w) PROVE Pool!Next
    <2>1. /\ pc[w] = "exec" /\ pc' = [pc EXCEPT ![w] = "lock"]
          /\ item' = [item EXCEPT ![w] = NoItem] /\ UNCHANGED <<queue, stopped>>
      BY <1>5 DEF Finish
    <2>2. At("exec")' = At("exec") \ {w} /\ w \in At("exec")
      BY <2>1 DEF At, TypeOK
    <2>3. \A v \in At("exec")' : item'[v] = item[v] /\ item[v] # item[w]
      BY <2>1, <2>2 DEF TypeOK, At, RunOnce
    <2>4. Running' = Running \ {item[w]}
      BY <2>2, <2>3 DEF Running
    <2>5. item[w] \in Running /\ item[w] \in Item
      BY <2>1, <2>2 DEF Running, RunOnce, TypeOK
    <2>6. Idle' = Idle + 1
      <3>1. IsFiniteSet(Worker \ At("exec")) /\ w \notin Worker \ At("exec")
        BY <2>2, WorkerAssumption, FS_Difference
      <3>2. (Worker \ At("exec")) \cup {w} = Worker \ At("exec")'
        BY <2>2
      <3> QED BY <3>1, <3>2, CountIn DEF Idle
    <2>7. Pool!Finish(item[w])
      BY <2>1, <2>4, <2>5, <2>6 DEF Pool!Finish
    <2> QED BY <2>5, <2>7 DEF Pool!Next
  <1>6. CASE Stop
    <2>1. At("exec")' = At("exec")
      BY <1>6 DEF Stop, At, TypeOK
    <2>2. Running' = Running /\ Idle' = Idle
      BY <1>6, <2>1 DEF Stop, Running, Idle
    <2> QED BY <1>6, <2>2 DEF Stop, Pool!Stop, Pool!Next
  <1>7. CASE StopPool \/ UNCHANGED vars
    BY <1>7 DEF StopPool, vars, Running, Idle, At
  <1> QED BY <1>1, <1>2, <1>3, <1>4, <1>5, <1>6, <1>7 DEF Next, ThreadStep

\* The scheduler behaves as the abstract pool: no request is lost, invented,
\* started out of priority order or started after stop().
THEOREM SimulatesPool == Spec => Pool!Init /\ [][Pool!Next]_(Pool!poolVars)
  BY PoolInit, PoolStep, SpecInv, PTL DEF Spec
=============================================================================
