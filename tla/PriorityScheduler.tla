------------------------- MODULE PriorityScheduler -------------------------
(***************************************************************************)
(* request_scheduler and priority_scheduler: the io thread posts closures  *)
(* into a priority queue, a fixed pool of threads runs                     *)
(* priority_scheduler::run().  Every critical section of mutex_ (post's    *)
(* push and notify_one, stop's flag and notify_all, and in run() the       *)
(* stretch from getting the mutex to waiting, returning or unlocking) is   *)
(* one action: nothing inside it can observe another thread.  The          *)
(* condition variable is the set of threads parked in wait().              *)
(***************************************************************************)
EXTENDS Naturals, FiniteSets

CONSTANTS Item,      \* posted closures (shared_ptr<item_base>)
          Priority,  \* item_base::priority_ of each closure
          Worker,    \* the no_of_threads threads of request_threads_
          NoItem     \* "no closure"

\* hardware_concurrency() gives no_of_threads; a value of 0 would leave every
\* posted request unserved, so the scheduler works only for at least one thread.
ASSUME WorkerAssumption == IsFiniteSet(Worker) /\ Worker # {}
\* scheduler_priority is the enumeration very_low = 0 .. very_high = 4.
ASSUME PriorityAssumption == Priority \in [Item -> 0..4]
ASSUME NoItemAssumption == NoItem \notin Item

VARIABLES
  launched,     \* the once_flag of request_scheduler::post has fired
  posting,      \* closure of the post() call in progress on the io thread, or NoItem
  queue,        \* priority_scheduler::queue_
  stopped,      \* priority_scheduler::stopped_
  poolStopped,  \* request_threads_.stop() was called
  pc,           \* where each thread of the pool is in run()
  item          \* the closure a thread took from the queue, or NoItem

vars == <<launched, posting, queue, stopped, poolStopped, pc, item>>

\* "created"     no run() was dispatched to the thread yet
\* "dispatched"  run() is queued in the thread pool, not started
\* "lock"        wants mutex_: entering run(), woken from wait(), or after a closure
\* "wait"        parked in condition_.wait
\* "exec"        executing a closure, mutex_ released
\* "done"        run() returned
Location == {"created", "dispatched", "lock", "wait", "exec", "done"}

At(l) == {w \in Worker : pc[w] = l}
Running == {item[w] : w \in At("exec")}
Idle == Cardinality(Worker \ At("exec"))

TopLowest(q) == {i \in q : \A j \in q : Priority[i] <= Priority[j]}

\* Nothing outranks an element of Top(q) in q: item_comp compares priorities
\* only, so among equals the heap may yield any.
Top(q) == {i \in q : \A j \in q : Priority[j] <= Priority[i]}

Init ==
  /\ launched = FALSE
  /\ posting = NoItem
  /\ queue = {}
  /\ stopped = FALSE
  /\ poolStopped = FALSE
  /\ pc = [w \in Worker |-> "created"]
  /\ item = [w \in Worker |-> NoItem]

BeginPostEachTime(i) ==
  /\ posting = NoItem
  /\ i \notin queue \cup Running
  /\ posting' = i
  /\ launched' = TRUE
  /\ pc' = [w \in Worker |-> "dispatched"]
  /\ UNCHANGED <<queue, stopped, poolStopped, item>>

\* request_scheduler::post up to the executor's post: the first caller
\* dispatches run() once per thread.
BeginPost(i) ==
  /\ posting = NoItem
  /\ i \notin queue \cup Running
  /\ posting' = i
  /\ launched' = TRUE
  /\ pc' = IF launched THEN pc ELSE [w \in Worker |-> "dispatched"]
  /\ UNCHANGED <<queue, stopped, poolStopped, item>>

NotifyOneDropped == pc' = pc

\* notify_one: some parked thread, if there is one, leaves wait().
NotifyOne ==
  IF At("wait") = {} THEN pc' = pc
  ELSE \E w \in At("wait") : pc' = [pc EXCEPT ![w] = "lock"]

\* executor_type::post: push and notify_one under mutex_.
Push ==
  /\ posting # NoItem
  /\ queue' = queue \cup {posting}
  /\ posting' = NoItem
  /\ NotifyOne
  /\ UNCHANGED <<launched, stopped, poolStopped, item>>

\* A pool thread starts the run() dispatched to it, unless the pool was stopped first.
EnterRun(w) ==
  /\ pc[w] = "dispatched"
  /\ ~poolStopped
  /\ pc' = [pc EXCEPT ![w] = "lock"]
  /\ UNCHANGED <<launched, posting, queue, stopped, poolStopped, item>>

\* The predicate of condition_.wait is false: release mutex_ and park.
Park(w) ==
  /\ pc[w] = "lock"
  /\ ~stopped /\ queue = {}
  /\ pc' = [pc EXCEPT ![w] = "wait"]
  /\ UNCHANGED <<launched, posting, queue, stopped, poolStopped, item>>

\* run() returns.
Leave(w) ==
  /\ pc[w] = "lock"
  /\ stopped
  /\ pc' = [pc EXCEPT ![w] = "done"]
  /\ UNCHANGED <<launched, posting, queue, stopped, poolStopped, item>>

TakeNoPop(w) ==
  /\ pc[w] = "lock"
  /\ ~stopped
  /\ \E i \in Top(queue) :
       /\ UNCHANGED queue
       /\ item' = [item EXCEPT ![w] = i]
  /\ pc' = [pc EXCEPT ![w] = "exec"]
  /\ UNCHANGED <<launched, posting, stopped, poolStopped>>

\* top(), pop(), unlock(): the thread goes on to execute the closure.
Take(w) ==
  /\ pc[w] = "lock"
  /\ ~stopped
  /\ \E i \in Top(queue) :
       /\ queue' = queue \ {i}
       /\ item' = [item EXCEPT ![w] = i]
  /\ pc' = [pc EXCEPT ![w] = "exec"]
  /\ UNCHANGED <<launched, posting, stopped, poolStopped>>

\* The closure returned; lock.lock() and back to the predicate.
Finish(w) ==
  /\ pc[w] = "exec"
  /\ item' = [item EXCEPT ![w] = NoItem]
  /\ pc' = [pc EXCEPT ![w] = "lock"]
  /\ UNCHANGED <<launched, posting, queue, stopped, poolStopped>>

\* A condition variable may wake a thread nobody notified.
SpuriousWakeup(w) ==
  /\ pc[w] = "wait"
  /\ pc' = [pc EXCEPT ![w] = "lock"]
  /\ UNCHANGED <<launched, posting, queue, stopped, poolStopped, item>>

StopWakesOne ==
  /\ ~stopped
  /\ stopped' = TRUE
  /\ NotifyOne
  /\ UNCHANGED <<launched, posting, queue, poolStopped, item>>

\* priority_scheduler::stop, the first half of stop_threads.
Stop ==
  /\ ~stopped
  /\ stopped' = TRUE
  /\ pc' = [w \in Worker |-> IF pc[w] = "wait" THEN "lock" ELSE pc[w]]
  /\ UNCHANGED <<launched, posting, queue, poolStopped, item>>

\* request_threads_.stop(), its second half: a run() not yet started never will be.
StopPool ==
  /\ stopped /\ ~poolStopped
  /\ poolStopped' = TRUE
  /\ UNCHANGED <<launched, posting, queue, stopped, pc, item>>

ThreadStep(w) == EnterRun(w) \/ Park(w) \/ Leave(w) \/ Take(w) \/ Finish(w)

Next ==
  \/ \E i \in Item : BeginPost(i)
  \/ Push
  \/ \E w \in Worker : ThreadStep(w)
  \/ \E w \in Worker : SpuriousWakeup(w)
  \/ Stop
  \/ StopPool

\* The operating system runs every runnable thread; closures return; a post()
\* in progress completes.  Nothing makes clients post or the server stop.
Fairness == WF_vars(Push) /\ \A w \in Worker : WF_vars(ThreadStep(w))

Spec == Init /\ [][Next]_vars /\ Fairness

-----------------------------------------------------------------------------
TypeOK ==
  /\ launched \in BOOLEAN
  /\ posting \in Item \cup {NoItem}
  /\ queue \in SUBSET Item /\ IsFiniteSet(queue)
  /\ stopped \in BOOLEAN /\ poolStopped \in BOOLEAN
  /\ pc \in [Worker -> Location]
  /\ item \in [Worker -> Item \cup {NoItem}]
  /\ \A w \in Worker : pc[w] = "exec" <=> item[w] # NoItem

\* A closure is executed once per post: no two threads hold the same one, and
\* none is executed while it is still (or again) pending (top/pop/unlock in run).
RunOnce ==
  /\ \A w \in At("exec") : item[w] # NoItem /\ item[w] \notin queue \cup {posting}
  /\ \A v, w \in At("exec") : item[v] = item[w] => v = w

\* notify_one never gets lost: while some thread is parked, every pending
\* request has its own thread on the way to the queue (post notifies under the
\* mutex, run re-checks the predicate under it).
NoLostWakeup ==
  At("wait") # {} => Cardinality(queue) <= Cardinality(At("lock"))

\* stop() reaches everybody: once stopped_ is set no thread is parked, so every
\* thread that started run() leaves it (join_threads and the static
\* scheduler's destructor wait for them).
StopReachesAll == stopped => At("wait") = {}

\* Once clients stop posting, every pending request is executed unless the
\* scheduler is stopped: the priorities delay a request, the pool does not drop it.
DrainsWhenQuiet ==
  (<>[][~Push]_vars) => \A i \in Item : i \in queue ~> (i \notin queue \/ stopped)

\* The scheduler implements the abstract pool, its work conservation included.
Pool == INSTANCE RequestPool
          WITH running <- Running, idle <- Idle, Threads <- Cardinality(Worker)
ImplementsPool == Pool!Spec
=============================================================================
