---------------------- MODULE ConnectionManager_proofs ----------------------
(***************************************************************************)
(* Proofs about ConnectionManager, for any number of clients, threads and  *)
(* requests: its types and locking discipline, that processing_counter_    *)
(* covers the processing clients and never wraps, and that a shared buffer *)
(* outlives the writes of it.                                              *)
(***************************************************************************)
EXTENDS ConnectionManager, FiniteSetTheorems, TLAPS

\* Requests to sign in or up carry a nickname, and so does the thread serving one.
NamesOK ==
  /\ \A r \in Request : pending[r] > 0 /\ r.cmd \in {"SIGNIN", "SIGNUP"} => r.login \in Nick
  /\ \A a \in Actor : pc[a] \in {"check", "run"} /\ cmd[a] \in {"SIGNIN", "SIGNUP"} => name[a] \in Nick
  /\ \A a \in Actor : pc[a] = "insert" => name[a] \in Nick

\* The write the io thread is completing is still recorded as in flight.
SentOK == pc[IO] = "sent" => <<conn[IO], buf[IO]>> \in sends

\* Actors work for accepted connections only; the disconnections under way are
\* of different connections, each still registered.
Membership ==
  /\ reading \subseteq connections \cup stopped
  /\ counted \subseteq connections \cup stopped
  /\ \A a \in Actor : pc[a] \notin {"idle", "crashed"} => conn[a] \in connections \cup stopped
  /\ \A a \in Actor : pc[a] = "disconnect" => conn[a] \in connections \cap stopped
  /\ \A a, b \in Actor : pc[a] = "disconnect" /\ pc[b] = "disconnect" /\ conn[a] = conn[b] => a = b

\* Every processing client is counted, and so is one leaving that was processing.
Counted ==
  /\ \A c \in Conn : state[c] = "processing" => c \in counted
  /\ \A a \in Actor : pc[a] = "fanReg" => conn[a] \in counted
  /\ \A a \in Actor : pc[a] = "disconnect" /\ was[a] => conn[a] \in counted

\* Every registered counted client is in the counter.
Covering == counter >= Cardinality(counted \cap connections)

\* Connections a loop over connections_ will still send buffer b to.
Due(b) ==
  {c \in Conn : \E a \in Actor : /\ pc[a] \in FanOut /\ buf[a] = b /\ c \in todo[a]
                                 /\ state[c] = "processing"
                                 /\ pc[a] = "fanNote" => c # conn[a]}
Owed(b) == {c \in Conn : <<c, b>> \in sends} \cup Due(b)
Expected(b) == IF b \in DOMAIN storage THEN storage[b] ELSE 0

\* A connection still to be visited has not been sent the buffer.
Fresh ==
  \A a \in Actor : pc[a] \in FanOut => \A c \in todo[a] : <<c, buf[a]>> \notin sends

\* A buffer expects every write of it in flight or still to be made.
Owing == \A b \in 1..nextId : b \notin lame => Cardinality(Owed(b)) <= Expected(b)

-----------------------------------------------------------------------------
(* Types *)

\* What inserting the next buffer does to shared_storage_.
LEMMA PutNext ==
  ASSUME NEW N \in Nat, NEW f, NEW v \in Nat,
         DOMAIN f \subseteq 1..N, \A b \in DOMAIN f : f[b] \in Nat
  PROVE  /\ DOMAIN Put(f, N + 1, v) = DOMAIN f \cup {N + 1}
         /\ DOMAIN Put(f, N + 1, v) \subseteq 1..(N + 1)
         /\ Put(f, N + 1, v)[N + 1] = v
         /\ \A b \in DOMAIN f : Put(f, N + 1, v)[b] = f[b]
         /\ \A b \in DOMAIN Put(f, N + 1, v) : Put(f, N + 1, v)[b] \in Nat
  BY DEF Put

TypeInv == TypeOK /\ NamesOK /\ SentOK

LEMMA TypeInit == Init => TypeInv
  BY ConnAssumption, ActorAssumption, NickAssumption, CommandAssumption
  DEF Init, TypeInv, TypeOK, NamesOK, SentOK, State, Location, FanOut, Actor

LEMMA TypeStep == TypeInv /\ [Next]_vars => TypeInv'
<1> SUFFICES ASSUME TypeInv, [Next]_vars PROVE TypeInv'
  OBVIOUS
<1> USE ConnAssumption, ActorAssumption, NickAssumption, CommandAssumption, CounterAssumption
    DEF TypeInv, TypeOK, NamesOK, SentOK, Actor, State, Location, FanOut,
        clients, buffers, traffic, locals
<1>0. CASE UNCHANGED vars
  BY <1>0 DEF vars
<1>1. ASSUME NEW c \in Conn, Accept(c) PROVE TypeInv'
  BY <1>1 DEF Accept
<1>2. ASSUME NEW c \in Conn, ReadDone(c) PROVE TypeInv'
  BY <1>2 DEF ReadDone, Dispatch, Goto
<1>3. ASSUME NEW c \in Conn, ReadFailed(c) PROVE TypeInv'
  BY <1>3 DEF ReadFailed, Dispatch, Goto
<1>4. ASSUME NEW m \in Commands, NEW n \in Nick \cup {None}, ReadAction(m, n) PROVE TypeInv'
  <2> DEFINE q == [conn |-> conn[IO], cmd |-> m, login |-> n]
  <2>1. q \in Request /\ (m \in {"SIGNIN", "SIGNUP"} => n \in Nick)
    BY <1>4 DEF ReadAction, WellFormed, Request
  <2>2. q.cmd = m /\ q.login = n
    OBVIOUS
  <2> HIDE DEF q
  <2>3. pending' = [pending EXCEPT ![q] = @ + 1] /\ posted' = posted + 1
    BY <1>4 DEF ReadAction, q
  <2>4. pending' \in [Request -> Nat] /\ \A r \in Request : r # q => pending'[r] = pending[r]
    BY <2>1, <2>3
  <2>5. TypeOK'
    BY <1>4, <2>3, <2>4 DEF ReadAction
  <2>6. NamesOK'
    <3>1. \A r \in Request : pending'[r] > 0 /\ r.cmd \in {"SIGNIN", "SIGNUP"} => r.login \in Nick
      BY <2>1, <2>2, <2>4
    <3> QED
      BY <1>4, <3>1 DEF ReadAction
  <2> QED
    BY <1>4, <2>5, <2>6 DEF ReadAction
<1>5. ASSUME NEW s \in sends, SendDone(s[1], s[2]) PROVE TypeInv'
  BY <1>5 DEF SendDone, Dispatch, Goto
<1>6. ASSUME NEW s \in sends, SendFailed(s[1], s[2]) PROVE TypeInv'
  BY <1>6 DEF SendFailed, Dispatch, Goto
<1>7. ASSUME NEW s \in sends, SendDropped(s[1], s[2]) PROVE TypeInv'
  BY <1>7 DEF SendDropped
<1>8. ASSUME ReadEnd PROVE TypeInv'
  BY <1>8 DEF ReadEnd, Return, Goto
<1>9. ASSUME SharedWriteDone PROVE TypeInv'
  BY <1>9 DEF SharedWriteDone, Return, Goto, Drop, Put, Dec
<1>10. ASSUME IoFault PROVE TypeInv'
  BY <1>10 DEF IoFault, Crash
<1>11. ASSUME NEW w \in Worker, NEW r \in Pending, Take(w, r) PROVE TypeInv'
  <2>1. /\ r \in Request /\ r.conn \in Conn /\ r.cmd \in Commands /\ r.login \in Nick \cup {None}
        /\ pending[r] \in Nat /\ pending[r] > 0
        /\ r.cmd \in {"SIGNIN", "SIGNUP"} => r.login \in Nick
    BY <1>11 DEF Pending, Request
  <2>2. pending' \in [Request -> Nat] /\ \A q \in Request : pending'[q] <= pending[q]
    BY <1>11, <2>1 DEF Take
  <2>3. CASE Alive(r.conn)
    BY <1>11, <2>1, <2>2, <2>3 DEF Take, Goto
  <2>4. CASE ~Alive(r.conn)
    BY <1>11, <2>2, <2>4 DEF Take
  <2> QED
    BY <2>3, <2>4
<1>12. ASSUME NEW w \in Worker, Lock(w) PROVE TypeInv'
  <2>1. CASE Alive(conn[w])
    <3>1. /\ pc[w] = "check" /\ \E l \in {"stop", "run"} : Goto(w, l)
          /\ UNCHANGED <<connections, clients, stopped, counter, buffers, mutex, traffic,
                         locals, counted>>
      BY <1>12, <2>1 DEF Lock
    <3> QED
      BY <3>1 DEF Goto
  <2>2. CASE ~(Alive(conn[w]))
    <3>1. Crash
      BY <1>12, <2>2 DEF Lock
    <3> QED
      BY <3>1 DEF Crash
  <2> QED
    BY <2>1, <2>2
<1>13. ASSUME NEW w \in Worker, Fail(w) PROVE TypeInv'
  BY <1>13 DEF Fail, Return, Goto
<1>14. ASSUME NEW w \in Worker, SignIn(w) PROVE TypeInv'
  BY <1>14 DEF SignIn, RetrieveUser, Proceed, Goto
<1>15. ASSUME NEW w \in Worker, IsLogged(w) PROVE TypeInv'
  <2>1. CASE \E c \in connections : nick[c] = name[w]
    <3>1. /\ pc[w] = "isLogged" /\ Return(w)
          /\ UNCHANGED <<connections, clients, stopped, counter, buffers, mutex, traffic, counted>>
      BY <1>15, <2>1 DEF IsLogged
    <3> QED
      BY <3>1 DEF Return, Goto
  <2>2. CASE ~(\E c \in connections : nick[c] = name[w])
    <3>1. /\ pc[w] = "isLogged" /\ Goto(w, "setNick") /\ UNCHANGED locals
          /\ UNCHANGED <<connections, clients, stopped, counter, buffers, mutex, traffic, counted>>
      BY <1>15, <2>2 DEF IsLogged
    <3> QED
      BY <3>1 DEF Goto
  <2> QED
    BY <2>1, <2>2
<1>16. ASSUME NEW w \in Worker, SignUp(w) PROVE TypeInv'
  BY <1>16 DEF SignUp, Proceed, Goto
<1>17. ASSUME NEW w \in Worker, Insert(w) PROVE TypeInv'
  BY <1>17 DEF Insert, Proceed, Goto
<1>18. ASSUME NEW w \in Worker, SetNick(w) PROVE TypeInv'
  BY <1>18 DEF SetNick, Goto
<1>19. ASSUME NEW w \in Worker, SetState(w) PROVE TypeInv'
  BY <1>19 DEF SetState, Return, Goto
<1>20. ASSUME NEW w \in Worker, DeleteAccount(w) PROVE TypeInv'
  BY <1>20 DEF DeleteAccount, EraseUser, Return, Goto
<1>21. ASSUME NEW w \in Worker, FilesChanged(w) PROVE TypeInv'
  BY <1>21 DEF FilesChanged, Proceed, Goto
<1>22. ASSUME NEW w \in Worker, Register(w) PROVE TypeInv'
  <2>1. CASE counter = 0
    <3>1. /\ pc[w] = "register" /\ mutex = None
          /\ counter' = counter + 1 /\ counted' = counted \cup {conn[w]}
          /\ state' = [state EXCEPT ![conn[w]] = "processing"]
          /\ Return(w) /\ UNCHANGED <<storage, nextId, mutex>>
          /\ UNCHANGED <<connections, nick, reading, stopped, sends, lame, known, traffic>>
      BY <1>22, <2>1 DEF Register
    <3> QED
      BY <3>1 DEF Return, Goto
  <2>2. CASE ~(counter = 0)
    <3>1. /\ pc[w] = "register" /\ mutex = None
          /\ counter' = counter + 1 /\ counted' = counted \cup {conn[w]}
          /\ Announce(w, counter, connections, "fanReg")
          /\ UNCHANGED <<state, conn, cmd, name, was>>
          /\ UNCHANGED <<connections, nick, reading, stopped, sends, lame, known, traffic>>
      BY <1>22, <2>2 DEF Register
    <3> QED
      BY <3>1 DEF Announce, Goto, Put
  <2> QED
    BY <2>1, <2>2
<1>23. ASSUME NEW w \in Worker, NEW c \in todo[w], RegisterVisit(w, c) PROVE TypeInv'
  BY <1>23 DEF RegisterVisit
<1>24. ASSUME NEW w \in Worker, RegisterEnd(w) PROVE TypeInv'
  BY <1>24 DEF RegisterEnd, Return, Goto
<1>25. ASSUME NEW w \in Worker, Notify(w) PROVE TypeInv'
  <2>1. CASE counter = 1
    <3>1. /\ pc[w] = "notify" /\ Return(w) /\ UNCHANGED <<storage, nextId, lame, mutex>>
          /\ UNCHANGED <<connections, clients, stopped, counter, sends, known, traffic, counted>>
      BY <1>25, <2>1 DEF Notify
    <3> QED
      BY <3>1 DEF Return, Goto
  <2>2. CASE ~(counter = 1)
    <3>1. /\ pc[w] = "notify" /\ mutex = None
          /\ Announce(w, Dec(counter), connections, "fanNote")
          /\ lame' = lame \/ lame' = lame \cup {nextId + 1}
          /\ UNCHANGED <<conn, cmd, name, was>>
          /\ UNCHANGED <<connections, clients, stopped, counter, sends, known, traffic, counted>>
      BY <1>25, <2>2 DEF Notify
    <3>2. DOMAIN storage' \subseteq 1..nextId' /\ \A b \in DOMAIN storage' : storage'[b] \in Nat
      <4>1. Dec(counter) \in Nat
        BY DEF Dec
      <4> QED
        BY <3>1, <4>1, PutNext DEF Announce
    <3>3. lame' \subseteq 1..nextId' /\ sends' \subseteq Conn \X (1..nextId')
      <4>1. nextId' = nextId + 1 /\ sends' = sends
        BY <3>1 DEF Announce
      <4>2. lame \subseteq 1..nextId' /\ nextId + 1 \in 1..nextId'
        BY <4>1
      <4>3. sends' \subseteq Conn \X (1..nextId')
        BY <4>1
      <4> QED
        BY <3>1, <4>2, <4>3
    <3> QED
      BY <3>1, <3>2, <3>3 DEF Announce, Goto
  <2> QED
    BY <2>1, <2>2
<1>26. ASSUME NEW w \in Worker, NEW c \in todo[w], NotifyVisit(w, c) PROVE TypeInv'
  <2>1. /\ pc[w] = "fanNote" /\ c \in Conn /\ todo' = [todo EXCEPT ![w] = @ \ {c}]
        /\ sends' \in {sends, sends \cup {<<c, buf[w]>>}}
        /\ lame' \in {lame, lame \cup {buf[w]}}
        /\ UNCHANGED <<connections, clients, stopped, counter, storage, nextId, known, mutex,
                       traffic, pc, conn, cmd, name, was, buf, counted>>
    BY <1>26 DEF NotifyVisit
  <2>2. lame' \subseteq 1..nextId' /\ sends' \subseteq Conn \X (1..nextId') /\ sends \subseteq sends'
    BY <2>1
  <2> QED
    BY <2>1, <2>2
<1>27. ASSUME NEW a \in Actor, Stop(a) PROVE TypeInv'
  <2>1. CASE conn[a] \in stopped
    <3>1. /\ pc[a] = "stop" /\ Return(a) /\ UNCHANGED stopped
          /\ UNCHANGED <<connections, clients, counter, buffers, mutex, traffic, counted>>
      BY <1>27, <2>1 DEF Stop
    <3> QED
      BY <3>1 DEF Return, Goto
  <2>2. CASE ~(conn[a] \in stopped)
    <3>1. /\ pc[a] = "stop" /\ stopped' = stopped \cup {conn[a]}
          /\ was' = [was EXCEPT ![a] = state[conn[a]] = "processing"]
          /\ name' = [name EXCEPT ![a] = nick[conn[a]]]
          /\ Goto(a, "disconnect") /\ UNCHANGED <<conn, cmd, buf, todo>>
          /\ UNCHANGED <<connections, clients, counter, buffers, mutex, traffic, counted>>
      BY <1>27, <2>2 DEF Stop
    <3> QED
      BY <3>1 DEF Goto
  <2> QED
    BY <2>1, <2>2
<1>28. ASSUME NEW a \in Actor, Disconnect(a) PROVE TypeInv'
  <2>0. counter' \in Nat
    BY <1>28 DEF Disconnect, Dec
  <2>1. CASE was[a] /\ counter' # 0
    <3>1. /\ pc[a] = "disconnect" /\ mutex = None /\ connections' = connections \ {conn[a]}
          /\ Announce(a, counter', connections', "fanDisc")
          /\ UNCHANGED <<conn, cmd, name, was>>
          /\ UNCHANGED <<clients, stopped, sends, lame, known, traffic, counted>>
      BY <1>28, <2>1 DEF Disconnect
    <3>2. DOMAIN storage' \subseteq 1..nextId' /\ \A b \in DOMAIN storage' : storage'[b] \in Nat
      BY <2>0, <3>1, PutNext DEF Announce
    <3>3. sends' \subseteq Conn \X (1..nextId')
      BY <3>1 DEF Announce
    <3> QED
      BY <2>0, <3>1, <3>2, <3>3 DEF Announce, Goto
  <2>2. CASE ~(was[a] /\ counter' # 0)
    <3>1. /\ pc[a] = "disconnect" /\ mutex = None /\ connections' = connections \ {conn[a]}
          /\ Return(a) /\ UNCHANGED <<storage, nextId, mutex>>
          /\ UNCHANGED <<clients, stopped, sends, lame, known, traffic, counted>>
      BY <1>28, <2>2 DEF Disconnect
    <3> QED
      BY <2>0, <3>1 DEF Return, Goto
  <2> QED
    BY <2>1, <2>2
<1>29. ASSUME NEW a \in Actor, NEW c \in todo[a], DisconnectVisit(a, c) PROVE TypeInv'
  BY <1>29 DEF DisconnectVisit
<1>30. ASSUME NEW a \in Actor, VisitEnd(a) PROVE TypeInv'
  BY <1>30 DEF VisitEnd, Return, Goto
<1>31. ASSUME NEW c \in Conn, WriteFailed(c) PROVE TypeInv'
  BY <1>31 DEF WriteFailed, Dispatch, Goto
<1> QED
  BY <1>0, <1>1, <1>2, <1>3, <1>4, <1>5, <1>6, <1>7, <1>8, <1>9, <1>10, <1>11, <1>12, <1>13,
     <1>14, <1>15, <1>16, <1>17, <1>18, <1>19, <1>20, <1>21, <1>22, <1>23, <1>24, <1>25, <1>26,
     <1>27, <1>28, <1>29, <1>30, <1>31
  DEF Next, SendCompletes, IoStep, HandlerStep, StopStep

\* Types, the locking discipline and the bounds on buffer ids hold in every state.
THEOREM TypeCorrect == Spec => []TypeOK
<1>1. TypeInv => TypeOK
  BY DEF TypeInv
<1> QED
  BY <1>1, TypeInit, TypeStep, PTL DEF Spec

-----------------------------------------------------------------------------
(* Who works for which connection *)

LEMMA AliveAccepted ==
  ASSUME TypeInv, Membership, NEW c \in Conn, Alive(c)
  PROVE  c \in connections \cup stopped
  BY DEF Membership, Alive, Holds

LEMMA MembershipStep == TypeInv /\ Membership /\ [Next]_vars => Membership'
<1> SUFFICES ASSUME TypeInv, Membership, [Next]_vars PROVE Membership'
  OBVIOUS
<1>a. /\ pc \in [Actor -> Location] /\ conn \in [Actor -> Conn \cup {None}]
      /\ sends \subseteq Conn \X (1..nextId) /\ todo \in [Actor -> SUBSET Conn]
      /\ Worker \subseteq Actor /\ IO \in Actor
      /\ \A c \in Conn : Alive(c) => c \in connections \cup stopped
  BY AliveAccepted DEF TypeInv, TypeOK, Actor
<1> USE <1>a DEF Membership, clients, buffers, traffic, locals
<1>0. CASE UNCHANGED vars
  BY <1>0 DEF vars
<1>1. ASSUME NEW c \in Conn, Accept(c) PROVE Membership'
  BY <1>1 DEF Accept
<1>2. ASSUME NEW c \in Conn, ReadDone(c) PROVE Membership'
  BY <1>2 DEF ReadDone, Dispatch, Goto
<1>3. ASSUME NEW c \in Conn, ReadFailed(c) PROVE Membership'
  BY <1>3 DEF ReadFailed, Dispatch, Goto
<1>4. ASSUME NEW m \in Commands, NEW n \in Nick \cup {None}, ReadAction(m, n) PROVE Membership'
  BY <1>4 DEF ReadAction
<1>5. ASSUME NEW s \in sends, SendDone(s[1], s[2]) PROVE Membership'
  BY <1>5 DEF SendDone, Dispatch, Goto
<1>6. ASSUME NEW s \in sends, SendFailed(s[1], s[2]) PROVE Membership'
  BY <1>6 DEF SendFailed, Dispatch, Goto
<1>7. ASSUME NEW s \in sends, SendDropped(s[1], s[2]) PROVE Membership'
  BY <1>7 DEF SendDropped
<1>8. ASSUME ReadEnd PROVE Membership'
  BY <1>8 DEF ReadEnd, Return, Goto
<1>9. ASSUME SharedWriteDone PROVE Membership'
  BY <1>9 DEF SharedWriteDone, Return, Goto
<1>10. ASSUME IoFault PROVE Membership'
  BY <1>10 DEF IoFault, Crash
<1>11. ASSUME NEW w \in Worker, NEW r \in Pending, Take(w, r) PROVE Membership'
  BY <1>11 DEF Take, Goto, Pending, Request
<1>12. ASSUME NEW w \in Worker, Lock(w) PROVE Membership'
  BY <1>12 DEF Lock, Crash, Goto
<1>13. ASSUME NEW w \in Worker, Fail(w) PROVE Membership'
  BY <1>13 DEF Fail, Return, Goto
<1>14. ASSUME NEW w \in Worker, SignIn(w) PROVE Membership'
  BY <1>14 DEF SignIn, RetrieveUser, Proceed, Goto
<1>15. ASSUME NEW w \in Worker, IsLogged(w) PROVE Membership'
  BY <1>15 DEF IsLogged, Return, Goto
<1>16. ASSUME NEW w \in Worker, SignUp(w) PROVE Membership'
  BY <1>16 DEF SignUp, Proceed, Goto
<1>17. ASSUME NEW w \in Worker, Insert(w) PROVE Membership'
  BY <1>17 DEF Insert, Proceed, Goto
<1>18. ASSUME NEW w \in Worker, SetNick(w) PROVE Membership'
  BY <1>18 DEF SetNick, Goto
<1>19. ASSUME NEW w \in Worker, SetState(w) PROVE Membership'
  BY <1>19 DEF SetState, Return, Goto
<1>20. ASSUME NEW w \in Worker, DeleteAccount(w) PROVE Membership'
  BY <1>20 DEF DeleteAccount, EraseUser, Return, Goto
<1>21. ASSUME NEW w \in Worker, FilesChanged(w) PROVE Membership'
  BY <1>21 DEF FilesChanged, Proceed, Goto
<1>22. ASSUME NEW w \in Worker, Register(w) PROVE Membership'
  BY <1>22 DEF Register, Announce, Return, Goto
<1>23. ASSUME NEW w \in Worker, NEW c \in todo[w], RegisterVisit(w, c) PROVE Membership'
  BY <1>23 DEF RegisterVisit
<1>24. ASSUME NEW w \in Worker, RegisterEnd(w) PROVE Membership'
  BY <1>24 DEF RegisterEnd, Return, Goto
<1>25. ASSUME NEW w \in Worker, Notify(w) PROVE Membership'
  BY <1>25 DEF Notify, Announce, Return, Goto
<1>26. ASSUME NEW w \in Worker, NEW c \in todo[w], NotifyVisit(w, c) PROVE Membership'
  BY <1>26 DEF NotifyVisit
<1>27. ASSUME NEW a \in Actor, Stop(a) PROVE Membership'
  BY <1>27 DEF Stop, Return, Goto
<1>28. ASSUME NEW a \in Actor, Disconnect(a) PROVE Membership'
  BY <1>28 DEF Disconnect, Announce, Return, Goto
<1>29. ASSUME NEW a \in Actor, NEW c \in todo[a], DisconnectVisit(a, c) PROVE Membership'
  BY <1>29 DEF DisconnectVisit
<1>30. ASSUME NEW a \in Actor, VisitEnd(a) PROVE Membership'
  BY <1>30 DEF VisitEnd, Return, Goto
<1>31. ASSUME NEW c \in Conn, WriteFailed(c) PROVE Membership'
  BY <1>31 DEF WriteFailed, Dispatch, Goto
<1> QED
  BY <1>0, <1>1, <1>2, <1>3, <1>4, <1>5, <1>6, <1>7, <1>8, <1>9, <1>10, <1>11, <1>12, <1>13,
     <1>14, <1>15, <1>16, <1>17, <1>18, <1>19, <1>20, <1>21, <1>22, <1>23, <1>24, <1>25, <1>26,
     <1>27, <1>28, <1>29, <1>30, <1>31
  DEF Next, SendCompletes, IoStep, HandlerStep, StopStep

-----------------------------------------------------------------------------
(* The counter *)

LEMMA CountedStep == TypeInv /\ Counted /\ [Next]_vars => Counted'
<1> SUFFICES ASSUME TypeInv, Counted, [Next]_vars PROVE Counted'
  OBVIOUS
<1>a. /\ pc \in [Actor -> Location] /\ conn \in [Actor -> Conn \cup {None}]
      /\ was \in [Actor -> BOOLEAN] /\ state \in [Conn -> State]
      /\ \A a \in Actor : pc[a] \notin {"idle", "crashed"} => conn[a] \in Conn
      /\ todo \in [Actor -> SUBSET Conn] /\ Worker \subseteq Actor /\ IO \in Actor
  BY DEF TypeInv, TypeOK, Actor
<1> USE <1>a DEF Counted, clients, buffers, traffic, locals
<1>0. CASE UNCHANGED vars
  BY <1>0 DEF vars
<1>1. ASSUME NEW c \in Conn, Accept(c) PROVE Counted'
  BY <1>1 DEF Accept
<1>2. ASSUME NEW c \in Conn, ReadDone(c) PROVE Counted'
  BY <1>2 DEF ReadDone, Dispatch, Goto
<1>3. ASSUME NEW c \in Conn, ReadFailed(c) PROVE Counted'
  BY <1>3 DEF ReadFailed, Dispatch, Goto
<1>4. ASSUME NEW m \in Commands, NEW n \in Nick \cup {None}, ReadAction(m, n) PROVE Counted'
  BY <1>4 DEF ReadAction
<1>5. ASSUME NEW s \in sends, SendDone(s[1], s[2]) PROVE Counted'
  BY <1>5 DEF SendDone, Dispatch, Goto
<1>6. ASSUME NEW s \in sends, SendFailed(s[1], s[2]) PROVE Counted'
  BY <1>6 DEF SendFailed, Dispatch, Goto
<1>7. ASSUME NEW s \in sends, SendDropped(s[1], s[2]) PROVE Counted'
  BY <1>7 DEF SendDropped
<1>8. ASSUME ReadEnd PROVE Counted'
  BY <1>8 DEF ReadEnd, Return, Goto
<1>9. ASSUME SharedWriteDone PROVE Counted'
  BY <1>9 DEF SharedWriteDone, Return, Goto
<1>10. ASSUME IoFault PROVE Counted'
  BY <1>10 DEF IoFault, Crash
<1>11. ASSUME NEW w \in Worker, NEW r \in Pending, Take(w, r) PROVE Counted'
  BY <1>11 DEF Take, Goto, Pending, Request
<1>12. ASSUME NEW w \in Worker, Lock(w) PROVE Counted'
  BY <1>12 DEF Lock, Crash, Goto
<1>13. ASSUME NEW w \in Worker, Fail(w) PROVE Counted'
  BY <1>13 DEF Fail, Return, Goto
<1>14. ASSUME NEW w \in Worker, SignIn(w) PROVE Counted'
  BY <1>14 DEF SignIn, RetrieveUser, Proceed, Goto
<1>15. ASSUME NEW w \in Worker, IsLogged(w) PROVE Counted'
  BY <1>15 DEF IsLogged, Return, Goto
<1>16. ASSUME NEW w \in Worker, SignUp(w) PROVE Counted'
  BY <1>16 DEF SignUp, Proceed, Goto
<1>17. ASSUME NEW w \in Worker, Insert(w) PROVE Counted'
  BY <1>17 DEF Insert, Proceed, Goto
<1>18. ASSUME NEW w \in Worker, SetNick(w) PROVE Counted'
  BY <1>18 DEF SetNick, Goto
<1>19. ASSUME NEW w \in Worker, SetState(w) PROVE Counted'
  BY <1>19 DEF SetState, Return, Goto
<1>20. ASSUME NEW w \in Worker, DeleteAccount(w) PROVE Counted'
  BY <1>20 DEF DeleteAccount, EraseUser, Return, Goto
<1>21. ASSUME NEW w \in Worker, FilesChanged(w) PROVE Counted'
  BY <1>21 DEF FilesChanged, Proceed, Goto
<1>22. ASSUME NEW w \in Worker, Register(w) PROVE Counted'
  BY <1>22 DEF Register, Announce, Return, Goto
<1>23. ASSUME NEW w \in Worker, NEW c \in todo[w], RegisterVisit(w, c) PROVE Counted'
  BY <1>23 DEF RegisterVisit
<1>24. ASSUME NEW w \in Worker, RegisterEnd(w) PROVE Counted'
  BY <1>24 DEF RegisterEnd, Return, Goto
<1>25. ASSUME NEW w \in Worker, Notify(w) PROVE Counted'
  BY <1>25 DEF Notify, Announce, Return, Goto
<1>26. ASSUME NEW w \in Worker, NEW c \in todo[w], NotifyVisit(w, c) PROVE Counted'
  BY <1>26 DEF NotifyVisit
<1>27. ASSUME NEW a \in Actor, Stop(a) PROVE Counted'
  BY <1>27 DEF Stop, Return, Goto
<1>28. ASSUME NEW a \in Actor, Disconnect(a) PROVE Counted'
  BY <1>28 DEF Disconnect, Announce, Return, Goto
<1>29. ASSUME NEW a \in Actor, NEW c \in todo[a], DisconnectVisit(a, c) PROVE Counted'
  BY <1>29 DEF DisconnectVisit
<1>30. ASSUME NEW a \in Actor, VisitEnd(a) PROVE Counted'
  BY <1>30 DEF VisitEnd, Return, Goto
<1>31. ASSUME NEW c \in Conn, WriteFailed(c) PROVE Counted'
  BY <1>31 DEF WriteFailed, Dispatch, Goto
<1> QED
  BY <1>0, <1>1, <1>2, <1>3, <1>4, <1>5, <1>6, <1>7, <1>8, <1>9, <1>10, <1>11, <1>12, <1>13,
     <1>14, <1>15, <1>16, <1>17, <1>18, <1>19, <1>20, <1>21, <1>22, <1>23, <1>24, <1>25, <1>26,
     <1>27, <1>28, <1>29, <1>30, <1>31
  DEF Next, SendCompletes, IoStep, HandlerStep, StopStep

\* Sizes of finite sets that lose or win an element.
LEMMA Sizes ==
  ASSUME NEW S, IsFiniteSet(S), NEW x
  PROVE  /\ Cardinality(S) \in Nat
         /\ Cardinality(S \cup {x}) <= Cardinality(S) + 1 /\ Cardinality(S \cup {x}) \in Nat
         /\ x \in S => Cardinality(S \ {x}) = Cardinality(S) - 1 /\ Cardinality(S) >= 1
         /\ \A T \in SUBSET S : IsFiniteSet(T) /\ Cardinality(T) \in Nat /\ Cardinality(T) <= Cardinality(S)
<1>1. Cardinality(S) \in Nat
  BY FS_CardinalityType
<1>2. Cardinality(S \cup {x}) <= Cardinality(S) + 1 /\ Cardinality(S \cup {x}) \in Nat
  BY <1>1, FS_AddElement
<1>3. x \in S => Cardinality(S \ {x}) = Cardinality(S) - 1 /\ Cardinality(S) >= 1
  BY <1>1, FS_RemoveElement, FS_EmptySet
<1>4. \A T \in SUBSET S : IsFiniteSet(T) /\ Cardinality(T) \in Nat /\ Cardinality(T) <= Cardinality(S)
  BY FS_Subset, FS_CardinalityType
<1> QED
  BY <1>1, <1>2, <1>3, <1>4

LEMMA RegisteredFinite ==
  ASSUME TypeInv
  PROVE  IsFiniteSet(connections) /\ IsFiniteSet(counted \cap connections)
  BY ConnAssumption, FS_Subset DEF TypeInv, TypeOK

\* A disconnection counts out a client that is in the counter.
LEMMA DisconnectCounts ==
  ASSUME TypeInv, Membership, Counted, Covering, NEW a \in Actor, Disconnect(a)
  PROVE  /\ counter' = IF was[a] THEN counter - 1 ELSE counter
         /\ counter' \in Nat
         /\ connections' = connections \ {conn[a]} /\ counted' = counted
         /\ Covering'
<1> DEFINE S == counted \cap connections
<1>1. conn[a] \in connections /\ (was[a] => conn[a] \in counted) /\ counter \in Nat
  BY DEF Disconnect, Membership, Counted, TypeInv, TypeOK
<1>2. IsFiniteSet(S)
  BY RegisteredFinite
<1>3. /\ Cardinality(S) \in Nat
      /\ conn[a] \in S => Cardinality(S \ {conn[a]}) = Cardinality(S) - 1 /\ Cardinality(S) >= 1
      /\ Cardinality(S \ {conn[a]}) \in Nat /\ Cardinality(S \ {conn[a]}) <= Cardinality(S)
  BY <1>2, Sizes
<1>4. connections' = connections \ {conn[a]} /\ counted' = counted /\ S' = S \ {conn[a]}
  BY DEF Disconnect
<1>5. counter >= Cardinality(S)
  BY DEF Covering
<1>6. Cardinality(S') = Cardinality(S \ {conn[a]})
  BY <1>4
<1>7. counter' = IF was[a] THEN Dec(counter) ELSE counter
  BY DEF Disconnect
<1>8. conn[a] \in S \/ ~was[a]
  BY <1>1
<1> HIDE DEF S
<1>9. counter' = IF was[a] THEN counter - 1 ELSE counter
  BY <1>1, <1>3, <1>5, <1>7, <1>8 DEF Dec
<1>10. counter' \in Nat /\ counter' >= Cardinality(S')
  BY <1>1, <1>3, <1>5, <1>6, <1>8, <1>9
<1> QED
  BY <1>4, <1>9, <1>10 DEF Covering, S

\* The steps other than accepting, registering and disconnecting leave the counter
\* and who is counted alone.
LEMMA OtherSteps ==
  ASSUME [Next]_vars
  PROVE  \/ UNCHANGED <<counter, counted, connections>>
         \/ \E c \in Conn : Accept(c)
         \/ \E w \in Worker : Register(w)
         \/ \E a \in Actor : Disconnect(a)
<1> DEFINE Same == UNCHANGED <<counter, counted, connections>>
<1>0. CASE UNCHANGED vars
  BY <1>0 DEF vars
<1>1. ASSUME NEW c \in Conn, ReadDone(c) PROVE Same
  BY <1>1 DEF ReadDone, Dispatch
<1>2. ASSUME NEW c \in Conn, ReadFailed(c) PROVE Same
  BY <1>2 DEF ReadFailed, Dispatch
<1>3. ASSUME NEW m \in Commands, NEW n \in Nick \cup {None}, ReadAction(m, n) PROVE Same
  BY <1>3 DEF ReadAction
<1>4. ASSUME NEW s \in sends, SendDone(s[1], s[2]) PROVE Same
  BY <1>4 DEF SendDone, Dispatch
<1>5. ASSUME NEW s \in sends, SendFailed(s[1], s[2]) PROVE Same
  BY <1>5 DEF SendFailed, Dispatch
<1>6. ASSUME NEW s \in sends, SendDropped(s[1], s[2]) PROVE Same
  BY <1>6 DEF SendDropped
<1>7. ASSUME ReadEnd PROVE Same
  BY <1>7 DEF ReadEnd
<1>8. ASSUME SharedWriteDone PROVE Same
  BY <1>8 DEF SharedWriteDone
<1>9. ASSUME IoFault PROVE Same
  BY <1>9 DEF IoFault, Crash
<1>10. ASSUME NEW w \in Worker, NEW r \in Pending, Take(w, r) PROVE Same
  BY <1>10 DEF Take
<1>11. ASSUME NEW w \in Worker, Lock(w) PROVE Same
  BY <1>11 DEF Lock, Crash
<1>12. ASSUME NEW w \in Worker, Fail(w) PROVE Same
  BY <1>12 DEF Fail
<1>13. ASSUME NEW w \in Worker, SignIn(w) PROVE Same
  BY <1>13 DEF SignIn, RetrieveUser, Proceed
<1>14. ASSUME NEW w \in Worker, IsLogged(w) PROVE Same
  BY <1>14 DEF IsLogged
<1>15. ASSUME NEW w \in Worker, SignUp(w) PROVE Same
  BY <1>15 DEF SignUp, Proceed
<1>16. ASSUME NEW w \in Worker, Insert(w) PROVE Same
  BY <1>16 DEF Insert, Proceed
<1>17. ASSUME NEW w \in Worker, SetNick(w) PROVE Same
  BY <1>17 DEF SetNick
<1>18. ASSUME NEW w \in Worker, SetState(w) PROVE Same
  BY <1>18 DEF SetState
<1>19. ASSUME NEW w \in Worker, DeleteAccount(w) PROVE Same
  BY <1>19 DEF DeleteAccount, EraseUser
<1>20. ASSUME NEW w \in Worker, FilesChanged(w) PROVE Same
  BY <1>20 DEF FilesChanged, Proceed
<1>21. ASSUME NEW w \in Worker, NEW c \in todo[w], RegisterVisit(w, c) PROVE Same
  BY <1>21 DEF RegisterVisit
<1>22. ASSUME NEW w \in Worker, RegisterEnd(w) PROVE Same
  BY <1>22 DEF RegisterEnd
<1>23. ASSUME NEW w \in Worker, Notify(w) PROVE Same
  BY <1>23 DEF Notify
<1>24. ASSUME NEW w \in Worker, NEW c \in todo[w], NotifyVisit(w, c) PROVE Same
  BY <1>24 DEF NotifyVisit
<1>25. ASSUME NEW a \in Actor, Stop(a) PROVE Same
  BY <1>25 DEF Stop
<1>26. ASSUME NEW a \in Actor, NEW c \in todo[a], DisconnectVisit(a, c) PROVE Same
  BY <1>26 DEF DisconnectVisit
<1>27. ASSUME NEW a \in Actor, VisitEnd(a) PROVE Same
  BY <1>27 DEF VisitEnd
<1>28. ASSUME NEW c \in Conn, WriteFailed(c) PROVE Same
  BY <1>28 DEF WriteFailed, Dispatch
<1> QED
  BY <1>0, <1>1, <1>2, <1>3, <1>4, <1>5, <1>6, <1>7, <1>8, <1>9, <1>10, <1>11, <1>12, <1>13,
     <1>14, <1>15, <1>16, <1>17, <1>18, <1>19, <1>20, <1>21, <1>22, <1>23, <1>24, <1>25, <1>26,
     <1>27, <1>28
  DEF Next, SendCompletes, IoStep, HandlerStep, StopStep

LEMMA CoveringStep ==
  TypeInv /\ Membership /\ Counted /\ Covering /\ [Next]_vars => Covering'
<1> SUFFICES ASSUME TypeInv, Membership, Counted, Covering, [Next]_vars PROVE Covering'
  OBVIOUS
<1>1. CASE UNCHANGED <<counter, counted, connections>>
  BY <1>1 DEF Covering
<1>2. ASSUME NEW c \in Conn, Accept(c) PROVE Covering'
  <2>1. counted' \cap connections' = counted \cap connections /\ counter' = counter
    BY <1>2 DEF Accept, Membership
  <2> QED
    BY <2>1 DEF Covering
<1>3. ASSUME NEW w \in Worker, Register(w) PROVE Covering'
  <2> DEFINE S == counted \cap connections
  <2>1. counted' \cap connections' \subseteq S \cup {conn[w]} /\ counter' = counter + 1 /\ counter \in Nat
    BY <1>3 DEF Register, TypeInv, TypeOK
  <2>2. /\ IsFiniteSet(S) /\ IsFiniteSet(S \cup {conn[w]})
        /\ Cardinality(S) \in Nat
        /\ Cardinality(S \cup {conn[w]}) <= Cardinality(S) + 1 /\ Cardinality(S \cup {conn[w]}) \in Nat
    BY RegisteredFinite, Sizes, FS_AddElement
  <2>3. /\ Cardinality(counted' \cap connections') <= Cardinality(S \cup {conn[w]})
        /\ Cardinality(counted' \cap connections') \in Nat
    BY <2>1, <2>2, Sizes
  <2>4. counter >= Cardinality(S)
    BY DEF Covering
  <2> HIDE DEF S
  <2> QED
    BY <2>1, <2>2, <2>3, <2>4 DEF Covering
<1>4. ASSUME NEW a \in Actor, Disconnect(a) PROVE Covering'
  BY <1>4, DisconnectCounts
<1> QED
  BY <1>1, <1>2, <1>3, <1>4, OtherSteps

CounterInv == TypeInv /\ Membership /\ Counted /\ Covering

LEMMA CounterInvariant == Spec => []CounterInv
<1>1. Init => CounterInv
  <2>1. Init => Covering
    BY FS_EmptySet DEF Init, Covering
  <2>2. Init => Membership /\ Counted
    BY DEF Init, Membership, Counted
  <2> QED
    BY <2>1, <2>2, TypeInit DEF CounterInv
<1>2. CounterInv /\ [Next]_vars => CounterInv'
  BY TypeStep, MembershipStep, CountedStep, CoveringStep DEF CounterInv
<1> QED
  BY <1>1, <1>2, PTL DEF Spec

\* The processing connections are among the counted registered ones.
LEMMA CoversProcessing ==
  ASSUME CounterInv
  PROVE  IsFiniteSet(Processing) /\ Cardinality(Processing) \in Nat /\ counter >= Cardinality(Processing)
<1> DEFINE S == counted \cap connections
<1>1. Processing \subseteq S
  BY DEF CounterInv, Counted, Processing, TypeInv, TypeOK
<1>2. IsFiniteSet(S) /\ counter >= Cardinality(S) /\ counter \in Nat
  BY RegisteredFinite DEF CounterInv, Covering, TypeInv, TypeOK
<1> HIDE DEF S
<1>3. /\ IsFiniteSet(Processing) /\ Cardinality(Processing) <= Cardinality(S)
      /\ Cardinality(S) \in Nat /\ Cardinality(Processing) \in Nat
  BY <1>1, <1>2, Sizes
<1> QED
  BY <1>2, <1>3

\* processing_counter_ never falls behind the registered processing clients,
\* whatever the interleaving of registrations, sign-ins and disconnections.
THEOREM CounterCovers == Spec => []CounterCoversProcessing
<1>1. CounterInv => CounterCoversProcessing
  BY CoversProcessing DEF CounterCoversProcessing
<1> QED
  BY <1>1, CounterInvariant, PTL

\* --processing_counter_ never takes the counter below zero.
THEOREM NeverWraps == Spec => CounterNeverWraps
<1>1. CounterInv /\ [Next]_vars => [counter' <= counter + 1]_vars
  <2> SUFFICES ASSUME CounterInv, [Next]_vars PROVE counter' <= counter + 1
    OBVIOUS
  <2>1. counter \in Nat
    BY DEF CounterInv, TypeInv, TypeOK
  <2>2. CASE UNCHANGED <<counter, counted, connections>>
    BY <2>1, <2>2
  <2>3. ASSUME NEW c \in Conn, Accept(c) PROVE counter' <= counter + 1
    BY <2>1, <2>3 DEF Accept
  <2>4. ASSUME NEW w \in Worker, Register(w) PROVE counter' <= counter + 1
    BY <2>1, <2>4 DEF Register
  <2>5. ASSUME NEW a \in Actor, Disconnect(a) PROVE counter' <= counter + 1
    BY <2>1, <2>5, DisconnectCounts DEF CounterInv
  <2> QED
    BY <2>2, <2>3, <2>4, <2>5, OtherSteps
<1> QED
  BY <1>1, CounterInvariant, PTL DEF Spec, CounterNeverWraps

-----------------------------------------------------------------------------
(* Shared buffers *)

LEMMA FreshStep == TypeInv /\ TypeInv' /\ Fresh /\ [Next]_vars => Fresh'
<1> SUFFICES ASSUME TypeInv, TypeInv', Fresh, [Next]_vars PROVE Fresh'
  OBVIOUS
<1>a. /\ pc \in [Actor -> Location] /\ todo \in [Actor -> SUBSET Conn] /\ nextId \in Nat
      /\ buf \in [Actor -> 0..nextId] /\ sends \subseteq Conn \X (1..nextId)
      /\ \A a \in Actor : mutex = a <=> pc[a] \in FanOut
      /\ Worker \subseteq Actor /\ IO \in Actor /\ None \notin Actor
      /\ pc' \in [Actor -> Location] /\ todo' \in [Actor -> SUBSET Conn]
      /\ \A c \in Conn : <<c, nextId + 1>> \notin sends
  BY ActorAssumption DEF TypeInv, TypeOK, Actor
<1> USE <1>a DEF Fresh, FanOut, clients, buffers, traffic, locals
<1>0. CASE UNCHANGED vars
  BY <1>0 DEF vars
<1>1. ASSUME NEW c \in Conn, Accept(c) PROVE Fresh'
  BY <1>1 DEF Accept
<1>2. ASSUME NEW c \in Conn, ReadDone(c) PROVE Fresh'
  BY <1>2 DEF ReadDone, Dispatch, Goto
<1>3. ASSUME NEW c \in Conn, ReadFailed(c) PROVE Fresh'
  BY <1>3 DEF ReadFailed, Dispatch, Goto
<1>4. ASSUME NEW m \in Commands, NEW n \in Nick \cup {None}, ReadAction(m, n) PROVE Fresh'
  BY <1>4 DEF ReadAction
<1>5. ASSUME NEW s \in sends, SendDone(s[1], s[2]) PROVE Fresh'
  BY <1>5 DEF SendDone, Dispatch, Goto
<1>6. ASSUME NEW s \in sends, SendFailed(s[1], s[2]) PROVE Fresh'
  BY <1>6 DEF SendFailed, Dispatch, Goto
<1>7. ASSUME NEW s \in sends, SendDropped(s[1], s[2]) PROVE Fresh'
  BY <1>7 DEF SendDropped
<1>8. ASSUME ReadEnd PROVE Fresh'
  BY <1>8 DEF ReadEnd, Return, Goto
<1>9. ASSUME SharedWriteDone PROVE Fresh'
  BY <1>9 DEF SharedWriteDone, Return, Goto
<1>10. ASSUME IoFault PROVE Fresh'
  BY <1>10 DEF IoFault, Crash
<1>11. ASSUME NEW w \in Worker, NEW r \in Pending, Take(w, r) PROVE Fresh'
  BY <1>11 DEF Take, Goto, Pending, Request
<1>12. ASSUME NEW w \in Worker, Lock(w) PROVE Fresh'
  BY <1>12 DEF Lock, Crash, Goto
<1>13. ASSUME NEW w \in Worker, Fail(w) PROVE Fresh'
  BY <1>13 DEF Fail, Return, Goto
<1>14. ASSUME NEW w \in Worker, SignIn(w) PROVE Fresh'
  BY <1>14 DEF SignIn, RetrieveUser, Proceed, Goto
<1>15. ASSUME NEW w \in Worker, IsLogged(w) PROVE Fresh'
  BY <1>15 DEF IsLogged, Return, Goto
<1>16. ASSUME NEW w \in Worker, SignUp(w) PROVE Fresh'
  BY <1>16 DEF SignUp, Proceed, Goto
<1>17. ASSUME NEW w \in Worker, Insert(w) PROVE Fresh'
  BY <1>17 DEF Insert, Proceed, Goto
<1>18. ASSUME NEW w \in Worker, SetNick(w) PROVE Fresh'
  BY <1>18 DEF SetNick, Goto
<1>19. ASSUME NEW w \in Worker, SetState(w) PROVE Fresh'
  BY <1>19 DEF SetState, Return, Goto
<1>20. ASSUME NEW w \in Worker, DeleteAccount(w) PROVE Fresh'
  BY <1>20 DEF DeleteAccount, EraseUser, Return, Goto
<1>21. ASSUME NEW w \in Worker, FilesChanged(w) PROVE Fresh'
  BY <1>21 DEF FilesChanged, Proceed, Goto
<1>22. ASSUME NEW w \in Worker, Register(w) PROVE Fresh'
  BY <1>22 DEF Register, Announce, Return, Goto
<1>23. ASSUME NEW w \in Worker, NEW c \in todo[w], RegisterVisit(w, c) PROVE Fresh'
  BY <1>23 DEF RegisterVisit
<1>24. ASSUME NEW w \in Worker, RegisterEnd(w) PROVE Fresh'
  BY <1>24 DEF RegisterEnd, Return, Goto
<1>25. ASSUME NEW w \in Worker, Notify(w) PROVE Fresh'
  BY <1>25 DEF Notify, Announce, Return, Goto
<1>26. ASSUME NEW w \in Worker, NEW c \in todo[w], NotifyVisit(w, c) PROVE Fresh'
  BY <1>26 DEF NotifyVisit
<1>27. ASSUME NEW a \in Actor, Stop(a) PROVE Fresh'
  BY <1>27 DEF Stop, Return, Goto
<1>28. ASSUME NEW a \in Actor, Disconnect(a) PROVE Fresh'
  BY <1>28 DEF Disconnect, Announce, Return, Goto
<1>29. ASSUME NEW a \in Actor, NEW c \in todo[a], DisconnectVisit(a, c) PROVE Fresh'
  BY <1>29 DEF DisconnectVisit
<1>30. ASSUME NEW a \in Actor, VisitEnd(a) PROVE Fresh'
  BY <1>30 DEF VisitEnd, Return, Goto
<1>31. ASSUME NEW c \in Conn, WriteFailed(c) PROVE Fresh'
  BY <1>31 DEF WriteFailed, Dispatch, Goto
<1> QED
  BY <1>0, <1>1, <1>2, <1>3, <1>4, <1>5, <1>6, <1>7, <1>8, <1>9, <1>10, <1>11, <1>12, <1>13,
     <1>14, <1>15, <1>16, <1>17, <1>18, <1>19, <1>20, <1>21, <1>22, <1>23, <1>24, <1>25, <1>26,
     <1>27, <1>28, <1>29, <1>30, <1>31
  DEF Next, SendCompletes, IoStep, HandlerStep, StopStep

\* What is owed is bounded by the number of connections.
LEMMA OwedFinite ==
  ASSUME NEW b
  PROVE  /\ IsFiniteSet(Owed(b)) /\ Cardinality(Owed(b)) \in Nat
         /\ IsFiniteSet(Owed(b)') /\ Cardinality(Owed(b)') \in Nat
<1>1. Owed(b) \subseteq Conn /\ Owed(b)' \subseteq Conn
  BY DEF Owed, Due
<1> QED
  BY <1>1, ConnAssumption, FS_Subset, FS_CardinalityType

LEMMA ExpectedNat ==
  ASSUME TypeInv, NEW b
  PROVE  Expected(b) \in Nat
  BY DEF Expected, TypeInv, TypeOK

\* Steps that start no write, announce nothing and make nobody processing whom a
\* loop will still visit.
LEMMA QuietOwing ==
  ASSUME TypeInv, Owing,
         sends' \subseteq sends, lame \subseteq lame', UNCHANGED <<storage, nextId>>,
         \A a \in Actor : pc'[a] \in FanOut =>
            /\ pc'[a] = pc[a] /\ buf'[a] = buf[a] /\ conn'[a] = conn[a] /\ todo'[a] \subseteq todo[a]
            /\ \A c \in todo'[a] : state'[c] = "processing" => state[c] = "processing"
  PROVE  Owing'
<1> SUFFICES ASSUME NEW b \in 1..nextId, b \notin lame'
             PROVE  Cardinality(Owed(b)') <= Expected(b)'
  BY DEF Owing
<1>1. Owed(b)' \subseteq Owed(b)
  BY DEF Owed, Due
<1>2. Cardinality(Owed(b)') <= Cardinality(Owed(b))
  BY <1>1, OwedFinite, FS_Subset
<1>3. Expected(b)' = Expected(b)
  BY DEF Expected
<1>4. Cardinality(Owed(b)) <= Expected(b)
  BY DEF Owing
<1> QED
  BY <1>2, <1>3, <1>4, OwedFinite, ExpectedNat

\* A loop visits a connection and writes to it if it is processing.
LEMMA VisitOwing ==
  ASSUME TypeInv, Owing, NEW a \in Actor, pc[a] \in FanOut, NEW c \in todo[a],
         todo' = [todo EXCEPT ![a] = @ \ {c}],
         UNCHANGED <<storage, nextId, pc, buf, conn, state>>, lame \subseteq lame',
         \/ sends' = sends
         \/ /\ sends' = sends \cup {<<c, buf[a]>>} /\ state[c] = "processing"
            /\ pc[a] = "fanNote" /\ c = conn[a] => buf[a] \in lame'
  PROVE  Owing'
<1> SUFFICES ASSUME NEW b \in 1..nextId, b \notin lame'
             PROVE  Cardinality(Owed(b)') <= Expected(b)'
  BY DEF Owing
<1>1. Owed(b)' \subseteq Owed(b)
  <2>0. todo \in [Actor -> SUBSET Conn]
    BY DEF TypeInv, TypeOK
  <2>1. Due(b)' \subseteq Due(b)
    BY <2>0 DEF Due
  <2>2. CASE sends' = sends
    BY <2>1, <2>2 DEF Owed
  <2>3. CASE /\ sends' = sends \cup {<<c, buf[a]>>} /\ state[c] = "processing"
             /\ pc[a] = "fanNote" /\ c = conn[a] => buf[a] \in lame'
    <3>1. buf[a] = b => c \in Due(b)
      BY <2>0, <2>3 DEF Due
    <3> QED
      BY <2>1, <2>3, <3>1 DEF Owed
  <2> QED
    BY <2>2, <2>3
<1>2. Cardinality(Owed(b)') <= Cardinality(Owed(b))
  BY <1>1, OwedFinite, FS_Subset
<1>3. Expected(b)' = Expected(b)
  BY DEF Expected
<1>4. Cardinality(Owed(b)) <= Expected(b)
  BY DEF Owing
<1> QED
  BY <1>2, <1>3, <1>4, OwedFinite, ExpectedNat

\* A new buffer is put into shared_storage_ with the number of writes it expects.
LEMMA AnnounceOwing ==
  ASSUME TypeInv, Owing, mutex = None, NEW a \in Actor, NEW n \in Nat, NEW S \in SUBSET Conn,
         NEW l \in FanOut, Announce(a, n, S, l),
         UNCHANGED <<sends, state, conn>>, lame \subseteq lame',
         nextId + 1 \in lame' \/
           Cardinality({c \in S : state[c] = "processing" /\ (l = "fanNote" => c # conn[a])}) <= n
  PROVE  Owing'
<1> DEFINE T == {c \in S : state[c] = "processing" /\ (l = "fanNote" => c # conn[a])}
<1>a. /\ nextId \in Nat /\ nextId' = nextId + 1 /\ storage' = Put(storage, nextId + 1, n)
      /\ pc' = [pc EXCEPT ![a] = l] /\ buf' = [buf EXCEPT ![a] = nextId + 1]
      /\ todo' = [todo EXCEPT ![a] = S]
      /\ pc \in [Actor -> Location] /\ buf \in [Actor -> 0..nextId] /\ todo \in [Actor -> SUBSET Conn]
      /\ \A x \in Actor : pc[x] \notin FanOut
      /\ \A c \in Conn : <<c, nextId + 1>> \notin sends
  BY ActorAssumption DEF TypeInv, TypeOK, Announce, Goto
<1>b. /\ \A b \in DOMAIN storage : storage'[b] = storage[b]
      /\ DOMAIN storage' = DOMAIN storage \cup {nextId + 1} /\ storage'[nextId + 1] = n
  <2>1. DOMAIN storage \subseteq 1..nextId /\ \A b \in DOMAIN storage : storage[b] \in Nat
    BY DEF TypeInv, TypeOK
  <2>2. nextId \in Nat /\ nextId + 1 \notin DOMAIN storage
    BY <1>a, <2>1
  <2> QED
    BY <1>a, <2>2 DEF Put
<1> SUFFICES ASSUME NEW b \in 1..(nextId + 1), b \notin lame'
             PROVE  Cardinality(Owed(b)') <= Expected(b)'
  BY <1>a DEF Owing
<1>1. CASE b = nextId + 1
  <2>1. Owed(b)' = T
    BY <1>a, <1>1 DEF Owed, Due
  <2>2. Expected(b)' = n
    BY <1>1, <1>b DEF Expected
  <2>3. Cardinality(T) <= n
    BY <1>1
  <2> HIDE DEF T
  <2> QED
    BY <2>1, <2>2, <2>3
<1>2. CASE b # nextId + 1
  <2>1. b \in 1..nextId /\ b \notin lame
    BY <1>a, <1>2
  <2>2. Owed(b)' \subseteq Owed(b)
    BY <1>a, <2>1 DEF Owed, Due
  <2>3. Cardinality(Owed(b)') <= Cardinality(Owed(b))
    BY <2>2, OwedFinite, FS_Subset
  <2>4. Expected(b)' = Expected(b)
    BY <1>b, <1>2 DEF Expected
  <2>5. Cardinality(Owed(b)) <= Expected(b)
    BY <2>1 DEF Owing
  <2> QED
    BY <2>3, <2>4, <2>5, OwedFinite, ExpectedNat
<1> QED
  BY <1>1, <1>2

\* notify_shared_write_done counts down for a write that was owed.
LEMMA WriteDoneOwing ==
  ASSUME TypeInv, Fresh, Owing, SharedWriteDone
  PROVE  Owing'
<1> DEFINE d == buf[IO]
           k == conn[IO]
           n == Dec(Expected(d))
<1>a. /\ pc[IO] = "sent" /\ <<k, d>> \in sends /\ k \in Conn /\ d \in 1..nextId /\ IO \in Actor
      /\ pc \in [Actor -> Location] /\ buf \in [Actor -> 0..nextId]
      /\ todo \in [Actor -> SUBSET Conn] /\ conn \in [Actor -> Conn \cup {None}]
  BY DEF SharedWriteDone, TypeInv, TypeOK, SentOK, Actor
<1>b. /\ storage' = IF n = 0 /\ Asserts THEN Drop(storage, d) ELSE Put(storage, d, n)
      /\ sends' = sends \ {<<k, d>>} /\ UNCHANGED <<nextId, lame, state>>
      /\ pc' = [pc EXCEPT ![IO] = "idle"] /\ buf' = [buf EXCEPT ![IO] = 0]
      /\ todo' = [todo EXCEPT ![IO] = {}] /\ conn' = [conn EXCEPT ![IO] = None]
  BY DEF SharedWriteDone, Return, Goto, Expected, clients
<1> SUFFICES ASSUME NEW b \in 1..nextId, b \notin lame
             PROVE  Cardinality(Owed(b)') <= Expected(b)'
  BY <1>b DEF Owing
<1>1. Due(b)' \subseteq Due(b)
  BY <1>a, <1>b DEF Due, FanOut
<1>2. Cardinality(Owed(b)) <= Expected(b) /\ Expected(b) \in Nat
  BY ExpectedNat DEF Owing
<1>3. CASE b = d
  <2>1. k \in Owed(b)
    BY <1>a, <1>3 DEF Owed
  <2>2. k \notin Due(b)
    BY <1>a, <1>3 DEF Due, Fresh
  <2>3. Owed(b)' \subseteq Owed(b) \ {k}
    BY <1>1, <1>3, <1>b, <2>2 DEF Owed
  <2>4. /\ Cardinality(Owed(b) \ {k}) = Cardinality(Owed(b)) - 1 /\ Cardinality(Owed(b)) >= 1
        /\ IsFiniteSet(Owed(b) \ {k})
    BY <2>1, OwedFinite, Sizes
  <2>5. Cardinality(Owed(b)') <= Cardinality(Owed(b)) - 1
    BY <2>3, <2>4, FS_Subset
  <2>6. Expected(b) >= 1 /\ n = Expected(b) - 1
    BY <1>2, <1>3, <2>4, OwedFinite DEF Dec
  <2>7. Expected(b)' = n
    <3>1. CASE n = 0 /\ Asserts
      BY <1>3, <1>b, <3>1 DEF Drop, Expected
    <3>2. CASE ~(n = 0 /\ Asserts)
      BY <1>3, <1>b, <3>2 DEF Put, Expected
    <3> QED
      BY <3>1, <3>2
  <2> QED
    BY <1>2, <2>5, <2>6, <2>7, OwedFinite
<1>4. CASE b # d
  <2>1. Owed(b)' \subseteq Owed(b)
    BY <1>1, <1>b DEF Owed
  <2>2. Cardinality(Owed(b)') <= Cardinality(Owed(b))
    BY <2>1, OwedFinite, FS_Subset
  <2>3. Expected(b)' = Expected(b)
    <3>1. CASE n = 0 /\ Asserts
      BY <1>4, <1>b, <3>1 DEF Drop, Expected
    <3>2. CASE ~(n = 0 /\ Asserts)
      BY <1>4, <1>b, <3>2 DEF Put, Expected
    <3> QED
      BY <3>1, <3>2
  <2> QED
    BY <1>2, <2>2, <2>3, OwedFinite
<1> QED
  BY <1>3, <1>4

LEMMA OwingStep == CounterInv /\ CounterInv' /\ Fresh /\ Owing /\ [Next]_vars => Owing'
<1> SUFFICES ASSUME CounterInv, CounterInv', Fresh, Owing, [Next]_vars PROVE Owing'
  OBVIOUS
<1>a. /\ pc \in [Actor -> Location] /\ todo \in [Actor -> SUBSET Conn]
      /\ buf \in [Actor -> 0..nextId] /\ conn \in [Actor -> Conn \cup {None}]
      /\ state \in [Conn -> State] /\ nextId \in Nat /\ counter \in Nat
      /\ connections \subseteq Conn /\ lame \subseteq 1..nextId
      /\ \A a \in Actor : mutex = a <=> pc[a] \in FanOut
      /\ Worker \subseteq Actor /\ IO \in Actor /\ None \notin Actor /\ TypeInv
  BY ActorAssumption DEF CounterInv, TypeInv, TypeOK, Actor
<1> USE <1>a DEF FanOut, clients, buffers, traffic, locals
<1>0. CASE UNCHANGED vars
  BY <1>0, QuietOwing DEF vars
<1>1. ASSUME NEW c \in Conn, Accept(c) PROVE Owing'
  BY <1>1, QuietOwing DEF Accept
<1>2. ASSUME NEW c \in Conn, ReadDone(c) PROVE Owing'
  BY <1>2, QuietOwing DEF ReadDone, Dispatch, Goto
<1>3. ASSUME NEW c \in Conn, ReadFailed(c) PROVE Owing'
  BY <1>3, QuietOwing DEF ReadFailed, Dispatch, Goto
<1>4. ASSUME NEW m \in Commands, NEW n \in Nick \cup {None}, ReadAction(m, n) PROVE Owing'
  BY <1>4, QuietOwing DEF ReadAction
<1>5. ASSUME NEW s \in sends, SendDone(s[1], s[2]) PROVE Owing'
  BY <1>5, QuietOwing DEF SendDone, Dispatch, Goto
<1>6. ASSUME NEW s \in sends, SendFailed(s[1], s[2]) PROVE Owing'
  BY <1>6, QuietOwing DEF SendFailed, Dispatch, Goto
<1>7. ASSUME NEW s \in sends, SendDropped(s[1], s[2]) PROVE Owing'
  BY <1>7, QuietOwing DEF SendDropped
<1>8. ASSUME ReadEnd PROVE Owing'
  BY <1>8, QuietOwing DEF ReadEnd, Return, Goto
<1>9. ASSUME SharedWriteDone PROVE Owing'
  BY <1>9, WriteDoneOwing
<1>10. ASSUME IoFault PROVE Owing'
  BY <1>10, QuietOwing DEF IoFault, Crash
<1>11. ASSUME NEW w \in Worker, NEW r \in Pending, Take(w, r) PROVE Owing'
  BY <1>11, QuietOwing DEF Take, Goto, Pending, Request
<1>12. ASSUME NEW w \in Worker, Lock(w) PROVE Owing'
  BY <1>12, QuietOwing DEF Lock, Crash, Goto
<1>13. ASSUME NEW w \in Worker, Fail(w) PROVE Owing'
  BY <1>13, QuietOwing DEF Fail, Return, Goto
<1>14. ASSUME NEW w \in Worker, SignIn(w) PROVE Owing'
  BY <1>14, QuietOwing DEF SignIn, RetrieveUser, Proceed, Goto
<1>15. ASSUME NEW w \in Worker, IsLogged(w) PROVE Owing'
  BY <1>15, QuietOwing DEF IsLogged, Return, Goto
<1>16. ASSUME NEW w \in Worker, SignUp(w) PROVE Owing'
  BY <1>16, QuietOwing DEF SignUp, Proceed, Goto
<1>17. ASSUME NEW w \in Worker, Insert(w) PROVE Owing'
  BY <1>17, QuietOwing DEF Insert, Proceed, Goto
<1>18. ASSUME NEW w \in Worker, SetNick(w) PROVE Owing'
  BY <1>18, QuietOwing DEF SetNick, Goto
<1>19. ASSUME NEW w \in Worker, SetState(w) PROVE Owing'
  BY <1>19, QuietOwing DEF SetState, Return, Goto
<1>20. ASSUME NEW w \in Worker, DeleteAccount(w) PROVE Owing'
  BY <1>20, QuietOwing DEF DeleteAccount, EraseUser, Return, Goto
<1>21. ASSUME NEW w \in Worker, FilesChanged(w) PROVE Owing'
  BY <1>21, QuietOwing DEF FilesChanged, Proceed, Goto
<1>22. ASSUME NEW w \in Worker, Register(w) PROVE Owing'
  <2>1. CASE counter = 0
    <3>1. /\ mutex = None /\ Return(w)
          /\ UNCHANGED <<storage, nextId, sends, lame>>
      BY <1>22, <2>1 DEF Register
    <3>2. \A a \in Actor : pc'[a] \notin FanOut
      BY <3>1 DEF Return, Goto
    <3> QED
      BY <3>1, <3>2, QuietOwing
  <2>2. CASE counter # 0
    <3>1. /\ mutex = None /\ Announce(w, counter, connections, "fanReg")
          /\ UNCHANGED <<sends, state, conn, lame>>
      BY <1>22, <2>2 DEF Register
    <3>2. {c \in connections : state[c] = "processing" /\ ("fanReg" = "fanNote" => c # conn[w])} = Processing
      BY DEF Processing
    <3>3. Cardinality(Processing) <= counter
      BY CoversProcessing
    <3> QED
      BY <3>1, <3>2, <3>3, AnnounceOwing
  <2> QED
    BY <2>1, <2>2
<1>23. ASSUME NEW w \in Worker, NEW c \in todo[w], RegisterVisit(w, c) PROVE Owing'
  BY <1>23, VisitOwing DEF RegisterVisit
<1>24. ASSUME NEW w \in Worker, RegisterEnd(w) PROVE Owing'
  BY <1>24, QuietOwing DEF RegisterEnd, Return, Goto
<1>25. ASSUME NEW w \in Worker, Notify(w) PROVE Owing'
  <2>1. CASE counter = 1
    <3>1. /\ mutex = None /\ Return(w)
          /\ UNCHANGED <<storage, nextId, sends, lame>>
      BY <1>25, <2>1 DEF Notify
    <3>2. \A a \in Actor : pc'[a] \notin FanOut
      BY <3>1 DEF Return, Goto
    <3> QED
      BY <3>1, <3>2, QuietOwing
  <2>2. CASE counter # 1
    <3> DEFINE T == {c \in connections : state[c] = "processing" /\ ("fanNote" = "fanNote" => c # conn[w])}
               R == counted \cap connections
    <3>1. /\ mutex = None /\ Announce(w, Dec(counter), connections, "fanNote")
          /\ UNCHANGED <<sends, state, conn>> /\ lame \subseteq lame'
          /\ conn[w] \in R \/ nextId + 1 \in lame'
      BY <1>25, <2>2 DEF Notify
    <3>2. Dec(counter) \in Nat
      BY CounterAssumption DEF Dec
    <3>3. ASSUME conn[w] \in R PROVE Cardinality(T) <= Dec(counter)
      <4>1. T \subseteq R \ {conn[w]}
        BY DEF CounterInv, Counted
      <4>2. IsFiniteSet(R) /\ counter >= Cardinality(R)
        BY RegisteredFinite DEF CounterInv, Covering
      <4> HIDE DEF T, R
      <4>3. /\ Cardinality(R \ {conn[w]}) = Cardinality(R) - 1 /\ Cardinality(R) >= 1
            /\ Cardinality(R) \in Nat /\ IsFiniteSet(R \ {conn[w]})
        BY <3>3, <4>2, Sizes
      <4>4. Cardinality(T) <= Cardinality(R \ {conn[w]}) /\ Cardinality(T) \in Nat
        BY <4>1, <4>3, Sizes
      <4> QED
        BY <4>2, <4>3, <4>4 DEF Dec
    <3>4. nextId + 1 \in lame' \/ Cardinality(T) <= Dec(counter)
      BY <3>1, <3>3
    <3> QED
      BY <3>1, <3>2, <3>4, AnnounceOwing
  <2> QED
    BY <2>1, <2>2
<1>26. ASSUME NEW w \in Worker, NEW c \in todo[w], NotifyVisit(w, c) PROVE Owing'
  BY <1>26, VisitOwing DEF NotifyVisit
<1>27. ASSUME NEW a \in Actor, Stop(a) PROVE Owing'
  BY <1>27, QuietOwing DEF Stop, Return, Goto
<1>28. ASSUME NEW a \in Actor, Disconnect(a) PROVE Owing'
  <2>1. CASE was[a] /\ counter' # 0
    <3>1. /\ mutex = None /\ Announce(a, counter', connections', "fanDisc")
          /\ UNCHANGED <<sends, state, conn, lame>> /\ connections' \in SUBSET Conn
      BY <1>28, <2>1 DEF Disconnect
    <3>2. {c \in connections' : state[c] = "processing" /\ ("fanDisc" = "fanNote" => c # conn[a])}
            = Processing'
      BY <3>1 DEF Processing
    <3>3. Cardinality(Processing') <= counter' /\ counter' \in Nat
      <4> DEFINE R == counted' \cap connections'
      <4>1. Processing' \subseteq R
        BY <1>28, <3>1 DEF Disconnect, CounterInv, Counted, Processing
      <4>2. IsFiniteSet(R) /\ counter' >= Cardinality(R) /\ counter' \in Nat
        BY <3>1, ConnAssumption, FS_Subset DEF CounterInv, Covering, TypeInv, TypeOK
      <4> HIDE DEF R
      <4>3. /\ Cardinality(Processing') <= Cardinality(R) /\ Cardinality(R) \in Nat
            /\ Cardinality(Processing') \in Nat
        BY <4>1, <4>2, Sizes
      <4> QED
        BY <4>2, <4>3
    <3> QED
      BY <3>1, <3>2, <3>3, AnnounceOwing
  <2>2. CASE ~(was[a] /\ counter' # 0)
    <3>1. /\ mutex = None /\ Return(a)
          /\ UNCHANGED <<storage, nextId, sends, lame, state>>
      BY <1>28, <2>2 DEF Disconnect
    <3>2. \A x \in Actor : pc'[x] \notin FanOut
      BY <3>1 DEF Return, Goto
    <3> QED
      BY <3>1, <3>2, QuietOwing
  <2> QED
    BY <2>1, <2>2
<1>29. ASSUME NEW a \in Actor, NEW c \in todo[a], DisconnectVisit(a, c) PROVE Owing'
  BY <1>29, VisitOwing DEF DisconnectVisit
<1>30. ASSUME NEW a \in Actor, VisitEnd(a) PROVE Owing'
  BY <1>30, QuietOwing DEF VisitEnd, Return, Goto
<1>31. ASSUME NEW c \in Conn, WriteFailed(c) PROVE Owing'
  BY <1>31, QuietOwing DEF WriteFailed, Dispatch, Goto
<1> QED
  BY <1>0, <1>1, <1>2, <1>3, <1>4, <1>5, <1>6, <1>7, <1>8, <1>9, <1>10, <1>11, <1>12, <1>13,
     <1>14, <1>15, <1>16, <1>17, <1>18, <1>19, <1>20, <1>21, <1>22, <1>23, <1>24, <1>25, <1>26,
     <1>27, <1>28, <1>29, <1>30, <1>31
  DEF Next, SendCompletes, IoStep, HandlerStep, StopStep

\* A shared buffer stays in shared_storage_ until the last write of it is
\* through, for every buffer do_notify did not announce for a client that had
\* left or was among its own recipients.
THEOREM BuffersOutlive == Spec => []BuffersOutliveSends
<1>1. Init => Fresh /\ Owing
  BY DEF Init, Fresh, Owing, FanOut
<1>2. CounterInv /\ CounterInv' /\ Fresh /\ Owing /\ [Next]_vars => Fresh' /\ Owing'
  BY FreshStep, OwingStep DEF CounterInv
<1>3. CounterInv /\ Owing => BuffersOutliveSends
  <2> SUFFICES ASSUME CounterInv, Owing, NEW s \in sends, s[2] \notin lame
               PROVE  s[2] \in DOMAIN storage
    BY DEF BuffersOutliveSends
  <2>1. s[1] \in Conn /\ s[2] \in 1..nextId /\ s = <<s[1], s[2]>>
    BY DEF CounterInv, TypeInv, TypeOK
  <2>2. s[1] \in Owed(s[2])
    BY <2>1 DEF Owed
  <2>3. Cardinality(Owed(s[2])) >= 1
    BY <2>2, OwedFinite, Sizes
  <2>4. Expected(s[2]) >= 1
    BY <2>1, <2>3, OwedFinite, ExpectedNat DEF Owing, CounterInv
  <2> QED
    BY <2>4 DEF Expected
<1> QED
  BY <1>1, <1>2, <1>3, CounterInvariant, PTL DEF Spec
=============================================================================
