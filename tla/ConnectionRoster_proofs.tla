---------------------- MODULE ConnectionRoster_proofs ----------------------
(***************************************************************************)
(* Processing clients know of each other: RosterComplete, when every       *)
(* client has one account of its own.                                      *)
(***************************************************************************)
EXTENDS ConnectionManager_proofs

\* Every client has one account, and nobody else uses it.
OwnAccounts ==
  /\ \A c \in Conn : \A m, n \in Creds[c] : m = n
  /\ \A c, d \in Conn : c # d => Creds[c] \cap Creds[d] = {}

Own(c, n) == n \in Creds[c]

\* A client that has signed in keeps its nickname, and whoever works for it
\* goes by that nickname.
Accounts ==
  /\ \A c \in Conn : nick[c] = None \/ Own(c, nick[c])
  /\ \A c \in Conn : state[c] # "connected" => Own(c, nick[c])
  /\ \A r \in Request : pending[r] > 0 =>
       /\ r.cmd \in {"SIGNIN", "SIGNUP"} => Own(r.conn, r.login)
       /\ r.cmd = "PUSH_FILES" => Own(r.conn, nick[r.conn])
  /\ \A a \in Actor :
       /\ pc[a] \in {"check", "run"} /\ cmd[a] \in {"SIGNIN", "SIGNUP"} => Own(conn[a], name[a])
       /\ pc[a] \in {"isLogged", "insert", "setNick"} => Own(conn[a], name[a])
       /\ pc[a] \in {"check", "run"} /\ cmd[a] = "PUSH_FILES" => Own(conn[a], nick[conn[a]])
       /\ pc[a] = "setState" => Own(conn[a], nick[conn[a]])
       /\ pc[a] \in {"register", "fanReg"} => Own(conn[a], nick[conn[a]]) /\ Own(conn[a], name[a])
       /\ pc[a] \in {"disconnect", "fanDisc"} => name[a] = None \/ Own(conn[a], name[a])

\* A client whose departure is being announced is gone for good.
Gone == \A a \in Actor : pc[a] = "fanDisc" => conn[a] \in stopped \ connections

\* The processing clients know of each other, while somebody registers, too;
\* those the registration has visited know of the new one, and it of them.
Roster ==
  /\ \A c, d \in Processing : c # d => nick[d] \in known[c]
  /\ \A w \in Actor : pc[w] = "fanReg" =>
       \A c \in Processing \ todo[w] :
         c # conn[w] => name[w] \in known[c] /\ nick[c] \in known[conn[w]]

RosterInv == CounterInv /\ Accounts /\ Gone /\ Roster

-----------------------------------------------------------------------------
LEMMA AccountsStep == TypeInv /\ Accounts /\ [Next]_vars => Accounts'
<1> SUFFICES ASSUME TypeInv, Accounts, [Next]_vars PROVE Accounts'
  OBVIOUS
<1>a. /\ pc \in [Actor -> Location] /\ conn \in [Actor -> Conn \cup {None}]
      /\ cmd \in [Actor -> Commands \cup {None}] /\ name \in [Actor -> Nick \cup {None}]
      /\ state \in [Conn -> State] /\ nick \in [Conn -> Nick \cup {None}]
      /\ pending \in [Request -> Nat]
      /\ \A a \in Actor : pc[a] \notin {"idle", "crashed"} => conn[a] \in Conn
      /\ Worker \subseteq Actor /\ IO \in Actor /\ None \notin Commands
      /\ \A r \in Request : r.conn \in Conn /\ r.cmd \in Commands /\ r.login \in Nick \cup {None}
  BY CommandAssumption DEF TypeInv, TypeOK, Actor, Request
<1> USE <1>a DEF Accounts, clients, buffers, traffic, locals
<1>0. CASE UNCHANGED vars
  BY <1>0 DEF vars
<1>1. ASSUME NEW c \in Conn, Accept(c) PROVE Accounts'
  BY <1>1 DEF Accept
<1>2. ASSUME NEW c \in Conn, ReadDone(c) PROVE Accounts'
  BY <1>2 DEF ReadDone, Dispatch, Goto
<1>3. ASSUME NEW c \in Conn, ReadFailed(c) PROVE Accounts'
  BY <1>3 DEF ReadFailed, Dispatch, Goto
<1>4. ASSUME NEW c \in Conn, WriteFailed(c) PROVE Accounts'
  BY <1>4 DEF WriteFailed, Dispatch, Goto
<1>5. ASSUME NEW m \in Commands, NEW n \in Nick \cup {None}, ReadAction(m, n) PROVE Accounts'
  <2> DEFINE q == [conn |-> conn[IO], cmd |-> m, login |-> n]
  <2>1. /\ q \in Request /\ q.conn = conn[IO] /\ q.cmd = m /\ q.login = n
        /\ m \in {"SIGNIN", "SIGNUP"} => Own(conn[IO], n)
        /\ m = "PUSH_FILES" => state[conn[IO]] # "connected"
    BY <1>5 DEF ReadAction, WellFormed, Admits, Request, State, Own
  <2> HIDE DEF q
  <2>2. pending' = [pending EXCEPT ![q] = @ + 1]
    BY <1>5 DEF ReadAction, q
  <2>3. \A r \in Request : r # q => pending'[r] = pending[r]
    BY <2>1, <2>2
  <2>4. \A r \in Request : pending'[r] > 0 =>
          /\ r.cmd \in {"SIGNIN", "SIGNUP"} => Own(r.conn, r.login)
          /\ r.cmd = "PUSH_FILES" => Own(r.conn, nick[r.conn])
    BY <1>5, <2>1, <2>3 DEF ReadAction
  <2> QED
    BY <1>5, <2>4 DEF ReadAction
<1>6. ASSUME NEW s \in sends, SendDone(s[1], s[2]) PROVE Accounts'
  BY <1>6 DEF SendDone, Dispatch, Goto
<1>7. ASSUME NEW s \in sends, SendFailed(s[1], s[2]) PROVE Accounts'
  BY <1>7 DEF SendFailed, Dispatch, Goto
<1>8. ASSUME NEW s \in sends, SendDropped(s[1], s[2]) PROVE Accounts'
  BY <1>8 DEF SendDropped
<1>9. ASSUME ReadEnd PROVE Accounts'
  BY <1>9 DEF ReadEnd, Return, Goto
<1>10. ASSUME SharedWriteDone PROVE Accounts'
  BY <1>10 DEF SharedWriteDone, Return, Goto
<1>11. ASSUME IoFault PROVE Accounts'
  BY <1>11 DEF IoFault, Crash
<1>12. ASSUME NEW w \in Worker, NEW r \in Pending, Take(w, r) PROVE Accounts'
  BY <1>12 DEF Take, Goto, Pending
<1>13. ASSUME NEW w \in Worker, Lock(w) PROVE Accounts'
  BY <1>13 DEF Lock, Crash, Goto
<1>14. ASSUME NEW w \in Worker, Fail(w) PROVE Accounts'
  BY <1>14 DEF Fail, Return, Goto
<1>15. ASSUME NEW w \in Worker, SignIn(w) PROVE Accounts'
  BY <1>15 DEF SignIn, RetrieveUser, Proceed, Goto
<1>16. ASSUME NEW w \in Worker, IsLogged(w) PROVE Accounts'
  BY <1>16 DEF IsLogged, Return, Goto
<1>17. ASSUME NEW w \in Worker, SignUp(w) PROVE Accounts'
  BY <1>17 DEF SignUp, Proceed, Goto
<1>18. ASSUME NEW w \in Worker, Insert(w) PROVE Accounts'
  BY <1>18 DEF Insert, Proceed, Goto
<1>19. ASSUME NEW w \in Worker, SetNick(w) PROVE Accounts'
  BY <1>19 DEF SetNick, Goto
<1>20. ASSUME NEW w \in Worker, SetState(w) PROVE Accounts'
  BY <1>20 DEF SetState, Return, Goto
<1>21. ASSUME NEW w \in Worker, DeleteAccount(w) PROVE Accounts'
  BY <1>21 DEF DeleteAccount, EraseUser, Return, Goto
<1>22. ASSUME NEW w \in Worker, FilesChanged(w) PROVE Accounts'
  BY <1>22 DEF FilesChanged, Proceed, Goto
<1>23. ASSUME NEW w \in Worker, Register(w) PROVE Accounts'
  BY <1>23 DEF Register, Announce, Return, Goto
<1>24. ASSUME NEW w \in Worker, NEW c \in todo[w], RegisterVisit(w, c) PROVE Accounts'
  BY <1>24 DEF RegisterVisit
<1>25. ASSUME NEW w \in Worker, RegisterEnd(w) PROVE Accounts'
  BY <1>25 DEF RegisterEnd, Return, Goto
<1>26. ASSUME NEW w \in Worker, Notify(w) PROVE Accounts'
  BY <1>26 DEF Notify, Announce, Return, Goto
<1>27. ASSUME NEW w \in Worker, NEW c \in todo[w], NotifyVisit(w, c) PROVE Accounts'
  BY <1>27 DEF NotifyVisit
<1>28. ASSUME NEW a \in Actor, Stop(a) PROVE Accounts'
  BY <1>28 DEF Stop, Return, Goto
<1>29. ASSUME NEW a \in Actor, Disconnect(a) PROVE Accounts'
  BY <1>29 DEF Disconnect, Announce, Return, Goto
<1>30. ASSUME NEW a \in Actor, NEW c \in todo[a], DisconnectVisit(a, c) PROVE Accounts'
  BY <1>30 DEF DisconnectVisit
<1>31. ASSUME NEW a \in Actor, VisitEnd(a) PROVE Accounts'
  BY <1>31 DEF VisitEnd, Return, Goto
<1> QED
  BY <1>0, <1>1, <1>2, <1>3, <1>4, <1>5, <1>6, <1>7, <1>8, <1>9, <1>10, <1>11, <1>12, <1>13,
     <1>14, <1>15, <1>16, <1>17, <1>18, <1>19, <1>20, <1>21, <1>22, <1>23, <1>24, <1>25, <1>26,
     <1>27, <1>28, <1>29, <1>30, <1>31
  DEF Next, SendCompletes, IoStep, HandlerStep, StopStep

LEMMA GoneStep == TypeInv /\ Membership /\ Gone /\ [Next]_vars => Gone'
<1> SUFFICES ASSUME TypeInv, Membership, Gone, [Next]_vars PROVE Gone'
  OBVIOUS
<1>a. /\ pc \in [Actor -> Location] /\ conn \in [Actor -> Conn \cup {None}]
      /\ Worker \subseteq Actor /\ IO \in Actor
      /\ \A a \in Actor : pc[a] = "disconnect" => conn[a] \in connections \cap stopped
  BY DEF TypeInv, TypeOK, Actor, Membership
<1> USE <1>a DEF Gone, clients, buffers, traffic, locals
<1>0. CASE UNCHANGED vars
  BY <1>0 DEF vars
<1>1. ASSUME NEW c \in Conn, Accept(c) PROVE Gone'
  BY <1>1 DEF Accept
<1>2. ASSUME NEW c \in Conn, ReadDone(c) PROVE Gone'
  BY <1>2 DEF ReadDone, Dispatch, Goto
<1>3. ASSUME NEW c \in Conn, ReadFailed(c) PROVE Gone'
  BY <1>3 DEF ReadFailed, Dispatch, Goto
<1>4. ASSUME NEW c \in Conn, WriteFailed(c) PROVE Gone'
  BY <1>4 DEF WriteFailed, Dispatch, Goto
<1>5. ASSUME NEW m \in Commands, NEW n \in Nick \cup {None}, ReadAction(m, n) PROVE Gone'
  BY <1>5 DEF ReadAction
<1>6. ASSUME NEW s \in sends, SendDone(s[1], s[2]) PROVE Gone'
  BY <1>6 DEF SendDone, Dispatch, Goto
<1>7. ASSUME NEW s \in sends, SendFailed(s[1], s[2]) PROVE Gone'
  BY <1>7 DEF SendFailed, Dispatch, Goto
<1>8. ASSUME NEW s \in sends, SendDropped(s[1], s[2]) PROVE Gone'
  BY <1>8 DEF SendDropped
<1>9. ASSUME ReadEnd PROVE Gone'
  BY <1>9 DEF ReadEnd, Return, Goto
<1>10. ASSUME SharedWriteDone PROVE Gone'
  BY <1>10 DEF SharedWriteDone, Return, Goto
<1>11. ASSUME IoFault PROVE Gone'
  BY <1>11 DEF IoFault, Crash
<1>12. ASSUME NEW w \in Worker, NEW r \in Pending, Take(w, r) PROVE Gone'
  BY <1>12 DEF Take, Goto, Pending
<1>13. ASSUME NEW w \in Worker, Lock(w) PROVE Gone'
  BY <1>13 DEF Lock, Crash, Goto
<1>14. ASSUME NEW w \in Worker, Fail(w) PROVE Gone'
  BY <1>14 DEF Fail, Return, Goto
<1>15. ASSUME NEW w \in Worker, SignIn(w) PROVE Gone'
  BY <1>15 DEF SignIn, RetrieveUser, Proceed, Goto
<1>16. ASSUME NEW w \in Worker, IsLogged(w) PROVE Gone'
  BY <1>16 DEF IsLogged, Return, Goto
<1>17. ASSUME NEW w \in Worker, SignUp(w) PROVE Gone'
  BY <1>17 DEF SignUp, Proceed, Goto
<1>18. ASSUME NEW w \in Worker, Insert(w) PROVE Gone'
  BY <1>18 DEF Insert, Proceed, Goto
<1>19. ASSUME NEW w \in Worker, SetNick(w) PROVE Gone'
  BY <1>19 DEF SetNick, Goto
<1>20. ASSUME NEW w \in Worker, SetState(w) PROVE Gone'
  BY <1>20 DEF SetState, Return, Goto
<1>21. ASSUME NEW w \in Worker, DeleteAccount(w) PROVE Gone'
  BY <1>21 DEF DeleteAccount, EraseUser, Return, Goto
<1>22. ASSUME NEW w \in Worker, FilesChanged(w) PROVE Gone'
  BY <1>22 DEF FilesChanged, Proceed, Goto
<1>23. ASSUME NEW w \in Worker, Register(w) PROVE Gone'
  BY <1>23 DEF Register, Announce, Return, Goto
<1>24. ASSUME NEW w \in Worker, NEW c \in todo[w], RegisterVisit(w, c) PROVE Gone'
  BY <1>24 DEF RegisterVisit
<1>25. ASSUME NEW w \in Worker, RegisterEnd(w) PROVE Gone'
  BY <1>25 DEF RegisterEnd, Return, Goto
<1>26. ASSUME NEW w \in Worker, Notify(w) PROVE Gone'
  BY <1>26 DEF Notify, Announce, Return, Goto
<1>27. ASSUME NEW w \in Worker, NEW c \in todo[w], NotifyVisit(w, c) PROVE Gone'
  BY <1>27 DEF NotifyVisit
<1>28. ASSUME NEW a \in Actor, Stop(a) PROVE Gone'
  BY <1>28 DEF Stop, Return, Goto
<1>29. ASSUME NEW a \in Actor, Disconnect(a) PROVE Gone'
  BY <1>29 DEF Disconnect, Announce, Return, Goto
<1>30. ASSUME NEW a \in Actor, NEW c \in todo[a], DisconnectVisit(a, c) PROVE Gone'
  BY <1>30 DEF DisconnectVisit
<1>31. ASSUME NEW a \in Actor, VisitEnd(a) PROVE Gone'
  BY <1>31 DEF VisitEnd, Return, Goto
<1> QED
  BY <1>0, <1>1, <1>2, <1>3, <1>4, <1>5, <1>6, <1>7, <1>8, <1>9, <1>10, <1>11, <1>12, <1>13,
     <1>14, <1>15, <1>16, <1>17, <1>18, <1>19, <1>20, <1>21, <1>22, <1>23, <1>24, <1>25, <1>26,
     <1>27, <1>28, <1>29, <1>30, <1>31
  DEF Next, SendCompletes, IoStep, HandlerStep, StopStep

LEMMA RosterStep ==
  ASSUME OwnAccounts PROVE RosterInv /\ [Next]_vars => Roster'
<1> SUFFICES ASSUME RosterInv, [Next]_vars PROVE Roster'
  OBVIOUS
<1>a. /\ CounterInv /\ Accounts /\ Gone /\ Roster
      /\ pc \in [Actor -> Location] /\ conn \in [Actor -> Conn \cup {None}]
      /\ cmd \in [Actor -> Commands \cup {None}] /\ name \in [Actor -> Nick \cup {None}]
      /\ state \in [Conn -> State] /\ nick \in [Conn -> Nick \cup {None}]
      /\ known \in [Conn -> SUBSET (Nick \cup {None})] /\ todo \in [Actor -> SUBSET Conn]
      /\ connections \in SUBSET Conn
      /\ \A a \in Actor : pc[a] \notin {"idle", "crashed"} => conn[a] \in Conn
      /\ Worker \subseteq Actor /\ IO \in Actor
  BY DEF RosterInv, CounterInv, TypeInv, TypeOK, Actor
<1>b. /\ \A v, a \in Actor : pc[v] = "fanReg" /\ pc[a] \in FanOut => v = a
      /\ mutex = None => \A v \in Actor : pc[v] # "fanReg"
      /\ FanOut = {"fanReg", "fanNote", "fanDisc"}
  BY <1>a, ActorAssumption DEF CounterInv, TypeInv, TypeOK, FanOut
<1> USE <1>a DEF Roster, Processing, clients, buffers, traffic, locals
<1>0. CASE UNCHANGED vars
  BY <1>0 DEF vars
<1>1. ASSUME NEW c \in Conn, Accept(c) PROVE Roster'
  <2>1. Processing' = Processing
    BY <1>1 DEF Accept, Processing, CounterInv, Membership, Counted
  <2> QED
    BY <1>1, <2>1 DEF Accept
<1>2. ASSUME NEW c \in Conn, ReadDone(c) PROVE Roster'
  BY <1>2 DEF ReadDone, Dispatch, Goto
<1>3. ASSUME NEW c \in Conn, ReadFailed(c) PROVE Roster'
  BY <1>3 DEF ReadFailed, Dispatch, Goto
<1>4. ASSUME NEW c \in Conn, WriteFailed(c) PROVE Roster'
  BY <1>4 DEF WriteFailed, Dispatch, Goto
<1>5. ASSUME NEW m \in Commands, NEW n \in Nick \cup {None}, ReadAction(m, n) PROVE Roster'
  BY <1>5 DEF ReadAction
<1>6. ASSUME NEW s \in sends, SendDone(s[1], s[2]) PROVE Roster'
  BY <1>6 DEF SendDone, Dispatch, Goto
<1>7. ASSUME NEW s \in sends, SendFailed(s[1], s[2]) PROVE Roster'
  BY <1>7 DEF SendFailed, Dispatch, Goto
<1>8. ASSUME NEW s \in sends, SendDropped(s[1], s[2]) PROVE Roster'
  BY <1>8 DEF SendDropped
<1>9. ASSUME ReadEnd PROVE Roster'
  BY <1>9 DEF ReadEnd, Return, Goto
<1>10. ASSUME SharedWriteDone PROVE Roster'
  BY <1>10 DEF SharedWriteDone, Return, Goto
<1>11. ASSUME IoFault PROVE Roster'
  BY <1>11 DEF IoFault, Crash
<1>12. ASSUME NEW w \in Worker, NEW r \in Pending, Take(w, r) PROVE Roster'
  BY <1>12 DEF Take, Goto, Pending
<1>13. ASSUME NEW w \in Worker, Lock(w) PROVE Roster'
  BY <1>13 DEF Lock, Crash, Goto
<1>14. ASSUME NEW w \in Worker, Fail(w) PROVE Roster'
  BY <1>14 DEF Fail, Return, Goto
<1>15. ASSUME NEW w \in Worker, SignIn(w) PROVE Roster'
  BY <1>15 DEF SignIn, RetrieveUser, Proceed, Goto
<1>16. ASSUME NEW w \in Worker, IsLogged(w) PROVE Roster'
  BY <1>16 DEF IsLogged, Return, Goto
<1>17. ASSUME NEW w \in Worker, SignUp(w) PROVE Roster'
  BY <1>17 DEF SignUp, Proceed, Goto
<1>18. ASSUME NEW w \in Worker, Insert(w) PROVE Roster'
  BY <1>18 DEF Insert, Proceed, Goto
<1>19. ASSUME NEW w \in Worker, SetNick(w) PROVE Roster'
  <2>1. \A c \in Processing : nick'[c] = nick[c]
    <3> TAKE c \in Processing
    <3>1. CASE c = conn[w]
      <4>1. Own(c, nick[c]) /\ Own(c, name[w]) /\ c \in Conn
        BY <1>19, <3>1 DEF SetNick, Accounts, Processing
      <4>2. nick[c] = name[w]
        BY <4>1 DEF Own, OwnAccounts
      <4> QED
        BY <1>19, <3>1, <4>1, <4>2 DEF SetNick
    <3> QED
      BY <1>19, <3>1 DEF SetNick, Processing
  <2>2. Processing' = Processing
    BY <1>19 DEF SetNick, Processing
  <2> QED
    BY <1>19, <2>1, <2>2 DEF SetNick, Goto
<1>20. ASSUME NEW w \in Worker, SetState(w) PROVE Roster'
  <2>1. Processing' \subseteq Processing
    BY <1>20 DEF SetState, Processing
  <2> QED
    BY <1>20, <2>1 DEF SetState, Return, Goto
<1>21. ASSUME NEW w \in Worker, DeleteAccount(w) PROVE Roster'
  BY <1>21 DEF DeleteAccount, EraseUser, Return, Goto
<1>22. ASSUME NEW w \in Worker, FilesChanged(w) PROVE Roster'
  BY <1>22 DEF FilesChanged, Proceed, Goto
<1>23. ASSUME NEW w \in Worker, Register(w) PROVE Roster'
  <2>0. /\ pc[w] = "register" /\ mutex = None /\ conn[w] \in Conn
        /\ UNCHANGED <<connections, nick, known>>
    BY <1>23 DEF Register
  <2>1. CASE counter = 0
    <3>1. Processing = {}
      <4>1. IsFiniteSet(Processing) /\ Cardinality(Processing) \in Nat /\ counter >= Cardinality(Processing)
        BY CoversProcessing
      <4>2. Cardinality(Processing) = 0
        BY <2>1, <4>1
      <4> QED
        BY <4>1, <4>2, FS_EmptySet
    <3>2. /\ state' = [state EXCEPT ![conn[w]] = "processing"] /\ pc' = [pc EXCEPT ![w] = "idle"]
      BY <1>23, <2>1 DEF Register, Return, Goto
    <3>3. Processing' \subseteq {conn[w]}
      BY <2>0, <3>1, <3>2 DEF Processing
    <3> QED
      BY <2>0, <3>2, <3>3, <1>b
  <2>2. CASE counter # 0
    <3>1. /\ state' = state /\ todo' = [todo EXCEPT ![w] = connections] /\ pc' = [pc EXCEPT ![w] = "fanReg"]
          /\ conn' = conn /\ name' = name
      BY <1>23, <2>2 DEF Register, Announce, Goto
    <3>2. Processing' = Processing /\ Processing \subseteq connections
      BY <2>0, <3>1 DEF Processing
    <3>3. \A v \in Actor : pc'[v] = "fanReg" => v = w
      BY <2>0, <3>1, <1>b
    <3>4. todo'[w] = connections
      BY <3>1
    <3> QED
      BY <2>0, <3>2, <3>3, <3>4
  <2> QED
    BY <2>1, <2>2
<1>24. ASSUME NEW w \in Worker, NEW c \in todo[w], RegisterVisit(w, c) PROVE Roster'
  <2>0. /\ pc[w] = "fanReg" /\ c \in Conn /\ conn[w] \in Conn
        /\ \A v \in Actor : pc[v] = "fanReg" => v = w
        /\ todo' = [todo EXCEPT ![w] = @ \ {c}] /\ UNCHANGED <<connections, nick, state, pc, conn, name>>
    BY <1>24, <1>b DEF RegisterVisit
  <2>1. Processing' = Processing
    BY <2>0 DEF Processing
  <2>2. \A d \in Conn : known[d] \subseteq known'[d]
    BY <1>24 DEF RegisterVisit
  <2>3. ASSUME c \in Processing PROVE name[w] \in known'[c] /\ nick[c] \in known'[conn[w]]
    BY <1>24, <2>0, <2>3 DEF RegisterVisit, Processing
  <2>4. Processing \subseteq Conn
    BY DEF Processing
  <2>5. \A d \in Processing' \ todo'[w] : d = c \/ d \in Processing \ todo[w]
    BY <2>0, <2>1
  <2>6. \A d \in Processing' \ todo'[w] :
          d # conn[w] => name[w] \in known'[d] /\ nick[d] \in known'[conn[w]]
    <3> TAKE d \in Processing' \ todo'[w]
    <3>1. CASE d = c
      BY <2>1, <2>3, <3>1
    <3>2. CASE d \in Processing \ todo[w]
      BY <2>0, <2>2, <2>4, <3>2
    <3> QED
      BY <2>5, <3>1, <3>2
  <2>7. \A d, e \in Processing' : d # e => nick'[e] \in known'[d]
    BY <2>0, <2>1, <2>2, <2>4
  <2> QED
    BY <2>0, <2>6, <2>7
<1>25. ASSUME NEW w \in Worker, RegisterEnd(w) PROVE Roster'
  <2>0. /\ pc[w] = "fanReg" /\ todo[w] = {} /\ conn[w] \in Conn
        /\ state' = [state EXCEPT ![conn[w]] = "processing"] /\ pc' = [pc EXCEPT ![w] = "idle"]
        /\ UNCHANGED <<connections, nick, known>>
    BY <1>25 DEF RegisterEnd, Return, Goto
  <2>1. Processing' \subseteq Processing \cup {conn[w]}
    BY <2>0 DEF Processing
  <2>2. name[w] = nick[conn[w]]
    BY <2>0 DEF Accounts, Own, OwnAccounts
  <2>3. \A c \in Processing : c # conn[w] => name[w] \in known[c] /\ nick[c] \in known[conn[w]]
    BY <2>0
  <2>4. \A v \in Actor : pc'[v] # "fanReg"
    BY <2>0, <1>b
  <2>5. \A c, d \in Processing' : c # d => nick'[d] \in known'[c]
    BY <2>0, <2>1, <2>2, <2>3
  <2> QED
    BY <2>4, <2>5
<1>26. ASSUME NEW w \in Worker, Notify(w) PROVE Roster'
  BY <1>26 DEF Notify, Announce, Return, Goto
<1>27. ASSUME NEW w \in Worker, NEW c \in todo[w], NotifyVisit(w, c) PROVE Roster'
  BY <1>27 DEF NotifyVisit
<1>28. ASSUME NEW a \in Actor, Stop(a) PROVE Roster'
  BY <1>28 DEF Stop, Return, Goto
<1>29. ASSUME NEW a \in Actor, Disconnect(a) PROVE Roster'
  <2>1. /\ mutex = None /\ connections' = connections \ {conn[a]}
        /\ UNCHANGED <<nick, state, known>>
        /\ \E l \in {"idle", "fanDisc"} : pc' = [pc EXCEPT ![a] = l]
    BY <1>29 DEF Disconnect, Announce, Return, Goto
  <2>2. Processing' \subseteq Processing
    BY <2>1 DEF Processing
  <2>3. \A v \in Actor : pc'[v] # "fanReg"
    BY <2>1, <1>b
  <2> QED
    BY <2>1, <2>2, <2>3
<1>30. ASSUME NEW a \in Actor, NEW c \in todo[a], DisconnectVisit(a, c) PROVE Roster'
  <2>0. /\ pc[a] = "fanDisc" /\ c \in Conn /\ conn[a] \notin connections /\ conn[a] \in Conn
        /\ UNCHANGED <<connections, nick, state, pc>>
        /\ known' = known \/ known' = [known EXCEPT ![c] = @ \ {name[a]}]
    BY <1>30 DEF DisconnectVisit, Gone
  <2>1. Processing' = Processing /\ Processing \subseteq connections /\ Processing \subseteq Conn
    BY <2>0 DEF Processing
  <2>2. \A d \in Processing : nick[d] # name[a]
    <3> TAKE d \in Processing
    <3>1. Own(d, nick[d]) /\ d # conn[a] /\ d \in Conn
      BY <2>0, <2>1 DEF Processing, Accounts
    <3>2. name[a] = None \/ Own(conn[a], name[a])
      BY <2>0 DEF Accounts
    <3>3. nick[d] # None
      BY <3>1, NickAssumption DEF Own
    <3> QED
      BY <2>0, <3>1, <3>2, <3>3 DEF Own, OwnAccounts
  <2>3. \A d, e \in Processing' : d # e => nick'[e] \in known'[d]
    BY <2>0, <2>1, <2>2
  <2>4. \A v \in Actor : pc'[v] # "fanReg"
    BY <2>0, <1>b
  <2> QED
    BY <2>3, <2>4
<1>31. ASSUME NEW a \in Actor, VisitEnd(a) PROVE Roster'
  BY <1>31 DEF VisitEnd, Return, Goto
<1> QED
  BY <1>0, <1>1, <1>2, <1>3, <1>4, <1>5, <1>6, <1>7, <1>8, <1>9, <1>10, <1>11, <1>12, <1>13,
     <1>14, <1>15, <1>16, <1>17, <1>18, <1>19, <1>20, <1>21, <1>22, <1>23, <1>24, <1>25, <1>26,
     <1>27, <1>28, <1>29, <1>30, <1>31
  DEF Next, SendCompletes, IoStep, HandlerStep, StopStep

\* Two registered processing clients have been told of each other whenever no
\* loop over connections_ is under way, if every client has an account of its
\* own: notify_files_registration leaves nobody out, however registrations,
\* sign-ins and disconnections interleave.
THEOREM RosterIsComplete ==
  ASSUME OwnAccounts PROVE Spec => []RosterComplete
<1>1. Init => Accounts /\ Gone /\ Roster
  BY DEF Init, Accounts, Gone, Roster, Processing
<1>2. CounterInv /\ Accounts /\ Gone /\ Roster /\ [Next]_vars => Accounts' /\ Gone' /\ Roster'
  BY AccountsStep, GoneStep, RosterStep DEF RosterInv, CounterInv
<1>3. Roster => RosterComplete
  BY DEF Roster, RosterComplete
<1> QED
  BY <1>1, <1>2, <1>3, CounterInvariant, PTL DEF Spec
=============================================================================
