------------------------- MODULE ConnectionManager -------------------------
(***************************************************************************)
(* connection, connection_manager and server_side_handler: the life of a   *)
(* client session and the broadcast of notifications through the shared    *)
(* buffers.                                                                *)
(*                                                                         *)
(* Actors: the io thread (accepting, read and write completions) and the   *)
(* scheduler's threads (the do_* handlers).  A step is a stretch of code   *)
(* with at most one access to state another actor may change; a critical   *)
(* section of mutex_ that loops over connections_ is one step per          *)
(* iteration with mutex_ held, because atomics and shared_storage_ are     *)
(* also touched by actors that do not hold it.                             *)
(*                                                                         *)
(* Ghost variables (no code reads them): counted, lame, known.             *)
(***************************************************************************)
EXTENDS Integers, FiniteSets

CONSTANTS
  Conn,         \* TCP connections, each accepted at most once
  Worker,       \* threads of the request scheduler
  IO,           \* the io thread
  Nick,         \* nicknames (accounts)
  Creds,        \* Creds[c]: the nicknames the client behind c may sign in with
  Commands,     \* the requests clients send
  None,         \* no connection, no nickname, no command, no mutex holder
  MaxRequests,  \* bound on the number of requests clients send
  CounterMax,   \* largest value of counter_t
  Asserts       \* assert() is compiled in (the Debug build; Release defines NDEBUG)

Actor == Worker \cup {IO}
AllCommands == {"SIGNIN", "SIGNUP", "PUSH_FILES", "ADD_FILE", "REMOVE_PATH",
                "RENAME_PATH", "DELETE_ACCOUNT", "LOGOUT"}

ASSUME ConnAssumption == IsFiniteSet(Conn) /\ None \notin Conn
ASSUME ActorAssumption == IO \notin Worker /\ None \notin Actor
ASSUME NickAssumption == None \notin Nick /\ Creds \in [Conn -> SUBSET Nick]
ASSUME CommandAssumption == Commands \subseteq AllCommands /\ None \notin AllCommands
ASSUME BuildAssumption == Asserts \in BOOLEAN
\* counter_t is 64 bits wide: no run of the server counts that far up.
ASSUME CounterAssumption == MaxRequests \in Nat /\ CounterMax \in Nat /\ MaxRequests < CounterMax

VARIABLES
  connections,    \* connections_
  state,          \* client::state_ of each connection
  nick,           \* client::nickname_, None while empty
  stopped,        \* connections whose stopped_ flag is set
  reading,        \* connections with a read in flight on an open socket
  counter,        \* processing_counter_
  storage,        \* shared_storage_: buffer id |-> writes still expected
  nextId,         \* SharedStorageIDCounter
  sends,          \* shared writes in flight: <<connection, buffer id>>
  mutex,          \* holder of mutex_, or None
  users,          \* accounts in the users database
  pending,        \* request |-> how often it is queued in the scheduler
  posted,         \* number of requests posted so far
  pc, conn, cmd,  \* per actor: where it is, for which connection, which request
  name,           \* per actor: the nickname it read or was given
  was,            \* per actor: notify_disconnection's snapshot "was processing"
  buf, todo,      \* per actor: buffer being announced, connections still to visit
  counted,        \* ghost: connections that incremented the counter
  lame,           \* ghost: buffers do_notify announced for a notifier it wrongly counted
  known           \* ghost: nicknames the messages queued to a client tell it of

clients == <<state, nick, reading>>
buffers == <<storage, nextId, sends, lame, known>>
traffic == <<pending, posted, users>>
locals == <<conn, cmd, name, was, buf, todo>>
vars == <<connections, clients, stopped, counter, buffers, mutex, traffic,
          pc, locals, counted>>

State == {"connected", "logged", "processing"}
Request == [conn : Conn, cmd : Commands, login : Nick \cup {None}]

\* "idle"      "check": expired() said the connection lives, lock() is next
\* "run"       the handler's body        "isLogged", "insert", "setNick", "setState": sign in/up
\* "register"  notify_files_registration "notify": notify_file_add and its siblings
\* "read"      io: read completion past its expired() check   "sent": same, shared write
\* "stop"      connection::stop          "disconnect": notify_disconnection
\* "crashed"   the process died
\* "fanReg", "fanNote", "fanDisc": the loops over connections_ inside mutex_
FanOut == {"fanReg", "fanNote", "fanDisc"}
Location == {"idle", "check", "run", "isLogged", "insert", "setNick", "setState", "register",
             "notify", "read", "sent", "stop", "disconnect", "crashed"} \cup FanOut

-----------------------------------------------------------------------------
(* Helpers *)

\* Unsigned decrement.
Dec(n) == IF n = 0 THEN CounterMax ELSE n - 1

Put(f, x, v) == [y \in DOMAIN f \cup {x} |-> IF y = x THEN v ELSE f[y]]
Drop(f, x) == [y \in DOMAIN f \ {x} |-> f[y]]

\* Actors owning a shared_ptr to their connection.
Holds(a) == IF a = IO THEN pc[a] \in {"disconnect", "fanDisc"} ELSE pc[a] \notin {"idle", "check", "crashed"}
\* weak_ptr::expired() is false: connections_ or some actor still owns c.
Alive(c) == c \in connections \/ \E a \in Actor : conn[a] = c /\ Holds(a)

Crashed == pc[IO] = "crashed"
Processing == {c \in connections : state[c] = "processing"}

Goto(a, l) == pc' = [pc EXCEPT ![a] = l]

\* The handler returns; its locals are gone.
Return(a) ==
  /\ Goto(a, "idle")
  /\ conn' = [conn EXCEPT ![a] = None]
  /\ cmd' = [cmd EXCEPT ![a] = None]
  /\ name' = [name EXCEPT ![a] = None]
  /\ was' = [was EXCEPT ![a] = FALSE]
  /\ buf' = [buf EXCEPT ![a] = 0]
  /\ todo' = [todo EXCEPT ![a] = {}]

\* Undefined behaviour ends the process: no actor takes another step.
Crash ==
  /\ pc' = [a \in Actor |-> "crashed"]
  /\ conn' = [a \in Actor |-> None]
  /\ cmd' = [a \in Actor |-> None]
  /\ name' = [a \in Actor |-> None]
  /\ was' = [a \in Actor |-> FALSE]
  /\ buf' = [a \in Actor |-> 0]
  /\ todo' = [a \in Actor |-> {}]
  /\ mutex' = None
  /\ UNCHANGED <<connections, clients, stopped, counter, buffers, traffic, counted>>

\* transition_validator: the commands each client state admits (ADD_FILE,
\* REMOVE_PATH and RENAME_PATH are QUERRY requests).
Admits(s, m) ==
  CASE s = "connected"  -> m \in {"SIGNIN", "SIGNUP"}
    [] s = "logged"     -> m \in {"PUSH_FILES", "DELETE_ACCOUNT", "LOGOUT"}
    [] s = "processing" -> m \in {"DELETE_ACCOUNT", "LOGOUT", "ADD_FILE", "REMOVE_PATH", "RENAME_PATH"}

\* semantic_validator: requests to sign in or up name an account (c's client knows
\* the password of those in Creds[c]); what the others must carry plays no part here.
WellFormed(c, m, n) ==
  IF m \in {"SIGNIN", "SIGNUP"} THEN n \in Creds[c] ELSE n = None

\* The users database: retrieve_user finds the account; erase_user deletes it.
RetrieveUser(n) == n \in users
EraseUser(n) == users' = users \ {n}

\* The priority handle_message and resolve_querry post each request with.
Priority(m) ==
  CASE m = "LOGOUT" -> 4
    [] m \in {"SIGNIN", "SIGNUP", "REMOVE_PATH", "RENAME_PATH"} -> 3
    [] m \in {"PUSH_FILES", "ADD_FILE"} -> 2
    [] m = "DELETE_ACCOUNT" -> 1

-----------------------------------------------------------------------------
Init ==
  /\ connections = {} /\ stopped = {} /\ reading = {}
  /\ state = [c \in Conn |-> "connected"] /\ nick = [c \in Conn |-> None]
  /\ counter = 0 /\ counted = {}
  /\ storage = [b \in {} |-> 0] /\ nextId = 0 /\ sends = {} /\ lame = {}
  /\ known = [c \in Conn |-> {}]
  /\ mutex = None
  /\ users \in SUBSET Nick
  /\ pending = [r \in Request |-> 0] /\ posted = 0
  /\ pc = [a \in Actor |-> "idle"]
  /\ conn = [a \in Actor |-> None]
  /\ cmd = [a \in Actor |-> None]
  /\ name = [a \in Actor |-> None]
  /\ was = [a \in Actor |-> FALSE]
  /\ buf = [a \in Actor |-> 0]
  /\ todo = [a \in Actor |-> {}]

-----------------------------------------------------------------------------
(* The io thread *)

\* do_accept's handler and connection_manager::start.
Accept(c) ==
  /\ pc[IO] = "idle" /\ mutex = None
  /\ c \notin connections \cup stopped
  /\ connections' = connections \cup {c}
  /\ reading' = reading \cup {c}
  /\ UNCHANGED <<state, nick, stopped, counter, buffers, mutex, traffic, pc, locals, counted>>

\* A completion handler of c passes its expired() check and goes on with a raw
\* this: a read with data, a shared write that is through, or any failed one.
Dispatch(c, l) ==
  /\ pc[IO] = "idle" /\ Alive(c)
  /\ Goto(IO, l)
  /\ conn' = [conn EXCEPT ![IO] = c]
  /\ UNCHANGED <<connections, state, nick, stopped, counter, storage, nextId, lame, known, mutex,
                 traffic, cmd, name, was, todo, counted>>

ReadDone(c) ==
  /\ c \in reading
  /\ Dispatch(c, "read")
  /\ reading' = reading \ {c}
  /\ UNCHANGED <<sends, buf>>

ReadFailed(c) ==
  /\ c \in reading
  /\ Dispatch(c, "stop")
  /\ reading' = reading \ {c}
  /\ UNCHANGED <<sends, buf>>

\* A reply or another unshared write fails; the read stays in flight.
WriteFailed(c) ==
  /\ Dispatch(c, "stop")
  /\ UNCHANGED <<reading, sends, buf>>

SendDone(c, b) ==
  /\ <<c, b>> \in sends
  /\ Dispatch(c, "sent")
  /\ buf' = [buf EXCEPT ![IO] = b]
  /\ UNCHANGED <<reading, sends>>

SendFailed(c, b) ==
  /\ <<c, b>> \in sends
  /\ Dispatch(c, "stop")
  /\ sends' = sends \ {<<c, b>>}
  /\ UNCHANGED <<reading, buf>>

\* The completion of a write whose connection is gone does nothing.
SendDropped(c, b) ==
  /\ pc[IO] = "idle" /\ <<c, b>> \in sends /\ ~Alive(c)
  /\ sends' = sends \ {<<c, b>>}
  /\ UNCHANGED <<connections, clients, stopped, counter, storage, nextId, lame, known, mutex,
                 traffic, pc, locals, counted>>

\* read_action on a request the validators let through: confirm it and post it.
\* The read buffer may hold further messages.  posted < MaxRequests bounds the model.
ReadAction(m, n) ==
  LET c == conn[IO] IN
  /\ pc[IO] = "read" /\ Alive(c)
  /\ posted < MaxRequests
  /\ Admits(state[c], m) /\ WellFormed(c, m, n)
  /\ pending' = [pending EXCEPT ![[conn |-> c, cmd |-> m, login |-> n]] = @ + 1]
  /\ posted' = posted + 1
  /\ UNCHANGED <<connections, clients, stopped, counter, buffers, mutex, users,
                 pc, locals, counted>>

\* The read buffer is used up (rejected messages, heartbeats and download
\* replies change nothing here): the handler starts the next read.  On a closed
\* socket that one can only fail, and its stop() finds the flag already set.
ReadEnd ==
  /\ pc[IO] = "read"
  /\ reading' = reading \cup ({conn[IO]} \ stopped)
  /\ Return(IO)
  /\ UNCHANGED <<connections, state, nick, stopped, counter, buffers, mutex, traffic, counted>>

\* async_shared_write's handler and notify_shared_write_done, which takes no
\* mutex: operator[] creates a missing entry with count 0.  The erase() is the
\* argument of an assert, so only a build with assertions performs it.
SharedWriteDone ==
  LET b == buf[IO]
      n == Dec(IF b \in DOMAIN storage THEN storage[b] ELSE 0)
  IN
  /\ pc[IO] = "sent"
  /\ storage' = IF n = 0 /\ Asserts THEN Drop(storage, b) ELSE Put(storage, b, n)
  /\ sends' = sends \ {<<conn[IO], b>>}
  /\ Return(IO)
  /\ UNCHANGED <<connections, clients, stopped, counter, nextId, lame, known, mutex, traffic,
                 counted>>

\* The io thread runs a handler of a connection destroyed after the expired()
\* check, or works on shared_storage_ while a mutex holder does: the process may
\* die; otherwise the other actions say what happens.
IoFault ==
  /\ \/ pc[IO] \in {"read", "sent", "stop"} /\ ~Alive(conn[IO])
     \/ pc[IO] = "sent" /\ mutex # None
  /\ Crash

-----------------------------------------------------------------------------
(* The scheduler's threads *)

Pending == {r \in Request : pending[r] > 0}

\* run() pops a request of the highest priority; the handler begins with its
\* expired() check.
Take(w, r) ==
  /\ pc[w] = "idle" /\ r \in Pending
  /\ \A q \in Pending : Priority(q.cmd) <= Priority(r.cmd)
  /\ pending' = [pending EXCEPT ![r] = @ - 1]
  /\ IF Alive(r.conn)
     THEN /\ Goto(w, "check")
          /\ conn' = [conn EXCEPT ![w] = r.conn]
          /\ cmd' = [cmd EXCEPT ![w] = r.cmd]
          /\ name' = [name EXCEPT ![w] = r.login]
          /\ UNCHANGED <<was, buf, todo>>
     ELSE UNCHANGED <<pc, locals>>
  /\ UNCHANGED <<connections, clients, stopped, counter, buffers, mutex, posted, users, counted>>

\* weak_ptr::lock(): the connection may have gone since the check, and the
\* handlers use the null pointer.
Lock(w) ==
  /\ pc[w] = "check"
  /\ IF Alive(conn[w])
     THEN /\ Goto(w, IF cmd[w] = "LOGOUT" THEN "stop" ELSE "run")
          /\ UNCHANGED <<connections, clients, stopped, counter, buffers, mutex, traffic,
                         locals, counted>>
     ELSE Crash

\* A handler that only replies: wrong credentials, failed file operation,
\* internal error.
Fail(w) ==
  /\ pc[w] \in {"run", "insert"}
  /\ Return(w)
  /\ UNCHANGED <<connections, clients, stopped, counter, buffers, mutex, traffic, counted>>

\* The handler's body goes on to location l having learnt the nickname n.
Proceed(w, l, n) ==
  /\ Goto(w, l)
  /\ name' = [name EXCEPT ![w] = n]
  /\ UNCHANGED <<connections, clients, stopped, counter, buffers, mutex, pending, posted,
                 conn, cmd, was, buf, todo, counted>>

\* do_signin: retrieve_user accepted the credentials.
SignIn(w) ==
  /\ pc[w] = "run" /\ cmd[w] = "SIGNIN"
  /\ RetrieveUser(name[w])
  /\ Proceed(w, "isLogged", name[w])
  /\ UNCHANGED users

\* connection_manager::isLogged.
IsLogged(w) ==
  /\ pc[w] = "isLogged" /\ mutex = None
  /\ IF \E c \in connections : nick[c] = name[w] THEN Return(w)
     ELSE Goto(w, "setNick") /\ UNCHANGED locals
  /\ UNCHANGED <<connections, clients, stopped, counter, buffers, mutex, traffic, counted>>

\* do_signup: register_user's select finds no such nickname ...
SignUp(w) ==
  /\ pc[w] = "run" /\ cmd[w] = "SIGNUP"
  /\ name[w] \notin users
  /\ Proceed(w, "insert", name[w])
  /\ UNCHANGED users

\* ... and its insert succeeds.  Nothing makes the two one transaction, and the
\* table's constraints are not in the repository: a nickname inserted meanwhile
\* may be accepted again, or refused (Fail).
Insert(w) ==
  /\ pc[w] = "insert"
  /\ users' = users \cup {name[w]}
  /\ Proceed(w, "setNick", name[w])

SetNick(w) ==
  /\ pc[w] = "setNick"
  /\ nick' = [nick EXCEPT ![conn[w]] = name[w]]
  /\ Goto(w, "setState")
  /\ UNCHANGED <<connections, state, reading, stopped, counter, buffers, mutex, traffic, locals, counted>>

SetState(w) ==
  /\ pc[w] = "setState"
  /\ state' = [state EXCEPT ![conn[w]] = "logged"]
  /\ Return(w)
  /\ UNCHANGED <<connections, nick, reading, stopped, counter, buffers, mutex, traffic, counted>>

\* do_delete_account: erase_user, and nothing else changes.
DeleteAccount(w) ==
  /\ pc[w] = "run" /\ cmd[w] = "DELETE_ACCOUNT"
  /\ EraseUser(nick[conn[w]])
  /\ Return(w)
  /\ UNCHANGED <<connections, clients, stopped, counter, buffers, mutex, pending, posted, counted>>

\* do_push_files and the three file operations, once the file tree is changed;
\* the notification text takes the nickname of this moment.
FilesChanged(w) ==
  /\ pc[w] = "run"
  /\ cmd[w] \in {"PUSH_FILES", "ADD_FILE", "REMOVE_PATH", "RENAME_PATH"}
  /\ Proceed(w, IF cmd[w] = "PUSH_FILES" THEN "register" ELSE "notify", nick[conn[w]])
  /\ UNCHANGED users

AnnounceUnlocked(a, n, S, l) ==
  /\ nextId' = nextId + 1
  /\ storage' = Put(storage, nextId + 1, n)
  /\ buf' = [buf EXCEPT ![a] = nextId + 1]
  /\ todo' = [todo EXCEPT ![a] = S]
  /\ mutex' = mutex
  /\ Goto(a, l)

\* Put a buffer expecting n writes into shared_storage_ and start to visit S,
\* mutex_ held.
Announce(a, n, S, l) ==
  /\ nextId' = nextId + 1
  /\ storage' = Put(storage, nextId + 1, n)
  /\ buf' = [buf EXCEPT ![a] = nextId + 1]
  /\ todo' = [todo EXCEPT ![a] = S]
  /\ mutex' = a
  /\ Goto(a, l)

RegisterCountsItself(w) ==
  LET c == conn[w] IN
  /\ pc[w] = "register" /\ mutex = None
  /\ counter' = counter + 1
  /\ counted' = counted \cup {c}
  /\ IF counter = 0
     THEN /\ state' = [state EXCEPT ![c] = "processing"]
          /\ Return(w)
          /\ UNCHANGED <<storage, nextId, mutex>>
     ELSE /\ Announce(w, counter', connections, "fanReg")
          /\ UNCHANGED <<state, conn, cmd, name, was>>
  /\ UNCHANGED <<connections, nick, reading, stopped, sends, lame, known, traffic>>

RegisterFirstTwo(w) ==
  LET c == conn[w] IN
  /\ pc[w] = "register" /\ mutex = None
  /\ counter' = counter + 1
  /\ counted' = counted \cup {c}
  /\ IF counter <= 1
     THEN /\ state' = [state EXCEPT ![c] = "processing"]
          /\ Return(w)
          /\ UNCHANGED <<storage, nextId, mutex>>
     ELSE /\ Announce(w, counter, connections, "fanReg")
          /\ UNCHANGED <<state, conn, cmd, name, was>>
  /\ UNCHANGED <<connections, nick, reading, stopped, sends, lame, known, traffic>>

\* notify_files_registration up to its loop.  The first processing client has
\* nobody to tell.
Register(w) ==
  LET c == conn[w] IN
  /\ pc[w] = "register" /\ mutex = None
  /\ counter' = counter + 1
  /\ counted' = counted \cup {c}
  /\ IF counter = 0
     THEN /\ state' = [state EXCEPT ![c] = "processing"]
          /\ Return(w)
          /\ UNCHANGED <<storage, nextId, mutex>>
     ELSE /\ Announce(w, counter, connections, "fanReg")
          /\ UNCHANGED <<state, conn, cmd, name, was>>
  /\ UNCHANGED <<connections, nick, reading, stopped, sends, lame, known, traffic>>

\* One iteration of its loop: tell a processing client of the new one and
\* collect its files for the new one.
RegisterVisit(w, c) ==
  /\ pc[w] = "fanReg" /\ c \in todo[w]
  /\ todo' = [todo EXCEPT ![w] = @ \ {c}]
  /\ IF state[c] = "processing"
     THEN /\ sends' = sends \cup {<<c, buf[w]>>}
          /\ known' = [d \in Conn |-> known[d]
                         \cup (IF d = c THEN {name[w]} ELSE {})
                         \cup (IF d = conn[w] THEN {nick[c]} ELSE {})]
     ELSE UNCHANGED <<sends, known>>
  /\ UNCHANGED <<connections, clients, stopped, counter, storage, nextId, lame, mutex, traffic,
                 pc, conn, cmd, name, was, buf, counted>>

\* FILES_OF_OTHER_USERS is sent, the client is processing, mutex_ is released.
RegisterEnd(w) ==
  /\ pc[w] = "fanReg" /\ todo[w] = {}
  /\ state' = [state EXCEPT ![conn[w]] = "processing"]
  /\ mutex' = None
  /\ Return(w)
  /\ UNCHANGED <<connections, nick, reading, stopped, counter, buffers, traffic, counted>>

\* notify_file_add, notify_path_removed, notify_path_renamed and do_notify up
\* to its loop.
Notify(w) ==
  /\ pc[w] = "notify" /\ mutex = None
  /\ IF counter = 1
     THEN Return(w) /\ UNCHANGED <<storage, nextId, lame, mutex>>
     ELSE /\ Announce(w, Dec(counter), connections, "fanNote")
          /\ lame' = IF conn[w] \in connections \cap counted THEN lame ELSE lame \cup {nextId + 1}
          /\ UNCHANGED <<conn, cmd, name, was>>
  /\ UNCHANGED <<connections, clients, stopped, counter, sends, known, traffic, counted>>

\* One iteration of do_notify's loop.  Notifier is a view of the notifier's
\* nickname_, which a late sign-in may overwrite: it shows the old or the new one.
NotifyVisit(w, c) ==
  /\ pc[w] = "fanNote" /\ c \in todo[w]
  /\ todo' = [todo EXCEPT ![w] = @ \ {c}]
  /\ \E n \in {name[w], nick[conn[w]]} :
       IF state[c] = "processing" /\ nick[c] # n
       THEN /\ sends' = sends \cup {<<c, buf[w]>>}
            /\ lame' = IF c = conn[w] THEN lame \cup {buf[w]} ELSE lame
       ELSE UNCHANGED <<sends, lame>>
  /\ UNCHANGED <<connections, clients, stopped, counter, storage, nextId, known, mutex, traffic,
                 pc, conn, cmd, name, was, buf, counted>>

-----------------------------------------------------------------------------
(* connection::stop, by the io thread or by do_logout *)

\* stop() and notify_disconnection up to the mutex.
Stop(a) ==
  LET c == conn[a] IN
  /\ pc[a] = "stop"
  /\ IF c \in stopped THEN Return(a) /\ UNCHANGED stopped
     ELSE /\ stopped' = stopped \cup {c}
          /\ was' = [was EXCEPT ![a] = state[c] = "processing"]
          /\ name' = [name EXCEPT ![a] = nick[c]]
          /\ Goto(a, "disconnect")
          /\ UNCHANGED <<conn, cmd, buf, todo>>
  /\ UNCHANGED <<connections, clients, counter, buffers, mutex, traffic, counted>>

DisconnectAnyState(a) ==
  /\ pc[a] = "disconnect" /\ mutex = None
  /\ connections' = connections \ {conn[a]}
  /\ counter' = Dec(counter)
  /\ IF counter' # 0
     THEN /\ Announce(a, counter', connections', "fanDisc")
          /\ UNCHANGED <<conn, cmd, name, was>>
     ELSE Return(a) /\ UNCHANGED <<storage, nextId, mutex>>
  /\ UNCHANGED <<clients, stopped, sends, lame, known, traffic, counted>>

DisconnectCountsTwice(a) ==
  /\ pc[a] = "disconnect" /\ mutex = None
  /\ connections' = connections \ {conn[a]}
  /\ counter' = IF was[a] THEN Dec(counter) ELSE counter
  /\ IF was[a] /\ counter' # 0
     THEN /\ Announce(a, Dec(counter'), connections', "fanDisc")
          /\ UNCHANGED <<conn, cmd, name, was>>
     ELSE Return(a) /\ UNCHANGED <<storage, nextId, mutex>>
  /\ UNCHANGED <<clients, stopped, sends, lame, known, traffic, counted>>

\* notify_disconnection: erase the connection and, if it was processing, count
\* it out and start to tell the others, if there are any.
Disconnect(a) ==
  /\ pc[a] = "disconnect" /\ mutex = None
  /\ connections' = connections \ {conn[a]}
  /\ counter' = IF was[a] THEN Dec(counter) ELSE counter
  /\ IF was[a] /\ counter' # 0
     THEN /\ Announce(a, counter', connections', "fanDisc")
          /\ UNCHANGED <<conn, cmd, name, was>>
     ELSE Return(a) /\ UNCHANGED <<storage, nextId, mutex>>
  /\ UNCHANGED <<clients, stopped, sends, lame, known, traffic, counted>>

DisconnectVisit(a, c) ==
  /\ pc[a] = "fanDisc" /\ c \in todo[a]
  /\ todo' = [todo EXCEPT ![a] = @ \ {c}]
  /\ IF state[c] = "processing"
     THEN /\ sends' = sends \cup {<<c, buf[a]>>}
          /\ known' = [known EXCEPT ![c] = @ \ {name[a]}]
     ELSE UNCHANGED <<sends, known>>
  /\ UNCHANGED <<connections, clients, stopped, counter, storage, nextId, lame, mutex, traffic,
                 pc, conn, cmd, name, was, buf, counted>>

VisitEndLocked(a) ==
  /\ pc[a] \in {"fanNote", "fanDisc"} /\ todo[a] = {}
  /\ mutex' = mutex
  /\ Return(a)
  /\ UNCHANGED <<connections, clients, stopped, counter, buffers, traffic, counted>>

\* do_notify and notify_disconnection leave their loops and release mutex_.
VisitEnd(a) ==
  /\ pc[a] \in {"fanNote", "fanDisc"} /\ todo[a] = {}
  /\ mutex' = None
  /\ Return(a)
  /\ UNCHANGED <<connections, clients, stopped, counter, buffers, traffic, counted>>

-----------------------------------------------------------------------------
SendCompletes ==
  \E s \in sends : SendDone(s[1], s[2]) \/ SendFailed(s[1], s[2]) \/ SendDropped(s[1], s[2])

\* What the io thread does once it has entered a completion handler.
IoStep == ReadEnd \/ SharedWriteDone \/ IoFault

\* The do_* handlers.
HandlerStep(w) ==
  \/ \E r \in Pending : Take(w, r)
  \/ Lock(w) \/ Fail(w) \/ SignIn(w) \/ IsLogged(w) \/ SignUp(w) \/ Insert(w)
  \/ SetNick(w) \/ SetState(w) \/ DeleteAccount(w) \/ FilesChanged(w)
  \/ Register(w) \/ RegisterEnd(w) \/ Notify(w)
  \/ \E c \in todo[w] : RegisterVisit(w, c) \/ NotifyVisit(w, c)

\* connection::stop, whoever called it.
StopStep(a) ==
  \/ Stop(a) \/ Disconnect(a) \/ VisitEnd(a)
  \/ \E c \in todo[a] : DisconnectVisit(a, c)

Next ==
  \/ \E c \in Conn : Accept(c) \/ ReadDone(c) \/ ReadFailed(c) \/ WriteFailed(c)
  \/ \E m \in Commands, n \in Nick \cup {None} : ReadAction(m, n)
  \/ SendCompletes
  \/ IoStep
  \/ \E w \in Worker : HandlerStep(w)
  \/ \E a \in Actor : StopStep(a)

\* Started handlers go on and queued requests are taken (PriorityScheduler); a
\* write in flight completes or fails, and the io thread serves completions
\* first come first served, so it gets to it however many reads come in between.
\* Clients need not send anything, stay or leave.
Fairness ==
  /\ \A w \in Worker : WF_vars(HandlerStep(w) \/ StopStep(w))
  /\ WF_vars(IoStep \/ StopStep(IO))
  /\ SF_vars(SendCompletes)

Spec == Init /\ [][Next]_vars /\ Fairness

-----------------------------------------------------------------------------
(* Properties *)

\* Types, and who holds what: mutex_ is held exactly through the loops over
\* connections_, a loop visits registered connections only, and ids of buffers
\* never run ahead of SharedStorageIDCounter.
TypeOK ==
  /\ connections \in SUBSET Conn /\ stopped \in SUBSET Conn /\ reading \in SUBSET Conn
  /\ state \in [Conn -> State] /\ nick \in [Conn -> Nick \cup {None}]
  /\ counter \in Nat /\ counted \in SUBSET Conn
  /\ nextId \in Nat /\ lame \subseteq 1..nextId
  /\ DOMAIN storage \subseteq 1..nextId /\ \A b \in DOMAIN storage : storage[b] \in Nat
  /\ sends \subseteq Conn \X (1..nextId)
  /\ known \in [Conn -> SUBSET (Nick \cup {None})]
  /\ mutex \in Actor \cup {None}
  /\ users \in SUBSET Nick
  /\ pending \in [Request -> Nat] /\ posted \in Nat
  /\ pc \in [Actor -> Location]
  /\ conn \in [Actor -> Conn \cup {None}] /\ \A a \in Actor : pc[a] \notin {"idle", "crashed"} => conn[a] \in Conn
  /\ cmd \in [Actor -> Commands \cup {None}]
  /\ name \in [Actor -> Nick \cup {None}]
  /\ was \in [Actor -> BOOLEAN]
  /\ buf \in [Actor -> 0..nextId]
  /\ todo \in [Actor -> SUBSET Conn]
  /\ \A a \in Actor : mutex = a <=> pc[a] \in FanOut
  /\ \A a \in Actor : pc[a] \in FanOut => buf[a] \in 1..nextId /\ todo[a] \subseteq connections
  /\ \A a \in Actor : pc[a] \notin FanOut => todo[a] = {}

\* processing_counter_ never falls behind the registered clients in processing
\* state: buffers are handed out with it as the number of expected writes.
CounterCoversProcessing == counter >= Cardinality(Processing)

\* The counter never wraps below zero, however registrations, sign-ins and
\* disconnections interleave (--processing_counter_ in notify_disconnection).
CounterNeverWraps == [][counter' <= counter + 1]_vars

\* A shared buffer stays in shared_storage_ until the last write of it is
\* through, unless do_notify announced it for a client that has already left or
\* that it also sent the buffer to (lame).
BuffersOutliveSends == \A s \in sends : s[2] \notin lame => s[2] \in DOMAIN storage

\* While nobody registers, two registered processing clients have been told of
\* each other (USER_REGISTERED_FILES and FILES_OF_OTHER_USERS), if every account
\* is used by one connection only.
RosterComplete ==
  mutex = None => \A c, d \in Processing : c # d => nick[d] \in known[c]

\* A connection once stopped leaves connections_.
StoppedLeaves == \A c \in Conn : c \in stopped ~> (c \notin connections \/ Crashed)

\* The counter reflects the number of processing connections outside mutex_.
CounterExact == mutex = None /\ ~Crashed => counter = Cardinality(Processing)

\* If no connection stops and the counter stays exact, every shared buffer is
\* reclaimed in the end.
BuffersReclaimed == [](CounterExact /\ stopped = {}) => <>[](DOMAIN storage = {} \/ Crashed)

\* do_notify runs only for a client that is in processing state and registered.
NotifierIsProcessing ==
  \A w \in Worker : pc[w] = "fanNote" => conn[w] \in Processing

\* No two registered connections are signed in under the same nickname.
LoggedOnce ==
  \A c, d \in connections : c # d /\ state[c] # "connected" /\ state[d] # "connected" => nick[c] # nick[d]
=============================================================================
