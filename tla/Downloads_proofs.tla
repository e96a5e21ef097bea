-------------------------- MODULE Downloads_proofs --------------------------
(***************************************************************************)
(* Proofs about Downloads, for any number of requests, files and threads,  *)
(* any set of compressions and both builds.                                *)
(***************************************************************************)
EXTENDS Downloads, SequenceTheorems, TLAPS

(* A step of Next is a step of one of the actions.                         *)
LEMMA NextCases ==
  ASSUME Next
  PROVE  \/ \E w \in Worker, r \in Req : Serve(w, r)
         \/ \E w \in Worker : DeliverFileFromLocalStorage(w)
         \/ \E w \in Worker : IsDownloadPending(w)
         \/ \E w \in Worker : LoadCounter(w)
         \/ \E w \in Worker : StoreCounter(w)
         \/ \E w \in Worker : CaptureRequestID(w)
         \/ \E w \in Worker : EmplaceBackup(w)
         \/ \E w \in Worker : StartBackupTimer(w)
         \/ \E i \in DOMAIN backed, c \in Modes : DownloadReply(i, c)
         \/ \E r \in Req : BackupTimer(r)
         \/ BeginDownloadTransaction
         \/ NotifyFileDownload
         \/ DenyWaiting
         \/ HandleHandshake
         \/ HelloRefused
         \/ \E i \in DOMAIN trans : TryStartDownloadTransaction(i)
         \/ ReadHeader
         \/ \E i \in DOMAIN trans, ok \in BOOLEAN : Received(i, ok)
         \/ CloseDownloadTransaction
         \/ SetFileToCached
         \/ DeliverToAll
         \/ DenyToAll
         \/ EndDownloadTransaction
         \/ \E i \in armed : TransactionTimer(i)
         \/ \E r \in Req : UploadDone(r)
         \/ \E r \in Req : RequesterLeaves(r)
         \/ \E f \in File : OwnerLeaves(f)
  BY DEF Next, Work, IoWork, Hello, DlWork

(* Init establishes the types.                                             *)
LEMMA TypeInit == Init => TypeOK
<1> SUFFICES ASSUME Init PROVE TypeOK
  OBVIOUS
<1>1. ClientTypes
  BY DEF Init, ClientTypes
<1>2. FileTypes
  BY DEF Init, FileTypes
<1>3. TableTypes
  BY DEF Init, TableTypes, Timer, NewTimer
<1>4. ThreadTypes
  BY RequestsAssumption DEF Init, ThreadTypes, WorkerStep, IoStep, DlStep, AllModes, Idle, IoIdle, DlIdle
<1> QED
  BY <1>1, <1>2, <1>3, <1>4 DEF TypeOK

(* A crash leaves well-typed values behind.                                *)
LEMMA TypeCrash == TypeOK /\ Crash => TypeOK'
<1> SUFFICES ASSUME TypeOK, Crash PROVE TypeOK'
  OBVIOUS
<1>1. ClientTypes'
  BY DEF Crash, TypeOK, ClientTypes, clientVars
<1>2. FileTypes'
  BY DEF Crash, TypeOK, FileTypes
<1>3. TableTypes'
  BY DEF Crash, TableTypes, Timer, NewTimer
<1>4. ThreadTypes'
  BY RequestsAssumption DEF Crash, ThreadTypes, WorkerStep, IoStep, DlStep, AllModes, Idle, IoIdle, DlIdle
<1> QED
  BY <1>1, <1>2, <1>3, <1>4 DEF TypeOK

(* Answering requests appends one of the three answers.                    *)
LEMMA AnswerTypes ==
  ASSUME NEW S, NEW kind \in {"ssl", "deny", "deliver"}, ClientTypes, Answer(S, kind)
  PROVE  replies' \in [Req -> Seq({"ssl", "deny", "deliver"})]
<1>1. \A r \in Req : replies[r] \in Seq({"ssl", "deny", "deliver"})
  BY DEF ClientTypes
<1>2. \A r \in Req : Append(replies[r], kind) \in Seq({"ssl", "deny", "deliver"})
  BY <1>1
<1> QED
  BY <1>1, <1>2 DEF Answer

(* A worker's step keeps the types if the new record has them.             *)
WorkerState == [at : WorkerStep, req : Req \cup {None}, id : Nat]

LEMMA StepTypes ==
  ASSUME NEW w \in Worker, NEW v \in WorkerState, ThreadTypes,
         v.at \in {"idle", "start"} <=> v.req = None,
         v.at = "start" => v.id \in DOMAIN backed',
         DOMAIN backed \subseteq DOMAIN backed',
         step' = [step EXCEPT ![w] = v]
  PROVE  /\ step' \in [Worker -> WorkerState]
         /\ \A u \in Worker : step'[u].at \in {"idle", "start"} <=> step'[u].req = None
         /\ \A u \in Worker : step'[u].at = "start" => step'[u].id \in DOMAIN backed'
<1>1. step \in [Worker -> WorkerState]
  BY DEF ThreadTypes, WorkerState
<1>2. /\ step' \in [Worker -> WorkerState]
      /\ \A u \in Worker : step'[u] = IF u = w THEN v ELSE step[u]
  BY <1>1
<1>3. \A u \in Worker : /\ step[u].at \in {"idle", "start"} <=> step[u].req = None
                        /\ step[u].at = "start" => step[u].id \in DOMAIN backed
  BY DEF ThreadTypes
<1> QED
  BY <1>2, <1>3

(* The tables keep their types if the one changed or added entry has them. *)
LEMMA PutEntry ==
  ASSUME NEW i \in Nat, NEW e \in Entry, TableTypes,
         \/ backed' = Put(backed, i, e)
         \/ i \in DOMAIN backed /\ backed' = [backed EXCEPT ![i] = e]
  PROVE  DOMAIN backed' \subseteq Nat /\ \A j \in DOMAIN backed' : backed'[j] \in Entry
<1>1. /\ DOMAIN backed' = DOMAIN backed \cup {i}
      /\ \A j \in DOMAIN backed' : backed'[j] = IF j = i THEN e ELSE backed[j]
  <2>1. CASE backed' = Put(backed, i, e)
    BY <2>1 DEF Put
  <2>2. CASE i \in DOMAIN backed /\ backed' = [backed EXCEPT ![i] = e]
    BY <2>2
  <2> QED
    BY <2>1, <2>2
<1>2. \A j \in DOMAIN backed : j \in Nat /\ backed[j] \in Entry
  BY DEF TableTypes
<1> QED
  BY <1>1, <1>2

(* Every step keeps the types.                                             *)
LEMMA TypeNext ==
  ASSUME TypeOK, [Next]_vars
  PROVE  TypeOK'
<1>1. ASSUME NEW w \in Worker, NEW r \in Req, Serve(w, r)
     PROVE  TypeOK'
  <2>1. ClientTypes'
    <3>1. {taken', gone', lost', stranded'} \subseteq SUBSET Req
      BY <1>1 DEF Serve, TypeOK, ClientTypes
    <3>2. replies' \in [Req -> Seq({"ssl", "deny", "deliver"})]
      <4>1. CASE Answer({r}, "ssl")
        BY <4>1, AnswerTypes DEF TypeOK
      <4>2. CASE Answer({r}, "deny")
        BY <4>2, AnswerTypes DEF TypeOK
      <4>3. CASE UNCHANGED replies
        BY <4>3 DEF TypeOK, ClientTypes
      <4> QED
        BY <1>1, <4>1, <4>2, <4>3 DEF Serve
    <3> QED
      BY <3>1, <3>2 DEF ClientTypes
  <2>2. FileTypes'
    BY <1>1, FilesAssumption, ModesAssumption, RequestsAssumption
    DEF Serve, Answer, Idle, TypeOK, FileTypes, fileVars
  <2>3. TableTypes'
    BY <1>1, FilesAssumption, ModesAssumption, RequestsAssumption
    DEF Serve, Answer, Idle, TypeOK, TableTypes, Timer, ThreadTypes, Entry, Transaction,
        AllModes, backupVars, transVars
  <2>4. ThreadTypes'
    <3>1. /\ step' \in [Worker -> WorkerState]
          /\ \A u \in Worker : step'[u].at \in {"idle", "start"} <=> step'[u].req = None
          /\ \A u \in Worker : step'[u].at = "start" => step'[u].id \in DOMAIN backed'
      <4> UNCHANGED backed
        BY <1>1 DEF Serve, backupVars
      <4>1. CASE UNCHANGED step
        BY <4>1 DEF TypeOK, ThreadTypes, WorkerState
      <4>2. CASE ~UNCHANGED step
        <5> DEFINE v == [at |-> IF FileOf[r] \in cached THEN "deliver" ELSE "pending",
                         req |-> r, id |-> 0]
        <5>1. step' = [step EXCEPT ![w] = v]
          BY <1>1, <4>2 DEF Serve
        <5>2. v \in WorkerState /\ v.at \notin {"idle", "start"} /\ v.req # None
          BY RequestsAssumption DEF WorkerState, WorkerStep
        <5> HIDE DEF v
        <5> QED
          BY <5>1, <5>2, StepTypes DEF TypeOK
      <4> QED
        BY <4>1, <4>2
    <3>2. UNCHANGED <<io, dl, crashed, trans>>
      BY <1>1 DEF Serve, transVars
    <3> QED
      BY <3>1, <3>2 DEF TypeOK, ThreadTypes, WorkerState
  <2> QED
    BY <2>1, <2>2, <2>3, <2>4 DEF TypeOK
<1>2. ASSUME NEW w \in Worker, DeliverFileFromLocalStorage(w)
     PROVE  TypeOK'
  <2>1. ClientTypes'
    BY <1>2, FilesAssumption, ModesAssumption, RequestsAssumption
    DEF DeliverFileFromLocalStorage, Deliver, CanRead, Release, Idle, TypeOK,
        ClientTypes, clientVars, ThreadTypes
  <2>2. FileTypes'
    BY <1>2, FilesAssumption, ModesAssumption, RequestsAssumption
    DEF DeliverFileFromLocalStorage, Deliver, CanRead, Release, Idle, TypeOK, FileTypes,
        fileVars, ThreadTypes
  <2>3. TableTypes'
    BY <1>2, FilesAssumption, ModesAssumption, RequestsAssumption
    DEF DeliverFileFromLocalStorage, Deliver, CanRead, Release, Idle, TypeOK,
        TableTypes, Timer, ThreadTypes, Entry, Transaction, AllModes, backupVars, transVars
  <2>4. ThreadTypes'
    BY <1>2, FilesAssumption, ModesAssumption, RequestsAssumption
    DEF DeliverFileFromLocalStorage, Deliver, CanRead, Release, Idle, TypeOK,
        TableTypes, ThreadTypes, WorkerStep, IoStep, DlStep, AllModes, Entry,
        Transaction, transVars, backupVars, Unlocked, IoIdle, DlIdle
  <2> QED
    BY <2>1, <2>2, <2>3, <2>4 DEF TypeOK
<1>3. ASSUME NEW w \in Worker, IsDownloadPending(w)
     PROVE  TypeOK'
  <2>1. ClientTypes'
    <3>1. step[w].req \in Req
      BY <1>3 DEF IsDownloadPending, TypeOK, ThreadTypes
    <3>2. stranded' \subseteq stranded \cup {step[w].req}
      BY <1>3 DEF IsDownloadPending
    <3> QED
      BY <1>3, <3>1, <3>2 DEF IsDownloadPending, TypeOK, ClientTypes
  <2>2. FileTypes'
    BY <1>3, FilesAssumption, ModesAssumption, RequestsAssumption
    DEF IsDownloadPending, Goto, Release, Idle, Pending, TypeOK, FileTypes, fileVars
  <2>3. TableTypes'
    <3>1. UNCHANGED <<counter, timers, worn, armed, trans>>
      BY <1>3 DEF IsDownloadPending, transVars
    <3>2. CASE UNCHANGED backed
      BY <3>1, <3>2 DEF TypeOK, TableTypes
    <3>3. CASE ~UNCHANGED backed
      <4>1. PICK i \in Pending(FileOf[step[w].req]) :
              backed' = [backed EXCEPT ![i].reqs = @ \cup {step[w].req}]
        BY <1>3, <3>3 DEF IsDownloadPending
      <4>2. i \in DOMAIN backed /\ i \in Nat /\ backed[i] \in Entry
        BY <4>1 DEF Pending, TypeOK, TableTypes
      <4>3. step[w].req \in Req
        BY <1>3 DEF IsDownloadPending, TypeOK, ThreadTypes
      <4> DEFINE e == [backed[i] EXCEPT !.reqs = @ \cup {step[w].req}]
      <4>4. e \in Entry
        BY <4>2, <4>3 DEF Entry
      <4>5. backed' = [backed EXCEPT ![i] = e]
        BY <4>1, <4>2
      <4> HIDE DEF e
      <4>6. DOMAIN backed' \subseteq Nat /\ \A j \in DOMAIN backed' : backed'[j] \in Entry
        BY <4>2, <4>4, <4>5, PutEntry DEF TypeOK
      <4> QED
        BY <3>1, <4>6 DEF TypeOK, TableTypes
    <3> QED
      BY <3>2, <3>3
  <2>4. ThreadTypes'
    <3>1. DOMAIN backed \subseteq DOMAIN backed' /\ ThreadTypes
      BY <1>3 DEF IsDownloadPending, TypeOK
    <3>2. ASSUME NEW v \in WorkerState, step' = [step EXCEPT ![w] = v],
                 v.at # "start", v.at = "idle" <=> v.req = None
          PROVE  /\ step' \in [Worker -> WorkerState]
                 /\ \A u \in Worker : step'[u].at \in {"idle", "start"} <=> step'[u].req = None
                 /\ \A u \in Worker : step'[u].at = "start" => step'[u].id \in DOMAIN backed'
      <4>1. v.at \in {"idle", "start"} <=> v.req = None
        BY <3>2
      <4>2. v.at = "start" => v.id \in DOMAIN backed'
        BY <3>2
      <4> QED
        BY <3>1, <3>2, <4>1, <4>2, StepTypes
    <3>3. /\ step' \in [Worker -> WorkerState]
          /\ \A u \in Worker : step'[u].at \in {"idle", "start"} <=> step'[u].req = None
          /\ \A u \in Worker : step'[u].at = "start" => step'[u].id \in DOMAIN backed'
      <4>1. Idle \in WorkerState /\ Idle.at = "idle" /\ Idle.req = None
        BY DEF Idle, WorkerState, WorkerStep
      <4> DEFINE v == [step[w] EXCEPT !.at = "load"]
      <4>2. step[w] \in WorkerState /\ step[w].req # None
        BY <1>3 DEF IsDownloadPending, TypeOK, ThreadTypes, WorkerState
      <4>3. v \in WorkerState /\ v.at = "load" /\ v.req # None
        BY <4>2 DEF WorkerState, WorkerStep
      <4>4. Goto(w, "load") => step' = [step EXCEPT ![w] = v]
        BY <4>2 DEF Goto
      <4> HIDE DEF v
      <4>5. CASE Goto(w, "load")
        BY <3>2, <4>3, <4>4, <4>5
      <4>6. CASE Release(w)
        BY <3>2, <4>1, <4>6 DEF Release
      <4> QED
        BY <1>3, <4>5, <4>6 DEF IsDownloadPending
    <3>4. UNCHANGED <<io, dl, crashed, trans>>
      BY <1>3 DEF IsDownloadPending, transVars
    <3> QED
      BY <3>3, <3>4 DEF TypeOK, ThreadTypes, WorkerState
  <2> QED
    BY <2>1, <2>2, <2>3, <2>4 DEF TypeOK
<1>4. ASSUME NEW w \in Worker, LoadCounter(w)
     PROVE  TypeOK'
  <2>1. ClientTypes'
    BY <1>4, FilesAssumption, ModesAssumption, RequestsAssumption
    DEF LoadCounter, TypeOK, ClientTypes, clientVars
  <2>2. FileTypes'
    BY <1>4, FilesAssumption, ModesAssumption, RequestsAssumption
    DEF LoadCounter, TypeOK, FileTypes, fileVars
  <2>3. TableTypes'
    BY <1>4, FilesAssumption, ModesAssumption, RequestsAssumption
    DEF LoadCounter, TypeOK, TableTypes, Timer, ThreadTypes, Entry, Transaction, AllModes,
        backupVars, transVars
  <2>4. ThreadTypes'
    <3> DEFINE v == [step[w] EXCEPT !.at = "store", !.id = counter]
    <3>1. step' = [step EXCEPT ![w] = v]
      BY <1>4 DEF LoadCounter
    <3>2. step[w] \in WorkerState /\ step[w].req # None /\ counter \in Nat
      BY <1>4 DEF LoadCounter, TypeOK, ThreadTypes, TableTypes, WorkerState
    <3>3. v \in WorkerState /\ v.at \notin {"idle", "start"} /\ v.req # None
      BY <3>2 DEF WorkerState, WorkerStep
    <3> HIDE DEF v
    <3>4. /\ step' \in [Worker -> WorkerState]
          /\ \A u \in Worker : step'[u].at \in {"idle", "start"} <=> step'[u].req = None
          /\ \A u \in Worker : step'[u].at = "start" => step'[u].id \in DOMAIN backed'
      BY <1>4, <3>1, <3>3, StepTypes DEF LoadCounter, backupVars, TypeOK
    <3>5. UNCHANGED <<io, dl, crashed, trans>>
      BY <1>4 DEF LoadCounter, transVars, backupVars, Unlocked
    <3> QED
      BY <3>4, <3>5 DEF TypeOK, ThreadTypes, WorkerState
  <2> QED
    BY <2>1, <2>2, <2>3, <2>4 DEF TypeOK
<1>5. ASSUME NEW w \in Worker, StoreCounter(w)
     PROVE  TypeOK'
  <2>1. ClientTypes'
    BY <1>5, FilesAssumption, ModesAssumption, RequestsAssumption
    DEF StoreCounter, Goto, TypeOK, ClientTypes, clientVars
  <2>2. FileTypes'
    BY <1>5, FilesAssumption, ModesAssumption, RequestsAssumption
    DEF StoreCounter, Goto, TypeOK, FileTypes, fileVars
  <2>3. TableTypes'
    BY <1>5, FilesAssumption, ModesAssumption, RequestsAssumption
    DEF StoreCounter, Goto, TypeOK, TableTypes, Timer, ThreadTypes, Entry, Transaction,
        AllModes, backupVars, transVars
  <2>4. ThreadTypes'
    BY <1>5, FilesAssumption, ModesAssumption, RequestsAssumption
    DEF StoreCounter, Goto, TypeOK, TableTypes, ThreadTypes, WorkerStep, IoStep, DlStep,
        AllModes, Entry, Transaction, transVars, backupVars, Unlocked, Idle, IoIdle, DlIdle
  <2> QED
    BY <2>1, <2>2, <2>3, <2>4 DEF TypeOK
<1>6. ASSUME NEW w \in Worker, CaptureRequestID(w)
     PROVE  TypeOK'
  <2>1. ClientTypes' /\ FileTypes'
    BY <1>6 DEF CaptureRequestID, TypeOK, ClientTypes, FileTypes, clientVars, fileVars
  <2>2. TableTypes'
    <3>1. timers' \in [Req -> Timer]
      BY <1>6 DEF CaptureRequestID, TypeOK, TableTypes, Timer
    <3> QED
      BY <1>6, <3>1 DEF CaptureRequestID, TypeOK, TableTypes, transVars
  <2>3. ThreadTypes'
    BY <1>6, RequestsAssumption
    DEF CaptureRequestID, Goto, TypeOK, ThreadTypes, WorkerStep, transVars
  <2> QED
    BY <2>1, <2>2, <2>3 DEF TypeOK
<1>7. ASSUME NEW w \in Worker, EmplaceBackup(w)
     PROVE  TypeOK'
  <2> DEFINE r == step[w].req
             e == [file |-> FileOf[r], reqs |-> {r}, timer |-> r]
             v == [at |-> "start", req |-> None, id |-> counter]
  <2>1. r \in Req /\ e \in Entry /\ counter \in Nat
    BY <1>7, FilesAssumption DEF EmplaceBackup, TypeOK, ThreadTypes, TableTypes, Entry
  <2>2. \/ backed' = backed /\ counter \in DOMAIN backed
        \/ backed' = Put(backed, counter, e)
    BY <1>7 DEF EmplaceBackup
  <2>3. ClientTypes' /\ FileTypes'
    BY <1>7, <2>1 DEF EmplaceBackup, TypeOK, ClientTypes, FileTypes, fileVars
  <2> HIDE DEF e
  <2>4. TableTypes'
    <3>1. DOMAIN backed' \subseteq Nat /\ \A j \in DOMAIN backed' : backed'[j] \in Entry
      BY <2>1, <2>2, PutEntry DEF TypeOK, TableTypes
    <3> QED
      BY <1>7, <3>1 DEF EmplaceBackup, TypeOK, TableTypes, transVars
  <2>5. ThreadTypes'
    <3>1. counter \in DOMAIN backed' /\ DOMAIN backed \subseteq DOMAIN backed'
      BY <2>2 DEF Put
    <3>2. step' = [step EXCEPT ![w] = v]
      BY <1>7 DEF EmplaceBackup
    <3>3. v \in WorkerState /\ v.at = "start" /\ v.req = None /\ v.id = counter
      BY <2>1 DEF WorkerState, WorkerStep
    <3> HIDE DEF v
    <3>4. /\ step' \in [Worker -> WorkerState]
          /\ \A u \in Worker : step'[u].at \in {"idle", "start"} <=> step'[u].req = None
          /\ \A u \in Worker : step'[u].at = "start" => step'[u].id \in DOMAIN backed'
      BY <3>1, <3>2, <3>3, StepTypes DEF TypeOK
    <3>5. UNCHANGED <<io, dl, crashed, trans>>
      BY <1>7 DEF EmplaceBackup, transVars
    <3> QED
      BY <3>4, <3>5 DEF TypeOK, ThreadTypes, WorkerState
  <2> QED
    BY <2>3, <2>4, <2>5 DEF TypeOK
<1>8. ASSUME NEW w \in Worker, StartBackupTimer(w)
     PROVE  TypeOK'
  <2>1. CASE Crash
    BY <2>1, TypeCrash
  <2>2. CASE ~Crash
    <3>1. /\ counter \in DOMAIN backed /\ step[w].id \in DOMAIN backed
          /\ backed[counter].timer \in Req /\ backed[step[w].id].timer \in Req
      BY <1>8, <2>2 DEF StartBackupTimer, TypeOK, ThreadTypes, TableTypes, Entry
    <3>2. ClientTypes' /\ FileTypes'
      BY <1>8, <2>2, <3>1
      DEF StartBackupTimer, TypeOK, ClientTypes, FileTypes, fileVars
    <3>3. TableTypes'
      <4>1. timers' \in [Req -> Timer]
        BY <1>8, <2>2, <3>1 DEF StartBackupTimer, StartOf, TypeOK, TableTypes, Timer
      <4> QED
        BY <1>8, <2>2, <4>1 DEF StartBackupTimer, TypeOK, TableTypes, transVars
    <3>4. ThreadTypes'
      BY <1>8, <2>2, RequestsAssumption
      DEF StartBackupTimer, Release, Idle, TypeOK, ThreadTypes, WorkerStep, transVars
    <3> QED
      BY <3>2, <3>3, <3>4 DEF TypeOK
  <2> QED
    BY <2>1, <2>2
<1>9. ASSUME NEW i \in DOMAIN backed, NEW c \in Modes, DownloadReply(i, c)
     PROVE  TypeOK'
  <2>1. ClientTypes' /\ FileTypes'
    BY <1>9 DEF DownloadReply, TypeOK, ClientTypes, FileTypes, clientVars, fileVars
  <2>2. TableTypes'
    <3>1. timers' \in [Req -> Timer]
      BY <1>9 DEF DownloadReply, StopOf, TypeOK, TableTypes, Timer, Entry
    <3> QED
      BY <1>9, <3>1 DEF DownloadReply, TypeOK, TableTypes, transVars
  <2>3. ThreadTypes'
    BY <1>9, ModesAssumption
    DEF DownloadReply, TypeOK, TableTypes, ThreadTypes, IoStep, AllModes, Entry, transVars
  <2> QED
    BY <2>1, <2>2, <2>3 DEF TypeOK
<1>10. ASSUME NEW r \in Req, BackupTimer(r)
     PROVE  TypeOK'
  <2>1. CASE Crash
    BY <2>1, TypeCrash
  <2>2. CASE ~Crash
    <3>1. DenyAll(timers[r].names) /\ timers' = StopOf(r)
      BY <1>10, <2>2 DEF BackupTimer
    <3>2. ClientTypes'
      <4>1. replies' \in [Req -> Seq({"ssl", "deny", "deliver"})]
        BY <3>1, AnswerTypes DEF DenyAll, TypeOK
      <4> QED
        BY <1>10, <2>2, <4>1 DEF BackupTimer, TypeOK, ClientTypes
    <3>3. FileTypes'
      BY <1>10, <2>2 DEF BackupTimer, TypeOK, FileTypes, fileVars
    <3>4. TableTypes'
      <4>1. timers' \in [Req -> Timer]
        BY <3>1 DEF StopOf, TypeOK, TableTypes, Timer
      <4>2. /\ DOMAIN backed' \subseteq DOMAIN backed
            /\ \A j \in DOMAIN backed' : backed'[j] = backed[j]
        BY <3>1 DEF DenyAll, Drop
      <4> QED
        BY <1>10, <2>2, <4>1, <4>2 DEF BackupTimer, TypeOK, TableTypes, transVars
    <3>5. ThreadTypes'
      BY <1>10, <2>2, <3>1
      DEF BackupTimer, DenyAll, Unlocked, TypeOK, ThreadTypes, transVars
    <3> QED
      BY <3>2, <3>3, <3>4, <3>5 DEF TypeOK
  <2> QED
    BY <2>1, <2>2
<1>11. ASSUME BeginDownloadTransaction
     PROVE  TypeOK'
  <2>1. CASE Crash
    BY <2>1, TypeCrash
  <2>2. CASE ~Crash
    <3>1. ClientTypes'
      BY <1>11, <2>2, FilesAssumption, ModesAssumption, RequestsAssumption
      DEF BeginDownloadTransaction, Put, CanWrite, TypeOK, ClientTypes, clientVars
    <3>2. FileTypes'
      BY <1>11, <2>2, FilesAssumption, ModesAssumption, RequestsAssumption
      DEF BeginDownloadTransaction, Put, CanWrite, TypeOK, FileTypes, fileVars,
          ThreadTypes
    <3>3. TableTypes'
      BY <1>11, <2>2, FilesAssumption, ModesAssumption, RequestsAssumption
      DEF BeginDownloadTransaction, Put, CanWrite, TypeOK, TableTypes, Timer, ThreadTypes,
          Entry, Transaction, AllModes, backupVars, transVars
    <3>4. ThreadTypes'
      BY <1>11, <2>2, FilesAssumption, ModesAssumption, RequestsAssumption
      DEF BeginDownloadTransaction, Put, CanWrite, TypeOK, TableTypes, ThreadTypes,
          WorkerStep, IoStep, DlStep, AllModes, Entry, Transaction, transVars, backupVars, Unlocked, Idle,
          IoIdle, DlIdle
    <3> QED
      BY <3>1, <3>2, <3>3, <3>4 DEF TypeOK
  <2> QED
    BY <2>1, <2>2
<1>12. ASSUME NotifyFileDownload
     PROVE  TypeOK'
  <2>1. CASE Crash
    BY <2>1, TypeCrash
  <2>2. CASE ~Crash
    <3>1. ClientTypes'
      BY <1>12, <2>2, FilesAssumption, ModesAssumption, RequestsAssumption
      DEF NotifyFileDownload, IoIdle, TypeOK, ClientTypes, clientVars
    <3>2. FileTypes'
      BY <1>12, <2>2, FilesAssumption, ModesAssumption, RequestsAssumption
      DEF NotifyFileDownload, IoIdle, TypeOK, FileTypes, fileVars
    <3>3. TableTypes'
      BY <1>12, <2>2, FilesAssumption, ModesAssumption, RequestsAssumption
      DEF NotifyFileDownload, IoIdle, TypeOK, TableTypes, Timer, ThreadTypes, Entry,
          Transaction, AllModes, backupVars, transVars
    <3>4. ThreadTypes'
      BY <1>12, <2>2, FilesAssumption, ModesAssumption, RequestsAssumption
      DEF NotifyFileDownload, IoIdle, TypeOK, TableTypes, ThreadTypes, WorkerStep,
          IoStep, DlStep, AllModes, Entry, Transaction, transVars, backupVars, Unlocked, Idle, DlIdle
    <3> QED
      BY <3>1, <3>2, <3>3, <3>4 DEF TypeOK
  <2> QED
    BY <2>1, <2>2
<1>13. ASSUME DenyWaiting
     PROVE  TypeOK'
  <2>1. ClientTypes'
    BY <1>13, FilesAssumption, ModesAssumption, RequestsAssumption
    DEF DenyWaiting, DenyAll, Answer, Waiting, Drop, IoIdle, TypeOK, ClientTypes,
        clientVars
  <2>2. FileTypes'
    BY <1>13, FilesAssumption, ModesAssumption, RequestsAssumption
    DEF DenyWaiting, DenyAll, Answer, Waiting, Drop, IoIdle, TypeOK, FileTypes, fileVars
  <2>3. TableTypes'
    BY <1>13, FilesAssumption, ModesAssumption, RequestsAssumption
    DEF DenyWaiting, DenyAll, Answer, Waiting, Drop, IoIdle, TypeOK, TableTypes,
        ThreadTypes, Entry, Transaction, AllModes, backupVars, transVars
  <2>4. ThreadTypes'
    BY <1>13, FilesAssumption, ModesAssumption, RequestsAssumption
    DEF DenyWaiting, DenyAll, Answer, Waiting, Drop, IoIdle, TypeOK, TableTypes,
        ThreadTypes, WorkerStep, IoStep, DlStep, AllModes, Entry, Transaction,
        transVars, backupVars, Unlocked, Idle, DlIdle
  <2> QED
    BY <2>1, <2>2, <2>3, <2>4 DEF TypeOK
<1>14. ASSUME HandleHandshake
     PROVE  TypeOK'
  <2>1. ClientTypes'
    BY <1>14, FilesAssumption, ModesAssumption, RequestsAssumption
    DEF HandleHandshake, DlIdle, TypeOK, ClientTypes, clientVars
  <2>2. FileTypes'
    BY <1>14, FilesAssumption, ModesAssumption, RequestsAssumption
    DEF HandleHandshake, DlIdle, TypeOK, FileTypes, fileVars
  <2>3. TableTypes'
    BY <1>14, FilesAssumption, ModesAssumption, RequestsAssumption
    DEF HandleHandshake, DlIdle, TypeOK, TableTypes, Timer, ThreadTypes, Entry, Transaction,
        AllModes, backupVars, transVars
  <2>4. ThreadTypes'
    BY <1>14, FilesAssumption, ModesAssumption, RequestsAssumption
    DEF HandleHandshake, DlIdle, TypeOK, TableTypes, ThreadTypes, WorkerStep, IoStep,
        DlStep, AllModes, Entry, Transaction, transVars, backupVars, Unlocked, Idle, IoIdle
  <2> QED
    BY <2>1, <2>2, <2>3, <2>4 DEF TypeOK
<1>15. ASSUME HelloRefused
     PROVE  TypeOK'
  <2>1. ClientTypes'
    BY <1>15, FilesAssumption, ModesAssumption, RequestsAssumption
    DEF HelloRefused, DlIdle, TypeOK, ClientTypes, clientVars
  <2>2. FileTypes'
    BY <1>15, FilesAssumption, ModesAssumption, RequestsAssumption
    DEF HelloRefused, DlIdle, TypeOK, FileTypes, fileVars
  <2>3. TableTypes'
    BY <1>15, FilesAssumption, ModesAssumption, RequestsAssumption
    DEF HelloRefused, DlIdle, TypeOK, TableTypes, Timer, ThreadTypes, Entry, Transaction,
        AllModes, backupVars, transVars
  <2>4. ThreadTypes'
    BY <1>15, FilesAssumption, ModesAssumption, RequestsAssumption
    DEF HelloRefused, DlIdle, TypeOK, TableTypes, ThreadTypes, WorkerStep, IoStep,
        DlStep, AllModes, Entry, Transaction, transVars, backupVars, Unlocked, Idle, IoIdle
  <2> QED
    BY <2>1, <2>2, <2>3, <2>4 DEF TypeOK
<1>16. ASSUME NEW i \in DOMAIN trans, TryStartDownloadTransaction(i)
     PROVE  TypeOK'
  <2>1. CASE Crash
    BY <2>1, TypeCrash
  <2>2. CASE ~Crash
    <3>1. ClientTypes'
      BY <1>16, <2>2, FilesAssumption, ModesAssumption, RequestsAssumption
      DEF TryStartDownloadTransaction, DlIdle, TypeOK, ClientTypes, clientVars
    <3>2. FileTypes'
      BY <1>16, <2>2, FilesAssumption, ModesAssumption, RequestsAssumption
      DEF TryStartDownloadTransaction, DlIdle, TypeOK, FileTypes, fileVars
    <3>3. TableTypes'
      <4>1. /\ armed' = armed \ {i} /\ UNCHANGED <<backupVars, worn>>
            /\ trans' = [trans EXCEPT ![i].state =
                            IF @ \in {"waiting", "receiving"} THEN "receiving" ELSE "broken"]
        BY <1>16, <2>2 DEF TryStartDownloadTransaction
      <4>2. /\ DOMAIN trans' = DOMAIN trans
            /\ \A j \in DOMAIN trans : trans'[j] \in Transaction
        BY <4>1 DEF TypeOK, TableTypes, Transaction
      <4> QED
        BY <4>1, <4>2 DEF TypeOK, TableTypes, backupVars
    <3>4. ThreadTypes'
      <4>1. /\ dl' = IF trans[i].mode = "zlib" THEN [dl EXCEPT !.at = "header", !.id = i] ELSE DlIdle
            /\ UNCHANGED <<step, io, crashed, backed>>
            /\ DOMAIN trans' = DOMAIN trans
        BY <1>16, <2>2 DEF TryStartDownloadTransaction, backupVars
      <4>2. i \in Nat
        BY DEF TypeOK, TableTypes
      <4>3. dl' \in [at : DlStep, id : Nat, ok : BOOLEAN]
        BY <4>1, <4>2 DEF TypeOK, ThreadTypes, DlStep, DlIdle
      <4>4. dl'.at \in {"header", "close", "cache", "deliver"} => dl'.id = i
        BY <4>1 DEF TypeOK, ThreadTypes, DlIdle
      <4> QED
        BY <4>1, <4>3, <4>4 DEF TypeOK, ThreadTypes
    <3> QED
      BY <3>1, <3>2, <3>3, <3>4 DEF TypeOK
  <2> QED
    BY <2>1, <2>2
<1>17. ASSUME ReadHeader
     PROVE  TypeOK'
  <2>1. CASE Crash
    BY <2>1, TypeCrash
  <2>2. CASE ~Crash
    <3>1. ClientTypes'
      BY <1>17, <2>2, FilesAssumption, ModesAssumption, RequestsAssumption
      DEF ReadHeader, DlIdle, TypeOK, ClientTypes, clientVars
    <3>2. FileTypes'
      BY <1>17, <2>2, FilesAssumption, ModesAssumption, RequestsAssumption
      DEF ReadHeader, DlIdle, TypeOK, FileTypes, fileVars
    <3>3. TableTypes'
      BY <1>17, <2>2, FilesAssumption, ModesAssumption, RequestsAssumption
      DEF ReadHeader, DlIdle, TypeOK, TableTypes, Timer, ThreadTypes, Entry, Transaction,
          AllModes, backupVars, transVars
    <3>4. ThreadTypes'
      <4>1. dl' = DlIdle /\ UNCHANGED <<step, io, crashed, backed>>
        BY <1>17, <2>2 DEF ReadHeader, backupVars
      <4> QED
        BY <4>1 DEF TypeOK, ThreadTypes, DlStep, DlIdle
    <3> QED
      BY <3>1, <3>2, <3>3, <3>4 DEF TypeOK
  <2> QED
    BY <2>1, <2>2
<1>18. ASSUME NEW i \in DOMAIN trans, NEW ok \in BOOLEAN, Received(i, ok)
     PROVE  TypeOK'
  <2>1. ClientTypes'
    BY <1>18, FilesAssumption, ModesAssumption, RequestsAssumption
    DEF Received, TypeOK, ClientTypes, clientVars
  <2>2. FileTypes'
    BY <1>18, FilesAssumption, ModesAssumption, RequestsAssumption
    DEF Received, TypeOK, FileTypes, fileVars, TableTypes, Transaction
  <2>3. TableTypes'
    BY <1>18, FilesAssumption, ModesAssumption, RequestsAssumption
    DEF Received, TypeOK, TableTypes, Timer, ThreadTypes, Entry, Transaction, AllModes,
        backupVars, transVars
  <2>4. ThreadTypes'
    BY <1>18, FilesAssumption, ModesAssumption, RequestsAssumption
    DEF Received, TypeOK, TableTypes, ThreadTypes, WorkerStep, IoStep, DlStep, AllModes,
        Entry, Transaction, transVars, backupVars, Unlocked, Idle, IoIdle, DlIdle
  <2> QED
    BY <2>1, <2>2, <2>3, <2>4 DEF TypeOK
<1>19. ASSUME CloseDownloadTransaction
     PROVE  TypeOK'
  <2>1. ClientTypes'
    BY <1>19, FilesAssumption, ModesAssumption, RequestsAssumption
    DEF CloseDownloadTransaction, TypeOK, ClientTypes, clientVars
  <2>2. FileTypes'
    BY <1>19, FilesAssumption, ModesAssumption, RequestsAssumption
    DEF CloseDownloadTransaction, TypeOK, FileTypes, fileVars
  <2>3. TableTypes'
    BY <1>19, FilesAssumption, ModesAssumption, RequestsAssumption
    DEF CloseDownloadTransaction, TypeOK, TableTypes, Timer, ThreadTypes, Entry, Transaction,
        AllModes, backupVars, transVars
  <2>4. ThreadTypes'
    BY <1>19, FilesAssumption, ModesAssumption, RequestsAssumption
    DEF CloseDownloadTransaction, TypeOK, TableTypes, ThreadTypes, WorkerStep, IoStep,
        DlStep, AllModes, Entry, Transaction, transVars, backupVars, Unlocked, Idle, IoIdle, DlIdle
  <2> QED
    BY <2>1, <2>2, <2>3, <2>4 DEF TypeOK
<1>20. ASSUME SetFileToCached
     PROVE  TypeOK'
  <2>1. CASE Crash
    BY <2>1, TypeCrash
  <2>2. CASE ~Crash
    <3>1. ClientTypes'
      BY <1>20, <2>2, FilesAssumption, ModesAssumption, RequestsAssumption
      DEF SetFileToCached, TypeOK, ClientTypes, clientVars
    <3>2. FileTypes'
      BY <1>20, <2>2, FilesAssumption, ModesAssumption, RequestsAssumption
      DEF SetFileToCached, TypeOK, FileTypes, fileVars, TableTypes, ThreadTypes,
          Transaction
    <3>3. TableTypes'
      BY <1>20, <2>2, FilesAssumption, ModesAssumption, RequestsAssumption
      DEF SetFileToCached, TypeOK, TableTypes, Timer, ThreadTypes, Entry, Transaction, AllModes,
          backupVars, transVars
    <3>4. ThreadTypes'
      BY <1>20, <2>2, FilesAssumption, ModesAssumption, RequestsAssumption
      DEF SetFileToCached, TypeOK, TableTypes, ThreadTypes, WorkerStep, IoStep, DlStep,
          AllModes, Entry, Transaction, transVars, backupVars, Unlocked, Idle, IoIdle, DlIdle
    <3> QED
      BY <3>1, <3>2, <3>3, <3>4 DEF TypeOK
  <2> QED
    BY <2>1, <2>2
<1>21. ASSUME DeliverToAll
     PROVE  TypeOK'
  <2>1. ClientTypes'
    BY <1>21, FilesAssumption, ModesAssumption, RequestsAssumption
    DEF DeliverToAll, Deliver, Waiting, Drop, TypeOK, ClientTypes, clientVars,
        TableTypes, Entry
  <2>2. FileTypes'
    BY <1>21, FilesAssumption, ModesAssumption, RequestsAssumption
    DEF DeliverToAll, Deliver, Waiting, Drop, TypeOK, FileTypes, fileVars, TableTypes,
        Entry
  <2>3. TableTypes'
    BY <1>21, FilesAssumption, ModesAssumption, RequestsAssumption
    DEF DeliverToAll, Deliver, Waiting, Drop, TypeOK, TableTypes, Timer, ThreadTypes, Entry,
        Transaction, AllModes, backupVars, transVars
  <2>4. ThreadTypes'
    BY <1>21, FilesAssumption, ModesAssumption, RequestsAssumption
    DEF DeliverToAll, Deliver, Waiting, Drop, TypeOK, TableTypes, ThreadTypes,
        WorkerStep, IoStep, DlStep, AllModes, Entry, Transaction, transVars, backupVars, Unlocked, Idle,
        IoIdle, DlIdle
  <2> QED
    BY <2>1, <2>2, <2>3, <2>4 DEF TypeOK
<1>22. ASSUME DenyToAll
     PROVE  TypeOK'
  <2>1. ClientTypes'
    BY <1>22, FilesAssumption, ModesAssumption, RequestsAssumption
    DEF DenyToAll, DenyAll, Answer, Waiting, Drop, TypeOK, ClientTypes, clientVars
  <2>2. FileTypes'
    BY <1>22, FilesAssumption, ModesAssumption, RequestsAssumption
    DEF DenyToAll, DenyAll, Answer, Waiting, Drop, TypeOK, FileTypes, fileVars
  <2>3. TableTypes'
    BY <1>22, FilesAssumption, ModesAssumption, RequestsAssumption
    DEF DenyToAll, DenyAll, Answer, Waiting, Drop, TypeOK, TableTypes, Timer, ThreadTypes,
        Entry, Transaction, AllModes, backupVars, transVars
  <2>4. ThreadTypes'
    BY <1>22, FilesAssumption, ModesAssumption, RequestsAssumption
    DEF DenyToAll, DenyAll, Answer, Waiting, Drop, TypeOK, TableTypes, ThreadTypes,
        WorkerStep, IoStep, DlStep, AllModes, Entry, Transaction, transVars, backupVars, Unlocked, Idle,
        IoIdle, DlIdle
  <2> QED
    BY <2>1, <2>2, <2>3, <2>4 DEF TypeOK
<1>23. ASSUME EndDownloadTransaction
     PROVE  TypeOK'
  <2>1. CASE Crash
    BY <2>1, TypeCrash
  <2>2. CASE ~Crash
    <3>1. ClientTypes'
      BY <1>23, <2>2, FilesAssumption, ModesAssumption, RequestsAssumption
      DEF EndDownloadTransaction, Drop, DlIdle, TypeOK, ClientTypes, clientVars
    <3>2. FileTypes'
      BY <1>23, <2>2, FilesAssumption, ModesAssumption, RequestsAssumption
      DEF EndDownloadTransaction, Drop, DlIdle, TypeOK, FileTypes, fileVars
    <3>3. TableTypes'
      BY <1>23, <2>2, FilesAssumption, ModesAssumption, RequestsAssumption
      DEF EndDownloadTransaction, Drop, DlIdle, TypeOK, TableTypes, Timer, ThreadTypes, Entry,
          Transaction, AllModes, backupVars, transVars
    <3>4. ThreadTypes'
      <4>1. dl' = DlIdle /\ UNCHANGED <<step, io, crashed, backed>>
        BY <1>23, <2>2 DEF EndDownloadTransaction, backupVars
      <4> QED
        BY <4>1 DEF TypeOK, ThreadTypes, DlStep, DlIdle
    <3> QED
      BY <3>1, <3>2, <3>3, <3>4 DEF TypeOK
  <2> QED
    BY <2>1, <2>2
<1>24. ASSUME NEW i \in armed, TransactionTimer(i)
     PROVE  TypeOK'
  <2>1. CASE Crash
    BY <2>1, TypeCrash
  <2>2. CASE ~Crash
    <3>1. ClientTypes'
      BY <1>24, <2>2, FilesAssumption, ModesAssumption, RequestsAssumption
      DEF TransactionTimer, TypeOK, ClientTypes, clientVars
    <3>2. FileTypes'
      BY <1>24, <2>2, FilesAssumption, ModesAssumption, RequestsAssumption
      DEF TransactionTimer, TypeOK, FileTypes, fileVars
    <3>3. TableTypes'
      BY <1>24, <2>2, FilesAssumption, ModesAssumption, RequestsAssumption
      DEF TransactionTimer, TypeOK, TableTypes, Timer, ThreadTypes, Entry, Transaction, AllModes,
          backupVars, transVars
    <3>4. ThreadTypes'
      <4>1. /\ dl' = [at |-> "deny", id |-> i, ok |-> FALSE]
            /\ UNCHANGED <<step, io, crashed, backed, trans>>
        BY <1>24, <2>2 DEF TransactionTimer, backupVars
      <4>2. i \in Nat
        BY DEF TypeOK, TableTypes
      <4> QED
        BY <4>1, <4>2 DEF TypeOK, ThreadTypes, DlStep
    <3> QED
      BY <3>1, <3>2, <3>3, <3>4 DEF TypeOK
  <2> QED
    BY <2>1, <2>2
<1>25. ASSUME NEW r \in Req, UploadDone(r)
     PROVE  TypeOK'
  <2>1. ClientTypes'
    BY <1>25, FilesAssumption, ModesAssumption, RequestsAssumption
    DEF UploadDone, TypeOK, ClientTypes, clientVars
  <2>2. FileTypes'
    BY <1>25, FilesAssumption, ModesAssumption, RequestsAssumption
    DEF UploadDone, TypeOK, FileTypes, fileVars
  <2>3. TableTypes'
    BY <1>25, FilesAssumption, ModesAssumption, RequestsAssumption
    DEF UploadDone, TypeOK, TableTypes, Timer, ThreadTypes, Entry, Transaction, AllModes,
        backupVars, transVars
  <2>4. ThreadTypes'
    BY <1>25, FilesAssumption, ModesAssumption, RequestsAssumption
    DEF UploadDone, TypeOK, TableTypes, ThreadTypes, WorkerStep, IoStep, DlStep,
        AllModes, Entry, Transaction, transVars, backupVars, Unlocked, Idle, IoIdle, DlIdle
  <2> QED
    BY <2>1, <2>2, <2>3, <2>4 DEF TypeOK
<1>26. ASSUME NEW r \in Req, RequesterLeaves(r)
     PROVE  TypeOK'
  <2>1. ClientTypes'
    BY <1>26, FilesAssumption, ModesAssumption, RequestsAssumption
    DEF RequesterLeaves, TypeOK, ClientTypes, clientVars
  <2>2. FileTypes'
    BY <1>26, FilesAssumption, ModesAssumption, RequestsAssumption
    DEF RequesterLeaves, TypeOK, FileTypes, fileVars
  <2>3. TableTypes'
    BY <1>26, FilesAssumption, ModesAssumption, RequestsAssumption
    DEF RequesterLeaves, TypeOK, TableTypes, Timer, ThreadTypes, Entry, Transaction, AllModes,
        backupVars, transVars
  <2>4. ThreadTypes'
    BY <1>26, FilesAssumption, ModesAssumption, RequestsAssumption
    DEF RequesterLeaves, TypeOK, TableTypes, ThreadTypes, WorkerStep, IoStep, DlStep,
        AllModes, Entry, Transaction, transVars, backupVars, Unlocked, Idle, IoIdle, DlIdle
  <2> QED
    BY <2>1, <2>2, <2>3, <2>4 DEF TypeOK
<1>27. ASSUME NEW f \in File, OwnerLeaves(f)
     PROVE  TypeOK'
  <2>1. ClientTypes'
    BY <1>27, FilesAssumption, ModesAssumption, RequestsAssumption
    DEF OwnerLeaves, TypeOK, ClientTypes, clientVars
  <2>2. FileTypes'
    BY <1>27, FilesAssumption, ModesAssumption, RequestsAssumption
    DEF OwnerLeaves, TypeOK, FileTypes, fileVars
  <2>3. TableTypes'
    BY <1>27, FilesAssumption, ModesAssumption, RequestsAssumption
    DEF OwnerLeaves, TypeOK, TableTypes, Timer, ThreadTypes, Entry, Transaction, AllModes,
        backupVars, transVars
  <2>4. ThreadTypes'
    BY <1>27, FilesAssumption, ModesAssumption, RequestsAssumption
    DEF OwnerLeaves, TypeOK, TableTypes, ThreadTypes, WorkerStep, IoStep, DlStep,
        AllModes, Entry, Transaction, transVars, backupVars, Unlocked, Idle, IoIdle, DlIdle
  <2> QED
    BY <2>1, <2>2, <2>3, <2>4 DEF TypeOK
<1>28. ASSUME UNCHANGED vars PROVE TypeOK'
  BY <1>28 DEF TypeOK, ClientTypes, FileTypes, TableTypes, ThreadTypes, Entry,
      Transaction, AllModes, WorkerStep, IoStep, DlStep, clientVars, fileVars,
      backupVars, transVars, vars
<1> QED
  BY <1>1, <1>2, <1>3, <1>4, <1>5, <1>6, <1>7, <1>8, <1>9, <1>10, <1>11, <1>12, <1>13,
      <1>14, <1>15, <1>16, <1>17, <1>18, <1>19, <1>20, <1>21, <1>22, <1>23, <1>24, <1>25,
      <1>26, <1>27, <1>28, NextCases

----------------------------------------------------------------------------
(* Where a request may be.  A request that has no answer yet is with one   *)
(* worker or in one entry and nowhere else, so nobody who answers the      *)
(* requests of an entry meets one that somebody else answers, too.         *)

Unsettled(r) == r \in taken /\ replies[r] = <<>> /\ r \notin lost

OneHolder ==
  /\ \A w \in Worker : step[w].req # None => Unsettled(step[w].req)
  /\ \A u, w \in Worker : u # w /\ step[u].req = step[w].req => step[u].req = None

OneEntry ==
  /\ \A i \in DOMAIN backed :
       /\ backed[i].reqs # {}
       /\ \A r \in backed[i].reqs : Unsettled(r) /\ \A w \in Worker : step[w].req # r
  /\ \A i, j \in DOMAIN backed : i # j => backed[i].reqs \cap backed[j].reqs = {}

Untaken ==
  /\ \A r \in Req \ taken : replies[r] = <<>>
  /\ \A r \in lost : r \in taken /\ replies[r] = <<>>

Custody == OneHolder /\ OneEntry /\ Untaken /\ AnsweredOnce /\ Accounted

(* The initial state has no request anywhere.                              *)
LEMMA CustodyInit == Init => Custody
  BY DEF Init, Custody, OneHolder, OneEntry, Untaken, AnsweredOnce, Accounted, Idle

(* After a crash nobody holds a request.                                   *)
LEMMA CustodyCrash == Custody /\ Crash => Custody'
<1> SUFFICES ASSUME Custody, Crash PROVE Custody'
  OBVIOUS
<1>1. /\ DOMAIN backed' = {} /\ crashed'
      /\ \A w \in Worker : step'[w].req = None
      /\ UNCHANGED <<taken, replies, gone, lost>>
  BY DEF Crash, Idle, clientVars
<1> QED
  BY <1>1 DEF Custody, OneHolder, OneEntry, Untaken, AnsweredOnce, Accounted

(* A step that moves no request keeps the custody.                         *)
LEMMA CustodyStable ==
  ASSUME Custody,
         \A w \in Worker : step'[w].req = step[w].req,
         DOMAIN backed' = DOMAIN backed,
         \A i \in DOMAIN backed : backed'[i].reqs = backed[i].reqs,
         UNCHANGED <<taken, replies, lost, crashed>>, gone \subseteq gone'
  PROVE  Custody'
<1>1. OneHolder'
  BY DEF Custody, OneHolder, Unsettled
<1>2. OneEntry'
  BY DEF Custody, OneEntry, Unsettled
<1>3. Untaken' /\ AnsweredOnce'
  BY DEF Custody, Untaken, AnsweredOnce
<1>4. Accounted'
  <2> SUFFICES ASSUME NEW r \in taken, ~crashed, replies[r] = <<>>, r \notin gone \cup lost
               PROVE  r \in Held' \/ \E i \in DOMAIN backed : r \in backed'[i].reqs
    BY DEF Accounted
  <2>1. r \in Held \/ \E i \in DOMAIN backed : r \in backed[i].reqs
    BY DEF Custody, Accounted
  <2> QED
    BY <2>1 DEF Held
<1> QED
  BY <1>1, <1>2, <1>3, <1>4 DEF Custody

(* Answering all the waiting requests of an entry and erasing it.          *)
LEMMA CustodySettle ==
  ASSUME TypeOK, Custody, NEW i,
         backed' = Drop(backed, i),
         \A r \in Waiting(i) : Len(replies'[r]) = 1,
         \A r \in Req \ Waiting(i) : replies'[r] = replies[r],
         UNCHANGED <<taken, gone, lost, crashed, step>>
  PROVE  Custody'
<1>1. /\ DOMAIN backed' = DOMAIN backed \ {i}
      /\ \A j \in DOMAIN backed \ {i} : backed'[j] = backed[j]
  BY DEF Drop
<1>2. \A j \in DOMAIN backed : backed[j].reqs \subseteq Req
  BY DEF TypeOK, TableTypes, Entry
<1>3. \A r \in Waiting(i) : r \in Req /\ Unsettled(r) /\ \A w \in Worker : step[w].req # r
  BY <1>2 DEF Waiting, Custody, OneEntry
<1>4. \A j \in DOMAIN backed' : backed[j].reqs \cap Waiting(i) = {}
  BY <1>1 DEF Waiting, Custody, OneEntry
<1>5. \A w \in Worker : step[w].req \in Req \cup {None}
  BY DEF TypeOK, ThreadTypes
<1>6. OneHolder'
  BY <1>3, <1>5 DEF Custody, OneHolder, Unsettled
<1>7. OneEntry'
  BY <1>1, <1>2, <1>4 DEF Custody, OneEntry, Unsettled
<1>8. Untaken'
  <2>1. lost \subseteq Req
    BY DEF TypeOK, ClientTypes
  <2> QED
    BY <1>3, <2>1 DEF Custody, Untaken, Unsettled
<1>9. AnsweredOnce'
  <2> SUFFICES ASSUME NEW r \in Req PROVE Len(replies'[r]) <= 1
    BY DEF AnsweredOnce
  <2>1. CASE r \in Waiting(i)
    <3>1. Len(replies'[r]) = 1
      BY <2>1
    <3> QED
      BY <3>1
  <2>2. CASE r \notin Waiting(i)
    <3>1. replies'[r] = replies[r]
      BY <2>2
    <3>2. Len(replies[r]) <= 1
      BY DEF Custody, AnsweredOnce
    <3> QED
      BY <3>1, <3>2
  <2> QED
    BY <2>1, <2>2
<1>10. Accounted'
  <2> SUFFICES ASSUME NEW r \in taken, ~crashed, replies'[r] = <<>>, r \notin gone \cup lost
               PROVE  r \in Held' \/ \E j \in DOMAIN backed' : r \in backed'[j].reqs
    BY DEF Accounted
  <2>1. r \in Req
    BY DEF TypeOK, ClientTypes
  <2>2. r \notin Waiting(i)
    <3>1. Len(replies'[r]) # 1
      OBVIOUS
    <3> QED
      BY <3>1
  <2>3. replies[r] = <<>>
    BY <2>1, <2>2
  <2>4. r \in Held \/ \E j \in DOMAIN backed : r \in backed[j].reqs
    BY <2>3 DEF Custody, Accounted
  <2>5. CASE r \in Held
    BY <2>5 DEF Held
  <2>6. ASSUME NEW j \in DOMAIN backed, r \in backed[j].reqs
        PROVE  j # i
    BY <2>2, <2>6 DEF Waiting
  <2> QED
    BY <1>1, <2>4, <2>5, <2>6
<1> QED
  BY <1>6, <1>7, <1>8, <1>9, <1>10 DEF Custody

(* Denying the waiting requests of an entry settles them.                  *)
LEMMA CustodyDeny ==
  ASSUME TypeOK, Custody, NEW i, DenyAll(i),
         UNCHANGED <<taken, gone, lost, crashed, step>>
  PROVE  Custody'
<1>1. \A r \in Waiting(i) : r \in Req /\ replies[r] = <<>>
  BY DEF Waiting, TypeOK, TableTypes, Entry, Custody, OneEntry, Unsettled
<1>2. \A r \in Waiting(i) : Len(replies'[r]) = 1
  BY <1>1 DEF DenyAll, Answer
<1>3. \A r \in Req \ Waiting(i) : replies'[r] = replies[r]
  BY DEF DenyAll, Answer
<1> QED
  BY <1>2, <1>3, CustodySettle DEF DenyAll

(* One request is answered by the worker that serves it.                   *)
LEMMA CustodyAnswer ==
  ASSUME TypeOK, Custody, NEW r \in Req, r \notin lost,
         \A w \in Worker : step'[w].req = IF step[w].req = r THEN None ELSE step[w].req,
         \A i \in DOMAIN backed : r \notin backed[i].reqs,
         Len(replies'[r]) = 1,
         \A s \in Req \ {r} : replies'[s] = replies[s],
         taken' = taken \cup {r}, UNCHANGED <<backed, gone, lost, crashed>>
  PROVE  Custody'
<1>1. /\ \A i \in DOMAIN backed : backed[i].reqs \subseteq Req
      /\ taken \subseteq Req /\ lost \subseteq Req
      /\ \A w \in Worker : step[w].req \in Req \cup {None}
  BY DEF TypeOK, TableTypes, ClientTypes, ThreadTypes, Entry
<1>2. r # None /\ replies'[r] # <<>>
  BY RequestsAssumption
<1>3. OneHolder'
  BY <1>1, <1>2 DEF Custody, OneHolder, Unsettled
<1>4. OneEntry'
  <2>1. \A i \in DOMAIN backed : \A s \in backed[i].reqs :
          /\ s # r /\ s # None /\ s \in Req /\ Unsettled(s)
          /\ \A w \in Worker : step[w].req # s
    BY <1>1, RequestsAssumption DEF Custody, OneEntry
  <2>2. \A i \in DOMAIN backed : \A s \in backed[i].reqs :
          Unsettled(s)' /\ \A w \in Worker : step'[w].req # s
    BY <2>1 DEF Unsettled
  <2> QED
    BY <2>2 DEF Custody, OneEntry
<1>5. Untaken'
  BY <1>1 DEF Custody, Untaken
<1>6. AnsweredOnce'
  <2>1. \A s \in Req \ {r} : Len(replies'[s]) <= 1
    BY DEF Custody, AnsweredOnce
  <2>2. Len(replies'[r]) <= 1
    OBVIOUS
  <2>3. \A s \in Req : Len(replies'[s]) <= 1
    BY <2>1, <2>2
  <2> QED
    BY <2>3 DEF AnsweredOnce
<1>7. Accounted'
  <2> SUFFICES ASSUME NEW s \in taken, s # r, ~crashed, replies[s] = <<>>,
                      s \notin gone \cup lost
               PROVE  s \in Held' \/ \E i \in DOMAIN backed : s \in backed[i].reqs
    BY <1>1, <1>2 DEF Accounted
  <2>1. s \in Held \/ \E i \in DOMAIN backed : s \in backed[i].reqs
    BY DEF Custody, Accounted
  <2> QED
    BY <2>1 DEF Held
<1> QED
  BY <1>3, <1>4, <1>5, <1>6, <1>7 DEF Custody

(* Serving a query answers it, or the worker takes it.                     *)
LEMMA CustodyServe ==
  ASSUME TypeOK, Custody, NEW w \in Worker, NEW r \in Req, Serve(w, r)
  PROVE  Custody'
<1>1. /\ r \notin taken /\ r \notin lost /\ replies[r] = <<>> /\ r # None
      /\ taken' = taken \cup {r}
      /\ UNCHANGED <<backed, gone, lost, crashed>>
  BY RequestsAssumption DEF Serve, Custody, Untaken, backupVars
<1>2. /\ \A i \in DOMAIN backed : r \notin backed[i].reqs
      /\ \A u \in Worker : step[u].req # r
  BY <1>1 DEF Custody, OneEntry, OneHolder, Unsettled
<1>3. step[w].req = None
  BY DEF Serve, TypeOK, ThreadTypes
<1>4. ASSUME NEW kind, Answer({r}, kind), UNCHANGED step
      PROVE  Custody'
  <2>1. Len(replies'[r]) = 1 /\ \A s \in Req \ {r} : replies'[s] = replies[s]
    BY <1>1, <1>4 DEF Answer
  <2>2. \A u \in Worker : step'[u].req = IF step[u].req = r THEN None ELSE step[u].req
    BY <1>2, <1>4
  <2> QED
    BY <1>1, <1>2, <2>1, <2>2, CustodyAnswer
<1>5. CASE ~UNCHANGED step
  <2>1. /\ step'[w].req = r
        /\ \A u \in Worker \ {w} : step'[u] = step[u]
        /\ UNCHANGED replies
    BY <1>5 DEF Serve, TypeOK, ThreadTypes
  <2>2. OneHolder'
    BY <1>1, <1>2, <2>1 DEF Custody, OneHolder, Unsettled
  <2>3. OneEntry'
    BY <1>1, <1>2, <2>1 DEF Custody, OneEntry, Unsettled
  <2>4. Untaken' /\ AnsweredOnce'
    BY <1>1, <2>1 DEF Custody, Untaken, AnsweredOnce
  <2>5. Accounted'
    <3> SUFFICES ASSUME NEW s \in taken', ~crashed, replies[s] = <<>>, s \notin gone \cup lost
                 PROVE  s \in Held' \/ \E i \in DOMAIN backed : s \in backed[i].reqs
      BY <1>1, <2>1 DEF Accounted
    <3>1. s \in Held' \/ \E i \in DOMAIN backed : s \in backed[i].reqs
      <4>1. CASE s = r
        BY <4>1, <1>1, <2>1 DEF Held
      <4>2. CASE s # r
        <5>1. s \in Held \/ \E i \in DOMAIN backed : s \in backed[i].reqs
          BY <1>1, <4>2 DEF Custody, Accounted
        <5> QED
          BY <1>3, <2>1, <5>1 DEF Held
      <4> QED
        BY <4>1, <4>2
    <3> QED
      BY <3>1
  <2> QED
    BY <2>2, <2>3, <2>4, <2>5 DEF Custody
<1>6. CASE UNCHANGED step
  <2>1. CASE Answer({r}, "ssl")
    BY <1>4, <1>6, <2>1
  <2>2. CASE Answer({r}, "deny")
    BY <1>4, <1>6, <2>2
  <2>3. CASE /\ FileOf[r] \in online
             /\ step' = [step EXCEPT ![w] =
                   [at |-> IF FileOf[r] \in cached THEN "deliver" ELSE "pending",
                    req |-> r, id |-> 0]]
    <3>1. step'[w].req = r
      BY <2>3 DEF TypeOK, ThreadTypes
    <3> QED
      BY <1>2, <1>6, <3>1
  <2> QED
    BY <2>1, <2>2, <2>3 DEF Serve
<1> QED
  BY <1>5, <1>6

(* What a worker with a request knows of it.                               *)
LEMMA HolderFacts ==
  ASSUME TypeOK, Custody, NEW w \in Worker, step[w].at \notin {"idle", "start"}
  PROVE  /\ step[w].req \in Req /\ step[w].req # None /\ Unsettled(step[w].req)
         /\ \A i \in DOMAIN backed : step[w].req \notin backed[i].reqs
         /\ \A u \in Worker \ {w} : step[u].req # step[w].req
<1>1. step[w].req \in Req /\ step[w].req # None
  BY DEF TypeOK, ThreadTypes
<1> QED
  BY <1>1 DEF Custody, OneHolder, OneEntry

(* A worker delivers its request's file, or denies it.                     *)
LEMMA CustodyDeliver ==
  ASSUME TypeOK, Custody, NEW w \in Worker, DeliverFileFromLocalStorage(w)
  PROVE  Custody'
<1> DEFINE r == step[w].req
<1>1. /\ r \in Req /\ r # None /\ Unsettled(r)
      /\ \A i \in DOMAIN backed : r \notin backed[i].reqs
      /\ \A u \in Worker \ {w} : step[u].req # r
  BY HolderFacts DEF DeliverFileFromLocalStorage
<1>2. /\ Len(replies'[r]) = 1
      /\ \A s \in Req \ {r} : replies'[s] = replies[s]
  <2>1. PICK D : Deliver({r}, D, FileOf[r])
    BY DEF DeliverFileFromLocalStorage
  <2>2. replies'[r] = Append(replies[r], IF r \in D THEN "deliver" ELSE "deny")
    BY <1>1, <2>1 DEF Deliver
  <2>3. \A s \in Req \ {r} : replies'[s] = replies[s]
    BY <2>1 DEF Deliver
  <2>4. replies[r] = <<>>
    BY <1>1 DEF Unsettled
  <2> QED
    BY <2>2, <2>3, <2>4
<1>3. \A u \in Worker : step'[u].req = IF step[u].req = r THEN None ELSE step[u].req
  BY <1>1 DEF DeliverFileFromLocalStorage, Release, Idle, TypeOK, ThreadTypes
<1>4. r \notin lost /\ taken' = taken \cup {r} /\ UNCHANGED <<backed, gone, lost, crashed>>
  BY <1>1 DEF Unsettled, DeliverFileFromLocalStorage, backupVars
<1> HIDE DEF r
<1> QED
  BY <1>1, <1>2, <1>3, <1>4, CustodyAnswer

(* A worker hands its request to an entry.                                 *)
LEMMA CustodyHandOver ==
  ASSUME TypeOK, Custody, NEW w \in Worker, step[w].at \notin {"idle", "start"}, NEW i,
         NEW v, v.req = None, step' = [step EXCEPT ![w] = v],
         DOMAIN backed' = DOMAIN backed \cup {i},
         backed'[i].reqs = {step[w].req} \cup IF i \in DOMAIN backed THEN backed[i].reqs ELSE {},
         \A j \in DOMAIN backed \ {i} : backed'[j].reqs = backed[j].reqs,
         UNCHANGED <<taken, replies, gone, lost, crashed>>
  PROVE  Custody'
<1> DEFINE r == step[w].req
<1>1. /\ r \in Req /\ r # None /\ Unsettled(r)
      /\ \A j \in DOMAIN backed : r \notin backed[j].reqs
      /\ \A u \in Worker \ {w} : step[u].req # r
  BY HolderFacts
<1>2. step'[w].req = None /\ \A u \in Worker \ {w} : step'[u] = step[u]
  BY DEF TypeOK, ThreadTypes
<1>3. OneHolder'
  BY <1>1, <1>2 DEF Custody, OneHolder, Unsettled
<1>4. \A j \in DOMAIN backed' : \A s \in backed'[j].reqs :
        \/ j = i /\ s = r
        \/ j \in DOMAIN backed /\ s \in backed[j].reqs
  OBVIOUS
<1>5. OneEntry'
  <2>1. \A j \in DOMAIN backed' : backed'[j].reqs # {}
    BY DEF Custody, OneEntry
  <2>2. \A j \in DOMAIN backed' : \A s \in backed'[j].reqs :
          Unsettled(s)' /\ \A u \in Worker : step'[u].req # s
    <3> SUFFICES ASSUME NEW j \in DOMAIN backed', NEW s \in backed'[j].reqs
                 PROVE  Unsettled(s) /\ \A u \in Worker : step'[u].req # s
      BY DEF Unsettled
    <3>1. CASE s = r
      BY <1>1, <1>2, <3>1
    <3>2. CASE j \in DOMAIN backed /\ s \in backed[j].reqs
      <4>1. s \in Req /\ s # None
        BY <3>2, RequestsAssumption DEF TypeOK, TableTypes, Entry
      <4> QED
        BY <1>2, <3>2, <4>1 DEF Custody, OneEntry
    <3> QED
      BY <1>4, <3>1, <3>2
  <2>3. ASSUME NEW j \in DOMAIN backed', NEW k \in DOMAIN backed', j # k,
               NEW s \in backed'[j].reqs, s \in backed'[k].reqs
        PROVE  FALSE
    BY <1>1, <1>4, <2>3 DEF Custody, OneEntry
  <2> QED
    BY <2>1, <2>2, <2>3 DEF OneEntry
<1>6. Untaken' /\ AnsweredOnce'
  BY DEF Custody, Untaken, AnsweredOnce
<1>7. Accounted'
  <2> SUFFICES ASSUME NEW s \in taken, ~crashed, replies[s] = <<>>, s \notin gone \cup lost
               PROVE  s \in Held' \/ \E j \in DOMAIN backed' : s \in backed'[j].reqs
    BY DEF Accounted
  <2>1. CASE s = r
    BY <2>1
  <2>2. CASE \E j \in DOMAIN backed : s \in backed[j].reqs
    <3>1. PICK j \in DOMAIN backed : s \in backed[j].reqs
      BY <2>2
    <3>2. s \in backed'[j].reqs
      BY <3>1
    <3> QED
      BY <3>2
  <2>3. CASE s # r /\ s \in Held
    BY <1>2, <2>3 DEF Held
  <2> QED
    BY <2>1, <2>2, <2>3 DEF Custody, Accounted
<1> QED
  BY <1>3, <1>5, <1>6, <1>7 DEF Custody

LEMMA CustodyPending ==
  ASSUME TypeOK, Custody, NEW w \in Worker, IsDownloadPending(w)
  PROVE  Custody'
<1>1. /\ UNCHANGED <<taken, replies, gone, lost, crashed>>
      /\ step[w].at \notin {"idle", "start"} /\ Idle.req = None
  BY DEF IsDownloadPending, Idle
<1>2. CASE UNCHANGED backed /\ Goto(w, "load")
  <2>1. \A u \in Worker : step'[u].req = step[u].req
    BY <1>2 DEF Goto, TypeOK, ThreadTypes
  <2> QED
    BY <1>1, <1>2, <2>1, CustodyStable
<1>3. ASSUME NEW i \in Pending(FileOf[step[w].req]),
             backed' = [backed EXCEPT ![i].reqs = @ \cup {step[w].req}], Release(w)
      PROVE  Custody'
  <2>1. i \in DOMAIN backed /\ backed[i] \in Entry
    BY DEF Pending, TypeOK, TableTypes
  <2>2. /\ DOMAIN backed' = DOMAIN backed \cup {i}
        /\ backed'[i].reqs = {step[w].req} \cup backed[i].reqs
        /\ \A j \in DOMAIN backed \ {i} : backed'[j].reqs = backed[j].reqs
    BY <1>3, <2>1 DEF Entry
  <2> QED
    BY <1>1, <1>3, <2>1, <2>2, CustodyHandOver DEF Release
<1> QED
  BY <1>2, <1>3 DEF IsDownloadPending

(* A backup hands the request over, or loses it.                           *)
LEMMA CustodyEmplace ==
  ASSUME TypeOK, Custody, NEW w \in Worker, EmplaceBackup(w)
  PROVE  Custody'
<1> DEFINE r == step[w].req
<1> DEFINE v == [at |-> "start", req |-> None, id |-> counter]
<1>1. /\ UNCHANGED <<taken, replies, gone, crashed>>
      /\ step[w].at \notin {"idle", "start"}
      /\ step' = [step EXCEPT ![w] = v] /\ v.req = None
  BY DEF EmplaceBackup
<1> HIDE DEF v
<1>2. CASE counter \notin DOMAIN backed
  <2>1. /\ DOMAIN backed' = DOMAIN backed \cup {counter}
        /\ backed'[counter].reqs = {r}
        /\ \A j \in DOMAIN backed \ {counter} : backed'[j].reqs = backed[j].reqs
        /\ UNCHANGED lost
    BY <1>2 DEF EmplaceBackup, Put
  <2>2. backed'[counter].reqs =
          {r} \cup IF counter \in DOMAIN backed THEN backed[counter].reqs ELSE {}
    BY <1>2, <2>1
  <2> QED
    BY <1>1, <2>1, <2>2, CustodyHandOver
<1>3. CASE counter \in DOMAIN backed
  <2>1. /\ DOMAIN backed' = DOMAIN backed
        /\ \A j \in DOMAIN backed : backed'[j].reqs = backed[j].reqs
        /\ lost' = lost \cup {r}
    BY <1>3 DEF EmplaceBackup, TypeOK, TableTypes, Entry
  <2>2. /\ r \in Req /\ r # None /\ Unsettled(r)
        /\ \A j \in DOMAIN backed : r \notin backed[j].reqs
        /\ \A u \in Worker \ {w} : step[u].req # r
    BY <1>1, HolderFacts
  <2>3. step'[w].req = None /\ \A u \in Worker \ {w} : step'[u] = step[u]
    BY <1>1 DEF TypeOK, ThreadTypes
  <2>4. OneHolder'
    BY <1>1, <2>1, <2>2, <2>3 DEF Custody, OneHolder, Unsettled
  <2>5. OneEntry'
    <3>1. \A j \in DOMAIN backed : \A s \in backed[j].reqs :
            /\ s # r /\ s # None /\ Unsettled(s)
            /\ \A u \in Worker : step[u].req # s
      BY <2>2, RequestsAssumption DEF Custody, OneEntry, TypeOK, TableTypes, Entry
    <3>2. \A j \in DOMAIN backed : \A s \in backed[j].reqs :
            Unsettled(s)' /\ \A u \in Worker : step'[u].req # s
      BY <1>1, <2>1, <2>3, <3>1 DEF Unsettled
    <3> QED
      BY <2>1, <3>2 DEF Custody, OneEntry
  <2>6. Untaken' /\ AnsweredOnce'
    BY <1>1, <2>1, <2>2 DEF Custody, Untaken, AnsweredOnce, Unsettled
  <2>7. Accounted'
    <3> SUFFICES ASSUME NEW s \in taken, ~crashed, replies[s] = <<>>, s # r,
                        s \notin gone \cup lost
                 PROVE  s \in Held' \/ \E j \in DOMAIN backed' : s \in backed'[j].reqs
      BY <1>1, <2>1 DEF Accounted
    <3>1. s \in Held \/ \E j \in DOMAIN backed : s \in backed[j].reqs
      BY DEF Custody, Accounted
    <3> QED
      BY <2>1, <2>3, <3>1 DEF Held
  <2> QED
    BY <2>4, <2>5, <2>6, <2>7 DEF Custody
<1> QED
  BY <1>2, <1>3

(* The waiting requests of a transaction are delivered to or denied.       *)
LEMMA CustodyDeliverToAll ==
  ASSUME TypeOK, Custody, DeliverToAll
  PROVE  Custody'
<1> DEFINE W == Waiting(dl.id)
<1>1. \A r \in W : r \in Req /\ replies[r] = <<>>
  BY DEF Waiting, TypeOK, TableTypes, Entry, Custody, OneEntry, Unsettled
<1>2. PICK D : Deliver(W, D, trans[dl.id].file)
  BY DEF DeliverToAll
<1>3. \A r \in W : replies'[r] = Append(<<>>, IF r \in D THEN "deliver" ELSE "deny")
  BY <1>1, <1>2 DEF Deliver
<1>4. \A r \in Req \ W : replies'[r] = replies[r]
  BY <1>2 DEF Deliver
<1>5. \A r \in W : Len(replies'[r]) = 1
  BY <1>3
<1> QED
  BY <1>4, <1>5, CustodySettle DEF DeliverToAll

(* Every step keeps the custody of the requests.                           *)
LEMMA CustodyNext ==
  ASSUME TypeOK, Custody, [Next]_vars
  PROVE  Custody'
<1>1. ASSUME NEW w \in Worker, NEW r \in Req, Serve(w, r)
     PROVE  Custody'
  BY <1>1, CustodyServe
<1>2. ASSUME NEW w \in Worker, DeliverFileFromLocalStorage(w)
     PROVE  Custody'
  BY <1>2, CustodyDeliver
<1>3. ASSUME NEW w \in Worker, IsDownloadPending(w)
     PROVE  Custody'
  BY <1>3, CustodyPending
<1>4. ASSUME NEW w \in Worker, LoadCounter(w)
     PROVE  Custody'
  <2>1. \A v \in Worker : step'[v].req = step[v].req
    BY <1>4 DEF LoadCounter, Goto, TypeOK, ThreadTypes
  <2>2. UNCHANGED <<backed, taken, replies, lost, crashed, gone>>
    BY <1>4 DEF LoadCounter, clientVars, backupVars
  <2> QED
    BY <2>1, <2>2, CustodyStable
<1>5. ASSUME NEW w \in Worker, StoreCounter(w)
     PROVE  Custody'
  <2>1. \A v \in Worker : step'[v].req = step[v].req
    BY <1>5 DEF StoreCounter, Goto, TypeOK, ThreadTypes
  <2>2. UNCHANGED <<backed, taken, replies, lost, crashed, gone>>
    BY <1>5 DEF StoreCounter, clientVars, backupVars
  <2> QED
    BY <2>1, <2>2, CustodyStable
<1>6. ASSUME NEW w \in Worker, CaptureRequestID(w)
     PROVE  Custody'
  <2>1. \A v \in Worker : step'[v].req = step[v].req
    BY <1>6 DEF CaptureRequestID, Goto, TypeOK, ThreadTypes
  <2>2. UNCHANGED <<backed, taken, replies, lost, crashed, gone>>
    BY <1>6 DEF CaptureRequestID, clientVars, backupVars
  <2> QED
    BY <2>1, <2>2, CustodyStable
<1>7. ASSUME NEW w \in Worker, EmplaceBackup(w)
     PROVE  Custody'
  BY <1>7, CustodyEmplace
<1>8. ASSUME NEW w \in Worker, StartBackupTimer(w)
     PROVE  Custody'
  <2>1. CASE Crash
    BY <2>1, CustodyCrash
  <2>2. CASE ~Crash
    <3>1. step[w].req = None
      BY <1>8 DEF StartBackupTimer, TypeOK, ThreadTypes
    <3>2. \A v \in Worker : step'[v].req = step[v].req
      BY <1>8, <2>2, <3>1 DEF StartBackupTimer, Release, Idle, TypeOK, ThreadTypes
    <3>3. UNCHANGED <<backed, taken, replies, lost, crashed, gone>>
      BY <1>8, <2>2 DEF StartBackupTimer
    <3> QED
      BY <3>2, <3>3, CustodyStable
  <2> QED
    BY <2>1, <2>2
<1>9. ASSUME NEW i \in DOMAIN backed, NEW c \in Modes, DownloadReply(i, c)
     PROVE  Custody'
  <2>1. /\ DOMAIN backed' = DOMAIN backed
        /\ \A j \in DOMAIN backed : backed'[j].reqs = backed[j].reqs
    BY <1>9 DEF DownloadReply, TypeOK, TableTypes, Entry
  <2>2. UNCHANGED <<step, taken, replies, lost, crashed, gone>>
    BY <1>9 DEF DownloadReply, clientVars
  <2> QED
    BY <2>1, <2>2, CustodyStable
<1>10. ASSUME NEW r \in Req, BackupTimer(r)
     PROVE  Custody'
  BY <1>10, CustodyDeny, CustodyCrash DEF BackupTimer
<1>11. ASSUME BeginDownloadTransaction
     PROVE  Custody'
  <2>1. CASE Crash
    BY <2>1, CustodyCrash
  <2>2. CASE ~Crash
    <3>1. UNCHANGED <<step, backed, taken, replies, lost, crashed, gone>>
      BY <1>11, <2>2 DEF BeginDownloadTransaction, clientVars, backupVars
    <3> QED
      BY <3>1, CustodyStable
  <2> QED
    BY <2>1, <2>2
<1>12. ASSUME NotifyFileDownload
     PROVE  Custody'
  <2>1. CASE Crash
    BY <2>1, CustodyCrash
  <2>2. CASE ~Crash
    <3>1. UNCHANGED <<step, backed, taken, replies, lost, crashed, gone>>
      BY <1>12, <2>2 DEF NotifyFileDownload, clientVars, backupVars
    <3> QED
      BY <3>1, CustodyStable
  <2> QED
    BY <2>1, <2>2
<1>13. ASSUME DenyWaiting
     PROVE  Custody'
  BY <1>13, CustodyDeny DEF DenyWaiting
<1>14. ASSUME HandleHandshake
     PROVE  Custody'
  <2>1. UNCHANGED <<step, backed, taken, replies, lost, crashed, gone>>
    BY <1>14 DEF HandleHandshake, clientVars, backupVars
  <2> QED
    BY <2>1, CustodyStable
<1>15. ASSUME HelloRefused
     PROVE  Custody'
  <2>1. UNCHANGED <<step, backed, taken, replies, lost, crashed, gone>>
    BY <1>15 DEF HelloRefused, clientVars, backupVars
  <2> QED
    BY <2>1, CustodyStable
<1>16. ASSUME NEW i \in DOMAIN trans, TryStartDownloadTransaction(i)
     PROVE  Custody'
  <2>1. CASE Crash
    BY <2>1, CustodyCrash
  <2>2. CASE ~Crash
    <3>1. UNCHANGED <<step, backed, taken, replies, lost, crashed, gone>>
      BY <1>16, <2>2 DEF TryStartDownloadTransaction, clientVars, backupVars
    <3> QED
      BY <3>1, CustodyStable
  <2> QED
    BY <2>1, <2>2
<1>17. ASSUME ReadHeader
     PROVE  Custody'
  <2>1. CASE Crash
    BY <2>1, CustodyCrash
  <2>2. CASE ~Crash
    <3>1. UNCHANGED <<step, backed, taken, replies, lost, crashed, gone>>
      BY <1>17, <2>2 DEF ReadHeader, clientVars, backupVars
    <3> QED
      BY <3>1, CustodyStable
  <2> QED
    BY <2>1, <2>2
<1>18. ASSUME NEW i \in DOMAIN trans, NEW ok \in BOOLEAN, Received(i, ok)
     PROVE  Custody'
  <2>1. UNCHANGED <<step, backed, taken, replies, lost, crashed, gone>>
    BY <1>18 DEF Received, clientVars, backupVars
  <2> QED
    BY <2>1, CustodyStable
<1>19. ASSUME CloseDownloadTransaction
     PROVE  Custody'
  <2>1. UNCHANGED <<step, backed, taken, replies, lost, crashed, gone>>
    BY <1>19 DEF CloseDownloadTransaction, clientVars, backupVars
  <2> QED
    BY <2>1, CustodyStable
<1>20. ASSUME SetFileToCached
     PROVE  Custody'
  <2>1. CASE Crash
    BY <2>1, CustodyCrash
  <2>2. CASE ~Crash
    <3>1. UNCHANGED <<step, backed, taken, replies, lost, crashed, gone>>
      BY <1>20, <2>2 DEF SetFileToCached, clientVars, backupVars
    <3> QED
      BY <3>1, CustodyStable
  <2> QED
    BY <2>1, <2>2
<1>21. ASSUME DeliverToAll
     PROVE  Custody'
  BY <1>21, CustodyDeliverToAll
<1>22. ASSUME DenyToAll
     PROVE  Custody'
  BY <1>22, CustodyDeny DEF DenyToAll
<1>23. ASSUME EndDownloadTransaction
     PROVE  Custody'
  <2>1. CASE Crash
    BY <2>1, CustodyCrash
  <2>2. CASE ~Crash
    <3>1. UNCHANGED <<step, backed, taken, replies, lost, crashed, gone>>
      BY <1>23, <2>2 DEF EndDownloadTransaction, clientVars, backupVars
    <3> QED
      BY <3>1, CustodyStable
  <2> QED
    BY <2>1, <2>2
<1>24. ASSUME NEW i \in armed, TransactionTimer(i)
     PROVE  Custody'
  <2>1. CASE Crash
    BY <2>1, CustodyCrash
  <2>2. CASE ~Crash
    <3>1. UNCHANGED <<step, backed, taken, replies, lost, crashed, gone>>
      BY <1>24, <2>2 DEF TransactionTimer, clientVars, backupVars
    <3> QED
      BY <3>1, CustodyStable
  <2> QED
    BY <2>1, <2>2
<1>25. ASSUME NEW r \in Req, UploadDone(r)
     PROVE  Custody'
  <2>1. UNCHANGED <<step, backed, taken, replies, lost, crashed, gone>>
    BY <1>25 DEF UploadDone, clientVars, backupVars
  <2> QED
    BY <2>1, CustodyStable
<1>26. ASSUME NEW r \in Req, RequesterLeaves(r)
     PROVE  Custody'
  <2>1. UNCHANGED <<step, backed, taken, replies, lost, crashed>> /\ gone \subseteq gone'
    BY <1>26 DEF RequesterLeaves, backupVars
  <2> QED
    BY <2>1, CustodyStable
<1>27. ASSUME NEW f \in File, OwnerLeaves(f)
     PROVE  Custody'
  <2>1. UNCHANGED <<step, backed, taken, replies, lost, crashed, gone>>
    BY <1>27 DEF OwnerLeaves, clientVars, backupVars
  <2> QED
    BY <2>1, CustodyStable
<1>28. ASSUME UNCHANGED vars PROVE Custody'
  <2>1. UNCHANGED <<step, backed, taken, replies, lost, crashed, gone>>
    BY <1>28 DEF vars, clientVars, backupVars
  <2> QED
    BY <2>1, CustodyStable
<1> QED
  BY <1>1, <1>2, <1>3, <1>4, <1>5, <1>6, <1>7, <1>8, <1>9, <1>10, <1>11, <1>12, <1>13,
      <1>14, <1>15, <1>16, <1>17, <1>18, <1>19, <1>20, <1>21, <1>22, <1>23, <1>24, <1>25,
      <1>26, <1>27, <1>28, NextCases

----------------------------------------------------------------------------
(* The timers of the backup.  A timer is new until a worker starts it; the *)
(* timer of an entry was made by a request that waits in it and names the  *)
(* entry's id, unless that request is stranded.                            *)

OneStarter == \A u, w \in Worker : step[u].at = "start" /\ step[w].at = "start" => u = w

Owned ==
  \A i \in DOMAIN backed :
    /\ backed[i].timer \in backed[i].reqs
    /\ backed[i].timer \in stranded \/ timers[backed[i].timer].names = i

Unstarted ==
  /\ \A r \in Req \ taken : timers[r].at = "new"
  /\ \A w \in Worker : step[w].req # None => timers[step[w].req].at = "new"
  /\ stranded \subseteq taken

(* The counter changes under a worker only by the hand of another one, so  *)
(* a request is never stranded alone.                                      *)
Overtaken ==
  \A w \in Worker :
    /\ step[w].at = "emplace" /\ timers[step[w].req].names # counter =>
         \E q \in taken : q # step[w].req
    /\ step[w].at = "start" /\ step[w].id # counter =>
         \E q \in taken : q # backed[step[w].id].timer

Timing == OneStarter /\ Owned /\ Unstarted /\ Overtaken

(* The steps that concern neither workers, nor the backup, nor timers.     *)
timingVars == <<step, backed, timers, counter, taken, stranded>>

LEMMA TimingCases ==
  ASSUME [Next]_vars
  PROVE  \/ \E w \in Worker, r \in Req : Serve(w, r)
         \/ \E w \in Worker : DeliverFileFromLocalStorage(w)
         \/ \E w \in Worker : IsDownloadPending(w)
         \/ \E w \in Worker : LoadCounter(w)
         \/ \E w \in Worker : StoreCounter(w)
         \/ \E w \in Worker : CaptureRequestID(w)
         \/ \E w \in Worker : EmplaceBackup(w)
         \/ \E w \in Worker : StartBackupTimer(w)
         \/ \E i \in DOMAIN backed, c \in Modes : DownloadReply(i, c)
         \/ \E r \in Req : BackupTimer(r)
         \/ DenyWaiting \/ DenyToAll \/ DeliverToAll
         \/ Crash
         \/ UNCHANGED timingVars
<1>1. CASE UNCHANGED vars
  BY <1>1 DEF vars, clientVars, backupVars, timingVars
<1>2. ASSUME BeginDownloadTransaction \/ NotifyFileDownload \/ HandleHandshake
             \/ HelloRefused \/ ReadHeader
      PROVE  Crash \/ UNCHANGED timingVars
  BY <1>2 DEF BeginDownloadTransaction, NotifyFileDownload, HandleHandshake, HelloRefused,
      ReadHeader, clientVars, backupVars, timingVars
<1>3. ASSUME CloseDownloadTransaction \/ SetFileToCached \/ EndDownloadTransaction
      PROVE  Crash \/ UNCHANGED timingVars
  BY <1>3 DEF CloseDownloadTransaction, SetFileToCached, EndDownloadTransaction,
      clientVars, backupVars, timingVars
<1>4. ASSUME NEW i, TryStartDownloadTransaction(i) \/ TransactionTimer(i)
      PROVE  Crash \/ UNCHANGED timingVars
  BY <1>4 DEF TryStartDownloadTransaction, TransactionTimer, clientVars, backupVars,
      timingVars
<1>5. ASSUME NEW i, NEW ok, Received(i, ok) PROVE UNCHANGED timingVars
  BY <1>5 DEF Received, clientVars, backupVars, timingVars
<1>6. ASSUME NEW r, UploadDone(r) \/ RequesterLeaves(r) \/ OwnerLeaves(r)
      PROVE  UNCHANGED timingVars
  BY <1>6 DEF UploadDone, RequesterLeaves, OwnerLeaves, clientVars, backupVars, timingVars
<1> QED
  BY <1>1, <1>2, <1>3, <1>4, <1>5, <1>6, NextCases

LEMMA TimingInit == Init => Timing
  BY DEF Init, Timing, OneStarter, Owned, Unstarted, Overtaken, Idle, NewTimer

LEMMA TimingCrash ==
  ASSUME TypeOK, Timing, Crash
  PROVE  Timing'
<1>1. /\ \A w \in Worker : step'[w].at = "idle" /\ step'[w].req = None
      /\ DOMAIN backed' = {} /\ \A r \in Req : timers'[r].at = "new"
      /\ UNCHANGED <<taken, stranded>>
  BY DEF Crash, Idle, NewTimer, clientVars
<1> QED
  BY <1>1 DEF Timing, OneStarter, Owned, Unstarted, Overtaken

(* Erasing an entry, which nobody does while a worker is about to start a  *)
(* timer.                                                                  *)
LEMMA TimingErase ==
  ASSUME TypeOK, Timing, NEW i, backed' = Drop(backed, i), Unlocked,
         UNCHANGED <<step, counter, taken, stranded>>,
         \A r \in Req : /\ timers'[r].names = timers[r].names
                        /\ timers[r].at = "new" => timers'[r].at = "new"
  PROVE  Timing'
<1>1. /\ DOMAIN backed' \subseteq DOMAIN backed
      /\ \A j \in DOMAIN backed' : backed'[j] = backed[j] /\ backed[j].timer \in Req
  BY DEF Drop, TypeOK, TableTypes, Entry
<1>2. \A w \in Worker : step[w].req \in Req \cup {None} /\ step[w].at # "start"
                        /\ (step[w].at = "emplace" => step[w].req \in Req)
  BY DEF TypeOK, ThreadTypes, Unlocked
<1>3. OneStarter' /\ Owned'
  BY <1>1, <1>2 DEF Timing, OneStarter, Owned
<1>4. Unstarted'
  BY <1>2 DEF Timing, Unstarted
<1>5. Overtaken'
  BY <1>2 DEF Timing, Overtaken
<1> QED
  BY <1>3, <1>4, <1>5 DEF Timing

(* What the timers keep while one of them, that of an entry, is started or *)
(* stopped.                                                                *)
LEMMA TimingTick ==
  ASSUME TypeOK, Custody, Timing, NEW i \in DOMAIN backed,
         timers' = StartOf(backed[i].timer) \/ timers' = StopOf(backed[i].timer)
  PROVE  /\ \A r \in Req : timers'[r].names = timers[r].names
         /\ \A r \in Req \ {backed[i].timer} : timers'[r] = timers[r]
         /\ \A r \in Req \ taken : timers'[r].at = "new"
         /\ \A w \in Worker : step[w].req # None => timers'[step[w].req].at = "new"
<1>1. backed[i].timer \in Req /\ timers \in [Req -> Timer]
  BY DEF TypeOK, TableTypes, Entry
<1>2. /\ backed[i].timer \in taken
      /\ \A w \in Worker : step[w].req # backed[i].timer
  BY DEF Timing, Owned, Custody, OneEntry, Unsettled
<1>3. /\ \A r \in Req : timers'[r].names = timers[r].names
      /\ \A r \in Req \ {backed[i].timer} : timers'[r] = timers[r]
  BY <1>1 DEF StartOf, StopOf, Timer
<1>4. \A w \in Worker : step[w].req \in Req \cup {None}
  BY DEF TypeOK, ThreadTypes
<1> QED
  BY <1>2, <1>3, <1>4 DEF Timing, Unstarted

(* The three steps of a backup, and the one that moves the counter.        *)
LEMMA TimingStore ==
  ASSUME TypeOK, Custody, Timing, NEW w \in Worker, StoreCounter(w)
  PROVE  Timing'
<1> DEFINE r == step[w].req
<1>1. /\ r \in taken /\ r \in Req
      /\ \A i \in DOMAIN backed : r \notin backed[i].reqs
      /\ \A u \in Worker \ {w} : step[u].req # r
  BY HolderFacts DEF StoreCounter, Unsettled
<1>2. /\ UNCHANGED <<backed, timers, taken, stranded>>
      /\ step'[w].at = "capture" /\ step'[w].req = r
      /\ \A u \in Worker \ {w} : step'[u] = step[u]
  BY DEF StoreCounter, Goto, clientVars, TypeOK, ThreadTypes
<1>3. OneStarter' /\ Owned' /\ Unstarted'
  BY <1>2 DEF Timing, OneStarter, Owned, Unstarted
<1>4. Overtaken'
  <2> SUFFICES ASSUME NEW u \in Worker \ {w}
               PROVE  /\ step[u].at = "emplace" => \E q \in taken : q # step[u].req
                      /\ step[u].at = "start" => \E q \in taken : q # backed[step[u].id].timer
    BY <1>2 DEF Overtaken
  <2>1. r # step[u].req
    BY <1>1
  <2>2. step[u].at = "start" => r # backed[step[u].id].timer
    BY <1>1 DEF Timing, Owned, TypeOK, ThreadTypes
  <2> QED
    BY <1>1, <2>1, <2>2
<1> QED
  BY <1>3, <1>4 DEF Timing

LEMMA TimingCapture ==
  ASSUME TypeOK, Custody, Timing, NEW w \in Worker, CaptureRequestID(w)
  PROVE  Timing'
<1> DEFINE r == step[w].req
<1>1. /\ r \in Req
      /\ \A i \in DOMAIN backed : r \notin backed[i].reqs
      /\ \A u \in Worker \ {w} : step[u].req # r
  BY HolderFacts DEF CaptureRequestID
<1>2. /\ UNCHANGED <<backed, counter, taken, stranded>>
      /\ step'[w].at = "emplace" /\ step'[w].req = r
      /\ \A u \in Worker \ {w} : step'[u] = step[u]
  BY DEF CaptureRequestID, Goto, clientVars, TypeOK, ThreadTypes
<1>3. /\ timers'[r].names = counter
      /\ \A q \in Req : timers'[q].at = timers[q].at
      /\ \A q \in Req \ {r} : timers'[q] = timers[q]
  BY <1>1 DEF CaptureRequestID, TypeOK, TableTypes, Timer
<1>4. /\ \A i \in DOMAIN backed : backed[i].timer \in Req
      /\ \A u \in Worker : step[u].req \in Req \cup {None}
      /\ \A u \in Worker : step[u].at = "emplace" => step[u].req \in Req
  BY DEF TypeOK, TableTypes, Entry, ThreadTypes
<1>5. OneStarter' /\ Owned'
  BY <1>1, <1>2, <1>3, <1>4 DEF Timing, OneStarter, Owned
<1>6. Unstarted'
  BY <1>2, <1>3, <1>4 DEF Timing, Unstarted
<1>7. Overtaken'
  BY <1>1, <1>2, <1>3, <1>4 DEF Timing, Overtaken
<1> QED
  BY <1>5, <1>6, <1>7 DEF Timing

LEMMA TimingEmplace ==
  ASSUME TypeOK, Custody, Timing, NEW w \in Worker, EmplaceBackup(w)
  PROVE  Timing'
<1> DEFINE r == step[w].req
<1>1. r \in Req /\ r \in taken
  BY HolderFacts DEF EmplaceBackup, Unsettled
<1>2. /\ UNCHANGED <<counter, timers, taken>>
      /\ step'[w].at = "start" /\ step'[w].req = None /\ step'[w].id = counter
      /\ \A u \in Worker \ {w} : step'[u] = step[u]
      /\ \A u \in Worker : step[u].at # "start"
  BY DEF EmplaceBackup, Unlocked, TypeOK, ThreadTypes
<1>3. OneStarter' /\ Overtaken'
  BY <1>2 DEF Timing, OneStarter, Overtaken
<1>4. stranded \subseteq stranded' /\ stranded' \subseteq stranded \cup {r}
  BY DEF EmplaceBackup
<1>5. Unstarted'
  BY <1>1, <1>2, <1>4 DEF Timing, Unstarted
<1>6. Owned'
  <2>1. CASE UNCHANGED <<backed, stranded>>
    BY <1>2, <2>1 DEF Timing, Owned
  <2>2. CASE ~UNCHANGED <<backed, stranded>>
    <3>1. /\ DOMAIN backed' = DOMAIN backed \cup {counter}
          /\ backed'[counter] = [file |-> FileOf[r], reqs |-> {r}, timer |-> r]
          /\ \A j \in DOMAIN backed \ {counter} : backed'[j] = backed[j]
          /\ r \in stranded' \/ timers[r].names = counter
      BY <2>2 DEF EmplaceBackup, Put
    <3> QED
      BY <1>2, <1>4, <3>1 DEF Timing, Owned
  <2> QED
    BY <2>1, <2>2
<1> QED
  BY <1>3, <1>5, <1>6 DEF Timing

LEMMA TimingStart ==
  ASSUME TypeOK, Custody, Timing, NEW w \in Worker, StartBackupTimer(w), ~Crash
  PROVE  Timing'
<1>1. /\ counter \in DOMAIN backed /\ step[w].id \in DOMAIN backed
      /\ timers' = StartOf(backed[counter].timer)
      /\ UNCHANGED <<counter, backed, taken>>
      /\ stranded \subseteq stranded'
      /\ stranded' \subseteq stranded \cup {backed[step[w].id].timer}
      /\ step'[w].at = "idle" /\ step'[w].req = None
      /\ \A u \in Worker \ {w} : step'[u] = step[u]
  BY DEF StartBackupTimer, Release, Idle, TypeOK, ThreadTypes
<1>2. /\ \A r \in Req : timers'[r].names = timers[r].names
      /\ \A r \in Req \ taken : timers'[r].at = "new"
      /\ \A u \in Worker : step[u].req # None => timers'[step[u].req].at = "new"
  BY <1>1, TimingTick
<1>3. backed[step[w].id].timer \in taken
  BY <1>1 DEF Timing, Owned, Custody, OneEntry, Unsettled
<1>4. /\ \A i \in DOMAIN backed : backed[i].timer \in Req
      /\ \A u \in Worker : step[u].at = "emplace" => step[u].req \in Req
  BY DEF TypeOK, TableTypes, Entry, ThreadTypes
<1>5. OneStarter'
  BY <1>1 DEF Timing, OneStarter
<1>6. Owned'
  BY <1>1, <1>2, <1>4 DEF Timing, Owned
<1>7. Unstarted'
  BY <1>1, <1>2, <1>3 DEF Timing, Unstarted
<1>8. Overtaken'
  BY <1>1, <1>2, <1>4 DEF Timing, Overtaken
<1> QED
  BY <1>5, <1>6, <1>7, <1>8 DEF Timing

(* Every step keeps the order among the timers.                            *)
LEMMA TimingNext ==
  ASSUME TypeOK, Custody, Timing, [Next]_vars
  PROVE  Timing'
<1> USE DEF Timing
<1>1. ASSUME NEW w \in Worker, NEW r \in Req, Serve(w, r)
      PROVE  Timing'
  <2>1. /\ taken' = taken \cup {r} /\ r \notin taken
        /\ UNCHANGED <<backed, timers, counter, stranded>>
        /\ \A u \in Worker : \/ step'[u] = step[u]
                             \/ step'[u].req = r /\ step'[u].at \in {"deliver", "pending"}
    BY <1>1 DEF Serve, backupVars, TypeOK, ThreadTypes
  <2>2. timers[r].at = "new"
    BY <2>1 DEF Unstarted
  <2>3. OneStarter' /\ Owned'
    BY <2>1 DEF OneStarter, Owned
  <2>4. Unstarted'
    BY <2>1, <2>2 DEF Unstarted
  <2>5. Overtaken'
    BY <2>1 DEF Overtaken
  <2> QED
    BY <2>3, <2>4, <2>5
<1>2. ASSUME NEW w \in Worker, DeliverFileFromLocalStorage(w) \/ LoadCounter(w)
      PROVE  Timing'
  <2>1. /\ UNCHANGED <<backed, timers, counter, taken, stranded>>
        /\ step'[w].req \in {step[w].req, None} /\ step'[w].at \in {"idle", "store"}
        /\ \A u \in Worker \ {w} : step'[u] = step[u]
    <3>1. CASE DeliverFileFromLocalStorage(w)
      BY <3>1 DEF DeliverFileFromLocalStorage, Release, Idle, backupVars, TypeOK, ThreadTypes
    <3>2. CASE LoadCounter(w)
      BY <3>2 DEF LoadCounter, backupVars, clientVars, TypeOK, ThreadTypes
    <3> QED
      BY <1>2, <3>1, <3>2
  <2>2. OneStarter' /\ Owned'
    BY <2>1 DEF OneStarter, Owned
  <2>3. Unstarted'
    BY <2>1 DEF Unstarted
  <2>4. Overtaken'
    BY <2>1 DEF Overtaken
  <2> QED
    BY <2>2, <2>3, <2>4
<1>3. ASSUME NEW w \in Worker, IsDownloadPending(w)
      PROVE  Timing'
  <2>1. /\ UNCHANGED <<timers, counter, taken>>
        /\ step'[w].req \in {step[w].req, None} /\ step'[w].at \in {"idle", "load"}
        /\ \A u \in Worker \ {w} : step'[u] = step[u]
        /\ \A u \in Worker : step[u].at # "start"
    BY <1>3 DEF IsDownloadPending, Unlocked, Goto, Release, Idle, TypeOK, ThreadTypes
  <2>2. /\ DOMAIN backed' = DOMAIN backed
        /\ \A i \in DOMAIN backed : /\ backed'[i].timer = backed[i].timer
                                    /\ backed[i].reqs \subseteq backed'[i].reqs
    <3>1. \A i \in DOMAIN backed : backed[i] \in Entry
      BY DEF TypeOK, TableTypes
    <3> QED
      BY <1>3, <3>1 DEF IsDownloadPending, Pending, Entry
  <2>3. step[w].req \in taken
    BY <1>3, HolderFacts DEF IsDownloadPending, Unsettled
  <2>4. stranded \subseteq stranded' /\ stranded' \subseteq stranded \cup {step[w].req}
    BY <1>3 DEF IsDownloadPending
  <2>5. OneStarter'
    BY <2>1 DEF OneStarter
  <2>6. Owned'
    BY <2>1, <2>2, <2>4 DEF Owned
  <2>7. Unstarted'
    BY <2>1, <2>3, <2>4 DEF Unstarted
  <2>8. Overtaken'
    BY <2>1 DEF Overtaken
  <2> QED
    BY <2>5, <2>6, <2>7, <2>8
<1>4. ASSUME NEW w \in Worker, StoreCounter(w) PROVE Timing'
  BY <1>4, TimingStore
<1>5. ASSUME NEW w \in Worker, CaptureRequestID(w) PROVE Timing'
  BY <1>5, TimingCapture
<1>6. ASSUME NEW w \in Worker, EmplaceBackup(w) PROVE Timing'
  BY <1>6, TimingEmplace
<1>7. ASSUME NEW w \in Worker, StartBackupTimer(w) PROVE Timing'
  BY <1>7, TimingStart, TimingCrash
<1>8. ASSUME NEW i \in DOMAIN backed, NEW c \in Modes, DownloadReply(i, c)
      PROVE  Timing'
  <2>1. /\ UNCHANGED <<step, backed, counter, taken, stranded>>
        /\ timers' = StopOf(backed[i].timer)
    BY <1>8 DEF DownloadReply, clientVars
  <2>2. /\ \A r \in Req : timers'[r].names = timers[r].names
        /\ \A r \in Req \ taken : timers'[r].at = "new"
        /\ \A w \in Worker : step[w].req # None => timers'[step[w].req].at = "new"
    BY <2>1, TimingTick
  <2>3. /\ \A j \in DOMAIN backed : backed[j].timer \in Req
        /\ \A u \in Worker : step[u].at = "emplace" => step[u].req \in Req
    BY DEF TypeOK, TableTypes, Entry, ThreadTypes
  <2>4. OneStarter' /\ Owned'
    BY <2>1, <2>2, <2>3 DEF OneStarter, Owned
  <2>5. Unstarted'
    BY <2>1, <2>2 DEF Unstarted
  <2>6. Overtaken'
    BY <2>1, <2>2, <2>3 DEF Overtaken
  <2> QED
    BY <2>4, <2>5, <2>6
<1>9. ASSUME NEW r \in Req, BackupTimer(r)
      PROVE  Timing'
  <2>1. CASE Crash
    BY <2>1, TimingCrash
  <2>2. CASE ~Crash
    <3>1. /\ backed' = Drop(backed, timers[r].names) /\ Unlocked
          /\ timers' = StopOf(r) /\ UNCHANGED <<step, counter, taken, stranded>>
      BY <1>9, <2>2 DEF BackupTimer, DenyAll
    <3>2. \A q \in Req : /\ timers'[q].names = timers[q].names
                         /\ timers[q].at = "new" => timers'[q].at = "new"
      BY <3>1 DEF StopOf, TypeOK, TableTypes, Timer
    <3> QED
      BY <3>1, <3>2, TimingErase
  <2> QED
    BY <2>1, <2>2
<1>10. ASSUME DenyWaiting \/ DenyToAll \/ DeliverToAll
       PROVE  Timing'
  <2>1. PICK i : /\ backed' = Drop(backed, i) /\ Unlocked
                 /\ UNCHANGED <<step, counter, timers, taken, stranded>>
    BY <1>10 DEF DenyWaiting, DenyToAll, DeliverToAll, DenyAll
  <2> QED
    BY <2>1, TimingErase
<1>11. ASSUME UNCHANGED timingVars PROVE Timing'
  BY <1>11 DEF timingVars, OneStarter, Owned, Unstarted, Overtaken
<1> QED
  BY <1>1, <1>2, <1>3, <1>4, <1>5, <1>6, <1>7, <1>8, <1>9, <1>10, <1>11, TimingCases,
      TimingCrash

----------------------------------------------------------------------------
(* Who will answer.  When the download thread is about to remove its       *)
(* transaction, an entry of that id is a new one, and the transaction is   *)
(* not what keeps it.                                                      *)

EndedApart ==
  dl.at = "end" /\ dl.id \in DOMAIN backed =>
    \/ backed[dl.id].timer \in stranded
    \/ Clocked(dl.id)
    \/ io.id = dl.id /\ io.at \in {"begin", "deny"}
    \/ dl.id \in armed

Keeping == Kept /\ EndedApart

LEMMA KeepingInit == Init => Keeping
  BY DEF Init, Keeping, Kept, EndedApart

LEMMA KeepingCrash == Crash => Keeping'
  BY DEF Crash, Keeping, Kept, EndedApart, DlIdle

(* A new entry has its timer started next, or is stranded.                 *)
LEMMA KeepingEmplace ==
  ASSUME TypeOK, Custody, Timing, Keeping, NEW w \in Worker, EmplaceBackup(w)
  PROVE  Keeping'
<1> DEFINE r == step[w].req
<1>1. r \in Req /\ timers[r].at = "new"
  BY HolderFacts DEF EmplaceBackup, Timing, Unstarted
<1>2. /\ UNCHANGED <<counter, timers, io, armed, trans, dl>>
      /\ step'[w].at = "start" /\ step'[w].id = counter
      /\ \A u \in Worker : step[u].at # "start"
      /\ stranded \subseteq stranded'
  BY DEF EmplaceBackup, Unlocked, transVars, TypeOK, ThreadTypes
<1>3. CASE UNCHANGED backed
  <2>1. \A i \in DOMAIN backed : Clocked(i) => Clocked(i)'
    BY <1>2, <1>3 DEF Clocked, Running
  <2> QED
    BY <1>2, <1>3, <2>1 DEF Keeping, Kept, Keeper, EndedApart
<1>4. CASE ~UNCHANGED backed
  <2>1. /\ DOMAIN backed' = DOMAIN backed \cup {counter}
        /\ backed'[counter].timer = r
        /\ \A j \in DOMAIN backed \ {counter} : backed'[j] = backed[j]
    BY <1>4 DEF EmplaceBackup, Put
  <2>2. Clocked(counter)'
    BY <1>1, <1>2, <2>1 DEF Clocked
  <2>3. \A i \in DOMAIN backed \ {counter} : Clocked(i) => Clocked(i)'
    BY <1>2, <2>1 DEF Clocked, Running
  <2>4. Kept'
    BY <1>2, <2>1, <2>2, <2>3 DEF Keeping, Kept, Keeper
  <2>5. EndedApart'
    BY <1>2, <2>1, <2>2, <2>3 DEF Keeping, EndedApart
  <2> QED
    BY <2>4, <2>5 DEF Keeping
<1> QED
  BY <1>3, <1>4

(* The timer that is started is that of the worker's entry, or this entry  *)
(* is stranded or has somebody else.                                       *)
LEMMA KeepingStart ==
  ASSUME TypeOK, Custody, Timing, Keeping, NEW w \in Worker, StartBackupTimer(w), ~Crash
  PROVE  Keeping'
<1> DEFINE k == step[w].id
           r == backed[k].timer
<1>1. /\ counter \in DOMAIN backed /\ k \in DOMAIN backed
      /\ timers' = StartOf(backed[counter].timer)
      /\ UNCHANGED <<counter, backed, io, armed, trans, dl>>
      /\ stranded \subseteq stranded'
      /\ counter # k /\ timers[r].at = "new" => r \in stranded'
  BY DEF StartBackupTimer, transVars, TypeOK, ThreadTypes
<1>2. Running(backed[counter].timer)'
  BY <1>1 DEF Running, StartOf, TypeOK, TableTypes, Timer, Entry
<1>3. \A q \in Req \ {backed[counter].timer} : timers'[q] = timers[q]
  BY <1>1, TimingTick
<1>4. \A i \in DOMAIN backed : backed[i].timer \in Req
  BY DEF TypeOK, TableTypes, Entry
<1>5. \A i \in DOMAIN backed : Clocked(i) => Clocked(i)' \/ backed[i].timer \in stranded'
  <2> SUFFICES ASSUME NEW i \in DOMAIN backed, Clocked(i),
                      backed[i].timer # backed[counter].timer
               PROVE  Clocked(i)' \/ backed[i].timer \in stranded'
    BY <1>1, <1>2 DEF Clocked
  <2>1. timers'[backed[i].timer] = timers[backed[i].timer]
    BY <1>3, <1>4
  <2>2. CASE Running(backed[i].timer)
    BY <1>1, <2>1, <2>2 DEF Clocked, Running
  <2>3. CASE timers[backed[i].timer].at = "new" /\ \E u \in Worker : step[u].at = "start" /\ step[u].id = i
    <3>1. i = k
      BY <2>3 DEF StartBackupTimer, Timing, OneStarter
    <3> QED
      BY <1>1, <2>3, <3>1
  <2> QED
    BY <2>2, <2>3 DEF Clocked
<1> HIDE DEF k, r
<1>6. Kept'
  BY <1>1, <1>5 DEF Keeping, Kept, Keeper
<1>7. EndedApart'
  BY <1>1, <1>5 DEF Keeping, EndedApart
<1> QED
  BY <1>6, <1>7 DEF Keeping

(* An approval takes the entry over from its timer, and touches no other.  *)
LEMMA KeepingReply ==
  ASSUME TypeOK, Custody, Timing, Keeping, NEW i \in DOMAIN backed, NEW c \in Modes,
         DownloadReply(i, c)
  PROVE  Keeping'
<1>1. /\ UNCHANGED <<step, backed, stranded, armed, trans, dl>>
      /\ io.at = "idle" /\ io'.at = "begin" /\ io'.id = i
      /\ timers' = StopOf(backed[i].timer)
  BY DEF DownloadReply, clientVars, transVars
<1>2. \A q \in Req \ {backed[i].timer} : timers'[q] = timers[q]
  BY <1>1, TimingTick
<1>3. \A j \in DOMAIN backed \ {i} : backed[j].timer \in Req /\ backed[j].timer # backed[i].timer
  BY DEF TypeOK, TableTypes, Entry, Timing, Owned, Custody, OneEntry
<1>4. \A j \in DOMAIN backed \ {i} : Clocked(j) => Clocked(j)'
  BY <1>1, <1>2, <1>3 DEF Clocked, Running
<1>5. Kept'
  BY <1>1, <1>4 DEF Keeping, Kept, Keeper
<1>6. EndedApart'
  BY <1>1, <1>4 DEF Keeping, EndedApart
<1> QED
  BY <1>5, <1>6 DEF Keeping

(* A timer that runs out clears the entry it names, which is its own       *)
(* unless that one is stranded.                                            *)
LEMMA KeepingTimer ==
  ASSUME TypeOK, Custody, Timing, Keeping, NEW r \in Req, BackupTimer(r), ~Crash
  PROVE  Keeping'
<1> DEFINE k == timers[r].names
<1>1. /\ UNCHANGED <<step, stranded, io, armed, trans, dl>>
      /\ timers' = StopOf(r) /\ backed' = Drop(backed, k)
  BY DEF BackupTimer, DenyAll, transVars
<1>2. /\ DOMAIN backed' = DOMAIN backed \ {k}
      /\ \A j \in DOMAIN backed \ {k} : backed'[j] = backed[j]
  BY <1>1 DEF Drop
<1>3. \A q \in Req \ {r} : timers'[q] = timers[q]
  BY <1>1 DEF StopOf, TypeOK, TableTypes, Timer
<1>4. \A j \in DOMAIN backed \ {k} :
        backed[j].timer \in Req /\ (backed[j].timer = r => r \in stranded)
  BY DEF TypeOK, TableTypes, Entry, Timing, Owned
<1>5. \A j \in DOMAIN backed \ {k} :
        backed[j].timer \in stranded \/ (Clocked(j) => Clocked(j)')
  BY <1>1, <1>2, <1>3, <1>4 DEF Clocked, Running
<1> HIDE DEF k
<1>6. Kept'
  BY <1>1, <1>2, <1>5 DEF Keeping, Kept, Keeper
<1>7. EndedApart'
  BY <1>1, <1>2, <1>5 DEF Keeping, EndedApart
<1> QED
  BY <1>6, <1>7 DEF Keeping

(* No step leaves an entry to nobody.                                      *)
LEMMA KeepingNext ==
  ASSUME TypeOK, Custody, Timing, Keeping, [Next]_vars
  PROVE  Keeping'
<1>1. ASSUME NEW w \in Worker, NEW r \in Req, Serve(w, r)
     PROVE  Keeping'
  BY <1>1
  DEF Serve, Answer, Idle, Keeping, Kept, Keeper, Clocked, Running, EndedApart, TypeOK, TableTypes,
      ThreadTypes, Entry, Transaction, clientVars, fileVars, backupVars, transVars, vars
<1>2. ASSUME NEW w \in Worker, DeliverFileFromLocalStorage(w)
     PROVE  Keeping'
  BY <1>2
  DEF DeliverFileFromLocalStorage, Deliver, CanRead, Release, Idle, Keeping, Kept,
      Keeper, Clocked, Running, EndedApart, TypeOK, TableTypes, ThreadTypes, Entry, Transaction,
      clientVars, fileVars, backupVars, transVars, vars
<1>3. ASSUME NEW w \in Worker, IsDownloadPending(w)
     PROVE  Keeping'
  <2>1. /\ UNCHANGED <<timers, io, armed, trans, dl>> /\ stranded \subseteq stranded'
        /\ \A u \in Worker : step[u].at # "start"
    BY <1>3 DEF IsDownloadPending, Unlocked, transVars
  <2>2. /\ DOMAIN backed' = DOMAIN backed
        /\ \A i \in DOMAIN backed : backed'[i].timer = backed[i].timer
    <3>1. \A i \in DOMAIN backed : backed[i] \in Entry
      BY DEF TypeOK, TableTypes
    <3> QED
      BY <1>3, <3>1 DEF IsDownloadPending, Pending, Entry
  <2>3. \A i \in DOMAIN backed : Clocked(i) => Clocked(i)'
    BY <2>1, <2>2 DEF Clocked, Running
  <2> QED
    BY <2>1, <2>2, <2>3 DEF Keeping, Kept, Keeper, EndedApart
<1>4. ASSUME NEW w \in Worker, LoadCounter(w)
     PROVE  Keeping'
  BY <1>4
  DEF LoadCounter, Keeping, Kept, Keeper, Clocked, Running, EndedApart, TypeOK, TableTypes, ThreadTypes,
      Entry, Transaction, clientVars, fileVars, backupVars, transVars, vars
<1>5. ASSUME NEW w \in Worker, StoreCounter(w)
     PROVE  Keeping'
  BY <1>5
  DEF StoreCounter, Goto, Keeping, Kept, Keeper, Clocked, Running, EndedApart, TypeOK, TableTypes,
      ThreadTypes, Entry, Transaction, clientVars, fileVars, backupVars, transVars, vars
<1>6. ASSUME NEW w \in Worker, CaptureRequestID(w)
     PROVE  Keeping'
  BY <1>6
  DEF CaptureRequestID, Goto, Keeping, Kept, Keeper, Clocked, Running, EndedApart, TypeOK, TableTypes,
      ThreadTypes, Entry, Transaction, clientVars, fileVars, backupVars, transVars, vars
<1>7. ASSUME NEW w \in Worker, EmplaceBackup(w)
     PROVE  Keeping'
  BY <1>7, KeepingEmplace
<1>8. ASSUME NEW w \in Worker, StartBackupTimer(w)
     PROVE  Keeping'
  BY <1>8, KeepingStart, KeepingCrash
<1>9. ASSUME NEW i \in DOMAIN backed, NEW c \in Modes, DownloadReply(i, c)
     PROVE  Keeping'
  BY <1>9, KeepingReply
<1>10. ASSUME NEW r \in Req, BackupTimer(r)
     PROVE  Keeping'
  BY <1>10, KeepingTimer, KeepingCrash
<1>11. ASSUME BeginDownloadTransaction
     PROVE  Keeping'
  BY <1>11, KeepingCrash
  DEF BeginDownloadTransaction, Put, CanWrite, Keeping, Kept, Keeper, Clocked, Running, EndedApart,
      TypeOK, TableTypes, ThreadTypes, Entry, Transaction, clientVars, fileVars,
      backupVars, transVars, vars
<1>12. ASSUME NotifyFileDownload
     PROVE  Keeping'
  BY <1>12, KeepingCrash
  DEF NotifyFileDownload, IoIdle, Keeping, Kept, Keeper, Clocked, Running, EndedApart, TypeOK, TableTypes,
      ThreadTypes, Entry, Transaction, clientVars, fileVars, backupVars, transVars, vars
<1>13. ASSUME DenyWaiting
     PROVE  Keeping'
  BY <1>13
  DEF DenyWaiting, DenyAll, Answer, Waiting, Drop, Unlocked, IoIdle, Keeping, Kept, Keeper, Clocked, Running,
      EndedApart, TypeOK, TableTypes, ThreadTypes, Entry, Transaction, clientVars,
      fileVars, backupVars, transVars, vars
<1>14. ASSUME HandleHandshake
     PROVE  Keeping'
  BY <1>14
  DEF HandleHandshake, DlIdle, Keeping, Kept, Keeper, Clocked, Running, EndedApart, TypeOK, TableTypes,
      ThreadTypes, Entry, Transaction, clientVars, fileVars, backupVars, transVars, vars
<1>15. ASSUME HelloRefused
     PROVE  Keeping'
  BY <1>15
  DEF HelloRefused, DlIdle, Keeping, Kept, Keeper, Clocked, Running, EndedApart, TypeOK, TableTypes,
      ThreadTypes, Entry, Transaction, clientVars, fileVars, backupVars, transVars, vars
<1>16. ASSUME NEW i \in DOMAIN trans, TryStartDownloadTransaction(i)
     PROVE  Keeping'
  <2>1. CASE Crash
    BY <2>1, KeepingCrash
  <2>2. CASE ~Crash
    <3>1. /\ armed' = armed \ {i} /\ dl.at = "hello"
          /\ UNCHANGED <<backed, io, step, timers, stranded>>
          /\ DOMAIN trans' = DOMAIN trans
          /\ \A j \in DOMAIN trans \ {i} : trans'[j] = trans[j]
      BY <1>16, <2>2 DEF TryStartDownloadTransaction, DlIdle, backupVars, clientVars,
          TypeOK, ThreadTypes
    <3>2. trans'[i].state \in {"receiving", "broken"}
      BY <1>16, <2>2 DEF TryStartDownloadTransaction, TypeOK, TableTypes, Transaction
    <3>3. dl'.at \in {"header", "idle"}
      <4>1. dl' = IF trans[i].mode = "zlib" THEN [dl EXCEPT !.at = "header", !.id = i]
                  ELSE DlIdle
        BY <1>16, <2>2 DEF TryStartDownloadTransaction
      <4>2. [dl EXCEPT !.at = "header", !.id = i].at = "header"
        BY DEF TypeOK, ThreadTypes
      <4> QED
        BY <4>1, <4>2 DEF DlIdle
    <3>4. ASSUME NEW j \in DOMAIN backed, backed[j].timer \notin stranded PROVE Keeper(j)'
      BY <3>1, <3>2, <3>4 DEF Keeping, Kept, Keeper, Clocked, Running
    <3> QED
      BY <3>1, <3>3, <3>4 DEF Keeping, Kept, EndedApart
  <2> QED
    BY <2>1, <2>2
<1>17. ASSUME ReadHeader
     PROVE  Keeping'
  BY <1>17, KeepingCrash
  DEF ReadHeader, DlIdle, Keeping, Kept, Keeper, Clocked, Running, EndedApart, TypeOK, TableTypes,
      ThreadTypes, Entry, Transaction, clientVars, fileVars, backupVars, transVars, vars
<1>18. ASSUME NEW i \in DOMAIN trans, NEW ok \in BOOLEAN, Received(i, ok)
     PROVE  Keeping'
  BY <1>18
  DEF Received, Keeping, Kept, Keeper, Clocked, Running, EndedApart, TypeOK, TableTypes, ThreadTypes,
      Entry, Transaction, clientVars, fileVars, backupVars, transVars, vars
<1>19. ASSUME CloseDownloadTransaction
     PROVE  Keeping'
  BY <1>19
  DEF CloseDownloadTransaction, Keeping, Kept, Keeper, Clocked, Running, EndedApart, TypeOK, TableTypes,
      ThreadTypes, Entry, Transaction, clientVars, fileVars, backupVars, transVars, vars
<1>20. ASSUME SetFileToCached
     PROVE  Keeping'
  BY <1>20, KeepingCrash
  DEF SetFileToCached, Keeping, Kept, Keeper, Clocked, Running, EndedApart, TypeOK, TableTypes,
      ThreadTypes, Entry, Transaction, clientVars, fileVars, backupVars, transVars, vars
<1>21. ASSUME DeliverToAll
     PROVE  Keeping'
  BY <1>21
  DEF DeliverToAll, Deliver, Waiting, Drop, Unlocked, Keeping, Kept, Keeper, Clocked, Running, EndedApart, TypeOK,
      TableTypes, ThreadTypes, Entry, Transaction, clientVars, fileVars, backupVars,
      transVars, vars
<1>22. ASSUME DenyToAll
     PROVE  Keeping'
  BY <1>22
  DEF DenyToAll, DenyAll, Answer, Waiting, Drop, Unlocked, Keeping, Kept, Keeper, Clocked, Running, EndedApart,
      TypeOK, TableTypes, ThreadTypes, Entry, Transaction, clientVars, fileVars,
      backupVars, transVars, vars
<1>23. ASSUME EndDownloadTransaction
     PROVE  Keeping'
  BY <1>23, KeepingCrash
  DEF EndDownloadTransaction, Drop, DlIdle, Keeping, Kept, Keeper, Clocked, Running, EndedApart, TypeOK,
      TableTypes, ThreadTypes, Entry, Transaction, clientVars, fileVars, backupVars,
      transVars, vars
<1>24. ASSUME NEW i \in armed, TransactionTimer(i)
     PROVE  Keeping'
  BY <1>24, KeepingCrash
  DEF TransactionTimer, Keeping, Kept, Keeper, Clocked, Running, EndedApart, TypeOK, TableTypes,
      ThreadTypes, Entry, Transaction, clientVars, fileVars, backupVars, transVars, vars
<1>25. ASSUME NEW r \in Req, UploadDone(r)
     PROVE  Keeping'
  BY <1>25
  DEF UploadDone, Keeping, Kept, Keeper, Clocked, Running, EndedApart, TypeOK, TableTypes, ThreadTypes,
      Entry, Transaction, clientVars, fileVars, backupVars, transVars, vars
<1>26. ASSUME NEW r \in Req, RequesterLeaves(r)
     PROVE  Keeping'
  BY <1>26
  DEF RequesterLeaves, Keeping, Kept, Keeper, Clocked, Running, EndedApart, TypeOK, TableTypes,
      ThreadTypes, Entry, Transaction, clientVars, fileVars, backupVars, transVars, vars
<1>27. ASSUME NEW f \in File, OwnerLeaves(f)
     PROVE  Keeping'
  BY <1>27
  DEF OwnerLeaves, Keeping, Kept, Keeper, Clocked, Running, EndedApart, TypeOK, TableTypes, ThreadTypes,
      Entry, Transaction, clientVars, fileVars, backupVars, transVars, vars
<1>28. ASSUME UNCHANGED vars PROVE Keeping'
  BY <1>28 DEF Keeping, Kept, Keeper, Clocked, Running, EndedApart, TypeOK, TableTypes, ThreadTypes,
      Entry, Transaction, clientVars, fileVars, backupVars, transVars, vars
<1> QED
  BY <1>1, <1>2, <1>3, <1>4, <1>5, <1>6, <1>7, <1>8, <1>9, <1>10, <1>11, <1>12, <1>13,
      <1>14, <1>15, <1>16, <1>17, <1>18, <1>19, <1>20, <1>21, <1>22, <1>23, <1>24, <1>25,
      <1>26, <1>27, <1>28, NextCases

----------------------------------------------------------------------------
(* The theorems.                                                           *)

LEMMA Invariants == SafeSpec => [](TypeOK /\ Custody /\ Timing /\ Keeping)
<1>1. Init => TypeOK /\ Custody /\ Timing /\ Keeping
  BY TypeInit, CustodyInit, TimingInit, KeepingInit
<1>2. TypeOK /\ Custody /\ Timing /\ Keeping /\ [Next]_vars =>
        (TypeOK /\ Custody /\ Timing /\ Keeping)'
  BY TypeNext, CustodyNext, TimingNext, KeepingNext
<1> QED
  BY <1>1, <1>2, PTL DEF SafeSpec

(* The state keeps its types: every thread at work has a request, a file   *)
(* or an existing transaction to work on.                                  *)
THEOREM TypeCorrect == SafeSpec => []TypeOK
  BY Invariants, PTL

(* No request gets two answers, however the workers, the io thread, the    *)
(* download thread and the timers interleave: the entry that holds it is   *)
(* erased in the step that answers.                                        *)
THEOREM AnsweredOnceHolds == SafeSpec => []AnsweredOnce
<1>1. Custody => AnsweredOnce
  BY DEF Custody
<1> QED
  BY <1>1, Invariants, PTL

(* No request that is being served is forgotten, except the ones whose     *)
(* backup found its id in use.                                             *)
THEOREM AccountedHolds == SafeSpec => []Accounted
<1>1. Custody => Accounted
  BY DEF Custody
<1> QED
  BY <1>1, Invariants, PTL

(* Every entry of the backup has a timer, a receiver or a thread that will *)
(* answer the requests that wait in it, unless the counter moved under the *)
(* worker that made it, between two of the reads of BackupAndStartTimer.   *)
THEOREM KeptHolds == SafeSpec => []Kept
<1>1. Keeping => Kept
  BY DEF Keeping
<1> QED
  BY <1>1, Invariants, PTL

----------------------------------------------------------------------------
(* The download service.  A worker does not hold the request of a client   *)
(* that has left, and after a crash nobody holds or waits for anything.    *)

AtHome ==
  /\ \A w \in Worker : step[w].req \notin gone
  /\ crashed => DOMAIN backed = {} /\ \A w \in Worker : step[w].at = "idle"

LEMMA AtHomeInit == Init => AtHome
  BY DEF Init, AtHome, Idle

LEMMA AtHomeCrash == TypeOK /\ Crash => AtHome'
<1> SUFFICES ASSUME TypeOK, Crash PROVE AtHome'
  OBVIOUS
<1>1. /\ \A w \in Worker : step'[w].at = "idle" /\ step'[w].req = None
      /\ DOMAIN backed' = {} /\ gone' \subseteq Req
  BY DEF Crash, Idle, clientVars, TypeOK, ClientTypes
<1> QED
  BY <1>1, RequestsAssumption DEF AtHome

LEMMA AtHomeNext ==
  ASSUME TypeOK, AtHome, [Next]_vars
  PROVE  AtHome'
<1>1. ASSUME NEW w \in Worker, NEW r \in Req, Serve(w, r)
     PROVE  AtHome'
  <2>1. ~crashed /\ r \notin gone /\ UNCHANGED <<crashed, gone>>
    BY <1>1 DEF Serve
  <2>2. \A v \in Worker : step'[v].req \in {step[v].req, r}
    BY <1>1 DEF Serve, TypeOK, ThreadTypes
  <2> QED
    BY <2>1, <2>2 DEF AtHome
<1>2. ASSUME NEW w \in Worker, DeliverFileFromLocalStorage(w)
     PROVE  AtHome'
  <2>1. step[w].at # "idle" /\ UNCHANGED <<crashed, gone>>
    BY <1>2 DEF DeliverFileFromLocalStorage, clientVars
  <2>2. \A v \in Worker : step'[v].req \in {step[v].req, None}
    BY <1>2 DEF DeliverFileFromLocalStorage, Goto, Release, Idle, TypeOK, ThreadTypes
  <2>3. None \notin gone
    BY RequestsAssumption DEF TypeOK, ClientTypes
  <2> QED
    BY <2>1, <2>2, <2>3 DEF AtHome
<1>3. ASSUME NEW w \in Worker, IsDownloadPending(w)
     PROVE  AtHome'
  <2>1. step[w].at # "idle" /\ UNCHANGED <<crashed, gone>>
    BY <1>3 DEF IsDownloadPending, clientVars
  <2>2. \A v \in Worker : step'[v].req \in {step[v].req, None}
    BY <1>3 DEF IsDownloadPending, Goto, Release, Idle, TypeOK, ThreadTypes
  <2>3. None \notin gone
    BY RequestsAssumption DEF TypeOK, ClientTypes
  <2> QED
    BY <2>1, <2>2, <2>3 DEF AtHome
<1>4. ASSUME NEW w \in Worker, LoadCounter(w)
     PROVE  AtHome'
  <2>1. /\ step[w].at # "idle" /\ \A v \in Worker : step'[v].req = step[v].req
        /\ UNCHANGED <<backed, crashed, gone>>
    BY <1>4 DEF LoadCounter, Goto, TypeOK, ThreadTypes, clientVars, backupVars
  <2> QED
    BY <2>1 DEF AtHome
<1>5. ASSUME NEW w \in Worker, StoreCounter(w)
     PROVE  AtHome'
  <2>1. /\ step[w].at # "idle" /\ \A v \in Worker : step'[v].req = step[v].req
        /\ UNCHANGED <<backed, crashed, gone>>
    BY <1>5 DEF StoreCounter, Goto, TypeOK, ThreadTypes, clientVars, backupVars
  <2> QED
    BY <2>1 DEF AtHome
<1>6. ASSUME NEW w \in Worker, CaptureRequestID(w)
     PROVE  AtHome'
  <2>1. /\ step[w].at # "idle" /\ \A v \in Worker : step'[v].req = step[v].req
        /\ UNCHANGED <<backed, crashed, gone>>
    BY <1>6 DEF CaptureRequestID, Goto, TypeOK, ThreadTypes, clientVars
  <2> QED
    BY <2>1 DEF AtHome
<1>7. ASSUME NEW w \in Worker, EmplaceBackup(w)
     PROVE  AtHome'
  <2>1. step[w].at # "idle" /\ UNCHANGED <<crashed, gone>>
    BY <1>7 DEF EmplaceBackup
  <2>2. \A v \in Worker : step'[v].req \in {step[v].req, None}
    BY <1>7 DEF EmplaceBackup, TypeOK, ThreadTypes
  <2>3. None \notin gone
    BY RequestsAssumption DEF TypeOK, ClientTypes
  <2> QED
    BY <2>1, <2>2, <2>3 DEF AtHome
<1>8. ASSUME NEW w \in Worker, StartBackupTimer(w)
     PROVE  AtHome'
  <2>1. CASE Crash
    BY <2>1, AtHomeCrash
  <2>2. CASE ~Crash
    <3>1. step[w].at # "idle" /\ UNCHANGED <<crashed, gone>>
      BY <1>8, <2>2 DEF StartBackupTimer
    <3>2. \A v \in Worker : step'[v].req \in {step[v].req, None}
      BY <1>8, <2>2 DEF StartBackupTimer, Release, Idle, TypeOK, ThreadTypes
    <3>3. None \notin gone
      BY RequestsAssumption DEF TypeOK, ClientTypes
    <3> QED
      BY <3>1, <3>2, <3>3 DEF AtHome
  <2> QED
    BY <2>1, <2>2
<1>9. ASSUME NEW i \in DOMAIN backed, NEW c \in Modes, DownloadReply(i, c)
     PROVE  AtHome'
  <2>1. UNCHANGED <<step, crashed, gone>> /\ ~crashed
    BY <1>9 DEF DownloadReply, clientVars, AtHome
  <2> QED
    BY <2>1 DEF AtHome
<1>10. ASSUME NEW r \in Req, BackupTimer(r)
     PROVE  AtHome'
  <2>1. CASE Crash
    BY <2>1, AtHomeCrash
  <2>2. CASE ~Crash
    <3>1. DOMAIN backed' \subseteq DOMAIN backed /\ UNCHANGED <<step, crashed, gone>>
      BY <1>10, <2>2 DEF BackupTimer, DenyAll, Drop
    <3> QED
      BY <3>1 DEF AtHome
  <2> QED
    BY <2>1, <2>2
<1>11. ASSUME BeginDownloadTransaction
     PROVE  AtHome'
  <2>1. CASE Crash
    BY <2>1, AtHomeCrash
  <2>2. CASE ~Crash
    <3>1. UNCHANGED <<step, backed, crashed, gone>>
      BY <1>11, <2>2 DEF BeginDownloadTransaction, clientVars, backupVars
    <3> QED
      BY <3>1 DEF AtHome
  <2> QED
    BY <2>1, <2>2
<1>12. ASSUME NotifyFileDownload
     PROVE  AtHome'
  <2>1. CASE Crash
    BY <2>1, AtHomeCrash
  <2>2. CASE ~Crash
    <3>1. UNCHANGED <<step, backed, crashed, gone>>
      BY <1>12, <2>2 DEF NotifyFileDownload, clientVars, backupVars
    <3> QED
      BY <3>1 DEF AtHome
  <2> QED
    BY <2>1, <2>2
<1>13. ASSUME DenyWaiting
     PROVE  AtHome'
  <2>1. DOMAIN backed' \subseteq DOMAIN backed /\ UNCHANGED <<step, crashed, gone>>
    BY <1>13 DEF DenyWaiting, DenyAll, Drop
  <2> QED
    BY <2>1 DEF AtHome
<1>14. ASSUME HandleHandshake
     PROVE  AtHome'
  <2>1. UNCHANGED <<step, backed, crashed, gone>>
    BY <1>14 DEF HandleHandshake, clientVars, backupVars
  <2> QED
    BY <2>1 DEF AtHome
<1>15. ASSUME HelloRefused
     PROVE  AtHome'
  <2>1. UNCHANGED <<step, backed, crashed, gone>>
    BY <1>15 DEF HelloRefused, clientVars, backupVars
  <2> QED
    BY <2>1 DEF AtHome
<1>16. ASSUME NEW i \in DOMAIN trans, TryStartDownloadTransaction(i)
     PROVE  AtHome'
  <2>1. CASE Crash
    BY <2>1, AtHomeCrash
  <2>2. CASE ~Crash
    <3>1. UNCHANGED <<step, backed, crashed, gone>>
      BY <1>16, <2>2 DEF TryStartDownloadTransaction, clientVars, backupVars
    <3> QED
      BY <3>1 DEF AtHome
  <2> QED
    BY <2>1, <2>2
<1>17. ASSUME ReadHeader
     PROVE  AtHome'
  <2>1. CASE Crash
    BY <2>1, AtHomeCrash
  <2>2. CASE ~Crash
    <3>1. UNCHANGED <<step, backed, crashed, gone>>
      BY <1>17, <2>2 DEF ReadHeader, clientVars, backupVars
    <3> QED
      BY <3>1 DEF AtHome
  <2> QED
    BY <2>1, <2>2
<1>18. ASSUME NEW i \in DOMAIN trans, NEW ok \in BOOLEAN, Received(i, ok)
     PROVE  AtHome'
  <2>1. UNCHANGED <<step, backed, crashed, gone>>
    BY <1>18 DEF Received, clientVars, backupVars
  <2> QED
    BY <2>1 DEF AtHome
<1>19. ASSUME CloseDownloadTransaction
     PROVE  AtHome'
  <2>1. UNCHANGED <<step, backed, crashed, gone>>
    BY <1>19 DEF CloseDownloadTransaction, clientVars, backupVars
  <2> QED
    BY <2>1 DEF AtHome
<1>20. ASSUME SetFileToCached
     PROVE  AtHome'
  <2>1. CASE Crash
    BY <2>1, AtHomeCrash
  <2>2. CASE ~Crash
    <3>1. UNCHANGED <<step, backed, crashed, gone>>
      BY <1>20, <2>2 DEF SetFileToCached, clientVars, backupVars
    <3> QED
      BY <3>1 DEF AtHome
  <2> QED
    BY <2>1, <2>2
<1>21. ASSUME DeliverToAll
     PROVE  AtHome'
  <2>1. DOMAIN backed' \subseteq DOMAIN backed /\ UNCHANGED <<step, crashed, gone>>
    BY <1>21 DEF DeliverToAll, Drop
  <2> QED
    BY <2>1 DEF AtHome
<1>22. ASSUME DenyToAll
     PROVE  AtHome'
  <2>1. DOMAIN backed' \subseteq DOMAIN backed /\ UNCHANGED <<step, crashed, gone>>
    BY <1>22 DEF DenyToAll, DenyAll, Drop
  <2> QED
    BY <2>1 DEF AtHome
<1>23. ASSUME EndDownloadTransaction
     PROVE  AtHome'
  <2>1. CASE Crash
    BY <2>1, AtHomeCrash
  <2>2. CASE ~Crash
    <3>1. UNCHANGED <<step, backed, crashed, gone>>
      BY <1>23, <2>2 DEF EndDownloadTransaction, clientVars, backupVars
    <3> QED
      BY <3>1 DEF AtHome
  <2> QED
    BY <2>1, <2>2
<1>24. ASSUME NEW i \in armed, TransactionTimer(i)
     PROVE  AtHome'
  <2>1. CASE Crash
    BY <2>1, AtHomeCrash
  <2>2. CASE ~Crash
    <3>1. UNCHANGED <<step, backed, crashed, gone>>
      BY <1>24, <2>2 DEF TransactionTimer, clientVars, backupVars
    <3> QED
      BY <3>1 DEF AtHome
  <2> QED
    BY <2>1, <2>2
<1>25. ASSUME NEW r \in Req, UploadDone(r)
     PROVE  AtHome'
  <2>1. UNCHANGED <<step, backed, crashed, gone>>
    BY <1>25 DEF UploadDone, clientVars, backupVars
  <2> QED
    BY <2>1 DEF AtHome
<1>26. ASSUME NEW r \in Req, RequesterLeaves(r)
     PROVE  AtHome'
  <2>1. /\ ~crashed /\ gone' = gone \cup {r} /\ UNCHANGED <<step, crashed>>
        /\ \A v \in Worker : step[v].req # r
    BY <1>26, RequestsAssumption DEF RequesterLeaves, Held
  <2> QED
    BY <2>1 DEF AtHome
<1>27. ASSUME NEW f \in File, OwnerLeaves(f)
     PROVE  AtHome'
  <2>1. UNCHANGED <<step, backed, crashed, gone>>
    BY <1>27 DEF OwnerLeaves, clientVars, backupVars
  <2> QED
    BY <2>1 DEF AtHome
<1>28. ASSUME UNCHANGED vars PROVE AtHome'
  BY <1>28 DEF AtHome, clientVars, fileVars, backupVars, transVars, vars
<1> QED
  BY <1>1, <1>2, <1>3, <1>4, <1>5, <1>6, <1>7, <1>8, <1>9, <1>10, <1>11, <1>12, <1>13,
      <1>14, <1>15, <1>16, <1>17, <1>18, <1>19, <1>20, <1>21, <1>22, <1>23, <1>24, <1>25,
      <1>26, <1>27, <1>28, NextCases

(* What a step makes of the status of a request.                           *)
LEMMA StatusKept ==
  ASSUME NEW r, replies'[r] = replies[r],
         r \in taken' <=> r \in taken, r \in gone' <=> r \in gone,
         r \in lost' <=> r \in lost, r \in stranded' <=> r \in stranded
  PROVE  StatusOf(r)' = StatusOf(r)
  BY DEF StatusOf

LEMMA StatusAnswered == ASSUME NEW r, Len(replies'[r]) = 1 PROVE StatusOf(r)' = "answered"
  BY DEF StatusOf

LEMMA StatusOpen ==
  ASSUME NEW r, Unsettled(r), r \notin gone
  PROVE  StatusOf(r) = IF r \in stranded THEN "lost" ELSE "open"
<1>1. replies[r] = <<>> /\ Len(replies[r]) = 0 /\ r \in taken \ (lost \cup gone)
  BY DEF Unsettled
<1> QED
  BY <1>1 DEF StatusOf

LEMMA StatusSettles ==
  ASSUME NEW S \in SUBSET Req, NEW how,
         \A r \in S : StatusOf(r)' = how,
         \A r \in Req \ S : StatusOf(r)' = StatusOf(r)
  PROVE  Service!Settle(S, how)
  BY DEF Service!Settle

(* A step that concerns no client is no step of the service.               *)
LEMMA ServiceStutters ==
  ASSUME UNCHANGED <<taken, replies, gone, lost, stranded, crashed>>
  PROVE  UNCHANGED Service!serviceVars
<1>1. \A r \in Req : StatusOf(r)' = StatusOf(r)
  BY StatusKept
<1> QED
  BY <1>1 DEF Service!serviceVars

LEMMA ServiceCrash == ASSUME Crash PROVE Service!Next
<1>1. \A r \in Req : StatusOf(r)' = StatusOf(r)
  BY StatusKept DEF Crash, clientVars
<1>2. Service!Die
  BY <1>1 DEF Service!Die, Crash
<1> QED
  BY <1>2 DEF Service!Next

(* A query is asked for, or answered at once.                              *)
LEMMA ServiceServe ==
  ASSUME TypeOK, Custody, Timing, AtHome, NEW w \in Worker, NEW r \in Req, Serve(w, r)
  PROVE  Service!Next
<1>1. /\ r \notin taken /\ r \notin gone /\ r \notin lost \cup stranded
      /\ replies[r] = <<>> /\ ~crashed
      /\ taken' = taken \cup {r} /\ UNCHANGED <<gone, lost, stranded, crashed>>
  BY DEF Serve, Custody, Untaken, Timing, Unstarted
<1>2. StatusOf(r) = "new"
  <2>1. Len(replies[r]) = 0
    BY <1>1
  <2> QED
    BY <1>1, <2>1 DEF StatusOf
<1>3. \A s \in Req \ {r} : replies'[s] = replies[s]
  BY DEF Serve, Answer
<1>4. \A s \in Req \ {r} : StatusOf(s)' = StatusOf(s)
  BY <1>1, <1>3, StatusKept
<1>5. Service!Settle({r}, "open") \/ Service!Settle({r}, "answered")
  <2>1. CASE UNCHANGED replies
    <3>1. StatusOf(r)' = "open"
      <4>1. replies'[r] = <<>> /\ Len(replies'[r]) = 0 /\ r \in taken' \ (lost' \cup stranded' \cup gone')
        BY <1>1, <2>1
      <4> QED
        BY <4>1 DEF StatusOf
    <3> QED
      BY <1>4, <3>1, StatusSettles
  <2>2. CASE ~UNCHANGED replies
    <3>1. PICK kind : Answer({r}, kind)
      BY <2>2 DEF Serve
    <3>2. Len(replies'[r]) = 1
      BY <1>1, <3>1 DEF Answer
    <3>3. StatusOf(r)' = "answered"
      BY <3>2, StatusAnswered
    <3> QED
      BY <1>4, <3>3, StatusSettles
  <2> QED
    BY <2>1, <2>2
<1>6. Service!Ask(r)
  BY <1>1, <1>2, <1>5 DEF Service!Ask
<1> QED
  BY <1>6 DEF Service!Next

(* Answering a set of requests that wait, one answer each.                 *)
LEMMA ServiceAnswers ==
  ASSUME NEW S \in SUBSET Req, ~crashed,
         \A r \in S : Unsettled(r) /\ r \notin gone /\ Len(replies'[r]) = 1,
         \A r \in Req \ S : replies'[r] = replies[r],
         UNCHANGED <<taken, gone, lost, stranded, crashed>>
  PROVE  [Service!Next]_(Service!serviceVars)
<1>1. \A r \in Req \ S : StatusOf(r)' = StatusOf(r)
  BY StatusKept
<1>2. \A r \in S : StatusOf(r) \in {"open", "lost"}
  BY StatusOpen
<1>3. \A r \in S : StatusOf(r)' = "answered"
  BY StatusAnswered
<1>4. Service!Settle(S, "answered")
  BY <1>1, <1>3, StatusSettles
<1>5. CASE S = {}
  BY <1>1, <1>5 DEF Service!serviceVars
<1>6. CASE S # {}
  <2>1. Service!Answer(S)
    BY <1>2, <1>4, <1>6 DEF Service!Answer
  <2> QED
    BY <2>1 DEF Service!Next
<1> QED
  BY <1>5, <1>6

(* The requests of an entry that can be answered.                          *)
LEMMA WaitingFacts ==
  ASSUME TypeOK, Custody, AtHome, NEW i
  PROVE  /\ Waiting(i) \in SUBSET Req
         /\ \A r \in Waiting(i) : Unsettled(r) /\ r \notin gone /\ replies[r] = <<>>
         /\ Waiting(i) # {} => ~crashed
<1>1. \A j \in DOMAIN backed : backed[j].reqs \subseteq Req
  BY DEF TypeOK, TableTypes, Entry
<1> QED
  BY <1>1 DEF Waiting, Custody, OneEntry, Unsettled, AtHome

LEMMA ServiceDenies ==
  ASSUME TypeOK, Custody, AtHome, NEW i, DenyAll(i),
         UNCHANGED <<taken, gone, lost, stranded, crashed>>
  PROVE  [Service!Next]_(Service!serviceVars)
<1> DEFINE W == Waiting(i)
<1>1. /\ W \in SUBSET Req /\ (W # {} => ~crashed)
      /\ \A r \in W : Unsettled(r) /\ r \notin gone /\ replies[r] = <<>>
  BY WaitingFacts
<1>2. /\ \A r \in W : replies'[r] = Append(<<>>, "deny")
      /\ \A r \in Req \ W : replies'[r] = replies[r]
  BY <1>1 DEF DenyAll, Answer
<1>3. \A r \in W : Len(replies'[r]) = 1
  BY <1>2
<1> HIDE DEF W
<1>4. CASE W = {}
  <2>1. \A r \in Req : StatusOf(r)' = StatusOf(r)
    BY <1>2, <1>4, StatusKept
  <2> QED
    BY <2>1 DEF Service!serviceVars
<1>5. CASE W # {}
  BY <1>1, <1>2, <1>3, <1>5, ServiceAnswers
<1> QED
  BY <1>4, <1>5

LEMMA ServiceDelivers ==
  ASSUME TypeOK, Custody, AtHome, DeliverToAll
  PROVE  [Service!Next]_(Service!serviceVars)
<1> DEFINE W == Waiting(dl.id)
<1>1. /\ W \in SUBSET Req /\ (W # {} => ~crashed)
      /\ \A r \in W : Unsettled(r) /\ r \notin gone /\ replies[r] = <<>>
  BY WaitingFacts
<1>2. PICK D : Deliver(W, D, trans[dl.id].file)
  BY DEF DeliverToAll
<1>3. \A r \in W : replies'[r] = Append(<<>>, IF r \in D THEN "deliver" ELSE "deny")
  BY <1>1, <1>2 DEF Deliver
<1>4. \A r \in Req \ W : replies'[r] = replies[r]
  BY <1>2 DEF Deliver
<1>5. \A r \in W : Len(replies'[r]) = 1
  BY <1>3
<1>6. UNCHANGED <<taken, gone, lost, stranded, crashed>>
  BY DEF DeliverToAll
<1> HIDE DEF W
<1>7. CASE W = {}
  <2>1. \A r \in Req : StatusOf(r)' = StatusOf(r)
    BY <1>4, <1>6, <1>7, StatusKept
  <2> QED
    BY <1>6, <2>1 DEF Service!serviceVars
<1>8. CASE W # {}
  BY <1>1, <1>4, <1>5, <1>6, <1>8, ServiceAnswers
<1> QED
  BY <1>7, <1>8

LEMMA ServiceDeliversOne ==
  ASSUME TypeOK, Custody, AtHome, NEW w \in Worker, DeliverFileFromLocalStorage(w)
  PROVE  [Service!Next]_(Service!serviceVars)
<1> DEFINE r == step[w].req
<1>1. r \in Req /\ Unsettled(r)
  BY HolderFacts DEF DeliverFileFromLocalStorage
<1>2. r \notin gone /\ ~crashed
  BY DEF AtHome, DeliverFileFromLocalStorage
<1>3. PICK D : Deliver({r}, D, FileOf[r])
  BY DEF DeliverFileFromLocalStorage
<1>4. replies'[r] = Append(<<>>, IF r \in D THEN "deliver" ELSE "deny")
  BY <1>1, <1>3 DEF Deliver, Unsettled
<1>5. \A s \in Req \ {r} : replies'[s] = replies[s]
  BY <1>3 DEF Deliver
<1>6. Len(replies'[r]) = 1
  BY <1>4
<1>7. UNCHANGED <<taken, gone, lost, stranded, crashed>>
  BY DEF DeliverFileFromLocalStorage
<1> HIDE DEF r
<1>8. {r} \in SUBSET Req
  BY <1>1
<1> QED
  BY <1>1, <1>2, <1>5, <1>6, <1>7, <1>8, ServiceAnswers

(* A request that is lost or stranded, when there is another one.          *)
LEMMA ServiceLoses ==
  ASSUME TypeOK, NEW r \in Req, Unsettled(r), ~crashed,
         NEW q \in taken, q # r,
         lost' \cup stranded' = lost \cup stranded \cup {r},
         UNCHANGED <<taken, replies, gone, crashed>>
  PROVE  [Service!Next]_(Service!serviceVars)
<1>1. replies[r] = <<>> /\ Len(replies[r]) = 0 /\ r \in taken
  BY DEF Unsettled
<1>2. \A s \in Req : s # r \/ r \in stranded \/ r \in gone => StatusOf(s)' = StatusOf(s)
  <2> SUFFICES ASSUME NEW s \in Req, s # r \/ r \in stranded \/ r \in gone
               PROVE  StatusOf(s)' = StatusOf(s)
    OBVIOUS
  <2>1. CASE s # r \/ r \in stranded
    <3>1. s \in lost' \cup stranded' <=> s \in lost \cup stranded
      BY <2>1
    <3> QED
      BY <3>1 DEF StatusOf
  <2>2. CASE s = r /\ r \in gone
    BY <1>1, <2>2 DEF StatusOf
  <2> QED
    BY <2>1, <2>2
<1>3. CASE r \in stranded \cup gone
  BY <1>2, <1>3 DEF Service!serviceVars
<1>4. CASE r \notin stranded \cup gone
  <2>1. StatusOf(r) = "open"
    BY <1>4, StatusOpen
  <2>2. StatusOf(r)' = "lost"
    <3>1. replies'[r] = <<>> /\ Len(replies'[r]) = 0 /\ r \notin gone' /\ r \in lost' \cup stranded'
      BY <1>1, <1>4
    <3> QED
      BY <3>1 DEF StatusOf
  <2>3. q \in Req \ {r} /\ StatusOf(q) # "new"
    <3>1. q \in Req /\ replies[q] \in Seq({"ssl", "deny", "deliver"})
      BY DEF TypeOK, ClientTypes
    <3>2. CASE replies[q] = <<>>
      <4>1. Len(replies[q]) = 0
        BY <3>2
      <4> QED
        BY <3>1, <3>2, <4>1 DEF StatusOf
    <3>3. CASE replies[q] # <<>>
      <4>1. Len(replies[q]) \in Nat \ {0}
        BY <3>1, <3>3, EmptySeq
      <4>2. \A n \in Nat \ {0} : n = 1 \/ n > 1
        OBVIOUS
      <4>3. Len(replies[q]) = 1 \/ Len(replies[q]) > 1
        BY <4>1, <4>2, Zenon
      <4> QED
        BY <3>1, <4>3 DEF StatusOf
    <3> QED
      BY <3>2, <3>3
  <2>4. Service!Settle({r}, "lost")
    BY <1>2, <2>2, StatusSettles
  <2>5. Service!Lose(r)
    BY <2>1, <2>3, <2>4 DEF Service!Lose
  <2> QED
    BY <2>5 DEF Service!Next
<1> QED
  BY <1>3, <1>4

(* Joining an entry that is stranded.                                      *)
LEMMA ServiceJoins ==
  ASSUME TypeOK, Custody, Timing, AtHome, NEW w \in Worker, IsDownloadPending(w)
  PROVE  [Service!Next]_(Service!serviceVars)
<1>1. PICK r \in Req : /\ r = step[w].req /\ Unsettled(r)
                       /\ \A i \in DOMAIN backed : r \notin backed[i].reqs
  BY HolderFacts DEF IsDownloadPending
<1>2. UNCHANGED <<taken, replies, gone, lost, crashed>> /\ ~crashed
  BY DEF IsDownloadPending, AtHome
<1>3. CASE UNCHANGED stranded
  BY <1>2, <1>3, ServiceStutters
<1>4. CASE ~UNCHANGED stranded
  <2>1. PICK i \in DOMAIN backed : stranded' = stranded \cup {r} /\ backed[i].timer \in stranded
    BY <1>1, <1>4 DEF IsDownloadPending, Pending
  <2>2. backed[i].timer \in taken /\ backed[i].timer # r
    BY <1>1, <2>1 DEF Timing, Owned, Unstarted
  <2>3. lost' \cup stranded' = lost \cup stranded \cup {r}
    BY <1>2, <2>1
  <2> QED
    BY <1>1, <1>2, <2>2, <2>3, ServiceLoses
<1> QED
  BY <1>3, <1>4

(* A backup that finds its id in use, or another than its timer names.     *)
LEMMA ServiceEmplaces ==
  ASSUME TypeOK, Custody, Timing, AtHome, NEW w \in Worker, EmplaceBackup(w)
  PROVE  [Service!Next]_(Service!serviceVars)
<1>1. PICK r \in Req : /\ r = step[w].req /\ Unsettled(r)
                       /\ \A i \in DOMAIN backed : r \notin backed[i].reqs
  BY HolderFacts DEF EmplaceBackup
<1>2. UNCHANGED <<taken, replies, gone, crashed>> /\ ~crashed
  BY DEF EmplaceBackup, AtHome
<1>3. CASE UNCHANGED <<lost, stranded>>
  BY <1>2, <1>3, ServiceStutters
<1>4. CASE ~UNCHANGED <<lost, stranded>>
  <2>1. lost' \cup stranded' = lost \cup stranded \cup {r}
    BY <1>1, <1>4 DEF EmplaceBackup
  <2>2. PICK q \in taken : q # r
    <3>1. CASE counter \in DOMAIN backed
      BY <1>1, <3>1 DEF Timing, Owned, Custody, OneEntry, Unsettled
    <3>2. CASE counter \notin DOMAIN backed
      BY <1>1, <1>4, <3>2 DEF EmplaceBackup, Timing, Overtaken
    <3> QED
      BY <3>1, <3>2
  <2> QED
    BY <1>1, <1>2, <2>1, <2>2, ServiceLoses
<1> QED
  BY <1>3, <1>4

(* Starting another timer than that of the entry just made.                *)
LEMMA ServiceStarts ==
  ASSUME TypeOK, Custody, Timing, AtHome, NEW w \in Worker, StartBackupTimer(w), ~Crash
  PROVE  [Service!Next]_(Service!serviceVars)
<1>1. UNCHANGED <<taken, replies, gone, lost, crashed>> /\ ~crashed
  BY DEF StartBackupTimer, AtHome
<1>2. CASE UNCHANGED stranded
  BY <1>1, <1>2, ServiceStutters
<1>3. CASE ~UNCHANGED stranded
  <2>1. step[w].id \in DOMAIN backed
    BY DEF StartBackupTimer, TypeOK, ThreadTypes
  <2>2. PICK r \in Req : r = backed[step[w].id].timer /\ Unsettled(r)
    BY <2>1 DEF TypeOK, TableTypes, Entry, Timing, Owned, Custody, OneEntry
  <2>3. stranded' = stranded \cup {r} /\ counter # step[w].id
    BY <1>3, <2>2 DEF StartBackupTimer
  <2>4. PICK q \in taken : q # r
    BY <2>2, <2>3 DEF StartBackupTimer, Timing, Overtaken
  <2>5. lost' \cup stranded' = lost \cup stranded \cup {r}
    BY <1>1, <2>3
  <2> QED
    BY <1>1, <2>2, <2>4, <2>5, ServiceLoses
<1> QED
  BY <1>2, <1>3

LEMMA ServiceLeaves ==
  ASSUME TypeOK, Custody, NEW r \in Req, RequesterLeaves(r)
  PROVE  [Service!Next]_(Service!serviceVars)
<1>1. /\ r \notin gone /\ gone' = gone \cup {r}
      /\ UNCHANGED <<taken, replies, lost, stranded, crashed>>
  BY DEF RequesterLeaves
<1>2. \A s \in Req \ {r} : StatusOf(s)' = StatusOf(s)
  BY <1>1, StatusKept
<1>3. CASE replies[r] = <<>>
  <2>1. Len(replies[r]) = 0
    BY <1>3
  <2>2. StatusOf(r) \in {"new", "open", "lost"} /\ StatusOf(r)' = "left"
    BY <1>1, <1>3, <2>1 DEF StatusOf
  <2>3. Service!Settle({r}, "left")
    BY <1>2, <2>2, StatusSettles
  <2>4. Service!Leave(r)
    BY <1>1, <2>2, <2>3 DEF Service!Leave
  <2> QED
    BY <2>4 DEF Service!Next
<1>4. CASE replies[r] # <<>>
  <2>1. StatusOf(r)' = StatusOf(r)
    BY <1>1, <1>4 DEF StatusOf
  <2>2. \A s \in Req : StatusOf(s)' = StatusOf(s)
    BY <1>2, <2>1
  <2> QED
    BY <1>1, <2>2 DEF Service!serviceVars
<1> QED
  BY <1>3, <1>4

(* Every step is one of the service, or none.                              *)
LEMMA ServiceStep ==
  ASSUME TypeOK, Custody, Timing, AtHome, [Next]_vars
  PROVE  [Service!Next]_(Service!serviceVars)
<1>1. ASSUME NEW w \in Worker, NEW r \in Req, Serve(w, r)
     PROVE  [Service!Next]_(Service!serviceVars)
  BY <1>1, ServiceServe
<1>2. ASSUME NEW w \in Worker, DeliverFileFromLocalStorage(w)
     PROVE  [Service!Next]_(Service!serviceVars)
  BY <1>2, ServiceDeliversOne
<1>3. ASSUME NEW w \in Worker, IsDownloadPending(w)
     PROVE  [Service!Next]_(Service!serviceVars)
  BY <1>3, ServiceJoins
<1>4. ASSUME NEW w \in Worker, LoadCounter(w)
     PROVE  [Service!Next]_(Service!serviceVars)
  <2>1. UNCHANGED <<taken, replies, gone, lost, stranded, crashed>>
    BY <1>4 DEF LoadCounter, clientVars
  <2> QED
    BY <2>1, ServiceStutters
<1>5. ASSUME NEW w \in Worker, StoreCounter(w)
     PROVE  [Service!Next]_(Service!serviceVars)
  <2>1. UNCHANGED <<taken, replies, gone, lost, stranded, crashed>>
    BY <1>5 DEF StoreCounter, clientVars
  <2> QED
    BY <2>1, ServiceStutters
<1>6. ASSUME NEW w \in Worker, CaptureRequestID(w)
     PROVE  [Service!Next]_(Service!serviceVars)
  <2>1. UNCHANGED <<taken, replies, gone, lost, stranded, crashed>>
    BY <1>6 DEF CaptureRequestID, clientVars
  <2> QED
    BY <2>1, ServiceStutters
<1>7. ASSUME NEW w \in Worker, EmplaceBackup(w)
     PROVE  [Service!Next]_(Service!serviceVars)
  BY <1>7, ServiceEmplaces
<1>8. ASSUME NEW w \in Worker, StartBackupTimer(w)
     PROVE  [Service!Next]_(Service!serviceVars)
  BY <1>8, ServiceStarts, ServiceCrash
<1>9. ASSUME NEW i \in DOMAIN backed, NEW c \in Modes, DownloadReply(i, c)
     PROVE  [Service!Next]_(Service!serviceVars)
  <2>1. UNCHANGED <<taken, replies, gone, lost, stranded, crashed>>
    BY <1>9 DEF DownloadReply, clientVars
  <2> QED
    BY <2>1, ServiceStutters
<1>10. ASSUME NEW r \in Req, BackupTimer(r)
     PROVE  [Service!Next]_(Service!serviceVars)
  BY <1>10, ServiceDenies, ServiceCrash DEF BackupTimer
<1>11. ASSUME BeginDownloadTransaction
     PROVE  [Service!Next]_(Service!serviceVars)
  <2>1. CASE Crash
    BY <2>1, ServiceCrash
  <2>2. CASE ~Crash
    <3>1. UNCHANGED <<taken, replies, gone, lost, stranded, crashed>>
      BY <1>11, <2>2 DEF BeginDownloadTransaction, clientVars
    <3> QED
      BY <3>1, ServiceStutters
  <2> QED
    BY <2>1, <2>2
<1>12. ASSUME NotifyFileDownload
     PROVE  [Service!Next]_(Service!serviceVars)
  <2>1. CASE Crash
    BY <2>1, ServiceCrash
  <2>2. CASE ~Crash
    <3>1. UNCHANGED <<taken, replies, gone, lost, stranded, crashed>>
      BY <1>12, <2>2 DEF NotifyFileDownload, clientVars
    <3> QED
      BY <3>1, ServiceStutters
  <2> QED
    BY <2>1, <2>2
<1>13. ASSUME DenyWaiting
     PROVE  [Service!Next]_(Service!serviceVars)
  BY <1>13, ServiceDenies DEF DenyWaiting
<1>14. ASSUME HandleHandshake
     PROVE  [Service!Next]_(Service!serviceVars)
  <2>1. UNCHANGED <<taken, replies, gone, lost, stranded, crashed>>
    BY <1>14 DEF HandleHandshake, clientVars
  <2> QED
    BY <2>1, ServiceStutters
<1>15. ASSUME HelloRefused
     PROVE  [Service!Next]_(Service!serviceVars)
  <2>1. UNCHANGED <<taken, replies, gone, lost, stranded, crashed>>
    BY <1>15 DEF HelloRefused, clientVars
  <2> QED
    BY <2>1, ServiceStutters
<1>16. ASSUME NEW i \in DOMAIN trans, TryStartDownloadTransaction(i)
     PROVE  [Service!Next]_(Service!serviceVars)
  <2>1. CASE Crash
    BY <2>1, ServiceCrash
  <2>2. CASE ~Crash
    <3>1. UNCHANGED <<taken, replies, gone, lost, stranded, crashed>>
      BY <1>16, <2>2 DEF TryStartDownloadTransaction, clientVars
    <3> QED
      BY <3>1, ServiceStutters
  <2> QED
    BY <2>1, <2>2
<1>17. ASSUME ReadHeader
     PROVE  [Service!Next]_(Service!serviceVars)
  <2>1. CASE Crash
    BY <2>1, ServiceCrash
  <2>2. CASE ~Crash
    <3>1. UNCHANGED <<taken, replies, gone, lost, stranded, crashed>>
      BY <1>17, <2>2 DEF ReadHeader, clientVars
    <3> QED
      BY <3>1, ServiceStutters
  <2> QED
    BY <2>1, <2>2
<1>18. ASSUME NEW i \in DOMAIN trans, NEW ok \in BOOLEAN, Received(i, ok)
     PROVE  [Service!Next]_(Service!serviceVars)
  <2>1. UNCHANGED <<taken, replies, gone, lost, stranded, crashed>>
    BY <1>18 DEF Received, clientVars
  <2> QED
    BY <2>1, ServiceStutters
<1>19. ASSUME CloseDownloadTransaction
     PROVE  [Service!Next]_(Service!serviceVars)
  <2>1. UNCHANGED <<taken, replies, gone, lost, stranded, crashed>>
    BY <1>19 DEF CloseDownloadTransaction, clientVars
  <2> QED
    BY <2>1, ServiceStutters
<1>20. ASSUME SetFileToCached
     PROVE  [Service!Next]_(Service!serviceVars)
  <2>1. CASE Crash
    BY <2>1, ServiceCrash
  <2>2. CASE ~Crash
    <3>1. UNCHANGED <<taken, replies, gone, lost, stranded, crashed>>
      BY <1>20, <2>2 DEF SetFileToCached, clientVars
    <3> QED
      BY <3>1, ServiceStutters
  <2> QED
    BY <2>1, <2>2
<1>21. ASSUME DeliverToAll
     PROVE  [Service!Next]_(Service!serviceVars)
  BY <1>21, ServiceDelivers
<1>22. ASSUME DenyToAll
     PROVE  [Service!Next]_(Service!serviceVars)
  BY <1>22, ServiceDenies DEF DenyToAll
<1>23. ASSUME EndDownloadTransaction
     PROVE  [Service!Next]_(Service!serviceVars)
  <2>1. CASE Crash
    BY <2>1, ServiceCrash
  <2>2. CASE ~Crash
    <3>1. UNCHANGED <<taken, replies, gone, lost, stranded, crashed>>
      BY <1>23, <2>2 DEF EndDownloadTransaction, clientVars
    <3> QED
      BY <3>1, ServiceStutters
  <2> QED
    BY <2>1, <2>2
<1>24. ASSUME NEW i \in armed, TransactionTimer(i)
     PROVE  [Service!Next]_(Service!serviceVars)
  <2>1. CASE Crash
    BY <2>1, ServiceCrash
  <2>2. CASE ~Crash
    <3>1. UNCHANGED <<taken, replies, gone, lost, stranded, crashed>>
      BY <1>24, <2>2 DEF TransactionTimer, clientVars
    <3> QED
      BY <3>1, ServiceStutters
  <2> QED
    BY <2>1, <2>2
<1>25. ASSUME NEW r \in Req, UploadDone(r)
     PROVE  [Service!Next]_(Service!serviceVars)
  <2>1. UNCHANGED <<taken, replies, gone, lost, stranded, crashed>>
    BY <1>25 DEF UploadDone, clientVars
  <2> QED
    BY <2>1, ServiceStutters
<1>26. ASSUME NEW r \in Req, RequesterLeaves(r)
     PROVE  [Service!Next]_(Service!serviceVars)
  BY <1>26, ServiceLeaves
<1>27. ASSUME NEW f \in File, OwnerLeaves(f)
     PROVE  [Service!Next]_(Service!serviceVars)
  <2>1. UNCHANGED <<taken, replies, gone, lost, stranded, crashed>>
    BY <1>27 DEF OwnerLeaves, clientVars
  <2> QED
    BY <2>1, ServiceStutters
<1>28. ASSUME UNCHANGED vars PROVE [Service!Next]_(Service!serviceVars)
  <2>1. UNCHANGED <<taken, replies, gone, lost, stranded, crashed>>
    BY <1>28 DEF vars, clientVars
  <2> QED
    BY <2>1, ServiceStutters
<1> QED
  BY <1>1, <1>2, <1>3, <1>4, <1>5, <1>6, <1>7, <1>8, <1>9, <1>10, <1>11, <1>12, <1>13,
      <1>14, <1>15, <1>16, <1>17, <1>18, <1>19, <1>20, <1>21, <1>22, <1>23, <1>24, <1>25,
      <1>26, <1>27, <1>28, NextCases

(* Every behaviour of the three kinds of threads is one of the download    *)
(* service: an answered request is settled, a request is answered or lost  *)
(* only while it is open, several of one entry together, and none is lost  *)
(* or stranded but by another request that is served at the same time.     *)
THEOREM SimulatesService ==
  SafeSpec => Service!Init /\ [][Service!Next]_(Service!serviceVars)
<1>1. Init => Service!Init
  <2> SUFFICES ASSUME Init PROVE Service!Init
    OBVIOUS
  <2>1. \A r \in Req : StatusOf(r) = "new"
    <3> SUFFICES ASSUME NEW r \in Req PROVE StatusOf(r) = "new"
      OBVIOUS
    <3>1. replies[r] = <<>> /\ Len(replies[r]) = 0 /\ r \notin gone /\ r \notin lost \cup stranded /\ r \notin taken
      BY DEF Init
    <3> QED
      BY <3>1 DEF StatusOf
  <2>2. ~crashed = TRUE
    BY DEF Init
  <2> QED
    BY <2>1, <2>2 DEF Service!Init
<1>2. SafeSpec => []AtHome
  <2>1. TypeOK /\ AtHome /\ [Next]_vars => AtHome'
    BY AtHomeNext
  <2> QED
    BY <2>1, AtHomeInit, TypeCorrect, PTL DEF SafeSpec
<1>3. TypeOK /\ Custody /\ Timing /\ AtHome /\ [Next]_vars => [Service!Next]_(Service!serviceVars)
  BY ServiceStep
<1> QED
  BY <1>1, <1>2, <1>3, Invariants, PTL DEF SafeSpec
=============================================================================
