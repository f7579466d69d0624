------------------------------ MODULE DaemonProofs ------------------------------
(***************************************************************************)
(* Theorems about Daemon: what was proved of PriorityManager and of         *)
(* Application, carried over to their composition.                          *)
(***************************************************************************)
EXTENDS Daemon, ApplicationProofs

\* The PriorityManager of Daemon, with its theorems.
PMP == INSTANCE PriorityManagerProofs WITH
  Ids       <- Incoming,
  MessageId <- [r \in Receivers |-> r[1]],
  senders   <- wakers

-----------------------------------------------------------------------------
(* The inductive invariant *)

\* Whoever has turned to the PriorityManager is a task of the Application.
ReceiversAreTasks ==
  \A r \in Receivers : pc[r] # "idle" =>
    r[2] \in DOMAIN tasks /\ tasks[r[2]].id = r[1]

\* A task between its registration and its unregistration has not announced its
\* end, and an Application aborts it only once it has shut down.
EngagedTrue ==
  \A r \in Receivers : pc[r] \notin {"idle", "finished"} =>
    \/ tasks[r[2]].state \in {"running", "done"}
    \/ tasks[r[2]].state = "aborted" /\ app[tasks[r[2]].life] # "running"

DaemonInv ==
  /\ IInv
  /\ PMP!SharedInv
  /\ ReceiversAreTasks
  /\ EngagedTrue
  /\ ReceivedOnce => PMP!IInv

-----------------------------------------------------------------------------
(* The PriorityManager of Daemon is that of the theorems *)

LEMMA ManagerAssumption == PMP!PriorityAssumption
<1>1. [r \in Receivers |-> r[1]] \in [Receivers -> Incoming]
  BY DEF Receivers
<1> QED
  BY <1>1, DaemonAssumption DEF PMP!PriorityAssumption, Receivers

LEMMA SameTerms ==
  /\ PM!Level = PMP!Level /\ PM!Empty = PMP!Empty
  /\ PM!AlwaysAnswered <=> PMP!AlwaysAnswered
  /\ PM!Init <=> PMP!Init
BY DEF PM!Level, PMP!Level, PM!Empty, PMP!Empty, PM!AlwaysAnswered, PMP!AlwaysAnswered,
       PM!Init, PMP!Init

LEMMA SameActivation ==
  ASSUME NEW q, NEW snd, NEW lev, NEW pcs
  PROVE  PM!TryActivate(q, snd, lev, pcs) <=> PMP!TryActivate(q, snd, lev, pcs)
BY Zenon
   DEF PM!TryActivate, PMP!TryActivate, PM!Cardinality, PMP!Cardinality,
       PM!HasSender, PMP!HasSender, PM!EmptyPositions, PMP!EmptyPositions,
       PM!Pops, PMP!Pops, PM!Range, PMP!Range, PM!Level, PMP!Level, PM!Empty, PMP!Empty,
       PM!Before, PMP!Before, PM!SortPriorityLevels, PMP!SortPriorityLevels,
       PM!Bijection, PMP!Bijection, PM!Injection, PMP!Injection,
       PM!Surjection, PMP!Surjection, PM!IsInjective, PMP!IsInjective

LEMMA SameHandle == PM!Handle <=> PMP!Handle
<1>1. ASSUME NEW m
      PROVE  PM!HandleRegister(m) <=> PMP!HandleRegister(m)
  BY SameActivation, Zenon DEF PM!HandleRegister, PMP!HandleRegister
<1>2. ASSUME NEW m
      PROVE  PM!HandleGet(m) <=> PMP!HandleGet(m)
  BY Zenon
     DEF PM!HandleGet, PMP!HandleGet, PM!IsMessagePosition, PMP!IsMessagePosition,
         PM!Positions, PMP!Positions, PM!managerVars, PMP!managerVars,
         PM!Level, PMP!Level, PM!Empty, PMP!Empty,
         PM!Before, PMP!Before, PM!SortPriorityLevels, PMP!SortPriorityLevels,
         PM!Bijection, PMP!Bijection, PM!Injection, PMP!Injection,
         PM!Surjection, PMP!Surjection, PM!IsInjective, PMP!IsInjective
<1>3. ASSUME NEW m
      PROVE  PM!HandleUnregister(m) <=> PMP!HandleUnregister(m)
  BY SameActivation, Zenon
     DEF PM!HandleUnregister, PMP!HandleUnregister, PM!IsMessagePosition,
         PMP!IsMessagePosition, PM!Positions, PMP!Positions, PM!Level, PMP!Level,
         PM!Empty, PMP!Empty, PM!managerVars, PMP!managerVars, PM!clientVars, PMP!clientVars
<1> QED
  BY <1>1, <1>2, <1>3, Zenon DEF PM!Handle, PMP!Handle

LEMMA SameRequests ==
  ASSUME NEW r, NEW n
  PROVE  /\ PM!AskFirst(r) <=> PMP!AskFirst(r)
         /\ PM!Unregister(r) <=> PMP!Unregister(r)
         /\ PM!Register(r, n) <=> PMP!Register(r, n)
         /\ PM!AskNext(r, n) <=> PMP!AskNext(r, n)
<1> USE DEF PM!Send, PMP!Send, PM!managerVars, PMP!managerVars
<1>1. PM!AskFirst(r) <=> PMP!AskFirst(r)
  BY Zenon DEF PM!AskFirst, PMP!AskFirst
<1>2. PM!Unregister(r) <=> PMP!Unregister(r)
  BY Zenon DEF PM!Unregister, PMP!Unregister
<1>3. PM!Register(r, n) <=> PMP!Register(r, n)
  BY Zenon DEF PM!Register, PMP!Register
<1>4. PM!AskNext(r, n) <=> PMP!AskNext(r, n)
  BY Zenon DEF PM!AskNext, PMP!AskNext
<1> QED
  BY <1>1, <1>2, <1>3, <1>4

-----------------------------------------------------------------------------
(* Steps of the Application *)

\* A life that has made a task and shut down does not run again.
LEMMA LivesOver ==
  ASSUME IInv, [Next]_vars, NEW t \in DOMAIN tasks, app'[tasks[t].life] = "running"
  PROVE  app[tasks[t].life] = "running"
<1> DEFINE l == tasks[t].life
<1>1. app \in [Lives -> {"none", "running", "draining", "ended", "panicked"}] /\ l \in Lives
  <2>1. tasks[t] \in Task
    BY DEF IInv, Control, TypeOK
  <2> QED
    BY <2>1 DEF Task, IInv, Control, TypeOK
<1> HIDE DEF l
<1>2. CASE CreateApplication /\ app' # app
  <2>1. app' = [app EXCEPT ![lives + 1] = "running"]
    BY <1>2 DEF CreateApplication
  <2>2. l # lives + 1
    <3>1. lives \in Nat
      BY RegistrarTyped DEF IInv, Control
    <3> QED
      BY <1>1, <3>1 DEF IInv, Control, Fresh, l
  <2> QED
    BY <1>1, <2>1, <2>2 DEF l
<1>3. CASE RemoveApplication
  BY <1>1, <1>3 DEF RemoveApplication, l
<1>4. ASSUME NEW k \in Lives, HandleMessage(k)
      PROVE  app[l] = "running"
  <2>1. app' = app \/ app' = [app EXCEPT ![k] = "draining"]
    BY <1>4 DEF HandleMessage, HandleData, HandleSubmit, HandleFromReceiver, HandleFromSender,
                HandleShutdown
  <2> QED
    BY <1>1, <2>1 DEF l
<1>5. ASSUME NEW k \in Lives, EndApplication(k)
      PROVE  app[l] = "running"
  BY <1>1, <1>5 DEF EndApplication, l
<1>6. ASSUME NEW k \in Lives, PanicOnData(k)
      PROVE  app[l] = "running"
  BY <1>1, <1>6 DEF PanicOnData, l
<1>7. \/ app' = app
      \/ CreateApplication \/ RemoveApplication
      \/ \E k \in Lives : HandleMessage(k) \/ EndApplication(k) \/ PanicOnData(k)
  BY DEF Next, Connect, RegistrarStep, ReadRegistration, RefuseRegistration, ForwardData,
         DispatchData, LifeStep, StopReading, StopWriting, Submit, TaskStep, HandOver, Exit,
         Announce, End, lifeVars, vars
<1> QED
  BY <1>2, <1>3, <1>4, <1>5, <1>6, <1>7 DEF l

\* What happens to a task while it does not move itself.
LEMMA TasksLeft ==
  ASSUME IInv, ApplicationNext, NEW t \in DOMAIN tasks
  PROVE  /\ t \in DOMAIN tasks'
         /\ tasks'[t].life = tasks[t].life /\ tasks'[t].id = tasks[t].id
         /\ tasks'[t] = tasks[t] \/ tasks'[t].state = "aborted"
<1>1. tasks \in Seq(Task) /\ t \in 1 .. Len(tasks) /\ Len(tasks) \in Nat
  BY LenProperties DEF IInv, Control, TypeOK
<1>2. CASE tasks' = tasks
  BY <1>2
<1>3. ASSUME NEW l \in Lives, HandleMessage(l), tasks' # tasks
      PROVE  /\ t \in DOMAIN tasks'
             /\ tasks'[t].life = tasks[t].life /\ tasks'[t].id = tasks[t].id
             /\ tasks'[t] = tasks[t] \/ tasks'[t].state = "aborted"
  <2> DEFINE msg == Head(inbox[l])
  <2>1. msg \in Message
    BY <1>3, TakenHolds DEF HandleMessage, Takes, IInv, Control
  <2>2. \/ tasks' = Spawned(l, msg.id)
        \/ /\ msg.kind \in {"FromMessageReceiver", "FromMessageSender"}
           /\ tasks' = Aborted(l, msg.id)
    BY <1>3 DEF HandleMessage, HandleData, HandleSubmit, HandleFromReceiver, HandleFromSender,
                HandleShutdown
  <2>3. CASE tasks' = Spawned(l, msg.id)
    BY <1>1, <2>3 DEF Spawned
  <2>4. CASE /\ msg.kind \in {"FromMessageReceiver", "FromMessageSender"}
             /\ tasks' = Aborted(l, msg.id)
    <3>1. msg.id \in Incoming \cup Outgoing
      BY <2>1, <2>4 DEF Message
    <3> HIDE DEF msg
    <3> QED
      BY <2>4, <3>1, AbortedTask
  <2> QED
    BY <2>2, <2>3, <2>4
<1>4. tasks' = tasks \/ \E l \in Lives : HandleMessage(l)
  BY DEF ApplicationNext, Connect, RegistrarStep, ReadRegistration, CreateApplication,
         RefuseRegistration, RemoveApplication, ForwardData, DispatchData, LifeStep,
         PanicOnData, EndApplication, StopReading, StopWriting, tableVars
<1> QED
  BY <1>2, <1>3, <1>4

\* Tasks may end without a report: Application does not notice.
LEMMA TasksFail ==
  ASSUME IInv,
         tasks' \in Seq(Task), DOMAIN tasks' = DOMAIN tasks,
         \A t \in DOMAIN tasks :
           /\ tasks'[t].life = tasks[t].life /\ tasks'[t].id = tasks[t].id
           /\ \/ tasks'[t] = tasks[t]
              \/ tasks[t].state = "running" /\ tasks'[t].state = "done",
         UNCHANGED <<registrarVars, lifeVars, delivered, receivers, senders, joins,
                     netVars, handed>>
  PROVE  IInv'
<1>1. /\ registry' = registry /\ registrar' = registrar /\ reading' = reading
      /\ connections' = connections /\ lives' = lives
      /\ app' = app /\ inbox' = inbox /\ reader' = reader /\ writer' = writer
      /\ delivered' = delivered /\ receivers' = receivers /\ senders' = senders
      /\ joins' = joins /\ dr' = dr /\ arrivals' = arrivals /\ handed' = handed
  BY DEF registrarVars, lifeVars, netVars
<1>2. Control'
  <2>1. TypeOK'
    BY <1>1 DEF IInv, Control, TypeOK
  <2>2. ConnectionsCounted' /\ OneLife' /\ EndsTrue' /\ RemovalTrue' /\ RegistryTrue'
    BY <1>1
       DEF IInv, Control, ConnectionsCounted, OneLife, EndsTrue, RemovalTrue, RegistryTrue,
           Unstopped
  <2>3. \A l \in Lives : l > lives' => Fresh(l)'
    BY <1>1 DEF IInv, Control, Fresh
  <2> QED
    BY <2>1, <2>2, <2>3 DEF Control
<1>3. \A t \in DOMAIN tasks : \A l, id : Of(t, l, id)' <=> Of(t, l, id)
  BY DEF Of
<1>4. JoinsTrue'
  <2>1. \A l \in Lives : \A id \in Incoming \cup Outgoing :
          joins[l][id] # None => joins[l][id] \in DOMAIN tasks
    BY DEF IInv, Control, TypeOK
  <2> QED
    BY <1>1, <1>3, <2>1 DEF IInv, Tables, JoinsTrue
<1>5. MessagesKnown' /\ IdsDrawn' /\ OneReceiver' /\ HandedOnce'
  BY <1>1 DEF IInv, Tables, MessagesKnown, IdsDrawn, OneReceiver, HandedOnce, Unstopped
<1>6. ReportsTrue'
  <2> SUFFICES ASSUME NEW l \in Lives, app[l] = "running", NEW id \in Incoming \cup Outgoing,
                      Carries(inbox[l], Report(id))
               PROVE  \E t \in DOMAIN tasks :
                        Of(t, l, id) /\ tasks'[t].state \in {"ending", "done", "aborted"}
    BY <1>1, <1>3 DEF ReportsTrue
  <2>1. PICK t \in DOMAIN tasks :
          Of(t, l, id) /\ tasks[t].state \in {"ending", "done", "aborted"}
    BY DEF IInv, Tables, ReportsTrue
  <2> QED
    BY <2>1
<1>7. HandedTrue'
  <2> SUFFICES ASSUME NEW l \in Lives, Unstopped(l), NEW id \in Incoming,
                      handed[l][id] # 0
               PROVE  \E t \in DOMAIN tasks : Of(t, l, id) /\ tasks'[t].state # "running"
    BY <1>1, <1>3 DEF HandedTrue, Unstopped
  <2>1. PICK t \in DOMAIN tasks : Of(t, l, id) /\ tasks[t].state # "running"
    BY DEF IInv, Tables, HandedTrue
  <2> QED
    BY <2>1
<1> QED
  BY <1>2, <1>4, <1>5, <1>6, <1>7 DEF IInv, Tables

-----------------------------------------------------------------------------
(* Steps of the daemon *)

\* What the theorems about PriorityManager ask for: each receiver has an id of its
\* own if each message has one receiver.
LEMMA OnceOwnsIds ==
  ReceiversAreTasks /\ ReceivedOnce => PMP!OwnIds
<1> SUFFICES ASSUME ReceiversAreTasks, ReceivedOnce,
                    NEW r \in Receivers, NEW q \in Receivers,
                    pc[r] # "idle", pc[q] # "idle", r[1] = q[1]
             PROVE  r = q
  BY Zenon DEF PMP!OwnIds, PMP!Started
<1>1. /\ r[2] \in DOMAIN tasks /\ tasks[r[2]].id = r[1]
      /\ q[2] \in DOMAIN tasks /\ tasks[q[2]].id = q[1]
      /\ r[1] \in Incoming
  BY DEF ReceiversAreTasks, Receivers
<1>2. r[2] = q[2]
  BY <1>1 DEF ReceivedOnce
<1> QED
  BY <1>2 DEF Receivers

\* In one life it has: that is OneReceiver, which Application keeps.
LEMMA LifeReceivesOnce ==
  IInv /\ NoFormerLife => ReceivedOnce
<1> SUFFICES ASSUME IInv, NoFormerLife,
                    NEW t \in DOMAIN tasks, NEW u \in DOMAIN tasks,
                    tasks[t].id \in Incoming, tasks[t].id = tasks[u].id
             PROVE  t = u
  BY DEF ReceivedOnce
<1>1. tasks[t] \in Task /\ tasks[u] \in Task
  BY DEF IInv, Control, TypeOK
<1>2. /\ tasks[t].life \in Lives /\ tasks[t].life = tasks[u].life
      /\ Unstopped(tasks[t].life)
  BY <1>1 DEF Task, NoFormerLife, IInv, Control, OneLife
<1> QED
  BY <1>2 DEF NoFormerLife, IInv, Tables, OneReceiver

TasksKept ==
  \A t \in DOMAIN tasks :
    /\ t \in DOMAIN tasks'
    /\ tasks'[t].life = tasks[t].life /\ tasks'[t].id = tasks[t].id
    /\ app'[tasks[t].life] = "running" => app[tasks[t].life] = "running"

LEMMA DaemonInvKept ==
  ASSUME DaemonInv, IInv', [PMP!Next]_(PMP!vars), TasksKept,
         ReceiversAreTasks', EngagedTrue'
  PROVE  DaemonInv'
<1>1. PMP!SharedInv'
  BY ManagerAssumption, PMP!NextShared DEF DaemonInv
<1>2. ASSUME ReceivedOnce'
      PROVE  PMP!IInv'
  <2>1. ReceivedOnce
    BY <1>2 DEF ReceivedOnce, TasksKept
  <2>2. PMP!OwnIds
    BY <2>1, OnceOwnsIds DEF DaemonInv
  <2>3. (ReceiversAreTasks /\ ReceivedOnce => PMP!OwnIds)'
    BY OnceOwnsIds, PTL
  <2>4. PMP!OwnIds'
    BY <1>2, <2>3
  <2> QED
    BY <2>1, <2>2, <2>4, ManagerAssumption, PMP!NextIInv DEF DaemonInv
<1> QED
  BY <1>1, <1>2 DEF DaemonInv

LEMMA SettledPcs ==
  ASSUME DaemonInv, TasksKept, pc' = pc
  PROVE  ReceiversAreTasks'
BY DEF DaemonInv, ReceiversAreTasks, TasksKept

LEMMA ApplicationDaemonInv ==
  ASSUME DaemonInv, ApplicationNext
  PROVE  DaemonInv'
<1>1. Next /\ pc' = pc /\ UNCHANGED managerVars
  BY DEF ApplicationNext, Next, managerVars
<1>2. IInv'
  BY <1>1, NextIInv DEF DaemonInv
<1>3. TasksKept
  BY <1>1, TasksLeft, LivesOver DEF DaemonInv, TasksKept
<1>4. EngagedTrue'
  <2> SUFFICES ASSUME NEW r \in Receivers, pc[r] \notin {"idle", "finished"}
               PROVE  \/ tasks'[r[2]].state \in {"running", "done"}
                      \/ /\ tasks'[r[2]].state = "aborted"
                         /\ app'[tasks'[r[2]].life] # "running"
    BY <1>1 DEF EngagedTrue
  <2> DEFINE t == r[2]
  <2>1. /\ t \in DOMAIN tasks
        /\ \/ tasks[t].state \in {"running", "done"}
           \/ tasks[t].state = "aborted" /\ app[tasks[t].life] # "running"
    BY DEF DaemonInv, ReceiversAreTasks, EngagedTrue
  <2> HIDE DEF t
  <2>2. tasks'[t] = tasks[t] \/ tasks'[t].state = "aborted"
    BY <2>1, TasksLeft DEF DaemonInv
  <2>3. tasks'[t].life = tasks[t].life
    BY <1>3, <2>1 DEF TasksKept
  <2>4. ASSUME tasks'[t].state = "aborted", app'[tasks[t].life] = "running"
        PROVE  FALSE
    <3>1. app[tasks[t].life] = "running"
      BY <1>3, <2>1, <2>4 DEF TasksKept
    <3>2. tasks[t].state \in {"ending", "aborted"}
      BY <1>1, <2>1, <2>4, <3>1, AbortStep DEF DaemonInv
    <3> QED
      BY <2>1, <3>1, <3>2
  <2> QED
    BY <2>1, <2>2, <2>3, <2>4 DEF t
<1> QED
  BY <1>1, <1>2, <1>3, <1>4, SettledPcs, DaemonInvKept DEF managerVars, PMP!vars

\* A task that leaves a state in which it is not engaged.
LEMMA TaskDaemonInv ==
  ASSUME DaemonInv, NEW t \in DOMAIN tasks, NEW state, Become(t, state), IInv',
         app' = app, UNCHANGED managerVars,
         \/ state = "done"
         \/ pc[ReceiverOf(t)] \in {"idle", "finished"}
         \/ tasks[t].state \in {"announcing", "ending"}
  PROVE  DaemonInv'
<1>1. pc' = pc
  BY DEF managerVars
<1>2. /\ DOMAIN tasks' = DOMAIN tasks
      /\ \A u \in DOMAIN tasks \ {t} : tasks'[u] = tasks[u]
      /\ tasks'[t].state = state
      /\ \A u \in DOMAIN tasks : tasks'[u].life = tasks[u].life /\ tasks'[u].id = tasks[u].id
  BY StateChanges DEF Become, DaemonInv, IInv, Control, TypeOK
<1>3. TasksKept
  BY <1>2 DEF TasksKept
<1>4. EngagedTrue'
  <2> SUFFICES ASSUME NEW r \in Receivers, pc[r] \notin {"idle", "finished"}
               PROVE  \/ tasks'[r[2]].state \in {"running", "done"}
                      \/ /\ tasks'[r[2]].state = "aborted"
                         /\ app'[tasks'[r[2]].life] # "running"
    BY <1>1 DEF EngagedTrue
  <2>1. /\ r[2] \in DOMAIN tasks /\ tasks[r[2]].id = r[1]
        /\ \/ tasks[r[2]].state \in {"running", "done"}
           \/ tasks[r[2]].state = "aborted" /\ app[tasks[r[2]].life] # "running"
    BY DEF DaemonInv, ReceiversAreTasks, EngagedTrue
  <2>2. CASE r[2] # t
    BY <1>2, <2>1, <2>2
  <2>3. CASE r[2] = t
    <3>1. r = ReceiverOf(t)
      BY <2>1, <2>3 DEF ReceiverOf, Receivers
    <3> QED
      BY <1>2, <2>1, <2>3, <3>1
  <2> QED
    BY <2>2, <2>3
<1> QED
  BY <1>1, <1>3, <1>4, SettledPcs, DaemonInvKept DEF managerVars, PMP!vars

LEMMA TaskStepsDaemonInv ==
  ASSUME DaemonInv, NEW t, FailToSend(t) \/ Finish(t) \/ Close(t)
  PROVE  DaemonInv'
<1>1. t \in DOMAIN tasks
  BY DEF FailToSend, Running, Finish, Close
<1>2. CASE FailToSend(t)
  <2>1. /\ Become(t, "done") /\ tasks[t].state = "running"
        /\ UNCHANGED <<registrarVars, lifeVars, delivered, receivers, senders, joins,
                       netVars, handed>>
        /\ UNCHANGED managerVars /\ app' = app
    BY <1>2 DEF FailToSend, Running, lifeVars
  <2>2. /\ tasks' \in Seq(Task)
        /\ DOMAIN tasks' = DOMAIN tasks
        /\ \A u \in DOMAIN tasks \ {t} : tasks'[u] = tasks[u]
        /\ tasks'[t].state = "done"
        /\ \A u \in DOMAIN tasks : tasks'[u].life = tasks[u].life /\ tasks'[u].id = tasks[u].id
    BY <1>1, <2>1, StateChanges DEF Become, DaemonInv, IInv, Control, TypeOK
  <2>3. IInv'
    BY <2>1, <2>2, TasksFail DEF DaemonInv
  <2> QED
    BY <1>1, <2>1, <2>3, TaskDaemonInv
<1>3. CASE Finish(t) \/ Close(t)
  <2>1. /\ TaskStep(t) /\ app' = app /\ UNCHANGED managerVars
        /\ \E state : Become(t, state)
        /\ \/ pc[ReceiverOf(t)] \in {"idle", "finished"}
           \/ tasks[t].state \in {"announcing", "ending"}
    BY <1>3 DEF Finish, Close, TaskStep, HandOver, Exit, Announce, End, lifeVars
  <2>2. Next
    BY <1>1, <2>1 DEF Next
  <2>3. IInv'
    BY <2>2, NextIInv DEF DaemonInv
  <2> QED
    BY <1>1, <2>1, <2>3, TaskDaemonInv
<1> QED
  BY <1>2, <1>3

\* The requests of the receivers are those of PriorityManager.
LEMMA RequestSteps ==
  ASSUME PMP!SharedInv, NEW t \in TaskNumbers, Ask(t) \/ Unregister(t)
  PROVE  /\ PMP!Next /\ UNCHANGED vars
         /\ ReceiverOf(t) \in Receivers
         /\ \A r \in Receivers \ {ReceiverOf(t)} : pc'[r] = pc[r]
<1> DEFINE r == ReceiverOf(t)
<1>1. r \in Receivers /\ UNCHANGED vars
  BY DEF Ask, Unregister, Running, ReceiverOf, Receivers
<1> HIDE DEF r
<1>2. \/ PMP!AskFirst(r)
      \/ PMP!Unregister(r)
      \/ \E n \in 1 .. MAX_REMAINING : PMP!Register(r, n) \/ PMP!AskNext(r, n)
  <2>1. \/ PM!AskFirst(r)
        \/ PM!Unregister(r)
        \/ \E n \in 1 .. MAX_REMAINING : PM!Register(r, n) \/ PM!AskNext(r, n)
    BY DEF Ask, Unregister, r
  <2> QED
    BY <2>1, SameRequests
<1>3. PICK to : pc' = [pc EXCEPT ![r] = to]
  BY <1>2 DEF PMP!AskFirst, PMP!Unregister, PMP!Register, PMP!AskNext
<1>4. \A q \in Receivers \ {r} : pc'[q] = pc[q]
  BY <1>1, <1>3 DEF PMP!SharedInv, PMP!TypeOK
<1>5. PMP!Next
  BY <1>1, <1>2 DEF PMP!Next
<1> QED
  BY <1>1, <1>4, <1>5 DEF r

LEMMA RequestDaemonInv ==
  ASSUME DaemonInv, NEW t \in TaskNumbers, Ask(t) \/ Unregister(t)
  PROVE  DaemonInv'
<1> DEFINE r == ReceiverOf(t)
<1>1. /\ PMP!Next /\ UNCHANGED vars /\ r \in Receivers
      /\ \A q \in Receivers \ {r} : pc'[q] = pc[q]
  BY RequestSteps DEF DaemonInv
<1>2. tasks' = tasks /\ app' = app
  BY <1>1 DEF vars, tableVars, lifeVars
<1>3. t \in DOMAIN tasks /\ tasks[t].state = "running" /\ r[1] = tasks[t].id /\ r[2] = t
  BY DEF Ask, Unregister, Running, ReceiverOf
<1> HIDE DEF r
<1>4. IInv'
  BY <1>1, NextIInv DEF DaemonInv
<1>5. TasksKept
  BY <1>2 DEF TasksKept
<1>6. ReceiversAreTasks'
  BY <1>1, <1>2, <1>3 DEF DaemonInv, ReceiversAreTasks
<1>7. EngagedTrue'
  BY <1>1, <1>2, <1>3 DEF DaemonInv, EngagedTrue
<1> QED
  BY <1>1, <1>4, <1>5, <1>6, <1>7, DaemonInvKept

\* A request handled engages no task that was not, and ends none that did not wait.
LEMMA ManageDaemonInv ==
  ASSUME DaemonInv, Manage
  PROVE  DaemonInv'
<1>1. PMP!Handle
  BY SameHandle DEF Manage
<1>2. \A r \in Receivers : pc'[r] # pc[r] => pc[r] \in {"registering", "asking"}
  BY <1>1, ManagerAssumption, PMP!HandleShared DEF DaemonInv, PMP!WaitersMove
<1>3. /\ tasks' = [t \in DOMAIN tasks |->
                     IF Running(t) /\ pc'[ReceiverOf(t)] = "panicked"
                     THEN [tasks[t] EXCEPT !.state = "done"] ELSE tasks[t]]
      /\ UNCHANGED <<registrarVars, lifeVars, delivered, receivers, senders, joins,
                     netVars, handed>>
      /\ app' = app
  BY DEF Manage, lifeVars
<1>4. tasks \in Seq(Task)
  BY DEF DaemonInv, IInv, Control, TypeOK
<1>5. ASSUME NEW t \in DOMAIN tasks
      PROVE  /\ tasks'[t] \in Task
             /\ tasks'[t].life = tasks[t].life /\ tasks'[t].id = tasks[t].id
             /\ \/ tasks'[t] = tasks[t]
                \/ tasks[t].state = "running" /\ tasks'[t].state = "done"
  <2>1. tasks[t] \in Task
    BY <1>4
  <2> QED
    BY <1>3, <2>1 DEF Task, Running
<1>6. tasks' \in Seq(Task) /\ DOMAIN tasks' = DOMAIN tasks
  <2>1. DOMAIN tasks = 1 .. Len(tasks) /\ Len(tasks) \in Nat
    BY <1>4, LenProperties
  <2>2. tasks' \in [1 .. Len(tasks) -> Task]
    BY <1>3, <1>5, <2>1
  <2> QED
    BY <1>3, <2>1, <2>2, SeqDef
<1>7. IInv'
  BY <1>3, <1>5, <1>6, TasksFail DEF DaemonInv
<1>8. TasksKept
  BY <1>3, <1>5, <1>6 DEF TasksKept
<1>9. ReceiversAreTasks'
  BY <1>2, <1>5, <1>6 DEF DaemonInv, ReceiversAreTasks
<1>10. EngagedTrue'
  <2> SUFFICES ASSUME NEW r \in Receivers, pc'[r] \notin {"idle", "finished"}
               PROVE  \/ tasks'[r[2]].state \in {"running", "done"}
                      \/ /\ tasks'[r[2]].state = "aborted"
                         /\ app'[tasks'[r[2]].life] # "running"
    BY DEF EngagedTrue
  <2>1. pc[r] \notin {"idle", "finished"}
    BY <1>2
  <2>2. /\ r[2] \in DOMAIN tasks
        /\ \/ tasks[r[2]].state \in {"running", "done"}
           \/ tasks[r[2]].state = "aborted" /\ app[tasks[r[2]].life] # "running"
    BY <2>1 DEF DaemonInv, ReceiversAreTasks, EngagedTrue
  <2> QED
    BY <1>3, <1>5, <2>2
<1> QED
  BY <1>1, <1>7, <1>8, <1>9, <1>10, DaemonInvKept DEF PMP!Next

-----------------------------------------------------------------------------
(* The invariant is inductive *)

LEMMA InitDaemonInv ==
  ASSUME DaemonInit
  PROVE  DaemonInv
<1>1. Init /\ PMP!Init
  BY SameTerms DEF DaemonInit
<1>2. IInv
  BY <1>1, InitIInv
<1>3. PMP!SharedInv /\ PMP!IInv
  BY <1>1, ManagerAssumption, PMP!InitShared, PMP!InitIInv
<1>4. ReceiversAreTasks /\ EngagedTrue
  BY <1>1 DEF PMP!Init, ReceiversAreTasks, EngagedTrue
<1> QED
  BY <1>2, <1>3, <1>4 DEF DaemonInv

LEMMA NextDaemonInv ==
  ASSUME DaemonInv, [DaemonNext]_daemonVars
  PROVE  DaemonInv'
<1>1. CASE UNCHANGED daemonVars
  <2>1. /\ UNCHANGED vars /\ UNCHANGED managerVars
        /\ pc' = pc /\ tasks' = tasks /\ app' = app
    BY <1>1 DEF daemonVars, managerVars, vars, tableVars, lifeVars
  <2>2. IInv'
    BY <2>1, NextIInv DEF DaemonInv
  <2>3. TasksKept
    BY <2>1 DEF TasksKept
  <2>4. EngagedTrue'
    BY <2>1 DEF DaemonInv, EngagedTrue
  <2> QED
    BY <2>1, <2>2, <2>3, <2>4, SettledPcs, DaemonInvKept DEF managerVars, PMP!vars
<1> QED
  BY <1>1, ApplicationDaemonInv, ManageDaemonInv, RequestDaemonInv, TaskStepsDaemonInv
     DEF DaemonNext, TaskNext

-----------------------------------------------------------------------------
(* Theorems *)

\* The invariant holds of every behaviour.
THEOREM DaemonInvariance == DaemonSpec => []DaemonInv
<1>1. DaemonInit => DaemonInv
  BY InitDaemonInv
<1>2. DaemonInv /\ [DaemonNext]_daemonVars => DaemonInv'
  BY NextDaemonInv
<1> QED
  BY <1>1, <1>2, PTL DEF DaemonSpec

\* As the tasks of Application use it, the PriorityManager behaves as specified:
\* run_priority_manager and its clients are not disturbed by panics and aborts.
THEOREM ImplementsPriorityManager == DaemonSpec => PMP!Spec
<1>1. DaemonInit => PMP!Init
  BY SameTerms DEF DaemonInit
<1>2. DaemonInv /\ [DaemonNext]_daemonVars => [PMP!Next]_(PMP!vars)
  <2> SUFFICES ASSUME DaemonInv, [DaemonNext]_daemonVars
               PROVE  PMP!Next \/ UNCHANGED managerVars
    BY DEF managerVars, PMP!vars
  <2>1. CASE Manage
    BY <2>1, SameHandle DEF Manage, PMP!Next
  <2>2. ASSUME NEW t \in TaskNumbers, Ask(t) \/ Unregister(t)
        PROVE  PMP!Next
    BY <2>2, RequestSteps DEF DaemonInv
  <2> QED
    BY <2>1, <2>2 DEF DaemonNext, ApplicationNext, TaskNext, FailToSend, Finish, Close,
                      daemonVars
<1> QED
  BY <1>1, <1>2, DaemonInvariance, PTL DEF DaemonSpec, PMP!Spec

LEMMA OccupiedReturned ==
  ASSUME DaemonInv, NEW i \in PM!Level, levels[i] # PM!Empty
  PROVE  \E t \in DOMAIN tasks :
           (Running(t) /\ Holds(t, i)) \/ Returning(t, i) \/ Lost(t, i)
<1>1. PICK r \in Receivers :
        /\ r[1] = levels[i][1]
        /\ \/ pc[r] \in {"activated", "asking", "granted"}
           \/ \E k \in 1 .. Len(mailbox) :
                mailbox[k].kind = "Unregister" /\ mailbox[k].receiver = r
  <2>1. PMP!NoLeakedLevel
    BY ManagerAssumption, PMP!HeldNotLeaked DEF DaemonInv
  <2> QED
    BY <2>1, SameTerms DEF PMP!NoLeakedLevel
<1>2. pc[r] # "idle"
  <2>1. ASSUME NEW k \in 1 .. Len(mailbox),
               mailbox[k].kind = "Unregister", mailbox[k].receiver = r
        PROVE  pc[r] = "finished"
    BY <2>1 DEF DaemonInv, PMP!SharedInv, PMP!RequestsTrue
  <2> QED
    BY <1>1, <2>1
<1> DEFINE t == r[2]
<1>3. t \in DOMAIN tasks /\ tasks[t].id = r[1] /\ r = ReceiverOf(t)
  BY <1>2 DEF DaemonInv, ReceiversAreTasks, ReceiverOf, Receivers
<1>4. tasks[t].id \in Incoming
  BY <1>3 DEF Receivers
<1> HIDE DEF t
<1>5. CASE pc[r] \in {"activated", "asking", "granted"}
  <2>1. Holds(t, i)
    BY <1>1, <1>3, <1>5 DEF Holds
  <2>2. \/ tasks[t].state \in {"running", "done"}
        \/ tasks[t].state = "aborted" /\ app[tasks[t].life] # "running"
    BY <1>5 DEF DaemonInv, EngagedTrue, t
  <2>3. Running(t) \/ Lost(t, i)
    BY <1>3, <1>4, <2>1, <2>2 DEF Running, Lost
  <2> QED
    BY <1>3, <2>1, <2>3
<1>6. CASE \E k \in 1 .. Len(mailbox) :
             mailbox[k].kind = "Unregister" /\ mailbox[k].receiver = r
  <2>1. Returning(t, i)
    BY <1>1, <1>3, <1>6 DEF Returning
  <2> QED
    BY <1>3, <2>1
<1> QED
  BY <1>1, <1>5, <1>6

\* An occupied level comes back: a running task holds it, or its unregister_priority
\* is in the mailbox; it is lost only by a failed send, or by an abort after shutdown.
THEOREM LevelsComeBack == DaemonSpec => []LevelsReturned
<1>1. DaemonInv => LevelsReturned
  BY OccupiedReturned DEF LevelsReturned
<1> QED
  BY <1>1, DaemonInvariance, PTL

\* As long as no message has had two receivers, though applications come and go, the
\* unwrap in get_scheduled_priority does not panic, no level stays empty while a message
\* waits, and no wakeup is lost.
THEOREM LevelsWorkForOwnIds ==
  DaemonSpec => [](ReceivedOnce => /\ AlwaysAnswered
                                   /\ PMP!WorkConserving
                                   /\ PMP!NoLostWakeup)
<1>1. DaemonInv => (ReceivedOnce => /\ AlwaysAnswered
                                    /\ PMP!WorkConserving
                                    /\ PMP!NoLostWakeup)
  BY SameTerms DEF DaemonInv, PMP!IInv, AlwaysAnswered
<1> QED
  BY <1>1, DaemonInvariance, PTL

\* On the same condition the actor keeps its order: the shortest message is woken first,
\* and the levels are in the order of what remains at the receivers themselves.
THEOREM ShortestFirstForOwnIds ==
  DaemonSpec /\ []ReceivedOnce => PMP!ShortestFirst /\ []PMP!LevelsReflectReceivers
<1>1. DaemonInv /\ ReceivedOnce => PMP!OwnIds
  BY OnceOwnsIds DEF DaemonInv
<1>2. PMP!Spec /\ []PMP!OwnIds => PMP!ShortestFirst
  BY ManagerAssumption, PMP!ShortestIsFirst
<1>3. PMP!Spec /\ []PMP!OwnIds => []PMP!LevelsReflectReceivers
  BY ManagerAssumption, PMP!LevelsInOrder
<1> QED
  BY <1>1, <1>2, <1>3, DaemonInvariance, ImplementsPriorityManager, PTL

\* In particular the unwrap does not panic while every receiver belongs to the
\* application that runs: that application makes one receiver for each message.
THEOREM AnsweredInOneLife == DaemonSpec => []AnsweredWhileRunning
<1>1. DaemonInv => AnsweredWhileRunning
  BY LifeReceivesOnce, SameTerms
     DEF DaemonInv, PMP!IInv, AnsweredWhileRunning, AlwaysAnswered
<1> QED
  BY <1>1, DaemonInvariance, PTL

\* Panics of receiver tasks, of which the Application is never told, take nothing from
\* what it promises: one life for an id, one receiver and one delivery for a message.
THEOREM PromisesSurvivePanics == DaemonSpec => [](OneLife /\ OneReceiver /\ HandedOnce)
<1>1. DaemonInv => OneLife /\ OneReceiver /\ HandedOnce
  BY DEF DaemonInv, IInv, Control, Tables
<1> QED
  BY <1>1, DaemonInvariance, PTL

\* Nor is a task aborted before it has announced its end, as long as its Application
\* runs: a panic ends a task, but never as an abort.
THEOREM AbortsAreLateDespitePanics == DaemonSpec => AbortAfterAnnounce
<1>1. DaemonInv /\ [DaemonNext]_daemonVars =>
        [\A t \in DOMAIN tasks :
           app[tasks[t].life] = "running" /\ tasks'[t].state = "aborted"
             => tasks[t].state \in {"ending", "aborted"}]_vars
  <2> SUFFICES ASSUME DaemonInv, [DaemonNext]_daemonVars, NEW t \in DOMAIN tasks,
                      app[tasks[t].life] = "running", tasks'[t].state = "aborted"
               PROVE  tasks[t].state \in {"ending", "aborted"}
    BY Zenon
  <2>1. CASE [Next]_vars
    BY <2>1, AbortStep DEF DaemonInv
  <2>2. CASE Manage
    BY <2>2 DEF Manage
  <2>3. ASSUME NEW u, FailToSend(u)
        PROVE  tasks[t].state \in {"ending", "aborted"}
    BY <2>3 DEF FailToSend, Running, Become, DaemonInv, IInv, Control, TypeOK
  <2>4. ASSUME NEW u, Finish(u) \/ Close(u)
        PROVE  [Next]_vars
    BY <2>4 DEF Finish, Close, TaskStep, Next
  <2>5. ASSUME NEW u, Ask(u) \/ Unregister(u)
        PROVE  [Next]_vars
    BY <2>5 DEF Ask, Unregister
  <2>6. ApplicationNext => [Next]_vars
    BY DEF ApplicationNext, Next
  <2> QED
    BY <2>1, <2>2, <2>3, <2>4, <2>5, <2>6 DEF DaemonNext, TaskNext, daemonVars
<1> QED
  BY <1>1, DaemonInvariance, PTL DEF DaemonSpec, AbortAfterAnnounce

=============================================================================
