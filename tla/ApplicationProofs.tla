--------------------------- MODULE ApplicationProofs ---------------------------
(***************************************************************************)
(* Theorems about Application for any sets of messages and any number of    *)
(* connections and datagrams.                                               *)
(***************************************************************************)
EXTENDS Application, FiniteSetTheorems, FunctionTheorems, SequenceTheorems, TLAPS

-----------------------------------------------------------------------------
(* The inductive invariant: the lives of the application *)

Carries(s, m) == \E i \in 1 .. Len(s) : s[i] = m

AtMostOnce(s, m) == \A i, j \in 1 .. Len(s) : s[i] = m /\ s[j] = m => i = j

Stop == [kind |-> "Shutdown"]

Submission(id) == [kind |-> "FromApplicationReader", id |-> id]

\* What a task sends to its Application before it ends.
Report(id) ==
  [kind |-> IF id \in Incoming THEN "FromMessageReceiver" ELSE "FromMessageSender",
   id |-> id]

Waiting(s) == {k \in 1 .. Len(s) : s[k] = "FromApplicationListener"}

\* Each connection is refused or makes one life.
ConnectionsCounted ==
  lives + Cardinality(Waiting(registrar)) + (IF reading THEN 1 ELSE 0) <= connections

\* Nothing is known of a life that has not begun.
Fresh(l) ==
  /\ app[l] = "none" /\ reader[l] = "none" /\ ~writer[l] /\ inbox[l] = <<>>
  /\ receivers[l] = {} /\ senders[l] = {}
  /\ \A t \in DOMAIN tasks : tasks[t].life # l
  /\ \A id \in Incoming : handed[l][id] = 0

\* The reader and the writer do not outlast the Application, and the reader
\* stops it once.
EndsTrue ==
  \A l \in Lives :
    /\ reader[l] = "reading" => Unstopped(l) /\ ~Carries(inbox[l], Stop)
    /\ writer[l] => Unstopped(l)
    /\ Carries(inbox[l], Stop) => app[l] = "running"
    /\ AtMostOnce(inbox[l], Stop)

\* The registrar is told once of each life that shuts down, and before another
\* begins.
RemovalTrue ==
  /\ Carries(registrar, "FromApplication") =>
       registry # None /\ ~Unstopped(registry)
  /\ AtMostOnce(registrar, "FromApplication")

\* The life registered has begun, and stays so while a DatagramReceiver holds the
\* lock.
RegistryTrue ==
  /\ registry # None => registry <= lives
  /\ dr # None => registry # None

Control ==
  /\ TypeOK
  /\ ConnectionsCounted
  /\ \A l \in Lives : l > lives => Fresh(l)
  /\ OneLife
  /\ EndsTrue
  /\ RemovalTrue
  /\ RegistryTrue

-----------------------------------------------------------------------------
(* The inductive invariant: the tables and the tasks *)

Of(t, l, id) == tasks[t].life = l /\ tasks[t].id = id

\* A join handle is that of a task of this life with this id.
JoinsTrue ==
  \A l \in Lives : \A id \in Incoming \cup Outgoing :
    joins[l][id] # None => Of(joins[l][id], l, id)

\* A message has been received or is being received once it has a task.
MessagesKnown ==
  \A t \in DOMAIN tasks :
    app[tasks[t].life] = "running" /\ tasks[t].id \in Incoming =>
      tasks[t].id \in receivers[tasks[t].life] \cup delivered[tasks[t].life]

\* An id is drawn for one submission, and has no task while that waits.
IdsDrawn ==
  \A id \in Outgoing : \A l \in Lives :
    /\ AtMostOnce(inbox[l], Submission(id))
    /\ Carries(inbox[l], Submission(id)) =>
         /\ \A k \in Lives \ {l} : ~Carries(inbox[k], Submission(id))
         /\ \A t \in DOMAIN tasks : tasks[t].id # id

\* Every entry of the tables has a join handle, of a task that has not reported yet
\* or whose report waits.
HandlesTrue ==
  \A l \in Lives : app[l] = "running" =>
    \A id \in receivers[l] \cup senders[l] :
      /\ joins[l][id] # None
      /\ \/ tasks[joins[l][id]].state \in {"running", "announcing"}
         \/ Carries(inbox[l], Report(id))

\* A report comes from a task that has announced its end.
ReportsTrue ==
  \A l \in Lives : app[l] = "running" =>
    \A id \in Incoming \cup Outgoing : Carries(inbox[l], Report(id)) =>
      \E t \in DOMAIN tasks :
        Of(t, l, id) /\ tasks[t].state \in {"ending", "done", "aborted"}

\* What was handed to the writer came from a task that has done so.
HandedTrue ==
  \A l \in Lives : Unstopped(l) =>
    \A id \in Incoming : handed[l][id] # 0 =>
      \E t \in DOMAIN tasks : Of(t, l, id) /\ tasks[t].state # "running"

Tables ==
  /\ JoinsTrue
  /\ MessagesKnown
  /\ IdsDrawn
  /\ OneReceiver
  /\ ReportsTrue
  /\ HandedTrue
  /\ HandedOnce

IInv == Control /\ Tables

\* A step of Application keeps HandlesTrue, which a task that ends without a report
\* breaks: it is not part of IInv, for IInv is to hold of such steps too.
HandlesKept == HandlesTrue => HandlesTrue'

-----------------------------------------------------------------------------
(* Channels *)

LEMMA AppendHolds ==
  ASSUME NEW S, NEW s \in Seq(S), NEW x \in S
  PROVE  /\ \A m : Carries(Append(s, x), m) <=> Carries(s, m) \/ m = x
         /\ \A m : AtMostOnce(s, m) /\ (m = x => ~Carries(s, m)) => AtMostOnce(Append(s, x), m)
<1> DEFINE t == Append(s, x)
<1>1. /\ Len(s) \in Nat /\ Len(t) = Len(s) + 1
      /\ \A i \in 1 .. Len(s) : t[i] = s[i]
      /\ t[Len(s) + 1] = x
  BY AppendProperties
<1> HIDE DEF t
<1>2. \A i \in 1 .. Len(t) : i \in 1 .. Len(s) \/ i = Len(s) + 1
  BY <1>1
<1>3. Len(s) + 1 \in 1 .. Len(t) /\ \A i \in 1 .. Len(s) : i \in 1 .. Len(t)
  BY <1>1
<1>4. \A m : Carries(t, m) <=> Carries(s, m) \/ m = x
  BY <1>1, <1>2, <1>3 DEF Carries
<1>5. \A m : AtMostOnce(s, m) /\ (m = x => ~Carries(s, m)) => AtMostOnce(t, m)
  <2> SUFFICES ASSUME NEW m, AtMostOnce(s, m), m = x => ~Carries(s, m),
                      NEW i \in 1 .. Len(t), NEW j \in 1 .. Len(t), t[i] = m, t[j] = m
               PROVE  i = j
    BY DEF AtMostOnce
  <2>1. CASE m = x
    BY <1>1, <1>2, <2>1 DEF Carries
  <2>2. CASE m # x
    BY <1>1, <1>2, <2>2 DEF AtMostOnce
  <2> QED
    BY <2>1, <2>2
<1> QED
  BY <1>4, <1>5 DEF t

LEMMA TailHolds ==
  ASSUME NEW S, NEW s \in Seq(S), s # <<>>
  PROVE  /\ \A m : Carries(s, m) <=> Carries(Tail(s), m) \/ m = Head(s)
         /\ \A m : AtMostOnce(s, m) =>
              AtMostOnce(Tail(s), m) /\ (m = Head(s) => ~Carries(Tail(s), m))
<1> DEFINE t == Tail(s)
<1>1. /\ Len(s) \in Nat \ {0} /\ Len(t) = Len(s) - 1
      /\ \A i \in 1 .. Len(t) : t[i] = s[i + 1]
      /\ Head(s) = s[1]
  BY HeadTailProperties, EmptySeq
<1> HIDE DEF t
<1>2. /\ \A i \in 1 .. Len(t) : i + 1 \in 1 .. Len(s) /\ i + 1 # 1 /\ i \in Int
      /\ 1 \in 1 .. Len(s)
  BY <1>1
<1>3. \A i \in 1 .. Len(s) : i = 1 \/ \E j \in 1 .. Len(t) : i = j + 1
  <2> SUFFICES ASSUME NEW i \in 1 .. Len(s), i # 1
               PROVE  \E j \in 1 .. Len(t) : i = j + 1
    OBVIOUS
  <2>1. i - 1 \in 1 .. Len(t) /\ i = (i - 1) + 1
    BY <1>1
  <2> QED
    BY <2>1
<1>4. ASSUME NEW m
      PROVE  Carries(s, m) <=> Carries(t, m) \/ m = Head(s)
  <2>1. ASSUME NEW i \in 1 .. Len(s), s[i] = m
        PROVE  Carries(t, m) \/ m = Head(s)
    <3>1. i = 1 \/ \E j \in 1 .. Len(t) : i = j + 1
      BY <1>3
    <3> QED
      BY <1>1, <2>1, <3>1 DEF Carries
  <2>2. Carries(t, m) => Carries(s, m)
    BY <1>1, <1>2 DEF Carries
  <2>3. m = Head(s) => Carries(s, m)
    BY <1>1, <1>2 DEF Carries
  <2> QED
    BY <2>1, <2>2, <2>3 DEF Carries
<1>5. ASSUME NEW m, AtMostOnce(s, m)
      PROVE  AtMostOnce(t, m) /\ (m = Head(s) => ~Carries(t, m))
  <2>1. ASSUME NEW i \in 1 .. Len(t), NEW j \in 1 .. Len(t), t[i] = m, t[j] = m
        PROVE  i = j
    <3>1. i + 1 = j + 1
      BY <1>1, <1>2, <1>5, <2>1 DEF AtMostOnce
    <3> QED
      BY <1>2, <3>1
  <2>2. ASSUME m = Head(s), NEW i \in 1 .. Len(t), t[i] = m
        PROVE  FALSE
    BY <1>1, <1>2, <1>5, <2>2 DEF AtMostOnce
  <2> QED
    BY <2>1, <2>2 DEF AtMostOnce, Carries
<1> QED
  BY <1>4, <1>5 DEF t

RegistrarMessage == {"FromApplicationListener", "FromApplication"}

LEMMA WaitingFinite ==
  ASSUME NEW s \in Seq(RegistrarMessage)
  PROVE  IsFiniteSet(Waiting(s)) /\ Cardinality(Waiting(s)) \in Nat
<1>1. IsFiniteSet(1 .. Len(s))
  BY FS_Interval
<1>2. Waiting(s) \subseteq 1 .. Len(s)
  BY DEF Waiting
<1> QED
  BY <1>1, <1>2, FS_Subset, FS_CardinalityType

LEMMA WaitingAppend ==
  ASSUME NEW s \in Seq(RegistrarMessage), NEW x \in RegistrarMessage
  PROVE  Cardinality(Waiting(Append(s, x))) =
           Cardinality(Waiting(s)) + (IF x = "FromApplicationListener" THEN 1 ELSE 0)
<1> DEFINE t == Append(s, x)
<1>1. /\ Len(s) \in Nat /\ Len(t) = Len(s) + 1
      /\ \A i \in 1 .. Len(s) : t[i] = s[i]
      /\ t[Len(s) + 1] = x
  BY AppendProperties
<1> HIDE DEF t
<1>2. Waiting(t) = IF x = "FromApplicationListener" THEN Waiting(s) \cup {Len(s) + 1}
                   ELSE Waiting(s)
  BY <1>1 DEF Waiting
<1>3. Len(s) + 1 \notin Waiting(s)
  BY <1>1 DEF Waiting
<1>4. IsFiniteSet(Waiting(s)) /\ Cardinality(Waiting(s)) \in Nat
  BY WaitingFinite
<1>5. Cardinality(Waiting(s) \cup {Len(s) + 1}) = Cardinality(Waiting(s)) + 1
  BY <1>3, <1>4, FS_AddElement
<1> QED
  BY <1>2, <1>4, <1>5 DEF t

LEMMA WaitingTail ==
  ASSUME NEW s \in Seq(RegistrarMessage), s # <<>>
  PROVE  Cardinality(Waiting(s)) =
           Cardinality(Waiting(Tail(s))) + (IF Head(s) = "FromApplicationListener" THEN 1 ELSE 0)
<1> DEFINE t == Tail(s)
           rest == Waiting(s) \ {1}
           f == [k \in rest |-> k - 1]
<1>1. /\ Len(s) \in Nat \ {0} /\ Len(t) = Len(s) - 1
      /\ \A i \in 1 .. Len(t) : t[i] = s[i + 1]
      /\ Head(s) = s[1]
      /\ t \in Seq(RegistrarMessage)
  BY HeadTailProperties, EmptySeq
<1> HIDE DEF t
<1>2. IsFiniteSet(Waiting(s)) /\ Cardinality(Waiting(s)) \in Nat /\ Cardinality(Waiting(t)) \in Nat
  BY <1>1, WaitingFinite
<1>3. /\ IsFiniteSet(rest)
      /\ Cardinality(rest) = IF 1 \in Waiting(s) THEN Cardinality(Waiting(s)) - 1
                             ELSE Cardinality(Waiting(s))
  BY <1>2, FS_RemoveElement
<1>4. 1 \in Waiting(s) <=> Head(s) = "FromApplicationListener"
  BY <1>1 DEF Waiting
<1>5. \A k \in rest : k - 1 \in Waiting(t)
  BY <1>1 DEF Waiting
<1>6. \A k \in Waiting(t) : k + 1 \in rest /\ (k + 1) - 1 = k
  BY <1>1 DEF Waiting
<1>7. \A j, k \in rest : j - 1 = k - 1 => j = k
  BY DEF Waiting
<1>8. f \in Bijection(rest, Waiting(t))
  <2>1. f \in [rest -> Waiting(t)] /\ \A j, k \in rest : f[j] = f[k] => j = k
    BY <1>5, <1>7
  <2>2. \A k \in Waiting(t) : \E j \in rest : f[j] = k
    BY <1>6
  <2> HIDE DEF f
  <2> QED
    BY <2>1, <2>2, Fun_IsBij
<1> HIDE DEF rest
<1>9. Cardinality(Waiting(t)) = Cardinality(rest)
  BY <1>3, <1>8, FS_Bijection DEF ExistsBijection
<1> QED
  BY <1>2, <1>3, <1>4, <1>9 DEF t

-----------------------------------------------------------------------------
(* Steps that leave the tables and the tasks alone *)

\* Messages of one kind are never those of another.
LEMMA MessageKinds ==
  /\ \A id : Submission(id) # Stop /\ Report(id) # Stop
  /\ \A id, x : Submission(id) # Report(x) /\ Report(id) # Submission(x)
  /\ \A id, x : (Submission(id) = Submission(x) => id = x) /\ (Report(id) = Report(x) => id = x)
  /\ \A id, x : /\ Submission(id) # [kind |-> "FromDatagramReceiver", id |-> x]
                /\ Report(id) # [kind |-> "FromDatagramReceiver", id |-> x]
                /\ Stop # [kind |-> "FromDatagramReceiver", id |-> x]
BY DEF Submission, Report, Stop

LEMMA FreshTables ==
  ASSUME Control, NEW l \in Lives, Fresh(l)
  PROVE  /\ receivers[l] \cup senders[l] = {}
         /\ \A t \in DOMAIN tasks : tasks[t].life # l
         /\ \A m : ~Carries(inbox[l], m)
         /\ \A id \in Incoming : handed[l][id] = 0
BY DEF Fresh, Carries

\* Lives begin and end.
LEMMA LivesChange ==
  ASSUME IInv, tableVars' = tableVars, inbox' = inbox, handed' = handed,
         \A l \in Lives : Unstopped(l)' => app'[l] = app[l] \/ Fresh(l)
  PROVE  Tables' /\ HandlesKept
<1>1. /\ delivered' = delivered /\ receivers' = receivers /\ senders' = senders
      /\ joins' = joins /\ tasks' = tasks
  BY DEF tableVars
<1>2. ASSUME NEW t \in DOMAIN tasks, Unstopped(tasks[t].life)'
      PROVE  app'[tasks[t].life] = app[tasks[t].life]
  <2>1. tasks[t] \in Task
    BY DEF IInv, Control, TypeOK
  <2>2. tasks[t].life \in Lives
    BY <2>1 DEF Task
  <2>3. Unstopped(tasks[t].life)' = (app'[tasks[t].life] \in {"running", "panicked"})
    BY <1>1 DEF Unstopped
  <2>4. ~Fresh(tasks[t].life)
    BY DEF Fresh
  <2> QED
    BY <1>1, <1>2, <2>2, <2>3, <2>4 DEF Unstopped
<1>3. JoinsTrue' /\ IdsDrawn' /\ HandedOnce'
  BY <1>1 DEF IInv, Tables, JoinsTrue, IdsDrawn, HandedOnce, Of
<1>4. MessagesKnown'
  BY <1>1, <1>2 DEF IInv, Tables, MessagesKnown, Unstopped
<1>5. OneReceiver'
  BY <1>1, <1>2 DEF IInv, Tables, OneReceiver, Unstopped
<1>6. HandlesKept
  BY <1>1, FreshTables DEF IInv, Tables, HandlesTrue, HandlesKept, Unstopped
<1>7. ReportsTrue'
  BY <1>1, FreshTables DEF IInv, Tables, ReportsTrue, Of, Unstopped
<1>8. HandedTrue'
  BY <1>1, FreshTables DEF IInv, Tables, HandedTrue, Of, Unstopped
<1> QED
  BY <1>3, <1>4, <1>5, <1>6, <1>7, <1>8 DEF Tables

\* The channel of a running life takes a message; any other refuses it.
LEMMA SentHolds ==
  ASSUME TypeOK, NEW l \in Lives, NEW msg \in Message, inbox' = Sent(l, msg)
  PROVE  /\ inbox' \in [Lives -> Seq(Message)]
         /\ \A k \in Lives : k # l \/ app[l] # "running" => inbox'[k] = inbox[k]
         /\ app[l] = "running" =>
              /\ \A m : Carries(inbox'[l], m) <=> Carries(inbox[l], m) \/ m = msg
              /\ \A m : AtMostOnce(inbox[l], m) /\ (m = msg => ~Carries(inbox[l], m)) =>
                   AtMostOnce(inbox'[l], m)
<1>1. inbox \in [Lives -> Seq(Message)]
  BY DEF TypeOK
<1>2. inbox' = [inbox EXCEPT ![l] = IF Open(l) THEN Append(inbox[l], msg) ELSE inbox[l]]
  BY DEF Sent
<1>3. Append(inbox[l], msg) \in Seq(Message)
  BY <1>1, AppendProperties
<1>4. app[l] = "running" => inbox'[l] = Append(inbox[l], msg)
  BY <1>1, <1>2 DEF Open
<1> QED
  BY <1>1, <1>2, <1>3, <1>4, AppendHolds DEF Open

\* A message that is not a report arrives.
LEMMA MessageArrives ==
  ASSUME IInv, NEW l \in Lives, NEW msg \in Message, inbox' = Sent(l, msg),
         tableVars' = tableVars, app' = app, handed' = handed,
         \A id \in Incoming \cup Outgoing : msg # Report(id),
         \A id \in Outgoing : msg = Submission(id) =>
           /\ \A t \in DOMAIN tasks : tasks[t].id # id
           /\ \A k \in Lives : ~Carries(inbox[k], Submission(id))
  PROVE  Tables' /\ HandlesKept
<1>1. /\ delivered' = delivered /\ receivers' = receivers /\ senders' = senders
      /\ joins' = joins /\ tasks' = tasks
  BY DEF tableVars
<1>2. /\ \A k \in Lives : k # l \/ app[l] # "running" => inbox'[k] = inbox[k]
      /\ app[l] = "running" =>
           /\ \A m : Carries(inbox'[l], m) <=> Carries(inbox[l], m) \/ m = msg
           /\ \A m : AtMostOnce(inbox[l], m) /\ (m = msg => ~Carries(inbox[l], m)) =>
                AtMostOnce(inbox'[l], m)
  BY SentHolds DEF IInv, Control
<1>3. JoinsTrue' /\ MessagesKnown' /\ HandedOnce' /\ OneReceiver' /\ HandedTrue'
  BY <1>1 DEF IInv, Tables, JoinsTrue, MessagesKnown, HandedOnce, OneReceiver, HandedTrue, Of, Unstopped
<1>4. \A k \in Lives : \A m : Carries(inbox'[k], m) <=>
        Carries(inbox[k], m) \/ (k = l /\ app[l] = "running" /\ m = msg)
  BY <1>2
<1>5. IdsDrawn'
  <2> SUFFICES ASSUME NEW id \in Outgoing, NEW k \in Lives
               PROVE  /\ AtMostOnce(inbox'[k], Submission(id))
                      /\ Carries(inbox'[k], Submission(id)) =>
                           /\ \A j \in Lives \ {k} : ~Carries(inbox'[j], Submission(id))
                           /\ \A t \in DOMAIN tasks : tasks[t].id # id
    BY <1>1 DEF IdsDrawn
  <2>1. AtMostOnce(inbox[k], Submission(id))
    BY DEF IInv, Tables, IdsDrawn
  <2>2. AtMostOnce(inbox'[k], Submission(id))
    BY <1>2, <2>1
  <2>3. CASE msg = Submission(id)
    BY <1>4, <2>2, <2>3
  <2>4. CASE msg # Submission(id)
    BY <1>4, <2>2, <2>4 DEF IInv, Tables, IdsDrawn
  <2> QED
    BY <2>3, <2>4
<1>6. HandlesKept
  BY <1>1, <1>4 DEF IInv, Tables, HandlesTrue, HandlesKept
<1>7. ReportsTrue'
  BY <1>1, <1>4 DEF IInv, Tables, ReportsTrue, Of
<1> QED
  BY <1>3, <1>5, <1>6, <1>7 DEF Tables

-----------------------------------------------------------------------------
(* Steps of the tasks *)

LEMMA StateChanges ==
  ASSUME tasks \in Seq(Task), NEW t \in DOMAIN tasks, NEW state,
         tasks' = [tasks EXCEPT ![t].state = state]
  PROVE  /\ DOMAIN tasks' = DOMAIN tasks
         /\ Len(tasks') = Len(tasks)
         /\ \A u \in DOMAIN tasks \ {t} : tasks'[u] = tasks[u]
         /\ tasks'[t].state = state
         /\ \A u \in DOMAIN tasks : tasks'[u].life = tasks[u].life /\ tasks'[u].id = tasks[u].id
         /\ state \in {"running", "announcing", "ending", "done", "aborted"} =>
              tasks' \in Seq(Task)
<1> DEFINE moved == [tasks[t] EXCEPT !.state = state]
<1>1. Len(tasks) \in Nat /\ DOMAIN tasks = 1 .. Len(tasks) /\ tasks \in [1 .. Len(tasks) -> Task]
  BY LenProperties
<1>2. tasks' = [tasks EXCEPT ![t] = moved]
  OBVIOUS
<1>3. tasks[t] \in Task
  BY <1>1
<1>4. /\ moved.life = tasks[t].life /\ moved.id = tasks[t].id /\ moved.state = state
      /\ state \in {"running", "announcing", "ending", "done", "aborted"} => moved \in Task
  BY <1>3 DEF Task
<1> HIDE DEF moved
<1>5. /\ DOMAIN tasks' = 1 .. Len(tasks)
      /\ tasks'[t] = moved
      /\ \A u \in DOMAIN tasks \ {t} : tasks'[u] = tasks[u]
  BY <1>1, <1>2
<1>6. state \in {"running", "announcing", "ending", "done", "aborted"} => tasks' \in Seq(Task)
  BY <1>1, <1>2, <1>4, ExceptSeq
<1>7. tasks' = [u \in 1 .. Len(tasks) |-> IF u = t THEN moved ELSE tasks[u]]
  BY <1>1, <1>2
<1>8. Len(tasks') = Len(tasks)
  BY <1>1, <1>7
<1> QED
  BY <1>1, <1>4, <1>5, <1>6, <1>8

Past(state) == state \in {"ending", "done", "aborted"}

\* One task moves on, and may report or hand over.
LEMMA TaskMoves ==
  ASSUME IInv, NEW t \in DOMAIN tasks, NEW state, Become(t, state),
         UNCHANGED <<delivered, receivers, senders, joins>>, app' = app,
         tasks[t].state # "running" => state # "running",
         Past(tasks[t].state) => Past(state),
         \* no report is lost, and whoever reports is past it
         \A l \in Lives : app[l] = "running" =>
           \A id \in Incoming \cup Outgoing :
             /\ Carries(inbox[l], Report(id)) => Carries(inbox'[l], Report(id))
             /\ Carries(inbox'[l], Report(id)) =>
                  Carries(inbox[l], Report(id)) \/ (Of(t, l, id) /\ Past(state)),
         app[tasks[t].life] = "running" =>
           \/ state \in {"running", "announcing"}
           \/ tasks[t].state \notin {"running", "announcing"}
           \/ Carries(inbox'[tasks[t].life], Report(tasks[t].id)),
         \A l \in Lives : \A id \in Outgoing :
           /\ AtMostOnce(inbox'[l], Submission(id))
           /\ Carries(inbox'[l], Submission(id)) <=> Carries(inbox[l], Submission(id)),
         \A l \in Lives : \A id \in Incoming :
           \/ handed'[l][id] = handed[l][id]
           \/ /\ Of(t, l, id) /\ Unstopped(l) /\ handed'[l][id] = handed[l][id] + 1
              /\ tasks[t].state = "running" /\ state # "running"
  PROVE  Tables' /\ HandlesKept
<1>1. /\ tasks \in Seq(Task) /\ handed \in [Lives -> [Incoming -> Nat]]
      /\ \A l \in Lives : \A id \in Incoming \cup Outgoing :
           joins[l][id] # None => joins[l][id] \in DOMAIN tasks
  BY DEF IInv, Control, TypeOK
<1>2. tasks' = [tasks EXCEPT ![t].state = state]
  BY DEF Become
<1>3. /\ DOMAIN tasks' = DOMAIN tasks
      /\ \A u \in DOMAIN tasks \ {t} : tasks'[u] = tasks[u]
      /\ tasks'[t].state = state
      /\ \A u \in DOMAIN tasks : tasks'[u].life = tasks[u].life /\ tasks'[u].id = tasks[u].id
  BY <1>1, <1>2, StateChanges
<1>4. /\ delivered' = delivered /\ receivers' = receivers /\ senders' = senders
      /\ joins' = joins
  OBVIOUS
<1>5. \A u \in DOMAIN tasks : \A l, id : Of(u, l, id)' <=> Of(u, l, id)
  BY <1>3 DEF Of
<1>6. JoinsTrue'
  BY <1>1, <1>4, <1>5 DEF IInv, Tables, JoinsTrue
<1>7. MessagesKnown' /\ OneReceiver'
  BY <1>3, <1>4 DEF IInv, Tables, MessagesKnown, OneReceiver, Unstopped
<1>8. IdsDrawn'
  BY <1>3 DEF IInv, Tables, IdsDrawn
<1>9. HandlesKept
  <2> SUFFICES ASSUME HandlesTrue, NEW l \in Lives, app[l] = "running",
                      NEW id \in receivers[l] \cup senders[l]
               PROVE  /\ joins[l][id] # None
                      /\ \/ tasks'[joins[l][id]].state \in {"running", "announcing"}
                         \/ Carries(inbox'[l], Report(id))
    BY <1>4 DEF HandlesTrue, HandlesKept
  <2>1. id \in Incoming \cup Outgoing
    BY DEF IInv, Control, TypeOK
  <2>2. /\ joins[l][id] # None /\ joins[l][id] \in DOMAIN tasks /\ Of(joins[l][id], l, id)
        /\ \/ tasks[joins[l][id]].state \in {"running", "announcing"}
           \/ Carries(inbox[l], Report(id))
    BY <1>1, <2>1 DEF IInv, Tables, HandlesTrue, JoinsTrue
  <2>3. CASE joins[l][id] = t
    BY <1>3, <2>1, <2>2, <2>3 DEF Of
  <2>4. CASE joins[l][id] # t
    BY <1>3, <2>1, <2>2, <2>4
  <2> QED
    BY <2>3, <2>4
<1>10. ReportsTrue'
  <2> SUFFICES ASSUME NEW l \in Lives, app[l] = "running",
                      NEW id \in Incoming \cup Outgoing, Carries(inbox'[l], Report(id))
               PROVE  \E u \in DOMAIN tasks : Of(u, l, id) /\ Past(tasks'[u].state)
    BY <1>3, <1>5 DEF ReportsTrue, Past
  <2>1. CASE Of(t, l, id) /\ Past(state)
    BY <1>3, <2>1
  <2>2. CASE Carries(inbox[l], Report(id))
    <3>1. PICK u \in DOMAIN tasks : Of(u, l, id) /\ Past(tasks[u].state)
      BY <2>2 DEF IInv, Tables, ReportsTrue, Past
    <3> QED
      BY <1>3, <3>1
  <2> QED
    BY <2>1, <2>2
<1>11. HandedTrue'
  <2> SUFFICES ASSUME NEW l \in Lives, Unstopped(l), NEW id \in Incoming,
                      handed'[l][id] # 0
               PROVE  \E u \in DOMAIN tasks : Of(u, l, id) /\ tasks'[u].state # "running"
    BY <1>3, <1>5 DEF HandedTrue, Unstopped
  <2>1. CASE Of(t, l, id) /\ state # "running"
    BY <1>3, <2>1
  <2>2. CASE handed'[l][id] = handed[l][id]
    <3>1. PICK u \in DOMAIN tasks : Of(u, l, id) /\ tasks[u].state # "running"
      BY <2>2 DEF IInv, Tables, HandedTrue, Unstopped
    <3> QED
      BY <1>3, <3>1
  <2> QED
    BY <2>1, <2>2
\* The task that hands over is the only one of its id, so nothing was handed before.
<1>12. HandedOnce'
  <2> SUFFICES ASSUME NEW l \in Lives, NEW id \in Incoming
               PROVE  handed'[l][id] <= 1
    BY DEF HandedOnce
  <2>1. CASE handed'[l][id] = handed[l][id]
    BY <2>1 DEF IInv, Tables, HandedOnce
  <2>2. CASE /\ Of(t, l, id) /\ Unstopped(l) /\ handed'[l][id] = handed[l][id] + 1
             /\ tasks[t].state = "running"
    <3>1. ASSUME handed[l][id] # 0 PROVE FALSE
      <4>1. PICK u \in DOMAIN tasks : Of(u, l, id) /\ tasks[u].state # "running"
        BY <2>2, <3>1 DEF IInv, Tables, HandedTrue, Unstopped
      <4>2. u = t
        BY <2>2, <4>1 DEF IInv, Tables, OneReceiver, Of, Unstopped
      <4> QED
        BY <2>2, <4>1, <4>2
    <3> QED
      BY <2>2, <3>1
  <2> QED
    BY <2>1, <2>2
<1> QED
  BY <1>6, <1>7, <1>8, <1>9, <1>10, <1>11, <1>12 DEF Tables

-----------------------------------------------------------------------------
(* Steps of an Application *)

\* Life l takes the oldest message of its channel.
Takes(l) ==
  /\ app[l] \in {"running", "draining"}
  /\ inbox[l] # <<>>
  /\ inbox' = [inbox EXCEPT ![l] = Tail(inbox[l])]

LEMMA TakenHolds ==
  ASSUME TypeOK, NEW l \in Lives, Takes(l)
  PROVE  /\ inbox' \in [Lives -> Seq(Message)]
         /\ Head(inbox[l]) \in Message
         /\ \A k \in Lives \ {l} : inbox'[k] = inbox[k]
         /\ \A m : Carries(inbox[l], m) <=> Carries(inbox'[l], m) \/ m = Head(inbox[l])
         /\ \A m : AtMostOnce(inbox[l], m) =>
              AtMostOnce(inbox'[l], m) /\ (m = Head(inbox[l]) => ~Carries(inbox'[l], m))
<1>1. inbox \in [Lives -> Seq(Message)]
  BY DEF TypeOK
<1>2. Head(inbox[l]) \in Message /\ Tail(inbox[l]) \in Seq(Message)
  BY <1>1, HeadTailProperties DEF Takes
<1>3. /\ inbox' \in [Lives -> Seq(Message)]
      /\ inbox'[l] = Tail(inbox[l])
      /\ \A k \in Lives \ {l} : inbox'[k] = inbox[k]
  BY <1>1, <1>2 DEF Takes
<1> QED
  BY <1>1, <1>2, <1>3, TailHolds DEF Takes

\* A message that is not a report is taken, and nothing else changes.
LEMMA MessageTaken ==
  ASSUME IInv, NEW l \in Lives, Takes(l), tableVars' = tableVars, app' = app, handed' = handed,
         \A id \in Incoming \cup Outgoing : Head(inbox[l]) # Report(id)
  PROVE  Tables' /\ HandlesKept
<1>1. /\ delivered' = delivered /\ receivers' = receivers /\ senders' = senders
      /\ joins' = joins /\ tasks' = tasks
  BY DEF tableVars
<1>2. /\ \A k \in Lives \ {l} : inbox'[k] = inbox[k]
      /\ \A m : Carries(inbox[l], m) <=> Carries(inbox'[l], m) \/ m = Head(inbox[l])
      /\ \A m : AtMostOnce(inbox[l], m) => AtMostOnce(inbox'[l], m)
  BY TakenHolds DEF IInv, Control
<1>3. JoinsTrue' /\ MessagesKnown' /\ HandedOnce' /\ OneReceiver' /\ HandedTrue'
  BY <1>1 DEF IInv, Tables, JoinsTrue, MessagesKnown, HandedOnce, OneReceiver, HandedTrue, Of, Unstopped
<1>4. \A k \in Lives : \A m : /\ Carries(inbox'[k], m) => Carries(inbox[k], m)
                              /\ AtMostOnce(inbox[k], m) => AtMostOnce(inbox'[k], m)
  BY <1>2
<1>5. IdsDrawn'
  BY <1>1, <1>4 DEF IInv, Tables, IdsDrawn
<1>6. \A k \in Lives : \A id \in Incoming \cup Outgoing :
        Carries(inbox[k], Report(id)) => Carries(inbox'[k], Report(id))
  BY <1>2
<1>7. receivers \in [Lives -> SUBSET Incoming] /\ senders \in [Lives -> SUBSET Outgoing]
  BY DEF IInv, Control, TypeOK
<1>8. HandlesKept
  BY <1>1, <1>6, <1>7 DEF IInv, Tables, HandlesTrue, HandlesKept
<1>9. ReportsTrue'
  BY <1>1, <1>4 DEF IInv, Tables, ReportsTrue, Of
<1> QED
  BY <1>3, <1>5, <1>8, <1>9 DEF Tables

\* The Application spawns a task for id, which the tables did not know.
LEMMA TaskSpawned ==
  ASSUME IInv, NEW l \in Lives, Takes(l), NEW id \in Incoming \cup Outgoing,
         id \in Outgoing => Head(inbox[l]) = Submission(id),
         \A x \in Incoming \cup Outgoing : Head(inbox[l]) # Report(x),
         tasks' = Spawned(l, id),
         joins' = [joins EXCEPT ![l][id] = Len(tasks) + 1],
         receivers' = [receivers EXCEPT ![l] =
                         IF id \in Incoming THEN receivers[l] \cup {id} ELSE receivers[l]],
         senders' = [senders EXCEPT ![l] =
                       IF id \in Incoming THEN senders[l] ELSE senders[l] \cup {id}],
         delivered' = delivered, app' = app, handed' = handed,
         app[l] = "running" => \A t \in DOMAIN tasks : ~Of(t, l, id)
  PROVE  Tables' /\ HandlesKept
<1> DEFINE new == Len(tasks) + 1
<1>1. /\ receivers \in [Lives -> SUBSET Incoming] /\ senders \in [Lives -> SUBSET Outgoing]
      /\ joins \in [Lives -> [Incoming \cup Outgoing -> DOMAIN tasks \cup {None}]]
      /\ tasks \in Seq(Task)
  BY DEF IInv, Control, TypeOK
<1>2. /\ Len(tasks) \in Nat /\ DOMAIN tasks = 1 .. Len(tasks)
      /\ DOMAIN tasks' = DOMAIN tasks \cup {new} /\ new \notin DOMAIN tasks
      /\ \A t \in DOMAIN tasks : tasks'[t] = tasks[t]
      /\ tasks'[new].life = l /\ tasks'[new].id = id /\ tasks'[new].state = "running"
  <2>1. [life |-> l, id |-> id, state |-> "running"] \in Task
    BY DEF Task
  <2> QED
    BY <1>1, <2>1, AppendProperties, LenProperties DEF Spawned
<1>3. \A k \in Lives : \A x \in Incoming \cup Outgoing :
        joins'[k][x] = IF k = l /\ x = id THEN new ELSE joins[k][x]
  BY <1>1
<1>4. \A k \in Lives : \A x \in receivers'[k] \cup senders'[k] :
        x \in receivers[k] \cup senders[k] \/ (k = l /\ x = id)
  BY <1>1
<1>5. /\ \A k \in Lives : receivers[k] \subseteq receivers'[k]
      /\ id \in Incoming => id \in receivers'[l]
  BY <1>1
<1> HIDE DEF new
<1>6. /\ \A k \in Lives \ {l} : inbox'[k] = inbox[k]
      /\ \A m : Carries(inbox[l], m) <=> Carries(inbox'[l], m) \/ m = Head(inbox[l])
      /\ \A m : AtMostOnce(inbox[l], m) =>
           AtMostOnce(inbox'[l], m) /\ (m = Head(inbox[l]) => ~Carries(inbox'[l], m))
  BY TakenHolds DEF IInv, Control
<1>7. \A k \in Lives : \A x \in Incoming \cup Outgoing :
        Carries(inbox[k], Report(x)) <=> Carries(inbox'[k], Report(x))
  BY <1>6
<1>8. JoinsTrue'
  <2> SUFFICES ASSUME NEW k \in Lives, NEW x \in Incoming \cup Outgoing, joins'[k][x] # None
               PROVE  tasks'[joins'[k][x]].life = k /\ tasks'[joins'[k][x]].id = x
    BY DEF JoinsTrue, Of
  <2>1. CASE k = l /\ x = id
    BY <1>2, <1>3, <2>1
  <2>2. CASE ~(k = l /\ x = id)
    <3>1. joins'[k][x] = joins[k][x] /\ joins[k][x] \in DOMAIN tasks
      BY <1>1, <1>3, <2>2
    <3> QED
      BY <1>2, <3>1 DEF IInv, Tables, JoinsTrue, Of
  <2> QED
    BY <2>1, <2>2
<1>9. MessagesKnown'
  <2>1. ASSUME NEW t \in DOMAIN tasks', app[tasks'[t].life] = "running", tasks'[t].id \in Incoming
        PROVE  tasks'[t].id \in receivers'[tasks'[t].life] \cup delivered[tasks'[t].life]
    <3>1. CASE t = new
      BY <1>2, <1>5, <2>1, <3>1
    <3>2. CASE t \in DOMAIN tasks
      <4>1. tasks'[t] = tasks[t]
        BY <1>2, <3>2
      <4>2. tasks[t] \in Task
        BY <1>1, <3>2
      <4>3. tasks[t].life \in Lives
        BY <4>2 DEF Task
      <4> QED
        BY <1>5, <2>1, <3>2, <4>1, <4>3 DEF IInv, Tables, MessagesKnown
    <3> QED
      BY <1>2, <3>1, <3>2
  <2> QED
    BY <2>1 DEF MessagesKnown
<1>10. IdsDrawn'
  <2> SUFFICES ASSUME NEW x \in Outgoing, NEW k \in Lives
               PROVE  /\ AtMostOnce(inbox'[k], Submission(x))
                      /\ Carries(inbox'[k], Submission(x)) =>
                           /\ \A j \in Lives \ {k} : ~Carries(inbox'[j], Submission(x))
                           /\ \A t \in DOMAIN tasks' : tasks'[t].id # x
    BY DEF IdsDrawn
  <2>1. \A j \in Lives : Carries(inbox'[j], Submission(x)) => Carries(inbox[j], Submission(x))
    BY <1>6
  <2>2. AtMostOnce(inbox'[k], Submission(x))
    BY <1>6 DEF IInv, Tables, IdsDrawn
  <2>3. ASSUME Carries(inbox'[k], Submission(x))
        PROVE  \A j \in Lives \ {k} : ~Carries(inbox'[j], Submission(x))
    BY <2>1, <2>3 DEF IInv, Tables, IdsDrawn
  <2>4. ASSUME Carries(inbox'[k], Submission(x)), x = id
        PROVE  FALSE
    <3>1. Head(inbox[l]) = Submission(x) /\ Carries(inbox[l], Submission(x))
      BY <1>6, <2>4
    <3>2. AtMostOnce(inbox[l], Submission(x))
      BY DEF IInv, Tables, IdsDrawn
    <3>3. ~Carries(inbox'[l], Submission(x))
      BY <1>6, <3>1, <3>2
    <3>4. k # l /\ Carries(inbox[k], Submission(x))
      BY <2>1, <2>4, <3>3
    <3> QED
      BY <3>1, <3>4 DEF IInv, Tables, IdsDrawn
  <2>5. ASSUME Carries(inbox'[k], Submission(x)), NEW t \in DOMAIN tasks'
        PROVE  tasks'[t].id # x
    <3>1. CASE t = new
      BY <1>2, <2>4, <2>5, <3>1
    <3>2. CASE t \in DOMAIN tasks
      BY <1>2, <2>1, <2>5, <3>2 DEF IInv, Tables, IdsDrawn
    <3> QED
      BY <1>2, <3>1, <3>2
  <2> QED
    BY <2>2, <2>3, <2>5
<1>11. OneReceiver'
  <2> SUFFICES ASSUME NEW k \in Lives, Unstopped(k),
                      NEW t \in DOMAIN tasks', NEW u \in DOMAIN tasks',
                      tasks'[t].life = k, tasks'[u].life = k, tasks'[t].id = tasks'[u].id
               PROVE  t = u
    BY DEF OneReceiver, Unstopped
  <2>1. CASE t \in DOMAIN tasks /\ u \in DOMAIN tasks
    BY <1>2, <2>1 DEF IInv, Tables, OneReceiver, Unstopped
  <2>2. CASE t = new \/ u = new
    BY <1>2, <2>2 DEF Of, Takes, Unstopped
  <2> QED
    BY <1>2, <2>1, <2>2
<1>12. HandlesKept
  <2> SUFFICES ASSUME HandlesTrue, NEW k \in Lives, app[k] = "running",
                      NEW x \in receivers'[k] \cup senders'[k]
               PROVE  /\ joins'[k][x] # None
                      /\ \/ tasks'[joins'[k][x]].state \in {"running", "announcing"}
                         \/ Carries(inbox'[k], Report(x))
    BY DEF HandlesTrue, HandlesKept
  <2>1. CASE k = l /\ x = id
    <3>1. joins'[k][x] = new /\ new # None
      BY <1>2, <1>3, <2>1, ApplicationAssumption DEF new
    <3> QED
      BY <1>2, <3>1
  <2>2. CASE ~(k = l /\ x = id)
    <3>1. x \in receivers[k] \cup senders[k] /\ x \in Incoming \cup Outgoing
      BY <1>1, <1>4, <2>2
    <3>2. joins'[k][x] = joins[k][x] /\ joins[k][x] # None /\ joins[k][x] \in DOMAIN tasks
      BY <1>1, <1>3, <2>2, <3>1 DEF IInv, Tables, HandlesTrue
    <3> QED
      BY <1>2, <1>7, <3>1, <3>2 DEF IInv, Tables, HandlesTrue
  <2> QED
    BY <2>1, <2>2
<1>13. ReportsTrue'
  <2> SUFFICES ASSUME NEW k \in Lives, app[k] = "running", NEW x \in Incoming \cup Outgoing,
                      Carries(inbox'[k], Report(x))
               PROVE  \E t \in DOMAIN tasks' :
                        /\ tasks'[t].life = k /\ tasks'[t].id = x
                        /\ tasks'[t].state \in {"ending", "done", "aborted"}
    BY DEF ReportsTrue, Of
  <2>1. PICK t \in DOMAIN tasks :
          Of(t, k, x) /\ tasks[t].state \in {"ending", "done", "aborted"}
    BY <1>7 DEF IInv, Tables, ReportsTrue
  <2> QED
    BY <1>2, <2>1 DEF Of
<1>14. HandedTrue'
  <2> SUFFICES ASSUME NEW k \in Lives, Unstopped(k), NEW x \in Incoming,
                      handed[k][x] # 0
               PROVE  \E t \in DOMAIN tasks' :
                        tasks'[t].life = k /\ tasks'[t].id = x /\ tasks'[t].state # "running"
    BY DEF HandedTrue, Of, Unstopped
  <2>1. PICK t \in DOMAIN tasks : Of(t, k, x) /\ tasks[t].state # "running"
    BY DEF IInv, Tables, HandedTrue, Unstopped
  <2> QED
    BY <1>2, <2>1 DEF Of
<1>15. HandedOnce'
  BY DEF IInv, Tables, HandedOnce
<1> QED
  BY <1>8, <1>9, <1>10, <1>11, <1>12, <1>13, <1>14, <1>15 DEF Tables

\* abort stops the task of the join handle at most, and only if it has not returned.
LEMMA AbortedTask ==
  ASSUME IInv, NEW l \in Lives, NEW id \in Incoming \cup Outgoing, tasks' = Aborted(l, id)
  PROVE  /\ tasks' \in Seq(Task)
         /\ DOMAIN tasks' = DOMAIN tasks
         /\ \A t \in DOMAIN tasks :
              /\ tasks'[t].life = tasks[t].life /\ tasks'[t].id = tasks[t].id
              /\ \/ tasks'[t] = tasks[t]
                 \/ /\ Of(t, l, id) /\ tasks[t].state # "done"
                    /\ tasks'[t].state = "aborted"
<1> DEFINE t == joins[l][id]
<1>1. tasks \in Seq(Task) /\ t \in DOMAIN tasks \cup {None}
  BY DEF IInv, Control, TypeOK
<1>2. CASE t # None /\ tasks[t].state # "done"
  <2>1. tasks' = [tasks EXCEPT ![t].state = "aborted"]
    BY <1>2 DEF Aborted
  <2>2. t \in DOMAIN tasks /\ Of(t, l, id)
    BY <1>1, <1>2 DEF IInv, Tables, JoinsTrue
  <2> HIDE DEF t
  <2>3. /\ DOMAIN tasks' = DOMAIN tasks
        /\ \A u \in DOMAIN tasks \ {t} : tasks'[u] = tasks[u]
        /\ tasks'[t].state = "aborted"
        /\ \A u \in DOMAIN tasks : tasks'[u].life = tasks[u].life /\ tasks'[u].id = tasks[u].id
        /\ tasks' \in Seq(Task)
    BY <1>1, <2>1, <2>2, StateChanges
  <2> QED
    BY <1>2, <2>2, <2>3
<1>3. CASE ~(t # None /\ tasks[t].state # "done")
  <2>1. tasks' = tasks
    BY <1>3 DEF Aborted
  <2> QED
    BY <1>1, <2>1
<1> QED
  BY <1>2, <1>3

\* handle_from_message_receiver and handle_from_message_sender: the entry of id and
\* its join handle go.
LEMMA ReportTaken ==
  ASSUME IInv, NEW l \in Lives, Takes(l), NEW id \in Incoming \cup Outgoing,
         tasks' = Aborted(l, id),
         joins' = [joins EXCEPT ![l][id] = None],
         delivered' \in [Lives -> SUBSET Incoming],
         receivers' \in [Lives -> SUBSET Incoming], senders' \in [Lives -> SUBSET Outgoing],
         \A k \in Lives :
           /\ receivers'[k] \cup senders'[k] \subseteq receivers[k] \cup senders[k]
           /\ receivers[k] \cup delivered[k] \subseteq receivers'[k] \cup delivered'[k],
         id \notin receivers'[l] \cup senders'[l],
         Head(inbox[l]) = Report(id), app' = app, handed' = handed
  PROVE  Tables' /\ HandlesKept
<1>1. joins \in [Lives -> [Incoming \cup Outgoing -> DOMAIN tasks \cup {None}]]
  BY DEF IInv, Control, TypeOK
<1>2. /\ DOMAIN tasks' = DOMAIN tasks
      /\ \A t \in DOMAIN tasks :
           /\ tasks'[t].life = tasks[t].life /\ tasks'[t].id = tasks[t].id
           /\ \/ tasks'[t] = tasks[t]
              \/ Of(t, l, id) /\ tasks'[t].state = "aborted"
  BY AbortedTask
<1>3. \A t \in DOMAIN tasks : \A k, x : Of(t, k, x)' <=> Of(t, k, x)
  BY <1>2 DEF Of
<1>4. \A k \in Lives : \A x \in Incoming \cup Outgoing :
        joins'[k][x] = IF k = l /\ x = id THEN None ELSE joins[k][x]
  BY <1>1
<1>5. /\ \A k \in Lives \ {l} : inbox'[k] = inbox[k]
      /\ \A m : Carries(inbox[l], m) <=> Carries(inbox'[l], m) \/ m = Report(id)
      /\ \A m : AtMostOnce(inbox[l], m) => AtMostOnce(inbox'[l], m)
  BY TakenHolds DEF IInv, Control
<1>6. \A k \in Lives : \A m : /\ Carries(inbox'[k], m) => Carries(inbox[k], m)
                              /\ AtMostOnce(inbox[k], m) => AtMostOnce(inbox'[k], m)
  BY <1>5
<1>7. JoinsTrue'
  <2> SUFFICES ASSUME NEW k \in Lives, NEW x \in Incoming \cup Outgoing, joins'[k][x] # None
               PROVE  tasks'[joins'[k][x]].life = k /\ tasks'[joins'[k][x]].id = x
    BY DEF JoinsTrue, Of
  <2>1. joins'[k][x] = joins[k][x] /\ joins[k][x] \in DOMAIN tasks
    BY <1>1, <1>4
  <2> QED
    BY <1>2, <2>1 DEF IInv, Tables, JoinsTrue, Of
<1>8. MessagesKnown'
  <2>1. ASSUME NEW t \in DOMAIN tasks, app[tasks[t].life] = "running", tasks[t].id \in Incoming
        PROVE  tasks[t].id \in receivers'[tasks[t].life] \cup delivered'[tasks[t].life]
    <3>1. tasks[t] \in Task
      BY DEF IInv, Control, TypeOK
    <3>2. tasks[t].life \in Lives
      BY <3>1 DEF Task
    <3> QED
      BY <2>1, <3>2 DEF IInv, Tables, MessagesKnown
  <2> QED
    BY <1>2, <2>1 DEF MessagesKnown
<1>9. IdsDrawn'
  BY <1>2, <1>6 DEF IInv, Tables, IdsDrawn
<1>10. OneReceiver'
  BY <1>2 DEF IInv, Tables, OneReceiver, Unstopped
<1>11. HandlesKept
  <2> SUFFICES ASSUME HandlesTrue, NEW k \in Lives, app[k] = "running",
                      NEW x \in receivers'[k] \cup senders'[k]
               PROVE  /\ joins'[k][x] # None
                      /\ \/ tasks'[joins'[k][x]].state \in {"running", "announcing"}
                         \/ Carries(inbox'[k], Report(x))
    BY DEF HandlesTrue, HandlesKept
  <2>1. x \in receivers[k] \cup senders[k] /\ x \in Incoming \cup Outgoing /\ ~(k = l /\ x = id)
    OBVIOUS
  <2>2. /\ joins'[k][x] = joins[k][x] /\ joins[k][x] # None /\ joins[k][x] \in DOMAIN tasks
        /\ Of(joins[k][x], k, x)
    BY <1>1, <1>4, <2>1 DEF IInv, Tables, HandlesTrue, JoinsTrue
  <2>3. tasks'[joins[k][x]] = tasks[joins[k][x]]
    BY <1>2, <2>1, <2>2 DEF Of
  <2>4. Carries(inbox[k], Report(x)) => Carries(inbox'[k], Report(x))
    BY <1>5, <2>1, MessageKinds
  <2> QED
    BY <2>1, <2>2, <2>3, <2>4 DEF IInv, Tables, HandlesTrue
<1>12. ReportsTrue'
  <2> SUFFICES ASSUME NEW k \in Lives, app[k] = "running", NEW x \in Incoming \cup Outgoing,
                      Carries(inbox'[k], Report(x))
               PROVE  \E t \in DOMAIN tasks :
                        Of(t, k, x) /\ tasks'[t].state \in {"ending", "done", "aborted"}
    BY <1>2, <1>3 DEF ReportsTrue
  <2>1. PICK t \in DOMAIN tasks :
          Of(t, k, x) /\ tasks[t].state \in {"ending", "done", "aborted"}
    BY <1>6 DEF IInv, Tables, ReportsTrue
  <2> QED
    BY <1>2, <2>1
<1>13. HandedTrue'
  <2> SUFFICES ASSUME NEW k \in Lives, Unstopped(k), NEW x \in Incoming,
                      handed[k][x] # 0
               PROVE  \E t \in DOMAIN tasks : Of(t, k, x) /\ tasks'[t].state # "running"
    BY <1>2, <1>3 DEF HandedTrue, Unstopped
  <2>1. PICK t \in DOMAIN tasks : Of(t, k, x) /\ tasks[t].state # "running"
    BY DEF IInv, Tables, HandedTrue, Unstopped
  <2> QED
    BY <1>2, <2>1
<1>14. HandedOnce'
  BY DEF IInv, Tables, HandedOnce
<1> QED
  BY <1>7, <1>8, <1>9, <1>10, <1>11, <1>12, <1>13, <1>14 DEF Tables

\* handle_shutdown: the tables of the life are emptied, and it runs no more.
LEMMA ShutdownTables ==
  ASSUME IInv, NEW l \in Lives, Takes(l), HandleShutdown(l), handed' = handed
  PROVE  Tables' /\ HandlesKept
<1>1. /\ app \in [Lives -> {"none", "running", "draining", "ended", "panicked"}]
      /\ receivers \in [Lives -> SUBSET Incoming] /\ senders \in [Lives -> SUBSET Outgoing]
      /\ \A t \in DOMAIN tasks : tasks[t] \in Task
  BY DEF IInv, Control, TypeOK
<1>2. /\ delivered' = delivered /\ joins' = joins /\ tasks' = tasks
      /\ app'[l] = "draining" /\ ~Unstopped(l)'
      /\ \A k \in Lives \ {l} : /\ app'[k] = app[k] /\ receivers'[k] = receivers[k]
                                /\ senders'[k] = senders[k]
      /\ \A k \in Lives \ {l} : Unstopped(k)' <=> Unstopped(k)
  BY <1>1 DEF HandleShutdown, Unstopped
<1>3. \A t \in DOMAIN tasks : app'[tasks[t].life] = "running" =>
        /\ tasks[t].life \in Lives \ {l} /\ app[tasks[t].life] = "running"
  BY <1>1, <1>2 DEF Task
<1>4. /\ \A k \in Lives \ {l} : inbox'[k] = inbox[k]
      /\ \A k \in Lives : \A m : /\ Carries(inbox'[k], m) => Carries(inbox[k], m)
                                 /\ AtMostOnce(inbox[k], m) => AtMostOnce(inbox'[k], m)
  BY TakenHolds DEF IInv, Control
<1>5. JoinsTrue' /\ HandedOnce' /\ IdsDrawn'
  BY <1>2, <1>4 DEF IInv, Tables, JoinsTrue, HandedOnce, IdsDrawn, Of
<1>6. MessagesKnown'
  BY <1>2, <1>3 DEF IInv, Tables, MessagesKnown
<1>7. OneReceiver'
  BY <1>2 DEF IInv, Tables, OneReceiver
<1>8. HandlesKept
  BY <1>2, <1>4 DEF IInv, Tables, HandlesTrue, HandlesKept
<1>9. ReportsTrue'
  BY <1>2, <1>4 DEF IInv, Tables, ReportsTrue, Of
<1>10. HandedTrue'
  BY <1>2 DEF IInv, Tables, HandedTrue, Of
<1> QED
  BY <1>5, <1>6, <1>7, <1>8, <1>9, <1>10 DEF Tables

\* Every handler of run_application keeps the tables true.
LEMMA HandlerTables ==
  ASSUME IInv, NEW l \in Lives, HandleMessage(l)
  PROVE  Tables' /\ HandlesKept
<1> DEFINE msg == Head(inbox[l])
<1>1. Takes(l) /\ handed' = handed
  BY DEF HandleMessage, Takes
<1>2. msg \in Message /\ Carries(inbox[l], msg)
  BY <1>1, TakenHolds DEF IInv, Control
<1>3. /\ receivers \in [Lives -> SUBSET Incoming] /\ senders \in [Lives -> SUBSET Outgoing]
      /\ delivered \in [Lives -> SUBSET Incoming]
      /\ Incoming \cap Outgoing = {}
  BY ApplicationAssumption DEF IInv, Control, TypeOK
<1>4. /\ msg.kind \in {"FromDatagramReceiver", "FromMessageReceiver"} => msg.id \in Incoming
      /\ msg.kind \in {"FromApplicationReader", "FromMessageSender"} => msg.id \in Outgoing
  BY <1>2 DEF Message
<1>5. ASSUME msg.kind \notin {"FromMessageReceiver", "FromMessageSender"}
      PROVE  \A x \in Incoming \cup Outgoing : msg # Report(x)
  BY <1>5 DEF Report
<1>6. CASE msg.kind = "FromDatagramReceiver" /\ HandleData(l, msg.id)
  <2>1. CASE msg.id \in delivered[l] \cup receivers[l]
    <3>1. tableVars' = tableVars /\ app' = app
      BY <1>6, <2>1 DEF HandleData, tableVars
    <3> QED
      BY <1>1, <1>5, <1>6, <3>1, MessageTaken
  <2>2. CASE msg.id \notin delivered[l] \cup receivers[l]
    <3>1. ASSUME app[l] = "running", NEW t \in DOMAIN tasks PROVE ~Of(t, l, msg.id)
      BY <1>4, <1>6, <2>2, <3>1 DEF IInv, Tables, MessagesKnown, Of
    <3>2. /\ tasks' = Spawned(l, msg.id)
          /\ joins' = [joins EXCEPT ![l][msg.id] = Len(tasks) + 1]
          /\ receivers' = [receivers EXCEPT ![l] = receivers[l] \cup {msg.id}]
          /\ senders' = senders /\ delivered' = delivered /\ app' = app
      BY <1>6, <2>2 DEF HandleData
    <3>3. senders = [senders EXCEPT ![l] = senders[l]]
      BY <1>3
    <3>4. msg.id \in Incoming /\ msg.id \notin Outgoing
      BY <1>3, <1>4, <1>6
    <3> HIDE DEF msg
    <3>5. \A x \in Incoming \cup Outgoing : msg # Report(x)
      BY <1>5, <1>6
    <3> QED
      BY <1>1, <3>1, <3>2, <3>3, <3>4, <3>5, TaskSpawned DEF msg
  <2> QED
    BY <2>1, <2>2
<1>7. CASE msg.kind = "FromApplicationReader" /\ HandleSubmit(l, msg.id)
  <2>1. CASE msg.id \in senders[l]
    <3>1. tableVars' = tableVars /\ app' = app
      BY <1>7, <2>1 DEF HandleSubmit, tableVars
    <3> QED
      BY <1>1, <1>5, <1>7, <3>1, MessageTaken
  <2>2. CASE msg.id \notin senders[l]
    <3>1. msg = Submission(msg.id) /\ msg.id \in Outgoing /\ msg.id \notin Incoming
      BY <1>2, <1>3, <1>4, <1>7 DEF Message, Submission
    <3>2. ASSUME NEW t \in DOMAIN tasks PROVE ~Of(t, l, msg.id)
      BY <1>2, <3>1 DEF IInv, Tables, IdsDrawn, Of
    <3>3. /\ tasks' = Spawned(l, msg.id)
          /\ joins' = [joins EXCEPT ![l][msg.id] = Len(tasks) + 1]
          /\ senders' = [senders EXCEPT ![l] = senders[l] \cup {msg.id}]
          /\ receivers' = receivers /\ delivered' = delivered /\ app' = app
      BY <1>7, <2>2 DEF HandleSubmit
    <3>4. receivers = [receivers EXCEPT ![l] = receivers[l]]
      BY <1>3
    <3> HIDE DEF msg
    <3>5. \A x \in Incoming \cup Outgoing : msg # Report(x)
      BY <1>5, <1>7
    <3> QED
      BY <1>1, <3>1, <3>2, <3>3, <3>4, <3>5, TaskSpawned DEF msg
  <2> QED
    BY <2>1, <2>2
<1>8. CASE msg.kind = "FromMessageReceiver" /\ HandleFromReceiver(l, msg.id)
  <2>1. msg = Report(msg.id) /\ msg.id \in Incoming /\ msg.id \notin Outgoing
    BY <1>2, <1>3, <1>4, <1>8 DEF Message, Report
  <2>2. /\ tasks' = Aborted(l, msg.id)
        /\ joins' = [joins EXCEPT ![l][msg.id] = None]
        /\ delivered' = [delivered EXCEPT ![l] = delivered[l] \cup {msg.id}]
        /\ receivers' = [receivers EXCEPT ![l] = receivers[l] \ {msg.id}]
        /\ senders' = senders /\ app' = app
    BY <1>8 DEF HandleFromReceiver
  <2> HIDE DEF msg
  <2>3. /\ delivered' \in [Lives -> SUBSET Incoming]
        /\ receivers' \in [Lives -> SUBSET Incoming] /\ senders' \in [Lives -> SUBSET Outgoing]
        /\ \A k \in Lives :
             /\ receivers'[k] \cup senders'[k] \subseteq receivers[k] \cup senders[k]
             /\ receivers[k] \cup delivered[k] \subseteq receivers'[k] \cup delivered'[k]
        /\ msg.id \notin receivers'[l] \cup senders'[l]
    BY <1>3, <2>1, <2>2
  <2> QED
    BY <1>1, <2>1, <2>2, <2>3, ReportTaken DEF msg
<1>9. CASE msg.kind = "FromMessageSender" /\ HandleFromSender(l, msg.id)
  <2>1. msg = Report(msg.id) /\ msg.id \in Outgoing /\ msg.id \notin Incoming
    BY <1>2, <1>3, <1>4, <1>9 DEF Message, Report
  <2>2. /\ tasks' = Aborted(l, msg.id)
        /\ joins' = [joins EXCEPT ![l][msg.id] = None]
        /\ senders' = [senders EXCEPT ![l] = senders[l] \ {msg.id}]
        /\ delivered' = delivered /\ receivers' = receivers /\ app' = app
    BY <1>9 DEF HandleFromSender
  <2> HIDE DEF msg
  <2>3. /\ delivered' \in [Lives -> SUBSET Incoming]
        /\ receivers' \in [Lives -> SUBSET Incoming] /\ senders' \in [Lives -> SUBSET Outgoing]
        /\ \A k \in Lives :
             /\ receivers'[k] \cup senders'[k] \subseteq receivers[k] \cup senders[k]
             /\ receivers[k] \cup delivered[k] \subseteq receivers'[k] \cup delivered'[k]
        /\ msg.id \notin receivers'[l] \cup senders'[l]
    BY <1>3, <2>1, <2>2
  <2> QED
    BY <1>1, <2>1, <2>2, <2>3, ReportTaken DEF msg
<1>10. CASE msg.kind = "Shutdown" /\ HandleShutdown(l)
  BY <1>1, <1>10, ShutdownTables
<1> QED
  BY <1>6, <1>7, <1>8, <1>9, <1>10 DEF HandleMessage

\* A task hands over, reports and ends.
LEMMA TaskTables ==
  ASSUME IInv, NEW t \in DOMAIN tasks, TaskStep(t)
  PROVE  Tables' /\ HandlesKept
<1> DEFINE l == tasks[t].life
           id == tasks[t].id
<1>1. /\ tasks[t] \in Task /\ l \in Lives /\ id \in Incoming \cup Outgoing
      /\ handed \in [Lives -> [Incoming -> Nat]]
  <2>1. tasks[t] \in Task
    BY DEF IInv, Control, TypeOK
  <2> QED
    BY <2>1 DEF Task, IInv, Control, TypeOK
<1>2. \A k \in Lives : \A x \in Outgoing : AtMostOnce(inbox[k], Submission(x))
  BY DEF IInv, Tables, IdsDrawn
<1>3. CASE HandOver(t)
  <2>1. /\ tasks[t].state = "running" /\ id \in Incoming
        /\ Become(t, "announcing")
        /\ app' = app /\ inbox' = inbox
        /\ UNCHANGED <<delivered, receivers, senders, joins>>
    BY <1>3 DEF HandOver, lifeVars
  <2>2. ASSUME NEW k \in Lives, NEW x \in Incoming
        PROVE  \/ handed'[k][x] = handed[k][x]
               \/ Of(t, k, x) /\ Unstopped(k) /\ handed'[k][x] = handed[k][x] + 1
    <3>1. CASE writer[l]
      <4>1. handed' = [handed EXCEPT ![l][id] = handed[l][id] + 1] /\ Unstopped(l)
        BY <1>1, <1>3, <3>1 DEF HandOver, IInv, Control, EndsTrue
      <4> QED
        BY <1>1, <4>1 DEF Of
    <3>2. CASE ~writer[l]
      BY <1>3, <3>2 DEF HandOver
    <3> QED
      BY <3>1, <3>2
  <2> QED
    BY <1>2, <2>1, <2>2, TaskMoves DEF Past
<1>4. CASE Exit(t)
  <2>1. /\ tasks[t].state = "running"
        /\ Become(t, "announcing")
        /\ app' = app /\ inbox' = inbox /\ handed' = handed
        /\ UNCHANGED <<delivered, receivers, senders, joins>>
    BY <1>4 DEF Exit, lifeVars
  <2> QED
    BY <1>2, <2>1, TaskMoves DEF Past
<1>5. CASE End(t)
  <2>1. /\ tasks[t].state = "ending"
        /\ Become(t, "done")
        /\ app' = app /\ inbox' = inbox /\ handed' = handed
        /\ UNCHANGED <<delivered, receivers, senders, joins>>
    BY <1>5 DEF End, lifeVars
  <2> QED
    BY <1>2, <2>1, TaskMoves DEF Past
<1>6. CASE Announce(t)
  <2>1. /\ tasks[t].state = "announcing"
        /\ Become(t, "ending")
        /\ app' = app /\ handed' = handed
        /\ UNCHANGED <<delivered, receivers, senders, joins>>
        /\ inbox' = Sent(l, Report(id))
    BY <1>6 DEF Announce, Report
  <2>2. Report(id) \in Message
    BY <1>1 DEF Report, Message
  <2> HIDE DEF l, id
  <2>3. /\ \A k \in Lives : k # l \/ app[l] # "running" => inbox'[k] = inbox[k]
        /\ app[l] = "running" =>
             /\ \A m : Carries(inbox'[l], m) <=> Carries(inbox[l], m) \/ m = Report(id)
             /\ \A m : AtMostOnce(inbox[l], m) /\ (m = Report(id) => ~Carries(inbox[l], m)) =>
                  AtMostOnce(inbox'[l], m)
    BY <1>1, <2>1, <2>2, SentHolds DEF IInv, Control
  <2>4. Of(t, l, id)
    BY DEF Of, l, id
  <2>5. \A k \in Lives : app[k] = "running" =>
          \A x \in Incoming \cup Outgoing :
            /\ Carries(inbox[k], Report(x)) => Carries(inbox'[k], Report(x))
            /\ Carries(inbox'[k], Report(x)) =>
                 Carries(inbox[k], Report(x)) \/ (Of(t, k, x) /\ Past("ending"))
    BY <2>3, <2>4, MessageKinds DEF Past
  <2>6. \A k \in Lives : \A x \in Outgoing :
          /\ AtMostOnce(inbox'[k], Submission(x))
          /\ Carries(inbox'[k], Submission(x)) <=> Carries(inbox[k], Submission(x))
    BY <1>2, <2>3, MessageKinds
  <2>7. app[tasks[t].life] = "running" => Carries(inbox'[tasks[t].life], Report(tasks[t].id))
    BY <2>3 DEF l, id
  <2> QED
    BY <2>1, <2>5, <2>6, <2>7, TaskMoves DEF Past
<1> QED
  BY <1>3, <1>4, <1>5, <1>6 DEF TaskStep

-----------------------------------------------------------------------------
(* Control *)

\* Steps that do not concern the registrar.
LEMMA RegistrarIdle ==
  ASSUME Control, UNCHANGED registrarVars,
         \A l \in Lives : Unstopped(l)' <=> Unstopped(l),
         dr' # None => registry # None
  PROVE  /\ ConnectionsCounted' /\ OneLife' /\ RemovalTrue'
         /\ RegistryTrue'
<1>1. /\ registry' = registry /\ registrar' = registrar /\ reading' = reading
      /\ connections' = connections /\ lives' = lives
      /\ registry \in Lives \cup {None}
  BY DEF registrarVars, Control, TypeOK
<1> QED
  BY <1>1 DEF Control, ConnectionsCounted, OneLife, RemovalTrue, RegistryTrue

\* Steps that stop no reader.
LEMMA EndsKept ==
  ASSUME Control, reader' = reader,
         \A l \in Lives :
           /\ writer'[l] => writer[l]
           /\ Unstopped(l) => Unstopped(l)'
           /\ Carries(inbox'[l], Stop) =>
                /\ Carries(inbox[l], Stop)
                /\ app[l] = "running" => app'[l] = "running"
           /\ AtMostOnce(inbox[l], Stop) => AtMostOnce(inbox'[l], Stop)
  PROVE  EndsTrue'
BY DEF Control, EndsTrue

LEMMA TaskControl ==
  ASSUME IInv, NEW t \in DOMAIN tasks, TaskStep(t)
  PROVE  Control'
<1> DEFINE l == tasks[t].life
           id == tasks[t].id
<1>1. /\ tasks \in Seq(Task) /\ tasks[t] \in Task /\ l \in Lives /\ id \in Incoming \cup Outgoing
      /\ handed \in [Lives -> [Incoming -> Nat]]
      /\ inbox \in [Lives -> Seq(Message)]
  <2>1. tasks \in Seq(Task) /\ tasks[t] \in Task
    BY DEF IInv, Control, TypeOK
  <2> QED
    BY <2>1 DEF Task, IInv, Control, TypeOK
<1>2. /\ \E state \in {"announcing", "ending", "done"} :
           tasks' = [tasks EXCEPT ![t].state = state]
      /\ UNCHANGED registrarVars /\ app' = app /\ reader' = reader /\ writer' = writer
      /\ delivered' = delivered /\ receivers' = receivers /\ senders' = senders
      /\ joins' = joins /\ dr' = dr /\ arrivals' = arrivals
      /\ \/ inbox' = inbox
         \/ inbox' = Sent(l, Report(id))
      /\ \/ handed' = handed
         \/ id \in Incoming /\ handed' = [handed EXCEPT ![l][id] = handed[l][id] + 1]
  BY DEF TaskStep, HandOver, Exit, Announce, End, Become, Report, lifeVars, netVars
<1>3. /\ tasks' \in Seq(Task) /\ DOMAIN tasks' = DOMAIN tasks
      /\ \A u \in DOMAIN tasks : tasks'[u].life = tasks[u].life
  BY <1>1, <1>2, StateChanges
<1>4. /\ inbox' \in [Lives -> Seq(Message)]
      /\ \A k \in Lives \ {l} : inbox'[k] = inbox[k]
      /\ \A k \in Lives : Carries(inbox'[k], Stop) => Carries(inbox[k], Stop)
      /\ \A k \in Lives : AtMostOnce(inbox[k], Stop) => AtMostOnce(inbox'[k], Stop)
  <2>1. CASE inbox' = inbox
    BY <1>1, <2>1
  <2>2. CASE inbox' = Sent(l, Report(id))
    <3>1. Report(id) \in Message
      BY <1>1 DEF Report, Message
    <3> HIDE DEF l, id
    <3> QED
      BY <1>1, <2>2, <3>1, SentHolds, MessageKinds DEF IInv, Control
  <2> QED
    BY <1>2, <2>1, <2>2
<1>5. /\ handed' \in [Lives -> [Incoming -> Nat]]
      /\ \A k \in Lives \ {l} : handed'[k] = handed[k]
  <2>1. CASE id \in Incoming /\ handed' = [handed EXCEPT ![l][id] = handed[l][id] + 1]
    <3>1. handed[l] \in [Incoming -> Nat] /\ handed[l][id] + 1 \in Nat
      BY <1>1, <2>1
    <3>2. [handed[l] EXCEPT ![id] = handed[l][id] + 1] \in [Incoming -> Nat]
      BY <3>1
    <3> HIDE DEF l, id
    <3> QED
      BY <1>1, <2>1, <3>2
  <2> QED
    BY <1>1, <1>2, <2>1
<1>6. TypeOK'
  BY <1>2, <1>3, <1>4, <1>5 DEF IInv, Control, TypeOK, registrarVars
<1>7. \A k \in Lives : k > lives' => Fresh(k)'
  <2> SUFFICES ASSUME NEW k \in Lives, Fresh(k)
               PROVE  Fresh(k)'
    BY <1>2 DEF IInv, Control, registrarVars
  <2>1. k # l
    BY DEF Fresh
  <2> QED
    BY <1>2, <1>3, <1>4, <1>5, <2>1 DEF Fresh
<1>8. ConnectionsCounted' /\ OneLife' /\ RemovalTrue' /\ RegistryTrue'
  BY <1>2, RegistrarIdle DEF IInv, Control, RegistryTrue, Unstopped
<1>9. EndsTrue'
  BY <1>2, <1>4, EndsKept DEF IInv, Unstopped
<1> QED
  BY <1>6, <1>7, <1>8, <1>9 DEF Control

LEMMA HandlerControl ==
  ASSUME IInv, NEW l \in Lives, HandleMessage(l)
  PROVE  Control'
<1> DEFINE msg == Head(inbox[l])
<1>1. /\ Takes(l) /\ handed' = handed /\ registry' = registry /\ reading' = reading
      /\ connections' = connections /\ lives' = lives /\ dr' = dr /\ arrivals' = arrivals
  BY DEF HandleMessage, Takes, netVars
<1>2. /\ inbox' \in [Lives -> Seq(Message)] /\ msg \in Message /\ Carries(inbox[l], msg)
      /\ \A k \in Lives \ {l} : inbox'[k] = inbox[k]
      /\ \A m : Carries(inbox'[l], m) => Carries(inbox[l], m)
      /\ \A m : AtMostOnce(inbox[l], m) =>
           AtMostOnce(inbox'[l], m) /\ (m = msg => ~Carries(inbox'[l], m))
  BY <1>1, TakenHolds DEF IInv, Control
<1>3. /\ app \in [Lives -> {"none", "running", "draining", "ended", "panicked"}]
      /\ receivers \in [Lives -> SUBSET Incoming] /\ senders \in [Lives -> SUBSET Outgoing]
      /\ delivered \in [Lives -> SUBSET Incoming]
      /\ joins \in [Lives -> [Incoming \cup Outgoing -> DOMAIN tasks \cup {None}]]
      /\ tasks \in Seq(Task)
      /\ reader \in [Lives -> {"none", "reading", "stopped"}] /\ writer \in [Lives -> BOOLEAN]
  BY DEF IInv, Control, TypeOK
<1>4. /\ msg.kind \in {"FromDatagramReceiver", "FromMessageReceiver"} => msg.id \in Incoming
      /\ msg.kind \in {"FromApplicationReader", "FromMessageSender"} => msg.id \in Outgoing
  BY <1>2 DEF Message
\* A fresh life takes nothing.
<1>5. \A k \in Lives : k > lives => Fresh(k) /\ k # l
  BY <1>1 DEF IInv, Control, Fresh, Takes
<1>6. ASSUME NEW id \in Incoming \cup Outgoing, tasks' = Spawned(l, id)
      PROVE  /\ tasks' \in Seq(Task)
             /\ DOMAIN tasks \cup {Len(tasks) + 1} = DOMAIN tasks'
             /\ \A t \in DOMAIN tasks' : tasks'[t].life = l \/ (t \in DOMAIN tasks /\ tasks'[t] = tasks[t])
             /\ [joins EXCEPT ![l][id] = Len(tasks) + 1] \in
                  [Lives -> [Incoming \cup Outgoing -> DOMAIN tasks' \cup {None}]]
  <2>1. [life |-> l, id |-> id, state |-> "running"] \in Task
    BY DEF Task
  <2>2. /\ tasks' \in Seq(Task) /\ Len(tasks') = Len(tasks) + 1 /\ Len(tasks) \in Nat
        /\ \A t \in 1 .. Len(tasks) : tasks'[t] = tasks[t]
        /\ tasks'[Len(tasks) + 1].life = l
    BY <1>3, <1>6, <2>1, AppendProperties, LenProperties DEF Spawned
  <2>3. DOMAIN tasks = 1 .. Len(tasks) /\ DOMAIN tasks' = 1 .. (Len(tasks) + 1)
    BY <1>3, <2>2, LenProperties
  <2>4. Len(tasks) + 1 \in DOMAIN tasks' /\ DOMAIN tasks \subseteq DOMAIN tasks'
    BY <2>2, <2>3
  <2>5. joins \in [Lives -> [Incoming \cup Outgoing -> DOMAIN tasks' \cup {None}]]
    <3>1. \A k \in Lives :
            joins[k] \in [Incoming \cup Outgoing -> DOMAIN tasks' \cup {None}]
      <4> SUFFICES ASSUME NEW k \in Lives
                   PROVE  joins[k] \in [Incoming \cup Outgoing -> DOMAIN tasks' \cup {None}]
        OBVIOUS
      <4>1. joins[k] \in [Incoming \cup Outgoing -> DOMAIN tasks \cup {None}]
        BY <1>3
      <4> QED
        BY <2>4, <4>1
    <3> QED
      BY <1>3, <3>1
  <2>6. [joins[l] EXCEPT ![id] = Len(tasks) + 1] \in
          [Incoming \cup Outgoing -> DOMAIN tasks' \cup {None}]
    BY <2>4, <2>5
  <2>7. [joins EXCEPT ![l] = [joins[l] EXCEPT ![id] = Len(tasks) + 1]] \in
          [Lives -> [Incoming \cup Outgoing -> DOMAIN tasks' \cup {None}]]
    BY <2>5, <2>6
  <2>8. \A t \in DOMAIN tasks' : tasks'[t].life = l \/ (t \in DOMAIN tasks /\ tasks'[t] = tasks[t])
    BY <2>2, <2>3
  <2>9. DOMAIN tasks \cup {Len(tasks) + 1} = DOMAIN tasks'
    BY <2>2, <2>3
  <2> QED
    BY <2>2, <2>7, <2>8, <2>9
<1>7. ASSUME NEW id \in Incoming \cup Outgoing, tasks' = Aborted(l, id)
      PROVE  /\ tasks' \in Seq(Task)
             /\ DOMAIN tasks' = DOMAIN tasks
             /\ \A t \in DOMAIN tasks : tasks'[t].life = tasks[t].life
  BY <1>7, AbortedTask
\* What the handlers of messages, Shutdown apart, leave and what they change.
<1>8. ASSUME registrar' = registrar, app' = app, reader' = reader, writer' = writer,
             delivered' \in [Lives -> SUBSET Incoming],
             receivers' \in [Lives -> SUBSET Incoming],
             senders' \in [Lives -> SUBSET Outgoing],
             joins' \in [Lives -> [Incoming \cup Outgoing -> DOMAIN tasks' \cup {None}]],
             tasks' \in Seq(Task),
             \A t \in DOMAIN tasks' :
               tasks'[t].life = l \/ (t \in DOMAIN tasks /\ tasks'[t].life = tasks[t].life),
             \A k \in Lives \ {l} : receivers'[k] = receivers[k] /\ senders'[k] = senders[k]
      PROVE  Control'
  <2>1. TypeOK'
    BY <1>1, <1>2, <1>8 DEF IInv, Control, TypeOK
  <2>2. \A k \in Lives : k > lives' => Fresh(k)'
    <3> SUFFICES ASSUME NEW k \in Lives, k # l, Fresh(k)
                 PROVE  Fresh(k)'
      BY <1>1, <1>5
    <3>1. /\ app'[k] = "none" /\ reader'[k] = "none" /\ ~writer'[k] /\ inbox'[k] = <<>>
          /\ receivers'[k] = {} /\ senders'[k] = {}
      BY <1>2, <1>8 DEF Fresh
    <3>2. \A t \in DOMAIN tasks' : tasks'[t].life # k
      BY <1>8 DEF Fresh
    <3>3. \A id \in Incoming : handed'[k][id] = 0
      BY <1>1 DEF Fresh
    <3> QED
      BY <3>1, <3>2, <3>3 DEF Fresh
  <2>3. ConnectionsCounted' /\ OneLife' /\ RemovalTrue' /\ RegistryTrue'
    BY <1>1, <1>8, RegistrarIdle DEF IInv, Control, RegistryTrue, registrarVars, Unstopped
  <2>4. EndsTrue'
    BY <1>2, <1>8, EndsKept DEF IInv, Unstopped
  <2> QED
    BY <2>1, <2>2, <2>3, <2>4 DEF Control
<1>9. CASE msg.kind = "FromDatagramReceiver" /\ HandleData(l, msg.id)
  <2>0. msg.id \in Incoming \cup Outgoing
    BY <1>4, <1>9
  <2>1. /\ registrar' = registrar /\ app' = app /\ reader' = reader /\ writer' = writer
        /\ delivered' = delivered /\ senders' = senders
    BY <1>9 DEF HandleData
  <2>2. CASE UNCHANGED <<receivers, joins, tasks>>
    BY <1>3, <1>8, <2>1, <2>2
  <2>3. CASE /\ receivers' = [receivers EXCEPT ![l] = receivers[l] \cup {msg.id}]
             /\ joins' = [joins EXCEPT ![l][msg.id] = Len(tasks) + 1]
             /\ tasks' = Spawned(l, msg.id)
    <3> HIDE DEF msg
    <3>1. /\ tasks' \in Seq(Task)
          /\ DOMAIN tasks \cup {Len(tasks) + 1} = DOMAIN tasks'
          /\ \A t \in DOMAIN tasks' : tasks'[t].life = l \/ (t \in DOMAIN tasks /\ tasks'[t] = tasks[t])
      BY <1>6, <2>0, <2>3
    <3>2. joins' \in [Lives -> [Incoming \cup Outgoing -> DOMAIN tasks' \cup {None}]]
      BY <1>6, <2>0, <2>3
    <3>3. receivers' \in [Lives -> SUBSET Incoming]
      BY <1>3, <1>4, <1>9, <2>3 DEF msg
    <3> QED
      BY <1>3, <1>8, <2>1, <2>3, <3>1, <3>2, <3>3
  <2> QED
    BY <1>9, <2>2, <2>3 DEF HandleData
<1>10. CASE msg.kind = "FromApplicationReader" /\ HandleSubmit(l, msg.id)
  <2>0. msg.id \in Incoming \cup Outgoing
    BY <1>4, <1>10
  <2>1. /\ registrar' = registrar /\ app' = app /\ reader' = reader /\ writer' = writer
        /\ delivered' = delivered /\ receivers' = receivers
    BY <1>10 DEF HandleSubmit
  <2>2. CASE UNCHANGED <<senders, joins, tasks>>
    BY <1>3, <1>8, <2>1, <2>2
  <2>3. CASE /\ senders' = [senders EXCEPT ![l] = senders[l] \cup {msg.id}]
             /\ joins' = [joins EXCEPT ![l][msg.id] = Len(tasks) + 1]
             /\ tasks' = Spawned(l, msg.id)
    <3> HIDE DEF msg
    <3>1. /\ tasks' \in Seq(Task)
          /\ DOMAIN tasks \cup {Len(tasks) + 1} = DOMAIN tasks'
          /\ \A t \in DOMAIN tasks' : tasks'[t].life = l \/ (t \in DOMAIN tasks /\ tasks'[t] = tasks[t])
      BY <1>6, <2>0, <2>3
    <3>2. joins' \in [Lives -> [Incoming \cup Outgoing -> DOMAIN tasks' \cup {None}]]
      BY <1>6, <2>0, <2>3
    <3>3. senders' \in [Lives -> SUBSET Outgoing]
      BY <1>3, <1>4, <1>10, <2>3 DEF msg
    <3> QED
      BY <1>3, <1>8, <2>1, <2>3, <3>1, <3>2, <3>3
  <2> QED
    BY <1>10, <2>2, <2>3 DEF HandleSubmit
<1>11. CASE msg.kind = "FromMessageReceiver" /\ HandleFromReceiver(l, msg.id)
  <2>0. msg.id \in Incoming \cup Outgoing
    BY <1>4, <1>11
  <2>1. /\ registrar' = registrar /\ app' = app /\ reader' = reader /\ writer' = writer
        /\ delivered' = [delivered EXCEPT ![l] = delivered[l] \cup {msg.id}]
        /\ receivers' = [receivers EXCEPT ![l] = receivers[l] \ {msg.id}]
        /\ senders' = senders
        /\ tasks' = Aborted(l, msg.id)
        /\ joins' = [joins EXCEPT ![l][msg.id] = None]
    BY <1>11 DEF HandleFromReceiver
  <2>2. delivered' \in [Lives -> SUBSET Incoming]
    BY <1>3, <1>4, <1>11, <2>1
  <2> HIDE DEF msg
  <2>3. /\ tasks' \in Seq(Task) /\ DOMAIN tasks' = DOMAIN tasks
        /\ \A t \in DOMAIN tasks : tasks'[t].life = tasks[t].life
    BY <1>7, <2>0, <2>1
  <2>4. /\ joins' \in [Lives -> [Incoming \cup Outgoing -> DOMAIN tasks' \cup {None}]]
        /\ receivers' \in [Lives -> SUBSET Incoming]
    BY <1>3, <2>1, <2>3
  <2> QED
    BY <1>3, <1>8, <2>1, <2>2, <2>3, <2>4
<1>12. CASE msg.kind = "FromMessageSender" /\ HandleFromSender(l, msg.id)
  <2>0. msg.id \in Incoming \cup Outgoing
    BY <1>4, <1>12
  <2>1. /\ registrar' = registrar /\ app' = app /\ reader' = reader /\ writer' = writer
        /\ delivered' = delivered /\ receivers' = receivers
        /\ senders' = [senders EXCEPT ![l] = senders[l] \ {msg.id}]
        /\ tasks' = Aborted(l, msg.id)
        /\ joins' = [joins EXCEPT ![l][msg.id] = None]
    BY <1>12 DEF HandleFromSender
  <2> HIDE DEF msg
  <2>2. /\ tasks' \in Seq(Task) /\ DOMAIN tasks' = DOMAIN tasks
        /\ \A t \in DOMAIN tasks : tasks'[t].life = tasks[t].life
    BY <1>7, <2>0, <2>1
  <2>3. /\ joins' \in [Lives -> [Incoming \cup Outgoing -> DOMAIN tasks' \cup {None}]]
        /\ senders' \in [Lives -> SUBSET Outgoing]
    BY <1>3, <2>1, <2>2
  <2> QED
    BY <1>3, <1>8, <2>1, <2>2, <2>3
<1>13. CASE msg.kind = "Shutdown" /\ HandleShutdown(l)
  <2>1. /\ app' = [app EXCEPT ![l] = "draining"]
        /\ receivers' = [receivers EXCEPT ![l] = {}]
        /\ senders' = [senders EXCEPT ![l] = {}]
        /\ writer' = [writer EXCEPT ![l] = FALSE]
        /\ reader' = [reader EXCEPT ![l] = "stopped"]
        /\ registrar' = Append(registrar, "FromApplication")
        /\ delivered' = delivered /\ joins' = joins /\ tasks' = tasks
    BY <1>13 DEF HandleShutdown
  <2>2. registrar \in Seq(RegistrarMessage) /\ "FromApplication" \in RegistrarMessage
    BY DEF IInv, Control, TypeOK, RegistrarMessage
  <2>3. registrar' \in Seq(RegistrarMessage)
    BY <2>1, <2>2, AppendProperties
  <2>4. TypeOK'
    BY <1>1, <1>2, <1>3, <2>1, <2>3 DEF IInv, Control, TypeOK, RegistrarMessage
  <2>5. msg = Stop
    BY <1>2, <1>13 DEF Message, Stop
  \* The life that stops is the registered one, and the registrar does not know yet.
  <2>6. app[l] = "running" /\ registry = l /\ ~Carries(registrar, "FromApplication")
    BY <1>2, <2>5 DEF IInv, Control, EndsTrue, OneLife, RemovalTrue, Unstopped
  <2>7. /\ \A m : Carries(registrar', m) <=> Carries(registrar, m) \/ m = "FromApplication"
        /\ AtMostOnce(registrar', "FromApplication")
    BY <2>1, <2>2, <2>6, AppendHolds DEF IInv, Control, RemovalTrue
  <2>8. RemovalTrue'
    BY <1>1, <1>3, <2>1, <2>6, <2>7, ApplicationAssumption DEF RemovalTrue, Lives, Unstopped
  <2>9. ConnectionsCounted'
    <3>1. Cardinality(Waiting(registrar')) = Cardinality(Waiting(registrar))
      <4>1. Cardinality(Waiting(Append(registrar, "FromApplication"))) =
              Cardinality(Waiting(registrar)) + 0
        BY <2>2, WaitingAppend
      <4>2. Cardinality(Waiting(registrar)) \in Nat
        BY <2>2, WaitingFinite
      <4> QED
        BY <2>1, <4>1, <4>2
    <3> QED
      BY <1>1, <3>1 DEF IInv, Control, ConnectionsCounted
  <2>10. \A k \in Lives : k > lives' => Fresh(k)'
    <3> SUFFICES ASSUME NEW k \in Lives, k # l, Fresh(k)
                 PROVE  Fresh(k)'
      BY <1>1, <1>5
    <3>1. /\ app'[k] = "none" /\ reader'[k] = "none" /\ ~writer'[k] /\ inbox'[k] = <<>>
          /\ receivers'[k] = {} /\ senders'[k] = {}
      BY <1>2, <1>3, <2>1 DEF Fresh
    <3> QED
      BY <1>1, <2>1, <3>1 DEF Fresh
  <2>11. OneLife'
    BY <1>1, <1>3, <2>1 DEF IInv, Control, OneLife, Unstopped
  <2>12. EndsTrue'
    BY <1>2, <1>3, <2>1, <2>5 DEF IInv, Control, EndsTrue, Unstopped
  <2> QED
    BY <1>1, <2>4, <2>8, <2>9, <2>10, <2>11, <2>12 DEF IInv, Control, RegistryTrue
<1> QED
  BY <1>9, <1>10, <1>11, <1>12, <1>13 DEF HandleMessage

-----------------------------------------------------------------------------
(* Steps of the registrar and of the connections *)

LEMMA RegistrarTyped ==
  ASSUME TypeOK
  PROVE  /\ registrar \in Seq(RegistrarMessage)
         /\ Cardinality(Waiting(registrar)) \in Nat
         /\ lives \in Nat /\ connections \in Nat /\ MAX_CONNECTIONS \in Nat
         /\ lives <= connections /\ connections <= MAX_CONNECTIONS
         /\ connections \in 0 .. MAX_CONNECTIONS /\ connections <= connections
<1>1. registrar \in Seq(RegistrarMessage)
  BY DEF TypeOK, RegistrarMessage
<1> QED
  BY <1>1, WaitingFinite, ApplicationAssumption DEF TypeOK

\* Steps of the registrar that make and end no life.
LEMMA RegistrarMoves ==
  ASSUME IInv, registry' = registry, lives' = lives,
         lifeVars' = lifeVars, tableVars' = tableVars, netVars' = netVars, handed' = handed,
         registrar' \in Seq(RegistrarMessage), reading' \in BOOLEAN,
         connections' \in 0 .. MAX_CONNECTIONS, connections <= connections',
         ConnectionsCounted',
         Carries(registrar', "FromApplication") => Carries(registrar, "FromApplication"),
         AtMostOnce(registrar, "FromApplication") => AtMostOnce(registrar', "FromApplication")
  PROVE  IInv' /\ HandlesKept
<1>1. /\ app' = app /\ inbox' = inbox /\ reader' = reader /\ writer' = writer
      /\ dr' = dr /\ arrivals' = arrivals
      /\ delivered' = delivered /\ receivers' = receivers /\ senders' = senders
      /\ joins' = joins /\ tasks' = tasks
  BY DEF lifeVars, tableVars, netVars
<1>2. Tables' /\ HandlesKept
  BY <1>1, LivesChange
<1>3. TypeOK'
  <2>1. lives \in 0 .. connections'
    BY RegistrarTyped, ApplicationAssumption DEF IInv, Control
  <2> QED
    BY <1>1, <2>1 DEF IInv, Control, TypeOK, RegistrarMessage
<1>4. \A l \in Lives : l > lives' => Fresh(l)'
  BY <1>1 DEF IInv, Control, Fresh
<1>5. OneLife' /\ EndsTrue' /\ RemovalTrue' /\ RegistryTrue'
  BY <1>1 DEF IInv, Control, OneLife, EndsTrue, RemovalTrue, RegistryTrue, Unstopped
<1> QED
  BY <1>2, <1>3, <1>4, <1>5 DEF IInv, Control

LEMMA ConnectIInv ==
  ASSUME IInv, Connect
  PROVE  IInv' /\ HandlesKept
<1>1. /\ registrar \in Seq(RegistrarMessage) /\ "FromApplicationListener" \in RegistrarMessage
      /\ Cardinality(Waiting(registrar)) \in Nat
      /\ lives \in Nat /\ connections \in Nat /\ MAX_CONNECTIONS \in Nat
  BY RegistrarTyped DEF IInv, Control, RegistrarMessage
<1>2. /\ registrar' = Append(registrar, "FromApplicationListener")
      /\ connections < MAX_CONNECTIONS /\ connections' = connections + 1
      /\ registry' = registry /\ lives' = lives /\ reading' = reading
  BY DEF Connect
<1>3. registrar' \in Seq(RegistrarMessage)
  BY <1>1, <1>2, AppendProperties
<1>4. Cardinality(Waiting(registrar')) = Cardinality(Waiting(registrar)) + 1
  <2>1. Cardinality(Waiting(Append(registrar, "FromApplicationListener"))) =
          Cardinality(Waiting(registrar)) + 1
    BY <1>1, WaitingAppend
  <2> QED
    BY <1>2, <2>1
<1>5. ConnectionsCounted'
  BY <1>1, <1>2, <1>4 DEF IInv, Control, ConnectionsCounted
<1>6. /\ Carries(registrar', "FromApplication") => Carries(registrar, "FromApplication")
      /\ AtMostOnce(registrar, "FromApplication") => AtMostOnce(registrar', "FromApplication")
  BY <1>1, <1>2, AppendHolds
<1>7. connections' \in 0 .. MAX_CONNECTIONS /\ connections <= connections' /\ reading' \in BOOLEAN
  BY <1>1, <1>2 DEF IInv, Control, TypeOK
<1> QED
  BY <1>2, <1>3, <1>5, <1>6, <1>7, RegistrarMoves DEF Connect

LEMMA ReadRegistrationIInv ==
  ASSUME IInv, ReadRegistration
  PROVE  IInv' /\ HandlesKept
<1>1. /\ registrar \in Seq(RegistrarMessage)
      /\ Cardinality(Waiting(registrar)) \in Nat
      /\ lives \in Nat /\ connections \in Nat
      /\ connections \in 0 .. MAX_CONNECTIONS /\ connections <= connections
  BY RegistrarTyped DEF IInv, Control
<1>2. /\ registrar # <<>> /\ Head(registrar) = "FromApplicationListener"
      /\ registrar' = Tail(registrar)
      /\ ~reading /\ reading' = TRUE
      /\ registry' = registry /\ lives' = lives /\ connections' = connections
  BY DEF ReadRegistration
<1>3. registrar' \in Seq(RegistrarMessage)
  BY <1>1, <1>2, HeadTailProperties
<1>4. Cardinality(Waiting(registrar)) = Cardinality(Waiting(registrar')) + 1
      /\ Cardinality(Waiting(registrar')) \in Nat
  BY <1>1, <1>2, <1>3, WaitingTail, WaitingFinite
<1>5. ConnectionsCounted'
  BY <1>1, <1>2, <1>4 DEF IInv, Control, ConnectionsCounted
<1>6. /\ Carries(registrar', "FromApplication") => Carries(registrar, "FromApplication")
      /\ AtMostOnce(registrar, "FromApplication") => AtMostOnce(registrar', "FromApplication")
  BY <1>1, <1>2, TailHolds
<1> QED
  BY <1>1, <1>2, <1>3, <1>5, <1>6, RegistrarMoves DEF ReadRegistration

\* The registration is refused, by an error or because the id is taken.
LEMMA NotCreatedIInv ==
  ASSUME IInv, reading, reading' = FALSE,
         UNCHANGED <<registry, registrar, connections, lives, lifeVars, tableVars, netVars, handed>>
  PROVE  IInv' /\ HandlesKept
<1>1. /\ registrar \in Seq(RegistrarMessage)
      /\ Cardinality(Waiting(registrar)) \in Nat
      /\ lives \in Nat /\ connections \in Nat
      /\ connections \in 0 .. MAX_CONNECTIONS /\ connections <= connections
  BY RegistrarTyped DEF IInv, Control
<1>2. ConnectionsCounted'
  BY <1>1 DEF IInv, Control, ConnectionsCounted
<1> QED
  BY <1>1, <1>2, RegistrarMoves

LEMMA CreateApplicationIInv ==
  ASSUME IInv, CreateApplication
  PROVE  IInv' /\ HandlesKept
<1>1. CASE registry # None
  BY <1>1, NotCreatedIInv DEF CreateApplication, lifeVars
<1>2. CASE registry = None
  <2> DEFINE new == lives + 1
  <2>1. /\ reading /\ ~reading' /\ dr = None
        /\ registry' = new /\ lives' = new
        /\ app' = [app EXCEPT ![new] = "running"]
        /\ reader' = [reader EXCEPT ![new] = "reading"]
        /\ writer' = [writer EXCEPT ![new] = TRUE]
        /\ registrar' = registrar /\ connections' = connections /\ inbox' = inbox
        /\ tableVars' = tableVars /\ netVars' = netVars /\ handed' = handed
        /\ dr' = dr
    BY <1>2 DEF CreateApplication, netVars
  <2>2. /\ Cardinality(Waiting(registrar)) \in Nat
        /\ lives \in Nat /\ connections \in Nat /\ MAX_CONNECTIONS \in Nat
        /\ connections <= MAX_CONNECTIONS
        /\ lives + Cardinality(Waiting(registrar)) + 1 <= connections
    BY <2>1, RegistrarTyped DEF IInv, Control, ConnectionsCounted
  <2>3. /\ new \in Lives /\ new > lives /\ new \in 0 .. connections /\ new # None
        /\ \A l \in Lives : l > new => l > lives /\ l # new
    BY <2>2, ApplicationAssumption DEF Lives
  <2> HIDE DEF new
  <2>4. Fresh(new)
    BY <2>3 DEF IInv, Control
  <2>5. /\ app \in [Lives -> {"none", "running", "draining", "ended", "panicked"}]
        /\ reader \in [Lives -> {"none", "reading", "stopped"}]
        /\ writer \in [Lives -> BOOLEAN]
    BY DEF IInv, Control, TypeOK
  <2>6. /\ app'[new] = "running" /\ reader'[new] = "reading"
        /\ \A l \in Lives \ {new} :
             app'[l] = app[l] /\ reader'[l] = reader[l] /\ writer'[l] = writer[l]
    BY <2>1, <2>3, <2>5
  <2>7. Tables' /\ HandlesKept
    BY <2>1, <2>4, <2>6, LivesChange
  <2>8. /\ delivered' = delivered /\ receivers' = receivers /\ senders' = senders
        /\ joins' = joins /\ tasks' = tasks /\ arrivals' = arrivals
    BY <2>1 DEF tableVars, netVars
  <2>9. TypeOK'
    <3>1. /\ app' \in [Lives -> {"none", "running", "draining", "ended", "panicked"}]
          /\ reader' \in [Lives -> {"none", "reading", "stopped"}]
          /\ writer' \in [Lives -> BOOLEAN]
      BY <2>1, <2>5
    <3>2. /\ registry' \in Lives \cup {None} /\ lives' \in 0 .. connections'
          /\ reading' \in BOOLEAN
      BY <1>2, <2>1, <2>3 DEF CreateApplication
    <3> QED
      BY <2>1, <2>8, <3>1, <3>2 DEF IInv, Control, TypeOK
  <2>10. ConnectionsCounted'
    BY <2>1, <2>2 DEF ConnectionsCounted, new
  <2>11. \A l \in Lives : l > lives' => Fresh(l)'
    BY <2>1, <2>3, <2>6, <2>8 DEF IInv, Control, Fresh
  <2>12. OneLife'
    <3>1. \A l \in Lives : ~Unstopped(l)
      BY <1>2, ApplicationAssumption DEF IInv, Control, OneLife, Lives
    <3> QED
      BY <2>1, <2>6, <3>1 DEF OneLife, Unstopped
  <2>13. EndsTrue'
    <3>1. \A m : ~Carries(inbox[new], m)
      BY <2>4 DEF Fresh, Carries
    <3> QED
      BY <2>1, <2>6, <3>1 DEF IInv, Control, EndsTrue, Unstopped
  <2>14. RemovalTrue'
    BY <1>2, <2>1 DEF IInv, Control, RemovalTrue
  <2>15. RegistryTrue'
    BY <2>1, <2>2, <2>3 DEF RegistryTrue, new
  <2> QED
    BY <2>7, <2>9, <2>10, <2>11, <2>12, <2>13, <2>14, <2>15 DEF IInv, Control
<1> QED
  BY <1>1, <1>2

\* Whom the registrar removes has shut down.
LEMMA RemoveApplicationIInv ==
  ASSUME IInv, RemoveApplication
  PROVE  /\ IInv' /\ HandlesKept
         /\ \A l \in Lives : app[l] = "running" => app'[l] = app[l]
<1>1. /\ registrar # <<>> /\ Head(registrar) = "FromApplication"
      /\ registrar' = Tail(registrar) /\ registry' = None
      /\ app' = [l \in Lives |-> IF l = registry THEN "ended" ELSE app[l]]
      /\ dr = None /\ dr' = dr /\ arrivals' = arrivals
      /\ reading' = reading /\ connections' = connections /\ lives' = lives
      /\ inbox' = inbox /\ reader' = reader /\ writer' = writer
      /\ tableVars' = tableVars /\ handed' = handed
  BY DEF RemoveApplication, netVars
<1>2. /\ registrar \in Seq(RegistrarMessage)
      /\ Cardinality(Waiting(registrar)) \in Nat
      /\ registry \in Lives \cup {None}
      /\ app \in [Lives -> {"none", "running", "draining", "ended", "panicked"}]
  BY RegistrarTyped DEF IInv, Control, TypeOK
<1>3. registrar' \in Seq(RegistrarMessage)
  BY <1>1, <1>2, HeadTailProperties
<1>4. /\ Carries(registrar, "FromApplication")
      /\ AtMostOnce(registrar', "FromApplication") /\ ~Carries(registrar', "FromApplication")
  BY <1>1, <1>2, TailHolds DEF IInv, Control, RemovalTrue
<1>5. registry \in Lives /\ ~Unstopped(registry)
  BY <1>2, <1>4 DEF IInv, Control, RemovalTrue
<1>6. /\ \A l \in Lives : ~Unstopped(l)
      /\ \A l \in Lives : l # registry => app'[l] = app[l]
      /\ \A l \in Lives : ~Unstopped(l)'
  BY <1>1, <1>5 DEF IInv, Control, OneLife, Unstopped
<1>7. Tables' /\ HandlesKept
  BY <1>1, <1>6, LivesChange
<1>8. /\ delivered' = delivered /\ receivers' = receivers /\ senders' = senders
      /\ joins' = joins /\ tasks' = tasks
  BY <1>1 DEF tableVars
<1>9. TypeOK'
  BY <1>1, <1>2, <1>3, <1>8 DEF IInv, Control, TypeOK, RegistrarMessage
<1>10. ConnectionsCounted'
  <2>1. Cardinality(Waiting(registrar)) = Cardinality(Waiting(registrar')) + 0
    BY <1>1, <1>2, WaitingTail
  <2>2. Cardinality(Waiting(registrar')) \in Nat
    BY <1>3, WaitingFinite
  <2> QED
    BY <1>1, <2>1, <2>2 DEF IInv, Control, ConnectionsCounted
\* The life removed is not a fresh one: it has been registered.
<1>11. \A l \in Lives : l > lives => l # registry
  BY <1>5, RegistrarTyped, ApplicationAssumption DEF IInv, Control, RegistryTrue, Lives
<1>12. \A l \in Lives : l > lives' => Fresh(l)'
  BY <1>1, <1>6, <1>8, <1>11 DEF IInv, Control, Fresh
<1>13. OneLife' /\ EndsTrue' /\ RemovalTrue' /\ RegistryTrue'
  BY <1>1, <1>4, <1>6
     DEF IInv, Control, OneLife, EndsTrue, RemovalTrue, RegistryTrue, Unstopped
<1> QED
  BY <1>1, <1>6, <1>7, <1>9, <1>10, <1>12, <1>13 DEF IInv, Control, Unstopped

-----------------------------------------------------------------------------
(* Steps of the DatagramReceiver threads, the readers and the writers *)

LEMMA DispatchDataIInv ==
  ASSUME IInv, NEW id \in Incoming, DispatchData(id)
  PROVE  IInv' /\ HandlesKept
<1>1. /\ registry # None
      /\ arrivals < MAX_ARRIVALS /\ arrivals' = arrivals + 1
      /\ dr' \in Incoming \cup {None}
      /\ UNCHANGED registrarVars /\ tableVars' = tableVars /\ handed' = handed
      /\ app' = app /\ inbox' = inbox /\ reader' = reader /\ writer' = writer
  BY DEF DispatchData, lifeVars
<1>2. /\ delivered' = delivered /\ receivers' = receivers /\ senders' = senders
      /\ joins' = joins /\ tasks' = tasks
      /\ registry' = registry /\ registrar' = registrar /\ reading' = reading
      /\ connections' = connections /\ lives' = lives
  BY <1>1 DEF tableVars, registrarVars
<1>3. Tables' /\ HandlesKept
  BY <1>1, LivesChange
<1>4. TypeOK'
  <2>1. arrivals' \in 0 .. MAX_ARRIVALS
    BY <1>1, ApplicationAssumption DEF IInv, Control, TypeOK
  <2> QED
    BY <1>1, <1>2, <2>1 DEF IInv, Control, TypeOK
<1>5. ConnectionsCounted' /\ OneLife' /\ RemovalTrue' /\ RegistryTrue'
  BY <1>1, RegistrarIdle DEF IInv, Unstopped
<1>6. EndsTrue'
  BY <1>1, EndsKept DEF IInv, Unstopped
<1>7. \A l \in Lives : l > lives' => Fresh(l)'
  BY <1>1, <1>2 DEF IInv, Control, Fresh
<1> QED
  BY <1>3, <1>4, <1>5, <1>6, <1>7 DEF IInv, Control

\* A message is sent to a life: it comes from a DatagramReceiver or from the reader.
LEMMA SentControl ==
  ASSUME IInv, NEW l \in Lives, NEW msg \in Message, msg # Stop, inbox' = Sent(l, msg),
         UNCHANGED registrarVars, tableVars' = tableVars, handed' = handed,
         app' = app, reader' = reader, writer' = writer, arrivals' = arrivals,
         dr' \in {dr, None}
  PROVE  Control'
<1>1. /\ delivered' = delivered /\ receivers' = receivers /\ senders' = senders
      /\ joins' = joins /\ tasks' = tasks
      /\ registry' = registry /\ registrar' = registrar /\ reading' = reading
      /\ connections' = connections /\ lives' = lives
  BY DEF tableVars, registrarVars
<1>2. /\ inbox' \in [Lives -> Seq(Message)]
      /\ \A k \in Lives : k # l \/ app[l] # "running" => inbox'[k] = inbox[k]
      /\ app[l] = "running" =>
           /\ \A m : Carries(inbox'[l], m) <=> Carries(inbox[l], m) \/ m = msg
           /\ \A m : AtMostOnce(inbox[l], m) /\ (m = msg => ~Carries(inbox[l], m)) =>
                AtMostOnce(inbox'[l], m)
  BY SentHolds DEF IInv, Control
<1>3. TypeOK'
  BY <1>1, <1>2 DEF IInv, Control, TypeOK
<1>4. ConnectionsCounted' /\ OneLife' /\ RemovalTrue' /\ RegistryTrue'
  BY RegistrarIdle DEF IInv, Control, RegistryTrue, Unstopped
<1>5. EndsTrue'
  BY <1>2, EndsKept DEF IInv, Unstopped
<1>6. \A k \in Lives : k > lives' => Fresh(k)'
  <2> SUFFICES ASSUME NEW k \in Lives, Fresh(k)
               PROVE  Fresh(k)'
    BY <1>1 DEF IInv, Control
  <2>1. inbox'[k] = inbox[k]
    BY <1>2 DEF Fresh
  <2> QED
    BY <1>1, <2>1 DEF Fresh
<1> QED
  BY <1>3, <1>4, <1>5, <1>6 DEF Control

LEMMA ForwardDataIInv ==
  ASSUME IInv, ForwardData
  PROVE  IInv' /\ HandlesKept
<1> DEFINE msg == [kind |-> "FromDatagramReceiver", id |-> dr]
<1>1. /\ dr # None /\ dr' = None
      /\ inbox' = Sent(registry, msg)
      /\ UNCHANGED registrarVars /\ tableVars' = tableVars /\ handed' = handed
      /\ app' = app /\ reader' = reader /\ writer' = writer /\ arrivals' = arrivals
  BY DEF ForwardData
<1>2. registry \in Lives /\ dr \in Incoming
  BY <1>1 DEF IInv, Control, TypeOK, RegistryTrue
<1>3. msg \in Message
  BY <1>2 DEF Message
<1>4. /\ msg # Stop
      /\ \A id : msg # Report(id) /\ msg # Submission(id)
  BY MessageKinds
<1> HIDE DEF msg
<1>5. Control'
  BY <1>1, <1>2, <1>3, <1>4, SentControl
<1>6. Tables' /\ HandlesKept
  BY <1>1, <1>2, <1>3, <1>4, MessageArrives
<1> QED
  BY <1>5, <1>6 DEF IInv

LEMMA SubmitIInv ==
  ASSUME IInv, NEW l \in Lives, NEW id \in Outgoing, Submit(l, id)
  PROVE  IInv' /\ HandlesKept
<1>1. /\ inbox' = Sent(l, Submission(id))
      /\ \A t \in DOMAIN tasks : tasks[t].id # id
      /\ \A k \in Lives : ~Carries(inbox[k], Submission(id))
      /\ UNCHANGED registrarVars /\ tableVars' = tableVars /\ handed' = handed
      /\ app' = app /\ reader' = reader /\ writer' = writer
      /\ arrivals' = arrivals /\ dr' = dr
  BY DEF Submit, Submission, Carries, netVars
<1>2. Submission(id) \in Message
  BY DEF Message, Submission
<1>3. Control'
  BY <1>1, <1>2, MessageKinds, SentControl
<1>4. \A x \in Outgoing : Submission(id) = Submission(x) => x = id
  BY MessageKinds
<1>5. Tables' /\ HandlesKept
  BY <1>1, <1>2, <1>4, MessageKinds, MessageArrives
<1> QED
  BY <1>3, <1>5 DEF IInv

LEMMA StopReadingIInv ==
  ASSUME IInv, NEW l \in Lives, StopReading(l)
  PROVE  IInv' /\ HandlesKept
<1>1. /\ reader[l] = "reading" /\ reader' = [reader EXCEPT ![l] = "stopped"]
      /\ inbox' = Sent(l, Stop)
      /\ UNCHANGED registrarVars /\ tableVars' = tableVars /\ handed' = handed
      /\ app' = app /\ writer' = writer /\ arrivals' = arrivals /\ dr' = dr
  BY DEF StopReading, Stop, netVars
<1>2. /\ delivered' = delivered /\ receivers' = receivers /\ senders' = senders
      /\ joins' = joins /\ tasks' = tasks
      /\ registry' = registry /\ registrar' = registrar /\ reading' = reading
      /\ connections' = connections /\ lives' = lives
      /\ reader \in [Lives -> {"none", "reading", "stopped"}]
  BY <1>1 DEF tableVars, registrarVars, IInv, Control, TypeOK
<1>3. Stop \in Message
  BY DEF Message, Stop
<1>4. /\ inbox' \in [Lives -> Seq(Message)]
      /\ \A k \in Lives : k # l \/ app[l] # "running" => inbox'[k] = inbox[k]
      /\ app[l] = "running" =>
           /\ \A m : Carries(inbox'[l], m) <=> Carries(inbox[l], m) \/ m = Stop
           /\ \A m : AtMostOnce(inbox[l], m) /\ (m = Stop => ~Carries(inbox[l], m)) =>
                AtMostOnce(inbox'[l], m)
  BY <1>1, <1>3, SentHolds DEF IInv, Control
<1>5. Unstopped(l) /\ ~Carries(inbox[l], Stop)
  BY <1>1 DEF IInv, Control, EndsTrue
<1>6. TypeOK'
  BY <1>1, <1>2, <1>4 DEF IInv, Control, TypeOK
<1>7. ConnectionsCounted' /\ OneLife' /\ RemovalTrue' /\ RegistryTrue'
  BY <1>1, RegistrarIdle DEF IInv, Control, RegistryTrue, Unstopped
<1>8. /\ reader'[l] = "stopped"
      /\ \A k \in Lives \ {l} : reader'[k] = reader[k] /\ inbox'[k] = inbox[k]
  BY <1>1, <1>2, <1>4
<1>9. EndsTrue'
  BY <1>1, <1>4, <1>5, <1>8 DEF IInv, Control, EndsTrue, Unstopped
<1>10. \A k \in Lives : k > lives' => Fresh(k)'
  <2> SUFFICES ASSUME NEW k \in Lives, Fresh(k)
               PROVE  Fresh(k)'
    BY <1>2 DEF IInv, Control
  <2>1. k # l
    BY <1>5 DEF Fresh, Unstopped
  <2> QED
    BY <1>1, <1>2, <1>8, <2>1 DEF Fresh
<1>11. Tables' /\ HandlesKept
  BY <1>1, <1>3, MessageKinds, MessageArrives
<1> QED
  BY <1>6, <1>7, <1>9, <1>10, <1>11 DEF IInv, Control

LEMMA StopWritingIInv ==
  ASSUME IInv, NEW l \in Lives, StopWriting(l)
  PROVE  IInv' /\ HandlesKept
<1>1. /\ writer[l] /\ writer' = [writer EXCEPT ![l] = FALSE]
      /\ UNCHANGED registrarVars /\ tableVars' = tableVars /\ handed' = handed
      /\ app' = app /\ inbox' = inbox /\ reader' = reader /\ arrivals' = arrivals /\ dr' = dr
  BY DEF StopWriting, netVars
<1>2. /\ delivered' = delivered /\ receivers' = receivers /\ senders' = senders
      /\ joins' = joins /\ tasks' = tasks
      /\ registry' = registry /\ registrar' = registrar /\ reading' = reading
      /\ connections' = connections /\ lives' = lives
      /\ writer \in [Lives -> BOOLEAN]
  BY <1>1 DEF tableVars, registrarVars, IInv, Control, TypeOK
<1>3. writer' \in [Lives -> BOOLEAN] /\ \A k \in Lives : writer'[k] => writer[k]
  BY <1>1, <1>2
<1>4. TypeOK'
  BY <1>1, <1>2, <1>3 DEF IInv, Control, TypeOK
<1>5. ConnectionsCounted' /\ OneLife' /\ RemovalTrue' /\ RegistryTrue'
  BY <1>1, RegistrarIdle DEF IInv, Control, RegistryTrue, Unstopped
<1>6. EndsTrue'
  BY <1>1, <1>3, EndsKept DEF IInv, Unstopped
<1>7. \A k \in Lives : k > lives' => Fresh(k)'
  BY <1>1, <1>2, <1>3 DEF IInv, Control, Fresh
<1>8. Tables' /\ HandlesKept
  BY <1>1, LivesChange
<1> QED
  BY <1>4, <1>5, <1>6, <1>7, <1>8 DEF IInv, Control

LEMMA EndApplicationIInv ==
  ASSUME IInv, NEW l \in Lives, EndApplication(l)
  PROVE  IInv' /\ HandlesKept
<1>1. /\ app[l] = "draining" /\ app' = [app EXCEPT ![l] = "ended"]
      /\ UNCHANGED registrarVars /\ tableVars' = tableVars /\ handed' = handed
      /\ writer' = writer /\ inbox' = inbox /\ reader' = reader
      /\ arrivals' = arrivals /\ dr' = dr
  BY DEF EndApplication, netVars
<1>2. /\ delivered' = delivered /\ receivers' = receivers /\ senders' = senders
      /\ joins' = joins /\ tasks' = tasks
      /\ registry' = registry /\ registrar' = registrar /\ reading' = reading
      /\ connections' = connections /\ lives' = lives
      /\ app \in [Lives -> {"none", "running", "draining", "ended", "panicked"}]
  BY <1>1 DEF tableVars, registrarVars, IInv, Control, TypeOK
<1>3. /\ app' \in [Lives -> {"none", "running", "draining", "ended", "panicked"}]
      /\ \A k \in Lives : Unstopped(k)' <=> Unstopped(k)
      /\ \A k \in Lives : Unstopped(k)' => app'[k] = app[k]
      /\ \A k \in Lives : app[k] = "running" => app'[k] = "running"
      /\ \A k \in Lives \ {l} : app'[k] = app[k]
  BY <1>1, <1>2 DEF Unstopped
<1>4. TypeOK'
  BY <1>1, <1>2, <1>3 DEF IInv, Control, TypeOK
<1>5. ConnectionsCounted' /\ OneLife' /\ RemovalTrue' /\ RegistryTrue'
  BY <1>1, <1>3, RegistrarIdle DEF IInv, Control, RegistryTrue
<1>6. EndsTrue'
  BY <1>1, <1>3, EndsKept DEF IInv
<1>7. \A k \in Lives : k > lives' => Fresh(k)'
  BY <1>1, <1>2, <1>3 DEF IInv, Control, Fresh
<1>8. Tables' /\ HandlesKept
  BY <1>1, <1>3, LivesChange
<1> QED
  BY <1>4, <1>5, <1>6, <1>7, <1>8 DEF IInv, Control

\* A panic ends the Application task alone: its tables and tasks stay, and what was
\* in its channel is gone.
LEMMA PanicOnDataIInv ==
  ASSUME IInv, NEW l \in Lives, PanicOnData(l)
  PROVE  IInv' /\ HandlesKept
<1>1. /\ app[l] \in {"running", "draining"} /\ inbox[l] # <<>>
      /\ inbox' = [inbox EXCEPT ![l] = <<>>]
      /\ app' = [app EXCEPT ![l] = IF app[l] = "running" THEN "panicked" ELSE "ended"]
      /\ UNCHANGED registrarVars /\ tableVars' = tableVars /\ handed' = handed
      /\ writer' = writer /\ reader' = reader /\ arrivals' = arrivals /\ dr' = dr
  BY DEF PanicOnData, netVars
<1>2. /\ delivered' = delivered /\ receivers' = receivers /\ senders' = senders
      /\ joins' = joins /\ tasks' = tasks
      /\ registry' = registry /\ registrar' = registrar /\ reading' = reading
      /\ connections' = connections /\ lives' = lives
      /\ app \in [Lives -> {"none", "running", "draining", "ended", "panicked"}]
      /\ inbox \in [Lives -> Seq(Message)] /\ <<>> \in Seq(Message)
  BY <1>1 DEF tableVars, registrarVars, IInv, Control, TypeOK
<1>3. /\ app' \in [Lives -> {"none", "running", "draining", "ended", "panicked"}]
      /\ app'[l] # "running"
      /\ \A k \in Lives : Unstopped(k)' <=> Unstopped(k)
      /\ \A k \in Lives \ {l} : app'[k] = app[k]
  BY <1>1, <1>2 DEF Unstopped
<1>4. /\ inbox' \in [Lives -> Seq(Message)]
      /\ \A k \in Lives \ {l} : inbox'[k] = inbox[k]
      /\ \A m : ~Carries(inbox'[l], m) /\ AtMostOnce(inbox'[l], m)
  BY <1>1, <1>2 DEF Carries, AtMostOnce
<1>5. \A k \in Lives : \A m : /\ Carries(inbox'[k], m) => k # l /\ Carries(inbox[k], m)
                              /\ AtMostOnce(inbox[k], m) => AtMostOnce(inbox'[k], m)
  BY <1>4
<1>6. TypeOK'
  BY <1>1, <1>2, <1>3, <1>4 DEF IInv, Control, TypeOK
<1>7. ConnectionsCounted' /\ OneLife' /\ RemovalTrue' /\ RegistryTrue'
  BY <1>1, <1>3, RegistrarIdle DEF IInv, Control, RegistryTrue
<1>8. EndsTrue'
  BY <1>1, <1>3, <1>5, EndsKept DEF IInv
<1>9. \A k \in Lives : k > lives' => Fresh(k)'
  BY <1>1, <1>2, <1>3, <1>4 DEF IInv, Control, Fresh
<1>10. \A k \in Lives : app'[k] = "running" => k # l /\ app[k] = "running"
  BY <1>3
<1>11. JoinsTrue' /\ HandedOnce' /\ IdsDrawn'
  BY <1>1, <1>2, <1>5 DEF IInv, Tables, JoinsTrue, HandedOnce, IdsDrawn, Of
<1>12. MessagesKnown'
  <2>1. \A t \in DOMAIN tasks : tasks[t].life \in Lives
    <3>1. \A t \in DOMAIN tasks : tasks[t] \in Task
      BY DEF IInv, Control, TypeOK
    <3> QED
      BY <3>1 DEF Task
  <2> QED
    BY <1>2, <1>10, <2>1 DEF IInv, Tables, MessagesKnown
<1>13. OneReceiver'
  BY <1>2, <1>3 DEF IInv, Tables, OneReceiver
<1>14. HandlesKept
  BY <1>2, <1>4, <1>10 DEF IInv, Tables, HandlesTrue, HandlesKept
<1>15. ReportsTrue'
  BY <1>2, <1>5, <1>10 DEF IInv, Tables, ReportsTrue, Of
<1>16. HandedTrue'
  BY <1>1, <1>2, <1>3 DEF IInv, Tables, HandedTrue, Of
<1> QED
  BY <1>6, <1>7, <1>8, <1>9, <1>11, <1>12, <1>13, <1>14, <1>15, <1>16
     DEF IInv, Control, Tables

-----------------------------------------------------------------------------
(* The invariant is inductive *)

LEMMA InitIInv ==
  ASSUME Init
  PROVE  IInv
<1> USE DEF Init
<1>1. /\ <<>> \in Seq(RegistrarMessage) /\ <<>> \in Seq(Message) /\ <<>> \in Seq(Task)
      /\ Len(<<>>) = 0 /\ DOMAIN tasks = {}
  OBVIOUS
<1>2. Waiting(registrar) = {} /\ Cardinality(Waiting(registrar)) = 0
  BY <1>1, FS_EmptySet DEF Waiting
<1>3. TypeOK
  <2>1. /\ connections \in 0 .. MAX_CONNECTIONS /\ lives \in 0 .. connections
        /\ arrivals \in 0 .. MAX_ARRIVALS
    BY ApplicationAssumption
  <2>2. /\ registry \in Lives \cup {None} /\ dr \in Incoming \cup {None} /\ reading \in BOOLEAN
        /\ registrar \in Seq({"FromApplicationListener", "FromApplication"})
        /\ tasks \in Seq(Task)
    BY <1>1 DEF RegistrarMessage
  <2>3. /\ app \in [Lives -> {"none", "running", "draining", "ended", "panicked"}]
        /\ inbox \in [Lives -> Seq(Message)]
        /\ reader \in [Lives -> {"none", "reading", "stopped"}]
        /\ writer \in [Lives -> BOOLEAN]
    BY <1>1
  <2>4. /\ delivered \in [Lives -> SUBSET Incoming]
        /\ receivers \in [Lives -> SUBSET Incoming]
        /\ senders \in [Lives -> SUBSET Outgoing]
    OBVIOUS
  <2>5. joins \in [Lives -> [Incoming \cup Outgoing -> DOMAIN tasks \cup {None}]]
    OBVIOUS
  <2>6. handed \in [Lives -> [Incoming -> Nat]]
    OBVIOUS
  <2> QED
    BY <2>1, <2>2, <2>3, <2>4, <2>5, <2>6 DEF TypeOK
<1>4. \A m : ~Carries(<<>>, m) /\ AtMostOnce(<<>>, m)
  BY <1>1 DEF Carries, AtMostOnce
<1>5. ConnectionsCounted /\ OneLife /\ EndsTrue /\ RemovalTrue /\ RegistryTrue
  BY <1>2, <1>4
     DEF ConnectionsCounted, OneLife, EndsTrue, RemovalTrue, RegistryTrue, Unstopped
<1>6. \A l \in Lives : Fresh(l)
  BY <1>1 DEF Fresh
<1>7. Tables
  BY <1>1, <1>4 DEF Tables, JoinsTrue, MessagesKnown, IdsDrawn, OneReceiver, ReportsTrue,
                    HandedTrue, HandedOnce, Unstopped
<1> QED
  BY <1>3, <1>5, <1>6, <1>7 DEF IInv, Control

LEMMA StutterIInv ==
  ASSUME IInv, UNCHANGED vars
  PROVE  IInv' /\ HandlesKept
<1>1. /\ registrarVars' = registrarVars /\ lifeVars' = lifeVars /\ tableVars' = tableVars
      /\ netVars' = netVars /\ handed' = handed
  BY DEF vars
<1>2. /\ registry' = registry /\ registrar' = registrar /\ reading' = reading
      /\ connections' = connections /\ lives' = lives
  BY <1>1 DEF registrarVars
<1>3. /\ registrar \in Seq(RegistrarMessage) /\ reading \in BOOLEAN
      /\ connections \in 0 .. MAX_CONNECTIONS /\ connections <= connections
  BY RegistrarTyped DEF IInv, Control, TypeOK
<1>4. ConnectionsCounted'
  BY <1>2 DEF IInv, Control, ConnectionsCounted
<1> QED
  BY <1>1, <1>2, <1>3, <1>4, RegistrarMoves

LEMMA NextIInv ==
  ASSUME IInv, [Next]_vars
  PROVE  IInv' /\ HandlesKept
<1>1. ASSUME RegistrarStep PROVE IInv' /\ HandlesKept
  <2>1. CASE RefuseRegistration
    BY <2>1, NotCreatedIInv DEF RefuseRegistration
  <2> QED
    BY <1>1, <2>1, ReadRegistrationIInv, CreateApplicationIInv, RemoveApplicationIInv
       DEF RegistrarStep
<1>2. ASSUME NEW l \in Lives,
             \/ LifeStep(l)
             \/ StopReading(l)
             \/ StopWriting(l)
             \/ \E id \in Outgoing : Submit(l, id)
      PROVE  IInv' /\ HandlesKept
  <2>1. CASE HandleMessage(l)
    BY <2>1, HandlerControl, HandlerTables DEF IInv
  <2> QED
    BY <1>2, <2>1, PanicOnDataIInv, EndApplicationIInv, StopReadingIInv, StopWritingIInv, SubmitIInv
       DEF LifeStep
<1>3. ASSUME NEW t \in DOMAIN tasks, TaskStep(t)
      PROVE  IInv' /\ HandlesKept
  BY <1>3, TaskControl, TaskTables DEF IInv
<1> QED
  BY <1>1, <1>2, <1>3, ConnectIInv, ForwardDataIInv, DispatchDataIInv, StutterIInv DEF Next

-----------------------------------------------------------------------------
(* Theorems *)

\* The invariant holds of every behaviour.
THEOREM Invariance == Spec => []IInv
<1>1. Init => IInv
  BY InitIInv
<1>2. IInv /\ [Next]_vars => IInv'
  BY NextIInv
<1> QED
  BY <1>1, <1>2, PTL DEF Spec

\* Every variable stays in its type: the registrar makes no more lives than
\* connections were accepted.
THEOREM TypeCorrect == Spec => []TypeOK
<1>1. IInv => TypeOK
  BY DEF IInv, Control
<1> QED
  BY <1>1, Invariance, PTL

\* create_application, which looks the id up under the lock, makes the only life
\* that takes messages.
THEOREM OneLifeAtATime == Spec => []OneLife
<1>1. IInv => OneLife
  BY DEF IInv, Control
<1> QED
  BY <1>1, Invariance, PTL

\* However its datagrams come in, handle_data_datagram makes one receiver for a
\* message.
THEOREM OneReceiverEver == Spec => []OneReceiver
<1>1. IInv => OneReceiver
  BY DEF IInv, Tables
<1> QED
  BY <1>1, Invariance, PTL

\* An application is given a message at most once per life.
THEOREM HandedAtMostOnce == Spec => []HandedOnce
<1>1. IInv => HandedOnce
  BY DEF IInv, Tables
<1> QED
  BY <1>1, Invariance, PTL

\* Every handle in the tables leads to a task that still runs, or its removal is on
\* the way.
THEOREM HandlesLive == Spec => []NoDeadHandle
<1>1. Init => HandlesTrue
  BY DEF Init, HandlesTrue
<1>2. IInv /\ HandlesTrue /\ [Next]_vars => HandlesTrue'
  BY NextIInv DEF HandlesKept
<1>3. ASSUME HandlesTrue PROVE NoDeadHandle
  <2> SUFFICES ASSUME NEW l \in Lives, app[l] = "running",
                      NEW id \in receivers[l] \cup senders[l]
               PROVE  \/ tasks[joins[l][id]].state \in {"running", "announcing"}
                      \/ \E i \in 1 .. Len(inbox[l]) :
                           inbox[l][i] \in {[kind |-> "FromMessageReceiver", id |-> id],
                                            [kind |-> "FromMessageSender", id |-> id]}
    BY DEF NoDeadHandle
  <2>1. \/ tasks[joins[l][id]].state \in {"running", "announcing"}
        \/ Carries(inbox[l], Report(id))
    BY <1>3 DEF HandlesTrue
  <2>2. Report(id) \in {[kind |-> "FromMessageReceiver", id |-> id],
                        [kind |-> "FromMessageSender", id |-> id]}
    BY DEF Report
  <2> QED
    BY <2>1, <2>2 DEF Carries
<1> QED
  BY <1>1, <1>2, <1>3, Invariance, PTL DEF Spec

\* What a step does to the tasks of a life that is not shutting down.
LEMMA AbortStep ==
  ASSUME IInv, [Next]_vars, NEW t \in DOMAIN tasks,
         app[tasks[t].life] = "running", tasks'[t].state = "aborted"
  PROVE  tasks[t].state \in {"ending", "aborted"}
<1>1. tasks \in Seq(Task) /\ t \in 1 .. Len(tasks) /\ Len(tasks) \in Nat
  BY LenProperties DEF IInv, Control, TypeOK
<1>2. CASE tasks' = tasks
  BY <1>2
<1>3. ASSUME NEW l \in Lives, HandleMessage(l), tasks' # tasks
      PROVE  tasks[t].state \in {"ending", "aborted"}
  <2> DEFINE msg == Head(inbox[l])
  <2>1. Takes(l)
    BY <1>3 DEF HandleMessage, Takes
  <2>2. msg \in Message /\ Carries(inbox[l], msg)
    BY <2>1, TakenHolds DEF IInv, Control
  <2>3. /\ msg.kind \in {"FromDatagramReceiver", "FromMessageReceiver"} => msg.id \in Incoming
        /\ msg.kind \in {"FromApplicationReader", "FromMessageSender"} =>
             msg.id \in Outgoing /\ msg.id \notin Incoming
    BY <2>2, ApplicationAssumption DEF Message
  <2>4. \/ tasks' = Spawned(l, msg.id)
        \/ /\ msg.kind \in {"FromMessageReceiver", "FromMessageSender"}
           /\ tasks' = Aborted(l, msg.id)
    BY <1>3 DEF HandleMessage, HandleData, HandleSubmit, HandleFromReceiver, HandleFromSender,
                HandleShutdown
  <2>5. CASE tasks' = Spawned(l, msg.id)
    <3>1. tasks'[t] = tasks[t]
      BY <1>1, <2>5 DEF Spawned
    <3> QED
      BY <3>1
  <2>6. CASE /\ msg.kind \in {"FromMessageReceiver", "FromMessageSender"}
             /\ tasks' = Aborted(l, msg.id)
    <3>1. msg = Report(msg.id) /\ msg.id \in Incoming \cup Outgoing
      BY <2>2, <2>3, <2>6 DEF Message, Report
    <3> HIDE DEF msg
    <3>2. \/ tasks'[t] = tasks[t]
          \/ Of(t, l, msg.id) /\ tasks[t].state # "done"
      BY <2>6, <3>1, AbortedTask
    <3>3. CASE Of(t, l, msg.id) /\ tasks[t].state # "done"
      <4>1. app[l] = "running" /\ Carries(inbox[l], Report(msg.id))
        BY <2>2, <3>1, <3>3 DEF Of
      <4>2. PICK u \in DOMAIN tasks :
              Of(u, l, msg.id) /\ tasks[u].state \in {"ending", "done", "aborted"}
        BY <3>1, <4>1 DEF IInv, Tables, ReportsTrue
      <4>3. u = t
        BY <3>3, <4>1, <4>2 DEF IInv, Tables, OneReceiver, Of, Unstopped
      <4> QED
        BY <3>3, <4>2, <4>3
    <3> QED
      BY <3>2, <3>3
  <2> QED
    BY <2>4, <2>5, <2>6
<1>4. ASSUME NEW u \in DOMAIN tasks, TaskStep(u)
      PROVE  tasks[t].state \in {"ending", "aborted"}
  <2>1. PICK state \in {"announcing", "ending", "done"} :
          tasks' = [tasks EXCEPT ![u].state = state]
    BY <1>4 DEF TaskStep, HandOver, Exit, Announce, End, Become
  <2>2. tasks'[u].state = state /\ \A v \in DOMAIN tasks \ {u} : tasks'[v] = tasks[v]
    BY <1>1, <2>1, StateChanges
  <2> QED
    BY <2>1, <2>2
<1>5. \/ tasks' = tasks
      \/ \E l \in Lives : HandleMessage(l)
      \/ \E u \in DOMAIN tasks : TaskStep(u)
  BY DEF Next, Connect, RegistrarStep, ReadRegistration, CreateApplication,
         RefuseRegistration, RemoveApplication, ForwardData, DispatchData, LifeStep,
         PanicOnData, EndApplication, StopReading, StopWriting, Submit, tableVars, vars
<1> QED
  BY <1>2, <1>3, <1>4, <1>5

\* handle_from_message_receiver and handle_from_message_sender abort only a task that
\* has announced its end, so an abort never costs a message.
THEOREM AbortsAreLate == Spec => AbortAfterAnnounce
<1>1. IInv /\ [Next]_vars =>
        [\A t \in DOMAIN tasks :
           app[tasks[t].life] = "running" /\ tasks'[t].state = "aborted"
             => tasks[t].state \in {"ending", "aborted"}]_vars
  BY AbortStep
<1> QED
  BY <1>1, Invariance, PTL DEF Spec, AbortAfterAnnounce

LEMMA EndStep ==
  ASSUME IInv, [Next]_vars, NEW l \in Lives, app[l] = "running"
  PROVE  app'[l] # "ended"
<1>1. app \in [Lives -> {"none", "running", "draining", "ended", "panicked"}]
  BY DEF IInv, Control, TypeOK
<1>2. CASE app' = app
  BY <1>2
<1>3. CASE CreateApplication
  <2>1. app' = app \/ app' = [app EXCEPT ![lives'] = "running"]
    BY <1>3 DEF CreateApplication
  <2> QED
    BY <1>1, <2>1
<1>4. CASE RemoveApplication
  BY <1>4, RemoveApplicationIInv
<1>5. ASSUME NEW k \in Lives, HandleMessage(k)
      PROVE  app'[l] # "ended"
  <2>1. app' = app \/ app' = [app EXCEPT ![k] = "draining"]
    BY <1>5 DEF HandleMessage, HandleData, HandleSubmit, HandleFromReceiver, HandleFromSender,
                HandleShutdown
  <2> QED
    BY <1>1, <2>1
<1>6. ASSUME NEW k \in Lives, EndApplication(k)
      PROVE  app'[l] # "ended"
  BY <1>1, <1>6 DEF EndApplication
<1>7. ASSUME NEW k \in Lives, PanicOnData(k)
      PROVE  app'[l] # "ended"
  BY <1>1, <1>7 DEF PanicOnData
<1>8. \/ app' = app
      \/ CreateApplication \/ RemoveApplication
      \/ \E k \in Lives : HandleMessage(k) \/ EndApplication(k) \/ PanicOnData(k)
  BY DEF Next, Connect, RegistrarStep, ReadRegistration, RefuseRegistration, ForwardData,
         DispatchData, LifeStep, StopReading, StopWriting, Submit, TaskStep, HandOver, Exit,
         Announce, End, lifeVars, vars
<1> QED
  BY <1>2, <1>3, <1>4, <1>5, <1>6, <1>7, <1>8

\* The abort in handle_from_application never hits a life that has not shut down.
THEOREM SuccessorSpared == Spec => AbortedAfterShutdown
<1>1. IInv /\ [Next]_vars => [\A l \in Lives : app[l] = "running" => app'[l] # "ended"]_vars
  BY EndStep
<1> QED
  BY <1>1, Invariance, PTL DEF Spec, AbortedAfterShutdown

=============================================================================
