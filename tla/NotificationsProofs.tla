------------------------ MODULE NotificationsProofs ------------------------
(***************************************************************************)
(* Theorems of Notifications, for any events, any number of executions of  *)
(* the handler and of messages in handling, and any number of failures.    *)
(***************************************************************************)
EXTENDS Notifications, FiniteSetTheorems, TLAPS

Holds(a, e) == attempt[a].held /\ attempt[a].event = {e}

(* At most one execution holds an event, and only while nobody else may    *)
(* take it: the tasks that a failed execution leaves behind hold nothing.  *)
HeldInv ==
    /\ \A a \in Attempt, e \in Event : Holds(a, e) => event[e] = "held"
    /\ \A a, b \in Attempt, e \in Event : Holds(a, e) /\ Holds(b, e) => a = b

(* The messages of a role were handed to the broker, or lost on the way.   *)
HandedOver(e, role) == \A m \in MessagesFor(e, role) : published[m] > 0 \/ m \in missed

(* A role has its in-app notification, and its messages are on their way.  *)
Notified(e, role) == notices[e][role] > 0 /\ HandedOver(e, role)

(* How far the execution that holds an event has come with each role.      *)
GetsOn(a, e, role) ==
    \/ Runs(a, e, role, "persist")
    \/ Runs(a, e, role, "publish") /\ notices[e][role] > 0
    \/ Notified(e, role)

ProgressInv ==
    \A a \in Attempt, e \in Event :
       Holds(a, e) => \A role \in Recipients(TypeOf[e]) : GetsOn(a, e, role)

(* The executions that are at this statement of notify() for the role.     *)
Doing(e, role, at) == {a \in Attempt : Runs(a, e, role, at)}

(* Every notice to come has its delivery, and every message to come its    *)
(* notice.                                                                 *)
Counted(e, role) ==
    /\ notices[e][role] + Cardinality(Doing(e, role, "persist")) <= deliveries[e]
    /\ \A m \in MessagesFor(e, role) :
          published[m] + Cardinality(Doing(e, role, "publish")) <= notices[e][role]

CountInv == \A e \in Event, role \in Role : Counted(e, role)

(* A message that was handed over is queued, in handling, or gone.         *)
WhereaboutsInv ==
    /\ \A m \in Message :
          published[m] > 0 => queue[m] > 0 \/ InHandling(m) \/ m \in sent \cup crossed
    /\ \A w \in Worker, m \in Message : Handles(w, m, "sent") => m \in sent

IInv ==
    /\ TypeOK /\ HeldInv /\ ProgressInv /\ AcknowledgedMeansNotified /\ CountInv
    /\ WhereaboutsInv

TaskState == {"none", "persist", "publish"}
AttemptRecord == [event : SUBSET Event, held : BOOLEAN, task : [Role -> TaskState]]
WorkRecord == [message : SUBSET Message, as : {"none", "email", "push"},
               at : {"free", "taken", "sent"}]

-----------------------------------------------------------------------------
(* Types.                                                                  *)

(* Messages name an event and a role it is news for.                       *)
LEMMA MessageShape ==
    /\ \A type : Recipients(type) \subseteq Role
    /\ \A m \in Message : m.event \in Event /\ m.role \in Role /\ m \in MessagesFor(m.event, m.role)
    /\ \A e, role : \A m \in MessagesFor(e, role) : m \in Message /\ m.event = e /\ m.role = role
  <1>1. \A type : Recipients(type) \subseteq Role
    BY DEF Recipients, Role
  <1>2. \A m \in Message : m.event \in Event /\ m.role \in Role
    BY DEF Message
  <1>3. QED BY <1>1, <1>2 DEF MessagesFor

LEMMA RestingTypes == Idle \in AttemptRecord /\ Free \in WorkRecord
  <1>1. NoTasks \in [Role -> TaskState]
    BY DEF NoTasks, TaskState
  <1>2. QED BY <1>1 DEF Idle, Free, AttemptRecord, WorkRecord

LEMMA InitIInv == Init => IInv
  <1> SUFFICES ASSUME Init PROVE IInv
    OBVIOUS
  <1>1. TypeOK
    BY RestingTypes, NotificationConstants
       DEF Init, TypeOK, AttemptRecord, WorkRecord, TaskState
  <1>2. HeldInv /\ ProgressInv /\ AcknowledgedMeansNotified
    BY DEF Init, HeldInv, ProgressInv, AcknowledgedMeansNotified, Holds, Idle
  <1>3. CountInv
    <2> SUFFICES ASSUME NEW e \in Event, NEW role \in Role PROVE Counted(e, role)
      BY DEF CountInv
    <2>1. Doing(e, role, "persist") = {} /\ Doing(e, role, "publish") = {}
      BY DEF Doing, Runs, Init, Idle
    <2>2. Cardinality({}) = 0
      BY FS_EmptySet
    <2>3. \A m \in MessagesFor(e, role) : published[m] = 0
      BY MessageShape DEF Init
    <2>4. notices[e][role] = 0 /\ deliveries[e] = 0
      BY DEF Init
    <2>5. QED BY <2>1, <2>2, <2>3, <2>4 DEF Counted
  <1>4. WhereaboutsInv
    BY DEF Init, WhereaboutsInv, Handles, Free
  <1>5. QED BY <1>1, <1>2, <1>3, <1>4 DEF IInv

-----------------------------------------------------------------------------
(* Counting executions.                                                    *)

(* One execution moves: whoever was at the statement still is, but for it. *)
LEMMA DoingChanges ==
    ASSUME NEW a \in Attempt, \A b \in Attempt \ {a} : attempt'[b] = attempt[b],
           NEW e \in Event, NEW role \in Role, NEW at
    PROVE  /\ Cardinality(Doing(e, role, at)) \in Nat
           /\ Cardinality(Doing(e, role, at)') \in Nat
           /\ Runs(a, e, role, at)' =>
                 Cardinality(Doing(e, role, at)') <= Cardinality(Doing(e, role, at)) + 1
           /\ ~Runs(a, e, role, at)' =>
                 Cardinality(Doing(e, role, at)') <= Cardinality(Doing(e, role, at))
           /\ Runs(a, e, role, at) /\ Runs(a, e, role, at)' =>
                 Cardinality(Doing(e, role, at)') = Cardinality(Doing(e, role, at))
           /\ Runs(a, e, role, at) /\ ~Runs(a, e, role, at)' =>
                 Cardinality(Doing(e, role, at)') + 1 = Cardinality(Doing(e, role, at))
  <1> DEFINE A == Doing(e, role, at)
             B == Doing(e, role, at)'
  <1>1. /\ A \subseteq Attempt /\ B \subseteq Attempt /\ A \ {a} = B \ {a}
        /\ a \in A <=> Runs(a, e, role, at)
        /\ a \in B <=> Runs(a, e, role, at)'
    BY DEF Doing, Runs
  <1> HIDE DEF A, B
  <1>2. IsFiniteSet(A) /\ IsFiniteSet(B) /\ IsFiniteSet(A \ {a})
    <2>1. A \ {a} \subseteq Attempt
      BY <1>1
    <2>2. QED BY <1>1, <2>1, NotificationConstants, FS_Subset
  <1>3. /\ Cardinality(A) \in Nat /\ Cardinality(B) \in Nat /\ Cardinality(A \ {a}) \in Nat
    BY <1>2, FS_CardinalityType
  <1>4. \A S : IsFiniteSet(S) /\ a \in S => Cardinality(S \ {a}) = Cardinality(S) - 1
    BY FS_RemoveElement
  <1>5. /\ a \in A => Cardinality(A \ {a}) = Cardinality(A) - 1
        /\ a \in B => Cardinality(A \ {a}) = Cardinality(B) - 1
        /\ a \notin A => Cardinality(A \ {a}) = Cardinality(A)
        /\ a \notin B => Cardinality(A \ {a}) = Cardinality(B)
    <2>1. (a \notin A => A \ {a} = A) /\ (a \notin B => A \ {a} = B)
      BY <1>1
    <2>2. QED BY <1>1, <1>2, <1>4, <2>1
  <1>6. /\ a \in B => Cardinality(B) <= Cardinality(A) + 1
        /\ a \notin B => Cardinality(B) <= Cardinality(A)
        /\ a \in A /\ a \in B => Cardinality(B) = Cardinality(A)
        /\ a \in A /\ a \notin B => Cardinality(B) + 1 = Cardinality(A)
    <2> DEFINE k == Cardinality(A)
               l == Cardinality(B)
               n == Cardinality(A \ {a})
    <2>1. k \in Nat /\ l \in Nat /\ n \in Nat
      BY <1>3
    <2>2. /\ a \in A => n = k - 1
          /\ a \in B => n = l - 1
          /\ a \notin A => n = k
          /\ a \notin B => n = l
      BY <1>5
    <2> HIDE DEF k, l, n
    <2>3. /\ a \in B => l <= k + 1
          /\ a \notin B => l <= k
          /\ a \in A /\ a \in B => l = k
          /\ a \in A /\ a \notin B => l + 1 = k
      BY <2>1, <2>2
    <2>4. QED BY <2>3 DEF k, l
  <1>7. QED BY <1>1, <1>3, <1>6 DEF A, B

-----------------------------------------------------------------------------
(* The executions of the handler, part by part.                            *)

(* An execution takes an event that waits, keeps it or lets it go.         *)
LEMMA HeldSteps ==
    ASSUME HeldInv, NEW a \in Attempt, NEW e \in Event,
           \A b \in Attempt \ {a} : attempt'[b] = attempt[b],
           \A f \in Event \ {e} : event'[f] = event[f] /\ ~Holds(a, f)',
           Holds(a, e)' => event'[e] = "held",
           \/ Holds(a, e)
           \/ event[e] = "waiting"
           \/ event'[e] = event[e] /\ ~Holds(a, e)'
    PROVE  HeldInv'
  <1>1. \A b \in Attempt \ {a}, f \in Event : Holds(b, f)' <=> Holds(b, f)
    BY DEF Holds
  <1>2. \A b \in Attempt \ {a} : Holds(b, e) => event'[e] = event[e] /\ ~Holds(a, e)'
    <2>1. event[e] = "waiting" => \A b \in Attempt : ~Holds(b, e)
      BY DEF HeldInv
    <2>2. Holds(a, e) => \A b \in Attempt \ {a} : ~Holds(b, e)
      BY DEF HeldInv
    <2>3. QED BY <2>1, <2>2
  <1>3. ASSUME NEW b \in Attempt, NEW f \in Event, Holds(b, f)'
        PROVE  event'[f] = "held"
    <2>1. CASE b = a
      BY <1>3, <2>1
    <2>2. CASE b # a
      BY <1>1, <1>2, <1>3, <2>2 DEF HeldInv
    <2>3. QED BY <2>1, <2>2
  <1>4. ASSUME NEW b \in Attempt, NEW c \in Attempt, NEW f \in Event, Holds(b, f)', Holds(c, f)'
        PROVE  b = c
    <2>1. CASE b # a /\ c # a
      BY <1>1, <1>4, <2>1 DEF HeldInv
    <2>2. CASE b = a \/ c = a
      BY <1>1, <1>2, <1>4, <2>2
    <2>3. QED BY <2>1, <2>2
  <1>5. HeldInv' <=> /\ \A b \in Attempt, f \in Event : Holds(b, f)' => event'[f] = "held"
                     /\ \A b, c \in Attempt, f \in Event : Holds(b, f)' /\ Holds(c, f)' => b = c
    BY DEF HeldInv
  <1>6. QED BY <1>3, <1>4, <1>5

(* What was stored, handed over or lost stays so.                          *)
Grows ==
    /\ \A e \in Event, role \in Role : notices'[e][role] >= notices[e][role]
    /\ \A m \in Message : published'[m] >= published[m]
    /\ missed \subseteq missed'

LEMMA NotifiedStays ==
    ASSUME TypeOK, TypeOK', Grows, NEW e \in Event, NEW role \in Role
    PROVE  /\ Notified(e, role) => Notified(e, role)'
           /\ notices[e][role] > 0 => notices'[e][role] > 0
  <1>1. /\ notices[e][role] \in Nat /\ notices'[e][role] \in Nat
        /\ notices'[e][role] >= notices[e][role]
    BY DEF TypeOK, Grows
  <1>2. notices[e][role] > 0 => notices'[e][role] > 0
    BY <1>1
  <1>3. ASSUME NEW m \in MessagesFor(e, role), published[m] > 0 \/ m \in missed
        PROVE  published'[m] > 0 \/ m \in missed'
    <2>1. m \in Message
      BY MessageShape
    <2>2. published[m] \in Nat /\ published'[m] \in Nat /\ published'[m] >= published[m]
      BY <2>1 DEF TypeOK, Grows
    <2>3. published[m] > 0 => published'[m] > 0
      BY <2>2
    <2>4. missed \subseteq missed'
      BY DEF Grows
    <2>5. QED BY <1>3, <2>3, <2>4
  <1>4. MessagesFor(e, role)' = MessagesFor(e, role)
    BY DEF MessagesFor
  <1>5. HandedOver(e, role) => HandedOver(e, role)'
    BY <1>3, <1>4 DEF HandedOver
  <1>6. QED BY <1>2, <1>5 DEF Notified

LEMMA ProgressSteps ==
    ASSUME TypeOK, TypeOK', ProgressInv, AcknowledgedMeansNotified, Grows,
           NEW a \in Attempt, NEW e \in Event,
           \A b \in Attempt \ {a} : attempt'[b] = attempt[b],
           \A f \in Event \ {e} : event'[f] = event[f] /\ ~Holds(a, f)',
           Holds(a, e)' => \A role \in Recipients(TypeOf[e]) : GetsOn(a, e, role)',
           event'[e] = "acked" =>
              \/ event[e] = "acked"
              \/ \A role \in Recipients(TypeOf[e]) : Notified(e, role)'
    PROVE  ProgressInv' /\ AcknowledgedMeansNotified'
  <1>1. ASSUME NEW b \in Attempt, NEW f \in Event, Holds(b, f)',
               NEW role \in Recipients(TypeOf[f])
        PROVE  GetsOn(b, f, role)'
    <2>1. role \in Role
      BY MessageShape
    <2>2. CASE b = a
      BY <1>1, <2>2
    <2>3. CASE b # a
      <3>1. attempt'[b] = attempt[b]
        BY <2>3
      <3>2. Holds(b, f) /\ \A at : Runs(b, f, role, at)' <=> Runs(b, f, role, at)
        BY <1>1, <3>1 DEF Holds, Runs
      <3>3. GetsOn(b, f, role)
        BY <1>1, <3>2 DEF ProgressInv
      <3>4. QED BY <2>1, <3>2, <3>3, NotifiedStays DEF GetsOn
    <2>4. QED BY <2>2, <2>3
  <1>2. ASSUME NEW f \in Event, event'[f] = "acked", NEW role \in Recipients(TypeOf[f])
        PROVE  Notified(f, role)'
    <2>1. role \in Role
      BY MessageShape
    <2>2. CASE f # e \/ event[e] = "acked"
      <3>1. event[f] = "acked"
        BY <1>2, <2>2
      <3>2. Notified(f, role)
        BY <3>1 DEF AcknowledgedMeansNotified, Notified, HandedOver
      <3>3. QED BY <2>1, <3>2, NotifiedStays
    <2>3. CASE f = e /\ event[e] # "acked"
      BY <1>2, <2>3
    <2>4. QED BY <2>2, <2>3
  <1>3. ProgressInv'
    BY <1>1 DEF ProgressInv
  <1>4. AcknowledgedMeansNotified'
    BY <1>2 DEF AcknowledgedMeansNotified, Notified, HandedOver
  <1>5. QED BY <1>3, <1>4

(* E-mail and push leave the handler alone, and most of its steps leave    *)
(* e-mail and push alone.                                                  *)
LEMMA SameWhereabouts ==
    ASSUME WhereaboutsInv, UNCHANGED <<queue, sender, published>>
    PROVE  WhereaboutsInv'
  BY DEF WhereaboutsInv, sender, InHandling, Handles

LEMMA SameHandler ==
    ASSUME IInv, UNCHANGED <<notifier, published, missed>>
    PROVE  HeldInv' /\ ProgressInv' /\ AcknowledgedMeansNotified' /\ CountInv'
  <1>1. UNCHANGED <<event, attempt, notices, deliveries, published, missed>>
    BY DEF notifier
  <1>2. HeldInv' /\ ProgressInv' /\ AcknowledgedMeansNotified'
    BY <1>1 DEF IInv, HeldInv, ProgressInv, AcknowledgedMeansNotified, Holds, GetsOn, Notified,
                HandedOver, Runs
  <1>3. \A e \in Event, role \in Role : Counted(e, role)' <=> Counted(e, role)
    BY <1>1 DEF Counted, Doing, Runs
  <1>4. QED BY <1>2, <1>3 DEF IInv, CountInv

-----------------------------------------------------------------------------
(* The steps of the handler.                                               *)

LEMMA AttemptMoves ==
    ASSUME TypeOK, NEW a \in Attempt, NEW r \in AttemptRecord,
           attempt' = [attempt EXCEPT ![a] = r]
    PROVE  /\ attempt' \in [Attempt -> AttemptRecord]
           /\ \A b \in Attempt \ {a} : attempt'[b] = attempt[b]
           /\ attempt'[a] = r
  BY DEF TypeOK, AttemptRecord, TaskState

(* A task of an execution goes on.                                         *)
Moved(a, role, t) == [attempt[a] EXCEPT !.task[role] = t]

LEMMA TaskMoves ==
    ASSUME TypeOK, NEW a \in Attempt, NEW role \in Role, NEW t \in TaskState
    PROVE  /\ Moved(a, role, t) \in AttemptRecord
           /\ Moved(a, role, t).event = attempt[a].event
           /\ Moved(a, role, t).held = attempt[a].held
           /\ Moved(a, role, t).task[role] = t
           /\ \A q \in Role \ {role} : Moved(a, role, t).task[q] = attempt[a].task[q]
           /\ [attempt EXCEPT ![a].task[role] = t] = [attempt EXCEPT ![a] = Moved(a, role, t)]
  <1>1. attempt \in [Attempt -> AttemptRecord] /\ attempt[a] \in AttemptRecord
    BY DEF TypeOK, AttemptRecord, TaskState
  <1>2. QED BY <1>1 DEF AttemptRecord, Moved

(* The roles and events at which the execution stays where it is.          *)
LEMMA CountedElsewhere ==
    ASSUME NEW a \in Attempt, \A b \in Attempt \ {a} : attempt'[b] = attempt[b],
           NEW e \in Event, NEW role \in Role, Counted(e, role),
           \A at : Runs(a, e, role, at)' <=> Runs(a, e, role, at),
           notices'[e][role] = notices[e][role], deliveries'[e] = deliveries[e],
           \A m \in MessagesFor(e, role) : published'[m] = published[m]
    PROVE  Counted(e, role)'
  <1>1. \A at : Doing(e, role, at)' = Doing(e, role, at)
    BY DEF Doing, Runs
  <1>2. MessagesFor(e, role)' = MessagesFor(e, role)
    BY DEF MessagesFor
  <1>3. QED BY <1>1, <1>2 DEF Counted

LEMMA ArriveIInv ==
    ASSUME IInv, NEW e \in Event, Arrive(e)
    PROVE  IInv'
  <1>1. /\ event[e] = "new" /\ event' = [event EXCEPT ![e] = "waiting"]
        /\ UNCHANGED <<attempt, notices, deliveries, queue, sender, published, missed, failures>>
    BY DEF Arrive
  <1>2. TypeOK'
    BY <1>1 DEF IInv, TypeOK, sender
  <1>3. event'[e] = "waiting" /\ \A f \in Event \ {e} : event'[f] = event[f]
    BY <1>1 DEF IInv, TypeOK
  <1>4. \A a \in Attempt, f \in Event : (Holds(a, f)' <=> Holds(a, f)) /\ ~Holds(a, e)
    BY <1>1 DEF IInv, HeldInv, Holds
  <1>5. HeldInv'
    <2>1. /\ \A a \in Attempt, f \in Event : Holds(a, f)' => event'[f] = "held"
          /\ \A a, b \in Attempt, f \in Event : Holds(a, f)' /\ Holds(b, f)' => a = b
      BY <1>3, <1>4 DEF IInv, HeldInv
    <2>2. QED BY <2>1 DEF HeldInv
  <1>6. ProgressInv' /\ AcknowledgedMeansNotified'
    <2>1. \A f, role : Notified(f, role)' <=> Notified(f, role)
      BY <1>1 DEF Notified, HandedOver
    <2>2. \A a, f, role : GetsOn(a, f, role)' <=> GetsOn(a, f, role)
      BY <1>1, <2>1 DEF GetsOn, Runs
    <2>3. ProgressInv'
      BY <1>4, <2>2 DEF IInv, ProgressInv
    <2>4. AcknowledgedMeansNotified'
      BY <1>1, <1>3 DEF IInv, AcknowledgedMeansNotified
    <2>5. QED BY <2>3, <2>4
  <1>7. CountInv'
    BY <1>1 DEF IInv, CountInv, Counted, Doing, Runs
  <1>8. WhereaboutsInv'
    BY <1>1, SameWhereabouts DEF IInv
  <1>9. QED BY <1>2, <1>5, <1>6, <1>7, <1>8 DEF IInv

LEMMA TakeIInv ==
    ASSUME IInv, NEW a \in Attempt, NEW e \in Event, Take(a, e)
    PROVE  IInv'
  <1> DEFINE t == [role \in Role |-> IF role \in Recipients(TypeOf[e]) THEN "persist" ELSE "none"]
             r == [event |-> {e}, held |-> TRUE, task |-> t]
  <1>1. /\ attempt[a] = Idle /\ event[e] = "waiting"
        /\ event' = [event EXCEPT ![e] = "held"]
        /\ attempt' = [attempt EXCEPT ![a] = r]
        /\ deliveries' = [deliveries EXCEPT ![e] = @ + 1]
        /\ UNCHANGED <<notices, queue, sender, published, missed, failures>>
    BY DEF Take, Begins
  <1>2. /\ r \in AttemptRecord /\ r.event = {e} /\ r.held = TRUE
        /\ \A role \in Role :
              r.task[role] = IF role \in Recipients(TypeOf[e]) THEN "persist" ELSE "none"
    BY DEF AttemptRecord, TaskState
  <1> HIDE DEF t, r
  <1>3. /\ attempt' \in [Attempt -> AttemptRecord] /\ attempt'[a] = r
        /\ \A b \in Attempt \ {a} : attempt'[b] = attempt[b]
    BY <1>1, <1>2, AttemptMoves DEF IInv
  <1>4. TypeOK'
    BY <1>1, <1>3 DEF IInv, TypeOK, sender, AttemptRecord, TaskState
  <1>5. event'[e] = "held" /\ \A f \in Event \ {e} : event'[f] = event[f] /\ ~Holds(a, f)'
    BY <1>1, <1>2, <1>3 DEF IInv, TypeOK, Holds
  <1>6. HeldInv'
    BY <1>1, <1>3, <1>5, HeldSteps DEF IInv
  <1>7. Grows
    BY <1>1 DEF Grows, IInv, TypeOK
  <1>8. \A role \in Recipients(TypeOf[e]) : GetsOn(a, e, role)'
    BY <1>2, <1>3, MessageShape DEF GetsOn, Runs
  <1>9. ProgressInv' /\ AcknowledgedMeansNotified'
    BY <1>3, <1>4, <1>5, <1>7, <1>8, ProgressSteps DEF IInv
  <1>10. CountInv'
    <2> SUFFICES ASSUME NEW f \in Event, NEW role \in Role PROVE Counted(f, role)'
      BY DEF CountInv
    <2>1. Counted(f, role)
      BY DEF IInv, CountInv
    <2>2. CASE f # e
      <3>1. \A at : ~Runs(a, f, role, at)' /\ ~Runs(a, f, role, at)
        BY <1>1, <1>2, <1>3, <2>2 DEF Runs, Idle
      <3>2. deliveries'[f] = deliveries[f]
        BY <1>1, <2>2 DEF IInv, TypeOK
      <3>3. QED BY <1>1, <1>3, <2>1, <3>1, <3>2, CountedElsewhere
    <2>3. CASE f = e
      <3> DEFINE n(at) == Cardinality(Doing(e, role, at))
                 l(at) == Cardinality(Doing(e, role, at)')
      <3>1. ~Runs(a, e, role, "publish")'
        BY <1>2, <1>3 DEF Runs
      <3>2. /\ n("persist") \in Nat /\ l("persist") \in Nat /\ l("persist") <= n("persist") + 1
            /\ n("publish") \in Nat /\ l("publish") \in Nat /\ l("publish") <= n("publish")
        <4>1. /\ n("persist") \in Nat /\ l("persist") \in Nat
              /\ l("persist") <= n("persist") + 1 \/ l("persist") <= n("persist")
          BY <1>3, DoingChanges
        <4>2. n("publish") \in Nat /\ l("publish") \in Nat /\ l("publish") <= n("publish")
          BY <1>3, <3>1, DoingChanges
        <4> HIDE DEF n, l
        <4>3. QED BY <4>1, <4>2
      <3>3. notices[e][role] + n("persist") <= deliveries[e]
        BY <2>1, <2>3 DEF Counted
      <3>4. \A m \in MessagesFor(e, role) : published[m] + n("publish") <= notices[e][role]
        BY <2>1, <2>3 DEF Counted
      <3> HIDE DEF n, l
      <3>5. /\ deliveries[e] \in Nat /\ deliveries'[e] = deliveries[e] + 1
            /\ notices[e][role] \in Nat /\ notices' = notices /\ published' = published
            /\ \A m \in MessagesFor(e, role) : published[m] \in Nat
        BY <1>1, MessageShape DEF IInv, TypeOK
      <3>6. notices'[e][role] + l("persist") <= deliveries'[e]
        BY <3>2, <3>3, <3>5
      <3>7. \A m \in MessagesFor(e, role) : published'[m] + l("publish") <= notices'[e][role]
        BY <3>2, <3>4, <3>5
      <3>8. MessagesFor(e, role)' = MessagesFor(e, role)
        BY DEF MessagesFor
      <3>9. QED BY <2>3, <3>6, <3>7, <3>8 DEF l, Counted
    <2>4. QED BY <2>2, <2>3
  <1>11. WhereaboutsInv'
    BY <1>1, SameWhereabouts DEF IInv
  <1>12. QED BY <1>4, <1>6, <1>9, <1>10, <1>11 DEF IInv

(* The execution stays with its event, and the other role where it was.    *)
LEMMA TaskElsewhere ==
    ASSUME IInv, NEW a \in Attempt, NEW e \in Event, NEW role \in Role,
           attempt[a].event = {e}, attempt'[a].event = {e},
           \A b \in Attempt \ {a} : attempt'[b] = attempt[b],
           \A q \in Role \ {role} : attempt'[a].task[q] = attempt[a].task[q],
           \A f \in Event, q \in Role :
              f # e \/ q # role =>
                 /\ notices'[f][q] = notices[f][q]
                 /\ \A m \in MessagesFor(f, q) : published'[m] = published[m],
           UNCHANGED deliveries,
           Counted(e, role)'
    PROVE  CountInv'
  <1> SUFFICES ASSUME NEW f \in Event, NEW q \in Role, f # e \/ q # role
               PROVE  Counted(f, q)'
    BY DEF CountInv
  <1>1. Counted(f, q)
    BY DEF IInv, CountInv
  <1>2. \A at : Runs(a, f, q, at)' <=> Runs(a, f, q, at)
    BY DEF Runs
  <1>3. QED BY <1>1, <1>2, CountedElsewhere

LEMMA PersistIInv ==
    ASSUME IInv, NEW a \in Attempt, NEW e \in Event, NEW role \in Role, Persist(a, e, role)
    PROVE  IInv'
  <1>1. /\ attempt[a].event = {e} /\ attempt[a].task[role] = "persist"
        /\ notices' = [notices EXCEPT ![e][role] = @ + 1]
        /\ attempt' = [attempt EXCEPT ![a].task[role] = "publish"]
        /\ UNCHANGED <<event, deliveries, queue, sender, published, missed, failures>>
    BY DEF Persist, Runs
  <1>2. /\ attempt' \in [Attempt -> AttemptRecord] /\ attempt'[a].event = {e}
        /\ \A b \in Attempt \ {a} : attempt'[b] = attempt[b]
        /\ attempt'[a].held = attempt[a].held
        /\ attempt'[a].task[role] = "publish"
        /\ \A q \in Role \ {role} : attempt'[a].task[q] = attempt[a].task[q]
    <2> DEFINE x == Moved(a, role, "publish")
    <2>1. /\ x \in AttemptRecord /\ x.event = {e} /\ x.held = attempt[a].held
          /\ x.task[role] = "publish"
          /\ \A q \in Role \ {role} : x.task[q] = attempt[a].task[q]
          /\ attempt' = [attempt EXCEPT ![a] = x]
      BY <1>1, TaskMoves DEF IInv, TaskState
    <2> HIDE DEF x
    <2>2. QED BY <2>1, AttemptMoves DEF IInv
  <1>3. /\ notices \in [Event -> [Role -> Nat]] /\ notices' \in [Event -> [Role -> Nat]]
        /\ notices'[e][role] = notices[e][role] + 1
        /\ \A f \in Event, q \in Role : f # e \/ q # role => notices'[f][q] = notices[f][q]
    BY <1>1 DEF IInv, TypeOK
  <1>4. TypeOK'
    BY <1>1, <1>2, <1>3 DEF IInv, TypeOK, sender, AttemptRecord, TaskState
  <1>5. \A f \in Event \ {e} : event'[f] = event[f] /\ ~Holds(a, f)'
    BY <1>1, <1>2 DEF Holds
  <1>6. Holds(a, e)' <=> Holds(a, e)
    BY <1>1, <1>2 DEF Holds
  <1>7. HeldInv'
    <2>1. Holds(a, e)' => event'[e] = "held"
      BY <1>1, <1>6 DEF IInv, HeldInv
    <2>2. QED BY <1>1, <1>2, <1>5, <1>6, <2>1, HeldSteps DEF IInv
  <1>8. Grows
    <2>1. \A f \in Event, q \in Role : notices'[f][q] >= notices[f][q]
      BY <1>3
    <2>2. QED BY <1>1, <2>1 DEF Grows, IInv, TypeOK
  <1>9. ASSUME Holds(a, e)', NEW q \in Recipients(TypeOf[e]) PROVE GetsOn(a, e, q)'
    <2>1. q \in Role /\ GetsOn(a, e, q)
      BY <1>6, <1>9, MessageShape DEF IInv, ProgressInv
    <2>2. CASE q = role
      BY <1>2, <1>3, <2>2 DEF GetsOn, Runs
    <2>3. CASE q # role
      <3>1. \A at : Runs(a, e, q, at)' <=> Runs(a, e, q, at)
        BY <1>1, <1>2, <2>1, <2>3 DEF Runs
      <3>2. QED BY <1>4, <1>8, <2>1, <3>1, NotifiedStays DEF GetsOn, IInv
    <2>4. QED BY <2>2, <2>3
  <1>10. ProgressInv' /\ AcknowledgedMeansNotified'
    BY <1>1, <1>2, <1>4, <1>5, <1>8, <1>9, ProgressSteps DEF IInv
  <1>11. CountInv'
    <2> DEFINE n(at) == Cardinality(Doing(e, role, at))
               l(at) == Cardinality(Doing(e, role, at)')
    <2>1. Counted(e, role)
      BY DEF IInv, CountInv
    <2>2. /\ Runs(a, e, role, "persist") /\ ~Runs(a, e, role, "persist")'
          /\ Runs(a, e, role, "publish")'
      BY <1>1, <1>2 DEF Runs
    <2>3. /\ n("persist") \in Nat /\ l("persist") \in Nat /\ l("persist") + 1 = n("persist")
          /\ n("publish") \in Nat /\ l("publish") \in Nat /\ l("publish") <= n("publish") + 1
      BY <1>2, <2>2, DoingChanges
    <2>4. /\ notices[e][role] + n("persist") <= deliveries[e]
          /\ \A m \in MessagesFor(e, role) : published[m] + n("publish") <= notices[e][role]
      BY <2>1 DEF Counted
    <2> HIDE DEF n, l
    <2>5. /\ deliveries[e] \in Nat /\ deliveries' = deliveries /\ notices[e][role] \in Nat
          /\ published' = published /\ \A m \in MessagesFor(e, role) : published[m] \in Nat
      BY <1>1, MessageShape DEF IInv, TypeOK
    <2>6. /\ notices'[e][role] + l("persist") <= deliveries'[e]
          /\ \A m \in MessagesFor(e, role) : published'[m] + l("publish") <= notices'[e][role]
      BY <1>3, <2>3, <2>4, <2>5
    <2>7. MessagesFor(e, role)' = MessagesFor(e, role)
      BY DEF MessagesFor
    <2>8. Counted(e, role)'
      BY <2>6, <2>7 DEF l, Counted
    <2>9. QED BY <1>1, <1>2, <1>3, <2>8, TaskElsewhere
  <1>12. WhereaboutsInv'
    BY <1>1, SameWhereabouts DEF IInv
  <1>13. QED BY <1>4, <1>7, <1>10, <1>11, <1>12 DEF IInv

LEMMA PersistFailsIInv ==
    ASSUME IInv, NEW a \in Attempt, NEW e \in Event, NEW role \in Role, PersistFails(a, e, role)
    PROVE  IInv'
  <1>1. /\ attempt[a].event = {e} /\ attempt[a].task[role] = "persist"
        /\ attempt' = [attempt EXCEPT ![a] =
                         [[attempt[a] EXCEPT !.task[role] = "none"] EXCEPT !.held = FALSE]]
        /\ event' = [event EXCEPT ![e] = IF attempt[a].held THEN "waiting" ELSE @]
        /\ UNCHANGED <<deliveries, queue, sender, published, missed>>
        /\ failures < MaxFailures /\ failures' = failures + 1
    BY DEF PersistFails, Runs, Fails
  <1>2. PICK stored \in {0, 1} : notices' = [notices EXCEPT ![e][role] = @ + stored]
    BY DEF PersistFails
  <1>3. /\ attempt' \in [Attempt -> AttemptRecord] /\ attempt'[a].event = {e} /\ ~attempt'[a].held
        /\ \A b \in Attempt \ {a} : attempt'[b] = attempt[b]
        /\ attempt'[a].task[role] = "none"
        /\ \A q \in Role \ {role} : attempt'[a].task[q] = attempt[a].task[q]
    <2> DEFINE x == Moved(a, role, "none")
               y == [x EXCEPT !.held = FALSE]
    <2>1. /\ x \in AttemptRecord /\ x.event = {e} /\ x.task[role] = "none"
          /\ \A q \in Role \ {role} : x.task[q] = attempt[a].task[q]
      BY <1>1, TaskMoves DEF IInv, TaskState
    <2>2. attempt' = [attempt EXCEPT ![a] = y]
      BY <1>1 DEF Moved
    <2> HIDE DEF x
    <2>3. y \in AttemptRecord /\ y.event = {e} /\ y.held = FALSE /\ y.task = x.task
      BY <2>1 DEF AttemptRecord
    <2> HIDE DEF y
    <2>4. QED BY <2>1, <2>2, <2>3, AttemptMoves DEF IInv
  <1>4. /\ notices \in [Event -> [Role -> Nat]] /\ notices' \in [Event -> [Role -> Nat]]
        /\ notices'[e][role] = notices[e][role] + stored
        /\ \A f \in Event, q \in Role : f # e \/ q # role => notices'[f][q] = notices[f][q]
    BY <1>2 DEF IInv, TypeOK
  <1>5. /\ event' \in [Event -> {"new", "waiting", "held", "acked"}]
        /\ event'[e] = IF attempt[a].held THEN "waiting" ELSE event[e]
        /\ \A f \in Event \ {e} : event'[f] = event[f] /\ ~Holds(a, f)'
    BY <1>1, <1>3 DEF IInv, TypeOK, Holds
  <1>6. failures' \in 0..MaxFailures
    BY <1>1, NotificationConstants DEF IInv, TypeOK
  <1>7. TypeOK'
    BY <1>1, <1>3, <1>4, <1>5, <1>6 DEF IInv, TypeOK, sender, AttemptRecord, TaskState
  <1>8. ~Holds(a, e)' /\ (Holds(a, e) <=> attempt[a].held)
    BY <1>1, <1>3 DEF Holds
  <1>9. HeldInv'
    BY <1>3, <1>5, <1>8, HeldSteps DEF IInv
  <1>10. Grows
    <2>1. \A f \in Event, q \in Role : notices'[f][q] >= notices[f][q]
      BY <1>4
    <2>2. QED BY <1>1, <2>1 DEF Grows, IInv, TypeOK
  <1>11. ProgressInv' /\ AcknowledgedMeansNotified'
    <2>1. event'[e] = "acked" => event[e] = "acked"
      BY <1>5
    <2>2. QED BY <1>3, <1>5, <1>7, <1>8, <1>10, <2>1, ProgressSteps DEF IInv
  <1>12. CountInv'
    <2> DEFINE n(at) == Cardinality(Doing(e, role, at))
               l(at) == Cardinality(Doing(e, role, at)')
    <2>1. Counted(e, role)
      BY DEF IInv, CountInv
    <2>2. /\ Runs(a, e, role, "persist") /\ ~Runs(a, e, role, "persist")'
          /\ ~Runs(a, e, role, "publish")'
      BY <1>1, <1>3 DEF Runs
    <2>3. /\ n("persist") \in Nat /\ l("persist") \in Nat /\ l("persist") + 1 = n("persist")
          /\ n("publish") \in Nat /\ l("publish") \in Nat /\ l("publish") <= n("publish")
      BY <1>3, <2>2, DoingChanges
    <2>4. /\ notices[e][role] + n("persist") <= deliveries[e]
          /\ \A m \in MessagesFor(e, role) : published[m] + n("publish") <= notices[e][role]
      BY <2>1 DEF Counted
    <2> HIDE DEF n, l
    <2>5. /\ deliveries[e] \in Nat /\ deliveries' = deliveries /\ notices[e][role] \in Nat
          /\ published' = published /\ \A m \in MessagesFor(e, role) : published[m] \in Nat
      BY <1>1, MessageShape DEF IInv, TypeOK
    <2>6. /\ notices'[e][role] + l("persist") <= deliveries'[e]
          /\ \A m \in MessagesFor(e, role) : published'[m] + l("publish") <= notices'[e][role]
      BY <1>4, <2>3, <2>4, <2>5
    <2>7. MessagesFor(e, role)' = MessagesFor(e, role)
      BY DEF MessagesFor
    <2>8. Counted(e, role)'
      BY <2>6, <2>7 DEF l, Counted
    <2>9. QED BY <1>1, <1>3, <1>4, <2>8, TaskElsewhere
  <1>13. WhereaboutsInv'
    BY <1>1, SameWhereabouts DEF IInv
  <1>14. QED BY <1>7, <1>9, <1>11, <1>12, <1>13 DEF IInv

LEMMA PublishIInv ==
    ASSUME IInv, NEW a \in Attempt, NEW e \in Event, NEW role \in Role, Publish(a, e, role)
    PROVE  IInv'
  <1>1. /\ attempt[a].event = {e} /\ attempt[a].task[role] = "publish"
        /\ attempt' = [attempt EXCEPT ![a].task[role] = "none"]
        /\ UNCHANGED <<event, notices, deliveries, sender>>
        /\ failures' \in 0..MaxFailures
    BY NotificationConstants DEF Publish, Runs, Fails, IInv, TypeOK
  <1>2. PICK P \in SUBSET MessagesFor(e, role) : \E again \in SUBSET P :
           /\ queue' = [m \in Message |-> IF m \in again THEN queue[m] + 2
                                          ELSE IF m \in P THEN queue[m] + 1 ELSE queue[m]]
           /\ published' = [m \in Message |-> IF m \in P THEN published[m] + 1 ELSE published[m]]
           /\ missed' = missed \cup (MessagesFor(e, role) \ P)
    BY DEF Publish
  <1>3. /\ attempt' \in [Attempt -> AttemptRecord] /\ attempt'[a].event = {e}
        /\ \A b \in Attempt \ {a} : attempt'[b] = attempt[b]
        /\ attempt'[a].held = attempt[a].held
        /\ attempt'[a].task[role] = "none"
        /\ \A q \in Role \ {role} : attempt'[a].task[q] = attempt[a].task[q]
    <2> DEFINE x == Moved(a, role, "none")
    <2>1. /\ x \in AttemptRecord /\ x.event = {e} /\ x.held = attempt[a].held
          /\ x.task[role] = "none"
          /\ \A q \in Role \ {role} : x.task[q] = attempt[a].task[q]
          /\ attempt' = [attempt EXCEPT ![a] = x]
      BY <1>1, TaskMoves DEF IInv, TaskState
    <2> HIDE DEF x
    <2>2. QED BY <2>1, AttemptMoves DEF IInv
  <1>4. \A m \in Message :
           /\ queue[m] \in Nat /\ published[m] \in Nat
           /\ queue'[m] \in Nat /\ queue'[m] >= queue[m]
           /\ m \in P => queue'[m] > 0
           /\ published'[m] = IF m \in P THEN published[m] + 1 ELSE published[m]
    BY <1>2 DEF IInv, TypeOK
  <1>5. TypeOK'
    <2>1. queue' \in [Message -> Nat] /\ published' \in [Message -> Nat]
      <3>1. \A m \in Message : published'[m] \in Nat
        BY <1>4
      <3>2. QED BY <1>2, <1>4, <3>1
    <2>2. missed' \in SUBSET Message
      BY <1>2, MessageShape DEF IInv, TypeOK
    <2>3. QED BY <1>1, <1>3, <2>1, <2>2 DEF IInv, TypeOK, sender, AttemptRecord, TaskState
  <1>6. /\ \A f \in Event \ {e} : event'[f] = event[f] /\ ~Holds(a, f)'
        /\ Holds(a, e)' <=> Holds(a, e)
    BY <1>1, <1>3 DEF Holds
  <1>7. HeldInv'
    <2>1. Holds(a, e)' => event'[e] = "held"
      BY <1>1, <1>6 DEF IInv, HeldInv
    <2>2. QED BY <1>1, <1>3, <1>6, <2>1, HeldSteps DEF IInv
  <1>8. Grows
    <2>1. \A m \in Message : published'[m] >= published[m]
      BY <1>4
    <2>2. QED BY <1>1, <1>2, <2>1 DEF Grows, IInv, TypeOK
  <1>9. HandedOver(e, role)'
    <2>1. \A m \in MessagesFor(e, role) : published'[m] > 0 \/ m \in missed'
      BY <1>2, <1>4, MessageShape
    <2>2. MessagesFor(e, role)' = MessagesFor(e, role)
      BY DEF MessagesFor
    <2>3. QED BY <2>1, <2>2 DEF HandedOver
  <1>10. ASSUME Holds(a, e)', NEW q \in Recipients(TypeOf[e]) PROVE GetsOn(a, e, q)'
    <2>1. q \in Role /\ GetsOn(a, e, q)
      BY <1>6, <1>10, MessageShape DEF IInv, ProgressInv
    <2>2. CASE q = role
      <3>1. notices[e][role] > 0
        BY <1>1, <2>1, <2>2 DEF GetsOn, Runs, Notified
      <3>2. QED BY <1>1, <1>9, <2>2, <3>1 DEF GetsOn, Notified
    <2>3. CASE q # role
      <3>1. \A at : Runs(a, e, q, at)' <=> Runs(a, e, q, at)
        BY <1>1, <1>3, <2>1, <2>3 DEF Runs
      <3>2. QED BY <1>5, <1>8, <2>1, <3>1, NotifiedStays DEF GetsOn, IInv
    <2>4. QED BY <2>2, <2>3
  <1>11. ProgressInv' /\ AcknowledgedMeansNotified'
    BY <1>1, <1>3, <1>5, <1>6, <1>8, <1>10, ProgressSteps DEF IInv
  <1>12. CountInv'
    <2> DEFINE n(at) == Cardinality(Doing(e, role, at))
               l(at) == Cardinality(Doing(e, role, at)')
    <2>1. Counted(e, role)
      BY DEF IInv, CountInv
    <2>2. /\ ~Runs(a, e, role, "persist")'
          /\ Runs(a, e, role, "publish") /\ ~Runs(a, e, role, "publish")'
      BY <1>1, <1>3 DEF Runs
    <2>3. /\ n("persist") \in Nat /\ l("persist") \in Nat /\ l("persist") <= n("persist")
          /\ n("publish") \in Nat /\ l("publish") \in Nat /\ l("publish") + 1 = n("publish")
      BY <1>3, <2>2, DoingChanges
    <2>4. /\ notices[e][role] + n("persist") <= deliveries[e]
          /\ \A m \in MessagesFor(e, role) : published[m] + n("publish") <= notices[e][role]
      BY <2>1 DEF Counted
    <2> HIDE DEF n, l
    <2>5. deliveries[e] \in Nat /\ notices[e][role] \in Nat
      BY DEF IInv, TypeOK
    <2>6. \A m \in MessagesFor(e, role) :
             /\ published[m] \in Nat /\ published'[m] \in Nat
             /\ published'[m] <= published[m] + 1
      BY <1>4, MessageShape
    <2>7. notices'[e][role] + l("persist") <= deliveries'[e]
      BY <1>1, <2>3, <2>4, <2>5
    <2>8. \A m \in MessagesFor(e, role) : published'[m] + l("publish") <= notices'[e][role]
      BY <1>1, <2>3, <2>4, <2>5, <2>6
    <2>9. MessagesFor(e, role)' = MessagesFor(e, role)
      BY DEF MessagesFor
    <2>10. Counted(e, role)'
      BY <2>7, <2>8, <2>9 DEF l, Counted
    <2>11. \A f \in Event, q \in Role : f # e \/ q # role =>
              \A m \in MessagesFor(f, q) : published'[m] = published[m]
      BY <1>4, MessageShape
    <2>12. QED BY <1>1, <1>3, <2>10, <2>11, TaskElsewhere
  <1>13. WhereaboutsInv'
    <2>1. \A m : InHandling(m)' <=> InHandling(m)
      BY <1>1 DEF sender, InHandling
    <2>2. ASSUME NEW m \in Message, published'[m] > 0
          PROVE  queue'[m] > 0 \/ InHandling(m)' \/ m \in sent \cup crossed
      <3>1. CASE m \in P
        BY <1>4, <3>1
      <3>2. CASE m \notin P
        BY <1>4, <2>1, <2>2, <3>2 DEF IInv, WhereaboutsInv
      <3>3. QED BY <3>1, <3>2
    <2>3. \A w \in Worker, m \in Message : Handles(w, m, "sent")' => m \in sent
      BY <1>1 DEF IInv, WhereaboutsInv, Handles, sender
    <2>4. sent' = sent /\ crossed' = crossed
      BY <1>1 DEF sender
    <2>5. QED BY <2>2, <2>3, <2>4 DEF WhereaboutsInv
  <1>14. QED BY <1>5, <1>7, <1>11, <1>12, <1>13 DEF IInv

(* However an execution ends, it does nothing any longer.                  *)
LEMMA EndIInv ==
    ASSUME IInv, NEW a \in Attempt, NEW e \in Event, attempt[a].event = {e},
           attempt' = [attempt EXCEPT ![a] = Idle],
           NEW end \in {"waiting", "acked"},
           event' = [event EXCEPT ![e] = IF attempt[a].held THEN end ELSE @],
           end = "acked" => attempt[a].task = NoTasks,
           UNCHANGED <<notices, deliveries, queue, sender, published, missed>>,
           failures' \in 0..MaxFailures
    PROVE  IInv'
  <1>1. /\ attempt' \in [Attempt -> AttemptRecord] /\ attempt'[a] = Idle
        /\ \A b \in Attempt \ {a} : attempt'[b] = attempt[b]
    BY RestingTypes, AttemptMoves DEF IInv
  <1>2. /\ event' \in [Event -> {"new", "waiting", "held", "acked"}]
        /\ event'[e] = IF attempt[a].held THEN end ELSE event[e]
        /\ \A f \in Event \ {e} : event'[f] = event[f]
    BY DEF IInv, TypeOK
  <1>3. TypeOK'
    BY <1>1, <1>2 DEF IInv, TypeOK, sender, AttemptRecord, TaskState
  <1>4. /\ \A f : ~Holds(a, f)'
        /\ Holds(a, e) <=> attempt[a].held
    BY <1>1 DEF Holds, Idle
  <1>5. HeldInv'
    BY <1>1, <1>2, <1>4, HeldSteps DEF IInv
  <1>6. Grows
    BY DEF Grows, IInv, TypeOK
  <1>7. ASSUME event'[e] = "acked", event[e] # "acked", NEW role \in Recipients(TypeOf[e])
        PROVE  Notified(e, role)'
    <2>1. attempt[a].task = NoTasks /\ Holds(a, e)
      BY <1>2, <1>4, <1>7
    <2>2. GetsOn(a, e, role) /\ role \in Role
      BY <2>1, MessageShape DEF IInv, ProgressInv
    <2>3. Notified(e, role)
      BY <2>1, <2>2 DEF GetsOn, Runs, NoTasks
    <2>4. QED BY <1>3, <1>6, <2>2, <2>3, NotifiedStays DEF IInv
  <1>8. ProgressInv' /\ AcknowledgedMeansNotified'
    <2>1. event'[e] = "acked" =>
             \/ event[e] = "acked"
             \/ \A role \in Recipients(TypeOf[e]) : Notified(e, role)'
      BY <1>7
    <2>2. QED BY <1>1, <1>2, <1>3, <1>4, <1>6, <2>1, ProgressSteps DEF IInv
  <1>9. CountInv'
    <2> SUFFICES ASSUME NEW f \in Event, NEW role \in Role PROVE Counted(f, role)'
      BY DEF CountInv
    <2> DEFINE n(at) == Cardinality(Doing(f, role, at))
               l(at) == Cardinality(Doing(f, role, at)')
    <2>1. Counted(f, role)
      BY DEF IInv, CountInv
    <2>2. \A at : ~Runs(a, f, role, at)'
      BY <1>1 DEF Runs, Idle
    <2>3. /\ n("persist") \in Nat /\ l("persist") \in Nat /\ l("persist") <= n("persist")
          /\ n("publish") \in Nat /\ l("publish") \in Nat /\ l("publish") <= n("publish")
      BY <1>1, <2>2, DoingChanges
    <2>4. /\ notices[f][role] + n("persist") <= deliveries[f]
          /\ \A m \in MessagesFor(f, role) : published[m] + n("publish") <= notices[f][role]
      BY <2>1 DEF Counted
    <2> HIDE DEF n, l
    <2>5. /\ deliveries[f] \in Nat /\ notices[f][role] \in Nat
          /\ \A m \in MessagesFor(f, role) : published[m] \in Nat
      BY MessageShape DEF IInv, TypeOK
    <2>6. /\ notices'[f][role] + l("persist") <= deliveries'[f]
          /\ \A m \in MessagesFor(f, role) : published'[m] + l("publish") <= notices'[f][role]
      BY <2>3, <2>4, <2>5
    <2>7. MessagesFor(f, role)' = MessagesFor(f, role)
      BY DEF MessagesFor
    <2>8. QED BY <2>6, <2>7 DEF l, Counted
  <1>10. WhereaboutsInv'
    BY SameWhereabouts DEF IInv
  <1>11. QED BY <1>3, <1>5, <1>8, <1>9, <1>10 DEF IInv

LEMMA ReturnIInv ==
    ASSUME IInv, NEW a \in Attempt, NEW e \in Event, Return(a, e)
    PROVE  IInv'
  <1> DEFINE end == "acked"
  <1>1. event' = [event EXCEPT ![e] = IF attempt[a].held THEN end ELSE @]
    BY DEF Return
  <1>2. end \in {"waiting", "acked"}
    OBVIOUS
  <1>3. failures' \in 0..MaxFailures
    BY DEF Return, IInv, TypeOK
  <1> HIDE DEF end
  <1>4. QED BY <1>1, <1>2, <1>3, EndIInv DEF Return

LEMMA DiesIInv ==
    ASSUME IInv, NEW a \in Attempt, NEW e \in Event, Dies(a, e)
    PROVE  IInv'
  <1> DEFINE end == "waiting"
  <1>1. event' = [event EXCEPT ![e] = IF attempt[a].held THEN end ELSE @]
    BY DEF Dies
  <1>2. end \in {"waiting", "acked"} /\ end # "acked"
    OBVIOUS
  <1>3. failures' \in 0..MaxFailures
    BY NotificationConstants DEF Dies, Fails, IInv, TypeOK
  <1> HIDE DEF end
  <1>4. QED BY <1>1, <1>2, <1>3, EndIInv DEF Dies

-----------------------------------------------------------------------------
(* E-mail and push.                                                        *)

(* One message in handling changes hands, goes on, or is let go of.        *)
LEMMA SenderIInv ==
    ASSUME IInv, NEW w \in Worker, NEW r \in WorkRecord,
           work' = [work EXCEPT ![w] = r],
           UNCHANGED <<notifier, published, missed>>,
           queue' \in [Message -> Nat], failures' \in 0..MaxFailures,
           sent \subseteq sent', sent' \subseteq Message,
           crossed \subseteq crossed', crossed' \subseteq Message,
           \A m \in Message : queue[m] > 0 => queue'[m] > 0 \/ r.message = {m},
           \A m \in Message :
              work[w].message = {m} => queue'[m] > 0 \/ r.message = {m} \/ m \in sent' \cup crossed',
           \A m \in Message : r.message = {m} /\ r.at = "sent" => m \in sent'
    PROVE  IInv'
  <1>1. /\ work' \in [Worker -> WorkRecord] /\ work'[w] = r
        /\ \A x \in Worker \ {w} : work'[x] = work[x]
    BY DEF IInv, TypeOK, WorkRecord
  <1>2. TypeOK'
    BY <1>1 DEF IInv, TypeOK, notifier, WorkRecord
  <1>3. HeldInv' /\ ProgressInv' /\ AcknowledgedMeansNotified' /\ CountInv'
    BY SameHandler
  <1>4. ASSUME NEW m \in Message, published'[m] > 0
        PROVE  queue'[m] > 0 \/ InHandling(m)' \/ m \in sent' \cup crossed'
    <2>1. queue[m] > 0 \/ InHandling(m) \/ m \in sent \cup crossed
      BY <1>4 DEF IInv, WhereaboutsInv
    <2>2. CASE InHandling(m)
      <3>1. PICK x \in Worker : work[x].message = {m}
        BY <2>2 DEF InHandling
      <3>2. CASE x = w
        BY <1>1, <3>1, <3>2 DEF InHandling
      <3>3. CASE x # w
        BY <1>1, <3>1, <3>3 DEF InHandling
      <3>4. QED BY <3>2, <3>3
    <2>3. CASE queue[m] > 0
      BY <1>1, <2>3 DEF InHandling
    <2>4. QED BY <2>1, <2>2, <2>3
  <1>5. ASSUME NEW x \in Worker, NEW m \in Message, Handles(x, m, "sent")'
        PROVE  m \in sent'
    <2>1. CASE x = w
      BY <1>1, <1>5, <2>1 DEF Handles
    <2>2. CASE x # w
      BY <1>1, <1>5, <2>2 DEF Handles, IInv, WhereaboutsInv
    <2>3. QED BY <2>1, <2>2
  <1>6. WhereaboutsInv'
    BY <1>4, <1>5 DEF WhereaboutsInv
  <1>7. QED BY <1>2, <1>3, <1>6 DEF IInv

LEMMA DeliverIInv ==
    ASSUME IInv, NEW w \in Worker, NEW m \in Message, NEW as \in {"email", "push"},
           Deliver(w, m, as)
    PROVE  IInv'
  <1> DEFINE r == [message |-> {m}, as |-> as, at |-> "taken"]
  <1>1. /\ work[w].message = {} /\ queue[m] > 0
        /\ queue' = [queue EXCEPT ![m] = @ - 1]
        /\ work' = [work EXCEPT ![w] = r]
        /\ UNCHANGED <<notifier, sent, crossed, published, missed, failures>>
    BY DEF Deliver, Free
  <1>2. r \in WorkRecord /\ r.message = {m} /\ r.at = "taken"
    BY DEF WorkRecord
  <1>3. /\ queue' \in [Message -> Nat] /\ \A n \in Message \ {m} : queue'[n] = queue[n]
    BY <1>1 DEF IInv, TypeOK
  <1>4. failures' \in 0..MaxFailures /\ sent' \subseteq Message /\ crossed' \subseteq Message
    BY <1>1 DEF IInv, TypeOK
  <1> HIDE DEF r
  <1>5. \A n \in Message : queue[n] > 0 => queue'[n] > 0 \/ r.message = {n}
    BY <1>2, <1>3
  <1>6. /\ \A n \in Message : work[w].message # {n}
        /\ \A n \in Message : r.message = {n} /\ r.at = "sent" => n \in sent'
    BY <1>1, <1>2
  <1>7. sent \subseteq sent' /\ crossed \subseteq crossed'
    BY <1>1
  <1>8. UNCHANGED <<notifier, published, missed>>
    BY <1>1
  <1>9. QED BY <1>1, <1>2, <1>3, <1>4, <1>5, <1>6, <1>7, <1>8, SenderIInv

LEMMA SendIInv ==
    ASSUME IInv, NEW w \in Worker, NEW m \in Message, Send(w, m)
    PROVE  IInv'
  <1>1. /\ work[w].message = {m} /\ sent' = sent \cup {m}
        /\ work' = [work EXCEPT ![w].at = "sent"]
        /\ UNCHANGED <<notifier, queue, crossed, published, missed, failures>>
    BY DEF Send, Handles, IInv, TypeOK
  <1>2. PICK r \in WorkRecord : work' = [work EXCEPT ![w] = r] /\ r.message = {m}
    <2> DEFINE q == [work[w] EXCEPT !.at = "sent"]
    <2>1. work[w] \in WorkRecord
      BY DEF IInv, TypeOK, WorkRecord
    <2>2. q \in WorkRecord /\ q.message = {m}
      BY <1>1, <2>1 DEF WorkRecord
    <2>3. work' = [work EXCEPT ![w] = q]
      BY <1>1
    <2>4. QED BY <2>2, <2>3
  <1>3. /\ queue' \in [Message -> Nat] /\ failures' \in 0..MaxFailures
        /\ sent' \subseteq Message /\ crossed' \subseteq Message
    BY <1>1 DEF IInv, TypeOK
  <1>4. sent \subseteq sent' /\ crossed \subseteq crossed'
    BY <1>1
  <1>5. UNCHANGED <<notifier, published, missed>>
    BY <1>1
  <1>6. \A n \in Message : queue[n] > 0 => queue'[n] > 0 \/ r.message = {n}
    BY <1>1
  <1>7. \A n \in Message : r.message = {n} /\ r.at = "sent" => n \in sent'
    BY <1>1, <1>2
  <1>8. \A n \in Message :
           work[w].message = {n} => queue'[n] > 0 \/ r.message = {n} \/ n \in sent' \cup crossed'
    BY <1>1, <1>2
  <1>9. QED BY <1>2, <1>3, <1>4, <1>5, <1>6, <1>7, <1>8, SenderIInv, ZenonT(60)

(* A message in hand is let go of: it is queued again, sent or dropped.    *)
LEMMA LetGoIInv ==
    ASSUME IInv, NEW w \in Worker, NEW m \in Message, work[w].message = {m},
           work' = [work EXCEPT ![w] = Free],
           UNCHANGED <<notifier, published, missed>>,
           queue' \in {queue, [queue EXCEPT ![m] = @ + 1]},
           sent' \in {sent, sent \cup {m}}, crossed' \in {crossed, crossed \cup {m}},
           queue' # queue \/ m \in sent' \cup crossed',
           failures' \in 0..MaxFailures
    PROVE  IInv'
  <1> DEFINE r == Free
  <1>1. r \in WorkRecord /\ r.message = {} /\ work' = [work EXCEPT ![w] = r]
    BY RestingTypes DEF Free
  <1>2. /\ queue' \in [Message -> Nat] /\ \A n \in Message : queue[n] > 0 => queue'[n] > 0
        /\ queue' # queue => queue'[m] > 0
    <2>1. queue \in [Message -> Nat]
      BY DEF IInv, TypeOK
    <2>2. CASE queue' = queue
      BY <2>1, <2>2
    <2>3. CASE queue' = [queue EXCEPT ![m] = @ + 1]
      <3>1. queue' \in [Message -> Nat] /\ queue'[m] = queue[m] + 1
        BY <2>1, <2>3
      <3>2. \A n \in Message \ {m} : queue'[n] = queue[n]
        BY <2>1, <2>3
      <3>3. QED BY <2>1, <3>1, <3>2
    <2>4. QED BY <2>2, <2>3
  <1>3. /\ sent \subseteq sent' /\ sent' \subseteq Message
        /\ crossed \subseteq crossed' /\ crossed' \subseteq Message
    BY DEF IInv, TypeOK
  <1>4. /\ UNCHANGED <<notifier, published, missed>> /\ failures' \in 0..MaxFailures
        /\ queue' # queue \/ m \in sent' \cup crossed'
    OBVIOUS
  <1> HIDE DEF r
  <1>5. /\ \A n \in Message : queue[n] > 0 => queue'[n] > 0 \/ r.message = {n}
        /\ \A n \in Message : r.message = {n} /\ r.at = "sent" => n \in sent'
        /\ \A n \in Message :
              work[w].message = {n} => queue'[n] > 0 \/ r.message = {n} \/ n \in sent' \cup crossed'
    <2>1. /\ \A n \in Message : r.message # {n}
          /\ \A n \in Message : work[w].message = {n} => n = m
      BY <1>1
    <2>2. QED BY <1>2, <1>4, <2>1
  <1>6. QED BY <1>1, <1>2, <1>3, <1>4, <1>5, SenderIInv

LEMMA SendsIInv ==
    ASSUME IInv, NEW w \in Worker, NEW m \in Message, Sends(w, m) \/ HandlerFails(w, m)
    PROVE  IInv'
  <1>1. CASE Send(w, m)
    BY <1>1, SendIInv
  <1>2. CASE Ack(w, m)
    <2>1. m \in sent
      BY <1>2 DEF Ack, IInv, WhereaboutsInv
    <2>2. /\ work[w].message = {m} /\ work' = [work EXCEPT ![w] = Free]
          /\ UNCHANGED <<notifier, queue, sent, crossed, published, missed, failures>>
      BY <1>2 DEF Ack, Handles
    <2>3. failures' \in 0..MaxFailures
      BY <2>2 DEF IInv, TypeOK
    <2>4. QED BY <2>1, <2>2, <2>3, LetGoIInv
  <1>3. CASE Drop(w, m)
    <2>1. /\ work[w].message = {m} /\ work' = [work EXCEPT ![w] = Free]
          /\ crossed' = crossed \cup {m}
          /\ UNCHANGED <<notifier, queue, sent, published, missed, failures>>
      BY <1>3 DEF Drop, Handles
    <2>2. failures' \in 0..MaxFailures
      BY <2>1 DEF IInv, TypeOK
    <2>3. QED BY <2>1, <2>2, LetGoIInv
  <1>4. CASE HandlerFails(w, m)
    <2>1. /\ work[w].message = {m} /\ work' = [work EXCEPT ![w] = Free]
          /\ queue' = [queue EXCEPT ![m] = @ + 1] /\ sent' \in {sent, sent \cup {m}}
          /\ UNCHANGED <<notifier, crossed, published, missed>>
      BY <1>4 DEF HandlerFails
    <2>2. failures' \in 0..MaxFailures
      BY <1>4, NotificationConstants DEF HandlerFails, Fails, IInv, TypeOK
    <2>3. queue' # queue
      <3>1. queue[m] \in Nat /\ queue'[m] = queue[m] + 1
        BY <2>1 DEF IInv, TypeOK
      <3>2. QED BY <3>1
    <2>4. QED BY <2>1, <2>2, <2>3, LetGoIInv
  <1>5. CASE Refuse(w, m)
    <2>1. /\ work[w].message = {m} /\ work' = [work EXCEPT ![w] = Free]
          /\ queue' = [queue EXCEPT ![m] = @ + 1]
          /\ UNCHANGED <<notifier, sent, crossed, published, missed, failures>>
      BY <1>5 DEF Refuse, Handles
    <2>2. failures' \in 0..MaxFailures
      BY <2>1 DEF IInv, TypeOK
    <2>3. queue' # queue
      <3>1. queue[m] \in Nat /\ queue'[m] = queue[m] + 1
        BY <2>1 DEF IInv, TypeOK
      <3>2. QED BY <3>1
    <2>4. QED BY <2>1, <2>2, <2>3, LetGoIInv
  <1>6. QED BY <1>1, <1>2, <1>3, <1>4, <1>5 DEF Sends

-----------------------------------------------------------------------------
(* The theorems.                                                           *)

LEMMA NextIInv == IInv /\ [Next]_vars => IInv'
  <1> SUFFICES ASSUME IInv, [Next]_vars PROVE IInv'
    OBVIOUS
  <1>1. ASSUME NEW e \in Event, Arrive(e) PROVE IInv'
    BY <1>1, ArriveIInv
  <1>2. ASSUME NEW a \in Attempt, NEW e \in Event, Take(a, e) \/ Notifies(a, e) \/ Dies(a, e)
        PROVE  IInv'
    <2>1. CASE Take(a, e)
      BY <2>1, TakeIInv
    <2>2. CASE Return(a, e)
      BY <2>2, ReturnIInv
    <2>3. ASSUME NEW role \in Role,
                 Persist(a, e, role) \/ PersistFails(a, e, role) \/ Publish(a, e, role)
          PROVE  IInv'
      BY <2>3, PersistIInv, PersistFailsIInv, PublishIInv
    <2>4. CASE Dies(a, e)
      BY <2>4, DiesIInv
    <2>5. QED BY <1>2, <2>1, <2>2, <2>3, <2>4 DEF Notifies
  <1>3. ASSUME NEW w \in Worker, NEW m \in Message, NEW as \in {"email", "push"}, Deliver(w, m, as)
        PROVE  IInv'
    BY <1>3, DeliverIInv
  <1>4. ASSUME NEW w \in Worker, NEW m \in Message, Sends(w, m) \/ HandlerFails(w, m)
        PROVE  IInv'
    BY <1>4, SendsIInv
  <1>5. CASE UNCHANGED vars
    <2>1. UNCHANGED <<notifier, published, missed>> /\ UNCHANGED <<queue, sender, published>>
      BY <1>5 DEF vars
    <2>2. HeldInv' /\ ProgressInv' /\ AcknowledgedMeansNotified' /\ CountInv' /\ WhereaboutsInv'
      BY <2>1, SameHandler, SameWhereabouts DEF IInv
    <2>3. TypeOK'
      BY <1>5 DEF IInv, TypeOK, vars, notifier, sender
    <2>4. QED BY <2>2, <2>3 DEF IInv
  <1>6. QED BY <1>1, <1>2, <1>3, <1>4, <1>5 DEF Next

(* What every reachable state satisfies: nobody but one execution holds an *)
(* event, and what it has done with each role so far; enough deliveries    *)
(* and notices for what is stored and published and will be; and where     *)
(* every published message is.                                             *)
THEOREM Invariance == Spec => []IInv
  BY InitIInv, NextIInv, PTL DEF Spec

(* Events, executions, notices, messages and histories are of their types. *)
THEOREM TypeCorrect == Spec => []TypeOK
  <1>1. IInv => TypeOK
    BY DEF IInv
  <1>2. QED BY <1>1, Invariance, PTL

(* The worker acknowledges an event of a service request only after all it *)
(* is news for have their in-app notification and their messages were      *)
(* handed to the broker, or lost on the way to it: however the tasks of    *)
(* the two roles interleave, fail or outlive the execution they are of.    *)
THEOREM AcknowledgedNotified == Spec => []AcknowledgedMeansNotified
  <1>1. IInv => AcknowledgedMeansNotified
    BY DEF IInv
  <1>2. QED BY <1>1, Invariance, PTL

(* notify() awaits the in-app notification before it publishes: no more    *)
(* e-mails or pushes than notifications, no more notifications than        *)
(* deliveries, however many executions of one event overlap.               *)
THEOREM NoticesFirst == Spec => []NoticeComesFirst
  <1>1. ASSUME IInv PROVE NoticeComesFirst
    <2>1. ASSUME NEW e \in Event, NEW role \in Role
          PROVE  /\ notices[e][role] <= deliveries[e]
                 /\ \A m \in MessagesFor(e, role) : published[m] <= notices[e][role]
      <3> DEFINE k == Cardinality(Doing(e, role, "persist"))
                 l == Cardinality(Doing(e, role, "publish"))
      <3>1. \A at : IsFiniteSet(Doing(e, role, at))
        <4>1. \A at : Doing(e, role, at) \subseteq Attempt
          BY DEF Doing
        <4>2. QED BY <4>1, NotificationConstants, FS_Subset
      <3>2. k \in Nat /\ l \in Nat
        BY <3>1, FS_CardinalityType
      <3>3. /\ notices[e][role] + k <= deliveries[e]
            /\ \A m \in MessagesFor(e, role) : published[m] + l <= notices[e][role]
        BY <1>1 DEF IInv, CountInv, Counted
      <3> HIDE DEF k, l
      <3>4. /\ deliveries[e] \in Nat /\ notices[e][role] \in Nat
            /\ \A m \in MessagesFor(e, role) : published[m] \in Nat
        BY <1>1, MessageShape DEF IInv, TypeOK
      <3>5. QED BY <3>2, <3>3, <3>4
    <2>2. \A m \in Message : published[m] <= notices[m.event][m.role]
      BY <2>1, MessageShape
    <2>3. QED BY <2>1, <2>2 DEF NoticeComesFirst
  <1>2. QED BY <1>1, Invariance, PTL

(* Of the messages in worker.notifications only those handed to the        *)
(* handler of the other kind are lost: failing senders, dying workers and  *)
(* answers that get lost leave every other one queued, in handling or      *)
(* sent.                                                                   *)
THEOREM NothingElseLost == Spec => []OnlyCrossingLoses
  <1>1. IInv => OnlyCrossingLoses
    BY DEF IInv, WhereaboutsInv, OnlyCrossingLoses, TypeOK
  <1>2. QED BY <1>1, Invariance, PTL
=============================================================================
