--------------------------- MODULE Notifications ---------------------------
(***************************************************************************)
(* From a service_request event to the e-mail and the push on the phone.   *)
(* ServiceRequestHandler stores an in-app notification for each role the   *)
(* event concerns, then publishes an e-mail and a push message without     *)
(* awaiting either.  For a completed request it does so for both roles at  *)
(* once: when one of the two fails, Promise.all throws, the event goes     *)
(* back to its queue, and the other of the two goes on by itself, next to  *)
(* the redelivered event.                                                  *)
(*                                                                         *)
(* EmailConsumer and PushConsumer subscribe to ONE queue, which deals its  *)
(* messages to them in turn: each handler also gets messages of the other, *)
(* finds neither a template nor a token, and drops them.                   *)
(***************************************************************************)
EXTENDS Naturals, FiniteSets

CONSTANTS Event,       \* service_request.* events that may be published
          TypeOf,      \* TypeOf[e]: its event_type, "none" if the payload has none
          Tokens,      \* the <<e, role>> whose payload has an fcm_token
          Refused,     \* messages that their SMTP server or Firebase refuses every time
          Attempt,     \* executions of the handler that may be under way
          Worker,      \* notification messages that may be in handling
          MaxFailures  \* bound: statements that fail

Role == {"contractor", "provider"}
EventType == {"created", "accepted", "rejected", "completed", "cancelled"}

ASSUME NotificationConstants ==
    /\ TypeOf \in [Event -> EventType \cup {"none"}]
    /\ Tokens \subseteq Event \X Role
    /\ IsFiniteSet(Attempt)
    /\ MaxFailures \in Nat

VARIABLES
    event,      \* event[e]: "new", "waiting" in worker.service-requests, "held" or "acked"
    attempt,    \* attempt[a]: an execution of the handler
    notices,    \* notices[e][role]: its in-app notifications (MongoDB)
    queue,      \* queue[m]: copies of m in worker.notifications
    work,       \* work[w]: the message w is handling
    deliveries, \* history: how often e was delivered
    published,  \* history: how often m was published
    missed,     \* history: the messages that a publish has lost
    sent,       \* history: the messages that went out at least once
    crossed,    \* history: the messages that the other handler has dropped
    failures    \* failures so far

notifier == <<event, attempt, notices, deliveries>>
sender == <<work, sent, crossed>>
vars == <<notifier, queue, sender, published, missed, failures>>

\* The switch of handle(): the roles each event_type is news for.
Recipients(type) ==
    CASE type \in {"created", "cancelled"} -> {"provider"}
      [] type \in {"accepted", "rejected"} -> {"contractor"}
      [] type = "completed" -> Role
      [] OTHER -> {}

\* What notify() may publish: an e-mail, and a push if there is a token.
Message ==
    {m \in [kind : {"email", "push"}, event : Event, role : Role] :
       /\ m.role \in Recipients(TypeOf[m.event])
       /\ m.kind = "push" => <<m.event, m.role>> \in Tokens}

ASSUME RefusedAssumption == Refused \subseteq Message

MessagesFor(e, role) == {m \in Message : m.event = e /\ m.role = role}

NoTasks == [role \in Role |-> "none"]
Idle == [event |-> {}, held |-> FALSE, task |-> NoTasks]
Free == [message |-> {}, as |-> "none", at |-> "free"]

Init ==
    /\ event = [e \in Event |-> "new"]
    /\ attempt = [a \in Attempt |-> Idle]
    /\ notices = [e \in Event |-> [role \in Role |-> 0]]
    /\ queue = [m \in Message |-> 0]
    /\ work = [w \in Worker |-> Free]
    /\ deliveries = [e \in Event |-> 0]
    /\ published = [m \in Message |-> 0]
    /\ missed = {}
    /\ sent = {}
    /\ crossed = {}
    /\ failures = 0

Fails ==
    /\ failures < MaxFailures
    /\ failures' = failures + 1

-----------------------------------------------------------------------------
(* The handler of service_request.* events.                                *)

\* An event arrives.  The use cases of the API publish theirs without event_type
\* (CreateServiceRequestUseCase, CompleteServiceRequestUseCase).
Arrive(e) ==
    /\ event[e] = "new"
    /\ event' = [event EXCEPT ![e] = "waiting"]
    /\ UNCHANGED <<attempt, notices, deliveries, queue, sender, published, missed, failures>>

Begins(a, e) ==
    /\ attempt[a] = Idle
    /\ event[e] = "waiting"
    /\ event' = [event EXCEPT ![e] = "held"]
    /\ attempt' = [attempt EXCEPT ![a] =
          [event |-> {e}, held |-> TRUE,
           task |-> [role \in Role |-> IF role \in Recipients(TypeOf[e]) THEN "persist" ELSE "none"]]]
    /\ deliveries' = [deliveries EXCEPT ![e] = @ + 1]
    /\ UNCHANGED <<notices, queue, sender, published, missed, failures>>

\* A mutated switch whose default branch throws: the event is put back as it was.
TakeOrThrow(a, e) == Recipients(TypeOf[e]) # {} /\ Begins(a, e)

\* handle(): one task for each notify() that is called.
Take(a, e) == Begins(a, e)

Runs(a, e, role, at) == attempt[a].event = {e} /\ attempt[a].task[role] = at

\* A mutated notify() that does not await persist.
PersistUnawaited(a, e, role) ==
    /\ Runs(a, e, role, "persist")
    /\ \E stored \in {0, 1} : notices' = [notices EXCEPT ![e][role] = @ + stored]
    /\ attempt' = [attempt EXCEPT ![a].task[role] = "publish"]
    /\ UNCHANGED <<event, deliveries, queue, sender, published, missed, failures>>

\* await notificationHandler.persist(...).
Persist(a, e, role) ==
    /\ Runs(a, e, role, "persist")
    /\ notices' = [notices EXCEPT ![e][role] = @ + 1]
    /\ attempt' = [attempt EXCEPT ![a].task[role] = "publish"]
    /\ UNCHANGED <<event, deliveries, queue, sender, published, missed, failures>>

\* A mutated notifyCompleted() with Promise.allSettled for Promise.all.
PersistFailsQuietly(a, e, role) ==
    /\ Runs(a, e, role, "persist")
    /\ Fails
    /\ attempt' = [attempt EXCEPT ![a].task[role] = "none"]
    /\ UNCHANGED <<event, notices, deliveries, queue, sender, published, missed>>

\* persist throws, perhaps after the document was stored.  If the event is still
\* held, Promise.all and the consumer throw, and it goes back to its queue; the task
\* of the other role is not stopped.
PersistFails(a, e, role) ==
    /\ Runs(a, e, role, "persist")
    /\ Fails
    /\ \E stored \in {0, 1} : notices' = [notices EXCEPT ![e][role] = @ + stored]
    /\ LET ended == [attempt[a] EXCEPT !.task[role] = "none"]
       IN  attempt' = [attempt EXCEPT ![a] = [ended EXCEPT !.held = FALSE]]
    /\ event' = [event EXCEPT ![e] = IF attempt[a].held THEN "waiting" ELSE @]
    /\ UNCHANGED <<deliveries, queue, sender, published, missed>>

\* The two publishes, not awaited; the error of either is logged and dropped.  A
\* connection that breaks before the broker has confirmed hands the message over again.
Publish(a, e, role) ==
    /\ Runs(a, e, role, "publish")
    /\ attempt' = [attempt EXCEPT ![a].task[role] = "none"]
    /\ \E P \in SUBSET MessagesFor(e, role) : \E again \in SUBSET P :
          /\ queue' = [m \in Message |-> IF m \in again THEN queue[m] + 2
                                         ELSE IF m \in P THEN queue[m] + 1 ELSE queue[m]]
          /\ published' = [m \in Message |-> IF m \in P THEN published[m] + 1 ELSE published[m]]
          /\ missed' = missed \cup (MessagesFor(e, role) \ P)
          /\ IF again = {} THEN UNCHANGED failures ELSE Fails
    /\ UNCHANGED <<event, notices, deliveries, sender>>

\* The handler returns: the event is acknowledged, if this execution still holds it.
Return(a, e) ==
    /\ attempt[a].event = {e}
    /\ attempt[a].task = NoTasks
    /\ attempt' = [attempt EXCEPT ![a] = Idle]
    /\ event' = [event EXCEPT ![e] = IF attempt[a].held THEN "acked" ELSE @]
    /\ UNCHANGED <<notices, deliveries, queue, sender, published, missed, failures>>

\* The worker dies in the middle of an execution, or its channel closes.
Dies(a, e) ==
    /\ attempt[a].event = {e}
    /\ Fails
    /\ attempt' = [attempt EXCEPT ![a] = Idle]
    /\ event' = [event EXCEPT ![e] = IF attempt[a].held THEN "waiting" ELSE @]
    /\ UNCHANGED <<notices, deliveries, queue, sender, published, missed>>

-----------------------------------------------------------------------------
(* E-mail and push.                                                        *)

\* The broker hands a message to one of the two subscribers: "as" is its handler.
Deliver(w, m, as) ==
    /\ work[w] = Free
    /\ queue[m] > 0
    /\ queue' = [queue EXCEPT ![m] = @ - 1]
    /\ work' = [work EXCEPT ![w] = [message |-> {m}, as |-> as, at |-> "taken"]]
    /\ UNCHANGED <<notifier, sent, crossed, published, missed, failures>>

Handles(w, m, at) == work[w].message = {m} /\ work[w].at = at

\* The SMTP server or Firebase, which is configured, takes the message.
Send(w, m) ==
    /\ Handles(w, m, "taken")
    /\ work[w].as = m.kind
    /\ m \notin Refused
    /\ sent' = sent \cup {m}
    /\ work' = [work EXCEPT ![w].at = "sent"]
    /\ UNCHANGED <<notifier, queue, crossed, published, missed, failures>>

\* The message is acknowledged.
Ack(w, m) ==
    /\ Handles(w, m, "sent")
    /\ work' = [work EXCEPT ![w] = Free]
    /\ UNCHANGED <<notifier, queue, sent, crossed, published, missed, failures>>

\* The other handler returns early, for want of a template or a token, and the
\* message is acknowledged.
Drop(w, m) ==
    /\ Handles(w, m, "taken")
    /\ work[w].as # m.kind
    /\ crossed' = crossed \cup {m}
    /\ work' = [work EXCEPT ![w] = Free]
    /\ UNCHANGED <<notifier, queue, sent, published, missed, failures>>

\* A mutated consumer whose catch block does not throw again.
HandlerFailsQuietly(w, m) ==
    /\ work[w].message = {m}
    /\ work[w].as = m.kind
    /\ Fails
    /\ work' = [work EXCEPT ![w] = Free]
    /\ UNCHANGED <<notifier, queue, sent, crossed, published, missed>>

\* Sending fails, perhaps after the message went out, and the consumer throws again,
\* or the worker dies: RabbitMQ has the message back.
HandlerFails(w, m) ==
    /\ work[w].message = {m}
    /\ work[w].as = m.kind
    /\ Fails
    /\ sent' \in {sent, sent \cup ({m} \ Refused)}
    /\ queue' = [queue EXCEPT ![m] = @ + 1]
    /\ work' = [work EXCEPT ![w] = Free]
    /\ UNCHANGED <<notifier, crossed, published, missed>>

\* The message is refused, as it is every time, and the consumer throws: the default of
\* the library puts it back into its queue, however often it was there.
Refuse(w, m) ==
    /\ Handles(w, m, "taken")
    /\ work[w].as = m.kind
    /\ m \in Refused
    /\ queue' = [queue EXCEPT ![m] = @ + 1]
    /\ work' = [work EXCEPT ![w] = Free]
    /\ UNCHANGED <<notifier, sent, crossed, published, missed, failures>>

-----------------------------------------------------------------------------
Notifies(a, e) ==
    \/ Return(a, e)
    \/ \E role \in Role : Persist(a, e, role) \/ PersistFails(a, e, role) \/ Publish(a, e, role)

Sends(w, m) == Send(w, m) \/ Ack(w, m) \/ Drop(w, m) \/ Refuse(w, m)

Next ==
    \/ \E e \in Event : Arrive(e)
    \/ \E a \in Attempt, e \in Event : Take(a, e) \/ Notifies(a, e) \/ Dies(a, e)
    \/ \E w \in Worker, m \in Message, as \in {"email", "push"} : Deliver(w, m, as)
    \/ \E w \in Worker, m \in Message : Sends(w, m) \/ HandlerFails(w, m)

Spec == Init /\ [][Next]_vars

\* A handler that has begun goes on.  RabbitMQ delivers every message in its turn: each
\* consumer may hold ten messages (the default of the library), so that those which are
\* refused and put back leave room for the others as long as they are fewer than that.
FairSpec ==
    /\ Spec
    /\ \A a \in Attempt : WF_vars(\E e \in Event : Take(a, e) \/ Notifies(a, e))
    /\ \A w \in Worker : WF_vars(\E m \in Message : Sends(w, m))
    /\ \A m \in Message : SF_vars(\E w \in Worker, as \in {"email", "push"} : Deliver(w, m, as))

-----------------------------------------------------------------------------
(* Properties.                                                             *)

TypeOK ==
    /\ event \in [Event -> {"new", "waiting", "held", "acked"}]
    /\ attempt \in [Attempt -> [event : SUBSET Event, held : BOOLEAN,
                                task : [Role -> {"none", "persist", "publish"}]]]
    /\ notices \in [Event -> [Role -> Nat]]
    /\ queue \in [Message -> Nat]
    /\ work \in [Worker -> [message : SUBSET Message, as : {"none", "email", "push"},
                            at : {"free", "taken", "sent"}]]
    /\ deliveries \in [Event -> Nat]
    /\ published \in [Message -> Nat]
    /\ missed \in SUBSET Message
    /\ sent \in SUBSET Message
    /\ crossed \in SUBSET Message
    /\ failures \in 0..MaxFailures

\* An event is acknowledged only after everybody it is news for has an in-app
\* notification and the messages were handed to the broker, or lost on the way to it:
\* although the tasks of the two roles run side by side and either may fail.
AcknowledgedMeansNotified ==
    \A e \in Event : event[e] = "acked" =>
       \A role \in Recipients(TypeOf[e]) :
          /\ notices[e][role] > 0
          /\ \A m \in MessagesFor(e, role) : published[m] > 0 \/ m \in missed

\* No e-mail or push is published before its in-app notification is stored, nor more
\* of them than notifications, even while executions of one event overlap; and only
\* redelivery doubles a notification.
NoticeComesFirst ==
    /\ \A m \in Message : published[m] <= notices[m.event][m.role]
    /\ \A e \in Event, role \in Role : notices[e][role] <= deliveries[e]

InHandling(m) == \E w \in Worker : work[w].message = {m}

\* A published message that is no longer anywhere has gone out, unless the handler of
\* the other kind dropped it: failing senders, dying workers and lost answers lose none.
\* Nor is a message given up that is refused every time, for which the comment in
\* EmailConsumer (line 27) and SPEC-WORKER.md (lines 170, 442) name a dead-letter queue.
OnlyCrossingLoses ==
    \A m \in Message : published[m] > 0 /\ queue[m] = 0 /\ ~InHandling(m) => m \in sent \cup crossed

\* Both queues drain, but for the messages that are refused every time: no event and no
\* other message is put back for ever, those without a known event_type, template or
\* token included, although a refused message keeps coming back between them.
QueuesDrain ==
    <>[](/\ \A e \in Event : event[e] \in {"new", "acked"}
         /\ \A m \in Message \ Refused : queue[m] = 0)

=============================================================================
