------------------------------ MODULE Producer ------------------------------
(***************************************************************************)
(* RabbitMQMessageProducer: send and the calls built on it, their results  *)
(* and the counters of getMetrics.  Calls overlap; what happens between a  *)
(* publish and its confirmation is the connection's: it may give a message *)
(* to the broker again after a reconnect, and it may reject a publish      *)
(* whose message the broker has taken.                                     *)
(***************************************************************************)
EXTENDS Naturals, FiniteSets, Sequences, SequencesExt

CONSTANTS
    Message,    \* the messages handed to the producer
    Caller,     \* calls in progress at once
    MaxCopies   \* bound: how often the broker takes one message

ASSUME MessageAssumption == IsFiniteSet(Message)
ASSUME CopiesAssumption == MaxCopies \in Nat \ {0}

VARIABLES
    call,       \* per caller: the call in progress
    publish,    \* per message: its amqpConnection.publish
    taken,      \* per message: how often the broker has taken it
    answer,     \* per message: the result its caller was given
    metrics,    \* totalSent and totalFailed
    late        \* history: messages whose confirmation was waited for in vain

vars == <<call, publish, taken, answer, metrics, late>>

-------------------------------------------------------------------------------
(* sendWithQoS and sendWithTTL are send.                                   *)
Single == {"send", "confirmed", "delayed"}

Batch == {"parallel", "sequence"}

(* A call: its messages, the next to publish, and those that have ended.   *)
Call == [kind : Single \cup Batch \cup {"none"}, batch : Seq(Message), next : Nat,
         ok : SUBSET Message, failed : SUBSET Message]

Idle == [kind |-> "none", batch |-> <<>>, next |-> 1, ok |-> {}, failed |-> {}]

TypeOK ==
    /\ call \in [Caller -> Call]
    /\ publish \in [Message -> {"none", "pending", "confirmed", "rejected"}]
    /\ taken \in [Message -> 0..MaxCopies]
    /\ answer \in [Message -> {"none", "success", "failure", "thrown"}]
    /\ metrics \in [sent : Nat, failed : Nat]
    /\ late \subseteq Message

Init ==
    /\ call = [c \in Caller |-> Idle]
    /\ publish = [m \in Message |-> "none"]
    /\ taken = [m \in Message |-> 0]
    /\ answer = [m \in Message |-> "none"]
    /\ metrics = [sent |-> 0, failed |-> 0]
    /\ late = {}

First(batch, n) == {batch[i] : i \in 1..n}

(* The messages of a call that are with the connection.                    *)
Awaited(c) == {m \in First(call[c].batch, call[c].next - 1) : publish[m] = "pending"}

(* Messages no call has been given.                                        *)
Fresh == {m \in Message : publish[m] = "none" /\ \A c \in Caller : m \notin ToSet(call[c].batch)}

-------------------------------------------------------------------------------
Publish(S) == publish' = [m \in Message |-> IF m \in S THEN "pending" ELSE publish[m]]

(* A call that has given its first messages to the connection.             *)
Begun(kind, batch, n) ==
    [kind |-> kind, batch |-> batch, next |-> n + 1, ok |-> {}, failed |-> {}]

(* send, sendWithConfirmation and sendDelayed: one message.                *)
Send(c, kind, m) ==
    /\ call[c] = Idle
    /\ kind \in Single
    /\ m \in Fresh
    /\ call' = [call EXCEPT ![c] = Begun(kind, <<m>>, 1)]
    /\ Publish({m})
    /\ UNCHANGED <<taken, answer, metrics, late>>

(* In parallel all of a batch is with the connection before the first      *)
(* await, otherwise only its first message.                                *)
Starts(kind, batch) == IF kind = "parallel" THEN Len(batch) ELSE 1

(* sendBatch.                                                              *)
SendBatch(c, kind, batch) ==
    /\ call[c] = Idle
    /\ kind \in Batch
    /\ ToSet(batch) \subseteq Fresh /\ Len(batch) > 1
    /\ call' = [call EXCEPT ![c] = Begun(kind, batch, Starts(kind, batch))]
    /\ Publish(First(batch, Starts(kind, batch)))
    /\ UNCHANGED <<taken, answer, metrics, late>>

(* External: the broker takes the message, or takes it again.              *)
Take(m) ==
    /\ publish[m] = "pending"
    /\ taken[m] < MaxCopies
    /\ taken' = [taken EXCEPT ![m] = @ + 1]
    /\ UNCHANGED <<call, publish, answer, metrics, late>>

\* A mutated batch for which every promise of send that is fulfilled is a
\* message sent.
AnswersFulfilled(kind, told, failed) ==
    answer' = [m \in Message |-> IF m \in told \cup failed THEN "success" ELSE answer[m]]

(* The results a call returns; the failure of sendDelayed, which has no    *)
(* try, is thrown.                                                         *)
Answers(kind, told, failed) ==
    answer' = [m \in Message |-> IF m \in told THEN "success"
                                 ELSE IF m \notin failed THEN answer[m]
                                 ELSE IF kind = "delayed" THEN "thrown" ELSE "failure"]

\* A mutated send that counts a message before it publishes it.
CountsEarly(kind, ends) == metrics' = [metrics EXCEPT !.sent = @ + 1]

(* send counts its publish when it has ended, whoever still waits for it;  *)
(* sendDelayed does not count its failures.                                *)
Counts(kind, ends) ==
    metrics' = [metrics EXCEPT !.sent = IF ends = "confirmed" THEN @ + 1 ELSE @,
                               !.failed = IF ends = "rejected" /\ kind # "delayed"
                                          THEN @ + 1 ELSE @]

(* The publish of m has ended, well or not, and its call goes on: with the *)
(* next message of its batch, with waiting, or with its results.           *)
Settles(c, m, ends) ==
    LET n      == call[c].next
        batch  == call[c].batch
        ok     == IF ends = "confirmed" THEN call[c].ok \cup {m} ELSE call[c].ok
        failed == IF ends = "rejected" THEN call[c].failed \cup {m} ELSE call[c].failed
        on     == [call[c] EXCEPT !.ok = ok, !.failed = failed]
    IN  /\ Counts(call[c].kind, ends)
        /\ \/ /\ n <= Len(batch)
              /\ call' = [call EXCEPT ![c] = [on EXCEPT !.next = n + 1]]
              /\ publish' = [publish EXCEPT ![m] = ends, ![batch[n]] = "pending"]
              /\ UNCHANGED answer
           \/ /\ n > Len(batch)
              /\ publish' = [publish EXCEPT ![m] = ends]
              /\ IF Awaited(c) = {m}
                 THEN call' = [call EXCEPT ![c] = Idle] /\ Answers(call[c].kind, ok, failed)
                 ELSE call' = [call EXCEPT ![c] = on] /\ UNCHANGED answer

Confirm(c, m) ==
    /\ m \in Awaited(c)
    /\ taken[m] > 0
    /\ Settles(c, m, "confirmed")
    /\ UNCHANGED <<taken, late>>

Reject(c, m) ==
    /\ m \in Awaited(c)
    /\ Settles(c, m, "rejected")
    /\ UNCHANGED <<taken, late>>

(* The timeout of sendWithConfirmation: its caller is told of a failure,   *)
(* and the send goes on by itself.                                         *)
Timeout(c) ==
    /\ call[c].kind = "confirmed"
    /\ Answers("confirmed", {}, Awaited(c))
    /\ late' = late \cup Awaited(c)
    /\ call' = [call EXCEPT ![c] = Idle]
    /\ UNCHANGED <<publish, taken, metrics>>

(* The end of a send nobody waits for any longer.                          *)
SettleLate(m) ==
    /\ m \in late
    /\ publish[m] = "pending"
    /\ \/ /\ taken[m] > 0
          /\ publish' = [publish EXCEPT ![m] = "confirmed"]
          /\ Counts("confirmed", "confirmed")
       \/ /\ publish' = [publish EXCEPT ![m] = "rejected"]
          /\ Counts("confirmed", "rejected")
    /\ UNCHANGED <<call, taken, answer, late>>

Next ==
    \/ \E c \in Caller, m \in Message :
          \/ \E kind \in Single : Send(c, kind, m)
          \/ Confirm(c, m) \/ Reject(c, m)
    \/ \E c \in Caller, kind \in Batch : \E batch \in SetToAllKPermutations(Fresh) : SendBatch(c, kind, batch)
    \/ \E c \in Caller : Timeout(c)
    \/ \E m \in Message : Take(m) \/ SettleLate(m)

Spec == Init /\ [][Next]_vars

-------------------------------------------------------------------------------
(* Properties                                                              *)

(* Every caller is told what Outbox allows: at most one result for each    *)
(* message, whatever the batch, and no success the broker does not know of.*)
ToldAs(m) == IF answer[m] = "thrown" THEN "failure" ELSE answer[m]

Promise == INSTANCE Outbox WITH answer <- [m \in Message |-> ToldAs(m)]

ImplementsOutbox == Promise!Spec

(* totalSent and totalFailed follow the results through overlapping calls: *)
(* a message counted as sent was reported so, waits in its batch, or is    *)
(* one whose confirmation came after its timeout, and was reported failed; *)
(* a thrown failure is in neither.                                         *)
CountersFollowResults ==
    LET Told(r)      == {m \in Message : answer[m] = r}
        Ended(S, as) == {m \in S : publish[m] = as}
    IN  /\ metrics.sent = Cardinality(Told("success") \cup Ended(late, "confirmed")
                                       \cup UNION {call[c].ok : c \in Caller})
        /\ metrics.failed = Cardinality((Told("failure") \ late) \cup Ended(late, "rejected")
                                         \cup UNION {call[c].failed : c \in Caller})
=============================================================================
