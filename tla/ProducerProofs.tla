--------------------------- MODULE ProducerProofs ---------------------------
(***************************************************************************)
(* Theorems of Producer, for any number of messages and of calls, batches  *)
(* of any length, and any number of copies.                                *)
(***************************************************************************)
EXTENDS Producer, FiniteSetTheorems, SequenceTheorems, TLAPS

Given(c) == ToSet(call[c].batch)

(* What a call looks like.                                                 *)
WellFormed(r) ==
    /\ IsInjective(r.batch)
    /\ r.next \in 1..Len(r.batch) + 1
    /\ r.ok \subseteq ToSet(r.batch) /\ r.failed \subseteq ToSet(r.batch)
    /\ r.kind \in Single => Len(r.batch) = 1 /\ r.next = 2 /\ r.ok = {} /\ r.failed = {}

CallInv == \A c \in Caller : WellFormed(call[c])

(* No message is given to two calls.                                       *)
OwnInv == \A c, d \in Caller : c # d => Given(c) \cap Given(d) = {}

(* A call knows how the publish of its message stands, and has told its    *)
(* caller nothing yet.                                                     *)
Standing(r, m) ==
    /\ answer[m] = "none" /\ m \notin late
    /\ m \in First(r.batch, r.next - 1) <=> publish[m] # "none"
    /\ m \in r.ok <=> publish[m] = "confirmed"
    /\ m \in r.failed <=> publish[m] = "rejected"

StandingInv == \A c \in Caller : \A m \in Given(c) : Standing(call[c], m)

(* What an answer says of the publish, unless it came at the timeout.      *)
Answered(m) ==
    /\ answer[m] = "success" => publish[m] = "confirmed"
    /\ answer[m] = "failure" /\ m \notin late => publish[m] = "rejected"
    /\ answer[m] = "thrown" => publish[m] = "rejected"
    /\ m \in late => answer[m] = "failure"
    /\ publish[m] = "confirmed" => taken[m] > 0
    /\ publish[m] = "none" => answer[m] = "none"
    /\ publish[m] # "none" => answer[m] # "none" \/ \E c \in Caller : m \in Given(c)

AnswerInv == \A m \in Message : Answered(m)

(* The counters count the publishes that have ended, but for those whose   *)
(* failure was thrown.                                                     *)
Confirmed == {m \in Message : publish[m] = "confirmed"}
Rejected == {m \in Message : publish[m] = "rejected" /\ answer[m] # "thrown"}

CountInv == metrics.sent = Cardinality(Confirmed) /\ metrics.failed = Cardinality(Rejected)

IInv == TypeOK /\ CallInv /\ OwnInv /\ StandingInv /\ AnswerInv /\ CountInv

-----------------------------------------------------------------------------
(* Batches.                                                                *)

LEMMA FirstOfBatch ==
    ASSUME NEW batch \in Seq(Message), NEW n \in 0..Len(batch)
    PROVE  /\ ToSet(batch) \subseteq Message /\ First(batch, n) \subseteq ToSet(batch)
           /\ First(batch, Len(batch)) = ToSet(batch)
           /\ n < Len(batch) =>
                 /\ batch[n + 1] \in ToSet(batch)
                 /\ First(batch, n + 1) = First(batch, n) \cup {batch[n + 1]}
                 /\ IsInjective(batch) => batch[n + 1] \notin First(batch, n)
  <1>1. /\ Len(batch) \in Nat /\ DOMAIN batch = 1..Len(batch)
        /\ \A i \in 1..Len(batch) : batch[i] \in Message
    OBVIOUS
  <1>2. ToSet(batch) \subseteq Message /\ First(batch, n) \subseteq ToSet(batch)
    BY <1>1 DEF ToSet, First
  <1>3. First(batch, Len(batch)) = ToSet(batch)
    BY <1>1 DEF ToSet, First
  <1>4. ASSUME n < Len(batch)
        PROVE  /\ batch[n + 1] \in ToSet(batch)
               /\ First(batch, n + 1) = First(batch, n) \cup {batch[n + 1]}
               /\ IsInjective(batch) => batch[n + 1] \notin First(batch, n)
    <2>1. n + 1 \in 1..Len(batch) /\ 1..(n + 1) = (1..n) \cup {n + 1}
      BY <1>1, <1>4
    <2>2. batch[n + 1] \in ToSet(batch)
      BY <1>1, <2>1 DEF ToSet
    <2>3. First(batch, n + 1) = First(batch, n) \cup {batch[n + 1]}
      BY <2>1 DEF First
    <2>4. ASSUME IsInjective(batch), NEW i \in 1..n PROVE batch[i] # batch[n + 1]
      <3>1. i \in 1..Len(batch) /\ i # n + 1
        BY <1>1, <1>4
      <3>2. QED BY <1>1, <2>1, <2>4, <3>1 DEF IsInjective
    <2>5. IsInjective(batch) => batch[n + 1] \notin First(batch, n)
      BY <2>4 DEF First
    <2>6. QED BY <2>2, <2>3, <2>5
  <1>5. QED BY <1>2, <1>3, <1>4

LEMMA OneMessage ==
    ASSUME NEW m \in Message
    PROVE  /\ <<m>> \in Seq(Message) /\ Len(<<m>>) = 1 /\ IsInjective(<<m>>)
           /\ ToSet(<<m>>) = {m}
  <1>1. <<m>> \in Seq(Message) /\ Len(<<m>>) = 1 /\ DOMAIN <<m>> = {1} /\ <<m>>[1] = m
    OBVIOUS
  <1>2. IsInjective(<<m>>)
    BY <1>1 DEF IsInjective
  <1>3. QED BY <1>1, <1>2 DEF ToSet

(* A batch goes on with its next message.                                  *)
LEMMA CallGoesOn ==
    ASSUME NEW q \in Call, NEW k \in Nat
    PROVE  \E r \in Call :
              /\ r = [q EXCEPT !.next = k]
              /\ r.kind = q.kind /\ r.batch = q.batch /\ r.next = k
              /\ r.ok = q.ok /\ r.failed = q.failed
  <1> DEFINE r == [q EXCEPT !.next = k]
  <1>1. r \in Call
    BY DEF Call
  <1>2. r.kind = q.kind /\ r.batch = q.batch /\ r.next = k /\ r.ok = q.ok /\ r.failed = q.failed
    BY DEF Call
  <1>3. QED BY <1>1, <1>2

LEMMA IdleCall == /\ Idle \in Call /\ WellFormed(Idle) /\ ToSet(Idle.batch) = {}
  <1>1. Idle.batch = <<>> /\ Len(<<>>) = 0 /\ DOMAIN <<>> = {} /\ <<>> \in Seq(Message)
    BY DEF Idle
  <1>2. Idle \in Call
    BY <1>1 DEF Idle, Call
  <1>3. ToSet(Idle.batch) = {} /\ IsInjective(Idle.batch)
    BY <1>1 DEF ToSet, IsInjective
  <1>4. WellFormed(Idle)
    BY <1>1, <1>3 DEF WellFormed, Idle, Single
  <1>5. QED BY <1>2, <1>3, <1>4

(* The batches Next gives to sendBatch.                                    *)
LEMMA SomeBatch ==
    ASSUME NEW S \in SUBSET Message, NEW batch \in SetToAllKPermutations(S)
    PROVE  batch \in Seq(Message) /\ IsInjective(batch)
  <1>1. PICK T \in SUBSET S : batch \in SetToSeqs(T)
    BY DEF SetToAllKPermutations
  <1>2. /\ batch \in [1..Cardinality(T) -> T]
        /\ \A i, j \in 1..Cardinality(T) : batch[i] = batch[j] => i = j
    BY <1>1 DEF SetToSeqs
  <1>3. Cardinality(T) \in Nat
    BY MessageAssumption, FS_Subset, FS_CardinalityType
  <1>4. batch \in Seq(Message)
    BY <1>2, <1>3, SeqDef
  <1>5. IsInjective(batch)
    BY <1>2 DEF IsInjective
  <1>6. QED BY <1>4, <1>5

-----------------------------------------------------------------------------
(* Parts of a step.                                                        *)

LEMMA InitIInv == Init => IInv
  <1> SUFFICES ASSUME Init PROVE IInv
    OBVIOUS
  <1>1. TypeOK
    BY IdleCall, CopiesAssumption DEF Init, TypeOK
  <1>2. \A c \in Caller : WellFormed(call[c]) /\ Given(c) = {}
    BY IdleCall DEF Init, Given
  <1>3. CallInv /\ OwnInv /\ StandingInv
    BY <1>2 DEF CallInv, OwnInv, StandingInv
  <1>4. AnswerInv
    BY DEF Init, AnswerInv, Answered
  <1>5. CountInv
    <2>1. Confirmed = {} /\ Rejected = {} /\ metrics.sent = 0 /\ metrics.failed = 0
      BY DEF Init, Confirmed, Rejected
    <2>2. QED BY <2>1, FS_EmptySet DEF CountInv
  <1>6. QED BY <1>1, <1>3, <1>4, <1>5 DEF IInv

LEMMA CallMoves ==
    ASSUME call \in [Caller -> Call], NEW c \in Caller, NEW r \in Call,
           call' = [call EXCEPT ![c] = r]
    PROVE  /\ call' \in [Caller -> Call] /\ call'[c] = r /\ Given(c)' = ToSet(r.batch)
           /\ \A d \in Caller \ {c} : call'[d] = call[d] /\ Given(d)' = Given(d)
  BY DEF Given

(* A call that changes to r disturbs only the messages S, which are no     *)
(* other call's.                                                           *)
LEMMA CallSteps ==
    ASSUME IInv, NEW c \in Caller, NEW r \in Call, call' = [call EXCEPT ![c] = r],
           WellFormed(r),
           NEW S \in SUBSET Message, ToSet(r.batch) \subseteq S, Given(c) \subseteq S,
           \A d \in Caller \ {c} : Given(d) \cap S = {},
           \A m \in Message \ S :
              publish'[m] = publish[m] /\ answer'[m] = answer[m] /\ (m \in late' <=> m \in late),
           \A m \in ToSet(r.batch) : Standing(r, m)',
           UNCHANGED taken,
           \A m \in S : Answered(m)'
    PROVE  CallInv' /\ OwnInv' /\ StandingInv' /\ AnswerInv'
  <1>1. /\ call' \in [Caller -> Call] /\ call'[c] = r /\ Given(c)' = ToSet(r.batch)
        /\ \A d \in Caller \ {c} : call'[d] = call[d] /\ Given(d)' = Given(d)
    BY CallMoves DEF IInv, TypeOK
  <1>2. CallInv'
    <2>1. \A d \in Caller : WellFormed(call'[d])
      BY <1>1 DEF IInv, CallInv
    <2>2. QED BY <2>1 DEF CallInv
  <1>3. OwnInv'
    <2>1. \A d \in Caller \ {c} : Given(d)' \cap Given(c)' = {}
      BY <1>1
    <2>2. \A d, e \in Caller \ {c} : d # e => Given(d)' \cap Given(e)' = {}
      BY <1>1 DEF IInv, OwnInv
    <2>3. \A d, e \in Caller : d # e => Given(d)' \cap Given(e)' = {}
      BY <2>1, <2>2
    <2>4. QED BY <2>3 DEF OwnInv
  <1>4. ASSUME NEW d \in Caller, NEW m \in Given(d)' PROVE Standing(call[d], m)'
    <2>1. CASE d = c
      BY <1>1, <1>4, <2>1 DEF Standing
    <2>2. CASE d # c
      <3>1. m \in Given(d) /\ m \notin S /\ call'[d] = call[d]
        BY <1>1, <1>4, <2>2
      <3>2. m \in Message
        <4>1. call[d].batch \in Seq(Message) /\ 0 \in 0..Len(call[d].batch)
          BY DEF IInv, TypeOK, Call
        <4>2. QED BY <3>1, <4>1, FirstOfBatch DEF Given
      <3>3. Standing(call[d], m)
        BY <3>1 DEF IInv, StandingInv
      <3>4. QED BY <3>1, <3>2, <3>3 DEF Standing
    <2>3. QED BY <2>1, <2>2
  <1>5. StandingInv'
    BY <1>4 DEF StandingInv
  <1>6. ASSUME NEW m \in Message PROVE Answered(m)'
    <2>1. CASE m \in S
      BY <2>1
    <2>2. CASE m \notin S
      <3>1. /\ publish'[m] = publish[m] /\ answer'[m] = answer[m] /\ (m \in late' <=> m \in late)
            /\ taken'[m] = taken[m]
        BY <2>2
      <3>2. \A d \in Caller : m \in Given(d) => m \in Given(d)'
        BY <1>1, <2>2
      <3>3. Answered(m)
        BY DEF IInv, AnswerInv
      <3>4. QED BY <3>1, <3>2, <3>3 DEF Answered
    <2>3. QED BY <2>1, <2>2
  <1>7. AnswerInv'
    BY <1>6 DEF AnswerInv
  <1>8. QED BY <1>2, <1>3, <1>5, <1>7

(* Adding the message that has ended.                                      *)
LEMMA OneMore ==
    ASSUME NEW S \in SUBSET Message, NEW m \in Message \ S
    PROVE  Cardinality(S \cup {m}) = Cardinality(S) + 1
  BY MessageAssumption, FS_Subset, FS_AddElement

LEMMA CardinalitiesNat == Cardinality(Confirmed) \in Nat /\ Cardinality(Rejected) \in Nat
  <1>1. Confirmed \subseteq Message /\ Rejected \subseteq Message
    BY DEF Confirmed, Rejected
  <1>2. QED BY <1>1, MessageAssumption, FS_Subset, FS_CardinalityType

(* The messages of a call, and those of no call.                           *)
LEMMA GivenMessages ==
    ASSUME TypeOK, NEW c \in Caller
    PROVE  Given(c) \subseteq Message
  <1>1. call[c].batch \in Seq(Message) /\ 0 \in 0..Len(call[c].batch)
    BY DEF TypeOK, Call
  <1>2. QED BY <1>1, FirstOfBatch DEF Given

LEMMA FreshMessages ==
    ASSUME IInv, NEW m \in Fresh
    PROVE  /\ m \in Message /\ publish[m] = "none" /\ answer[m] = "none" /\ m \notin late
           /\ \A c \in Caller : m \notin Given(c)
  BY DEF Fresh, IInv, AnswerInv, Answered, Given

-----------------------------------------------------------------------------
(* The steps of the producer.                                              *)

(* A call is made with messages that no call has been given.               *)
LEMMA BeginsIInv ==
    ASSUME IInv, NEW c \in Caller, call[c] = Idle,
           NEW kind \in Single \cup Batch, NEW batch \in Seq(Message), IsInjective(batch),
           NEW n \in 1..Len(batch), kind \in Single => Len(batch) = 1,
           ToSet(batch) \subseteq Fresh,
           call' = [call EXCEPT ![c] = Begun(kind, batch, n)],
           Publish(First(batch, n)),
           UNCHANGED <<taken, answer, metrics, late>>
    PROVE  IInv'
  <1> DEFINE r == Begun(kind, batch, n)
             S == ToSet(batch)
  <1>1. /\ r \in Call /\ r.kind = kind /\ r.batch = batch /\ r.next = n + 1
        /\ r.ok = {} /\ r.failed = {} /\ r.next - 1 = n
    BY DEF Begun, Call
  <1>2. First(batch, n) \subseteq S /\ S \subseteq Message /\ (Len(batch) = 1 => n = 1)
    BY FirstOfBatch
  <1>3. WellFormed(r)
    BY <1>1, <1>2 DEF WellFormed
  <1>4. call' = [call EXCEPT ![c] = r]
    OBVIOUS
  <1> HIDE DEF r
  <1>5. \A m \in Message : publish'[m] = IF m \in First(batch, n) THEN "pending" ELSE publish[m]
    BY DEF Publish
  <1>6. \A m \in S : /\ publish[m] = "none" /\ answer[m] = "none" /\ m \notin late /\ m \in Message
                     /\ \A d \in Caller : m \notin Given(d)
    BY FreshMessages
  <1>7. TypeOK'
    <2>1. call' \in [Caller -> Call]
      BY <1>1, <1>4, CallMoves DEF IInv, TypeOK
    <2>2. publish' \in [Message -> {"none", "pending", "confirmed", "rejected"}]
      BY DEF Publish, IInv, TypeOK
    <2>3. QED BY <2>1, <2>2 DEF IInv, TypeOK
  <1>8. \A m \in S : Standing(r, m)'
    <2> SUFFICES ASSUME NEW m \in S PROVE Standing(r, m)'
      OBVIOUS
    <2>1. publish'[m] = IF m \in First(batch, n) THEN "pending" ELSE "none"
      BY <1>5, <1>6
    <2>2. m \notin r.ok /\ m \notin r.failed /\ First(r.batch, r.next - 1) = First(batch, n)
      BY <1>1
    <2>3. QED BY <1>6, <2>1, <2>2 DEF Standing
  <1>9. Given(c)' = S
    BY <1>1, <1>4, CallMoves DEF IInv, TypeOK
  <1>10. \A m \in S : Answered(m)'
    BY <1>5, <1>6, <1>9 DEF Answered
  <1>11. CallInv' /\ OwnInv' /\ StandingInv' /\ AnswerInv'
    <2>1. Given(c) \subseteq S
      BY IdleCall DEF Given
    <2>2. \A d \in Caller \ {c} : Given(d) \cap S = {}
      BY <1>6
    <2>3. \A m \in Message \ S :
             publish'[m] = publish[m] /\ answer'[m] = answer[m] /\ (m \in late' <=> m \in late)
      BY <1>2, <1>5
    <2>4. S \in SUBSET Message /\ r.batch = batch /\ UNCHANGED taken
      BY <1>1, <1>2
    <2> HIDE DEF S
    <2>5. ToSet(r.batch) \subseteq S /\ \A m \in ToSet(r.batch) : Standing(r, m)'
      BY <1>8, <2>4 DEF S
    <2>6. QED BY <1>1, <1>3, <1>4, <1>10, <2>1, <2>2, <2>3, <2>4, <2>5, CallSteps
  <1>12. CountInv'
    <2>1. \A m \in Message : /\ publish'[m] = "confirmed" <=> publish[m] = "confirmed"
                             /\ publish'[m] = "rejected" <=> publish[m] = "rejected"
      BY <1>2, <1>5, <1>6
    <2>2. Confirmed' = Confirmed /\ Rejected' = Rejected
      BY <2>1 DEF Confirmed, Rejected
    <2>3. QED BY <2>2 DEF IInv, CountInv
  <1>13. QED BY <1>7, <1>11, <1>12 DEF IInv

LEMMA SendIInv ==
    ASSUME IInv, NEW c \in Caller, NEW kind \in Single, NEW m \in Message, Send(c, kind, m)
    PROVE  IInv'
  <1> DEFINE batch == <<m>>
  <1>1. /\ batch \in Seq(Message) /\ Len(batch) = 1 /\ IsInjective(batch) /\ ToSet(batch) = {m}
    BY OneMessage
  <1>2. First(batch, 1) = {m}
    BY <1>1, FirstOfBatch
  <1>3. /\ call[c] = Idle /\ m \in Fresh /\ call' = [call EXCEPT ![c] = Begun(kind, batch, 1)]
        /\ Publish(First(batch, 1)) /\ UNCHANGED <<taken, answer, metrics, late>>
    BY <1>2 DEF Send
  <1> HIDE DEF batch
  <1>4. 1 \in 1..Len(batch) /\ kind \in Single \cup Batch /\ ToSet(batch) \subseteq Fresh
    BY <1>1, <1>3
  <1>5. QED BY <1>1, <1>3, <1>4, BeginsIInv

LEMMA SendBatchIInv ==
    ASSUME IInv, NEW c \in Caller, NEW kind \in Batch,
           NEW batch \in SetToAllKPermutations(Fresh), SendBatch(c, kind, batch)
    PROVE  IInv'
  <1> DEFINE n == Starts(kind, batch)
  <1>1. batch \in Seq(Message) /\ IsInjective(batch)
    <2>1. Fresh \in SUBSET Message
      BY DEF Fresh
    <2>2. QED BY <2>1, SomeBatch
  <1>2. /\ call[c] = Idle /\ ToSet(batch) \subseteq Fresh /\ Len(batch) > 1
        /\ call' = [call EXCEPT ![c] = Begun(kind, batch, n)]
        /\ Publish(First(batch, n)) /\ UNCHANGED <<taken, answer, metrics, late>>
    BY DEF SendBatch
  <1>3. n \in 1..Len(batch)
    BY <1>1, <1>2 DEF Starts
  <1>4. kind \in Single \cup Batch /\ kind \notin Single
    BY DEF Single, Batch
  <1> HIDE DEF n
  <1>5. QED BY <1>1, <1>2, <1>3, <1>4, BeginsIInv

LEMMA TakeIInv ==
    ASSUME IInv, NEW m \in Message, Take(m)
    PROVE  IInv'
  <1>1. /\ taken[m] < MaxCopies /\ taken' = [taken EXCEPT ![m] = @ + 1]
        /\ UNCHANGED <<call, publish, answer, metrics, late>>
    BY DEF Take
  <1>2. taken' \in [Message -> 0..MaxCopies]
    BY <1>1, CopiesAssumption DEF IInv, TypeOK
  <1>3. TypeOK'
    BY <1>1, <1>2 DEF IInv, TypeOK
  <1>4. \A x \in Message : taken[x] > 0 => taken'[x] > 0
    BY <1>1, CopiesAssumption DEF IInv, TypeOK
  <1>5. CallInv' /\ OwnInv' /\ StandingInv' /\ CountInv'
    BY <1>1 DEF IInv, CallInv, OwnInv, StandingInv, Standing, CountInv, Given, Confirmed, Rejected
  <1>6. \A x \in Message : Answered(x)'
    BY <1>1, <1>4 DEF IInv, AnswerInv, Answered, Given
  <1>7. QED BY <1>3, <1>5, <1>6 DEF IInv, AnswerInv

(* A publish that has ended is counted, unless its failure is thrown.      *)
LEMMA CountsEnded ==
    ASSUME IInv, NEW m \in Message, publish[m] = "pending",
           NEW kind, NEW ends \in {"confirmed", "rejected"}, Counts(kind, ends),
           publish'[m] = ends,
           \A x \in Message \ {m} :
              /\ publish'[x] = "confirmed" <=> publish[x] = "confirmed"
              /\ publish'[x] = "rejected" <=> publish[x] = "rejected"
              /\ publish[x] = "rejected" => (answer'[x] = "thrown" <=> answer[x] = "thrown"),
           ends = "rejected" => (answer'[m] = "thrown" <=> kind = "delayed")
    PROVE  CountInv' /\ metrics' \in [sent : Nat, failed : Nat]
  <1>1. /\ metrics \in [sent : Nat, failed : Nat]
        /\ metrics.sent = Cardinality(Confirmed) /\ metrics.failed = Cardinality(Rejected)
    BY DEF IInv, TypeOK, CountInv
  <1>2. /\ metrics' \in [sent : Nat, failed : Nat]
        /\ metrics'.sent = IF ends = "confirmed" THEN metrics.sent + 1 ELSE metrics.sent
        /\ metrics'.failed = IF ends = "rejected" /\ kind # "delayed"
                             THEN metrics.failed + 1 ELSE metrics.failed
    <2> DEFINE x == IF ends = "confirmed" THEN metrics.sent + 1 ELSE metrics.sent
               y == IF ends = "rejected" /\ kind # "delayed"
                    THEN metrics.failed + 1 ELSE metrics.failed
    <2>1. metrics' = [metrics EXCEPT !.sent = x, !.failed = y]
      BY <1>1 DEF Counts
    <2>2. x \in Nat /\ y \in Nat
      BY <1>1
    <2> HIDE DEF x, y
    <2>3. /\ metrics' \in [sent : Nat, failed : Nat] /\ metrics'.sent = x /\ metrics'.failed = y
      BY <1>1, <2>1, <2>2
    <2>4. QED BY <2>3 DEF x, y
  <1>3. /\ Confirmed \in SUBSET Message /\ Rejected \in SUBSET Message
        /\ m \in Message \ Confirmed /\ m \in Message \ Rejected
    BY DEF Confirmed, Rejected
  <1>4. /\ ends = "confirmed" => Confirmed' = Confirmed \cup {m}
        /\ ends = "rejected" => Confirmed' = Confirmed
    BY DEF Confirmed
  <1>5. /\ ends = "rejected" /\ kind # "delayed" => Rejected' = Rejected \cup {m}
        /\ ends = "confirmed" \/ kind = "delayed" => Rejected' = Rejected
    BY DEF Rejected
  <1>6. /\ Cardinality(Confirmed \cup {m}) = Cardinality(Confirmed) + 1
        /\ Cardinality(Rejected \cup {m}) = Cardinality(Rejected) + 1
    BY <1>3, OneMore
  <1>7. metrics'.sent = Cardinality(Confirmed')
    BY <1>1, <1>2, <1>4, <1>6
  <1>8. metrics'.failed = Cardinality(Rejected')
    <2>1. CASE ends = "rejected" /\ kind # "delayed"
      BY <1>1, <1>2, <1>5, <1>6, <2>1
    <2>2. CASE ~(ends = "rejected" /\ kind # "delayed")
      BY <1>1, <1>2, <1>5, <2>2
    <2>3. QED BY <2>1, <2>2
  <1>9. QED BY <1>2, <1>7, <1>8 DEF CountInv

(* A message a call waits for.                                             *)
LEMMA AwaitedMessages ==
    ASSUME IInv, NEW c \in Caller, NEW m \in Awaited(c)
    PROVE  /\ call[c] \in Call /\ WellFormed(call[c])
           /\ call[c].batch \in Seq(Message) /\ Len(call[c].batch) \in Nat
           /\ call[c].next \in 1..Len(call[c].batch) + 1
           /\ call[c].next - 1 \in 0..Len(call[c].batch)
           /\ First(call[c].batch, call[c].next - 1) \subseteq Given(c)
           /\ Given(c) \subseteq Message /\ m \in Given(c) /\ m \in Message
           /\ m \in First(call[c].batch, call[c].next - 1)
           /\ publish[m] = "pending" /\ answer[m] = "none" /\ m \notin late
           /\ call[c].kind \in Single =>
                 /\ Given(c) = {m} /\ Awaited(c) = {m} /\ call[c].next > Len(call[c].batch)
                 /\ call[c].ok = {} /\ call[c].failed = {}
  <1>1. call[c] \in Call /\ WellFormed(call[c])
    BY DEF IInv, TypeOK, CallInv
  <1>2. /\ call[c].batch \in Seq(Message) /\ Len(call[c].batch) \in Nat
        /\ call[c].next \in 1..Len(call[c].batch) + 1
        /\ call[c].next - 1 \in 0..Len(call[c].batch)
    BY <1>1 DEF Call, WellFormed
  <1>3. First(call[c].batch, call[c].next - 1) \subseteq Given(c) /\ Given(c) \subseteq Message
    BY <1>2, FirstOfBatch DEF Given
  <1>4. m \in First(call[c].batch, call[c].next - 1) /\ publish[m] = "pending"
    BY DEF Awaited
  <1>5. answer[m] = "none" /\ m \notin late
    BY <1>3, <1>4 DEF IInv, StandingInv, Standing
  <1>6. ASSUME call[c].kind \in Single
        PROVE  /\ Given(c) = {m} /\ Awaited(c) = {m} /\ call[c].next > Len(call[c].batch)
               /\ call[c].ok = {} /\ call[c].failed = {}
    <2>1. Len(call[c].batch) = 1 /\ call[c].next = 2 /\ call[c].ok = {} /\ call[c].failed = {}
      BY <1>1, <1>6 DEF WellFormed
    <2>2. Given(c) = {m}
      <3>1. DOMAIN call[c].batch = {1}
        BY <1>2, <2>1
      <3>2. Given(c) = {call[c].batch[1]}
        BY <3>1 DEF Given, ToSet
      <3>3. QED BY <1>3, <1>4, <3>2
    <2>3. Awaited(c) = {m}
      BY <1>3, <2>2 DEF Awaited
    <2>4. QED BY <2>1, <2>2, <2>3
  <1>7. QED BY <1>1, <1>2, <1>3, <1>4, <1>5, <1>6

(* What a call has noted when the publish of m has ended.                  *)
Noted(c, m, ends) ==
    [call[c] EXCEPT !.ok = IF ends = "confirmed" THEN @ \cup {m} ELSE @,
                    !.failed = IF ends = "rejected" THEN @ \cup {m} ELSE @]

LEMMA Notes ==
    ASSUME IInv, NEW c \in Caller, NEW m \in Awaited(c), NEW ends \in {"confirmed", "rejected"}
    PROVE  /\ Noted(c, m, ends) \in Call
           /\ Noted(c, m, ends).kind = call[c].kind /\ Noted(c, m, ends).batch = call[c].batch
           /\ Noted(c, m, ends).next = call[c].next
           /\ Noted(c, m, ends).ok = IF ends = "confirmed" THEN call[c].ok \cup {m} ELSE call[c].ok
           /\ Noted(c, m, ends).failed =
                 IF ends = "rejected" THEN call[c].failed \cup {m} ELSE call[c].failed
           /\ Noted(c, m, ends).ok \subseteq Given(c) /\ Noted(c, m, ends).failed \subseteq Given(c)
  <1>1. /\ call[c] \in Call /\ m \in Message /\ m \in Given(c)
        /\ call[c].ok \subseteq Given(c) /\ call[c].failed \subseteq Given(c)
    BY AwaitedMessages DEF WellFormed, Given
  <1>2. /\ call[c].ok \in SUBSET Message /\ call[c].failed \in SUBSET Message
    BY <1>1 DEF Call
  <1>3. QED BY <1>1, <1>2 DEF Noted, Call

(* A batch in sequence goes on with its next message.                      *)
LEMMA GoesOnIInv ==
    ASSUME IInv, NEW c \in Caller, NEW m \in Awaited(c), NEW ends \in {"confirmed", "rejected"},
           ends = "confirmed" => taken[m] > 0,
           Counts(call[c].kind, ends),
           call[c].next <= Len(call[c].batch),
           call' = [call EXCEPT ![c] = [Noted(c, m, ends) EXCEPT !.next = call[c].next + 1]],
           publish' = [publish EXCEPT ![m] = ends, ![call[c].batch[call[c].next]] = "pending"],
           UNCHANGED <<answer, taken, late>>
    PROVE  IInv'
  <1> DEFINE batch == call[c].batch
             n == call[c].next
             x == batch[n]
             on == Noted(c, m, ends)
  <1>1. /\ call[c] \in Call /\ WellFormed(call[c]) /\ batch \in Seq(Message) /\ Len(batch) \in Nat
        /\ n \in 1..Len(batch) /\ n - 1 \in 0..Len(batch) /\ n - 1 < Len(batch)
        /\ First(batch, n - 1) \subseteq Given(c) /\ Given(c) \subseteq Message
        /\ m \in Given(c) /\ m \in Message /\ m \in First(batch, n - 1)
        /\ publish[m] = "pending" /\ answer[m] = "none" /\ m \notin late
        /\ call[c].kind \notin Single
    BY AwaitedMessages
  <1>2. /\ x \in Given(c) /\ x # m /\ x \notin First(batch, n - 1) /\ publish[x] = "none"
        /\ First(batch, n) = First(batch, n - 1) \cup {x}
    <2>1. /\ batch[(n - 1) + 1] \in ToSet(batch)
          /\ First(batch, (n - 1) + 1) = First(batch, n - 1) \cup {batch[(n - 1) + 1]}
          /\ batch[(n - 1) + 1] \notin First(batch, n - 1)
      BY <1>1, FirstOfBatch DEF WellFormed
    <2>2. (n - 1) + 1 = n
      BY <1>1
    <2>3. x \in Given(c) /\ x \notin First(batch, n - 1)
      BY <2>1, <2>2 DEF Given
    <2>4. publish[x] = "none"
      BY <2>3 DEF IInv, StandingInv, Standing
    <2>5. QED BY <1>1, <2>1, <2>2, <2>3, <2>4
  <1>3. /\ on \in Call /\ on.kind = call[c].kind /\ on.batch = batch
        /\ on.ok = IF ends = "confirmed" THEN call[c].ok \cup {m} ELSE call[c].ok
        /\ on.failed = IF ends = "rejected" THEN call[c].failed \cup {m} ELSE call[c].failed
        /\ on.ok \subseteq Given(c) /\ on.failed \subseteq Given(c)
    BY Notes, ZenonT(60)
  <1> HIDE DEF on
  <1>4. PICK r \in Call :
           /\ call' = [call EXCEPT ![c] = r]
           /\ r.kind = call[c].kind /\ r.batch = batch /\ r.next = n + 1
           /\ r.ok = on.ok /\ r.failed = on.failed
    <2>1. n + 1 \in Nat
      BY <1>1
    <2>2. PICK r \in Call :
             /\ r = [on EXCEPT !.next = n + 1]
             /\ r.kind = on.kind /\ r.batch = on.batch /\ r.next = n + 1
             /\ r.ok = on.ok /\ r.failed = on.failed
      BY <1>3, <2>1, CallGoesOn
    <2>3. call' = [call EXCEPT ![c] = [on EXCEPT !.next = n + 1]]
      BY DEF on
    <2>4. call' = [call EXCEPT ![c] = r]
      BY <2>2, <2>3
    <2>5. r.kind = call[c].kind /\ r.batch = batch
      BY <1>3, <2>2
    <2>6. QED BY <2>2, <2>4, <2>5
  <1>5. r.next - 1 = n
    BY <1>1, <1>4
  <1>6. /\ publish' \in [Message -> {"none", "pending", "confirmed", "rejected"}]
        /\ publish'[m] = ends /\ publish'[x] = "pending"
        /\ \A y \in Message \ {m, x} : publish'[y] = publish[y]
    BY <1>1, <1>2 DEF IInv, TypeOK
  <1> HIDE DEF x
  <1>7. CountInv' /\ metrics' \in [sent : Nat, failed : Nat]
    <2>1. call[c].kind # "delayed"
      BY <1>1 DEF Single
    <2>2. \A y \in Message \ {m} :
             /\ publish'[y] = "confirmed" <=> publish[y] = "confirmed"
             /\ publish'[y] = "rejected" <=> publish[y] = "rejected"
             /\ answer'[y] = "thrown" <=> answer[y] = "thrown"
      BY <1>2, <1>6
    <2>3. answer'[m] # "thrown"
      BY <1>1
    <2>4. QED BY <1>1, <1>6, <2>1, <2>2, <2>3, CountsEnded
  <1>8. TypeOK'
    <2>1. call' \in [Caller -> Call]
      BY <1>4, CallMoves DEF IInv, TypeOK
    <2>2. QED BY <1>6, <1>7, <2>1 DEF IInv, TypeOK
  <1>9. WellFormed(r)
    <2>1. IsInjective(r.batch) /\ r.next \in 1..Len(r.batch) + 1 /\ r.kind \notin Single
      BY <1>1, <1>4 DEF WellFormed
    <2>2. QED BY <1>3, <1>4, <2>1 DEF WellFormed, Given
  <1>10. \A y \in Given(c) : Standing(r, y)'
    <2> SUFFICES ASSUME NEW y \in Given(c) PROVE Standing(r, y)'
      OBVIOUS
    <2>1. /\ answer[y] = "none" /\ y \notin late
          /\ y \in First(batch, n - 1) <=> publish[y] # "none"
          /\ y \in call[c].ok <=> publish[y] = "confirmed"
          /\ y \in call[c].failed <=> publish[y] = "rejected"
      BY DEF IInv, StandingInv, Standing
    <2>2. y \in First(r.batch, r.next - 1) <=> y \in First(batch, n - 1) \/ y = x
      BY <1>2, <1>4, <1>5
    <2>3. /\ y \in r.ok <=> y \in call[c].ok \/ (y = m /\ ends = "confirmed")
          /\ y \in r.failed <=> y \in call[c].failed \/ (y = m /\ ends = "rejected")
      BY <1>3, <1>4
    <2>4. publish'[y] = IF y = m THEN ends ELSE IF y = x THEN "pending" ELSE publish[y]
      BY <1>1, <1>2, <1>6
    <2>5. /\ y \in First(r.batch, r.next - 1) <=> publish'[y] # "none"
          /\ y \in r.ok <=> publish'[y] = "confirmed"
          /\ y \in r.failed <=> publish'[y] = "rejected"
      BY <1>1, <1>2, <2>1, <2>2, <2>3, <2>4
    <2>6. QED BY <2>1, <2>5 DEF Standing
  <1>11. Given(c)' = Given(c)
    BY <1>4, CallMoves DEF IInv, TypeOK, Given
  <1>12. \A y \in Given(c) : Answered(y)'
    <2> SUFFICES ASSUME NEW y \in Given(c) PROVE Answered(y)'
      OBVIOUS
    <2>1. answer'[y] = "none" /\ y \notin late' /\ y \in Message
      BY <1>1 DEF IInv, StandingInv, Standing
    <2>2. publish'[y] = "confirmed" => taken'[y] > 0
      <3>1. publish[y] = "confirmed" => taken[y] > 0
        BY <2>1 DEF IInv, AnswerInv, Answered
      <3>2. QED BY <1>6, <2>1, <3>1
    <2>3. QED BY <1>11, <2>1, <2>2 DEF Answered
  <1>13. CallInv' /\ OwnInv' /\ StandingInv' /\ AnswerInv'
    <2> DEFINE S == Given(c)
    <2>1. /\ S \in SUBSET Message /\ ToSet(r.batch) \subseteq S /\ Given(c) \subseteq S
          /\ \A y \in ToSet(r.batch) : Standing(r, y)'
      BY <1>1, <1>4, <1>10 DEF Given
    <2>2. \A d \in Caller \ {c} : Given(d) \cap S = {}
      BY DEF IInv, OwnInv
    <2>3. \A y \in Message \ S :
             publish'[y] = publish[y] /\ answer'[y] = answer[y] /\ (y \in late' <=> y \in late)
      BY <1>1, <1>2, <1>6
    <2>4. \A y \in S : Answered(y)'
      BY <1>12
    <2>5. UNCHANGED taken
      OBVIOUS
    <2> HIDE DEF S
    <2>6. QED BY <1>4, <1>9, <2>1, <2>2, <2>3, <2>4, <2>5, CallSteps
  <1>14. QED BY <1>7, <1>8, <1>13 DEF IInv

(* A batch in parallel waits for its other messages.                       *)
LEMMA WaitsIInv ==
    ASSUME IInv, NEW c \in Caller, NEW m \in Awaited(c), NEW ends \in {"confirmed", "rejected"},
           ends = "confirmed" => taken[m] > 0,
           Counts(call[c].kind, ends),
           Awaited(c) # {m},
           call' = [call EXCEPT ![c] = Noted(c, m, ends)],
           publish' = [publish EXCEPT ![m] = ends],
           UNCHANGED <<answer, taken, late>>
    PROVE  IInv'
  <1>1. /\ WellFormed(call[c])
        /\ First(call[c].batch, call[c].next - 1) \subseteq Given(c) /\ Given(c) \subseteq Message
        /\ m \in Given(c) /\ m \in Message /\ m \in First(call[c].batch, call[c].next - 1)
        /\ publish[m] = "pending" /\ answer[m] = "none" /\ m \notin late
        /\ call[c].kind \notin Single
    BY AwaitedMessages
  <1>2. PICK r \in Call :
           /\ call' = [call EXCEPT ![c] = r]
           /\ r.kind = call[c].kind /\ r.batch = call[c].batch /\ r.next = call[c].next
           /\ r.ok = IF ends = "confirmed" THEN call[c].ok \cup {m} ELSE call[c].ok
           /\ r.failed = IF ends = "rejected" THEN call[c].failed \cup {m} ELSE call[c].failed
           /\ r.ok \subseteq Given(c) /\ r.failed \subseteq Given(c)
    BY Notes
  <1>3. /\ publish' \in [Message -> {"none", "pending", "confirmed", "rejected"}]
        /\ \A y \in Message : publish'[y] = IF y = m THEN ends ELSE publish[y]
    BY <1>1 DEF IInv, TypeOK
  <1>4. CountInv' /\ metrics' \in [sent : Nat, failed : Nat]
    <2>1. call[c].kind # "delayed" /\ answer'[m] # "thrown" /\ publish'[m] = ends
      BY <1>1, <1>3 DEF Single
    <2>2. \A y \in Message \ {m} :
             /\ publish'[y] = "confirmed" <=> publish[y] = "confirmed"
             /\ publish'[y] = "rejected" <=> publish[y] = "rejected"
             /\ answer'[y] = "thrown" <=> answer[y] = "thrown"
      BY <1>3
    <2>3. QED BY <1>1, <2>1, <2>2, CountsEnded
  <1>5. TypeOK'
    <2>1. call' \in [Caller -> Call]
      BY <1>2, CallMoves DEF IInv, TypeOK
    <2>2. QED BY <1>3, <1>4, <2>1 DEF IInv, TypeOK
  <1>6. WellFormed(r)
    BY <1>1, <1>2 DEF WellFormed, Given
  <1>7. \A y \in Given(c) : Standing(r, y)'
    <2> SUFFICES ASSUME NEW y \in Given(c) PROVE Standing(r, y)'
      OBVIOUS
    <2>1. /\ answer[y] = "none" /\ y \notin late
          /\ y \in First(call[c].batch, call[c].next - 1) <=> publish[y] # "none"
          /\ y \in call[c].ok <=> publish[y] = "confirmed"
          /\ y \in call[c].failed <=> publish[y] = "rejected"
      BY DEF IInv, StandingInv, Standing
    <2>2. /\ y \in First(r.batch, r.next - 1) <=> y \in First(call[c].batch, call[c].next - 1)
          /\ y \in r.ok <=> y \in call[c].ok \/ (y = m /\ ends = "confirmed")
          /\ y \in r.failed <=> y \in call[c].failed \/ (y = m /\ ends = "rejected")
      BY <1>2
    <2>3. publish'[y] = IF y = m THEN ends ELSE publish[y]
      BY <1>1, <1>3
    <2>4. /\ y \in First(r.batch, r.next - 1) <=> publish'[y] # "none"
          /\ y \in r.ok <=> publish'[y] = "confirmed"
          /\ y \in r.failed <=> publish'[y] = "rejected"
      BY <1>1, <2>1, <2>2, <2>3
    <2>5. QED BY <2>1, <2>4 DEF Standing
  <1>8. Given(c)' = Given(c)
    BY <1>2, CallMoves DEF IInv, TypeOK, Given
  <1>9. \A y \in Given(c) : Answered(y)'
    <2> SUFFICES ASSUME NEW y \in Given(c) PROVE Answered(y)'
      OBVIOUS
    <2>1. answer'[y] = "none" /\ y \notin late' /\ y \in Message
      BY <1>1 DEF IInv, StandingInv, Standing
    <2>2. publish'[y] = "confirmed" => taken'[y] > 0
      <3>1. publish[y] = "confirmed" => taken[y] > 0
        BY <2>1 DEF IInv, AnswerInv, Answered
      <3>2. QED BY <1>3, <2>1, <3>1
    <2>3. QED BY <1>8, <2>1, <2>2 DEF Answered
  <1>10. CallInv' /\ OwnInv' /\ StandingInv' /\ AnswerInv'
    <2> DEFINE S == Given(c)
    <2>1. /\ S \in SUBSET Message /\ ToSet(r.batch) \subseteq S /\ Given(c) \subseteq S
          /\ \A y \in ToSet(r.batch) : Standing(r, y)'
      BY <1>1, <1>2, <1>7 DEF Given
    <2>2. \A d \in Caller \ {c} : Given(d) \cap S = {}
      BY DEF IInv, OwnInv
    <2>3. \A y \in Message \ S :
             publish'[y] = publish[y] /\ answer'[y] = answer[y] /\ (y \in late' <=> y \in late)
      BY <1>1, <1>3
    <2>4. (\A y \in S : Answered(y)') /\ UNCHANGED taken
      BY <1>9
    <2> HIDE DEF S
    <2>5. QED BY <1>2, <1>6, <2>1, <2>2, <2>3, <2>4, CallSteps
  <1>11. QED BY <1>4, <1>5, <1>10 DEF IInv

(* The last message of a call has ended, and its caller is told.           *)
LEMMA ReturnsIInv ==
    ASSUME IInv, NEW c \in Caller, NEW m \in Awaited(c), NEW ends \in {"confirmed", "rejected"},
           ends = "confirmed" => taken[m] > 0,
           Counts(call[c].kind, ends),
           call[c].next > Len(call[c].batch), Awaited(c) = {m},
           call' = [call EXCEPT ![c] = Idle],
           publish' = [publish EXCEPT ![m] = ends],
           Answers(call[c].kind, Noted(c, m, ends).ok, Noted(c, m, ends).failed),
           UNCHANGED <<taken, late>>
    PROVE  IInv'
  <1> DEFINE ok == Noted(c, m, ends).ok
             failed == Noted(c, m, ends).failed
             S == Given(c)
  <1>1. /\ WellFormed(call[c]) /\ S \subseteq Message
        /\ call[c].batch \in Seq(Message) /\ Len(call[c].batch) \in Nat
        /\ call[c].next \in 1..Len(call[c].batch) + 1
        /\ m \in S /\ m \in Message
        /\ publish[m] = "pending" /\ answer[m] = "none" /\ m \notin late
    BY AwaitedMessages
  <1>2. call[c].kind \in Single => S = {m} /\ call[c].ok = {} /\ call[c].failed = {}
    BY AwaitedMessages
  <1>3. First(call[c].batch, call[c].next - 1) = S
    <2>1. call[c].next - 1 = Len(call[c].batch) /\ 0 \in 0..Len(call[c].batch)
      BY <1>1, SMTT(30)
    <2>2. QED BY <1>1, <2>1, FirstOfBatch DEF Given
  <1>4. /\ ok = IF ends = "confirmed" THEN call[c].ok \cup {m} ELSE call[c].ok
        /\ failed = IF ends = "rejected" THEN call[c].failed \cup {m} ELSE call[c].failed
        /\ ok \subseteq S /\ failed \subseteq S
    <2>1. PICK r \in Call :
             /\ r = Noted(c, m, ends)
             /\ r.ok = IF ends = "confirmed" THEN call[c].ok \cup {m} ELSE call[c].ok
             /\ r.failed = IF ends = "rejected" THEN call[c].failed \cup {m} ELSE call[c].failed
             /\ r.ok \subseteq Given(c) /\ r.failed \subseteq Given(c)
      BY Notes
    <2>2. QED BY <2>1
  <1>5. /\ publish' \in [Message -> {"none", "pending", "confirmed", "rejected"}]
        /\ \A y \in Message : publish'[y] = IF y = m THEN ends ELSE publish[y]
    BY <1>1 DEF IInv, TypeOK
  <1>6. \A y \in Message :
           answer'[y] = IF y \in ok THEN "success"
                        ELSE IF y \notin failed THEN answer[y]
                        ELSE IF call[c].kind = "delayed" THEN "thrown" ELSE "failure"
    BY DEF Answers
  <1>7. answer' \in [Message -> {"none", "success", "failure", "thrown"}]
    BY DEF Answers, IInv, TypeOK
  <1> HIDE DEF ok, failed, S
  <1>8. \A y \in S : /\ answer[y] = "none" /\ y \notin late
                     /\ publish'[y] \in {"confirmed", "rejected"}
                     /\ y \in ok <=> publish'[y] = "confirmed"
                     /\ y \in failed <=> publish'[y] = "rejected"
    <2> SUFFICES ASSUME NEW y \in S
                 PROVE  /\ answer[y] = "none" /\ y \notin late
                        /\ publish'[y] \in {"confirmed", "rejected"}
                        /\ y \in ok <=> publish'[y] = "confirmed"
                        /\ y \in failed <=> publish'[y] = "rejected"
      OBVIOUS
    <2>1. /\ answer[y] = "none" /\ y \notin late /\ publish[y] # "none"
          /\ y \in call[c].ok <=> publish[y] = "confirmed"
          /\ y \in call[c].failed <=> publish[y] = "rejected"
      BY <1>3 DEF S, IInv, StandingInv, Standing
    <2>2. y # m => publish[y] # "pending"
      BY <1>3 DEF Awaited
    <2>3. publish[y] \in {"none", "pending", "confirmed", "rejected"}
      BY <1>1 DEF IInv, TypeOK
    <2>4. publish'[y] = IF y = m THEN ends ELSE publish[y]
      BY <1>1, <1>5
    <2>5. /\ y \in ok <=> y \in call[c].ok \/ (y = m /\ ends = "confirmed")
          /\ y \in failed <=> y \in call[c].failed \/ (y = m /\ ends = "rejected")
      BY <1>4
    <2>6. QED BY <1>1, <2>1, <2>2, <2>3, <2>4, <2>5
  <1>9. \A y \in S :
           answer'[y] = IF publish'[y] = "confirmed" THEN "success"
                        ELSE IF call[c].kind = "delayed" THEN "thrown" ELSE "failure"
    BY <1>1, <1>6, <1>8
  <1>10. \A y \in Message \ S : answer'[y] = answer[y] /\ publish'[y] = publish[y]
    BY <1>1, <1>4, <1>5, <1>6
  <1>11. CountInv' /\ metrics' \in [sent : Nat, failed : Nat]
    <2>1. publish'[m] = ends
      BY <1>1, <1>5
    <2>2. ends = "rejected" => (answer'[m] = "thrown" <=> call[c].kind = "delayed")
      BY <1>1, <1>9, <2>1
    <2>3. ASSUME NEW y \in Message \ {m}
          PROVE  /\ publish'[y] = "confirmed" <=> publish[y] = "confirmed"
                 /\ publish'[y] = "rejected" <=> publish[y] = "rejected"
                 /\ publish[y] = "rejected" => (answer'[y] = "thrown" <=> answer[y] = "thrown")
      <3>1. publish'[y] = publish[y]
        BY <1>5
      <3>2. CASE y \notin S
        BY <1>10, <3>1, <3>2
      <3>3. CASE y \in S
        <4>1. call[c].kind # "delayed"
          BY <1>2, <3>3 DEF Single
        <4>2. QED BY <1>8, <1>9, <3>1, <3>3, <4>1
      <3>4. QED BY <3>2, <3>3
    <2>4. QED BY <1>1, <2>1, <2>2, <2>3, CountsEnded
  <1>12. TypeOK'
    <2>1. call' \in [Caller -> Call]
      BY IdleCall, CallMoves DEF IInv, TypeOK
    <2>2. QED BY <1>5, <1>7, <1>11, <2>1 DEF IInv, TypeOK
  <1>13. \A y \in S : Answered(y)'
    <2> SUFFICES ASSUME NEW y \in S PROVE Answered(y)'
      OBVIOUS
    <2>1. y \in Message /\ y \notin late'
      BY <1>1, <1>8
    <2>2. publish'[y] = "confirmed" => taken'[y] > 0
      <3>1. publish[y] = "confirmed" => taken[y] > 0
        BY <2>1 DEF IInv, AnswerInv, Answered
      <3>2. QED BY <1>5, <2>1, <3>1
    <2>3. QED BY <1>8, <1>9, <2>1, <2>2 DEF Answered
  <1>14. CallInv' /\ OwnInv' /\ StandingInv' /\ AnswerInv'
    <2> DEFINE r == Idle
    <2>1. /\ r \in Call /\ WellFormed(r) /\ ToSet(r.batch) = {}
          /\ call' = [call EXCEPT ![c] = r]
      BY IdleCall
    <2>2. \A d \in Caller \ {c} : Given(d) \cap S = {}
      BY DEF S, IInv, OwnInv
    <2>3. Given(c) \subseteq S /\ S \in SUBSET Message /\ UNCHANGED taken
      BY <1>1 DEF S
    <2>4. \A y \in Message \ S :
             publish'[y] = publish[y] /\ answer'[y] = answer[y] /\ (y \in late' <=> y \in late)
      BY <1>10
    <2> HIDE DEF r
    <2>5. ToSet(r.batch) \subseteq S /\ \A y \in ToSet(r.batch) : Standing(r, y)'
      BY <2>1
    <2>6. QED BY <1>13, <2>1, <2>2, <2>3, <2>4, <2>5, CallSteps
  <1>15. QED BY <1>11, <1>12, <1>14 DEF IInv

(* The three ways on when a publish has ended.                             *)
LEMMA SettlesCases ==
    ASSUME IInv, NEW c \in Caller, NEW m \in Awaited(c), NEW ends, Settles(c, m, ends)
    PROVE  /\ Counts(call[c].kind, ends)
           /\ \/ /\ call[c].next <= Len(call[c].batch)
                 /\ call' = [call EXCEPT ![c] = [Noted(c, m, ends) EXCEPT !.next = call[c].next + 1]]
                 /\ publish' = [publish EXCEPT ![m] = ends, ![call[c].batch[call[c].next]] = "pending"]
                 /\ answer' = answer
              \/ /\ Awaited(c) # {m}
                 /\ call' = [call EXCEPT ![c] = Noted(c, m, ends)]
                 /\ publish' = [publish EXCEPT ![m] = ends]
                 /\ answer' = answer
              \/ /\ call[c].next > Len(call[c].batch) /\ Awaited(c) = {m}
                 /\ call' = [call EXCEPT ![c] = Idle]
                 /\ publish' = [publish EXCEPT ![m] = ends]
                 /\ Answers(call[c].kind, Noted(c, m, ends).ok, Noted(c, m, ends).failed)
  <1> DEFINE ok == IF ends = "confirmed" THEN call[c].ok \cup {m} ELSE call[c].ok
             failed == IF ends = "rejected" THEN call[c].failed \cup {m} ELSE call[c].failed
             on == [call[c] EXCEPT !.ok = ok, !.failed = failed]
  <1>1. on = Noted(c, m, ends)
    BY DEF Noted
  <1>2. on.ok = ok /\ on.failed = failed
    <2>1. call[c] \in Call /\ ok \in SUBSET Message /\ failed \in SUBSET Message
      BY AwaitedMessages DEF Call
    <2> HIDE DEF ok, failed
    <2>2. QED BY <2>1 DEF Call
  <1>3. /\ Counts(call[c].kind, ends)
        /\ \/ /\ call[c].next <= Len(call[c].batch)
              /\ call' = [call EXCEPT ![c] = [on EXCEPT !.next = call[c].next + 1]]
              /\ publish' = [publish EXCEPT ![m] = ends, ![call[c].batch[call[c].next]] = "pending"]
              /\ answer' = answer
           \/ /\ call[c].next > Len(call[c].batch)
              /\ publish' = [publish EXCEPT ![m] = ends]
              /\ IF Awaited(c) = {m}
                 THEN call' = [call EXCEPT ![c] = Idle] /\ Answers(call[c].kind, ok, failed)
                 ELSE call' = [call EXCEPT ![c] = on] /\ answer' = answer
    BY DEF Settles
  <1> HIDE DEF on, ok, failed
  <1>4. QED BY <1>1, <1>2, <1>3

LEMMA SettlesIInv ==
    ASSUME IInv, NEW c \in Caller, NEW m \in Message, Confirm(c, m) \/ Reject(c, m)
    PROVE  IInv'
  <1>1. ASSUME NEW ends \in {"confirmed", "rejected"}, Settles(c, m, ends), m \in Awaited(c),
               ends = "confirmed" => taken[m] > 0, UNCHANGED <<taken, late>>
        PROVE  IInv'
    <2>1. Counts(call[c].kind, ends)
      BY <1>1, SettlesCases
    <2>2. CASE /\ call[c].next <= Len(call[c].batch)
               /\ call' = [call EXCEPT ![c] = [Noted(c, m, ends) EXCEPT !.next = call[c].next + 1]]
               /\ publish' = [publish EXCEPT ![m] = ends, ![call[c].batch[call[c].next]] = "pending"]
               /\ answer' = answer
      BY <1>1, <2>1, <2>2, GoesOnIInv
    <2>3. CASE /\ Awaited(c) # {m}
               /\ call' = [call EXCEPT ![c] = Noted(c, m, ends)]
               /\ publish' = [publish EXCEPT ![m] = ends]
               /\ answer' = answer
      BY <1>1, <2>1, <2>3, WaitsIInv
    <2>4. CASE /\ call[c].next > Len(call[c].batch) /\ Awaited(c) = {m}
               /\ call' = [call EXCEPT ![c] = Idle]
               /\ publish' = [publish EXCEPT ![m] = ends]
               /\ Answers(call[c].kind, Noted(c, m, ends).ok, Noted(c, m, ends).failed)
      BY <1>1, <2>1, <2>4, ReturnsIInv
    <2>5. QED BY <1>1, <2>2, <2>3, <2>4, SettlesCases
  <1>2. CASE Confirm(c, m)
    BY <1>1, <1>2 DEF Confirm
  <1>3. CASE Reject(c, m)
    BY <1>1, <1>3 DEF Reject
  <1>4. QED BY <1>2, <1>3

LEMMA TimeoutIInv ==
    ASSUME IInv, NEW c \in Caller, Timeout(c)
    PROVE  IInv'
  <1>1. /\ call[c].kind = "confirmed" /\ Answers("confirmed", {}, Awaited(c))
        /\ late' = late \cup Awaited(c) /\ call' = [call EXCEPT ![c] = Idle]
        /\ UNCHANGED <<publish, taken, metrics>>
    BY DEF Timeout
  <1> DEFINE S == Given(c)
  <1>2. S \in SUBSET Message /\ call[c] \in Call /\ call[c].batch \in Seq(Message)
    BY GivenMessages DEF IInv, TypeOK, Call
  <1>3. S = Awaited(c)
    <2>1. /\ Len(call[c].batch) = 1 /\ call[c].next = 2 /\ call[c].ok = {} /\ call[c].failed = {}
      BY <1>1 DEF IInv, CallInv, WellFormed, Single
    <2>2. First(call[c].batch, call[c].next - 1) = S
      <3>1. call[c].next - 1 = Len(call[c].batch) /\ 0 \in 0..Len(call[c].batch)
        BY <2>1
      <3>2. QED BY <1>2, <3>1, FirstOfBatch DEF Given
    <2>3. \A y \in S : publish[y] = "pending"
      <3>1. \A y \in S : publish[y] # "none" /\ publish[y] # "confirmed" /\ publish[y] # "rejected"
        BY <2>1, <2>2 DEF IInv, StandingInv, Standing
      <3>2. \A y \in S : publish[y] \in {"none", "pending", "confirmed", "rejected"}
        BY <1>2 DEF IInv, TypeOK
      <3>3. QED BY <3>1, <3>2
    <2> HIDE DEF S
    <2>4. QED BY <2>2, <2>3 DEF Awaited
  <1>4. \A y \in Message : answer'[y] = IF y \in S THEN "failure" ELSE answer[y]
    BY <1>1, <1>3 DEF Answers
  <1>5. answer' \in [Message -> {"none", "success", "failure", "thrown"}]
    BY <1>1 DEF Answers, IInv, TypeOK
  <1>6. \A y \in S : answer[y] = "none" /\ publish[y] = "pending"
    BY <1>3 DEF Awaited, IInv, StandingInv, Standing
  <1>7. late' = late \cup S
    BY <1>1, <1>3
  <1>8. \A d \in Caller \ {c} : Given(d) \cap S = {}
    BY DEF IInv, OwnInv
  <1>9. Given(c) \subseteq S
    OBVIOUS
  <1> HIDE DEF S
  <1>10. TypeOK'
    <2>1. call' \in [Caller -> Call]
      BY <1>1, IdleCall, CallMoves DEF IInv, TypeOK
    <2>2. QED BY <1>1, <1>2, <1>5, <1>7, <2>1 DEF IInv, TypeOK
  <1>11. CountInv'
    <2>1. \A y \in Message : /\ publish'[y] = publish[y]
                             /\ answer'[y] = "thrown" /\ publish[y] = "rejected" <=>
                                   answer[y] = "thrown" /\ publish[y] = "rejected"
      BY <1>1, <1>4, <1>6
    <2>2. Confirmed' = Confirmed /\ Rejected' = Rejected
      BY <2>1 DEF Confirmed, Rejected
    <2>3. QED BY <1>1, <2>2 DEF IInv, CountInv
  <1>12. \A y \in S : Answered(y)'
    <2>1. \A y \in S : y \in Message /\ answer'[y] = "failure" /\ y \in late' /\ publish'[y] = "pending"
      BY <1>1, <1>2, <1>4, <1>6, <1>7
    <2>2. QED BY <2>1 DEF Answered
  <1>13. CallInv' /\ OwnInv' /\ StandingInv' /\ AnswerInv'
    <2> DEFINE r == Idle
    <2>1. /\ r \in Call /\ WellFormed(r) /\ ToSet(r.batch) = {}
          /\ call' = [call EXCEPT ![c] = r] /\ UNCHANGED taken
      BY <1>1, IdleCall
    <2> HIDE DEF r
    <2>2. ToSet(r.batch) \subseteq S /\ \A y \in ToSet(r.batch) : Standing(r, y)'
      BY <2>1
    <2>3. \A y \in Message \ S :
             publish'[y] = publish[y] /\ answer'[y] = answer[y] /\ (y \in late' <=> y \in late)
      BY <1>1, <1>4, <1>7
    <2>4. QED BY <1>2, <1>8, <1>9, <1>12, <2>1, <2>2, <2>3, CallSteps
  <1>14. QED BY <1>10, <1>11, <1>13 DEF IInv

LEMMA SettleLateIInv ==
    ASSUME IInv, NEW m \in Message, SettleLate(m)
    PROVE  IInv'
  <1>1. /\ m \in late /\ publish[m] = "pending" /\ UNCHANGED <<call, taken, answer, late>>
    BY DEF SettleLate
  <1>2. PICK ends \in {"confirmed", "rejected"} :
           /\ ends = "confirmed" => taken[m] > 0
           /\ publish' = [publish EXCEPT ![m] = ends]
           /\ Counts("confirmed", ends)
    BY DEF SettleLate
  <1>3. /\ publish' \in [Message -> {"none", "pending", "confirmed", "rejected"}]
        /\ publish'[m] = ends /\ \A y \in Message \ {m} : publish'[y] = publish[y]
    BY <1>2 DEF IInv, TypeOK
  <1>4. answer[m] = "failure" /\ \A c \in Caller : m \notin Given(c)
    BY <1>1 DEF IInv, AnswerInv, Answered, StandingInv, Standing
  <1>5. CountInv' /\ metrics' \in [sent : Nat, failed : Nat]
    <2>1. answer'[m] # "thrown" /\ \A y \in Message : answer'[y] = answer[y]
      BY <1>1, <1>4
    <2> DEFINE kind == "confirmed"
    <2>2. kind # "delayed" /\ Counts(kind, ends)
      BY <1>2
    <2> HIDE DEF kind
    <2>3. QED BY <1>1, <1>3, <2>1, <2>2, CountsEnded
  <1>6. TypeOK'
    BY <1>1, <1>3, <1>5 DEF IInv, TypeOK
  <1>7. CallInv' /\ OwnInv'
    BY <1>1 DEF IInv, CallInv, OwnInv, Given
  <1>8. StandingInv'
    <2> SUFFICES ASSUME NEW c \in Caller, NEW y \in Given(c) PROVE Standing(call[c], y)'
      BY <1>1 DEF StandingInv, Given
    <2>1. y \in Message /\ y # m
      BY <1>4, GivenMessages DEF IInv
    <2>2. Standing(call[c], y)
      BY DEF IInv, StandingInv
    <2>3. QED BY <1>1, <1>3, <2>1, <2>2 DEF Standing
  <1>9. AnswerInv'
    <2> SUFFICES ASSUME NEW y \in Message PROVE Answered(y)'
      BY DEF AnswerInv
    <2>1. Answered(y)
      BY DEF IInv, AnswerInv
    <2>2. CASE y = m
      BY <1>1, <1>2, <1>3, <1>4, <2>2 DEF Answered
    <2>3. CASE y # m
      BY <1>1, <1>3, <2>1, <2>3 DEF Answered, Given
    <2>4. QED BY <2>2, <2>3
  <1>10. QED BY <1>5, <1>6, <1>7, <1>8, <1>9 DEF IInv

LEMMA NextIInv == IInv /\ [Next]_vars => IInv'
  <1> SUFFICES ASSUME IInv, [Next]_vars PROVE IInv'
    OBVIOUS
  <1>1. ASSUME NEW c \in Caller, NEW kind \in Single, NEW m \in Message, Send(c, kind, m)
        PROVE  IInv'
    BY <1>1, SendIInv
  <1>2. ASSUME NEW c \in Caller, NEW m \in Message, Confirm(c, m) \/ Reject(c, m)
        PROVE  IInv'
    BY <1>2, SettlesIInv
  <1>3. ASSUME NEW c \in Caller, NEW kind \in Batch, NEW batch \in SetToAllKPermutations(Fresh),
               SendBatch(c, kind, batch)
        PROVE  IInv'
    BY <1>3, SendBatchIInv
  <1>4. ASSUME NEW c \in Caller, Timeout(c) PROVE IInv'
    BY <1>4, TimeoutIInv
  <1>5. ASSUME NEW m \in Message, Take(m) \/ SettleLate(m) PROVE IInv'
    BY <1>5, TakeIInv, SettleLateIInv
  <1>6. CASE UNCHANGED vars
    BY <1>6 DEF vars, IInv, TypeOK, CallInv, OwnInv, StandingInv, Standing, AnswerInv, Answered,
                CountInv, Given, Confirmed, Rejected
  <1>7. QED BY <1>1, <1>2, <1>3, <1>4, <1>5, <1>6 DEF Next

-----------------------------------------------------------------------------
(* The theorems.                                                           *)

(* What every reachable state satisfies: calls with messages of their own, *)
(* which know how their publishes stand; answers true of the publish,      *)
(* unless they came at the timeout; and counters of the publishes that     *)
(* have ended.                                                             *)
THEOREM Invariance == Spec => []IInv
  BY InitIInv, NextIInv, PTL DEF Spec

(* Calls, publishes, answers and counters are of their types.              *)
THEOREM TypeCorrect == Spec => []TypeOK
  <1>1. IInv => TypeOK
    BY DEF IInv
  <1>2. QED BY <1>1, Invariance, PTL

(* totalSent and totalFailed of getMetrics are the results that callers    *)
(* were given or wait for, and the sends that ended after their timeout:   *)
(* none is counted twice or forgotten, however calls overlap.              *)
THEOREM CountersExact == Spec => []CountersFollowResults
  <1>1. ASSUME IInv PROVE CountersFollowResults
    <2> DEFINE S == {m \in Message : answer[m] = "success"}
                       \cup {m \in late : publish[m] = "confirmed"} \cup UNION {call[c].ok : c \in Caller}
               F == ({m \in Message : answer[m] = "failure"} \ late)
                       \cup {m \in late : publish[m] = "rejected"} \cup UNION {call[c].failed : c \in Caller}
    <2>1. /\ \A c \in Caller : call[c].ok \subseteq Given(c) /\ call[c].failed \subseteq Given(c)
          /\ \A c \in Caller : Given(c) \subseteq Message
          /\ late \subseteq Message
      BY <1>1, GivenMessages DEF IInv, CallInv, WellFormed, TypeOK, Given
    <2>2. \A c \in Caller : \A m \in Given(c) :
             /\ answer[m] = "none"
             /\ m \in call[c].ok <=> publish[m] = "confirmed"
             /\ m \in call[c].failed <=> publish[m] = "rejected"
      BY <1>1 DEF IInv, StandingInv, Standing
    <2>3. \A m \in Message : Answered(m) /\ answer[m] \in {"none", "success", "failure", "thrown"}
      BY <1>1 DEF IInv, AnswerInv, TypeOK
    <2>4. ASSUME NEW m \in Message PROVE m \in S <=> publish[m] = "confirmed"
      <3>1. m \in S => publish[m] = "confirmed"
        BY <2>1, <2>2, <2>3 DEF Answered
      <3>2. ASSUME publish[m] = "confirmed" PROVE m \in S
        <4>1. CASE answer[m] = "none"
          <5>1. PICK c \in Caller : m \in Given(c)
            BY <2>3, <3>2, <4>1 DEF Answered
          <5>2. m \in call[c].ok
            BY <2>2, <3>2, <5>1
          <5>3. QED BY <5>2
        <4>2. CASE answer[m] # "none"
          BY <2>3, <3>2, <4>2 DEF Answered
        <4>3. QED BY <4>1, <4>2
      <3>3. QED BY <3>1, <3>2
    <2>5. ASSUME NEW m \in Message
          PROVE  m \in F <=> publish[m] = "rejected" /\ answer[m] # "thrown"
      <3>1. m \in F => publish[m] = "rejected" /\ answer[m] # "thrown"
        BY <2>1, <2>2, <2>3 DEF Answered
      <3>2. ASSUME publish[m] = "rejected", answer[m] # "thrown" PROVE m \in F
        <4>1. CASE answer[m] = "none"
          <5>1. PICK c \in Caller : m \in Given(c)
            BY <2>3, <3>2, <4>1 DEF Answered
          <5>2. m \in call[c].failed
            BY <2>2, <3>2, <5>1
          <5>3. QED BY <5>2
        <4>2. CASE answer[m] # "none"
          BY <2>3, <3>2, <4>2 DEF Answered
        <4>3. QED BY <4>1, <4>2
      <3>3. QED BY <3>1, <3>2
    <2>6. S = Confirmed
      <3>1. S \subseteq Message
        BY <2>1
      <3>2. QED BY <2>4, <3>1 DEF Confirmed
    <2>7. F = Rejected
      <3>1. F \subseteq Message
        BY <2>1
      <3>2. QED BY <2>5, <3>1 DEF Rejected
    <2>8. metrics.sent = Cardinality(S) /\ metrics.failed = Cardinality(F)
      BY <1>1, <2>6, <2>7 DEF IInv, CountInv
    <2>9. QED BY <2>8 DEF CountersFollowResults
  <1>2. QED BY <1>1, Invariance, PTL

-----------------------------------------------------------------------------
(* Refinement: what the callers are told is what Outbox allows.            *)

Told == [m \in Message |-> ToldAs(m)]

(* The answers of one call are one step of Outbox.                         *)
LEMMA AnswersStep ==
    ASSUME IInv, NEW told \in SUBSET Message, NEW failed \in SUBSET Message, NEW kind,
           told \cap failed = {}, Answers(kind, told, failed),
           \A m \in told \cup failed : answer[m] = "none",
           \A m \in told : taken[m] > 0,
           UNCHANGED taken
    PROVE  Promise!Next
  <1>1. \A m \in told \cup failed : Told[m] = "none"
    BY DEF Told, ToldAs
  <1>2. Told' = [m \in Message |-> IF m \in told THEN "success"
                                   ELSE IF m \in failed THEN "failure" ELSE Told[m]]
    <2>1. \A m \in Message :
             ToldAs(m)' = IF m \in told THEN "success"
                          ELSE IF m \in failed THEN "failure" ELSE ToldAs(m)
      BY DEF Answers, ToldAs
    <2>2. QED BY <2>1 DEF Told
  <1>3. Promise!Answer(told, failed)
    BY <1>1, <1>2 DEF Promise!Answer, Told
  <1>4. QED BY <1>3 DEF Promise!Next

LEMMA SameTold ==
    ASSUME UNCHANGED <<answer, taken>>
    PROVE  UNCHANGED <<taken, Told>>
  BY DEF Told, ToldAs

LEMMA SettlesStep ==
    ASSUME IInv, NEW c \in Caller, NEW m \in Awaited(c), NEW ends \in {"confirmed", "rejected"},
           ends = "confirmed" => taken[m] > 0, Settles(c, m, ends), UNCHANGED <<taken, late>>
    PROVE  [Promise!Next]_<<taken, Told>>
  <1>1. CASE answer' = answer
    BY <1>1, SameTold
  <1>2. CASE Answers(call[c].kind, Noted(c, m, ends).ok, Noted(c, m, ends).failed)
    <2>1. PICK r \in Call :
             /\ r = Noted(c, m, ends)
             /\ r.ok = IF ends = "confirmed" THEN call[c].ok \cup {m} ELSE call[c].ok
             /\ r.failed = IF ends = "rejected" THEN call[c].failed \cup {m} ELSE call[c].failed
             /\ r.ok \subseteq Given(c) /\ r.failed \subseteq Given(c)
      BY Notes
    <2>2. /\ Given(c) \subseteq Message /\ m \in Given(c) /\ publish[m] = "pending"
          /\ call[c].ok \subseteq Given(c) /\ call[c].failed \subseteq Given(c)
      BY AwaitedMessages DEF WellFormed, Given
    <2>3. \A x \in Given(c) : /\ answer[x] = "none"
                              /\ x \in call[c].ok => publish[x] = "confirmed" /\ taken[x] > 0
                              /\ x \in call[c].failed => publish[x] = "rejected"
      BY <2>2 DEF IInv, StandingInv, Standing, AnswerInv, Answered
    <2>4. /\ r.ok \cap r.failed = {} /\ \A x \in r.ok : taken[x] > 0
          /\ \A x \in r.ok \cup r.failed : answer[x] = "none"
          /\ r.ok \in SUBSET Message /\ r.failed \in SUBSET Message
      BY <2>1, <2>2, <2>3
    <2>5. Answers(call[c].kind, r.ok, r.failed)
      BY <1>2, <2>1
    <2>6. QED BY <2>4, <2>5, AnswersStep
  <1>3. QED BY <1>1, <1>2, SettlesCases

LEMMA NextImplementsOutbox == IInv /\ [Next]_vars => [Promise!Next]_<<taken, Told>>
  <1> SUFFICES ASSUME IInv, [Next]_vars PROVE [Promise!Next]_<<taken, Told>>
    OBVIOUS
  <1>1. ASSUME NEW c \in Caller, NEW kind \in Single, NEW m \in Message, Send(c, kind, m)
        PROVE  [Promise!Next]_<<taken, Told>>
    BY <1>1, SameTold DEF Send
  <1>2. ASSUME NEW c \in Caller, NEW m \in Message, Confirm(c, m)
        PROVE  [Promise!Next]_<<taken, Told>>
    <2> DEFINE ends == "confirmed"
    <2>1. /\ m \in Awaited(c) /\ ends \in {"confirmed", "rejected"} /\ taken[m] > 0
          /\ Settles(c, m, ends) /\ UNCHANGED <<taken, late>>
      BY <1>2 DEF Confirm
    <2> HIDE DEF ends
    <2>2. QED BY <2>1, SettlesStep
  <1>3. ASSUME NEW c \in Caller, NEW m \in Message, Reject(c, m)
        PROVE  [Promise!Next]_<<taken, Told>>
    <2> DEFINE ends == "rejected"
    <2>1. /\ m \in Awaited(c) /\ ends \in {"confirmed", "rejected"} /\ ends # "confirmed"
          /\ Settles(c, m, ends) /\ UNCHANGED <<taken, late>>
      BY <1>3 DEF Reject
    <2> HIDE DEF ends
    <2>2. QED BY <2>1, SettlesStep
  <1>4. ASSUME NEW c \in Caller, NEW kind \in Batch, NEW batch, SendBatch(c, kind, batch)
        PROVE  [Promise!Next]_<<taken, Told>>
    BY <1>4, SameTold DEF SendBatch
  <1>5. ASSUME NEW c \in Caller, Timeout(c) PROVE [Promise!Next]_<<taken, Told>>
    <2> DEFINE told == {}
               kind == "confirmed"
    <2>1. /\ Answers(kind, told, Awaited(c)) /\ UNCHANGED taken
          /\ told \in SUBSET Message /\ told \cap Awaited(c) = {} /\ \A m \in told : taken[m] > 0
      BY <1>5 DEF Timeout
    <2>2. /\ Awaited(c) \in SUBSET Message
          /\ \A m \in told \cup Awaited(c) : answer[m] = "none"
      BY AwaitedMessages
    <2> HIDE DEF told, kind
    <2>3. QED BY <2>1, <2>2, AnswersStep
  <1>6. ASSUME NEW m \in Message, Take(m) PROVE [Promise!Next]_<<taken, Told>>
    <2>1. Told' = Told /\ taken' = [taken EXCEPT ![m] = @ + 1]
      BY <1>6 DEF Take, Told, ToldAs
    <2>2. Promise!Take(m)
      BY <2>1 DEF Promise!Take, Told
    <2>3. QED BY <2>2 DEF Promise!Next
  <1>7. ASSUME NEW m \in Message, SettleLate(m) PROVE [Promise!Next]_<<taken, Told>>
    BY <1>7, SameTold DEF SettleLate
  <1>8. CASE UNCHANGED vars
    BY <1>8, SameTold DEF vars
  <1>9. QED BY <1>1, <1>2, <1>3, <1>4, <1>5, <1>6, <1>7, <1>8 DEF Next

(* Whoever hands a message to the producer gets at most one answer, and a  *)
(* success only for what the broker has taken: single, confirmed and       *)
(* delayed sends and batches of any length, with timeouts and copies,      *)
(* implement Outbox.                                                       *)
THEOREM ProducerImplementsOutbox == Spec => ImplementsOutbox
  <1>1. Init => Promise!Init
    BY DEF Init, Promise!Init, ToldAs
  <1>2. IInv /\ [Next]_vars => [Promise!Next]_<<taken, Told>>
    BY NextImplementsOutbox
  <1>3. QED
    BY <1>1, <1>2, Invariance, PTL DEF Spec, ImplementsOutbox, Promise!Spec, Told
=============================================================================
