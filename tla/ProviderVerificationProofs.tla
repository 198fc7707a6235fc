--------------------- MODULE ProviderVerificationProofs ---------------------
(***************************************************************************)
(* Theorems of ProviderVerification, for any number of providers, of calls *)
(* of the API and of messages in handling.                                 *)
(***************************************************************************)
EXTENDS ProviderVerification, FiniteSetTheorems, TLAPS

(* What a call in progress and a message in handling look like.            *)
Shape ==
    /\ \A c \in Call :
          /\ call[c].op = "none" => call[c] = Idle
          /\ call[c].op # "none" =>
                call[c].at \in {"checked", "saved"} /\ \E p \in Provider : call[c].p = {p}
          /\ call[c].op = "submit" => call[c].at = "checked"
    /\ \A w \in Worker :
          /\ work[w].at = "free" => work[w] = Free
          /\ work[w].at # "free" =>
                /\ \E p \in Provider : work[w].p = {p}
                /\ work[w].verdict \in Verdict /\ work[w].as \in Verdict

(* A provider with a verdict, or a verdict on a provider, has seen a review. *)
ReviewInv ==
    \A p \in Provider :
       /\ status[p] \in {"UNDER_REVIEW"} \cup Verdict => p \in reviewed
       /\ Settled(p) => verdicts[p] # {}
       /\ verdicts[p] # {} => p \in reviewed /\ status[p] # "none"

(* The profile and its verification come and go in this order.             *)
ProfileInv ==
    /\ \A p \in Provider :
          /\ ~profile[p] => status[p] \in {"none", "erased"}
          /\ status[p] = "erased" => ~profile[p]
    /\ \A c, d \in Call, p \in Provider :
          At(c, "create", p, "saved") /\ At(d, "create", p, "saved") => c = d

(* What the checks of a call and its writes so far have left.              *)
CallInv ==
    \A c \in Call, p \in Provider :
       call[c].p = {p} =>
          /\ call[c].op \in Verdict => p \in reviewed
          /\ call[c].op \in {"submit"} \cup Verdict => status[p] # "none"
          /\ call[c].op \in Verdict /\ call[c].at = "saved" => call[c].op \in verdicts[p]
          /\ call[c].op = "create" /\ call[c].at = "saved" =>
                \/ status[p] = "none" /\ profile[p]
                \/ status[p] = "erased"

(* A message carries a verdict an admin has written.                       *)
MessageInv ==
    \A p \in Provider :
       /\ \A v \in Verdict : queue[p][v] > 0 => v \in verdicts[p]
       /\ \A w \in Worker :
             work[w].p = {p} =>
                /\ work[w].verdict \in verdicts[p]
                /\ p \notin crossed => work[w].as = work[w].verdict

(* The messages on p that have come this far in their handler.             *)
Past(p, stages) == {w \in Worker : work[w].p = {p} /\ work[w].at \in stages}

(* What the handlers have written, for the messages done and under way.    *)
CountInv ==
    \A p \in Provider :
       /\ mails[p] + Cardinality(Past(p, {"notified"})) <= notices[p]
       /\ acked[p] + Cardinality(Past(p, {"notified", "mailed"})) <= notices[p]
       /\ status[p] # "erased" =>
             acked[p] + Cardinality(Past(p, {"logged", "notified", "mailed"})) <= logs[p]

(* A verdict that was not lost is on its way to the log, or there.         *)
LogInv ==
    \A p \in Provider :
       Exists(p) /\ verdicts[p] # {} /\ p \notin lost =>
          \/ logs[p] > 0
          \/ \E v \in Verdict : queue[p][v] > 0
          \/ Past(p, {"taken", "read", "updated"}) # {}
          \/ \E c \in Call, v \in Verdict : At(c, v, p, "saved")

(* On an undisturbed course the only verdict is the status.                *)
CourseInv ==
    \A p \in Provider, v \in Verdict :
       p \notin crossed \cup reopened /\ verdicts[p] = {v} => status[p] \in {v, "erased"}

(* What a call has checked still holds, unless the call is stale.          *)
ChecksHold ==
    \A c \in Call, p \in Provider, op \in {"submit"} \cup Verdict :
       At(c, op, p, "checked") => c \in stale \/ status[p] \in CheckedStatus(op)

IInv ==
    /\ TypeOK /\ Shape /\ ReviewInv /\ ProfileInv /\ CallInv /\ MessageInv
    /\ CountInv /\ LogInv /\ CourseInv /\ ChecksHold

CallRecord == [op : {"none", "create", "submit"} \cup Verdict,
               p : SUBSET Provider, at : {"idle", "checked", "saved"}]
WorkRecord == [p : SUBSET Provider, verdict : Verdict \cup {"none"},
               as : Verdict \cup {"none"},
               at : {"free", "taken", "read", "updated", "logged", "notified", "mailed"},
               seen : Status \cup {"none", "erased"}]

-----------------------------------------------------------------------------
(* The statuses the checks ask for.                                        *)
LEMMA Checked ==
    /\ CheckedStatus("submit") = {"PENDING"}
    /\ \A v \in Verdict : CheckedStatus(v) = {"UNDER_REVIEW"}
  BY DEF CheckedStatus, Verdict

LEMMA InitIInv == Init => IInv
  <1> SUFFICES ASSUME Init PROVE IInv
    OBVIOUS
  <1>1. Idle \in CallRecord /\ Free \in WorkRecord
    BY DEF Idle, Free, CallRecord, WorkRecord
  <1>2. TypeOK
    BY <1>1, VerificationConstants DEF Init, TypeOK, CallRecord, WorkRecord
  <1>3. Shape
    BY DEF Init, Shape, Idle, Free
  <1>4. ReviewInv /\ ProfileInv /\ CallInv /\ CourseInv /\ ChecksHold
    BY DEF Init, ReviewInv, ProfileInv, CallInv, CourseInv, ChecksHold, Idle, At, Settled,
           Verdict
  <1>5. MessageInv /\ LogInv
    <2>1. \A p \in Provider : verdicts[p] = {} /\ \A v \in Verdict : queue[p][v] = 0
      BY DEF Init
    <2>2. \A w \in Worker : work[w].p = {}
      BY DEF Init, Free
    <2>3. QED BY <2>1, <2>2 DEF MessageInv, LogInv
  <1>6. CountInv
    <2>1. \A p \in Provider :
             /\ Past(p, {"notified"}) = {} /\ Past(p, {"notified", "mailed"}) = {}
             /\ Past(p, {"logged", "notified", "mailed"}) = {}
      BY DEF Past, Init, Free
    <2>2. \A p \in Provider : mails[p] = 0 /\ acked[p] = 0 /\ notices[p] = 0 /\ logs[p] = 0
      BY DEF Init
    <2>3. Cardinality({}) = 0
      BY FS_EmptySet
    <2>4. QED BY <2>1, <2>2, <2>3 DEF CountInv
  <1>7. QED BY <1>2, <1>3, <1>4, <1>5, <1>6 DEF IInv

(* The calls of the API change nothing the handlers count.                 *)
LEMMA SamePast ==
    ASSUME work' = work
    PROVE  \A p \in Provider : \A stages : Past(p, stages)' = Past(p, stages)
  BY DEF Past

(* Where a call stands, field by field.                                    *)
LEMMA AtMeans ==
    ASSUME NEW c \in Call, call \in [Call -> CallRecord]
    PROVE  \A op, p, at : At(c, op, p, at) <=> call[c].op = op /\ call[c].p = {p} /\ call[c].at = at
  <1>1. call[c] \in CallRecord
    OBVIOUS
  <1>2. QED BY <1>1 DEF At, CallRecord

LEMMA AtMeansNext ==
    ASSUME NEW c \in Call, call' \in [Call -> CallRecord]
    PROVE  \A op, p, at :
              At(c, op, p, at)' <=> call'[c].op = op /\ call'[c].p = {p} /\ call'[c].at = at
  <1>1. call'[c] \in CallRecord
    OBVIOUS
  <1>2. QED BY <1>1 DEF At, CallRecord

LEMMA AtNow ==
    ASSUME IInv, NEW c \in Call
    PROVE  \A op, p, at : At(c, op, p, at) <=> call[c].op = op /\ call[c].p = {p} /\ call[c].at = at
  BY AtMeans DEF IInv, TypeOK, CallRecord

(* One call of the API moves.                                              *)
LEMMA CallMoves ==
    ASSUME IInv, NEW c \in Call, NEW k \in CallRecord, call' = [call EXCEPT ![c] = k]
    PROVE  /\ call' \in [Call -> CallRecord] /\ call'[c] = k
           /\ \A d \in Call \ {c} : call'[d] = call[d]
  BY DEF IInv, TypeOK, CallRecord

LEMMA StartIInv ==
    ASSUME IInv, NEW c \in Call, NEW p \in Provider,
           NEW op \in {"create", "submit"} \cup Verdict, Start(c, op, p),
           op \in {"submit"} \cup Verdict => status[p] \in CheckedStatus(op),
           UNCHANGED <<profile, status, stale, course, worker>>
    PROVE  IInv'
  <1> DEFINE k == [op |-> op, p |-> {p}, at |-> "checked"]
  <1>1. k \in CallRecord /\ k.op = op /\ k.p = {p} /\ k.at = "checked"
    BY DEF CallRecord
  <1>2. call[c] = Idle /\ call' = [call EXCEPT ![c] = k]
    BY DEF Start
  <1> HIDE DEF k
  <1>3. /\ call' \in [Call -> CallRecord] /\ call'[c] = k
        /\ \A d \in Call \ {c} : call'[d] = call[d]
    BY <1>1, <1>2, CallMoves
  <1>4. UNCHANGED <<profile, status, stale, verdicts, reviewed, reopened, lost, logs, notices,
                    mails, queue, work, acked, crossed, failures>>
    BY DEF course, worker, broker
  <1>5. TypeOK'
    BY <1>3, <1>4 DEF IInv, TypeOK, CallRecord
  <1>6. Shape'
    <2>1. /\ call'[c].op # "none" /\ call'[c].at = "checked"
          /\ \E q \in Provider : call'[c].p = {q}
      BY <1>1, <1>3 DEF Verdict
    <2>2. QED BY <1>3, <1>4, <2>1 DEF IInv, Shape
  <1>7. ReviewInv' /\ CourseInv'
    BY <1>4 DEF IInv, ReviewInv, CourseInv, Settled
  <1>8. ProfileInv'
    BY <1>1, <1>3, <1>4, AtNow, AtMeansNext DEF IInv, ProfileInv
  <1>9. CallInv'
    BY <1>1, <1>3, <1>4, Checked DEF IInv, CallInv, ReviewInv
  <1>10. MessageInv'
    BY <1>4 DEF IInv, MessageInv
  <1>11. CountInv'
    BY <1>4, SamePast DEF IInv, CountInv
  <1>12. LogInv'
    <2>1. \A d \in Call, v \in Verdict, q \in Provider :
             At(d, v, q, "saved") => At(d, v, q, "saved")'
      BY <1>2, <1>3, AtNow, AtMeansNext DEF Idle
    <2>2. QED BY <1>4, <2>1, SamePast DEF IInv, LogInv, Exists
  <1>13. ChecksHold'
    BY <1>1, <1>3, <1>4, AtNow, AtMeansNext DEF IInv, ChecksHold
  <1>14. QED
    BY <1>5, <1>6, <1>7, <1>8, <1>9, <1>10, <1>11, <1>12, <1>13 DEF IInv

(* A call that ends.                                                       *)
LEMMA EndsShape ==
    ASSUME IInv, NEW c \in Call, call' = [call EXCEPT ![c] = Idle]
    PROVE  /\ call' \in [Call -> CallRecord]
           /\ call'[c] = Idle /\ call'[c].op = "none" /\ call'[c].p = {} /\ call'[c].at = "idle"
           /\ \A d \in Call \ {c} : call'[d] = call[d]
  <1>1. Idle \in CallRecord
    BY DEF Idle, CallRecord
  <1>2. QED BY <1>1, CallMoves DEF Idle

(* A call that ends without having written the verification or a verdict;  *)
(* it may have published, or lost, the verdict it wrote before.            *)
LEMMA EndsIInv ==
    ASSUME IInv, NEW c \in Call, Ends(c),
           UNCHANGED <<profile, status, verdicts, reviewed, reopened, logs, notices, mails, work,
                       acked, crossed>>,
           failures' \in 0..MaxFailures,
           lost \subseteq lost', lost' \subseteq Provider,
           queue' \in [Provider -> [Verdict -> Nat]],
           \A p \in Provider, v \in Verdict :
              /\ queue[p][v] > 0 => queue'[p][v] > 0
              /\ queue'[p][v] > 0 => queue[p][v] > 0 \/ v \in verdicts[p]
              /\ At(c, v, p, "saved") => p \in lost' \/ queue'[p][v] > 0
    PROVE  IInv'
  <1>1. /\ call' \in [Call -> CallRecord] /\ stale' = stale \ {c}
        /\ call'[c] = Idle /\ call'[c].op = "none" /\ call'[c].p = {} /\ call'[c].at = "idle"
        /\ \A d \in Call \ {c} : call'[d] = call[d]
    BY EndsShape DEF Ends
  <1>2. TypeOK'
    BY <1>1 DEF IInv, TypeOK, CallRecord
  <1>3. Shape'
    BY <1>1 DEF IInv, Shape
  <1>4. ReviewInv' /\ CourseInv'
    BY DEF IInv, ReviewInv, CourseInv, Settled
  <1>5. ProfileInv'
    BY <1>1, AtNow, AtMeansNext DEF IInv, ProfileInv
  <1>6. CallInv'
    BY <1>1, ZenonT(60) DEF IInv, CallInv
  <1>7. MessageInv'
    BY DEF IInv, MessageInv
  <1>8. CountInv'
    BY SamePast DEF IInv, CountInv
  <1>9. LogInv'
    <2> SUFFICES ASSUME NEW p \in Provider, Exists(p), verdicts[p] # {}, p \notin lost'
                 PROVE  \/ logs[p] > 0
                        \/ \E v \in Verdict : queue'[p][v] > 0
                        \/ Past(p, {"taken", "read", "updated"}) # {}
                        \/ \E d \in Call, v \in Verdict : At(d, v, p, "saved")'
      BY SamePast DEF LogInv, Exists
    <2>1. CASE \E d \in Call \ {c}, v \in Verdict : At(d, v, p, "saved")
      BY <1>1, <2>1, AtNow, AtMeansNext
    <2>2. CASE \E v \in Verdict : At(c, v, p, "saved")
      BY <2>2
    <2>3. QED BY <2>1, <2>2 DEF IInv, LogInv
  <1>10. ChecksHold'
    BY <1>1, AtNow, AtMeansNext, SMTT(30) DEF IInv, ChecksHold
  <1>11. QED
    BY <1>2, <1>3, <1>4, <1>5, <1>6, <1>7, <1>8, <1>9, <1>10 DEF IInv

(* A call that has written its first statement and goes on.                *)
LEMMA GoesShape ==
    ASSUME IInv, NEW c \in Call, NEW op \in {"create"} \cup Verdict, NEW p \in Provider,
           At(c, op, p, "checked"), Goes(c, "saved")
    PROVE  /\ call' \in [Call -> CallRecord]
           /\ call'[c].op = op /\ call'[c].p = {p} /\ call'[c].at = "saved"
           /\ \A d \in Call \ {c} : call'[d] = call[d]
  <1> DEFINE k == [op |-> op, p |-> {p}, at |-> "saved"]
  <1>1. k \in CallRecord /\ k.op = op /\ k.p = {p} /\ k.at = "saved"
    BY DEF CallRecord
  <1>2. [call[c] EXCEPT !.at = "saved"] = k
    BY DEF At
  <1>3. call' = [call EXCEPT ![c] = k]
    BY <1>2 DEF Goes
  <1> HIDE DEF k
  <1>4. /\ call' \in [Call -> CallRecord] /\ call'[c] = k
        /\ \A d \in Call \ {c} : call'[d] = call[d]
    BY <1>1, <1>3, CallMoves
  <1>5. QED BY <1>1, <1>4

LEMMA CreateProfileIInv ==
    ASSUME IInv, NEW c \in Call, NEW p \in Provider, CreateProfile(c, p)
    PROVE  IInv'
  <1>1. At(c, "create", p, "checked") /\ UNCHANGED <<status, course, worker>>
    BY DEF CreateProfile
  <1>2. UNCHANGED <<status, verdicts, reviewed, reopened, lost, logs, notices, mails, queue, work,
                    acked, crossed, failures>>
    BY <1>1 DEF course, worker, broker
  <1>3. call[c].op = "create" /\ call[c].p = {p} /\ call[c].at = "checked"
    BY <1>1, AtNow
  <1>4. CASE profile[p] \/ status[p] = "erased"
    <2>1. Ends(c) /\ profile' = profile
      BY <1>4 DEF CreateProfile
    <2>2. \A q \in Provider, v \in Verdict : ~At(c, v, q, "saved")
      BY <1>3, AtNow
    <2>3. /\ queue' \in [Provider -> [Verdict -> Nat]] /\ lost' \subseteq Provider
          /\ failures' \in 0..MaxFailures
      BY <1>2 DEF IInv, TypeOK
    <2>4. QED BY <1>2, <2>1, <2>2, <2>3, EndsIInv
  <1>5. CASE ~profile[p] /\ status[p] # "erased"
    <2>1. /\ Goes(c, "saved") /\ profile' = [profile EXCEPT ![p] = TRUE] /\ stale' = stale
          /\ status[p] = "none"
      BY <1>5 DEF CreateProfile, IInv, ProfileInv
    <2>2. /\ call' \in [Call -> CallRecord]
          /\ call'[c].op = "create" /\ call'[c].p = {p} /\ call'[c].at = "saved"
          /\ \A d \in Call \ {c} : call'[d] = call[d]
      BY <1>1, <2>1, GoesShape
    <2>3. TypeOK'
      BY <1>2, <2>1, <2>2 DEF IInv, TypeOK, CallRecord
    <2>4. Shape'
      BY <1>2, <2>2 DEF IInv, Shape
    <2>5. ReviewInv' /\ CourseInv'
      BY <1>2 DEF IInv, ReviewInv, CourseInv, Settled
    <2>fresh. /\ profile'[p] /\ \A q \in Provider \ {p} : profile'[q] = profile[q]
           /\ \A d \in Call : ~At(d, "create", p, "saved")
      BY <1>5, <2>1, AtNow DEF IInv, TypeOK, CallInv
    <2>6. ProfileInv'
      <3>1. \A d \in Call, q \in Provider :
               At(d, "create", q, "saved")' => (d = c /\ q = p) \/ (At(d, "create", q, "saved") /\ q # p)
        <4> TAKE d \in Call, q \in Provider
        <4>1. CASE d = c
          BY <2>2, <4>1, AtMeansNext
        <4>2. CASE d # c
          BY <2>2, <2>fresh, <4>2, AtNow, AtMeansNext
        <4>3. QED BY <4>1, <4>2
      <3>2. \A d, e \in Call, q \in Provider :
               At(d, "create", q, "saved")' /\ At(e, "create", q, "saved")' => d = e
        BY <3>1 DEF IInv, ProfileInv
      <3>3. QED BY <1>2, <2>1, <2>fresh, <3>2 DEF IInv, ProfileInv
    <2>7. CallInv'
      <3>1. \A q \in Provider : profile[q] => profile'[q]
        BY <2>fresh
      <3>2. "create" \notin {"submit"} \cup Verdict
        BY DEF Verdict
      <3>3. QED BY <1>2, <2>1, <2>2, <2>fresh, <3>1, <3>2 DEF IInv, CallInv
    <2>8. MessageInv'
      BY <1>2 DEF IInv, MessageInv
    <2>9. CountInv'
      BY <1>2, SamePast DEF IInv, CountInv
    <2>10. LogInv'
      <3>1. \A d \in Call, v \in Verdict, q \in Provider :
               At(d, v, q, "saved") => At(d, v, q, "saved")'
        BY <1>3, <2>2, AtNow, AtMeansNext
      <3>2. QED BY <1>2, <3>1, SamePast DEF IInv, LogInv, Exists
    <2>11. ChecksHold'
      BY <1>2, <2>1, <2>2, AtNow, AtMeansNext DEF IInv, ChecksHold
    <2>12. QED
      BY <2>3, <2>4, <2>5, <2>6, <2>7, <2>8, <2>9, <2>10, <2>11 DEF IInv
  <1>6. QED BY <1>4, <1>5

(* The verification of a new provider.                                     *)
LEMMA CreateVerificationIInv ==
    ASSUME IInv, NEW c \in Call, NEW p \in Provider, CreateVerification(c, p)
    PROVE  IInv'
  <1>1. /\ At(c, "create", p, "saved") /\ Ends(c)
        /\ status' = [status EXCEPT ![p] = IF profile[p] THEN "PENDING" ELSE @]
        /\ UNCHANGED <<profile, course, worker>>
    BY DEF CreateVerification
  <1>2. UNCHANGED <<profile, verdicts, reviewed, reopened, lost, logs, notices, mails, queue, work,
                    acked, crossed, failures>>
    BY <1>1 DEF course, worker, broker
  <1>3. call[c].op = "create" /\ call[c].p = {p} /\ call[c].at = "saved"
    BY <1>1, AtNow
  <1>4. \/ status[p] = "none" /\ status' = [status EXCEPT ![p] = "PENDING"] /\ profile[p]
        \/ status[p] = "erased" /\ status' = status
    BY <1>1, <1>3 DEF IInv, CallInv, ProfileInv, TypeOK
  <1>5. /\ \A q \in Provider \ {p} : status'[q] = status[q]
        /\ \/ status'[p] = status[p]
           \/ status[p] = "none" /\ status'[p] = "PENDING" /\ profile[p]
        /\ status' \in [Provider -> Status \cup {"none", "erased"}]
    <2>1. status \in [Provider -> Status \cup {"none", "erased"}] /\ "PENDING" \in Status
      BY DEF IInv, TypeOK, Status
    <2>2. CASE status[p] = "none" /\ status' = [status EXCEPT ![p] = "PENDING"] /\ profile[p]
      BY <2>1, <2>2
    <2>3. CASE status[p] = "erased" /\ status' = status
      BY <2>1, <2>3
    <2>4. QED BY <1>4, <2>2, <2>3
  <1>6. /\ call' \in [Call -> CallRecord] /\ stale' = stale \ {c}
        /\ call'[c] = Idle /\ call'[c].op = "none" /\ call'[c].p = {} /\ call'[c].at = "idle"
        /\ \A d \in Call \ {c} : call'[d] = call[d]
    BY <1>1, EndsShape DEF Ends
  <1>7. TypeOK'
    BY <1>2, <1>5, <1>6 DEF IInv, TypeOK, CallRecord
  <1>8. Shape'
    BY <1>2, <1>6 DEF IInv, Shape
  <1>9. ReviewInv' /\ CourseInv'
    BY <1>2, <1>5 DEF IInv, ReviewInv, CourseInv, Settled, Verdict
  <1>10. ProfileInv'
    BY <1>2, <1>5, <1>6, AtNow, AtMeansNext DEF IInv, ProfileInv
  <1>11. CallInv'
    <2> SUFFICES ASSUME NEW d \in Call, NEW q \in Provider, call'[d].p = {q},
                        call'[d].op = "create", call'[d].at = "saved"
                 PROVE  status'[q] = status[q]
      BY <1>2, <1>5, <1>6 DEF IInv, CallInv
    <2>1. d # c /\ At(d, "create", q, "saved")
      BY <1>6, AtNow
    <2>2. q # p
      BY <1>1, <2>1 DEF IInv, ProfileInv
    <2>3. QED BY <1>5, <2>2
  <1>12. MessageInv'
    BY <1>2 DEF IInv, MessageInv
  <1>13. CountInv'
    BY <1>2, <1>5, SamePast DEF IInv, CountInv
  <1>14. LogInv'
    <2>1. \A d \in Call, v \in Verdict, q \in Provider :
             At(d, v, q, "saved") => At(d, v, q, "saved")'
      BY <1>3, <1>6, AtNow, AtMeansNext DEF Verdict
    <2>2. \A q \in Provider : verdicts[q] # {} => status'[q] = status[q]
      BY <1>5 DEF IInv, ReviewInv
    <2>3. QED BY <1>2, <2>1, <2>2, SamePast DEF IInv, LogInv, Exists
  <1>15. ChecksHold'
    <2> SUFFICES ASSUME NEW d \in Call, NEW q \in Provider, NEW op \in {"submit"} \cup Verdict,
                        At(d, op, q, "checked")'
                 PROVE  d \in stale' \/ status'[q] \in CheckedStatus(op)
      BY DEF ChecksHold
    <2>1. d # c /\ At(d, op, q, "checked")
      BY <1>6, AtNow, AtMeansNext DEF Verdict
    <2>2. status[q] # "none"
      BY <2>1, AtNow DEF IInv, CallInv
    <2>3. status'[q] = status[q]
      BY <1>5, <2>2
    <2>4. QED BY <1>6, <2>1, <2>3 DEF IInv, ChecksHold
  <1>16. QED
    BY <1>7, <1>8, <1>9, <1>10, <1>11, <1>12, <1>13, <1>14, <1>15 DEF IInv

(* A write to a verification makes the calls that have checked it stale,   *)
(* and leaves the checks of the others as they were.                       *)
LEMMA OthersStale ==
    ASSUME IInv, NEW C \in SUBSET Call, NEW p \in Provider,
           \A q \in Provider \ {p} : status'[q] = status[q],
           (stale \cup Outdated(C, p)) \ C \subseteq stale',
           call' \in [Call -> CallRecord], \A d \in Call \ C : call'[d] = call[d],
           \A d \in C : call'[d].at # "checked"
    PROVE  ChecksHold'
  <1> SUFFICES ASSUME NEW d \in Call, NEW q \in Provider, NEW op \in {"submit"} \cup Verdict,
                      At(d, op, q, "checked")'
               PROVE  d \in stale' \/ status'[q] \in CheckedStatus(op)
    BY DEF ChecksHold
  <1>1. d \notin C /\ At(d, op, q, "checked")
    BY AtNow, AtMeansNext
  <1>2. d \in stale \/ status[q] \in CheckedStatus(op)
    BY <1>1 DEF IInv, ChecksHold
  <1>3. CASE q = p
    <2>1. d \in Outdated(C, p)
      BY <1>1, <1>3, AtNow DEF Outdated
    <2>2. QED BY <1>1, <2>1
  <1>4. CASE q # p
    BY <1>1, <1>2, <1>4
  <1>5. QED BY <1>3, <1>4

(* SubmitVerificationUseCase.                                              *)
LEMMA SubmitIInv ==
    ASSUME IInv, NEW c \in Call, NEW p \in Provider, Submit(c, p)
    PROVE  IInv'
  <1>1. /\ At(c, "submit", p, "checked") /\ call' = [call EXCEPT ![c] = Idle]
        /\ status' = [status EXCEPT ![p] = IF Exists(p) THEN "UNDER_REVIEW" ELSE @]
        /\ reviewed' = reviewed \cup {p}
        /\ reopened' = IF Settled(p) THEN reopened \cup {p} ELSE reopened
        /\ stale' = (stale \cup Outdated({c}, p)) \ {c}
        /\ UNCHANGED <<profile, verdicts, lost, worker>>
    BY DEF Submit
  <1>2. UNCHANGED <<profile, verdicts, lost, logs, notices, mails, queue, work, acked, crossed,
                    failures>>
    BY <1>1 DEF worker, broker
  <1>3. call[c].op = "submit" /\ call[c].p = {p} /\ call[c].at = "checked"
    BY <1>1, AtNow
  <1>4. /\ call' \in [Call -> CallRecord]
        /\ call'[c] = Idle /\ call'[c].op = "none" /\ call'[c].p = {} /\ call'[c].at = "idle"
        /\ \A d \in Call \ {c} : call'[d] = call[d]
    BY <1>1, EndsShape
  <1>5. /\ \A q \in Provider \ {p} : status'[q] = status[q]
        /\ status'[p] = IF Exists(p) THEN "UNDER_REVIEW" ELSE status[p]
        /\ status' \in [Provider -> Status \cup {"none", "erased"}]
    BY <1>1 DEF IInv, TypeOK, Status
  <1>6. status[p] # "none"
    BY <1>3 DEF IInv, CallInv
  <1>7. /\ \A q \in Provider : Exists(q)' <=> Exists(q)
        /\ \A q \in Provider : status'[q] = "none" <=> status[q] = "none"
        /\ \A q \in Provider : status'[q] = "erased" <=> status[q] = "erased"
    BY <1>5, <1>6 DEF Exists, Status, Verdict
  <1>8. TypeOK'
    BY <1>1, <1>2, <1>4, <1>5 DEF IInv, TypeOK, CallRecord, Outdated
  <1>9. Shape'
    BY <1>2, <1>4 DEF IInv, Shape
  <1>10. ReviewInv'
    BY <1>1, <1>2, <1>5, <1>7 DEF IInv, ReviewInv, Settled, Verdict
  <1>11. ProfileInv'
    <2>1. \A d \in Call, q \in Provider :
             At(d, "create", q, "saved")' => At(d, "create", q, "saved")
      BY <1>4, AtNow, AtMeansNext
    <2>2. QED BY <1>2, <1>7, <2>1 DEF IInv, ProfileInv
  <1>12. CallInv'
    BY <1>1, <1>2, <1>4, <1>7 DEF IInv, CallInv
  <1>13. MessageInv'
    BY <1>2 DEF IInv, MessageInv
  <1>14. CountInv'
    BY <1>2, <1>7, SamePast DEF IInv, CountInv
  <1>15. LogInv'
    <2>1. \A d \in Call, v \in Verdict, q \in Provider :
             At(d, v, q, "saved") => At(d, v, q, "saved")'
      BY <1>3, <1>4, AtNow, AtMeansNext
    <2>2. QED BY <1>2, <1>7, <2>1, SamePast DEF IInv, LogInv
  <1>16. CourseInv'
    <2> SUFFICES ASSUME NEW q \in Provider, NEW v \in Verdict,
                        q \notin crossed \cup reopened', verdicts[q] = {v}
                 PROVE  status'[q] \in {v, "erased"}
      BY <1>2 DEF CourseInv
    <2>1. q \notin reopened /\ status[q] \in {v, "erased"}
      BY <1>1 DEF IInv, CourseInv
    <2>2. QED BY <1>1, <1>5, <2>1 DEF Settled, Exists, Status, Verdict
  <1>17. ChecksHold'
    BY <1>1, <1>4, <1>5, OthersStale
  <1>18. QED
    BY <1>8, <1>9, <1>10, <1>11, <1>12, <1>13, <1>14, <1>15, <1>16, <1>17 DEF IInv

(* Approve- and RejectProviderUseCase, up to the write.                    *)
LEMMA DecideIInv ==
    ASSUME IInv, NEW c \in Call, NEW v \in Verdict, NEW p \in Provider, Decide(c, v, p)
    PROVE  IInv'
  <1>1. /\ At(c, v, p, "checked") /\ Goes(c, "saved")
        /\ status' = [status EXCEPT ![p] = IF Exists(p) THEN v ELSE @]
        /\ verdicts' = [verdicts EXCEPT ![p] = @ \cup {v}]
        /\ stale' = (stale \cup Outdated({c}, p)) \ {c}
        /\ UNCHANGED <<profile, reviewed, reopened, lost, worker>>
    BY DEF Decide, Writes
  <1>2. UNCHANGED <<profile, reviewed, reopened, lost, logs, notices, mails, queue, work, acked,
                    crossed, failures>>
    BY <1>1 DEF worker, broker
  <1>3. call[c].op = v /\ call[c].p = {p} /\ call[c].at = "checked"
    BY <1>1, AtNow
  <1>4. /\ call' \in [Call -> CallRecord]
        /\ call'[c].op = v /\ call'[c].p = {p} /\ call'[c].at = "saved"
        /\ \A d \in Call \ {c} : call'[d] = call[d]
    BY <1>1, GoesShape
  <1>5. /\ \A q \in Provider \ {p} : status'[q] = status[q] /\ verdicts'[q] = verdicts[q]
        /\ status'[p] = IF Exists(p) THEN v ELSE status[p]
        /\ verdicts'[p] = verdicts[p] \cup {v}
        /\ status' \in [Provider -> Status \cup {"none", "erased"}]
        /\ verdicts' \in [Provider -> SUBSET Verdict]
    BY <1>1 DEF IInv, TypeOK, Status
  <1>6. status[p] # "none" /\ p \in reviewed
    BY <1>3 DEF IInv, CallInv
  <1>7. /\ \A q \in Provider : Exists(q)' <=> Exists(q)
        /\ \A q \in Provider : status'[q] = "none" <=> status[q] = "none"
        /\ \A q \in Provider : status'[q] = "erased" <=> status[q] = "erased"
    BY <1>5 DEF Exists, Status, Verdict
  <1>8. v # "create" /\ v # "none" /\ v # "submit" /\ v \notin {"none", "erased"}
    BY DEF Verdict
  <1>9. TypeOK'
    BY <1>1, <1>2, <1>4, <1>5 DEF IInv, TypeOK, CallRecord, Outdated
  <1>10. Shape'
    BY <1>2, <1>4, <1>8 DEF IInv, Shape
  <1>11. ReviewInv'
    BY <1>2, <1>5, <1>6, <1>7 DEF IInv, ReviewInv, Settled
  <1>12. ProfileInv'
    <2>1. \A d \in Call, q \in Provider :
             At(d, "create", q, "saved")' => At(d, "create", q, "saved")
      BY <1>4, <1>8, AtNow, AtMeansNext
    <2>2. QED BY <1>2, <1>7, <2>1 DEF IInv, ProfileInv
  <1>13. CallInv'
    BY <1>2, <1>4, <1>5, <1>6, <1>7, <1>8 DEF IInv, CallInv
  <1>14. MessageInv'
    BY <1>2, <1>5 DEF IInv, MessageInv
  <1>15. CountInv'
    BY <1>2, <1>7, SamePast DEF IInv, CountInv
  <1>16. LogInv'
    <2>1. \A d \in Call, w \in Verdict, q \in Provider :
             At(d, w, q, "saved") => At(d, w, q, "saved")'
      BY <1>3, <1>4, AtNow, AtMeansNext
    <2>2. At(c, v, p, "saved")'
      BY <1>4, AtMeansNext
    <2>3. QED BY <1>2, <1>5, <1>7, <2>1, <2>2, SamePast DEF IInv, LogInv
  <1>17. CourseInv'
    <2> SUFFICES ASSUME NEW q \in Provider, NEW w \in Verdict,
                        q \notin crossed \cup reopened, verdicts'[q] = {w}
                 PROVE  status'[q] \in {w, "erased"}
      BY <1>2 DEF CourseInv
    <2>1. CASE q = p
      <3>1. w = v
        BY <1>5, <2>1
      <3>2. QED BY <1>5, <1>6, <2>1, <3>1 DEF Exists, IInv, TypeOK
    <2>2. CASE q # p
      BY <1>5, <2>2 DEF IInv, CourseInv
    <2>3. QED BY <2>1, <2>2
  <1>18. ChecksHold'
    BY <1>1, <1>4, <1>5, OthersStale
  <1>19. QED
    BY <1>9, <1>10, <1>11, <1>12, <1>13, <1>14, <1>15, <1>16, <1>17, <1>18 DEF IInv

(* The verdict is published or lost, or the pod dies.                      *)
LEMMA PublishIInv ==
    ASSUME IInv, NEW c \in Call, NEW v \in Verdict, NEW p \in Provider,
           Publish(c, v, p) \/ PublishFails(c, v, p)
    PROVE  IInv'
  <1>1. /\ At(c, v, p, "saved") /\ Ends(c)
        /\ UNCHANGED <<profile, status, verdicts, reviewed, reopened, logs, notices, mails, work,
                       acked, crossed>>
        /\ failures' \in 0..MaxFailures
    BY VerificationConstants
       DEF Publish, PublishFails, Fails, course, worker, broker, IInv, TypeOK
  <1>2. call[c].op = v /\ call[c].p = {p} /\ v \in verdicts[p]
    BY <1>1, AtNow DEF IInv, CallInv
  <1>3. \A q \in Provider, w \in Verdict : At(c, w, q, "saved") => q = p /\ w = v
    BY <1>2, AtNow
  <1>4. CASE Publish(c, v, p)
    <2>1. PICK n \in {1, 2} : queue' = [queue EXCEPT ![p][v] = @ + n] /\ lost' = lost
      BY <1>4 DEF Publish, course
    <2>2. /\ queue' \in [Provider -> [Verdict -> Nat]]
          /\ queue'[p][v] = queue[p][v] + n
          /\ \A q \in Provider, w \in Verdict :
                queue'[q][w] = queue[q][w] \/ (q = p /\ w = v)
      BY <2>1 DEF IInv, TypeOK
    <2>3. queue \in [Provider -> [Verdict -> Nat]] /\ lost \subseteq Provider
      BY DEF IInv, TypeOK
    <2>4. \A q \in Provider, w \in Verdict :
             /\ queue[q][w] > 0 => queue'[q][w] > 0
             /\ queue'[q][w] > 0 => queue[q][w] > 0 \/ w \in verdicts[q]
             /\ At(c, w, q, "saved") => q \in lost' \/ queue'[q][w] > 0
      BY <1>2, <1>3, <2>2, <2>3
    <2>5. QED BY <1>1, <2>1, <2>2, <2>3, <2>4, EndsIInv
  <1>5. CASE PublishFails(c, v, p)
    <2>1. lost' = lost \cup {p} /\ queue' = queue
      BY <1>5 DEF PublishFails, worker, broker
    <2>2. queue' \in [Provider -> [Verdict -> Nat]] /\ lost' \subseteq Provider
      BY <2>1 DEF IInv, TypeOK
    <2>3. QED BY <1>1, <1>3, <2>1, <2>2, EndsIInv
  <1>6. QED BY <1>4, <1>5

LEMMA DiesIInv ==
    ASSUME IInv, NEW c \in Call, Dies(c)
    PROVE  IInv'
  <1>1. /\ lost' = IF call[c].op \in Verdict /\ call[c].at = "saved"
                   THEN lost \cup call[c].p ELSE lost
        /\ Ends(c)
        /\ UNCHANGED <<profile, status, verdicts, reviewed, reopened, queue, logs, notices, mails,
                       work, acked, crossed, failures>>
    BY DEF Dies, worker, broker
  <1>2. call[c].p \subseteq Provider
    BY DEF IInv, TypeOK
  <1>3. /\ queue' \in [Provider -> [Verdict -> Nat]] /\ lost' \subseteq Provider
        /\ failures' \in 0..MaxFailures
    BY <1>1, <1>2 DEF IInv, TypeOK
  <1>4. \A q \in Provider, w \in Verdict : At(c, w, q, "saved") => q \in lost'
    BY <1>1, AtNow
  <1>5. QED BY <1>1, <1>3, <1>4, EndsIInv

(* The account of a provider goes, and takes profile, status and logs along. *)
LEMMA EraseIInv ==
    ASSUME IInv, NEW p \in Provider, Erase(p)
    PROVE  IInv'
  <1>1. /\ profile' = [profile EXCEPT ![p] = FALSE]
        /\ status' = [status EXCEPT ![p] = "erased"]
        /\ logs' = [logs EXCEPT ![p] = 0]
        /\ stale' = stale \cup Outdated({}, p)
        /\ UNCHANGED <<notices, mails, call, verdicts, reviewed, reopened, lost, queue, work, acked,
                       crossed, failures>>
    BY DEF Erase, course, broker
  <1>2. /\ profile'[p] = FALSE /\ status'[p] = "erased"
        /\ \A q \in Provider \ {p} :
              profile'[q] = profile[q] /\ status'[q] = status[q] /\ logs'[q] = logs[q]
        /\ profile' \in [Provider -> BOOLEAN] /\ logs' \in [Provider -> Nat]
        /\ status' \in [Provider -> Status \cup {"none", "erased"}]
    BY <1>1 DEF IInv, TypeOK
  <1>3. TypeOK'
    BY <1>1, <1>2 DEF IInv, TypeOK, Outdated
  <1>4. Shape'
    BY <1>1 DEF IInv, Shape
  <1>5. ReviewInv' /\ CourseInv'
    BY <1>1, <1>2 DEF IInv, ReviewInv, CourseInv, Settled, Verdict
  <1>6. ProfileInv'
    BY <1>1, <1>2 DEF IInv, ProfileInv, At
  <1>7. CallInv'
    BY <1>1, <1>2 DEF IInv, CallInv
  <1>8. MessageInv'
    BY <1>1 DEF IInv, MessageInv
  <1>9. CountInv'
    BY <1>1, <1>2, SamePast DEF IInv, CountInv
  <1>10. LogInv'
    BY <1>1, <1>2, SamePast DEF IInv, LogInv, Exists, Status, Verdict, At
  <1>11. ChecksHold'
    <2>1. call \in [Call -> CallRecord]
      BY DEF IInv, TypeOK, CallRecord
    <2>2. /\ {} \in SUBSET Call /\ \A d \in {} : call'[d].at # "checked"
          /\ (stale \cup Outdated({}, p)) \ {} \subseteq stale'
      BY <1>1
    <2>3. QED BY <1>1, <1>2, <2>1, <2>2, OthersStale
  <1>12. QED
    BY <1>3, <1>4, <1>5, <1>6, <1>7, <1>8, <1>9, <1>10, <1>11 DEF IInv

-----------------------------------------------------------------------------
(* The handlers.  One message moves: how the counts of messages follow.    *)
LEMMA PastChanges ==
    ASSUME NEW w \in Worker, \A x \in Worker \ {w} : work'[x] = work[x],
           NEW p \in Provider, NEW stages
    PROVE  /\ Cardinality(Past(p, stages)) \in Nat /\ Cardinality(Past(p, stages)') \in Nat
           /\ (w \in Past(p, stages) <=> w \in Past(p, stages)') =>
                 Past(p, stages)' = Past(p, stages)
           /\ w \in Past(p, stages)' =>
                 Cardinality(Past(p, stages)') <= Cardinality(Past(p, stages)) + 1
           /\ w \in Past(p, stages) \/ w \notin Past(p, stages)' =>
                 Cardinality(Past(p, stages)') <= Cardinality(Past(p, stages))
           /\ w \in Past(p, stages) /\ w \notin Past(p, stages)' =>
                 Cardinality(Past(p, stages)') + 1 = Cardinality(Past(p, stages))
  <1> DEFINE A == Past(p, stages)
             B == Past(p, stages)'
  <1>1. A \subseteq Worker /\ B \subseteq Worker /\ A \ {w} = B \ {w}
    BY DEF Past
  <1> HIDE DEF A, B
  <1>2. IsFiniteSet(A) /\ IsFiniteSet(B) /\ IsFiniteSet(A \ {w})
    <2>1. A \ {w} \subseteq Worker
      BY <1>1
    <2>2. QED BY <1>1, <2>1, VerificationConstants, FS_Subset
  <1>3. /\ Cardinality(A) \in Nat /\ Cardinality(B) \in Nat /\ Cardinality(A \ {w}) \in Nat
    BY <1>2, FS_CardinalityType
  <1>4. \A S : IsFiniteSet(S) /\ w \in S => Cardinality(S \ {w}) = Cardinality(S) - 1
    BY FS_RemoveElement
  <1>5. /\ w \in A => Cardinality(A \ {w}) = Cardinality(A) - 1
        /\ w \in B => Cardinality(A \ {w}) = Cardinality(B) - 1
        /\ w \notin A => Cardinality(A \ {w}) = Cardinality(A)
        /\ w \notin B => Cardinality(A \ {w}) = Cardinality(B)
    <2>1. (w \notin A => A \ {w} = A) /\ (w \notin B => A \ {w} = B)
      BY <1>1
    <2>2. QED BY <1>1, <1>2, <1>4, <2>1
  <1>6. (w \in A <=> w \in B) => A = B
    BY <1>1
  <1>7. /\ w \in B => Cardinality(B) <= Cardinality(A) + 1
        /\ w \in A \/ w \notin B => Cardinality(B) <= Cardinality(A)
        /\ w \in A /\ w \notin B => Cardinality(B) + 1 = Cardinality(A)
    <2> DEFINE a == Cardinality(A)
               b == Cardinality(B)
               e == Cardinality(A \ {w})
    <2>1. a \in Nat /\ b \in Nat /\ e \in Nat
      BY <1>3
    <2>2. /\ w \in A => e = a - 1
          /\ w \in B => e = b - 1
          /\ w \notin A => e = a
          /\ w \notin B => e = b
      BY <1>5
    <2> HIDE DEF a, b, e
    <2>3. /\ w \in B => b <= a + 1
          /\ w \in A \/ w \notin B => b <= a
          /\ w \in A /\ w \notin B => b + 1 = a
      BY <2>1, <2>2
    <2>4. QED BY <2>3 DEF a, b
  <1>8. QED BY <1>3, <1>6, <1>7, Zenon DEF A, B

(* The messages on other providers stand still.                            *)
LEMMA PastElsewhere ==
    ASSUME NEW w \in Worker, \A x \in Worker \ {w} : work'[x] = work[x], NEW p \in Provider,
           work[w].p \subseteq {p}, work'[w].p \subseteq {p}
    PROVE  \A q \in Provider \ {p} : \A stages : Past(q, stages)' = Past(q, stages)
  BY DEF Past

(* One message moves in its handler.                                       *)
LEMMA WorkMoves ==
    ASSUME IInv, NEW w \in Worker, NEW p \in Provider, work[w].p = {p},
           NEW at \in {"read", "updated", "logged", "notified", "mailed"}, GoesOn(w, at)
    PROVE  /\ work' \in [Worker -> WorkRecord] /\ \A x \in Worker \ {w} : work'[x] = work[x]
           /\ work'[w].p = {p} /\ work'[w].at = at
           /\ work'[w].verdict = work[w].verdict /\ work'[w].as = work[w].as
           /\ work[w].at # "free" /\ work[w].verdict \in Verdict /\ work[w].as \in Verdict
  <1> DEFINE r == [work[w] EXCEPT !.at = at]
  <1>1. work \in [Worker -> WorkRecord] /\ work[w] \in WorkRecord
    BY DEF IInv, TypeOK, WorkRecord
  <1>2. /\ r \in WorkRecord /\ r.p = {p} /\ r.at = at
        /\ r.verdict = work[w].verdict /\ r.as = work[w].as
    BY <1>1 DEF WorkRecord
  <1>3. work' = [work EXCEPT ![w] = r]
    BY DEF GoesOn
  <1> HIDE DEF r
  <1>4. work' \in [Worker -> WorkRecord] /\ work'[w] = r
    BY <1>1, <1>2, <1>3
  <1>5. \A x \in Worker \ {w} : work'[x] = work[x]
    BY <1>1, <1>3
  <1>6. work[w].at # "free" /\ work[w].verdict \in Verdict /\ work[w].as \in Verdict
    BY DEF IInv, Shape, Free
  <1>7. QED BY <1>2, <1>4, <1>5, <1>6

(* One message is done with: acknowledged, or back in the queue.           *)
LEMMA WorkFrees ==
    ASSUME IInv, NEW w \in Worker, work' = [work EXCEPT ![w] = Free]
    PROVE  /\ work' \in [Worker -> WorkRecord] /\ \A x \in Worker \ {w} : work'[x] = work[x]
           /\ work'[w] = Free /\ work'[w].p = {} /\ work'[w].at = "free"
           /\ \A q \in Provider : \A stages : w \notin Past(q, stages)'
  <1>1. Free \in WorkRecord /\ Free.p = {} /\ Free.at = "free"
    BY DEF Free, WorkRecord
  <1>2. work' \in [Worker -> WorkRecord] /\ work'[w] = Free
    BY <1>1 DEF IInv, TypeOK, WorkRecord
  <1>3. \A x \in Worker \ {w} : work'[x] = work[x]
    BY DEF IInv, TypeOK
  <1>4. QED BY <1>1, <1>2, <1>3 DEF Past

(* A step of a handler that leaves the API's data alone.                   *)
LEMMA HandlerIInv ==
    ASSUME IInv, UNCHANGED api, crossed \subseteq crossed',
           TypeOK', Shape', MessageInv', CountInv', LogInv'
    PROVE  IInv'
  <1> USE DEF api, course
  <1>1. ReviewInv' /\ CourseInv'
    BY DEF IInv, ReviewInv, CourseInv, Settled
  <1>2. ProfileInv'
    BY DEF IInv, ProfileInv, At
  <1>3. CallInv'
    BY DEF IInv, CallInv
  <1>4. ChecksHold'
    BY DEF IInv, ChecksHold, At
  <1>5. QED BY <1>1, <1>2, <1>3, <1>4 DEF IInv

(* The broker hands a verdict to a handler.                                *)
LEMMA DeliverIInv ==
    ASSUME IInv, NEW w \in Worker, NEW p \in Provider, NEW v \in Verdict, NEW as \in Verdict,
           Deliver(w, p, v, as)
    PROVE  IInv'
  <1> DEFINE r == [p |-> {p}, verdict |-> v, as |-> as, at |-> "taken", seen |-> "none"]
  <1>1. /\ work[w] = Free /\ queue[p][v] > 0
        /\ queue' = [queue EXCEPT ![p][v] = @ - 1]
        /\ work' = [work EXCEPT ![w] = r]
        /\ crossed' = IF as = v THEN crossed ELSE crossed \cup {p}
        /\ UNCHANGED <<api, logs, notices, mails, acked, failures>>
    BY DEF Deliver
  <1>2. /\ r \in WorkRecord /\ r.p = {p} /\ r.verdict = v /\ r.as = as /\ r.at = "taken"
    BY DEF WorkRecord
  <1> HIDE DEF r
  <1>3. /\ work' \in [Worker -> WorkRecord] /\ work'[w] = r
        /\ \A x \in Worker \ {w} : work'[x] = work[x]
    BY <1>1, <1>2 DEF IInv, TypeOK, WorkRecord
  <1>4. /\ queue' \in [Provider -> [Verdict -> Nat]] /\ v \in verdicts[p]
        /\ \A q \in Provider, u \in Verdict :
              /\ queue'[q][u] > 0 => queue[q][u] > 0
              /\ q # p => queue'[q][u] = queue[q][u]
    <2>1. queue \in [Provider -> [Verdict -> Nat]] /\ queue[p][v] - 1 \in Nat
      BY <1>1 DEF IInv, TypeOK
    <2>2. v \in verdicts[p]
      BY <1>1 DEF IInv, MessageInv
    <2>3. QED BY <1>1, <2>1, <2>2
  <1>5. UNCHANGED <<profile, status, call, stale, verdicts, reviewed, reopened, lost>>
    BY <1>1 DEF api, course
  <1>6. crossed \subseteq crossed' /\ crossed' \subseteq Provider /\ (as = v \/ p \in crossed')
    BY <1>1 DEF IInv, TypeOK
  <1>7. TypeOK'
    BY <1>1, <1>3, <1>4, <1>5, <1>6 DEF IInv, TypeOK, WorkRecord
  <1>8. Shape'
    BY <1>2, <1>3, <1>5, ZenonT(60) DEF IInv, Shape
  <1>9. MessageInv'
    BY <1>2, <1>3, <1>4, <1>5, <1>6, ZenonT(60) DEF IInv, MessageInv
  <1>10. work[w].p = {}
    BY <1>1 DEF Free
  <1>11. CountInv'
    <2>1. \A q \in Provider :
             /\ Past(q, {"notified"})' = Past(q, {"notified"})
             /\ Past(q, {"notified", "mailed"})' = Past(q, {"notified", "mailed"})
             /\ Past(q, {"logged", "notified", "mailed"})' =
                   Past(q, {"logged", "notified", "mailed"})
      BY <1>2, <1>3, <1>10 DEF Past
    <2>2. QED BY <1>1, <1>5, <2>1 DEF IInv, CountInv
  <1>12. LogInv'
    <2> SUFFICES ASSUME NEW q \in Provider, Exists(q), verdicts[q] # {}, q \notin lost
                 PROVE  \/ logs[q] > 0
                        \/ \E u \in Verdict : queue'[q][u] > 0
                        \/ Past(q, {"taken", "read", "updated"})' # {}
                        \/ \E d \in Call, u \in Verdict : At(d, u, q, "saved")
      BY <1>1, <1>5 DEF LogInv, Exists, At
    <2>1. CASE q = p
      BY <1>2, <1>3, <2>1 DEF Past
    <2>2. CASE q # p
      <3>1. Past(q, {"taken", "read", "updated"})' = Past(q, {"taken", "read", "updated"})
        BY <1>2, <1>3, <1>10, <2>2, PastElsewhere
      <3>2. QED BY <1>4, <2>2, <3>1 DEF IInv, LogInv
    <2>3. QED BY <2>1, <2>2
  <1>13. QED
    BY <1>1, <1>6, <1>7, <1>8, <1>9, <1>11, <1>12, HandlerIInv

(* A step on one message on p, of which only the counts and the log of p   *)
(* are left to show.                                                       *)
Counted(p) ==
    /\ mails[p] + Cardinality(Past(p, {"notified"})) <= notices[p]
    /\ acked[p] + Cardinality(Past(p, {"notified", "mailed"})) <= notices[p]
    /\ status[p] # "erased" =>
          acked[p] + Cardinality(Past(p, {"logged", "notified", "mailed"})) <= logs[p]

Logged(p) ==
    Exists(p) /\ verdicts[p] # {} /\ p \notin lost =>
       \/ logs[p] > 0
       \/ \E v \in Verdict : queue[p][v] > 0
       \/ Past(p, {"taken", "read", "updated"}) # {}
       \/ \E c \in Call, v \in Verdict : At(c, v, p, "saved")

LEMMA StepIInv ==
    ASSUME IInv, NEW w \in Worker, NEW p \in Provider, work[w].p = {p}, UNCHANGED <<api, crossed>>,
           work' \in [Worker -> WorkRecord], \A x \in Worker \ {w} : work'[x] = work[x],
           \/ work'[w] = Free
           \/ /\ work'[w].p = {p} /\ work'[w].at # "free"
              /\ work'[w].verdict = work[w].verdict /\ work'[w].as = work[w].as,
           logs' \in [Provider -> Nat], notices' \in [Provider -> Nat],
           mails' \in [Provider -> Nat], acked' \in [Provider -> Nat],
           queue' \in [Provider -> [Verdict -> Nat]], failures' \in 0..MaxFailures,
           \A q \in Provider \ {p} :
              /\ logs'[q] = logs[q] /\ notices'[q] = notices[q] /\ mails'[q] = mails[q]
              /\ acked'[q] = acked[q] /\ queue'[q] = queue[q],
           \A v \in Verdict : queue'[p][v] > 0 => queue[p][v] > 0 \/ v = work[w].verdict,
           Counted(p)', Logged(p)'
    PROVE  IInv'
  <1>1. UNCHANGED <<profile, status, call, stale, verdicts, reviewed, reopened, lost>>
    BY DEF api, course
  <1>2. TypeOK'
    BY <1>1 DEF IInv, TypeOK, WorkRecord
  <1>3. /\ work'[w].p \subseteq {p} /\ Free.p = {}
        /\ work[w].verdict \in Verdict /\ work[w].as \in Verdict
    <2>1. Free.p = {}
      BY DEF Free
    <2>2. work[w].at # "free"
      BY <2>1 DEF IInv, Shape
    <2>3. QED BY <2>1, <2>2 DEF IInv, Shape
  <1>4. Shape'
    <2>1. \/ work'[w] = Free
          \/ /\ work'[w].at # "free" /\ \E q \in Provider : work'[w].p = {q}
             /\ work'[w].verdict \in Verdict /\ work'[w].as \in Verdict
      BY <1>3
    <2>2. Free.at = "free"
      BY DEF Free
    <2>3. \A x \in Worker :
             /\ work'[x].at = "free" => work'[x] = Free
             /\ work'[x].at # "free" =>
                   /\ \E q \in Provider : work'[x].p = {q}
                   /\ work'[x].verdict \in Verdict /\ work'[x].as \in Verdict
      <3> TAKE x \in Worker
      <3>1. CASE x = w
        BY <2>1, <2>2, <3>1
      <3>2. CASE x # w
        <4>1. work'[x] = work[x]
          BY <3>2
        <4>2. QED BY <4>1 DEF IInv, Shape
      <3>3. QED BY <3>1, <3>2
    <2>4. QED BY <1>1, <2>3 DEF IInv, Shape
  <1>5. MessageInv'
    <2> SUFFICES ASSUME NEW q \in Provider
                 PROVE  /\ \A v \in Verdict : queue'[q][v] > 0 => v \in verdicts[q]
                        /\ \A x \in Worker :
                              work'[x].p = {q} =>
                                 /\ work'[x].verdict \in verdicts[q]
                                 /\ q \notin crossed => work'[x].as = work'[x].verdict
      BY <1>1 DEF MessageInv
    <2>1. work[w].verdict \in verdicts[p]
      BY DEF IInv, MessageInv
    <2>2. \A v \in Verdict : queue'[q][v] > 0 => v \in verdicts[q]
      BY <2>1 DEF IInv, MessageInv
    <2>3. ASSUME work'[w].p = {q}
          PROVE  work'[w].verdict \in verdicts[q] /\ (q \notin crossed => work'[w].as = work'[w].verdict)
      <3>1. q = p /\ work'[w].verdict = work[w].verdict /\ work'[w].as = work[w].as
        BY <1>3, <2>3
      <3>2. QED BY <3>1 DEF IInv, MessageInv
    <2>4. QED BY <2>2, <2>3 DEF IInv, MessageInv
  <1>6. \A q \in Provider \ {p} : \A stages : Past(q, stages)' = Past(q, stages)
    BY <1>3, PastElsewhere
  <1>7. CountInv'
    <2> SUFFICES ASSUME NEW q \in Provider PROVE Counted(q)'
      BY DEF CountInv, Counted
    <2>1. CASE q # p
      BY <1>1, <1>6, <2>1 DEF IInv, CountInv, Counted
    <2>2. QED BY <2>1
  <1>8. LogInv'
    <2> SUFFICES ASSUME NEW q \in Provider PROVE Logged(q)'
      BY DEF LogInv, Logged
    <2>1. CASE q # p
      <3>1. Logged(q)
        BY DEF IInv, LogInv, Logged
      <3>2. /\ Past(q, {"taken", "read", "updated"})' = Past(q, {"taken", "read", "updated"})
            /\ logs'[q] = logs[q] /\ queue'[q] = queue[q]
        BY <1>6, <2>1
      <3>3. \A c \in Call, v \in Verdict : At(c, v, q, "saved")' <=> At(c, v, q, "saved")
        BY <1>1 DEF At
      <3>4. QED BY <1>1, <3>1, <3>2, <3>3 DEF Logged, Exists
    <2>2. QED BY <2>1
  <1>9. QED BY <1>2, <1>4, <1>5, <1>7, <1>8, HandlerIInv

LEMMA ReadStatusIInv ==
    ASSUME IInv, NEW w \in Worker, NEW p \in Provider, ReadStatus(w, p)
    PROVE  IInv'
  <1> DEFINE r == [work[w] EXCEPT !.at = "read", !.seen = status[p]]
  <1>1. /\ work[w].p = {p} /\ work[w].at = "taken" /\ work' = [work EXCEPT ![w] = r]
        /\ UNCHANGED <<api, logs, notices, mails, queue, acked, crossed, failures>>
    BY DEF ReadStatus, Handles
  <1>2. work \in [Worker -> WorkRecord] /\ status[p] \in Status \cup {"none", "erased"}
    BY DEF IInv, TypeOK, WorkRecord
  <1>3. /\ r \in WorkRecord /\ r.p = {p} /\ r.at = "read"
        /\ r.verdict = work[w].verdict /\ r.as = work[w].as
    BY <1>1, <1>2 DEF WorkRecord
  <1> HIDE DEF r
  <1>4. /\ work' \in [Worker -> WorkRecord] /\ work'[w] = r
        /\ \A x \in Worker \ {w} : work'[x] = work[x]
    BY <1>1, <1>2, <1>3
  <1>5. UNCHANGED <<status, call, verdicts, lost>>
    BY <1>1 DEF api, course
  <1>6. Counted(p)'
    <2>1. /\ Past(p, {"notified"})' = Past(p, {"notified"})
          /\ Past(p, {"notified", "mailed"})' = Past(p, {"notified", "mailed"})
          /\ Past(p, {"logged", "notified", "mailed"})' = Past(p, {"logged", "notified", "mailed"})
      BY <1>1, <1>3, <1>4 DEF Past
    <2>2. QED BY <1>1, <1>5, <2>1 DEF IInv, CountInv, Counted
  <1>7. Logged(p)'
    <2>1. Past(p, {"taken", "read", "updated"})' # {}
      BY <1>3, <1>4 DEF Past
    <2>2. QED BY <2>1 DEF Logged
  <1>8. /\ logs' \in [Provider -> Nat] /\ notices' \in [Provider -> Nat]
        /\ mails' \in [Provider -> Nat] /\ acked' \in [Provider -> Nat]
        /\ queue' \in [Provider -> [Verdict -> Nat]] /\ failures' \in 0..MaxFailures
    BY <1>1 DEF IInv, TypeOK
  <1>9. QED BY <1>1, <1>3, <1>4, <1>6, <1>7, <1>8, StepIInv

LEMMA PersistLogIInv ==
    ASSUME IInv, NEW w \in Worker, NEW p \in Provider, PersistLog(w, p)
    PROVE  IInv'
  <1>1. /\ work[w].p = {p} /\ work[w].at = "updated" /\ GoesOn(w, "logged")
        /\ logs' = [logs EXCEPT ![p] = IF Exists(p) THEN @ + 1 ELSE @]
        /\ UNCHANGED <<api, notices, mails, queue, acked, crossed, failures>>
    BY DEF PersistLog, Handles
  <1>2. /\ work' \in [Worker -> WorkRecord] /\ \A x \in Worker \ {w} : work'[x] = work[x]
        /\ work'[w].p = {p} /\ work'[w].at = "logged"
        /\ work'[w].verdict = work[w].verdict /\ work'[w].as = work[w].as
    BY <1>1, WorkMoves
  <1>3. /\ logs' \in [Provider -> Nat] /\ notices' \in [Provider -> Nat]
        /\ mails' \in [Provider -> Nat] /\ acked' \in [Provider -> Nat]
        /\ queue' \in [Provider -> [Verdict -> Nat]] /\ failures' \in 0..MaxFailures
        /\ \A q \in Provider \ {p} : logs'[q] = logs[q]
        /\ logs'[p] = IF Exists(p) THEN logs[p] + 1 ELSE logs[p]
    BY <1>1 DEF IInv, TypeOK
  <1>4. UNCHANGED <<status, call, verdicts, lost>>
    BY <1>1 DEF api, course
  <1>5. Exists(p) \/ status[p] = "erased"
    BY <1>1, SMTT(30) DEF IInv, MessageInv, ReviewInv, Exists, TypeOK
  <1>6. Counted(p)'
    <2>1. /\ Past(p, {"notified"})' = Past(p, {"notified"})
          /\ Past(p, {"notified", "mailed"})' = Past(p, {"notified", "mailed"})
      BY <1>1, <1>2 DEF Past
    <2>2. w \in Past(p, {"logged", "notified", "mailed"})'
      BY <1>2 DEF Past
    <2> DEFINE a == Cardinality(Past(p, {"logged", "notified", "mailed"}))
               b == Cardinality(Past(p, {"logged", "notified", "mailed"})')
    <2>3. a \in Nat /\ b \in Nat /\ b <= a + 1
      BY <1>2, <2>2, PastChanges
    <2> HIDE DEF a, b
    <2>4. status[p] # "erased" => acked[p] + b <= logs'[p]
      <3>1. status[p] # "erased" => acked[p] + a <= logs[p]
        BY DEF a, IInv, CountInv
      <3>2. acked[p] \in Nat /\ logs[p] \in Nat
        BY DEF IInv, TypeOK
      <3>3. QED BY <1>3, <1>5, <2>3, <3>1, <3>2
    <2>5. QED BY <1>1, <1>4, <2>1, <2>4 DEF b, IInv, CountInv, Counted
  <1>7. Logged(p)'
    <2>1. logs[p] \in Nat
      BY DEF IInv, TypeOK
    <2>2. Exists(p) => logs'[p] > 0
      BY <1>3, <2>1
    <2>3. QED BY <1>4, <2>2 DEF Logged, Exists
  <1>8. QED BY <1>1, <1>2, <1>3, <1>6, <1>7, StepIInv

LEMMA PersistNoticeIInv ==
    ASSUME IInv, NEW w \in Worker, NEW p \in Provider, PersistNotice(w, p)
    PROVE  IInv'
  <1>1. /\ work[w].p = {p} /\ work[w].at = "logged" /\ GoesOn(w, "notified")
        /\ notices' = [notices EXCEPT ![p] = @ + 1]
        /\ UNCHANGED <<api, logs, mails, queue, acked, crossed, failures>>
    BY DEF PersistNotice, Handles
  <1>2. /\ work' \in [Worker -> WorkRecord] /\ \A x \in Worker \ {w} : work'[x] = work[x]
        /\ work'[w].p = {p} /\ work'[w].at = "notified"
        /\ work'[w].verdict = work[w].verdict /\ work'[w].as = work[w].as
    BY <1>1, WorkMoves
  <1>3. /\ logs' \in [Provider -> Nat] /\ notices' \in [Provider -> Nat]
        /\ mails' \in [Provider -> Nat] /\ acked' \in [Provider -> Nat]
        /\ queue' \in [Provider -> [Verdict -> Nat]] /\ failures' \in 0..MaxFailures
        /\ \A q \in Provider \ {p} : notices'[q] = notices[q]
        /\ notices'[p] = notices[p] + 1
    BY <1>1 DEF IInv, TypeOK
  <1>4. UNCHANGED <<status, call, verdicts, lost>>
    BY <1>1 DEF api, course
  <1> DEFINE n(s) == Cardinality(Past(p, s))
             m(s) == Cardinality(Past(p, s)')
  <1>5. Counted(p)'
    <2>1. /\ w \in Past(p, {"notified"})' /\ w \in Past(p, {"notified", "mailed"})'
          /\ Past(p, {"logged", "notified", "mailed"})' = Past(p, {"logged", "notified", "mailed"})
      BY <1>1, <1>2 DEF Past
    <2>2. /\ n({"notified"}) \in Nat /\ m({"notified"}) \in Nat
          /\ m({"notified"}) <= n({"notified"}) + 1
      BY <1>2, <2>1, PastChanges
    <2>3. /\ n({"notified", "mailed"}) \in Nat /\ m({"notified", "mailed"}) \in Nat
          /\ m({"notified", "mailed"}) <= n({"notified", "mailed"}) + 1
      BY <1>2, <2>1, PastChanges
    <2>4. /\ mails[p] + n({"notified"}) <= notices[p]
          /\ acked[p] + n({"notified", "mailed"}) <= notices[p]
      BY DEF IInv, CountInv
    <2>5. mails[p] \in Nat /\ acked[p] \in Nat /\ notices[p] \in Nat
      BY DEF IInv, TypeOK
    <2> HIDE DEF n, m
    <2>6. /\ mails[p] + m({"notified"}) <= notices'[p]
          /\ acked[p] + m({"notified", "mailed"}) <= notices'[p]
      BY <1>3, <2>2, <2>3, <2>4, <2>5
    <2>7. QED BY <1>1, <1>4, <2>1, <2>6 DEF m, IInv, CountInv, Counted
  <1>6. Logged(p)'
    <2>1. Past(p, {"taken", "read", "updated"})' = Past(p, {"taken", "read", "updated"})
      BY <1>1, <1>2 DEF Past
    <2>2. QED BY <1>1, <1>4, <2>1 DEF IInv, LogInv, Logged, Exists, At
  <1>7. QED BY <1>1, <1>2, <1>3, <1>5, <1>6, StepIInv

LEMMA MailIInv ==
    ASSUME IInv, NEW w \in Worker, NEW p \in Provider, Mail(w, p)
    PROVE  IInv'
  <1>1. /\ work[w].p = {p} /\ work[w].at = "notified" /\ GoesOn(w, "mailed")
        /\ mails' \in {mails, [mails EXCEPT ![p] = @ + 1]}
        /\ UNCHANGED <<api, logs, notices, queue, acked, crossed, failures>>
    BY DEF Mail, Handles
  <1>2. /\ work' \in [Worker -> WorkRecord] /\ \A x \in Worker \ {w} : work'[x] = work[x]
        /\ work'[w].p = {p} /\ work'[w].at = "mailed"
        /\ work'[w].verdict = work[w].verdict /\ work'[w].as = work[w].as
    BY <1>1, WorkMoves
  <1>3. /\ logs' \in [Provider -> Nat] /\ notices' \in [Provider -> Nat]
        /\ mails' \in [Provider -> Nat] /\ acked' \in [Provider -> Nat]
        /\ queue' \in [Provider -> [Verdict -> Nat]] /\ failures' \in 0..MaxFailures
        /\ \A q \in Provider \ {p} : mails'[q] = mails[q]
        /\ mails'[p] <= mails[p] + 1
    <2>1. mails \in [Provider -> Nat]
      BY DEF IInv, TypeOK
    <2>2. /\ mails' \in [Provider -> Nat] /\ mails'[p] <= mails[p] + 1
          /\ \A q \in Provider \ {p} : mails'[q] = mails[q]
      <3>1. CASE mails' = mails
        BY <2>1, <3>1
      <3>2. CASE mails' = [mails EXCEPT ![p] = @ + 1]
        BY <2>1, <3>2
      <3>3. QED BY <1>1, <3>1, <3>2
    <2>3. QED BY <1>1, <2>2 DEF IInv, TypeOK
  <1>4. UNCHANGED <<status, call, verdicts, lost>>
    BY <1>1 DEF api, course
  <1> DEFINE n(s) == Cardinality(Past(p, s))
             m(s) == Cardinality(Past(p, s)')
  <1>5. Counted(p)'
    <2>1. /\ w \in Past(p, {"notified"}) /\ w \notin Past(p, {"notified"})'
          /\ Past(p, {"notified", "mailed"})' = Past(p, {"notified", "mailed"})
          /\ Past(p, {"logged", "notified", "mailed"})' = Past(p, {"logged", "notified", "mailed"})
      BY <1>1, <1>2 DEF Past
    <2>2. /\ n({"notified"}) \in Nat /\ m({"notified"}) \in Nat
          /\ m({"notified"}) + 1 = n({"notified"})
      BY <1>2, <2>1, PastChanges
    <2>3. mails[p] + n({"notified"}) <= notices[p]
      BY DEF IInv, CountInv
    <2>4. mails[p] \in Nat /\ mails'[p] \in Nat /\ notices[p] \in Nat
      BY <1>3 DEF IInv, TypeOK
    <2> HIDE DEF n, m
    <2>5. mails'[p] + m({"notified"}) <= notices[p]
      BY <1>3, <2>2, <2>3, <2>4
    <2>6. QED BY <1>1, <1>4, <2>1, <2>5 DEF m, IInv, CountInv, Counted
  <1>6. Logged(p)'
    <2>1. Past(p, {"taken", "read", "updated"})' = Past(p, {"taken", "read", "updated"})
      BY <1>1, <1>2 DEF Past
    <2>2. QED BY <1>1, <1>4, <2>1 DEF IInv, LogInv, Logged, Exists, At
  <1>7. QED BY <1>1, <1>2, <1>3, <1>5, <1>6, StepIInv

LEMMA AckIInv ==
    ASSUME IInv, NEW w \in Worker, NEW p \in Provider, Ack(w, p)
    PROVE  IInv'
  <1>1. /\ work[w].p = {p} /\ work[w].at = "mailed" /\ work' = [work EXCEPT ![w] = Free]
        /\ acked' = [acked EXCEPT ![p] = @ + 1]
        /\ UNCHANGED <<api, logs, notices, mails, queue, crossed, failures>>
    BY DEF Ack, Handles
  <1>2. /\ work' \in [Worker -> WorkRecord] /\ \A x \in Worker \ {w} : work'[x] = work[x]
        /\ work'[w] = Free /\ \A stages : w \notin Past(p, stages)'
    BY <1>1, WorkFrees
  <1>3. /\ logs' \in [Provider -> Nat] /\ notices' \in [Provider -> Nat]
        /\ mails' \in [Provider -> Nat] /\ acked' \in [Provider -> Nat]
        /\ queue' \in [Provider -> [Verdict -> Nat]] /\ failures' \in 0..MaxFailures
        /\ \A q \in Provider \ {p} : acked'[q] = acked[q]
        /\ acked'[p] = acked[p] + 1
    BY <1>1 DEF IInv, TypeOK
  <1>4. UNCHANGED <<status, call, verdicts, lost>>
    BY <1>1 DEF api, course
  <1> DEFINE n(s) == Cardinality(Past(p, s))
             m(s) == Cardinality(Past(p, s)')
  <1>5. Counted(p)'
    <2>1. /\ Past(p, {"notified"})' = Past(p, {"notified"})
          /\ w \in Past(p, {"notified", "mailed"})
          /\ w \in Past(p, {"logged", "notified", "mailed"})
      <3>1. w \notin Past(p, {"notified"})
        BY <1>1 DEF Past
      <3>2. Past(p, {"notified"})' = Past(p, {"notified"})
        BY <1>2, <3>1, PastChanges
      <3>3. QED BY <1>1, <3>2 DEF Past
    <2>2. /\ n({"notified", "mailed"}) \in Nat /\ m({"notified", "mailed"}) \in Nat
          /\ m({"notified", "mailed"}) + 1 = n({"notified", "mailed"})
      BY <1>2, <2>1, PastChanges
    <2>3. /\ n({"logged", "notified", "mailed"}) \in Nat
          /\ m({"logged", "notified", "mailed"}) \in Nat
          /\ m({"logged", "notified", "mailed"}) + 1 = n({"logged", "notified", "mailed"})
      BY <1>2, <2>1, PastChanges
    <2>4. /\ acked[p] + n({"notified", "mailed"}) <= notices[p]
          /\ status[p] # "erased" => acked[p] + n({"logged", "notified", "mailed"}) <= logs[p]
      BY DEF IInv, CountInv
    <2>5. acked[p] \in Nat /\ notices[p] \in Nat /\ logs[p] \in Nat
      BY DEF IInv, TypeOK
    <2> HIDE DEF n, m
    <2>6. /\ acked'[p] + m({"notified", "mailed"}) <= notices[p]
          /\ status[p] # "erased" => acked'[p] + m({"logged", "notified", "mailed"}) <= logs[p]
      BY <1>3, <2>2, <2>3, <2>4, <2>5
    <2>7. QED BY <1>1, <1>4, <2>1, <2>6 DEF m, IInv, CountInv, Counted
  <1>6. Logged(p)'
    <2>1. w \notin Past(p, {"taken", "read", "updated"})
      BY <1>1 DEF Past
    <2>2. Past(p, {"taken", "read", "updated"})' = Past(p, {"taken", "read", "updated"})
      BY <1>2, <2>1, PastChanges
    <2>3. QED BY <1>1, <1>4, <2>2 DEF IInv, LogInv, Logged, Exists, At
  <1>7. QED BY <1>1, <1>2, <1>3, <1>5, <1>6, StepIInv

(* A handler fails: what it wrote stays, and the message waits again.      *)
LEMMA HandlerFailsIInv ==
    ASSUME IInv, NEW w \in Worker, NEW p \in Provider, HandlerFails(w, p)
    PROVE  IInv'
  <1> DEFINE v == work[w].verdict
  <1>1. /\ work[w].p = {p} /\ work' = [work EXCEPT ![w] = Free]
        /\ queue' = [queue EXCEPT ![p][v] = @ + 1]
        /\ failures < MaxFailures /\ failures' = failures + 1
        /\ UNCHANGED <<api, logs, notices, mails, crossed, acked>>
    BY DEF HandlerFails, Failing, Fails, Requeue
  <1>2. /\ work' \in [Worker -> WorkRecord] /\ \A x \in Worker \ {w} : work'[x] = work[x]
        /\ work'[w] = Free /\ \A stages : w \notin Past(p, stages)'
    BY <1>1, WorkFrees
  <1>3. v \in Verdict
    BY <1>1 DEF IInv, Shape, Free
  <1> HIDE DEF v
  <1>4. /\ logs' \in [Provider -> Nat] /\ notices' \in [Provider -> Nat]
        /\ mails' \in [Provider -> Nat] /\ acked' \in [Provider -> Nat]
        /\ failures' \in 0..MaxFailures
    BY <1>1, VerificationConstants DEF IInv, TypeOK
  <1>5. /\ queue' \in [Provider -> [Verdict -> Nat]] /\ queue'[p][v] > 0
        /\ \A q \in Provider \ {p} : queue'[q] = queue[q]
        /\ \A u \in Verdict : queue'[p][u] > 0 => queue[p][u] > 0 \/ u = v
    <2>1. queue \in [Provider -> [Verdict -> Nat]]
      BY DEF IInv, TypeOK
    <2>2. QED BY <1>1, <1>3, <2>1
  <1>6. UNCHANGED <<status, call, verdicts, lost>>
    BY <1>1 DEF api, course
  <1> DEFINE n(s) == Cardinality(Past(p, s))
             m(s) == Cardinality(Past(p, s)')
  <1>7. Counted(p)'
    <2>1. /\ n({"notified"}) \in Nat /\ m({"notified"}) \in Nat
          /\ m({"notified"}) <= n({"notified"})
      BY <1>2, PastChanges
    <2>2. /\ n({"notified", "mailed"}) \in Nat /\ m({"notified", "mailed"}) \in Nat
          /\ m({"notified", "mailed"}) <= n({"notified", "mailed"})
      BY <1>2, PastChanges
    <2>3. /\ n({"logged", "notified", "mailed"}) \in Nat
          /\ m({"logged", "notified", "mailed"}) \in Nat
          /\ m({"logged", "notified", "mailed"}) <= n({"logged", "notified", "mailed"})
      BY <1>2, PastChanges
    <2>4. /\ mails[p] + n({"notified"}) <= notices[p]
          /\ acked[p] + n({"notified", "mailed"}) <= notices[p]
          /\ status[p] # "erased" => acked[p] + n({"logged", "notified", "mailed"}) <= logs[p]
      BY DEF IInv, CountInv
    <2>5. mails[p] \in Nat /\ acked[p] \in Nat /\ notices[p] \in Nat /\ logs[p] \in Nat
      BY DEF IInv, TypeOK
    <2> HIDE DEF n, m
    <2>6. /\ mails[p] + m({"notified"}) <= notices[p]
          /\ acked[p] + m({"notified", "mailed"}) <= notices[p]
          /\ status[p] # "erased" => acked[p] + m({"logged", "notified", "mailed"}) <= logs[p]
      BY <2>1, <2>2, <2>3, <2>4, <2>5
    <2>7. QED BY <1>1, <1>6, <2>6 DEF m, Counted
  <1>8. Logged(p)'
    BY <1>3, <1>5 DEF Logged
  <1>9. QED BY <1>1, <1>2, <1>4, <1>5, <1>7, <1>8, StepIInv DEF v

(* The handler writes the status again.                                    *)
LEMMA UpdateIInv ==
    ASSUME IInv, NEW w \in Worker, NEW p \in Provider, Update(w, p)
    PROVE  IInv'
  <1>1. /\ work[w].p = {p} /\ work[w].at = "read" /\ GoesOn(w, "updated")
        /\ Overwrite(w, p) \/ UNCHANGED <<status, stale>>
        /\ UNCHANGED <<profile, call, course, logs, notices, mails, queue, acked, crossed, failures>>
    BY DEF Update, Handles
  <1>2. UNCHANGED <<profile, call, verdicts, reviewed, reopened, lost, logs, notices, mails, queue,
                    acked, crossed, failures>>
    BY <1>1 DEF course
  <1>3. /\ work' \in [Worker -> WorkRecord] /\ \A x \in Worker \ {w} : work'[x] = work[x]
        /\ work'[w].p = {p} /\ work'[w].at = "updated" /\ work[w].as \in Verdict
        /\ work'[w].verdict = work[w].verdict /\ work'[w].as = work[w].as
        /\ work[w].verdict \in Verdict
    BY <1>1, WorkMoves
  <1>4. /\ status' \in [Provider -> Status \cup {"none", "erased"}]
        /\ \A q \in Provider \ {p} : status'[q] = status[q]
        /\ status'[p] = status[p] \/ (Exists(p) /\ status'[p] = work[w].as)
        /\ stale' \subseteq Call
    <2>1. CASE Overwrite(w, p)
      BY <1>3, <2>1 DEF Overwrite, Outdated, IInv, TypeOK, Status
    <2>2. CASE UNCHANGED <<status, stale>>
      BY <2>2 DEF IInv, TypeOK
    <2>3. QED BY <1>1, <2>1, <2>2
  <1>5. /\ work[w].verdict \in verdicts[p]
        /\ p \notin crossed => work[w].as = work[w].verdict
    BY <1>1 DEF IInv, MessageInv
  <1>6. /\ \A q \in Provider : Exists(q)' <=> Exists(q)
        /\ \A q \in Provider : status'[q] = "none" <=> status[q] = "none"
        /\ \A q \in Provider : status'[q] = "erased" <=> status[q] = "erased"
    BY <1>3, <1>4 DEF Exists, Status, Verdict
  <1>7. TypeOK'
    BY <1>2, <1>3, <1>4 DEF IInv, TypeOK, WorkRecord
  <1>8. Shape'
    BY <1>2, <1>3 DEF IInv, Shape
  <1>9. ReviewInv'
    BY <1>2, <1>4, <1>5, <1>6 DEF IInv, ReviewInv, Settled
  <1>10. ProfileInv'
    BY <1>2, <1>6 DEF IInv, ProfileInv, At
  <1>11. CallInv'
    BY <1>2, <1>6 DEF IInv, CallInv
  <1>12. MessageInv'
    BY <1>2, <1>3, <1>5 DEF IInv, MessageInv
  <1>13. CountInv'
    <2>1. \A q \in Provider :
             /\ Past(q, {"notified"})' = Past(q, {"notified"})
             /\ Past(q, {"notified", "mailed"})' = Past(q, {"notified", "mailed"})
             /\ Past(q, {"logged", "notified", "mailed"})' =
                   Past(q, {"logged", "notified", "mailed"})
      BY <1>1, <1>3 DEF Past
    <2>2. QED BY <1>2, <1>6, <2>1 DEF IInv, CountInv
  <1>14. LogInv'
    <2>1. \A q \in Provider :
             Past(q, {"taken", "read", "updated"})' = Past(q, {"taken", "read", "updated"})
      BY <1>1, <1>3 DEF Past
    <2>2. QED BY <1>2, <1>6, <2>1 DEF IInv, LogInv, At
  <1>15. CourseInv'
    BY <1>2, <1>4, <1>5 DEF IInv, CourseInv
  <1>16. ChecksHold'
    <2>1. CASE Overwrite(w, p)
      <3>1. call \in [Call -> CallRecord] /\ call' = call
        BY <1>2 DEF IInv, TypeOK, CallRecord
      <3>2. /\ {} \in SUBSET Call /\ \A d \in {} : call'[d].at # "checked"
            /\ (stale \cup Outdated({}, p)) \ {} \subseteq stale'
        BY <2>1 DEF Overwrite
      <3>3. QED BY <1>4, <3>1, <3>2, OthersStale
    <2>2. CASE UNCHANGED <<status, stale>>
      BY <1>2, <2>2 DEF IInv, ChecksHold, At
    <2>3. QED BY <1>1, <2>1, <2>2
  <1>17. QED
    BY <1>7, <1>8, <1>9, <1>10, <1>11, <1>12, <1>13, <1>14, <1>15, <1>16 DEF IInv

-----------------------------------------------------------------------------
LEMMA ProceedsIInv ==
    ASSUME IInv, NEW c \in Call, NEW p \in Provider, Calls(c, p) \/ Proceeds(c, p)
    PROVE  IInv'
  <1>1. CASE CheckNew(c, p)
    BY <1>1, StartIInv DEF CheckNew, Verdict
  <1>2. CASE \E op \in {"submit"} \cup Verdict : Check(c, op, p)
    BY <1>2, StartIInv DEF Check
  <1>3. CASE \E v \in Verdict : Decide(c, v, p) \/ Publish(c, v, p) \/ PublishFails(c, v, p)
    BY <1>3, DecideIInv, PublishIInv
  <1>4. CASE CreateProfile(c, p) \/ CreateVerification(c, p) \/ Submit(c, p)
    BY <1>4, CreateProfileIInv, CreateVerificationIInv, SubmitIInv
  <1>5. QED BY <1>1, <1>2, <1>3, <1>4 DEF Calls, Proceeds

LEMMA NextIInv == ASSUME IInv, [Next]_vars PROVE IInv'
  <1>1. CASE \E c \in Call, p \in Provider : Calls(c, p) \/ Proceeds(c, p)
    BY <1>1, ProceedsIInv
  <1>2. CASE \E c \in Call : Dies(c)
    BY <1>2, DiesIInv
  <1>3. CASE \E p \in Provider : Erase(p)
    BY <1>3, EraseIInv
  <1>4. CASE \E w \in Worker : Takes(w)
    BY <1>4, DeliverIInv DEF Takes
  <1>5. CASE \E w \in Worker, p \in Provider : Handling(w, p) \/ HandlerFails(w, p)
    BY <1>5, ReadStatusIInv, UpdateIInv, PersistLogIInv, PersistNoticeIInv, MailIInv, AckIInv,
       HandlerFailsIInv DEF Handling
  <1>6. CASE UNCHANGED vars
    <2>1. UNCHANGED <<profile, status, call, stale, verdicts, reviewed, reopened, lost, logs,
                      notices, mails, queue, work, acked, crossed, failures>>
      BY <1>6 DEF vars, api, worker, course, broker
    <2>2. TypeOK' /\ Shape' /\ MessageInv'
      BY <2>1 DEF IInv, TypeOK, Shape, MessageInv
    <2>3. CountInv' /\ LogInv'
      BY <2>1, SamePast DEF IInv, CountInv, LogInv, Exists, At
    <2>4. QED BY <2>1, <2>2, <2>3, HandlerIInv DEF api, course
  <1>7. QED BY <1>1, <1>2, <1>3, <1>4, <1>5, <1>6 DEF Next

(* The inductive invariant holds in every reachable state.                 *)
THEOREM Invariance == Spec => []IInv
  <1>1. IInv /\ [Next]_vars => IInv'
    BY NextIInv
  <1>2. QED BY InitIInv, <1>1, PTL DEF Spec

(* The variables have their types.                                         *)
THEOREM TypeCorrect == Spec => []TypeOK
  <1>1. IInv => TypeOK
    BY DEF IInv
  <1>2. QED BY Invariance, <1>1, PTL

(* A provider is APPROVED or REJECTED only after a review and a decision of *)
(* an admin, whatever overlaps, is redelivered or reaches the wrong handler. *)
THEOREM VerdictsFollowReviews == Spec => []VerdictNeedsReview
  <1>1. IInv => VerdictNeedsReview
    BY DEF IInv, ReviewInv, VerdictNeedsReview, Settled
  <1>2. QED BY Invariance, <1>1, PTL

(* The log, the notification and the e-mail of an acknowledged verdict were *)
(* written in this order, and a verdict that was not lost reaches the log.  *)
THEOREM AcknowledgedDone == Spec => []AcknowledgedMeansDone
  <1>1. IInv => AcknowledgedMeansDone
    <2> SUFFICES ASSUME IInv, NEW p \in Provider
                 PROVE  /\ mails[p] <= notices[p] /\ acked[p] <= notices[p]
                        /\ Exists(p) => acked[p] <= logs[p]
                        /\ Quiet(p) /\ Exists(p) /\ verdicts[p] # {} /\ p \notin lost =>
                              logs[p] > 0
      BY DEF AcknowledgedMeansDone
    <2>1. \A S \in SUBSET Worker : Cardinality(S) \in Nat
      BY VerificationConstants, FS_Subset, FS_CardinalityType
    <2>2. /\ Cardinality(Past(p, {"notified"})) \in Nat
          /\ Cardinality(Past(p, {"notified", "mailed"})) \in Nat
          /\ Cardinality(Past(p, {"logged", "notified", "mailed"})) \in Nat
      BY <2>1 DEF Past
    <2>3. /\ mails[p] \in Nat /\ acked[p] \in Nat /\ notices[p] \in Nat /\ logs[p] \in Nat
      BY DEF IInv, TypeOK
    <2>4. /\ mails[p] <= notices[p] /\ acked[p] <= notices[p]
          /\ status[p] # "erased" => acked[p] <= logs[p]
      BY <2>2, <2>3 DEF IInv, CountInv
    <2>5. Exists(p) => status[p] # "erased"
      BY DEF Exists, Status, Verdict
    <2>6. Quiet(p) => /\ Past(p, {"taken", "read", "updated"}) = {}
                      /\ \A v \in Verdict : ~(queue[p][v] > 0)
                      /\ \A c \in Call, v \in Verdict : ~At(c, v, p, "saved")
      BY AtNow DEF Quiet, Past, IInv, TypeOK
    <2>7. QED BY <2>4, <2>5, <2>6 DEF IInv, LogInv
  <1>2. QED BY Invariance, <1>1, PTL

(* The worker only confirms what the API has written, unless a message went *)
(* to the other handler, both verdicts were given, or a review was reopened. *)
THEOREM WorkerOnlyConfirms == Spec => WorkerConfirms
  <1>1. ASSUME IInv, [Next]_vars, NEW w \in Worker, NEW p \in Provider,
               Update(w, p), status'[p] # status[p],
               p \notin crossed, p \notin reopened
        PROVE  verdicts[p] = Verdict
    <2>1. work[w].p = {p} /\ Overwrite(w, p)
      BY <1>1 DEF Update, Handles
    <2>2. work[w].as \in verdicts[p]
      BY <1>1, <2>1 DEF IInv, MessageInv
    <2>3. Exists(p) /\ status[p] # work[w].as
      BY <1>1, <2>1 DEF Overwrite, IInv, TypeOK
    <2>4. status[p] # "erased" /\ verdicts[p] \subseteq Verdict /\ work[w].as \in Verdict
      BY <1>1, <2>2, <2>3 DEF Exists, Status, Verdict, IInv, TypeOK
    <2>5. verdicts[p] # {work[w].as}
      BY <1>1, <2>3, <2>4 DEF IInv, CourseInv
    <2>6. QED BY <2>2, <2>4, <2>5 DEF Verdict
  <1>2. IInv /\ [Next]_vars =>
           [\A w \in Worker, p \in Provider :
               Update(w, p) /\ status'[p] # status[p] =>
                  \/ p \in crossed
                  \/ verdicts[p] = Verdict
                  \/ p \in reopened]_vars
    BY <1>1
  <1>3. QED BY Invariance, <1>2, PTL DEF Spec, WorkerConfirms

(* A call that writes over a verdict is one whose check was out of date.    *)
LEMMA SettledLeft ==
    ASSUME IInv, [Next]_vars, NEW p \in Provider, Settled(p), status'[p] \notin {status[p], "erased"}
    PROVE  \/ \E c \in stale : call[c].p = {p} /\ call'[c].at # "checked"
           \/ \E w \in Worker : Update(w, p)
  <1>1. status[p] # "none" /\ status[p] # "erased" /\ status[p] \notin {"PENDING", "UNDER_REVIEW"}
    BY DEF Settled, Verdict
  <1>2. ASSUME UNCHANGED status PROVE FALSE
    BY <1>2
  <1>3. ASSUME NEW c \in Call, NEW q \in Provider, NEW op \in {"submit"} \cup Verdict,
               At(c, op, q, "checked"), status' = [status EXCEPT ![q] = status'[q]],
               call'[c].at # "checked"
        PROVE  \E d \in stale : call[d].p = {p} /\ call'[d].at # "checked"
    <2>1. q = p
      BY <1>3 DEF IInv, TypeOK
    <2>2. c \in stale
      BY <1>1, <1>3, <2>1, Checked DEF IInv, ChecksHold
    <2>3. QED BY <1>3, <2>1, <2>2, AtNow
  <1>4. ASSUME NEW c \in Call, NEW q \in Provider, Submit(c, q)
        PROVE  \E d \in stale : call[d].p = {p} /\ call'[d].at # "checked"
    <2>1. At(c, "submit", q, "checked") /\ call'[c].at = "idle"
      BY <1>4, EndsShape DEF Submit
    <2>2. status' = [status EXCEPT ![q] = status'[q]]
      BY <1>4 DEF Submit, IInv, TypeOK
    <2>3. QED BY <1>3, <2>1, <2>2
  <1>5. ASSUME NEW c \in Call, NEW q \in Provider, NEW v \in Verdict, Decide(c, v, q)
        PROVE  \E d \in stale : call[d].p = {p} /\ call'[d].at # "checked"
    <2>1. At(c, v, q, "checked") /\ call'[c].at = "saved"
      BY <1>5, GoesShape DEF Decide
    <2>2. status' = [status EXCEPT ![q] = status'[q]]
      BY <1>5 DEF Decide, Writes, IInv, TypeOK
    <2>3. QED BY <1>3, <2>1, <2>2
  <1>6. ASSUME NEW c \in Call, NEW q \in Provider, CreateVerification(c, q) PROVE FALSE
    <2>1. call[c].op = "create" /\ call[c].p = {q} /\ call[c].at = "saved"
      BY <1>6, AtNow DEF CreateVerification
    <2>2. status[q] \in {"none", "erased"}
      BY <2>1 DEF IInv, CallInv
    <2>3. q # p
      BY <1>1, <2>2
    <2>4. QED BY <1>6, <2>3 DEF CreateVerification, IInv, TypeOK
  <1>7. ASSUME NEW q \in Provider, Erase(q) PROVE FALSE
    BY <1>7 DEF Erase, IInv, TypeOK
  <1>8. ASSUME NEW w \in Worker, NEW q \in Provider, Update(w, q) PROVE Update(w, p)
    <2>1. CASE q = p
      BY <1>8, <2>1
    <2>2. CASE q # p
      BY <1>8, <2>2 DEF Update, Overwrite, IInv, TypeOK
    <2>3. QED BY <2>1, <2>2
  <1>9. ASSUME NEW c \in Call, NEW q \in Provider, Calls(c, q) \/ CreateProfile(c, q) PROVE FALSE
    BY <1>2, <1>9 DEF Calls, CheckNew, Check, CreateProfile
  <1>10. ASSUME NEW c \in Call, NEW q \in Provider, NEW v \in Verdict,
                Publish(c, v, q) \/ PublishFails(c, v, q)
         PROVE  FALSE
    BY <1>2, <1>10 DEF Publish, PublishFails
  <1>11. ASSUME NEW c \in Call, Dies(c) PROVE FALSE
    BY <1>2, <1>11 DEF Dies
  <1>12. ASSUME NEW w \in Worker, NEW q \in Provider,
                \/ ReadStatus(w, q) \/ PersistLog(w, q) \/ PersistNotice(w, q)
                \/ Mail(w, q) \/ Ack(w, q) \/ HandlerFails(w, q)
         PROVE  FALSE
    BY <1>2, <1>12 DEF ReadStatus, PersistLog, PersistNotice, Mail, Ack, HandlerFails, Failing, api
  <1>13. ASSUME NEW w \in Worker, Takes(w) PROVE FALSE
    BY <1>2, <1>13 DEF Takes, Deliver, api
  <1>14. CASE UNCHANGED vars
    BY <1>2, <1>14 DEF vars, api
  <1>15. QED
    BY <1>4, <1>5, <1>6, <1>7, <1>8, <1>9, <1>10, <1>11, <1>12, <1>13, <1>14
       DEF Next, Proceeds, Handling

(* The API takes a verdict back only in a call that acts on an old check.   *)
THEOREM VerdictsLeftByStaleCalls == Spec => VerdictLeftOnlyByStaleCalls
  <1>1. IInv /\ [Next]_vars =>
           [\A p \in Provider :
               Settled(p) /\ status'[p] \notin {status[p], "erased"} =>
                  \/ \E c \in stale : call[c].p = {p} /\ call'[c].at # "checked"
                  \/ \E w \in Worker : Update(w, p)]_vars
    BY SettledLeft
  <1>2. QED BY Invariance, <1>1, PTL DEF Spec, VerdictLeftOnlyByStaleCalls

=============================================================================
