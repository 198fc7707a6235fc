------------------------ MODULE ServiceRequestProofs ------------------------
(***************************************************************************)
(* Theorems of ServiceRequest, for any number of requests and calls, and   *)
(* of the report that WeeklyReport reads from its rows.                    *)
(***************************************************************************)
EXTENDS WeeklyReport, FiniteSetTheorems, TLAPS

(* That a step leaves the events says so of both kinds.                    *)
USE DEF events

(* What the place of a call says of its operation.                         *)
CallShape ==
    \A c \in Call :
       /\ call[c].op = "none" <=> call[c].at = "idle"
       /\ call[c].op = "none" => call[c] = Idle
       /\ call[c].at = "written" => call[c].op \in Move
       /\ call[c].at = "found" => call[c].op = "review"
       /\ call[c].at = "saved" => call[c].op \in {"create", "complete"}
       /\ call[c].op = "create" /\ call[c].at # "saved" => call[c].q = NoRequest

(* What been records of the row, its reviews and its events.               *)
RowHistory ==
    \A q \in Request :
       /\ row[q] \in Milestone => row[q] \in been[q]
       /\ row[q] = "none" =>
             /\ been[q] = {} /\ reviews[q] = 0
             /\ created[q] = 0 /\ q \notin completed
             /\ \A c \in Call : q \notin call[c].q
       /\ "COMPLETED" \in been[q] => "ACCEPTED" \in been[q]
       /\ reviews[q] > 0 => "COMPLETED" \in been[q]
       /\ created[q] > 0 => "PENDING" \in been[q]
       /\ q \in completed => "COMPLETED" \in been[q]

(* What a call may rely on although the row may have moved since.          *)
CallHistory ==
    \A c \in Call, q \in Request :
       q \in call[c].q =>
          /\ call[c].op = "complete" => "ACCEPTED" \in been[q]
          /\ call[c].op = "complete" /\ call[c].at = "written" =>
                "COMPLETED" \in been[q] \/ row[q] = "erased"
          /\ call[c].op = "complete" /\ call[c].at = "saved" => "COMPLETED" \in been[q]
          /\ call[c].op = "review" => "COMPLETED" \in been[q]
          /\ call[c].op = "create" => "PENDING" \in been[q]

(* One insert of a request, and one send that announces it.                *)
AnnouncedOnce ==
    \A q \in Request :
       /\ created[q] <= MaxCopies
       /\ \A c \in Call :
             q \in call[c].q /\ call[c].op = "create" =>
                /\ created[q] = 0
                /\ \A d \in Call : q \in call[d].q /\ call[d].op = "create" => d = c

(* A call that has checked a request and is not stale still sees what it   *)
(* has checked; when the calls come one at a time, unless it is erased.    *)
ChecksHold ==
    \A c \in Call, q \in Request :
       q \in call[c].q /\ call[c].op \in Move /\ call[c].at = "checked" =>
          /\ c \in stale \/ row[q] \in MovesFrom(call[c].op)
          /\ serial => row[q] \in MovesFrom(call[c].op) \cup {"erased"}

OneAtATime ==
    serial => \A c, d \in Call : call[c] # Idle /\ call[d] # Idle => c = d

IInv ==
    /\ TypeOK /\ CallShape /\ RowHistory /\ CallHistory
    /\ AnnouncedOnce /\ OneReview /\ ChecksHold /\ OneAtATime

-----------------------------------------------------------------------------
(* TypeOK says that a call is about one request or none.                   *)
LEMMA OneRequest ==
    ASSUME TypeOK, NEW c \in Call, NEW q \in call[c].q
    PROVE  q \in Request /\ call[c].q = {q}
  <1>1. call[c].q \in {NoRequest} \cup {{r} : r \in Request}
    BY DEF TypeOK
  <1>2. PICK r \in Request : call[c].q = {r}
    BY <1>1 DEF NoRequest
  <1>3. QED BY <1>2

(* A step of a call leaves the others, and what the call is about.         *)
LEMMA CallGoes ==
    ASSUME TypeOK, NEW c \in Call, NEW at \in At, Goes(c, at)
    PROVE  /\ call' \in [Call -> [op : Move \cup {"none", "create", "review"},
                                  q : {NoRequest} \cup {{q} : q \in Request}, at : At]]
           /\ \A d \in Call : call'[d].op = call[d].op /\ call'[d].q = call[d].q
           /\ call'[c].at = at
           /\ \A d \in Call \ {c} : call'[d] = call[d]
  <1> DEFINE Q == {NoRequest} \cup {{q} : q \in Request}
             Op == Move \cup {"none", "create", "review"}
  <1>1. call \in [Call -> [op : Op, q : Q, at : At]]
    BY DEF TypeOK
  <1> HIDE DEF Q, Op
  <1>2. call' = [call EXCEPT ![c] = [call[c] EXCEPT !.at = at]]
    BY <1>1 DEF Goes
  <1>3. call[c] \in [op : Op, q : Q, at : At]
    BY <1>1
  <1>4. [call[c] EXCEPT !.at = at] = [op |-> call[c].op, q |-> call[c].q, at |-> at]
    BY <1>3
  <1>5. call' = [call EXCEPT ![c] = [op |-> call[c].op, q |-> call[c].q, at |-> at]]
    BY <1>2, <1>4
  <1>6. QED
    BY <1>1, <1>3, <1>5 DEF Q, Op

LEMMA InitIInv == Init => IInv
  BY CopiesAssumption
     DEF Init, IInv, TypeOK, CallShape, RowHistory, CallHistory, AnnouncedOnce, OneReview,
         ChecksHold, OneAtATime, Idle, NoRequest, Exists, Status, Milestone, At, Move

(* The values of the statuses an operation lets through.                   *)
LEMMA MovesFromStatus ==
    /\ \A op \in Move : MovesFrom(op) \subseteq {"PENDING", "ACCEPTED"}
    /\ MovesFrom("complete") = {"ACCEPTED"}
    /\ \A op \in Move : MovesTo(op) \in Status \ {"PENDING"}
    /\ \A op \in Move : MovesTo(op) = "COMPLETED" => op = "complete"
    /\ MovesTo("complete") = "COMPLETED"
  BY DEF MovesFrom, MovesTo, Move, Status

-----------------------------------------------------------------------------
(* The steps.                                                              *)

(* A call that ends without having changed anything.                       *)
LEMMA EndsIInv ==
    ASSUME IInv, NEW c \in Call, Ends(c), UNCHANGED <<serial, db, events, been>>
    PROVE  IInv'
  <1> USE DEF IInv, Idle, NoRequest, At, Ends, db
  <1>1. TypeOK' BY DEF TypeOK
  <1>2. CallShape' BY DEF TypeOK, CallShape, Move
  <1>3. RowHistory' BY DEF TypeOK, RowHistory, Exists
  <1>4. CallHistory' BY DEF TypeOK, CallHistory
  <1>5. AnnouncedOnce' BY DEF TypeOK, AnnouncedOnce
  <1>6. OneReview' BY DEF OneReview
  <1>7. ChecksHold' BY DEF TypeOK, ChecksHold, Move
  <1>8. OneAtATime' BY DEF TypeOK, OneAtATime
  <1>9. QED BY <1>1, <1>2, <1>3, <1>4, <1>5, <1>6, <1>7, <1>8

LEMMA CreateIInv ==
    ASSUME IInv, NEW c \in Call, Create(c)
    PROVE  IInv'
  <1> USE DEF IInv, Idle, NoRequest, Move, At
  <1>1. CASE CheckProvider(c)
    <2> USE <1>1 DEF CheckProvider, Start, db
    <2>1. TypeOK' BY DEF TypeOK
    <2>2. CallShape' BY DEF TypeOK, CallShape
    <2>3. RowHistory' BY DEF TypeOK, RowHistory, Exists
    <2>4. CallHistory' BY DEF TypeOK, CallHistory
    <2>5. AnnouncedOnce' BY DEF TypeOK, AnnouncedOnce
    <2>6. OneReview' BY DEF OneReview
    <2>7. ChecksHold' BY DEF TypeOK, ChecksHold
    <2>8. OneAtATime' BY DEF TypeOK, OneAtATime
    <2>9. QED BY <2>1, <2>2, <2>3, <2>4, <2>5, <2>6, <2>7, <2>8
  <1>2. ASSUME NEW q \in Request, Insert(c, q) PROVE IInv'
    <2> USE <1>2 DEF Insert, SetRow
    <2>1. TypeOK' BY DEF TypeOK, Status, Milestone
    <2>2. CallShape' BY DEF TypeOK, CallShape
    <2>3. RowHistory' BY DEF TypeOK, RowHistory, Exists, Status, Milestone, CallShape
    <2>4. CallHistory' BY DEF TypeOK, CallHistory, RowHistory, Milestone
    <2>5. AnnouncedOnce' BY DEF TypeOK, AnnouncedOnce, RowHistory
    <2>6. OneReview' BY DEF OneReview
    <2>7. ChecksHold' BY DEF TypeOK, ChecksHold, RowHistory
    <2>i. call[c] # Idle
      BY DEF CallShape
    <2>j. \A d \in Call \ {c} : call'[d] = call[d]
      BY DEF TypeOK
    <2>8. OneAtATime' BY <2>i, <2>j DEF OneAtATime
    <2>9. QED BY <2>1, <2>2, <2>3, <2>4, <2>5, <2>6, <2>7, <2>8
  <1>3. ASSUME NEW q \in Request, SendCreated(c, q) PROVE IInv'
    <2> USE <1>3 DEF SendCreated, Publishes, Ends, db
    <2>1. TypeOK' BY DEF TypeOK
    <2>2. CallShape' BY DEF TypeOK, CallShape
    <2>3. RowHistory' BY DEF TypeOK, RowHistory, Exists, CallHistory
    <2>4. CallHistory' BY DEF TypeOK, CallHistory
    <2>5. AnnouncedOnce' BY DEF TypeOK, AnnouncedOnce
    <2>6. OneReview' BY DEF OneReview
    <2>7. ChecksHold' BY DEF TypeOK, ChecksHold
    <2>8. OneAtATime' BY DEF TypeOK, OneAtATime
    <2>9. QED BY <2>1, <2>2, <2>3, <2>4, <2>5, <2>6, <2>7, <2>8
  <1>4. QED BY <1>1, <1>2, <1>3 DEF Create

LEMMA MoveStatusIInv ==
    ASSUME IInv, NEW c \in Call, MoveStatus(c)
    PROVE  IInv'
  <1> USE DEF IInv, Idle, NoRequest, Move, At
  <1>1. ASSUME NEW q \in Request, NEW op \in Move, Check(c, op, q) PROVE IInv'
    <2> USE <1>1 DEF Check, Start, db
    <2>1. TypeOK' BY DEF TypeOK
    <2>2. CallShape' BY DEF TypeOK, CallShape
    <2>3. RowHistory' BY MovesFromStatus DEF TypeOK, RowHistory, Exists, Status, Milestone
    <2>4. CallHistory'
      BY MovesFromStatus DEF TypeOK, CallHistory, RowHistory, Exists, Status, Milestone
    <2>5. AnnouncedOnce' BY DEF TypeOK, AnnouncedOnce
    <2>6. OneReview' BY DEF OneReview
    <2>7. ChecksHold' BY DEF TypeOK, ChecksHold
    <2>8. OneAtATime' BY DEF TypeOK, OneAtATime
    <2>9. QED BY <2>1, <2>2, <2>3, <2>4, <2>5, <2>6, <2>7, <2>8
  <1>2. ASSUME NEW q \in Request, Write(c, q) PROVE IInv'
    <2>0. /\ call' \in [Call -> [op : Move \cup {"none", "create", "review"},
                                 q : {NoRequest} \cup {{r} : r \in Request}, at : At]]
          /\ \A d \in Call : call'[d].op = call[d].op /\ call'[d].q = call[d].q
          /\ call'[c].at = "written"
          /\ \A d \in Call \ {c} : call'[d] = call[d]
      BY <1>2, CallGoes DEF Write
    <2>q. \A r \in Request, d \in Call : r \in call[d].q => call[d].q = {r}
      BY OneRequest
    <2>w. /\ call[c].op \in Move /\ call[c].at = "checked" /\ call[c].q = {q}
          /\ UNCHANGED <<serial, approved, reviews, events>>
      BY <1>2 DEF Write
    <2>e. \/ Exists(q) /\ SetRow(q, MovesTo(call[c].op)) /\ Outdates(c, q)
          \/ ~Exists(q) /\ UNCHANGED <<row, been, stale>>
      BY <1>2 DEF Write
    <2> USE <2>0, <2>w
    <2>t. /\ row' \in [Request -> Status \cup {"none", "erased"}]
          /\ been' \in [Request -> SUBSET Milestone]
      <3>1. CASE Exists(q)
        <4>1. PICK s \in Status : SetRow(q, s)
          BY <2>e, <3>1, MovesFromStatus
        <4>2. /\ row \in [Request -> Status \cup {"none", "erased"}]
              /\ been \in [Request -> SUBSET Milestone]
          BY DEF TypeOK
        <4> HIDE <2>0, <2>w
        <4>3. QED BY <4>1, <4>2 DEF SetRow
      <3>2. CASE ~Exists(q)
        BY <2>e, <3>2 DEF TypeOK
      <3>3. QED BY <3>1, <3>2
    <2>s. stale' \in SUBSET Call
      BY <2>e DEF TypeOK, Outdates
    <2>1. TypeOK'
      BY <2>t, <2>s DEF TypeOK
    <2>2. CallShape' BY DEF CallShape
    <2>b. /\ \A r \in Request \ {q} : row'[r] = row[r] /\ been'[r] = been[r]
          /\ been[q] \subseteq been'[q]
          /\ Exists(q) => /\ row'[q] = MovesTo(call[c].op)
                          /\ been'[q] = been[q] \cup ({MovesTo(call[c].op)} \cap Milestone)
          /\ ~Exists(q) => row'[q] = row[q] /\ been'[q] = been[q]
      BY <2>e DEF TypeOK, SetRow
    <2>m. /\ Exists(q) => row'[q] \in Status /\ (row'[q] \in Milestone => row'[q] \in been'[q])
          /\ Exists(q) /\ call[c].op = "complete" => "COMPLETED" \in been'[q]
          /\ "COMPLETED" \in been'[q] => "COMPLETED" \in been[q] \/ call[c].op = "complete"
      <3> DEFINE to == MovesTo(call[c].op)
      <3>1. /\ to \in Status /\ (to = "COMPLETED" <=> call[c].op = "complete")
        BY MovesFromStatus
      <3> HIDE DEF to
      <3>2. /\ Exists(q) => row'[q] = to /\ been'[q] = been[q] \cup ({to} \cap Milestone)
            /\ ~Exists(q) => been'[q] = been[q]
        BY <2>b DEF to
      <3> HIDE <2>0, <2>w
      <3>3. QED BY <3>1, <3>2 DEF Milestone
    <2>c. call[c].op = "complete" => "ACCEPTED" \in been[q]
      BY DEF CallHistory
    <2>3. RowHistory'
      <3>1. ASSUME NEW r \in Request
            PROVE  /\ row'[r] \in Milestone => row'[r] \in been'[r]
                   /\ row'[r] = "none" => row[r] = "none" /\ been'[r] = been[r]
                   /\ "COMPLETED" \in been'[r] => "ACCEPTED" \in been'[r]
                   /\ been[r] \subseteq been'[r]
        <4>1. CASE r = q
          BY <4>1, <2>b, <2>m, <2>c DEF RowHistory, Status, Exists
        <4>2. CASE r # q
          BY <4>2, <2>b DEF RowHistory
        <4>3. QED BY <4>1, <4>2
      <3>2. QED BY <3>1 DEF RowHistory
    <2>4. CallHistory'
      <3>1. ASSUME NEW d \in Call, NEW r \in Request, r \in call[d].q
            PROVE  /\ been[r] \subseteq been'[r]
                   /\ row[r] = "erased" => row'[r] = "erased"
                   /\ row[r] # "none"
        BY <3>1, <2>b DEF RowHistory, Exists, Status
      <3>2. call[c].op = "complete" => "COMPLETED" \in been'[q] \/ row'[q] = "erased"
        <4>1. row[q] \in Status \cup {"erased"}
          BY <3>1 DEF TypeOK
        <4>2. QED BY <4>1, <2>m, <2>b DEF Exists
      <3>3. ASSUME NEW d \in Call \ {c} PROVE call'[d].at = call[d].at
        BY <3>3
      <3>4. QED BY <2>q, <3>1, <3>2, <3>3 DEF CallHistory
    <2>5. AnnouncedOnce' BY DEF AnnouncedOnce
    <2>6. OneReview' BY DEF OneReview
    <2>7. ChecksHold'
      <3> SUFFICES ASSUME NEW d \in Call, NEW r \in Request,
                          r \in call'[d].q, call'[d].op \in Move, call'[d].at = "checked"
                   PROVE  /\ d \in stale' \/ row'[r] \in MovesFrom(call'[d].op)
                          /\ serial' => row'[r] \in MovesFrom(call'[d].op) \cup {"erased"}
        BY DEF ChecksHold
      <3>1. d # c /\ call'[d] = call[d]
        OBVIOUS
      <3>2. /\ d \in stale \/ row[r] \in MovesFrom(call[d].op)
            /\ serial => row[r] \in MovesFrom(call[d].op) \cup {"erased"}
        BY <3>1 DEF ChecksHold
      <3>3. ~serial
        <4>1. call[c] # Idle /\ call[d] # Idle
          BY <3>1
        <4>2. QED BY <3>1, <4>1 DEF OneAtATime
      <3>4. CASE r = q /\ Exists(q)
        <4>1. call[d].q = {q} /\ call[d].at = "checked"
          BY <2>q, <3>1, <3>4
        <4>2. d \in stale'
          BY <2>e, <3>1, <3>4, <4>1 DEF Outdates
        <4>3. QED BY <3>3, <4>2
      <3>5. CASE ~(r = q /\ Exists(q))
        <4>1. row'[r] = row[r]
          BY <2>e, <3>5 DEF SetRow, TypeOK
        <4>2. d \in stale => d \in stale'
          BY <2>e, <3>1 DEF Outdates
        <4>3. QED BY <3>1, <3>2, <3>3, <4>1, <4>2
      <3>6. QED BY <3>4, <3>5
    <2>8. OneAtATime' BY DEF OneAtATime
    <2>9. QED BY <2>1, <2>2, <2>3, <2>4, <2>5, <2>6, <2>7, <2>8
  <1>3. ASSUME NEW q \in Request, Reread(c, q) PROVE IInv'
    <2> USE <1>3 DEF Reread, db
    <2>a. CASE Exists(q) /\ call[c].op = "complete"
      <3>0. /\ call' \in [Call -> [op : Move \cup {"none", "create", "review"},
                                   q : {NoRequest} \cup {{r} : r \in Request}, at : At]]
            /\ \A d \in Call : call'[d].op = call[d].op /\ call'[d].q = call[d].q
            /\ call'[c].at = "saved"
            /\ \A d \in Call \ {c} : call'[d] = call[d]
        BY <2>a, CallGoes
      <3>w. /\ call[c].at = "written" /\ call[c].q = {q} /\ row[q] \in Status
            /\ call[c].op = "complete"
            /\ UNCHANGED <<serial, db, events, been, stale>>
        BY <2>a DEF Exists
      <3> USE <3>0, <3>w
      <3>1. TypeOK' BY DEF TypeOK
      <3>2. CallShape' BY DEF CallShape
      <3>3. RowHistory' BY DEF RowHistory, Exists
      <3>4. CallHistory' BY DEF CallHistory, Status
      <3>5. AnnouncedOnce' BY DEF AnnouncedOnce
      <3>6. OneReview' BY DEF OneReview
      <3>7. ChecksHold' BY DEF ChecksHold
      <3>8. OneAtATime' BY DEF OneAtATime
      <3>9. QED BY <3>1, <3>2, <3>3, <3>4, <3>5, <3>6, <3>7, <3>8
    <2>b. CASE ~(Exists(q) /\ call[c].op = "complete")
      BY <2>b, EndsIInv
    <2>c. QED BY <2>a, <2>b
  <1>4. ASSUME NEW q \in Request, SendCompleted(c, q) PROVE IInv'
    <2> USE <1>4 DEF SendCompleted, Publishes, Ends, db
    <2>1. TypeOK' BY DEF TypeOK
    <2>2. CallShape' BY DEF TypeOK, CallShape
    <2>3. RowHistory' BY DEF TypeOK, RowHistory, Exists, CallHistory
    <2>4. CallHistory' BY DEF TypeOK, CallHistory
    <2>5. AnnouncedOnce' BY DEF TypeOK, AnnouncedOnce
    <2>6. OneReview' BY DEF OneReview
    <2>7. ChecksHold' BY DEF TypeOK, ChecksHold
    <2>8. OneAtATime' BY DEF TypeOK, OneAtATime
    <2>9. QED BY <2>1, <2>2, <2>3, <2>4, <2>5, <2>6, <2>7, <2>8
  <1>5. QED BY <1>1, <1>2, <1>3, <1>4 DEF MoveStatus

LEMMA ReviewIInv ==
    ASSUME IInv, NEW c \in Call, Review(c)
    PROVE  IInv'
  <1> USE DEF IInv, Idle, NoRequest, Move, At
  <1>1. ASSUME NEW q \in Request, CheckCompleted(c, q) PROVE IInv'
    <2> USE <1>1 DEF CheckCompleted, Start, db
    <2>1. TypeOK' BY DEF TypeOK
    <2>2. CallShape' BY DEF TypeOK, CallShape
    <2>3. RowHistory' BY DEF TypeOK, RowHistory, Exists, Status, Milestone
    <2>4. CallHistory' BY DEF TypeOK, CallHistory, RowHistory, Exists, Status, Milestone
    <2>5. AnnouncedOnce' BY DEF TypeOK, AnnouncedOnce
    <2>6. OneReview' BY DEF OneReview
    <2>7. ChecksHold' BY DEF TypeOK, ChecksHold
    <2>8. OneAtATime' BY DEF TypeOK, OneAtATime
    <2>9. QED BY <2>1, <2>2, <2>3, <2>4, <2>5, <2>6, <2>7, <2>8
  <1>2. ASSUME NEW q \in Request, FindReview(c, q) PROVE IInv'
    <2> USE <1>2 DEF FindReview, db
    <2>a. CASE reviews[q] = 0
      <3>0. /\ call' \in [Call -> [op : Move \cup {"none", "create", "review"},
                                   q : {NoRequest} \cup {{r} : r \in Request}, at : At]]
            /\ \A d \in Call : call'[d].op = call[d].op /\ call'[d].q = call[d].q
            /\ call'[c].at = "found"
            /\ \A d \in Call \ {c} : call'[d] = call[d]
        BY <2>a, CallGoes
      <3>w. /\ call[c].at = "checked" /\ call[c].op = "review"
            /\ UNCHANGED <<serial, db, events, been, stale>>
        BY <2>a
      <3> USE <3>0, <3>w
      <3>1. TypeOK' BY DEF TypeOK
      <3>2. CallShape' BY DEF CallShape
      <3>3. RowHistory' BY DEF RowHistory, Exists
      <3>4. CallHistory' BY DEF CallHistory
      <3>5. AnnouncedOnce' BY DEF AnnouncedOnce
      <3>6. OneReview' BY DEF OneReview
      <3>7. ChecksHold' BY DEF ChecksHold
      <3>8. OneAtATime' BY DEF OneAtATime
      <3>9. QED BY <3>1, <3>2, <3>3, <3>4, <3>5, <3>6, <3>7, <3>8
    <2>b. CASE reviews[q] # 0
      BY <2>b, EndsIInv
    <2>c. QED BY <2>a, <2>b
  <1>3. ASSUME NEW q \in Request, InsertReview(c, q) PROVE IInv'
    <2> USE <1>3 DEF InsertReview, Ends
    <2>1. TypeOK' BY DEF TypeOK
    <2>2. CallShape' BY DEF TypeOK, CallShape
    <2>3. RowHistory'
      BY DEF TypeOK, RowHistory, Exists, Status, Milestone, CallHistory, CallShape
    <2>4. CallHistory' BY DEF TypeOK, CallHistory
    <2>5. AnnouncedOnce' BY DEF TypeOK, AnnouncedOnce
    <2>6. OneReview' BY DEF TypeOK, OneReview
    <2>7. ChecksHold' BY DEF TypeOK, ChecksHold
    <2>8. OneAtATime' BY DEF TypeOK, OneAtATime
    <2>9. QED BY <2>1, <2>2, <2>3, <2>4, <2>5, <2>6, <2>7, <2>8
  <1>4. QED BY <1>1, <1>2, <1>3 DEF Review

LEMMA EraseIInv ==
    ASSUME IInv, NEW q \in Request, Erase(q)
    PROVE  IInv'
  <1> USE DEF IInv, Erase
  <1>1. TypeOK' BY DEF TypeOK
  <1>2. CallShape' BY DEF CallShape
  <1>3. RowHistory' BY DEF TypeOK, RowHistory, Exists, Status, Milestone
  <1>4. CallHistory' BY DEF TypeOK, CallHistory
  <1>5. AnnouncedOnce' BY DEF AnnouncedOnce
  <1>6. OneReview' BY DEF TypeOK, OneReview
  <1>7. ChecksHold'
    <2>1. \A r \in Request, d \in Call : r \in call[d].q => call[d].q = {r}
      BY OneRequest
    <2>2. QED BY <2>1 DEF TypeOK, ChecksHold
  <1>8. OneAtATime' BY DEF OneAtATime
  <1>9. QED BY <1>1, <1>2, <1>3, <1>4, <1>5, <1>6, <1>7, <1>8

(* A step that changes nothing but the provider's verification.            *)
LEMMA StutterIInv ==
    ASSUME IInv, approved' \in BOOLEAN,
           UNCHANGED <<serial, row, reviews, events, call, been, stale>>
    PROVE  IInv'
  BY DEF IInv, TypeOK, CallShape, RowHistory, CallHistory, AnnouncedOnce, OneReview,
         ChecksHold, OneAtATime, Exists

LEMMA NextIInv ==
    ASSUME IInv, [Next]_vars
    PROVE  IInv'
  <1>1. ASSUME NEW c \in Call, Create(c) \/ MoveStatus(c) \/ Review(c) PROVE IInv'
    BY <1>1, CreateIInv, MoveStatusIInv, ReviewIInv
  <1>2. ASSUME NEW c \in Call, SendFails(c) \/ Dies(c) PROVE IInv'
    BY <1>2, EndsIInv DEF SendFails, Dies
  <1>3. ASSUME NEW q \in Request, Erase(q) PROVE IInv'
    BY <1>3, EraseIInv
  <1>4. CASE VerificationMoves
    BY <1>4, StutterIInv DEF VerificationMoves, IInv, TypeOK
  <1>5. CASE UNCHANGED vars
    BY <1>5, StutterIInv DEF vars, db, IInv, TypeOK
  <1>6. QED BY <1>1, <1>2, <1>3, <1>4, <1>5 DEF Next

(* Every reachable state satisfies the inductive invariant.                *)
THEOREM Invariance == Spec => []IInv
  <1>1. Init => IInv BY InitIInv
  <1>2. IInv /\ [Next]_vars => IInv' BY NextIInv
  <1>3. QED BY <1>1, <1>2, PTL DEF Spec

(* The variables keep their types.                                         *)
THEOREM TypeCorrect == Spec => []TypeOK
  <1>1. IInv => TypeOK BY DEF IInv
  <1>2. QED BY <1>1, Invariance, PTL

(* Only accepted work is completed, and only completed work reviewed,      *)
(* however many calls overlap.                                             *)
THEOREM ReviewedWorkAccepted == Spec => []ReviewedWorkWasAccepted
  <1>1. IInv => ReviewedWorkWasAccepted
    BY DEF IInv, RowHistory, ReviewedWorkWasAccepted
  <1>2. QED BY <1>1, Invariance, PTL

(* The events of a request agree with its history, however many calls      *)
(* overlap and whatever is erased under them.                              *)
THEOREM TruthfulEvents == Spec => []EventsTellTheTruth
  <1>1. IInv => EventsTellTheTruth
    BY DEF IInv, RowHistory, AnnouncedOnce, EventsTellTheTruth
  <1>2. QED BY <1>1, Invariance, PTL

(* At most one review of a request is stored, although the check for one   *)
(* and the insert are two statements.                                      *)
THEOREM AtMostOneReview == Spec => []OneReview
  <1>1. IInv => OneReview BY DEF IInv
  <1>2. QED BY <1>1, Invariance, PTL

-----------------------------------------------------------------------------
(* The lifecycle.                                                          *)

(* What the lifecycle allows from each status.                             *)
LEMMA LifecycleTargets ==
    /\ Lifecycle!Targets["none"] = {"PENDING"}
    /\ \A op \in Move : \A s \in MovesFrom(op) : MovesTo(op) \in Lifecycle!Targets[s]
    /\ \A s \in Status : "erased" \in Lifecycle!Targets[s]
  BY DEF Lifecycle!Targets, Status, Move, MovesFrom, MovesTo

(* Only an insert, a write and an erasure change a row.                    *)
LEMMA RowSteps ==
    ASSUME IInv, [Next]_vars
    PROVE  \/ UNCHANGED row
           \/ \E q \in Request :
                 /\ row[q] = "none" /\ row' = [row EXCEPT ![q] = "PENDING"]
           \/ \E c \in Call, q \in Request : Write(c, q) /\ Exists(q)
           \/ \E q \in Request : Erase(q)
  <1>1. ASSUME NEW c \in Call, Create(c)
        PROVE  \/ UNCHANGED row
               \/ \E q \in Request :
                     /\ row[q] = "none" /\ row' = [row EXCEPT ![q] = "PENDING"]
    BY <1>1 DEF Create, CheckProvider, Insert, SetRow, SendCreated, Publishes, db
  <1>2. ASSUME NEW c \in Call, MoveStatus(c)
        PROVE  UNCHANGED row \/ \E q \in Request : Write(c, q) /\ Exists(q)
    BY <1>2 DEF MoveStatus, Check, Reread, SendCompleted, Publishes, Write, db
  <1>3. ASSUME NEW c \in Call, Review(c) \/ SendFails(c) \/ Dies(c) PROVE UNCHANGED row
    BY <1>3 DEF Review, CheckCompleted, FindReview, InsertReview, SendFails, Dies, db
  <1>4. CASE VerificationMoves \/ UNCHANGED vars
    BY <1>4 DEF VerificationMoves, vars, db
  <1>5. QED BY <1>1, <1>2, <1>3, <1>4 DEF Next

(* A behaviour keeps its regime.                                           *)
LEMMA SerialKept == [Next]_vars => serial' = serial
  <1>1. ASSUME NEW c \in Call, Create(c) PROVE serial' = serial
    BY <1>1 DEF Create, CheckProvider, Insert, SendCreated, Publishes
  <1>2. ASSUME NEW c \in Call, MoveStatus(c) PROVE serial' = serial
    BY <1>2 DEF MoveStatus, Check, Reread, SendCompleted, Publishes, Write
  <1>3. ASSUME NEW c \in Call, Review(c) \/ SendFails(c) \/ Dies(c) PROVE serial' = serial
    BY <1>3 DEF Review, CheckCompleted, FindReview, InsertReview, SendFails, Dies
  <1>4. (\E q \in Request : Erase(q)) \/ VerificationMoves \/ UNCHANGED vars => serial' = serial
    BY DEF Erase, VerificationMoves, vars
  <1>5. QED BY <1>1, <1>2, <1>3, <1>4 DEF Next

(* A write that finds a row, as a step of the lifecycle or of a stale call. *)
LEMMA WriteMoves ==
    ASSUME IInv, NEW c \in Call, NEW q \in Request, Write(c, q), Exists(q)
    PROVE  /\ row' = [row EXCEPT ![q] = MovesTo(call[c].op)]
           /\ \/ MovesTo(call[c].op) \in Lifecycle!Targets[row[q]]
              \/ ~serial /\ c \in stale
           /\ call[c].q = {q} /\ call'[c].at = "written"
  <1>1. /\ row' = [row EXCEPT ![q] = MovesTo(call[c].op)]
        /\ call[c].q = {q} /\ call[c].op \in Move /\ call[c].at = "checked"
    BY DEF Write, SetRow
  <1>2. call'[c].at = "written"
    <2>1. Goes(c, "written") BY DEF Write
    <2>2. QED BY <2>1, CallGoes DEF IInv, At
  <1>3. /\ c \in stale \/ row[q] \in MovesFrom(call[c].op)
        /\ serial => row[q] \in MovesFrom(call[c].op) \cup {"erased"}
    BY <1>1 DEF IInv, ChecksHold
  <1>4. row[q] # "erased"
    BY DEF Exists, Status, Milestone
  <1>5. QED BY <1>1, <1>2, <1>3, <1>4, LifecycleTargets

(* Overlapping calls leave the lifecycle only where a call writes on the   *)
(* strength of a check that another call has outdated.                     *)
THEOREM LeftOnlyByStaleCalls == Spec => LifecycleLeftOnlyByStaleCalls
  <1> DEFINE Allowed == \A q \in Request :
                \/ row'[q] \in Lifecycle!Targets[row[q]] \cup {row[q]}
                \/ \E c \in stale : call[c].q = {q} /\ call'[c].at = "written"
  <1>1. IInv /\ [Next]_vars => [Allowed]_vars
    <2> SUFFICES ASSUME IInv, [Next]_vars PROVE Allowed
      OBVIOUS
    <2> SUFFICES ASSUME NEW q \in Request, row'[q] # row[q]
                 PROVE  \/ row'[q] \in Lifecycle!Targets[row[q]]
                        \/ \E c \in stale : call[c].q = {q} /\ call'[c].at = "written"
      OBVIOUS
    <2>0. DOMAIN row = Request
      BY DEF IInv, TypeOK
    <2>1. ASSUME NEW r \in Request, row[r] = "none", row' = [row EXCEPT ![r] = "PENDING"]
          PROVE  row'[q] \in Lifecycle!Targets[row[q]]
      BY <2>0, <2>1, LifecycleTargets
    <2>2. ASSUME NEW c \in Call, NEW r \in Request, Write(c, r), Exists(r)
          PROVE  \/ row'[q] \in Lifecycle!Targets[row[q]]
                 \/ c \in stale /\ call[c].q = {q} /\ call'[c].at = "written"
      BY <2>0, <2>2, WriteMoves
    <2>3. ASSUME NEW r \in Request, Erase(r) PROVE row'[q] \in Lifecycle!Targets[row[q]]
      BY <2>0, <2>3, LifecycleTargets DEF Erase, Exists
    <2>4. QED BY RowSteps, <2>1, <2>2, <2>3
  <1>2. QED
    <2>1. Spec => [][Allowed]_vars
      BY <1>1, Invariance, PTL DEF Spec
    <2>2. QED BY <2>1 DEF LifecycleLeftOnlyByStaleCalls

(* When calls come one at a time, the use cases implement the lifecycle,   *)
(* although rows are erased and calls die between their check and write.   *)
THEOREM Refinement == Spec => ImplementsLifecycle
  <1> DEFINE Row == IF serial THEN row ELSE [q \in Request |-> "none"]
  <1>1. Init => Lifecycle!Init
    BY DEF Init, Lifecycle!Init
  <1>2. IInv /\ [Next]_vars => [Lifecycle!Next]_Row
    <2> SUFFICES ASSUME IInv, [Next]_vars, serial, row' # row
                 PROVE  \E q \in Request : \E s \in Lifecycle!Targets[row[q]] :
                           row' = [row EXCEPT ![q] = s]
      BY SerialKept DEF Lifecycle!Next, Lifecycle!Step
    <2>1. ASSUME NEW r \in Request, row[r] = "none", row' = [row EXCEPT ![r] = "PENDING"]
          PROVE  \E s \in Lifecycle!Targets[row[r]] : row' = [row EXCEPT ![r] = s]
      BY <2>1, LifecycleTargets
    <2>2. ASSUME NEW c \in Call, NEW r \in Request, Write(c, r), Exists(r)
          PROVE  \E s \in Lifecycle!Targets[row[r]] : row' = [row EXCEPT ![r] = s]
      BY <2>2, WriteMoves
    <2>3. ASSUME NEW r \in Request, Erase(r)
          PROVE  \E s \in Lifecycle!Targets[row[r]] : row' = [row EXCEPT ![r] = s]
      BY <2>3, LifecycleTargets DEF Erase, Exists
    <2>4. QED BY RowSteps, <2>1, <2>2, <2>3
  <1>3. QED
    <2>1. Spec => Lifecycle!Init /\ [][Lifecycle!Next]_Row
      BY <1>1, <1>2, Invariance, PTL DEF Spec
    <2>2. QED BY <2>1 DEF ImplementsLifecycle, Lifecycle!Spec
-----------------------------------------------------------------------------
(* The weekly report.  What is counted in a product is counted in one      *)
(* factor, as often as the other has elements.                             *)
LEMMA JoinedCount ==
    ASSUME NEW S, IsFiniteSet(S), NEW T, IsFiniteSet(T), NEW A, A \subseteq S,
           NEW R, R = A \X T
    PROVE  IsFiniteSet(R) /\ Cardinality(R) = Cardinality(T) * Cardinality(A)
  <1>1. IsFiniteSet(A)
    BY FS_Subset
  <1>2. IsFiniteSet(A \X T) /\ Cardinality(A \X T) = Cardinality(A) * Cardinality(T)
    BY <1>1, FS_Product
  <1>3. Cardinality(A) \in Nat /\ Cardinality(T) \in Nat
    BY <1>1, FS_CardinalityType
  <1>4. QED BY <1>2, <1>3

(* The units of an amount, which are finitely many.                        *)
LEMMA UnitsFinite ==
    ASSUME NEW S, IsFiniteSet(S), NEW f
    PROVE  IsFiniteSet(Units(S, f))
  <1>1. IsFiniteSet(1..MaxAmount)
    BY AmountsAssumption, FS_Interval
  <1>2. IsFiniteSet(S \X (1..MaxAmount))
    BY <1>1, FS_Product
  <1>3. QED BY <1>2, FS_Subset DEF Units

(* A sum over the rows of a product, of what the first of a row is worth.  *)
LEMMA SumOfFirst ==
    ASSUME NEW A, IsFiniteSet(A), NEW T, IsFiniteSet(T), NEW f, NEW g,
           \A r \in A \X T : g[r] = f[r[1]]
    PROVE  Sum(A \X T, g) = Cardinality(T) * Sum(A, f)
  <1> DEFINE G == Units(A \X T, g)
             F == Units(A, f) \X T
             h == [u \in F |-> <<<<u[1][1], u[2]>>, u[1][2]>>]
  <1>1. IsFiniteSet(Units(A, f)) /\ IsFiniteSet(F)
    BY UnitsFinite, FS_Product
  <1>2. \A u \in F : /\ u[1][1] \in A /\ u[1][2] \in 1..MaxAmount /\ u[2] \in T
                     /\ u[1][2] <= f[u[1][1]]
                     /\ u = <<<<u[1][1], u[1][2]>>, u[2]>>
    BY DEF Units
  <1>3. \A v \in G : /\ v[1][1] \in A /\ v[1][2] \in T /\ v[2] \in 1..MaxAmount
                     /\ v[2] <= f[v[1][1]]
                     /\ v = <<<<v[1][1], v[1][2]>>, v[2]>>
    BY DEF Units
  <1>4. \A a \in A, t \in T, n \in 1..MaxAmount :
           n <= f[a] => <<<<a, t>>, n>> \in G /\ <<<<a, n>>, t>> \in F
    BY DEF Units
  <1> HIDE DEF F, G
  <1>5. h \in Bijection(F, G)
    <2>1. h \in [F -> G]
      BY <1>2, <1>4
    <2>2. \A u, v \in F : h[u] = h[v] => u = v
      <3> SUFFICES ASSUME NEW u \in F, NEW v \in F, h[u] = h[v] PROVE u = v
        OBVIOUS
      <3>1. <<<<u[1][1], u[2]>>, u[1][2]>> = <<<<v[1][1], v[2]>>, v[1][2]>>
        OBVIOUS
      <3>2. u[1][1] = v[1][1] /\ u[2] = v[2] /\ u[1][2] = v[1][2]
        BY <3>1
      <3>3. QED BY <1>2, <3>2
    <2>3. \A v \in G : \E u \in F : h[u] = v
      <3> SUFFICES ASSUME NEW v \in G PROVE \E u \in F : h[u] = v
        OBVIOUS
      <3>1. <<<<v[1][1], v[2]>>, v[1][2]>> \in F
        BY <1>3, <1>4
      <3>2. h[<<<<v[1][1], v[2]>>, v[1][2]>>] = v
        BY <3>1, <1>3
      <3>3. QED BY <3>1, <3>2
    <2> HIDE DEF h
    <2>4. QED BY <2>1, <2>2, <2>3 DEF Bijection, Injection, Surjection, IsInjective
  <1>6. Cardinality(G) = Cardinality(F)
    BY <1>1, <1>5, FS_Bijection DEF ExistsBijection
  <1>7. Cardinality(F) = Cardinality(Units(A, f)) * Cardinality(T)
    BY <1>1, FS_Product DEF F
  <1>8. Cardinality(Units(A, f)) \in Nat /\ Cardinality(T) \in Nat
    BY <1>1, FS_CardinalityType
  <1>9. QED BY <1>6, <1>7, <1>8 DEF G, Sum

(* The same, of what the second of a row is worth.                         *)
LEMMA SumOfSecond ==
    ASSUME NEW A, IsFiniteSet(A), NEW T, IsFiniteSet(T), NEW f, NEW g,
           \A r \in A \X T : g[r] = f[r[2]]
    PROVE  Sum(A \X T, g) = Cardinality(A) * Sum(T, f)
  <1> DEFINE G == Units(A \X T, g)
             F == A \X Units(T, f)
             h == [u \in F |-> <<<<u[1], u[2][1]>>, u[2][2]>>]
  <1>1. IsFiniteSet(Units(T, f)) /\ IsFiniteSet(F)
    BY UnitsFinite, FS_Product
  <1>2. \A u \in F : /\ u[1] \in A /\ u[2][1] \in T /\ u[2][2] \in 1..MaxAmount
                     /\ u[2][2] <= f[u[2][1]]
                     /\ u = <<u[1], <<u[2][1], u[2][2]>>>>
    BY DEF Units
  <1>3. \A v \in G : /\ v[1][1] \in A /\ v[1][2] \in T /\ v[2] \in 1..MaxAmount
                     /\ v[2] <= f[v[1][2]]
                     /\ v = <<<<v[1][1], v[1][2]>>, v[2]>>
    BY DEF Units
  <1>4. \A a \in A, t \in T, n \in 1..MaxAmount :
           n <= f[t] => <<<<a, t>>, n>> \in G /\ <<a, <<t, n>>>> \in F
    BY DEF Units
  <1> HIDE DEF F, G
  <1>5. h \in Bijection(F, G)
    <2>1. h \in [F -> G]
      BY <1>2, <1>4
    <2>2. \A u, v \in F : h[u] = h[v] => u = v
      <3> SUFFICES ASSUME NEW u \in F, NEW v \in F, h[u] = h[v] PROVE u = v
        OBVIOUS
      <3>1. <<<<u[1], u[2][1]>>, u[2][2]>> = <<<<v[1], v[2][1]>>, v[2][2]>>
        OBVIOUS
      <3>2. u[1] = v[1] /\ u[2][1] = v[2][1] /\ u[2][2] = v[2][2]
        BY <3>1
      <3>3. QED BY <1>2, <3>2
    <2>3. \A v \in G : \E u \in F : h[u] = v
      <3> SUFFICES ASSUME NEW v \in G PROVE \E u \in F : h[u] = v
        OBVIOUS
      <3>1. <<v[1][1], <<v[1][2], v[2]>>>> \in F
        BY <1>3, <1>4
      <3>2. h[<<v[1][1], <<v[1][2], v[2]>>>>] = v
        BY <3>1, <1>3
      <3>3. QED BY <3>1, <3>2
    <2> HIDE DEF h
    <2>4. QED BY <2>1, <2>2, <2>3 DEF Bijection, Injection, Surjection, IsInjective
  <1>6. Cardinality(G) = Cardinality(F)
    BY <1>1, <1>5, FS_Bijection DEF ExistsBijection
  <1>7. Cardinality(F) = Cardinality(A) * Cardinality(Units(T, f))
    BY <1>1, FS_Product DEF F
  <1>8. QED BY <1>6, <1>7 DEF G, Sum

(* The e-mail is sent in the weeks with a request, its average is right,   *)
(* and its counts and earnings are those of the week times the number of   *)
(* the reviews of the week.                                                *)
THEOREM ReportMultiplied == Spec => []ReportMultipliedByReviews
  <1>1. ReportMultipliedByReviews
    <2> SUFFICES ASSUME NEW w \in Weeks
                 PROVE  /\ Mailed(w) <=> w.requests # {}
                        /\ Mail(w).completed_count = Times(w) * Cardinality(Having(w, "COMPLETED"))
                        /\ Mail(w).cancelled_count = Times(w) * Cardinality(Having(w, "CANCELLED"))
                        /\ Mail(w).total_earned = Times(w) * Earned(w)
                        /\ Mailed(w) =>
                              Mail(w).average_rating.sum * Cardinality(w.reviews)
                                 = Mail(w).average_rating.count * Stars(w)
      BY DEF ReportMultipliedByReviews
    <2> DEFINE T == IF w.reviews = {} THEN {"null"} ELSE w.reviews
               Q == w.requests
    <2>1. Q \subseteq Request /\ w.reviews \subseteq Request
      BY DEF Weeks, Reviewed
    <2>2. IsFiniteSet(Q) /\ IsFiniteSet(w.reviews) /\ IsFiniteSet(T) /\ T # {}
      BY <2>1, RequestsAssumption, FS_Subset, FS_Singleton
    <2>3. Rows(w) = Q \X T
      BY DEF Rows
    <2>4. Cardinality(T) = Times(w)
      BY FS_Singleton DEF Times
    <2>5. \A s : RowsOf(w, s) = Having(w, s) \X T
      BY <2>3 DEF RowsOf, Having
    <2>6. \A s : Having(w, s) \subseteq Q /\ IsFiniteSet(Having(w, s))
      BY <2>2, FS_Subset DEF Having
    <2>7. RatedRows(w) = Q \X w.reviews
      <3>1. CASE w.reviews = {}
        BY <3>1 DEF RatedRows
      <3>2. CASE w.reviews # {}
        BY <3>2, <2>3 DEF RatedRows
      <3>3. QED BY <3>1, <3>2
    <2> HIDE DEF T, Q
    <2>8. Mailed(w) <=> Q # {}
      <3>1. Mailed(w) => Q # {}
        BY <2>3 DEF Mailed
      <3>2. ASSUME Q # {} PROVE Mailed(w)
        <4>1. PICK q \in Q, t \in T : TRUE
          BY <3>2, <2>2
        <4>2. <<q, t>> \in Rows(w)
          BY <4>1, <2>3
        <4>3. QED BY <4>2 DEF Mailed
      <3>3. QED BY <3>1, <3>2
    <2>9. \A s : Cardinality(RowsOf(w, s)) = Times(w) * Cardinality(Having(w, s))
      BY <2>2, <2>4, <2>5, <2>6, JoinedCount
    <2>10. Mail(w).total_earned = Times(w) * Earned(w)
      <3> DEFINE g == [r \in Rows(w) |-> Price[r[1]]]
      <3>1. \A r \in Having(w, "COMPLETED") \X T : g[r] = Price[r[1]]
        BY <2>3, <2>6
      <3>2. Mail(w).total_earned = Sum(Having(w, "COMPLETED") \X T, g)
        BY <2>5 DEF Mail
      <3> HIDE DEF g
      <3>3. Sum(Having(w, "COMPLETED") \X T, g)
               = Cardinality(T) * Sum(Having(w, "COMPLETED"), Price)
        BY <2>2, <2>6, <3>1, SumOfFirst
      <3>4. QED BY <2>4, <3>2, <3>3 DEF Earned
    <2>11. Mail(w).average_rating.sum * Cardinality(w.reviews)
              = Mail(w).average_rating.count * Stars(w)
      <3> DEFINE g == [r \in RatedRows(w) |-> Rating[r[2]]]
      <3>1. \A r \in Q \X w.reviews : g[r] = Rating[r[2]]
        BY <2>7
      <3>2. Mail(w).average_rating.sum = Sum(Q \X w.reviews, g)
        BY <2>7 DEF Mail
      <3> HIDE DEF g
      <3>3. Sum(Q \X w.reviews, g) = Cardinality(Q) * Stars(w)
        BY <2>2, <3>1, SumOfSecond DEF Stars
      <3>4. Mail(w).average_rating.count = Cardinality(w.reviews) * Cardinality(Q)
        BY <2>2, <2>7, JoinedCount DEF Mail
      <3>5. Cardinality(w.reviews) \in Nat /\ Cardinality(Q) \in Nat /\ Stars(w) \in Nat
        BY <2>2, UnitsFinite, FS_CardinalityType DEF Stars, Sum
      <3> DEFINE c == Cardinality(w.reviews)
                 d == Cardinality(Q)
                 e == Stars(w)
      <3> HIDE DEF c, d, e
      <3>6. c \in Nat /\ d \in Nat /\ e \in Nat => (d * e) * c = (c * d) * e
        OBVIOUS
      <3>7. QED BY <3>2, <3>3, <3>4, <3>5, <3>6 DEF c, d, e
    <2>12. QED
      BY <2>8, <2>9, <2>10, <2>11 DEF Mail, Q
  <1>2. QED BY <1>1, PTL

=============================================================================
