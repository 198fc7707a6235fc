--------------------------- MODULE ServiceRequest ---------------------------
(***************************************************************************)
(* The service-request and review use cases of the API, run by HTTP calls  *)
(* that interleave at every await.  Every use case checks what it has read *)
(* and writes in a later statement, unconditionally: between the two the   *)
(* row may have been moved by another call, or erased by the cascade of an *)
(* account's deletion.  create and complete then publish an event, and     *)
(* swallow the failure to do so.                                           *)
(***************************************************************************)
EXTENDS Naturals, FiniteSets

CONSTANTS Request,   \* ids of the requests that may be created
          Call,      \* calls the API may be serving at once
          MaxCopies  \* bound: how often the broker may take the message of one send

ASSUME CopiesAssumption == MaxCopies \in Nat \ {0}

VARIABLES
    serial,    \* in this behaviour the calls come one at a time (chosen once)
    approved,  \* the latest verification of the provider is APPROVED
    row,       \* row[q]: service_requests.status, "none" or "erased" without a row
    reviews,   \* reviews[q]: number of reviews rows of q
    created,   \* created[q]: copies of the created event about q that reached the exchange
    completed, \* requests whose completed event reached the exchange, once or more often
    call,      \* call[c]: what call c is doing
    been,      \* history: been[q]: the milestones among the statuses q has had
    stale      \* history: calls whose request has changed since they checked it

db == <<approved, row, reviews>>
events == <<created, completed>>
vars == <<serial, db, events, call, been, stale>>

Move == {"accept", "reject", "cancel", "complete"}
Status == {"PENDING", "ACCEPTED", "REJECTED", "CANCELLED", "COMPLETED"}
Milestone == {"PENDING", "ACCEPTED", "COMPLETED"}
NoRequest == {}
Idle == [op |-> "none", q |-> NoRequest, at |-> "idle"]
At == {"idle", "checked", "written", "saved", "found"}

Exists(q) == row[q] \in Status

Init ==
    /\ serial \in BOOLEAN
    /\ approved \in BOOLEAN
    /\ row = [q \in Request |-> "none"]
    /\ reviews = [q \in Request |-> 0]
    /\ created = [q \in Request |-> 0]
    /\ completed = {}
    /\ call = [c \in Call |-> Idle]
    /\ been = [q \in Request |-> {}]
    /\ stale = {}

-----------------------------------------------------------------------------
(* The steps of a call.                                                    *)

Start(c, op, qs, at) ==
    /\ call[c] = Idle
    /\ serial => \A d \in Call : call[d] = Idle
    /\ call' = [call EXCEPT ![c] = [op |-> op, q |-> qs, at |-> at]]

Goes(c, at) == call' = [call EXCEPT ![c].at = at]

\* The call answers, or throws.
Ends(c) ==
    /\ call' = [call EXCEPT ![c] = Idle]
    /\ stale' = stale \ {c}

\* Every other call that has checked q now acts on an old row.
Outdates(c, q) ==
    stale' = (stale \cup {d \in Call : call[d].q = {q} /\ call[d].at = "checked"}) \ {c}

\* A row that is written, and the history of it.
SetRow(q, s) ==
    /\ row' = [row EXCEPT ![q] = s]
    /\ been' = [been EXCEPT ![q] = @ \cup ({s} \cap Milestone)]

-----------------------------------------------------------------------------
(* CreateServiceRequestUseCase.                                            *)

\* getLatestVerification: not APPROVED throws, and changes nothing.
CheckProvider(c) ==
    /\ approved
    /\ Start(c, "create", NoRequest, "checked")
    /\ UNCHANGED <<serial, db, events, been, stale>>

\* repository.create: the row is PENDING.
Insert(c, q) ==
    /\ call[c].op = "create" /\ call[c].at = "checked"
    /\ row[q] = "none"
    /\ SetRow(q, "PENDING")
    /\ call' = [call EXCEPT ![c] = [op |-> "create", q |-> {q}, at |-> "saved"]]
    /\ UNCHANGED <<serial, approved, reviews, events, stale>>

Publishes(c, q) ==
    /\ call[c].q = {q} /\ call[c].at = "saved"
    /\ Ends(c)
    /\ UNCHANGED <<serial, db, been>>

\* send publishes at least once: the connection hands an unconfirmed message over again
\* (module Producer), and the exchange may get several copies of it.
SendCreated(c, q) ==
    /\ call[c].op = "create" /\ Publishes(c, q)
    /\ \E n \in 1..MaxCopies : created' = [created EXCEPT ![q] = @ + n]
    /\ UNCHANGED completed

\* producer.send(...).catch(() => null).
SendFails(c) ==
    /\ call[c].at = "saved"
    /\ Ends(c)
    /\ UNCHANGED <<serial, db, events, been>>

-----------------------------------------------------------------------------
(* Accept, Reject, Cancel and CompleteServiceRequestUseCase.               *)

\* A mutated complete that forgets its check.
MovesFromLoose(op) ==
    CASE op \in {"accept", "reject"} -> {"PENDING"}
      [] op = "cancel" -> {"PENDING", "ACCEPTED"}
      [] op = "complete" -> Status

\* A mutated CANCELLABLE_STATUSES.
MovesFromTooMany(op) ==
    CASE op \in {"accept", "reject"} -> {"PENDING"}
      [] op = "cancel" -> {"PENDING", "ACCEPTED", "COMPLETED"}
      [] op = "complete" -> {"ACCEPTED"}

\* The statuses each use case lets through, and the one it writes.
MovesFrom(op) ==
    CASE op \in {"accept", "reject"} -> {"PENDING"}
      [] op = "cancel" -> {"PENDING", "ACCEPTED"}
      [] op = "complete" -> {"ACCEPTED"}

MovesTo(op) ==
    CASE op = "accept" -> "ACCEPTED"
      [] op = "reject" -> "REJECTED"
      [] op = "cancel" -> "CANCELLED"
      [] op = "complete" -> "COMPLETED"

\* findById and the checks: no row, not the caller's, or in another status throws.
Check(c, op, q) ==
    /\ row[q] \in MovesFrom(op)
    /\ Start(c, op, {q}, "checked")
    /\ UNCHANGED <<serial, db, events, been, stale>>

\* repo.update(id, { status }): no condition on the status, and no row, no effect.
Write(c, q) ==
    /\ call[c].op \in Move /\ call[c].at = "checked" /\ call[c].q = {q}
    /\ Goes(c, "written")
    /\ IF Exists(q)
       THEN SetRow(q, MovesTo(call[c].op)) /\ Outdates(c, q)
       ELSE UNCHANGED <<row, been, stale>>
    /\ UNCHANGED <<serial, approved, reviews, events>>

\* A mutated updateStatus that returns without reading the row again.
RereadUnchecked(c, q) ==
    /\ call[c].at = "written" /\ call[c].q = {q}
    /\ IF call[c].op = "complete"
       THEN Goes(c, "saved") /\ UNCHANGED stale
       ELSE Ends(c)
    /\ UNCHANGED <<serial, db, events, been>>

\* updateStatus reads the row again, and throws if there is none; complete goes on
\* to publish.
Reread(c, q) ==
    /\ call[c].at = "written" /\ call[c].q = {q}
    /\ IF Exists(q) /\ call[c].op = "complete"
       THEN Goes(c, "saved") /\ UNCHANGED stale
       ELSE Ends(c)
    /\ UNCHANGED <<serial, db, events, been>>

SendCompleted(c, q) ==
    /\ call[c].op = "complete" /\ Publishes(c, q)
    /\ completed' = completed \cup {q}
    /\ UNCHANGED created

-----------------------------------------------------------------------------
(* CreateReviewUseCase.                                                    *)

\* findById: the request has to be COMPLETED.
CheckCompleted(c, q) ==
    /\ row[q] = "COMPLETED"
    /\ Start(c, "review", {q}, "checked")
    /\ UNCHANGED <<serial, db, events, been, stale>>

\* findByServiceRequestId: an existing review throws.
FindReview(c, q) ==
    /\ call[c].op = "review" /\ call[c].at = "checked" /\ call[c].q = {q}
    /\ IF reviews[q] = 0
       THEN Goes(c, "found") /\ UNCHANGED stale
       ELSE Ends(c)
    /\ UNCHANGED <<serial, db, events, been>>

\* The insert fails on a second review (unique) and on an erased request (foreign key).
InsertReview(c, q) ==
    /\ call[c].at = "found" /\ call[c].q = {q}
    /\ reviews' = IF Exists(q) /\ reviews[q] = 0 THEN [reviews EXCEPT ![q] = 1] ELSE reviews
    /\ Ends(c)
    /\ UNCHANGED <<serial, approved, row, events, been>>

-----------------------------------------------------------------------------
(* The rest of the world.                                                  *)

\* The pod dies, or the database fails, in the middle of a call.
Dies(c) ==
    /\ call[c] # Idle
    /\ Ends(c)
    /\ UNCHANGED <<serial, db, events, been>>

\* An account is deleted: its requests and their reviews go by cascade.
Erase(q) ==
    /\ Exists(q)
    /\ row' = [row EXCEPT ![q] = "erased"]
    /\ reviews' = [reviews EXCEPT ![q] = 0]
    /\ stale' = stale \cup {d \in Call : call[d].q = {q} /\ call[d].at = "checked"}
    /\ UNCHANGED <<serial, approved, events, call, been>>

\* Module ProviderVerification says when.
VerificationMoves ==
    /\ approved' = ~approved
    /\ UNCHANGED <<serial, row, reviews, events, call, been, stale>>

Create(c) ==
    \/ CheckProvider(c)
    \/ \E q \in Request : Insert(c, q) \/ SendCreated(c, q)

MoveStatus(c) ==
    \E q \in Request :
       \/ \E op \in Move : Check(c, op, q)
       \/ Write(c, q) \/ Reread(c, q) \/ SendCompleted(c, q)

Review(c) ==
    \E q \in Request : CheckCompleted(c, q) \/ FindReview(c, q) \/ InsertReview(c, q)

Next ==
    \/ \E c \in Call : Create(c) \/ MoveStatus(c) \/ Review(c) \/ SendFails(c) \/ Dies(c)
    \/ \E q \in Request : Erase(q)
    \/ VerificationMoves

Spec == Init /\ [][Next]_vars

-----------------------------------------------------------------------------
(* Properties.                                                             *)

TypeOK ==
    /\ serial \in BOOLEAN
    /\ approved \in BOOLEAN
    /\ row \in [Request -> Status \cup {"none", "erased"}]
    /\ reviews \in [Request -> Nat]
    /\ created \in [Request -> Nat]
    /\ completed \in SUBSET Request
    /\ call \in [Call -> [op : Move \cup {"none", "create", "review"},
                          q : {NoRequest} \cup {{q} : q \in Request}, at : At]]
    /\ been \in [Request -> SUBSET Milestone]
    /\ stale \in SUBSET Call

\* Two reviews of one request that both pass the existence check: one is refused.
OneReview == \A q \in Request : reviews[q] <= 1

\* Only work that a provider accepted is completed, and only completed work is
\* reviewed, and that once, however the calls overlap.
ReviewedWorkWasAccepted ==
    /\ OneReview
    /\ \A q \in Request :
          /\ "COMPLETED" \in been[q] => "ACCEPTED" \in been[q]
          /\ reviews[q] > 0 => "COMPLETED" \in been[q]

\* Nobody is told that a request was made or completed when it was not, even when the
\* row is erased in the middle of the call; and a creation is announced by one send: the
\* exchange gets no more than the copies of that one.
EventsTellTheTruth ==
    \A q \in Request :
       /\ created[q] > 0 => "PENDING" \in been[q]
       /\ q \in completed => "COMPLETED" \in been[q]
       /\ created[q] <= MaxCopies

\* The lifecycle promises nothing to behaviours in which the calls overlap.
Lifecycle == INSTANCE RequestLifecycle
    WITH row <- IF serial THEN row ELSE [q \in Request |-> "none"]

\* The use cases implement the lifecycle when calls do not overlap, although a row
\* may be erased and a call may die between its check and its write.
ImplementsLifecycle == Lifecycle!Spec

\* When calls do overlap, the lifecycle is left only by a call whose check is older
\* than a write of another call to the same request.
LifecycleLeftOnlyByStaleCalls ==
    [][\A q \in Request :
          \/ row'[q] \in Lifecycle!Targets[row[q]] \cup {row[q]}
          \/ \E c \in stale : call[c].q = {q} /\ call'[c].at = "written"]_vars

=============================================================================
