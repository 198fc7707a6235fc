------------------------ MODULE ProviderVerification ------------------------
(***************************************************************************)
(* The verification of a provider, from the API to the worker.  The use    *)
(* cases of the API check the status, write the next one in a later        *)
(* statement, unconditionally, and publish a verdict, swallowing the       *)
(* failure to do so.  ProviderApprovalConsumer subscribes twice to ONE     *)
(* queue, once per routing key; RabbitMQ deals the messages of a queue to  *)
(* its consumers in turn, so each handler also gets the verdicts of the    *)
(* other.  A handler writes the status again, then a log, then the in-app  *)
(* notification, none of it in a transaction; a failure puts the message   *)
(* back in the queue.                                                      *)
(***************************************************************************)
EXTENDS Naturals, FiniteSets

CONSTANTS Provider,    \* provider profiles that may be created
          Call,        \* calls the API may be serving at once
          Worker,      \* messages that may be in handling at once
          MaxFailures  \* bound: failures of a handler or a connection in a behaviour

ASSUME VerificationConstants ==
    /\ IsFiniteSet(Worker)
    /\ MaxFailures \in Nat

VARIABLES
    profile,   \* profile[p]: provider_profiles has a row for p
    status,    \* status[p]: provider_verifications.status, "none" or "erased" without a row
    logs,      \* logs[p]: rows of provider_verification_logs
    notices,   \* notices[p]: in-app notifications (MongoDB, no cascade)
    mails,     \* mails[p]: e-mails with a verdict handed to the mail worker
    queue,     \* queue[p][v]: verdicts v on p waiting in worker.provider.approval
    call,      \* call[c]: what call c of the API is doing
    work,      \* work[w]: the message worker w is handling
    acked,     \* history: acked[p]: messages on p that were acknowledged
    verdicts,  \* history: verdicts[p]: the verdicts the admins have written
    reviewed,  \* history: the providers that have been UNDER_REVIEW
    reopened,  \* history: the providers a late submit has put back UNDER_REVIEW
    stale,     \* history: calls whose verification has changed since they checked it
    crossed,   \* history: the providers of whom a verdict reached the other handler
    lost,      \* history: the providers of whom a verdict was not published
    failures   \* failures of a handler or a connection so far

course == <<verdicts, reviewed, reopened, lost>>
api == <<profile, status, call, stale, course>>
broker == <<queue, work, acked, crossed, failures>>
worker == <<logs, notices, mails, broker>>
vars == <<api, worker>>

Verdict == {"APPROVED", "REJECTED"}
Status == {"PENDING", "UNDER_REVIEW"} \cup Verdict
Idle == [op |-> "none", p |-> {}, at |-> "idle"]
Free == [p |-> {}, verdict |-> "none", as |-> "none", at |-> "free", seen |-> "none"]

Exists(p) == status[p] \in Status
Settled(p) == status[p] \in Verdict

Init ==
    /\ profile = [p \in Provider |-> FALSE]
    /\ status = [p \in Provider |-> "none"]
    /\ logs = [p \in Provider |-> 0]
    /\ notices = [p \in Provider |-> 0]
    /\ mails = [p \in Provider |-> 0]
    /\ queue = [p \in Provider |-> [v \in Verdict |-> 0]]
    /\ call = [c \in Call |-> Idle]
    /\ work = [w \in Worker |-> Free]
    /\ acked = [p \in Provider |-> 0]
    /\ verdicts = [p \in Provider |-> {}]
    /\ reviewed = {}
    /\ reopened = {}
    /\ stale = {}
    /\ crossed = {}
    /\ lost = {}
    /\ failures = 0

-----------------------------------------------------------------------------
(* The API.                                                                *)

Start(c, op, p) ==
    /\ call[c] = Idle
    /\ call' = [call EXCEPT ![c] = [op |-> op, p |-> {p}, at |-> "checked"]]

At(c, op, p, at) == call[c] = [op |-> op, p |-> {p}, at |-> at]
Goes(c, at) == call' = [call EXCEPT ![c].at = at]
Ends(c) == call' = [call EXCEPT ![c] = Idle] /\ stale' = stale \ {c}

\* The calls, but for those in C, that have checked p and now act on an old row.
Outdated(C, p) == {d \in Call \ C : call[d].p = {p} /\ call[d].at = "checked"}

\* CreateProviderUseCase: findByUserId finds nothing.
CheckNew(c, p) ==
    /\ ~profile[p]
    /\ status[p] = "none"
    /\ Start(c, "create", p)
    /\ UNCHANGED <<profile, status, stale, course, worker>>

\* The profile is inserted; a second one for the user breaks the unique index, and
\* one for an erased user the foreign key.
CreateProfile(c, p) ==
    /\ At(c, "create", p, "checked")
    /\ IF profile[p] \/ status[p] = "erased"
       THEN Ends(c) /\ UNCHANGED profile
       ELSE Goes(c, "saved") /\ profile' = [profile EXCEPT ![p] = TRUE] /\ UNCHANGED stale
    /\ UNCHANGED <<status, course, worker>>

\* createVerification, in a statement of its own.
CreateVerification(c, p) ==
    /\ At(c, "create", p, "saved")
    /\ status' = [status EXCEPT ![p] = IF profile[p] THEN "PENDING" ELSE @]
    /\ Ends(c)
    /\ UNCHANGED <<profile, course, worker>>

\* A mutated approve that forgets its check.
CheckedStatusLoose(op) ==
    CASE op = "submit" -> {"PENDING"}
      [] op = "APPROVED" -> {"PENDING", "UNDER_REVIEW"}
      [] op = "REJECTED" -> {"UNDER_REVIEW"}

\* A mutated reject that takes a verdict back.
CheckedStatusReverses(op) ==
    CASE op = "submit" -> {"PENDING"}
      [] op = "APPROVED" -> {"UNDER_REVIEW"}
      [] op = "REJECTED" -> {"UNDER_REVIEW", "APPROVED"}

\* The status each use case demands of the latest verification; approve and
\* reject are named after the status they write.
CheckedStatus(op) ==
    CASE op = "submit" -> {"PENDING"}
      [] op \in Verdict -> {"UNDER_REVIEW"}

\* findById, getLatestVerification and the check.
Check(c, op, p) ==
    /\ status[p] \in CheckedStatus(op)
    /\ Start(c, op, p)
    /\ UNCHANGED <<profile, status, stale, course, worker>>

\* SubmitVerificationUseCase: updateVerification(id, UNDER_REVIEW).
Submit(c, p) ==
    /\ At(c, "submit", p, "checked")
    /\ status' = [status EXCEPT ![p] = IF Exists(p) THEN "UNDER_REVIEW" ELSE @]
    /\ reviewed' = reviewed \cup {p}
    /\ reopened' = IF Settled(p) THEN reopened \cup {p} ELSE reopened
    /\ call' = [call EXCEPT ![c] = Idle]
    /\ stale' = (stale \cup Outdated({c}, p)) \ {c}
    /\ UNCHANGED <<profile, verdicts, lost, worker>>

Writes(c, v, p) ==
    /\ status' = [status EXCEPT ![p] = IF Exists(p) THEN v ELSE @]
    /\ verdicts' = [verdicts EXCEPT ![p] = @ \cup {v}]
    /\ stale' = (stale \cup Outdated({c}, p)) \ {c}

\* A mutated approve or reject that leaves the write to the worker.
DecideByMessage(c, v, p) ==
    /\ At(c, v, p, "checked")
    /\ Goes(c, "saved")
    /\ verdicts' = [verdicts EXCEPT ![p] = @ \cup {v}]
    /\ UNCHANGED <<profile, status, reviewed, reopened, stale, lost, worker>>

\* Approve- and RejectProviderUseCase: updateVerification(id, verdict); whether a
\* row was there is not looked at.
Decide(c, v, p) ==
    /\ At(c, v, p, "checked")
    /\ Goes(c, "saved")
    /\ Writes(c, v, p)
    /\ UNCHANGED <<profile, reviewed, reopened, lost, worker>>

Fails ==
    /\ failures < MaxFailures
    /\ failures' = failures + 1

\* producer.send: provider.approved or provider.rejected.  A connection that breaks
\* before the broker has confirmed hands the message over again.
Publish(c, v, p) ==
    /\ At(c, v, p, "saved")
    /\ \/ queue' = [queue EXCEPT ![p][v] = @ + 1] /\ UNCHANGED failures
       \/ queue' = [queue EXCEPT ![p][v] = @ + 2] /\ Fails
    /\ Ends(c)
    /\ UNCHANGED <<profile, status, course, logs, notices, mails, work, acked, crossed>>

\* producer.send fails, and .catch(() => null) swallows it.
PublishFails(c, v, p) ==
    /\ At(c, v, p, "saved")
    /\ lost' = lost \cup {p}
    /\ Ends(c)
    /\ UNCHANGED <<profile, status, verdicts, reviewed, reopened, worker>>

\* The pod of the API dies in the middle of the call.
Dies(c) ==
    /\ call[c] # Idle
    /\ lost' = IF call[c].op \in Verdict /\ call[c].at = "saved" THEN lost \cup call[c].p ELSE lost
    /\ Ends(c)
    /\ UNCHANGED <<profile, status, verdicts, reviewed, reopened, worker>>

\* The account of the provider is deleted: profile, verification and logs go by cascade.
Erase(p) ==
    /\ profile[p]
    /\ profile' = [profile EXCEPT ![p] = FALSE]
    /\ status' = [status EXCEPT ![p] = "erased"]
    /\ logs' = [logs EXCEPT ![p] = 0]
    /\ stale' = stale \cup Outdated({}, p)
    /\ UNCHANGED <<notices, mails, call, course, broker>>

-----------------------------------------------------------------------------
(* The worker.                                                             *)

Handles(w, p, at) == work[w].p = {p} /\ work[w].at = at
GoesOn(w, at) == work' = [work EXCEPT ![w].at = at]

\* The broker hands a verdict to one of the two subscribers: "as" is the handler.
Deliver(w, p, v, as) ==
    /\ work[w] = Free
    /\ queue[p][v] > 0
    /\ queue' = [queue EXCEPT ![p][v] = @ - 1]
    /\ work' = [work EXCEPT ![w] =
                   [p |-> {p}, verdict |-> v, as |-> as, at |-> "taken", seen |-> "none"]]
    /\ crossed' = IF as = v THEN crossed ELSE crossed \cup {p}
    /\ UNCHANGED <<api, logs, notices, mails, acked, failures>>

\* updateVerificationStatus: findOne.
ReadStatus(w, p) ==
    /\ Handles(w, p, "taken")
    /\ work' = [work EXCEPT ![w].at = "read", ![w].seen = status[p]]
    /\ UNCHANGED <<api, logs, notices, mails, queue, acked, crossed, failures>>

\* A row was found, in another status than the one this handler writes.
Differs(w, p) == work[w].seen \in Status \ {work[w].as}

Overwrite(w, p) ==
    /\ status' = [status EXCEPT ![p] = IF Exists(p) THEN work[w].as ELSE @]
    /\ stale' = stale \cup Outdated({}, p)

Requeue(w, p) ==
    /\ queue' = [queue EXCEPT ![p][work[w].verdict] = @ + 1]
    /\ work' = [work EXCEPT ![w] = Free]

\* No row, or already this status: return.  Otherwise update, unconditionally.
Update(w, p) ==
    /\ Handles(w, p, "read")
    /\ IF Differs(w, p) THEN Overwrite(w, p) ELSE UNCHANGED <<status, stale>>
    /\ GoesOn(w, "updated")
    /\ UNCHANGED <<profile, call, course, logs, notices, mails, queue, acked, crossed, failures>>

\* persistLog: a log row if there is a verification, whatever Update did.
PersistLog(w, p) ==
    /\ Handles(w, p, "updated")
    /\ logs' = [logs EXCEPT ![p] = IF Exists(p) THEN @ + 1 ELSE @]
    /\ GoesOn(w, "logged")
    /\ UNCHANGED <<api, notices, mails, queue, acked, crossed, failures>>

\* notificationHandler.persist.
PersistNotice(w, p) ==
    /\ Handles(w, p, "logged")
    /\ notices' = [notices EXCEPT ![p] = @ + 1]
    /\ GoesOn(w, "notified")
    /\ UNCHANGED <<api, logs, mails, queue, acked, crossed, failures>>

\* publishNotifications is not awaited: the e-mail reaches its queue, or the failure to
\* publish it is logged and the handler returns all the same.
Mail(w, p) ==
    /\ Handles(w, p, "notified")
    /\ mails' \in {mails, [mails EXCEPT ![p] = @ + 1]}
    /\ GoesOn(w, "mailed")
    /\ UNCHANGED <<api, logs, notices, queue, acked, crossed, failures>>

Ack(w, p) ==
    /\ Handles(w, p, "mailed")
    /\ work' = [work EXCEPT ![w] = Free]
    /\ acked' = [acked EXCEPT ![p] = @ + 1]
    /\ UNCHANGED <<api, logs, notices, mails, queue, crossed, failures>>

Failing(w, p) ==
    /\ work[w].p = {p}
    /\ Fails
    /\ UNCHANGED <<api, logs, notices, mails, crossed>>

\* A mutated consumer whose catch block does not throw again.
HandlerFailsQuietly(w, p) ==
    /\ Failing(w, p)
    /\ work' = [work EXCEPT ![w] = Free]
    /\ acked' = [acked EXCEPT ![p] = @ + 1]
    /\ UNCHANGED queue

\* A statement of the handler fails and the consumer throws again, or the worker
\* dies: the message goes back to the queue, what was written stays written.
HandlerFails(w, p) ==
    /\ Failing(w, p)
    /\ Requeue(w, p)
    /\ UNCHANGED acked

-----------------------------------------------------------------------------
Proceeds(c, p) ==
    \/ CreateProfile(c, p) \/ CreateVerification(c, p) \/ Submit(c, p)
    \/ \E v \in Verdict : Decide(c, v, p) \/ Publish(c, v, p) \/ PublishFails(c, v, p)

Handling(w, p) ==
    \/ ReadStatus(w, p) \/ Update(w, p) \/ PersistLog(w, p)
    \/ PersistNotice(w, p) \/ Mail(w, p) \/ Ack(w, p)

Takes(w) == \E p \in Provider, v, as \in Verdict : Deliver(w, p, v, as)

\* The endpoints of ProviderController about a verification.
Calls(c, p) == CheckNew(c, p) \/ \E op \in {"submit"} \cup Verdict : Check(c, op, p)

Next ==
    \/ \E c \in Call, p \in Provider : Calls(c, p) \/ Proceeds(c, p)
    \/ \E c \in Call : Dies(c)
    \/ \E p \in Provider : Erase(p)
    \/ \E w \in Worker : Takes(w)
    \/ \E w \in Worker, p \in Provider : Handling(w, p) \/ HandlerFails(w, p)

Spec == Init /\ [][Next]_vars

-----------------------------------------------------------------------------
(* Properties.                                                             *)

TypeOK ==
    /\ profile \in [Provider -> BOOLEAN]
    /\ status \in [Provider -> Status \cup {"none", "erased"}]
    /\ logs \in [Provider -> Nat]
    /\ notices \in [Provider -> Nat]
    /\ mails \in [Provider -> Nat]
    /\ queue \in [Provider -> [Verdict -> Nat]]
    /\ call \in [Call -> [op : {"none", "create", "submit"} \cup Verdict,
                          p : SUBSET Provider, at : {"idle", "checked", "saved"}]]
    /\ work \in [Worker -> [p : SUBSET Provider, verdict : Verdict \cup {"none"},
                            as : Verdict \cup {"none"},
                            at : {"free", "taken", "read", "updated", "logged", "notified", "mailed"},
                            seen : Status \cup {"none", "erased"}]]
    /\ acked \in [Provider -> Nat]
    /\ verdicts \in [Provider -> SUBSET Verdict]
    /\ reviewed \in SUBSET Provider
    /\ reopened \in SUBSET Provider
    /\ stale \in SUBSET Call
    /\ crossed \in SUBSET Provider
    /\ lost \in SUBSET Provider
    /\ failures \in 0..MaxFailures

\* No verdict without a review: whatever overlaps, is redelivered or is handed to
\* the wrong handler, a provider is APPROVED or REJECTED only after it has been
\* UNDER_REVIEW and an admin has decided about it.
VerdictNeedsReview ==
    \A p \in Provider : Settled(p) => p \in reviewed /\ verdicts[p] # {}

Quiet(p) ==
    /\ \A v \in Verdict : queue[p][v] = 0
    /\ \A w \in Worker : work[w].p # {p}
    /\ \A c \in Call : call[c].p # {p}

\* A message is acknowledged only after its log and its notification were written,
\* although the handler may fail between any two of its statements, and no e-mail goes
\* out ahead of the notification.  Once everything about a provider has been handled,
\* a verdict of an admin is on the log unless its message was lost, also when the
\* status was already there: the early return of updateVerificationStatus skips the
\* update and nothing else, where SPEC-WORKER.md (line 210) has the worker ignore the
\* message.
AcknowledgedMeansDone ==
    \A p \in Provider :
       /\ mails[p] <= notices[p] /\ acked[p] <= notices[p]
       /\ Exists(p) => acked[p] <= logs[p]
       /\ Quiet(p) /\ Exists(p) /\ verdicts[p] # {} /\ p \notin lost => logs[p] > 0

\* The worker changes the status of a provider only in three cases: one of the
\* messages reached the other handler, the admins gave both verdicts, or a late
\* submit reopened the review.  The API has written the verdict before it is published.
WorkerConfirms ==
    [][\A w \in Worker, p \in Provider :
          Update(w, p) /\ status'[p] # status[p] =>
             \/ p \in crossed
             \/ verdicts[p] = Verdict
             \/ p \in reopened]_vars

\* The API takes a verdict back only in a call whose check is older than a write of
\* somebody else to the same verification.
VerdictLeftOnlyByStaleCalls ==
    [][\A p \in Provider :
          Settled(p) /\ status'[p] \notin {status[p], "erased"} =>
             \/ \E c \in stale : call[c].p = {p} /\ call'[c].at # "checked"
             \/ \E w \in Worker : Update(w, p)]_vars

=============================================================================
