--------------------------- MODULE AccountCleanup ---------------------------
(***************************************************************************)
(* AccountCleanupService.run() against the live database.                  *)
(*                                                                         *)
(* A run reads the ids of the expired PENDING accounts once, and then      *)
(* walks through them in batches, one READ COMMITTED transaction each: for *)
(* every id it counts the open requests of the account as a contractor,    *)
(* and either skips it or deletes its contact rows and then the account.   *)
(* Deleting an account cascades to the service requests in which it is the *)
(* contractor or owns the provider profile.  Meanwhile the API changes     *)
(* accounts and requests, and a second run (a manual one, or one of        *)
(* another pod while the lock fails) may be walking through the same ids.  *)
(***************************************************************************)
EXTENDS Naturals, FiniteSets

CONSTANTS User,          \* the accounts
          Request,       \* service requests that may be created
          ContractorOf,  \* ContractorOf[q]: the account that asks for q
          OwnerOf,       \* OwnerOf[q]: the account that owns the provider profile of q
          Cleaner,       \* runs of the job that may be in progress at once
          BatchSize,     \* BATCH_SIZE, 50 in the code
          MaxFailures    \* bound: failures, crashes and overlapping starts in a behaviour

ASSUME CleanupConstants ==
    /\ IsFiniteSet(User)
    /\ ContractorOf \in [Request -> User]
    /\ OwnerOf \in [Request -> User]
    /\ BatchSize \in Nat \ {0}
    /\ MaxFailures \in Nat

VARIABLES
    status,        \* status[u]: users.status as committed, "GONE" without a row
    expired,       \* expired[u]: created_at is older than the expiry
    contacts,      \* contacts[u]: user_emails, user_phones, user_addresses rows exist
    request,       \* request[q]: service_requests.status as committed
    pc,            \* pc[c]: where run c stands
    expiredUsers,  \* expiredUsers[c]: the ids its one scan returned
    todo,          \* todo[c]: ids of the batches not started yet
    batch,         \* batch[c]: ids of the open batch not looked at yet
    current,       \* current[c]: the id between its count and its deletion
    tx,            \* tx[c]: the uncommitted deletions of run c
    report,        \* report[c]: the AccountCleanupResult being built
    removedBy,     \* history: the run that deleted account u
    activated,     \* history: accounts activated after a run had read their ids
    late,          \* history: requests opened between the count and the deletion
    failures       \* failures, crashes and overlapping starts so far

db == <<status, expired, contacts, request>>
run == <<pc, expiredUsers, todo, batch, current, tx, report>>
history == <<removedBy, activated, late>>
vars == <<db, run, history, failures>>

UserStatus == {"PENDING", "ACTIVE", "GONE"}
RequestStatus == {"none", "PENDING", "ACCEPTED", "CLOSED", "ERASED"}
Phase == {"idle", "between", "inTx", "counted", "contactsDeleted", "done"}
Nobody == {}
EmptyTx == [users |-> {}, contacts |-> {}]
EmptyReport == [deleted |-> 0, skipped |-> 0, errors |-> 0]

OpenRequest(q) == request[q] \in {"PENDING", "ACCEPTED"}
Exists(u) == status[u] # "GONE"

\* The rows an open transaction has deleted stay locked until it ends.
Locked(u) == \E c \in Cleaner : u \in tx[c].users
LockedByOther(c, u) == \E d \in Cleaner \ {c} : u \in tx[d].users \cup tx[d].contacts

\* Run c is going to delete u, or to look at it.
Chosen(c, u) == u \in todo[c] \cup batch[c] \cup current[c]

\* The request q opens: if its contractor has been counted already, too late.
Opens(q) == late' = IF \E c \in Cleaner : ContractorOf[q] \in current[c]
                    THEN late \cup {q} ELSE late \ {q}

Init ==
    /\ status \in [User -> {"PENDING", "ACTIVE"}]
    /\ expired \in [User -> BOOLEAN]
    /\ contacts = [u \in User |-> TRUE]
    /\ request = [q \in Request |-> "none"]
    /\ pc = [c \in Cleaner |-> "idle"]
    /\ expiredUsers = [c \in Cleaner |-> {}]
    /\ todo = [c \in Cleaner |-> {}]
    /\ batch = [c \in Cleaner |-> {}]
    /\ current = [c \in Cleaner |-> Nobody]
    /\ tx = [c \in Cleaner |-> EmptyTx]
    /\ report = [c \in Cleaner |-> EmptyReport]
    /\ removedBy = [u \in User |-> Nobody]
    /\ activated = {}
    /\ late = {}
    /\ failures = 0

-----------------------------------------------------------------------------
(* The API and the passing of time.                                        *)

\* created_at falls behind NOW() - PENDING_ACCOUNT_EXPIRY_DAYS.
Expire(u) ==
    /\ ~expired[u]
    /\ expired' = [expired EXCEPT ![u] = TRUE]
    /\ UNCHANGED <<status, contacts, request, run, history, failures>>

\* UpdateUserUseCase: the status becomes whatever the caller says.
UpdateStatus(u, s) ==
    /\ Exists(u)
    /\ ~Locked(u)
    /\ status[u] # s
    /\ status' = [status EXCEPT ![u] = s]
    /\ activated' = IF s = "ACTIVE" /\ \E c \in Cleaner : Chosen(c, u)
                    THEN activated \cup {u} ELSE activated \ {u}
    /\ UNCHANGED <<expired, contacts, request, run, removedBy, late, failures>>

\* A request is inserted; its foreign keys need both accounts, and wait for a
\* transaction that is deleting one of them.
CreateRequest(q) ==
    /\ request[q] = "none"
    /\ \A u \in {ContractorOf[q], OwnerOf[q]} : Exists(u) /\ ~Locked(u)
    /\ request' = [request EXCEPT ![q] = "PENDING"]
    /\ Opens(q)
    /\ UNCHANGED <<status, expired, contacts, run, removedBy, activated, failures>>

\* Accept, reject, cancel, complete.  Each reads the status, and writes the new
\* one unconditionally in a later statement, so that between the two the request
\* may have been closed: what is written can open it again.
MoveRequest(q, s) ==
    /\ request[q] \notin {"none", "ERASED", s}
    /\ \A u \in {ContractorOf[q], OwnerOf[q]} : ~Locked(u)
    /\ request' = [request EXCEPT ![q] = s]
    /\ IF s = "ACCEPTED" THEN Opens(q) ELSE late' = late \ {q}
    /\ UNCHANGED <<status, expired, contacts, run, removedBy, activated, failures>>

-----------------------------------------------------------------------------
(* run().                                                                  *)

Failure ==
    /\ failures < MaxFailures
    /\ failures' = failures + 1

InProgress(c) == pc[c] \notin {"idle", "done"}

\* CronLock keeps the runs apart, unless Redis or a pod fails, a run outlives its
\* key, or somebody starts one by hand.
Begin(c) ==
    /\ ~InProgress(c)
    /\ IF \E d \in Cleaner : InProgress(d) THEN Failure ELSE UNCHANGED failures
    /\ report' = [report EXCEPT ![c] = EmptyReport]
    /\ pc' = [pc EXCEPT ![c] = "between"]

Reads(c, ids) ==
    /\ Begin(c)
    /\ expiredUsers' = [expiredUsers EXCEPT ![c] = ids]
    /\ todo' = [todo EXCEPT ![c] = ids]
    /\ UNCHANGED <<db, batch, current, tx, history>>

\* A mutated scan that forgets the status condition.
ScanAnyStatus(c) == Reads(c, {u \in User : Exists(u) /\ expired[u]})

\* SELECT id FROM users WHERE status = 'PENDING' AND created_at < ...
Scan(c) == Reads(c, {u \in User : status[u] = "PENDING" /\ expired[u]})

\* The next ids, in no order, of which the transaction goes through some.
Takes(c, ids, some) ==
    /\ pc[c] = "between"
    /\ ids # {}
    /\ Cardinality(ids) = IF Cardinality(todo[c]) < BatchSize
                          THEN Cardinality(todo[c]) ELSE BatchSize
    /\ batch' = [batch EXCEPT ![c] = some]
    /\ todo' = [todo EXCEPT ![c] = @ \ ids]
    /\ pc' = [pc EXCEPT ![c] = "inTx"]
    /\ UNCHANGED <<db, expiredUsers, current, tx, report, history, failures>>

\* A mutated slice(i + 1, i + BATCH_SIZE): one id of each batch is passed over.
StartBatchOffByOne(c) ==
    \E ids \in SUBSET todo[c] : \E passedOver \in ids : Takes(c, ids, ids \ {passedOver})

\* slice(i, i + BATCH_SIZE); createQueryRunner, connect, startTransaction.
StartBatch(c) == \E ids \in SUBSET todo[c] : Takes(c, ids, ids)

\* A mutated count that looks at PENDING requests only.
HasPendingRequests(u) == \E q \in Request : ContractorOf[q] = u /\ request[q] = "PENDING"

\* SELECT COUNT(*) ... contractor_id = $1 AND status IN ('PENDING','ACCEPTED').
HasActiveRequests(u) == \E q \in Request : ContractorOf[q] = u /\ OpenRequest(q)

LooksAt(c, u) ==
    /\ pc[c] = "inTx"
    /\ u \in batch[c]
    /\ batch' = [batch EXCEPT ![c] = @ \ {u}]
    /\ UNCHANGED <<db, expiredUsers, todo, tx, history, failures>>

\* The count finds open requests: the account is skipped.
Skip(c, u) ==
    /\ LooksAt(c, u)
    /\ HasActiveRequests(u)
    /\ report' = [report EXCEPT ![c].skipped = @ + 1]
    /\ UNCHANGED <<pc, current>>

\* The count is zero: the deletion of this account is decided.
Count(c, u) ==
    /\ LooksAt(c, u)
    /\ ~HasActiveRequests(u)
    /\ current' = [current EXCEPT ![c] = {u}]
    /\ pc' = [pc EXCEPT ![c] = "counted"]
    /\ UNCHANGED report

\* A mutated run outside any transaction: the deletion is visible at once.
DeleteContactsAtOnce(c, u) ==
    /\ pc[c] = "counted"
    /\ u \in current[c]
    /\ contacts' = [contacts EXCEPT ![u] = FALSE]
    /\ pc' = [pc EXCEPT ![c] = "contactsDeleted"]
    /\ UNCHANGED <<status, expired, request, expiredUsers, todo, batch, current, tx, report,
                   history, failures>>

\* DELETE FROM user_emails, user_phones, user_addresses.
DeleteContacts(c, u) ==
    /\ pc[c] = "counted"
    /\ u \in current[c]
    /\ ~LockedByOther(c, u)
    /\ tx' = [tx EXCEPT ![c].contacts = @ \cup {u}]
    /\ pc' = [pc EXCEPT ![c] = "contactsDeleted"]
    /\ UNCHANGED <<db, expiredUsers, todo, batch, current, report, history, failures>>

\* DELETE FROM users WHERE id = $1: counted whether or not a row was there.
DeleteUser(c, u) ==
    /\ pc[c] = "contactsDeleted"
    /\ u \in current[c]
    /\ ~LockedByOther(c, u)
    /\ tx' = [tx EXCEPT ![c].users = @ \cup {u}]
    /\ report' = [report EXCEPT ![c].deleted = @ + 1]
    /\ current' = [current EXCEPT ![c] = Nobody]
    /\ pc' = [pc EXCEPT ![c] = "inTx"]
    /\ UNCHANGED <<db, expiredUsers, todo, batch, history, failures>>

\* What a committed transaction leaves: the accounts are gone, and with them
\* their contact rows and every request that refers to them.
Apply(c) ==
    LET gone == tx[c].users IN
    /\ status' = [u \in User |-> IF u \in gone THEN "GONE" ELSE status[u]]
    /\ contacts' = [u \in User |-> contacts[u] /\ u \notin gone \cup tx[c].contacts]
    /\ request' = [q \in Request |->
                      IF request[q] # "none" /\ {ContractorOf[q], OwnerOf[q]} \cap gone # {}
                      THEN "ERASED" ELSE request[q]]
    /\ removedBy' = [u \in User |-> IF u \in gone /\ Exists(u) THEN {c} ELSE removedBy[u]]
    /\ activated' = activated \ gone
    /\ late' = {q \in late : request'[q] # "ERASED"}
    /\ UNCHANGED expired

EndBatch(c) ==
    /\ pc' = [pc EXCEPT ![c] = "between"]
    /\ batch' = [batch EXCEPT ![c] = {}]
    /\ current' = [current EXCEPT ![c] = Nobody]
    /\ tx' = [tx EXCEPT ![c] = EmptyTx]
    /\ UNCHANGED <<expiredUsers, todo>>

Commit(c) ==
    /\ pc[c] = "inTx"
    /\ batch[c] = {}
    /\ Apply(c)
    /\ EndBatch(c)
    /\ UNCHANGED <<report, failures>>

\* COMMIT takes effect and its answer is lost: the catch block counts an error.
CommitUnanswered(c) ==
    /\ pc[c] = "inTx"
    /\ batch[c] = {}
    /\ Failure
    /\ Apply(c)
    /\ EndBatch(c)
    /\ report' = [report EXCEPT ![c].errors = @ + 1]

\* A mutated catch block that logs the error and does not count it.
RollbackUncounted(c) == EndBatch(c) /\ UNCHANGED <<db, report, history>>

\* The catch block: the batch is rolled back and the error counted; the deletions
\* already counted in accounts_deleted stay counted.
Rollback(c) ==
    /\ EndBatch(c)
    /\ report' = [report EXCEPT ![c].errors = @ + 1]
    /\ UNCHANGED <<db, history>>

\* A statement or the COMMIT fails.
BatchFails(c) ==
    /\ pc[c] \in {"inTx", "counted", "contactsDeleted"}
    /\ Failure
    /\ Rollback(c)

\* Two runs took their ids in different orders and each waits for a row of the
\* other: PostgreSQL ends one of them.
WaitsFor(c, d) == c # d /\ current[c] \cap (tx[d].users \cup tx[d].contacts) # {}

DeadlockVictim(c) ==
    /\ \E ring \in SUBSET Cleaner :
          /\ c \in ring
          /\ \A d \in ring : (\E e \in ring : WaitsFor(d, e)) /\ (\E e \in ring : WaitsFor(e, d))
    /\ Rollback(c)
    /\ UNCHANGED failures

\* connect, startTransaction or the rollback throws, or the pod dies: the run is
\* over, it reports nothing, and the database drops its open transaction.
Abort(c) ==
    /\ InProgress(c)
    /\ Failure
    /\ pc' = [pc EXCEPT ![c] = "idle"]
    /\ todo' = [todo EXCEPT ![c] = {}]
    /\ batch' = [batch EXCEPT ![c] = {}]
    /\ current' = [current EXCEPT ![c] = Nobody]
    /\ tx' = [tx EXCEPT ![c] = EmptyTx]
    /\ expiredUsers' = [expiredUsers EXCEPT ![c] = {}]
    /\ report' = [report EXCEPT ![c] = EmptyReport]
    /\ UNCHANGED <<db, history>>

\* The loop is over: the counters are returned.
Finish(c) ==
    /\ pc[c] = "between"
    /\ todo[c] = {}
    /\ pc' = [pc EXCEPT ![c] = "done"]
    /\ UNCHANGED <<db, expiredUsers, todo, batch, current, tx, report, history, failures>>

-----------------------------------------------------------------------------
Api ==
    \/ \E u \in User : Expire(u)
    \/ \E u \in User, s \in {"PENDING", "ACTIVE"} : UpdateStatus(u, s)
    \/ \E q \in Request : CreateRequest(q)
    \/ \E q \in Request, s \in {"ACCEPTED", "CLOSED"} : MoveRequest(q, s)

Work(c) ==
    \/ StartBatch(c) \/ Commit(c) \/ DeadlockVictim(c) \/ Finish(c)
    \/ \E u \in User : Skip(c, u) \/ Count(c, u) \/ DeleteContacts(c, u) \/ DeleteUser(c, u)

Next ==
    \/ Api
    \/ \E c \in Cleaner : Scan(c) \/ Work(c) \/ CommitUnanswered(c) \/ BatchFails(c) \/ Abort(c)

Spec == Init /\ [][Next]_vars

\* The schedule comes round again and a run carries on with what it has begun.
\* Nobody has to use the API.
FairSpec == Spec /\ \A c \in Cleaner : WF_vars(Scan(c) \/ Work(c))

-----------------------------------------------------------------------------
(* Properties.                                                             *)

TypeOK ==
    /\ status \in [User -> UserStatus]
    /\ expired \in [User -> BOOLEAN]
    /\ contacts \in [User -> BOOLEAN]
    /\ request \in [Request -> RequestStatus]
    /\ pc \in [Cleaner -> Phase]
    /\ expiredUsers \in [Cleaner -> SUBSET User]
    /\ todo \in [Cleaner -> SUBSET User]
    /\ batch \in [Cleaner -> SUBSET User]
    /\ current \in [Cleaner -> SUBSET User]
    /\ tx \in [Cleaner -> [users : SUBSET User, contacts : SUBSET User]]
    /\ report \in [Cleaner -> [deleted : Nat, skipped : Nat, errors : Nat]]
    /\ removedBy \in [User -> SUBSET Cleaner]
    /\ activated \in SUBSET User
    /\ late \in SUBSET Request
    /\ failures \in 0..MaxFailures

\* An account and its contact rows go together: whatever fails between the four
\* DELETE statements, no account is left without its e-mail, phone and address.
WholeAccounts == \A u \in User : contacts[u] <=> Exists(u)

\* An account is erased while ACTIVE only if it was activated after a run had read
\* its id: the scan's condition protects every account that was ACTIVE before.
ActiveErasedOnlyIfLate ==
    [][\A u \in User : status[u] = "ACTIVE" /\ status'[u] = "GONE" => u \in activated]_vars

\* When an account is erased, none of the open requests it made goes with it, except
\* one that opened between the count and the deletion of that account.
CountedRequestsSurvive ==
    [][\A q \in Request :
          OpenRequest(q) /\ status'[ContractorOf[q]] = "GONE" => q \in late]_vars

\* accounts_deleted and accounts_skipped against the database, in a run whose ids no
\* other run removed.  Without errors both are exact.  A failed batch stays counted in
\* accounts_deleted and is missing in accounts_skipped: what is reported deleted is
\* never less than what went, what is reported skipped never more than what stayed,
\* and neither is off by more than one batch for each error reported.
ReportMatchesDatabase ==
    \A c \in Cleaner :
       LET removed == {u \in expiredUsers[c] : removedBy[u] = {c}}
           kept == expiredUsers[c] \ removed
           slack == report[c].errors * BatchSize
       IN pc[c] = "done" /\ (\A u \in expiredUsers[c] : removedBy[u] \in {Nobody, {c}})
          => /\ Cardinality(removed) <= report[c].deleted
             /\ report[c].deleted <= Cardinality(removed) + slack
             /\ report[c].skipped <= Cardinality(kept)
             /\ Cardinality(kept) <= report[c].skipped + slack

Eligible(u) == status[u] = "PENDING" /\ expired[u] /\ ~HasActiveRequests(u)

\* No account stays removable for ever: a rolled back batch, an aborted run or a
\* deadlock between two runs is made good by a later run.
EligibleAccountsGo == \A u \in User : []<>~Eligible(u)

=============================================================================
