------------------------ MODULE AccountCleanupProofs ------------------------
(***************************************************************************)
(* Theorems of AccountCleanup, for any number of accounts, requests and    *)
(* overlapping runs, and any batch size.                                   *)
(***************************************************************************)
EXTENDS AccountCleanup, FiniteSetTheorems, TLAPS

(* The ids of a run and its transaction fit the phase the run is in.       *)
RunShape ==
    \A c \in Cleaner :
       /\ pc[c] \in {"idle", "between", "done"} => batch[c] = {} /\ tx[c] = EmptyTx
       /\ pc[c] \in {"idle", "done"} => todo[c] = {}
       /\ pc[c] \notin {"counted", "contactsDeleted"} => current[c] = {}
       /\ pc[c] \in {"counted", "contactsDeleted"} => \E u \in User : current[c] = {u}
       /\ tx[c].contacts =
             tx[c].users \cup (IF pc[c] = "contactsDeleted" THEN current[c] ELSE {})

(* An id of the scan is waiting, in the batch, under way or deleted: one of them. *)
IdsApart ==
    \A c \in Cleaner :
       /\ todo[c] \cup batch[c] \cup current[c] \cup tx[c].users \subseteq expiredUsers[c]
       /\ todo[c] \cap (batch[c] \cup current[c] \cup tx[c].users) = {}
       /\ batch[c] \cap (current[c] \cup tx[c].users) = {}
       /\ current[c] \cap tx[c].users = {}

(* The account that is gone is the one some run removed.                   *)
RemovedInv == \A u \in User : Exists(u) <=> removedBy[u] = Nobody

(* A request that was not erased has both its accounts.                    *)
PartiesInv ==
    \A q \in Request :
       request[q] \notin {"none", "ERASED"} => Exists(ContractorOf[q]) /\ Exists(OwnerOf[q])

(* A run has an ACTIVE account among its ids only if it became ACTIVE late. *)
ActiveInv ==
    \A c \in Cleaner, u \in User :
       (Chosen(c, u) \/ u \in tx[c].users) /\ status[u] = "ACTIVE" => u \in activated

(* What the count found still holds, but for the requests that opened late. *)
CountInv ==
    \A c \in Cleaner, q \in Request :
       ContractorOf[q] \in current[c] \cup tx[c].users /\ OpenRequest(q) => q \in late

(* The ids a run has dealt with, and those of them it has deleted.         *)
Seen(c) == expiredUsers[c] \ (todo[c] \cup batch[c] \cup current[c])
Removed(c) == {u \in expiredUsers[c] : removedBy[u] = {c}}
Decided(c) == Removed(c) \cup tx[c].users

(* No other run has removed one of the ids.                                *)
Undisturbed(c) == \A u \in expiredUsers[c] : removedBy[u] \in {Nobody, {c}}

(* What a transaction is about: a rollback takes that much back.           *)
InBatch(c) == batch[c] \cup current[c] \cup tx[c].users
BatchFits(c) == Cardinality(InBatch(c)) <= BatchSize

(* Each error makes room for one batch between the counters and the tables. *)
Slack(c) == report[c].errors * BatchSize
Within(low, high, slack) == low <= high /\ high <= low + slack

(* The counters of a run in progress tell what it has done so far.         *)
ReportHolds(c) ==
    Undisturbed(c) =>
       /\ Decided(c) \subseteq Seen(c)
       /\ Within(Cardinality(Decided(c)), report[c].deleted, Slack(c))
       /\ Within(report[c].skipped, Cardinality(Seen(c) \ Decided(c)), Slack(c))

BatchInv == \A c \in Cleaner : BatchFits(c)

ReportInv == \A c \in Cleaner : ReportHolds(c)

IInv ==
    /\ TypeOK /\ RunShape /\ IdsApart /\ WholeAccounts /\ RemovedInv
    /\ PartiesInv /\ ActiveInv /\ CountInv /\ BatchInv /\ ReportInv

-----------------------------------------------------------------------------
(* Sets of ids are finite, and one more id counts for one more.            *)
LEMMA OneMoreId ==
    ASSUME NEW S \in SUBSET User, NEW u \in User, u \notin S
    PROVE  Cardinality(S \cup {u}) = Cardinality(S) + 1
  <1>1. IsFiniteSet(S)
    BY CleanupConstants, FS_Subset
  <1>2. QED
    BY <1>1, FS_AddElement

(* Sets of ids can be counted; a smaller one counts for no more, and two   *)
(* together for no more than the two of them.                              *)
LEMMA CountIds ==
    ASSUME NEW S \in SUBSET User, NEW T \in SUBSET User
    PROVE  /\ Cardinality(S) \in Nat /\ Cardinality(T) \in Nat
           /\ S \subseteq T => Cardinality(S) <= Cardinality(T)
           /\ Cardinality(S \cup T) <= Cardinality(S) + Cardinality(T)
  <1>1. IsFiniteSet(S) /\ IsFiniteSet(T)
    BY CleanupConstants, FS_Subset
  <1>2. Cardinality(S) \in Nat /\ Cardinality(T) \in Nat
    BY <1>1, FS_CardinalityType
  <1>3. S \subseteq T => Cardinality(S) <= Cardinality(T)
    BY <1>1, FS_Subset
  <1>4. Cardinality(S \cup T) = Cardinality(S) + Cardinality(T) - Cardinality(S \cap T)
    BY <1>1, FS_Union
  <1>5. Cardinality(S \cap T) \in Nat
    BY <1>1, FS_Subset, FS_CardinalityType
  <1>6. QED BY <1>2, <1>3, <1>4, <1>5

(* The slack is a number, and one more error is one more batch of it.      *)
LEMMA SlackGrows ==
    ASSUME IInv, NEW c \in Cleaner
    PROVE  /\ Slack(c) \in Nat /\ BatchSize \in Nat
           /\ report'[c].errors = report[c].errors => Slack(c)' = Slack(c)
           /\ report'[c].errors = report[c].errors + 1 => Slack(c)' = Slack(c) + BatchSize
  <1>1. report[c].errors \in Nat /\ BatchSize \in Nat
    BY CleanupConstants DEF IInv, TypeOK
  <1>2. \A n, m \in Nat : n * m \in Nat /\ (n + 1) * m = n * m + m
    OBVIOUS
  <1>3. QED BY <1>1, <1>2 DEF Slack

(* A transaction that takes in nothing new still fits.                     *)
LEMMA BatchShrinks ==
    ASSUME IInv, NEW c \in Cleaner, InBatch(c)' \subseteq InBatch(c)
    PROVE  BatchFits(c)'
  <1>1. InBatch(c) \in SUBSET User /\ InBatch(c)' \in SUBSET User
    BY DEF IInv, TypeOK, InBatch
  <1>2. Cardinality(InBatch(c)) <= BatchSize
    BY DEF IInv, BatchInv, BatchFits
  <1>3. Cardinality(InBatch(c)') <= Cardinality(InBatch(c))
    BY <1>1, CountIds
  <1>4. /\ Cardinality(InBatch(c)') \in Nat /\ Cardinality(InBatch(c)) \in Nat
        /\ BatchSize \in Nat
    BY <1>1, CountIds, CleanupConstants
  <1>5. QED BY <1>2, <1>3, <1>4 DEF BatchFits

(* The catch block counts an error.                                        *)
LEMMA OneMoreError ==
    ASSUME IInv, NEW c \in Cleaner,
           report' = [report EXCEPT ![c].errors = report[c].errors + 1]
    PROVE  /\ report'[c].errors = report[c].errors + 1
           /\ report'[c].deleted = report[c].deleted /\ report'[c].skipped = report[c].skipped
           /\ report' \in [Cleaner -> [deleted : Nat, skipped : Nat, errors : Nat]]
           /\ \A d \in Cleaner \ {c} : report'[d] = report[d]
  <1> DEFINE r == [report[c] EXCEPT !.errors = @ + 1]
  <1>1. report \in [Cleaner -> [deleted : Nat, skipped : Nat, errors : Nat]]
    BY DEF IInv, TypeOK
  <1>2. /\ r \in [deleted : Nat, skipped : Nat, errors : Nat] /\ r.errors = report[c].errors + 1
        /\ r.deleted = report[c].deleted /\ r.skipped = report[c].skipped
    BY <1>1
  <1>3. report' = [report EXCEPT ![c] = r]
    OBVIOUS
  <1> HIDE DEF r
  <1>4. report'[c] = r
    BY <1>1, <1>3
  <1>5. QED BY <1>1, <1>2, <1>3, <1>4

LEMMA InitIInv == Init => IInv
  <1> SUFFICES ASSUME Init PROVE IInv
    OBVIOUS
  <1> USE DEF Init, EmptyTx, EmptyReport, Nobody
  <1>1. TypeOK
    BY CleanupConstants DEF TypeOK, UserStatus, RequestStatus, Phase
  <1>2. RunShape /\ IdsApart
    BY DEF RunShape, IdsApart
  <1>3. WholeAccounts /\ RemovedInv
    BY DEF WholeAccounts, RemovedInv, Exists
  <1>4. PartiesInv /\ CountInv
    BY DEF PartiesInv, CountInv, OpenRequest
  <1>5. ActiveInv
    BY DEF ActiveInv, Chosen
  <1>6. ReportInv
    <2> SUFFICES ASSUME NEW c \in Cleaner PROVE ReportHolds(c)
      BY DEF ReportInv
    <2>1. Decided(c) = {} /\ Seen(c) = {}
      BY DEF Decided, Removed, Seen
    <2>2. report[c].deleted = 0 /\ report[c].skipped = 0 /\ report[c].errors = 0
      OBVIOUS
    <2>3. QED BY <2>1, <2>2, FS_EmptySet, CleanupConstants DEF ReportHolds, Within, Slack
  <1>7. BatchInv
    <2> SUFFICES ASSUME NEW c \in Cleaner PROVE BatchFits(c)
      BY DEF BatchInv
    <2>1. InBatch(c) = {}
      BY DEF InBatch
    <2>2. QED BY <2>1, FS_EmptySet, CleanupConstants DEF BatchFits
  <1>8. QED BY <1>1, <1>2, <1>3, <1>4, <1>5, <1>6, <1>7 DEF IInv

(* A step that leaves what a run has decided alone leaves its report right. *)
LEMMA SameReport ==
    ASSUME NEW c \in Cleaner, ReportHolds(c),
           expiredUsers'[c] = expiredUsers[c], Seen(c)' = Seen(c),
           tx'[c].users = tx[c].users, report'[c] = report[c], removedBy' = removedBy
    PROVE  ReportHolds(c)'
  <1>1. Undisturbed(c)' <=> Undisturbed(c)
    BY DEF Undisturbed
  <1>2. Decided(c)' = Decided(c)
    BY DEF Decided, Removed
  <1>3. Slack(c)' = Slack(c)
    BY DEF Slack
  <1>4. QED BY <1>1, <1>2, <1>3 DEF ReportHolds

-----------------------------------------------------------------------------
(* The API: the runs stand still.                                          *)
LEMMA ApiIInv == ASSUME IInv, Api PROVE IInv'
  <1>1. UNCHANGED <<run, removedBy, failures, contacts>>
    BY DEF Api, Expire, UpdateStatus, CreateRequest, MoveRequest, db, history
  <1>2. RunShape' /\ IdsApart'
    BY <1>1 DEF IInv, RunShape, IdsApart, run
  <1>3. ReportInv' /\ BatchInv'
    <2> SUFFICES ASSUME NEW c \in Cleaner PROVE ReportHolds(c)' /\ BatchFits(c)'
      BY DEF ReportInv, BatchInv
    <2>1. Seen(c)' = Seen(c) /\ InBatch(c)' = InBatch(c)
      BY <1>1 DEF Seen, InBatch, run
    <2>2. ReportHolds(c)'
      BY <1>1, <2>1, SameReport DEF IInv, ReportInv, run
    <2>3. QED BY <2>1, <2>2, BatchShrinks
  <1>4. /\ \A u \in User : Exists(u)' <=> Exists(u)
        /\ WholeAccounts' /\ RemovedInv'
    <2>1. \A u \in User : Exists(u)' <=> Exists(u)
      BY DEF Api, Expire, UpdateStatus, CreateRequest, MoveRequest, Exists, IInv, TypeOK
    <2>2. QED BY <1>1, <2>1 DEF IInv, WholeAccounts, RemovedInv
  <1>5. CASE \E u \in User : Expire(u)
    <2>1. UNCHANGED <<status, request, activated, late>> /\ expired' \in [User -> BOOLEAN]
      BY <1>5 DEF Expire, history, IInv, TypeOK
    <2>2. TypeOK' BY <1>1, <2>1 DEF IInv, TypeOK, run
    <2>3. PartiesInv' BY <2>1 DEF IInv, PartiesInv, Exists
    <2>4. ActiveInv' BY <1>1, <2>1 DEF IInv, ActiveInv, Chosen, run
    <2>5. CountInv' BY <1>1, <2>1 DEF IInv, CountInv, OpenRequest, run
    <2>6. QED BY <1>2, <1>3, <1>4, <2>2, <2>3, <2>4, <2>5 DEF IInv
  <1>6. CASE \E u \in User, s \in {"PENDING", "ACTIVE"} : UpdateStatus(u, s)
    <2> PICK u \in User, s \in {"PENDING", "ACTIVE"} : UpdateStatus(u, s)
      BY <1>6
    <2>1. UNCHANGED <<expired, request, late>>
      BY DEF UpdateStatus
    <2>2. TypeOK'
      BY <1>1, <2>1 DEF UpdateStatus, IInv, TypeOK, UserStatus, run
    <2>3. PartiesInv' BY <1>4, <2>1, CleanupConstants DEF IInv, PartiesInv
    <2>4. ActiveInv'
      BY <1>1 DEF UpdateStatus, Locked, IInv, TypeOK, ActiveInv, Chosen, run
    <2>5. CountInv' BY <1>1, <2>1 DEF IInv, CountInv, OpenRequest, run
    <2>6. QED BY <1>2, <1>3, <1>4, <2>2, <2>3, <2>4, <2>5 DEF IInv
  <1>7. CASE \E q \in Request :
                \/ CreateRequest(q)
                \/ \E s \in {"ACCEPTED", "CLOSED"} : MoveRequest(q, s)
    <2> PICK q \in Request :
                \/ CreateRequest(q)
                \/ \E s \in {"ACCEPTED", "CLOSED"} : MoveRequest(q, s)
      BY <1>7
    <2>1. /\ UNCHANGED <<status, expired, activated>>
          /\ \E s \in {"PENDING", "ACCEPTED", "CLOSED"} :
                request' = [request EXCEPT ![q] = s]
          /\ ~Locked(ContractorOf[q])
          /\ Exists(ContractorOf[q]) /\ Exists(OwnerOf[q])
      BY DEF CreateRequest, MoveRequest, IInv, PartiesInv
    <2>2. /\ late' \in {late \cup {q}, late \ {q}}
          /\ request'[q] # "CLOSED" /\ (\E c \in Cleaner : ContractorOf[q] \in current[c])
                => late' = late \cup {q}
      BY DEF CreateRequest, MoveRequest, Opens, IInv, TypeOK
    <2>3. TypeOK'
      BY <1>1, <2>1, <2>2 DEF IInv, TypeOK, RequestStatus, run
    <2>4. PartiesInv'
      BY <1>4, <2>1, CleanupConstants DEF IInv, TypeOK, PartiesInv
    <2>5. ActiveInv' BY <1>1, <2>1 DEF IInv, ActiveInv, Chosen, run
    <2>6. CountInv'
      BY <1>1, <2>1, <2>2 DEF IInv, TypeOK, CountInv, OpenRequest, Locked, run
    <2>7. QED BY <1>2, <1>3, <1>4, <2>3, <2>4, <2>5, <2>6 DEF IInv
  <1>8. QED BY <1>5, <1>6, <1>7 DEF Api

-----------------------------------------------------------------------------
(* A step of one run that changes nothing that is committed: what is left  *)
(* to show is about that run alone.                                        *)
Alone(c) ==
    /\ UNCHANGED <<status, contacts, request, removedBy, activated, late, expired>>
    /\ \A d \in Cleaner \ {c} :
          /\ pc'[d] = pc[d] /\ expiredUsers'[d] = expiredUsers[d]
          /\ todo'[d] = todo[d] /\ batch'[d] = batch[d] /\ current'[d] = current[d]
          /\ tx'[d] = tx[d] /\ report'[d] = report[d]

LEMMA AloneIInv ==
    ASSUME IInv, NEW c \in Cleaner, Alone(c), TypeOK', RunShape', IdsApart',
           \A u \in User :
              (Chosen(c, u)' \/ u \in tx'[c].users) /\ status[u] = "ACTIVE" => u \in activated,
           \A q \in Request :
              ContractorOf[q] \in current'[c] \cup tx'[c].users /\ OpenRequest(q) => q \in late,
           BatchFits(c)', ReportHolds(c)'
    PROVE  IInv'
  <1>1. WholeAccounts' /\ RemovedInv'
    BY DEF Alone, IInv, WholeAccounts, RemovedInv, Exists
  <1>2. PartiesInv'
    BY DEF Alone, IInv, PartiesInv, Exists
  <1>3. ActiveInv'
    BY DEF Alone, IInv, ActiveInv, Chosen
  <1>4. CountInv'
    BY DEF Alone, IInv, CountInv, OpenRequest
  <1>5. ReportInv'
    <2> SUFFICES ASSUME NEW d \in Cleaner \ {c} PROVE ReportHolds(d)'
      BY DEF ReportInv
    <2>1. Seen(d)' = Seen(d)
      BY DEF Alone, Seen
    <2>2. QED BY <2>1, SameReport DEF Alone, IInv, ReportInv
  <1>6. BatchInv'
    <2> SUFFICES ASSUME NEW d \in Cleaner \ {c} PROVE BatchFits(d)'
      BY DEF BatchInv
    <2>1. InBatch(d)' = InBatch(d)
      BY DEF Alone, InBatch
    <2>2. QED BY <2>1, BatchShrinks
  <1>7. QED BY <1>1, <1>2, <1>3, <1>4, <1>5, <1>6 DEF IInv

(* The scan: a new run, with a new report.                                 *)
LEMMA ScanIInv ==
    ASSUME IInv, NEW c \in Cleaner, Scan(c)
    PROVE  IInv'
  <1> DEFINE ids == {u \in User : status[u] = "PENDING" /\ expired[u]}
  <1>1. /\ ids \in SUBSET User
        /\ report' = [report EXCEPT ![c] = EmptyReport]
        /\ pc' = [pc EXCEPT ![c] = "between"]
        /\ expiredUsers' = [expiredUsers EXCEPT ![c] = ids]
        /\ todo' = [todo EXCEPT ![c] = ids]
        /\ UNCHANGED <<db, batch, current, tx, history>>
        /\ pc[c] \in {"idle", "done"}
    BY DEF Scan, Reads, Begin, InProgress
  <1>2. failures' \in 0..MaxFailures
    BY CleanupConstants DEF Scan, Reads, Begin, Failure, IInv, TypeOK
  <1>3. Alone(c)
    BY <1>1 DEF Alone, IInv, TypeOK, db, history
  <1>4. /\ batch[c] = {} /\ current[c] = {} /\ tx[c] = EmptyTx
        /\ tx[c].users = {} /\ tx[c].contacts = {}
    BY <1>1 DEF IInv, RunShape, EmptyTx
  <1>5. EmptyReport \in [deleted : Nat, skipped : Nat, errors : Nat]
    BY DEF EmptyReport
  <1>6. TypeOK'
    BY <1>1, <1>2, <1>5 DEF IInv, TypeOK, Phase, db, history
  <1>7. RunShape'
    BY <1>1, <1>4 DEF IInv, RunShape, TypeOK
  <1>8. IdsApart'
    BY <1>1, <1>4 DEF IInv, IdsApart, TypeOK
  <1>9. \A u \in User :
           (Chosen(c, u)' \/ u \in tx'[c].users) /\ status[u] = "ACTIVE" => u \in activated
    BY <1>1, <1>4 DEF Chosen, IInv, TypeOK
  <1>10. \A q \in Request :
            ContractorOf[q] \in current'[c] \cup tx'[c].users /\ OpenRequest(q) => q \in late
    BY <1>1, <1>4
  <1>11. ReportHolds(c)'
    <2>1. Seen(c)' = {}
      BY <1>1, <1>4 DEF Seen, IInv, TypeOK
    <2>2. Decided(c)' = {}
      BY <1>1, <1>4 DEF Decided, Removed, IInv, TypeOK, RemovedInv, Exists, Nobody, history
    <2>3. report'[c].deleted = 0 /\ report'[c].skipped = 0 /\ report'[c].errors = 0
      BY <1>1 DEF EmptyReport, IInv, TypeOK
    <2>4. QED BY <2>1, <2>2, <2>3, FS_EmptySet, CleanupConstants DEF ReportHolds, Within, Slack
  <1>12. BatchFits(c)'
    <2>1. InBatch(c)' \subseteq InBatch(c)
      BY <1>1, <1>4 DEF InBatch
    <2>2. QED BY <2>1, BatchShrinks
  <1>13. QED BY <1>3, <1>6, <1>7, <1>8, <1>9, <1>10, <1>11, <1>12, AloneIInv

(* The next batch: ids move from the list into the transaction.            *)
LEMMA StartBatchIInv ==
    ASSUME IInv, NEW c \in Cleaner, StartBatch(c)
    PROVE  IInv'
  <1> PICK ids \in SUBSET todo[c] : Takes(c, ids, ids)
    BY DEF StartBatch
  <1>1. /\ pc[c] = "between"
        /\ batch' = [batch EXCEPT ![c] = ids]
        /\ todo' = [todo EXCEPT ![c] = todo[c] \ ids]
        /\ pc' = [pc EXCEPT ![c] = "inTx"]
        /\ UNCHANGED <<db, expiredUsers, current, tx, report, history, failures>>
        /\ Cardinality(ids) = IF Cardinality(todo[c]) < BatchSize
                              THEN Cardinality(todo[c]) ELSE BatchSize
    BY DEF Takes
  <1>2. Alone(c)
    BY <1>1 DEF Alone, IInv, TypeOK, db, history
  <1>3. batch[c] = {} /\ current[c] = {} /\ tx[c].users = {}
    BY <1>1 DEF IInv, RunShape, EmptyTx
  <1>4. TypeOK'
    BY <1>1 DEF IInv, TypeOK, Phase, db, history
  <1>5. RunShape'
    BY <1>1, <1>3 DEF IInv, RunShape, TypeOK
  <1>6. IdsApart'
    BY <1>1, <1>3 DEF IInv, IdsApart, TypeOK
  <1>7. \A u \in User :
           (Chosen(c, u)' \/ u \in tx'[c].users) /\ status[u] = "ACTIVE" => u \in activated
    BY <1>1 DEF Chosen, IInv, TypeOK, ActiveInv
  <1>8. \A q \in Request :
           ContractorOf[q] \in current'[c] \cup tx'[c].users /\ OpenRequest(q) => q \in late
    BY <1>1 DEF IInv, CountInv
  <1>9. ReportHolds(c)'
    <2>1. Seen(c)' = Seen(c)
      BY <1>1, <1>3 DEF Seen, IInv, TypeOK
    <2>2. QED BY <1>1, <2>1, SameReport DEF IInv, ReportInv, history
  <1>10. BatchFits(c)'
    <2>1. InBatch(c)' = ids
      BY <1>1, <1>3 DEF InBatch, IInv, TypeOK
    <2>2. Cardinality(todo[c]) \in Nat /\ BatchSize \in Nat
      BY CountIds, CleanupConstants DEF IInv, TypeOK
    <2>3. QED BY <1>1, <2>1, <2>2 DEF BatchFits
  <1>11. QED BY <1>2, <1>4, <1>5, <1>6, <1>7, <1>8, <1>9, <1>10, AloneIInv

(* An account with open requests is skipped, and the report says so.       *)
LEMMA SkipIInv ==
    ASSUME IInv, NEW c \in Cleaner, NEW u \in User, Skip(c, u)
    PROVE  IInv'
  <1>1. /\ pc[c] = "inTx" /\ u \in batch[c]
        /\ batch' = [batch EXCEPT ![c] = batch[c] \ {u}]
        /\ report' = [report EXCEPT ![c].skipped = report[c].skipped + 1]
        /\ UNCHANGED <<db, pc, expiredUsers, todo, current, tx, history, failures>>
    BY DEF Skip, LooksAt
  <1>2. Alone(c)
    BY <1>1 DEF Alone, IInv, TypeOK, db, history
  <1>3. report[c] \in [deleted : Nat, skipped : Nat, errors : Nat]
    BY DEF IInv, TypeOK
  <1>4. TypeOK'
    BY <1>1, <1>3 DEF IInv, TypeOK, db, history
  <1>5. RunShape'
    BY <1>1 DEF IInv, RunShape, TypeOK
  <1>6. IdsApart'
    BY <1>1 DEF IInv, IdsApart, TypeOK
  <1>7. \A v \in User :
           (Chosen(c, v)' \/ v \in tx'[c].users) /\ status[v] = "ACTIVE" => v \in activated
    BY <1>1 DEF Chosen, IInv, TypeOK, ActiveInv
  <1>8. \A q \in Request :
           ContractorOf[q] \in current'[c] \cup tx'[c].users /\ OpenRequest(q) => q \in late
    BY <1>1 DEF IInv, CountInv
  <1>9. ReportHolds(c)'
    <2>1. /\ u \in expiredUsers[c] /\ u \notin todo[c] \cup current[c] \cup tx[c].users
          /\ Seen(c) \in SUBSET User /\ u \notin Seen(c)
      BY <1>1 DEF IInv, IdsApart, TypeOK, Seen
    <2>2. Seen(c)' = Seen(c) \cup {u}
      BY <1>1, <2>1 DEF Seen, IInv, TypeOK
    <2>3. Decided(c)' = Decided(c) /\ (Undisturbed(c)' <=> Undisturbed(c))
      BY <1>1, <1>3 DEF Decided, Removed, Undisturbed, history, IInv, TypeOK
    <2>4. /\ report'[c].deleted = report[c].deleted /\ report'[c].skipped = report[c].skipped + 1
          /\ report'[c].errors = report[c].errors
      BY <1>1, <1>3 DEF IInv, TypeOK
    <2>5. CASE Decided(c) \subseteq Seen(c)
      <3>1. Seen(c)' \ Decided(c)' = (Seen(c) \ Decided(c)) \cup {u}
        BY <2>1, <2>2, <2>3, <2>5
      <3>2. Cardinality(Seen(c)' \ Decided(c)') = Cardinality(Seen(c) \ Decided(c)) + 1
        BY <2>1, <3>1, OneMoreId
      <3>3. /\ Slack(c)' = Slack(c) /\ Slack(c) \in Nat
            /\ Cardinality(Seen(c) \ Decided(c)) \in Nat
        BY <2>1, <2>4, SlackGrows, CountIds
      <3>4. QED BY <1>3, <2>2, <2>3, <2>4, <2>5, <3>2, <3>3 DEF ReportHolds, Within, IInv, ReportInv
    <2>6. QED BY <2>3, <2>5 DEF ReportHolds, IInv, ReportInv
  <1>10. BatchFits(c)'
    <2>1. InBatch(c)' \subseteq InBatch(c)
      BY <1>1 DEF InBatch, IInv, TypeOK
    <2>2. QED BY <2>1, BatchShrinks
  <1>11. QED BY <1>2, <1>4, <1>5, <1>6, <1>7, <1>8, <1>9, <1>10, AloneIInv

(* The count is zero: from here on the run is about to delete the account. *)
LEMMA CountIInv ==
    ASSUME IInv, NEW c \in Cleaner, NEW u \in User, Count(c, u)
    PROVE  IInv'
  <1>1. /\ pc[c] = "inTx" /\ u \in batch[c]
        /\ batch' = [batch EXCEPT ![c] = batch[c] \ {u}]
        /\ current' = [current EXCEPT ![c] = {u}]
        /\ pc' = [pc EXCEPT ![c] = "counted"]
        /\ ~HasActiveRequests(u)
        /\ UNCHANGED <<db, expiredUsers, todo, tx, report, history, failures>>
    BY DEF Count, LooksAt
  <1>2. Alone(c)
    BY <1>1 DEF Alone, IInv, TypeOK, db, history
  <1>3. current[c] = {}
    BY <1>1 DEF IInv, RunShape
  <1>4. TypeOK'
    BY <1>1 DEF IInv, TypeOK, Phase, db, history
  <1>5. RunShape'
    BY <1>1, <1>3 DEF IInv, RunShape, TypeOK
  <1>6. IdsApart'
    BY <1>1, <1>3 DEF IInv, IdsApart, TypeOK
  <1>7. \A v \in User :
           (Chosen(c, v)' \/ v \in tx'[c].users) /\ status[v] = "ACTIVE" => v \in activated
    BY <1>1 DEF Chosen, IInv, TypeOK, ActiveInv
  <1>8. \A q \in Request :
           ContractorOf[q] \in current'[c] \cup tx'[c].users /\ OpenRequest(q) => q \in late
    BY <1>1 DEF IInv, TypeOK, CountInv, HasActiveRequests
  <1>9. ReportHolds(c)'
    <2>1. Seen(c)' = Seen(c)
      BY <1>1, <1>3 DEF Seen, IInv, TypeOK
    <2>2. QED BY <1>1, <2>1, SameReport DEF IInv, ReportInv, history
  <1>10. BatchFits(c)'
    <2>1. InBatch(c)' \subseteq InBatch(c)
      BY <1>1 DEF InBatch, IInv, TypeOK
    <2>2. QED BY <2>1, BatchShrinks
  <1>11. QED BY <1>2, <1>4, <1>5, <1>6, <1>7, <1>8, <1>9, <1>10, AloneIInv

(* DELETE FROM the contact tables, not committed yet.                      *)
LEMMA DeleteContactsIInv ==
    ASSUME IInv, NEW c \in Cleaner, NEW u \in User, DeleteContacts(c, u)
    PROVE  IInv'
  <1>1. /\ pc[c] = "counted" /\ u \in current[c]
        /\ tx' = [tx EXCEPT ![c].contacts = tx[c].contacts \cup {u}]
        /\ pc' = [pc EXCEPT ![c] = "contactsDeleted"]
        /\ UNCHANGED <<db, expiredUsers, todo, batch, current, report, history, failures>>
    BY DEF DeleteContacts
  <1>2. Alone(c)
    BY <1>1 DEF Alone, IInv, TypeOK, db, history
  <1>3. tx[c] \in [users : SUBSET User, contacts : SUBSET User] /\ current[c] = {u}
    BY <1>1 DEF IInv, TypeOK, RunShape
  <1>4. /\ tx'[c].users = tx[c].users /\ tx'[c].contacts = tx[c].contacts \cup {u}
        /\ tx' \in [Cleaner -> [users : SUBSET User, contacts : SUBSET User]]
    BY <1>1, <1>3 DEF IInv, TypeOK
  <1>5. TypeOK'
    BY <1>1, <1>4 DEF IInv, TypeOK, Phase, db, history
  <1>6. RunShape'
    <2>1. \A d \in Cleaner \ {c} : tx'[d] = tx[d] /\ pc'[d] = pc[d]
      BY <1>2 DEF Alone
    <2>2. tx[c].contacts = tx[c].users /\ pc'[c] = "contactsDeleted"
      BY <1>1 DEF IInv, RunShape, TypeOK
    <2>3. QED BY <1>1, <1>3, <1>4, <2>1, <2>2 DEF IInv, RunShape
  <1>7. IdsApart'
    BY <1>1, <1>2, <1>4 DEF IInv, IdsApart, Alone
  <1>8. \A v \in User :
           (Chosen(c, v)' \/ v \in tx'[c].users) /\ status[v] = "ACTIVE" => v \in activated
    BY <1>1, <1>4 DEF Chosen, IInv, ActiveInv
  <1>9. \A q \in Request :
           ContractorOf[q] \in current'[c] \cup tx'[c].users /\ OpenRequest(q) => q \in late
    BY <1>1, <1>4 DEF IInv, CountInv
  <1>10. ReportHolds(c)'
    <2>1. Seen(c)' = Seen(c)
      BY <1>1 DEF Seen
    <2>2. QED BY <1>1, <1>4, <2>1, SameReport DEF IInv, ReportInv, history
  <1>11. BatchFits(c)'
    <2>1. InBatch(c)' \subseteq InBatch(c)
      BY <1>1, <1>4 DEF InBatch
    <2>2. QED BY <2>1, BatchShrinks
  <1>12. QED BY <1>2, <1>5, <1>6, <1>7, <1>8, <1>9, <1>10, <1>11, AloneIInv

(* DELETE FROM users, not committed yet, counted in the report.            *)
LEMMA DeleteUserIInv ==
    ASSUME IInv, NEW c \in Cleaner, NEW u \in User, DeleteUser(c, u)
    PROVE  IInv'
  <1>1. /\ pc[c] = "contactsDeleted" /\ u \in current[c]
        /\ tx' = [tx EXCEPT ![c].users = tx[c].users \cup {u}]
        /\ report' = [report EXCEPT ![c].deleted = report[c].deleted + 1]
        /\ current' = [current EXCEPT ![c] = {}]
        /\ pc' = [pc EXCEPT ![c] = "inTx"]
        /\ UNCHANGED <<db, expiredUsers, todo, batch, history, failures>>
    BY DEF DeleteUser, Nobody
  <1>2. Alone(c)
    BY <1>1 DEF Alone, IInv, TypeOK, db, history
  <1>3. /\ tx[c] \in [users : SUBSET User, contacts : SUBSET User]
        /\ report[c] \in [deleted : Nat, skipped : Nat, errors : Nat]
        /\ current[c] = {u} /\ tx[c].contacts = tx[c].users \cup {u}
    BY <1>1 DEF IInv, TypeOK, RunShape
  <1>4. /\ tx'[c].users = tx[c].users \cup {u} /\ tx'[c].contacts = tx[c].contacts
        /\ tx' \in [Cleaner -> [users : SUBSET User, contacts : SUBSET User]]
        /\ current'[c] = {} /\ pc'[c] = "inTx"
        /\ current' \in [Cleaner -> SUBSET User]
    BY <1>1, <1>3 DEF IInv, TypeOK
  <1>5. /\ report'[c].deleted = report[c].deleted + 1
        /\ report'[c].skipped = report[c].skipped /\ report'[c].errors = report[c].errors
        /\ report' \in [Cleaner -> [deleted : Nat, skipped : Nat, errors : Nat]]
    <2> DEFINE r == [report[c] EXCEPT !.deleted = @ + 1]
    <2>1. r \in [deleted : Nat, skipped : Nat, errors : Nat]
      BY <1>3
    <2>2. /\ r.deleted = report[c].deleted + 1 /\ r.skipped = report[c].skipped
          /\ r.errors = report[c].errors
      BY <1>3
    <2>3. report' = [report EXCEPT ![c] = r]
      BY <1>1
    <2> HIDE DEF r
    <2>4. report'[c] = r
      BY <2>3 DEF IInv, TypeOK
    <2>5. QED BY <2>1, <2>2, <2>3, <2>4 DEF IInv, TypeOK
  <1>6. TypeOK'
    BY <1>1, <1>4, <1>5 DEF IInv, TypeOK, Phase, db, history
  <1>7. RunShape'
    BY <1>1, <1>2, <1>3, <1>4 DEF IInv, RunShape, Alone
  <1>8. IdsApart'
    BY <1>1, <1>2, <1>3, <1>4 DEF IInv, IdsApart, Alone
  <1>9. \A v \in User :
           (Chosen(c, v)' \/ v \in tx'[c].users) /\ status[v] = "ACTIVE" => v \in activated
    BY <1>1, <1>4 DEF Chosen, IInv, ActiveInv
  <1>10. \A q \in Request :
           ContractorOf[q] \in current'[c] \cup tx'[c].users /\ OpenRequest(q) => q \in late
    BY <1>1, <1>3, <1>4 DEF IInv, CountInv
  <1>11. ReportHolds(c)'
    <2>1. /\ u \in expiredUsers[c] /\ u \notin todo[c] \cup batch[c] \cup tx[c].users
          /\ u \notin Seen(c)
      BY <1>3 DEF IInv, IdsApart, TypeOK, Seen
    <2>2. Seen(c)' = Seen(c) \cup {u}
      BY <1>1, <1>3, <1>4, <2>1 DEF Seen
    <2>3. Decided(c)' = Decided(c) \cup {u} /\ Decided(c) \in SUBSET User
      BY <1>1, <1>4 DEF Decided, Removed, history, IInv, TypeOK
    <2>4. Undisturbed(c)' <=> Undisturbed(c)
      BY <1>1, <1>5 DEF Undisturbed, history
    <2>5. CASE Decided(c) \subseteq Seen(c)
      <3>1. /\ u \notin Decided(c)
            /\ Seen(c)' \ Decided(c)' = Seen(c) \ Decided(c)
        BY <2>1, <2>2, <2>3, <2>5
      <3>2. Cardinality(Decided(c)') = Cardinality(Decided(c)) + 1
        BY <2>3, <3>1, OneMoreId
      <3>3. Slack(c)' = Slack(c) /\ Slack(c) \in Nat /\ Cardinality(Decided(c)) \in Nat
        BY <1>5, <2>3, SlackGrows, CountIds
      <3>4. QED BY <1>3, <1>5, <2>2, <2>3, <2>4, <2>5, <3>1, <3>2, <3>3
              DEF ReportHolds, Within, IInv, ReportInv
    <2>6. QED BY <2>4, <2>5 DEF ReportHolds, IInv, ReportInv
  <1>12. BatchFits(c)'
    <2>1. InBatch(c)' \subseteq InBatch(c)
      BY <1>1, <1>4 DEF InBatch
    <2>2. QED BY <2>1, BatchShrinks
  <1>13. QED BY <1>2, <1>6, <1>7, <1>8, <1>9, <1>10, <1>11, <1>12, AloneIInv

(* An error: the transaction is rolled back, and its deletions stay counted. *)
LEMMA RollbackIInv ==
    ASSUME IInv, NEW c \in Cleaner, Rollback(c),
           pc[c] \in {"inTx", "counted", "contactsDeleted"}, failures' \in 0..MaxFailures
    PROVE  IInv'
  <1>1. /\ report' = [report EXCEPT ![c].errors = report[c].errors + 1]
        /\ pc' = [pc EXCEPT ![c] = "between"]
        /\ batch' = [batch EXCEPT ![c] = {}]
        /\ current' = [current EXCEPT ![c] = {}]
        /\ tx' = [tx EXCEPT ![c] = EmptyTx]
        /\ UNCHANGED <<db, expiredUsers, todo, history>>
    BY DEF Rollback, EndBatch, Nobody
  <1>2. Alone(c)
    BY <1>1 DEF Alone, IInv, TypeOK, db, history
  <1>3. /\ EmptyTx \in [users : SUBSET User, contacts : SUBSET User]
        /\ EmptyTx.users = {} /\ EmptyTx.contacts = {}
        /\ report[c] \in [deleted : Nat, skipped : Nat, errors : Nat]
    BY DEF EmptyTx, IInv, TypeOK
  <1>4. /\ tx'[c] = EmptyTx /\ current'[c] = {} /\ batch'[c] = {} /\ pc'[c] = "between"
        /\ report'[c].errors = report[c].errors + 1
        /\ report'[c].deleted = report[c].deleted /\ report'[c].skipped = report[c].skipped
        /\ report' \in [Cleaner -> [deleted : Nat, skipped : Nat, errors : Nat]]
    <2>1. /\ tx'[c] = EmptyTx /\ current'[c] = {} /\ batch'[c] = {} /\ pc'[c] = "between"
      BY <1>1 DEF IInv, TypeOK
    <2>2. QED BY <1>1, <2>1, OneMoreError
  <1>5. TypeOK'
    BY <1>1, <1>3, <1>4 DEF IInv, TypeOK, Phase, db, history
  <1>6. RunShape'
    BY <1>1, <1>2, <1>3, <1>4 DEF IInv, RunShape, Alone
  <1>7. IdsApart'
    BY <1>1, <1>2, <1>3, <1>4 DEF IInv, IdsApart, Alone
  <1>8. \A v \in User :
           (Chosen(c, v)' \/ v \in tx'[c].users) /\ status[v] = "ACTIVE" => v \in activated
    BY <1>1, <1>3, <1>4 DEF Chosen, IInv, ActiveInv
  <1>9. \A q \in Request :
           ContractorOf[q] \in current'[c] \cup tx'[c].users /\ OpenRequest(q) => q \in late
    BY <1>3, <1>4
  <1>10. ReportHolds(c)'
    <2> SUFFICES ASSUME Undisturbed(c)' PROVE ReportHolds(c)'
      BY DEF ReportHolds
    <2>1. /\ Decided(c) \subseteq Seen(c)
          /\ Within(Cardinality(Decided(c)), report[c].deleted, Slack(c))
          /\ Within(report[c].skipped, Cardinality(Seen(c) \ Decided(c)), Slack(c))
      BY <1>1 DEF IInv, ReportInv, ReportHolds, Undisturbed, history
    <2>2. /\ Decided(c)' = Removed(c) /\ Removed(c) \subseteq Decided(c)
          /\ Seen(c)' = expiredUsers[c] \ todo[c]
      BY <1>1, <1>3, <1>4 DEF Decided, Removed, Seen, history
    <2>3. /\ Seen(c) \subseteq Seen(c)' /\ Seen(c)' \in SUBSET User
          /\ InBatch(c) \in SUBSET User /\ Decided(c) \in SUBSET User
      BY <2>2 DEF Seen, InBatch, Decided, Removed, IInv, TypeOK
    <2>4. Decided(c) \subseteq Removed(c) \cup InBatch(c)
      BY DEF Decided, InBatch
    <2>5. Seen(c)' \ Removed(c) \subseteq (Seen(c) \ Decided(c)) \cup InBatch(c)
      BY <2>2 DEF Seen, Decided, InBatch
    <2>6. /\ Cardinality(Removed(c)) <= Cardinality(Decided(c))
          /\ Cardinality(Decided(c)) <= Cardinality(Removed(c)) + Cardinality(InBatch(c))
      <3>1. Removed(c) \in SUBSET User /\ Removed(c) \cup InBatch(c) \in SUBSET User
        BY <2>2, <2>3
      <3>2. Cardinality(Decided(c)) <= Cardinality(Removed(c) \cup InBatch(c))
        BY <2>3, <2>4, <3>1, CountIds
      <3>3. Cardinality(Removed(c) \cup InBatch(c))
               <= Cardinality(Removed(c)) + Cardinality(InBatch(c))
        BY <2>3, <3>1, CountIds
      <3>4. Cardinality(Removed(c) \cup InBatch(c)) \in Nat
        BY <3>1, CountIds
      <3>5. /\ Cardinality(Removed(c)) \in Nat /\ Cardinality(InBatch(c)) \in Nat
            /\ Cardinality(Decided(c)) \in Nat
            /\ Cardinality(Removed(c)) <= Cardinality(Decided(c))
        BY <2>2, <2>3, <3>1, CountIds
      <3>6. QED BY <3>2, <3>3, <3>4, <3>5
    <2> DEFINE before == Seen(c) \ Decided(c)
               after == Seen(c)' \ Removed(c)
    <2>7. /\ Cardinality(before) <= Cardinality(after)
          /\ Cardinality(after) <= Cardinality(before) + Cardinality(InBatch(c))
      <3>1. /\ before \in SUBSET User /\ after \in SUBSET User
            /\ before \cup InBatch(c) \in SUBSET User /\ before \subseteq after
        BY <2>2, <2>3
      <3>2. Cardinality(after) <= Cardinality(before \cup InBatch(c))
        BY <2>5, <3>1, CountIds
      <3>3. Cardinality(before \cup InBatch(c)) <= Cardinality(before) + Cardinality(InBatch(c))
        BY <2>3, <3>1, CountIds
      <3>4. /\ Cardinality(before \cup InBatch(c)) \in Nat /\ Cardinality(after) \in Nat
            /\ Cardinality(before) \in Nat /\ Cardinality(InBatch(c)) \in Nat
            /\ Cardinality(before) <= Cardinality(after)
        BY <2>3, <3>1, CountIds
      <3>5. QED BY <3>2, <3>3, <3>4
    <2>8. Cardinality(InBatch(c)) <= BatchSize
      BY DEF IInv, BatchInv, BatchFits
    <2>9. /\ Cardinality(Removed(c)) \in Nat /\ Cardinality(InBatch(c)) \in Nat
          /\ Cardinality(Decided(c)) \in Nat /\ Cardinality(before) \in Nat
          /\ Cardinality(after) \in Nat /\ report[c].deleted \in Nat
          /\ report[c].skipped \in Nat
      <3>1. /\ Removed(c) \in SUBSET User /\ before \in SUBSET User /\ after \in SUBSET User
        BY <2>2, <2>3
      <3>2. QED BY <1>3, <2>3, <3>1, CountIds
    <2>10. Slack(c) \in Nat /\ BatchSize \in Nat /\ Slack(c)' = Slack(c) + BatchSize
      BY <1>4, SlackGrows
    <2> HIDE DEF before, after
    <2>11. Within(Cardinality(Removed(c)), report'[c].deleted, Slack(c)')
      BY <1>4, <2>1, <2>6, <2>8, <2>9, <2>10 DEF Within
    <2>12. Within(report'[c].skipped, Cardinality(after), Slack(c)')
      <3>1. Within(report[c].skipped, Cardinality(before), Slack(c))
        BY <2>1 DEF before
      <3>2. QED BY <1>4, <2>7, <2>8, <2>9, <2>10, <3>1 DEF Within
    <2>13. Removed(c) \subseteq Seen(c)'
      BY <2>1, <2>2, <2>3
    <2>14. QED BY <2>2, <2>11, <2>12, <2>13 DEF ReportHolds, after
  <1>11. BatchFits(c)'
    <2>1. InBatch(c)' \subseteq InBatch(c)
      BY <1>3, <1>4 DEF InBatch
    <2>2. QED BY <2>1, BatchShrinks
  <1>12. QED BY <1>2, <1>5, <1>6, <1>7, <1>8, <1>9, <1>10, <1>11, AloneIInv

(* An abort: the run is over, and so is its transaction.                   *)
LEMMA AbortIInv ==
    ASSUME IInv, NEW c \in Cleaner, Abort(c)
    PROVE  IInv'
  <1>1. /\ pc' = [pc EXCEPT ![c] = "idle"]
        /\ todo' = [todo EXCEPT ![c] = {}]
        /\ batch' = [batch EXCEPT ![c] = {}]
        /\ current' = [current EXCEPT ![c] = {}]
        /\ tx' = [tx EXCEPT ![c] = EmptyTx]
        /\ expiredUsers' = [expiredUsers EXCEPT ![c] = {}]
        /\ report' = [report EXCEPT ![c] = EmptyReport]
        /\ UNCHANGED <<db, history>>
    BY DEF Abort, Nobody
  <1>2. failures' \in 0..MaxFailures
    BY CleanupConstants DEF Abort, Failure, IInv, TypeOK
  <1>3. Alone(c)
    BY <1>1 DEF Alone, IInv, TypeOK, db, history
  <1>4. /\ EmptyTx \in [users : SUBSET User, contacts : SUBSET User]
        /\ EmptyTx.users = {} /\ EmptyTx.contacts = {}
        /\ EmptyReport \in [deleted : Nat, skipped : Nat, errors : Nat]
        /\ EmptyReport.deleted = 0 /\ EmptyReport.skipped = 0 /\ EmptyReport.errors = 0
    BY DEF EmptyTx, EmptyReport
  <1>5. /\ pc'[c] = "idle" /\ todo'[c] = {} /\ batch'[c] = {} /\ current'[c] = {}
        /\ tx'[c] = EmptyTx /\ expiredUsers'[c] = {} /\ report'[c] = EmptyReport
    BY <1>1 DEF IInv, TypeOK
  <1>6. TypeOK'
    BY <1>1, <1>2, <1>4 DEF IInv, TypeOK, Phase, db, history
  <1>7. RunShape'
    BY <1>3, <1>4, <1>5 DEF IInv, RunShape, Alone
  <1>8. IdsApart'
    BY <1>3, <1>4, <1>5 DEF IInv, IdsApart, Alone
  <1>9. \A v \in User :
           (Chosen(c, v)' \/ v \in tx'[c].users) /\ status[v] = "ACTIVE" => v \in activated
    BY <1>4, <1>5 DEF Chosen
  <1>10. \A q \in Request :
           ContractorOf[q] \in current'[c] \cup tx'[c].users /\ OpenRequest(q) => q \in late
    BY <1>4, <1>5
  <1>11. ReportHolds(c)'
    <2>1. Seen(c)' = {} /\ Decided(c)' = {}
      BY <1>4, <1>5 DEF Seen, Decided, Removed
    <2>2. QED BY <1>4, <1>5, <2>1, FS_EmptySet, CleanupConstants DEF ReportHolds, Within, Slack
  <1>12. BatchFits(c)'
    <2>1. InBatch(c)' \subseteq InBatch(c)
      BY <1>4, <1>5 DEF InBatch
    <2>2. QED BY <2>1, BatchShrinks
  <1>13. QED BY <1>3, <1>6, <1>7, <1>8, <1>9, <1>10, <1>11, <1>12, AloneIInv

(* The loop is over.                                                       *)
LEMMA FinishIInv ==
    ASSUME IInv, NEW c \in Cleaner, Finish(c)
    PROVE  IInv'
  <1>1. /\ pc[c] = "between" /\ todo[c] = {}
        /\ pc' = [pc EXCEPT ![c] = "done"]
        /\ UNCHANGED <<db, expiredUsers, todo, batch, current, tx, report, history, failures>>
    BY DEF Finish
  <1>2. Alone(c)
    BY <1>1 DEF Alone, IInv, TypeOK, db, history
  <1>3. TypeOK'
    BY <1>1 DEF IInv, TypeOK, Phase, db, history
  <1>4. RunShape' /\ IdsApart'
    BY <1>1 DEF IInv, RunShape, IdsApart, TypeOK
  <1>5. \A v \in User :
           (Chosen(c, v)' \/ v \in tx'[c].users) /\ status[v] = "ACTIVE" => v \in activated
    BY <1>1 DEF Chosen, IInv, ActiveInv
  <1>6. \A q \in Request :
           ContractorOf[q] \in current'[c] \cup tx'[c].users /\ OpenRequest(q) => q \in late
    BY <1>1 DEF IInv, CountInv
  <1>7. ReportHolds(c)'
    <2>1. Seen(c)' = Seen(c)
      BY <1>1 DEF Seen
    <2>2. QED BY <1>1, <2>1, SameReport DEF IInv, ReportInv, history
  <1>8. BatchFits(c)'
    <2>1. InBatch(c)' \subseteq InBatch(c)
      BY <1>1 DEF InBatch
    <2>2. QED BY <2>1, BatchShrinks
  <1>9. QED BY <1>2, <1>3, <1>4, <1>5, <1>6, <1>7, <1>8, AloneIInv

(* A committed transaction: what it deleted is gone for everybody.         *)
LEMMA CommitIInv ==
    ASSUME IInv, NEW c \in Cleaner, Commit(c) \/ CommitUnanswered(c)
    PROVE  IInv'
  <1> DEFINE gone == tx[c].users
  <1>1. /\ pc[c] = "inTx" /\ batch[c] = {} /\ Apply(c)
        /\ pc' = [pc EXCEPT ![c] = "between"]
        /\ batch' = [batch EXCEPT ![c] = {}]
        /\ current' = [current EXCEPT ![c] = {}]
        /\ tx' = [tx EXCEPT ![c] = EmptyTx]
        /\ UNCHANGED <<expiredUsers, todo>>
    BY DEF Commit, CommitUnanswered, EndBatch, Nobody
  <1>2. /\ status' = [u \in User |-> IF u \in gone THEN "GONE" ELSE status[u]]
        /\ contacts' = [u \in User |-> contacts[u] /\ u \notin gone \cup tx[c].contacts]
        /\ request' = [q \in Request |->
                          IF request[q] # "none" /\ {ContractorOf[q], OwnerOf[q]} \cap gone # {}
                          THEN "ERASED" ELSE request[q]]
        /\ removedBy' = [u \in User |-> IF u \in gone /\ Exists(u) THEN {c} ELSE removedBy[u]]
        /\ activated' = activated \ gone
        /\ late' = {q \in late : request'[q] # "ERASED"}
        /\ expired' = expired
    BY <1>1 DEF Apply
  <1>3. /\ current[c] = {} /\ tx[c].contacts = gone /\ gone \in SUBSET User
        /\ EmptyTx \in [users : SUBSET User, contacts : SUBSET User]
        /\ EmptyTx.users = {} /\ EmptyTx.contacts = {}
    BY <1>1 DEF IInv, RunShape, TypeOK, EmptyTx
  <1>4. /\ tx'[c] = EmptyTx /\ current'[c] = {} /\ batch'[c] = {} /\ pc'[c] = "between"
        /\ \A d \in Cleaner \ {c} :
              /\ pc'[d] = pc[d] /\ batch'[d] = batch[d] /\ current'[d] = current[d]
              /\ tx'[d] = tx[d]
    BY <1>1 DEF IInv, TypeOK
  <1>5. /\ \A d \in Cleaner \ {c} : report'[d] = report[d]
        /\ report'[c].deleted = report[c].deleted /\ report'[c].skipped = report[c].skipped
        /\ \/ report'[c].errors = report[c].errors
           \/ report'[c].errors = report[c].errors + 1
        /\ report' \in [Cleaner -> [deleted : Nat, skipped : Nat, errors : Nat]]
    BY OneMoreError DEF Commit, CommitUnanswered, IInv, TypeOK
  <1>6. failures' \in 0..MaxFailures
    BY CleanupConstants DEF Commit, CommitUnanswered, Failure, IInv, TypeOK
  <1>7. TypeOK'
    <2>1. /\ status' \in [User -> UserStatus] /\ contacts' \in [User -> BOOLEAN]
          /\ request' \in [Request -> RequestStatus] /\ expired' \in [User -> BOOLEAN]
          /\ removedBy' \in [User -> SUBSET Cleaner]
          /\ activated' \in SUBSET User /\ late' \in SUBSET Request
      BY <1>2 DEF IInv, TypeOK, UserStatus, RequestStatus
    <2>2. /\ pc' \in [Cleaner -> Phase] /\ expiredUsers' \in [Cleaner -> SUBSET User]
          /\ todo' \in [Cleaner -> SUBSET User] /\ batch' \in [Cleaner -> SUBSET User]
          /\ current' \in [Cleaner -> SUBSET User]
          /\ tx' \in [Cleaner -> [users : SUBSET User, contacts : SUBSET User]]
      BY <1>1, <1>3 DEF IInv, TypeOK, Phase
    <2>3. QED BY <1>5, <1>6, <2>1, <2>2 DEF TypeOK
  <1>8. RunShape' /\ IdsApart'
    BY <1>1, <1>3, <1>4 DEF IInv, RunShape, IdsApart
  <1>9. \A u \in User : Exists(u)' <=> Exists(u) /\ u \notin gone
    BY <1>2 DEF Exists
  <1>10. WholeAccounts' /\ RemovedInv'
    BY <1>2, <1>3, <1>9 DEF IInv, TypeOK, WholeAccounts, RemovedInv, Nobody
  <1>11. PartiesInv'
    BY <1>2, <1>9, CleanupConstants DEF IInv, PartiesInv
  <1>12. ActiveInv'
    BY <1>1, <1>2, <1>3, <1>4 DEF IInv, ActiveInv, Chosen
  <1>13. CountInv'
    BY <1>2, <1>3, <1>4 DEF IInv, CountInv, OpenRequest
  <1>14. ReportInv'
    <2> SUFFICES ASSUME NEW d \in Cleaner, Undisturbed(d)' PROVE ReportHolds(d)'
      BY DEF ReportInv, ReportHolds
    <2>1. Seen(d)' = Seen(d)
      BY <1>1, <1>3, <1>4 DEF Seen
    <2>2. /\ report'[d].deleted = report[d].deleted /\ report'[d].skipped = report[d].skipped
          /\ \/ report'[d].errors = report[d].errors
             \/ report'[d].errors = report[d].errors + 1
          /\ Undisturbed(d) /\ Decided(d)' = Decided(d)
      <3>1. CASE d = c
        <4>2. \A u \in expiredUsers[c] : removedBy[u] \in {Nobody, {c}}
          BY <1>1, <1>2, <3>1 DEF Undisturbed, IInv, TypeOK, RemovedInv
        <4>3. gone \subseteq expiredUsers[c]
          BY DEF IInv, IdsApart
        <4>4. \A u \in expiredUsers[c] :
                 removedBy'[u] = {c} <=> removedBy[u] = {c} \/ u \in gone
          BY <1>2, <4>2 DEF IInv, TypeOK, RemovedInv
        <4>5. Decided(c)' = Decided(c)
          BY <1>1, <1>3, <1>4, <4>3, <4>4 DEF Decided, Removed
        <4>6. QED BY <1>5, <3>1, <4>2, <4>5 DEF Undisturbed
      <3>2. CASE d # c
        <4>1. \A u \in expiredUsers[d] : removedBy'[u] = removedBy[u]
          <5> SUFFICES ASSUME NEW u \in expiredUsers[d], removedBy'[u] # removedBy[u]
                       PROVE  FALSE
            OBVIOUS
          <5>1. u \in User /\ removedBy'[u] \in {{}, {d}}
            BY <1>1 DEF Undisturbed, Nobody, IInv, TypeOK
          <5>2. removedBy'[u] = {c}
            BY <1>2, <5>1
          <5>3. {c} # {} /\ {c} # {d}
            BY <3>2
          <5>4. QED BY <5>1, <5>2, <5>3
        <4>2. report'[d] = report[d] /\ tx'[d] = tx[d]
          BY <1>4, <1>5, <3>2
        <4>3. QED BY <1>1, <4>1, <4>2 DEF Undisturbed, Decided, Removed
      <3>3. QED BY <3>1, <3>2
    <2>3. Slack(d) \in Nat /\ Slack(d)' \in Nat /\ Slack(d) <= Slack(d)'
      BY <2>2, SlackGrows
    <2>4. /\ Cardinality(Decided(d)) \in Nat /\ Cardinality(Seen(d) \ Decided(d)) \in Nat
          /\ report[d].deleted \in Nat /\ report[d].skipped \in Nat
      <3>1. Decided(d) \in SUBSET User /\ Seen(d) \ Decided(d) \in SUBSET User
        BY DEF Decided, Removed, Seen, IInv, TypeOK
      <3>2. QED BY <3>1, CountIds DEF IInv, TypeOK
    <2>5. /\ Decided(d) \subseteq Seen(d)
          /\ Within(Cardinality(Decided(d)), report[d].deleted, Slack(d))
          /\ Within(report[d].skipped, Cardinality(Seen(d) \ Decided(d)), Slack(d))
      BY <2>2 DEF ReportHolds, IInv, ReportInv
    <2>6. /\ Within(Cardinality(Decided(d)), report'[d].deleted, Slack(d)')
          /\ Within(report'[d].skipped, Cardinality(Seen(d) \ Decided(d)), Slack(d)')
      BY <2>2, <2>3, <2>4, <2>5 DEF Within
    <2>7. QED BY <2>1, <2>2, <2>5, <2>6 DEF ReportHolds
  <1>15. BatchInv'
    <2> SUFFICES ASSUME NEW d \in Cleaner PROVE BatchFits(d)'
      BY DEF BatchInv
    <2>1. InBatch(d)' \subseteq InBatch(d)
      BY <1>3, <1>4 DEF InBatch
    <2>2. QED BY <2>1, BatchShrinks
  <1>16. QED BY <1>7, <1>8, <1>10, <1>11, <1>12, <1>13, <1>14, <1>15 DEF IInv

-----------------------------------------------------------------------------
LEMMA NextIInv == ASSUME IInv, [Next]_vars PROVE IInv'
  <1>1. CASE Api
    BY <1>1, ApiIInv
  <1>2. CASE \E c \in Cleaner : Scan(c)
    BY <1>2, ScanIInv
  <1>3. CASE \E c \in Cleaner : Work(c)
    <2> PICK c \in Cleaner : Work(c)
      BY <1>3
    <2>1. CASE DeadlockVictim(c)
      <3>1. current[c] # {}
        BY <2>1 DEF DeadlockVictim, WaitsFor
      <3>2. pc[c] \in {"inTx", "counted", "contactsDeleted"}
        BY <3>1 DEF IInv, RunShape
      <3>3. Rollback(c) /\ failures' \in 0..MaxFailures
        BY <2>1 DEF DeadlockVictim, IInv, TypeOK
      <3>4. QED BY <3>2, <3>3, RollbackIInv
    <2>2. QED
      BY <2>1, StartBatchIInv, CommitIInv, FinishIInv, SkipIInv, CountIInv,
         DeleteContactsIInv, DeleteUserIInv DEF Work
  <1>4. CASE \E c \in Cleaner : CommitUnanswered(c) \/ Abort(c)
    BY <1>4, CommitIInv, AbortIInv
  <1>5. CASE \E c \in Cleaner : BatchFails(c)
    <2> PICK c \in Cleaner : BatchFails(c)
      BY <1>5
    <2>1. failures' \in 0..MaxFailures
      BY CleanupConstants DEF BatchFails, Failure, IInv, TypeOK
    <2>2. QED BY <2>1, RollbackIInv DEF BatchFails
  <1>6. CASE UNCHANGED vars
    <2> USE <1>6 DEF vars, db, run, history
    <2>1. TypeOK' BY DEF IInv, TypeOK
    <2>2. RunShape' /\ IdsApart' BY DEF IInv, RunShape, IdsApart
    <2>3. WholeAccounts' /\ RemovedInv' /\ PartiesInv'
      BY DEF IInv, WholeAccounts, RemovedInv, PartiesInv, Exists
    <2>4. ActiveInv' /\ CountInv'
      BY DEF IInv, ActiveInv, CountInv, Chosen, OpenRequest
    <2>5. ReportInv' /\ BatchInv'
      BY DEF IInv, ReportInv, ReportHolds, Undisturbed, Decided, Removed, Seen, Slack, Within,
             BatchInv, BatchFits, InBatch
    <2>6. QED BY <2>1, <2>2, <2>3, <2>4, <2>5 DEF IInv
  <1>7. QED BY <1>1, <1>2, <1>3, <1>4, <1>5, <1>6 DEF Next

(* The inductive invariant holds in every reachable state.                 *)
THEOREM Invariance == Spec => []IInv
  <1>1. IInv /\ [Next]_vars => IInv'
    BY NextIInv
  <1>2. QED BY InitIInv, <1>1, PTL DEF Spec

(* The variables have their types.                                         *)
THEOREM TypeCorrect == Spec => []TypeOK
  <1>1. IInv => TypeOK
    BY DEF IInv
  <1>2. QED BY Invariance, <1>1, PTL

(* However many runs overlap and wherever a batch, a COMMIT or a pod fails, *)
(* an account and its contact rows are committed, or kept, together.        *)
THEOREM AccountsStayWhole == Spec => []WholeAccounts
  <1>1. IInv => WholeAccounts
    BY DEF IInv
  <1>2. QED BY Invariance, <1>1, PTL

(* The counters of a finished run are the numbers of ids it removed and     *)
(* left, if no other run removed one of them, to within one batch for each  *)
(* error: too many deleted, too few skipped, never the other way round.     *)
THEOREM ReportMatches == Spec => []ReportMatchesDatabase
  <1>1. IInv => ReportMatchesDatabase
    <2> SUFFICES ASSUME IInv, NEW c \in Cleaner, pc[c] = "done", Undisturbed(c)
                 PROVE  /\ Within(Cardinality(Removed(c)), report[c].deleted, Slack(c))
                        /\ Within(report[c].skipped, Cardinality(expiredUsers[c] \ Removed(c)),
                                  Slack(c))
      BY DEF ReportMatchesDatabase, Undisturbed, Removed, Within, Slack
    <2>1. tx[c].users = {} /\ batch[c] = {} /\ current[c] = {} /\ todo[c] = {}
      BY DEF IInv, RunShape, EmptyTx
    <2>2. Seen(c) = expiredUsers[c] /\ Decided(c) = Removed(c)
      BY <2>1 DEF Seen, Decided
    <2>3. QED BY <2>2 DEF IInv, ReportInv, ReportHolds
  <1>2. QED BY Invariance, <1>1, PTL

(* The step that makes an account GONE is the COMMIT of a run that deleted it. *)
LEMMA OnlyCommitErases ==
    ASSUME IInv, [Next]_vars, NEW u \in User, Exists(u), status'[u] = "GONE"
    PROVE  \E c \in Cleaner : u \in tx[c].users
  <1>1. ASSUME UNCHANGED status PROVE FALSE
    BY <1>1 DEF Exists
  <1>2. ASSUME Api PROVE FALSE
    <2>1. CASE \E v \in User, s \in {"PENDING", "ACTIVE"} : UpdateStatus(v, s)
      BY <2>1 DEF UpdateStatus, Exists, IInv, TypeOK
    <2>2. QED BY <1>1, <1>2, <2>1 DEF Api, Expire, CreateRequest, MoveRequest
  <1>3. ASSUME NEW c \in Cleaner, Commit(c) \/ CommitUnanswered(c) PROVE u \in tx[c].users
    BY <1>3 DEF Commit, CommitUnanswered, Apply, Exists
  <1>4. ASSUME NEW c \in Cleaner, StartBatch(c) \/ Scan(c) \/ Finish(c) PROVE FALSE
    BY <1>1, <1>4 DEF StartBatch, Takes, Scan, Reads, Finish, db
  <1>5. ASSUME NEW c \in Cleaner, DeadlockVictim(c) \/ BatchFails(c) \/ Abort(c) PROVE FALSE
    BY <1>1, <1>5 DEF DeadlockVictim, BatchFails, Rollback, Abort, db
  <1>6. ASSUME NEW c \in Cleaner, NEW v \in User,
               Skip(c, v) \/ Count(c, v) \/ DeleteContacts(c, v) \/ DeleteUser(c, v)
        PROVE  FALSE
    BY <1>1, <1>6 DEF Skip, Count, LooksAt, DeleteContacts, DeleteUser, db
  <1>7. CASE UNCHANGED vars
    BY <1>1, <1>7 DEF vars, db
  <1>8. QED BY <1>2, <1>3, <1>4, <1>5, <1>6, <1>7 DEF Next, Work

(* No run erases an account that was ACTIVE when the run read its ids: an   *)
(* ACTIVE account that goes became ACTIVE afterwards.                       *)
THEOREM ActiveAccountsKept == Spec => ActiveErasedOnlyIfLate
  <1>1. ASSUME IInv, [Next]_vars, NEW u \in User, status[u] = "ACTIVE", status'[u] = "GONE"
        PROVE  u \in activated
    BY <1>1, OnlyCommitErases DEF IInv, ActiveInv, Exists
  <1>2. IInv /\ [Next]_vars =>
           [\A u \in User : status[u] = "ACTIVE" /\ status'[u] = "GONE" => u \in activated]_vars
    BY <1>1
  <1>3. QED BY Invariance, <1>2, PTL DEF Spec, ActiveErasedOnlyIfLate

(* An erased contractor takes an open request along only if that request    *)
(* opened after a run had counted none.                                     *)
THEOREM OpenRequestsKept == Spec => CountedRequestsSurvive
  <1>1. ASSUME IInv, [Next]_vars, NEW q \in Request,
               OpenRequest(q), status'[ContractorOf[q]] = "GONE"
        PROVE  q \in late
    <2>1. Exists(ContractorOf[q]) /\ ContractorOf[q] \in User
      BY <1>1, CleanupConstants DEF IInv, PartiesInv, OpenRequest
    <2>2. PICK c \in Cleaner : ContractorOf[q] \in tx[c].users
      BY <1>1, <2>1, OnlyCommitErases
    <2>3. QED BY <1>1, <2>2 DEF IInv, CountInv
  <1>2. IInv /\ [Next]_vars =>
           [\A q \in Request :
               OpenRequest(q) /\ status'[ContractorOf[q]] = "GONE" => q \in late]_vars
    BY <1>1
  <1>3. QED BY Invariance, <1>2, PTL DEF Spec, CountedRequestsSurvive

=============================================================================
