------------------------------ MODULE Accounts ------------------------------
(***************************************************************************)
(* The use cases of the API about an account and what hangs on it: the     *)
(* user, the provider profile and the services it offers (with the catalog *)
(* they come from), the documents with their files in the bucket, and the  *)
(* statistics over all of them.                                            *)
(* The calls run side by side; every await is a step.                      *)
(***************************************************************************)
EXTENDS Integers, FiniteSets

CONSTANTS
    User,       \* rows of users (their uuids)
    Login,      \* Keycloak ids
    Nobody,     \* no Keycloak id in the body of a create, no user
    Doc,        \* documents: the row and the object named for it
    Caller,     \* calls in progress at once
    MaxCalls,   \* bound: calls
    MaxFaults   \* bound: calls that end because their pod dies

ASSUME NobodyAssumption == Nobody \notin Login \cup User
ASSUME UsersAssumption == IsFiniteSet(User)
ASSUME BoundsAssumption == MaxCalls \in Nat /\ MaxFaults \in Nat

VARIABLES
    user,       \* users: status and keycloak_id, "none" before and "erased" after
    profile,    \* users with a row in provider_profiles
    listed,     \* the one service of the model has its row in services
    offers,     \* rows of provider_services for that service, per profile
    doc,        \* documents: status and owner
    bucket,     \* objects in the bucket
    call,       \* per caller: the call in progress
    calls,      \* calls begun so far
    faults,     \* calls ended by the death of their pod so far
    rivals,     \* history: decisions under way when a document's first verdict was written
    late,       \* history: decisions written after the first verdict
    overlap,    \* history: profiles for which two calls were past the look for a service
    disturbed,  \* history: accounts that came or went during the count of a call
    wrong       \* history: a count was wrong by more than those

history == <<rivals, late, overlap, disturbed, wrong>>
rows == <<user, profile, listed, offers, doc, bucket>>
vars == <<rows, call, calls, faults, history>>

-------------------------------------------------------------------------------
Idle == [op |-> "none", at |-> "idle", on |-> Nobody, to |-> Nobody]

Statuses == {"PENDING", "ACTIVE", "DELETED"}

Verdicts == {"APPROVED", "REJECTED"}

Exists(u) == user[u].status \in Statuses

(* keycloak_id is unique where it is not NULL.                             *)
TakenLogin(l) == l # Nobody /\ \E u \in User : Exists(u) /\ user[u].login = l

Users == {u \in User : Exists(u)}

(* Calls of op that have done their checks on x.                           *)
Past(op, x) == {c \in Caller : call[c].op = op /\ call[c].on = x /\ call[c].at = "write"}

Call == [op : {"none", "create", "update", "register", "list", "relist", "offer",
               "withdraw", "upload", "decide", "stats"},
         at : {"idle", "put", "write"},
         on : User \cup Doc \cup Login \cup {Nobody} \cup 0..Cardinality(User),
         to : User \cup Statuses \cup Verdicts \cup {Nobody}]

TypeOK ==
    /\ user \in [User -> [status : Statuses \cup {"none", "erased"}, login : Login \cup {Nobody}]]
    /\ profile \subseteq User
    /\ listed \in BOOLEAN
    /\ offers \in [User -> Nat]
    /\ doc \in [Doc -> [status : {"none", "PENDING", "erased"} \cup Verdicts,
                        owner : User \cup {Nobody}]]
    /\ bucket \subseteq Doc
    /\ call \in [Caller -> Call]
    /\ calls \in 0..MaxCalls
    /\ faults \in 0..MaxFaults
    /\ rivals \in [Doc -> SUBSET Caller] /\ late \in [Doc -> SUBSET Caller]
    /\ overlap \subseteq User /\ disturbed \in [Caller -> Nat] /\ wrong \in BOOLEAN

Init ==
    /\ user = [u \in User |-> [status |-> "none", login |-> Nobody]]
    /\ profile = {}
    /\ listed \in BOOLEAN
    /\ offers = [u \in User |-> 0]
    /\ doc = [d \in Doc |-> [status |-> "none", owner |-> Nobody]]
    /\ bucket = {}
    /\ call = [c \in Caller |-> Idle]
    /\ calls = 0 /\ faults = 0
    /\ rivals = [d \in Doc |-> {}] /\ late = [d \in Doc |-> {}]
    /\ overlap = {} /\ disturbed = [c \in Caller |-> 0] /\ wrong = FALSE

-------------------------------------------------------------------------------
Begins(c, op, at, x, to) ==
    /\ call[c] = Idle
    /\ calls < MaxCalls
    /\ calls' = calls + 1
    /\ call' = [call EXCEPT ![c] = [op |-> op, at |-> at, on |-> x, to |-> to]]
    /\ UNCHANGED <<rows, faults>>

At(c, op, at) == call[c].op = op /\ call[c].at = at

Ends(c) == call' = [call EXCEPT ![c] = Idle] /\ UNCHANGED <<calls, faults>>

(* History: an account has come or gone under a running count.             *)
Disturbs ==
    /\ disturbed' = [c \in Caller |->
                        IF At(c, "stats", "write") THEN disturbed[c] + 1 ELSE disturbed[c]]
    /\ UNCHANGED <<rivals, late, overlap, wrong>>

(* A pod dies with its call.                                               *)
Dies(c) ==
    /\ call[c] # Idle
    /\ faults < MaxFaults
    /\ faults' = faults + 1
    /\ call' = [call EXCEPT ![c] = Idle]
    /\ UNCHANGED <<rows, calls, history>>

-------------------------------------------------------------------------------
(* Users                                                                   *)

(* A body without a Keycloak id is not checked.                            *)
BeginCreate(c, l) ==
    /\ ~TakenLogin(l)
    /\ Begins(c, "create", "write", l, Nobody)
    /\ UNCHANGED history

(* The unique index of keycloak_id refuses a second row.                   *)
InsertUser(c) ==
    /\ At(c, "create", "write")
    /\ \/ /\ ~TakenLogin(call[c].on)
          /\ \E u \in User, s \in Statuses \ {"DELETED"} :
                /\ user[u].status = "none"
                /\ user' = [user EXCEPT ![u] = [status |-> s, login |-> call[c].on]]
          /\ Disturbs
       \/ TakenLogin(call[c].on) /\ UNCHANGED <<user, history>>
    /\ Ends(c)
    /\ UNCHANGED <<profile, listed, offers, doc, bucket>>

(* Updating a user, and deleting one, which is an update to DELETED.       *)
BeginUpdate(c, u, s) ==
    /\ Exists(u)
    /\ Begins(c, "update", "write", u, s)
    /\ UNCHANGED history

UpdateUser(c) ==
    /\ At(c, "update", "write")
    /\ user' = IF Exists(call[c].on)
               THEN [user EXCEPT ![call[c].on].status = call[c].to] ELSE user
    /\ Ends(c)
    /\ UNCHANGED <<profile, listed, offers, doc, bucket, history>>

(* The account cleanup erases a PENDING account and what refers to it; the *)
(* bucket is left alone.  Its steps are those of AccountCleanup.           *)
Erase(u) ==
    /\ user[u].status = "PENDING"
    /\ user' = [user EXCEPT ![u] = [status |-> "erased", login |-> Nobody]]
    /\ profile' = profile \ {u}
    /\ offers' = [offers EXCEPT ![u] = 0]
    /\ doc' = [d \in Doc |-> IF doc[d].owner = u THEN [doc[d] EXCEPT !.status = "erased"]
                             ELSE doc[d]]
    /\ Disturbs
    /\ UNCHANGED <<listed, bucket, call, calls, faults>>

\* A mutated count that leaves deleted accounts out, which the join does not.
CountUndeleted == Cardinality({u \in User : user[u].status \in {"PENDING", "ACTIVE"}})

(* getStats: the accounts, in whatever status, and then those with a       *)
(* profile.                                                                *)
CountUsers == Cardinality(Users)

BeginStats(c) ==
    /\ Begins(c, "stats", "write", CountUsers, Nobody)
    /\ disturbed' = [disturbed EXCEPT ![c] = 0]
    /\ UNCHANGED <<rivals, late, overlap, wrong>>

Stats(c) ==
    LET customers == call[c].on - Cardinality(profile)
        right     == Cardinality(Users \ profile)
        within    == customers - disturbed[c] <= right /\ right <= customers + disturbed[c]
    IN  /\ At(c, "stats", "write")
        /\ wrong' = (wrong \/ ~within)
        /\ Ends(c)
        /\ UNCHANGED <<rows, rivals, late, overlap, disturbed>>

-------------------------------------------------------------------------------
(* Providers; the verification that a registration inserts as well is part *)
(* of ProviderVerification.                                                *)

(* Whether there is such a user is left to the foreign key.                *)
BeginRegister(c, u) ==
    /\ u \notin profile
    /\ Begins(c, "register", "write", u, Nobody)
    /\ UNCHANGED history

(* user_id is unique, and refers to a user.                                *)
InsertProfile(c) ==
    /\ At(c, "register", "write")
    /\ IF Exists(call[c].on) /\ call[c].on \notin profile
       THEN profile' = profile \cup {call[c].on}
       ELSE UNCHANGED profile
    /\ Ends(c)
    /\ UNCHANGED <<user, listed, offers, doc, bucket, history>>

\* A mutated use case without findProviderService.
BeginOfferUnchecked(c, u) ==
    /\ u \in profile
    /\ Begins(c, "offer", "write", u, Nobody)
    /\ UNCHANGED history

BeginOffer(c, u) ==
    /\ u \in profile /\ offers[u] = 0
    /\ Begins(c, "offer", "write", u, Nobody)
    /\ UNCHANGED history

(* provider_services has no unique index: whoever is past the check gets   *)
(* its row, if the service is one of the catalog.  History: another call   *)
(* was past it as well.                                                    *)
Offer(c) ==
    LET u == call[c].on
    IN  /\ At(c, "offer", "write")
        /\ offers' = IF u \in profile /\ listed THEN [offers EXCEPT ![u] = @ + 1] ELSE offers
        /\ overlap' = IF Past("offer", u) = {c} THEN overlap ELSE overlap \cup {u}
        /\ Ends(c)
        /\ UNCHANGED <<user, profile, listed, doc, bucket, rivals, late, disturbed, wrong>>

BeginWithdraw(c, u) ==
    /\ u \in profile /\ offers[u] > 0
    /\ Begins(c, "withdraw", "write", u, Nobody)
    /\ UNCHANGED history

(* DELETE ... WHERE provider_id = ... AND service_id = ...                 *)
Withdraw(c) ==
    LET u == call[c].on
    IN  /\ At(c, "withdraw", "write")
        /\ offers' = [offers EXCEPT ![u] = 0]
        /\ overlap' = IF Past("offer", u) = {} THEN overlap \ {u} ELSE overlap
        /\ Ends(c)
        /\ UNCHANGED <<user, profile, listed, doc, bucket, rivals, late, disturbed, wrong>>

-------------------------------------------------------------------------------
(* The catalog of services.  Both calls look for the category first (the   *)
(* update only when the body names one); categories are never removed.     *)

BeginCreateService(c) == Begins(c, "list", "write", Nobody, Nobody) /\ UNCHANGED history

InsertService(c) ==
    /\ At(c, "list", "write")
    /\ listed' \in {listed, TRUE}   \* another service, or the one of the model
    /\ Ends(c)
    /\ UNCHANGED <<user, profile, offers, doc, bucket, history>>

BeginUpdateService(c) ==
    /\ listed
    /\ Begins(c, "relist", "write", Nobody, Nobody)
    /\ UNCHANGED history

(* The row is written, whatever it holds by now, and read again.           *)
UpdateService(c) ==
    /\ At(c, "relist", "write")
    /\ Ends(c)
    /\ UNCHANGED <<rows, history>>

-------------------------------------------------------------------------------
(* Documents                                                               *)

(* The controller has found the user of the call; without a login in the   *)
(* header, findOne has no condition and finds any.                         *)
BeginUpload(c, u, d) ==
    /\ Exists(u)
    /\ doc[d].status = "none" /\ d \notin bucket
    /\ \A e \in Caller : call[e].on # d
    /\ Begins(c, "upload", "put", d, u)
    /\ UNCHANGED history

\* A mutated upload that goes on when the storage refuses the file.
PutUnchecked(c) ==
    /\ At(c, "upload", "put")
    /\ \/ bucket' = bucket \cup {call[c].on}
       \/ bucket' = bucket
    /\ call' = [call EXCEPT ![c].at = "write"]
    /\ UNCHANGED <<user, profile, listed, offers, doc, calls, faults, history>>

(* putObject: the object is in the bucket under the name of its document.  *)
Uploaded(d) == bucket' = bucket \cup {d}

(* storage.upload; an error ends the call, with the object stored or not.  *)
Put(c) ==
    /\ At(c, "upload", "put")
    /\ \/ /\ Uploaded(call[c].on)
          /\ call' = [call EXCEPT ![c].at = "write"]
          /\ UNCHANGED <<calls, faults>>
       \/ (Uploaded(call[c].on) \/ UNCHANGED bucket) /\ Ends(c)
    /\ UNCHANGED <<user, profile, listed, offers, doc, history>>

(* The row refers to its user; one that has been erased is an error.       *)
InsertDocument(c) ==
    /\ At(c, "upload", "write")
    /\ doc' = IF Exists(call[c].to)
              THEN [doc EXCEPT ![call[c].on] = [status |-> "PENDING", owner |-> call[c].to]]
              ELSE doc
    /\ Ends(c)
    /\ UNCHANGED <<user, profile, listed, offers, bucket, history>>

\* A mutated approval or rejection that does not look at the status.
BeginDecideUnchecked(c, d, v) ==
    /\ doc[d].status \notin {"none", "erased"}
    /\ Begins(c, "decide", "write", d, v)
    /\ UNCHANGED history

(* approve and reject.                                                     *)
BeginDecide(c, d, v) ==
    /\ doc[d].status = "PENDING"
    /\ Begins(c, "decide", "write", d, v)
    /\ UNCHANGED history

(* UPDATE ... WHERE id = ...  History: with the first verdict, the calls   *)
(* that have found the document PENDING as well; later, those that write.  *)
Decide(c) ==
    LET d == call[c].on
    IN  /\ At(c, "decide", "write")
        /\ IF doc[d].status = "erased"
           THEN UNCHANGED <<doc, rivals, late>>
           ELSE /\ doc' = [doc EXCEPT ![d].status = call[c].to]
                /\ IF doc[d].status = "PENDING"
                   THEN /\ rivals' = [rivals EXCEPT ![d] = Past("decide", d) \ {c}]
                        /\ UNCHANGED late
                   ELSE /\ late' = [late EXCEPT ![d] = @ \cup {c}]
                        /\ UNCHANGED rivals
        /\ Ends(c)
        /\ UNCHANGED <<user, profile, listed, offers, bucket, overlap, disturbed, wrong>>

-------------------------------------------------------------------------------
(* The endpoints of UserController that change or count something; the     *)
(* cache key users:list, which create drops as well, is read by nobody.    *)
UserCalls(c) ==
    \/ \E l \in Login \cup {Nobody} : BeginCreate(c, l)
    \/ \E u \in User, s \in Statuses : BeginUpdate(c, u, s)
    \/ BeginStats(c)

(* Those of ProviderController about the profile and its services.         *)
ProviderCalls(c) ==
    \E u \in User : BeginRegister(c, u) \/ BeginOffer(c, u) \/ BeginWithdraw(c, u)

(* Those of ServiceController.                                             *)
ServiceCalls(c) == BeginCreateService(c) \/ BeginUpdateService(c)

DocumentCalls(c) ==
    \E d \in Doc :
       \/ \E u \in User : BeginUpload(c, u, d)
       \/ \E v \in Verdicts : BeginDecide(c, d, v)

Continues(c) ==
    \/ InsertUser(c) \/ UpdateUser(c) \/ Stats(c) \/ InsertProfile(c)
    \/ InsertService(c) \/ UpdateService(c)
    \/ Offer(c) \/ Withdraw(c) \/ Put(c) \/ InsertDocument(c) \/ Decide(c)

Next ==
    \/ \E c \in Caller :
          \/ UserCalls(c) \/ ProviderCalls(c) \/ ServiceCalls(c) \/ DocumentCalls(c)
          \/ Continues(c) \/ Dies(c)
    \/ \E u \in User : Erase(u)

Spec == Init /\ [][Next]_vars

-------------------------------------------------------------------------------
(* Properties                                                              *)

(* Every stored document has its file, through failing uploads, dying pods *)
(* and erased owners; and the row goes with its owner.  The converse does  *)
(* not hold: a file may be left without a row.                             *)
DocumentsHaveFiles ==
    \A d \in Doc :
        doc[d].status \in {"PENDING"} \cup Verdicts => d \in bucket /\ Exists(doc[d].owner)

(* A verdict on a document is overwritten only by a call that had found    *)
(* the document PENDING before that verdict was written.                   *)
VerdictStandsUnlessRivalled == \A d \in Doc : late[d] \subseteq rivals[d]

(* A provider has one service twice only after two calls that were both    *)
(* past the look for the first row, and only until it withdraws it.        *)
OfferedTwiceOnlyByOverlap == \A u \in User : offers[u] > 1 => u \in overlap

(* The statistics come from two counts.  The number of customers they give *)
(* is that of the accounts without a profile, whatever their status and    *)
(* whoever registers between the two; it is off by no more than the        *)
(* accounts that came or went in between, and exact when none did.         *)
StatsOffByComersAndGoers == ~wrong
=============================================================================
