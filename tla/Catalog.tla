------------------------------- MODULE Catalog -------------------------------
(***************************************************************************)
(* The category module of the API: the admin calls that create, update and *)
(* hide a category, each of which drops the cached list afterwards, and    *)
(* the public list, which answers from Redis and fills the cache when it   *)
(* is empty.  The calls run side by side; every await is a step.           *)
(***************************************************************************)
EXTENDS Naturals, FiniteSets

CONSTANTS
    Category,   \* rows of the table (their uuids)
    Slug,       \* the values of the unique column slug
    Admin,      \* admin calls in progress at once
    Reader,     \* list calls in progress at once
    Keep,       \* "no slug in the body" of an update
    NoList,     \* the key api:categories is not set
    MaxEdits,   \* bound: calls that may change the table
    MaxFaults   \* bound: deletions of the key that may not happen

ASSUME KeepAssumption == Keep \notin Slug
ASSUME BoundsAssumption == MaxEdits \in Nat /\ MaxFaults \in Nat

VARIABLES
    cat,        \* the table: a row per stored category
    cache,      \* the list under the key api:categories, with its TTL, or NoList
    call,       \* per admin: the call in progress
    reader,     \* per reader: the list call in progress
    edits,      \* calls begun so far
    faults,     \* deletions that did not happen so far
    excused     \* history: why the cached list may be old, see Del, LoseDel and Set

tables == <<cat, edits>>
vars == <<cat, cache, call, reader, edits, faults, excused>>

-------------------------------------------------------------------------------
Absent == [stored |-> FALSE]

Stored(c) == cat[c].stored

(* findBySlug: hidden categories keep their slug.                          *)
Taken(s) == \E c \in Category : Stored(c) /\ cat[c].slug = s

TakenByAnother(s, d) == \E c \in Category \ {d} : Stored(c) /\ cat[c].slug = s

(* listActive.                                                             *)
Active == {c \in Category : Stored(c) /\ cat[c].isActive}

Listing == [c \in Active |-> [slug |-> cat[c].slug, rev |-> cat[c].rev]]

(* The cached list is not the one the table gives.                         *)
Old == cache # NoList /\ cache.list # Listing

Idle == [op |-> "none", at |-> "idle", on |-> Keep, slug |-> Keep]

At(step) == [at |-> step, seen |-> NoList, overtaken |-> FALSE]

Row == [stored : {TRUE}, slug : Slug, rev : Nat, isActive : BOOLEAN]

List == UNION {[S -> [slug : Slug, rev : Nat]] : S \in SUBSET Category}

Call == [op : {"none", "create", "update", "hide"}, at : {"idle", "slug", "write", "del"},
         on : Category \cup {Keep}, slug : Slug \cup {Keep}]

ListCall == [at : {"idle", "list", "set"}, seen : List \cup {NoList}, overtaken : BOOLEAN]

TypeOK ==
    /\ cat \in [Category -> Row \cup {Absent}]
    /\ cache \in {NoList} \cup [list : List, ttl : BOOLEAN]
    /\ call \in [Admin -> Call]
    /\ reader \in [Reader -> ListCall]
    /\ edits \in 0..MaxEdits
    /\ faults \in 0..MaxFaults
    /\ excused \in BOOLEAN

Init ==
    /\ cat = [c \in Category |-> Absent]
    /\ cache = NoList
    /\ call = [a \in Admin |-> Idle]
    /\ reader = [r \in Reader |-> At("idle")]
    /\ edits = 0 /\ faults = 0
    /\ excused = FALSE

-------------------------------------------------------------------------------
(* The admin calls                                                         *)

Goes(a, at) == call' = [call EXCEPT ![a].at = at]

Ends(a) == call' = [call EXCEPT ![a] = Idle]

Begins(a, c) ==
    /\ call[a] = Idle
    /\ edits < MaxEdits
    /\ edits' = edits + 1
    /\ call' = [call EXCEPT ![a] = c]
    /\ UNCHANGED <<cat, cache, reader, faults, excused>>

(* A create whose slug findBySlug does not know.                           *)
BeginCreate(a, s) ==
    /\ ~Taken(s)
    /\ Begins(a, [op |-> "create", at |-> "write", on |-> Keep, slug |-> s])

(* An update of a category that findById knows; a slug other than the one  *)
(* it has is looked up next.                                               *)
BeginUpdate(a, c, s) ==
    /\ Stored(c)
    /\ LET at == IF s # Keep /\ s # cat[c].slug THEN "slug" ELSE "write"
       IN  Begins(a, [op |-> "update", at |-> at, on |-> c, slug |-> s])

BeginHide(a, c) ==
    /\ Stored(c)
    /\ Begins(a, [op |-> "hide", at |-> "write", on |-> c, slug |-> Keep])

CheckSlug(a) ==
    /\ call[a].at = "slug"
    /\ IF Taken(call[a].slug) THEN Ends(a) ELSE Goes(a, "write")
    /\ UNCHANGED <<tables, cache, reader, faults, excused>>

\* A mutated table without the unique index of the slug.
InsertUnindexed(a) ==
    /\ call[a].at = "write" /\ call[a].op = "create"
    /\ \E c \in {d \in Category : ~Stored(d)} :
          cat' = [cat EXCEPT ![c] = [stored |-> TRUE, slug |-> call[a].slug,
                                     rev |-> 0, isActive |-> TRUE]]
    /\ Goes(a, "del")
    /\ UNCHANGED <<cache, reader, edits, faults, excused>>

(* The unique index answers a slug that was taken since the check with an  *)
(* error, and the call ends there.                                         *)
Insert(a) ==
    /\ call[a].at = "write" /\ call[a].op = "create"
    /\ \/ /\ ~Taken(call[a].slug)
          /\ \E c \in {d \in Category : ~Stored(d)} :
                cat' = [cat EXCEPT ![c] = [stored |-> TRUE, slug |-> call[a].slug,
                                           rev |-> 0, isActive |-> TRUE]]
          /\ Goes(a, "del")
       \/ Taken(call[a].slug) /\ Ends(a) /\ UNCHANGED cat
    /\ UNCHANGED <<cache, reader, edits, faults, excused>>

(* UPDATE ... WHERE id = ..., then the row is read again for the answer.   *)
Update(a) ==
    LET c == call[a].on
        s == call[a].slug
    IN  /\ call[a].at = "write" /\ call[a].op = "update"
        /\ IF s # Keep /\ TakenByAnother(s, c)
           THEN Ends(a) /\ UNCHANGED cat
           ELSE /\ cat' = [cat EXCEPT ![c].slug = IF s = Keep THEN @ ELSE s,
                                      ![c].rev = @ + 1]
                /\ Goes(a, "del")
        /\ UNCHANGED <<cache, reader, edits, faults, excused>>

\* A mutated delete that leaves the cached list alone.
HideSilently(a) ==
    /\ call[a].at = "write" /\ call[a].op = "hide"
    /\ cat' = [cat EXCEPT ![call[a].on].isActive = FALSE]
    /\ Ends(a)
    /\ UNCHANGED <<cache, reader, edits, faults, excused>>

(* deactivate; no call ever makes a category active again.                 *)
Hide(a) ==
    /\ call[a].at = "write" /\ call[a].op = "hide"
    /\ cat' = [cat EXCEPT ![call[a].on].isActive = FALSE]
    /\ Goes(a, "del")
    /\ UNCHANGED <<cache, reader, edits, faults, excused>>

(* History: a deletion that is over, or lost, has overtaken the readers    *)
(* that hold a list older than the table.                                  *)
Overtake ==
    reader' = [r \in Reader |->
                  IF reader[r].at = "set"
                  THEN [reader[r] EXCEPT !.overtaken = @ \/ reader[r].seen # Listing]
                  ELSE reader[r]]

(* del({ key }).                                                           *)
Del(a) ==
    /\ call[a].at = "del"
    /\ cache' = NoList
    /\ excused' = FALSE
    /\ Overtake
    /\ Ends(a)
    /\ UNCHANGED <<tables, faults>>

(* The deletion fails, which .catch(() => null) hides, or the pod dies     *)
(* before it.                                                              *)
LoseDel(a) ==
    /\ call[a].at = "del"
    /\ faults < MaxFaults
    /\ faults' = faults + 1
    /\ excused' = (excused \/ Old)
    /\ Overtake
    /\ Ends(a)
    /\ UNCHANGED <<tables, cache>>

-------------------------------------------------------------------------------
(* The list                                                                *)

(* get finds no list; one that it finds is the answer.                     *)
Miss(r) ==
    /\ reader[r].at = "idle"
    /\ cache = NoList
    /\ reader' = [reader EXCEPT ![r] = At("list")]
    /\ UNCHANGED <<tables, cache, call, faults, excused>>

ListActive(r) ==
    /\ reader[r].at = "list"
    /\ reader' = [reader EXCEPT ![r] = [at |-> "set", seen |-> Listing, overtaken |-> FALSE]]
    /\ UNCHANGED <<tables, cache, call, faults, excused>>

\* A mutated set without its ttlInSeconds.
SetForever(r) ==
    /\ reader[r].at = "set"
    /\ cache' = [list |-> reader[r].seen, ttl |-> FALSE]
    /\ excused' = reader[r].overtaken
    /\ reader' = [reader EXCEPT ![r] = At("idle")]
    /\ UNCHANGED <<tables, call, faults>>

(* set({ value, ttlInSeconds }) stores the list whatever happened since.   *)
Set(r) ==
    /\ reader[r].at = "set"
    /\ cache' = [list |-> reader[r].seen, ttl |-> TRUE]
    /\ excused' = reader[r].overtaken
    /\ reader' = [reader EXCEPT ![r] = At("idle")]
    /\ UNCHANGED <<tables, call, faults>>

(* set is not caught: the call answers with an error and nothing is kept.  *)
SetFails(r) ==
    /\ reader[r].at = "set"
    /\ reader' = [reader EXCEPT ![r] = At("idle")]
    /\ UNCHANGED <<tables, cache, call, faults, excused>>

(* The five minutes of the entry are over.                                 *)
Expire ==
    /\ cache # NoList
    /\ cache.ttl
    /\ cache' = NoList
    /\ excused' = FALSE
    /\ UNCHANGED <<tables, call, reader, faults>>

(* The endpoints of CategoryController that change a category.             *)
AdminCalls(a) ==
    \/ \E s \in Slug : BeginCreate(a, s)
    \/ \E c \in Category, s \in Slug \cup {Keep} : BeginUpdate(a, c, s)
    \/ \E c \in Category : BeginHide(a, c)

Continues(a) ==
    CheckSlug(a) \/ Insert(a) \/ Update(a) \/ Hide(a) \/ Del(a) \/ LoseDel(a)

Lists(r) == Miss(r) \/ ListActive(r) \/ Set(r) \/ SetFails(r)

Next ==
    \/ \E a \in Admin : AdminCalls(a) \/ Continues(a)
    \/ \E r \in Reader : Lists(r)
    \/ Expire

Spec == Init /\ [][Next]_vars

(* A call that has begun goes on, and Redis drops an entry whose time is   *)
(* over.  Nobody has to call.                                              *)
Fairness ==
    /\ \A a \in Admin : WF_vars(Continues(a))
    /\ \A r \in Reader : WF_vars(ListActive(r) \/ Set(r) \/ SetFails(r))
    /\ WF_vars(Expire)

FairSpec == Spec /\ Fairness

-------------------------------------------------------------------------------
(* Properties                                                              *)

(* However the check of one create or update falls between the check and   *)
(* the write of another, no two categories, hidden ones included, have one *)
(* slug.                                                                   *)
SlugsStayUnique ==
    \A c, d \in Category : c # d /\ Stored(c) /\ Stored(d) => cat[c].slug # cat[d].slug

(* A cached list that is not the table's has one of three causes: a call   *)
(* has written and not yet deleted the key, its deletion was lost, or a    *)
(* reader set the list after a deletion that came between its read and its *)
(* set.                                                                    *)
OldOnlyIfLostOrOvertaken ==
    Old => excused \/ \E a \in Admin : call[a].at = "del"

(* Once the admins stop, the list settles on what the table holds, through *)
(* lost deletions and readers that were overtaken.                         *)
ListSettles == <>[](~Old)
===============================================================================
