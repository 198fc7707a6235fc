---------------------------- MODULE CopiesProofs ----------------------------
(***************************************************************************)
(* Theorems of the components that keep or give an account of what the     *)
(* tables hold: Catalog, whose list of categories is cached in Redis;      *)
(* Ratings, whose averages are stored with the profiles; and the exit code *)
(* of Schema's migration script.  For any number of categories, admins and *)
(* readers, of reviews, providers and runs, of calls of the script.        *)
(***************************************************************************)
EXTENDS Catalog, FiniteSetTheorems, TLAPS

(* The constants and variables of Ratings; no two of the components share  *)
(* any.                                                                    *)
CONSTANTS Review, Provider, ProviderOf, RatingOf, Announced, Run, BatchSize, MaxFailures

VARIABLES profile, review, stored, news, snap, busy, rows, todo, batch, result, dirty,
          outdated, failures

R == INSTANCE Ratings

(* Those of Schema; its rows are called flaws here.                        *)
CONSTANTS Runners, Releases

VARIABLES db, done, flaws, run

Sch == INSTANCE Schema WITH rows <- flaws

-----------------------------------------------------------------------------
(* Catalog.                                                                *)

(* What a call in progress is about; nothing removes a category.           *)
CallShape ==
    \A a \in Admin :
       /\ call[a].at = "slug" => call[a].op = "update"
       /\ call[a].op = "create" => call[a].slug \in Slug
       /\ call[a].op \in {"update", "hide"} => call[a].on \in Category /\ Stored(call[a].on)

(* A reader that is about to store an old list has been overtaken by a     *)
(* deletion, or one is still to come.                                      *)
ReadersKnown ==
    \A r \in Reader :
       reader[r].at = "set" =>
          /\ reader[r].seen \in List
          /\ \/ reader[r].seen = Listing \/ reader[r].overtaken
             \/ \E a \in Admin : call[a].at = "del"

IInv ==
    /\ TypeOK /\ CallShape /\ SlugsStayUnique
    /\ ReadersKnown /\ OldOnlyIfLostOrOvertaken

-----------------------------------------------------------------------------
LEMMA InitIInv == Init => IInv
  <1> SUFFICES ASSUME Init PROVE IInv
    OBVIOUS
  <1> USE DEF Init, Idle, At, Absent
  <1>1. TypeOK
    <2>1. /\ call \in [Admin -> Call] /\ reader \in [Reader -> ListCall]
      BY DEF Call, ListCall
    <2>2. edits \in 0..MaxEdits /\ faults \in 0..MaxFaults
      BY BoundsAssumption
    <2>3. QED BY <2>1, <2>2 DEF TypeOK
  <1>2. CallShape BY DEF CallShape
  <1>3. SlugsStayUnique BY DEF SlugsStayUnique, Stored
  <1>4. ReadersKnown BY DEF ReadersKnown
  <1>5. OldOnlyIfLostOrOvertaken BY DEF OldOnlyIfLostOrOvertaken, Old
  <1>6. QED BY <1>1, <1>2, <1>3, <1>4, <1>5 DEF IInv

(* A call that goes on keeps its operation, its category and its slug.     *)
LEMMA GoesShape ==
    ASSUME TypeOK, NEW a \in Admin, NEW at \in {"idle", "slug", "write", "del"}, Goes(a, at)
    PROVE  /\ call' \in [Admin -> Call]
           /\ call'[a].at = at
           /\ \A b \in Admin : /\ call'[b].op = call[b].op /\ call'[b].on = call[b].on
                                /\ call'[b].slug = call[b].slug
           /\ \A b \in Admin \ {a} : call'[b] = call[b]
  <1> DEFINE O == {"none", "create", "update", "hide"}
             T == {"idle", "slug", "write", "del"}
             C == Category \cup {Keep}
             S == Slug \cup {Keep}
  <1>1. call \in [Admin -> [op : O, at : T, on : C, slug : S]]
    BY DEF TypeOK, Call
  <1>2. at \in T
    OBVIOUS
  <1> HIDE DEF O, T, C, S
  <1>3. call' = [call EXCEPT ![a] = [call[a] EXCEPT !.at = at]]
    BY <1>1 DEF Goes
  <1>4. call[a] \in [op : O, at : T, on : C, slug : S]
    BY <1>1
  <1>5. [call[a] EXCEPT !.at = at]
           = [op |-> call[a].op, at |-> at, on |-> call[a].on, slug |-> call[a].slug]
    BY <1>4
  <1>6. call' = [call EXCEPT ![a] = [op |-> call[a].op, at |-> at,
                                     on |-> call[a].on, slug |-> call[a].slug]]
    BY <1>3, <1>5
  <1>7. QED
    BY <1>1, <1>2, <1>4, <1>6 DEF O, T, C, S, Call

(* A call that begins or ends, with the tables and the cache as they were. *)
LEMMA CallMovesIInv ==
    ASSUME IInv, NEW a \in Admin, NEW k \in Call, call' = [call EXCEPT ![a] = k],
           call[a].at # "del", edits' \in 0..MaxEdits,
           k.at = "slug" => k.op = "update",
           k.op = "create" => k.slug \in Slug,
           k.op \in {"update", "hide"} => k.on \in Category /\ Stored(k.on),
           UNCHANGED <<cat, cache, reader, faults, excused>>
    PROVE  IInv'
  <1>1. /\ call' \in [Admin -> Call] /\ call'[a] = k
        /\ \A b \in Admin \ {a} : call'[b] = call[b]
    BY DEF IInv, TypeOK
  <1> USE <1>1 DEF IInv
  <1>2. Listing' = Listing
    BY DEF Listing, Active, Stored
  <1>3. TypeOK' BY DEF TypeOK
  <1>4. CallShape' BY DEF CallShape, Stored
  <1>5. SlugsStayUnique' BY DEF SlugsStayUnique, Stored
  <1>6. ReadersKnown' BY <1>2 DEF ReadersKnown
  <1>7. OldOnlyIfLostOrOvertaken' BY <1>2 DEF OldOnlyIfLostOrOvertaken, Old
  <1>8. QED BY <1>3, <1>4, <1>5, <1>6, <1>7

(* The fields of a row that an update or a hide leaves alone.              *)
LEMMA RowShape ==
    ASSUME NEW w \in Row, NEW s, NEW n, NEW b
    PROVE  /\ [[w EXCEPT !.slug = s] EXCEPT !.rev = n]
                = [stored |-> w.stored, slug |-> s, rev |-> n, isActive |-> w.isActive]
           /\ [w EXCEPT !.isActive = b]
                = [stored |-> w.stored, slug |-> w.slug, rev |-> w.rev, isActive |-> b]
           /\ w.stored = TRUE /\ w.slug \in Slug /\ w.rev \in Nat /\ w.isActive \in BOOLEAN
  <1> DEFINE A == {TRUE}
             B == Slug
             C == Nat
             D == BOOLEAN
  <1>1. w \in [stored : A, slug : B, rev : C, isActive : D]
    BY DEF Row
  <1> HIDE DEF A, B, C, D
  <1>2. w.stored \in A /\ w.slug \in B /\ w.rev \in C /\ w.isActive \in D
    BY <1>1
  <1>3. [[w EXCEPT !.slug = s] EXCEPT !.rev = n]
           = [stored |-> w.stored, slug |-> s, rev |-> n, isActive |-> w.isActive]
    <2>1. [w EXCEPT !.slug = s]
             = [stored |-> w.stored, slug |-> s, rev |-> w.rev, isActive |-> w.isActive]
      BY <1>1
    <2>2. [[stored |-> w.stored, slug |-> s, rev |-> w.rev, isActive |-> w.isActive] EXCEPT !.rev = n]
             = [stored |-> w.stored, slug |-> s, rev |-> n, isActive |-> w.isActive]
      OBVIOUS
    <2>3. QED BY <2>1, <2>2
  <1>4. [w EXCEPT !.isActive = b]
           = [stored |-> w.stored, slug |-> w.slug, rev |-> w.rev, isActive |-> b]
    BY <1>1
  <1>5. QED BY <1>2, <1>3, <1>4, Zenon DEF A, B, C, D

(* A row made of fields of the right types.                                *)
LEMMA RowType ==
    ASSUME NEW w \in Row, NEW s \in Slug, NEW n \in Nat, NEW b \in BOOLEAN
    PROVE  /\ [stored |-> w.stored, slug |-> s, rev |-> n, isActive |-> b] \in Row
           /\ [stored |-> w.stored, slug |-> s, rev |-> n, isActive |-> b].stored = TRUE
           /\ [stored |-> w.stored, slug |-> s, rev |-> n, isActive |-> b].slug = s
  <1>1. w.stored = TRUE
    BY RowShape
  <1>2. QED BY <1>1, Zenon DEF Row

(* One row is replaced by another.                                         *)
LEMMA RowReplaced ==
    ASSUME TypeOK, NEW c \in Category, NEW w \in Row, cat' = [cat EXCEPT ![c] = w]
    PROVE  /\ cat' \in [Category -> Row \cup {Absent}]
           /\ cat'[c] = w
           /\ \A d \in Category \ {c} : cat'[d] = cat[d]
  BY DEF TypeOK

(* A write, after which its call has the key to delete.                    *)
LEMMA WritesIInv ==
    ASSUME IInv, NEW a \in Admin, Goes(a, "del"),
           cat' \in [Category -> Row \cup {Absent}],
           \A c \in Category : Stored(c) => Stored(c)',
           SlugsStayUnique',
           UNCHANGED <<cache, reader, edits, faults, excused>>
    PROVE  IInv'
  <1>1. /\ call' \in [Admin -> Call] /\ call'[a].at = "del"
        /\ \A b \in Admin : /\ call'[b].op = call[b].op /\ call'[b].on = call[b].on
                             /\ call'[b].slug = call[b].slug
        /\ \A b \in Admin \ {a} : call'[b] = call[b]
    BY GoesShape DEF IInv
  <1> USE <1>1 DEF IInv
  <1>2. TypeOK' BY DEF TypeOK
  <1>3. CallShape' BY DEF CallShape
  <1>4. ReadersKnown' BY DEF ReadersKnown
  <1>5. OldOnlyIfLostOrOvertaken' BY DEF OldOnlyIfLostOrOvertaken
  <1>6. QED BY <1>2, <1>3, <1>4, <1>5

LEMMA InsertIInv ==
    ASSUME IInv, NEW a \in Admin, Insert(a)
    PROVE  IInv'
  <1>s. call[a].slug \in Slug
    BY DEF IInv, CallShape, Insert
  <1>1. ASSUME NEW c \in Category, ~Taken(call[a].slug), ~Stored(c), Goes(a, "del"),
               cat' = [cat EXCEPT ![c] = [stored |-> TRUE, slug |-> call[a].slug,
                                          rev |-> 0, isActive |-> TRUE]]
        PROVE  IInv'
    <2>1. /\ cat' \in [Category -> Row \cup {Absent}]
          /\ cat'[c].stored /\ cat'[c].slug = call[a].slug
          /\ \A d \in Category \ {c} : cat'[d] = cat[d]
      BY <1>s, <1>1 DEF IInv, TypeOK, Row
    <2>2. SlugsStayUnique'
      BY <1>1, <2>1 DEF IInv, SlugsStayUnique, Stored, Taken
    <2>3. \A d \in Category : Stored(d) => Stored(d)'
      BY <2>1 DEF Stored
    <2>4. QED BY <1>1, <2>1, <2>2, <2>3, WritesIInv DEF Insert
  <1>2. ASSUME Ends(a), UNCHANGED cat PROVE IInv'
    <2>1. Idle \in Call
      BY DEF Idle, Call
    <2>2. QED BY <1>2, <2>1, CallMovesIInv DEF Insert, Ends, Idle, IInv, TypeOK
  <1>3. QED BY <1>1, <1>2 DEF Insert

LEMMA UpdateIInv ==
    ASSUME IInv, NEW a \in Admin, Update(a)
    PROVE  IInv'
  <1> DEFINE c == call[a].on
             s == call[a].slug
             slug == IF s = Keep THEN cat[c].slug ELSE s
  <1>0. /\ c \in Category /\ Stored(c) /\ s \in Slug \cup {Keep}
        /\ cat \in [Category -> Row \cup {Absent}] /\ cat[c] \in Row
    BY DEF IInv, CallShape, Update, TypeOK, Call, Stored, Absent
  <1>1. CASE s # Keep /\ TakenByAnother(s, c)
    <2>1. Idle \in Call
      BY DEF Idle, Call
    <2>2. QED BY <1>1, <2>1, CallMovesIInv DEF Update, Ends, Idle, IInv, TypeOK
  <1>2. CASE ~(s # Keep /\ TakenByAnother(s, c))
    <2>1. /\ Goes(a, "del")
          /\ cat' = [cat EXCEPT ![c].slug = IF s = Keep THEN @ ELSE s, ![c].rev = @ + 1]
          /\ UNCHANGED <<cache, reader, edits, faults, excused>>
      BY <1>2 DEF Update
    <2> DEFINE w == [stored |-> cat[c].stored, slug |-> slug, rev |-> cat[c].rev + 1,
                     isActive |-> cat[c].isActive]
    <2>2. cat' = [cat EXCEPT ![c] = w]
      <3>1. cat' = [cat EXCEPT ![c] = [[cat[c] EXCEPT !.slug = slug] EXCEPT !.rev = cat[c].rev + 1]]
        BY <1>0, <2>1
      <3> HIDE DEF slug, c, s
      <3>2. [[cat[c] EXCEPT !.slug = slug] EXCEPT !.rev = cat[c].rev + 1] = w
        BY <1>0, RowShape, Zenon
      <3> HIDE DEF w
      <3>3. QED BY <3>1, <3>2
    <2>3. slug \in Slug /\ slug = IF s = Keep THEN cat[c].slug ELSE s
      BY <1>0, RowShape
    <2>4. /\ cat' \in [Category -> Row \cup {Absent}]
          /\ cat'[c].stored /\ cat'[c].slug = slug
          /\ \A d \in Category \ {c} : cat'[d] = cat[d]
      <3> HIDE DEF slug, c, s
      <3>1. cat[c].rev \in Nat /\ cat[c].isActive \in BOOLEAN
        BY <1>0, RowShape, Zenon
      <3>a. cat[c].rev + 1 \in Nat
        BY <3>1
      <3>2. w \in Row /\ w.stored = TRUE /\ w.slug = slug
        BY <1>0, <2>3, <3>1, <3>a, RowType, Zenon
      <3> HIDE DEF w
      <3>3. QED BY <1>0, <2>2, <3>2, RowReplaced DEF IInv
    <2> HIDE DEF slug, c, s
    <2>5. \A d \in Category : Stored(d) => Stored(d)'
      BY <2>4 DEF Stored
    <2>6. \A d \in Category \ {c} : Stored(d) => cat[d].slug # slug
      BY <1>0, <1>2, <2>3 DEF IInv, SlugsStayUnique, TakenByAnother
    <2>7. SlugsStayUnique'
      BY <1>0, <2>4, <2>6 DEF IInv, SlugsStayUnique, Stored
    <2>8. QED BY <2>1, <2>4, <2>5, <2>7, WritesIInv
  <1>3. QED BY <1>1, <1>2

LEMMA HideIInv ==
    ASSUME IInv, NEW a \in Admin, Hide(a)
    PROVE  IInv'
  <1> DEFINE c == call[a].on
  <1>0. /\ c \in Category /\ Stored(c)
        /\ cat \in [Category -> Row \cup {Absent}] /\ cat[c] \in Row
    BY DEF IInv, CallShape, Hide, TypeOK, Stored, Absent
  <1> DEFINE w == [stored |-> cat[c].stored, slug |-> cat[c].slug, rev |-> cat[c].rev,
                   isActive |-> FALSE]
  <1>1. cat' = [cat EXCEPT ![c] = w]
    <2>1. cat' = [cat EXCEPT ![c] = [cat[c] EXCEPT !.isActive = FALSE]]
      BY <1>0 DEF Hide
    <2>2. QED BY <1>0, <2>1, RowShape
  <1> HIDE DEF c
  <1>2. /\ cat' \in [Category -> Row \cup {Absent}]
        /\ cat'[c].stored /\ cat'[c].slug = cat[c].slug
        /\ \A d \in Category \ {c} : cat'[d] = cat[d]
    <2>1. cat[c].slug \in Slug /\ cat[c].rev \in Nat
      BY <1>0, RowShape
    <2>2. w \in Row /\ w.stored = TRUE /\ w.slug = cat[c].slug
      BY <1>0, <2>1, RowType
    <2> HIDE DEF w
    <2>3. QED BY <1>0, <1>1, <2>2, RowReplaced DEF IInv
  <1>3. \A d \in Category : Stored(d) => Stored(d)'
    BY <1>2 DEF Stored
  <1>4. SlugsStayUnique'
    BY <1>0, <1>2 DEF IInv, SlugsStayUnique, Stored
  <1>5. QED BY <1>2, <1>3, <1>4, WritesIInv DEF Hide

(* What the public list answers, as a value the cache may hold.            *)
LEMMA ListingType == IInv => Listing \in List
  <1> SUFFICES ASSUME IInv PROVE Listing \in List
    OBVIOUS
  <1>1. Active \in SUBSET Category
    BY DEF Active
  <1>2. \A c \in Active : [slug |-> cat[c].slug, rev |-> cat[c].rev] \in [slug : Slug, rev : Nat]
    <2>1. \A c \in Active : c \in Category /\ cat[c] \in Row
      BY DEF Active, IInv, TypeOK, Stored, Absent
    <2>2. QED BY <2>1 DEF Row
  <1>3. Listing \in [Active -> [slug : Slug, rev : Nat]]
    BY <1>2 DEF Listing
  <1>4. QED BY <1>1, <1>3 DEF List

(* A deletion that is over or lost.                                        *)
LEMMA DeletionIInv ==
    ASSUME IInv, NEW a \in Admin, Del(a) \/ LoseDel(a)
    PROVE  IInv'
  <1>0. /\ Overtake /\ call' = [call EXCEPT ![a] = Idle] /\ UNCHANGED <<cat, edits>>
        /\ \/ cache' = NoList /\ excused' = FALSE /\ UNCHANGED faults
           \/ cache' = cache /\ excused' = (excused \/ Old) /\ faults' \in 0..MaxFaults
    BY BoundsAssumption DEF Del, LoseDel, Ends, tables, IInv, TypeOK
  <1>1. Listing' = Listing
    BY <1>0 DEF Listing, Active, Stored
  <1>2. /\ call' \in [Admin -> Call] /\ call'[a] = Idle
        /\ \A b \in Admin \ {a} : call'[b] = call[b]
    BY <1>0 DEF IInv, TypeOK, Call, Idle
  <1>3. /\ reader' \in [Reader -> ListCall]
        /\ \A r \in Reader : reader'[r].at = "set" =>
              /\ reader[r].at = "set" /\ reader'[r].seen = reader[r].seen
              /\ reader'[r].overtaken \/ reader'[r].seen = Listing
    <2> DEFINE T == {"idle", "list", "set"}
               L == List \cup {NoList}
    <2>1. reader \in [Reader -> [at : T, seen : L, overtaken : BOOLEAN]]
      BY DEF IInv, TypeOK, ListCall
    <2> HIDE DEF T, L
    <2>2. \A r \in Reader :
             [reader[r] EXCEPT !.overtaken = @ \/ reader[r].seen # Listing]
               = [at |-> reader[r].at, seen |-> reader[r].seen,
                  overtaken |-> reader[r].overtaken \/ reader[r].seen # Listing]
      BY <2>1
    <2>3. reader' = [r \in Reader |->
             IF reader[r].at = "set"
             THEN [at |-> reader[r].at, seen |-> reader[r].seen,
                   overtaken |-> reader[r].overtaken \/ reader[r].seen # Listing]
             ELSE reader[r]]
      BY <1>0, <2>2 DEF Overtake
    <2>4. \A r \in Reader : reader'[r] \in [at : T, seen : L, overtaken : BOOLEAN]
      BY <2>1, <2>3
    <2>5. reader' \in [Reader -> [at : T, seen : L, overtaken : BOOLEAN]]
      BY <2>3, <2>4
    <2>6. \A r \in Reader : reader'[r].at = "set" =>
              /\ reader[r].at = "set" /\ reader'[r].seen = reader[r].seen
              /\ reader'[r].overtaken \/ reader'[r].seen = Listing
      BY <2>1, <2>3
    <2>7. QED BY <2>5, <2>6 DEF T, L, ListCall
  <1>4. excused' \in BOOLEAN
    BY <1>0 DEF IInv, TypeOK
  <1>5. TypeOK'
    BY <1>0, <1>2, <1>3, <1>4 DEF IInv, TypeOK
  <1>6. CallShape' /\ SlugsStayUnique'
    BY <1>0, <1>2 DEF IInv, CallShape, SlugsStayUnique, Stored, Idle
  <1>7. ReadersKnown'
    BY <1>1, <1>3 DEF IInv, ReadersKnown
  <1>8. OldOnlyIfLostOrOvertaken'
    BY <1>0, <1>1 DEF OldOnlyIfLostOrOvertaken, Old
  <1>9. QED BY <1>5, <1>6, <1>7, <1>8 DEF IInv

(* The steps of a reader, and the end of the entry's five minutes.         *)
LEMMA ReaderIInv ==
    ASSUME IInv,
           \/ \E r \in Reader : Miss(r) \/ ListActive(r) \/ Set(r) \/ SetFails(r)
           \/ Expire
    PROVE  IInv'
  <1>0. UNCHANGED <<cat, edits, call, faults>>
    BY DEF Miss, ListActive, Set, SetFails, Expire, tables
  <1>1. Listing' = Listing
    BY <1>0 DEF Listing, Active, Stored
  <1>2. CallShape' /\ SlugsStayUnique'
    BY <1>0 DEF IInv, CallShape, SlugsStayUnique, Stored
  <1>l. Listing \in List
    BY ListingType
  <1> USE <1>0, <1>1 DEF IInv
  <1>3. ASSUME NEW r \in Reader, NEW k \in ListCall, reader' = [reader EXCEPT ![r] = k],
               k.at = "set" => k.seen = Listing /\ k.seen \in List, UNCHANGED <<cache, excused>>
        PROVE  IInv'
    <2>1. /\ reader' \in [Reader -> ListCall] /\ reader'[r] = k
          /\ \A q \in Reader \ {r} : reader'[q] = reader[q]
      BY <1>3 DEF TypeOK
    <2>2. TypeOK' BY <1>3, <2>1 DEF TypeOK
    <2>3. ReadersKnown' BY <1>3, <2>1 DEF ReadersKnown
    <2>4. OldOnlyIfLostOrOvertaken' BY <1>3 DEF OldOnlyIfLostOrOvertaken, Old
    <2>5. QED BY <1>2, <2>2, <2>3, <2>4
  <1>4. ASSUME NEW r \in Reader, Miss(r) \/ ListActive(r) \/ SetFails(r) PROVE IInv'
    <2>1. At("idle") \in ListCall /\ At("list") \in ListCall
      BY DEF At, ListCall
    <2>2. [at |-> "set", seen |-> Listing, overtaken |-> FALSE] \in ListCall
      BY <1>l DEF ListCall
    <2>3. QED BY <1>l, <1>3, <1>4, <2>1, <2>2 DEF Miss, ListActive, SetFails, At
  <1>5. ASSUME NEW r \in Reader, Set(r) PROVE IInv'
    <2>1. At("idle") \in ListCall
      BY DEF At, ListCall
    <2>2. /\ reader' \in [Reader -> ListCall] /\ reader'[r] = At("idle")
          /\ \A q \in Reader \ {r} : reader'[q] = reader[q]
      BY <1>5, <2>1 DEF Set, TypeOK
    <2>3. /\ cache' = [list |-> reader[r].seen, ttl |-> TRUE] /\ excused' = reader[r].overtaken
          /\ reader[r].at = "set" /\ reader[r] \in ListCall
      BY <1>5 DEF Set, TypeOK
    <2>4. reader[r].seen \in List
      BY <2>3 DEF ReadersKnown
    <2>5. TypeOK' BY <2>2, <2>3, <2>4 DEF TypeOK, ListCall
    <2>6. ReadersKnown' BY <2>2 DEF ReadersKnown, At
    <2>7. OldOnlyIfLostOrOvertaken' BY <2>3 DEF OldOnlyIfLostOrOvertaken, Old, ReadersKnown
    <2>8. QED BY <1>2, <2>5, <2>6, <2>7
  <1>6. ASSUME Expire PROVE IInv'
    BY <1>2, <1>6 DEF Expire, TypeOK, ReadersKnown, OldOnlyIfLostOrOvertaken, Old
  <1>7. QED BY <1>4, <1>5, <1>6

LEMMA NextIInv == IInv /\ [Next]_vars => IInv'
  <1> SUFFICES ASSUME IInv, [Next]_vars PROVE IInv'
    OBVIOUS
  <1>i. Idle \in Call
    BY DEF Idle, Call
  <1>1. ASSUME NEW a \in Admin, NEW s \in Slug, BeginCreate(a, s) PROVE IInv'
    <2> DEFINE k == [op |-> "create", at |-> "write", on |-> Keep, slug |-> s]
    <2>1. k \in Call BY DEF Call
    <2>2. call[a].at # "del" /\ edits' \in 0..MaxEdits
      BY <1>1, BoundsAssumption DEF BeginCreate, Begins, Idle, IInv, TypeOK
    <2>3. QED BY <1>1, <2>1, <2>2, CallMovesIInv DEF BeginCreate, Begins
  <1>2. ASSUME NEW a \in Admin, NEW c \in Category, NEW s \in Slug \cup {Keep}, BeginUpdate(a, c, s)
        PROVE  IInv'
    <2> DEFINE at == IF s # Keep /\ s # cat[c].slug THEN "slug" ELSE "write"
               k == [op |-> "update", at |-> at, on |-> c, slug |-> s]
    <2>1. k \in Call BY DEF Call
    <2>2. call[a].at # "del" /\ edits' \in 0..MaxEdits
      BY <1>2, BoundsAssumption DEF BeginUpdate, Begins, Idle, IInv, TypeOK
    <2>3. QED BY <1>2, <2>1, <2>2, CallMovesIInv DEF BeginUpdate, Begins
  <1>3. ASSUME NEW a \in Admin, NEW c \in Category, BeginHide(a, c) PROVE IInv'
    <2> DEFINE k == [op |-> "hide", at |-> "write", on |-> c, slug |-> Keep]
    <2>1. k \in Call BY DEF Call
    <2>2. call[a].at # "del" /\ edits' \in 0..MaxEdits
      BY <1>3, BoundsAssumption DEF BeginHide, Begins, Idle, IInv, TypeOK
    <2>3. QED BY <1>3, <2>1, <2>2, CallMovesIInv DEF BeginHide, Begins
  <1>4. ASSUME NEW a \in Admin, CheckSlug(a) PROVE IInv'
    <2>1. /\ call[a].at = "slug" /\ UNCHANGED <<tables, cache, reader, faults, excused>>
          /\ Ends(a) \/ Goes(a, "write")
      BY <1>4 DEF CheckSlug
    <2>2. CASE Ends(a)
      BY <1>i, <2>1, <2>2, CallMovesIInv DEF Ends, Idle, tables, IInv, TypeOK
    <2>3. CASE Goes(a, "write")
      <3>1. /\ call' \in [Admin -> Call]
            /\ call'[a].at = "write"
            /\ \A b \in Admin : /\ call'[b].op = call[b].op /\ call'[b].on = call[b].on
                                 /\ call'[b].slug = call[b].slug
            /\ \A b \in Admin \ {a} : call'[b] = call[b]
        BY <2>3, GoesShape DEF IInv
      <3>2. Listing' = Listing
        BY <2>1 DEF Listing, Active, Stored, tables
      <3>3. \A b \in Admin : call[b].at = "del" <=> call'[b].at = "del"
        BY <2>1, <3>1
      <3> USE <2>1, <3>1 DEF IInv, tables
      <3>4. TypeOK' BY DEF TypeOK
      <3>5. CallShape' /\ SlugsStayUnique' BY DEF CallShape, SlugsStayUnique, Stored
      <3>6. ReadersKnown' BY <3>2, <3>3 DEF ReadersKnown
      <3>7. OldOnlyIfLostOrOvertaken' BY <3>2, <3>3 DEF OldOnlyIfLostOrOvertaken, Old
      <3>8. QED BY <3>4, <3>5, <3>6, <3>7
    <2>4. QED BY <2>1, <2>2, <2>3
  <1>5. CASE UNCHANGED vars
    BY <1>5 DEF vars, IInv, TypeOK, CallShape, SlugsStayUnique, Stored, ReadersKnown, Listing,
                Active, OldOnlyIfLostOrOvertaken, Old
  <1>6. QED
    BY <1>1, <1>2, <1>3, <1>4, <1>5, InsertIInv, UpdateIInv, HideIInv, DeletionIInv, ReaderIInv
       DEF Next, AdminCalls, Continues, Lists

(* Every reachable state satisfies the inductive invariant.                *)
THEOREM Invariance == Spec => []IInv
  BY InitIInv, NextIInv, PTL DEF Spec

(* The variables keep their types.                                         *)
THEOREM TypeCorrect == Spec => []TypeOK
  <1>1. IInv => TypeOK BY DEF IInv
  <1>2. QED BY <1>1, Invariance, PTL

(* However checks and writes interleave, no two categories share a slug.   *)
THEOREM SlugsUnique == Spec => []SlugsStayUnique
  <1>1. IInv => SlugsStayUnique BY DEF IInv
  <1>2. QED BY <1>1, Invariance, PTL

(* An old cached list has one of the three causes.                         *)
THEOREM OldHasACause == Spec => []OldOnlyIfLostOrOvertaken
  <1>1. IInv => OldOnlyIfLostOrOvertaken BY DEF IInv
  <1>2. QED BY <1>1, Invariance, PTL

-----------------------------------------------------------------------------
(* Ratings.                                                                *)

(* What an average may be: that of some reviews, rounded or not.           *)
Averages == {R!Average(S) : S \in SUBSET Review} \cup {R!RoundedAverage(S) : S \in SUBSET Review}

RatingTypes ==
    /\ profile \in [Provider -> BOOLEAN]
    /\ review \in [Review -> {"none", "recent", "old", "erased"}]
    /\ stored \in [Provider -> Averages]
    /\ news \in [Review -> {"none", "ready", "read", "done"}]
    /\ snap \in [Review -> Averages]
    /\ busy \in SUBSET Run
    /\ DOMAIN rows = Run
    /\ \A r \in Run : DOMAIN rows[r] \subseteq Provider /\ rows[r] \in [DOMAIN rows[r] -> Averages]
    /\ todo \in [Run -> SUBSET Provider]
    /\ batch \in [Run -> [Provider -> {"none", "find", "update"}]]
    /\ result \in [Run -> [updated : Nat, unchanged : Nat, errors : Nat]]
    /\ dirty \in [Run -> SUBSET Provider]
    /\ outdated \in SUBSET Review

(* A row of a run is waiting, in the batch, or dealt with.                 *)
RowsApart(r) ==
    /\ todo[r] \cup R!InBatch(r) \subseteq DOMAIN rows[r]
    /\ todo[r] \cap R!InBatch(r) = {}
    /\ r \notin busy => rows[r] = R!NoRows

(* The reviews of a provider go with its profile.                          *)
ProfileInv == \A p \in Provider : R!Alive(p) # {} => profile[p]

(* What a statement of the worker has computed is still true, unless the   *)
(* statement is outdated.                                                  *)
SnapInv ==
    \A v \in Review :
       news[v] = "read" /\ v \notin outdated => snap[v] = R!Average(R!Alive(ProviderOf[v]))

(* What a run has read of a provider nobody touched since is still true.   *)
RowsTrue(r) ==
    \A p \in DOMAIN rows[r] \ dirty[r] :
       profile[p] /\ rows[r][p] = R!RoundedAverage(R!Recent(p))

(* A row that a run has dealt with, and nobody has touched, is stored.     *)
RowsWritten(r) ==
    \A p \in DOMAIN rows[r] \ dirty[r] :
       p \notin todo[r] /\ batch[r][p] = "none" => stored[p] = rows[r][p]

RunInv == \A r \in Run : RowsApart(r) /\ RowsTrue(r) /\ RowsWritten(r)

RatingsInv == RatingTypes /\ ProfileInv /\ SnapInv /\ RunInv

(* No average of nothing is 0, and the averages of a provider are averages. *)
LEMMA AnAverage ==
    /\ 0 \in Averages
    /\ \A p \in Provider :
          /\ R!Average(R!Alive(p)) \in Averages
          /\ R!RoundedAverage(R!Recent(p)) \in Averages
  <1>1. R!Average({}) = 0
    BY DEF R!Average
  <1>2. \A p \in Provider : R!Alive(p) \in SUBSET Review /\ R!Recent(p) \in SUBSET Review
    BY DEF R!Alive, R!Recent, R!ReviewsOf
  <1>3. \A S \in SUBSET Review : R!Average(S) \in Averages /\ R!RoundedAverage(S) \in Averages
    BY DEF Averages
  <1>4. QED BY <1>1, <1>2, <1>3

LEMMA InitRatings == R!Init => RatingsInv
  <1> SUFFICES ASSUME R!Init PROVE RatingsInv
    OBVIOUS
  <1>1. /\ DOMAIN R!NoRows = {} /\ R!NoRows \in [DOMAIN R!NoRows -> Averages]
        /\ R!NoCounts \in [updated : Nat, unchanged : Nat, errors : Nat]
    BY DEF R!NoRows, R!NoCounts
  <1>2. RatingTypes
    BY <1>1, AnAverage DEF R!Init, RatingTypes
  <1>3. RunInv
    BY <1>1 DEF R!Init, RunInv, RowsApart, RowsTrue, RowsWritten, R!InBatch
  <1>4. \A p \in Provider : R!Alive(p) = {}
    BY DEF R!Init, R!Alive, R!ReviewsOf
  <1>5. ProfileInv /\ SnapInv
    BY <1>4 DEF R!Init, ProfileInv, SnapInv
  <1>6. QED BY <1>2, <1>3, <1>5 DEF RatingsInv

(* A touch of p is noted by every run of S that has a row of p.            *)
LEMMA Touched ==
    ASSUME RatingsInv, NEW S \in SUBSET busy, NEW p, R!Touches(S, p)
    PROVE  /\ dirty' \in [Run -> SUBSET Provider]
           /\ \A r \in Run : dirty[r] \subseteq dirty'[r] /\ dirty'[r] \subseteq dirty[r] \cup {p}
           /\ \A r \in S : p \in DOMAIN rows[r] => p \in dirty'[r]
  <1>1. /\ dirty \in [Run -> SUBSET Provider] /\ S \subseteq Run
        /\ \A r \in Run : DOMAIN rows[r] \subseteq Provider
    BY DEF RatingsInv, RatingTypes
  <1>2. dirty' = [r \in Run |-> IF r \in S /\ p \in DOMAIN rows[r] THEN dirty[r] \cup {p} ELSE dirty[r]]
    BY DEF R!Touches
  <1>3. QED BY <1>1, <1>2

(* Only runs in progress have rows.                                        *)
LEMMA RowsOfBusy == RatingsInv => \A r \in Run : r \notin busy => DOMAIN rows[r] = {}
  BY DEF RatingsInv, RunInv, RowsApart, R!NoRows

(* Something happens to the reviews or to the profile of p, and to those   *)
(* of nobody else; runs and statements that have read p are noted.         *)
LEMMA WorldMoves ==
    ASSUME RatingsInv, NEW p, R!Touches(busy, p), R!Outdates(p),
           UNCHANGED <<snap, R!recalculator>>,
           profile' \in [Provider -> BOOLEAN], stored' \in [Provider -> Averages],
           review' \in [Review -> {"none", "recent", "old", "erased"}],
           news' \in [Review -> {"none", "ready", "read", "done"}],
           \A q \in Provider \ {p} : profile'[q] = profile[q] /\ stored'[q] = stored[q],
           \A v \in Review : ProviderOf[v] # p => review'[v] = review[v],
           \A v \in Review : news'[v] = "read" => news[v] = "read",
           p \in Provider /\ R!Alive(p)' # {} => profile'[p]
    PROVE  RatingsInv'
  <1>1. /\ UNCHANGED <<snap, busy, rows, todo, batch, result>>
        /\ \A r \in Run : R!InBatch(r)' = R!InBatch(r)
    BY DEF R!recalculator, R!InBatch
  <1>2. /\ dirty' \in [Run -> SUBSET Provider]
        /\ \A r \in Run : dirty[r] \subseteq dirty'[r]
        /\ \A r \in Run : p \in DOMAIN rows[r] => p \in dirty'[r]
    BY Touched, RowsOfBusy
  <1>3. /\ outdated' \subseteq Review /\ outdated \subseteq outdated'
        /\ \A v \in Review : ProviderOf[v] = p /\ news[v] = "read" => v \in outdated'
    BY DEF RatingsInv, RatingTypes, R!Outdates, R!ReviewsOf
  <1>4. \A q \in Provider \ {p} : R!Alive(q)' = R!Alive(q) /\ R!Recent(q)' = R!Recent(q)
    BY DEF R!Alive, R!Recent, R!ReviewsOf
  <1>5. RatingTypes'
    BY <1>1, <1>2, <1>3 DEF RatingsInv, RatingTypes
  <1>6. \A r \in Run : RowsApart(r)'
    BY <1>1 DEF RatingsInv, RunInv, RowsApart, R!NoRows
  <1>7. ProfileInv'
    BY <1>4 DEF RatingsInv, ProfileInv
  <1>8. SnapInv'
    <2> SUFFICES ASSUME NEW v \in Review, news'[v] = "read", v \notin outdated'
                 PROVE  snap'[v] = R!Average(R!Alive(ProviderOf[v]))'
      BY DEF SnapInv
    <2>1. ProviderOf[v] # p /\ news[v] = "read" /\ v \notin outdated
      BY <1>3
    <2>2. R!Alive(ProviderOf[v])' = R!Alive(ProviderOf[v])
      BY <2>1 DEF R!Alive, R!ReviewsOf
    <2>3. QED BY <1>1, <2>1, <2>2 DEF RatingsInv, SnapInv
  <1>9. ASSUME NEW r \in Run, NEW q \in DOMAIN rows'[r] \ dirty'[r]
        PROVE  /\ q \in DOMAIN rows[r] \ dirty[r] /\ q # p /\ q \in Provider
    BY <1>1, <1>2 DEF RatingsInv, RatingTypes
  <1>10. \A r \in Run : RowsTrue(r)'
    BY <1>1, <1>4, <1>9 DEF RatingsInv, RunInv, RowsTrue
  <1>11. \A r \in Run : RowsWritten(r)'
    BY <1>1, <1>9 DEF RatingsInv, RunInv, RowsWritten
  <1>12. QED BY <1>5, <1>6, <1>7, <1>8, <1>10, <1>11 DEF RatingsInv, RunInv

(* One review comes, grows old or is erased.                               *)
LEMMA ReviewMoves ==
    ASSUME RatingsInv, NEW v \in Review, NEW status \in {"recent", "old", "erased"},
           R!Becomes(v, status),
           review[v] # "none" => review[v] \in {"recent", "old"},
           status = "recent" => profile[ProviderOf[v]],
           status = "old" => review[v] = "recent",
           news' \in [Review -> {"none", "ready", "read", "done"}],
           \A w \in Review : news'[w] = "read" => news[w] = "read",
           review[v] = "none" => status = "recent"
    PROVE  RatingsInv'
  <1> DEFINE p == ProviderOf[v]
  <1>1. /\ R!Touches(busy, p) /\ R!Outdates(p)
        /\ UNCHANGED <<snap, R!recalculator, profile, stored>>
        /\ review' = [review EXCEPT ![v] = status]
    BY DEF R!Becomes
  <1>2. /\ review' \in [Review -> {"none", "recent", "old", "erased"}]
        /\ \A w \in Review \ {v} : review'[w] = review[w]
    BY <1>1 DEF RatingsInv, RatingTypes
  <1>3. ASSUME p \in Provider, R!Alive(p)' # {} PROVE profile[p]
    <2>1. PICK w \in Review : ProviderOf[w] = p /\ review'[w] \in {"recent", "old"}
      BY <1>3 DEF R!Alive, R!ReviewsOf
    <2>2. CASE w # v
      <3>1. R!Alive(p) # {}
        BY <1>2, <2>1, <2>2 DEF R!Alive, R!ReviewsOf
      <3>2. QED BY <1>3, <3>1 DEF RatingsInv, ProfileInv
    <2>3. CASE w = v /\ review[v] \in {"recent", "old"}
      <3>1. R!Alive(p) # {}
        BY <2>1, <2>3 DEF R!Alive, R!ReviewsOf
      <3>2. QED BY <1>3, <3>1 DEF RatingsInv, ProfileInv
    <2>4. CASE w = v /\ review[v] = "none"
      BY <2>4
    <2>5. QED BY <2>2, <2>3, <2>4
  <1>4. /\ profile' \in [Provider -> BOOLEAN] /\ stored' \in [Provider -> Averages]
        /\ \A q \in Provider \ {p} : profile'[q] = profile[q] /\ stored'[q] = stored[q]
    BY <1>1 DEF RatingsInv, RatingTypes
  <1>5. \A w \in Review : ProviderOf[w] # p => review'[w] = review[w]
    BY <1>2
  <1>6. p \in Provider /\ R!Alive(p)' # {} => profile'[p]
    BY <1>1, <1>3
  <1> HIDE DEF p
  <1>7. UNCHANGED <<snap, R!recalculator>>
    BY <1>1
  <1>8. R!Touches(busy, p) /\ R!Outdates(p)
    BY <1>1
  <1>9. QED BY <1>2, <1>4, <1>5, <1>6, <1>7, <1>8, WorldMoves

LEMMA CreateRatings ==
    ASSUME RatingsInv, NEW v \in Review, R!Create(v)
    PROVE  RatingsInv'
  <1>1. review[v] = "none" /\ profile[ProviderOf[v]] /\ R!Becomes(v, "recent")
    BY DEF R!Create
  <1>2. /\ news' \in [Review -> {"none", "ready", "read", "done"}]
        /\ \A w \in Review : news'[w] = "read" => news[w] = "read"
    BY DEF R!Create, RatingsInv, RatingTypes
  <1>3. QED BY <1>1, <1>2, ReviewMoves

LEMMA AgeRatings ==
    ASSUME RatingsInv, NEW v \in Review, R!Age(v)
    PROVE  RatingsInv'
  <1>1. review[v] = "recent" /\ R!Becomes(v, "old") /\ news' = news
    BY DEF R!Age
  <1>2. news' \in [Review -> {"none", "ready", "read", "done"}]
    BY <1>1 DEF RatingsInv, RatingTypes
  <1>3. QED BY <1>1, <1>2, ReviewMoves

LEMMA EraseReviewRatings ==
    ASSUME RatingsInv, NEW v \in Review, R!EraseReview(v)
    PROVE  RatingsInv'
  <1>1. review[v] \in {"recent", "old"} /\ R!Becomes(v, "erased") /\ news' = news
    BY DEF R!EraseReview
  <1>2. news' \in [Review -> {"none", "ready", "read", "done"}]
    BY <1>1 DEF RatingsInv, RatingTypes
  <1>3. QED BY <1>1, <1>2, ReviewMoves

LEMMA EraseProviderRatings ==
    ASSUME RatingsInv, NEW p \in Provider, R!EraseProvider(p)
    PROVE  RatingsInv'
  <1>1. /\ R!Touches(busy, p) /\ R!Outdates(p) /\ UNCHANGED <<news, snap, R!recalculator>>
        /\ profile' = [profile EXCEPT ![p] = FALSE] /\ stored' = [stored EXCEPT ![p] = 0]
        /\ review' = [v \in Review |-> IF v \in R!Alive(p) THEN "erased" ELSE review[v]]
    BY DEF R!EraseProvider
  <1>2. /\ profile' \in [Provider -> BOOLEAN] /\ stored' \in [Provider -> Averages]
        /\ \A q \in Provider \ {p} : profile'[q] = profile[q] /\ stored'[q] = stored[q]
    BY <1>1, AnAverage DEF RatingsInv, RatingTypes
  <1>3. /\ review' \in [Review -> {"none", "recent", "old", "erased"}]
        /\ \A v \in Review : ProviderOf[v] # p => review'[v] = review[v]
    BY <1>1 DEF RatingsInv, RatingTypes, R!Alive, R!ReviewsOf
  <1>4. R!Alive(p)' = {}
    <2> SUFFICES ASSUME NEW v \in Review, ProviderOf[v] = p, review'[v] \in {"recent", "old"}
                 PROVE  FALSE
      BY DEF R!Alive, R!ReviewsOf
    <2>1. v \notin R!Alive(p) /\ review'[v] = review[v]
      BY <1>1
    <2>2. QED BY <2>1 DEF R!Alive, R!ReviewsOf
  <1>5. /\ news' \in [Review -> {"none", "ready", "read", "done"}]
        /\ \A v \in Review : news'[v] = "read" => news[v] = "read"
    BY <1>1 DEF RatingsInv, RatingTypes
  <1>6. R!Touches(busy, p) /\ R!Outdates(p) /\ UNCHANGED <<snap, R!recalculator>>
    BY <1>1
  <1>7. QED BY <1>2, <1>3, <1>4, <1>5, <1>6, WorldMoves

(* A statement of the worker goes on, and writes or does not.              *)
LEMMA WorkerMoves ==
    ASSUME RatingsInv, NEW v \in Review, UNCHANGED <<R!world, R!recalculator>>,
           \/ UNCHANGED <<stored, dirty>>
           \/ R!Assign(ProviderOf[v], snap[v]) /\ R!Touches(busy, ProviderOf[v]),
           news' \in [Review -> {"none", "ready", "read", "done"}],
           snap' \in [Review -> Averages], outdated' \subseteq Review,
           \A w \in Review \ {v} :
              /\ news'[w] = news[w] /\ snap'[w] = snap[w]
              /\ w \in outdated => w \in outdated',
           news'[v] = "read" /\ v \notin outdated' =>
              snap'[v] = R!Average(R!Alive(ProviderOf[v]))
    PROVE  RatingsInv'
  <1> DEFINE p == ProviderOf[v]
  <1>1. /\ UNCHANGED <<profile, review, busy, rows, todo, batch, result>>
        /\ \A r \in Run : R!InBatch(r)' = R!InBatch(r)
        /\ \A q : R!Alive(q)' = R!Alive(q) /\ R!Recent(q)' = R!Recent(q)
    BY DEF R!world, R!recalculator, R!InBatch, R!Alive, R!Recent, R!ReviewsOf
  <1>2. /\ stored' \in [Provider -> Averages]
        /\ \A q \in Provider \ {p} : stored'[q] = stored[q]
        /\ dirty' \in [Run -> SUBSET Provider]
        /\ \A r \in Run : dirty[r] \subseteq dirty'[r]
        /\ stored' = stored \/ \A r \in Run : p \in DOMAIN rows[r] => p \in dirty'[r]
    <2>1. CASE UNCHANGED <<stored, dirty>>
      BY <2>1 DEF RatingsInv, RatingTypes
    <2>2. CASE R!Assign(p, snap[v]) /\ R!Touches(busy, p)
      <3>1. snap[v] \in Averages /\ stored \in [Provider -> Averages]
        BY DEF RatingsInv, RatingTypes
      <3>2. stored' \in [Provider -> Averages] /\ \A q \in Provider \ {p} : stored'[q] = stored[q]
        BY <2>2, <3>1 DEF R!Assign
      <3>3. QED BY <2>2, <3>2, Touched, RowsOfBusy
    <2>3. QED BY <2>1, <2>2
  <1>3. RatingTypes'
    BY <1>1, <1>2 DEF RatingsInv, RatingTypes
  <1>4. ProfileInv'
    BY <1>1 DEF RatingsInv, ProfileInv
  <1>5. SnapInv'
    BY <1>1 DEF RatingsInv, SnapInv
  <1>6. ASSUME NEW r \in Run PROVE RowsApart(r)' /\ RowsTrue(r)'
    <2>1. RowsApart(r)'
      BY <1>1 DEF RatingsInv, RunInv, RowsApart, R!NoRows
    <2>2. RowsTrue(r)'
      BY <1>1, <1>2 DEF RatingsInv, RunInv, RowsTrue
    <2>3. QED BY <2>1, <2>2
  <1>7. ASSUME NEW r \in Run PROVE RowsWritten(r)'
    <2> SUFFICES ASSUME NEW q \in DOMAIN rows'[r] \ dirty'[r],
                        q \notin todo'[r], batch'[r][q] = "none"
                 PROVE  stored'[q] = rows'[r][q]
      BY DEF RowsWritten
    <2>1. q \in DOMAIN rows[r] \ dirty[r] /\ q \in Provider
      BY <1>1, <1>2 DEF RatingsInv, RatingTypes
    <2>2. stored[q] = rows[r][q]
      BY <1>1, <2>1 DEF RatingsInv, RunInv, RowsWritten
    <2>3. stored'[q] = stored[q]
      BY <1>1, <1>2, <2>1
    <2>4. QED BY <1>1, <2>2, <2>3
  <1>8. QED BY <1>3, <1>4, <1>5, <1>6, <1>7 DEF RatingsInv, RunInv

LEMMA SnapshotRatings ==
    ASSUME RatingsInv, NEW v \in Review, R!Snapshot(v)
    PROVE  RatingsInv'
  <1> DEFINE a == R!Average(R!Alive(ProviderOf[v]))
  <1>1. /\ news' = [news EXCEPT ![v] = "read"] /\ snap' = [snap EXCEPT ![v] = a]
        /\ UNCHANGED <<R!world, R!recalculator, stored, dirty, outdated>>
    BY DEF R!Snapshot, R!ReadsAverage
  <1>2. a \in Averages
    <2>1. R!Alive(ProviderOf[v]) \in SUBSET Review
      BY DEF R!Alive, R!ReviewsOf
    <2>2. QED BY <2>1 DEF Averages
  <1> HIDE DEF a
  <1>3. /\ news' \in [Review -> {"none", "ready", "read", "done"}]
        /\ snap' \in [Review -> Averages] /\ outdated' \subseteq Review
        /\ snap'[v] = a
        /\ \A w \in Review \ {v} : news'[w] = news[w] /\ snap'[w] = snap[w]
    BY <1>1, <1>2 DEF RatingsInv, RatingTypes
  <1>4. UNCHANGED <<R!world, R!recalculator>> /\ UNCHANGED <<stored, dirty>> /\ outdated' = outdated
    BY <1>1
  <1>5. QED BY <1>3, <1>4, WorkerMoves DEF a

(* A statement of the worker is over.                                      *)
LEMMA LeavesRatings ==
    ASSUME RatingsInv, NEW v \in Review, NEW at \in {"ready", "done"}, R!Leaves(v, at),
           \/ UNCHANGED <<stored, dirty>>
           \/ R!Assign(ProviderOf[v], snap[v]) /\ R!Touches(busy, ProviderOf[v])
    PROVE  RatingsInv'
  <1>1. /\ news' = [news EXCEPT ![v] = at] /\ snap' = [snap EXCEPT ![v] = 0]
        /\ outdated' = outdated \ {v} /\ UNCHANGED <<R!world, R!recalculator>>
    BY DEF R!Leaves
  <1>2. /\ news' \in [Review -> {"none", "ready", "read", "done"}] /\ news'[v] # "read"
        /\ snap' \in [Review -> Averages] /\ outdated' \subseteq Review
        /\ \A w \in Review \ {v} :
              news'[w] = news[w] /\ snap'[w] = snap[w] /\ (w \in outdated => w \in outdated')
    BY <1>1, AnAverage DEF RatingsInv, RatingTypes
  <1>3. UNCHANGED <<R!world, R!recalculator>>
    BY <1>1
  <1>4. QED BY <1>2, <1>3, WorkerMoves

LEMMA WorkerRatings ==
    ASSUME RatingsInv, NEW v \in Review, R!WriteSnapshot(v) \/ R!HandlerFails(v)
    PROVE  RatingsInv'
  <1>1. CASE R!WriteSnapshot(v)
    BY <1>1, LeavesRatings DEF R!WriteSnapshot
  <1>2. CASE R!HandlerFails(v)
    BY <1>2, LeavesRatings DEF R!HandlerFails
  <1>3. QED BY <1>1, <1>2

(* A run goes on: it may write one average, of which the others take note. *)
LEMMA RunMoves ==
    ASSUME RatingsInv, NEW r \in Run, UNCHANGED <<R!world, R!worker>>,
           \/ UNCHANGED stored /\ \A s \in Run \ {r} : dirty'[s] = dirty[s]
           \/ \E p \in Provider, S \in SUBSET busy :
                 /\ rows[r][p] \in Averages /\ busy \ {r} \subseteq S
                 /\ R!Assign(p, rows[r][p]) /\ R!Touches(S, p),
           dirty' \in [Run -> SUBSET Provider],
           busy' \in SUBSET Run,
           DOMAIN rows' = Run, DOMAIN rows'[r] \subseteq Provider,
           rows'[r] \in [DOMAIN rows'[r] -> Averages],
           todo' \in [Run -> SUBSET Provider],
           batch' \in [Run -> [Provider -> {"none", "find", "update"}]],
           result' \in [Run -> [updated : Nat, unchanged : Nat, errors : Nat]],
           \A s \in Run \ {r} :
              /\ rows'[s] = rows[s] /\ todo'[s] = todo[s] /\ batch'[s] = batch[s]
              /\ result'[s] = result[s] /\ (s \in busy' <=> s \in busy),
           RowsApart(r)', RowsTrue(r)', RowsWritten(r)'
    PROVE  RatingsInv'
  <1>1. /\ UNCHANGED <<profile, review, news, snap, outdated>>
        /\ \A q : R!Alive(q)' = R!Alive(q) /\ R!Recent(q)' = R!Recent(q)
    BY DEF R!world, R!worker, R!Alive, R!Recent, R!ReviewsOf
  <1>2. /\ stored' \in [Provider -> Averages]
        /\ \A s \in Run \ {r} : dirty[s] \subseteq dirty'[s]
        /\ \A s \in Run \ {r}, q \in Provider :
              stored'[q] # stored[q] /\ q \in DOMAIN rows[s] => q \in dirty'[s]
    <2>1. CASE UNCHANGED stored /\ \A s \in Run \ {r} : dirty'[s] = dirty[s]
      BY <2>1 DEF RatingsInv, RatingTypes
    <2>2. ASSUME NEW p \in Provider, NEW S \in SUBSET busy, rows[r][p] \in Averages,
                 busy \ {r} \subseteq S, R!Assign(p, rows[r][p]), R!Touches(S, p)
          PROVE  /\ stored' \in [Provider -> Averages]
                 /\ \A s \in Run \ {r} : dirty[s] \subseteq dirty'[s]
                 /\ \A s \in Run \ {r}, q \in Provider :
                       stored'[q] # stored[q] /\ q \in DOMAIN rows[s] => q \in dirty'[s]
      <3>1. stored \in [Provider -> Averages]
        BY DEF RatingsInv, RatingTypes
      <3>2. stored' \in [Provider -> Averages] /\ \A q \in Provider \ {p} : stored'[q] = stored[q]
        BY <2>2, <3>1 DEF R!Assign
      <3>3. /\ \A s \in Run : dirty[s] \subseteq dirty'[s]
            /\ \A s \in S : p \in DOMAIN rows[s] => p \in dirty'[s]
        BY <2>2, Touched
      <3>4. QED BY <2>2, <3>2, <3>3, RowsOfBusy
    <2>3. QED BY <2>1, <2>2
  <1>3. RatingTypes'
    BY <1>1, <1>2 DEF RatingsInv, RatingTypes
  <1>4. ProfileInv' /\ SnapInv'
    BY <1>1 DEF RatingsInv, ProfileInv, SnapInv
  <1>5. ASSUME NEW s \in Run \ {r} PROVE RowsApart(s)' /\ RowsTrue(s)'
    <2>1. R!InBatch(s)' = R!InBatch(s)
      BY DEF R!InBatch
    <2>2. RowsApart(s)'
      BY <2>1 DEF RatingsInv, RunInv, RowsApart, R!NoRows
    <2>3. \A q \in DOMAIN rows[s] \ dirty[s] :
             profile'[q] /\ rows'[s][q] = R!RoundedAverage(R!Recent(q))'
      BY <1>1 DEF RatingsInv, RunInv, RowsTrue
    <2>4. DOMAIN rows'[s] \ dirty'[s] \subseteq DOMAIN rows[s] \ dirty[s]
      BY <1>2
    <2>5. RowsTrue(s)'
      BY <2>3, <2>4 DEF RowsTrue
    <2>6. QED BY <2>2, <2>5
  <1>6. ASSUME NEW s \in Run \ {r} PROVE RowsWritten(s)'
    <2> SUFFICES ASSUME NEW q \in DOMAIN rows'[s] \ dirty'[s],
                        q \notin todo'[s], batch'[s][q] = "none"
                 PROVE  stored'[q] = rows'[s][q]
      BY DEF RowsWritten
    <2>1. q \in DOMAIN rows[s] \ dirty[s] /\ q \in Provider
      BY <1>2 DEF RatingsInv, RatingTypes
    <2>2. stored[q] = rows[s][q]
      BY <2>1, SMTT(30) DEF RatingsInv, RunInv, RowsWritten
    <2>3. stored'[q] = stored[q]
      BY <1>2, <2>1
    <2>4. QED BY <2>2, <2>3
  <1>7. QED BY <1>3, <1>4, <1>5, <1>6 DEF RatingsInv, RunInv

(* A run reads the averages of the window.                                 *)
LEMMA ScanRatings ==
    ASSUME RatingsInv, NEW r \in Run, R!Scan(r)
    PROVE  RatingsInv'
  <1> DEFINE D == {p \in Provider : R!Recent(p) # {}}
             read == [p \in D |-> R!RoundedAverage(R!Recent(p))]
  <1>1. /\ r \notin busy /\ busy' = busy \cup {r}
        /\ rows' = [rows EXCEPT ![r] = read]
        /\ todo' = [todo EXCEPT ![r] = DOMAIN rows'[r]]
        /\ result' = [result EXCEPT ![r] = R!NoCounts]
        /\ dirty' = [dirty EXCEPT ![r] = {}]
        /\ UNCHANGED <<R!world, R!worker, stored, batch>>
    BY DEF R!Scan
  <1>2. DOMAIN read = D /\ D \in SUBSET Provider /\ read \in [D -> Averages]
    BY AnAverage
  <1>3. \A p \in D : read[p] = R!RoundedAverage(R!Recent(p)) /\ profile[p]
    <2> TAKE p \in D
    <2>1. R!Alive(p) # {}
      BY DEF R!Alive, R!Recent, R!ReviewsOf
    <2>2. QED BY <2>1 DEF RatingsInv, ProfileInv
  <1> HIDE DEF read, D
  <1>4. /\ DOMAIN rows' = Run /\ rows'[r] = read /\ \A s \in Run \ {r} : rows'[s] = rows[s]
        /\ todo' \in [Run -> SUBSET Provider] /\ todo'[r] = D
        /\ \A s \in Run \ {r} : todo'[s] = todo[s]
    BY <1>1, <1>2 DEF RatingsInv, RatingTypes
  <1>5. R!NoCounts \in [updated : Nat, unchanged : Nat, errors : Nat]
    BY DEF R!NoCounts
  <1>6. /\ result' \in [Run -> [updated : Nat, unchanged : Nat, errors : Nat]]
        /\ \A s \in Run \ {r} : result'[s] = result[s] /\ (s \in busy' <=> s \in busy)
        /\ dirty' \in [Run -> SUBSET Provider] /\ dirty'[r] = {}
        /\ \A s \in Run \ {r} : dirty'[s] = dirty[s]
        /\ busy' \in SUBSET Run /\ batch' = batch /\ batch' \in [Run -> [Provider -> {"none", "find", "update"}]]
    BY <1>1, <1>5 DEF RatingsInv, RatingTypes
  <1>7. R!InBatch(r) = {} /\ R!InBatch(r)' = {}
    BY <1>1, RowsOfBusy DEF RatingsInv, RunInv, RowsApart, R!InBatch
  <1>8. RowsApart(r)'
    BY <1>1, <1>2, <1>4, <1>7 DEF RowsApart
  <1>9. \A q : R!Recent(q)' = R!Recent(q) /\ profile'[q] = profile[q]
    BY <1>1 DEF R!world, R!Recent, R!ReviewsOf
  <1>10. RowsTrue(r)'
    BY <1>2, <1>3, <1>4, <1>9 DEF RowsTrue
  <1>11. RowsWritten(r)'
    BY <1>2, <1>4 DEF RowsWritten
  <1>12. UNCHANGED <<R!world, R!worker>> /\ UNCHANGED stored
    BY <1>1
  <1>13. DOMAIN rows'[r] \subseteq Provider /\ rows'[r] \in [DOMAIN rows'[r] -> Averages]
    BY <1>2, <1>4
  <1>14. QED BY <1>4, <1>6, <1>8, <1>10, <1>11, <1>12, <1>13, RunMoves

(* The callback of r for p goes on.                                        *)
LEMMA Proceeding ==
    ASSUME RatingsInv, NEW r \in Run, NEW p \in Provider, NEW at \in {"none", "find", "update"},
           R!Proceeds(r, p, at)
    PROVE  /\ batch' \in [Run -> [Provider -> {"none", "find", "update"}]]
           /\ \A s \in Run \ {r} : batch'[s] = batch[s]
           /\ \A q \in Provider \ {p} : batch'[r][q] = batch[r][q]
           /\ batch'[r][p] = at
  <1>1. batch \in [Run -> [Provider -> {"none", "find", "update"}]]
    BY DEF RatingsInv, RatingTypes
  <1>2. batch' = [batch EXCEPT ![r] = [batch[r] EXCEPT ![p] = at]]
    BY <1>1 DEF R!Proceeds
  <1> DEFINE b == [batch[r] EXCEPT ![p] = at]
  <1>3. /\ b \in [Provider -> {"none", "find", "update"}] /\ b[p] = at
        /\ \A q \in Provider \ {p} : b[q] = batch[r][q]
    BY <1>1
  <1> HIDE DEF b
  <1>4. batch' = [batch EXCEPT ![r] = b]
    BY <1>2 DEF b
  <1>5. QED BY <1>1, <1>3, <1>4

(* One of the counters of r goes up.                                       *)
LEMMA Counting ==
    ASSUME RatingsInv, NEW r \in Run, NEW counter \in {"updated", "unchanged", "errors"},
           R!Counts(r, counter)
    PROVE  /\ result' \in [Run -> [updated : Nat, unchanged : Nat, errors : Nat]]
           /\ \A s \in Run \ {r} : result'[s] = result[s]
           /\ IF counter = "errors" THEN result'[r].errors # 0
              ELSE result'[r].errors = result[r].errors
  <1>1. result \in [Run -> [updated : Nat, unchanged : Nat, errors : Nat]]
    BY DEF RatingsInv, RatingTypes
  <1>2. PICK c \in [updated : Nat, unchanged : Nat, errors : Nat] : c = result[r]
    BY <1>1
  <1>3. c[counter] \in Nat
    BY <1>2
  <1> DEFINE d == [c EXCEPT ![counter] = @ + 1]
  <1>4. /\ d \in [updated : Nat, unchanged : Nat, errors : Nat]
        /\ IF counter = "errors" THEN d.errors = c.errors + 1 ELSE d.errors = c.errors
    <2>1. CASE counter = "updated"
      BY <2>1, <1>2
    <2>2. CASE counter = "unchanged"
      BY <2>2, <1>2
    <2>3. CASE counter = "errors"
      BY <2>3, <1>2
    <2>4. QED BY <2>1, <2>2, <2>3
  <1>5. result' = [result EXCEPT ![r] = d]
    BY <1>1, <1>2 DEF R!Counts
  <1> HIDE DEF d
  <1>6. c.errors \in Nat
    BY <1>2
  <1>7. QED BY <1>1, <1>2, <1>4, <1>5, <1>6

(* A row that a callback works on is one of a run in progress.             *)
LEMMA InHand ==
    ASSUME RatingsInv, NEW r \in Run, NEW p \in Provider, batch[r][p] # "none"
    PROVE  r \in busy /\ p \in DOMAIN rows[r] /\ rows[r][p] \in Averages
  <1>1. p \in R!InBatch(r)
    BY DEF R!InBatch
  <1>2. p \in DOMAIN rows[r] /\ r \in busy
    BY <1>1, RowsOfBusy DEF RatingsInv, RunInv, RowsApart
  <1>3. QED BY <1>2 DEF RatingsInv, RatingTypes

(* The callback of r for p goes on, and writes or does not: when it is     *)
(* over the row is dealt with, or noted as touched.                        *)
LEMMA RowMoves ==
    ASSUME RatingsInv, NEW r \in Run, NEW p \in Provider, NEW at \in {"none", "update"},
           R!Proceeds(r, p, at), batch[r][p] # "none",
           UNCHANGED <<R!world, R!worker>>, UNCHANGED <<busy, rows, todo>>,
           \/ UNCHANGED <<stored, dirty>>
           \/ UNCHANGED stored /\ R!Touches({r}, p)
           \/ \E S \in SUBSET busy :
                 busy \ {r} \subseteq S /\ R!Assign(p, rows[r][p]) /\ R!Touches(S, p),
           result' \in [Run -> [updated : Nat, unchanged : Nat, errors : Nat]],
           \A s \in Run \ {r} : result'[s] = result[s],
           at = "none" => p \in dirty'[r] \/ stored'[p] = rows[r][p]
    PROVE  RatingsInv'
  <1>1. /\ batch' \in [Run -> [Provider -> {"none", "find", "update"}]]
        /\ \A s \in Run \ {r} : batch'[s] = batch[s]
        /\ \A q \in Provider \ {p} : batch'[r][q] = batch[r][q]
        /\ batch'[r][p] = at
    BY Proceeding
  <1>2. r \in busy /\ p \in DOMAIN rows[r] /\ rows[r][p] \in Averages
    BY InHand
  <1>3. /\ stored \in [Provider -> Averages] /\ dirty \in [Run -> SUBSET Provider]
        /\ busy \in SUBSET Run /\ todo \in [Run -> SUBSET Provider]
        /\ DOMAIN rows = Run /\ DOMAIN rows[r] \subseteq Provider
        /\ rows[r] \in [DOMAIN rows[r] -> Averages]
    BY DEF RatingsInv, RatingTypes
  <1>4. /\ dirty' \in [Run -> SUBSET Provider] /\ dirty[r] \subseteq dirty'[r]
        /\ \A q \in Provider \ {p} : stored'[q] = stored[q]
    <2>1. CASE UNCHANGED <<stored, dirty>>
      BY <2>1, <1>3
    <2>2. CASE UNCHANGED stored /\ R!Touches({r}, p)
      <3>1. {r} \in SUBSET busy
        BY <1>2
      <3>2. QED BY <2>2, <3>1, Touched
    <2>3. ASSUME NEW S \in SUBSET busy, R!Assign(p, rows[r][p]), R!Touches(S, p)
          PROVE  /\ dirty' \in [Run -> SUBSET Provider] /\ dirty[r] \subseteq dirty'[r]
                 /\ \A q \in Provider \ {p} : stored'[q] = stored[q]
      <3>1. \A q \in Provider \ {p} : stored'[q] = stored[q]
        BY <2>3, <1>3 DEF R!Assign
      <3>2. QED BY <2>3, <3>1, Touched
    <2>4. QED BY <2>1, <2>2, <2>3
  <1>5. \/ UNCHANGED stored /\ \A s \in Run \ {r} : dirty'[s] = dirty[s]
        \/ \E q \in Provider, S \in SUBSET busy :
              /\ rows[r][q] \in Averages /\ busy \ {r} \subseteq S
              /\ R!Assign(q, rows[r][q]) /\ R!Touches(S, q)
    <2>1. CASE UNCHANGED <<stored, dirty>>
      BY <2>1
    <2>2. CASE UNCHANGED stored /\ R!Touches({r}, p)
      <3>1. \A s \in Run \ {r} : dirty'[s] = dirty[s]
        BY <2>2, <1>3 DEF R!Touches
      <3>2. QED BY <2>2, <3>1
    <2>3. QED BY <2>1, <2>2, <1>2
  <1>6. R!InBatch(r)' \subseteq R!InBatch(r)
    BY <1>1 DEF R!InBatch
  <1>7. RowsApart(r)'
    BY <1>2, <1>6 DEF RatingsInv, RunInv, RowsApart
  <1>8. \A q : R!Recent(q)' = R!Recent(q) /\ profile'[q] = profile[q]
    BY DEF R!world, R!Recent, R!ReviewsOf
  <1>9. RowsTrue(r)'
    BY <1>4, <1>8 DEF RatingsInv, RunInv, RowsTrue
  <1>10. RowsWritten(r)'
    <2> SUFFICES ASSUME NEW q \in DOMAIN rows[r] \ dirty'[r],
                        q \notin todo[r], batch'[r][q] = "none"
                 PROVE  stored'[q] = rows[r][q]
      BY DEF RowsWritten
    <2>1. CASE q = p
      BY <2>1, <1>1
    <2>2. CASE q # p
      <3>1. batch[r][q] = "none" /\ stored'[q] = stored[q]
        BY <2>2, <1>1, <1>3, <1>4
      <3>2. q \notin dirty[r]
        BY <1>4
      <3>3. QED BY <3>1, <3>2 DEF RatingsInv, RunInv, RowsWritten
    <2>3. QED BY <2>1, <2>2
  <1>11. \A s \in Run \ {r} : /\ rows'[s] = rows[s] /\ todo'[s] = todo[s] /\ batch'[s] = batch[s]
                              /\ result'[s] = result[s] /\ (s \in busy' <=> s \in busy)
    BY <1>1
  <1>12. /\ busy' \in SUBSET Run /\ DOMAIN rows' = Run /\ DOMAIN rows'[r] \subseteq Provider
         /\ rows'[r] \in [DOMAIN rows'[r] -> Averages] /\ todo' \in [Run -> SUBSET Provider]
    BY <1>3
  <1>13. QED BY <1>1, <1>4, <1>5, <1>7, <1>9, <1>10, <1>11, <1>12, RunMoves

(* Without an average to write, a row is dealt with if it is up to date or *)
(* its profile is gone; the profile of a true row is there.                *)
LEMMA FindRatings ==
    ASSUME RatingsInv, NEW r \in Run, NEW p \in Provider, R!Find(r, p)
    PROVE  RatingsInv'
  <1>1. /\ UNCHANGED <<R!world, R!worker>> /\ UNCHANGED <<busy, rows, todo>>
        /\ UNCHANGED <<stored, dirty>> /\ batch[r][p] # "none"
    BY DEF R!Find
  <1>2. p \in DOMAIN rows[r]
    BY <1>1, InHand
  <1>3. result \in [Run -> [updated : Nat, unchanged : Nat, errors : Nat]]
    BY DEF RatingsInv, RatingTypes
  <1>4. CASE ~profile[p] /\ R!Proceeds(r, p, "none") /\ UNCHANGED result
    <2>1. p \in dirty'[r]
      BY <1>1, <1>2, <1>4 DEF RatingsInv, RunInv, RowsTrue
    <2>2. R!Proceeds(r, p, "none") /\ result' = result
      BY <1>4
    <2>3. QED BY <1>1, <1>3, <2>1, <2>2, RowMoves
  <1>5. CASE stored[p] = rows[r][p] /\ R!Proceeds(r, p, "none") /\ R!Counts(r, "unchanged")
    <2>1. /\ result' \in [Run -> [updated : Nat, unchanged : Nat, errors : Nat]]
          /\ \A s \in Run \ {r} : result'[s] = result[s]
      BY <1>5, Counting
    <2>2. R!Proceeds(r, p, "none") /\ stored'[p] = rows[r][p]
      BY <1>1, <1>5
    <2>3. QED BY <1>1, <2>1, <2>2, RowMoves
  <1>6. CASE R!Proceeds(r, p, "update") /\ UNCHANGED result
    <2>1. R!Proceeds(r, p, "update") /\ result' = result
      BY <1>6
    <2>2. QED BY <1>1, <1>3, <2>1, RowMoves
  <1>7. QED BY <1>4, <1>5, <1>6 DEF R!Find

(* The UPDATE misses the row only of an erased profile.                    *)
LEMMA WriteRatings ==
    ASSUME RatingsInv, NEW r \in Run, NEW p \in Provider, R!Write(r, p)
    PROVE  RatingsInv'
  <1>1. /\ UNCHANGED <<R!world, R!worker>> /\ UNCHANGED <<busy, rows, todo>>
        /\ R!Assign(p, rows[r][p]) /\ R!Touches(busy \ {r}, p)
        /\ R!Proceeds(r, p, "none") /\ batch[r][p] # "none" /\ R!Counts(r, "updated")
    BY DEF R!Write, R!worker
  <1>2. /\ result' \in [Run -> [updated : Nat, unchanged : Nat, errors : Nat]]
        /\ \A s \in Run \ {r} : result'[s] = result[s]
    BY <1>1, Counting
  <1>3. p \in dirty'[r] \/ stored'[p] = rows[r][p]
    <2>1. /\ p \in DOMAIN rows[r] /\ stored \in [Provider -> Averages]
          /\ dirty[r] \subseteq dirty'[r]
      BY <1>1, InHand, Touched DEF RatingsInv, RatingTypes
    <2>2. p \in dirty[r] \/ profile[p]
      BY <2>1 DEF RatingsInv, RunInv, RowsTrue
    <2>3. QED BY <1>1, <2>1, <2>2 DEF R!Assign
  <1>4. busy \ {r} \in SUBSET busy
    BY DEF RatingsInv, RatingTypes
  <1>5. QED BY <1>1, <1>2, <1>3, <1>4, RowMoves

(* A row that fails is noted, whether or not the UPDATE took effect.       *)
LEMMA RowFailsRatings ==
    ASSUME RatingsInv, NEW r \in Run, NEW p \in Provider, R!RowFails(r, p)
    PROVE  RatingsInv'
  <1>1. /\ UNCHANGED <<R!world, R!worker>> /\ UNCHANGED <<busy, rows, todo>>
        /\ R!Proceeds(r, p, "none") /\ batch[r][p] # "none" /\ R!Counts(r, "errors")
        /\ \/ UNCHANGED stored /\ R!Touches({r}, p)
           \/ R!Assign(p, rows[r][p]) /\ R!Touches(busy, p)
    BY DEF R!RowFails, R!RowThrows, R!worker
  <1>2. /\ result' \in [Run -> [updated : Nat, unchanged : Nat, errors : Nat]]
        /\ \A s \in Run \ {r} : result'[s] = result[s]
    BY <1>1, Counting
  <1>3. /\ r \in busy /\ p \in DOMAIN rows[r] /\ {r} \in SUBSET busy
        /\ busy \in SUBSET busy /\ busy \ {r} \subseteq busy
    BY <1>1, InHand
  <1>4. p \in dirty'[r]
    BY <1>1, <1>3, Touched
  <1>5. QED BY <1>1, <1>2, <1>3, <1>4, RowMoves

(* The rows of the next batch are taken from those that wait.              *)
LEMMA NextBatchRatings ==
    ASSUME RatingsInv, NEW r \in Run, R!NextBatch(r)
    PROVE  RatingsInv'
  <1>1. PICK B \in SUBSET todo[r] :
           /\ batch' = [batch EXCEPT ![r] = [p \in Provider |-> IF p \in B THEN "find" ELSE "none"]]
           /\ todo' = [todo EXCEPT ![r] = @ \ B]
    BY DEF R!NextBatch
  <1>2. /\ UNCHANGED <<R!world, R!worker>> /\ UNCHANGED <<stored, busy, rows, result, dirty>>
        /\ r \in busy /\ R!InBatch(r) = {}
    BY DEF R!NextBatch
  <1>3. /\ todo \in [Run -> SUBSET Provider] /\ dirty \in [Run -> SUBSET Provider]
        /\ batch \in [Run -> [Provider -> {"none", "find", "update"}]] /\ busy \in SUBSET Run
        /\ result \in [Run -> [updated : Nat, unchanged : Nat, errors : Nat]]
        /\ DOMAIN rows = Run /\ DOMAIN rows[r] \subseteq Provider
        /\ rows[r] \in [DOMAIN rows[r] -> Averages]
    BY DEF RatingsInv, RatingTypes
  <1> DEFINE b == [p \in Provider |-> IF p \in B THEN "find" ELSE "none"]
  <1>4. /\ b \in [Provider -> {"none", "find", "update"}]
        /\ \A p \in Provider : b[p] # "none" <=> p \in B
    OBVIOUS
  <1> HIDE DEF b
  <1>5. batch' = [batch EXCEPT ![r] = b]
    BY <1>1 DEF b
  <1>6. /\ batch' \in [Run -> [Provider -> {"none", "find", "update"}]] /\ batch'[r] = b
        /\ todo' \in [Run -> SUBSET Provider] /\ todo'[r] = todo[r] \ B
        /\ \A s \in Run \ {r} : todo'[s] = todo[s] /\ batch'[s] = batch[s]
    BY <1>1, <1>3, <1>4, <1>5
  <1>7. R!InBatch(r)' = B
    BY <1>3, <1>4, <1>6 DEF R!InBatch
  <1>8. RowsApart(r)'
    BY <1>2, <1>3, <1>6, <1>7 DEF RatingsInv, RunInv, RowsApart
  <1>9. \A q : R!Recent(q)' = R!Recent(q) /\ profile'[q] = profile[q]
    BY <1>2 DEF R!world, R!Recent, R!ReviewsOf
  <1>10. RowsTrue(r)'
    BY <1>2, <1>9 DEF RatingsInv, RunInv, RowsTrue
  <1>11. RowsWritten(r)'
    <2> SUFFICES ASSUME NEW q \in DOMAIN rows[r] \ dirty[r],
                        q \notin todo'[r], batch'[r][q] = "none"
                 PROVE  stored[q] = rows[r][q]
      BY <1>2 DEF RowsWritten
    <2>1. q \in Provider /\ q \notin todo[r] /\ batch[r][q] = "none"
      BY <1>2, <1>3, <1>4, <1>6 DEF R!InBatch
    <2>2. QED BY <2>1 DEF RatingsInv, RunInv, RowsWritten
  <1>12. /\ UNCHANGED stored /\ \A s \in Run \ {r} : dirty'[s] = dirty[s]
         /\ dirty' \in [Run -> SUBSET Provider] /\ busy' \in SUBSET Run
         /\ result' \in [Run -> [updated : Nat, unchanged : Nat, errors : Nat]]
         /\ DOMAIN rows' = Run /\ DOMAIN rows'[r] \subseteq Provider
         /\ rows'[r] \in [DOMAIN rows'[r] -> Averages]
         /\ \A s \in Run \ {r} :
               rows'[s] = rows[s] /\ result'[s] = result[s] /\ (s \in busy' <=> s \in busy)
    BY <1>2, <1>3
  <1>13. UNCHANGED <<R!world, R!worker>>
    BY <1>2
  <1>14. QED BY <1>6, <1>8, <1>10, <1>11, <1>12, <1>13, RunMoves

(* A run is over, or its pod has died.                                     *)
LEMMA StopsRatings ==
    ASSUME RatingsInv, NEW r \in Run, R!Stops(r)
    PROVE  RatingsInv'
  <1>1. /\ busy' = busy \ {r} /\ todo' = [todo EXCEPT ![r] = {}]
        /\ batch' = [batch EXCEPT ![r] = [p \in Provider |-> "none"]]
        /\ rows' = [rows EXCEPT ![r] = R!NoRows]
        /\ result' = [result EXCEPT ![r] = R!NoCounts]
        /\ dirty' = [dirty EXCEPT ![r] = {}]
        /\ UNCHANGED <<R!world, R!worker>> /\ UNCHANGED stored
    BY DEF R!Stops
  <1>2. /\ todo \in [Run -> SUBSET Provider] /\ dirty \in [Run -> SUBSET Provider]
        /\ batch \in [Run -> [Provider -> {"none", "find", "update"}]] /\ busy \in SUBSET Run
        /\ result \in [Run -> [updated : Nat, unchanged : Nat, errors : Nat]]
        /\ DOMAIN rows = Run
    BY DEF RatingsInv, RatingTypes
  <1>3. /\ DOMAIN R!NoRows = {} /\ R!NoRows \in [{} -> Averages]
        /\ R!NoCounts \in [updated : Nat, unchanged : Nat, errors : Nat]
    BY DEF R!NoRows, R!NoCounts
  <1>4. /\ DOMAIN rows' = Run /\ rows'[r] = R!NoRows
        /\ \A s \in Run \ {r} : rows'[s] = rows[s]
    BY <1>1, <1>2
  <1>5. /\ todo' \in [Run -> SUBSET Provider] /\ todo'[r] = {}
        /\ batch' \in [Run -> [Provider -> {"none", "find", "update"}]]
        /\ \A p \in Provider : batch'[r][p] = "none"
        /\ \A s \in Run \ {r} : todo'[s] = todo[s] /\ batch'[s] = batch[s]
    BY <1>1, <1>2
  <1>6. /\ result' \in [Run -> [updated : Nat, unchanged : Nat, errors : Nat]]
        /\ dirty' \in [Run -> SUBSET Provider] /\ busy' \in SUBSET Run
        /\ \A s \in Run \ {r} :
              result'[s] = result[s] /\ dirty'[s] = dirty[s] /\ (s \in busy' <=> s \in busy)
    BY <1>1, <1>2, <1>3
  <1>7. RowsApart(r)'
    BY <1>4, <1>5 DEF RowsApart, R!InBatch, R!NoRows
  <1>8. RowsTrue(r)' /\ RowsWritten(r)'
    BY <1>3, <1>4 DEF RowsTrue, RowsWritten
  <1>9. DOMAIN rows'[r] \subseteq Provider /\ rows'[r] \in [DOMAIN rows'[r] -> Averages]
    BY <1>3, <1>4
  <1>10. UNCHANGED <<R!world, R!worker>> /\ UNCHANGED stored
    BY <1>1
  <1>11. QED BY <1>4, <1>5, <1>6, <1>7, <1>8, <1>9, <1>10, RunMoves

LEMMA NextRatings == RatingsInv /\ [R!Next]_R!vars => RatingsInv'
  <1> SUFFICES ASSUME RatingsInv, [R!Next]_R!vars PROVE RatingsInv'
    OBVIOUS
  <1>1. ASSUME NEW v \in Review, R!Create(v) \/ R!Age(v) \/ R!EraseReview(v) PROVE RatingsInv'
    BY <1>1, CreateRatings, AgeRatings, EraseReviewRatings
  <1>2. ASSUME NEW p \in Provider, R!EraseProvider(p) PROVE RatingsInv'
    BY <1>2, EraseProviderRatings
  <1>3. ASSUME NEW v \in Review, R!Snapshot(v) \/ R!WriteSnapshot(v) \/ R!HandlerFails(v)
        PROVE  RatingsInv'
    BY <1>3, SnapshotRatings, WorkerRatings
  <1>4. ASSUME NEW r \in Run, R!Works(r) PROVE RatingsInv'
    <2>1. ASSUME NEW p \in Provider, R!Find(r, p) \/ R!Write(r, p) PROVE RatingsInv'
      BY <2>1, FindRatings, WriteRatings
    <2>2. CASE R!Finish(r)
      BY <2>2, StopsRatings DEF R!Finish
    <2>3. QED BY <1>4, <2>1, <2>2, NextBatchRatings DEF R!Works
  <1>5. ASSUME NEW r \in Run, R!Scan(r) \/ R!Dies(r) PROVE RatingsInv'
    BY <1>5, ScanRatings, StopsRatings DEF R!Dies
  <1>6. ASSUME NEW r \in Run, NEW p \in Provider, R!RowFails(r, p) PROVE RatingsInv'
    BY <1>6, RowFailsRatings
  <1>7. CASE UNCHANGED R!vars
    <2>1. /\ UNCHANGED <<profile, review, stored, news, snap, outdated>>
          /\ UNCHANGED <<busy, rows, todo, batch, result, dirty>>
      BY <1>7 DEF R!vars, R!world, R!worker, R!recalculator
    <2>2. \A q : R!Alive(q)' = R!Alive(q) /\ R!Recent(q)' = R!Recent(q)
      BY <2>1 DEF R!Alive, R!Recent, R!ReviewsOf
    <2>3. RatingTypes' /\ ProfileInv' /\ SnapInv'
      BY <2>1, <2>2 DEF RatingsInv, RatingTypes, ProfileInv, SnapInv
    <2>4. ASSUME NEW r \in Run PROVE RowsApart(r)' /\ RowsTrue(r)' /\ RowsWritten(r)'
      BY <2>1, <2>2 DEF RatingsInv, RunInv, RowsApart, RowsTrue, RowsWritten, R!InBatch, R!NoRows
    <2>5. QED BY <2>3, <2>4 DEF RatingsInv, RunInv
  <1>8. QED BY <1>1, <1>2, <1>3, <1>4, <1>5, <1>6, <1>7 DEF R!Next

-----------------------------------------------------------------------------
(* Every reachable state of Ratings satisfies its inductive invariant.     *)
THEOREM RatingsInvariance == R!Spec => []RatingsInv
  BY InitRatings, NextRatings, PTL DEF R!Spec

(* A run of the recalculator that ends (recalculateAll) leaves at each     *)
(* provider of its rows the rounded average of the window, unless somebody *)
(* touched that provider meanwhile or its own callback failed, whatever    *)
(* became of the other rows: FinishedRunIsExact.                           *)
THEOREM FinishedRunsExact == R!Spec => R!FinishedRunIsExact
  <1>1. ASSUME RatingsInv, NEW r \in Run, R!Finish(r),
               NEW p \in DOMAIN rows[r] \ dirty[r]
        PROVE  stored[p] = R!RoundedAverage(R!Recent(p))
    <2>1. p \in Provider /\ todo[r] = {} /\ R!InBatch(r) = {}
      BY <1>1 DEF RatingsInv, RatingTypes, R!Finish, R!Done
    <2>2. p \notin todo[r] /\ batch[r][p] = "none"
      BY <2>1 DEF R!InBatch
    <2>3. stored[p] = rows[r][p]
      BY <1>1, <2>2 DEF RatingsInv, RunInv, RowsWritten
    <2>4. QED BY <1>1, <2>3 DEF RatingsInv, RunInv, RowsTrue
  <1>2. RatingsInv => [\A r \in Run : R!Finish(r) =>
                          \A p \in DOMAIN rows[r] \ dirty[r] :
                             stored[p] = R!RoundedAverage(R!Recent(p))]_R!vars
    BY <1>1
  <1>3. QED BY <1>2, RatingsInvariance, PTL DEF R!FinishedRunIsExact

(* An UPDATE of the recalculator changes one average, and to a true one    *)
(* unless the provider was touched since the run read it.                  *)
LEMMA RunWrites ==
    ASSUME RatingsInv, NEW r \in Run, NEW q \in Provider, NEW p \in Provider,
           batch[r][q] # "none", UNCHANGED stored \/ R!Assign(q, rows[r][q]),
           stored'[p] # stored[p], stored'[p] # R!RoundedAverage(R!Recent(p))
    PROVE  q = p /\ r \in busy /\ p \in dirty[r]
  <1>1. stored \in [Provider -> Averages] /\ r \in busy /\ q \in DOMAIN rows[r]
    BY InHand DEF RatingsInv, RatingTypes
  <1>2. q = p /\ stored'[p] = rows[r][p]
    BY <1>1 DEF R!Assign
  <1>3. QED BY <1>1, <1>2 DEF RatingsInv, RunInv, RowsTrue

(* So does an UPDATE of the rating worker, unless its snapshot is outdated. *)
LEMMA WorkerWrites ==
    ASSUME RatingsInv, NEW v \in Review, NEW p \in Provider, news[v] = "read",
           UNCHANGED stored \/ R!Assign(ProviderOf[v], snap[v]),
           stored'[p] # stored[p], stored'[p] # R!Average(R!Alive(p))
    PROVE  v \in outdated
  <1>1. stored \in [Provider -> Averages]
    BY DEF RatingsInv, RatingTypes
  <1>2. ProviderOf[v] = p /\ stored'[p] = snap[v]
    BY <1>1 DEF R!Assign
  <1>3. QED BY <1>2 DEF RatingsInv, SnapInv

(* Whatever the recalculator and the rating worker write is the true       *)
(* average of that moment, except by a writer that has been overtaken      *)
(* since it read: WrongOnlyIfOvertaken.                                    *)
THEOREM WrongOnlyAfterOvertaking == R!Spec => R!WrongOnlyIfOvertaken
  <1> DEFINE Overtaken(p) ==
               \/ \E r \in busy : (R!Write(r, p) \/ R!RowFails(r, p)) /\ p \in dirty[r]
               \/ \E v \in outdated : R!WriteSnapshot(v) \/ R!HandlerFails(v)
             Wrong(p) == /\ profile'[p]
                         /\ stored'[p] \notin {stored[p], R!RoundedAverage(R!Recent(p)),
                                               R!Average(R!Alive(p))}
  <1>1. ASSUME RatingsInv, R!Next, NEW p \in Provider, Wrong(p)
        PROVE  Overtaken(p)
    <2>1. stored' # stored /\ stored'[p] # stored[p]
      BY <1>1
    <2>2. ASSUME NEW v \in Review, R!Create(v) \/ R!Age(v) \/ R!EraseReview(v) PROVE FALSE
      BY <2>1, <2>2 DEF R!Create, R!Age, R!EraseReview, R!Becomes
    <2>3. ASSUME NEW q \in Provider, R!EraseProvider(q) PROVE FALSE
      <3>1. profile \in [Provider -> BOOLEAN] /\ stored \in [Provider -> Averages]
        BY <1>1 DEF RatingsInv, RatingTypes
      <3>2. profile' = [profile EXCEPT ![q] = FALSE] /\ stored' = [stored EXCEPT ![q] = 0]
        BY <2>3 DEF R!EraseProvider
      <3>3. QED BY <1>1, <2>1, <3>1, <3>2
    <2>4. ASSUME NEW v \in Review, R!Snapshot(v) PROVE FALSE
      BY <2>1, <2>4 DEF R!Snapshot, R!ReadsAverage
    <2>5. ASSUME NEW v \in Review, R!WriteSnapshot(v) \/ R!HandlerFails(v) PROVE Overtaken(p)
      <3>1. news[v] = "read" /\ (UNCHANGED stored \/ R!Assign(ProviderOf[v], snap[v]))
        BY <2>5 DEF R!WriteSnapshot, R!HandlerFails
      <3>2. v \in outdated
        BY <1>1, <3>1, WorkerWrites
      <3>3. QED BY <2>5, <3>2
    <2>6. ASSUME NEW r \in Run, R!NextBatch(r) \/ R!Finish(r) \/ R!Scan(r) \/ R!Dies(r)
          PROVE  FALSE
      BY <2>1, <2>6 DEF R!NextBatch, R!Finish, R!Scan, R!Dies, R!Stops
    <2>7. ASSUME NEW r \in Run, NEW q \in Provider, R!Find(r, q) PROVE FALSE
      BY <2>1, <2>7 DEF R!Find
    <2>8. ASSUME NEW r \in Run, NEW q \in Provider, R!Write(r, q) \/ R!RowFails(r, q)
          PROVE  Overtaken(p)
      <3>1. batch[r][q] # "none" /\ (UNCHANGED stored \/ R!Assign(q, rows[r][q]))
        BY <2>8 DEF R!Write, R!RowFails, R!RowThrows
      <3>2. q = p /\ r \in busy /\ p \in dirty[r]
        BY <1>1, <3>1, RunWrites
      <3>3. QED BY <2>8, <3>2
    <2> HIDE DEF Overtaken
    <2>9. ASSUME NEW r \in Run, R!Works(r) PROVE Overtaken(p)
      BY <2>6, <2>7, <2>8, <2>9 DEF R!Works
    <2>10. QED BY <1>1, <2>2, <2>3, <2>4, <2>5, <2>6, <2>8, <2>9 DEF R!Next
  <1>2. RatingsInv /\ [R!Next]_R!vars =>
          [\A p \in Provider :
             profile'[p] /\ stored'[p] \notin {stored[p], R!RoundedAverage(R!Recent(p)),
                                               R!Average(R!Alive(p))} =>
                \/ \E r \in busy : (R!Write(r, p) \/ R!RowFails(r, p)) /\ p \in dirty[r]
                \/ \E v \in outdated : R!WriteSnapshot(v) \/ R!HandlerFails(v)]_R!vars
    BY <1>1
  <1>3. QED BY <1>2, RatingsInvariance, PTL DEF R!Spec, R!WrongOnlyIfOvertaken

-----------------------------------------------------------------------------
(* The range of the averages.  The operators of FiniteSets that Ratings    *)
(* uses are those of this module.                                          *)
LEMMA SameCardinality ==
    /\ \A S : R!IsFiniteSet(S) <=> IsFiniteSet(S)
    /\ \A S : R!Cardinality(S) = Cardinality(S)
  <1>1. \A S : R!IsFiniteSet(S) <=> IsFiniteSet(S)
    BY Zenon DEF R!IsFiniteSet, IsFiniteSet
  <1>2. \A S : R!Cardinality(S) = Cardinality(S)
    BY Zenon DEF R!Cardinality, Cardinality
  <1>3. QED BY <1>1, <1>2

LEMMA NatTimes == ASSUME NEW x \in Nat, NEW y \in Nat PROVE x * y \in Nat
  OBVIOUS

(* A quotient lies between the bounds of its factors.                      *)
LEMMA QuotientRange ==
    ASSUME NEW a \in Nat, NEW n \in Nat \ {0}, NEW l \in Nat, NEW h \in Nat,
           l * n <= a, a < h * n + n
    PROVE  (a \div n) \in Nat /\ l <= (a \div n) /\ (a \div n) <= h
  <1> DEFINE q == a \div n
  <1>1. q \in Nat /\ n * q <= a /\ a < n * q + n
    OBVIOUS
  <1> HIDE DEF q
  <1>2. n * q \in Nat /\ l * n \in Nat /\ h * n \in Nat
    BY <1>1, NatTimes
  <1>3. q <= h
    <2> SUFFICES ASSUME q > h PROVE FALSE
      BY <1>1
    <2>1. q - h - 1 \in Nat
      BY <1>1
    <2>2. n * (q - h - 1) \in Nat
      BY <2>1, NatTimes
    <2>3. n * (q - h - 1) = n * q - h * n - n
      BY <1>1
    <2>4. QED BY <1>1, <1>2, <2>2, <2>3
  <1>4. l <= q
    <2> SUFFICES ASSUME l > q PROVE FALSE
      BY <1>1
    <2>1. l - q - 1 \in Nat
      BY <1>1
    <2>2. n * (l - q - 1) \in Nat
      BY <2>1, NatTimes
    <2>3. n * (l - q - 1) = l * n - n * q - n
      BY <1>1
    <2>4. QED BY <1>1, <1>2, <2>2, <2>3
  <1>5. QED BY <1>1, <1>3, <1>4 DEF q

(* Reviews have between one and five stars each.                           *)
LEMMA StarsRange ==
    ASSUME R!ConstantsOK, NEW S \in SUBSET Review, S # {}
    PROVE  /\ R!Cardinality(S) \in Nat \ {0}
           /\ R!Stars(S) \in R!Cardinality(S)..5 * R!Cardinality(S)
  <1>1. IsFiniteSet(S) /\ RatingOf \in [Review -> 1..5]
    BY SameCardinality, FS_Subset DEF R!ConstantsOK
  <1>2. Cardinality(S) \in Nat \ {0}
    BY <1>1, FS_CardinalityType, FS_EmptySet
  <1>3. ASSUME NEW k \in Nat
        PROVE  R!AtLeast(S, k) \in 0..Cardinality(S)
    <2> DEFINE T == {v \in S : RatingOf[v] >= k}
    <2>1. T \subseteq S
      OBVIOUS
    <2> HIDE DEF T
    <2>2. IsFiniteSet(T) /\ Cardinality(T) \in Nat /\ Cardinality(T) <= Cardinality(S)
      BY <1>1, <2>1, FS_Subset, FS_CardinalityType
    <2>3. QED BY <1>2, <2>2, SameCardinality DEF R!AtLeast, T
  <1>4. R!AtLeast(S, 1) = Cardinality(S)
    <2>1. {v \in S : RatingOf[v] >= 1} = S
      BY <1>1
    <2>2. QED BY <2>1, SameCardinality DEF R!AtLeast
  <1>5. R!Stars(S) \in Cardinality(S)..5 * Cardinality(S)
    BY <1>2, <1>3, <1>4 DEF R!Stars
  <1>6. QED BY <1>2, <1>5, SameCardinality

(* An average is that of no reviews, 0, or lies between one star and five. *)
LEMMA AveragesRange == R!ConstantsOK => Averages \subseteq R!Scores
  <1> SUFFICES ASSUME R!ConstantsOK PROVE Averages \subseteq R!Scores
    OBVIOUS
  <1>1. R!Average({}) = 0 /\ R!RoundedAverage({}) = 0
    BY DEF R!Average, R!RoundedAverage
  <1>2. ASSUME NEW S \in SUBSET Review, S # {}
        PROVE  /\ R!Average(S) \in Nat /\ R!RoundedAverage(S) \in Nat
               /\ 10000 <= R!Average(S) /\ R!Average(S) <= 50000
               /\ 10000 <= R!RoundedAverage(S) /\ R!RoundedAverage(S) <= 50000
    <2> DEFINE n == R!Cardinality(S)
               k == R!Stars(S)
               a == 10000 * k
               b == 200 * k + n
               m == 2 * n
               least == 10000
               most == 50000
               x == a \div n
               y == b \div m
    <2>1. n \in Nat \ {0} /\ k \in n..5 * n
      BY <1>2, StarsRange
    <2>2. R!Average(S) = x /\ R!RoundedAverage(S) = 100 * y
      BY <1>2 DEF R!Average, R!RoundedAverage
    <2> HIDE DEF n, k, x, y
    <2>3. /\ least \in Nat /\ most \in Nat /\ a \in Nat
          /\ least * n <= a /\ a < most * n + n
      BY <2>1
    <2>4. /\ 100 \in Nat /\ 500 \in Nat /\ b \in Nat /\ m \in Nat \ {0}
          /\ 100 * m <= b /\ b < 500 * m + m
      BY <2>1
    <2> HIDE DEF a, b, m, least, most
    <2>5. x \in Nat /\ least <= x /\ x <= most
      BY <2>1, <2>3, QuotientRange DEF x
    <2>6. y \in Nat /\ 100 <= y /\ y <= 500
      BY <2>4, QuotientRange DEF y
    <2>7. x \in Nat /\ 10000 <= x /\ x <= 50000
      BY <2>5 DEF least, most
    <2>8. 100 * y \in Nat /\ 10000 <= 100 * y /\ 100 * y <= 50000
      BY <2>6
    <2>9. QED BY <2>2, <2>7, <2>8
  <1>3. \A S \in SUBSET Review :
           /\ R!Average(S) \in Nat /\ R!RoundedAverage(S) \in Nat
           /\ R!Average(S) = 0 \/ (10000 <= R!Average(S) /\ R!Average(S) <= 50000)
           /\ R!RoundedAverage(S) = 0 \/ (10000 <= R!RoundedAverage(S) /\ R!RoundedAverage(S) <= 50000)
    BY <1>1, <1>2
  <1>4. ASSUME NEW x \in Averages PROVE x \in Nat /\ (x = 0 \/ (10000 <= x /\ x <= 50000))
    BY <1>3 DEF Averages
  <1>5. /\ R!Star \in Nat
        /\ \A x \in Averages : x \in Nat /\ (x = 0 \/ (R!Star <= x /\ x <= 5 * R!Star))
    BY <1>4 DEF R!Star
  <1>6. QED BY <1>5 DEF R!Scores

(* Failures are counted up to their bound.                                 *)
LEMMA FailuresStay ==
    ASSUME R!ConstantsOK, failures \in 0..MaxFailures, [R!Next]_R!vars
    PROVE  failures' \in 0..MaxFailures
  <1>1. CASE failures' = failures
    BY <1>1
  <1>2. CASE R!Fails
    BY <1>2 DEF R!Fails, R!ConstantsOK
  <1>3. ASSUME NEW v \in Review, \/ R!Create(v) \/ R!Age(v) \/ R!EraseReview(v)
                                 \/ R!Snapshot(v) \/ R!WriteSnapshot(v) \/ R!HandlerFails(v)
        PROVE  failures' = failures \/ R!Fails
    BY <1>3 DEF R!Create, R!Age, R!EraseReview, R!Becomes, R!Snapshot, R!ReadsAverage,
                R!WriteSnapshot, R!HandlerFails
  <1>4. ASSUME NEW p \in Provider, R!EraseProvider(p) PROVE failures' = failures
    BY <1>4 DEF R!EraseProvider
  <1>5. ASSUME NEW r \in Run, R!Scan(r) \/ R!NextBatch(r) \/ R!Finish(r) \/ R!Dies(r)
        PROVE  failures' = failures \/ R!Fails
    BY <1>5 DEF R!Scan, R!NextBatch, R!Finish, R!Dies
  <1>6. ASSUME NEW r \in Run, NEW p \in Provider, R!Find(r, p) \/ R!Write(r, p) \/ R!RowFails(r, p)
        PROVE  failures' = failures \/ R!Fails
    BY <1>6 DEF R!Find, R!Write, R!RowFails, R!RowThrows
  <1>7. CASE UNCHANGED R!vars
    BY <1>1, <1>7 DEF R!vars
  <1>8. QED BY <1>1, <1>2, <1>3, <1>4, <1>5, <1>6, <1>7 DEF R!Next, R!Works

(* The variables of Ratings keep their types; in particular every average  *)
(* that is stored, computed or read is 0 or between one star and five,     *)
(* whichever of its two writers' divisions it comes from.                  *)
THEOREM RatingsTypeCorrect ==
    ASSUME R!ConstantsOK
    PROVE  R!Spec => []R!TypeOK
  <1>1. R!Init => failures \in 0..MaxFailures
    BY DEF R!Init, R!ConstantsOK
  <1>2. failures \in 0..MaxFailures /\ [R!Next]_R!vars => (failures \in 0..MaxFailures)'
    BY FailuresStay
  <1>3. RatingsInv /\ failures \in 0..MaxFailures => R!TypeOK
    <2> SUFFICES ASSUME RatingTypes, failures \in 0..MaxFailures PROVE R!TypeOK
      BY DEF RatingsInv
    <2>1. Averages \subseteq R!Scores
      BY AveragesRange
    <2>2. /\ stored \in [Provider -> R!Scores] /\ snap \in [Review -> R!Scores]
          /\ \A r \in Run : DOMAIN rows[r] \subseteq Provider /\ rows[r] \in [DOMAIN rows[r] -> R!Scores]
      BY <2>1 DEF RatingTypes
    <2>3. QED BY <2>2 DEF RatingTypes, R!TypeOK
  <1>4. QED BY <1>1, <1>2, <1>3, RatingsInvariance, PTL DEF R!Spec

-----------------------------------------------------------------------------
(* Schema: the migration script and the table of executed migrations.      *)

(* What the script goes by: the record of migrations and its own call.     *)
CallRecord == [phase : Sch!Phase, target : Nat, base : Nat]
ScriptInv == done \in Nat /\ run \in [Runners -> CallRecord]

(* A call of the script goes on, the others stay where they are.           *)
LEMMA CallGoes ==
    ASSUME run \in [Runners -> CallRecord], NEW q \in Runners, NEW c \in CallRecord,
           run' = [run EXCEPT ![q] = c]
    PROVE  /\ run' \in [Runners -> CallRecord]
           /\ run'[q] = c
           /\ \A r \in Runners \ {q} : run'[r] = run[r]
  OBVIOUS

(* Whatever a step of q's call does, it ends with 0 only if its release is *)
(* executed.                                                               *)
LEMMA CallStep ==
    ASSUME ScriptInv, Releases \subseteq 0..25, NEW q \in Runners,
           (\E v \in Releases : Sch!Load(q, v)) \/ Sch!Execute(q) \/ Sch!Show(q) \/ Sch!Reload(q)
    PROVE  /\ ScriptInv'
           /\ \A r \in Runners \ {q} : run'[r] = run[r]
           /\ run'[q].phase = "exit0" => done' >= run[q].target
  <1>1. run \in [Runners -> CallRecord] /\ done \in Nat
    BY DEF ScriptInv
  <1>2. PICK c \in CallRecord : c = run[q]
    BY <1>1
  <1>3. c.target \in Nat /\ c.base \in Nat
    BY <1>2 DEF CallRecord
  <1>4. ASSUME NEW d \in CallRecord, run' = [run EXCEPT ![q] = d], done' \in Nat,
               d.phase = "exit0" => done' >= c.target
        PROVE  /\ ScriptInv'
               /\ \A r \in Runners \ {q} : run'[r] = run[r]
               /\ run'[q].phase = "exit0" => done' >= run[q].target
    <2>1. run' \in [Runners -> CallRecord] /\ run'[q] = d /\ \A r \in Runners \ {q} : run'[r] = run[r]
      BY <1>1, <1>4, CallGoes
    <2>2. QED BY <1>2, <1>4, <2>1 DEF ScriptInv
  <1>5. ASSUME NEW phase \in Sch!Phase, NEW base \in Nat, Sch!Goes(q, phase, base)
        PROVE  \E d \in CallRecord : d.phase = phase /\ run' = [run EXCEPT ![q] = d]
    <2> DEFINE d == [phase |-> phase, target |-> c.target, base |-> base]
    <2>1. d \in CallRecord /\ d.phase = phase
      BY <1>3 DEF CallRecord
    <2>2. run' = [run EXCEPT ![q] = d]
      BY <1>2, <1>5 DEF Sch!Goes
    <2> HIDE DEF d
    <2>3. QED BY <2>1, <2>2
  <1>6. {"clashed", "retry", "retried", "exit0", "exit1", "unchecked"} \subseteq Sch!Phase
    BY DEF Sch!Phase
  <1>7. ASSUME NEW phase \in {"clashed", "retry", "retried", "exit1", "unchecked"},
               NEW base \in Nat, Sch!Goes(q, phase, base), done' = done
        PROVE  /\ ScriptInv'
               /\ \A r \in Runners \ {q} : run'[r] = run[r]
               /\ run'[q].phase = "exit0" => done' >= run[q].target
    BY <1>1, <1>4, <1>5, <1>6, <1>7
  <1>8. ASSUME Sch!Exit(q, "exit0"), done' \in Nat, done' >= c.target
        PROVE  /\ ScriptInv'
               /\ \A r \in Runners \ {q} : run'[r] = run[r]
               /\ run'[q].phase = "exit0" => done' >= run[q].target
    BY <1>4, <1>5, <1>6, <1>8 DEF Sch!Exit
  <1>9. ASSUME NEW v \in Releases, Sch!Load(q, v)
        PROVE  /\ ScriptInv'
               /\ \A r \in Runners \ {q} : run'[r] = run[r]
               /\ run'[q].phase = "exit0" => done' >= run[q].target
    <2> DEFINE d == [phase |-> "loaded", target |-> v, base |-> done]
    <2>1. d \in CallRecord /\ d.phase = "loaded"
      BY <1>1, <1>9 DEF CallRecord, Sch!Phase
    <2>2. run' = [run EXCEPT ![q] = d] /\ done' = done
      BY <1>9 DEF Sch!Load
    <2> HIDE DEF d
    <2>3. QED BY <1>1, <1>4, <2>1, <2>2
  <1>10. CASE Sch!Show(q)
    <2>1. CASE done >= c.target /\ Sch!Exit(q, "exit0") /\ done' = done
      BY <1>1, <1>8, <2>1
    <2>2. CASE Sch!Goes(q, "unchecked", 0) /\ done' = done
      BY <1>7, <2>2
    <2>3. CASE Sch!Goes(q, "retry", 0) /\ done' = done
      BY <1>7, <2>3
    <2>4. QED BY <1>2, <1>10, <2>1, <2>2, <2>3 DEF Sch!Show, Sch!Exit
  <1>11. CASE Sch!Reload(q)
    BY <1>1, <1>7, <1>11 DEF Sch!Reload
  <1>12. CASE Sch!Execute(q)
    <2>1. CASE Sch!Exit(q, "exit0") /\ done' = IF done < c.target THEN c.target ELSE done
      <3>1. done' \in Nat /\ done' >= c.target
        BY <1>1, <1>3, <2>1
      <3>2. QED BY <1>8, <2>1, <3>1
    <2>2. CASE Sch!Goes(q, "clashed", 0) /\ done' = done
      BY <1>7, <2>2
    <2>3. CASE Sch!Goes(q, "exit1", 0) /\ done' = done
      BY <1>7, <2>3
    <2>4. QED BY <1>2, <1>12, <2>1, <2>2, <2>3 DEF Sch!Execute, Sch!Exit
  <1>13. QED BY <1>9, <1>10, <1>11, <1>12

(* A call of scripts/migration.js that ends with 0 after having looked     *)
(* leaves every migration of its release executed, whichever other calls,  *)
(* clashes and reverts came between: ExitZeroMeansMigrated.                *)
THEOREM ExitZeroMigrated ==
    ASSUME Releases \subseteq 0..25
    PROVE  Sch!Spec => Sch!ExitZeroMeansMigrated
  <1>1. Sch!Init => ScriptInv
    <2> SUFFICES ASSUME Sch!Init PROVE ScriptInv
      OBVIOUS
    <2>1. [phase |-> "idle", target |-> 0, base |-> 0] \in CallRecord
      BY DEF CallRecord, Sch!Phase
    <2>2. QED BY <2>1 DEF Sch!Init, ScriptInv
  <1>2. ASSUME ScriptInv, [Sch!Next]_Sch!vars
        PROVE  /\ ScriptInv'
               /\ \A r \in Runners :
                     run[r].phase # "exit0" /\ run'[r].phase = "exit0" => done' >= run[r].target
    <2>1. ASSUME NEW q \in Runners,
                 (\E v \in Releases : Sch!Load(q, v)) \/ Sch!Execute(q) \/ Sch!Show(q) \/ Sch!Reload(q)
          PROVE  /\ ScriptInv'
                 /\ \A r \in Runners :
                       run[r].phase # "exit0" /\ run'[r].phase = "exit0" => done' >= run[r].target
      <3>1. /\ ScriptInv'
            /\ \A r \in Runners \ {q} : run'[r] = run[r]
            /\ run'[q].phase = "exit0" => done' >= run[q].target
        BY <1>2, <2>1, CallStep
      <3>2. QED BY <3>1
    <2>2. CASE Sch!Revert
      <3>1. run' = run /\ done > 0 /\ done' = done - 1
        BY <2>2 DEF Sch!Revert
      <3>2. QED BY <1>2, <3>1 DEF ScriptInv
    <2>3. CASE Sch!StoreRow \/ Sch!CleanRows \/ UNCHANGED Sch!vars
      <3>1. run' = run /\ done' = done
        BY <2>3 DEF Sch!StoreRow, Sch!CleanRows, Sch!vars
      <3>2. QED BY <1>2, <3>1 DEF ScriptInv
    <2>4. QED BY <1>2, <2>1, <2>2, <2>3 DEF Sch!Next
  <1>3. ScriptInv /\ [Sch!Next]_Sch!vars =>
           [\A r \in Runners :
              run[r].phase # "exit0" /\ run'[r].phase = "exit0" => done' >= run[r].target]_Sch!vars
    BY <1>2
  <1>4. ScriptInv /\ [Sch!Next]_Sch!vars => ScriptInv'
    BY <1>2
  <1>5. QED BY <1>1, <1>3, <1>4, PTL DEF Sch!Spec, Sch!ExitZeroMeansMigrated
=============================================================================
