--------------------------- MODULE AccountsProofs ---------------------------
(***************************************************************************)
(* Theorems of Accounts, for any number of users, documents and calls.     *)
(***************************************************************************)
EXTENDS Accounts, FiniteSetTheorems, TLAPS

(* What a call in progress is about.                                       *)
CallShape ==
    \A c \in Caller :
       /\ call[c].op = "none" <=> call[c].at = "idle"
       /\ call[c].op = "none" => call[c] = Idle
       /\ call[c].op = "create" => call[c].on \in Login \cup {Nobody}
       /\ call[c].op = "update" => call[c].on \in User /\ call[c].to \in Statuses
       /\ call[c].op \in {"register", "offer", "withdraw"} => call[c].on \in User
       /\ call[c].op = "upload" => call[c].on \in Doc /\ call[c].to \in User
       /\ call[c].op = "decide" => call[c].on \in Doc /\ call[c].to \in Verdicts
       /\ call[c].at # "write" => call[c].op \in {"none", "upload"}

(* A stored document, its file, its owner and the decisions under way.     *)
DocumentInv ==
    \A d \in Doc :
       /\ doc[d].status = "none" => doc[d].owner = Nobody
       /\ doc[d].status \in {"PENDING"} \cup Verdicts =>
             d \in bucket /\ doc[d].owner \in User /\ Exists(doc[d].owner)
       /\ doc[d].status \in {"none", "PENDING"} => late[d] = {}
       /\ late[d] \subseteq rivals[d]

(* A call that may still decide on a document with a verdict is a rival.   *)
RivalInv ==
    \A c \in Caller :
       /\ call[c].op = "decide" => doc[call[c].on].status # "none"
       /\ call[c].op = "decide" /\ doc[call[c].on].status \in Verdicts =>
             c \in rivals[call[c].on]

(* An upload owns its document id until its row is there.                  *)
UploadInv ==
    \A c \in Caller :
       call[c].op = "upload" =>
          /\ doc[call[c].on].status = "none"
          /\ call[c].at = "write" => call[c].on \in bucket
          /\ \A e \in Caller : call[e].op = "upload" /\ call[e].on = call[c].on => e = c

(* An offer under way next to a stored row is one the history knows of.    *)
OfferInv ==
    \A u \in User :
       /\ offers[u] > 1 => u \in overlap
       /\ offers[u] > 0 /\ (\E c \in Caller : call[c].op = "offer" /\ call[c].on = u) =>
             u \in overlap

(* A count is off by the accounts that came or went since.                 *)
Counted(c) ==
    /\ call[c].on \in Nat
    /\ call[c].on <= Cardinality(Users) + disturbed[c]
    /\ Cardinality(Users) <= call[c].on + disturbed[c]

StatsInv ==
    /\ profile \subseteq Users
    /\ \A c \in Caller : call[c].op = "stats" => Counted(c)
    /\ ~wrong

IInv ==
    /\ TypeOK /\ CallShape /\ DocumentInv /\ RivalInv
    /\ UploadInv /\ OfferInv /\ StatsInv

-----------------------------------------------------------------------------
LEMMA UsersFinite ==
    /\ IsFiniteSet(Users)
    /\ Cardinality(Users) \in 0..Cardinality(User)
    /\ Cardinality(Users) \in Nat
  <1>1. Users \in SUBSET User
    BY DEF Users
  <1>2. QED
    BY <1>1, UsersAssumption, FS_Subset, FS_CardinalityType

(* The accounts without a profile.                                         *)
LEMMA CustomersCounted ==
    ASSUME profile \subseteq Users
    PROVE  /\ Cardinality(Users \ profile) = Cardinality(Users) - Cardinality(profile)
           /\ Cardinality(Users \ profile) \in Nat /\ Cardinality(profile) \in Nat
  <1>1. Users \cap profile = profile
    OBVIOUS
  <1>2. IsFiniteSet(Users)
    BY UsersFinite
  <1>3. Cardinality(Users \ profile) = Cardinality(Users) - Cardinality(Users \cap profile)
    BY <1>2, FS_Difference, Zenon
  <1>4. /\ IsFiniteSet(profile) /\ IsFiniteSet(Users \ profile)
    BY <1>2, FS_Subset
  <1>5. QED BY <1>1, <1>3, <1>4, FS_CardinalityType, Zenon

(* An account comes or goes, and every count under way notes it.           *)
LEMMA DisturbedCount ==
    ASSUME IInv, Disturbs, NEW u \in User,
           \/ u \in Users /\ Users' = Users \ {u}
           \/ u \notin Users /\ Users' = Users \cup {u},
           \A c \in Caller : call'[c].op = "stats" => call'[c] = call[c]
    PROVE  /\ disturbed' \in [Caller -> Nat]
           /\ \A c \in Caller : call'[c].op = "stats" => Counted(c)'
  <1>1. /\ Cardinality(Users) \in Nat /\ Cardinality(Users)' \in Nat
        /\ Cardinality(Users)' = Cardinality(Users) + 1 \/ Cardinality(Users)' = Cardinality(Users) - 1
    <2>1. IsFiniteSet(Users) /\ Cardinality(Users) \in Nat
      BY UsersFinite
    <2>2. CASE Users' = Users \ {u} /\ u \in Users
      <3>1. Cardinality(Users)' = Cardinality(Users) - 1 /\ IsFiniteSet(Users)'
        BY <2>1, <2>2, FS_RemoveElement
      <3>2. QED BY <2>1, <3>1, FS_CardinalityType
    <2>3. CASE Users' = Users \cup {u} /\ u \notin Users
      <3>1. Cardinality(Users)' = Cardinality(Users) + 1
        BY <2>1, <2>3, FS_AddElement
      <3>2. QED BY <2>1, <3>1
    <2>4. QED BY <2>2, <2>3
  <1>2. /\ disturbed \in [Caller -> Nat] /\ disturbed' \in [Caller -> Nat]
        /\ \A c \in Caller : At(c, "stats", "write") => disturbed'[c] = disturbed[c] + 1
    BY DEF IInv, TypeOK, Disturbs
  <1>3. ASSUME NEW c \in Caller, call'[c].op = "stats"
        PROVE  Counted(c)'
    <2>1. call[c].op = "stats" /\ call'[c].on = call[c].on /\ At(c, "stats", "write")
      BY <1>3 DEF IInv, CallShape, At
    <2>2. Counted(c) /\ disturbed[c] \in Nat /\ disturbed'[c] = disturbed[c] + 1
      BY <1>2, <2>1 DEF IInv, StatsInv
    <2>3. QED BY <1>1, <2>1, <2>2 DEF Counted
  <1>4. QED BY <1>2, <1>3

LEMMA InitIInv == Init => IInv
  <1> SUFFICES ASSUME Init PROVE IInv
    OBVIOUS
  <1> USE DEF Init, Idle
  <1>1. TypeOK
    <2>1. Idle \in Call BY DEF Call
    <2>2. /\ user \in [User -> [status : Statuses \cup {"none", "erased"},
                               login : Login \cup {Nobody}]]
          /\ doc \in [Doc -> [status : {"none", "PENDING", "erased"} \cup Verdicts,
                             owner : User \cup {Nobody}]]
      OBVIOUS
    <2>3. calls \in 0..MaxCalls /\ faults \in 0..MaxFaults
      BY BoundsAssumption
    <2>4. /\ offers \in [User -> Nat] /\ call \in [Caller -> Call]
          /\ rivals \in [Doc -> SUBSET Caller] /\ late \in [Doc -> SUBSET Caller]
      BY <2>1
    <2>5. profile \subseteq User /\ bucket \subseteq Doc /\ overlap \subseteq User
      OBVIOUS
    <2> HIDE DEF Init, Idle
    <2>6. disturbed \in [Caller -> Nat] /\ wrong \in BOOLEAN /\ listed \in BOOLEAN
      BY DEF Init
    <2>7. QED BY <2>2, <2>3, <2>4, <2>5, <2>6 DEF TypeOK
  <1>2. CallShape BY DEF CallShape
  <1>3. DocumentInv BY DEF DocumentInv, Verdicts
  <1>4. RivalInv /\ UploadInv /\ OfferInv BY DEF RivalInv, UploadInv, OfferInv
  <1>5. StatsInv BY DEF StatsInv, Counted
  <1>6. QED BY <1>1, <1>2, <1>3, <1>4, <1>5 DEF IInv

(* A call that begins.                                                     *)
LEMMA BeginShape ==
    ASSUME IInv, NEW c \in Caller, NEW op, NEW at, NEW x, NEW to,
           [op |-> op, at |-> at, on |-> x, to |-> to] \in Call, Begins(c, op, at, x, to)
    PROVE  /\ call' \in [Caller -> Call]
           /\ call'[c].op = op /\ call'[c].at = at /\ call'[c].on = x /\ call'[c].to = to
           /\ \A d \in Caller \ {c} : call'[d] = call[d]
           /\ calls' \in 0..MaxCalls
           /\ UNCHANGED <<user, profile, listed, offers, doc, bucket, faults>>
  BY BoundsAssumption DEF IInv, TypeOK, Begins, rows

(* A call that ends.                                                       *)
LEMMA EndShape ==
    ASSUME IInv, NEW c \in Caller, call' = [call EXCEPT ![c] = Idle]
    PROVE  /\ call' \in [Caller -> Call]
           /\ call'[c] = Idle /\ call'[c].op = "none" /\ call'[c].at = "idle"
           /\ \A d \in Caller \ {c} : call'[d] = call[d]
  BY DEF IInv, TypeOK, Call, Idle

(* A call that ends without having changed a row.                          *)
LEMMA EndsIInv ==
    ASSUME IInv, NEW c \in Caller, call' = [call EXCEPT ![c] = Idle],
           calls' = calls, faults' \in 0..MaxFaults, UNCHANGED <<rows, history>>
    PROVE  IInv'
  <1>1. /\ call' \in [Caller -> Call]
        /\ call'[c] = Idle /\ call'[c].op = "none" /\ call'[c].at = "idle"
        /\ \A d \in Caller \ {c} : call'[d] = call[d]
    BY EndShape
  <1> USE <1>1 DEF IInv, rows, history
  <1>2. TypeOK' BY DEF TypeOK
  <1>3. CallShape' BY DEF CallShape
  <1>4. DocumentInv' BY DEF DocumentInv, Exists
  <1>5. RivalInv' BY DEF RivalInv
  <1>6. UploadInv' BY DEF UploadInv
  <1>7. OfferInv' BY DEF OfferInv
  <1>8. StatsInv' BY DEF StatsInv, Counted, Users, Exists
  <1>9. QED BY <1>2, <1>3, <1>4, <1>5, <1>6, <1>7, <1>8

(* A call that begins, for what its operation needs to hold of its object. *)
LEMMA BeginsIInv ==
    ASSUME IInv, NEW c \in Caller, NEW op, NEW at, NEW x, NEW to,
           [op |-> op, at |-> at, on |-> x, to |-> to] \in Call, Begins(c, op, at, x, to),
           op # "none", at = IF op = "upload" THEN "put" ELSE "write",
           op = "create" => x \in Login \cup {Nobody},
           op = "update" => x \in User /\ to \in Statuses,
           op \in {"register", "offer", "withdraw"} => x \in User,
           op = "upload" => /\ x \in Doc /\ to \in User /\ doc[x].status = "none"
                            /\ \A e \in Caller : call[e].on # x,
           op = "decide" => x \in Doc /\ to \in Verdicts /\ doc[x].status = "PENDING",
           op = "offer" => offers[x] = 0,
           op = "stats" => x = Cardinality(Users),
           UNCHANGED <<rivals, late, overlap, wrong>>,
           disturbed' = IF op = "stats" THEN [disturbed EXCEPT ![c] = 0] ELSE disturbed
    PROVE  IInv'
  <1>1. /\ call' \in [Caller -> Call]
        /\ call'[c].op = op /\ call'[c].at = at /\ call'[c].on = x /\ call'[c].to = to
        /\ \A d \in Caller \ {c} : call'[d] = call[d]
        /\ calls' \in 0..MaxCalls
        /\ UNCHANGED <<user, profile, listed, offers, doc, bucket, faults>>
    BY BeginShape
  <1> USE <1>1 DEF IInv
  <1>2. TypeOK' BY DEF TypeOK
  <1>3. CallShape' BY DEF CallShape
  <1>4. DocumentInv' BY DEF DocumentInv, Exists
  <1>5. RivalInv' BY DEF RivalInv, Verdicts
  <1>6. UploadInv' BY DEF UploadInv
  <1>7. OfferInv' BY DEF OfferInv, TypeOK
  <1>8. StatsInv'
    <2>1. Users' = Users /\ Cardinality(Users) \in Nat
      BY UsersFinite DEF Users, Exists
    <2>2. ASSUME NEW d \in Caller, call'[d].op = "stats" PROVE Counted(d)'
      <3>1. CASE d = c
        BY <2>1, <2>2, <3>1 DEF Counted, TypeOK
      <3>2. CASE d # c
        BY <2>1, <2>2, <3>2 DEF Counted, StatsInv, TypeOK
      <3>3. QED BY <3>1, <3>2
    <2>3. QED BY <2>1, <2>2 DEF StatsInv
  <1>9. QED BY <1>2, <1>3, <1>4, <1>5, <1>6, <1>7, <1>8

LEMMA UserStepsIInv ==
    ASSUME IInv, NEW c \in Caller, InsertUser(c) \/ UpdateUser(c) \/ InsertProfile(c) \/ Stats(c)
    PROVE  IInv'
  <1>0. /\ call' \in [Caller -> Call]
        /\ call'[c] = Idle /\ call'[c].op = "none" /\ call'[c].at = "idle"
        /\ \A d \in Caller \ {c} : call'[d] = call[d]
        /\ UNCHANGED <<calls, faults>>
    BY EndShape DEF InsertUser, UpdateUser, InsertProfile, Stats, Ends
  <1> USE <1>0 DEF IInv, At
  <1>1. CASE InsertUser(c)
    <2>1. CASE UNCHANGED <<user, history>>
      BY <1>1, <2>1, EndsIInv DEF InsertUser, Ends, rows, TypeOK
    <2>2. ASSUME NEW u \in User, NEW s \in Statuses, user[u].status = "none",
                 user' = [user EXCEPT ![u] = [status |-> s, login |-> call[c].on]], Disturbs
          PROVE  IInv'
      <3> USE <1>1, <2>2 DEF InsertUser, Disturbs
      <3>0. /\ disturbed' \in [Caller -> Nat]
            /\ \A d \in Caller : call'[d].op = "stats" => Counted(d)'
        <4>1. Users' = Users \cup {u} /\ u \notin Users
          <5>1. Exists(u)' /\ ~Exists(u) /\ \A v \in User \ {u} : Exists(v)' <=> Exists(v)
            BY DEF Exists, TypeOK, Statuses
          <5> HIDE DEF IInv, InsertUser
          <5>2. QED BY <5>1 DEF Users
        <4>2. \A d \in Caller : call'[d].op = "stats" => call'[d] = call[d]
          BY <1>0
        <4>3. IInv /\ Disturbs
          BY <2>2
        <4> HIDE DEF IInv, Disturbs
        <4>4. QED BY <4>1, <4>2, <4>3, DisturbedCount
      <3>1. TypeOK' BY <3>0 DEF TypeOK, CallShape
      <3>2. CallShape' BY DEF CallShape
      <3>3. DocumentInv' BY DEF DocumentInv, Exists, TypeOK
      <3>4. RivalInv' BY DEF RivalInv
      <3>5. UploadInv' BY DEF UploadInv
      <3>6. OfferInv' BY DEF OfferInv
      <3>7. StatsInv' BY <3>0 DEF StatsInv, Users, Exists, TypeOK
      <3>8. QED BY <3>1, <3>2, <3>3, <3>4, <3>5, <3>6, <3>7
    <2>3. QED BY <1>1, <2>1, <2>2 DEF InsertUser
  <1>2. CASE UpdateUser(c)
    <2>0. call[c].on \in User /\ call[c].to \in Statuses
      BY <1>2 DEF UpdateUser, CallShape
    <2>1. /\ user' \in [User -> [status : Statuses \cup {"none", "erased"},
                                 login : Login \cup {Nobody}]]
          /\ \A u \in User : Exists(u)' <=> Exists(u)
      BY <1>2, <2>0 DEF UpdateUser, TypeOK, Exists
    <2>2. UNCHANGED <<profile, listed, offers, doc, bucket, history>>
      BY <1>2 DEF UpdateUser
    <2>3. Users' = Users
      BY <2>1 DEF Users
    <2> USE <2>1, <2>2 DEF history
    <2>4. TypeOK' BY DEF TypeOK
    <2>5. CallShape' BY DEF CallShape
    <2>6. DocumentInv' BY DEF DocumentInv
    <2>7. RivalInv' BY DEF RivalInv
    <2>8. UploadInv' BY DEF UploadInv
    <2>9. OfferInv' BY DEF OfferInv
    <2>10. StatsInv' BY <2>3 DEF StatsInv, Counted
    <2>11. QED BY <2>4, <2>5, <2>6, <2>7, <2>8, <2>9, <2>10
  <1>3. CASE InsertProfile(c)
    <2> USE <1>3 DEF InsertProfile, history
    <2>1. TypeOK' BY DEF TypeOK, CallShape
    <2>2. CallShape' BY DEF CallShape
    <2>3. DocumentInv' BY DEF DocumentInv, Exists
    <2>4. RivalInv' BY DEF RivalInv
    <2>5. UploadInv' BY DEF UploadInv
    <2>6. OfferInv' BY DEF OfferInv
    <2>7. StatsInv' BY DEF StatsInv, Counted, Users, Exists, CallShape
    <2>8. QED BY <2>1, <2>2, <2>3, <2>4, <2>5, <2>6, <2>7
  <1>4. CASE Stats(c)
    <2> USE <1>4 DEF Stats, rows
    <2>0. ~wrong'
      <3>1. ~wrong BY DEF StatsInv
      <3>2. /\ call[c].on - Cardinality(profile) - disturbed[c] <= Cardinality(Users \ profile)
            /\ Cardinality(Users \ profile) <= call[c].on - Cardinality(profile) + disturbed[c]
        <4>1. disturbed[c] \in Nat /\ Counted(c)
          BY DEF TypeOK, StatsInv
        <4>2. /\ Cardinality(profile) \in Nat /\ Cardinality(Users \ profile) \in Nat
              /\ Cardinality(Users) = Cardinality(Users \ profile) + Cardinality(profile)
          <5>1. profile \subseteq Users BY DEF StatsInv
          <5>2. QED BY <5>1, CustomersCounted, UsersFinite
        <4>3. QED BY <4>1, <4>2 DEF Counted
      <3>3. QED BY <3>1, <3>2
    <2>1. TypeOK' BY <2>0 DEF TypeOK
    <2>2. CallShape' BY DEF CallShape
    <2>3. DocumentInv' BY DEF DocumentInv, Exists
    <2>4. RivalInv' BY DEF RivalInv
    <2>5. UploadInv' BY DEF UploadInv
    <2>6. OfferInv' BY DEF OfferInv
    <2>7. StatsInv' BY <2>0 DEF StatsInv, Counted, Users, Exists
    <2>8. QED BY <2>1, <2>2, <2>3, <2>4, <2>5, <2>6, <2>7
  <1>5. QED BY <1>1, <1>2, <1>3, <1>4

LEMMA OfferStepsIInv ==
    ASSUME IInv, NEW c \in Caller, Offer(c) \/ Withdraw(c)
    PROVE  IInv'
  <1>0. /\ call' \in [Caller -> Call]
        /\ call'[c] = Idle /\ call'[c].op = "none" /\ call'[c].at = "idle"
        /\ \A d \in Caller \ {c} : call'[d] = call[d]
        /\ UNCHANGED <<calls, faults, user, profile, listed, doc, bucket, rivals, late, disturbed, wrong>>
    BY EndShape DEF Offer, Withdraw, Ends
  <1>u. call[c].on \in User
    BY DEF IInv, CallShape, Offer, Withdraw, At
  <1> USE <1>0 DEF IInv
  <1>1. CallShape' BY DEF CallShape
  <1>2. DocumentInv' BY DEF DocumentInv, Exists
  <1>3. RivalInv' BY DEF RivalInv
  <1>4. UploadInv' BY DEF UploadInv
  <1>5. StatsInv' BY DEF StatsInv, Counted, Users, Exists
  <1>6. TypeOK' /\ OfferInv'
    <2> DEFINE u == call[c].on
    <2> SUFFICES offers' \in [User -> Nat] /\ overlap' \subseteq User /\ OfferInv'
      BY DEF TypeOK
    <2>1. CASE Offer(c)
      <3>1. /\ At(c, "offer", "write")
            /\ offers' = IF u \in profile /\ listed THEN [offers EXCEPT ![u] = @ + 1] ELSE offers
            /\ overlap' = IF Past("offer", u) = {c} THEN overlap ELSE overlap \cup {u}
        BY <2>1 DEF Offer
      <3>2. u \in overlap' \/ \A d \in Caller \ {c} : ~(call[d].op = "offer" /\ call[d].on = u)
        BY <3>1 DEF Past, CallShape
      <3>3. offers[u] > 0 => u \in overlap
        BY <1>u, <3>1 DEF OfferInv, At
      <3>4. offers' \in [User -> Nat] /\ overlap' \subseteq User /\ overlap \subseteq overlap'
        BY <1>u, <3>1 DEF TypeOK
      <3>5. /\ offers'[u] > 1 => offers[u] > 0
            /\ \A v \in User \ {u} : offers'[v] = offers[v]
        BY <1>u, <3>1 DEF TypeOK, OfferInv
      <3>6. \A v \in User : offers'[v] > 1 => v \in overlap'
        BY <3>3, <3>4, <3>5 DEF OfferInv
      <3>7. \A v \in User : offers'[v] > 0 /\ (\E d \in Caller : call'[d].op = "offer" /\ call'[d].on = v)
                              => v \in overlap'
        BY <3>2, <3>4, <3>5 DEF OfferInv
      <3>8. QED BY <3>4, <3>6, <3>7 DEF OfferInv
    <2>2. CASE Withdraw(c)
      <3>1. /\ offers' = [offers EXCEPT ![u] = 0]
            /\ overlap' \in {overlap, overlap \ {u}}
        BY <2>2 DEF Withdraw
      <3>2. /\ offers' \in [User -> Nat] /\ overlap' \subseteq User
            /\ offers'[u] = 0 /\ \A v \in User \ {u} : offers'[v] = offers[v]
        BY <1>u, <3>1 DEF TypeOK
      <3>3. OfferInv' BY <3>1, <3>2 DEF OfferInv
      <3>4. QED BY <3>2, <3>3
    <2>3. QED BY <2>1, <2>2
  <1>7. QED BY <1>1, <1>2, <1>3, <1>4, <1>5, <1>6

LEMMA ServiceStepsIInv ==
    ASSUME IInv, NEW c \in Caller, InsertService(c) \/ UpdateService(c)
    PROVE  IInv'
  <1>1. /\ call' \in [Caller -> Call]
        /\ call'[c] = Idle /\ call'[c].op = "none" /\ call'[c].at = "idle"
        /\ \A d \in Caller \ {c} : call'[d] = call[d]
        /\ UNCHANGED <<user, profile, offers, doc, bucket, calls, faults, history>>
        /\ listed' \in BOOLEAN
    BY EndShape DEF InsertService, UpdateService, Ends, rows, IInv, TypeOK
  <1> USE <1>1 DEF IInv, history
  <1>2. TypeOK' BY DEF TypeOK
  <1>3. CallShape' BY DEF CallShape
  <1>4. DocumentInv' BY DEF DocumentInv, Exists
  <1>5. RivalInv' BY DEF RivalInv
  <1>6. UploadInv' BY DEF UploadInv
  <1>7. OfferInv' BY DEF OfferInv
  <1>8. StatsInv' BY DEF StatsInv, Counted, Users, Exists
  <1>9. QED BY <1>2, <1>3, <1>4, <1>5, <1>6, <1>7, <1>8

LEMMA PutIInv ==
    ASSUME IInv, NEW c \in Caller, Put(c)
    PROVE  IInv'
  <1>0. /\ call[c].op = "upload" /\ call[c].at = "put" /\ call[c].on \in Doc
        /\ UNCHANGED <<user, profile, listed, offers, doc, calls, faults, history>>
        /\ bucket' \in {bucket, bucket \cup {call[c].on}}
    BY DEF Put, Uploaded, At, IInv, CallShape, Ends
  <1>1. CASE call' = [call EXCEPT ![c].at = "write"] /\ bucket' = bucket \cup {call[c].on}
    <2>0. call \in [Caller -> Call] /\ call' = [call EXCEPT ![c].at = "write"]
      BY <1>1 DEF IInv, TypeOK
    <2>a. call' = [call EXCEPT ![c] = [call[c] EXCEPT !.at = "write"]]
      BY <2>0
    <2>b. [call[c] EXCEPT !.at = "write"]
             = [op |-> call[c].op, at |-> "write", on |-> call[c].on, to |-> call[c].to]
      <3> DEFINE A == {"none", "create", "update", "register", "list", "relist", "offer",
                       "withdraw", "upload", "decide", "stats"}
                 B == {"idle", "put", "write"}
                 C == User \cup Doc \cup Login \cup {Nobody} \cup 0..Cardinality(User)
                 D == User \cup Statuses \cup Verdicts \cup {Nobody}
      <3>1. call[c] \in [op : A, at : B, on : C, to : D]
        BY <2>0 DEF Call
      <3> HIDE DEF A, B, C, D
      <3>2. QED BY <3>1
    <2>1. call' = [call EXCEPT ![c] = [op |-> call[c].op, at |-> "write",
                                       on |-> call[c].on, to |-> call[c].to]]
      BY <2>a, <2>b
    <2>2. /\ call' \in [Caller -> Call]
          /\ call'[c].op = "upload" /\ call'[c].at = "write"
          /\ call'[c].on = call[c].on /\ call'[c].to = call[c].to
          /\ \A d \in Caller \ {c} : call'[d] = call[d]
      BY <1>0, <2>1 DEF IInv, TypeOK, Call
    <2> USE <1>0, <1>1, <2>2 DEF IInv, history
    <2>3. TypeOK' BY DEF TypeOK
    <2>4. CallShape' BY DEF CallShape
    <2>5. DocumentInv' BY DEF DocumentInv, Exists
    <2>6. RivalInv' BY DEF RivalInv
    <2>7. UploadInv' BY DEF UploadInv
    <2>8. OfferInv' BY DEF OfferInv
    <2>9. StatsInv' BY DEF StatsInv, Counted, Users, Exists
    <2>10. QED BY <2>3, <2>4, <2>5, <2>6, <2>7, <2>8, <2>9
  <1>2. CASE Ends(c)
    <2>1. /\ call' \in [Caller -> Call]
          /\ call'[c] = Idle /\ call'[c].op = "none" /\ call'[c].at = "idle"
          /\ \A d \in Caller \ {c} : call'[d] = call[d]
      BY <1>2, EndShape DEF Ends
    <2> USE <1>0, <2>1 DEF IInv, history
    <2>3. TypeOK' BY DEF TypeOK
    <2>4. CallShape' BY DEF CallShape
    <2>5. DocumentInv' BY DEF DocumentInv, Exists
    <2>6. RivalInv' BY DEF RivalInv
    <2>7. UploadInv' BY DEF UploadInv
    <2>8. OfferInv' BY DEF OfferInv
    <2>9. StatsInv' BY DEF StatsInv, Counted, Users, Exists
    <2>10. QED BY <2>3, <2>4, <2>5, <2>6, <2>7, <2>8, <2>9
  <1>3. QED BY <1>1, <1>2 DEF Put, Uploaded

(* The steps that write a document.                                        *)
LEMMA DocumentStepsIInv ==
    ASSUME IInv, NEW c \in Caller, InsertDocument(c) \/ Decide(c)
    PROVE  IInv'
  <1>0. /\ call' \in [Caller -> Call]
        /\ call'[c] = Idle /\ call'[c].op = "none" /\ call'[c].at = "idle"
        /\ \A d \in Caller \ {c} : call'[d] = call[d]
        /\ UNCHANGED <<calls, faults, user, profile, listed, offers, bucket, overlap, disturbed, wrong>>
    BY EndShape DEF InsertDocument, Decide, Ends, history
  <1>d. call[c].on \in Doc
    BY DEF IInv, CallShape, InsertDocument, Decide, At
  <1> USE <1>0, <1>d DEF IInv
  <1>1. CallShape' BY DEF CallShape
  <1>2. OfferInv' BY DEF OfferInv
  <1>3. StatsInv' BY DEF StatsInv, Counted, Users, Exists
  <1>4. CASE InsertDocument(c) /\ Exists(call[c].to)
    <2> DEFINE d == call[c].on
    <2>1. /\ call[c].op = "upload" /\ call[c].at = "write" /\ call[c].to \in User
          /\ doc' = [doc EXCEPT ![d] = [status |-> "PENDING", owner |-> call[c].to]]
          /\ UNCHANGED <<rivals, late>>
      BY <1>4 DEF InsertDocument, At, CallShape, history
    <2>2. /\ doc' \in [Doc -> [status : {"none", "PENDING", "erased"} \cup Verdicts,
                               owner : User \cup {Nobody}]]
          /\ doc'[d].status = "PENDING" /\ doc'[d].owner = call[c].to
          /\ \A e \in Doc \ {d} : doc'[e] = doc[e]
      BY <2>1 DEF TypeOK
    <2> USE <2>1, <2>2
    <2>3. TypeOK' BY DEF TypeOK
    <2>4. doc[d].status = "none" /\ d \in bucket
      BY DEF UploadInv
    <2>5. DocumentInv' BY <1>4, <2>4 DEF DocumentInv, Exists
    <2>6. RivalInv' BY <2>4 DEF RivalInv, Verdicts, CallShape
    <2>7. UploadInv' BY <2>4 DEF UploadInv, CallShape
    <2>8. QED BY <1>1, <1>2, <1>3, <2>3, <2>5, <2>6, <2>7
  <1>5. CASE Decide(c) /\ doc[call[c].on].status # "erased"
    <2> DEFINE d == call[c].on
    <2>1. /\ call[c].op = "decide" /\ call[c].to \in Verdicts
          /\ doc' = [doc EXCEPT ![d].status = call[c].to]
          /\ \/ /\ doc[d].status = "PENDING"
                /\ rivals' = [rivals EXCEPT ![d] = Past("decide", d) \ {c}] /\ late' = late
             \/ /\ doc[d].status # "PENDING"
                /\ late' = [late EXCEPT ![d] = @ \cup {c}] /\ rivals' = rivals
      BY <1>5 DEF Decide, At, CallShape
    <2>2. doc[d].status \in {"PENDING"} \cup Verdicts
      BY <1>5, <2>1 DEF RivalInv, TypeOK
    <2>3. doc' = [doc EXCEPT ![d] = [status |-> call[c].to, owner |-> doc[d].owner]]
      <3> DEFINE A == {"none", "PENDING", "erased"} \cup Verdicts
                 B == User \cup {Nobody}
      <3>1. doc \in [Doc -> [status : A, owner : B]]
        BY DEF TypeOK
      <3> HIDE DEF A, B
      <3>2. doc' = [doc EXCEPT ![d] = [doc[d] EXCEPT !.status = call[c].to]]
        BY <2>1, <3>1
      <3>3. [doc[d] EXCEPT !.status = call[c].to] = [status |-> call[c].to, owner |-> doc[d].owner]
        BY <3>1
      <3>4. QED BY <3>2, <3>3
    <2>4. /\ doc' \in [Doc -> [status : {"none", "PENDING", "erased"} \cup Verdicts,
                               owner : User \cup {Nobody}]]
          /\ doc'[d].status \in Verdicts /\ doc'[d].owner = doc[d].owner
          /\ \A e \in Doc \ {d} : doc'[e] = doc[e]
      BY <2>1, <2>3 DEF TypeOK
    <2>5. /\ rivals' \in [Doc -> SUBSET Caller] /\ late' \in [Doc -> SUBSET Caller]
          /\ late'[d] \subseteq rivals'[d]
          /\ \A e \in Doc \ {d} : late'[e] = late[e] /\ rivals'[e] = rivals[e]
          /\ \A e \in Caller \ {c} : call[e].op = "decide" /\ call[e].on = d => e \in rivals'[d]
      <3>1. CASE doc[d].status = "PENDING"
        <4>1. late[d] = {}
          BY <3>1 DEF DocumentInv
        <4>2. \A e \in Caller : call[e].op = "decide" /\ call[e].on = d => e \in Past("decide", d)
          BY DEF Past, CallShape
        <4>3. Past("decide", d) \subseteq Caller
          BY DEF Past
        <4>4. /\ rivals' = [rivals EXCEPT ![d] = Past("decide", d) \ {c}] /\ late' = late
              /\ rivals \in [Doc -> SUBSET Caller] /\ late \in [Doc -> SUBSET Caller]
          BY <2>1, <3>1 DEF TypeOK
        <4>5. Past("decide", d) \ {c} \in SUBSET Caller
          BY <4>3
        <4> HIDE <1>0, <2>1, <3>1 DEF d, IInv
        <4>6. /\ rivals' \in [Doc -> SUBSET Caller] /\ late' \in [Doc -> SUBSET Caller]
              /\ rivals'[d] = Past("decide", d) \ {c}
              /\ \A e \in Doc \ {d} : late'[e] = late[e] /\ rivals'[e] = rivals[e]
          BY <1>d, <4>4, <4>5 DEF d
        <4>7. QED BY <1>d, <4>1, <4>2, <4>4, <4>6 DEF d
      <3>2. CASE doc[d].status # "PENDING"
        <4>1. \A e \in Caller : call[e].op = "decide" /\ call[e].on = d => e \in rivals[d]
          BY <2>2, <3>2 DEF RivalInv
        <4>2. /\ rivals \in [Doc -> SUBSET Caller] /\ late \in [Doc -> SUBSET Caller]
              /\ late[d] \subseteq rivals[d]
          BY DEF TypeOK, DocumentInv
        <4>3. QED BY <2>1, <3>2, <4>1, <4>2
      <3>3. QED BY <3>1, <3>2
    <2>6. TypeOK' BY <2>4, <2>5 DEF TypeOK
    <2>7. DocumentInv' BY <2>2, <2>4, <2>5 DEF DocumentInv, Exists, Verdicts
    <2>8. RivalInv' BY <2>2, <2>4, <2>5 DEF RivalInv, Verdicts, CallShape
    <2>9. UploadInv' BY <2>2, <2>4, SMTT(30) DEF UploadInv, Verdicts, CallShape
    <2>10. QED BY <1>1, <1>2, <1>3, <2>6, <2>7, <2>8, <2>9
  <1>6. CASE UNCHANGED <<doc, rivals, late>>
    BY <1>6, EndsIInv DEF InsertDocument, Decide, Ends, rows, history, TypeOK
  <1>7. QED BY <1>4, <1>5, <1>6 DEF InsertDocument, Decide, history

LEMMA EraseIInv ==
    ASSUME IInv, NEW u \in User, Erase(u)
    PROVE  IInv'
  <1> USE DEF IInv, Erase, Disturbs
  <1>1. \A d \in Doc : /\ doc[d].owner = u => doc'[d].status = "erased"
                      /\ doc[d].owner # u => doc'[d] = doc[d]
    BY DEF TypeOK
  <1>2. /\ doc' \in [Doc -> [status : {"none", "PENDING", "erased"} \cup Verdicts,
                             owner : User \cup {Nobody}]]
        /\ \A d \in Doc : doc'[d].owner = doc[d].owner
    <2> DEFINE A == {"none", "PENDING", "erased"} \cup Verdicts
               B == User \cup {Nobody}
    <2>1. doc \in [Doc -> [status : A, owner : B]] /\ "erased" \in A
      BY DEF TypeOK
    <2> HIDE DEF A, B
    <2>2. \A d \in Doc : [doc[d] EXCEPT !.status = "erased"]
                           = [status |-> "erased", owner |-> doc[d].owner]
      BY <2>1
    <2>3. doc' = [d \in Doc |-> IF doc[d].owner = u
                                THEN [status |-> "erased", owner |-> doc[d].owner] ELSE doc[d]]
      BY <2>2
    <2>4. QED BY <2>1, <2>3 DEF A, B
  <1>3. /\ user' \in [User -> [status : Statuses \cup {"none", "erased"}, login : Login \cup {Nobody}]]
        /\ user'[u].status = "erased" /\ \A v \in User \ {u} : user'[v] = user[v]
        /\ offers' \in [User -> Nat] /\ offers'[u] = 0
        /\ \A v \in User \ {u} : offers'[v] = offers[v]
    BY DEF TypeOK
  <1>d. /\ disturbed' \in [Caller -> Nat]
        /\ \A c \in Caller : call'[c].op = "stats" => Counted(c)'
    <2>1. Users' = Users \ {u} /\ u \in Users
      <3>1. Exists(u) /\ ~Exists(u)' /\ \A v \in User \ {u} : Exists(v)' <=> Exists(v)
        BY <1>3 DEF Exists, Statuses
      <3> HIDE DEF Erase, IInv
      <3>2. QED BY <3>1 DEF Users
    <2>2. IInv /\ Disturbs
      OBVIOUS
    <2>3. \A c \in Caller : call'[c].op = "stats" => call'[c] = call[c]
      OBVIOUS
    <2> HIDE DEF IInv, Erase, Disturbs
    <2>4. QED BY <2>1, <2>2, <2>3, DisturbedCount
  <1>4. TypeOK'
    <2>1. /\ UNCHANGED <<listed, bucket, call, calls, faults, rivals, late, overlap, wrong>>
          /\ profile' \subseteq profile /\ TypeOK
      OBVIOUS
    <2> HIDE DEF IInv, Erase, Disturbs
    <2>2. QED BY <1>2, <1>3, <1>d, <2>1 DEF TypeOK
  <1>5. CallShape' BY DEF CallShape
  <1>6. \A d \in Doc : doc[d].status = "none" => doc[d].owner # u
    BY NobodyAssumption DEF DocumentInv
  <1>7. DocumentInv' BY <1>1, <1>2, <1>3, <1>6 DEF DocumentInv, Exists, Verdicts
  <1>8. RivalInv' BY <1>1, <1>6 DEF RivalInv, CallShape, Verdicts
  <1>9. UploadInv' BY <1>1, <1>6 DEF UploadInv, CallShape
  <1>10. OfferInv' BY <1>3 DEF OfferInv
  <1>11. StatsInv' BY <1>3, <1>d DEF StatsInv, Users, Exists, TypeOK
  <1>12. QED BY <1>4, <1>5, <1>7, <1>8, <1>9, <1>10, <1>11

(* The calls that begin.                                                   *)
LEMMA CallsBegin ==
    ASSUME IInv, NEW c \in Caller
    PROVE  /\ \A l \in Login \cup {Nobody} : BeginCreate(c, l) => IInv'
           /\ \A u \in User, s \in Statuses : BeginUpdate(c, u, s) => IInv'
           /\ \A u \in User : BeginRegister(c, u) => IInv'
           /\ \A u \in User : BeginOffer(c, u) => IInv'
           /\ \A u \in User : BeginWithdraw(c, u) => IInv'
           /\ \A u \in User, d \in Doc : BeginUpload(c, u, d) => IInv'
           /\ \A d \in Doc, v \in Verdicts : BeginDecide(c, d, v) => IInv'
           /\ BeginStats(c) => IInv'
           /\ BeginCreateService(c) \/ BeginUpdateService(c) => IInv'
  <1> USE BeginsIInv DEF history
  <1>1. ASSUME NEW l \in Login \cup {Nobody}, BeginCreate(c, l) PROVE IInv'
    <2>1. [op |-> "create", at |-> "write", on |-> l, to |-> Nobody] \in Call BY DEF Call
    <2>2. QED BY <1>1, <2>1 DEF BeginCreate
  <1>2. ASSUME NEW u \in User, NEW s \in Statuses, BeginUpdate(c, u, s) PROVE IInv'
    <2>1. [op |-> "update", at |-> "write", on |-> u, to |-> s] \in Call BY DEF Call
    <2>2. QED BY <1>2, <2>1 DEF BeginUpdate
  <1>3. ASSUME NEW u \in User, BeginRegister(c, u) PROVE IInv'
    <2>1. [op |-> "register", at |-> "write", on |-> u, to |-> Nobody] \in Call BY DEF Call
    <2>2. QED BY <1>3, <2>1 DEF BeginRegister
  <1>4. ASSUME NEW u \in User, BeginOffer(c, u) PROVE IInv'
    <2>1. [op |-> "offer", at |-> "write", on |-> u, to |-> Nobody] \in Call BY DEF Call
    <2>2. QED BY <1>4, <2>1 DEF BeginOffer
  <1>5. ASSUME NEW u \in User, BeginWithdraw(c, u) PROVE IInv'
    <2>1. [op |-> "withdraw", at |-> "write", on |-> u, to |-> Nobody] \in Call BY DEF Call
    <2>2. QED BY <1>5, <2>1 DEF BeginWithdraw
  <1>6. ASSUME NEW u \in User, NEW d \in Doc, BeginUpload(c, u, d) PROVE IInv'
    <2>1. [op |-> "upload", at |-> "put", on |-> d, to |-> u] \in Call BY DEF Call
    <2>2. QED BY <1>6, <2>1 DEF BeginUpload
  <1>7. ASSUME NEW d \in Doc, NEW v \in Verdicts, BeginDecide(c, d, v) PROVE IInv'
    <2>1. [op |-> "decide", at |-> "write", on |-> d, to |-> v] \in Call BY DEF Call
    <2>2. QED BY <1>7, <2>1 DEF BeginDecide
  <1>8. ASSUME BeginStats(c) PROVE IInv'
    <2>1. [op |-> "stats", at |-> "write", on |-> CountUsers, to |-> Nobody] \in Call
      BY UsersFinite DEF Call, CountUsers
    <2>2. QED BY <1>8, <2>1 DEF BeginStats, CountUsers
  <1>9. ASSUME BeginCreateService(c) \/ BeginUpdateService(c) PROVE IInv'
    <2>1. /\ [op |-> "list", at |-> "write", on |-> Nobody, to |-> Nobody] \in Call
          /\ [op |-> "relist", at |-> "write", on |-> Nobody, to |-> Nobody] \in Call
      BY DEF Call
    <2>2. CASE BeginCreateService(c) BY <2>1, <2>2 DEF BeginCreateService
    <2>3. CASE BeginUpdateService(c) BY <2>1, <2>3 DEF BeginUpdateService
    <2>4. QED BY <1>9, <2>2, <2>3
  <1>10. QED BY <1>1, <1>2, <1>3, <1>4, <1>5, <1>6, <1>7, <1>8, <1>9

LEMMA NextIInv == IInv /\ [Next]_vars => IInv'
  <1> SUFFICES ASSUME IInv, [Next]_vars PROVE IInv'
    OBVIOUS
  <1>1. ASSUME NEW c \in Caller, Dies(c) PROVE IInv'
    <2>1. faults' \in 0..MaxFaults
      BY <1>1, BoundsAssumption DEF Dies, IInv, TypeOK
    <2>2. QED BY <1>1, <2>1, EndsIInv DEF Dies
  <1>2. CASE UNCHANGED vars
    BY <1>2 DEF vars, rows, history, IInv, TypeOK, CallShape, DocumentInv, RivalInv, UploadInv,
                OfferInv, StatsInv, Counted, Exists, Users
  <1>3. QED
    BY <1>1, <1>2, CallsBegin, UserStepsIInv, OfferStepsIInv, ServiceStepsIInv, PutIInv, DocumentStepsIInv, EraseIInv
       DEF Next, UserCalls, ProviderCalls, ServiceCalls, DocumentCalls, Continues

(* Every reachable state satisfies the inductive invariant.                *)
THEOREM Invariance == Spec => []IInv
  BY InitIInv, NextIInv, PTL DEF Spec

(* The variables keep their types.                                         *)
THEOREM TypeCorrect == Spec => []TypeOK
  <1>1. IInv => TypeOK BY DEF IInv
  <1>2. QED BY <1>1, Invariance, PTL

(* A stored document has its file and its owner, whatever fails.           *)
THEOREM FilesKept == Spec => []DocumentsHaveFiles
  <1>1. IInv => DocumentsHaveFiles BY DEF IInv, DocumentInv, DocumentsHaveFiles
  <1>2. QED BY <1>1, Invariance, PTL

(* Only a call that read PENDING overwrites another's verdict.             *)
THEOREM VerdictsStand == Spec => []VerdictStandsUnlessRivalled
  <1>1. IInv => VerdictStandsUnlessRivalled
    BY DEF IInv, DocumentInv, VerdictStandsUnlessRivalled
  <1>2. QED BY <1>1, Invariance, PTL

(* A service is offered twice only after two calls were past the check.    *)
THEOREM OffersTwiceOnlyByOverlap == Spec => []OfferedTwiceOnlyByOverlap
  <1>1. IInv => OfferedTwiceOnlyByOverlap BY DEF IInv, OfferInv, OfferedTwiceOnlyByOverlap
  <1>2. QED BY <1>1, Invariance, PTL

(* The customers of the statistics (getStats) are off by no more than the  *)
(* accounts that came or went between its two counts.                      *)
THEOREM StatsBounded == Spec => []StatsOffByComersAndGoers
  <1>1. IInv => StatsOffByComersAndGoers BY DEF IInv, StatsInv, StatsOffByComersAndGoers
  <1>2. QED BY <1>1, Invariance, PTL
=============================================================================
