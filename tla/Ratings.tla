------------------------------ MODULE Ratings ------------------------------
(***************************************************************************)
(* The average rating of a provider and its two writers.  The recalculator *)
(* reads the averages of ALL providers in one statement and writes them    *)
(* one by one, much later; the rating worker computes and writes one       *)
(* average in one statement, which still takes its snapshot before it gets *)
(* the row.  Neither takes a lock, and runs of the recalculator overlap    *)
(* when one of them is manual.  The two do not even mean the same average: *)
(* the recalculator's is of the recent reviews, rounded to hundredths, the *)
(* worker's of all reviews, unrounded.                                     *)
(***************************************************************************)
EXTENDS Naturals, FiniteSets, FiniteSetsExt

CONSTANTS Review,      \* reviews that may be written
          Provider,    \* provider profiles
          ProviderOf,  \* ProviderOf[v]: the provider review v is about
          RatingOf,    \* RatingOf[v]: its stars
          Announced,   \* the reviews for which review.created is published
          Run,         \* runs of the recalculator that may overlap
          BatchSize,   \* BATCH_SIZE
          MaxFailures  \* bound: statements that fail and runs that die

ConstantsOK ==
    /\ IsFiniteSet(Review)
    /\ ProviderOf \in [Review -> Provider]
    /\ RatingOf \in [Review -> 1..5]
    /\ Announced \subseteq Review
    /\ BatchSize \in Nat \ {0}
    /\ MaxFailures \in Nat

ASSUME RatingConstants == ConstantsOK

VARIABLES
    profile,   \* profile[p]: provider_profiles has a row for p
    review,    \* review[v]: "none", "recent" (in the window), "old" or "erased"
    stored,    \* stored[p]: average_rating, in ten-thousandths of a star; 0 without a row
    news,      \* news[v]: the review.created message of v
    snap,      \* snap[v]: the average the worker's statement for v has computed
    busy,      \* the runs in progress
    rows,      \* rows[r][p]: the average run r has read for p, for each p it has a row of
    todo,      \* todo[r]: the rows of r that no batch has taken yet
    batch,     \* batch[r][p]: where the callback of r for p stands, "none" if not in the batch
    result,    \* result[r]: the counters of r
    dirty,     \* history: dirty[r]: providers that somebody else touched since r read, or
               \* at which r itself failed
    outdated,  \* history: the worker's statements whose snapshot is no longer true
    failures   \* failures so far

world == <<profile, review>>
worker == <<news, snap, outdated>>
recalculator == <<busy, rows, todo, batch, result>>
vars == <<world, stored, worker, recalculator, dirty, failures>>

NoCounts == [updated |-> 0, unchanged |-> 0, errors |-> 0]

NoRows == [p \in {} |-> 0]

ReviewsOf(p) == {v \in Review : ProviderOf[v] = p}
Recent(p) == {v \in ReviewsOf(p) : review[v] = "recent"}
Alive(p) == {v \in ReviewsOf(p) : review[v] \in {"recent", "old"}}

\* SUM(rating): a review of k stars is one of those with at least 1, ..., at least k.
AtLeast(S, k) == Cardinality({v \in S : RatingOf[v] >= k})
Stars(S) == AtLeast(S, 1) + AtLeast(S, 2) + AtLeast(S, 3) + AtLeast(S, 4) + AtLeast(S, 5)

\* COALESCE(AVG(rating), 0), cut off well below the other writer's hundredths.
Average(S) == IF S = {} THEN 0 ELSE (10000 * Stars(S)) \div Cardinality(S)

\* AVG(r.rating)::DECIMAL(3,2): hundredths, halves up; no row for no reviews.
RoundedAverage(S) ==
    IF S = {} THEN 0
    ELSE 100 * ((200 * Stars(S) + Cardinality(S)) \div (2 * Cardinality(S)))

Init ==
    /\ profile = [p \in Provider |-> TRUE]
    /\ review = [v \in Review |-> "none"]
    /\ stored = [p \in Provider |-> 0]
    /\ news = [v \in Review |-> "none"]
    /\ snap = [v \in Review |-> 0]
    /\ busy = {}
    /\ rows = [r \in Run |-> NoRows]
    /\ todo = [r \in Run |-> {}]
    /\ batch = [r \in Run |-> [p \in Provider |-> "none"]]
    /\ result = [r \in Run |-> NoCounts]
    /\ dirty = [r \in Run |-> {}]
    /\ outdated = {}
    /\ failures = 0

\* What the runs in R, and the statements of the worker, have read about p is old.
Touches(R, p) ==
    dirty' = [r \in Run |-> IF r \in R /\ p \in DOMAIN rows[r] THEN dirty[r] \cup {p} ELSE dirty[r]]
Outdates(p) == outdated' = outdated \cup {v \in ReviewsOf(p) : news[v] = "read"}

-----------------------------------------------------------------------------
(* Reviews and profiles.                                                   *)

Becomes(v, status) ==
    /\ review' = [review EXCEPT ![v] = status]
    /\ Touches(busy, ProviderOf[v])
    /\ Outdates(ProviderOf[v])
    /\ UNCHANGED <<profile, stored, snap, recalculator, failures>>

\* CreateReviewUseCase.  The repository has a consumer of review.created and no
\* publisher: the message comes from outside.
Create(v) ==
    /\ review[v] = "none"
    /\ profile[ProviderOf[v]]
    /\ Becomes(v, "recent")
    /\ news' = [news EXCEPT ![v] = IF v \in Announced THEN "ready" ELSE @]

\* RATING_RECALC_WINDOW_DAYS pass.
Age(v) == review[v] = "recent" /\ Becomes(v, "old") /\ UNCHANGED news

\* The request or its contractor is erased, and the review with it.
EraseReview(v) == review[v] \in {"recent", "old"} /\ Becomes(v, "erased") /\ UNCHANGED news

\* The account of the provider is erased, and its reviews with it.
EraseProvider(p) ==
    /\ profile[p]
    /\ profile' = [profile EXCEPT ![p] = FALSE]
    /\ review' = [v \in Review |-> IF v \in Alive(p) THEN "erased" ELSE review[v]]
    /\ stored' = [stored EXCEPT ![p] = 0]
    /\ Touches(busy, p)
    /\ Outdates(p)
    /\ UNCHANGED <<news, snap, recalculator, failures>>

\* An UPDATE of the profile's average_rating; of an erased profile it finds no row.
Assign(p, value) == stored' = [stored EXCEPT ![p] = IF profile[p] THEN value ELSE @]

Fails ==
    /\ failures < MaxFailures
    /\ failures' = failures + 1

-----------------------------------------------------------------------------
(* The rating worker: UPDATE ... SET average_rating = (SELECT AVG ...).     *)

ReadsAverage(v, value) ==
    /\ news[v] = "ready"
    /\ news' = [news EXCEPT ![v] = "read"]
    /\ snap' = [snap EXCEPT ![v] = value]
    /\ UNCHANGED <<world, stored, outdated, recalculator, dirty, failures>>

\* A mutated handler that adds the stars of its own event to the stored average.
SnapshotIncremental(v) ==
    ReadsAverage(v, (stored[ProviderOf[v]] + 10000 * RatingOf[v]) \div 2)

\* The statement starts: its snapshot fixes the average, before it gets the row.
Snapshot(v) == ReadsAverage(v, Average(Alive(ProviderOf[v])))

Leaves(v, at) ==
    /\ news' = [news EXCEPT ![v] = at]
    /\ snap' = [snap EXCEPT ![v] = 0]
    /\ outdated' = outdated \ {v}
    /\ UNCHANGED <<world, recalculator>>

\* The statement writes, and the message is acknowledged.
WriteSnapshot(v) ==
    /\ news[v] = "read"
    /\ Assign(ProviderOf[v], snap[v])
    /\ Leaves(v, "done")
    /\ Touches(busy, ProviderOf[v])
    /\ UNCHANGED failures

\* The statement fails, perhaps after it took effect, and the consumer throws again:
\* the message is redelivered.
HandlerFails(v) ==
    /\ news[v] = "read"
    /\ Fails
    /\ Leaves(v, "ready")
    /\ \/ UNCHANGED <<stored, dirty>>
       \/ Assign(ProviderOf[v], snap[v]) /\ Touches(busy, ProviderOf[v])

-----------------------------------------------------------------------------
(* The recalculator.                                                       *)

\* The SELECT of the averages of the window.
Scan(r) ==
    /\ r \notin busy
    /\ busy' = busy \cup {r}
    /\ rows' = [rows EXCEPT ![r] = [p \in {q \in Provider : Recent(q) # {}} |->
                                      RoundedAverage(Recent(p))]]
    /\ todo' = [todo EXCEPT ![r] = DOMAIN rows'[r]]
    /\ result' = [result EXCEPT ![r] = NoCounts]
    /\ dirty' = [dirty EXCEPT ![r] = {}]
    /\ UNCHANGED <<world, stored, worker, batch, failures>>

InBatch(r) == {p \in Provider : batch[r][p] # "none"}

\* rows.slice(i, i + BATCH_SIZE); the rows come in no particular order.
NextBatch(r) ==
    /\ r \in busy
    /\ InBatch(r) = {}
    /\ todo[r] # {}
    /\ \E B \in SUBSET todo[r] :
          /\ Cardinality(B) = Min({BatchSize, Cardinality(todo[r])})
          /\ batch' = [batch EXCEPT ![r] = [p \in Provider |-> IF p \in B THEN "find" ELSE "none"]]
          /\ todo' = [todo EXCEPT ![r] = @ \ B]
    /\ UNCHANGED <<world, stored, worker, busy, rows, result, dirty, failures>>

Counts(r, counter) == result' = [result EXCEPT ![r][counter] = @ + 1]
Proceeds(r, p, at) == batch' = [batch EXCEPT ![r][p] = at]

\* A mutated comparison of whole stars.
FindWholeStars(r, p) ==
    /\ batch[r][p] = "find"
    /\ LET same == stored[p] \div 10000 = rows[r][p] \div 10000
       IN IF profile[p] /\ ~same
          THEN Proceeds(r, p, "update") /\ UNCHANGED result
          ELSE Proceeds(r, p, "none") /\ IF profile[p] THEN Counts(r, "unchanged") ELSE UNCHANGED result
    /\ UNCHANGED <<world, stored, worker, busy, rows, todo, dirty, failures>>

\* findOne, and the two early returns.
Find(r, p) ==
    /\ batch[r][p] = "find"
    /\ \/ /\ ~profile[p]
          /\ Proceeds(r, p, "none")
          /\ UNCHANGED result
       \/ /\ profile[p]
          /\ stored[p] = rows[r][p]
          /\ Proceeds(r, p, "none")
          /\ Counts(r, "unchanged")
       \/ /\ profile[p]
          /\ stored[p] # rows[r][p]
          /\ Proceeds(r, p, "update")
          /\ UNCHANGED result
    /\ UNCHANGED <<world, stored, worker, busy, rows, todo, dirty, failures>>

\* update(provider_id, newRating), counted whether or not it finds the row.
Write(r, p) ==
    /\ batch[r][p] = "update"
    /\ Assign(p, rows[r][p])
    /\ Proceeds(r, p, "none")
    /\ Counts(r, "updated")
    /\ Touches(busy \ {r}, p)
    /\ UNCHANGED <<world, worker, busy, rows, todo, failures>>

RowThrows(r, p) ==
    /\ batch[r][p] # "none"
    /\ Fails
    /\ Counts(r, "errors")
    /\ \/ UNCHANGED stored /\ Touches({r}, p)
       \/ batch[r][p] = "update" /\ Assign(p, rows[r][p]) /\ Touches(busy, p)
    /\ UNCHANGED <<world, worker, busy, rows, todo>>

\* A mutated batch whose callbacks share one catch block: the first error ends it.
RowFailsBatch(r, p) ==
    /\ RowThrows(r, p)
    /\ batch' = [batch EXCEPT ![r] = [q \in Provider |-> "none"]]

\* The catch block of the callback, perhaps after the UPDATE took effect: the other
\* rows of the batch go on.
RowFails(r, p) == RowThrows(r, p) /\ Proceeds(r, p, "none")

Stops(r) ==
    /\ busy' = busy \ {r}
    /\ todo' = [todo EXCEPT ![r] = {}]
    /\ batch' = [batch EXCEPT ![r] = [p \in Provider |-> "none"]]
    /\ rows' = [rows EXCEPT ![r] = NoRows]
    /\ result' = [result EXCEPT ![r] = NoCounts]
    /\ dirty' = [dirty EXCEPT ![r] = {}]
    /\ UNCHANGED <<world, stored, worker>>

Done(r) == r \in busy /\ todo[r] = {} /\ InBatch(r) = {}

\* The run returns its result.
Finish(r) == Done(r) /\ Stops(r) /\ UNCHANGED failures

\* The pod dies.
Dies(r) == r \in busy /\ ~Done(r) /\ Fails /\ Stops(r)

-----------------------------------------------------------------------------
Works(r) == NextBatch(r) \/ Finish(r) \/ \E p \in Provider : Find(r, p) \/ Write(r, p)

Next ==
    \/ \E v \in Review : Create(v) \/ Age(v) \/ EraseReview(v)
    \/ \E p \in Provider : EraseProvider(p)
    \/ \E v \in Review : Snapshot(v) \/ WriteSnapshot(v) \/ HandlerFails(v)
    \/ \E r \in Run : Scan(r) \/ Works(r) \/ Dies(r)
    \/ \E r \in Run, p \in Provider : RowFails(r, p)

Spec == Init /\ [][Next]_vars

\* The daily schedule comes round again, and a run that has begun goes on.  Nobody
\* has to write a review, and no message has to arrive.
FairSpec == Spec /\ \A r \in Run : WF_vars(Scan(r)) /\ WF_vars(Works(r))

-----------------------------------------------------------------------------
(* Properties.                                                             *)

Star == 10000
Scores == {0} \cup Star..5 * Star

\* The variables keep their types: whichever of the two divisions an average comes
\* from, it is 0 (no reviews) or between one star and five.  The column, a decimal,
\* has no bounds of its own.
TypeOK ==
    /\ profile \in [Provider -> BOOLEAN]
    /\ review \in [Review -> {"none", "recent", "old", "erased"}]
    /\ stored \in [Provider -> Scores]
    /\ news \in [Review -> {"none", "ready", "read", "done"}]
    /\ snap \in [Review -> Scores]
    /\ busy \in SUBSET Run
    /\ DOMAIN rows = Run
    /\ \A r \in Run : DOMAIN rows[r] \subseteq Provider /\ rows[r] \in [DOMAIN rows[r] -> Scores]
    /\ todo \in [Run -> SUBSET Provider]
    /\ batch \in [Run -> [Provider -> {"none", "find", "update"}]]
    /\ result \in [Run -> [updated : Nat, unchanged : Nat, errors : Nat]]
    /\ dirty \in [Run -> SUBSET Provider]
    /\ outdated \in SUBSET Review
    /\ failures \in 0..MaxFailures

\* A run that ends leaves at each provider of its rows the rounded average of the
\* window, unless somebody else touched that provider meanwhile or its own callback
\* failed: batches, early returns and the other rows' failures change nothing about it.
FinishedRunIsExact ==
    [][\A r \in Run :
          Finish(r) =>
             \A p \in DOMAIN rows[r] \ dirty[r] : stored[p] = RoundedAverage(Recent(p))]_vars

\* Every average that is written is the true one of that moment, of the window or
\* of all reviews, except by a writer that has been overtaken since it read: a
\* run whose provider somebody touched, or a statement that waited for the row.
WrongOnlyIfOvertaken ==
    [][\A p \in Provider :
          profile'[p] /\ stored'[p] \notin {stored[p], RoundedAverage(Recent(p)), Average(Alive(p))} =>
             \/ \E r \in busy : (Write(r, p) \/ RowFails(r, p)) /\ p \in dirty[r]
             \/ \E v \in outdated : WriteSnapshot(v) \/ HandlerFails(v)]_vars

\* The eventual consistency the cron service is there for (SPEC-CRON): once reviews
\* stop coming, a provider with recent reviews ends up with their average, whatever
\* late writers, failures and overlapping runs did before.
RatingsConverge ==
    <>[](\A p \in Provider : profile[p] /\ Recent(p) # {} => stored[p] = RoundedAverage(Recent(p)))
=============================================================================
