---------------------------- MODULE WeeklyReport ----------------------------
(***************************************************************************)
(* The e-mail of WeeklyReportService about one available provider, as a    *)
(* function of the requests and reviews that ServiceRequest stores.  One   *)
(* query joins the provider to its requests of the week and to its reviews *)
(* of the week, and aggregates the rows.  The job writes nothing to the    *)
(* database; what it would send is looked at in every state.               *)
(***************************************************************************)
EXTENDS ServiceRequest

CONSTANTS Price,     \* Price[q]: price_final of q, set when q is created; 0 stands for NULL
          Rating,    \* Rating[q]: the rating of the review of q
          MaxAmount  \* bound on both

\* The table is finite, so that its rows can be counted.
ASSUME RequestsAssumption == IsFiniteSet(Request)

ASSUME AmountsAssumption ==
    /\ MaxAmount \in Nat
    /\ Price \in [Request -> 0..MaxAmount]
    /\ Rating \in [Request -> 0..MaxAmount]

\* The reviews that are stored, each known by its request.
Reviewed == {q \in Request : reviews[q] > 0}

\* What can be younger than seven days: a review is never older than its request.
Weeks ==
    {w \in [requests : SUBSET {q \in Request : Exists(q)}, reviews : SUBSET Reviewed] :
        w.requests \cap Reviewed \subseteq w.reviews}

\* A mutated query with an inner join to the reviews.
RowsInner(w) == w.requests \X w.reviews

\* provider_profiles LEFT JOIN service_requests LEFT JOIN reviews: the two are joined
\* to the provider and not to each other; without reviews each request has one row.
Rows(w) == w.requests \X (IF w.reviews = {} THEN {"null"} ELSE w.reviews)

\* FILTER (WHERE sr.status = ...), and the rows that have a review.
RowsOf(w, s) == {r \in Rows(w) : row[r[1]] = s}
RatedRows(w) == {r \in Rows(w) : r[2] \in w.reviews}

\* SUM over the elements of S of f, the number of units of the amounts.
Units(S, f) == {u \in S \X (1..MaxAmount) : u[2] <= f[u[1]]}
Sum(S, f) == Cardinality(Units(S, f))

\* HAVING COUNT(sr.id) > 0.
Mailed(w) == Rows(w) # {}

\* The variables of the e-mail.  The average is the quotient of the two parts of
\* average_rating, 0 when there is nothing to divide by; its rounding is left out.
Mail(w) ==
    [completed_count |-> Cardinality(RowsOf(w, "COMPLETED")),
     cancelled_count |-> Cardinality(RowsOf(w, "CANCELLED")),
     total_earned |-> Sum(RowsOf(w, "COMPLETED"), [r \in Rows(w) |-> Price[r[1]]]),
     average_rating |-> [sum |-> Sum(RatedRows(w), [r \in RatedRows(w) |-> Rating[r[2]]]),
                         count |-> Cardinality(RatedRows(w))]]

-----------------------------------------------------------------------------
(* What there is to report.                                                *)

Having(w, s) == {q \in w.requests : row[q] = s}
Earned(w) == Sum(Having(w, "COMPLETED"), Price)
Stars(w) == Sum(w.reviews, Rating)

\* How often the query sees each request of the week.
Times(w) == IF w.reviews = {} THEN 1 ELSE Cardinality(w.reviews)

\* A provider is mailed in the weeks with a request; the average of the mail is that of
\* the reviews of the week, even of those about older work; its counts and its earnings
\* are those of the week times the number of the reviews, so that they are right with at
\* most one review and only then.
ReportMultipliedByReviews ==
    \A w \in Weeks :
        LET mail == Mail(w)
            times == Times(w)
        IN  /\ Mailed(w) <=> w.requests # {}
            /\ mail.completed_count = times * Cardinality(Having(w, "COMPLETED"))
            /\ mail.cancelled_count = times * Cardinality(Having(w, "CANCELLED"))
            /\ mail.total_earned = times * Earned(w)
            /\ Mailed(w) =>
                  mail.average_rating.sum * Cardinality(w.reviews)
                     = mail.average_rating.count * Stars(w)
=============================================================================
