------------------------------ MODULE ListingRanker ------------------------------
(***************************************************************************)
(* The router's ranking of listings, rank_listings: a budget, a goal that  *)
(* weighs price, benchmark, availability and reputation, scores scaled     *)
(* between the best and the worst of the candidates.  Scores and weights   *)
(* are in ten-thousandths and hundredths.                                  *)
(***************************************************************************)
EXTENDS Integers, FiniteSets, Functions, FiniteSetsExt, SequencesExt

CONSTANTS
    Offers,         \* listings: price, bench, up, reputation
    NoBench,        \* the benchmark of a host that has none
    Budgets,        \* budgets of a request; one above every price is no budget
    MaxOffers,      \* bound: candidates
    TopN            \* top_n

\* A fraction, in ten-thousandths.
Score == 0..10000

ASSUME RankerAssumption ==
    /\ Budgets \subseteq Nat /\ MaxOffers \in Nat /\ TopN \in Nat
    /\ Offers \subseteq [price: Nat, bench: {NoBench} \cup Nat, up: BOOLEAN,
                        reputation: Score]

VARIABLES
    offers,     \* what fetch_active_listings returns, in its order
    answer      \* the request that was answered last, and its results

rankerVars == <<offers, answer>>

Goals     == {"fastest", "cheapest", "balanced"}
Unasked   == [goal |-> "none"]

RankerInit == offers = <<>> /\ answer = Unasked

-----------------------------------------------------------------------------

\* The candidates: each at its place among the listings.
Affordable(budget) == Restrict(offers, {i \in DOMAIN offers : offers[i].price <= budget})

\* part / whole, rounded to four places.
Ratio(part, whole) == (20000 * part + whole) \div (2 * whole)

Prices(c)  == {c[i].price : i \in DOMAIN c}

\* A host without a benchmark counts as 0 for the range.
Benches(c) == {IF c[i].bench = NoBench THEN 0 ELSE c[i].bench : i \in DOMAIN c}

MUT_PriceScore(c, o) ==
    IF Max(Prices(c)) = Min(Prices(c)) THEN 10000
    ELSE Ratio(o.price - Min(Prices(c)), Max(Prices(c)) - Min(Prices(c)))

PriceScore(c, o) ==
    IF Max(Prices(c)) = Min(Prices(c)) THEN 10000
    ELSE 10000 - Ratio(o.price - Min(Prices(c)), Max(Prices(c)) - Min(Prices(c)))

MUT_Missing == 6000

Missing == 3000

BenchScore(c, o) ==
    IF o.bench = NoBench THEN Missing
    ELSE IF Max(Benches(c)) = Min(Benches(c)) THEN 10000
    ELSE Ratio(o.bench - Min(Benches(c)), Max(Benches(c)) - Min(Benches(c)))

UpScore(o) == IF o.up THEN 10000 ELSE 0

Weights(goal) ==
    CASE goal = "fastest"  -> [price |-> 15, bench |-> 55, up |-> 15, reputation |-> 15]
      [] goal = "cheapest" -> [price |-> 65, bench |-> 10, up |-> 15, reputation |-> 10]
      [] OTHER             -> [price |-> 35, bench |-> 30, up |-> 20, reputation |-> 15]

Composite(c, o, goal) ==
    LET w == Weights(goal) IN
    (w.price * PriceScore(c, o) + w.bench * BenchScore(c, o)
        + w.up * UpScore(o) + w.reputation * o.reputation + 50) \div 100

\* The sort is stable: of equals, the one that came first.
Before(c, goal, j, i) ==
    \/ Composite(c, c[j], goal) > Composite(c, c[i], goal)
    \/ Composite(c, c[j], goal) = Composite(c, c[i], goal) /\ j < i

\* The rank of each candidate.
Ranked(c, goal) ==
    [i \in DOMAIN c |-> 1 + Cardinality({j \in DOMAIN c : Before(c, goal, j, i)})]

-----------------------------------------------------------------------------

ListingFound(o) ==
    /\ Len(offers) < MaxOffers /\ answer = Unasked
    /\ offers' = Append(offers, o)
    /\ UNCHANGED answer

\* POST /router/recommend.
Recommend(goal, budget) ==
    LET c == Affordable(budget) IN
    /\ answer = Unasked
    /\ answer' = [goal |-> goal, budget |-> budget, candidates |-> c,
                  rank |-> Ranked(c, goal), shown |-> {i \in DOMAIN c : Ranked(c, goal)[i] <= TopN},
                  score |-> [i \in DOMAIN c |-> Composite(c, c[i], goal)]]
    /\ UNCHANGED offers

RankerNext ==
    \/ \E o \in Offers : ListingFound(o)
    \/ \E goal \in Goals, budget \in Budgets : Recommend(goal, budget)

RankerSpec == RankerInit /\ [][RankerNext]_rankerVars
-----------------------------------------------------------------------------
(* Properties that hold *)

Asked == answer # Unasked

\* Every variable keeps its type, and every score is a fraction.
RankerTypeOK ==
    /\ Len(offers) <= MaxOffers /\ ToSet(offers) \subseteq Offers
    /\ Asked => \A i \in DOMAIN answer.candidates : answer.score[i] \in Score

\* A listing that is as cheap, as fast, as available and as reputable as another one, both
\* with a benchmark, never scores less, and is ranked before it if it scores more or came
\* first, whatever the goal and the other candidates.
BetterIsNotBelow ==
    Asked => \A i, j \in DOMAIN answer.candidates :
        LET a == answer.candidates[i]  b == answer.candidates[j] IN
        /\ a.bench # NoBench /\ b.bench # NoBench /\ a.bench >= b.bench
        /\ a.price <= b.price /\ UpScore(a) >= UpScore(b) /\ a.reputation >= b.reputation
        => /\ answer.score[i] >= answer.score[j]
           /\ (answer.score[i] > answer.score[j] \/ i <= j) => answer.rank[i] <= answer.rank[j]

\* A listing without a benchmark outscores an otherwise equal one only where that one has
\* less than three tenths of the best benchmark among the candidates.
MissingBeatsOnlySlow ==
    Asked => \A i, j \in DOMAIN answer.candidates :
        LET a == answer.candidates[i]  b == answer.candidates[j] IN
        /\ a.bench = NoBench /\ b.bench # NoBench
        /\ [a EXCEPT !.bench = b.bench] = b /\ answer.score[i] > answer.score[j]
        => 10 * b.bench < 3 * Max(Benches(answer.candidates))
=============================================================================
