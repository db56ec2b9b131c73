------------------------------ MODULE TrustProofs ------------------------------
(***************************************************************************)
(* Proofs about what the platform knows of its hosts, users and images:    *)
(* the safety of the components MCTrust composes, for every value of their *)
(* constants.                                                              *)
(***************************************************************************)
EXTENDS MCTrust, SumLemmas, FiniteSetTheorems, TLAPS

-----------------------------------------------------------------------------
(* GpuAnalytics *)

\* A refresh that is open has read the models of every row that was there when it began,
\* and one that has deleted has hit all of those rows.
RefreshInv(s) ==
    LET x == refresher[s] IN
    x = Resting \/
        /\ x.step \in {"read", "deleted"}
        /\ x.models \subseteq measured /\ x.since \in Nat /\ x.since <= commits
        /\ \A r \in stats : r.n <= x.since => r.model \in x.models
        /\ x.step = "deleted" => \A r \in stats : r.n <= x.since => r \in x.gone

\* Rows of one commit agree on when it began, and of two rows for a model the later was
\* begun before the earlier was there.
RowsInv ==
    /\ stats \subseteq [model : measured, n : Nat, since : Nat]
    /\ \A r \in stats : 1 <= r.n /\ r.n <= commits /\ r.since < r.n
    /\ \A p, q \in stats : p.n = q.n => p.since = q.since
    /\ \A p, q \in stats : p.model = q.model /\ p.n < q.n => q.since < p.n

GpuInv ==
    /\ measured \subseteq GpuModels /\ commits \in Nat /\ DOMAIN refresher = Refreshers
    /\ RowsInv
    /\ \A s \in Refreshers : RefreshInv(s)

LEMMA GpuInitInv == GpuInit => GpuInv
  BY DEF GpuInit, GpuInv, RowsInv, RefreshInv

LEMMA GpuStep == ASSUME GpuInv, [GpuNext]_gpuVars PROVE GpuInv'
  <1>1. /\ measured \subseteq GpuModels /\ commits \in Nat /\ DOMAIN refresher = Refreshers
        /\ RowsInv
        /\ \A s \in Refreshers : RefreshInv(s)
        BY DEF GpuInv
  <1>2. ASSUME NEW g \in GpuModels, Measure(g) PROVE GpuInv'
    <2>1. /\ measured' = measured \cup {g} /\ UNCHANGED <<stats, refresher, commits>>
          BY <1>2 DEF Measure
    <2>2. RowsInv'
          BY <1>1, <2>1 DEF RowsInv
    <2>3. ASSUME NEW s \in Refreshers PROVE RefreshInv(s)'
          BY <1>1, <2>1 DEF RefreshInv
    <2>. QED BY <1>1, <2>1, <2>2, <2>3 DEF GpuInv
  <1>3. ASSUME NEW s \in Refreshers, RefreshReads(s) PROVE GpuInv'
    <2>1. /\ refresher' = [refresher EXCEPT ![s] = [step |-> "read", models |-> measured,
                                                    since |-> commits]]
          /\ UNCHANGED <<measured, stats, commits>>
          BY <1>3 DEF RefreshReads, Aggregated
    <2>2. RowsInv'
          BY <1>1, <2>1 DEF RowsInv
    <2>3. RefreshInv(s)'
      <3>1. refresher'[s] = [step |-> "read", models |-> measured, since |-> commits]
            BY <1>1, <2>1
      <3>2. \A r \in stats : r.model \in measured
            BY <1>1 DEF RowsInv
      <3>. QED BY <1>1, <2>1, <3>1, <3>2 DEF RefreshInv
    <2>4. ASSUME NEW t \in Refreshers, t # s PROVE RefreshInv(t)'
          BY <1>1, <2>1, <2>4 DEF RefreshInv
    <2>. QED BY <1>1, <2>1, <2>2, <2>3, <2>4 DEF GpuInv
  <1>4. ASSUME NEW s \in Refreshers, RefreshDeletes(s) PROVE GpuInv'
    <2>1. PICK w : refresher' = [refresher EXCEPT ![s] =
                       [step |-> "deleted", models |-> @.models, since |-> @.since,
                        gone |-> stats, waits |-> w]]
          BY <1>4 DEF RefreshDeletes, Deleted
    <2>2. refresher[s].step = "read" /\ UNCHANGED <<measured, stats, commits>>
          BY <1>4 DEF RefreshDeletes
    <2>3. RowsInv'
          BY <1>1, <2>2 DEF RowsInv
    <2>4. RefreshInv(s)'
      <3>1. refresher'[s] = [step |-> "deleted", models |-> refresher[s].models,
                             since |-> refresher[s].since, gone |-> stats, waits |-> w]
            BY <1>1, <2>1
      <3>2. RefreshInv(s) /\ refresher[s] # Resting
            BY <1>1, <2>2 DEF Resting
      <3>. QED BY <2>2, <3>1, <3>2 DEF RefreshInv
    <2>5. ASSUME NEW t \in Refreshers, t # s PROVE RefreshInv(t)'
          BY <1>1, <2>1, <2>2, <2>5 DEF RefreshInv
    <2>. QED BY <1>1, <2>1, <2>2, <2>3, <2>4, <2>5 DEF GpuInv
  <1>5. ASSUME NEW s \in Refreshers, refresher' = Ended(s),
               NEW t \in Refreshers, refresher'[t] # Resting
        PROVE  /\ t # s /\ refresher[t] # Resting
               /\ refresher'[t].step = refresher[t].step
               /\ refresher'[t].models = refresher[t].models
               /\ refresher'[t].since = refresher[t].since
               /\ refresher'[t].step = "deleted" => refresher'[t].gone = refresher[t].gone
    <2>1. t # s
          BY <1>5 DEF Ended
    <2>2. CASE refresher[t].step = "deleted"
      <3>1. refresher'[t] = [refresher[t] EXCEPT !.waits = @ \ {s}]
            BY <1>5, <2>1, <2>2 DEF Ended
      <3>. QED BY <2>1, <2>2, <3>1 DEF Resting
    <2>3. CASE refresher[t].step # "deleted"
      <3>1. refresher'[t] = refresher[t]
            BY <1>5, <2>1, <2>3 DEF Ended
      <3>. QED BY <1>5, <2>1, <3>1
    <2>. QED BY <2>2, <2>3
  <1>6. ASSUME NEW s \in Refreshers, RefreshCommits(s) PROVE GpuInv'
    <2>. DEFINE x == refresher[s]
                new == {[model |-> g, n |-> commits + 1, since |-> x.since] : g \in x.models}
    <2>1. /\ x.step = "deleted" /\ commits' = commits + 1 /\ stats' = (stats \ x.gone) \cup new
          /\ refresher' = Ended(s) /\ UNCHANGED measured
          BY <1>6 DEF RefreshCommits
    <2>2. /\ x.models \subseteq measured /\ x.since \in Nat /\ x.since <= commits
          /\ \A r \in stats : r.n <= x.since => r \in x.gone
          BY <1>1, <2>1 DEF RefreshInv, Resting
    <2>3. \A r \in new : /\ r \in [model : measured, n : Nat, since : Nat]
                         /\ r.n = commits + 1 /\ r.since = x.since
          BY <1>1, <2>2
    <2>4. \A r \in stats \ x.gone : /\ r \in [model : measured, n : Nat, since : Nat]
                                    /\ x.since < r.n /\ r.n <= commits
          BY <1>1, <2>2 DEF RowsInv
    <2>. HIDE DEF new
    <2>5. RowsInv'
      <3>1. stats' \subseteq [model : measured, n : Nat, since : Nat] /\ measured' = measured
            BY <2>1, <2>3, <2>4
      <3>2. ASSUME NEW r \in stats' PROVE 1 <= r.n /\ r.n <= commits' /\ r.since < r.n
            BY <1>1, <2>1, <2>2, <2>3 DEF RowsInv
      <3>3. ASSUME NEW p \in stats', NEW q \in stats'
            PROVE  /\ p.n = q.n => p.since = q.since
                   /\ p.model = q.model /\ p.n < q.n => q.since < p.n
        <4>1. CASE p \in new /\ q \in new
              BY <1>1, <2>3, <4>1
        <4>2. CASE p \in new /\ q \in stats \ x.gone
              BY <1>1, <2>3, <2>4, <4>2
        <4>3. CASE p \in stats \ x.gone /\ q \in new
              BY <1>1, <2>3, <2>4, <4>3
        <4>4. CASE p \in stats \ x.gone /\ q \in stats \ x.gone
              BY <1>1, <4>4 DEF RowsInv
        <4>. QED BY <2>1, <4>1, <4>2, <4>3, <4>4
      <3>. QED BY <3>1, <3>2, <3>3 DEF RowsInv
    <2>6. ASSUME NEW t \in Refreshers PROVE RefreshInv(t)'
      <3>1. SUFFICES ASSUME refresher'[t] # Resting PROVE RefreshInv(t)'
            BY DEF RefreshInv
      <3>2. /\ t # s /\ refresher[t] # Resting
            /\ refresher'[t].step = refresher[t].step
            /\ refresher'[t].models = refresher[t].models
            /\ refresher'[t].since = refresher[t].since
            /\ refresher'[t].step = "deleted" => refresher'[t].gone = refresher[t].gone
            BY <1>5, <2>1, <3>1
      <3>3. RefreshInv(t)
            BY <1>1
      <3>4. /\ refresher[t].since \in Nat /\ refresher[t].since <= commits
            BY <3>2, <3>3 DEF RefreshInv
      <3>5. ASSUME NEW r \in stats', r.n <= refresher[t].since PROVE r \in stats
            BY <1>1, <2>1, <2>3, <3>4, <3>5
      <3>. QED BY <1>1, <2>1, <3>2, <3>3, <3>4, <3>5 DEF RefreshInv
    <2>7. DOMAIN refresher' = Refreshers /\ commits' \in Nat
          BY <1>1, <2>1 DEF Ended
    <2>. QED BY <1>1, <2>1, <2>5, <2>6, <2>7 DEF GpuInv
  <1>7. ASSUME NEW s \in Refreshers, RefreshFails(s) PROVE GpuInv'
    <2>1. refresher' = Ended(s) /\ UNCHANGED <<measured, stats, commits>>
          BY <1>7 DEF RefreshFails
    <2>2. RowsInv'
          BY <1>1, <2>1 DEF RowsInv
    <2>3. ASSUME NEW t \in Refreshers PROVE RefreshInv(t)'
      <3>1. SUFFICES ASSUME refresher'[t] # Resting PROVE RefreshInv(t)'
            BY DEF RefreshInv
      <3>2. /\ refresher[t] # Resting
            /\ refresher'[t].step = refresher[t].step
            /\ refresher'[t].models = refresher[t].models
            /\ refresher'[t].since = refresher[t].since
            /\ refresher'[t].step = "deleted" => refresher'[t].gone = refresher[t].gone
            BY <1>5, <2>1, <3>1
      <3>3. RefreshInv(t)
            BY <1>1
      <3>. QED BY <2>1, <3>2, <3>3 DEF RefreshInv
    <2>4. DOMAIN refresher' = Refreshers
          BY <2>1 DEF Ended
    <2>. QED BY <1>1, <2>1, <2>2, <2>3, <2>4 DEF GpuInv
  <1>8. CASE UNCHANGED gpuVars
    <2>1. UNCHANGED <<measured, stats, refresher, commits>>
          BY <1>8 DEF gpuVars
    <2>2. RowsInv'
          BY <1>1, <2>1 DEF RowsInv
    <2>3. ASSUME NEW s \in Refreshers PROVE RefreshInv(s)'
          BY <1>1, <2>1 DEF RefreshInv
    <2>. QED BY <1>1, <2>1, <2>2, <2>3 DEF GpuInv
  <1>. QED BY <1>2, <1>3, <1>4, <1>6, <1>7, <1>8 DEF GpuNext

LEMMA OneComparison ==
    ASSUME GpuInv, NEW a \in GpuModels, NEW b \in GpuModels, Cardinality(Compared(a, b)) > 1
    PROVE  \E p, q \in Summaries(a) \cup Summaries(b) :
               p.model = q.model /\ p.n < q.n /\ q.since < p.n
  <1>1. /\ stats \subseteq [model : measured, n : Nat, since : Nat]
        /\ \A p, q \in stats : p.n = q.n => p.since = q.since
        /\ \A p, q \in stats : p.model = q.model /\ p.n < q.n => q.since < p.n
        BY DEF GpuInv, RowsInv
  <1>2. SUFFICES ASSUME ~ \E p, q \in Summaries(a) \cup Summaries(b) :
                              p.model = q.model /\ p.n < q.n /\ q.since < p.n
                 PROVE  FALSE
        OBVIOUS
  <1>3. ASSUME NEW p \in stats, NEW q \in stats, p.model = q.model, p.model \in {a, b}
        PROVE  p = q
    <2>1. p \in Summaries(a) \cup Summaries(b) /\ q \in Summaries(a) \cup Summaries(b)
          BY <1>3 DEF Summaries
    <2>2. ~(p.n < q.n) /\ ~(q.n < p.n)
          BY <1>1, <1>2, <1>3, <2>1
    <2>3. p.n = q.n
          BY <1>1, <2>2
    <2>. QED BY <1>1, <1>3, <2>3
  <1>4. \A x, y \in Compared(a, b) : x = y
        BY <1>3 DEF Compared, Summaries
  <1>5. CASE Compared(a, b) = {}
        BY <1>5, FS_EmptySet
  <1>6. CASE Compared(a, b) # {}
    <2>1. PICK x : Compared(a, b) = {x}
          BY <1>4, <1>6
    <2>. QED BY <2>1, FS_Singleton
  <1>. QED BY <1>5, <1>6

\* In GpuAnalytics every variable keeps its type and a comparison has one answer, but for
\* refreshes that overlap; a row is dropped only by a refresh that is out of date.
THEOREM GpuIsSafe ==
    GpuSpec => [](GpuTypeOK /\ ComparedOnce) /\ DropsAreStale
  <1>1. ASSUME GpuInv PROVE GpuTypeOK
        BY <1>1 DEF GpuInv, RowsInv, GpuTypeOK
  <1>2. ASSUME GpuInv PROVE ComparedOnce
        BY <1>2, OneComparison DEF ComparedOnce
  <1>3. ASSUME GpuInv, [GpuNext]_gpuVars
        PROVE  [\A r \in stats : \/ \E q \in stats' : q.model = r.model
                                 \/ \E s \in Refreshers : /\ refresher[s].step = "deleted"
                                                          /\ refresher'[s] = Resting
                                                          /\ refresher[s].since < r.n]_gpuVars
    <2>1. SUFFICES ASSUME NEW r \in stats, GpuNext
                   PROVE  \/ \E q \in stats' : q.model = r.model
                          \/ \E s \in Refreshers : /\ refresher[s].step = "deleted"
                                                   /\ refresher'[s] = Resting
                                                   /\ refresher[s].since < r.n
          BY <1>3
    <2>2. CASE stats' = stats
          BY <2>1, <2>2
    <2>3. ASSUME NEW s \in Refreshers, RefreshCommits(s)
          PROVE  \/ \E q \in stats' : q.model = r.model
                 \/ \E t \in Refreshers : /\ refresher[t].step = "deleted"
                                          /\ refresher'[t] = Resting
                                          /\ refresher[t].since < r.n
      <3>1. /\ refresher[s].step = "deleted" /\ refresher' = Ended(s)
            /\ \A g \in refresher[s].models :
                  [model |-> g, n |-> commits + 1, since |-> refresher[s].since] \in stats'
            BY <2>3 DEF RefreshCommits
      <3>2. refresher'[s] = Resting
            BY <3>1 DEF Ended
      <3>3. /\ refresher[s].since \in Nat /\ r.n \in Nat
            /\ r.n <= refresher[s].since => r.model \in refresher[s].models
            BY <1>3, <2>1, <3>1 DEF GpuInv, RowsInv, RefreshInv, Resting
      <3>4. CASE r.n <= refresher[s].since
        <4>1. [model |-> r.model, n |-> commits + 1, since |-> refresher[s].since] \in stats'
              BY <3>1, <3>3, <3>4
        <4>. QED BY <4>1
      <3>5. CASE refresher[s].since < r.n
            BY <3>1, <3>2, <3>5
      <3>. QED BY <3>3, <3>4, <3>5
    <2>. QED BY <2>1, <2>2, <2>3
             DEF GpuNext, Measure, RefreshReads, RefreshDeletes, RefreshFails
  <1>. QED BY <1>1, <1>2, <1>3, GpuInitInv, GpuStep, PTL DEF GpuSpec, DropsAreStale

-----------------------------------------------------------------------------
(* The greater and the lesser of two numbers *)

LEMMA MaxTwo ==
    ASSUME NEW a \in Int, NEW b \in Int
    PROVE  /\ Max({a, b}) \in Int /\ a <= Max({a, b}) /\ b <= Max({a, b})
           /\ Max({a, b}) = a \/ Max({a, b}) = b
  <1>1. IsFiniteSet({a, b}) /\ {a, b} \subseteq Int /\ {a, b} # {}
    <2>1. IsFiniteSet({a} \cup {b})
          BY FS_Singleton, FS_AddElement
    <2>2. {a} \cup {b} = {a, b}
          OBVIOUS
    <2>. QED BY <2>1, <2>2
  <1>2. Max({a, b}) \in {a, b} /\ \A y \in {a, b} : y <= Max({a, b})
        BY <1>1, MaxOf
  <1>. QED BY <1>2

LEMMA MinTwo ==
    ASSUME NEW a \in Int, NEW b \in Int
    PROVE  /\ Min({a, b}) \in Int /\ Min({a, b}) <= a /\ Min({a, b}) <= b
           /\ Min({a, b}) = a \/ Min({a, b}) = b
  <1>1. IsFiniteSet({a, b}) /\ {a, b} \subseteq Int /\ {a, b} # {}
    <2>1. IsFiniteSet({a} \cup {b})
          BY FS_Singleton, FS_AddElement
    <2>2. {a} \cup {b} = {a, b}
          OBVIOUS
    <2>. QED BY <2>1, <2>2
  <1>2. Min({a, b}) \in {a, b} /\ \A y \in {a, b} : y >= Min({a, b})
        BY <1>1, MinOf
  <1>. QED BY <1>2

-----------------------------------------------------------------------------
(* PricingModel *)

LEMMA ClampedInRails ==
    ASSUME NEW x \in Int
    PROVE  Clamped(x) \in Nat /\ Floor <= Clamped(x) /\ Clamped(x) <= Cap
  <1>1. Floor \in Nat /\ Cap \in Nat /\ Floor <= Cap
        BY PricingAssumption
  <1>2. PICK y : y = Min({Cap, x})
        OBVIOUS
  <1>3. y \in Int /\ y <= Cap
        BY <1>1, <1>2, MinTwo
  <1>4. PICK z : z = Max({Floor, y})
        OBVIOUS
  <1>5. z \in Int /\ Floor <= z /\ (z = Floor \/ z = y)
        BY <1>1, <1>3, <1>4, MaxTwo
  <1>6. Clamped(x) = z
        BY <1>2, <1>4 DEF Clamped
  <1>. QED BY <1>1, <1>3, <1>5, <1>6

LEMMA IntervalHolds ==
    ASSUME NEW x \in Nat, Floor <= x, x <= Cap
    PROVE  /\ Floor <= Interval(x)[1] /\ Interval(x)[1] <= x
           /\ x <= Interval(x)[2] /\ Interval(x)[2] <= Cap
  <1>1. Floor \in Nat /\ Cap \in Nat
        BY PricingAssumption
  <1>2. PICK l, u : l = (x * 85) \div 100 /\ u = (x * 115) \div 100
        OBVIOUS
  <1>3. l \in Int /\ u \in Int /\ l <= x /\ x <= u
        BY <1>2
  <1>4. Floor <= Max({Floor, l}) /\ Max({Floor, l}) <= x
    <2>1. PICK y : y = Max({Floor, l})
          OBVIOUS
    <2>0. Floor \in Int /\ l \in Int
          BY <1>1, <1>3
    <2>2. y \in Int /\ Floor <= y /\ (y = Floor \/ y = l)
          BY ONLY <2>0, <2>1, MaxTwo
    <2>. QED BY <1>1, <1>3, <2>1, <2>2
  <1>5. x <= Min({Cap, u}) /\ Min({Cap, u}) <= Cap
        BY <1>1, <1>3, MinTwo
  <1>6. Interval(x)[1] = Max({Floor, l}) /\ Interval(x)[2] = Min({Cap, u})
        BY <1>2 DEF Interval
  <1>. QED BY <1>4, <1>5, <1>6

\* Only the worker's model is ever trained, and a quote is made by another process.
PricingInv ==
    /\ PricingTypeOK
    /\ \A p \in Processes : p # Worker => model[p] = 0
    /\ \A q \in quotes : /\ q.version = 0 /\ q.median \in Medians
                         /\ q.price = Clamped(q.median) /\ q.between = Interval(q.price)

LEMMA PricingStep == ASSUME PricingInv, [PricingNext]_pricingVars PROVE PricingInv'
  <1>1. /\ market \in 0..MaxMarket /\ versions \in 0..MaxTrainings
        /\ model \in [Processes -> 0..versions] /\ training \in {NoTask} \cup 0..MaxMarket
        /\ \A q \in quotes : q.version \in 0..versions /\ q.rows \in 0..MaxMarket
        /\ \A p \in Processes : p # Worker => model[p] = 0
        /\ \A q \in quotes : /\ q.version = 0 /\ q.median \in Medians
                             /\ q.price = Clamped(q.median) /\ q.between = Interval(q.price)
        BY DEF PricingInv, PricingTypeOK
  <1>2. MaxMarket \in Nat /\ MaxTrainings \in Nat /\ Worker \in Processes
        BY PricingAssumption
  <1>3. CASE ListingsChange
    <2>1. market' \in 0..MaxMarket /\ UNCHANGED <<model, versions, training, quotes>>
          BY <1>3 DEF ListingsChange
    <2>. QED BY <1>1, <2>1 DEF PricingInv, PricingTypeOK
  <1>4. CASE TrainReads
    <2>1. training' \in {market, NoTask} /\ UNCHANGED <<market, model, versions, quotes>>
          BY <1>4 DEF TrainReads
    <2>. QED BY <1>1, <2>1 DEF PricingInv, PricingTypeOK
  <1>5. CASE TrainEnds
    <2>1. training' = NoTask /\ UNCHANGED <<market, quotes>>
          BY <1>5 DEF TrainEnds
    <2>2. CASE Enough(training)
      <3>1. /\ versions < MaxTrainings /\ versions' = versions + 1
            /\ model' = [model EXCEPT ![Worker] = versions']
            BY <1>5, <2>2 DEF TrainEnds
      <3>2. versions' \in 0..MaxTrainings /\ \A n \in 0..versions : n \in 0..versions'
            BY <1>1, <1>2, <3>1
      <3>3. model' \in [Processes -> 0..versions']
            BY <1>1, <1>2, <3>1, <3>2
      <3>4. \A p \in Processes : p # Worker => model'[p] = 0
            BY <1>1, <3>1
      <3>. QED BY <1>1, <2>1, <3>2, <3>3, <3>4 DEF PricingInv, PricingTypeOK
    <2>3. CASE ~Enough(training)
      <3>1. UNCHANGED <<model, versions>>
            BY <1>5, <2>3 DEF TrainEnds
      <3>. QED BY <1>1, <2>1, <3>1 DEF PricingInv, PricingTypeOK
    <2>. QED BY <2>2, <2>3
  <1>6. CASE IdleBatchFails
    <2>1. UNCHANGED <<market, model, versions, training, quotes>>
          BY <1>6 DEF IdleBatchFails
    <2>. QED BY <1>1, <2>1 DEF PricingInv, PricingTypeOK
  <1>7. ASSUME NEW p \in Processes, Restart(p) PROVE PricingInv'
    <2>1. /\ model' = [model EXCEPT ![p] = 0] /\ UNCHANGED <<market, versions, quotes>>
          /\ training' \in {training, NoTask}
          BY <1>7 DEF Restart
    <2>2. /\ model' \in [Processes -> 0..versions]
          /\ \A r \in Processes : r # Worker => model'[r] = 0
          BY <1>1, <1>2, <2>1
    <2>. QED BY <1>1, <2>1, <2>2 DEF PricingInv, PricingTypeOK
  <1>8. ASSUME NEW m \in Medians, NEW x \in Predictions, Suggest(m, x) PROVE PricingInv'
    <2>1. /\ quotes' = quotes \cup {Quote(Serving, m, x)}
          /\ UNCHANGED <<market, model, versions, training>>
          BY <1>8 DEF Suggest
    <2>2. Serving \in Processes /\ Serving # Worker
          BY PricingAssumption DEF Serving
    <2>3. PICK q : q = Quote(Serving, m, x)
          OBVIOUS
    <2>4. model[Serving] = 0
          BY <1>1, <2>2
    <2>5. /\ q.price = Clamped(m) /\ q.between = Interval(q.price) /\ q.version = 0
          /\ q.median = m /\ q.rows = market
          BY <2>3, <2>4 DEF Quote
    <2>6. ASSUME NEW r \in quotes'
          PROVE  /\ r.version \in 0..versions /\ r.rows \in 0..MaxMarket
                 /\ r.version = 0 /\ r.median \in Medians
                 /\ r.price = Clamped(r.median) /\ r.between = Interval(r.price)
          BY <1>1, <1>8, <2>1, <2>3, <2>5
    <2>. QED BY <1>1, <2>1, <2>6 DEF PricingInv, PricingTypeOK
  <1>9. CASE UNCHANGED pricingVars
    <2>1. UNCHANGED <<market, model, versions, training, quotes>>
          BY <1>9 DEF pricingVars
    <2>. QED BY <1>1, <2>1 DEF PricingInv, PricingTypeOK
  <1>. QED BY <1>3, <1>4, <1>5, <1>6, <1>7, <1>8, <1>9 DEF PricingNext

\* In PricingModel every variable keeps its type, and a quote stays within its rails, its
\* price within its interval.
THEOREM PricingIsSafe ==
    PricingSpec => [](PricingTypeOK /\ QuoteWithinRails)
  <1>1. ASSUME PricingInit PROVE PricingInv
        BY <1>1, PricingAssumption DEF PricingInit, PricingInv, PricingTypeOK
  <1>2. ASSUME PricingInv PROVE PricingTypeOK
        BY <1>2 DEF PricingInv
  <1>3. ASSUME PricingInv PROVE QuoteWithinRails
    <2>1. SUFFICES ASSUME NEW q \in quotes
                   PROVE  /\ Floor <= q.between[1] /\ q.between[1] <= q.price
                          /\ q.price <= q.between[2] /\ q.between[2] <= Cap
          BY DEF QuoteWithinRails
    <2>2. q.median \in Int /\ q.price = Clamped(q.median) /\ q.between = Interval(q.price)
          BY <1>3, <2>1, PricingAssumption DEF PricingInv
    <2>3. q.price \in Nat /\ Floor <= q.price /\ q.price <= Cap
          BY <2>2, ClampedInRails
    <2>. QED BY <2>2, <2>3, IntervalHolds
  <1>. QED BY <1>1, <1>2, <1>3, PricingStep, PTL DEF PricingSpec

-----------------------------------------------------------------------------
(* ConsensusGuard *)

\* A committed digest has its quorum, and a node that is not faulty signs one digest in a
\* phase of a view.
ConsensusInv ==
    /\ ConsensusTypeOK
    /\ \A s \in Sequences : committed[s] # NoDigest =>
           \E p \in Proposal : /\ p.seq = s /\ p.phase = "COMMIT" /\ p.digest = committed[s]
                               /\ Quorum(p)
    /\ \A p, q \in Proposal :
           p.view = q.view /\ p.seq = q.seq /\ p.phase = q.phase /\ p.digest # q.digest =>
               votes[p] \cap votes[q] \subseteq Faulty

LEMMA QuorumIsHonest ==
    ASSUME NEW S, S \subseteq Nodes, Cardinality(S) >= QuorumSize
    PROVE  Cardinality(S \ Faulty) > MaxFaulty
  <1>1. /\ IsFiniteSet(Nodes) /\ Faulty \subseteq Nodes /\ Cardinality(Faulty) <= MaxFaulty
        /\ MaxFaulty \in Nat
        BY ConsensusAssumption
  <1>2. IsFiniteSet(S) /\ IsFiniteSet(Faulty)
        BY <1>1, FS_Subset
  <1>3. /\ IsFiniteSet(S \cap Faulty) /\ IsFiniteSet(S \ Faulty)
        /\ Cardinality(S \cap Faulty) <= Cardinality(Faulty)
        BY <1>2, FS_Subset, FS_Difference
  <1>4. Cardinality(S \ Faulty) = Cardinality(S) - Cardinality(S \cap Faulty)
        BY <1>2, FS_Difference
  <1>5. PICK a, b, c, d \in Nat : /\ a = Cardinality(S) /\ b = Cardinality(S \cap Faulty)
                                  /\ c = Cardinality(Faulty) /\ d = Cardinality(S \ Faulty)
        BY <1>2, <1>3, FS_CardinalityType
  <1>. QED BY <1>1, <1>3, <1>4, <1>5 DEF QuorumSize

LEMMA QuorumsMeet ==
    ASSUME NEW S, NEW T, S \subseteq Nodes, T \subseteq Nodes,
           Cardinality(S) >= QuorumSize, Cardinality(T) >= QuorumSize
    PROVE  ~(S \cap T \subseteq Faulty)
  <1>1. /\ IsFiniteSet(Nodes) /\ Faulty \subseteq Nodes /\ Cardinality(Faulty) <= MaxFaulty
        /\ MaxFaulty \in Nat /\ Cardinality(Nodes) <= 3 * MaxFaulty + 1
        BY ConsensusAssumption
  <1>2. /\ IsFiniteSet(S) /\ IsFiniteSet(T) /\ IsFiniteSet(S \cap T) /\ IsFiniteSet(Faulty)
        /\ S \cup T \subseteq Nodes
        BY <1>1, FS_Subset
  <1>3. Cardinality(S \cup T) <= Cardinality(Nodes)
        BY <1>1, <1>2, FS_Subset
  <1>4. Cardinality(S \cup T) = Cardinality(S) + Cardinality(T) - Cardinality(S \cap T)
        BY <1>2, FS_Union
  <1>5. IsFiniteSet(S \cup T)
        BY <1>1, <1>2, FS_Subset
  <1>6. PICK a, b, c, d, n, f \in Nat :
            /\ a = Cardinality(S) /\ b = Cardinality(T) /\ c = Cardinality(S \cap T)
            /\ d = Cardinality(S \cup T) /\ n = Cardinality(Nodes) /\ f = Cardinality(Faulty)
        BY <1>1, <1>2, <1>5, FS_CardinalityType
  <1>7. c > f
        BY <1>1, <1>3, <1>4, <1>6 DEF QuorumSize
  <1>8. S \cap T \subseteq Faulty => c <= f
        BY <1>2, <1>6, FS_Subset
  <1>. QED BY <1>6, <1>7, <1>8

LEMMA ConsensusStep ==
    ASSUME ConsensusInv, [ConsensusNext]_consensusVars
    PROVE  /\ ConsensusInv'
           /\ \A p \in Proposal : Quorum(p) => Quorum(p)'
  <1>1. /\ votes \in [Proposal -> SUBSET Nodes]
        /\ committed \in [Sequences -> Digests \cup {NoDigest}]
        BY DEF ConsensusInv, ConsensusTypeOK
  <1>2. ASSUME NEW node \in Nodes, NEW p \in Proposal, ProcessMessage(node, p)
        PROVE  /\ ConsensusInv'
               /\ \A q \in Proposal : Quorum(q) => Quorum(q)'
    <2>1. /\ Signs(node, p)
          /\ votes' = [votes EXCEPT ![p] = votes[p] \cup {node}]
          /\ \/ UNCHANGED committed
             \/ /\ Quorum(p)' /\ p.phase = "COMMIT"
                /\ committed' = [committed EXCEPT ![p.seq] = p.digest]
          BY <1>1, <1>2 DEF ProcessMessage
    <2>2. /\ votes' \in [Proposal -> SUBSET Nodes] /\ votes'[p] = votes[p] \cup {node}
          /\ \A q \in Proposal : q # p => votes'[q] = votes[q]
          BY <1>1, <2>1
    <2>3. p.seq \in Sequences /\ p.digest \in Digests
          BY DEF Proposal
    <2>4. ConsensusTypeOK'
          BY <1>1, <2>1, <2>2, <2>3 DEF ConsensusTypeOK
    <2>5. ASSUME NEW q \in Proposal, Quorum(q) PROVE Quorum(q)'
      <3>1. CASE q # p
            BY <2>2, <2>5, <3>1 DEF Quorum
      <3>2. CASE q = p
        <4>1. votes[p] \subseteq Nodes /\ votes'[p] \subseteq Nodes /\ votes[p] \subseteq votes'[p]
              BY <1>1, <2>2
        <4>2. IsFiniteSet(votes'[p]) /\ IsFiniteSet(votes[p])
              BY <4>1, ConsensusAssumption, FS_Subset
        <4>3. PICK a, b \in Nat : a = Cardinality(votes[p]) /\ b = Cardinality(votes'[p])
              BY <4>2, FS_CardinalityType
        <4>4. a <= b
              BY <4>1, <4>2, <4>3, FS_Subset
        <4>. QED BY <2>5, <3>2, <4>3, <4>4, ConsensusAssumption DEF Quorum, QuorumSize
      <3>. QED BY <3>1, <3>2
    <2>6. ASSUME NEW s \in Sequences, committed'[s] # NoDigest
          PROVE  \E q \in Proposal : /\ q.seq = s /\ q.phase = "COMMIT"
                                     /\ q.digest = committed'[s] /\ Quorum(q)'
      <3>1. CASE committed'[s] = committed[s]
            BY <2>5, <2>6, <3>1 DEF ConsensusInv
      <3>2. CASE committed'[s] # committed[s]
        <4>1. s = p.seq /\ Quorum(p)' /\ p.phase = "COMMIT" /\ committed'[s] = p.digest
              BY <1>1, <2>1, <3>2
        <4>. QED BY <4>1
      <3>. QED BY <3>1, <3>2
    <2>7. ASSUME NEW q \in Proposal, p.view = q.view, p.seq = q.seq, p.phase = q.phase,
                 p.digest # q.digest, node \in votes[q]
          PROVE  node \in Faulty
      <3>1. q = [p EXCEPT !.digest = q.digest] /\ q.digest \in Digests \ {p.digest}
            BY <2>7 DEF Proposal
      <3>. QED BY <2>1, <2>7, <3>1 DEF Signs
    <2>8. ASSUME NEW q \in Proposal, NEW r \in Proposal, q.view = r.view, q.seq = r.seq,
                 q.phase = r.phase, q.digest # r.digest
          PROVE  votes'[q] \cap votes'[r] \subseteq Faulty
      <3>1. votes[q] \cap votes[r] \subseteq Faulty
            BY <2>8 DEF ConsensusInv
      <3>2. CASE q = p
            BY <2>2, <2>7, <2>8, <3>1, <3>2
      <3>3. CASE r = p
            BY <2>2, <2>7, <2>8, <3>1, <3>3
      <3>4. CASE q # p /\ r # p
            BY <2>2, <3>1, <3>4
      <3>. QED BY <3>2, <3>3, <3>4
    <2>9. ConsensusInv'
          BY <2>4, <2>6, <2>8 DEF ConsensusInv
    <2>. QED BY <2>5, <2>9
  <1>3. CASE UNCHANGED consensusVars
    <2>1. UNCHANGED <<votes, committed>>
          BY <1>3 DEF consensusVars
    <2>. QED BY <2>1 DEF ConsensusInv, ConsensusTypeOK, Quorum
  <1>. QED BY <1>2, <1>3 DEF ConsensusNext

\* In ConsensusGuard every variable keeps its type, and a digest that is committed is
\* rewritten by another view only.
THEOREM ConsensusIsSafe == ConsensusSpec => []ConsensusTypeOK /\ RewrittenByAnotherView
  <1>1. ASSUME ConsensusInit PROVE ConsensusInv
        BY <1>1 DEF ConsensusInit, ConsensusInv, ConsensusTypeOK
  <1>2. ConsensusInv => ConsensusTypeOK
        BY DEF ConsensusInv
  <1>3. ASSUME ConsensusInv, [ConsensusNext]_consensusVars
        PROVE  [\A s \in Sequences : committed[s] \notin {NoDigest, committed'[s]} =>
                   \E p, q \in Proposal :
                       /\ p.view # q.view /\ {p.seq, q.seq} = {s} /\ {p.phase, q.phase} = {"COMMIT"}
                       /\ p.digest = committed[s] /\ q.digest = committed'[s]
                       /\ Cardinality(votes'[p] \ Faulty) > MaxFaulty
                       /\ Cardinality(votes'[q] \ Faulty) > MaxFaulty]_consensusVars
    <2>1. SUFFICES ASSUME NEW s \in Sequences, committed[s] # NoDigest,
                          committed[s] # committed'[s]
                   PROVE  \E p, q \in Proposal :
                       /\ p.view # q.view /\ {p.seq, q.seq} = {s} /\ {p.phase, q.phase} = {"COMMIT"}
                       /\ p.digest = committed[s] /\ q.digest = committed'[s]
                       /\ Cardinality(votes'[p] \ Faulty) > MaxFaulty
                       /\ Cardinality(votes'[q] \ Faulty) > MaxFaulty
          BY <1>3
    <2>2. ConsensusInv' /\ \A p \in Proposal : Quorum(p) => Quorum(p)'
          BY <1>3, ConsensusStep
    <2>3. PICK p \in Proposal : /\ p.seq = s /\ p.phase = "COMMIT" /\ p.digest = committed[s]
                                /\ Quorum(p)'
          BY <1>3, <2>1, <2>2 DEF ConsensusInv
    <2>4. committed'[s] # NoDigest
      <3>1. PICK node \in Nodes, r \in Proposal : ProcessMessage(node, r)
            BY <1>3, <2>1 DEF ConsensusNext, consensusVars
      <3>2. committed' = [committed EXCEPT ![r.seq] = r.digest]
            BY <2>1, <3>1 DEF ProcessMessage
      <3>. QED BY <1>3, <2>1, <3>2, ConsensusAssumption
               DEF ConsensusInv, ConsensusTypeOK, Proposal
    <2>5. PICK q \in Proposal : /\ q.seq = s /\ q.phase = "COMMIT" /\ q.digest = committed'[s]
                                /\ Quorum(q)'
          BY <2>2, <2>4 DEF ConsensusInv
    <2>6. votes'[p] \subseteq Nodes /\ votes'[q] \subseteq Nodes
          BY <2>2 DEF ConsensusInv, ConsensusTypeOK
    <2>7. Cardinality(votes'[p]) >= QuorumSize /\ Cardinality(votes'[q]) >= QuorumSize
          BY <2>3, <2>5 DEF Quorum
    <2>8. p.view # q.view
      <3>1. ~(votes'[p] \cap votes'[q] \subseteq Faulty)
            BY <2>6, <2>7, QuorumsMeet
      <3>. QED BY <2>1, <2>2, <2>3, <2>5, <3>1 DEF ConsensusInv
    <2>9. Cardinality(votes'[p] \ Faulty) > MaxFaulty /\ Cardinality(votes'[q] \ Faulty) > MaxFaulty
          BY <2>6, <2>7, QuorumIsHonest
    <2>. QED BY <2>3, <2>5, <2>8, <2>9
  <1>. QED BY <1>1, <1>2, <1>3, ConsensusStep, PTL DEF ConsensusSpec, RewrittenByAnotherView

-----------------------------------------------------------------------------
(* DeviceFingerprints *)

PresentOf(a) == {s \in FpSessions : Present(s) /\ fp[s].account = a}

\* What an open request has read, or is about to write, is not ahead of the visits, and is
\* the row's count if no other request of the account was open; and if its flush found no
\* other account, those that came since were open with it.
VisitInv(s) ==
    LET a == fp[s].account IN
    Present(s) =>
        /\ fp[s].step \in {"looked", "flushed"} /\ a \in Accounts
        /\ At(s, "looked") =>
              /\ fp[s].read \in Nat /\ fp[s].read <= visits[a]
              /\ <<a, a>> \notin crossed => fp[s].read = seen[a]
        /\ At(s, "flushed") =>
              /\ fp[s].count \in Nat /\ 1 <= fp[s].count /\ fp[s].count <= visits[a] + 1
              /\ <<a, a>> \notin crossed => fp[s].count = seen[a] + 1
              /\ ~fp[s].shared => \A b \in Accounts \ {a} :
                                      seen[b] > 0 => {<<a, b>>, <<b, a>>} \subseteq crossed

CountInv ==
    \A a \in Accounts : /\ seen[a] <= visits[a] /\ (visits[a] > 0 => seen[a] > 0)
                        /\ <<a, a>> \notin crossed => seen[a] = visits[a]
                        /\ visits[a] + Cardinality(PresentOf(a)) <= opens

CrossInv ==
    /\ \A s, r \in FpSessions : s # r /\ Present(s) /\ Present(r) =>
           <<fp[s].account, fp[r].account>> \in crossed
    /\ \A a, b \in Accounts : a # b /\ seen[a] > 0 /\ seen[b] > 0 =>
           a \in suspected \/ b \in suspected \/ <<a, b>> \in crossed

FpInv ==
    /\ seen \in [Accounts -> Nat] /\ visits \in [Accounts -> Nat]
    /\ suspected \subseteq Accounts /\ crossed \subseteq Accounts \X Accounts
    /\ DOMAIN fp = FpSessions /\ opens \in 0..MaxOpens
    /\ CountInv /\ CrossInv
    /\ \A s \in FpSessions : VisitInv(s)

LEMMA FpInitInv == ASSUME FpInit PROVE FpInv
  <1>1. /\ \A a \in Accounts : PresentOf(a) = {} /\ seen[a] = 0 /\ visits[a] = 0
        /\ seen \in [Accounts -> Nat] /\ visits \in [Accounts -> Nat]
        /\ \A s \in FpSessions : ~Present(s)
        /\ DOMAIN fp = FpSessions /\ opens = 0 /\ suspected = {} /\ crossed = {}
        BY DEF FpInit, PresentOf, Present, At, Away
  <1>2. CountInv
        BY <1>1, FS_EmptySet DEF CountInv
  <1>3. CrossInv
        BY <1>1 DEF CrossInv
  <1>. QED BY <1>1, <1>2, <1>3, FpAssumption DEF FpInv, VisitInv

\* The requests of an account are finitely many, and one more or less changes their number.
LEMMA PresentMoves ==
    ASSUME DOMAIN fp = FpSessions, NEW s \in FpSessions, NEW v, fp' = [fp EXCEPT ![s] = v],
           NEW a \in Accounts
    PROVE  /\ Cardinality(PresentOf(a)) \in Nat /\ Cardinality(PresentOf(a)') \in Nat
           /\ s \notin PresentOf(a)' => Cardinality(PresentOf(a)') <= Cardinality(PresentOf(a))
           /\ Cardinality(PresentOf(a)') <= Cardinality(PresentOf(a)) + 1
           /\ s \in PresentOf(a) /\ s \notin PresentOf(a)' =>
                  Cardinality(PresentOf(a)') + 1 = Cardinality(PresentOf(a))
           /\ s \in PresentOf(a) => Cardinality(PresentOf(a)') <= Cardinality(PresentOf(a))
  <1>1. \A r \in FpSessions : r # s => fp'[r] = fp[r]
        OBVIOUS
  <1>2. PresentOf(a)' \ {s} = PresentOf(a) \ {s}
        BY <1>1 DEF PresentOf, Present, At
  <1>3. IsFiniteSet(PresentOf(a)) /\ IsFiniteSet(PresentOf(a)')
        BY FpAssumption, FS_Subset DEF PresentOf
  <1>4. PICK P, Q : P = PresentOf(a) /\ Q = PresentOf(a)'
        OBVIOUS
  <1>5. PICK n, m, k \in Nat : n = Cardinality(P) /\ m = Cardinality(Q)
                               /\ k = Cardinality(P \ {s})
        BY <1>3, <1>4, FS_CardinalityType, FS_RemoveElement
  <1>6. /\ s \in P => k = n - 1
        /\ s \notin P => k = n
    <2>1. s \in P => k = n - 1
          BY <1>3, <1>4, <1>5, FS_RemoveElement
    <2>2. s \notin P => P \ {s} = P
          OBVIOUS
    <2>. QED BY <1>5, <2>1, <2>2
  <1>7. /\ s \in Q => k = m - 1
        /\ s \notin Q => k = m
    <2>0. P \ {s} = Q \ {s}
          BY <1>2, <1>4
    <2>1. s \in Q => Cardinality(Q \ {s}) = m - 1
          BY <1>3, <1>4, <1>5, FS_RemoveElement
    <2>2. s \notin Q => Q \ {s} = Q
          OBVIOUS
    <2>. QED BY <1>5, <2>0, <2>1, <2>2
  <1>8. /\ n \in Nat /\ m \in Nat
        /\ s \notin Q => m <= n
        /\ m <= n + 1
        /\ s \in P /\ s \notin Q => m + 1 = n
        /\ s \in P => m <= n
        BY <1>5, <1>6, <1>7
  <1>. QED BY <1>4, <1>5, <1>8

\* A step of one request that writes no row leaves the others' knowledge as it is.
LEMMA OtherVisits ==
    ASSUME FpInv, NEW s \in FpSessions, NEW v, fp' = [fp EXCEPT ![s] = v],
           UNCHANGED <<seen, visits>>, crossed \subseteq crossed',
           NEW r \in FpSessions, r # s
    PROVE  VisitInv(r)'
  <1>1. fp'[r] = fp[r] /\ VisitInv(r)
        BY DEF FpInv
  <1>. QED BY <1>1 DEF VisitInv, Present, At

LEMMA FpStep == ASSUME FpInv, [FpNext]_fpVars PROVE FpInv'
  <1>1. /\ seen \in [Accounts -> Nat] /\ visits \in [Accounts -> Nat]
        /\ suspected \subseteq Accounts /\ crossed \subseteq Accounts \X Accounts
        /\ DOMAIN fp = FpSessions /\ opens \in 0..MaxOpens
        /\ CountInv /\ CrossInv
        /\ \A s \in FpSessions : VisitInv(s)
        BY DEF FpInv
  <1>2. MaxOpens \in Nat /\ IsFiniteSet(Accounts) /\ Away.step = "away"
        BY FpAssumption DEF Away
  <1>3. ASSUME NEW s \in FpSessions, NEW a \in Accounts, Look(s, a) PROVE FpInv'
    <2>. DEFINE v == [step |-> "looked", account |-> a, read |-> seen[a]]
                new == UNION {{<<a, fp[r].account>>, <<fp[r].account, a>>} :
                              r \in {q \in FpSessions : Present(q)}}
    <2>1. /\ ~Present(s) /\ opens < MaxOpens /\ opens' = opens + 1
          /\ fp' = [fp EXCEPT ![s] = v] /\ crossed' = crossed \cup new
          /\ UNCHANGED <<seen, visits, suspected>>
          BY <1>3 DEF Look
    <2>2. ASSUME NEW r \in FpSessions, Present(r)
          PROVE  /\ r # s /\ fp[r].account \in Accounts
                 /\ {<<a, fp[r].account>>, <<fp[r].account, a>>} \subseteq crossed'
          BY ZenonT(30), <1>1, <2>1, <2>2 DEF VisitInv
    <2>3. crossed' \subseteq Accounts \X Accounts /\ crossed \subseteq crossed'
      <3>1. ASSUME NEW e \in new PROVE e \in Accounts \X Accounts
        <4>1. PICK r \in FpSessions : Present(r) /\ e \in {<<a, fp[r].account>>, <<fp[r].account, a>>}
              OBVIOUS
        <4>2. fp[r].account \in Accounts
              BY <2>2, <4>1
        <4>. QED BY <4>1, <4>2
      <3>. HIDE DEF new
      <3>. QED BY <1>1, <2>1, <3>1
    <2>4. fp'[s] = v
          BY <1>1, <2>1
    <2>5. ASSUME NEW b \in Accounts
          PROVE  /\ seen'[b] <= visits'[b] /\ (visits'[b] > 0 => seen'[b] > 0)
                 /\ <<b, b>> \notin crossed' => seen'[b] = visits'[b]
                 /\ visits'[b] + Cardinality(PresentOf(b)') <= opens'
      <3>1. PICK n, m : n = Cardinality(PresentOf(b)) /\ m = Cardinality(PresentOf(b)')
            OBVIOUS
      <3>2. n \in Nat /\ m \in Nat /\ m <= n + 1
            BY <1>1, <2>1, <3>1, PresentMoves
      <3>0. visits[b] + Cardinality(PresentOf(b)) <= opens
            BY <1>1 DEF CountInv
      <3>3. visits[b] \in Nat /\ opens \in Nat /\ visits[b] + n <= opens
            BY <1>1, <1>2, <3>0, <3>1
      <3>4. visits'[b] + m <= opens'
            BY <2>1, <3>2, <3>3
      <3>. QED BY <1>1, <2>1, <2>3, <3>1, <3>4 DEF CountInv
    <2>6. ASSUME NEW t \in FpSessions, NEW r \in FpSessions, t # r, Present(t)', Present(r)'
          PROVE  <<fp'[t].account, fp'[r].account>> \in crossed'
      <3>1. CASE t # s /\ r # s
        <4>1. Present(t) /\ Present(r) /\ fp'[t] = fp[t] /\ fp'[r] = fp[r]
              BY <2>1, <2>6, <3>1 DEF Present, At
        <4>. QED BY <1>1, <2>3, <2>6, <4>1 DEF CrossInv
      <3>2. CASE t = s
        <4>1. Present(r) /\ fp'[r] = fp[r]
              BY <2>1, <2>6, <3>2 DEF Present, At
        <4>2. fp'[t].account = a
              BY <2>4, <3>2
        <4>3. {<<a, fp[r].account>>, <<fp[r].account, a>>} \subseteq crossed'
              BY <2>2, <4>1
        <4>. HIDE DEF v, new
        <4>. QED BY <4>1, <4>2, <4>3
      <3>3. CASE r = s
        <4>1. Present(t) /\ fp'[t] = fp[t]
              BY <2>1, <2>6, <3>3 DEF Present, At
        <4>2. fp'[r].account = a
              BY <2>4, <3>3
        <4>3. {<<a, fp[t].account>>, <<fp[t].account, a>>} \subseteq crossed'
              BY <2>2, <4>1
        <4>. HIDE DEF v, new
        <4>. QED BY <4>1, <4>2, <4>3
      <3>. QED BY <3>1, <3>2, <3>3
    <2>7. CrossInv'
          BY <1>1, <2>1, <2>3, <2>6 DEF CrossInv
    <2>8. VisitInv(s)'
      <3>1. /\ seen[a] \in Nat /\ seen[a] <= visits[a]
            BY <1>1 DEF CountInv
      <3>. QED BY <2>1, <2>4, <3>1 DEF VisitInv, At
    <2>9. ASSUME NEW r \in FpSessions, r # s PROVE VisitInv(r)'
      <3>. HIDE DEF v, new
      <3>. QED BY <2>1, <2>3, <2>9, OtherVisits
    <2>10. opens' \in 0..MaxOpens
          BY <1>1, <1>2, <2>1
    <2>. QED BY <1>1, <2>1, <2>3, <2>5, <2>7, <2>8, <2>9, <2>10 DEF FpInv, CountInv
  <1>4. ASSUME NEW s \in FpSessions, NEW v, fp' = [fp EXCEPT ![s] = v], Present(s),
               v = Away \/ (v.step # "away" /\ v.account = fp[s].account),
               UNCHANGED <<seen, visits, crossed, suspected, opens>>,
               VisitInv(s)'
        PROVE  FpInv'
    <2>1. fp'[s] = v /\ DOMAIN fp' = FpSessions
          BY <1>1, <1>4
    <2>2. ASSUME NEW b \in Accounts
          PROVE  /\ seen'[b] <= visits'[b] /\ (visits'[b] > 0 => seen'[b] > 0)
                 /\ <<b, b>> \notin crossed' => seen'[b] = visits'[b]
                 /\ visits'[b] + Cardinality(PresentOf(b)') <= opens'
      <3>1. PICK n, m : n = Cardinality(PresentOf(b)) /\ m = Cardinality(PresentOf(b)')
            OBVIOUS
      <3>2. s \notin PresentOf(b)' \/ s \in PresentOf(b)
            BY <1>2, <1>4, <2>1 DEF PresentOf, Present, At
      <3>3. n \in Nat /\ m \in Nat /\ m <= n
            BY <1>1, <1>4, <3>1, <3>2, PresentMoves
      <3>0. visits[b] + Cardinality(PresentOf(b)) <= opens
            BY <1>1 DEF CountInv
      <3>4. visits[b] \in Nat /\ opens \in Nat /\ visits[b] + n <= opens
            BY <1>1, <1>2, <3>0, <3>1
      <3>5. visits'[b] + m <= opens'
            BY <1>4, <3>3, <3>4
      <3>. QED BY <1>1, <1>4, <3>1, <3>5 DEF CountInv
    <2>3. ASSUME NEW r \in FpSessions, Present(r)'
          PROVE  Present(r) /\ fp'[r].account = fp[r].account
      <3>1. CASE r = s
            BY <1>2, <1>4, <2>1, <2>3, <3>1 DEF Present, At
      <3>2. CASE r # s
            BY <1>4, <2>3, <3>2 DEF Present, At
      <3>. QED BY <3>1, <3>2
    <2>4. CrossInv'
          BY <1>1, <1>4, <2>3 DEF CrossInv
    <2>5. ASSUME NEW r \in FpSessions, r # s PROVE VisitInv(r)'
          BY <1>4, <2>5, OtherVisits
    <2>. QED BY <1>1, <1>4, <2>1, <2>2, <2>4, <2>5 DEF FpInv, CountInv
  <1>5. ASSUME NEW s \in FpSessions, FpRollsBack(s) PROVE FpInv'
    <2>1. Present(s) /\ fp' = [fp EXCEPT ![s] = Away]
          /\ UNCHANGED <<seen, visits, crossed, suspected, opens>>
          BY <1>5 DEF FpRollsBack
    <2>2. VisitInv(s)'
          BY <1>1, <1>2, <2>1 DEF VisitInv, Present, At
    <2>. QED BY <1>4, <2>1, <2>2
  <1>6. ASSUME NEW s \in FpSessions, Flush(s) PROVE FpInv'
    <2>. DEFINE a == fp[s].account
    <2>1. /\ fp[s].step = "looked" /\ Present(s)
          /\ UNCHANGED <<seen, visits, crossed, suspected, opens>>
          BY <1>6 DEF Flush, At, Present
    <2>2. /\ a \in Accounts /\ fp[s].read \in Nat /\ fp[s].read <= visits[a]
          /\ <<a, a>> \notin crossed => fp[s].read = seen[a]
          BY <1>1, <2>1 DEF VisitInv, At
    <2>3. CASE fp[s].read = 0 /\ seen[a] > 0
      <3>1. fp' = [fp EXCEPT ![s] = Away]
            BY <1>6, <2>3 DEF Flush
      <3>2. VisitInv(s)'
            BY <1>1, <1>2, <3>1 DEF VisitInv, Present, At
      <3>. QED BY <1>4, <2>1, <3>1, <3>2
    <2>4. CASE ~(fp[s].read = 0 /\ seen[a] > 0)
      <3>1. PICK sh : sh = (Cardinality(Matching(s)) > 1)
            OBVIOUS
      <3>2. PICK v : v = [step |-> "flushed", account |-> a, count |-> fp[s].read + 1,
                          shared |-> sh]
            OBVIOUS
      <3>3. fp' = [fp EXCEPT ![s] = v]
            BY <1>6, <2>4, <3>1, <3>2 DEF Flush, CountAfter
      <3>4. fp'[s] = v
            BY <1>1, <3>3
      <3>5. ASSUME ~sh, NEW b \in Accounts \ {a}, seen[b] > 0 PROVE FALSE
        <4>1. a \in Matching(s) /\ b \in Matching(s) /\ Matching(s) \subseteq Accounts
              BY <2>2, <3>5 DEF Matching
        <4>2. IsFiniteSet(Matching(s)) /\ IsFiniteSet({a, b})
              BY <1>2, <4>1, FS_Subset
        <4>3. Cardinality({a, b}) = 2
          <5>1. IsFiniteSet({a}) /\ Cardinality({a}) = 1
                BY FS_Singleton
          <5>0. b \notin {a}
                BY <3>5
          <5>4. Cardinality({a} \cup {b}) = IF b \in {a} THEN 1 ELSE 1 + 1
                BY ONLY <5>1, FS_AddElement
          <5>2. Cardinality({a} \cup {b}) = 2
                BY <5>0, <5>4
          <5>3. {a} \cup {b} = {a, b}
                OBVIOUS
          <5>. QED BY <5>2, <5>3
        <4>4. Cardinality({a, b}) <= Cardinality(Matching(s))
              BY <4>1, <4>2, FS_Subset
        <4>5. PICK n \in Nat : n = Cardinality(Matching(s))
              BY <4>2, FS_CardinalityType
        <4>6. ~(Cardinality(Matching(s)) > 1)
              BY ONLY <3>1, <3>5, Zenon
        <4>. QED BY <4>3, <4>4, <4>5, <4>6
      <3>6. VisitInv(s)'
        <4>1. /\ fp[s].read + 1 \in Nat /\ 1 <= fp[s].read + 1 /\ fp[s].read + 1 <= visits[a] + 1
              /\ <<a, a>> \notin crossed => fp[s].read + 1 = seen[a] + 1
              BY <1>1, <2>2
        <4>2. /\ fp'[s].step = "flushed" /\ fp'[s].account = a /\ fp'[s].count = fp[s].read + 1
              /\ (fp'[s].shared = sh)
              BY <3>2, <3>4
        <4>. QED BY <2>1, <2>2, <3>5, <4>1, <4>2 DEF VisitInv, At
      <3>. QED BY <1>4, <2>1, <3>2, <3>3, <3>6
    <2>. QED BY <2>3, <2>4
  <1>7. ASSUME NEW s \in FpSessions, FpCommits(s) PROVE FpInv'
    <2>1. PICK a : a = fp[s].account
          OBVIOUS
    <2>2. /\ fp[s].step = "flushed" /\ Present(s)
          /\ seen' = [seen EXCEPT ![a] = fp[s].count]
          /\ visits' = [visits EXCEPT ![a] = visits[a] + 1]
          /\ fp' = [fp EXCEPT ![s] = Away]
          /\ UNCHANGED <<crossed, opens>>
          BY <1>1, <1>7, <2>1 DEF FpCommits, At, Present
    <2>3. /\ suspected \subseteq suspected' /\ suspected' \subseteq suspected \cup {a}
          /\ fp[s].shared => a \in suspected'
          BY <1>7, <2>1 DEF FpCommits
    <2>4. /\ a \in Accounts /\ fp[s].count \in Nat /\ 1 <= fp[s].count
          /\ fp[s].count <= visits[a] + 1
          /\ <<a, a>> \notin crossed => fp[s].count = seen[a] + 1
          /\ ~fp[s].shared => \A b \in Accounts \ {a} :
                                  seen[b] > 0 => {<<a, b>>, <<b, a>>} \subseteq crossed
          BY <1>1, <2>1, <2>2 DEF VisitInv, At
    <2>5. /\ seen' \in [Accounts -> Nat] /\ visits' \in [Accounts -> Nat]
          /\ seen'[a] = fp[s].count /\ visits'[a] = visits[a] + 1
          /\ \A b \in Accounts \ {a} : seen'[b] = seen[b] /\ visits'[b] = visits[b]
          BY <1>1, <2>2, <2>4
    <2>6. /\ fp'[s] = Away /\ DOMAIN fp' = FpSessions /\ ~Present(s)'
          /\ \A r \in FpSessions : r # s => fp'[r] = fp[r] /\ (Present(r)' => Present(r))
          BY <1>1, <1>2, <2>2 DEF Present, At
    <2>7. ASSUME NEW b \in Accounts
          PROVE  /\ seen'[b] <= visits'[b] /\ (visits'[b] > 0 => seen'[b] > 0)
                 /\ <<b, b>> \notin crossed' => seen'[b] = visits'[b]
                 /\ visits'[b] + Cardinality(PresentOf(b)') <= opens'
      <3>1. PICK n, m : n = Cardinality(PresentOf(b)) /\ m = Cardinality(PresentOf(b)')
            OBVIOUS
      <3>2. s \notin PresentOf(b)' /\ (b = a => s \in PresentOf(b))
            BY <2>1, <2>2, <2>6 DEF PresentOf
      <3>3. n \in Nat /\ m \in Nat /\ m <= n /\ (b = a => m + 1 = n)
            BY <1>1, <2>2, <3>1, <3>2, PresentMoves
      <3>4. /\ visits[b] \in Nat /\ seen[b] \in Nat /\ opens \in Nat /\ visits[b] + n <= opens
            /\ seen[b] <= visits[b] /\ (visits[b] > 0 => seen[b] > 0)
            /\ <<b, b>> \notin crossed => seen[b] = visits[b]
            BY <1>1, <1>2, <3>1 DEF CountInv
      <3>5. CASE b = a
            BY <2>2, <2>4, <2>5, <3>1, <3>3, <3>4, <3>5
      <3>6. CASE b # a
            BY <2>2, <2>5, <3>1, <3>3, <3>4, <3>6
      <3>. QED BY <3>5, <3>6
    <2>8. CrossInv'
      <3>1. ASSUME NEW t \in FpSessions, NEW r \in FpSessions, t # r, Present(t)', Present(r)'
            PROVE  <<fp'[t].account, fp'[r].account>> \in crossed'
        <4>1. t # s /\ r # s /\ Present(t) /\ Present(r)
              BY <2>6, <3>1
        <4>. QED BY <1>1, <2>2, <2>6, <3>1, <4>1 DEF CrossInv
      <3>2. ASSUME NEW b \in Accounts, NEW c \in Accounts, b # c, seen'[b] > 0, seen'[c] > 0
            PROVE  b \in suspected' \/ c \in suspected' \/ <<b, c>> \in crossed'
        <4>1. CASE b # a /\ c # a
              BY <1>1, <2>2, <2>3, <2>5, <3>2, <4>1 DEF CrossInv
        <4>2. CASE b = a
              BY <2>2, <2>3, <2>4, <2>5, <3>2, <4>2
        <4>3. CASE c = a
              BY <2>2, <2>3, <2>4, <2>5, <3>2, <4>3
        <4>. QED BY <4>1, <4>2, <4>3
      <3>. QED BY <3>1, <3>2 DEF CrossInv
    <2>9. ASSUME NEW r \in FpSessions, Present(r)' PROVE VisitInv(r)'
      <3>1. r # s /\ fp'[r] = fp[r] /\ Present(r)
            BY <2>6, <2>9
      <3>2. PICK b : b = fp[r].account
            OBVIOUS
      <3>3. /\ b \in Accounts /\ <<b, a>> \in crossed /\ <<a, b>> \in crossed
            /\ fp[r].step \in {"looked", "flushed"}
            /\ At(r, "looked") =>
                  /\ fp[r].read \in Nat /\ fp[r].read <= visits[b]
                  /\ <<b, b>> \notin crossed => fp[r].read = seen[b]
            /\ At(r, "flushed") =>
                  /\ fp[r].count \in Nat /\ 1 <= fp[r].count /\ fp[r].count <= visits[b] + 1
                  /\ <<b, b>> \notin crossed => fp[r].count = seen[b] + 1
                  /\ ~fp[r].shared => \A c \in Accounts \ {b} :
                                          seen[c] > 0 => {<<b, c>>, <<c, b>>} \subseteq crossed
            BY <1>1, <2>1, <2>2, <3>1, <3>2 DEF VisitInv, CrossInv
      <3>4. /\ visits[b] \in Nat /\ visits'[b] \in Nat /\ visits[b] <= visits'[b]
            /\ <<b, b>> \notin crossed => seen'[b] = seen[b]
            BY <1>1, <2>4, <2>5, <3>3
      <3>5. \A c \in Accounts \ {b} : seen'[c] > 0 =>
                seen[c] > 0 \/ {<<b, c>>, <<c, b>>} \subseteq crossed
            BY <2>5, <3>3
      <3>6. fp[r].step = "looked" => fp[r].read <= visits'[b]
            BY <3>3, <3>4 DEF At
      <3>7. fp[r].step = "flushed" => fp[r].count <= visits'[b] + 1
            BY <3>3, <3>4 DEF At
      <3>. QED BY <2>2, <3>1, <3>2, <3>3, <3>4, <3>5, <3>6, <3>7 DEF VisitInv, At
    <2>10. \A r \in FpSessions : VisitInv(r)'
      <3>1. ASSUME NEW r \in FpSessions, ~Present(r)' PROVE VisitInv(r)'
            BY <3>1 DEF VisitInv
      <3>. QED BY <2>9, <3>1
    <2>. QED BY <1>1, <2>2, <2>3, <2>4, <2>5, <2>6, <2>7, <2>8, <2>10 DEF FpInv, CountInv
  <1>8. CASE UNCHANGED fpVars
    <2>1. UNCHANGED <<seen, visits, crossed, suspected, fp, opens>>
          BY <1>8 DEF fpVars
    <2>. QED BY <1>1, <2>1
         DEF FpInv, CountInv, CrossInv, VisitInv, PresentOf, Present, At
  <1>. QED BY <1>3, <1>5, <1>6, <1>7, <1>8 DEF FpNext

\* In DeviceFingerprints every variable keeps its type, a device two accounts share is
\* noticed, and a device is counted as often as it was seen, but for requests at once.
THEOREM FpIsSafe ==
    FpSpec => [](FpTypeOK /\ SharedDeviceIsNoticed /\ SeenAsOftenAsVisited)
  <1>1. ASSUME FpInv PROVE FpTypeOK
    <2>1. ASSUME NEW a \in Accounts PROVE visits[a] \in 0..MaxOpens /\ seen[a] \in 0..MaxOpens
      <3>1. PICK n : n = Cardinality(PresentOf(a))
            OBVIOUS
      <3>2. IsFiniteSet(PresentOf(a))
            BY FpAssumption, FS_Subset DEF PresentOf
      <3>3. n \in Nat
            BY <3>1, <3>2, FS_CardinalityType
      <3>4. /\ visits[a] \in Nat /\ seen[a] \in Nat /\ seen[a] <= visits[a]
            /\ visits[a] + Cardinality(PresentOf(a)) <= opens /\ opens \in 0..MaxOpens
            BY <1>1 DEF FpInv, CountInv
      <3>. QED BY <3>1, <3>3, <3>4, FpAssumption
    <2>2. seen \in [Accounts -> 0..MaxOpens] /\ visits \in [Accounts -> 0..MaxOpens]
          BY <1>1, <2>1 DEF FpInv
    <2>. QED BY <1>1, <2>2 DEF FpInv, FpTypeOK
  <1>2. ASSUME FpInv PROVE SharedDeviceIsNoticed /\ SeenAsOftenAsVisited
        BY <1>2 DEF FpInv, CountInv, CrossInv, SharedDeviceIsNoticed, SeenAsOftenAsVisited
  <1>3. FpInit => FpInv
        BY FpInitInv
  <1>. QED BY <1>1, <1>2, <1>3, FpStep, PTL DEF FpSpec

-----------------------------------------------------------------------------
(* TemplateRegistry: templates and their scans *)

\* An available template is clean or its scan is mocked, and one that waits for its scan
\* has a message, a registrar that will send one, or a registrar or a scan that died.
RegistryInv ==
    /\ template \in [Slugs -> TemplateStatus \cup {"none"}]
    /\ scans \subseteq Slugs /\ deserted \subseteq Slugs /\ lost \subseteq Slugs
    /\ DOMAIN registrar = Registrars
    /\ \A r \in Registrars : registrar[r] = Off
           \/ registrar[r] \in [step : {"looked", "committed"}, slug : Slugs]
    /\ DOMAIN scanner = Scanners
    /\ \A w \in Scanners : scanner[w] = Off \/ scanner[w] \in [step : {"scanning"}, slug : Slugs]
    /\ OfferedIsClean /\ PendingIsAwaited

LEMMA RegistryInitInv == ASSUME TemplateInit PROVE RegistryInv
  <1>1. \A t \in Slugs : template[t] = "none"
        BY DEF TemplateInit
  <1>. QED BY <1>1 DEF TemplateInit, RegistryInv, TemplateStatus, OfferedIsClean, PendingIsAwaited

\* A scan that ends: what it writes is not pending, and offered only if clean or mocked.
LEMMA ScanWrites ==
    ASSUME RegistryInv, UNCHANGED clean, NEW t \in Slugs, NEW answered \in BOOLEAN,
           template' = [template EXCEPT ![t] = IF Passed(t, answered) THEN "available" ELSE "disabled"]
    PROVE  /\ template' \in [Slugs -> TemplateStatus \cup {"none"}]
           /\ template'[t] # "pending_scan"
           /\ \A u \in Slugs : u # t => template'[u] = template[u]
           /\ OfferedIsClean'
  <1>1. /\ template \in [Slugs -> TemplateStatus \cup {"none"}] /\ OfferedIsClean
        BY DEF RegistryInv
  <1>2. PICK v : v = IF Passed(t, answered) THEN "available" ELSE "disabled"
        OBVIOUS
  <1>3. template' = [template EXCEPT ![t] = v]
        BY <1>2
  <1>4. v \in {"available", "disabled"}
        BY <1>2
  <1>5. template'[t] = v /\ \A u \in Slugs : u # t => template'[u] = template[u]
        BY <1>1, <1>3
  <1>6. template' \in [Slugs -> TemplateStatus \cup {"none"}]
        BY <1>1, <1>3, <1>4 DEF TemplateStatus
  <1>7. OfferedIsClean'
    <2>1. SUFFICES ASSUME ~ScanMock, NEW u \in Slugs, template'[u] = "available" PROVE clean'[u]
          BY DEF OfferedIsClean
    <2>2. CASE u = t
          BY <1>2, <1>5, <2>1, <2>2 DEF Passed
    <2>3. CASE u # t
          BY <1>1, <1>5, <2>1, <2>3 DEF OfferedIsClean
    <2>. QED BY <2>2, <2>3
  <1>. QED BY <1>4, <1>5, <1>6, <1>7

LEMMA RegistryStep == ASSUME RegistryInv, [TemplateNext]_templateVars PROVE RegistryInv'
  <1>1. /\ template \in [Slugs -> TemplateStatus \cup {"none"}]
        /\ scans \subseteq Slugs /\ deserted \subseteq Slugs /\ lost \subseteq Slugs
        /\ DOMAIN registrar = Registrars
        /\ \A r \in Registrars : registrar[r] = Off
               \/ registrar[r] \in [step : {"looked", "committed"}, slug : Slugs]
        /\ DOMAIN scanner = Scanners
        /\ \A w \in Scanners : scanner[w] = Off \/ scanner[w] \in [step : {"scanning"}, slug : Slugs]
        /\ OfferedIsClean /\ PendingIsAwaited
        BY DEF RegistryInv
  <1>2. Off.step = "off"
        BY DEF Off
  <1>3. ASSUME UNCHANGED <<clean, template, scans, registrar, scanner, deserted, lost>>
        PROVE  RegistryInv'
        BY <1>1, <1>3 DEF RegistryInv, OfferedIsClean, PendingIsAwaited
  <1>4. ASSUME NEW r \in Registrars, NEW t \in Slugs, CreateLooks(r, t) PROVE RegistryInv'
    <2>1. /\ registrar[r] = Off
          /\ registrar' = [registrar EXCEPT ![r] = [step |-> "looked", slug |-> t]]
          /\ UNCHANGED <<clean, template, scans, scanner, deserted, lost>>
          BY <1>4 DEF CreateLooks
    <2>2. OfferedIsClean'
          BY <1>1, <2>1 DEF OfferedIsClean
    <2>3. PendingIsAwaited'
      <3>1. SUFFICES ASSUME NEW u \in Slugs, template[u] = "pending_scan"
                     PROVE  \/ u \in scans' \cup deserted' \cup lost'
                            \/ \E q \in Registrars :
                                  registrar'[q] = [step |-> "committed", slug |-> u]
            BY <2>1 DEF PendingIsAwaited
      <3>2. CASE u \in scans \cup deserted \cup lost
            BY <2>1, <3>2
      <3>3. ASSUME NEW q \in Registrars, registrar[q] = [step |-> "committed", slug |-> u]
            PROVE  \/ u \in scans' \cup deserted' \cup lost'
                   \/ registrar'[q] = [step |-> "committed", slug |-> u]
        <4>1. q # r
              BY <1>2, <2>1, <3>3
        <4>. QED BY <2>1, <3>3, <4>1
      <3>. QED BY <1>1, <3>1, <3>2, <3>3 DEF PendingIsAwaited
    <2>4. /\ DOMAIN registrar' = Registrars
          /\ \A q \in Registrars : registrar'[q] = Off
                 \/ registrar'[q] \in [step : {"looked", "committed"}, slug : Slugs]
          BY <1>1, <2>1
    <2>. QED BY <1>1, <2>1, <2>2, <2>3, <2>4 DEF RegistryInv
  <1>5. ASSUME NEW r \in Registrars, CreateCommits(r) PROVE RegistryInv'
    <2>1. PICK t : t = registrar[r].slug
          OBVIOUS
    <2>2. /\ registrar[r].step = "looked"
          /\ UNCHANGED <<clean, scans, scanner, deserted, lost>>
          BY <1>5 DEF CreateCommits
    <2>3. t \in Slugs
          BY <1>1, <1>2, <2>1, <2>2
    <2>4. CASE template[t] = "none"
      <3>1. /\ template' = [template EXCEPT ![t] = "pending_scan"]
            /\ registrar' = [registrar EXCEPT ![r] = [step |-> "committed", slug |-> t]]
            BY <1>5, <2>1, <2>4 DEF CreateCommits
      <3>2. /\ template' \in [Slugs -> TemplateStatus \cup {"none"}]
            BY <1>1, <2>3, <3>1 DEF TemplateStatus
      <3>3. OfferedIsClean'
            BY <1>1, <2>2, <2>3, <3>1 DEF OfferedIsClean
      <3>4. /\ DOMAIN registrar' = Registrars
            /\ \A q \in Registrars : registrar'[q] = Off
                   \/ registrar'[q] \in [step : {"looked", "committed"}, slug : Slugs]
            BY <1>1, <2>3, <3>1
      <3>5. PendingIsAwaited'
        <4>1. SUFFICES ASSUME NEW u \in Slugs, template'[u] = "pending_scan"
                       PROVE  \/ u \in scans \cup deserted \cup lost
                              \/ \E q \in Registrars :
                                    registrar'[q] = [step |-> "committed", slug |-> u]
              BY <2>2 DEF PendingIsAwaited
        <4>2. CASE u = t
              BY <1>1, <3>1, <4>2
        <4>3. CASE u # t
              BY <1>1, <2>2, <3>1, <4>1, <4>3 DEF PendingIsAwaited
        <4>. QED BY <4>2, <4>3
      <3>. QED BY <1>1, <2>2, <3>2, <3>3, <3>4, <3>5 DEF RegistryInv
    <2>5. CASE template[t] # "none"
      <3>1. registrar' = [registrar EXCEPT ![r] = Off] /\ UNCHANGED template
            BY <1>5, <2>1, <2>5 DEF CreateCommits
      <3>2. OfferedIsClean' /\ PendingIsAwaited'
            BY <1>1, <2>2, <3>1 DEF OfferedIsClean, PendingIsAwaited
      <3>. QED BY <1>1, <2>2, <3>1, <3>2 DEF RegistryInv
    <2>. QED BY <2>4, <2>5
  <1>6. ASSUME NEW r \in Registrars, CreateEnqueues(r) PROVE RegistryInv'
    <2>1. /\ registrar[r].step = "committed"
          /\ scans' = scans \cup {registrar[r].slug}
          /\ registrar' = [registrar EXCEPT ![r] = Off]
          /\ UNCHANGED <<clean, template, scanner, deserted, lost>>
          BY <1>6 DEF CreateEnqueues
    <2>2. registrar[r].slug \in Slugs
          BY <1>1, <1>2, <2>1
    <2>3. OfferedIsClean'
          BY <1>1, <2>1 DEF OfferedIsClean
    <2>4. PendingIsAwaited'
      <3>1. SUFFICES ASSUME NEW u \in Slugs, template[u] = "pending_scan"
                     PROVE  \/ u \in scans' \cup deserted' \cup lost'
                            \/ \E q \in Registrars :
                                  registrar'[q] = [step |-> "committed", slug |-> u]
            BY <2>1 DEF PendingIsAwaited
      <3>2. CASE u \in scans \cup deserted \cup lost
            BY <2>1, <3>2
      <3>3. ASSUME NEW q \in Registrars, registrar[q] = [step |-> "committed", slug |-> u]
            PROVE  \/ u \in scans' \cup deserted' \cup lost'
                   \/ registrar'[q] = [step |-> "committed", slug |-> u]
        <4>1. CASE q = r
              BY <2>1, <3>3, <4>1
        <4>2. CASE q # r
              BY <2>1, <3>3, <4>2
        <4>. QED BY <4>1, <4>2
      <3>. QED BY <1>1, <3>1, <3>2, <3>3 DEF PendingIsAwaited
    <2>. QED BY <1>1, <2>1, <2>2, <2>3, <2>4 DEF RegistryInv
  <1>7. ASSUME NEW r \in Registrars, CreatorDies(r) PROVE RegistryInv'
    <2>1. /\ registrar[r].step = "committed"
          /\ deserted' = deserted \cup {registrar[r].slug}
          /\ registrar' = [registrar EXCEPT ![r] = Off]
          /\ UNCHANGED <<clean, template, scans, scanner, lost>>
          BY <1>7 DEF CreatorDies
    <2>2. registrar[r].slug \in Slugs
          BY <1>1, <1>2, <2>1
    <2>3. OfferedIsClean'
          BY <1>1, <2>1 DEF OfferedIsClean
    <2>4. PendingIsAwaited'
      <3>1. SUFFICES ASSUME NEW u \in Slugs, template[u] = "pending_scan"
                     PROVE  \/ u \in scans' \cup deserted' \cup lost'
                            \/ \E q \in Registrars :
                                  registrar'[q] = [step |-> "committed", slug |-> u]
            BY <2>1 DEF PendingIsAwaited
      <3>2. CASE u \in scans \cup deserted \cup lost
            BY <2>1, <3>2
      <3>3. ASSUME NEW q \in Registrars, registrar[q] = [step |-> "committed", slug |-> u]
            PROVE  \/ u \in scans' \cup deserted' \cup lost'
                   \/ registrar'[q] = [step |-> "committed", slug |-> u]
        <4>1. CASE q = r
              BY <2>1, <3>3, <4>1
        <4>2. CASE q # r
              BY <2>1, <3>3, <4>2
        <4>. QED BY <4>1, <4>2
      <3>. QED BY <1>1, <3>1, <3>2, <3>3 DEF PendingIsAwaited
    <2>. QED BY <1>1, <2>1, <2>2, <2>3, <2>4 DEF RegistryInv
  <1>8. ASSUME NEW w \in Scanners, NEW t \in Slugs, ScanPickup(w, t) PROVE RegistryInv'
    <2>1. /\ scanner' = [scanner EXCEPT ![w] = [step |-> "scanning", slug |-> t]]
          /\ UNCHANGED <<clean, template, scans, registrar, deserted, lost>>
          BY <1>8 DEF ScanPickup
    <2>2. OfferedIsClean' /\ PendingIsAwaited'
          BY <1>1, <2>1 DEF OfferedIsClean, PendingIsAwaited
    <2>3. /\ DOMAIN scanner' = Scanners
          /\ \A v \in Scanners : scanner'[v] = Off \/ scanner'[v] \in [step : {"scanning"}, slug : Slugs]
          BY <1>1, <2>1
    <2>. QED BY <1>1, <2>1, <2>2, <2>3 DEF RegistryInv
  <1>9. ASSUME NEW w \in Scanners, NEW t, t = scanner[w].slug, scanner[w].step = "scanning",
               \/ UNCHANGED template
               \/ \E answered \in BOOLEAN : Scanned(t, answered),
               \/ UNCHANGED <<scans, lost>>
               \/ scans' = scans \ {t} /\ lost' = lost \cup {t},
               scanner' = [scanner EXCEPT ![w] = Off],
               UNCHANGED <<clean, registrar, deserted>>
        PROVE  RegistryInv'
    <2>1. t \in Slugs
          BY <1>1, <1>2, <1>9
    <2>2. /\ scans' \subseteq Slugs /\ lost' \subseteq Slugs
          /\ scans \cup lost \subseteq scans' \cup lost'
          BY <1>1, <1>9, <2>1
    <2>3. /\ template' \in [Slugs -> TemplateStatus \cup {"none"}] /\ OfferedIsClean'
          /\ \A u \in Slugs : template'[u] = "pending_scan" => template[u] = "pending_scan"
      <3>1. CASE UNCHANGED template
            BY <1>1, <1>9, <3>1 DEF OfferedIsClean
      <3>2. ASSUME NEW answered \in BOOLEAN, Scanned(t, answered)
            PROVE  /\ template' \in [Slugs -> TemplateStatus \cup {"none"}] /\ OfferedIsClean'
                   /\ \A u \in Slugs : template'[u] = "pending_scan" => template[u] = "pending_scan"
        <4>1. template' = [template EXCEPT ![t] = IF Passed(t, answered) THEN "available" ELSE "disabled"]
              BY <3>2 DEF Scanned
        <4>2. UNCHANGED clean
              BY <1>9
        <4>3. /\ template' \in [Slugs -> TemplateStatus \cup {"none"}]
              /\ template'[t] # "pending_scan"
              /\ \A u \in Slugs : u # t => template'[u] = template[u]
              /\ OfferedIsClean'
              BY <2>1, <4>1, <4>2, ScanWrites
        <4>. QED BY <4>3
      <3>. QED BY <1>9, <3>1, <3>2
    <2>4. PendingIsAwaited'
      <3>1. SUFFICES ASSUME NEW u \in Slugs, template'[u] = "pending_scan"
                     PROVE  \/ u \in scans' \cup deserted \cup lost'
                            \/ \E q \in Registrars :
                                  registrar[q] = [step |-> "committed", slug |-> u]
            BY <1>9 DEF PendingIsAwaited
      <3>2. template[u] = "pending_scan"
            BY <2>3, <3>1
      <3>. QED BY <1>1, <2>2, <3>2 DEF PendingIsAwaited
    <2>5. /\ DOMAIN scanner' = Scanners
          /\ \A v \in Scanners : scanner'[v] = Off \/ scanner'[v] \in [step : {"scanning"}, slug : Slugs]
          BY <1>1, <1>9
    <2>. QED BY <1>1, <1>9, <2>2, <2>3, <2>4, <2>5 DEF RegistryInv
  <1>10. ASSUME NEW w \in Scanners, NEW answered \in BOOLEAN, ScanEnds(w, answered)
         PROVE  RegistryInv'
    <2>1. PICK t : t = scanner[w].slug
          OBVIOUS
    <2>2. /\ scanner[w].step = "scanning" /\ Scanned(t, answered)
          /\ scans' = scans \ {t} /\ lost' = lost
          /\ scanner' = [scanner EXCEPT ![w] = Off]
          /\ UNCHANGED <<clean, registrar, deserted>>
          BY <1>10, <2>1 DEF ScanEnds
    <2>3. t \in Slugs
          BY <1>1, <1>2, <2>1, <2>2
    <2>4. /\ template' \in [Slugs -> TemplateStatus \cup {"none"}]
          /\ template'[t] # "pending_scan"
          /\ \A u \in Slugs : u # t => template'[u] = template[u]
          /\ OfferedIsClean'
          BY <2>2, <2>3, ScanWrites DEF Scanned
    <2>5. PendingIsAwaited'
      <3>1. SUFFICES ASSUME NEW u \in Slugs, template'[u] = "pending_scan"
                     PROVE  \/ u \in scans' \cup deserted \cup lost
                            \/ \E q \in Registrars :
                                  registrar[q] = [step |-> "committed", slug |-> u]
            BY <2>2 DEF PendingIsAwaited
      <3>2. u # t /\ template[u] = "pending_scan"
            BY <2>4, <3>1
      <3>. QED BY <1>1, <2>2, <3>2 DEF PendingIsAwaited
    <2>6. /\ scans' \subseteq Slugs /\ DOMAIN scanner' = Scanners
          /\ \A v \in Scanners : scanner'[v] = Off \/ scanner'[v] \in [step : {"scanning"}, slug : Slugs]
          BY <1>1, <2>2
    <2>. QED BY <1>1, <2>2, <2>4, <2>5, <2>6 DEF RegistryInv
  <1>11. ASSUME NEW w \in Scanners, ScanWriteFails(w) \/ ScannerDies(w) PROVE RegistryInv'
         BY <1>9, <1>11 DEF ScanWriteFails, ScannerDies
  <1>12. ASSUME NEW i \in UiInstances, NEW t \in Slugs, Launch(i, t) PROVE RegistryInv'
         BY <1>3, <1>12 DEF Launch
  <1>13. ASSUME NEW v \in Viewers, NEW i \in UiInstances, ViewReads(v, i) PROVE RegistryInv'
         BY <1>3, <1>13 DEF ViewReads
  <1>14. ASSUME NEW v \in Viewers, ViewCommits(v) \/ ViewFails(v) PROVE RegistryInv'
         BY <1>3, <1>14 DEF ViewCommits, ViewFails
  <1>15. ASSUME NEW i \in UiInstances,
                TeardownRevokes(i) \/ TeardownCommits(i) \/ TeardownFails(i) \/ KillInstance(i)
         PROVE  RegistryInv'
         BY <1>3, <1>15 DEF TeardownRevokes, TeardownCommits, TeardownFails, KillInstance
  <1>16. CASE UNCHANGED templateVars
         BY <1>3, <1>16 DEF templateVars
  <1>. QED BY <1>4, <1>5, <1>6, <1>7, <1>8, <1>10, <1>11, <1>12, <1>13, <1>14, <1>15, <1>16
           DEF TemplateNext

-----------------------------------------------------------------------------
(* TemplateRegistry: the tokens of web interfaces *)

Token == [n : Int, revoked : BOOLEAN, overlaps : BOOLEAN]

\* Requests that have read an instance's status and not yet committed their token.
Readers(i) == {v \in Viewers : viewer[v].step = "reading" /\ viewer[v].instance = i}

\* A token that a teardown has not found, or that outlives one, overlaps it.
TokensInv(i) ==
    /\ IsFiniteSet(token[i]) /\ token[i] \subseteq Token
    /\ Cardinality(token[i]) + Cardinality(Readers(i)) <= MaxTokens + Cardinality(Viewers)
    /\ \A k \in token[i] : 0 <= k.n /\ k.n <= MaxTokens + Cardinality(Viewers)
    /\ instance[i].step = "terminated" =>
           i \in killed \/ \A k \in token[i] : k.revoked \/ k.overlaps
    /\ \/ teardown[i] = Off
       \/ /\ teardown[i].step = "revoked"
          /\ \A k \in token[i] : k \in teardown[i].found \/ k.overlaps

TokenInv ==
    /\ DOMAIN token = UiInstances /\ DOMAIN instance = UiInstances
    /\ DOMAIN teardown = UiInstances /\ DOMAIN viewer = Viewers
    /\ \A v \in Viewers : \/ viewer[v] = Off
                          \/ /\ viewer[v].step = "reading" /\ viewer[v].read = "running"
                             /\ viewer[v].instance \in UiInstances
    /\ killed \subseteq UiInstances
    /\ \A i \in UiInstances : TokensInv(i)

\* The requests are finitely many, and one that ends leaves one fewer.
LEMMA ReadersMove ==
    ASSUME DOMAIN viewer = Viewers, NEW v \in Viewers, NEW x, viewer' = [viewer EXCEPT ![v] = x],
           NEW i \in UiInstances
    PROVE  /\ Cardinality(Readers(i)) \in Nat /\ Cardinality(Readers(i)') \in Nat
           /\ Cardinality(Viewers) \in Nat /\ Cardinality(Readers(i)') <= Cardinality(Viewers)
           /\ x = Off => /\ Cardinality(Readers(i)') <= Cardinality(Readers(i))
                         /\ v \in Readers(i) =>
                               Cardinality(Readers(i)') + 1 = Cardinality(Readers(i))
  <1>1. \A u \in Viewers : u # v => viewer'[u] = viewer[u]
        OBVIOUS
  <1>2. IsFiniteSet(Viewers)
        BY TemplateAssumption
  <1>3. /\ Readers(i) \subseteq Viewers /\ Readers(i)' \subseteq Viewers
        BY DEF Readers
  <1>4. PICK P, Q : P = Readers(i) /\ Q = Readers(i)'
        OBVIOUS
  <1>5. IsFiniteSet(P) /\ IsFiniteSet(Q)
        BY <1>2, <1>3, <1>4, FS_Subset
  <1>6. PICK n, m, w \in Nat : n = Cardinality(P) /\ m = Cardinality(Q) /\ w = Cardinality(Viewers)
        BY <1>2, <1>5, FS_CardinalityType
  <1>7. m <= w
        BY <1>2, <1>3, <1>4, <1>6, FS_Subset
  <1>8. ASSUME x = Off PROVE m <= n /\ (v \in P => m + 1 = n)
    <2>1. Q = P \ {v}
      <3>1. viewer'[v].step = "off"
            BY <1>8 DEF Off
      <3>. QED BY <1>1, <1>4, <3>1 DEF Readers
    <2>2. m = IF v \in P THEN n - 1 ELSE n
          BY <1>5, <1>6, <2>1, FS_RemoveElement
    <2>. QED BY <1>6, <2>2
  <1>. QED BY <1>4, <1>6, <1>7, <1>8

LEMMA TokenInitInv == ASSUME TemplateInit PROVE TokenInv
  <1>1. /\ DOMAIN token = UiInstances /\ DOMAIN instance = UiInstances
        /\ DOMAIN teardown = UiInstances /\ DOMAIN viewer = Viewers
        /\ \A v \in Viewers : viewer[v] = Off
        /\ \A i \in UiInstances : instance[i] = Off /\ token[i] = {} /\ teardown[i] = Off
        /\ killed = {}
        BY DEF TemplateInit
  <1>2. ASSUME NEW i \in UiInstances PROVE TokensInv(i)
    <2>1. Readers(i) = {} /\ instance[i].step # "terminated"
          BY <1>1, <1>2 DEF Readers, Off
    <2>2. Cardinality({}) = 0 /\ IsFiniteSet({})
          BY FS_EmptySet
    <2>3. Cardinality(Viewers) \in Nat /\ MaxTokens \in Nat
          BY TemplateAssumption, FS_CardinalityType
    <2>4. Cardinality(token[i]) + Cardinality(Readers(i)) <= MaxTokens + Cardinality(Viewers)
      <3>1. 0 + 0 <= MaxTokens + Cardinality(Viewers)
            BY ONLY <2>3
      <3>. QED BY <1>1, <2>1, <2>2, <3>1
    <2>5. IsFiniteSet(token[i]) /\ token[i] = {} /\ teardown[i] = Off
          BY <1>1, <2>2
    <2>. QED BY <2>1, <2>4, <2>5 DEF TokensInv
  <1>. QED BY <1>1, <1>2 DEF TokenInv

LEMMA TokenStep == ASSUME TokenInv, [TemplateNext]_templateVars PROVE TokenInv'
  <1>1. /\ DOMAIN token = UiInstances /\ DOMAIN instance = UiInstances
        /\ DOMAIN teardown = UiInstances /\ DOMAIN viewer = Viewers
        /\ \A v \in Viewers : \/ viewer[v] = Off
                              \/ /\ viewer[v].step = "reading" /\ viewer[v].read = "running"
                                 /\ viewer[v].instance \in UiInstances
        /\ killed \subseteq UiInstances
        /\ \A i \in UiInstances : TokensInv(i)
        BY DEF TokenInv
  <1>2. Off.step = "off"
        BY DEF Off
  <1>3. MaxTokens \in Nat /\ Cardinality(Viewers) \in Nat
        BY TemplateAssumption, FS_CardinalityType
  <1>4. ASSUME UNCHANGED <<instance, token, viewer, teardown, killed>> PROVE TokenInv'
        BY <1>1, <1>4 DEF TokenInv, TokensInv, Readers
  <1>5. ASSUME NEW i \in UiInstances, NEW t \in Slugs, Launch(i, t) PROVE TokenInv'
    <2>1. /\ instance[i] = Off
          /\ instance' = [instance EXCEPT ![i] = [step |-> "running", slug |-> t]]
          /\ UNCHANGED <<token, viewer, teardown, killed>>
          BY <1>5 DEF Launch
    <2>2. ASSUME NEW j \in UiInstances PROVE TokensInv(j)'
      <3>1. instance'[j].step = "terminated" => instance[j].step = "terminated"
            BY <1>1, <2>1
      <3>. QED BY <1>1, <2>1, <3>1 DEF TokensInv, Readers
    <2>. QED BY <1>1, <2>1, <2>2 DEF TokenInv
  <1>6. ASSUME NEW v \in Viewers, NEW i \in UiInstances, ViewReads(v, i) PROVE TokenInv'
    <2>1. PICK x : x = [step |-> "reading", instance |-> i, read |-> instance[i].step]
          OBVIOUS
    <2>2. /\ viewer[v] = Off /\ instance[i].step = "running" /\ Cardinality(token[i]) < MaxTokens
          /\ viewer' = [viewer EXCEPT ![v] = x]
          /\ UNCHANGED <<instance, token, teardown, killed>>
          BY <1>6, <2>1 DEF ViewReads, MayView
    <2>3. x.step = "reading" /\ x.instance = i /\ x.read = "running"
          BY <2>1, <2>2
    <2>4. ASSUME NEW j \in UiInstances
          PROVE  Cardinality(token[j]) + Cardinality(Readers(j)') <= MaxTokens + Cardinality(Viewers)
      <3>1. PICK n, m, w : n = Cardinality(Readers(j)) /\ m = Cardinality(Readers(j)')
                           /\ w = Cardinality(Viewers)
            OBVIOUS
      <3>2. n \in Nat /\ m \in Nat /\ w \in Nat /\ m <= w
            BY <1>1, <2>2, <3>1, ReadersMove
      <3>3. PICK k \in Nat : k = Cardinality(token[j])
            BY <1>1, FS_CardinalityType DEF TokensInv
      <3>4. k + n <= MaxTokens + w
            BY <1>1, <3>1, <3>3 DEF TokensInv
      <3>5. CASE j = i
            BY <1>3, <2>2, <3>1, <3>2, <3>3, <3>5
      <3>6. CASE j # i
        <4>1. Readers(j)' = Readers(j)
              BY <1>1, <1>2, <2>2, <2>3, <3>6 DEF Readers
        <4>. QED BY <3>1, <3>3, <3>4, <4>1
      <3>. QED BY <3>5, <3>6
    <2>5. ASSUME NEW j \in UiInstances PROVE TokensInv(j)'
          BY <1>1, <2>2, <2>4 DEF TokensInv
    <2>6. /\ DOMAIN viewer' = Viewers
          /\ \A u \in Viewers : \/ viewer'[u] = Off
                                \/ /\ viewer'[u].step = "reading" /\ viewer'[u].read = "running"
                                   /\ viewer'[u].instance \in UiInstances
          BY <1>1, <2>2, <2>3
    <2>. QED BY <1>1, <2>2, <2>5, <2>6 DEF TokenInv
  <1>7. ASSUME NEW v \in Viewers, viewer' = [viewer EXCEPT ![v] = Off]
        PROVE  /\ DOMAIN viewer' = Viewers
               /\ \A u \in Viewers : \/ viewer'[u] = Off
                                     \/ /\ viewer'[u].step = "reading" /\ viewer'[u].read = "running"
                                        /\ viewer'[u].instance \in UiInstances
        BY <1>1, <1>7
  <1>8. ASSUME NEW v \in Viewers, ViewCommits(v) PROVE TokenInv'
    <2>1. PICK i : i = viewer[v].instance
          OBVIOUS
    <2>2. PICK o : o = (/\ viewer[v].read = "running"
                        /\ teardown[i] # Off \/ instance[i].step = "terminated")
          OBVIOUS
    <2>3. PICK k : k = [n |-> Cardinality(token[i]), revoked |-> FALSE, overlaps |-> o]
          OBVIOUS
    <2>4. /\ viewer[v].step = "reading"
          /\ token' = [token EXCEPT ![i] = token[i] \cup {k}]
          /\ viewer' = [viewer EXCEPT ![v] = Off]
          /\ UNCHANGED <<instance, teardown, killed>>
          BY <1>1, <1>8, <2>1, <2>2, <2>3 DEF ViewCommits
    <2>5. i \in UiInstances /\ viewer[v].read = "running" /\ v \in Readers(i)
          BY <1>1, <1>2, <2>1, <2>4 DEF Readers
    <2>6. o \in BOOLEAN
          BY <2>2
    <2>7. (teardown[i] # Off \/ instance[i].step = "terminated") => o
          BY <2>2, <2>5
    <2>8. PICK c \in Nat : c = Cardinality(token[i])
          BY <1>1, <2>5, FS_CardinalityType DEF TokensInv
    <2>9. /\ k.n = c /\ k.revoked = FALSE /\ k.overlaps = o /\ k \in Token
          BY <2>3, <2>6, <2>8 DEF Token
    <2>10. IsFiniteSet(token[i] \cup {k}) /\ Cardinality(token[i] \cup {k}) <= c + 1
      <3>1. IsFiniteSet(token[i])
            BY <1>1, <2>5 DEF TokensInv
      <3>2. Cardinality(token[i] \cup {k}) = IF k \in token[i] THEN c ELSE c + 1
            BY <2>8, <3>1, FS_AddElement
      <3>. QED BY <2>8, <3>1, <3>2, FS_AddElement
    <2>11. token'[i] = token[i] \cup {k} /\ \A j \in UiInstances \ {i} : token'[j] = token[j]
          BY <1>1, <2>4, <2>5
    <2>12. PICK n, m, w : n = Cardinality(Readers(i)) /\ m = Cardinality(Readers(i)')
                          /\ w = Cardinality(Viewers)
          OBVIOUS
    <2>13. n \in Nat /\ m \in Nat /\ w \in Nat /\ m + 1 = n
          BY <1>1, <2>4, <2>5, <2>12, ReadersMove
    <2>14. c + n <= MaxTokens + w
          BY <1>1, <2>5, <2>8, <2>12 DEF TokensInv
    <2>15. TokensInv(i)'
      <3>1. IsFiniteSet(token'[i]) /\ token'[i] \subseteq Token
            BY <1>1, <2>5, <2>9, <2>10, <2>11 DEF TokensInv
      <3>2. PICK d \in Nat : d = Cardinality(token'[i])
            BY <3>1, FS_CardinalityType
      <3>3. d <= c + 1
            BY <2>10, <2>11, <3>2
      <3>4. d + m <= MaxTokens + w
            BY <1>3, <2>12, <2>13, <2>14, <3>3
      <3>5. \A l \in token'[i] : 0 <= l.n /\ l.n <= MaxTokens + Cardinality(Viewers)
        <4>1. 0 <= c /\ c <= MaxTokens + w
              BY <1>3, <2>12, <2>13, <2>14
        <4>. QED BY <1>1, <2>5, <2>9, <2>11, <2>12, <4>1 DEF TokensInv
      <3>6. instance'[i].step = "terminated" =>
                i \in killed' \/ \A l \in token'[i] : l.revoked \/ l.overlaps
            BY <1>1, <2>4, <2>5, <2>7, <2>9, <2>11 DEF TokensInv
      <3>7. \/ teardown'[i] = Off
            \/ /\ teardown'[i].step = "revoked"
               /\ \A l \in token'[i] : l \in teardown'[i].found \/ l.overlaps
            BY <1>1, <2>4, <2>5, <2>7, <2>9, <2>11 DEF TokensInv
      <3>. QED BY <2>12, <3>1, <3>2, <3>4, <3>5, <3>6, <3>7 DEF TokensInv
    <2>16. ASSUME NEW j \in UiInstances, j # i PROVE TokensInv(j)'
      <3>1. PICK a, b \in Nat : a = Cardinality(Readers(j)) /\ b = Cardinality(Readers(j)')
            BY <1>1, <2>4, ReadersMove
      <3>2. b <= a
            BY <1>1, <2>4, <3>1, ReadersMove
      <3>3. PICK d \in Nat : d = Cardinality(token[j])
            BY <1>1, FS_CardinalityType DEF TokensInv
      <3>4. d + a <= MaxTokens + w
            BY <1>1, <2>12, <3>1, <3>3 DEF TokensInv
      <3>5. d + b <= MaxTokens + w
            BY <1>3, <2>13, <3>2, <3>4
      <3>6. Cardinality(token'[j]) + Cardinality(Readers(j)') <= MaxTokens + Cardinality(Viewers)
            BY <2>11, <2>12, <2>16, <3>1, <3>3, <3>5
      <3>. QED BY <1>1, <2>4, <2>11, <2>16, <3>6 DEF TokensInv
    <2>. QED BY <1>1, <1>7, <2>4, <2>15, <2>16 DEF TokenInv
  <1>9. ASSUME NEW v \in Viewers, ViewFails(v) PROVE TokenInv'
    <2>1. viewer' = [viewer EXCEPT ![v] = Off] /\ UNCHANGED <<instance, token, teardown, killed>>
          BY <1>9 DEF ViewFails
    <2>2. ASSUME NEW j \in UiInstances PROVE TokensInv(j)'
      <3>1. PICK a, b \in Nat : a = Cardinality(Readers(j)) /\ b = Cardinality(Readers(j)')
            BY <1>1, <2>1, ReadersMove
      <3>2. b <= a
            BY <1>1, <2>1, <3>1, ReadersMove
      <3>3. PICK d \in Nat : d = Cardinality(token[j])
            BY <1>1, FS_CardinalityType DEF TokensInv
      <3>4. d + a <= MaxTokens + Cardinality(Viewers)
            BY <1>1, <3>1, <3>3 DEF TokensInv
      <3>5. d + b <= MaxTokens + Cardinality(Viewers)
            BY <1>3, <3>2, <3>4
      <3>6. Cardinality(token'[j]) + Cardinality(Readers(j)') <= MaxTokens + Cardinality(Viewers)
            BY <2>1, <3>1, <3>3, <3>5
      <3>. QED BY <1>1, <2>1, <3>6 DEF TokensInv
    <2>. QED BY <1>1, <1>7, <2>1, <2>2 DEF TokenInv
  <1>10. ASSUME NEW i \in UiInstances, TeardownRevokes(i) PROVE TokenInv'
    <2>1. /\ teardown' = [teardown EXCEPT ![i] = [step |-> "revoked", found |-> token[i]]]
          /\ UNCHANGED <<instance, token, viewer, killed>>
          BY <1>10 DEF TeardownRevokes
    <2>2. ASSUME NEW j \in UiInstances PROVE TokensInv(j)'
      <3>1. CASE j = i
            BY <1>1, <2>1, <3>1 DEF TokensInv, Readers
      <3>2. CASE j # i
            BY <1>1, <2>1, <3>2 DEF TokensInv, Readers
      <3>. QED BY <3>1, <3>2
    <2>. QED BY <1>1, <2>1, <2>2 DEF TokenInv
  <1>11. ASSUME NEW i \in UiInstances, TeardownFails(i) PROVE TokenInv'
    <2>1. teardown' = [teardown EXCEPT ![i] = Off] /\ UNCHANGED <<instance, token, viewer, killed>>
          BY <1>11 DEF TeardownFails
    <2>2. ASSUME NEW j \in UiInstances PROVE TokensInv(j)'
          BY <1>1, <2>1 DEF TokensInv, Readers
    <2>. QED BY <1>1, <2>1, <2>2 DEF TokenInv
  <1>12. ASSUME NEW i \in UiInstances, TeardownCommits(i) PROVE TokenInv'
    <2>1. PICK f : f = [k \in token[i] |->
                           [k EXCEPT !.revoked = k.revoked \/ k \in teardown[i].found]]
          OBVIOUS
    <2>2. PICK T : T = {f[k] : k \in token[i]}
          OBVIOUS
    <2>3. T = {[k EXCEPT !.revoked = k.revoked \/ k \in teardown[i].found] : k \in token[i]}
          BY <2>1, <2>2
    <2>4. /\ teardown[i].step = "revoked"
          /\ instance' = [instance EXCEPT ![i] = [instance[i] EXCEPT !.step = "terminated"]]
          /\ token' = [token EXCEPT ![i] = T]
          /\ teardown' = [teardown EXCEPT ![i] = Off] /\ UNCHANGED <<viewer, killed>>
          BY <1>1, <1>12, <2>3 DEF TeardownCommits, Revoked
    <2>5. /\ token'[i] = T /\ teardown'[i] = Off
          /\ \A j \in UiInstances \ {i} : /\ token'[j] = token[j] /\ instance'[j] = instance[j]
                                          /\ teardown'[j] = teardown[j]
          BY <1>1, <2>4
    <2>6. ASSUME NEW k \in token[i]
          PROVE  /\ f[k] \in Token /\ f[k].n = k.n /\ (f[k].revoked \/ f[k].overlaps)
      <3>1. k \in Token /\ (k \in teardown[i].found \/ k.overlaps)
            BY <1>1, <1>2, <2>4 DEF TokensInv
      <3>2. PICK b : b = (k.revoked \/ k \in teardown[i].found)
            OBVIOUS
      <3>3. b \in BOOLEAN
            BY <3>2
      <3>4. f[k] = [k EXCEPT !.revoked = b]
            BY <2>1, <3>2
      <3>5. f[k] \in Token /\ f[k].n = k.n /\ f[k].revoked = b /\ f[k].overlaps = k.overlaps
            BY <3>1, <3>3, <3>4 DEF Token
      <3>6. b \/ k.overlaps
            BY <3>1, <3>2
      <3>. QED BY <3>5, <3>6
    <2>7. TokensInv(i)'
      <3>1. IsFiniteSet(token[i]) /\ f \in [token[i] -> Token]
            BY <1>1, <2>1, <2>6 DEF TokensInv
      <3>2. IsFiniteSet(T) /\ Cardinality(T) <= Cardinality(token[i])
            BY <2>2, <3>1, FiniteImage
      <3>3. T \subseteq Token
            BY <2>2, <2>6
      <3>4. PICK c, d \in Nat : c = Cardinality(token[i]) /\ d = Cardinality(T)
            BY <3>1, <3>2, FS_CardinalityType
      <3>5. IsFiniteSet(Readers(i))
            BY TemplateAssumption, FS_Subset DEF Readers
      <3>6. PICK n \in Nat : n = Cardinality(Readers(i))
            BY <3>5, FS_CardinalityType
      <3>7. c + n <= MaxTokens + Cardinality(Viewers)
            BY <1>1, <3>4, <3>6 DEF TokensInv
      <3>8. d + n <= MaxTokens + Cardinality(Viewers)
            BY <1>3, <3>2, <3>4, <3>7
      <3>9. Readers(i)' = Readers(i)
            BY <2>4 DEF Readers
      <3>10. \A k \in T : 0 <= k.n /\ k.n <= MaxTokens + Cardinality(Viewers)
            BY <1>1, <2>2, <2>6 DEF TokensInv
      <3>11. \A k \in T : k.revoked \/ k.overlaps
            BY <2>2, <2>6
      <3>. QED BY <2>5, <3>2, <3>3, <3>4, <3>6, <3>8, <3>9, <3>10, <3>11 DEF TokensInv
    <2>8. ASSUME NEW j \in UiInstances, j # i PROVE TokensInv(j)'
          BY <1>1, <2>4, <2>5, <2>8 DEF TokensInv, Readers
    <2>. QED BY <1>1, <2>4, <2>7, <2>8 DEF TokenInv
  <1>13. ASSUME NEW r \in Registrars, NEW t \in Slugs, CreateLooks(r, t) PROVE TokenInv'
         BY <1>4, <1>13 DEF CreateLooks
  <1>14. ASSUME NEW r \in Registrars, CreateCommits(r) \/ CreateEnqueues(r) \/ CreatorDies(r)
         PROVE  TokenInv'
         BY <1>4, <1>14 DEF CreateCommits, CreateEnqueues, CreatorDies
  <1>15. ASSUME NEW w \in Scanners, NEW t \in Slugs, ScanPickup(w, t) PROVE TokenInv'
         BY <1>4, <1>15 DEF ScanPickup
  <1>16. ASSUME NEW w \in Scanners, NEW a \in BOOLEAN, ScanEnds(w, a) PROVE TokenInv'
         BY <1>4, <1>16 DEF ScanEnds
  <1>17. ASSUME NEW w \in Scanners, ScanWriteFails(w) \/ ScannerDies(w) PROVE TokenInv'
         BY <1>4, <1>17 DEF ScanWriteFails, ScannerDies
  <1>18. ASSUME NEW i \in UiInstances, KillInstance(i) PROVE TokenInv'
    <2>1. /\ instance' = [instance EXCEPT ![i] = [instance[i] EXCEPT !.step = "terminated"]]
          /\ killed' = killed \cup {i} /\ UNCHANGED <<token, viewer, teardown>>
          BY <1>1, <1>18 DEF KillInstance
    <2>2. ASSUME NEW j \in UiInstances PROVE TokensInv(j)'
      <3>1. j # i => instance'[j] = instance[j]
            BY <1>1, <2>1
      <3>. QED BY <1>1, <2>1, <3>1 DEF TokensInv, Readers
    <2>. QED BY <1>1, <2>1, <2>2 DEF TokenInv
  <1>19. CASE UNCHANGED templateVars
         BY <1>4, <1>19 DEF templateVars
  <1>. QED BY <1>5, <1>6, <1>8, <1>9, <1>10, <1>11, <1>12, <1>13, <1>14, <1>15, <1>16, <1>17, <1>18,
              <1>19 DEF TemplateNext

\* In TemplateRegistry every variable keeps its type; whatever fails, a template that is
\* offered was scanned clean; one that waits has its scan coming, unless its registrar died,
\* or the scan's message went with its process or a failed write; and the tokens of an
\* instance that its teardown ended are revoked, but for those that overlapped it.
THEOREM TemplateIsSafe ==
    TemplateSpec => [](TemplateTypeOK /\ OfferedIsClean /\ PendingIsAwaited /\ TokenEndsWithInstance)
  <1>1. TemplateInit => RegistryInv /\ TokenInv
        BY RegistryInitInv, TokenInitInv
  <1>2. ASSUME RegistryInv, TokenInv PROVE TemplateTypeOK
    <2>1. ASSUME NEW i \in UiInstances, NEW k \in token[i]
          PROVE  k.n \in 0..(MaxTokens + Cardinality(Viewers))
      <3>1. k.n \in Int /\ 0 <= k.n /\ k.n <= MaxTokens + Cardinality(Viewers)
            BY <1>2 DEF TokenInv, TokensInv, Token
      <3>2. MaxTokens + Cardinality(Viewers) \in Nat
            BY TemplateAssumption, FS_CardinalityType
      <3>. QED BY <3>1, <3>2
    <2>. QED BY <1>2, <2>1 DEF RegistryInv, TokenInv, TemplateTypeOK
  <1>3. ASSUME RegistryInv, TokenInv PROVE OfferedIsClean /\ PendingIsAwaited
        BY <1>3 DEF RegistryInv
  <1>4. ASSUME TokenInv PROVE TokenEndsWithInstance
        BY <1>4 DEF TokenInv, TokensInv, TokenEndsWithInstance
  <1>. QED BY <1>1, <1>2, <1>3, <1>4, RegistryStep, TokenStep, PTL DEF TemplateSpec

-----------------------------------------------------------------------------
(* HostStakes *)

\* A registered host is in the clusters of its identity, a TPM key has one host, and of
\* two hosts of one KYC identity one has paid for the other.
SybilInv ==
    /\ hosts \in [StakeHosts -> Identity \cup {NoHost}] /\ moved \subseteq StakeHosts
    /\ \A e \in clusters : e[3] \in StakeHosts
    /\ \A h \in Registered : Entries(h, hosts[h]) \subseteq clusters
    /\ \A h, g \in StakeHosts, k \in TpmKeys :
          <<"tpm", k, h>> \in clusters /\ <<"tpm", k, g>> \in clusters => h = g
    /\ \A h, g \in Registered : h # g /\ hosts[h].kyc = hosts[g].kyc =>
          hosts[h].stake >= 18 \/ hosts[g].stake >= 18
    /\ StrayEntryWasMoved

\* What process_violation has returned adds up, and only a host that is banned can have
\* less than the grain left.
ReceiptOK(h, i) ==
    LET r == receipts[h][i] IN
    /\ r.slashed + r.remaining - Rounded(r.before) \in -1..1
    /\ r.insurance + r.burned - r.slashed \in -1..1
    /\ r.after < r.before
    /\ r.banned => i = Len(receipts[h]) /\ h \in banned

EscrowInv ==
    /\ escrow \in [StakeHosts -> Nat] /\ banned \subseteq StakeHosts
    /\ \A h \in StakeHosts : h \in banned \/ escrow[h] = 0 \/ escrow[h] >= 10
    /\ DOMAIN receipts = StakeHosts
    /\ \A h \in StakeHosts : receipts[h] \in Seq([banned : BOOLEAN, before : Nat, after : Nat,
                                                  slashed : Nat, remaining : Nat,
                                                  insurance : Nat, burned : Nat])
    /\ \A h \in StakeHosts : \A i \in DOMAIN receipts[h] : ReceiptOK(h, i)

StakesInv == SybilInv /\ EscrowInv /\ calls \in Int /\ 0 <= calls /\ calls <= MaxCalls

LEMMA StakesInitInv == StakesInit => StakesInv
  BY StakesAssumption
  DEF StakesInit, StakesInv, SybilInv, EscrowInv, Registered, StrayEntryWasMoved

\* What a second host of a KYC identity has to stake.
LEMMA SecondCosts ==
    ASSUME NEW id \in Identity, NEW g \in StakeHosts, <<"kyc", id.kyc, g>> \in clusters,
           EnoughStake(id.stake, Risk(id))
    PROVE  id.stake >= 18
  <1>. DEFINE n    == Cardinality(Members("kyc", id.kyc))
              near == Cardinality(Members("ip", id.ip))
              total == Max({Cardinality(Registered), 1})
              sub  == Min({(160 * near) \div total, 40})
  <1>1. /\ IsFiniteSet(Members("kyc", id.kyc)) /\ IsFiniteSet(Members("ip", id.ip))
        /\ IsFiniteSet(Registered)
        BY StakesAssumption, FS_Subset DEF Members, Registered
  <1>2. g \in Members("kyc", id.kyc)
        BY DEF Members
  <1>3. n \in Nat /\ n # 0 /\ near \in Nat /\ Cardinality(Registered) \in Nat
        BY <1>1, <1>2, FS_CardinalityType, FS_EmptySet
  <1>4. total \in Nat /\ total >= 1
    <2>1. PICK a, b \in Int : a = Cardinality(Registered) /\ b = 1
          BY <1>3
    <2>2. Max({a, b}) \in Int /\ b <= Max({a, b})
          BY MaxTwo
    <2>. QED BY <2>1, <2>2
  <1>5. PICK q \in Nat : q = (160 * near) \div total
    <2>. HIDE DEF near, total
    <2>. QED BY <1>3, <1>4
  <1>6. sub \in Nat
    <2>1. PICK b \in Int : b = 40
          OBVIOUS
    <2>2. Min({q, b}) \in Int /\ (Min({q, b}) = q \/ Min({q, b}) = b)
      <3>1. q \in Int /\ b \in Int
            OBVIOUS
      <3>. QED BY ONLY <3>1, MinTwo
    <2>3. sub = Min({q, b})
          BY <1>5, <2>1
    <2>. HIDE DEF sub
    <2>. QED BY <2>1, <2>2, <2>3
  <1>7. KycPenalty(n) \in Int /\ KycPenalty(n) >= 15
    <2>. HIDE DEF n
    <2>1. PICK a, b \in Int : a = 15 * n /\ b = 60 /\ a >= 15
          BY <1>3
    <2>2. Min({a, b}) \in Int /\ (Min({a, b}) = a \/ Min({a, b}) = b)
          BY MinTwo
    <2>3. KycPenalty(n) = Min({a, b})
          BY <2>1 DEF KycPenalty
    <2>. QED BY <2>1, <2>2, <2>3
  <1>8. PICK p \in Int : p = KycPenalty(n) + sub
        BY <1>6, <1>7
  <1>9. p >= 15
    <2>. HIDE DEF n, sub
    <2>. QED BY <1>6, <1>7, <1>8
  <1>10. Risk(id) = Min({p, 100})
         BY <1>8 DEF Risk
  <1>11. PICK r \in Int : r = Risk(id) /\ r >= 15
    <2>1. PICK b \in Int : b = 100
          OBVIOUS
    <2>2. Min({p, b}) \in Int /\ (Min({p, b}) = p \/ Min({p, b}) = b)
          BY MinTwo
    <2>. QED BY <1>9, <1>10, <2>1, <2>2
  <1>12. PICK b \in Int : b = 100 + 3 * r /\ b >= 145
         BY <1>11
  <1>13. PICK s \in Nat : s = id.stake
         BY StakesAssumption DEF Identity
  <1>14. s * s * 10000 >= b * b * b
         BY <1>11, <1>12, <1>13 DEF EnoughStake
  <1>15. b * b >= 145 * 145
    <2>1. b * b >= 145 * b
          BY ONLY <1>12, b \in Int, MulMono
    <2>. QED BY <1>12, <2>1
  <1>16. PICK c \in Int : c = b * b
         OBVIOUS
  <1>17. c * b >= 145 * c
    <2>1. b * c >= 145 * c
          BY ONLY <1>12, <1>15, <1>16, MulMono
    <2>. QED BY ONLY <2>1, b \in Int, c \in Int
  <1>18. s * s * 10000 >= 3048625
         BY <1>14, <1>15, <1>16, <1>17
  <1>19. CASE s <= 17
    <2>1. s * s <= 17 * 17
      <3>1. s * 17 <= 17 * 17
            BY <1>19
      <3>2. s * s <= 17 * s
            BY ONLY <1>19, s \in Nat, MulMono
      <3>. QED BY <3>1, <3>2
    <2>. QED BY <1>18, <2>1
  <1>. QED BY <1>13, <1>19

LEMMA RegisterKeepsSybil ==
    ASSUME SybilInv, NEW h \in StakeHosts, NEW id \in Identity, RegisterHost(h, id)
    PROVE  SybilInv'
  <1>1. /\ hosts \in [StakeHosts -> Identity \cup {NoHost}] /\ moved \subseteq StakeHosts
        /\ \A e \in clusters : e[3] \in StakeHosts
        /\ \A g \in Registered : Entries(g, hosts[g]) \subseteq clusters
        /\ \A f, g \in StakeHosts, k \in TpmKeys :
              <<"tpm", k, f>> \in clusters /\ <<"tpm", k, g>> \in clusters => f = g
        /\ \A f, g \in Registered : f # g /\ hosts[f].kyc = hosts[g].kyc =>
              hosts[f].stake >= 18 \/ hosts[g].stake >= 18
        /\ StrayEntryWasMoved
        BY DEF SybilInv
  <1>2. /\ ~ TpmIsTaken(h, id) /\ EnoughStake(id.stake, Risk(id))
        /\ hosts' = [hosts EXCEPT ![h] = id]
        /\ clusters' = clusters \cup Entries(h, id)
        /\ moved' = IF h \in Registered /\ Entries(h, hosts[h]) # Entries(h, id)
                    THEN moved \cup {h} ELSE moved
        BY DEF RegisterHost
  <1>3. /\ hosts' \in [StakeHosts -> Identity \cup {NoHost}]
        /\ hosts'[h] = id /\ \A g \in StakeHosts \ {h} : hosts'[g] = hosts[g]
        BY <1>1, <1>2
  <1>4. Registered' = Registered \cup {h}
        BY <1>3, StakesAssumption DEF Registered
  <1>5. moved' \subseteq StakeHosts /\ \A e \in clusters' : e[3] \in StakeHosts
        BY <1>1, <1>2 DEF Entries
  <1>6. \A g \in Registered' : Entries(g, hosts'[g]) \subseteq clusters'
        BY <1>1, <1>2, <1>3, <1>4 DEF Registered
  <1>7. ASSUME NEW f \in StakeHosts, NEW g \in StakeHosts, NEW k \in TpmKeys,
               <<"tpm", k, f>> \in clusters', <<"tpm", k, g>> \in clusters'
        PROVE  f = g
    <2>1. /\ <<"tpm", k, f>> \in clusters \/ (f = h /\ k = id.tpm)
          /\ <<"tpm", k, g>> \in clusters \/ (g = h /\ k = id.tpm)
          BY <1>2, <1>7 DEF Entries
    <2>2. ASSUME NEW x \in StakeHosts, <<"tpm", id.tpm, x>> \in clusters PROVE x = h
      <3>1. x \in Members("tpm", id.tpm)
            BY <2>2 DEF Members
      <3>2. h \in Members("tpm", id.tpm)
            BY <1>2, <3>1 DEF TpmIsTaken
      <3>3. <<"tpm", id.tpm, h>> \in clusters
            BY <3>2 DEF Members
      <3>. QED BY <1>1, <2>2, <3>3 DEF Identity
    <2>. QED BY <1>1, <2>1, <2>2
  <1>8. ASSUME NEW g \in Registered, g # h, hosts[g].kyc = id.kyc PROVE id.stake >= 18
    <2>1. <<"kyc", id.kyc, g>> \in clusters
          BY <1>1, <1>8 DEF Entries
    <2>. QED BY <1>2, <2>1, SecondCosts DEF Registered
  <1>9. ASSUME NEW f \in Registered', NEW g \in Registered', f # g,
               hosts'[f].kyc = hosts'[g].kyc
        PROVE  hosts'[f].stake >= 18 \/ hosts'[g].stake >= 18
    <2>1. CASE f = h
      <3>1. g \in Registered /\ g # h /\ hosts[g].kyc = id.kyc
            BY <1>3, <1>4, <1>9, <2>1 DEF Registered
      <3>. QED BY <1>3, <1>8, <2>1, <3>1
    <2>2. CASE g = h
      <3>1. f \in Registered /\ f # h /\ hosts[f].kyc = id.kyc
            BY <1>3, <1>4, <1>9, <2>2 DEF Registered
      <3>. QED BY <1>3, <1>8, <2>2, <3>1
    <2>3. CASE f # h /\ g # h
      <3>1. f \in Registered /\ g \in Registered
            BY <1>4, <2>3
      <3>2. hosts'[f] = hosts[f] /\ hosts'[g] = hosts[g]
            BY <1>3, <2>3, <3>1 DEF Registered
      <3>. QED BY <1>1, <1>9, <3>1, <3>2
    <2>. QED BY <2>1, <2>2, <2>3
  <1>10. ASSUME NEW e \in clusters', e[3] \notin moved'
         PROVE  e[3] \in Registered' /\ e \in Entries(e[3], hosts'[e[3]])
    <2>1. CASE e \in Entries(h, id)
      <3>1. e[3] = h
            BY <2>1 DEF Entries
      <3>. QED BY <1>3, <1>4, <2>1, <3>1
    <2>2. CASE e \notin Entries(h, id)
      <3>1. e \in clusters /\ e[3] \notin moved
            BY <1>2, <1>10, <2>2
      <3>2. e[3] \in Registered /\ e \in Entries(e[3], hosts[e[3]])
            BY <1>1, <3>1 DEF StrayEntryWasMoved
      <3>3. e[3] # h
            BY <1>2, <1>10, <2>2, <3>2
      <3>. QED BY <1>3, <1>4, <3>2, <3>3 DEF Registered
    <2>. QED BY <2>1, <2>2
  <1>. QED BY <1>3, <1>5, <1>6, <1>7, <1>9, <1>10 DEF SybilInv, StrayEntryWasMoved

LEMMA DeregisterKeepsSybil ==
    ASSUME SybilInv, NEW h \in StakeHosts, DeregisterHost(h)
    PROVE  SybilInv'
  <1>1. /\ hosts \in [StakeHosts -> Identity \cup {NoHost}] /\ moved \subseteq StakeHosts
        /\ \A e \in clusters : e[3] \in StakeHosts
        /\ \A g \in Registered : Entries(g, hosts[g]) \subseteq clusters
        /\ \A f, g \in StakeHosts, k \in TpmKeys :
              <<"tpm", k, f>> \in clusters /\ <<"tpm", k, g>> \in clusters => f = g
        /\ \A f, g \in Registered : f # g /\ hosts[f].kyc = hosts[g].kyc =>
              hosts[f].stake >= 18 \/ hosts[g].stake >= 18
        /\ StrayEntryWasMoved
        BY DEF SybilInv
  <1>2. /\ h \in Registered /\ hosts' = [hosts EXCEPT ![h] = NoHost]
        /\ clusters' = clusters \ Left(h) /\ UNCHANGED moved
        BY DEF DeregisterHost
  <1>3. /\ hosts' \in [StakeHosts -> Identity \cup {NoHost}]
        /\ hosts'[h] = NoHost /\ \A g \in StakeHosts \ {h} : hosts'[g] = hosts[g]
        BY <1>1, <1>2
  <1>4. Registered' = Registered \ {h}
        BY <1>3 DEF Registered
  <1>5. \A g \in Registered' : hosts'[g] = hosts[g] /\ g \in Registered
        BY <1>3, <1>4 DEF Registered
  <1>6. ASSUME NEW g \in Registered' PROVE Entries(g, hosts'[g]) \subseteq clusters'
    <2>1. Entries(g, hosts[g]) \subseteq clusters /\ g # h
          BY <1>1, <1>4, <1>5
    <2>2. Entries(g, hosts[g]) \cap Left(h) = {}
          BY <2>1 DEF Entries, Left
    <2>. QED BY <1>2, <1>5, <2>1, <2>2
  <1>7. \A f, g \in Registered' : f # g /\ hosts'[f].kyc = hosts'[g].kyc =>
              hosts'[f].stake >= 18 \/ hosts'[g].stake >= 18
        BY <1>1, <1>5
  <1>8. ASSUME NEW e \in clusters', e[3] \notin moved'
        PROVE  e[3] \in Registered' /\ e \in Entries(e[3], hosts'[e[3]])
    <2>1. e[3] \in Registered /\ e \in Entries(e[3], hosts[e[3]])
          BY <1>1, <1>2, <1>8 DEF StrayEntryWasMoved
    <2>2. e[3] # h
          BY <1>2, <1>8, <2>1 DEF Left
    <2>. QED BY <1>4, <1>5, <2>1, <2>2
  <1>. QED BY <1>1, <1>2, <1>3, <1>6, <1>7, <1>8 DEF SybilInv, StrayEntryWasMoved

LEMMA SetEscrowKeepsEscrow ==
    ASSUME EscrowInv, NEW h \in StakeHosts, NEW a \in Escrows, SetHostEscrow(h, a)
    PROVE  EscrowInv'
  <1>1. escrow' = [escrow EXCEPT ![h] = a] /\ UNCHANGED <<banned, receipts>>
        BY DEF SetHostEscrow
  <1>2. a \in Nat /\ (a = 0 \/ a >= 10)
        BY StakesAssumption
  <1>. QED BY <1>1, <1>2 DEF EscrowInv, ReceiptOK

Receipt == [banned : BOOLEAN, before : Nat, after : Nat, slashed : Nat, remaining : Nat,
            insurance : Nat, burned : Nat]

\* The arithmetic of one slash.
LEMMA SlashAddsUp ==
    ASSUME NEW a \in Nat, a = 0 \/ a >= 10, NEW severity \in ViolationSeverity,
           NEW taken, taken = (a * Percent(severity)) \div 100
    PROVE  /\ taken \in Nat /\ a - taken \in Nat
           /\ a # 0 => a - taken < a
           /\ Rounded(taken) \in Nat /\ Rounded(a - taken) \in Nat
           /\ Rounded(taken \div 2) \in Nat /\ Rounded(taken - taken \div 2) \in Nat
           /\ Rounded(taken) + Rounded(a - taken) - Rounded(a) \in -1..1
           /\ Rounded(taken \div 2) + Rounded(taken - taken \div 2) - Rounded(taken) \in -1..1
  <1>1. Percent(severity) \in {10, 35, 100}
        BY DEF Percent
  <1>2. taken \in Nat /\ taken <= a /\ (a # 0 => taken > 0)
    <2>1. CASE Percent(severity) = 10
          BY <2>1
    <2>2. CASE Percent(severity) = 35
          BY <2>2
    <2>3. CASE Percent(severity) = 100
          BY <2>3
    <2>. QED BY <1>1, <2>1, <2>2, <2>3
  <1>3. ASSUME NEW x \in Nat, NEW y \in Nat
        PROVE  /\ Rounded(x) \in Nat
               /\ Rounded(x) + Rounded(y) - Rounded(x + y) \in -1..1
    <2>1. PICK p, q, r \in Int : /\ p = (x + 500) \div 1000 /\ q = (y + 500) \div 1000
                                 /\ r = (x + y + 500) \div 1000
          OBVIOUS
    <2>2. p >= 0 /\ -1 <= p + q - r /\ p + q - r <= 1
          BY <2>1
    <2>3. Rounded(x) = p /\ Rounded(y) = q /\ Rounded(x + y) = r
          BY <2>1 DEF Rounded, Cent
    <2>4. PICK d \in Int : d = p + q - r
          OBVIOUS
    <2>5. d \in -1..1
          BY <2>2, <2>4
    <2>. QED BY <2>2, <2>3, <2>4, <2>5
  <1>4. PICK b \in Nat : b = a - taken
        BY <1>2
  <1>5. PICK u, v \in Nat : u = taken \div 2 /\ v = taken - u
        BY <1>2
  <1>6. taken + b = a /\ u + v = taken
        BY ONLY <1>2, <1>4, <1>5, a \in Nat
  <1>7. a # 0 => a - taken < a
        BY ONLY <1>2, a \in Nat
  <1>8. /\ Rounded(taken) \in Nat /\ Rounded(b) \in Nat
        /\ Rounded(taken) + Rounded(b) - Rounded(taken + b) \in -1..1
        BY <1>2, <1>3
  <1>9. /\ Rounded(u) \in Nat /\ Rounded(v) \in Nat
        /\ Rounded(u) + Rounded(v) - Rounded(u + v) \in -1..1
        BY <1>3
  <1>10. /\ Rounded(taken) + Rounded(b) - Rounded(a) \in -1..1
         /\ Rounded(u) + Rounded(v) - Rounded(taken) \in -1..1
         BY ONLY <1>6, <1>8, <1>9
  <1>. QED BY ONLY <1>2, <1>4, <1>5, <1>7, <1>8, <1>9, <1>10

LEMMA ViolationKeepsEscrow ==
    ASSUME EscrowInv, NEW h \in StakeHosts, NEW severity \in ViolationSeverity,
           ProcessViolation(h, severity)
    PROVE  EscrowInv'
  <1>. DEFINE taken == (escrow[h] * Percent(severity)) \div 100
              left  == escrow[h] - taken
              r == [before |-> escrow[h], after |-> left, slashed |-> Rounded(taken),
                    remaining |-> Rounded(left), insurance |-> Rounded(taken \div 2),
                    burned |-> Rounded(taken - taken \div 2), banned |-> h \in banned']
  <1>1. /\ escrow \in [StakeHosts -> Nat] /\ banned \subseteq StakeHosts
        /\ \A g \in StakeHosts : g \in banned \/ escrow[g] = 0 \/ escrow[g] >= 10
        /\ DOMAIN receipts = StakeHosts
        /\ \A g \in StakeHosts : receipts[g] \in Seq(Receipt)
        /\ \A g \in StakeHosts : \A i \in DOMAIN receipts[g] : ReceiptOK(g, i)
        BY DEF EscrowInv, Receipt
  <1>2. /\ h \notin banned
        /\ escrow' = [escrow EXCEPT ![h] = left]
        /\ banned' = IF escrow[h] = 0 \/ Percent(severity) = 100 \/ left <= Cent
                     THEN banned \cup {h} ELSE banned
        /\ receipts' = IF escrow[h] = 0 THEN receipts ELSE [receipts EXCEPT ![h] = Append(@, r)]
        BY DEF ProcessViolation, Kept
  <1>3. /\ taken \in Nat /\ left \in Nat /\ (escrow[h] # 0 => left < escrow[h])
        /\ Rounded(taken) \in Nat /\ Rounded(left) \in Nat
        /\ Rounded(taken \div 2) \in Nat /\ Rounded(taken - taken \div 2) \in Nat
        /\ Rounded(taken) + Rounded(left) - Rounded(escrow[h]) \in -1..1
        /\ Rounded(taken \div 2) + Rounded(taken - taken \div 2) - Rounded(taken) \in -1..1
    <2>1. PICK a \in Nat : a = escrow[h]
          BY <1>1
    <2>2. a = 0 \/ a >= 10
          BY <1>1, <1>2, <2>1
    <2>. QED BY <2>1, <2>2, SlashAddsUp
  <1>4. (h \in banned') \in BOOLEAN
        OBVIOUS
  <1>5. r \in Receipt
    <2>. HIDE DEF taken, left
    <2>. QED BY <1>1, <1>3, <1>4 DEF Receipt
  <1>6. h \in banned' \/ left >= 10
    <2>. HIDE DEF taken, left
    <2>. QED BY <1>2, <1>3 DEF Cent
  <1>7. banned \subseteq banned' /\ banned' \subseteq StakeHosts
        BY <1>1, <1>2
  <1>8. escrow' \in [StakeHosts -> Nat] /\ escrow'[h] = left
        /\ \A g \in StakeHosts \ {h} : escrow'[g] = escrow[g]
    <2>. HIDE DEF left
    <2>. QED BY <1>1, <1>2, <1>3
  <1>9. \A g \in StakeHosts : g \in banned' \/ escrow'[g] = 0 \/ escrow'[g] >= 10
    <2>. HIDE DEF left
    <2>. QED BY <1>1, <1>6, <1>7, <1>8
  <1>10. CASE escrow[h] = 0
    <2>1. receipts' = receipts
          BY <1>2, <1>10
    <2>2. \A g \in StakeHosts : \A i \in DOMAIN receipts'[g] : ReceiptOK(g, i)'
          BY <1>1, <1>7, <2>1 DEF ReceiptOK
    <2>. QED BY <1>1, <1>7, <1>8, <1>9, <2>1, <2>2 DEF EscrowInv, Receipt
  <1>11. CASE escrow[h] # 0
    <2>. DEFINE s == receipts[h]
    <2>1. /\ DOMAIN receipts' = StakeHosts /\ receipts'[h] = Append(s, r)
          /\ \A g \in StakeHosts \ {h} : receipts'[g] = receipts[g]
      <3>. HIDE DEF r
      <3>. QED BY <1>1, <1>2, <1>11
    <2>2. /\ s \in Seq(Receipt) /\ Append(s, r) \in Seq(Receipt)
          /\ Len(Append(s, r)) = Len(s) + 1 /\ Append(s, r)[Len(s) + 1] = r
          /\ \A i \in DOMAIN s : Append(s, r)[i] = s[i]
          /\ DOMAIN Append(s, r) = DOMAIN s \cup {Len(s) + 1}
      <3>. HIDE DEF r
      <3>. QED BY <1>1, <1>5
    <2>3. ASSUME NEW g \in StakeHosts, NEW i \in DOMAIN receipts'[g] PROVE ReceiptOK(g, i)'
      <3>1. CASE g # h
            BY ZenonT(40), <1>1, <1>7, <2>1, <2>3, <3>1 DEF ReceiptOK
      <3>2. CASE g = h /\ i = Len(s) + 1
        <4>1. receipts'[g][i] = r /\ i = Len(receipts'[g])
          <5>. HIDE DEF r
          <5>. QED BY <2>1, <2>2, <3>2
        <4>2. /\ r.before = escrow[h] /\ r.after = left /\ r.slashed = Rounded(taken)
              /\ r.remaining = Rounded(left) /\ r.insurance = Rounded(taken \div 2)
              /\ r.burned = Rounded(taken - taken \div 2)
              /\ r.banned = (h \in banned')
          <5>. HIDE DEF taken, left
          <5>. QED OBVIOUS
        <4>. HIDE DEF taken, left, r
        <4>. QED BY <1>3, <1>11, <3>2, <4>1, <4>2 DEF ReceiptOK
      <3>3. CASE g = h /\ i \in DOMAIN s
        <4>1. receipts'[g][i] = s[i] /\ ReceiptOK(h, i)
          <5>. HIDE DEF r
          <5>. QED BY <1>1, <2>1, <2>2, <3>3
        <4>2. ~ s[i].banned
              BY <1>2, <4>1 DEF ReceiptOK
        <4>. HIDE DEF r, s
        <4>. QED BY <4>1, <4>2 DEF ReceiptOK, s
      <3>. HIDE DEF r, s
      <3>. QED BY <2>1, <2>2, <2>3, <3>1, <3>2, <3>3
    <2>4. \A g \in StakeHosts : receipts'[g] \in Seq(Receipt)
      <3>. HIDE DEF r
      <3>. QED BY <1>1, <2>1, <2>2
    <2>. HIDE DEF r
    <2>. QED BY <1>7, <1>8, <1>9, <2>1, <2>3, <2>4 DEF EscrowInv, Receipt
  <1>. QED BY <1>10, <1>11

LEMMA StakesStep == ASSUME StakesInv, [StakesNext]_stakeVars PROVE StakesInv'
  <1>1. SybilInv /\ EscrowInv /\ calls \in Int /\ 0 <= calls /\ calls <= MaxCalls
        BY DEF StakesInv
  <1>2. MaxCalls \in Nat
        BY StakesAssumption
  <1>3. ASSUME Call PROVE calls' \in Int /\ 0 <= calls' /\ calls' <= MaxCalls
        BY <1>1, <1>2, <1>3 DEF Call
  <1>4. ASSUME UNCHANGED <<hosts, clusters, moved>> PROVE SybilInv'
        BY <1>1, <1>4 DEF SybilInv, Registered, StrayEntryWasMoved
  <1>5. ASSUME UNCHANGED <<escrow, banned, receipts>> PROVE EscrowInv'
        BY <1>1, <1>5 DEF EscrowInv, ReceiptOK
  <1>6. ASSUME NEW h \in StakeHosts, NEW id \in Identity, RegisterHost(h, id)
        PROVE  StakesInv'
    <2>1. Call /\ UNCHANGED <<escrow, banned, receipts>>
          BY <1>6 DEF RegisterHost
    <2>. QED BY <1>1, <1>3, <1>5, <1>6, <2>1, RegisterKeepsSybil DEF StakesInv
  <1>7. ASSUME NEW h \in StakeHosts, DeregisterHost(h) PROVE StakesInv'
    <2>1. Call /\ UNCHANGED <<escrow, banned, receipts>>
          BY <1>7 DEF DeregisterHost
    <2>. QED BY <1>1, <1>3, <1>5, <1>7, <2>1, DeregisterKeepsSybil DEF StakesInv
  <1>8. ASSUME NEW h \in StakeHosts, NEW a \in Escrows, SetHostEscrow(h, a) PROVE StakesInv'
    <2>1. Call /\ UNCHANGED <<hosts, clusters, moved>>
          BY <1>8 DEF SetHostEscrow
    <2>. QED BY <1>1, <1>3, <1>4, <1>8, <2>1, SetEscrowKeepsEscrow DEF StakesInv
  <1>9. ASSUME NEW h \in StakeHosts, NEW severity \in ViolationSeverity,
               ProcessViolation(h, severity)
        PROVE  StakesInv'
    <2>1. Call /\ UNCHANGED <<hosts, clusters, moved>>
          BY <1>9 DEF ProcessViolation
    <2>. QED BY <1>1, <1>3, <1>4, <1>9, <2>1, ViolationKeepsEscrow DEF StakesInv
  <1>10. CASE UNCHANGED stakeVars
    <2>1. UNCHANGED <<hosts, clusters, moved>> /\ UNCHANGED <<escrow, banned, receipts>>
          /\ UNCHANGED calls
          BY <1>10 DEF stakeVars
    <2>. QED BY <1>1, <1>4, <1>5, <2>1 DEF StakesInv
  <1>. QED BY <1>6, <1>7, <1>8, <1>9, <1>10 DEF StakesNext

\* In HostStakes every variable keeps its type, a second identity costs more, an entry
\* under another host's name was moved there, and what receipts return adds up.
THEOREM StakesAreSafe ==
    StakesSpec => [](StakesTypeOK /\ SecondIdentityPays /\ StrayEntryWasMoved /\ ReceiptsAddUp)
  <1>1. ASSUME StakesInv PROVE StakesTypeOK
    <2>1. calls \in 0..MaxCalls
          BY <1>1, StakesAssumption DEF StakesInv
    <2>. QED BY <1>1, <2>1 DEF StakesInv, SybilInv, EscrowInv, StakesTypeOK
  <1>2. ASSUME StakesInv PROVE SecondIdentityPays
    <2>1. ASSUME NEW h \in Registered, NEW g \in Registered, h # g
          PROVE  hosts[h].tpm # hosts[g].tpm
      <3>1. /\ <<"tpm", hosts[h].tpm, h>> \in clusters /\ <<"tpm", hosts[g].tpm, g>> \in clusters
            BY <1>2 DEF StakesInv, SybilInv, Entries
      <3>2. hosts[h] \in Identity /\ h \in StakeHosts /\ g \in StakeHosts
            BY <1>2 DEF StakesInv, SybilInv, Registered
      <3>. QED BY <1>2, <2>1, <3>1, <3>2 DEF StakesInv, SybilInv, Identity
    <2>2. ASSUME NEW h \in Registered, NEW g \in Registered, h # g,
                 hosts[h].kyc = hosts[g].kyc
          PROVE  Max({hosts[h].stake, hosts[g].stake}) >= 18
      <3>1. hosts[h].stake >= 18 \/ hosts[g].stake >= 18
            BY <1>2, <2>2 DEF StakesInv, SybilInv
      <3>2. hosts[h] \in Identity /\ hosts[g] \in Identity
            BY <1>2 DEF StakesInv, SybilInv, Registered
      <3>3. PICK s, t \in Int : s = hosts[h].stake /\ t = hosts[g].stake
        <4>1. hosts[h].stake \in Stakes /\ hosts[g].stake \in Stakes
              BY <3>2 DEF Identity
        <4>2. \A n \in Stakes : n \in Int
              BY StakesAssumption
        <4>. QED BY <4>1, <4>2
      <3>4. Max({s, t}) \in Int /\ s <= Max({s, t}) /\ t <= Max({s, t})
            BY MaxTwo
      <3>. QED BY <3>1, <3>3, <3>4
    <2>. QED BY <2>1, <2>2 DEF SecondIdentityPays
  <1>3. ASSUME StakesInv PROVE StrayEntryWasMoved /\ ReceiptsAddUp
        BY <1>3 DEF StakesInv, SybilInv, EscrowInv, ReceiptOK, ReceiptsAddUp
  <1>. QED BY <1>1, <1>2, <1>3, StakesInitInv, StakesStep, PTL DEF StakesSpec

-----------------------------------------------------------------------------
(* AuditChain *)

LogRow == [at : Int, hash : Int, prev : Int, intact : BOOLEAN]

RowInv(r, n) ==
    /\ r \in LogRow /\ 1 <= r.at /\ r.at <= n
    /\ r.hash = Null \/ r.hash = r.at

\* What a row of the table has kept of the row that was written.
Copies(r, q) ==
    /\ r \in LogRow /\ r.at = q.at /\ r.hash = q.hash /\ r.prev = q.prev
    /\ r.intact => r = q

Clean(w) == w.row.hash # Null /\ w.alone

\* Nothing was changed in the table, and every row was hashed and written alone.
Untouched == tampers = 0 /\ \A w \in written : Clean(w)

WrittenInv ==
    /\ IsFiniteSet(written)
    /\ \A w \in written : /\ w \in [row : LogRow, alone : BOOLEAN]
                          /\ RowInv(w.row, tick) /\ w.row.intact
    /\ \A v, w \in written : v.row.at = w.row.at => v = w

TableInv ==
    /\ IsFiniteSet(rows) /\ Cardinality(rows) <= Cardinality(written)
    /\ \A r \in rows : \E w \in written : Copies(r, w.row)
    /\ \A q, r \in rows : q.at = r.at => q = r
    /\ tampers = 0 => rows = Rows

\* A row that is flushed has a time of its own, and of two that are open at once one is
\* not hashed or was not written alone.
WriterInv ==
    /\ DOMAIN writer = AuditSessions
    /\ \A s \in AuditSessions :
          writer[s] = Quiet \/
              /\ writer[s] \in [step : {"flushed"}, row : LogRow, alone : BOOLEAN]
              /\ RowInv(writer[s].row, tick) /\ writer[s].row.intact
              /\ \A w \in written : w.row.at # writer[s].row.at
    /\ \A s, t \in AuditSessions : s # t /\ Open(s) /\ Open(t) =>
          writer[s].row.at # writer[t].row.at /\ ~ (Clean(writer[s]) /\ Clean(writer[t]))

ChainInv ==
    Untouched =>
        /\ Verifies(rows)
        /\ \A s \in AuditSessions : Open(s) /\ Clean(writer[s]) =>
              /\ writer[s].row.prev = HashOf(rows)
              /\ \A r \in rows : r.at < writer[s].row.at

CountersInv ==
    /\ tick \in Int /\ 0 <= tick /\ tick <= MaxRows
    /\ tampers \in Int /\ 0 <= tampers /\ tampers <= MaxTampers
    /\ tip \in Int /\ 0 <= tip /\ tip <= MaxRows

AuditInv == CountersInv /\ WrittenInv /\ TableInv /\ WriterInv /\ ChainInv

LEMMA LastOf ==
    ASSUME NEW S, S \subseteq LogRow, IsFiniteSet(S), S # {}
    PROVE  Last(S) \in S /\ \A q \in S : q.at <= Last(S).at
  <1>. DEFINE f == [r \in S |-> r.at]
              T == {f[r] : r \in S}
  <1>1. f \in [S -> Int]
        BY DEF LogRow
  <1>2. IsFiniteSet(T) /\ T \subseteq Int /\ T # {}
    <2>1. IsFiniteSet(T)
      <3>1. IsFiniteSet(S)
            OBVIOUS
      <3>. HIDE DEF f
      <3>. QED BY <1>1, <3>1, FiniteImage
    <2>. QED BY <1>1, <2>1
  <1>3. Max(T) \in T /\ \A y \in T : y <= Max(T)
    <2>. HIDE DEF T
    <2>. QED BY <1>2, MaxOf
  <1>4. PICK r \in S : r.at = Max(T)
        BY <1>3
  <1>5. \A q \in S : q.at <= r.at
        BY <1>3, <1>4
  <1>6. \A q \in S : q.at \in Int
        BY DEF LogRow
  <1>. HIDE DEF T, f
  <1>7. Newer(S, r) = {}
        BY <1>5, <1>6 DEF Newer
  <1>8. Last(S) \in S /\ Newer(S, Last(S)) = {}
        BY <1>7 DEF Last
  <1>. QED BY <1>6, <1>8 DEF Newer

LEMMA AuditInitInv == AuditInit => AuditInv
  <1>. SUFFICES ASSUME AuditInit PROVE AuditInv
       OBVIOUS
  <1>1. CountersInv
        BY AuditAssumption DEF AuditInit, CountersInv, Genesis
  <1>2. WrittenInv /\ TableInv
        BY FS_EmptySet DEF AuditInit, WrittenInv, TableInv, Rows
  <1>3. WriterInv
        BY DEF AuditInit, WriterInv, Open, Quiet
  <1>4. ChainInv
        BY DEF AuditInit, ChainInv, Open, Quiet, Verifies
  <1>. QED BY <1>1, <1>2, <1>3, <1>4 DEF AuditInv

\* What the invariant says of the rows of the table.
LEMMA TableRows ==
    ASSUME WrittenInv, TableInv, tick \in Int, MaxRows \in Nat, tick <= MaxRows
    PROVE  /\ rows \subseteq LogRow /\ \A r \in rows : RowInv(r, tick)
           /\ HashOf(rows) \in Int /\ 0 <= HashOf(rows) /\ HashOf(rows) <= MaxRows
  <1>1. ASSUME NEW r \in rows PROVE RowInv(r, tick)
    <2>1. PICK w \in written : Copies(r, w.row)
          BY DEF TableInv
    <2>2. RowInv(w.row, tick)
          BY DEF WrittenInv
    <2>. QED BY <2>1, <2>2 DEF Copies, RowInv
  <1>2. rows \subseteq LogRow
        BY <1>1 DEF RowInv
  <1>3. CASE rows = {} \/ Last(rows).hash = Null
    <2>1. HashOf(rows) = 0
          BY <1>3 DEF HashOf, Genesis
    <2>2. 0 <= MaxRows
          OBVIOUS
    <2>. QED BY <1>1, <1>2, <2>1, <2>2
  <1>4. CASE rows # {} /\ Last(rows).hash # Null
    <2>1. Last(rows) \in rows
          BY <1>2, <1>4, LastOf DEF TableInv
    <2>2. HashOf(rows) = Last(rows).at
          BY <1>1, <1>4, <2>1 DEF RowInv, HashOf
    <2>. QED BY <1>1, <2>1, <2>2 DEF RowInv, LogRow
  <1>. QED BY <1>1, <1>2, <1>3, <1>4

\* A session that flushes a row.
LEMMA WriteKeepsAudit ==
    ASSUME AuditInv, NEW s \in AuditSessions, AuditWrite(s) \/ UnhashedWrite(s)
    PROVE  AuditInv'
  <1>1. CountersInv /\ WrittenInv /\ TableInv /\ WriterInv /\ ChainInv /\ MaxRows \in Nat
        BY AuditAssumption DEF AuditInv
  <1>2. /\ ~ Open(s) /\ tick < MaxRows /\ tick' = tick + 1
        /\ UNCHANGED <<rows, written, tampers, tip>>
        BY DEF AuditWrite, UnhashedWrite
  <1>3. PICK h \in Int, p \in Int, a \in BOOLEAN :
            /\ writer' = [writer EXCEPT ![s] = [step |-> "flushed",
                  row |-> [at |-> tick', hash |-> h, prev |-> p, intact |-> TRUE], alone |-> a]]
            /\ h = Null \/ (h = tick' /\ p = HashOf(rows)
                              /\ (a => \A r \in AuditSessions : ~ Open(r)))
    <2>1. CASE AuditWrite(s)
      <3>1. PICK a : a = (\A r \in AuditSessions : ~ Open(r))
            OBVIOUS
      <3>2. a \in BOOLEAN
            BY <3>1
      <3>3. HashOf(rows) \in Int /\ tick' \in Int
            BY <1>1, <1>2, TableRows DEF CountersInv
      <3>4. writer' = [writer EXCEPT ![s] = [step |-> "flushed",
               row |-> [at |-> tick', hash |-> tick', prev |-> HashOf(rows), intact |-> TRUE],
               alone |-> a]]
            BY <2>1, <3>1 DEF AuditWrite, Previous
      <3>. QED BY <3>1, <3>2, <3>3, <3>4
    <2>2. CASE UnhashedWrite(s)
      <3>1. writer' = [writer EXCEPT ![s] = [step |-> "flushed",
               row |-> [at |-> tick', hash |-> Null, prev |-> Null, intact |-> TRUE],
               alone |-> TRUE]]
            BY <2>2 DEF UnhashedWrite
      <3>2. Null \in Int
            BY DEF Null
      <3>. QED BY <3>1, <3>2
    <2>. QED BY <2>1, <2>2
  <1>. DEFINE row == [at |-> tick', hash |-> h, prev |-> p, intact |-> TRUE]
  <1>4. /\ DOMAIN writer' = AuditSessions
        /\ writer'[s] = [step |-> "flushed", row |-> row, alone |-> a]
        /\ \A t \in AuditSessions \ {s} : writer'[t] = writer[t]
        BY <1>1, <1>3 DEF WriterInv
  <1>5. /\ tick \in Int /\ tick' \in Int /\ tick < tick' /\ 1 <= tick' /\ tick' <= MaxRows
        BY <1>1, <1>2 DEF CountersInv
  <1>6. ASSUME NEW r, RowInv(r, tick) PROVE RowInv(r, tick') /\ r.at < tick'
        BY <1>5, <1>6 DEF RowInv, LogRow
  <1>7. CountersInv'
        BY <1>1, <1>2, <1>5 DEF CountersInv
  <1>8. WrittenInv' /\ \A w \in written' : w.row.at < tick'
    <2>1. \A w \in written : RowInv(w.row, tick') /\ w.row.at < tick'
          BY <1>1, <1>6 DEF WrittenInv
    <2>. QED BY <1>1, <1>2, <2>1 DEF WrittenInv
  <1>9. TableInv'
        BY <1>1, <1>2 DEF TableInv, Rows, Copies
  <1>10. /\ row \in LogRow /\ row.at = tick' /\ row.hash = h /\ row.prev = p /\ row.intact
         /\ RowInv(row, tick')
         BY <1>3, <1>5 DEF LogRow, RowInv
  <1>11. /\ writer'[s] \in [step : {"flushed"}, row : LogRow, alone : BOOLEAN]
         /\ writer'[s].row = row /\ writer'[s].alone = a /\ Open(s)'
    <2>. HIDE DEF row
    <2>. QED BY <1>4, <1>10 DEF Open
  <1>12. ASSUME NEW t \in AuditSessions, t # s, Open(t)
         PROVE  /\ writer'[t] = writer[t]
                /\ writer[t] \in [step : {"flushed"}, row : LogRow, alone : BOOLEAN]
                /\ RowInv(writer[t].row, tick) /\ writer[t].row.intact
                /\ \A w \in written : w.row.at # writer[t].row.at
         BY <1>1, <1>4, <1>12 DEF WriterInv, Open, Quiet
  <1>13. \A t \in AuditSessions : t # s => Open(t)' = Open(t)
         BY <1>4 DEF Open
  <1>14. WriterInv'
    <2>1. ASSUME NEW t \in AuditSessions
          PROVE  writer'[t] = Quiet \/
                   /\ writer'[t] \in [step : {"flushed"}, row : LogRow, alone : BOOLEAN]
                   /\ RowInv(writer'[t].row, tick') /\ writer'[t].row.intact
                   /\ \A w \in written' : w.row.at # writer'[t].row.at
      <3>1. CASE t = s
        <4>. HIDE DEF row
        <4>1. \A w \in written' : w.row.at # tick'
              BY <1>1, <1>2, <1>5, <1>8 DEF WrittenInv, RowInv, LogRow
        <4>. QED BY <1>10, <1>11, <3>1, <4>1
      <3>2. CASE t # s /\ Open(t)
        <4>1. RowInv(writer[t].row, tick')
              BY <1>6, <1>12, <3>2
        <4>. QED BY <1>2, <1>12, <3>2, <4>1
      <3>3. CASE t # s /\ ~ Open(t)
            BY <1>1, <1>4, <3>3 DEF WriterInv, Open
      <3>. QED BY <3>1, <3>2, <3>3
    <2>2. ASSUME NEW t \in AuditSessions, t # s, Open(t)'
          PROVE  /\ writer'[s].row.at # writer'[t].row.at
                 /\ ~ (Clean(writer'[s]) /\ Clean(writer'[t]))
      <3>1. Open(t)
            BY <1>13, <2>2
      <3>2. writer'[t].row.at < tick'
            BY <1>6, <1>12, <2>2, <3>1
      <3>3. writer'[t].row.at \in Int
            BY <1>12, <2>2, <3>1 DEF RowInv, LogRow
      <3>4. ~ Clean(writer'[s])
        <4>. HIDE DEF row
        <4>. QED BY <1>3, <1>10, <1>11, <3>1 DEF Clean
      <3>. HIDE DEF row
      <3>. QED BY <1>5, <1>10, <1>11, <3>2, <3>3, <3>4
    <2>3. ASSUME NEW t \in AuditSessions, NEW u \in AuditSessions, t # s, u # s, t # u,
                 Open(t)', Open(u)'
          PROVE  /\ writer'[t].row.at # writer'[u].row.at
                 /\ ~ (Clean(writer'[t]) /\ Clean(writer'[u]))
          BY <1>1, <1>4, <1>13, <2>3 DEF WriterInv
    <2>4. ASSUME NEW t \in AuditSessions, NEW u \in AuditSessions, t # u, Open(t)', Open(u)'
          PROVE  /\ writer'[t].row.at # writer'[u].row.at
                 /\ ~ (Clean(writer'[t]) /\ Clean(writer'[u]))
          BY <2>2, <2>3, <2>4
    <2>. QED BY <1>4, <2>1, <2>4 DEF WriterInv
  <1>15. ChainInv'
    <2>. SUFFICES ASSUME Untouched'
                  PROVE  /\ Verifies(rows)'
                         /\ \A t \in AuditSessions : Open(t)' /\ Clean(writer[t])' =>
                               /\ writer'[t].row.prev = HashOf(rows)'
                               /\ \A r \in rows' : r.at < writer'[t].row.at
         BY DEF ChainInv
    <2>1. Untouched
          BY <1>2 DEF Untouched
    <2>2. Verifies(rows)'
          BY <1>1, <1>2, <2>1 DEF ChainInv, Verifies, Follows
    <2>3. HashOf(rows)' = HashOf(rows)
          BY <1>2
    <2>4. ASSUME NEW t \in AuditSessions, Open(t)', Clean(writer[t])'
          PROVE  /\ writer'[t].row.prev = HashOf(rows)'
                 /\ \A r \in rows' : r.at < writer'[t].row.at
      <3>1. CASE t = s
        <4>1. \A r \in rows : r.at < tick'
              BY <1>1, <1>5, <1>6, TableRows DEF CountersInv
        <4>2. h # Null
          <5>. HIDE DEF row
          <5>. QED BY <1>10, <1>11, <2>4, <3>1 DEF Clean
        <4>3. writer'[s].row.prev = p /\ writer'[s].row.at = tick'
          <5>. HIDE DEF row
          <5>. QED BY <1>10, <1>11
        <4>. QED BY <1>2, <1>3, <2>3, <3>1, <4>1, <4>2, <4>3
      <3>2. CASE t # s
        <4>1. Open(t) /\ Clean(writer[t])
              BY <1>4, <1>13, <2>4, <3>2
        <4>. QED BY <1>1, <1>2, <1>4, <2>1, <2>3, <3>2, <4>1 DEF ChainInv
      <3>. QED BY <3>1, <3>2
    <2>. QED BY <2>2, <2>4
  <1>. QED BY <1>7, <1>8, <1>9, <1>14, <1>15 DEF AuditInv

LEMMA CommitKeepsAudit ==
    ASSUME AuditInv, NEW s \in AuditSessions, AuditCommit(s)
    PROVE  AuditInv'
  <1>1. CountersInv /\ WrittenInv /\ TableInv /\ WriterInv /\ ChainInv
        BY DEF AuditInv
  <1>2. PICK row, alone : row = writer[s].row /\ alone = writer[s].alone
        OBVIOUS
  <1>. DEFINE new == [row |-> row, alone |-> alone]
  <1>3. /\ Open(s) /\ rows' = rows \cup {row} /\ written' = written \cup {new}
        /\ writer' = [writer EXCEPT ![s] = Quiet] /\ UNCHANGED <<tick, tampers, tip>>
        BY <1>2 DEF AuditCommit
  <1>4. /\ DOMAIN writer' = AuditSessions /\ writer'[s] = Quiet
        /\ \A t \in AuditSessions \ {s} : writer'[t] = writer[t]
        BY <1>1, <1>3 DEF WriterInv
  <1>5. /\ row \in LogRow /\ alone \in BOOLEAN /\ RowInv(row, tick) /\ row.intact
        /\ \A w \in written : w.row.at # row.at
        BY <1>1, <1>2, <1>3 DEF WriterInv, Open, Quiet
  <1>6. new.row = row /\ new.alone = alone /\ new \in [row : LogRow, alone : BOOLEAN]
        BY <1>5
  <1>. HIDE DEF new
  <1>7. \A r \in rows : r \in LogRow /\ RowInv(r, tick) /\ r.at # row.at
    <2>1. ASSUME NEW r \in rows PROVE r \in LogRow /\ r.at # row.at
          BY <1>1, <1>5 DEF TableInv, Copies
    <2>2. ASSUME NEW r \in rows PROVE RowInv(r, tick)
          BY <1>1, TableRows, AuditAssumption DEF CountersInv
    <2>. QED BY <2>1, <2>2
  <1>8. new \notin written /\ row \notin rows
        BY <1>5, <1>6, <1>7
  <1>9. WrittenInv'
    <2>1. IsFiniteSet(written')
          BY <1>1, <1>3, FS_AddElement DEF WrittenInv
    <2>2. \A w \in written' : /\ w \in [row : LogRow, alone : BOOLEAN]
                              /\ RowInv(w.row, tick) /\ w.row.intact
          BY <1>1, <1>3, <1>5, <1>6 DEF WrittenInv
    <2>3. \A v, w \in written' : v.row.at = w.row.at => v = w
          BY <1>1, <1>3, <1>5, <1>6 DEF WrittenInv
    <2>. QED BY <1>3, <2>1, <2>2, <2>3 DEF WrittenInv
  <1>10. TableInv'
    <2>1. IsFiniteSet(rows') /\ Cardinality(rows') <= Cardinality(written')
      <3>1. /\ IsFiniteSet(rows) /\ IsFiniteSet(written)
            /\ Cardinality(rows) <= Cardinality(written)
            BY <1>1 DEF TableInv, WrittenInv
      <3>2. Cardinality(rows') = Cardinality(rows) + 1
            BY <1>3, <1>8, <3>1, FS_AddElement
      <3>3. Cardinality(written') = Cardinality(written) + 1
            BY <1>3, <1>8, <3>1, FS_AddElement
      <3>4. PICK a, b \in Nat : a = Cardinality(rows) /\ b = Cardinality(written)
            BY <3>1, FS_CardinalityType
      <3>5. a + 1 <= b + 1
            BY <3>1, <3>4
      <3>6. IsFiniteSet(rows')
            BY <1>3, <3>1, FS_AddElement
      <3>. QED BY <3>2, <3>3, <3>4, <3>5, <3>6
    <2>2. ASSUME NEW r \in rows' PROVE \E w \in written' : Copies(r, w.row)
      <3>1. CASE r \in rows
            BY <1>1, <1>3, <3>1 DEF TableInv
      <3>2. CASE r = row
            BY <1>3, <1>5, <1>6, <3>2 DEF Copies
      <3>. QED BY <1>3, <3>1, <3>2
    <2>3. \A q, r \in rows' : q.at = r.at => q = r
          BY <1>1, <1>3, <1>7 DEF TableInv
    <2>4. ASSUME tampers' = 0 PROVE rows' = Rows'
      <3>1. rows = Rows
            BY <1>1, <1>3, <2>4 DEF TableInv
      <3>2. Rows' = Rows \cup {row}
            BY <1>3, <1>6 DEF Rows
      <3>. QED BY <1>3, <3>1, <3>2
    <2>. QED BY <2>1, <2>2, <2>3, <2>4 DEF TableInv
  <1>11. ASSUME NEW t \in AuditSessions, Open(t)'
         PROVE  /\ t # s /\ Open(t) /\ writer'[t] = writer[t]
                /\ writer[t].row.at # row.at /\ ~ (Clean(new) /\ Clean(writer[t]))
    <2>1. t # s
          BY <1>4, <1>11 DEF Open, Quiet
    <2>2. Open(t) /\ writer'[t] = writer[t]
          BY <1>4, <1>11, <2>1 DEF Open
    <2>3. ~ (Clean(writer[s]) /\ Clean(writer[t])) /\ writer[t].row.at # row.at
          BY <1>1, <1>2, <1>3, <2>1, <2>2 DEF WriterInv
    <2>4. Clean(new) = Clean(writer[s])
          BY <1>2, <1>6 DEF Clean
    <2>. QED BY <2>1, <2>2, <2>3, <2>4
  <1>12. WriterInv'
    <2>1. ASSUME NEW t \in AuditSessions
          PROVE  writer'[t] = Quiet \/
                   /\ writer'[t] \in [step : {"flushed"}, row : LogRow, alone : BOOLEAN]
                   /\ RowInv(writer'[t].row, tick') /\ writer'[t].row.intact
                   /\ \A w \in written' : w.row.at # writer'[t].row.at
      <3>1. CASE Open(t)'
        <4>1. /\ writer[t] \in [step : {"flushed"}, row : LogRow, alone : BOOLEAN]
              /\ RowInv(writer[t].row, tick) /\ writer[t].row.intact
              /\ \A w \in written : w.row.at # writer[t].row.at
              BY <1>1, <1>11, <3>1 DEF WriterInv, Open, Quiet
        <4>. QED BY <1>3, <1>6, <1>11, <3>1, <4>1
      <3>2. CASE ~ Open(t)'
        <4>1. CASE t = s
              BY <1>4, <4>1
        <4>2. CASE t # s
              BY <1>1, <1>4, <3>2, <4>2 DEF WriterInv, Open
        <4>. QED BY <4>1, <4>2
      <3>. QED BY <3>1, <3>2
    <2>2. ASSUME NEW t \in AuditSessions, NEW u \in AuditSessions, t # u, Open(t)', Open(u)'
          PROVE  /\ writer'[t].row.at # writer'[u].row.at
                 /\ ~ (Clean(writer'[t]) /\ Clean(writer'[u]))
          BY <1>1, <1>11, <2>2 DEF WriterInv
    <2>. QED BY <1>4, <2>1, <2>2 DEF WriterInv
  <1>13. ASSUME Untouched'
         PROVE  /\ Verifies(rows)'
                /\ \A t \in AuditSessions : ~ (Open(t)' /\ Clean(writer[t])')
    <2>1. Untouched /\ Clean(new)
          BY <1>3, <1>13 DEF Untouched
    <2>2. Clean(writer[s])
          BY <1>2, <1>6, <2>1 DEF Clean
    <2>3. Verifies(rows) /\ row.prev = HashOf(rows) /\ \A r \in rows : r.at < row.at
          BY <1>1, <1>2, <1>3, <2>1, <2>2 DEF ChainInv
    <2>4. row.hash # Null
          BY <1>6, <2>1 DEF Clean
    <2>5. \A r \in rows' : r.at \in Int
          BY <1>3, <1>5, <1>7 DEF LogRow
    <2>6. {q \in rows' : q.at < row.at} = rows
          BY <1>3, <2>3, <2>5
    <2>7. Follows(row, rows')
      <3>1. CASE rows = {}
            BY <2>3, <2>6, <3>1 DEF Follows, HashOf
      <3>2. CASE rows # {}
        <4>1. Last(rows) \in rows
              BY <1>1, <1>7, <3>2, LastOf DEF TableInv
        <4>2. Last(rows).hash # Null
              BY <2>3, <4>1 DEF Verifies
        <4>. QED BY <2>3, <2>6, <3>2, <4>2 DEF Follows, HashOf
      <3>. QED BY <3>1, <3>2
    <2>8. ASSUME NEW r \in rows PROVE Follows(r, rows')
      <3>1. {q \in rows' : q.at < r.at} = {q \in rows : q.at < r.at}
            BY <1>3, <2>3, <2>5
      <3>2. Follows(r, rows)
            BY <2>3 DEF Verifies
      <3>. QED BY <3>1, <3>2 DEF Follows
    <2>9. \A r \in rows' : r.hash # Null /\ Follows(r, rows') /\ r.intact
          BY <1>3, <1>5, <2>3, <2>4, <2>7, <2>8 DEF Verifies
    <2>10. Verifies(rows)'
           BY <2>9 DEF Verifies, Follows
    <2>11. ASSUME NEW t \in AuditSessions PROVE ~ (Open(t)' /\ Clean(writer[t])')
           BY <1>11, <2>1 DEF Clean
    <2>. QED BY <2>10, <2>11
  <1>14. ChainInv'
         BY <1>13 DEF ChainInv
  <1>15. CountersInv'
         BY <1>1, <1>3 DEF CountersInv
  <1>. QED BY <1>9, <1>10, <1>12, <1>14, <1>15 DEF AuditInv

LEMMA RollbackKeepsAudit ==
    ASSUME AuditInv, NEW s \in AuditSessions, AuditRollback(s)
    PROVE  AuditInv'
  <1>1. CountersInv /\ WrittenInv /\ TableInv /\ WriterInv /\ ChainInv
        BY DEF AuditInv
  <1>2. writer' = [writer EXCEPT ![s] = Quiet] /\ UNCHANGED <<rows, written, tick, tampers, tip>>
        BY DEF AuditRollback
  <1>3. /\ DOMAIN writer' = AuditSessions /\ writer'[s] = Quiet
        /\ \A t \in AuditSessions \ {s} : writer'[t] = writer[t]
        BY <1>1, <1>2 DEF WriterInv
  <1>4. ASSUME NEW t \in AuditSessions, Open(t)' PROVE Open(t) /\ writer'[t] = writer[t]
        BY <1>3, <1>4 DEF Open, Quiet
  <1>5. CountersInv' /\ WrittenInv' /\ TableInv'
        BY <1>1, <1>2 DEF CountersInv, WrittenInv, TableInv, Rows, Copies
  <1>6. WriterInv'
    <2>1. ASSUME NEW t \in AuditSessions
          PROVE  writer'[t] = Quiet \/
                   /\ writer'[t] \in [step : {"flushed"}, row : LogRow, alone : BOOLEAN]
                   /\ RowInv(writer'[t].row, tick') /\ writer'[t].row.intact
                   /\ \A w \in written' : w.row.at # writer'[t].row.at
      <3>1. CASE t = s
            BY <1>3, <3>1
      <3>2. CASE t # s
            BY <1>1, <1>2, <1>3, <3>2 DEF WriterInv
      <3>. QED BY <3>1, <3>2
    <2>2. ASSUME NEW t \in AuditSessions, NEW u \in AuditSessions, t # u, Open(t)', Open(u)'
          PROVE  /\ writer'[t].row.at # writer'[u].row.at
                 /\ ~ (Clean(writer'[t]) /\ Clean(writer'[u]))
          BY <1>1, <1>4, <2>2 DEF WriterInv
    <2>. QED BY <1>3, <2>1, <2>2 DEF WriterInv
  <1>7. ChainInv'
    <2>. SUFFICES ASSUME Untouched'
                  PROVE  /\ Verifies(rows)'
                         /\ \A t \in AuditSessions : Open(t)' /\ Clean(writer[t])' =>
                               /\ writer'[t].row.prev = HashOf(rows)'
                               /\ \A r \in rows' : r.at < writer'[t].row.at
         BY DEF ChainInv
    <2>1. Untouched
          BY <1>2 DEF Untouched
    <2>2. Verifies(rows)' /\ HashOf(rows)' = HashOf(rows)
          BY <1>1, <1>2, <2>1 DEF ChainInv, Verifies, Follows
    <2>3. ASSUME NEW t \in AuditSessions, Open(t)', Clean(writer[t])'
          PROVE  /\ writer'[t].row.prev = HashOf(rows)'
                 /\ \A r \in rows' : r.at < writer'[t].row.at
          BY <1>1, <1>2, <1>4, <2>1, <2>2, <2>3 DEF ChainInv
    <2>. QED BY <2>2, <2>3
  <1>. QED BY <1>5, <1>6, <1>7 DEF AuditInv

LEMMA CheckpointKeepsAudit ==
    ASSUME AuditInv, Checkpoint
    PROVE  AuditInv'
  <1>1. CountersInv /\ WrittenInv /\ TableInv /\ WriterInv /\ ChainInv
        BY DEF AuditInv
  <1>2. tip' = HashOf(rows) /\ UNCHANGED <<rows, written, writer, tick, tampers>>
        BY DEF Checkpoint
  <1>3. tip' \in Int /\ 0 <= tip' /\ tip' <= MaxRows
        BY <1>1, <1>2, TableRows, AuditAssumption DEF CountersInv
  <1>4. CountersInv' /\ WrittenInv' /\ TableInv' /\ WriterInv'
        BY <1>1, <1>2, <1>3
        DEF CountersInv, WrittenInv, TableInv, Rows, Copies, WriterInv, Open
  <1>5. ChainInv'
        BY <1>1, <1>2 DEF ChainInv, Untouched, Verifies, Follows, Open
  <1>. QED BY <1>4, <1>5 DEF AuditInv

\* A change in the table itself: nothing is claimed of the chain any more.
LEMMA TamperKeepsAudit ==
    ASSUME AuditInv, NEW r \in rows, RowRemoved(r) \/ RowAltered(r)
    PROVE  AuditInv'
  <1>1. CountersInv /\ WrittenInv /\ TableInv /\ WriterInv /\ ChainInv
        BY DEF AuditInv
  <1>2. /\ tampers < MaxTampers /\ tampers' = tampers + 1
        /\ UNCHANGED <<written, writer, tick, tip>>
        BY DEF RowRemoved, RowAltered
  <1>3. CountersInv' /\ tampers' # 0
        BY <1>1, <1>2, AuditAssumption DEF CountersInv
  <1>4. ~ Untouched'
        BY <1>3 DEF Untouched
  <1>5. WrittenInv' /\ WriterInv'
        BY <1>1, <1>2 DEF WrittenInv, WriterInv, Open
  <1>6. IsFiniteSet(rows) /\ Cardinality(rows) <= Cardinality(written) /\ IsFiniteSet(written)
        BY <1>1 DEF TableInv, WrittenInv
  <1>7. PICK w \in written : Copies(r, w.row)
        BY <1>1 DEF TableInv
  <1>8. PICK a, b \in Nat : a = Cardinality(rows) /\ b = Cardinality(written) /\ a <= b
        BY <1>6, FS_CardinalityType
  <1>9. IsFiniteSet(rows \ {r}) /\ Cardinality(rows \ {r}) = a - 1
        BY <1>6, <1>8, FS_RemoveElement
  <1>10. TableInv'
    <2>1. CASE rows' = rows \ {r}
      <3>1. IsFiniteSet(rows') /\ Cardinality(rows') <= Cardinality(written')
            BY <1>2, <1>8, <1>9, <2>1
      <3>. QED BY <1>1, <1>2, <1>3, <2>1, <3>1 DEF TableInv, Copies
    <2>2. CASE rows' = (rows \ {r}) \cup {[r EXCEPT !.intact = FALSE]}
      <3>1. PICK q : q = [r EXCEPT !.intact = FALSE]
            OBVIOUS
      <3>2. r \in LogRow
            BY <1>7 DEF Copies
      <3>3. /\ q \in LogRow /\ q.at = r.at /\ q.hash = r.hash /\ q.prev = r.prev /\ ~ q.intact
            BY <3>1, <3>2 DEF LogRow
      <3>4. \A p \in rows \ {r} : p.at # q.at
            BY <1>1, <3>3 DEF TableInv
      <3>5. rows' = (rows \ {r}) \cup {q}
            BY <2>2, <3>1
      <3>6. q \notin rows \ {r}
            BY <3>4
      <3>7. IsFiniteSet(rows')
            BY ONLY <1>9, <3>5, FS_AddElement
      <3>8. Cardinality(rows') = (a - 1) + 1
        <4>1. Cardinality(rows') = Cardinality(rows \ {r}) + 1
              BY ONLY <1>9, <3>5, <3>6, FS_AddElement
        <4>. QED BY <1>9, <4>1
      <3>9. Cardinality(rows') <= Cardinality(written')
            BY <1>2, <1>8, <3>8
      <3>10. Copies(q, w.row)
             BY <1>7, <3>3 DEF Copies
      <3>11. \A p \in rows' : \E v \in written' : Copies(p, v.row)
             BY <1>1, <1>2, <3>5, <3>10 DEF TableInv
      <3>12. \A p, o \in rows' : p.at = o.at => p = o
             BY <1>1, <3>4, <3>5 DEF TableInv
      <3>. QED BY <1>3, <3>7, <3>9, <3>11, <3>12 DEF TableInv
    <2>. QED BY <2>1, <2>2 DEF RowRemoved, RowAltered
  <1>. QED BY <1>3, <1>4, <1>5, <1>10 DEF AuditInv, ChainInv

LEMMA AuditStep == ASSUME AuditInv, [AuditNext]_auditVars PROVE AuditInv'
  <1>1. CASE UNCHANGED auditVars
    <2>1. CountersInv /\ WrittenInv /\ TableInv /\ WriterInv /\ ChainInv
          BY DEF AuditInv
    <2>2. UNCHANGED <<rows, written, writer, tick, tampers, tip>>
          BY <1>1 DEF auditVars
    <2>3. CountersInv' /\ WrittenInv' /\ TableInv' /\ WriterInv'
          BY <2>1, <2>2 DEF CountersInv, WrittenInv, TableInv, Rows, Copies, WriterInv, Open
    <2>4. ChainInv'
          BY <2>1, <2>2 DEF ChainInv, Untouched, Verifies, Follows, Open
    <2>. QED BY <2>3, <2>4 DEF AuditInv
  <1>. QED BY <1>1, WriteKeepsAudit, CommitKeepsAudit, RollbackKeepsAudit, TamperKeepsAudit,
              CheckpointKeepsAudit DEF AuditNext

\* Two chains of which one holds copies of the rows of the other: the shorter is a prefix.
LEMMA PrefixOfChain ==
    ASSUME AuditInv, Verifies(rows), Verifies(Rows)
    PROVE  /\ rows \subseteq Rows
           /\ \A r \in Rows \ rows : \A q \in rows : q.at < r.at
  <1>1. CountersInv /\ WrittenInv /\ TableInv
        BY DEF AuditInv
  <1>2. rows \subseteq Rows
    <2>1. ASSUME NEW r \in rows PROVE r \in Rows
      <3>1. PICK w \in written : Copies(r, w.row)
            BY <1>1 DEF TableInv
      <3>2. r = w.row
            BY <3>1 DEF Copies, Verifies
      <3>. QED BY <3>2 DEF Rows
    <2>. QED BY <2>1
  <1>3. \A r \in Rows : RowInv(r, tick) /\ r \in LogRow /\ r.at \in Int /\ r.hash = r.at
        BY <1>1 DEF WrittenInv, Rows, RowInv, LogRow, Verifies
  <1>4. \A q, r \in Rows : q.at = r.at => q = r
        BY <1>1 DEF WrittenInv, Rows
  <1>5. IsFiniteSet(Rows)
    <2>. DEFINE f == [w \in written |-> w.row]
    <2>1. f \in [written -> Rows]
          BY DEF Rows
    <2>2. IsFiniteSet({f[w] : w \in written})
      <3>1. IsFiniteSet(written)
            BY <1>1 DEF WrittenInv
      <3>. HIDE DEF f
      <3>. QED BY <2>1, <3>1, FiniteImage
    <2>. QED BY <2>2 DEF Rows
  <1>6. ASSUME NEW r \in Rows \ rows, NEW q \in rows, q.at >= r.at PROVE FALSE
    <2>. DEFINE Late == {p \in rows : p.at >= r.at}
                f == [p \in Late |-> p.at]
                T == {f[p] : p \in Late}
    <2>1. IsFiniteSet(T) /\ T \subseteq Int /\ T # {}
      <3>1. IsFiniteSet(Late)
            BY <1>1, FS_Subset DEF TableInv
      <3>2. f \in [Late -> Int]
            BY <1>2, <1>3
      <3>3. IsFiniteSet(T)
        <4>. HIDE DEF f, Late
        <4>. QED BY <3>1, <3>2, FiniteImage
      <3>4. q \in Late
            BY <1>6
      <3>. QED BY <3>2, <3>3, <3>4
    <2>2. Min(T) \in T /\ \A y \in T : y >= Min(T)
      <3>. HIDE DEF T
      <3>. QED BY <2>1, MinOf
    <2>3. PICK p \in Late : p.at = Min(T)
          BY <2>2
    <2>4. \A o \in rows : o.at >= r.at => o.at >= p.at
          BY <2>2, <2>3
    <2>5. p \in rows /\ p \in Rows /\ p.at >= r.at /\ p # r
          BY <1>2
    <2>6. p.at > r.at /\ p.at \in Int /\ r.at \in Int
          BY <1>3, <1>4, <2>5
    <2>. HIDE DEF Late, T, f
    <2>. DEFINE wide == {o \in Rows : o.at < p.at}
                near == {o \in rows : o.at < p.at}
    <2>7. r \in wide /\ IsFiniteSet(wide) /\ wide \subseteq LogRow
          BY <1>3, <1>5, <2>6, FS_Subset
    <2>8. Last(wide) \in wide /\ \A o \in wide : o.at <= Last(wide).at
          BY <2>7, LastOf
    <2>9. p.prev = Last(wide).hash
          BY <2>5, <2>7 DEF Verifies, Follows
    <2>10. p.prev = Last(wide).at /\ Last(wide).at >= r.at /\ Last(wide).at \in Int
           BY <1>3, <2>6, <2>7, <2>8, <2>9
    <2>11. p.prev # Genesis
           BY <1>3, <2>10 DEF Genesis, RowInv
    <2>12. near # {} /\ p.prev = Last(near).hash
           BY <2>5, <2>11 DEF Verifies, Follows
    <2>13. IsFiniteSet(near) /\ near \subseteq LogRow
           BY <1>1, <1>2, <1>3, FS_Subset DEF TableInv
    <2>14. Last(near) \in near
           BY <2>12, <2>13, LastOf
    <2>15. /\ Last(near) \in rows /\ Last(near) \in Rows /\ Last(near).at < p.at
           /\ Last(near).hash = Last(near).at
           BY <1>2, <1>3, <2>14
    <2>16. Last(near).at >= r.at
           BY <2>10, <2>12, <2>15
    <2>17. Last(near).at >= p.at
           BY <2>4, <2>15, <2>16
    <2>. QED BY <1>3, <2>6, <2>15, <2>17
  <1>7. ASSUME NEW r \in Rows \ rows, NEW q \in rows PROVE q.at < r.at
    <2>1. q.at \in Int /\ r.at \in Int
          BY <1>2, <1>3
    <2>. QED BY <1>6, <2>1
  <1>. QED BY <1>2, <1>7

\* In AuditChain every variable keeps its type, what was verified is a prefix of the
\* chain, and a break in the chain has a cause.
THEOREM AuditIsSafe ==
    AuditSpec => [](AuditTypeOK /\ VerifiedIsPrefix /\ BreakHasCause)
  <1>1. ASSUME AuditInv PROVE AuditTypeOK
    <2>1. CountersInv /\ WrittenInv /\ TableInv /\ MaxTampers \in Nat
          BY <1>1, AuditAssumption DEF AuditInv
    <2>2. tick \in 0..MaxRows /\ tampers \in 0..MaxTampers /\ tip \in 0..MaxRows
          BY <2>1, AuditAssumption DEF CountersInv
    <2>3. ASSUME NEW r \in rows
          PROVE  r.at \in 1..MaxRows /\ r.hash \in {Null} \cup 1..MaxRows /\ r.intact \in BOOLEAN
      <3>1. RowInv(r, tick)
            BY <2>1, TableRows, AuditAssumption DEF CountersInv
      <3>2. /\ r.at \in Int /\ r.intact \in BOOLEAN /\ 1 <= r.at /\ r.at <= tick
            /\ r.hash = Null \/ r.hash = r.at
            BY <3>1 DEF RowInv, LogRow
      <3>3. r.at \in 1..MaxRows
            BY <2>1, <3>2, AuditAssumption DEF CountersInv
      <3>. QED BY <3>2, <3>3
    <2>. QED BY <2>1, <2>2, <2>3 DEF TableInv, AuditTypeOK
  <1>2. ASSUME AuditInv PROVE VerifiedIsPrefix
    <2>. SUFFICES ASSUME Verifies(rows), Verifies(Rows)
                  PROVE  /\ rows \subseteq Rows
                         /\ \A r \in Rows \ rows : \A q \in rows : q.at < r.at
                         /\ (\E q \in rows : q.hash = tip) =>
                               \A r \in Rows : r.at <= tip => r \in rows
         BY DEF VerifiedIsPrefix
    <2>1. /\ rows \subseteq Rows
          /\ \A r \in Rows \ rows : \A q \in rows : q.at < r.at
          BY <1>2, PrefixOfChain
    <2>2. ASSUME NEW q \in rows, q.hash = tip, NEW r \in Rows, r.at <= tip PROVE r \in rows
      <3>1. \A p \in Rows : p.at \in Int /\ p.hash = p.at
            BY <1>2 DEF AuditInv, WrittenInv, Rows, RowInv, LogRow, Verifies
      <3>2. q.at = tip /\ q.at \in Int /\ r.at \in Int
            BY <2>1, <2>2, <3>1
      <3>. QED BY <2>1, <2>2, <3>2
    <2>. QED BY <2>1, <2>2
  <1>3. ASSUME AuditInv PROVE BreakHasCause
    <2>. SUFFICES ASSUME ~ (tampers > 0), ~ \E w \in written : w.row.hash = Null \/ ~ w.alone
                  PROVE  Verifies(Rows)
         BY DEF BreakHasCause
    <2>1. tampers = 0
          BY <1>3 DEF AuditInv, CountersInv
    <2>2. Untouched
          BY <2>1 DEF Untouched, Clean
    <2>3. Verifies(rows) /\ rows = Rows
          BY <1>3, <2>1, <2>2 DEF AuditInv, ChainInv, TableInv
    <2>. QED BY <2>3
  <1>. QED BY <1>1, <1>2, <1>3, AuditInitInv, AuditStep, PTL DEF AuditSpec

-----------------------------------------------------------------------------
(* SecurityVerdicts *)

VerdictInv == verdict \in {"posture", "workload", "image", "launch"} /\ VerdictTypeOK

LEMMA VerdictInitInv == VerdictInit => VerdictInv
  <1>1. 0 \in Penalties /\ 0 \in Counts /\ 0 \in Risks /\ 0 \in Vcpus /\ 0 \in Vram
        BY VerdictAssumption
  <1>2. {} \in SUBSET {"kernel", "agent", "runtime", "gpu"} /\ 2 \in 0..2 /\ 0 \in 0..1
        OBVIOUS
  <1>. SUFFICES ASSUME VerdictInit PROVE VerdictInv
       OBVIOUS
  <1>3. verdict \in {"posture", "workload", "image", "launch"} /\ sheet = Best[verdict]
        BY DEF VerdictInit, Best
  <1>4. CASE verdict = "posture"
        BY <1>1, <1>2, <1>3, <1>4 DEF Best, VerdictInv, VerdictTypeOK, Posture
  <1>5. CASE verdict = "workload"
        BY <1>1, <1>2, <1>3, <1>5 DEF Best, VerdictInv, VerdictTypeOK, Workload
  <1>6. CASE verdict = "image"
        BY <1>1, <1>2, <1>3, <1>6 DEF Best, VerdictInv, VerdictTypeOK, Findings
  <1>7. CASE verdict = "launch"
        BY <1>1, <1>2, <1>3, <1>7 DEF Best, VerdictInv, VerdictTypeOK, Request
  <1>. QED BY <1>3, <1>4, <1>5, <1>6, <1>7

\* One entry of a sheet of a kind gets worse.
LEMMA PostureMoves ==
    ASSUME PostureWorsens, sheet \in Posture
    PROVE  /\ sheet' \in Posture
           /\ sheet'.attestation = sheet.attestation \/ sheet'.attestation # "current"
           /\ sheet'.boots <= sheet.boots
           /\ \/ sheet'.stale = sheet.stale
              \/ \E c \in DOMAIN StaleCost \ sheet.stale : sheet'.stale = sheet.stale \cup {c}
           /\ sheet'.network >= sheet.network /\ sheet'.incidents >= sheet.incidents
           /\ sheet'.abuse >= sheet.abuse
  <1>. Penalties \subseteq Nat
       BY VerdictAssumption
  <1>0. /\ sheet.network \in Nat /\ sheet.incidents \in Nat /\ sheet.abuse \in Nat
        /\ sheet.boots \in Int /\ 0 <= sheet.boots /\ sheet.boots <= 2
    <2>1. /\ sheet.network \in Penalties /\ sheet.incidents \in Penalties
          /\ sheet.abuse \in Penalties /\ sheet.boots \in 0..2
          BY DEF Posture
    <2>2. /\ sheet.network \in Nat /\ sheet.incidents \in Nat /\ sheet.abuse \in Nat
          BY <2>1
    <2>3. PICK b \in 0..2 : b = sheet.boots
          BY <2>1
    <2>. QED BY <2>2, <2>3
  <1>1. CASE \E a \in {"expired", "failed", "unattested"} :
                sheet.attestation = "current" /\ sheet' = [sheet EXCEPT !.attestation = a]
        BY <1>0, <1>1 DEF Posture
  <1>2. CASE sheet.boots > 0 /\ sheet' = [sheet EXCEPT !.boots = @ - 1]
    <2>1. sheet.boots - 1 \in 0..2 /\ sheet.boots - 1 <= sheet.boots
          BY <1>0, <1>2
    <2>. QED BY <1>0, <1>2, <2>1 DEF Posture
  <1>3. CASE \E c \in DOMAIN StaleCost \ sheet.stale : sheet' = [sheet EXCEPT !.stale = @ \cup {c}]
    <2>1. PICK c \in DOMAIN StaleCost \ sheet.stale : sheet' = [sheet EXCEPT !.stale = @ \cup {c}]
          BY <1>3
    <2>2. sheet.stale \cup {c} \in SUBSET {"kernel", "agent", "runtime", "gpu"}
          BY DEF Posture, StaleCost
    <2>3. /\ sheet' \in Posture /\ sheet'.stale = sheet.stale \cup {c}
          /\ sheet'.attestation = sheet.attestation /\ sheet'.boots = sheet.boots
          /\ sheet'.network = sheet.network /\ sheet'.incidents = sheet.incidents
          /\ sheet'.abuse = sheet.abuse
          BY <2>1, <2>2 DEF Posture
    <2>. QED BY <1>0, <2>1, <2>3
  <1>4. CASE NumberRises(Penalties, {"network", "incidents", "abuse"})
    <2>1. PICK k \in {"network", "incidents", "abuse"}, n \in Penalties :
             n > sheet[k] /\ sheet' = [sheet EXCEPT ![k] = n]
          BY <1>4 DEF NumberRises
    <2>2. CASE k = "network"
          BY <1>0, <2>1, <2>2 DEF Posture
    <2>3. CASE k = "incidents"
          BY <1>0, <2>1, <2>3 DEF Posture
    <2>4. CASE k = "abuse"
          BY <1>0, <2>1, <2>4 DEF Posture
    <2>. QED BY <2>1, <2>2, <2>3, <2>4
  <1>. QED BY <1>1, <1>2, <1>3, <1>4 DEF PostureWorsens

LEMMA WorkloadMoves ==
    ASSUME WorkloadWorsens, sheet \in Workload
    PROVE  /\ sheet' \in Workload
           /\ sheet'.customer >= sheet.customer /\ sheet'.host >= sheet.host
           /\ sheet'.falco >= sheet.falco /\ sheet'.cve >= sheet.cve
           /\ sheet'.network >= sheet.network /\ sheet'.mining >= sheet.mining
  <1>. Risks \subseteq Nat /\ Counts \subseteq Nat
       BY VerdictAssumption
  <1>0. /\ sheet.customer \in Nat /\ sheet.host \in Nat /\ sheet.falco \in Nat
        /\ sheet.cve \in Nat /\ sheet.network \in Nat /\ sheet.mining \in Nat
        /\ 1 \in 0..1
    <2>1. /\ sheet.customer \in Risks /\ sheet.host \in Risks /\ sheet.falco \in Counts
          /\ sheet.cve \in Counts /\ sheet.network \in Counts /\ sheet.mining \in 0..1
          BY DEF Workload
    <2>2. /\ sheet.customer \in Nat /\ sheet.host \in Nat /\ sheet.falco \in Nat
          /\ sheet.cve \in Nat /\ sheet.network \in Nat
          BY <2>1
    <2>3. PICK b \in 0..1 : b = sheet.mining
          BY <2>1
    <2>. QED BY <2>2, <2>3
  <1>1. CASE NumberRises(Risks, {"customer", "host"})
    <2>1. PICK k \in {"customer", "host"}, n \in Risks :
             n > sheet[k] /\ sheet' = [sheet EXCEPT ![k] = n]
          BY <1>1 DEF NumberRises
    <2>2. CASE k = "customer"
          BY <1>0, <2>1, <2>2 DEF Workload
    <2>3. CASE k = "host"
          BY <1>0, <2>1, <2>3 DEF Workload
    <2>. QED BY <2>1, <2>2, <2>3
  <1>2. CASE NumberRises(Counts, {"falco", "cve", "network"})
    <2>1. PICK k \in {"falco", "cve", "network"}, n \in Counts :
             n > sheet[k] /\ sheet' = [sheet EXCEPT ![k] = n]
          BY <1>2 DEF NumberRises
    <2>2. CASE k = "falco"
          BY <1>0, <2>1, <2>2 DEF Workload
    <2>3. CASE k = "cve"
          BY <1>0, <2>1, <2>3 DEF Workload
    <2>4. CASE k = "network"
          BY <1>0, <2>1, <2>4 DEF Workload
    <2>. QED BY <2>1, <2>2, <2>3, <2>4
  <1>3. CASE NumberRises({1}, {"mining"})
    <2>1. 1 > sheet.mining /\ sheet' = [sheet EXCEPT !.mining = 1]
          BY <1>3 DEF NumberRises
    <2>. QED BY <1>0, <2>1 DEF Workload
  <1>. QED BY <1>1, <1>2, <1>3 DEF WorkloadWorsens

LEMMA ImageMoves ==
    ASSUME FindingAdded, sheet \in Findings
    PROVE  /\ sheet' \in Findings
           /\ sheet'.critical >= sheet.critical /\ sheet'.high >= sheet.high
           /\ sheet'.failed >= sheet.failed
  <1>. Counts \subseteq Nat
       BY VerdictAssumption
  <1>0. /\ sheet.critical \in Nat /\ sheet.high \in Nat /\ sheet.failed \in Nat /\ 1 \in 0..1
    <2>1. sheet.critical \in Counts /\ sheet.high \in Counts /\ sheet.failed \in 0..1
          BY DEF Findings
    <2>2. sheet.critical \in Nat /\ sheet.high \in Nat
          BY <2>1
    <2>3. PICK b \in 0..1 : b = sheet.failed
          BY <2>1
    <2>. QED BY <2>2, <2>3
  <1>1. CASE NumberRises(Counts, {"critical", "high"})
    <2>1. PICK k \in {"critical", "high"}, n \in Counts :
             n > sheet[k] /\ sheet' = [sheet EXCEPT ![k] = n]
          BY <1>1 DEF NumberRises
    <2>2. CASE k = "critical"
          BY <1>0, <2>1, <2>2 DEF Findings
    <2>3. CASE k = "high"
          BY <1>0, <2>1, <2>3 DEF Findings
    <2>. QED BY <2>1, <2>2, <2>3
  <1>2. CASE NumberRises({1}, {"failed"})
    <2>1. 1 > sheet.failed /\ sheet' = [sheet EXCEPT !.failed = 1]
          BY <1>2 DEF NumberRises
    <2>. QED BY <1>0, <2>1 DEF Findings
  <1>. QED BY <1>1, <1>2 DEF FindingAdded

LEMMA LaunchMoves ==
    ASSUME LaunchAsksMore, sheet \in Request
    PROVE  /\ sheet' \in Request
           /\ sheet'.vcpus >= sheet.vcpus /\ sheet'.vram >= sheet.vram
  <1>. Vcpus \subseteq Nat /\ Vram \subseteq Nat
       BY VerdictAssumption
  <1>0. sheet.vcpus \in Nat /\ sheet.vram \in Nat
        BY DEF Request
  <1>1. CASE NumberRises(Vcpus, {"vcpus"})
    <2>1. PICK n \in Vcpus : n > sheet.vcpus /\ sheet' = [sheet EXCEPT !.vcpus = n]
          BY <1>1 DEF NumberRises
    <2>. QED BY <1>0, <2>1 DEF Request
  <1>2. CASE NumberRises(Vram, {"vram"})
    <2>1. PICK n \in Vram : n > sheet.vram /\ sheet' = [sheet EXCEPT !.vram = n]
          BY <1>2 DEF NumberRises
    <2>. QED BY <1>0, <2>1 DEF Request
  <1>. QED BY <1>1, <1>2 DEF LaunchAsksMore

LEMMA VerdictStep == ASSUME VerdictInv, [VerdictNext]_verdictVars PROVE VerdictInv'
  <1>1. CASE PostureWorsens
    <2>1. verdict = "posture" /\ verdict' = "posture" /\ sheet \in Posture
          BY <1>1 DEF VerdictInv, VerdictTypeOK, PostureWorsens
    <2>. QED BY <1>1, <2>1, PostureMoves DEF VerdictInv, VerdictTypeOK
  <1>2. CASE WorkloadWorsens
    <2>1. verdict = "workload" /\ verdict' = "workload" /\ sheet \in Workload
          BY <1>2 DEF VerdictInv, VerdictTypeOK, WorkloadWorsens
    <2>. QED BY <1>2, <2>1, WorkloadMoves DEF VerdictInv, VerdictTypeOK
  <1>3. CASE FindingAdded
    <2>1. verdict = "image" /\ verdict' = "image" /\ sheet \in Findings
          BY <1>3 DEF VerdictInv, VerdictTypeOK, FindingAdded
    <2>. QED BY <1>3, <2>1, ImageMoves DEF VerdictInv, VerdictTypeOK
  <1>4. CASE LaunchAsksMore
    <2>1. verdict = "launch" /\ verdict' = "launch" /\ sheet \in Request
          BY <1>4 DEF VerdictInv, VerdictTypeOK, LaunchAsksMore
    <2>. QED BY <1>4, <2>1, LaunchMoves DEF VerdictInv, VerdictTypeOK
  <1>5. CASE UNCHANGED verdictVars
        BY <1>5 DEF VerdictInv, VerdictTypeOK, verdictVars
  <1>. QED BY <1>1, <1>2, <1>3, <1>4, <1>5 DEF VerdictNext

\* What a posture's terms are worth.
StalePoints(S) == SumFunctionOnSet(StaleCost, S)

LEMMA StaleIsCostly ==
    ASSUME NEW S \in SUBSET {"kernel", "agent", "runtime", "gpu"}
    PROVE  /\ StalePoints(S) \in Int
           /\ \A c \in DOMAIN StaleCost \ S :
                 StalePoints(S \cup {c}) \in Int /\ StalePoints(S) <= StalePoints(S \cup {c})
  <1>1. IsFiniteSet({"kernel", "agent", "runtime", "gpu"})
    <2>1. {"kernel", "agent", "runtime", "gpu"} = (({"kernel"} \cup {"agent"}) \cup {"runtime"}) \cup {"gpu"}
          OBVIOUS
    <2>2. IsFiniteSet({"kernel"} \cup {"agent"})
          BY FS_Singleton, FS_AddElement
    <2>3. IsFiniteSet(({"kernel"} \cup {"agent"}) \cup {"runtime"})
          BY <2>2, FS_AddElement
    <2>. QED BY <2>1, <2>3, FS_AddElement
  <1>2. IsFiniteSet(S)
        BY <1>1, FS_Subset
  <1>3. \A c \in {"kernel", "agent", "runtime", "gpu"} : StaleCost[c] \in Int /\ StaleCost[c] >= 0
        BY DEF StaleCost
  <1>4. DOMAIN StaleCost = {"kernel", "agent", "runtime", "gpu"}
        BY DEF StaleCost
  <1>5. StalePoints(S) \in Int
        BY <1>2, <1>3, SumType DEF StalePoints
  <1>6. ASSUME NEW c \in DOMAIN StaleCost \ S
        PROVE  StalePoints(S \cup {c}) \in Int /\ StalePoints(S) <= StalePoints(S \cup {c})
    <2>1. c \notin S /\ \A y \in S \cup {c} : StaleCost[y] \in Int
          BY <1>3, <1>4
    <2>2. StalePoints(S \cup {c}) = StalePoints(S) + StaleCost[c]
          BY ONLY <1>2, <2>1, SumAdd DEF StalePoints
    <2>3. StaleCost[c] \in Int /\ StaleCost[c] >= 0
          BY <1>3, <1>4
    <2>. QED BY ONLY <1>5, <2>2, <2>3
  <1>. QED BY <1>5, <1>6

LEMMA UnpenalisedFalls ==
    ASSUME NEW p \in Nat, NEW q \in Nat, p <= q
    PROVE  Unpenalised(p) \in Int /\ Unpenalised(q) \in Int /\ Unpenalised(q) <= Unpenalised(p)
  <1>1. PICK a, b \in Int : a = 100 - 10 * p /\ b = 100 - 10 * q /\ b <= a
        OBVIOUS
  <1>2. /\ Max({0, a}) \in Int /\ 0 <= Max({0, a}) /\ a <= Max({0, a})
        /\ Max({0, a}) = 0 \/ Max({0, a}) = a
        BY MaxTwo
  <1>3. /\ Max({0, b}) \in Int /\ 0 <= Max({0, b}) /\ b <= Max({0, b})
        /\ Max({0, b}) = 0 \/ Max({0, b}) = b
        BY MaxTwo
  <1>. QED BY <1>1, <1>2, <1>3 DEF Unpenalised

LEMMA HostTrustFalls ==
    ASSUME PostureWorsens, sheet \in Posture
    PROVE  /\ HostTrust(sheet) \in Int /\ HostTrust(sheet') \in Int
           /\ HostTrust(sheet') <= HostTrust(sheet)
  <1>1. /\ sheet' \in Posture
        /\ sheet'.attestation = sheet.attestation \/ sheet'.attestation # "current"
        /\ sheet'.boots <= sheet.boots
        /\ \/ sheet'.stale = sheet.stale
           \/ \E c \in DOMAIN StaleCost \ sheet.stale : sheet'.stale = sheet.stale \cup {c}
        /\ sheet'.network >= sheet.network /\ sheet'.incidents >= sheet.incidents
        /\ sheet'.abuse >= sheet.abuse
        BY PostureMoves
  <1>2. /\ sheet.network \in Nat /\ sheet.incidents \in Nat /\ sheet.abuse \in Nat
        /\ sheet'.network \in Nat /\ sheet'.incidents \in Nat /\ sheet'.abuse \in Nat
        BY <1>1, VerdictAssumption DEF Posture
  <1>3. PICK n1, n2, i1, i2, a1, a2 \in Int :
           /\ n1 = Unpenalised(sheet.network) /\ n2 = Unpenalised(sheet'.network)
           /\ i1 = Unpenalised(sheet.incidents) /\ i2 = Unpenalised(sheet'.incidents)
           /\ a1 = Unpenalised(sheet.abuse) /\ a2 = Unpenalised(sheet'.abuse)
           /\ n2 <= n1 /\ i2 <= i1 /\ a2 <= a1
        BY ZenonT(40), <1>1, <1>2, UnpenalisedFalls
  <1>4. PICK s1, s2 \in Int :
           /\ s1 = StalePoints(sheet.stale) /\ s2 = StalePoints(sheet'.stale) /\ s1 <= s2
    <2>1. sheet.stale \in SUBSET {"kernel", "agent", "runtime", "gpu"}
          BY DEF Posture
    <2>2. StalePoints(sheet.stale) \in Int
          BY <2>1, StaleIsCostly
    <2>3. StalePoints(sheet'.stale) \in Int /\ StalePoints(sheet.stale) <= StalePoints(sheet'.stale)
      <3>1. CASE sheet'.stale = sheet.stale
            BY <2>2, <3>1
      <3>2. CASE \E c \in DOMAIN StaleCost \ sheet.stale : sheet'.stale = sheet.stale \cup {c}
            BY <2>1, <3>2, StaleIsCostly
      <3>. QED BY <1>1, <3>1, <3>2
    <2>. QED BY <2>2, <2>3
  <1>5. PICK b1, b2 \in Int : b1 = sheet.boots /\ b2 = sheet'.boots /\ b2 <= b1
        BY <1>1 DEF Posture
  <1>6. PICK c1, c2 \in Int :
           /\ c1 = (IF sheet.attestation = "current" THEN 250 ELSE 0)
           /\ c2 = (IF sheet'.attestation = "current" THEN 250 ELSE 0)
           /\ c2 <= c1
        BY <1>1
  <1>7. /\ RawTrust(sheet) = c1 + 75 * b1 + 300 - s1 + n1 + i1 + a1
        /\ RawTrust(sheet') = c2 + 75 * b2 + 300 - s2 + n2 + i2 + a2
        BY <1>3, <1>4, <1>5, <1>6 DEF RawTrust, StalePoints
  <1>8. PICK x, y \in Int : x = RawTrust(sheet) /\ y = RawTrust(sheet') /\ y <= x
        BY <1>3, <1>4, <1>5, <1>6, <1>7
  <1>9. PICK k \in Int : k = 290
        OBVIOUS
  <1>10. PICK v, w \in Int : /\ v = Min({k, x}) /\ v <= k /\ v <= x /\ (v = k \/ v = x)
                             /\ w = Min({k, y}) /\ w <= k /\ w <= y /\ (w = k \/ w = y)
         BY MinTwo
  <1>11. /\ HostTrust(sheet) = IF sheet.attestation = "current" THEN x ELSE v
         /\ HostTrust(sheet') = IF sheet'.attestation = "current" THEN y ELSE w
         BY <1>8, <1>9, <1>10 DEF HostTrust
  <1>12. sheet'.attestation = "current" => sheet.attestation = "current"
         BY <1>1
  <1>. QED BY <1>8, <1>10, <1>11, <1>12

LEMMA BandFalls ==
    ASSUME NEW x \in Int, NEW y \in Int, y <= x
    PROVE  TrustBand(x) <= TrustBand(y)
  BY DEF TrustBand

\* What one kind of observation adds to a workload's risk, and what all of them add.
Capped(n, most, points) == Min({most, n}) * points

LEMMA CappedRises ==
    ASSUME NEW m \in Nat, NEW n \in Nat, m <= n, NEW most \in Nat, NEW points \in Nat
    PROVE  /\ Capped(m, most, points) \in Nat /\ Capped(n, most, points) \in Nat
           /\ Capped(m, most, points) <= Capped(n, most, points)
           /\ Capped(m, most, points) <= most * points
           /\ m = 0 => Capped(m, most, points) = 0
  <1>1. PICK a \in Nat : a = Min({most, m}) /\ a <= most /\ a <= m /\ (a = most \/ a = m)
        BY MinTwo
  <1>2. PICK b \in Nat : b = Min({most, n}) /\ b <= most /\ b <= n /\ (b = most \/ b = n)
        BY MinTwo
  <1>3. a <= b
        BY <1>1, <1>2
  <1>4. points * a \in Int /\ points * b \in Int /\ points * a <= points * b
        BY <1>3, MulMono
  <1>5. points * a <= points * most
        BY <1>1, MulMono
  <1>6. a * points = points * a /\ b * points = points * b /\ most * points = points * most
        OBVIOUS
  <1>7. a * points \in Nat /\ b * points \in Nat
        OBVIOUS
  <1>8. m = 0 => a * points = 0
    <2>1. m = 0 => a = 0
          BY <1>1
    <2>. QED BY <2>1
  <1>. QED BY <1>1, <1>2, <1>4, <1>5, <1>6, <1>7, <1>8 DEF Capped

\* The three kinds there are, at their caps and points.
LEMMA KindsRise ==
    ASSUME NEW m \in Nat, NEW n \in Nat, m <= n
    PROVE  /\ Capped(m, 10, 400) \in Nat /\ Capped(n, 10, 400) \in Nat
           /\ Capped(m, 10, 400) <= Capped(n, 10, 400) /\ Capped(m, 10, 400) <= 4000
           /\ m = 0 => Capped(m, 10, 400) = 0
           /\ Capped(m, 5, 600) \in Nat /\ Capped(n, 5, 600) \in Nat
           /\ Capped(m, 5, 600) <= Capped(n, 5, 600) /\ Capped(m, 5, 600) <= 3000
           /\ m = 0 => Capped(m, 5, 600) = 0
           /\ Capped(m, 10, 300) \in Nat /\ Capped(n, 10, 300) \in Nat
           /\ Capped(m, 10, 300) <= Capped(n, 10, 300) /\ Capped(m, 10, 300) <= 3000
           /\ m = 0 => Capped(m, 10, 300) = 0
  <1>1. PICK a, b, c, d, e \in Nat : a = 10 /\ b = 5 /\ c = 400 /\ d = 600 /\ e = 300
        OBVIOUS
  <1>2. /\ Capped(m, a, c) \in Nat /\ Capped(n, a, c) \in Nat
        /\ Capped(m, a, c) <= Capped(n, a, c) /\ Capped(m, a, c) <= a * c
        /\ m = 0 => Capped(m, a, c) = 0
        BY CappedRises
  <1>3. /\ Capped(m, b, d) \in Nat /\ Capped(n, b, d) \in Nat
        /\ Capped(m, b, d) <= Capped(n, b, d) /\ Capped(m, b, d) <= b * d
        /\ m = 0 => Capped(m, b, d) = 0
        BY CappedRises
  <1>4. /\ Capped(m, a, e) \in Nat /\ Capped(n, a, e) \in Nat
        /\ Capped(m, a, e) <= Capped(n, a, e) /\ Capped(m, a, e) <= a * e
        /\ m = 0 => Capped(m, a, e) = 0
        BY CappedRises
  <1>5. a * c = 4000 /\ b * d = 3000 /\ a * e = 3000
        BY <1>1
  <1>. QED BY <1>1, <1>2, <1>3, <1>4, <1>5

RiskSum(s) ==
    15 * s.customer + 15 * s.host + Capped(s.falco, 10, 400) + Capped(s.cve, 5, 600)
        + Capped(s.network, 10, 300) + 4000 * s.mining

LEMMA RiskIsMin == ASSUME NEW s PROVE RiskScore(s) = Min({10000, RiskSum(s)})
  BY DEF RiskScore, RiskSum, Alerts, Capped

LEMMA RiskIsCapped ==
    ASSUME NEW s \in Workload
    PROVE  /\ RiskSum(s) \in Nat /\ RiskScore(s) \in Int
           /\ RiskScore(s) <= RiskSum(s)
  <1>1. /\ s.customer \in Nat /\ s.host \in Nat /\ s.falco \in Nat /\ s.cve \in Nat
        /\ s.network \in Nat /\ s.mining \in Nat
        BY VerdictAssumption DEF Workload
  <1>2. /\ Capped(s.falco, 10, 400) \in Nat /\ Capped(s.cve, 5, 600) \in Nat
        /\ Capped(s.network, 10, 300) \in Nat
    <2>1. \A m \in Nat : /\ Capped(m, 10, 400) \in Nat /\ Capped(m, 5, 600) \in Nat
                         /\ Capped(m, 10, 300) \in Nat
          BY KindsRise
    <2>. QED BY <1>1, <2>1
  <1>3. RiskSum(s) \in Nat
    <2>1. PICK f, c, n \in Nat : /\ f = Capped(s.falco, 10, 400) /\ c = Capped(s.cve, 5, 600)
                                 /\ n = Capped(s.network, 10, 300)
          BY <1>2
    <2>. QED BY <1>1, <2>1 DEF RiskSum
  <1>4. RiskScore(s) = Min({10000, RiskSum(s)})
        BY RiskIsMin
  <1>5. PICK k, x \in Int : k = 10000 /\ x = RiskSum(s)
        BY <1>3
  <1>6. Min({k, x}) \in Int /\ Min({k, x}) <= x
        BY MinTwo
  <1>. QED BY <1>3, <1>4, <1>5, <1>6

LEMMA RiskRises ==
    ASSUME WorkloadWorsens, sheet \in Workload
    PROVE  /\ RiskScore(sheet) \in Int /\ RiskScore(sheet') \in Int
           /\ RiskScore(sheet) <= RiskScore(sheet')
  <1>1. /\ sheet' \in Workload
        /\ sheet'.customer >= sheet.customer /\ sheet'.host >= sheet.host
        /\ sheet'.falco >= sheet.falco /\ sheet'.cve >= sheet.cve
        /\ sheet'.network >= sheet.network /\ sheet'.mining >= sheet.mining
        BY WorkloadMoves
  <1>2. /\ sheet.customer \in Nat /\ sheet.host \in Nat /\ sheet.falco \in Nat
        /\ sheet.cve \in Nat /\ sheet.network \in Nat /\ sheet.mining \in Nat
        /\ sheet'.customer \in Nat /\ sheet'.host \in Nat /\ sheet'.falco \in Nat
        /\ sheet'.cve \in Nat /\ sheet'.network \in Nat /\ sheet'.mining \in Nat
        BY <1>1, VerdictAssumption DEF Workload
  <1>. DEFINE Rises(most, points, m, n) ==
                 /\ Capped(m, most, points) \in Nat /\ Capped(n, most, points) \in Nat
                 /\ Capped(m, most, points) <= Capped(n, most, points)
  <1>0. ASSUME NEW m \in Nat, NEW n \in Nat, n >= m
        PROVE  Rises(10, 400, m, n) /\ Rises(5, 600, m, n) /\ Rises(10, 300, m, n)
    <2>1. m <= n
          BY <1>0
    <2>. QED BY <2>1, KindsRise
  <1>. HIDE DEF Rises
  <1>3. PICK f, g \in Nat : /\ f = Capped(sheet.falco, 10, 400)
                            /\ g = Capped(sheet'.falco, 10, 400) /\ f <= g
    <2>1. Rises(10, 400, sheet.falco, sheet'.falco)
          BY <1>0, <1>1, <1>2
    <2>. QED BY <2>1 DEF Rises
  <1>4. PICK c, d \in Nat : /\ c = Capped(sheet.cve, 5, 600)
                            /\ d = Capped(sheet'.cve, 5, 600) /\ c <= d
    <2>1. Rises(5, 600, sheet.cve, sheet'.cve)
          BY <1>0, <1>1, <1>2
    <2>. QED BY <2>1 DEF Rises
  <1>5. PICK m, n \in Nat : /\ m = Capped(sheet.network, 10, 300)
                            /\ n = Capped(sheet'.network, 10, 300) /\ m <= n
    <2>1. Rises(10, 300, sheet.network, sheet'.network)
          BY <1>0, <1>1, <1>2
    <2>. QED BY <2>1 DEF Rises
  <1>6. PICK x, y \in Int : x = RiskSum(sheet) /\ y = RiskSum(sheet') /\ x <= y
        BY <1>1, <1>2, <1>3, <1>4, <1>5 DEF RiskSum
  <1>7. RiskScore(sheet) = Min({10000, x}) /\ RiskScore(sheet') = Min({10000, y})
        BY <1>6, RiskIsMin
  <1>8. PICK k \in Int : k = 10000
        OBVIOUS
  <1>9. PICK v, w \in Int : /\ v = Min({k, x}) /\ v <= k /\ v <= x
                            /\ w = Min({k, y}) /\ (w = k \/ w = y)
        BY MinTwo
  <1>. QED BY <1>6, <1>7, <1>8, <1>9

Steps == {2000, 4000, 6000, 8000}

LEMMA ResponseRises ==
    ASSUME NEW x \in Int, NEW y \in Int, x <= y
    PROVE  /\ Response(x) \in Int /\ Response(x) <= Response(y)
           /\ x < 6000 => Response(x) < 3
  <1>. DEFINE R(z) == {t \in Steps : z >= t}
  <1>1. IsFiniteSet({2000, 4000}) /\ Cardinality({2000, 4000}) = 2
    <2>1. {2000, 4000} = {2000} \cup {4000}
          OBVIOUS
    <2>2. PICK a, b \in Int : a = 2000 /\ b = 4000
          OBVIOUS
    <2>3. IsFiniteSet({a}) /\ Cardinality({a}) = 1
          BY FS_Singleton
    <2>4. b \notin {a}
          BY <2>2
    <2>5. IsFiniteSet({a} \cup {b}) /\ Cardinality({a} \cup {b}) = Cardinality({a}) + 1
          BY ONLY <2>3, <2>4, FS_AddElement
    <2>. QED BY <2>1, <2>2, <2>3, <2>5
  <1>2. IsFiniteSet(Steps)
    <2>1. Steps = ({2000, 4000} \cup {6000}) \cup {8000}
          BY DEF Steps
    <2>2. IsFiniteSet({2000, 4000} \cup {6000})
          BY <1>1, FS_AddElement
    <2>. QED BY <2>1, <2>2, FS_AddElement
  <1>3. \A z \in Int : Response(z) = Cardinality(R(z))
        BY DEF Response, Steps
  <1>4. IsFiniteSet(R(x)) /\ IsFiniteSet(R(y)) /\ R(x) \subseteq R(y)
    <2>1. IsFiniteSet(R(x)) /\ IsFiniteSet(R(y))
          BY <1>2, FS_Subset
    <2>2. R(x) \subseteq R(y)
          BY DEF Steps
    <2>. QED BY <2>1, <2>2
  <1>5. Cardinality(R(x)) \in Nat /\ Cardinality(R(x)) <= Cardinality(R(y))
    <2>. HIDE DEF R
    <2>. QED BY <1>4, FS_Subset, FS_CardinalityType
  <1>6. ASSUME x < 6000 PROVE Cardinality(R(x)) < 3
    <2>1. R(x) \subseteq {2000, 4000}
          BY <1>6 DEF Steps
    <2>2. Cardinality(R(x)) <= 2
      <3>. HIDE DEF R
      <3>. QED BY <1>1, <2>1, FS_Subset
    <2>. QED BY <1>5, <2>2
  <1>. QED BY <1>3, <1>5, <1>6

LEMMA TwoReasons ==
    ASSUME sheet \in Workload, Response(RiskScore(sheet)) >= 3
    PROVE  Cardinality({k \in DOMAIN sheet : sheet[k] > 0}) >= 2
  <1>1. /\ sheet.customer \in Nat /\ sheet.host \in Nat /\ sheet.falco \in Nat
        /\ sheet.cve \in Nat /\ sheet.network \in Nat /\ sheet.mining \in Nat
        /\ sheet.mining <= 1 /\ sheet.customer <= 100 /\ sheet.host <= 100
        /\ DOMAIN sheet = {"customer", "host", "falco", "cve", "network", "mining"}
        BY VerdictAssumption DEF Workload
  <1>2. PICK f \in Nat : /\ f = Capped(sheet.falco, 10, 400) /\ f <= 4000
                         /\ sheet.falco = 0 => f = 0
        BY <1>1, KindsRise
  <1>3. PICK c \in Nat : /\ c = Capped(sheet.cve, 5, 600) /\ c <= 3000
                         /\ sheet.cve = 0 => c = 0
        BY <1>1, KindsRise
  <1>4. PICK n \in Nat : /\ n = Capped(sheet.network, 10, 300) /\ n <= 3000
                         /\ sheet.network = 0 => n = 0
        BY <1>1, KindsRise
  <1>5. RiskSum(sheet) >= 6000
    <2>1. RiskScore(sheet) \in Int /\ RiskSum(sheet) \in Nat /\ RiskScore(sheet) <= RiskSum(sheet)
          BY RiskIsCapped
    <2>2. PICK x \in Int : x = RiskScore(sheet)
          BY <2>1
    <2>3. Response(x) \in Int /\ (x < 6000 => Response(x) < 3) /\ Response(x) >= 3
          BY <2>2, ResponseRises
    <2>4. x >= 6000
          BY <2>3
    <2>. QED BY <2>1, <2>2, <2>4
  <1>6. 15 * sheet.customer + 15 * sheet.host + f + c + n + 4000 * sheet.mining >= 6000
        BY <1>2, <1>3, <1>4, <1>5 DEF RiskSum
  <1>7. PICK a, b \in DOMAIN sheet : a # b /\ sheet[a] > 0 /\ sheet[b] > 0
    <2>1. \/ sheet.customer > 0 /\ sheet.host > 0
          \/ sheet.customer > 0 /\ sheet.falco > 0
          \/ sheet.customer > 0 /\ sheet.cve > 0
          \/ sheet.customer > 0 /\ sheet.network > 0
          \/ sheet.customer > 0 /\ sheet.mining > 0
          \/ sheet.host > 0 /\ sheet.falco > 0
          \/ sheet.host > 0 /\ sheet.cve > 0
          \/ sheet.host > 0 /\ sheet.network > 0
          \/ sheet.host > 0 /\ sheet.mining > 0
          \/ sheet.falco > 0 /\ sheet.cve > 0
          \/ sheet.falco > 0 /\ sheet.network > 0
          \/ sheet.falco > 0 /\ sheet.mining > 0
          \/ sheet.cve > 0 /\ sheet.network > 0
          \/ sheet.cve > 0 /\ sheet.mining > 0
          \/ sheet.network > 0 /\ sheet.mining > 0
          BY ONLY <1>1, <1>2, <1>3, <1>4, <1>6
    <2>. QED BY <1>1, <2>1
  <1>. DEFINE S == {k \in DOMAIN sheet : sheet[k] > 0}
  <1>8. IsFiniteSet(S)
    <2>1. /\ DOMAIN sheet = (((({"customer"} \cup {"host"}) \cup {"falco"}) \cup {"cve"})
                                \cup {"network"}) \cup {"mining"}
          BY <1>1
    <2>2. IsFiniteSet(({"customer"} \cup {"host"}) \cup {"falco"})
          BY FS_Singleton, FS_AddElement
    <2>3. IsFiniteSet((({"customer"} \cup {"host"}) \cup {"falco"}) \cup {"cve"})
          BY <2>2, FS_AddElement
    <2>4. IsFiniteSet(((({"customer"} \cup {"host"}) \cup {"falco"}) \cup {"cve"}) \cup {"network"})
          BY <2>3, FS_AddElement
    <2>5. IsFiniteSet(DOMAIN sheet)
          BY <2>1, <2>4, FS_AddElement
    <2>. QED BY <2>5, FS_Subset
  <1>9. IsFiniteSet({a} \cup {b}) /\ Cardinality({a} \cup {b}) = 2
    <2>1. IsFiniteSet({a}) /\ Cardinality({a}) = 1
          BY FS_Singleton
    <2>2. IsFiniteSet({a} \cup {b}) /\ Cardinality({a} \cup {b}) = Cardinality({a}) + 1
          BY <1>7, <2>1, FS_AddElement
    <2>. QED BY <2>1, <2>2
  <1>10. {a} \cup {b} \subseteq S
         BY <1>7
  <1>11. Cardinality({a} \cup {b}) <= Cardinality(S) /\ Cardinality(S) \in Nat
    <2>. HIDE DEF S
    <2>. QED BY <1>8, <1>10, FS_Subset, FS_CardinalityType
  <1>. HIDE DEF S
  <1>12. Cardinality(S) >= 2
         BY <1>9, <1>11
  <1>. QED BY <1>12 DEF S

LEMMA AnswersWorsen ==
    ASSUME VerdictInv, VerdictNext
    PROVE  CASE verdict = "posture"  -> TrustBand(HostTrust(sheet)) <= TrustBand(HostTrust(sheet'))
             [] verdict = "workload" -> Response(RiskScore(sheet)) <= Response(RiskScore(sheet'))
             [] verdict = "image"    -> \A t \in DOMAIN SEVERITY_ORDER :
                                           Blocked(sheet, t) => Blocked(sheet', t)
             [] verdict = "launch"   -> \A t \in Tiers : Admitted(t, sheet') => Admitted(t, sheet)
  <1>1. CASE PostureWorsens
    <2>1. verdict = "posture" /\ sheet \in Posture
          BY <1>1 DEF VerdictInv, VerdictTypeOK, PostureWorsens
    <2>2. TrustBand(HostTrust(sheet)) <= TrustBand(HostTrust(sheet'))
          BY <1>1, <2>1, HostTrustFalls, BandFalls
    <2>. QED BY <2>1, <2>2
  <1>2. CASE WorkloadWorsens
    <2>1. verdict = "workload" /\ sheet \in Workload
          BY <1>2 DEF VerdictInv, VerdictTypeOK, WorkloadWorsens
    <2>2. Response(RiskScore(sheet)) <= Response(RiskScore(sheet'))
          BY <1>2, <2>1, RiskRises, ResponseRises
    <2>. QED BY <2>1, <2>2
  <1>3. CASE FindingAdded
    <2>1. verdict = "image" /\ sheet \in Findings
          BY <1>3 DEF VerdictInv, VerdictTypeOK, FindingAdded
    <2>2. /\ sheet' \in Findings
          /\ sheet'.critical >= sheet.critical /\ sheet'.high >= sheet.high
          /\ sheet'.failed >= sheet.failed
          BY <1>3, <2>1, ImageMoves
    <2>3. /\ sheet.critical \in Nat /\ sheet.high \in Nat /\ sheet.failed \in {0, 1}
          /\ sheet'.critical \in Nat /\ sheet'.high \in Nat /\ sheet'.failed \in {0, 1}
          BY <2>1, <2>2, VerdictAssumption DEF Findings
    <2>4. Worst(sheet) \in Nat /\ Worst(sheet') \in Nat /\ Worst(sheet) <= Worst(sheet')
          BY <2>2, <2>3 DEF Worst
    <2>5. DOMAIN SEVERITY_ORDER = {1, 2, 3, 4, 5}
          BY DEF SEVERITY_ORDER
    <2>6. ASSUME NEW t \in DOMAIN SEVERITY_ORDER, Blocked(sheet, t) PROVE Blocked(sheet', t)
      <3>1. t \in Int
            BY <2>5
      <3>2. CASE sheet.failed = 1
            BY <2>2, <2>3, <3>2 DEF Blocked
      <3>3. CASE Worst(sheet) >= t /\ sheet.critical + sheet.high > 0
        <4>1. Worst(sheet') >= t
              BY <2>4, <3>1, <3>3
        <4>2. sheet'.critical + sheet'.high > 0
              BY <2>2, <2>3, <3>3
        <4>. QED BY <4>1, <4>2 DEF Blocked
      <3>. QED BY <2>6, <3>2, <3>3 DEF Blocked
    <2>. QED BY <2>1, <2>6
  <1>4. CASE LaunchAsksMore
    <2>1. verdict = "launch" /\ sheet \in Request
          BY <1>4 DEF VerdictInv, VerdictTypeOK, LaunchAsksMore
    <2>2. sheet' \in Request /\ sheet'.vcpus >= sheet.vcpus /\ sheet'.vram >= sheet.vram
          BY <1>4, <2>1, LaunchMoves
    <2>3. /\ sheet.vcpus \in Nat /\ sheet.vram \in Nat
          /\ sheet'.vcpus \in Nat /\ sheet'.vram \in Nat
          BY <2>1, <2>2, VerdictAssumption DEF Request
    <2>4. ASSUME NEW t \in Tiers, Admitted(t, sheet') PROVE Admitted(t, sheet)
          BY <2>2, <2>3, <2>4 DEF Admitted, VcpuCap, VramCap
    <2>. QED BY <2>1, <2>4
  <1>. QED BY <1>1, <1>2, <1>3, <1>4 DEF VerdictNext

LEMMA ScalesHold == ASSUME VerdictInv PROVE ScalesAreOrdered
  <1>1. ASSUME verdict = "launch", NEW t \in Tiers, NEW u \in Tiers, t <= u, Admitted(t, sheet)
        PROVE  Admitted(u, sheet)
    <2>1. sheet.vcpus \in Nat /\ sheet.vram \in Nat
          BY <1>1, VerdictAssumption DEF VerdictInv, VerdictTypeOK, Request
    <2>2. t \in {0, 1, 2, 3} /\ u \in {0, 1, 2, 3}
          BY DEF Tiers
    <2>. QED BY <1>1, <2>1, <2>2 DEF Admitted, VcpuCap, VramCap, GpuRefused
  <1>2. ASSUME verdict = "image", NEW t \in DOMAIN SEVERITY_ORDER,
               NEW u \in DOMAIN SEVERITY_ORDER, t <= u, Blocked(sheet, u)
        PROVE  Blocked(sheet, t)
    <2>1. sheet \in Findings
          BY <1>2 DEF VerdictInv, VerdictTypeOK
    <2>2. Worst(sheet) \in Int
          BY DEF Worst
    <2>3. t \in {1, 2, 3, 4, 5} /\ u \in {1, 2, 3, 4, 5}
          BY DEF SEVERITY_ORDER
    <2>. QED BY <1>2, <2>2, <2>3 DEF Blocked
  <1>. QED BY <1>1, <1>2 DEF ScalesAreOrdered

\* In SecurityVerdicts every variable keeps its type, only two reasons suspend a workload,
\* the scales keep their order, and what is worse is never answered more mildly.
THEOREM VerdictsAreSafe ==
    VerdictSpec => /\ [](VerdictTypeOK /\ SuspendedForTwoReasons /\ ScalesAreOrdered)
                   /\ WorseIsNeverMilder
  <1>1. ASSUME VerdictInv PROVE VerdictTypeOK /\ SuspendedForTwoReasons /\ ScalesAreOrdered
    <2>1. verdict = "workload" => sheet \in Workload
          BY <1>1 DEF VerdictInv, VerdictTypeOK
    <2>2. SuspendedForTwoReasons
          BY <2>1, TwoReasons DEF SuspendedForTwoReasons
    <2>. QED BY <1>1, <2>2, ScalesHold DEF VerdictInv
  <1>2. VerdictInv /\ [VerdictNext]_verdictVars =>
           [CASE verdict = "posture"  -> TrustBand(HostTrust(sheet)) <= TrustBand(HostTrust(sheet'))
              [] verdict = "workload" -> Response(RiskScore(sheet)) <= Response(RiskScore(sheet'))
              [] verdict = "image"    -> \A t \in DOMAIN SEVERITY_ORDER :
                                            Blocked(sheet, t) => Blocked(sheet', t)
              [] verdict = "launch"   -> \A t \in Tiers : Admitted(t, sheet') => Admitted(t, sheet)
           ]_verdictVars
        BY AnswersWorsen
  <1>. QED BY <1>1, <1>2, VerdictInitInv, VerdictStep, PTL DEF VerdictSpec, WorseIsNeverMilder

-----------------------------------------------------------------------------
(* BenchmarkScores *)

\* A composite of parts lies between the least and the greatest part there is.
PartsOf(part) == {part[k] : k \in DOMAIN part} \ {NoScore}

MeanOK(part, mean) ==
    /\ PartsOf(part) = {} => mean = NoScore
    /\ PartsOf(part) # {} => /\ mean \in Int
                             /\ \A low \in Int : (\A x \in PartsOf(part) : low <= x) => low <= mean
                             /\ \A high \in Int : (\A x \in PartsOf(part) : x <= high) => mean <= high

LEMMA WeightedMean ==
    ASSUME NEW weights, NEW part, IsFiniteSet(DOMAIN part),
           \A k \in DOMAIN part : /\ weights[k] \in Nat /\ weights[k] > 0
                                  /\ part[k] \in Int \/ part[k] = NoScore
    PROVE  MeanOK(part, Weighted(weights, part))
  <1>. DEFINE P == {k \in DOMAIN part : part[k] # NoScore}
              f == [k \in P |-> weights[k] * part[k]]
  <1>1. NoScore \notin Int
        BY BenchAssumption
  <1>2. IsFiniteSet(P)
        BY FS_Subset
  <1>3. PartsOf(part) = {part[k] : k \in P}
        BY DEF PartsOf
  <1>4. CASE P = {}
    <2>1. PartsOf(part) = {} /\ Weighted(weights, part) = NoScore
          BY <1>3, <1>4 DEF Weighted
    <2>. QED BY <2>1 DEF MeanOK
  <1>5. CASE P # {}
    <2>1. Weighted(weights, part) = SumFunctionOnSet(f, P) \div SumFunctionOnSet(weights, P)
          BY <1>5 DEF Weighted
    <2>2. PartsOf(part) # {}
          BY <1>3, <1>5
    <2>3. \A k \in P : /\ weights[k] \in Nat /\ weights[k] > 0 /\ part[k] \in Int
                       /\ f[k] = weights[k] * part[k] /\ f[k] \in Int
          OBVIOUS
    <2>. HIDE DEF f
    <2>4. PICK a \in Int : a = SumFunctionOnSet(f, P)
      <3>. HIDE DEF P
      <3>. QED BY <1>2, <2>3, SumType
    <2>5. PICK b \in Nat : b = SumFunctionOnSet(weights, P) /\ b > 0
      <3>1. PICK x \in P : TRUE
            BY <1>5
      <3>. HIDE DEF P
      <3>2. \A k \in P : weights[k] \in Int
            BY <2>3
      <3>3. SumFunctionOnSet(weights, P) = weights[x] + SumFunctionOnSet(weights, P \ {x})
            BY <1>2, <3>2, SumRemove
      <3>4. IsFiniteSet(P \ {x})
            BY <1>2, FS_Subset
      <3>5. SumFunctionOnSet(weights, P \ {x}) \in Nat
            BY <2>3, <3>4, SumNat
      <3>6. weights[x] \in Nat /\ weights[x] > 0
            BY <2>3
      <3>. QED BY ONLY <3>3, <3>5, <3>6
    <2>6. ASSUME NEW low \in Int, \A x \in PartsOf(part) : low <= x
          PROVE  low * b <= a
      <3>1. ASSUME NEW k \in P PROVE low * weights[k] <= f[k]
        <4>1. low <= part[k] /\ part[k] \in Int /\ weights[k] \in Nat
              BY <1>3, <2>3, <2>6
        <4>2. weights[k] * low <= weights[k] * part[k]
              BY ONLY <4>1, low \in Int, MulMono
        <4>3. low * weights[k] = weights[k] * low
              BY <4>1
        <4>. QED BY <2>3, <4>2, <4>3
      <3>. DEFINE g == [k \in P |-> low * weights[k]]
      <3>2. \A k \in P : /\ g[k] \in Int /\ f[k] \in Int /\ weights[k] \in Int
                         /\ g[k] <= f[k]
            BY <2>3, <3>1
      <3>. HIDE DEF P
      <3>3. SumFunctionOnSet(g, P) = low * SumFunctionOnSet(weights, P)
            BY <1>2, <3>2, SumTimes
      <3>. HIDE DEF g
      <3>4. SumFunctionOnSet(g, P) <= SumFunctionOnSet(f, P)
            BY <1>2, <3>2, SumOrdered
      <3>. QED BY <2>4, <2>5, <3>3, <3>4
    <2>7. ASSUME NEW high \in Int, \A x \in PartsOf(part) : x <= high
          PROVE  a <= high * b
      <3>1. ASSUME NEW k \in P PROVE f[k] <= high * weights[k]
        <4>1. part[k] <= high /\ part[k] \in Int /\ weights[k] \in Nat
              BY <1>3, <2>3, <2>7
        <4>2. weights[k] * part[k] <= weights[k] * high
              BY ONLY <4>1, high \in Int, MulMono
        <4>3. high * weights[k] = weights[k] * high
              BY <4>1
        <4>. QED BY <2>3, <4>2, <4>3
      <3>. DEFINE g == [k \in P |-> high * weights[k]]
      <3>2. \A k \in P : /\ g[k] \in Int /\ f[k] \in Int /\ weights[k] \in Int
                         /\ f[k] <= g[k]
            BY <2>3, <3>1
      <3>. HIDE DEF P
      <3>3. SumFunctionOnSet(g, P) = high * SumFunctionOnSet(weights, P)
            BY <1>2, <3>2, SumTimes
      <3>. HIDE DEF g
      <3>4. SumFunctionOnSet(f, P) <= SumFunctionOnSet(g, P)
            BY <1>2, <3>2, SumOrdered
      <3>. QED BY <2>4, <2>5, <3>3, <3>4
    <2>8. PICK q \in Int : q = a \div b
          BY <2>5, DivBounds
    <2>9. Weighted(weights, part) = q
          BY <2>1, <2>4, <2>5, <2>8
    <2>10. ASSUME NEW low \in Int, \A x \in PartsOf(part) : low <= x PROVE low <= q
           BY <2>5, <2>6, <2>8, <2>10, DivAbove
    <2>11. ASSUME NEW high \in Int, \A x \in PartsOf(part) : x <= high PROVE q <= high
           BY <2>5, <2>7, <2>8, <2>11, DivBelow
    <2>. QED BY <2>2, <2>9, <2>10, <2>11 DEF MeanOK
  <1>. QED BY <1>4, <1>5

\* The extremes of a finite set of numbers, in the form this module finds them.
LEMMA Extremes ==
    ASSUME NEW S, S \subseteq Int, IsFiniteSet(S), S # {}
    PROVE  /\ Lowest(S) \in S /\ \A y \in S : Lowest(S) <= y
           /\ Highest(S) \in S /\ \A y \in S : Highest(S) >= y
  <1>1. \E x \in S : \A y \in S : x <= y
    <2>1. Min(S) \in S /\ \A y \in S : y >= Min(S)
          BY MinOf
    <2>2. PICK k \in S : k = Min(S)
          BY <2>1
    <2>3. ASSUME NEW y \in S PROVE k <= y
      <3>1. k \in Int /\ y \in Int /\ y >= k
            BY <2>1, <2>2
      <3>. QED BY ONLY <3>1
    <2>. QED BY <2>3
  <1>2. \E x \in S : \A y \in S : x >= y
    <2>1. Max(S) \in S /\ \A y \in S : y <= Max(S)
          BY MaxOf
    <2>2. PICK k \in S : k = Max(S)
          BY <2>1
    <2>3. ASSUME NEW y \in S PROVE k >= y
      <3>1. k \in Int /\ y \in Int /\ y <= k
            BY <2>1, <2>2
      <3>. QED BY ONLY <3>1
    <2>. QED BY <2>3
  <1>. QED BY <1>1, <1>2 DEF Lowest, Highest

-----------------------------------------------------------------------------
(* The sessions at a step, counted *)

StepIs(b, st) == {t \in BenchSessions : b[t].step = st}

LEMMA StepIsFinite == ASSUME NEW b, NEW st PROVE IsFiniteSet(StepIs(b, st)) /\ Cardinality(StepIs(b, st)) \in Nat
  <1>1. IsFiniteSet(StepIs(b, st))
        BY BenchAssumption, FS_Subset DEF StepIs
  <1>. QED BY <1>1, FS_CardinalityType

LEMMA StepIsMore ==
    ASSUME NEW b, NEW c, NEW st, NEW s \in BenchSessions,
           \A t \in BenchSessions \ {s} : c[t] = b[t], b[s].step # st, c[s].step = st
    PROVE  Cardinality(StepIs(c, st)) = Cardinality(StepIs(b, st)) + 1
  <1>1. StepIs(c, st) = StepIs(b, st) \cup {s} /\ s \notin StepIs(b, st)
        BY DEF StepIs
  <1>. QED BY ZenonT(40), <1>1, StepIsFinite, FS_AddElement

LEMMA StepIsLess ==
    ASSUME NEW b, NEW c, NEW st, NEW s \in BenchSessions,
           \A t \in BenchSessions \ {s} : c[t] = b[t], b[s].step = st, c[s].step # st
    PROVE  Cardinality(StepIs(c, st)) = Cardinality(StepIs(b, st)) - 1
  <1>1. StepIs(c, st) = StepIs(b, st) \ {s} /\ s \in StepIs(b, st)
        BY DEF StepIs
  <1>. QED BY ZenonT(40), <1>1, StepIsFinite, FS_RemoveElement

LEMMA StepIsSame ==
    ASSUME NEW b, NEW c, NEW st, NEW s \in BenchSessions,
           \A t \in BenchSessions \ {s} : c[t] = b[t], b[s].step # st, c[s].step # st
    PROVE  StepIs(c, st) = StepIs(b, st)
  BY DEF StepIs

-----------------------------------------------------------------------------
(* The inductive invariant *)

Accepted(m) == {r \in runs : m \in DOMAIN r.value /\ m \notin r.flags}

RunOK(r) ==
    /\ r.id \in Nat /\ 1 <= r.id /\ r.id <= Cardinality(runs)
    /\ r.host \in BenchHosts /\ r.value \in Suites /\ r.flags \subseteq DOMAIN r.value

JudgedOK(x) == x.host \in BenchHosts /\ x.value \in Suites /\ x.flags \subseteq DOMAIN x.value

IdOf(id, h) ==
    /\ id \in Nat /\ id <= Cardinality(runs)
    /\ \A r \in runs : r.id = id => r.host = h

PartsOK(part) ==
    IsFiniteSet(DOMAIN part) /\ \A k \in DOMAIN part : part[k] \in Int \/ part[k] = NoScore

\* A score is that of the latest of the suites that were stored when it was read.
ScoreOK(sc) ==
    /\ sc.since \in Nat /\ sc.since <= Cardinality(runs)
    /\ sc.run \in Nat /\ sc.run <= Cardinality(runs)
    /\ sc.run = 0 \/ \E q \in runs : q.id = sc.run /\ q.host = sc.host
    /\ \A q \in runs : q.host = sc.host /\ q.id <= sc.since => q.id <= sc.run
    /\ PartsOK(sc.part) /\ MeanOK(sc.part, sc.composite)

SessionInv(s) ==
    LET x == bench[s] IN
    \/ x = Idle
    \/ x.step = "judged" /\ JudgedOK(x)
    \/ x.step = "stored" /\ x.host \in BenchHosts /\ IdOf(x.id, x.host)
    \/ x.step = "scored" /\ IdOf(x.id, x.score.host) /\ ScoreOK(x.score)

HasOpen(r) == \E s \in BenchSessions : bench[s].step \in {"stored", "scored"} /\ bench[s].id = r.id

\* A suite that is the host's last has been scored, is being scored, or failed to be.
ScoredInv(r) ==
    \/ \E q \in RunsOf(r.host) : q.id > r.id
    \/ r.id \in unscored
    \/ HasOpen(r)
    \/ \E p \in scores : p.score.host = r.host

RunsInv ==
    /\ IsFiniteSet(runs) /\ Cardinality(runs) + Cardinality(StepIs(bench, "judged")) <= MaxRuns
    /\ \A r \in runs : RunOK(r) /\ ScoredInv(r)

ScoresInv ==
    /\ IsFiniteSet(scores) /\ Cardinality(scores) + Cardinality(StepIs(bench, "scored")) <= MaxScores
    /\ \A p \in scores : /\ p.at \in Nat /\ 1 <= p.at /\ p.at <= Cardinality(scores)
                         /\ ScoreOK(p.score)

BenchInv ==
    /\ DOMAIN ranges \subseteq Metrics /\ \A m \in DOMAIN ranges : ranges[m] \in Nat \X Nat
    /\ DOMAIN bench = BenchSessions
    /\ \A s \in BenchSessions : SessionInv(s)
    /\ RunsInv /\ ScoresInv
    /\ \A i \in unscored : i \in Nat /\ 1 <= i /\ i <= MaxRuns

LEMMA BenchInitInv == BenchInit => BenchInv
  <1>. SUFFICES ASSUME BenchInit PROVE BenchInv
       OBVIOUS
  <1>1. /\ runs = {} /\ scores = {} /\ unscored = {}
        /\ bench = [s \in BenchSessions |-> Idle]
        BY DEF BenchInit
  <1>2. PICK ms \in SUBSET Metrics : ranges \in [ms -> AdminRanges]
        BY DEF BenchInit
  <1>3. DOMAIN ranges \subseteq Metrics /\ \A m \in DOMAIN ranges : ranges[m] \in Nat \X Nat
        BY <1>2, BenchAssumption
  <1>4. StepIs(bench, "judged") = {} /\ StepIs(bench, "scored") = {}
        BY <1>1 DEF StepIs, Idle
  <1>5. Cardinality(runs) = 0 /\ Cardinality(scores) = 0 /\ IsFiniteSet(runs) /\ IsFiniteSet(scores)
        /\ Cardinality(StepIs(bench, "judged")) = 0 /\ Cardinality(StepIs(bench, "scored")) = 0
        BY <1>1, <1>4, FS_EmptySet
  <1>6. RunsInv
    <2>1. Cardinality(runs) + Cardinality(StepIs(bench, "judged")) <= MaxRuns
          BY <1>5, BenchAssumption
    <2>. QED BY <1>1, <1>5, <2>1 DEF RunsInv
  <1>7. ScoresInv
    <2>1. Cardinality(scores) + Cardinality(StepIs(bench, "scored")) <= MaxScores
          BY <1>5, BenchAssumption
    <2>. QED BY <1>1, <1>5, <2>1 DEF ScoresInv
  <1>. QED BY <1>1, <1>3, <1>6, <1>7 DEF BenchInv, SessionInv

-----------------------------------------------------------------------------
(* A suite is judged *)

LEMMA PeersAreNumbers ==
    ASSUME NEW m, m \in Metrics, IsFiniteSet(runs), \A r \in runs : r.value \in Suites
    PROVE  PeerValues(m) \subseteq Nat /\ IsFiniteSet(PeerValues(m))
  <1>1. PeerValues(m) = {r.value[m] : r \in Accepted(m)}
        BY DEF PeerValues, Accepted
  <1>2. IsFiniteSet(Accepted(m))
        BY FS_Subset DEF Accepted
  <1>3. \A r \in Accepted(m) : r.value[m] \in Nat
        BY BenchAssumption DEF Accepted
  <1>. DEFINE f == [r \in Accepted(m) |-> r.value[m]]
  <1>4. f \in [Accepted(m) -> Nat] /\ PeerValues(m) = {f[r] : r \in Accepted(m)}
        BY <1>1, <1>3
  <1>. HIDE DEF f
  <1>5. IsFiniteSet({f[r] : r \in Accepted(m)})
        BY <1>2, <1>4, FiniteImage
  <1>. QED BY <1>1, <1>3, <1>4, <1>5

\* What a step keeps that stores no suite.
LEMMA RunsKept ==
    ASSUME BenchInv, UNCHANGED <<ranges, runs>>
    PROVE  /\ \A r \in runs : RunOK(r)'
           /\ \A x : (JudgedOK(x) => JudgedOK(x)') /\ (ScoreOK(x) => ScoreOK(x)')
           /\ \A id, h : IdOf(id, h) => IdOf(id, h)'
           /\ \A s \in BenchSessions : bench'[s] = bench[s] => SessionInv(s)'
  <1>1. \A r \in runs : RunOK(r)'
        BY DEF BenchInv, RunsInv, RunOK
  <1>4. \A x : JudgedOK(x) => JudgedOK(x)'
        BY DEF JudgedOK
  <1>5. \A x : ScoreOK(x) => ScoreOK(x)'
        BY DEF ScoreOK
  <1>6. \A id, h : IdOf(id, h) => IdOf(id, h)'
        BY DEF IdOf
  <1>7. ASSUME NEW s \in BenchSessions, bench'[s] = bench[s] PROVE SessionInv(s)'
    <2>1. SessionInv(s)
          BY DEF BenchInv
    <2>. QED BY <1>4, <1>5, <1>6, <1>7, <2>1 DEF SessionInv
  <1>. QED BY <1>1, <1>4, <1>5, <1>6, <1>7

LEMMA BenchJudges ==
    ASSUME BenchInv, NEW s \in BenchSessions, NEW h \in BenchHosts, NEW v \in Suites,
           JudgeRun(s, h, v)
    PROVE  BenchInv'
  <1>. DEFINE x == [step |-> "judged", host |-> h, value |-> v,
                    flags |-> {m \in DOMAIN v : Flagged(m, v[m])}]
  <1>1. /\ bench[s] = Idle /\ bench' = [bench EXCEPT ![s] = x]
        /\ Cardinality(runs) + Cardinality(StepIs(bench, "judged")) < MaxRuns
        /\ UNCHANGED <<ranges, runs, scores, unscored>>
        BY DEF JudgeRun, StepIs
  <1>0. JudgedOK(x) /\ x.step = "judged"
        BY DEF JudgedOK
  <1>2. PICK y : y = x /\ JudgedOK(y) /\ y.step = "judged"
    <2>. HIDE DEF x
    <2>. QED BY <1>0
  <1>. HIDE DEF x
  <1>3. bench'[s] = y /\ DOMAIN bench' = BenchSessions /\ \A t \in BenchSessions \ {s} : bench'[t] = bench[t]
        BY <1>1, <1>2 DEF BenchInv
  <1>4. bench[s].step = "idle"
        BY <1>1 DEF Idle
  <1>5. Cardinality(StepIs(bench', "judged")) = Cardinality(StepIs(bench, "judged")) + 1
        BY <1>2, <1>3, <1>4, StepIsMore
  <1>6. StepIs(bench', "scored") = StepIs(bench, "scored")
        BY <1>2, <1>3, <1>4, StepIsSame
  <1>7. \A t \in BenchSessions : SessionInv(t)'
    <2>1. JudgedOK(y)'
          BY <1>1, <1>2, RunsKept
    <2>2. SessionInv(s)'
          BY <1>2, <1>3, <2>1 DEF SessionInv
    <2>. QED BY <1>1, <1>3, <2>2, RunsKept
  <1>8. ASSUME NEW r \in runs PROVE ScoredInv(r)'
    <2>1. ScoredInv(r)
          BY DEF BenchInv, RunsInv
    <2>2. HasOpen(r) => HasOpen(r)'
          BY <1>3, <1>4 DEF HasOpen
    <2>. QED BY <1>1, <2>1, <2>2 DEF ScoredInv, RunsOf
  <1>9. RunsInv'
    <2>1. PICK n, k, mx \in Nat : n = Cardinality(runs) /\ k = Cardinality(StepIs(bench, "judged")) /\ mx = MaxRuns
          BY StepIsFinite, FS_CardinalityType, BenchAssumption DEF BenchInv, RunsInv
    <2>2. n + (k + 1) <= mx
      <3>1. n + k < mx
            BY <1>1, <2>1
      <3>. QED BY ONLY <3>1, n \in Nat, k \in Nat, mx \in Nat
    <2>3. Cardinality(runs') + Cardinality(StepIs(bench', "judged")) <= MaxRuns
          BY <1>1, <1>5, <2>1, <2>2
    <2>. QED BY <1>1, <1>8, <2>3, RunsKept DEF BenchInv, RunsInv
  <1>10. ScoresInv'
         BY <1>1, <1>6, RunsKept DEF BenchInv, ScoresInv
  <1>. QED BY <1>1, <1>3, <1>7, <1>9, <1>10 DEF BenchInv

LEMMA BenchDrops ==
    ASSUME BenchInv, NEW s \in BenchSessions, RunDropped(s)
    PROVE  BenchInv'
  <1>1. /\ bench[s].step = "judged" /\ bench' = [bench EXCEPT ![s] = Idle]
        /\ UNCHANGED <<ranges, runs, scores, unscored>>
        BY DEF RunDropped
  <1>3. /\ bench'[s] = Idle /\ bench'[s].step = "idle" /\ DOMAIN bench' = BenchSessions
        /\ \A t \in BenchSessions \ {s} : bench'[t] = bench[t]
        BY <1>1 DEF BenchInv, Idle
  <1>4. /\ bench[s].step = "judged" /\ bench'[s].step # "judged"
        /\ bench[s].step # "scored" /\ bench'[s].step # "scored"
        BY <1>1, <1>3
  <1>5. Cardinality(StepIs(bench', "judged")) = Cardinality(StepIs(bench, "judged")) - 1
        BY <1>3, <1>4, StepIsLess
  <1>6. StepIs(bench', "scored") = StepIs(bench, "scored")
        BY <1>3, <1>4, StepIsSame
  <1>7. \A t \in BenchSessions : SessionInv(t)'
    <2>2. SessionInv(s)'
          BY <1>3 DEF SessionInv
    <2>. QED BY <1>1, <1>3, <2>2, RunsKept
  <1>8. ASSUME NEW r \in runs PROVE ScoredInv(r)'
    <2>1. ScoredInv(r)
          BY DEF BenchInv, RunsInv
    <2>2. HasOpen(r) => HasOpen(r)'
          BY <1>1, <1>3 DEF HasOpen
    <2>. QED BY <1>1, <2>1, <2>2 DEF ScoredInv, RunsOf
  <1>9. RunsInv'
    <2>1. PICK n, k, mx \in Nat : n = Cardinality(runs) /\ k = Cardinality(StepIs(bench, "judged")) /\ mx = MaxRuns
          BY StepIsFinite, FS_CardinalityType, BenchAssumption DEF BenchInv, RunsInv
    <2>2. n + (k - 1) <= mx
      <3>1. n + k <= mx
            BY <2>1 DEF BenchInv, RunsInv
      <3>. QED BY ONLY <3>1, n \in Nat, k \in Nat, mx \in Nat
    <2>3. Cardinality(runs') + Cardinality(StepIs(bench', "judged")) <= MaxRuns
          BY <1>1, <1>5, <2>1, <2>2
    <2>. QED BY <1>1, <1>8, <2>3, RunsKept DEF BenchInv, RunsInv
  <1>10. ScoresInv'
         BY <1>1, <1>6, RunsKept DEF BenchInv, ScoresInv
  <1>. QED BY <1>1, <1>3, <1>7, <1>9, <1>10 DEF BenchInv

-----------------------------------------------------------------------------
(* A suite is stored *)

\* What holds of the suites there are holds when one is added that was judged.
LEMMA RunAdded ==
    ASSUME BenchInv, NEW n \in Nat, n = Cardinality(runs), NEW new, new.id = n + 1,
           runs' = runs \cup {new}, ranges' = ranges
    PROVE  /\ new \notin runs /\ Cardinality(runs') = n + 1 /\ IsFiniteSet(runs')
           /\ \A r \in runs : RunOK(r)'
           /\ \A x : (JudgedOK(x) => JudgedOK(x)') /\ (ScoreOK(x) => ScoreOK(x)')
           /\ \A id, h : IdOf(id, h) => IdOf(id, h)'
           /\ \A t \in BenchSessions : bench'[t] = bench[t] => SessionInv(t)'
  <1>1. /\ IsFiniteSet(runs)
        /\ \A r \in runs : RunOK(r)
        BY DEF BenchInv, RunsInv
  <1>2. \A r \in runs : r.id \in Nat /\ r.id <= n
        BY <1>1 DEF RunOK
  <1>3. new \notin runs
        BY <1>2
  <1>4. Cardinality(runs') = n + 1 /\ IsFiniteSet(runs')
        BY <1>1, <1>3, FS_AddElement
  <1>6. \A r \in runs : RunOK(r)'
        BY <1>1, <1>2, <1>4 DEF RunOK
  <1>10. ASSUME NEW x, JudgedOK(x) PROVE JudgedOK(x)'
         BY <1>10 DEF JudgedOK
  <1>11. ASSUME NEW x, ScoreOK(x) PROVE ScoreOK(x)'
    <2>1. x.since \in Nat /\ x.since <= n /\ x.run \in Nat /\ x.run <= n
          BY <1>11 DEF ScoreOK
    <2>2. x.since <= n + 1 /\ x.run <= n + 1 /\ ~ (n + 1 <= x.since)
          BY <2>1
    <2>. QED BY <1>4, <1>11, <2>1, <2>2 DEF ScoreOK
  <1>12. ASSUME NEW id, NEW h, IdOf(id, h) PROVE IdOf(id, h)'
    <2>1. id \in Nat /\ id <= n /\ id # n + 1 /\ id <= n + 1
          BY <1>12 DEF IdOf
    <2>. QED BY <1>4, <1>12, <2>1 DEF IdOf
  <1>13. ASSUME NEW t \in BenchSessions, bench'[t] = bench[t] PROVE SessionInv(t)'
    <2>1. SessionInv(t)
          BY DEF BenchInv
    <2>. QED BY <1>10, <1>11, <1>12, <1>13, <2>1 DEF SessionInv
  <1>. QED BY <1>3, <1>4, <1>6, <1>10, <1>11, <1>12, <1>13

LEMMA BenchStores ==
    ASSUME BenchInv, NEW s \in BenchSessions, RunCommits(s)
    PROVE  BenchInv'
  <1>1. PICK n \in Nat : n = Cardinality(runs)
        BY FS_CardinalityType DEF BenchInv, RunsInv
  <1>2. PICK x : x = bench[s] /\ x.step = "judged" /\ JudgedOK(x)
    <2>1. bench[s].step = "judged" /\ SessionInv(s)
          BY DEF BenchInv, RunCommits
    <2>. QED BY <2>1 DEF SessionInv, Idle
  <1>3. PICK new : new = [id |-> n + 1, host |-> x.host, value |-> x.value,
                          flags |-> x.flags]
        OBVIOUS
  <1>4. PICK y : y = [step |-> "stored", host |-> x.host, id |-> n + 1]
        OBVIOUS
  <1>5. /\ runs' = runs \cup {new} /\ bench' = [bench EXCEPT ![s] = y]
        /\ UNCHANGED <<ranges, scores, unscored>>
        BY <1>1, <1>2, <1>3, <1>4 DEF RunCommits
  <1>6. /\ bench'[s] = y /\ DOMAIN bench' = BenchSessions
        /\ \A t \in BenchSessions \ {s} : bench'[t] = bench[t]
        BY <1>5 DEF BenchInv
  <1>7. new.id = n + 1
        BY <1>3
  <1>8. /\ new \notin runs /\ Cardinality(runs') = n + 1 /\ IsFiniteSet(runs')
        /\ \A r \in runs : RunOK(r)'
        /\ \A z : (JudgedOK(z) => JudgedOK(z)') /\ (ScoreOK(z) => ScoreOK(z)')
        /\ \A t \in BenchSessions : bench'[t] = bench[t] => SessionInv(t)'
        BY <1>1, <1>5, <1>7, RunAdded
  <1>9. /\ bench[s].step = "judged" /\ bench'[s].step # "judged"
        /\ bench[s].step # "scored" /\ bench'[s].step # "scored"
        BY <1>2, <1>4, <1>6
  <1>10. Cardinality(StepIs(bench', "judged")) = Cardinality(StepIs(bench, "judged")) - 1
         BY <1>6, <1>9, StepIsLess
  <1>11. StepIs(bench', "scored") = StepIs(bench, "scored")
         BY <1>6, <1>9, StepIsSame
  <1>12. \A r \in runs : r.id \in Nat /\ 1 <= r.id /\ r.id <= n
         BY <1>1 DEF BenchInv, RunsInv, RunOK
  <1>13. SessionInv(s)'
    <2>1. IdOf(n + 1, x.host)'
      <3>1. \A r \in runs' : r.id = n + 1 => r = new
            BY <1>5, <1>12
      <3>2. new.host = x.host
            BY <1>3
      <3>. QED BY <1>8, <3>1, <3>2 DEF IdOf
    <2>2. y.step = "stored" /\ y.host = x.host /\ y.id = n + 1 /\ x.host \in BenchHosts
          BY <1>2, <1>4 DEF JudgedOK
    <2>. QED BY <1>6, <2>1, <2>2 DEF SessionInv
  <1>14. \A t \in BenchSessions : SessionInv(t)'
         BY <1>6, <1>8, <1>13
  <1>15. RunOK(new)'
    <2>1. /\ x.host \in BenchHosts /\ x.value \in Suites /\ x.flags \subseteq DOMAIN x.value
          BY <1>2 DEF JudgedOK
    <2>. QED BY <1>3, <1>8, <2>1 DEF RunOK
  <1>16. ASSUME NEW r \in runs PROVE ScoredInv(r)'
    <2>1. ScoredInv(r)
          BY DEF BenchInv, RunsInv
    <2>2. HasOpen(r) => HasOpen(r)'
          BY <1>6, <1>9 DEF HasOpen
    <2>. QED BY <1>5, <2>1, <2>2 DEF ScoredInv, RunsOf
  <1>17. ScoredInv(new)'
    <2>1. HasOpen(new)'
          BY <1>4, <1>6, <1>7 DEF HasOpen
    <2>. QED BY <2>1 DEF ScoredInv
  <1>19. RunsInv'
    <2>1. PICK k, mx \in Nat : k = Cardinality(StepIs(bench, "judged")) /\ mx = MaxRuns
          BY StepIsFinite, BenchAssumption
    <2>2. (n + 1) + (k - 1) <= mx
      <3>1. n + k <= mx
            BY <1>1, <2>1 DEF BenchInv, RunsInv
      <3>. QED BY ONLY <3>1, n \in Nat, k \in Nat, mx \in Nat
    <2>3. Cardinality(runs') + Cardinality(StepIs(bench', "judged")) <= MaxRuns
          BY <1>8, <1>10, <2>1, <2>2
    <2>4. \A r \in runs' : RunOK(r)' /\ ScoredInv(r)'
          BY <1>5, <1>8, <1>15, <1>16, <1>17
    <2>. QED BY <1>8, <2>3, <2>4 DEF RunsInv
  <1>20. ScoresInv'
         BY <1>5, <1>8, <1>11 DEF BenchInv, ScoresInv
  <1>. QED BY <1>5, <1>6, <1>14, <1>19, <1>20 DEF BenchInv

-----------------------------------------------------------------------------
(* A host is scored *)

LEMMA NormalisedType ==
    ASSUME NEW v \in Int, NEW low \in Int, NEW high \in Int
    PROVE  Normalised(v, low, high) \in Int
  <1>1. CASE high <= low
        BY <1>1 DEF Normalised
  <1>2. CASE ~ (high <= low)
    <2>1. PICK q \in Int : q = ((v - low) * 1000) \div (high - low)
      <3>1. PICK a \in Int : a = (v - low) * 1000
            OBVIOUS
      <3>2. PICK b \in Nat : b = high - low /\ b > 0
            BY <1>2
      <3>3. a \div b \in Int
            BY <3>2, DivBounds
      <3>. QED BY <3>1, <3>2, <3>3
    <2>2. PICK k, z \in Int : k = 1000 /\ z = 0
          OBVIOUS
    <2>3. PICK l \in Int : l = Min({k, q})
          BY MinTwo
    <2>4. Max({z, l}) \in Int
          BY MaxTwo
    <2>5. Normalised(v, low, high) = Max({z, l})
          BY <1>2, <2>1, <2>2, <2>3 DEF Normalised
    <2>. QED BY <2>4, <2>5
  <1>. QED BY <1>1, <1>2

LEMMA NormalType ==
    ASSUME BenchInv, NEW m \in Metrics, NEW v \in Int
    PROVE  Normal(m, v) \in Int
  <1>1. CASE ~ HasEnvelope(m)
        BY <1>1 DEF Normal
  <1>2. CASE HasEnvelope(m)
    <2>1. PICK low, high \in Int : ScoredIn(m)[1] = low /\ ScoredIn(m)[2] = high
      <3>1. CASE PeerValues(m) # {}
        <4>1. PeerValues(m) \subseteq Nat /\ IsFiniteSet(PeerValues(m))
              BY PeersAreNumbers DEF BenchInv, RunsInv, RunOK
        <4>2. PeerValues(m) \subseteq Int
              BY <4>1
        <4>3. Lowest(PeerValues(m)) \in Int /\ Highest(PeerValues(m)) \in Int
              BY <3>1, <4>1, <4>2, Extremes
        <4>. QED BY <3>1, <4>3 DEF ScoredIn
      <3>2. CASE PeerValues(m) = {}
        <4>1. m \in DOMAIN ranges /\ ranges[m] \in Nat \X Nat
              BY <1>2, <3>2 DEF HasEnvelope, BenchInv
        <4>2. ranges[m][1] \in Int /\ ranges[m][2] \in Int
              BY <4>1
        <4>. QED BY <3>2, <4>2 DEF ScoredIn
      <3>. QED BY <3>1, <3>2
    <2>2. Normal(m, v) = Normalised(v, low, high)
          BY <1>2, <2>1 DEF Normal
    <2>. QED BY <2>2, NormalisedType
  <1>. QED BY <1>1, <1>2

\* What a weighted mean of numbers, some missing, is.
LEMMA MeanType ==
    ASSUME NEW part, NEW mean, MeanOK(part, mean)
    PROVE  mean \in Int \/ mean = NoScore
  BY DEF MeanOK

LEMMA PerformanceType ==
    ASSUME BenchInv, NEW r \in runs
    PROVE  Performance(r) \in Int \/ Performance(r) = NoScore
  <1>1. /\ r.value \in Suites /\ DOMAIN r.value \subseteq DOMAIN PerfWeights
        /\ \A m \in DOMAIN r.value : r.value[m] \in Nat
        BY BenchAssumption DEF BenchInv, RunsInv, RunOK
  <1>. DEFINE part == [m \in DOMAIN r.value |-> Normal(m, r.value[m])]
  <1>2. \A m \in DOMAIN r.value : m \in Metrics /\ part[m] \in Int
    <2>1. ASSUME NEW m \in DOMAIN r.value PROVE m \in Metrics /\ part[m] \in Int
      <3>1. m \in Metrics /\ r.value[m] \in Int
            BY <1>1 DEF Metrics
      <3>2. Normal(m, r.value[m]) \in Int
            BY <3>1, NormalType
      <3>. QED BY <3>1, <3>2
    <2>. QED BY <2>1
  <1>3. \A m \in DOMAIN PerfWeights : PerfWeights[m] \in Nat /\ PerfWeights[m] > 0
        BY DEF PerfWeights
  <1>4. IsFiniteSet(DOMAIN part)
    <2>1. DOMAIN PerfWeights = ({"fp16"} \cup {"fp32"}) \cup {"bandwidth"}
          BY DEF PerfWeights
    <2>2. IsFiniteSet({"fp16"})
          BY FS_Singleton
    <2>3. IsFiniteSet({"fp16"} \cup {"fp32"})
          BY <2>2, FS_AddElement
    <2>4. IsFiniteSet(DOMAIN PerfWeights)
          BY <2>1, <2>3, FS_AddElement
    <2>5. DOMAIN part \subseteq DOMAIN PerfWeights
          BY <1>1
    <2>. HIDE DEF part
    <2>. QED BY <2>4, <2>5, FS_Subset
  <1>5. \A m \in DOMAIN part : /\ PerfWeights[m] \in Nat /\ PerfWeights[m] > 0
                               /\ part[m] \in Int \/ part[m] = NoScore
        BY <1>1, <1>2, <1>3
  <1>6. Performance(r) = Weighted(PerfWeights, part)
        BY DEF Performance
  <1>. HIDE DEF part
  <1>7. MeanOK(part, Weighted(PerfWeights, part))
        BY <1>4, <1>5, WeightedMean
  <1>. QED BY <1>6, <1>7, MeanType

LEMMA HealthType ==
    ASSUME NEW w \in Windows
    PROVE  Health(w) \in Int \/ Health(w) = NoScore
  <1>. DEFINE part == [k \in {"thermal", "power"} |-> IF w.samples < 3 THEN NoScore ELSE w[k]]
  <1>1. w \in [samples : Nat, thermal : Nat \cup {NoScore}, power : Nat \cup {NoScore}]
        BY BenchAssumption
  <1>2. w["thermal"] \in Nat \cup {NoScore} /\ w["power"] \in Nat \cup {NoScore}
        BY <1>1
  <1>3. \A k \in DOMAIN part : part[k] \in Int \/ part[k] = NoScore
    <2>1. ASSUME NEW k \in {"thermal", "power"} PROVE part[k] \in Int \/ part[k] = NoScore
      <3>1. w[k] \in Nat \/ w[k] = NoScore
            BY <1>2
      <3>2. part[k] = NoScore \/ part[k] = w[k]
            OBVIOUS
      <3>. HIDE DEF part
      <3>. QED BY <3>1, <3>2
    <2>. QED BY <2>1
  <1>4. IsFiniteSet(DOMAIN part)
    <2>1. DOMAIN part = {"thermal"} \cup {"power"}
          OBVIOUS
    <2>2. IsFiniteSet({"thermal"} \cup {"power"})
          BY FS_Singleton, FS_AddElement
    <2>. HIDE DEF part
    <2>. QED BY <2>1, <2>2
  <1>5. \A k \in DOMAIN part : HealthWeights[k] \in Nat /\ HealthWeights[k] > 0
        BY DEF HealthWeights
  <1>6. Health(w) = Weighted(HealthWeights, part)
        BY DEF Health
  <1>. HIDE DEF part
  <1>7. MeanOK(part, Weighted(HealthWeights, part))
        BY <1>3, <1>4, <1>5, WeightedMean
  <1>. QED BY <1>6, <1>7, MeanType

LEMMA LatestIsLast ==
    ASSUME BenchInv, NEW h
    PROVE  /\ Latest(h) \in Nat /\ Latest(h) <= Cardinality(runs)
           /\ Latest(h) = 0 \/ \E q \in runs : q.id = Latest(h) /\ q.host = h
           /\ \A q \in runs : q.host = h => q.id <= Latest(h)
  <1>1. /\ IsFiniteSet(runs) /\ Cardinality(runs) \in Nat
        /\ \A r \in runs : r.id \in Nat /\ r.id <= Cardinality(runs)
        BY FS_CardinalityType DEF BenchInv, RunsInv, RunOK
  <1>2. CASE RunsOf(h) = {}
        BY <1>1, <1>2 DEF Latest, RunsOf
  <1>3. CASE RunsOf(h) # {}
    <2>. DEFINE f == [r \in RunsOf(h) |-> r.id]
                ids == {r.id : r \in RunsOf(h)}
    <2>1. IsFiniteSet(RunsOf(h))
          BY <1>1, FS_Subset DEF RunsOf
    <2>2. f \in [RunsOf(h) -> Nat] /\ ids = {f[r] : r \in RunsOf(h)}
          BY <1>1 DEF RunsOf
    <2>3. IsFiniteSet({f[r] : r \in RunsOf(h)})
      <3>. HIDE DEF f, ids
      <3>. QED BY <2>1, <2>2, FiniteImage
    <2>4. ids \subseteq Int /\ ids # {} /\ IsFiniteSet(ids)
      <3>1. ids \subseteq Int /\ ids # {}
            BY <1>1, <1>3 DEF RunsOf
      <3>. HIDE DEF f, ids
      <3>. QED BY <2>2, <2>3, <3>1
    <2>5. PICK k \in ids : k = Highest(ids) /\ \A i \in ids : k >= i
      <3>. HIDE DEF ids
      <3>. QED BY <2>4, Extremes
    <2>6. Latest(h) = k
          BY <1>3, <2>5 DEF Latest
    <2>7. PICK q \in runs : q.id = k /\ q.host = h
          BY <2>5 DEF RunsOf
    <2>8. ASSUME NEW r \in runs, r.host = h PROVE r.id <= k
      <3>1. r.id \in ids /\ r.id \in Int /\ k \in Int
            BY <1>1, <2>4, <2>8 DEF RunsOf
      <3>2. k >= r.id
            BY <2>5, <3>1
      <3>. QED BY ONLY <3>1, <3>2
    <2>. QED BY <1>1, <2>6, <2>7, <2>8
  <1>. QED BY <1>2, <1>3

LEMMA ScoredIsOK ==
    ASSUME BenchInv, NEW h \in BenchHosts, NEW w \in Windows, NEW rel \in Reliabilities
    PROVE  ScoreOK(Scored(h, w, rel)) /\ Scored(h, w, rel).host = h
  <1>. DEFINE latest == {r \in RunsOf(h) : r.id = Latest(h)}
              theRun == CHOOSE r \in latest : TRUE
              perf == IF latest = {} THEN NoScore ELSE Performance(theRun)
              part == [performance |-> perf, health |-> Health(w), reliability |-> rel]
  <1>1. perf \in Int \/ perf = NoScore
    <2>1. CASE latest = {}
          BY <2>1
    <2>2. CASE latest # {}
      <3>1. theRun \in runs
            BY <2>2 DEF RunsOf
      <3>2. perf = Performance(theRun)
            BY <2>2
      <3>. HIDE DEF latest, theRun, perf
      <3>. QED BY <3>1, <3>2, PerformanceType
    <2>. QED BY <2>1, <2>2
  <1>2. /\ Scored(h, w, rel).host = h /\ Scored(h, w, rel).run = Latest(h)
        /\ Scored(h, w, rel).since = Cardinality(runs) /\ Scored(h, w, rel).part = part
        /\ Scored(h, w, rel).composite = Weighted(ScoreWeights, part)
        BY DEF Scored
  <1>. HIDE DEF perf
  <1>3. Health(w) \in Int \/ Health(w) = NoScore
        BY HealthType
  <1>4. rel \in Int
        BY BenchAssumption
  <1>5. IsFiniteSet(DOMAIN part)
    <2>1. DOMAIN part = ({"performance"} \cup {"health"}) \cup {"reliability"}
          OBVIOUS
    <2>2. IsFiniteSet({"performance"})
          BY FS_Singleton
    <2>3. IsFiniteSet({"performance"} \cup {"health"})
          BY <2>2, FS_AddElement
    <2>4. IsFiniteSet(({"performance"} \cup {"health"}) \cup {"reliability"})
          BY <2>3, FS_AddElement
    <2>. HIDE DEF part
    <2>. QED BY <2>1, <2>4
  <1>6. \A k \in DOMAIN part : part[k] \in Int \/ part[k] = NoScore
        BY <1>1, <1>3, <1>4
  <1>7. \A k \in DOMAIN part : ScoreWeights[k] \in Nat /\ ScoreWeights[k] > 0
        BY DEF ScoreWeights
  <1>. HIDE DEF part
  <1>8. PartsOK(part) /\ MeanOK(part, Weighted(ScoreWeights, part))
        BY <1>5, <1>6, <1>7, WeightedMean DEF PartsOK
  <1>9. Cardinality(runs) \in Nat /\ Cardinality(runs) <= Cardinality(runs)
        BY FS_CardinalityType DEF BenchInv, RunsInv
  <1>. QED BY <1>2, <1>8, <1>9, LatestIsLast DEF ScoreOK

LEMMA BenchReadsScore ==
    ASSUME BenchInv, NEW s \in BenchSessions, NEW h \in BenchHosts, NEW w \in Windows,
           NEW rel \in Reliabilities, ScoreReads(s, h, w, rel)
    PROVE  BenchInv'
  <1>1. PICK sc : sc = Scored(h, w, rel) /\ ScoreOK(sc) /\ sc.host = h
        BY ScoredIsOK
  <1>2. PICK id \in Nat : id = (IF bench[s] = Idle THEN 0 ELSE bench[s].id) /\ IdOf(id, h)
    <2>1. CASE bench[s] = Idle
      <3>1. IdOf(0, h)
            BY FS_CardinalityType DEF IdOf, BenchInv, RunsInv, RunOK
      <3>. QED BY <2>1, <3>1
    <2>2. CASE bench[s] # Idle
      <3>1. bench[s].step = "stored" /\ bench[s].host = h
            BY <2>2 DEF ScoreReads
      <3>2. SessionInv(s)
            BY DEF BenchInv
      <3>3. IdOf(bench[s].id, h)
            BY <2>2, <3>1, <3>2 DEF SessionInv
      <3>. QED BY <2>2, <3>3 DEF IdOf
    <2>. QED BY <2>1, <2>2
  <1>3. PICK y : y = [step |-> "scored", score |-> sc, id |-> id]
        OBVIOUS
  <1>4. /\ bench' = [bench EXCEPT ![s] = y]
        /\ Cardinality(scores) + Cardinality(StepIs(bench, "scored")) < MaxScores
        /\ UNCHANGED <<ranges, runs, scores, unscored>>
        BY <1>1, <1>2, <1>3 DEF ScoreReads, StepIs
  <1>5. /\ bench'[s] = y /\ DOMAIN bench' = BenchSessions
        /\ \A t \in BenchSessions \ {s} : bench'[t] = bench[t]
        BY <1>4 DEF BenchInv
  <1>6. /\ bench[s].step # "judged" /\ bench'[s].step # "judged"
        /\ bench[s].step # "scored" /\ bench'[s].step = "scored"
        BY <1>3, <1>5 DEF ScoreReads, Idle
  <1>7. Cardinality(StepIs(bench', "scored")) = Cardinality(StepIs(bench, "scored")) + 1
        BY <1>5, <1>6, StepIsMore
  <1>8. StepIs(bench', "judged") = StepIs(bench, "judged")
        BY <1>5, <1>6, StepIsSame
  <1>9. \A t \in BenchSessions : SessionInv(t)'
    <2>1. ScoreOK(sc)' /\ IdOf(id, h)'
          BY <1>1, <1>2, <1>4, RunsKept
    <2>2. y.step = "scored" /\ y.score = sc /\ y.id = id
          BY <1>3
    <2>3. SessionInv(s)'
          BY <1>1, <1>5, <2>1, <2>2 DEF SessionInv
    <2>. QED BY <1>4, <1>5, <2>3, RunsKept
  <1>10. ASSUME NEW r \in runs PROVE ScoredInv(r)'
    <2>1. ScoredInv(r) /\ r.id # 0
          BY DEF BenchInv, RunsInv, RunOK
    <2>2. HasOpen(r) => HasOpen(r)'
      <3>1. ASSUME NEW t \in BenchSessions, bench[t].step \in {"stored", "scored"}, bench[t].id = r.id
            PROVE  bench'[t].step \in {"stored", "scored"} /\ bench'[t].id = r.id
        <4>1. CASE t # s
              BY <1>5, <3>1, <4>1
        <4>2. CASE t = s
              BY <1>2, <1>3, <1>5, <3>1, <4>2 DEF Idle
        <4>. QED BY <4>1, <4>2
      <3>. QED BY <3>1 DEF HasOpen
    <2>. QED BY <1>4, <2>1, <2>2 DEF ScoredInv, RunsOf
  <1>11. RunsInv'
         BY <1>4, <1>8, <1>10, RunsKept DEF BenchInv, RunsInv
  <1>12. ScoresInv'
    <2>1. PICK n, k, mx \in Nat : n = Cardinality(scores) /\ k = Cardinality(StepIs(bench, "scored"))
                                  /\ mx = MaxScores
          BY StepIsFinite, FS_CardinalityType, BenchAssumption DEF BenchInv, ScoresInv
    <2>2. n + (k + 1) <= mx
      <3>1. n + k < mx
            BY <1>4, <2>1
      <3>. QED BY ONLY <3>1, n \in Nat, k \in Nat, mx \in Nat
    <2>3. Cardinality(scores') + Cardinality(StepIs(bench', "scored")) <= MaxScores
          BY <1>4, <1>7, <2>1, <2>2
    <2>. QED BY <1>4, <2>3, RunsKept DEF BenchInv, ScoresInv
  <1>. QED BY <1>4, <1>5, <1>9, <1>11, <1>12 DEF BenchInv

LEMMA BenchSavesScore ==
    ASSUME BenchInv, NEW s \in BenchSessions, ScoreCommits(s)
    PROVE  BenchInv'
  <1>1. PICK n \in Nat : n = Cardinality(scores)
        BY FS_CardinalityType DEF BenchInv, ScoresInv
  <1>2. PICK x : x = bench[s] /\ x.step = "scored" /\ IdOf(x.id, x.score.host) /\ ScoreOK(x.score)
    <2>1. bench[s].step = "scored" /\ SessionInv(s)
          BY DEF BenchInv, ScoreCommits
    <2>. QED BY <2>1 DEF SessionInv, Idle
  <1>3. PICK new : new = [score |-> x.score, at |-> n + 1]
        OBVIOUS
  <1>4. /\ scores' = scores \cup {new} /\ bench' = [bench EXCEPT ![s] = Idle]
        /\ UNCHANGED <<ranges, runs, unscored>>
        BY <1>1, <1>2, <1>3 DEF ScoreCommits
  <1>5. /\ bench'[s] = Idle /\ bench'[s].step = "idle" /\ DOMAIN bench' = BenchSessions
        /\ \A t \in BenchSessions \ {s} : bench'[t] = bench[t]
        BY <1>4 DEF BenchInv, Idle
  <1>6. /\ bench[s].step # "judged" /\ bench'[s].step # "judged"
        /\ bench[s].step = "scored" /\ bench'[s].step # "scored"
        BY <1>2, <1>5
  <1>7. Cardinality(StepIs(bench', "scored")) = Cardinality(StepIs(bench, "scored")) - 1
        BY <1>5, <1>6, StepIsLess
  <1>8. StepIs(bench', "judged") = StepIs(bench, "judged")
        BY <1>5, <1>6, StepIsSame
  <1>9. \A t \in BenchSessions : SessionInv(t)'
    <2>1. SessionInv(s)'
          BY <1>5 DEF SessionInv
    <2>. QED BY <1>4, <1>5, <2>1, RunsKept
  <1>10. ASSUME NEW r \in runs PROVE ScoredInv(r)'
    <2>1. ScoredInv(r)
          BY DEF BenchInv, RunsInv
    <2>2. HasOpen(r) => HasOpen(r)' \/ new.score.host = r.host
      <3>1. ASSUME NEW t \in BenchSessions, bench[t].step \in {"stored", "scored"}, bench[t].id = r.id
            PROVE  (bench'[t].step \in {"stored", "scored"} /\ bench'[t].id = r.id)
                   \/ new.score.host = r.host
        <4>1. CASE t # s
              BY <1>5, <3>1, <4>1
        <4>2. CASE t = s
              BY <1>2, <1>3, <3>1, <4>2 DEF IdOf
        <4>. QED BY <4>1, <4>2
      <3>. QED BY <3>1 DEF HasOpen
    <2>3. new \in scores' /\ scores \subseteq scores'
          BY <1>4
    <2>. QED BY <1>4, <2>1, <2>2, <2>3 DEF ScoredInv, RunsOf
  <1>11. RunsInv'
         BY <1>4, <1>8, <1>10, RunsKept DEF BenchInv, RunsInv
  <1>12. ScoresInv'
    <2>1. PICK k, mx \in Nat : k = Cardinality(StepIs(bench, "scored")) /\ mx = MaxScores
          BY StepIsFinite, BenchAssumption
    <2>2. (n + 1) + (k - 1) <= mx
      <3>1. n + k <= mx
            BY <1>1, <2>1 DEF BenchInv, ScoresInv
      <3>. QED BY ONLY <3>1, n \in Nat, k \in Nat, mx \in Nat
    <2>3. \A p \in scores : p.at \in Nat /\ 1 <= p.at /\ p.at <= n /\ ScoreOK(p.score)'
          BY <1>1, <1>4, RunsKept DEF BenchInv, ScoresInv
    <2>4. new \notin scores
          BY <1>3, <2>3
    <2>5. Cardinality(scores') = n + 1 /\ IsFiniteSet(scores')
          BY <1>1, <1>4, <2>4, FS_AddElement DEF BenchInv, ScoresInv
    <2>6. Cardinality(scores') + Cardinality(StepIs(bench', "scored")) <= MaxScores
          BY <1>7, <2>1, <2>2, <2>5
    <2>7. ScoreOK(new.score)' /\ new.at = n + 1
      <3>1. ScoreOK(x.score)'
        <4>1. PICK sc : sc = x.score /\ ScoreOK(sc)
              BY <1>2
        <4>. QED BY <1>4, <4>1, RunsKept
      <3>. QED BY <1>3, <3>1
    <2>8. \A p \in scores' : p.at \in Nat /\ 1 <= p.at /\ p.at <= n + 1 /\ ScoreOK(p.score)'
          BY <1>4, <2>3, <2>7
    <2>. QED BY <2>5, <2>6, <2>8 DEF ScoresInv
  <1>. QED BY <1>4, <1>5, <1>9, <1>11, <1>12 DEF BenchInv

LEMMA BenchFailsToScore ==
    ASSUME BenchInv, NEW s \in BenchSessions, ScoreFails(s)
    PROVE  BenchInv'
  <1>1. /\ bench[s].step \in {"stored", "scored"} /\ bench' = [bench EXCEPT ![s] = Idle]
        /\ unscored' = unscored \cup ({bench[s].id} \ {0})
        /\ UNCHANGED <<ranges, runs, scores>>
        BY DEF ScoreFails
  <1>2. bench[s].id \in Nat /\ bench[s].id <= Cardinality(runs)
    <2>1. SessionInv(s)
          BY DEF BenchInv
    <2>. QED BY <1>1, <2>1 DEF SessionInv, IdOf, Idle
  <1>3. /\ bench'[s] = Idle /\ bench'[s].step = "idle" /\ DOMAIN bench' = BenchSessions
        /\ \A t \in BenchSessions \ {s} : bench'[t] = bench[t]
        BY <1>1 DEF BenchInv, Idle
  <1>4. bench[s].step # "judged" /\ bench'[s].step # "judged" /\ bench'[s].step # "scored"
        BY <1>1, <1>3
  <1>5. StepIs(bench', "judged") = StepIs(bench, "judged")
        BY <1>3, <1>4, StepIsSame
  <1>6. PICK k, l, n, m, mx, my \in Nat :
             /\ k = Cardinality(StepIs(bench, "scored")) /\ l = Cardinality(StepIs(bench', "scored"))
             /\ n = Cardinality(runs) /\ m = Cardinality(scores) /\ mx = MaxRuns /\ my = MaxScores
        BY StepIsFinite, FS_CardinalityType, BenchAssumption DEF BenchInv, RunsInv, ScoresInv
  <1>7. l <= k
    <2>1. CASE bench[s].step = "scored"
      <3>1. Cardinality(StepIs(bench', "scored")) = Cardinality(StepIs(bench, "scored")) - 1
            BY <1>3, <1>4, <2>1, StepIsLess
      <3>. QED BY <1>6, <3>1
    <2>2. CASE bench[s].step # "scored"
      <3>1. StepIs(bench', "scored") = StepIs(bench, "scored")
            BY <1>3, <1>4, <2>2, StepIsSame
      <3>. QED BY <1>6, <3>1
    <2>. QED BY <2>1, <2>2
  <1>8. \A t \in BenchSessions : SessionInv(t)'
    <2>1. SessionInv(s)'
          BY <1>3 DEF SessionInv
    <2>. QED BY <1>1, <1>3, <2>1, RunsKept
  <1>9. ASSUME NEW r \in runs PROVE ScoredInv(r)'
    <2>1. ScoredInv(r) /\ r.id # 0
          BY DEF BenchInv, RunsInv, RunOK
    <2>2. HasOpen(r) => HasOpen(r)' \/ r.id \in unscored'
      <3>1. ASSUME NEW t \in BenchSessions, bench[t].step \in {"stored", "scored"}, bench[t].id = r.id
            PROVE  (bench'[t].step \in {"stored", "scored"} /\ bench'[t].id = r.id)
                   \/ r.id \in unscored'
        <4>1. CASE t # s
              BY <1>3, <3>1, <4>1
        <4>2. CASE t = s
              BY <1>1, <2>1, <3>1, <4>2
        <4>. QED BY <4>1, <4>2
      <3>. QED BY <3>1 DEF HasOpen
    <2>. QED BY <1>1, <2>1, <2>2 DEF ScoredInv, RunsOf
  <1>10. RunsInv'
         BY <1>1, <1>5, <1>9, RunsKept DEF BenchInv, RunsInv
  <1>11. ScoresInv'
    <2>1. m + l <= my
      <3>1. m + k <= my
            BY <1>6 DEF BenchInv, ScoresInv
      <3>. QED BY ONLY <1>7, <3>1, k \in Nat, l \in Nat, m \in Nat, my \in Nat
    <2>2. Cardinality(scores') + Cardinality(StepIs(bench', "scored")) <= MaxScores
          BY <1>1, <1>6, <2>1
    <2>. QED BY <1>1, <2>2, RunsKept DEF BenchInv, ScoresInv
  <1>12. \A i \in unscored' : i \in Nat /\ 1 <= i /\ i <= MaxRuns
    <2>1. n <= mx
      <3>1. PICK o \in Nat : o = Cardinality(StepIs(bench, "judged"))
            BY StepIsFinite
      <3>2. n + o <= mx
            BY <1>6, <3>1 DEF BenchInv, RunsInv
      <3>. QED BY ONLY <3>2, n \in Nat, o \in Nat, mx \in Nat
    <2>2. ASSUME NEW i \in Nat, i = bench[s].id, i # 0 PROVE 1 <= i /\ i <= MaxRuns
      <3>1. i <= n
            BY <1>2, <1>6, <2>2
      <3>2. 1 <= i /\ i <= mx
            BY ONLY <2>1, <2>2, <3>1, n \in Nat, mx \in Nat
      <3>. QED BY <1>6, <3>2
    <2>3. \A i \in unscored : i \in Nat /\ 1 <= i /\ i <= MaxRuns
          BY DEF BenchInv
    <2>. QED BY <1>1, <1>2, <2>2, <2>3
  <1>. QED BY <1>1, <1>3, <1>8, <1>10, <1>11, <1>12 DEF BenchInv

LEMMA BenchStep == ASSUME BenchInv, [BenchNext]_benchVars PROVE BenchInv'
  <1>1. CASE UNCHANGED benchVars
    <2>1. UNCHANGED <<ranges, runs, bench, scores, unscored>>
          BY <1>1 DEF benchVars
    <2>2. \A t \in BenchSessions : SessionInv(t)'
          BY <2>1, RunsKept
    <2>3. \A r \in runs : ScoredInv(r)'
      <3>1. ASSUME NEW r \in runs PROVE ScoredInv(r)'
        <4>1. ScoredInv(r)
              BY DEF BenchInv, RunsInv
        <4>. QED BY <2>1, <4>1 DEF ScoredInv, HasOpen, RunsOf
      <3>. QED BY <3>1
    <2>4. RunsInv'
          BY <2>1, <2>3, RunsKept DEF BenchInv, RunsInv, StepIs
    <2>5. ScoresInv'
          BY <2>1, RunsKept DEF BenchInv, ScoresInv, StepIs
    <2>. QED BY <2>1, <2>2, <2>4, <2>5 DEF BenchInv
  <1>2. CASE BenchNext
        BY <1>2, BenchJudges, BenchDrops, BenchStores, BenchReadsScore, BenchSavesScore,
           BenchFailsToScore DEF BenchNext
  <1>. QED BY <1>1, <1>2

-----------------------------------------------------------------------------
(* The properties *)

LEMMA BenchShownIsLast ==
    ASSUME BenchInv, NEW r \in runs, NEW p \in scores, p.score.host = r.host
    PROVE  \/ \E q \in RunsOf(r.host) : q.id > r.id
           \/ \E o \in scores : /\ o.score.host = r.host
                                /\ \A q \in scores : q.score.host = r.host => q.at <= o.at
                                /\ o.score.run = r.id \/ o.score.since < r.id
  <1>. DEFINE mine == {q \in scores : q.score.host = r.host}
              f == [q \in mine |-> q.at]
              ats == {f[q] : q \in mine}
  <1>1. IsFiniteSet(mine) /\ mine # {}
        BY FS_Subset DEF BenchInv, ScoresInv
  <1>2. f \in [mine -> Nat]
        BY DEF BenchInv, ScoresInv
  <1>3. IsFiniteSet(ats)
    <2>. HIDE DEF f, mine
    <2>. QED BY <1>1, <1>2, FiniteImage
  <1>4. ats \subseteq Int /\ ats # {}
    <2>. HIDE DEF f, mine
    <2>. QED BY <1>1, <1>2
  <1>5. Max(ats) \in ats /\ \A i \in ats : i <= Max(ats)
    <2>. HIDE DEF ats
    <2>. QED BY <1>3, <1>4, MaxOf
  <1>6. PICK o \in mine : f[o] = Max(ats)
        BY <1>5
  <1>7. \A q \in scores : q.score.host = r.host => q.at <= o.at
        BY <1>5, <1>6
  <1>8. o \in scores /\ o.score.host = r.host
        OBVIOUS
  <1>9. ScoreOK(o.score) /\ r.id \in Nat /\ 1 <= r.id
        BY <1>8 DEF BenchInv, ScoresInv, RunsInv, RunOK
  <1>10. PICK since, run \in Nat : since = o.score.since /\ run = o.score.run
         BY <1>9 DEF ScoreOK
  <1>11. CASE r.id <= since
    <2>1. r.id <= run
          BY <1>8, <1>9, <1>10, <1>11 DEF ScoreOK
    <2>2. PICK q \in runs : q.id = run /\ q.host = r.host
      <3>1. run # 0
            BY <1>9, <2>1
      <3>. QED BY <1>8, <1>9, <1>10, <3>1 DEF ScoreOK
    <2>3. CASE run = r.id
          BY <1>7, <1>8, <1>10, <2>3
    <2>4. CASE run # r.id
      <3>1. q.id > r.id
            BY <1>9, <2>1, <2>2, <2>4
      <3>. QED BY <2>2, <3>1 DEF RunsOf
    <2>. QED BY <2>3, <2>4
  <1>12. CASE since < r.id
         BY <1>7, <1>8, <1>10, <1>12
  <1>. QED BY <1>9, <1>11, <1>12

LEMMA BenchSafe ==
    BenchInv => BenchTypeOK /\ LatestRunIsScored /\ CompositeBetweenParts
  <1>. SUFFICES ASSUME BenchInv
                PROVE  BenchTypeOK /\ LatestRunIsScored /\ CompositeBetweenParts
       OBVIOUS
  <1>1. PICK n, m, mx, my \in Nat : n = Cardinality(runs) /\ m = Cardinality(scores)
                                    /\ mx = MaxRuns /\ my = MaxScores /\ n <= mx /\ m <= my
    <2>1. PICK n, m, mx, my, j, k \in Nat :
             /\ n = Cardinality(runs) /\ m = Cardinality(scores) /\ mx = MaxRuns /\ my = MaxScores
             /\ j = Cardinality(StepIs(bench, "judged")) /\ k = Cardinality(StepIs(bench, "scored"))
          BY StepIsFinite, FS_CardinalityType, BenchAssumption DEF BenchInv, RunsInv, ScoresInv
    <2>2. n + j <= mx /\ m + k <= my
          BY <2>1 DEF BenchInv, RunsInv, ScoresInv
    <2>3. n <= mx /\ m <= my
          BY ONLY <2>2, n \in Nat, m \in Nat, mx \in Nat, my \in Nat, j \in Nat, k \in Nat
    <2>. QED BY <2>1, <2>3
  <1>2. BenchTypeOK
    <2>1. ASSUME NEW r \in runs
          PROVE  r.id \in 1..MaxRuns /\ r.host \in BenchHosts /\ r.flags \subseteq DOMAIN r.value
      <3>1. RunOK(r)
            BY DEF BenchInv, RunsInv
      <3>2. r.id \in Nat /\ 1 <= r.id /\ r.id <= n
            BY <1>1, <3>1 DEF RunOK
      <3>3. r.id \in 1..mx
            BY <1>1, <3>2
      <3>. QED BY <1>1, <3>1, <3>3 DEF RunOK
    <2>2. ASSUME NEW p \in scores PROVE p.at \in 1..MaxScores /\ p.score.run \in 0..MaxRuns
      <3>1. ScoreOK(p.score) /\ p.at \in Nat /\ 1 <= p.at /\ p.at <= m
            BY <1>1 DEF BenchInv, ScoresInv
      <3>2. p.score.run \in Nat /\ p.score.run <= n
            BY <1>1, <3>1 DEF ScoreOK
      <3>3. p.at \in 1..my /\ p.score.run \in 0..mx
            BY <1>1, <3>1, <3>2
      <3>. QED BY <1>1, <3>3
    <2>3. unscored \subseteq 1..MaxRuns
          BY <1>1 DEF BenchInv
    <2>. QED BY <2>1, <2>2, <2>3 DEF BenchInv, BenchTypeOK
  <1>4. LatestRunIsScored
    <2>1. ASSUME NEW r \in runs
          PROVE  \/ \E q \in RunsOf(r.host) : q.id > r.id
                 \/ r.id \in unscored
                 \/ HasOpen(r)
                 \/ \E p \in scores : /\ p.score.host = r.host
                                      /\ \A q \in scores : q.score.host = r.host => q.at <= p.at
                                      /\ p.score.run = r.id \/ p.score.since < r.id
      <3>1. ScoredInv(r)
            BY DEF BenchInv, RunsInv
      <3>. QED BY <3>1, BenchShownIsLast DEF ScoredInv
    <2>. QED BY <2>1 DEF LatestRunIsScored, HasOpen
  <1>5. CompositeBetweenParts
    <2>1. ASSUME NEW p \in scores, PartsOf(p.score.part) # {}
          PROVE  p.score.composite \in Lowest(PartsOf(p.score.part))..Highest(PartsOf(p.score.part))
      <3>. DEFINE part == p.score.part
                  parts == PartsOf(part)
      <3>1. PartsOK(part) /\ MeanOK(part, p.score.composite)
            BY DEF BenchInv, ScoresInv, ScoreOK
      <3>2. parts \subseteq Int /\ IsFiniteSet(parts)
        <4>1. parts \subseteq Int
              BY <3>1 DEF PartsOK, PartsOf
        <4>2. PICK f : f = [k \in DOMAIN part |-> part[k]]
              OBVIOUS
        <4>3. PICK D, T : D = DOMAIN part /\ T = {part[k] : k \in DOMAIN part}
              OBVIOUS
        <4>4. IsFiniteSet({f[k] : k \in DOMAIN part})
          <5>1. IsFiniteSet(D) /\ f \in [D -> T]
                BY <3>1, <4>2, <4>3 DEF PartsOK
          <5>2. IsFiniteSet({f[k] : k \in D})
                BY ONLY <5>1, FiniteImage
          <5>. QED BY <4>3, <5>2
        <4>5. parts \subseteq {f[k] : k \in DOMAIN part}
              BY <4>2 DEF PartsOf
        <4>6. IsFiniteSet(parts)
              BY <4>4, <4>5, FS_Subset
        <4>. QED BY <4>1, <4>6
      <3>3. parts # {}
            BY <2>1
      <3>. HIDE DEF parts
      <3>4. PICK low, high \in Int : /\ low = Lowest(parts) /\ \A y \in parts : low <= y
                                     /\ high = Highest(parts) /\ \A y \in parts : high >= y
            BY <3>2, <3>3, Extremes
      <3>5. \A y \in parts : y <= high
        <4>1. ASSUME NEW y \in parts PROVE y <= high
          <5>1. y \in Int /\ high >= y
                BY <3>2, <3>4
          <5>. QED BY ONLY <5>1, high \in Int
        <4>. QED BY <4>1
      <3>6. p.score.composite \in Int /\ low <= p.score.composite /\ p.score.composite <= high
            BY <3>1, <3>3, <3>4, <3>5 DEF MeanOK, parts
      <3>7. p.score.composite \in Lowest(parts)..Highest(parts)
            BY <3>4, <3>6
      <3>. QED BY <3>7 DEF parts
    <2>. QED BY <2>1 DEF CompositeBetweenParts, PartsOf
  <1>. QED BY <1>2, <1>4, <1>5

\* In BenchmarkScores every variable keeps its type, a host shows the score of its latest
\* suite unless that suite's scoring is open, failed or overtaken, and a composite lies
\* between its parts.
THEOREM BenchIsSafe ==
    BenchSpec => [](BenchTypeOK /\ LatestRunIsScored /\ CompositeBetweenParts)
  <1>. QED BY BenchInitInv, BenchStep, BenchSafe, PTL DEF BenchSpec

-----------------------------------------------------------------------------
(* ReputationLog: what is counted in a log *)

Logs == [Kind \X Weights -> Nat]

LEMMA KindsAre ==
    /\ Kind = {"approved", "revoked", "penalty", "heavy", "restore"} /\ IsFiniteSet(Kind)
    /\ \A k \in Kind : Kinds[k].delta \in Int
    /\ \A k \in Kind : Kinds[k].type = "violation_flagged" <=> k = "revoked"
    /\ IsFiniteSet(Kind \X Weights)
  <1>1. Kind = {"approved", "revoked", "penalty", "heavy", "restore"}
        BY DEF Kind, Kinds
  <1>2. \A k \in Kind : Kinds[k].delta \in Int
        BY DEF Kind, Kinds
  <1>3. \A k \in Kind : Kinds[k].type = "violation_flagged" <=> k = "revoked"
        BY DEF Kind, Kinds
  <1>4. IsFiniteSet(Kind)
    <2>1. Kind = ((({"approved"} \cup {"revoked"}) \cup {"penalty"}) \cup {"heavy"}) \cup {"restore"}
          BY <1>1
    <2>2. IsFiniteSet({"approved"})
          BY FS_Singleton
    <2>3. IsFiniteSet({"approved"} \cup {"revoked"})
          BY <2>2, FS_AddElement
    <2>4. IsFiniteSet(({"approved"} \cup {"revoked"}) \cup {"penalty"})
          BY <2>3, FS_AddElement
    <2>5. IsFiniteSet((({"approved"} \cup {"revoked"}) \cup {"penalty"}) \cup {"heavy"})
          BY <2>4, FS_AddElement
    <2>. QED BY <2>1, <2>5, FS_AddElement
  <1>5. IsFiniteSet(Weights)
    <2>1. Weights = {1} \cup {0}
          BY DEF Weights
    <2>2. IsFiniteSet({1})
          BY FS_Singleton
    <2>. QED BY <2>1, <2>2, FS_AddElement
  <1>6. IsFiniteSet(Kind \X Weights)
        BY <1>4, <1>5, FS_Product
  <1>. QED BY <1>1, <1>2, <1>3, <1>4, <1>6

LEMMA CountType ==
    ASSUME NEW l \in Logs, NEW type
    PROVE  Count(l, type) \in Nat /\ Events(l) \in Nat
  <1>. DEFINE S == {e \in Kind \X Weights : Kinds[e[1]].type = type}
  <1>1. IsFiniteSet(S)
        BY KindsAre, FS_Subset
  <1>2. \A e \in Kind \X Weights : l[e] \in Nat
        BY DEF Logs
  <1>3. SumFunctionOnSet(l, S) \in Nat
    <2>1. \A e \in S : l[e] \in Nat
          BY <1>2
    <2>. HIDE DEF S
    <2>. QED BY <1>1, <2>1, SumNat
  <1>4. SumFunctionOnSet(l, Kind \X Weights) \in Nat
        BY <1>2, KindsAre, SumNat
  <1>. QED BY <1>3, <1>4 DEF Count, Events

\* Whether an event has its weight or none, it is counted.
LEMMA ViolationsAre ==
    ASSUME NEW l \in Logs
    PROVE  Count(l, "violation_flagged") = l[<<"revoked", 1>>] + l[<<"revoked", 0>>]
  <1>1. PICK r, one, nought : r = "revoked" /\ one = 1 /\ nought = 0 /\ one # nought
        OBVIOUS
  <1>2. {e \in Kind \X Weights : Kinds[e[1]].type = "violation_flagged"} = {r} \X {one, nought}
        BY <1>1, KindsAre DEF Weights
  <1>3. r \in Kind /\ Weights = {one, nought}
        BY <1>1, KindsAre DEF Weights
  <1>4. l[<<r, one>>] \in Int /\ l[<<r, nought>>] \in Int
    <2>1. <<r, one>> \in Kind \X Weights /\ <<r, nought>> \in Kind \X Weights
          BY <1>3
    <2>. QED BY <2>1 DEF Logs
  <1>. DEFINE g == [k \in {r} |-> l[<<k, one>>] + l[<<k, nought>>]]
  <1>5. SumFunctionOnSet(l, {r} \X {one, nought}) = SumFunctionOnSet(g, {r})
    <2>1. PICK K : K = {r}
          OBVIOUS
    <2>2. IsFiniteSet(K)
          BY <2>1, FS_Singleton
    <2>3. AddsPairs(g, l, K, one, nought)
          BY <1>4, <2>1 DEF AddsPairs
    <2>. HIDE DEF g
    <2>4. PICK P : P = K \X {one, nought}
          OBVIOUS
    <2>5. SumFunctionOnSet(l, P) = SumFunctionOnSet(g, K)
          BY ONLY <1>1, <2>2, <2>3, <2>4, SumOfPairs
    <2>. QED BY <2>1, <2>4, <2>5
  <1>6. SumFunctionOnSet(g, {r}) = g[r] + SumFunctionOnSet(g, {})
    <2>1. IsFiniteSet({r}) /\ {r} \ {r} = {}
          BY FS_Singleton
    <2>2. \A k \in {r} : g[k] \in Int
          BY <1>4
    <2>. HIDE DEF g
    <2>3. SumFunctionOnSet(g, {r}) = g[r] + SumFunctionOnSet(g, {r} \ {r})
          BY <2>1, <2>2, SumRemove
    <2>. QED BY <2>1, <2>3
  <1>7. g[r] = l[<<r, one>>] + l[<<r, nought>>]
        OBVIOUS
  <1>8. SumFunctionOnSet(g, {}) = 0
        BY SumEmpty
  <1>9. Count(l, "violation_flagged") = SumFunctionOnSet(g, {r})
        BY <1>2, <1>5 DEF Count
  <1>. HIDE DEF g
  <1>10. PICK u, v \in Int : u = l[<<r, one>>] /\ v = l[<<r, nought>>]
         BY <1>4
  <1>11. Count(l, "violation_flagged") = u + v
         BY <1>6, <1>7, <1>8, <1>9, <1>10
  <1>. QED BY <1>1, <1>10, <1>11

LEMMA OneMore ==
    ASSUME NEW l \in Logs, NEW k \in Kind
    PROVE  LET m == [l EXCEPT ![<<k, 1>>] = @ + 1] IN
           /\ m \in Logs /\ Events(m) = Events(l) + 1
           /\ k # "revoked" => Count(m, "violation_flagged") = Count(l, "violation_flagged")
  <1>. DEFINE m == [l EXCEPT ![<<k, 1>>] = @ + 1]
  <1>1. PICK x : x = <<k, 1>> /\ x \in Kind \X Weights
    <2>1. 1 \in Weights
          BY DEF Weights
    <2>2. <<k, 1>> \in Kind \X Weights
          BY <2>1
    <2>. QED BY <2>2
  <1>2. m \in Logs
        BY <1>1 DEF Logs
  <1>3. /\ \A e \in Kind \X Weights : l[e] \in Int /\ m[e] \in Int
        /\ \A e \in (Kind \X Weights) \ {x} : l[e] = m[e]
        /\ m[x] = l[x] + 1
        BY <1>1, <1>2 DEF Logs
  <1>. HIDE DEF m
  <1>4. Events(m) = Events(l) + 1
    <2>1. SumFunctionOnSet(m, Kind \X Weights) = SumFunctionOnSet(l, Kind \X Weights) + (m[x] - l[x])
          BY <1>1, <1>3, KindsAre, SumChange
    <2>2. m[x] - l[x] = 1
          BY <1>1, <1>3
    <2>. QED BY <2>1, <2>2 DEF Events
  <1>5. ASSUME k # "revoked" PROVE Count(m, "violation_flagged") = Count(l, "violation_flagged")
    <2>1. /\ <<"revoked", 1>> \in (Kind \X Weights) \ {x} /\ <<"revoked", 0>> \in (Kind \X Weights) \ {x}
          BY <1>1, <1>5, KindsAre DEF Weights
    <2>2. m[<<"revoked", 1>>] = l[<<"revoked", 1>>] /\ m[<<"revoked", 0>>] = l[<<"revoked", 0>>]
          BY <1>3, <2>1
    <2>. QED BY <1>2, <2>2, ViolationsAre
  <1>. QED BY <1>2, <1>4, <1>5 DEF m

LEMMA FadedIsCounted ==
    ASSUME NEW l \in Logs, NEW m,
           m = [e \in Kind \X Weights |-> IF e[2] = 1 THEN 0 ELSE l[<<e[1], 0>>] + l[<<e[1], 1>>]]
    PROVE  /\ m \in Logs /\ Events(m) = Events(l)
           /\ Count(m, "violation_flagged") = Count(l, "violation_flagged")
  <1>1. PICK one, nought : one = 1 /\ nought = 0 /\ one # nought /\ Weights = {one, nought}
        BY DEF Weights
  <1>2. ASSUME NEW k \in Kind
        PROVE  /\ <<k, one>> \in Kind \X Weights /\ <<k, nought>> \in Kind \X Weights
               /\ l[<<k, one>>] \in Nat /\ l[<<k, nought>>] \in Nat
               /\ m[<<k, one>>] = 0 /\ m[<<k, nought>>] = l[<<k, nought>>] + l[<<k, one>>]
    <2>1. <<k, one>> \in Kind \X Weights /\ <<k, nought>> \in Kind \X Weights
          BY <1>1
    <2>2. l[<<k, one>>] \in Nat /\ l[<<k, nought>>] \in Nat
          BY <2>1 DEF Logs
    <2>. QED BY <1>1, <2>1, <2>2
  <1>3. m \in Logs
    <2>1. ASSUME NEW e \in Kind \X Weights PROVE m[e] \in Nat
      <3>1. PICK k \in Kind : e = <<k, one>> \/ e = <<k, nought>>
            BY <1>1
      <3>2. PICK u, v \in Nat : u = l[<<k, nought>>] /\ v = l[<<k, one>>]
            BY <1>2
      <3>3. m[<<k, one>>] = 0 /\ m[<<k, nought>>] = u + v
            BY ONLY <1>2, <3>2, k \in Kind
      <3>4. u + v \in Nat
            BY ONLY u \in Nat, v \in Nat
      <3>. QED BY <3>1, <3>3, <3>4
    <2>. QED BY <2>1 DEF Logs
  <1>. DEFINE f == [k \in Kind |-> l[<<k, one>>] + l[<<k, nought>>]]
              g == [k \in Kind |-> m[<<k, one>>] + m[<<k, nought>>]]
  <1>4. ASSUME NEW k \in Kind
        PROVE  /\ l[<<k, one>>] \in Int /\ l[<<k, nought>>] \in Int
               /\ m[<<k, one>>] \in Int /\ m[<<k, nought>>] \in Int
               /\ m[<<k, one>>] + m[<<k, nought>>] = l[<<k, one>>] + l[<<k, nought>>]
    <2>1. PICK u, v, p, q : /\ u = l[<<k, one>>] /\ v = l[<<k, nought>>]
                            /\ p = m[<<k, one>>] /\ q = m[<<k, nought>>]
          OBVIOUS
    <2>2. u \in Nat /\ v \in Nat /\ p = 0 /\ q = v + u
          BY ONLY <1>2, <2>1, k \in Kind
    <2>3. u \in Int /\ v \in Int /\ p \in Int /\ q \in Int /\ p + q = u + v
          BY ONLY <2>2
    <2>. QED BY ONLY <2>1, <2>3
  <1>5. Events(l) = SumFunctionOnSet(f, Kind)
    <2>1. AddsPairs(f, l, Kind, one, nought)
          BY <1>4 DEF AddsPairs
    <2>. HIDE DEF f
    <2>2. SumFunctionOnSet(l, Kind \X Weights) = SumFunctionOnSet(f, Kind)
      <3>1. PICK K, P : K = Kind /\ P = K \X {one, nought} /\ P = Kind \X Weights /\ IsFiniteSet(K)
            BY <1>1, KindsAre
      <3>2. SumFunctionOnSet(l, P) = SumFunctionOnSet(f, K)
            BY ONLY <1>1, <2>1, <3>1, SumOfPairs
      <3>. QED BY <3>1, <3>2
    <2>. QED BY <2>2 DEF Events
  <1>6. Events(m) = SumFunctionOnSet(g, Kind)
    <2>1. AddsPairs(g, m, Kind, one, nought)
          BY <1>4 DEF AddsPairs
    <2>. HIDE DEF g
    <2>2. SumFunctionOnSet(m, Kind \X Weights) = SumFunctionOnSet(g, Kind)
      <3>1. PICK K, P : K = Kind /\ P = K \X {one, nought} /\ P = Kind \X Weights /\ IsFiniteSet(K)
            BY <1>1, KindsAre
      <3>2. SumFunctionOnSet(m, P) = SumFunctionOnSet(g, K)
            BY ONLY <1>1, <2>1, <3>1, SumOfPairs
      <3>. QED BY <3>1, <3>2
    <2>. QED BY <2>2 DEF Events
  <1>7. SumFunctionOnSet(f, Kind) = SumFunctionOnSet(g, Kind)
    <2>1. \A k \in Kind : f[k] = g[k]
          BY ONLY <1>4
    <2>. HIDE DEF f, g
    <2>. QED BY <2>1, KindsAre, SumSame
  <1>8. Count(m, "violation_flagged") = Count(l, "violation_flagged")
    <2>1. PICK r \in Kind : r = "revoked"
          BY KindsAre
    <2>2. m[<<r, one>>] + m[<<r, nought>>] = l[<<r, one>>] + l[<<r, nought>>]
          BY ONLY <1>4
    <2>3. /\ Count(m, "violation_flagged") = m[<<r, one>>] + m[<<r, nought>>]
          /\ Count(l, "violation_flagged") = l[<<r, one>>] + l[<<r, nought>>]
          BY ONLY <1>1, <1>3, <2>1, ViolationsAre, l \in Logs
    <2>. QED BY ONLY <2>2, <2>3
  <1>. QED BY <1>3, <1>5, <1>6, <1>7, <1>8

LEMMA ScoreType == ASSUME NEW l \in Logs PROVE Score(l) \in 0..1000
  <1>. DEFINE f == [e \in Kind \X Weights |-> l[e] * Kinds[e[1]].delta * e[2]]
  <1>1. \A e \in Kind \X Weights : f[e] \in Int
    <2>1. ASSUME NEW e \in Kind \X Weights PROVE f[e] \in Int
      <3>1. PICK a, b, c \in Int : a = l[e] /\ b = Kinds[e[1]].delta /\ c = e[2]
        <4>1. e[1] \in Kind /\ e[2] \in Int /\ l[e] \in Int
              BY DEF Weights, Logs
        <4>. QED BY <4>1, KindsAre
      <3>2. a * b * c \in Int
            BY ONLY a \in Int, b \in Int, c \in Int
      <3>. QED BY <3>1, <3>2
    <2>. QED BY <2>1
  <1>2. Score(l) = Clamp(0, 1000, 500 + SumFunctionOnSet(f, Kind \X Weights))
        BY DEF Score
  <1>. HIDE DEF f
  <1>3. PICK s \in Int : s = SumFunctionOnSet(f, Kind \X Weights)
        BY <1>1, KindsAre, SumType
  <1>. QED BY <1>2, <1>3 DEF Clamp

LEMMA TrustType ==
    ASSUME NEW l \in Logs, NEW old \in TrustState
    PROVE  /\ TrustAfter(l, old) \in TrustState
           /\ Count(l, "violation_flagged") > 0 => TrustAfter(l, old) = "flagged"
  <1>1. PICK c, x \in Int : c = Count(l, "violation_flagged") /\ x = Score(l) /\ c >= 0
        BY CountType, ScoreType
  <1>2. CASE c > 0 \/ x < 250
    <2>1. ~ (c = 0 /\ x >= 250)
          BY <1>2
    <2>2. TrustAfter(l, old) = "flagged"
          BY <1>1, <1>2, <2>1 DEF TrustAfter
    <2>. QED BY <2>2 DEF TrustState
  <1>3. CASE ~ (c > 0 \/ x < 250)
    <2>1. c = 0 /\ x >= 250
          BY <1>1, <1>3
    <2>2. TrustAfter(l, old) = (IF Count(l, "job_completed") = 0 THEN old
                                ELSE IF Score(l) >= 800 /\ Count(l, "job_completed") >= 10
                                THEN "established" ELSE "building_trust")
          BY <1>1, <1>3, <2>1 DEF TrustAfter
    <2>. QED BY <1>1, <1>3, <2>2 DEF TrustState
  <1>. QED BY <1>2, <1>3

-----------------------------------------------------------------------------
(* The inductive invariant *)

SnapshotOK(p) ==
    /\ p.at \in Nat /\ 1 <= p.at /\ p.score \in 0..1000 /\ p.events \in Nat

\* What was computed and not yet committed: it differs from what is stored, and where no
\* other computation was open it counts what all earlier snapshots count.
ComputedOK(x) ==
    /\ x.kind \in AdminKinds /\ x.violations \in Nat
    /\ x.read \in TrustState \cup {"unread"} /\ x.becomes \in [TrustState -> TrustState]
    /\ x.violations > 0 => \A old \in TrustState : x.becomes[old] = "flagged"
    /\ SnapshotOK(x.snapshot) /\ x.snapshot.events <= Events(log) + 1
    /\ \A p \in snapshots :
          /\ p.at # x.snapshot.at
          /\ x.snapshot.alone /\ p.at < x.snapshot.at => p.events <= x.snapshot.events
          /\ p.alone => p.at < x.snapshot.at

VisitOK(s) ==
    \/ visit[s] = Closed
    \/ visit[s].step = "emitted" /\ visit[s].kind \in Kind
    \/ visit[s].step = "computed" /\ ComputedOK(visit[s])

\* Of two open computations the one that began alone is the earlier.
SideBySide(r, s) ==
    visit[r].step = "computed" /\ visit[s].step = "computed" =>
        /\ visit[r].snapshot.at # visit[s].snapshot.at
        /\ visit[s].snapshot.alone => visit[s].snapshot.at < visit[r].snapshot.at

SnapshotsInv ==
    /\ IsFiniteSet(snapshots)
    /\ \A p \in snapshots : SnapshotOK(p) /\ p.events <= Events(log)
    /\ \A p, q \in snapshots : p.at = q.at => p = q
    /\ CountsGrow

ShownOK ==
    /\ shown \in [score : Int, points : SUBSET Int]
    /\ shown # Unread =>
          IF shown.points = {} THEN \E p \in snapshots : p.at = shown.score
          ELSE \/ shown.score \in shown.points
               \/ Cardinality({x \in shown.points : x > shown.score}) = TrendLength

RepInv ==
    /\ log \in Logs /\ trust \in TrustState /\ unseen \in BOOLEAN
    /\ DOMAIN visit = RepSessions /\ recompute \in 0..(MaxRetries + 1)
    /\ SnapshotsInv
    /\ \A s \in RepSessions : VisitOK(s)
    /\ \A r, s \in RepSessions : r # s => SideBySide(r, s)
    /\ ViolationIsFlagged /\ ShownOK

LEMMA RepInitInv == RepInit => RepInv
  <1>. SUFFICES ASSUME RepInit PROVE RepInv
       OBVIOUS
  <1>1. PICK n \in History : log = [e \in Kind \X Weights |-> IF e = <<"approved", 1>> THEN n ELSE 0]
        BY DEF RepInit
  <1>2. log \in Logs
        BY <1>1, RepAssumption DEF Logs
  <1>3. Count(log, "violation_flagged") = 0
    <2>1. <<"revoked", 1>> \in Kind \X Weights /\ <<"revoked", 0>> \in Kind \X Weights
          BY KindsAre DEF Weights
    <2>2. log[<<"revoked", 1>>] = 0 /\ log[<<"revoked", 0>>] = 0
          BY <1>1, <2>1
    <2>. QED BY <1>2, <2>2, ViolationsAre
  <1>4. /\ snapshots = {} /\ unseen = FALSE /\ visit = [s \in RepSessions |-> Closed]
        /\ shown = Unread /\ recompute = 0 /\ trust \in {"unverified", "building_trust"}
        BY DEF RepInit
  <1>5. SnapshotsInv
        BY <1>4, FS_EmptySet DEF SnapshotsInv, CountsGrow
  <1>6. ShownOK
        BY <1>4 DEF ShownOK, Unread
  <1>7. ViolationIsFlagged
        BY <1>3 DEF ViolationIsFlagged
  <1>8. recompute \in 0..(MaxRetries + 1)
        BY <1>4, RepAssumption
  <1>9. \A s \in RepSessions : VisitOK(s) /\ visit[s].step # "computed"
        BY <1>4 DEF VisitOK, Closed
  <1>10. unseen \in BOOLEAN
         BY <1>4
  <1>. QED BY <1>2, <1>4, <1>5, <1>6, <1>7, <1>8, <1>9, <1>10 DEF RepInv, SideBySide, TrustState

\* Now is as late as every computation, stored or open.
LEMMA NowIsLast ==
    ASSUME IsFiniteSet(snapshots), \A p \in snapshots : p.at \in Nat,
           \A s \in RepSessions : visit[s].step = "computed" => visit[s].snapshot.at \in Nat
    PROVE  /\ Now \in Nat
           /\ \A p \in snapshots : p.at <= Now
           /\ \A s \in RepSessions : visit[s].step = "computed" => visit[s].snapshot.at <= Now
  <1>. DEFINE D == {r \in RepSessions : visit[r].step = "computed"}
              A == {p.at : p \in snapshots}
              B == {visit[s].snapshot.at : s \in D}
              f == [p \in snapshots |-> p.at]
              g == [s \in D |-> visit[s].snapshot.at]
  <1>1. IsFiniteSet(A)
    <2>1. f \in [snapshots -> Nat] /\ A = {f[p] : p \in snapshots}
          OBVIOUS
    <2>2. IsFiniteSet({f[p] : p \in snapshots})
      <3>. HIDE DEF f, A
      <3>. QED BY <2>1, FiniteImage
    <2>. HIDE DEF f, A
    <2>. QED BY <2>1, <2>2
  <1>2. IsFiniteSet(B)
    <2>1. g \in [D -> Nat] /\ B = {g[s] : s \in D}
          OBVIOUS
    <2>2. IsFiniteSet(D)
          BY RepAssumption, FS_Subset
    <2>3. IsFiniteSet({g[s] : s \in D})
      <3>. HIDE DEF g, B, D
      <3>. QED BY <2>1, <2>2, FiniteImage
    <2>. HIDE DEF g, B, D
    <2>. QED BY <2>1, <2>3
  <1>3. A \subseteq Nat /\ B \subseteq Nat
        OBVIOUS
  <1>4. PICK z \in Nat : z = 0
        OBVIOUS
  <1>5. PICK S : S = ({z} \cup A) \cup B
        OBVIOUS
  <1>6. IsFiniteSet(S) /\ S \subseteq Nat /\ S \subseteq Int /\ S # {}
    <2>. HIDE DEF A, B
    <2>1. IsFiniteSet({z} \cup A)
          BY <1>1, FS_Singleton, FS_Union
    <2>2. IsFiniteSet(({z} \cup A) \cup B)
          BY <1>2, <2>1, FS_Union
    <2>. QED BY <1>3, <1>5, <2>2
  <1>7. Now = Max(S)
        BY <1>4, <1>5 DEF Now
  <1>8. PICK k \in S : k = Now /\ \A y \in S : y <= k
    <2>1. Max(S) \in S /\ \A y \in S : y <= Max(S)
          BY ONLY <1>6, MaxOf
    <2>. QED BY <1>7, <2>1
  <1>9. \A p \in snapshots : p.at \in S
        BY <1>5
  <1>10. \A s \in RepSessions : visit[s].step = "computed" => visit[s].snapshot.at \in S
         BY <1>5
  <1>. QED BY <1>6, <1>8, <1>9, <1>10

LEMMA RepNow ==
    ASSUME RepInv
    PROVE  /\ Now \in Nat
           /\ \A p \in snapshots : p.at \in Nat /\ p.at <= Now
           /\ \A s \in RepSessions : visit[s].step = "computed" =>
                 ComputedOK(visit[s]) /\ visit[s].snapshot.at \in Nat /\ visit[s].snapshot.at <= Now
  <1>1. IsFiniteSet(snapshots) /\ \A p \in snapshots : p.at \in Nat
        BY DEF RepInv, SnapshotsInv, SnapshotOK
  <1>2. \A s \in RepSessions : visit[s].step = "computed" =>
            ComputedOK(visit[s]) /\ visit[s].snapshot.at \in Nat
    <2>1. ASSUME NEW s \in RepSessions, visit[s].step = "computed"
          PROVE  ComputedOK(visit[s]) /\ visit[s].snapshot.at \in Nat
      <3>1. VisitOK(s)
            BY DEF RepInv
      <3>2. ComputedOK(visit[s])
            BY <2>1, <3>1 DEF VisitOK, Closed
      <3>. QED BY <3>2 DEF ComputedOK, SnapshotOK
    <2>. QED BY <2>1
  <1>. QED BY <1>1, <1>2, NowIsLast

-----------------------------------------------------------------------------
(* The steps *)

LEMMA AdminKindsAre ==
    AdminKinds \subseteq Kind /\ "revoked" \notin AdminKinds /\ Severe("revoked")
  <1>1. AdminKinds \subseteq Kind /\ "revoked" \notin AdminKinds
        BY KindsAre DEF AdminKinds
  <1>2. Kinds["revoked"].type = "violation_flagged"
        BY KindsAre
  <1>. QED BY <1>1, <1>2 DEF Severe

\* A step of one session that commits nothing.
LEMMA RepKept ==
    ASSUME RepInv, NEW s \in RepSessions,
           UNCHANGED <<log, trust, snapshots, unseen, shown, recompute>>,
           DOMAIN visit' = RepSessions, \A r \in RepSessions \ {s} : visit'[r] = visit[r],
           VisitOK(s)',
           \A r \in RepSessions \ {s} : SideBySide(r, s)' /\ SideBySide(s, r)'
    PROVE  RepInv'
  <1>1. SnapshotsInv'
        BY DEF RepInv, SnapshotsInv, CountsGrow
  <1>2. ShownOK'
        BY DEF RepInv, ShownOK
  <1>3. ViolationIsFlagged'
        BY DEF RepInv, ViolationIsFlagged
  <1>4. \A x : ComputedOK(x) => ComputedOK(x)'
        BY DEF ComputedOK
  <1>5. ASSUME NEW r \in RepSessions PROVE VisitOK(r)'
    <2>1. CASE r = s
          BY <2>1
    <2>2. CASE r # s
      <3>1. VisitOK(r) /\ visit'[r] = visit[r]
            BY <2>2 DEF RepInv
      <3>. QED BY <1>4, <3>1 DEF VisitOK
    <2>. QED BY <2>1, <2>2
  <1>6. ASSUME NEW r \in RepSessions, NEW t \in RepSessions, r # t PROVE SideBySide(r, t)'
    <2>1. CASE r = s \/ t = s
          BY <1>6, <2>1
    <2>2. CASE r # s /\ t # s
      <3>1. SideBySide(r, t) /\ visit'[r] = visit[r] /\ visit'[t] = visit[t]
            BY <1>6, <2>2 DEF RepInv
      <3>. QED BY <3>1 DEF SideBySide
    <2>. QED BY <2>1, <2>2
  <1>. QED BY <1>1, <1>2, <1>3, <1>5, <1>6 DEF RepInv

LEMMA RepEmits ==
    ASSUME RepInv, NEW s \in RepSessions, NEW k \in Kind, Emit(s, k)
    PROVE  RepInv'
  <1>1. PICK x : x = [step |-> "emitted", kind |-> k]
        OBVIOUS
  <1>2. /\ visit' = [visit EXCEPT ![s] = x]
        /\ UNCHANGED <<log, trust, snapshots, unseen, shown, recompute>>
        BY <1>1 DEF Emit
  <1>3. /\ visit'[s] = x /\ DOMAIN visit' = RepSessions
        /\ \A r \in RepSessions \ {s} : visit'[r] = visit[r]
        BY <1>2 DEF RepInv
  <1>4. VisitOK(s)'
        BY <1>1, <1>3 DEF VisitOK
  <1>5. visit'[s].step # "computed"
        BY <1>1, <1>3
  <1>6. \A r \in RepSessions \ {s} : SideBySide(r, s)' /\ SideBySide(s, r)'
        BY <1>5 DEF SideBySide
  <1>. QED BY <1>2, <1>3, <1>4, <1>6, RepKept

LEMMA RepRollsBack ==
    ASSUME RepInv, NEW s \in RepSessions, RepRollback(s)
    PROVE  RepInv'
  <1>2. /\ visit' = [visit EXCEPT ![s] = Closed]
        /\ UNCHANGED <<log, trust, snapshots, unseen, shown, recompute>>
        BY DEF RepRollback
  <1>3. /\ visit'[s] = Closed /\ DOMAIN visit' = RepSessions
        /\ \A r \in RepSessions \ {s} : visit'[r] = visit[r]
        BY <1>2 DEF RepInv
  <1>4. VisitOK(s)'
        BY <1>3 DEF VisitOK
  <1>5. visit'[s].step # "computed"
        BY <1>3 DEF Closed
  <1>6. \A r \in RepSessions \ {s} : SideBySide(r, s)' /\ SideBySide(s, r)'
        BY <1>5 DEF SideBySide
  <1>. QED BY <1>2, <1>3, <1>4, <1>6, RepKept

LEMMA RepComputes ==
    ASSUME RepInv, NEW s \in RepSessions, Recompute(s)
    PROVE  RepInv'
  <1>1. PICK k \in AdminKinds : visit[s].kind = k /\ visit[s].step = "emitted"
        BY DEF Recompute
  <1>3. PICK l \in Logs : l = Added(s) /\ Events(l) = Events(log) + 1
                          /\ Count(l, "violation_flagged") = Count(log, "violation_flagged")
    <2>1. k \in Kind /\ k # "revoked" /\ log \in Logs
          BY AdminKindsAre DEF RepInv
    <2>2. Added(s) = [log EXCEPT ![<<k, 1>>] = @ + 1]
          BY <1>1 DEF Added
    <2>. QED BY <2>1, <2>2, OneMore
  <1>4. PICK now \in Nat : now = Now
        BY RepNow
  <1>5. PICK p : p = [at |-> now + 1, score |-> Score(l), events |-> Events(l),
                      alone |-> \A r \in RepSessions \ {s} : visit[r].step # "computed"]
        OBVIOUS
  <1>2. PICK b : b = [old \in TrustState |-> TrustAfter(l, old)]
        OBVIOUS
  <1>6. PICK x : x = [step |-> "computed", kind |-> k, read |-> "unread", becomes |-> b,
                      violations |-> Count(log, "violation_flagged"), snapshot |-> p]
        OBVIOUS
  <1>7. /\ visit' = [visit EXCEPT ![s] = x]
        /\ UNCHANGED <<log, trust, snapshots, unseen, shown, recompute>>
        BY <1>1, <1>2, <1>3, <1>4, <1>5, <1>6 DEF Recompute
  <1>8. /\ visit'[s] = x /\ DOMAIN visit' = RepSessions
        /\ \A r \in RepSessions \ {s} : visit'[r] = visit[r]
        BY <1>7 DEF RepInv
  <1>9. /\ x.step = "computed" /\ x.kind = k /\ x.read = "unread" /\ x.becomes = b
        /\ x.violations = Count(log, "violation_flagged") /\ x.snapshot = p
        BY <1>6
  <1>10. /\ p.at = now + 1 /\ p.score = Score(l) /\ p.events = Events(l)
         /\ p.alone => \A r \in RepSessions \ {s} : visit[r].step # "computed"
         BY <1>5
  <1>11. PICK n, c \in Nat : n = Events(log) /\ c = Count(log, "violation_flagged")
         BY CountType DEF RepInv
  <1>12. p.events = n + 1
         BY <1>3, <1>10, <1>11
  <1>13. ComputedOK(x)'
    <2>1. /\ x.becomes \in [TrustState -> TrustState] /\ x.violations \in Nat
          /\ x.violations > 0 => \A old \in TrustState : x.becomes[old] = "flagged"
      <3>1. \A old \in TrustState :
                TrustAfter(l, old) \in TrustState /\ (c > 0 => TrustAfter(l, old) = "flagged")
            BY <1>3, <1>11, TrustType
      <3>. QED BY <1>2, <1>9, <1>11, <3>1
    <2>2. SnapshotOK(p)
      <3>1. p.at \in Nat /\ 1 <= p.at /\ p.events \in Nat
            BY <1>10, <1>12
      <3>2. p.score \in 0..1000
            BY <1>10, ScoreType
      <3>. QED BY <3>1, <3>2 DEF SnapshotOK
    <2>3. Events(log') = n /\ p.events <= n + 1
          BY <1>7, <1>11, <1>12
    <2>4. ASSUME NEW q \in snapshots
          PROVE  q.at # p.at /\ q.events <= p.events /\ q.at < p.at
      <3>1. PICK a, e \in Nat : a = q.at /\ a <= now /\ e = q.events /\ e <= n
            BY <1>4, <1>11, RepNow DEF RepInv, SnapshotsInv, SnapshotOK
      <3>2. a # now + 1 /\ e <= n + 1 /\ a < now + 1
            BY ONLY <3>1, n \in Nat, now \in Nat
      <3>. QED BY <1>10, <1>12, <3>1, <3>2
    <2>. QED BY <1>7, <1>9, <2>1, <2>2, <2>3, <2>4 DEF ComputedOK
  <1>14. VisitOK(s)'
         BY <1>8, <1>9, <1>13 DEF VisitOK
  <1>15. ASSUME NEW r \in RepSessions \ {s} PROVE SideBySide(r, s)' /\ SideBySide(s, r)'
    <2>1. visit'[r] = visit[r] /\ visit'[s].snapshot = p
          BY <1>8, <1>9
    <2>2. CASE visit[r].step # "computed"
          BY <2>1, <2>2 DEF SideBySide
    <2>3. CASE visit[r].step = "computed"
      <3>1. PICK a \in Nat : a = visit[r].snapshot.at /\ a <= now
            BY <1>4, <2>3, RepNow
      <3>2. a # now + 1 /\ a < now + 1
            BY <3>1
      <3>3. ~ p.alone
            BY <1>10, <2>3
      <3>. QED BY <1>10, <2>1, <3>1, <3>2, <3>3 DEF SideBySide
    <2>. QED BY <2>2, <2>3
  <1>. QED BY <1>7, <1>8, <1>14, <1>15, RepKept

LEMMA RepReadsTrust ==
    ASSUME RepInv, NEW s \in RepSessions, ReadTrust(s)
    PROVE  RepInv'
  <1>1. PICK x : x = visit[s] /\ x.step = "computed" /\ ComputedOK(x)
        BY RepNow DEF ReadTrust
  <1>2. PICK old \in TrustState : old = (IF Severe(x.kind) THEN "flagged" ELSE trust)
        BY DEF RepInv, TrustState
  <1>3. PICK y : y = [x EXCEPT !.read = old]
        OBVIOUS
  <1>4. /\ visit' = [visit EXCEPT ![s] = y]
        /\ UNCHANGED <<log, trust, snapshots, unseen, shown, recompute>>
        BY <1>1, <1>2, <1>3 DEF ReadTrust
  <1>5. /\ visit'[s] = y /\ DOMAIN visit' = RepSessions
        /\ \A r \in RepSessions \ {s} : visit'[r] = visit[r]
        BY <1>4 DEF RepInv
  <1>6. /\ y.step = "computed" /\ y.kind = x.kind /\ y.becomes = x.becomes
        /\ y.violations = x.violations /\ y.snapshot = x.snapshot
        /\ y.read \in TrustState \cup {"unread"}
    <2>1. x.read \in TrustState \cup {"unread"}
          BY <1>1 DEF ComputedOK
    <2>2. y.read = old \/ y.read = x.read
          BY <1>3
    <2>. QED BY <1>1, <1>2, <1>3, <2>1, <2>2
  <1>7. VisitOK(s)'
    <2>1. ComputedOK(y)'
          BY <1>1, <1>4, <1>6 DEF ComputedOK
    <2>. QED BY <1>5, <1>6, <2>1 DEF VisitOK
  <1>8. ASSUME NEW r \in RepSessions \ {s} PROVE SideBySide(r, s)' /\ SideBySide(s, r)'
    <2>1. SideBySide(r, s) /\ SideBySide(s, r)
          BY DEF RepInv
    <2>. QED BY <1>1, <1>5, <1>6, <2>1 DEF SideBySide
  <1>. QED BY <1>4, <1>5, <1>7, <1>8, RepKept

LEMMA RepFades ==
    ASSUME RepInv, WeightsFade
    PROVE  RepInv'
  <1>1. PICK m : m = [e \in Kind \X Weights |-> IF e[2] = 1 THEN 0 ELSE log[<<e[1], 0>>] + log[<<e[1], 1>>]]
        OBVIOUS
  <1>2. /\ log' = m /\ UNCHANGED <<trust, snapshots, visit, unseen, shown, recompute>>
        /\ \A s \in RepSessions : ~ Opened(s)
        BY <1>1 DEF WeightsFade
  <1>3. log \in Logs
        BY DEF RepInv
  <1>4. log' \in Logs /\ Events(log') = Events(log)
        /\ Count(log', "violation_flagged") = Count(log, "violation_flagged")
    <2>1. m \in Logs /\ Events(m) = Events(log)
          /\ Count(m, "violation_flagged") = Count(log, "violation_flagged")
          BY ONLY <1>1, <1>3, FadedIsCounted
    <2>. QED BY <1>2, <2>1
  <1>5. SnapshotsInv'
        BY <1>2, <1>4 DEF RepInv, SnapshotsInv, CountsGrow
  <1>6. ShownOK'
        BY <1>2 DEF RepInv, ShownOK
  <1>7. ViolationIsFlagged'
        BY <1>2, <1>4 DEF RepInv, ViolationIsFlagged
  <1>8. ASSUME NEW s \in RepSessions PROVE VisitOK(s)' /\ visit'[s].step # "computed"
    <2>1. visit[s].step = "closed" /\ VisitOK(s)
          BY <1>2 DEF Opened, RepInv
    <2>2. visit[s] = Closed
          BY <2>1 DEF VisitOK
    <2>. QED BY <1>2, <2>1, <2>2 DEF VisitOK
  <1>9. \A r, s \in RepSessions : SideBySide(r, s)'
        BY <1>8 DEF SideBySide
  <1>. QED BY <1>2, <1>4, <1>5, <1>6, <1>7, <1>8, <1>9 DEF RepInv

LEMMA RepCommits ==
    ASSUME RepInv, NEW s \in RepSessions, RepCommit(s)
    PROVE  RepInv'
  <1>1. PICK v : v = visit[s] /\ v.kind \in Kind
                 /\ \/ v.step = "emitted" /\ v.kind \notin AdminKinds
                    \/ v.step = "computed" /\ ComputedOK(v)
    <2>1. VisitOK(s)
          BY DEF RepInv
    <2>2. visit[s].step = (IF Opened(s) /\ visit[s].kind \in AdminKinds THEN "computed" ELSE "emitted")
          BY DEF RepCommit
    <2>3. CASE visit[s].step = "computed"
      <3>1. ComputedOK(visit[s])
            BY <2>1, <2>3 DEF VisitOK, Closed
      <3>. QED BY <2>3, <3>1, AdminKindsAre DEF ComputedOK
    <2>4. CASE visit[s].step # "computed"
      <3>1. visit[s].step = "emitted"
            BY <2>2, <2>4
      <3>2. visit[s].kind \notin AdminKinds
            BY <2>2, <2>4, <3>1 DEF Opened
      <3>. QED BY <2>1, <2>4, <3>1, <3>2 DEF VisitOK, Closed
    <2>. QED BY <2>3, <2>4
  <1>2. PICK k \in Kind : k = v.kind
        BY <1>1
  <1>3. PICK l \in Logs : /\ l = Added(s) /\ Events(l) = Events(log) + 1
                          /\ k # "revoked" => Count(l, "violation_flagged") = Count(log, "violation_flagged")
    <2>1. log \in Logs
          BY DEF RepInv
    <2>2. Added(s) = [log EXCEPT ![<<k, 1>>] = @ + 1]
          BY <1>1, <1>2 DEF Added
    <2>. QED BY <2>1, <2>2, OneMore
  <1>4. /\ log' = l /\ visit' = [visit EXCEPT ![s] = Closed] /\ UNCHANGED <<shown, recompute>>
        /\ snapshots' = IF v.step = "computed" THEN snapshots \cup {v.snapshot} ELSE snapshots
        BY <1>1, <1>3 DEF RepCommit
  <1>5. /\ visit'[s] = Closed /\ DOMAIN visit' = RepSessions
        /\ \A r \in RepSessions \ {s} : visit'[r] = visit[r]
        BY <1>4 DEF RepInv
  <1>6. PICK n, c \in Nat : n = Events(log) /\ c = Count(log, "violation_flagged")
        BY CountType DEF RepInv
  <1>7. Events(log') = n + 1
        BY <1>3, <1>4, <1>6
  <1>8. /\ trust' \in TrustState /\ unseen' \in BOOLEAN /\ ViolationIsFlagged'
    <2>1. CASE Rewrites(s)
      <3>1. v.step = "computed" /\ ComputedOK(v)
            BY <1>1, <2>1 DEF Rewrites
      <3>0. PICK new \in TrustState : /\ new = v.becomes[v.read]
                                      /\ v.violations > 0 => new = "flagged"
        <4>1. v.read \in TrustState
              BY <1>1, <3>1 DEF RepCommit, ComputedOK
        <4>. QED BY <3>1, <4>1 DEF ComputedOK
      <3>2. trust' = new /\ (unseen' <=> v.violations < c) /\ unseen' \in BOOLEAN
        <4>1. trust' = new
              BY <1>1, <2>1, <3>0 DEF RepCommit
        <4>2. PICK o : o = (v.violations < c)
              OBVIOUS
        <4>3. o \in BOOLEAN
              BY <4>2
        <4>4. unseen' = o
              BY <1>1, <1>6, <2>1, <4>2 DEF RepCommit
        <4>. QED BY <4>1, <4>2, <4>3, <4>4
      <3>3. k # "revoked"
            BY <1>2, <3>1, AdminKindsAre DEF ComputedOK
      <3>4. Count(log', "violation_flagged") = c
            BY <1>3, <1>4, <1>6, <3>3
      <3>5. PICK w \in Nat : w = v.violations /\ (w > 0 => new = "flagged")
            BY <3>0, <3>1 DEF ComputedOK
      <3>6. c > 0 => w > 0 \/ w < c
            BY ONLY c \in Nat, w \in Nat
      <3>7. ViolationIsFlagged'
            BY <3>2, <3>4, <3>5, <3>6 DEF ViolationIsFlagged
      <3>. QED BY <3>2, <3>7
    <2>2. CASE ~ Rewrites(s) /\ Severe(k)
      <3>1. trust' = "flagged" /\ unseen' = (unseen /\ trust' # "flagged")
            BY <1>1, <1>2, <2>2 DEF RepCommit
      <3>2. PICK o : o = (unseen /\ trust' # "flagged")
            OBVIOUS
      <3>3. o \in BOOLEAN
            BY <3>2
      <3>. QED BY <3>1, <3>2, <3>3 DEF ViolationIsFlagged, TrustState
    <2>3. CASE ~ Rewrites(s) /\ ~ Severe(k)
      <3>1. trust' = trust /\ unseen' = (unseen /\ trust' # "flagged")
            BY <1>1, <1>2, <2>3 DEF RepCommit
      <3>2. PICK o : o = (unseen /\ trust' # "flagged")
            OBVIOUS
      <3>3. o \in BOOLEAN
            BY <3>2
      <3>4. k # "revoked"
            BY <2>3, AdminKindsAre
      <3>5. Count(log', "violation_flagged") = Count(log, "violation_flagged")
            BY <1>3, <1>4, <3>4
      <3>6. ViolationIsFlagged'
            BY <3>1, <3>5 DEF RepInv, ViolationIsFlagged
      <3>. QED BY <3>1, <3>2, <3>3, <3>6 DEF RepInv
    <2>. QED BY <2>1, <2>2, <2>3
  <1>9. ASSUME NEW p \in snapshots PROVE SnapshotOK(p) /\ p.events <= n + 1
    <2>1. SnapshotOK(p) /\ p.events <= n /\ p.events \in Nat
          BY <1>6 DEF RepInv, SnapshotsInv, SnapshotOK
    <2>. QED BY <2>1
  <1>10. ASSUME v.step = "computed"
         PROVE  /\ ComputedOK(v) /\ SnapshotOK(v.snapshot) /\ v.snapshot.events <= n + 1
                /\ v.snapshot.at \in Nat
                /\ \A p \in snapshots :
                      /\ p.at # v.snapshot.at
                      /\ v.snapshot.alone /\ p.at < v.snapshot.at => p.events <= v.snapshot.events
                      /\ p.alone => ~ (v.snapshot.at < p.at)
    <2>1. ComputedOK(v)
          BY <1>1, <1>10
    <2>2. \A p \in snapshots : p.alone => ~ (v.snapshot.at < p.at)
      <3>1. ASSUME NEW p \in snapshots, p.alone PROVE ~ (v.snapshot.at < p.at)
        <4>1. PICK a, b \in Nat : a = p.at /\ b = v.snapshot.at /\ a < b
              BY <2>1, <3>1, <1>9 DEF ComputedOK, SnapshotOK
        <4>2. ~ (b < a)
              BY ONLY <4>1
        <4>. QED BY <4>1, <4>2
      <3>. QED BY <3>1
    <2>. QED BY <1>6, <2>1, <2>2 DEF ComputedOK, SnapshotOK
  <1>11. SnapshotsInv'
    <2>1. CASE v.step # "computed"
          BY <1>4, <1>7, <1>9, <2>1 DEF RepInv, SnapshotsInv, CountsGrow
    <2>2. CASE v.step = "computed"
      <3>. DEFINE new == v.snapshot
      <3>1. snapshots' = snapshots \cup {new}
            BY <1>4, <2>2
      <3>2. IsFiniteSet(snapshots')
            BY <3>1, FS_AddElement DEF RepInv, SnapshotsInv
      <3>3. /\ SnapshotOK(new) /\ new.events <= n + 1 /\ ~ (new.at < new.at)
            /\ \A p \in snapshots :
                  /\ p.at # new.at
                  /\ new.alone /\ p.at < new.at => p.events <= new.events
                  /\ p.alone => ~ (new.at < p.at)
            BY <1>10, <2>2
      <3>. HIDE DEF new
      <3>4. \A p \in snapshots' : SnapshotOK(p) /\ p.events <= Events(log')
            BY <1>7, <1>9, <3>1, <3>3
      <3>5. \A p, q \in snapshots' : p.at = q.at => p = q
            BY <3>1, <3>3 DEF RepInv, SnapshotsInv
      <3>6. \A p, q \in snapshots' : p.at < q.at /\ q.alone => p.events <= q.events
            BY <3>1, <3>3 DEF RepInv, SnapshotsInv, CountsGrow
      <3>. QED BY <3>2, <3>4, <3>5, <3>6 DEF SnapshotsInv, CountsGrow
    <2>. QED BY <2>1, <2>2
  <1>12. ASSUME NEW r \in RepSessions PROVE VisitOK(r)'
    <2>1. CASE r = s
          BY <1>5, <2>1 DEF VisitOK
    <2>2. CASE r # s
      <3>1. VisitOK(r) /\ visit'[r] = visit[r]
            BY <1>5, <2>2 DEF RepInv
      <3>2. CASE visit[r].step # "computed"
            BY <3>1, <3>2 DEF VisitOK
      <3>3. CASE visit[r].step = "computed"
        <4>1. PICK x : x = visit[r] /\ ComputedOK(x)
              BY <3>3, RepNow
        <4>2. PICK e \in Nat : e = x.snapshot.events /\ e <= n + 1
              BY <1>6, <4>1 DEF ComputedOK, SnapshotOK
        <4>3. e <= (n + 1) + 1
              BY ONLY <4>2, n \in Nat
        <4>4. ASSUME v.step = "computed"
              PROVE  /\ v.snapshot.at # x.snapshot.at
                     /\ x.snapshot.alone => ~ (v.snapshot.at < x.snapshot.at)
                     /\ v.snapshot.alone => v.snapshot.at < x.snapshot.at
          <5>1. SideBySide(r, s) /\ SideBySide(s, r)
                BY <2>2 DEF RepInv
          <5>2. /\ v.snapshot.at # x.snapshot.at
                /\ x.snapshot.alone => x.snapshot.at < v.snapshot.at
                /\ v.snapshot.alone => v.snapshot.at < x.snapshot.at
                BY <1>1, <3>3, <4>1, <4>4, <5>1 DEF SideBySide
          <5>3. PICK a, b \in Nat : a = v.snapshot.at /\ b = x.snapshot.at
                BY ZenonT(40), <1>10, <4>1, <4>4 DEF ComputedOK, SnapshotOK
          <5>4. b < a => ~ (a < b)
                BY ONLY a \in Nat, b \in Nat
          <5>. QED BY <5>2, <5>3, <5>4
        <4>5. ComputedOK(x)'
          <5>1. x.snapshot.events <= Events(log') + 1
                BY <1>7, <4>2, <4>3
          <5>2. ASSUME NEW p \in snapshots'
                PROVE  /\ p.at # x.snapshot.at
                       /\ x.snapshot.alone /\ p.at < x.snapshot.at => p.events <= x.snapshot.events
                       /\ p.alone => p.at < x.snapshot.at
            <6>1. CASE p \in snapshots
                  BY <4>1, <6>1 DEF ComputedOK
            <6>2. CASE p \notin snapshots
              <7>1. v.step = "computed" /\ p = v.snapshot
                    BY <1>4, <6>2
              <7>. QED BY <4>4, <7>1
            <6>. QED BY <6>1, <6>2
          <5>. QED BY <4>1, <5>1, <5>2 DEF ComputedOK
        <4>6. visit'[r] = x /\ x.step = "computed"
              BY <3>1, <3>3, <4>1
        <4>. QED BY <4>5, <4>6 DEF VisitOK
      <3>. QED BY <3>2, <3>3
    <2>. QED BY <2>1, <2>2
  <1>13. ASSUME NEW r \in RepSessions, NEW t \in RepSessions, r # t PROVE SideBySide(r, t)'
    <2>1. CASE r = s \/ t = s
          BY <1>5, <2>1 DEF SideBySide, Closed
    <2>2. CASE r # s /\ t # s
      <3>1. SideBySide(r, t) /\ visit'[r] = visit[r] /\ visit'[t] = visit[t]
            BY <1>5, <1>13, <2>2 DEF RepInv
      <3>. QED BY <3>1 DEF SideBySide
    <2>. QED BY <2>1, <2>2
  <1>14. ShownOK'
    <2>1. snapshots \subseteq snapshots' /\ shown' = shown
          BY <1>4
    <2>. QED BY <2>1 DEF RepInv, ShownOK
  <1>15. log' \in Logs /\ recompute' \in 0..(MaxRetries + 1)
         BY <1>3, <1>4 DEF RepInv
  <1>. QED BY <1>5, <1>8, <1>11, <1>12, <1>13, <1>14, <1>15 DEF RepInv

-----------------------------------------------------------------------------
(* The readers *)

\* A step of a reader or of the task, which no session sees.
LEMMA RepShown ==
    ASSUME RepInv, UNCHANGED <<log, trust, snapshots, visit, unseen>>,
           recompute' \in 0..(MaxRetries + 1), ShownOK'
    PROVE  RepInv'
  <1>1. SnapshotsInv'
        BY DEF RepInv, SnapshotsInv, CountsGrow
  <1>2. ViolationIsFlagged'
        BY DEF RepInv, ViolationIsFlagged
  <1>3. \A x : ComputedOK(x) => ComputedOK(x)'
        BY DEF ComputedOK
  <1>4. \A s \in RepSessions : VisitOK(s)'
        BY <1>3 DEF RepInv, VisitOK
  <1>5. \A r, s \in RepSessions : r # s => SideBySide(r, s)'
        BY DEF RepInv, SideBySide
  <1>. QED BY <1>1, <1>2, <1>4, <1>5 DEF RepInv

LEMMA NewestIsTop ==
    ASSUME RepInv, NEW n \in Nat
    PROVE  LET f == [p \in snapshots |-> p.at] IN
           /\ Newest(n) = TopOf(f, snapshots, n)
           /\ IsFiniteSet(snapshots) /\ f \in [snapshots -> Int]
           /\ \A p, q \in snapshots : f[p] = f[q] => p = q
  <1>. DEFINE f == [p \in snapshots |-> p.at]
  <1>1. IsFiniteSet(snapshots) /\ f \in [snapshots -> Int]
        BY DEF RepInv, SnapshotsInv, SnapshotOK
  <1>2. \A p, q \in snapshots : f[p] = f[q] => p = q
        BY DEF RepInv, SnapshotsInv
  <1>3. \A p \in snapshots : Above(f, snapshots, p) = {q \in snapshots : q.at > p.at}
        BY DEF Above
  <1>4. Newest(n) = TopOf(f, snapshots, n)
        BY <1>3 DEF Newest, TopOf
  <1>. QED BY <1>1, <1>2, <1>4

\* The newest TrendLength snapshots hold one that was read, or are all newer.
LEMMA TrendOrFull ==
    ASSUME RepInv, NEW p \in snapshots, NEW n \in Nat
    PROVE  LET points == {q.at : q \in Newest(n)} IN
           \/ p.at \in points
           \/ Cardinality({x \in points : x > p.at}) = n
  <1>. DEFINE f == [q \in snapshots |-> q.at]
              points == {q.at : q \in Newest(n)}
  <1>1. /\ Newest(n) = TopOf(f, snapshots, n)
        /\ IsFiniteSet(snapshots) /\ f \in [snapshots -> Int]
        /\ \A x, y \in snapshots : f[x] = f[y] => x = y
        BY NewestIsTop
  <1>2. \A q \in snapshots : f[q] = q.at
        OBVIOUS
  <1>. HIDE DEF f
  <1>3. CASE p \in Newest(n)
        BY <1>3
  <1>4. CASE p \notin Newest(n)
    <2>1. PICK S : S = Above(f, snapshots, p)
          OBVIOUS
    <2>2. IsFiniteSet(S) /\ S \subseteq snapshots
          BY <1>1, <2>1, FS_Subset DEF Above
    <2>3. PICK c, d \in Nat : c = Cardinality(S) /\ d = Cardinality(snapshots) /\ c <= d
          BY <1>1, <2>2, FS_Subset, FS_CardinalityType
    <2>4. n <= c
          BY <1>1, <1>4, <2>1, <2>3 DEF TopOf
    <2>5. n <= Cardinality(snapshots)
      <3>1. n <= d
            BY ONLY <2>3, <2>4, n \in Nat
      <3>. QED BY <2>3, <3>1
    <2>6. Cardinality(Newest(n)) = n
          BY <1>1, <2>5, TopHasLength
    <2>7. ASSUME NEW q \in Newest(n) PROVE q \in snapshots /\ f[q] > f[p]
      <3>1. q \in snapshots /\ Cardinality(Above(f, snapshots, q)) < n
            BY <1>1 DEF TopOf
      <3>2. CASE f[q] > f[p]
            BY <3>1, <3>2
      <3>3. CASE ~ (f[q] > f[p])
        <4>1. S \subseteq Above(f, snapshots, q)
          <5>1. ASSUME NEW y \in S PROVE f[y] > f[q]
            <6>1. PICK u, v, w \in Int : u = f[y] /\ v = f[q] /\ w = f[p]
                  BY <1>1, <2>2, <3>1
            <6>2. u > w /\ ~ (v > w)
                  BY <2>1, <3>3, <6>1 DEF Above
            <6>3. u > v
                  BY ONLY <6>2, u \in Int, v \in Int, w \in Int
            <6>. QED BY <6>1, <6>3
          <5>. QED BY <2>2, <5>1 DEF Above
        <4>2. IsFiniteSet(Above(f, snapshots, q))
              BY <1>1, FS_Subset DEF Above
        <4>3. PICK e \in Nat : e = Cardinality(Above(f, snapshots, q)) /\ c <= e
              BY <2>3, <4>1, <4>2, FS_Subset, FS_CardinalityType
        <4>4. e < n
              BY <3>1, <4>3
        <4>5. FALSE
              BY ONLY <2>4, <4>3, <4>4, c \in Nat, e \in Nat, n \in Nat
        <4>. QED BY <4>5
      <3>. QED BY <3>2, <3>3
    <2>8. Cardinality(points) = n
      <3>. DEFINE g == [q \in Newest(n) |-> q.at]
      <3>1. IsFiniteSet(Newest(n))
        <4>1. Newest(n) \subseteq snapshots
              BY <2>7
        <4>. QED BY <1>1, <4>1, FS_Subset
      <3>2. g \in [Newest(n) -> Int] /\ points = {g[q] : q \in Newest(n)}
            BY <1>1, <1>2, <2>7
      <3>3. \A x, y \in Newest(n) : g[x] = g[y] => x = y
            BY <1>1, <1>2, <2>7
      <3>. HIDE DEF g, points
      <3>4. Cardinality({g[q] : q \in Newest(n)}) = Cardinality(Newest(n))
            BY ONLY <3>1, <3>2, <3>3, InjectiveImage
      <3>. QED BY <2>6, <3>2, <3>4
    <2>9. {x \in points : x > p.at} = points
          BY <1>2, <2>7
    <2>. QED BY <2>8, <2>9
  <1>. QED BY <1>3, <1>4

LEMMA RepShowsScore == ASSUME RepInv, ShowScore PROVE RepInv'
  <1>1. /\ UNCHANGED <<log, trust, snapshots, visit, unseen, recompute>>
        /\ shown' = IF snapshots = {} THEN Unread
                    ELSE [score |-> (CHOOSE p \in Newest(1) : TRUE).at, points |-> {}]
        BY DEF ShowScore
  <1>2. ShownOK'
    <2>1. CASE snapshots = {}
          BY <1>1, <2>1 DEF ShownOK, Unread
    <2>2. CASE snapshots # {}
      <3>1. PICK p : p \in Newest(1) /\ p = (CHOOSE q \in Newest(1) : TRUE)
        <4>. DEFINE f == [q \in snapshots |-> q.at]
                    ats == {f[q] : q \in snapshots}
        <4>1. IsFiniteSet(snapshots) /\ f \in [snapshots -> Int]
              BY NewestIsTop
        <4>2. IsFiniteSet(ats)
          <5>. HIDE DEF f
          <5>. QED BY ONLY <4>1, FiniteImage
        <4>3. ats \subseteq Int /\ ats # {}
          <5>. HIDE DEF f
          <5>. QED BY <2>2, <4>1
        <4>4. Max(ats) \in ats /\ \A y \in ats : y <= Max(ats)
          <5>. HIDE DEF ats
          <5>. QED BY <4>2, <4>3, MaxOf
        <4>5. PICK k : k = Max(ats)
              OBVIOUS
        <4>6. PICK q \in snapshots : q.at = k /\ \A r \in snapshots : r.at <= k
              BY <4>4, <4>5
        <4>7. \A r \in snapshots : ~ (r.at > q.at)
          <5>1. ASSUME NEW r \in snapshots PROVE ~ (r.at > q.at)
            <6>1. r.at \in Nat /\ q.at \in Nat /\ r.at <= q.at
                  BY <4>6 DEF RepInv, SnapshotsInv, SnapshotOK
            <6>. QED BY ONLY <6>1
          <5>. QED BY <5>1
        <4>8. {r \in snapshots : r.at > q.at} = {}
              BY <4>7
        <4>9. Cardinality({r \in snapshots : r.at > q.at}) < 1
              BY <4>8, FS_EmptySet
        <4>10. q \in Newest(1)
               BY <4>9 DEF Newest
        <4>. QED BY <4>10
      <3>2. p \in snapshots /\ p.at \in Int
            BY <3>1 DEF Newest, RepInv, SnapshotsInv, SnapshotOK
      <3>3. shown' = [score |-> p.at, points |-> {}]
            BY <1>1, <2>2, <3>1
      <3>4. /\ shown' \in [score : Int, points : SUBSET Int]
            /\ shown'.score = p.at /\ shown'.points = {}
            BY <3>2, <3>3
      <3>. QED BY <1>1, <3>2, <3>4 DEF ShownOK
    <2>. QED BY <2>1, <2>2
  <1>. QED BY <1>1, <1>2, RepShown DEF RepInv

LEMMA RepShowsTrend == ASSUME RepInv, ShowTrend PROVE RepInv'
  <1>1. /\ UNCHANGED <<log, trust, snapshots, visit, unseen, recompute>> /\ shown # Unread
        /\ shown' = IF shown.points = {}
                    THEN [shown EXCEPT !.points = {p.at : p \in Newest(TrendLength)}]
                    ELSE Unread
        BY DEF ShowTrend
  <1>2. ShownOK'
    <2>1. CASE shown.points # {}
          BY <1>1, <2>1 DEF ShownOK, Unread
    <2>2. CASE shown.points = {}
      <3>1. PICK p \in snapshots : p.at = shown.score
            BY <1>1, <2>2 DEF RepInv, ShownOK
      <3>. DEFINE points == {q.at : q \in Newest(TrendLength)}
      <3>2. \/ p.at \in points
            \/ Cardinality({x \in points : x > p.at}) = TrendLength
            BY RepAssumption, TrendOrFull
      <3>3. points \subseteq Int
        <4>1. ASSUME NEW q \in Newest(TrendLength) PROVE q.at \in Int
              BY DEF Newest, RepInv, SnapshotsInv, SnapshotOK
        <4>. QED BY <4>1
      <3>4. shown \in [score : Int, points : SUBSET Int] /\ shown' = [shown EXCEPT !.points = points]
            BY <1>1, <2>2 DEF RepInv, ShownOK
      <3>. HIDE DEF points
      <3>5. /\ shown' \in [score : Int, points : SUBSET Int]
            /\ shown'.score = p.at /\ shown'.points = points
            BY <3>1, <3>3, <3>4
      <3>. QED BY <1>1, <3>2, <3>5 DEF ShownOK
    <2>. QED BY <2>1, <2>2
  <1>. QED BY <1>1, <1>2, RepShown DEF RepInv

LEMMA RepStep == ASSUME RepInv, [RepNext]_repVars PROVE RepInv'
  <1>1. CASE UNCHANGED repVars
    <2>1. UNCHANGED <<log, trust, snapshots, visit, unseen, shown, recompute>>
          BY <1>1 DEF repVars
    <2>2. ShownOK' /\ recompute' \in 0..(MaxRetries + 1)
          BY <2>1 DEF RepInv, ShownOK
    <2>. QED BY <2>1, <2>2, RepShown
  <1>2. CASE RecomputeFails
    <2>1. /\ UNCHANGED <<log, trust, snapshots, visit, unseen, shown>>
          /\ recompute <= MaxRetries /\ recompute' = recompute + 1
          BY <1>2 DEF RecomputeFails
    <2>2. recompute' \in 0..(MaxRetries + 1)
          BY <2>1, RepAssumption DEF RepInv
    <2>3. ShownOK'
          BY <2>1 DEF RepInv, ShownOK
    <2>. QED BY <2>1, <2>2, <2>3, RepShown
  <1>3. CASE RepNext /\ ~ RecomputeFails
        BY <1>3, RepEmits, RepComputes, RepReadsTrust, RepCommits, RepRollsBack, RepFades,
           RepShowsScore, RepShowsTrend DEF RepNext
  <1>. QED BY <1>1, <1>2, <1>3

LEMMA RepSafe == RepInv => RepTypeOK /\ ViolationIsFlagged /\ CountsGrow /\ TrendHasScore
  <1>. SUFFICES ASSUME RepInv PROVE RepTypeOK /\ ViolationIsFlagged /\ CountsGrow /\ TrendHasScore
       OBVIOUS
  <1>1. \A p \in snapshots : p.score \in 0..1000 /\ p.at \in 1..Now
        BY RepNow DEF RepInv, SnapshotsInv, SnapshotOK
  <1>2. log \in [Kind \X Weights -> Nat]
        BY DEF RepInv, Logs
  <1>3. TrendHasScore
        BY DEF RepInv, ShownOK, TrendHasScore
  <1>. QED BY <1>1, <1>2, <1>3 DEF RepInv, RepTypeOK, SnapshotsInv

\* In ReputationLog every variable keeps its type, a recorded violation flags the host
\* unless it was committed behind a recomputation, a later snapshot counts no fewer
\* events, and a page's trend holds the score the page shows.
THEOREM ReputationIsSafe ==
    RepSpec => [](RepTypeOK /\ ViolationIsFlagged /\ CountsGrow /\ TrendHasScore)
  <1>. QED BY RepInitInv, RepStep, RepSafe, PTL DEF RepSpec

-----------------------------------------------------------------------------
(* The components in one specification: a step of a scene is one of its     *)
(* component, and leaves the others alone.                                  *)

LEMMA SceneInit ==
    TrustInit =>
       /\ RepInit /\ BenchInit /\ GpuInit /\ PricingInit /\ AuditInit
       /\ FpInit /\ VerdictInit /\ TemplateInit /\ ConsensusInit /\ StakesInit
  BY DEF TrustInit

LEMMA SceneStep ==
    ASSUME [TrustNext]_<<scene, trustVars>>
    PROVE  /\ [RepNext]_repVars
           /\ [BenchNext]_benchVars
           /\ [GpuNext]_gpuVars
           /\ [PricingNext]_pricingVars
           /\ [AuditNext]_auditVars
           /\ [FpNext]_fpVars
           /\ [VerdictNext]_verdictVars
           /\ [TemplateNext]_templateVars
           /\ [ConsensusNext]_consensusVars
           /\ [StakesNext]_stakeVars
  <1>1. CASE UNCHANGED trustVars
        BY <1>1 DEF trustVars
  <1>2. CASE TrustNext
        BY <1>2 DEF TrustNext
  <1>. QED BY <1>1, <1>2 DEF trustVars

\* Reputation, benchmarks, market statistics and prices stay safe (the
\* reputation_pricing_service) for every number of sessions, hosts and models.
THEOREM ReputationStaysSafe == TrustSpec => []ReputationSafety
  <1>1. TrustSpec => RepSpec
        BY SceneInit, SceneStep, PTL DEF TrustSpec, RepSpec
  <1>2. TrustSpec => BenchSpec
        BY SceneInit, SceneStep, PTL DEF TrustSpec, BenchSpec
  <1>3. TrustSpec => GpuSpec
        BY SceneInit, SceneStep, PTL DEF TrustSpec, GpuSpec
  <1>4. TrustSpec => PricingSpec
        BY SceneInit, SceneStep, PTL DEF TrustSpec, PricingSpec
  <1>. QED BY <1>1, <1>2, <1>3, <1>4, ReputationIsSafe, BenchIsSafe, GpuIsSafe, PricingIsSafe, PTL
           DEF ReputationSafety

\* The audit chain and its checkpoints, device fingerprints, verdicts on launches and
\* workloads (the security_service), templates and their web interfaces' tokens (the
\* provisioning_service) stay safe for every number of writers, accounts and images.
THEOREM SecurityStaysSafe == TrustSpec => []SecuritySafety
  <1>1. TrustSpec => AuditSpec
        BY SceneInit, SceneStep, PTL DEF TrustSpec, AuditSpec
  <1>2. TrustSpec => FpSpec
        BY SceneInit, SceneStep, PTL DEF TrustSpec, FpSpec
  <1>3. TrustSpec => VerdictSpec
        BY SceneInit, SceneStep, PTL DEF TrustSpec, VerdictSpec
  <1>4. TrustSpec => TemplateSpec
        BY SceneInit, SceneStep, PTL DEF TrustSpec, TemplateSpec
  <1>. QED BY <1>1, <1>2, <1>3, <1>4, AuditIsSafe, FpIsSafe, VerdictsAreSafe, TemplateIsSafe, PTL
           DEF SecuritySafety

\* Consensus, stakes and escrows stay safe (bft_consensus_guard.py, sybil_staking.py,
\* escrow_slashing.py) for every number of nodes and hosts.
THEOREM StakesStaySafe == TrustSpec => []StakesSafety
  <1>1. TrustSpec => ConsensusSpec
        BY SceneInit, SceneStep, PTL DEF TrustSpec, ConsensusSpec
  <1>2. TrustSpec => StakesSpec
        BY SceneInit, SceneStep, PTL DEF TrustSpec, StakesSpec
  <1>. QED BY <1>1, <1>2, ConsensusIsSafe, StakesAreSafe, PTL DEF StakesSafety

\* No step of the security service (image_scanner.py, runtime_monitor.py, trust_tier.py)
\* answers what is worse more mildly.
THEOREM WorseStaysAsBad == TrustSpec => WorseIsNeverMilder
  <1>1. TrustSpec => VerdictSpec
        BY SceneInit, SceneStep, PTL DEF TrustSpec, VerdictSpec
  <1>. QED BY <1>1, VerdictsAreSafe, PTL

\* A statistic others have read is dropped only by a refresh that is out of date
\* (benchmark_analytics.py), and a committed digest is rewritten only by another view
\* (bft_consensus_guard.py).
THEOREM TakenBackStaysCaused == TrustSpec => TakenBackForCause
  <1>1. TrustSpec => GpuSpec
        BY SceneInit, SceneStep, PTL DEF TrustSpec, GpuSpec
  <1>2. TrustSpec => ConsensusSpec
        BY SceneInit, SceneStep, PTL DEF TrustSpec, ConsensusSpec
  <1>. QED BY <1>1, <1>2, GpuIsSafe, ConsensusIsSafe, PTL DEF TakenBackForCause
=============================================================================
