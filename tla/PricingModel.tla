----------------------------- MODULE PricingModel -----------------------------
(***************************************************************************)
(* Price suggestions: the regression model is a singleton of each process, *)
(* retrained in a Celery worker and asked for prices in the API process,   *)
(* which falls back to the median of the GPU class. Prices are in hundredths*)
(* of a cent; how the regression predicts is left open.                    *)
(***************************************************************************)
EXTENDS Integers, FiniteSetsExt

CONSTANTS
    Processes,      \* processes that import the module; one, Worker, runs the tasks
    Worker,
    Medians,        \* prices the class table holds
    Predictions,    \* what a trained model may predict
    Floor, Cap,     \* pricing_floor_usd, pricing_cap_usd
    MinRows, MaxMarket, \* rows a training needs; bound: active listings
    MaxTrainings, MaxQuotes    \* bounds

ASSUME PricingAssumption ==
    /\ Worker \in Processes /\ Processes # {Worker}
    /\ Medians \cup {Floor, Cap} \subseteq Nat /\ Predictions \subseteq Int
    /\ Floor <= Cap /\ {MinRows, MaxMarket, MaxTrainings, MaxQuotes} \subseteq Nat

VARIABLES
    market,     \* active listings
    model,      \* version each process holds; 0 is untrained
    versions,   \* versions given out so far
    training,   \* the task's rows, between its read and the end of its fit
    quotes,     \* committed pricing_suggestions
    idleTask    \* runs of the idle batch, none of which ends well

pricingVars == <<market, model, versions, training, quotes, idleTask>>

NoTask == -1

PricingInit ==
    /\ market \in 0..MaxMarket /\ versions = 0 /\ training = NoTask /\ quotes = {}
    /\ model = [p \in Processes |-> 0] /\ idleTask = 0

-----------------------------------------------------------------------------
(* train_or_refresh_pricing_model.                                          *)

ListingsChange ==
    /\ \E n \in 0..MaxMarket : n # market /\ market' = n
    /\ UNCHANGED <<model, versions, training, quotes, idleTask>>

\* The counts before the rows compare parameters without a type with NULL: a database that
\* does not take them fails the task until its next beat.
TrainReads ==
    /\ training = NoTask
    /\ training' \in {market, NoTask}
    /\ UNCHANGED <<market, model, versions, quotes, idleTask>>

\* Under ten rows the model stays as it is.
Enough(rows) == rows >= MinRows

TrainEnds ==
    /\ training # NoTask /\ (Enough(training) => versions < MaxTrainings)
    /\ IF Enough(training)
       THEN /\ versions' = versions + 1
            /\ model' = [model EXCEPT ![Worker] = versions']
       ELSE UNCHANGED <<model, versions>>
    /\ training' = NoTask
    /\ UNCHANGED <<market, quotes, idleTask>>

\* A restart empties the singleton; the worker's task is delivered again.
Restart(p) ==
    /\ model' = [model EXCEPT ![p] = 0]
    /\ training' = IF p = Worker THEN NoTask ELSE training
    /\ UNCHANGED <<market, versions, quotes, idleTask>>

\* The batch selects hosts by a status there is not, from a table there is not.
IdleBatchFails ==
    /\ idleTask = 0 /\ idleTask' = 1
    /\ UNCHANGED <<market, model, versions, training, quotes>>

-----------------------------------------------------------------------------
(* GET /pricing/suggest.                                                    *)

Clamped(x) == Max({Floor, Min({Cap, x})})

MUT_Interval(x) == <<(x * 85) \div 100, (x * 115) \div 100>>

Interval(x) == <<Max({Floor, (x * 85) \div 100}), Min({Cap, (x * 115) \div 100})>>

\* The process the route's singleton lives in.
Serving == CHOOSE p \in Processes : p # Worker

\* A quote of median m, or of prediction x by the process's model.
Quote(p, m, x) ==
    LET price == Clamped(IF model[p] = 0 THEN m ELSE Max({100, x})) IN
    [price |-> price, between |-> Interval(price), version |-> model[p],
     median |-> m, rows |-> market]

Suggest(m, x) ==
    /\ Cardinality(quotes) < MaxQuotes
    /\ quotes' = quotes \cup {Quote(Serving, m, x)}
    /\ UNCHANGED <<market, model, versions, training, idleTask>>

PricingNext ==
    \/ ListingsChange \/ TrainReads \/ TrainEnds \/ IdleBatchFails
    \/ \E p \in Processes : Restart(p)
    \/ \E m \in Medians, x \in Predictions : Suggest(m, x)

PricingSpec == PricingInit /\ [][PricingNext]_pricingVars

-----------------------------------------------------------------------------
(* Properties *)

\* Every variable keeps its type.
PricingTypeOK ==
    /\ market \in 0..MaxMarket /\ versions \in 0..MaxTrainings
    /\ model \in [Processes -> 0..versions] /\ training \in {NoTask} \cup 0..MaxMarket
    /\ \A q \in quotes : q.version \in 0..versions /\ q.rows \in 0..MaxMarket

\* A quote stays within floor and cap, and its price within its interval, whatever
\* the model predicts.
QuoteWithinRails ==
    \A q \in quotes : /\ Floor <= q.between[1] /\ q.between[1] <= q.price
                      /\ q.price <= q.between[2] /\ q.between[2] <= Cap

-----------------------------------------------------------------------------
(* A claim of the code's own text that its behaviour contradicts *)

\* pricing.py: the singleton falls back to the median "if no model exists yet"; the task
\* "calls train() to refresh it".
TrainingReachesQuotes ==
    [][\A q \in quotes' \ quotes : model[Worker] > 0 => q.version > 0]_pricingVars
=============================================================================
