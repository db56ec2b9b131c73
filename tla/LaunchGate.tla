------------------------------- MODULE LaunchGate -------------------------------
(***************************************************************************)
(* What POST /instances checks before an instance exists: the validation   *)
(* gate reads the listing, its host and the wallet in a transaction of its *)
(* own, the scheduler asks the services again, asks for the hold, and only *)
(* then is the row inserted.  Nothing is locked, so each answer may be old *)
(* when it is used.  One listing; what becomes of the row afterwards is    *)
(* InstanceLifecycle, and its audit row is left out.                       *)
(***************************************************************************)
EXTENDS Naturals, FiniteSets, SequencesExt

CONSTANTS
    Tenants,        \* developers
    InrTenants,     \* those whose wallet has INR as its preferred currency
    LaunchWorkers,  \* requests that may run at a time
    NoTenant,
    HoldPrices,     \* what hold_hours of the listing may cost
    Balances,       \* what a wallet's balance_usd may be
    Vram, Needs,    \* gpu_vram_gb of the listing; required_gpu_vram_gb of templates
    MaxRented,      \* bound: instances
    MaxEdits        \* bound: changes of the listing, its host and the wallets

ASSUME LaunchAssumption ==
    /\ NoTenant \notin Tenants /\ InrTenants \subseteq Tenants
    /\ HoldPrices \subseteq Nat /\ Balances \subseteq Nat
    /\ Needs \subseteq Nat /\ {Vram, MaxRented, MaxEdits} \subseteq Nat

VARIABLES
    facts,    \* which of Facts hold now
    price,    \* what the hold costs now
    edits,    \* changes so far
    purse,    \* balance_usd of each tenant
    launch,   \* what each request has read, and its next step
    rented    \* the committed instances, in their order

launchVars == <<facts, price, edits, purse, launch, rented>>

\* The listing is active and named by the Redis index; its host is verified, and the
\* newest heartbeat is young and idle.
Facts == {"active", "indexed", "verified", "idle"}
LaunchStep == {"quiet", "listing", "host", "account", "fetchListing", "fetchBalance",
               "hold", "insert"}

\* Three ghosts of what has been so since the request was asked: unseen, the facts that
\* never held; prices, what the hold has cost; most, the most its wallet has shown.
NoLaunch == [step |-> "quiet", tenant |-> NoTenant, need |-> 0, cost |-> 0,
             unseen |-> {}, prices |-> {}, most |-> 0]

LaunchInit ==
    /\ facts = Facts /\ price \in HoldPrices /\ edits = 0
    /\ purse \in [Tenants -> Balances]
    /\ launch = [w \in LaunchWorkers |-> NoLaunch] /\ rented = <<>>

Asks(w, t, need) ==
    /\ launch[w].step = "quiet"
    /\ launch' = [launch EXCEPT ![w] =
          [step |-> "listing", tenant |-> t, need |-> need, cost |-> 0,
           unseen |-> Facts \ facts, prices |-> {price}, most |-> purse[t]]]
    /\ UNCHANGED <<facts, price, edits, purse, rented>>

\* A check is passed; it changes nothing but the request.
Passes(w, from, to) ==
    /\ launch[w].step = from /\ launch' = [launch EXCEPT ![w].step = to]
    /\ UNCHANGED <<facts, price, edits, purse, rented>>

\* A check that remembers what the hold costs now.
PassesWithCost(w, from, to) ==
    /\ launch[w].step = from
    /\ launch' = [launch EXCEPT ![w].step = to, ![w].cost = price]
    /\ UNCHANGED <<facts, price, edits, purse, rented>>

GateListing(w) == "active" \in facts /\ PassesWithCost(w, "listing", "host")

MUT_GateHost(w) == "idle" \in facts /\ Passes(w, "host", "account")
GateHost(w) == {"verified", "idle"} \subseteq facts /\ Passes(w, "host", "account")

\* A wallet in INR is judged by its INR balance, which says nothing of the USD one.
GateAccount(w) ==
    /\ launch[w].step = "account"
    /\ launch[w].tenant \in InrTenants \/ purse[launch[w].tenant] >= launch[w].cost
    /\ Passes(w, "account", "fetchListing")

FetchListing(w) ==
    /\ {"active", "indexed"} \subseteq facts /\ launch[w].need <= Vram
    /\ PassesWithCost(w, "fetchListing", "fetchBalance")

FetchBalance(w) ==
    /\ launch[w].step = "fetchBalance" /\ purse[launch[w].tenant] >= launch[w].cost
    /\ Passes(w, "fetchBalance", "hold")

\* The host's address is asked for, then the hold.  No service implements the route of
\* the hold: its answer is any, and what it would do to a wallet is left open.
PlaceHold(w) == Passes(w, "hold", "insert")

Insert(w) ==
    LET q == launch[w] IN
    /\ q.step = "insert" /\ Len(rented) < MaxRented
    /\ rented' = Append(rented, [tenant |-> q.tenant, need |-> q.need, hold |-> q.cost,
                                 unseen |-> q.unseen, prices |-> q.prices, most |-> q.most])
    /\ launch' = [launch EXCEPT ![w] = NoLaunch]
    /\ UNCHANGED <<facts, price, edits, purse>>

\* A check refuses, a service does not answer, the broker or the database fails or the
\* process dies: nothing was written, for the row of a rejection is rolled back with
\* the gate's transaction.
Abandons(w) ==
    /\ launch[w].step # "quiet" /\ launch' = [launch EXCEPT ![w] = NoLaunch]
    /\ UNCHANGED <<facts, price, edits, purse, rented>>

\* The other services change what is true of the listing and its host ...
Turns(fact) ==
    /\ edits < MaxEdits /\ edits' = edits + 1
    /\ facts' = SymDiff(facts, {fact})
    /\ launch' = [w \in LaunchWorkers |-> [launch[w] EXCEPT !.unseen = @ \ facts']]
    /\ UNCHANGED <<price, purse, rented>>

\* ... its owner changes the price ...
Reprices(p) ==
    /\ edits < MaxEdits /\ edits' = edits + 1 /\ price' = p
    /\ launch' = [w \in LaunchWorkers |->
          IF launch[w].step = "quiet" THEN launch[w]
          ELSE [launch[w] EXCEPT !.prices = @ \cup {p}]]
    /\ UNCHANGED <<facts, purse, rented>>

\* ... and top-ups, debits and refunds the balance.
PurseMoves(t, usd) ==
    /\ edits < MaxEdits /\ edits' = edits + 1
    /\ purse' = [purse EXCEPT ![t] = usd]
    /\ launch' = [w \in LaunchWorkers |->
          IF launch[w].tenant = t /\ usd > launch[w].most
          THEN [launch[w] EXCEPT !.most = usd] ELSE launch[w]]
    /\ UNCHANGED <<facts, price, rented>>

LaunchNext ==
    \/ \E w \in LaunchWorkers :
          \/ \E t \in Tenants, need \in Needs : Asks(w, t, need)
          \/ GateListing(w) \/ GateHost(w) \/ GateAccount(w)
          \/ FetchListing(w) \/ FetchBalance(w) \/ PlaceHold(w)
          \/ Insert(w) \/ Abandons(w)
    \/ \E fact \in Facts : Turns(fact)
    \/ \E p \in HoldPrices \ {price} : Reprices(p)
    \/ \E t \in Tenants, usd \in Balances : PurseMoves(t, usd)

LaunchSpec == LaunchInit /\ [][LaunchNext]_launchVars

-----------------------------------------------------------------------------

\* Every variable keeps its type.
LaunchTypeOK ==
    /\ facts \subseteq Facts /\ price \in HoldPrices /\ edits \in 0..MaxEdits
    /\ purse \in [Tenants -> Balances]
    /\ launch \in [LaunchWorkers ->
           [step : LaunchStep, tenant : Tenants \cup {NoTenant}, need : Needs \cup {0},
            cost : HoldPrices \cup {0}, unseen : SUBSET Facts,
            prices : SUBSET HoldPrices, most : Nat]]
    /\ Len(rented) <= MaxRented
    /\ rented \in Seq([tenant : Tenants, need : Needs, hold : HoldPrices,
                       unseen : SUBSET Facts, prices : SUBSET HoldPrices, most : Nat])

\* Whatever changed while the request went from check to check, each thing a launch
\* relies on was true at some time since it was asked: the listing active and in the
\* index, its host verified and idle, and the listing big enough for the template; and
\* the hold the row records is what the listing cost at some such time, and no more
\* than the USD wallet has shown (in a wallet of either currency).
SeenBeforeLaunch ==
    \A i \in DOMAIN rented :
        /\ rented[i].unseen = {} /\ rented[i].need <= Vram
        /\ rented[i].hold \in rented[i].prices /\ rented[i].hold <= rented[i].most

\* The text of _validate_listing: "a running instance has reserved the slot".  No code
\* takes a listing out of the index when it is rented, and agents report idle always;
\* no run checks this.
SlotIsReserved == Len(rented) <= 1
=============================================================================
