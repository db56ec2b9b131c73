---------------------------- MODULE FinanceLedger ----------------------------
(***************************************************************************)
(* The double-entry ledger (v7_ledger_entries) and what posts to it:       *)
(* provider webhooks, usage metering, the commission split of a finished   *)
(* session, refunds and the settlement of host earnings by payouts; with   *)
(* the host's financial dashboard, which reads the earnings twice.         *)
(* Each operation is a database transaction whose commit is the caller's.  *)
(***************************************************************************)
EXTENDS Naturals, Sequences, FiniteSets, Functions

CONSTANTS
    Earnings,       \* one host's v7_host_earnings rows, one for each call that finalises
                    \* a session (nothing keeps a session from being finalised twice)
    Events,         \* the provider's events
    NamedEvents,    \* those whose payload has an event_id or an id
    FinanceWorkers, \* callers, each with a transaction
    MinThreshold,   \* min_threshold_usd, in units of one session's net amount
    MaxPayouts,     \* bound: payout rows
    MaxAttempts,    \* attempts before a failing payout is escalated
    MaxPostings     \* bound: usage charges and refunds, and deliveries of an event that
                    \* has no id

ASSUME FinanceAssumption ==
    /\ IsFiniteSet(Earnings) /\ MinThreshold \in Nat \ {0}
    /\ IsFiniteSet(Events) /\ NamedEvents \subseteq Events
    /\ MaxPayouts \in Nat /\ MaxAttempts \in Nat /\ MaxPostings \in Nat

VARIABLES
    debits, credits,  \* the ledger: the sums of each account's two sides
    webhooks,         \* v7_webhook_events: the rows of each event
    captured,         \* those with status processed
    earning,          \* the status of each v7_host_earnings row
    payouts,          \* v7_payouts with their line items
    transferred,      \* payouts whose transfer the provider has made
    refunded,         \* refunds of a captured payment
    tx,               \* each caller's transaction
    report            \* the dashboard's two sums, and whether it is done

financeVars == <<debits, credits, webhooks, captured, earning, payouts, transferred,
                 refunded, tx, report>>

Accounts == {"provider_clearing", "customer_account", "customer_wallet",
             "platform_revenue", "platform_revenue_retained", "host_payable",
             "refund_reserve"}
EarningStatus == {"none", "pending_settlement", "settled"}
PayoutStatus  == {"scheduled", "processing", "completed", "retrying",
                  "manual_review"}
\* posted counts the PAYOUT entries of the payout.
Payout == [items: SUBSET Earnings, status: PayoutStatus, attempts: Nat,
           posted: Nat]
Tx     == [op: {"none", "webhook", "batch", "execute"},
           event: Events \cup {"none"}, items: SUBSET Earnings,
           payout: 0..MaxPayouts, attempts: Nat]
NoTx   == [op |-> "none", event |-> "none", items |-> {}, payout |-> 0,
           attempts |-> 0]
Report == [at: {"idle", "half", "done"}, pending: SUBSET Earnings,
           settled: SUBSET Earnings, known: SUBSET Earnings]

\* A session of gross 3 at the default rate: 1 to the platform, 2 to the host.
Commission == 1
Net        == 2

\* What a payout transfers for its line items.
Owed(k) == Net * Cardinality(payouts[k].items)

Having(s) == {e \in Earnings : earning[e] = s}


MUT_RecordDoubleEntry(debit, credit, amount) ==
    /\ credits' = [credits EXCEPT ![credit] = @ + amount]
    /\ UNCHANGED debits

\* LedgerService.record_double_entry: both rows in the caller's transaction.
RecordDoubleEntry(debit, credit, amount) ==
    /\ debits' = [debits EXCEPT ![debit] = @ + amount]
    /\ credits' = [credits EXCEPT ![credit] = @ + amount]

FinanceInit ==
    /\ debits = [a \in Accounts |-> 0] /\ credits = [a \in Accounts |-> 0]
    /\ webhooks = [ev \in Events |-> 0] /\ captured = [ev \in Events |-> 0]
    /\ earning = [e \in Earnings |-> "none"]
    /\ payouts = <<>>
    /\ transferred = {}
    /\ refunded = 0
    /\ tx = [w \in FinanceWorkers |-> NoTx]
    /\ report = [at |-> "idle", pending |-> {}, settled |-> {}, known |-> {}]

-----------------------------------------------------------------------------
(* process_incoming_webhook: the insert of the event row is the guard.      *)

\* (provider, provider_event_id) is unique: the insert waits for another
\* transaction's row of the event and fails, as a duplicate, once it commits.  An
\* event without an id gets a new one at each delivery, so nothing refuses it.
WebhookInsert(w, ev) ==
    /\ tx[w].op = "none"
    /\ IF ev \in NamedEvents
       THEN webhooks[ev] = 0 /\ \A v \in FinanceWorkers : tx[v].event # ev
       ELSE webhooks[ev] < MaxPostings
    /\ tx' = [tx EXCEPT ![w] = [NoTx EXCEPT !.op = "webhook", !.event = ev]]
    /\ UNCHANGED <<debits, credits, webhooks, captured, earning, payouts, transferred,
                   refunded, report>>

\* payment.captured with a user_id.
WebhookPosts(w) ==
    /\ tx[w].op = "webhook"
    /\ webhooks' = [webhooks EXCEPT ![tx[w].event] = @ + 1]
    /\ captured' = [captured EXCEPT ![tx[w].event] = @ + 1]
    /\ RecordDoubleEntry("provider_clearing", "customer_account", 1)
    /\ tx' = [tx EXCEPT ![w] = NoTx]
    /\ UNCHANGED <<earning, payouts, transferred, refunded, report>>

\* Another type of event, or no user_id: the row stays as received.
WebhookRecords(w) ==
    /\ tx[w].op = "webhook"
    /\ webhooks' = [webhooks EXCEPT ![tx[w].event] = @ + 1]
    /\ tx' = [tx EXCEPT ![w] = NoTx]
    /\ UNCHANGED <<debits, credits, captured, earning, payouts, transferred,
                   refunded, report>>

\* The provider is answered an error and delivers the event again.
TxAborts(w) ==
    /\ tx[w].op \in {"webhook", "batch"}
    /\ tx' = [tx EXCEPT ![w] = NoTx]
    /\ UNCHANGED <<debits, credits, webhooks, captured, earning, payouts, transferred,
                   refunded, report>>

-----------------------------------------------------------------------------
(* Charges, earnings and refunds.                                           *)

\* process_per_second_metering, for a running instance.
MeterUsage ==
    /\ debits["customer_account"] + refunded < MaxPostings
    /\ RecordDoubleEntry("customer_account", "platform_revenue", 1)
    /\ UNCHANGED <<webhooks, captured, earning, payouts, transferred, refunded, tx, report>>

\* finalize_session_commission: the commission, then what the host is owed, in a new
\* row whether or not the session has one.
FinalizeSession(e) ==
    /\ earning[e] = "none"
    /\ earning' = [earning EXCEPT ![e] = "pending_settlement"]
    /\ debits' = [debits EXCEPT !["platform_revenue"] = @ + Commission + Net]
    /\ credits' = [credits EXCEPT !["platform_revenue_retained"] = @ + Commission,
                                  !["host_payable"] = @ + Net]
    /\ UNCHANGED <<webhooks, captured, payouts, transferred, refunded, tx, report>>

\* process_refund compares the amount with nothing; hostPaid is the caller's.
Refund(hostPaid) ==
    /\ debits["customer_account"] + refunded < MaxPostings
    /\ refunded' = refunded + 1
    /\ RecordDoubleEntry("customer_wallet",
          IF hostPaid THEN "refund_reserve" ELSE "platform_revenue", 1)
    /\ UNCHANGED <<webhooks, captured, earning, payouts, transferred, tx, report>>

-----------------------------------------------------------------------------
(* Payouts.                                                                 *)

\* create_payout_batch reads the pending rows ...
BatchReads(w) ==
    /\ tx[w].op = "none"
    /\ Cardinality(Having("pending_settlement")) >= MinThreshold
    /\ tx' = [tx EXCEPT ![w] = [NoTx EXCEPT !.op = "batch",
                                   !.items = Having("pending_settlement")]]
    /\ UNCHANGED <<debits, credits, webhooks, captured, earning, payouts, transferred,
                   refunded, report>>

\* ... and lists them in a payout; their status stays as it is.
BatchCommits(w) ==
    /\ tx[w].op = "batch" /\ Len(payouts) < MaxPayouts
    /\ payouts' = Append(payouts, [items |-> tx[w].items, status |-> "scheduled",
                                   attempts |-> 0, posted |-> 0])
    /\ tx' = [tx EXCEPT ![w] = NoTx]
    /\ UNCHANGED <<debits, credits, webhooks, captured, earning, transferred, refunded,
                   report>>

\* execute_payout takes a payout in any status.
ExecuteReads(w, k) ==
    /\ tx[w].op = "none" /\ k \in 1..Len(payouts)
    /\ payouts[k].attempts < MaxAttempts   \* bound
    /\ tx' = [tx EXCEPT ![w] = [NoTx EXCEPT !.op = "execute", !.payout = k,
                                   !.attempts = payouts[k].attempts]]
    /\ UNCHANGED <<debits, credits, webhooks, captured, earning, payouts, transferred,
                   refunded, report>>

MUT_ExecuteSettlesEarly(w) ==
    LET k == tx[w].payout IN
    /\ tx[w].op = "execute"
    /\ payouts' = [payouts EXCEPT ![k].status = "processing",
                                  ![k].attempts = tx[w].attempts + 1]
    /\ earning' = [e \in Earnings |->
          IF e \in payouts[k].items THEN "settled" ELSE earning[e]]
    /\ tx' = [tx EXCEPT ![w] = NoTx]
    /\ UNCHANGED <<debits, credits, webhooks, captured, transferred, refunded, report>>

\* The transfer is made: the line items are settled and the ledger posted, even
\* if the payout was completed before.
ExecuteCompletes(w) ==
    LET k == tx[w].payout IN
    /\ tx[w].op = "execute"
    /\ transferred' = transferred \cup {k}
    /\ payouts' = [payouts EXCEPT ![k].status = "completed",
                                  ![k].attempts = tx[w].attempts + 1,
                                  ![k].posted = @ + 1]
    /\ earning' = [e \in Earnings |->
          IF e \in payouts[k].items THEN "settled" ELSE earning[e]]
    /\ RecordDoubleEntry("host_payable", "provider_clearing", Owed(k))
    /\ tx' = [tx EXCEPT ![w] = NoTx]
    /\ UNCHANGED <<webhooks, captured, refunded, report>>

\* The caller's flag escalates for good before the transfer; an error or a timeout,
\* before or after the provider made it, is retried until the last attempt.
ExecuteFails(w) ==
    LET k == tx[w].payout
        n == tx[w].attempts + 1
        fails(s) == payouts' = [payouts EXCEPT ![k].status = s, ![k].attempts = n]
    IN
    /\ tx[w].op = "execute"
    /\ \/ fails("manual_review") /\ UNCHANGED transferred
       \/ /\ fails(IF n < MaxAttempts THEN "retrying" ELSE "manual_review")
          /\ transferred' \in {transferred, transferred \cup {k}}
    /\ tx' = [tx EXCEPT ![w] = NoTx]
    /\ UNCHANGED <<debits, credits, webhooks, captured, earning, refunded, report>>

\* The process dies, before or after the provider has made the transfer.
ExecuteCrashes(w) ==
    /\ tx[w].op = "execute"
    /\ transferred' \in {transferred, transferred \cup {tx[w].payout}}
    /\ tx' = [tx EXCEPT ![w] = NoTx]
    /\ UNCHANGED <<debits, credits, webhooks, captured, earning, payouts, refunded, report>>

-----------------------------------------------------------------------------
(* The host's dashboard: one query for the pending sum, then one for the    *)
(* settled sum.  known are the earnings there when the report began.        *)

MUT_DashboardPending ==
    /\ report.at = "idle"
    /\ report' = [at |-> "half", pending |-> {}, settled |-> Having("settled"),
                  known |-> {e \in Earnings : earning[e] # "none"}]
    /\ UNCHANGED <<debits, credits, webhooks, captured, earning, payouts, transferred,
                   refunded, tx>>

DashboardPending ==
    /\ report.at = "idle"
    /\ report' = [at |-> "half", pending |-> Having("pending_settlement"),
                  settled |-> {}, known |-> {e \in Earnings : earning[e] # "none"}]
    /\ UNCHANGED <<debits, credits, webhooks, captured, earning, payouts, transferred,
                   refunded, tx>>

DashboardSettled ==
    /\ report.at = "half"
    /\ report' = [report EXCEPT !.at = "done", !.settled = Having("settled")]
    /\ UNCHANGED <<debits, credits, webhooks, captured, earning, payouts, transferred,
                   refunded, tx>>

-----------------------------------------------------------------------------

\* The customer's side of the ledger, and the host's: they share its accounts only.
ChargesNext ==
    \/ MeterUsage \/ Refund(TRUE) \/ Refund(FALSE)
    \/ \E w \in FinanceWorkers :
          \/ \E ev \in Events : WebhookInsert(w, ev)
          \/ WebhookPosts(w) \/ WebhookRecords(w) \/ TxAborts(w)

EarningsNext ==
    \/ \E e \in Earnings : FinalizeSession(e)
    \/ \E w \in FinanceWorkers :
          \/ BatchReads(w) \/ BatchCommits(w) \/ TxAborts(w)
          \/ \E k \in 1..MaxPayouts : ExecuteReads(w, k)
          \/ ExecuteCompletes(w) \/ ExecuteFails(w) \/ ExecuteCrashes(w)
    \/ DashboardPending \/ DashboardSettled

FinanceNext == ChargesNext \/ EarningsNext

FinanceSpec == FinanceInit /\ [][FinanceNext]_financeVars

-----------------------------------------------------------------------------
(* Properties that hold *)

\* Every variable keeps its type.
FinanceTypeOK ==
    /\ debits \in [Accounts -> Nat] /\ credits \in [Accounts -> Nat]
    /\ webhooks \in [Events -> Nat] /\ captured \in [Events -> Nat]
    /\ earning \in [Earnings -> EarningStatus]
    /\ payouts \in Seq(Payout)
    /\ transferred \subseteq 1..MaxPayouts
    /\ refunded \in Nat
    /\ tx \in [FinanceWorkers -> Tx]
    /\ report \in Report

\* What the ledger owes the host is what its sessions earned, and what it has
\* paid off is what the payouts posted.
PayableMatchesRows ==
    /\ credits["host_payable"] = Net * Cardinality(Earnings \ Having("none"))
    /\ debits["host_payable"] =
          SumFunctionOnSet([k \in 1..Len(payouts) |-> payouts[k].posted * Owed(k)],
                           1..Len(payouts))

\* Each posting of a payment has its processed event row, and an event that has an
\* id has one row at most, so that it is posted at most once: however often it is
\* delivered, in parallel, and after deliveries that failed.
EventPostedOnce ==
    /\ debits["provider_clearing"] = SumFunctionOnSet(captured, Events)
    /\ \A ev \in Events : captured[ev] <= webhooks[ev]
    /\ \A ev \in NamedEvents : webhooks[ev] <= 1

\* Earnings are settled only by a payout that lists them and whose transfer the
\* provider made, and such a payout settles all it lists.
SettledWasPaid ==
    /\ \A e \in Having("settled") : \E k \in transferred :
          e \in payouts[k].items /\ payouts[k].posted > 0
    /\ \A k \in 1..Len(payouts) : payouts[k].posted > 0 =>
          payouts[k].items \subseteq Having("settled")

\* The dashboard leaves out no earnings that were there when it began, though
\* they may be settled between its two queries (and are then counted twice).
DashboardMissesNothing ==
    report.at = "done" => report.known \subseteq report.pending \cup report.settled

-----------------------------------------------------------------------------
(* Claims of the code's own text that its behaviour contradicts *)

\* payout_engine.py: the idempotency key is there "to guarantee no
\* double-payment".
NoDoublePayment ==
    \A e \in Earnings : Cardinality({k \in transferred : e \in payouts[k].items}) <= 1

\* webhook_handler.py: "Database-level Replay Protection", of every event.
ReplayIsIgnored == \A ev \in Events : webhooks[ev] <= 1
=============================================================================
