----------------------------- MODULE WalletLedger -----------------------------
(***************************************************************************)
(* The wallet of one user of wallet_billing_service and its append-only    *)
(* transaction rows: the signup event that creates it, top-ups through     *)
(* Stripe and UPI, the fallback credit task, usage debits and hold         *)
(* refunds.  No handler locks the wallet row: each reads the balance,      *)
(* computes the new one and commits it with a row.  The INR balance moves  *)
(* with the USD one at a fixed rate and is left out.                       *)
(***************************************************************************)
EXTENDS Integers, Sequences, FiniteSets

CONSTANTS
    StripePays, UpiPays,  \* the payments made through each provider
    WalletWorkers,        \* requests and tasks that may run at a time
    NoPay,
    WalletColumns,  \* whether the ORM class has the columns of migration 0003
    MaxRows         \* bound: transaction rows

Pays == StripePays \cup UpiPays

ASSUME WalletAssumption ==
    /\ NoPay \notin Pays /\ StripePays \cap UpiPays = {}
    /\ IsFiniteSet(WalletWorkers)
    /\ WalletColumns \in BOOLEAN /\ MaxRows \in Nat

VARIABLES
    wallet,       \* the row of wallets: its balance, or not there
    customers,    \* customers created at Stripe for the user
    onboarded,    \* connect_onboarding_complete of the stripe_accounts row
    pay,          \* each payment at its provider
    acked,        \* whether the provider's notification was answered 200
    rows,         \* wallet_transactions, in commit order, each with (history) how
                  \* many there were when its writer read the balance
    work          \* what each worker has read and is about to write

walletVars == <<wallet, customers, onboarded, pay, acked, rows, work>>

RowKind  == {"topup", "debit", "refund"}
Row      == [kind: RowKind, pay: Pays \cup {NoPay}, after: Nat, since: Nat]
PayState == {"none", "intent", "succeeded"}
Op       == {"none", "webhook", "fallback", "tick", "refund", "signup"}
Work     == [op: Op, pay: Pays \cup {NoPay}, read: Nat, since: Nat]

NoWallet == [there |-> FALSE, usd |-> 0]
Rest     == [op |-> "none", pay |-> NoPay, read |-> 0, since |-> 0]

TopupAmount == 3
TickAmount  == 2

RowsOf(p)   == {n \in 1..Len(rows) : rows[n].pay = p}
Minus(a, b) == IF a > b THEN a - b ELSE 0

\* The new balance create_transaction computes from the one it was given; a debit
\* below zero is cut off at zero.
Applied(kind, usd) ==
    CASE kind = "topup"  -> usd + TopupAmount
      [] kind = "debit"  -> Minus(usd, TickAmount)
      [] kind = "refund" -> usd + TickAmount

WalletInit ==
    /\ wallet = NoWallet
    /\ customers = 0
    /\ onboarded = FALSE
    /\ pay = [p \in Pays |-> "none"]
    /\ acked = [p \in Pays |-> FALSE]
    /\ rows = <<>>
    /\ work = [w \in WalletWorkers |-> Rest]

-----------------------------------------------------------------------------

\* The existing wallet is looked up by primary key with the user's id, so it is
\* never found; a customer is created at Stripe (unless that call fails).
SignUpEvent(w) ==
    /\ work[w].op = "none"
    /\ customers < 2
    /\ customers' \in {customers, customers + 1}
    /\ work' = [work EXCEPT ![w].op = "signup"]
    /\ UNCHANGED <<wallet, onboarded, pay, acked, rows>>

MUT_SignUpUpsert(w) ==
    /\ work[w].op = "signup"
    /\ wallet' = [there |-> TRUE, usd |-> 0]
    /\ work' = [work EXCEPT ![w] = Rest]
    /\ UNCHANGED <<customers, onboarded, pay, acked, rows>>

\* user_id is unique: a second insert fails and is logged.
SignUpCommit(w) ==
    /\ work[w].op = "signup"
    /\ wallet' = IF wallet.there THEN wallet ELSE [there |-> TRUE, usd |-> 0]
    /\ work' = [work EXCEPT ![w] = Rest]
    /\ UNCHANGED <<customers, onboarded, pay, acked, rows>>

\* An intent (or, for UPI, an order) is created at the provider.
Intent(p) ==
    /\ pay[p] = "none"
    /\ pay' = [pay EXCEPT ![p] = "intent"]
    /\ UNCHANGED <<wallet, customers, onboarded, acked, rows, work>>

MUT_TopupAnyone(p) == p \in StripePays /\ Intent(p)

\* POST /wallet/topup and /wallet/topup/upi: 404 without a wallet.
Topup(p) == p \in StripePays /\ wallet.there /\ Intent(p)

TopupUpi(p) == p \in UpiPays /\ wallet.there /\ Intent(p)

Succeeds(p) ==
    /\ pay[p] = "intent"
    /\ pay' = [pay EXCEPT ![p] = "succeeded"]
    /\ UNCHANGED <<wallet, customers, onboarded, acked, rows, work>>

\* account.updated: the last one delivered wins.
AccountUpdated ==
    /\ wallet.there
    /\ onboarded' \in BOOLEAN
    /\ UNCHANGED <<wallet, customers, pay, acked, rows, work>>

-----------------------------------------------------------------------------
(* Credits.  Stripe delivers an event until it is answered 200, and may     *)
(* deliver it twice at a time.                                              *)

Reads(w, op, p) == work' = [work EXCEPT ![w] =
                       [op |-> op, pay |-> p, read |-> wallet.usd, since |-> Len(rows)]]

\* The row and the balance computed from what was read, in one commit.
Posts(w, kind) ==
    /\ Len(rows) < MaxRows
    /\ wallet' = [wallet EXCEPT !.usd = Applied(kind, work[w].read)]
    /\ rows' = Append(rows, [kind |-> kind, pay |-> work[w].pay,
                             after |-> wallet'.usd, since |-> work[w].since])

MUT_WebhookNoDedup(w, p) ==
    /\ work[w].op = "none" /\ pay[p] = "succeeded" /\ ~acked[p]
    /\ Reads(w, "webhook", p) /\ UNCHANGED acked
    /\ UNCHANGED <<wallet, customers, onboarded, pay, rows>>

\* Without a wallet there is nothing to credit, with a row nothing left to credit.
\* Once two rows name the payment scalar_one_or_none raises: every delivery is
\* answered 500 and nothing happens.
WebhookReads(w, p) ==
    /\ work[w].op = "none" /\ pay[p] = "succeeded" /\ ~acked[p]
    /\ \/ /\ ~wallet.there \/ Cardinality(RowsOf(p)) = 1
          /\ acked' = [acked EXCEPT ![p] = TRUE]
          /\ UNCHANGED work
       \/ /\ wallet.there /\ RowsOf(p) = {}
          /\ Reads(w, "webhook", p)
          /\ UNCHANGED acked
    /\ UNCHANGED <<wallet, customers, onboarded, pay, rows>>

\* create_transaction passes stripe_transfer_id and listing_id: the ORM class
\* has neither, so building the row raises, the update is rolled back and the
\* answer is 500.  An answer may also be lost after the commit.
WebhookCommits(w) ==
    /\ work[w].op = "webhook"
    /\ IF WalletColumns
       THEN /\ Posts(w, "topup")
            /\ acked' \in {acked, [acked EXCEPT ![work[w].pay] = TRUE]}
       ELSE UNCHANGED <<wallet, rows, acked>>
    /\ work' = [work EXCEPT ![w] = Rest]
    /\ UNCHANGED <<customers, onboarded, pay>>

\* reconcile_stripe_events, a task for a payment whose webhook failed.
FallbackReads(w, p) ==
    /\ work[w].op = "none" /\ pay[p] = "succeeded"
    /\ wallet.there /\ RowsOf(p) = {}
    /\ Reads(w, "fallback", p)
    /\ UNCHANGED <<wallet, customers, onboarded, pay, acked, rows>>

FallbackCommits(w) ==
    /\ work[w].op = "fallback"
    /\ Posts(w, "topup")
    /\ work' = [work EXCEPT ![w] = Rest]
    /\ UNCHANGED <<customers, onboarded, pay, acked>>

\* POST /billing/webhooks/razorpay answers that the payment is confirmed; it
\* looks for a row of the payment and credits nothing.
UpiConfirm(p) ==
    /\ p \in UpiPays /\ pay[p] = "succeeded" /\ ~acked[p]
    /\ acked' = [acked EXCEPT ![p] = TRUE]
    /\ UNCHANGED <<wallet, customers, onboarded, pay, rows, work>>

-----------------------------------------------------------------------------
(* Usage debits and hold refunds.                                           *)

TickReads(w) ==
    /\ work[w].op = "none" /\ wallet.there
    /\ wallet.usd > 0       \* otherwise the instance is to be terminated
    /\ Reads(w, "tick", NoPay)
    /\ UNCHANGED <<wallet, customers, onboarded, pay, acked, rows>>

RefundReads(w) ==
    /\ work[w].op = "none" /\ wallet.there
    /\ Reads(w, "refund", NoPay)
    /\ UNCHANGED <<wallet, customers, onboarded, pay, acked, rows>>

\* Both rows carry listing_id.
UsageCommits(w) ==
    /\ work[w].op \in {"tick", "refund"}
    /\ IF WalletColumns
       THEN Posts(w, IF work[w].op = "tick" THEN "debit" ELSE "refund")
       ELSE UNCHANGED <<wallet, rows>>
    /\ work' = [work EXCEPT ![w] = Rest]
    /\ UNCHANGED <<customers, onboarded, pay, acked>>

\* The process dies or the database is lost before the commit.
WalletAborts(w) ==
    /\ work[w].op # "none"
    /\ work' = [work EXCEPT ![w] = Rest]
    /\ UNCHANGED <<wallet, customers, onboarded, pay, acked, rows>>

-----------------------------------------------------------------------------

WalletWorker(w) ==
    \/ SignUpEvent(w) \/ SignUpCommit(w)
    \/ \E p \in StripePays : WebhookReads(w, p) \/ FallbackReads(w, p)
    \/ WebhookCommits(w) \/ FallbackCommits(w)
    \/ TickReads(w) \/ RefundReads(w) \/ UsageCommits(w) \/ WalletAborts(w)

WalletNext ==
    \/ \E p \in Pays : Topup(p) \/ TopupUpi(p) \/ Succeeds(p) \/ UpiConfirm(p)
    \/ AccountUpdated
    \/ \E w \in WalletWorkers : WalletWorker(w)

WalletSpec == WalletInit /\ [][WalletNext]_walletVars

\* Stripe goes on delivering and a handler that has read goes on to commit.
WalletFairSpec ==
    /\ WalletSpec
    /\ \A p \in StripePays :
          WF_walletVars(\E w \in WalletWorkers : WebhookReads(w, p))
    /\ \A w \in WalletWorkers : SF_walletVars(WebhookCommits(w))

-----------------------------------------------------------------------------
(* Properties that hold *)

\* Every variable keeps its type.
WalletTypeOK ==
    /\ wallet \in [there: BOOLEAN, usd: Nat]
    /\ customers \in 0..2 /\ onboarded \in BOOLEAN
    /\ pay \in [Pays -> PayState] /\ acked \in [Pays -> BOOLEAN]
    /\ rows \in Seq(Row)
    /\ work \in [WalletWorkers -> Work]

BalanceAt(n) == IF n = 0 THEN 0 ELSE rows[n].after

\* No lock guards the balance: a handler loses exactly the rows that others commit
\* between its read and its write, and no other.  The wallet's balance is that of the
\* last row, and each row's is its own amount applied to the balance of the row that
\* was the last when its writer read; so it adds up where no two handlers overlap,
\* however often the signup event is repeated.
BalanceAddsUp ==
    /\ wallet.usd = BalanceAt(Len(rows))
    /\ \A n \in 1..Len(rows) :
          /\ rows[n].since < n
          /\ rows[n].after = Applied(rows[n].kind, BalanceAt(rows[n].since))

\* A payment whose event Stripe saw answered 200 has its row: Stripe stops no retry
\* that was still needed.  (Of UPI payments it is false: UpiIsCredited.)
AckedIsCredited == \A p \in StripePays : acked[p] => RowsOf(p) # {}

\* Only deliveries that overlap credit a payment twice: the writer of a second row
\* looked for one before the first was committed.
CreditsOverlap ==
    \A p \in Pays : \A m, n \in RowsOf(p) : m < n => rows[n].since < m

-----------------------------------------------------------------------------
(* Claims of the code's own text that its behaviour contradicts *)

\* routes.py: "payment_intent.succeeded -> credit developer wallet".
PaidIsCredited ==
    \A p \in StripePays : pay[p] = "succeeded" ~> RowsOf(p) # {}

\* routes.py: "Verifies HMAC signature, credits the wallet in INR".
UpiIsCredited == \A p \in UpiPays : acked[p] => RowsOf(p) # {}
=============================================================================
