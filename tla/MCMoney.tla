------------------------------- MODULE MCMoney -------------------------------
(***************************************************************************)
(* The components of the platform's money, which share no state, in one    *)
(* instance: each behaviour is a behaviour of one of them, the scene (of   *)
(* the finance ledger, of one of its two sides).                           *)
(***************************************************************************)
EXTENDS WalletLedger, FinanceLedger, InvoiceNumbers, Notifications, UsageCounters

VARIABLE scene

moneyVars == <<walletVars, financeVars, invoiceVars, notificationVars, usageVars>>

\* How many chains there are is left open in the usage's own scene only.
MoneyInit ==
    /\ scene \in {"wallet", "charges", "earnings", "invoices", "notifications", "usage"}
    /\ WalletInit /\ FinanceInit /\ InvoiceInit /\ NotificationsInit /\ UsageInit
    /\ scene = "usage" \/ planned = Cardinality(DebitChains)

MoneyNext ==
    /\ UNCHANGED scene
    /\ IF scene = "wallet"        THEN WalletNext        ELSE UNCHANGED walletVars
    /\ CASE scene = "charges"  -> ChargesNext
         [] scene = "earnings" -> EarningsNext
         [] OTHER              -> UNCHANGED financeVars
    /\ IF scene = "invoices"      THEN InvoiceNext       ELSE UNCHANGED invoiceVars
    /\ IF scene = "notifications" THEN NotificationsNext ELSE UNCHANGED notificationVars
    /\ IF scene = "usage"         THEN UsageNext         ELSE UNCHANGED usageVars


MoneySpec == MoneyInit /\ [][MoneyNext]_<<scene, moneyVars>>

-----------------------------------------------------------------------------

\* What holds of the wallet service: a payment acknowledged to Stripe has been
\* credited, and one is credited more than once only by deliveries that overlap.
WalletSafety == WalletTypeOK /\ AckedIsCredited /\ CreditsOverlap

\* What holds of earnings, payouts and the double-entry ledger: the ledger's payable
\* is what its rows say, an event with an id is posted once, what is settled was paid,
\* and the dashboard leaves no pending earning out.
FinanceSafety ==
    /\ FinanceTypeOK
    /\ PayableMatchesRows /\ EventPostedOnce /\ SettledWasPaid /\ DashboardMissesNothing

\* What holds of the tasks that are retried or overlap: invoice numbers have no gap,
\* each notification has its attempt, each tick is charged once, the total is that of
\* the debits that found the job's row, and seconds are lost only where two writers
\* overlap.
TasksSafety ==
    /\ InvoiceTypeOK /\ NumbersAreGapless
    /\ NotificationsTypeOK /\ AttemptsAccountForRows
    /\ UsageTypeOK /\ ChargedOncePerTick /\ TotalCountsDebits /\ SecondsAreLostOnlyByOverlap
=============================================================================
