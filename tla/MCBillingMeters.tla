--------------------------- MODULE MCBillingMeters ---------------------------
(* BillingMeters on one instance, with a few chains at a time.              *)
EXTENDS BillingMeters, TLC

Symmetry == Permutations(Chains) \cup Permutations(Subscribers)

\* No step or property depends on the receipts of InstanceRecord.
WithoutReceipts == <<status, holdReleased, ssh, launches, bus, handler, jobs,
                     chain, sweep, stopKey, refunds, failures>>
=============================================================================
