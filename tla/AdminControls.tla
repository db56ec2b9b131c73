---------------------------- MODULE AdminControls ----------------------------
(***************************************************************************)
(* libs/admin_security, in the memory of one process: approval of a        *)
(* sensitive action by a quorum, temporary elevation, lockout of hardware  *)
(* keys, and signed requests with a nonce that are accepted once.          *)
(***************************************************************************)
EXTENDS Naturals, FiniteSets

CONSTANTS
    Admins,
    RequiredApprovals,  \* as configured; the code takes at least two
    MaxTtl,             \* max_ttl_seconds of an elevation
    Tolerance,          \* tolerance_seconds of a signed request
    MaxTime             \* bound: seconds

ASSUME AdminAssumption ==
    RequiredApprovals \in Nat /\ MaxTtl \in Nat /\ Tolerance \in Nat /\ MaxTime \in Nat

VARIABLES
    now,
    proposal,   \* one sensitive action: its status and approvals
    elevation,  \* one admin's entry in active_elevations
    granted,    \* when that elevation was requested
    failures,   \* that admin's failed_attempts
    assertion,  \* what the last assertion was answered
    nonces,     \* seen_nonces: nonce 1's timestamp, or not there
    accepted    \* the times at which the request with that nonce was accepted

adminVars == <<now, proposal, elevation, granted, failures, assertion, nonces,
               accepted>>

Required == IF RequiredApprovals < 2 THEN 2 ELSE RequiredApprovals
MaxFailures == 3

AdminInit ==
    /\ now = 0
    /\ proposal = [status |-> "none", approvals |-> {}]
    /\ elevation = [active |-> FALSE, expires |-> 0]
    /\ granted = 0
    /\ failures = 0 /\ assertion = "none"
    /\ nonces = {} /\ accepted = {}

Pass ==
    /\ now < MaxTime
    /\ now' = now + 1
    /\ UNCHANGED <<proposal, elevation, granted, failures, assertion, nonces, accepted>>

-----------------------------------------------------------------------------
(* MultiPartyQuorumManager.                                                 *)

\* The proposer's is the first approval.
Propose(a) ==
    /\ proposal.status = "none"
    /\ proposal' = [status |-> "PENDING", approvals |-> {a}]
    /\ UNCHANGED <<now, elevation, granted, failures, assertion, nonces, accepted>>

MUT_Approve(a) ==
    /\ proposal.status = "PENDING"
    /\ proposal' = [status |-> "APPROVED", approvals |-> proposal.approvals \cup {a}]
    /\ UNCHANGED <<now, elevation, granted, failures, assertion, nonces, accepted>>

\* A second approval of one admin, and any after the quorum, is refused.
Approve(a) ==
    /\ proposal.status = "PENDING" /\ a \notin proposal.approvals
    /\ LET all == proposal.approvals \cup {a} IN
       proposal' = [status |-> IF Cardinality(all) >= Required THEN "APPROVED"
                               ELSE "PENDING",
                    approvals |-> all]
    /\ UNCHANGED <<now, elevation, granted, failures, assertion, nonces, accepted>>

-----------------------------------------------------------------------------
(* JITPrivilegeManager.                                                     *)

MUT_RequestElevation(ttl) ==
    /\ elevation' = [active |-> TRUE, expires |-> now + ttl]
    /\ granted' = IF elevation.active THEN granted ELSE now
    /\ UNCHANGED <<now, proposal, failures, assertion, nonces, accepted>>

\* A ttl of zero, like none, stands for the maximum; a new elevation replaces the
\* one before it.
RequestElevation(ttl) ==
    LET t == IF ttl = 0 \/ ttl > MaxTtl THEN MaxTtl ELSE ttl IN
    /\ elevation' = [active |-> TRUE, expires |-> now + t]
    /\ granted' = now
    /\ UNCHANGED <<now, proposal, failures, assertion, nonces, accepted>>

IsElevated == elevation.active /\ now <= elevation.expires

\* is_elevated clears an elevation it finds expired.
CheckElevation ==
    /\ elevation.active /\ ~IsElevated
    /\ elevation' = [elevation EXCEPT !.active = FALSE]
    /\ UNCHANGED <<now, proposal, granted, failures, assertion, nonces, accepted>>

RevokeElevation ==
    /\ elevation' = [elevation EXCEPT !.active = FALSE]
    /\ UNCHANGED <<now, proposal, granted, failures, assertion, nonces, accepted>>

-----------------------------------------------------------------------------
(* FIDO2Enforcer.verify_assertion.                                          *)

MUT_VerifyAssertion(ok) ==
    /\ failures' = IF failures < MaxFailures THEN IF ok THEN 0 ELSE failures + 1
                   ELSE failures
    /\ assertion' = IF ok THEN "verified" ELSE "refused"
    /\ UNCHANGED <<now, proposal, elevation, granted, nonces, accepted>>

\* ok: a registered key and a verified user.  A success resets the count.
VerifyAssertion(ok) ==
    /\ IF failures >= MaxFailures
       THEN assertion' = "locked" /\ UNCHANGED failures
       ELSE /\ failures' = IF ok THEN 0 ELSE failures + 1
            /\ assertion' = IF ok THEN "verified" ELSE "refused"
    /\ UNCHANGED <<now, proposal, elevation, granted, nonces, accepted>>

-----------------------------------------------------------------------------
(* AdminRequestSigner: requests with nonce 1 and others.                    *)

Fresh(ts) == ts <= now + Tolerance /\ now <= ts + Tolerance
Pruned    == {ts \in nonces : ts + Tolerance > now}

MUT_VerifyRequest(ts, right) ==
    /\ Fresh(ts) /\ nonces = {} /\ right
    /\ accepted' = accepted \cup {now}
    /\ UNCHANGED <<now, proposal, elevation, granted, failures, assertion, nonces>>

\* The nonce is looked up, then old ones are pruned, then it is remembered, and
\* only then the signature is compared: a wrong one uses up the nonce.
VerifyRequest(ts, right) ==
    /\ Fresh(ts) /\ nonces = {}
    /\ nonces' = Pruned \cup {ts}
    /\ accepted' = IF right THEN accepted \cup {now} ELSE accepted
    /\ UNCHANGED <<now, proposal, elevation, granted, failures, assertion>>

\* Any other request prunes as well.
OtherRequest ==
    /\ nonces' = Pruned
    /\ UNCHANGED <<now, proposal, elevation, granted, failures, assertion, accepted>>

-----------------------------------------------------------------------------

AdminNext ==
    \/ Pass
    \/ \E a \in Admins : Propose(a) \/ Approve(a)
    \/ \E ttl \in 0..(MaxTtl + 1) : RequestElevation(ttl)
    \/ CheckElevation \/ RevokeElevation
    \/ VerifyAssertion(TRUE) \/ VerifyAssertion(FALSE)
    \/ VerifyRequest(Tolerance, TRUE) \/ VerifyRequest(Tolerance, FALSE)
    \/ OtherRequest

AdminSpec == AdminInit /\ [][AdminNext]_adminVars

-----------------------------------------------------------------------------
(* Properties that hold *)

\* Every variable keeps its type.
AdminTypeOK ==
    /\ now \in 0..MaxTime
    /\ proposal \in [status: {"none", "PENDING", "APPROVED"}, approvals: SUBSET Admins]
    /\ elevation \in [active: BOOLEAN, expires: Nat] /\ granted \in Nat
    /\ failures \in 0..MaxFailures
    /\ assertion \in {"none", "verified", "refused", "locked"}
    /\ nonces \subseteq Nat /\ accepted \subseteq Nat

\* An action is executable exactly when a quorum of different admins approved it,
\* the proposer being one of them.
ApprovedByQuorum ==
    proposal.status = "APPROVED" <=> Cardinality(proposal.approvals) >= Required

\* No elevation outlives its request by more than the maximum, however requests,
\* revocations and checks follow each other.
ElevationIsBounded == IsElevated => now <= granted + MaxTtl

\* After the third failure in a row no later assertion is verified, a right one
\* included.
LockedVerifiesNothing == failures = MaxFailures => assertion # "verified"

\* A signed request is accepted again only in the last second of its tolerance,
\* when its nonce may be pruned although it is still fresh.
NonceReusedOnlyAtTheEdge ==
    \A t \in accepted : (\E s \in accepted : s < t) => t = 2 * Tolerance
=============================================================================
