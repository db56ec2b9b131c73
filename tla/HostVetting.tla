----------------------------- MODULE HostVetting -----------------------------
(***************************************************************************)
(* The verification levels and the KYC of one host.  A request's session   *)
(* reads rows, and at its commit writes the attributes it has changed from *)
(* what it read.                                                           *)
(***************************************************************************)
EXTENDS Naturals, Sequences, FiniteSets

CONSTANTS
    VettingWorkers,   \* requests that may run at a time
    Levels,           \* verification levels
    MaxApplications,  \* bound: applications of the host
    MaxAccounts       \* bound: payout accounts

ASSUME VettingAssumption ==
    /\ "silver" \in Levels /\ "unverified" \notin Levels
    /\ MaxApplications \in Nat /\ MaxAccounts \in Nat

VARIABLES
    hasEmail,   \* the owner's account has an e-mail address
    level,      \* hosts.verification_level
    trust,      \* hosts.trust_state is "flagged"
    apps,       \* host_verifications, the oldest first
    work,       \* what each request has read
    kyc,        \* v7_host_kyc_records rows of the host, the oldest first
    accounts    \* payment_provider_accounts rows

vettingVars == <<hasEmail, level, trust, apps, work, kyc, accounts>>

AppStatus  == {"pending", "approved", "rejected", "revoked"}
Application == [level: Levels, status: AppStatus]
Ids        == 1..MaxApplications
KycRow     == [status: {"pending", "approved"}, verified: BOOLEAN]
\* The application or the row (0 if there was none) with its status, or the
\* applications that were approved.
Work  == [op: {"none", "approve", "reject", "revoke", "submit", "kyc"},
          app: Ids \cup {0, 1}, status: AppStatus, approved: SUBSET Ids,
          level: Levels \cup {"unverified"}, trust: BOOLEAN]
NoWork == [op |-> "none", app |-> 0, status |-> "pending", approved |-> {},
           level |-> "unverified", trust |-> FALSE]

VettingInit ==
    /\ hasEmail \in BOOLEAN
    /\ level = "unverified" /\ trust = FALSE /\ apps = <<>>
    /\ work = [w \in VettingWorkers |-> NoWork]
    /\ kyc = <<>> /\ accounts = 0

-----------------------------------------------------------------------------

Standing == {a \in 1..Len(apps) : apps[a].status = "approved"}

ReviewReads(w, op, a) ==
    /\ work[w] = NoWork
    /\ work' = [work EXCEPT ![w] = [NoWork EXCEPT !.op = op, !.app = a,
                                       !.status = apps[a].status, !.level = level]]
    /\ UNCHANGED <<hasEmail, level, trust, apps, kyc, accounts>>

RevokeReads(w) ==
    /\ work[w] = NoWork
    /\ work' = [work EXCEPT ![w] = [NoWork EXCEPT !.op = "revoke", !.level = level,
                                       !.trust = trust, !.approved = Standing]]
    /\ UNCHANGED <<hasEmail, level, trust, apps, kyc, accounts>>

\* The level a commit leaves: SQLAlchemy writes an attribute only if it changed.
Written(read, new, now) == IF read = new THEN now ELSE new

Done(w) == work' = [work EXCEPT ![w] = NoWork]

\* evaluate_automatic_silver_verification.
AutoSilver(l) == l = "silver" /\ hasEmail

MUT_Apply(w, l) ==
    /\ work[w] = NoWork /\ Len(apps) < MaxApplications
    /\ apps' = Append(apps, [level |-> l, status |-> IF AutoSilver(l) THEN "approved"
                                                     ELSE "pending"])
    /\ level' = l
    /\ UNCHANGED <<hasEmail, trust, work, kyc, accounts>>

\* apply_for_verification.  A silver application is approved by itself, after a
\* revocation as well; the trust state stays flagged.
Apply(w, l) ==
    /\ work[w] = NoWork /\ Len(apps) < MaxApplications
    /\ apps' = Append(apps, [level |-> l, status |-> IF AutoSilver(l) THEN "approved"
                                                     ELSE "pending"])
    /\ level' = IF AutoSilver(l) THEN "silver" ELSE level
    /\ UNCHANGED <<hasEmail, trust, work, kyc, accounts>>

\* process_admin_review looks at no status: a rejected or revoked application is
\* approved, and a lower level replaces a higher one.
ApproveCommits(w) ==
    LET r == work[w]  a == r.app IN
    /\ r.op = "approve"
    /\ apps' = [apps EXCEPT ![a].status = Written(r.status, "approved", @)]
    /\ level' = Written(r.level, apps[a].level, level)
    /\ Done(w) /\ UNCHANGED <<hasEmail, trust, kyc, accounts>>

\* Rejecting an approved application leaves the level with the host.
RejectCommits(w) ==
    LET r == work[w]  a == r.app IN
    /\ r.op = "reject"
    /\ apps' = [apps EXCEPT ![a].status = Written(r.status, "rejected", @)]
    /\ Done(w) /\ UNCHANGED <<hasEmail, level, trust, kyc, accounts>>

\* revoke_host_verification: the approved applications it has read; pending ones
\* may be approved later.
RevokeCommits(w) ==
    LET r == work[w] IN
    /\ r.op = "revoke"
    /\ apps' = [a \in 1..Len(apps) |->
          IF a \in r.approved THEN [apps[a] EXCEPT !.status = "revoked"] ELSE apps[a]]
    /\ level' = Written(r.level, "unverified", level)
    /\ trust' = Written(r.trust, TRUE, trust)
    /\ Done(w) /\ UNCHANGED <<hasEmail, kyc, accounts>>

VettingAborts(w) ==
    /\ work[w] # NoWork
    /\ Done(w) /\ UNCHANGED <<hasEmail, level, trust, apps, kyc, accounts>>

-----------------------------------------------------------------------------
(* kyc_service.                                                             *)

\* Both handlers look the row up by its host, which no constraint keeps to one row: the
\* second of two makes every later lookup fail.  Only a submission may find none.
KycReads(w, op) ==
    /\ work[w] = NoWork /\ Len(kyc) <= 1 /\ (op = "kyc" => kyc # <<>>)
    /\ work' = [work EXCEPT ![w] =
          IF kyc = <<>> THEN [NoWork EXCEPT !.op = op]
          ELSE [NoWork EXCEPT !.op = op, !.app = 1, !.status = kyc[1].status]]
    /\ UNCHANGED <<hasEmail, level, trust, apps, kyc, accounts>>

\* New bank details make the record pending, unless it read it so and it was approved
\* since; what was verified stays so.
SubmitKycCommits(w) ==
    /\ work[w].op = "submit"
    /\ kyc' = IF work[w].app = 0 THEN Append(kyc, [status |-> "pending", verified |-> FALSE])
              ELSE [kyc EXCEPT ![1].status = Written(work[w].status, "pending", @)]
    /\ Done(w) /\ UNCHANGED <<hasEmail, level, trust, apps, accounts>>

\* Over details submitted meanwhile, and with a payout account for each approval.
ApproveKycCommits(w) ==
    /\ work[w].op = "kyc" /\ accounts < MaxAccounts
    /\ kyc' = [kyc EXCEPT ![1] = [status |-> Written(work[w].status, "approved", @.status),
                                  verified |-> TRUE]]
    /\ accounts' = accounts + 1
    /\ Done(w) /\ UNCHANGED <<hasEmail, level, trust, apps>>

VettingNext ==
    \/ \E w \in VettingWorkers :
          \/ \E l \in Levels : Apply(w, l)
          \/ \E a \in 1..Len(apps) : ReviewReads(w, "approve", a) \/ ReviewReads(w, "reject", a)
          \/ RevokeReads(w)
          \/ ApproveCommits(w) \/ RejectCommits(w) \/ RevokeCommits(w)
          \/ KycReads(w, "submit") \/ SubmitKycCommits(w)
          \/ KycReads(w, "kyc") \/ ApproveKycCommits(w) \/ VettingAborts(w)

VettingSpec == VettingInit /\ [][VettingNext]_vettingVars

-----------------------------------------------------------------------------
(* Properties that hold *)

\* Every variable keeps its type.
VettingTypeOK ==
    /\ hasEmail \in BOOLEAN /\ level \in Levels \cup {"unverified"} /\ trust \in BOOLEAN
    /\ apps \in Seq(Application) /\ work \in [VettingWorkers -> Work]
    /\ kyc \in Seq(KycRow)
    /\ accounts \in 0..MaxAccounts

\* However reviews and revocations overlap, a level is one that some application
\* asked for and was decided, and a payout account exists only after an approval.
GrantsWereDecided ==
    /\ level # "unverified" =>
          \E a \in 1..Len(apps) : apps[a].level = level /\ apps[a].status # "pending"
    /\ accounts > 0 => kyc # <<>> /\ kyc[1].verified
=============================================================================
