------------------------------ MODULE HostStakes ------------------------------
(***************************************************************************)
(* The collateral of hosts in libs/federated_cryptoecon: the Sybil graph   *)
(* that prices a registration by the identities already in it, and the     *)
(* protocol that slashes an escrow.  Both keep their state in memory; only *)
(* tests call them.                                                        *)
(***************************************************************************)
EXTENDS Integers, Sequences, FiniteSetsExt

CONSTANTS
    StakeHosts, Subnets, KycHashes, TpmKeys,
    Stakes,         \* staked_collateral_usd, in tenths of the base stake per GPU
    NoHost,
    Escrows,        \* amounts given to set_host_escrow, in thousandths of a cent
    MaxCalls        \* bound: calls of the two objects

Identity == [ip : Subnets, kyc : KycHashes, tpm : TpmKeys, stake : Stakes]

\* The amounts are whole numbers of a grain that a slash of a tenth does not lose: below
\* a hundredth of a cent an escrow is nothing.
ASSUME StakesAssumption ==
    /\ Stakes \subseteq Nat /\ MaxCalls \in Nat
    /\ Escrows \subseteq Nat /\ \A a \in Escrows : a = 0 \/ a >= 10
    /\ IsFiniteSet(StakeHosts) /\ NoHost \notin Identity

VARIABLES
    hosts,      \* SybilStakingGraph.hosts
    clusters,   \* ip_clusters, kyc_clusters, tpm_clusters: <<kind, key, host>>
    moved,      \* hosts that registered again with another identity
    escrow,     \* host_escrows
    banned,     \* banned_hosts
    receipts,   \* slashing_history of a host, with what was really taken
    calls

stakeVars == <<hosts, clusters, moved, escrow, banned, receipts, calls>>

StakesInit ==
    /\ hosts = [h \in StakeHosts |-> NoHost]
    /\ clusters = {} /\ moved = {}
    /\ escrow = [h \in StakeHosts |-> 0] /\ banned = {}
    /\ receipts = [h \in StakeHosts |-> <<>>]
    /\ calls = 0

Call == calls < MaxCalls /\ calls' = calls + 1

Registered      == {h \in StakeHosts : hosts[h] # NoHost}
Members(kind, k) == {h \in StakeHosts : <<kind, k, h>> \in clusters}

-----------------------------------------------------------------------------
(* SybilStakingGraph.                                                       *)

MUT_KycPenalty(n) == IF n < 2 THEN 0 ELSE Min({15 * n, 60})

KycPenalty(n) == Min({15 * n, 60})

\* compute_sybil_risk, in hundredths: a subnet with a quarter of the hosts costs 0.4.
Risk(id) ==
    LET total == Max({Cardinality(Registered), 1})
        near  == Cardinality(Members("ip", id.ip))
    IN Min({KycPenalty(Cardinality(Members("kyc", id.kyc)))
              + Min({(160 * near) \div total, 40}), 100})

\* staked >= base * (1 + 3 risk)^1.5, squared.
EnoughStake(stake, risk) ==
    LET factor == 100 + 3 * risk IN stake * stake * 10000 >= factor * factor * factor

TpmIsTaken(h, id) == Members("tpm", id.tpm) # {} /\ h \notin Members("tpm", id.tpm)

Entries(h, id) == {<<"ip", id.ip, h>>, <<"kyc", id.kyc, h>>, <<"tpm", id.tpm, h>>}

\* A host that registers again stays in the clusters of its old identity.
RegisterHost(h, id) ==
    /\ ~TpmIsTaken(h, id) /\ EnoughStake(id.stake, Risk(id)) /\ Call
    /\ hosts' = [hosts EXCEPT ![h] = id]
    /\ clusters' = clusters \cup Entries(h, id)
    /\ moved' = IF h \in Registered /\ Entries(h, hosts[h]) # Entries(h, id)
                THEN moved \cup {h} ELSE moved
    /\ UNCHANGED <<escrow, banned, receipts>>

MUT_Left(h) == {"ip", "kyc"} \X (Subnets \cup KycHashes) \X {h}

\* deregister_host takes the host out of the clusters of its last identity.
Left(h) == Entries(h, hosts[h])

DeregisterHost(h) ==
    /\ h \in Registered /\ Call
    /\ hosts' = [hosts EXCEPT ![h] = NoHost]
    /\ clusters' = clusters \ Left(h)
    /\ UNCHANGED <<moved, escrow, banned, receipts>>

-----------------------------------------------------------------------------
(* EscrowSlashingProtocol.                                                  *)

ViolationSeverity == {"MINOR_SLA_DROPOUT", "REPEATED_CANARY_FAIL", "TAMPERED_ATTESTATION",
                      "BYZANTINE_GRADIENT_POISON", "DMA_IOMMU_ESCAPE_ATTEMPT"}

Percent(severity) ==
    CASE severity = "MINOR_SLA_DROPOUT"    -> 10
      [] severity = "REPEATED_CANARY_FAIL" -> 35
      [] OTHER                             -> 100

Cent == 1000

\* round(amount, 2), in cents.
Rounded(amount) == (amount + Cent \div 2) \div Cent

SetHostEscrow(h, amount) ==
    /\ Call
    /\ escrow' = [escrow EXCEPT ![h] = amount]
    /\ UNCHANGED <<hosts, clusters, moved, banned, receipts>>

MUT_Kept(amount, taken) == Rounded(amount - taken) * Cent

Kept(amount, taken) == amount - taken

\* process_violation.  A host without escrow is banned and gets no receipt; half of what
\* is taken goes to the insurance pool.
ProcessViolation(h, severity) ==
    LET taken == (escrow[h] * Percent(severity)) \div 100
        left  == Kept(escrow[h], taken)
    IN
    /\ h \notin banned /\ Call
    /\ escrow' = [escrow EXCEPT ![h] = left]
    /\ banned' = IF escrow[h] = 0 \/ Percent(severity) = 100 \/ left <= Cent
                 THEN banned \cup {h} ELSE banned
    /\ receipts' = IF escrow[h] = 0 THEN receipts ELSE
          [receipts EXCEPT ![h] = Append(@,
              [before |-> escrow[h], after |-> left, slashed |-> Rounded(taken),
               remaining |-> Rounded(left), insurance |-> Rounded(taken \div 2),
               burned |-> Rounded(taken - taken \div 2), banned |-> h \in banned'])]
    /\ UNCHANGED <<hosts, clusters, moved>>

StakesNext ==
    \E h \in StakeHosts :
        \/ \E id \in Identity : RegisterHost(h, id)
        \/ DeregisterHost(h)
        \/ \E amount \in Escrows : SetHostEscrow(h, amount)
        \/ \E severity \in ViolationSeverity : ProcessViolation(h, severity)

StakesSpec == StakesInit /\ [][StakesNext]_stakeVars

-----------------------------------------------------------------------------
(* Properties *)

\* Every variable keeps its type.
StakesTypeOK ==
    /\ hosts \in [StakeHosts -> Identity \cup {NoHost}]
    /\ \A e \in clusters : e[3] \in StakeHosts
    /\ moved \subseteq StakeHosts /\ banned \subseteq StakeHosts
    /\ escrow \in [StakeHosts -> Nat] /\ calls \in 0..MaxCalls

\* Two hosts of one KYC identity are never both in at the base stake, in whatever order
\* they registered, moved and left, and no two hosts hold one TPM key.
SecondIdentityPays ==
    \A h, g \in Registered : h # g =>
        /\ hosts[h].tpm # hosts[g].tpm
        /\ hosts[h].kyc = hosts[g].kyc => Max({hosts[h].stake, hosts[g].stake}) >= 18

\* The entries of a host that never registered again with another identity are those of
\* the identity it has, and it has none once it is deregistered (register_host,
\* deregister_host).
StrayEntryWasMoved ==
    \A e \in clusters :
        \/ e[3] \in moved
        \/ e[3] \in Registered /\ e \in Entries(e[3], hosts[e[3]])

\* The receipts of a host account for its escrow: a slash takes something, and what the
\* receipt says was taken, kept, insured and burned is within a cent of what there was.
\* A host banned by a receipt has no later one.
ReceiptsAddUp ==
    \A h \in StakeHosts : \A i \in DOMAIN receipts[h] :
        LET r == receipts[h][i] IN
        /\ r.slashed + r.remaining - Rounded(r.before) \in -1..1
        /\ r.insurance + r.burned - r.slashed \in -1..1
        /\ r.after < r.before
        /\ r.banned => i = Len(receipts[h])

-----------------------------------------------------------------------------
(* A claim of the code's own text that its behaviour contradicts *)

\* deregister_host: "Cleanly remove host from Sybil clustering state." A host that moved
\* stays in the clusters of the identities before its last.
DeregisteredIsGone == \A e \in clusters : e[3] \in Registered
=============================================================================
