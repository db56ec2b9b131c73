---------------------------- MODULE ConsensusGuard ----------------------------
(***************************************************************************)
(* The vote counter of libs/federated_cryptoecon: one BFTConsensusGuard    *)
(* that is handed the PREPARE and COMMIT votes of a cluster, in any order  *)
(* and as often as they are sent.  Only tests hand it votes.               *)
(***************************************************************************)
EXTENDS Integers, FiniteSetsExt

CONSTANTS
    Nodes,          \* cluster_nodes
    Faulty,         \* the nodes that may vote twice, max_faulty_f of them at most
    MaxFaulty,      \* max_faulty_f
    Views, Sequences, Digests,
    NoDigest,
    MaxVotes        \* bounds: votes of each phase

\* The constructor takes any cluster; its tests give it 3f + 1 nodes.
ASSUME ConsensusAssumption ==
    /\ MaxFaulty \in Nat /\ Views \subseteq Nat
    /\ MaxVotes \in [{"PREPARE", "COMMIT"} -> Nat]
    /\ Faulty \subseteq Nodes /\ Cardinality(Faulty) <= MaxFaulty
    /\ IsFiniteSet(Nodes) /\ Cardinality(Nodes) <= 3 * MaxFaulty + 1
    /\ NoDigest \notin Digests

VARIABLES
    votes,      \* message_votes: the signers of every (view, sequence, digest) and phase
    committed   \* committed_logs

consensusVars == <<votes, committed>>

PBFTPhase == {"PREPARE", "COMMIT"}

Proposal == [view : Views, seq : Sequences, digest : Digests, phase : PBFTPhase]

ConsensusInit ==
    /\ votes = [p \in Proposal |-> {}]
    /\ committed = [s \in Sequences |-> NoDigest]

\* A node that is not faulty signs one digest in a phase of a view.
Signs(node, p) ==
    node \in Faulty \/ \A d \in Digests \ {p.digest} :
                          node \notin votes[[p EXCEPT !.digest = d]]

Cast(phase) == MapThenSumSet(LAMBDA p : Cardinality(votes[p]),
                             {p \in Proposal : p.phase = phase})

MUT_QuorumSize == 2 * MaxFaulty

QuorumSize == 2 * MaxFaulty + 1

Quorum(p) == Cardinality(votes[p]) >= QuorumSize

\* process_message.  The signature is of a node of the cluster, the view never below
\* current_view, which nothing advances; the phase PRE_PREPARE counts no vote.  A COMMIT
\* quorum writes the log whether or not there was a PREPARE quorum before it.
ProcessMessage(node, p) ==
    /\ Signs(node, p)
    /\ Cast(p.phase) < MaxVotes[p.phase] \/ node \in votes[p]
    /\ votes' = [votes EXCEPT ![p] = @ \cup {node}]
    /\ committed' = IF Quorum(p)' /\ p.phase = "COMMIT"
                    THEN [committed EXCEPT ![p.seq] = p.digest]
                    ELSE committed

ConsensusNext == \E node \in Nodes, p \in Proposal : ProcessMessage(node, p)

ConsensusSpec == ConsensusInit /\ [][ConsensusNext]_consensusVars

-----------------------------------------------------------------------------
(* Properties *)

\* Every variable keeps its type.
ConsensusTypeOK ==
    /\ votes \in [Proposal -> SUBSET Nodes]
    /\ committed \in [Sequences -> Digests \cup {NoDigest}]

\* The log entry of a sequence number is replaced only when two views have decided it
\* differently: within a view no two digests gather their quorums.
RewrittenByAnotherView ==
    [][\A s \in Sequences : committed[s] \notin {NoDigest, committed'[s]} =>
           \E p, q \in Proposal :
               /\ p.view # q.view /\ {p.seq, q.seq} = {s} /\ {p.phase, q.phase} = {"COMMIT"}
               /\ p.digest = committed[s] /\ q.digest = committed'[s]
               /\ Cardinality(votes'[p] \ Faulty) > MaxFaulty
               /\ Cardinality(votes'[q] \ Faulty) > MaxFaulty]_consensusVars
=============================================================================
