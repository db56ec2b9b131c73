------------------------------ MODULE AuditChain ------------------------------
(***************************************************************************)
(* The audit log: rows chained by hash, written by concurrent requests,    *)
(* rows two services write without a hash, and the verification of the     *)
(* chain. A hash is the created_at of the row it was computed for: no two  *)
(* rows share one, and a row still hashes to its own unless its hashed     *)
(* columns were changed.                                                   *)
(***************************************************************************)
EXTENDS Integers, FiniteSetsExt

CONSTANTS AuditSessions, MaxRows, MaxTampers   \* sessions, and bounds

ASSUME AuditAssumption == MaxRows \in Nat /\ MaxTampers \in Nat

VARIABLES
    rows,     \* audit_logs as it stands
    written,  \* every row ever committed, as it was
    writer,   \* the sessions and the row each has flushed
    tick,     \* the newest created_at given out
    tampers,  \* changes made in the table itself
    tip       \* the hash the last checkpoint exported

auditVars == <<rows, written, writer, tick, tampers, tip>>

Genesis == 0      \* GENESIS_HASH
Null    == -1
Quiet   == [step |-> "quiet"]

AuditInit ==
    /\ rows = {} /\ written = {} /\ tick = 0 /\ tampers = 0 /\ tip = Genesis
    /\ writer = [s \in AuditSessions |-> Quiet]

-----------------------------------------------------------------------------
(* Reading the log.                                                         *)

Newer(S, r)  == {q \in S : q.at > r.at}
Last(S)      == CHOOSE r \in S : Newer(S, r) = {}
HashOf(S)    == IF S = {} \/ Last(S).hash = Null THEN Genesis ELSE Last(S).hash

MUT_Follows(r, S) == TRUE

\* The row's prev_hash is the entry_hash of the row before it by created_at.
Follows(r, S) ==
    LET before == {q \in S : q.at < r.at} IN
    r.prev = IF before = {} THEN Genesis ELSE Last(before).hash

\* verify_audit_chain_integrity
Verifies(S) == \A r \in S : r.hash # Null /\ Follows(r, S) /\ r.intact

-----------------------------------------------------------------------------
(* Writers.                                                                 *)

Open(s) == writer[s].step # "quiet"

MUT_Previous(s) == HashOf({r \in rows : Newer(rows, r) # {}})

\* AuditLogRepository.create reads the newest committed hash.
Previous(s) == HashOf(rows)

AuditWrite(s) ==
    /\ ~Open(s) /\ tick < MaxRows
    /\ tick' = tick + 1
    /\ writer' = [writer EXCEPT ![s] = [step |-> "flushed",
          row |-> [at |-> tick', hash |-> tick', prev |-> Previous(s), intact |-> TRUE],
          alone |-> \A r \in AuditSessions : ~Open(r)]]
    /\ UNCHANGED <<rows, written, tampers, tip>>

\* The host service's repository and log_instance_event leave both hashes NULL, and
\* created_at to the database. That is the start of the transaction, which is this step:
\* when the row is flushed before the commit nobody sees.
UnhashedWrite(s) ==
    /\ ~Open(s) /\ tick < MaxRows
    /\ tick' = tick + 1
    /\ writer' = [writer EXCEPT ![s] = [step |-> "flushed",
          row |-> [at |-> tick', hash |-> Null, prev |-> Null, intact |-> TRUE], alone |-> TRUE]]
    /\ UNCHANGED <<rows, written, tampers, tip>>

\* A row is committed or lost with the request it belongs to.
AuditCommit(s) ==
    /\ Open(s)
    /\ rows' = rows \cup {writer[s].row}
    /\ written' = written \cup {[row |-> writer[s].row, alone |-> writer[s].alone]}
    /\ writer' = [writer EXCEPT ![s] = Quiet]
    /\ UNCHANGED <<tick, tampers, tip>>

AuditRollback(s) ==
    /\ Open(s)
    /\ writer' = [writer EXCEPT ![s] = Quiet]
    /\ UNCHANGED <<rows, written, tick, tampers, tip>>

\* generate_chain_tip_checkpoint
Checkpoint ==
    /\ tip' = HashOf(rows) /\ tip' # tip
    /\ UNCHANGED <<rows, written, writer, tick, tampers>>

\* Someone with the table removes a row or changes what its hash covers.
RowRemoved(r) ==
    /\ tampers < MaxTampers
    /\ rows' = rows \ {r} /\ tampers' = tampers + 1
    /\ UNCHANGED <<written, writer, tick, tip>>

RowAltered(r) ==
    /\ tampers < MaxTampers
    /\ rows' = (rows \ {r}) \cup {[r EXCEPT !.intact = FALSE]} /\ tampers' = tampers + 1
    /\ UNCHANGED <<written, writer, tick, tip>>

AuditNext ==
    \/ \E s \in AuditSessions :
          AuditWrite(s) \/ UnhashedWrite(s) \/ AuditCommit(s) \/ AuditRollback(s)
    \/ \E r \in rows : RowRemoved(r) \/ RowAltered(r)
    \/ Checkpoint

AuditSpec == AuditInit /\ [][AuditNext]_auditVars

-----------------------------------------------------------------------------
(* Properties *)

Rows == {w.row : w \in written}

\* Every variable keeps its type.
AuditTypeOK ==
    /\ \A r \in rows : r.at \in 1..MaxRows /\ r.hash \in {Null} \cup 1..MaxRows /\ r.intact \in BOOLEAN
    /\ Cardinality(rows) <= Cardinality(written) /\ tick \in 0..MaxRows
    /\ tampers \in 0..MaxTampers /\ tip \in 0..MaxRows

\* A chain that verifies shows its table to be a beginning of what was written, row
\* for row, if the rows as written were a chain: what is missing is at the end, and
\* a checkpoint whose row is still there vouches for all before it.
VerifiedIsPrefix ==
    Verifies(rows) /\ Verifies(Rows) =>
        /\ rows \subseteq Rows
        /\ \A r \in Rows \ rows : \A q \in rows : q.at < r.at
        /\ (\E q \in rows : q.hash = tip) => \A r \in Rows : r.at <= tip => r \in rows

\* The log is written as a chain unless a row was written without a hash, or while
\* another was waiting for its commit, or something in the table was changed first.
BreakHasCause ==
    ~Verifies(Rows) => \/ tampers > 0
                       \/ \E w \in written : w.row.hash = Null \/ ~w.alone

\* audit_checkpoint.py:62: the verification raises if a row was modified or deleted.
AlarmMeansTampering == ~Verifies(rows) => tampers > 0
=============================================================================
