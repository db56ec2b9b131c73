----------------------------- MODULE AgentUpdate -----------------------------
(***************************************************************************)
(* The agent's update of its own binary: apply_atomic_update and rollback  *)
(* over three files, with a crash after any step.  A file is written in    *)
(* two steps, so a crash can leave a part of it.                           *)
(***************************************************************************)
EXTENDS Naturals

CONSTANT MaxVersion   \* bound: versions, the first of which is installed

ASSUME UpdateAssumption == MaxVersion \in Nat \ {0}

VARIABLES
    target, tmp, bak,   \* the versions in the files, 0 for none and Part for a part
    job,                \* the step the updater is at
    rolled              \* ghost: a rollback was cut, or restored a backup that is a part

updateVars == <<target, tmp, bak, job, rolled>>

Part    == MaxVersion + 1   \* a file that is not whole
Content == 0..Part
Jobs    == {"idle", "write", "backup", "copy", "swap", "restore"}

UpdateInit ==
    /\ target = 1 /\ tmp = 0 /\ bak = 0 /\ job = "idle" /\ rolled = FALSE

StartUpdate ==
    /\ job = "idle" /\ target # MaxVersion
    /\ job' = "write" /\ tmp' = Part /\ UNCHANGED <<target, bak, rolled>>

WriteTmp ==
    /\ job = "write"
    /\ job' = "backup" /\ tmp' \in 2..MaxVersion /\ UNCHANGED <<target, bak, rolled>>

StartBackup ==
    /\ job = "backup"
    /\ job' = "copy" /\ bak' = Part /\ UNCHANGED <<target, tmp, rolled>>

Backup ==
    /\ job = "copy"
    /\ job' = "swap" /\ bak' = target /\ UNCHANGED <<target, tmp, rolled>>

\* Mutant: the new bytes are copied over the running binary.
MUT_Swap ==
    /\ job = "swap"
    /\ target' = IF target = Part THEN tmp ELSE Part
    /\ job' = IF target = Part THEN "idle" ELSE "swap"
    /\ rolled' = FALSE /\ UNCHANGED <<tmp, bak>>

Swap ==
    /\ job = "swap"
    /\ job' = "idle" /\ target' = tmp /\ tmp' = 0 /\ rolled' = FALSE /\ UNCHANGED bak

\* A step that fails removes the temporary file and gives the update up.
UpdateFails ==
    /\ job \in {"write", "backup", "copy", "swap"}
    /\ job' = "idle" /\ tmp' = 0 /\ UNCHANGED <<target, bak, rolled>>

StartRollback ==
    /\ job = "idle" /\ bak # 0
    /\ job' = "restore" /\ target' = Part /\ rolled' = TRUE /\ UNCHANGED <<tmp, bak>>

Restore ==
    /\ job = "restore"
    /\ job' = "idle" /\ target' = bak /\ rolled' = (bak = Part) /\ UNCHANGED <<tmp, bak>>

\* A crash, or a rollback that fails: what is written stays.
UpdaterDies ==
    /\ job # "idle"
    /\ job' = "idle" /\ UNCHANGED <<target, tmp, bak, rolled>>

UpdateNext ==
    \/ StartUpdate \/ WriteTmp \/ StartBackup \/ Backup \/ Swap \/ UpdateFails
    \/ StartRollback \/ Restore \/ UpdaterDies

UpdateSpec == UpdateInit /\ [][UpdateNext]_updateVars

-----------------------------------------------------------------------------

\* Every variable of the updater keeps its type.
UpdateTypeOK ==
    /\ target \in Content \ {0} /\ tmp \in Content /\ bak \in Content
    /\ job \in Jobs /\ rolled \in BOOLEAN

\* However an update is cut short, the agent's binary is whole; only a rollback,
\* which copies over it, can leave a part of it (apply_atomic_update, rollback).
BrokenOnlyByRollback == target = Part => rolled
=============================================================================
