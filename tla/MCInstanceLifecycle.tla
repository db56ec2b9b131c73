------------------------- MODULE MCInstanceLifecycle -------------------------
(* InstanceLifecycle on one instance: instances share no state but the      *)
(* workers, and every race of the module is between handlers of one row.    *)
EXTENDS InstanceLifecycle, TLC

Symmetry == Permutations(Procs)

\* Nothing reads events: runs whose properties do not either leave them out.
WithoutEvents == <<rows, rowLock, launch, host, meter, queue, proc,
                   callbackSeen, crashes>>
=============================================================================
