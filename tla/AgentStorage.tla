---------------------------- MODULE AgentStorage ----------------------------
(***************************************************************************)
(* The encrypted volumes of a host: the agent's provision and terminate    *)
(* calls, its file of running instances, and the cache manager's thread    *)
(* that collects orphaned volumes.  The calls run to their end on the      *)
(* agent's event loop, one at a time.                                      *)
(***************************************************************************)
EXTENDS Naturals

CONSTANTS
    Guests,     \* instances placed on the host
    NoGuest,    \* model value: the agent serves no call
    MaxTries,   \* bound: provision calls for an instance
    MaxDeaths   \* bound: crashes of the agent

ASSUME StorageAssumption ==
    NoGuest \notin Guests /\ MaxTries \in Nat /\ MaxDeaths \in Nat

VARIABLES
    volume,    \* the volume file of each instance
    mapped,    \* instances whose LUKS container is open
    old,       \* instances whose file's last access is past the orphan TTL
    named,     \* instances the state file names
    call,      \* the agent's call and its next step
    victims,   \* what the cache manager's cycle found and has not yet deleted
    tries,     \* provision calls made for each instance
    running,   \* ghost: instances saved as running whose termination has not begun
    torn,      \* ghost: a crash cut a write of the state file
    taken,     \* ghost: instances whose file the cache manager took past the TTL
    deaths     \* crashes so far

storageVars ==
    <<volume, mapped, old, named, call, victims, tries, running, torn, taken, deaths>>

VolumeState == {"none", "plain", "luks", "erased"}
Step   == {"truncate", "format", "open", "mkfs", "save",
           "close", "erase", "unlink", "remove"}
NoCall == [guest |-> NoGuest, at |-> "truncate"]

StorageInit ==
    /\ volume = [i \in Guests |-> "none"] /\ mapped = {} /\ old = {} /\ named = {}
    /\ call = NoCall /\ victims = {} /\ tries = [i \in Guests |-> 0]
    /\ running = {} /\ torn = FALSE /\ taken = {} /\ deaths = 0

-----------------------------------------------------------------------------
(* Provision and terminate.                                                *)

At(i, s) == call = [guest |-> i, at |-> s]
Goto(i, s) == call' = [guest |-> i, at |-> s]

\* The control plane retries a launch within minutes, long before the TTL; nothing
\* looks whether the instance runs already.
Provision(i) ==
    /\ call = NoCall /\ tries[i] < MaxTries /\ i \notin old
    /\ tries' = [tries EXCEPT ![i] = @ + 1] /\ Goto(i, "truncate")
    /\ UNCHANGED <<volume, mapped, old, named, victims, running, torn, taken, deaths>>

\* truncate leaves a file that is there as it is.
Truncate(i) ==
    /\ At(i, "truncate") /\ Goto(i, "format")
    /\ volume' = [volume EXCEPT ![i] = IF @ = "none" THEN "plain" ELSE @]
    /\ UNCHANGED <<mapped, old, named, victims, tries, running, torn, taken, deaths>>

\* A container that is open is in use: its file is not formatted, and its name is not
\* taken a second time.
Format(i) ==
    /\ At(i, "format") /\ (i \notin mapped \/ volume[i] = "plain")
    /\ volume[i] # "none" /\ Goto(i, "open")
    /\ volume' = [volume EXCEPT ![i] = "luks"]
    /\ UNCHANGED <<mapped, old, named, victims, tries, running, torn, taken, deaths>>

Open(i) ==
    /\ At(i, "open") /\ i \notin mapped /\ volume[i] = "luks" /\ Goto(i, "mkfs")
    /\ mapped' = mapped \cup {i}
    /\ UNCHANGED <<volume, old, named, victims, tries, running, torn, taken, deaths>>

MakeFilesystem(i) ==
    /\ At(i, "mkfs") /\ Goto(i, "save")
    /\ UNCHANGED <<volume, mapped, old, named, victims, tries, running, torn, taken, deaths>>

SaveState(i) ==
    /\ At(i, "save") /\ call' = NoCall
    /\ named' = named \cup {i} /\ running' = running \cup {i}
    /\ UNCHANGED <<volume, mapped, old, victims, tries, torn, taken, deaths>>

\* A command of allocate that fails ends the call with an error; nothing is undone.
ProvisionFails(i) ==
    /\ call.guest = i /\ call.at \in {"truncate", "format", "open", "mkfs", "save"}
    /\ call' = NoCall
    /\ UNCHANGED <<volume, mapped, old, named, victims, tries, running, torn, taken, deaths>>

Terminate(i) ==
    /\ call = NoCall /\ tries[i] > 0 /\ Goto(i, "close")
    /\ tries' = [tries EXCEPT ![i] = MaxTries] /\ running' = running \ {i}
    /\ UNCHANGED <<volume, mapped, old, named, victims, torn, taken, deaths>>

\* shred: close and erase are tried, and their failure is not looked at.
Close(i, works) ==
    /\ At(i, "close") /\ Goto(i, "erase")
    /\ mapped' = IF works THEN mapped \ {i} ELSE mapped
    /\ UNCHANGED <<volume, old, named, victims, tries, running, torn, taken, deaths>>

Erase(i, works) ==
    /\ At(i, "erase") /\ Goto(i, "unlink")
    /\ volume' = [volume EXCEPT ![i] = IF works /\ @ = "luks" THEN "erased" ELSE @]
    /\ UNCHANGED <<mapped, old, named, victims, tries, running, torn, taken, deaths>>

Unlink(i) ==
    /\ At(i, "unlink") /\ Goto(i, "remove")
    /\ volume' = [volume EXCEPT ![i] = "none"] /\ old' = old \ {i}
    /\ UNCHANGED <<mapped, named, victims, tries, running, torn, taken, deaths>>

RemoveState(i) ==
    /\ At(i, "remove") /\ call' = NoCall
    /\ named' = named \ {i}
    /\ UNCHANGED <<volume, mapped, old, victims, tries, running, torn, taken, deaths>>

\* The state file is rewritten in place: cut in the middle, it reads as empty.
AgentDies ==
    /\ deaths < MaxDeaths /\ deaths' = deaths + 1
    /\ call' = NoCall /\ victims' = {}
    /\ \/ UNCHANGED <<named, torn>>
       \/ call.at \in {"save", "remove"} /\ named' = {} /\ torn' = TRUE
    /\ UNCHANGED <<volume, mapped, old, tries, running, taken>>

-----------------------------------------------------------------------------
(* The cache manager's cycle.                                              *)

\* Reads through the open container do not renew the file's access time.
Ages(i) ==
    /\ volume[i] # "none" /\ call.guest # i /\ i \notin old
    /\ old' = old \cup {i}
    /\ UNCHANGED <<volume, mapped, named, call, victims, tries, running, torn, taken, deaths>>

Files == {i \in Guests : volume[i] # "none"}

\* The ids of running instances are asked of a callback that nothing in the agent
\* passes; its default names none.
ScanOrphans ==
    /\ victims = {} /\ victims' = Files \cap old /\ victims' # {}
    /\ UNCHANGED <<volume, mapped, old, named, call, tries, running, torn, taken, deaths>>

\* An unlink that fails is logged, and the file stays.
DeleteOrphan(i) ==
    /\ i \in victims /\ victims' = victims \ {i}
    /\ \/ /\ volume' = [volume EXCEPT ![i] = "none"] /\ old' = old \ {i}
          /\ taken' = taken \cup ({i} \cap old)
       \/ UNCHANGED <<volume, old, taken>>
    /\ UNCHANGED <<mapped, named, call, tries, running, torn, deaths>>

-----------------------------------------------------------------------------

CallSteps(i) ==
    \/ Truncate(i) \/ Format(i) \/ Open(i) \/ MakeFilesystem(i) \/ SaveState(i)
    \/ ProvisionFails(i) \/ Unlink(i) \/ RemoveState(i)
    \/ \E b \in BOOLEAN : Close(i, b) \/ Erase(i, b)

GcSteps == ScanOrphans \/ \E i \in Guests : DeleteOrphan(i)

StorageNext ==
    \/ \E i \in Guests : Provision(i) \/ Terminate(i) \/ CallSteps(i) \/ Ages(i)
    \/ GcSteps \/ AgentDies

StorageSpec == StorageInit /\ [][StorageNext]_storageVars

-----------------------------------------------------------------------------

\* Every variable of the host's storage keeps its type.
StorageTypeOK ==
    /\ volume \in [Guests -> VolumeState]
    /\ mapped \cup named \cup victims \cup running \cup taken \subseteq Guests
    /\ old \subseteq Files /\ tries \in [Guests -> 0..MaxTries]
    /\ call \in [guest: Guests \cup {NoGuest}, at: Step]
    /\ torn \in BOOLEAN /\ deaths \in 0..MaxDeaths

\* An instance saved as running loses its volume only to the cache manager, and only
\* once the file is past the orphan TTL: not to a crash, a failed or a repeated
\* provisioning, nor to a cycle that found an earlier file of it.  Nor does it lose its
\* entry of the state file but to a crash that cut a write (provision_instance,
\* save_instance_state, run_eviction_cycle).
RunningIsKept ==
    \A i \in running : /\ volume[i] = "luks" \/ i \in taken
                       /\ i \in named \/ torn

-----------------------------------------------------------------------------
(* Claims of the code's own text that its behaviour contradicts *)

\* run_eviction_cycle: "GC orphaned NVMe volumes (instances that terminated
\* abnormally)".
RunningIsNoOrphan == running \cap taken = {}
=============================================================================
