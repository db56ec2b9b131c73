-------------------------- MODULE InstanceLifecycle --------------------------
(***************************************************************************)
(* The life of a rented compute instance in provisioning_service: the      *)
(* launch, stop, start and terminate routes, the host agent's callback,    *)
(* the Celery tasks provision_instance, stop_instance, terminate_instance, *)
(* meter_instance_usage and reconcile_billing, the Redis billing flags     *)
(* and the emergency kill switch, all running concurrently.                *)
(*                                                                         *)
(* Database transactions are PostgreSQL's at READ COMMITTED with           *)
(* SQLAlchemy's identity map: a transaction sees only committed rows, a    *)
(* row it has loaded keeps the attributes of the first SELECT, an UPDATE   *)
(* waits for the row lock and then overwrites whatever was committed in    *)
(* the meantime.  Only provision_instance holds the lock of an instances   *)
(* row across a call to the host agent.                                    *)
(***************************************************************************)
EXTENDS Naturals, FiniteSets

CONSTANTS
    Instances,           \* the instance ids handed out by launch requests
    Procs,               \* the Celery worker processes
    NoInstance, NoProc,
    MaxStops,            \* bound: stop messages in the broker
    MaxTeardowns,        \* bound: terminate messages requested in the broker
    MaxTicks,            \* bound: concurrent meter chains reconcile may build
    MaxCrashes,          \* bound: failures of workers or their connections
    AgentReports,        \* whether the agent posts to the callback endpoint
    KillSwitchDeployed   \* whether trigger_emergency_kill_switch is called

ASSUME LifecycleAssumption ==
    /\ NoInstance \notin Instances
    /\ NoProc \notin Procs
    /\ MaxStops \in Nat /\ MaxTeardowns \in Nat
    /\ MaxTicks \in Nat /\ MaxCrashes \in Nat
    /\ AgentReports \in BOOLEAN /\ KillSwitchDeployed \in BOOLEAN

VARIABLES
    \* committed rows of the database
    status,        \* instances.status, "none" before the row is committed
    holdReleased,  \* instances.hold_released
    ssh,           \* the ssh_sessions row: "none", "live" or "revoked"
    receipt,       \* the secure_deletion_receipts row
    rowLock,       \* the worker whose open transaction updated the row
    \* the launch request, the host, Redis and the broker
    launch, vm, volume, active, stop, ticks, queue, events,
    listed,        \* the reconcile sweep read the row as running
    \* handlers in flight
    proc,          \* each worker's task, with what it has read so far
    callbackSeen,  \* the status a "failed" callback has read
    crashes

rows   == <<status, holdReleased, ssh, receipt>>
host   == <<vm, volume>>
meter  == <<active, stop, ticks, listed>>
vars   == <<rows, rowLock, launch, host, meter, queue, events, proc,
            callbackSeen, crashes>>

-----------------------------------------------------------------------------
(* Value sets *)

InstanceStatus == {"pending", "provisioning", "running", "stopping",
                   "stopped", "terminated", "failed"}
RowStatus    == InstanceStatus \cup {"none"}
KeyState     == {"none", "live", "revoked"}
ReceiptKind  == {"none", "verified", "unverified"}
LaunchStep   == {"idle", "held", "open", "done", "rolledback"}
VMState      == {"absent", "running", "suspended"}
VolumeState  == {"absent", "present", "shredded"}
Tasks        == {"provision", "stop", "terminate"}
EventKind    == {"running", "terminated", "failed"}
Step         == {"idle", "scan", "calling", "failing", "store", "announce",
                 "publish", "suspend", "destroy", "verify", "write", "commit",
                 "finish"}

ProcState == [task: Tasks \cup {"none"}, inst: Instances \cup {NoInstance},
              pc: Step, seen: RowStatus, verdict: ReceiptKind,
              keySeen: BOOLEAN]

Idle == [task |-> "none", inst |-> NoInstance, pc |-> "idle",
         seen |-> "none", verdict |-> "none", keySeen |-> FALSE]

\* LEGAL_TRANSITIONS of the instance repository.
LegalTransitions ==
    [s \in RowStatus |->
        CASE s = "pending"      -> {"provisioning", "failed", "terminated"}
          [] s = "provisioning" -> {"running", "failed", "terminated"}
          [] s = "running"      -> {"stopping", "failed", "terminated"}
          [] s = "stopping"     -> {"stopped", "failed", "terminated"}
          [] s = "stopped"      -> {"running", "terminated"}
          [] s = "failed"       -> {"terminated"}
          [] OTHER              -> {}]

\* Mutants, which the properties below tell from the code, are named MUT_.
MUT_RunFromPending(seen, new) ==
    new \in LegalTransitions[seen] \/ (seen = "pending" /\ new = "running")

\* transition_state judges the status the session loaded, not the current one.
MayTransition(seen, new) == new \in LegalTransitions[seen]

-----------------------------------------------------------------------------
(* Helpers *)

At(p, t, step) == proc[p].task = t /\ proc[p].pc = step
Here(p)        == proc[p].inst
Unlocked(i)    == rowLock[i] = NoProc

Done(p)        == proc' = [proc EXCEPT ![p] = Idle]
Goto(p, step)  == proc' = [proc EXCEPT ![p].pc = step]

Enqueue(i, t)  == queue' = [queue EXCEPT ![i][t] = @ + 1]
Publish(i, e)  == events' = [events EXCEPT ![i] = @ \cup {e}]

\* start_billing sets the ACTIVE key and queues a tick; it leaves STOP alone.
StartBilling(i) == /\ active' = [active EXCEPT ![i] = TRUE]
                   /\ ticks' = [ticks EXCEPT ![i] = @ + 1]
                   /\ UNCHANGED stop

\* Where anything but the reconcile sweep starts billing.
StartsBilling(i) == StartBilling(i) /\ UNCHANGED listed

\* stop_billing sets the STOP key (one hour to live) and deletes ACTIVE.
StopBilling(i) == /\ stop' = [stop EXCEPT ![i] = TRUE]
                  /\ active' = [active EXCEPT ![i] = FALSE]

\* The message is handled whether or not it is in the queue.
MUT_PickupAnyway(p, i, t, step) ==
    /\ proc[p] = Idle
    /\ queue' = [queue EXCEPT ![i][t] = @ - 1]
    /\ proc' = [proc EXCEPT ![p] =
                   [task |-> t, inst |-> i, pc |-> step, seen |-> status[i],
                    verdict |-> "none", keySeen |-> FALSE]]

\* A worker takes a task message; `step' is where it is after its first read.
Pickup(p, i, t, step) ==
    /\ proc[p] = Idle
    /\ queue[i][t] > 0
    /\ queue' = [queue EXCEPT ![i][t] = @ - 1]
    /\ proc' = [proc EXCEPT ![p] =
                   [task |-> t, inst |-> i, pc |-> step, seen |-> status[i],
                    verdict |-> "none", keySeen |-> FALSE]]

Init ==
    /\ status = [i \in Instances |-> "none"]
    /\ holdReleased = [i \in Instances |-> FALSE]
    /\ ssh = [i \in Instances |-> "none"]
    /\ receipt = [i \in Instances |-> "none"]
    /\ rowLock = [i \in Instances |-> NoProc]
    /\ launch = [i \in Instances |-> "idle"]
    /\ vm = [i \in Instances |-> "absent"]
    /\ volume = [i \in Instances |-> "absent"]
    /\ active = [i \in Instances |-> FALSE]
    /\ stop = [i \in Instances |-> FALSE]
    /\ ticks = [i \in Instances |-> 0]
    /\ listed = [i \in Instances |-> FALSE]
    /\ queue = [i \in Instances |-> [t \in Tasks |-> 0]]
    /\ events = [i \in Instances |-> {}]
    /\ proc = [p \in Procs |-> Idle]
    /\ callbackSeen = [i \in Instances |-> "none"]
    /\ crashes = 0

-----------------------------------------------------------------------------
(* Launch: POST /instances and schedule_instance *)

\* The wallet hold is an HTTP call made before the row exists.
LaunchHold(i) ==
    /\ launch[i] = "idle"
    /\ launch' = [launch EXCEPT ![i] = "held"]
    /\ UNCHANGED <<rows, rowLock, host, meter, queue, events, proc,
                   callbackSeen, crashes>>

\* The row is inserted and the task is queued before the commit.
LaunchEnqueue(i) ==
    /\ launch[i] = "held"
    /\ launch' = [launch EXCEPT ![i] = "open"]
    /\ Enqueue(i, "provision")
    /\ UNCHANGED <<rows, rowLock, host, meter, events, proc, callbackSeen,
                   crashes>>

LaunchCommit(i) ==
    /\ launch[i] = "open"
    /\ launch' = [launch EXCEPT ![i] = "done"]
    /\ status' = [status EXCEPT ![i] = "pending"]
    /\ UNCHANGED <<holdReleased, ssh, receipt, rowLock, host, meter, queue,
                   events, proc, callbackSeen, crashes>>

\* An error after the hold rolls the transaction back; the hold stays placed.
LaunchRollback(i) ==
    /\ launch[i] \in {"held", "open"}
    /\ launch' = [launch EXCEPT ![i] = "rolledback"]
    /\ UNCHANGED <<rows, rowLock, host, meter, queue, events, proc,
                   callbackSeen, crashes>>

-----------------------------------------------------------------------------
(* provision_instance *)

\* No idempotency check: a row in any status is provisioned.
MUT_ProvisionAnyStatus(p, i) ==
    /\ status[i] # "none" /\ Pickup(p, i, "provision", "scan")
    /\ UNCHANGED <<rows, rowLock, launch, host, meter, events, callbackSeen,
                   crashes>>

\* Reads the row; a row that is missing or past pending ends the task.
ProvisionStart(p, i) ==
    /\ \/ /\ status[i] = "pending"
          /\ Pickup(p, i, "provision", "scan")
       \/ /\ status[i] # "pending"
          /\ proc[p] = Idle
          /\ queue[i]["provision"] > 0
          /\ queue' = [queue EXCEPT ![i]["provision"] = @ - 1]
          /\ UNCHANGED proc
    /\ UNCHANGED <<rows, rowLock, launch, host, meter, events, callbackSeen,
                   crashes>>

\* The image scan blocks the launch: failed, with no event published.
ProvisionBlocked(p) ==
    LET i == Here(p) IN
    /\ At(p, "provision", "scan")
    /\ Unlocked(i)
    /\ MayTransition(proc[p].seen, "failed")
    /\ status' = [status EXCEPT ![i] = "failed"]
    /\ Done(p)
    /\ UNCHANGED <<holdReleased, ssh, receipt, rowLock, launch, host, meter,
                   queue, events, callbackSeen, crashes>>

\* The flush of pending -> provisioning takes the row lock.
ProvisionBegin(p) ==
    LET i == Here(p) IN
    /\ At(p, "provision", "scan")
    /\ Unlocked(i)
    /\ MayTransition(proc[p].seen, "provisioning")
    /\ rowLock' = [rowLock EXCEPT ![i] = p]
    /\ proc' = [proc EXCEPT ![p].pc = "calling", ![p].seen = "provisioning"]
    /\ UNCHANGED <<rows, launch, host, meter, queue, events, callbackSeen,
                   crashes>>

\* The host agent boots the VM and allocates the volume.
ProvisionAgentOk(p) ==
    LET i == Here(p) IN
    /\ At(p, "provision", "calling")
    /\ vm' = [vm EXCEPT ![i] = "running"]
    /\ volume' = [volume EXCEPT ![i] = "present"]
    /\ Goto(p, "store")
    /\ UNCHANGED <<rows, rowLock, launch, meter, queue, events, callbackSeen,
                   crashes>>

\* The call fails, before or after the agent did the work; the failure event
\* goes out while the transaction is still open.
ProvisionAgentFails(p) ==
    LET i == Here(p) IN
    /\ At(p, "provision", "calling")
    /\ \/ UNCHANGED host
       \/ /\ vm' = [vm EXCEPT ![i] = "running"]
          /\ volume' = [volume EXCEPT ![i] = "present"]
    /\ Publish(i, "failed")
    /\ Goto(p, "failing")
    /\ UNCHANGED <<rows, rowLock, launch, meter, queue, callbackSeen,
                   crashes>>

ProvisionFailCommit(p) ==
    LET i == Here(p) IN
    /\ At(p, "provision", "failing")
    /\ MayTransition(proc[p].seen, "failed")
    /\ status' = [status EXCEPT ![i] = "failed"]
    /\ rowLock' = [rowLock EXCEPT ![i] = NoProc]
    /\ Done(p)
    /\ UNCHANGED <<holdReleased, ssh, receipt, launch, host, meter, queue,
                   events, callbackSeen, crashes>>

\* A key row that exists already is taken for this run's.
MUT_CommitReusingKey(p) ==
    LET i == Here(p) IN
    /\ At(p, "provision", "store")
    /\ rowLock' = [rowLock EXCEPT ![i] = NoProc]
    /\ ssh' = [ssh EXCEPT ![i] = IF @ = "none" THEN "live" ELSE @]
    /\ status' = [status EXCEPT ![i] = "running"]
    /\ Goto(p, "announce")
    /\ UNCHANGED <<holdReleased, receipt, launch, host, meter, queue, events,
                   callbackSeen, crashes>>

\* ssh_sessions.instance_id is unique: a second row fails the transaction.
ProvisionCommit(p) ==
    LET i == Here(p) IN
    /\ At(p, "provision", "store")
    /\ rowLock' = [rowLock EXCEPT ![i] = NoProc]
    /\ \/ /\ ssh[i] = "none"
          /\ MayTransition(proc[p].seen, "running")
          /\ ssh' = [ssh EXCEPT ![i] = "live"]
          /\ status' = [status EXCEPT ![i] = "running"]
          /\ Goto(p, "announce")
       \/ /\ ssh[i] # "none"
          /\ Done(p)
          /\ UNCHANGED <<ssh, status>>
    /\ UNCHANGED <<holdReleased, receipt, launch, host, meter, queue, events,
                   callbackSeen, crashes>>

ProvisionAnnounce(p) ==
    /\ At(p, "provision", "announce")
    /\ StartsBilling(Here(p))
    /\ Goto(p, "publish")
    /\ UNCHANGED <<rows, rowLock, launch, host, queue, events, callbackSeen,
                   crashes>>

ProvisionPublish(p) ==
    /\ At(p, "provision", "publish")
    /\ Publish(Here(p), "running")
    /\ Done(p)
    /\ UNCHANGED <<rows, rowLock, launch, host, meter, queue, callbackSeen,
                   crashes>>

-----------------------------------------------------------------------------
(* stop_instance and the stop and start routes *)

StopRoute(i) ==
    /\ status[i] = "running"
    /\ queue[i]["stop"] < MaxStops
    /\ Enqueue(i, "stop")
    /\ UNCHANGED <<rows, rowLock, launch, host, meter, events, proc,
                   callbackSeen, crashes>>

StopStart(p, i) ==
    /\ Pickup(p, i, "stop", "suspend")
    /\ StopBilling(i)
    /\ UNCHANGED <<rows, rowLock, launch, host, ticks, listed, events,
                   callbackSeen, crashes>>

\* agent.stop() is best effort; VM suspension precedes the transition.
StopAgent(p) ==
    LET i == Here(p) IN
    /\ At(p, "stop", "suspend")
    /\ \/ UNCHANGED vm
       \/ vm[i] = "running" /\ vm' = [vm EXCEPT ![i] = "suspended"]
    /\ Goto(p, "finish")
    /\ UNCHANGED <<rows, rowLock, launch, volume, meter, queue, events,
                   callbackSeen, crashes>>

\* The transition to stopped; an illegal one raises and rolls back.
StopFinish(p) ==
    LET i == Here(p)
        legal == MayTransition(proc[p].seen, "stopped") IN
    /\ At(p, "stop", "finish")
    /\ legal => Unlocked(i)
    /\ status' = IF legal THEN [status EXCEPT ![i] = "stopped"] ELSE status
    /\ Done(p)
    /\ UNCHANGED <<holdReleased, ssh, receipt, rowLock, launch, host, meter,
                   queue, events, callbackSeen, crashes>>

\* Anything but a stopped row is answered 409 and changes nothing.
StartRoute(i) ==
    /\ status[i] # "none"
    /\ IF status[i] = "stopped" /\ Unlocked(i)
       THEN /\ status' = [status EXCEPT ![i] = "running"]
            /\ StartsBilling(i)
       ELSE UNCHANGED <<status, meter>>
    /\ UNCHANGED <<holdReleased, ssh, receipt, rowLock, launch, host, queue,
                   events, proc, callbackSeen, crashes>>

-----------------------------------------------------------------------------
(* terminate_instance and its route *)

\* The route does not look the instance up.
MUT_TerminateUnknown(i) ==
    /\ queue[i]["terminate"] < MaxTeardowns
    /\ Enqueue(i, "terminate")
    /\ UNCHANGED <<rows, rowLock, launch, host, meter, events, proc,
                   callbackSeen, crashes>>

TerminateRoute(i) ==
    /\ status[i] \notin {"none", "terminated"}
    /\ queue[i]["terminate"] < MaxTeardowns
    /\ Enqueue(i, "terminate")
    /\ UNCHANGED <<rows, rowLock, launch, host, meter, events, proc,
                   callbackSeen, crashes>>

TerminateStart(p, i) ==
    /\ Pickup(p, i, "terminate", "destroy")
    /\ StopBilling(i)
    /\ UNCHANGED <<rows, rowLock, launch, host, ticks, listed, events,
                   callbackSeen, crashes>>

\* agent.terminate() and agent.delete_volume(), each best effort.
TerminateDestroy(p) ==
    LET i == Here(p) IN
    /\ At(p, "terminate", "destroy")
    /\ vm' \in {vm, [vm EXCEPT ![i] = "absent"]}
    /\ volume' \in {volume, [volume EXCEPT ![i] =
                                IF @ = "absent" THEN @ ELSE "shredded"]}
    /\ Goto(p, "verify")
    /\ UNCHANGED <<rows, rowLock, launch, meter, queue, events, callbackSeen,
                   crashes>>

\* A verification that fails prepares no receipt.
MUT_VerifyOrNothing(p) ==
    /\ At(p, "terminate", "verify")
    /\ \E v \in {"verified", "none"} :
          /\ v = "verified" => volume[Here(p)] # "present"
          /\ proc' = [proc EXCEPT ![p].pc = "write", ![p].verdict = v]
    /\ UNCHANGED <<rows, rowLock, launch, host, meter, queue, events,
                   callbackSeen, crashes>>

\* agent.verify_deletion(): the agent looks for the volume; an error is
\* recorded as a receipt that says VERIFICATION_FAILED.
TerminateVerify(p) ==
    /\ At(p, "terminate", "verify")
    /\ \E v \in {"verified", "unverified"} :
          /\ v = "verified" => volume[Here(p)] # "present"
          /\ proc' = [proc EXCEPT ![p].pc = "write", ![p].verdict = v]
    /\ UNCHANGED <<rows, rowLock, launch, host, meter, queue, events,
                   callbackSeen, crashes>>

\* The event goes out at the end of the handler's work, not after its commit.
MUT_WriteAndPublish(p) ==
    LET i == Here(p) IN
    /\ At(p, "terminate", "write")
    /\ proc' = [proc EXCEPT
                  ![p].pc = "commit",
                  ![p].verdict = IF receipt[i] = "none" THEN @ ELSE "none",
                  ![p].keySeen = ssh[i] # "none"]
    /\ Publish(i, "terminated")
    /\ UNCHANGED <<rows, rowLock, launch, host, meter, queue, callbackSeen,
                   crashes>>

\* Inside the open transaction: a receipt is inserted if none is visible and
\* the key is nulled if its row is visible.  verdict "none": nothing inserted.
TerminateWrite(p) ==
    LET i == Here(p) IN
    /\ At(p, "terminate", "write")
    /\ proc' = [proc EXCEPT
                  ![p].pc = "commit",
                  ![p].verdict = IF receipt[i] = "none" THEN @ ELSE "none",
                  ![p].keySeen = ssh[i] # "none"]
    /\ UNCHANGED <<rows, rowLock, launch, host, meter, queue, events,
                   callbackSeen, crashes>>

\* instance_id is not unique among receipts: the later one replaces.
MUT_AbortsOnStatusOnly(p) == ~MayTransition(proc[p].seen, "terminated")

\* A second terminated transition, or a receipt committed by another
\* transaction since (unique constraint), aborts the transaction.
TerminateAborts(p) ==
    \/ ~MayTransition(proc[p].seen, "terminated")
    \/ proc[p].verdict # "none" /\ receipt[Here(p)] # "none"

\* release_hold waits for the row lock; then everything commits together.
TerminateCommit(p) ==
    LET i == Here(p) IN
    /\ At(p, "terminate", "commit")
    /\ Unlocked(i)
    /\ ~TerminateAborts(p)
    /\ status' = [status EXCEPT ![i] = "terminated"]
    /\ holdReleased' = [holdReleased EXCEPT ![i] = TRUE]
    /\ ssh' = IF proc[p].keySeen THEN [ssh EXCEPT ![i] = "revoked"] ELSE ssh
    /\ receipt' = IF proc[p].verdict # "none"
                  THEN [receipt EXCEPT ![i] = proc[p].verdict] ELSE receipt
    /\ Goto(p, "publish")
    /\ UNCHANGED <<rowLock, launch, host, meter, queue, events, callbackSeen,
                   crashes>>

TerminateRollback(p) ==
    /\ At(p, "terminate", "commit")
    /\ Unlocked(Here(p))
    /\ TerminateAborts(p)
    /\ Done(p)
    /\ UNCHANGED <<rows, rowLock, launch, host, meter, queue, events,
                   callbackSeen, crashes>>

TerminatePublish(p) ==
    /\ At(p, "terminate", "publish")
    /\ Publish(Here(p), "terminated")
    /\ Done(p)
    /\ UNCHANGED <<rows, rowLock, launch, host, meter, queue, callbackSeen,
                   crashes>>

-----------------------------------------------------------------------------
(* meter_instance_usage, reconcile_billing and the STOP key's expiry *)

\* The tick does not read the status of the row.
MUT_TickBlind(i) ==
    /\ ticks[i] > 0
    /\ ticks' = IF stop[i] THEN [ticks EXCEPT ![i] = @ - 1] ELSE ticks
    /\ UNCHANGED <<rows, rowLock, launch, host, active, stop, listed, queue,
                   events, proc, callbackSeen, crashes>>

\* One tick, from the check of the STOP key to the next apply_async.  Nothing
\* it reads can make a later tick behave differently, so it is one step; the
\* seconds it bills are not counted here.
MeterTick(i) ==
    /\ ticks[i] > 0
    /\ \/ \* the STOP key is set: the chain ends, ACTIVE stays as it is
          /\ stop[i]
          /\ ticks' = [ticks EXCEPT ![i] = @ - 1]
          /\ UNCHANGED <<active, stop, queue>>
       \/ \* not running: stop_billing
          /\ ~stop[i] /\ status[i] # "running"
          /\ ticks' = [ticks EXCEPT ![i] = @ - 1]
          /\ StopBilling(i)
          /\ UNCHANGED queue
       \/ \* the wallet answers 402: auto-terminate, stop_billing
          /\ ~stop[i] /\ status[i] = "running"
          /\ queue[i]["terminate"] < MaxTeardowns
          /\ ticks' = [ticks EXCEPT ![i] = @ - 1]
          /\ Enqueue(i, "terminate")
          /\ StopBilling(i)
       \/ \* the debit succeeds: the tick is queued again
          /\ ~stop[i] /\ status[i] = "running"
          /\ UNCHANGED <<ticks, active, stop, queue>>
    /\ UNCHANGED <<rows, rowLock, launch, host, listed, events, proc,
                   callbackSeen, crashes>>

\* The database fails while the tick counts: the task raises, is not retried,
\* and the chain ends with ACTIVE still set.
MeterError(i) ==
    /\ ticks[i] > 0 /\ ~stop[i] /\ status[i] = "running"
    /\ crashes < MaxCrashes
    /\ crashes' = crashes + 1
    /\ ticks' = [ticks EXCEPT ![i] = @ - 1]
    /\ UNCHANGED <<rows, rowLock, launch, host, active, stop, listed, queue,
                   events, proc, callbackSeen>>

\* reconcile_billing lists the running rows in a transaction of its own.
ReconcileRead(i) ==
    /\ status[i] = "running"
    /\ ~listed[i]
    /\ ticks[i] < MaxTicks
    /\ listed' = [listed EXCEPT ![i] = TRUE]
    /\ UNCHANGED <<rows, rowLock, launch, host, active, stop, ticks, queue,
                   events, proc, callbackSeen, crashes>>

\* Later it comes to the instance: one without the ACTIVE key is metered
\* again, whatever its row has become since.
Reconcile(i) ==
    /\ listed[i]
    /\ listed' = [listed EXCEPT ![i] = FALSE]
    /\ IF active[i] THEN UNCHANGED <<active, stop, ticks>> ELSE StartBilling(i)
    /\ UNCHANGED <<rows, rowLock, launch, host, queue, events, proc,
                   callbackSeen, crashes>>

StopKeyExpires(i) ==
    /\ stop[i]
    /\ stop' = [stop EXCEPT ![i] = FALSE]
    /\ UNCHANGED <<rows, rowLock, launch, host, active, ticks, listed,
                   queue, events, proc, callbackSeen, crashes>>

-----------------------------------------------------------------------------
(* The host agent's callback and the emergency kill switch *)

\* provisioning_complete: an illegal transition raises and changes nothing.
CallbackComplete(i) ==
    /\ AgentReports
    /\ status[i] # "none"
    /\ IF MayTransition(status[i], "running") /\ Unlocked(i)
       THEN /\ status' = [status EXCEPT ![i] = "running"]
            /\ StartsBilling(i)
       ELSE UNCHANGED <<status, meter>>
    /\ UNCHANGED <<holdReleased, ssh, receipt, rowLock, launch, host, queue,
                   events, proc, callbackSeen, crashes>>

\* deletion_verified: the agent reports a volume it has shredded.
CallbackDeletion(i) ==
    /\ AgentReports
    /\ status[i] # "none"
    /\ volume[i] = "shredded"
    /\ receipt[i] = "none"
    /\ receipt' = [receipt EXCEPT ![i] = "verified"]
    /\ UNCHANGED <<status, holdReleased, ssh, rowLock, launch, host, meter,
                   queue, events, proc, callbackSeen, crashes>>

\* failed: the handler reads the row, then writes when it gets the row lock.
CallbackFailedRead(i) ==
    /\ AgentReports
    /\ callbackSeen[i] = "none"
    /\ status[i] \notin {"none", "terminated", "failed"}
    /\ callbackSeen' = [callbackSeen EXCEPT ![i] = status[i]]
    /\ UNCHANGED <<rows, rowLock, launch, host, meter, queue, events, proc,
                   crashes>>

CallbackFailedWrite(i) ==
    /\ callbackSeen[i] # "none"
    /\ Unlocked(i)
    /\ status' = IF MayTransition(callbackSeen[i], "failed")
                 THEN [status EXCEPT ![i] = "failed"] ELSE status
    /\ callbackSeen' = [callbackSeen EXCEPT ![i] = "none"]
    /\ UNCHANGED <<holdReleased, ssh, receipt, rowLock, launch, host, meter,
                   queue, events, proc, crashes>>

\* The UPDATE sets the status alone.
MUT_KillStatusOnly(i) ==
    /\ KillSwitchDeployed
    /\ status[i] # "none"
    /\ Unlocked(i)
    /\ status' = [status EXCEPT ![i] = "terminated"]
    /\ UNCHANGED <<holdReleased, ssh, receipt, rowLock, launch, host, meter,
                   queue, events, proc, callbackSeen, crashes>>

\* A bare UPDATE: no transition check, no event, no agent call, no receipt.
KillSwitch(i) ==
    /\ KillSwitchDeployed
    /\ status[i] # "none"
    /\ Unlocked(i)
    /\ status' = [status EXCEPT ![i] = "terminated"]
    /\ holdReleased' = [holdReleased EXCEPT ![i] = TRUE]
    /\ UNCHANGED <<ssh, receipt, rowLock, launch, host, meter, queue, events,
                   proc, callbackSeen, crashes>>

-----------------------------------------------------------------------------
(* A worker dies: its transaction rolls back, its message is redelivered    *)
(* (acks_late) or, when only the child process was killed, acknowledged.    *)
(* Or only its connection to the broker does.                               *)

Crash(p) ==
    LET i == Here(p) IN
    /\ proc[p] # Idle
    /\ crashes < MaxCrashes
    /\ crashes' = crashes + 1
    /\ rowLock' = IF rowLock[i] = p THEN [rowLock EXCEPT ![i] = NoProc]
                  ELSE rowLock
    /\ Enqueue(i, proc[p].task) \/ UNCHANGED queue
    /\ Done(p)
    /\ UNCHANGED <<rows, launch, host, meter, events, callbackSeen>>

\* The connection to the broker is lost: the message, not acknowledged yet, is
\* delivered again while its worker goes on with the task.
Redeliver(p) ==
    /\ proc[p] # Idle
    /\ crashes < MaxCrashes
    /\ crashes' = crashes + 1
    /\ Enqueue(Here(p), proc[p].task)
    /\ UNCHANGED <<rows, rowLock, launch, host, meter, events, proc,
                   callbackSeen>>

-----------------------------------------------------------------------------

Launching(i) == LaunchHold(i) \/ LaunchEnqueue(i) \/ LaunchCommit(i)
                \/ LaunchRollback(i)

Provisioning(p) ==
    \/ \E i \in Instances : ProvisionStart(p, i)
    \/ ProvisionBlocked(p) \/ ProvisionBegin(p) \/ ProvisionAgentOk(p)
    \/ ProvisionAgentFails(p) \/ ProvisionFailCommit(p)
    \/ ProvisionCommit(p) \/ ProvisionAnnounce(p) \/ ProvisionPublish(p)

Stopping(p) == (\E i \in Instances : StopStart(p, i))
               \/ StopAgent(p) \/ StopFinish(p)

Terminating(p) ==
    \/ \E i \in Instances : TerminateStart(p, i)
    \/ TerminateDestroy(p) \/ TerminateVerify(p) \/ TerminateWrite(p)
    \/ TerminateCommit(p) \/ TerminateRollback(p) \/ TerminatePublish(p)

UserRequest(i) == StopRoute(i) \/ StartRoute(i) \/ TerminateRoute(i)

Metering(i) == MeterTick(i) \/ MeterError(i) \/ ReconcileRead(i)
               \/ Reconcile(i) \/ StopKeyExpires(i)

AgentCallback(i) == CallbackComplete(i) \/ CallbackDeletion(i)
                    \/ CallbackFailedRead(i) \/ CallbackFailedWrite(i)

Next ==
    \/ \E p \in Procs : Provisioning(p) \/ Stopping(p) \/ Terminating(p)
                        \/ Crash(p) \/ Redeliver(p)
    \/ \E i \in Instances : Launching(i) \/ UserRequest(i) \/ Metering(i)
                            \/ AgentCallback(i) \/ KillSwitch(i)

Spec == Init /\ [][Next]_vars

-----------------------------------------------------------------------------
(* Fairness: Celery delivers queued messages in order and PostgreSQL grants  *)
(* row locks in order.  Nothing is assumed of users, agents, the wallet, the *)
(* beat schedules, the expiry of keys or crashes.                            *)

WorkerStep(p) ==
    \/ ProvisionBlocked(p) \/ ProvisionBegin(p) \/ ProvisionAgentOk(p)
    \/ ProvisionAgentFails(p) \/ ProvisionFailCommit(p)
    \/ ProvisionCommit(p) \/ ProvisionAnnounce(p) \/ ProvisionPublish(p)
    \/ StopAgent(p) \/ StopFinish(p)
    \/ TerminateDestroy(p) \/ TerminateVerify(p) \/ TerminateWrite(p)
    \/ TerminateCommit(p) \/ TerminateRollback(p) \/ TerminatePublish(p)

Fairness ==
    /\ \A p \in Procs : WF_vars(WorkerStep(p))
    /\ \A i \in Instances : /\ SF_vars(\E p \in Procs : TerminateStart(p, i))
                            /\ WF_vars(MeterTick(i))

FairSpec == Spec /\ Fairness

-----------------------------------------------------------------------------
(* Properties that hold *)

\* Every variable keeps its type.
TypeOK ==
    /\ status \in [Instances -> RowStatus]
    /\ holdReleased \in [Instances -> BOOLEAN]
    /\ ssh \in [Instances -> KeyState]
    /\ receipt \in [Instances -> ReceiptKind]
    /\ rowLock \in [Instances -> Procs \cup {NoProc}]
    /\ launch \in [Instances -> LaunchStep]
    /\ vm \in [Instances -> VMState]
    /\ volume \in [Instances -> VolumeState]
    /\ active \in [Instances -> BOOLEAN]
    /\ stop \in [Instances -> BOOLEAN]
    /\ ticks \in [Instances -> Nat]
    /\ listed \in [Instances -> BOOLEAN]
    /\ queue \in [Instances -> [Tasks -> Nat]]
    /\ events \in [Instances -> SUBSET EventKind]
    /\ proc \in [Procs -> ProcState]
    /\ callbackSeen \in [Instances -> RowStatus]
    /\ crashes \in Nat

\* A lemma of the proofs: the statuses provisioning, stopping and stopped are
\* never committed.  provision_instance holds its transaction open across the
\* agent call, and stop_instance asks for a transition that is illegal from
\* running (against the text of its own docstring, see StopStopsInstance).
CommittedStatus ==
    \A i \in Instances : status[i] \notin {"provisioning", "stopping", "stopped"}

\* Where the kill switch is not used, no instance is terminated without a
\* deletion receipt (tasks.py: "mandatory before marking terminated"), however
\* its own teardown read the receipts before another one, a callback or a
\* redelivered message committed or rolled back.
TerminatedIsSettled ==
    ~KillSwitchDeployed =>
        \A i \in Instances : status[i] = "terminated" => receipt[i] # "none"

\* A running instance has a usable key: the row becomes running only with the
\* ssh_sessions row, and a transaction that nulls the key also terminates.
RunningHasKey ==
    \A i \in Instances : status[i] = "running" => ssh[i] = "live"

\* The row lock belongs to a provision_instance that is between its first
\* flush and its commit, and each such transaction holds it.
Holds(p, i) ==
    Here(p) = i /\ \E s \in {"calling", "failing", "store"} : At(p, "provision", s)

RowLockOwner ==
    \A i \in Instances, p \in Procs : rowLock[i] = p <=> Holds(p, i)

\* No stop, teardown or callback is under way for a row that is not committed,
\* although provision_instance is dispatched before the commit: it finds no
\* row and drops the message.
RowBeforeWork ==
    \A i \in Instances : IF status[i] # "none" THEN launch[i] = "done" ELSE
        /\ launch[i] # "done"
        /\ queue[i]["stop"] = 0 /\ queue[i]["terminate"] = 0
        /\ callbackSeen[i] = "none"
        /\ \A p \in Procs : Here(p) # i

\* What a worker read stays good enough for the write it goes on to make: the
\* receipt it found is still there, so is the key row, the status it loaded
\* is one its task may leave, and a stop never finds one it may leave.
Believes(p) == LET i == Here(p) IN
    \/ proc[p] = Idle
    \/ /\ proc[p].task = "provision" /\ i \in Instances
       /\ \/ proc[p].pc = "scan" /\ proc[p].seen = "pending"
          \/ /\ proc[p].pc \in {"calling", "failing", "store"}
             /\ proc[p].seen = "provisioning"
          \/ proc[p].pc \in {"announce", "publish"}
    \/ /\ proc[p].task = "stop" /\ i \in Instances
       /\ proc[p].pc \in {"suspend", "finish"}
       /\ ~MayTransition(proc[p].seen, "stopped")
    \/ /\ proc[p].task = "terminate" /\ i \in Instances
       /\ proc[p].pc \in {"destroy", "verify", "write", "commit", "publish"}
       /\ proc[p].pc = "write" => proc[p].verdict # "none"
       /\ proc[p].pc = "commit" =>
             /\ proc[p].verdict = "none" => receipt[i] # "none"
             /\ proc[p].keySeen => ssh[i] # "none"

WorkerBeliefs == \A p \in Procs : Believes(p)

\* INSTANCE_RUNNING is published only once the key is committed, and
\* INSTANCE_TERMINATED only once the hold is released and a receipt recorded,
\* whichever worker publishes late and whatever is redelivered in between.
AnnouncedAfterCommit ==
    \A i \in Instances :
        /\ "running" \in events[i] => ssh[i] # "none"
        /\ "terminated" \in events[i] => holdReleased[i] /\ receipt[i] # "none"

\* A deletion receipt, once committed, is never changed or removed, by
\* concurrent teardowns, redeliveries or a callback (models: IMMUTABLE).
ReceiptIsFinal ==
    [][\A i \in Instances : receipt[i] # "none" => receipt'[i] = receipt[i]]_vars

\* An instance enters running at most once: whatever is redelivered, the
\* unique ssh_sessions row admits one successful provisioning, and a key that
\* was revoked stays revoked.
RunsAtMostOnce ==
    [][\A i \in Instances :
          /\ status[i] # "running" /\ status'[i] = "running" => ssh[i] = "none"
          /\ ssh[i] = "revoked" => ssh'[i] = "revoked"]_vars

\* The rows of an instance change only as InstanceRecord promises: every
\* commit of every handler is one of its steps.
Record == INSTANCE InstanceRecord
ImplementsRecord == Record!Spec

\* A terminate request that was accepted leaves a deletion receipt, even when
\* every call to the agent fails and other teardowns race it.
TerminateLeavesReceipt ==
    \A i \in Instances : queue[i]["terminate"] > 0 ~> receipt[i] # "none"

\* The meter of an instance that is not running winds down: no chain of ticks
\* survives the instance it bills.
MeterWindsDown ==
    \A i \in Instances :
        status[i] # "running" /\ ticks[i] > 0
            ~> (status[i] = "running" \/ ticks[i] = 0)

-----------------------------------------------------------------------------
(* Claims of the code's own text that its behaviour contradicts *)

\* repository.py: "Terminal states -- no further transitions".
TerminatedIsFinal ==
    [][\A i \in Instances : status[i] = "terminated" => status'[i] = "terminated"]_vars

\* provisioning_models.py: "On revocation (instance terminated),
\* private_key_encrypted is overwritten with NULL".
TerminatedKeyIsRevoked ==
    \A i \in Instances : status[i] = "terminated" => ssh[i] # "live"

\* stop_instance: "Suspend the Firecracker microVM. Billing pauses.", and the
\* model's "running: VM up, billing active".
SuspendedLeavesRunning ==
    \A i \in Instances : vm[i] = "suspended" ~> status[i] # "running"

\* stop_instance: "Suspend the Firecracker microVM. Billing pauses.", and
\* provisioning_models.py: "stopped: VM suspended, billing paused".  A stop
\* task that ends while the row is still running leaves it stopped.
StopStopsInstance ==
    [][\A p \in Procs :
          At(p, "stop", "finish") /\ status[Here(p)] = "running"
          /\ proc'[p] = Idle => status'[Here(p)] = "stopped"]_vars

\* scheduler.py: "Provisioning happens asynchronously."
PendingIsProvisioned ==
    \A i \in Instances : status[i] = "pending" ~> status[i] # "pending"
=============================================================================
