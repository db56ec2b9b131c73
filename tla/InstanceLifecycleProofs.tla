----------------------- MODULE InstanceLifecycleProofs -----------------------
(***************************************************************************)
(* Proofs about InstanceLifecycle, for any number of instances and workers *)
(* and any value of the bounds: its invariants, the finality of a deletion *)
(* receipt, that its commits are the steps of InstanceRecord, and that its *)
(* events follow the commits they announce.                                *)
(***************************************************************************)
EXTENDS InstanceLifecycle, TLAPS

-----------------------------------------------------------------------------
(* Type correctness *)

\* The groups of variables that TypeOK types, with the shorthands it needs.
LEMMA TypeInit == Init => TypeOK
  BY LifecycleAssumption
  DEF LifecycleAssumption, Init, TypeOK, Idle, ProcState, RowStatus,
      InstanceStatus, KeyState, ReceiptKind, LaunchStep, VMState, VolumeState,
      Tasks, EventKind, Step

LEMMA LaunchingType == ASSUME TypeOK, NEW i \in Instances, Launching(i)
                       PROVE  TypeOK'
  <1>. USE DEF TypeOK, rows, host, meter
  <1>1. CASE LaunchHold(i)     BY <1>1 DEF LaunchHold, LaunchStep
  <1>2. CASE LaunchEnqueue(i)
        BY <1>2 DEF LaunchEnqueue, LaunchStep, Enqueue, Tasks
  <1>3. CASE LaunchCommit(i)
        BY <1>3 DEF LaunchCommit, LaunchStep, RowStatus, InstanceStatus
  <1>4. CASE LaunchRollback(i) BY <1>4 DEF LaunchRollback, LaunchStep
  <1>. QED BY <1>1, <1>2, <1>3, <1>4 DEF Launching

\* A message leaves a queue, or joins one.
LEMMA DequeueType ==
    ASSUME TypeOK, NEW i \in Instances, NEW t \in Tasks, queue[i][t] > 0,
           queue' = [queue EXCEPT ![i][t] = @ - 1]
    PROVE  queue' \in [Instances -> [Tasks -> Nat]]
  <1>1. queue[i][t] - 1 \in Nat
        BY DEF TypeOK
  <1>2. [queue[i] EXCEPT ![t] = queue[i][t] - 1] \in [Tasks -> Nat]
        BY <1>1 DEF TypeOK
  <1>. QED BY <1>2 DEF TypeOK

LEMMA EnqueueType ==
    ASSUME TypeOK, NEW i \in Instances, NEW t \in Tasks, Enqueue(i, t)
    PROVE  queue' \in [Instances -> [Tasks -> Nat]]
  <1>1. queue[i][t] + 1 \in Nat
        BY DEF TypeOK
  <1>2. [queue[i] EXCEPT ![t] = queue[i][t] + 1] \in [Tasks -> Nat]
        BY <1>1 DEF TypeOK
  <1>. QED BY <1>2 DEF TypeOK, Enqueue

\* A worker's record after it picks up a task, steps on, or finishes.
LEMMA PickupType ==
    ASSUME TypeOK, NEW p \in Procs, NEW i \in Instances, NEW t \in Tasks,
           NEW step \in Step, Pickup(p, i, t, step)
    PROVE  /\ proc' \in [Procs -> ProcState]
           /\ queue' \in [Instances -> [Tasks -> Nat]]
  <1>. DEFINE r == [task |-> t, inst |-> i, pc |-> step, seen |-> status[i],
                    verdict |-> "none", keySeen |-> FALSE]
  <1>1. proc' = [proc EXCEPT ![p] = r]
        BY DEF Pickup
  <1>2. r \in ProcState
        BY DEF TypeOK, ProcState, ReceiptKind
  <1>3. queue' \in [Instances -> [Tasks -> Nat]]
        BY DequeueType DEF Pickup
  <1>. QED BY <1>1, <1>2, <1>3 DEF TypeOK

LEMMA IdleType == Idle \in ProcState
  BY DEF Idle, ProcState, Step, RowStatus, ReceiptKind

LEMMA DoneType == ASSUME TypeOK, NEW p \in Procs, Done(p)
                  PROVE  proc' \in [Procs -> ProcState]
  BY IdleType DEF TypeOK, Done

LEMMA GotoType == ASSUME TypeOK, NEW p \in Procs, NEW step \in Step,
                         Goto(p, step)
                  PROVE  proc' \in [Procs -> ProcState]
  BY ZenonT(40) DEF TypeOK, Goto, ProcState

LEMMA SeenType ==
    ASSUME TypeOK, NEW p \in Procs, NEW step \in Step, NEW s \in RowStatus,
           proc' = [proc EXCEPT ![p].pc = step, ![p].seen = s]
    PROVE  proc' \in [Procs -> ProcState]
  <1>. DEFINE r == [proc[p] EXCEPT !.pc = step, !.seen = s]
  <1>1. r \in ProcState
        BY ZenonT(40) DEF TypeOK, ProcState
  <1>. QED BY <1>1 DEF TypeOK

LEMMA VerdictType ==
    ASSUME TypeOK, NEW p \in Procs, NEW step \in Step, NEW v \in ReceiptKind,
           proc' = [proc EXCEPT ![p].pc = step, ![p].verdict = v]
    PROVE  proc' \in [Procs -> ProcState]
  <1>. DEFINE r == [proc[p] EXCEPT !.pc = step, !.verdict = v]
  <1>1. r \in ProcState
        BY ZenonT(40) DEF TypeOK, ProcState
  <1>. QED BY <1>1 DEF TypeOK

LEMMA FoundType ==
    ASSUME TypeOK, NEW p \in Procs, NEW step \in Step, NEW v \in ReceiptKind,
           NEW k \in BOOLEAN,
           proc' = [proc EXCEPT ![p].pc = step, ![p].verdict = v,
                                ![p].keySeen = k]
    PROVE  proc' \in [Procs -> ProcState]
  <1>. DEFINE r == [proc[p] EXCEPT !.pc = step, !.verdict = v, !.keySeen = k]
  <1>1. r \in ProcState
        BY ZenonT(40) DEF TypeOK, ProcState
  <1>. QED BY <1>1 DEF TypeOK

LEMMA StartBillingType ==
    ASSUME TypeOK, NEW i, StartBilling(i)
    PROVE  /\ active' \in [Instances -> BOOLEAN]
           /\ stop' \in [Instances -> BOOLEAN]
           /\ ticks' \in [Instances -> Nat]
  <1>1. CASE i \in Instances
    <2>1. ticks[i] + 1 \in Nat  BY <1>1 DEF TypeOK
    <2>. QED BY <1>1, <2>1 DEF TypeOK, StartBilling
  <1>2. CASE i \notin Instances
        BY <1>2 DEF TypeOK, StartBilling
  <1>. QED BY <1>1, <1>2

LEMMA ProvisioningType == ASSUME TypeOK, NEW p \in Procs, Provisioning(p)
                          PROVE  TypeOK'
  <1>. USE LifecycleAssumption DEF TypeOK, rows, host, meter
  <1>1. ASSUME NEW i \in Instances, ProvisionStart(p, i) PROVE TypeOK'
    <2>1. CASE Pickup(p, i, "provision", "scan")
          BY <1>1, <2>1, PickupType DEF ProvisionStart, Tasks, Step
    <2>2. CASE UNCHANGED proc
      <3>1. /\ queue' = [queue EXCEPT ![i]["provision"] = queue[i]["provision"] - 1]
            /\ queue[i]["provision"] > 0
            BY <1>1, <2>2 DEF ProvisionStart, Pickup
      <3>2. queue' \in [Instances -> [Tasks -> Nat]]
            BY <3>1, DequeueType DEF Tasks
      <3>. QED BY <1>1, <2>2, <3>2 DEF ProvisionStart
    <2>. QED BY <1>1, <2>1, <2>2 DEF ProvisionStart
  <1>2. CASE ProvisionBlocked(p)
        BY <1>2, DoneType DEF ProvisionBlocked, RowStatus, InstanceStatus
  <1>3. CASE ProvisionBegin(p)
    <2>1. proc' \in [Procs -> ProcState]
      <3>1. proc' = [proc EXCEPT ![p].pc = "calling", ![p].seen = "provisioning"]
            BY <1>3 DEF ProvisionBegin
      <3>. QED BY <3>1, SeenType DEF Step, RowStatus, InstanceStatus
    <2>. QED BY <1>3, <2>1 DEF ProvisionBegin
  <1>4. CASE ProvisionAgentOk(p)
        BY <1>4, GotoType DEF ProvisionAgentOk, Step, VMState, VolumeState
  <1>5. CASE ProvisionAgentFails(p)
        BY <1>5, GotoType DEF ProvisionAgentFails, Publish, Step,
                    VMState, VolumeState, EventKind
  <1>6. CASE ProvisionFailCommit(p)
        BY <1>6, DoneType DEF ProvisionFailCommit, RowStatus, InstanceStatus
  <1>7. CASE ProvisionCommit(p)
        BY <1>7, DoneType, GotoType
        DEF ProvisionCommit, Step, RowStatus, InstanceStatus, KeyState
  <1>8. CASE ProvisionAnnounce(p)
        BY <1>8, GotoType, StartBillingType
        DEF ProvisionAnnounce, StartsBilling, Step
  <1>9. CASE ProvisionPublish(p)
        BY <1>9, DoneType DEF ProvisionPublish, Publish, EventKind
  <1>. QED BY <1>1, <1>2, <1>3, <1>4, <1>5, <1>6, <1>7, <1>8, <1>9 DEF Provisioning

LEMMA StopBillingType ==
    ASSUME TypeOK, NEW i, StopBilling(i)
    PROVE  /\ active' \in [Instances -> BOOLEAN]
           /\ stop' \in [Instances -> BOOLEAN]
  BY DEF TypeOK, StopBilling

LEMMA StoppingType == ASSUME TypeOK, NEW p \in Procs, Stopping(p)
                      PROVE  TypeOK'
  <1>. USE DEF TypeOK, rows, host, meter
  <1>1. ASSUME NEW i \in Instances, StopStart(p, i) PROVE TypeOK'
        BY <1>1, PickupType, StopBillingType DEF StopStart, Tasks, Step
  <1>2. CASE StopAgent(p)
        BY <1>2, GotoType DEF StopAgent, Step, VMState
  <1>3. CASE StopFinish(p)
        BY <1>3, DoneType DEF StopFinish, RowStatus, InstanceStatus
  <1>. QED BY <1>1, <1>2, <1>3 DEF Stopping

LEMMA TerminatingType == ASSUME TypeOK, NEW p \in Procs, Terminating(p)
                         PROVE  TypeOK'
  <1>. USE DEF TypeOK, rows, host, meter
  <1>1. ASSUME NEW i \in Instances, TerminateStart(p, i) PROVE TypeOK'
        BY <1>1, PickupType, StopBillingType DEF TerminateStart, Tasks, Step
  <1>2. CASE TerminateDestroy(p)
        BY <1>2, GotoType DEF TerminateDestroy, Step, VMState, VolumeState
  <1>3. CASE TerminateVerify(p)
    <2>1. PICK v \in ReceiptKind :
             proc' = [proc EXCEPT ![p].pc = "write", ![p].verdict = v]
          BY <1>3 DEF TerminateVerify, ReceiptKind
    <2>. QED BY <1>3, <2>1, VerdictType DEF TerminateVerify, Step
  <1>4. CASE TerminateWrite(p)
    <2>1. PICK v \in ReceiptKind, k \in BOOLEAN :
             proc' = [proc EXCEPT ![p].pc = "commit", ![p].verdict = v,
                                  ![p].keySeen = k]
          BY <1>4 DEF TerminateWrite, ReceiptKind, ProcState
    <2>. QED BY <1>4, <2>1, FoundType DEF TerminateWrite, Step
  <1>5. CASE TerminateCommit(p)
    <2>1. proc[p].verdict \in ReceiptKind
          BY DEF ProcState
    <2>. QED BY <1>5, <2>1, GotoType
             DEF TerminateCommit, Step, RowStatus, InstanceStatus, KeyState
  <1>6. CASE TerminateRollback(p)
        BY <1>6, DoneType DEF TerminateRollback
  <1>7. CASE TerminatePublish(p)
        BY <1>7, DoneType DEF TerminatePublish, Publish, EventKind
  <1>. QED BY <1>1, <1>2, <1>3, <1>4, <1>5, <1>6, <1>7 DEF Terminating

LEMMA RequestType == ASSUME TypeOK, NEW i \in Instances, UserRequest(i)
                     PROVE  TypeOK'
  <1>. USE DEF TypeOK, rows, host, meter
  <1>1. CASE StopRoute(i)
        BY <1>1, EnqueueType DEF StopRoute, Tasks
  <1>2. CASE StartRoute(i)
        BY <1>2, StartBillingType
        DEF StartRoute, StartsBilling, RowStatus, InstanceStatus
  <1>3. CASE TerminateRoute(i)
        BY <1>3, EnqueueType DEF TerminateRoute, Tasks
  <1>. QED BY <1>1, <1>2, <1>3 DEF UserRequest

LEMMA MeteringType == ASSUME TypeOK, NEW i \in Instances, Metering(i)
                      PROVE  TypeOK'
  <1>. USE DEF TypeOK, rows, host, meter
  <1>1. CASE MeterTick(i)
    <2>1. ticks' \in [Instances -> Nat]
      <3>1. ticks[i] - 1 \in Nat
            BY <1>1 DEF MeterTick
      <3>2. ticks' \in {ticks, [ticks EXCEPT ![i] = ticks[i] - 1]}
            BY <1>1 DEF MeterTick
      <3>. QED BY <3>1, <3>2
    <2>2. queue' \in [Instances -> [Tasks -> Nat]]
          BY <1>1, EnqueueType DEF MeterTick, Tasks
    <2>. QED BY <1>1, <2>1, <2>2, StopBillingType DEF MeterTick
  <1>2. CASE MeterError(i)
        BY <1>2, LifecycleAssumption DEF MeterError
  <1>3. CASE ReconcileRead(i)
        BY <1>3 DEF ReconcileRead
  <1>4. CASE Reconcile(i)
        BY <1>4, StartBillingType DEF Reconcile
  <1>5. CASE StopKeyExpires(i)
        BY <1>5 DEF StopKeyExpires
  <1>. QED BY <1>1, <1>2, <1>3, <1>4, <1>5 DEF Metering

LEMMA CallbackType == ASSUME TypeOK, NEW i \in Instances,
                             AgentCallback(i) \/ KillSwitch(i)
                      PROVE  TypeOK'
  <1>. USE DEF TypeOK, rows, host, meter
  <1>1. CASE CallbackComplete(i)
        BY <1>1, StartBillingType
        DEF CallbackComplete, StartsBilling, RowStatus, InstanceStatus
  <1>2. CASE CallbackDeletion(i)
        BY <1>2 DEF CallbackDeletion, ReceiptKind
  <1>3. CASE CallbackFailedRead(i)
        BY <1>3 DEF CallbackFailedRead
  <1>4. CASE CallbackFailedWrite(i)
        BY <1>4 DEF CallbackFailedWrite, RowStatus, InstanceStatus
  <1>5. CASE KillSwitch(i)
        BY <1>5 DEF KillSwitch, RowStatus, InstanceStatus
  <1>. QED BY <1>1, <1>2, <1>3, <1>4, <1>5 DEF AgentCallback

\* A worker's record names a task and an instance unless it is idle, so the
\* message of a crashed worker goes back to a queue that exists.
LEMMA CrashType == ASSUME TypeOK, WorkerBeliefs, NEW p \in Procs, Crash(p)
                   PROVE  TypeOK'
  <1>. USE DEF TypeOK, rows, host, meter
  <1>1. proc[p].task \in Tasks /\ Here(p) \in Instances
        BY DEF Crash, WorkerBeliefs, Believes, Tasks
  <1>2. queue' \in [Instances -> [Tasks -> Nat]]
        BY <1>1, EnqueueType DEF Crash
  <1>3. rowLock' \in [Instances -> Procs \cup {NoProc}]
        BY DEF Crash
  <1>4. proc' \in [Procs -> ProcState]
        BY DoneType DEF Crash
  <1>. QED BY <1>2, <1>3, <1>4 DEF Crash

LEMMA RedeliverType == ASSUME TypeOK, WorkerBeliefs, NEW p \in Procs, Redeliver(p)
                       PROVE  TypeOK'
  <1>. USE DEF TypeOK, rows, host, meter
  <1>1. proc[p].task \in Tasks /\ Here(p) \in Instances
        BY DEF Redeliver, WorkerBeliefs, Believes, Tasks
  <1>2. queue' \in [Instances -> [Tasks -> Nat]]
        BY <1>1, EnqueueType DEF Redeliver
  <1>. QED BY <1>2 DEF Redeliver

-----------------------------------------------------------------------------
(* The inductive invariant *)

\* A safety invariant alone is not inductive: that a teardown never terminates
\* without a receipt rests on what it read when it decided not to insert one
\* (WorkerBeliefs), and that only one provisioning reaches running rests on
\* the statuses that are never committed.
IInv == /\ TypeOK
        /\ RowLockOwner
        /\ WorkerBeliefs
        /\ RowBeforeWork
        /\ CommittedStatus
        /\ TerminatedIsSettled
        /\ RunningHasKey

\* What MayTransition allows, case by case.
LEMMA Legal ==
    ASSUME NEW s \in RowStatus
    PROVE  /\ MayTransition(s, "stopped") <=> s = "stopping"
           /\ MayTransition(s, "running") <=> s \in {"provisioning", "stopped"}
           /\ MayTransition(s, "terminated") => s # "none"
  BY DEF MayTransition, LegalTransitions, RowStatus, InstanceStatus

LEMMA InvInit == Init => IInv
  <1>. SUFFICES ASSUME Init PROVE IInv
       OBVIOUS
  <1>1. TypeOK  BY TypeInit
  <1>2. \A p \in Procs : proc[p] = Idle /\ Here(p) = NoInstance /\ proc[p].pc = "idle"
        BY DEF Init, Idle, Here
  <1>3. RowLockOwner
        BY <1>2, LifecycleAssumption
        DEF Init, RowLockOwner, Holds, At, LifecycleAssumption
  <1>4. WorkerBeliefs
        BY <1>2 DEF WorkerBeliefs, Believes
  <1>5. RowBeforeWork
        BY <1>2, LifecycleAssumption DEF Init, RowBeforeWork, LifecycleAssumption, Tasks
  <1>6. CommittedStatus /\ TerminatedIsSettled /\ RunningHasKey
        BY DEF Init, CommittedStatus, TerminatedIsSettled, RunningHasKey
  <1>. QED BY <1>1, <1>3, <1>4, <1>5, <1>6 DEF IInv

\* Only worker p moves, and no key row or receipt disappears: the others go on
\* believing what they did.
OnlyWorker(p) ==
    /\ \A q \in Procs : q # p => proc'[q] = proc[q]
    /\ \A i \in Instances : ssh[i] # "none" => ssh'[i] # "none"
    /\ \A i \in Instances : receipt[i] # "none" => receipt'[i] # "none"

LEMMA BeliefFrame ==
    ASSUME WorkerBeliefs, NEW p, OnlyWorker(p), p \in Procs => Believes(p)'
    PROVE  WorkerBeliefs'
  <1>. SUFFICES ASSUME NEW q \in Procs PROVE Believes(q)'
       BY DEF WorkerBeliefs
  <1>1. CASE q = p
        BY <1>1
  <1>2. CASE q # p
    <2>1. Believes(q)
          BY DEF WorkerBeliefs
    <2>. QED BY <1>2, <2>1 DEF OnlyWorker, Believes, Here
  <1>. QED BY <1>1, <1>2

\* The lock of a row changes hands with the step of the worker that holds it.
LEMMA LockFrame ==
    ASSUME TypeOK, RowLockOwner, NEW p \in Procs, OnlyWorker(p),
           \A i \in Instances : \A q \in Procs : q # p =>
              (rowLock'[i] = q <=> rowLock[i] = q),
           \A i \in Instances : rowLock'[i] = p <=> Holds(p, i)'
    PROVE  RowLockOwner'
  <1>. SUFFICES ASSUME NEW i \in Instances, NEW q \in Procs
                PROVE  rowLock'[i] = q <=> Holds(q, i)'
       BY DEF RowLockOwner
  <1>1. CASE q = p
        BY <1>1
  <1>2. CASE q # p
        BY <1>2 DEF RowLockOwner, Holds, OnlyWorker, Here, At
  <1>. QED BY <1>1, <1>2

\* Nothing begins on a row that is not committed.
LEMMA BeforeWorkFrame ==
    ASSUME RowBeforeWork, UNCHANGED launch,
           \A i \in Instances : status'[i] = "none" <=> status[i] = "none",
           \A i \in Instances : status[i] = "none" =>
              /\ queue'[i]["stop"] = queue[i]["stop"]
              /\ queue'[i]["terminate"] = queue[i]["terminate"]
              /\ callbackSeen'[i] = callbackSeen[i]
              /\ \A q \in Procs : Here(q)' = i => Here(q) = i
    PROVE  RowBeforeWork'
  BY DEF RowBeforeWork, Here

LEMMA QueueStep ==
    ASSUME TypeOK, NEW i \in Instances, NEW t \in Tasks, NEW n,
           queue' = [queue EXCEPT ![i][t] = n]
    PROVE  \A j \in Instances, u \in Tasks :
              j # i \/ u # t => queue'[j][u] = queue[j][u]
  BY DEF TypeOK

LEMMA IdleFields == /\ Idle.task = "none" /\ Idle.inst = NoInstance
                    /\ Idle.pc = "idle" /\ Idle.seen = "none"
  BY DEF Idle

-----------------------------------------------------------------------------
(* The inductive invariant is preserved: the steps of a worker *)

\* What the invariant says of a worker at a given step of a task.
LEMMA AtFacts ==
    ASSUME IInv, NEW p \in Procs, proc[p].task # "none"
    PROVE  Believes(p) /\ Here(p) \in Instances /\ status[Here(p)] # "none"
  BY IdleFields DEF IInv, WorkerBeliefs, Believes, RowBeforeWork

\* Three of the invariants read only the rows.
LEMMA RowsFrame ==
    ASSUME CommittedStatus, TerminatedIsSettled, RunningHasKey, UNCHANGED rows
    PROVE  /\ CommittedStatus' /\ TerminatedIsSettled' /\ RunningHasKey'
           /\ \A i \in Instances : status'[i] = "none" <=> status[i] = "none"
  BY DEF rows, CommittedStatus, TerminatedIsSettled, RunningHasKey

LEMMA ProvisionStartInv ==
    ASSUME IInv, TypeOK', NEW p \in Procs, NEW i \in Instances,
           ProvisionStart(p, i)
    PROVE  IInv'
  <1>. USE IdleFields DEF IInv
  <1>0. UNCHANGED <<rows, rowLock, launch, callbackSeen>>
        BY DEF ProvisionStart
  <1>1. \A j \in Instances : /\ queue'[j]["stop"] = queue[j]["stop"]
                             /\ queue'[j]["terminate"] = queue[j]["terminate"]
    <2>1. queue' = [queue EXCEPT ![i]["provision"] = queue[i]["provision"] - 1]
          BY DEF ProvisionStart, Pickup
    <2>. QED BY <2>1, QueueStep DEF Tasks
  <1>2. CASE UNCHANGED proc
    <2>1. RowLockOwner' /\ WorkerBeliefs'
          BY <1>0, <1>2 DEF rows, RowLockOwner, Holds, At, Here, WorkerBeliefs, Believes
    <2>2. RowBeforeWork'
          BY <1>0, <1>1, <1>2, BeforeWorkFrame DEF rows, Here
    <2>. QED BY <1>0, <2>1, <2>2, RowsFrame
  <1>3. CASE status[i] = "pending" /\ Pickup(p, i, "provision", "scan")
    <2>0. /\ \A q \in Procs : q # p => proc'[q] = proc[q]
          /\ proc'[p].task = "provision" /\ proc'[p].inst = i
          /\ proc'[p].pc = "scan" /\ proc'[p].seen = "pending"
          BY <1>3 DEF Pickup, TypeOK
    <2>1. OnlyWorker(p)
          BY <1>0, <2>0 DEF OnlyWorker, rows
    <2>2. Believes(p)'
          BY <2>0 DEF Believes, Here
    <2>3. WorkerBeliefs'
          BY <2>1, <2>2, BeliefFrame
    <2>4. /\ \A j \in Instances : rowLock[j] # p
          /\ \A j \in Instances : ~Holds(p, j)'
          BY <1>3, <2>0 DEF Pickup, RowLockOwner, Holds, At
    <2>5. RowLockOwner'
          BY <1>0, <2>1, <2>4, LockFrame
    <2>6. RowBeforeWork'
          BY <1>0, <1>1, <1>3, <2>0, BeforeWorkFrame DEF rows, Here
    <2>. QED BY <1>0, <2>3, <2>5, <2>6, RowsFrame
  <1>. QED BY <1>2, <1>3 DEF ProvisionStart

\* One step of worker p on its instance.
LEMMA WorkerInv ==
    ASSUME IInv, TypeOK', NEW p \in Procs, OnlyWorker(p), Believes(p)',
           UNCHANGED <<launch, queue, callbackSeen>>,
           Here(p)' \in {Here(p), NoInstance},
           \A j \in Instances : \A q \in Procs : q # p =>
              (rowLock'[j] = q <=> rowLock[j] = q),
           \A j \in Instances : rowLock'[j] = p <=> Holds(p, j)',
           \A j \in Instances : status'[j] = "none" <=> status[j] = "none",
           CommittedStatus', TerminatedIsSettled', RunningHasKey'
    PROVE  IInv'
  <1>1. RowLockOwner' /\ WorkerBeliefs'
        BY LockFrame, BeliefFrame DEF IInv
  <1>2. \A j \in Instances : \A q \in Procs : Here(q)' = j => Here(q) = j
        BY LifecycleAssumption DEF OnlyWorker, Here, LifecycleAssumption
  <1>3. RowBeforeWork'
        BY <1>2, BeforeWorkFrame DEF IInv
  <1>. QED BY <1>1, <1>3 DEF IInv

\* A step that commits nothing and leaves the locks alone.
LEMMA SilentInv ==
    ASSUME IInv, TypeOK', NEW p \in Procs,
           UNCHANGED <<rows, rowLock, launch, queue, callbackSeen>>,
           \A q \in Procs : q # p => proc'[q] = proc[q],
           Believes(p)', Here(p)' \in {Here(p), NoInstance},
           \A j \in Instances : Holds(p, j)' <=> Holds(p, j)
    PROVE  IInv'
  <1>1. OnlyWorker(p)
        BY DEF OnlyWorker, rows
  <1>2. \A j \in Instances : rowLock'[j] = p <=> Holds(p, j)'
        BY DEF IInv, RowLockOwner
  <1>. QED BY <1>1, <1>2, RowsFrame, WorkerInv DEF IInv

LEMMA ProvisioningInv ==
    ASSUME IInv, TypeOK', NEW p \in Procs, Provisioning(p)
    PROVE  IInv'
  <1>. USE IdleFields, LifecycleAssumption DEF IInv
  <1>. DEFINE i == Here(p)
  <1>1. ASSUME NEW j \in Instances, ProvisionStart(p, j) PROVE IInv'
        BY <1>1, ProvisionStartInv
  <1>2. CASE ProvisionBlocked(p)
    <2>1. i \in Instances /\ status[i] # "none" /\ proc[p].pc = "scan"
          BY <1>2, AtFacts DEF ProvisionBlocked, At
    <2>2. proc'[p] = Idle /\ \A q \in Procs : q # p => proc'[q] = proc[q]
          BY <1>2 DEF ProvisionBlocked, Done, TypeOK
    <2>3. OnlyWorker(p) /\ Believes(p)'
          BY <1>2, <2>2 DEF ProvisionBlocked, OnlyWorker, Believes
    <2>4. \A j \in Instances : rowLock[j] # p /\ ~Holds(p, j)'
          BY <2>1, <2>2 DEF RowLockOwner, Holds, At
    <2>5. /\ CommittedStatus' /\ TerminatedIsSettled' /\ RunningHasKey'
          /\ \A j \in Instances : status'[j] = "none" <=> status[j] = "none"
          BY <1>2, <2>1 DEF ProvisionBlocked, TypeOK, CommittedStatus,
                            TerminatedIsSettled, RunningHasKey
    <2>. QED BY <1>2, <2>2, <2>3, <2>4, <2>5, WorkerInv DEF ProvisionBlocked, Here
  <1>3. CASE ProvisionBegin(p)
    <2>1. i \in Instances /\ rowLock[i] = NoProc /\ proc[p].pc = "scan"
          BY <1>3, AtFacts DEF ProvisionBegin, At, Unlocked
    <2>2. /\ \A q \in Procs : q # p => proc'[q] = proc[q]
          /\ proc'[p].task = "provision" /\ proc'[p].inst = i
          /\ proc'[p].pc = "calling" /\ proc'[p].seen = "provisioning"
          BY <1>3 DEF ProvisionBegin, TypeOK, ProcState, At, Here
    <2>3. OnlyWorker(p) /\ Believes(p)'
          BY <1>3, <2>1, <2>2 DEF ProvisionBegin, OnlyWorker, Believes, Here, rows
    <2>4. \A j \in Instances : rowLock[j] # p /\ (Holds(p, j)' <=> j = i)
          BY <2>1, <2>2 DEF RowLockOwner, Holds, At, Here
    <2>5. rowLock' = [rowLock EXCEPT ![i] = p]
          BY <1>3 DEF ProvisionBegin
    <2>6. \A j \in Instances : rowLock'[j] = p <=> j = i
          BY <2>4, <2>5 DEF TypeOK
    <2>7. \A j \in Instances : \A q \in Procs : q # p =>
             (rowLock'[j] = q <=> rowLock[j] = q)
          BY <2>1, <2>5 DEF TypeOK, LifecycleAssumption
    <2>8. Here(p)' = Here(p)
          BY <2>2 DEF Here
    <2>9. UNCHANGED <<rows, launch, queue, callbackSeen>>
          BY <1>3 DEF ProvisionBegin
    <2>. QED BY <2>3, <2>4, <2>6, <2>7, <2>8, <2>9, RowsFrame, WorkerInv
  <1>4. CASE ProvisionAgentOk(p) \/ ProvisionAgentFails(p)
    <2>1. i \in Instances /\ proc[p].seen = "provisioning"
          BY <1>4, AtFacts DEF ProvisionAgentOk, ProvisionAgentFails, At, Believes
    <2>2. /\ \A q \in Procs : q # p => proc'[q] = proc[q]
          /\ proc'[p].task = "provision" /\ proc'[p].inst = i
          /\ proc'[p].pc \in {"store", "failing"}
          /\ proc'[p].seen = "provisioning"
          BY <1>4, <2>1 DEF ProvisionAgentOk, ProvisionAgentFails, Goto, TypeOK,
                            ProcState, At, Here
    <2>3. Believes(p)' /\ Here(p)' = Here(p)
          BY <2>1, <2>2 DEF Believes, Here
    <2>4. \A j \in Instances : Holds(p, j)' <=> Holds(p, j)
          BY <1>4, <2>2 DEF ProvisionAgentOk, ProvisionAgentFails, Holds, At, Here
    <2>5. UNCHANGED <<rows, rowLock, launch, queue, callbackSeen>>
          BY <1>4 DEF ProvisionAgentOk, ProvisionAgentFails, meter
    <2>. QED BY <2>2, <2>3, <2>4, <2>5, SilentInv
  <1>5. CASE ProvisionFailCommit(p) \/ ProvisionCommit(p)
    <2>1. /\ i \in Instances /\ status[i] # "none"
          /\ \A j \in Instances : rowLock[j] = p <=> j = i
          BY <1>5, AtFacts DEF ProvisionFailCommit, ProvisionCommit, At,
                               RowLockOwner, Holds
    <2>2. /\ \A q \in Procs : q # p => proc'[q] = proc[q]
          /\ \/ proc'[p] = Idle
             \/ /\ proc'[p].task = "provision" /\ proc'[p].inst = i
                /\ proc'[p].pc = "announce"
          BY <1>5 DEF ProvisionFailCommit, ProvisionCommit, Done, Goto, TypeOK,
                      ProcState, At, Here
    <2>3. Believes(p)' /\ Here(p)' \in {Here(p), NoInstance}
          BY <2>1, <2>2 DEF Believes, Here
    <2>4. OnlyWorker(p)
          BY <1>5, <2>2 DEF ProvisionFailCommit, ProvisionCommit, OnlyWorker, TypeOK
    <2>5. rowLock' = [rowLock EXCEPT ![i] = NoProc]
          BY <1>5 DEF ProvisionFailCommit, ProvisionCommit
    <2>6. \A j \in Instances : rowLock'[j] = p <=> Holds(p, j)'
          BY <2>1, <2>2, <2>5 DEF TypeOK, Holds, At, LifecycleAssumption
    <2>7. \A j \in Instances : \A q \in Procs : q # p =>
             (rowLock'[j] = q <=> rowLock[j] = q)
          BY <2>1, <2>5 DEF TypeOK, LifecycleAssumption
    <2>8. /\ CommittedStatus' /\ TerminatedIsSettled' /\ RunningHasKey'
          /\ \A j \in Instances : status'[j] = "none" <=> status[j] = "none"
      <3>1. CASE ProvisionFailCommit(p)
            BY <2>1, <3>1 DEF ProvisionFailCommit, TypeOK, CommittedStatus,
               TerminatedIsSettled, RunningHasKey
      <3>2. CASE ProvisionCommit(p)
        <4>1. CASE UNCHANGED <<ssh, status>>
              BY <3>2, <4>1, RowsFrame DEF ProvisionCommit, rows
        <4>2. CASE /\ ssh' = [ssh EXCEPT ![i] = "live"]
                   /\ status' = [status EXCEPT ![i] = "running"]
              BY <2>1, <3>2, <4>2 DEF ProvisionCommit, TypeOK, CommittedStatus,
                 TerminatedIsSettled, RunningHasKey
        <4>. QED BY <3>2, <4>1, <4>2 DEF ProvisionCommit
      <3>. QED BY <1>5, <3>1, <3>2
    <2>9. UNCHANGED <<launch, queue, callbackSeen>>
          BY <1>5 DEF ProvisionFailCommit, ProvisionCommit
    <2>. QED BY <2>3, <2>4, <2>6, <2>7, <2>8, <2>9, WorkerInv
  <1>6. CASE ProvisionAnnounce(p) \/ ProvisionPublish(p)
    <2>1. i \in Instances /\ proc[p].pc \in {"announce", "publish"}
          BY <1>6, AtFacts DEF ProvisionAnnounce, ProvisionPublish, At
    <2>2. /\ \A q \in Procs : q # p => proc'[q] = proc[q]
          /\ \/ proc'[p] = Idle
             \/ /\ proc'[p].task = "provision" /\ proc'[p].inst = i
                /\ proc'[p].pc = "publish"
          BY <1>6 DEF ProvisionAnnounce, ProvisionPublish, Done, Goto, TypeOK,
                      ProcState, At, Here
    <2>3. Believes(p)' /\ Here(p)' \in {Here(p), NoInstance}
          BY <2>1, <2>2 DEF Believes, Here
    <2>4. \A j \in Instances : Holds(p, j)' <=> Holds(p, j)
          BY <2>1, <2>2 DEF Holds, At
    <2>5. UNCHANGED <<rows, rowLock, launch, queue, callbackSeen>>
          BY <1>6 DEF ProvisionAnnounce, ProvisionPublish
    <2>. QED BY <2>2, <2>3, <2>4, <2>5, SilentInv
  <1>. QED BY <1>1, <1>2, <1>3, <1>4, <1>5, <1>6 DEF Provisioning

\* A worker that takes a stop or terminate message goes on from a committed row.
LEMMA TeardownStartInv ==
    ASSUME IInv, TypeOK', NEW p \in Procs, NEW i \in Instances,
           StopStart(p, i) \/ TerminateStart(p, i)
    PROVE  IInv'
  <1>. USE IdleFields, LifecycleAssumption DEF IInv
  <1>1. UNCHANGED <<rows, rowLock, launch, callbackSeen>>
        BY DEF StopStart, TerminateStart
  <1>2. PICK t \in {"stop", "terminate"} :
           /\ proc[p] = Idle /\ queue[i][t] > 0
           /\ queue' = [queue EXCEPT ![i][t] = queue[i][t] - 1]
        BY DEF StopStart, TerminateStart, Pickup
  <1>3. /\ \A q \in Procs : q # p => proc'[q] = proc[q]
        /\ proc'[p].inst = i /\ proc'[p].seen = status[i]
        /\ \/ proc'[p].task = "stop" /\ proc'[p].pc = "suspend"
           \/ proc'[p].task = "terminate" /\ proc'[p].pc = "destroy"
        BY DEF StopStart, TerminateStart, Pickup, TypeOK
  <1>4. status[i] # "none"
        BY <1>2 DEF RowBeforeWork
  <1>5. ~MayTransition(status[i], "stopped")
        BY Legal DEF CommittedStatus, TypeOK
  <1>6. OnlyWorker(p) /\ Believes(p)'
        BY <1>1, <1>3, <1>5 DEF OnlyWorker, Believes, Here, rows
  <1>7. \A j \in Instances : rowLock[j] # p /\ ~Holds(p, j)'
        BY <1>2, <1>3 DEF RowLockOwner, Holds, At
  <1>8. RowLockOwner' /\ WorkerBeliefs'
        BY <1>1, <1>6, <1>7, LockFrame, BeliefFrame
  <1>9. RowBeforeWork'
    <2>1. \A j \in Instances, u \in Tasks : j # i => queue'[j][u] = queue[j][u]
          BY <1>2 DEF TypeOK
    <2>. QED BY <1>1, <1>3, <1>4, <2>1, BeforeWorkFrame DEF rows, Here, Tasks
  <1>. QED BY <1>1, <1>8, <1>9, RowsFrame

LEMMA StoppingInv ==
    ASSUME IInv, TypeOK', NEW p \in Procs, Stopping(p)
    PROVE  IInv'
  <1>. USE IdleFields DEF IInv
  <1>. DEFINE i == Here(p)
  <1>1. ASSUME NEW j \in Instances, StopStart(p, j) PROVE IInv'
        BY <1>1, TeardownStartInv
  <1>2. CASE StopAgent(p) \/ StopFinish(p)
    <2>1. i \in Instances /\ ~MayTransition(proc[p].seen, "stopped")
          BY <1>2, AtFacts DEF StopAgent, StopFinish, At, Believes
    <2>2. /\ \A q \in Procs : q # p => proc'[q] = proc[q]
          /\ \/ proc'[p] = Idle
             \/ /\ proc'[p].task = "stop" /\ proc'[p].inst = i
                /\ proc'[p].pc = "finish" /\ proc'[p].seen = proc[p].seen
          BY <1>2 DEF StopAgent, StopFinish, Done, Goto, TypeOK, ProcState, At, Here
    <2>3. Believes(p)' /\ Here(p)' \in {Here(p), NoInstance}
          BY <2>1, <2>2 DEF Believes, Here, MayTransition
    <2>4. \A j \in Instances : Holds(p, j)' <=> Holds(p, j)
          BY <1>2, <2>2 DEF StopAgent, StopFinish, Holds, At
    <2>5. UNCHANGED <<rows, rowLock, launch, queue, callbackSeen>>
          BY <1>2, <2>1 DEF StopAgent, StopFinish, rows
    <2>. QED BY <2>2, <2>3, <2>4, <2>5, SilentInv
  <1>. QED BY <1>1, <1>2 DEF Stopping

LEMMA TerminatingInv ==
    ASSUME IInv, TypeOK', NEW p \in Procs, Terminating(p)
    PROVE  IInv'
  <1>. USE IdleFields DEF IInv
  <1>. DEFINE i == Here(p)
  <1>1. ASSUME NEW j \in Instances, TerminateStart(p, j) PROVE IInv'
        BY <1>1, TeardownStartInv
  <1>2. CASE \/ TerminateDestroy(p) \/ TerminateVerify(p) \/ TerminateWrite(p)
             \/ TerminateRollback(p) \/ TerminatePublish(p)
    <2>1. i \in Instances /\ Believes(p) /\ proc[p].task = "terminate"
          BY <1>2, AtFacts DEF TerminateDestroy, TerminateVerify, TerminateWrite,
                               TerminateRollback, TerminatePublish, At
    <2>2. UNCHANGED <<rows, rowLock, launch, queue, callbackSeen>>
          BY <1>2 DEF TerminateDestroy, TerminateVerify, TerminateWrite,
                      TerminateRollback, TerminatePublish
    <2>3. /\ \A q \in Procs : q # p => proc'[q] = proc[q]
          /\ \/ proc'[p] = Idle
             \/ /\ proc'[p].task = "terminate" /\ proc'[p].inst = i
                /\ \/ proc'[p].pc = "verify"
                   \/ proc'[p].pc = "write" /\ proc'[p].verdict # "none"
                   \/ /\ proc'[p].pc = "commit"
                      /\ proc'[p].verdict = "none" => receipt[i] # "none"
                      /\ proc'[p].keySeen => ssh[i] # "none"
      <3>1. CASE TerminateDestroy(p)
            BY <3>1 DEF TerminateDestroy, Goto, TypeOK, ProcState, At, Here
      <3>2. CASE TerminateVerify(p)
            BY <3>2 DEF TerminateVerify, TypeOK, ProcState, At, Here
      <3>3. CASE TerminateWrite(p)
            BY ZenonT(40), <2>1, <3>3 DEF TerminateWrite, TypeOK, ProcState, At, Here, Believes
      <3>4. CASE TerminateRollback(p) \/ TerminatePublish(p)
            BY <3>4 DEF TerminateRollback, TerminatePublish, Done, TypeOK
      <3>. QED BY <1>2, <3>1, <3>2, <3>3, <3>4
    <2>4. Believes(p)' /\ Here(p)' \in {Here(p), NoInstance}
          BY <2>1, <2>2, <2>3 DEF Believes, Here, rows
    <2>5. \A j \in Instances : Holds(p, j)' <=> Holds(p, j)
          BY <2>1, <2>3 DEF Holds, At
    <2>. QED BY <2>2, <2>3, <2>4, <2>5, SilentInv
  <1>3. CASE TerminateCommit(p)
    <2>1. /\ i \in Instances /\ status[i] # "none" /\ proc[p].task = "terminate"
          /\ proc[p].verdict = "none" => receipt[i] # "none"
          /\ proc[p].keySeen => ssh[i] # "none"
          /\ proc[p].verdict \in ReceiptKind
          BY <1>3, AtFacts DEF TerminateCommit, At, Believes, TypeOK, ProcState
    <2>2. /\ \A q \in Procs : q # p => proc'[q] = proc[q]
          /\ proc'[p].task = "terminate" /\ proc'[p].inst = i
          /\ proc'[p].pc = "publish"
          BY <1>3, <2>1 DEF TerminateCommit, Goto, TypeOK, ProcState, Here
    <2>3. Believes(p)' /\ Here(p)' = Here(p)
          BY <2>1, <2>2 DEF Believes, Here
    <2>4. OnlyWorker(p)
          BY <1>3, <2>1, <2>2 DEF TerminateCommit, OnlyWorker, TypeOK, TerminateAborts
    <2>5. \A j \in Instances : rowLock[j] # p /\ ~Holds(p, j)'
          BY <2>1, <2>2 DEF RowLockOwner, Holds, At
    <2>6. /\ CommittedStatus' /\ RunningHasKey'
          /\ \A j \in Instances : status'[j] = "none" <=> status[j] = "none"
          BY <1>3, <2>1 DEF TerminateCommit, TypeOK, CommittedStatus, RunningHasKey
    <2>7. TerminatedIsSettled'
          BY <1>3, <2>1 DEF TerminateCommit, TypeOK, TerminatedIsSettled
    <2>8. UNCHANGED <<rowLock, launch, queue, callbackSeen>>
          BY <1>3 DEF TerminateCommit
    <2>. QED BY <2>3, <2>4, <2>5, <2>6, <2>7, <2>8, WorkerInv
  <1>. QED BY <1>1, <1>2, <1>3 DEF Terminating

LEMMA CrashInv == ASSUME IInv, TypeOK', NEW p \in Procs, Crash(p)
                  PROVE  IInv'
  <1>. USE IdleFields, LifecycleAssumption DEF IInv
  <1>. DEFINE i == Here(p)
  <1>1. Believes(p) /\ i \in Instances /\ status[i] # "none"
        BY AtFacts DEF Crash, WorkerBeliefs, Believes
  <1>2. proc'[p] = Idle /\ \A q \in Procs : q # p => proc'[q] = proc[q]
        BY DEF Crash, Done, TypeOK
  <1>3. UNCHANGED <<rows, launch, callbackSeen>>
        BY DEF Crash
  <1>4. OnlyWorker(p) /\ Believes(p)'
        BY <1>2, <1>3 DEF OnlyWorker, Believes, rows
  <1>5. \A j \in Instances : j # i => rowLock[j] # p
        BY DEF RowLockOwner, Holds
  <1>6. /\ \A j \in Instances : rowLock'[j] # p
        /\ \A j \in Instances : \A q \in Procs : q # p =>
              (rowLock'[j] = q <=> rowLock[j] = q)
        BY <1>1, <1>5 DEF Crash, TypeOK, LifecycleAssumption
  <1>7. \A j \in Instances : ~Holds(p, j)'
        BY <1>2 DEF Holds, At
  <1>8. RowLockOwner' /\ WorkerBeliefs'
        BY <1>4, <1>6, <1>7, LockFrame, BeliefFrame
  <1>9. RowBeforeWork'
    <2>1. \A j \in Instances, u \in Tasks : j # i => queue'[j][u] = queue[j][u]
          BY DEF Crash, Enqueue, TypeOK
    <2>. QED BY <1>1, <1>2, <1>3, <2>1, BeforeWorkFrame
             DEF rows, Here, Tasks, LifecycleAssumption
  <1>. QED BY <1>3, <1>8, <1>9, RowsFrame

-----------------------------------------------------------------------------
(* The inductive invariant is preserved: everything outside the workers *)

LEMMA OutsideInv ==
    ASSUME IInv, TypeOK', UNCHANGED <<proc, rowLock, launch>>,
           \A j \in Instances : ssh[j] # "none" => ssh'[j] # "none",
           \A j \in Instances : receipt[j] # "none" => receipt'[j] # "none",
           \A j \in Instances : status'[j] = "none" <=> status[j] = "none",
           \A j \in Instances : status[j] = "none" =>
              /\ queue'[j]["stop"] = queue[j]["stop"]
              /\ queue'[j]["terminate"] = queue[j]["terminate"]
              /\ callbackSeen'[j] = callbackSeen[j],
           CommittedStatus', TerminatedIsSettled', RunningHasKey'
    PROVE  IInv'
  <1>1. RowLockOwner'
        BY DEF IInv, RowLockOwner, Holds, At, Here
  <1>2. WorkerBeliefs'
        BY DEF IInv, WorkerBeliefs, Believes, Here
  <1>3. RowBeforeWork'
        BY BeforeWorkFrame DEF IInv, Here
  <1>. QED BY <1>1, <1>2, <1>3 DEF IInv

\* A message for a committed row does not disturb the rows not committed yet.
LEMMA EnqueueFrame ==
    ASSUME TypeOK, NEW i \in Instances, NEW t \in Tasks, status[i] # "none",
           Enqueue(i, t)
    PROVE  \A j \in Instances : status[j] = "none" => queue'[j] = queue[j]
  BY DEF TypeOK, Enqueue

LEMMA RedeliverInv == ASSUME IInv, TypeOK', NEW p \in Procs, Redeliver(p)
                      PROVE  IInv'
  <1>. USE IdleFields DEF IInv
  <1>1. /\ Here(p) \in Instances /\ status[Here(p)] # "none"
        /\ proc[p].task \in Tasks
        BY AtFacts DEF Redeliver, WorkerBeliefs, Believes, Tasks
  <1>2. \A j \in Instances : status[j] = "none" => queue'[j] = queue[j]
        BY <1>1, EnqueueFrame DEF Redeliver
  <1>3. UNCHANGED <<rows, proc, rowLock, launch, callbackSeen>>
        BY DEF Redeliver
  <1>. QED BY <1>2, <1>3, RowsFrame, OutsideInv DEF rows

LEMMA LaunchingInv ==
    ASSUME IInv, TypeOK', NEW i \in Instances, Launching(i)
    PROVE  IInv'
  <1>. USE DEF IInv
  <1>0. UNCHANGED <<proc, rowLock, holdReleased, ssh, receipt, callbackSeen>>
        BY DEF Launching, LaunchHold, LaunchEnqueue, LaunchCommit, LaunchRollback, rows
  <1>1. RowLockOwner' /\ WorkerBeliefs'
        BY <1>0 DEF RowLockOwner, Holds, At, WorkerBeliefs, Believes, Here
  <1>2. launch[i] # "done" /\ status[i] = "none"
        BY DEF Launching, LaunchHold, LaunchEnqueue, LaunchCommit, LaunchRollback,
               RowBeforeWork
  <1>3. CASE LaunchCommit(i)
    <2>1. /\ status' = [status EXCEPT ![i] = "pending"] /\ UNCHANGED queue
          /\ launch' = [launch EXCEPT ![i] = "done"]
          BY <1>3 DEF LaunchCommit
    <2>2. RowBeforeWork'
          BY <1>0, <2>1 DEF RowBeforeWork, TypeOK, Here
    <2>3. CommittedStatus' /\ TerminatedIsSettled' /\ RunningHasKey'
          BY <1>0, <2>1 DEF TypeOK, CommittedStatus, TerminatedIsSettled, RunningHasKey
    <2>. QED BY <1>1, <2>2, <2>3
  <1>4. CASE LaunchHold(i) \/ LaunchEnqueue(i) \/ LaunchRollback(i)
    <2>1. /\ UNCHANGED rows
          /\ \A j \in Instances : launch'[j] = "done" <=> launch[j] = "done"
          BY <1>2, <1>4 DEF LaunchHold, LaunchEnqueue, LaunchRollback, TypeOK
    <2>2. \A j \in Instances : /\ queue'[j]["stop"] = queue[j]["stop"]
                               /\ queue'[j]["terminate"] = queue[j]["terminate"]
      <3>1. CASE UNCHANGED queue
            BY <3>1
      <3>2. CASE queue' = [queue EXCEPT ![i]["provision"] = queue[i]["provision"] + 1]
            BY <3>2, QueueStep DEF Tasks
      <3>. QED BY <1>4, <3>1, <3>2
               DEF LaunchHold, LaunchEnqueue, LaunchRollback, Enqueue
    <2>3. RowBeforeWork'
          BY <1>0, <2>1, <2>2 DEF RowBeforeWork, Here, rows
    <2>. QED BY <1>1, <2>1, <2>3, RowsFrame
  <1>. QED BY <1>3, <1>4 DEF Launching

LEMMA RequestInv ==
    ASSUME IInv, TypeOK', NEW i \in Instances, UserRequest(i)
    PROVE  IInv'
  <1>. USE DEF IInv
  <1>1. status[i] # "none" /\ status[i] # "stopped"
        BY DEF UserRequest, StopRoute, StartRoute, TerminateRoute, CommittedStatus
  <1>2. UNCHANGED <<rows, proc, rowLock, launch, callbackSeen>>
        BY <1>1 DEF UserRequest, StopRoute, StartRoute, TerminateRoute, rows
  <1>3. \A j \in Instances : status[j] = "none" => queue'[j] = queue[j]
        BY <1>1, EnqueueFrame
        DEF UserRequest, StopRoute, StartRoute, TerminateRoute, Tasks
  <1>. QED BY <1>2, <1>3, RowsFrame, OutsideInv DEF rows

LEMMA MeteringInv ==
    ASSUME IInv, TypeOK', NEW i \in Instances, Metering(i)
    PROVE  IInv'
  <1>. USE DEF IInv
  <1>1. UNCHANGED <<rows, proc, rowLock, launch, callbackSeen>>
        BY DEF Metering, MeterTick, MeterError, ReconcileRead, Reconcile, StopKeyExpires
  <1>2. \A j \in Instances : status[j] = "none" => queue'[j] = queue[j]
        BY EnqueueFrame
        DEF Metering, MeterTick, MeterError, ReconcileRead, Reconcile, StopKeyExpires, Tasks
  <1>. QED BY <1>1, <1>2, RowsFrame, OutsideInv DEF rows

LEMMA CallbackInv ==
    ASSUME IInv, TypeOK', NEW i \in Instances, AgentCallback(i) \/ KillSwitch(i)
    PROVE  IInv'
  <1>. USE DEF IInv
  <1>1. UNCHANGED <<proc, rowLock, launch, queue, ssh>>
        BY DEF AgentCallback, CallbackComplete, CallbackDeletion,
               CallbackFailedRead, CallbackFailedWrite, KillSwitch, rows
  <1>2. CASE CallbackComplete(i)
    <2>1. ~MayTransition(status[i], "running")
          BY Legal DEF CommittedStatus, TypeOK
    <2>2. UNCHANGED <<rows, callbackSeen>>
          BY <1>2, <2>1 DEF CallbackComplete, rows
    <2>. QED BY <1>1, <2>2, RowsFrame, OutsideInv DEF rows
  <1>3. CASE CallbackDeletion(i)
    <2>1. UNCHANGED <<status, holdReleased, callbackSeen>>
          BY <1>3 DEF CallbackDeletion
    <2>2. \A j \in Instances : receipt[j] # "none" => receipt'[j] # "none"
          BY <1>3 DEF CallbackDeletion, TypeOK
    <2>3. CommittedStatus' /\ TerminatedIsSettled' /\ RunningHasKey'
          BY <1>1, <2>1, <2>2 DEF CommittedStatus, TerminatedIsSettled, RunningHasKey
    <2>. QED BY <1>1, <2>1, <2>2, <2>3, OutsideInv
  <1>4. CASE CallbackFailedRead(i)
    <2>1. UNCHANGED rows /\ status[i] # "none"
          BY <1>4 DEF CallbackFailedRead
    <2>2. \A j \in Instances : j # i => callbackSeen'[j] = callbackSeen[j]
          BY <1>4 DEF CallbackFailedRead, TypeOK
    <2>. QED BY <1>1, <2>1, <2>2, RowsFrame, OutsideInv DEF rows
  <1>5. CASE CallbackFailedWrite(i)
    <2>1. status[i] # "none"
          BY <1>5 DEF CallbackFailedWrite, RowBeforeWork
    <2>2. /\ UNCHANGED <<holdReleased, receipt>>
          /\ \A j \in Instances : j # i => callbackSeen'[j] = callbackSeen[j]
          BY <1>5 DEF CallbackFailedWrite, TypeOK
    <2>3. status' \in {status, [status EXCEPT ![i] = "failed"]}
          BY <1>5 DEF CallbackFailedWrite
    <2>4. /\ CommittedStatus' /\ TerminatedIsSettled' /\ RunningHasKey'
          /\ \A j \in Instances : status'[j] = "none" <=> status[j] = "none"
      <3>1. CASE UNCHANGED status
            BY <1>1, <2>2, <3>1, RowsFrame DEF rows
      <3>2. CASE status' = [status EXCEPT ![i] = "failed"]
            BY <1>1, <2>1, <2>2, <3>2
            DEF TypeOK, CommittedStatus, TerminatedIsSettled, RunningHasKey
      <3>. QED BY <2>3, <3>1, <3>2
    <2>. QED BY <1>1, <2>1, <2>2, <2>4, OutsideInv
  <1>6. CASE KillSwitch(i)
    <2>1. /\ KillSwitchDeployed /\ status[i] # "none"
          /\ UNCHANGED <<receipt, callbackSeen>>
          /\ status' = [status EXCEPT ![i] = "terminated"]
          /\ holdReleased' = [holdReleased EXCEPT ![i] = TRUE]
          BY <1>6 DEF KillSwitch
    <2>2. /\ CommittedStatus' /\ TerminatedIsSettled' /\ RunningHasKey'
          /\ \A j \in Instances : status'[j] = "none" <=> status[j] = "none"
          BY <1>1, <2>1 DEF TypeOK, CommittedStatus, TerminatedIsSettled, RunningHasKey
    <2>. QED BY <1>1, <2>1, <2>2, OutsideInv
  <1>. QED BY <1>2, <1>3, <1>4, <1>5, <1>6 DEF AgentCallback

-----------------------------------------------------------------------------
(* The invariants, as theorems of the specification *)

LEMMA NextInv == IInv /\ [Next]_vars => IInv'
  <1>. SUFFICES ASSUME IInv, [Next]_vars PROVE IInv'
       OBVIOUS
  <1>1. CASE UNCHANGED vars
    <2>1. UNCHANGED <<rows, rowLock, launch, host, meter, queue, events, proc,
                      callbackSeen, crashes>>
          BY <1>1 DEF vars
    <2>2. TypeOK'
          BY <2>1 DEF IInv, TypeOK, rows, host, meter
    <2>. QED BY <2>1, <2>2, RowsFrame, OutsideInv DEF IInv, rows
  <1>2. ASSUME NEW p \in Procs,
               \/ Provisioning(p) \/ Stopping(p) \/ Terminating(p)
               \/ Crash(p) \/ Redeliver(p)
        PROVE  IInv'
    <2>1. TypeOK'
          BY <1>2, ProvisioningType, StoppingType, TerminatingType, CrashType,
             RedeliverType DEF IInv
    <2>. QED BY <1>2, <2>1, ProvisioningInv, StoppingInv, TerminatingInv,
                CrashInv, RedeliverInv
  <1>3. ASSUME NEW i \in Instances,
               Launching(i) \/ UserRequest(i) \/ Metering(i)
               \/ AgentCallback(i) \/ KillSwitch(i)
        PROVE  IInv'
    <2>1. TypeOK'
          BY <1>3, LaunchingType, RequestType, MeteringType, CallbackType DEF IInv
    <2>. QED BY <1>3, <2>1, LaunchingInv, RequestInv, MeteringInv, CallbackInv
  <1>. QED BY <1>1, <1>2, <1>3 DEF Next

LEMMA SpecInv == Spec => []IInv
  BY InvInit, NextInv, PTL DEF Spec

\* Every variable keeps its type.
THEOREM TypeCorrect == Spec => []TypeOK
  BY SpecInv, PTL DEF IInv

\* The row lock is held exactly by a provision_instance between its first
\* flush and its commit, whichever worker dies when.
THEOREM RowLockHeld == Spec => []RowLockOwner
  BY SpecInv, PTL DEF IInv

\* What a worker read stays good enough for the write it goes on to make.
THEOREM BeliefsHold == Spec => []WorkerBeliefs
  BY SpecInv, PTL DEF IInv

\* Nothing but the dropped provision message precedes the commit of a launch.
THEOREM NothingBeforeCommit == Spec => []RowBeforeWork
  BY SpecInv, PTL DEF IInv

\* provisioning, stopping and stopped are never committed.
LEMMA CommittedStatuses == Spec => []CommittedStatus
  BY SpecInv, PTL DEF IInv

\* Without the kill switch, no interleaving terminates an instance without a receipt.
THEOREM Settled == Spec => []TerminatedIsSettled
  BY SpecInv, PTL DEF IInv

\* A running instance has a live SSH key.
THEOREM RunningKey == Spec => []RunningHasKey
  BY SpecInv, PTL DEF IInv

-----------------------------------------------------------------------------
(* Every commit is a step of InstanceRecord *)

LEMMA RecordStep ==
    ASSUME IInv, [Next]_vars
    PROVE  [Record!Next]_<<status, holdReleased, ssh, receipt>>
  <1>. SUFFICES Record!Next \/ UNCHANGED rows
       BY DEF rows
  <1>. USE IdleFields DEF IInv
  <1>1. CASE UNCHANGED vars
        BY <1>1 DEF vars
  <1>2. ASSUME NEW p \in Procs, Provisioning(p) PROVE Record!Next \/ UNCHANGED rows
    <2>. DEFINE i == Here(p)
    <2>1. CASE ProvisionBlocked(p) \/ ProvisionFailCommit(p)
      <3>1. i \in Instances /\ status[i] # "none"
            BY <2>1, AtFacts DEF ProvisionBlocked, ProvisionFailCommit, At
      <3>2. Record!Fail(i)
            BY <2>1, <3>1 DEF ProvisionBlocked, ProvisionFailCommit, Record!Fail
      <3>. QED BY <3>1, <3>2 DEF Record!Next
    <2>2. CASE ProvisionCommit(p)
      <3>1. i \in Instances /\ status[i] # "none"
            BY <2>2, AtFacts DEF ProvisionCommit, At
      <3>2. CASE ssh[i] # "none"
            BY <2>2, <3>2 DEF ProvisionCommit, rows
      <3>3. CASE ssh[i] = "none"
        <4>1. status[i] \in {"pending", "failed", "terminated"}
              BY <3>1, <3>3 DEF RunningHasKey, CommittedStatus, TypeOK, RowStatus,
                                InstanceStatus
        <4>2. Record!Start(i)
              BY <2>2, <3>3, <4>1 DEF ProvisionCommit, Record!Start
        <4>. QED BY <3>1, <4>2 DEF Record!Next
      <3>. QED BY <3>2, <3>3
    <2>. QED BY <1>2, <2>1, <2>2
         DEF Provisioning, ProvisionStart, ProvisionBegin, ProvisionAgentOk,
             ProvisionAgentFails, ProvisionAnnounce, ProvisionPublish
  <1>3. ASSUME NEW p \in Procs, Stopping(p) PROVE UNCHANGED rows
    <2>1. CASE StopFinish(p)
      <3>1. ~MayTransition(proc[p].seen, "stopped")
            BY <2>1, AtFacts DEF StopFinish, At, Believes
      <3>. QED BY <2>1, <3>1 DEF StopFinish, rows
    <2>. QED BY <1>3, <2>1 DEF Stopping, StopStart, StopAgent
  <1>4. ASSUME NEW p \in Procs, Terminating(p) PROVE Record!Next \/ UNCHANGED rows
    <2>. DEFINE i == Here(p)
    <2>1. CASE TerminateCommit(p)
      <3>1. /\ i \in Instances /\ status[i] # "none"
            /\ proc[p].verdict = "none" => receipt[i] # "none"
            /\ proc[p].keySeen => ssh[i] # "none"
            /\ proc[p].verdict \in ReceiptKind /\ receipt[i] \in ReceiptKind
            BY <2>1, AtFacts DEF TerminateCommit, At, Believes, TypeOK, ProcState
      <3>2. \E k \in {ssh[i], "revoked"} :
               /\ k = "revoked" => ssh[i] # "none"
               /\ ssh' = [ssh EXCEPT ![i] = k]
            BY <2>1, <3>1 DEF TerminateCommit, TypeOK
      <3>3. \E r \in {"verified", "unverified"} :
               /\ receipt[i] \in {"none", r}
               /\ receipt' = [receipt EXCEPT ![i] = r]
            BY <2>1, <3>1 DEF TerminateCommit, TerminateAborts, TypeOK, ReceiptKind
      <3>4. Record!Settle(i)
            BY <2>1, <3>1, <3>2, <3>3 DEF TerminateCommit, Record!Settle
      <3>. QED BY <3>1, <3>4 DEF Record!Next
    <2>. QED BY <1>4, <2>1
         DEF Terminating, TerminateStart, TerminateDestroy, TerminateVerify,
             TerminateWrite, TerminateRollback, TerminatePublish
  <1>5. ASSUME NEW p \in Procs, Crash(p) \/ Redeliver(p) PROVE UNCHANGED rows
        BY <1>5 DEF Crash, Redeliver
  <1>6. ASSUME NEW i \in Instances, Launching(i) PROVE Record!Next \/ UNCHANGED rows
    <2>1. CASE LaunchCommit(i)
      <3>1. status[i] = "none"
            BY <2>1 DEF LaunchCommit, RowBeforeWork
      <3>2. Record!Create(i)
            BY <2>1, <3>1 DEF LaunchCommit, Record!Create
      <3>. QED BY <3>2 DEF Record!Next
    <2>. QED BY <1>6, <2>1
         DEF Launching, LaunchHold, LaunchEnqueue, LaunchRollback
  <1>7. ASSUME NEW i \in Instances, UserRequest(i) \/ Metering(i)
        PROVE  UNCHANGED rows
    <2>1. status[i] # "stopped"
          BY DEF CommittedStatus
    <2>. QED BY <1>7, <2>1
         DEF UserRequest, StopRoute, StartRoute, TerminateRoute, Metering,
             MeterTick, MeterError, ReconcileRead, Reconcile, StopKeyExpires, rows
  <1>8. ASSUME NEW i \in Instances, AgentCallback(i) \/ KillSwitch(i)
        PROVE  Record!Next \/ UNCHANGED rows
    <2>1. CASE CallbackComplete(i) \/ CallbackFailedRead(i)
      <3>1. ~MayTransition(status[i], "running")
            BY Legal DEF CommittedStatus, TypeOK
      <3>. QED BY <2>1, <3>1 DEF CallbackComplete, CallbackFailedRead, rows
    <2>2. CASE CallbackDeletion(i)
      <3>1. Record!Report(i)
            BY <2>2 DEF CallbackDeletion, Record!Report
      <3>. QED BY <3>1 DEF Record!Next
    <2>3. CASE CallbackFailedWrite(i)
      <3>1. status[i] # "none"
            BY <2>3 DEF CallbackFailedWrite, RowBeforeWork
      <3>2. Record!Fail(i) \/ UNCHANGED rows
            BY <2>3, <3>1 DEF CallbackFailedWrite, Record!Fail, rows
      <3>. QED BY <3>2 DEF Record!Next
    <2>4. CASE KillSwitch(i)
      <3>1. Record!Kill(i)
            BY <2>4 DEF KillSwitch, Record!Kill
      <3>. QED BY <3>1 DEF Record!Next
    <2>. QED BY <1>8, <2>1, <2>2, <2>3, <2>4 DEF AgentCallback
  <1>. QED BY <1>1, <1>2, <1>3, <1>4, <1>5, <1>6, <1>7, <1>8 DEF Next

LEMMA RecordInit == Init => Record!Init
  BY DEF Init, Record!Init

\* InstanceLifecycle implements InstanceRecord: the committed status, hold, key
\* and receipt of an instance change together, in the ways of InstanceRecord only.
THEOREM LifecycleImplementsRecord == Spec => ImplementsRecord
  <1>1. IInv /\ [Next]_vars => [Record!Next]_<<status, holdReleased, ssh, receipt>>
        BY RecordStep
  <1>2. [Record!Next]_<<status, holdReleased, ssh, receipt>>
           <=> [Record!Next]_(Record!record)
        BY DEF Record!record
  <1>. QED BY <1>1, <1>2, RecordInit, SpecInv, PTL
           DEF Spec, ImplementsRecord, Record!Spec

\* What InstanceRecord's steps leave alone is left alone by every handler.
LEMMA FinalStep ==
    ASSUME IInv, [Next]_vars, NEW i \in Instances
    PROVE  /\ receipt[i] # "none" => receipt'[i] = receipt[i]
           /\ status[i] # "running" /\ status'[i] = "running" => ssh[i] = "none"
           /\ ssh[i] = "revoked" => ssh'[i] = "revoked"
  <1>1. CASE UNCHANGED rows
        BY <1>1 DEF rows
  <1>2. ASSUME NEW j \in Instances,
               \/ Record!Create(j) \/ Record!Start(j) \/ Record!Fail(j)
               \/ Record!Settle(j) \/ Record!Report(j) \/ Record!Kill(j)
               \/ Record!Release(j)
        PROVE  /\ receipt[i] # "none" => receipt'[i] = receipt[i]
               /\ status[i] # "running" /\ status'[i] = "running" => ssh[i] = "none"
               /\ ssh[i] = "revoked" => ssh'[i] = "revoked"
    <2>. USE DEF IInv, TypeOK
    <2>1. CASE \/ Record!Create(j) \/ Record!Start(j) \/ Record!Fail(j)
               \/ Record!Kill(j) \/ Record!Release(j)
          BY <2>1 DEF Record!Create, Record!Start, Record!Fail, Record!Kill,
                      Record!Release
    <2>2. CASE Record!Settle(j)
          BY <2>2 DEF Record!Settle
    <2>3. CASE Record!Report(j)
          BY <2>3 DEF Record!Report
    <2>. QED BY <1>2, <2>1, <2>2, <2>3
  <1>3. Record!Next \/ UNCHANGED rows
        BY RecordStep DEF rows
  <1>. QED BY <1>1, <1>2, <1>3 DEF Record!Next

\* A committed deletion receipt is final.
THEOREM ReceiptFinality == Spec => ReceiptIsFinal
  <1>1. IInv /\ [Next]_vars =>
           [\A i \in Instances : receipt[i] # "none" => receipt'[i] = receipt[i]]_vars
        BY FinalStep
  <1>. QED BY <1>1, SpecInv, PTL DEF Spec, ReceiptIsFinal

\* An instance is provisioned successfully at most once, and a revoked key
\* stays revoked.
THEOREM OneRun == Spec => RunsAtMostOnce
  <1>1. IInv /\ [Next]_vars =>
           [\A i \in Instances :
              /\ status[i] # "running" /\ status'[i] = "running" => ssh[i] = "none"
              /\ ssh[i] = "revoked" => ssh'[i] = "revoked"]_vars
        BY FinalStep
  <1>. QED BY <1>1, SpecInv, PTL DEF Spec, RunsAtMostOnce

-----------------------------------------------------------------------------
(* Events follow the commits they announce *)

\* A worker that is about to publish has committed what it will announce.
Announces(p) == LET i == Here(p) IN
    /\ At(p, "provision", "announce") \/ At(p, "provision", "publish")
          => ssh[i] # "none"
    /\ At(p, "terminate", "publish") => holdReleased[i] /\ receipt[i] # "none"

AInv == AnnouncedAfterCommit /\ \A p \in Procs : Announces(p)

\* No handler takes back a key row, a receipt or a released hold.
LEMMA GrowStep ==
    ASSUME IInv, [Next]_vars, NEW i \in Instances
    PROVE  /\ ssh[i] # "none" => ssh'[i] # "none"
           /\ receipt[i] # "none" => receipt'[i] # "none"
           /\ holdReleased[i] => holdReleased'[i]
  <1>1. CASE UNCHANGED rows
        BY <1>1 DEF rows
  <1>2. ASSUME NEW j \in Instances,
               \/ Record!Create(j) \/ Record!Start(j) \/ Record!Fail(j)
               \/ Record!Settle(j) \/ Record!Report(j) \/ Record!Kill(j)
               \/ Record!Release(j)
        PROVE  /\ ssh[i] # "none" => ssh'[i] # "none"
               /\ receipt[i] # "none" => receipt'[i] # "none"
               /\ holdReleased[i] => holdReleased'[i]
    <2>. USE DEF IInv, TypeOK
    <2>1. CASE \/ Record!Create(j) \/ Record!Start(j) \/ Record!Fail(j)
               \/ Record!Kill(j) \/ Record!Release(j)
          BY <2>1 DEF Record!Create, Record!Start, Record!Fail, Record!Kill,
                      Record!Release
    <2>2. CASE Record!Settle(j)
          BY <2>2 DEF Record!Settle
    <2>3. CASE Record!Report(j)
          BY <2>3 DEF Record!Report
    <2>. QED BY <1>2, <2>1, <2>2, <2>3
  <1>3. Record!Next \/ UNCHANGED rows
        BY RecordStep DEF rows
  <1>. QED BY <1>1, <1>2, <1>3 DEF Record!Next

\* A step whose events were due and whose workers are where they were, or may
\* announce what they are about to.
LEMMA AnnounceFrame ==
    ASSUME IInv, AInv, [Next]_vars,
           \A i \in Instances :
              /\ "running" \in events'[i] =>
                    "running" \in events[i] \/ ssh[i] # "none"
              /\ "terminated" \in events'[i] =>
                    \/ "terminated" \in events[i]
                    \/ holdReleased[i] /\ receipt[i] # "none",
           \A q \in Procs : proc'[q] = proc[q] \/ Announces(q)'
    PROVE  AInv'
  <1>1. AnnouncedAfterCommit'
        BY GrowStep DEF AInv, AnnouncedAfterCommit
  <1>2. ASSUME NEW q \in Procs, proc'[q] = proc[q] PROVE Announces(q)'
    <2>1. CASE proc[q].task = "none"
          BY <1>2, <2>1 DEF Announces, At
    <2>2. CASE proc[q].task # "none"
      <3>1. Here(q) \in Instances /\ Announces(q)
            BY <2>2, AtFacts DEF AInv
      <3>. QED BY <1>2, <3>1, GrowStep DEF Announces, At, Here
    <2>. QED BY <2>1, <2>2
  <1>. QED BY <1>1, <1>2 DEF AInv

\* Every step but five leaves the events and the publishers alone.
LEMMA AnnounceStep == IInv /\ AInv /\ [Next]_vars => AInv'
  <1>. SUFFICES ASSUME IInv, AInv, [Next]_vars PROVE AInv'
       OBVIOUS
  <1>. USE IdleFields
  <1>. DEFINE Quiet(q) == \/ proc'[q] = proc[q]
                          \/ proc'[q].task \notin {"provision", "terminate"}
                          \/ proc'[q].pc \notin {"announce", "publish"}
  <1>1. ASSUME UNCHANGED events, \A q \in Procs : Quiet(q) PROVE AInv'
    <2>1. \A q \in Procs : proc'[q] = proc[q] \/ Announces(q)'
          BY <1>1 DEF Announces, At
    <2>. QED BY <1>1, <2>1, AnnounceFrame
  <1>2. CASE UNCHANGED vars
        BY <1>1, <1>2 DEF vars
  <1>3. ASSUME NEW i \in Instances,
               Launching(i) \/ UserRequest(i) \/ Metering(i)
               \/ AgentCallback(i) \/ KillSwitch(i)
        PROVE  AInv'
    <2>1. UNCHANGED <<proc, events>>
          BY <1>3 DEF Launching, LaunchHold, LaunchEnqueue, LaunchCommit,
             LaunchRollback, UserRequest, StopRoute, StartRoute, TerminateRoute,
             Metering, MeterTick, MeterError, ReconcileRead, Reconcile, StopKeyExpires,
             AgentCallback, CallbackComplete, CallbackDeletion,
             CallbackFailedRead, CallbackFailedWrite, KillSwitch
    <2>. QED BY <1>1, <2>1
  <1>4. ASSUME NEW p \in Procs, Stopping(p) \/ Crash(p) \/ Redeliver(p)
        PROVE  AInv'
    <2>1. UNCHANGED events /\ \A q \in Procs : Quiet(q)
      <3>1. ASSUME NEW i \in Instances, StopStart(p, i)
            PROVE  UNCHANGED events /\ \A q \in Procs : Quiet(q)
            BY <3>1 DEF StopStart, Pickup, IInv, TypeOK
      <3>2. CASE StopAgent(p) \/ StopFinish(p) \/ Crash(p)
            BY <3>2 DEF StopAgent, StopFinish, Crash, Goto, Done, IInv, TypeOK, ProcState
      <3>3. CASE Redeliver(p)
            BY <3>3 DEF Redeliver
      <3>. QED BY <1>4, <3>1, <3>2, <3>3 DEF Stopping
    <2>. QED BY <1>1, <2>1
  <1>5. ASSUME NEW p \in Procs, Provisioning(p) PROVE AInv'
    <2>. DEFINE i == Here(p)
    <2>1. ASSUME NEW j \in Instances, ProvisionStart(p, j) PROVE AInv'
      <3>1. UNCHANGED events /\ \A q \in Procs : Quiet(q)
            BY <2>1 DEF ProvisionStart, Pickup, IInv, TypeOK
      <3>. QED BY <1>1, <3>1
    <2>2. CASE \/ ProvisionBlocked(p) \/ ProvisionBegin(p) \/ ProvisionAgentOk(p)
               \/ ProvisionFailCommit(p)
      <3>1. UNCHANGED events /\ \A q \in Procs : Quiet(q)
            BY <2>2 DEF ProvisionBlocked, ProvisionBegin, ProvisionAgentOk,
                        ProvisionFailCommit, Goto, Done, IInv, TypeOK, ProcState
      <3>. QED BY <1>1, <3>1
    <2>3. CASE ProvisionAgentFails(p)
      <3>1. /\ \A j \in Instances : \A e \in {"running", "terminated"} :
                  e \in events'[j] => e \in events[j]
            /\ \A q \in Procs : Quiet(q)
            BY <2>3 DEF ProvisionAgentFails, Publish, Goto, IInv, TypeOK, ProcState
      <3>2. \A q \in Procs : proc'[q] = proc[q] \/ Announces(q)'
            BY <3>1 DEF Announces, At
      <3>. QED BY <3>1, <3>2, AnnounceFrame
    <2>4. CASE ProvisionCommit(p)
      <3>1. i \in Instances
            BY <2>4, AtFacts DEF ProvisionCommit, At
      <3>2. /\ UNCHANGED events
            /\ \A q \in Procs : q # p => proc'[q] = proc[q]
            /\ \/ proc'[p] = Idle
               \/ /\ proc'[p].task = "provision" /\ proc'[p].inst = i
                  /\ ssh'[i] = "live"
            BY <2>4, <3>1 DEF ProvisionCommit, Goto, Done, At, Here, IInv, TypeOK, ProcState
      <3>3. Announces(p)'
            BY <3>2 DEF Announces, At, Here
      <3>. QED BY <3>2, <3>3, AnnounceFrame
    <2>5. CASE ProvisionAnnounce(p)
      <3>1. i \in Instances /\ ssh[i] # "none"
            BY <2>5, AtFacts DEF ProvisionAnnounce, At, AInv, Announces
      <3>2. /\ UNCHANGED <<events, ssh>>
            /\ \A q \in Procs : q # p => proc'[q] = proc[q]
            /\ proc'[p].task = "provision" /\ proc'[p].inst = i
            BY <2>5, <3>1 DEF ProvisionAnnounce, Goto, At, Here, rows, IInv, TypeOK, ProcState
      <3>3. Announces(p)'
            BY <3>1, <3>2 DEF Announces, At, Here
      <3>. QED BY <3>2, <3>3, AnnounceFrame
    <2>6. CASE ProvisionPublish(p)
      <3>1. i \in Instances /\ ssh[i] # "none"
            BY <2>6, AtFacts DEF ProvisionPublish, At, AInv, Announces
      <3>2. /\ events' = [events EXCEPT ![i] = events[i] \cup {"running"}]
            /\ \A q \in Procs : Quiet(q)
            BY <2>6 DEF ProvisionPublish, Publish, Done, Here, IInv, TypeOK
      <3>3. \A q \in Procs : proc'[q] = proc[q] \/ Announces(q)'
            BY <3>2 DEF Announces, At
      <3>4. \A j \in Instances :
               /\ "running" \in events'[j] => "running" \in events[j] \/ ssh[j] # "none"
               /\ "terminated" \in events'[j] => "terminated" \in events[j]
            BY <3>1, <3>2 DEF IInv, TypeOK
      <3>. QED BY <3>3, <3>4, AnnounceFrame
    <2>. QED BY <1>5, <2>1, <2>2, <2>3, <2>4, <2>5, <2>6 DEF Provisioning
  <1>6. ASSUME NEW p \in Procs, Terminating(p) PROVE AInv'
    <2>. DEFINE i == Here(p)
    <2>1. ASSUME NEW j \in Instances, TerminateStart(p, j) PROVE AInv'
      <3>1. UNCHANGED events /\ \A q \in Procs : Quiet(q)
            BY <2>1 DEF TerminateStart, Pickup, IInv, TypeOK
      <3>. QED BY <1>1, <3>1
    <2>2. CASE \/ TerminateDestroy(p) \/ TerminateVerify(p) \/ TerminateWrite(p)
               \/ TerminateRollback(p)
      <3>1. UNCHANGED events /\ \A q \in Procs : Quiet(q)
        <4>1. CASE TerminateDestroy(p) \/ TerminateRollback(p)
              BY <4>1 DEF TerminateDestroy, TerminateRollback, Goto, Done, IInv,
                          TypeOK, ProcState
        <4>2. CASE TerminateVerify(p)
              BY <4>2 DEF TerminateVerify, IInv, TypeOK, ProcState
        <4>3. CASE TerminateWrite(p)
              BY <4>3 DEF TerminateWrite, IInv, TypeOK, ProcState
        <4>. QED BY <2>2, <4>1, <4>2, <4>3
      <3>. QED BY <1>1, <3>1
    <2>3. CASE TerminateCommit(p)
      <3>1. /\ i \in Instances /\ proc[p].task = "terminate"
            /\ proc[p].verdict = "none" => receipt[i] # "none"
            BY <2>3, AtFacts DEF TerminateCommit, At, Believes
      <3>2. holdReleased'[i] /\ receipt'[i] # "none" /\ UNCHANGED events
            BY <2>3, <3>1 DEF TerminateCommit, IInv, TypeOK
      <3>3. /\ \A q \in Procs : q # p => proc'[q] = proc[q]
            /\ proc'[p].task = "terminate" /\ proc'[p].inst = i
            BY <2>3, <3>1 DEF TerminateCommit, Goto, Here, IInv, TypeOK, ProcState
      <3>4. Announces(p)'
            BY <3>2, <3>3 DEF Announces, At, Here
      <3>. QED BY <3>2, <3>3, <3>4, AnnounceFrame
    <2>4. CASE TerminatePublish(p)
      <3>1. i \in Instances /\ holdReleased[i] /\ receipt[i] # "none"
            BY <2>4, AtFacts DEF TerminatePublish, At, AInv, Announces
      <3>2. /\ events' = [events EXCEPT ![i] = events[i] \cup {"terminated"}]
            /\ \A q \in Procs : Quiet(q)
            BY <2>4 DEF TerminatePublish, Publish, Done, Here, IInv, TypeOK
      <3>3. \A q \in Procs : proc'[q] = proc[q] \/ Announces(q)'
            BY <3>2 DEF Announces, At
      <3>4. \A j \in Instances :
               /\ "running" \in events'[j] => "running" \in events[j]
               /\ "terminated" \in events'[j] =>
                     \/ "terminated" \in events[j]
                     \/ holdReleased[j] /\ receipt[j] # "none"
            BY <3>1, <3>2 DEF IInv, TypeOK
      <3>. QED BY <3>3, <3>4, AnnounceFrame
    <2>. QED BY <1>6, <2>1, <2>2, <2>3, <2>4 DEF Terminating
  <1>. QED BY <1>2, <1>3, <1>4, <1>5, <1>6 DEF Next

LEMMA AnnounceInit == Init => AInv
  BY IdleFields DEF Init, AInv, AnnouncedAfterCommit, Announces, At

\* INSTANCE_RUNNING and INSTANCE_TERMINATED are published only after the commit
\* of the rows they announce, whatever is redelivered or published late.
THEOREM EventsFollowCommits == Spec => []AnnouncedAfterCommit
  <1>1. IInv /\ AInv /\ [Next]_vars => AInv'
        BY AnnounceStep
  <1>. QED BY <1>1, AnnounceInit, SpecInv, PTL DEF Spec, AInv
=============================================================================
