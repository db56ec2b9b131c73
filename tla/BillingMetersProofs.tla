------------------------- MODULE BillingMetersProofs -------------------------
(***************************************************************************)
(* Proofs about BillingMeters, for any number of instances, replicas and   *)
(* debit chains and any value of the bounds: its invariants, the finality  *)
(* of a job row, and that its steps on the rows of provisioning_service    *)
(* are steps of InstanceRecord.                                            *)
(***************************************************************************)
EXTENDS BillingMeters, TLAPS

-----------------------------------------------------------------------------
(* Type correctness *)

RecordTypeOK ==
    /\ status \in [Instances -> {"none", "pending", "running", "terminated", "failed"}]
    /\ holdReleased \in [Instances -> BOOLEAN]
    /\ ssh \in [Instances -> {"none", "live", "revoked"}]
    /\ receipt \in [Instances -> {"none", "verified", "unverified"}]

\* Whichever way InstanceRecord changes a row, it keeps its type.
LEMMA RecordType ==
    ASSUME RecordTypeOK, NEW i \in Instances,
           \/ Record!Create(i) \/ Record!Start(i) \/ Record!Fail(i) \/ Record!Settle(i)
           \/ Record!Report(i) \/ Record!Kill(i) \/ Record!Release(i)
    PROVE  RecordTypeOK'
  <1>. USE DEF RecordTypeOK
  <1>1. CASE Record!Create(i)  BY <1>1 DEF Record!Create
  <1>2. CASE Record!Start(i)   BY <1>2 DEF Record!Start
  <1>3. CASE Record!Fail(i)    BY <1>3 DEF Record!Fail
  <1>4. CASE Record!Settle(i)
    <2>1. PICK k \in {ssh[i], "revoked"} : ssh' = [ssh EXCEPT ![i] = k]
          BY <1>4 DEF Record!Settle
    <2>2. PICK r \in {"verified", "unverified"} : receipt' = [receipt EXCEPT ![i] = r]
          BY <1>4 DEF Record!Settle
    <2>. QED BY <1>4, <2>1, <2>2 DEF Record!Settle
  <1>5. CASE Record!Report(i)  BY <1>5 DEF Record!Report
  <1>6. CASE Record!Kill(i)    BY <1>6 DEF Record!Kill
  <1>7. CASE Record!Release(i) BY <1>7 DEF Record!Release
  <1>. QED BY <1>1, <1>2, <1>3, <1>4, <1>5, <1>6, <1>7

LEMMA TypeInit == Init => TypeOK
  BY MetersAssumption
  DEF MetersAssumption, Init, Record!Init, TypeOK, Attempt, EventKind, Event,
      JobState, HandlerState, ChainState, SweepState, IdleHandler, FreeChain,
      IdleSweep

LEMMA ProvisioningType == ASSUME TypeOK, NEW i \in Instances, Provisioning(i)
                          PROVE  TypeOK'
  <1>. USE MetersAssumption DEF MetersAssumption, record, launches, jobs, billing
  <1>1. RecordTypeOK
        BY DEF TypeOK, RecordTypeOK
  <1>2. CASE \/ Launch(i) \/ Started(i) \/ FailCommits(i) \/ FailedSilently(i)
             \/ Terminated(i) \/ Reported(i) \/ Killed(i)
    <2>1. RecordTypeOK'
          BY <1>1, <1>2, RecordType
          DEF Launch, Started, FailCommits, FailedSilently, Terminated, Reported, Killed
    <2>2. /\ attempt' \in [Instances -> Attempt]
          /\ owed' \in [Instances -> SUBSET EventKind]
          /\ stopKey' \in [Instances -> BOOLEAN]
      <3>. USE DEF TypeOK, Attempt, EventKind
      <3>1. CASE Launch(i)         BY <3>1 DEF Launch
      <3>2. CASE Started(i)        BY <3>2 DEF Started
      <3>3. CASE FailCommits(i)    BY <3>3 DEF FailCommits
      <3>4. CASE FailedSilently(i) BY <3>4 DEF FailedSilently
      <3>5. CASE Terminated(i)     BY <3>5 DEF Terminated
      <3>6. CASE Reported(i) \/ Killed(i)
            BY <3>6 DEF Reported, Killed
      <3>. QED BY <1>2, <3>1, <3>2, <3>3, <3>4, <3>5, <3>6
    <2>3. UNCHANGED <<bus, billing>>
          BY <1>2
          DEF Launch, Started, FailCommits, FailedSilently, Terminated, Reported, Killed
    <2>. QED BY <2>1, <2>2, <2>3 DEF TypeOK, RecordTypeOK
  <1>3. CASE Failing(i)        BY <1>3 DEF TypeOK, Failing, Attempt, EventKind
  <1>4. CASE FailRollsBack(i)  BY <1>4 DEF TypeOK, FailRollsBack, Attempt, EventKind
  <1>5. CASE Redelivered(i)    BY <1>5 DEF TypeOK, Redelivered, Attempt, EventKind
  <1>6. CASE StopRequested(i)  BY <1>6 DEF TypeOK, StopRequested
  <1>7. CASE StopKeyExpires(i) BY <1>7 DEF TypeOK, StopKeyExpires
  <1>8. ASSUME NEW e \in EventKind, Publish(i, e) PROVE TypeOK'
    <2>1. owed' \in [Instances -> SUBSET EventKind]
          BY <1>8 DEF TypeOK, Publish
    <2>2. bus' \in [Subscribers -> Seq(Event)]
      <3>1. [kind |-> e, inst |-> i] \in Event
            BY DEF Event
      <3>2. PICK S \in SUBSET Subscribers :
               bus' = [s \in Subscribers |->
                         IF s \in S THEN Append(bus[s], [kind |-> e, inst |-> i])
                                    ELSE bus[s]]
            BY <1>8 DEF Publish
      <3>3. \A s \in Subscribers : /\ bus[s] \in Seq(Event)
                                   /\ Append(bus[s], [kind |-> e, inst |-> i]) \in Seq(Event)
            BY <3>1 DEF TypeOK
      <3>. QED BY <3>2, <3>3
    <2>. QED BY <1>8, <2>1, <2>2 DEF TypeOK, Publish
  <1>. QED BY <1>2, <1>3, <1>4, <1>5, <1>6, <1>7, <1>8 DEF Provisioning

LEMMA FreeChainType == FreeChain \in ChainState
  BY DEF FreeChain, ChainState

LEMMA DispatchType == ASSUME TypeOK, NEW c \in Chains, NEW i \in Instances, Dispatch(c, i)
                      PROVE  chain' \in [Chains -> ChainState]
  BY DEF TypeOK, Dispatch, ChainState

LEMMA EndType == ASSUME TypeOK, NEW c, End(c)
                 PROVE  chain' \in [Chains -> ChainState]
  BY FreeChainType DEF TypeOK, End

LEMMA IdleHandlerType == IdleHandler \in HandlerState
  BY DEF IdleHandler, HandlerState

LEMMA TakesType == ASSUME TypeOK, NEW s \in Subscribers, NEW e, NEW i, Takes(s, e, i)
                   PROVE  bus' \in [Subscribers -> Seq(Event)]
  <1>1. bus[s] \in Seq(Event) /\ bus[s] # <<>>
        BY DEF TypeOK, Takes
  <1>2. Tail(bus[s]) \in Seq(Event)
        BY <1>1
  <1>. QED BY <1>2 DEF TypeOK, Takes

LEMMA RefundType == ASSUME TypeOK, NEW i, NEW s \in Subscribers, Record!Release(i),
                         refunds' = [refunds EXCEPT ![i][s] = @ + 1]
                  PROVE  /\ holdReleased' \in [Instances -> BOOLEAN]
                         /\ refunds' \in [Instances -> [Subscribers -> Nat]]
                         /\ UNCHANGED <<status, ssh, receipt>>
  <1>1. refunds' \in [Instances -> [Subscribers -> Nat]]
    <2>1. CASE i \in Instances
      <3>1. refunds[i][s] + 1 \in Nat  BY <2>1 DEF TypeOK
      <3>2. [refunds[i] EXCEPT ![s] = refunds[i][s] + 1] \in [Subscribers -> Nat]
            BY <2>1, <3>1 DEF TypeOK
      <3>. QED BY <2>1, <3>2 DEF TypeOK
    <2>2. CASE i \notin Instances
          BY <2>2 DEF TypeOK
    <2>. QED BY <2>1, <2>2
  <1>. QED BY <1>1 DEF TypeOK, Record!Release

LEMMA HandlingType == ASSUME TypeOK, NEW s \in Subscribers, Handling(s)
                      PROVE  TypeOK'
  <1>. USE DEF record, launches, jobs, external
  <1>1. ASSUME NEW i \in Instances, HandleRunning(s, i) PROVE TypeOK'
    <2>1. bus' \in [Subscribers -> Seq(Event)]
          BY <1>1, TakesType DEF HandleRunning
    <2>2. CASE UNCHANGED <<handler, chain>>
          BY <1>1, <2>1, <2>2 DEF TypeOK, HandleRunning
    <2>3. ASSUME NEW c \in Chains, Dispatch(c, i),
                 handler' = [handler EXCEPT ![s] =
                               [pc |-> "insert", inst |-> i, chain |-> c]]
          PROVE  TypeOK'
      <3>1. chain' \in [Chains -> ChainState]
            BY <2>3, DispatchType
      <3>2. handler' \in [Subscribers -> HandlerState]
            BY <2>3 DEF TypeOK, HandlerState
      <3>. QED BY <1>1, <2>1, <3>1, <3>2 DEF TypeOK, HandleRunning
    <2>. QED BY <1>1, <2>2, <2>3 DEF HandleRunning, FreeSlots
  <1>2. ASSUME NEW i \in Instances, HandleTerminated(s, i) PROVE TypeOK'
    <2>1. bus' \in [Subscribers -> Seq(Event)]
          BY <1>2, TakesType DEF HandleTerminated
    <2>2. job' \in [Instances -> JobState] /\ chain' \in [Chains -> ChainState]
          BY <1>2, EndType DEF HandleTerminated, TypeOK, JobState
    <2>3. /\ holdReleased' \in [Instances -> BOOLEAN]
          /\ refunds' \in [Instances -> [Subscribers -> Nat]]
          /\ UNCHANGED <<status, ssh, receipt>>
          BY <1>2, RefundType DEF HandleTerminated, TypeOK
    <2>. QED BY <1>2, <2>1, <2>2, <2>3 DEF TypeOK, HandleTerminated
  <1>3. ASSUME NEW i \in Instances, HandleFailed(s, i) PROVE TypeOK'
    <2>1. bus' \in [Subscribers -> Seq(Event)]
          BY <1>3, TakesType DEF HandleFailed
    <2>2. handler' \in [Subscribers -> HandlerState]
          BY <1>3 DEF HandleFailed, TypeOK, HandlerState
    <2>. QED BY <1>3, <2>1, <2>2 DEF TypeOK, HandleFailed
  <1>4. CASE InsertJob(s)
    <2>1. handler' \in [Subscribers -> HandlerState]
          BY <1>4, IdleHandlerType DEF TypeOK, InsertJob
    <2>2. handler[s].chain \in Chains \cup {NoChain}
          BY DEF TypeOK, HandlerState
    <2>3. /\ job' \in [Instances -> JobState]
          /\ jobChain' \in [Instances -> Chains \cup {NoChain}]
          BY ZenonT(40), <1>4, <2>2 DEF TypeOK, InsertJob, JobState
    <2>. QED BY <1>4, <2>1, <2>3 DEF TypeOK, InsertJob
  <1>5. CASE RefundCommit(s)
    <2>1. handler' \in [Subscribers -> HandlerState]
          BY <1>5, IdleHandlerType DEF TypeOK, RefundCommit
    <2>2. /\ holdReleased' \in [Instances -> BOOLEAN]
          /\ refunds' \in [Instances -> [Subscribers -> Nat]]
          /\ UNCHANGED <<status, ssh, receipt>>
          BY <1>5, RefundType DEF RefundCommit
    <2>. QED BY <1>5, <2>1, <2>2 DEF TypeOK, RefundCommit
  <1>. QED BY <1>1, <1>2, <1>3, <1>4, <1>5 DEF Handling

LEMMA DebitType == ASSUME TypeOK, NEW c \in Chains, Debit(c) \/ DebitFails(c)
                   PROVE  TypeOK'
  <1>. USE DEF record, launches, jobs, external, metering
  <1>1. chain[c] \in ChainState
        BY DEF TypeOK
  <1>2. chain' \in [Chains -> ChainState]
    <2>1. CASE End(c)
          BY <2>1, EndType
    <2>2. ASSUME NEW p \in {"due", "reading", "charged"},
                 chain' = [chain EXCEPT ![c].pc = p]
          PROVE  chain' \in [Chains -> ChainState]
          BY <2>2, <1>1 DEF TypeOK, ChainState
    <2>3. CASE DebitNext(c)
      <3>1. [chain[c] EXCEPT !.pc = "due", !.recorded = FALSE] \in ChainState
            BY <1>1 DEF ChainState
      <3>. QED BY <2>3, <3>1 DEF TypeOK, DebitNext
    <2>. QED BY <2>1, <2>2, <2>3
             DEF Debit, DebitStops, DebitReads, DebitCommits, DebitFails
  <1>3. /\ failures' \in Nat
        /\ UNCHANGED <<external, bus, handler, jobs, sweep, refunds>>
        BY DEF Debit, DebitStops, DebitReads, DebitCommits, DebitNext, DebitFails, TypeOK
  <1>. QED BY <1>2, <1>3 DEF TypeOK

LEMMA SweepType == ASSUME TypeOK, Sweep
                   PROVE  TypeOK'
  <1>. USE DEF record, launches, jobs, external, sweeping
  <1>1. CASE SweepStart
    <2>1. sweep' \in SweepState
          BY <1>1 DEF SweepStart, TypeOK, SweepState
    <2>. QED BY <1>1, <2>1 DEF SweepStart, TypeOK
  <1>2. ASSUME NEW i \in Instances, SweepVisit(i) PROVE TypeOK'
    <2>1. chain' \in [Chains -> ChainState]
      <3>1. CASE UNCHANGED chain
            BY <3>1 DEF TypeOK
      <3>2. CASE \E c \in FreeSlots : Dispatch(c, i)
            BY <3>2, DispatchType DEF FreeSlots
      <3>. QED BY <1>2, <3>1, <3>2 DEF SweepVisit
    <2>2. sweep' \in SweepState
      <3>1. CASE sweep' = [sweep EXCEPT !.todo = @ \ {i}]
            BY <3>1 DEF TypeOK, SweepState
      <3>2. ASSUME NEW c \in Chains, sweep' = [sweep EXCEPT !.at = i, !.sent = c]
            PROVE  sweep' \in SweepState
            BY <3>2 DEF TypeOK, SweepState
      <3>3. CASE sweep' = [sweep EXCEPT !.at = i]
            BY <3>3 DEF TypeOK, SweepState
      <3>. QED BY <1>2, <3>1, <3>2, <3>3 DEF SweepVisit, FreeSlots
    <2>. QED BY <1>2, <2>1, <2>2 DEF SweepVisit, TypeOK
  <1>3. CASE SweepInsert
    <2>1. IdleSweep \in SweepState
          BY DEF IdleSweep, SweepState
    <2>2. sweep' \in SweepState
      <3>. DEFINE i == sweep.at
                  mine == [sweep.mine EXCEPT ![i] = sweep.sent]
      <3>1. mine \in [Instances -> Chains \cup {NoChain}]
            BY DEF TypeOK, SweepState
      <3>2. CASE sweep' = IdleSweep
            BY <2>1, <3>2
      <3>3. CASE sweep' = [sweep EXCEPT !.todo = @ \ {i}, !.mine[i] = sweep.sent,
                                        !.at = NoInstance, !.sent = NoChain]
        <4>1. sweep' = [on |-> sweep.on, todo |-> sweep.todo \ {i}, at |-> NoInstance,
                        sent |-> NoChain, mine |-> mine]
              BY <3>3 DEF TypeOK, SweepState
        <4>. HIDE DEF mine
        <4>. QED BY <3>1, <4>1 DEF TypeOK, SweepState
      <3>. QED BY <1>3, <3>2, <3>3 DEF SweepInsert
    <2>. QED BY <1>3, <2>2 DEF SweepInsert, TypeOK
  <1>4. CASE SweepCommits
    <2>1. IdleSweep \in SweepState
          BY DEF IdleSweep, SweepState
    <2>. QED BY <1>4, <2>1 DEF SweepCommits, TypeOK, JobState, SweepState
  <1>. QED BY <1>1, <1>2, <1>3, <1>4 DEF Sweep

\* Every variable keeps its type.
THEOREM TypeCorrect == Spec => []TypeOK
  <1>1. TypeOK /\ [Next]_vars => TypeOK'
    <2>. SUFFICES ASSUME TypeOK, [Next]_vars PROVE TypeOK'
         OBVIOUS
    <2>1. CASE UNCHANGED vars
          BY <2>1 DEF TypeOK, vars, record, launches, jobs
    <2>. QED BY <2>1, ProvisioningType, HandlingType, DebitType, SweepType DEF Next
  <1>. QED BY <1>1, TypeInit, PTL DEF Spec

-----------------------------------------------------------------------------
(* The rows of provisioning_service: BillingMeters implements InstanceRecord *)

\* A handler between its read and its commit has an instance, and so has a
\* chain that is not free.
Located ==
    /\ \A s \in Subscribers : handler[s].pc # "idle" => handler[s].inst \in Instances
    /\ \A c \in Chains : chain[c].pc # "free" => chain[c].inst \in Instances

LEMMA LocatedInit == Init => Located
  BY DEF Init, Located, IdleHandler, FreeChain

\* Ending a chain or dispatching one for an instance leaves every chain located.
LEMMA ChainLocated ==
    ASSUME TypeOK, Located,
           \/ UNCHANGED chain
           \/ \E c : End(c)
           \/ \E i \in Instances, c \in Chains : Dispatch(c, i)
    PROVE  \A c \in Chains : chain'[c].pc # "free" => chain'[c].inst \in Instances
  <1>1. CASE UNCHANGED chain
        BY <1>1 DEF Located
  <1>2. ASSUME NEW c, End(c)
        PROVE  \A d \in Chains : chain'[d].pc # "free" => chain'[d].inst \in Instances
    <2>1. \A d \in Chains : chain'[d] = FreeChain \/ chain'[d] = chain[d]
          BY <1>2 DEF TypeOK, End
    <2>. QED BY <2>1 DEF Located, FreeChain
  <1>3. ASSUME NEW i \in Instances, NEW c \in Chains, Dispatch(c, i)
        PROVE  \A d \in Chains : chain'[d].pc # "free" => chain'[d].inst \in Instances
    <2>1. \A d \in Chains : chain'[d].inst = i \/ chain'[d] = chain[d]
          BY <1>3 DEF TypeOK, Dispatch
    <2>. QED BY <2>1 DEF Located
  <1>. QED BY <1>1, <1>2, <1>3

LEMMA LocatedStep == ASSUME TypeOK, Located, [Next]_vars
                     PROVE  Located'
  <1>. USE DEF Located
  <1>1. CASE UNCHANGED <<handler, chain>>
        BY <1>1
  <1>2. ASSUME NEW i \in Instances, Provisioning(i) PROVE Located'
    <2>1. UNCHANGED <<handler, chain>>
          BY <1>2
          DEF Provisioning, Launch, Started, Failing, FailCommits, FailRollsBack,
              Redelivered, FailedSilently, Terminated, Reported, Killed,
              StopRequested, StopKeyExpires, Publish, billing
    <2>. QED BY <2>1
  <1>3. ASSUME NEW s \in Subscribers, Handling(s) PROVE Located'
    <2>1. \/ UNCHANGED handler
          \/ handler' = [handler EXCEPT ![s] = IdleHandler]
          \/ \E i \in Instances, p \in {"insert", "refund"} : \E c :
                handler' = [handler EXCEPT ![s] = [pc |-> p, inst |-> i, chain |-> c]]
          BY <1>3
          DEF Handling, HandleRunning, HandleTerminated, HandleFailed, InsertJob, RefundCommit
    <2>2. \/ UNCHANGED chain
          \/ \E c : End(c)
          \/ \E i \in Instances, c \in Chains : Dispatch(c, i)
          BY <1>3
          DEF Handling, HandleRunning, HandleTerminated, HandleFailed, InsertJob, RefundCommit,
              FreeSlots
    <2>3. \A t \in Subscribers : handler'[t].pc # "idle" => handler'[t].inst \in Instances
      <3>1. CASE UNCHANGED handler
            BY <3>1
      <3>2. CASE handler' = [handler EXCEPT ![s] = IdleHandler]
            BY <3>2 DEF TypeOK, IdleHandler
      <3>3. ASSUME NEW i \in Instances, NEW p, NEW c,
                   handler' = [handler EXCEPT ![s] = [pc |-> p, inst |-> i, chain |-> c]]
            PROVE  \A t \in Subscribers : handler'[t].pc # "idle" => handler'[t].inst \in Instances
            BY <3>3 DEF TypeOK
      <3>. QED BY <2>1, <3>1, <3>2, <3>3
    <2>. QED BY <2>2, <2>3, ChainLocated
  <1>4. ASSUME NEW c \in Chains, Debit(c) \/ DebitFails(c) PROVE Located'
    <2>1. UNCHANGED handler
          BY <1>4
          DEF Debit, DebitStops, DebitReads, DebitCommits, DebitNext, DebitFails, metering
    <2>2. /\ chain[c].pc # "free"
          /\ \/ End(c)
             \/ \E p : chain' = [chain EXCEPT ![c].pc = p]
             \/ chain' = [chain EXCEPT ![c].pc = "due", ![c].recorded = FALSE]
          BY <1>4 DEF Debit, DebitStops, DebitReads, DebitCommits, DebitNext, DebitFails
    <2>3. CASE End(c)
          BY <2>1, <2>3, ChainLocated
    <2>4. CASE ~ End(c)
      <3>1. \A d \in Chains \ {c} : chain'[d] = chain[d]
            BY <2>2, <2>4 DEF TypeOK
      <3>2. chain'[c].inst = chain[c].inst
            BY <2>2, <2>4 DEF TypeOK, ChainState
      <3>. QED BY <2>1, <2>2, <3>1, <3>2
    <2>. QED BY <2>3, <2>4
  <1>5. CASE Sweep
    <2>1. UNCHANGED handler
          BY <1>5 DEF Sweep, SweepStart, SweepVisit, SweepInsert, SweepCommits, sweeping
    <2>2. UNCHANGED chain \/ \E i \in Instances, c \in Chains : Dispatch(c, i)
          BY <1>5 DEF Sweep, SweepStart, SweepVisit, SweepInsert, SweepCommits, FreeSlots
    <2>. QED BY <2>1, <2>2, ChainLocated
  <1>6. CASE UNCHANGED vars
        BY <1>1, <1>6 DEF vars
  <1>. QED BY <1>2, <1>3, <1>4, <1>5, <1>6 DEF Next

LEMMA RecordStep == ASSUME TypeOK, Located, [Next]_vars
                    PROVE  [Record!Next]_(Record!record)
  <1>. USE DEF Record!record, record
  <1>1. ASSUME NEW i \in Instances, Provisioning(i) PROVE [Record!Next]_(Record!record)
    <2>1. \/ UNCHANGED record
          \/ Record!Create(i) \/ Record!Start(i) \/ Record!Fail(i) \/ Record!Settle(i)
          \/ Record!Report(i) \/ Record!Kill(i)
          BY <1>1
          DEF Provisioning, Launch, Started, Failing, FailCommits, FailRollsBack,
              Redelivered, FailedSilently, Terminated, Reported, Killed,
              StopRequested, StopKeyExpires, Publish
    <2>. QED BY <2>1 DEF Record!Next
  <1>2. ASSUME NEW s \in Subscribers, Handling(s) PROVE [Record!Next]_(Record!record)
    <2>1. UNCHANGED record \/ \E i \in Instances : Record!Release(i)
          BY <1>2
          DEF Located, Handling, HandleRunning, HandleTerminated, HandleFailed, InsertJob,
              RefundCommit, external
    <2>. QED BY <2>1 DEF Record!Next
  <1>3. CASE (\E c \in Chains : Debit(c) \/ DebitFails(c)) \/ Sweep \/ UNCHANGED vars
        BY <1>3
        DEF Debit, DebitStops, DebitReads, DebitCommits, DebitNext, DebitFails, metering,
            Sweep, SweepStart, SweepVisit, SweepInsert, SweepCommits, sweeping, external, vars
  <1>. QED BY <1>1, <1>2, <1>3 DEF Next

\* The service changes the rows of an instance only in the ways InstanceRecord
\* allows: what InstanceLifecycle implements, and what BillingMeters observes and
\* does to the hold, are one and the same record.
THEOREM MetersImplementRecord == Spec => Record!Spec
  <1>1. Init => Record!Init
        BY DEF Init
  <1>2. TypeOK /\ Located /\ [Next]_vars => [Record!Next]_(Record!record)
        BY RecordStep
  <1>3. TypeOK /\ Located /\ [Next]_vars => Located'
        BY LocatedStep
  <1>. QED BY <1>1, <1>2, <1>3, LocatedInit, TypeCorrect, PTL DEF Spec, Record!Spec

\* A released hold stays released, and an instance that came up has come up.
LEMMA RowsOnlyAdvance ==
    ASSUME TypeOK, Located, [Next]_vars, NEW i \in Instances
    PROVE  /\ holdReleased[i] => holdReleased'[i]
           /\ ssh[i] # "none" => ssh'[i] # "none"
           /\ status'[i] = "running" => status[i] = "running" \/ ssh'[i] # "none"
  <1>. USE DEF TypeOK
  <1>1. CASE UNCHANGED Record!record
        BY <1>1 DEF Record!record
  <1>2. ASSUME NEW j \in Instances,
               \/ Record!Create(j) \/ Record!Fail(j) \/ Record!Report(j) \/ Record!Kill(j)
               \/ Record!Release(j)
        PROVE  /\ holdReleased[i] => holdReleased'[i]
               /\ ssh[i] # "none" => ssh'[i] # "none"
               /\ status'[i] = "running" => status[i] = "running"
        BY <1>2 DEF Record!Create, Record!Fail, Record!Report, Record!Kill, Record!Release
  <1>3. ASSUME NEW j \in Instances, Record!Start(j)
        PROVE  /\ holdReleased[i] => holdReleased'[i]
               /\ ssh[i] # "none" => ssh'[i] # "none"
               /\ status'[i] = "running" => status[i] = "running" \/ ssh'[i] # "none"
        BY <1>3 DEF Record!Start
  <1>4. ASSUME NEW j \in Instances, Record!Settle(j)
        PROVE  /\ holdReleased[i] => holdReleased'[i]
               /\ ssh[i] # "none" => ssh'[i] # "none"
               /\ status'[i] = "running" => status[i] = "running"
        BY <1>4 DEF Record!Settle
  <1>. QED BY <1>1, <1>2, <1>3, <1>4, RecordStep DEF Record!Next

-----------------------------------------------------------------------------
(* What is owed and what is on the bus *)

OnBus(b, s, k, i) == \E n \in 1..Len(b[s]) : b[s][n] = [kind |-> k, inst |-> i]

\* An event joins what a worker owes when the worker commits, and the bus from
\* what is owed.
LEMMA OwedStep ==
    ASSUME TypeOK, [Next]_vars, NEW i \in Instances, NEW k \in owed'[i]
    PROVE  \/ k \in owed[i]
           \/ k = "running" /\ Record!Start(i)
           \/ k = "terminated" /\ Record!Settle(i)
           \/ k = "failed"
  <1>1. ASSUME NEW j \in Instances, Provisioning(j), ~ (\E e \in EventKind : Publish(j, e))
        PROVE  \/ UNCHANGED owed
               \/ owed' = [owed EXCEPT ![j] = @ \cup {"running"}] /\ Record!Start(j)
               \/ owed' = [owed EXCEPT ![j] = @ \cup {"terminated"}] /\ Record!Settle(j)
               \/ owed' = [owed EXCEPT ![j] = @ \cup {"failed"}]
               \/ owed' = [owed EXCEPT ![j] = @ \ {"failed"}]
        BY <1>1
        DEF Provisioning, Launch, Started, Failing, FailCommits, FailRollsBack,
            Redelivered, FailedSilently, Terminated, Reported, Killed,
            StopRequested, StopKeyExpires, launches
  <1>2. ASSUME NEW j \in Instances, NEW e, Publish(j, e)
        PROVE  owed'[i] \subseteq owed[i]
        BY <1>2 DEF TypeOK, Publish
  <1>3. CASE \/ \E s \in Subscribers : Handling(s)
             \/ \E c \in Chains : Debit(c) \/ DebitFails(c)
             \/ Sweep \/ UNCHANGED vars
    <2>1. UNCHANGED owed
          BY <1>3
          DEF Handling, HandleRunning, HandleTerminated, HandleFailed, InsertJob, RefundCommit,
              Debit, DebitStops, DebitReads, DebitCommits, DebitNext, DebitFails, metering,
              Sweep, SweepStart, SweepVisit, SweepInsert, SweepCommits, sweeping, external,
              launches, vars
    <2>. QED BY <2>1
  <1>4. ASSUME NEW j \in Instances, Provisioning(j), ~ (\E e \in EventKind : Publish(j, e))
        PROVE  \/ k \in owed[i]
               \/ k = "running" /\ Record!Start(i)
               \/ k = "terminated" /\ Record!Settle(i)
               \/ k = "failed"
    <2>1. ASSUME NEW S, owed' = [owed EXCEPT ![j] = S]
          PROVE  owed'[i] = owed[i] \/ (i = j /\ owed'[i] = S)
          BY <2>1 DEF TypeOK
    <2>2. CASE UNCHANGED owed
          BY <2>2
    <2>3. CASE owed' = [owed EXCEPT ![j] = @ \cup {"running"}] /\ Record!Start(j)
          BY <2>1, <2>3
    <2>4. CASE owed' = [owed EXCEPT ![j] = @ \cup {"terminated"}] /\ Record!Settle(j)
          BY <2>1, <2>4
    <2>5. CASE owed' = [owed EXCEPT ![j] = @ \cup {"failed"}]
          BY <2>1, <2>5
    <2>6. CASE owed' = [owed EXCEPT ![j] = @ \ {"failed"}]
          BY <2>1, <2>6
    <2>. QED BY <1>1, <1>4, <2>2, <2>3, <2>4, <2>5, <2>6
  <1>. QED BY <1>2, <1>3, <1>4 DEF Next

LEMMA BusStep ==
    ASSUME TypeOK, [Next]_vars, NEW s \in Subscribers, NEW i \in Instances, NEW k,
           OnBus(bus', s, k, i)
    PROVE  OnBus(bus, s, k, i) \/ k \in owed[i]
  <1>1. CASE UNCHANGED bus
        BY <1>1 DEF OnBus
  <1>2. ASSUME NEW j \in Instances, NEW e, Publish(j, e)
        PROVE  OnBus(bus, s, k, i) \/ k \in owed[i]
    <2>1. bus'[s] = bus[s] \/ bus'[s] = Append(bus[s], [kind |-> e, inst |-> j])
          BY <1>2 DEF Publish
    <2>2. CASE bus'[s] = bus[s]
          BY <2>2 DEF OnBus
    <2>3. CASE bus'[s] = Append(bus[s], [kind |-> e, inst |-> j])
      <3>1. PICK n \in 1..Len(bus'[s]) : bus'[s][n] = [kind |-> k, inst |-> i]
            BY DEF OnBus
      <3>2. bus[s] \in Seq(Event)
            BY DEF TypeOK
      <3>3. CASE n <= Len(bus[s])
            BY <2>3, <3>1, <3>2, <3>3 DEF OnBus
      <3>4. CASE n = Len(bus[s]) + 1
        <4>1. [kind |-> e, inst |-> j] = [kind |-> k, inst |-> i]
              BY <2>3, <3>1, <3>2, <3>4
        <4>. QED BY <1>2, <4>1 DEF Publish
      <3>. QED BY <2>3, <3>1, <3>2, <3>3, <3>4
    <2>. QED BY <2>1, <2>2, <2>3
  <1>3. ASSUME NEW t \in Subscribers, NEW e, NEW j, Takes(t, e, j)
        PROVE  OnBus(bus, s, k, i)
    <2>1. CASE s = t
      <3>1. bus[s] \in Seq(Event) /\ bus[s] # <<>> /\ bus'[s] = Tail(bus[s])
            BY <1>3, <2>1 DEF TypeOK, Takes
      <3>2. PICK n \in 1..Len(bus'[s]) : bus'[s][n] = [kind |-> k, inst |-> i]
            BY DEF OnBus
      <3>3. n + 1 \in 1..Len(bus[s]) /\ bus[s][n + 1] = bus'[s][n]
            BY <3>1, <3>2
      <3>. QED BY <3>2, <3>3 DEF OnBus
    <2>2. CASE s # t
          BY <1>3, <2>2 DEF TypeOK, Takes, OnBus
    <2>. QED BY <2>1, <2>2
  <1>4. CASE \E j \in Instances : Provisioning(j)
    <2>1. UNCHANGED bus \/ \E j \in Instances, e \in EventKind : Publish(j, e)
          BY <1>4
          DEF Provisioning, Launch, Started, Failing, FailCommits, FailRollsBack,
              Redelivered, FailedSilently, Terminated, Reported, Killed,
              StopRequested, StopKeyExpires
    <2>. QED BY <1>1, <1>2, <2>1
  <1>5. CASE \E t \in Subscribers : Handling(t)
    <2>1. UNCHANGED bus \/ \E t \in Subscribers : \E e, j : Takes(t, e, j)
          BY <1>5
          DEF Handling, HandleRunning, HandleTerminated, HandleFailed, InsertJob, RefundCommit
    <2>. QED BY <1>1, <1>3, <2>1
  <1>6. CASE (\E c \in Chains : Debit(c) \/ DebitFails(c)) \/ Sweep \/ UNCHANGED vars
    <2>1. UNCHANGED bus
          BY <1>6
          DEF Debit, DebitStops, DebitReads, DebitCommits, DebitNext, DebitFails, metering,
              Sweep, SweepStart, SweepVisit, SweepInsert, SweepCommits, sweeping, vars
    <2>. QED BY <1>1, <2>1
  <1>. QED BY <1>4, <1>5, <1>6 DEF Next

\* INSTANCE_TERMINATED reaches the bus only after its hold was released.
LEMMA TerminatedIsLate == Spec => []TerminatedEventIsLate
  <1>. DEFINE IInv == TypeOK /\ Located /\ TerminatedEventIsLate
  <1>1. Init => IInv
    <2>1. Init => TerminatedEventIsLate
          BY DEF Init, TerminatedEventIsLate
    <2>. QED BY <2>1, TypeInit, LocatedInit
  <1>2. TypeOK /\ Located /\ TerminatedEventIsLate /\ [Next]_vars => TerminatedEventIsLate'
    <2>. SUFFICES ASSUME TypeOK, Located, TerminatedEventIsLate, [Next]_vars,
                         NEW i \in Instances, ~ holdReleased'[i]
                  PROVE  /\ "terminated" \notin owed'[i]
                         /\ \A s \in Subscribers : ~ OnBus(bus', s, "terminated", i)
         BY DEF TerminatedEventIsLate, OnBus
    <2>1. ~ holdReleased[i]
          BY RowsOnlyAdvance
    <2>2. /\ "terminated" \notin owed[i]
          /\ \A s \in Subscribers : ~ OnBus(bus, s, "terminated", i)
          BY <2>1 DEF TerminatedEventIsLate, OnBus
    <2>3. ~ Record!Settle(i)
          BY DEF TypeOK, Record!Settle
    <2>. QED BY <2>2, <2>3, OwedStep, BusStep
  <1>. QED BY <1>1, <1>2, LocatedStep, TypeCorrect, PTL DEF Spec

-----------------------------------------------------------------------------
(* Only an instance that came up is metered *)

\* A chain is dispatched for an event on the bus or an instance of the sweep.
LEMMA ChainStep ==
    ASSUME TypeOK, [Next]_vars, NEW c \in Chains, chain'[c].pc # "free"
    PROVE  \/ chain[c].pc # "free" /\ chain'[c].inst = chain[c].inst
           \/ chain'[c].inst \in sweep.todo
           \/ \E s \in Subscribers : OnBus(bus, s, "running", chain'[c].inst)
  <1>1. CASE UNCHANGED chain
        BY <1>1
  <1>2. ASSUME NEW d, End(d)
        PROVE  chain[c].pc # "free" /\ chain'[c].inst = chain[c].inst
        BY <1>2 DEF TypeOK, End, FreeChain
  <1>3. ASSUME NEW d \in Chains, NEW i, Dispatch(d, i)
        PROVE  \/ chain[c].pc # "free" /\ chain'[c].inst = chain[c].inst
               \/ chain'[c].inst = i
        BY <1>3 DEF TypeOK, Dispatch
  <1>4. CASE \E s \in Subscribers : Handling(s)
    <2>1. \/ UNCHANGED chain
          \/ \E d : End(d)
          \/ \E s \in Subscribers, i \in Instances, d \in Chains :
                Takes(s, "running", i) /\ Dispatch(d, i)
          BY <1>4
          DEF Handling, HandleRunning, HandleTerminated, HandleFailed, InsertJob, RefundCommit,
              FreeSlots
    <2>2. ASSUME NEW s \in Subscribers, NEW i, Takes(s, "running", i)
          PROVE  OnBus(bus, s, "running", i)
      <3>1. bus[s] \in Seq(Event) /\ bus[s] # <<>> /\ Head(bus[s]) = [kind |-> "running", inst |-> i]
            BY <2>2 DEF TypeOK, Takes
      <3>2. 1 \in 1..Len(bus[s]) /\ bus[s][1] = Head(bus[s])
            BY <3>1
      <3>. QED BY <3>1, <3>2 DEF OnBus
    <2>. QED BY <1>1, <1>2, <1>3, <2>1, <2>2
  <1>5. ASSUME NEW d \in Chains, Debit(d) \/ DebitFails(d)
        PROVE  chain[c].pc # "free" /\ chain'[c].inst = chain[c].inst
    <2>1. /\ chain[d].pc # "free"
          /\ \/ End(d)
             \/ \E p : chain' = [chain EXCEPT ![d].pc = p]
             \/ chain' = [chain EXCEPT ![d].pc = "due", ![d].recorded = FALSE]
          BY <1>5 DEF Debit, DebitStops, DebitReads, DebitCommits, DebitNext, DebitFails
    <2>2. CASE End(d)
          BY <1>2, <2>2
    <2>3. CASE ~ End(d)
      <3>1. \A e \in Chains \ {d} : chain'[e] = chain[e]
            BY <2>1, <2>3 DEF TypeOK
      <3>2. chain'[d].inst = chain[d].inst
            BY <2>1, <2>3 DEF TypeOK, ChainState
      <3>. QED BY <2>1, <3>1, <3>2
    <2>. QED BY <2>2, <2>3
  <1>6. CASE Sweep
    <2>1. UNCHANGED chain \/ \E i \in sweep.todo, d \in Chains : Dispatch(d, i)
          BY <1>6 DEF Sweep, SweepStart, SweepVisit, SweepInsert, SweepCommits, FreeSlots
    <2>. QED BY <1>1, <1>3, <2>1
  <1>7. CASE (\E i \in Instances : Provisioning(i)) \/ UNCHANGED vars
    <2>1. UNCHANGED chain
          BY <1>7
          DEF Provisioning, Launch, Started, Failing, FailCommits, FailRollsBack,
              Redelivered, FailedSilently, Terminated, Reported, Killed,
              StopRequested, StopKeyExpires, Publish, billing, vars
    <2>. QED BY <1>1, <2>1
  <1>. QED BY <1>4, <1>5, <1>6, <1>7 DEF Next

\* A sweep visits the instances that ran when it began.
LEMMA TodoStep ==
    ASSUME TypeOK, [Next]_vars, NEW i \in sweep'.todo
    PROVE  i \in sweep.todo \/ (i \in Instances /\ status[i] = "running")
  <1>1. CASE Sweep
    <2>1. \/ sweep' = [sweep EXCEPT !.on = TRUE,
                                    !.todo = {j \in Instances : status[j] = "running"}]
          \/ \E j : sweep' = [sweep EXCEPT !.todo = @ \ {j}]
          \/ \E j, c : sweep' = [sweep EXCEPT !.at = j, !.sent = c]
          \/ \E j : sweep' = [sweep EXCEPT !.at = j]
          \/ \E j : sweep' = [sweep EXCEPT !.todo = @ \ {j}, !.mine[j] = sweep.sent,
                                           !.at = NoInstance, !.sent = NoChain]
          \/ sweep' = IdleSweep
          BY <1>1 DEF Sweep, SweepStart, SweepVisit, SweepInsert, SweepCommits
    <2>2. \/ sweep'.todo = {j \in Instances : status[j] = "running"}
          \/ sweep'.todo \subseteq sweep.todo
      <3>. USE DEF TypeOK, SweepState
      <3>1. CASE sweep' = [sweep EXCEPT !.on = TRUE,
                                        !.todo = {j \in Instances : status[j] = "running"}]
            BY <3>1
      <3>2. ASSUME NEW j, sweep' = [sweep EXCEPT !.todo = @ \ {j}]
            PROVE  sweep'.todo \subseteq sweep.todo
            BY <3>2
      <3>3. ASSUME NEW j, NEW c, \/ sweep' = [sweep EXCEPT !.at = j, !.sent = c]
                                 \/ sweep' = [sweep EXCEPT !.at = j]
            PROVE  sweep'.todo \subseteq sweep.todo
            BY <3>3
      <3>4. ASSUME NEW j, sweep' = [sweep EXCEPT !.todo = @ \ {j}, !.mine[j] = sweep.sent,
                                           !.at = NoInstance, !.sent = NoChain]
            PROVE  sweep'.todo \subseteq sweep.todo
            BY <3>4
      <3>5. CASE sweep' = IdleSweep
            BY <3>5 DEF IdleSweep
      <3>. QED BY <2>1, <3>1, <3>2, <3>3, <3>4, <3>5
    <2>. QED BY <2>2
  <1>2. CASE ~ Sweep
    <2>1. UNCHANGED sweep
          BY <1>2
          DEF Next, Provisioning, Launch, Started, Failing, FailCommits, FailRollsBack,
              Redelivered, FailedSilently, Terminated, Reported, Killed,
              StopRequested, StopKeyExpires, Publish, billing, vars,
              Handling, HandleRunning, HandleTerminated, HandleFailed, InsertJob, RefundCommit,
              Debit, DebitStops, DebitReads, DebitCommits, DebitNext, DebitFails, metering
    <2>. QED BY <2>1
  <1>. QED BY <1>1, <1>2

\* What leads to a meter, from the start of an instance on: its row, the event
\* that is owed or under way, the sweep that visits it.
CameUp ==
    /\ \A i \in Instances :
          /\ status[i] = "running" => ssh[i] # "none"
          /\ "running" \in owed[i] => ssh[i] # "none"
          /\ i \in sweep.todo => ssh[i] # "none"
          /\ \A s \in Subscribers : OnBus(bus, s, "running", i) => ssh[i] # "none"
    /\ MeteredHasRun

LEMMA CameUpStep == ASSUME TypeOK, Located, CameUp, [Next]_vars
                    PROVE  CameUp'
  <1>1. Located'
        BY LocatedStep
  <1>2. ASSUME NEW i \in Instances
        PROVE  /\ status'[i] = "running" => ssh'[i] # "none"
               /\ "running" \in owed'[i] => ssh'[i] # "none"
               /\ i \in sweep'.todo => ssh'[i] # "none"
               /\ \A s \in Subscribers : OnBus(bus', s, "running", i) => ssh'[i] # "none"
    <2>1. ssh[i] # "none" => ssh'[i] # "none"
          BY RowsOnlyAdvance
    <2>2. status'[i] = "running" => ssh'[i] # "none"
          BY <2>1, RowsOnlyAdvance DEF CameUp
    <2>3. Record!Start(i) => ssh'[i] # "none"
          BY DEF TypeOK, Record!Start
    <2>4. "running" \in owed'[i] => ssh'[i] # "none"
          BY <2>1, <2>3, OwedStep DEF CameUp
    <2>5. i \in sweep'.todo => ssh'[i] # "none"
          BY <2>1, TodoStep DEF CameUp
    <2>6. \A s \in Subscribers : OnBus(bus', s, "running", i) => ssh'[i] # "none"
          BY <2>1, BusStep DEF CameUp
    <2>. QED BY <2>2, <2>4, <2>5, <2>6
  <1>3. ASSUME NEW c \in Chains, chain'[c].pc # "free"
        PROVE  ssh'[chain'[c].inst] # "none"
    <2>1. chain'[c].inst \in Instances
          BY <1>1, <1>3 DEF Located
    <2>2. ssh[chain'[c].inst] # "none"
          BY <1>3, <2>1, ChainStep DEF CameUp, MeteredHasRun
    <2>. QED BY <2>1, <2>2, RowsOnlyAdvance
  <1>. QED BY <1>2, <1>3 DEF CameUp, MeteredHasRun, OnBus

\* Only an instance that came up has a meter.
THEOREM MetersHaveRun == Spec => []MeteredHasRun
  <1>1. Init => CameUp
        BY DEF Init, Record!Init, CameUp, MeteredHasRun, OnBus, IdleSweep, FreeChain
  <1>2. CameUp => MeteredHasRun
        BY DEF CameUp
  <1>. QED BY <1>1, <1>2, CameUpStep, LocatedInit, LocatedStep, TypeCorrect, PTL DEF Spec

-----------------------------------------------------------------------------
(* A job row is final *)

\* A row the sweep has inserted and not committed is the first of its instance.
InsertsAreFirst == \A i \in Instances : sweep.mine[i] # NoChain => job[i] = "none"

LEMMA JobStep ==
    ASSUME TypeOK, InsertsAreFirst, [Next]_vars, NEW i \in Instances
    PROVE  /\ sweep'.mine[i] # NoChain => job'[i] = "none"
           /\ job[i] = "stopped" => job'[i] = "stopped"
           /\ job[i] # "none" => job'[i] # "none" /\ jobChain'[i] = jobChain[i]
  <1>. USE DEF InsertsAreFirst
  <1>1. CASE UNCHANGED <<jobs, sweep>>
        BY <1>1 DEF jobs
  <1>2. CASE \E j \in Instances : Provisioning(j)
    <2>1. UNCHANGED <<jobs, sweep>>
          BY <1>2
          DEF Provisioning, Launch, Started, Failing, FailCommits, FailRollsBack,
              Redelivered, FailedSilently, Terminated, Reported, Killed,
              StopRequested, StopKeyExpires, Publish, billing
    <2>. QED BY <1>1, <2>1
  <1>3. ASSUME NEW s \in Subscribers, Handling(s)
        PROVE  /\ sweep'.mine[i] # NoChain => job'[i] = "none"
               /\ job[i] = "stopped" => job'[i] = "stopped"
               /\ job[i] # "none" => job'[i] # "none" /\ jobChain'[i] = jobChain[i]
    <2>1. CASE UNCHANGED <<jobs, sweep>>
          BY <1>1, <2>1
    <2>2. CASE InsertJob(s)
          BY <2>2 DEF InsertJob, TypeOK, jobs
    <2>3. ASSUME NEW j \in Instances, HandleTerminated(s, j)
          PROVE  /\ UNCHANGED <<jobChain, sweep>>
                 /\ UNCHANGED job \/ (job[j] = "active" /\ job' = [job EXCEPT ![j] = "stopped"])
          BY <2>3 DEF HandleTerminated
    <2>4. CASE \E j \in Instances : HandleTerminated(s, j)
          BY ZenonT(40), <2>3, <2>4 DEF TypeOK
    <2>. QED BY <1>3, <2>1, <2>2, <2>4
             DEF Handling, HandleRunning, HandleFailed, RefundCommit
  <1>4. CASE \E c \in Chains : Debit(c) \/ DebitFails(c)
    <2>1. UNCHANGED <<jobs, sweep>>
          BY <1>4
          DEF Debit, DebitStops, DebitReads, DebitCommits, DebitNext, DebitFails, metering
    <2>. QED BY <1>1, <2>1
  <1>5. CASE SweepStart
    <2>1. UNCHANGED jobs /\ sweep'.mine = sweep.mine
          BY <1>5 DEF SweepStart, TypeOK, SweepState
    <2>. QED BY <2>1 DEF jobs
  <1>6. ASSUME NEW j \in Instances, SweepVisit(j)
        PROVE  UNCHANGED jobs /\ sweep'.mine = sweep.mine
        BY <1>6 DEF SweepVisit, TypeOK, SweepState
  <1>7. CASE SweepInsert
    <2>1. UNCHANGED jobs
          BY <1>7 DEF SweepInsert
    <2>2. sweep'.mine[i] # NoChain => sweep.mine[i] # NoChain \/ job[i] = "none"
          BY <1>7 DEF SweepInsert, TypeOK, SweepState, IdleSweep
    <2>. QED BY <2>1, <2>2 DEF jobs
  <1>8. CASE SweepCommits
        BY <1>8 DEF SweepCommits, TypeOK, SweepState, IdleSweep
  <1>9. CASE UNCHANGED vars
        BY <1>1, <1>9 DEF vars
  <1>. QED BY <1>2, <1>3, <1>4, <1>5, <1>6, <1>7, <1>8, <1>9 DEF Next, Sweep, jobs

\* A stopped job is never revived and the task id of a row never replaced.
THEOREM JobRowsAreFinal == Spec => JobRowIsFinal
  <1>. DEFINE Final == \A i \in Instances :
                  /\ job[i] = "stopped" => job'[i] = "stopped"
                  /\ job[i] # "none" => job'[i] # "none" /\ jobChain'[i] = jobChain[i]
  <1>1. Init => InsertsAreFirst
        BY DEF Init, InsertsAreFirst, IdleSweep
  <1>2. TypeOK /\ InsertsAreFirst /\ [Next]_vars => InsertsAreFirst'
        BY JobStep DEF InsertsAreFirst
  <1>3. TypeOK /\ InsertsAreFirst /\ [Next]_vars => [Final]_vars
        BY JobStep
  <1>. QED BY <1>1, <1>2, <1>3, TypeCorrect, PTL DEF Spec, JobRowIsFinal

-----------------------------------------------------------------------------
(* A replica refunds a hold at most once, and together with others only *)

Refunding(s, i) == handler[s].pc = "refund" /\ handler[s].inst = i

\* A replica that is at a refund has made none of this hold, one that has made it
\* has made one, and a refund that is committed has released the hold.
Refunded ==
    \A i \in Instances, s \in Subscribers :
        /\ Refunding(s, i) => refunds[i][s] = 0
        /\ refunds[i][s] <= 1
        /\ refunds[i][s] > 0 => holdReleased[i]

\* What a step may do to the refunds of i by s: nothing, decide upon one while the
\* hold is not released, or make the one it was at.
RefundMove(i, s) ==
    \/ /\ refunds'[i][s] = refunds[i][s]
       /\ Refunding(s, i)' => Refunding(s, i)
    \/ ~ holdReleased[i] /\ UNCHANGED refunds
    \/ /\ Refunding(s, i) /\ ~ Refunding(s, i)'
       /\ refunds'[i][s] = refunds[i][s] + 1 /\ holdReleased'[i]

LEMMA RefundStep ==
    ASSUME TypeOK, Located, TerminatedEventIsLate, [Next]_vars, NEW i \in Instances,
           NEW s \in Subscribers
    PROVE  RefundMove(i, s)
  <1>. USE DEF RefundMove, Refunding
  <1>1. CASE \/ \E j \in Instances : Provisioning(j)
             \/ \E c \in Chains : Debit(c) \/ DebitFails(c)
             \/ Sweep \/ UNCHANGED vars
    <2>1. UNCHANGED <<handler, refunds>>
          BY <1>1
          DEF Provisioning, Launch, Started, Failing, FailCommits, FailRollsBack,
              Redelivered, FailedSilently, Terminated, Reported, Killed,
              StopRequested, StopKeyExpires, Publish, billing, vars,
              Debit, DebitStops, DebitReads, DebitCommits, DebitNext, DebitFails, metering,
              Sweep, SweepStart, SweepVisit, SweepInsert, SweepCommits, sweeping
    <2>. QED BY <2>1
  <1>2. ASSUME NEW r \in Subscribers, NEW j \in Instances, HandleRunning(r, j)
        PROVE  RefundMove(i, s)
    <2>1. UNCHANGED refunds
          BY <1>2 DEF HandleRunning
    <2>2. CASE UNCHANGED handler
          BY <2>1, <2>2
    <2>3. ASSUME NEW c, handler' = [handler EXCEPT ![r] =
                                      [pc |-> "insert", inst |-> j, chain |-> c]]
          PROVE  RefundMove(i, s)
      <3>1. handler'[s] = handler[s] \/ handler'[s].pc = "insert"
            BY <2>3 DEF TypeOK
      <3>. QED BY <2>1, <3>1
    <2>. QED BY <1>2, <2>2, <2>3 DEF HandleRunning
  <1>3. ASSUME NEW r \in Subscribers, NEW j \in Instances, HandleTerminated(r, j)
        PROVE  RefundMove(i, s)
    <2>1. OnBus(bus, r, "terminated", j)
      <3>1. bus[r] \in Seq(Event) /\ bus[r] # <<>> /\ Head(bus[r]) = [kind |-> "terminated", inst |-> j]
            BY <1>3 DEF TypeOK, HandleTerminated, Takes
      <3>2. 1 \in 1..Len(bus[r]) /\ bus[r][1] = Head(bus[r])
            BY <3>1
      <3>. QED BY <3>1, <3>2 DEF OnBus
    <2>2. holdReleased[j]
          BY <2>1 DEF TerminatedEventIsLate, OnBus
    <2>3. UNCHANGED <<handler, refunds>>
          BY <1>3, <2>2 DEF HandleTerminated
    <2>. QED BY <2>3
  <1>4. ASSUME NEW r \in Subscribers, NEW j \in Instances, HandleFailed(r, j)
        PROVE  RefundMove(i, s)
    <2>1. UNCHANGED refunds
          BY <1>4 DEF HandleFailed
    <2>2. CASE holdReleased[j]
      <3>1. UNCHANGED handler
            BY <1>4, <2>2 DEF HandleFailed
      <3>. QED BY <2>1, <3>1
    <2>3. CASE ~ holdReleased[j] /\ j = i
          BY <2>1, <2>3
    <2>4. CASE ~ holdReleased[j] /\ j # i
      <3>1. handler' = [handler EXCEPT ![r] = [pc |-> "refund", inst |-> j,
                                               chain |-> NoChain]]
            BY <1>4, <2>4 DEF HandleFailed
      <3>2. handler'[s] = handler[s] \/ handler'[s].inst = j
            BY <3>1 DEF TypeOK
      <3>. QED BY <2>1, <2>4, <3>2
    <2>. QED BY <2>2, <2>3, <2>4
  <1>5. ASSUME NEW r \in Subscribers, InsertJob(r)
        PROVE  RefundMove(i, s)
    <2>1. UNCHANGED refunds
          BY <1>5 DEF InsertJob
    <2>2. handler'[s] = handler[s] \/ handler'[s] = IdleHandler
          BY <1>5 DEF TypeOK, InsertJob
    <2>. QED BY <2>1, <2>2 DEF IdleHandler
  <1>6. ASSUME NEW r \in Subscribers, RefundCommit(r)
        PROVE  RefundMove(i, s)
    <2>. DEFINE j == handler[r].inst
    <2>1. /\ handler[r].pc = "refund" /\ j \in Instances
          /\ refunds' = [refunds EXCEPT ![j][r] = @ + 1]
          /\ handler' = [handler EXCEPT ![r] = IdleHandler]
          /\ holdReleased' = [holdReleased EXCEPT ![j] = TRUE]
          BY <1>6 DEF RefundCommit, Record!Release, Located
    <2>2. CASE r = s /\ j = i
      <3>1. handler'[s] = IdleHandler
            BY <2>1, <2>2 DEF TypeOK
      <3>2. refunds'[i][s] = refunds[i][s] + 1 /\ holdReleased'[i]
            BY <2>1, <2>2 DEF TypeOK
      <3>. QED BY <2>1, <2>2, <3>1, <3>2 DEF IdleHandler
    <2>3. CASE ~ (r = s /\ j = i)
      <3>1. refunds'[i][s] = refunds[i][s]
            BY <2>1, <2>3 DEF TypeOK
      <3>2. handler'[s] = handler[s] \/ handler'[s] = IdleHandler
            BY <2>1 DEF TypeOK
      <3>. QED BY <3>1, <3>2 DEF IdleHandler
    <2>. QED BY <2>2, <2>3
  <1>. QED BY <1>1, <1>2, <1>3, <1>4, <1>5, <1>6 DEF Next, Handling

LEMMA RefundedInit == Init => Refunded
  BY DEF Init, Refunded, Refunding, IdleHandler

LEMMA RefundedStep ==
    ASSUME TypeOK, TypeOK', Located, TerminatedEventIsLate, Refunded, [Next]_vars
    PROVE  Refunded'
  <1>. SUFFICES ASSUME NEW i \in Instances, NEW s \in Subscribers
                PROVE  /\ Refunding(s, i)' => refunds'[i][s] = 0
                       /\ refunds'[i][s] <= 1
                       /\ refunds'[i][s] > 0 => holdReleased'[i]
       BY DEF Refunded
  <1>1. /\ Refunding(s, i) => refunds[i][s] = 0
        /\ refunds[i][s] <= 1
        /\ refunds[i][s] > 0 => holdReleased[i]
        BY DEF Refunded
  <1>2. refunds[i][s] \in Nat /\ refunds'[i][s] \in Nat
        BY DEF TypeOK
  <1>3. holdReleased[i] => holdReleased'[i]
        BY RowsOnlyAdvance
  <1>4. RefundMove(i, s)
        BY RefundStep
  <1>. QED BY <1>1, <1>2, <1>3, <1>4 DEF RefundMove

\* A step that begins a refund finds the hold unreleased, so none was committed.
LEMMA RefundBegins ==
    ASSUME TypeOK, Located, TerminatedEventIsLate, Refunded, [Next]_vars,
           NEW i \in Instances, NEW s \in Subscribers,
           handler[s].pc = "idle", Refunding(s, i)'
    PROVE  \A r \in Subscribers : refunds[i][r] = 0
  <1>1. \A r \in Subscribers : refunds[i][r] \in Nat
                               /\ (refunds[i][r] > 0 => holdReleased[i])
        BY DEF TypeOK, Refunded
  <1>2. ~ holdReleased[i]
        BY RefundStep DEF RefundMove, Refunding
  <1>. QED BY <1>1, <1>2

\* Whatever is lost, repeated or late and however many replicas handle the events,
\* each refunds a hold at most once, and one begins only while none has committed.
THEOREM HoldRefundsOverlap == Spec => RefundsOverlap
  <1>. DEFINE Overlap == \A i \in Instances, s \in Subscribers :
          /\ refunds'[i][s] <= 1
          /\ handler[s].pc = "idle" /\ handler'[s].pc = "refund"
             /\ handler'[s].inst = i => \A r \in Subscribers : refunds[i][r] = 0
  <1>1. TypeOK /\ TypeOK' /\ Located /\ TerminatedEventIsLate /\ Refunded /\ [Next]_vars
            => Refunded'
        BY RefundedStep
  <1>2. TypeOK /\ TypeOK' /\ Located /\ TerminatedEventIsLate /\ Refunded /\ [Next]_vars
            => [Overlap]_vars
    <2>. SUFFICES ASSUME TypeOK, TypeOK', Located, TerminatedEventIsLate, Refunded,
                         [Next]_vars, NEW i \in Instances, NEW s \in Subscribers
                  PROVE  /\ refunds'[i][s] <= 1
                         /\ handler[s].pc = "idle" /\ handler'[s].pc = "refund"
                            /\ handler'[s].inst = i
                              => \A r \in Subscribers : refunds[i][r] = 0
         OBVIOUS
    <2>1. refunds'[i][s] <= 1
          BY RefundedStep DEF Refunded
    <2>2. ASSUME handler[s].pc = "idle", handler'[s].pc = "refund", handler'[s].inst = i
          PROVE  \A r \in Subscribers : refunds[i][r] = 0
          BY <2>2, RefundBegins DEF Refunding
    <2>. QED BY <2>1, <2>2
  <1>3. TypeOK /\ Located /\ [Next]_vars => Located'
        BY LocatedStep
  <1>. QED BY <1>1, <1>2, <1>3, LocatedInit, RefundedInit, TypeCorrect, TerminatedIsLate,
              PTL DEF Spec, RefundsOverlap
=============================================================================
