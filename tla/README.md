# Kynetic: a TLA+ model of the compute marketplace

Kynetic rents GPU machines of private hosts to developers. The backend is a set of Python services (FastAPI for requests,
Celery for background tasks, PostgreSQL for state, Redis for flags and events); Go and Python agents run on the hosts. This
directory models the services' control: which state each operation reads, what it writes from what it has read, where it commits,
and what happens when operations overlap, messages are lost or repeated, and processes die. Paths below are relative to
`src/kynetic-ai/backend/`.

## The modules

| module | what it is |
| --- | --- |
| `InstanceLifecycle` | `services/provisioning_service`: routes, Celery tasks, agent callback, billing flags, kill switch |
| `InstanceRecord` | the abstract specification: the ways the committed rows of an instance may change |
| `InstanceLifecycleProofs` | TLAPS proofs about `InstanceLifecycle`, among them that it implements `InstanceRecord` |
| `BillingMeters` | `services/wallet_billing_service`: event loops, debit chains, sweep, composed with `InstanceRecord` |
| `WalletLedger`, `FinanceLedger`, `UsageCounters` | the wallet, the double-entry ledger with payouts, the counted seconds |
| `InvoiceNumbers`, `GaplessSeries` | invoices, and the abstract specification their numbers implement |
| `Notifications` | the dispatch task, the inbox, preferences |
| `AuthTokens`, `DeviceLogin`, `AdminControls` | refresh tokens; device grant and one-time codes; quorum, elevation, nonces |
| `ApiGateway`, `GatewayTunnels` | rate limiter and proxy; WebSocket tunnels of hosts |
| `HostVetting`, `LaunchGate` | what a host, and what a launch, has to pass |
| `ListingRanker`, `CopilotTurns` | the router's ranking; conversations with the copilot |
| `HostFleet`, `MarketIndex` | hosts, heartbeats and sweep; listings and their two indexes |
| `AgentCommands`, `AgentStorage`, `AgentUpdate` | commands to an agent; its volumes and state file; its self-update |
| `ReputationLog`, `BenchmarkScores`, `GpuAnalytics`, `PricingModel` | what is known of hosts, GPU models and prices |
| `AuditChain`, `DeviceFingerprints`, `SecurityVerdicts`, `TemplateRegistry` | the audit log; devices; verdicts; one-click templates and web UI tokens |
| `ConsensusGuard`, `HostStakes` | the vote counter, the collateral of `libs/federated_cryptoecon` |
| `MCInstanceLifecycle`, `MCBillingMeters` | symmetry and views for TLC |
| `MCMoney`, `MCAccess`, `MCEstate`, `MCTrust` | instances of the other components, one scene at a time |
| `SumLemmas` | lemmas that several proofs need: sums over finite sets, quotients, greatest and least elements |
| `BillingMetersProofs` | proofs about `BillingMeters`, among them that its rows are those of `InstanceRecord` |
| `MoneyProofs`, `AccessProofs`, `EstateProofs`, `TrustProofs` | proofs about the components of each scene, then about the scenes |

Composition. `BillingMeters` uses the actions of `InstanceRecord` as its provisioning service, and `InstanceLifecycle` is shown
(checked by TLC and proved by TLAPS) to implement `InstanceRecord`: what the billing model assumes of its environment's rows is what the
lifecycle model delivers. The order between those rows and the events is modelled in both: `AnnouncedAfterCommit` states for
`InstanceLifecycle` the half of it that `TerminatedEventIsLate` and `MeteredHasRun` of `BillingMeters` depend on.
The other components meet through rows that one of them owns and the others read; each module has those rows as
environment actions (`KillHost`, `HostChanges`, `Turns`, ...) that may happen whenever the owner's code may make the
change.

Scenes. The four modules `MCMoney`, `MCAccess`, `MCEstate`, `MCTrust` extend components that share no variable. The variable
`scene` is chosen at the start and never changes; only the component it names takes steps. The reachable states are the union of the
components' state spaces, not their product, so one TLC run answers for each component what a run of its own would.

## Inventory

For each component: its state, its operations, what is hard about it, and what makes it correct.

| component | state | operations | hard because | correct when | module |
| --- | --- | --- | --- | --- | --- |
| Instance lifecycle (`provisioning_service`) | rows `instances`, `ssh_sessions`, `secure_deletion_receipts`; Celery queue | launch, provision, stop, start, terminate, callback | tasks are queued before commit, calls to the host inside transactions, status read without a lock, redelivery | rows change together, one run per instance, every teardown leaves a receipt | `InstanceLifecycle`, `InstanceRecord` |
| Checks before a launch (`validators.py`, `scheduler.py`) | listing, host, wallet, hold | gate, ask again, hold, insert | every answer may be old when used; failure after the hold | what a launch relies on was true | `LaunchGate` |
| Templates (`template_routes.py`, `tasks.py`) | templates, scans, web UI tokens | register, scan, launch, issue, revoke | scan lost with a killed child or a failed write; token issued during a teardown | nothing offered has blocking findings; what waits has a scan coming | `TemplateRegistry` |
| Billing flags (`billing_watcher.py`) | Redis `ACTIVE`, `STOP`; chain of ticks | start_billing, stop_billing, tick, reconcile | two flags written by three handlers | the chain ends with its instance and restarts with it | `InstanceLifecycle` |
| Events (`status_sync.py`, `libs/events/bus.py`) | Redis pub/sub | publish, subscribe | events may be lost, published before the commit, or in another order | a subscriber acts on what was committed | `InstanceLifecycle`, `BillingMeters` |
| Billing meters (`event_handlers.py`, `metering.py`) | `billing_meter_jobs`, chains of Celery messages, hold, counted seconds | three event handlers, debit, sweep | handler and sweep race, unique rows, retries, replicas | only what ran is metered, a replica returns a hold once, each tick is charged once | `BillingMeters`, `UsageCounters` |
| Kill switch (`security_service/kill_switch.py`) | `instances`, hosts, users | revoke an instance, host or user | bypasses the transition check | nothing revoked keeps running | `InstanceLifecycle`, `HostFleet`, `AuthTokens` |
| Commands (`host_commands.py`, agent's `command_listener.py`) | `host_commands`, the agent's keys | dispatch, answer, time out, deduplicate | redelivery, eviction, restart | an acknowledged command ran, once | `AgentCommands` |
| Host agent (`host_agent`) | volumes, state file, binary | provision, shred, collect, update | crash between any two writes | a running instance loses its volume to nothing but the collector; the binary is whole | `AgentStorage`, `AgentUpdate` |
| Wallet (`wallet_billing_service/repository.py`, `routes.py`) | wallet balance, transactions | top up, webhook, debit, refund | read-modify-write without a lock, duplicate deliveries | an acknowledged payment is credited, and twice only by an overlap; the balance is that of the last row | `WalletLedger` |
| Payouts, refunds, ledger | payouts, earnings, ledger entries, webhook events | post, batch, execute, refund, report | batching and executing twice | payables match their rows, an event with an id is posted once | `FinanceLedger` |
| Invoices (`tasks.py`, `invoice.py`) | invoice sequence, invoices | draw a number, insert, PDF | first row of a year, retries | numbers 1, 2, 3, ... | `InvoiceNumbers`, `GaplessSeries` |
| Notifications | inbox, preferences | dispatch, mark read, set preferences | mail sent before the commit, row created twice | an opt-out stays | `Notifications` |
| Tokens (`auth_service`) | refresh tokens, device codes, one-time codes | login, rotate, revoke, approve, poll, verify | the 401 rolls its own revocation back; overlapping rotations | a used token was replaced; pairs follow an approval | `AuthTokens`, `DeviceLogin` |
| Administrative controls (`libs/admin_security`) | approvals, elevations, lockout, nonces, in memory | propose, approve, elevate, verify | expiry and pruning at the same second | no approval without a quorum, no nonce twice | `AdminControls` |
| API gateway | Redis counters, requests | limit, authorise, proxy | the service acts and the answer is lost | a minute stays within its limit | `ApiGateway` |
| Gateway sessions (`gateway_service`) | tunnels by host | connect, disconnect, route | reconnect before the old socket closes | the registry errs only on a reconnection | `GatewayTunnels` |
| Hosts (`host_service`) | hosts, heartbeats, benchmarks | register, submit, heartbeat, sweep | heartbeat and kill switch against sweep | a silent host leaves, a suspended one stays suspended | `HostFleet` |
| Vetting (`verification_service.py`, `kyc_service.py`) | applications, level, KYC | apply, review, revoke | reviews and revocations overlap | a level was applied for and decided | `HostVetting` |
| Listings (`marketplace_service`) | rows, Redis set, search rows | create, change, delist, rebuild, search | query, then pipeline | the set catches up with the rows | `MarketIndex` |
| Audit chain | hash-chained rows, checkpoint | append, verify | two appends to one head; rows without a hash | a verifying chain is a prefix of what was written | `AuditChain` |
| Trust, scans, fingerprints (`security_service`) | verdicts, devices | judge, record | overlapping first visits | worse is never milder; a shared device is noticed | `SecurityVerdicts`, `DeviceFingerprints` |
| Reputation, scores, statistics, prices | event log, snapshots, suites, statistics, model | record, recompute, refresh, quote | overlapping recomputations | a violation flags the host; the latest suite is scored; quotes stay in the rails | `ReputationLog`, `BenchmarkScores`, `GpuAnalytics`, `PricingModel` |
| Router and copilot | listings; conversations | rank; take a turn | ties and missing data; failure inside a turn | better is not ranked below; every question has its answer | `ListingRanker`, `CopilotTurns` |
| Consensus guard, collateral (`libs/federated_cryptoecon`) | votes, log; hosts, escrows | vote; register, slash | several views; repeated evidence, rounding | a decided entry is replaced only by another view; receipts add up | `ConsensusGuard`, `HostStakes` |
| Monitoring, Go programs, cryptography, front end, infrastructure | - | - | - | - | see "Not modelled" |

Interactions: routes queue Celery tasks; tasks call the host agent over HTTP and set Redis flags; tasks publish
`INSTANCE_RUNNING`, `INSTANCE_TERMINATED`, `INSTANCE_FAILED` on Redis; each replica of the billing service subscribes, writes
its rows and dispatches debit chains; the beat schedule runs `reconcile_billing`, `sweep_billing_meters`, `mark_offline_sweep`,
`sync_availability_index` and others; provisioning asks marketplace, wallet and host services over HTTP before a launch; the kill
switch writes instance, host and user rows from another service. `hazards` in `PROJECT.json` lists, line by line, what is hard to
test, with the properties that watch it or the reason why none does.

## InstanceLifecycle

State and code:

- `status`, `holdReleased`, `ssh`, `receipt` are the committed columns. `"none"` is a row not inserted (or not committed).
- `rowLock` is PostgreSQL's lock on the `instances` row. Only `provision_instance` keeps it across other steps: it flushes
  `pending -> provisioning` and commits after the agent's answer. Every other writer takes it and commits in one step, after
  waiting for `Unlocked`.
- `launch` is the open launch request (wallet hold over HTTP, insert, `delay`, commit or rollback).
- `queue[i][t]` counts task messages in the broker; Celery acknowledges late (`celery_factory.py`), so `Crash` puts a message
  back or, when only the child process died, does not. `Redeliver` is a lost connection to the broker: the message
  comes back while its worker goes on, so two workers provision or tear down one instance.
- `proc[p]` is what a worker holds in memory. `seen` is the status its session loaded: sessions have an identity map
  and never refresh it, so `transition_state` judges `seen`. `verdict` and `keySeen` are the receipt and the key
  row found in the teardown's transaction.
- `callbackSeen` is the same for the agent's `failed` callback, an HTTP request that waits for the row lock.
- `vm`, `volume` are the host's; `active`, `stop`, `ticks` the Redis flags and the chains of metering ticks;
  `events` the lifecycle events published so far.

Actions are named after the task and the step. A handler is split exactly where it commits, waits for a lock, calls another
process or sets a Redis key others read: `provision_instance` is `ProvisionStart` (read), `ProvisionBlocked` or
`ProvisionBegin` (image scan), `ProvisionAgentOk` or `ProvisionAgentFails`, `ProvisionCommit` or `ProvisionFailCommit`,
`ProvisionAnnounce` (`start_billing`), `ProvisionPublish`. `terminate_instance` is `TerminateStart` (read, `stop_billing`),
`TerminateDestroy` (agent terminate, delete), `TerminateVerify`, `TerminateWrite` (receipt, key), `TerminateCommit`
or `TerminateRollback`, `TerminatePublish`. `reconcile_billing` lists the running rows in a transaction that ends (`ReconcileRead`, `listed`) and comes to each
of them later (`Reconcile`), when it may run no longer. The map in `PROJECT.json` gives the lines of each.

Abstractions. One metering tick is one step: its debit does not influence a later step other than through 402 (modelled).
Amounts, host selection and connection data are left out. The image scan and every agent call may give any answer. In the
repository the host agent has no delete endpoint, and its verification takes a path parameter where the caller sends a query,
so outside mock mode each verification fails; the model keeps both answers. A user's requests may come at any
time. The repository's agent does not post callbacks; the endpoint exists, so `AgentReports` switches it on.

### What the runs show

| run | question | bounds | states |
| --- | --- | --- | --- |
| `Lifecycle` | do all handlers together keep the rows consistent, and implement `InstanceRecord`? | 2 workers, 1 stop and 1 teardown message waiting, callbacks | 1.3 M |
| `LifecycleFaults` | do the receipt of every termination, the single run and the refinement survive a worker's death at any step and redelivery? | 2 workers, 1 teardown waiting, 1 crash or redelivery | 362 k |
| `LifecycleProgress` | does an accepted teardown leave a receipt; does a meter end with its instance? | 2 workers, 1 teardown waiting, fair | 164 k |

One instance is enough: instances share nothing but the workers, every property is about one instance, and each action
reads and writes one instance's state; a worker busy with another instance is a worker that does not step. Two workers
are needed, since the interesting races are between two tasks of an instance (provisioning and teardown, two
teardowns); the callback, the meter and the kill switch are concurrent without a worker. The bounds limit the messages waiting
at a time, not in total: requests recur throughout a behaviour, so two teardowns run concurrently with one message waiting.
The proofs need none of these bounds. `CHECK_DEADLOCK FALSE`: a launch that was rolled back ends its instance, and so does a
finished teardown.

Properties, beyond the type invariant:

- `TerminatedIsSettled`: no instance is terminated without a deletion receipt, whichever of its teardowns, callbacks and redelivered messages wrote, rolled back
  or died. It says so where the kill switch is not used, which terminates without one; `LifecycleFaults` has it switched off, `Lifecycle` on.
- `RunningHasKey`, `RunsAtMostOnce`: one run per instance, on a key of its own, and a revoked key stays revoked. What enforces
  it under redelivery is the unique `ssh_sessions.instance_id`: the check of the status precedes the row lock, so two deliveries
  of one message can both pass it.
- `WorkerBeliefs`: what a task has read is still good enough for the write it goes on to make. It rests on `RowLockOwner` (who holds the row's
  lock), which no run checks: it is proved.
- `RowBeforeWork`: no teardown, stop or callback is at work on a row that is not committed.
- `AnnouncedAfterCommit`: events never run ahead of the rows that subscribers read.
- `ReceiptIsFinal`: concurrent teardowns, redeliveries and callbacks leave one receipt, unchanged.
- `ImplementsRecord`: the refinement.
- `TerminateLeavesReceipt`, `MeterWindsDown`: liveness. The chain that `reconcile_billing` starts for a row that stopped running since it was listed is one of those
  that must end.

`CommittedStatus`, a lemma of the proofs, says that `provisioning`, `stopping` and `stopped` are never committed: the start route and the
`provisioning_complete` callback never succeed in this code, and a stop never stops, which its docstring denies (`StopStopsInstance` below).

Fairness (`Fairness`): each worker finishes the task it has taken (`WF` on `WorkerStep`; the agent's client has timeouts, so a
call always ends); a queued teardown is taken eventually (`SF` on `TerminateStart` of all
workers together: Celery's queue is first in, first out, and a worker is free again and again but not continuously); the message of a tick is delivered (`WF` on
`MeterTick`). Nothing is assumed of users, agents, the wallet, the reconciliation, the kill
switch or crashes. The liveness run has no crash: an acknowledged message lost with its child process is not redelivered.

## BillingMeters

`attempt` and `owed` are what this service can tell of `provision_instance`: whether it may still fail or succeed (after a
redelivery, once more), and the events it has yet to publish (`INSTANCE_FAILED` is owed before the commit, the two others after it). `bus[s]` is the
subscriber's queue: Redis pub/sub drops an event for a subscriber that is not connected (`Lossy`). `handler[s]` is the event loop
of a replica, which handles one event at a time but whose read and commit are separate steps where a chain is dispatched or
a refund computed in between. `job`, `jobChain` are `billing_meter_jobs` (with the Celery id of the first message, the only one
ever recorded), `chain[c]` a chain of `debit_running_instance` messages, `sweep` the one open transaction of
`sweep_billing_meters`, `refunds` the hold refunds. A chain slot is recycled when nothing refers to it any longer.

| run | question | bounds | states |
| --- | --- | --- | --- |
| `Meters` | with lost, late and repeated events, failing debits and the sweep: how often is a hold refunded, are only instances that came up metered, are job rows final? | 2 replicas, 2 chains, 1 undelivered event each, 1 failure | 1.65 M |
| `MetersProgress` | does every debit chain of a dead instance end, chains no row knows of included? | 1 replica, 2 chains, 1 undelivered event, fair | 281 k |

Two chains let the handler's and the sweep's chain coexist; two replicas are what `infra/k8s/services/all-services.yaml` (line 207) deploys, and each subscribes to every event.
`owed` holds the events that wait besides the one in a queue, and events may be published in any order, so the bound of one loses no order of two.
Fairness in `FairSpec`: Celery delivers the next message of a
chain and its worker goes on. Nothing is assumed of publishers, event loops or the beat.

- `RefundsOverlap`: a replica refunds a hold once, however often provisioning fails, rolls back and is repeated, and begins only while no refund of it is
  committed: a hold is refunded twice only by two replicas that read it before either wrote.
- `MeteredHasRun`: no chain exists for an instance that never came up.
- `JobRowIsFinal`: no job row is revived or given another task id.
- `ChainsWindDown`: liveness; the status check in the debit, not the revocation, is what ends chains.

`TerminatedEventIsLate`, a lemma of the proofs, says that the termination event follows the release of the hold: the reason why its handler computes no refund.

## The other components

Conventions. A request or task is a worker whose record holds what it has read; reading and committing are separate actions, since
sessions run at READ COMMITTED and lock rows only where the code says `with_for_update`. A request of a FastAPI service is one transaction that the
session dependency commits at the end or rolls back on any exception (`libs/db_models/database.py`), which includes the `HTTPException`s of
refusals. `...Aborts`, `...Fails`, `...Dies` are those rollbacks and crashes. Ghost variables record overlaps,
so that a property can say "unless two of them overlapped" and be checked for being the only excuse. A switch that is `TRUE` in the
runs repairs one defect; `FALSE` is the code as written, with which the rest of the component never runs. The theorems hold for both values of
each (`KillSwitchDeployed` is a deployment's choice, not a repair):

| switch | the defect it repairs |
| --- | --- |
| `WalletColumns` | the ORM class `WalletTransaction` lacks `listing_id` and `stripe_transfer_id`, which migration 0003 has, so building such a row raises |
| `HasBuilders` | `dispatcher.py` lacks names that the dispatch task imports |
| `HostReadable` | `GET /hosts/{id}` wants a token that `marketplace_service` does not send |

| run | components and bounds | states |
| --- | --- | --- |
| `Money` | `WalletLedger` (2 workers), `FinanceLedger` (2 callers, 3 events of which one has no id), `InvoiceNumbers` (2 workers), `Notifications`, `UsageCounters` (2 chains) | 1.29 M |
| `Access` | `AuthTokens` (4 tokens, 2 requests), `DeviceLogin`, `AdminControls` (3 administrators, quorum 3), `ApiGateway`, `GatewayTunnels` (3 connections), `HostVetting` (2 requests), `CopilotTurns`, `ListingRanker` (3 candidates), `LaunchGate` (2 requests); symmetric in the two requests | 1.62 M |
| `Estate` | `HostFleet`, `MarketIndex` (2 requests, 2 syncs), `AgentCommands` (2 commands), `AgentStorage` (2 instances, 1 crash), `AgentUpdate`; with fairness | 604 k |
| `Trust` | `ReputationLog`, `BenchmarkScores`, `GpuAnalytics`, `PricingModel`, `AuditChain`, `DeviceFingerprints`, `SecurityVerdicts`, `TemplateRegistry` (2 scanners), `ConsensusGuard`, `HostStakes` | 405 k |

The races are all between two readers of one row (or two, and a third that changes the row), so two workers on one row show
them; where three matter (connections, administrators, rows of the audit log, listings compared) there are three. Rows that do not interact are
one: one user's wallet, one host's tunnels, one listing, one GPU model. The counters that would grow for ever are cut by the
constants marked "bound:" in each module, large enough for a value to be written, read, overwritten and read again. `CHECK_DEADLOCK FALSE`:
a component at its bound stops.

A run checks one property for each service or pair of services, defined in its `MC` module as a conjunction of the type invariants and of the
properties below, which are stated with their reasons in the components' modules:

| run | property | is the conjunction of the properties of |
| --- | --- | --- |
| `Money` | `WalletSafety`, `FinanceSafety` | `WalletLedger`, `FinanceLedger` |
| | `TasksSafety` | `InvoiceNumbers`, `Notifications`, `UsageCounters` |
| `Access` | `LoginSafety` | `AuthTokens`, `DeviceLogin` |
| | `GrantSafety` | `AdminControls`, `HostVetting` |
| | `GatewaySafety`, `LaunchSafety` | `ApiGateway` and `GatewayTunnels`, `LaunchGate` |
| | `RouterSafety` | `ListingRanker`, `CopilotTurns` |
| `Estate` | `SupplySafety`, `AgentSafety` | `HostFleet` and `MarketIndex`, the three modules of the agent |
| `Trust` | `ReputationSafety` | `ReputationLog`, `BenchmarkScores`, `GpuAnalytics`, `PricingModel` |
| | `SecuritySafety` | `AuditChain`, `DeviceFingerprints`, `SecurityVerdicts`, `TemplateRegistry` |
| | `StakesSafety` | `ConsensusGuard`, `HostStakes` |
| | `TakenBackForCause` | the action properties `DropsAreStale`, `RewrittenByAnotherView` |

`BalanceAddsUp`, `OptOutIsKept`, the refinement, `WorseIsNeverMilder`, `SweepSparesSuspended` and the liveness properties are checked under their own names.

### Money

- `WalletLedger`: the wallet row, its append-only rows, the payments at their provider, and workers that read the balance and commit
  balance and row. No lock guards the balance, so updates are lost; each row remembers the last row its writer had seen (`since`). `BalanceAddsUp`: the balance is that of the last row and each
  row applies its amount to the balance its writer read, so what is lost is exactly what others committed in between. `AckedIsCredited`: a payment whose notification Stripe saw
  answered 200 has a row (a UPI payment need not: `UpiIsCredited`). `CreditsOverlap`: the writer of a second row of a payment had looked before the first was committed.
- `FinanceLedger`: accounts as the sums of their sides. `PayableMatchesRows`, `EventPostedOnce` (of the events that carry an id; one without gets a new id with
  every delivery, `ReplayIsIgnored`), `SettledWasPaid`, `DashboardMissesNothing`. Nothing keeps a session from being finalised twice: an earning stands for one call. Refunds
  check neither the amount nor the payment; the model repeats them as the code does.
- `InvoiceNumbers`: the year's sequence row under its lock, a drawn number that is rolled back, retries. `NumbersAreGapless`; `ImplementsSeries`
  is the refinement of `GaplessSeries`, by which a document also keeps its number.
- `Notifications`: `AttemptsAccountForRows` relates mails, attempts and inbox rows, and an attempt that did not find the user ends well with no row; `OptOutIsKept`: opting out is undone only by
  opting in, not by a `GET` that found no row and comes to insert the default one.
- `UsageCounters`: `instances.billed_seconds`, the job row's total and the usage rows, counted by the meter of provisioning and by debit
  chains, the first of which is dispatched before the job row exists. `SecondsAreLostOnlyByOverlap`, `TotalCountsDebits` (but for debits that find no open row), `ChargedOncePerTick` (a debit more than its ticks comes from a message that came back
  after its commit).

### Access

- `AuthTokens`: one request is one transaction. `UsedMeansReplaced`, `RotationsOverlap`: a token is rotated twice only by overlapping requests.
- `DeviceLogin`: device code, approval, polling CLI, one-time codes. `PairsFollowApproval`, `VerifiedBySpentCode`.
- `AdminControls`: `ApprovedByQuorum`, `ElevationIsBounded`, `LockedVerifiesNothing`, `NonceReusedOnlyAtTheEdge`.
- `ApiGateway`: `MinuteIsLimited`, `ActsOnceIfAllowed`. `GatewayTunnels`: `TunnelIsServed`.
- `HostVetting`: `GrantsWereDecided`. Two first submissions of KYC details both insert a row (nothing is unique); the lookup then finds two and raises.
- `ListingRanker`: the scores in integers, scaled as the code scales them, over every list of up to three candidates.
  `BetterIsNotBelow` (monotone in every criterion), `MissingBeatsOnlySlow` (what a missing benchmark is worth).
- `CopilotTurns`: a turn is one transaction around the model's calls. `QuestionsAreAnswered`: the committed history is pairs.
- `LaunchGate`: the steps of `POST /instances`, in their order: listing, host, balance in the gate's transaction; listing (in the index, big enough
  for the template), balance, host and hold over HTTP; insert. The listing, its price and its host change between any two.
  No service serves `POST /wallet/hold`, so in this repository each launch ends there; the hold's answer is any, and what it would do to a wallet is left open.
  `SeenBeforeLaunch`: everything a launch relies on was true at some time since the request, and the hold in its row is a price the listing had, within a balance the wallet showed.
  A tenant whose wallet is in rupees is judged by that balance in the gate.

### Estate

- `HostFleet`: registration, benchmarks, heartbeats and the sweep. Ages are classes (fresh, stale). `VerifiedIsMeasured`,
  `SweepSparesSuspended` (but for hosts that the kill switch suspends between the sweep's select and its update, which it does lift); `SilentHostLeaves` (liveness).
- `MarketIndex`: rows, the Redis set, the search rows, two syncs that may overlap and whose write may fail. `IndexNamesRows`; `IndexCatchesUp` (liveness): the rebuild repairs what lost writes and
  overlapping handlers left.
- `AgentCommands`: `AckedRan`, `RunsOnceUnlessExcused` (overlap, eviction and restart are the only excuses; the text allows none, `NeverRunsTwice`).
- `AgentStorage`: the agent's calls step by step, a crash between any two, the collector's cycle. The collector asks a callback for the ids of running instances that
  nothing passes, so it is told of none, and nothing in the agent starts it: the model lets it run at any time, without fairness. `RunningIsKept`: a running instance loses its volume to nothing but
  the collector, past the TTL, and its entry of the state file only to a crash that cut a write.
- `AgentUpdate`: files written in two steps. `BrokenOnlyByRollback`.

Fairness (`EstateFairness`, which assumes of each scene only what its own component is scheduled to do): the beat schedule runs the sweep and the rebuild (`WF`; `host_service/celery_app.py`, `marketplace_service/celery_app.py`) and a run
that has read goes on to write. The sweep's worker may die, so its commit has `SF`: the schedule starts it again and again and not every run dies. Nothing is assumed
of users, hosts, heartbeats, crashes or the agent.

### Trust

- `ReputationLog`: the recomputation reads the log, then the host. `ViolationIsFlagged`, `CountsGrow`, `TrendHasScore`; `BenchmarkScores`: `LatestRunIsScored`,
  `CompositeBetweenParts`; `GpuAnalytics`: `ComparedOnce`, `DropsAreStale`; `PricingModel`: `QuoteWithinRails`. The API process never holds a trained model, so a
  quote is the median (`TrainingReachesQuotes`); a database that does not take the untyped NULLs of the training's query fails the task.
- `AuditChain`: a hash is the creation time of its row, which no other row shares. `VerifiedIsPrefix`, `BreakHasCause`.
- `DeviceFingerprints`: `SharedDeviceIsNoticed`, `SeenAsOftenAsVisited`. `SecurityVerdicts`: pure functions over bounded sheets that get worse step by step:
  `WorseIsNeverMilder`, `SuspendedForTwoReasons`, `ScalesAreOrdered`.
- `TemplateRegistry`: a killed child takes its message along, a failed write of the result too; the kill switch ends an instance and none of its tokens. `OfferedIsClean`,
  `PendingIsAwaited` and `TokenEndsWithInstance` name these as the only exceptions.
- `ConsensusGuard`: votes in any order, in several views, faulty nodes voting twice. `RewrittenByAnotherView`. That a correct node signs once in a phase, and that there are at most 3f+1 nodes,
  is assumed: all nodes share one HMAC secret, so the code itself does not tell who signed. `HostStakes`: `SecondIdentityPays`,
  `StrayEntryWasMoved`, `ReceiptsAddUp` (rounded amounts to the cent). Only tests call these two libraries.

The models of host rows take statuses as intended: the ORM enumerations store names (`IDLE`) while the migrations create lower-case labels.

## Where the code and its text disagree

Three runs are expected to be violated. Each checks one sentence of the repository; `findings` in `PROJECT.json` quotes it.

| run | sentence | what the code does |
| --- | --- | --- |
| `TerminatedIsFinal` | "Terminal states - no further transitions" | provisioning, having read `pending`, writes `running` over a concurrent `terminated` |
| `StoppedIsRefunded` | "refunds unused hold" | the hold is marked released before the event whose handler would refund it |
| `ReuseRevokesFamily` | "revokes the ENTIRE token family" | the 401 that reports the reuse rolls the revocation back |

Further claims of the code's text are stated in the modules, at the end. Each is contradicted by the model: put the
definition in the configuration of the component's run, as an `INVARIANT` or, if it speaks of steps or of behaviours, as a `PROPERTY`, and TLC
shows a counterexample (what a switch above repairs, with the switch `FALSE`; a claim with `~>` means something only where the component's steps are assumed to be taken). The runs kept for violations are three whose traces are
hard to find by reading:

| definition | sentence or intent | what the code does |
| --- | --- | --- |
| `TerminatedKeyIsRevoked` (`InstanceLifecycle`) | the key is nulled on termination | a teardown that looked before provisioning inserted the key leaves it usable |
| `SuspendedLeavesRunning` (`InstanceLifecycle`) | "Suspend the Firecracker microVM. Billing pauses." | the VM is suspended, then the transition raises: the row stays `running` |
| `PendingIsProvisioned` (`InstanceLifecycle`) | "Provisioning happens asynchronously." | the task is queued before the commit and may find no row; nothing retries |
| `OneChainPerInstance` (`BillingMeters`) | "one active per-second billing loop per instance" | handler and sweep both dispatch before either row is visible |
| `SweepRestartsMetering` (`BillingMeters`) | "Restarts metering for those instances" | a stopped job row makes the insert fail and roll the whole sweep back |
| `PaidIsCredited` (`WalletLedger`) | "credit developer wallet" | with the ORM class as written the webhook answers 500 for ever |
| `NoDoublePayment` (`FinanceLedger`) | "to guarantee no double-payment" | pending earnings enter a second batch before the first has completed |
| `NoticeIsRecorded` (`Notifications`) | every dispatch records a notification | the task's import fails |
| `TotalMirrorsBilled` (`UsageCounters`) | "mirror of instances.billed_seconds" | the meter of provisioning counts the same seconds into one of the two |
| `RefusedAttemptCounts` (`DeviceLogin`) | "Enforce attempt limit" | the 400 rolls the counted attempt back |
| `FlaggedIsNotVerified` (`HostFleet`) | flagged hosts are "not allowed to list" | a benchmark submission sets `VERIFIED` whatever the status |
| `SearchCatchesUp` (`MarketIndex`) | "Kept in sync via event-driven upsert" | the sync runs only when asked for |
| `SlotIsReserved` (`LaunchGate`) | "a running instance has reserved the slot" | nothing takes a rented listing out of the index |
| `OnlyAdminRangesFlag` (`BenchmarkScores`) | "we never flag what we can't verify" (`benchmark_suite.py:19-22`) | with no administrator's range the spread of earlier suites is used, and flags |
| `StopStopsInstance` (`InstanceLifecycle`) | a stop suspends the VM and "Billing pauses" (`tasks.py:331`), to "stopped: VM suspended" (`provisioning_models.py:41-42`) | the state machine lets no running row become `stopped`: the transition raises, and the row stays `running` |
| `UpiIsCredited` (`WalletLedger`) | "credits the wallet in INR" (UPI webhook, `routes.py:320-321`) | it looks the payment's pending row up, finds none and answers 200 |
| `ReplayIsIgnored` (`FinanceLedger`) | "Database-level Replay Protection" (`webhook_handler.py:49`) | an event without an id gets a new one with each delivery |
| `NeverRunsTwice` (`AgentCommands`) | retried commands "never re-execute workloads" (`idempotency_store.py:5`) | overlap, eviction and restart re-execute them |
| `RunningIsNoOrphan` (`AgentStorage`) | only orphans are collected (`cache_manager.py`, `run_eviction_cycle`) | no caller passes the callback, so every old volume counts as orphaned |
| `FailureIsRetried` (`TemplateRegistry`) | "On error -> retry (max 2), then disable" (`tasks.py:537`) | a failed write of the result is acknowledged and never retried |
| `TokensAreRevoked` (`TemplateRegistry`) | "Revoked automatically on instance termination." | the kill switch revokes none; one issued beside a teardown is missed |
| `TrainingReachesQuotes` (`PricingModel`) | Celery "calls train() to refresh it" (`pricing.py:14-15`) | the worker trains the object of its own process |
| `DeregisteredIsGone` (`HostStakes`) | "Cleanly remove host from Sybil clustering state" (`sybil_staking.py:83`) | a host whose identity changed stays in its old clusters |
| `AlarmMeansTampering` (`AuditChain`) | verification raises if a row was modified or deleted | overlapping or unhashed rows raise it too |
| `RecentIsRemembered` (`CopilotTurns`) | "the most recent `limit` messages" | the oldest are read |

Seen on the way, without a formula of their own. Provisioning: a receipt may be written for a volume that provisioning allocates afterwards;
`VERIFICATION_FAILED` receipts mark the instance terminated all the same; a blocked image and the `failed` callback publish
no event, so the hold stays; `start_billing` leaves the `STOP` key in place; an `INSTANCE_FAILED` whose transaction
rolls back refunds an instance that then runs; `INSTANCE_RUNNING` handled after `INSTANCE_TERMINATED` leaves an active job row behind; the audit row of
a refused launch is rolled back with the gate's transaction; the scheduler never looks at a template's status and holds money through a route
(`/wallet/hold`) that nothing serves. Money: the per-second meter posts to `/wallet/debit`, which no route
serves either; "a single DB transaction" (`repository.py:82`) does not keep two of them from reading one balance; a payment credited twice makes each later lookup of it raise; `process_refund` compares
with nothing. Security: `scan_block_severity` below high never blocks; the trust tier's caps are keyed by
integers and asked by an enumeration; `extra_data` is not hashed. Hosts: a lost answer to a registration registers the host twice; two first KYC
submissions do the same to the KYC row; a command's key is new with every dispatch, so "a retried command never double-executes" does not hold
across dispatches; shredding ignores the tool's result; the agent never starts its collector. The consensus guard never advances its
view, and a commit quorum needs no prepare quorum.

## What is proved

Every invariant, action property and refinement that a passing run checks is a theorem of its specification, for all values of the constants that
satisfy the assumptions named in the modules. The five liveness properties are not (see "Only model-checked"). The table of theorems in
`PROJECT.json` says what each establishes.

### InstanceLifecycle

`InstanceLifecycleProofs` proves, for every set of instances and workers and all values of the bounds and switches (from
`LifecycleAssumption` alone: `NoInstance`, `NoProc` are not members of their sets, the bounds are naturals, the
switches Booleans):

`TypeCorrect`, `RowLockHeld`, `BeliefsHold`, `NothingBeforeCommit`, `Settled`, `RunningKey` (each
`Spec => []Inv` for the invariant of that name in the table of theorems), `ReceiptFinality` and `OneRun` (action
properties), `EventsFollowCommits` and `LifecycleImplementsRecord`, the refinement.

The argument. None of the interesting invariants is inductive alone. `TerminatedIsSettled` depends on the teardown having a
verdict or a receipt when it commits; that is `WorkerBeliefs`. That a belief survives other handlers' commits needs the
types, that receipts and key rows never disappear, and, for `RunningHasKey`, that a teardown never nulls the key of a row it
leaves running. That a provisioning worker may write `running` at all needs that it holds the lock from its flush on, which is
`RowLockOwner`. That `stopped` is never written needs the status a stop has read to be a committed one, which is
`CommittedStatus`; and that a stop, teardown or callback has read a committed row is `RowBeforeWork`. `IInv` is the conjunction of the seven; the proof
shows `Init => IInv` and `IInv /\ [Next]_vars => IInv'` with one lemma per invariant and one step per action. The refinement and
the action properties then follow step by step from `IInv`: every action maps to one action of `InstanceRecord` or a stutter.

`EventsFollowCommits` needs one invariant more, `AInv`: a worker that is about to publish has committed what it announces,
and by the refinement no later step takes a key row, a receipt or a released hold back.

### BillingMeters

For any instances, chains and replicas. `MetersImplementRecord` first: a step of this service, or of the environment it assumes, changes the rows as
`InstanceRecord` allows, so they only advance (`RowsOnlyAdvance`), which the others need. `MetersHaveRun` (`CameUp`): everything that leads to a chain, the
running row, the event on its way and the sweep's list, has a key row behind it. `JobRowsAreFinal` needs that an insert of the sweep is the first for its
instance. `HoldRefundsOverlap`: a replica at the refund of a hold has made none before, one that has made it has made one, and once a refund is
committed the hold is released (`Refunded`). It needs that a handler and a chain at work have an instance (`Located`) and
that the termination event finds the hold released (`TerminatedIsLate`, a lemma).

### Money

- `WalletLedger` (`WalletInv`): a wallet that does not exist yet holds nothing; the balance a worker has read is that of the last row there was, and
  each row of its payment was committed since (`WorkInv`). `AckedIsCredited`, `CreditsOverlap` and `BalanceAddsUp` follow together.
- `FinanceLedger`: `PayableMatchesRows` is a sum over payouts, changed by one term in each step (`SumChange`). `EventPostedOnce`, which also says that the postings add up
  to what was `captured`, needs the unique event row (`TxInv`: one open webhook per event with an id); `SettledWasPaid` that a payout lists finalised
  earnings (`ListedInv`); `DashboardMissesNothing` that no earning leaves `pending` but for `settled` between the two queries (`ReportInv`).
- `InvoiceNumbers`: the year's row has one owner, who has drawn the successor of the last number (`DrawInv`). `InvoicesImplementSeries` maps `Commit` to
  `Issue` and everything else to a stutter.
- `Notifications`: an attempt is counted when its mail is sent, and the attempts leave room for the one in the queue (`DispatchInv`). `UsageCounters` (`DebitInv`): what a debit has read
  is the row unless it overlapped; one that has flushed holds the job row's lock, so it is the only one and the total is still what it read; and messages to come and under way (`Pending`) are among those planned or repeated.

### Access

- `AuthTokens`: the rotations of a token, committed or under way, are at most the requests at a time (`RotationInv`), so one without an overlap is one.
  `DeviceLogin`: the same count for the approvals of a code (`ApprovalInv`).
- `AdminControls`: `NonceInv` says from when to when an accepted request's nonce is remembered; the reuse at the edge is what remains.
- `ApiGateway`: the counter of a minute is the number of requests that passed it (`KeysCount`), and an attempt that has acted acts no more
  (`AttemptIsDone`). `GatewayTunnels`: connections that are open together are remembered as overlapping (`TunnelInv`).
- `HostVetting`: an application that a reviewer saw decided has not become pending since (`ReviewInv`), and a submission that found KYC details updates a row that is there (`KycInv`).
- `LaunchGate`: `HasSeen` says for each step of a launch which facts it has seen true, the prices of the listing and the highest balance among them, by
  induction along the handler.
- `CopilotTurns`: a turn's question was stamped before any later one (`IsTurn`).
- `ListingRanker`: no state to be invariant, but arithmetic: an answer is what `Ranked` and `Composite` compute (`RankerInv`), and each criterion's score
  is a quotient that is monotone in its criterion (`DivBounds` and its like in `SumLemmas`); ranks are cardinalities, which settles ties.

### Estate

- `HostFleet`: a submission that found every benchmark stored still finds it, and a suspended host that a sweep has selected was caught by
  the kill switch after the read (`FleetInv`). `MarketIndex`: what a request goes on with is a row (`Backed`).
- `AgentCommands`: copies, handlers and runs of a command are no more than what was sent (`SentInv`), what the store holds or an answer reports has run
  (`RanInv`), and outside the excused a command in work has not run (`OnceInv`).
- `AgentStorage`: `RunningIsKept` needs which volumes a call under way works on (`CallInv`), that what a
  collector has found is old or was terminated for good (`VictimsInv`), and that a running instance has its container open and no call but a repeated provisioning (`KeptInv`). No switch is assumed. `AgentUpdate`: what is about to be put in place is whole (`UpdateInv`).

### Trust

- `ReputationLog`: sums over event kinds and weights. `CountsGrow` needs that of two open computations the one that began alone is the earlier
  (`SideBySide`). What was computed and not yet committed counts what all earlier snapshots count (`ComputedOK`). `TrendHasScore` needs the
  `TrendLength` greatest members of a finite set to be that many (`TopHasLength`).
- `BenchmarkScores`: suites are kept as they were judged (`RunsInv`, `JudgedOK`), and a score is that of the latest suite stored when it was read (`ScoresInv`, `ScoreOK`),
  from which `LatestRunIsScored` follows. `CompositeBetweenParts`: a
  weighted mean, rounded down, lies between the extremes (`SumOrdered`, `SumTimes`, `DivBounds`).
- `GpuAnalytics`: a refresh has read every row that was there when it began (`RefreshInv`), and of two rows of a model the later was begun before the earlier was there
  (`RowsInv`). `PricingModel`: no process but the worker has a trained model, and a price clamped to the rails lies in its interval clamped to them (`PricingInv`).
- `AuditChain`: as long as nothing was changed and every row was hashed and written alone, the table verifies and an open append carries the hash of
  the last row (`ChainInv`, with the table, the rows as written and the open appends described by `TableInv`, `WrittenInv`, `WriterInv`).
- `DeviceFingerprints`: what an open visit has read is the row's count unless it crossed another (`VisitInv`, `CountInv`, `CrossInv`).
- `SecurityVerdicts`: every scale is monotone in every observation, one lemma for each. `TemplateRegistry`: a template that waits for its scan is in the queue, with a registrar or a scanner, or lost with one (`RegistryInv`); a token that a
  teardown has not found overlaps it, and the tokens and the requests that may still issue one are together bounded (`TokenInv`).
- `ConsensusGuard`: two quorums of 2f+1 out of at most 3f+1 share more than f nodes, so one that is not faulty, which signs one digest in a phase of a view
  (`QuorumIsHonest`, `ConsensusInv`). `HostStakes`: a registered host is in every cluster of its identity (`SybilInv`); the rounding of a slash is
  bounded by quotients (`EscrowInv`).

The scenes. `MoneySpec`, `AccessSpec`, `EstateSpec` and `TrustSpec` imply each component's specification, since a step of the scene is a step of one
component and leaves the variables of the others; so a theorem about a component is one about the run's specification.

### Assumptions, and what was rewritten for the proofs

The proofs made assumptions explicit that the runs had silently satisfied: the sets of sessions, requests and nodes are finite; bounds
are naturals; marks such as `NoScore` are not numbers; a sheet's numbers may be nought, as a sheet starts; risks are scores out of 100; benchmark suites and offers have the
columns of their rows; some process other than the Celery worker serves prices; the nodes of a consensus are at most 3f+1. One is a restriction: the escrows of `HostStakes` are whole numbers of a grain, nought or at least ten
of them, so that a slash of a tenth takes something (an escrow below a hundredth of a cent is outside). TLC evaluates each of them in every run.

Sums are written with `SumFunctionOnSet` of a function. `SumLemmas` proves what it needs of it (the empty sum, one term more, one term changed, order,
multiples, sums over pairs) by taking a smallest subset for which a claim fails. So the sums of the model, which are folds, are proved
about for sets of every size; the library's induction theorems are not used.

### Only model-checked

- Liveness: `TerminateLeavesReceipt`, `MeterWindsDown`, `ChainsWindDown`, `SilentHostLeaves`, `IndexCatchesUp`. They need `ENABLED` and fairness, which
  this prover does not treat.
- The three violations, which are TLC's counterexamples, and the contradicted claims.

## Not modelled

- `monitoring_service` declares metrics; no program reads them.
- The Go agent, the Go tunnel and the CLIs are I/O: the Go agent registers, beats and trims caches, its gRPC server is never served. (What the
  Python CLI does in a login is in `DeviceLogin`.)
- The agent's wrappers of Firecracker, containerd, benchmarks and hardware probes run external programs and keep no state; outside mock mode Firecracker raises
  `NotImplementedError`.
- `libs/advanced_cryptography`, `libs/model_security`, the rest of `libs/federated_cryptoecon` and of `libs/admin_security`, storage vaults and
  data governance are called by tests only, and their behaviour is their arithmetic.
- The front end and the deployment files.
- Within modelled components: formatting, pagination, tax arithmetic, the regression behind prices, the fraud detector's model, the routes that only read.

## Plan

What is left: theorems that relate components where the runs only relate rows (the order in which `InstanceLifecycle` announces and
`BillingMeters` hears), and abstract specifications, with refinements proved as for `InstanceRecord` and `GaplessSeries`, for the wallet, the
agent's commands and the audit chain.

## Running

`tlc -config Lifecycle.cfg MCInstanceLifecycle.tla` (a run's module is in `PROJECT.json`); `tlapm TrustProofs.tla`, and so for each module whose name ends in
`Proofs` and for `SumLemmas` (the longest takes about half an hour).
Operators named `MUT_...` are variants of the definition they precede with a plausible bug; no specification uses them. `mutants` in `PROJECT.json` names
one for every property of every passing run: substituted for the definition, TLC finds the property violated. Where a property is a conjunction
there is such a variant for each of its parts, except the type invariants, next to the definition it changes; to see that a part can fail by itself, substitute its variant and put the part's
name in the run's configuration.
