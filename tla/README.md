# Octo in TLA+

Octo runs *flows*: a source puts messages on a bounded channel, workers take them through a
chain of blocks, and some blocks take the flow over and continue it later, for elements of a
message (split) or for groups of messages (aggregate). The flow runtime is in `src/runtime`;
around it are a control plane (`src/orchestrator`), telemetry (`src/observability`), accounts
(`src/iam`), command-line tools and user interfaces. This project models the concurrent core of
the runtime, the services it coordinates replicas with, and the orchestrator's deployments.
`PROJECT.json` maps every definition to the lines it stands for.

## Inventory

| Component | State | Operations | Interacts with | What is hard, and what makes it right |
|---|---|---|---|---|
| Bound flow (`core/runtime/boundflow.go`) | channel, workers, `inflight` count, run context | start, run, resume, stop | source, pool, blocks, event bus | Blocks schedule work that outlives its message and schedules more. Stop must wait for all of it, in an order in which no wait is circular; one terminal event per invocation |
| Pool (`core/internal/pool`) | bounded task queue, workers, closed flag | Submit, TrySubmit, Stop | fork, resume | Saturation; waiting inside a task for other tasks |
| Cron source (`connectors/cron`) | scheduler, done channel, lease | Start, emit, Stop | channel, leader election | A tick parked on a full channel while stop runs |
| Fork and the other composites (`blocks/controlflow/composites.go`) | per call: first error, stop flag | Process | pool | Join after a failure; nested forks on one pool |
| Aggregate (`blocks/controlflow/aggregate.go`) | groups and a group index in the store, stripe locks, reaper | fold, reserve, evict, release, restore, sweep | store, leader election, continuation | Two keys written one after the other, several replicas, eviction and timeouts racing folds; no message lost or delivered twice, every open group found by the reaper, `maxGroups` kept |
| Store (`core.KV`: standalone, orchestrator, redis) | versioned entries | Get, Set, Delete | aggregate, object, cache, agent blocks | What a version check says after a delete |
| Standalone store (`services/standalone/kv.go`, `persist.go`) | entries, dirty marks, files | Set, Delete, flush, close, load | disk | Writes that fail or are cut off between copy, rename and sync; nothing forgotten, nothing reported as written lost |
| Leases (`core/lease.go`, `services/k8s/leases.go`) | one API object per name, handles with versions | Acquire, renew, Close | cron, aggregate, agent | Renewal against a successor; two clocks; lost answers. One holder, who learns that it is not |
| Runtime service (`core/runtime/runtime.go`) | connectors, flows | build, start, stop | everything above | Order of start and stop; a start that fails midway |
| Flow registry, implicit source, event bus, flow-ref (`core/runtime/flowregistry.go`, `implicitsource.go`, `core/eventbus.go`, `blocks/builtin/flowref.go`) | registered flows, waiting calls, subscribers | Call, Send, Publish | flows | A call holds a worker until the terminal event of its message, while flows are stopped |
| AI agent (`blocks/ai/agent*.go`) | live runs, claim, subscription, working memory | join or claim, turn loop, deliver, stop, save | leases, queues, stores | One run per conversation over all replicas; messages handed to a run that is ending; saves of a run that was superseded |
| Orchestrator deployments (`internal/deployment`, `internal/kube`) | rows, workloads, Services | Deploy, Undeploy, Reconcile | PostgreSQL, Kubernetes, informer cache | Several requests without a transaction; a sweep that deletes what it believes orphaned |
| Split, cache, queues, topics, leader election | per block | Process | store, queues | Group numbering; redelivery |
| Rest of the orchestrator, observability, IAM, CLIs, apps | databases, Kubernetes objects | HTTP APIs | | Outside this project |

The hazards are listed with their lines under `hazards` in `PROJECT.json`.

## Modules

| Module | Models |
|---|---|
| `BoundFlow` | one running flow with its source, workers, pool, the reapers of its blocks, and stop |
| `ForkPool` | forks, possibly nested, on the flow's pool |
| `Aggregate` | the aggregate block on the versioned store, on one or more replicas |
| `FlowCall` | a runtime generation: flows started, calling each other, and stopped |
| `Claim` | what `core.Leases` promises about one name, an abstract specification |
| `K8sLease` | the Kubernetes implementation of it; `ImplementsClaim` is the refinement |
| `AgentRun` | the runs of an agent on one conversation, over replicas, built on `Claim` |
| `StandaloneKV` | the standalone store, its flusher and the file system |
| `Deployments` | deploy, undeploy and the reconciler over rows, workloads and Services |
| `...Proofs` | one module per specification, except `Claim`: its inductive invariant and the theorems |
| `MC...` | one module per specification with the functions its `.cfg` files need |

The operators called `Mutant of ...` in the comments are the plausible bugs the properties are
tested against; no specification uses them.

### BoundFlow

The processes are the goroutines: ticks of the scheduler, flow workers, pool workers, reapers, and
the one that calls `stop`. An *invocation* is one message put through `run`: a message of the
source, or a tail that a block resumed. `st`, `owner`, `left`, `chain`, `tail` and `events`
describe each invocation; `in` and `tasks` are the channel and the pool's queue; `stack[g]` holds
the invocations goroutine g is inside, since a refused `TrySubmit` runs the tail on the caller.
`phase` is how far `stop` has come, one value per wait.

- `Emit`, `Send`, `Abandon`: `source.emit` and its select. The select may take any ready case, so
  a tick may still send after `done` is closed.
- `WorkerTake`, `PoolTake`, `Fail`, `Finish`: the worker loops and `run`, with the error chain and
  the started and terminal events.
- `Resume` and `Schedule`: `resume` in its two halves, so that a goroutine can be interrupted
  between the `Add` and the hand-over. `Release` is a resume from a reaper's sweep.
- `StopSource` ... `PoolDone`: the steps of `stop`, each guarded by its wait. `Cancel` is separate,
  because stop is also called with a live context when a later flow fails to start.

What a block computes is left open: an invocation may complete, be dropped or fail, and resume at
each takeover block any number of tails. Tracing, durations and the contents of events are left
out.

### ForkPool

A chain is named by its path. `Submit` hands one branch to the pool, `Panic` is the same call on a
full queue, `End` is a branch's report under the fork's mutex, `Join` the return of `wg.Wait`.
Cancelling the other branches is only a hint to their blocks and has no state of its own. A panic
ends the process.

### Aggregate

A message is a goroutine: `Claim` / `Refuse` / `Overflow` / `Evict` are `reserve`, outside the
stripe; `Read`, `CommitFold`, `Track` / `Forget` are `foldLocked` under it; `Deliver`,
`RefuseDelivery` and `Restore` are `deliver`. A reaper's `Sweep` reads the index, and each entry it
`Visit`s goes through `Read`, `CommitTake` and `Forget` as an eviction does. The stripe has no variable: a
goroutine holds it exactly at the labels of `Holding`.

A group is the set of its messages and completes at `GroupSize`; completion by expression would be
another predicate in the same place. An index entry is a claim, open or past its deadline
(`Expire` is the passing of time). The victim of an eviction is any entry, where the code picks
the oldest. An index update (`UpdateIndex`) is one step, since the index is written by
compare-and-swap under a mutex, its key is never deleted, and a failed attempt has no effect. It may
be given up, on an error of the store or out of attempts, which leaves the index as it was while the
caller goes on; `missing` and `leftover` remember which groups the index was last left without, or
with an entry for nothing. `StoreError` is an error of any other call of the store outside a fold
(`FailFold` has the fold's). A call that returns an error is taken not to have landed. `IsLeader` is
asked once per sweep and the lease may move afterwards, so sweeps of two replicas may overlap.
`absorbed`, `out`, `lost`, `missing` and `leftover` are history variables.

### FlowCall

Flows are started in the order of `orderForStart` (`Before`: implicit flows first, otherwise as
configured) and stopped in reverse (`StopSource`, `CloseChannel`, `Drained`); `up` are the flows
started and not stopped. A start may fail at any flow, and the context may end at any time. A
flow is its channel, its workers and at most one flow-ref; `BoundFlow` has the rest. A message of a
source and the messages sent on from it are invocations `<<m, 0>>`, `<<m, 1>>`, ..., and `FlowOf`
says through which flow each runs: a constant that `CallsAssumption` ties to `Source` and `Ref`.
`Rekey` is why they are different events (`EventID`). `Lookup`, `Send` and `Receive` are `flowRegistry.Call` in the
steps at which other goroutines come between, `Publish` and `Deliver` the two halves of
`onFlowEvent`, before and after it lets go of the lock. A dropped message is answered like a
completed one. `StartFails` says nothing of the flow that failed, whose goroutines the code leaves
running (a hazard without a property): it has taken no message.

### Claim and K8sLease

`Claim` has one name, the handle it is claimed for, whether that claim may be found expired, and
each handle's life. `K8sLease` has the Lease object: `owner` is the handle whose write it is, `age`
the ticks since. Only whether a `resourceVersion` is the present one matters, so `holds` (the
handle's field) and `got` (its last read) are sets of handles whose version is present. Each request
is a step at the server that may fail, or land with its answer lost. Clocks differ by at most
`MaxOffset`, less than the TTL. `age` is 0 when a write lands, where the code stamps the time just
before the request; ticks are free, so the same handovers are reached. The refinement mapping makes the object's owner the holder and
lets the claim lapse when any replica would find it expired.

### AgentRun

An invocation lands on its replica (`Home`), offers its message to the run in the registry
(`Local`), or claims the conversation (`Acquire`, `Subscribe`, `Take`), or hands the message over
the conversation's subject (`Deliver`, `HandleDelivery`, `TimeOut`, `Pause`, up to `Attempts`
times). The run is the invocation that claimed: `Load`, then `Turn`, `Model`, `Tools` until it
answers, is stopped, fails or runs out of turns, with `Write` and `Rewrite` for the working memory,
then the deferred calls in their order: close the run, unsubscribe, release the claim, deregister.
`Load` finds the stored turns, finds none it can decode (the run starts from nothing and may save
over them), cannot read them (the run is `blind` and saves nothing) or fails. The claim's variables
are those of `Claim`, and its actions are used here (`Grant`, `Renew`, `Lapse`, `End`). `taken`,
`gaveUp`, `superseded` and `lacking` are history variables.

### StandaloneKV

A namespace is one key: its version and the number of the change that made it so. `Set` and
`Delete` mark it dirty and nudge the flusher; `Wake`, `Elapse`, `Copy` and the steps of
`snapshot.write` follow, with `WriteFailed` at each. `visible` is what the directory shows, `maybe`
what a power loss may leave of it: a rename is certain only after `SyncDir`, and only on a file
system that syncs directories (`dirSync`); on others the sync's error is tolerated and a power loss
may leave any file since the start. `Boot` is `newStore` with `load`: any set of files may be skipped
as unreadable, and their namespaces start empty (`skipped`, until they change). The disk is the only
part modelled from outside the source.

### Deployments

Each call of `Deploy` is the id it mints. Requests to PostgreSQL and Kubernetes are steps that may
fail, and a call may be cut off between any two, its rollback included. What fails a Deploy may last
through its rollback. `informed` is the informer
cache, which lags behind `workloads`. A sweep lists workloads (from either), then rows, confirms
each orphan by name, removes rows with their Services, and then the workloads that no row names.
`fresh` are the rows touched within `reconcileGrace`, which the model, as the comment in
`reconcile.go`, takes to be longer than a deploy needs from its row to its workload. `contended` is
a history variable: the slugs that were taken while a Service or a call under them was still around.

## Runs

| Run | Result | Shows |
|---|---|---|
| `BoundFlow` | pass | `NoSendOnClosed`, `PoolOutlivesTails`, `OneTerminalEach`, `NoAddAfterWait`, `StopCompletes`, `AcceptedEnds` through traffic and shutdown |
| `ForkFlat` | pass | `NoOrphanBranch`, `NoSilentDeadlock` for forks without forks in them |
| `ForkNested` | violation | a silent deadlock with nested forks |
| `Aggregate` | pass | on one replica, whatever call of the store fails: `ExactlyOnce`, `NoSelfConflict`, `StoredHasDeadline`, `NoLeakedSlot`, `EveryMessageAnswered`, `AbsorbedGoesOut`, `LeftoverResolves` |
| `AggregateReplicas` | violation | a group delivered twice |
| `FlowCall` | pass | `NoStrandedCaller` (with the reply of its own message), `RefsResolve`, `ConnectorsOutliveFlows`, `RunReturns` |
| `K8sLease` | pass | `ImplementsClaim`, `SupersededLearns`, `NameComesBack` on replicas that claim once each |
| `K8sLeaseRejoin` | violation | a renewal that overwrites a successor of the same replica |
| `AgentRun` | pass | `AcceptedIsHandled`, `LiveRunHoldsClaim`, `TakenOnce`, `TurnsKept`, and that no invocation is stuck (deadlock) |
| `StandaloneKV` | pass | `NothingForgotten`, `FlushedSurvives`, `ReachesDisk` through failed writes, skipped files, crashes and power losses, with and without directory syncs |
| `Deployments` | pass | `SweepSparesDeployments`, `AddressIsOwn`, `ComesToAgree` |
| `DeploymentsSlug` | violation | a deployment behind the Service of another |

Each passing run also checks its module's `TypeOK`.

### The violations

- **ForkNested.** A worker of the pool runs a branch that forks, submits its branches behind the
  sibling branch and waits. With one worker, two branches and a queue of four nothing is ever full:
  every goroutine waits and `Submit` never panics, against the comment on `Submit` and
  `docs/processing-pipeline.md`.
- **AggregateReplicas.** Replicas 2 and 3 read the group {a1} at version 1, each completes it with
  its own message, and both deletes succeed, the second because the key is gone. a1 is delivered
  twice. The same version checks have a second weakness: a deleted group that is opened again
  starts at version 1, so a replica holding the old version 1 overwrites it and loses its messages
  (this takes a fourth message).
- **K8sLeaseRejoin.** r1 holds the name with h1 and is late; the claim lapses and r1 takes it over
  with h2. The renewal of h1 reads the object, finds r1's identity, and writes over h2's claim with
  the version it has just read, against the comment on `heldLease.version`. h1 then has the present
  version, so its `Close` deletes the object h2 relies on. The runs of an agent do this when a
  conversation comes back to the replica that stalled.
- **DeploymentsSlug.** d1 is undeployed: its workload and its row are gone, its Service is not yet.
  d2 takes the slug, which no row has, finds the Service and is content: it is up at an address that
  selects d1's pods, against the comments on slugs in `service.go` and `deploy.go`. Nothing has
  failed. When the Undeploy or the sweep then fails to remove the Service the state stays so, which
  is more than the "nothing but space" of `reconcile.go`.

### What the passing properties leave out

Some properties name an exception that the model reaches; each is a hazard of the code.

- `StoredHasDeadline` excepts `missing` groups: the update of the index was given up after the group
  was stored, or the slot was given back under it. The second: a2 claims ga, a1 is admitted on that
  claim; a2's fold fails and releases the stripe; a1 opens and indexes ga; a2 gives "its" slot back.
  Either way the group stays out of the reaper's reach until another message of the key arrives, and
  if none does its messages stay in the store: that is the exception of `AbsorbedGoesOut`.
- `NoLeakedSlot` excepts `leftover` entries, which count against `maxGroups`; `LeftoverResolves` says
  that the reaper clears them or their group comes back. Without `completionTimeout` there is no
  reaper, and they stay until a message of the key or an eviction meets them.
- No property says that `maxGroups` is kept: a1 opens ga, a2 and a3 are admitted because ga has a
  slot, a2 completes ga and frees it, b1 claims it for gb, and a3 opens a new ga.
- `AcceptedIsHandled` speaks of runs that answer or run out of turns. A run that is stopped, is
  refused or fails is closed with what it had accepted, and nothing reports it.
- `TurnsKept` is about each save by itself. It excepts a save of a superseded run (which, when it
  loses the version check, writes its own transcript at the new version), of a run that had read
  before such a save, and of a run for which the stored memory did not decode.
- `TakenOnce`: a message whose delivery timed out while it was accepted may be taken twice.
- `FlushedSurvives` is about namespaces that have a file: a removal that failed in its sync is
  retried as a removal of nothing, which is not synced. It does not bind memory whose file was
  skipped at the load (its first change replaces that file), nor what a power loss leaves on a file
  system that does not sync directories; from there on it holds again.
- `AddressIsOwn` excepts `contended` slugs, which `DeploymentsSlug` is about. One that takes the slug
  of an undeploy under way may also have its own Service deleted by it.

The comment on `Reconcile` (`reconcile.go:47-52`) says rows come first so that the same sweep collects
the workload a deleted row orphans. In the code and in the model a row is deleted only when its
workload is in no listing, so there is nothing to collect: the remark is idle, and no behaviour
contradicts it. The comment on `renewDivisor` (`leases.go:30-33`) says that two renewals may be lost
before the claim is at risk; the renewal loop gives the claim up at the first error of `extend`, and
`ExtendFails` takes the code's word (a hazard without a property).

### Bounds

- `BoundFlow`: one goroutine of each kind, each with a channel or a queue of one, so that a tick
  finds the channel full and a tail the queue; a takeover block in the chain and one in the error
  chain, so that a tail that fails resumes a tail; three invocations. `AcceptedEnds` and
  `StopCompletes` hold for finitely many invocations: an error chain whose tails always fail resumes
  tails without end, and then stop waits for ever (a hazard without a property).
- `ForkFlat`: two messages with two branches each, four tasks on a queue of three: both the
  panic and the clean end are reached. `ForkNested` needs one message.
- `Aggregate`: two messages for a group of two and one for another, with one slot: a group
  completes, is evicted or expires, is opened again during its delivery, and loses its slot;
  two attempts (`Attempts`) reach both a retry and giving up; one error of the store or refused
  delivery, at any moment, next to a fold that fails. The theorems are about any number of them. One
  replica never meets a version conflict (`NoSelfConflict`), so the retry of `foldLocked` matters only
  in `AggregateReplicas`.
- `FlowCall`: two sources, a chain of two waiting calls and a one-way call that competes for the
  last flow, with one worker and one place in each channel: every kind of wait can be for a flow that
  is being stopped. Calls in a circle are excluded by `Depth`.
- `K8sLease`: a holder, a successor and a challenger; one clock ahead by `MaxOffset` = 1 tick of a
  `TTL` of 2, so that a claim is expired for one replica and not for another. `K8sLeaseRejoin` needs two
  handles of one replica.
- `AgentRun`: a run, a second message that joins or succeeds it, and a stop, over two replicas; two
  attempts, two iterations, and one fault of any kind at any moment.
- `StandaloneKV`: two namespaces in one flush and one that is not written; three changes, two failed
  file operations or loads and one death, enough for a change during a write that fails before a
  crash whose load skips a file.
- `Deployments`: two deployments that want the same slug, one sweep after another of one
  orchestrator replica, one fault, where a Deploy that fails and a rollback that fails with it in any
  of its parts count as one. A second sweeper or fault gives more states than a run can visit; the
  theorems are about any number of both.

### Fairness

Only what Go's scheduler and the code guarantee. Weak fairness: a goroutine that can step, steps,
and blocks return; a select with a ready case goes on. Strong fairness: `ReaperExit`, because a
select picks at random among ready cases and the ticker cannot win for ever; `LockStep`, because
`sync.Mutex` hands the lock to a waiter that has starved for a millisecond. In `Aggregate`, time
passes (`Expire`) and the ticker ticks (`Sweep`). In `FlowCall` blocks return; in `K8sLease` time
passes and requests come back, whatever they say; in `StandaloneKV` the flusher's timer fires; in
`Deployments` requests are answered, the ticker of `startReconciler` ticks, time passes and informers
catch up. Nothing is assumed to make a source fire, a block fail, a delivery be refused, a flow be
stopped, a name be claimed or released, or a deployment be asked for. `AgentRun` assumes nothing: a
model call may take for ever. `CHECK_DEADLOCK FALSE` stands where a liveness property
is the deadlock check, so that a stuck goroutine is reported by the property.

## Proofs

TLAPS proves every invariant and every action property that a passing run checks, what a fork
answers (`ForkResult`), and the refinement of `Claim`, for all values of the constants: any number of messages, workers, replicas,
handles, namespaces, deployments, faults. The bounds of the runs matter only for liveness. What is
assumed of the constants is in the `ASSUME`s, which TLC evaluates on every run: capacities and sizes
are positive (`pool.New`, `resolveBuffer` and the checks of the settings make them so), kinds of
goroutines are disjoint, clocks differ by less than the TTL, each flow has its own place in the
configuration, and calls do not go in a circle (`CallsAssumption`). The theorems
of two modules have a condition of their own: one replica of the aggregate, and no replica that
renews a lease it has claimed anew.

Every proof has the same form: an inductive invariant `Inv`, checked by TLC on the runs' instances
before it was proved; a lemma that `Init` implies it; one lemma per part of it, with a step per
action; and theorems that read the properties off. But for a `TypeOK` or two, no property is
inductive by itself. What each `Inv` adds is why the property holds:

**BoundFlowProofs** (`TypeOK`, `NoSendOnClosed`, `PoolOutlivesTails`, `OneTerminalEach`,
`NoAddAfterWait`, and `InflightCountsTails`: the in-flight count is the number of unfinished tails).
Where each invocation is: one in the channel, the queue or on a stack has the status and the owner
that go with it, each appears once, and no other appears there. A goroutine that has returned holds
nothing, a reaper holds something only inside a sweep. What each wait of `stop` has established and
no later step can undo: after the ticks no message is being sent; after the workers the channel is
empty; after the blocks the reapers have returned; after `inflight` no tail is unfinished.
`NoAddAfterWait` follows because in the phase `inflight` only pool workers are left, a pool worker
resumes only from inside a tail, and that tail is still counted.

**ForkPoolProofs** (`TypeOK`, `NoOrphanBranch`, `ForkResult`). First that chains make a forest:
`Branch` and `Parent` are inverse, a branch has one fork, a message's own chain has none. Then how
far a fork is bounds how far its branches are (`Phase`: none begun before it, an initial segment
submitted while it runs, all of them when it waits), and its flags hold what every ended branch
reported (`Report`).

**AggregateProofs.** For any number of replicas: `TypeOK`, what a goroutine has in hand at each step
(`HandInv`, `MessageInv`), and that a stripe of a replica is held by one goroutine (`LockInv`).
The theorems about the store's contents are for one replica (`OneReplica`); with more,
`AggregateReplicas` refutes `ExactlyOnce`. Any call of the store may fail in them. There the lock
gives `HeldInv`: what a goroutine read, stored or took out under the stripe stays so until it lets
go. `NoSelfConflict` is its first part; its premise is one replica, so that theorem needs no other.
`IndexInv` is `StoredHasDeadline` and `NoLeakedSlot`, which hold each other up: who is behind a group
without its entry and an entry without its group, with the updates that were given up in `missing`
and `leftover`. `OnceInv` says the places of a message exclude
each other, and `OnceCounts` turns that into the cardinalities of `ExactlyOnce`.

**FlowCallProofs** (`TypeOK`, `NoStrandedCaller`, `RefsResolve`, `ConnectorsOutliveFlows`). The flows
that are up are an initial segment of the order of start, all of them open but the one being
stopped (`UpInv`); an invocation under way is in a flow that is up (`PlaceInv`); a message is sent on
once, by an invocation that reached its flow-ref (`ChainInv`); an event ID is known to the registry
under itself and nothing else (`CallInv`).

**K8sLeaseProofs** (`TypeOK`, `ImplementsClaim`, `RenewalSparesSuccessor`). What a present version
says of the object: a challenger's, that it has expired for the challenger; a renewal's and a
handle's own, that the object is still that handle's (`VersionInv`). With it every step maps to a step
of `Claim` or to none. `VersionInv` is an invariant only as long as no replica has a renewal under way
for one handle while another of its own handles has the name (`OneRenewsPerReplica`), because a renewal
recognises its object by the replica's identity. So the theorems are about behaviours on which that
holds, and `ImplementsClaimOnce` about replicas that claim once each, where it always does;
`K8sLeaseRejoin` is the behaviour that breaks it.

**AgentRunProofs** (`TypeOK`, `LiveRunHoldsClaim`, `AcceptedIsHandled`, `TakenOnce`, `TurnsKept`). A
working run holds the claim or was superseded (`HeldInv`); what a registry has is a run of its
replica, closed before it unwinds (`RegistryInv`); a run with its answer takes nothing more
(`HandledInv`); a message whose invocation never gave up is in one place (`OnceInv`); a run that can
save, was not superseded and is not `lacking` carries all the stored turns (`KeptInv`).

**StandaloneKVProofs** (`TypeOK`, `NothingForgotten`, `FlushedSurvives`). A copy under way that is not
what memory holds is of a namespace marked again, with somebody to flush it (`StaleInv`); a namespace
whose file was skipped is neither marked nor being written, so its file is safe until it changes
(`SkipInv`); no copy under way is older than what was last reported as written (`AgeInv`).

**DeploymentsProofs** (`TypeOK`, `SweepSparesDeployments`, `AddressIsOwn`), for any number of sweepers,
where the run has one. Nothing is known to a table, the cluster or a sweep before Deploy has come that
far, and a row without its workload is fresh (`RowInv`); what each loop of a sweep knows of its
target (`SweepInv`); one deployment at most can still touch the Service of an uncontended slug
(`SlugInv`).

Only model-checked: liveness (`StopCompletes`, `AcceptedEnds`, `NoSilentDeadlock`,
`EveryMessageAnswered`, `AbsorbedGoesOut`, `LeftoverResolves`, `RunReturns`, `SupersededLearns`, `NameComesBack`,
`ReachesDisk`, `ComesToAgree`), since fairness and `ENABLED` are out of the prover's reach.

## Plan

Every safety property of a passing run is proved. What could be added, in this order:

1. For several replicas of `Aggregate`: what remains of `ExactlyOnce` (a message is stored, taken out
   and delivered only with the group of its key, and only after its fold committed).
2. The state facts liveness rests on, as invariants: that something of the system can always step
   until stop, a call or a message is over.
3. What `Claim` itself guarantees a holder, carried over to `K8sLease` and `AgentRun` by the
   refinement.

## Not modelled

- Data: what blocks, expressions, schemas and mappings compute; the contents of messages; split's
  numbering and the accumulator of aggregate; compaction of transcripts.
- In `Aggregate`, a call of the store that lands and reports an error all the same.
- The tool gates, event paths and streaming of the agent: they choose what the model is told, not who
  runs and what is saved.
- Connectors to external services, telemetry sinks, topics, the queue source, and leader election,
  which is client-go's.
- Of the orchestrator: `Scale` and `Rollout` (read, patch, write of one row; two at once can lose a
  settings update), test runs, the agents' sweep, the ConfigMap and Secret of a deployment; the HTTP
  APIs over PostgreSQL, and the observability and IAM services.
- Command-line tools, user interfaces, editor packages, API descriptions and charts.

Most of the repository's lines are in these last groups: adapters, handlers, queries and user
interface without concurrent state of their own. The models cover the files where goroutines,
replicas or crashes meet, and only a small part of the whole.
