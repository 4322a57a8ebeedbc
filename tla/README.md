# A verification project for iterion

Iterion runs agent workflows. A `.bot` file is compiled to a graph, an engine
executes it node by node, and the control plane launches, cancels, resumes and
recovers runs: on one host, or in the cloud with a MongoDB store, a NATS work
queue, a pool of runner pods and replicated server processes.

This directory holds TLA+ modules of the parts whose correctness depends on the
order in which several processes act, the TLC configurations that check them on
small instances, and TLAPS proofs of the results that matter most. Paths below
are relative to `src/`.

## 1. Inventory

| Component | State it keeps | Operations | Interacts with |
|---|---|---|---|
| Lease election, `pkg/lease` | one document per lease: owner, expiry; per replica the campaign, its step-down timer, renewal ticker, `Health` | `Acquire`, `Renew`, `Release`; `Run`, `TryRun`, `serveTerm`, `renew`, `afterTerm` | every singleton of the server (sweepers, schedulers, reconcilers) runs inside a term |
| Publisher, `pkg/server/cloudpublisher` | none of its own: a submission between its flip and its rollback | `SubmitLaunch`, `SubmitResume`, `CancelRunWithReason` | writes the run document, publishes on the queue, signals the pods |
| Work queue and run lease, `pkg/queue`, `pkg/queue/nats` | messages with a redelivery budget, a KV bucket of run leases, a dead-letter stream | `Admit`, `Superseded`, `Fetch`, `Ack`/`Nak`/`Term`, `AcquireLock`, `Refresh`, `Unlock` | publisher, runner, sweeper |
| Runner, `pkg/runner` | the deliveries in flight, their cancel cause, the drain state | `processOne`: admission, lock, adoption, `executeRun`, `classifyExecResult`, DLQ park; heartbeat; shutdown | queue, store, engine |
| Run document, `pkg/store`, `pkg/store/mongo` | status, `queued_at`, failure code, checkpoint, version | conditional status updates: `UpdateRunStatusIf`, `UpdateRunOutcome`, `FailQueuedRunIfAttempt`, `RevertQueuedFlip`, `failRunCheckpointed` | everyone |
| Engine, `pkg/runtime` | the run's frontier, loop counters, budget; for a fan-out the branches, the semaphore, the event registry and the parallel checkpoint | `Run`, `ResumeWithHostInputs`, node execution, fan-out, gates, convergence, coalesced saves, terminal writes | store, backends, operator's answers |
| Orphan sweeper, `pkg/server/queue_sweeper.go` | none: one probe at a time | `sweepOrphanRuns` (queued pass, running pass) | store, queue, run lease |
| Dispatcher and board, `pkg/dispatcher` | cards with a claim (owner, epoch, lease) and a pointer to the last run; per daemon the dispatch in progress, retries, tombstones | list, claim, stamp, launch, finish, retry, renew, reap, boot sweep, shutdown | engine and run lock, operators, other daemons |
| Local run service, `pkg/runview` | live runs of this process | launch, cancel, rewind, reconcile | engine, filesystem store |
| Credential pool, `pkg/credpool` | donors' pledges, leases of runs on them, a ledger of runs and spend per day | `Acquire`, `ReleaseGrant`, `ReopenSuperseded`, `SupersedeRun`, `ReportAttempt`, `ReleaseExpired` | publisher, runner, its sweeper |
| Usage caps, `pkg/usagecap`, `pkg/runner/usage_retry.go` | last readings per provider window, armed retries | record, decide, park, arm, fire | runner, publisher |
| Schedules, `pkg/schedgate`, `pkg/cloudsched` | due instants, tick records | overlap and guard gate, fire, advance | lease election, publisher |
| Event bus, `pkg/eventbus` | bounded subscriber queues | publish, subscribe, drop | server, engine |
| Authoring lock, `pkg/authoringlock` | one flock per stored bot file, its control directory | take, release | the server's editors, formatters and installers |
| DSL, backends, sandbox, forges, auth, user interfaces | — | sequential code or I/O | — |

**What is hard here.** A run belongs to one document that the publisher, an
operator, several pods and a sweeper all write, each after having read it some
time before. Messages are delivered at least once, may be delivered after the
run has been queued again, and stop being delivered when their budget is spent.
A pod may die, be drained, or lose its lease while its engine still runs. A
publication may report an error after its message landed. A cancel is a status
write followed by a signal that may be lost. In the election, a call that timed
out may still take effect. `PROJECT.json` lists these hazards at the line where
each one bites, with the properties that would catch it going wrong.

**What makes each part correct.**

- *Lease election*: at most one replica works at a time; a late write never
  shortens a lease; a dead holder is replaced in bounded time.
- *Run delivery*: one engine per run; a delivery never acts on an attempt that
  was queued after it was published; no attempt is lost by dropping its message
  too early; a cancelled run is not made resumable again by a failure, except
  to record an undecided effect, which no cancel covers either; a finished run
  stays finished; no run is left queued or running for ever.
- *Fan-out*: durable progress is never taken back; a gate is passed only on its
  own answer; a paused run can be answered; a signal survives a restart; a join
  has all its branches; every invocation ends.
- *Dispatcher*: one engine per card; a claim is ended by its own dispatch or by
  a watchdog after its lease; no card stays in progress for ever, where the
  watchdog is switched on.
- *Credential pool*: a donor's daily limit holds, for the units that are not
  given back and, with the exception of section 6, for the runs that execute; an
  attempt is charged once, to
  the donor whose credential it used; a readmission rests on a unit in the ledger.
- *Schedules, usage windows* (not modelled): a due firing or an armed retry takes
  effect once.

## 2. Modules

| Module | What it is |
|---|---|
| `LeaseElection` | the store contract and the campaign of `pkg/lease`, with timed steps |
| `MCLeaseElection` | its TLC instances: clock skews and the time-shift view |
| `LeaseElectionProofs` | type correctness, mutual exclusion, expiries that never move back, replacement in bounded time |
| `RunDelivery` | one cloud run between publisher, queue, runner pods, engine and sweeper |
| `MCRunDelivery` | its TLC instances |
| `RunDeliveryProofs` | type correctness, stale drops, one engine, finished runs are final, cancels, fenced writes |
| `FanOut` | one fan-out of the engine: branches, slots, gates, events, the saver, the collector, restarts |
| `RunJournal` | the abstract specification: what a reader of the run document is promised |
| `MCFanOut` | its TLC instances: which nodes the branches visit |
| `FanOutProofs` | type correctness, the fan-out's safety properties, and the refinement of `RunJournal` |
| `Dispatcher` | one card of the native board and the daemons that work on it |
| `MCDispatcher` | its TLC instances |
| `DispatcherProofs` | type correctness, one engine for daemons in turn, ownership of the card, the end of a claim |
| `CredentialPool` | the leases and the ledger of the credential pool, with the submissions, runners and sweeper that use them |
| `MCCredentialPool` | its TLC instance |
| `CredentialPoolProofs` | type correctness and the pool's four safety invariants |

`RunDelivery` and `FanOut` meet at the engine: what `RunDelivery` treats as one
phase of a pod is an invocation of `FanOut`, and the one-invocation-at-a-time
that `FanOut` assumes is `RunDelivery`'s `OneExecutor`. `CredentialPool` restates
of the delivery only what the pool sees: the flip, the publication, its rollback,
the supersession rule.

Operators introduced by a comment "Mutant" are wrong variants of the definition
that follows them. No specification uses them; they exist so that each property
can be shown to fail when the code has the bug it is meant to exclude.

### 2.1 `LeaseElection`

*State.* `lease` is the document of the Mongo store (owner and recorded expiry).
For each candidate, `phase` says where `Run` is, `call` is the store call it
waits for, `timer` is the one timer that phase waits on (retry, step-down,
unwinding), `renewAt` the renewal ticker. `late` holds writes whose callers gave
up. `now` is monotonic time; a replica stamps its writes with its own wall clock,
`now + Skew[c]`, as `stamp()` does, while its step-down timer is monotonic, as
in `stepDownAt`.

*Actions.* A call takes two steps, the write landing (`Land`) and the answer
arriving (`BeginTerm`, `Refused`, `Renewed`, `Lost`, `Released`). It may also go
unanswered (`Unanswered`, `RenewFailed`, `Released`), and its write then may land
later (`LandLate`) or not at all. `TryAcquire`, `Renew`, `StepDown` and
`FnReturns` are the steps of `Run`, `renew` and `serveTerm`; `Shutdown` cancels
the context, and `Crash` kills the process. `Tick` lets time pass only while no
timer is overdue: timers are prompt, and the package's own comment
(`lease.go:4-11`) excludes a process that stalls past them.

*Left out.* `TryRun` is one round of the same campaign. `Health` is reduced to
what the campaign sees of it: a term may end in a hand-over, after which the wait
is longer by `Backoff`.

### 2.2 `RunDelivery`

*State.* `run` is the run document. `submit[k]` is attempt `k` at the publisher
(attempt 1 the launch, the others resumes) with what its flip replaced, `msg[k]`
its message, `runner[r]` what pod `r` does with its delivery, `lock` the run's
lease in the KV bucket, `signal` a cancel whose status is written and whose
signal is not yet sent, `probe` what the sweeper has read and not yet acted on.

*Time.* Instants are abstracted to the order of attempts. `store.NextQueuedAt`
and `store.PublishAt` make each marker later than the one before and each
message's `published_at` fall between its own marker and the next, so
`Superseded`, which compares two instants, becomes `run.queuedAt > m`. This takes
the servers' clocks as agreeing: `NextQueuedAt` floors a marker against the
markers before it, never against an earlier publication, so a marker stamped by a
server whose clock is behind that of the earlier publisher may not be later than
the earlier message, which is then not superseded. What the models show of stale
deliveries is therefore relative to that skew being smaller than the time between
two attempts.

*Actions and code.*

| Actions | Code |
|---|---|
| `SubmitResume`, `Publish`, `PublishFails`, `Rollback`, `PublisherDies` | `SubmitLaunch`, `SubmitResume` and their deferred rollbacks |
| `CancelRun`, `SignalCancel` | `CancelRunWithReason`: the status, then core NATS |
| `Fetch`, `RejectMismatch`, `Admit`, `StoreUnread` | `Run`, `handleAdmissionMismatch`, `resolveDeliveryPreconditions`, `dispositionForStatus`, `queue.Admit` |
| `LockDeferred`, `AcquireRunLock` | `archiveLockFailure`, the lock and the re-read under it in `processOne` |
| `LeaveYoung`, `AdoptOrphan`, `AdoptUnanswered`, `AdoptMoved` | `adoptRunningUnderLock` |
| `FailBeforeClaim`, `RefuseBundle`, `RefuseResume` | `executeRun` before the engine, the guards of `ResumeWithHostInputs` |
| `StartLaunch`, `LoadResume`, `ClaimResume` | `runResolveDoc`, `runStartQueued`, `casResumeClaim` |
| `EngineSettles`, `EngineFails`, `EngineInterrupted`, `EngineCancelled` | the terminal writes of the engine |
| `EngineFailsPlainly`, `EngineUnrecorded` | a `failed` written without a condition (`recordSetupOutcome`, the fallback `failRunErr`); a last write that is refused (`unpersisted`, `publishRunFinished`) |
| `AckOutcome`, `NakOutcome`, `ParkOnDLQ`, `EndSuperseded` | `classifyExecResult`, `releaseRefusedResume`, `parkOnDLQOnFinalDelivery`, `supersededAfterEngine` |
| `Interrupt`, `LeaseLapses`, `Crash`, `LockExpires`, `AckWaitPasses` | drain and heartbeat; external faults and timeouts |
| `SweepProbe`, `SweepFlip` | `sweepOrphanRuns`, its probe and its write apart |

*Abstractions.*

- Everything an engine does between its claim and its terminal write is one
  phase; `FanOut` looks inside it.
- Letting the lock go and answering the queue are one step. The code answers
  first; a pod that dies in between is `Crash` before the answer, or a lock that
  the next delivery finds held, which `LockDeferred` covers.
- A failure code is one a redelivery may outlast, one it cannot change, or an
  undecided effect (`FailureAmbiguousEffect`), which no redelivery resumes either
  and on which cancels and failures decide: `failRunCheckpointed` does not write
  over a cancel, unless with that code, and no cancel is written over it.
- The adoption floor and the sweeper's floor are not timed. `FloorHolds` says
  that a lapsed engine is gone once they have passed; the runs and proofs say on
  which side of that assumption they are.
- The sweeper's cut-off for queued rows (the redelivery window and an idle
  consumer) is: no message of the run can be delivered any more.
- A store outage is modelled where the code decides on one: the admission read,
  the re-read under the lock, the promotion of an orphan, the re-read after a
  superseded engine, and the last write of the engine, which is retried as a plain
  `failed` and then given up. Elsewhere a failed write ends the delivery with an
  error.
- Not modelled: the tenant mismatch (a `Term` with an alarm), the launch that
  parks before its publication, the explicit-resume mark left by a rewind, the
  routes that only a message without a usable `published_at` takes, and the
  terminal write of a borrowed child run (`child_resources_cleanup.go`).

### 2.3 `FanOut` and `RunJournal`

*State.* `doc` is what the store holds of the run: status, parallel checkpoint,
fired event, pause pointer. `mem` is the checkpoint in memory, `lock` and `snap`
are `saveMu` and the snapshot its holder is about to write, `dirty` the coalesced
crossings that are not yet written. `branch[b]` is a branch goroutine with its
program counter, position and result; `held` the semaphore slots, `fired` the
event registry, `turn` the barrier behind which an answered branch goes first.
`phase`, `collected` and `verdict` belong to the collector and the trunk.
`answers` is a history variable: the gates an operator has answered.

*Actions and code.*

| Actions | Code |
|---|---|
| `WaitTurn`, `PassTurn`, `AcquireSlot`, `ReacquireSlot` | `waitResumeTurn`, `branchSlot`, the head of `execBranch` |
| `StartNode`, `NodeReturns`, `NodeFails`, `RefuseBudget`, `Advance`, `CompleteBranch`, `ObserveCancel` | the loop of `execBranch` |
| `EmitEvent`, `ParkOnEvent`, `AwaitEvent` | the event nodes in `special_node.go` and the registry |
| `ReachGate`, `PauseRun`, `ConsumeAnswer`, `AdvanceGate` | `beginPause`, `PauseRun`, `checkpointResumedBranch` |
| `SaveBranch`, `CheckpointCut`, `PersistSpend`, `AbandonResume`, `SaverWrites`, `SaverLands` | the writers of `parallel_checkpoint.go`, each as a snapshot under `saveMu` and a write |
| `Panic`, `Recover`, `Deliver`, `CollectResult`, `EndCollect`, `Retire`, `Flush`, `Settle` | the launcher's recovery, `collectBranches`, `retire`, the trunk |
| `RecordAnswer`, `ClaimAnswered`, `ClaimFirst`, `PersistAnswer`, `ResumeFailed` | `resumeParallelPause` on either host, `resumeFromFailure` |
| `ContextEnds`, `Crash` | cancel or drain; the death of the process with the recovery that marks the run failed |
| `ReconcileOrphan` | `reconcileOrphans` or the queue sweeper, on a run whose last write was refused |

*Abstractions.* A branch's path is unrolled into a sequence of node kinds, loop
iterations included, so a cursor is a position. Outputs, artifacts and what a
budget counts are left out; that a node, an output or an edge is refused is a
choice. `Faults` says which disturbances an instance admits; "store" makes writes
fail. The trunk's last write is `Settle`: a failure with its checkpoint
(`Recorded`), or what is left when the store refuses it (`Unrecorded`): the
fallback's plain `failed`, status "ended", which nothing resumes, or the document
as it was, still running or paused, while the caller is told
(`run_failure.go`, `unpersisted`). A cut is written on a context that has ended,
which a store may honour even when it works. One invocation of a
run at a time is assumed (`RunDelivery`). Nested fan-outs, `for_each` fan-outs
over a list, and the sequential part of the workflow are not modelled.

*The abstract specification.* `RunJournal` states what a reader of the document
(the studio, an operator, the next resume) is promised, with no goroutines and no
snapshots: progress only grows, a gate is passed only once it was answered, one
question is open at a time and asked from the gate its branch is parked on, a
joined fan-out is final. `FanOut!KeepsJournal` instantiates it with `doc` and the
history of answers. Everything volatile (`mem`, locks, slots, the saver) is
hidden: every step of it has to show as a journal step or as a stutter.

### 2.4 `Dispatcher`

*State.* `card` is one issue of the native board: column, claim (owner, whether
it is a recovery claim, epoch), whether its lease is fresh, its last run. `run`
and `lock` are each run's status in `run.json` and its file lock. Per daemon:
`pick` the dispatch command in progress, `entry`, `retry` and `tomb` the actor's
maps, `work` the worker goroutine, `fins` the finish workers, `reap` the
watchdog's pass.

*Actions and code.* `ListCandidates` to `resolveRunID` are the dispatch command
(a listing applied late, the holds before the claim, the claim, the choice of the
run). `runDispatchSetup` to `WorkerEnds` are the worker; `finishRun` decides by
the class of the error, and `FinishMove` then `FinishRelease` are the goroutine
that carries the decision out. `RefreshStates`, `ClaimLost`, `Stalled` and
`ForceReap` are the reasons to interrupt a worker. `ReapLoad`, `ReapTake`,
`ReapFile` and `ReapRelease` are the watchdog's pass: it reads the run before it
takes the claim. It runs in the daemons of `Watchdogs`, those started with
`ITERION_BOARD_CLAIM_REAPER` on; the code's default is off
(`startClaimReaper`, `reaper.go:131`). `Start` is the boot sweep, `Shutdown` and `Crash` the two ends of
a daemon. `Drag`, `CancelRun` and `ConsoleResumes` are operators.

*Abstractions.* Operations of the board are atomic for all daemons, which is the
contract of `tracker.ClaimLeaser`; that the native store's in-memory index may
lag behind another process's write is not modelled. Epochs are compared for
equality only, so a claim takes a small one nobody remembers, which keeps the
state space finite. The sweeps over parked cards are one step each. Time is left
out: the stamp window and the orphan grace only delay steps, and a force-reap may
follow any interruption. Not modelled: workspaces and their owner files, the
clearing of `last_run`, deleted cards, dependencies between cards, the cost cap,
slots shared by several cards, the GitHub and Forgejo trackers.

### 2.5 `CredentialPool`

*State.* `used` is the ledger's count of runs per pledge, `leases` the lease
documents in the order of acquisition, `doc`, `msg` and `deliv` what the pool's
callers see of a run, `sub` the submission of each attempt as far as it has got,
`reports` the reports that have read their lease and not yet written. `payers`
and `settled` of a lease are history: which attempts charged it and how often it
was settled. `overlapped` is history too: the runs that were submitted again
before an earlier submission had returned.

*Actions and code.* `Submit` is the flip to queued; `SupersedeOpenLeases`,
`Renew`, `Reserve`, `Rollback`, `Unusable`, `Put` and `NoDonor` are `Acquire`, one
store operation each. `Publish` or `SubmissionFails` follow, and after a failure
the deferred undoing in the code's order: for a launch `FailRunAtLaunch` then
`ReleaseGrant`, for a resume `ReleaseGrant`, `RevertQueuedFlip`,
`ReopenSuperseded`. `EndExecution` reads the lease (`attemptLease`) and
`ReportAttempt` writes by what was read. `ReleaseExpired` is the sweeper.

*Abstractions.* One day: reservation, refund and charge all use the bucket of the
acquisition's own instant. Servers' clocks are taken as agreeing:
`nextAcquiredAt` floors an acquisition against the run's earlier leases only, so
a publication is placed among the acquisitions as by one clock. The spend ceilings and the concurrency reading decline
softly, from readings taken before, so a decline is a choice. The list of open
leases and their closing are one step, and so are the acquisition floor and
`Put`. An execution that never ends is a pod that died. Not modelled: tenants,
ranking, credential health and cooldowns, the fallback door's second grant, a
launch parked on a full credential slot, the release by the dead-letter queue's
admission, errors of the lease store during a supersede: there the acquisition
goes on (`broker.go:866-868`, `:887-889`) and does leave two leases open, so
`OneOpenLease` is about a lease store that answers the supersede.

## 3. Runs

Each passing run has, for each of its properties, a mutant under which TLC finds
that property violated.

| Run | Instance | Shows |
|---|---|---|
| `lease_exclusive` | two replicas, one clock a tick ahead, TTL 18 (margin 3), unwinding 1, faults, lag 2 < Retry 3 | `Exclusive` |
| `lease_takeover` | a store that answers; TTL 6 with a clock 3 ahead, so a term can find its lease taken | `TypeOK`; `Replaced`: a dead holder is replaced within Retry and the time of two calls after its expiry; `ExpiryNeverMovesBack` |
| `delivery_safety` | two pods, a launch and a resume, two deliveries each, leases kept | `TypeOK`, `OneExecutor`, `StaleDropIsFinal`, `FencedStepsKeepNewerAttempt`, `CancelOutranksFailure`, `FinishedIsFinal` |
| `delivery_lapse` | one delivery each, leases lapse, floors do not hold | `FencedStepsKeepNewerAttempt`, `CancelOutranksFailure`: what the store fences, and its exception for an undecided effect, does not rest on the lease |
| `delivery_liveness` | one pod that may crash, two attempts, two deliveries each | `NeverStranded` |
| `delivery_dlq_park` | as `delivery_safety` | violated: section 6 |
| `fanout_gates` | two branches, an emitter with a gate and a waiter with a loop crossing and a gate; every fault, refused last writes included; two invocations | `TypeOK`, `PausedIsAnswerable`, `NoLostSignal`, `UndecidedStops`, `JoinComplete`, `DurableNeverRegresses`, `EndsFinal`, the refinement `KeepsJournal` |
| `fanout_joins` | two branches on one slot: a waiter with a loop crossing, and its emitter with two gates in a row; failures, panics, cuts and executors that ignore their cancellation; three invocations; an operator who answers | `GateNeedsAnswer`; liveness `Settles`, `Joins` |
| `dispatcher_safety` | two daemons that may overlap, two runs, two attempts, one intervention, leases kept | `TypeOK`, `DispatchOwnsCard` |
| `dispatcher_lapse` | two daemons in turn, both with the watchdog, three runs, one attempt, one intervention, which may be the lapse of a live lease | `OneEngine`, `ClaimEndsWithItsDispatch`; liveness `NeverStranded` |
| `pool_accounting` | one donor with one run a day; three submissions by two runs, of which one may be launched and resumed twice | `TypeOK`, `DailyCeiling`, `RenewalHasUnit`, `OneOpenLease`, `ChargedOnceToItsDonor` |
| `pool_lost_charge` | the same | violated: section 6 |

**Bounds.** In the election nothing depends on how late it is, only on how far
apart two instants are. `AgeView` therefore identifies states that differ by a
shift of time and cuts off expiries older than any stamp that can still arrive;
the search is finite with no bound on `now`, and terms of every length are
covered. Two candidates are enough for a pair to conflict; the theorem covers any
number. TTL 18 is the smallest value whose margin exceeds a skew of 1 plus an
unwinding of 1; with margin equal to their sum TLC finds a violation, so the
condition is tight.

In the delivery two attempts give one supersession, and two deliveries per
message a first and a last one, which the code treats differently. Two pods give
every race of a delivery with another. `MaxAttempts` and `MaxDeliver` are guards
of the model; the theorems hold for all their values.

In the fan-out two branches whose gates compete, two invocations (a restart after
every kind of end) and all faults cover the pairwise races on the one checkpoint;
the saver is on. In `fanout_joins` one slot makes a waiter hold what its emitter
needs. Three invocations are what a join without a stop takes: two gates in a
row, asked one by one. A branch that fails, panics, is cut or is wedged in each
of them, before or after its answer, is what `Settles` has to survive: with the
collector's grace taken away TLC finds it violated. `Joins` says "or the
invocations are used up", which a stop can bring about. That the losers of a gate
election are asked in turn is checked as safety only, in `fanout_gates`: its two
invocations leave no room for it.

On the board two daemons give an owner and a successor. `MaxOps` bounds
interventions and faults together: one drag, cancel, console resume, stall, lapse
or failing set-up, at any point, on top of any number of crashes and shutdowns.
`NRuns` bounds the fresh runs of the card; `NeverStranded` says "or the bound is
reached" and a third identifier leaves room for two re-dispatches.

In the pool three submissions in all, by two runs, give both the competition of
two runs for the donor's last unit and, in one run, a refused takeover followed by
another one and submissions that overlap; the first attempt is delivered twice, so
that it reports both interim and finally, before and after it is superseded. With
one run a day the second run of a donor is what exceeds the limit. Without the
exception for released attempts in `DailyCeiling` TLC finds it violated.

Deadlock is not checked: a settled run with no attempt left, a campaign that is
down, a finished card or fan-out stops.

**Fairness.** In `RunDelivery` (`FairSpec`), a pod goes on with a delivery it has
(`Serve`): each of its calls is bounded by a context, and an engine by its node
timeouts and the run's budget. The queue offers a ready message and takes back
one whose pod is gone (`AckWait`). A dead pod's lease reaches its TTL. A
submission that is not cut off ends. The sweeper's ticker keeps firing.

In `FanOut` (`FairSpec`), the Go scheduler runs each goroutine that can go on; an
executor returns, except that a wedged one, which ignores its cancellation, is
promised nothing: the collector's grace has to end the wait for it. `AnsweredSpec`
adds an operator who answers and resumes, and the ticker of the orphan scan (on by
default, `ITERION_ORPHAN_RECONCILE_INTERVAL`); it is used where a property is about
questions being asked until the fan-out joins. Crashes and store errors are off
there.

In `Dispatcher`, daemons boot, the actor's loop, the workers, the finish workers
and, in the daemons that have it, the watchdog's ticker get to run, an engine or a console resume ends, and a
lease that nobody renews runs out. `NeverStranded` promises something only where
every daemon runs the watchdog (`Watchdogs = Daemons`), which an operator has to
switch on: by default the card of a daemon that died on another host stays in
`in_progress`. Interrupting a worker is not assumed. Nothing
is assumed anywhere of faults or of which of several outcomes occurs: fairness is
weak and on the disjunction.

## 4. Theorems

All are checked by tlapm to the last leaf, for every value of the constants that
the named assumptions allow.

| Theorem | Statement | From |
|---|---|---|
| `LeaseElectionProofs!TypeCorrect` | `Spec => []TypeOK` | `DurationAssumption` |
| `LeaseElectionProofs!ExclusiveTerms` | `Spec => []Exclusive` | `ClockBound`: the difference of any two clocks plus `Unwind` is below the margin TTL/6; `LagBound`: `MaxLag < Retry` |
| `LeaseElectionProofs!ExpiryHolds` | `Spec => ExpiryNeverMovesBack` | `DurationAssumption` |
| `LeaseElectionProofs!ReplacedHolds` | `Spec => []Replaced` | a store that answers (`~Faulty`), `ClockBound`, `LagBound`, `TakeoverBound` |
| `RunDeliveryProofs!TypeCorrect` | `Spec => []TypeOK` | `BoundsAssumption` |
| `RunDeliveryProofs!StaleDropHolds` | `Spec => []StaleDropIsFinal` | `BoundsAssumption`; leases may lapse |
| `RunDeliveryProofs!OneExecutorHolds` | `Spec => []OneExecutor` | `Lapses = FALSE` |
| `RunDeliveryProofs!FinishedHolds` | `Spec => FinishedIsFinal` | `Lapses = FALSE` |
| `RunDeliveryProofs!CancelHolds` | `Spec => CancelOutranksFailure` | `BoundsAssumption`; leases may lapse |
| `RunDeliveryProofs!FencedHolds` | `Spec => FencedStepsKeepNewerAttempt` | `BoundsAssumption`; leases may lapse |
| `FanOutProofs!TypeCorrect` | `Spec => []TypeOK` | `BranchesAssumption`, `ProgAssumption`, `ParametersAssumption`, as all of `FanOutProofs` |
| `FanOutProofs!PauseAnswerable` | `Spec => []PausedIsAnswerable` | |
| `FanOutProofs!GatesAnswered` | `Spec => []GateNeedsAnswer` | |
| `FanOutProofs!SignalsKept` | `Spec => []NoLostSignal` | |
| `FanOutProofs!AmbiguityStops` | `Spec => UndecidedStops` | |
| `FanOutProofs!JoinsComplete` | `Spec => []JoinComplete` | |
| `FanOutProofs!NeverRegresses` | `Spec => DurableNeverRegresses` | |
| `FanOutProofs!EndIsFinal` | `Spec => EndsFinal` | |
| `FanOutProofs!ImplementsJournal` | `Spec => KeepsJournal` | |
| `CredentialPoolProofs!TypeCorrect` | `Spec => []TypeOK` | `PoolAssumption`, as all of `CredentialPoolProofs` |
| `CredentialPoolProofs!CeilingHolds` | `Spec => []DailyCeiling` | |
| `CredentialPoolProofs!RenewalHolds` | `Spec => []RenewalHasUnit` | |
| `CredentialPoolProofs!OneOpenHolds` | `Spec => []OneOpenLease` | |
| `CredentialPoolProofs!ChargedHolds` | `Spec => []ChargedOnceToItsDonor` | |
| `DispatcherProofs!TypeCorrect` | `Spec => []TypeOK` | `DispatcherAssumption`, as all of `DispatcherProofs` |
| `DispatcherProofs!OneEngineHolds` | `Spec => []OneEngine` | `Overlap = FALSE`: daemons take turns; leases may lapse |
| `DispatcherProofs!DispatchOwnsHolds` | `Spec => []DispatchOwnsCard` | `Lapses = FALSE`; daemons may overlap |
| `DispatcherProofs!ClaimEndsHolds` | `Spec => ClaimEndsWithItsDispatch` | leases may lapse, daemons may overlap |

*Exclusive terms.* Mutual exclusion is not inductive: that only one candidate is
running says nothing about the lease. The strengthening says, for each running
candidate, that it owns the lease, that the recorded expiry is later than the
instant it stops at by more than any peer's clock is ahead, and that nothing of
its own which could still land is a release: a late release was sent before the
wait that led to the term, so it is gone. A peer's acquisition is refused in such
a state, and that is the argument.

*Replacement.* `TakeoverBound` says that a replica which handed its lease over is
back, its release's timeout, its backoff and the lag of its successor's write
included, within a TTL and a renewal; the package's defaults (a backoff of two
retries, a TTL of three) satisfy it. `DueInv` places every campaign that goes on
with respect to the recorded expiry: a waiting one tries again at most a retry
and a call after it, an attempt in flight was sent by then, and a release that
has landed leaves no lease behind. `LateAcquireInv` says that only a campaign
that has ended leaves an acquisition behind, so the expiry is not pushed out by
a write nobody waits for. The run `lease_takeover` checks `Replaced` with clocks
further apart than `ClockBound` allows, and the theorem for any number of
replicas: neither includes the other.

*Stale drops.* Dropping a superseded delivery is for ever, while the flip that
superseded it may be rolled back. `AttemptInv` has three parts. `ServedInv`: the
queue has counted the delivery a pod serves, so a last delivery has no budget
left. `OrderInv`: attempts start in order, and every marker that a rollback would
restore belongs to an attempt that has started. `DropInv`: if the run is queued
for an attempt that may still be rolled back, the marker it would go back to also
supersedes everything that was dropped. The code's rule, to re-offer while the
newer attempt is unclaimed, is what makes `DropInv` hold when a message is
dropped.

*One engine.* `LockInv`: a pod between adoption and its answer to the queue holds
the lock. It holds because every action that enters that range takes the lock
when it is free, and nothing frees a live pod's lock while leases do not lapse.

*Finished is final.* `FinishedInv`: no engine executes a finished run, and no
submission keeps "finished" as the status a rollback would restore. With
`LockInv`, the engine that finishes a run is the only one, so no other can write
afterwards. Type correctness needs `MarkerInv`: a resume that has started knows
the marker it replaced.

*Cancels and fenced writes.* Both are statements about one step. `RunWriters`
lists the steps that write the run document at all; for each, either the condition
its write compares (the status set or the attempt's marker) excludes what the
property forbids, or it is one of the writes the property names, those of an
engine that leaves nothing a redelivery resumes. Beside the types they need of the
past only `CodeInv`: a code is carried by a resumable failure only, in the
document and in what a rollback would restore, so a write that compares the status
does not hide an undecided effect. That they need neither `LockInv` nor an
assumption on leases is the point: these promises are the store's.

*Fan-out.* The invariant has ten parts beside the types. The save lock is held by
whoever is between a snapshot and its write, and the snapshot is still the memory
(`LockInv`); while an invocation is under way the memory is ahead of the document
(`MemoryInv`), so no write can take the document back. A branch is never behind
its cursor in memory, and on it while its gate is pending (`PlaceInv`); an answer
is consumed only by the branch whose turn it is, at the gate it was given for
(`AnswerInv`); a checkpoint's pending branch is parked on a gate, and every gate
behind a cursor was answered. Until its invocation is over a paused document
agrees with the memory on who asks (`PauseInv`). Once the collector
is done, a verdict other than "undecided" means that every branch was collected
and none returned an ambiguous effect, and a `wait_all` join that all completed
(`VerdictInv`); `UndecidedStops` follows from it and from what the last write can
leave, landed or refused. The event is fired once anything is past its emitter
(`SignalInv`). Nobody holds the lock once the retired invocation has flushed,
which is why its end is final. The refinement then goes step by step: a write
that lands is `Progress`, `PauseRun` is `Ask`, `RecordAnswer` is `Answer`, the
claims are `Claim` and `AnswerClaimed`, `ResumeFailed` is `Resume`, `Settle` is
`Stop`, `Join` or, when its write is refused, a stutter, `Crash` and
`ReconcileOrphan` are `Stop` or a stutter, and every other step is a stutter.

*Pool.* The ceiling is about leases while the code guards a counter, so the
invariant relates the two: the ledger is at least the units that stand plus those
a submission holds (`CountInv`), which is what keeps every rollback and refund
from underflowing and from giving away somebody else's unit; and the units that
stand plus those admitted fit the limit. It holds for overlapping submissions
too. The second half of `DailyCeiling` counts runs that execute: each has a unit
that stands, its own lease's or, for a readmission, one that `CoverInv` names
(`ServedHasUnit`), so there are no more of them than units. A run whose grant was
given back after its message had landed has none, and is excepted. The rest is about one submission of a run at a time (`SerialInv`). `OpenInv`
follows the open lease through it: none between the takeover and the grant, then
only the one it recorded, which is also the newest of its run; none again when a
refused resume reaches its reopening, which then opens at most the one lease that
was taken over. `CoverInv` gives every readmission, recorded or under way, an
earlier unit; only `ReleaseGrant` returns a unit, of a lease that is the newest
of its run, so nothing rests on it. `ReportInv`: at its publication a message's
own lease is the newest of its run, and later leases lie behind the instant of
publication, so `attemptLease` finds exactly that one. `SettleInv`: a settled
lease has an outcome that no close and no reopening matches.

*Dispatcher.* The invariant says first where a daemon's goroutines can be: only a
daemon that is up dispatches, a dispatch past the holds has no entry and no
tombstone, and a worker nobody has stopped has its entry (`Resting`, `OneCommand`,
`Accounted`). An engine has its run's lock from its start to its return, and that
run reads running (`LocksHeld`). `Pointer` adds, for daemons in turn, that the
card points to the run an engine executes: then two engines would hold one lock.
It is kept by the hold, since a run that executes is not promoted and holds every
candidate, and by the launch, which only a daemon past the hold reaches; a daemon
that starts finds no other one up. For the claim, tokens carry their owner:
dispatches and finish workers hold their daemon's own marker, the watchdog a
recovery marker (`Marked`), and a dispatch does not share its token with a finish
worker of an earlier one (`Apart`), because the token was off the card when the
card was listed, and a claim takes an epoch nobody remembers. So a release by
marker, a release by token and a boot sweep can only end their own claim, and
what remains is a takeover of an expired one. While leases do not lapse, the claim
of a live dispatch is fresh (`Fresh`), no takeover happens, and the dispatch owns
the card (`Holding`). Type correctness needs that finitely many epochs are
remembered (`Finite`): otherwise a fresh one need not exist.

## 5. What is only model-checked

Every safety property and every action property that a passing run checks is a
theorem of section 4, and so is the refinement. Six of the theorems have a
hypothesis beyond the assumptions on the constants: two of the delivery's and one
of the dispatcher's that no lease of a live holder lapses, one of the dispatcher's
that daemons take turns, two of the election's bounded clocks.
`NeverStranded` (both), `Settles` and `Joins` stay with TLC: liveness under
fairness and `ENABLED` are out of this prover's reach. So are induction over data
and `RECURSIVE` operators; the modules use neither.

## 6. Where the code and its comments disagree

Two runs show a disagreement; `PROJECT.json`, under "findings", quotes both sides.

- `delivery_dlq_park`: the park of a last delivery compares the status only, and
  can fail an attempt that an operator has queued since.
- `pool_lost_charge`: a report reads its lease open; the run is stopped and
  resumed, and the resume's acquisition supersedes the lease, charging nothing;
  the report's close then loses and returns without charging, although
  `credpool/broker.go:1236` says that a superseded lease its attempt reports
  against still charges the donor. A report that read the lease superseded and
  loses its stamp to a reopening is lost in the same way.

Further ones, met while modelling, which the models exhibit or rest on and which
have no run of their own:

- *Late release* (`lease/run.go:239` against `:17-20`). A release whose caller
  gave up, landing during the same owner's next term, frees that term's lease. It
  needs a write delayed past `Retry`; `ExclusiveTerms` names that condition.
- *Launch claim* (`runtime/engine_run.go:676` against `runner/loop.go:437-441`). A
  launch claims a queued run by its status, and can start an attempt that was
  queued after its own publication.
- *Launch rollback* (`publisher.go:3841`). It compares the status only, where the
  resume's also compares the marker: a run cancelled and resumed before the
  rollback is ended as failed.
- *Cancel undone* (`runtime/resume.go:2339` against `store/lifecycle.go:459-460`).
  A cancel between a redelivery's admission and its claim is undone when the
  signal does not arrive.
- *Stale admission* (`runner/loop.go:2061` against `:2057-2059`). Whether a run
  needs adoption is decided on the status read before the lock.
- *Running document* (`runtime/engine_run.go:403` against `runner/loop.go:738-740`).
  After a promotion without answer the delivery relies on the engine to refuse a
  running document; a launch's engine accepts it.
- *Deferred gate* (`parallel_checkpoint.go:696` against `branch.go:84-85`, "marks
  a branch that reached a human gate after a sibling had already persisted the
  invocation's one active interaction"). A pause overtaken by a cancel leaves its
  pending pair in the checkpoint, and after the next resume a sibling can be
  deferred to it although nothing is paused.
- *Consumed answer* (`resume.go:1525-1527`). A cut checkpoint of an answered
  branch carries no answers: the question is asked again. The artifact versions a
  branch allocates (`parallel_checkpoint.go:780-781`) are durable only with the
  next save.
- *Delivered work dispatched again* (`dispatcher/reaper.go:294`, "un-filed would
  re-dispatch delivered work"). The watchdog avoids it; a boot sweep after a crash
  frees a card in `in_progress` whose run has finished and nobody filed, and a
  stale listing can claim a card that has moved since.
- *Paused card of a dead daemon.* A daemon that dies between the pause and the
  parking of its card leaves it in `in_progress` under an expired claim, which the
  watchdog conserves by design: only an operator lifts it. `NeverStranded` names
  this exception.
- *Unconditional moves.* The move to `in_progress`, the parking and the give-up
  are fenced by the claim and not by the column: they overwrite a drag made since.
- *Two engines on one card* (`dispatcher/loop.go:784-839` against
  `docs/dispatcher.md:174-176`: "a live `last_run` is **never** replaced by a
  sibling planner from the workflow entry"). The hold on the card's last run is
  checked before the claim, and a retry's pointer is not compared with the card
  after it. Of two daemons that overlap, the first has a retry of run 1 and passes
  the hold; the second claims, finds run 1 resumed and finished from a console
  meanwhile, launches run 2 and is shut down, which frees the claim while the engine of run 2 unwinds; the first
  claims, resumes run 1 and so points the card back to it; the engine refuses run
  1, and the next retry, which is a fresh one, looks at run 1 only and launches
  run 3 beside run 2. TLC finds this with two daemons, `NRuns` and `MaxAttempts` 3,
  one intervention, `Overlap` and no lapse; it came up when `OneEngine` resisted
  its proof, at a bound below which no run had seen it. `OneEngine` is therefore
  claimed for daemons in turn only.
- *Two open leases* (`credpool/credpool.go:473-475`, "a run never holds two open
  leases"). Two resumes of one run that overlap (a stop and a second resume before
  the first submission has returned) can both record a lease. `OneOpenLease`,
  `RenewalHasUnit` and the second halves of `DailyCeiling` and
  `ChargedOnceToItsDonor` therefore except overlapped runs; the units of
  `DailyCeiling` and single settlement do not. A store error in the supersede
  (`credpool/broker.go:866-868`, `:887-889`), which the model leaves out, leaves
  two leases open as well.
- *Released and executed* (`publisher.go:3728-3735`, "Every exit below is a launch
  that will never happen", against `:3832-3840`). A publication that reports an
  error after its message landed releases the grant, and the attempt runs on the
  donor's credential unmetered, while its unit serves another run.
  `DailyCeiling` excepts such a run; without the exception TLC finds it violated.
- *Failed over cancelled* (`runtime/engine.go:829-832`, "the run is `running` and
  owned by this engine, nothing competes for it", against `:818-823`). A plain
  `failed`, of the setup or as the fallback of a refused checkpointed write, has
  no condition and covers a cancel that a publisher has written meanwhile.
  `CancelOutranksFailure` allows it of an engine that executes: no redelivery
  drives such a run again.
- *Undecided effect not recorded* (`runtime/run_failure.go:69-71`, `:320-322`).
  When the store refuses the last write and its fallback, the caller is told of
  the effect, but the document still reads running or paused: the scan that
  fails an orphan resumably, or the answer to the pause, drives the run again.
  `UndecidedStops` names this outcome.

## 7. Plan

1. **Further proofs.** Abstract specifications to be implemented step by step, as
   `RunJournal` is: the board (who may move the card, who may end its claim) by
   `Dispatcher`, and the run document (which attempt it is queued for, who may
   settle it) by `RunDelivery`. The condition under which daemons that overlap
   keep `OneEngine`.
2. **Schedules.** The firing of due schedules under the lease (`pkg/cloudsched`,
   `pkg/schedgate`) and the usage-window retry that races a resume.
3. **Smaller protocols.** `Health` and its circuit in the election, the event
   bus's bounded queues, the replay of the dead-letter queue, the authoring lock,
   the local run service, the arithmetic of `NextQueuedAt` and `PublishAt`.

**Not modelled, and why.** The DSL front end and the sequential walk of the graph
are sequential and total, covered by corpus tests. Model backends, sandboxes,
forges, authentication and user interfaces are I/O or request-scoped checks with
no protocol state of their own. They are most of the repository's lines; the
modules cover the parts where the order of several processes decides.
