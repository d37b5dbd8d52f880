# Rollout Fabric in TLA+

Rollout Fabric is a C++ control plane that rolls a change out over a fleet: a
plan is a sequence of stages, a stage a frozen cohort of targets, and a
controller dispatches attempts to worker processes, admits their evidence, and
moves from stage to stage through gates, or compensates what it changed. This
directory is a specification of that program in nine parts, the model-checking
runs that exercise each part on small instances, and proofs about the rollout
protocol, in one controller and across restarts, the execution plane and the
control plane for instances of any size. Paths below are those of the repository
(`src/...`, `include/...`, `tools/...`).

    tlc -workers 2 -config MCCohort.cfg MCRollout     one model-checking run
    for m in *Proofs.tla; do tlapm $m; done            the proofs

## 1. The system

### Components

| component | state it keeps | operations | modelled in |
|---|---|---|---|
| lifecycle tables (`lifecycle.cpp`) | none | `legal_transition` of rollout, stage and target, `is_terminal`, `can_pause` | `Lifecycle` |
| dispatch planner (`orchestrator_dispatch.cpp`) | none: reads the rollout | `plan_dispatch`, `blast_radius_admits`, the counts | `Planner` |
| rollout commands (`orchestrator.cpp`) | `Rollout`: state, resume state, cursor, generation, revision, stages with their targets | create, arm, start, pause, resume, abort, approve gate, retire, regenerate, set inventory | `Rollout`; their fences and retries in `Control` |
| evidence (`orchestrator.cpp` `admit`, `orchestrator_advance.cpp` `apply_*`) | the attempt map, the pending queue, last sequence per attempt | `on_evidence`, admission fences, application | `Rollout` (terminal execution and cancellation evidence), `Health` (telemetry) |
| rollout tick (`orchestrator_advance.cpp`) | writes the rollout | `tick`, `advance`, `begin_stage`, `run_stage`, `dispatch_stage`, `complete_stage`, `begin_rollback`, `run_rollback`, `finish_rollback` | `Rollout`, and `Recovery` for the stages a restart finds half way |
| gates (`orchestrator_gates.cpp`) | pending gate, approvals, the health of each target | entry, evidence, health and advance gates, probes | `Rollout` (control flow; verdicts free), `Health` (the health gate's verdict) |
| attempts (`attempt.cpp`) | `Attempt`: fence, epoch, cancelled epoch, deadline, last sequence | begin, finish, cancel | `Rollout` |
| restart and reconciliation (`orchestrator_recovery.cpp`, `controller.cpp` open) | what the journal holds | `restore`, `reconcile_outstanding` | `Recovery` |
| journal and persistence (`journal.cpp`, `persistence.cpp`, `rollout.cpp` codec) | a file of framed records, the writer's position | open, scan, repair, append, flush, rewrite, compact | `Journal`, an implementation of `DurableState` |
| execution plane (`process_adapter.cpp`, `worker.cpp`) | connections, attempt routes, pending reconciliations; per worker the slots, the effect ledger, its threads | attach, dispatch, cancel, poll, reconcile, drop; run an effect, replay by idempotency key, evict, answer probes | `ExecPlane`, an implementation of `Contract`; probes in `Health` |
| transport (`transport.cpp`, `protocol.cpp`, `codec.cpp`) | per channel a bounded queue, a half written frame, a decoder | queue, pump out, pump in, feed, close | `Channel`, an implementation of `Link` |
| controller daemon (`controller.cpp`, `tools/rolloutd.cpp`) | listener, control sessions, stop flag, `storage_failed` | open, load documents, accept, serve, close, tick, stop | `Control`; its loop gives every module its interleaving and fairness |
| operators (`tools/rollout_cli.cpp`) | one command | read the status, connect, send, wait, try again | `Control` |
| plans, selectors, inventory | documents | parse, validate, select, digest | what validation accepts is `PlanAssumption` |
| decisions, reports, value types, OS layer, simulated adapters, other tools | - | - | not modelled (section 8) |

### How they interact

The controller is one thread. `Controller::step` accepts and serves control
sessions (each command runs to completion), polls the adapter (which queues
evidence) and calls `Orchestrator::tick`, which drains the queue through the
admission fences and then advances each rollout once. Workers are other
processes: they run effects on threads of their own and answer over TCP, so an
answer may come late, repeated after a reconnect, or never. Everything the
orchestrator must survive a crash with goes into a journal snapshot after each
change, and a failed append ends the controller's loop. Operators are processes
too, with one connection for one command.

### What is hard here

 * *Late and repeated reports.* An attempt may be superseded by a retry, by a
   cancellation, by a deadline sweep or by a new generation while its report is
   on the way; exactly one of sweep, retry and report may count.
 * *One state machine moved by many handlers.* Commands and ticks both move
   the rollout, its stages, its cursor and its gates; target states are
   assigned by five handlers that do not consult the transition table.
 * *Limits under refilling.* Concurrency, canary and blast radius are enforced
   per batch, against counts that reports, sweeps and refusals change.
 * *Errors in the middle.* A transition that the table refuses, or an adapter
   error, returns from the middle of a loop and leaves what was written.
 * *Crash between the writes of one handler.* A handler writes a snapshot after
   each transition it makes, and tells the plane before it writes: a restart
   resumes from states no uninterrupted run shows, and only part of an attempt
   survives in a snapshot.
 * *A journal that is cut anywhere,* replaced while it is in use, and appended to
   at an offset and a sequence number the process keeps in memory.
 * *Tables on both sides of a connection.* Routes name connections by an index
   that shifts when one is dropped; slots, routes, the ledger and the threads are
   four tables that must agree; a key is remembered by one worker for a while.
 * *A byte stream,* cut by writes and reads that respect no frame.
 * *Health that is old when it is read.* Samples of several workers arrive late or not at
   all, are stored, aged and restored, and decide whether work goes on.
 * *Lost answers.* A command is sent again, to a controller that may have
   restarted, while another operator acts on the same rollout.

`PROJECT.json` lists each hazard at its source line with the properties that
guard it.

## 2. The modules

    Lifecycle <- Planner <- Rollout <- RolloutSafety <- MCRollout
                               |            +--  RolloutProofs <- StageProofs
                               +--  Recovery <- RecoverySafety <- MCRecovery
                                           +--  RecoveryProofs (with StageProofs)
    Lifecycle <- Control <- ControlSafety <- MCControl
                                  +--  ControlProofs

    DurableState  <= Journal   <- JournalSafety   <- MCJournal
                                        +--  JournalProofs
    Contract      <= ExecPlane <- ExecPlaneSafety <- MCExecPlane
                                        +--  ExecPlaneProofs
    Link          <= Channel   <- ChannelSafety   <- MCChannel
                                        +--  ChannelProofs
                     Health    <- HealthSafety    <- MCHealth
                                        +--  HealthProofs

`A <- B`: B extends A. `A <= B`: B is shown to implement A under the refinement
mapping its safety module defines. The three abstract specifications are what
the module above relies on: a connection of `ExecPlane` is a `Link` in each
direction (a sequence of which a tail may be lost), the reports of `Rollout` come
from a plane that keeps its `Contract`, and the `saved` snapshot of `Recovery` and the
`disk` of `Control` are a `DurableState`. Each module takes the promise of the one below
as its assumption; they are not composed into one specification, whose states
would be the product of all of them.

Every component's module has a safety module, which states what must hold, and
an MC module with its instances. Operators whose comment begins with "faulty:"
are plausible bugs, each defined beside the operator it would replace. No
specification uses them: they are there to see that a property fails when the
code is wrong.

**Lifecycle** holds the three transition tables as functions from a state to the
set of its successors; a state keeps its source name without the leading `k`.

**Planner** declares the plan as constants (stages, cohorts, policies, placement)
with what validation accepts as `PlanAssumption`, and defines `PlanDispatch`:
the eligible targets by blast radius, the canary slots, the capacity, the first
targets in order. Ratios are replaced by what they decide (`failureBudget` is
`failure_budget(stage)`; `healthyFraction` says whether any target must be
healthy at all).

### Rollout

One rollout in one controller incarnation.

| variables | in the code |
|---|---|
| `rolloutState`, `resumeState`, `cursor`, `generation`, `outstanding` | fields of `Rollout` |
| `stageState`, `pendingGate`, `canaryCleared`, `dispatchedTotal`, `soak` | fields of `StageRuntime` |
| `targetState`, `attemptsMade`, `rollbackStep` | fields of `TargetRuntime`, per cell `<<stage, target>>` |
| `open`, `cancelled`, `overdue` | the attempt map: not `finished()`, has a `cancelled_epoch`, past its deadline |
| `issued`, `reports` | the execution plane: attempts it accepted, terminal reports it produced |
| `draining`, `halted` | where a tick stands; `storage_failed` |

An attempt is `[gen, cell, epoch]`. The code gives a target's attempts the epochs
1, 2, ... and counts `attempts_created` with them, so `Current(c)`, the attempt
with the last epoch, is what `current_attempt` holds; the field is reset only
when that attempt is finished, which `open` already says.

Each command is an action (`Arm`, `Start`, `Pause`, `Resume`, `Abort`,
`ApproveEntry`, `ApproveCompletion`, `ApproveTooLate`, `Retire`, `Regenerate`),
with `AbortInterrupted` for the abort whose cancellation fails half way and the
interrupted sets of `Pause` for a pause that does. A tick is two steps: any
number of applications of one report each (`ApplyStopped`, `ApplyCompensation`,
`ApplyExecution`, behind `Admitted`), then one `Advance`: `AdvanceIdle`,
`BeginStage`, `RunStage` (deadline sweep, budget, canary, health hold, dispatch,
soak, completion), `AdvanceRollback` or `FinishRollback`. No command comes between
the two (`draining`). A transition the table refuses leaves the state and, in a
tick, halts the controller, as `advance()` does. The environment is
`WorkerReports`, `DeadlinePasses` and `SoakElapses`.

 * Authority, revision, sequence, freshness and history-trimming checks only
   refuse more commands and reports. The model admits a superset, so safety
   carries over; nothing is claimed about them here.
 * A drain may apply any subset of the reports, not only all queued ones: a
   superset again, which covers the bounded evidence queue dropping some.
 * A health verdict is free wherever the policy lets it matter.
 * The inventory does not change and no plan requires verification evidence.

### Recovery

`Rollout` across incarnations. `saved` is the newest snapshot in the journal, with
exactly the fields `rollout.cpp` encodes: everything but the attempt map, of which it
names the current attempt of each target (`Named`). Every action of `Rollout` is
taken through an operator that says what it writes: `Once` (one snapshot at its
end), `Sends` (an attempt is sent, then the snapshot that counts it is written),
`Twice` (a stage is written, then the rollout, unless the rollout already stands where the
handler moves it: `transition` then writes nothing, and the moved cursor waits for the
next snapshot, `LeavesCursor`), `Aborts` and `FinishesRollback`
(the stages one after the other), `Unwritten`. Where a handler writes more than
once the process may die with any of the snapshots written by then
(`StageOnly`, `Unmarked`, `Halfway`). `Restart` is `restore()`: it rebuilds the attempt
map and its count, forgets cancellations, and marks what it rebuilt as
`inherited`. `ResumeArmed`, `ResumeAdvancing`, `ResumeSucceeded`, `ResumeFailed`,
`ResumeGated` and `ResumeFinished` are the branches of `advance()` no uninterrupted rollout reaches,
`ApproveUndone` is the approval of a stage whose predecessor a crash left rolled back, which
fails the rollout (`require_predecessors_succeeded`, true unless a plan says otherwise, is
taken to be true);
`ReleaseNotStarted` and `MarkUnknown` the answers of `reconcile_outstanding()`, called
or not by the constant `Reconciles`. `RestartWithout` is the controller that refuses
the rollout because it was not armed.

### Journal

A file is a header and a sequence of cells; a record takes as many cells as its
payload's `Size`, each naming its record and its part, so that a digest verifies
exactly when all parts of one record stand in order (`Proved`), and a torn or
overwritten record does not. `file` is what the system shows, `durable` what
survives a loss of power; `end`, `lastSeq` and `since` are the fields of
`JournalWriter`. `Create`, `ClaimEpoch` (scan, truncation, the state a restart adopts,
the next epoch), `AppendCell`, `AppendDone`, `AppendFails`, `Persist`, `Compact` to
`ReplaceFails`, `Exit`, with `Crash` and `PowerLoss` between any two. All rollouts,
plans and the inventory are one value, the snapshot; decisions and command
records, which a restart ignores, are left out. The exclusive lock is modelled
by its effect: one writer at a time.

**DurableState** is a register with values on offer: one is committed at once and
for good, or withdrawn, and only a committed value is promised. The mapping
(`Store` in `JournalSafety`) reads `stored` off `durable` by replaying it. Two values can
be on offer at once: a record of an append that failed may stand in the file
unflushed, and the same tick goes on and compacts a newer state
(`orchestrator.cpp:1076` does not ask whether the storage failed); a loss of power then
stores the older one, the replacement the newer.

### ExecPlane

The adapter's tables (`connections`, `helloed`, `inFlight`, `route`, `pending`), one
queue of frames in each direction per connection, and each worker's effect
ledger (`effect`, `deferred`, `order`), threads (`working`) and completion queue. Calls
of the orchestrator are `Dispatch`, `Cancel`, `Reconcile` and `ReconcileReturns` (no
other call comes while a reconciliation waits, but frames do); `HandleFrame` is
the adapter's switch over frame types, `Drop` is `drop_connection`; the worker is
`WorkerHandlesFrame` (dispatch with its duplicate, throttle and accept branches,
cancel, reconcile), `EffectEnds` (the thread) and `DrainCompletion`. A retry is another
attempt with the same key. A worker attaches once, as `rf_worker` does under a fresh
identity, so that no hello supersedes an older connection of the same worker; heartbeats
and scenario files are left out, and health requests are in `Health`. The round robin of `pick_worker` is an open choice.

**Contract**: an attempt is reported only after it was issued, reports do not
contradict one another, and none that was reported stopped is reported done.

### Channel

One direction between two `FrameChannel`s: `outbound` with its ceiling, the frame
being written and how much the socket took, the bytes on the wire, the
`FrameDecoder` with its buffer, declared total and latch. A byte names its frame
and its place in it, so the CRC and the body digest verify exactly when the bytes
of one frame stand in order. `PumpOut` writes any part, `PumpIn` reads any part up to
`ReadChunk` and feeds it; either end fails or closes; a tail is cut when the sender
goes, and one byte may be damaged.

**Link**: what is received is a prefix of what was sent.

### Health

One running stage whose policy enables the health gate. `admitted` and `changed` are
the targets dispatched and succeeded, `health` the fields of `TargetRuntime` the
gate reads, `sinceProbe` the age of `last_probe_at`, `pending` the adapter's
`pending_health_`, `opinion` what a worker's scenario says. A time stamp is its age
on the controller's clock, which grows with `TimePasses`, is negative when it lies
in the future, and is one value beyond every limit. `Probe` is `probe_health` with
`request_probe`, which asks every connection; `Answer` the worker's `handle_health`,
whose samples are `Lag` old by a clock that may be `Ahead`; `Receive` is
`handle_health_response` and `apply_telemetry`, which stores each sample before the next, so
that a crash may leave any of them (`CutShort`); `GateSatisfied` is
`evaluate_health_gate` over `snapshot_for`. The failure budget of the health gate is
left out, since no attempt fails here, and so is the source, which is the
adapter's own and always the one the policy names. A `max_age` of zero, for which `probe_health`
takes an interval of 100 ms, is not an instance, and the evidence queue is never full (`on_evidence` would drop the samples
of an answer it has no room for). A connection that drops takes
its frames with it and leaves its probes in the table; a restart keeps `health`.

### Control

Operators, each after one command, fenced by the revision it read or not;
`backlog` and `sessions` (the listener and `control_clients`); a rollout as its state,
resume state, revision, pending gate and generation, in `memory` and on `disk`.
`Connect`, `GiveUp`, `Accept`, `Serve` (decode, `check_fences`, the command, `persist`,
the answer), `CloseSession`, `Tick`, `Open` (what `restore` accepts), `LoadDocuments` (adopt,
or create, arm and start, one write each), `Crash`, `Stop`. The writes of one command
are one step, since `Recovery` cuts them; what a command leaves when it fails
half way is in `HalfWay`. An approval that `begin_stage` passes over without an error is answered like any
other; the operator's verdict is then `"futile"`, since nothing but the gate in memory changed. Commands that only read change nothing and are not
actions. Every rollout is of the one plan the document holds, and the
second record `retire` writes is left out.

## 3. Model-checking runs

| run (module, `.cfg`) | instance | what it shows |
|---|---|---|
| `cohort` (`MCRollout`, `MCCohort`) | 1 stage, 4 targets, canary 1, 2 attempts, budget 1, rack limit 1, health gate, refused dispatches | `TypeOK`, `AttemptLedger`, `ConcurrencyBound`, `CanaryBound`, `AttemptBudget` over every order of reports, refusals and sweeps |
| `gates` (`MCRollout`, `MCGates`) | 2 stages (1 and 2 targets) that name no predecessor, every kind of manual gate, a soak, 1 and 2 compensation steps; pause, abort, approve; cancellations may fail | `StagesInOrder`, `GateHoldsWork`, `CompletedIsSettled`, `CompensationSettled`, `TargetTableHolds` |
| `generations` (`MCRollout`, `MCGenerations`) | 1 target, 2 attempts, 2 generations; pause, abort, retire, regenerate | `SuccessIsAttested`: reports of finished, cancelled or old-generation attempts count for nothing (`AttemptLedger` over generations is proved, section 4) |
| `recovery` (`MCRecovery`, `MCRecovery`) | 2 stages (2 targets and 1); a canary and a concurrency of one, 2 attempts, budget 1, a soak and a cancelling pause in the first, an entry gate, an advance gate and 2 compensation steps in the second, which names the first as its predecessor; pause, abort, approve; one crash after any write; reconciliation at any time | `RecoveryTypeOK`, `RestoredLedger`, `PlanSurvives`, `HistoryRunsForward` |
| `liveness` (`MCRecovery`, `MCLiveness`) | 3 stages in a chain (1, 2 and 1 targets), automatic gates, canaries, retries, a soak, no operator, two crashes, no reconciliation | `RunsToAnEnd` under `RecoveryFairSpec` |
| `journal` (`MCJournal`, `MCJournal`) | 2 snapshots of 1 and 2 cells, 5 cells, compaction from the first record on, 3 incarnations, crashes and power losses anywhere | `TypeOK`, `ActsOnDurableState`, `EpochsNeverReused`, and `Journal` implements `DurableState` (`StoreSpec`) |
| `plane` (`MCExecPlane`, `MCExecPlane`) | workers of capacity 1 and 2, an attempt and its retry under one key and another attempt, one entry of memory, one cancellation or reconciliation, one worker that may be lost | `TypeOK`, `RoutesLeadToTheCarrier`, `SlotsAreRoutes`, `RunningEffectsAreRouted`, `OncePerKey`, `AnswersAreTrue`, and `ExecPlane` implements `Contract` (`KeepsContract`) |
| `channel` (`MCChannel`, `MCChannel`) | 3 frames with bodies of 0, 1 or 3 bytes (3 is too large), a header of 2, a queue of 2, reads of up to 4 and a wire of 5 bytes, one damaged byte | `TypeOK`, `FailuresHaveACause`, `Channel` implements `Link` (`IsALink`), and `Delivered` |
| `health` (`MCHealth`, `MCHealth`) | 2 targets, one observed 2 late; 2 workers, one with a clock 2 ahead where 1 is tolerated, each finding one target or both healthy; `max_age` 5, an admission limit of 3, 2 samples in a row, both targets, 2 open probes, one restart | `TypeOK`, `DispatchRestsOnHealth`, `HealthyCohortIsNotHeld` |
| `control` (`MCControl`, `MCControl`) | 2 operators and ten pairs of commands, 3 connections, 1 session at a time, a plan document, one crash or storage failure | `TypeOK`, `AppliedOnce`, `GateApprovedOnce`, `AcknowledgedIsKept`, `OneChangePerDocument`, `EveryRequestIsAnswered` |
| `compensation_halts` (`MCRollout`, `ClaimCompensationNeverHalts`) | 2 stages, compensation, the first stage fails | `CompensationNeverHalts` is violated: section 6 |
| `compaction_atomic` (`MCJournal`, `ClaimCompactionIsAtomic`) | the journal run where an open file can be replaced | `CompactionIsAtomic` is violated |

### Bounds, and why they are enough

*Rollout.* Attempts per target are bounded by the policy (`maxAttempts`, plus one
per compensation step), so nothing in a generation grows; `MaxGeneration` bounds
regenerations (two, because the fences only compare with the current one).
`Commands` lists what the operator may issue. Four targets are the least for
which a canary of one leaves more than one full batch of two, and a rack limit
separates two of them; two stages are the least for which an order, a
predecessor and a compensation across stages exist. `MCGates` names no
predecessors, so that the order of stages rests on the cursor alone. Reports are
never withdrawn, so lateness and repetition are unbounded.

*Recovery.* `MaxCrashes` is one in the safety run, since each crash may come after
any write of any handler and a restored rollout goes on through all that
follows; the liveness run has two. Two targets behind a canary of one, tried one at a
time, are the least on which a restored controller that counted its inherited work wrongly
would dispatch too much; the second stage waits at a gate for them. Three stages are the least in the liveness
run on which a rollout that is Advancing already can leave another stage behind, by a crash before its cursor is written. One generation only: what
`reconcile_outstanding` does with attempts of an older one is in section 6.

*Journal.* `MaxEpoch` bounds the incarnations (three: the one that writes, the one
that repairs and compacts, the one that must not be confused by it), `MaxCells` the
file. One snapshot of two cells lets a record tear, and lets a shorter record
overwrite part of a longer one; five cells hold a claim and two of them.
`TriggerRecords` is one, so that a compaction may come at any time, also after a
failed append. `ReplacesOpenFiles` is FALSE in the passing run: the
run is about the systems where an open journal cannot be replaced, and the
claim's run about those where it can, on which `StoreSpec` does not hold either
(section 6).

*ExecPlane.* `MaxCalls` bounds cancellations and reconciliations together, `Fragile`
names the workers that may be lost, `MaxEffects` is the code's own table size. The
lost worker may attach first, so that the other's index shifts. The two
attempts of one key are interchangeable, which is the only symmetry used.

*Channel.* `MaxSent` bounds the frames. With a header of two and a body of one, a
read of four ends everywhere in a frame and spans two; `WireBytes` is smaller than
two frames, so writes are partial. Three frames overflow a queue of two.

*Health.* A unit of time is longer than a turn of the controller's loop, so a probe that
is due is sent first. `MaxDelay` is how long a frame waits: 0 in the run, where frames
interleave with everything but the clock, and what makes a sample late is `Lag`. Half
of `max_age` is for the interval of the probes and the rest for the age a sample arrives with: 5
is the least that leaves room for an interval of two, the turn after it, and a lag
of two. With less, a healthy cohort is held now and then. The admission limit is
below `max_age`, so either may be the one that decides.

*Control.* `MaxTries` bounds all connections (one operator tries three times, or one
twice and the other once), `MaxRollouts` and `MaxFaults` the rest. The pairs of
commands in `MCControl` are those that can undo, repeat or fence each other.

Deadlock is not checked in any run: a finished, paused or halted rollout, a closed
connection, a journal whose last incarnation ended, workers with nothing to do
and operators who are done really stop.

### Fairness

`RecoveryFairSpec` is weakly fair to a tick that survives, as `Controller::run` ticks for
ever, to `DeadlinePasses` and `SoakElapses`, as the clock runs, and to the restart of
a dead controller. It owes nothing to workers, to the drain or to operators:
`RunsToAnEnd` holds though every report may be lost.

`Channel!FairSpec` is weakly fair to the pumps of both ends, which the reactor of
either process calls in every turn. Nobody is obliged to send, and closing,
cutting and damaging stay free.

`Health!FairSpec` is weakly fair to the probe, to the clock and, per worker, to its answer
and to the receipt of it. Workers start, connections drop and restarts come as they
like; the property is about cohorts that are steady from some time on, and asks for room
in the table of probes (section 6).

`Control!FairSpec` is weakly fair to `LoadDocuments`, `Accept` and `Stop` and, per operator,
to serving or closing one of its sessions: a step looks at every session
and closes the ones past `connection_idle_timeout_millis`. Nothing obliges a controller to be
restarted or an operator to send what it connected for.

`Rollout`, `Journal` and `ExecPlane` state no fairness: their properties are safety.

## 4. What is proved

For every value of the constants the named assumptions allow: any plan, any
cohorts, limits and commands; any operators, documents and faults; any workers,
attempts, keys and table sizes; any snapshots, record sizes and incarnations.

| theorem | module | states |
|---|---|---|
| `TypesHold` | `RolloutProofs` | `Spec => []TypeOK` |
| `StagesRunInOrder` | `RolloutProofs` | `Spec => []StagesInOrder` |
| `AttemptsAgree` | `RolloutProofs` | `Spec => []AttemptLedger` |
| `SuccessesAreAttested` | `RolloutProofs` | `Spec => []SuccessIsAttested` |
| `TargetsFollowTheTable` | `StageProofs` | `Spec => TargetTableHolds` |
| `AttemptsStayInBudget` | `StageProofs` | `Spec => []AttemptBudget` |
| `CompensationIsSettled` | `StageProofs` | `Spec => []CompensationSettled` |
| `GatesHoldWork` | `StageProofs` | `Spec => []GateHoldsWork` |
| `CompletionIsSettled` | `StageProofs` | `Spec => []CompletedIsSettled` |
| `ConcurrencyIsBounded` | `StageProofs` | `Spec => []ConcurrencyBound` |
| `CanaryIsBounded` | `StageProofs` | `Spec => []CanaryBound` |
| `ControlTypes` | `ControlProofs` | `Spec => []TypeOK` |
| `FencedIsAppliedOnce` | `ControlProofs` | `Spec => []AppliedOnce` |
| `GatesAreApprovedOnce` | `ControlProofs` | `Spec => []GateApprovedOnce` |
| `AcknowledgedStays` | `ControlProofs` | `Spec => []AcknowledgedIsKept` |
| `DocumentIsOneChange` | `ControlProofs` | `Spec => []OneChangePerDocument` |
| `PlaneTypes` | `ExecPlaneProofs` | `Spec => []TypeOK` |
| `RoutesLead` | `ExecPlaneProofs` | `Spec => []RoutesLeadToTheCarrier` |
| `SlotsAgree` | `ExecPlaneProofs` | `Spec => []SlotsAreRoutes` |
| `RunningIsRouted` | `ExecPlaneProofs` | `Spec => []RunningEffectsAreRouted` |
| `KeyIsPerformedOnce` | `ExecPlaneProofs` | `Spec => []OncePerKey` |
| `AnswersHold` | `ExecPlaneProofs` | `Spec => []AnswersAreTrue` |
| `PlaneKeepsContract` | `ExecPlaneProofs` | `Spec => KeepsContract`: `ExecPlane` implements `Contract` |
| `RestoredTypesHold` | `RecoveryProofs` | `RecoverySpec => []RecoveryTypeOK` |
| `LedgerIsRestored` | `RecoveryProofs` | `RecoverySpec => []RestoredLedger` |
| `PlanIsKept` | `RecoveryProofs` | `RecoverySpec => []PlanSurvives` |
| `HistoryNeverReturns` | `RecoveryProofs` | `RecoverySpec => HistoryRunsForward` |
| `ChannelTypes` | `ChannelProofs` | `Spec => []TypeOK` |
| `ChannelIsALink` | `ChannelProofs` | `Spec => IsALink`: `Channel` implements `Link` |
| `FailuresAreCaused` | `ChannelProofs` | `Spec => []FailuresHaveACause`, where `ReadChunk <= MaxQueued * HeaderBytes` |
| `JournalTypes` | `JournalProofs` | `Spec => []TypeOK` |
| `ActsOnWhatIsStored` | `JournalProofs` | `Spec => []ActsOnDurableState` |
| `OpenFilesAreKept` | `JournalProofs` | `Spec => FailedCompactionKeepsTheFile`, where `ReplacesOpenFiles = FALSE` |
| `EpochsAreFresh` | `JournalProofs` | `Spec /\ FailedCompactionKeepsTheFile => EpochsNeverReused` |
| `JournalIsADurableRegister` | `JournalProofs` | `Spec /\ FailedCompactionKeepsTheFile => StoreSpec`: `Journal` implements `DurableState` |
| `HealthTypes` | `HealthProofs` | `Spec => []TypeOK` |
| `WorkRestsOnHealth` | `HealthProofs` | `Spec => DispatchRestsOnHealth` |
| `CursorInvariant`, `LedgerInvariant`, `TargetInvariant`, `StageInvariant`, `BoundsInvariant`, `RecoveryInvariant`, `PlanInvariant`, `ControlInvariant`, `PlaneInvariant`, `ChannelInvariant`, `JournalInvariant`, `HealthInvariant` | each its own | the inductive invariants the others rest on |

No safety property is inductive as it stands. What each invariant adds, and why:

**The cursor** (`CursorInv`). `StagesInOrder` does not say that the stage a tick
dispatches into is the first unfinished one, nor that a late
approval can move the cursor only from the current stage. `CursorInv` adds
`StagesAroundCursor` (stages before the cursor have succeeded or been rolled back,
stages after it are pending or skipped) and `WorkUpToCursor` (no target after the
cursor has an attempt). `OnlyTheCurrentStageRuns` derives that every action that
issues work acts at the cursor, and the step lemmas (`CommandKeepsCursor`,
`AdvanceKeepsCursor`, ...) follow the disjuncts of `Next`. That is also what bounds
the cursor, so `TypeOK` needs it. `TypeOK` says that `outstanding` is a natural
number, which needs that sets of cells are finite.

**The attempts** (`LedgerInv`). `AttemptLedger` and `SuccessIsAttested` do not say that
the attempt a dispatch makes is new, so nothing stops an
old cancellation or an old report from being about it. `LedgerInv` adds what was
issued (`IssuedSoFar`, `OnlyIssued`: epochs are counted, and only issued attempts
are open, cancelled or reported), and, for restored targets, that the rollout
is compensating while a target is (`CompensationUnderWay`), because only then can
no command cancel the compensation (`CompensationStands`). That in turn needs that
no gate is left to approve during compensation, which is where `CursorInv` comes
in: only the current stage can be gated, and it is the one that failed. Two
lemmas carry the steps: `SettlingKeepsLedger`, for a step that issues nothing and
in which each target stays or ends its attempt, and `DispatchKeepsLedger`, for a
dispatch after such a step. The count of `outstanding` is separate
(`FinishCounts`, `DispatchCounts`): it shows that the guard against zero in the
four places that decrement it never has anything to do.

**The targets** (`TargetInv`). The table, the budget and the compensation steps are
proved together, from the seven moves a handler can make with one cell (`CellMoves`):
it stays, is dispatched, settles, is marked for compensation, is sent a step, takes
it, or fails it. `Spent` extends the budget to the states a target passes through
on the way; it holds because a compensation attempt cannot end without an outcome:
only a cancelled attempt is reported stopped (`StoppedWasCancelled`) and no
compensation is cancelled (`CompensationStands`). `OnlyReached` excludes the two states
of the table no handler assigns in one incarnation.

**The stages** (`StageInv`). A gate opens on a stage all of whose targets ended within
its budget (`GatesWait`), and what the cursor has passed stays so unless it is
compensated (`PastIsSettled`); a failed rollout keeps targets in flight, but only in
the current stage (`DispatchedHere`), so no gate can be open over work.
`CompletedIsSettled` then follows from the cursor being past the last stage.

**The bounds** (`BoundsInv`). A batch is planned against what the sweep of the same
tick left, so the limits are shown for the planner first: `FirstOfIsBounded` counts
what `PlanDispatch` takes by an injection into ranks, for cohorts of any size, and
`Capacity` is what the limits leave. Two facts make this inductive: work in flight is all in
one stage, so the global limit is about the same set of targets, and while
the canary holds every candidate is either new within its slots or was tried before.

**Restarts** (`RecoveryInv`). The invariants above are false of a restored rollout: a snapshot may
hold a stage that has succeeded under a cursor still on it, an abort that cancelled
half its stages, or a rollout that is RollingBack with no target marked, and a restart
forgets cancellations. So `RecoveryInv` asks less, and asks it twice: of the rollout in memory and of `saved`,
in one vocabulary of snapshots (`Ordered`, `Sensible`, `Names`), so that a restart, which
exchanges one for the other, keeps it (`RestoredIsReady`). `Ordered` is `CursorInv` without the state
of the cursor's own stage. `Sensible` says that every stage of which nothing but the cursor's
move is left (`Passed`) is settled, unless the rollout is being aborted or compensated.
`Tallied` is the ledger of a rollout some attempts of which were rebuilt, and follows
from what each handler does to a single cell (`Shifts`). The larger part is
the snapshots between two writes (`StageOnly`, `Unmarked`, `Halfway`):
`TwoWritesAreSound`, `AbortWritesAreSound` and `RollbackWritesAreSound` show that each is `Sound`
and runs forward from the one before. `Written` says that memory and journal agree
while a controller is up, but for two things runs found: a tick that leaves its stage held
may have timed attempts out, and writes them only with its next transition; and a cursor moved
by a handler whose rollout stays in its state waits likewise. The second is why the
journal's cursor may be the lower one, and `Handled` says of a step which stages it
concludes (`Concludes`): those the cursor passes.

**The plan across restarts** (`PlanInv`). That a restored rollout keeps to its gates, limits and canary is
once more stated of a snapshot (`KeepsPlan`) and asked of memory and of `saved`: nothing of a stage that is pending,
armed or at its entry gate was tried (`Unstarted`), what left `Pending` was tried (`Tried`), what
counts as done was reported so for its last attempt (`Attested`), and work in flight and targets tried fit
the limits and the canary (`Bounded`). `Reported` is needed because a plane forgets, with an
attempt the snapshot does not count, the reports on it: those on attempts the snapshot counts stay. Three lemmas carry
the step. Work in flight is of the cursor's stage after a restart too (`InFlightIsHere`),
so what a batch may add is again `Capacity` (`BatchKeepsLimits`). A step moves
no stage into waiting that was not waiting before (`Turns`), so what is `Unstarted` stays so.
And a snapshot between two writes (`Partial`) counts the attempts of the handler's start, and has each
target as it was or as the handler leaves it (`TwoWritesArePartial`, `AbortWritesArePartial`, `RollbackWritesArePartial`).

**Commands** (`ControlInv`). That a repeated command is refused is a fact about revisions and
gate numbers: `Honest` says that a rollout which was given a fenced command is past the revision the
operator read, and one whose gate was approved no longer has that gate; it holds of
the rollout in memory and of the one on disk separately, since either may be the next one to be used.
`Held` and `Kept` relate the two: memory holds what the disk can restore, and an
acknowledgement is on disk before it is sent. `OneLive` and `Loading` are the
document's: at most one rollout of it is armed and not regenerated, in memory or on
disk, and none is held while the document is being loaded.

**The execution plane** (`PlaneInv`). Each property is about tables at both ends of a
connection, so the invariant is mostly about the frames between them, wherever in
a queue they stand. `Wires`: routes, connections and slots agree, and nothing is routed before
the hello. `Addressed`: frames, entries and results are at the worker that carries the
attempt. `Fresh`: an attempt whose dispatch is under way has left no trace, and the
dispatch is there once and before any question about it. `Routed`: what may still run has a route and no
frame that would erase it is on its way. `Deferred`, `Worked`: a retry that
waits has no outcome of its own; threads, their results and the keys agree with the
ledger. `Told`, `Answered`, `First`: whatever ended was told before anything that was
put in the queue later, once, and before an answer says so; that is an order in the queues, which
`SaidBefore` states of a position. `PlaneKeepsContract` then needs, of the frame the
adapter takes up, that nothing contrary was reported: `First` for outcomes, `Told` for
the stop.

**The connection** (`ChannelInv`). The bytes of a connection are one stream in which every frame has
its place, whether they are still to be written, on the wire, in the decoder or emitted. `StreamInv`
says there is such a layout (`LaidOut`: frame n is the bytes after `bound[n]`), and
that the two ends stand in it without a gap: the receiver where its last emitted frame
ended plus what its decoder holds, the wire from there, the sender at the
end of the wire. `AbsorbStays` is one byte of a decoder in step: it goes on with the frame,
or emits it at its last byte, or fails, and that only on damage. `FeedIs` unfolds the
recursion of `Feed`, and `FeedStays` carries the step through a read of any size; it also counts
the frames that n bytes can complete, which is what bounds a burst. A `Link` then takes
nothing more than `Took`: what was taken is a prefix of what was accepted.
`FailuresAreCaused` names the relation between three limits the code never
compares: one read of `kReadChunkBytes` must not complete more frames than the queue
holds. The defaults leave room (16 384 bytes, 1 024 frames of at least 48 bytes), and the run
takes the tightest instance.

**The journal** (`JournalInv`). All of it rests on what replay makes of a file that was
cut, grown or damaged. `ValidEndIs` and `ValidEndReaches` characterise `valid_end`, and
`PrefixStays` says that what replay goes through stays so in any file that begins
the same way: that is why truncation (`Cut`), an append (`Grown`), and a loss of power
(`SurvivorsReplay`: no cell that was lost is replayed) do not change what comes before.
`NewestGrows` says what the cells that were added decide. The invariant then adds to
`ActsOnDurableState`: what is flushed begins the file and is whole except after a loss
of power, and what is not flushed holds at most one snapshot (`OnDisk`); a record
is written behind a file that is whole, with the next number (`Appending`); the temporary holds
the first records of the state in memory (`Compacting`); and memory without a
state means a journal without one (`Known`). `EpochInv` adds that every epoch a
controller came up under is on a flushed record. It, and the register, need that a failed compaction
leaves the journal alone, which is a hypothesis of the two theorems
(`FailedCompactionKeepsTheFile`), since the code does not provide it everywhere (section 6);
`OpenFilesAreKept` shows where it does, and the other three need no such thing.
The attempt to prove the register with one value on offer failed on the power loss in
a compaction that follows a failed append, which the earlier instance of the run, with two
snapshots and a later trigger, could not reach; the register and the instance are now as sections 2 and 3 say.

**Health** (`HealthInv`). `DispatchRestsOnHealth` compares ages the controller computed with
when a worker really observed a target. `Attested` says that a target held
healthy was observed so no longer ago than the controller believes; a sample carries that claim
from the moment a worker makes it, so `AttestedOnWire` says the same of every sample still on its
way, in whatever order and however late it will be read, and both sides grow old by the same clock. The
restart keeps it because stored flags keep their age.

Induction over the natural numbers, which the counting of a read, the maximum of a set of ages and
the end of a valid prefix need, is by the least counterexample: `LeastNatural` follows from the theorem of the
library that a well-founded relation has minimal elements, and `UpTo`, `FeedIs`, `GreatestIs` and `ValidEndIs` from it.

The proofs assume only the named assumptions of the modules (`PlanAssumption`,
`EnvironmentAssumption`, `ControlAssumption`, `PlaneAssumption`, `ChannelAssumption`,
`JournalAssumption`, `HealthAssumption`), which the runs evaluate on their instances, and `FailuresAreCaused`, `EpochsAreFresh` and `JournalIsADurableRegister` their hypotheses. `PlaneInv`, `PlanInv` and the other invariants were model-checked on those
instances before they were proved; `RecoveryInv` also with the refusals and failures the recovery
run leaves out (`DispatchMayRefuse`, `CancelMayFail`). The theorems of `RolloutProofs` and `StageProofs` are about `Rollout`'s
`Spec`, one incarnation. Across restarts the order of stages, gates, limits and canary, what a completed rollout has
settled, the ledger, the attestation of successes and the table hold as `RecoverySafety` states them. Two things are
claimed of one incarnation only: `AttemptBudget`, and that a report on a cancelled attempt changes
nothing, which a restart that forgets `cancelled_epoch` makes false (section 6).

## 5. What is only model-checked

 * Liveness under fairness, which the prover does not reach: `RunsToAnEnd`, `Delivered`,
   `HealthyCohortIsNotHeld`, `EveryRequestIsAnswered`.
 * What each recursive function computes beyond the lemmas of section 4 (`Feed` in `Channel`), and every
   claim of section 6: a violation is found, not proved.
 * The journal on a system that lets an open file be replaced: `EpochsNeverReused` and `StoreSpec`
   are false there.

## 6. Where the code disagrees with what the repository says

Each of these is a run whose counterexample is a legal behaviour of the code.

 1. *Compensation halts the controller* (`orchestrator_advance.cpp:846`). The `if`
    meant to skip stages that never ran has an empty body, so `finish_rollback`
    tries to move a pending or skipped stage to rolled back; the error halts the
    controller with the rollout still RollingBack. Any failure before the last
    stage of a plan with compensation leads there.
 2. *An interrupted compaction can replace the journal by a part of it*
    (`journal.cpp:934`). On each error path after the temporary was created
    `rewrite` calls `replace_file` on it; where a file that is open can be replaced,
    what was written so far becomes the journal. `journal.hpp:136` promises the opposite.

Also seen while modelling, and kept in the model as the code has them unless
the list says that they are outside it.

*In one incarnation.* A manual gate after a soak has no transition and halts the
controller (`orchestrator_advance.cpp:378`, against `policy.hpp:55`); a satisfied manual
evidence or advance gate is passed without an operator; approving a paused
rollout's gate ends the pause (`orchestrator.cpp:847`, against `lifecycle.hpp:81`);
a batch may exceed the failure-domain, rack, pod and site limits, since every
candidate is checked against the usage before the batch
(`orchestrator_dispatch.cpp:138`, against `policy.hpp:122`); Failed is reported with
work outstanding, and what succeeds late is never compensated
(`orchestrator_advance.cpp:842`); an interrupted abort leaves the rollout Aborting for good;
approving the last gate of a paused rollout moves the cursor past the end, the table refuses
Completed, and once resumed it is Gated with nothing to approve, so that only an abort ends it
(`orchestrator.cpp:228`);
compensation attempts and unknown targets have no deadline; a cancelled
target lets a stage complete, and a cancelled canary member keeps the canary
from ever clearing; `dispatched_total` counts retries, so a canary may clear with
fewer targets than its size. Outside the model: the advance gate ignores the age of samples.

*Across a restart.* `cancelled_epoch` is not in the snapshot, so a cancelled attempt
may publish success after a restart (against `README.md:40`), and neither is the
evidence rule; `begin_rollback` writes RollingBack before it marks the targets, and a
crash in between compensates nothing (`orchestrator_advance.cpp:754`, against
`README.md:46`); nothing calls `reconcile_outstanding` at start-up (against
`README.md:52`); `restore` refuses a rollout that is not armed, or not since it was
regenerated (`orchestrator_recovery.cpp:188`), and compaction then drops it; a stage
found armed skips its entry gate (`orchestrator_advance.cpp:1270`); a crash in the
middle of `approve_gate` leaves a gated stage without a pending gate, one in the middle of
an abort leaves it Aborting; stopped reports of an earlier incarnation's attempts are refused.
Outside the model: the answer for an older generation's attempt is applied to the
new generation's target (`orchestrator_recovery.cpp:373`).

*Journal.* A full journal is neither compacted nor opened again (`journal.cpp:857`); the
trigger counts this incarnation's records only; a torn header at creation makes
the file unopenable. Outside the model: `rewrite` reopens the file without the
exclusive lock (`journal.cpp:958`, against `README.md:49`).

*Execution plane.* The record that suppresses the repetition of an effect is a worker's own,
in memory and bounded, and a retry may go to any worker with a free slot
(`process_adapter.cpp:250`): the effect is performed again on another worker, or after
its entry was evicted (against `attempt.hpp:54` and `README.md:56`; `OncePerKey` says
what holds). The key does not name the attempt, so a retry on the same worker
replays a recorded failure; the route of a duplicate-suppressed retry is erased
(`process_adapter.cpp:596`), so it can be neither cancelled nor reconciled; only the
last attempt that waits for a running effect is answered (`worker.cpp:761`); a cancel
that stopped nothing keeps the route, one that did erases it although the comment at
`process_adapter.cpp:665` says that the attempt stays routed. Outside the model: a failed
`pump_out` drops the frames received in the same turn.

*Health.* A probe whose connections are lost stays in the table of unanswered probes; the
pruning meant for it waits for more than `max_connections` (`process_adapter.cpp:427`),
and `request_probe` refuses at that many, so once it is full no probe is ever sent
again and a gated cohort is held for ever. One probe is answered by every worker,
so two workers make two samples in a row of it (against `policy.hpp:96`, "One lucky
probe is not a gate"). Samples are not matched to a probe, and an older one overwrites a
newer one. Samples are stamped live whatever the message says, and the flag is
still set after a restart (against `orchestrator_gates.cpp:21`).

*Transport.* `queue` takes a body over `max_frame_bytes`, and the whole channel then
fails (`transport.cpp:671`); frames decoded before a failure in the same read are lost. `limits.cpp:110`
admits any positive number of queued frames, and with fewer than 342 one legal read of small
frames can exceed it and fail the channel (`transport.cpp:719`); `FailuresAreCaused` has the bound.

*Control.* Create is not idempotent, and only the revision and the generation tell a
repetition of another command (`controller.cpp:745` fills in the controller's own
incarnation and epoch); a document's rollout that was regenerated and not armed before a
restart is not found again, and the plan is started a second time; a crash between
arm and start leaves it Armed, adopted, and started by nobody; an abort may
answer with an error although the rollout is Aborting, and a pause although it is Paused; an
approval of a stage whose predecessor is being or was rolled back is acknowledged and spends the gate in
memory only (`orchestrator_advance.cpp:462`), so that a restart finds it pending again.

## 7. What is left

In this order:

 1. The verification and authority rules of the gates, and the health verdict of
    `Health` in place of the free one in `Rollout`.
 2. The sequence and freshness fences of `admit`, with progress and acceptance
    evidence, and `set_inventory`.
 3. Composition of `ExecPlane` with the dispatch side of `Rollout`, in place of the
    assumption that the plane keeps its contract.

## 8. Not modelled, and why

 * Heartbeats and scenario files of the workers: silence is covered by `Drop`, which may
   come at any time, and a scenario by what it makes a worker answer. A scenario that never
   completes an effect (`worker.cpp:800`) stores it as not running, so it may be evicted and is reconciled as failed; the model
   has it as an effect that takes for ever. It is failure injection by a scenario file.
 * The fields of protocol messages and of records, parsing, selection, digests, identifiers,
   time and limits: sequential data processing; the model takes their results.
 * Decisions and reports are explanations that no decision reads back.
 * The OS layer is thin: its calls fail where the models let them.
 * The simulated adapters are test doubles; inspection, benchmark and example are
   clients without protocol state.
 * `set_inventory`: the inventory is static in every instance.
