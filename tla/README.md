# Novel-System: a TLA+ model of the long-running creative runtime

Novel-System writes novels with language models over many chapters. Its Stage 5
runtime keeps that work in a PostgreSQL database: tasks, attempts, external
effects, acceptances, commits to the *Canon* and the derived search indexes. It
must survive slow and killed workers, several processes, operators who
interfere, and a commit path (Stage 2W) that writes outside its transactions.
This project models that runtime, checks it with TLC and proves its safety
properties with TLAPS. Paths below are relative to `src/src/novel_agent/`.

## 1. Inventory

| Component | State | Operations | What is hard | What makes it correct |
|---|---|---|---|---|
| Runtime command service (`services/runtime_commands.py`, `domain/runtime.py`, `services/event_log.py`) | task, attempt, effect and writer-lane rows, event log | about 28 commands: create, claim, settle, reconcile, operator control, lane, commits | late workers, operators in any order, two writers | one open attempt per task, results are final, budgets are exact, Canon is one line |
| Canon commits (`services/commits.py`) | project head, commit receipts | commit, receipt lookup | two writers on one basis, retries | compare-and-set, one receipt per key |
| Creative runtime (`services/creative_runtime.py`) | none of its own | `advance`, `recover_boundary` | state read before an `await` and used after it | no stage is skipped, no effect is lost |
| Chapter settlement (`adapters/runtime/chapter_settlement.py`) | none of its own | `settle`, `resolve_commit` | crash after the commit, lost answers, new keys on retry | every commit is found again |
| Memory-write workflow, Stage 2W (`services/memory_write_workflow.py`, `memory_write_policy.py`, `memory_write_gate.py`, `candidate_repair.py`) | `_WorkflowData` in memory, checkpoints, budget usage | `execute`, `resume`, 25 states | kill between an effect and its checkpoint, stale verdicts after a repair | only cleared content is committed, no proposal is sent twice, results are truthful |
| Memory maintenance (`adapters/runtime/memory_maintenance.py`) | none | `execute` | knows results, not checkpoints | a Canon gap is closed once |
| Vertical runner, dispatcher (`runtime/vertical_runner.py`, `runtime/creative_dispatcher.py`) | local list of tasks | `run`, `run_bounded`, `poll_one` | two runners of one run, endless recovery, head-of-line blocking | `run()` ends, its status is true, interrupted work is settled |
| Writer loop (`services/writer_context_loop.py`, `services/agent_context.py`) | loop checkpoints, event log, Context View | one Writing Task by slices | resuming from the right checkpoint, stragglers in the log, compaction | no gate is skipped, no settled call is repeated, the log replays |
| Planner loop (`services/planning_context_loop.py`) | the same kind | one Planning Task by slices | the same | the same |
| Model admission (`services/model_request_admission.py`, `services/model_gateway.py`) | queue, reservations, KV counter, futures | `acquire`, `abandon_request`, `release`, `generate_text` | threads, a condition variable, coroutines that are cancelled | capacity is respected and given back, nobody sleeps for ever |
| Projection outbox (`services/projection.py`) | outbox rows, snapshots, search aliases | `claim_next`, `build`, `complete`, `fail`, the freshness gate | leases that run out under slow builds, poisoned rows | published means built, the gate reads the right index |
| Model-call ledger (`services/model_call_ledger.py`) | one entry per request | create, rebind, settle | cancelled and timed-out calls | an uncertain call is never sent again |
| Event replay (`services/runtime_projection.py`, `services/runtime_recovery.py`) | none | rebuild the projection | rows changed without a complete event | replay equals the live rows |
| Acceptance (`services/runtime_acceptance.py`, `cli.py`) | receipts | `submit` | stale basis, crash between two transactions | one successor per accepted candidate |
| Dispatch coordinator (`runtime/production_dispatch_coordinator.py`) | assemblies, task budget of a cycle | `run_once`, `run_watch` | concurrent project runners | the budget is exact, nobody starves, the watch ends |
| Everything else: agents, prompts, retrieval, claim support, benchmarks, spikes, CLI | mostly none | model calls, ranking, reports | data rather than protocol | outside this project |

How they interact: a *runner* asks the *dispatcher* for a READY task and calls
`advance`, which claims the task through the *command service*, works (through
the *gateway* and the *admission* queue when it calls a model), and settles. A
plan is committed inside the command service's transaction; a chapter is
committed by Stage 2W, outside of it, and only recorded afterwards. A Planner
that meets a gap in Canon waits for a maintenance task, which also commits
through Stage 2W. While a chapter is drafted the runtime may plan ahead; the
plan is revalidated once the chapter is committed. The *dispatch coordinator*
runs the runners of several projects in one process. Each commit writes an
*outbox* row in its own transaction; a freshness task drains the outbox and
opens the gate for the next stage. *Operators* may issue commands on any task at
any time.

`PROJECT.json` lists under "hazards" where in this code things go wrong in a way
that tests hardly reach. The properties below are aimed at that list.

## 2. Modules

| Module | Models |
|---|---|
| `RuntimeCommands` | the command service over one project: every command that writes a task, an attempt, an effect or the lane |
| `MCRuntimeCommands` | its instances: two commits on one basis; a draft commit through Stage 2W, retried; a chain from a Planner gap to a committed plan |
| `RuntimeCommands_proofs` | type correctness; attempts, the failure budget, Canon, receipts, successors and lane generations |
| `ChapterSettlement` | runners, `advance` and `recover_boundary` around Stage 2W for one chapter, step by step, with kills |
| `ModelAdmission`, `MCModelAdmission` | the admission queue and its bridge from threads to coroutines |
| `Tallies` | sums of counts, for the KV tokens of leases and the budget of slices |
| `ProjectionOutbox`, `MCProjectionOutbox` | the outbox, its leases, the aliases and the freshness gate |
| `MemoryWrite`, `MCMemoryWrite` | one Stage 2W request from proposal to freshness, with checkpoints and kills |
| `Manuscript` | abstract: what a run promises of the novel it writes |
| `CreativeRun`, `MCCreativeRun` | one run from its first plan to its last chapter: topology, dispatcher and runner; implements `Manuscript` |
| `ProductionDispatch`, `MCProductionDispatch` | several runs under one coordinator and one task budget |
| `WriterLoop`, `MCWriterLoop` | one Writing Task over its attempts, its checkpoints and its event log |
| `ChapterSettlement_proofs`, `MemoryWrite_proofs`, `ModelAdmission_proofs`, `ProjectionOutbox_proofs`, `ProductionDispatch_proofs`, `WriterLoop_proofs`, `CreativeRun_proofs` | the theorems of section 4 about these modules |

The modules meet at their edges: `ProductionDispatch` counts the tasks of a run,
`CreativeRun` has the run's tasks and sees only the outcome of each `await`;
`RuntimeCommands`, `ChapterSettlement`, `MemoryWrite`, `WriterLoop` and
`ProjectionOutbox` are what happens inside those awaits; `ModelAdmission` is
below all model calls.

A sum over a set (`inflight_kv_tokens`, the tasks reserved) is a `Tally`: the
number of units held, each unit being a holder and a number from 1. Written as a
cardinality it needs no recursion, so the library's theorems about finite sets
apply to it.

### RuntimeCommands

One command is one database transaction and therefore one action. A command that
the code refuses leaves the tables alone; the refusal is a disabled action. The
state is that of the tables: `task` and `att` (rows by task and attempt number),
`effect` (the outer effect of an attempt), `lane` (the project's writer claim),
`canon` (commits in order; a task's `basis` is a position in it), `receipt`
(what the commit service answered, by key), `used` (identities of commands in
the event log) and, outside the database, `fence`: what each worker still holds
in memory. A worker never forgets its fence, so any late callback is a behaviour;
a crashed worker is one that takes no further step.

Abstracted: failure classes by what their policy does (consume the budget or
not, force BLOCKED); hashes, artifacts, schedules and permissions; an optional
`observed_revision`, which only refuses more. `task.granted` is a history
variable for `BudgetExact`. `settle_attempt` stores the outcome its caller
names, so any outcome that goes with the terminal status may be stored
(`SettleOutcomes`). `TopologyAssumption` says that the first tasks of a
run wait for nothing and that a later task names one dependency, as every
creator in `runtime_commands.py` and `creative_runtime.py` does.
`settle_maintenance_and_retry_planner` accepts only a Planner task as the one
that found the gap (`_validate_gap_finding`). `save_checkpoint` and `verify_writer_lane` are left
out (the first writes checkpoints only, the second nothing). The instances are
small projects; acceptance predecessors of commits that stand alone in an
instance are dropped.

### ChapterSettlement

The interleaving inside `advance` and `recover_boundary`: each step is one
transaction, one answer of Stage 2W or one read. A runner is a program counter
and what it remembers (`n`, `rev`, `verdict`, `prior`, `found`). It may be killed
anywhere (`Kill`), started again (`Start`), or lose its heartbeat and leave a
Stage 2W call behind that still may commit (`HeartbeatRefused`, `StrayEnds`).
`Return` is the conflict that `poll_one` swallows, `Exit` an error that leaves
`run()`: a fence that is stale, a heartbeat that is refused, a recovery command
that collides. Commands are those of `RuntimeCommands` cut down to one DRAFT_COMMIT
task that always gets the lane. The loop's other ways out (slices, dispatch
budget, chapter boundary) are left out: they only end it earlier. What follows
the commit is one flag, `projected`.

### ModelAdmission

Each step is one critical section of the condition's lock or one uninterrupted
stretch of the event loop. A call has a coroutine, a helper thread in
`acquire()` and the future between them. `arrival` is the sequence number that
orders the queue. Time is absent: a wait may end by its deadline at any moment
(`WaitTimesOut`), and a pass of the loop that does not admit may find the
deadline passed. A call may be cancelled at every await, also between the moment
its future is set and its own next step (`model_gateway.py:815`).
`threading.Condition` is external, modelled from its use.

### ProjectionOutbox

`row` is the outbox, `alias` what the search aliases of each project point to,
`worker` the processes that run freshness tasks. `build` is one step that moves
the aliases, because nothing else of it can be seen by others. `complete()` and
`fail()` read the row with `session.get` and write it without a lock
(`projection.py:363`, `:402`), so each is two steps, the check (`CompleteReads`,
`FailReads`) and the write (`CompleteWrites`, `FailWrites`), between which another
process may claim the row. `workerId` is what each process was given as its id; `Wirings`
has ids of their own and the one id that production wiring gives all
(`production_bootstrap.py:1127`). The lease of a dead process runs out sooner or
later; that of a live one at most `MaxLate` times, and `lapsed` remembers whose
row that was. Runs of a project commit only on a projected basis, as the fixed
topology makes them.

### MemoryWrite

One state of `_advance` is one action, named after it; a state whose effect
and checkpoint can be separated by a kill is cut there (`SendProposal` and
`ProposalAnswered`, `Commit` and the step after it). `wf` is `_WorkflowData`,
`ckpt` what a cold start reads back of it (`Durable`), `receipt` the commit
service's row for the request's key. `Kill` loses `wf`, and it may fall after
the last checkpoint, when the answer is computed but nobody has used it yet.
`Resume` is `execute()` with the checkpoint of a suspended result, warm or in
another process; `Restart` follows a kill, from the checkpoint or, for a caller
that only knows results, from the beginning; `ReopenValidation` is
`prepare_validation_retry`.

Who keeps the checkpoint: `chapter_settlement.py:196` never passes one, and
`memory_maintenance.py:104` resumes from the results it recorded. The caller that
starts a killed chapter from its checkpoint is `execute()`'s own contract
(`resume_checkpoint`), exercised by `scripts/run_u8b_process_kill_matrix.py`; in
production a killed chapter comes back through `ChapterSettlement`'s recovery
instead. A maintenance call that is killed after it was resumed restarts from
the beginning in the model. A candidate is a member of `Content`,
known by what the validator finds in it (`Finding`), the risk of its patch
(`Risk`), what normalisation (`Normal`) and quarantine (`Rest`) leave of it.
Whether a chapter changes the text root is part of its request; one that does
not is FATAL (CHAPTER_TEXT_UPDATE_REQUIRED).
`PrepareCommit` reads the current commit, or takes the request's base when it
cannot be read. Tokens and wall-clock are one step, `BudgetSpent`. `approved` and
`sent` are history variables.

### CreativeRun and Manuscript

A task is known by line of work (plan, lookahead, replan, promotion, draft),
chapter and stage; `task` has the rows, `canon` the commits. The process has one
thread, so code between two awaits is atomic, except that an `advance()` or a
recovery that writes in several transactions is cut there: `then` holds what is
left of it, and `Kill` may fall in between. `pc` is the runner (`idle`, `loop`,
`poll`, `await`), `inflight` the batch it awaits. `Advance` has the outcomes of a
leaf the topology goes on from; `Upset` all others: the statuses of
`SettledStatuses`, those a task is settled with although its workflow has
committed (`SettledAfterCommit`), a Canon gap, and an exception that leaves the
attempt open. A settlement's row counts its attempts, since recovery asks only
for the key of the first (`ReceiptFound`): the commit of a later one is not found
and the task goes back to WAITING_RETRY. `Serve` (retry, unblock, extend, resume),
`Reclaim` and `HumanDecides` are the operators. A schedule is a retry that waits
for an operator.

`Manuscript` says that plans and chapters reach Canon one at a time, no chapter
is written past the horizon of a plan, nothing is committed on top of a commit
that has not been projected, and only a complete novel is reported complete. The
refinement mapping is read off the commits: `Written` is the chapter of the
latest draft in `canon`, `Covered` the chapter of the latest plan plus its
horizon (`HorizonOf`: `lookahead_horizon` for a plan made ahead, its promotion
and its replanning), `Fresh` that the projection task of the latest of both SUCCEEDED;
`completed` is the status of `run()`. `Latest` passes over maintenance commits;
they, batches, kills and superseded plans map to stuttering. `GapAt` says where
leaves meet a Canon gap. It has no draft: only a Planner's leaf can end in one
(`creative_runtime.py:464`).

### ProductionDispatch

Each run is a coroutine (`pc`) behind the semaphore; it reserves a slice of the
budget (`remaining`, `reserved`), advances tasks at awaits and gives back what it
did not use. `advanced` counts tasks that really ran, `uncharged` those of slices
that raised. A run is reduced to the tasks that are left and what the next one
waits for; a result without progress (a Writer that yields, a retry) costs budget
and a fault, so that only finitely many come. `Cycle` and `CycleEnds` are
`run_once` inside `run_watch`; recovery in front of a run, a slice and the
admission check after the cycle may raise (`RunnerRaises`, `CycleRaises`). The
settings of a watch (`Watches`: where runs stop, the cycles, the budget of a
cycle or none) are chosen in `Init`, and a run may have no slice limit.

### WriterLoop

Every branch of `_execute` is an action, INPUT_NOT_READY included; only
BUDGET_EXHAUSTED is left out, whose delta `resolve` never makes. What an attempt
persists is persisted in the order of the code and may be cut anywhere: the event
of a reconciled rewrite, the RunCheckpoint (`Reconcile`), the settlement
(`Deliver`), with a kill after each (`Kill`, `KillUnsaved`). A text is the attempt that wrote it and
its number there; a report, an observation and a result name the text they are
about. `refs` are the checkpoints among the task's terminal artifacts,
`eventRefs` those in its events; `Lineage` is what a resumed attempt looks
through. `log` is the run's event log as the projector reads it: a delta must
find the revision it was made for, a compaction the very View it was made of,
otherwise replay is `Broken`. Events that project to nothing but their position
are not listed. `Kill`, `Reclaim` with a straggler (`Stray`, which appends a
delta and may also replace the latest RunCheckpoint, since `event_log.py:123` is
not fenced) and `Foreign` interleave anywhere. A task that waits for input leaves
by pause and resume.

## 3. Runs

Passing runs:

| Run | Checks | Shows |
|---|---|---|
| lane | AttemptDiscipline, GenerationsDistinct, CanonLineage | two plan commits compete for the lane under two operator commands |
| draft | TypeOK, BudgetExact, SucceededIsCommitted, SettledAttemptsFrozen, CommittedNeverReclaimed | two attempts of one draft commit through Stage 2W, both with a live worker, under operator commands in any order |
| chain | SupersededNeverRuns, SuccessorOnCommit | Planner gap, maintenance, retried Planner, acceptance and commit, with a late `create_task` |
| settlement_pair | NoDoubleCommit, SuccessIsProven, InterruptedIsSettled, RunReturns | two runners, two attempts, a kill, lost answers, commits of another run: one commit, no guessed success; every attempt is settled and every `run()` ends, outside the traps the properties name |
| settlement_kill | FirstReceiptKept | a runner killed twice anywhere in two attempts while another run commits: an accepted first request is never closed as compensated |
| admission_queue | WithinCapacity, NoOrphanLease, SleepersWoken | four calls (one the repeat of another's id), two slots, a KV budget, cancels while waiting and just after the handover; no waiter depends on its deadline |
| outbox_drain | PublishedForGood, ClaimRespected, EveryCommitReady | processes with own or shared ids, a claim between a check and its write, a lost lease, a failed build and a kill: what is completed was published, the lease protects a claim, every commit becomes READY |
| memory_write | CommittedIsCleared, TruthfulResult, SentOnce, CheckpointsAdvance, Terminates, CommittedIsFinished | seven kinds of request under two faults out of kills, lost answers, failing ports and foreign commits: what is committed was cleared as it stands, and nothing is sent twice or, outside `StoppedAgain`, reported wrongly |
| creative_run | LookaheadRevalidated, WriterBasisStable, WaitIsExplained, TargetReached, ImplementsManuscript | two chapters under three policies with failing leaves, Canon gaps of a plan and of a lookahead and a kill between any two transactions: the run implements `Manuscript` and, outside the named traps, completes |
| dispatch | BudgetConserved, NoStarvation, WatchEnds | three runs share two tasks per cycle (or any number) and two places; conflicts, exceptions, failed assemblies and stop settings neither starve a run nor keep the watch from ending |
| writer_loop | ReadyIsReviewed, SettledCallsSkipped, YieldAdvances, LogReplays, AttemptEnds | three attempts under four policies that yield, fail, are killed or reclaimed at any step |

Every module states its type invariant, `TypeOK`; of the runs only draft checks
it. For the other modules it is the place to look up what the variables hold;
section 4 proves it for `RuntimeCommands` and `WriterLoop` and uses it, or a
stronger typing, in the inductive invariants of the others.

One run that TLC finds violated, where documents of the repository say otherwise
("findings" in `PROJECT.json` quotes them): **settlement_rekey**, `NoLostReceipt`.
Recovery asks for the first attempt's key only, while later attempts commit under
keys of their own.

Some properties name an exception, a trap of the code that makes them false
without it. The bounds of the runs let all of them happen (`LookaheadGap` matters
from three chapters on, which the theorem covers); each is described below.

| Property | Exceptions |
|---|---|
| InterruptedIsSettled | `RecoverySpent`, `Overtaken`, `Inexplicable` |
| RunReturns | `Inexplicable` |
| NoOrphanLease, SleepersWoken | `Lost`: a cancel between handover and next step |
| PublishedForGood, ClaimRespected | `lapsed`: the row's lease ran out under a process at work |
| EveryCommitReady | `SharedIds` once a lease lapsed |
| TruthfulResult, CommittedIsFinished | `StoppedAgain`; a caller that keeps no checkpoint |
| WriterBasisStable | `AheadOfTheDraft`: maintenance of a lookahead's gap |
| WaitIsExplained | `AbandonedLookahead`, `LookaheadGap` |
| TargetReached | `Rejected` (a person said no), `LostReceipt`, `Overtaken`, `StaleMaintenance`, `SecondPlanner` |
| BudgetConserved | `uncharged`: tasks of a slice that raised |
| YieldAdvances | a policy with no post-draft call |
| LogReplays | `BuiltOnDirective`, `DirectiveSaved`, `HasForeign`, a straggler that is done |

`SentOnce` and `CheckpointsAdvance` are about callers that keep the checkpoint.

In spite of the lost receipts Canon is safe: `NoDoubleCommit` and `CanonLineage`
hold in all these situations, because the commit service compares the head. What
is lost is the knowledge that the chapter was committed: the task is retried,
refused for its stale basis, and needs an operator.

### Observations without a run of their own

Other places where the models do what the code does and a document, a comment or
a message of the repository expects something else. Many are the exceptions named
above: TLC shows them when the exception is taken out of the property. Some need
the constants said here; the others were met while reading.

Settlement and recovery (`ChapterSettlement`):

* one runner, `MaxAttempts = 1`, `AnswersLost = TRUE`, `NoLostReceipt`: after an
  uncertain answer of Stage 2W `advance` records the effect COMPENSATED although
  the commit happened (`creative_runtime.py:776`).
* two runners, `MaxAttempts = 1`, `NoLostReceipt`: recovery looks at no lease, so
  a second runner closes the effect of a first that is alive inside Stage 2W
  (`vertical_runner.py:153`).
* `RecoverySpent`: the identity of the recovery command names the task and not
  the attempt, so the second interruption of a task collides with the first in
  the event log and is refused for good (`creative_runtime.py:290`).
* `Overtaken`: another run of the project commits above the attempt's own commit
  before recovery asks; then the commit is no longer the head, every recovery is
  refused (`runtime_commands.py:2035`) and the attempt stays open.
* `Inexplicable`: a slow Stage 2W call of the first attempt commits after a second
  attempt was claimed. Recovery finds the receipt, but no effect of the current
  attempt, marks the task RECOVERY_PENDING and reports progress each time;
  `run()` goes round without end (`creative_runtime.py:203`,
  `vertical_runner.py:81`), although a comment there wants to "return control
  instead of spinning".
* Without a receipt the code gives an interrupted attempt back as WAITING_RETRY;
  `docs/stage5_long_running_creative_runtime_execution.md:706-707` would keep it
  RECOVERY_PENDING and send no other request. `InterruptedIsSettled` states what
  the code does.

Admission and outbox:

* `Lost`: a lease handed to a coroutine that is cancelled before it resumes is
  never released (`model_gateway.py:816`): the bridge only abandons requests whose
  future was not set. Capacity is then gone for good, and a sleeper that needed it
  is not woken.
* `ProjectionOutbox`, the action property that a commit becomes `ready` only while
  `alias` of its project is that commit (`ThreeCommits`, `MaxLate = 1`): a late
  build moves the aliases back between a newer build and its gate, and the gate
  does not look (`creative_runtime.py:903`). With `MaxLate = 0` it holds.
* `ProjectionOutbox`, `TwoCommits`, `Poison = {1}`, `EveryCommitReady`: one
  project's unbuildable commit stops the others (`projection.py:338`).
* `lapsed`: once a lease runs out under a slow process, that process may complete
  or fail the row the next one claimed, either because production wiring gives all
  processes one id (`production_bootstrap.py:1127`) or, with ids of their own,
  because the claim falls between its check and its write (`projection.py:363`,
  `:402`). Its `fail()` then takes a completed row back.
* `SharedIds`: two processes with one id may go on failing each other's claims for
  ever, each having lost its lease to the other.

Model-call ledger (`model_gateway.py`, `model_call_ledger.py`), read and not
modelled: a process killed between the sent marker and the answer leaves the entry
REQUESTED, not UNCERTAIN, and only UNCERTAIN is refused (`model_gateway.py:386`):
a retry under the same request id is sent again, and so is one whose entry is
COMPLETED. A comment at the cancel branch wants recovery to "reconcile instead of
issuing a blind retry". A rejected or failed entry is protected: the sent marker
may be written again, but its status can not change any more.

Commands:

* `_require_fence` asks for the lane only of commits: a maintenance task that
  lost it still settles (`runtime_commands.py:2164`).
* `commit_accepted_candidate` has no cancel check, `settle_attempt` has one
  (`runtime_commands.py:1825` and `:613`): a cancelled commit ends SUCCEEDED.
* `CommitService` answers a known key with its receipt without comparing the
  request (`commits.py:96`).

Stage 2W (`MemoryWrite`):

* `degraded` and the no-op mark are not in the checkpoint: a request resumed cold
  after a quarantine reports COMMITTED without `degraded`
  (`docs/stage2_memory_write_workflow_execution.md:720`, `:1923`).
* `StoppedAgain`: a workflow that fails after its commit saves resume state STOP
  (`memory_write_workflow.py:3098`) before it answers. If the answer is lost, a
  start from that checkpoint is FATAL without the commit (`:1755`, `:3238`), and
  the chapter is never projected, although
  `docs/stage2_memory_write_workflow_execution.md:970` lets CANON_COMMITTED only go
  on to PROJECT.
* A caller that only knows results (`memory_maintenance.py`) sends the proposal
  again after a kill, and after its own commit is told REPLAN_REQUIRED; hence the
  condition on the caller in the properties.
* `seen_content_hashes` is deduplicated, so the stop for repeated content cannot
  be reached. The curator's repair and the Guardian do not check
  `max_total_model_calls`, and refused repairs are not charged.
* A stale Guardian decision makes the gate raise, which is FATAL; so is a
  Guardian review of a candidate that was never risk-classified. Human approval
  of an exact candidate never leads to a commit. The policy never answers REPLAN.

The run (`CreativeRun`):

* `AbandonedLookahead` (one trouble, no kill): a lookahead whose advance raised stays RUNNING, counts as live, and the
  run reports "waiting" although nobody is asked for anything
  (`docs/stage2_to_stage5_real_novel_vertical_pilot_execution.md:234`,
  `docs/stage5_long_running_creative_runtime_execution.md:710`).
* `LostReceipt`: a settlement that committed under the key of a later attempt, or
  whose answer was uncertain (BLOCKED), is retried on a basis that has moved;
  `claim` refuses it and the chapter, although in Canon, is never projected.
* `AheadOfTheDraft`, `Overtaken`: the maintenance of a gap that a lookahead's
  Planner met (`creative_runtime.py:464`) commits while the chapter beside it is
  being written; the draft's basis is stale from then on and its commit is
  refused.
* `StaleMaintenance`: a maintenance task whose basis is gone, by its own commit
  when a kill or a failed write came between commit and settlement, or by the
  chapter's; `claim` refuses it and its Planner waits for good. Given back by an
  operator it is READY at the head of the queue.
* `SecondPlanner`: a replan and a promoted plan, or a repaired one, can both be
  claimable (`docs/project_status.md:697` says one foreground); the commit that
  loses becomes stale and hides what follows it in the ready queue.
* `LookaheadGap` (`Target = 3`): the stale READY maintenance of a lookahead keeps a
  slice polling while an operator reclaims the lookahead itself. `run()` then
  returns "waiting" although no foreground task is left that anybody could serve;
  the next `run()` repairs it.
* A gap or a BLOCKED fallback plan makes `recover_boundary` create a task whose
  identity exists with other contents: the runner raises at each start. A stale
  automatic acceptance raises out of `_recover_boundary`. After a promoted
  candidate is rejected the rolling plan is created but never dispatched.
  Nothing calls suspect or reclaim by itself.

Dispatch (`ProductionDispatch`):

* `uncharged`: a slice that raises gives its whole reservation back, also for
  tasks it finished, so a cycle may advance more than `max_total_tasks`;
  `BudgetConserved` says by exactly how many.
* A run turned away by the budget reports "waiting"; "yielded" is not terminal, so
  a watch with `stop_after_chapter` ends only by its event or `max_cycles`. The
  statuses of a cycle are read at different times. Results of the first recovery
  are not counted as activity.

Writer loop (`WriterLoop`):

* `BuiltOnDirective`: the item of a rewrite is put into the View without an event
  (`writer_context_loop.py:777`); a compaction of that View cannot be replayed, and
  every later attempt ends BASIS_CHANGED
  (`docs/stage3_writer_context_loop_execution.md:276`, `:307`). The same holds for
  an event of another process between a compaction and its event, and for a
  straggler's delta.
* `DirectiveSaved`: killed between the RunCheckpoint (`:1076`) and the settlement
  (`creative_runtime.py:590`), the attempt leaves a saved View with that item; a
  resumed attempt at REACTIVE_MEMORY_PENDING appends a delta made for it, which
  the seed cannot replay. Policy `Deep`, with as many post-draft calls as
  production has, gets there.
* `max_post_draft_model_calls` is looked at before the first review, a repair's
  review and the Observer (`:539`, `:925`, `:1012`), and not before a rewrite, so a
  slice can make more calls than that. `TypeOK` has the bound that holds.
* `MaxAttempts = 4`, `MaxFaults = 1`: a failed resumed attempt leaves `refs` in
  the order newest first, and the next one resumes from the older checkpoint.
* A policy without post-draft calls, which `WritingLoopBudgets` accepts, yields at
  OBSERVER_PENDING for ever; a Writer that always asks for more Memory yields for
  ever without using a retry. Both are up to the answers of the model or to
  configuration.
* Rejected requests, an exhausted Memory budget and BASIS_CHANGED settle without
  the checkpoint refs. The review and repair branches catch only editorial errors;
  a projection error there leaves the attempt RUNNING.

Event replay (`runtime_projection.py`): the projection rebuilt from the log
differs from the live rows after supersede (status, block cause), lease expiry
(status), a reclaim followed by a settlement (revision, refs),
`operator_reconcile` (block cause, paused, refs), retry (paused) and pause
(cancel request). The only reader of the rebuilt rows,
`runtime_recovery.select_safe_checkpoint`, compares fields that never change.

### Bounds

`MaxAttempts` is 2 where a retry or a late worker matters: the second attempt is
the first one that has a predecessor, another key and a used command identity. A
third adds none of these. Operator command identities (`CommandIds`, symmetric)
are two, enough for a command and the one that undoes it. Two runners,
processes or tasks are enough for each race in the hazards. Four calls let a
queue of two form behind two slots. `MaxCrashes`, `MaxFailures`, `MaxLate` and
`MaxKills` bound what the environment does, not what the code does.

* settlement_pair has two attempts, two runners, a kill, lost answers and another
  run at once (223,557 states), so that the second interruption and the contested
  recovery both happen; settlement_kill has one runner and two kills, for what
  only holds of one process.
* outbox_drain: the third commit follows the second in its project, so that a
  late build meets a newer one; `Poison` is empty (see above for `{1}`).
* memory_write: two proposals, three revisions, two repairs, two normalisations,
  one review, one refresh and four model calls let every budget run out before or
  after the others; `RepeatLimit` 2 lets a loop be detected; two faults are a
  fault and one during the recovery from it. The seven requests are a curated
  chapter, a validation only for a caller that knows results, a trusted candidate,
  and four without a candidate: one that must change something and three chapters,
  with and without a changed text and a caller that comes back.
* creative_run: `Target` 2 is the least with a chapter that has a predecessor and
  a plan that may be made ahead; three policies cover lookahead (with another
  horizon than the plan's), manual acceptance and a horizon of two chapters; gaps
  in the first plan and in the lookahead beside the first chapter, one tranche of
  budget, two troubles (one may hit the repair of the other) and one kill.
  234,570 states.
* dispatch: three runs on two places, two tasks each, with a budget smaller than
  their demand, so that a run is always turned away, or without one; one fault.
* writer_loop: three attempts are a slice, its resumption and the resumption of
  that; two faults and one compaction; four policies, one without post-draft
  calls and one with as many as production has.

Deadlock is not checked where the modelled thing may rest: the RuntimeCommands
runs (all commands used), memory_write (a final result), dispatch (the watch
returned) and writer_loop (no attempt left). All other runs check it.

### Fairness

`ChapterSettlement`: a runner that is not killed goes on (weak fairness of its
steps), and a task that has an attempt is given to a runner again, since the
runtime is operated as a service that is restarted. Operators owe nothing.
`ModelAdmission`: threads, the event loop and the provider call go on (calls have
timeouts); the deadline of a wait owes nothing, which is what makes
`SleepersWoken` a statement about notifications. `ProjectionOutbox`: processes go
on, clocks run, and a freshness task that waits for a retry is retried again and
again (strong fairness, since all processes may be busy each time somebody
looks): the policy of projection failures makes them retryable, and it is an
assumption about operations that somebody does retry.
`MemoryWrite`: the loop goes on while its process lives, and the caller calls
`execute()` again for a suspended or interrupted task; people owe no decision.
`CreativeRun`: weak fairness of the process as a whole (it is started again, its
handlers go on, every await ends) and of the operators as a whole: as long as
something waits for them they serve something, since a run whose retries nobody
starts does wait for ever. Operators never have to reject, and the environment
owes no trouble. `ProductionDispatch`: the watch goes on to its next
cycle, each coroutine goes on by itself (asyncio is fair and calls have
timeouts), and what a task waits for comes. `WriterLoop`: only the steps of the
running attempt; nobody owes it another attempt.
`RuntimeCommands` has no liveness: whether a task proceeds is up to its callers.

## 4. Proofs

Every theorem holds for all values of the constants that meet the named
assumptions: `ConstantsAssumption` and `TopologyAssumption` (`RuntimeCommands`),
`SettlementAssumption`, `AdmissionAssumption`, `OutboxAssumption`,
`BudgetAssumption` and `ContentAssumption` (`MemoryWrite`),
`DispatchAssumption`, `CreativeRunAssumption`, `WriterAssumption`. They give the
constants their types and make bounds natural numbers; `TopologyAssumption` and
the restriction of `GapAt` in `CreativeRunAssumption` are described in section 2,
and `OutboxAssumption` also keeps the name `"none"` from being a worker's.

Between them the theorems state every invariant and every action property that
the runs check, and the refinement of `Manuscript`; a theorem that needs a
condition names it in its statement.

### RuntimeCommands: every safety property of the module

* `TypeCorrect`: `TypeOK` is inductive; the proof has one step per command over
  lemmas about rows (`PutRow`, `BumpedType`, `EndedType`, `CommitType`, ...).
* `AttemptsDisciplined`, `SupersededStaysDead`, `SettledAttemptsStayFrozen`. The
  inductive invariant is `AttemptInv`: `TypeOK`, `AttemptDiscipline`,
  `SupersededNeverRuns` and `AbsentUntouched`, that a row which does not exist
  yet has no attempts. The last is needed because creating a row does not write
  the attempt table. The argument: every command, seen from any one task, is one
  of six *moves* (untouched, idle, busy, born, claimed, closed), shown command by
  command in `EveryMove`; `MovesPreserve` and `MovesFreeze` show what moves keep
  without looking at commands again.
* `BudgetIsExact`. `BudgetInv` adds to `AttemptInv` that a running attempt has
  budget left (`RunningIsFunded`, without which `max(0, remaining)` could cut
  something off) and that only a settled attempt has a failure to count
  (`UnsettledIsFree`, without which a late result could be counted twice). The
  moves here are free, spending and granting ones (`EveryCost`).
* `CanonIsOneLine`, `SuccessHasCommit`, `SuccessorsFollowCommits`,
  `CommittedStaysUnclaimed`. `CanonInv` adds the converse of `CanonLineage`: an
  accepted receipt, under whatever key, is that of the commit on the task's basis
  (`ReceiptsInCanon`). A replayed request that finds its receipt relies on it,
  and so does `reconcile_external_commit`. `WritersExist` is needed for the
  commit that Stage 2W makes without asking for the fence.
* `GenerationsAreDistinct`. `GenerationInv` speaks of rows as well as fences,
  because a claim copies the generation of the row into the new fence.

### ChapterSettlement

`SettlementInv`: the row's current attempt is its last; no two runners work on
one attempt (`WorkersDistinct`); a request whose caller, or whose abandoned call,
may still commit has no receipt (`AnsweredOnce`); what a recovering runner read
holds as long as the revision does (`ReadIsCurrent`); at most one key was ever
accepted, and Canon then left the basis (`HeadInv`).

* `ChapterCommittedOnce` and `ChapterSuccessIsProven`, for any number of runners,
  attempts, kills, abandoned calls and foreign commits, lost answers included.
* `FirstCommitKept`: with one runner process and a commit port that answers, the
  commit of the *first* attempt is never closed as compensated, for any number of
  attempts, kills and commits of other runs. The conditions are needed: with a
  second runner or a lost answer recovery can ask before the receipt is there
  (section 3). For attempts after the first the same is false even then
  (settlement_rekey): this is how far recovery by the stable key carries.

### MemoryWrite: every safety property of the module

The human decisions, the requests (mode, profile, caller), the contents with
their findings and risks, and all budgets are arbitrary.

* `CommitsAreCleared`. `ClearInv` says of the live data, of the checkpoint and,
  while a resumable result is out, of the mixture that a warm resume makes of the
  two (live data at the saved state), that they are sound at the state where the
  loop goes on (`SoundAt`): from VALIDATE on the validation is that of the
  current candidate, a commit request is for a cleared one, and an approval read
  as current is about the current content. The last (`ApprovalHolds`) is the
  delicate part: the Guardian's decision is bound to a change set id, and the
  child a quarantine leaves keeps the id with a different content. It holds
  because a candidate with a finding is not approved where a quarantine can
  follow.
* `ProposalsAreSentOnce`, `ResultsAreTruthful`, `CheckpointsNeverGoBack`. Every
  step of the loop is shown to be *quiet* (nothing sent, nothing committed, no
  usage given back; `QuietPropose`, `QuietRepair`, `QuietPublish`), or one of
  three steps that are not (an attempt is made, an attempt is sent, PRECOMMIT
  lets the candidate through), or one of the steps from COMMIT on (`LoopSteps`);
  the invariants are checked against these cases and the next `execute()`.
  `SendInv`: the live and the saved number of attempts agree, and an attempt
  about to be sent was not sent; it holds after a kill because `_initialize`
  marks the attempt it finds as recovered. `TruthInv`: while `execute()` may go
  on, a commit made or about to be made is behind a checkpoint at COMMIT or
  later, so that a restart asks for its receipt again. `AheadInv`: the live data
  are never behind the checkpoint. These three are about a caller that keeps the
  last checkpoint, and `TruthInv` covers a kill between that checkpoint and the use
  of the answer: a start from it gives the same answer again, except from the STOP
  of a failure after the commit, which the theorem names (`StoppedAgain`). A caller
  that only knows results begins again after a kill:
  its proposal can go out a second time, and a commit made before the kill can be
  answered with a fatal result.

### ModelAdmission

* `CapacityIsKept`, for any calls, repeated ids and late cancels. `CapacityInv`
  says where the thread of an active or queued call is (`Placed`) and what its
  future holds (`Linked`), so that a lease is released once.
* `LeasesHaveOwners`, for any cancels: every lease has a thread or coroutine that
  will release it, or its coroutine was cancelled between the handover and its next
  step (`Lost`), the one way the code loses a lease. `Awaited` is needed besides:
  nobody waits for a future only if it is settled.

### ProjectionOutbox

* `SnapshotsStayPublished` and `ClaimsAreRespected`, for any worker ids, shared
  ones included, and with claims between the check and the write of `complete()`
  and `fail()`. `OutboxInv` adds that a process which holds a row or a task knows
  which (`Held`), and that as long as no lease of a row ran out under a process at
  work (`lapsed`), whoever works on the row is the one that claimed it last, and
  its lease still runs (`Claimed`). That is the argument for both: the lease
  protects a claim; the ids and the unlocked check add nothing to it.

### ProductionDispatch

* `BudgetIsConserved`, for any runs, places, watches and interleavings: the budget
  agrees with the tasks that really ran, up to those of slices that raised.
  `SlicesAccounted`:
  only an open slice holds a reservation, and its results fit into it. The sum is
  handled by `TallyMove`: changing one holder changes the tally by the difference.

### WriterLoop: every safety property of the module

Policies, the number of attempts, faults and compactions, and what Writer,
Editor and Observer answer are arbitrary.

* `ReadyTextsWereReviewed`, `SettledCallsStaySettled`, `YieldsMakeProgress`. The
  inductive invariant is `LoopInv`. `LocalOK` says for each place in `_execute`
  which text the report and the observation are about (`Seen`), which calls have
  not been paid for yet (`Unpaid`), how much of the allowances is used
  (`Within`), and how far the slice has come from its checkpoint (`Further`).
  `CheckpointsOK` says the first two of every checkpoint that was ever written,
  because a resumed attempt may begin at an old one; this is what carries a
  review across a kill.
* `AttemptsLeaveAReplayableLog`, with the exceptions `LogReplays` names, kills
  between an event, its RunCheckpoint and the settlement included.
  Replay is a recursive function, so its value on every log is not within reach
  of induction theorems that take an operator. `LogInv` goes around it: as long
  as none of the exceptions happened (`Quiet`) there is a *history*, a function
  from positions to Views in which each is what `Apply` makes of the one before,
  none is broken, and the saved and the running View stand at their positions.
  A step that adds an event extends the history by one. That replay follows a
  history to its end (`HistoryReplays`) is shown by the least position at which it
  would not.
* `SlicesKeepTheirAllowance`: `TypeOK`, which also says that a slice stays within
  its Memory rounds and Writer turns, and how many calls after the Draft it can
  make (more than `max_post_draft_model_calls`; section 3); these parts need
  `LocalOK`, since whether a turn may be taken is decided a step before it is
  counted.

### CreativeRun: every safety property of the module, and the refinement

Target, policies, gaps, troubles, kills and the size of a tranche are arbitrary.

`RunInv` ties the rows to the commits. A row's basis is a prefix of Canon, and
what the row stands for holds of that prefix for good (`RowsFit`): a draft that
its predecessor is written and its chapter covered, a plan that it starts
where the last chapter ends, a promotion that its chapter is in Canon and was
observed not to affect the plan made ahead of it. Every commit was made by
a row whose basis was the commit before it (`CommitsFit`). The other conjuncts
speak of what a batch awaits, of the rest of a handler cut between two
transactions (`then`), and of the runner. Since prefixes do not change, only
three kinds of step matter (`Moves`): those that leave Canon alone, those that
finish a projection and those that commit.

* `PlansAheadAreRevalidated`: a lookahead is promoted only after the chapter it
  was made ahead of.
* `TheRunWritesTheNovel`: `Spec => ImplementsManuscript`. A commit maps to the
  abstract step of its line, a projection to `fresh`, the report "completed" to
  the abstract completion; everything else stutters. That the novel is complete
  when `run()` says so is the lemma `TargetIsLast`: once the last chapter of the
  target is in Canon no plan and no chapter follows it, by the first one that
  would.
* `CanonWaitsForTheDraft`: `WriterBasisStable`, without a condition: the
  maintenance of a lookahead's gap is the only commit that can fall behind a draft.
* `AWaitingRunHasAReason`: `WaitIsExplained`, without a condition. Once a lookahead
  met a gap its exception `LookaheadGap` holds for good, since rows stay; before
  that (`NoLookaheadGap`) `WaitInv` orders the foreground rows by `Place` (chapter, draft before plan, retry,
  stage): each one that is finished or superseded has the next one behind it
  (`Followed`) or a pause that accounts for it, and none lies past an open
  lookahead. Every step is a `Turn`: it keeps this up for each row it
  touches or creates. If no foreground
  row holds the run any more, the last one is a projected draft (`Stuck`); with
  nothing left to recover, all that remains is a lookahead that counts as live
  (`StuckLive`), which is the exception the property names. TLC searched `WaitInv`
  for counterexamples at `Target = 3`, without exhausting that instance, before
  it was proved.

### Only model-checked

All liveness (`InterruptedIsSettled`, `RunReturns`, `SleepersWoken`,
`EveryCommitReady`, `Terminates`, `CommittedIsFinished`, `TargetReached`,
`NoStarvation`, `WatchEnds`, `AttemptEnds`): fairness and ENABLED are out of the
prover's reach.

## 5. Plan

Done: all modules of section 2, and the proofs of section 4.

Models that would still add something: the Planner loop beside `WriterLoop`. The
model-call ledger keeps few promises beyond the guards of its own commands
(section 3), and the callers that depend on it, Stage 2W and the writer loop,
are modelled with receipts of their own. A replay model is worth writing once
something reads the fields in which replayed and live rows differ.

## 6. Not modelled

Most of the repository's lines are outside: prompts and agents, retrieval,
ranking, claim support and need generation, curation of text into typed
operations, world and text roots, benchmarks and reports. They transform data
inside one `await` and keep no protocol state; what reaches the runtime is their
outcome, and all outcomes are behaviours of the models. The Planner loop has
the shape of the writer loop; in `CreativeRun` it is its outcomes. Temporal and
LangGraph spikes are not used in production. Database transactions are taken as
atomic and serialisable, as the row locks in the commands make them; `complete()`
and `fail()` of the outbox take no lock and are modelled as a read and a write. The object
store and model providers appear only through their answers. The maintenance
prechecks only report; their reclaim steps are commands of `RuntimeCommands`.
The cancellation of a whole dispatch cycle is left out.
