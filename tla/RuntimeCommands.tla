-------------------------- MODULE RuntimeCommands --------------------------
(***************************************************************************)
(* The durable command service of the creative runtime                     *)
(* (services/runtime_commands.py) over one project: task rows, attempts    *)
(* with leases and fences, the outer-effect frontier, the project writer   *)
(* lane and the project's Canon.  One command is one database transaction, *)
(* hence one action.  A command the code refuses leaves the state alone,   *)
(* so a refusal is a disabled action.                                      *)
(*                                                                         *)
(* The callers are workers, one per claimed attempt, and operators, who    *)
(* may issue any command in any order.  A worker keeps the fence of its    *)
(* claim forever, so every late callback of a slow worker is a behaviour   *)
(* of the model; a worker that crashed is one that takes no further step.  *)
(***************************************************************************)
EXTENDS Integers, Sequences, FiniteSets

CONSTANTS
  Tasks,          \* the task identities of the project, present or future
  KindOf,         \* [Tasks -> TaskKinds]
  DepsOf,         \* [Tasks -> SUBSET Tasks], dependency_task_ids
  PlannerOf,      \* [Tasks -> Tasks], the Planner a maintenance finding names
  InitialTasks,   \* tasks whose rows exist when the model starts
  SettlementOn,   \* BOOLEAN: a chapter-settlement port is configured
  InitialBudget,  \* policy.max_task_attempts
  MaxAttempts,    \* bound: attempts per task
  CommandIds,     \* bound: identities of operator and recovery commands
  NoTask          \* the owner of a lane nobody has claimed

TaskKinds == {"PLAN_CANDIDATE", "PLAN_ACCEPTANCE", "PLAN_COMMIT",
              "DRAFT_CANDIDATE", "DRAFT_ACCEPTANCE", "DRAFT_COMMIT",
              "PROJECTION_FRESHNESS", "MAINTENANCE"}

Inactive == {"PENDING", "READY", "WAITING_INPUT", "WAITING_RETRY",
             "BUDGET_REVIEW", "BLOCKED"}

TaskStatuses == Inactive \cup
                {"RUNNING", "RECOVERY_PENDING", "SUCCEEDED", "FAILED", "CANCELLED"}

Outcomes == {"SUCCEEDED", "FAILED", "SUSPENDED", "CANCELLED"}

(* The failure classes, told apart by what their policy does: one that     *)
(* consumes the task's budget, one that does not, and UNKNOWN, whose       *)
(* fallback status overrides the caller's.                                 *)
FailureClasses == {"none", "consuming", "free", "UNKNOWN"}

EffectTerminals == {"COMPLETED", "UNCERTAIN", "COMPENSATED"}

Attempts == 1 .. MaxAttempts

ASSUME ConstantsAssumption ==
  /\ KindOf \in [Tasks -> TaskKinds]
  /\ DepsOf \in [Tasks -> SUBSET Tasks]
  /\ PlannerOf \in [Tasks -> Tasks]
  /\ InitialTasks \subseteq Tasks
  /\ SettlementOn \in BOOLEAN
  /\ InitialBudget \in Nat \ {0}
  /\ MaxAttempts \in Nat \ {0}
  /\ NoTask \notin Tasks

(* A run starts from tasks that wait for nothing, and every creator of a   *)
(* later task names one dependency, the task it follows.                   *)
ASSUME TopologyAssumption ==
  /\ \A t \in InitialTasks : DepsOf[t] = {}
  /\ \A t \in Tasks : \A d, e \in DepsOf[t] : d = e

VARIABLES
  task,      \* runtime_task_projection rows
  att,       \* runtime_task_attempt rows, by task and attempt number
  fence,     \* the AttemptFence each attempt's worker holds
  effect,    \* runtime_effect_projection rows; at most one per attempt
  lane,      \* the project_writer_claim row
  canon,     \* the project's commits after the starting one, oldest first
  receipt,   \* commit_receipt rows, by idempotency key <<task, n>>
  used       \* idempotency identities of the commands in the event log

vars == <<task, att, fence, effect, lane, canon, receipt, used>>

-----------------------------------------------------------------------------
(* Rows                                                                    *)

TaskRows == [exists : BOOLEAN, status : TaskStatuses, rev : Nat,
             cur : 0 .. MaxAttempts, count : 0 .. MaxAttempts,
             budget : Nat, granted : Nat, gen : Nat, basis : Nat,
             paused : BOOLEAN, cancel : BOOLEAN, superseded : BOOLEAN,
             cause : BOOLEAN]

AttemptRows == [outcome : Outcomes \cup {"unclaimed", "open"},
                failure : FailureClasses, started : BOOLEAN, expired : BOOLEAN]

NoAttempt == [outcome |-> "unclaimed", failure |-> "none",
              started |-> FALSE, expired |-> FALSE]

(* What a worker holds: the fence of its claim, renewed by the writer      *)
(* lane, and how far it is: before the lane, in the work the lane          *)
(* protects, or done with it.                                              *)
Fences == [rev : Nat, gen : Nat, phase : {"claimed", "writing", "reported"}]

EffectRows == [status : EffectTerminals \cup {"none", "REQUESTED"},
               logged : SUBSET EffectTerminals]

(* What the commit service answered for a key, if it was asked. *)
Receipts == {"none", "ACCEPTED", "CONFLICTED", "REJECTED"}

(* A row as its creator writes it.  Acceptance tasks wait for a decision,  *)
(* every other task is born READY.  "granted" is not a column: it adds up  *)
(* the budget the task was ever given.                                     *)
NewTask(t, basis, budget) ==
  [exists |-> TRUE,
   status |-> IF KindOf[t] \in {"PLAN_ACCEPTANCE", "DRAFT_ACCEPTANCE"}
                THEN "WAITING_INPUT" ELSE "READY",
   rev |-> 0, cur |-> 0, count |-> 0, budget |-> budget, granted |-> budget,
   gen |-> 0, basis |-> basis, paused |-> FALSE, cancel |-> FALSE,
   superseded |-> FALSE, cause |-> FALSE]

AbsentTask(t) == [NewTask(t, 0, 0) EXCEPT !.exists = FALSE, !.status = "PENDING"]

(* project.current_commit_id: the position of the last commit. *)
CurrentCommit == Len(canon)

CommitKind(t) == KindOf[t] \in {"PLAN_COMMIT", "DRAFT_COMMIT"}

(* Draft commits go through Stage 2W when a chapter-settlement port is     *)
(* configured, maintenance always does; Stage 2W commits to Canon itself.  *)
External(t) == \/ KindOf[t] = "MAINTENANCE"
               \/ KindOf[t] = "DRAFT_COMMIT" /\ SettlementOn

Cur(t) == task[t].cur

Bumped(row) == [row EXCEPT !.rev = @ + 1]

Max0(n) == IF n > 0 THEN n ELSE 0

Consumes(failure) == failure = "consuming"

BudgetKept(row, failure) == row.budget

Remaining(row, failure) == Max0(row.budget - (IF Consumes(failure) THEN 1 ELSE 0))

EndedStillOpen(row, outcome, failure) == [row EXCEPT !.failure = failure]

Ended(row, outcome, failure) ==
  [row EXCEPT !.outcome = outcome, !.failure = failure]

(* The effect frontier of an attempt is open while an effect is requested  *)
(* or uncertain.                                                           *)
OpenFrontier(t, n) == effect[t][n].status \in {"REQUESTED", "UNCERTAIN"}

(* _append refuses an identity the run's log already holds. *)
Fresh(id) == id \in CommandIds \ used
Log(id) == used' = used \cup {id}

-----------------------------------------------------------------------------
(* Fences and eligibility                                                  *)

EligibleOnAnyBasis(t) ==
  /\ task[t].exists
  /\ task[t].status = "READY"
  /\ task[t].cur = 0
  /\ ~task[t].paused
  /\ ~task[t].superseded
  /\ task[t].budget > 0
  /\ \A d \in DepsOf[t] : task[d].status = "SUCCEEDED"

EligibleSuperseded(t) ==
  /\ task[t].exists
  /\ task[t].status = "READY"
  /\ task[t].cur = 0
  /\ ~task[t].paused
  /\ task[t].budget > 0
  /\ \A d \in DepsOf[t] : task[d].status = "SUCCEEDED"
  /\ task[t].basis = CurrentCommit

(* evaluate_task_eligibility *)
Eligible(t) ==
  /\ task[t].exists
  /\ task[t].status = "READY"
  /\ task[t].cur = 0
  /\ ~task[t].paused
  /\ ~task[t].superseded
  /\ task[t].budget > 0
  /\ \A d \in DepsOf[t] : task[d].status = "SUCCEEDED"
  /\ task[t].basis = CurrentCommit

FenceOfAnyAttempt(t, n) ==
  /\ fence[t][n].rev <= task[t].rev
  /\ fence[t][n].gen = task[t].gen

(* _require_fence(..., require_writer_lane=False) *)
FenceCurrent(t, n) ==
  /\ task[t].cur = n
  /\ fence[t][n].rev <= task[t].rev
  /\ fence[t][n].gen = task[t].gen

OwnsLane(t, n) ==
  /\ lane.task = t
  /\ lane.att = n
  /\ lane.gen = task[t].gen

RequireFence(t, n) ==
  /\ FenceCurrent(t, n)
  /\ CommitKind(t) /\ task[t].gen > 0 => OwnsLane(t, n)

(* advance() calls mark_started right after claim and before anything else *)
(* it does with the fence.                                                 *)
WorkerFence(t, n) == att[t][n].started /\ RequireFence(t, n)

(* The worker is done writing once it reports a result of its own. *)
DoneWriting(t, n) == fence' = [fence EXCEPT ![t][n].phase = "reported"]

-----------------------------------------------------------------------------
(* The commit service                                                      *)

(* CommitService._commit_in_session: the receipt of an earlier request     *)
(* with the same key, else validation, else compare-and-set on the         *)
(* project's current commit.                                               *)
CommitResultNoCas(key, base, valid) ==
  CASE receipt[key[1]][key[2]] # "none" -> receipt[key[1]][key[2]]
    [] receipt[key[1]][key[2]] = "none" /\ ~valid -> "REJECTED"
    [] OTHER -> "ACCEPTED"

CommitResult(key, base, valid) ==
  CASE receipt[key[1]][key[2]] # "none" -> receipt[key[1]][key[2]]
    [] receipt[key[1]][key[2]] = "none" /\ ~valid -> "REJECTED"
    [] receipt[key[1]][key[2]] = "none" /\ valid /\ base # CurrentCommit ->
         "CONFLICTED"
    [] OTHER -> "ACCEPTED"

(* The commit made under key <<t, k>> is accepted, is the project's        *)
(* current commit and has the task's basis as parent.                      *)
AnyReceipt(t, k) == receipt[t][k] # "none"

CommitAdvancesBasis(t, k) ==
  /\ receipt[t][k] = "ACCEPTED"
  /\ CurrentCommit = task[t].basis + 1
  /\ canon[CurrentCommit] = [task |-> t, att |-> k]

CommitInSession(key, base, valid) ==
  /\ receipt' = [receipt EXCEPT ![key[1]][key[2]] = CommitResult(key, base, valid)]
  /\ canon' = IF /\ receipt[key[1]][key[2]] = "none"
                 /\ CommitResult(key, base, valid) = "ACCEPTED"
                THEN Append(canon, [task |-> key[1], att |-> key[2]])
                ELSE canon

-----------------------------------------------------------------------------
(* Creating tasks                                                          *)

AllowedSuccessors(kind) ==
  CASE kind = "PLAN_CANDIDATE" -> {"PLAN_ACCEPTANCE"}
    [] kind = "DRAFT_CANDIDATE" -> {"DRAFT_ACCEPTANCE"}
    [] kind = "PLAN_ACCEPTANCE" -> {"PLAN_COMMIT"}
    [] kind = "DRAFT_ACCEPTANCE" -> {"DRAFT_COMMIT"}
    [] kind \in {"PLAN_COMMIT", "DRAFT_COMMIT"} -> {"PROJECTION_FRESHNESS"}
    [] kind = "PROJECTION_FRESHNESS" -> {"PLAN_CANDIDATE", "DRAFT_CANDIDATE"}
    [] kind = "MAINTENANCE" -> {}

(* _insert_successor_tasks: what must hold of the successors handed over,  *)
(* and the rows after inserting those that do not exist yet.               *)
SuccessorsOk(t, succ, basis) ==
  \A s \in succ :
    /\ s # t
    /\ KindOf[s] \in AllowedSuccessors(KindOf[t])
    /\ t \in DepsOf[s]
    /\ \A d \in DepsOf[s] : task[d].exists
    /\ task[s].exists => task[s] = NewTask(s, basis, InitialBudget)

InsertSuccessors(rows, succ, basis) ==
  [x \in Tasks |-> IF x \in succ /\ ~rows[x].exists
                     THEN NewTask(x, basis, InitialBudget)
                     ELSE rows[x]]

(* create_task, for the callers it has: the CLI, which adds the commit     *)
(* task of an acceptance it recorded a transaction earlier, and the        *)
(* lookahead repair, which replans or promotes after a projection.         *)
CreateTask(t, d) ==
  /\ ~task[t].exists
  /\ d \in DepsOf[t]
  /\ task[d].exists
  /\ task[d].status = "SUCCEEDED"
  /\ \/ KindOf[d] = "PLAN_ACCEPTANCE" /\ KindOf[t] = "PLAN_COMMIT"
     \/ KindOf[d] = "DRAFT_ACCEPTANCE" /\ KindOf[t] = "DRAFT_COMMIT"
     \/ /\ KindOf[d] = "PROJECTION_FRESHNESS"
        /\ KindOf[t] \in {"PLAN_CANDIDATE", "PLAN_ACCEPTANCE"}
  /\ \A e \in DepsOf[t] : task[e].exists
  /\ task' = [task EXCEPT ![t] = NewTask(t, task[d].basis, InitialBudget)]
  /\ UNCHANGED <<att, fence, effect, lane, canon, receipt, used>>

SupersedeTask(t) ==
  /\ task[t].exists
  /\ ~task[t].superseded
  /\ task[t].status \in Inactive
  /\ task' = [task EXCEPT ![t] =
                [Bumped(@) EXCEPT !.status = "CANCELLED", !.superseded = TRUE,
                                  !.cause = TRUE]]
  /\ UNCHANGED <<att, fence, effect, lane, canon, receipt, used>>

(* complete_waiting_task: an accepted candidate succeeds and unlocks the   *)
(* next stage, a rejected one is cancelled.                                *)
CompleteWaitingTask(t, accepted, succ) ==
  /\ task[t].exists
  /\ task[t].status = "WAITING_INPUT"
  /\ KindOf[t] \in {"PLAN_ACCEPTANCE", "DRAFT_ACCEPTANCE"}
  /\ succ # {} => accepted
  /\ SuccessorsOk(t, succ, task[t].basis)
  /\ task' = InsertSuccessors(
               [task EXCEPT ![t] =
                  [Bumped(@) EXCEPT
                     !.status = IF accepted THEN "SUCCEEDED" ELSE "CANCELLED"]],
               succ, task[t].basis)
  /\ UNCHANGED <<att, fence, effect, lane, canon, receipt, used>>

-----------------------------------------------------------------------------
(* An attempt's life: claim, start, heartbeat, lease                       *)

Claim(t) ==
  /\ Eligible(t)
  /\ KindOf[t] \notin {"PLAN_ACCEPTANCE", "DRAFT_ACCEPTANCE"}
  /\ task[t].count < MaxAttempts
  /\ LET n == task[t].count + 1 IN
     /\ task' = [task EXCEPT ![t] =
                   [Bumped(@) EXCEPT !.status = "RUNNING", !.cur = n, !.count = n]]
     /\ att' = [att EXCEPT ![t][n] = [NoAttempt EXCEPT !.outcome = "open"]]
     /\ fence' = [fence EXCEPT ![t][n] = [rev |-> task[t].rev + 1,
                                         gen |-> task[t].gen,
                                         phase |-> "claimed"]]
  /\ UNCHANGED <<effect, lane, canon, receipt, used>>

MarkStarted(t, n) ==
  /\ RequireFence(t, n)
  /\ ~att[t][n].started
  /\ att' = [att EXCEPT ![t][n].started = TRUE]
  /\ UNCHANGED <<task, fence, effect, lane, canon, receipt, used>>

Heartbeat(t, n) ==
  /\ WorkerFence(t, n)
  /\ att[t][n].outcome = "open"
  /\ att' = [att EXCEPT ![t][n].expired = FALSE]
  /\ UNCHANGED <<task, fence, effect, lane, canon, receipt, used>>

(* The clock passes lease_expires_at of the current attempt. *)
LeaseExpires(t) ==
  /\ task[t].cur # 0
  /\ att' = [att EXCEPT ![t][task[t].cur].expired = TRUE]
  /\ UNCHANGED <<task, fence, effect, lane, canon, receipt, used>>

SuspectExpiredAttempt(t, id) ==
  /\ Fresh(id)
  /\ task[t].status = "RUNNING"
  /\ task[t].cur # 0
  /\ att[t][task[t].cur].expired
  /\ task' = [task EXCEPT ![t] = [Bumped(@) EXCEPT !.status = "RECOVERY_PENDING"]]
  /\ Log(id)
  /\ UNCHANGED <<att, fence, effect, lane, canon, receipt>>

ReclaimExpiredAttempt(t, id) ==
  /\ Fresh(id)
  /\ task[t].status = "RECOVERY_PENDING"
  /\ task[t].cur # 0
  /\ att[t][task[t].cur].expired
  /\ ~OpenFrontier(t, task[t].cur)
  /\ att' = [att EXCEPT ![t][task[t].cur] = Ended(@, "SUSPENDED", "free")]
  /\ task' = [task EXCEPT ![t] =
                [Bumped(@) EXCEPT !.status = "WAITING_RETRY", !.cur = 0]]
  /\ Log(id)
  /\ UNCHANGED <<fence, effect, lane, canon, receipt>>

-----------------------------------------------------------------------------
(* Settlement by the worker                                                *)

(* The terminal statuses advance() passes to settle_attempt, by kind, and  *)
(* CANCELLED, the only one accepted after a cancel.  Commit and            *)
(* maintenance work succeeds only through the commands that advance Canon  *)
(* or record that it advanced.                                             *)
SettleTerminals(t) ==
  {"CANCELLED", "WAITING_RETRY"} \cup
  CASE KindOf[t] \in {"PLAN_CANDIDATE", "DRAFT_CANDIDATE"} ->
         {"READY", "SUCCEEDED", "BUDGET_REVIEW", "BLOCKED", "RECOVERY_PENDING", "WAITING_INPUT"}
    [] KindOf[t] = "PROJECTION_FRESHNESS" -> {"SUCCEEDED"}
    [] KindOf[t] = "MAINTENANCE" ->
         {"BLOCKED", "RECOVERY_PENDING", "WAITING_INPUT", "BUDGET_REVIEW"}
    [] OTHER -> {"BLOCKED"}

SettledStatus(t, terminal, failure) ==
  LET asked == IF failure = "UNKNOWN" THEN "RECOVERY_PENDING" ELSE terminal
  IN  IF asked = "WAITING_RETRY" /\ Consumes(failure) /\ task[t].budget <= 1
        THEN "BUDGET_REVIEW"
        ELSE asked

StatusAsOutcome(terminal) == {terminal}

(* The outcome is the caller's: advance() reports an attempt that gets a   *)
(* retry, a review or a block as FAILED at some places and as SUSPENDED at *)
(* others.                                                                 *)
SettleOutcomes(terminal) ==
  CASE terminal \in {"SUCCEEDED", "CANCELLED"} -> {terminal}
    [] terminal = "READY" -> {"SUSPENDED"}
    [] OTHER -> {"FAILED", "SUSPENDED"}

(* READY and SUCCEEDED are passed without a failure class. *)
SettleAttempt(t, n, terminal, failure, succ) ==
  LET status == SettledStatus(t, terminal, failure) IN
  /\ terminal \in SettleTerminals(t)
  /\ terminal \in {"READY", "SUCCEEDED"} => failure = "none"
  /\ WorkerFence(t, n)
  /\ task[t].cancel => status = "CANCELLED"
  /\ ~OpenFrontier(t, n)
  /\ succ # {} => status = "SUCCEEDED"
  /\ SuccessorsOk(t, succ, task[t].basis)
  /\ \E outcome \in SettleOutcomes(terminal) :
       att' = [att EXCEPT ![t][n] = Ended(@, outcome, failure)]
  /\ task' = InsertSuccessors(
               [task EXCEPT ![t] =
                  [Bumped(@) EXCEPT
                     !.status = status, !.cur = 0, !.budget = Remaining(task[t], failure),
                     !.cause = task[t].cause \/ (status = "BLOCKED" /\ failure # "none")]],
               succ, task[t].basis)
  /\ DoneWriting(t, n)
  /\ UNCHANGED <<effect, lane, canon, receipt, used>>

(* A Planner that found a gap in Canon is blocked and its maintenance task *)
(* m created, in one transaction.                                          *)
SettleGapAndCreateMaintenance(t, n, m) ==
  /\ WorkerFence(t, n)
  /\ KindOf[t] = "PLAN_CANDIDATE"
  /\ KindOf[m] = "MAINTENANCE" /\ PlannerOf[m] = t /\ DepsOf[m] = {}
  /\ ~task[m].exists
  /\ att' = [att EXCEPT ![t][n] = Ended(@, "FAILED", "free")]
  /\ task' = [task EXCEPT
                ![t] = [Bumped(@) EXCEPT !.status = "BLOCKED", !.cur = 0,
                                         !.cause = TRUE],
                ![m] = NewTask(m, task[t].basis, InitialBudget)]
  /\ UNCHANGED <<fence, effect, lane, canon, receipt, used>>

(* The maintenance committed: it succeeds, its blocked Planner is          *)
(* superseded and the Planner's copy r is created on the new commit.  The  *)
(* copy keeps the Planner's remaining budget and control flags.            *)
SettleMaintenanceAndRetryPlanner(m, n, r) ==
  LET p == PlannerOf[m] IN
  /\ KindOf[m] = "MAINTENANCE"
  /\ WorkerFence(m, n)
  /\ KindOf[p] = "PLAN_CANDIDATE"
  /\ task[p].exists /\ task[p].status = "BLOCKED" /\ ~task[p].superseded
  /\ CommitAdvancesBasis(m, 0)
  /\ r \notin {m, p} /\ KindOf[r] = "PLAN_CANDIDATE" /\ DepsOf[r] = {m}
  /\ ~task[r].exists
  /\ att' = [att EXCEPT ![m][n] = Ended(@, "SUCCEEDED", "none")]
  /\ task' = [task EXCEPT
                ![m] = [Bumped(@) EXCEPT !.status = "SUCCEEDED", !.cur = 0,
                                         !.cause = FALSE],
                ![p] = [Bumped(@) EXCEPT !.status = "CANCELLED",
                                         !.superseded = TRUE, !.cause = TRUE],
                ![r] = [NewTask(r, CurrentCommit, task[p].budget) EXCEPT
                          !.paused = task[p].paused, !.cancel = task[p].cancel,
                          !.gen = task[p].gen]]
  /\ DoneWriting(m, n)
  /\ UNCHANGED <<effect, lane, canon, receipt, used>>

-----------------------------------------------------------------------------
(* The outer effect of a chapter settlement                                *)

RecordEffectRequested(t, n) ==
  /\ KindOf[t] = "DRAFT_COMMIT" /\ SettlementOn
  /\ WorkerFence(t, n)
  /\ fence[t][n].phase = "writing"
  /\ effect[t][n].status = "none"
  /\ effect' = [effect EXCEPT ![t][n].status = "REQUESTED"]
  /\ UNCHANGED <<task, att, fence, lane, canon, receipt, used>>

(* The event's identity is <effect>.<status>: each status is recorded once *)
(* by a worker, but nothing else keeps one terminal status from replacing  *)
(* another.  advance() only ever records COMPENSATED.                      *)
RecordEffectTerminal(t, n, status) ==
  /\ WorkerFence(t, n)
  /\ effect[t][n].status # "none"
  /\ status \notin effect[t][n].logged
  /\ effect' = [effect EXCEPT ![t][n].status = status,
                             ![t][n].logged = @ \cup {status}]
  /\ DoneWriting(t, n)
  /\ UNCHANGED <<task, att, lane, canon, receipt, used>>

(* The resolver's and operator's path: no fence, any attempt of the task. *)
ReconcileEffect(t, n, status, id) ==
  /\ Fresh(id)
  /\ effect[t][n].status # "none"
  /\ effect' = [effect EXCEPT ![t][n].status = status]
  /\ Log(id)
  /\ UNCHANGED <<task, att, fence, lane, canon, receipt>>

-----------------------------------------------------------------------------
(* Operator and recovery commands                                          *)

OperatorReconcileAttempt(t, terminal, failure, id) ==
  LET status == IF terminal = "WAITING_RETRY" /\ Remaining(task[t], failure) = 0
                  THEN "BUDGET_REVIEW" ELSE terminal
  IN
  /\ Fresh(id)
  /\ terminal \in {"WAITING_RETRY", "BLOCKED", "CANCELLED"}
  /\ task[t].cur # 0
  /\ ~OpenFrontier(t, task[t].cur)
  /\ att' = [att EXCEPT ![t][task[t].cur] =
                Ended(@, CASE terminal = "CANCELLED" -> "CANCELLED"
                           [] terminal = "BLOCKED" -> "FAILED"
                           [] OTHER -> "SUSPENDED", failure)]
  /\ task' = [task EXCEPT ![t] =
                [Bumped(@) EXCEPT !.status = status, !.cur = 0,
                                  !.budget = Remaining(task[t], failure),
                                  !.paused = (status = "CANCELLED"),
                                  !.cause = task[t].cause \/ status = "BLOCKED"]]
  /\ Log(id)
  /\ UNCHANGED <<fence, effect, lane, canon, receipt>>

MarkRecoveryPending(t, id) ==
  /\ Fresh(id)
  /\ task[t].exists
  /\ task[t].status \notin {"RECOVERY_PENDING", "SUCCEEDED", "FAILED", "CANCELLED"}
  /\ task' = [task EXCEPT ![t] = [Bumped(@) EXCEPT !.status = "RECOVERY_PENDING"]]
  /\ Log(id)
  /\ UNCHANGED <<att, fence, effect, lane, canon, receipt>>

(* writer_generation_after: a commit task that held the lane starts over. *)
GenAfterRelease(t) == IF CommitKind(t) THEN 0 ELSE task[t].gen

ReadyOrReview(t) == IF task[t].budget > 0 THEN "READY" ELSE "BUDGET_REVIEW"

Control(t, action, id) ==
  /\ Fresh(id)
  /\ task[t].exists
  /\ action = "retry" => task[t].cur = 0 /\ task[t].status = "WAITING_RETRY"
  /\ task' = [task EXCEPT ![t] =
       [Bumped(@) EXCEPT
          !.status = CASE action = "retry" -> ReadyOrReview(t)
                       [] action = "pause" /\ Cur(t) = 0 -> "PENDING"
                       [] action = "pause" /\ Cur(t) # 0 -> task[t].status
                       [] action = "cancel" /\ Cur(t) = 0 -> "CANCELLED"
                       [] action = "cancel" /\ Cur(t) # 0 -> "RECOVERY_PENDING",
          !.paused = action \in {"pause", "cancel"},
          !.cancel = (action = "cancel"),
          !.gen = IF action = "retry" THEN GenAfterRelease(t) ELSE task[t].gen]]
  /\ Log(id)
  /\ UNCHANGED <<att, fence, effect, lane, canon, receipt>>

(* additional_attempts is k; zero stands for a Planner-memory tranche. *)
ExtendBudget(t, k, id) ==
  /\ Fresh(id)
  /\ task[t].exists
  /\ task[t].status = "BUDGET_REVIEW" /\ task[t].cur = 0
  /\ task[t].budget + k > 0
  /\ task' = [task EXCEPT ![t] =
                [Bumped(@) EXCEPT !.status = "READY",
                                  !.budget = task[t].budget + k,
                                  !.granted = task[t].granted + k]]
  /\ Log(id)
  /\ UNCHANGED <<att, fence, effect, lane, canon, receipt>>

Unblock(t, id) ==
  /\ Fresh(id)
  /\ task[t].exists
  /\ task[t].status = "BLOCKED" /\ task[t].cause
  /\ task' = [task EXCEPT ![t] =
                [Bumped(@) EXCEPT !.status = ReadyOrReview(t), !.cause = FALSE,
                                  !.gen = GenAfterRelease(t)]]
  /\ Log(id)
  /\ UNCHANGED <<att, fence, effect, lane, canon, receipt>>

(* A maintenance task waits for input only with the workflow checkpoint    *)
(* resume asks for, so the checkpoint needs no state of its own.           *)
Resume(t, id) ==
  /\ Fresh(id)
  /\ task[t].exists
  /\ \/ /\ KindOf[t] = "MAINTENANCE"
        /\ task[t].status = "WAITING_INPUT"
        /\ ~task[t].paused
     \/ task[t].paused /\ task[t].cur = 0
  /\ task' = [task EXCEPT ![t] =
                [Bumped(@) EXCEPT !.status = ReadyOrReview(t), !.paused = FALSE,
                                  !.cancel = FALSE]]
  /\ Log(id)
  /\ UNCHANGED <<att, fence, effect, lane, canon, receipt>>

-----------------------------------------------------------------------------
(* The writer lane and Canon                                               *)

LaneBusy == /\ lane.task \in Tasks
            /\ task[lane.task].status = "RUNNING"
            /\ task[lane.task].cur = lane.att

GenerationReused == IF lane.gen = 0 THEN 1 ELSE lane.gen

NextGeneration == lane.gen + 1

(* advance() claims the lane once; a call that finds it busy is refused    *)
(* and the worker settles WAITING_RETRY.                                   *)
ClaimWriterLane(t, n) ==
  /\ att[t][n].started
  /\ FenceCurrent(t, n)
  /\ CommitKind(t) \/ KindOf[t] = "MAINTENANCE"
  /\ fence[t][n].phase = "claimed"
  /\ ~(lane.task = t /\ lane.att = n)
  /\ ~LaneBusy
  /\ lane' = [task |-> t, att |-> n, gen |-> NextGeneration]
  /\ task' = [task EXCEPT ![t] = [Bumped(@) EXCEPT !.gen = NextGeneration]]
  /\ fence' = [fence EXCEPT ![t][n].gen = NextGeneration, ![t][n].phase = "writing"]
  /\ UNCHANGED <<att, effect, canon, receipt, used>>

(* expected_basis: the commit the task's own request produced, which has   *)
(* the task's basis as parent.                                             *)
CommittedBasis(t) == task[t].basis + 1

(* Fence, Canon compare-and-set, settlement and successors in one          *)
(* transaction.  The key is the acceptance's, the same for every attempt.  *)
CommitAcceptedCandidate(t, n, valid, succ) ==
  LET result == CommitResult(<<t, 0>>, task[t].basis, valid)
      failure == IF result = "ACCEPTED" THEN "none" ELSE "consuming"
  IN
  /\ CommitKind(t) /\ ~External(t)
  /\ WorkerFence(t, n)
  /\ fence[t][n].phase = "writing"
  /\ lane.task = t /\ lane.att = n /\ lane.gen = fence[t][n].gen
  /\ CommitInSession(<<t, 0>>, task[t].basis, valid)
  /\ succ # {} => result = "ACCEPTED"
  /\ SuccessorsOk(t, succ, CommittedBasis(t))
  /\ att' = [att EXCEPT ![t][n] =
               Ended(@, IF result = "ACCEPTED" THEN "SUCCEEDED" ELSE "FAILED", failure)]
  /\ task' = InsertSuccessors(
               [task EXCEPT ![t] =
                  [Bumped(@) EXCEPT
                     !.status = IF result = "ACCEPTED" THEN "SUCCEEDED" ELSE "BLOCKED",
                     !.cur = 0, !.budget = Remaining(task[t], failure),
                     !.cause = task[t].cause \/ result # "ACCEPTED"]],
               succ, CommittedBasis(t))
  /\ DoneWriting(t, n)
  /\ UNCHANGED <<effect, lane, used>>

(* The Stage 2W key of a request: a maintenance finding keeps one key, a   *)
(* chapter settlement has a key per attempt.                               *)
Stage2WKey(t, n) == <<t, IF KindOf[t] = "MAINTENANCE" THEN 0 ELSE n>>

(* Stage 2W commits in a transaction of its own, without the runtime's     *)
(* fence.                                                                  *)
Stage2WCommit(t, n, valid) ==
  /\ External(t)
  /\ fence[t][n].phase = "writing"
  /\ KindOf[t] = "DRAFT_COMMIT" => effect[t][n].status # "none"
  /\ receipt[t][Stage2WKey(t, n)[2]] = "none"
  /\ CommitInSession(Stage2WKey(t, n), task[t].basis, valid)
  /\ UNCHANGED <<task, att, fence, effect, lane, used>>

(* _settle_external_commit_in_session for the commit made under key        *)
(* <<t, k>>, settling attempt n.                                           *)
SettleExternalCommit(t, n, k, succ) ==
  /\ KindOf[t] = "DRAFT_COMMIT" /\ SettlementOn
  /\ CommitAdvancesBasis(t, k)
  /\ effect[t][n].status # "none"
  /\ "COMPLETED" \notin effect[t][n].logged
  /\ SuccessorsOk(t, succ, CommittedBasis(t))
  /\ effect' = [effect EXCEPT ![t][n].status = "COMPLETED",
                             ![t][n].logged = @ \cup {"COMPLETED"}]
  /\ att' = [att EXCEPT ![t][n] = Ended(@, "SUCCEEDED", "none")]
  /\ task' = InsertSuccessors(
               [task EXCEPT ![t] = [Bumped(@) EXCEPT !.status = "SUCCEEDED", !.cur = 0]],
               succ, CommittedBasis(t))
  /\ UNCHANGED <<lane, canon, receipt, used>>

RecordExternalCommit(t, n, succ) ==
  /\ WorkerFence(t, n)
  /\ SettleExternalCommit(t, n, n, succ)
  /\ DoneWriting(t, n)

(* Recovery asks for the receipt under the first attempt's key. *)
ReconcileExternalCommit(t, succ) ==
  /\ task[t].cur # 0
  /\ SettleExternalCommit(t, task[t].cur, 1, succ)
  /\ UNCHANGED fence

-----------------------------------------------------------------------------
(* Specification                                                           *)

Init ==
  /\ task = [t \in Tasks |-> IF t \in InitialTasks
                               THEN NewTask(t, 0, InitialBudget)
                               ELSE AbsentTask(t)]
  /\ att = [t \in Tasks |-> [n \in Attempts |-> NoAttempt]]
  /\ fence = [t \in Tasks |-> [n \in Attempts |->
                [rev |-> 0, gen |-> 0, phase |-> "claimed"]]]
  /\ effect = [t \in Tasks |-> [n \in Attempts |->
                [status |-> "none", logged |-> {}]]]
  /\ lane = [task |-> NoTask, att |-> 0, gen |-> 0]
  /\ canon = <<>>
  /\ receipt = [t \in Tasks |-> [n \in 0 .. MaxAttempts |-> "none"]]
  /\ used = {}

(* Successors the caller may hand over: the tasks that depend on t. *)
SuccessorSets(t) == SUBSET {s \in Tasks : t \in DepsOf[s]}

WorkerStep(t, n) ==
  \/ MarkStarted(t, n)
  \/ Heartbeat(t, n)
  \/ \E terminal \in TaskStatuses, failure \in FailureClasses, succ \in SuccessorSets(t) :
       SettleAttempt(t, n, terminal, failure, succ)
  \/ \E m \in Tasks : SettleGapAndCreateMaintenance(t, n, m)
  \/ \E r \in Tasks : SettleMaintenanceAndRetryPlanner(t, n, r)
  \/ RecordEffectRequested(t, n)
  \/ RecordEffectTerminal(t, n, "COMPENSATED")
  \/ ClaimWriterLane(t, n)
  \/ \E valid \in BOOLEAN, succ \in SuccessorSets(t) :
       CommitAcceptedCandidate(t, n, valid, succ)
  \/ \E valid \in BOOLEAN : Stage2WCommit(t, n, valid)
  \/ \E succ \in SuccessorSets(t) : RecordExternalCommit(t, n, succ)

OperatorStep(t, id) ==
  \/ SuspectExpiredAttempt(t, id)
  \/ ReclaimExpiredAttempt(t, id)
  \/ \E n \in Attempts, status \in EffectTerminals : ReconcileEffect(t, n, status, id)
  \/ \E terminal \in TaskStatuses, failure \in {"consuming", "free"} :
       OperatorReconcileAttempt(t, terminal, failure, id)
  \/ MarkRecoveryPending(t, id)
  \/ \E action \in {"pause", "cancel", "retry"} : Control(t, action, id)
  \/ \E k \in 0 .. InitialBudget : ExtendBudget(t, k, id)
  \/ Unblock(t, id)
  \/ Resume(t, id)

RuntimeStep(t) ==
  \/ Claim(t)
  \/ LeaseExpires(t)
  \/ \E d \in Tasks : CreateTask(t, d)
  \/ SupersedeTask(t)
  \/ \E accepted \in BOOLEAN, succ \in SuccessorSets(t) :
       CompleteWaitingTask(t, accepted, succ)
  \/ \E succ \in SuccessorSets(t) : ReconcileExternalCommit(t, succ)

Next == \E t \in Tasks :
          \/ RuntimeStep(t)
          \/ \E n \in Attempts : WorkerStep(t, n)
          \/ \E id \in CommandIds : OperatorStep(t, id)

Spec == Init /\ [][Next]_vars

-----------------------------------------------------------------------------
(* Properties                                                              *)

(* Every table is well formed: rows have the columns and values the domain *)
(* models allow, and budgets, revisions and generations are not negative.  *)
TypeOK ==
  /\ task \in [Tasks -> TaskRows]
  /\ att \in [Tasks -> [Attempts -> AttemptRows]]
  /\ fence \in [Tasks -> [Attempts -> Fences]]
  /\ effect \in [Tasks -> [Attempts -> EffectRows]]
  /\ lane \in [task : Tasks \cup {NoTask}, att : 0 .. MaxAttempts, gen : Nat]
  /\ canon \in Seq([task : Tasks, att : 0 .. MaxAttempts])
  /\ receipt \in [Tasks -> [0 .. MaxAttempts -> Receipts]]
  /\ used \subseteq CommandIds

(* The attempt discipline the overall design gives the statuses (RUNNING   *)
(* "has a unique current Attempt/fence"): whatever workers and operators   *)
(* do, a task has at most one open attempt, it is the last one claimed and *)
(* the current one, and the task is then RUNNING or RECOVERY_PENDING.      *)
AttemptDiscipline ==
  \A t \in Tasks :
    /\ task[t].status = "RUNNING" => task[t].cur # 0
    /\ task[t].cur # 0 =>
         /\ task[t].cur = task[t].count
         /\ task[t].exists
         /\ task[t].status \in {"RUNNING", "RECOVERY_PENDING"}
    /\ \A n \in Attempts :
         /\ att[t][n].outcome = "open" <=> n = task[t].cur
         /\ att[t][n].outcome = "unclaimed" <=> n > task[t].count

(* "old attempt late complete does not overwrite new attempt": once an     *)
(* attempt has an outcome, no command changes its row again.               *)
SettledAttemptsFrozen ==
  [][\A t \in Tasks, n \in Attempts :
       att[t][n].outcome \in Outcomes => att'[t][n] = att[t][n]]_vars

(* The failure budget is exact: every attempt that ended with a budget-    *)
(* consuming failure took one unit of what the task was granted, and       *)
(* nothing else did.  In particular max(0, remaining) in the settlements   *)
(* never hides an overdraft, and lease expiry, a busy lane and a planner   *)
(* gap cost nothing.                                                       *)
BudgetExact ==
  \A t \in Tasks :
    task[t].granted = task[t].budget
      + Cardinality({n \in Attempts : Consumes(att[t][n].failure)})

(* Canon advances only from the basis its task was created on, so its      *)
(* history is one line and no task commits twice, under whatever keys and  *)
(* however many late workers.                                              *)
CanonLineage ==
  \A i \in DOMAIN canon :
    /\ task[canon[i].task].exists
    /\ task[canon[i].task].basis = i - 1
    /\ receipt[canon[i].task][canon[i].att] = "ACCEPTED"

(* A commit or maintenance task that reads SUCCEEDED has its own commit    *)
(* directly on its basis.                                                  *)
SucceededIsCommitted ==
  \A t \in Tasks :
    /\ task[t].exists /\ task[t].status = "SUCCEEDED"
    /\ CommitKind(t) \/ KindOf[t] = "MAINTENANCE"
    => /\ task[t].basis < Len(canon)
       /\ canon[task[t].basis + 1].task = t

(* The fixed topology cannot skip a commit: a row that depends on a commit *)
(* or maintenance task exists only once that task's commit is in Canon,    *)
(* and is based on exactly that commit.                                    *)
SuccessorOnCommit ==
  \A t \in Tasks : task[t].exists =>
    \A d \in DepsOf[t] :
      CommitKind(d) \/ KindOf[d] = "MAINTENANCE" =>
        /\ task[t].basis = task[d].basis + 1
        /\ task[t].basis <= Len(canon)
        /\ canon[task[t].basis].task = d

(* A task whose commit is in Canon is never claimed again, though pause    *)
(* and resume can turn SUCCEEDED back into READY.                          *)
CommittedNeverReclaimed ==
  [][\A i \in DOMAIN canon :
       task'[canon[i].task].count = task[canon[i].task].count]_vars

(* Superseded work never runs again, whatever operators do to the row. *)
SupersededNeverRuns == \A t \in Tasks : task[t].superseded => task[t].cur = 0

(* Lane generations are issued once: two tasks never hold the same         *)
(* positive generation, and none is ahead of the lane.                     *)
GenerationsDistinct ==
  \A t, u \in Tasks, n, m \in Attempts :
    /\ fence[t][n].gen <= lane.gen
    /\ fence[t][n].gen > 0 /\ fence[t][n].gen = fence[u][m].gen => t = u
=============================================================================
