------------------------- MODULE ChapterSettlement -------------------------
(***************************************************************************)
(* The settlement of one accepted chapter: the vertical runner             *)
(* (runtime/vertical_runner.py), the chapter-settlement path of advance()  *)
(* and of recover_boundary() (services/creative_runtime.py), and Stage 2W, *)
(* which commits to Canon outside the runtime's transactions.              *)
(*                                                                         *)
(* A runner may be killed between any two transactions and be started      *)
(* again; its Stage 2W call dies with it.  Nothing keeps an operator from  *)
(* starting a second runner for the same run.  The commands a runner       *)
(* issues are those of RuntimeCommands, cut down to one DRAFT_COMMIT task  *)
(* that always gets the writer lane.                                       *)
(***************************************************************************)
EXTENDS Integers, FiniteSets

CONSTANTS
  Runners,        \* runner processes for the run
  MaxAttempts,    \* bound: attempts of the task
  MaxCrashes,     \* bound: kills of a runner process
  Budget,         \* policy.max_task_attempts
  AnswersLost,    \* BOOLEAN: the commit port may raise after it committed
  OtherRuns       \* BOOLEAN: another run of the project may commit

Attempts == 1 .. MaxAttempts

ASSUME SettlementAssumption ==
  /\ MaxAttempts \in Nat \ {0}
  /\ MaxCrashes \in Nat
  /\ Budget \in Nat \ {0}
  /\ AnswersLost \in BOOLEAN
  /\ OtherRuns \in BOOLEAN

VARIABLES
  task,       \* the DRAFT_COMMIT row
  effect,     \* the outer effect of each attempt
  receipt,    \* commit receipts, by the attempt whose key was used
  head,       \* the project's current commit
  projected,  \* the Projection successor exists
  used,       \* command identities of recovery in the event log
  runner,     \* what each runner process is doing
  stray,      \* Stage 2W calls no runner waits for any more
  crashes

vars == <<task, effect, receipt, head, projected, used, runner, stray, crashes>>

(* The current commit is the task's basis, the commit of an attempt, or    *)
(* one made by another run.                                                *)
Basis == 0
Elsewhere == MaxAttempts + 1

(* What Stage 2W answers when it does not report an accepted commit. *)
Verdicts == {"suspended", "uncertain", "review", "invalid"}

Phases == {"down", "idle", "loop", "ready", "claimed", "laned", "requested",
           "stage2w", "committed", "compensate", "settle",
           "read", "resolve", "decide", "retry"}

(* A runner's program counter and what it remembers: its attempt and the   *)
(* verdict while it works, the row's revision, the effect and the receipt  *)
(* it read while it recovers.                                              *)
RunnerStates == [pc : Phases, n : 0 .. MaxAttempts, rev : Nat,
                 verdict : Verdicts \cup {"none"},
                 prior : {"none", "REQUESTED", "COMPENSATED", "COMPLETED"},
                 found : {"none", "ACCEPTED", "CONFLICTED", "REJECTED"}]

At(pc) == [pc |-> pc, n |-> 0, rev |-> 0, verdict |-> "none",
           prior |-> "none", found |-> "none"]

Go(r, pc) == runner' = [runner EXCEPT ![r].pc = pc]

(* An error that leaves run(): the process ends. *)
Exit(r) == runner' = [runner EXCEPT ![r] = At("down")]

(* An error poll_one swallows: the slice made no progress and run()        *)
(* returns.                                                                *)
Return(r) == runner' = [runner EXCEPT ![r] = At("idle")]

-----------------------------------------------------------------------------
(* The runner's loop                                                       *)

Runnable == task.status = "READY" /\ task.cur = 0 /\ task.budget > 0

Recoverable == task.cur # 0

LoopRecover(r) ==
  /\ runner[r].pc = "loop"
  /\ ~projected /\ Recoverable
  /\ Go(r, "read")
  /\ UNCHANGED <<task, effect, receipt, head, projected, used, stray, crashes>>

LoopDispatch(r) ==
  /\ runner[r].pc = "loop"
  /\ ~projected /\ ~Recoverable /\ Runnable
  /\ runner' = [runner EXCEPT ![r].pc = "ready", ![r].rev = task.rev]
  /\ UNCHANGED <<task, effect, receipt, head, projected, used, stray, crashes>>

LoopReturn(r) ==
  /\ runner[r].pc = "loop"
  /\ projected \/ (~Recoverable /\ ~Runnable)
  /\ Return(r)
  /\ UNCHANGED <<task, effect, receipt, head, projected, used, stray, crashes>>

-----------------------------------------------------------------------------
(* advance()                                                               *)

Fenced(r) == task.cur = runner[r].n

(* An advance() step that needs the fence: without it the command raises a *)
(* StaleAttemptFenceError, which nobody between it and run() catches.      *)
FenceLost(r) ==
  /\ runner[r].pc \in {"claimed", "laned", "committed", "compensate", "settle"}
  /\ ~Fenced(r)
  /\ Exit(r)
  /\ UNCHANGED <<task, effect, receipt, head, projected, used, stray, crashes>>

Claim(r) ==
  /\ runner[r].pc = "ready"
  /\ Runnable /\ head = Basis /\ task.rev = runner[r].rev
  /\ task.count < MaxAttempts
  /\ task' = [task EXCEPT !.status = "RUNNING", !.rev = @ + 1,
                          !.cur = task.count + 1, !.count = @ + 1]
  /\ runner' = [runner EXCEPT ![r].pc = "claimed", ![r].n = task.count + 1]
  /\ UNCHANGED <<effect, receipt, head, projected, used, stray, crashes>>

ClaimRefused(r) ==
  /\ runner[r].pc = "ready"
  /\ ~(Runnable /\ head = Basis /\ task.rev = runner[r].rev)
  /\ Return(r)
  /\ UNCHANGED <<task, effect, receipt, head, projected, used, stray, crashes>>

ClaimLane(r) ==
  /\ runner[r].pc = "claimed" /\ Fenced(r)
  /\ task' = [task EXCEPT !.rev = @ + 1]
  /\ Go(r, "laned")
  /\ UNCHANGED <<effect, receipt, head, projected, used, stray, crashes>>

RecordEffectRequested(r) ==
  /\ runner[r].pc = "laned" /\ Fenced(r)
  /\ effect' = [effect EXCEPT ![runner[r].n] = "REQUESTED"]
  /\ Go(r, "requested")
  /\ UNCHANGED <<task, receipt, head, projected, used, stray, crashes>>

(* settle() first compares the current commit with the basis. *)
SettleChecksBasis(r) ==
  /\ runner[r].pc = "requested"
  /\ IF head = Basis
       THEN Go(r, "stage2w")
       ELSE runner' = [runner EXCEPT ![r].pc = "compensate", ![r].verdict = "invalid"]
  /\ UNCHANGED <<task, effect, receipt, head, projected, used, stray, crashes>>

(* Stage 2W commits under the attempt's own key.  A conflict makes it ask  *)
(* for a replan, a rejection is fatal to it; both are reported as a review.*)
CommitResultNoCas == "ACCEPTED"

CommitResult == IF head = Basis THEN "ACCEPTED" ELSE "CONFLICTED"

Commit(n, result) ==
  /\ result \in {CommitResult, "REJECTED"}
  /\ receipt' = [receipt EXCEPT ![n] = result]
  /\ head' = IF result = "ACCEPTED" THEN n ELSE head

Stage2WCommits(r, result, answer) ==
  /\ runner[r].pc = "stage2w"
  /\ Commit(runner[r].n, result)
  /\ answer = "lost" => AnswersLost
  /\ runner' = [runner EXCEPT
       ![r].pc = IF result = "ACCEPTED" /\ answer = "ok" THEN "committed" ELSE "compensate",
       ![r].verdict = IF answer = "lost" THEN "uncertain"
                      ELSE IF result = "ACCEPTED" THEN "none" ELSE "review"]
  /\ UNCHANGED <<task, effect, projected, used, stray, crashes>>

(* Stage 2W ends without asking for a commit: suspended or out of model    *)
(* capacity, in need of review, or with a candidate it cannot materialise. *)
Stage2WStops(r, verdict) ==
  /\ runner[r].pc = "stage2w"
  /\ verdict \in {"suspended", "review", "invalid"}
  /\ runner' = [runner EXCEPT ![r].pc = "compensate", ![r].verdict = verdict]
  /\ UNCHANGED <<task, effect, receipt, head, projected, used, stray, crashes>>

(* _await_with_heartbeat: a refused heartbeat raises out of run() and      *)
(* leaves the Stage 2W call to run on by itself, to a commit or to nothing.*)
HeartbeatRefused(r) ==
  /\ runner[r].pc = "stage2w" /\ ~Fenced(r)
  /\ stray' = stray \cup {runner[r].n}
  /\ Exit(r)
  /\ UNCHANGED <<task, effect, receipt, head, projected, used, crashes>>

StrayEnds(n) ==
  /\ n \in stray
  /\ stray' = stray \ {n}
  /\ \/ \E result \in {"ACCEPTED", "CONFLICTED", "REJECTED"} : Commit(n, result)
     \/ UNCHANGED <<receipt, head>>
  /\ UNCHANGED <<task, effect, projected, used, runner, crashes>>

(* record_effect_terminal: COMPENSATED whatever the verdict. *)
RecordEffectTerminal(r) ==
  /\ runner[r].pc = "compensate" /\ Fenced(r)
  /\ effect' = [effect EXCEPT ![runner[r].n] = "COMPENSATED"]
  /\ Go(r, "settle")
  /\ UNCHANGED <<task, receipt, head, projected, used, stray, crashes>>

(* The row after an attempt ended with a failure that costs "cost". *)
Settled(status, cost) ==
  [task EXCEPT
     !.status = IF status = "WAITING_RETRY" /\ task.budget <= cost
                  THEN "BUDGET_REVIEW" ELSE status,
     !.rev = @ + 1, !.cur = 0,
     !.budget = IF @ > cost THEN @ - cost ELSE 0]

SettleAttempt(r) ==
  /\ runner[r].pc = "settle" /\ Fenced(r)
  /\ task' = Settled(IF runner[r].verdict = "suspended" THEN "WAITING_RETRY" ELSE "BLOCKED",
                     IF runner[r].verdict = "invalid" THEN 1 ELSE 0)
  /\ runner' = [runner EXCEPT ![r] = At("loop")]
  /\ UNCHANGED <<effect, receipt, head, projected, used, stray, crashes>>

(* _settle_external_commit_in_session, for the commit of key k. *)
SettleExternalCommit(k) ==
  /\ head = k
  /\ effect' = [effect EXCEPT ![task.cur] = "COMPLETED"]
  /\ task' = [task EXCEPT !.status = "SUCCEEDED", !.rev = @ + 1, !.cur = 0]
  /\ projected' = TRUE

RecordExternalCommit(r) ==
  /\ runner[r].pc = "committed" /\ Fenced(r)
  /\ SettleExternalCommit(runner[r].n)
  /\ runner' = [runner EXCEPT ![r] = At("loop")]
  /\ UNCHANGED <<receipt, head, used, stray, crashes>>

(* A commit of another run came in between: the command refuses. *)
ExternalCommitRefused(r) ==
  /\ runner[r].pc = "committed" /\ Fenced(r)
  /\ head # runner[r].n
  /\ Return(r)
  /\ UNCHANGED <<task, effect, receipt, head, projected, used, stray, crashes>>

-----------------------------------------------------------------------------
(* recover_boundary()                                                      *)

(* get_task and effect_for_current_attempt.  A task without an attempt is  *)
(* not recovered after all.                                                *)
ReadTask(r) ==
  /\ runner[r].pc = "read"
  /\ runner' = [runner EXCEPT ![r] =
       IF Recoverable
         THEN [At("resolve") EXCEPT !.n = task.cur, !.rev = task.rev,
                                    !.prior = effect[task.cur]]
         ELSE At("loop")]
  /\ UNCHANGED <<task, effect, receipt, head, projected, used, stray, crashes>>

(* resolve_commit asks for the receipt of the stable key, the one attempt  *)
(* 1 uses.                                                                 *)
StableKey == 1

ResolveCommit(r) ==
  /\ runner[r].pc = "resolve"
  /\ runner' = [runner EXCEPT ![r].pc = "decide", ![r].found = receipt[StableKey]]
  /\ UNCHANGED <<task, effect, receipt, head, projected, used, stray, crashes>>

(* _require_observed_revision *)
AnyRevision(r) == TRUE

Observed(r) == task.rev = runner[r].rev

Proven(r) == runner[r].found = "ACCEPTED" /\ runner[r].prior # "none"

ReconcileExternalCommit(r) ==
  /\ runner[r].pc = "decide" /\ Proven(r)
  /\ Observed(r) /\ task.cur # 0
  /\ SettleExternalCommit(StableKey)
  /\ runner' = [runner EXCEPT ![r] = At("loop")]
  /\ UNCHANGED <<receipt, head, used, stray, crashes>>

ReconcileExternalRefused(r) ==
  /\ runner[r].pc = "decide" /\ Proven(r)
  /\ ~(Observed(r) /\ head = StableKey)
  /\ Exit(r)
  /\ UNCHANGED <<task, effect, receipt, head, projected, used, stray, crashes>>

PendingWithoutReceipt(r) == runner[r].found # "ACCEPTED"

Unexplained(r) ==
  \/ (runner[r].found = "ACCEPTED" /\ runner[r].prior = "none")
  \/ (runner[r].found # "ACCEPTED" /\ runner[r].prior = "COMPLETED")

(* Idempotent on a row that is RECOVERY_PENDING already. *)
MarkRecoveryPending(r) ==
  /\ runner[r].pc = "decide" /\ Unexplained(r)
  /\ Observed(r)
  /\ \/ /\ task.status = "RECOVERY_PENDING"
        /\ UNCHANGED <<task, used>>
     \/ /\ task.status = "RUNNING"
        /\ task' = [task EXCEPT !.status = "RECOVERY_PENDING", !.rev = @ + 1]
        /\ used' = used \cup {<<"recovery-pending", 0>>}
  /\ runner' = [runner EXCEPT ![r] = At("loop")]
  /\ UNCHANGED <<effect, receipt, head, projected, stray, crashes>>

ReceiptIgnored(r) == runner[r].prior # "COMPLETED"

Interrupted(r) ==
  /\ runner[r].found # "ACCEPTED"
  /\ runner[r].prior # "COMPLETED"

(* The effect is closed first, in a transaction of its own, ... *)
EffectLeftOpen(r) ==
  /\ runner[r].pc = "decide" /\ Interrupted(r)
  /\ Go(r, "retry")
  /\ UNCHANGED <<task, effect, receipt, head, projected, used, stray, crashes>>

ReconcileEffect(r) ==
  LET id == <<"reconcile", runner[r].n>> IN
  /\ runner[r].pc = "decide" /\ Interrupted(r)
  /\ runner[r].prior = "REQUESTED" => Observed(r) /\ id \notin used
  /\ IF runner[r].prior = "REQUESTED"
       THEN /\ effect' = [effect EXCEPT ![runner[r].n] = "COMPENSATED"]
            /\ used' = used \cup {id}
       ELSE UNCHANGED <<effect, used>>
  /\ Go(r, "retry")
  /\ UNCHANGED <<task, receipt, head, projected, stray, crashes>>

(* ... then the attempt.  The identity of the command is the task's.       *)
RetryId(r) == <<"retry-interrupted", 0>>

OperatorReconcileAttempt(r) ==
  /\ runner[r].pc = "retry"
  /\ Observed(r) /\ task.cur # 0
  /\ effect[task.cur] # "REQUESTED"
  /\ RetryId(r) \notin used
  /\ task' = Settled(IF runner[r].found = "none" THEN "WAITING_RETRY" ELSE "BLOCKED", 1)
  /\ used' = used \cup {RetryId(r)}
  /\ runner' = [runner EXCEPT ![r] = At("loop")]
  /\ UNCHANGED <<effect, receipt, head, projected, stray, crashes>>

(* A recovery command that is refused, for a stale revision or a command   *)
(* identity the log already holds, ends the process.                       *)
RecoveryRefused(r) ==
  /\ \/ /\ runner[r].pc = "decide" /\ Unexplained(r)
        /\ ~Observed(r)
     \/ /\ runner[r].pc = "decide" /\ Interrupted(r) /\ runner[r].prior = "REQUESTED"
        /\ (~Observed(r) \/ <<"reconcile", runner[r].n>> \in used)
     \/ /\ runner[r].pc = "retry"
        /\ \/ ~Observed(r)
           \/ (task.cur # 0 /\ effect[task.cur] = "REQUESTED")
           \/ RetryId(r) \in used
  /\ Exit(r)
  /\ UNCHANGED <<task, effect, receipt, head, projected, used, stray, crashes>>

-----------------------------------------------------------------------------
(* Processes, operators and other runs                                     *)

(* Also an exception of Stage 2W that advance() does not handle. *)
Kill(r) ==
  /\ runner[r].pc \notin {"down", "idle"}
  /\ crashes < MaxCrashes
  /\ crashes' = crashes + 1
  /\ Exit(r)
  /\ UNCHANGED <<task, effect, receipt, head, projected, used, stray>>

Start(r) ==
  /\ runner[r].pc \in {"down", "idle"}
  /\ runner' = [runner EXCEPT ![r] = At("loop")]
  /\ UNCHANGED <<task, effect, receipt, head, projected, used, stray, crashes>>

(* retry, unblock and extend-budget, under identities of their own. *)
OperatorReleases ==
  /\ task.status \in {"WAITING_RETRY", "BLOCKED", "BUDGET_REVIEW"}
  /\ task.cur = 0 /\ task.count < MaxAttempts
  /\ task' = [task EXCEPT
       !.status = IF task.status # "BUDGET_REVIEW" /\ task.budget = 0
                    THEN "BUDGET_REVIEW" ELSE "READY",
       !.rev = @ + 1,
       !.budget = IF task.status = "BUDGET_REVIEW" THEN @ + 1 ELSE @]
  /\ UNCHANGED <<effect, receipt, head, projected, used, runner, stray, crashes>>

(* Another run of the project commits on top of the current commit. *)
OtherRunCommits ==
  /\ OtherRuns /\ head # Elsewhere
  /\ head' = Elsewhere
  /\ UNCHANGED <<task, effect, receipt, projected, used, runner, stray, crashes>>

Init ==
  /\ task = [status |-> "READY", rev |-> 0, cur |-> 0, count |-> 0, budget |-> Budget]
  /\ effect = [n \in Attempts |-> "none"]
  /\ receipt = [n \in Attempts |-> "none"]
  /\ head = Basis
  /\ projected = FALSE
  /\ used = {}
  /\ runner = [r \in Runners |-> At("idle")]
  /\ stray = {}
  /\ crashes = 0

Loop(r) == LoopRecover(r) \/ LoopDispatch(r) \/ LoopReturn(r)

Advance(r) ==
  \/ Claim(r) \/ ClaimRefused(r) \/ ClaimLane(r) \/ RecordEffectRequested(r)
  \/ SettleChecksBasis(r)
  \/ \E result \in {"ACCEPTED", "CONFLICTED", "REJECTED"}, answer \in {"ok", "lost"} :
       Stage2WCommits(r, result, answer)
  \/ \E verdict \in Verdicts : Stage2WStops(r, verdict)
  \/ HeartbeatRefused(r)
  \/ RecordEffectTerminal(r) \/ SettleAttempt(r)
  \/ RecordExternalCommit(r) \/ ExternalCommitRefused(r)
  \/ FenceLost(r)

Recover(r) ==
  \/ ReadTask(r) \/ ResolveCommit(r)
  \/ ReconcileExternalCommit(r) \/ ReconcileExternalRefused(r)
  \/ MarkRecoveryPending(r) \/ ReconcileEffect(r) \/ OperatorReconcileAttempt(r)
  \/ RecoveryRefused(r)

RunnerStep(r) == Loop(r) \/ Advance(r) \/ Recover(r)

Next ==
  \/ \E r \in Runners : RunnerStep(r) \/ Kill(r) \/ Start(r)
  \/ \E n \in Attempts : StrayEnds(n)
  \/ OperatorReleases
  \/ OtherRunCommits

(* A process that is not killed goes on; a task that has an attempt is     *)
(* sooner or later given to a runner again.  Operators owe nothing.        *)
Fairness ==
  \A r \in Runners :
    /\ WF_vars(RunnerStep(r))
    /\ WF_vars(Recoverable /\ Start(r))

Spec == Init /\ [][Next]_vars /\ Fairness

-----------------------------------------------------------------------------
(* Properties                                                              *)

(* The row, the effects, the receipts and the runners have their types; in *)
(* particular the statuses are those a commit task can have.               *)
TypeOK ==
  /\ task \in [status : {"READY", "RUNNING", "RECOVERY_PENDING", "SUCCEEDED", "BLOCKED",
                         "WAITING_RETRY", "BUDGET_REVIEW"},
               rev : Nat, cur : 0 .. MaxAttempts, count : 0 .. MaxAttempts, budget : Nat]
  /\ effect \in [Attempts -> {"none", "REQUESTED", "COMPENSATED", "COMPLETED"}]
  /\ receipt \in [Attempts -> {"none", "ACCEPTED", "CONFLICTED", "REJECTED"}]
  /\ head \in 0 .. MaxAttempts + 1
  /\ projected \in BOOLEAN
  /\ used \subseteq {"recovery-pending", "reconcile", "retry-interrupted"} \X (0 .. MaxAttempts)
  /\ runner \in [Runners -> RunnerStates]
  /\ stray \subseteq Attempts
  /\ crashes \in 0 .. MaxCrashes

(* "two dispatchers on one book produce no double Commit": whatever keys   *)
(* the attempts use and however late their workers are.                    *)
NoDoubleCommit == Cardinality({n \in Attempts : receipt[n] = "ACCEPTED"}) <= 1

(* A chapter reads SUCCEEDED exactly when its Projection successor exists, *)
(* and then its own commit is Canon and the last attempt's effect is       *)
(* COMPLETED: recovery never guesses a success.                            *)
SuccessIsProven ==
  /\ task.status = "SUCCEEDED" <=> projected
  /\ projected => /\ effect[task.count] = "COMPLETED"
                  /\ \E n \in Attempts : receipt[n] = "ACCEPTED"

(* "no lost receipt": an effect is closed as COMPENSATED, which allows the *)
(* attempt to be retried, only if its request committed nothing.           *)
NoLostReceipt ==
  \A n \in Attempts : effect[n] = "COMPENSATED" => receipt[n] # "ACCEPTED"

(* The part of it that recovery by the stable key does keep: wherever its  *)
(* runner is killed, the first attempt is not closed as compensated once   *)
(* its request was accepted, also when attempts of other keys follow.      *)
FirstReceiptKept == effect[StableKey] = "COMPENSATED" => receipt[StableKey] # "ACCEPTED"

(* The task was recovered as interrupted before: the identity of the       *)
(* command is the task's, so it is refused for every later attempt.        *)
RecoverySpent == \E r \in Runners : RetryId(r) \in used

(* The stable key was accepted, and another run has committed since. *)
Overtaken == receipt[StableKey] = "ACCEPTED" /\ head # StableKey

(* The stable key was accepted while an attempt runs that asked for        *)
(* nothing yet: recovery cannot explain that and leaves the attempt        *)
(* RECOVERY_PENDING.                                                       *)
Inexplicable == Recoverable /\ receipt[StableKey] = "ACCEPTED" /\ effect[task.cur] = "none"

(* An attempt whose runner was killed or cut off is settled by whichever   *)
(* runner is started next, on the proof of its commit or for another try   *)
(* (the execution plan of Stage 5 would leave it RECOVERY_PENDING without  *)
(* a receipt; the code does not).  Three exceptions are traps of the code: *)
(* a second interruption of the task, a commit of another run above that   *)
(* of the attempt, and an attempt recovery cannot explain.                 *)
InterruptedIsSettled ==
  Recoverable ~> (~Recoverable \/ RecoverySpent \/ Overtaken \/ Inexplicable)

(* "return control instead of spinning": every run() ends, with any number *)
(* of runners, unless it has to recover an attempt it cannot explain: that *)
(* reports RECOVERY_PENDING, and the loop takes it for progress.           *)
RunReturns ==
  \A r \in Runners : runner[r].pc = "loop" ~> (runner[r].pc \in {"idle", "down"} \/ Inexplicable)
=============================================================================
