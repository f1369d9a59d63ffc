---------------------------- MODULE CreativeRun ----------------------------
(***************************************************************************)
(* One creative run from its first plan to its last chapter: the fixed     *)
(* topology of services/creative_runtime.py, the dispatcher that selects   *)
(* and advances ready tasks (runtime/creative_dispatcher.py) and the       *)
(* vertical runner around both (runtime/vertical_runner.py).               *)
(*                                                                         *)
(* The process is single-threaded: between two awaits its code runs        *)
(* without interleaving, and an advance() that changes several rows in     *)
(* several transactions is cut into one action per transaction ("then"     *)
(* holds what is left of it), because a kill may fall between them.  While *)
(* a batch is awaited its tasks return in any order.  What a leaf, the     *)
(* commit service or the memory-write workflow does inside its await is    *)
(* its outcome here; MemoryWrite, ChapterSettlement and RuntimeCommands    *)
(* model the insides.                                                      *)
(***************************************************************************)
EXTENDS Integers, Sequences, FiniteSets

CONSTANTS
  Target,           \* request.target_chapters; the run starts at chapter 0
  Policies,         \* the pinned policies a run may have been started with
  GapAt,            \* <<line, chapter>> of the Planners that may meet a Canon gap
  MaintenanceFirst, \* maintenance.* sorts before this run's task identities
  TrancheLimit,     \* AUTO_PLANNER_MEMORY_TRANCHE_LIMIT
  MaxTroubles,      \* bound: outcomes of leaves other than a candidate
  MaxKills          \* bound: kills of the process

Lines == {"plan", "look", "replan", "promo", "draft"}
Kinds == {"candidate", "acceptance", "commit", "projection", "maintenance"}

ASSUME CreativeRunAssumption ==
  /\ Target \in Nat \ {0}
  /\ \A p \in Policies : /\ {p.horizon, p.ahead} \subseteq Nat \ {0}
                         /\ p.lookahead \in BOOLEAN
  /\ GapAt \subseteq ((Lines \ {"draft"}) \X Nat)
  /\ {MaintenanceFirst} \subseteq BOOLEAN
  /\ {TrancheLimit, MaxTroubles, MaxKills} \subseteq Nat

VARIABLES
  policy,    \* the run's CreativeRunPolicy
  task,      \* the run's task rows, by identity
  canon,     \* the project's commits, each as the task that made it
  pc,        \* where the runner is: "idle", "loop", "poll" or "await"
  inflight,  \* claimed tasks this process is advancing
  then,      \* what is left of the handler that is running
  slice,     \* what the dispatch slice and its last batch brought
  report,    \* the status of the last run()
  troubles,
  kills

vars == <<policy, task, canon, pc, inflight, then, slice, report, troubles, kills>>

-----------------------------------------------------------------------------
(* Tasks                                                                   *)

(* An identity: the line of work, the chapter_index, how many maintenance  *)
(* retries precede it, and the stage.                                      *)
Ids == [line : Lines, ch : 0 .. Target, n : 0 .. 1, kind : Kinds]

Id(line, ch, n, kind) == [line |-> line, ch |-> ch, n |-> n, kind |-> kind]
Stage(t, kind) == [t EXCEPT !.kind = kind]

Statuses == {"READY", "RUNNING", "WAITING_INPUT", "WAITING_RETRY",
             "RECOVERY_PENDING", "BUDGET_REVIEW", "BLOCKED", "SUCCEEDED", "CANCELLED"}
Inactive == {"READY", "WAITING_INPUT", "WAITING_RETRY", "BUDGET_REVIEW", "BLOCKED"}

(* attempt is the attempt_no of a chapter's settlement, the only one that  *)
(* matters: 0 before the first claim, 2 for every claim after it.          *)
Rows == [status : Statuses, basis : Nat, superseded : BOOLEAN, attempt : 0 .. 2,
         affects : {"unknown", "yes", "no"}, tranches : 0 .. TrancheLimit]

Row(status, basis, affects) ==
  [status |-> status, basis |-> basis, superseded |-> FALSE, attempt |-> 0,
   affects |-> affects, tranches |-> 0]

Exists(t) == t \in DOMAIN task
Is(t, status) == Exists(t) /\ task[t].status = status

CurrentCommit == Len(canon)

(* LOOKAHEAD and DERIVED_MAINTENANCE purposes; a promoted candidate is     *)
(* NORMAL work.                                                            *)
Background(t) == t.line = "look" \/ t.kind = "maintenance"

With(t, status) == [task EXCEPT ![t].status = status]
Superseded(rows, t) == [rows EXCEPT ![t].status = "CANCELLED", ![t].superseded = TRUE]

(* create_task and _insert_successor_tasks: an identity that exists must   *)
(* be the same row.                                                        *)
Collides(t, row) == Exists(t) /\ task[t] # row
Insert(rows, t, row) ==
  [u \in DOMAIN rows \cup {t} |-> IF u \in DOMAIN rows THEN rows[u] ELSE row]

(* _completed_chapters *)
Projected(ch) == Is(Id("draft", ch, 0, "projection"), "SUCCEEDED")

-----------------------------------------------------------------------------
(* The handler that is running                                             *)

Nothing == [op |-> "none", t |-> Id("plan", 0, 0, "candidate")]
Then(op, t) == then' = [op |-> op, t |-> t]
Done == then' = Nothing
Sync == then = Nothing

(* A result is counted in the slice, or makes the runner look again. *)
Result == slice' = [slice EXCEPT !.got = TRUE, !.round = TRUE]

Return(status) ==
  /\ report' = status
  /\ pc' = "idle"
  /\ slice' = [got |-> FALSE, round |-> FALSE, error |-> FALSE]

(* A RuntimeCommandConflictError: the dispatcher makes it a None, nobody   *)
(* catches it for the runner's own recovery.                               *)
Conflict ==
  IF pc = "loop" THEN Return("failed") ELSE UNCHANGED <<pc, slice, report>>

Automatic(t) == IF t.line = "draft" THEN policy.autoDraft ELSE policy.autoPlan

DecidableAhead(t) == t.kind = "acceptance"

(* A lookahead candidate must pass post-Draft revalidation first. *)
Decidable(t) == t.line # "look"

(* RuntimeAcceptanceService.submit with ACCEPT *)
Accepted(t) ==
  Insert(With(t, "SUCCEEDED"), Stage(t, "commit"),
         Row("READY", task[t].basis, task[t].affects))

(* _auto_accept of the candidate bound to acceptance task t *)
AutoAccept(t) ==
  /\ then.op = "accept" /\ then.t = t
  /\ Done
  /\ IF ~Automatic(t) \/ ~Decidable(t)
       THEN Result /\ UNCHANGED <<task, pc, report>>
       ELSE IF task[t].basis = CurrentCommit
         THEN task' = Accepted(t) /\ Result /\ UNCHANGED <<pc, report>>
         ELSE Conflict /\ UNCHANGED task
  /\ UNCHANGED <<policy, canon, inflight, troubles, kills>>

(* A person decides a candidate: submit_acceptance. *)
HumanDecides(t, accept) ==
  /\ t.kind = "acceptance"
  /\ Is(t, "WAITING_INPUT")
  /\ ~Automatic(t)
  /\ Decidable(t)
  /\ task[t].basis = CurrentCommit
  /\ ~accept => troubles < MaxTroubles
  /\ task' = IF accept THEN Accepted(t) ELSE With(t, "CANCELLED")
  /\ troubles' = IF accept THEN troubles ELSE troubles + 1
  /\ UNCHANGED <<policy, canon, pc, inflight, then, slice, report, kills>>

-----------------------------------------------------------------------------
(* A plan made ahead of the draft it depends on                            *)

ProjectionOf(ch) == Id("draft", ch, 0, "projection")

(* The lookahead candidates that wait for the commit and the projection of *)
(* the chapter they protect, once both are there.                          *)
Revalidatable ==
  {w \in DOMAIN task :
     /\ w.line = "look" /\ w.kind = "acceptance"
     /\ Is(w, "WAITING_INPUT")
     /\ task[w].basis # CurrentCommit
     /\ Projected(w.ch)
     /\ task[ProjectionOf(w.ch)].basis = CurrentCommit}

(* _revalidate_lookahead: the candidate is superseded first, then promoted *)
(* onto the new basis or planned again.                                    *)
PromotesUnknown(w) ==
  /\ task' = Superseded(task, w)
  /\ Then(IF task[ProjectionOf(w.ch)].affects = "yes" THEN "replan" ELSE "promote", w)

Supersede(w) ==
  /\ task' = Superseded(task, w)
  /\ Then(IF task[ProjectionOf(w.ch)].affects = "no" THEN "promote" ELSE "replan", w)

(* The planning task that depends on projection p, if it may still lead    *)
(* anywhere.                                                               *)
Replanned(p) ==
  \E t \in DOMAIN task :
    /\ t.ch = p.ch
    /\ \/ t.line \in {"plan", "replan"} /\ t.kind = "candidate" /\ t.n = 0
       \/ t.line = "promo" /\ t.kind = "acceptance"
    /\ ~task[t].superseded
    /\ task[t].status \notin {"CANCELLED", "BLOCKED"}

LookaheadsOf(p) ==
  {t \in DOMAIN task : t.line = "look" /\ t.ch = p.ch /\ t.kind # "maintenance"
                       /\ ~task[t].superseded}

LiveWhileUnsettled(t) == task[t].status \notin {"SUCCEEDED", "CANCELLED"}

(* _lookahead_is_live *)
Live(t) == \/ task[t].status = "RUNNING"
           \/ task[t].status = "READY" /\ task[t].basis = CurrentCommit

NeedsRollingPlan(p) ==
  ~Replanned(p) /\ \A t \in LookaheadsOf(p) : ~Live(t)

Repairs(p) ==
  /\ policy.lookahead
  /\ p.ch < Target
  /\ Revalidatable # {} \/ NeedsRollingPlan(p)

GiveUpLookahead(p) ==
  /\ task' = [t \in DOMAIN task |->
                IF t \in LookaheadsOf(p) /\ task[t].status \in Inactive
                  THEN [task[t] EXCEPT !.status = "CANCELLED", !.superseded = TRUE]
                  ELSE task[t]]
  /\ Then("rolling", p)

(* _repair_post_draft_projection up to the task it creates *)
RepairPostDraft(p) ==
  IF Revalidatable # {} THEN \E w \in Revalidatable : Supersede(w)
                        ELSE GiveUpLookahead(p)

(* The rest of advance() after a lookahead candidate, or a draft's         *)
(* projection, was settled.                                                *)
Revalidate ==
  /\ then.op = "revalidate"
  /\ IF Revalidatable # {}
       THEN (\E w \in Revalidatable : Supersede(w)) /\ UNCHANGED slice
       ELSE Done /\ Result /\ UNCHANGED task
  /\ UNCHANGED <<policy, canon, pc, inflight, report, troubles, kills>>

Repair ==
  /\ then.op = "repair"
  /\ IF Repairs(then.t)
       THEN RepairPostDraft(then.t) /\ UNCHANGED slice
       ELSE Done /\ Result /\ UNCHANGED task
  /\ UNCHANGED <<policy, canon, pc, inflight, report, troubles, kills>>

(* What create_task is asked for after that: the promoted acceptance task, *)
(* the replanning Planner or the rolling Planner.                          *)
CreatedTask ==
  CASE then.op = "promote" -> Id("promo", then.t.ch, then.t.n, "acceptance")
    [] then.op = "replan"  -> Id("replan", then.t.ch, 0, "candidate")
    [] then.op = "rolling" -> Id("plan", then.t.ch, 0, "candidate")

CreatedRow ==
  Row(IF then.op = "promote" THEN "WAITING_INPUT" ELSE "READY",
      task[ProjectionOf(then.t.ch)].basis, "unknown")

CreatePlanning ==
  /\ then.op \in {"promote", "replan", "rolling"}
  /\ IF Collides(CreatedTask, CreatedRow)
       THEN Done /\ Conflict /\ UNCHANGED task
       ELSE /\ task' = Insert(task, CreatedTask, CreatedRow)
            /\ IF then.op = "promote" THEN Then("accept", CreatedTask) ELSE Done
            /\ Result
            /\ UNCHANGED <<pc, report>>
  /\ UNCHANGED <<policy, canon, inflight, troubles, kills>>

(* _auto_extend_budget *)
Extendable(t) ==
  /\ t.kind = "candidate" /\ t.line # "draft"
  /\ policy.auto
  /\ task[t].tranches < TrancheLimit

Extended(t) == [task EXCEPT ![t].status = "READY", ![t].tranches = @ + 1]

AutoExtend ==
  /\ then.op = "extend"
  /\ task' = IF Extendable(then.t) THEN Extended(then.t) ELSE task
  /\ Done /\ Result
  /\ UNCHANGED <<policy, canon, pc, inflight, report, troubles, kills>>

-----------------------------------------------------------------------------
(* The runner: run() between two dispatch slices                           *)

NoSlice == [got |-> FALSE, round |-> FALSE, error |-> FALSE]

Foreground(status) ==
  \E t \in DOMAIN task : ~task[t].superseded /\ ~Background(t) /\ Is(t, status)

(* _has_runnable_work does not look at the basis. *)
Runnable(t) == Is(t, "READY")
HasBlocking == Foreground("BLOCKED") \/ Foreground("CANCELLED")

(* _status; that the last result was COMPLETED is that the target's        *)
(* projection succeeded, that it was BLOCKED that its task still is.       *)
RunStatus ==
  CASE Projected(Target) -> "completed"
    [] ~Projected(Target) /\ Foreground("RUNNING") -> "recovery_pending"
    [] ~Projected(Target) /\ ~Foreground("RUNNING") /\ HasBlocking -> "blocked"
    [] OTHER -> "waiting"

(* A new run(): the next watch cycle, or a person starts the command       *)
(* again.  Of the last report only that the novel is complete is kept.     *)
Start ==
  /\ pc = "idle"
  /\ pc' = "loop"
  /\ task' = Insert(task, Id("plan", 0, 0, "candidate"), Row("READY", 0, "unknown"))
  /\ report' = IF report = "completed" THEN report ELSE "none"
  /\ UNCHANGED <<policy, canon, inflight, then, slice, troubles, kills>>

Settlement(t) == t.kind = "commit" /\ t.line = "draft"
InterruptedSettlement(t) == Settlement(t) /\ Is(t, "RUNNING")

(* The rows recover_boundary answers for. *)
Recoverable(t) ==
  /\ ~task[t].superseded
  /\ \/ t.kind = "acceptance" /\ Is(t, "WAITING_INPUT") /\ Automatic(t) /\ Decidable(t)
     \/ InterruptedSettlement(t)
     \/ t.kind = "projection" /\ t.line = "draft" /\ Is(t, "SUCCEEDED") /\ Repairs(t)
     \/ Is(t, "BUDGET_REVIEW") /\ Extendable(t)

(* _recover_chapter_settlement: what ChapterSettlement models in detail.   *)
(* resolve_commit asks for the key of the first attempt only, and a later  *)
(* one has committed under another (workflow_request_id).                  *)
ForgetsCommit(t) == With(t, "WAITING_RETRY")

ReceiptFound(t) ==
  CurrentCommit > 0 /\ canon[CurrentCommit] = t /\ task[t].attempt = 1

Reconciled(t) ==
  IF ReceiptFound(t)
    THEN Insert(With(t, "SUCCEEDED"), Stage(t, "projection"),
                Row("READY", CurrentCommit, task[t].affects))
    ELSE With(t, "WAITING_RETRY")

Recover(t) ==
  /\ pc = "loop" /\ Sync /\ ~Projected(Target)
  /\ t \in DOMAIN task
  /\ Recoverable(t)
  /\ CASE t.kind = "acceptance" -> Then("accept", t) /\ UNCHANGED task
       [] InterruptedSettlement(t) -> task' = Reconciled(t) /\ Done
       [] t.kind = "projection" -> RepairPostDraft(t)
       [] OTHER -> task' = Extended(t) /\ Done
  /\ UNCHANGED <<policy, canon, pc, inflight, slice, report, troubles, kills>>

NothingToRecover == \A t \in DOMAIN task : ~Recoverable(t)

(* The loop ends, or asks the dispatcher for a slice. *)
Loop ==
  /\ pc = "loop" /\ Sync
  /\ Projected(Target) \/ NothingToRecover
  /\ IF \/ Projected(Target)
        \/ HasBlocking /\ ~ \E t \in DOMAIN task : Background(t) /\ Runnable(t)
        \/ ~ \E t \in DOMAIN task : Runnable(t)
       THEN Return(RunStatus)
       ELSE pc' = "poll" /\ slice' = NoSlice /\ UNCHANGED report
  /\ UNCHANGED <<policy, task, canon, inflight, then, troubles, kills>>

-----------------------------------------------------------------------------
(* The dispatcher: run_bounded                                             *)

(* ready_batch: by task identity.  Promoted work is filed under the        *)
(* lookahead it comes from.                                                *)
Rank(t) ==
  CASE t.kind = "maintenance" -> IF MaintenanceFirst THEN 0 ELSE 5
    [] t.kind # "maintenance" /\ t.line = "draft" -> 1
    [] t.kind # "maintenance" /\ t.line \in {"look", "promo"} -> 2
    [] t.kind # "maintenance" /\ t.line = "plan" -> 3
    [] OTHER -> 4

Ready == {t \in DOMAIN task : Runnable(t)}
Heads == {t \in Ready : \A u \in Ready : Rank(t) <= Rank(u)}

(* _parallel_batch: a draft and the lookahead that protects it. *)
Together(t, u) ==
  /\ t.kind = "candidate" /\ u.kind = "candidate"
  /\ {t.line, u.line} = {"draft", "look"}
  /\ t.ch = u.ch
  /\ task[t].basis = task[u].basis

Batches ==
  {{h} : h \in Heads} \cup
  (IF policy.lookahead THEN {{h, u} : h \in Heads, u \in Ready} ELSE {})

(* No result in the whole slice makes the runner stop. *)
SliceEnds ==
  IF slice.got THEN pc' = "loop" /\ slice' = NoSlice /\ UNCHANGED report
               ELSE Return(RunStatus)

(* The claims of a batch; claim() refuses a task on another basis. *)
Claimable(t) == task[t].basis = CurrentCommit

NextAttempt(t) ==
  CASE ~Settlement(t) -> 0
    [] Settlement(t) /\ task[t].attempt = 0 -> 1
    [] OTHER -> 2

Claim(batch) ==
  /\ task' = [t \in DOMAIN task |->
                IF t \in batch
                  THEN [task[t] EXCEPT !.status = "RUNNING", !.attempt = NextAttempt(t)]
                  ELSE task[t]]
  /\ inflight' = batch
  /\ pc' = "await"
  /\ slice' = [slice EXCEPT !.round = FALSE]
  /\ UNCHANGED report

Poll ==
  /\ pc = "poll"
  /\ \/ Ready = {} /\ SliceEnds /\ UNCHANGED <<task, inflight>>
     \/ \E batch \in Batches :
          /\ Cardinality(batch) = 2 => \A t, u \in batch : t # u => Together(t, u)
          /\ IF \E t \in batch : Claimable(t)
               THEN Claim({t \in batch : Claimable(t)})
               ELSE SliceEnds /\ UNCHANGED <<task, inflight>>
  /\ UNCHANGED <<policy, canon, then, troubles, kills>>

(* The batch is back: an error is raised once every task has returned,     *)
(* a batch without results ends the slice, and so does max_tasks.          *)
BatchEnds ==
  /\ pc = "await" /\ Sync /\ inflight = {}
  /\ \/ slice.error /\ Return("failed")
     \/ ~slice.error /\ ~slice.round /\ SliceEnds
     \/ ~slice.error /\ slice.round /\ pc' = "poll" /\ UNCHANGED <<slice, report>>
     \/ ~slice.error /\ slice.round /\ pc' = "loop" /\ slice' = NoSlice
        /\ UNCHANGED report
  /\ UNCHANGED <<policy, task, canon, inflight, then, troubles, kills>>

-----------------------------------------------------------------------------
(* advance(): what each kind of task comes back with                       *)

Returns(t, kind) ==
  /\ pc = "await" /\ Sync
  /\ t \in inflight
  /\ t.kind = kind
  /\ inflight' = inflight \ {t}
  /\ UNCHANGED <<policy, pc, report, kills>>

(* A candidate was produced: its task succeeds and the acceptance task     *)
(* exists in the same transaction.                                         *)
CandidateReady(t, affects) ==
  /\ Returns(t, "candidate")
  /\ affects # "unknown" => t.line = "draft"
  /\ task' = Insert(With(t, "SUCCEEDED"), Stage(t, "acceptance"),
                    Row("WAITING_INPUT", task[t].basis, affects))
  /\ Then(IF t.line = "look" THEN "revalidate" ELSE "accept", Stage(t, "acceptance"))
  /\ UNCHANGED <<canon, slice, troubles>>

Trouble == troubles < MaxTroubles /\ troubles' = troubles + 1

(* The other ways a worker settles its attempt: a slice that yielded, a    *)
(* failure to retry, a budget or a review to wait for, a writer lane that  *)
(* is busy, a maintenance port or store that is not there.                 *)
SettledStatuses(t) ==
  CASE t.kind = "candidate" ->
         {"READY", "WAITING_INPUT", "WAITING_RETRY", "BUDGET_REVIEW", "BLOCKED"}
    [] t.kind = "commit" -> {"WAITING_RETRY", "BLOCKED"}
    [] t.kind = "projection" -> {"WAITING_RETRY"}
    [] t.kind = "maintenance" ->
         {"RECOVERY_PENDING", "WAITING_INPUT", "WAITING_RETRY", "BUDGET_REVIEW", "BLOCKED"}
    [] OTHER -> {}

(* And when its own workflow has committed: the answer was uncertain, the  *)
(* projection or the result of a maintenance call could not be written.    *)
SettledAfterCommit(t) ==
  IF t.kind = "commit" THEN {"BLOCKED"}
                       ELSE {"RECOVERY_PENDING", "WAITING_RETRY", "BLOCKED"}

SettledAs(t, status) ==
  /\ Trouble
  /\ Returns(t, t.kind)
  /\ status \in IF t.kind \in {"commit", "maintenance"} /\ task[t].basis # CurrentCommit
                 THEN SettledAfterCommit(t) ELSE SettledStatuses(t)
  /\ task' = With(t, status)
  /\ IF status = "BUDGET_REVIEW" /\ t.kind = "candidate"
       THEN Then("extend", t) /\ UNCHANGED slice
       ELSE Done /\ Result
  /\ UNCHANGED canon

(* An exception advance() does not catch leaves the attempt open. *)
Raises(t) ==
  /\ Trouble
  /\ Returns(t, t.kind)
  /\ slice' = [slice EXCEPT !.error = TRUE]
  /\ UNCHANGED <<task, canon, then>>

(* settle_gap_and_create_maintenance *)
CanonGap(t) ==
  /\ Trouble
  /\ Returns(t, "candidate")
  /\ <<t.line, t.ch>> \in GapAt
  /\ t.n = 0
  /\ task' = Insert(With(t, "BLOCKED"), Stage(t, "maintenance"),
                    Row("READY", task[t].basis, "unknown"))
  /\ Result
  /\ UNCHANGED <<canon, then>>

(* The memory-write workflow commits, for a draft or for maintenance,      *)
(* before the runtime hears of it.                                         *)
WorkflowCommits(t) ==
  /\ pc = "await" /\ Sync
  /\ t \in inflight
  /\ \/ t.kind = "maintenance"
     \/ Settlement(t)
  /\ task[t].basis = CurrentCommit
  /\ canon' = Append(canon, t)
  /\ UNCHANGED <<policy, task, pc, inflight, then, slice, report, troubles, kills>>

(* record_external_commit for a draft, commit_accepted_candidate, which    *)
(* commits itself, for a plan.                                             *)
Commits(t) ==
  /\ Returns(t, "commit")
  /\ IF t.line = "draft"
       THEN task[t].basis # CurrentCommit /\ UNCHANGED canon
       ELSE canon' = Append(canon, t)
  /\ task' = Insert(With(t, "SUCCEEDED"), Stage(t, "projection"),
                    Row("READY", Len(canon'), task[t].affects))
  /\ Result
  /\ UNCHANGED <<then, troubles>>

(* settle_maintenance_and_retry_planner, if the Planner still waits for it. *)
MaintenanceCommitted(t) ==
  LET planner == Stage(t, "candidate")
      retry == [planner EXCEPT !.n = 1] IN
  /\ Returns(t, "maintenance")
  /\ task[t].basis # CurrentCommit
  /\ IF task[planner].status = "BLOCKED" /\ ~task[planner].superseded
       THEN /\ task' = Insert(Superseded(With(t, "SUCCEEDED"), planner), retry,
                              Row("READY", CurrentCommit, "unknown"))
            /\ Result
       ELSE UNCHANGED <<task, slice>>
  /\ UNCHANGED <<canon, then, troubles>>

SuccessorsPastHorizon(t) ==
  CASE t.line # "draft" -> {Id("draft", t.ch + 1, 0, "candidate")}
    [] t.line = "draft" /\ t.ch < Target -> {Id("draft", t.ch + 1, 0, "candidate")}
    [] OTHER -> {}

(* The tasks a fresh projection opens: after a plan the draft of the next  *)
(* chapter and, with lookahead, the plan after that; after a draft the     *)
(* next draft of the horizon or, at its end, the next plan.                *)
Successors(t) ==
  CASE t.line # "draft" ->
         {Id("draft", t.ch + 1, 0, "candidate")} \cup
         (IF policy.lookahead /\ t.ch + 1 < Target
            THEN {Id("look", t.ch + 1, 0, "candidate")} ELSE {})
    [] t.line = "draft" /\ t.ch < Target /\ ~policy.lookahead ->
         {Id(IF t.ch % policy.horizon = 0 THEN "plan" ELSE "draft",
             IF t.ch % policy.horizon = 0 THEN t.ch ELSE t.ch + 1, 0, "candidate")}
    [] OTHER -> {}

ProjectionReady(t) ==
  LET row == Row("READY", task[t].basis, "unknown") IN
  /\ Returns(t, "projection")
  /\ IF \E u \in Successors(t) : Collides(u, row)
       THEN UNCHANGED <<task, slice, then>>
       ELSE /\ task' = [u \in DOMAIN task \cup Successors(t) |->
                          IF u \in DOMAIN task THEN With(t, "SUCCEEDED")[u] ELSE row]
            /\ IF t.line = "draft" /\ t.ch < Target /\ policy.lookahead
                 THEN Then("repair", t) /\ UNCHANGED slice
                 ELSE Done /\ Result
  /\ UNCHANGED <<canon, troubles>>

-----------------------------------------------------------------------------
(* Kills, operators                                                        *)

Kill ==
  /\ kills < MaxKills
  /\ pc # "idle"
  /\ kills' = kills + 1
  /\ pc' = "idle" /\ inflight' = {} /\ then' = Nothing /\ slice' = NoSlice
  /\ UNCHANGED <<policy, task, canon, report, troubles>>

(* suspect_expired_attempt and reclaim_expired_attempt: the lease of an    *)
(* attempt nobody works on any more has run out.                           *)
Reclaim(t) ==
  /\ Is(t, "RUNNING")
  /\ t \notin inflight
  /\ ~InterruptedSettlement(t)
  /\ task' = With(t, "WAITING_RETRY")
  /\ UNCHANGED <<policy, canon, pc, inflight, then, slice, report, troubles, kills>>

(* control("retry"), unblock, extend_budget, and what pause and resume     *)
(* give back; a Planner blocked by a gap is left to its maintenance task.  *)
Serve(t) ==
  /\ \/ Is(t, "WAITING_RETRY") \/ Is(t, "RECOVERY_PENDING")
     \/ Is(t, "WAITING_INPUT") /\ t.kind # "acceptance"
     \/ Is(t, "BLOCKED") /\ ~(t.kind = "candidate" /\ Exists(Stage(t, "maintenance")))
     \/ Is(t, "BUDGET_REVIEW") /\ ~Extendable(t)
  /\ task' = With(t, "READY")
  /\ UNCHANGED <<policy, canon, pc, inflight, then, slice, report, troubles, kills>>

Init ==
  /\ policy \in Policies
  /\ task = <<>>
  /\ canon = <<>>
  /\ pc = "idle" /\ inflight = {} /\ then = Nothing /\ slice = NoSlice
  /\ report = "none"
  /\ troubles = 0 /\ kills = 0

Handler ==
  \/ \E t \in DOMAIN task : AutoAccept(t)
  \/ Revalidate \/ Repair \/ CreatePlanning \/ AutoExtend

Advance ==
  \E t \in inflight :
    \/ \E affects \in {"unknown", "yes", "no"} : CandidateReady(t, affects)
    \/ Commits(t) \/ MaintenanceCommitted(t) \/ ProjectionReady(t)

Upset ==
  \E t \in inflight :
    \/ \E status \in Statuses : SettledAs(t, status)
    \/ Raises(t) \/ CanonGap(t)

Operator == \E t \in DOMAIN task : Reclaim(t) \/ Serve(t) \/ HumanDecides(t, TRUE)

Runner == Loop \/ Poll \/ BatchEnds \/ \E t \in DOMAIN task : Recover(t)

Workflow == \E t \in inflight : WorkflowCommits(t)

(* The process goes on: it is started again, and every await ends. *)
Process == Start \/ Runner \/ Handler \/ Advance \/ Workflow

Next ==
  \/ Start \/ Runner \/ Handler \/ Advance \/ Workflow \/ Upset \/ Kill
  \/ Operator \/ \E t \in DOMAIN task : HumanDecides(t, FALSE)

Spec == Init /\ [][Next]_vars /\ WF_vars(Process) /\ WF_vars(Operator)

-----------------------------------------------------------------------------
(* Properties                                                              *)

(* Every variable has its type; what is in flight is claimed, and only     *)
(* while a batch is awaited.                                               *)
TypeOK ==
  /\ policy \in Policies
  /\ DOMAIN task \subseteq Ids
  /\ \A t \in DOMAIN task : task[t] \in Rows
  /\ canon \in Seq(Ids)
  /\ pc \in {"idle", "loop", "poll", "await"}
  /\ inflight # {} => pc = "await"
  /\ \A t \in inflight : Is(t, "RUNNING")
  /\ then.t \in Ids
  /\ slice \in [got : BOOLEAN, round : BOOLEAN, error : BOOLEAN]
  /\ report \in {"none", "completed", "recovery_pending", "blocked", "waiting", "failed"}
  /\ troubles \in 0 .. MaxTroubles /\ kills \in 0 .. MaxKills

(* The run seen as a Manuscript: maintenance commits and everything about  *)
(* tasks, batches and kills are left out.  Of the first b commits, the     *)
(* last chapter written, the last one a plan covers, and whether the       *)
(* latest of both has been projected.                                      *)
Planning == Lines \ {"draft"}

Latest(c, b, lines) ==
  LET made == {i \in 1 .. b : c[i].kind = "commit" /\ c[i].line \in lines}
  IN IF made = {} THEN 0 ELSE CHOOSE i \in made : \A j \in made : j <= i

Written(c, b) ==
  LET i == Latest(c, b, {"draft"}) IN IF i = 0 THEN 0 ELSE c[i].ch

(* How many chapters a plan of this line is for (_rolling_plan_task,       *)
(* _lookahead_task); a promotion and a replanning keep the lookahead's.    *)
HorizonOf(line, pol) == IF line = "plan" THEN pol.horizon ELSE pol.ahead

Covered(c, b, pol) ==
  LET i == Latest(c, b, Planning)
  IN IF i = 0 THEN 0 ELSE c[i].ch + HorizonOf(c[i].line, pol)

Fresh(c, b, rows) ==
  LET i == Latest(c, b, Lines)
      p == Stage(c[i], "projection")
  IN i = 0 \/ (p \in DOMAIN rows /\ rows[p].status = "SUCCEEDED")

Novel == INSTANCE Manuscript WITH
  horizons <- {policy.horizon, policy.ahead},
  written <- Written(canon, CurrentCommit),
  covered <- Covered(canon, CurrentCommit, policy),
  fresh <- Fresh(canon, CurrentCommit, task),
  completed <- report = "completed"

(* The run implements Manuscript: whatever was lost, retried, repaired,    *)
(* promoted or planned twice on the way, each step of it is a step of the  *)
(* novel or no step at all (the fixed topology of advance).                *)
ImplementsManuscript == Novel!Spec

(* A plan made before the chapter it builds on was written is committed    *)
(* only after that chapter, and only when the chapter was observed to      *)
(* change nothing the plan depends on (_revalidate_lookahead).             *)
LookaheadRevalidated ==
  \A i \in 1 .. Len(canon) :
    canon[i].line \in {"look", "promo"} /\ canon[i].kind = "commit" =>
      /\ canon[i].line = "promo"
      /\ \E j \in 1 .. i - 1 : canon[j] = Id("draft", canon[i].ch, 0, "commit")
      /\ task[ProjectionOf(canon[i].ch)].affects = "no"

(* Canon does not move behind a chapter being written: from the moment a   *)
(* draft task exists until its own commit, nothing else is committed       *)
(* (docs: the basis the Writer depends on must not change behind it).  One *)
(* trap of the code is excepted by name: the maintenance of a gap that the *)
(* Planner of a lookahead met commits while the chapter it runs beside is  *)
(* being written (_advance_memory_maintenance does not wait for it).       *)
AheadOfTheDraft(t) == t.line = "look" /\ t.kind = "maintenance"

WriterBasisStable ==
  [][canon' # canon /\ canon'[Len(canon')].line # "draft"
     /\ ~AheadOfTheDraft(canon'[Len(canon')]) =>
       \A t \in DOMAIN task :
         t.line = "draft" /\ ~task[t].superseded /\ task[t].basis = CurrentCommit
         => t.kind = "projection" \/ task[t].status \in {"SUCCEEDED", "CANCELLED"}]_vars

(* A run() that reports it is waiting has foreground work that waits, for  *)
(* a decision, a retry or a budget, or that no batch could claim: it never *)
(* waits for nothing, and the failure of a lookahead does not hold up the  *)
(* chapters.  Excepted by name: a lookahead whose attempt nobody works on  *)
(* any more (_lookahead_is_live goes by its status and counts it as live   *)
(* until it is reclaimed), and one whose Planner met a Canon gap.          *)
AbandonedLookahead ==
  \E t \in DOMAIN task : t.line = "look" /\ Is(t, "RUNNING") /\ t \notin inflight
LookaheadGap == \E t \in DOMAIN task : AheadOfTheDraft(t)

WaitIsExplained ==
  [][pc # "idle" /\ pc' = "idle" /\ report' = "waiting" /\ kills' = kills =>
       \/ Foreground("WAITING_INPUT") \/ Foreground("WAITING_RETRY")
       \/ Foreground("BUDGET_REVIEW") \/ Foreground("READY")
       \/ AbandonedLookahead \/ LookaheadGap]_vars

(* With operators who retry, unblock, resume and reclaim what waits for    *)
(* them, a run whose candidates are not rejected completes its target,     *)
(* whichever leaf failed on the way and wherever the process was killed.   *)
(* Four traps of the code are excepted by name: a chapter in Canon whose   *)
(* commit task went back to be retried, because nobody asks for the key it *)
(* was committed under or its answer was uncertain; a chapter overtaken by *)
(* the maintenance of a lookahead's gap; maintenance whose basis is gone,  *)
(* by its own unsettled commit or by the chapter's (claim() refuses all    *)
(* three for good); and a second foreground Planner, whose stale commit    *)
(* task comes to head the queue.                                           *)
Rejected == \E t \in DOMAIN task : t.kind = "acceptance" /\ Is(t, "CANCELLED")
                                  /\ ~task[t].superseded

Unsettled(t) ==
  ~task[t].superseded /\ task[t].status \notin {"SUCCEEDED", "CANCELLED"}
Stale(t) == Unsettled(t) /\ ~Claimable(t) /\ t \notin inflight

LostReceipt ==
  \E t \in DOMAIN task :
    /\ Settlement(t)
    /\ \E i \in 1 .. Len(canon) : canon[i] = t
    /\ Stale(t)
    /\ \/ task[t].attempt = 2 /\ ~InterruptedSettlement(t)
       \/ Is(t, "BLOCKED")
Overtaken ==
  \E i \in 1 .. Len(canon) :
    /\ AheadOfTheDraft(canon[i])
    /\ \E t \in DOMAIN task : /\ t.line = "draft" /\ t.kind # "projection"
                             /\ task[t].basis = i - 1 /\ Stale(t)
StaleMaintenance == \E t \in DOMAIN task : t.kind = "maintenance" /\ Stale(t)
SecondPlanner ==
  LET due == {t \in DOMAIN task : /\ task[t].status \in {"READY", "RUNNING"}
                                  /\ Claimable(t) /\ ~Background(t)}
  IN \E t, u \in due : t # u

TargetReached ==
  <>(\/ report = "completed" \/ Rejected
     \/ LostReceipt \/ Overtaken \/ StaleMaintenance \/ SecondPlanner)
=============================================================================
