------------------------------ MODULE WriterLoop ------------------------------
(***************************************************************************)
(* One Writing Task (services/writer_context_loop.py) over its attempts.   *)
(* An attempt plans, asks Memory, drafts, is reviewed, repaired or         *)
(* rewritten, observed and reconciled; when the allowance of its slice is  *)
(* spent it persists a WritingLoopCheckpoint, yields, and a later attempt  *)
(* resumes from it.  Its Context View is a projection of the run's event   *)
(* log (services/agent_context.py): every attempt replays what the others, *)
(* stragglers of reclaimed attempts included, have appended.               *)
(*                                                                         *)
(* A text, a report and an observation are reduced to which text they are  *)
(* about, a View to what a replayed event is checked against.              *)
(***************************************************************************)
EXTENDS Integers, Sequences, SequencesExt

CONSTANTS
  Policies,      \* the WritingLoopBudgets a task may be pinned to
  MaxAttempts,   \* bound: attempts of the task
  MaxFaults,     \* bound: failed calls, kills, lost leases
  MaxPressures   \* bound: dispatches that find the View over its soft limit

(* max_reactive_memory_rounds and max_writer_turns bound a slice before the Draft,
   max_post_draft_model_calls after it. *)
Budgets == [rounds : Nat, turns : Nat \ {0}, repairs : 0 .. 2, rewrites : 0 .. 2, post : Nat]

ASSUME WriterAssumption ==
  /\ Policies \subseteq Budgets /\ Policies # {}
  /\ {MaxFaults, MaxPressures} \subseteq Nat
  /\ MaxAttempts \in Nat \ {0}

Verdicts == {"PASS", "LOCAL_REPAIR", "MAJOR_REWRITE"}
Phases == <<"REACTIVE_MEMORY_PENDING", "EDITOR_PENDING", "OBSERVER_PENDING",
            "RECONCILIATION_PENDING">>
Parked == {"WAITING_RETRY", "BLOCKED", "WAITING_INPUT"}

VARIABLES
  budgets,     \* the policy of this task
  status,      \* the task's status
  attempts,    \* attempts claimed so far
  refs,        \* the checkpoints among terminal_artifact_refs, in their order
  eventRefs,   \* the checkpoints among the artifact_refs of the task's events
  ckpts,       \* the WritingLoopCheckpoints persisted
  log,         \* the run's events, as the projector reads them
  saved,       \* the View of the latest RunCheckpoint of the task
  run,         \* the locals of the running attempt's _execute
  stray,       \* a reclaimed attempt whose worker goes on, and its View
  result,      \* the DRAFT_CANDIDATE_READY result
  faults, pressures

vars == <<budgets, status, attempts, refs, eventRefs, ckpts, log, saved, run, result,
          stray, faults, pressures>>
task == <<status, refs, eventRefs, result>>
bounds == <<stray, faults, pressures>>

Fault == faults < MaxFaults /\ faults' = faults + 1

-----------------------------------------------------------------------------
(* AgentContextProjector                                                   *)

Seed == [rev |-> 0, gen |-> 0, pos |-> 0, unlogged |-> 0]
Broken == [rev |-> -1, gen |-> 0, pos |-> 0, unlogged |-> 0]

Event(kind, parent) == [kind |-> kind, parent |-> parent]

(* An event that projects to nothing but its position.  The log does not list it: it moves
   the position of every View alike, except (Foreign) when another process appends it
   between a compaction and its event. *)
Mark == Event("mark", Seed)

(* apply_event, apply_delta, apply_compaction: a delta must find the revision it was
   made for, a compaction the very View it was made of. *)
Apply(v, e) ==
  CASE v = Broken -> Broken
    [] e = Mark -> v
    [] e.kind = "delta" /\ e.parent.rev # v.rev -> Broken
    [] e.kind = "compacted" /\ e.parent # v -> Broken
    [] OTHER -> [v EXCEPT !.rev = IF e.kind = "foreign" THEN @ ELSE @ + 1,
                          !.gen = IF e.kind = "compacted" THEN @ + 1 ELSE @,
                          !.pos = @ + 1]

(* full_replay of the events after the View's position *)
Replay(v) ==
  LET to[i \in v.pos .. Len(log)] == IF i = v.pos THEN v ELSE Apply(to[i - 1], log[i])
  IN to[Len(log)]

(* put_working_item: no event is appended *)
PutWorkingItem(v) == [v EXCEPT !.rev = @ + 1, !.unlogged = @ + 1]

(* AgentContextRuntime.append_and_apply replays the tail, appends, then applies: an
   event that cannot be applied stays in the log. *)
Appends(e) ==
  log' = IF e = Mark \/ Replay(run.view) = Broken THEN log ELSE Append(log, e)
ViewAfter(e) == Apply(Replay(run.view), e)

Saves(v) == saved' = IF v.pos >= saved.pos THEN v ELSE saved

-----------------------------------------------------------------------------
(* Results                                                                 *)

NoReport == [of |-> <<0, 0>>, verdict |-> "none"]
NoText == <<0, 0>>
NotRunning ==
  [pc |-> "none", from |-> 0, view |-> Seed, dispatch |-> "no",
   turns |-> 0, sliceRounds |-> 0, sliceTurns |-> 0, parent |-> Seed,
   draft |-> NoText, texts |-> 0, final |-> NoText, report |-> NoReport,
   observed |-> NoText, post |-> 0, tries |-> 0, paid |-> {}, repaid |-> FALSE]

Live == run.pc # "none"
Becomes(local) == run' = local
Ends == Becomes(NotRunning)

(* dict.fromkeys: each checkpoint at the place of its first mention *)
Dedup(s) ==
  LET upTo[i \in 0 .. Len(s)] ==
        CASE i = 0 -> << >>
          [] i > 0 /\ s[i] \in Range(upTo[i - 1]) -> upTo[i - 1]
          [] OTHER -> Append(upTo[i - 1], s[i])
  IN upTo[Len(s)]

(* _available_lineage: the checkpoint resumed from, then those of the events *)
Lineage(from) == Dedup((IF from = 0 THEN << >> ELSE <<from>>) \o eventRefs)

Artifacts == IF run.from = 0 THEN << >> ELSE Lineage(run.from)

(* settle_attempt replaces the task's refs. *)
Settle(newStatus, newRefs) ==
  /\ status' = newStatus
  /\ refs' = newRefs
  /\ eventRefs' = Dedup(eventRefs \o newRefs)

(* The branch of creative_runtime.advance for a result that is neither ready nor a
   yield, _writer_failure included; when a retry becomes a budget review is the
   business of the failure budget (RuntimeCommands). *)
Outcome(terminal) ==
  CASE terminal \in {"MODEL_UNAVAILABLE", "WRITER_FAILED", "EDITOR_FAILED",
                    "MEMORY_INSUFFICIENT"} -> "WAITING_RETRY"
    [] terminal = "INPUT_NOT_READY" -> "WAITING_INPUT"
    [] OTHER -> "BLOCKED"

Returns(terminal) ==
  /\ Ends
  /\ Settle(Outcome(terminal), CASE terminal = "MODEL_UNAVAILABLE" -> Lineage(run.from)
                                 [] terminal \in {"BASIS_CHANGED", "INPUT_NOT_READY"} -> << >>
                                 [] OTHER -> Artifacts)
  /\ UNCHANGED result

(* _persist_workflow_checkpoint and the YIELDED result *)
Yields(phase) ==
  LET l == run
      c == Len(ckpts) + 1
  IN /\ ckpts' = Append(ckpts, [phase |-> phase, from |-> l.from, turns |-> l.turns,
                                draft |-> l.draft, final |-> l.final, report |-> l.report,
                                observed |-> l.observed, paid |-> l.paid])
     /\ Ends
     /\ Settle("READY", Append(Artifacts, c))
     /\ UNCHANGED <<budgets, attempts, log, saved, result, bounds>>

-----------------------------------------------------------------------------
(* Claiming and opening                                                    *)

(* WritingRequestFactory: resume_checkpoint_ref is the last checkpoint of the refs. *)
ResumeRef == IF refs = << >> THEN 0 ELSE Last(refs)

Claim ==
  /\ status = "READY" /\ status' = "RUNNING"
  /\ attempts < MaxAttempts /\ attempts' = attempts + 1
  /\ Becomes([NotRunning EXCEPT !.pc = "open", !.from = ResumeRef])
  /\ UNCHANGED <<budgets, refs, eventRefs, ckpts, log, saved, result, bounds>>

(* The request factory raises before the loop starts: the settlement carries no refs. *)
RequestRejected ==
  /\ run.pc = "open" /\ Fault
  /\ Ends
  /\ Settle("BLOCKED", << >>)
  /\ UNCHANGED <<budgets, attempts, ckpts, log, saved, result, stray, pressures>>

PhasePc(phase) ==
  CASE phase = "REACTIVE_MEMORY_PENDING" -> "memory"
    [] phase = "EDITOR_PENDING" -> "review"
    [] phase = "OBSERVER_PENDING" -> "observe"
    [] OTHER -> "reconcile"

ResumeReviewsAgain ==
  LET c == ckpts[run.from]
  IN [run EXCEPT !.pc = IF c.phase = "OBSERVER_PENDING" THEN "review" ELSE PhasePc(c.phase),
                 !.view = Replay(saved), !.turns = c.turns, !.draft = c.draft,
                 !.final = c.final, !.report = c.report, !.observed = c.observed,
                 !.paid = c.paid]

ResumeTakesInitialDraft ==
  LET c == ckpts[run.from]
  IN [run EXCEPT !.pc = PhasePc(c.phase), !.view = Replay(saved), !.turns = c.turns,
                 !.draft = c.draft, !.final = c.draft, !.report = c.report,
                 !.observed = c.observed, !.paid = c.paid]

ResumeSpendsTheSlice ==
  LET c == ckpts[run.from]
  IN [run EXCEPT !.pc = PhasePc(c.phase), !.view = Replay(saved), !.turns = c.turns,
                 !.sliceTurns = c.turns,
                 !.draft = c.draft, !.final = c.final, !.report = c.report,
                 !.observed = c.observed, !.paid = c.paid]

ResumeWithoutTail ==
  LET c == ckpts[run.from]
  IN [run EXCEPT !.pc = PhasePc(c.phase), !.view = saved, !.turns = c.turns,
                 !.draft = c.draft, !.final = c.final, !.report = c.report,
                 !.observed = c.observed, !.paid = c.paid]

(* The locals a checkpoint restores *)
Resume ==
  LET c == ckpts[run.from]
  IN [run EXCEPT !.pc = PhasePc(c.phase), !.view = Replay(saved), !.turns = c.turns,
                 !.draft = c.draft, !.final = c.final, !.report = c.report,
                 !.observed = c.observed, !.paid = c.paid]

(* A fresh attempt starts from the seed, a resumed one from the latest RunCheckpoint;
   the checkpoint of another basis is refused.  Before that, a Context package that is
   not READY, or a ModelRequest of another loop. *)
Open ==
  /\ run.pc = "open"
  /\ \/ /\ run.from = 0
        /\ Becomes([run EXCEPT !.pc = "plan"])
        /\ UNCHANGED <<task, faults>>
     \/ /\ run.from # 0 /\ Replay(saved) # Broken
        /\ Becomes(Resume)
        /\ UNCHANGED <<task, faults>>
     \/ /\ run.from # 0 /\ Replay(saved) = Broken
        /\ Returns("BASIS_CHANGED")
        /\ UNCHANGED faults
     \/ /\ Fault
        /\ \E terminal \in {"INPUT_NOT_READY", "BASIS_CHANGED"} : Returns(terminal)
  /\ UNCHANGED <<budgets, attempts, ckpts, log, saved, stray, pressures>>

-----------------------------------------------------------------------------
(* _ensure_dispatch                                                        *)

Dispatches == {"plan", "turn", "rewrite"}
EditorCalls == {"drafted", "review", "repair", "reverify"}

(* The terminal status of an exception at a step; a review or a repair catches only
   the Editor's own errors. *)
FailureAt(pc) ==
  CASE pc \in Dispatches \cup {"draft", "rereview"} -> "WRITER_FAILED"
    [] pc \in {"memory", "delta"} -> "MEMORY_DENIED"
    [] pc \in EditorCalls -> "EDITOR_FAILED"
    [] pc = "observe" -> "OBSERVER_FAILED"
    [] OTHER -> "RECONCILIATION_FAILED"

(* An event could not be projected. *)
ProjectionFails ==
  IF run.pc \in EditorCalls
  THEN Ends /\ UNCHANGED task
  ELSE Returns(FailureAt(run.pc))

(* One append_and_apply: `local` once it is applied, the step's failure otherwise *)
Step(e, local) ==
  /\ Appends(e)
  /\ IF ViewAfter(e) = Broken
     THEN ProjectionFails
     ELSE Becomes([local EXCEPT !.view = ViewAfter(e)]) /\ UNCHANGED task

(* CONTEXT_PRESSURE_DETECTED, and the compaction of the View it leaves *)
Pressure ==
  /\ run.pc \in Dispatches /\ run.dispatch = "no"
  /\ pressures < MaxPressures /\ pressures' = pressures + 1
  /\ Step(Mark, [run EXCEPT !.dispatch = "pressed", !.parent = ViewAfter(Mark)])
  /\ UNCHANGED <<budgets, attempts, ckpts, saved, stray, faults>>

(* CONTEXT_COMPACTED, unless nothing can be taken out *)
Compacted ==
  LET local == [run EXCEPT !.dispatch = "yes", !.parent = Seed]
  IN /\ Live /\ run.dispatch = "pressed"
     /\ \/ Step(Event("compacted", run.parent), local)
        \/ Becomes(local) /\ UNCHANGED <<task, log>>
     /\ UNCHANGED <<budgets, attempts, ckpts, saved, bounds>>

(* The View cannot be brought under the provider's limit. *)
ContextLimit ==
  /\ run.pc \in Dispatches /\ run.dispatch # "pressed" /\ Fault
  /\ Returns(IF run.pc = "rewrite" THEN "WRITER_FAILED" ELSE "CONTEXT_LIMIT")
  /\ UNCHANGED <<budgets, attempts, ckpts, log, saved, stray, pressures>>

-----------------------------------------------------------------------------
(* Planning, turns and reactive Memory                                     *)

(* The model call named by the label is made. *)
Pays(l, label) ==
  [l EXCEPT !.paid = @ \cup {label}, !.repaid = @ \/ label \in l.paid]

SavesNext(e) == IF ViewAfter(e) = Broken THEN UNCHANGED saved ELSE Saves(ViewAfter(e))

(* create_work_plan, WRITER_WORK_PLAN_SETTLED and its RunCheckpoint *)
Plan ==
  /\ run.pc = "plan" /\ run.dispatch # "pressed"
  /\ Step(Event("plan", Seed),
          [Pays(run, <<"plan", 0>>) EXCEPT !.pc = "turn", !.dispatch = "no"])
  /\ SavesNext(Event("plan", Seed))
  /\ UNCHANGED <<budgets, attempts, ckpts, bounds>>

(* take_turn and WRITER_TURN_SETTLED *)
Turn(answer) ==
  /\ run.pc = "turn" /\ run.dispatch # "pressed"
  /\ Step(Mark, [Pays(run, <<"turn", run.turns>>)
                      EXCEPT !.pc = answer, !.dispatch = "no", !.turns = @ + 1,
                             !.sliceTurns = @ + 1])
  /\ SavesNext(Mark)
  /\ UNCHANGED <<budgets, attempts, ckpts, bounds>>

(* max_reactive_memory_rounds or max_writer_turns of this slice is used up. *)
SliceSpent == run.sliceRounds >= budgets.rounds \/ run.sliceTurns >= budgets.turns

MemoryDisabled ==
  /\ run.pc = "memory" /\ budgets.rounds = 0
  /\ Returns("MEMORY_INSUFFICIENT")
  /\ UNCHANGED <<budgets, attempts, ckpts, log, saved, bounds>>

YieldForMemory ==
  /\ run.pc = "memory" /\ budgets.rounds > 0 /\ SliceSpent
  /\ Yields("REACTIVE_MEMORY_PENDING")

(* WriterReactiveMemoryService.resolve makes a delta for the View's revision. *)
Resolve ==
  /\ run.pc = "memory" /\ budgets.rounds > 0 /\ ~SliceSpent
  /\ Becomes([run EXCEPT !.pc = "delta", !.parent = run.view])
  /\ UNCHANGED <<budgets, task, attempts, ckpts, log, saved, bounds>>

(* CONTEXT_MEMORY_REQUESTED, CONTEXT_MEMORY_RESOLVED and CONTEXT_DELTA_APPLIED are one
   entry here; a DENIED delta is applied and ends the attempt.  resolve never makes a
   BUDGET_EXHAUSTED one, so the loop's branch for it is left out. *)
Delta(denied) ==
  LET e == Event("delta", run.parent)
  IN /\ run.pc = "delta"
     /\ IF denied /\ ViewAfter(e) # Broken
        THEN Appends(e) /\ Returns("MEMORY_DENIED")
        ELSE Step(e, [run EXCEPT !.pc = "turn", !.parent = Seed, !.sliceRounds = @ + 1])
     /\ SavesNext(e)
     /\ UNCHANGED <<budgets, attempts, ckpts, bounds>>

-----------------------------------------------------------------------------
(* The draft and its review                                                *)

NewText == <<attempts, run.texts + 1>>

(* materialize and DRAFT_CANDIDATE_SETTLED *)
Draft ==
  LET text == NewText
  IN /\ run.pc = "draft"
     /\ Step(Mark, [run EXCEPT !.pc = "drafted", !.draft = text, !.final = text,
                                     !.texts = @ + 1])
     /\ SavesNext(Mark)
     /\ UNCHANGED <<budgets, attempts, ckpts, bounds>>

(* Only a fresh attempt yields before the Editor. *)
EditorDue == run.from # 0 \/ run.post < budgets.post

YieldForEditor ==
  /\ run.pc = "drafted" /\ ~EditorDue
  /\ Yields("EDITOR_PENDING")

ReviewPc == run.pc = "review" \/ (run.pc = "drafted" /\ EditorDue)

(* The rewrite path puts the directive into the View before it dispatches. *)
Rewriting(l) == [l EXCEPT !.pc = "rewrite", !.dispatch = "no", !.tries = @ + 1,
                          !.view = PutWorkingItem(l.view)]

AfterReview(verdict) ==
  CASE verdict = "PASS" -> "observe"
    [] verdict = "LOCAL_REPAIR" -> IF budgets.repairs < 1 THEN "exhausted" ELSE "repair"
    [] OTHER -> IF budgets.rewrites < 1 THEN "exhausted" ELSE "rewrite"

(* A review, the event it settles, and what its verdict leads to: the next step, the
   rewrite with its directive, or a result that needs a person. *)
Reviewed(local, next) ==
  LET l == [local EXCEPT !.view = ViewAfter(Mark), !.post = @ + 1]
  IN /\ Appends(Mark)
     /\ IF ViewAfter(Mark) = Broken THEN ProjectionFails
        ELSE IF next = "exhausted" THEN Returns("REVIEW_REQUIRED")
        ELSE /\ Becomes(IF next = "rewrite" THEN Rewriting(l) ELSE [l EXCEPT !.pc = next])
             /\ UNCHANGED task
     /\ UNCHANGED <<budgets, attempts, ckpts, saved, bounds>>

ReportOf(verdict) == [of |-> run.final, verdict |-> verdict]

Review(verdict) ==
  /\ ReviewPc
  /\ Reviewed([Pays(run, <<"review", 0>>)
                    EXCEPT !.report = ReportOf(verdict), !.pc = "review"],
              AfterReview(verdict))

(* The repaired text is the final one only once its own review has passed. *)
Repair ==
  LET text == NewText
  IN /\ run.pc = "repair"
     /\ Step(Mark, [Pays(run, <<"repair", run.tries>>)
                         EXCEPT !.pc = "reverify", !.post = @ + 1, !.texts = @ + 1,
                                !.final = text])
     /\ UNCHANGED <<budgets, attempts, ckpts, saved, bounds>>

RepairRetriesForever ==
  /\ run.pc = "repair"
  /\ Becomes([run EXCEPT !.tries = IF @ + 1 < budgets.repairs THEN @ + 1 ELSE 0])
  /\ UNCHANGED <<budgets, task, attempts, ckpts, log, saved, bounds>>

(* "LOCAL_REPAIR produced no text change": once more while the allowance lasts *)
RepairChangesNothing ==
  /\ run.pc = "repair"
  /\ IF run.tries + 1 < budgets.repairs
     THEN Becomes([run EXCEPT !.tries = @ + 1]) /\ UNCHANGED task
     ELSE Returns("EDITOR_FAILED")
  /\ UNCHANGED <<budgets, attempts, ckpts, log, saved, bounds>>

Reverify(verdict) ==
  /\ run.pc = "reverify"
  /\ Reviewed([Pays(run, <<"reverify", run.tries>>)
                    EXCEPT !.report = ReportOf(verdict)],
              IF verdict = "PASS" THEN "observe" ELSE "exhausted")

(* The major rewrite: a turn that may not ask Memory again *)
Rewrite ==
  LET text == NewText
  IN /\ run.pc = "rewrite" /\ run.dispatch # "pressed"
     /\ Step(Mark, [Pays(run, <<"rewrite", run.tries>>)
                         EXCEPT !.pc = "rereview", !.dispatch = "no", !.post = @ + 1,
                                !.texts = @ + 1, !.final = text])
     /\ UNCHANGED <<budgets, attempts, ckpts, saved, bounds>>

Rereview(verdict) ==
  /\ run.pc = "rereview"
  /\ Reviewed([Pays(run, <<"rereview", run.tries>>)
                    EXCEPT !.report = ReportOf(verdict)],
              CASE verdict = "PASS" -> "observe"
                [] verdict = "MAJOR_REWRITE" /\ run.tries < budgets.rewrites -> "rewrite"
                [] OTHER -> "exhausted")

-----------------------------------------------------------------------------
(* Observation and reconciliation                                          *)

PostSpent == run.post >= budgets.post

YieldForObserver ==
  /\ run.pc = "observe" /\ PostSpent
  /\ Yields("OBSERVER_PENDING")

Observe ==
  /\ run.pc = "observe" /\ ~PostSpent
  /\ Step(Mark, [Pays(run, <<"observe", 0>>)
                      EXCEPT !.pc = "observed", !.post = @ + 1, !.observed = run.final])
  /\ UNCHANGED <<budgets, attempts, ckpts, saved, bounds>>

YieldForReconciliation ==
  /\ run.pc = "observed" /\ PostSpent
  /\ Yields("RECONCILIATION_PENDING")

Reconciling == run.pc = "reconcile" \/ (run.pc = "observed" /\ ~PostSpent)

(* CANDIDATE_RECONCILIATION_SETTLED and its RunCheckpoint *)
Reconcile ==
  /\ Reconciling
  /\ Step(Mark, [run EXCEPT !.pc = "ready"])
  /\ SavesNext(Mark)
  /\ UNCHANGED <<budgets, attempts, ckpts, bounds>>

(* The runtime settles the attempt with DRAFT_CANDIDATE_READY. *)
Deliver ==
  /\ run.pc = "ready"
  /\ Ends
  /\ Settle("SUCCEEDED", Artifacts)
  /\ result' = [final |-> run.final, report |-> run.report, observed |-> run.observed]
  /\ UNCHANGED <<budgets, attempts, ckpts, log, saved, bounds>>

-----------------------------------------------------------------------------
(* Failures, the operator and the rest of the run                          *)

(* The next step makes a call that may fail. *)
Calling ==
  \/ run.pc \in Dispatches /\ run.dispatch # "pressed"
  \/ run.pc = "memory" /\ budgets.rounds > 0 /\ ~SliceSpent
  \/ ReviewPc
  \/ run.pc \in {"draft", "repair", "reverify", "rereview"}
  \/ run.pc = "observe" /\ ~PostSpent

(* A model call or its output fails (an endpoint that is down is MODEL_UNAVAILABLE), or
   the hints of the text cannot be reconciled. *)
CallFails ==
  /\ Fault
  /\ \/ Calling /\ \E terminal \in {"MODEL_UNAVAILABLE", FailureAt(run.pc)} : Returns(terminal)
     \/ Reconciling /\ Returns("RECONCILIATION_FAILED")
  /\ UNCHANGED <<budgets, attempts, ckpts, log, saved, stray, pressures>>

Kill ==
  /\ Live /\ Fault /\ Ends
  /\ UNCHANGED <<budgets, task, attempts, ckpts, log, saved, stray, pressures>>

(* The attempt is gone after its event and before the RunCheckpoint of the step. *)
KillUnsaved ==
  /\ Fault /\ Ends
  /\ \/ run.pc = "plan" /\ run.dispatch # "pressed" /\ Appends(Event("plan", Seed))
     \/ run.pc = "delta" /\ Appends(Event("delta", run.parent))
  /\ UNCHANGED <<budgets, task, attempts, ckpts, saved, stray, pressures>>

NoStray == [st |-> "none", view |-> Seed]
Strayed == [st |-> "done", view |-> Seed]
Straggling == [st |-> "running", view |-> run.view]

(* reclaim_expired_attempt: of an attempt that is gone, or of one that only lost its
   lease; the events of its worker are not fenced. *)
Reclaim ==
  /\ status = "RUNNING" /\ status' = "WAITING_RETRY"
  /\ IF Live THEN Fault /\ Ends /\ stray' = IF stray.st = "none" THEN Straggling ELSE stray
     ELSE UNCHANGED <<faults, run, stray>>
  /\ UNCHANGED <<budgets, attempts, refs, eventRefs, ckpts, log, saved, result, pressures>>

(* retry, unblock_task, extend_budget; pause and resume of a task that waits for input *)
Retry ==
  /\ status \in Parked /\ status' = "READY"
  /\ UNCHANGED <<budgets, attempts, refs, eventRefs, ckpts, log, saved, run, result,
                 bounds>>

(* Another process appends an event of another task of the run.  It matters between a
   compaction and its event; at any other time it only moves the positions. *)
HasForeign == \E i \in DOMAIN log : log[i].kind = "foreign"

Foreign ==
  /\ run.dispatch = "pressed" /\ ~HasForeign
  /\ log' = Append(log, Event("foreign", Seed))
  /\ UNCHANGED <<budgets, task, attempts, ckpts, saved, run, bounds>>

(* The worker of a reclaimed attempt goes on: it appends a last delta, made for the View
   as it is or as it was, or nothing a View is checked against, and its RunCheckpoint,
   with a directive of its own or without, may become the latest. *)
Stray ==
  LET v == Replay(stray.view)
      after == [e \in {Event("delta", p) : p \in {stray.view, v}} \cup {Mark} |-> Apply(v, e)]
  IN /\ stray.st = "running" /\ stray' = Strayed
     /\ IF v = Broken THEN UNCHANGED <<log, saved>>
        ELSE \E e \in DOMAIN after :
               /\ log' = IF e = Mark THEN log ELSE Append(log, e)
               /\ \/ UNCHANGED saved
                  \/ /\ after[e] # Broken
                     /\ \E w \in {after[e], PutWorkingItem(after[e])} : Saves(w)
     /\ UNCHANGED <<budgets, task, attempts, ckpts, run, faults, pressures>>

-----------------------------------------------------------------------------
Init ==
  /\ budgets \in Policies
  /\ status = "READY" /\ attempts = 0
  /\ refs = << >> /\ eventRefs = << >> /\ ckpts = << >>
  /\ log = << >> /\ saved = Seed
  /\ run = NotRunning /\ stray = NoStray
  /\ result = [final |-> NoText, report |-> NoReport, observed |-> NoText]
  /\ faults = 0 /\ pressures = 0

Works ==
  \/ Open \/ Pressure \/ Compacted \/ Plan
  \/ \E answer \in {"memory", "draft"} : Turn(answer)
  \/ MemoryDisabled \/ YieldForMemory \/ Resolve
  \/ \E denied \in BOOLEAN : Delta(denied)
  \/ Draft \/ YieldForEditor
  \/ \E v \in Verdicts : Review(v) \/ Reverify(v) \/ Rereview(v)
  \/ Repair \/ RepairChangesNothing \/ Rewrite
  \/ YieldForObserver \/ Observe \/ YieldForReconciliation \/ Reconcile \/ Deliver

Fails == RequestRejected \/ ContextLimit \/ CallFails \/ Kill \/ KillUnsaved

Next ==
  \/ Claim \/ Reclaim \/ Retry \/ Foreign \/ Stray
  \/ Works \/ Fails

Spec == Init /\ [][Next]_vars /\ WF_vars(Works)

-----------------------------------------------------------------------------
Labels == {"plan", "turn", "review", "repair", "reverify", "rewrite", "rereview", "observe"}
          \X Nat

Checkpoint == [phase : Range(Phases), from : Nat, turns : Nat, draft : Nat \X Nat,
               final : Nat \X Nat, report : [of : Nat \X Nat, verdict : Verdicts \cup {"none"}],
               observed : Nat \X Nat, paid : SUBSET Labels]

(* TypeOK: an attempt runs only in a RUNNING task and every ref names a persisted
   checkpoint.  A slice makes no more Memory rounds and Writer turns than its policy
   allows; of calls after the Draft it may make more than max_post_draft_model_calls,
   which is not looked at between a review and its repair or rewrite, but no more than a
   review, the repair or the rewrites with their reviews and the observation. *)
TypeOK ==
  /\ status \in Parked \cup {"READY", "RUNNING", "SUCCEEDED"}
  /\ Live => status = "RUNNING"
  /\ attempts \in 0 .. MaxAttempts
  /\ ckpts \in Seq(Checkpoint)
  /\ Range(refs) \cup Range(eventRefs) \subseteq DOMAIN ckpts
  /\ saved # Broken /\ saved.pos <= Len(log)
  /\ run.view # Broken /\ run.view.pos <= Len(log)
  /\ run.sliceRounds <= budgets.rounds /\ run.sliceTurns <= budgets.turns
  /\ run.post <= 2 + 2 * budgets.rewrites \/ (budgets.repairs > 0 /\ run.post <= 4)
  /\ run.from \in 0 .. Len(ckpts)

(* ReadyIsReviewed: a DRAFT_CANDIDATE_READY result carries a text whose own last review
   passed and which the Observer read, whichever slices, repairs and rewrites lie between:
   no gate is left out by resuming. *)
ReadyIsReviewed ==
  status = "SUCCEEDED" =>
    /\ result.final # NoText
    /\ result.report = [of |-> result.final, verdict |-> "PASS"]
    /\ result.observed = result.final

(* SettledCallsSkipped: an attempt never makes a model call again that was settled before
   the checkpoint it resumed from; by phase it skips the plan, the turns, the review and
   the observation. *)
SettledCallsSkipped == ~run.repaid

(* YieldAdvances: the checkpoint of a resumed slice is further than the one it resumed
   from, so a task that only yields cannot go round in a circle.  Excepted: a policy with
   no post-draft call at all, which WritingLoopBudgets accepts and under which the slice
   before the Observer only yields again. *)
Index(phase) == CHOOSE i \in DOMAIN Phases : Phases[i] = phase

YieldAdvances ==
  \A c \in DOMAIN ckpts : ckpts[c].from # 0 /\ budgets.post > 0 =>
    LET p == ckpts[ckpts[c].from]
    IN \/ Index(ckpts[c].phase) > Index(p.phase)
       \/ ckpts[c].phase = p.phase /\ ckpts[c].turns > p.turns

(* LogReplays: what the attempts of a task appended, compactions of ordinary dispatches
   included, can be replayed from the seed and from the latest RunCheckpoint, so that a
   kill anywhere leaves a task that can be started or resumed.  Excepted by name: what is
   built on a View with an item no event carries (the directive of a rewrite, in the View
   compacted or in a RunCheckpoint), and events of other processes. *)
BuiltOnDirective == \E i \in DOMAIN log : log[i].parent.unlogged > 0
DirectiveSaved == saved.unlogged > 0

LogReplays ==
  \/ Replay(Seed) # Broken /\ (Replay(saved) # Broken \/ DirectiveSaved)
  \/ BuiltOnDirective \/ HasForeign \/ stray = Strayed

(* AttemptEnds: an attempt that is not killed comes to a result: no answers of the model,
   the Memory and the Editor keep a slice going for ever. *)
AttemptEnds == Live ~> ~Live
=============================================================================
