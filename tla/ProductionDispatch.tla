------------------------- MODULE ProductionDispatch -------------------------
(***************************************************************************)
(* The production dispatch coordinator                                     *)
(* (runtime/production_dispatch_coordinator.py): several runs in one       *)
(* asyncio process, a semaphore on how many run at once, one task budget   *)
(* per cycle that all of them share, and the watch loop around the cycles. *)
(* A run is reduced to the number of tasks until its target and to what    *)
(* its next task waits for (CreativeRun models the run itself); the        *)
(* coroutines of the runs interleave wherever a task is awaited.           *)
(***************************************************************************)
EXTENDS Integers, FiniteSets, Tallies

CONSTANTS
  N,            \* the number of runs; run i is the i-th descriptor
  Work,         \* tasks until the target of a run
  MaxTasks,     \* descriptor.max_tasks, the size of a slice
  MaxSlices,    \* [Runs -> Nat]: descriptor.max_slices, 0 for None
  Parallel,     \* project_parallelism
  Watches,      \* the settings a watch may be started with, see Setting
  MaxFaults     \* bound: conflicts, exceptions, tasks advanced without progress

Runs == 1 .. N

(* stop_after_chapter as the tasks left there, max_cycles, max_total_tasks; *)
(* 0 for None.                                                              *)
Setting == [stop : [Runs -> 0 .. Work - 1], cycles : Nat, total : Nat]

ASSUME DispatchAssumption ==
  /\ {N, Work, MaxTasks, Parallel} \subseteq Nat \ {0}
  /\ MaxSlices \in [Runs -> Nat] /\ Watches \subseteq Setting /\ Watches # {}
  /\ MaxFaults \in Nat

VARIABLES
  stopAt, maxCycles, total,  \* how this watch was started
  left,       \* tasks until the target, per run
  next,       \* what the next task of a run is: ready, or what it waits for
  assembly,   \* "none", "ok" or "failed"
  pc,         \* a run's coroutine: "off", "queued", "loop", "slice" or "done"
  slices,     \* dispatch_slices
  reserved,   \* tasks reserved for the open slice
  got,        \* results of the open slice
  status,     \* the status a coroutine returned with
  busy,       \* the run brought results in this cycle
  remaining,  \* the cycle's task budget
  advanced,   \* history: tasks advanced in this cycle
  uncharged,  \* history: those among them whose slice raised
  watch,      \* run_watch: "asleep", "cycle", "returned" or "raised"
  cycles,
  verdict,    \* ProductionDispatchResult.status
  faults

vars == <<stopAt, maxCycles, total, left, next, assembly, pc, slices, reserved, got, status,
          busy, remaining, advanced, uncharged, watch, cycles, verdict, faults>>
settings == <<stopAt, maxCycles, total>>
durable == <<left, next>>
coroutine == <<pc, slices, reserved, got, status, busy>>
history == <<advanced, uncharged>>
loop == <<watch, cycles, verdict>>

(* "later" is a schedule or a person's decision. *)
Waits == {"ready", "later", "blocked", "interrupted"}
Fault == faults < MaxFaults /\ faults' = faults + 1

(* What an open slice may still advance. *)
Unused == [p \in Runs |-> reserved[p] - got[p]]

-----------------------------------------------------------------------------
(* _GlobalDispatchTaskBudget                                               *)

Limited == total > 0
ReserveFor(p) == IF Limited /\ remaining < MaxTasks THEN remaining ELSE MaxTasks

RefundsAll(p, consumed) ==
  remaining' = IF Limited THEN remaining + reserved[p] ELSE remaining

(* release_unused *)
ReleaseUnused(p, consumed) ==
  remaining' = IF Limited THEN remaining + reserved[p] - consumed ELSE remaining

-----------------------------------------------------------------------------
(* run_once                                                                *)

(* _ensure_assemblies: an assembly is tried once, its error is kept. *)
EnsureAssemblies(failing) ==
  assembly' = [p \in Runs |-> IF assembly[p] # "none" THEN assembly[p]
                              ELSE IF p \in failing THEN "failed" ELSE "ok"]

(* A project whose assembly failed returns without taking the semaphore. *)
Gather ==
  /\ pc' = [p \in Runs |-> IF assembly'[p] = "failed" THEN "done" ELSE "queued"]
  /\ status' = [p \in Runs |-> IF assembly'[p] = "failed" THEN "assembly_failed" ELSE "none"]
  /\ UNCHANGED <<slices, busy>>

CycleKeepsBudget(failing) ==
  /\ watch = "asleep" /\ watch' = "cycle"
  /\ failing \subseteq {p \in Runs : assembly[p] = "none"}
  /\ faults' = faults + Cardinality(failing) /\ faults' <= MaxFaults
  /\ EnsureAssemblies(failing)
  /\ Gather
  /\ advanced' = 0 /\ uncharged' = 0
  /\ UNCHANGED <<settings, durable, reserved, got, remaining, cycles, verdict>>

Cycle(failing) ==
  /\ watch = "asleep" /\ watch' = "cycle"
  /\ failing \subseteq {p \in Runs : assembly[p] = "none"}
  /\ faults' = faults + Cardinality(failing) /\ faults' <= MaxFaults
  /\ EnsureAssemblies(failing)
  /\ Gather
  /\ remaining' = total /\ advanced' = 0 /\ uncharged' = 0
  /\ UNCHANGED <<settings, durable, reserved, got, cycles, verdict>>

(* _run_project: the semaphore is first come, first served. *)
Entered == {p \in Runs : pc[p] \in {"loop", "slice"}}

Enter(p) ==
  /\ pc[p] = "queued"
  /\ \A q \in Runs : pc[q] = "queued" => p <= q
  /\ Cardinality(Entered) < Parallel
  /\ pc' = [pc EXCEPT ![p] = "loop"]
  /\ UNCHANGED <<settings, durable, assembly, slices, reserved, got, status, busy,
                 remaining, history, loop, faults>>

Finish(p, result) ==
  pc' = [pc EXCEPT ![p] = "done"] /\ status' = [status EXCEPT ![p] = result]

-----------------------------------------------------------------------------
(* VerticalCreativeRunner.run with the shared budget                       *)

AtBoundary(p) == stopAt[p] > 0 /\ left[p] <= stopAt[p]

SlicesSpent(p, n) == MaxSlices[p] > 0 /\ n >= MaxSlices[p]

(* VerticalCreativeRunner._status, after n slices *)
StatusOf(p, n) ==
  CASE left[p] = 0 -> "completed"
    [] left[p] > 0 /\ next[p] = "interrupted" -> "recovery_pending"
    [] left[p] > 0 /\ next[p] = "blocked" -> "blocked"
    [] left[p] > 0 /\ next[p] \notin {"interrupted", "blocked"} ->
         IF AtBoundary(p) \/ (next[p] = "ready" /\ SlicesSpent(p, n))
           THEN "yielded" ELSE "waiting"

(* The loop up to its next await: it ends, or opens a slice. *)
MayDispatch(p) ==
  /\ left[p] > 0 /\ ~AtBoundary(p) /\ next[p] = "ready"
  /\ ~SlicesSpent(p, slices[p])
  /\ ReserveFor(p) > 0

RunnerLoop(p) ==
  /\ pc[p] = "loop"
  /\ IF MayDispatch(p)
       THEN /\ reserved' = [reserved EXCEPT ![p] = ReserveFor(p)]
            /\ remaining' = IF Limited THEN remaining - ReserveFor(p) ELSE remaining
            /\ pc' = [pc EXCEPT ![p] = "slice"]
            /\ UNCHANGED status
       ELSE /\ Finish(p, StatusOf(p, slices[p]))
            /\ UNCHANGED <<reserved, remaining>>
  /\ UNCHANGED <<settings, durable, assembly, slices, got, busy, history, loop, faults>>

(* _recover_boundary settles a task in front of the loop, outside the      *)
(* budget: an acceptance, an interrupted commit, a budget review.          *)
Recover(p) ==
  /\ pc[p] = "loop" /\ left[p] > 0 /\ ~AtBoundary(p)
  /\ next[p] \in {"later", "interrupted"}
  /\ next' = [next EXCEPT ![p] = "ready"]
  /\ busy' = [busy EXCEPT ![p] = TRUE]
  /\ UNCHANGED <<settings, left, assembly, pc, slices, reserved, got, status, remaining,
                 history, loop, faults>>

(* The request, the recovery or a read of the tasks raises outside a       *)
(* slice: the run has no report, whatever its earlier slices brought.      *)
RunnerRaises(p) ==
  /\ pc[p] = "loop"
  /\ Fault
  /\ Finish(p, "failed")
  /\ busy' = [busy EXCEPT ![p] = FALSE]
  /\ UNCHANGED <<settings, durable, assembly, slices, reserved, got, remaining, history, loop>>

(* A task is advanced and brings a result: it is done, and the first task  *)
(* of the next stage is ready, scheduled for later or waits for a person;  *)
(* or without progress: it yields, is retried later or is blocked.         *)
AdvanceTask(p, then, done) ==
  /\ pc[p] = "slice" /\ next[p] = "ready" /\ left[p] > 0 /\ got[p] < reserved[p]
  /\ then = "blocked" => ~done
  /\ next' = [next EXCEPT ![p] = then]
  /\ IF done THEN left' = [left EXCEPT ![p] = @ - 1] /\ UNCHANGED faults
             ELSE UNCHANGED left /\ Fault
  /\ got' = [got EXCEPT ![p] = @ + 1] /\ advanced' = advanced + 1
  /\ UNCHANGED <<settings, assembly, pc, slices, reserved, status, busy, remaining,
                 uncharged, loop>>

(* run_bounded returns: it has max_tasks results or poll_one found nothing *)
(* it could claim.                                                         *)
SliceReturns(p) ==
  /\ pc[p] = "slice"
  /\ \/ (got[p] = reserved[p] \/ next[p] # "ready" \/ left[p] = 0) /\ UNCHANGED faults
     \/ got[p] < reserved[p] /\ next[p] = "ready" /\ left[p] > 0 /\ Fault
  /\ ReleaseUnused(p, got[p])
  /\ reserved' = [reserved EXCEPT ![p] = 0] /\ got' = [got EXCEPT ![p] = 0]
  /\ slices' = [slices EXCEPT ![p] = @ + 1]
  /\ busy' = [busy EXCEPT ![p] = @ \/ got[p] > 0]
  /\ IF got[p] > 0 THEN pc' = [pc EXCEPT ![p] = "loop"] /\ UNCHANGED status
                   ELSE Finish(p, StatusOf(p, slices'[p]))
  /\ UNCHANGED <<settings, durable, assembly, history, loop>>

(* An exception leaves the task claimed, or interrupts nothing; the slice  *)
(* is released as if nothing ran, tasks that did run included, and the run *)
(* has no report.                                                          *)
SliceRaises(p, then) ==
  /\ pc[p] = "slice" /\ got[p] < reserved[p]
  /\ Fault
  /\ \/ then \in {"ready", "interrupted"} /\ next[p] = "ready" /\ left[p] > 0
     \/ then = next[p] /\ ~(next[p] = "ready" /\ left[p] > 0)
  /\ next' = [next EXCEPT ![p] = then]
  /\ ReleaseUnused(p, 0)
  /\ uncharged' = uncharged + got[p]
  /\ reserved' = [reserved EXCEPT ![p] = 0] /\ got' = [got EXCEPT ![p] = 0]
  /\ Finish(p, "failed")
  /\ busy' = [busy EXCEPT ![p] = FALSE]
  /\ UNCHANGED <<settings, left, assembly, slices, advanced, loop>>

-----------------------------------------------------------------------------
(* _build_result, run_watch                                                *)

TerminalExceptAssembly == {"completed", "blocked", "failed"}
Terminal == {"completed", "blocked", "failed", "assembly_failed"}

Verdict ==
  LET all(S) == \A p \in Runs : status[p] \in S
      some(S) == \E p \in Runs : status[p] \in S IN
  CASE all({"completed"}) -> "completed"
    [] ~all({"completed"}) /\ all(Terminal) ->
         IF some({"failed", "assembly_failed"}) THEN "failed" ELSE "blocked"
    [] ~all(Terminal) /\ some({"recovery_pending"}) -> "recovery_pending"
    [] ~all(Terminal) /\ ~some({"recovery_pending"}) ->
         IF \E p \in Runs : busy[p] THEN "progressed" ELSE "waiting"

(* The end of a cycle; stopped is stop_event.is_set() at that point. *)
CycleEnds(stopped) ==
  /\ watch = "cycle"
  /\ \A p \in Runs : pc[p] = "done"
  /\ verdict' = Verdict
  /\ cycles' = IF maxCycles = 0 THEN 0 ELSE cycles + 1
  /\ watch' = IF \/ \A p \in Runs : status[p] \in Terminal
                 \/ maxCycles > 0 /\ cycles' >= maxCycles
                 \/ stopped
                THEN "returned" ELSE "asleep"
  /\ pc' = [p \in Runs |-> "off"] /\ status' = [p \in Runs |-> "none"]
  /\ slices' = [p \in Runs |-> 0] /\ busy' = [p \in Runs |-> FALSE]
  /\ UNCHANGED <<settings, durable, assembly, reserved, got, remaining, history, faults>>

(* _assert_admission_released finds a model lease that nobody gave back:   *)
(* run_once, and with it run_watch, ends with an exception.                *)
CycleRaises ==
  /\ watch = "cycle"
  /\ \A p \in Runs : pc[p] = "done"
  /\ Fault
  /\ watch' = "raised"
  /\ pc' = [p \in Runs |-> "off"]
  /\ UNCHANGED <<settings, durable, assembly, slices, reserved, got, status, busy,
                 remaining, history, cycles, verdict>>

(* A schedule comes due; a person decides, unblocks or reclaims. *)
Served(p) ==
  /\ next[p] # "ready"
  /\ next' = [next EXCEPT ![p] = "ready"]
  /\ UNCHANGED <<settings, left, assembly, coroutine, remaining, history, loop, faults>>

Init ==
  /\ \E w \in Watches : stopAt = w.stop /\ maxCycles = w.cycles /\ total = w.total
  /\ left = [p \in Runs |-> Work] /\ next = [p \in Runs |-> "ready"]
  /\ assembly = [p \in Runs |-> "none"]
  /\ pc = [p \in Runs |-> "off"] /\ status = [p \in Runs |-> "none"]
  /\ slices = [p \in Runs |-> 0] /\ reserved = [p \in Runs |-> 0]
  /\ got = [p \in Runs |-> 0] /\ busy = [p \in Runs |-> FALSE]
  /\ remaining = total /\ advanced = 0 /\ uncharged = 0
  /\ watch = "asleep" /\ cycles = 0 /\ verdict = "none"
  /\ faults = 0

Coroutine(p) ==
  \/ Enter(p) \/ RunnerLoop(p) \/ SliceReturns(p)
  \/ \E then \in Waits \ {"interrupted"}, done \in BOOLEAN : AdvanceTask(p, then, done)

Next ==
  \/ \E failing \in SUBSET Runs : Cycle(failing)
  \/ \E stopped \in BOOLEAN : CycleEnds(stopped)
  \/ CycleRaises
  \/ \E p \in Runs : Coroutine(p) \/ Recover(p) \/ RunnerRaises(p) \/ Served(p)
  \/ \E p \in Runs, then \in Waits : SliceRaises(p, then)

Spec == Init /\ [][Next]_vars
        /\ WF_vars(Cycle({})) /\ WF_vars(\E stopped \in BOOLEAN : CycleEnds(stopped))
        /\ \A p \in Runs : WF_vars(Coroutine(p)) /\ WF_vars(Served(p))

-----------------------------------------------------------------------------
(* Properties                                                              *)

(* Every variable has its type, and no more coroutines are inside the      *)
(* semaphore than project_parallelism allows.                              *)
TypeOK ==
  /\ [stop |-> stopAt, cycles |-> maxCycles, total |-> total] \in Watches
  /\ left \in [Runs -> 0 .. Work] /\ next \in [Runs -> Waits]
  /\ assembly \in [Runs -> {"none", "ok", "failed"}]
  /\ pc \in [Runs -> {"off", "queued", "loop", "slice", "done"}]
  /\ slices \in [Runs -> Nat]
  /\ reserved \in [Runs -> 0 .. MaxTasks] /\ got \in [Runs -> 0 .. MaxTasks]
  /\ status \in [Runs -> Terminal \cup {"none", "yielded", "waiting", "recovery_pending"}]
  /\ busy \in [Runs -> BOOLEAN]
  /\ {remaining, advanced, uncharged, cycles} \subseteq Nat
  /\ watch \in {"asleep", "cycle", "returned", "raised"}
  /\ faults \in 0 .. MaxFaults
  /\ Cardinality(Entered) <= Parallel

(* The shared budget agrees with the tasks that were really advanced, at   *)
(* every await of every coroutine: the tasks advanced in this cycle, those *)
(* open slices may still advance and those left add up to max_total_tasks, *)
(* so no interleaving of reserve and release_unused lets a cycle advance   *)
(* more, or loses a task of the budget.  The one exception is named: the   *)
(* tasks of a slice that raises are given back although they ran, and the  *)
(* cycle may go past its budget by just those.                             *)
BudgetConserved ==
  Limited => advanced + Tally(Unused, Runs) + remaining = total + uncharged

Ended == watch \in {"returned", "raised"}

(* A run that is turned away because others hold the budget, fails in one  *)
(* cycle or waits for a person is taken up again: it gets to its target or *)
(* its stop_after_chapter, unless the watch ended, its assembly failed or  *)
(* every run of some cycle ended in a terminal status.                     *)
NoStarvation ==
  \A p \in Runs : <>(left[p] <= stopAt[p] \/ assembly[p] = "failed" \/ Ended)

(* run_watch ends once the runs reach their targets; a run stopped at      *)
(* stop_after_chapter stays "yielded", which is not terminal, so such a    *)
(* watch is ended only by its stop_event or max_cycles.                    *)
WatchEnds == <>(Ended \/ (maxCycles = 0 /\ \E p \in Runs : AtBoundary(p)))
=============================================================================
