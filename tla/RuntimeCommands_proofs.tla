----------------------- MODULE RuntimeCommands_proofs -----------------------
(***************************************************************************)
(* Theorems about RuntimeCommands, for every set of tasks, dependency      *)
(* graph, budget and bound on attempts: the types first, then the          *)
(* attempts, the Canon, its receipts, the rows that follow a commit and    *)
(* the generations of the writer lane.  For these every command is reduced *)
(* to what it may do to one row, and the properties follow from that.      *)
(***************************************************************************)
EXTENDS RuntimeCommands, FiniteSetTheorems, TLAPS

-----------------------------------------------------------------------------
(* Rows                                                                    *)

(* Writing one well-typed task row keeps the table well typed. *)
LEMMA PutRow ==
  ASSUME NEW rows \in [Tasks -> TaskRows], NEW t \in Tasks, NEW row \in TaskRows
  PROVE  [rows EXCEPT ![t] = row] \in [Tasks -> TaskRows]
OBVIOUS

(* The same for the tables indexed by task and attempt. *)
LEMMA PutCell ==
  ASSUME NEW I, NEW S, NEW f \in [Tasks -> [I -> S]],
         NEW t \in Tasks, NEW i \in I, NEW cell \in S
  PROVE  [f EXCEPT ![t][i] = cell] \in [Tasks -> [I -> S]]
OBVIOUS

(* The columns of a task row. *)
LEMMA Columns ==
  ASSUME NEW row \in TaskRows
  PROVE  /\ row.status \in TaskStatuses
         /\ row.exists \in BOOLEAN
         /\ row.cur \in 0 .. MaxAttempts
         /\ row.count \in 0 .. MaxAttempts
         /\ row.rev \in Nat
         /\ row.budget \in Nat
         /\ row.granted \in Nat
         /\ row.gen \in Nat
         /\ row.basis \in Nat
         /\ row.paused \in BOOLEAN
         /\ row.cancel \in BOOLEAN
         /\ row.superseded \in BOOLEAN
         /\ row.cause \in BOOLEAN
BY DEF TaskRows

(* Bumping the revision keeps a row well typed. *)
LEMMA BumpedType ==
  ASSUME NEW row \in TaskRows
  PROVE  Bumped(row) \in TaskRows
BY DEF TaskRows, Bumped

(* A freshly created row is well typed. *)
LEMMA NewTaskType ==
  ASSUME NEW t \in Tasks, NEW basis \in Nat, NEW budget \in Nat
  PROVE  NewTask(t, basis, budget) \in TaskRows
BY ConstantsAssumption DEF NewTask, TaskRows, TaskStatuses, Inactive

(* Inserting successors keeps the table well typed. *)
LEMMA InsertType ==
  ASSUME NEW rows \in [Tasks -> TaskRows], NEW succ, NEW basis \in Nat
  PROVE  InsertSuccessors(rows, succ, basis) \in [Tasks -> TaskRows]
<1>1. ASSUME NEW x \in Tasks
      PROVE  NewTask(x, basis, InitialBudget) \in TaskRows
  BY <1>1, NewTaskType, ConstantsAssumption
<1>2. QED
  BY <1>1 DEF InsertSuccessors

(* What is left of a budget is a natural number. *)
LEMMA RemainingType ==
  ASSUME NEW row \in TaskRows, NEW failure
  PROVE  Remaining(row, failure) \in Nat
<1>1. row.budget \in Nat
  BY Columns
<1>2. QED
  BY <1>1 DEF Remaining, Max0

(* Ending an attempt gives a well-typed attempt row. *)
LEMMA EndedType ==
  ASSUME NEW row \in AttemptRows, NEW outcome \in Outcomes, NEW failure \in FailureClasses
  PROVE  Ended(row, outcome, failure) \in AttemptRows
BY Zenon DEF Ended, AttemptRows

(* An attempt that ended with an outcome is again a well-typed table. *)
LEMMA EndAttemptType ==
  ASSUME TypeOK, NEW t \in Tasks, NEW n \in Attempts,
         NEW outcome \in Outcomes, NEW failure \in FailureClasses
  PROVE  [att EXCEPT ![t][n] = Ended(@, outcome, failure)]
           \in [Tasks -> [Attempts -> AttemptRows]]
<1>1. Ended(att[t][n], outcome, failure) \in AttemptRows
  BY EndedType DEF TypeOK
<1>2. QED
  BY <1>1 DEF TypeOK

(* A worker's report changes only the phase of its fence. *)
LEMMA DoneWritingType ==
  ASSUME TypeOK, NEW t \in Tasks, NEW n \in Attempts, DoneWriting(t, n)
  PROVE  fence' \in [Tasks -> [Attempts -> Fences]]
<1> DEFINE cell == [fence[t][n] EXCEPT !.phase = "reported"]
<1>1. fence[t][n] \in Fences
  BY DEF TypeOK
<1>2. cell \in Fences
  BY <1>1, Zenon DEF Fences
<1>3. fence' = [fence EXCEPT ![t][n] = cell]
  BY DEF DoneWriting
<1> HIDE DEF cell
<1>4. QED
  BY <1>2, <1>3, PutCell DEF TypeOK

(* A terminal effect status and its log entry are well typed. *)
LEMMA EffectLogType ==
  ASSUME TypeOK, NEW t \in Tasks, NEW n \in Attempts, NEW status \in EffectTerminals
  PROVE  [effect EXCEPT ![t][n].status = status, ![t][n].logged = @ \cup {status}]
           \in [Tasks -> [Attempts -> EffectRows]]
<1> DEFINE one == [effect[t][n] EXCEPT !.status = status]
           both == [one EXCEPT !.logged = one.logged \cup {status}]
           first == [effect EXCEPT ![t][n].status = status]
<1>1. effect \in [Tasks -> [Attempts -> EffectRows]] /\ effect[t][n] \in EffectRows
  BY DEF TypeOK
<1>2. one \in EffectRows
  BY <1>1, Zenon DEF EffectRows
<1>3. both \in EffectRows
  <2> HIDE DEF one
  <2>1. one.logged \cup {status} \in SUBSET EffectTerminals
    BY <1>2 DEF EffectRows
  <2>2. QED
    BY <1>2, <2>1, Zenon DEF EffectRows
<1>4. first = [effect EXCEPT ![t][n] = one]
  OBVIOUS
<1>5. [effect EXCEPT ![t][n].status = status, ![t][n].logged = @ \cup {status}]
        = [first EXCEPT ![t][n] = both]
  BY <1>1
<1> HIDE DEF one, both, first
<1>6. first \in [Tasks -> [Attempts -> EffectRows]]
  BY <1>1, <1>2, <1>4, PutCell
<1>7. [first EXCEPT ![t][n] = both] \in [Tasks -> [Attempts -> EffectRows]]
  BY <1>3, <1>6, PutCell
<1>8. QED
  BY <1>5, <1>7, Zenon

(* The commit service keeps receipts and Canon well typed. *)
LEMMA CommitType ==
  ASSUME TypeOK, NEW t \in Tasks, NEW k \in 0 .. MaxAttempts, NEW base, NEW valid,
         CommitInSession(<<t, k>>, base, valid)
  PROVE  /\ receipt' \in [Tasks -> [0 .. MaxAttempts -> Receipts]]
         /\ canon' \in Seq([task : Tasks, att : 0 .. MaxAttempts])
<1> DEFINE result == CommitResult(<<t, k>>, base, valid)
<1>1. result \in Receipts
  <2>1. receipt[t][k] \in Receipts
    BY DEF TypeOK
  <2>2. QED
    BY <2>1 DEF CommitResult, Receipts
<1>2. receipt' = [receipt EXCEPT ![t][k] = result]
  BY DEF CommitInSession
<1>3. \/ canon' = canon
      \/ canon' = Append(canon, [task |-> t, att |-> k])
  BY DEF CommitInSession
<1> HIDE DEF result
<1>4. receipt' \in [Tasks -> [0 .. MaxAttempts -> Receipts]]
  BY <1>1, <1>2, PutCell DEF TypeOK
<1>5. canon' \in Seq([task : Tasks, att : 0 .. MaxAttempts])
  <2> DEFINE Commits == [task : Tasks, att : 0 .. MaxAttempts]
  <2>1. [task |-> t, att |-> k] \in Commits /\ canon \in Seq(Commits)
    BY DEF TypeOK
  <2> HIDE DEF Commits
  <2>2. Append(canon, [task |-> t, att |-> k]) \in Seq(Commits)
    BY <2>1
  <2>3. QED
    BY <1>3, <2>1, <2>2 DEF Commits
<1>6. QED
  BY <1>4, <1>5

(* The settle commands that end the task's current attempt. *)
LEMMA SettledRowType ==
  ASSUME TypeOK, NEW t \in Tasks, NEW status \in TaskStatuses, NEW budget \in Nat,
         NEW cause \in BOOLEAN, NEW paused \in BOOLEAN
  PROVE  /\ [Bumped(task[t]) EXCEPT !.status = status] \in TaskRows
         /\ [Bumped(task[t]) EXCEPT !.status = status, !.cur = 0] \in TaskRows
         /\ [Bumped(task[t]) EXCEPT !.status = status, !.cur = 0, !.cause = cause]
              \in TaskRows
         /\ [Bumped(task[t]) EXCEPT !.status = status, !.cur = 0, !.budget = budget,
                                    !.cause = cause] \in TaskRows
         /\ [Bumped(task[t]) EXCEPT !.status = status, !.cur = 0, !.budget = budget,
                                    !.paused = paused, !.cause = cause] \in TaskRows
<1> DEFINE row == Bumped(task[t])
<1>1. row \in TaskRows
  BY BumpedType DEF TypeOK
<1>2. 0 \in 0 .. MaxAttempts
  BY ConstantsAssumption
<1> HIDE DEF row
<1>3. /\ [row EXCEPT !.status = status] \in TaskRows
      /\ [row EXCEPT !.status = status, !.cur = 0] \in TaskRows
      /\ [row EXCEPT !.status = status, !.cur = 0, !.cause = cause] \in TaskRows
      /\ [row EXCEPT !.status = status, !.cur = 0, !.budget = budget,
                     !.cause = cause] \in TaskRows
      /\ [row EXCEPT !.status = status, !.cur = 0, !.budget = budget,
                     !.paused = paused, !.cause = cause] \in TaskRows
  BY <1>1, <1>2, Zenon DEF TaskRows
<1>4. QED
  BY <1>3, Zenon DEF row

-----------------------------------------------------------------------------
(* Type correctness                                                        *)

(* Every command keeps the tables well typed. *)
LEMMA TypeStep == TypeOK /\ [Next]_vars => TypeOK'
<1> SUFFICES ASSUME TypeOK, [Next]_vars PROVE TypeOK'
  OBVIOUS
<1> USE DEF Cur
<1>0. /\ task \in [Tasks -> TaskRows]
      /\ \A t \in Tasks : task[t] \in TaskRows
      /\ \A t \in Tasks : task[t].basis \in Nat /\ task[t].cur \in 0 .. MaxAttempts
  BY Columns DEF TypeOK
<1>1. ASSUME NEW t \in Tasks, NEW d \in Tasks, CreateTask(t, d) PROVE TypeOK'
  <2>1. NewTask(t, task[d].basis, InitialBudget) \in TaskRows
    BY <1>0, NewTaskType, ConstantsAssumption
  <2>2. QED
    BY <1>0, <1>1, <2>1, PutRow DEF CreateTask, TypeOK
<1>2. ASSUME NEW t \in Tasks, SupersedeTask(t) PROVE TypeOK'
  <2> DEFINE row == [Bumped(task[t]) EXCEPT !.status = "CANCELLED", !.superseded = TRUE,
                                            !.cause = TRUE]
  <2>1. row \in TaskRows
    <3>1. Bumped(task[t]) \in TaskRows /\ "CANCELLED" \in TaskStatuses
      BY <1>0, BumpedType DEF TaskStatuses
    <3>2. QED
      BY <3>1, Zenon DEF TaskRows
  <2>2. task' = [task EXCEPT ![t] = row]
    BY <1>2 DEF SupersedeTask
  <2> HIDE DEF row
  <2>3. QED
    BY <1>0, <1>2, <2>1, <2>2, PutRow DEF SupersedeTask, TypeOK
<1>3. ASSUME NEW t \in Tasks, NEW accepted \in BOOLEAN, NEW succ \in SuccessorSets(t),
             CompleteWaitingTask(t, accepted, succ)
      PROVE  TypeOK'
  <2> DEFINE status == IF accepted THEN "SUCCEEDED" ELSE "CANCELLED"
             row == [Bumped(task[t]) EXCEPT !.status = status]
             rows == [task EXCEPT ![t] = row]
  <2>1. status \in TaskStatuses
    BY DEF TaskStatuses
  <2>2. row \in TaskRows
    <3> HIDE DEF status
    <3>1. QED
      BY <2>1, SettledRowType, 0 \in Nat, TRUE \in BOOLEAN
  <2>3. task' = InsertSuccessors(rows, succ, task[t].basis)
    BY <1>3 DEF CompleteWaitingTask
  <2> HIDE DEF row
  <2>4. rows \in [Tasks -> TaskRows]
    BY <1>0, <2>2, PutRow
  <2> HIDE DEF rows
  <2>5. task' \in [Tasks -> TaskRows]
    BY <1>0, <2>3, <2>4, InsertType
  <2>6. QED
    BY <1>3, <2>5 DEF CompleteWaitingTask, TypeOK
<1>4. ASSUME NEW t \in Tasks, Claim(t) PROVE TypeOK'
  <2> DEFINE n == task[t].count + 1
             row == [Bumped(task[t]) EXCEPT !.status = "RUNNING", !.cur = n, !.count = n]
             hold == [rev |-> task[t].rev + 1, gen |-> task[t].gen, phase |-> "claimed"]
  <2>1. n \in 0 .. MaxAttempts /\ n \in Attempts
    <3>1. task[t].count \in 0 .. MaxAttempts /\ task[t].count < MaxAttempts
      BY <1>0, <1>4, Columns DEF Claim
    <3>2. QED
      BY <3>1, ConstantsAssumption DEF Attempts
  <2>2. row \in TaskRows
    <3>1. Bumped(task[t]) \in TaskRows /\ "RUNNING" \in TaskStatuses
      BY <1>0, BumpedType DEF TaskStatuses
    <3> HIDE DEF n
    <3>2. QED
      BY <2>1, <3>1, Zenon DEF TaskRows
  <2>3. hold \in Fences
    <3>1. task[t].rev \in Nat /\ task[t].gen \in Nat
      BY <1>0, Columns
    <3>2. QED
      BY <3>1 DEF Fences
  <2>4. [NoAttempt EXCEPT !.outcome = "open"] \in AttemptRows
    BY DEF NoAttempt, AttemptRows, FailureClasses
  <2>5. /\ task' = [task EXCEPT ![t] = row]
        /\ fence' = [fence EXCEPT ![t][n] = hold]
        /\ att' = [att EXCEPT ![t][n] = [NoAttempt EXCEPT !.outcome = "open"]]
        /\ UNCHANGED <<effect, lane, canon, receipt, used>>
    BY <1>4 DEF Claim
  <2> HIDE DEF n, row, hold
  <2>6. task' \in [Tasks -> TaskRows]
    BY <1>0, <2>2, <2>5, PutRow
  <2>7. fence' \in [Tasks -> [Attempts -> Fences]]
    BY <2>1, <2>3, <2>5, PutCell DEF TypeOK
  <2>8. att' \in [Tasks -> [Attempts -> AttemptRows]]
    BY <2>1, <2>4, <2>5, PutCell DEF TypeOK
  <2>9. QED
    BY <2>5, <2>6, <2>7, <2>8 DEF TypeOK
<1>5. ASSUME NEW t \in Tasks, NEW n \in Attempts, MarkStarted(t, n) PROVE TypeOK'
  <2> DEFINE cell == [att[t][n] EXCEPT !.started = TRUE]
  <2>1. cell \in AttemptRows
    <3>1. att[t][n] \in AttemptRows
      BY DEF TypeOK
    <3>2. QED
      BY <3>1, Zenon DEF AttemptRows
  <2>2. att' = [att EXCEPT ![t][n] = cell]
    BY <1>5 DEF MarkStarted
  <2> HIDE DEF cell
  <2>3. att' \in [Tasks -> [Attempts -> AttemptRows]]
    BY <2>1, <2>2, PutCell DEF TypeOK
  <2>4. QED
    BY <1>5, <2>3 DEF MarkStarted, TypeOK
<1>6. ASSUME NEW t \in Tasks, NEW n \in Attempts, Heartbeat(t, n) PROVE TypeOK'
  <2> DEFINE cell == [att[t][n] EXCEPT !.expired = FALSE]
  <2>1. cell \in AttemptRows
    <3>1. att[t][n] \in AttemptRows
      BY DEF TypeOK
    <3>2. QED
      BY <3>1, Zenon DEF AttemptRows
  <2>2. att' = [att EXCEPT ![t][n] = cell]
    BY <1>6 DEF Heartbeat
  <2> HIDE DEF cell
  <2>3. att' \in [Tasks -> [Attempts -> AttemptRows]]
    BY <2>1, <2>2, PutCell DEF TypeOK
  <2>4. QED
    BY <1>6, <2>3 DEF Heartbeat, TypeOK
<1>7. ASSUME NEW t \in Tasks, LeaseExpires(t) PROVE TypeOK'
  <2> DEFINE n == task[t].cur
             cell == [att[t][n] EXCEPT !.expired = TRUE]
  <2>1. n \in Attempts
    BY <1>0, <1>7, ConstantsAssumption DEF LeaseExpires, Attempts
  <2>2. cell \in AttemptRows
    <3>1. att[t][n] \in AttemptRows
      BY <2>1 DEF TypeOK
    <3>2. QED
      BY <3>1, Zenon DEF AttemptRows
  <2>3. att' = [att EXCEPT ![t][n] = cell]
    BY <1>7 DEF LeaseExpires
  <2> HIDE DEF cell, n
  <2>4. att' \in [Tasks -> [Attempts -> AttemptRows]]
    BY <2>1, <2>2, <2>3, PutCell DEF TypeOK
  <2>5. QED
    BY <1>7, <2>4 DEF LeaseExpires, TypeOK
<1>8. ASSUME NEW t \in Tasks, NEW id \in CommandIds, SuspectExpiredAttempt(t, id)
      PROVE  TypeOK'
  <2>1. [Bumped(task[t]) EXCEPT !.status = "RECOVERY_PENDING"] \in TaskRows
    BY SettledRowType, "RECOVERY_PENDING" \in TaskStatuses, 0 \in Nat, TRUE \in BOOLEAN
       DEF TaskStatuses
  <2>2. task' \in [Tasks -> TaskRows]
    BY <1>0, <1>8, <2>1, PutRow DEF SuspectExpiredAttempt
  <2>3. QED
    BY <1>8, <2>2 DEF SuspectExpiredAttempt, TypeOK, Log
<1>9. ASSUME NEW t \in Tasks, NEW id \in CommandIds, ReclaimExpiredAttempt(t, id)
      PROVE  TypeOK'
  <2>1. [Bumped(task[t]) EXCEPT !.status = "WAITING_RETRY", !.cur = 0] \in TaskRows
    BY SettledRowType, "WAITING_RETRY" \in TaskStatuses, 0 \in Nat, TRUE \in BOOLEAN
       DEF TaskStatuses, Inactive
  <2>2. task' \in [Tasks -> TaskRows]
    BY <1>0, <1>9, <2>1, PutRow DEF ReclaimExpiredAttempt
  <2>3. task[t].cur \in Attempts
    BY <1>0, <1>9, ConstantsAssumption DEF ReclaimExpiredAttempt, Attempts
  <2>4. att' \in [Tasks -> [Attempts -> AttemptRows]]
    BY <1>9, <2>3, EndAttemptType, "SUSPENDED" \in Outcomes, "free" \in FailureClasses
       DEF ReclaimExpiredAttempt, Outcomes, FailureClasses
  <2>5. QED
    BY <1>9, <2>2, <2>4 DEF ReclaimExpiredAttempt, TypeOK, Log
<1>10. ASSUME NEW t \in Tasks, NEW n \in Attempts, NEW terminal \in TaskStatuses,
              NEW failure \in FailureClasses, NEW succ \in SuccessorSets(t),
              SettleAttempt(t, n, terminal, failure, succ)
       PROVE  TypeOK'
  <2> DEFINE status == SettledStatus(t, terminal, failure)
             budget == Remaining(task[t], failure)
             cause == task[t].cause \/ (status = "BLOCKED" /\ failure # "none")
             row == [Bumped(task[t]) EXCEPT !.status = status, !.cur = 0,
                                            !.budget = budget, !.cause = cause]
             rows == [task EXCEPT ![t] = row]
  <2>1. status \in TaskStatuses
    BY DEF SettledStatus, TaskStatuses, Inactive
  <2>2. budget \in Nat
    BY <1>0, RemainingType
  <2>3. cause \in BOOLEAN
    BY <1>0, Columns
  <2>4. row \in TaskRows
    <3> HIDE DEF status, budget, cause
    <3>1. QED
      BY <2>1, <2>2, <2>3, SettledRowType, TRUE \in BOOLEAN
  <2>5. task' = InsertSuccessors(rows, succ, task[t].basis)
    BY <1>10 DEF SettleAttempt
  <2> HIDE DEF row
  <2>6. rows \in [Tasks -> TaskRows]
    BY <1>0, <2>4, PutRow
  <2> HIDE DEF rows
  <2>7. task' \in [Tasks -> TaskRows]
    BY <1>0, <2>5, <2>6, InsertType
  <2>8. PICK outcome \in Outcomes : att' = [att EXCEPT ![t][n] = Ended(@, outcome, failure)]
    BY <1>10 DEF SettleAttempt, SettleOutcomes, Outcomes
  <2>9. att' \in [Tasks -> [Attempts -> AttemptRows]]
    BY <1>10, <2>8, EndAttemptType
  <2>10. fence' \in [Tasks -> [Attempts -> Fences]]
    BY <1>10, DoneWritingType DEF SettleAttempt
  <2>11. QED
    BY <1>10, <2>7, <2>9, <2>10 DEF SettleAttempt, TypeOK
<1>11. ASSUME NEW t \in Tasks, NEW n \in Attempts, NEW m \in Tasks,
              SettleGapAndCreateMaintenance(t, n, m)
       PROVE  TypeOK'
  <2> DEFINE row == [Bumped(task[t]) EXCEPT !.status = "BLOCKED", !.cur = 0, !.cause = TRUE]
             rows == [task EXCEPT ![t] = row]
  <2>1. row \in TaskRows
    BY SettledRowType, "BLOCKED" \in TaskStatuses, 0 \in Nat, TRUE \in BOOLEAN
       DEF TaskStatuses, Inactive
  <2>2. NewTask(m, task[t].basis, InitialBudget) \in TaskRows
    BY <1>0, NewTaskType, ConstantsAssumption
  <2>3. task' = [rows EXCEPT ![m] = NewTask(m, task[t].basis, InitialBudget)]
    BY <1>11 DEF SettleGapAndCreateMaintenance
  <2> HIDE DEF row
  <2>4. rows \in [Tasks -> TaskRows]
    BY <1>0, <2>1, PutRow
  <2> HIDE DEF rows
  <2>5. task' \in [Tasks -> TaskRows]
    BY <2>2, <2>3, <2>4, PutRow
  <2>6. att' \in [Tasks -> [Attempts -> AttemptRows]]
    BY <1>11, EndAttemptType, "FAILED" \in Outcomes, "free" \in FailureClasses
       DEF SettleGapAndCreateMaintenance, Outcomes, FailureClasses
  <2>7. QED
    BY <1>11, <2>5, <2>6 DEF SettleGapAndCreateMaintenance, TypeOK
<1>12. ASSUME NEW m \in Tasks, NEW n \in Attempts, NEW r \in Tasks,
              SettleMaintenanceAndRetryPlanner(m, n, r)
       PROVE  TypeOK'
  <2> DEFINE p == PlannerOf[m]
             mrow == [Bumped(task[m]) EXCEPT !.status = "SUCCEEDED", !.cur = 0,
                                             !.cause = FALSE]
             prow == [Bumped(task[p]) EXCEPT !.status = "CANCELLED", !.superseded = TRUE,
                                             !.cause = TRUE]
             rrow == [NewTask(r, CurrentCommit, task[p].budget) EXCEPT
                        !.paused = task[p].paused, !.cancel = task[p].cancel,
                        !.gen = task[p].gen]
             one == [task EXCEPT ![m] = mrow]
             two == [one EXCEPT ![p] = prow]
  <2>1. p \in Tasks
    BY ConstantsAssumption
  <2>2. mrow \in TaskRows
    BY SettledRowType, "SUCCEEDED" \in TaskStatuses, 0 \in Nat, FALSE \in BOOLEAN
       DEF TaskStatuses
  <2>3. prow \in TaskRows
    <3>1. Bumped(task[p]) \in TaskRows /\ "CANCELLED" \in TaskStatuses
      BY <1>0, <2>1, BumpedType DEF TaskStatuses
    <3>2. QED
      BY <3>1, Zenon DEF TaskRows
  <2>4. rrow \in TaskRows
    <3> HIDE DEF p
    <3>1. /\ task[p].budget \in Nat
          /\ task[p].paused \in BOOLEAN
          /\ task[p].cancel \in BOOLEAN
          /\ task[p].gen \in Nat
      BY <1>0, <2>1, Columns
    <3>2. NewTask(r, CurrentCommit, task[p].budget) \in TaskRows
      BY <3>1, NewTaskType DEF TypeOK, CurrentCommit
    <3>3. QED
      BY <3>1, <3>2, Zenon DEF TaskRows
  <2>5. task' = [two EXCEPT ![r] = rrow]
    BY <1>12 DEF SettleMaintenanceAndRetryPlanner
  <2> HIDE DEF p, mrow, prow, rrow
  <2>6. one \in [Tasks -> TaskRows]
    BY <1>0, <2>2, PutRow
  <2>7. two \in [Tasks -> TaskRows]
    BY <2>1, <2>3, <2>6, PutRow
  <2> HIDE DEF one, two
  <2>8. task' \in [Tasks -> TaskRows]
    BY <2>4, <2>5, <2>7, PutRow
  <2>9. att' \in [Tasks -> [Attempts -> AttemptRows]]
    BY <1>12, EndAttemptType, "SUCCEEDED" \in Outcomes, "none" \in FailureClasses
       DEF SettleMaintenanceAndRetryPlanner, Outcomes, FailureClasses
  <2>10. fence' \in [Tasks -> [Attempts -> Fences]]
    BY <1>12, DoneWritingType DEF SettleMaintenanceAndRetryPlanner
  <2>11. QED
    BY <1>12, <2>8, <2>9, <2>10 DEF SettleMaintenanceAndRetryPlanner, TypeOK
<1>13. ASSUME NEW t \in Tasks, NEW n \in Attempts, RecordEffectRequested(t, n)
       PROVE  TypeOK'
  <2> DEFINE cell == [effect[t][n] EXCEPT !.status = "REQUESTED"]
  <2>1. cell \in EffectRows
    <3>1. effect[t][n] \in EffectRows
      BY DEF TypeOK
    <3>2. QED
      BY <3>1, Zenon DEF EffectRows
  <2>2. effect' = [effect EXCEPT ![t][n] = cell]
    BY <1>13 DEF RecordEffectRequested
  <2> HIDE DEF cell
  <2>3. effect' \in [Tasks -> [Attempts -> EffectRows]]
    BY <2>1, <2>2, PutCell DEF TypeOK
  <2>4. QED
    BY <1>13, <2>3 DEF RecordEffectRequested, TypeOK
<1>14. ASSUME NEW t \in Tasks, NEW n \in Attempts,
              RecordEffectTerminal(t, n, "COMPENSATED")
       PROVE  TypeOK'
  <2>1. effect' \in [Tasks -> [Attempts -> EffectRows]]
    BY <1>14, EffectLogType, "COMPENSATED" \in EffectTerminals
       DEF RecordEffectTerminal, EffectTerminals
  <2>2. fence' \in [Tasks -> [Attempts -> Fences]]
    BY <1>14, DoneWritingType DEF RecordEffectTerminal
  <2>3. QED
    BY <1>14, <2>1, <2>2 DEF RecordEffectTerminal, TypeOK
<1>15. ASSUME NEW t \in Tasks, NEW n \in Attempts, NEW status \in EffectTerminals,
              NEW id \in CommandIds, ReconcileEffect(t, n, status, id)
       PROVE  TypeOK'
  <2> DEFINE cell == [effect[t][n] EXCEPT !.status = status]
  <2>1. cell \in EffectRows
    <3>1. effect[t][n] \in EffectRows
      BY DEF TypeOK
    <3>2. QED
      BY <3>1, Zenon DEF EffectRows
  <2>2. effect' = [effect EXCEPT ![t][n] = cell]
    BY <1>15 DEF ReconcileEffect
  <2> HIDE DEF cell
  <2>3. effect' \in [Tasks -> [Attempts -> EffectRows]]
    BY <2>1, <2>2, PutCell DEF TypeOK
  <2>4. QED
    BY <1>15, <2>3 DEF ReconcileEffect, TypeOK, Log
<1>16. ASSUME NEW t \in Tasks, NEW terminal \in TaskStatuses,
              NEW failure \in {"consuming", "free"}, NEW id \in CommandIds,
              OperatorReconcileAttempt(t, terminal, failure, id)
       PROVE  TypeOK'
  <2> DEFINE status == IF terminal = "WAITING_RETRY" /\ Remaining(task[t], failure) = 0
                         THEN "BUDGET_REVIEW" ELSE terminal
             outcome == CASE terminal = "CANCELLED" -> "CANCELLED"
                          [] terminal = "BLOCKED" -> "FAILED"
                          [] OTHER -> "SUSPENDED"
             budget == Remaining(task[t], failure)
             paused == (status = "CANCELLED")
             cause == task[t].cause \/ status = "BLOCKED"
             row == [Bumped(task[t]) EXCEPT !.status = status, !.cur = 0, !.budget = budget,
                                            !.paused = paused, !.cause = cause]
  <2>1. status \in TaskStatuses
    BY DEF TaskStatuses, Inactive
  <2>2. budget \in Nat
    BY <1>0, RemainingType
  <2>3. paused \in BOOLEAN /\ cause \in BOOLEAN
    BY <1>0, Columns
  <2>4. row \in TaskRows
    <3> HIDE DEF status, budget, paused, cause
    <3>1. QED
      BY <2>1, <2>2, <2>3, SettledRowType
  <2>5. task' = [task EXCEPT ![t] = row]
    BY <1>16 DEF OperatorReconcileAttempt
  <2>6. task[t].cur \in Attempts
    BY <1>0, <1>16, ConstantsAssumption DEF OperatorReconcileAttempt, Attempts
  <2>7. outcome \in Outcomes /\ failure \in FailureClasses
    BY DEF Outcomes, FailureClasses
  <2>8. att' = [att EXCEPT ![t][task[t].cur] = Ended(@, outcome, failure)]
    BY <1>16 DEF OperatorReconcileAttempt
  <2> HIDE DEF row, outcome
  <2>9. task' \in [Tasks -> TaskRows]
    BY <1>0, <2>4, <2>5, PutRow
  <2>10. att' \in [Tasks -> [Attempts -> AttemptRows]]
    BY <2>6, <2>7, <2>8, EndAttemptType
  <2>11. QED
    BY <1>16, <2>9, <2>10 DEF OperatorReconcileAttempt, TypeOK, Log
<1>17. ASSUME NEW t \in Tasks, NEW id \in CommandIds, MarkRecoveryPending(t, id)
       PROVE  TypeOK'
  <2>1. [Bumped(task[t]) EXCEPT !.status = "RECOVERY_PENDING"] \in TaskRows
    BY SettledRowType, "RECOVERY_PENDING" \in TaskStatuses, 0 \in Nat, TRUE \in BOOLEAN
       DEF TaskStatuses
  <2>2. task' \in [Tasks -> TaskRows]
    BY <1>0, <1>17, <2>1, PutRow DEF MarkRecoveryPending
  <2>3. QED
    BY <1>17, <2>2 DEF MarkRecoveryPending, TypeOK, Log
<1>18. ASSUME NEW t \in Tasks, NEW action \in {"pause", "cancel", "retry"},
              NEW id \in CommandIds, Control(t, action, id)
       PROVE  TypeOK'
  <2> DEFINE status == CASE action = "retry" -> ReadyOrReview(t)
                         [] action = "pause" /\ Cur(t) = 0 -> "PENDING"
                         [] action = "pause" /\ Cur(t) # 0 -> task[t].status
                         [] action = "cancel" /\ Cur(t) = 0 -> "CANCELLED"
                         [] action = "cancel" /\ Cur(t) # 0 -> "RECOVERY_PENDING"
             paused == action \in {"pause", "cancel"}
             cancel == (action = "cancel")
             gen == IF action = "retry" THEN GenAfterRelease(t) ELSE task[t].gen
             row == [Bumped(task[t]) EXCEPT !.status = status, !.paused = paused,
                                            !.cancel = cancel, !.gen = gen]
  <2>1. task[t].status \in TaskStatuses /\ task[t].gen \in Nat
    BY <1>0, Columns
  <2>2. status \in TaskStatuses
    BY <2>1 DEF TaskStatuses, Inactive, ReadyOrReview
  <2>3. gen \in Nat /\ paused \in BOOLEAN /\ cancel \in BOOLEAN
    BY <2>1 DEF GenAfterRelease
  <2>4. Bumped(task[t]) \in TaskRows
    BY <1>0, BumpedType
  <2>5. task' = [task EXCEPT ![t] = row]
    BY <1>18 DEF Control
  <2>6. row \in TaskRows
    <3> HIDE DEF status, gen, paused, cancel
    <3>1. QED
      BY <2>2, <2>3, <2>4, Zenon DEF TaskRows
  <2> HIDE DEF row
  <2>7. Log(id) /\ UNCHANGED <<att, fence, effect, lane, canon, receipt>>
    BY <1>18, Zenon DEF Control
  <2>8. QED
    BY <1>0, <2>5, <2>6, <2>7, PutRow DEF TypeOK, Log
<1>19. ASSUME NEW t \in Tasks, NEW k \in 0 .. InitialBudget, NEW id \in CommandIds,
              ExtendBudget(t, k, id)
       PROVE  TypeOK'
  <2> DEFINE budget == task[t].budget + k
             granted == task[t].granted + k
             row == [Bumped(task[t]) EXCEPT !.status = "READY", !.budget = budget,
                                            !.granted = granted]
  <2>1. budget \in Nat /\ granted \in Nat
    <3>1. task[t].budget \in Nat /\ task[t].granted \in Nat /\ k \in Nat
      BY <1>0, Columns, ConstantsAssumption
    <3>2. QED
      BY <3>1
  <2>2. Bumped(task[t]) \in TaskRows /\ "READY" \in TaskStatuses
    BY <1>0, BumpedType DEF TaskStatuses, Inactive
  <2>3. task' = [task EXCEPT ![t] = row]
    BY <1>19 DEF ExtendBudget
  <2>4. row \in TaskRows
    <3> HIDE DEF budget, granted
    <3>1. QED
      BY <2>1, <2>2, Zenon DEF TaskRows
  <2> HIDE DEF row
  <2>5. QED
    BY <1>0, <1>19, <2>3, <2>4, PutRow DEF ExtendBudget, TypeOK, Log
<1>20. ASSUME NEW t \in Tasks, NEW id \in CommandIds, Unblock(t, id) PROVE TypeOK'
  <2> DEFINE row == [Bumped(task[t]) EXCEPT !.status = ReadyOrReview(t), !.cause = FALSE,
                                            !.gen = GenAfterRelease(t)]
  <2>1. ReadyOrReview(t) \in TaskStatuses
    BY DEF ReadyOrReview, TaskStatuses, Inactive
  <2>2. GenAfterRelease(t) \in Nat
    BY <1>0, Columns DEF GenAfterRelease
  <2>3. Bumped(task[t]) \in TaskRows
    BY <1>0, BumpedType
  <2>4. row \in TaskRows
    BY <2>1, <2>2, <2>3, Zenon DEF TaskRows
  <2>5. task' = [task EXCEPT ![t] = row]
    BY <1>20 DEF Unblock
  <2> HIDE DEF row
  <2>6. QED
    BY <1>0, <1>20, <2>4, <2>5, PutRow DEF Unblock, TypeOK, Log
<1>21. ASSUME NEW t \in Tasks, NEW id \in CommandIds, Resume(t, id) PROVE TypeOK'
  <2> DEFINE row == [Bumped(task[t]) EXCEPT !.status = ReadyOrReview(t), !.paused = FALSE,
                                            !.cancel = FALSE]
  <2>1. ReadyOrReview(t) \in TaskStatuses
    BY DEF ReadyOrReview, TaskStatuses, Inactive
  <2>2. Bumped(task[t]) \in TaskRows
    BY <1>0, BumpedType
  <2>3. row \in TaskRows
    BY <2>1, <2>2, Zenon DEF TaskRows
  <2>4. task' = [task EXCEPT ![t] = row]
    BY <1>21 DEF Resume
  <2> HIDE DEF row
  <2>5. QED
    BY <1>0, <1>21, <2>3, <2>4, PutRow DEF Resume, TypeOK, Log
<1>22. ASSUME NEW t \in Tasks, NEW n \in Attempts, ClaimWriterLane(t, n) PROVE TypeOK'
  <2> DEFINE row == [Bumped(task[t]) EXCEPT !.gen = NextGeneration]
             one == [fence[t][n] EXCEPT !.gen = NextGeneration]
             both == [one EXCEPT !.phase = "writing"]
             first == [fence EXCEPT ![t][n] = one]
  <2>1. NextGeneration \in Nat
    BY DEF TypeOK, NextGeneration
  <2>2. row \in TaskRows
    <3>1. Bumped(task[t]) \in TaskRows
      BY <1>0, BumpedType
    <3>2. QED
      BY <2>1, <3>1, Zenon DEF TaskRows
  <2>3. one \in Fences
    <3>1. fence[t][n] \in Fences
      BY DEF TypeOK
    <3>2. QED
      BY <2>1, <3>1, Zenon DEF Fences
  <2>4. both \in Fences
    <3> HIDE DEF one
    <3>1. QED
      BY <2>3, Zenon DEF Fences
  <2>5. fence' = [first EXCEPT ![t][n] = both]
    BY <1>22 DEF ClaimWriterLane, TypeOK
  <2>6. task' = [task EXCEPT ![t] = row]
    BY <1>22 DEF ClaimWriterLane
  <2>7. lane' \in [task : Tasks \cup {NoTask}, att : 0 .. MaxAttempts, gen : Nat]
    BY <1>22, <2>1, ConstantsAssumption DEF ClaimWriterLane, Attempts
  <2> HIDE DEF row, one, both
  <2>8. first \in [Tasks -> [Attempts -> Fences]]
    BY <2>3, PutCell DEF TypeOK
  <2> HIDE DEF first
  <2>9. fence' \in [Tasks -> [Attempts -> Fences]]
    BY <2>4, <2>5, <2>8, PutCell
  <2>10. task' \in [Tasks -> TaskRows]
    BY <1>0, <2>2, <2>6, PutRow
  <2>11. QED
    BY <1>22, <2>7, <2>9, <2>10 DEF ClaimWriterLane, TypeOK
<1>23. ASSUME NEW t \in Tasks, NEW n \in Attempts, NEW valid \in BOOLEAN,
              NEW succ \in SuccessorSets(t), CommitAcceptedCandidate(t, n, valid, succ)
       PROVE  TypeOK'
  <2> DEFINE result == CommitResult(<<t, 0>>, task[t].basis, valid)
             failure == IF result = "ACCEPTED" THEN "none" ELSE "consuming"
             status == IF result = "ACCEPTED" THEN "SUCCEEDED" ELSE "BLOCKED"
             outcome == IF result = "ACCEPTED" THEN "SUCCEEDED" ELSE "FAILED"
             budget == Remaining(task[t], failure)
             cause == task[t].cause \/ result # "ACCEPTED"
             row == [Bumped(task[t]) EXCEPT !.status = status, !.cur = 0,
                                            !.budget = budget, !.cause = cause]
             rows == [task EXCEPT ![t] = row]
  <2>1. status \in TaskStatuses /\ outcome \in Outcomes /\ failure \in FailureClasses
    BY DEF TaskStatuses, Inactive, Outcomes, FailureClasses
  <2>2. budget \in Nat
    BY <1>0, RemainingType
  <2>3. cause \in BOOLEAN
    BY <1>0, Columns
  <2>4. row \in TaskRows
    <3> HIDE DEF status, budget, cause
    <3>1. QED
      BY <2>1, <2>2, <2>3, SettledRowType, TRUE \in BOOLEAN
  <2>5. /\ task' = InsertSuccessors(rows, succ, CommittedBasis(t))
        /\ att' = [att EXCEPT ![t][n] = Ended(@, outcome, failure)]
        /\ CommitInSession(<<t, 0>>, task[t].basis, valid)
        /\ DoneWriting(t, n)
        /\ UNCHANGED <<effect, lane, used>>
    BY <1>23 DEF CommitAcceptedCandidate
  <2> HIDE DEF row, outcome, failure
  <2>6. rows \in [Tasks -> TaskRows]
    BY <1>0, <2>4, PutRow
  <2> HIDE DEF rows
  <2>7. CommittedBasis(t) \in Nat
    BY <1>0 DEF CommittedBasis
  <2>8. task' \in [Tasks -> TaskRows]
    BY <2>5, <2>6, <2>7, InsertType
  <2>9. att' \in [Tasks -> [Attempts -> AttemptRows]]
    BY <2>1, <2>5, EndAttemptType
  <2>10. fence' \in [Tasks -> [Attempts -> Fences]]
    BY <2>5, DoneWritingType
  <2>11. /\ receipt' \in [Tasks -> [0 .. MaxAttempts -> Receipts]]
         /\ canon' \in Seq([task : Tasks, att : 0 .. MaxAttempts])
    <3>1. 0 \in 0 .. MaxAttempts
      BY ConstantsAssumption
    <3>2. QED
      BY <2>5, <3>1, CommitType
  <2>12. QED
    BY <2>5, <2>8, <2>9, <2>10, <2>11 DEF TypeOK
<1>24. ASSUME NEW t \in Tasks, NEW n \in Attempts, NEW valid \in BOOLEAN,
              Stage2WCommit(t, n, valid)
       PROVE  TypeOK'
  <2> DEFINE k == IF KindOf[t] = "MAINTENANCE" THEN 0 ELSE n
  <2>1. k \in 0 .. MaxAttempts
    BY ConstantsAssumption DEF Attempts
  <2>2. CommitInSession(<<t, k>>, task[t].basis, valid)
    BY <1>24 DEF Stage2WCommit, Stage2WKey
  <2> HIDE DEF k
  <2>3. /\ receipt' \in [Tasks -> [0 .. MaxAttempts -> Receipts]]
        /\ canon' \in Seq([task : Tasks, att : 0 .. MaxAttempts])
    BY <2>1, <2>2, CommitType
  <2>4. QED
    BY <1>24, <2>3 DEF Stage2WCommit, TypeOK
<1>25. ASSUME NEW t \in Tasks, NEW n \in Attempts, NEW k \in 0 .. MaxAttempts, NEW succ,
              SettleExternalCommit(t, n, k, succ)
       PROVE  /\ task' \in [Tasks -> TaskRows]
              /\ att' \in [Tasks -> [Attempts -> AttemptRows]]
              /\ effect' \in [Tasks -> [Attempts -> EffectRows]]
  <2> DEFINE row == [Bumped(task[t]) EXCEPT !.status = "SUCCEEDED", !.cur = 0]
             rows == [task EXCEPT ![t] = row]
  <2>1. row \in TaskRows
    BY SettledRowType, "SUCCEEDED" \in TaskStatuses, 0 \in Nat, TRUE \in BOOLEAN
       DEF TaskStatuses
  <2>2. task' = InsertSuccessors(rows, succ, CommittedBasis(t))
    BY <1>25 DEF SettleExternalCommit
  <2> HIDE DEF row
  <2>3. rows \in [Tasks -> TaskRows]
    BY <1>0, <2>1, PutRow
  <2> HIDE DEF rows
  <2>4. CommittedBasis(t) \in Nat
    BY <1>0 DEF CommittedBasis
  <2>5. task' \in [Tasks -> TaskRows]
    BY <2>2, <2>3, <2>4, InsertType
  <2>6. att' \in [Tasks -> [Attempts -> AttemptRows]]
    BY <1>25, EndAttemptType, "SUCCEEDED" \in Outcomes, "none" \in FailureClasses
       DEF SettleExternalCommit, Outcomes, FailureClasses
  <2>7. effect' \in [Tasks -> [Attempts -> EffectRows]]
    BY <1>25, EffectLogType, "COMPLETED" \in EffectTerminals
       DEF SettleExternalCommit, EffectTerminals
  <2>8. QED
    BY <2>5, <2>6, <2>7
<1>26. ASSUME NEW t \in Tasks, NEW n \in Attempts, NEW succ, RecordExternalCommit(t, n, succ)
       PROVE  TypeOK'
  <2>1. SettleExternalCommit(t, n, n, succ) /\ n \in 0 .. MaxAttempts
    BY <1>26, ConstantsAssumption DEF RecordExternalCommit, Attempts
  <2>2. fence' \in [Tasks -> [Attempts -> Fences]]
    BY <1>26, DoneWritingType DEF RecordExternalCommit
  <2>3. QED
    BY <1>25, <2>1, <2>2 DEF SettleExternalCommit, TypeOK
<1>27. ASSUME NEW t \in Tasks, NEW succ, ReconcileExternalCommit(t, succ) PROVE TypeOK'
  <2>1. /\ task[t].cur \in Attempts /\ 1 \in 0 .. MaxAttempts
        /\ SettleExternalCommit(t, task[t].cur, 1, succ)
        /\ UNCHANGED fence
    BY <1>0, <1>27, ConstantsAssumption DEF ReconcileExternalCommit, Attempts
  <2>2. QED
    BY <1>25, <2>1 DEF SettleExternalCommit, TypeOK
<1>28. CASE UNCHANGED vars
  BY <1>28 DEF vars, TypeOK
<1>29. QED
  BY <1>1, <1>2, <1>3, <1>4, <1>5, <1>6, <1>7, <1>8, <1>9, <1>10, <1>11, <1>12, <1>13,
     <1>14, <1>15, <1>16, <1>17, <1>18, <1>19, <1>20, <1>21, <1>22, <1>23, <1>24, <1>26,
     <1>27, <1>28 DEF Next, RuntimeStep, WorkerStep, OperatorStep

(* The initial tables are well typed. *)
LEMMA TypeInit == Init => TypeOK
<1> SUFFICES ASSUME Init PROVE TypeOK
  OBVIOUS
<1>1. \A t \in Tasks : NewTask(t, 0, InitialBudget) \in TaskRows
  BY NewTaskType, ConstantsAssumption
<1>2. \A t \in Tasks : AbsentTask(t) \in TaskRows
  <2> TAKE t \in Tasks
  <2>1. NewTask(t, 0, 0) \in TaskRows
    BY NewTaskType
  <2>2. "PENDING" \in TaskStatuses
    BY DEF TaskStatuses, Inactive
  <2>3. QED
    BY <2>1, <2>2, Zenon DEF AbsentTask, TaskRows
<1>3. task \in [Tasks -> TaskRows]
  BY <1>1, <1>2 DEF Init
<1>4. NoAttempt \in AttemptRows
  BY DEF NoAttempt, AttemptRows, FailureClasses
<1>5. QED
  BY <1>3, <1>4, ConstantsAssumption
     DEF Init, TypeOK, Fences, EffectRows, EffectTerminals, Receipts

(* Type correctness: no command of a worker, an operator or the recovery   *)
(* ever leaves a malformed row, whatever it is called with and whenever.   *)
THEOREM TypeCorrect == Spec => []TypeOK
BY TypeInit, TypeStep, PTL DEF Spec

-----------------------------------------------------------------------------
(* The inductive invariant                                                 *)

(* A row that does not exist yet has no attempts.  Creating a row leaves   *)
(* the attempts alone, so AttemptDiscipline is not inductive without it.   *)
AbsentUntouched == \A t \in Tasks : ~task[t].exists => task[t].count = 0

AttemptInv == TypeOK /\ AttemptDiscipline /\ AbsentUntouched /\ SupersededNeverRuns

-----------------------------------------------------------------------------
(* The six moves of a row                                                  *)

(* No attempt of x changes its outcome, and a settled one nothing at all. *)
AttemptsKept(x) ==
  \A n \in Attempts :
    /\ att'[x][n].outcome = att[x][n].outcome
    /\ att[x][n].outcome \in Outcomes => att'[x][n] = att[x][n]

Untouched(x) == task'[x] = task[x] /\ AttemptsKept(x)

IdleMove(x) ==
  /\ task[x].exists /\ task'[x].exists
  /\ task[x].cur = 0 /\ task'[x].cur = 0
  /\ task'[x].count = task[x].count
  /\ task'[x].status # "RUNNING"
  /\ AttemptsKept(x)

BusyMove(x) ==
  /\ task[x].exists /\ task'[x].exists
  /\ task[x].cur # 0 /\ task'[x].cur = task[x].cur
  /\ task'[x].count = task[x].count
  /\ task'[x].status \in {"RUNNING", "RECOVERY_PENDING"}
  /\ task'[x].superseded = task[x].superseded
  /\ AttemptsKept(x)

Born(x) ==
  /\ ~task[x].exists /\ task'[x].exists
  /\ task'[x].cur = 0 /\ task'[x].count = 0
  /\ task'[x].status # "RUNNING"
  /\ AttemptsKept(x)

Claimed(x) ==
  LET n == task[x].count + 1 IN
  /\ task[x].exists /\ task'[x].exists
  /\ task[x].cur = 0 /\ n \in Attempts
  /\ task'[x].cur = n /\ task'[x].count = n
  /\ task'[x].status = "RUNNING"
  /\ ~task'[x].superseded
  /\ att'[x][n].outcome = "open"
  /\ \A k \in Attempts \ {n} : att'[x][k] = att[x][k]

Closed(x) ==
  LET n == task[x].cur IN
  /\ task[x].exists /\ task'[x].exists
  /\ n \in Attempts
  /\ task'[x].cur = 0
  /\ task'[x].count = task[x].count
  /\ task'[x].status # "RUNNING"
  /\ att'[x][n].outcome \in Outcomes
  /\ \A k \in Attempts \ {n} : att'[x][k] = att[x][k]

Move(x) == \/ Untouched(x) \/ IdleMove(x) \/ BusyMove(x)
           \/ Born(x) \/ Claimed(x) \/ Closed(x)

(* What a move preserves. *)
LEMMA MovesPreserve ==
  ASSUME AttemptInv, TypeOK', \A x \in Tasks : Move(x)
  PROVE  AttemptInv'
<1> SUFFICES ASSUME NEW x \in Tasks
             PROVE  /\ task'[x].status = "RUNNING" => task'[x].cur # 0
                    /\ task'[x].cur # 0 =>
                         /\ task'[x].cur = task'[x].count
                         /\ task'[x].exists
                         /\ task'[x].status \in {"RUNNING", "RECOVERY_PENDING"}
                    /\ \A n \in Attempts :
                         /\ att'[x][n].outcome = "open" <=> n = task'[x].cur
                         /\ att'[x][n].outcome = "unclaimed" <=> n > task'[x].count
                    /\ ~task'[x].exists => task'[x].count = 0
                    /\ task'[x].superseded => task'[x].cur = 0
  BY DEF AttemptInv, AttemptDiscipline, AbsentUntouched, SupersededNeverRuns
<1>1. /\ task[x].cur \in 0 .. MaxAttempts /\ task[x].count \in 0 .. MaxAttempts
      /\ \A n \in Attempts : n \in Nat /\ n # 0
  BY Columns, ConstantsAssumption DEF AttemptInv, TypeOK, Attempts
<1>2. /\ task[x].status = "RUNNING" => task[x].cur # 0
      /\ task[x].cur # 0 =>
           /\ task[x].cur = task[x].count
           /\ task[x].exists
           /\ task[x].status \in {"RUNNING", "RECOVERY_PENDING"}
      /\ \A n \in Attempts :
           /\ att[x][n].outcome = "open" <=> n = task[x].cur
           /\ att[x][n].outcome = "unclaimed" <=> n > task[x].count
      /\ ~task[x].exists => task[x].count = 0
      /\ task[x].superseded => task[x].cur = 0
  BY DEF AttemptInv, AttemptDiscipline, AbsentUntouched, SupersededNeverRuns
<1>3. CASE Untouched(x)
  BY <1>2, <1>3 DEF Untouched, AttemptsKept
<1>4. CASE IdleMove(x)
  BY <1>1, <1>2, <1>4 DEF IdleMove, AttemptsKept
<1>5. CASE BusyMove(x)
  BY <1>1, <1>2, <1>5 DEF BusyMove, AttemptsKept
<1>6. CASE Born(x)
  BY <1>1, <1>2, <1>6 DEF Born, AttemptsKept
<1>7. CASE Claimed(x)
  BY <1>1, <1>2, <1>7 DEF Claimed
<1>8. CASE Closed(x)
  BY <1>1, <1>2, <1>8 DEF Closed, Outcomes
<1>9. QED
  BY <1>3, <1>4, <1>5, <1>6, <1>7, <1>8 DEF Move

(* No move changes a settled attempt. *)
LEMMA MovesFreeze ==
  ASSUME AttemptInv, NEW x \in Tasks, Move(x), NEW n \in Attempts,
         att[x][n].outcome \in Outcomes
  PROVE  att'[x][n] = att[x][n]
<1>1. task[x].count \in Nat /\ n \in Nat
  BY Columns, ConstantsAssumption DEF AttemptInv, TypeOK, Attempts
<1>2. n # task[x].cur /\ ~(n > task[x].count)
  BY DEF AttemptInv, AttemptDiscipline, Outcomes
<1>3. QED
  BY <1>1, <1>2
     DEF Move, Untouched, IdleMove, BusyMove, Born, Claimed, Closed, AttemptsKept

-----------------------------------------------------------------------------
(* Every command is a move of every row                                    *)

(* A row nobody writes is untouched or, if it is a successor that did not  *)
(* exist, born.                                                            *)
LEMMA InsertMove ==
  ASSUME NEW rows, NEW succ, NEW basis, NEW x \in Tasks,
         rows[x] = task[x], AttemptsKept(x),
         task' = InsertSuccessors(rows, succ, basis)
  PROVE  Move(x)
<1>1. CASE x \in succ /\ ~task[x].exists
  <2>1. task'[x] = NewTask(x, basis, InitialBudget)
    BY <1>1 DEF InsertSuccessors
  <2>2. QED
    BY <1>1, <2>1 DEF Move, Born, NewTask
<1>2. CASE ~(x \in succ /\ ~task[x].exists)
  BY <1>2 DEF InsertSuccessors, Move, Untouched
<1>3. QED
  BY <1>1, <1>2

(* The current attempt of a task is one of its attempts. *)
LEMMA CurrentAttempt ==
  ASSUME AttemptInv, NEW t \in Tasks, task[t].cur # 0
  PROVE  task[t].cur \in Attempts /\ task[t].exists
BY Columns, ConstantsAssumption DEF AttemptInv, TypeOK, AttemptDiscipline, Attempts

(* The current attempt of a worker whose fence is checked. *)
LEMMA WorkerTask ==
  ASSUME AttemptInv, NEW t \in Tasks, NEW n \in Attempts, task[t].cur = n
  PROVE  task[t].exists
<1>1. task[t].cur # 0
  BY ConstantsAssumption DEF Attempts
<1>2. QED
  BY <1>1, CurrentAttempt

(* Ending the current attempt leaves every other one alone. *)
LEMMA EndOne ==
  ASSUME AttemptInv, NEW t \in Tasks, NEW n \in Attempts, NEW outcome, NEW failure,
         att' = [att EXCEPT ![t][n] = Ended(@, outcome, failure)]
  PROVE  /\ att'[t][n].outcome = outcome
         /\ \A k \in Attempts \ {n} : att'[t][k] = att[t][k]
         /\ \A x \in Tasks \ {t} : AttemptsKept(x)
BY DEF AttemptInv, TypeOK, Ended, AttemptRows, AttemptsKept

(* Commands that leave the attempts alone. *)
LEMMA KeepAll ==
  ASSUME UNCHANGED att
  PROVE  \A x \in Tasks : AttemptsKept(x)
BY DEF AttemptsKept

(* Every command, seen from any one task, is one of the moves above. *)
LEMMA EveryMove ==
  ASSUME AttemptInv, [Next]_vars, NEW x \in Tasks
  PROVE  Move(x)
<1>0. /\ task \in [Tasks -> TaskRows]
      /\ TypeOK
  BY DEF AttemptInv, TypeOK
<1>1. ASSUME NEW t \in Tasks, NEW d \in Tasks, CreateTask(t, d) PROVE Move(x)
  BY <1>0, <1>1, KeepAll DEF CreateTask, Move, Untouched, Born, NewTask
<1>2. ASSUME NEW t \in Tasks, SupersedeTask(t) PROVE Move(x)
  <2>1. task[t].cur = 0
    BY <1>2 DEF SupersedeTask, AttemptInv, AttemptDiscipline, Inactive
  <2>2. /\ task'[t].cur = task[t].cur /\ task'[t].count = task[t].count
        /\ task'[t].exists = task[t].exists /\ task'[t].status = "CANCELLED"
    BY <1>0, <1>2 DEF SupersedeTask, Bumped, TaskRows
  <2>3. CASE x # t
    BY <1>0, <1>2, <2>3, KeepAll DEF SupersedeTask, Move, Untouched
  <2>4. CASE x = t
    BY <1>2, <2>1, <2>2, <2>4, KeepAll DEF SupersedeTask, Move, IdleMove
  <2>5. QED
    BY <2>3, <2>4
<1>3. ASSUME NEW t \in Tasks, NEW accepted \in BOOLEAN, NEW succ,
             CompleteWaitingTask(t, accepted, succ)
      PROVE  Move(x)
  <2> DEFINE rows == [task EXCEPT ![t] =
                        [Bumped(task[t]) EXCEPT
                           !.status = IF accepted THEN "SUCCEEDED" ELSE "CANCELLED"]]
  <2>1. task[t].cur = 0 /\ task[t].exists
    BY <1>3 DEF CompleteWaitingTask, AttemptInv, AttemptDiscipline
  <2>2. task' = InsertSuccessors(rows, succ, task[t].basis) /\ UNCHANGED att
    BY <1>3 DEF CompleteWaitingTask
  <2>3. CASE x # t
    <3>1. rows[x] = task[x]
      BY <1>0, <2>3
    <3> HIDE DEF rows
    <3>2. QED
      BY <2>2, <3>1, KeepAll, InsertMove
  <2>4. CASE x = t
    <3>1. /\ rows[t].cur = 0 /\ rows[t].count = task[t].count
          /\ rows[t].exists /\ rows[t].status # "RUNNING"
      BY <1>0, <2>1 DEF Bumped, TaskRows
    <3> HIDE DEF rows
    <3>2. task'[t] = rows[t]
      BY <2>2, <3>1 DEF InsertSuccessors
    <3>3. QED
      BY <2>1, <2>2, <2>4, <3>1, <3>2, KeepAll DEF Move, IdleMove
  <2>5. QED
    BY <2>3, <2>4
<1>4. ASSUME NEW t \in Tasks, Claim(t) PROVE Move(x)
  <2>1. CASE x # t
    BY <1>0, <1>4, <2>1 DEF Claim, Move, Untouched, AttemptsKept, TypeOK
  <2>2. CASE x = t
    <3> DEFINE n == task[t].count + 1
    <3>1. n \in Attempts /\ task[t].exists /\ task[t].cur = 0 /\ ~task[t].superseded
      <4>1. task[t].count \in 0 .. MaxAttempts
        BY <1>0, Columns
      <4>2. QED
        BY <1>4, <4>1, ConstantsAssumption DEF Claim, Eligible, Attempts
    <3>2. /\ task'[t].cur = n /\ task'[t].count = n /\ task'[t].exists = task[t].exists
          /\ task'[t].status = "RUNNING" /\ task'[t].superseded = task[t].superseded
      BY <1>0, <1>4 DEF Claim, Bumped, TaskRows
    <3>3. /\ att'[t][n].outcome = "open"
          /\ \A k \in Attempts \ {n} : att'[t][k] = att[t][k]
      BY <1>0, <1>4, <3>1 DEF Claim, TypeOK, NoAttempt
    <3>4. QED
      BY <2>2, <3>1, <3>2, <3>3 DEF Move, Claimed
  <2>3. QED
    BY <2>1, <2>2
<1>5. ASSUME NEW t \in Tasks, NEW n \in Attempts, MarkStarted(t, n) PROVE Move(x)
  <2>1. att[t][n].outcome = "open"
    BY <1>5 DEF MarkStarted, RequireFence, FenceCurrent, AttemptInv, AttemptDiscipline
  <2>2. QED
    BY <1>0, <1>5, <2>1
       DEF MarkStarted, Move, Untouched, AttemptsKept, TypeOK, AttemptRows, Outcomes
<1>6. ASSUME NEW t \in Tasks, NEW n \in Attempts, Heartbeat(t, n) PROVE Move(x)
  BY <1>0, <1>6
     DEF Heartbeat, Move, Untouched, AttemptsKept, TypeOK, AttemptRows, Outcomes
<1>7. ASSUME NEW t \in Tasks, LeaseExpires(t) PROVE Move(x)
  <2>1. task[t].cur \in Attempts /\ att[t][task[t].cur].outcome = "open"
    BY <1>7, CurrentAttempt DEF LeaseExpires, AttemptInv, AttemptDiscipline
  <2>2. QED
    BY <1>0, <1>7, <2>1
       DEF LeaseExpires, Move, Untouched, AttemptsKept, TypeOK, AttemptRows, Outcomes
<1>8. ASSUME NEW t \in Tasks, NEW id, SuspectExpiredAttempt(t, id) PROVE Move(x)
  <2>1. task[t].cur # 0 /\ task[t].exists
    BY <1>8, CurrentAttempt DEF SuspectExpiredAttempt
  <2>2. /\ task'[t].cur = task[t].cur /\ task'[t].count = task[t].count
        /\ task'[t].exists = task[t].exists /\ task'[t].status = "RECOVERY_PENDING"
        /\ task'[t].superseded = task[t].superseded
    BY <1>0, <1>8 DEF SuspectExpiredAttempt, Bumped, TaskRows
  <2>3. CASE x # t
    BY <1>0, <1>8, <2>3, KeepAll DEF SuspectExpiredAttempt, Move, Untouched
  <2>4. CASE x = t
    BY <1>8, <2>1, <2>2, <2>4, KeepAll DEF SuspectExpiredAttempt, Move, BusyMove
  <2>5. QED
    BY <2>3, <2>4
<1>9. ASSUME NEW t \in Tasks, NEW id, ReclaimExpiredAttempt(t, id) PROVE Move(x)
  <2> DEFINE n == task[t].cur
  <2>1. n \in Attempts /\ task[t].exists
    BY <1>9, CurrentAttempt DEF ReclaimExpiredAttempt
  <2>2. /\ att'[t][n].outcome = "SUSPENDED"
        /\ \A k \in Attempts \ {n} : att'[t][k] = att[t][k]
        /\ \A y \in Tasks \ {t} : AttemptsKept(y)
    BY <1>9, <2>1, EndOne DEF ReclaimExpiredAttempt
  <2>3. /\ task'[t].cur = 0 /\ task'[t].count = task[t].count
        /\ task'[t].exists = task[t].exists /\ task'[t].status = "WAITING_RETRY"
    BY <1>0, <1>9 DEF ReclaimExpiredAttempt, Bumped, TaskRows
  <2>4. CASE x # t
    BY <1>0, <1>9, <2>2, <2>4 DEF ReclaimExpiredAttempt, Move, Untouched
  <2>5. CASE x = t
    BY <2>1, <2>2, <2>3, <2>5 DEF Move, Closed, Outcomes
  <2>6. QED
    BY <2>4, <2>5
<1>10. ASSUME NEW t \in Tasks, NEW n \in Attempts, NEW terminal, NEW failure, NEW succ,
              SettleAttempt(t, n, terminal, failure, succ)
       PROVE  Move(x)
  <2> DEFINE status == SettledStatus(t, terminal, failure)
             rows == [task EXCEPT ![t] =
                        [Bumped(task[t]) EXCEPT
                           !.status = status, !.cur = 0,
                           !.budget = Remaining(task[t], failure),
                           !.cause = task[t].cause
                                       \/ (status = "BLOCKED" /\ failure # "none")]]
  <2>1. task[t].cur = n /\ task[t].exists
    <3>1. task[t].cur = n /\ n # 0
      BY <1>10, ConstantsAssumption
         DEF SettleAttempt, WorkerFence, RequireFence, FenceCurrent, Attempts
    <3>2. QED
      BY <3>1, CurrentAttempt
  <2>2. task' = InsertSuccessors(rows, succ, task[t].basis)
    BY <1>10 DEF SettleAttempt
  <2>0. PICK outcome \in Outcomes : att' = [att EXCEPT ![t][n] = Ended(@, outcome, failure)]
    BY <1>10 DEF SettleAttempt, SettleOutcomes, Outcomes
  <2>3. /\ att'[t][n].outcome = outcome
        /\ \A k \in Attempts \ {n} : att'[t][k] = att[t][k]
        /\ \A y \in Tasks \ {t} : AttemptsKept(y)
    BY <2>0, EndOne
  <2>4. status # "RUNNING" /\ outcome \in Outcomes
    BY <1>10, ConstantsAssumption DEF SettleAttempt, SettleTerminals, SettledStatus, TaskKinds
  <2>5. /\ rows[t].cur = 0 /\ rows[t].count = task[t].count
        /\ rows[t].exists = task[t].exists /\ rows[t].status = status
        /\ \A y \in Tasks \ {t} : rows[y] = task[y]
    BY <1>0 DEF Bumped, TaskRows
  <2> HIDE DEF rows, status
  <2>6. CASE x # t
    BY <2>2, <2>3, <2>5, <2>6, InsertMove
  <2>7. CASE x = t
    <3>1. task'[t] = rows[t]
      BY <2>1, <2>2, <2>5 DEF InsertSuccessors
    <3>2. QED
      BY <2>1, <2>3, <2>4, <2>5, <2>7, <3>1 DEF Move, Closed
  <2>8. QED
    BY <2>6, <2>7
<1>11. ASSUME NEW t \in Tasks, NEW n \in Attempts, NEW m \in Tasks,
              SettleGapAndCreateMaintenance(t, n, m)
       PROVE  Move(x)
  <2>1. task[t].cur = n /\ task[t].exists /\ m # t /\ ~task[m].exists
    <3>1. task[t].cur = n /\ n # 0 /\ ~task[m].exists
      BY <1>11, ConstantsAssumption
         DEF SettleGapAndCreateMaintenance, WorkerFence, RequireFence, FenceCurrent, Attempts
    <3>2. QED
      BY <3>1, CurrentAttempt
  <2>2. /\ att'[t][n].outcome = "FAILED"
        /\ \A k \in Attempts \ {n} : att'[t][k] = att[t][k]
        /\ \A y \in Tasks \ {t} : AttemptsKept(y)
    BY <1>11, EndOne DEF SettleGapAndCreateMaintenance
  <2>3. /\ task'[t].cur = 0 /\ task'[t].count = task[t].count
        /\ task'[t].exists = task[t].exists /\ task'[t].status = "BLOCKED"
    BY <1>0, <1>11, <2>1 DEF SettleGapAndCreateMaintenance, Bumped, TaskRows
  <2>4. task'[m] = NewTask(m, task[t].basis, InitialBudget)
    BY <1>0, <1>11, <2>1 DEF SettleGapAndCreateMaintenance
  <2>5. CASE x = t
    BY <2>1, <2>2, <2>3, <2>5 DEF Move, Closed, Outcomes
  <2>6. CASE x = m
    BY <2>1, <2>2, <2>4, <2>6 DEF Move, Born, NewTask
  <2>7. CASE x \notin {t, m}
    BY <1>0, <1>11, <2>2, <2>7 DEF SettleGapAndCreateMaintenance, Move, Untouched
  <2>8. QED
    BY <2>5, <2>6, <2>7
<1>12. ASSUME NEW m \in Tasks, NEW n \in Attempts, NEW r \in Tasks,
              SettleMaintenanceAndRetryPlanner(m, n, r)
       PROVE  Move(x)
  <2> DEFINE p == PlannerOf[m]
  <2>1. task[m].cur = n /\ task[m].exists
    <3>1. task[m].cur = n /\ n # 0
      BY <1>12, ConstantsAssumption
         DEF SettleMaintenanceAndRetryPlanner, WorkerFence, RequireFence, FenceCurrent,
             Attempts
    <3>2. QED
      BY <3>1, CurrentAttempt
  <2>2. /\ p \in Tasks /\ task[p].status = "BLOCKED" /\ task[p].cur = 0
        /\ ~task[r].exists /\ r \notin {m, p} /\ p # m
    <3>1. p \in Tasks /\ task[p].status = "BLOCKED" /\ ~task[r].exists /\ r \notin {m, p}
      BY <1>12, ConstantsAssumption DEF SettleMaintenanceAndRetryPlanner
    <3>2. task[p].cur = 0
      BY <3>1 DEF AttemptInv, AttemptDiscipline
    <3>3. QED
      BY <2>1, <3>1, <3>2, ConstantsAssumption DEF Attempts
  <2>3. /\ att'[m][n].outcome = "SUCCEEDED"
        /\ \A k \in Attempts \ {n} : att'[m][k] = att[m][k]
        /\ \A y \in Tasks \ {m} : AttemptsKept(y)
    BY <1>12, EndOne DEF SettleMaintenanceAndRetryPlanner
  <2>4. /\ task'[m].cur = 0 /\ task'[m].count = task[m].count
        /\ task'[m].exists = task[m].exists /\ task'[m].status = "SUCCEEDED"
    <3>1. task'[m] = [Bumped(task[m]) EXCEPT !.status = "SUCCEEDED", !.cur = 0,
                                             !.cause = FALSE]
      BY <1>0, <1>12, <2>2 DEF SettleMaintenanceAndRetryPlanner
    <3>2. QED
      BY <1>0, <3>1 DEF Bumped, TaskRows
  <2>5. /\ task'[p].cur = 0 /\ task'[p].count = task[p].count
        /\ task'[p].exists = task[p].exists /\ task'[p].status = "CANCELLED"
    BY <1>0, <1>12, <2>2 DEF SettleMaintenanceAndRetryPlanner, Bumped, TaskRows
  <2>6. /\ task'[r].cur = 0 /\ task'[r].count = 0
        /\ task'[r].exists /\ task'[r].status # "RUNNING"
    BY <1>0, <1>12, <2>2 DEF SettleMaintenanceAndRetryPlanner, NewTask
  <2>7. CASE x = m
    BY <2>1, <2>3, <2>4, <2>7 DEF Move, Closed, Outcomes
  <2>8. CASE x = p
    <3>1. task[p].exists
      BY <1>12 DEF SettleMaintenanceAndRetryPlanner
    <3>2. QED
      BY <2>2, <2>3, <2>5, <2>8, <3>1 DEF Move, IdleMove
  <2>9. CASE x = r
    BY <2>2, <2>3, <2>6, <2>9 DEF Move, Born
  <2>10. CASE x \notin {m, p, r}
    BY <1>0, <1>12, <2>3, <2>10 DEF SettleMaintenanceAndRetryPlanner, Move, Untouched
  <2>11. QED
    BY <2>7, <2>8, <2>9, <2>10
<1>13. ASSUME NEW t \in Tasks, NEW n \in Attempts,
              \/ RecordEffectRequested(t, n)
              \/ RecordEffectTerminal(t, n, "COMPENSATED")
              \/ \E valid \in BOOLEAN : Stage2WCommit(t, n, valid)
              \/ \E status \in EffectTerminals, id \in CommandIds :
                   ReconcileEffect(t, n, status, id)
       PROVE  Move(x)
  BY <1>13, KeepAll
     DEF RecordEffectRequested, RecordEffectTerminal, Stage2WCommit, ReconcileEffect,
         Move, Untouched
<1>14. ASSUME NEW t \in Tasks, NEW terminal, NEW failure, NEW id,
              OperatorReconcileAttempt(t, terminal, failure, id)
       PROVE  Move(x)
  <2> DEFINE n == task[t].cur
             outcome == CASE terminal = "CANCELLED" -> "CANCELLED"
                          [] terminal = "BLOCKED" -> "FAILED"
                          [] OTHER -> "SUSPENDED"
  <2>1. n \in Attempts /\ task[t].exists
    BY <1>14, CurrentAttempt DEF OperatorReconcileAttempt
  <2>2. att' = [att EXCEPT ![t][n] = Ended(@, outcome, failure)]
    BY <1>14 DEF OperatorReconcileAttempt
  <2>3. outcome \in Outcomes
    BY DEF Outcomes
  <2> HIDE DEF outcome
  <2>4. /\ att'[t][n].outcome = outcome
        /\ \A k \in Attempts \ {n} : att'[t][k] = att[t][k]
        /\ \A y \in Tasks \ {t} : AttemptsKept(y)
    BY <2>1, <2>2, EndOne
  <2>5. /\ task'[t].cur = 0 /\ task'[t].count = task[t].count
        /\ task'[t].exists = task[t].exists /\ task'[t].status # "RUNNING"
    BY <1>0, <1>14 DEF OperatorReconcileAttempt, Bumped, TaskRows
  <2>6. CASE x # t
    BY <1>0, <1>14, <2>4, <2>6 DEF OperatorReconcileAttempt, Move, Untouched
  <2>7. CASE x = t
    BY <2>1, <2>3, <2>4, <2>5, <2>7 DEF Move, Closed
  <2>8. QED
    BY <2>6, <2>7
<1>15. ASSUME NEW t \in Tasks, NEW id, MarkRecoveryPending(t, id) PROVE Move(x)
  <2>1. /\ task'[t].cur = task[t].cur /\ task'[t].count = task[t].count
        /\ task[t].exists /\ task'[t].exists /\ task'[t].status = "RECOVERY_PENDING"
        /\ task'[t].superseded = task[t].superseded
    BY <1>0, <1>15 DEF MarkRecoveryPending, Bumped, TaskRows
  <2>2. CASE x # t
    BY <1>0, <1>15, <2>2, KeepAll DEF MarkRecoveryPending, Move, Untouched
  <2>3. CASE x = t
    BY <1>15, <2>1, <2>3, KeepAll DEF MarkRecoveryPending, Move, IdleMove, BusyMove
  <2>4. QED
    BY <2>2, <2>3
<1>16. ASSUME NEW t \in Tasks, NEW action \in {"pause", "cancel", "retry"}, NEW id,
              Control(t, action, id)
       PROVE  Move(x)
  <2>1. task[t].exists /\ UNCHANGED att /\ \A y \in Tasks \ {t} : task'[y] = task[y]
    BY <1>0, <1>16 DEF Control
  <2>2. /\ task'[t].cur = task[t].cur /\ task'[t].count = task[t].count
        /\ task'[t].exists = task[t].exists
        /\ task'[t].superseded = task[t].superseded
    BY <1>0, <1>16 DEF Control, Bumped, TaskRows
  <2>3. task'[t].status \in IF task[t].cur = 0
                              THEN {"READY", "BUDGET_REVIEW", "PENDING", "CANCELLED"}
                              ELSE {task[t].status, "RECOVERY_PENDING"}
    BY <1>0, <1>16 DEF Control, Bumped, TaskRows, ReadyOrReview, Cur
  <2>4. task[t].cur # 0 => task[t].status \in {"RUNNING", "RECOVERY_PENDING"}
    BY DEF AttemptInv, AttemptDiscipline
  <2>5. CASE x # t
    BY <2>1, <2>5, KeepAll DEF Move, Untouched
  <2>6. CASE x = t
    BY <2>1, <2>2, <2>3, <2>4, <2>6, KeepAll DEF Move, IdleMove, BusyMove
  <2>7. QED
    BY <2>5, <2>6
<1>17. ASSUME NEW t \in Tasks, NEW k, NEW id, ExtendBudget(t, k, id) PROVE Move(x)
  <2>1. /\ task'[t].cur = task[t].cur /\ task'[t].count = task[t].count
        /\ task[t].exists /\ task'[t].exists /\ task'[t].status = "READY"
        /\ task[t].cur = 0
    BY <1>0, <1>17 DEF ExtendBudget, Bumped, TaskRows
  <2>2. CASE x # t
    BY <1>0, <1>17, <2>2, KeepAll DEF ExtendBudget, Move, Untouched
  <2>3. CASE x = t
    BY <1>17, <2>1, <2>3, KeepAll DEF ExtendBudget, Move, IdleMove
  <2>4. QED
    BY <2>2, <2>3
<1>18. ASSUME NEW t \in Tasks, NEW id, Unblock(t, id) PROVE Move(x)
  <2>1. task[t].exists /\ task[t].cur = 0
    BY <1>18 DEF Unblock, AttemptInv, AttemptDiscipline
  <2>2. /\ task'[t].cur = task[t].cur /\ task'[t].count = task[t].count
        /\ task'[t].exists = task[t].exists /\ task'[t].status # "RUNNING"
    BY <1>0, <1>18 DEF Unblock, ReadyOrReview, Bumped, TaskRows
  <2>3. CASE x # t
    BY <1>0, <1>18, <2>3, KeepAll DEF Unblock, Move, Untouched
  <2>4. CASE x = t
    BY <1>18, <2>1, <2>2, <2>4, KeepAll DEF Unblock, Move, IdleMove
  <2>5. QED
    BY <2>3, <2>4
<1>19. ASSUME NEW t \in Tasks, NEW id, Resume(t, id) PROVE Move(x)
  <2>1. task[t].exists /\ task[t].cur = 0
    BY <1>19 DEF Resume, AttemptInv, AttemptDiscipline
  <2>2. /\ task'[t].cur = task[t].cur /\ task'[t].count = task[t].count
        /\ task'[t].exists = task[t].exists /\ task'[t].status # "RUNNING"
    BY <1>0, <1>19 DEF Resume, ReadyOrReview, Bumped, TaskRows
  <2>3. CASE x # t
    BY <1>0, <1>19, <2>3, KeepAll DEF Resume, Move, Untouched
  <2>4. CASE x = t
    BY <1>19, <2>1, <2>2, <2>4, KeepAll DEF Resume, Move, IdleMove
  <2>5. QED
    BY <2>3, <2>4
<1>20. ASSUME NEW t \in Tasks, NEW n \in Attempts, ClaimWriterLane(t, n) PROVE Move(x)
  <2>1. task[t].cur # 0 /\ task[t].exists
    <3>1. task[t].cur = n /\ n # 0
      BY <1>20, ConstantsAssumption DEF ClaimWriterLane, FenceCurrent, Attempts
    <3>2. QED
      BY <3>1, CurrentAttempt
  <2>2. task[t].status \in {"RUNNING", "RECOVERY_PENDING"}
    BY <2>1 DEF AttemptInv, AttemptDiscipline
  <2>3. /\ task'[t].cur = task[t].cur /\ task'[t].count = task[t].count
        /\ task'[t].exists = task[t].exists /\ task'[t].status = task[t].status
        /\ task'[t].superseded = task[t].superseded
    BY <1>0, <1>20 DEF ClaimWriterLane, Bumped, TaskRows
  <2>4. CASE x # t
    BY <1>0, <1>20, <2>4, KeepAll DEF ClaimWriterLane, Move, Untouched
  <2>5. CASE x = t
    BY <1>20, <2>1, <2>2, <2>3, <2>5, KeepAll DEF ClaimWriterLane, Move, BusyMove
  <2>6. QED
    BY <2>4, <2>5
<1>21. ASSUME NEW t \in Tasks, NEW n \in Attempts, NEW valid, NEW succ,
              CommitAcceptedCandidate(t, n, valid, succ)
       PROVE  Move(x)
  <2> DEFINE result == CommitResult(<<t, 0>>, task[t].basis, valid)
             failure == IF result = "ACCEPTED" THEN "none" ELSE "consuming"
             outcome == IF result = "ACCEPTED" THEN "SUCCEEDED" ELSE "FAILED"
             rows == [task EXCEPT ![t] =
                        [Bumped(task[t]) EXCEPT
                           !.status = IF result = "ACCEPTED" THEN "SUCCEEDED" ELSE "BLOCKED",
                           !.cur = 0, !.budget = Remaining(task[t], failure),
                           !.cause = task[t].cause \/ result # "ACCEPTED"]]
  <2>1. task[t].cur = n /\ task[t].exists
    <3>1. task[t].cur = n /\ n # 0
      BY <1>21, ConstantsAssumption
         DEF CommitAcceptedCandidate, WorkerFence, RequireFence, FenceCurrent, Attempts
    <3>2. QED
      BY <3>1, CurrentAttempt
  <2>2. /\ task' = InsertSuccessors(rows, succ, CommittedBasis(t))
        /\ att' = [att EXCEPT ![t][n] = Ended(@, outcome, failure)]
    BY <1>21 DEF CommitAcceptedCandidate
  <2>3. outcome \in Outcomes
    BY DEF Outcomes
  <2>4. /\ rows[t].cur = 0 /\ rows[t].count = task[t].count
        /\ rows[t].exists = task[t].exists /\ rows[t].status # "RUNNING"
        /\ \A y \in Tasks \ {t} : rows[y] = task[y]
    BY <1>0 DEF Bumped, TaskRows
  <2> HIDE DEF rows, outcome, failure
  <2>5. /\ att'[t][n].outcome = outcome
        /\ \A k \in Attempts \ {n} : att'[t][k] = att[t][k]
        /\ \A y \in Tasks \ {t} : AttemptsKept(y)
    BY <2>2, EndOne
  <2>6. CASE x # t
    BY <2>2, <2>4, <2>5, <2>6, InsertMove
  <2>7. CASE x = t
    <3>1. task'[t] = rows[t]
      BY <2>1, <2>2, <2>4 DEF InsertSuccessors
    <3>2. QED
      BY <2>1, <2>3, <2>4, <2>5, <2>7, <3>1 DEF Move, Closed
  <2>8. QED
    BY <2>6, <2>7
<1>22. ASSUME NEW t \in Tasks, NEW n \in Attempts, NEW k, NEW succ, task[t].cur = n,
              SettleExternalCommit(t, n, k, succ)
       PROVE  Move(x)
  <2> DEFINE rows == [task EXCEPT ![t] =
                        [Bumped(task[t]) EXCEPT !.status = "SUCCEEDED", !.cur = 0]]
  <2>1. task[t].exists
    BY <1>22, CurrentAttempt, ConstantsAssumption DEF Attempts
  <2>2. task' = InsertSuccessors(rows, succ, CommittedBasis(t))
    BY <1>22 DEF SettleExternalCommit
  <2>3. /\ att'[t][n].outcome = "SUCCEEDED"
        /\ \A j \in Attempts \ {n} : att'[t][j] = att[t][j]
        /\ \A y \in Tasks \ {t} : AttemptsKept(y)
    <3>1. att' = [att EXCEPT ![t][n] = Ended(@, "SUCCEEDED", "none")]
      BY <1>22 DEF SettleExternalCommit
    <3>2. QED
      BY <3>1, EndOne
  <2>4. /\ rows[t].cur = 0 /\ rows[t].count = task[t].count
        /\ rows[t].exists = task[t].exists /\ rows[t].status # "RUNNING"
        /\ \A y \in Tasks \ {t} : rows[y] = task[y]
    BY <1>0 DEF Bumped, TaskRows
  <2> HIDE DEF rows
  <2>5. CASE x # t
    BY <2>2, <2>3, <2>4, <2>5, InsertMove
  <2>6. CASE x = t
    <3>1. task'[t] = rows[t]
      BY <2>1, <2>2, <2>4 DEF InsertSuccessors
    <3>2. QED
      BY <1>22, <2>1, <2>3, <2>4, <2>6, <3>1 DEF Move, Closed, Outcomes
  <2>7. QED
    BY <2>5, <2>6
<1>23. ASSUME NEW t \in Tasks, NEW n \in Attempts, NEW succ, RecordExternalCommit(t, n, succ)
       PROVE  Move(x)
  BY <1>22, <1>23 DEF RecordExternalCommit, WorkerFence, RequireFence, FenceCurrent
<1>24. ASSUME NEW t \in Tasks, NEW succ, ReconcileExternalCommit(t, succ) PROVE Move(x)
  BY <1>22, <1>24, CurrentAttempt DEF ReconcileExternalCommit
<1>25. CASE UNCHANGED vars
  BY <1>25, KeepAll DEF vars, Move, Untouched
<1>26. QED
  BY <1>1, <1>2, <1>3, <1>4, <1>5, <1>6, <1>7, <1>8, <1>9, <1>10, <1>11, <1>12, <1>13,
     <1>14, <1>15, <1>16, <1>17, <1>18, <1>19, <1>20, <1>21, <1>23, <1>24, <1>25
     DEF Next, RuntimeStep, WorkerStep, OperatorStep

-----------------------------------------------------------------------------
(* Theorems                                                                *)

(* No attempt exists yet in the initial state. *)
LEMMA InitialAttempts == Init => AttemptInv
<1> SUFFICES ASSUME Init PROVE AttemptInv
  OBVIOUS
<1>1. TypeOK
  BY TypeInit
<1>2. \A t \in Tasks : /\ task[t].cur = 0 /\ task[t].count = 0
                       /\ task[t].status # "RUNNING" /\ ~task[t].superseded
  BY DEF Init, NewTask, AbsentTask
<1>3. \A t \in Tasks, n \in Attempts : att[t][n].outcome = "unclaimed" /\ n \in Nat \ {0}
  BY ConstantsAssumption DEF Init, NoAttempt, Attempts
<1>4. QED
  BY <1>1, <1>2, <1>3
     DEF AttemptInv, AttemptDiscipline, AbsentUntouched, SupersededNeverRuns

(* Every command preserves the invariant. *)
LEMMA AttemptStep == AttemptInv /\ [Next]_vars => AttemptInv'
<1> SUFFICES ASSUME AttemptInv, [Next]_vars PROVE AttemptInv'
  OBVIOUS
<1>1. TypeOK'
  BY TypeStep DEF AttemptInv
<1>2. \A x \in Tasks : Move(x)
  BY EveryMove
<1>3. QED
  BY <1>1, <1>2, MovesPreserve

(* The inductive invariant holds in every reachable state. *)
LEMMA AttemptInvariant == Spec => []AttemptInv
BY InitialAttempts, AttemptStep, PTL DEF Spec

(* A task never has two open attempts, an open one is the last claimed and *)
(* the current one, and a RUNNING task has one: for every interleaving of  *)
(* claims, settlements, recovery and operator commands.                    *)
THEOREM AttemptsDisciplined == Spec => []AttemptDiscipline
BY AttemptInvariant, PTL DEF AttemptInv

(* A superseded task has no attempt and never gets one, whatever operators *)
(* do to its row afterwards.                                               *)
THEOREM SupersededStaysDead == Spec => []SupersededNeverRuns
BY AttemptInvariant, PTL DEF AttemptInv

(* The result of an attempt is final: the callback of a worker that was    *)
(* reclaimed, retried or reconciled changes no attempt row any more.       *)
THEOREM SettledAttemptsStayFrozen == Spec => SettledAttemptsFrozen
<1>1. AttemptInv /\ [Next]_vars
        => [\A t \in Tasks, n \in Attempts :
              att[t][n].outcome \in Outcomes => att'[t][n] = att[t][n]]_vars
  BY EveryMove, MovesFreeze
<1>2. QED
  BY <1>1, AttemptInvariant, PTL DEF Spec, SettledAttemptsFrozen
-----------------------------------------------------------------------------
(* The failure budget: the inductive invariant                             *)

Spenders(t) == {n \in Attempts : Consumes(att[t][n].failure)}

(* A task whose attempt runs has budget left for its failure; the one unit *)
(* a consuming settlement takes is there, so max(0, ...) cuts nothing off. *)
RunningIsFunded == \A t \in Tasks : task[t].cur # 0 => task[t].budget > 0

(* Only a settled attempt has a failure to account for. *)
UnsettledIsFree ==
  \A t \in Tasks, n \in Attempts :
    att[t][n].outcome \notin Outcomes => att[t][n].failure = "none"

BudgetInv == AttemptInv /\ BudgetExact /\ RunningIsFunded /\ UnsettledIsFree

-----------------------------------------------------------------------------
(* What a command may do to the budget of one task                         *)

FailuresKept(x) == \A n \in Attempts : att'[x][n].failure = att[x][n].failure

(* Nothing is spent; an operator may grant k more. *)
FreeMove(x) ==
  /\ FailuresKept(x)
  /\ \E k \in Nat : /\ task'[x].granted = task[x].granted + k
                    /\ task'[x].budget = task[x].budget + k
  /\ task'[x].cur # 0 => task[x].cur # 0 \/ task[x].budget > 0

(* The current attempt ends with a failure, which may cost a unit. *)
SpendMove(x) ==
  LET n == task[x].cur IN
  /\ n \in Attempts /\ task'[x].cur = 0
  /\ task'[x].granted = task[x].granted
  /\ task'[x].budget = Remaining(task[x], att'[x][n].failure)
  /\ \A k \in Attempts \ {n} : att'[x][k].failure = att[x][k].failure

GrantMove(x) ==
  /\ ~task[x].exists
  /\ task'[x].granted = task'[x].budget
  /\ task'[x].cur = 0
  /\ FailuresKept(x)

CostMove(x) == FreeMove(x) \/ SpendMove(x) \/ GrantMove(x)

(* Attempts are finitely many, and so are those that cost something. *)
LEMMA SpendersFinite ==
  ASSUME NEW t \in Tasks
  PROVE  IsFiniteSet(Spenders(t)) /\ Cardinality(Spenders(t)) \in Nat
<1>1. IsFiniteSet(Attempts)
  BY FS_Interval, ConstantsAssumption DEF Attempts
<1>2. IsFiniteSet(Spenders(t))
  BY <1>1, FS_Subset DEF Spenders
<1>3. QED
  BY <1>2, FS_CardinalityType

(* The moves keep the budget exact. *)
LEMMA CostMovesPreserve ==
  ASSUME BudgetInv, AttemptInv', \A x \in Tasks : Move(x) /\ CostMove(x)
  PROVE  BudgetInv'
<1>0. AttemptInv /\ TypeOK /\ TypeOK'
  BY DEF BudgetInv, AttemptInv
<1>1. SUFFICES ASSUME NEW x \in Tasks
               PROVE  /\ task'[x].granted = task'[x].budget + Cardinality(Spenders(x)')
                      /\ task'[x].cur # 0 => task'[x].budget > 0
                      /\ \A n \in Attempts :
                           att'[x][n].outcome \notin Outcomes => att'[x][n].failure = "none"
  BY DEF BudgetInv, BudgetExact, RunningIsFunded, UnsettledIsFree, Spenders, Consumes
<1>2. /\ task[x].granted \in Nat /\ task[x].budget \in Nat /\ task[x].cur \in Nat
      /\ \A n \in Attempts : att[x][n].outcome \in Outcomes \cup {"unclaimed", "open"}
  BY <1>0, Columns, ConstantsAssumption DEF TypeOK, AttemptRows
<1>3. /\ task[x].granted = task[x].budget + Cardinality(Spenders(x))
      /\ task[x].cur # 0 => task[x].budget > 0
      /\ \A n \in Attempts :
           att[x][n].outcome \notin Outcomes => att[x][n].failure = "none"
  BY DEF BudgetInv, BudgetExact, RunningIsFunded, UnsettledIsFree, Spenders
<1>4. IsFiniteSet(Spenders(x)) /\ Cardinality(Spenders(x)) \in Nat
  BY SpendersFinite
<1>5. \A n \in Attempts :
        att[x][n].outcome \in Outcomes => att'[x][n] = att[x][n]
  BY <1>0, MovesFreeze
<1>6. FailuresKept(x) => Spenders(x)' = Spenders(x)
  BY DEF FailuresKept, Spenders, Consumes
<1>7. CASE FreeMove(x)
  <2>1. PICK k \in Nat : /\ task'[x].granted = task[x].granted + k
                         /\ task'[x].budget = task[x].budget + k
    BY <1>7 DEF FreeMove
  <2>2. FailuresKept(x)
    BY <1>7 DEF FreeMove
  <2>3. task'[x].cur # 0 => task'[x].budget > 0
    BY <1>2, <1>3, <1>7, <2>1 DEF FreeMove
  <2>4. \A n \in Attempts :
          att'[x][n].outcome \notin Outcomes => att'[x][n].failure = "none"
    BY <1>3, <1>5, <2>2 DEF FailuresKept
  <2>5. QED
    BY <1>2, <1>3, <1>4, <1>6, <2>1, <2>2, <2>3, <2>4
<1>8. CASE SpendMove(x)
  <2> DEFINE n == task[x].cur
             f == att'[x][n].failure
  <2>1. /\ n \in Attempts /\ n # 0 /\ task'[x].cur = 0
        /\ task'[x].granted = task[x].granted
        /\ task'[x].budget = Remaining(task[x], f)
        /\ \A k \in Attempts \ {n} : att'[x][k].failure = att[x][k].failure
    BY <1>8, ConstantsAssumption DEF SpendMove, Attempts
  <2>2. task[x].exists /\ att[x][n].outcome \notin Outcomes
    BY <1>0, <2>1 DEF AttemptInv, AttemptDiscipline, Outcomes
  <2>3. att'[x][n].outcome \in Outcomes
    BY <2>1, <2>2 DEF Move, Untouched, IdleMove, BusyMove, Born, Claimed, Closed
  <2>4. n \notin Spenders(x)
    BY <1>3, <2>1, <2>2 DEF Spenders, Consumes
  <2>5. \A k \in Attempts :
          att'[x][k].outcome \notin Outcomes => att'[x][k].failure = "none"
    BY <1>3, <1>5, <2>1, <2>3
  <2>6. CASE Consumes(f)
    <3>1. Spenders(x)' = Spenders(x) \cup {n}
      BY <2>1, <2>6 DEF Spenders, Consumes
    <3>2. Cardinality(Spenders(x)') = Cardinality(Spenders(x)) + 1
      BY <1>4, <2>4, <3>1, FS_AddElement
    <3>3. task'[x].budget = task[x].budget - 1
      BY <1>2, <1>3, <2>1, <2>6 DEF Remaining, Max0
    <3>4. QED
      BY <1>2, <1>3, <1>4, <2>1, <2>5, <3>2, <3>3
  <2>7. CASE ~Consumes(f)
    <3>1. Spenders(x)' = Spenders(x)
      BY <2>1, <2>4, <2>7 DEF Spenders, Consumes
    <3>2. task'[x].budget = task[x].budget
      BY <1>2, <2>1, <2>7 DEF Remaining, Max0
    <3>3. QED
      BY <1>3, <2>1, <2>5, <3>1, <3>2
  <2>8. QED
    BY <2>6, <2>7
<1>9. CASE GrantMove(x)
  <2>1. \A n \in Attempts : att[x][n].outcome \notin Outcomes
    <3>1. task[x].count = 0
      BY <1>0, <1>9 DEF GrantMove, AttemptInv, AbsentUntouched
    <3>2. QED
      BY <1>0, <3>1, ConstantsAssumption DEF AttemptInv, AttemptDiscipline, Attempts, Outcomes
  <2>2. Spenders(x) = {}
    BY <1>3, <2>1 DEF Spenders, Consumes
  <2>3. Cardinality(Spenders(x)') = 0
    BY <1>6, <1>9, <2>2, FS_EmptySet DEF GrantMove
  <2>4. task'[x].budget \in Nat
    BY <1>0, Columns DEF TypeOK
  <2>5. QED
    BY <1>3, <1>9, <2>1, <2>3, <2>4 DEF GrantMove, FailuresKept
<1>10. QED
  BY <1>7, <1>8, <1>9 DEF CostMove

-----------------------------------------------------------------------------
(* Every command is such a move                                            *)

(* A command that writes one existing row and ends no attempt. *)
LEMMA FreeRow ==
  ASSUME TypeOK, NEW t \in Tasks, NEW row, NEW k \in Nat, NEW x \in Tasks,
         task' = [task EXCEPT ![t] = row], UNCHANGED att,
         row.cur = task[t].cur, row.budget = task[t].budget + k,
         row.granted = task[t].granted + k
  PROVE  CostMove(x)
<1>1. task \in [Tasks -> TaskRows] /\ task[x].budget \in Nat /\ task[x].granted \in Nat
  BY Columns DEF TypeOK
<1>2. FailuresKept(x)
  BY DEF FailuresKept
<1>3. CASE x = t
  BY <1>1, <1>2, <1>3 DEF CostMove, FreeMove
<1>4. CASE x # t
  <2>1. /\ task'[x].granted = task[x].granted + 0 /\ task'[x].budget = task[x].budget + 0
        /\ task'[x].cur = task[x].cur
    BY <1>1, <1>4
  <2>2. QED
    BY <1>2, <2>1 DEF CostMove, FreeMove
<1>5. QED
  BY <1>3, <1>4

(* A row nobody writes. *)
LEMMA FreeOther ==
  ASSUME TypeOK, NEW x \in Tasks, task'[x] = task[x], FailuresKept(x)
  PROVE  CostMove(x)
<1>1. task[x].budget \in Nat /\ task[x].granted \in Nat
  BY Columns DEF TypeOK
<1>2. task'[x].granted = task[x].granted + 0 /\ task'[x].budget = task[x].budget + 0
  BY <1>1
<1>3. QED
  BY <1>2 DEF CostMove, FreeMove

(* A command that ends attempt n of t and may hand over successors. *)
LEMMA SpendRow ==
  ASSUME TypeOK, NEW t \in Tasks, NEW n \in Attempts, NEW row, NEW succ, NEW basis,
         NEW outcome, NEW failure, NEW x \in Tasks,
         task' = InsertSuccessors([task EXCEPT ![t] = row], succ, basis),
         att' = [att EXCEPT ![t][n] = Ended(@, outcome, failure)],
         task[t].cur = n, row.exists, row.cur = 0, row.granted = task[t].granted,
         row.budget = Remaining(task[t], failure)
  PROVE  CostMove(x)
<1> DEFINE rows == [task EXCEPT ![t] = row]
<1>1. rows[t] = row /\ (x # t => rows[x] = task[x])
  BY DEF TypeOK
<1>2. task' = InsertSuccessors(rows, succ, basis)
  OBVIOUS
<1>3. /\ att'[t][n].failure = failure
      /\ \A k \in Attempts \ {n} : att'[t][k].failure = att[t][k].failure
      /\ x # t => FailuresKept(x)
  BY DEF TypeOK, Ended, AttemptRows, FailuresKept
<1> HIDE DEF rows
<1>4. CASE x = t
  <2>1. task'[t] = row
    BY <1>1, <1>2 DEF InsertSuccessors
  <2>2. QED
    BY <1>3, <1>4, <2>1 DEF CostMove, SpendMove
<1>5. CASE x # t /\ x \in succ /\ ~task[x].exists
  <2>1. task'[x] = NewTask(x, basis, InitialBudget)
    BY <1>1, <1>2, <1>5 DEF InsertSuccessors
  <2>2. task'[x].granted = task'[x].budget /\ task'[x].cur = 0
    BY <2>1 DEF NewTask
  <2>3. QED
    BY <1>3, <1>5, <2>2 DEF CostMove, GrantMove
<1>6. CASE x # t /\ ~(x \in succ /\ ~task[x].exists)
  <2>1. task'[x] = task[x]
    BY <1>1, <1>2, <1>6 DEF InsertSuccessors
  <2>2. QED
    BY <1>3, <1>6, <2>1, FreeOther
<1>7. QED
  BY <1>4, <1>5, <1>6

(* A command that ends an attempt and hands nothing over. *)
LEMMA SpendOnly ==
  ASSUME TypeOK, NEW t \in Tasks, NEW n \in Attempts, NEW row,
         NEW outcome, NEW failure, NEW x \in Tasks,
         task' = [task EXCEPT ![t] = row],
         att' = [att EXCEPT ![t][n] = Ended(@, outcome, failure)],
         task[t].cur = n, row.cur = 0, row.granted = task[t].granted,
         row.budget = Remaining(task[t], failure)
  PROVE  CostMove(x)
<1>1. task'[t] = row /\ (x # t => task'[x] = task[x])
  BY DEF TypeOK
<1>2. /\ att'[t][n].failure = failure
      /\ \A k \in Attempts \ {n} : att'[t][k].failure = att[t][k].failure
      /\ x # t => FailuresKept(x)
  BY DEF TypeOK, Ended, AttemptRows, FailuresKept
<1>3. CASE x = t
  BY <1>1, <1>2, <1>3 DEF CostMove, SpendMove
<1>4. CASE x # t
  BY <1>1, <1>2, <1>4, FreeOther
<1>5. QED
  BY <1>3, <1>4

(* A failure that does not consume leaves the budget. *)
LEMMA FreeFailure ==
  ASSUME TypeOK, NEW t \in Tasks, NEW failure, ~Consumes(failure)
  PROVE  Remaining(task[t], failure) = task[t].budget
<1>1. task[t].budget \in Nat
  BY Columns DEF TypeOK
<1>2. QED
  BY <1>1 DEF Remaining, Max0

(* Every command, seen from any one task, is one of these moves. *)
LEMMA EveryCost ==
  ASSUME BudgetInv, [Next]_vars, NEW x \in Tasks
  PROVE  CostMove(x)
<1>0. /\ AttemptInv /\ TypeOK
      /\ task \in [Tasks -> TaskRows]
      /\ \A t \in Tasks : /\ task[t].exists \in BOOLEAN
                          /\ task[t].budget \in Nat /\ task[t].granted \in Nat
  BY Columns DEF BudgetInv, AttemptInv, TypeOK
<1> USE DEF Cur
<1>1. ASSUME NEW t \in Tasks, NEW d \in Tasks, CreateTask(t, d) PROVE CostMove(x)
  <2>1. FailuresKept(x)
    BY <1>1 DEF CreateTask, FailuresKept
  <2>2. CASE x # t
    BY <1>0, <1>1, <2>1, <2>2, FreeOther DEF CreateTask
  <2>3. CASE x = t
    <3>1. task'[x] = NewTask(x, task[d].basis, InitialBudget) /\ ~task[x].exists
      BY <1>0, <1>1, <2>3 DEF CreateTask
    <3>2. task'[x].granted = task'[x].budget /\ task'[x].cur = 0
      BY <3>1 DEF NewTask
    <3>3. QED
      BY <2>1, <3>1, <3>2 DEF CostMove, GrantMove
  <2>4. QED
    BY <2>2, <2>3
<1>2. ASSUME NEW t \in Tasks, SupersedeTask(t) PROVE CostMove(x)
  <2> DEFINE row == [Bumped(task[t]) EXCEPT !.status = "CANCELLED", !.superseded = TRUE,
                                            !.cause = TRUE]
  <2>1. /\ row.cur = task[t].cur /\ row.budget = task[t].budget + 0
        /\ row.granted = task[t].granted + 0
    BY <1>0 DEF Bumped, TaskRows
  <2>2. task' = [task EXCEPT ![t] = row] /\ UNCHANGED att
    BY <1>2 DEF SupersedeTask
  <2> HIDE DEF row
  <2>3. QED
    BY <1>0, <2>1, <2>2, FreeRow
<1>3. ASSUME NEW t \in Tasks, NEW accepted \in BOOLEAN, NEW succ,
             CompleteWaitingTask(t, accepted, succ)
      PROVE  CostMove(x)
  <2> DEFINE row == [Bumped(task[t]) EXCEPT
                       !.status = IF accepted THEN "SUCCEEDED" ELSE "CANCELLED"]
             rows == [task EXCEPT ![t] = row]
  <2>1. /\ row.cur = task[t].cur /\ row.budget = task[t].budget + 0
        /\ row.granted = task[t].granted + 0 /\ row.exists = task[t].exists
    BY <1>0 DEF Bumped, TaskRows
  <2>2. /\ task' = InsertSuccessors(rows, succ, task[t].basis)
        /\ UNCHANGED att /\ task[t].exists
    BY <1>3 DEF CompleteWaitingTask
  <2>3. rows[t] = row /\ (x # t => rows[x] = task[x])
    BY <1>0
  <2>4. FailuresKept(x)
    BY <2>2 DEF FailuresKept
  <2> HIDE DEF row, rows
  <2>5. CASE x # t /\ x \in succ /\ ~task[x].exists
    <3>1. task'[x] = NewTask(x, task[t].basis, InitialBudget)
      BY <2>2, <2>3, <2>5 DEF InsertSuccessors
    <3>2. task'[x].granted = task'[x].budget /\ task'[x].cur = 0
      BY <3>1 DEF NewTask
    <3>3. QED
      BY <2>4, <2>5, <3>2 DEF CostMove, GrantMove
  <2>6. CASE x # t /\ ~(x \in succ /\ ~task[x].exists)
    <3>1. task'[x] = task[x]
      BY <2>2, <2>3, <2>6 DEF InsertSuccessors
    <3>2. QED
      BY <1>0, <2>4, <3>1, FreeOther
  <2>7. CASE x = t
    <3>1. task'[t] = row
      BY <2>1, <2>2, <2>3 DEF InsertSuccessors
    <3>2. QED
      BY <2>1, <2>4, <2>7, <3>1 DEF CostMove, FreeMove
  <2>8. QED
    BY <2>5, <2>6, <2>7
<1>4. ASSUME NEW t \in Tasks, Claim(t) PROVE CostMove(x)
  <2> DEFINE n == task[t].count + 1
  <2>1. n \in Attempts /\ task[t].budget > 0
    <3>1. task[t].count \in 0 .. MaxAttempts
      BY <1>0, Columns
    <3>2. QED
      BY <1>4, <3>1, ConstantsAssumption DEF Claim, Eligible, Attempts
  <2>2. att[t][n].failure = "none"
    <3>1. task[t].count \in Nat
      BY <1>0, Columns, ConstantsAssumption
    <3>2. att[t][n].outcome = "unclaimed"
      BY <1>0, <2>1, <3>1 DEF AttemptInv, AttemptDiscipline
    <3>3. QED
      BY <2>1, <3>2 DEF BudgetInv, UnsettledIsFree, Outcomes
  <2>3. FailuresKept(x)
    BY <1>0, <1>4, <2>1, <2>2 DEF Claim, TypeOK, NoAttempt, FailuresKept
  <2>4. CASE x # t
    BY <1>0, <1>4, <2>3, <2>4, FreeOther DEF Claim
  <2>5. CASE x = t
    <3>1. task'[t].granted = task[t].granted + 0 /\ task'[t].budget = task[t].budget + 0
      BY <1>0, <1>4 DEF Claim, Bumped, TaskRows
    <3>2. QED
      BY <2>1, <2>3, <2>5, <3>1 DEF CostMove, FreeMove
  <2>6. QED
    BY <2>4, <2>5
<1>5. ASSUME UNCHANGED task, FailuresKept(x) PROVE CostMove(x)
  BY <1>0, <1>5, FreeOther
<1>6. ASSUME NEW t \in Tasks, NEW n \in Attempts,
             MarkStarted(t, n) \/ Heartbeat(t, n) \/ LeaseExpires(t)
      PROVE  CostMove(x)
  <2>1. UNCHANGED task
    BY <1>6 DEF MarkStarted, Heartbeat, LeaseExpires
  <2>2. FailuresKept(x)
    <3>1. att \in [Tasks -> [Attempts -> AttemptRows]]
      BY <1>0 DEF TypeOK
    <3>2. CASE MarkStarted(t, n)
      BY <3>1, <3>2 DEF MarkStarted, AttemptRows, FailuresKept
    <3>3. CASE Heartbeat(t, n)
      BY <3>1, <3>3 DEF Heartbeat, AttemptRows, FailuresKept
    <3>4. CASE LeaseExpires(t)
      BY <3>1, <3>4 DEF LeaseExpires, AttemptRows, FailuresKept
    <3>5. QED
      BY <1>6, <3>2, <3>3, <3>4
  <2>3. QED
    BY <1>5, <2>1, <2>2
<1>7. ASSUME NEW t \in Tasks, NEW id,
             SuspectExpiredAttempt(t, id) \/ MarkRecoveryPending(t, id)
      PROVE  CostMove(x)
  <2> DEFINE row == [Bumped(task[t]) EXCEPT !.status = "RECOVERY_PENDING"]
  <2>1. /\ row.cur = task[t].cur /\ row.budget = task[t].budget + 0
        /\ row.granted = task[t].granted + 0
    BY <1>0 DEF Bumped, TaskRows
  <2>2. task' = [task EXCEPT ![t] = row] /\ UNCHANGED att
    BY <1>7 DEF SuspectExpiredAttempt, MarkRecoveryPending
  <2> HIDE DEF row
  <2>3. QED
    BY <1>0, <2>1, <2>2, FreeRow
<1>8. ASSUME NEW t \in Tasks, NEW id, ReclaimExpiredAttempt(t, id) PROVE CostMove(x)
  <2> DEFINE row == [Bumped(task[t]) EXCEPT !.status = "WAITING_RETRY", !.cur = 0]
  <2>1. /\ row.cur = 0 /\ row.budget = task[t].budget /\ row.granted = task[t].granted
    BY <1>0 DEF Bumped, TaskRows
  <2>2. /\ task' = [task EXCEPT ![t] = row] /\ task[t].cur \in Attempts
        /\ att' = [att EXCEPT ![t][task[t].cur] = Ended(@, "SUSPENDED", "free")]
    BY <1>0, <1>8, CurrentAttempt DEF ReclaimExpiredAttempt
  <2>3. Remaining(task[t], "free") = task[t].budget
    BY <1>0, FreeFailure DEF Consumes
  <2> HIDE DEF row
  <2>4. QED
    BY <1>0, <2>1, <2>2, <2>3, SpendOnly
<1>9. ASSUME NEW t \in Tasks, NEW n \in Attempts, NEW terminal, NEW failure, NEW succ,
             SettleAttempt(t, n, terminal, failure, succ)
      PROVE  CostMove(x)
  <2> DEFINE status == SettledStatus(t, terminal, failure)
             row == [Bumped(task[t]) EXCEPT
                       !.status = status, !.cur = 0,
                       !.budget = Remaining(task[t], failure),
                       !.cause = task[t].cause \/ (status = "BLOCKED" /\ failure # "none")]
  <2>1. /\ row.cur = 0 /\ row.budget = Remaining(task[t], failure)
        /\ row.granted = task[t].granted /\ row.exists = task[t].exists
    BY <1>0 DEF Bumped, TaskRows
  <2>2. PICK outcome :
        /\ task' = InsertSuccessors([task EXCEPT ![t] = row], succ, task[t].basis)
        /\ task[t].cur = n
        /\ att' = [att EXCEPT ![t][n] = Ended(@, outcome, failure)]
    BY <1>9 DEF SettleAttempt, WorkerFence, RequireFence, FenceCurrent
  <2>3. task[t].exists
    BY <1>0, <2>2, WorkerTask
  <2> HIDE DEF row, status
  <2>4. QED
    BY <1>0, <2>1, <2>2, <2>3, SpendRow
<1>10. ASSUME NEW t \in Tasks, NEW n \in Attempts, NEW m \in Tasks,
             SettleGapAndCreateMaintenance(t, n, m)
      PROVE  CostMove(x)
  <2>1. /\ task[t].cur = n /\ ~task[m].exists
        /\ att' = [att EXCEPT ![t][n] = Ended(@, "FAILED", "free")]
    BY <1>10 DEF SettleGapAndCreateMaintenance, WorkerFence, RequireFence, FenceCurrent
  <2>2. m # t
    BY <1>0, <2>1, WorkerTask
  <2>3. /\ att'[t][n].failure = "free"
        /\ \A k \in Attempts \ {n} : att'[t][k].failure = att[t][k].failure
        /\ x # t => FailuresKept(x)
    BY <1>0, <2>1 DEF TypeOK, Ended, AttemptRows, FailuresKept
  <2>4. CASE x = t
    <3>1. /\ task'[t].cur = 0 /\ task'[t].budget = task[t].budget
          /\ task'[t].granted = task[t].granted
      BY <1>0, <1>10, <2>2 DEF SettleGapAndCreateMaintenance, Bumped, TaskRows
    <3>2. Remaining(task[t], "free") = task[t].budget
      BY <1>0, FreeFailure DEF Consumes
    <3>3. QED
      BY <2>1, <2>3, <2>4, <3>1, <3>2 DEF CostMove, SpendMove
  <2>5. CASE x = m
    <3>1. task'[m] = NewTask(m, task[t].basis, InitialBudget)
      BY <1>0, <1>10, <2>2 DEF SettleGapAndCreateMaintenance
    <3>2. task'[m].granted = task'[m].budget /\ task'[m].cur = 0
      BY <3>1 DEF NewTask
    <3>3. QED
      BY <2>1, <2>2, <2>3, <2>5, <3>2 DEF CostMove, GrantMove
  <2>6. CASE x \notin {t, m}
    BY <1>0, <1>10, <2>3, <2>6, FreeOther DEF SettleGapAndCreateMaintenance
  <2>7. QED
    BY <2>4, <2>5, <2>6
<1>11. ASSUME NEW t \in Tasks, NEW n \in Attempts, NEW r \in Tasks,
              SettleMaintenanceAndRetryPlanner(t, n, r)
       PROVE  CostMove(x)
  <2> DEFINE p == PlannerOf[t]
  <2>1. /\ p \in Tasks /\ p # t /\ r \notin {t, p} /\ ~task[r].exists /\ task[t].cur = n
        /\ att' = [att EXCEPT ![t][n] = Ended(@, "SUCCEEDED", "none")]
    BY <1>11, ConstantsAssumption
       DEF SettleMaintenanceAndRetryPlanner, WorkerFence, RequireFence, FenceCurrent
  <2>2. /\ att'[t][n].failure = "none"
        /\ \A k \in Attempts \ {n} : att'[t][k].failure = att[t][k].failure
        /\ x # t => FailuresKept(x)
    BY <1>0, <2>1 DEF TypeOK, Ended, AttemptRows, FailuresKept
  <2>3. CASE x = t
    <3>1. /\ task'[t].cur = 0 /\ task'[t].budget = task[t].budget
          /\ task'[t].granted = task[t].granted
      <4>1. task'[t] = [Bumped(task[t]) EXCEPT !.status = "SUCCEEDED", !.cur = 0,
                                               !.cause = FALSE]
        BY <1>0, <1>11, <2>1 DEF SettleMaintenanceAndRetryPlanner
      <4>2. QED
        BY <1>0, <4>1 DEF Bumped, TaskRows
    <3>2. Remaining(task[t], "none") = task[t].budget
      BY <1>0, FreeFailure DEF Consumes
    <3>3. QED
      BY <2>1, <2>2, <2>3, <3>1, <3>2 DEF CostMove, SpendMove
  <2>4. CASE x = p
    <3>1. /\ task'[p].cur = task[p].cur /\ task'[p].budget = task[p].budget + 0
          /\ task'[p].granted = task[p].granted + 0
      <4>1. task'[p] = [Bumped(task[p]) EXCEPT !.status = "CANCELLED",
                                               !.superseded = TRUE, !.cause = TRUE]
        BY <1>0, <1>11, <2>1 DEF SettleMaintenanceAndRetryPlanner
      <4>2. QED
        BY <1>0, <2>1, <4>1 DEF Bumped, TaskRows
    <3>2. QED
      BY <2>1, <2>2, <2>4, <3>1 DEF CostMove, FreeMove
  <2>5. CASE x = r
    <3>1. task'[r] = [NewTask(r, CurrentCommit, task[p].budget) EXCEPT
                        !.paused = task[p].paused, !.cancel = task[p].cancel,
                        !.gen = task[p].gen]
      BY <1>0, <1>11, <2>1 DEF SettleMaintenanceAndRetryPlanner
    <3>2. task'[r].granted = task'[r].budget /\ task'[r].cur = 0
      BY <3>1 DEF NewTask
    <3>3. QED
      BY <2>1, <2>2, <2>5, <3>2 DEF CostMove, GrantMove
  <2>6. CASE x \notin {t, p, r}
    <3>1. task'[x] = task[x]
      BY <1>0, <1>11, <2>6 DEF SettleMaintenanceAndRetryPlanner
    <3>2. QED
      BY <1>0, <2>2, <2>6, <3>1, FreeOther
  <2>7. QED
    BY <2>3, <2>4, <2>5, <2>6
<1>12. ASSUME NEW t \in Tasks, NEW terminal, NEW failure, NEW id,
              OperatorReconcileAttempt(t, terminal, failure, id)
       PROVE  CostMove(x)
  <2> DEFINE status == IF terminal = "WAITING_RETRY" /\ Remaining(task[t], failure) = 0
                         THEN "BUDGET_REVIEW" ELSE terminal
             outcome == CASE terminal = "CANCELLED" -> "CANCELLED"
                          [] terminal = "BLOCKED" -> "FAILED"
                          [] OTHER -> "SUSPENDED"
             row == [Bumped(task[t]) EXCEPT !.status = status, !.cur = 0,
                                  !.budget = Remaining(task[t], failure),
                                  !.paused = (status = "CANCELLED"),
                                  !.cause = task[t].cause \/ status = "BLOCKED"]
  <2>1. /\ row.cur = 0 /\ row.budget = Remaining(task[t], failure)
        /\ row.granted = task[t].granted
    BY <1>0 DEF Bumped, TaskRows
  <2>2. /\ task' = [task EXCEPT ![t] = row] /\ task[t].cur \in Attempts
        /\ att' = [att EXCEPT ![t][task[t].cur] = Ended(@, outcome, failure)]
    BY <1>0, <1>12, CurrentAttempt DEF OperatorReconcileAttempt
  <2> HIDE DEF row, status, outcome
  <2>3. QED
    BY <1>0, <2>1, <2>2, SpendOnly
<1>13. ASSUME NEW t \in Tasks, NEW action, NEW id, Control(t, action, id) PROVE CostMove(x)
  <2> DEFINE status == CASE action = "retry" -> ReadyOrReview(t)
                         [] action = "pause" /\ Cur(t) = 0 -> "PENDING"
                         [] action = "pause" /\ Cur(t) # 0 -> task[t].status
                         [] action = "cancel" /\ Cur(t) = 0 -> "CANCELLED"
                         [] action = "cancel" /\ Cur(t) # 0 -> "RECOVERY_PENDING"
             gen == IF action = "retry" THEN GenAfterRelease(t) ELSE task[t].gen
             row == [Bumped(task[t]) EXCEPT
                       !.status = status, !.paused = action \in {"pause", "cancel"},
                       !.cancel = (action = "cancel"), !.gen = gen]
  <2>1. /\ row.cur = task[t].cur /\ row.budget = task[t].budget + 0
        /\ row.granted = task[t].granted + 0
    BY <1>0 DEF Bumped, TaskRows
  <2>2. task' = [task EXCEPT ![t] = row] /\ UNCHANGED att
    BY <1>13 DEF Control
  <2> HIDE DEF row, status, gen
  <2>3. QED
    BY <1>0, <2>1, <2>2, FreeRow
<1>14. ASSUME NEW t \in Tasks, NEW k \in 0 .. InitialBudget, NEW id, ExtendBudget(t, k, id)
       PROVE  CostMove(x)
  <2> DEFINE row == [Bumped(task[t]) EXCEPT !.status = "READY",
                                  !.budget = task[t].budget + k,
                                  !.granted = task[t].granted + k]
  <2>1. /\ row.cur = task[t].cur /\ row.budget = task[t].budget + k
        /\ row.granted = task[t].granted + k /\ k \in Nat
    BY <1>0, ConstantsAssumption DEF Bumped, TaskRows
  <2>2. task' = [task EXCEPT ![t] = row] /\ UNCHANGED att
    BY <1>14 DEF ExtendBudget
  <2> HIDE DEF row
  <2>3. QED
    BY <1>0, <2>1, <2>2, FreeRow
<1>15. ASSUME NEW t \in Tasks, NEW id, Unblock(t, id) PROVE CostMove(x)
  <2> DEFINE row == [Bumped(task[t]) EXCEPT !.status = ReadyOrReview(t), !.cause = FALSE,
                                  !.gen = GenAfterRelease(t)]
  <2>1. /\ row.cur = task[t].cur /\ row.budget = task[t].budget + 0
        /\ row.granted = task[t].granted + 0
    BY <1>0 DEF Bumped, TaskRows
  <2>2. task' = [task EXCEPT ![t] = row] /\ UNCHANGED att
    BY <1>15 DEF Unblock
  <2> HIDE DEF row
  <2>3. QED
    BY <1>0, <2>1, <2>2, FreeRow
<1>16. ASSUME NEW t \in Tasks, NEW id, Resume(t, id) PROVE CostMove(x)
  <2> DEFINE row == [Bumped(task[t]) EXCEPT !.status = ReadyOrReview(t), !.paused = FALSE,
                                  !.cancel = FALSE]
  <2>1. /\ row.cur = task[t].cur /\ row.budget = task[t].budget + 0
        /\ row.granted = task[t].granted + 0
    BY <1>0 DEF Bumped, TaskRows
  <2>2. task' = [task EXCEPT ![t] = row] /\ UNCHANGED att
    BY <1>16 DEF Resume
  <2> HIDE DEF row
  <2>3. QED
    BY <1>0, <2>1, <2>2, FreeRow
<1>17. ASSUME NEW t \in Tasks, NEW n \in Attempts, ClaimWriterLane(t, n) PROVE CostMove(x)
  <2> DEFINE row == [Bumped(task[t]) EXCEPT !.gen = NextGeneration]
  <2>1. /\ row.cur = task[t].cur /\ row.budget = task[t].budget + 0
        /\ row.granted = task[t].granted + 0
    BY <1>0 DEF Bumped, TaskRows
  <2>2. task' = [task EXCEPT ![t] = row] /\ UNCHANGED att
    BY <1>17 DEF ClaimWriterLane
  <2> HIDE DEF row
  <2>3. QED
    BY <1>0, <2>1, <2>2, FreeRow
<1>18. ASSUME NEW t \in Tasks, NEW n \in Attempts, NEW valid, NEW succ,
              CommitAcceptedCandidate(t, n, valid, succ)
       PROVE  CostMove(x)
  <2> DEFINE result == CommitResult(<<t, 0>>, task[t].basis, valid)
             failure == IF result = "ACCEPTED" THEN "none" ELSE "consuming"
             outcome == IF result = "ACCEPTED" THEN "SUCCEEDED" ELSE "FAILED"
             row == [Bumped(task[t]) EXCEPT
                       !.status = IF result = "ACCEPTED" THEN "SUCCEEDED" ELSE "BLOCKED",
                       !.cur = 0, !.budget = Remaining(task[t], failure),
                       !.cause = task[t].cause \/ result # "ACCEPTED"]
  <2>1. /\ row.cur = 0 /\ row.budget = Remaining(task[t], failure)
        /\ row.granted = task[t].granted /\ row.exists = task[t].exists
    BY <1>0 DEF Bumped, TaskRows
  <2>2. /\ task' = InsertSuccessors([task EXCEPT ![t] = row], succ, CommittedBasis(t))
        /\ task[t].cur = n /\ att' = [att EXCEPT ![t][n] = Ended(@, outcome, failure)]
    BY <1>18 DEF CommitAcceptedCandidate, WorkerFence, RequireFence, FenceCurrent
  <2>3. task[t].exists
    BY <1>0, <2>2, WorkerTask
  <2> HIDE DEF row, result, failure, outcome
  <2>4. QED
    BY <1>0, <2>1, <2>2, <2>3, SpendRow
<1>19. ASSUME NEW t \in Tasks, NEW n \in Attempts, NEW k, NEW succ, task[t].cur = n,
              SettleExternalCommit(t, n, k, succ)
       PROVE  CostMove(x)
  <2> DEFINE row == [Bumped(task[t]) EXCEPT !.status = "SUCCEEDED", !.cur = 0]
  <2>1. /\ row.cur = 0 /\ row.budget = task[t].budget
        /\ row.granted = task[t].granted /\ row.exists = task[t].exists
    BY <1>0 DEF Bumped, TaskRows
  <2>2. /\ task' = InsertSuccessors([task EXCEPT ![t] = row], succ, CommittedBasis(t))
        /\ att' = [att EXCEPT ![t][n] = Ended(@, "SUCCEEDED", "none")]
    BY <1>19 DEF SettleExternalCommit
  <2>3. task[t].exists /\ Remaining(task[t], "none") = task[t].budget
    BY <1>0, <1>19, WorkerTask, FreeFailure DEF Consumes
  <2> HIDE DEF row
  <2>4. QED
    BY <1>0, <1>19, <2>1, <2>2, <2>3, SpendRow
<1>20. ASSUME NEW t \in Tasks, NEW n \in Attempts, NEW succ, RecordExternalCommit(t, n, succ)
       PROVE  CostMove(x)
  BY <1>19, <1>20 DEF RecordExternalCommit, WorkerFence, RequireFence, FenceCurrent
<1>21. ASSUME NEW t \in Tasks, NEW succ, ReconcileExternalCommit(t, succ) PROVE CostMove(x)
  BY <1>0, <1>19, <1>21, CurrentAttempt DEF ReconcileExternalCommit
<1>22. ASSUME UNCHANGED <<task, att>> PROVE CostMove(x)
  BY <1>5, <1>22 DEF FailuresKept
<1>23. ASSUME NEW t \in Tasks, NEW n \in Attempts,
              \/ RecordEffectRequested(t, n)
              \/ \E status : RecordEffectTerminal(t, n, status)
              \/ \E status, id : ReconcileEffect(t, n, status, id)
              \/ \E valid : Stage2WCommit(t, n, valid)
       PROVE  CostMove(x)
  BY <1>22, <1>23 DEF RecordEffectRequested, RecordEffectTerminal, ReconcileEffect,
                      Stage2WCommit
<1>24. ASSUME NEW t \in Tasks, RuntimeStep(t) PROVE CostMove(x)
  <2>1. 1 \in Attempts
    BY ConstantsAssumption DEF Attempts
  <2>2. QED
    BY <1>1, <1>2, <1>3, <1>4, <1>6, <1>21, <1>24, <2>1 DEF RuntimeStep
<1>25. ASSUME NEW t \in Tasks, NEW n \in Attempts, WorkerStep(t, n) PROVE CostMove(x)
  BY <1>6, <1>9, <1>10, <1>11, <1>17, <1>18, <1>20, <1>23, <1>25 DEF WorkerStep
<1>26. ASSUME NEW t \in Tasks, NEW id \in CommandIds, OperatorStep(t, id) PROVE CostMove(x)
  BY <1>7, <1>8, <1>12, <1>13, <1>14, <1>15, <1>16, <1>23, <1>26 DEF OperatorStep
<1>27. CASE UNCHANGED vars
  BY <1>22, <1>27 DEF vars
<1>28. QED
  BY <1>24, <1>25, <1>26, <1>27 DEF Next

(* A task is charged exactly one unit for each attempt that ended with a   *)
(* consuming failure: no settlement is free that should not be, none is    *)
(* charged twice, and no overdraft is hidden by max(0, remaining).         *)
THEOREM BudgetIsExact == Spec => []BudgetExact
<1>1. Init => BudgetInv
  <2> SUFFICES ASSUME Init PROVE BudgetInv
    OBVIOUS
  <2>1. AttemptInv
    BY InitialAttempts
  <2>2. \A t \in Tasks : /\ task[t].cur = 0 /\ task[t].granted = task[t].budget
                         /\ task[t].budget \in Nat
    BY ConstantsAssumption DEF Init, NewTask, AbsentTask
  <2>3. \A t \in Tasks, n \in Attempts : att[t][n].failure = "none"
    BY DEF Init, NoAttempt
  <2>4. \A t \in Tasks : {n \in Attempts : Consumes(att[t][n].failure)} = {}
    BY <2>3 DEF Consumes
  <2>5. BudgetExact
    BY <2>2, <2>4, FS_EmptySet DEF BudgetExact
  <2>6. QED
    BY <2>1, <2>2, <2>3, <2>5 DEF BudgetInv, RunningIsFunded, UnsettledIsFree
<1>2. BudgetInv /\ [Next]_vars => BudgetInv'
  <2> SUFFICES ASSUME BudgetInv, [Next]_vars PROVE BudgetInv'
    OBVIOUS
  <2>1. AttemptInv /\ AttemptInv'
    BY AttemptStep DEF BudgetInv
  <2>2. \A x \in Tasks : Move(x) /\ CostMove(x)
    BY <2>1, EveryMove, EveryCost
  <2>3. QED
    BY <2>1, <2>2, CostMovesPreserve
<1>3. QED
  BY <1>1, <1>2, PTL DEF Spec, BudgetInv

-----------------------------------------------------------------------------
(* The Canon, its receipts and the generations                             *)


-----------------------------------------------------------------------------
(* The inductive invariants                                                *)

Committing(t) == CommitKind(t) \/ KindOf[t] = "MAINTENANCE"

(* The task's own commit stands directly on its basis. *)
Committed(t) ==
  /\ task[t].exists
  /\ task[t].basis < Len(canon)
  /\ canon[task[t].basis + 1].task = t

(* A fence that went past its claim belongs to a row, so the commit Stage  *)
(* 2W makes without asking for the fence is still the commit of a task.    *)
WritersExist ==
  \A t \in Tasks, n \in Attempts :
    fence[t][n].phase # "claimed" => task[t].exists

(* The converse of CanonLineage: an accepted receipt is always the receipt *)
(* of the commit on the task's basis.  It is what a replayed request       *)
(* relies on when it finds its receipt and commits nothing.                *)
ReceiptsInCanon ==
  \A t \in Tasks, k \in 0 .. MaxAttempts :
    receipt[t][k] = "ACCEPTED" => Committed(t)

CanonInv == /\ AttemptInv
            /\ WritersExist
            /\ CanonLineage
            /\ ReceiptsInCanon
            /\ SucceededIsCommitted
            /\ SuccessorOnCommit

(* A generation is held by the row or by a fence of a task. *)
Holds(t, g) == task[t].gen = g \/ \E n \in Attempts : fence[t][n].gen = g

(* Every positive generation was issued by the lane, to one committing     *)
(* task.  A claim copies the row's generation into the new fence, so the   *)
(* rows have to be part of the invariant.                                  *)
GenerationInv ==
  \A t \in Tasks, g \in Nat \ {0} : Holds(t, g) =>
    /\ g <= lane.gen
    /\ Committing(t)
    /\ \A u \in Tasks : Holds(u, g) => u = t
-----------------------------------------------------------------------------
(* What a command does to Canon, to the lane and to one row                *)

(* A request under a key without a receipt gets one; it is the accepted    *)
(* one only from the current commit, which it extends.                     *)
Requested(t, k, r) ==
  /\ task[t].exists
  /\ receipt[t][k] = "none"
  /\ receipt' = [receipt EXCEPT ![t][k] = r]
  /\ IF r = "ACCEPTED"
       THEN /\ task[t].basis = Len(canon)
            /\ canon' = Append(canon, [task |-> t, att |-> k])
       ELSE canon' = canon

CanonMove ==
  \/ UNCHANGED <<canon, receipt>>
  \/ \E t \in Tasks, k \in 0 .. MaxAttempts, r \in Receipts : Requested(t, k, r)

AcceptedNow(t) == \E k \in 0 .. MaxAttempts : receipt'[t][k] = "ACCEPTED"

(* An existing row keeps its basis, succeeds as a committing task only     *)
(* with an accepted receipt, and is claimed only on the current commit.    *)
OldRow(x) ==
  /\ task[x].exists /\ task'[x].exists
  /\ task'[x].basis = task[x].basis
  /\ Committing(x) /\ task'[x].status = "SUCCEEDED" =>
       task[x].status = "SUCCEEDED" \/ AcceptedNow(x)
  /\ task'[x].count # task[x].count => task[x].basis = Len(canon)

(* A new row follows the commit of the committing task it depends on. *)
NewRow(x) ==
  /\ ~task[x].exists /\ task'[x].exists
  /\ task'[x].status # "SUCCEEDED"
  /\ \A d \in DepsOf[x] : Committing(d) =>
       /\ AcceptedNow(d)
       /\ task[d].exists
       /\ task'[x].basis = task[d].basis + 1

NoRow(x) == ~task[x].exists /\ ~task'[x].exists

(* A generation new to the task is the one the lane just issued to it. *)
Issued(x, g) == lane'.gen = lane.gen + 1 /\ g = lane'.gen /\ Committing(x) /\ lane'.task = x

FenceMove(x) ==
  \A n \in Attempts :
    /\ fence'[x][n].gen \in {fence[x][n].gen, task[x].gen} \/ Issued(x, fence'[x][n].gen)
    /\ fence'[x][n].phase # "claimed" => fence[x][n].phase # "claimed" \/ task[x].exists

Effects(x) ==
  /\ OldRow(x) \/ NewRow(x) \/ NoRow(x)
  /\ task'[x].gen \in {0, task[x].gen} \/ Issued(x, task'[x].gen)
  /\ FenceMove(x)

LaneMove == lane' = lane \/ lane'.gen = lane.gen + 1

-----------------------------------------------------------------------------
(* The moves preserve the invariants                                       *)

(* Appending a commit keeps the earlier ones. *)
LEMMA AppendOne ==
  ASSUME NEW S, NEW c \in Seq(S), NEW e \in S
  PROVE  /\ Len(Append(c, e)) = Len(c) + 1
         /\ Append(c, e)[Len(c) + 1] = e
         /\ \A i \in 1 .. Len(c) : Append(c, e)[i] = c[i]
OBVIOUS

(* An element of a sequence has the type of its elements. *)
LEMMA ElementOf ==
  ASSUME NEW S, NEW c \in Seq(S), NEW i \in DOMAIN c
  PROVE  c[i] \in S
OBVIOUS

(* A commit stays where it is: Canon only grows, and rows keep their basis. *)
LEMMA CommittedStays ==
  ASSUME TypeOK, TypeOK', CanonMove, NEW x \in Tasks, Effects(x), Committed(x)
  PROVE  Committed(x)'
<1>1. /\ Len(canon) \in Nat /\ Len(canon') \in Nat /\ task[x].basis \in Nat
      /\ canon \in Seq([task : Tasks, att : 0 .. MaxAttempts])
  BY Columns DEF TypeOK
<1>2. /\ Len(canon') >= Len(canon)
      /\ \A i \in 1 .. Len(canon) : canon'[i] = canon[i]
  <2>1. CASE canon' = canon
    BY <1>1, <2>1
  <2>2. CASE canon' # canon
    <3>1. PICK t \in Tasks, k \in 0 .. MaxAttempts :
                 canon' = Append(canon, [task |-> t, att |-> k])
      BY <2>2 DEF CanonMove, Requested
    <3>2. QED
      BY <1>1, <3>1, AppendOne
  <2>3. QED
    BY <2>1, <2>2
<1>3. task'[x].exists /\ task'[x].basis = task[x].basis
  BY DEF Effects, OldRow, NewRow, NoRow, Committed
<1>4. task[x].basis + 1 \in 1 .. Len(canon) /\ canon[task[x].basis + 1].task = x
  BY <1>1 DEF Committed
<1>5. canon'[task'[x].basis + 1].task = x /\ task'[x].basis < Len(canon')
  BY <1>1, <1>2, <1>3, <1>4
<1>6. QED
  BY <1>3, <1>5 DEF Committed

(* The invariant about Canon is inductive. *)
LEMMA CanonMovesPreserve ==
  ASSUME CanonInv, AttemptInv', CanonMove, \A x \in Tasks : Effects(x)
  PROVE  CanonInv'
<1>0. /\ TypeOK /\ TypeOK' /\ Len(canon) \in Nat
      /\ canon \in Seq([task : Tasks, att : 0 .. MaxAttempts])
      /\ receipt \in [Tasks -> [0 .. MaxAttempts -> Receipts]]
      /\ \A x \in Tasks : task[x].basis \in Nat /\ task'[x].basis \in Nat
  BY Columns DEF CanonInv, AttemptInv, TypeOK
<1>1. WritersExist'
  BY DEF WritersExist, CanonInv, Effects, FenceMove, OldRow, NewRow, NoRow
<1>2. \A x \in Tasks : Committed(x) => Committed(x)'
  BY <1>0, CommittedStays
<1>3. ReceiptsInCanon'
  <2> SUFFICES ASSUME NEW x \in Tasks, NEW j \in 0 .. MaxAttempts,
                      receipt'[x][j] = "ACCEPTED"
               PROVE  Committed(x)'
    BY DEF ReceiptsInCanon
  <2>1. CASE receipt[x][j] = "ACCEPTED"
    BY <1>2, <2>1 DEF CanonInv, ReceiptsInCanon
  <2>2. CASE receipt[x][j] # "ACCEPTED"
    <3>1. PICK t \in Tasks, k \in 0 .. MaxAttempts, r \in Receipts : Requested(t, k, r)
      BY <2>2 DEF CanonMove
    <3>2. x = t /\ j = k /\ r = "ACCEPTED"
      <4>1. receipt' = [receipt EXCEPT ![t][k] = r]
        BY <3>1 DEF Requested
      <4>2. x = t /\ j = k
        <5>1. receipt'[x][j] # receipt[x][j]
          BY <2>2
        <5>2. QED
          BY <1>0, <4>1, <5>1
      <4>3. receipt'[t][k] = r
        BY <1>0, <4>1
      <4>4. QED
        BY <4>2, <4>3
    <3>3. /\ task[x].exists /\ task[x].basis = Len(canon)
          /\ canon' = Append(canon, [task |-> x, att |-> k])
      BY <3>1, <3>2 DEF Requested
    <3>4. task'[x].exists /\ task'[x].basis = task[x].basis
      BY <3>3 DEF Effects, OldRow, NewRow, NoRow
    <3>5. Len(canon') = Len(canon) + 1 /\ canon'[Len(canon) + 1].task = x
      BY <1>0, <3>3, AppendOne
    <3>6. QED
      BY <1>0, <3>3, <3>4, <3>5 DEF Committed
  <2>3. QED
    BY <2>1, <2>2
<1>4. CanonLineage'
  <2> SUFFICES ASSUME NEW i \in DOMAIN canon'
               PROVE  /\ task'[canon'[i].task].exists
                      /\ task'[canon'[i].task].basis = i - 1
                      /\ receipt'[canon'[i].task][canon'[i].att] = "ACCEPTED"
    BY DEF CanonLineage
  <2>1. ASSUME i \in DOMAIN canon, canon'[i] = canon[i]
        PROVE  /\ task'[canon'[i].task].exists
               /\ task'[canon'[i].task].basis = i - 1
               /\ receipt'[canon'[i].task][canon'[i].att] = "ACCEPTED"
    <3>1. canon[i] \in [task : Tasks, att : 0 .. MaxAttempts]
      BY <1>0, <2>1, ElementOf
    <3>2. /\ task[canon[i].task].exists /\ task[canon[i].task].basis = i - 1
          /\ receipt[canon[i].task][canon[i].att] = "ACCEPTED"
      BY <2>1 DEF CanonInv, CanonLineage
    <3>3. /\ task'[canon[i].task].exists
          /\ task'[canon[i].task].basis = task[canon[i].task].basis
      BY <3>1, <3>2 DEF Effects, OldRow, NewRow, NoRow
    <3>4. receipt'[canon[i].task][canon[i].att] = "ACCEPTED"
      <4>1. CASE receipt' = receipt
        BY <3>2, <4>1
      <4>2. ASSUME NEW t \in Tasks, NEW k \in 0 .. MaxAttempts, NEW r, Requested(t, k, r)
            PROVE  receipt'[canon[i].task][canon[i].att] = "ACCEPTED"
        <5>1. receipt' = [receipt EXCEPT ![t][k] = r] /\ receipt[t][k] = "none"
          BY <4>2 DEF Requested
        <5>2. canon[i].task \in Tasks /\ canon[i].att \in 0 .. MaxAttempts
          BY <3>1
        <5>3. QED
          BY <1>0, <3>2, <5>1, <5>2
      <4>3. QED
        BY <4>1, <4>2 DEF CanonMove
    <3>5. QED
      BY <2>1, <3>2, <3>3, <3>4
  <2>2. CASE UNCHANGED <<canon, receipt>>
    BY <2>1, <2>2
  <2>3. ASSUME NEW t \in Tasks, NEW k \in 0 .. MaxAttempts, NEW r \in Receipts,
               Requested(t, k, r)
        PROVE  /\ task'[canon'[i].task].exists
               /\ task'[canon'[i].task].basis = i - 1
               /\ receipt'[canon'[i].task][canon'[i].att] = "ACCEPTED"
    <3>1. CASE canon' = canon
      BY <2>1, <3>1
    <3>2. CASE canon' # canon
      <4>1. /\ task[t].exists /\ task[t].basis = Len(canon)
            /\ canon' = Append(canon, [task |-> t, att |-> k])
            /\ receipt' = [receipt EXCEPT ![t][k] = "ACCEPTED"]
        BY <2>3, <3>2 DEF Requested
      <4>2. CASE i <= Len(canon)
        BY <1>0, <2>1, <4>1, <4>2
      <4>3. CASE ~(i <= Len(canon))
        <5>1. i = Len(canon) + 1 /\ canon'[i] = [task |-> t, att |-> k]
          BY <1>0, <4>1, <4>3
        <5>2. task'[t].exists /\ task'[t].basis = task[t].basis
          BY <4>1 DEF Effects, OldRow, NewRow, NoRow
        <5>3. receipt'[t][k] = "ACCEPTED"
          BY <1>0, <4>1
        <5>4. QED
          BY <1>0, <4>1, <5>1, <5>2, <5>3
      <4>4. QED
        BY <4>2, <4>3
    <3>3. QED
      BY <3>1, <3>2
  <2>4. QED
    BY <2>2, <2>3 DEF CanonMove
<1>5. \A x \in Tasks : AcceptedNow(x) => Committed(x)'
  BY <1>3 DEF ReceiptsInCanon, AcceptedNow
<1>6. SucceededIsCommitted'
  <2> SUFFICES ASSUME NEW x \in Tasks, task'[x].exists, task'[x].status = "SUCCEEDED",
                      Committing(x)
               PROVE  Committed(x)'
    BY DEF SucceededIsCommitted, Committing, Committed, CommitKind
  <2>1. task[x].exists /\ (task[x].status = "SUCCEEDED" \/ AcceptedNow(x))
    BY DEF Effects, OldRow, NewRow, NoRow
  <2>2. task[x].status = "SUCCEEDED" => Committed(x)
    BY <2>1 DEF CanonInv, SucceededIsCommitted, Committing, Committed
  <2>3. QED
    BY <1>2, <1>5, <2>1, <2>2
<1>7. SuccessorOnCommit'
  <2> SUFFICES ASSUME NEW x \in Tasks, task'[x].exists, NEW d \in DepsOf[x], Committing(d)
               PROVE  /\ task'[x].basis = task'[d].basis + 1
                      /\ task'[x].basis <= Len(canon')
                      /\ canon'[task'[x].basis].task = d
    BY DEF SuccessorOnCommit, Committing, CommitKind
  <2>1. d \in Tasks /\ Len(canon') \in Nat
    BY <1>0, ConstantsAssumption DEF TypeOK
  <2>2. task[x].exists => Committed(d) /\ task[x].basis = task[d].basis + 1
    <3> SUFFICES ASSUME task[x].exists
                 PROVE  Committed(d) /\ task[x].basis = task[d].basis + 1
      OBVIOUS
    <3>1. /\ task[x].basis = task[d].basis + 1
          /\ task[x].basis <= Len(canon)
          /\ canon[task[x].basis].task = d
      BY DEF CanonInv, SuccessorOnCommit, Committing
    <3>2. task[x].basis \in DOMAIN canon
      BY <1>0, <2>1, <3>1
    <3>3. task[d].exists
      BY <3>1, <3>2 DEF CanonInv, CanonLineage
    <3>4. QED
      BY <1>0, <2>1, <3>1, <3>3 DEF Committed
  <2>3. /\ Committed(d)' /\ task[d].exists /\ task'[x].basis = task[d].basis + 1
    <3>1. CASE task[x].exists
      <4>1. task'[x].basis = task[x].basis
        BY <3>1 DEF Effects, OldRow, NewRow, NoRow
      <4>2. QED
        BY <1>2, <2>1, <2>2, <3>1, <4>1 DEF Committed
    <3>2. CASE ~task[x].exists
      BY <1>5, <2>1, <3>2 DEF Effects, OldRow, NewRow, NoRow
    <3>3. QED
      BY <3>1, <3>2
  <2>4. task'[d].basis = task[d].basis
    BY <2>1, <2>3 DEF Effects, OldRow, NewRow, NoRow
  <2>5. QED
    BY <1>0, <2>1, <2>3, <2>4 DEF Committed
<1>8. QED
  BY <1>1, <1>3, <1>4, <1>6, <1>7 DEF CanonInv

(* The invariant about generations is inductive. *)
LEMMA GenerationMovesPreserve ==
  ASSUME TypeOK, TypeOK', GenerationInv, LaneMove, \A x \in Tasks : Effects(x)
  PROVE  GenerationInv'
<1>1. lane.gen \in Nat /\ lane'.gen \in Nat /\ lane'.gen >= lane.gen
  BY DEF TypeOK, LaneMove
<1>2. ASSUME NEW t \in Tasks, NEW g \in Nat \ {0}, Holds(t, g)'
      PROVE  Holds(t, g) \/ Issued(t, g)
  <2>1. CASE task'[t].gen = g
    BY <1>2, <2>1 DEF Effects, Holds
  <2>2. CASE task'[t].gen # g
    <3>1. PICK n \in Attempts : fence'[t][n].gen = g
      BY <1>2, <2>2 DEF Holds
    <3>2. QED
      BY <3>1 DEF Effects, FenceMove, Holds
  <2>3. QED
    BY <2>1, <2>2
<1>3. ASSUME NEW t \in Tasks, NEW g \in Nat \ {0}, Holds(t, g)
      PROVE  g <= lane.gen /\ Committing(t) /\ \A u \in Tasks : Holds(u, g) => u = t
  BY <1>3 DEF GenerationInv
<1>4. SUFFICES ASSUME NEW t \in Tasks, NEW g \in Nat \ {0}, Holds(t, g)'
               PROVE  /\ g <= lane'.gen
                      /\ Committing(t)
                      /\ \A u \in Tasks : Holds(u, g)' => u = t
  BY DEF GenerationInv, Committing, CommitKind
<1>5. g <= lane'.gen /\ Committing(t)
  BY <1>1, <1>2, <1>3, <1>4 DEF Issued
<1>6. ASSUME NEW u \in Tasks, Holds(u, g)' PROVE u = t
  BY <1>1, <1>2, <1>3, <1>4, <1>6 DEF Issued
<1>7. QED
  BY <1>5, <1>6
-----------------------------------------------------------------------------
(* Every command has only these effects                                    *)

(* A row nobody writes. *)
LEMMA KeepRow ==
  ASSUME NEW x \in Tasks, task[x].exists \in BOOLEAN, task'[x] = task[x],
         \A n \in Attempts : fence'[x][n] = fence[x][n]
  PROVE  Effects(x)
BY DEF Effects, OldRow, NewRow, NoRow, FenceMove

(* A command that writes one existing row. *)
LEMMA WriteRow ==
  ASSUME TypeOK, NEW t \in Tasks, NEW row, NEW x \in Tasks,
         task' = [task EXCEPT ![t] = row], UNCHANGED fence,
         task[t].exists, row.exists, row.basis = task[t].basis,
         row.count = task[t].count, row.gen \in {0, task[t].gen},
         Committing(t) /\ row.status = "SUCCEEDED" => task[t].status = "SUCCEEDED"
  PROVE  Effects(x)
<1>1. task \in [Tasks -> TaskRows] /\ task[x].exists \in BOOLEAN
  BY Columns DEF TypeOK
<1>2. CASE x # t
  BY <1>1, <1>2, KeepRow
<1>3. CASE x = t
  <2>1. task'[x] = row
    BY <1>1, <1>3
  <2>2. QED
    BY <1>3, <2>1 DEF Effects, OldRow, FenceMove
<1>4. QED
  BY <1>2, <1>3

(* A worker's report moves the phase of its fence and nothing else. *)
LEMMA ReportFence ==
  ASSUME TypeOK, NEW t \in Tasks, NEW n \in Attempts, DoneWriting(t, n), task[t].exists,
         NEW x \in Tasks
  PROVE  FenceMove(x) /\ (x # t => \A k \in Attempts : fence'[x][k] = fence[x][k])
<1>1. fence \in [Tasks -> [Attempts -> Fences]]
  BY DEF TypeOK
<1>2. fence' = [fence EXCEPT ![t][n].phase = "reported"]
  BY DEF DoneWriting
<1>3. \A k \in Attempts : fence'[x][k].gen = fence[x][k].gen
  BY <1>1, <1>2 DEF Fences
<1>4. x # t => \A k \in Attempts : fence'[x][k] = fence[x][k]
  BY <1>1, <1>2
<1>5. QED
  BY <1>3, <1>4 DEF FenceMove

(* A task other than the one settled, when successors are handed over: it  *)
(* is left alone or born after the settled task.                           *)
LEMMA InsertRow ==
  ASSUME TypeOK, NEW t \in Tasks, NEW rows, NEW succ, NEW basis, NEW x \in Tasks, x # t,
         rows[x] = task[x], task' = InsertSuccessors(rows, succ, basis),
         SuccessorsOk(t, succ, basis), task[t].exists,
         Committing(t) /\ succ # {} => basis = task[t].basis + 1 /\ AcceptedNow(t),
         \A n \in Attempts : fence'[x][n] = fence[x][n]
  PROVE  Effects(x)
<1>1. task[x].exists \in BOOLEAN
  BY Columns DEF TypeOK
<1>2. CASE x \in succ /\ ~task[x].exists
  <2>1. task'[x] = NewTask(x, basis, InitialBudget)
    BY <1>2 DEF InsertSuccessors
  <2>2. \A d \in DepsOf[x] : d = t
    BY <1>2, TopologyAssumption DEF SuccessorsOk
  <2>3. /\ task'[x].exists /\ task'[x].status # "SUCCEEDED" /\ task'[x].basis = basis
        /\ task'[x].gen = 0
    BY <2>1 DEF NewTask
  <2>4. QED
    BY <1>2, <2>2, <2>3 DEF Effects, NewRow, FenceMove
<1>3. CASE ~(x \in succ /\ ~task[x].exists)
  <2>1. task'[x] = task[x]
    BY <1>3 DEF InsertSuccessors
  <2>2. QED
    BY <1>1, <2>1, KeepRow
<1>4. QED
  BY <1>2, <1>3

(* A command that settles attempt n of t and hands over successors. *)
LEMMA SettleRow ==
  ASSUME TypeOK, NEW t \in Tasks, NEW row, NEW succ, NEW basis, NEW x \in Tasks,
         task' = InsertSuccessors([task EXCEPT ![t] = row], succ, basis),
         SuccessorsOk(t, succ, basis), task[t].exists,
         row.exists, row.basis = task[t].basis, row.count = task[t].count,
         row.gen = task[t].gen,
         Committing(t) /\ row.status = "SUCCEEDED" => AcceptedNow(t),
         Committing(t) /\ succ # {} => basis = task[t].basis + 1 /\ AcceptedNow(t),
         FenceMove(x) /\ (x # t => \A k \in Attempts : fence'[x][k] = fence[x][k])
  PROVE  Effects(x)
<1> DEFINE rows == [task EXCEPT ![t] = row]
<1>1. rows[t] = row /\ (x # t => rows[x] = task[x])
  BY DEF TypeOK
<1>2. task' = InsertSuccessors(rows, succ, basis)
  OBVIOUS
<1> HIDE DEF rows
<1>3. CASE x # t
  BY <1>1, <1>2, <1>3, InsertRow
<1>4. CASE x = t
  <2>1. task'[x] = row
    BY <1>1, <1>2, <1>4 DEF InsertSuccessors
  <2>2. QED
    BY <1>4, <2>1 DEF Effects, OldRow
<1>5. QED
  BY <1>3, <1>4

(* A request of the commit service: the receipt it leaves, and Canon. *)
LEMMA RequestMove ==
  ASSUME TypeOK, NEW t \in Tasks, NEW k \in 0 .. MaxAttempts, NEW valid, task[t].exists,
         CommitInSession(<<t, k>>, task[t].basis, valid)
  PROVE  /\ CanonMove
         /\ CommitResult(<<t, k>>, task[t].basis, valid) = "ACCEPTED" => AcceptedNow(t)
<1> DEFINE result == CommitResult(<<t, k>>, task[t].basis, valid)
<1>1. /\ receipt \in [Tasks -> [0 .. MaxAttempts -> Receipts]]
      /\ receipt[t][k] \in Receipts
  BY DEF TypeOK
<1>2. /\ receipt' = [receipt EXCEPT ![t][k] = result]
      /\ canon' = IF receipt[t][k] = "none" /\ result = "ACCEPTED"
                    THEN Append(canon, [task |-> t, att |-> k]) ELSE canon
  BY DEF CommitInSession
<1>3. receipt'[t][k] = result
  BY <1>1, <1>2
<1>4. result = "ACCEPTED" => AcceptedNow(t)
  BY <1>3 DEF AcceptedNow
<1>5. CASE receipt[t][k] # "none"
  <2>1. result = receipt[t][k]
    BY <1>5 DEF CommitResult
  <2> HIDE DEF result
  <2>2. receipt' = receipt /\ canon' = canon
    BY <1>1, <1>2, <1>5, <2>1
  <2>3. QED
    BY <1>4, <2>2 DEF CanonMove, result
<1>6. CASE receipt[t][k] = "none"
  <2>1. result \in Receipts /\ (result = "ACCEPTED" => task[t].basis = Len(canon))
    BY <1>6 DEF CommitResult, Receipts, CurrentCommit
  <2> HIDE DEF result
  <2>2. Requested(t, k, result)
    BY <1>2, <1>6, <2>1 DEF Requested
  <2>3. QED
    BY <1>4, <2>1, <2>2 DEF CanonMove, result
<1>7. QED
  BY <1>5, <1>6
(* Every command, seen from any one task, has these effects and no others. *)
LEMMA EveryEffect ==
  ASSUME CanonInv, GenerationInv, [Next]_vars, NEW x \in Tasks
  PROVE  Effects(x)
<1>0. /\ AttemptInv /\ TypeOK
      /\ task \in [Tasks -> TaskRows]
      /\ \A t \in Tasks : task[t] \in TaskRows /\ task[t].exists \in BOOLEAN
  BY Columns DEF CanonInv, AttemptInv, TypeOK
<1> USE DEF Cur
<1>1. ASSUME NEW t \in Tasks, NEW d \in Tasks, CreateTask(t, d) PROVE Effects(x)
  <2>1. ~Committing(d) /\ \A e \in DepsOf[t] : e = d
    BY <1>1, TopologyAssumption DEF CreateTask, Committing, CommitKind
  <2>2. CASE x # t
    BY <1>0, <1>1, <2>2, KeepRow DEF CreateTask
  <2>3. CASE x = t
    <3>1. task'[x] = NewTask(x, task[d].basis, InitialBudget) /\ UNCHANGED fence
      BY <1>0, <1>1, <2>3 DEF CreateTask
    <3>2. task'[x].exists /\ task'[x].status # "SUCCEEDED" /\ task'[x].gen = 0
      BY <3>1 DEF NewTask
    <3>3. ~task[x].exists
      BY <1>1, <2>3 DEF CreateTask
    <3>4. QED
      BY <2>1, <2>3, <3>1, <3>2, <3>3 DEF Effects, NewRow, FenceMove
  <2>4. QED
    BY <2>2, <2>3
<1>2. ASSUME NEW t \in Tasks, SupersedeTask(t) PROVE Effects(x)
  <2> DEFINE row == [Bumped(task[t]) EXCEPT !.status = "CANCELLED", !.superseded = TRUE,
                                            !.cause = TRUE]
  <2>1. /\ row.exists = task[t].exists /\ row.basis = task[t].basis
        /\ row.count = task[t].count /\ row.gen = task[t].gen /\ row.status = "CANCELLED"
    BY <1>0 DEF Bumped, TaskRows
  <2>2. task' = [task EXCEPT ![t] = row] /\ UNCHANGED fence /\ task[t].exists
    BY <1>2 DEF SupersedeTask
  <2> HIDE DEF row
  <2>3. QED
    BY <1>0, <2>1, <2>2, WriteRow
<1>3. ASSUME NEW t \in Tasks, NEW accepted \in BOOLEAN, NEW succ,
             CompleteWaitingTask(t, accepted, succ)
      PROVE  Effects(x)
  <2> DEFINE row == [Bumped(task[t]) EXCEPT
                       !.status = IF accepted THEN "SUCCEEDED" ELSE "CANCELLED"]
  <2>1. /\ row.exists = task[t].exists /\ row.basis = task[t].basis
        /\ row.count = task[t].count /\ row.gen = task[t].gen
    BY <1>0 DEF Bumped, TaskRows
  <2>2. /\ task' = InsertSuccessors([task EXCEPT ![t] = row], succ, task[t].basis)
        /\ SuccessorsOk(t, succ, task[t].basis) /\ UNCHANGED fence /\ task[t].exists
    BY <1>3 DEF CompleteWaitingTask
  <2>3. ~Committing(t)
    BY <1>3 DEF CompleteWaitingTask, Committing, CommitKind
  <2>4. FenceMove(x) /\ \A k \in Attempts : fence'[x][k] = fence[x][k]
    BY <2>2 DEF FenceMove
  <2> HIDE DEF row
  <2>5. QED
    BY <1>0, <2>1, <2>2, <2>3, <2>4, SettleRow
<1>4. ASSUME NEW t \in Tasks, Claim(t) PROVE Effects(x)
  <2> DEFINE n == task[t].count + 1
  <2>1. CASE x # t
    <3>1. task'[x] = task[x] /\ \A k \in Attempts : fence'[x][k] = fence[x][k]
      BY <1>0, <1>4, <2>1 DEF Claim, TypeOK
    <3>2. QED
      BY <1>0, <3>1, KeepRow
  <2>2. CASE x = t
    <3>1. /\ task'[t].exists = task[t].exists /\ task'[t].basis = task[t].basis
          /\ task'[t].status = "RUNNING" /\ task'[t].gen = task[t].gen
      BY <1>0, <1>4 DEF Claim, Bumped, TaskRows
    <3>2. task[t].exists /\ task[t].basis = Len(canon)
      BY <1>4 DEF Claim, Eligible, CurrentCommit
    <3>3. fence' = [fence EXCEPT ![t][n] = [rev |-> task[t].rev + 1, gen |-> task[t].gen,
                                            phase |-> "claimed"]]
      BY <1>4 DEF Claim
    <3>4. \A k \in Attempts :
            \/ fence'[t][k] = fence[t][k]
            \/ fence'[t][k].gen = task[t].gen /\ fence'[t][k].phase = "claimed"
      BY <1>0, <3>3 DEF TypeOK
    <3>5. FenceMove(t)
      BY <3>2, <3>4 DEF FenceMove
    <3>6. QED
      BY <2>2, <3>1, <3>2, <3>5 DEF Effects, OldRow
  <2>3. QED
    BY <2>1, <2>2
<1>5. ASSUME UNCHANGED <<task, fence>> PROVE Effects(x)
  BY <1>0, <1>5, KeepRow
<1>6. ASSUME NEW t \in Tasks, NEW id, SuspectExpiredAttempt(t, id) PROVE Effects(x)
  <2> DEFINE row == [Bumped(task[t]) EXCEPT !.status = "RECOVERY_PENDING"]
  <2>1. /\ row.exists = task[t].exists /\ row.basis = task[t].basis
        /\ row.count = task[t].count /\ row.gen = task[t].gen
        /\ row.status = "RECOVERY_PENDING"
    BY <1>0 DEF Bumped, TaskRows
  <2>2. task' = [task EXCEPT ![t] = row] /\ UNCHANGED fence /\ task[t].exists
    BY <1>0, <1>6, CurrentAttempt DEF SuspectExpiredAttempt
  <2> HIDE DEF row
  <2>3. QED
    BY <1>0, <2>1, <2>2, WriteRow
<1>7. ASSUME NEW t \in Tasks, NEW id, ReclaimExpiredAttempt(t, id) PROVE Effects(x)
  <2> DEFINE row == [Bumped(task[t]) EXCEPT !.status = "WAITING_RETRY", !.cur = 0]
  <2>1. /\ row.exists = task[t].exists /\ row.basis = task[t].basis
        /\ row.count = task[t].count /\ row.gen = task[t].gen
        /\ row.status = "WAITING_RETRY"
    BY <1>0 DEF Bumped, TaskRows
  <2>2. task' = [task EXCEPT ![t] = row] /\ UNCHANGED fence /\ task[t].exists
    BY <1>0, <1>7, CurrentAttempt DEF ReclaimExpiredAttempt
  <2> HIDE DEF row
  <2>3. QED
    BY <1>0, <2>1, <2>2, WriteRow
<1>8. ASSUME NEW t \in Tasks, NEW n \in Attempts, NEW terminal, NEW failure, NEW succ,
             SettleAttempt(t, n, terminal, failure, succ)
      PROVE  Effects(x)
  <2> DEFINE status == SettledStatus(t, terminal, failure)
             row == [Bumped(task[t]) EXCEPT
                       !.status = status, !.cur = 0,
                       !.budget = Remaining(task[t], failure),
                       !.cause = task[t].cause \/ (status = "BLOCKED" /\ failure # "none")]
  <2>1. /\ row.exists = task[t].exists /\ row.basis = task[t].basis
        /\ row.count = task[t].count /\ row.gen = task[t].gen /\ row.status = status
    BY <1>0 DEF Bumped, TaskRows
  <2>2. /\ task' = InsertSuccessors([task EXCEPT ![t] = row], succ, task[t].basis)
        /\ SuccessorsOk(t, succ, task[t].basis) /\ DoneWriting(t, n) /\ task[t].cur = n
    BY <1>8 DEF SettleAttempt, WorkerFence, RequireFence, FenceCurrent
  <2>3. task[t].exists
    BY <1>0, <2>2, WorkerTask
  <2>4. Committing(t) => status # "SUCCEEDED" /\ succ = {}
    BY <1>8 DEF SettleAttempt, SettleTerminals, SettledStatus, Committing, CommitKind
  <2>5. FenceMove(x) /\ (x # t => \A k \in Attempts : fence'[x][k] = fence[x][k])
    BY <1>0, <2>2, <2>3, ReportFence
  <2> HIDE DEF row, status
  <2>6. QED
    BY <1>0, <2>1, <2>2, <2>3, <2>4, <2>5, SettleRow
<1>9. ASSUME NEW t \in Tasks, NEW n \in Attempts, NEW m \in Tasks,
             SettleGapAndCreateMaintenance(t, n, m)
      PROVE  Effects(x)
  <2>1. task[t].exists /\ ~task[m].exists /\ m # t /\ DepsOf[m] = {}
    <3>1. task[t].cur = n /\ ~task[m].exists /\ DepsOf[m] = {}
      BY <1>9 DEF SettleGapAndCreateMaintenance, WorkerFence, RequireFence, FenceCurrent
    <3>2. QED
      BY <1>0, <3>1, WorkerTask
  <2>2. FenceMove(x) /\ UNCHANGED fence
    BY <1>9 DEF SettleGapAndCreateMaintenance, FenceMove
  <2>3. CASE x = t
    <3>1. /\ task'[t].exists = task[t].exists /\ task'[t].basis = task[t].basis
          /\ task'[t].count = task[t].count /\ task'[t].gen = task[t].gen
          /\ task'[t].status = "BLOCKED"
      BY <1>0, <1>9, <2>1 DEF SettleGapAndCreateMaintenance, Bumped, TaskRows
    <3>2. QED
      BY <2>1, <2>2, <2>3, <3>1 DEF Effects, OldRow
  <2>4. CASE x = m
    <3>1. task'[m] = NewTask(m, task[t].basis, InitialBudget)
      BY <1>0, <1>9, <2>1 DEF SettleGapAndCreateMaintenance
    <3>2. task'[m].exists /\ task'[m].status # "SUCCEEDED" /\ task'[m].gen = 0
      BY <3>1 DEF NewTask
    <3>3. QED
      BY <2>1, <2>2, <2>4, <3>2 DEF Effects, NewRow
  <2>5. CASE x \notin {t, m}
    BY <1>0, <1>9, <2>2, <2>5, KeepRow DEF SettleGapAndCreateMaintenance
  <2>6. QED
    BY <2>3, <2>4, <2>5
<1>10. ASSUME NEW t \in Tasks, NEW n \in Attempts, NEW r \in Tasks,
              SettleMaintenanceAndRetryPlanner(t, n, r)
       PROVE  Effects(x)
  <2> DEFINE p == PlannerOf[t]
  <2>1. /\ p \in Tasks /\ task[p].exists /\ p # t /\ r \notin {t, p} /\ ~task[r].exists
        /\ DepsOf[r] = {t} /\ task[t].cur = n /\ DoneWriting(t, n)
        /\ KindOf[p] = "PLAN_CANDIDATE" /\ CommitAdvancesBasis(t, 0)
        /\ UNCHANGED <<canon, receipt>>
    BY <1>10, ConstantsAssumption
       DEF SettleMaintenanceAndRetryPlanner, WorkerFence, RequireFence, FenceCurrent
  <2>2. task[t].exists
    BY <1>0, <2>1, WorkerTask
  <2>3. FenceMove(x) /\ (x # t => \A k \in Attempts : fence'[x][k] = fence[x][k])
    BY <1>0, <2>1, <2>2, ReportFence
  <2>4. AcceptedNow(t) /\ CurrentCommit = task[t].basis + 1
    BY <2>1, ConstantsAssumption DEF CommitAdvancesBasis, AcceptedNow
  <2>5. CASE x = t
    <3>1. /\ task'[t].exists = task[t].exists /\ task'[t].basis = task[t].basis
          /\ task'[t].count = task[t].count /\ task'[t].gen = task[t].gen
      BY <1>0, <1>10, <2>1 DEF SettleMaintenanceAndRetryPlanner, Bumped, TaskRows
    <3>2. QED
      BY <2>2, <2>3, <2>4, <2>5, <3>1 DEF Effects, OldRow
  <2>6. CASE x = p
    <3>1. /\ task'[p].exists = task[p].exists /\ task'[p].basis = task[p].basis
          /\ task'[p].count = task[p].count /\ task'[p].gen = task[p].gen
          /\ task'[p].status = "CANCELLED"
      BY <1>0, <1>10, <2>1 DEF SettleMaintenanceAndRetryPlanner, Bumped, TaskRows
    <3>2. QED
      BY <2>1, <2>3, <2>6, <3>1 DEF Effects, OldRow
  <2>7. CASE x = r
    <3>1. task[p].gen = 0
      <4>1. task[p].gen \in Nat
        BY <1>0, <2>1, Columns
      <4>2. ~Committing(p)
        BY <2>1 DEF Committing, CommitKind
      <4>3. QED
        BY <2>1, <4>1, <4>2 DEF GenerationInv, Holds
    <3>2. task'[r] = [NewTask(r, CurrentCommit, task[p].budget) EXCEPT
                        !.paused = task[p].paused, !.cancel = task[p].cancel,
                        !.gen = task[p].gen]
      BY <1>0, <1>10, <2>1 DEF SettleMaintenanceAndRetryPlanner
    <3>3. /\ task'[r].exists /\ task'[r].status # "SUCCEEDED" /\ task'[r].gen = 0
          /\ task'[r].basis = CurrentCommit
      BY <3>1, <3>2 DEF NewTask
    <3>4. QED
      BY <2>1, <2>2, <2>3, <2>4, <2>7, <3>3 DEF Effects, NewRow
  <2>8. CASE x \notin {t, p, r}
    <3>1. task'[x] = task[x]
      BY <1>0, <1>10, <2>8 DEF SettleMaintenanceAndRetryPlanner
    <3>2. QED
      BY <1>0, <2>3, <2>8, <3>1, KeepRow
  <2>9. QED
    BY <2>5, <2>6, <2>7, <2>8
<1>11. ASSUME NEW t \in Tasks, NEW n \in Attempts, NEW status,
              RecordEffectTerminal(t, n, status)
       PROVE  Effects(x)
  <2>1. task[t].cur = n /\ DoneWriting(t, n) /\ UNCHANGED task
    BY <1>11 DEF RecordEffectTerminal, WorkerFence, RequireFence, FenceCurrent
  <2>2. FenceMove(x)
    BY <1>0, <2>1, WorkerTask, ReportFence
  <2>3. QED
    BY <1>0, <2>1, <2>2 DEF Effects, OldRow, NewRow, NoRow
<1>12. ASSUME NEW t \in Tasks, NEW terminal, NEW failure, NEW id,
              OperatorReconcileAttempt(t, terminal, failure, id)
       PROVE  Effects(x)
  <2> DEFINE status == IF terminal = "WAITING_RETRY" /\ Remaining(task[t], failure) = 0
                         THEN "BUDGET_REVIEW" ELSE terminal
             row == [Bumped(task[t]) EXCEPT !.status = status, !.cur = 0,
                                  !.budget = Remaining(task[t], failure),
                                  !.paused = (status = "CANCELLED"),
                                  !.cause = task[t].cause \/ status = "BLOCKED"]
  <2>1. /\ row.exists = task[t].exists /\ row.basis = task[t].basis
        /\ row.count = task[t].count /\ row.gen = task[t].gen /\ row.status = status
    BY <1>0 DEF Bumped, TaskRows
  <2>2. /\ task' = [task EXCEPT ![t] = row] /\ UNCHANGED fence /\ task[t].exists
        /\ status # "SUCCEEDED"
    BY <1>0, <1>12, CurrentAttempt DEF OperatorReconcileAttempt
  <2> HIDE DEF row, status
  <2>3. QED
    BY <1>0, <2>1, <2>2, WriteRow
<1>13. ASSUME NEW t \in Tasks, NEW id, MarkRecoveryPending(t, id) PROVE Effects(x)
  <2> DEFINE row == [Bumped(task[t]) EXCEPT !.status = "RECOVERY_PENDING"]
  <2>1. /\ row.exists = task[t].exists /\ row.basis = task[t].basis
        /\ row.count = task[t].count /\ row.gen = task[t].gen
        /\ row.status = "RECOVERY_PENDING"
    BY <1>0 DEF Bumped, TaskRows
  <2>2. task' = [task EXCEPT ![t] = row] /\ UNCHANGED fence /\ task[t].exists
    BY <1>13 DEF MarkRecoveryPending
  <2> HIDE DEF row
  <2>3. QED
    BY <1>0, <2>1, <2>2, WriteRow
<1>14. ASSUME NEW t \in Tasks, NEW action \in {"pause", "cancel", "retry"}, NEW id,
              Control(t, action, id)
       PROVE  Effects(x)
  <2> DEFINE status == CASE action = "retry" -> ReadyOrReview(t)
                         [] action = "pause" /\ Cur(t) = 0 -> "PENDING"
                         [] action = "pause" /\ Cur(t) # 0 -> task[t].status
                         [] action = "cancel" /\ Cur(t) = 0 -> "CANCELLED"
                         [] action = "cancel" /\ Cur(t) # 0 -> "RECOVERY_PENDING"
             gen == IF action = "retry" THEN GenAfterRelease(t) ELSE task[t].gen
             row == [Bumped(task[t]) EXCEPT
                       !.status = status, !.paused = action \in {"pause", "cancel"},
                       !.cancel = (action = "cancel"), !.gen = gen]
  <2>1. /\ row.exists = task[t].exists /\ row.basis = task[t].basis
        /\ row.count = task[t].count /\ row.gen = gen /\ row.status = status
    BY <1>0 DEF Bumped, TaskRows
  <2>2. task' = [task EXCEPT ![t] = row] /\ UNCHANGED fence /\ task[t].exists
    BY <1>14 DEF Control
  <2>3. gen \in {0, task[t].gen}
    BY DEF GenAfterRelease
  <2>4. status = "SUCCEEDED" => task[t].status = "SUCCEEDED"
    BY DEF ReadyOrReview
  <2> HIDE DEF row, status, gen
  <2>5. QED
    BY <1>0, <2>1, <2>2, <2>3, <2>4, WriteRow
<1>15. ASSUME NEW t \in Tasks, NEW k, NEW id, ExtendBudget(t, k, id) PROVE Effects(x)
  <2> DEFINE row == [Bumped(task[t]) EXCEPT !.status = "READY",
                                  !.budget = task[t].budget + k,
                                  !.granted = task[t].granted + k]
  <2>1. /\ row.exists = task[t].exists /\ row.basis = task[t].basis
        /\ row.count = task[t].count /\ row.gen = task[t].gen /\ row.status = "READY"
    BY <1>0 DEF Bumped, TaskRows
  <2>2. task' = [task EXCEPT ![t] = row] /\ UNCHANGED fence /\ task[t].exists
    BY <1>15 DEF ExtendBudget
  <2> HIDE DEF row
  <2>3. QED
    BY <1>0, <2>1, <2>2, WriteRow
<1>16. ASSUME NEW t \in Tasks, NEW id, Unblock(t, id) PROVE Effects(x)
  <2> DEFINE row == [Bumped(task[t]) EXCEPT !.status = ReadyOrReview(t), !.cause = FALSE,
                                  !.gen = GenAfterRelease(t)]
  <2>1. /\ row.exists = task[t].exists /\ row.basis = task[t].basis
        /\ row.count = task[t].count /\ row.gen = GenAfterRelease(t)
        /\ row.status = ReadyOrReview(t)
    BY <1>0 DEF Bumped, TaskRows
  <2>2. /\ task' = [task EXCEPT ![t] = row] /\ UNCHANGED fence /\ task[t].exists
        /\ ReadyOrReview(t) # "SUCCEEDED" /\ GenAfterRelease(t) \in {0, task[t].gen}
    BY <1>16 DEF Unblock, ReadyOrReview, GenAfterRelease
  <2> HIDE DEF row
  <2>3. QED
    BY <1>0, <2>1, <2>2, WriteRow
<1>17. ASSUME NEW t \in Tasks, NEW id, Resume(t, id) PROVE Effects(x)
  <2> DEFINE row == [Bumped(task[t]) EXCEPT !.status = ReadyOrReview(t), !.paused = FALSE,
                                  !.cancel = FALSE]
  <2>1. /\ row.exists = task[t].exists /\ row.basis = task[t].basis
        /\ row.count = task[t].count /\ row.gen = task[t].gen
        /\ row.status = ReadyOrReview(t)
    BY <1>0 DEF Bumped, TaskRows
  <2>2. /\ task' = [task EXCEPT ![t] = row] /\ UNCHANGED fence /\ task[t].exists
        /\ ReadyOrReview(t) # "SUCCEEDED"
    BY <1>17 DEF Resume, ReadyOrReview
  <2> HIDE DEF row
  <2>3. QED
    BY <1>0, <2>1, <2>2, WriteRow
<1>18. ASSUME NEW t \in Tasks, NEW n \in Attempts, ClaimWriterLane(t, n) PROVE Effects(x)
  <2>1. /\ task[t].cur = n /\ Committing(t)
        /\ lane'.gen = lane.gen + 1 /\ lane'.task = t
        /\ task' = [task EXCEPT ![t] = [Bumped(@) EXCEPT !.gen = lane.gen + 1]]
        /\ fence' = [fence EXCEPT ![t][n].gen = lane.gen + 1, ![t][n].phase = "writing"]
    BY <1>18 DEF ClaimWriterLane, FenceCurrent, NextGeneration, Committing
  <2>2. task[t].exists
    BY <1>0, <2>1, WorkerTask
  <2>3. CASE x # t
    <3>1. task'[x] = task[x] /\ \A k \in Attempts : fence'[x][k] = fence[x][k]
      BY <1>0, <2>1, <2>3 DEF TypeOK
    <3>2. QED
      BY <1>0, <3>1, KeepRow
  <2>4. CASE x = t
    <3>1. /\ task'[t].exists = task[t].exists /\ task'[t].basis = task[t].basis
          /\ task'[t].count = task[t].count /\ task'[t].status = task[t].status
          /\ task'[t].gen = lane.gen + 1
      BY <1>0, <2>1 DEF Bumped, TaskRows
    <3>2. \A k \in Attempts :
            \/ fence'[t][k] = fence[t][k]
            \/ fence'[t][k].gen = lane.gen + 1
      BY <1>0, <2>1 DEF TypeOK, Fences
    <3>3. FenceMove(t)
      BY <2>1, <2>2, <3>2 DEF FenceMove, Issued
    <3>4. QED
      BY <2>1, <2>2, <2>4, <3>1, <3>3 DEF Effects, OldRow, Issued
  <2>5. QED
    BY <2>3, <2>4
<1>19. ASSUME NEW t \in Tasks, NEW n \in Attempts, NEW valid, NEW succ,
              CommitAcceptedCandidate(t, n, valid, succ)
       PROVE  Effects(x)
  <2> DEFINE result == CommitResult(<<t, 0>>, task[t].basis, valid)
             failure == IF result = "ACCEPTED" THEN "none" ELSE "consuming"
             row == [Bumped(task[t]) EXCEPT
                       !.status = IF result = "ACCEPTED" THEN "SUCCEEDED" ELSE "BLOCKED",
                       !.cur = 0, !.budget = Remaining(task[t], failure),
                       !.cause = task[t].cause \/ result # "ACCEPTED"]
  <2>1. /\ row.exists = task[t].exists /\ row.basis = task[t].basis
        /\ row.count = task[t].count /\ row.gen = task[t].gen
        /\ row.status = "SUCCEEDED" => result = "ACCEPTED"
    BY <1>0 DEF Bumped, TaskRows
  <2>2. /\ task' = InsertSuccessors([task EXCEPT ![t] = row], succ, CommittedBasis(t))
        /\ SuccessorsOk(t, succ, CommittedBasis(t)) /\ DoneWriting(t, n) /\ task[t].cur = n
        /\ CommitInSession(<<t, 0>>, task[t].basis, valid)
        /\ succ # {} => result = "ACCEPTED"
    BY <1>19 DEF CommitAcceptedCandidate, WorkerFence, RequireFence, FenceCurrent
  <2>3. task[t].exists
    BY <1>0, <2>2, WorkerTask
  <2>4. result = "ACCEPTED" => AcceptedNow(t)
    <3>1. 0 \in 0 .. MaxAttempts
      BY ConstantsAssumption
    <3>2. QED
      BY <1>0, <2>2, <2>3, <3>1, RequestMove
  <2>5. FenceMove(x) /\ (x # t => \A k \in Attempts : fence'[x][k] = fence[x][k])
    BY <1>0, <2>2, <2>3, ReportFence
  <2> HIDE DEF row, result, failure
  <2>6. QED
    BY <1>0, <2>1, <2>2, <2>3, <2>4, <2>5, SettleRow DEF CommittedBasis
<1>20. ASSUME NEW t \in Tasks, NEW n \in Attempts, NEW k \in 0 .. MaxAttempts, NEW succ,
              task[t].exists, SettleExternalCommit(t, n, k, succ),
              FenceMove(x) /\ (x # t => \A j \in Attempts : fence'[x][j] = fence[x][j])
       PROVE  Effects(x)
  <2> DEFINE row == [Bumped(task[t]) EXCEPT !.status = "SUCCEEDED", !.cur = 0]
  <2>1. /\ row.exists = task[t].exists /\ row.basis = task[t].basis
        /\ row.count = task[t].count /\ row.gen = task[t].gen
    BY <1>0 DEF Bumped, TaskRows
  <2>2. /\ task' = InsertSuccessors([task EXCEPT ![t] = row], succ, CommittedBasis(t))
        /\ SuccessorsOk(t, succ, CommittedBasis(t))
        /\ receipt[t][k] = "ACCEPTED" /\ UNCHANGED receipt
    BY <1>20 DEF SettleExternalCommit, CommitAdvancesBasis
  <2>3. AcceptedNow(t)
    BY <2>2 DEF AcceptedNow
  <2> HIDE DEF row
  <2>4. QED
    BY <1>0, <1>20, <2>1, <2>2, <2>3, SettleRow DEF CommittedBasis
<1>21. ASSUME NEW t \in Tasks, NEW n \in Attempts, NEW succ, RecordExternalCommit(t, n, succ)
       PROVE  Effects(x)
  <2>1. /\ task[t].cur = n /\ DoneWriting(t, n) /\ SettleExternalCommit(t, n, n, succ)
        /\ n \in 0 .. MaxAttempts
    BY <1>21, ConstantsAssumption
       DEF RecordExternalCommit, WorkerFence, RequireFence, FenceCurrent, Attempts
  <2>2. task[t].exists
    BY <1>0, <2>1, WorkerTask
  <2>3. FenceMove(x) /\ (x # t => \A k \in Attempts : fence'[x][k] = fence[x][k])
    BY <1>0, <2>1, <2>2, ReportFence
  <2>4. QED
    BY <1>20, <2>1, <2>2, <2>3
<1>22. ASSUME NEW t \in Tasks, NEW succ, ReconcileExternalCommit(t, succ) PROVE Effects(x)
  <2>1. /\ task[t].cur \in Attempts /\ task[t].exists /\ UNCHANGED fence
        /\ SettleExternalCommit(t, task[t].cur, 1, succ) /\ 1 \in 0 .. MaxAttempts
    BY <1>0, <1>22, CurrentAttempt, ConstantsAssumption DEF ReconcileExternalCommit
  <2>2. FenceMove(x)
    BY <2>1 DEF FenceMove
  <2>3. QED
    BY <1>20, <2>1, <2>2
<1>23. CASE UNCHANGED vars
  BY <1>5, <1>23 DEF vars
<1>24. ASSUME NEW t \in Tasks, NEW n \in Attempts,
              \/ LeaseExpires(t) \/ MarkStarted(t, n) \/ Heartbeat(t, n)
              \/ RecordEffectRequested(t, n)
              \/ \E status, id : ReconcileEffect(t, n, status, id)
              \/ \E valid : Stage2WCommit(t, n, valid)
       PROVE  Effects(x)
  BY <1>5, <1>24 DEF LeaseExpires, MarkStarted, Heartbeat, RecordEffectRequested,
                     ReconcileEffect, Stage2WCommit
<1>25. ASSUME NEW t \in Tasks, LeaseExpires(t) PROVE Effects(x)
  BY <1>5, <1>25 DEF LeaseExpires
<1>26. ASSUME NEW t \in Tasks, RuntimeStep(t) PROVE Effects(x)
  BY <1>1, <1>2, <1>3, <1>4, <1>22, <1>25, <1>26 DEF RuntimeStep
<1>27. ASSUME NEW t \in Tasks, NEW n \in Attempts, WorkerStep(t, n) PROVE Effects(x)
  BY <1>8, <1>9, <1>10, <1>11, <1>18, <1>19, <1>21, <1>24, <1>27 DEF WorkerStep
<1>28. ASSUME NEW t \in Tasks, NEW id \in CommandIds, OperatorStep(t, id) PROVE Effects(x)
  BY <1>6, <1>7, <1>12, <1>13, <1>14, <1>15, <1>16, <1>17, <1>24, <1>28 DEF OperatorStep
<1>29. QED
  BY <1>23, <1>26, <1>27, <1>28 DEF Next
(* Canon and its receipts change only by a request of an existing task,    *)
(* and the lane only by issuing the next generation.                       *)
LEMMA EveryCanonMove ==
  ASSUME CanonInv, [Next]_vars
  PROVE  CanonMove /\ LaneMove
<1>0. AttemptInv /\ TypeOK
  BY DEF CanonInv, AttemptInv
<1>1. ASSUME NEW t \in Tasks, NEW n \in Attempts, NEW valid, NEW succ,
             CommitAcceptedCandidate(t, n, valid, succ)
      PROVE  CanonMove /\ LaneMove
  <2>1. /\ task[t].cur = n /\ CommitInSession(<<t, 0>>, task[t].basis, valid)
        /\ UNCHANGED lane
    BY <1>1 DEF CommitAcceptedCandidate, WorkerFence, RequireFence, FenceCurrent
  <2>2. task[t].exists /\ 0 \in 0 .. MaxAttempts
    BY <1>0, <2>1, WorkerTask, ConstantsAssumption
  <2>3. CanonMove
    BY <1>0, <2>1, <2>2, RequestMove
  <2>4. QED
    BY <2>1, <2>3 DEF LaneMove
<1>2. ASSUME NEW t \in Tasks, NEW n \in Attempts, NEW valid, Stage2WCommit(t, n, valid)
      PROVE  CanonMove /\ LaneMove
  <2> DEFINE k == IF KindOf[t] = "MAINTENANCE" THEN 0 ELSE n
  <2>1. /\ CommitInSession(<<t, k>>, task[t].basis, valid) /\ UNCHANGED lane
        /\ fence[t][n].phase = "writing"
    BY <1>2 DEF Stage2WCommit, Stage2WKey
  <2>2. task[t].exists /\ k \in 0 .. MaxAttempts
    BY <2>1, ConstantsAssumption DEF CanonInv, WritersExist, Attempts
  <2> HIDE DEF k
  <2>3. CanonMove
    BY <1>0, <2>1, <2>2, RequestMove
  <2>4. QED
    BY <2>1, <2>3 DEF LaneMove
<1>3. ASSUME NEW t \in Tasks, NEW n \in Attempts, ClaimWriterLane(t, n)
      PROVE  CanonMove /\ LaneMove
  BY <1>3 DEF ClaimWriterLane, NextGeneration, CanonMove, LaneMove
<1>4. CASE UNCHANGED <<canon, receipt, lane>>
  BY <1>4 DEF CanonMove, LaneMove
<1>5. ASSUME NEW t \in Tasks, RuntimeStep(t) PROVE UNCHANGED <<canon, receipt, lane>>
  BY <1>5 DEF RuntimeStep, Claim, LeaseExpires, CreateTask, SupersedeTask,
              CompleteWaitingTask, ReconcileExternalCommit, SettleExternalCommit
<1>6. ASSUME NEW t \in Tasks, NEW id, OperatorStep(t, id)
      PROVE  UNCHANGED <<canon, receipt, lane>>
  BY <1>6 DEF OperatorStep, SuspectExpiredAttempt, ReclaimExpiredAttempt, ReconcileEffect,
              OperatorReconcileAttempt, MarkRecoveryPending, Control, ExtendBudget, Unblock,
              Resume
<1>7. ASSUME NEW t \in Tasks, NEW n \in Attempts, WorkerStep(t, n)
      PROVE  CanonMove /\ LaneMove
  <2>1. ASSUME \/ MarkStarted(t, n) \/ Heartbeat(t, n)
               \/ \E terminal, failure, succ : SettleAttempt(t, n, terminal, failure, succ)
               \/ \E m : SettleGapAndCreateMaintenance(t, n, m)
               \/ \E r : SettleMaintenanceAndRetryPlanner(t, n, r)
               \/ RecordEffectRequested(t, n)
               \/ RecordEffectTerminal(t, n, "COMPENSATED")
               \/ \E succ : RecordExternalCommit(t, n, succ)
        PROVE  UNCHANGED <<canon, receipt, lane>>
    BY <2>1 DEF MarkStarted, Heartbeat, SettleAttempt, SettleGapAndCreateMaintenance,
                SettleMaintenanceAndRetryPlanner, RecordEffectRequested,
                RecordEffectTerminal, RecordExternalCommit, SettleExternalCommit
  <2>2. QED
    BY <1>1, <1>2, <1>3, <1>4, <1>7, <2>1 DEF WorkerStep
<1>8. CASE UNCHANGED vars
  BY <1>4, <1>8 DEF vars
<1>9. QED
  BY <1>4, <1>5, <1>6, <1>7, <1>8 DEF Next

-----------------------------------------------------------------------------
(* Theorems                                                                *)

(* Both invariants hold in every reachable state.  They are one induction: *)
(* the Planner's copy takes over a generation, which GenerationInv shows   *)
(* to be zero.                                                             *)
LEMMA CanonInvariant == Spec => [](CanonInv /\ GenerationInv)
<1>1. Init => CanonInv /\ GenerationInv
  <2> SUFFICES ASSUME Init PROVE CanonInv /\ GenerationInv
    OBVIOUS
  <2>1. AttemptInv
    BY InitialAttempts
  <2>2. /\ canon = <<>> /\ lane.gen = 0
        /\ \A t \in Tasks, n \in Attempts : fence[t][n].phase = "claimed" /\ fence[t][n].gen = 0
        /\ \A t \in Tasks, k \in 0 .. MaxAttempts : receipt[t][k] = "none"
    BY DEF Init
  <2>3. \A t \in Tasks : /\ task[t].gen = 0 /\ task[t].status # "SUCCEEDED"
                         /\ task[t].exists => t \in InitialTasks
    BY DEF Init, NewTask, AbsentTask
  <2>4. CanonInv
    BY <2>1, <2>2, <2>3, TopologyAssumption
       DEF CanonInv, WritersExist, CanonLineage, ReceiptsInCanon, SucceededIsCommitted,
           SuccessorOnCommit
  <2>5. GenerationInv
    BY <2>2, <2>3 DEF GenerationInv, Holds
  <2>6. QED
    BY <2>4, <2>5
<1>2. CanonInv /\ GenerationInv /\ [Next]_vars => (CanonInv /\ GenerationInv)'
  <2> SUFFICES ASSUME CanonInv, GenerationInv, [Next]_vars
               PROVE  CanonInv' /\ GenerationInv'
    OBVIOUS
  <2>1. AttemptInv /\ AttemptInv' /\ TypeOK /\ TypeOK'
    <3>1. AttemptInv /\ TypeOK
      BY DEF CanonInv, AttemptInv
    <3>2. AttemptInv'
      BY <3>1, AttemptStep
    <3>3. QED
      BY <3>1, <3>2 DEF AttemptInv
  <2>2. CanonMove /\ LaneMove /\ \A x \in Tasks : Effects(x)
    BY EveryCanonMove, EveryEffect
  <2>3. QED
    BY <2>1, <2>2, CanonMovesPreserve, GenerationMovesPreserve
<1>3. QED
  BY <1>1, <1>2, PTL DEF Spec

(* Canon's history is one line: every commit stands on the basis its task  *)
(* was created on and has an accepted receipt, so no task commits twice,   *)
(* under whatever keys, late workers and replayed requests.                *)
THEOREM CanonIsOneLine == Spec => []CanonLineage
BY CanonInvariant, PTL DEF CanonInv

(* A commit or maintenance task that reads SUCCEEDED is the author of the  *)
(* commit on its basis, also when the success was recorded by recovery or  *)
(* from the receipt of an earlier attempt.                                 *)
THEOREM SuccessHasCommit == Spec => []SucceededIsCommitted
BY CanonInvariant, PTL DEF CanonInv

(* No row that depends on a commit exists before the commit or stands on   *)
(* another one.                                                            *)
THEOREM SuccessorsFollowCommits == Spec => []SuccessorOnCommit
BY CanonInvariant, PTL DEF CanonInv

(* No two tasks ever hold the same writer-lane generation, however often   *)
(* the lane is taken over.                                                 *)
THEOREM GenerationsAreDistinct == Spec => []GenerationsDistinct
<1>1. CanonInv /\ GenerationInv => GenerationsDistinct
  <2> SUFFICES ASSUME CanonInv, GenerationInv,
                      NEW t \in Tasks, NEW u \in Tasks, NEW n \in Attempts, NEW m \in Attempts
               PROVE  /\ fence[t][n].gen <= lane.gen
                      /\ fence[t][n].gen > 0 /\ fence[t][n].gen = fence[u][m].gen => t = u
    BY DEF GenerationsDistinct
  <2>1. fence[t][n].gen \in Nat /\ lane.gen \in Nat
    BY DEF CanonInv, AttemptInv, TypeOK, Fences
  <2>2. Holds(t, fence[t][n].gen) /\ Holds(u, fence[u][m].gen)
    BY DEF Holds
  <2>3. QED
    BY <2>1, <2>2 DEF GenerationInv
<1>2. QED
  BY <1>1, CanonInvariant, PTL

(* A task whose commit is in Canon is never claimed again, whatever        *)
(* operators do to its status.                                             *)
THEOREM CommittedStaysUnclaimed == Spec => CommittedNeverReclaimed
<1>1. CanonInv /\ GenerationInv /\ [Next]_vars
        => [\A i \in DOMAIN canon :
              task'[canon[i].task].count = task[canon[i].task].count]_vars
  <2> SUFFICES ASSUME CanonInv, GenerationInv, [Next]_vars, NEW i \in DOMAIN canon
               PROVE  task'[canon[i].task].count = task[canon[i].task].count
    OBVIOUS
  <2>1. /\ canon \in Seq([task : Tasks, att : 0 .. MaxAttempts])
        /\ Len(canon) \in Nat /\ i \in 1 .. Len(canon)
    BY DEF CanonInv, AttemptInv, TypeOK
  <2>2. canon[i].task \in Tasks
    <3>1. canon[i] \in [task : Tasks, att : 0 .. MaxAttempts]
      BY <2>1, ElementOf
    <3>2. QED
      BY <3>1
  <2>3. task[canon[i].task].exists /\ task[canon[i].task].basis = i - 1
    BY DEF CanonInv, CanonLineage
  <2>4. Effects(canon[i].task)
    BY <2>2, EveryEffect
  <2>5. QED
    BY <2>1, <2>3, <2>4 DEF Effects, OldRow, NewRow, NoRow
<1>2. QED
  BY <1>1, CanonInvariant, PTL DEF Spec, CommittedNeverReclaimed
=============================================================================
