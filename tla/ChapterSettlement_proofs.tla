---------------------- MODULE ChapterSettlement_proofs ----------------------
(***************************************************************************)
(* The safety of chapter settlement, for any number of runners, attempts,  *)
(* kills and commits of other runs.                                        *)
(***************************************************************************)
EXTENDS ChapterSettlement, FiniteSetTheorems, TLAPS

-----------------------------------------------------------------------------
(* The inductive invariant                                                 *)

(* advance() between the claim and the end of the attempt, and the part of *)
(* it before Stage 2W answered.                                            *)
Asking == {"claimed", "laned", "requested", "stage2w"}
Working == Asking \cup {"committed", "compensate", "settle"}

(* The row's current attempt is its last. *)
RowInv ==
  task.cur # 0 => /\ task.cur = task.count
                  /\ task.status \in {"RUNNING", "RECOVERY_PENDING"}

(* No two runners work on the same attempt: a claim is the only way to get *)
(* one, and it takes the next number.                                      *)
WorkersDistinct ==
  /\ \A r \in Runners : runner[r].pc \in Working => runner[r].n \in 1 .. task.count
  /\ \A r, s \in Runners :
       /\ runner[r].pc \in Working /\ runner[s].pc \in Working
       /\ runner[r].n = runner[s].n
       => r = s

(* A request is answered once: while its caller, or the call the caller    *)
(* left behind, may still commit, the key has no receipt.                  *)
AnsweredOnce ==
  /\ \A r \in Runners : runner[r].pc \in Asking =>
       receipt[runner[r].n] = "none" /\ runner[r].n \notin stray
  /\ \A n \in stray : n <= task.count /\ receipt[n] = "none"
  /\ \A n \in Attempts : n > task.count => receipt[n] = "none"

(* What a recovering runner read is current as long as the revision is. *)
ReadIsCurrent ==
  \A r \in Runners : runner[r].pc \in {"resolve", "decide"} =>
    /\ runner[r].rev <= task.rev
    /\ runner[r].rev = task.rev => task.cur = runner[r].n /\ task.cur # 0

(* Only one key was ever accepted, and Canon left the basis with it. *)
HeadInv ==
  /\ head \in Attempts => receipt[head] = "ACCEPTED"
  /\ \A n \in Attempts : receipt[n] = "ACCEPTED" => head # Basis
  /\ \A n, m \in Attempts : receipt[n] = "ACCEPTED" /\ receipt[m] = "ACCEPTED" => n = m

SettlementInv == /\ TypeOK
                 /\ RowInv
                 /\ WorkersDistinct
                 /\ AnsweredOnce
                 /\ ReadIsCurrent
                 /\ HeadInv
                 /\ SuccessIsProven
-----------------------------------------------------------------------------
(* Well-typed columns make a well-typed row. *)
Rows == [status : {"READY", "RUNNING", "RECOVERY_PENDING", "SUCCEEDED", "BLOCKED",
                   "WAITING_RETRY", "BUDGET_REVIEW"},
         rev : Nat, cur : 0 .. MaxAttempts, count : 0 .. MaxAttempts, budget : Nat]

(* A row with one field written is a row. *)
LEMMA RowFields ==
  ASSUME NEW row \in Rows
  PROVE  /\ \A v \in {"READY", "RUNNING", "RECOVERY_PENDING", "SUCCEEDED", "BLOCKED",
                      "WAITING_RETRY", "BUDGET_REVIEW"} : [row EXCEPT !.status = v] \in Rows
         /\ \A v \in Nat : [row EXCEPT !.rev = v] \in Rows
         /\ \A v \in 0 .. MaxAttempts : [row EXCEPT !.cur = v] \in Rows
         /\ \A v \in 0 .. MaxAttempts : [row EXCEPT !.count = v] \in Rows
         /\ \A v \in Nat : [row EXCEPT !.budget = v] \in Rows
BY Zenon DEF Rows

(* The same for what a runner remembers. *)
LEMMA RunnerFields ==
  ASSUME NEW s \in RunnerStates
  PROVE  /\ \A v \in Phases : [s EXCEPT !.pc = v] \in RunnerStates
         /\ \A v \in 0 .. MaxAttempts : [s EXCEPT !.n = v] \in RunnerStates
         /\ \A v \in Nat : [s EXCEPT !.rev = v] \in RunnerStates
         /\ \A v \in Verdicts \cup {"none"} : [s EXCEPT !.verdict = v] \in RunnerStates
         /\ \A v \in {"none", "ACCEPTED", "CONFLICTED", "REJECTED"} :
              [s EXCEPT !.found = v] \in RunnerStates
BY Zenon DEF RunnerStates

(* A runner at the start of a phase *)
LEMMA AtType ==
  ASSUME NEW pc \in Phases
  PROVE  At(pc) \in RunnerStates /\ At(pc).pc = pc
BY SettlementAssumption DEF At, RunnerStates, Verdicts

-----------------------------------------------------------------------------
(* A step of a runner                                                      *)

(* Runner r goes to pc and then remembers attempt n and revision rev. *)
Turn(r, pc, n, rev) ==
  \E s \in RunnerStates : /\ runner' = [runner EXCEPT ![r] = s]
                          /\ s.pc = pc /\ s.n = n /\ s.rev = rev

(* A turn of one runner leaves the others where they are. *)
LEMMA TurnFacts ==
  ASSUME TypeOK, NEW r \in Runners, NEW pc, NEW n, NEW rev, Turn(r, pc, n, rev)
  PROVE  /\ runner' \in [Runners -> RunnerStates]
         /\ runner'[r].pc = pc /\ runner'[r].n = n /\ runner'[r].rev = rev
         /\ \A q \in Runners \ {r} : runner'[q] = runner[q]
BY DEF TypeOK, Turn

(* What a runner keeps in mind is typed. *)
LEMMA RunnerType ==
  ASSUME TypeOK, NEW r \in Runners
  PROVE  /\ runner[r] \in RunnerStates
         /\ runner[r].n \in 0 .. MaxAttempts /\ runner[r].rev \in Nat
BY DEF TypeOK, RunnerStates

(* Going on to a phase is a turn, *)
LEMMA GoTurn ==
  ASSUME TypeOK, NEW r \in Runners, NEW pc \in Phases, Go(r, pc)
  PROVE  Turn(r, pc, runner[r].n, runner[r].rev)
<1> DEFINE s == [runner[r] EXCEPT !.pc = pc]
<1>1. s \in RunnerStates
  BY RunnerType, RunnerFields
<1>2. s.pc = pc /\ s.n = runner[r].n /\ s.rev = runner[r].rev
  BY RunnerType DEF RunnerStates
<1>3. runner' = [runner EXCEPT ![r] = s]
  BY DEF Go
<1> HIDE DEF s
<1>4. QED
  BY <1>1, <1>2, <1>3 DEF Turn

(* and so is starting over. *)
LEMMA AtTurn ==
  ASSUME NEW r \in Runners, NEW pc \in Phases, runner' = [runner EXCEPT ![r] = At(pc)]
  PROVE  Turn(r, pc, 0, 0)
<1>1. At(pc) \in RunnerStates /\ At(pc).pc = pc /\ At(pc).n = 0 /\ At(pc).rev = 0
  BY AtType DEF At
<1>2. QED
  BY <1>1 DEF Turn

(* advance() goes on with a verdict. *)
LEMMA VerdictTurn ==
  ASSUME TypeOK, NEW r \in Runners, NEW pc \in Phases, NEW v \in Verdicts \cup {"none"},
         runner' = [runner EXCEPT ![r].pc = pc, ![r].verdict = v]
  PROVE  Turn(r, pc, runner[r].n, runner[r].rev)
<1> DEFINE one == [runner[r] EXCEPT !.pc = pc]
           s == [one EXCEPT !.verdict = v]
<1>1. one \in RunnerStates
  BY RunnerType, RunnerFields
<1>2. s \in RunnerStates
  BY <1>1, RunnerFields
<1>3. s.pc = pc /\ s.n = runner[r].n /\ s.rev = runner[r].rev
  BY RunnerType DEF RunnerStates
<1>4. runner' = [runner EXCEPT ![r] = s]
  BY DEF TypeOK
<1> HIDE DEF s, one
<1>5. QED
  BY <1>2, <1>3, <1>4 DEF Turn

(* A turn takes no attempt over from another runner and asks for no        *)
(* second answer, and what it read is the row as it is now.                *)
Tame(r, pc, n, rev) ==
  /\ pc \in Working => runner[r].pc \in Working /\ n = runner[r].n
  /\ pc \in Asking => runner[r].pc \in Asking
  /\ pc \in {"resolve", "decide"} =>
       \/ /\ runner[r].pc \in {"resolve", "decide"}
          /\ n = runner[r].n /\ rev = runner[r].rev
       \/ task.cur # 0 /\ n = task.cur /\ rev = task.rev

(* The row moves on: an attempt can be claimed or end, and the revision    *)
(* tells.                                                                  *)
RowMoves == task' = task \/ task'.rev = task.rev + 1

(* A turn that writes at most the row under its own revision keeps workers *)
(* distinct and what they have read current.                               *)
LEMMA TamePreserves ==
  ASSUME SettlementInv, NEW r \in Runners, NEW pc, NEW n, NEW rev,
         Turn(r, pc, n, rev), Tame(r, pc, n, rev), RowMoves,
         pc \in {"resolve", "decide"} => task' = task,
         task'.count = task.count
  PROVE  WorkersDistinct' /\ ReadIsCurrent'
<1>1. /\ TypeOK /\ task.rev \in Nat
      /\ runner'[r].pc = pc /\ runner'[r].n = n /\ runner'[r].rev = rev
      /\ \A q \in Runners \ {r} : runner'[q] = runner[q]
      /\ \A q \in Runners : runner[q].rev \in Nat
  BY TurnFacts, RunnerType DEF SettlementInv, TypeOK
<1>2. WorkersDistinct'
  BY <1>1 DEF SettlementInv, WorkersDistinct, Tame
<1>3. ReadIsCurrent'
  <2> SUFFICES ASSUME NEW q \in Runners, runner'[q].pc \in {"resolve", "decide"}
               PROVE  /\ runner'[q].rev <= task'.rev
                      /\ runner'[q].rev = task'.rev =>
                           task'.cur = runner'[q].n /\ task'.cur # 0
    BY DEF ReadIsCurrent
  <2>1. CASE q = r
    BY <1>1, <2>1 DEF SettlementInv, ReadIsCurrent, Tame
  <2>2. CASE q # r
    BY <1>1, <2>2 DEF SettlementInv, ReadIsCurrent, RowMoves
  <2>3. QED
    BY <2>1, <2>2
<1>4. QED
  BY <1>2, <1>3

(* A turn that changes nothing but the runner. *)
LEMMA TurnPreserves ==
  ASSUME SettlementInv, NEW r \in Runners, NEW pc, NEW n, NEW rev,
         Turn(r, pc, n, rev), Tame(r, pc, n, rev),
         UNCHANGED <<task, effect, receipt, head, projected, used, stray>>,
         crashes' \in 0 .. MaxCrashes
  PROVE  SettlementInv'
<1>1. TypeOK'
  BY TurnFacts DEF SettlementInv, TypeOK
<1>2. WorkersDistinct' /\ ReadIsCurrent'
  BY TamePreserves DEF RowMoves
<1>3. /\ runner'[r].pc = pc /\ runner'[r].n = n
      /\ \A q \in Runners \ {r} : runner'[q] = runner[q]
  BY TurnFacts DEF SettlementInv
<1>4. AnsweredOnce'
  BY <1>3 DEF SettlementInv, AnsweredOnce, Tame, Working
<1>5. RowInv' /\ HeadInv' /\ SuccessIsProven'
  BY DEF SettlementInv, RowInv, HeadInv, SuccessIsProven
<1>6. QED
  BY <1>1, <1>2, <1>4, <1>5 DEF SettlementInv

(* The row after an attempt that failed. *)
LEMMA SettledRow ==
  ASSUME task \in Rows, NEW status \in {"WAITING_RETRY", "BLOCKED"}, NEW cost \in {0, 1}
  PROVE  /\ Settled(status, cost) \in Rows
         /\ Settled(status, cost).rev = task.rev + 1
         /\ Settled(status, cost).cur = 0
         /\ Settled(status, cost).count = task.count
         /\ Settled(status, cost).status # "SUCCEEDED"
<1> DEFINE st == IF status = "WAITING_RETRY" /\ task.budget <= cost
                   THEN "BUDGET_REVIEW" ELSE status
           b == IF task.budget > cost THEN task.budget - cost ELSE 0
           one == [task EXCEPT !.status = st]
           two == [one EXCEPT !.rev = task.rev + 1]
           three == [two EXCEPT !.cur = 0]
           row == [three EXCEPT !.budget = b]
<1>1. task.rev \in Nat /\ task.rev + 1 \in Nat /\ task.budget \in Nat /\ 0 \in 0 .. MaxAttempts
  BY SettlementAssumption DEF Rows
<1>2. st \in {"BUDGET_REVIEW", "WAITING_RETRY", "BLOCKED"} /\ b \in Nat
  BY <1>1
<1>3. one \in Rows
  BY <1>2, RowFields
<1>4. two \in Rows
  BY <1>1, <1>3, RowFields
<1>5. three \in Rows
  BY <1>1, <1>4, RowFields
<1>6. row \in Rows
  BY <1>2, <1>5, RowFields
<1>7. /\ row.rev = task.rev + 1 /\ row.cur = 0 /\ row.count = task.count
      /\ row.status = st
  BY DEF Rows
<1>8. Settled(status, cost) = row
  BY DEF Settled, Rows
<1> HIDE DEF row, st
<1>9. QED
  BY <1>2, <1>6, <1>7, <1>8

(* The row is typed as TypeOK says. *)
LEMMA RowsType == TypeOK => task \in Rows
BY DEF TypeOK, Rows

(* A turn of a runner that stops asking leaves the answers alone. *)
LEMMA TamelyAnswered ==
  ASSUME SettlementInv, NEW r \in Runners, NEW pc, NEW n, NEW rev,
         Turn(r, pc, n, rev), Tame(r, pc, n, rev),
         UNCHANGED <<receipt, stray>>, task'.count = task.count
  PROVE  AnsweredOnce'
<1>1. /\ runner'[r].pc = pc /\ runner'[r].n = n
      /\ \A q \in Runners \ {r} : runner'[q] = runner[q]
  BY TurnFacts DEF SettlementInv
<1>2. QED
  BY <1>1 DEF SettlementInv, AnsweredOnce, Tame, Working

-----------------------------------------------------------------------------
(* The actions                                                             *)

(* Every step preserves the invariant. *)
LEMMA SettlementStep == SettlementInv /\ [Next]_vars => SettlementInv'
<1> SUFFICES ASSUME SettlementInv, [Next]_vars PROVE SettlementInv'
  OBVIOUS
<1>0. /\ TypeOK
      /\ task \in Rows /\ task.rev \in Nat /\ task.rev + 1 \in Nat /\ task.budget \in Nat
      /\ 0 \in 0 .. MaxAttempts
      /\ task.cur \in 0 .. MaxAttempts /\ task.count \in 0 .. MaxAttempts
      /\ MaxAttempts \in Nat \ {0}
      /\ receipt \in [Attempts -> {"none", "ACCEPTED", "CONFLICTED", "REJECTED"}]
      /\ effect \in [Attempts -> {"none", "REQUESTED", "COMPENSATED", "COMPLETED"}]
      /\ \A q \in Runners : runner[q].n \in 0 .. MaxAttempts /\ runner[q].rev \in Nat
  BY SettlementAssumption, RunnerType DEF SettlementInv, TypeOK, Rows
<1> USE DEF Phases
<1>1. ASSUME NEW r \in Runners, LoopRecover(r) PROVE SettlementInv'
  <2>1. Turn(r, "read", runner[r].n, runner[r].rev)
    BY <1>0, <1>1, GoTurn DEF LoopRecover
  <2>2. Tame(r, "read", runner[r].n, runner[r].rev)
    BY DEF Tame, Working, Asking
  <2>3. QED
    BY <1>0, <1>1, <2>1, <2>2, TurnPreserves DEF LoopRecover, TypeOK
<1>2. ASSUME NEW r \in Runners, LoopDispatch(r) PROVE SettlementInv'
  <2> DEFINE one == [runner[r] EXCEPT !.pc = "ready"]
             s == [one EXCEPT !.rev = task.rev]
  <2>1. one \in RunnerStates
    BY <1>0, RunnerType, RunnerFields
  <2>2. s \in RunnerStates
    BY <1>0, <2>1, RunnerFields
  <2>3. s.pc = "ready" /\ s.n = runner[r].n /\ s.rev = task.rev
    BY <1>0, RunnerType DEF RunnerStates
  <2>4. runner' = [runner EXCEPT ![r] = s]
    BY <1>0, <1>2 DEF LoopDispatch, TypeOK
  <2> HIDE DEF s, one
  <2>5. Turn(r, "ready", runner[r].n, task.rev)
    BY <2>2, <2>3, <2>4 DEF Turn
  <2>6. Tame(r, "ready", runner[r].n, task.rev)
    BY DEF Tame, Working, Asking
  <2>7. QED
    BY <1>0, <1>2, <2>5, <2>6, TurnPreserves DEF LoopDispatch, TypeOK
<1>3. ASSUME NEW r \in Runners, NEW pc \in {"down", "idle", "loop"},
             runner' = [runner EXCEPT ![r] = At(pc)],
             UNCHANGED <<task, effect, receipt, head, projected, used, stray>>,
             crashes' \in 0 .. MaxCrashes
      PROVE  SettlementInv'
  <2>1. Turn(r, pc, 0, 0)
    BY <1>3, AtTurn
  <2>2. Tame(r, pc, 0, 0)
    BY DEF Tame, Working, Asking
  <2>3. QED
    BY <1>0, <1>3, <2>1, <2>2, TurnPreserves
<1>4. ASSUME NEW r \in Runners,
             \/ LoopReturn(r) \/ FenceLost(r) \/ ClaimRefused(r) \/ ExternalCommitRefused(r)
             \/ ReconcileExternalRefused(r) \/ RecoveryRefused(r) \/ Start(r) \/ Kill(r)
      PROVE  SettlementInv'
  <2>1. crashes' \in 0 .. MaxCrashes
    BY <1>0, <1>4, SettlementAssumption
       DEF LoopReturn, FenceLost, ClaimRefused, ExternalCommitRefused,
           ReconcileExternalRefused, RecoveryRefused, Start, Kill, TypeOK
  <2>2. /\ \E pc \in {"down", "idle", "loop"} : runner' = [runner EXCEPT ![r] = At(pc)]
        /\ UNCHANGED <<task, effect, receipt, head, projected, used, stray>>
    BY <1>4 DEF LoopReturn, FenceLost, ClaimRefused, ExternalCommitRefused,
           ReconcileExternalRefused, RecoveryRefused, Start, Kill, Return, Exit
  <2>3. QED
    BY <1>3, <2>1, <2>2
<1>5. ASSUME NEW r \in Runners, SettleChecksBasis(r) PROVE SettlementInv'
  <2>1. CASE head = Basis
    <3>1. Go(r, "stage2w")
      BY <1>5, <2>1 DEF SettleChecksBasis
    <3>2. Turn(r, "stage2w", runner[r].n, runner[r].rev)
      BY <1>0, <3>1, GoTurn
    <3>3. Tame(r, "stage2w", runner[r].n, runner[r].rev)
      BY <1>5 DEF SettleChecksBasis, Tame, Working, Asking
    <3>4. QED
      BY <1>0, <1>5, <3>2, <3>3, TurnPreserves DEF SettleChecksBasis, TypeOK
  <2>2. CASE head # Basis
    <3>1. Turn(r, "compensate", runner[r].n, runner[r].rev)
      BY <1>0, <1>5, <2>2, VerdictTurn DEF SettleChecksBasis, Verdicts
    <3>2. Tame(r, "compensate", runner[r].n, runner[r].rev)
      BY <1>5 DEF SettleChecksBasis, Tame, Working, Asking
    <3>3. QED
      BY <1>0, <1>5, <3>1, <3>2, TurnPreserves DEF SettleChecksBasis, TypeOK
  <2>3. QED
    BY <2>1, <2>2
<1>6. ASSUME NEW r \in Runners, NEW verdict \in Verdicts, Stage2WStops(r, verdict)
      PROVE  SettlementInv'
  <2>1. Turn(r, "compensate", runner[r].n, runner[r].rev)
    BY <1>0, <1>6, VerdictTurn DEF Stage2WStops
  <2>2. Tame(r, "compensate", runner[r].n, runner[r].rev)
    BY <1>6 DEF Stage2WStops, Tame, Working, Asking
  <2>3. QED
    BY <1>0, <1>6, <2>1, <2>2, TurnPreserves DEF Stage2WStops, TypeOK
<1>7. ASSUME NEW r \in Runners, ReadTask(r) PROVE SettlementInv'
  <2>1. CASE Recoverable
    <3> DEFINE one == [At("resolve") EXCEPT !.n = task.cur]
               two == [one EXCEPT !.rev = task.rev]
               s == [two EXCEPT !.prior = effect[task.cur]]
    <3>1. one \in RunnerStates
      BY <1>0, AtType, RunnerFields
    <3>2. two \in RunnerStates
      BY <1>0, <3>1, RunnerFields
    <3>3. effect[task.cur] \in {"none", "REQUESTED", "COMPENSATED", "COMPLETED"}
      BY <1>0, <2>1 DEF Recoverable, Attempts
    <3>4. s \in RunnerStates
      BY <3>2, <3>3, Zenon DEF RunnerStates
    <3>5. s.pc = "resolve" /\ s.n = task.cur /\ s.rev = task.rev
      BY DEF At
    <3>6. runner' = [runner EXCEPT ![r] = s]
      BY <1>7, <2>1 DEF ReadTask
    <3> HIDE DEF s, one, two
    <3>7. Turn(r, "resolve", task.cur, task.rev)
      BY <3>4, <3>5, <3>6 DEF Turn
    <3>8. Tame(r, "resolve", task.cur, task.rev)
      BY <2>1 DEF Tame, Working, Asking, Recoverable
    <3>9. QED
      BY <1>0, <1>7, <3>7, <3>8, TurnPreserves DEF ReadTask, TypeOK
  <2>2. CASE ~Recoverable
    BY <1>0, <1>3, <1>7, <2>2 DEF ReadTask, TypeOK
  <2>3. QED
    BY <2>1, <2>2
<1>8. ASSUME NEW r \in Runners, ResolveCommit(r) PROVE SettlementInv'
  <2> DEFINE one == [runner[r] EXCEPT !.pc = "decide"]
             s == [one EXCEPT !.found = receipt[StableKey]]
  <2>1. one \in RunnerStates
    BY <1>0, RunnerType, RunnerFields
  <2>2. receipt[StableKey] \in {"none", "ACCEPTED", "CONFLICTED", "REJECTED"}
    BY <1>0 DEF StableKey, Attempts
  <2>3. s \in RunnerStates
    BY <2>1, <2>2, RunnerFields
  <2>4. s.pc = "decide" /\ s.n = runner[r].n /\ s.rev = runner[r].rev
    BY <1>0, RunnerType DEF RunnerStates
  <2>5. runner' = [runner EXCEPT ![r] = s]
    BY <1>0, <1>8 DEF ResolveCommit, TypeOK
  <2> HIDE DEF s, one
  <2>6. Turn(r, "decide", runner[r].n, runner[r].rev)
    BY <2>3, <2>4, <2>5 DEF Turn
  <2>7. Tame(r, "decide", runner[r].n, runner[r].rev)
    BY <1>8 DEF ResolveCommit, Tame, Working, Asking
  <2>8. QED
    BY <1>0, <1>8, <2>6, <2>7, TurnPreserves DEF ResolveCommit, TypeOK
<1>9. ASSUME NEW r \in Runners, Claim(r) PROVE SettlementInv'
  <2> DEFINE m == task.count + 1
             one == [runner[r] EXCEPT !.pc = "claimed"]
             s == [one EXCEPT !.n = m]
             row1 == [task EXCEPT !.status = "RUNNING"]
             row2 == [row1 EXCEPT !.rev = task.rev + 1]
             row3 == [row2 EXCEPT !.cur = m]
             row == [row3 EXCEPT !.count = m]
  <2>1. /\ m \in Attempts /\ m \in 0 .. MaxAttempts
        /\ task.cur = 0 /\ task.status = "READY"
    BY <1>0, <1>9 DEF Claim, Attempts, Runnable
  <2>2. one \in RunnerStates
    BY <1>0, RunnerType, RunnerFields
  <2>3. s \in RunnerStates
    BY <2>1, <2>2, RunnerFields
  <2>4. s.pc = "claimed" /\ s.n = m /\ s.rev = runner[r].rev
    BY <1>0, RunnerType DEF RunnerStates
  <2>5. runner' = [runner EXCEPT ![r] = s]
    BY <1>0, <1>9 DEF Claim, TypeOK
  <2>6. row1 \in Rows
    BY <1>0, RowFields
  <2>7. row2 \in Rows
    BY <1>0, <2>6, RowFields
  <2>8. row3 \in Rows
    BY <2>1, <2>7, RowFields
  <2>9. row \in Rows
    BY <2>1, <2>8, RowFields
  <2>10. row.rev = task.rev + 1 /\ row.cur = m /\ row.count = m /\ row.status = "RUNNING"
    BY <1>0 DEF Rows
  <2>11. task' = row
    BY <1>0, <1>9 DEF Claim, Rows
  <2> HIDE DEF s, one, row, row1, row2, row3
  <2>12. /\ runner' \in [Runners -> RunnerStates]
         /\ runner'[r].pc = "claimed" /\ runner'[r].n = m
         /\ \A q \in Runners \ {r} : runner'[q] = runner[q]
    BY <1>0, <2>3, <2>4, <2>5 DEF TypeOK
  <2>13. /\ task' \in Rows /\ task'.rev = task.rev + 1 /\ task'.cur = m /\ task'.count = m
         /\ task'.status = "RUNNING"
         /\ UNCHANGED <<effect, receipt, head, projected, used, stray, crashes>>
    BY <1>9, <2>9, <2>10, <2>11 DEF Claim
  <2>14. TypeOK'
    BY <1>0, <2>12, <2>13 DEF TypeOK, Rows
  <2>15. RowInv'
    BY <2>13 DEF RowInv
  <2>16. WorkersDistinct'
    BY <1>0, <2>12, <2>13 DEF SettlementInv, WorkersDistinct
  <2>17. AnsweredOnce'
    <3>1. receipt[m] = "none" /\ m \notin stray /\ m > task.count
      BY <1>0, <2>1 DEF SettlementInv, AnsweredOnce
    <3>2. \A q \in Runners : runner'[q].pc \in Asking =>
            receipt'[runner'[q].n] = "none" /\ runner'[q].n \notin stray'
      BY <2>12, <2>13, <3>1 DEF SettlementInv, AnsweredOnce
    <3>3. \A k \in stray' : k <= task'.count /\ receipt'[k] = "none"
      <4> SUFFICES ASSUME NEW k \in stray PROVE k <= m /\ receipt[k] = "none"
        BY <2>13
      <4>1. k <= task.count /\ receipt[k] = "none" /\ k \in Int
        BY <1>0 DEF SettlementInv, AnsweredOnce, TypeOK, Attempts
      <4>2. QED
        BY <1>0, <4>1
    <3>4. \A k \in Attempts : k > task'.count => receipt'[k] = "none"
      <4> SUFFICES ASSUME NEW k \in Attempts, k > m PROVE receipt[k] = "none"
        BY <2>13
      <4>1. k > task.count
        BY <1>0 DEF Attempts
      <4>2. QED
        BY <4>1 DEF SettlementInv, AnsweredOnce
    <3>5. QED
      BY <3>2, <3>3, <3>4 DEF AnsweredOnce
  <2>18. ReadIsCurrent'
    BY <1>0, <2>12, <2>13 DEF SettlementInv, ReadIsCurrent
  <2>19. HeadInv' /\ SuccessIsProven'
    BY <2>1, <2>13 DEF SettlementInv, HeadInv, SuccessIsProven
  <2>20. QED
    BY <2>14, <2>15, <2>16, <2>17, <2>18, <2>19 DEF SettlementInv
<1>10. ASSUME NEW r \in Runners, ClaimLane(r) PROVE SettlementInv'
  <2>1. Turn(r, "laned", runner[r].n, runner[r].rev)
    BY <1>0, <1>10, GoTurn DEF ClaimLane
  <2>2. Tame(r, "laned", runner[r].n, runner[r].rev)
    BY <1>10 DEF ClaimLane, Tame, Working, Asking
  <2>3. task' \in Rows
    BY <1>0, <1>10, RowFields DEF ClaimLane
  <2>4. /\ task'.rev = task.rev + 1 /\ task'.cur = task.cur /\ task'.count = task.count
        /\ task'.status = task.status
        /\ UNCHANGED <<effect, receipt, head, projected, used, stray, crashes>>
    BY <1>0, <1>10 DEF ClaimLane, Rows
  <2>5. TypeOK'
    BY <1>0, <2>1, <2>3, <2>4, TurnFacts DEF TypeOK, Rows
  <2>6. WorkersDistinct' /\ ReadIsCurrent' /\ AnsweredOnce'
    BY <2>1, <2>2, <2>4, TamePreserves, TamelyAnswered DEF RowMoves
  <2>7. RowInv' /\ HeadInv' /\ SuccessIsProven'
    BY <2>4 DEF SettlementInv, RowInv, HeadInv, SuccessIsProven
  <2>8. QED
    BY <2>5, <2>6, <2>7 DEF SettlementInv
<1>11. ASSUME NEW r \in Runners, NEW pc \in {"requested", "settle", "retry"},
              NEW n, NEW e \in {"REQUESTED", "COMPENSATED"},
              Turn(r, pc, runner[r].n, runner[r].rev),
              Tame(r, pc, runner[r].n, runner[r].rev),
              effect' = [effect EXCEPT ![n] = e], ~projected,
              used' \subseteq {"recovery-pending", "reconcile", "retry-interrupted"}
                                \X (0 .. MaxAttempts),
              UNCHANGED <<task, receipt, head, projected, stray, crashes>>
       PROVE  SettlementInv'
  <2>1. TypeOK'
    BY <1>0, <1>11, TurnFacts DEF TypeOK
  <2>2. WorkersDistinct' /\ ReadIsCurrent' /\ AnsweredOnce'
    BY <1>11, TamePreserves, TamelyAnswered DEF RowMoves
  <2>3. RowInv' /\ HeadInv' /\ SuccessIsProven'
    BY <1>11 DEF SettlementInv, RowInv, HeadInv, SuccessIsProven
  <2>4. QED
    BY <2>1, <2>2, <2>3 DEF SettlementInv
<1>12. ASSUME task.cur # 0 PROVE ~projected
  BY <1>12 DEF SettlementInv, RowInv, SuccessIsProven
<1>13. ASSUME NEW r \in Runners, runner[r].pc \in Working, Fenced(r)
       PROVE  task.cur # 0 /\ runner[r].n \in Attempts
  BY <1>0, <1>13 DEF SettlementInv, WorkersDistinct, Fenced, Attempts
<1>14. ASSUME NEW r \in Runners, RecordEffectRequested(r) PROVE SettlementInv'
  <2>1. Turn(r, "requested", runner[r].n, runner[r].rev)
    BY <1>0, <1>14, GoTurn DEF RecordEffectRequested
  <2>2. Tame(r, "requested", runner[r].n, runner[r].rev)
    BY <1>14 DEF RecordEffectRequested, Tame, Working, Asking
  <2>3. ~projected
    BY <1>12, <1>13, <1>14 DEF RecordEffectRequested, Working, Asking
  <2>4. QED
    BY <1>0, <1>11, <1>14, <2>1, <2>2, <2>3 DEF RecordEffectRequested, TypeOK
<1>15. ASSUME NEW r \in Runners, RecordEffectTerminal(r) PROVE SettlementInv'
  <2>1. Turn(r, "settle", runner[r].n, runner[r].rev)
    BY <1>0, <1>15, GoTurn DEF RecordEffectTerminal
  <2>2. Tame(r, "settle", runner[r].n, runner[r].rev)
    BY <1>15 DEF RecordEffectTerminal, Tame, Working, Asking
  <2>3. ~projected
    BY <1>12, <1>13, <1>15 DEF RecordEffectTerminal, Working
  <2>4. QED
    BY <1>0, <1>11, <1>15, <2>1, <2>2, <2>3 DEF RecordEffectTerminal, TypeOK
<1>16. ASSUME NEW r \in Runners, ReconcileEffect(r) PROVE SettlementInv'
  <2>1. Turn(r, "retry", runner[r].n, runner[r].rev)
    BY <1>0, <1>16, GoTurn DEF ReconcileEffect
  <2>2. Tame(r, "retry", runner[r].n, runner[r].rev)
    BY DEF Tame, Working, Asking
  <2>3. CASE runner[r].prior = "REQUESTED"
    <3>1. task.cur # 0
      BY <1>0, <1>16, <2>3 DEF ReconcileEffect, Observed, SettlementInv, ReadIsCurrent
    <3>2. <<"reconcile", runner[r].n>> \in {"recovery-pending", "reconcile", "retry-interrupted"}
                                             \X (0 .. MaxAttempts)
      BY <1>0
    <3>3. QED
      BY <1>0, <1>11, <1>12, <1>16, <2>1, <2>2, <2>3, <3>1, <3>2 DEF ReconcileEffect, TypeOK
  <2>4. CASE runner[r].prior # "REQUESTED"
    BY <1>0, <1>16, <2>1, <2>2, <2>4, TurnPreserves DEF ReconcileEffect, TypeOK
  <2>5. QED
    BY <2>3, <2>4
<1>17. ASSUME NEW r \in Runners, NEW status \in {"WAITING_RETRY", "BLOCKED"},
              NEW cost \in {0, 1}, task' = Settled(status, cost), task.cur # 0,
              runner' = [runner EXCEPT ![r] = At("loop")],
              used' \subseteq {"recovery-pending", "reconcile", "retry-interrupted"}
                                \X (0 .. MaxAttempts),
              UNCHANGED <<effect, receipt, head, projected, stray, crashes>>
       PROVE  SettlementInv'
  <2>1. Turn(r, "loop", 0, 0) /\ Tame(r, "loop", 0, 0)
    BY <1>17, AtTurn DEF Tame, Working, Asking
  <2>2. /\ task' \in Rows /\ task'.rev = task.rev + 1 /\ task'.cur = 0
        /\ task'.count = task.count /\ task'.status # "SUCCEEDED"
    BY <1>0, <1>17, SettledRow
  <2>3. TypeOK'
    BY <1>0, <1>17, <2>1, <2>2, TurnFacts DEF TypeOK, Rows
  <2>4. WorkersDistinct' /\ ReadIsCurrent' /\ AnsweredOnce'
    BY <1>17, <2>1, <2>2, TamePreserves, TamelyAnswered DEF RowMoves
  <2>5. RowInv' /\ HeadInv' /\ SuccessIsProven'
    BY <1>12, <1>17, <2>2 DEF SettlementInv, RowInv, HeadInv, SuccessIsProven
  <2>6. QED
    BY <2>3, <2>4, <2>5 DEF SettlementInv
<1>18. ASSUME NEW r \in Runners, SettleAttempt(r) PROVE SettlementInv'
  <2> DEFINE status == IF runner[r].verdict = "suspended" THEN "WAITING_RETRY" ELSE "BLOCKED"
             cost == IF runner[r].verdict = "invalid" THEN 1 ELSE 0
  <2>1. task.cur # 0
    BY <1>13, <1>18 DEF SettleAttempt, Working
  <2>2. status \in {"WAITING_RETRY", "BLOCKED"} /\ cost \in {0, 1}
    OBVIOUS
  <2>3. task' = Settled(status, cost)
    BY <1>18 DEF SettleAttempt
  <2> HIDE DEF status, cost
  <2>4. QED
    BY <1>0, <1>17, <1>18, <2>1, <2>2, <2>3 DEF SettleAttempt, TypeOK
<1>19. ASSUME NEW r \in Runners, OperatorReconcileAttempt(r) PROVE SettlementInv'
  <2> DEFINE status == IF runner[r].found = "none" THEN "WAITING_RETRY" ELSE "BLOCKED"
  <2>1. status \in {"WAITING_RETRY", "BLOCKED"}
    OBVIOUS
  <2>2. task' = Settled(status, 1) /\ task.cur # 0
    BY <1>19 DEF OperatorReconcileAttempt
  <2>3. used' \subseteq {"recovery-pending", "reconcile", "retry-interrupted"}
                          \X (0 .. MaxAttempts)
    BY <1>0, <1>19 DEF OperatorReconcileAttempt, RetryId, TypeOK
  <2> HIDE DEF status
  <2>4. QED
    BY <1>17, <1>19, <2>1, <2>2, <2>3 DEF OperatorReconcileAttempt
<1>20. ASSUME NEW r \in Runners, NEW k \in Attempts, SettleExternalCommit(k), task.cur # 0,
              runner' = [runner EXCEPT ![r] = At("loop")],
              UNCHANGED <<receipt, head, used, stray, crashes>>
       PROVE  SettlementInv'
  <2> DEFINE row1 == [task EXCEPT !.status = "SUCCEEDED"]
             row2 == [row1 EXCEPT !.rev = task.rev + 1]
             row == [row2 EXCEPT !.cur = 0]
  <2>1. Turn(r, "loop", 0, 0) /\ Tame(r, "loop", 0, 0)
    BY <1>20, AtTurn DEF Tame, Working, Asking
  <2>2. row1 \in Rows
    BY <1>0, RowFields
  <2>3. row2 \in Rows
    BY <1>0, <2>2, RowFields
  <2>4. row \in Rows
    BY <1>0, <2>3, RowFields
  <2>5. /\ row.rev = task.rev + 1 /\ row.cur = 0 /\ row.count = task.count
        /\ row.status = "SUCCEEDED"
    BY <1>0 DEF Rows
  <2>6. task' = row
    BY <1>0, <1>20 DEF SettleExternalCommit, Rows
  <2> HIDE DEF row, row1, row2
  <2>7. /\ effect' = [effect EXCEPT ![task.cur] = "COMPLETED"] /\ projected' = TRUE
        /\ head = k /\ task.cur = task.count /\ task.cur \in Attempts
    BY <1>0, <1>20 DEF SettleExternalCommit, SettlementInv, RowInv, Attempts
  <2>8. TypeOK'
    BY <1>0, <1>20, <2>1, <2>4, <2>6, <2>7, TurnFacts DEF TypeOK, Rows
  <2>9. WorkersDistinct' /\ ReadIsCurrent' /\ AnsweredOnce'
    BY <1>20, <2>1, <2>5, <2>6, TamePreserves, TamelyAnswered DEF RowMoves
  <2>10. receipt[k] = "ACCEPTED"
    BY <1>20, <2>7 DEF SettlementInv, HeadInv
  <2>11. effect'[task'.count] = "COMPLETED"
    BY <1>0, <2>5, <2>6, <2>7
  <2>12. RowInv' /\ HeadInv' /\ SuccessIsProven'
    BY <1>20, <2>5, <2>6, <2>7, <2>10, <2>11
       DEF SettlementInv, RowInv, HeadInv, SuccessIsProven
  <2>13. QED
    BY <2>8, <2>9, <2>12 DEF SettlementInv
<1>21. ASSUME NEW r \in Runners, RecordExternalCommit(r) PROVE SettlementInv'
  <2>1. task.cur # 0 /\ runner[r].n \in Attempts
    BY <1>13, <1>21 DEF RecordExternalCommit, Working
  <2>2. QED
    BY <1>20, <1>21, <2>1 DEF RecordExternalCommit
<1>22. ASSUME NEW r \in Runners, ReconcileExternalCommit(r) PROVE SettlementInv'
  <2>1. StableKey \in Attempts
    BY <1>0 DEF StableKey, Attempts
  <2>2. QED
    BY <1>20, <1>22, <2>1 DEF ReconcileExternalCommit
<1>23. ASSUME NEW r \in Runners, MarkRecoveryPending(r) PROVE SettlementInv'
  <2>1. CASE UNCHANGED <<task, used>>
    BY <1>0, <1>3, <1>23, <2>1 DEF MarkRecoveryPending, TypeOK
  <2>2. CASE /\ task.status = "RUNNING"
             /\ task' = [task EXCEPT !.status = "RECOVERY_PENDING", !.rev = @ + 1]
             /\ used' = used \cup {<<"recovery-pending", 0>>}
    <3> DEFINE one == [task EXCEPT !.status = "RECOVERY_PENDING"]
               row == [one EXCEPT !.rev = task.rev + 1]
    <3>1. Turn(r, "loop", 0, 0) /\ Tame(r, "loop", 0, 0)
      BY <1>23, AtTurn DEF MarkRecoveryPending, Tame, Working, Asking
    <3>2. one \in Rows
      BY <1>0, RowFields
    <3>3. row \in Rows
      BY <1>0, <3>2, RowFields
    <3>4. /\ row.rev = task.rev + 1 /\ row.cur = task.cur /\ row.count = task.count
          /\ row.status = "RECOVERY_PENDING"
      BY <1>0 DEF Rows
    <3>5. task' = row
      BY <1>0, <2>2 DEF Rows
    <3> HIDE DEF one, row
    <3>6. UNCHANGED <<effect, receipt, head, projected, stray, crashes>>
      BY <1>23 DEF MarkRecoveryPending
    <3>7. TypeOK'
      BY <1>0, <2>2, <3>1, <3>3, <3>5, <3>6, TurnFacts DEF TypeOK, Rows
    <3>8. WorkersDistinct' /\ ReadIsCurrent' /\ AnsweredOnce'
      BY <3>1, <3>4, <3>5, <3>6, TamePreserves, TamelyAnswered DEF RowMoves
    <3>9. RowInv' /\ HeadInv' /\ SuccessIsProven'
      BY <2>2, <3>4, <3>5, <3>6 DEF SettlementInv, RowInv, HeadInv, SuccessIsProven
    <3>10. QED
      BY <3>7, <3>8, <3>9 DEF SettlementInv
  <2>3. QED
    BY <1>23, <2>1, <2>2 DEF MarkRecoveryPending
<1>24. ASSUME NEW n \in Attempts, NEW result, Commit(n, result), receipt[n] = "none"
       PROVE  /\ receipt' \in [Attempts -> {"none", "ACCEPTED", "CONFLICTED", "REJECTED"}]
              /\ head' \in 0 .. MaxAttempts + 1
              /\ HeadInv'
              /\ \A m \in Attempts \ {n} : receipt'[m] = receipt[m]
              /\ \A m \in Attempts : receipt[m] = "ACCEPTED" => receipt'[m] = "ACCEPTED"
  <2>1. /\ receipt' = [receipt EXCEPT ![n] = result]
        /\ result \in {"ACCEPTED", "CONFLICTED", "REJECTED"}
        /\ result = "ACCEPTED" => head = Basis /\ head' = n
        /\ result # "ACCEPTED" => head' = head
    BY <1>24 DEF Commit, CommitResult
  <2>2. n # Basis /\ n \in 0 .. MaxAttempts + 1 /\ head \in 0 .. MaxAttempts + 1
    BY <1>0 DEF Attempts, Basis, TypeOK
  <2>3. HeadInv'
    BY <1>0, <1>24, <2>1, <2>2 DEF SettlementInv, HeadInv, Basis
  <2>4. QED
    BY <1>0, <1>24, <2>1, <2>2, <2>3
<1>25. ASSUME NEW r \in Runners, NEW result, NEW answer, Stage2WCommits(r, result, answer)
       PROVE  SettlementInv'
  <2> DEFINE pc == IF result = "ACCEPTED" /\ answer = "ok" THEN "committed" ELSE "compensate"
             v == IF answer = "lost" THEN "uncertain"
                  ELSE IF result = "ACCEPTED" THEN "none" ELSE "review"
             n == runner[r].n
  <2>1. pc \in {"committed", "compensate"} /\ v \in Verdicts \cup {"none"}
    BY DEF Verdicts
  <2>2. /\ runner' = [runner EXCEPT ![r].pc = pc, ![r].verdict = v] /\ Commit(n, result)
        /\ runner[r].pc = "stage2w"
        /\ UNCHANGED <<task, effect, projected, used, stray, crashes>>
    BY <1>25 DEF Stage2WCommits
  <2> HIDE DEF pc, v
  <2>3. Turn(r, pc, n, runner[r].rev)
    BY <1>0, <2>1, <2>2, VerdictTurn
  <2>4. Tame(r, pc, n, runner[r].rev)
    BY <2>1, <2>2 DEF Tame, Working, Asking
  <2>5. n \in Attempts /\ receipt[n] = "none" /\ n \in 1 .. task.count /\ n \notin stray
    BY <1>0, <2>2
       DEF SettlementInv, WorkersDistinct, AnsweredOnce, Working, Asking, Attempts
  <2>6. /\ receipt' \in [Attempts -> {"none", "ACCEPTED", "CONFLICTED", "REJECTED"}]
        /\ head' \in 0 .. MaxAttempts + 1 /\ HeadInv'
        /\ \A m \in Attempts \ {n} : receipt'[m] = receipt[m]
        /\ \A m \in Attempts : receipt[m] = "ACCEPTED" => receipt'[m] = "ACCEPTED"
    BY <1>24, <2>2, <2>5
  <2>7. /\ runner' \in [Runners -> RunnerStates]
        /\ runner'[r].pc = pc /\ runner'[r].n = n
        /\ \A q \in Runners \ {r} : runner'[q] = runner[q]
    BY <1>0, <2>3, TurnFacts
  <2>8. TypeOK'
    BY <1>0, <2>2, <2>6, <2>7 DEF TypeOK
  <2>9. WorkersDistinct' /\ ReadIsCurrent'
    BY <2>2, <2>3, <2>4, TamePreserves DEF RowMoves
  <2>10. AnsweredOnce'
    <3>1. \A q \in Runners : runner'[q].pc \in Asking =>
            receipt'[runner'[q].n] = "none" /\ runner'[q].n \notin stray'
      <4> SUFFICES ASSUME NEW q \in Runners, runner'[q].pc \in Asking
                   PROVE  receipt'[runner'[q].n] = "none" /\ runner'[q].n \notin stray'
        OBVIOUS
      <4>1. q # r
        BY <2>1, <2>7 DEF Asking
      <4>2. runner[q].n # n /\ runner[q].n \in Attempts
        BY <1>0, <2>2, <2>7, <4>1
           DEF SettlementInv, WorkersDistinct, Working, Asking, Attempts
      <4>3. QED
        BY <2>2, <2>6, <2>7, <4>1, <4>2 DEF SettlementInv, AnsweredOnce
    <3>2. \A m \in stray' : m <= task'.count /\ receipt'[m] = "none"
      BY <1>0, <2>2, <2>5, <2>6 DEF SettlementInv, AnsweredOnce, TypeOK
    <3>3. \A m \in Attempts : m > task'.count => receipt'[m] = "none"
      BY <1>0, <2>2, <2>5, <2>6 DEF SettlementInv, AnsweredOnce
    <3>4. QED
      BY <3>1, <3>2, <3>3 DEF AnsweredOnce
  <2>11. RowInv' /\ SuccessIsProven'
    BY <2>2, <2>6 DEF SettlementInv, RowInv, SuccessIsProven
  <2>12. QED
    BY <2>6, <2>8, <2>9, <2>10, <2>11 DEF SettlementInv
<1>26. ASSUME NEW r \in Runners, HeartbeatRefused(r) PROVE SettlementInv'
  <2>1. Turn(r, "down", 0, 0) /\ Tame(r, "down", 0, 0)
    BY <1>26, AtTurn DEF HeartbeatRefused, Exit, Tame, Working, Asking
  <2>2. /\ runner[r].pc = "stage2w" /\ stray' = stray \cup {runner[r].n}
        /\ UNCHANGED <<task, effect, receipt, head, projected, used, crashes>>
    BY <1>26 DEF HeartbeatRefused
  <2>3. /\ runner[r].n \in Attempts /\ receipt[runner[r].n] = "none"
        /\ runner[r].n \in 1 .. task.count
    BY <1>0, <2>2
       DEF SettlementInv, WorkersDistinct, AnsweredOnce, Working, Asking, Attempts
  <2>4. /\ runner' \in [Runners -> RunnerStates] /\ runner'[r].pc = "down"
        /\ \A q \in Runners \ {r} : runner'[q] = runner[q]
    BY <1>0, <2>1, TurnFacts
  <2>5. TypeOK'
    BY <1>0, <2>2, <2>3, <2>4 DEF TypeOK
  <2>6. WorkersDistinct' /\ ReadIsCurrent'
    BY <2>1, <2>2, TamePreserves DEF RowMoves
  <2>7. AnsweredOnce'
    <3>1. \A q \in Runners : runner'[q].pc \in Asking =>
            receipt'[runner'[q].n] = "none" /\ runner'[q].n \notin stray'
      <4> SUFFICES ASSUME NEW q \in Runners, runner'[q].pc \in Asking
                   PROVE  receipt'[runner'[q].n] = "none" /\ runner'[q].n \notin stray'
        OBVIOUS
      <4>1. q # r
        BY <2>4 DEF Asking
      <4>2. runner[q].n # runner[r].n
        BY <2>2, <2>4, <4>1 DEF SettlementInv, WorkersDistinct, Working, Asking
      <4>3. QED
        BY <2>2, <2>4, <4>1, <4>2 DEF SettlementInv, AnsweredOnce
    <3>2. QED
      BY <1>0, <2>2, <2>3, <3>1 DEF SettlementInv, AnsweredOnce
  <2>8. RowInv' /\ HeadInv' /\ SuccessIsProven'
    BY <2>2 DEF SettlementInv, RowInv, HeadInv, SuccessIsProven
  <2>9. QED
    BY <2>5, <2>6, <2>7, <2>8 DEF SettlementInv
<1>27. ASSUME NEW n \in Attempts, StrayEnds(n) PROVE SettlementInv'
  <2>1. /\ n \in stray /\ stray' = stray \ {n} /\ n <= task.count /\ receipt[n] = "none"
        /\ UNCHANGED <<task, effect, projected, used, runner, crashes>>
    BY <1>27 DEF StrayEnds, SettlementInv, AnsweredOnce
  <2>2. /\ receipt' \in [Attempts -> {"none", "ACCEPTED", "CONFLICTED", "REJECTED"}]
        /\ head' \in 0 .. MaxAttempts + 1 /\ HeadInv'
        /\ \A m \in Attempts \ {n} : receipt'[m] = receipt[m]
        /\ \A m \in Attempts : receipt[m] = "ACCEPTED" => receipt'[m] = "ACCEPTED"
    <3>1. CASE UNCHANGED <<receipt, head>>
      BY <1>0, <3>1 DEF SettlementInv, HeadInv, TypeOK
    <3>2. CASE \E result : Commit(n, result)
      BY <1>24, <2>1, <3>2
    <3>3. QED
      BY <1>27, <3>1, <3>2 DEF StrayEnds
  <2>3. TypeOK'
    BY <1>0, <2>1, <2>2 DEF TypeOK
  <2>4. WorkersDistinct' /\ ReadIsCurrent' /\ RowInv'
    BY <2>1 DEF SettlementInv, WorkersDistinct, ReadIsCurrent, RowInv
  <2>5. AnsweredOnce'
    <3>1. \A q \in Runners : runner[q].pc \in Asking => runner[q].n \in Attempts \ {n}
      BY <1>0, <2>1
         DEF SettlementInv, WorkersDistinct, AnsweredOnce, Working, Attempts
    <3>2. \A q \in Runners : runner'[q].pc \in Asking =>
            receipt'[runner'[q].n] = "none" /\ runner'[q].n \notin stray'
      BY <2>1, <2>2, <3>1 DEF SettlementInv, AnsweredOnce
    <3>3. \A m \in stray' : m <= task'.count /\ receipt'[m] = "none"
      BY <1>0, <2>1, <2>2 DEF SettlementInv, AnsweredOnce, TypeOK
    <3>4. \A m \in Attempts : m > task'.count => receipt'[m] = "none"
      <4> SUFFICES ASSUME NEW m \in Attempts, m > task.count PROVE receipt'[m] = "none"
        BY <2>1
      <4>1. m # n
        BY <1>0, <2>1 DEF Attempts
      <4>2. QED
        BY <2>2, <4>1 DEF SettlementInv, AnsweredOnce
    <3>5. QED
      BY <3>2, <3>3, <3>4 DEF AnsweredOnce
  <2>6. SuccessIsProven'
    BY <2>1, <2>2 DEF SettlementInv, SuccessIsProven
  <2>7. QED
    BY <2>2, <2>3, <2>4, <2>5, <2>6 DEF SettlementInv
<1>28. ASSUME OperatorReleases PROVE SettlementInv'
  <2> DEFINE st == IF task.status # "BUDGET_REVIEW" /\ task.budget = 0
                     THEN "BUDGET_REVIEW" ELSE "READY"
             b == IF task.status = "BUDGET_REVIEW" THEN task.budget + 1 ELSE task.budget
             one == [task EXCEPT !.status = st]
             two == [one EXCEPT !.rev = task.rev + 1]
             row == [two EXCEPT !.budget = b]
  <2>1. st \in {"BUDGET_REVIEW", "READY"} /\ b \in Nat
    BY <1>0
  <2>2. one \in Rows
    BY <1>0, <2>1, RowFields
  <2>3. two \in Rows
    BY <1>0, <2>2, RowFields
  <2>4. row \in Rows
    BY <2>1, <2>3, RowFields
  <2>5. /\ row.rev = task.rev + 1 /\ row.cur = task.cur /\ row.count = task.count
        /\ row.status = st
    BY <1>0 DEF Rows
  <2>6. task' = row
    BY <1>0, <1>28 DEF OperatorReleases, Rows
  <2> HIDE DEF row, one, two, st, b
  <2>7. /\ task.cur = 0 /\ task.status # "SUCCEEDED"
        /\ UNCHANGED <<effect, receipt, head, projected, used, runner, stray, crashes>>
    BY <1>28 DEF OperatorReleases
  <2>8. TypeOK'
    BY <1>0, <2>4, <2>6, <2>7 DEF TypeOK, Rows
  <2>9. WorkersDistinct' /\ AnsweredOnce' /\ HeadInv'
    BY <2>5, <2>6, <2>7 DEF SettlementInv, WorkersDistinct, AnsweredOnce, HeadInv
  <2>10. ReadIsCurrent'
    BY <1>0, <2>5, <2>6, <2>7 DEF SettlementInv, ReadIsCurrent
  <2>11. RowInv' /\ SuccessIsProven'
    BY <2>1, <2>5, <2>6, <2>7 DEF SettlementInv, RowInv, SuccessIsProven
  <2>12. QED
    BY <2>8, <2>9, <2>10, <2>11 DEF SettlementInv
<1>29. ASSUME OtherRunCommits PROVE SettlementInv'
  <2>1. /\ head' = MaxAttempts + 1
        /\ UNCHANGED <<task, effect, receipt, projected, used, runner, stray, crashes>>
    BY <1>29 DEF OtherRunCommits, Elsewhere
  <2>2. TypeOK'
    BY <1>0, <2>1 DEF TypeOK
  <2>3. HeadInv'
    BY <1>0, <2>1 DEF SettlementInv, HeadInv, Attempts, Basis
  <2>4. QED
    BY <2>1, <2>2, <2>3 DEF SettlementInv, RowInv, WorkersDistinct, AnsweredOnce,
                            ReadIsCurrent, SuccessIsProven
<1>30. CASE UNCHANGED vars
  BY <1>30 DEF vars, SettlementInv, TypeOK, RowInv, WorkersDistinct, AnsweredOnce,
               ReadIsCurrent, HeadInv, SuccessIsProven
<1>31. ASSUME NEW r \in Runners, RunnerStep(r) PROVE SettlementInv'
  BY <1>1, <1>2, <1>4, <1>5, <1>6, <1>7, <1>8, <1>9, <1>10, <1>14, <1>15, <1>16, <1>18,
     <1>19, <1>21, <1>22, <1>23, <1>25, <1>26, <1>31
     DEF RunnerStep, Loop, Advance, Recover
<1>32. QED
  BY <1>4, <1>27, <1>28, <1>29, <1>30, <1>31 DEF Next

(* It holds initially. *)
LEMMA SettlementInitial == Init => SettlementInv
<1> SUFFICES ASSUME Init PROVE SettlementInv
  OBVIOUS
<1>1. At("idle") \in RunnerStates /\ At("idle").pc = "idle"
  BY AtType DEF Phases
<1>2. \A r \in Runners : runner[r] = At("idle")
  BY DEF Init
<1>3. TypeOK
  <2>1. 0 \in 0 .. MaxAttempts /\ 0 \in 0 .. MaxAttempts + 1 /\ 0 \in 0 .. MaxCrashes
    BY SettlementAssumption
  <2>2. task \in Rows
    BY <2>1, SettlementAssumption DEF Init, Rows
  <2>3. runner \in [Runners -> RunnerStates]
    BY <1>1 DEF Init
  <2>4. QED
    BY <2>1, <2>2, <2>3 DEF Init, TypeOK, Rows, Basis
<1>4. QED
  BY <1>1, <1>2, <1>3, SettlementAssumption
     DEF Init, SettlementInv, RowInv, WorkersDistinct, AnsweredOnce, ReadIsCurrent, HeadInv,
         SuccessIsProven, Working, Asking, Basis, Attempts

(* The invariant holds in every reachable state. *)
LEMMA SettlementInvariant == Spec => []SettlementInv
BY SettlementInitial, SettlementStep, PTL DEF Spec

-----------------------------------------------------------------------------
(* Theorems                                                                *)

(* A chapter is committed at most once, whatever keys its attempts use,    *)
(* however many runners work on it, and however late a call that nobody    *)
(* waits for any more reaches the commit service.                          *)
THEOREM ChapterCommittedOnce == Spec => []NoDoubleCommit
<1>1. SettlementInv => NoDoubleCommit
  <2> SUFFICES ASSUME SettlementInv PROVE NoDoubleCommit
    OBVIOUS
  <2> DEFINE S == {n \in Attempts : receipt[n] = "ACCEPTED"}
  <2>1. CASE S = {}
    BY <2>1, FS_EmptySet DEF NoDoubleCommit
  <2>2. CASE S # {}
    <3>1. PICK n \in Attempts : receipt[n] = "ACCEPTED"
      BY <2>2
    <3>2. S = {n}
      BY <3>1 DEF SettlementInv, HeadInv
    <3>3. Cardinality(S) = 1
      BY <3>2, FS_Singleton
    <3>4. QED
      BY <3>3 DEF NoDoubleCommit
  <2>3. QED
    BY <2>1, <2>2
<1>2. QED
  BY <1>1, SettlementInvariant, PTL

(* A chapter reads SUCCEEDED exactly when its Projection task exists, and  *)
(* then on the proof of an accepted receipt, whether its own runner or a   *)
(* recovering one recorded it.                                             *)
THEOREM ChapterSuccessIsProven == Spec => []SuccessIsProven
BY SettlementInvariant, PTL DEF SettlementInv

-----------------------------------------------------------------------------
(* One runner and its first attempt                                        *)

(* With one runner nobody overtakes it: it keeps its fence, what it read   *)
(* of the receipt stays true, and the request it makes is open until it    *)
(* has the answer.                                                         *)
Alone(r) ==
  /\ runner[r].pc \in Working => task.cur = runner[r].n
  /\ runner[r].pc \in {"requested", "stage2w"} => effect[runner[r].n] = "REQUESTED"
  /\ runner[r].pc \in {"compensate", "settle"} /\ runner[r].n = StableKey =>
       receipt[StableKey] # "ACCEPTED"
  /\ runner[r].pc \in {"decide", "retry"} => runner[r].found = receipt[StableKey]

AloneInv(r) == SettlementInv /\ stray = {} /\ Alone(r) /\ FirstReceiptKept

(* A step of the only runner, or of its surroundings. *)
LEMMA AloneStep ==
  ASSUME NEW r, Runners = {r}, ~AnswersLost, AloneInv(r), [Next]_vars
  PROVE  AloneInv(r)'
<1>0. /\ TypeOK /\ runner[r] \in RunnerStates /\ r \in Runners
      /\ StableKey \in Attempts /\ StableKey # 0 /\ StableKey = 1
      /\ effect \in [Attempts -> {"none", "REQUESTED", "COMPENSATED", "COMPLETED"}]
      /\ receipt \in [Attempts -> {"none", "ACCEPTED", "CONFLICTED", "REJECTED"}]
      /\ runner \in [Runners -> RunnerStates] /\ task \in Rows
      /\ SettlementInv'
  <2>1. SettlementInv /\ SettlementInv'
    BY SettlementStep DEF AloneInv
  <2>2. TypeOK /\ r \in Runners
    BY <2>1 DEF SettlementInv
  <2>3. StableKey \in Attempts /\ StableKey # 0 /\ StableKey = 1
    BY SettlementAssumption DEF StableKey, Attempts
  <2>4. QED
    BY <2>1, <2>2, <2>3, RunnerType, RowsType DEF TypeOK
<1>1. ASSUME runner[r].pc \in Working
      PROVE  /\ Fenced(r) /\ runner[r].n \in Attempts /\ task.cur # 0
             /\ runner[r].pc \in Asking => receipt[runner[r].n] = "none"
  BY <1>0, <1>1, SettlementAssumption
     DEF AloneInv, Alone, Fenced, SettlementInv, WorkersDistinct, AnsweredOnce, TypeOK, Attempts
<1> USE DEF Phases
(* It goes back to the loop, or ends. *)
<1>2. ASSUME NEW pc \in {"down", "idle", "loop"}, runner' = [runner EXCEPT ![r] = At(pc)],
             UNCHANGED <<receipt, stray>>,
             effect' = effect \/ effect' = [effect EXCEPT ![task.cur] = "COMPLETED"]
      PROVE  AloneInv(r)'
  <2>1. runner'[r].pc = pc
    BY <1>0, <1>2, AtType
  <2>2. Alone(r)' /\ FirstReceiptKept' /\ stray' = {}
    BY <1>0, <1>2, <2>1 DEF AloneInv, Alone, FirstReceiptKept, Working, Asking
  <2>3. QED
    BY <1>0, <2>2 DEF AloneInv
<1>3. ASSUME LoopReturn(r) \/ FenceLost(r) \/ ClaimRefused(r) \/ ExternalCommitRefused(r)
             \/ ReconcileExternalRefused(r) \/ RecoveryRefused(r) \/ Start(r) \/ Kill(r)
             \/ SettleAttempt(r) \/ OperatorReconcileAttempt(r) \/ MarkRecoveryPending(r)
             \/ RecordExternalCommit(r) \/ ReconcileExternalCommit(r)
      PROVE  AloneInv(r)'
  BY <1>2, <1>3
     DEF LoopReturn, FenceLost, ClaimRefused, ExternalCommitRefused, ReconcileExternalRefused,
         RecoveryRefused, Start, Kill, SettleAttempt, OperatorReconcileAttempt,
         MarkRecoveryPending, RecordExternalCommit, ReconcileExternalCommit,
         SettleExternalCommit, Return, Exit
<1>4. CASE LoopRecover(r) \/ LoopDispatch(r) \/ ResolveCommit(r)
  <2>1. /\ UNCHANGED <<task, effect, receipt, stray>>
        /\ \/ runner'[r].pc \in {"read", "ready"}
           \/ runner'[r].pc = "decide" /\ runner'[r].found = receipt[StableKey]
    BY <1>0, <1>4 DEF LoopRecover, LoopDispatch, ResolveCommit, Go, RunnerStates
  <2>2. Alone(r)' /\ FirstReceiptKept' /\ stray' = {}
    BY <2>1 DEF AloneInv, Alone, FirstReceiptKept, Working, Asking
  <2>3. QED
    BY <1>0, <2>2 DEF AloneInv
<1>5. CASE ReadTask(r)
  <2>1. CASE Recoverable
    <3>1. /\ UNCHANGED <<task, effect, receipt, stray>> /\ runner'[r].pc = "resolve"
      BY <1>0, <1>5, <2>1 DEF ReadTask, At
    <3>2. Alone(r)' /\ FirstReceiptKept' /\ stray' = {}
      BY <3>1 DEF AloneInv, Alone, FirstReceiptKept, Working, Asking
    <3>3. QED
      BY <1>0, <3>2 DEF AloneInv
  <2>2. CASE ~Recoverable
    BY <1>2, <1>5, <2>2 DEF ReadTask
  <2>3. QED
    BY <2>1, <2>2
<1>6. CASE Claim(r)
  <2>1. /\ UNCHANGED <<effect, receipt, stray>> /\ runner'[r].pc = "claimed"
        /\ runner'[r].n = task.count + 1 /\ task'.cur = task.count + 1
    BY <1>0, <1>6 DEF Claim, RunnerStates, Rows
  <2>2. Alone(r)' /\ FirstReceiptKept' /\ stray' = {}
    BY <2>1 DEF AloneInv, Alone, FirstReceiptKept
  <2>3. QED
    BY <1>0, <2>2 DEF AloneInv
<1>7. CASE ClaimLane(r)
  <2>1. /\ UNCHANGED <<effect, receipt, stray>> /\ runner'[r].pc = "laned"
        /\ runner'[r].n = runner[r].n /\ task'.cur = task.cur /\ runner[r].pc = "claimed"
    BY <1>0, <1>7 DEF ClaimLane, Go, RunnerStates, Rows
  <2>2. Alone(r)' /\ FirstReceiptKept' /\ stray' = {}
    BY <2>1 DEF AloneInv, Alone, FirstReceiptKept, Working, Asking
  <2>3. QED
    BY <1>0, <2>2 DEF AloneInv
<1>8. CASE RecordEffectRequested(r)
  <2>1. /\ UNCHANGED <<task, receipt, stray>> /\ runner'[r].pc = "requested"
        /\ runner'[r].n = runner[r].n /\ runner[r].pc = "laned"
        /\ effect' = [effect EXCEPT ![runner[r].n] = "REQUESTED"]
    BY <1>0, <1>8 DEF RecordEffectRequested, Go, RunnerStates
  <2>2. runner[r].n \in Attempts
    BY <1>1, <2>1 DEF Working, Asking
  <2>3. Alone(r)' /\ FirstReceiptKept' /\ stray' = {}
    BY <1>0, <2>1, <2>2 DEF AloneInv, Alone, FirstReceiptKept, Working, Asking
  <2>4. QED
    BY <1>0, <2>3 DEF AloneInv
(* Stage 2W is asked, or ends without a commit. *)
<1>9. ASSUME SettleChecksBasis(r) \/ \E verdict \in Verdicts : Stage2WStops(r, verdict)
      PROVE  AloneInv(r)'
  <2>1. /\ UNCHANGED <<task, effect, receipt, stray>> /\ runner'[r].pc \in {"stage2w", "compensate"}
        /\ runner'[r].n = runner[r].n /\ runner[r].pc \in {"requested", "stage2w"}
    BY <1>0, <1>9 DEF SettleChecksBasis, Stage2WStops, Go, RunnerStates
  <2>2. receipt[runner[r].n] = "none"
    BY <1>1, <2>1 DEF Working, Asking
  <2>3. Alone(r)' /\ FirstReceiptKept' /\ stray' = {}
    BY <2>1, <2>2 DEF AloneInv, Alone, FirstReceiptKept, Working, Asking
  <2>4. QED
    BY <1>0, <2>3 DEF AloneInv
(* It answers: an accepted commit is never followed by a compensation. *)
<1>10. ASSUME NEW result, NEW answer \in {"ok", "lost"}, Stage2WCommits(r, result, answer)
       PROVE  AloneInv(r)'
  <2>1. answer = "ok"
    BY <1>10 DEF Stage2WCommits
  <2>2. /\ UNCHANGED <<task, effect, stray>> /\ runner[r].pc = "stage2w"
        /\ runner'[r].pc = IF result = "ACCEPTED" THEN "committed" ELSE "compensate"
        /\ runner'[r].n = runner[r].n
        /\ receipt' = [receipt EXCEPT ![runner[r].n] = result]
    BY <1>0, <1>10, <2>1 DEF Stage2WCommits, Commit, RunnerStates
  <2>3. runner[r].n \in Attempts /\ effect[runner[r].n] = "REQUESTED"
    BY <1>1, <2>2 DEF AloneInv, Alone, Working, Asking
  <2>4. Alone(r)' /\ FirstReceiptKept' /\ stray' = {}
    BY <1>0, <2>2, <2>3 DEF AloneInv, Alone, FirstReceiptKept, Working, Asking
  <2>5. QED
    BY <1>0, <2>4 DEF AloneInv
<1>11. CASE HeartbeatRefused(r)
  BY <1>1, <1>11 DEF HeartbeatRefused, Working, Asking
<1>12. CASE RecordEffectTerminal(r)
  <2>1. /\ UNCHANGED <<task, receipt, stray>> /\ runner'[r].pc = "settle"
        /\ runner'[r].n = runner[r].n /\ runner[r].pc = "compensate"
        /\ effect' = [effect EXCEPT ![runner[r].n] = "COMPENSATED"]
    BY <1>0, <1>12 DEF RecordEffectTerminal, Go, RunnerStates
  <2>2. Alone(r)' /\ FirstReceiptKept' /\ stray' = {}
    BY <1>0, <2>1 DEF AloneInv, Alone, FirstReceiptKept, Working, Asking
  <2>3. QED
    BY <1>0, <2>2 DEF AloneInv
(* Recovery closes the effect on a receipt that is as it was read. *)
<1>13. CASE ReconcileEffect(r)
  <2>1. /\ UNCHANGED <<task, receipt, stray>> /\ runner'[r].pc = "retry"
        /\ runner'[r].found = runner[r].found /\ runner[r].pc = "decide"
        /\ runner[r].found # "ACCEPTED"
        /\ \/ effect' = effect
           \/ effect' = [effect EXCEPT ![runner[r].n] = "COMPENSATED"]
    BY <1>0, <1>13 DEF ReconcileEffect, Interrupted, Go, RunnerStates
  <2>2. Alone(r)' /\ FirstReceiptKept' /\ stray' = {}
    BY <1>0, <2>1 DEF AloneInv, Alone, FirstReceiptKept, Working, Asking
  <2>3. QED
    BY <1>0, <2>2 DEF AloneInv
<1>14. ASSUME NEW n \in Attempts, StrayEnds(n) PROVE AloneInv(r)'
  BY <1>14 DEF StrayEnds, AloneInv
<1>15. ASSUME OperatorReleases PROVE AloneInv(r)'
  <2>1. UNCHANGED <<effect, receipt, runner, stray>> /\ task.cur = 0
    BY <1>15 DEF OperatorReleases
  <2>2. Alone(r)' /\ FirstReceiptKept' /\ stray' = {}
    BY <1>1, <2>1 DEF AloneInv, Alone, FirstReceiptKept
  <2>3. QED
    BY <1>0, <2>2 DEF AloneInv
<1>16. ASSUME OtherRunCommits \/ UNCHANGED vars PROVE AloneInv(r)'
  <2>1. UNCHANGED <<task, effect, receipt, runner, stray>>
    BY <1>16 DEF OtherRunCommits, vars
  <2>2. Alone(r)' /\ FirstReceiptKept' /\ stray' = {}
    BY <2>1 DEF AloneInv, Alone, FirstReceiptKept
  <2>3. QED
    BY <1>0, <2>2 DEF AloneInv
<1>17. ASSUME RunnerStep(r) PROVE AloneInv(r)'
  BY <1>3, <1>4, <1>5, <1>6, <1>7, <1>8, <1>9, <1>10, <1>11, <1>12, <1>13, <1>17
     DEF RunnerStep, Loop, Advance, Recover
<1>18. QED
  BY <1>3, <1>14, <1>15, <1>16, <1>17 DEF Next

(* As long as one runner process serves the run and the commit port does   *)
(* not lose its answers, the commit of a task's first attempt is never     *)
(* closed as compensated, however often the runner is killed, whatever the *)
(* later attempts do and whoever else commits.                             *)
THEOREM FirstCommitKept ==
  ASSUME NEW r, Runners = {r}, ~AnswersLost
  PROVE  Spec => []FirstReceiptKept
<1>1. Init => AloneInv(r)
  <2> SUFFICES ASSUME Init PROVE AloneInv(r)
    OBVIOUS
  <2>1. SettlementInv
    BY SettlementInitial
  <2>2. runner[r].pc = "idle" /\ stray = {} /\ StableKey \in Attempts
    BY SettlementAssumption, AtType DEF Init, Phases, StableKey, Attempts
  <2>3. QED
    BY <2>1, <2>2 DEF Init, AloneInv, Alone, FirstReceiptKept, Working, Asking
<1>2. AloneInv(r) /\ [Next]_vars => AloneInv(r)'
  BY AloneStep
<1>3. AloneInv(r) => FirstReceiptKept
  BY DEF AloneInv
<1>4. QED
  BY <1>1, <1>2, <1>3, PTL DEF Spec
=============================================================================
