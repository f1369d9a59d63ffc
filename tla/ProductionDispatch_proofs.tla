---------------------- MODULE ProductionDispatch_proofs ----------------------
(***************************************************************************)
(* The task budget of a dispatch cycle, for any number of runs and any     *)
(* interleaving of their coroutines.                                       *)
(***************************************************************************)
EXTENDS ProductionDispatch, Functions, FiniteSetTheorems, TLAPS

-----------------------------------------------------------------------------
(* A tally is a sum                                                        *)

(* The units of one member are f[x] many. *)
LEMMA UnitsOfOne ==
  ASSUME NEW x, NEW k \in Nat
  PROVE  IsFiniteSet({x} \X (1 .. k)) /\ Cardinality({x} \X (1 .. k)) = k
<1>1. IsFiniteSet({x}) /\ Cardinality({x}) = 1
  BY FS_Singleton
<1>2. IsFiniteSet(1 .. k) /\ Cardinality(1 .. k) = k
  BY FS_Interval
<1> DEFINE one == {x}
           units == 1 .. k
<1> HIDE DEF one, units
<1>3. IsFiniteSet(one \X units) /\ Cardinality(one \X units) = Cardinality(one) * Cardinality(units)
  BY <1>1, <1>2, FS_Product DEF one, units
<1>4. Cardinality(one \X units) = k
  BY <1>1, <1>2, <1>3 DEF one, units
<1>5. QED
  BY <1>3, <1>4 DEF one, units

(* Finitely many members hold finitely many units. *)
LEMMA UnitsFinite ==
  ASSUME NEW S, IsFiniteSet(S), NEW f, \A x \in S : f[x] \in Nat
  PROVE  IsFiniteSet(Units(f, S)) /\ Tally(f, S) \in Nat
<1> DEFINE held == {{x} \X (1 .. f[x]) : x \in S}
           of == [x \in S |-> {x} \X (1 .. f[x])]
<1>1. of \in Surjection(S, held)
  BY DEF Surjection
<1>2. IsFiniteSet(held)
  BY <1>1, FS_Surjection
<1>3. \A T \in held : IsFiniteSet(T)
  <2> SUFFICES ASSUME NEW x \in S PROVE IsFiniteSet({x} \X (1 .. f[x]))
    OBVIOUS
  <2>1. QED
    BY UnitsOfOne
<1> HIDE DEF held
<1>4. IsFiniteSet(UNION held)
  BY <1>2, <1>3, FS_UNION
<1>5. QED
  BY <1>4, FS_CardinalityType DEF Units, Tally, held

(* One member holds what it holds. *)
LEMMA TallyOne ==
  ASSUME NEW f, NEW x, f[x] \in Nat
  PROVE  Tally(f, {x}) = f[x]
<1>1. Units(f, {x}) = {x} \X (1 .. f[x])
  BY DEF Units
<1>2. QED
  BY <1>1, UnitsOfOne DEF Tally

(* The members of two sets without a common one are counted apart. *)
LEMMA TallyUnion ==
  ASSUME NEW S, IsFiniteSet(S), NEW T, IsFiniteSet(T), S \cap T = {},
         NEW f, \A x \in S \cup T : f[x] \in Nat
  PROVE  Tally(f, S \cup T) = Tally(f, S) + Tally(f, T)
<1>1. Units(f, S \cup T) = Units(f, S) \cup Units(f, T)
  BY DEF Units
<1>2. Units(f, S) \cap Units(f, T) = {}
  BY DEF Units
<1>3. /\ IsFiniteSet(Units(f, S)) /\ Tally(f, S) \in Nat
      /\ IsFiniteSet(Units(f, T)) /\ Tally(f, T) \in Nat
  BY UnitsFinite
<1> DEFINE us == Units(f, S)
           ut == Units(f, T)
<1> HIDE DEF us, ut
<1>4. Cardinality(us \cup ut) = Cardinality(us) + Cardinality(ut) - Cardinality(us \cap ut)
  BY <1>3, FS_Union DEF us, ut
<1>5. Cardinality(us \cup ut) = Cardinality(us) + Cardinality(ut)
  <2>1. Cardinality(us \cap ut) = 0
    BY <1>2, FS_EmptySet DEF us, ut
  <2>2. Cardinality(us) \in Nat /\ Cardinality(ut) \in Nat
    BY <1>3 DEF us, ut, Tally
  <2>3. QED
    BY <1>4, <2>1, <2>2
<1>6. QED
  BY <1>1, <1>5 DEF Tally, us, ut

(* Only what the members hold matters. *)
LEMMA TallySame ==
  ASSUME NEW S, NEW f, NEW g, \A x \in S : f[x] = g[x]
  PROVE  Tally(f, S) = Tally(g, S)
<1>1. Units(f, S) = Units(g, S)
  BY DEF Units
<1>2. QED
  BY <1>1 DEF Tally

(* One member's count changes and the others' do not: so does the sum. *)
LEMMA TallyMove ==
  ASSUME NEW S, IsFiniteSet(S), NEW f, NEW g, NEW x \in S,
         \A y \in S : f[y] \in Nat /\ g[y] \in Nat,
         \A y \in S \ {x} : f[y] = g[y]
  PROVE  Tally(g, S) = Tally(f, S) - f[x] + g[x]
<1> DEFINE R == S \ {x}
<1>1. IsFiniteSet(R) /\ IsFiniteSet({x}) /\ S = R \cup {x} /\ R \cap {x} = {}
  <2>1. IsFiniteSet(R)
    BY FS_RemoveElement
  <2>2. IsFiniteSet({x})
    BY FS_Singleton
  <2>3. S = R \cup {x} /\ R \cap {x} = {}
    OBVIOUS
  <2>4. QED
    BY <2>1, <2>2, <2>3
<1>2. /\ Tally(f, S) = Tally(f, R) + Tally(f, {x})
      /\ Tally(g, S) = Tally(g, R) + Tally(g, {x})
  <2> HIDE DEF R
  <2>1. \A y \in R \cup {x} : f[y] \in Nat /\ g[y] \in Nat
    BY <1>1
  <2>2. /\ Tally(f, R \cup {x}) = Tally(f, R) + Tally(f, {x})
        /\ Tally(g, R \cup {x}) = Tally(g, R) + Tally(g, {x})
    BY <1>1, <2>1, TallyUnion
  <2>3. QED
    BY <1>1, <2>2
<1>3. Tally(f, {x}) = f[x] /\ Tally(g, {x}) = g[x]
  BY TallyOne
<1>4. Tally(f, R) = Tally(g, R)
  BY TallySame
<1>5. Tally(f, R) \in Nat /\ f[x] \in Nat /\ g[x] \in Nat
  BY <1>1, UnitsFinite
<1>6. QED
  BY <1>2, <1>3, <1>4, <1>5

-----------------------------------------------------------------------------
(* The budget                                                              *)

(* Only an open slice holds a reservation, and its results fit into it; no *)
(* slice is open between two cycles.                                       *)
SlicesAccounted ==
  /\ \A p \in Runs : got[p] <= reserved[p] /\ (pc[p] # "slice" => reserved[p] = 0)
  /\ watch # "cycle" => \A p \in Runs : pc[p] = "off"

Counts ==
  /\ pc \in [Runs -> {"off", "queued", "loop", "slice", "done"}]
  /\ reserved \in [Runs -> Nat] /\ got \in [Runs -> Nat]
  /\ remaining \in Nat /\ advanced \in Nat /\ uncharged \in Nat /\ total \in Nat

BudgetInv == Counts /\ SlicesAccounted /\ BudgetConserved

(* The runs are finitely many. *)
LEMMA RunsFinite == IsFiniteSet(Runs)
BY DispatchAssumption, FS_Interval DEF Runs

(* Without open slices nothing is reserved. *)
LEMMA NothingReserved ==
  ASSUME NEW f, \A p \in Runs : f[p] = 0
  PROVE  Tally(f, Runs) = 0
<1>1. Units(f, Runs) = {}
  BY DEF Units
<1>2. QED
  BY <1>1, FS_EmptySet DEF Tally

(* One reservation changes. *)
LEMMA ReservationMove ==
  ASSUME NEW f \in [Runs -> Nat], NEW g \in [Runs -> Nat], NEW p \in Runs,
         \A q \in Runs \ {p} : f[q] = g[q]
  PROVE  Tally(g, Runs) = Tally(f, Runs) - f[p] + g[p]
<1>1. \A q \in Runs : f[q] \in Nat /\ g[q] \in Nat
  OBVIOUS
<1>2. QED
  BY <1>1, RunsFinite, TallyMove

(* What open slices may still advance is never negative. *)
LEMMA UnusedType ==
  ASSUME Counts, SlicesAccounted
  PROVE  Unused \in [Runs -> Nat]
BY DEF Counts, SlicesAccounted, Unused

(* A step that leaves the slices and the budget alone. *)
LEMMA StillAccounted ==
  ASSUME BudgetInv, UNCHANGED <<reserved, got, remaining, advanced, uncharged, total>>,
         pc' \in [Runs -> {"off", "queued", "loop", "slice", "done"}], SlicesAccounted'
  PROVE  BudgetInv'
<1>1. Counts'
  BY DEF BudgetInv, Counts
<1>2. Unused' = Unused
  BY DEF Unused
<1>3. BudgetConserved'
  BY <1>2 DEF BudgetInv, BudgetConserved, Limited
<1>4. QED
  BY <1>1, <1>3 DEF BudgetInv

(* One coroutine's slice changes: what the budget, the tasks advanced and  *)
(* the tasks given back change by is what its unused tasks change by.      *)
LEMMA Transfer ==
  ASSUME BudgetInv, Counts', SlicesAccounted', NEW p \in Runs,
         \A q \in Runs \ {p} : reserved'[q] = reserved[q] /\ got'[q] = got[q],
         total' = total,
         Limited => advanced' + Unused'[p] + remaining' + uncharged
                    = advanced + Unused[p] + remaining + uncharged'
  PROVE  BudgetInv'
<1>1. Unused \in [Runs -> Nat] /\ Unused' \in [Runs -> Nat]
  <2>1. Unused \in [Runs -> Nat]
    BY UnusedType DEF BudgetInv
  <2>2. Unused' \in [Runs -> Nat]
    BY DEF Counts, SlicesAccounted, Unused
  <2>3. QED
    BY <2>1, <2>2
<1>2. \A q \in Runs \ {p} : Unused[q] = Unused'[q]
  BY DEF Unused
<1>3. Tally(Unused', Runs) = Tally(Unused, Runs) - Unused[p] + Unused'[p]
  BY <1>1, <1>2, ReservationMove
<1>4. Tally(Unused, Runs) \in Nat /\ Unused[p] \in Nat /\ Unused'[p] \in Nat
  BY <1>1, RunsFinite, UnitsFinite
<1>5. BudgetConserved'
  <2> SUFFICES ASSUME Limited'
               PROVE  advanced' + Tally(Unused', Runs) + remaining' = total' + uncharged'
    BY DEF BudgetConserved
  <2>1. Limited
    BY DEF Limited
  <2>2. advanced + Tally(Unused, Runs) + remaining = total + uncharged
    BY <2>1 DEF BudgetInv, BudgetConserved
  <2>3. /\ {advanced, remaining, uncharged, total} \subseteq Nat
        /\ {advanced', remaining', uncharged'} \subseteq Nat
    BY DEF BudgetInv, Counts
  <2> DEFINE t == Tally(Unused, Runs)
             t1 == Tally(Unused', Runs)
             u == Unused[p]
             u1 == Unused'[p]
  <2>4. /\ t \in Nat /\ u \in Nat /\ u1 \in Nat /\ t1 = t - u + u1
        /\ advanced + t + remaining = total + uncharged
        /\ advanced' + u1 + remaining' + uncharged = advanced + u + remaining + uncharged'
    BY <1>3, <1>4, <2>1, <2>2
  <2> HIDE DEF t, t1, u, u1
  <2>5. advanced' + t1 + remaining' = total + uncharged'
    BY <2>3, <2>4
  <2>6. QED
    BY <2>5 DEF t1
<1>6. QED
  BY <1>5 DEF BudgetInv

(* Every step keeps the budget exact. *)
LEMMA BudgetStep == BudgetInv /\ [Next]_vars => BudgetInv'
<1> SUFFICES ASSUME BudgetInv, [Next]_vars PROVE BudgetInv'
  OBVIOUS
<1>0. /\ pc \in [Runs -> {"off", "queued", "loop", "slice", "done"}]
      /\ reserved \in [Runs -> Nat] /\ got \in [Runs -> Nat]
      /\ remaining \in Nat /\ advanced \in Nat /\ uncharged \in Nat /\ total \in Nat
      /\ \A p \in Runs : got[p] <= reserved[p] /\ (pc[p] # "slice" => reserved[p] = 0)
      /\ watch # "cycle" => \A p \in Runs : pc[p] = "off"
      /\ MaxTasks \in Nat \ {0}
  BY DispatchAssumption DEF BudgetInv, Counts, SlicesAccounted
<1>1. ASSUME NEW failing, Cycle(failing) PROVE BudgetInv'
  <2>1. /\ watch = "asleep" /\ watch' = "cycle" /\ remaining' = total /\ total' = total
        /\ advanced' = 0 /\ uncharged' = 0 /\ UNCHANGED <<reserved, got>>
        /\ pc' = [p \in Runs |-> IF assembly'[p] = "failed" THEN "done" ELSE "queued"]
    BY <1>1 DEF Cycle, Gather, settings
  <2>2. \A p \in Runs : reserved[p] = 0 /\ got[p] = 0
    BY <1>0, <2>1
  <2>3. Counts' /\ SlicesAccounted'
    BY <1>0, <2>1, <2>2 DEF Counts, SlicesAccounted
  <2>4. BudgetConserved'
    <3>1. \A p \in Runs : Unused'[p] = 0
      BY <2>1, <2>2 DEF Unused
    <3>2. Tally(Unused', Runs) = 0
      BY <3>1, NothingReserved
    <3>3. QED
      BY <1>0, <2>1, <3>2 DEF BudgetConserved, Limited
  <2>5. QED
    BY <2>3, <2>4 DEF BudgetInv
<1>2. ASSUME \A p \in Runs : pc[p] = "done", pc' = [q \in Runs |-> "off"],
             UNCHANGED <<reserved, got, remaining, advanced, uncharged, total>>
      PROVE  BudgetInv'
  <2>1. pc' \in [Runs -> {"off", "queued", "loop", "slice", "done"}] /\ SlicesAccounted'
    BY <1>0, <1>2 DEF SlicesAccounted
  <2>2. QED
    BY <1>2, <2>1, StillAccounted
<1>3. ASSUME NEW stopped, CycleEnds(stopped) PROVE BudgetInv'
  BY <1>2, <1>3 DEF CycleEnds, settings, history
<1>4. ASSUME CycleRaises PROVE BudgetInv'
  BY <1>2, <1>4 DEF CycleRaises, settings, history
(* A coroutine moves on outside a slice. *)
<1>5. ASSUME NEW p \in Runs, pc[p] # "slice", NEW to \in {"loop", "done", pc[p]},
             pc[p] \in {"queued", "loop"}, pc' = [pc EXCEPT ![p] = to], watch' = watch,
             UNCHANGED <<reserved, got, remaining, advanced, uncharged, total>>
      PROVE  BudgetInv'
  <2>1. pc' \in [Runs -> {"off", "queued", "loop", "slice", "done"}] /\ SlicesAccounted'
    BY <1>0, <1>5 DEF SlicesAccounted
  <2>2. QED
    BY <1>5, <2>1, StillAccounted
<1>6. ASSUME NEW p \in Runs, Enter(p) PROVE BudgetInv'
  BY <1>5, <1>6 DEF Enter, loop, settings, history
<1>7. ASSUME NEW p \in Runs, RunnerRaises(p) PROVE BudgetInv'
  BY <1>5, <1>7 DEF RunnerRaises, Finish, loop, settings, history
<1>8. ASSUME NEW p \in Runs, RunnerLoop(p) PROVE BudgetInv'
  <2>1. CASE MayDispatch(p)
    <3> DEFINE k == ReserveFor(p)
    <3>1. /\ pc[p] = "loop" /\ reserved' = [reserved EXCEPT ![p] = k]
          /\ remaining' = (IF Limited THEN remaining - k ELSE remaining)
          /\ pc' = [pc EXCEPT ![p] = "slice"]
          /\ UNCHANGED <<got, advanced, uncharged, total, watch>>
      BY <1>8, <2>1 DEF RunnerLoop, loop, settings, history
    <3>2. k \in Nat /\ (Limited => k <= remaining)
      BY <1>0 DEF ReserveFor
    <3> HIDE DEF k
    <3>3. /\ reserved[p] = 0 /\ got[p] = 0 /\ remaining' \in Nat
          /\ reserved' \in [Runs -> Nat] /\ reserved'[p] = k
          /\ \A q \in Runs \ {p} : reserved'[q] = reserved[q]
      BY <1>0, <3>1, <3>2
    <3>4. Counts'
      BY <1>0, <3>1, <3>3 DEF Counts
    <3>5. SlicesAccounted'
      BY <1>0, <3>1, <3>2 DEF SlicesAccounted
    <3>6. Unused[p] = 0 /\ Unused'[p] = k
      BY <3>1, <3>2, <3>3 DEF Unused
    <3>7. Limited => advanced' + Unused'[p] + remaining' + uncharged
                     = advanced + Unused[p] + remaining + uncharged'
      BY <1>0, <3>1, <3>2, <3>6
    <3>8. QED
      BY <3>1, <3>3, <3>4, <3>5, <3>7, Transfer
  <2>2. CASE ~MayDispatch(p)
    BY <1>5, <1>8, <2>2 DEF RunnerLoop, Finish, loop, settings, history
  <2>3. QED
    BY <2>1, <2>2
<1>9. ASSUME NEW p \in Runs, NEW then, NEW done, AdvanceTask(p, then, done) PROVE BudgetInv'
  <2>1. /\ got[p] < reserved[p] /\ got' = [got EXCEPT ![p] = @ + 1] /\ advanced' = advanced + 1
        /\ UNCHANGED <<pc, reserved, remaining, uncharged, total, watch>>
    BY <1>9 DEF AdvanceTask, loop, settings
  <2>2. Counts' /\ SlicesAccounted'
    BY <1>0, <2>1 DEF Counts, SlicesAccounted
  <2>3. Unused[p] = reserved[p] - got[p] /\ Unused'[p] = reserved[p] - got[p] - 1
    BY <1>0, <2>1 DEF Unused
  <2>4. advanced' + Unused'[p] + remaining' + uncharged
        = advanced + Unused[p] + remaining + uncharged'
    BY <1>0, <2>1, <2>3
  <2>5. QED
    BY <1>0, <2>1, <2>2, <2>4, Transfer
(* The slice is over; used of its tasks are charged, the rest is given back. *)
<1>10. ASSUME NEW p \in Runs, NEW used \in Nat, used <= got[p], ReleaseUnused(p, used),
              pc[p] = "slice", watch' = watch, NEW to \in {"loop", "done"},
              pc' = [pc EXCEPT ![p] = to],
              reserved' = [reserved EXCEPT ![p] = 0], got' = [got EXCEPT ![p] = 0],
              advanced' = advanced, uncharged' = uncharged + got[p] - used, total' = total
       PROVE  BudgetInv'
  <2>1. /\ remaining' = (IF Limited THEN remaining + reserved[p] - used ELSE remaining)
        /\ reserved[p] \in Nat /\ got[p] \in Nat /\ used <= reserved[p]
    BY <1>0, <1>10 DEF ReleaseUnused
  <2>2. remaining' \in Nat /\ uncharged' \in Nat
    BY <1>0, <1>10, <2>1
  <2>3. Counts' /\ SlicesAccounted'
    BY <1>0, <1>10, <2>2 DEF Counts, SlicesAccounted
  <2>4. Unused[p] = reserved[p] - got[p] /\ Unused'[p] = 0
    BY <1>0, <1>10 DEF Unused
  <2>5. Limited => advanced' + Unused'[p] + remaining' + uncharged
                   = advanced + Unused[p] + remaining + uncharged'
    BY <1>0, <1>10, <2>1, <2>4
  <2>6. QED
    BY <1>0, <1>10, <2>3, <2>5, Transfer
<1>11. ASSUME NEW p \in Runs, SliceReturns(p) PROVE BudgetInv'
  <2>1. /\ pc[p] = "slice" /\ ReleaseUnused(p, got[p]) /\ watch' = watch
        /\ reserved' = [reserved EXCEPT ![p] = 0] /\ got' = [got EXCEPT ![p] = 0]
        /\ pc' = [pc EXCEPT ![p] = "loop"] \/ pc' = [pc EXCEPT ![p] = "done"]
        /\ UNCHANGED <<advanced, uncharged, total>>
    BY <1>11 DEF SliceReturns, Finish, loop, settings, history
  <2>2. got[p] \in Nat /\ got[p] <= got[p] /\ uncharged' = uncharged + got[p] - got[p]
    BY <1>0, <2>1
  <2>3. QED
    BY <1>10, <2>1, <2>2
<1>12. ASSUME NEW p \in Runs, NEW then, SliceRaises(p, then) PROVE BudgetInv'
  <2>1. /\ pc[p] = "slice" /\ ReleaseUnused(p, 0) /\ watch' = watch
        /\ reserved' = [reserved EXCEPT ![p] = 0] /\ got' = [got EXCEPT ![p] = 0]
        /\ pc' = [pc EXCEPT ![p] = "done"]
        /\ uncharged' = uncharged + got[p] /\ UNCHANGED <<advanced, total>>
    BY <1>12 DEF SliceRaises, Finish, loop, settings
  <2>2. 0 \in Nat /\ 0 <= got[p] /\ uncharged' = uncharged + got[p] - 0
    BY <1>0, <2>1
  <2>3. QED
    BY <1>10, <2>1, <2>2
<1>13. ASSUME UNCHANGED <<pc, got, reserved, remaining, advanced, uncharged, total, watch>>
       PROVE  BudgetInv'
  <2>1. SlicesAccounted'
    BY <1>0, <1>13 DEF SlicesAccounted
  <2>2. QED
    BY <1>0, <1>13, <2>1, StillAccounted
<1>14. ASSUME NEW p \in Runs, Recover(p) PROVE BudgetInv'
  BY <1>13, <1>14 DEF Recover, loop, settings, history
<1>15. ASSUME NEW p \in Runs, Served(p) PROVE BudgetInv'
  BY <1>13, <1>15 DEF Served, coroutine, loop, settings, history
<1>16. CASE UNCHANGED vars
  BY <1>13, <1>16 DEF vars
<1>17. QED
  BY <1>1, <1>3, <1>4, <1>6, <1>7, <1>8, <1>9, <1>11, <1>12, <1>14, <1>15, <1>16
     DEF Next, Coroutine

(* The tasks advanced, those open slices may still advance and those left  *)
(* add up to max_total_tasks, and to the tasks of slices that raised, at   *)
(* every await, whichever coroutines interleave, however slices end and    *)
(* however many runs there are.                                            *)
THEOREM BudgetIsConserved == Spec => []BudgetConserved
<1>1. Init => BudgetInv
  <2> SUFFICES ASSUME Init PROVE BudgetInv
    OBVIOUS
  <2>1. PICK w \in Watches : total = w.total
    BY DEF Init
  <2>2. total \in Nat
    BY <2>1, DispatchAssumption DEF Setting
  <2>3. Counts /\ SlicesAccounted
    BY <2>2 DEF Init, Counts, SlicesAccounted
  <2>4. \A p \in Runs : Unused[p] = 0
    BY DEF Init, Unused
  <2>5. BudgetConserved
    BY <2>2, <2>4, NothingReserved DEF Init, BudgetConserved
  <2>6. QED
    BY <2>3, <2>5 DEF BudgetInv
<1>2. BudgetInv => BudgetConserved
  BY DEF BudgetInv
<1>3. QED
  BY <1>1, <1>2, BudgetStep, PTL DEF Spec
=============================================================================
