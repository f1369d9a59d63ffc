------------------------ MODULE MCProductionDispatch ------------------------
(* Instances of ProductionDispatch for TLC. *)
EXTENDS ProductionDispatch

NoStop == [p \in Runs |-> 0]
StopSecond == [p \in Runs |-> IF p = 2 THEN 1 ELSE 0]

(* A budget for one slice; the second run stopped on its way; one cycle    *)
(* without a budget.                                                       *)
ThreeWatches == {[stop |-> NoStop, cycles |-> 0, total |-> 2],
                 [stop |-> StopSecond, cycles |-> 0, total |-> 2],
                 [stop |-> StopSecond, cycles |-> 1, total |-> 0]}

(* The first run has no slice limit. *)
SomeSlices == [p \in Runs |-> IF p = 1 THEN 0 ELSE 2]
=============================================================================
