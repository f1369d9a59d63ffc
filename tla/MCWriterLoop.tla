----------------------------- MODULE MCWriterLoop -----------------------------
(* Instances of WriterLoop for TLC. *)
EXTENDS WriterLoop

(* A slice of one turn, one call after the Draft, one rewrite *)
Tight == [rounds |-> 1, turns |-> 1, repairs |-> 0, rewrites |-> 1, post |-> 1]
(* No Memory, no allowance after the Draft, two rewrites *)
Bare == [rounds |-> 0, turns |-> 1, repairs |-> 1, rewrites |-> 2, post |-> 0]
(* A slice with a Memory round inside it, repairs that are tried twice, two rewrites *)
Wide == [rounds |-> 1, turns |-> 2, repairs |-> 2, rewrites |-> 2, post |-> 2]

(* A rewrite that is reconciled in its own slice *)
Deep == [rounds |-> 1, turns |-> 1, repairs |-> 0, rewrites |-> 1, post |-> 6]

AllPolicies == {Tight, Bare, Wide, Deep}
=============================================================================
