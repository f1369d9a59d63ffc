------------------------------ MODULE Tallies ------------------------------
(* Sums of counts, kept as what is counted: the models and their proofs    *)
(* add up reservations without a recursive definition.                     *)
EXTENDS Integers, FiniteSets

(* The units that the members of S hold, f[x] of them for x. *)
Units(f, S) == UNION {{x} \X (1 .. f[x]) : x \in S}

(* The sum of f over S. *)
Tally(f, S) == Cardinality(Units(f, S))
=============================================================================
