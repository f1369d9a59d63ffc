----------------------------- MODULE Manuscript -----------------------------
(***************************************************************************)
(* What a creative run promises of the novel it writes, without tasks,     *)
(* attempts, dispatchers or kills: plans and chapters reach Canon one at a *)
(* time, a plan is made for the chapters that follow the last one written, *)
(* no chapter goes past the horizon of a plan, and nothing is committed on *)
(* top of a commit that readers cannot see yet.  CreativeRun implements it.*)
(***************************************************************************)
EXTENDS Naturals

CONSTANT Target   \* the chapters the run was asked for

VARIABLES
  horizons,   \* how many chapters a plan may be for
  written,    \* chapters in Canon
  covered,    \* the last chapter some plan in Canon covers
  fresh,      \* the latest plan or chapter has been projected
  completed   \* the run has reported its target reached

vars == <<horizons, written, covered, fresh, completed>>

CommitPlan ==
  /\ fresh /\ fresh' = FALSE
  /\ written < Target
  /\ \E h \in horizons : covered' = written + h
  /\ UNCHANGED <<horizons, written, completed>>

CommitChapter ==
  /\ fresh /\ fresh' = FALSE
  /\ written < Target /\ written < covered
  /\ written' = written + 1
  /\ UNCHANGED <<horizons, covered, completed>>

Project ==
  /\ ~fresh /\ fresh' = TRUE
  /\ UNCHANGED <<horizons, written, covered, completed>>

Complete ==
  /\ written = Target /\ fresh
  /\ completed' = TRUE
  /\ UNCHANGED <<horizons, written, covered, fresh>>

Init ==
  /\ horizons \subseteq Nat \ {0} /\ horizons # {}
  /\ written = 0 /\ covered = 0
  /\ fresh = TRUE /\ completed = FALSE

Next == CommitPlan \/ CommitChapter \/ Project \/ Complete

Spec == Init /\ [][Next]_vars
=============================================================================
