------------------------- MODULE MCProjectionOutbox -------------------------
(* Instances of ProjectionOutbox: two processes, commits of two projects.  *)
EXTENDS ProjectionOutbox

TwoWorkers == {"w1", "w2"}

(* What the worker_id parameter is for, and what production wiring gives. *)
OwnId == [w \in TwoWorkers |-> w]
DefaultId == [w \in TwoWorkers |-> "projection-worker.default"]
BothWirings == {OwnId, DefaultId}

(* The last two commits follow one another in one project. *)
ThreeCommits == <<"q", "p", "p">>
TwoCommits == <<"q", "p">>
=============================================================================
