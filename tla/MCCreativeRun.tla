--------------------------- MODULE MCCreativeRun ---------------------------
(* Instances of CreativeRun for TLC. *)
EXTENDS CreativeRun

(* Lookahead with everything accepted by policy. *)
Ahead == [lookahead |-> TRUE, horizon |-> 2, ahead |-> 1, auto |-> TRUE,
          autoPlan |-> TRUE, autoDraft |-> TRUE]
(* A person accepts plans, the planning horizon is one chapter. *)
Manual == [lookahead |-> FALSE, horizon |-> 1, ahead |-> 2, auto |-> TRUE,
           autoPlan |-> FALSE, autoDraft |-> TRUE]
(* One plan for two chapters. *)
Rolling == [lookahead |-> FALSE, horizon |-> 2, ahead |-> 2, auto |-> TRUE,
            autoPlan |-> TRUE, autoDraft |-> TRUE]

AllPolicies == {Ahead, Manual, Rolling}

(* The first plan and the plan made beside the first chapter. *)
EarlyPlans == {<<"plan", 0>>, <<"look", 1>>}
=============================================================================
