------------------------- MODULE MCRuntimeCommands -------------------------
(* Instances of RuntimeCommands for TLC: which tasks a project has, their  *)
(* kinds and dependencies.                                                 *)
EXTENDS RuntimeCommands, TLC

(* Two runs of one project whose plan commits have the same basis and      *)
(* compete for the lane.                                                   *)
LaneTasks == {"one", "two"}
LaneKinds == [t \in LaneTasks |-> "PLAN_COMMIT"]
LaneDeps == [t \in LaneTasks |-> {}]
LanePlanner == [t \in LaneTasks |-> t]

(* A draft commit made by Stage 2W, and the projection it unlocks. *)
DraftTasks == {"draft", "projection"}
DraftKinds == [draft |-> "DRAFT_COMMIT", projection |-> "PROJECTION_FRESHNESS"]
DraftDeps == [draft |-> {}, projection |-> {"draft"}]
DraftPlanner == [t \in DraftTasks |-> t]
DraftInitial == {"draft"}

(* One run from a Planner with a gap in Canon, through its maintenance and *)
(* its retry, to an accepted plan and its commit.                          *)
ChainTasks == {"planner", "maintenance", "retry", "acceptance", "commit"}
ChainKinds == [planner |-> "PLAN_CANDIDATE", maintenance |-> "MAINTENANCE",
               retry |-> "PLAN_CANDIDATE", acceptance |-> "PLAN_ACCEPTANCE",
               commit |-> "PLAN_COMMIT"]
ChainDeps == [planner |-> {}, maintenance |-> {}, retry |-> {"maintenance"},
              acceptance |-> {"retry"}, commit |-> {"acceptance"}]
ChainPlanner == [t \in ChainTasks |-> IF t = "maintenance" THEN "planner" ELSE t]
ChainInitial == {"planner"}

CommandSymmetry == Permutations(CommandIds)
=============================================================================
