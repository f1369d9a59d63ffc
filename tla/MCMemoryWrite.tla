---------------------------- MODULE MCMemoryWrite ----------------------------
(***************************************************************************)
(* Instances of MemoryWrite for TLC.  A candidate can be fine, need a      *)
(* Guardian, be critical, carry a malformed field the normaliser can fix   *)
(* or a finding only the curator, a refresh or a human can settle; "mixed" *)
(* has one good and one bad operation.                                     *)
(***************************************************************************)
EXTENDS MemoryWrite

MCContent == {"empty", "good", "risky", "critical", "typo", "mixed", "stale",
              "doubtful", "alien"}
MCFinding == [empty |-> "pass", good |-> "pass", risky |-> "pass", critical |-> "pass",
              typo |-> "deterministic", mixed |-> "curator", stale |-> "refresh",
              doubtful |-> "guardian", alien |-> "fatal"]
MCRisk == [c \in MCContent |-> CASE c = "risky" -> "high" [] c = "critical" -> "critical"
                                 [] OTHER -> "low"]
MCNormal == [c \in MCContent |-> IF c = "typo" THEN {"good", "risky"} ELSE {}]
MCRest == [c \in MCContent |-> IF c = "mixed" THEN "good" ELSE "nothing"]
Req(m, p, t, v, c) ==
    [mode |-> m, profile |-> p, text |-> t, validationOnly |-> v, caller |-> c]
MCRequests == {Req("curator", "chapter", TRUE, FALSE, "checkpoint"),
               Req("curator", "require", FALSE, TRUE, "result"),
               Req("trusted", "require", FALSE, FALSE, "checkpoint"),
               Req("none", "changed", FALSE, FALSE, "checkpoint"),
               Req("none", "chapter", TRUE, FALSE, "checkpoint"),
               Req("none", "chapter", TRUE, FALSE, "none"),
               Req("none", "chapter", FALSE, FALSE, "none")}
MCPatches == {"good", "risky", "mixed", "critical"}
MCKind == [schema |-> "retryable", scope |-> "final", boundary |-> "boundary"]
MCSignature == [schema |-> 1, scope |-> 2, boundary |-> 3]
MCOutputHash == [schema |-> 1, scope |-> 2, boundary |-> 0]
MCRejections == DOMAIN MCKind
=============================================================================
