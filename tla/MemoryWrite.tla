----------------------------- MODULE MemoryWrite -----------------------------
(***************************************************************************)
(* LocalMemoryWriteWorkflow (Stage 2W): one request is turned into a       *)
(* candidate, normalised, materialised, validated, repaired, reviewed and  *)
(* committed, by a loop that keeps its data in memory and saves a          *)
(* checkpoint after some of its steps.  The process may be killed at any   *)
(* point, also between an effect and the checkpoint after it, or between   *)
(* the last checkpoint and the caller's use of the answer; execute() is    *)
(* called again with the last checkpoint.                                  *)
(*                                                                         *)
(* Data abstraction: what a candidate says is a member of Content, with    *)
(* what the validator finds in it, the risk class of its patch, what the   *)
(* normaliser can make of it and what is left of it when the operations    *)
(* its findings name are taken out.  Token and wall-clock budgets are one  *)
(* nondeterministic step, BudgetSpent.  All ports are present except, when *)
(* HumanPort is FALSE, the human one.                                      *)
(***************************************************************************)
EXTENDS Naturals, Sequences

CONSTANTS
    Content,     \* what a candidate can say
    Empty,       \* the content of an empty delta
    Nothing,     \* no content: nothing is left after a quarantine
    Finding,     \* [Content -> FindingClass]: what the validator reports
    Risk,        \* [Content -> {"low", "high", "critical"}]: the patch risk
    Normal,      \* [Content -> SUBSET Content]: what normalisation makes of it
    Rest,        \* [Content -> Content or Nothing]: operations without a finding
    Patches,     \* what a curator's repair or a human patch can say
    Rejections,  \* the ways the curator's output is refused
    Kind,        \* [Rejections -> {"boundary", "retryable", "final"}]
    Signature,   \* [Rejections -> Nat]: the rejection signature
    OutputHash,  \* [Rejections -> Nat]: the hash of the refused output, 0 for none
    Requests,    \* records [mode, profile, text, validationOnly, caller]; text: does
                 \* the request replace the text root
    HumanPort,   \* is a human approval port configured
    MaxAttempts, MaxRejections, MaxRevisions, MaxRepairs, MaxNormal,
    MaxReviews, MaxRefreshes, MaxCalls,   \* the request's MemoryWriteBudget
    RepeatLimit, \* same_content_hash_limit and same_finding_signature_limit
    MaxFaults    \* bound: kills, lost answers, port failures, foreign commits

FindingClass == {"pass", "deterministic", "curator", "refresh", "guardian", "human", "fatal"}
States == {"LOAD_BASIS", "PREPARE_CANDIDATE", "CURATE_ATTEMPT_PREPARE",
           "CURATE_ATTEMPT_EXECUTE", "PROPOSAL_VALIDATE", "PROPOSAL_REPAIR_POLICY",
           "PROPOSAL_RETRY", "PROPOSAL_HUMAN_SUSPEND", "PROPOSAL_HUMAN_RESUME",
           "NORMALIZE", "MATERIALIZE", "VALIDATE", "REPAIR_POLICY",
           "REFRESH_SOURCE_CONTEXT", "CURATOR_REPAIR", "RISK_CLASSIFY", "GUARDIAN",
           "HUMAN_SUSPEND", "HUMAN_RESUME", "PRECOMMIT", "COMMIT", "PROJECT",
           "FRESHNESS_GATE", "QUARANTINE", "BUDGET_STOP", "STOP", "COMPLETE"}
Down == "DOWN"
Statuses == {"COMMITTED", "NOOP", "HUMAN_REQUIRED", "REPLAN_REQUIRED", "SUSPENDED",
             "QUARANTINED", "BUDGET_EXHAUSTED", "FATAL"}
RepairActions == {"none", "DETERMINISTIC_REPAIR", "CURATOR_REPAIR", "GUARDIAN_REVIEW",
                  "REFRESH", "HUMAN", "QUARANTINE_OPERATION", "STOP_BUDGET_EXHAUSTED",
                  "REPLAN", "STOP_FATAL"}
HumanDecisions == {"APPROVE_EXACT_CANDIDATE", "REQUEST_REVISION", "HUMAN_PATCH", "REJECT"}

ASSUME BudgetAssumption ==
    /\ MaxAttempts \in Nat \ {0} /\ MaxRevisions \in Nat \ {0}
    /\ {MaxRejections, MaxRepairs, MaxNormal, MaxReviews, MaxRefreshes, MaxCalls} \subseteq Nat
    /\ RepeatLimit \in Nat \ {0} /\ MaxFaults \in Nat /\ HumanPort \in BOOLEAN
ASSUME ContentAssumption ==
    /\ Empty \in Content /\ Nothing \notin Content
    /\ Finding \in [Content -> FindingClass] /\ Finding[Empty] = "pass"
    /\ Risk \in [Content -> {"low", "high", "critical"}]
    /\ Normal \in [Content -> SUBSET Content]
    /\ Rest \in [Content -> Content \cup {Nothing}] /\ Patches \subseteq Content
    /\ Nothing \notin Rejections /\ Signature \in [Rejections -> Nat]
    /\ OutputHash \in [Rejections -> Nat]
    /\ Kind \in [Rejections -> {"boundary", "retryable", "final"}]

VARIABLES
    rq,        \* the request, fixed for the behaviour
    wf,        \* _WorkflowData of the running or last execute(); st = Down when killed
    ckpt,      \* the last saved checkpoint
    result,    \* what execute() returned, or NoResult while it runs
    receipt,   \* CommitService's row for the request's idempotency key
    moved,     \* has another request moved the project's current commit
    verdicts,  \* the human decisions recorded, by the revision they are bound to
    sent,      \* how often each proposal model request id went to the provider
    approved,  \* history: the contents a Guardian approved
    faults     \* faults that may still happen
vars == <<rq, wf, ckpt, result, receipt, moved, verdicts, sent, approved, faults>>
world == <<rq, receipt, moved, verdicts, sent, approved, faults>>

NoResult == [status |-> "none", accepted |-> FALSE, uncertain |-> FALSE, reopens |-> FALSE]
NoCand == [rev |-> 0, cs |-> 0, c |-> Nothing]
NoReceipt == [status |-> "none", cand |-> NoCand]
NoUse == [attempts |-> 0, rejections |-> 0, revisions |-> 0, repairs |-> 0,
          normal |-> 0, reviews |-> 0, refreshes |-> 0, calls |-> 0]
NoAttempt == [st |-> "none", out |-> Nothing]
\* cs is the revision that introduced the candidate's change set id; val, req
\* hold the candidate they are about; guard the change set it decided on.
NoData == [st |-> "LOAD_BASIS", cand |-> NoCand, att |-> 0, inflight |-> NoAttempt,
           recovered |-> FALSE, rej |-> Nothing, lastOut |-> 0, lastSig |-> 0,
           sameOut |-> 0, sameSig |-> 0, pdir |-> "none", mat |-> 0, val |-> NoCand, risk |-> 0,
           guard |-> [cs |-> 0, out |-> "none"], gate |-> "none", dir |-> "none",
           appr |-> 0, preq |-> FALSE, req |-> NoCand, com |-> "none", use |-> NoUse,
           acts |-> <<>>, seen |-> {}, noop |-> FALSE]
NoCkpt == [NoData EXCEPT !.st = "none"]
Dead == [NoData EXCEPT !.st = Down]

-------------------------------------------------------------------------------
(* Checkpoints, results and the shared moves of a step *)

\* Mutant of Durable: the checkpoint does not carry the accepted commit.
DurableForgetsCommit(d, s) ==
    [d EXCEPT !.st = s, !.dir = "none", !.acts = <<>>, !.seen = {}, !.gate = "none",
              !.noop = FALSE, !.appr = 0, !.preq = FALSE,
              !.rej = Nothing, !.com = "none"]

\* What a cold start reads back of the data saved when the loop is to go on at
\* s: the directive, the poison-loop receipts, the content hashes seen, the
\* gate and the no-op mark are not among the checkpoint's fields;
\* an approval request only when the save names it; the rejections are rebuilt
\* from the attempt in flight, except before PROPOSAL_VALIDATE appends it.
Durable(d, s) ==
    [d EXCEPT !.st = s, !.dir = "none", !.acts = <<>>, !.seen = {}, !.gate = "none",
              !.noop = FALSE,
              !.appr = IF s = "HUMAN_RESUME" THEN @ ELSE 0,
              !.preq = (s = "PROPOSAL_HUMAN_RESUME") /\ @,
              !.rej = IF d.inflight.st = "rejected" /\ s # "PROPOSAL_VALIDATE"
                      THEN d.inflight.out ELSE Nothing]

Running(s) == wf.st = s /\ result = NoResult
Accepted(d) == d.com = "accepted"
Res(d, s) == [status |-> s, accepted |-> Accepted(d) /\ s \in {"COMMITTED", "SUSPENDED"},
              uncertain |-> FALSE, reopens |-> FALSE]
Uncertain(d) == [Res(d, "SUSPENDED") EXCEPT !.uncertain = TRUE]
PostCommitFatal == [Res(wf, "FATAL") EXCEPT !.accepted = TRUE]

Continue(d, s) == wf' = [d EXCEPT !.st = s] /\ UNCHANGED <<ckpt, result>>
Saved(d, s) == wf' = [d EXCEPT !.st = s] /\ ckpt' = Durable(d, s) /\ UNCHANGED result
Ends(d, r) == wf' = d /\ result' = r /\ UNCHANGED ckpt
\* The checkpoint is durable before the caller has the answer: Kill may take
\* the answer away.
EndsSaved(d, s, r) == wf' = d /\ ckpt' = Durable(d, s) /\ result' = r

\* A new CandidateRevision: usage.candidate_revisions is the highest revision
\* number, the content hash is remembered once.
NewCandidate(d, c, cs) ==
    [d EXCEPT !.cand = [rev |-> d.cand.rev + 1, cs |-> cs, c |-> c],
              !.use.revisions = d.cand.rev + 1,
              !.seen = @ \cup {c}]
Fresh(d, c) == NewCandidate(d, c, d.cand.rev + 1)
CandidateBudgetAvailable(d) == d.use.revisions < MaxRevisions

\* The project's current commit is still the request's base commit.
BaseIsCurrent == ~moved /\ receipt.status # "accepted"

-------------------------------------------------------------------------------
(* Before there is a candidate: proposal attempts *)

LoadBasis == Running("LOAD_BASIS") /\ Continue(wf, "PREPARE_CANDIDATE") /\ UNCHANGED world

PrepareCandidate ==
    /\ Running("PREPARE_CANDIDATE")
    /\ \/ rq.mode = "curator" /\ Continue(wf, "CURATE_ATTEMPT_PREPARE")
       \/ rq.mode = "trusted" /\ \E c \in Content : Saved(Fresh(wf, c), "NORMALIZE")
       \/ rq.mode = "none" /\ Saved(Fresh(wf, Empty), "MATERIALIZE")
    /\ UNCHANGED world

ProposalBudgetAvailable(u) ==
    u.attempts < MaxAttempts /\ u.rejections < MaxRejections /\ u.calls < MaxCalls

\* _budget_stop may also write a quarantine package; nothing reads it back.
BudgetExhausted(d) == Ends(d, Res(d, "BUDGET_EXHAUSTED"))

CurateAttemptPrepare ==
    /\ Running("CURATE_ATTEMPT_PREPARE")
    /\ IF ProposalBudgetAvailable(wf.use)
       THEN Saved([wf EXCEPT !.att = @ + 1, !.use.attempts = @ + 1,
                             !.inflight = [st |-> "requested", out |-> Nothing]],
                  "CURATE_ATTEMPT_EXECUTE")
       ELSE BudgetExhausted(wf)
    /\ UNCHANGED world

\* mark_uncertain and the reserved call charged once, then the loop suspends
\* in front of the next attempt.
HoldUncertain(d) == [d EXCEPT !.inflight.st = "uncertain", !.use.calls = @ + 1]
SuspendUncertain ==
    EndsSaved([HoldUncertain(wf) EXCEPT !.st = "CURATE_ATTEMPT_PREPARE"],
              "CURATE_ATTEMPT_PREPARE", Uncertain(wf))

\* A cold start found an attempt without a terminal receipt.
RecoverInflight ==
    /\ Running("CURATE_ATTEMPT_EXECUTE") /\ wf.recovered
    /\ SuspendUncertain
    /\ UNCHANGED world

\* mark_running and its checkpoint, then the request leaves for the provider.
SendProposal ==
    /\ Running("CURATE_ATTEMPT_EXECUTE") /\ ~wf.recovered /\ wf.inflight.st = "requested"
    /\ Saved([wf EXCEPT !.inflight.st = "running"], "CURATE_ATTEMPT_EXECUTE")
    /\ sent' = [sent EXCEPT ![wf.att] = @ + 1]
    /\ UNCHANGED <<rq, receipt, moved, verdicts, approved, faults>>

InFlight == Running("CURATE_ATTEMPT_EXECUTE") /\ ~wf.recovered /\ wf.inflight.st = "running"
Settle(st, out) ==
    Saved([wf EXCEPT !.inflight = [st |-> st, out |-> out], !.use.calls = @ + 1],
          "PROPOSAL_VALIDATE")

ProposalAnswered ==
    /\ InFlight
    /\ \/ \E c \in Content : Settle("accepted", c)
       \/ \E r \in Rejections : Settle("rejected", r)
    /\ UNCHANGED world

\* Pre-send and oversized-prompt failures abandon the attempt and stop; every
\* other failure leaves it uncertain.
ProposalFails ==
    /\ InFlight /\ faults > 0
    /\ \/ \E s \in {"FATAL", "BUDGET_EXHAUSTED"} :
             EndsSaved([wf EXCEPT !.inflight.st = "abandoned"], "STOP", Res(wf, s))
       \/ SuspendUncertain
    /\ faults' = faults - 1
    /\ UNCHANGED <<rq, receipt, moved, verdicts, sent, approved>>

Repeated(d, r) ==
    [d EXCEPT !.rej = r, !.use.rejections = @ + 1,
              !.sameOut = IF OutputHash[r] # 0 /\ OutputHash[r] = d.lastOut THEN @ + 1 ELSE 1,
              !.sameSig = IF Signature[r] = d.lastSig THEN @ + 1 ELSE 1,
              !.lastOut = OutputHash[r], !.lastSig = Signature[r]]

ProposalValidate ==
    /\ Running("PROPOSAL_VALIDATE")
    /\ IF wf.inflight.st = "accepted"
       THEN Saved(Fresh(wf, wf.inflight.out), "NORMALIZE")
       ELSE Saved(Repeated(wf, wf.inflight.out), "PROPOSAL_REPAIR_POLICY")
    /\ UNCHANGED world

\* BoundedPreCandidateRepairPolicy.decide
ProposalPolicy(d) ==
    IF Kind[d.rej] = "boundary" THEN "fatal"
    ELSE IF d.sameOut >= RepeatLimit \/ d.sameSig >= RepeatLimit THEN "quarantine"
    ELSE IF ~ProposalBudgetAvailable(d.use) THEN "budget_stop"
    ELSE IF Kind[d.rej] = "retryable" THEN "retry_with_feedback" ELSE "human_review"

\* Only a chapter whose optional World delta is poisoned goes on, with an empty
\* delta; the package is written either way.
AdvisoryOnly(d) == rq.profile = "chapter" /\ d.pdir = "quarantine" /\ Kind[d.rej] # "boundary"
QuarantineProposal(d) ==
    IF AdvisoryOnly(d)
    THEN Saved(Fresh(d, Empty), "MATERIALIZE")
    ELSE EndsSaved(d, "PROPOSAL_REPAIR_POLICY", Res(d, "QUARANTINED"))

ProposalRepairPolicy ==
    /\ Running("PROPOSAL_REPAIR_POLICY")
    /\ IF wf.rej = Nothing
       THEN Ends(wf, Res(wf, "FATAL"))
       ELSE LET a == ProposalPolicy(wf)
                d == [wf EXCEPT !.pdir = a]
            IN  CASE a = "retry_with_feedback" -> Continue(d, "PROPOSAL_RETRY")
                  [] a = "human_review" -> Continue(d, "PROPOSAL_HUMAN_SUSPEND")
                  [] a = "quarantine" -> QuarantineProposal(d)
                  [] a = "budget_stop" ->
                       EndsSaved(d, "PROPOSAL_REPAIR_POLICY", Res(d, "BUDGET_EXHAUSTED"))
                  [] a = "fatal" -> Ends(d, Res(d, "FATAL"))
    /\ UNCHANGED world

\* Mutant of ProposalRetry: back to the policy instead of the next attempt.
ProposalRetryAsksAgain ==
    /\ Running("PROPOSAL_RETRY")
    /\ Continue(wf, "PROPOSAL_REPAIR_POLICY")
    /\ UNCHANGED world
ProposalRetry ==
    /\ Running("PROPOSAL_RETRY")
    /\ Saved(wf, "CURATE_ATTEMPT_PREPARE")
    /\ UNCHANGED world

ProposalHumanRequired ==
    EndsSaved([wf EXCEPT !.preq = TRUE], "PROPOSAL_HUMAN_RESUME", Res(wf, "HUMAN_REQUIRED"))

\* Fatal when the rejected output left no draft to show.
ProposalHumanSuspend ==
    /\ Running("PROPOSAL_HUMAN_SUSPEND")
    /\ ProposalHumanRequired \/ Ends(wf, Res(wf, "FATAL"))
    /\ UNCHANGED world

\* No decision yet, a trusted replacement (never usable), retry, or reject.
ProposalHumanResume ==
    /\ Running("PROPOSAL_HUMAN_RESUME")
    /\ \/ ProposalHumanRequired
       \/ HumanPort /\ wf.preq /\ \/ Continue(wf, "PROPOSAL_RETRY")
                                  \/ QuarantineProposal(wf)
    /\ UNCHANGED world

-------------------------------------------------------------------------------
(* The repair loop of a candidate *)

\* AMBIGUOUS and UNCHANGED results keep the candidate.
Normalize ==
    /\ Running("NORMALIZE")
    /\ IF wf.use.normal >= MaxNormal
       THEN BudgetExhausted(wf)
       ELSE LET d == [wf EXCEPT !.use.normal = @ + 1]
            IN  \/ Saved([d EXCEPT !.dir = "none"], "MATERIALIZE")
                \/ \E c \in Normal[wf.cand.c] \ {wf.cand.c} :
                      IF CandidateBudgetAvailable(d)
                      THEN Saved(Fresh([d EXCEPT !.dir = "none"], c), "MATERIALIZE")
                      ELSE BudgetExhausted(d)
    /\ UNCHANGED world

\* No checkpoint: a cold start materialises again.
Materialize ==
    /\ Running("MATERIALIZE")
    /\ \/ Continue([wf EXCEPT !.mat = wf.cand.rev, !.noop = (wf.cand.c = Empty)], "VALIDATE")
       \/ faults > 0 /\ Ends(wf, Res(wf, "FATAL"))
    /\ UNCHANGED world

Validate ==
    /\ Running("VALIDATE")
    /\ Saved([wf EXCEPT !.val = wf.cand],
             IF Finding[wf.cand.c] = "pass" THEN "RISK_CLASSIFY" ELSE "REPAIR_POLICY")
    /\ UNCHANGED world

CuratorOrBudget(u) ==
    IF u.repairs < MaxRepairs /\ u.calls < MaxCalls THEN "CURATOR_REPAIR"
    ELSE "STOP_BUDGET_EXHAUSTED"
GuardianOrBudget(u) ==
    IF u.reviews < MaxReviews /\ u.calls < MaxCalls THEN "GUARDIAN_REVIEW"
    ELSE "STOP_BUDGET_EXHAUSTED"

\* Receipts whose reason codes name the finding; seen_content_hashes lists a
\* hash once, so a content is never counted twice.
SameFinding(d, f) == Len(SelectSeq(d.acts, LAMBDA a : a.code = f))
SameContent(d) == IF d.cand.c \in d.seen THEN 1 ELSE 0
Poisoned(d, f) ==
    (f # "pass" /\ SameFinding(d, f) >= RepeatLimit) \/ SameContent(d) >= RepeatLimit
TriedDeterministic(d) ==
    \E i \in DOMAIN d.acts : /\ d.acts[i].action = "DETERMINISTIC_REPAIR"
                             /\ d.acts[i].rev = d.cand.rev

\* The registry's default action for a finding, with its budget fallback.
ForFinding(d, f) ==
    CASE f = "fatal" -> "STOP_FATAL"
      [] f = "human" -> "HUMAN"
      [] f = "refresh" -> IF d.use.refreshes < MaxRefreshes THEN "REFRESH"
                          ELSE CuratorOrBudget(d.use)
      [] f = "guardian" -> GuardianOrBudget(d.use)
      [] f = "curator" -> CuratorOrBudget(d.use)
      [] f = "deterministic" -> IF TriedDeterministic(d) \/ d.use.normal >= MaxNormal
                                THEN CuratorOrBudget(d.use) ELSE "DETERMINISTIC_REPAIR"

\* BoundedMemoryRepairPolicy.decide: one action and the reason code it records.
\* The "current" commit it compares is that of the loaded basis, which is the
\* request's base: it never asks for a replan here.
Decide(d) ==
    LET f == Finding[d.val.c]
    IN  IF Poisoned(d, f) THEN [action |-> "QUARANTINE_OPERATION", code |-> "poison"]
        ELSE IF d.guard.out = "REVISE" THEN [action |-> CuratorOrBudget(d.use), code |-> "guardian-revise"]
        ELSE IF d.guard.out = "REJECT" THEN [action |-> "QUARANTINE_OPERATION", code |-> "reject"]
        ELSE IF d.guard.out = "HUMAN_REVIEW" \/ d.gate = "REQUIRE_HUMAN"
             THEN [action |-> "HUMAN", code |-> "review"]
        ELSE IF d.gate = "REQUIRE_GUARDIAN" THEN [action |-> GuardianOrBudget(d.use), code |-> "gate"]
        ELSE IF f = "pass"
             THEN [action |-> IF d.risk # 0 /\ Risk[d.cand.c] # "low"
                              THEN GuardianOrBudget(d.use) ELSE "STOP_FATAL", code |-> "gate"]
        ELSE [action |-> ForFinding(d, f),
              code |-> IF f \in {"deterministic", "curator"} THEN f ELSE "other"]

After == [DETERMINISTIC_REPAIR |-> "NORMALIZE", CURATOR_REPAIR |-> "CURATOR_REPAIR",
          GUARDIAN_REVIEW |-> "GUARDIAN", REFRESH |-> "REFRESH_SOURCE_CONTEXT",
          HUMAN |-> "HUMAN_SUSPEND", QUARANTINE_OPERATION |-> "QUARANTINE",
          STOP_BUDGET_EXHAUSTED |-> "BUDGET_STOP", STOP_FATAL |-> "STOP"]

RepairPolicy ==
    /\ Running("REPAIR_POLICY")
    /\ LET r == Decide(wf)
       IN  Continue([wf EXCEPT !.dir = r.action,
                               !.acts = Append(@, [action |-> r.action, code |-> r.code,
                                                   rev |-> wf.cand.rev])],
                    After[r.action])
    /\ UNCHANGED world

RefreshSourceContext ==
    /\ Running("REFRESH_SOURCE_CONTEXT")
    /\ IF wf.use.refreshes >= MaxRefreshes
       THEN BudgetExhausted(wf)
       ELSE Continue([wf EXCEPT !.use.refreshes = @ + 1, !.dir = "none"], "REPAIR_POLICY")
    /\ UNCHANGED world

\* A rejected repair is counted but its model call is not settled.
CuratorRepair ==
    /\ Running("CURATOR_REPAIR")
    /\ IF ~CandidateBudgetAvailable(wf) \/ wf.use.repairs >= MaxRepairs
       THEN BudgetExhausted(wf)
       ELSE LET d == [wf EXCEPT !.use.repairs = @ + 1, !.dir = "none"]
            IN  IF wf.dir = "none" THEN Ends(d, Res(d, "FATAL"))
                ELSE \/ Saved(d, "REPAIR_POLICY")
                     \/ \E c \in Patches :
                           Saved(Fresh([d EXCEPT !.use.calls = @ + 1], c), "NORMALIZE")
    /\ UNCHANGED world

RiskClassify ==
    /\ Running("RISK_CLASSIFY")
    /\ Continue([wf EXCEPT !.risk = wf.cand.rev],
                IF Risk[wf.cand.c] = "low" THEN "PRECOMMIT" ELSE "GUARDIAN")
    /\ UNCHANGED world

AfterReview == [APPROVE |-> "PRECOMMIT", REVISE |-> "REPAIR_POLICY",
                HUMAN_REVIEW |-> "HUMAN_SUSPEND", REJECT |-> "QUARANTINE"]

\* The answer may be lost with the process: the review is then asked again.
Guardian ==
    /\ Running("GUARDIAN")
    /\ IF wf.risk = 0
       THEN Ends(wf, Res(wf, "FATAL")) /\ UNCHANGED approved
       ELSE IF wf.use.reviews >= MaxReviews
       THEN BudgetExhausted(wf) /\ UNCHANGED approved
       ELSE \E out \in DOMAIN AfterReview :
              /\ Saved([wf EXCEPT !.use.reviews = @ + 1, !.use.calls = @ + 1,
                                  !.guard = [cs |-> wf.cand.cs, out |-> out]],
                       AfterReview[out])
              /\ approved' = IF out = "APPROVE" THEN approved \cup {wf.cand.c} ELSE approved
    /\ UNCHANGED <<rq, receipt, moved, verdicts, sent, faults>>

\* The package names the operations of the findings; what remains becomes a
\* child candidate with the same change set id.
QuarantineCandidate ==
    /\ Running("QUARANTINE")
    /\ IF /\ wf.dir = "QUARANTINE_OPERATION"
          /\ Finding[wf.val.c] # "pass" /\ Rest[wf.cand.c] # Nothing
          /\ CandidateBudgetAvailable(wf)
       THEN Continue(NewCandidate([wf EXCEPT !.dir = "none"],
                                  Rest[wf.cand.c], wf.cand.cs), "NORMALIZE")
       ELSE Ends(wf, Res(wf, "QUARANTINED"))
    /\ UNCHANGED world

BudgetStop == Running("BUDGET_STOP") /\ BudgetExhausted(wf) /\ UNCHANGED world

\* Tokens or wall-clock time run out before a model call.
BudgetSpent ==
    /\ \E s \in {"CURATE_ATTEMPT_PREPARE", "CURATOR_REPAIR", "GUARDIAN"} : Running(s)
    /\ faults > 0
    /\ BudgetExhausted(wf)
    /\ UNCHANGED world

Stop ==
    /\ Running("STOP")
    /\ IF wf.dir = "REPLAN" THEN EndsSaved(wf, "STOP", Res(wf, "REPLAN_REQUIRED"))
       ELSE Ends(wf, Res(wf, "FATAL"))
    /\ UNCHANGED world

-------------------------------------------------------------------------------
(* Human approval, the write gate and the commit *)

HumanRequired(d) ==
    IF ckpt = NoCkpt THEN EndsSaved(d, "HUMAN_RESUME", Res(d, "HUMAN_REQUIRED"))
    ELSE Ends(d, Res(d, "HUMAN_REQUIRED"))

\* The approval request is made once per workflow, for the candidate of then.
SuspendForHuman(d) ==
    LET e == [d EXCEPT !.appr = IF @ = 0 THEN d.cand.rev ELSE @]
    IN  EndsSaved(e, "HUMAN_RESUME", Res(e, "HUMAN_REQUIRED"))

HumanSuspend ==
    /\ Running("HUMAN_SUSPEND")
    /\ IF HumanPort THEN SuspendForHuman(wf) ELSE HumanRequired(wf)
    /\ UNCHANGED world

\* Decisions are read when a workflow that waits for one is resumed.
HumanDecides ==
    /\ HumanPort /\ result.status = "HUMAN_REQUIRED"
    /\ \E r \in 1..MaxRevisions, k \in HumanDecisions :
          /\ r \in {wf.appr, ckpt.appr} /\ verdicts[r] = "none"
          /\ verdicts' = [verdicts EXCEPT ![r] = k]
    /\ UNCHANGED <<rq, wf, ckpt, result, receipt, moved, sent, approved, faults>>

\* _exception_result before the commit: fatal, with a STOP checkpoint.
Raises(d) == EndsSaved(d, "STOP", Res(d, "FATAL"))

\* What the decision about the current candidate leads to.  A patch made for
\* other root updates or another commit profile is fatal.
Decided(k) ==
    \/ k = "APPROVE_EXACT_CANDIDATE" /\ Continue(wf, "PRECOMMIT")
    \/ k = "REQUEST_REVISION" /\ Continue([wf EXCEPT !.dir = "CURATOR_REPAIR"], "CURATOR_REPAIR")
    \/ /\ k = "HUMAN_PATCH" /\ CandidateBudgetAvailable(wf)
       /\ \/ \E c \in Patches : Continue(Fresh(wf, c), "NORMALIZE")
          \/ Ends(wf, Res(wf, "FATAL"))
    \/ k = "HUMAN_PATCH" /\ ~CandidateBudgetAvailable(wf) /\ BudgetExhausted(wf)
    \/ k = "REJECT" /\ Continue(wf, "QUARANTINE")

\* _resume_human: a decision bound to another candidate raises.
HumanResume ==
    /\ Running("HUMAN_RESUME")
    /\ IF ~HumanPort THEN HumanRequired(wf)
       ELSE LET k == IF wf.appr = 0 THEN "none" ELSE verdicts[wf.appr]
            IN  \/ k = "none" /\ SuspendForHuman(wf)
                \/ k # "none" /\ wf.appr # wf.cand.rev /\ Raises(wf)
                \/ wf.appr = wf.cand.rev /\ Decided(k)
    /\ UNCHANGED world

\* Mutant of Gate: the Guardian's approval is enough for a critical change.
GateTrustsGuardian(d) ==
    IF d.guard.out = "none"
    THEN IF Risk[d.cand.c] = "low" THEN "ALLOW_COMMIT" ELSE "REQUIRE_GUARDIAN"
    ELSE IF d.guard.cs # d.cand.cs THEN "raises"
    ELSE IF d.guard.out \in {"REJECT", "REVISE"} THEN "BLOCK_GUARDIAN"
    ELSE IF d.guard.out = "HUMAN_REVIEW" THEN "REQUIRE_HUMAN"
    ELSE "ALLOW_COMMIT"

\* GuardianWriteGate.decide, without a human approval: the workflow passes none.
Gate(d) ==
    IF d.guard.out = "none"
    THEN IF Risk[d.cand.c] = "low" THEN "ALLOW_COMMIT" ELSE "REQUIRE_GUARDIAN"
    ELSE IF d.guard.cs # d.cand.cs THEN "raises"
    ELSE IF d.guard.out \in {"REJECT", "REVISE"} THEN "BLOCK_GUARDIAN"
    ELSE IF d.guard.out = "HUMAN_REVIEW" \/ Risk[d.cand.c] = "critical" THEN "REQUIRE_HUMAN"
    ELSE "ALLOW_COMMIT"

RootsChanged(d) == rq.text \/ d.cand.c # Empty

\* What PRECOMMIT does with a candidate the gate lets through.  A chapter that
\* leaves the text root alone is refused.
Cleared(d) ==
    CASE rq.validationOnly -> EndsSaved(d, "COMPLETE", Res(d, "NOOP"))
      [] ~rq.validationOnly /\ rq.profile = "chapter" /\ ~rq.text -> Ends(d, Res(d, "FATAL"))
      [] ~rq.validationOnly /\ rq.profile # "chapter" /\ ~RootsChanged(d) ->
           IF rq.profile = "changed" \/ d.noop THEN Continue(d, "COMPLETE")
           ELSE Ends(d, Res(d, "FATAL"))
      [] /\ ~rq.validationOnly /\ RootsChanged(d)
         /\ rq.profile = "chapter" => rq.text -> Saved([d EXCEPT !.req = d.cand], "COMMIT")

\* A current commit that cannot be read is taken to be the base commit.
PrepareCommit ==
    /\ Running("PRECOMMIT")
    /\ \E unread \in BOOLEAN :
          /\ unread => faults > 0 /\ ~BaseIsCurrent
          /\ faults' = IF unread THEN faults - 1 ELSE faults
          /\ LET g == Gate(wf)
                 d == [wf EXCEPT !.gate = g]
                 complete == Finding[wf.val.c] = "pass" /\ wf.mat # 0 /\ wf.risk # 0
             IN  IF ~BaseIsCurrent /\ ~unread THEN Continue([wf EXCEPT !.dir = "REPLAN"], "STOP")
                 ELSE IF ~complete THEN Ends(wf, Res(wf, "FATAL"))
                 ELSE CASE g = "raises" -> Raises(wf)
                        [] g = "ALLOW_COMMIT" -> Cleared(d)
                        [] g = "REQUIRE_HUMAN" ->
                             Continue([d EXCEPT !.dir = "HUMAN"], "HUMAN_SUSPEND")
                        [] g \in {"REQUIRE_GUARDIAN", "BLOCK_GUARDIAN"} ->
                             Continue([d EXCEPT !.dir = "STOP_FATAL"], "STOP")
    /\ UNCHANGED <<rq, receipt, moved, verdicts, sent, approved>>

\* CommitService: the key's row if there is one, else compare-and-set on the
\* project's current commit; the outcome is recorded under the key either way.
CommitReceipt(cand) ==
    IF receipt # NoReceipt THEN receipt
    ELSE [status |-> IF BaseIsCurrent THEN "accepted" ELSE "conflicted", cand |-> cand]

\* Mutant of Commit: compares the current commit before it asks for the key.
CommitComparesFirst ==
    /\ Running("COMMIT")
    /\ LET r == CommitReceipt(wf.req)
           d == [wf EXCEPT !.com = r.status]
       IN  \/ /\ ~BaseIsCurrent /\ UNCHANGED <<receipt, faults>>
              /\ EndsSaved(wf, "STOP", Res(wf, "REPLAN_REQUIRED"))
           \/ BaseIsCurrent /\ receipt' = r /\ Saved(d, "PROJECT") /\ UNCHANGED faults
           \/ /\ faults > 0 /\ faults' = faults - 1
              /\ receipt' \in {receipt, r}
              /\ EndsSaved(wf, "COMMIT", Uncertain(wf))
    /\ UNCHANGED <<rq, moved, verdicts, sent, approved>>

\* resolve_or_replay_exact and the checkpoint after it.  The transaction may
\* not happen; its answer may be lost; the process may die, or the save fail,
\* between the commit and the CANON_COMMITTED checkpoint.
Commit ==
    /\ Running("COMMIT")
    /\ LET r == CommitReceipt(wf.req)
           d == [wf EXCEPT !.com = r.status]
       IN  \/ /\ receipt' = r /\ UNCHANGED faults
              /\ IF r.status = "accepted" THEN Saved(d, "PROJECT")
                 ELSE EndsSaved(d, "STOP", Res(d, "REPLAN_REQUIRED"))
           \/ /\ faults > 0 /\ faults' = faults - 1
              /\ receipt' \in {receipt, r}
              /\ EndsSaved(wf, "COMMIT", Uncertain(wf))
           \/ /\ faults > 0 /\ faults' = faults - 1 /\ r.status = "accepted"
              /\ receipt' = r
              /\ \/ wf' = Dead /\ UNCHANGED <<ckpt, result>>
                 \/ EndsSaved(d, "STOP", PostCommitFatal)
    /\ UNCHANGED <<rq, moved, verdicts, sent, approved>>

\* _project and _freshness begin by asking for the accepted commit.
WithCommit(A) ==
    IF Accepted(wf) THEN A ELSE Ends(wf, Res(wf, "FATAL")) /\ UNCHANGED faults

\* The readiness port answers ready, pending (or failed but resumable), or failed.
Project ==
    /\ Running("PROJECT")
    /\ WithCommit(\/ Continue(wf, "FRESHNESS_GATE") /\ UNCHANGED faults
                  \/ /\ faults > 0 /\ faults' = faults - 1
                     /\ \E r \in {Res(wf, "SUSPENDED"), PostCommitFatal} :
                           EndsSaved(wf, "FRESHNESS_GATE", r))
    /\ UNCHANGED <<rq, receipt, moved, verdicts, sent, approved>>

\* Completes with the terminal result linked to a COMPLETE checkpoint.
FreshnessGate ==
    /\ Running("FRESHNESS_GATE")
    /\ WithCommit(\/ EndsSaved(wf, "COMPLETE", Res(wf, "COMMITTED")) /\ UNCHANGED faults
                  \/ /\ faults > 0 /\ faults' = faults - 1
                     /\ \/ EndsSaved(wf, "FRESHNESS_GATE", Res(wf, "SUSPENDED"))
                        \/ Ends(wf, PostCommitFatal))
    /\ UNCHANGED <<rq, receipt, moved, verdicts, sent, approved>>

\* An uncommitted no-op; or a start from the COMPLETE checkpoint, which reads
\* the linked terminal result back.
Complete ==
    /\ Running("COMPLETE")
    /\ Ends(wf, Res(wf, IF Accepted(wf) THEN "COMMITTED" ELSE "NOOP"))
    /\ UNCHANGED world

-------------------------------------------------------------------------------
(* Failures, kills and the caller's next execute() *)

\* A port raises.  Only the validation-id failure of VALIDATE can be reopened.
PortRaises ==
    /\ faults > 0 /\ faults' = faults - 1
    /\ \/ /\ \E s \in {"LOAD_BASIS", "NORMALIZE", "CURATOR_REPAIR", "GUARDIAN"} : Running(s)
          /\ Raises(wf)
       \/ /\ Running("VALIDATE")
          /\ \E b \in BOOLEAN : EndsSaved(wf, "STOP", [Res(wf, "FATAL") EXCEPT !.reopens = b])
       \/ Running("PROJECT") /\ EndsSaved(wf, "STOP", PostCommitFatal)
    /\ UNCHANGED <<rq, receipt, moved, verdicts, sent, approved>>

\* The process dies between two steps, or with an answer its caller has not
\* recorded yet: what was saved is then all that is left of that answer.
Kill ==
    /\ wf.st # Down
    /\ faults > 0 /\ faults' = faults - 1
    /\ wf' = Dead /\ result' = NoResult
    /\ UNCHANGED <<rq, ckpt, receipt, moved, verdicts, sent, approved>>

\* Another request commits to the project.  Only PRECOMMIT and COMMIT read the
\* current commit, so it is enough to let it happen in front of them.
OtherCommits ==
    /\ \E s \in {"PRECOMMIT", "COMMIT"} : Running(s)
    /\ ~moved /\ receipt.status # "accepted" /\ faults > 0
    /\ moved' = TRUE /\ faults' = faults - 1
    /\ UNCHANGED <<rq, wf, ckpt, result, receipt, verdicts, sent, approved>>

\* Mutants of Opened: an interrupted attempt is executed again; the usage
\* counters of the checkpoint are not restored.
OpenedResends(d) ==
    [d EXCEPT !.recovered = FALSE,
              !.inflight.st = IF @ = "running" THEN "requested" ELSE @]
OpenedUncharged(d) ==
    [d EXCEPT !.use = NoUse,
              !.recovered = (d.st = "CURATE_ATTEMPT_EXECUTE"
                             /\ d.inflight.st \in {"requested", "running", "uncertain"})]

\* _initialize: recovered_inflight_proposal
Opened(d) ==
    [d EXCEPT !.recovered = (d.st = "CURATE_ATTEMPT_EXECUTE"
                             /\ d.inflight.st \in {"requested", "running", "uncertain"})]

\* execute() with the checkpoint of a resumable result, in the process that
\* made it (its data kept in memory) or in another one.  The settlement
\* adapter never passes a checkpoint.
Resume ==
    /\ rq.caller # "none" /\ result.status \in {"SUSPENDED", "HUMAN_REQUIRED"} /\ ckpt # NoCkpt
    /\ wf' \in {Opened([wf EXCEPT !.st = ckpt.st]), Opened(ckpt)}
    /\ result' = NoResult
    /\ UNCHANGED <<rq, ckpt, receipt, moved, verdicts, sent, approved, faults>>

\* After a kill, a caller that kept the last checkpoint continues from it (the
\* kill-matrix runner; no adapter does).  The maintenance adapter, which only
\* knows recorded results, and the settlement adapter, which knows none, begin
\* again with the same request and idempotency key.
Restart ==
    /\ wf.st = Down
    /\ IF rq.caller = "checkpoint" /\ ckpt # NoCkpt
       THEN wf' = Opened(ckpt) /\ UNCHANGED <<ckpt, verdicts>>
       ELSE /\ wf' = NoData /\ ckpt' = NoCkpt
            /\ verdicts' = [r \in 1..MaxRevisions |-> "none"]
    /\ UNCHANGED <<rq, result, receipt, moved, sent, approved, faults>>

\* prepare_validation_retry: the stopped checkpoint is reopened at VALIDATE.
ReopenValidation ==
    /\ result.reopens /\ ckpt.st = "STOP"
    /\ ckpt.cand # NoCand /\ ckpt.mat # 0 /\ ckpt.val = NoCand
    /\ ckpt' = [ckpt EXCEPT !.st = "VALIDATE"]
    /\ wf' = ckpt' /\ result' = NoResult
    /\ UNCHANGED world

-------------------------------------------------------------------------------
Init ==
    /\ rq \in Requests /\ wf = NoData /\ ckpt = NoCkpt
    /\ result = NoResult /\ receipt = NoReceipt /\ moved = FALSE
    /\ verdicts = [r \in 1..MaxRevisions |-> "none"]
    /\ sent = [a \in 1..MaxAttempts |-> 0]
    /\ approved = {} /\ faults = MaxFaults

Propose == \/ LoadBasis \/ PrepareCandidate \/ CurateAttemptPrepare \/ RecoverInflight
           \/ SendProposal \/ ProposalAnswered \/ ProposalFails \/ ProposalValidate
           \/ ProposalRepairPolicy \/ ProposalRetry \/ ProposalHumanSuspend
           \/ ProposalHumanResume
Repair == \/ Normalize \/ Materialize \/ Validate \/ RepairPolicy \/ RefreshSourceContext
          \/ CuratorRepair \/ RiskClassify \/ Guardian \/ QuarantineCandidate
          \/ BudgetStop \/ BudgetSpent \/ Stop
Publish == \/ HumanSuspend \/ HumanResume \/ PrepareCommit \/ Commit \/ Project
           \/ FreshnessGate \/ Complete
Step == Propose \/ Repair \/ Publish \/ PortRaises
Next == \/ Step \/ HumanDecides \/ Kill \/ OtherCommits \/ Resume \/ Restart
        \/ ReopenValidation

\* The loop runs on while its process lives; the runtime calls execute() again
\* for a suspended or interrupted task.
Spec == Init /\ [][Next]_vars /\ WF_vars(Step) /\ WF_vars(Resume) /\ WF_vars(Restart)

-------------------------------------------------------------------------------
(* Properties *)

Data ==
    [st : States \cup {"none", Down},
     cand : [rev : 0..MaxRevisions, cs : 0..MaxRevisions, c : Content \cup {Nothing}],
     att : 0..MaxAttempts, inflight : [st : STRING, out : Content \cup Rejections \cup {Nothing}],
     recovered : BOOLEAN, rej : Rejections \cup {Nothing},
     lastOut : Nat, lastSig : Nat, sameOut : 0..MaxAttempts, sameSig : 0..MaxAttempts,
     pdir : STRING, mat : 0..MaxRevisions,
     val : [rev : 0..MaxRevisions, cs : 0..MaxRevisions, c : Content \cup {Nothing}],
     risk : 0..MaxRevisions, guard : [cs : 0..MaxRevisions, out : STRING], gate : STRING,
     dir : RepairActions, appr : 0..MaxRevisions, preq : BOOLEAN,
     req : [rev : 0..MaxRevisions, cs : 0..MaxRevisions, c : Content \cup {Nothing}],
     com : {"none", "accepted", "conflicted"},
     use : [attempts : 0..MaxAttempts, rejections : Nat, revisions : 0..MaxRevisions,
            repairs : 0..MaxRepairs, normal : 0..MaxNormal, reviews : 0..MaxReviews,
            refreshes : 0..MaxRefreshes, calls : Nat],
     acts : Seq([action : RepairActions, code : STRING, rev : 0..MaxRevisions]),
     seen : SUBSET Content, noop : BOOLEAN]

\* Type invariant: the saved and the live data stay within the request's
\* budget (attempts, revisions, repairs, normalisations, reviews, refreshes).
TypeOK ==
    /\ rq \in Requests /\ wf \in Data /\ ckpt \in Data
    /\ result.status \in Statuses \cup {"none"}
    /\ receipt.status \in {"none", "accepted", "conflicted"}
    /\ verdicts \in [1..MaxRevisions -> HumanDecisions \cup {"none"}]
    /\ sent \in [1..MaxAttempts -> Nat]
    /\ approved \subseteq Content /\ faults \in 0..MaxFaults

\* What reaches Canon passed validation, and unless its risk is low a Guardian
\* approved that very content; a critical change never reaches Canon.  Stale
\* validation, risk, Guardian and gate data survive repairs and cold starts.
CommittedIsCleared ==
    receipt.status = "accepted" =>
        /\ Finding[receipt.cand.c] = "pass" /\ Risk[receipt.cand.c] # "critical"
        /\ Risk[receipt.cand.c] = "low" \/ receipt.cand.c \in approved

\* A workflow that failed after its commit, whose answer was lost, is started
\* from the STOP checkpoint of that failure: it stops again, with the fatal
\* result of a workflow that never committed, and is not projected.
StoppedAgain == wf.st = "STOP" /\ Accepted(wf)

\* execute() never denies a commit it made, whatever was lost in between, and
\* never claims one it did not make: only an explicitly uncertain result may
\* leave the question open.  The one exception is StoppedAgain.
TruthfulResult ==
    result # NoResult /\ ~result.uncertain /\ rq.caller = "checkpoint" /\ ~StoppedAgain =>
        (result.accepted <=> receipt.status = "accepted")

\* The same proposal request never goes to the provider twice, however often
\* the process dies between the send and the checkpoint of its answer.
SentOnce == rq.caller = "checkpoint" => \A a \in DOMAIN sent : sent[a] <= 1

\* The durable usage never goes down, and a commit recorded in a checkpoint is
\* never forgotten by a later one.
CheckpointsAdvance ==
    [][rq.caller = "checkpoint" =>
         /\ \A f \in DOMAIN NoUse : ckpt'.use[f] >= ckpt.use[f]
         /\ ckpt'.att >= ckpt.att /\ ckpt'.cand.rev >= ckpt.cand.rev
         /\ ckpt.com = "accepted" => ckpt'.com = "accepted"]_vars

\* Every execute() ends by its budgets and policies: the loop's step limit is
\* never what stops it.
Terminates == (result = NoResult /\ wf.st # Down) ~> (result # NoResult \/ wf.st = Down)

\* Once its commit is in Canon, a request whose caller keeps the checkpoint
\* reaches COMMITTED, or a fatal result that admits the commit, and does so
\* again when that answer is lost, unless it is StoppedAgain.
CommittedIsFinished ==
    (receipt.status = "accepted" /\ rq.caller = "checkpoint")
        ~> \/ result.accepted /\ result.status \in {"COMMITTED", "FATAL"}
           \/ StoppedAgain
===============================================================================
