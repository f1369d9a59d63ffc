------------------------- MODULE MemoryWrite_proofs -------------------------
(***************************************************************************)
(* The safety of Stage 2W for any contents, findings, budgets, requests    *)
(* and faults.                                                             *)
(***************************************************************************)
EXTENDS MemoryWrite, TLAPS

-----------------------------------------------------------------------------
(* What reaches Canon was cleared: the inductive invariant                 *)

(* The fields of the data that the invariants below speak of. *)
Keys == {"st", "cand", "val", "guard", "req", "com", "att", "inflight", "recovered",
         "use"}

(* The states in which the validation is that of the current candidate,    *)
(* and those in which there is a candidate.                                *)
Validated == {"REPAIR_POLICY", "REFRESH_SOURCE_CONTEXT", "CURATOR_REPAIR", "RISK_CLASSIFY",
              "GUARDIAN", "QUARANTINE", "HUMAN_SUSPEND", "HUMAN_RESUME", "PRECOMMIT"}
Candidate == Validated \cup {"NORMALIZE", "MATERIALIZE", "VALIDATE"}

Clear(c, A) ==
  Finding[c] = "pass" /\ Risk[c] # "critical" /\ (Risk[c] = "low" \/ c \in A)

(* The Guardian's decision is bound to a change set id, and the child that *)
(* a quarantine leaves keeps the id: an approval covers the content it is  *)
(* read for because an approved candidate with a finding goes no further   *)
(* than PRECOMMIT.                                                         *)
ApprovalHolds(d, s, A) ==
  d.guard.out = "APPROVE" /\ d.guard.cs = d.cand.cs =>
    /\ d.cand.c \in A
    /\ s \notin {"PRECOMMIT", "STOP"} => Finding[d.cand.c] = "pass"

(* An attempt in flight has a state, and an accepted one its candidate. *)
Answered(d) ==
  /\ {"st", "out"} \subseteq DOMAIN d.inflight
  /\ d.inflight.st = "accepted" => d.inflight.out \in Content

(* Data d from which the loop may go on at state s, where A are the        *)
(* contents a Guardian approved.                                           *)
SoundAt(d, s, A) ==
  /\ Keys \subseteq DOMAIN d /\ Answered(d)
  /\ d.cand.rev \in Nat /\ d.cand.cs \in Nat /\ d.guard.cs \in Nat
  /\ d.cand.cs <= d.cand.rev /\ d.guard.cs <= d.cand.rev
  /\ d.cand.rev = 0 => d.cand = NoCand
  /\ d.cand.rev > 0 => d.cand.c \in Content
  /\ s \in Candidate => d.cand.rev > 0
  /\ s \in Validated => d.val = d.cand
  /\ d.guard.out \in {"none"} \cup DOMAIN AfterReview
  /\ d.guard.out # "none" => d.val # NoCand
  /\ ApprovalHolds(d, s, A)
  /\ d.req # NoCand => Clear(d.req.c, A)
  /\ s = "COMMIT" => d.req # NoCand

Resumable(r) == r.status \in {"SUSPENDED", "HUMAN_REQUIRED"}

(* Both the live and the saved data are sound, and so is the mixture of    *)
(* the two that a warm resume makes: live data at the saved state.         *)
ClearInv ==
  /\ CommittedIsCleared
  /\ SoundAt(wf, wf.st, approved) /\ SoundAt(ckpt, ckpt.st, approved)
  /\ wf.st # Down /\ ckpt.st = "COMMIT" => wf.req # NoCand
  /\ Resumable(result) => SoundAt(wf, ckpt.st, approved)

(* e has the candidate of d and what was found about it. *)
Alike(d, e) ==
  /\ Keys \subseteq DOMAIN e /\ Answered(e)
  /\ e.cand = d.cand /\ e.val = d.val /\ e.guard = d.guard /\ e.req = d.req

(* Soundness carries over to data alike, and to more approvals. *)
LEMMA AlikeSound ==
  ASSUME NEW d, NEW e, NEW s, NEW A, NEW B, A \subseteq B, Alike(d, e), SoundAt(d, s, A)
  PROVE  SoundAt(e, s, B)
BY DEF Alike, SoundAt, Clear, ApprovalHolds

(* What a move to another state keeps. *)
LEMMA MoveAlike ==
  ASSUME NEW d, NEW s, Keys \subseteq DOMAIN d, Answered(d)
  PROVE  LET e == [d EXCEPT !.st = s] IN Alike(d, e) /\ e.st = s
BY DEF Alike, Keys, Answered

(* What a checkpoint keeps. *)
LEMMA DurableAlike ==
  ASSUME NEW d, NEW s, Keys \subseteq DOMAIN d, Answered(d)
  PROVE  Alike(d, Durable(d, s)) /\ Durable(d, s).st = s
BY DEF Alike, Keys, Answered, Durable

(* What the start of execute() keeps. *)
LEMMA OpenedAlike ==
  ASSUME NEW d, Keys \subseteq DOMAIN d, Answered(d)
  PROVE  Alike(d, Opened(d)) /\ Opened(d).st = d.st
BY DEF Alike, Keys, Answered, Opened

(* Data without a candidate. *)
LEMMA DeadSound ==
  /\ SoundAt(Dead, Dead.st, approved') /\ Dead.st = Down
  /\ SoundAt(NoData, NoData.st, approved') /\ SoundAt(NoCkpt, NoCkpt.st, approved')
  /\ SoundAt(NoData, NoCkpt.st, approved') /\ NoCkpt.st = "none"
BY DEF SoundAt, Keys, Answered, ApprovalHolds, Dead, NoData, NoCkpt, NoCand, NoAttempt, Down,
       Candidate, Validated, AfterReview

(* A receipt that stays stays cleared. *)
LEMMA StillCleared ==
  ASSUME CommittedIsCleared, approved \subseteq approved', receipt' = receipt
  PROVE  CommittedIsCleared'
BY DEF CommittedIsCleared

(* The loop goes on. *)
LEMMA Proceeds ==
  ASSUME ClearInv, result = NoResult, wf.st # Down, approved \subseteq approved',
         CommittedIsCleared', NEW d, NEW s, SoundAt(d, s, approved'),
         d.req = wf.req \/ d.req # NoCand,
         Continue(d, s) \/ Saved(d, s)
  PROVE  ClearInv'
<1> DEFINE e == [d EXCEPT !.st = s]
<1>1. Keys \subseteq DOMAIN d /\ Answered(d)
  BY DEF SoundAt
<1>2. Alike(d, e) /\ e.st = s
  BY <1>1, MoveAlike
<1>3. wf' = e /\ result' = result
  BY DEF Continue, Saved
<1> HIDE DEF e
<1>4. SoundAt(wf', wf'.st, approved')
  BY <1>2, <1>3, AlikeSound
<1>5. ~Resumable(result')
  BY <1>3 DEF Resumable, NoResult
<1>6. CASE ckpt' = ckpt
  <2>1. SoundAt(ckpt', ckpt'.st, approved')
    <3>1. Alike(ckpt, ckpt)
      BY DEF ClearInv, SoundAt, Alike
    <3>2. QED
      BY <1>6, <3>1, AlikeSound DEF ClearInv
  <2>2. QED
    BY <1>2, <1>3, <1>4, <1>5, <1>6, <2>1 DEF ClearInv, Alike
<1>7. CASE ckpt' = Durable(d, s)
  <2>1. Alike(d, ckpt') /\ ckpt'.st = s
    BY <1>1, <1>7, DurableAlike
  <2>2. SoundAt(ckpt', ckpt'.st, approved')
    BY <2>1, AlikeSound
  <2>3. ckpt'.st = "COMMIT" => wf'.req # NoCand
    BY <1>2, <1>3, <2>1 DEF SoundAt, Alike
  <2>4. QED
    BY <1>4, <1>5, <2>2, <2>3 DEF ClearInv
<1>8. QED
  BY <1>6, <1>7 DEF Continue, Saved

(* execute() returns, with a checkpoint saved on the way out or not. *)
LEMMA Returns ==
  ASSUME ClearInv, wf.st # Down, approved' = approved, CommittedIsCleared',
         NEW d, NEW r, SoundAt(d, d.st, approved), d.req = wf.req,
         \/ Ends(d, r) /\ (Resumable(r) => SoundAt(d, ckpt.st, approved))
         \/ \E s : EndsSaved(d, s, r) /\ SoundAt(d, s, approved)
  PROVE  ClearInv'
<1>1. Keys \subseteq DOMAIN d /\ Answered(d)
  BY DEF SoundAt
<1>2. CASE Ends(d, r) /\ (Resumable(r) => SoundAt(d, ckpt.st, approved))
  BY <1>2 DEF Ends, ClearInv
<1>3. CASE \E s : EndsSaved(d, s, r) /\ SoundAt(d, s, approved)
  <2>1. PICK s : EndsSaved(d, s, r) /\ SoundAt(d, s, approved)
    BY <1>3
  <2>2. wf' = d /\ result' = r /\ ckpt' = Durable(d, s)
    BY <2>1 DEF EndsSaved
  <2>3. Alike(d, ckpt') /\ ckpt'.st = s
    BY <1>1, <2>2, DurableAlike
  <2>4. SoundAt(ckpt', ckpt'.st, approved')
    BY <2>1, <2>3, AlikeSound
  <2>5. SoundAt(wf', wf'.st, approved') /\ SoundAt(wf', ckpt'.st, approved')
    BY <2>1, <2>2, <2>3
  <2>6. ckpt'.st = "COMMIT" => wf'.req # NoCand
    BY <2>1, <2>2, <2>3 DEF SoundAt
  <2>7. QED
    BY <2>4, <2>5, <2>6 DEF ClearInv
<1>4. QED
  BY <1>2, <1>3

(* A step from state s to state t that leaves the candidate as it is. *)
Steps(s, t) ==
  /\ t # "COMMIT"
  /\ t \in Candidate => s \in Candidate
  /\ t \in Validated => s \in Validated
  /\ s \in {"PRECOMMIT", "STOP"} => t \in {"PRECOMMIT", "STOP"}

(* Soundness follows such a step. *)
LEMMA Shift ==
  ASSUME NEW d, NEW s, NEW t, NEW A, SoundAt(d, s, A), Steps(s, t)
  PROVE  SoundAt(d, t, A)
BY DEF SoundAt, Steps, ApprovalHolds

(* The loop goes on with the candidate as it is. *)
LEMMA Onward ==
  ASSUME ClearInv, result = NoResult, wf.st # Down, UNCHANGED <<receipt, approved>>,
         NEW d, NEW s, Alike(wf, d), Steps(wf.st, s), Continue(d, s) \/ Saved(d, s)
  PROVE  ClearInv'
<1>1. SoundAt(wf, s, approved)
  BY Shift DEF ClearInv
<1>2. SoundAt(d, s, approved')
  BY <1>1, AlikeSound
<1>3. CommittedIsCleared' /\ approved \subseteq approved' /\ d.req = wf.req
  BY StillCleared DEF ClearInv, Alike
<1>4. QED
  BY <1>2, <1>3, Proceeds

(* execute() returns with the candidate as it is, ... *)
LEMMA Out ==
  ASSUME ClearInv, wf.st # Down, UNCHANGED <<receipt, approved>>,
         NEW d, NEW r, Alike(wf, d), d.st = wf.st, ~Resumable(r), Ends(d, r)
  PROVE  ClearInv'
<1>1. SoundAt(d, d.st, approved)
  BY AlikeSound DEF ClearInv
<1>2. CommittedIsCleared' /\ d.req = wf.req
  BY StillCleared DEF ClearInv, Alike
<1>3. QED
  BY <1>1, <1>2, Returns

(* ... and a checkpoint. *)
LEMMA OutSaved ==
  ASSUME ClearInv, wf.st # Down, UNCHANGED <<receipt, approved>>,
         NEW d, NEW s, NEW r, Alike(wf, d), Steps(wf.st, s),
         d.st = wf.st \/ Steps(wf.st, d.st), EndsSaved(d, s, r)
  PROVE  ClearInv'
<1>1. SoundAt(wf, s, approved) /\ SoundAt(wf, d.st, approved)
  BY Shift DEF ClearInv
<1>2. SoundAt(d, s, approved) /\ SoundAt(d, d.st, approved)
  BY <1>1, AlikeSound
<1>3. CommittedIsCleared' /\ d.req = wf.req
  BY StillCleared DEF ClearInv, Alike
<1>4. QED
  BY <1>2, <1>3, Returns

(* A new revision is not validated, and no approval is about it. *)
LEMMA NewSound ==
  ASSUME NEW d, NEW s, NEW t, NEW A, SoundAt(d, s, A), NEW c \in Content, NEW cs \in Nat,
         cs <= d.cand.rev + 1, t \in {"NORMALIZE", "MATERIALIZE"},
         d.guard.out = "APPROVE" => d.guard.cs # cs
  PROVE  SoundAt(NewCandidate(d, c, cs), t, A) /\ NewCandidate(d, c, cs).req = d.req
<1> DEFINE e == NewCandidate(d, c, cs)
<1>1. /\ Keys \subseteq DOMAIN e /\ e.inflight = d.inflight
      /\ e.cand = [rev |-> d.cand.rev + 1, cs |-> cs, c |-> c]
      /\ e.val = d.val /\ e.guard = d.guard /\ e.req = d.req
  BY DEF NewCandidate, SoundAt, Keys
<1> HIDE DEF e
<1>2. /\ e.cand.rev = d.cand.rev + 1 /\ e.cand.cs = cs /\ e.cand.c = c
      /\ d.cand.rev \in Nat /\ d.guard.cs \in Nat /\ d.guard.cs <= d.cand.rev
  BY <1>1 DEF SoundAt
<1>3. /\ e.cand.rev \in Nat /\ e.cand.rev > 0
      /\ e.cand.cs <= e.cand.rev /\ e.guard.cs <= e.cand.rev
  BY <1>1, <1>2
<1>4. t \notin Validated /\ t # "COMMIT"
  BY DEF Validated
<1>5. SoundAt(e, t, A)
  BY <1>1, <1>2, <1>3, <1>4 DEF SoundAt, ApprovalHolds, Answered
<1>6. QED
  BY <1>1, <1>5 DEF e

(* The loop goes on with a new candidate. *)
LEMMA Anew ==
  ASSUME ClearInv, result = NoResult, wf.st # Down, UNCHANGED <<receipt, approved>>,
         NEW d, NEW c \in Content, NEW s \in {"NORMALIZE", "MATERIALIZE"}, Alike(wf, d),
         Continue(Fresh(d, c), s) \/ Saved(Fresh(d, c), s)
  PROVE  ClearInv'
<1>1. SoundAt(d, wf.st, approved) /\ d.req = wf.req
  BY AlikeSound DEF ClearInv, Alike
<1> DEFINE k == d.cand.rev + 1
<1>2. k \in Nat /\ d.guard.cs # k /\ k <= d.cand.rev + 1
  BY <1>1 DEF SoundAt
<1>3. Fresh(d, c) = NewCandidate(d, c, k)
  BY DEF Fresh
<1> HIDE DEF k
<1>4. SoundAt(Fresh(d, c), s, approved) /\ Fresh(d, c).req = wf.req
  BY <1>1, <1>2, <1>3, NewSound
<1>5. CommittedIsCleared' /\ approved \subseteq approved'
  BY StillCleared DEF ClearInv
<1>6. QED
  BY <1>4, <1>5, Proceeds

(* Before there is a candidate. *)
LEMMA ClearPropose == ClearInv /\ Propose => ClearInv'
<1> SUFFICES ASSUME ClearInv, Propose PROVE ClearInv'
  OBVIOUS
<1>0. Keys \subseteq DOMAIN wf /\ Answered(wf)
  BY DEF ClearInv, SoundAt
<1>1. CASE LoadBasis
  <2>1. Steps(wf.st, "PREPARE_CANDIDATE") /\ Alike(wf, wf) /\ wf.st # Down
    BY <1>0, <1>1 DEF LoadBasis, Running, Steps, Candidate, Validated, Alike, Down
  <2>2. QED
    BY <1>1, <2>1, Onward DEF LoadBasis, Running, world
<1>2. CASE PrepareCandidate
  <2>1. Steps(wf.st, "CURATE_ATTEMPT_PREPARE") /\ Alike(wf, wf) /\ wf.st # Down
    BY <1>0, <1>2 DEF PrepareCandidate, Running, Steps, Candidate, Validated, Alike, Down
  <2>2. CASE Continue(wf, "CURATE_ATTEMPT_PREPARE")
    BY <1>2, <2>1, <2>2, Onward DEF PrepareCandidate, Running, world
  <2>3. CASE \E c \in Content : Saved(Fresh(wf, c), "NORMALIZE")
    BY <1>2, <2>1, <2>3, Anew DEF PrepareCandidate, Running, world
  <2>4. CASE Saved(Fresh(wf, Empty), "MATERIALIZE")
    BY <1>2, <2>1, <2>4, Anew, ContentAssumption DEF PrepareCandidate, Running, world
  <2>5. QED
    BY <1>2, <2>2, <2>3, <2>4 DEF PrepareCandidate
<1>3. CASE CurateAttemptPrepare
  <2> DEFINE d == [wf EXCEPT !.att = @ + 1, !.use.attempts = @ + 1,
                             !.inflight = [st |-> "requested", out |-> Nothing]]
  <2>1. Steps(wf.st, "CURATE_ATTEMPT_EXECUTE") /\ Alike(wf, wf) /\ wf.st # Down
    BY <1>0, <1>3 DEF CurateAttemptPrepare, Running, Steps, Candidate, Validated, Alike, Down
  <2>2. Alike(wf, d)
    BY <1>0 DEF Alike, Keys, Answered
  <2>3. CASE Saved(d, "CURATE_ATTEMPT_EXECUTE")
    <3> HIDE DEF d
    <3> QED
      BY <1>3, <2>1, <2>2, <2>3, Onward DEF CurateAttemptPrepare, Running, world
  <2>4. CASE BudgetExhausted(wf)
    BY <1>3, <2>1, <2>4, Out DEF CurateAttemptPrepare, world, BudgetExhausted, Res, Resumable
  <2>5. QED
    BY <1>3, <2>3, <2>4 DEF CurateAttemptPrepare
<1>4. ASSUME SuspendUncertain, Running("CURATE_ATTEMPT_EXECUTE"),
             UNCHANGED <<receipt, approved>>
      PROVE  ClearInv'
  <2> DEFINE d == [HoldUncertain(wf) EXCEPT !.st = "CURATE_ATTEMPT_PREPARE"]
  <2>1. Steps(wf.st, "CURATE_ATTEMPT_PREPARE") /\ wf.st # Down
    BY <1>4 DEF Running, Steps, Candidate, Validated, Down
  <2>2. Alike(wf, d) /\ d.st = "CURATE_ATTEMPT_PREPARE"
    BY <1>0 DEF Alike, Keys, Answered, HoldUncertain
  <2>3. EndsSaved(d, "CURATE_ATTEMPT_PREPARE", Uncertain(wf))
    BY <1>4 DEF SuspendUncertain
  <2> HIDE DEF d
  <2>4. QED
    BY <1>4, <2>1, <2>2, <2>3, OutSaved
<1>5. CASE RecoverInflight
  BY <1>4, <1>5 DEF RecoverInflight, world
<1>6. CASE SendProposal
  <2> DEFINE d == [wf EXCEPT !.inflight.st = "running"]
  <2>1. Steps(wf.st, "CURATE_ATTEMPT_EXECUTE") /\ wf.st # Down
    BY <1>6 DEF SendProposal, Running, Steps, Candidate, Validated, Down
  <2>2. Alike(wf, d)
    BY <1>0 DEF Alike, Keys, Answered
  <2>3. Saved(d, "CURATE_ATTEMPT_EXECUTE")
    BY <1>6 DEF SendProposal
  <2> HIDE DEF d
  <2>4. QED
    BY <1>6, <2>1, <2>2, <2>3, Onward DEF SendProposal, Running
<1>7. CASE ProposalAnswered
  <2>1. PICK st, out : Settle(st, out) /\ (st = "accepted" => out \in Content)
    BY <1>7 DEF ProposalAnswered
  <2> DEFINE d == [wf EXCEPT !.inflight = [st |-> st, out |-> out], !.use.calls = @ + 1]
  <2>2. Steps(wf.st, "PROPOSAL_VALIDATE") /\ wf.st # Down
    BY <1>7 DEF ProposalAnswered, InFlight, Running, Steps, Candidate, Validated, Down
  <2>3. Alike(wf, d)
    BY <1>0, <2>1 DEF Alike, Keys, Answered
  <2>4. Saved(d, "PROPOSAL_VALIDATE")
    BY <2>1 DEF Settle
  <2> HIDE DEF d
  <2>5. QED
    BY <1>7, <2>2, <2>3, <2>4, Onward DEF ProposalAnswered, InFlight, Running, world
<1>8. CASE ProposalFails
  <2>1. CASE SuspendUncertain
    BY <1>4, <1>8, <2>1 DEF ProposalFails, InFlight
  <2>2. CASE \E s \in {"FATAL", "BUDGET_EXHAUSTED"} :
               EndsSaved([wf EXCEPT !.inflight.st = "abandoned"], "STOP", Res(wf, s))
    <3> DEFINE d == [wf EXCEPT !.inflight.st = "abandoned"]
    <3>1. Steps(wf.st, "STOP") /\ wf.st # Down
      BY <1>8 DEF ProposalFails, InFlight, Running, Steps, Candidate, Validated, Down
    <3>2. Alike(wf, d) /\ d.st = wf.st
      BY <1>0 DEF Alike, Keys, Answered
    <3>3. PICK s : EndsSaved(d, "STOP", Res(wf, s))
      BY <2>2
    <3> HIDE DEF d
    <3>4. QED
      BY <1>8, <3>1, <3>2, <3>3, OutSaved DEF ProposalFails
  <2>3. QED
    BY <1>8, <2>1, <2>2 DEF ProposalFails
<1>9. CASE ProposalValidate
  <2>1. Steps(wf.st, "PROPOSAL_REPAIR_POLICY") /\ Alike(wf, wf) /\ wf.st # Down
    BY <1>0, <1>9 DEF ProposalValidate, Running, Steps, Candidate, Validated, Alike, Down
  <2>2. CASE wf.inflight.st = "accepted" /\ Saved(Fresh(wf, wf.inflight.out), "NORMALIZE")
    BY <1>0, <1>9, <2>1, <2>2, Anew DEF ProposalValidate, Running, world, Answered
  <2>3. CASE Saved(Repeated(wf, wf.inflight.out), "PROPOSAL_REPAIR_POLICY")
    <3>1. Alike(wf, Repeated(wf, wf.inflight.out))
      BY <1>0 DEF Alike, Keys, Answered, Repeated
    <3>2. QED
      BY <1>9, <2>1, <2>3, <3>1, Onward DEF ProposalValidate, Running, world
  <2>4. QED
    BY <1>9, <2>2, <2>3 DEF ProposalValidate
<1>10. ASSUME NEW d, Alike(wf, d), d.st = wf.st, QuarantineProposal(d),
              wf.st \in {"PROPOSAL_REPAIR_POLICY", "PROPOSAL_HUMAN_RESUME"},
              result = NoResult, UNCHANGED <<receipt, approved>>
       PROVE  ClearInv'
  <2>1. Steps(wf.st, "PROPOSAL_REPAIR_POLICY") /\ wf.st # Down
    BY <1>10 DEF Steps, Candidate, Validated, Down
  <2>2. CASE Saved(Fresh(d, Empty), "MATERIALIZE")
    BY <1>10, <2>1, <2>2, Anew, ContentAssumption
  <2>3. CASE EndsSaved(d, "PROPOSAL_REPAIR_POLICY", Res(d, "QUARANTINED"))
    BY <1>10, <2>1, <2>3, OutSaved
  <2>4. QED
    BY <1>10, <2>2, <2>3 DEF QuarantineProposal
<1>11. CASE ProposalRepairPolicy
  <2> DEFINE a == ProposalPolicy(wf)
             d == [wf EXCEPT !.pdir = a]
  <2>1. /\ Steps(wf.st, "PROPOSAL_RETRY") /\ Steps(wf.st, "PROPOSAL_HUMAN_SUSPEND")
        /\ Steps(wf.st, "PROPOSAL_REPAIR_POLICY") /\ Alike(wf, wf) /\ wf.st # Down
        /\ wf.st = "PROPOSAL_REPAIR_POLICY" /\ result = NoResult
        /\ UNCHANGED <<receipt, approved>>
    BY <1>0, <1>11
       DEF ProposalRepairPolicy, Running, Steps, Candidate, Validated, Alike, Down, world
  <2>2. Alike(wf, d) /\ d.st = wf.st
    BY <1>0 DEF Alike, Keys, Answered
  <2>3. \/ Ends(wf, Res(wf, "FATAL")) \/ Continue(d, "PROPOSAL_RETRY")
        \/ Continue(d, "PROPOSAL_HUMAN_SUSPEND") \/ QuarantineProposal(d)
        \/ EndsSaved(d, "PROPOSAL_REPAIR_POLICY", Res(d, "BUDGET_EXHAUSTED"))
        \/ Ends(d, Res(d, "FATAL"))
    BY <1>11, Zenon DEF ProposalRepairPolicy, ProposalPolicy
  <2> HIDE DEF d
  <2>4. ~Resumable(Res(wf, "FATAL")) /\ ~Resumable(Res(d, "FATAL"))
    BY DEF Res, Resumable
  <2>5. QED
    BY <1>10, <2>1, <2>2, <2>3, <2>4, Out, Onward, OutSaved
<1>12. CASE ProposalRetry
  <2>1. Steps(wf.st, "CURATE_ATTEMPT_PREPARE") /\ Alike(wf, wf) /\ wf.st # Down
    BY <1>0, <1>12 DEF ProposalRetry, Running, Steps, Candidate, Validated, Alike, Down
  <2>2. QED
    BY <1>12, <2>1, Onward DEF ProposalRetry, Running, world
<1>13. ASSUME ProposalHumanRequired, UNCHANGED <<receipt, approved>>,
              wf.st \in {"PROPOSAL_HUMAN_SUSPEND", "PROPOSAL_HUMAN_RESUME"}
       PROVE  ClearInv'
  <2> DEFINE d == [wf EXCEPT !.preq = TRUE]
  <2>1. Steps(wf.st, "PROPOSAL_HUMAN_RESUME") /\ wf.st # Down
    BY <1>13 DEF Steps, Candidate, Validated, Down
  <2>2. Alike(wf, d) /\ d.st = wf.st
    BY <1>0 DEF Alike, Keys, Answered
  <2>3. EndsSaved(d, "PROPOSAL_HUMAN_RESUME", Res(wf, "HUMAN_REQUIRED"))
    BY <1>13 DEF ProposalHumanRequired
  <2> HIDE DEF d
  <2>4. QED
    BY <1>13, <2>1, <2>2, <2>3, OutSaved
<1>14. CASE ProposalHumanSuspend
  <2>1. Alike(wf, wf) /\ wf.st # Down /\ ~Resumable(Res(wf, "FATAL"))
    BY <1>0, <1>14 DEF ProposalHumanSuspend, Running, Alike, Down, Res, Resumable
  <2>2. QED
    BY <1>13, <1>14, <2>1, Out DEF ProposalHumanSuspend, Running, world
<1>15. CASE ProposalHumanResume
  <2>1. Steps(wf.st, "PROPOSAL_RETRY") /\ Alike(wf, wf) /\ wf.st # Down
    BY <1>0, <1>15 DEF ProposalHumanResume, Running, Steps, Candidate, Validated, Alike, Down
  <2>2. QED
    BY <1>10, <1>13, <1>15, <2>1, Onward DEF ProposalHumanResume, Running, world
<1>16. QED
  BY <1>1, <1>2, <1>3, <1>5, <1>6, <1>7, <1>8, <1>9, <1>11, <1>12, <1>14, <1>15 DEF Propose

(* What the repair policy may decide. *)
LEMMA PolicyActs ==
  ASSUME ClearInv, wf.st = "REPAIR_POLICY"
  PROVE  Decide(wf).action \in RepairActions \ {"none", "REPLAN"}
<1>1. /\ CuratorOrBudget(wf.use) \in {"CURATOR_REPAIR", "STOP_BUDGET_EXHAUSTED"}
      /\ GuardianOrBudget(wf.use) \in {"GUARDIAN_REVIEW", "STOP_BUDGET_EXHAUSTED"}
  BY DEF CuratorOrBudget, GuardianOrBudget
<1>2. Finding[wf.val.c] \in FindingClass
  BY ContentAssumption DEF ClearInv, SoundAt, Candidate, Validated
<1>3. Finding[wf.val.c] # "pass" =>
        ForFinding(wf, Finding[wf.val.c]) \in RepairActions \ {"none", "REPLAN"}
  BY <1>1, <1>2 DEF ForFinding, FindingClass, RepairActions
<1>4. QED
  BY <1>1, <1>3 DEF Decide, RepairActions

(* The repair loop of a candidate. *)
LEMMA ClearRepair == ClearInv /\ Repair => ClearInv'
<1> SUFFICES ASSUME ClearInv, Repair PROVE ClearInv'
  OBVIOUS
<1>0. Keys \subseteq DOMAIN wf /\ Answered(wf) /\ Alike(wf, wf)
  BY DEF ClearInv, SoundAt, Alike
<1>1. ASSUME NEW d, Alike(wf, d), d.st = wf.st, wf.st # Down, BudgetExhausted(d),
             UNCHANGED <<receipt, approved>>
      PROVE  ClearInv'
  BY <1>1, Out DEF BudgetExhausted, Res, Resumable
<1>2. CASE Normalize
  <2> DEFINE d == [wf EXCEPT !.use.normal = @ + 1]
             e == [d EXCEPT !.dir = "none"]
  <2>1. /\ wf.st = "NORMALIZE" /\ result = NoResult /\ wf.st # Down
        /\ Steps(wf.st, "MATERIALIZE") /\ UNCHANGED <<receipt, approved>>
    BY <1>2 DEF Normalize, Running, Steps, Candidate, Validated, Down, world
  <2>2. Alike(wf, d) /\ d.st = wf.st /\ Alike(wf, e)
    BY <1>0 DEF Alike, Keys, Answered
  <2>3. \/ BudgetExhausted(wf) \/ BudgetExhausted(d) \/ Saved(e, "MATERIALIZE")
        \/ \E c \in Normal[wf.cand.c] : Saved(Fresh(e, c), "MATERIALIZE")
    BY <1>2 DEF Normalize
  <2>4. Normal[wf.cand.c] \subseteq Content
    BY <2>1, ContentAssumption DEF ClearInv, SoundAt, Candidate
  <2> HIDE DEF d, e
  <2>5. QED
    BY <1>0, <1>1, <2>1, <2>2, <2>3, <2>4, Onward, Anew
<1>3. CASE Materialize
  <2> DEFINE d == [wf EXCEPT !.mat = wf.cand.rev, !.noop = (wf.cand.c = Empty)]
  <2>1. /\ wf.st = "MATERIALIZE" /\ result = NoResult /\ wf.st # Down
        /\ Steps(wf.st, "VALIDATE") /\ UNCHANGED <<receipt, approved>>
    BY <1>3 DEF Materialize, Running, Steps, Candidate, Validated, Down, world
  <2>2. Alike(wf, d)
    BY <1>0 DEF Alike, Keys, Answered
  <2>3. Continue(d, "VALIDATE") \/ Ends(wf, Res(wf, "FATAL"))
    BY <1>3 DEF Materialize
  <2> HIDE DEF d
  <2>4. ~Resumable(Res(wf, "FATAL"))
    BY DEF Res, Resumable
  <2>5. QED
    BY <1>0, <2>1, <2>2, <2>3, <2>4, Onward, Out
<1>4. CASE Validate
  <2> DEFINE d == [wf EXCEPT !.val = wf.cand]
  <2>1. wf.st = "VALIDATE" /\ result = NoResult /\ wf.st # Down /\ UNCHANGED <<receipt, approved>>
    BY <1>4 DEF Validate, Running, Down, world
  <2>2. /\ Keys \subseteq DOMAIN d /\ d.cand = wf.cand /\ d.val = wf.cand
        /\ d.inflight = wf.inflight /\ d.guard = wf.guard /\ d.req = wf.req
    BY <1>0 DEF Keys
  <2>3. PICK s \in {"RISK_CLASSIFY", "REPAIR_POLICY"} : Saved(d, s)
    BY <1>4 DEF Validate
  <2> HIDE DEF d
  <2>4. wf.cand.rev > 0
    BY <2>1 DEF ClearInv, SoundAt, Candidate
  <2>5. wf.cand # NoCand
    BY <2>4 DEF NoCand
  <2>6. SoundAt(d, s, approved)
    BY <2>1, <2>2, <2>3, <2>4, <2>5 DEF ClearInv, SoundAt, ApprovalHolds, Answered
  <2>7. CommittedIsCleared'
    BY <2>1, StillCleared DEF ClearInv
  <2>8. QED
    BY <2>1, <2>2, <2>3, <2>6, <2>7, Proceeds
<1>5. CASE RepairPolicy
  <2> DEFINE r == Decide(wf)
             d == [wf EXCEPT !.dir = r.action,
                             !.acts = Append(@, [action |-> r.action, code |-> r.code,
                                                 rev |-> wf.cand.rev])]
  <2>1. wf.st = "REPAIR_POLICY" /\ result = NoResult /\ wf.st # Down /\ UNCHANGED <<receipt, approved>>
    BY <1>5 DEF RepairPolicy, Running, Down, world
  <2>2. Alike(wf, d)
    BY <1>0 DEF Alike, Keys, Answered
  <2>3. Continue(d, After[r.action])
    BY <1>5 DEF RepairPolicy
  <2>4. r.action \in RepairActions \ {"none", "REPLAN"}
    BY <2>1, PolicyActs
  <2>5. Steps(wf.st, After[r.action])
    BY <2>1, <2>4 DEF Steps, After, RepairActions, Candidate, Validated
  <2> HIDE DEF d, r
  <2>6. QED
    BY <2>1, <2>2, <2>3, <2>5, Onward
<1>6. CASE RefreshSourceContext
  <2> DEFINE d == [wf EXCEPT !.use.refreshes = @ + 1, !.dir = "none"]
  <2>1. /\ wf.st = "REFRESH_SOURCE_CONTEXT" /\ result = NoResult /\ wf.st # Down
        /\ Steps(wf.st, "REPAIR_POLICY") /\ UNCHANGED <<receipt, approved>>
    BY <1>6 DEF RefreshSourceContext, Running, Steps, Candidate, Validated, Down, world
  <2>2. Alike(wf, d)
    BY <1>0 DEF Alike, Keys, Answered
  <2>3. BudgetExhausted(wf) \/ Continue(d, "REPAIR_POLICY")
    BY <1>6 DEF RefreshSourceContext
  <2> HIDE DEF d
  <2>4. QED
    BY <1>0, <1>1, <2>1, <2>2, <2>3, Onward
<1>7. CASE CuratorRepair
  <2> DEFINE d == [wf EXCEPT !.use.repairs = @ + 1, !.dir = "none"]
             e == [d EXCEPT !.use.calls = @ + 1]
  <2>1. /\ wf.st = "CURATOR_REPAIR" /\ result = NoResult /\ wf.st # Down
        /\ Steps(wf.st, "REPAIR_POLICY") /\ UNCHANGED <<receipt, approved>>
    BY <1>7 DEF CuratorRepair, Running, Steps, Candidate, Validated, Down, world
  <2>2. Alike(wf, d) /\ d.st = wf.st /\ Alike(wf, e)
    BY <1>0 DEF Alike, Keys, Answered
  <2>3. \/ BudgetExhausted(wf) \/ Ends(d, Res(d, "FATAL")) \/ Saved(d, "REPAIR_POLICY")
        \/ \E c \in Patches : Saved(Fresh(e, c), "NORMALIZE")
    BY <1>7 DEF CuratorRepair
  <2> HIDE DEF d, e
  <2>4. ~Resumable(Res(d, "FATAL"))
    BY DEF Res, Resumable
  <2>5. QED
    BY <1>0, <1>1, <2>1, <2>2, <2>3, <2>4, Onward, Anew, Out, ContentAssumption
<1>8. CASE RiskClassify
  <2> DEFINE d == [wf EXCEPT !.risk = wf.cand.rev]
  <2>1. /\ wf.st = "RISK_CLASSIFY" /\ result = NoResult /\ wf.st # Down
        /\ Steps(wf.st, "PRECOMMIT") /\ Steps(wf.st, "GUARDIAN")
        /\ UNCHANGED <<receipt, approved>>
    BY <1>8 DEF RiskClassify, Running, Steps, Candidate, Validated, Down, world
  <2>2. Alike(wf, d)
    BY <1>0 DEF Alike, Keys, Answered
  <2>3. Continue(d, "PRECOMMIT") \/ Continue(d, "GUARDIAN")
    BY <1>8 DEF RiskClassify
  <2> HIDE DEF d
  <2>4. QED
    BY <2>1, <2>2, <2>3, Onward
<1>9. CASE Guardian
  <2>1. wf.st = "GUARDIAN" /\ result = NoResult /\ wf.st # Down /\ receipt' = receipt
    BY <1>9 DEF Guardian, Running, Down
  <2>2. CASE UNCHANGED approved /\ (Ends(wf, Res(wf, "FATAL")) \/ BudgetExhausted(wf))
    <3>1. ~Resumable(Res(wf, "FATAL"))
      BY DEF Res, Resumable
    <3>2. QED
      BY <1>0, <1>1, <2>1, <2>2, <3>1, Out
  <2>3. ASSUME NEW out \in DOMAIN AfterReview,
               Saved([wf EXCEPT !.use.reviews = @ + 1, !.use.calls = @ + 1,
                                !.guard = [cs |-> wf.cand.cs, out |-> out]],
                     AfterReview[out]),
               approved' = IF out = "APPROVE" THEN approved \cup {wf.cand.c} ELSE approved
        PROVE  ClearInv'
    <3> DEFINE d == [wf EXCEPT !.use.reviews = @ + 1, !.use.calls = @ + 1,
                               !.guard = [cs |-> wf.cand.cs, out |-> out]]
               s == AfterReview[out]
    <3>1. /\ Keys \subseteq DOMAIN d /\ d.cand = wf.cand /\ d.val = wf.val
          /\ d.inflight = wf.inflight /\ d.guard = [cs |-> wf.cand.cs, out |-> out] /\ d.req = wf.req
      BY <1>0 DEF Keys
    <3>2. d.guard.cs = wf.cand.cs /\ d.guard.out = out
      BY <3>1
    <3>3. s \in Validated /\ (out = "APPROVE" => s = "PRECOMMIT") /\ s # "COMMIT" /\ out # "none"
      BY <2>3 DEF AfterReview, Validated
    <3>4. Saved(d, s)
      BY <2>3
    <3> HIDE DEF d, s
    <3>5. wf.cand.rev > 0 /\ wf.val = wf.cand
      BY <2>1 DEF ClearInv, SoundAt, Candidate, Validated
    <3>6. wf.val # NoCand
      BY <3>5 DEF NoCand
    <3>7. approved \subseteq approved' /\ (out = "APPROVE" => wf.cand.c \in approved')
      BY <2>3
    <3>8. SoundAt(d, s, approved')
      BY <2>3, <3>1, <3>2, <3>3, <3>5, <3>6, <3>7 DEF ClearInv, SoundAt, ApprovalHolds, Clear, Answered
    <3>9. CommittedIsCleared'
      BY <2>1, <3>7, StillCleared DEF ClearInv
    <3>10. QED
      BY <2>1, <3>1, <3>4, <3>7, <3>8, <3>9, Proceeds
  <2>4. QED
    BY <1>9, <2>2, <2>3 DEF Guardian
<1>10. CASE QuarantineCandidate
  <2>1. wf.st = "QUARANTINE" /\ result = NoResult /\ wf.st # Down /\ UNCHANGED <<receipt, approved>>
    BY <1>10 DEF QuarantineCandidate, Running, Down, world
  <2>2. CASE Ends(wf, Res(wf, "QUARANTINED"))
    <3>1. ~Resumable(Res(wf, "QUARANTINED"))
      BY DEF Res, Resumable
    <3>2. QED
      BY <1>0, <2>1, <2>2, <3>1, Out
  <2>3. ASSUME Finding[wf.val.c] # "pass", Rest[wf.cand.c] # Nothing,
               Continue(NewCandidate([wf EXCEPT !.dir = "none"],
                                     Rest[wf.cand.c], wf.cand.cs), "NORMALIZE")
        PROVE  ClearInv'
    <3> DEFINE d == [wf EXCEPT !.dir = "none"]
               e == NewCandidate(d, Rest[wf.cand.c], wf.cand.cs)
    <3>1. Alike(wf, d)
      BY <1>0 DEF Alike, Keys, Answered
    <3>2. Continue(e, "NORMALIZE")
      BY <2>3
    <3> HIDE DEF d
    <3>3. SoundAt(d, wf.st, approved) /\ d.cand = wf.cand /\ d.guard = wf.guard /\ d.req = wf.req
      BY <3>1, AlikeSound DEF ClearInv, Alike
    <3>4. wf.cand.cs \in Nat /\ wf.cand.cs <= d.cand.rev + 1
      BY <3>3 DEF SoundAt
    <3>5. d.guard.out = "APPROVE" => d.guard.cs # wf.cand.cs
      BY <2>1, <2>3, <3>3 DEF ClearInv, SoundAt, ApprovalHolds, Validated
    <3>6. Rest[wf.cand.c] \in Content
      BY <2>1, <2>3, ContentAssumption DEF ClearInv, SoundAt, Candidate, Validated
    <3>7. SoundAt(e, "NORMALIZE", approved) /\ e.req = d.req
      BY <3>3, <3>4, <3>5, <3>6, NewSound
    <3> HIDE DEF e
    <3>8. CommittedIsCleared' /\ approved \subseteq approved'
      BY <2>1, StillCleared DEF ClearInv
    <3>9. QED
      BY <2>1, <3>2, <3>3, <3>7, <3>8, Proceeds
  <2>4. QED
    BY <1>10, <2>2, <2>3 DEF QuarantineCandidate
<1>11. CASE BudgetStop \/ BudgetSpent
  BY <1>0, <1>1, <1>11 DEF BudgetStop, BudgetSpent, Running, Down, world
<1>12. CASE Stop
  <2>1. wf.st = "STOP" /\ wf.st # Down /\ UNCHANGED <<receipt, approved>> /\ Steps(wf.st, "STOP")
    BY <1>12 DEF Stop, Running, Down, world, Steps, Candidate, Validated
  <2>2. ~Resumable(Res(wf, "FATAL"))
    BY DEF Res, Resumable
  <2>3. QED
    BY <1>0, <1>12, <2>1, <2>2, Out, OutSaved DEF Stop
<1>13. QED
  BY <1>2, <1>3, <1>4, <1>5, <1>6, <1>7, <1>8, <1>9, <1>10, <1>11, <1>12 DEF Repair

(* Human approval, the write gate and the commit. *)
LEMMA ClearPublish == ClearInv /\ (Publish \/ PortRaises) => ClearInv'
<1> SUFFICES ASSUME ClearInv, Publish \/ PortRaises PROVE ClearInv'
  OBVIOUS
<1>0. /\ Keys \subseteq DOMAIN wf /\ Answered(wf) /\ Alike(wf, wf)
      /\ ~Resumable(Res(wf, "FATAL")) /\ ~Resumable(Res(wf, "NOOP"))
  BY DEF ClearInv, SoundAt, Alike, Res, Resumable
<1>1. ASSUME HumanRequired(wf), wf.st \in {"HUMAN_SUSPEND", "HUMAN_RESUME"},
             UNCHANGED <<receipt, approved>>
      PROVE  ClearInv'
  <2>1. Steps(wf.st, "HUMAN_RESUME") /\ wf.st # Down
    BY <1>1 DEF Steps, Candidate, Validated, Down
  <2>2. CASE EndsSaved(wf, "HUMAN_RESUME", Res(wf, "HUMAN_REQUIRED"))
    BY <1>0, <1>1, <2>1, <2>2, OutSaved
  <2>3. CASE Ends(wf, Res(wf, "HUMAN_REQUIRED"))
    <3>1. SoundAt(wf, ckpt.st, approved)
      BY <1>1, <2>1 DEF ClearInv, SoundAt, ApprovalHolds, Candidate, Validated
    <3>2. SoundAt(wf, wf.st, approved) /\ CommittedIsCleared'
      BY <1>1, StillCleared DEF ClearInv
    <3>3. QED
      BY <1>1, <2>1, <2>3, <3>1, <3>2, Returns
  <2>4. QED
    BY <1>1, <2>2, <2>3 DEF HumanRequired
<1>2. ASSUME SuspendForHuman(wf), wf.st \in {"HUMAN_SUSPEND", "HUMAN_RESUME"},
             UNCHANGED <<receipt, approved>>
      PROVE  ClearInv'
  <2> DEFINE e == [wf EXCEPT !.appr = IF @ = 0 THEN wf.cand.rev ELSE @]
  <2>1. Steps(wf.st, "HUMAN_RESUME") /\ wf.st # Down
    BY <1>2 DEF Steps, Candidate, Validated, Down
  <2>2. Alike(wf, e) /\ e.st = wf.st
    BY <1>0 DEF Alike, Keys, Answered
  <2>3. EndsSaved(e, "HUMAN_RESUME", Res(e, "HUMAN_REQUIRED"))
    BY <1>2 DEF SuspendForHuman
  <2> HIDE DEF e
  <2>4. QED
    BY <1>2, <2>1, <2>2, <2>3, OutSaved
<1>3. ASSUME NEW s, EndsSaved(wf, "STOP", s), wf.st # Down, UNCHANGED <<receipt, approved>>
      PROVE  ClearInv'
  <2>1. Steps(wf.st, "STOP")
    BY DEF Steps, Candidate, Validated
  <2>2. QED
    BY <1>0, <1>3, <2>1, OutSaved
<1>4. CASE HumanSuspend
  BY <1>1, <1>2, <1>4 DEF HumanSuspend, Running, world
<1>5. CASE HumanResume
  <2>1. /\ wf.st = "HUMAN_RESUME" /\ wf.st # Down /\ result = NoResult
        /\ UNCHANGED <<receipt, approved>>
        /\ Steps(wf.st, "PRECOMMIT") /\ Steps(wf.st, "CURATOR_REPAIR")
        /\ Steps(wf.st, "QUARANTINE")
    BY <1>5 DEF HumanResume, Running, Down, world, Steps, Candidate, Validated
  <2> DEFINE d == [wf EXCEPT !.dir = "CURATOR_REPAIR"]
  <2>2. Alike(wf, d)
    BY <1>0 DEF Alike, Keys, Answered
  <2>3. \/ HumanRequired(wf) \/ SuspendForHuman(wf) \/ Raises(wf)
        \/ Continue(wf, "PRECOMMIT") \/ Continue(d, "CURATOR_REPAIR")
        \/ \E c \in Patches : Continue(Fresh(wf, c), "NORMALIZE")
        \/ BudgetExhausted(wf) \/ Continue(wf, "QUARANTINE") \/ Ends(wf, Res(wf, "FATAL"))
    BY <1>5 DEF HumanResume, Decided
  <2> HIDE DEF d
  <2>4. ~Resumable(Res(wf, "BUDGET_EXHAUSTED"))
    BY DEF Res, Resumable
  <2>5. QED
    BY <1>0, <1>1, <1>2, <1>3, <2>1, <2>2, <2>3, <2>4, Onward, Anew, Out, ContentAssumption
       DEF Raises, BudgetExhausted
<1>6. CASE PrepareCommit
  <2> DEFINE g == Gate(wf)
             d == [wf EXCEPT !.gate = g]
             e == [d EXCEPT !.dir = "HUMAN"]
             f == [d EXCEPT !.dir = "STOP_FATAL"]
             h == [wf EXCEPT !.dir = "REPLAN"]
             k == [d EXCEPT !.req = d.cand]
  <2>1. /\ wf.st = "PRECOMMIT" /\ wf.st # Down /\ result = NoResult
        /\ UNCHANGED <<receipt, approved>> /\ Steps(wf.st, "STOP")
        /\ wf.val = wf.cand
    BY <1>6
       DEF PrepareCommit, Running, Down, world, Steps, Candidate, Validated, ClearInv, SoundAt
  <2>2. /\ Alike(wf, d) /\ d.st = wf.st /\ Alike(wf, e) /\ Alike(wf, f) /\ Alike(wf, h)
    BY <1>0 DEF Alike, Keys, Answered
  <2>3. /\ Keys \subseteq DOMAIN k /\ Answered(k) /\ k.cand = wf.cand /\ k.val = wf.val
        /\ k.guard = wf.guard /\ k.req = wf.cand
    BY <1>0 DEF Keys, Answered
  <2>4. CASE Continue(h, "STOP") \/ Continue(f, "STOP")
    <3> HIDE DEF h, f
    <3> QED
      BY <2>1, <2>2, <2>4, Onward
  <2>5. CASE Ends(wf, Res(wf, "FATAL"))
    BY <1>0, <2>1, <2>5, Out
  <2>6. CASE Raises(wf)
    BY <1>3, <2>1, <2>6 DEF Raises
  <2>7. ASSUME Finding[wf.val.c] = "pass", NEW t, t # "COMMIT",
               t \in Candidate => t \in Validated
        PROVE  SoundAt(wf, t, approved)
    BY <2>1, <2>7 DEF ClearInv, SoundAt, ApprovalHolds, Candidate, Validated
  <2>8. CASE Finding[wf.val.c] = "pass" /\ Continue(e, "HUMAN_SUSPEND")
    <3>1. "HUMAN_SUSPEND" \in Validated
      BY DEF Validated
    <3>2. SoundAt(wf, "HUMAN_SUSPEND", approved)
      BY <2>7, <2>8, <3>1
    <3> HIDE DEF e
    <3>3. SoundAt(e, "HUMAN_SUSPEND", approved') /\ e.req = wf.req
      BY <2>1, <2>2, <3>2, AlikeSound DEF Alike
    <3>4. CommittedIsCleared' /\ approved \subseteq approved'
      BY <2>1, StillCleared DEF ClearInv
    <3>5. QED
      BY <2>1, <2>8, <3>3, <3>4, Proceeds
  <2>9. ASSUME g = "ALLOW_COMMIT", Finding[wf.val.c] = "pass", Cleared(d)
        PROVE  ClearInv'
    <3>1. SoundAt(wf, "COMPLETE", approved)
      <4>1. "COMPLETE" \notin Candidate
        BY DEF Candidate, Validated
      <4>2. QED
        BY <2>7, <2>9, <4>1
    <3>2. SoundAt(d, "COMPLETE", approved) /\ SoundAt(d, d.st, approved) /\ d.req = wf.req
      BY <2>2, <3>1, AlikeSound DEF ClearInv, Alike
    <3>3. CommittedIsCleared' /\ approved \subseteq approved'
      BY <2>1, StillCleared DEF ClearInv
    <3>4. Clear(wf.cand.c, approved)
      BY <2>1, <2>9 DEF Gate, Clear, ClearInv, SoundAt, ApprovalHolds, AfterReview
    <3>5. wf.cand # NoCand
      BY <2>1 DEF ClearInv, SoundAt, Candidate, Validated, NoCand
    <3>6. SoundAt(k, "COMMIT", approved')
      <4>1. "COMMIT" \notin Candidate
        BY DEF Candidate, Validated
      <4> HIDE DEF k
      <4>2. QED
        BY <2>1, <2>3, <2>9, <3>4, <3>5, <4>1 DEF ClearInv, SoundAt, ApprovalHolds, Validated, Candidate
    <3>7. \/ EndsSaved(d, "COMPLETE", Res(d, "NOOP")) \/ Continue(d, "COMPLETE")
          \/ Ends(d, Res(d, "FATAL")) \/ Saved(k, "COMMIT")
      BY <2>9 DEF Cleared, RootsChanged
    <3>8. ~Resumable(Res(d, "FATAL"))
      BY DEF Res, Resumable
    <3>9. k.req # NoCand
      BY <2>3, <3>5
    <3> HIDE DEF d, k
    <3>10. CASE EndsSaved(d, "COMPLETE", Res(d, "NOOP")) \/ Ends(d, Res(d, "FATAL"))
      BY <2>1, <3>2, <3>3, <3>8, <3>10, Returns
    <3>11. CASE Continue(d, "COMPLETE")
      BY <2>1, <3>2, <3>3, <3>11, Proceeds
    <3>12. CASE Saved(k, "COMMIT")
      BY <2>1, <3>3, <3>6, <3>9, <3>12, Proceeds
    <3>13. QED
      BY <3>7, <3>10, <3>11, <3>12
  <2>10. g \in {"raises", "ALLOW_COMMIT", "REQUIRE_HUMAN", "REQUIRE_GUARDIAN", "BLOCK_GUARDIAN"}
    BY DEF Gate
  <2>11. QED
    BY <1>6, <2>4, <2>5, <2>6, <2>8, <2>9, <2>10 DEF PrepareCommit
<1>7. CASE Commit
  <2> DEFINE r == CommitReceipt(wf.req)
             d == [wf EXCEPT !.com = r.status]
  <2>1. /\ wf.st = "COMMIT" /\ wf.st # Down /\ result = NoResult
        /\ approved' = approved
    BY <1>7 DEF Commit, Running, Down
  <2>2. Alike(wf, d) /\ d.st = wf.st
    BY <1>0 DEF Alike, Keys, Answered
  <2>3. receipt' \in {receipt, r}
    BY <1>7 DEF Commit
  <2>4. CommittedIsCleared'
    <3>1. Clear(wf.req.c, approved)
      BY <2>1 DEF ClearInv, SoundAt
    <3>2. r.status = "accepted" => r = receipt \/ r.cand = wf.req
      BY DEF CommitReceipt
    <3>3. QED
      BY <2>1, <2>3, <3>1, <3>2 DEF ClearInv, CommittedIsCleared, Clear
  <2>5. \/ Saved(d, "PROJECT")
        \/ \E y : \E x \in {wf, d}, s \in {"STOP", "COMMIT"} : EndsSaved(x, s, y)
        \/ wf' = Dead /\ UNCHANGED <<ckpt, result>>
    BY <1>7 DEF Commit
  <2> HIDE DEF r, d
  <2>6. SoundAt(d, wf.st, approved) /\ d.req = wf.req
    BY <2>2, AlikeSound DEF ClearInv, Alike
  <2>7. ASSUME NEW x \in {wf, d}, NEW t \in {"PROJECT", "STOP", "COMMIT"}
        PROVE  SoundAt(x, t, approved)
    <3>1. SoundAt(x, "COMMIT", approved)
      BY <2>1, <2>6 DEF ClearInv
    <3>2. t \notin Candidate /\ t \notin Validated
      BY DEF Candidate, Validated
    <3>3. QED
      BY <3>1, <3>2 DEF SoundAt, ApprovalHolds
  <2>8. CASE Saved(d, "PROJECT")
    BY <2>1, <2>4, <2>6, <2>7, <2>8, Proceeds
  <2>9. CASE \E y : \E x \in {wf, d}, s \in {"STOP", "COMMIT"} : EndsSaved(x, s, y)
    <3>0. PICK y : \E x \in {wf, d}, s \in {"STOP", "COMMIT"} : EndsSaved(x, s, y)
      BY <2>9
    <3>1. PICK x \in {wf, d}, s \in {"STOP", "COMMIT"} : EndsSaved(x, s, y)
      BY <3>0
    <3>2. x.st = "COMMIT" /\ x.req = wf.req
      BY <2>1, <2>2, <2>6
    <3>3. QED
      BY <2>1, <2>4, <2>7, <3>1, <3>2, Returns
  <2>10. CASE wf' = Dead /\ UNCHANGED <<ckpt, result>>
    BY <2>1, <2>4, <2>10, DeadSound DEF ClearInv, Resumable, NoResult
  <2>11. QED
    BY <2>5, <2>8, <2>9, <2>10
<1>8. ASSUME NEW r, wf.st \in {"PROJECT", "FRESHNESS_GATE"},
             NEW s \in {"FRESHNESS_GATE", "COMPLETE"}, EndsSaved(wf, s, r),
             UNCHANGED <<receipt, approved>>
      PROVE  ClearInv'
  <2>1. Steps(wf.st, s) /\ wf.st # Down
    BY <1>8 DEF Steps, Candidate, Validated, Down
  <2>2. QED
    BY <1>0, <1>8, <2>1, OutSaved
<1>9. CASE Project
  <2>1. /\ wf.st = "PROJECT" /\ wf.st # Down /\ result = NoResult
        /\ UNCHANGED <<receipt, approved>> /\ Steps(wf.st, "FRESHNESS_GATE")
    BY <1>9 DEF Project, Running, Down, Steps, Candidate, Validated
  <2>2. \/ Continue(wf, "FRESHNESS_GATE") \/ \E r : EndsSaved(wf, "FRESHNESS_GATE", r)
        \/ Ends(wf, Res(wf, "FATAL"))
    BY <1>9 DEF Project, WithCommit
  <2>3. QED
    BY <1>0, <1>8, <2>1, <2>2, Onward, Out
<1>10. CASE FreshnessGate
  <2>1. wf.st = "FRESHNESS_GATE" /\ wf.st # Down /\ UNCHANGED <<receipt, approved>>
    BY <1>10 DEF FreshnessGate, Running, Down
  <2>2. \/ \E r : EndsSaved(wf, "COMPLETE", r) \/ EndsSaved(wf, "FRESHNESS_GATE", r)
        \/ Ends(wf, PostCommitFatal) \/ Ends(wf, Res(wf, "FATAL"))
    BY <1>10 DEF FreshnessGate, WithCommit
  <2>3. ~Resumable(PostCommitFatal)
    BY DEF PostCommitFatal, Res, Resumable
  <2>4. QED
    BY <1>0, <1>8, <2>1, <2>2, <2>3, Out
<1>11. CASE Complete
  <2>1. ~Resumable(Res(wf, IF Accepted(wf) THEN "COMMITTED" ELSE "NOOP"))
    BY DEF Res, Resumable
  <2>2. QED
    BY <1>0, <1>11, <2>1, Out DEF Complete, Running, Down, world
<1>12. CASE PortRaises
  <2>1. wf.st # Down /\ UNCHANGED <<receipt, approved>>
    BY <1>12 DEF PortRaises, Running, Down
  <2>2. \E r : EndsSaved(wf, "STOP", r)
    BY <1>12 DEF PortRaises, Raises
  <2>3. QED
    BY <1>3, <2>1, <2>2
<1>13. QED
  BY <1>4, <1>5, <1>6, <1>7, <1>9, <1>10, <1>11, <1>12 DEF Publish

(* Kills, foreign commits and the next execute(). *)
LEMMA ClearStep == ClearInv /\ [Next]_vars => ClearInv'
<1> SUFFICES ASSUME ClearInv, [Next]_vars PROVE ClearInv'
  OBVIOUS
<1>1. CASE Step
  BY <1>1, ClearPropose, ClearRepair, ClearPublish DEF Step
<1>2. CASE HumanDecides \/ OtherCommits \/ UNCHANGED vars
  <2>1. UNCHANGED <<wf, ckpt, result, receipt, approved>>
    BY <1>2 DEF HumanDecides, OtherCommits, vars
  <2>2. CommittedIsCleared'
    BY <2>1, StillCleared DEF ClearInv
  <2>3. QED
    BY <2>1, <2>2 DEF ClearInv
<1>3. CASE Kill
  <2>1. wf' = Dead /\ result' = NoResult /\ UNCHANGED <<ckpt, receipt, approved>>
    BY <1>3 DEF Kill
  <2>2. CommittedIsCleared'
    BY <2>1, StillCleared DEF ClearInv
  <2>3. QED
    BY <2>1, <2>2, DeadSound DEF ClearInv, Resumable, NoResult
<1>4. CASE Resume
  <2>1. Resumable(result) /\ result' = NoResult /\ UNCHANGED <<ckpt, receipt, approved>>
    BY <1>4 DEF Resume, Resumable
  <2>2. SoundAt(wf, ckpt.st, approved) /\ SoundAt(ckpt, ckpt.st, approved)
    BY <2>1 DEF ClearInv
  <2> DEFINE w == [wf EXCEPT !.st = ckpt.st]
  <2>3. Alike(wf, w) /\ w.st = ckpt.st
    BY <2>2, MoveAlike DEF SoundAt
  <2>4. SoundAt(w, ckpt.st, approved)
    BY <2>2, <2>3, AlikeSound
  <2>5. PICK x \in {w, ckpt} : wf' = Opened(x)
    BY <1>4 DEF Resume
  <2> HIDE DEF w
  <2>6. SoundAt(x, ckpt.st, approved) /\ x.st = ckpt.st
    BY <2>2, <2>3, <2>4
  <2>7. Alike(x, wf') /\ wf'.st = ckpt.st
    BY <2>5, <2>6, OpenedAlike DEF SoundAt
  <2>8. SoundAt(wf', wf'.st, approved')
    BY <2>1, <2>6, <2>7, AlikeSound
  <2>9. CommittedIsCleared'
    BY <2>1, StillCleared DEF ClearInv
  <2>10. ~Resumable(result') /\ (wf'.st = "COMMIT" => wf'.req # NoCand)
    BY <2>1, <2>8 DEF Resumable, NoResult, SoundAt
  <2>11. QED
    BY <2>1, <2>2, <2>7, <2>8, <2>9, <2>10 DEF ClearInv
<1>5. CASE Restart
  <2>1. UNCHANGED <<result, receipt, approved>> /\ CommittedIsCleared'
    BY <1>5, StillCleared DEF Restart, ClearInv
  <2>2. CASE wf' = Opened(ckpt) /\ ckpt' = ckpt
    <3>1. Alike(ckpt, wf') /\ wf'.st = ckpt.st
      BY <2>2, OpenedAlike DEF ClearInv, SoundAt
    <3>2. SoundAt(wf', wf'.st, approved')
      BY <2>1, <3>1, AlikeSound DEF ClearInv
    <3>3. wf'.st = "COMMIT" => wf'.req # NoCand
      BY <3>2 DEF SoundAt
    <3>4. QED
      BY <2>1, <2>2, <3>1, <3>2, <3>3 DEF ClearInv
  <2>3. CASE wf' = NoData /\ ckpt' = NoCkpt
    BY <2>1, <2>3, DeadSound DEF ClearInv
  <2>4. QED
    BY <1>5, <2>2, <2>3 DEF Restart
<1>6. CASE ReopenValidation
  <2>1. /\ ckpt.st = "STOP" /\ ckpt.cand # NoCand /\ ckpt.val = NoCand
        /\ wf' = ckpt' /\ ckpt' = [ckpt EXCEPT !.st = "VALIDATE"]
        /\ result' = NoResult /\ UNCHANGED <<receipt, approved>>
    BY <1>6 DEF ReopenValidation, world
  <2>2. Alike(ckpt, ckpt') /\ ckpt'.st = "VALIDATE"
    BY <2>1, MoveAlike DEF ClearInv, SoundAt
  <2>3. SoundAt(ckpt, "VALIDATE", approved)
    BY <2>1 DEF ClearInv, SoundAt, ApprovalHolds, Validated
  <2>4. SoundAt(ckpt', "VALIDATE", approved')
    BY <2>1, <2>2, <2>3, AlikeSound
  <2>5. CommittedIsCleared'
    BY <2>1, StillCleared DEF ClearInv
  <2>6. QED
    BY <2>1, <2>2, <2>4, <2>5 DEF ClearInv, Resumable, NoResult
<1>7. QED
  BY <1>1, <1>2, <1>3, <1>4, <1>5, <1>6 DEF Next

(* ClearInv holds in every reachable state. *)
LEMMA ClearAlways == Spec => []ClearInv
<1>1. Init => ClearInv
  <2> SUFFICES ASSUME Init PROVE ClearInv
    OBVIOUS
  <2>1. CommittedIsCleared /\ wf = NoData /\ ckpt = NoCkpt /\ ~Resumable(result)
    BY DEF Init, CommittedIsCleared, NoReceipt, Resumable, NoResult
  <2>2. /\ SoundAt(NoData, NoData.st, approved) /\ SoundAt(NoCkpt, NoCkpt.st, approved)
        /\ NoCkpt.st = "none"
    BY DEF SoundAt, Keys, Answered, ApprovalHolds, NoData, NoCkpt, NoCand, NoAttempt,
           Candidate, Validated, AfterReview
  <2>3. QED
    BY <2>1, <2>2 DEF ClearInv
<1>2. QED
  BY <1>1, ClearStep, PTL DEF Spec

(* Nothing reaches Canon that did not pass validation, that is critical,   *)
(* or that is more than a low risk and was not approved by a Guardian as   *)
(* it stands: not by repairs, quarantines or human patches after the       *)
(* approval, nor by data that a kill or a warm resume left behind.         *)
THEOREM CommitsAreCleared == Spec => []CommittedIsCleared
<1>1. ClearInv => CommittedIsCleared
  BY DEF ClearInv
<1>2. QED
  BY <1>1, ClearAlways, PTL

-----------------------------------------------------------------------------
(* Attempts are sent once and results are truthful: quiet steps            *)

Late == {"PROJECT", "FRESHNESS_GATE"}
Final == Late \cup {"COMMIT", Down}

(* The attempt in flight is about to go to the provider. *)
Sending(d) ==
  d.st = "CURATE_ATTEMPT_EXECUTE" /\ ~d.recovered /\ d.inflight.st = "requested"

(* The usage counters are numbers; one of them counts the revisions. *)
UseOK(d) == d.use \in [DOMAIN NoUse -> Nat] /\ d.use.revisions = d.cand.rev
LoopInv == ClearInv /\ UseOK(wf) /\ UseOK(ckpt)

(* The loop runs, outside the commit and the steps after it, and neither   *)
(* sends nor commits.                                                      *)
Calm ==
  /\ Keys \subseteq DOMAIN wf /\ "st" \in DOMAIN wf.inflight /\ UseOK(wf)
  /\ result = NoResult /\ wf.st \notin Final
  /\ UNCHANGED <<rq, receipt, sent>>

(* From w to d no usage was given back and no candidate was forgotten. *)
Grown(w, d) ==
  /\ Keys \subseteq DOMAIN d /\ UseOK(w) /\ UseOK(d) /\ d.cand.rev >= w.cand.rev
  /\ \A f \in DOMAIN NoUse : d.use[f] >= w.use[f]

Kept(w, d) == Grown(w, d) /\ d.att = w.att /\ d.com = w.com

(* A checkpoint e saved from d. *)
Copied(d, e) == e.use = d.use /\ e.cand = d.cand /\ e.com = d.com
Honest(w, r) == r.accepted => w.com = "accepted"

(* A step that neither sends, nor commits, nor makes ready to do either. *)
Quiet ==
  /\ Calm
  /\ Kept(wf, wf') /\ ~Sending(wf') /\ wf'.st \notin Final
  /\ ckpt' = ckpt \/ (Kept(wf, ckpt') /\ ckpt'.st \notin Final /\ Copied(wf', ckpt'))
  /\ Honest(wf, result')

(* A loop state that neither sends nor commits. *)
Mild(s) == s \notin Final /\ s # "CURATE_ATTEMPT_EXECUTE"

(* A step that goes on and keeps what Kept names is quiet, ... *)
LEMMA QuietGoes ==
  ASSUME Calm, NEW d, NEW s, Kept(wf, d), Mild(s), Continue(d, s) \/ Saved(d, s)
  PROVE  Quiet
<1> DEFINE e == [d EXCEPT !.st = s]
<1>1. Kept(wf, e) /\ e.st = s /\ wf' = e /\ result' = result
  BY DEF Kept, Grown, UseOK, Keys, Continue, Saved
<1>2. Kept(wf, Durable(d, s)) /\ Durable(d, s).st = s /\ Copied(e, Durable(d, s))
  BY DEF Kept, Grown, UseOK, Keys, Durable, Copied
<1>3. ckpt' \in {ckpt, Durable(d, s)}
  BY DEF Continue, Saved
<1> HIDE DEF e
<1>4. Honest(wf, result')
  BY <1>1 DEF Honest, Calm, NoResult
<1>5. QED
  BY <1>1, <1>2, <1>3, <1>4 DEF Quiet, Sending, Mild

(* ... and so is such a return. *)
LEMMA QuietEnds ==
  ASSUME Calm, NEW d, NEW r, Kept(wf, d), ~Sending(d), d.st \notin Final, Honest(wf, r),
         Ends(d, r) \/ \E s : s \notin Final /\ EndsSaved(d, s, r)
  PROVE  Quiet
<1>1. CASE Ends(d, r)
  BY <1>1 DEF Ends, Quiet
<1>2. CASE \E s : s \notin Final /\ EndsSaved(d, s, r)
  <2>1. PICK s : s \notin Final /\ EndsSaved(d, s, r)
    BY <1>2
  <2>2. Kept(wf, Durable(d, s)) /\ Durable(d, s).st = s /\ Copied(d, Durable(d, s))
    BY DEF Kept, Grown, UseOK, Keys, Durable, Copied
  <2>3. QED
    BY <2>1, <2>2 DEF EndsSaved, Quiet
<1>3. QED
  BY <1>1, <1>2

(* A new candidate keeps it too. *)
LEMMA NewKept ==
  ASSUME NEW w, NEW d, NEW c, NEW cs, Kept(w, d)
  PROVE  Kept(w, NewCandidate(d, c, cs))
<1> DEFINE e == NewCandidate(d, c, cs)
           k == d.cand.rev + 1
<1>1. /\ d.use \in [DOMAIN NoUse -> Nat] /\ d.use.revisions = d.cand.rev
      /\ "revisions" \in DOMAIN NoUse
  BY DEF Kept, Grown, UseOK, NoUse
<1>2. k \in Nat /\ k >= d.use.revisions
  BY <1>1
<1>3. /\ e.use = [d.use EXCEPT !.revisions = k] /\ e.cand.rev = k /\ Keys \subseteq DOMAIN e
      /\ e.att = d.att /\ e.com = d.com
  BY DEF Kept, Grown, Keys, NewCandidate
<1> HIDE DEF e, k
<1>4. UseOK(e) /\ \A f \in DOMAIN NoUse : e.use[f] >= d.use[f]
  BY <1>1, <1>2, <1>3 DEF UseOK
<1>5. /\ w.cand.rev \in Nat /\ d.cand.rev \in Nat /\ d.cand.rev >= w.cand.rev
      /\ \A f \in DOMAIN NoUse : /\ w.use[f] \in Nat /\ d.use[f] \in Nat /\ e.use[f] \in Nat
                                 /\ d.use[f] >= w.use[f]
  BY <1>4 DEF Kept, Grown, UseOK, NoUse
<1>6. e.cand.rev >= w.cand.rev /\ \A f \in DOMAIN NoUse : e.use[f] >= w.use[f]
  BY <1>3, <1>4, <1>5 DEF k
<1>7. QED
  BY <1>3, <1>4, <1>6 DEF Kept, Grown, e

(* So does charging a counter. *)
LEMMA ChargeKept ==
  ASSUME NEW w, NEW d, NEW e, NEW g \in DOMAIN NoUse, g # "revisions", Kept(w, d),
         Keys \subseteq DOMAIN e, e.cand = d.cand, e.att = d.att, e.com = d.com,
         e.use = [d.use EXCEPT ![g] = @ + 1]
  PROVE  Kept(w, e)
<1>1. d.use \in [DOMAIN NoUse -> Nat] /\ w.use \in [DOMAIN NoUse -> Nat]
  BY DEF Kept, Grown, UseOK
<1>2. e.use \in [DOMAIN NoUse -> Nat] /\ e.use.revisions = d.use.revisions
  BY <1>1
<1>3. \A f \in DOMAIN NoUse : e.use[f] >= d.use[f]
  BY <1>1
<1>4. \A f \in DOMAIN NoUse : e.use[f] >= w.use[f]
  BY <1>1, <1>2, <1>3 DEF Kept, Grown
<1>5. QED
  BY <1>2, <1>4 DEF Kept, Grown, UseOK

(* A result claims a commit only on behalf of data that has one. *)
LEMMA ResHonest ==
  ASSUME NEW w, NEW d, NEW s, Kept(w, d)
  PROVE  Honest(w, Res(d, s)) /\ Honest(w, Uncertain(d))
BY DEF Kept, Honest, Res, Uncertain, Accepted

(* The next attempt is made and saved; it is sent. *)
ToSend ==
  /\ Running("CURATE_ATTEMPT_PREPARE") /\ UNCHANGED <<rq, receipt, sent, result>>
  /\ Grown(wf, wf') /\ wf'.att = wf.att + 1 /\ wf'.com = wf.com
  /\ wf'.st = "CURATE_ATTEMPT_EXECUTE"
  /\ Grown(wf, ckpt') /\ ckpt'.att = wf.att + 1 /\ Copied(wf', ckpt')
  /\ ckpt'.st = "CURATE_ATTEMPT_EXECUTE"
Sends ==
  /\ result = NoResult /\ Sending(wf) /\ UNCHANGED <<rq, receipt, result>>
  /\ sent' = [sent EXCEPT ![wf.att] = @ + 1]
  /\ Kept(wf, wf') /\ wf'.st = "CURATE_ATTEMPT_EXECUTE" /\ ~Sending(wf')
  /\ Kept(wf, ckpt') /\ Copied(wf', ckpt') /\ ckpt'.st = "CURATE_ATTEMPT_EXECUTE"

(* Before there is a candidate, a step is quiet unless it makes or sends  *)
(* an attempt.                                                             *)
LEMMA QuietPropose ==
  ASSUME LoopInv, Propose
  PROVE  Quiet \/ ToSend \/ Sends
<1>0. Keys \subseteq DOMAIN wf /\ "st" \in DOMAIN wf.inflight /\ UseOK(wf) /\ Kept(wf, wf)
  BY DEF LoopInv, ClearInv, SoundAt, Answered, Kept, Grown, UseOK
<1> USE DEF Mild, Final, Late, Down
<1>1. CASE LoadBasis
  <2>1. Calm
    BY <1>0, <1>1 DEF LoadBasis, Running, world, Calm
  <2>2. QED
    BY <1>0, <1>1, <2>1, QuietGoes DEF LoadBasis
<1>2. CASE PrepareCandidate
  <2>1. Calm
    BY <1>0, <1>2 DEF PrepareCandidate, Running, world, Calm
  <2>2. QED
    BY <1>0, <1>2, <2>1, QuietGoes, NewKept DEF PrepareCandidate, Fresh
<1>3. ASSUME SuspendUncertain, Calm PROVE Quiet
  <2> DEFINE d == [HoldUncertain(wf) EXCEPT !.st = "CURATE_ATTEMPT_PREPARE"]
  <2>1. Kept(wf, d) /\ ~Sending(d) /\ d.st \notin Final
    BY <1>0 DEF Kept, Grown, UseOK, Keys, NoUse, HoldUncertain, Sending
  <2>2. EndsSaved(d, "CURATE_ATTEMPT_PREPARE", Uncertain(wf))
    BY <1>3 DEF SuspendUncertain
  <2> HIDE DEF d
  <2>3. QED
    BY <1>0, <1>3, <2>1, <2>2, QuietEnds, ResHonest
<1>4. CASE RecoverInflight
  BY <1>0, <1>3, <1>4 DEF RecoverInflight, Running, world, Calm
<1>5. CASE ProposalAnswered
  <2>1. Calm
    BY <1>0, <1>5 DEF ProposalAnswered, InFlight, Running, world, Calm
  <2>2. PICK st, out : Settle(st, out)
    BY <1>5 DEF ProposalAnswered
  <2> DEFINE d == [wf EXCEPT !.inflight = [st |-> st, out |-> out], !.use.calls = @ + 1]
  <2>3. Kept(wf, d)
    BY <1>0 DEF Kept, Grown, UseOK, Keys, NoUse
  <2>4. Saved(d, "PROPOSAL_VALIDATE")
    BY <2>2 DEF Settle
  <2> HIDE DEF d
  <2>5. QED
    BY <2>1, <2>3, <2>4, QuietGoes
<1>6. CASE ProposalFails
  <2>1. Calm
    BY <1>0, <1>6 DEF ProposalFails, InFlight, Running, Calm
  <2> DEFINE d == [wf EXCEPT !.inflight.st = "abandoned"]
  <2>2. Kept(wf, d) /\ ~Sending(d) /\ d.st \notin Final
    BY <1>0, <2>1 DEF Kept, Grown, UseOK, Keys, Sending, Calm
  <2>3. SuspendUncertain \/ \E s : EndsSaved(d, "STOP", Res(wf, s))
    BY <1>6 DEF ProposalFails
  <2> HIDE DEF d
  <2>4. QED
    BY <1>0, <1>3, <2>1, <2>2, <2>3, QuietEnds, ResHonest
<1>7. CASE ProposalValidate
  <2>1. Calm
    BY <1>0, <1>7 DEF ProposalValidate, Running, world, Calm
  <2>2. Kept(wf, Repeated(wf, wf.inflight.out))
    BY <1>0 DEF Kept, Grown, UseOK, Keys, NoUse, Repeated
  <2>3. QED
    BY <1>0, <1>7, <2>1, <2>2, QuietGoes, NewKept DEF ProposalValidate, Fresh
<1>8. ASSUME NEW d, Kept(wf, d), d.st = wf.st, wf.st # "CURATE_ATTEMPT_EXECUTE", Calm,
             QuarantineProposal(d)
      PROVE  Quiet
  BY <1>8, QuietGoes, QuietEnds, NewKept, ResHonest DEF QuarantineProposal, Fresh, Calm, Sending
<1>9. CASE ProposalRepairPolicy
  <2> DEFINE a == ProposalPolicy(wf)
             d == [wf EXCEPT !.pdir = a]
  <2>1. Calm /\ wf.st = "PROPOSAL_REPAIR_POLICY"
    BY <1>0, <1>9 DEF ProposalRepairPolicy, Running, world, Calm
  <2>2. Kept(wf, d) /\ d.st = wf.st
    BY <1>0 DEF Kept, Grown, UseOK, Keys
  <2>3. \/ Ends(wf, Res(wf, "FATAL")) \/ Continue(d, "PROPOSAL_RETRY")
        \/ Continue(d, "PROPOSAL_HUMAN_SUSPEND") \/ QuarantineProposal(d)
        \/ EndsSaved(d, "PROPOSAL_REPAIR_POLICY", Res(d, "BUDGET_EXHAUSTED"))
        \/ Ends(d, Res(d, "FATAL"))
    BY <1>9, Zenon DEF ProposalRepairPolicy, ProposalPolicy
  <2> HIDE DEF d
  <2>4. ~Sending(wf) /\ ~Sending(d)
    BY <2>1, <2>2 DEF Sending
  <2>5. QED
    BY <1>0, <1>8, <2>1, <2>2, <2>3, <2>4, QuietGoes, QuietEnds, ResHonest
<1>10. CASE ProposalRetry
  <2>1. Calm
    BY <1>0, <1>10 DEF ProposalRetry, Running, world, Calm
  <2>2. QED
    BY <1>0, <1>10, <2>1, QuietGoes DEF ProposalRetry
<1>11. ASSUME ProposalHumanRequired, Calm, wf.st # "CURATE_ATTEMPT_EXECUTE" PROVE Quiet
  <2> DEFINE d == [wf EXCEPT !.preq = TRUE]
  <2>1. Kept(wf, d) /\ ~Sending(d) /\ d.st \notin Final
    BY <1>0, <1>11 DEF Kept, Grown, UseOK, Keys, Sending, Calm
  <2>2. EndsSaved(d, "PROPOSAL_HUMAN_RESUME", Res(wf, "HUMAN_REQUIRED"))
    BY <1>11 DEF ProposalHumanRequired
  <2> HIDE DEF d
  <2>3. QED
    BY <1>0, <1>11, <2>1, <2>2, QuietEnds, ResHonest
<1>12. CASE ProposalHumanSuspend
  <2>1. Calm /\ wf.st = "PROPOSAL_HUMAN_SUSPEND" /\ ~Sending(wf)
    BY <1>0, <1>12 DEF ProposalHumanSuspend, Running, world, Calm, Sending
  <2>2. QED
    BY <1>0, <1>11, <1>12, <2>1, QuietEnds, ResHonest DEF ProposalHumanSuspend
<1>13. CASE ProposalHumanResume
  <2>1. Calm /\ wf.st = "PROPOSAL_HUMAN_RESUME"
    BY <1>0, <1>13 DEF ProposalHumanResume, Running, world, Calm
  <2>2. QED
    BY <1>0, <1>8, <1>11, <1>13, <2>1, QuietGoes DEF ProposalHumanResume
<1>14. CASE CurateAttemptPrepare
  <2> DEFINE d == [wf EXCEPT !.att = @ + 1, !.use.attempts = @ + 1,
                             !.inflight = [st |-> "requested", out |-> Nothing]]
             t == "CURATE_ATTEMPT_EXECUTE"
  <2>1. Calm /\ Running("CURATE_ATTEMPT_PREPARE") /\ ~Sending(wf)
    BY <1>0, <1>14 DEF CurateAttemptPrepare, Running, world, Calm, Sending
  <2>2. Grown(wf, d) /\ d.att = wf.att + 1 /\ d.com = wf.com
    BY <1>0 DEF Grown, UseOK, Keys, NoUse
  <2>3. Saved(d, t) \/ BudgetExhausted(wf)
    BY <1>14 DEF CurateAttemptPrepare
  <2> HIDE DEF d
  <2>4. CASE Saved(d, t)
    <3>1. wf' = [d EXCEPT !.st = t] /\ ckpt' = Durable(d, t) /\ result' = result
      BY <2>4 DEF Saved
    <3>2. Grown(wf, wf') /\ wf'.att = d.att /\ wf'.com = d.com /\ wf'.st = t
      BY <2>2, <3>1 DEF Grown, UseOK, Keys
    <3>3. Grown(wf, ckpt') /\ ckpt'.att = d.att /\ Copied(wf', ckpt') /\ ckpt'.st = t
      BY <2>2, <3>1 DEF Grown, UseOK, Keys, Durable, Copied
    <3>4. QED
      BY <2>1, <2>2, <3>1, <3>2, <3>3 DEF ToSend, Calm
  <2>5. QED
    BY <1>0, <2>1, <2>3, <2>4, QuietEnds, ResHonest DEF BudgetExhausted, Calm
<1>15. CASE SendProposal
  <2> DEFINE d == [wf EXCEPT !.inflight.st = "running"]
             t == "CURATE_ATTEMPT_EXECUTE"
  <2>1. /\ result = NoResult /\ Sending(wf) /\ UNCHANGED <<rq, receipt>>
        /\ sent' = [sent EXCEPT ![wf.att] = @ + 1] /\ Saved(d, t)
    BY <1>15 DEF SendProposal, Running, Sending
  <2>2. Kept(wf, d) /\ d.inflight.st = "running"
    BY <1>0 DEF Kept, Grown, UseOK, Keys
  <2> HIDE DEF d
  <2>3. wf' = [d EXCEPT !.st = t] /\ ckpt' = Durable(d, t) /\ result' = result
    BY <2>1 DEF Saved
  <2>4. Kept(wf, wf') /\ wf'.st = t /\ wf'.inflight.st = "running"
    BY <2>2, <2>3 DEF Kept, Grown, UseOK, Keys
  <2>5. Kept(wf, ckpt') /\ Copied(wf', ckpt') /\ ckpt'.st = t
    BY <2>2, <2>3 DEF Kept, Grown, UseOK, Keys, Durable, Copied
  <2>6. QED
    BY <2>1, <2>3, <2>4, <2>5 DEF Sends, Sending
<1>16. QED
  BY <1>1, <1>2, <1>4, <1>5, <1>6, <1>7, <1>9, <1>10, <1>12, <1>13, <1>14, <1>15 DEF Propose

(* The repair loop is quiet. *)
LEMMA QuietRepair ==
  ASSUME LoopInv, Repair
  PROVE  Quiet
<1>0. Keys \subseteq DOMAIN wf /\ "st" \in DOMAIN wf.inflight /\ UseOK(wf) /\ Kept(wf, wf)
  BY DEF LoopInv, ClearInv, SoundAt, Answered, Kept, Grown, UseOK
<1> USE DEF Mild, Final, Late, Down
<1>1. ASSUME NEW d, Calm, Kept(wf, d), d.st = wf.st, wf.st # "CURATE_ATTEMPT_EXECUTE",
             BudgetExhausted(d) \/ \E s : Ends(d, Res(d, s))
      PROVE  Quiet
  BY <1>1, QuietEnds, ResHonest DEF BudgetExhausted, Sending, Calm
<1>2. CASE Normalize
  <2> DEFINE d == [wf EXCEPT !.use.normal = @ + 1]
             e == [d EXCEPT !.dir = "none"]
  <2>1. Calm /\ wf.st = "NORMALIZE"
    BY <1>0, <1>2 DEF Normalize, Running, world, Calm
  <2>2. Kept(wf, d) /\ d.st = wf.st /\ Kept(wf, e)
    BY <1>0 DEF Kept, Grown, UseOK, Keys, NoUse
  <2>3. \/ BudgetExhausted(wf) \/ BudgetExhausted(d) \/ Saved(e, "MATERIALIZE")
        \/ \E c : Saved(Fresh(e, c), "MATERIALIZE")
    BY <1>2 DEF Normalize
  <2> HIDE DEF d, e
  <2>4. QED
    BY <1>0, <1>1, <2>1, <2>2, <2>3, QuietGoes, NewKept DEF Fresh
<1>3. CASE Materialize
  <2> DEFINE d == [wf EXCEPT !.mat = wf.cand.rev, !.noop = (wf.cand.c = Empty)]
  <2>1. Calm /\ wf.st = "MATERIALIZE"
    BY <1>0, <1>3 DEF Materialize, Running, world, Calm
  <2>2. Kept(wf, d)
    BY <1>0 DEF Kept, Grown, UseOK, Keys
  <2>3. Continue(d, "VALIDATE") \/ Ends(wf, Res(wf, "FATAL"))
    BY <1>3 DEF Materialize
  <2> HIDE DEF d
  <2>4. QED
    BY <1>0, <1>1, <2>1, <2>2, <2>3, QuietGoes
<1>4. CASE Validate
  <2> DEFINE d == [wf EXCEPT !.val = wf.cand]
  <2>1. Calm
    BY <1>0, <1>4 DEF Validate, Running, world, Calm
  <2>2. Kept(wf, d)
    BY <1>0 DEF Kept, Grown, UseOK, Keys
  <2>3. Saved(d, "RISK_CLASSIFY") \/ Saved(d, "REPAIR_POLICY")
    BY <1>4 DEF Validate
  <2> HIDE DEF d
  <2>4. QED
    BY <2>1, <2>2, <2>3, QuietGoes
<1>5. CASE RepairPolicy
  <2> DEFINE r == Decide(wf)
             d == [wf EXCEPT !.dir = r.action,
                             !.acts = Append(@, [action |-> r.action, code |-> r.code,
                                                 rev |-> wf.cand.rev])]
  <2>1. Calm /\ wf.st = "REPAIR_POLICY"
    BY <1>0, <1>5 DEF RepairPolicy, Running, world, Calm
  <2>2. Kept(wf, d)
    BY <1>0 DEF Kept, Grown, UseOK, Keys
  <2>3. Continue(d, After[r.action])
    BY <1>5 DEF RepairPolicy
  <2>4. r.action \in RepairActions \ {"none", "REPLAN"}
    BY <2>1, PolicyActs DEF LoopInv
  <2> HIDE DEF d, r
  <2>5. Mild(After[r.action])
    BY <2>4 DEF After, RepairActions
  <2>6. QED
    BY <2>1, <2>2, <2>3, <2>5, QuietGoes
<1>6. CASE RefreshSourceContext
  <2> DEFINE d == [wf EXCEPT !.use.refreshes = @ + 1, !.dir = "none"]
  <2>1. Calm /\ wf.st = "REFRESH_SOURCE_CONTEXT"
    BY <1>0, <1>6 DEF RefreshSourceContext, Running, world, Calm
  <2>2. Kept(wf, d)
    BY <1>0 DEF Kept, Grown, UseOK, Keys, NoUse
  <2>3. BudgetExhausted(wf) \/ Continue(d, "REPAIR_POLICY")
    BY <1>6 DEF RefreshSourceContext
  <2> HIDE DEF d
  <2>4. QED
    BY <1>0, <1>1, <2>1, <2>2, <2>3, QuietGoes
<1>7. CASE CuratorRepair
  <2> DEFINE d == [wf EXCEPT !.use.repairs = @ + 1, !.dir = "none"]
             e == [d EXCEPT !.use.calls = @ + 1]
  <2>1. Calm /\ wf.st = "CURATOR_REPAIR"
    BY <1>0, <1>7 DEF CuratorRepair, Running, world, Calm
  <2>2. Kept(wf, d) /\ d.st = wf.st /\ Kept(wf, e)
    <3>1. /\ Keys \subseteq DOMAIN d /\ d.cand = wf.cand /\ d.att = wf.att /\ d.com = wf.com
          /\ d.use = [wf.use EXCEPT !.repairs = @ + 1] /\ d.st = wf.st
      BY <1>0 DEF Keys
    <3>2. /\ Keys \subseteq DOMAIN e /\ e.cand = d.cand /\ e.att = d.att /\ e.com = d.com
          /\ e.use = [d.use EXCEPT !.calls = @ + 1]
      BY <1>0 DEF Keys
    <3>3. {"repairs", "calls"} \subseteq DOMAIN NoUse
      BY DEF NoUse
    <3> HIDE DEF d, e
    <3>4. Kept(wf, d)
      BY <1>0, <3>1, <3>3, ChargeKept
    <3>5. QED
      BY <3>1, <3>2, <3>3, <3>4, ChargeKept
  <2>3. \/ BudgetExhausted(wf) \/ Ends(d, Res(d, "FATAL")) \/ Saved(d, "REPAIR_POLICY")
        \/ \E c : Saved(Fresh(e, c), "NORMALIZE")
    BY <1>7 DEF CuratorRepair
  <2> HIDE DEF d, e
  <2>4. QED
    BY <1>0, <1>1, <2>1, <2>2, <2>3, QuietGoes, NewKept DEF Fresh
<1>8. CASE RiskClassify
  <2> DEFINE d == [wf EXCEPT !.risk = wf.cand.rev]
  <2>1. Calm
    BY <1>0, <1>8 DEF RiskClassify, Running, world, Calm
  <2>2. Kept(wf, d)
    BY <1>0 DEF Kept, Grown, UseOK, Keys
  <2>3. Continue(d, "PRECOMMIT") \/ Continue(d, "GUARDIAN")
    BY <1>8 DEF RiskClassify
  <2> HIDE DEF d
  <2>4. QED
    BY <2>1, <2>2, <2>3, QuietGoes
<1>9. CASE Guardian
  <2>1. Calm /\ wf.st = "GUARDIAN"
    BY <1>0, <1>9 DEF Guardian, Running, Calm
  <2>2. CASE Ends(wf, Res(wf, "FATAL")) \/ BudgetExhausted(wf)
    BY <1>0, <1>1, <2>1, <2>2
  <2>3. ASSUME NEW out \in DOMAIN AfterReview,
               Saved([wf EXCEPT !.use.reviews = @ + 1, !.use.calls = @ + 1,
                                !.guard = [cs |-> wf.cand.cs, out |-> out]],
                     AfterReview[out])
        PROVE  Quiet
    <3> DEFINE d == [wf EXCEPT !.use.reviews = @ + 1, !.use.calls = @ + 1,
                               !.guard = [cs |-> wf.cand.cs, out |-> out]]
    <3>1. Kept(wf, d)
      <4> DEFINE e == [wf EXCEPT !.use.reviews = @ + 1]
      <4>1. /\ Keys \subseteq DOMAIN e /\ e.cand = wf.cand /\ e.att = wf.att /\ e.com = wf.com
            /\ e.use = [wf.use EXCEPT !.reviews = @ + 1]
        BY <1>0 DEF Keys
      <4>2. /\ Keys \subseteq DOMAIN d /\ d.cand = e.cand /\ d.att = e.att /\ d.com = e.com
            /\ d.use = [e.use EXCEPT !.calls = @ + 1]
        BY <1>0 DEF Keys
      <4>3. {"reviews", "calls"} \subseteq DOMAIN NoUse
        BY DEF NoUse
      <4> HIDE DEF d, e
      <4>4. Kept(wf, e)
        BY <1>0, <4>1, <4>3, ChargeKept
      <4>5. QED
        BY <4>2, <4>3, <4>4, ChargeKept
    <3>2. Mild(AfterReview[out])
      BY <2>3 DEF AfterReview
    <3>3. Saved(d, AfterReview[out])
      BY <2>3
    <3> HIDE DEF d
    <3>4. QED
      BY <2>1, <3>1, <3>2, <3>3, QuietGoes
  <2>4. QED
    BY <1>9, <2>2, <2>3 DEF Guardian
<1>10. CASE QuarantineCandidate
  <2> DEFINE d == [wf EXCEPT !.dir = "none"]
  <2>1. Calm /\ wf.st = "QUARANTINE"
    BY <1>0, <1>10 DEF QuarantineCandidate, Running, world, Calm
  <2>2. Kept(wf, d)
    BY <1>0 DEF Kept, Grown, UseOK, Keys
  <2>3. \/ Ends(wf, Res(wf, "QUARANTINED"))
        \/ Continue(NewCandidate(d, Rest[wf.cand.c], wf.cand.cs), "NORMALIZE")
    BY <1>10 DEF QuarantineCandidate
  <2> HIDE DEF d
  <2>4. QED
    BY <1>0, <1>1, <2>1, <2>2, <2>3, QuietGoes, NewKept
<1>11. CASE BudgetStop \/ BudgetSpent
  <2>1. Calm /\ wf.st # "CURATE_ATTEMPT_EXECUTE" /\ BudgetExhausted(wf)
    BY <1>0, <1>11 DEF BudgetStop, BudgetSpent, Running, world, Calm
  <2>2. QED
    BY <1>0, <1>1, <2>1
<1>12. CASE Stop
  <2>1. Calm /\ wf.st = "STOP" /\ ~Sending(wf)
    BY <1>0, <1>12 DEF Stop, Running, world, Calm, Sending
  <2>2. QED
    BY <1>0, <1>12, <2>1, QuietEnds, ResHonest DEF Stop
<1>13. QED
  BY <1>2, <1>3, <1>4, <1>5, <1>6, <1>7, <1>8, <1>9, <1>10, <1>11, <1>12 DEF Repair

(* PRECOMMIT lets the candidate through to the commit. *)
ToCommit ==
  /\ Running("PRECOMMIT") /\ UNCHANGED <<rq, receipt, sent, result>>
  /\ Kept(wf, wf') /\ wf'.st = "COMMIT"
  /\ Kept(wf, ckpt') /\ Copied(wf', ckpt') /\ ckpt'.st = "COMMIT"

(* Up to the commit, only PRECOMMIT is not quiet. *)
LEMMA QuietPublish ==
  ASSUME LoopInv,
         HumanSuspend \/ HumanResume \/ PrepareCommit \/ Complete \/ PortRaises,
         ~Running("PROJECT")
  PROVE  Quiet \/ ToCommit
<1>0. Keys \subseteq DOMAIN wf /\ "st" \in DOMAIN wf.inflight /\ UseOK(wf) /\ Kept(wf, wf)
  BY DEF LoopInv, ClearInv, SoundAt, Answered, Kept, Grown, UseOK
<1> USE DEF Mild, Final, Late, Down
<1>1. ASSUME Calm, NEW d, Kept(wf, d), d.st = wf.st, wf.st # "CURATE_ATTEMPT_EXECUTE",
             NEW r, Honest(wf, r),
             Ends(d, r) \/ \E s : s \notin Final /\ EndsSaved(d, s, r)
      PROVE  Quiet
  BY <1>1, QuietEnds DEF Sending, Calm
<1>2. ASSUME HumanRequired(wf), Calm, wf.st # "CURATE_ATTEMPT_EXECUTE"
      PROVE  Quiet
  BY <1>0, <1>1, <1>2, ResHonest DEF HumanRequired
<1>3. ASSUME SuspendForHuman(wf), Calm, wf.st # "CURATE_ATTEMPT_EXECUTE"
      PROVE  Quiet
  <2> DEFINE e == [wf EXCEPT !.appr = IF @ = 0 THEN wf.cand.rev ELSE @]
  <2>1. Kept(wf, e) /\ e.st = wf.st
    BY <1>0 DEF Kept, Grown, UseOK, Keys
  <2>2. EndsSaved(e, "HUMAN_RESUME", Res(e, "HUMAN_REQUIRED"))
    BY <1>3 DEF SuspendForHuman
  <2> HIDE DEF e
  <2>3. QED
    BY <1>1, <1>3, <2>1, <2>2, ResHonest
<1>4. CASE HumanSuspend
  BY <1>0, <1>2, <1>3, <1>4 DEF HumanSuspend, Running, world, Calm
<1>5. CASE HumanResume
  <2> DEFINE d == [wf EXCEPT !.dir = "CURATOR_REPAIR"]
  <2>1. Calm /\ wf.st = "HUMAN_RESUME"
    BY <1>0, <1>5 DEF HumanResume, Running, world, Calm
  <2>2. Kept(wf, d)
    BY <1>0 DEF Kept, Grown, UseOK, Keys
  <2>3. \/ HumanRequired(wf) \/ SuspendForHuman(wf) \/ Raises(wf)
        \/ Continue(wf, "PRECOMMIT") \/ Continue(d, "CURATOR_REPAIR")
        \/ \E c \in Patches : Continue(Fresh(wf, c), "NORMALIZE")
        \/ BudgetExhausted(wf) \/ Continue(wf, "QUARANTINE") \/ Ends(wf, Res(wf, "FATAL"))
    BY <1>5 DEF HumanResume, Decided
  <2> HIDE DEF d
  <2>4. QED
    BY <1>0, <1>1, <1>2, <1>3, <2>1, <2>2, <2>3, QuietGoes, NewKept, ResHonest
       DEF Raises, BudgetExhausted, Fresh
<1>6. CASE PrepareCommit
  <2> DEFINE g == Gate(wf)
             d == [wf EXCEPT !.gate = g]
             e == [d EXCEPT !.dir = "HUMAN"]
             f == [d EXCEPT !.dir = "STOP_FATAL"]
             h == [wf EXCEPT !.dir = "REPLAN"]
             k == [d EXCEPT !.req = d.cand]
  <2>1. Calm /\ Running("PRECOMMIT")
    BY <1>0, <1>6 DEF PrepareCommit, Running, world, Calm
  <2>2. /\ Kept(wf, d) /\ d.st = wf.st /\ Kept(wf, e) /\ Kept(wf, f) /\ Kept(wf, h)
        /\ Kept(wf, k)
    BY <1>0 DEF Kept, Grown, UseOK, Keys
  <2>3. g \in {"raises", "ALLOW_COMMIT", "REQUIRE_HUMAN", "REQUIRE_GUARDIAN", "BLOCK_GUARDIAN"}
    BY DEF Gate
  <2>4. Cleared(d) => \/ EndsSaved(d, "COMPLETE", Res(d, "NOOP")) \/ Continue(d, "COMPLETE")
                      \/ Ends(d, Res(d, "FATAL")) \/ Saved(k, "COMMIT")
    BY DEF Cleared, RootsChanged
  <2>5. \/ Continue(h, "STOP") \/ Continue(f, "STOP") \/ Continue(e, "HUMAN_SUSPEND")
        \/ Ends(wf, Res(wf, "FATAL")) \/ Raises(wf) \/ Cleared(d)
    BY <1>6, <2>3 DEF PrepareCommit
  <2> HIDE DEF d, e, f, h, k
  <2>6. CASE Saved(k, "COMMIT")
    <3>1. wf' = [k EXCEPT !.st = "COMMIT"] /\ ckpt' = Durable(k, "COMMIT") /\ result' = result
      BY <2>6 DEF Saved
    <3>2. Kept(wf, [k EXCEPT !.st = "COMMIT"]) /\ [k EXCEPT !.st = "COMMIT"].st = "COMMIT"
      BY <2>2 DEF Kept, Grown, UseOK, Keys
    <3>3. /\ Kept(wf, Durable(k, "COMMIT")) /\ Durable(k, "COMMIT").st = "COMMIT"
          /\ Copied([k EXCEPT !.st = "COMMIT"], Durable(k, "COMMIT"))
      BY <2>2 DEF Kept, Grown, UseOK, Keys, Durable, Copied
    <3>4. QED
      BY <2>1, <3>1, <3>2, <3>3 DEF ToCommit, Calm
  <2>7. wf.st # "CURATE_ATTEMPT_EXECUTE"
    BY <2>1 DEF Running
  <2>8. QED
    BY <1>0, <1>1, <2>1, <2>2, <2>4, <2>5, <2>6, <2>7, QuietGoes, ResHonest DEF Raises
<1>7. CASE Complete
  BY <1>0, <1>1, <1>7, ResHonest DEF Complete, Running, world, Calm
<1>8. CASE PortRaises
  <2>1. Calm /\ wf.st # "CURATE_ATTEMPT_EXECUTE"
    BY <1>0, <1>8 DEF PortRaises, Running, Calm
  <2>2. \/ EndsSaved(wf, "STOP", Res(wf, "FATAL"))
        \/ \E b \in BOOLEAN : EndsSaved(wf, "STOP", [Res(wf, "FATAL") EXCEPT !.reopens = b])
    BY <1>8 DEF PortRaises, Raises
  <2>3. \A b : Honest(wf, [Res(wf, "FATAL") EXCEPT !.reopens = b])
    BY DEF Honest, Res
  <2>4. QED
    BY <1>0, <1>1, <2>1, <2>2, <2>3, ResHonest
<1>9. QED
  BY <1>4, <1>5, <1>6, <1>7, <1>8

-----------------------------------------------------------------------------
(* A proposal request is sent once                                         *)

(* The live and the saved data agree on the number of attempts, and an     *)
(* attempt beyond it, or one about to be sent, was never sent.  A restart  *)
(* marks the attempt it finds as recovered, so that it is not about to be  *)
(* sent.                                                                   *)
SendInv ==
  rq.caller = "checkpoint" =>
    /\ sent \in [1..MaxAttempts -> Nat] /\ ckpt.att \in Nat
    /\ wf.st # Down => wf.att = ckpt.att
    /\ wf.st = Down => result = NoResult
    /\ \A a \in 1..MaxAttempts :
         /\ sent[a] <= 1
         /\ a > ckpt.att => sent[a] = 0
         /\ Sending(wf) /\ a = wf.att => sent[a] = 0

(* The steps from COMMIT on: data is kept but for the commit's outcome. *)
Takes(w, d, c) == Grown(w, d) /\ d.att = w.att /\ d.com \in {w.com, c}
Finishes ==
  /\ result = NoResult /\ wf.st \in Late \cup {"COMMIT"} /\ UNCHANGED <<rq, sent>>
  /\ \/ wf' = Dead /\ UNCHANGED <<ckpt, result>>
     \/ /\ Takes(wf, wf', CommitReceipt(wf.req).status) /\ wf'.st \in Late \cup {"COMMIT"}
        /\ \/ ckpt' = ckpt
           \/ Takes(wf, ckpt', CommitReceipt(wf.req).status) /\ Copied(wf', ckpt')

(* The commit and what follows it leave the attempts alone. *)
LEMMA FinishingSteps ==
  ASSUME LoopInv, Commit \/ Project \/ FreshnessGate \/ (PortRaises /\ Running("PROJECT"))
  PROVE  Finishes
<1> DEFINE c == CommitReceipt(wf.req).status
<1>0. Keys \subseteq DOMAIN wf /\ Takes(wf, wf, c)
  BY DEF LoopInv, ClearInv, SoundAt, Takes, Grown, UseOK
<1> HIDE DEF c
<1>1. ASSUME NEW d, NEW s \in Late, Takes(wf, d, c), Continue(d, s) \/ Saved(d, s)
      PROVE  /\ Takes(wf, wf', c) /\ wf'.st \in Late
             /\ ckpt' = ckpt \/ (Takes(wf, ckpt', c) /\ Copied(wf', ckpt'))
  <2>1. wf' = [d EXCEPT !.st = s] /\ ckpt' \in {ckpt, Durable(d, s)}
    BY <1>1 DEF Continue, Saved
  <2>2. Takes(wf, Durable(d, s), c) /\ Copied([d EXCEPT !.st = s], Durable(d, s))
    BY <1>1 DEF Takes, Grown, UseOK, Durable, Keys, Copied
  <2>3. Takes(wf, [d EXCEPT !.st = s], c) /\ [d EXCEPT !.st = s].st = s
    BY <1>1 DEF Takes, Grown, UseOK, Keys
  <2>4. QED
    BY <1>1, <2>1, <2>2, <2>3
<1>2. ASSUME NEW d, Takes(wf, d, c), d.st = wf.st, \E s, r : Ends(d, r) \/ EndsSaved(d, s, r)
      PROVE  /\ Takes(wf, wf', c) /\ wf'.st = wf.st
             /\ ckpt' = ckpt \/ (Takes(wf, ckpt', c) /\ Copied(wf', ckpt'))
  <2>1. wf' = d /\ (ckpt' = ckpt \/ \E s : ckpt' = Durable(d, s))
    BY <1>2 DEF Ends, EndsSaved
  <2>2. \A s : Takes(wf, Durable(d, s), c) /\ Copied(d, Durable(d, s))
    BY <1>2 DEF Takes, Grown, UseOK, Durable, Keys, Copied
  <2>3. QED
    BY <1>2, <2>1, <2>2
<1>3. CASE Commit
  <2> DEFINE d == [wf EXCEPT !.com = c]
  <2>1. result = NoResult /\ wf.st = "COMMIT" /\ UNCHANGED <<rq, sent>>
    BY <1>3 DEF Commit, Running
  <2>2. Takes(wf, d, c) /\ d.st = wf.st
    BY <1>0 DEF Takes, Grown, UseOK, Keys
  <2>3. \/ Saved(d, "PROJECT") \/ (\E s, y : EndsSaved(d, s, y)) \/ (\E s, y : EndsSaved(wf, s, y))
        \/ wf' = Dead /\ UNCHANGED <<ckpt, result>>
    BY <1>3 DEF Commit, c
  <2> HIDE DEF d
  <2>4. QED
    BY <1>0, <1>1, <1>2, <2>1, <2>2, <2>3 DEF Finishes, Late, c
<1>4. CASE Project \/ FreshnessGate \/ (PortRaises /\ Running("PROJECT"))
  <2>1. result = NoResult /\ wf.st \in Late /\ UNCHANGED <<rq, sent>>
    BY <1>4 DEF Project, FreshnessGate, PortRaises, Running, Late
  <2>2. Continue(wf, "FRESHNESS_GATE") \/ \E s, r : Ends(wf, r) \/ EndsSaved(wf, s, r)
    BY <1>4 DEF Project, FreshnessGate, PortRaises, WithCommit, Raises
  <2>3. QED
    BY <1>0, <1>1, <1>2, <2>1, <2>2 DEF Finishes, Late, c
<1>5. QED
  BY <1>3, <1>4

(* Every step of the loop. *)
LEMMA LoopSteps ==
  ASSUME LoopInv, Step
  PROVE  \/ Quiet \/ ToSend \/ Sends \/ ToCommit
         \/ Commit \/ Project \/ FreshnessGate \/ (PortRaises /\ Running("PROJECT"))
<1>1. PortRaises => Quiet \/ ToCommit \/ Running("PROJECT")
  BY QuietPublish
<1>2. HumanSuspend \/ HumanResume \/ PrepareCommit \/ Complete => Quiet \/ ToCommit
  BY QuietPublish DEF HumanSuspend, HumanResume, PrepareCommit, Complete, Running
<1>3. QED
  BY <1>1, <1>2, QuietPropose, QuietRepair DEF Step, Publish

(* No step spoils the usage counters. *)
LEMMA UseStep == LoopInv /\ [Next]_vars => UseOK(wf)' /\ UseOK(ckpt)'
<1> SUFFICES ASSUME LoopInv, [Next]_vars PROVE UseOK(wf') /\ UseOK(ckpt')
  OBVIOUS
<1>0. /\ Keys \subseteq DOMAIN wf /\ Keys \subseteq DOMAIN ckpt /\ UseOK(wf) /\ UseOK(ckpt)
      /\ UseOK(NoData) /\ UseOK(NoCkpt) /\ UseOK(Dead)
  BY DEF LoopInv, ClearInv, SoundAt, UseOK, NoData, NoCkpt, Dead, NoUse, NoCand
<1>1. CASE Step
  BY <1>0, <1>1, LoopSteps, FinishingSteps
     DEF Quiet, ToSend, Sends, ToCommit, Finishes, Kept, Takes, Grown
<1>2. ASSUME NEW d, Keys \subseteq DOMAIN d, UseOK(d) PROVE UseOK(Opened(d))
  BY <1>2 DEF Opened, UseOK, Keys
<1>3. ASSUME NEW d, NEW s, Keys \subseteq DOMAIN d, UseOK(d)
      PROVE  UseOK([d EXCEPT !.st = s]) /\ Keys \subseteq DOMAIN [d EXCEPT !.st = s]
  BY <1>3 DEF UseOK, Keys
<1>4. CASE Resume
  BY <1>0, <1>2, <1>3, <1>4 DEF Resume
<1>5. CASE Restart
  BY <1>0, <1>2, <1>5 DEF Restart
<1>6. CASE ReopenValidation
  BY <1>0, <1>3, <1>6 DEF ReopenValidation
<1>7. CASE HumanDecides \/ OtherCommits \/ Kill \/ UNCHANGED vars
  BY <1>0, <1>7 DEF HumanDecides, OtherCommits, Kill, vars
<1>8. QED
  BY <1>1, <1>4, <1>5, <1>6, <1>7 DEF Next

(* The invariants so far hold in every reachable state. *)
LEMMA LoopAlways == Spec => []LoopInv
<1>1. Init => UseOK(wf) /\ UseOK(ckpt)
  BY DEF Init, UseOK, NoData, NoCkpt, NoUse, NoCand
<1>2. QED
  BY <1>1, UseStep, ClearAlways, PTL DEF Spec, LoopInv

(* No step sends a request again. *)
LEMMA SendStep == LoopInv /\ SendInv /\ [Next]_vars => SendInv'
<1> SUFFICES ASSUME LoopInv, SendInv, [Next]_vars, rq'.caller = "checkpoint"
             PROVE  SendInv'
  BY DEF SendInv
<1> USE BudgetAssumption
<1>1. CASE Quiet
  BY <1>1 DEF Quiet, Calm, Kept, SendInv, Final
<1>2. CASE ToSend
  BY <1>2 DEF ToSend, SendInv, Running, Down
<1>3. CASE Sends
  <2>0. wf.st # Down /\ wf'.st # Down /\ rq.caller = "checkpoint"
    BY <1>3 DEF Sends, Sending, Down
  <2>1. wf.att = ckpt.att /\ ckpt'.att = ckpt.att /\ wf'.att = ckpt.att
    BY <1>3, <2>0 DEF Sends, SendInv, Kept
  <2>2. sent' \in [1..MaxAttempts -> Nat] /\ ckpt'.att \in Nat
    <3>1. /\ sent \in [1..MaxAttempts -> Nat] /\ ckpt'.att \in Nat
          /\ sent' = [sent EXCEPT ![wf.att] = sent[wf.att] + 1]
      BY <1>3, <2>0, <2>1 DEF Sends, SendInv
    <3>2. \A a \in 1..MaxAttempts : sent'[a] \in Nat
      BY <3>1
    <3>3. DOMAIN sent' = 1..MaxAttempts /\ sent' = [a \in 1..MaxAttempts |-> sent'[a]]
      BY <3>1
    <3>4. QED
      BY <3>1, <3>2, <3>3
  <2>3. ASSUME NEW a \in 1..MaxAttempts
        PROVE  sent'[a] <= 1 /\ (a > ckpt'.att => sent'[a] = 0)
    <3>1. CASE a = wf.att
      BY <1>3, <2>0, <2>1, <3>1 DEF Sends, SendInv
    <3>2. CASE a # wf.att
      BY <1>3, <2>0, <2>1, <3>2 DEF Sends, SendInv
    <3>3. QED
      BY <3>1, <3>2
  <2>4. QED
    BY <1>3, <2>0, <2>1, <2>2, <2>3 DEF Sends, SendInv
<1>4. CASE ToCommit
  BY <1>4 DEF ToCommit, SendInv, Running, Down, Kept, Sending
<1>5. CASE Finishes
  <2>1. CASE wf' = Dead /\ UNCHANGED <<ckpt, result>>
    <3>1. wf'.st = Down /\ ~Sending(wf')
      BY <2>1 DEF Dead, NoData, Sending, Down
    <3>2. QED
      BY <1>5, <2>1, <3>1 DEF Finishes, SendInv
  <2>2. CASE /\ wf'.att = wf.att /\ wf'.st \in Late \cup {"COMMIT"}
             /\ ckpt' = ckpt \/ ckpt'.att = wf.att
    <3>1. ~Sending(wf') /\ wf.st # Down /\ wf'.st # Down
      BY <1>5, <2>2 DEF Finishes, Late, Sending, Down
    <3>2. QED
      BY <1>5, <2>2, <3>1 DEF Finishes, SendInv
  <2>3. QED
    BY <1>5, <2>1, <2>2 DEF Finishes, Takes
<1>6. CASE Kill
  <2>1. wf' = Dead /\ result' = NoResult /\ UNCHANGED <<rq, ckpt, sent>>
    BY <1>6 DEF Kill
  <2>2. wf'.st = Down /\ ~Sending(wf')
    BY <2>1 DEF Dead, NoData, Sending, Down
  <2>3. QED
    BY <2>1, <2>2 DEF SendInv
<1>7. ASSUME NEW d, Keys \subseteq DOMAIN d, "st" \in DOMAIN d.inflight, wf' = Opened(d)
      PROVE  wf'.att = d.att /\ ~Sending(wf')
  BY <1>7 DEF Opened, Sending, Keys
<1>8. /\ Keys \subseteq DOMAIN wf /\ "st" \in DOMAIN wf.inflight
      /\ Keys \subseteq DOMAIN ckpt /\ "st" \in DOMAIN ckpt.inflight
  BY DEF LoopInv, ClearInv, SoundAt, Answered
<1>9. CASE Resume
  <2> DEFINE w == [wf EXCEPT !.st = ckpt.st]
  <2>1. /\ UNCHANGED <<rq, ckpt, sent>> /\ result # NoResult /\ result' = NoResult
        /\ wf' \in {Opened(w), Opened(ckpt)}
    BY <1>9 DEF Resume, NoResult
  <2>2. Keys \subseteq DOMAIN w /\ "st" \in DOMAIN w.inflight /\ w.att = wf.att
    BY <1>8 DEF Keys
  <2> HIDE DEF w
  <2>3. wf'.att \in {wf.att, ckpt.att} /\ ~Sending(wf')
    BY <1>7, <1>8, <2>1, <2>2
  <2>4. QED
    BY <2>1, <2>3 DEF SendInv
<1>10. CASE Restart
  <2>1. /\ UNCHANGED <<rq, result, sent>> /\ result = NoResult
        /\ \/ wf' = Opened(ckpt) /\ ckpt' = ckpt
           \/ ckpt = NoCkpt /\ wf' = NoData /\ ckpt' = NoCkpt
    BY <1>10 DEF Restart, SendInv
  <2>2. NoData.att = 0 /\ NoCkpt.att = 0 /\ ~Sending(NoData)
    BY DEF NoCkpt, NoData, Sending
  <2>3. wf'.att = ckpt'.att /\ ckpt'.att = ckpt.att /\ ~Sending(wf')
    BY <1>7, <1>8, <2>1, <2>2
  <2>4. QED
    BY <2>1, <2>3 DEF SendInv
<1>11. CASE ReopenValidation
  <2>1. /\ UNCHANGED <<rq, sent>> /\ result' = NoResult
        /\ wf' = ckpt' /\ ckpt' = [ckpt EXCEPT !.st = "VALIDATE"]
    BY <1>11 DEF ReopenValidation, world
  <2>2. ckpt'.att = ckpt.att /\ ckpt'.st = "VALIDATE"
    BY <1>8, <2>1 DEF Keys
  <2>3. QED
    BY <2>1, <2>2 DEF SendInv, Sending, Down
<1>12. CASE HumanDecides \/ OtherCommits \/ UNCHANGED vars
  BY <1>12 DEF HumanDecides, OtherCommits, vars, SendInv
<1>13. QED
  BY <1>1, <1>2, <1>3, <1>4, <1>5, <1>6, <1>9, <1>10, <1>11, <1>12,
     LoopSteps, FinishingSteps DEF Next

(* SendInv holds in every reachable state. *)
LEMMA SendAlways == Spec => []SendInv
<1>1. Init => SendInv
  BY BudgetAssumption DEF Init, SendInv, NoData, NoCkpt, Sending, Down
<1>2. QED
  BY <1>1, SendStep, LoopAlways, PTL DEF Spec

(* However often the process dies between the send of a proposal request   *)
(* and the checkpoint of its answer, the request goes to the provider at   *)
(* most once, as long as the caller continues from the last checkpoint.    *)
THEOREM ProposalsAreSentOnce == Spec => []SentOnce
<1>1. SendInv => SentOnce
  BY DEF SendInv, SentOnce
<1>2. QED
  BY <1>1, SendAlways, PTL

-----------------------------------------------------------------------------
(* Results are truthful                                                    *)

Sealed == Late \cup {"COMMIT"}
Stopped == {"STOP", "COMPLETE"}

(* A restart from d comes back to the commit, or knows of it. *)
Anchored(d) == d.st \in Sealed \/ (d.st \in Stopped /\ d.com = "accepted")

(* Data knows of a commit only if there is one, and after COMMIT does. *)
Known(d, r) ==
  /\ d.com = "accepted" => r.status = "accepted"
  /\ d.st \in Late => d.com = "accepted"

(* A commit that was made, or may be made next, is behind a checkpoint at  *)
(* COMMIT or later, from which a restart asks CommitService for the        *)
(* receipt again, or behind a terminal checkpoint that names the commit.   *)
TruthInv ==
  rq.caller = "checkpoint" =>
    /\ TruthfulResult
    /\ wf.st = Down => result = NoResult
    /\ Known(wf, receipt) /\ Known(ckpt, receipt)
    /\ receipt.status = "accepted" => Anchored(ckpt)
    /\ Resumable(result) /\ receipt.status = "accepted" => ckpt.st \in Sealed
    /\ result = NoResult /\ wf.st \in Sealed => ckpt.st \in Sealed
    /\ result = NoResult /\ receipt.status = "accepted" => wf.st = Down \/ Anchored(wf)
    /\ Resumable(result) /\ ckpt.st \in Late => wf.com = "accepted"
    /\ result.reopens => receipt.status # "accepted"

(* From a terminal state the loop only returns. *)
LEMMA StoppedReturns ==
  ASSUME Step, wf.st \in Stopped
  PROVE  Stop \/ Complete
<1>1. ~Propose
  BY DEF Propose, LoadBasis, PrepareCandidate, CurateAttemptPrepare, RecoverInflight,
         SendProposal, ProposalAnswered, InFlight, ProposalFails, ProposalValidate,
         ProposalRepairPolicy, ProposalRetry, ProposalHumanSuspend, ProposalHumanResume,
         Running, Stopped
<1>2. Repair => Stop
  BY DEF Repair, Normalize, Materialize, Validate, RepairPolicy, RefreshSourceContext,
         CuratorRepair, RiskClassify, Guardian, QuarantineCandidate, BudgetStop,
         BudgetSpent, Running, Stopped
<1>3. Publish => Complete
  BY DEF Publish, HumanSuspend, HumanResume, PrepareCommit, Commit, Project, FreshnessGate,
         Running, Stopped
<1>4. ~PortRaises
  BY DEF PortRaises, Running, Stopped
<1>5. QED
  BY <1>1, <1>2, <1>3, <1>4 DEF Step

(* No step makes a result false. *)
LEMMA TruthStep == LoopInv /\ TruthInv /\ [Next]_vars => TruthInv'
<1> SUFFICES ASSUME LoopInv, TruthInv, [Next]_vars, rq'.caller = "checkpoint"
             PROVE  TruthInv'
  BY DEF TruthInv
<1>0. /\ Keys \subseteq DOMAIN wf /\ Keys \subseteq DOMAIN ckpt
      /\ ~NoResult.reopens /\ ~Resumable(NoResult)
  BY DEF LoopInv, ClearInv, SoundAt, NoResult, Resumable
<1> USE DEF Sealed, Stopped, Anchored
<1>s. CASE Step /\ wf.st \in Stopped /\ wf.com = "accepted"
  <2>1. /\ wf' = wf /\ receipt' = receipt /\ result = NoResult /\ rq' = rq
        /\ \/ /\ wf.st = "STOP"
              /\ \/ result' = Res(wf, "FATAL") /\ ckpt' = ckpt
                 \/ result' = Res(wf, "REPLAN_REQUIRED") /\ ckpt' = Durable(wf, "STOP")
           \/ result' = Res(wf, "COMMITTED") /\ ckpt' = ckpt
    BY <1>s, StoppedReturns
       DEF Stop, Complete, Running, Ends, EndsSaved, Accepted, world
  <2>2. Durable(wf, "STOP").st = "STOP" /\ Durable(wf, "STOP").com = wf.com
    BY <1>0 DEF Durable, Keys
  <2>3. receipt.status = "accepted" /\ Anchored(ckpt')
    BY <1>s, <2>1, <2>2 DEF TruthInv, Known
  <2>4. Known(wf', receipt') /\ Known(ckpt', receipt')
    BY <1>s, <2>1, <2>2, <2>3 DEF TruthInv, Known, Late
  <2>5. result' # NoResult /\ ~Resumable(result') /\ ~result'.reopens
    BY <2>1 DEF Res, NoResult, Resumable
  <2>6. StoppedAgain' \/ result'.accepted
    <3>1. CASE wf.st = "STOP"
      <4>1. wf'.st = "STOP" /\ wf'.com = "accepted"
        BY <1>s, <2>1, <3>1
      <4>2. QED
        BY <4>1 DEF StoppedAgain, Accepted
    <3>2. CASE result' = Res(wf, "COMMITTED")
      BY <1>s, <3>2 DEF Res, Accepted
    <3>3. QED
      BY <2>1, <3>1, <3>2
  <2>7. wf'.st # Down
    BY <1>s, <2>1 DEF Down
  <2>8. QED
    BY <1>s, <2>1, <2>3, <2>4, <2>5, <2>6, <2>7 DEF TruthInv, TruthfulResult
<1>1. CASE Quiet /\ ~(wf.st \in Stopped /\ wf.com = "accepted")
  <2>1. rq.caller = "checkpoint" /\ receipt' = receipt /\ receipt.status # "accepted"
    BY <1>1 DEF Quiet, Calm, TruthInv, Final
  <2>2. Known(wf', receipt') /\ Known(ckpt', receipt')
    BY <1>1, <2>1 DEF Quiet, Kept, Known, TruthInv, Final
  <2>3. ~result'.accepted
    BY <1>1, <2>1 DEF Quiet, Honest, TruthInv, Known
  <2>4. ckpt'.st \notin Late
    BY <2>1, <2>2 DEF Known
  <2>5. QED
    BY <1>1, <2>1, <2>2, <2>3, <2>4 DEF Quiet, TruthInv, TruthfulResult, Final
<1>2. CASE ToSend \/ Sends
  <2>1. /\ rq.caller = "checkpoint" /\ UNCHANGED <<receipt, result>> /\ result = NoResult
        /\ wf.st \notin Sealed \cup Stopped \cup {Down}
        /\ wf'.com = wf.com /\ wf'.st = "CURATE_ATTEMPT_EXECUTE"
        /\ ckpt'.com = wf.com /\ ckpt'.st = "CURATE_ATTEMPT_EXECUTE"
    BY <1>2 DEF ToSend, Sends, Sending, Kept, Copied, Running, Late, Down
  <2>2. QED
    BY <1>0, <2>1 DEF TruthInv, TruthfulResult, Known, Late, Down
<1>3. CASE ToCommit
  <2>1. /\ rq.caller = "checkpoint" /\ UNCHANGED <<receipt, result>> /\ result = NoResult
        /\ wf.st \notin Sealed \cup Stopped \cup {Down}
        /\ wf'.com = wf.com /\ wf'.st = "COMMIT" /\ ckpt'.com = wf.com /\ ckpt'.st = "COMMIT"
    BY <1>3 DEF ToCommit, Kept, Running, Late, Down
  <2>2. QED
    BY <1>0, <2>1 DEF TruthInv, TruthfulResult, Known, Late, Down
<1>4. ASSUME NEW d, NEW s, NEW r, EndsSaved(d, s, r), Keys \subseteq DOMAIN d
      PROVE  wf' = d /\ result' = r /\ ckpt'.st = s /\ ckpt'.com = d.com
  <2>1. Durable(d, s).st = s /\ Durable(d, s).com = d.com
    BY <1>4 DEF Durable, Keys
  <2>2. QED
    BY <1>4, <2>1 DEF EndsSaved
<1>5. CASE Commit
  <2> DEFINE r == CommitReceipt(wf.req)
             d == [wf EXCEPT !.com = r.status]
  <2>1. rq.caller = "checkpoint" /\ result = NoResult /\ wf.st = "COMMIT" /\ ckpt.st \in Sealed
    BY <1>5 DEF Commit, Running, TruthInv
  <2>2. Keys \subseteq DOMAIN d /\ d.com = r.status /\ d.st = wf.st
    BY <1>0 DEF Keys
  <2>3. receipt.status = "accepted" => r = receipt
    BY DEF CommitReceipt, NoReceipt
  <2>4. receipt' \in {receipt, r}
    BY <1>5 DEF Commit
  <2>5. Known(wf, receipt') /\ Known(ckpt, receipt')
    BY <2>1, <2>3, <2>4 DEF Known, TruthInv
  <2>6. Known(wf, receipt) /\ Known(ckpt, receipt)
    BY <2>1 DEF TruthInv
  <2>7. CASE receipt' = r /\ r.status = "accepted" /\ Saved(d, "PROJECT")
    <3>1. wf' = [d EXCEPT !.st = "PROJECT"] /\ ckpt' = Durable(d, "PROJECT") /\ result' = NoResult
      BY <2>1, <2>7 DEF Saved
    <3> HIDE DEF d, r
    <3>2. /\ wf'.st = "PROJECT" /\ wf'.com = "accepted"
          /\ ckpt'.st = "PROJECT" /\ ckpt'.com = "accepted"
      BY <2>2, <2>7, <3>1 DEF Keys, Durable
    <3>3. QED
      BY <1>0, <2>7, <3>1, <3>2 DEF TruthInv, TruthfulResult, Known, Late, Down
  <2>8. CASE receipt' = r /\ r.status # "accepted" /\ EndsSaved(d, "STOP", Res(d, "REPLAN_REQUIRED"))
    <3> DEFINE y == Res(d, "REPLAN_REQUIRED")
    <3>1. y # NoResult /\ ~y.accepted /\ ~Resumable(y) /\ ~y.reopens
      BY DEF Res, NoResult, Resumable
    <3> HIDE DEF d, r, y
    <3>2. wf' = d /\ result' = y /\ ckpt'.st = "STOP" /\ ckpt'.com = d.com
      BY <1>4, <2>2, <2>8 DEF y
    <3>3. QED
      BY <2>1, <2>2, <2>8, <3>1, <3>2 DEF TruthInv, TruthfulResult, Known, Late, Down
  <2>9. CASE EndsSaved(wf, "COMMIT", Uncertain(wf))
    <3> DEFINE y == Uncertain(wf)
    <3>1. y.uncertain /\ y # NoResult /\ ~y.reopens
      BY DEF Res, Uncertain, NoResult
    <3> HIDE DEF d, r, y
    <3>2. wf' = wf /\ result' = y /\ ckpt'.st = "COMMIT" /\ ckpt'.com = wf.com
      BY <1>0, <1>4, <2>9 DEF y
    <3>3. QED
      BY <2>1, <2>5, <3>1, <3>2 DEF TruthInv, TruthfulResult, Known, Late, Down
  <2>10. CASE receipt' = r /\ r.status = "accepted" /\ wf' = Dead /\ UNCHANGED <<ckpt, result>>
    <3>1. Dead.st = Down /\ Dead.com = "none"
      BY DEF Dead, NoData
    <3> HIDE DEF d, r
    <3>2. QED
      BY <1>0, <2>1, <2>5, <2>10, <3>1 DEF TruthInv, TruthfulResult, Known, Late, Down
  <2>11. CASE receipt' = r /\ r.status = "accepted" /\ EndsSaved(d, "STOP", PostCommitFatal)
    <3> DEFINE y == PostCommitFatal
    <3>1. y # NoResult /\ y.accepted /\ ~Resumable(y) /\ ~y.reopens
      BY DEF PostCommitFatal, Res, NoResult, Resumable
    <3> HIDE DEF d, r, y
    <3>2. wf' = d /\ result' = y /\ ckpt'.st = "STOP" /\ ckpt'.com = d.com
      BY <1>4, <2>2, <2>11 DEF y
    <3>3. QED
      BY <2>1, <2>2, <2>11, <3>1, <3>2 DEF TruthInv, TruthfulResult, Known, Late, Down
  <2>12. QED
    BY <1>5, <2>7, <2>8, <2>9, <2>10, <2>11 DEF Commit
<1>6. CASE Project \/ FreshnessGate \/ (PortRaises /\ Running("PROJECT"))
  <2>1. /\ rq.caller = "checkpoint" /\ result = NoResult /\ wf.st \in Late /\ receipt' = receipt
        /\ wf.com = "accepted" /\ receipt.status = "accepted" /\ ckpt.st \in Sealed
    BY <1>6 DEF Project, FreshnessGate, PortRaises, Running, TruthInv, Late, Known
  <2>2. ASSUME NEW r, r # NoResult, r.accepted, ~r.reopens, wf' = wf, result' = r,
               \/ ckpt' = ckpt /\ ~Resumable(r)
               \/ \E s : /\ ckpt'.st = s /\ ckpt'.com = wf.com
                         /\ s \in Late \/ (s \in Stopped /\ ~Resumable(r))
        PROVE  TruthInv'
    BY <2>1, <2>2 DEF TruthInv, TruthfulResult, Known, Late, Down
  <2>3. CASE Continue(wf, "FRESHNESS_GATE")
    <3>1. wf' = [wf EXCEPT !.st = "FRESHNESS_GATE"] /\ UNCHANGED <<ckpt, result>>
      BY <2>3 DEF Continue
    <3>2. wf'.st = "FRESHNESS_GATE" /\ wf'.com = wf.com
      BY <1>0, <3>1 DEF Keys
    <3>3. QED
      BY <1>0, <2>1, <3>1, <3>2 DEF TruthInv, TruthfulResult, Known, Late, Down
  <2>4. /\ PostCommitFatal # NoResult /\ PostCommitFatal.accepted
        /\ ~PostCommitFatal.reopens /\ ~Resumable(PostCommitFatal)
    BY DEF PostCommitFatal, Res, NoResult, Resumable
  <2>5. \A s \in {"SUSPENDED", "COMMITTED"} :
          Res(wf, s) # NoResult /\ Res(wf, s).accepted /\ ~Res(wf, s).reopens
    BY <2>1 DEF Res, NoResult, Accepted
  <2>6. ~Resumable(Res(wf, "COMMITTED"))
    BY DEF Res, Resumable
  <2>7. \/ Continue(wf, "FRESHNESS_GATE")
        \/ EndsSaved(wf, "FRESHNESS_GATE", Res(wf, "SUSPENDED"))
        \/ \E s \in Late \cup {"STOP"} : EndsSaved(wf, s, PostCommitFatal)
        \/ Ends(wf, PostCommitFatal)
        \/ EndsSaved(wf, "COMPLETE", Res(wf, "COMMITTED"))
    BY <1>6, <2>1 DEF Project, FreshnessGate, PortRaises, WithCommit, Accepted, Running, Late
  <2>8. CASE EndsSaved(wf, "FRESHNESS_GATE", Res(wf, "SUSPENDED"))
    BY <1>0, <1>4, <2>2, <2>5, <2>8 DEF Late
  <2>9. CASE \E s \in Late \cup {"STOP"} : EndsSaved(wf, s, PostCommitFatal)
    BY <1>0, <1>4, <2>2, <2>4, <2>9
  <2>10. CASE Ends(wf, PostCommitFatal)
    BY <2>2, <2>4, <2>10 DEF Ends
  <2>11. CASE EndsSaved(wf, "COMPLETE", Res(wf, "COMMITTED"))
    BY <1>0, <1>4, <2>2, <2>5, <2>6, <2>11
  <2>12. QED
    BY <2>3, <2>7, <2>8, <2>9, <2>10, <2>11
<1>7. CASE Kill
  <2>1. wf' = Dead /\ result' = NoResult /\ UNCHANGED <<rq, ckpt, receipt>>
    BY <1>7 DEF Kill
  <2>2. Dead.st = Down /\ Dead.com = "none"
    BY DEF Dead, NoData
  <2>3. QED
    BY <1>0, <2>1, <2>2 DEF TruthInv, TruthfulResult, Known, Late, Down
<1>8. ASSUME NEW d, Keys \subseteq DOMAIN d PROVE Opened(d).st = d.st /\ Opened(d).com = d.com
  BY <1>8 DEF Opened, Keys
<1>9. CASE Resume
  <2> DEFINE w == [wf EXCEPT !.st = ckpt.st]
  <2>1. /\ UNCHANGED <<rq, ckpt, receipt>> /\ Resumable(result) /\ result' = NoResult
        /\ wf' \in {Opened(w), Opened(ckpt)}
    BY <1>9 DEF Resume, Resumable
  <2>2. Keys \subseteq DOMAIN w /\ w.st = ckpt.st /\ w.com = wf.com
    BY <1>0 DEF Keys
  <2> HIDE DEF w
  <2>3. wf'.st = ckpt.st /\ wf'.com \in {wf.com, ckpt.com} /\ (wf'.com = wf.com \/ wf'.com = ckpt.com)
    BY <1>0, <1>8, <2>1, <2>2
  <2>4. QED
    BY <1>0, <2>1, <2>3 DEF TruthInv, TruthfulResult, Known, Late, Down
<1>10. CASE Restart
  <2>1. /\ UNCHANGED <<rq, result, receipt>> /\ result = NoResult
        /\ \/ wf' = Opened(ckpt) /\ ckpt' = ckpt
           \/ ckpt = NoCkpt /\ wf' = NoData /\ ckpt' = NoCkpt
    BY <1>10 DEF Restart, TruthInv
  <2>2. NoData.st = "LOAD_BASIS" /\ NoData.com = "none" /\ NoCkpt.st = "none" /\ NoCkpt.com = "none"
    BY DEF NoCkpt, NoData
  <2>3. CASE wf' = Opened(ckpt) /\ ckpt' = ckpt
    <3>1. wf'.st = ckpt.st /\ wf'.com = ckpt.com
      BY <1>0, <1>8, <2>3
    <3>2. QED
      BY <1>0, <2>1, <2>3, <3>1 DEF TruthInv, TruthfulResult, Known, Late, Down
  <2>4. CASE ckpt = NoCkpt /\ wf' = NoData /\ ckpt' = NoCkpt
    BY <1>0, <2>1, <2>2, <2>4 DEF TruthInv, TruthfulResult, Known, Late, Down
  <2>5. QED
    BY <2>1, <2>3, <2>4
<1>11. CASE ReopenValidation
  <2>1. /\ UNCHANGED <<rq, receipt>> /\ result.reopens /\ result' = NoResult
        /\ wf' = ckpt' /\ ckpt' = [ckpt EXCEPT !.st = "VALIDATE"]
    BY <1>11 DEF ReopenValidation, world
  <2>2. ckpt'.com = ckpt.com /\ ckpt'.st = "VALIDATE"
    BY <1>0, <2>1 DEF Keys
  <2>3. QED
    BY <1>0, <2>1, <2>2 DEF TruthInv, TruthfulResult, Known, Late, Down
<1>12. CASE HumanDecides \/ OtherCommits \/ UNCHANGED vars
  BY <1>12 DEF HumanDecides, OtherCommits, vars, TruthInv, TruthfulResult, StoppedAgain,
               Accepted
<1>13. QED
  BY <1>s, <1>1, <1>2, <1>3, <1>5, <1>6, <1>7, <1>9, <1>10, <1>11, <1>12, LoopSteps DEF Next

(* TruthInv holds in every reachable state. *)
LEMMA TruthAlways == Spec => []TruthInv
<1>1. Init => TruthInv
  BY DEF Init, TruthInv, TruthfulResult, Known, NoData, NoCkpt, NoResult, NoReceipt, Late,
         Sealed, Resumable, Down
<1>2. QED
  BY <1>1, TruthStep, LoopAlways, PTL DEF Spec

(* What execute() returns says of the commit what is so, unless it says    *)
(* that it does not know: after a lost answer, a failed save, a kill       *)
(* between the commit and its checkpoint or between the last checkpoint    *)
(* and the use of the answer, and a failure after the commit; but for a    *)
(* workflow started again from the STOP checkpoint of such a failure.      *)
THEOREM ResultsAreTruthful == Spec => []TruthfulResult
<1>1. TruthInv => TruthfulResult
  BY DEF TruthInv, TruthfulResult
<1>2. QED
  BY <1>1, TruthAlways, PTL

-----------------------------------------------------------------------------
(* Checkpoints never go back                                               *)

Ahead(e, d) ==
  /\ d.cand.rev >= e.cand.rev /\ \A f \in DOMAIN NoUse : d.use[f] >= e.use[f]
  /\ e.com = "accepted" => d.com = "accepted"

(* The live data are never behind the checkpoint, so that the next one to  *)
(* be saved is not either.                                                 *)
AheadInv == rq.caller = "checkpoint" /\ wf.st # Down => Ahead(ckpt, wf)

Advances ==
  rq.caller = "checkpoint" =>
    /\ \A f \in DOMAIN NoUse : ckpt'.use[f] >= ckpt.use[f]
    /\ ckpt'.att >= ckpt.att /\ ckpt'.cand.rev >= ckpt.cand.rev
    /\ ckpt.com = "accepted" => ckpt'.com = "accepted"

(* Growing data stay ahead. *)
LEMMA AheadGrows ==
  ASSUME NEW e, NEW w, NEW d, UseOK(e), Ahead(e, w), Grown(w, d),
         w.com = "accepted" => d.com = "accepted"
  PROVE  Ahead(e, d)
<1>1. /\ e.use \in [DOMAIN NoUse -> Nat] /\ w.use \in [DOMAIN NoUse -> Nat]
      /\ d.use \in [DOMAIN NoUse -> Nat]
      /\ e.cand.rev \in Nat /\ w.cand.rev \in Nat /\ d.cand.rev \in Nat
  BY DEF Grown, UseOK, NoUse
<1>2. \A f \in DOMAIN NoUse : d.use[f] >= e.use[f]
  BY <1>1 DEF Ahead, Grown
<1>3. d.cand.rev >= e.cand.rev
  BY <1>1 DEF Ahead, Grown
<1>4. QED
  BY <1>2, <1>3 DEF Ahead

(* Data are not behind themselves. *)
LEMMA AheadSame ==
  ASSUME NEW e, NEW d, UseOK(e), Copied(e, d)
  PROVE  Ahead(e, d)
<1>1. e.use \in [DOMAIN NoUse -> Nat] /\ e.cand.rev \in Nat
  BY DEF UseOK, NoUse
<1>2. QED
  BY <1>1 DEF Copied, Ahead

(* No step takes a checkpoint back. *)
LEMMA AheadStep ==
  LoopInv /\ SendInv /\ TruthInv /\ AheadInv /\ [Next]_vars => Advances /\ AheadInv'
<1> SUFFICES ASSUME LoopInv, SendInv, TruthInv, AheadInv, [Next]_vars
             PROVE  Advances /\ AheadInv'
  OBVIOUS
<1>r. rq' = rq
  <2>1. Step => rq' = rq
    BY LoopSteps, FinishingSteps DEF Quiet, Calm, ToSend, Sends, ToCommit, Finishes
  <2>2. QED
    BY <2>1 DEF Next, HumanDecides, Kill, OtherCommits, Resume, Restart, ReopenValidation,
                world, vars
<1> SUFFICES ASSUME rq.caller = "checkpoint" PROVE Advances /\ AheadInv'
  BY <1>r DEF Advances, AheadInv
<1>0. /\ Keys \subseteq DOMAIN wf /\ Keys \subseteq DOMAIN ckpt /\ UseOK(wf) /\ UseOK(ckpt)
      /\ ckpt.att \in Nat
  BY DEF LoopInv, ClearInv, SoundAt, SendInv
<1>1. ASSUME wf.st # Down, NEW c, wf.com = "accepted" => c = "accepted",
             Grown(wf, wf'), wf'.com \in {wf.com, c},
             \/ ckpt' = ckpt
             \/ /\ Grown(wf, ckpt') /\ Copied(wf', ckpt')
                /\ ckpt'.att = wf.att \/ ckpt'.att = wf.att + 1
      PROVE  Advances /\ AheadInv'
  <2>1. Ahead(ckpt, wf) /\ wf.att = ckpt.att
    BY <1>1 DEF AheadInv, SendInv
  <2>2. Ahead(ckpt, wf')
    BY <1>0, <1>1, <2>1, AheadGrows
  <2>3. CASE ckpt' = ckpt
    <3>1. Ahead(ckpt, ckpt')
      BY <1>0, <2>3, AheadSame DEF Copied
    <3>2. QED
      BY <1>0, <2>2, <2>3, <3>1 DEF Advances, AheadInv, Ahead
  <2>4. CASE Grown(wf, ckpt') /\ Copied(wf', ckpt') /\ (ckpt'.att = wf.att \/ ckpt'.att = wf.att + 1)
    <3>1. Ahead(ckpt, ckpt')
      BY <2>2, <2>4 DEF Ahead, Copied
    <3>2. Ahead(ckpt', wf')
      <4>1. UseOK(ckpt') /\ Copied(ckpt', wf')
        BY <2>4 DEF Grown, Copied
      <4>2. QED
        BY <4>1, AheadSame
    <3>3. QED
      BY <1>0, <2>1, <2>4, <3>1, <3>2 DEF Advances, AheadInv, Ahead
  <2>5. QED
    BY <1>1, <2>3, <2>4
<1>2. CASE Quiet \/ ToSend \/ Sends \/ ToCommit
  <2>1. wf.st # Down /\ Grown(wf, wf') /\ wf'.com = wf.com
    BY <1>2 DEF Quiet, Calm, Final, ToSend, Sends, Sending, ToCommit, Running, Kept, Down
  <2>2. \/ ckpt' = ckpt
        \/ /\ Grown(wf, ckpt') /\ Copied(wf', ckpt')
           /\ ckpt'.att = wf.att \/ ckpt'.att = wf.att + 1
    BY <1>2 DEF Quiet, ToSend, Sends, ToCommit, Kept
  <2>3. QED
    BY <1>1, <2>1, <2>2
<1>3. ASSUME UNCHANGED ckpt, wf'.st = Down \/ Ahead(ckpt, wf')
      PROVE  Advances /\ AheadInv'
  <2>1. Ahead(ckpt, ckpt)
    BY <1>0, AheadSame DEF Copied
  <2>2. QED
    BY <1>0, <1>3, <2>1 DEF Advances, AheadInv, Ahead
<1>4. Dead.st = Down
  BY DEF Dead, NoData
<1>5. CASE Finishes
  <2> DEFINE c == CommitReceipt(wf.req).status
  <2>1. wf.com = "accepted" => c = "accepted"
    BY DEF TruthInv, Known, CommitReceipt, NoReceipt
  <2>2. wf.st # Down
    BY <1>5 DEF Finishes, Late, Down
  <2> HIDE DEF c
  <2>3. CASE wf' = Dead /\ UNCHANGED <<ckpt, result>>
    BY <1>3, <1>4, <2>3
  <2>4. CASE /\ Takes(wf, wf', c)
             /\ ckpt' = ckpt \/ (Takes(wf, ckpt', c) /\ Copied(wf', ckpt'))
    BY <1>1, <2>1, <2>2, <2>4 DEF Takes
  <2>5. QED
    BY <1>5, <2>3, <2>4 DEF Finishes, c
<1>6. CASE Kill
  BY <1>3, <1>4, <1>6 DEF Kill
<1>7. ASSUME NEW d, Keys \subseteq DOMAIN d PROVE Copied(d, Opened(d))
  BY <1>7 DEF Opened, Keys, Copied
<1>8. CASE Resume
  <2> DEFINE w == [wf EXCEPT !.st = ckpt.st]
  <2>1. /\ UNCHANGED ckpt /\ result # NoResult /\ wf' \in {Opened(w), Opened(ckpt)}
    BY <1>8 DEF Resume, NoResult
  <2>2. Keys \subseteq DOMAIN w /\ Copied(wf, w)
    BY <1>0 DEF Keys, Copied
  <2> HIDE DEF w
  <2>3. Copied(wf, wf') \/ Copied(ckpt, wf')
    BY <1>0, <1>7, <2>1, <2>2 DEF Copied
  <2>4. Ahead(ckpt, wf) /\ Ahead(ckpt, ckpt)
    BY <1>0, <2>1, AheadSame DEF AheadInv, SendInv, Copied
  <2>5. QED
    BY <1>3, <2>1, <2>3, <2>4 DEF Ahead, Copied
<1>9. CASE Restart
  <2>1. CASE wf' = Opened(ckpt) /\ ckpt' = ckpt
    BY <1>0, <1>3, <1>7, <2>1, AheadSame
  <2>2. CASE ckpt = NoCkpt /\ wf' = NoData /\ ckpt' = NoCkpt
    <3>1. Copied(ckpt, wf')
      BY <2>2 DEF Copied, NoCkpt, NoData
    <3>2. QED
      BY <1>0, <1>3, <2>2, <3>1, AheadSame
  <2>3. QED
    BY <1>9, <2>1, <2>2 DEF Restart
<1>10. CASE ReopenValidation
  <2>1. wf' = ckpt' /\ ckpt' = [ckpt EXCEPT !.st = "VALIDATE"]
    BY <1>10 DEF ReopenValidation
  <2>2. Copied(ckpt, ckpt') /\ ckpt'.att = ckpt.att
    BY <1>0, <2>1 DEF Copied, Keys
  <2>3. Ahead(ckpt, ckpt') /\ Ahead(ckpt', wf')
    BY <1>0, <2>1, <2>2, AheadSame DEF Copied, UseOK
  <2>4. QED
    BY <1>0, <2>2, <2>3 DEF Advances, AheadInv, Ahead
<1>11. CASE HumanDecides \/ OtherCommits \/ UNCHANGED vars
  <2>1. UNCHANGED <<wf, ckpt>>
    BY <1>11 DEF HumanDecides, OtherCommits, vars
  <2>2. QED
    BY <1>3, <2>1 DEF AheadInv
<1>12. QED
  BY <1>2, <1>5, <1>6, <1>8, <1>9, <1>10, <1>11, LoopSteps, FinishingSteps DEF Next

(* The durable usage, the number of attempts and the candidate revision    *)
(* never go down, and a commit recorded in a checkpoint is in every later  *)
(* one, whichever of the live and the saved data a resume continues from.  *)
THEOREM CheckpointsNeverGoBack == Spec => CheckpointsAdvance
<1>1. Init => AheadInv
  <2>1. UseOK(NoCkpt) /\ Copied(NoCkpt, NoData)
    BY DEF UseOK, Copied, NoCkpt, NoData, NoUse, NoCand
  <2>2. QED
    BY <2>1, AheadSame DEF Init, AheadInv
<1>2. Spec => [][Advances]_vars
  BY <1>1, AheadStep, LoopAlways, SendAlways, TruthAlways, PTL DEF Spec
<1>3. QED
  BY <1>2 DEF CheckpointsAdvance, Advances
=============================================================================
