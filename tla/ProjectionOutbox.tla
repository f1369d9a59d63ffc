--------------------------- MODULE ProjectionOutbox ---------------------------
(***************************************************************************)
(* The projection outbox (services/projection.py): each accepted commit    *)
(* leaves a row, in the commit's own transaction, from which some process  *)
(* derives R1, the search indexes and a snapshot.  A PROJECTION_FRESHNESS  *)
(* task (services/creative_runtime.py) drains the outbox of all projects,  *)
(* then asks whether the snapshot of its own commit is there.              *)
(*                                                                         *)
(* A claimed row has a lease.  The lease may run out under a process that  *)
(* is only slow, and a process may be killed between any two steps.        *)
(* complete() and fail() read the row without a lock and write it later in *)
(* a transaction that is READ COMMITTED: a claim may come in between.      *)
(***************************************************************************)
EXTENDS Integers, FiniteSets

CONSTANTS
  NumCommits,     \* commits, numbered in the order of created_at
  ProjectOf,      \* the project of each commit
  Workers,        \* processes that run projection tasks
  Wirings,        \* ways to give each of them the worker_id it claims with
  Poison,         \* commits whose projection can not be built
  MaxFailures,    \* bound: builds of other commits that fail
  MaxLate,        \* bound: leases that run out under a process at work
  MaxKills        \* bound: kills of a process

Commits == 1 .. NumCommits

Projects == {ProjectOf[c] : c \in Commits}

ASSUME OutboxAssumption ==
  /\ NumCommits \in Nat
  /\ DOMAIN ProjectOf = Commits
  /\ \A ids \in Wirings : DOMAIN ids = Workers
  /\ "none" \notin Workers
  /\ Poison \subseteq Commits
  /\ MaxFailures \in Nat /\ MaxLate \in Nat /\ MaxKills \in Nat

VARIABLES
  workerId,   \* the wiring of this deployment
  row,        \* the outbox row of each commit
  snapshots,  \* commits with a published DerivedSnapshot
  alias,      \* the commit behind the search aliases of each project, 0 for none
  ready,      \* commits whose freshness task SUCCEEDED
  worker,     \* what each process is doing, for which task, on which row,
              \* and whether complete() found a snapshot of the commit
  lapsed,     \* history: commits whose lease ran out under a process at work
  failures, late, kills

vars == <<workerId, row, snapshots, alias, ready, worker, lapsed, failures, late, kills>>

Idle == [pc |-> "idle", task |-> 0, c |-> 0, existing |-> FALSE]

Go(w, pc) == worker' = [worker EXCEPT ![w].pc = pc]

(* The task is settled WAITING_RETRY. *)
Retry(w) == worker' = [worker EXCEPT ![w] = Idle]

-----------------------------------------------------------------------------
(* CommitService.commit with _enqueue_projection.  The runs of a project   *)
(* commit on a basis they saw projected.                                   *)
Commit(c) ==
  /\ row[c].status = "none"
  /\ \A d \in Commits : d < c => row[d].status # "none"
  /\ \A d \in Commits : d < c /\ ProjectOf[d] = ProjectOf[c] => d \in ready
  /\ row' = [row EXCEPT ![c].status = "pending"]
  /\ UNCHANGED <<workerId, snapshots, alias, ready, worker, lapsed, failures, late, kills>>

(* A freshness task is claimed by a dispatcher, for the first time or after *)
(* a retry.  It has one current attempt at a time.                         *)
BeginTask(w, c) ==
  /\ worker[w].pc = "idle"
  /\ row[c].status # "none" /\ c \notin ready
  /\ \A v \in Workers : worker[v].task # c
  /\ worker' = [worker EXCEPT ![w] = [Idle EXCEPT !.pc = "claim", !.task = c]]
  /\ UNCHANGED <<workerId, row, snapshots, alias, ready, lapsed, failures, late, kills>>

-----------------------------------------------------------------------------
(* process_one                                                             *)

EligibleWhenCompleted(c) ==
  \/ row[c].status \in {"pending", "failed", "completed"}
  \/ row[c].status = "processing" /\ row[c].expired

EligibleNoReclaim(c) == row[c].status \in {"pending", "failed"}

EligibleNoLease(c) == row[c].status \in {"pending", "failed", "processing"}

Eligible(c) ==
  \/ row[c].status \in {"pending", "failed"}
  \/ row[c].status = "processing" /\ row[c].expired

(* claim_next: the oldest row, of whichever project. *)
ClaimNext(w) ==
  /\ worker[w].pc = "claim"
  /\ \E c \in Commits :
       /\ Eligible(c) /\ \A d \in Commits : d < c => ~Eligible(d)
       /\ row' = [row EXCEPT ![c] = [status |-> "processing", by |-> w, expired |-> FALSE]]
       /\ worker' = [worker EXCEPT ![w].pc = "build", ![w].c = c]
  /\ UNCHANGED <<workerId, snapshots, alias, ready, lapsed, failures, late, kills>>

NothingToClaim(w) ==
  /\ worker[w].pc = "claim"
  /\ \A c \in Commits : ~Eligible(c)
  /\ Go(w, "gate")
  /\ UNCHANGED <<workerId, row, snapshots, alias, ready, lapsed, failures, late, kills>>

(* build: R1 and the indexes of the commit, then the aliases of its        *)
(* project, moved to this commit whatever they pointed to.                 *)
Build(w) ==
  /\ worker[w].pc = "build" /\ worker[w].c \notin Poison
  /\ alias' = [alias EXCEPT ![ProjectOf[worker[w].c]] = worker[w].c]
  /\ Go(w, "built")
  /\ UNCHANGED <<workerId, row, snapshots, ready, lapsed, failures, late, kills>>

BuildFails(w) ==
  /\ worker[w].pc = "build"
  /\ worker[w].c \in Poison \/ failures < MaxFailures
  /\ failures' = IF worker[w].c \in Poison THEN failures ELSE failures + 1
  /\ Go(w, "failing")
  /\ UNCHANGED <<workerId, row, snapshots, alias, ready, lapsed, late, kills>>

(* _require_processing compares worker ids, not processes, and locks       *)
(* nothing.                                                                *)
Owned(w, c) ==
  /\ row[c].status = "processing"
  /\ workerId[row[c].by] = workerId[w]

Closed(status) == [status |-> status, by |-> "none", expired |-> FALSE]

(* complete() reads the row and looks for a snapshot of its commit, *)
CompleteReads(w) ==
  /\ worker[w].pc = "built" /\ Owned(w, worker[w].c)
  /\ worker' = [worker EXCEPT ![w].pc = "publishing",
                             ![w].existing = worker[w].c \in snapshots]
  /\ UNCHANGED <<workerId, row, snapshots, alias, ready, lapsed, failures, late, kills>>

(* and writes both, whatever became of the row since. *)
CompleteWrites(w) ==
  /\ worker[w].pc = "publishing"
  /\ worker[w].existing \/ worker[w].c \notin snapshots
  /\ row' = [row EXCEPT ![worker[w].c] = Closed("completed")]
  /\ snapshots' = snapshots \cup {worker[w].c}
  /\ worker' = [worker EXCEPT ![w].pc = "claim", ![w].c = 0]
  /\ UNCHANGED <<workerId, alias, ready, lapsed, failures, late, kills>>

(* The check refuses, or the insert meets a snapshot that appeared since   *)
(* (snapshot ids and source commits are unique).  Either is an exception   *)
(* like any other: fail() comes next.                                      *)
CompleteRefused(w) ==
  /\ \/ worker[w].pc = "built" /\ ~Owned(w, worker[w].c)
     \/ worker[w].pc = "publishing" /\ ~worker[w].existing /\ worker[w].c \in snapshots
  /\ Go(w, "failing")
  /\ UNCHANGED <<workerId, row, snapshots, alias, ready, lapsed, failures, late, kills>>

(* fail() reads the row and writes it later, *)
FailReads(w) ==
  /\ worker[w].pc = "failing" /\ Owned(w, worker[w].c)
  /\ Go(w, "withdrawing")
  /\ UNCHANGED <<workerId, row, snapshots, alias, ready, lapsed, failures, late, kills>>

FailWrites(w) ==
  /\ worker[w].pc = "withdrawing"
  /\ row' = [row EXCEPT ![worker[w].c] = Closed("failed")]
  /\ Retry(w)
  /\ UNCHANGED <<workerId, snapshots, alias, ready, lapsed, failures, late, kills>>

(* or is refused itself; either way process_all raises. *)
FailRefused(w) ==
  /\ worker[w].pc = "failing" /\ ~Owned(w, worker[w].c)
  /\ Retry(w)
  /\ UNCHANGED <<workerId, row, snapshots, alias, ready, lapsed, failures, late, kills>>

-----------------------------------------------------------------------------
(* FreshnessGate.evaluate, as advance() calls it: every commit in the      *)
(* request is the task's basis, so that only the snapshot can be missing.  *)
Gate(w) ==
  /\ worker[w].pc = "gate"
  /\ ready' = IF worker[w].task \in snapshots THEN ready \cup {worker[w].task} ELSE ready
  /\ worker' = [worker EXCEPT ![w] = Idle]
  /\ UNCHANGED <<workerId, row, snapshots, alias, lapsed, failures, late, kills>>

Kill(w) ==
  /\ worker[w].pc # "idle"
  /\ kills < MaxKills
  /\ kills' = kills + 1
  /\ worker' = [worker EXCEPT ![w] = Idle]
  /\ UNCHANGED <<workerId, row, snapshots, alias, ready, lapsed, failures, late>>

(* Somebody is still working on the claim. *)
AtWork(c) == worker[row[c].by].c = c

LeaseExpires(c) ==
  /\ row[c].status = "processing" /\ ~row[c].expired
  /\ row' = [row EXCEPT ![c].expired = TRUE]
  /\ IF AtWork(c)
       THEN late < MaxLate /\ late' = late + 1 /\ lapsed' = lapsed \cup {c}
       ELSE UNCHANGED <<late, lapsed>>
  /\ UNCHANGED <<workerId, snapshots, alias, ready, worker, failures, kills>>

-----------------------------------------------------------------------------
Init ==
  /\ workerId \in Wirings
  /\ row = [c \in Commits |-> [status |-> "none", by |-> "none", expired |-> FALSE]]
  /\ snapshots = {}
  /\ alias = [p \in Projects |-> 0]
  /\ ready = {}
  /\ worker = [w \in Workers |-> Idle]
  /\ lapsed = {} /\ failures = 0 /\ late = 0 /\ kills = 0

WorkStep(w) ==
  \/ ClaimNext(w) \/ NothingToClaim(w)
  \/ Build(w) \/ BuildFails(w)
  \/ CompleteReads(w) \/ CompleteWrites(w) \/ CompleteRefused(w)
  \/ FailReads(w) \/ FailWrites(w) \/ FailRefused(w)
  \/ Gate(w)

Next ==
  \/ \E c \in Commits : Commit(c) \/ LeaseExpires(c) \/ \E w \in Workers : BeginTask(w, c)
  \/ \E w \in Workers : WorkStep(w) \/ Kill(w)

AllReady == ready = Commits /\ \A w \in Workers : worker[w].pc = "idle"

Finished == AllReady /\ UNCHANGED vars

(* A process that is not killed goes on, the lease of a dead one runs out, *)
(* and a task that waits for a retry gets it again and again.              *)
Fairness ==
  /\ \A w \in Workers : WF_vars(WorkStep(w))
  /\ \A c \in Commits : /\ WF_vars(LeaseExpires(c))
                        /\ SF_vars(\E w \in Workers : BeginTask(w, c))

Spec == Init /\ [][Next \/ Finished]_vars /\ Fairness

-----------------------------------------------------------------------------
(* Properties                                                              *)

(* Rows, processes and counters have their types, and only a row in        *)
(* processing has an owner.                                                *)
TypeOK ==
  /\ workerId \in Wirings
  /\ row \in [Commits -> [status : {"none", "pending", "processing", "completed", "failed"},
                          by : Workers \cup {"none"}, expired : BOOLEAN]]
  /\ \A c \in Commits : row[c].status = "processing" <=> row[c].by # "none"
  /\ snapshots \subseteq Commits /\ ready \subseteq Commits
  /\ alias \in [Projects -> 0 .. NumCommits]
  /\ worker \in [Workers -> [pc : {"idle", "claim", "build", "built", "publishing",
                                   "failing", "withdrawing", "gate"},
                             task : 0 .. NumCommits, c : 0 .. NumCommits,
                             existing : BOOLEAN]]
  /\ lapsed \subseteq Commits
  /\ failures \in 0 .. MaxFailures /\ late \in 0 .. MaxLate /\ kills \in 0 .. MaxKills

(* A completed row and a READY task have a published snapshot, whoever     *)
(* wrote over whose claim.  And no failure of a slow or killed process     *)
(* takes a completed row back, unless the lease of this row once ran out   *)
(* under a process at work: its fail() then writes over the success of     *)
(* the next one.                                                           *)
PublishedForGood ==
  /\ ready \subseteq snapshots
  /\ \A c \in Commits : row[c].status = "completed" => c \in snapshots
  /\ \A c \in snapshots \ lapsed : row[c].status = "completed"

(* "projection outbox lease is owned by another worker": only the process  *)
(* that claimed a row last completes or fails it, also where all processes *)
(* have the same worker id, as long as its lease did not run out under a   *)
(* process at work.  It is the lease that protects a claim; neither the    *)
(* ids nor the check in complete() and fail() does.                        *)
ClaimRespected ==
  [][\A c \in Commits \ lapsed : \A w \in Workers :
       /\ row[c].status = "processing" /\ row'[c].status \in {"completed", "failed"}
       /\ worker[w] # worker'[w]
       => row[c].by = w]_vars

(* Every commit whose projection can be built is READY in the end, in      *)
(* spite of kills, lost leases and failed builds.  Where the processes     *)
(* share a worker id, a lost lease may go on for ever: the one that lost   *)
(* it fails the row under the one that claimed it next, which then does    *)
(* the same.                                                               *)
SharedIds == \E v, w \in Workers : v # w /\ workerId[v] = workerId[w]

EveryCommitReady ==
  \A c \in Commits \ Poison :
    row[c].status # "none" ~> (c \in ready \/ (SharedIds /\ lapsed # {}))
=============================================================================
