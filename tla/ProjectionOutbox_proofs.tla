----------------------- MODULE ProjectionOutbox_proofs -----------------------
(***************************************************************************)
(* The safety of the projection outbox, for any number of commits,         *)
(* projects and processes, and any number of lost leases and kills.        *)
(***************************************************************************)
EXTENDS ProjectionOutbox, TLAPS

(* Where a process has a row *)
Holding == {"build", "built", "publishing", "failing", "withdrawing"}

(* A process that holds a row, or a task, knows which. *)
Held ==
  \A w \in Workers :
    /\ worker[w].pc \in Holding => worker[w].c \in Commits
    /\ worker[w].pc # "idle" => worker[w].task \in Commits

(* As long as no lease of a row ran out under a process at work, a process *)
(* at work on the row is the one that claimed it last, and its lease runs. *)
Claimed ==
  \A c \in Commits \ lapsed : \A w \in Workers :
    worker[w].c = c => row[c].status = "processing" /\ row[c].by = w /\ ~row[c].expired

OutboxInv == TypeOK /\ Held /\ Claimed /\ PublishedForGood

-----------------------------------------------------------------------------
(* Records                                                                 *)

Statuses == {"none", "pending", "processing", "completed", "failed"}

Rows == [status : Statuses, by : Workers \cup {"none"}, expired : BOOLEAN]

Pcs == {"idle", "claim", "build", "built", "publishing", "failing", "withdrawing", "gate"}

Places == [pc : Pcs, task : 0 .. NumCommits, c : 0 .. NumCommits, existing : BOOLEAN]

(* Changed columns of a row, and changed fields of a process. *)
LEMMA RowFields ==
  ASSUME NEW old \in Rows
  PROVE  /\ \A v \in Statuses : [old EXCEPT !.status = v] \in Rows
         /\ \A v \in BOOLEAN : [old EXCEPT !.expired = v] \in Rows
BY Zenon DEF Rows

(* A place with one field written is a place. *)
LEMMA PlaceFields ==
  ASSUME NEW old \in Places
  PROVE  /\ \A v \in Pcs : [old EXCEPT !.pc = v] \in Places
         /\ \A v \in 0 .. NumCommits : [old EXCEPT !.c = v] \in Places
         /\ \A v \in 0 .. NumCommits : [old EXCEPT !.task = v] \in Places
         /\ \A v \in BOOLEAN : [old EXCEPT !.existing = v] \in Places
BY Zenon DEF Places

-----------------------------------------------------------------------------
(* A step of a process                                                     *)

(* Process w goes to pc, with task k and row c. *)
Turn(w, pc, k, c) ==
  \E s \in Places : /\ worker' = [worker EXCEPT ![w] = s]
                    /\ s.pc = pc /\ s.task = k /\ s.c = c

(* A turn of one worker leaves the commits it and the others hold in       *)
(* range.                                                                  *)
LEMMA TurnFacts ==
  ASSUME TypeOK, Held, NEW w \in Workers, NEW pc, NEW k, NEW c, Turn(w, pc, k, c),
         pc \in Holding => c \in Commits,
         pc # "idle" => k \in Commits
  PROVE  /\ worker' \in [Workers -> Places] /\ Held' /\ worker'[w].c = c
         /\ \A v \in Workers \ {w} : worker'[v] = worker[v]
<1>1. PICK s \in Places : /\ worker' = [worker EXCEPT ![w] = s]
                          /\ s.pc = pc /\ s.task = k /\ s.c = c
  BY DEF Turn
<1>2. worker \in [Workers -> Places]
  BY DEF TypeOK, Places, Pcs
<1>3. /\ worker' \in [Workers -> Places] /\ worker'[w] = s
      /\ \A v \in Workers \ {w} : worker'[v] = worker[v]
  BY <1>1, <1>2
<1>4. Held'
  BY <1>1, <1>3 DEF Held
<1>5. QED
  BY <1>1, <1>3, <1>4

(* Going on is a turn, *)
LEMMA GoTurn ==
  ASSUME TypeOK, NEW w \in Workers, NEW pc \in Pcs, Go(w, pc)
  PROVE  Turn(w, pc, worker[w].task, worker[w].c)
<1> DEFINE s == [worker[w] EXCEPT !.pc = pc]
<1>2. worker[w] \in Places
  BY DEF TypeOK, Places, Pcs
<1>3. s \in Places
  BY <1>2, PlaceFields
<1>4. s.pc = pc /\ s.task = worker[w].task /\ s.c = worker[w].c
  BY <1>2 DEF Places
<1>5. worker' = [worker EXCEPT ![w] = s]
  BY DEF Go
<1> HIDE DEF s
<1>6. QED
  BY <1>3, <1>4, <1>5 DEF Turn

(* and so is becoming idle. *)
LEMMA IdleTurn ==
  ASSUME NEW w \in Workers, worker' = [worker EXCEPT ![w] = Idle]
  PROVE  Turn(w, "idle", 0, 0)
<1>1. 0 \in 0 .. NumCommits
  BY OutboxAssumption
<1>2. Idle \in Places /\ Idle.pc = "idle" /\ Idle.task = 0 /\ Idle.c = 0
  BY <1>1 DEF Idle, Places, Pcs
<1>3. QED
  BY <1>2 DEF Turn

(* A process goes on with its next row, or with none. *)
LEMMA RowTurn ==
  ASSUME TypeOK, NEW w \in Workers, NEW pc \in {"claim", "build"}, NEW c \in 0 .. NumCommits,
         worker' = [worker EXCEPT ![w].pc = pc, ![w].c = c]
  PROVE  Turn(w, pc, worker[w].task, c)
<1> DEFINE one == [worker[w] EXCEPT !.pc = pc]
           s == [one EXCEPT !.c = c]
<1>1. worker[w] \in Places
  BY DEF TypeOK, Places, Pcs
<1>2. one \in Places
  BY <1>1, PlaceFields DEF Pcs
<1>3. s \in Places
  BY <1>2, PlaceFields
<1>4. s.pc = pc /\ s.task = worker[w].task /\ s.c = c
  BY <1>1 DEF Places
<1>5. worker' = [worker EXCEPT ![w] = s]
  BY DEF TypeOK
<1> HIDE DEF s, one
<1>6. QED
  BY <1>3, <1>4, <1>5 DEF Turn

(* complete() has read the row. *)
LEMMA ReadTurn ==
  ASSUME TypeOK, NEW w \in Workers, CompleteReads(w)
  PROVE  Turn(w, "publishing", worker[w].task, worker[w].c)
<1> DEFINE one == [worker[w] EXCEPT !.pc = "publishing"]
           s == [one EXCEPT !.existing = worker[w].c \in snapshots]
<1>1. worker[w] \in Places
  BY DEF TypeOK, Places, Pcs
<1>2. one \in Places
  BY <1>1, PlaceFields DEF Pcs
<1>3. s \in Places
  <2>1. (worker[w].c \in snapshots) \in BOOLEAN
    OBVIOUS
  <2>2. QED
    BY <1>2, <2>1, PlaceFields, Zenon
<1>4. s.pc = "publishing" /\ s.task = worker[w].task /\ s.c = worker[w].c
  BY <1>1 DEF Places
<1>5. worker' = [worker EXCEPT ![w] = s]
  BY DEF TypeOK, CompleteReads
<1> HIDE DEF s, one
<1>6. QED
  BY <1>3, <1>4, <1>5 DEF Turn

-----------------------------------------------------------------------------
(* Every step preserves the invariant. *)
LEMMA OutboxStep == OutboxInv /\ [Next \/ Finished]_vars => OutboxInv'
<1> SUFFICES ASSUME OutboxInv, [Next \/ Finished]_vars PROVE OutboxInv'
  OBVIOUS
<1>0. /\ TypeOK /\ Held /\ Claimed /\ PublishedForGood /\ workerId \in Wirings
      /\ row \in [Commits -> Rows] /\ worker \in [Workers -> Places]
      /\ \A w \in Workers : worker[w] \in Places /\ worker[w].task \in 0 .. NumCommits
      /\ \A c \in Commits : row[c] \in Rows
      /\ NumCommits \in Nat /\ 0 \in 0 .. NumCommits /\ "none" \notin Workers
      /\ Commits \subseteq 0 .. NumCommits /\ 0 \notin Commits
      /\ snapshots \subseteq Commits /\ lapsed \subseteq Commits
  BY OutboxAssumption DEF OutboxInv, TypeOK, Rows, Places, Pcs, Statuses, Commits
(* The row of c is replaced. *)
<1>1. ASSUME NEW c \in Commits, NEW r \in Rows, row' = [row EXCEPT ![c] = r],
             r.status = "processing" <=> r.by # "none",
             r.status = "completed" => c \in snapshots',
             c \in snapshots' \ lapsed' => r.status = "completed",
             snapshots \subseteq snapshots', snapshots' \subseteq snapshots \cup {c},
             lapsed \subseteq lapsed', lapsed' \subseteq lapsed \cup {c},
             Held', Claimed', worker' \in [Workers -> Places],
             UNCHANGED <<workerId, alias, ready, failures, kills>>, late' \in 0 .. MaxLate
      PROVE  OutboxInv'
  <2>1. /\ row' \in [Commits -> Rows] /\ row'[c] = r
        /\ \A d \in Commits \ {c} : row'[d] = row[d]
    BY <1>0, <1>1
  <2>2. \A d \in Commits : row'[d].status = "processing" <=> row'[d].by # "none"
    BY <1>0, <1>1, <2>1 DEF TypeOK
  <2>3. snapshots' \subseteq Commits /\ lapsed' \subseteq Commits
    BY <1>0, <1>1
  <2>4. TypeOK'
    BY <1>0, <1>1, <2>1, <2>2, <2>3 DEF TypeOK, Rows, Places, Pcs, Statuses
  <2>5. PublishedForGood'
    BY <1>0, <1>1, <2>1, <2>3 DEF PublishedForGood
  <2>6. QED
    BY <1>1, <2>4, <2>5 DEF OutboxInv
(* Nothing but a process moves, and it takes no row. *)
<1>2. ASSUME Held', worker' \in [Workers -> Places], UNCHANGED <<workerId, row, snapshots, lapsed>>,
             \A w \in Workers : worker'[w].c \in {0, worker[w].c},
             ready' \subseteq snapshots, alias' \in [Projects -> 0 .. NumCommits],
             failures' \in 0 .. MaxFailures, late' = late, kills' \in 0 .. MaxKills
      PROVE  OutboxInv'
  <2>1. TypeOK'
    BY <1>0, <1>2 DEF TypeOK, Places, Pcs
  <2>2. PublishedForGood'
    BY <1>0, <1>2 DEF PublishedForGood
  <2>3. Claimed'
    BY <1>0, <1>2 DEF Claimed
  <2>4. QED
    BY <1>2, <2>1, <2>2, <2>3 DEF OutboxInv
<1>3. /\ alias \in [Projects -> 0 .. NumCommits] /\ failures \in 0 .. MaxFailures
      /\ late \in 0 .. MaxLate /\ kills \in 0 .. MaxKills /\ ready \subseteq snapshots
  BY <1>0 DEF TypeOK, PublishedForGood
<1>4. ASSUME NEW c \in Commits, Commit(c) PROVE OutboxInv'
  <2> DEFINE r == [row[c] EXCEPT !.status = "pending"]
  <2>1. r \in Rows
    BY <1>0, RowFields DEF Statuses
  <2>2. row[c].status = "none" /\ row[c].by = "none"
    BY <1>0, <1>4 DEF Commit, TypeOK
  <2>3. r.status = "pending" /\ r.by = row[c].by
    BY <1>0 DEF Rows
  <2>4. row' = [row EXCEPT ![c] = r] /\ UNCHANGED <<worker, snapshots, lapsed>>
    BY <1>4 DEF Commit
  <2> HIDE DEF r
  <2>5. Held' /\ worker' \in [Workers -> Places]
    BY <1>0, <2>4 DEF Held
  <2>6. Claimed'
    BY <1>0, <2>2, <2>4 DEF Claimed
  <2>7. c \notin snapshots \ lapsed
    BY <1>0, <2>2 DEF PublishedForGood
  <2>8. QED
    BY <1>1, <1>3, <1>4, <2>1, <2>2, <2>3, <2>4, <2>5, <2>6, <2>7 DEF Commit
<1>5. ASSUME NEW c \in Commits, LeaseExpires(c) PROVE OutboxInv'
  <2> DEFINE r == [row[c] EXCEPT !.expired = TRUE]
  <2>1. r \in Rows
    BY <1>0, RowFields
  <2>2. row[c].status = "processing" /\ row[c].by # "none"
    BY <1>0, <1>5 DEF LeaseExpires, TypeOK
  <2>3. r.status = row[c].status /\ r.by = row[c].by
    BY <1>0 DEF Rows
  <2>4. row' = [row EXCEPT ![c] = r] /\ UNCHANGED <<worker, snapshots>>
    BY <1>5 DEF LeaseExpires
  <2>5. /\ lapsed' = IF AtWork(c) THEN lapsed \cup {c} ELSE lapsed
    BY <1>5 DEF LeaseExpires
  <2> HIDE DEF r
  <2>6. Held' /\ worker' \in [Workers -> Places]
    BY <1>0, <2>4 DEF Held
  <2>7. Claimed'
    <3> SUFFICES ASSUME NEW d \in Commits \ lapsed', NEW w \in Workers, worker'[w].c = d
                 PROVE  row'[d].status = "processing" /\ row'[d].by = w /\ ~row'[d].expired
      BY DEF Claimed
    <3>1. /\ d \notin lapsed /\ worker[w].c = d
          /\ row[d].status = "processing" /\ row[d].by = w /\ ~row[d].expired
      BY <1>0, <2>4, <2>5 DEF Claimed
    <3>2. d # c
      BY <2>5, <3>1 DEF AtWork
    <3>3. QED
      BY <1>0, <2>4, <3>1, <3>2
  <2>8. late' \in 0 .. MaxLate
    BY <1>3, <1>5, OutboxAssumption DEF LeaseExpires
  <2>9. c \in snapshots => c \in lapsed
    BY <1>0, <2>2 DEF PublishedForGood
  <2>10. QED
    BY <1>1, <1>5, <2>1, <2>2, <2>3, <2>4, <2>5, <2>6, <2>7, <2>8, <2>9 DEF LeaseExpires
<1>6. ASSUME NEW w \in Workers, NEW c \in Commits, BeginTask(w, c) PROVE OutboxInv'
  <2> DEFINE one == [Idle EXCEPT !.pc = "claim"]
             s == [one EXCEPT !.task = c]
  <2>1. Idle \in Places /\ Idle.c = 0
    BY <1>0 DEF Idle, Places, Pcs
  <2>2. s \in Places /\ s.pc = "claim" /\ s.task = c /\ s.c = 0
    <3>1. one \in Places
      BY <2>1, PlaceFields DEF Pcs
    <3>2. s \in Places
      BY <1>0, <3>1, PlaceFields
    <3>3. QED
      BY <3>2 DEF Idle
  <2>3. worker' = [worker EXCEPT ![w] = s]
    BY <1>6 DEF BeginTask
  <2> HIDE DEF s, one
  <2>4. Turn(w, "claim", c, 0)
    BY <2>2, <2>3 DEF Turn
  <2>5. /\ Held' /\ worker' \in [Workers -> Places]
        /\ \A v \in Workers : worker'[v].c \in {0, worker[v].c}
    BY <1>0, <2>4, TurnFacts DEF Holding
  <2>6. QED
    BY <1>2, <1>3, <1>6, <2>5 DEF BeginTask
<1>7. ASSUME NEW w \in Workers, ClaimNext(w) PROVE OutboxInv'
  <2>1. PICK c \in Commits :
          /\ Eligible(c)
          /\ row' = [row EXCEPT ![c] = [status |-> "processing", by |-> w, expired |-> FALSE]]
          /\ worker' = [worker EXCEPT ![w].pc = "build", ![w].c = c]
    BY <1>7 DEF ClaimNext
  <2> DEFINE r == [status |-> "processing", by |-> w, expired |-> FALSE]
  <2>2. r \in Rows /\ r.status = "processing" /\ r.by = w /\ r.by # "none" /\ ~r.expired
    BY <1>0 DEF Rows, Statuses
  <2>3. row[c].status # "completed"
    BY <2>1 DEF Eligible
  <2>4. worker[w].task \in Commits
    BY <1>0, <1>7 DEF ClaimNext, Held
  <2>5. Turn(w, "build", worker[w].task, c)
    BY <1>0, <2>1, RowTurn
  <2>6. /\ Held' /\ worker' \in [Workers -> Places] /\ worker'[w].c = c
        /\ \A v \in Workers \ {w} : worker'[v] = worker[v]
    BY <1>0, <2>4, <2>5, TurnFacts
  <2>7. row' = [row EXCEPT ![c] = r] /\ UNCHANGED <<snapshots, lapsed>>
    BY <1>7, <2>1 DEF ClaimNext
  <2> HIDE DEF r
  <2>8. c \notin lapsed => \A v \in Workers : worker[v].c # c
    BY <1>0, <2>1 DEF Claimed, Eligible
  <2>9. Claimed'
    BY <1>0, <2>2, <2>6, <2>7, <2>8 DEF Claimed
  <2>10. c \notin snapshots \ lapsed
    BY <1>0, <2>3 DEF PublishedForGood
  <2>11. QED
    BY <1>1, <1>3, <1>7, <2>2, <2>6, <2>7, <2>9, <2>10 DEF ClaimNext
<1>8. ASSUME NEW w \in Workers,
             \/ NothingToClaim(w) \/ Build(w) \/ BuildFails(w)
             \/ CompleteReads(w) \/ CompleteRefused(w) \/ FailReads(w)
      PROVE  OutboxInv'
  <2>1. worker[w].task \in Commits
    BY <1>0, <1>8 DEF NothingToClaim, Build, BuildFails, CompleteReads, CompleteRefused,
                      FailReads, Held
  <2>2. \E pc \in Pcs : /\ Turn(w, pc, worker[w].task, worker[w].c) /\ pc # "idle"
                        /\ pc \in Holding => worker[w].c \in Commits
    <3>1. CASE NothingToClaim(w)
      <4>1. "gate" \in Pcs /\ "gate" # "idle" /\ "gate" \notin Holding
        BY DEF Pcs, Holding
      <4>2. Turn(w, "gate", worker[w].task, worker[w].c)
        BY <1>0, <3>1, <4>1, GoTurn DEF NothingToClaim
      <4>3. QED
        BY <4>1, <4>2
    <3>2. CASE CompleteReads(w)
      <4>1. "publishing" \in Pcs /\ "publishing" # "idle" /\ worker[w].c \in Commits
        BY <1>0, <3>2 DEF Pcs, Holding, Held, CompleteReads
      <4>2. Turn(w, "publishing", worker[w].task, worker[w].c)
        BY <1>0, <3>2, ReadTurn
      <4>3. QED
        BY <4>1, <4>2
    <3>3. CASE Build(w) \/ BuildFails(w) \/ CompleteRefused(w) \/ FailReads(w)
      <4>1. PICK pc \in {"built", "failing", "withdrawing"} : Go(w, pc)
        BY <3>3 DEF Build, BuildFails, CompleteRefused, FailReads
      <4>2. pc \in Pcs /\ pc # "idle" /\ worker[w].c \in Commits
        BY <1>0, <3>3 DEF Pcs, Holding, Held, Build, BuildFails, CompleteRefused, FailReads
      <4>3. Turn(w, pc, worker[w].task, worker[w].c)
        BY <1>0, <4>1, <4>2, GoTurn
      <4>4. QED
        BY <4>2, <4>3
    <3>4. QED
      BY <1>8, <3>1, <3>2, <3>3
  <2>3. /\ Held' /\ worker' \in [Workers -> Places]
        /\ \A v \in Workers : worker'[v].c \in {0, worker[v].c}
    <3>1. PICK pc \in Pcs : /\ Turn(w, pc, worker[w].task, worker[w].c) /\ pc # "idle"
                            /\ pc \in Holding => worker[w].c \in Commits
      BY <2>2
    <3>2. QED
      BY <1>0, <2>1, <3>1, TurnFacts
  <2>4. alias' \in [Projects -> 0 .. NumCommits]
    <3>1. CASE Build(w)
      <4>1. worker[w].c \in 0 .. NumCommits
        BY <1>0 DEF Places
      <4>2. QED
        BY <1>3, <3>1, <4>1 DEF Build
    <3>2. CASE ~Build(w)
      BY <1>3, <1>8, <3>2 DEF NothingToClaim, BuildFails, CompleteReads, CompleteRefused, FailReads
    <3>3. QED
      BY <3>1, <3>2
  <2>5. failures' \in 0 .. MaxFailures
    BY <1>3, <1>8, OutboxAssumption
    DEF NothingToClaim, Build, BuildFails, CompleteReads, CompleteRefused, FailReads
  <2>6. UNCHANGED <<workerId, row, snapshots, lapsed, ready, late, kills>>
    BY <1>8 DEF NothingToClaim, Build, BuildFails, CompleteReads, CompleteRefused, FailReads
  <2>7. QED
    BY <1>2, <1>3, <2>3, <2>4, <2>5, <2>6
<1>9. ASSUME NEW w \in Workers, CompleteWrites(w) PROVE OutboxInv'
  <2> DEFINE c == worker[w].c
             r == Closed("completed")
  <2>1. c \in Commits /\ worker[w].task \in Commits
    BY <1>0, <1>9 DEF CompleteWrites, Held, Holding
  <2>2. r \in Rows /\ r.status = "completed" /\ r.by = "none"
    BY DEF Rows, Statuses, Closed
  <2>3. Turn(w, "claim", worker[w].task, 0)
    BY <1>0, <1>9, RowTurn DEF CompleteWrites
  <2>4. /\ Held' /\ worker' \in [Workers -> Places] /\ worker'[w].c = 0
        /\ \A v \in Workers \ {w} : worker'[v] = worker[v]
    BY <1>0, <2>1, <2>3, TurnFacts DEF Holding
  <2>5. row' = [row EXCEPT ![c] = r] /\ snapshots' = snapshots \cup {c}
        /\ UNCHANGED <<workerId, alias, ready, lapsed, failures, late, kills>>
    BY <1>9 DEF CompleteWrites
  <2>6. c \notin lapsed => row[c].by = w
    BY <1>0, <2>1 DEF Claimed
  <2> HIDE DEF c, r
  <2>7. Claimed'
    <3> SUFFICES ASSUME NEW d \in Commits \ lapsed, NEW v \in Workers, worker'[v].c = d
                 PROVE  row'[d].status = "processing" /\ row'[d].by = v /\ ~row'[d].expired
      BY <2>5 DEF Claimed
    <3>1. /\ v # w /\ worker[v].c = d
          /\ row[d].status = "processing" /\ row[d].by = v /\ ~row[d].expired
      BY <1>0, <2>4 DEF Claimed
    <3>2. d # c
      BY <2>6, <3>1
    <3>3. QED
      BY <1>0, <2>5, <3>1, <3>2
  <2>8. QED
    BY <1>1, <1>3, <2>1, <2>2, <2>4, <2>5, <2>7
<1>10. ASSUME NEW w \in Workers, FailWrites(w) PROVE OutboxInv'
  <2> DEFINE c == worker[w].c
             r == Closed("failed")
  <2>1. c \in Commits
    BY <1>0, <1>10 DEF FailWrites, Held, Holding
  <2>2. r \in Rows /\ r.status = "failed" /\ r.by = "none"
    BY DEF Rows, Statuses, Closed
  <2>3. Turn(w, "idle", 0, 0)
    BY <1>10, IdleTurn DEF FailWrites, Retry
  <2>4. /\ Held' /\ worker' \in [Workers -> Places] /\ worker'[w].c = 0
        /\ \A v \in Workers \ {w} : worker'[v] = worker[v]
    BY <1>0, <2>3, TurnFacts DEF Holding
  <2>5. row' = [row EXCEPT ![c] = r]
        /\ UNCHANGED <<workerId, snapshots, alias, ready, lapsed, failures, late, kills>>
    BY <1>10 DEF FailWrites
  <2>6. c \notin lapsed => row[c].by = w /\ row[c].status = "processing"
    BY <1>0, <2>1 DEF Claimed
  <2> HIDE DEF c, r
  <2>7. Claimed'
    <3> SUFFICES ASSUME NEW d \in Commits \ lapsed, NEW v \in Workers, worker'[v].c = d
                 PROVE  row'[d].status = "processing" /\ row'[d].by = v /\ ~row'[d].expired
      BY <2>5 DEF Claimed
    <3>1. /\ v # w /\ worker[v].c = d
          /\ row[d].status = "processing" /\ row[d].by = v /\ ~row[d].expired
      BY <1>0, <2>4 DEF Claimed
    <3>2. d # c
      BY <2>6, <3>1
    <3>3. QED
      BY <1>0, <2>5, <3>1, <3>2
  <2>8. c \notin snapshots \ lapsed
    BY <1>0, <2>6 DEF PublishedForGood
  <2>9. QED
    BY <1>1, <1>3, <2>1, <2>2, <2>4, <2>5, <2>7, <2>8
<1>11. ASSUME NEW w \in Workers, FailRefused(w) \/ Gate(w) \/ Kill(w) PROVE OutboxInv'
  <2>1. Turn(w, "idle", 0, 0)
    BY <1>11, IdleTurn DEF FailRefused, Retry, Gate, Kill
  <2>2. /\ Held' /\ worker' \in [Workers -> Places]
        /\ \A v \in Workers : worker'[v].c \in {0, worker[v].c}
    BY <1>0, <2>1, TurnFacts DEF Holding
  <2>3. ready' \subseteq snapshots
    BY <1>3, <1>11 DEF FailRefused, Gate, Kill
  <2>4. kills' \in 0 .. MaxKills
    BY <1>3, <1>11, OutboxAssumption DEF FailRefused, Gate, Kill
  <2>5. UNCHANGED <<workerId, row, snapshots, lapsed, alias, failures, late>>
    BY <1>11 DEF FailRefused, Gate, Kill
  <2>6. QED
    BY <1>2, <1>3, <2>2, <2>3, <2>4, <2>5
<1>12. CASE UNCHANGED vars
  BY <1>12 DEF vars, OutboxInv, TypeOK, Held, Claimed, PublishedForGood
<1>13. QED
  BY <1>4, <1>5, <1>6, <1>7, <1>8, <1>9, <1>10, <1>11, <1>12 DEF Next, WorkStep, Finished

(* The invariant holds in every reachable state. *)
LEMMA OutboxInvariant == Spec => []OutboxInv
<1>1. Init => OutboxInv
  <2> SUFFICES ASSUME Init PROVE OutboxInv
    OBVIOUS
  <2>1. 0 \in 0 .. NumCommits /\ 0 \in 0 .. MaxFailures /\ 0 \in 0 .. MaxLate /\ 0 \in 0 .. MaxKills
    BY OutboxAssumption
  <2>2. Idle \in Places /\ Idle.pc = "idle" /\ Idle.c = 0
    BY <2>1 DEF Idle, Places, Pcs
  <2>3. /\ row \in [Commits -> Rows]
        /\ \A c \in Commits : row[c].status = "none" /\ row[c].by = "none"
    BY DEF Init, Rows, Statuses
  <2>4. worker \in [Workers -> Places] /\ \A w \in Workers : worker[w].pc = "idle" /\ worker[w].c = 0
    BY <2>2 DEF Init
  <2>5. TypeOK
    BY <2>1, <2>3, <2>4 DEF Init, TypeOK, Rows, Places, Pcs, Statuses
  <2>6. Held /\ Claimed /\ PublishedForGood
    <3>1. 0 \notin Commits
      BY OutboxAssumption DEF Commits
    <3>2. QED
      BY <2>3, <2>4, <3>1 DEF Init, Held, Holding, Claimed, PublishedForGood
  <2>7. QED
    BY <2>5, <2>6 DEF OutboxInv
<1>2. QED
  BY <1>1, OutboxStep, PTL DEF Spec

-----------------------------------------------------------------------------
(* Theorems                                                                *)

(* A completed row and a READY task have a published snapshot, for any     *)
(* processes, worker ids, kills and lost leases; and a row whose lease     *)
(* never ran out under a process at work stays completed for good.         *)
THEOREM SnapshotsStayPublished == Spec => []PublishedForGood
<1>1. OutboxInv => PublishedForGood
  BY DEF OutboxInv
<1>2. QED
  BY <1>1, OutboxInvariant, PTL

(* A row is completed or failed only by the process that claimed it last,  *)
(* whatever worker ids they have and wherever a claim falls between the    *)
(* read and the write of complete() and fail(), unless its lease ran out   *)
(* under a process at work.                                                *)
THEOREM ClaimsAreRespected == Spec => ClaimRespected
<1> DEFINE Respected ==
      \A c \in Commits \ lapsed : \A w \in Workers :
        /\ row[c].status = "processing" /\ row'[c].status \in {"completed", "failed"}
        /\ worker[w] # worker'[w]
        => row[c].by = w
<1>1. OutboxInv /\ [Next \/ Finished]_vars => [Respected]_vars
  <2> SUFFICES ASSUME OutboxInv, Next,
                      NEW c \in Commits \ lapsed, NEW w \in Workers, row[c].status = "processing",
                      row'[c].status \in {"completed", "failed"}, worker[w] # worker'[w]
               PROVE  row[c].by = w
    BY DEF Finished
  <2>0. /\ row \in [Commits -> Rows] /\ worker \in [Workers -> Places] /\ Claimed
    BY DEF OutboxInv, TypeOK, Rows, Places, Pcs, Statuses
  <2>1. ASSUME NEW v \in Workers, CompleteWrites(v) \/ FailWrites(v) PROVE row[c].by = w
    <3>1. v = w
      BY <2>0, <2>1 DEF CompleteWrites, FailWrites, Retry
    <3>2. worker[v].c = c
      BY <2>0, <2>1 DEF CompleteWrites, FailWrites
    <3>3. QED
      BY <2>0, <3>1, <3>2 DEF Claimed
  <2>2. ASSUME NEW v \in Workers, ClaimNext(v) PROVE FALSE
    BY <2>0, <2>2 DEF ClaimNext
  <2>3. ASSUME NEW v \in Workers,
               \/ NothingToClaim(v) \/ Build(v) \/ BuildFails(v) \/ CompleteReads(v)
               \/ CompleteRefused(v) \/ FailReads(v) \/ FailRefused(v) \/ Gate(v) \/ Kill(v)
        PROVE  FALSE
    <3>1. row' = row
      BY <2>3 DEF NothingToClaim, Build, BuildFails, CompleteReads, CompleteRefused,
                  FailReads, FailRefused, Gate, Kill
    <3>2. QED
      BY <3>1
  <2>4. ASSUME NEW d \in Commits, Commit(d) \/ LeaseExpires(d) \/ \E v \in Workers : BeginTask(v, d)
        PROVE  FALSE
    <3>1. Commit(d) => worker' = worker
      BY DEF Commit
    <3>2. LeaseExpires(d) => worker' = worker
      BY DEF LeaseExpires
    <3>3. (\E v \in Workers : BeginTask(v, d)) => row' = row
      BY DEF BeginTask
    <3>4. QED
      BY <2>4, <3>1, <3>2, <3>3
  <2>5. QED
    BY <2>1, <2>2, <2>3, <2>4 DEF Next, WorkStep
<1>2. Spec => [][Respected]_vars
  BY <1>1, OutboxInvariant, PTL DEF Spec
<1>3. QED
  BY <1>2 DEF ClaimRespected
=============================================================================
