-------------------------- MODULE WriterLoop_proofs --------------------------
(***************************************************************************)
(* Theorems about WriterLoop, for every set of policies and every bound on *)
(* attempts, faults and pressures: a text that is ready was reviewed and   *)
(* observed, no settled call is made twice, every yield advances, and the  *)
(* log of the attempts can be replayed.                                    *)
(***************************************************************************)
EXTENDS WriterLoop, WellFoundedInduction, TLAPS

-----------------------------------------------------------------------------
(* Induction and recursion over an interval.  Induction is by a least      *)
(* counterexample; the recursive functions of the model are then the ones  *)
(* their equations describe.                                               *)

(* A set of numbers that is not empty has a least member. *)
LEMMA LeastNumber ==
  ASSUME NEW S \in SUBSET Nat, S # {}
  PROVE  \E m \in S : \A k \in S : m <= k
<1> DEFINE R == {p \in Nat \X Nat : p[1] < p[2]}
<1>1. IsWellFoundedOn(R, Nat)
  BY NatLessThanWellFounded DEF OpToRel
<1> HIDE DEF R
<1>2. PICK m \in S : \A k \in S : ~(<<k, m>> \in R)
  BY <1>1, WFMin
<1>3. ASSUME NEW k \in S PROVE m <= k
  <2>1. ~(<<k, m>> \in R)
    BY <1>2
  <2>2. ~(k < m)
    BY <2>1 DEF R
  <2>3. QED
    BY <2>2
<1>4. QED
  BY <1>3

(* A set that holds a, and with i - 1 also i, holds all of a .. n. *)
LEMMA FromTo ==
  ASSUME NEW a \in Nat, NEW n \in Nat, NEW S,
         a \in S, \A i \in a + 1 .. n : i - 1 \in S => i \in S
  PROVE  \A i \in a .. n : i \in S
<1> DEFINE T == {i \in a .. n : i \notin S}
<1> SUFFICES ASSUME T # {} PROVE FALSE
  OBVIOUS
<1>1. T \in SUBSET Nat
  OBVIOUS
<1>2. PICK m \in T : \A k \in T : m <= k
  <2> HIDE DEF T
  <2>1. QED
    BY <1>1, LeastNumber
<1>3. m \in a + 1 .. n /\ m - 1 \in a .. n
  BY <1>2
<1>4. m - 1 \in S
  BY <1>2, <1>3
<1>5. QED
  BY <1>2, <1>3, <1>4

(* f starts with x0 at a and is continued up to n by the table of steps. *)
Recurses(f, a, n, x0, step) ==
  f[a] = x0 /\ \A i \in a + 1 .. n : f[i] = step[<<i, f[i - 1]>>]

(* Such a function exists. *)
LEMMA Recursion ==
  ASSUME NEW a \in Nat, NEW n \in Nat, a <= n, NEW X, NEW x0 \in X,
         NEW step \in [(a + 1 .. n) \X X -> X]
  PROVE  \E f \in [a .. n -> X] : Recurses(f, a, n, x0, step)
<1> DEFINE Good(k, f) == f[a] = x0 /\ \A i \in a + 1 .. k : f[i] = step[<<i, f[i - 1]>>]
           S == {k \in a .. n : \E f \in [a .. n -> X] : Good(k, f)}
<1>1. a \in S
  <2> DEFINE f0 == [i \in a .. n |-> x0]
  <2>1. f0 \in [a .. n -> X] /\ Good(a, f0)
    OBVIOUS
  <2> HIDE DEF f0
  <2>2. QED
    BY <2>1
<1>2. ASSUME NEW k \in a + 1 .. n, k - 1 \in S PROVE k \in S
  <2>1. PICK f \in [a .. n -> X] : Good(k - 1, f)
    BY <1>2
  <2> DEFINE g == [f EXCEPT ![k] = step[<<k, f[k - 1]>>]]
  <2>2. k - 1 \in a .. n /\ k \in a .. n /\ k # a /\ a \in a .. n
    OBVIOUS
  <2>3. step[<<k, f[k - 1]>>] \in X
    BY <2>2
  <2>4. g \in [a .. n -> X]
    BY <2>2, <2>3
  <2>5. g[a] = x0
    BY <2>1, <2>2
  <2>6. ASSUME NEW i \in a + 1 .. k PROVE g[i] = step[<<i, g[i - 1]>>]
    <3>1. g[i - 1] = f[i - 1]
      BY <2>2
    <3>2. CASE i = k
      BY <2>2, <3>1, <3>2
    <3>3. CASE i # k
      BY <2>1, <2>2, <3>1, <3>3
    <3>4. QED
      BY <3>2, <3>3
  <2>7. QED
    BY <2>2, <2>4, <2>5, <2>6
<1> HIDE DEF S
<1>3. n \in S
  <2>1. \A i \in a .. n : i \in S
    BY <1>1, <1>2, FromTo
  <2>2. QED
    BY <2>1
<1>4. QED
  BY <1>3 DEF S, Recurses

(* Dropping repetitions leaves a sequence of the same members. *)
LEMMA DedupSeq ==
  ASSUME NEW S, NEW s \in Seq(S)
  PROVE  Dedup(s) \in Seq(S)
<1> DEFINE n == Len(s)
           Def(f) == [i \in 0 .. Len(s) |->
                        CASE i = 0 -> << >>
                          [] i > 0 /\ s[i] \in Range(f[i - 1]) -> f[i - 1]
                          [] OTHER -> Append(f[i - 1], s[i])]
           upTo == CHOOSE f : f = Def(f)
           step == [p \in (0 + 1 .. n) \X Seq(S) |->
                      IF s[p[1]] \in Range(p[2]) THEN p[2] ELSE Append(p[2], s[p[1]])]
<1>1. Dedup(s) = upTo[n]
  BY DEF Dedup
<1>2. n \in Nat /\ \A i \in 1 .. n : s[i] \in S
  OBVIOUS
<1>3. PICK f \in [0 .. n -> Seq(S)] :
        f[0] = << >> /\ \A i \in 1 .. n : f[i] = step[<<i, f[i - 1]>>]
  <2>1. step \in [(0 + 1 .. n) \X Seq(S) -> Seq(S)]
    BY <1>2
  <2> DEFINE X == Seq(S)
             none == << >>
  <2>2. n \in Nat /\ none \in X /\ step \in [(0 + 1 .. n) \X X -> X] /\ 0 <= n
    BY <1>2, <2>1
  <2> HIDE DEF step, n, X, none
  <2>3. \E f \in [0 .. n -> X] : Recurses(f, 0, n, none, step)
    BY <2>2, Recursion
  <2>4. 0 + 1 .. n = 1 .. n
    BY <2>2
  <2>5. QED
    BY <2>3, <2>4 DEF X, none, Recurses
<1>4. ASSUME NEW i \in 0 .. n
      PROVE  f[i] = CASE i = 0 -> << >>
                      [] i > 0 /\ s[i] \in Range(f[i - 1]) -> f[i - 1]
                      [] OTHER -> Append(f[i - 1], s[i])
  <2>1. CASE i = 0
    BY <2>1, <1>3
  <2>2. CASE i # 0
    <3>1. i \in 1 .. n /\ i - 1 \in 0 .. n /\ i > 0
      BY <2>2
    <3>2. f[i - 1] \in Seq(S)
      BY <3>1
    <3>3. f[i] = step[<<i, f[i - 1]>>]
      BY <1>3, <3>1
    <3>4. f[i] = IF s[i] \in Range(f[i - 1]) THEN f[i - 1] ELSE Append(f[i - 1], s[i])
      BY <3>1, <3>2, <3>3
    <3>5. QED
      BY <3>1, <3>4
  <2>3. QED
    BY <2>1, <2>2
<1>5. f = Def(f)
  BY <1>4
<1>6. upTo = Def(upTo)
  BY <1>5
<1> HIDE DEF upTo
<1>7. \A i \in 0 .. n : upTo[i] = f[i]
  <2> DEFINE Same == {i \in 0 .. n : upTo[i] = f[i]}
  <2>1. 0 \in Same
    BY <1>6, <1>4
  <2>2. ASSUME NEW i \in 0 + 1 .. n, i - 1 \in Same PROVE i \in Same
    <3>1. i \in 0 .. n /\ upTo[i - 1] = f[i - 1]
      BY <2>2
    <3>2. upTo[i] = CASE i = 0 -> << >>
                      [] i > 0 /\ s[i] \in Range(upTo[i - 1]) -> upTo[i - 1]
                      [] OTHER -> Append(upTo[i - 1], s[i])
      BY <1>6, <3>1
    <3>3. QED
      BY <1>4, <3>1, <3>2
  <2> HIDE DEF Same
  <2>3. \A i \in 0 .. n : i \in Same
    BY <1>2, <2>1, <2>2, FromTo
  <2>4. QED
    BY <2>3 DEF Same
<1>8. QED
  BY <1>1, <1>2, <1>3, <1>7

-----------------------------------------------------------------------------
(* Replay                                                                  *)

Views == [rev : Int, gen : Nat, pos : Nat, unlogged : Nat]
Events == [kind : {"plan", "delta", "compacted", "foreign"}, parent : Views]

(* A View the projector may stand on *)
ViewOK(v, l) == v \in Views /\ v # Broken /\ v.pos <= Len(l)

(* An event leaves a View, one further in the log, or breaks it. *)
LEMMA ApplyOK ==
  ASSUME NEW v \in Views, NEW e \in Events
  PROVE  /\ Apply(v, e) \in Views
         /\ Apply(v, e) # Broken => /\ v # Broken /\ Apply(v, e).pos = v.pos + 1
                                   /\ Apply(v, e).unlogged = v.unlogged
<1>1. e # Mark
  BY DEF Mark, Event, Events
<1>2. Broken \in Views
  BY DEF Broken, Views
<1>3. CASE \/ v = Broken
           \/ e.kind = "delta" /\ e.parent.rev # v.rev
           \/ e.kind = "compacted" /\ e.parent # v
  BY <1>1, <1>2, <1>3 DEF Apply
<1>4. CASE ~ \/ v = Broken
             \/ e.kind = "delta" /\ e.parent.rev # v.rev
             \/ e.kind = "compacted" /\ e.parent # v
  <2> DEFINE rev == IF e.kind = "foreign" THEN v.rev ELSE v.rev + 1
             gen == IF e.kind = "compacted" THEN v.gen + 1 ELSE v.gen
             pos == v.pos + 1
  <2>1. Apply(v, e) = [v EXCEPT !.rev = rev, !.gen = gen, !.pos = pos]
    BY <1>1, <1>4 DEF Apply
  <2>2. rev \in Int /\ gen \in Nat /\ pos \in Nat
    BY DEF Views
  <2> HIDE DEF rev, gen, pos
  <2>3. Apply(v, e) \in Views /\ Apply(v, e).pos = pos /\ Apply(v, e).unlogged = v.unlogged
    BY <2>1, <2>2 DEF Views
  <2>4. QED
    BY <1>4, <2>3 DEF pos
<1>5. QED
  BY <1>3, <1>4

(* f is the Views that v passes through on its way to the end of the log. *)
Course(f, v) ==
  f[v.pos] = v /\ \A i \in v.pos + 1 .. Len(log) : f[i] = Apply(f[i - 1], log[i])

(* Replay finds the end of any such course. *)
LEMMA ReplayFollows ==
  ASSUME NEW v \in Views, log \in Seq(Events), v.pos <= Len(log), NEW f, Course(f, v)
  PROVE  Replay(v) = f[Len(log)]
<1> DEFINE a == v.pos
           n == Len(log)
           Def(g) == [i \in v.pos .. Len(log) |->
                        IF i = v.pos THEN v ELSE Apply(g[i - 1], log[i])]
           to == CHOOSE g : g = Def(g)
           g == [i \in a .. n |-> f[i]]
<1>1. Replay(v) = to[n]
  BY DEF Replay
<1>2. a \in Nat /\ n \in Nat /\ a <= n
  BY DEF Views
<1>3. g = Def(g)
  <2>1. ASSUME NEW i \in a .. n PROVE g[i] = IF i = a THEN v ELSE Apply(g[i - 1], log[i])
    <3>1. CASE i = a
      BY <3>1 DEF Course
    <3>2. CASE i # a
      <4>1. i \in a + 1 .. n /\ i - 1 \in a .. n
        BY <1>2, <3>2
      <4>2. QED
        BY <3>2, <4>1 DEF Course
    <3>3. QED
      BY <3>1, <3>2
  <2>2. QED
    BY <2>1
<1>4. to = Def(to)
  BY <1>3
<1> HIDE DEF to
<1>5. \A i \in a .. n : to[i] = f[i]
  <2> DEFINE Same == {i \in a .. n : to[i] = f[i]}
  <2>1. a \in Same
    BY <1>2, <1>4 DEF Course
  <2>2. ASSUME NEW i \in a + 1 .. n, i - 1 \in Same PROVE i \in Same
    <3>1. i \in a .. n /\ i # a /\ to[i - 1] = f[i - 1]
      BY <1>2, <2>2
    <3>2. to[i] = Apply(to[i - 1], log[i])
      BY <1>4, <3>1
    <3>3. QED
      BY <3>1, <3>2 DEF Course
  <2> HIDE DEF Same
  <2>3. \A i \in a .. n : i \in Same
    BY <1>2, <2>1, <2>2, FromTo
  <2>4. QED
    BY <2>3 DEF Same
<1>6. QED
  BY <1>1, <1>2, <1>5

(* A View that does not break on the way comes to the end of the log, with *)
(* what no event carries still in it.                                      *)
LEMMA ReplayOK ==
  ASSUME NEW v \in Views, log \in Seq(Events), v.pos <= Len(log)
  PROVE  /\ Replay(v) \in Views
         /\ Replay(v) # Broken => Replay(v).pos = Len(log) /\ Replay(v).unlogged = v.unlogged
<1> DEFINE a == v.pos
           n == Len(log)
           step == [p \in (a + 1 .. n) \X Views |-> Apply(p[2], log[p[1]])]
<1>1. a \in Nat /\ n \in Nat /\ a <= n /\ \A i \in a + 1 .. n : log[i] \in Events
  BY DEF Views
<1>2. step \in [(a + 1 .. n) \X Views -> Views]
  BY <1>1, ApplyOK
<1>3. PICK f \in [a .. n -> Views] : Recurses(f, a, n, v, step)
  <2> HIDE DEF a, n, step
  <2>1. QED
    BY <1>1, <1>2, Recursion
<1>4. Course(f, v)
  <2>1. ASSUME NEW i \in a + 1 .. n PROVE f[i] = Apply(f[i - 1], log[i])
    <3>1. i - 1 \in a .. n
      BY <1>1
    <3>2. f[i - 1] \in Views /\ f[i] = step[<<i, f[i - 1]>>]
      BY <1>3, <3>1 DEF Recurses
    <3>3. QED
      BY <3>2
  <2>2. QED
    BY <1>3, <2>1 DEF Course, Recurses
<1>5. Replay(v) = f[n]
  BY <1>1, <1>4, ReplayFollows
<1>6. \A i \in a .. n : f[i] = Broken \/ (f[i].pos = i /\ f[i].unlogged = v.unlogged)
  <2> DEFINE There ==
               {i \in a .. n : f[i] = Broken \/ (f[i].pos = i /\ f[i].unlogged = v.unlogged)}
  <2>1. a \in There
    BY <1>1, <1>4 DEF Course
  <2>2. ASSUME NEW i \in a + 1 .. n, i - 1 \in There PROVE i \in There
    <3>1. i \in a .. n /\ i - 1 \in a .. n /\ f[i - 1] \in Views
      BY <1>1, <1>3
    <3>2. f[i] = Apply(f[i - 1], log[i]) /\ log[i] \in Events
      BY <1>1, <1>4 DEF Course
    <3>3. f[i] # Broken => /\ f[i - 1] # Broken /\ f[i].pos = f[i - 1].pos + 1
                           /\ f[i].unlogged = f[i - 1].unlogged
      BY <3>1, <3>2, ApplyOK
    <3>4. QED
      BY <2>2, <3>1, <3>3
  <2> HIDE DEF There
  <2>3. \A i \in a .. n : i \in There
    BY <1>1, <2>1, <2>2, FromTo
  <2>4. QED
    BY <2>3 DEF There
<1>7. QED
  BY <1>1, <1>3, <1>5, <1>6

-----------------------------------------------------------------------------
(* The inductive invariant                                                 *)

Texts == Nat \X Nat
Reports == [of : Texts, verdict : Verdicts \cup {"none"}]

Before == {"turn", "memory", "delta", "draft"}
Reviewing == {"drafted", "review", "repair", "reverify", "rewrite", "rereview"}
After == {"observe", "observed", "reconcile", "ready"}
Pcs == {"none", "open", "plan"} \cup Before \cup Reviewing \cup After

Locals ==
  [pc : Pcs, from : Nat, view : Views, dispatch : {"no", "pressed", "yes"},
   turns : Nat, sliceRounds : Nat, sliceTurns : Nat, parent : Views,
   draft : Texts, texts : Nat, final : Texts, report : Reports, observed : Texts,
   post : Nat, tries : Nat, paid : SUBSET Labels, repaid : BOOLEAN]

(* What a place in the loop says of the text: from the Draft on there is   *)
(* one, before the Observer its own review passed, after it it was read.   *)
Seen(pc, final, report, observed) ==
  /\ pc \in Reviewing \cup After => final # NoText
  /\ pc \in After => report = [of |-> final, verdict |-> "PASS"]
  /\ pc \in {"observed", "reconcile", "ready"} => observed = final

(* The calls still to be made from a place have not been paid for. *)
Unpaid(pc, paid, turns, tries) ==
  /\ pc \in {"none", "open", "plan"} => paid = {}
  /\ pc \in Before => \A k \in Nat : k >= turns => <<"turn", k>> \notin paid
  /\ pc \in Before \cup {"drafted", "review"} => <<"review", 0>> \notin paid
  /\ pc \in Before \cup {"drafted", "review", "repair"} =>
       \A k \in Nat : <<"repair", k>> \notin paid
  /\ pc \in Before \cup {"drafted", "review", "repair", "reverify"} =>
       \A k \in Nat : /\ <<"reverify", k>> \notin paid
                      /\ <<"rewrite", k>> \notin paid
                      /\ <<"rereview", k>> \notin paid
  /\ pc = "rewrite" => \A k \in Nat : k >= tries => <<"rewrite", k>> \notin paid
  /\ pc = "rereview" => \A k \in Nat : k > tries => <<"rewrite", k>> \notin paid
  /\ pc \in {"rewrite", "rereview"} =>
       \A k \in Nat : k >= tries => <<"rereview", k>> \notin paid
  /\ pc \in Before \cup Reviewing \cup {"observe"} => <<"observe", 0>> \notin paid

(* How far a slice that resumed from checkpoint p has come since. *)
Further(l, p) ==
  /\ l.pc # "plan"
  /\ l.pc \in Before \cup {"drafted"} => p.phase = "REACTIVE_MEMORY_PENDING"
  /\ l.pc \in Before => l.turns = p.turns + l.sliceTurns
  /\ l.pc \in {"memory", "delta"} => l.sliceRounds <= l.sliceTurns
  /\ l.pc = "turn" => l.sliceRounds <= l.sliceTurns + 1
  /\ l.pc \in Reviewing => p.phase \in {"REACTIVE_MEMORY_PENDING", "EDITOR_PENDING"}
  /\ l.pc \in {"observe", "observed"} => p.phase # "RECONCILIATION_PENDING"
  /\ l.pc = "observe" /\ p.phase = "OBSERVER_PENDING" => l.post = 0

(* The allowances of the slice *)
Within(l, b) ==
  /\ l.sliceRounds <= b.rounds /\ l.sliceTurns <= b.turns
  /\ l.pc = "delta" => l.sliceRounds < b.rounds
  /\ l.pc \in {"delta", "turn"} => l.sliceTurns < b.turns
  /\ l.pc \in {"none", "open", "plan"} =>
       l.sliceRounds = 0 /\ l.sliceTurns = 0 /\ l.post = 0 /\ l.turns = 0

(* The calls after the Draft: a review, one repair or some rewrites, each  *)
(* with a review of its own, and the observation.                          *)
Spent(l, b) ==
  /\ l.pc \in {"none", "open", "plan"} \cup Before \cup {"drafted", "review"} =>
       l.post = 0 /\ l.tries = 0
  /\ l.pc = "repair" => b.repairs > 0 /\ l.post = 1
  /\ l.pc = "reverify" => b.repairs > 0 /\ l.post = 2
  /\ l.pc \in {"rewrite", "rereview"} => 1 <= l.tries /\ l.tries <= b.rewrites
  /\ l.pc = "rewrite" => l.post = 2 * l.tries - 1
  /\ l.pc = "rereview" => l.post = 2 * l.tries
  /\ l.pc = "observe" => l.post <= 1 + 2 * b.rewrites \/ (b.repairs > 0 /\ l.post <= 3)
  /\ l.pc \in After => l.post <= 2 + 2 * b.rewrites \/ (b.repairs > 0 /\ l.post <= 4)

LocalOK(l, ck, b) ==
  /\ l \in Locals /\ l.from \in 0 .. Len(ck)
  /\ Within(l, b) /\ Spent(l, b)
  /\ Seen(l.pc, l.final, l.report, l.observed)
  /\ Unpaid(l.pc, l.paid, l.turns, l.tries) /\ ~l.repaid
  /\ l.from # 0 => Further(l, ck[l.from])

(* A checkpoint restores locals that are right at the place of its phase. *)
CheckpointOK(c) ==
  /\ Seen(PhasePc(c.phase), c.final, c.report, c.observed)
  /\ Unpaid(PhasePc(c.phase), c.paid, c.turns, 0)

CheckpointsOK ==
  \A c \in DOMAIN ckpts : CheckpointOK(ckpts[c]) /\ ckpts[c].from \in 0 .. c - 1

Statuses == Parked \cup {"READY", "RUNNING", "SUCCEEDED"}

Typed ==
  /\ budgets \in Policies
  /\ status \in Statuses
  /\ attempts \in Nat
  /\ ckpts \in Seq(Checkpoint)
  /\ refs \in Seq(1 .. Len(ckpts)) /\ eventRefs \in Seq(1 .. Len(ckpts))
  /\ log \in Seq(Events)
  /\ ViewOK(saved, log) /\ ViewOK(run.view, log) /\ ViewOK(stray.view, log)
  /\ Live => status = "RUNNING"

LoopInv ==
  /\ Typed
  /\ LocalOK(run, ckpts, budgets)
  /\ CheckpointsOK
  /\ YieldAdvances
  /\ ReadyIsReviewed

-----------------------------------------------------------------------------
(* What a step does to the log and the task                                *)

(* Appending an event and applying it comes to the end of the longer log. *)
LEMMA AppendsOK ==
  ASSUME Typed, NEW e \in Events \cup {Mark}, Appends(e)
  PROVE  /\ log' \in Seq(Events) /\ Len(log) <= Len(log')
         /\ ViewAfter(e) \in Views
         /\ ViewAfter(e) # Broken => ViewAfter(e).pos = Len(log')
<1>1. run.view \in Views /\ log \in Seq(Events) /\ run.view.pos <= Len(log)
  BY DEF Typed, ViewOK
<1> DEFINE v == Replay(run.view)
<1>2. v \in Views /\ (v # Broken => v.pos = Len(log))
  BY <1>1, ReplayOK
<1>3. ViewAfter(e) = Apply(v, e)
  BY DEF ViewAfter
<1>4. log' = IF e = Mark \/ v = Broken THEN log ELSE Append(log, e)
  BY DEF Appends
<1> HIDE DEF v
<1>5. CASE v = Broken
  <2>1. Apply(v, e) = Broken
    BY <1>5 DEF Apply
  <2>2. QED
    BY <1>1, <1>2, <1>3, <1>4, <1>5, <2>1
<1>6. CASE v # Broken /\ e = Mark
  <2>1. Apply(v, e) = v
    BY <1>6 DEF Apply, Mark, Event
  <2>2. QED
    BY <1>1, <1>2, <1>3, <1>4, <1>6, <2>1
<1>7. CASE v # Broken /\ e # Mark
  <2>1. e \in Events /\ log' = Append(log, e)
    BY <1>4, <1>7
  <2>2. log' \in Seq(Events) /\ Len(log') = Len(log) + 1 /\ Len(log) \in Nat
    BY <1>1, <2>1
  <2>3. QED
    BY <1>2, <1>3, <1>7, <2>1, <2>2, ApplyOK
<1>8. QED
  BY <1>5, <1>6, <1>7

(* A RunCheckpoint is of a View that stands in the log. *)
LEMMA SavesOK ==
  ASSUME Typed, NEW e \in Events \cup {Mark}, Appends(e), SavesNext(e)
  PROVE  ViewOK(saved', log')
<1>1. /\ log' \in Seq(Events) /\ Len(log) <= Len(log') /\ ViewAfter(e) \in Views
      /\ ViewAfter(e) # Broken => ViewAfter(e).pos = Len(log')
  BY AppendsOK
<1>2. saved' = saved \/ (ViewAfter(e) # Broken /\ saved' = ViewAfter(e))
  BY DEF SavesNext, Saves
<1>3. ViewOK(saved, log) /\ log \in Seq(Events)
  BY DEF Typed
<1>4. Len(log) \in Nat /\ Len(log') \in Nat
  BY <1>1, <1>3
<1>5. CASE saved' = saved
  BY <1>1, <1>3, <1>4, <1>5 DEF ViewOK, Views
<1>6. CASE ViewAfter(e) # Broken /\ saved' = ViewAfter(e)
  BY <1>1, <1>4, <1>6 DEF ViewOK
<1>7. QED
  BY <1>2, <1>5, <1>6

(* The task is well typed and its result is left alone. *)
TaskKept ==
  /\ status' \in Statuses
  /\ refs' \in Seq(1 .. Len(ckpts)) /\ eventRefs' \in Seq(1 .. Len(ckpts))
  /\ result' = result

(* The attempt ends without a text. *)
Stopped == run' = NotRunning /\ status' # "SUCCEEDED" /\ TaskKept

(* A settled task keeps references to checkpoints that exist. *)
LEMMA SettleOK ==
  ASSUME Typed, NEW st \in Statuses, NEW rs \in Seq(1 .. Len(ckpts)), Settle(st, rs)
  PROVE  status' = st /\ refs' \in Seq(1 .. Len(ckpts)) /\ eventRefs' \in Seq(1 .. Len(ckpts))
<1>1. eventRefs \o rs \in Seq(1 .. Len(ckpts))
  BY DEF Typed
<1> DEFINE s == eventRefs \o rs
           S == 1 .. Len(ckpts)
<1> HIDE DEF s, S
<1>2. Dedup(s) \in Seq(S)
  BY <1>1, DedupSeq DEF s, S
<1>3. QED
  BY <1>2 DEF Settle, s, S

(* So do the lineage and the artifacts a return carries. *)
LEMMA LineageOK ==
  ASSUME Typed, LocalOK(run, ckpts, budgets)
  PROVE  Lineage(run.from) \in Seq(1 .. Len(ckpts)) /\ Artifacts \in Seq(1 .. Len(ckpts))
<1> DEFINE head == IF run.from = 0 THEN << >> ELSE <<run.from>>
           s == head \o eventRefs
           S == 1 .. Len(ckpts)
<1>1. run.from \in 0 .. Len(ckpts) /\ eventRefs \in Seq(S) /\ Len(ckpts) \in Nat
  BY DEF Typed, LocalOK
<1>2. head \in Seq(S)
  <2>1. CASE run.from = 0
    BY <2>1
  <2>2. CASE run.from # 0
    <3>1. run.from \in S
      BY <1>1, <2>2
    <3>2. <<run.from>> \in Seq(S)
      BY <3>1
    <3>3. QED
      BY <2>2, <3>2
  <2>3. QED
    BY <2>1, <2>2
<1>3. s \in Seq(S)
  BY <1>1, <1>2
<1>4. Lineage(run.from) = Dedup(s)
  BY DEF Lineage
<1> HIDE DEF s, S
<1>5. Dedup(s) \in Seq(S)
  BY <1>3, DedupSeq
<1>6. << >> \in Seq(S)
  OBVIOUS
<1>7. QED
  BY <1>4, <1>5, <1>6 DEF Artifacts, S

(* A return stops the attempt and leaves a task of the right shape. *)
LEMMA ReturnsOK ==
  ASSUME Typed, LocalOK(run, ckpts, budgets), NEW terminal, Returns(terminal)
  PROVE  Stopped
<1> DEFINE rs == CASE terminal = "MODEL_UNAVAILABLE" -> Lineage(run.from)
                   [] terminal \in {"BASIS_CHANGED", "INPUT_NOT_READY"} -> << >>
                   [] OTHER -> Artifacts
<1>1. rs \in Seq(1 .. Len(ckpts))
  <2>1. /\ Lineage(run.from) \in Seq(1 .. Len(ckpts)) /\ Artifacts \in Seq(1 .. Len(ckpts))
        /\ << >> \in Seq(1 .. Len(ckpts))
    BY LineageOK
  <2>2. rs \in {Lineage(run.from), << >>, Artifacts}
    BY Zenon
  <2> HIDE DEF rs
  <2>3. QED
    BY <2>1, <2>2
<1>2. Settle(Outcome(terminal), rs) /\ run' = NotRunning /\ result' = result
  BY DEF Returns, Ends, Becomes
<1>3. Outcome(terminal) \in Parked
  BY DEF Outcome, Parked
<1> HIDE DEF rs
<1>4. status' = Outcome(terminal) /\ refs' \in Seq(1 .. Len(ckpts))
      /\ eventRefs' \in Seq(1 .. Len(ckpts))
  BY <1>1, <1>2, <1>3, SettleOK DEF Statuses
<1>5. QED
  BY <1>2, <1>3, <1>4 DEF Stopped, TaskKept, Statuses, Parked

(* A projection that fails stops it too. *)
LEMMA ProjectionFailsOK ==
  ASSUME Typed, LocalOK(run, ckpts, budgets), Live, ProjectionFails
  PROVE  Stopped
<1>1. CASE run.pc \in EditorCalls
  BY <1>1 DEF ProjectionFails, Ends, Becomes, task, Typed, Stopped, TaskKept
<1>2. CASE run.pc \notin EditorCalls
  <2>1. Returns(FailureAt(run.pc))
    BY <1>2 DEF ProjectionFails
  <2>2. QED
    BY <2>1, ReturnsOK
<1>3. QED
  BY <1>1, <1>2

(* What the invariant says of the locals does not depend on their View. *)
LEMMA ViewIsFree ==
  ASSUME NEW l, NEW ck, NEW b, LocalOK(l, ck, b), NEW v \in Views
  PROVE  LocalOK([l EXCEPT !.view = v], ck, b)
<1> DEFINE m == [l EXCEPT !.view = v]
<1>1. l \in Locals
  BY DEF LocalOK
<1>2. /\ m.pc = l.pc /\ m.from = l.from /\ m.final = l.final /\ m.report = l.report
      /\ m.observed = l.observed /\ m.paid = l.paid /\ m.turns = l.turns
      /\ m.tries = l.tries /\ m.repaid = l.repaid /\ m.post = l.post
      /\ m.sliceRounds = l.sliceRounds /\ m.sliceTurns = l.sliceTurns
  BY <1>1 DEF Locals
<1>3. m \in Locals
  BY <1>1 DEF Locals
<1> HIDE DEF m
<1>4. LocalOK(m, ck, b)
  BY <1>2, <1>3 DEF LocalOK, Within, Spent, Further
<1>5. QED
  BY <1>4 DEF m

(* The attempt goes on with locals the invariant allows, or stops. *)
Worked ==
  /\ ckpts' = ckpts
  /\ log' \in Seq(Events) /\ Len(log) <= Len(log')
  /\ \/ Stopped
     \/ /\ LocalOK(run', ckpts, budgets) /\ ViewOK(run'.view, log')
        /\ (run'.pc # "none" => status' = "RUNNING")
        /\ TaskKept
        /\ status' = "SUCCEEDED" => status = "SUCCEEDED"

(* An event that is appended with its next local state is work. *)
LEMMA StepOK ==
  ASSUME LoopInv, Live, NEW e \in Events \cup {Mark}, NEW l, Step(e, l),
         LocalOK(l, ckpts, budgets), ckpts' = ckpts
  PROVE  Worked
<1>1. Typed /\ LocalOK(run, ckpts, budgets) /\ Appends(e)
  BY DEF LoopInv, Step
<1> DEFINE v == ViewAfter(e)
<1>2. /\ log' \in Seq(Events) /\ Len(log) <= Len(log') /\ v \in Views
      /\ v # Broken => v.pos = Len(log')
  BY <1>1, AppendsOK
<1>3. CASE v = Broken
  <2>1. ProjectionFails
    BY <1>3 DEF Step
  <2>2. Stopped
    BY <1>1, <2>1, ProjectionFailsOK
  <2>3. QED
    BY <1>2, <2>2 DEF Worked
<1>4. CASE v # Broken
  <2>1. run' = [l EXCEPT !.view = v] /\ UNCHANGED task
    BY <1>4 DEF Step, Becomes
  <2> HIDE DEF v
  <2>2. LocalOK(run', ckpts, budgets)
    BY <1>2, <2>1, ViewIsFree
  <2>3. run'.view = v
    BY <2>1 DEF LocalOK, Locals
  <2>4. Len(log') \in Nat
    BY <1>2
  <2>5. ViewOK(run'.view, log')
    BY <1>2, <1>4, <2>3, <2>4 DEF ViewOK
  <2>6. TaskKept /\ status' = "RUNNING"
    BY <1>1, <2>1 DEF TaskKept, task, Typed
  <2>7. QED
    BY <1>2, <2>2, <2>5, <2>6 DEF Worked
<1>5. QED
  BY <1>3, <1>4

-----------------------------------------------------------------------------
(* The locals after each step                                              *)

(* Budgets are numbers, and at least one turn is allowed. *)
LEMMA BudgetsOK ==
  ASSUME Typed
  PROVE  /\ budgets.rounds \in Nat /\ budgets.turns \in Nat \ {0} /\ budgets.post \in Nat
         /\ budgets.repairs \in Nat /\ budgets.rewrites \in Nat
<1>1. budgets \in Budgets
  BY WriterAssumption DEF Typed
<1>2. QED
  BY <1>1 DEF Budgets

(* The counters of an attempt can be counted up. *)
LEMMA CountersOK ==
  ASSUME NEW l \in Locals
  PROVE  /\ l.turns + 1 \in Nat /\ l.sliceTurns + 1 \in Nat /\ l.sliceRounds + 1 \in Nat
         /\ l.post + 1 \in Nat /\ l.texts + 1 \in Nat \ {0} /\ l.tries + 1 \in Nat
BY DEF Locals

(* The texts of an attempt are numbered from one. *)
LEMMA NewTextOK ==
  ASSUME Typed, run \in Locals
  PROVE  NewText \in Texts /\ NewText # NoText
<1>1. attempts \in Nat /\ run.texts + 1 \in Nat \ {0}
  BY CountersOK DEF Typed
<1> DEFINE k == run.texts + 1
<1> HIDE DEF k
<1>2. NewText = <<attempts, k>>
  BY DEF NewText, k
<1>3. QED
  BY <1>1, <1>2 DEF Texts, NoText, k

(* A work plan *)
LEMMA PlanLocals ==
  ASSUME LoopInv, run.pc = "plan"
  PROVE  LocalOK([Pays(run, <<"plan", 0>>) EXCEPT !.pc = "turn", !.dispatch = "no"],
                 ckpts, budgets)
<1> DEFINE l == [Pays(run, <<"plan", 0>>) EXCEPT !.pc = "turn", !.dispatch = "no"]
<1>1. Typed /\ LocalOK(run, ckpts, budgets) /\ run \in Locals /\ ~run.repaid
  BY DEF LoopInv, LocalOK
<1>2. <<"plan", 0>> \in Labels /\ <<"plan", 0>> \notin run.paid
  BY <1>1 DEF LocalOK, Unpaid, Locals, Labels, Before, Reviewing, After
<1>3. /\ l.from = run.from /\ l.turns = run.turns /\ l.sliceRounds = run.sliceRounds
      /\ l.sliceTurns = run.sliceTurns /\ l.post = run.post /\ l.final = run.final
      /\ l.report = run.report /\ l.observed = run.observed /\ l.tries = run.tries
      /\ l.paid = run.paid \cup {<<"plan", 0>>} /\ l.repaid = FALSE /\ l.pc = "turn"
  BY <1>1, <1>2 DEF Locals, Pays
<1>4. l \in Locals
  BY <1>1, <1>2, <1>3, CountersOK DEF Locals, Pcs, Before, Reviewing, After, Pays
<1> HIDE DEF l
<1>5. LocalOK(l, ckpts, budgets)
  BY <1>1, <1>2, <1>3, <1>4, BudgetsOK
     DEF LocalOK, Within, Spent, Seen, Unpaid, Further, Before, Reviewing, After, Locals
<1>6. QED
  BY <1>5 DEF l

(* A turn, which asks Memory or goes on to the Draft *)
LEMMA TurnLocals ==
  ASSUME LoopInv, run.pc = "turn", NEW answer \in {"memory", "draft"}
  PROVE  LocalOK([Pays(run, <<"turn", run.turns>>)
                   EXCEPT !.pc = answer, !.dispatch = "no", !.turns = @ + 1,
                          !.sliceTurns = @ + 1],
                 ckpts, budgets)
<1> DEFINE l == [Pays(run, <<"turn", run.turns>>)
                   EXCEPT !.pc = answer, !.dispatch = "no", !.turns = @ + 1,
                          !.sliceTurns = @ + 1]
<1>1. Typed /\ LocalOK(run, ckpts, budgets) /\ run \in Locals /\ ~run.repaid
  BY DEF LoopInv, LocalOK
<1>2. <<"turn", run.turns>> \in Labels /\ <<"turn", run.turns>> \notin run.paid
  BY <1>1 DEF LocalOK, Unpaid, Locals, Labels, Before, Reviewing, After
<1>3. /\ l.from = run.from /\ l.turns = run.turns + 1
      /\ l.sliceRounds = run.sliceRounds /\ l.sliceTurns = run.sliceTurns + 1
      /\ l.post = run.post /\ l.final = run.final /\ l.report = run.report
      /\ l.observed = run.observed /\ l.tries = run.tries
      /\ l.paid = run.paid \cup {<<"turn", run.turns>>} /\ l.repaid = FALSE
      /\ l.pc = answer
  BY <1>1, <1>2 DEF Locals, Pays
<1>4. l \in Locals
  BY <1>1, <1>2, <1>3, CountersOK DEF Locals, Pcs, Before, Reviewing, After, Pays
<1> HIDE DEF l
<1>5. LocalOK(l, ckpts, budgets)
  <2>1. /\ run.turns \in Nat /\ run.sliceTurns \in Nat /\ run.sliceRounds \in Nat
        /\ budgets.turns \in Nat /\ budgets.rounds \in Nat
    BY <1>1, BudgetsOK DEF Locals
  <2>2. Within(l, budgets) /\ Spent(l, budgets) /\ Seen(l.pc, l.final, l.report, l.observed)
    BY <1>1, <1>2, <1>3, <1>4, <2>1 DEF LocalOK, Within, Spent, Seen, Before, Reviewing, After
  <2>3. Unpaid(l.pc, l.paid, l.turns, l.tries)
    BY <1>1, <1>2, <1>3, <1>4, <2>1 DEF LocalOK, Unpaid, Before, Reviewing
  <2>4. ASSUME l.from # 0 PROVE Further(l, ckpts[l.from])
    <3>1. Further(run, ckpts[run.from]) /\ run.from \in 1 .. Len(ckpts)
      BY <1>1, <1>2, <1>3, <1>4, <2>4 DEF LocalOK
    <3>2. ckpts[run.from] \in Checkpoint
      BY <1>1, <3>1 DEF Typed
    <3>3. ckpts[run.from].turns \in Nat
      BY <3>2 DEF Checkpoint
    <3>4. Further(l, ckpts[run.from])
      BY <1>3, <2>1, <3>1, <3>3 DEF Further, Before, Reviewing
    <3>5. QED
      BY <1>3, <3>4
  <2>5. QED
    BY <1>1, <1>2, <1>3, <1>4, <2>2, <2>3, <2>4 DEF LocalOK
<1>6. QED
  BY <1>5 DEF l

(* A delta is asked for within the allowance of the slice *)
LEMMA ResolveLocals ==
  ASSUME LoopInv, run.pc = "memory", ~SliceSpent
  PROVE  LocalOK([run EXCEPT !.pc = "delta", !.parent = run.view],
                 ckpts, budgets)
<1> DEFINE l == [run EXCEPT !.pc = "delta", !.parent = run.view]
<1>1. Typed /\ LocalOK(run, ckpts, budgets) /\ run \in Locals /\ ~run.repaid
  BY DEF LoopInv, LocalOK
<1>2. run.sliceRounds < budgets.rounds /\ run.sliceTurns < budgets.turns
  BY <1>1, BudgetsOK DEF SliceSpent, Locals
<1>3. /\ l.from = run.from /\ l.turns = run.turns /\ l.sliceRounds = run.sliceRounds
      /\ l.sliceTurns = run.sliceTurns /\ l.post = run.post /\ l.final = run.final
      /\ l.report = run.report /\ l.observed = run.observed /\ l.tries = run.tries
      /\ l.paid = run.paid /\ l.repaid = run.repaid /\ l.pc = "delta"
  BY <1>1, <1>2 DEF Locals
<1>4. l \in Locals
  BY <1>1, <1>2, <1>3, CountersOK DEF Locals, Pcs, Before, Reviewing, After
<1> HIDE DEF l
<1>5. LocalOK(l, ckpts, budgets)
  BY <1>1, <1>2, <1>3, <1>4, BudgetsOK
     DEF LocalOK, Within, Spent, Seen, Unpaid, Further, Before, Reviewing, After, Locals
<1>6. QED
  BY <1>5 DEF l

(* A delta is applied *)
LEMMA DeltaLocals ==
  ASSUME LoopInv, run.pc = "delta"
  PROVE  LocalOK([run EXCEPT !.pc = "turn", !.parent = Seed, !.sliceRounds = @ + 1],
                 ckpts, budgets)
<1> DEFINE l == [run EXCEPT !.pc = "turn", !.parent = Seed, !.sliceRounds = @ + 1]
<1>1. Typed /\ LocalOK(run, ckpts, budgets) /\ run \in Locals /\ ~run.repaid
  BY DEF LoopInv, LocalOK
<1>2. Seed \in Views
  BY DEF Seed, Views
<1>3. /\ l.from = run.from /\ l.turns = run.turns
      /\ l.sliceRounds = run.sliceRounds + 1 /\ l.sliceTurns = run.sliceTurns
      /\ l.post = run.post /\ l.final = run.final /\ l.report = run.report
      /\ l.observed = run.observed /\ l.tries = run.tries /\ l.paid = run.paid
      /\ l.repaid = run.repaid /\ l.pc = "turn"
  BY <1>1, <1>2 DEF Locals
<1>4. l \in Locals
  BY <1>1, <1>2, <1>3, CountersOK DEF Locals, Pcs, Before, Reviewing, After
<1> HIDE DEF l
<1>5. LocalOK(l, ckpts, budgets)
  <2>1. /\ run.turns \in Nat /\ run.sliceTurns \in Nat /\ run.sliceRounds \in Nat
        /\ budgets.turns \in Nat /\ budgets.rounds \in Nat
    BY <1>1, BudgetsOK DEF Locals
  <2>2. Within(l, budgets) /\ Spent(l, budgets) /\ Seen(l.pc, l.final, l.report, l.observed)
    BY <1>1, <1>2, <1>3, <1>4, <2>1 DEF LocalOK, Within, Spent, Seen, Before, Reviewing, After
  <2>3. Unpaid(l.pc, l.paid, l.turns, l.tries)
    BY <1>1, <1>2, <1>3, <1>4, <2>1 DEF LocalOK, Unpaid, Before, Reviewing
  <2>4. ASSUME l.from # 0 PROVE Further(l, ckpts[l.from])
    <3>1. Further(run, ckpts[run.from]) /\ run.from \in 1 .. Len(ckpts)
      BY <1>1, <1>2, <1>3, <1>4, <2>4 DEF LocalOK
    <3>2. ckpts[run.from] \in Checkpoint
      BY <1>1, <3>1 DEF Typed
    <3>3. ckpts[run.from].turns \in Nat
      BY <3>2 DEF Checkpoint
    <3>4. Further(l, ckpts[run.from])
      BY <1>3, <2>1, <3>1, <3>3 DEF Further, Before, Reviewing
    <3>5. QED
      BY <1>3, <3>4
  <2>5. QED
    BY <1>1, <1>2, <1>3, <1>4, <2>2, <2>3, <2>4 DEF LocalOK
<1>6. QED
  BY <1>5 DEF l

(* The Draft is a text *)
LEMMA DraftLocals ==
  ASSUME LoopInv, run.pc = "draft"
  PROVE  LocalOK([run EXCEPT !.pc = "drafted", !.draft = NewText, !.final = NewText,
                           !.texts = @ + 1],
                 ckpts, budgets)
<1> DEFINE l == [run EXCEPT !.pc = "drafted", !.draft = NewText, !.final = NewText,
                           !.texts = @ + 1]
<1>1. Typed /\ LocalOK(run, ckpts, budgets) /\ run \in Locals /\ ~run.repaid
  BY DEF LoopInv, LocalOK
<1>2. NewText \in Texts /\ NewText # NoText
  BY <1>1, NewTextOK
<1>3. /\ l.from = run.from /\ l.turns = run.turns /\ l.sliceRounds = run.sliceRounds
      /\ l.sliceTurns = run.sliceTurns /\ l.post = run.post /\ l.final = NewText
      /\ l.report = run.report /\ l.observed = run.observed /\ l.tries = run.tries
      /\ l.paid = run.paid /\ l.repaid = run.repaid /\ l.pc = "drafted"
  BY <1>1, <1>2 DEF Locals
<1>4. l \in Locals
  BY <1>1, <1>2, <1>3, CountersOK DEF Locals, Pcs, Before, Reviewing, After
<1> HIDE DEF l
<1>5. LocalOK(l, ckpts, budgets)
  BY <1>1, <1>2, <1>3, <1>4, BudgetsOK
     DEF LocalOK, Within, Spent, Seen, Unpaid, Further, Before, Reviewing, After, Locals
<1>6. QED
  BY <1>5 DEF l

(* A repair makes a new text, still to be verified *)
LEMMA RepairLocals ==
  ASSUME LoopInv, run.pc = "repair"
  PROVE  LocalOK([Pays(run, <<"repair", run.tries>>)
                   EXCEPT !.pc = "reverify", !.post = @ + 1, !.texts = @ + 1,
                          !.final = NewText],
                 ckpts, budgets)
<1> DEFINE l == [Pays(run, <<"repair", run.tries>>)
                   EXCEPT !.pc = "reverify", !.post = @ + 1, !.texts = @ + 1,
                          !.final = NewText]
<1>1. Typed /\ LocalOK(run, ckpts, budgets) /\ run \in Locals /\ ~run.repaid
  BY DEF LoopInv, LocalOK
<1>2. <<"repair", run.tries>> \in Labels /\ <<"repair", run.tries>> \notin run.paid
  BY <1>1 DEF LocalOK, Unpaid, Locals, Labels, Before, Reviewing, After
<1>3. NewText \in Texts /\ NewText # NoText
  BY <1>1, NewTextOK
<1>4. /\ l.from = run.from /\ l.turns = run.turns /\ l.sliceRounds = run.sliceRounds
      /\ l.sliceTurns = run.sliceTurns /\ l.post = run.post + 1 /\ l.final = NewText
      /\ l.report = run.report /\ l.observed = run.observed /\ l.tries = run.tries
      /\ l.paid = run.paid \cup {<<"repair", run.tries>>} /\ l.repaid = FALSE
      /\ l.pc = "reverify"
  BY <1>1, <1>2, <1>3 DEF Locals, Pays
<1>5. l \in Locals
  BY <1>1, <1>2, <1>3, <1>4, CountersOK DEF Locals, Pcs, Before, Reviewing, After, Pays
<1> HIDE DEF l
<1>6. LocalOK(l, ckpts, budgets)
  BY <1>1, <1>2, <1>3, <1>4, <1>5, BudgetsOK
     DEF LocalOK, Within, Spent, Seen, Unpaid, Further, Before, Reviewing, After, Locals
<1>7. QED
  BY <1>6 DEF l

(* A rewrite makes a new text, still to be reviewed *)
LEMMA RewriteLocals ==
  ASSUME LoopInv, run.pc = "rewrite"
  PROVE  LocalOK([Pays(run, <<"rewrite", run.tries>>)
                   EXCEPT !.pc = "rereview", !.dispatch = "no", !.post = @ + 1,
                          !.texts = @ + 1, !.final = NewText],
                 ckpts, budgets)
<1> DEFINE l == [Pays(run, <<"rewrite", run.tries>>)
                   EXCEPT !.pc = "rereview", !.dispatch = "no", !.post = @ + 1,
                          !.texts = @ + 1, !.final = NewText]
<1>1. Typed /\ LocalOK(run, ckpts, budgets) /\ run \in Locals /\ ~run.repaid
  BY DEF LoopInv, LocalOK
<1>2. <<"rewrite", run.tries>> \in Labels /\ <<"rewrite", run.tries>> \notin run.paid
  BY <1>1 DEF LocalOK, Unpaid, Locals, Labels, Before, Reviewing, After
<1>3. NewText \in Texts /\ NewText # NoText
  BY <1>1, NewTextOK
<1>4. /\ l.from = run.from /\ l.turns = run.turns /\ l.sliceRounds = run.sliceRounds
      /\ l.sliceTurns = run.sliceTurns /\ l.post = run.post + 1 /\ l.final = NewText
      /\ l.report = run.report /\ l.observed = run.observed /\ l.tries = run.tries
      /\ l.paid = run.paid \cup {<<"rewrite", run.tries>>} /\ l.repaid = FALSE
      /\ l.pc = "rereview"
  BY <1>1, <1>2, <1>3 DEF Locals, Pays
<1>5. l \in Locals
  BY <1>1, <1>2, <1>3, <1>4, CountersOK DEF Locals, Pcs, Before, Reviewing, After, Pays
<1> HIDE DEF l
<1>6. LocalOK(l, ckpts, budgets)
  <2>1. /\ run.tries \in Nat /\ run.post \in Nat /\ budgets.rewrites \in Nat
        /\ budgets.repairs \in Nat
    BY <1>1, BudgetsOK DEF Locals
  <2>2. Spent(l, budgets)
    BY <1>1, <1>4, <2>1 DEF LocalOK, Spent, Before, After
  <2>3. QED
    BY <1>1, <1>2, <1>3, <1>4, <1>5, <2>2, BudgetsOK
       DEF LocalOK, Within, Seen, Unpaid, Further, Before, Reviewing, After, Locals
<1>7. QED
  BY <1>6 DEF l

(* The Observer reads the final text *)
LEMMA ObserveLocals ==
  ASSUME LoopInv, run.pc = "observe"
  PROVE  LocalOK([Pays(run, <<"observe", 0>>)
                   EXCEPT !.pc = "observed", !.post = @ + 1, !.observed = run.final],
                 ckpts, budgets)
<1> DEFINE l == [Pays(run, <<"observe", 0>>)
                   EXCEPT !.pc = "observed", !.post = @ + 1, !.observed = run.final]
<1>1. Typed /\ LocalOK(run, ckpts, budgets) /\ run \in Locals /\ ~run.repaid
  BY DEF LoopInv, LocalOK
<1>2. <<"observe", 0>> \in Labels /\ <<"observe", 0>> \notin run.paid
  BY <1>1 DEF LocalOK, Unpaid, Locals, Labels, Before, Reviewing, After
<1>3. /\ l.from = run.from /\ l.turns = run.turns /\ l.sliceRounds = run.sliceRounds
      /\ l.sliceTurns = run.sliceTurns /\ l.post = run.post + 1
      /\ l.final = run.final /\ l.report = run.report /\ l.observed = run.final
      /\ l.tries = run.tries /\ l.paid = run.paid \cup {<<"observe", 0>>}
      /\ l.repaid = FALSE /\ l.pc = "observed"
  BY <1>1, <1>2 DEF Locals, Pays
<1>4. l \in Locals
  BY <1>1, <1>2, <1>3, CountersOK DEF Locals, Pcs, Before, Reviewing, After, Pays
<1> HIDE DEF l
<1>5. LocalOK(l, ckpts, budgets)
  <2>1. /\ run.tries \in Nat /\ run.post \in Nat /\ budgets.rewrites \in Nat
        /\ budgets.repairs \in Nat
    BY <1>1, BudgetsOK DEF Locals
  <2>2. Spent(l, budgets)
    BY <1>1, <1>3, <2>1 DEF LocalOK, Spent, Before, After
  <2>3. QED
    BY <1>1, <1>2, <1>3, <1>4, <2>2, BudgetsOK
       DEF LocalOK, Within, Seen, Unpaid, Further, Before, Reviewing, After, Locals
<1>6. QED
  BY <1>5 DEF l

(* A repair that changed nothing is tried once more *)
LEMMA RetryLocals ==
  ASSUME LoopInv, run.pc = "repair"
  PROVE  LocalOK([run EXCEPT !.tries = @ + 1],
                 ckpts, budgets)
<1> DEFINE l == [run EXCEPT !.tries = @ + 1]
<1>1. Typed /\ LocalOK(run, ckpts, budgets) /\ run \in Locals /\ ~run.repaid
  BY DEF LoopInv, LocalOK
<1>2. /\ l.from = run.from /\ l.turns = run.turns /\ l.sliceRounds = run.sliceRounds
      /\ l.sliceTurns = run.sliceTurns /\ l.post = run.post /\ l.final = run.final
      /\ l.report = run.report /\ l.observed = run.observed
      /\ l.tries = run.tries + 1 /\ l.paid = run.paid /\ l.repaid = run.repaid
      /\ l.pc = "repair"
  BY <1>1 DEF Locals
<1>3. l \in Locals
  BY <1>1, <1>2, CountersOK DEF Locals, Pcs, Before, Reviewing, After
<1> HIDE DEF l
<1>4. LocalOK(l, ckpts, budgets)
  BY <1>1, <1>2, <1>3, BudgetsOK
     DEF LocalOK, Within, Spent, Seen, Unpaid, Further, Before, Reviewing, After, Locals
<1>5. QED
  BY <1>4 DEF l

(* Dispatching only compacts the View. *)
LEMMA PressedLocals ==
  ASSUME LoopInv, NEW d \in {"no", "pressed", "yes"}, NEW v \in Views
  PROVE  LocalOK([run EXCEPT !.dispatch = d, !.parent = v],
                 ckpts, budgets)
<1> DEFINE l == [run EXCEPT !.dispatch = d, !.parent = v]
<1>1. Typed /\ LocalOK(run, ckpts, budgets) /\ run \in Locals /\ ~run.repaid
  BY DEF LoopInv, LocalOK
<1>2. /\ l.from = run.from /\ l.turns = run.turns /\ l.sliceRounds = run.sliceRounds
      /\ l.sliceTurns = run.sliceTurns /\ l.post = run.post /\ l.final = run.final
      /\ l.report = run.report /\ l.observed = run.observed /\ l.tries = run.tries
      /\ l.paid = run.paid /\ l.repaid = run.repaid /\ l.pc = run.pc
  BY <1>1 DEF Locals
<1>3. l \in Locals
  BY <1>1, <1>2, CountersOK DEF Locals, Pcs, Before, Reviewing, After
<1> HIDE DEF l
<1>4. LocalOK(l, ckpts, budgets)
  BY <1>1, <1>2, <1>3, BudgetsOK
     DEF LocalOK, Within, Spent, Seen, Unpaid, Further, Before, Reviewing, After, Locals
<1>5. QED
  BY <1>4 DEF l

(* A fresh attempt plans. *)
LEMMA FreshLocals ==
  ASSUME LoopInv, run.pc = "open", run.from = 0
  PROVE  LocalOK([run EXCEPT !.pc = "plan"],
                 ckpts, budgets)
<1> DEFINE l == [run EXCEPT !.pc = "plan"]
<1>1. Typed /\ LocalOK(run, ckpts, budgets) /\ run \in Locals /\ ~run.repaid
  BY DEF LoopInv, LocalOK
<1>2. /\ l.from = run.from /\ l.turns = run.turns /\ l.sliceRounds = run.sliceRounds
      /\ l.sliceTurns = run.sliceTurns /\ l.post = run.post /\ l.final = run.final
      /\ l.report = run.report /\ l.observed = run.observed /\ l.tries = run.tries
      /\ l.paid = run.paid /\ l.repaid = run.repaid /\ l.pc = "plan"
  BY <1>1 DEF Locals
<1>3. l \in Locals
  BY <1>1, <1>2, CountersOK DEF Locals, Pcs, Before, Reviewing, After
<1> HIDE DEF l
<1>4. LocalOK(l, ckpts, budgets)
  BY <1>1, <1>2, <1>3, BudgetsOK
     DEF LocalOK, Within, Spent, Seen, Unpaid, Further, Before, Reviewing, After, Locals
<1>5. QED
  BY <1>4 DEF l

(* Where a review leads, with the View v its event leaves *)
ReviewTarget(local, next, v) ==
  LET l == [local EXCEPT !.view = v, !.post = @ + 1]
  IN IF next = "rewrite" THEN Rewriting(l) ELSE [l EXCEPT !.pc = next]

(* The first review *)
LEMMA ReviewLocals ==
  ASSUME LoopInv, ReviewPc, NEW verdict \in Verdicts, NEW v \in Views,
         NEW next \in {"observe", "repair", "rewrite"}, next = "observe" => verdict = "PASS",
         next = "repair" => budgets.repairs > 0, next = "rewrite" => budgets.rewrites > 0
  PROVE  LocalOK(ReviewTarget([Pays(run, <<"review", 0>>)
                                 EXCEPT !.report = ReportOf(verdict), !.pc = "review"],
                              next, v), ckpts, budgets)
<1> DEFINE local == [Pays(run, <<"review", 0>>)
                                 EXCEPT !.report = ReportOf(verdict), !.pc = "review"]
           l == ReviewTarget(local, next, v)
           tries == IF next = "rewrite" THEN run.tries + 1 ELSE run.tries
           view == IF next = "rewrite" THEN PutWorkingItem(v) ELSE v
<1>1. Typed /\ LocalOK(run, ckpts, budgets) /\ run \in Locals /\ ~run.repaid
  BY DEF LoopInv, LocalOK
<1>2. <<"review", 0>> \in Labels /\ <<"review", 0>> \notin run.paid
  BY <1>1 DEF LocalOK, Unpaid, Locals, Labels, Before, Reviewing, After, ReviewPc
<1>3. ReportOf(verdict) \in Reports /\ ReportOf(verdict) = [of |-> run.final, verdict |-> verdict]
  BY <1>1 DEF ReportOf, Reports, Locals
<1>4. view \in Views /\ tries \in Nat
  <2>1. v.rev + 1 \in Int /\ v.unlogged + 1 \in Nat
    BY DEF Views
  <2>2. PutWorkingItem(v) \in Views
    BY <2>1 DEF PutWorkingItem, Views
  <2>3. run.tries \in Nat /\ run.tries + 1 \in Nat
    BY <1>1, CountersOK DEF Locals
  <2>4. QED
    BY <2>2, <2>3
<1>5. /\ local \in Locals /\ local.from = run.from /\ local.turns = run.turns
      /\ local.sliceRounds = run.sliceRounds /\ local.sliceTurns = run.sliceTurns
      /\ local.post = run.post /\ local.final = run.final /\ local.observed = run.observed
      /\ local.tries = run.tries /\ local.repaid = FALSE
      /\ local.paid = run.paid \cup {<<"review", 0>>} /\ local.report = ReportOf(verdict)
  BY <1>1, <1>2, <1>3 DEF Pays, Locals, Pcs, Reviewing
<1> HIDE DEF local
<1>6. l = IF next = "rewrite"
            THEN [local EXCEPT !.view = view, !.post = @ + 1, !.pc = next, !.dispatch = "no",
                               !.tries = tries]
            ELSE [local EXCEPT !.view = view, !.post = @ + 1, !.pc = next]
  BY <1>5 DEF ReviewTarget, Rewriting, Locals
<1> HIDE DEF l, view
<1>7. l \in Locals
  <2>1. local.post + 1 \in Nat
    BY <1>5, CountersOK
  <2> HIDE DEF tries
  <2>2. QED
    BY <1>4, <1>5, <1>6, <2>1 DEF Locals, Pcs, Reviewing, After
<1>8. /\ l.pc = next /\ l.from = run.from /\ l.turns = run.turns
      /\ l.sliceRounds = run.sliceRounds /\ l.sliceTurns = run.sliceTurns
      /\ l.post = run.post + 1 /\ l.final = run.final /\ l.observed = run.observed
      /\ l.tries = tries /\ l.repaid = FALSE
      /\ l.paid = run.paid \cup {<<"review", 0>>} /\ l.report = ReportOf(verdict)
  BY <1>5, <1>6 DEF Locals
<1>9. Unpaid(l.pc, l.paid, l.turns, l.tries)
  BY <1>1, <1>2, <1>8 DEF LocalOK, Unpaid, Before, Reviewing, After, Locals, ReviewPc
<1>10. LocalOK(l, ckpts, budgets)
  <2>1. /\ run.tries \in Nat /\ run.post \in Nat /\ budgets.rewrites \in Nat
        /\ budgets.repairs \in Nat
    BY <1>1, BudgetsOK DEF Locals
  <2>2. Spent(l, budgets)
    BY <1>1, <1>8, <2>1 DEF LocalOK, Spent, Before, After, ReviewPc
  <2>3. QED
    BY <1>1, <1>3, <1>7, <1>8, <1>9, <2>2, BudgetsOK
       DEF LocalOK, Within, Seen, Further, Before, Reviewing, After, Locals, ReviewPc
<1>11. QED
  BY <1>10 DEF l, local

(* The review of a repaired text *)
LEMMA ReverifyLocals ==
  ASSUME LoopInv, run.pc = "reverify", NEW verdict \in Verdicts, NEW v \in Views,
         NEW next \in {"observe"}, next = "observe" => verdict = "PASS"
  PROVE  LocalOK(ReviewTarget([Pays(run, <<"reverify", run.tries>>)
                                 EXCEPT !.report = ReportOf(verdict)],
                              next, v), ckpts, budgets)
<1> DEFINE local == [Pays(run, <<"reverify", run.tries>>)
                                 EXCEPT !.report = ReportOf(verdict)]
           l == ReviewTarget(local, next, v)
           tries == IF next = "rewrite" THEN run.tries + 1 ELSE run.tries
           view == IF next = "rewrite" THEN PutWorkingItem(v) ELSE v
<1>1. Typed /\ LocalOK(run, ckpts, budgets) /\ run \in Locals /\ ~run.repaid
  BY DEF LoopInv, LocalOK
<1>2. <<"reverify", run.tries>> \in Labels /\ <<"reverify", run.tries>> \notin run.paid
  BY <1>1 DEF LocalOK, Unpaid, Locals, Labels, Before, Reviewing, After, ReviewPc
<1>3. ReportOf(verdict) \in Reports /\ ReportOf(verdict) = [of |-> run.final, verdict |-> verdict]
  BY <1>1 DEF ReportOf, Reports, Locals
<1>4. view \in Views /\ tries \in Nat
  <2>1. v.rev + 1 \in Int /\ v.unlogged + 1 \in Nat
    BY DEF Views
  <2>2. PutWorkingItem(v) \in Views
    BY <2>1 DEF PutWorkingItem, Views
  <2>3. run.tries \in Nat /\ run.tries + 1 \in Nat
    BY <1>1, CountersOK DEF Locals
  <2>4. QED
    BY <2>2, <2>3
<1>5. /\ local \in Locals /\ local.from = run.from /\ local.turns = run.turns
      /\ local.sliceRounds = run.sliceRounds /\ local.sliceTurns = run.sliceTurns
      /\ local.post = run.post /\ local.final = run.final /\ local.observed = run.observed
      /\ local.tries = run.tries /\ local.repaid = FALSE
      /\ local.paid = run.paid \cup {<<"reverify", run.tries>>} /\ local.report = ReportOf(verdict)
  BY <1>1, <1>2, <1>3 DEF Pays, Locals, Pcs, Reviewing
<1> HIDE DEF local
<1>6. l = IF next = "rewrite"
            THEN [local EXCEPT !.view = view, !.post = @ + 1, !.pc = next, !.dispatch = "no",
                               !.tries = tries]
            ELSE [local EXCEPT !.view = view, !.post = @ + 1, !.pc = next]
  BY <1>5 DEF ReviewTarget, Rewriting, Locals
<1> HIDE DEF l, view
<1>7. l \in Locals
  <2>1. local.post + 1 \in Nat
    BY <1>5, CountersOK
  <2> HIDE DEF tries
  <2>2. QED
    BY <1>4, <1>5, <1>6, <2>1 DEF Locals, Pcs, Reviewing, After
<1>8. /\ l.pc = next /\ l.from = run.from /\ l.turns = run.turns
      /\ l.sliceRounds = run.sliceRounds /\ l.sliceTurns = run.sliceTurns
      /\ l.post = run.post + 1 /\ l.final = run.final /\ l.observed = run.observed
      /\ l.tries = tries /\ l.repaid = FALSE
      /\ l.paid = run.paid \cup {<<"reverify", run.tries>>} /\ l.report = ReportOf(verdict)
  BY <1>5, <1>6 DEF Locals
<1>9. Unpaid(l.pc, l.paid, l.turns, l.tries)
  BY <1>1, <1>2, <1>8 DEF LocalOK, Unpaid, Before, Reviewing, After, Locals, ReviewPc
<1>10. LocalOK(l, ckpts, budgets)
  <2>1. /\ run.tries \in Nat /\ run.post \in Nat /\ budgets.rewrites \in Nat
        /\ budgets.repairs \in Nat
    BY <1>1, BudgetsOK DEF Locals
  <2>2. Spent(l, budgets)
    BY <1>1, <1>8, <2>1 DEF LocalOK, Spent, Before, After, ReviewPc
  <2>3. QED
    BY <1>1, <1>3, <1>7, <1>8, <1>9, <2>2, BudgetsOK
       DEF LocalOK, Within, Seen, Further, Before, Reviewing, After, Locals, ReviewPc
<1>11. QED
  BY <1>10 DEF l, local

(* The review of a rewritten text *)
LEMMA RereviewLocals ==
  ASSUME LoopInv, run.pc = "rereview", NEW verdict \in Verdicts, NEW v \in Views,
         NEW next \in {"observe", "rewrite"}, next = "observe" => verdict = "PASS",
         next = "rewrite" => run.tries < budgets.rewrites
  PROVE  LocalOK(ReviewTarget([Pays(run, <<"rereview", run.tries>>)
                                 EXCEPT !.report = ReportOf(verdict)],
                              next, v), ckpts, budgets)
<1> DEFINE local == [Pays(run, <<"rereview", run.tries>>)
                                 EXCEPT !.report = ReportOf(verdict)]
           l == ReviewTarget(local, next, v)
           tries == IF next = "rewrite" THEN run.tries + 1 ELSE run.tries
           view == IF next = "rewrite" THEN PutWorkingItem(v) ELSE v
<1>1. Typed /\ LocalOK(run, ckpts, budgets) /\ run \in Locals /\ ~run.repaid
  BY DEF LoopInv, LocalOK
<1>2. <<"rereview", run.tries>> \in Labels /\ <<"rereview", run.tries>> \notin run.paid
  BY <1>1 DEF LocalOK, Unpaid, Locals, Labels, Before, Reviewing, After, ReviewPc
<1>3. ReportOf(verdict) \in Reports /\ ReportOf(verdict) = [of |-> run.final, verdict |-> verdict]
  BY <1>1 DEF ReportOf, Reports, Locals
<1>4. view \in Views /\ tries \in Nat
  <2>1. v.rev + 1 \in Int /\ v.unlogged + 1 \in Nat
    BY DEF Views
  <2>2. PutWorkingItem(v) \in Views
    BY <2>1 DEF PutWorkingItem, Views
  <2>3. run.tries \in Nat /\ run.tries + 1 \in Nat
    BY <1>1, CountersOK DEF Locals
  <2>4. QED
    BY <2>2, <2>3
<1>5. /\ local \in Locals /\ local.from = run.from /\ local.turns = run.turns
      /\ local.sliceRounds = run.sliceRounds /\ local.sliceTurns = run.sliceTurns
      /\ local.post = run.post /\ local.final = run.final /\ local.observed = run.observed
      /\ local.tries = run.tries /\ local.repaid = FALSE
      /\ local.paid = run.paid \cup {<<"rereview", run.tries>>} /\ local.report = ReportOf(verdict)
  BY <1>1, <1>2, <1>3 DEF Pays, Locals, Pcs, Reviewing
<1> HIDE DEF local
<1>6. l = IF next = "rewrite"
            THEN [local EXCEPT !.view = view, !.post = @ + 1, !.pc = next, !.dispatch = "no",
                               !.tries = tries]
            ELSE [local EXCEPT !.view = view, !.post = @ + 1, !.pc = next]
  BY <1>5 DEF ReviewTarget, Rewriting, Locals
<1> HIDE DEF l, view
<1>7. l \in Locals
  <2>1. local.post + 1 \in Nat
    BY <1>5, CountersOK
  <2> HIDE DEF tries
  <2>2. QED
    BY <1>4, <1>5, <1>6, <2>1 DEF Locals, Pcs, Reviewing, After
<1>8. /\ l.pc = next /\ l.from = run.from /\ l.turns = run.turns
      /\ l.sliceRounds = run.sliceRounds /\ l.sliceTurns = run.sliceTurns
      /\ l.post = run.post + 1 /\ l.final = run.final /\ l.observed = run.observed
      /\ l.tries = tries /\ l.repaid = FALSE
      /\ l.paid = run.paid \cup {<<"rereview", run.tries>>} /\ l.report = ReportOf(verdict)
  BY <1>5, <1>6 DEF Locals
<1>9. Unpaid(l.pc, l.paid, l.turns, l.tries)
  BY <1>1, <1>2, <1>8 DEF LocalOK, Unpaid, Before, Reviewing, After, Locals, ReviewPc
<1>10. LocalOK(l, ckpts, budgets)
  <2>1. /\ run.tries \in Nat /\ run.post \in Nat /\ budgets.rewrites \in Nat
        /\ budgets.repairs \in Nat
    BY <1>1, BudgetsOK DEF Locals
  <2>2. Spent(l, budgets)
    <3>1. run.tries <= budgets.rewrites /\ run.post = 2 * run.tries
      BY <1>1 DEF LocalOK, Spent
    <3>2. CASE next = "observe"
      <4>1. l.pc = "observe" /\ l.post <= 1 + 2 * budgets.rewrites
        BY <1>8, <2>1, <3>1, <3>2
      <4>2. QED
        BY <1>7, <2>1, <4>1 DEF Spent, Before, After, Locals
    <3>3. CASE next = "rewrite"
      <4>1. /\ l.pc = "rewrite" /\ l.tries = run.tries + 1 /\ l.post = 2 * l.tries - 1
            /\ l.tries <= budgets.rewrites
        BY <1>8, <2>1, <3>1, <3>3
      <4>2. QED
        BY <2>1, <4>1 DEF Spent, Before, After
    <3>4. QED
      BY <3>2, <3>3
  <2>3. QED
    BY <1>1, <1>3, <1>7, <1>8, <1>9, <2>2, BudgetsOK
       DEF LocalOK, Within, Seen, Further, Before, Reviewing, After, Locals, ReviewPc
<1>11. QED
  BY <1>10 DEF l, local

(* A checkpoint restores locals the invariant allows. *)
LEMMA ResumeLocals ==
  ASSUME LoopInv, run.pc = "open", run.from # 0, Replay(saved) # Broken
  PROVE  LocalOK(Resume, ckpts, budgets) /\ Resume.pc # "none"
         /\ Resume.view = Replay(saved)
<1> DEFINE c == ckpts[run.from]
           v == Replay(saved)
           l == Resume
<1>1. Typed /\ LocalOK(run, ckpts, budgets) /\ run \in Locals /\ ~run.repaid
  BY DEF LoopInv, LocalOK
<1>2. run.from \in DOMAIN ckpts /\ c \in Checkpoint /\ CheckpointOK(c)
  BY <1>1 DEF LoopInv, LocalOK, Typed, CheckpointsOK
<1>3. v \in Views
  BY <1>1, ReplayOK DEF Typed, ViewOK
<1>4. l = [run EXCEPT !.pc = PhasePc(c.phase), !.view = v, !.turns = c.turns,
                      !.draft = c.draft, !.final = c.final, !.report = c.report,
                      !.observed = c.observed, !.paid = c.paid]
  BY DEF Resume
<1>5. /\ c.phase \in {"REACTIVE_MEMORY_PENDING", "EDITOR_PENDING", "OBSERVER_PENDING",
                      "RECONCILIATION_PENDING"}
      /\ c.turns \in Nat /\ c.draft \in Texts /\ c.final \in Texts /\ c.report \in Reports
      /\ c.observed \in Texts /\ c.paid \in SUBSET Labels
  <2>1. Range(Phases) = {"REACTIVE_MEMORY_PENDING", "EDITOR_PENDING", "OBSERVER_PENDING",
                         "RECONCILIATION_PENDING"}
    BY DEF Range, Phases
  <2>2. QED
    BY <1>2, <2>1 DEF Checkpoint, Texts, Reports
<1>6. /\ PhasePc(c.phase) \in {"memory", "review", "observe", "reconcile"}
      /\ PhasePc(c.phase) = "memory" <=> c.phase = "REACTIVE_MEMORY_PENDING"
      /\ PhasePc(c.phase) = "review" <=> c.phase = "EDITOR_PENDING"
      /\ PhasePc(c.phase) = "observe" <=> c.phase = "OBSERVER_PENDING"
  BY <1>5 DEF PhasePc
<1> DEFINE q == PhasePc(c.phase)
<1>7. run.sliceRounds = 0 /\ run.sliceTurns = 0 /\ run.post = 0 /\ run.tries = 0
  BY <1>1 DEF LocalOK, Within, Spent
<1>8. Seen(q, c.final, c.report, c.observed) /\ Unpaid(q, c.paid, c.turns, 0)
  BY <1>2 DEF CheckpointOK
<1> HIDE DEF c, v, l
<1>9. /\ l.pc = q /\ l.from = run.from /\ l.turns = c.turns /\ l.sliceRounds = 0
      /\ l.sliceTurns = 0 /\ l.post = 0 /\ l.final = c.final /\ l.report = c.report
      /\ l.observed = c.observed /\ l.paid = c.paid /\ l.repaid = FALSE
      /\ l.tries = 0 /\ l.view = v
  BY <1>1, <1>4, <1>7 DEF Locals
<1>10. l \in Locals
  BY <1>1, <1>3, <1>4, <1>5, <1>6 DEF Locals, Pcs, Before, Reviewing, After
<1> HIDE DEF q
<1>11. Unpaid(l.pc, l.paid, l.turns, l.tries)
  BY <1>6, <1>8, <1>9 DEF Unpaid, q
<1>12. l.from # 0 => Further(l, c)
  BY <1>5, <1>6, <1>9 DEF Further, Before, Reviewing, q
<1>13. LocalOK(l, ckpts, budgets)
  BY <1>1, <1>6, <1>8, <1>9, <1>10, <1>11, <1>12, BudgetsOK DEF LocalOK, Within, Spent, c, q
<1>14. QED
  BY <1>6, <1>9, <1>13 DEF l, v, q

-----------------------------------------------------------------------------
(* From what a step does to the invariant                                  *)

(* No attempt runs. *)
LEMMA NotRunningOK ==
  ASSUME Typed
  PROVE  LocalOK(NotRunning, ckpts, budgets) /\ ViewOK(Seed, log) /\ NotRunning.view = Seed
         /\ NotRunning.pc = "none"
<1>1. Seed \in Views /\ Seed # Broken /\ Seed.pos = 0
  BY DEF Seed, Views, Broken
<1>2. NoReport \in Reports /\ NoText \in Texts
  BY DEF NoReport, Reports, NoText, Texts
<1>3. NotRunning \in Locals
  BY <1>1, <1>2 DEF NotRunning, Locals, Pcs
<1>4. Len(ckpts) \in Nat /\ Len(log) \in Nat
  BY DEF Typed
<1>5. LocalOK(NotRunning, ckpts, budgets)
  BY <1>3, <1>4, BudgetsOK
     DEF LocalOK, Within, Spent, Seen, Unpaid, NotRunning, Before, Reviewing, After
<1>6. QED
  BY <1>1, <1>4, <1>5 DEF NotRunning, ViewOK

(* What a step leaves of the invariant outside the attempt *)
Framed ==
  budgets' = budgets /\ attempts' \in Nat /\ ViewOK(saved', log') /\ ViewOK(stray'.view, log')

(* Work preserves the invariant. *)
LEMMA WorkedInv ==
  ASSUME LoopInv, Worked, Framed
  PROVE  LoopInv'
<1>1. Typed
  BY DEF LoopInv
<1>2. /\ LocalOK(run', ckpts, budgets) /\ ViewOK(run'.view, log') /\ TaskKept
      /\ run'.pc # "none" => status' = "RUNNING"
      /\ status' = "SUCCEEDED" => status = "SUCCEEDED"
  <2>1. CASE Stopped
    <3>1. run' = NotRunning /\ status' # "SUCCEEDED" /\ TaskKept
      BY <2>1 DEF Stopped
    <3>2. ViewOK(Seed, log')
      BY DEF Worked, ViewOK, Seed, Views, Broken
    <3>3. QED
      BY <1>1, <3>1, <3>2, NotRunningOK
  <2>2. CASE ~Stopped
    BY <2>2 DEF Worked
  <2>3. QED
    BY <2>1, <2>2
<1>3. ckpts' = ckpts /\ log' \in Seq(Events)
  BY DEF Worked
<1>4. Typed'
  BY <1>1, <1>2, <1>3 DEF Typed, TaskKept, Framed, Live
<1>5. LocalOK(run, ckpts, budgets)'
  BY <1>2, <1>3 DEF Framed
<1>6. CheckpointsOK' /\ YieldAdvances'
  BY <1>3 DEF LoopInv, CheckpointsOK, YieldAdvances, Framed
<1>7. ReadyIsReviewed'
  BY <1>2 DEF LoopInv, ReadyIsReviewed, TaskKept
<1>8. QED
  BY <1>4, <1>5, <1>6, <1>7 DEF LoopInv

(* The four phases come in this order. *)
LEMMA IndexOK ==
  /\ Index("REACTIVE_MEMORY_PENDING") = 1 /\ Index("EDITOR_PENDING") = 2
  /\ Index("OBSERVER_PENDING") = 3 /\ Index("RECONCILIATION_PENDING") = 4
  /\ Range(Phases) = {"REACTIVE_MEMORY_PENDING", "EDITOR_PENDING", "OBSERVER_PENDING",
                      "RECONCILIATION_PENDING"}
<1>1. DOMAIN Phases = 1 .. 4
  BY DEF Phases
<1>2. /\ Phases[1] = "REACTIVE_MEMORY_PENDING" /\ Phases[2] = "EDITOR_PENDING"
      /\ Phases[3] = "OBSERVER_PENDING" /\ Phases[4] = "RECONCILIATION_PENDING"
  BY DEF Phases
<1>3. ASSUME NEW phase, NEW i \in 1 .. 4, Phases[i] = phase,
             \A j \in 1 .. 4 : Phases[j] = phase => j = i
      PROVE  Index(phase) = i
  BY <1>1, <1>3 DEF Index
<1>4. Index("REACTIVE_MEMORY_PENDING") = 1
  BY <1>2, <1>3
<1>5. Index("EDITOR_PENDING") = 2
  BY <1>2, <1>3
<1>6. Index("OBSERVER_PENDING") = 3
  BY <1>2, <1>3
<1>7. Index("RECONCILIATION_PENDING") = 4
  BY <1>2, <1>3
<1>8. Range(Phases) = {"REACTIVE_MEMORY_PENDING", "EDITOR_PENDING", "OBSERVER_PENDING",
                       "RECONCILIATION_PENDING"}
  BY DEF Range, Phases
<1>9. QED
  BY <1>4, <1>5, <1>6, <1>7, <1>8

(* Checkpoint p is behind a slice that yields at a phase after a number of turns. *)
Ahead(phase, turns, p) ==
  Index(phase) > Index(p.phase) \/ (phase = p.phase /\ turns > p.turns)

(* A yield at a place its phase leads back to, further than the slice began *)
LEMMA YieldsInv ==
  ASSUME LoopInv, NEW phase \in Range(Phases), Yields(phase),
         Seen(PhasePc(phase), run.final, run.report, run.observed),
         Unpaid(PhasePc(phase), run.paid, run.turns, 0),
         run.from # 0 /\ budgets.post > 0 => Ahead(phase, run.turns, ckpts[run.from])
  PROVE  LoopInv'
<1> DEFINE c == [phase |-> phase, from |-> run.from, turns |-> run.turns,
                 draft |-> run.draft, final |-> run.final, report |-> run.report,
                 observed |-> run.observed, paid |-> run.paid]
           n == Len(ckpts)
<1>1. /\ ckpts' = Append(ckpts, c) /\ run' = NotRunning
      /\ Settle("READY", Append(Artifacts, n + 1))
      /\ UNCHANGED <<budgets, attempts, log, saved, result, stray>>
  BY DEF Yields, Ends, Becomes, bounds
<1>2. Typed /\ LocalOK(run, ckpts, budgets) /\ run \in Locals /\ run.from \in 0 .. n
  BY DEF LoopInv, LocalOK
<1>3. c \in Checkpoint
  BY <1>2 DEF Checkpoint, Locals, Texts, Reports
<1>4. CheckpointOK(c) /\ c.from = run.from /\ c.phase = phase /\ c.turns = run.turns
  BY DEF CheckpointOK
<1> HIDE DEF c
<1>5. /\ ckpts \in Seq(Checkpoint) /\ n \in Nat /\ ckpts' \in Seq(Checkpoint)
      /\ Len(ckpts') = n + 1 /\ DOMAIN ckpts' = 1 .. n + 1 /\ DOMAIN ckpts = 1 .. n
      /\ ckpts'[n + 1] = c /\ \A i \in 1 .. n : ckpts'[i] = ckpts[i]
  BY <1>1, <1>2, <1>3 DEF Typed
<1> HIDE DEF n
<1>6. refs' \in Seq(1 .. n + 1) /\ eventRefs' \in Seq(1 .. n + 1) /\ status' = "READY"
  <2> DEFINE S == 1 .. n + 1
  <2>1. Artifacts \in Seq(1 .. n) /\ eventRefs \in Seq(1 .. n)
    BY <1>2, LineageOK DEF Typed, n
  <2>2. \A i \in 1 .. n : i \in S
    BY <1>5
  <2>3. Artifacts \in Seq(S) /\ eventRefs \in Seq(S) /\ n + 1 \in S
    BY <1>5, <2>1, <2>2
  <2> HIDE DEF S
  <2> DEFINE rs == Append(Artifacts, n + 1)
             s == eventRefs \o rs
  <2>4. rs \in Seq(S) /\ s \in Seq(S)
    BY <2>3
  <2>5. refs' = rs /\ eventRefs' = Dedup(s) /\ status' = "READY"
    BY <1>1 DEF Settle
  <2> HIDE DEF s, rs
  <2>6. Dedup(s) \in Seq(S)
    BY <2>4, DedupSeq
  <2>7. QED
    BY <2>4, <2>5, <2>6 DEF S
<1>7. Typed'
  <2>1. run'.view = Seed /\ run'.pc = "none" /\ ViewOK(Seed, log)
    BY <1>1, <1>2, NotRunningOK
  <2>2. QED
    BY <1>1, <1>2, <1>5, <1>6, <2>1 DEF Typed, Live, Statuses
<1>8. LocalOK(run, ckpts, budgets)'
  <2>1. LocalOK(NotRunning, ckpts, budgets)'
    BY <1>7, NotRunningOK, PTL
  <2>2. QED
    BY <1>1, <2>1
<1>9. CheckpointsOK'
  <2>1. ASSUME NEW i \in 1 .. n + 1
        PROVE  CheckpointOK(ckpts'[i]) /\ ckpts'[i].from \in 0 .. i - 1
    <3>1. CASE i = n + 1
      BY <1>2, <1>4, <1>5, <3>1 DEF n
    <3>2. CASE i # n + 1
      <4>1. i \in 1 .. n
        BY <1>5, <3>2
      <4>2. QED
        BY <1>5, <4>1 DEF LoopInv, CheckpointsOK
    <3>3. QED
      BY <3>1, <3>2
  <2>2. QED
    BY <1>5, <2>1 DEF CheckpointsOK
<1>10. YieldAdvances'
  <2> SUFFICES ASSUME NEW i \in 1 .. n + 1, ckpts'[i].from # 0, budgets.post > 0
               PROVE  Ahead(ckpts'[i].phase, ckpts'[i].turns, ckpts'[ckpts'[i].from])
    BY <1>1, <1>5 DEF YieldAdvances, Ahead
  <2>1. CASE i = n + 1
    <3>1. ckpts'[i] = c /\ c.from \in 1 .. n
      BY <1>2, <1>4, <1>5, <2>1 DEF n
    <3>2. QED
      BY <1>4, <1>5, <3>1
  <2>2. CASE i # n + 1
    <3>1. i \in 1 .. n /\ ckpts'[i] = ckpts[i]
      BY <1>5, <2>2
    <3>2. ckpts[i].from \in 1 .. n
      BY <1>5, <3>1 DEF LoopInv, CheckpointsOK
    <3>3. QED
      BY <1>5, <3>1, <3>2 DEF LoopInv, YieldAdvances, Ahead
  <2>3. QED
    BY <2>1, <2>2
<1>11. ReadyIsReviewed'
  BY <1>6 DEF ReadyIsReviewed
<1>12. QED
  BY <1>7, <1>8, <1>9, <1>10, <1>11 DEF LoopInv

-----------------------------------------------------------------------------
(* The actions                                                             *)

(* The Views still stand in a log that has only grown. *)
LEMMA SavedKept ==
  ASSUME LoopInv, log' \in Seq(Events), Len(log) <= Len(log')
  PROVE  ViewOK(saved, log') /\ ViewOK(stray.view, log') /\ ViewOK(run.view, log')
<1>1. /\ ViewOK(saved, log) /\ ViewOK(stray.view, log) /\ ViewOK(run.view, log)
      /\ Len(log) \in Nat /\ Len(log') \in Nat
  BY DEF LoopInv, Typed
<1>2. ASSUME NEW v, ViewOK(v, log) PROVE ViewOK(v, log')
  BY <1>1, <1>2 DEF ViewOK, Views
<1>3. QED
  BY <1>1, <1>2

(* The attempt stops and the log is left alone. *)
LEMMA StoppedInv ==
  ASSUME LoopInv, Stopped,
         UNCHANGED <<budgets, attempts, ckpts, log, saved, stray>>
  PROVE  LoopInv'
<1>1. log \in Seq(Events) /\ Len(log) \in Nat /\ attempts \in Nat
  BY DEF LoopInv, Typed
<1>2. Worked
  BY <1>1 DEF Worked
<1>3. Framed
  BY <1>1, SavedKept DEF Framed
<1>4. QED
  BY <1>2, <1>3, WorkedInv

(* The attempt takes a step of its own and the log is left alone. *)
LEMMA LocalInv ==
  ASSUME LoopInv, NEW l, LocalOK(l, ckpts, budgets), ViewOK(l.view, log), run' = l,
         l.pc # "none" => status = "RUNNING",
         UNCHANGED <<budgets, attempts, ckpts, log, saved, stray>>, UNCHANGED task
  PROVE  LoopInv'
<1>1. log \in Seq(Events) /\ Len(log) \in Nat /\ attempts \in Nat
  BY DEF LoopInv, Typed
<1>2. TaskKept /\ status' = status
  BY DEF LoopInv, Typed, TaskKept, task
<1>3. Worked
  BY <1>1, <1>2 DEF Worked
<1>4. Framed
  BY <1>1, SavedKept DEF Framed
<1>5. QED
  BY <1>3, <1>4, WorkedInv

(* A step that appends an event and saves what it leaves, or does not save *)
LEMMA StepInv ==
  ASSUME LoopInv, Live, NEW e \in Events \cup {Mark}, NEW l, Step(e, l),
         LocalOK(l, ckpts, budgets), UNCHANGED <<budgets, attempts, ckpts, stray>>,
         SavesNext(e) \/ UNCHANGED saved
  PROVE  LoopInv'
<1>1. Worked
  BY StepOK
<1>2. Typed /\ Appends(e)
  BY DEF LoopInv, Step
<1>3. ViewOK(saved', log')
  <2>1. CASE SavesNext(e)
    BY <1>2, <2>1, SavesOK
  <2>2. CASE UNCHANGED saved
    BY <1>1, <2>2, SavedKept DEF Worked
  <2>3. QED
    BY <2>1, <2>2
<1>4. QED
  BY <1>1, <1>2, <1>3, SavedKept, WorkedInv DEF Framed, Typed, Worked

(* A review, its event and where it leads *)
LEMMA ReviewedInv ==
  ASSUME LoopInv, Live, NEW local, NEW next, Reviewed(local, next), local \in Locals,
         next # "exhausted" =>
           \A v \in Views : LocalOK(ReviewTarget(local, next, v), ckpts, budgets)
  PROVE  LoopInv'
<1> DEFINE v == ViewAfter(Mark)
<1>1. Typed /\ LocalOK(run, ckpts, budgets) /\ Appends(Mark)
      /\ UNCHANGED <<budgets, attempts, ckpts, saved, stray>>
  BY DEF LoopInv, Reviewed, bounds
<1>2. /\ log' \in Seq(Events) /\ Len(log) <= Len(log') /\ v \in Views
      /\ v # Broken => v.pos = Len(log')
  BY <1>1, AppendsOK
<1>3. Framed
  BY <1>1, <1>2, SavedKept DEF Framed, Typed
<1>4. Stopped \/ (v # Broken /\ next # "exhausted")
  BY <1>1, ProjectionFailsOK, ReturnsOK DEF Reviewed
<1>5. CASE Stopped
  <2>1. Worked
    BY <1>1, <1>2, <1>5 DEF Worked
  <2>2. QED
    BY <1>3, <2>1, WorkedInv
<1>6. CASE v # Broken /\ next # "exhausted"
  <2>1. run' = ReviewTarget(local, next, v) /\ UNCHANGED task
    BY <1>6 DEF Reviewed, ReviewTarget, Becomes
  <2> HIDE DEF v
  <2>2. LocalOK(run', ckpts, budgets)
    BY <1>2, <1>6, <2>1
  <2>3. ViewOK(run'.view, log')
    <3>1. run'.view = v \/ run'.view = PutWorkingItem(v)
      BY <1>2, <2>1 DEF ReviewTarget, Rewriting, Locals
    <3>2. PutWorkingItem(v).pos = v.pos /\ PutWorkingItem(v).unlogged = v.unlogged + 1
          /\ v.unlogged \in Nat
      BY <1>2 DEF PutWorkingItem, Views
    <3>3. PutWorkingItem(v) # Broken
      BY <3>2 DEF Broken
    <3>4. run'.view \in Views
      BY <2>2 DEF LocalOK, Locals
    <3>5. Len(log') \in Nat
      BY <1>2
    <3>6. QED
      BY <1>2, <1>6, <3>1, <3>2, <3>3, <3>4, <3>5 DEF ViewOK
  <2>4. TaskKept /\ status' = "RUNNING"
    BY <1>1, <2>1 DEF TaskKept, task, Typed
  <2>5. Worked
    BY <1>1, <1>2, <2>2, <2>3, <2>4 DEF Worked
  <2>6. QED
    BY <1>3, <2>5, WorkedInv
<1>7. QED
  BY <1>4, <1>5, <1>6

(* Claiming, opening and dispatching *)
LEMMA ClaimInv ==
  ASSUME LoopInv, Claim
  PROVE  LoopInv'
<1> DEFINE l == [NotRunning EXCEPT !.pc = "open", !.from = ResumeRef]
<1>1. Typed /\ run' = l /\ status' = "RUNNING" /\ attempts' = attempts + 1
      /\ UNCHANGED <<budgets, refs, eventRefs, ckpts, log, saved, result, stray>>
  BY DEF LoopInv, Claim, Becomes, bounds
<1>2. ResumeRef \in 0 .. Len(ckpts) /\ ResumeRef \in Nat
  <2>1. refs \in Seq(1 .. Len(ckpts)) /\ Len(ckpts) \in Nat
    BY <1>1 DEF Typed
  <2>2. CASE refs = << >>
    BY <2>1, <2>2 DEF ResumeRef
  <2>3. CASE refs # << >>
    <3>1. Len(refs) \in 1 .. Len(refs)
      BY <2>1, <2>3
    <3>2. refs[Len(refs)] \in 1 .. Len(ckpts)
      BY <2>1, <3>1
    <3>3. QED
      BY <2>1, <2>3, <3>2 DEF ResumeRef, Last
  <2>4. QED
    BY <2>2, <2>3
<1>3. LocalOK(NotRunning, ckpts, budgets) /\ ViewOK(Seed, log) /\ NotRunning.view = Seed
  BY <1>1, NotRunningOK
<1>4. /\ l \in Locals /\ l.pc = "open" /\ l.from = ResumeRef /\ l.view = Seed
      /\ l.sliceRounds = 0 /\ l.sliceTurns = 0 /\ l.post = 0 /\ l.turns = 0
      /\ l.paid = {} /\ l.repaid = FALSE /\ l.tries = 0
  <2>1. NotRunning \in Locals
    BY <1>3 DEF LocalOK
  <2>2. l \in Locals
    BY <1>2, <2>1 DEF Locals, Pcs
  <2>3. QED
    BY <2>2 DEF NotRunning
<1> HIDE DEF l
<1>5. LocalOK(l, ckpts, budgets)
  BY <1>1, <1>2, <1>4, BudgetsOK
     DEF LocalOK, Within, Spent, Seen, Unpaid, Further, Before, Reviewing, After
<1>6. Worked
  BY <1>1, <1>3, <1>4, <1>5 DEF Worked, Typed, TaskKept, Statuses
<1>7. Framed
  BY <1>1, SavedKept DEF Framed, Typed
<1>8. QED
  BY <1>6, <1>7, WorkedInv

(* Opening an attempt preserves it. *)
LEMMA OpenInv ==
  ASSUME LoopInv, Open
  PROVE  LoopInv'
<1>1. Typed /\ LocalOK(run, ckpts, budgets) /\ run \in Locals /\ Live /\ status = "RUNNING"
      /\ UNCHANGED <<budgets, attempts, ckpts, log, saved, stray>> /\ run.pc = "open"
  BY DEF LoopInv, LocalOK, Open, Live, Typed
<1>2. CASE run.from = 0 /\ Becomes([run EXCEPT !.pc = "plan"]) /\ UNCHANGED <<task, faults>>
  <2> DEFINE l == [run EXCEPT !.pc = "plan"]
  <2>1. LocalOK(l, ckpts, budgets)
    BY <1>1, <1>2, FreshLocals
  <2>2. l.view = run.view /\ ViewOK(run.view, log) /\ run' = l
    BY <1>1, <1>2 DEF Locals, Typed, Becomes
  <2> HIDE DEF l
  <2>3. QED
    BY <1>1, <1>2, <2>1, <2>2, LocalInv DEF task
<1>3. CASE run.from # 0 /\ Replay(saved) # Broken /\ Becomes(Resume) /\ UNCHANGED <<task, faults>>
  <2>1. LocalOK(Resume, ckpts, budgets) /\ Resume.view = Replay(saved)
    BY <1>1, <1>3, ResumeLocals
  <2>2. ViewOK(Replay(saved), log)
    <3>1. saved \in Views /\ log \in Seq(Events) /\ saved.pos <= Len(log) /\ Len(log) \in Nat
      BY <1>1 DEF Typed, ViewOK
    <3>2. QED
      BY <1>3, <3>1, ReplayOK DEF ViewOK
  <2>3. QED
    BY <1>1, <1>3, <2>1, <2>2, LocalInv DEF task, Becomes
<1>4. CASE \E terminal \in {"INPUT_NOT_READY", "BASIS_CHANGED"} : Returns(terminal)
  <2>1. Stopped
    BY <1>1, <1>4, ReturnsOK
  <2>2. QED
    BY <1>1, <2>1, StoppedInv
<1>5. QED
  BY <1>2, <1>3, <1>4 DEF Open

(* So does a compaction under context pressure. *)
LEMMA DispatchInv ==
  ASSUME LoopInv, Pressure \/ Compacted
  PROVE  LoopInv'
<1>1. Typed /\ LocalOK(run, ckpts, budgets) /\ run \in Locals /\ Live
      /\ UNCHANGED <<budgets, attempts, ckpts, saved, stray>>
  BY DEF LoopInv, LocalOK, Pressure, Compacted, Live, Dispatches, bounds
<1>2. Seed \in Views /\ run.parent \in Views
  BY <1>1 DEF Seed, Views, Locals
<1>3. CASE Pressure
  <2> DEFINE l == [run EXCEPT !.dispatch = "pressed", !.parent = ViewAfter(Mark)]
  <2>1. Step(Mark, l)
    BY <1>3 DEF Pressure
  <2>2. ViewAfter(Mark) \in Views
    BY <1>1, <2>1, AppendsOK DEF Step
  <2>3. LocalOK(l, ckpts, budgets)
    BY <2>2, PressedLocals
  <2> HIDE DEF l
  <2>4. QED
    BY <1>1, <2>1, <2>3, StepInv
<1>4. CASE Compacted
  <2> DEFINE l == [run EXCEPT !.dispatch = "yes", !.parent = Seed]
             e == Event("compacted", run.parent)
  <2>1. Step(e, l) \/ (run' = l /\ UNCHANGED <<task, log>>)
    BY <1>4 DEF Compacted, Becomes
  <2>2. LocalOK(l, ckpts, budgets)
    BY <1>2, PressedLocals
  <2>3. e \in Events
    BY <1>2 DEF Event, Events
  <2>4. l.view = run.view /\ ViewOK(run.view, log)
    BY <1>1 DEF Locals, Typed
  <2> HIDE DEF l, e
  <2>5. QED
    BY <1>1, <2>1, <2>2, <2>3, <2>4, StepInv, LocalInv DEF task, Typed
<1>5. QED
  BY <1>3, <1>4

(* Planning, turns, Memory and the Draft *)
LEMMA WritingInv ==
  ASSUME LoopInv,
         Plan \/ (\E answer \in {"memory", "draft"} : Turn(answer)) \/ Resolve
           \/ (\E denied \in BOOLEAN : Delta(denied)) \/ Draft
  PROVE  LoopInv'
<1>1. Typed /\ LocalOK(run, ckpts, budgets) /\ run \in Locals /\ Live
      /\ UNCHANGED <<budgets, attempts, ckpts, stray>>
  BY DEF LoopInv, LocalOK, Plan, Turn, Resolve, Delta, Draft, Live, bounds
<1>2. CASE Plan
  <2> DEFINE l == [Pays(run, <<"plan", 0>>) EXCEPT !.pc = "turn", !.dispatch = "no"]
             e == Event("plan", Seed)
  <2>1. Step(e, l) /\ SavesNext(e) /\ LocalOK(l, ckpts, budgets)
    BY <1>2, PlanLocals DEF Plan
  <2>2. e \in Events
    BY DEF Event, Events, Seed, Views
  <2> HIDE DEF l, e
  <2>3. QED
    BY <1>1, <2>1, <2>2, StepInv
<1>3. ASSUME NEW answer \in {"memory", "draft"}, Turn(answer) PROVE LoopInv'
  <2> DEFINE l == [Pays(run, <<"turn", run.turns>>)
                     EXCEPT !.pc = answer, !.dispatch = "no", !.turns = @ + 1,
                            !.sliceTurns = @ + 1]
  <2>1. Step(Mark, l) /\ SavesNext(Mark) /\ LocalOK(l, ckpts, budgets)
    BY <1>3, TurnLocals DEF Turn
  <2> HIDE DEF l
  <2>2. QED
    BY <1>1, <2>1, StepInv
<1>4. CASE Resolve
  <2> DEFINE l == [run EXCEPT !.pc = "delta", !.parent = run.view]
  <2>1. LocalOK(l, ckpts, budgets) /\ run' = l /\ UNCHANGED <<task, log, saved>>
    BY <1>4, ResolveLocals DEF Resolve, Becomes
  <2>2. l.view = run.view /\ ViewOK(run.view, log)
    BY <1>1 DEF Locals, Typed
  <2> HIDE DEF l
  <2>3. QED
    BY <1>1, <2>1, <2>2, LocalInv DEF task, Typed
<1>5. ASSUME NEW denied \in BOOLEAN, Delta(denied) PROVE LoopInv'
  <2> DEFINE l == [run EXCEPT !.pc = "turn", !.parent = Seed, !.sliceRounds = @ + 1]
             e == Event("delta", run.parent)
  <2>1. SavesNext(e) /\ LocalOK(l, ckpts, budgets)
    BY <1>5, DeltaLocals DEF Delta
  <2>2. e \in Events
    BY <1>1 DEF Event, Events, Locals
  <2>3. (Appends(e) /\ Returns("MEMORY_DENIED")) \/ Step(e, l)
    BY <1>5 DEF Delta
  <2> HIDE DEF l, e
  <2>4. CASE Appends(e) /\ Returns("MEMORY_DENIED")
    <3>1. Stopped
      BY <1>1, <2>4, ReturnsOK
    <3>2. Worked
      BY <1>1, <2>2, <2>4, <3>1, AppendsOK DEF Worked
    <3>3. Framed
      BY <1>1, <2>1, <2>2, <2>4, <3>2, SavesOK, SavedKept DEF Framed, Typed, Worked
    <3>4. QED
      BY <3>2, <3>3, WorkedInv
  <2>5. CASE Step(e, l)
    BY <1>1, <2>1, <2>2, <2>5, StepInv
  <2>6. QED
    BY <2>3, <2>4, <2>5
<1>6. CASE Draft
  <2> DEFINE l == [run EXCEPT !.pc = "drafted", !.draft = NewText, !.final = NewText,
                              !.texts = @ + 1]
  <2>1. Step(Mark, l) /\ SavesNext(Mark) /\ LocalOK(l, ckpts, budgets)
    BY <1>6, DraftLocals DEF Draft
  <2> HIDE DEF l
  <2>2. QED
    BY <1>1, <2>1, StepInv
<1>7. QED
  BY <1>2, <1>3, <1>4, <1>5, <1>6

(* Reviews, repairs and rewrites *)
LEMMA ReviewInv ==
  ASSUME LoopInv, NEW verdict \in Verdicts,
         Review(verdict) \/ Reverify(verdict) \/ Rereview(verdict)
  PROVE  LoopInv'
<1>1. Typed /\ LocalOK(run, ckpts, budgets) /\ run \in Locals /\ Live
  BY DEF LoopInv, LocalOK, Review, Reverify, Rereview, ReviewPc, Live
<1>2. ReportOf(verdict) \in Reports
  BY <1>1 DEF ReportOf, Reports, Locals
<1>3. CASE Review(verdict)
  <2> DEFINE local == [Pays(run, <<"review", 0>>)
                         EXCEPT !.report = ReportOf(verdict), !.pc = "review"]
             next == AfterReview(verdict)
  <2>1. Reviewed(local, next) /\ ReviewPc
    BY <1>3 DEF Review
  <2>2. next \in {"observe", "repair", "rewrite", "exhausted"}
        /\ (next = "observe" => verdict = "PASS")
        /\ (next = "repair" => budgets.repairs > 0) /\ (next = "rewrite" => budgets.rewrites > 0)
    BY <1>1, BudgetsOK DEF AfterReview, Verdicts
  <2>3. <<"review", 0>> \in Labels
    BY DEF Labels
  <2>4. local \in Locals
    BY <1>1, <1>2, <2>3 DEF Pays, Locals, Pcs, Reviewing
  <2>5. next # "exhausted" =>
          \A v \in Views : LocalOK(ReviewTarget(local, next, v), ckpts, budgets)
    BY <2>1, <2>2, ReviewLocals
  <2> HIDE DEF local, next
  <2>6. QED
    BY <1>1, <2>1, <2>4, <2>5, ReviewedInv
<1>4. CASE Reverify(verdict)
  <2> DEFINE local == [Pays(run, <<"reverify", run.tries>>)
                         EXCEPT !.report = ReportOf(verdict)]
             next == IF verdict = "PASS" THEN "observe" ELSE "exhausted"
  <2>1. Reviewed(local, next) /\ run.pc = "reverify"
    BY <1>4 DEF Reverify
  <2>2. <<"reverify", run.tries>> \in Labels
    BY <1>1 DEF Labels, Locals
  <2>3. local \in Locals
    BY <1>1, <1>2, <2>2 DEF Pays, Locals
  <2>4. next # "exhausted" =>
          \A v \in Views : LocalOK(ReviewTarget(local, next, v), ckpts, budgets)
    BY <2>1, ReverifyLocals
  <2> HIDE DEF local, next
  <2>5. QED
    BY <1>1, <2>1, <2>3, <2>4, ReviewedInv
<1>5. CASE Rereview(verdict)
  <2> DEFINE local == [Pays(run, <<"rereview", run.tries>>)
                         EXCEPT !.report = ReportOf(verdict)]
             next == CASE verdict = "PASS" -> "observe"
                       [] verdict = "MAJOR_REWRITE" /\ run.tries < budgets.rewrites -> "rewrite"
                       [] OTHER -> "exhausted"
  <2>1. Reviewed(local, next) /\ run.pc = "rereview"
    BY <1>5 DEF Rereview
  <2>2. next \in {"observe", "rewrite", "exhausted"} /\ (next = "observe" => verdict = "PASS")
        /\ (next = "rewrite" => run.tries < budgets.rewrites)
    OBVIOUS
  <2>3. <<"rereview", run.tries>> \in Labels
    BY <1>1 DEF Labels, Locals
  <2>4. local \in Locals
    BY <1>1, <1>2, <2>3 DEF Pays, Locals
  <2>5. next # "exhausted" =>
          \A v \in Views : LocalOK(ReviewTarget(local, next, v), ckpts, budgets)
    BY <2>1, <2>2, RereviewLocals
  <2> HIDE DEF local, next
  <2>6. QED
    BY <1>1, <2>1, <2>4, <2>5, ReviewedInv
<1>6. QED
  BY <1>3, <1>4, <1>5

(* So do repair, rewrite and the Observer. *)
LEMMA MendingInv ==
  ASSUME LoopInv, Repair \/ RepairChangesNothing \/ Rewrite \/ Observe
  PROVE  LoopInv'
<1>1. Typed /\ LocalOK(run, ckpts, budgets) /\ run \in Locals /\ Live
      /\ UNCHANGED <<budgets, attempts, ckpts, saved, stray>>
  BY DEF LoopInv, LocalOK, Repair, RepairChangesNothing, Rewrite, Observe, Live, bounds
<1>2. CASE Repair
  <2> DEFINE l == [Pays(run, <<"repair", run.tries>>)
                     EXCEPT !.pc = "reverify", !.post = @ + 1, !.texts = @ + 1,
                            !.final = NewText]
  <2>1. Step(Mark, l) /\ LocalOK(l, ckpts, budgets)
    BY <1>2, RepairLocals DEF Repair
  <2> HIDE DEF l
  <2>2. QED
    BY <1>1, <2>1, StepInv
<1>3. CASE RepairChangesNothing
  <2> DEFINE l == [run EXCEPT !.tries = @ + 1]
  <2>1. LocalOK(l, ckpts, budgets) /\ UNCHANGED log
    BY <1>3, RetryLocals DEF RepairChangesNothing
  <2>2. l.view = run.view /\ ViewOK(run.view, log)
    BY <1>1 DEF Locals, Typed
  <2>3. (run' = l /\ UNCHANGED task) \/ Returns("EDITOR_FAILED")
    BY <1>3 DEF RepairChangesNothing, Becomes
  <2> HIDE DEF l
  <2>4. CASE run' = l /\ UNCHANGED task
    BY <1>1, <2>1, <2>2, <2>4, LocalInv DEF Typed
  <2>5. CASE Returns("EDITOR_FAILED")
    BY <1>1, <2>1, <2>5, ReturnsOK, StoppedInv
  <2>6. QED
    BY <2>3, <2>4, <2>5
<1>4. CASE Rewrite
  <2> DEFINE l == [Pays(run, <<"rewrite", run.tries>>)
                     EXCEPT !.pc = "rereview", !.dispatch = "no", !.post = @ + 1,
                            !.texts = @ + 1, !.final = NewText]
  <2>1. Step(Mark, l) /\ LocalOK(l, ckpts, budgets)
    BY <1>4, RewriteLocals DEF Rewrite
  <2> HIDE DEF l
  <2>2. QED
    BY <1>1, <2>1, StepInv
<1>5. CASE Observe
  <2> DEFINE l == [Pays(run, <<"observe", 0>>)
                     EXCEPT !.pc = "observed", !.post = @ + 1, !.observed = run.final]
  <2>1. Step(Mark, l) /\ LocalOK(l, ckpts, budgets)
    BY <1>5, ObserveLocals DEF Observe
  <2> HIDE DEF l
  <2>2. QED
    BY <1>1, <2>1, StepInv
<1>6. QED
  BY <1>2, <1>3, <1>4, <1>5

(* The yields *)
LEMMA YieldInv ==
  ASSUME LoopInv, YieldForMemory \/ YieldForEditor \/ YieldForObserver
                    \/ YieldForReconciliation
  PROVE  LoopInv'
<1>1. /\ Typed /\ LocalOK(run, ckpts, budgets) /\ run \in Locals
      /\ Seen(run.pc, run.final, run.report, run.observed)
      /\ Unpaid(run.pc, run.paid, run.turns, run.tries)
  BY DEF LoopInv, LocalOK
<1>2. run.from # 0 => Further(run, ckpts[run.from]) /\ ckpts[run.from].turns \in Nat
                      /\ ckpts[run.from].phase \in Range(Phases)
  <2>1. SUFFICES ASSUME run.from # 0
                 PROVE  Further(run, ckpts[run.from]) /\ ckpts[run.from].turns \in Nat
                        /\ ckpts[run.from].phase \in Range(Phases)
    OBVIOUS
  <2>2. Further(run, ckpts[run.from]) /\ run.from \in 1 .. Len(ckpts)
    BY <1>1, <2>1 DEF LocalOK
  <2>3. ckpts[run.from] \in Checkpoint
    BY <1>1, <2>2 DEF Typed
  <2>4. QED
    BY <2>2, <2>3 DEF Checkpoint
<1>3. /\ run.turns \in Nat /\ run.sliceRounds \in Nat /\ run.sliceTurns \in Nat
      /\ run.post \in Nat
  BY <1>1 DEF Locals
<1>4. CASE YieldForMemory
  <2> DEFINE phase == "REACTIVE_MEMORY_PENDING"
  <2>1. run.pc = "memory" /\ budgets.rounds > 0 /\ SliceSpent /\ Yields(phase)
    BY <1>4 DEF YieldForMemory
  <2>2. PhasePc(phase) = "memory" /\ phase \in Range(Phases)
    BY IndexOK DEF PhasePc
  <2>3. Seen("memory", run.final, run.report, run.observed)
        /\ Unpaid("memory", run.paid, run.turns, 0)
    BY <1>1, <2>1 DEF Seen, Unpaid, Before, Reviewing
  <2>4. ASSUME run.from # 0 PROVE Ahead(phase, run.turns, ckpts[run.from])
    <3>1. run.sliceTurns > 0
      BY <1>1, <1>2, <1>3, <2>1, <2>4, BudgetsOK DEF SliceSpent, Further
    <3>2. QED
      BY <1>2, <1>3, <2>1, <2>4, <3>1 DEF Further, Before, Ahead
  <2>5. QED
    BY <2>1, <2>2, <2>3, <2>4, YieldsInv
<1>5. CASE YieldForEditor
  <2> DEFINE phase == "EDITOR_PENDING"
  <2>1. run.pc = "drafted" /\ run.from = 0 /\ Yields(phase)
    BY <1>5 DEF YieldForEditor, EditorDue
  <2>2. PhasePc(phase) = "review" /\ phase \in Range(Phases)
    BY IndexOK DEF PhasePc
  <2>3. Seen("review", run.final, run.report, run.observed)
        /\ Unpaid("review", run.paid, run.turns, 0)
    BY <1>1, <2>1 DEF Seen, Unpaid, Before, Reviewing, After
  <2>4. QED
    BY <2>1, <2>2, <2>3, YieldsInv
<1>6. CASE YieldForObserver
  <2> DEFINE phase == "OBSERVER_PENDING"
  <2>1. run.pc = "observe" /\ run.post >= budgets.post /\ Yields(phase)
    BY <1>6 DEF YieldForObserver, PostSpent
  <2>2. PhasePc(phase) = "observe" /\ phase \in Range(Phases)
    BY IndexOK DEF PhasePc
  <2>3. Seen("observe", run.final, run.report, run.observed)
        /\ Unpaid("observe", run.paid, run.turns, 0)
    BY <1>1, <2>1 DEF Seen, Unpaid, Before, Reviewing, After
  <2>4. ASSUME run.from # 0, budgets.post > 0 PROVE Ahead(phase, run.turns, ckpts[run.from])
    <3>1. ckpts[run.from].phase \in {"REACTIVE_MEMORY_PENDING", "EDITOR_PENDING"}
      BY <1>1, <1>2, <1>3, <2>1, <2>4, IndexOK, BudgetsOK DEF Further
    <3>2. QED
      BY <3>1, IndexOK DEF Ahead
  <2>5. QED
    BY <2>1, <2>2, <2>3, <2>4, YieldsInv
<1>7. CASE YieldForReconciliation
  <2> DEFINE phase == "RECONCILIATION_PENDING"
  <2>1. run.pc = "observed" /\ Yields(phase)
    BY <1>7 DEF YieldForReconciliation
  <2>2. PhasePc(phase) = "reconcile" /\ phase \in Range(Phases)
    BY IndexOK DEF PhasePc
  <2>3. Seen("reconcile", run.final, run.report, run.observed)
        /\ Unpaid("reconcile", run.paid, run.turns, 0)
    BY <1>1, <2>1 DEF Seen, Unpaid, Before, Reviewing, After
  <2>4. ASSUME run.from # 0 PROVE Ahead(phase, run.turns, ckpts[run.from])
    <3>1. ckpts[run.from].phase \in {"REACTIVE_MEMORY_PENDING", "EDITOR_PENDING",
                                     "OBSERVER_PENDING"}
      BY <1>2, <2>1, <2>4, IndexOK DEF Further
    <3>2. QED
      BY <3>1, IndexOK DEF Ahead
  <2>5. QED
    BY <2>1, <2>2, <2>3, <2>4, YieldsInv
<1>8. QED
  BY <1>4, <1>5, <1>6, <1>7

(* The text is ready *)
LEMMA ReadyLocals ==
  ASSUME LoopInv, run.pc \in {"observed", "reconcile"}
  PROVE  LocalOK([run EXCEPT !.pc = "ready"], ckpts, budgets)
<1> DEFINE l == [run EXCEPT !.pc = "ready"]
<1>1. Typed /\ LocalOK(run, ckpts, budgets) /\ run \in Locals /\ ~run.repaid
  BY DEF LoopInv, LocalOK
<1>2. /\ l.from = run.from /\ l.turns = run.turns /\ l.sliceRounds = run.sliceRounds
      /\ l.sliceTurns = run.sliceTurns /\ l.post = run.post /\ l.final = run.final
      /\ l.report = run.report /\ l.observed = run.observed /\ l.tries = run.tries
      /\ l.paid = run.paid /\ l.repaid = run.repaid /\ l.pc = "ready"
  BY <1>1 DEF Locals
<1>3. l \in Locals
  BY <1>1, <1>2 DEF Locals, Pcs, After
<1> HIDE DEF l
<1>4. LocalOK(l, ckpts, budgets)
  BY <1>1, <1>2, <1>3, BudgetsOK
     DEF LocalOK, Within, Spent, Seen, Unpaid, Further, Before, Reviewing, After, Locals
<1>5. QED
  BY <1>4 DEF l

(* Reconciling the text, and saving the View it was made from *)
LEMMA ReconcileInv ==
  ASSUME LoopInv, Reconcile
  PROVE  LoopInv'
<1> DEFINE l == [run EXCEPT !.pc = "ready"]
<1>1. /\ Live /\ run.pc \in {"observed", "reconcile"} /\ Step(Mark, l) /\ SavesNext(Mark)
      /\ UNCHANGED <<budgets, attempts, ckpts, stray>>
  BY DEF Reconcile, Reconciling, Live, bounds
<1>2. LocalOK(l, ckpts, budgets)
  BY <1>1, ReadyLocals
<1> HIDE DEF l
<1>3. QED
  BY <1>1, <1>2, StepInv

(* The result *)
LEMMA DeliverInv ==
  ASSUME LoopInv, Deliver
  PROVE  LoopInv'
<1>1. /\ Typed /\ LocalOK(run, ckpts, budgets) /\ run \in Locals /\ run.pc = "ready"
      /\ UNCHANGED <<budgets, attempts, ckpts, log, saved, stray>>
      /\ run' = NotRunning /\ Settle("SUCCEEDED", Artifacts)
      /\ result' = [final |-> run.final, report |-> run.report, observed |-> run.observed]
  BY DEF LoopInv, LocalOK, Deliver, Ends, Becomes, bounds
<1>2. status' = "SUCCEEDED" /\ refs' \in Seq(1 .. Len(ckpts))
      /\ eventRefs' \in Seq(1 .. Len(ckpts))
  BY <1>1, LineageOK, SettleOK DEF Statuses
<1>3. /\ LocalOK(NotRunning, ckpts, budgets) /\ NotRunning.view = Seed
      /\ NotRunning.pc = "none" /\ ViewOK(Seed, log)
  BY <1>1, NotRunningOK
<1>4. Typed'
  BY <1>1, <1>2, <1>3 DEF Typed, Live, Statuses
<1>5. LocalOK(run, ckpts, budgets)'
  BY <1>1, <1>3
<1>6. CheckpointsOK' /\ YieldAdvances'
  BY <1>1 DEF LoopInv, CheckpointsOK, YieldAdvances
<1>7. ReadyIsReviewed'
  BY <1>1 DEF ReadyIsReviewed, LocalOK, Seen, After
<1>8. QED
  BY <1>4, <1>5, <1>6, <1>7 DEF LoopInv

(* The results without a text *)
LEMMA FailureInv ==
  ASSUME LoopInv, MemoryDisabled \/ RequestRejected \/ ContextLimit \/ CallFails \/ Kill
  PROVE  LoopInv'
<1>1. Typed /\ LocalOK(run, ckpts, budgets)
      /\ UNCHANGED <<budgets, attempts, ckpts, log, saved, stray>>
  BY DEF LoopInv, MemoryDisabled, RequestRejected, ContextLimit, CallFails, Kill, bounds
<1>2. CASE MemoryDisabled \/ ContextLimit \/ CallFails
  <2>1. \E terminal : Returns(terminal)
    BY <1>2 DEF MemoryDisabled, ContextLimit, CallFails
  <2>2. QED
    BY <1>1, <2>1, ReturnsOK, StoppedInv
<1>3. CASE RequestRejected
  <2>1. run' = NotRunning /\ result' = result /\ Settle("BLOCKED", << >>)
    BY <1>3 DEF RequestRejected, Ends, Becomes
  <2>2. << >> \in Seq(1 .. Len(ckpts)) /\ "BLOCKED" \in Statuses
    BY DEF Statuses, Parked
  <2>3. status' = "BLOCKED" /\ refs' \in Seq(1 .. Len(ckpts))
        /\ eventRefs' \in Seq(1 .. Len(ckpts))
    BY <1>1, <2>1, <2>2, SettleOK
  <2>4. Stopped
    BY <2>1, <2>2, <2>3 DEF Stopped, TaskKept
  <2>5. QED
    BY <1>1, <2>4, StoppedInv
<1>4. CASE Kill
  <2>1. Stopped
    BY <1>1, <1>4 DEF Kill, Ends, Becomes, Stopped, TaskKept, task, Typed
  <2>2. QED
    BY <1>1, <2>1, StoppedInv
<1>5. QED
  BY <1>2, <1>3, <1>4

(* The attempt is gone between its event and the RunCheckpoint. *)
LEMMA KillUnsavedInv ==
  ASSUME LoopInv, KillUnsaved
  PROVE  LoopInv'
<1>1. /\ Typed /\ LocalOK(run, ckpts, budgets) /\ run \in Locals
      /\ UNCHANGED <<budgets, attempts, ckpts, saved, stray>> /\ UNCHANGED task
      /\ run' = NotRunning
  BY DEF LoopInv, LocalOK, KillUnsaved, Ends, Becomes
<1>2. PICK e \in {Event("plan", Seed), Event("delta", run.parent)} :
        Appends(e) /\ run.pc \in {"plan", "delta"}
  BY DEF KillUnsaved
<1>3. e \in Events
  BY <1>1, <1>2 DEF Event, Events, Seed, Views, Locals
<1>4. log' \in Seq(Events) /\ Len(log) <= Len(log')
  BY <1>1, <1>2, <1>3, AppendsOK
<1>5. Stopped
  BY <1>1, <1>2 DEF Stopped, TaskKept, task, Typed, Live
<1>6. Worked /\ Framed
  BY <1>1, <1>4, <1>5, SavedKept DEF Worked, Framed, Typed
<1>7. QED
  BY <1>6, WorkedInv

(* Everything outside the attempt *)
LEMMA OutsideInv ==
  ASSUME LoopInv, Reclaim \/ Retry \/ Foreign
  PROVE  LoopInv'
<1>1. Typed /\ LocalOK(run, ckpts, budgets) /\ UNCHANGED <<budgets, attempts, ckpts, saved, result>>
      /\ UNCHANGED <<refs, eventRefs>>
  BY DEF LoopInv, Reclaim, Retry, Foreign, task
<1>2. log \in Seq(Events) /\ Len(log) \in Nat /\ attempts \in Nat
  BY <1>1 DEF Typed
<1>3. CASE Reclaim
  <2>1. status' = "WAITING_RETRY" /\ UNCHANGED log /\ (run' = NotRunning \/ (run' = run /\ ~Live))
    BY <1>3 DEF Reclaim, Ends, Becomes
  <2>2. LocalOK(run', ckpts, budgets) /\ ViewOK(run'.view, log) /\ run'.pc = "none"
    BY <1>1, <2>1, NotRunningOK DEF Typed, Live
  <2>3. Worked
    BY <1>1, <1>2, <2>1, <2>2 DEF Worked, TaskKept, Typed, Statuses, Parked
  <2>4. stray'.view = run.view \/ stray'.view = stray.view
    BY <1>3 DEF Reclaim, Straggling
  <2>5. Framed
    BY <1>1, <1>2, <2>1, <2>4 DEF Framed, Typed
  <2>6. QED
    BY <2>3, <2>5, WorkedInv
<1>4. CASE Retry
  <2>1. /\ status' = "READY" /\ status \in Parked /\ UNCHANGED <<log, run, stray>>
    BY <1>4 DEF Retry, bounds
  <2>2. run.pc = "none"
    BY <1>1, <2>1 DEF Typed, Live, Parked
  <2>3. Worked
    BY <1>1, <1>2, <2>1, <2>2 DEF Worked, TaskKept, Typed, Statuses
  <2>4. Framed
    BY <1>1, <1>2, <2>1 DEF Framed, Typed
  <2>5. QED
    BY <2>3, <2>4, WorkedInv
<1>5. CASE Foreign
  <2>1. Event("foreign", Seed) \in Events
    BY DEF Event, Events, Seed, Views
  <2>2. log' = Append(log, Event("foreign", Seed)) /\ UNCHANGED <<status, run, stray>>
    BY <1>5 DEF Foreign, task, bounds
  <2>3. log' \in Seq(Events) /\ Len(log) <= Len(log')
    BY <1>2, <2>1, <2>2
  <2>4. ViewOK(saved, log') /\ ViewOK(stray.view, log') /\ ViewOK(run.view, log')
    BY <2>3, SavedKept
  <2>5. Worked
    BY <1>1, <2>2, <2>3, <2>4 DEF Worked, TaskKept, Typed, Live
  <2>6. Framed
    BY <1>1, <1>2, <2>2, <2>4 DEF Framed
  <2>7. QED
    BY <2>5, <2>6, WorkedInv
<1>6. QED
  BY <1>3, <1>4, <1>5

(* The worker of a reclaimed attempt appends and saves Views that stand in the log. *)
LEMMA StrayInv ==
  ASSUME LoopInv, Stray
  PROVE  LoopInv'
<1> DEFINE v == Replay(stray.view)
           E == {Event("delta", p) : p \in {stray.view, v}} \cup {Mark}
<1>1. /\ Typed /\ LocalOK(run, ckpts, budgets) /\ stray' = Strayed
      /\ UNCHANGED <<budgets, attempts, ckpts, run>> /\ UNCHANGED task
      /\ log \in Seq(Events) /\ Len(log) \in Nat /\ attempts \in Nat
  BY DEF LoopInv, Stray, Typed
<1>2. stray.view \in Views /\ v \in Views /\ (v # Broken => v.pos = Len(log))
  BY <1>1, ReplayOK DEF Typed, ViewOK
<1>3. \/ UNCHANGED <<log, saved>>
      \/ /\ v # Broken
         /\ \E e \in E : /\ log' = IF e = Mark THEN log ELSE Append(log, e)
                         /\ \/ UNCHANGED saved
                            \/ /\ Apply(v, e) # Broken
                               /\ \E w \in {Apply(v, e), PutWorkingItem(Apply(v, e))} : Saves(w)
  BY DEF Stray
<1>4. ASSUME NEW e \in E PROVE e \in Events \cup {Mark}
  BY <1>2, <1>4 DEF Event, Events
<1> HIDE DEF v, E
<1>5. /\ log' \in Seq(Events) /\ Len(log) <= Len(log')
      /\ ViewOK(saved', log')
  <2>1. CASE UNCHANGED <<log, saved>>
    BY <1>1, <2>1 DEF Typed
  <2>2. ASSUME v # Broken, NEW e \in E, log' = IF e = Mark THEN log ELSE Append(log, e),
               \/ UNCHANGED saved
               \/ /\ Apply(v, e) # Broken
                  /\ \E w \in {Apply(v, e), PutWorkingItem(Apply(v, e))} : Saves(w)
        PROVE  /\ log' \in Seq(Events) /\ Len(log) <= Len(log') /\ ViewOK(saved', log')
    <3>1. log' \in Seq(Events) /\ Len(log) <= Len(log') /\ Len(log') \in Nat
      BY <1>1, <1>4, <2>2
    <3>2. ViewOK(saved, log')
      BY <3>1, SavedKept
    <3>3. ASSUME Apply(v, e) # Broken PROVE Apply(v, e) \in Views /\ Apply(v, e).pos = Len(log')
      <4>1. CASE e = Mark
        <5>1. Apply(v, e) = v
          BY <2>2, <4>1 DEF Apply, Mark, Event
        <5>2. QED
          BY <1>2, <2>2, <4>1, <5>1
      <4>2. CASE e # Mark
        <5>1. e \in Events /\ Len(log') = Len(log) + 1
          BY <1>1, <1>4, <2>2, <4>2
        <5>2. QED
          BY <1>2, <2>2, <3>3, <5>1, ApplyOK
      <4>3. QED
        BY <4>1, <4>2
    <3>4. ASSUME Apply(v, e) # Broken, NEW w \in {Apply(v, e), PutWorkingItem(Apply(v, e))}
          PROVE  ViewOK(w, log')
      <4> DEFINE a == Apply(v, e)
      <4>1. a \in Views /\ a # Broken /\ a.pos = Len(log')
        BY <3>3, <3>4
      <4>2. w = a \/ w = PutWorkingItem(a)
        BY <3>4
      <4> HIDE DEF a
      <4>3. /\ PutWorkingItem(a) \in Views /\ PutWorkingItem(a).pos = a.pos
            /\ PutWorkingItem(a).unlogged = a.unlogged + 1 /\ a.unlogged \in Nat
        <5>1. a.rev + 1 \in Int /\ a.unlogged + 1 \in Nat /\ a.unlogged \in Nat
          BY <4>1 DEF Views
        <5>2. QED
          BY <4>1, <5>1 DEF PutWorkingItem, Views
      <4>4. PutWorkingItem(a) # Broken
        BY <4>3 DEF Broken
      <4>5. QED
        BY <3>1, <4>1, <4>2, <4>3, <4>4 DEF ViewOK
    <3>5. QED
      BY <2>2, <3>1, <3>2, <3>4 DEF Saves
  <2>3. QED
    BY <1>3, <2>1, <2>2
<1>6. ViewOK(stray'.view, log') /\ ViewOK(run.view, log')
  <2>1. Len(log') \in Nat
    BY <1>5
  <2>2. ViewOK(Seed, log')
    BY <2>1 DEF ViewOK, Seed, Views, Broken
  <2>3. QED
    BY <1>1, <1>5, <2>2, SavedKept DEF Strayed
<1>7. Worked /\ Framed
  BY <1>1, <1>5, <1>6 DEF Worked, Framed, TaskKept, task, Typed, Live
<1>8. QED
  BY <1>7, WorkedInv

-----------------------------------------------------------------------------
(* The invariant holds                                                     *)

(* The invariant holds at first, *)
LEMMA LoopInit ==
  Init => LoopInv
<1> SUFFICES ASSUME Init PROVE LoopInv
  OBVIOUS
<1>1. /\ budgets \in Policies /\ status = "READY" /\ attempts = 0 /\ refs = << >>
      /\ eventRefs = << >> /\ ckpts = << >> /\ log = << >> /\ saved = Seed
      /\ run = NotRunning /\ stray.view = Seed
  BY DEF Init, NoStray
<1>2. Seed \in Views /\ Seed # Broken /\ Seed.pos = 0
  BY DEF Seed, Views, Broken
<1>3. NotRunning.view = Seed /\ NotRunning.pc = "none"
  BY DEF NotRunning
<1>4. Typed
  <2>1. refs \in Seq(1 .. Len(ckpts)) /\ eventRefs \in Seq(1 .. Len(ckpts))
        /\ ckpts \in Seq(Checkpoint) /\ log \in Seq(Events) /\ Len(log) = 0
    BY <1>1
  <2>2. QED
    BY <1>1, <1>2, <1>3, <2>1 DEF Typed, ViewOK, Statuses, Live
<1>5. LocalOK(run, ckpts, budgets)
  BY <1>1, <1>4, NotRunningOK
<1>6. CheckpointsOK /\ YieldAdvances
  BY <1>1 DEF CheckpointsOK, YieldAdvances
<1>7. ReadyIsReviewed
  BY <1>1 DEF ReadyIsReviewed
<1>8. QED
  BY <1>4, <1>5, <1>6, <1>7 DEF LoopInv

(* every step preserves it, *)
LEMMA LoopStep ==
  LoopInv /\ [Next]_vars => LoopInv'
<1> SUFFICES ASSUME LoopInv, [Next]_vars PROVE LoopInv'
  OBVIOUS
<1>1. CASE Works
  <2>1. CASE Open
    BY <2>1, OpenInv
  <2>2. CASE Pressure \/ Compacted
    BY <2>2, DispatchInv
  <2>3. CASE Plan \/ (\E answer \in {"memory", "draft"} : Turn(answer)) \/ Resolve
               \/ (\E denied \in BOOLEAN : Delta(denied)) \/ Draft
    BY <2>3, WritingInv
  <2>4. CASE \E v \in Verdicts : Review(v) \/ Reverify(v) \/ Rereview(v)
    BY <2>4, ReviewInv
  <2>5. CASE Repair \/ RepairChangesNothing \/ Rewrite \/ Observe
    BY <2>5, MendingInv
  <2>6. CASE YieldForMemory \/ YieldForEditor \/ YieldForObserver \/ YieldForReconciliation
    BY <2>6, YieldInv
  <2>7. CASE Reconcile \/ Deliver
    BY <2>7, ReconcileInv, DeliverInv
  <2>8. CASE MemoryDisabled
    BY <2>8, FailureInv
  <2>9. QED
    BY <1>1, <2>1, <2>2, <2>3, <2>4, <2>5, <2>6, <2>7, <2>8 DEF Works
<1>2. CASE Fails
  BY <1>2, FailureInv, KillUnsavedInv DEF Fails
<1>3. CASE Claim
  BY <1>3, ClaimInv
<1>4. CASE Reclaim \/ Retry \/ Foreign \/ Stray
  BY <1>4, OutsideInv, StrayInv
<1>5. CASE UNCHANGED vars
  <2>1. /\ budgets' = budgets /\ status' = status /\ attempts' = attempts /\ refs' = refs
        /\ eventRefs' = eventRefs /\ ckpts' = ckpts /\ log' = log /\ saved' = saved
        /\ run' = run /\ result' = result /\ stray' = stray
    BY <1>5 DEF vars
  <2>2. QED
    BY <2>1 DEF LoopInv, Typed, Live, CheckpointsOK, YieldAdvances, ReadyIsReviewed
<1>6. QED
  BY <1>1, <1>2, <1>3, <1>4, <1>5 DEF Next

(* so it always holds. *)
LEMMA LoopAlways ==
  Spec => []LoopInv
BY LoopInit, LoopStep, PTL DEF Spec

(* Whatever a policy allows and whichever slices, repairs, rewrites, kills *)
(* and resumptions lie between, DRAFT_CANDIDATE_READY carries a text whose *)
(* own last review passed and which the Observer read (_execute).          *)
THEOREM ReadyTextsWereReviewed ==
  Spec => []ReadyIsReviewed
BY LoopAlways, PTL DEF LoopInv

(* No attempt makes a model call again that the checkpoint it resumed from *)
(* had settled (_execute, _persist_workflow_checkpoint).                   *)
THEOREM SettledCallsStaySettled ==
  Spec => []SettledCallsSkipped
<1>1. LoopInv => SettledCallsSkipped
  BY DEF LoopInv, LocalOK, SettledCallsSkipped
<1>2. QED
  BY <1>1, LoopAlways, PTL

(* The checkpoint of a resumed slice is further than the one it began at,  *)
(* unless the policy allows no call at all after the Draft.                *)
THEOREM YieldsMakeProgress ==
  Spec => []YieldAdvances
BY LoopAlways, PTL DEF LoopInv

-----------------------------------------------------------------------------
(* The log of the attempts can be replayed                                 *)

(* Nothing that LogReplays excepts has happened to the log. *)
Quiet == ~BuiltOnDirective /\ ~HasForeign /\ stray # Strayed

(* f is the View after each event of the log lg, and none of them broke. *)
History(f, lg) ==
  /\ f[0] = Seed
  /\ \A i \in 1 .. Len(lg) : f[i] = Apply(f[i - 1], lg[i])
  /\ \A i \in 0 .. Len(lg) :
       f[i] \in Views /\ f[i] # Broken /\ f[i].pos = i /\ f[i].unlogged = 0

(* The latest RunCheckpoint is a View of the history, or it holds an item  *)
(* no event carries.                                                       *)
SavedStands(f, v) == v = f[v.pos] \/ v.unlogged > 0

(* So is the View of the attempt, and from the plan on it is up to date;   *)
(* what it is about to append was made for it.                             *)
Early == {"none", "open", "plan"}

Stood(f, n, v) == v.pos = n /\ (v = f[n] \/ v.unlogged > 0)

RunStands(f, n, l) ==
  /\ l.pc \in Early => l.view = f[l.view.pos]
  /\ l.pc \notin Early => Stood(f, n, l.view)
  /\ l.pc = "delta" => l.parent = l.view
  /\ l.dispatch = "pressed" => l.pc \in Dispatches /\ l.parent = l.view /\ l.view.pos = n

Stands(f, lg, v, l) ==
  History(f, lg) /\ SavedStands(f, v) /\ RunStands(f, Len(lg), l)

LogInv == Quiet => \E f : Stands(f, log, saved, run)

(* A View of the history is replayed to its end. *)
LEMMA HistoryReplays ==
  ASSUME Typed, NEW f, History(f, log), NEW v, ViewOK(v, log), v = f[v.pos]
  PROVE  Replay(v) = f[Len(log)]
<1>1. v \in Views /\ v.pos <= Len(log) /\ log \in Seq(Events)
  BY DEF ViewOK, Typed
<1>2. v.pos \in Nat /\ Len(log) \in Nat
  BY <1>1 DEF Views
<1>3. \A i \in v.pos + 1 .. Len(log) : i \in 1 .. Len(log)
  BY <1>2
<1>4. Course(f, v)
  BY <1>3 DEF Course, History
<1>5. QED
  BY <1>1, <1>4, ReplayFollows

(* A View at the end of the log has nothing to replay. *)
LEMMA NothingToReplay ==
  ASSUME Typed, NEW v \in Views, v.pos = Len(log)
  PROVE  Replay(v) = v
<1> DEFINE f == [i \in {Len(log)} |-> v]
<1>1. Len(log) \in Nat /\ log \in Seq(Events)
  BY DEF Typed
<1>2. f[Len(log)] = v
  OBVIOUS
<1>3. Course(f, v)
  BY <1>1, <1>2 DEF Course
<1>4. QED
  BY <1>1, <1>2, <1>3, ReplayFollows

(* What LogInv is for *)
LEMMA LogInvReplays ==
  ASSUME LoopInv, LogInv
  PROVE  LogReplays
<1> SUFFICES ASSUME Quiet
             PROVE  Replay(Seed) # Broken /\ (Replay(saved) # Broken \/ DirectiveSaved)
  BY DEF Quiet, LogReplays
<1>1. PICK f : Stands(f, log, saved, run)
  BY DEF LogInv
<1>2. Typed /\ History(f, log) /\ SavedStands(f, saved) /\ Len(log) \in Nat
  BY <1>1 DEF LoopInv, Stands, Typed
<1>3. f[Len(log)] # Broken /\ f[0] = Seed
  BY <1>2 DEF History
<1>4. ViewOK(Seed, log) /\ Seed.pos = 0
  BY <1>2, NotRunningOK DEF Seed
<1>5. Replay(Seed) = f[Len(log)]
  BY <1>2, <1>3, <1>4, HistoryReplays
<1>6. CASE saved = f[saved.pos]
  <2>1. ViewOK(saved, log)
    BY <1>2 DEF Typed
  <2>2. QED
    BY <1>2, <1>3, <1>5, <1>6, <2>1, HistoryReplays
<1>7. CASE saved.unlogged > 0
  BY <1>3, <1>5, <1>7 DEF DirectiveSaved
<1>8. QED
  BY <1>2, <1>6, <1>7 DEF SavedStands

(* What an attempt replays before it appends *)
LEMMA TailOf ==
  ASSUME LoopInv, NEW f, Stands(f, log, saved, run)
  PROVE  /\ Replay(run.view) \in Views /\ Replay(run.view) # Broken
         /\ Stood(f, Len(log), Replay(run.view))
         /\ run.pc \in Early => Replay(run.view) = f[Len(log)]
         /\ run.pc \notin Early => Replay(run.view) = run.view
<1>1. /\ Typed /\ History(f, log) /\ RunStands(f, Len(log), run)
      /\ Len(log) \in Nat /\ ViewOK(run.view, log)
  BY DEF LoopInv, Stands, Typed
<1>2. /\ f[Len(log)] \in Views /\ f[Len(log)] # Broken /\ f[Len(log)].pos = Len(log)
  BY <1>1 DEF History
<1>3. CASE run.pc \in Early
  <2>1. run.view = f[run.view.pos]
    BY <1>1, <1>3 DEF RunStands
  <2>2. Replay(run.view) = f[Len(log)]
    BY <1>1, <2>1, HistoryReplays
  <2>3. QED
    BY <1>2, <1>3, <2>2 DEF Stood
<1>4. CASE run.pc \notin Early
  <2>1. Stood(f, Len(log), run.view)
    BY <1>1, <1>4 DEF RunStands
  <2>2. Replay(run.view) = run.view
    BY <1>1, <2>1, NothingToReplay DEF ViewOK, Stood
  <2>3. QED
    BY <1>1, <1>4, <2>1, <2>2 DEF ViewOK
<1>5. QED
  BY <1>3, <1>4

(* The attempt marks its place: the log is left alone. *)
LEMMA MarkTail ==
  ASSUME LoopInv, NEW f, Stands(f, log, saved, run), Appends(Mark)
  PROVE  /\ log' = log /\ ViewAfter(Mark) = Replay(run.view) /\ ViewAfter(Mark) # Broken
<1>1. Replay(run.view) # Broken
  BY TailOf
<1>2. Apply(Replay(run.view), Mark) = Replay(run.view)
  BY <1>1 DEF Apply, Mark, Event
<1>3. QED
  BY <1>1, <1>2 DEF Appends, ViewAfter

(* An event that can be applied continues the history. *)
LEMMA EventTail ==
  ASSUME LoopInv, NEW f, Stands(f, log, saved, run), NEW e \in Events,
         Appends(e), Replay(run.view) = f[Len(log)],
         e.kind \in {"plan", "delta", "compacted"},
         e.kind = "delta" => e.parent.rev = f[Len(log)].rev,
         e.kind = "compacted" => e.parent = f[Len(log)]
  PROVE  /\ Len(log') = Len(log) + 1 /\ ViewAfter(e) # Broken
         /\ \E g : /\ History(g, log') /\ g[Len(log')] = ViewAfter(e)
                   /\ \A i \in 0 .. Len(log) : g[i] = f[i]
<1> DEFINE n == Len(log)
           v == f[n]
           w == Apply(v, e)
           g == [i \in 0 .. n + 1 |-> IF i <= n THEN f[i] ELSE w]
<1>1. Typed /\ History(f, log) /\ log \in Seq(Events) /\ n \in Nat
  BY DEF LoopInv, Stands, Typed
<1>2. v \in Views /\ v # Broken /\ v.pos = n /\ v.unlogged = 0 /\ Replay(run.view) = v
  BY <1>1 DEF History
<1>3. e # Mark /\ e.kind # "foreign"
  BY DEF Mark, Event
<1>4. log' = Append(log, e) /\ ViewAfter(e) = w
  BY <1>2, <1>3 DEF Appends, ViewAfter
<1>5. Len(log') = n + 1 /\ log'[n + 1] = e /\ \A i \in 1 .. n : log'[i] = log[i]
  BY <1>1, <1>4
<1> HIDE DEF v
<1>6. w \in Views /\ w # Broken /\ w.pos = n + 1 /\ w.unlogged = 0
  <2> DEFINE rev == v.rev + 1
             gen == IF e.kind = "compacted" THEN v.gen + 1 ELSE v.gen
             pos == v.pos + 1
  <2>1. w = [v EXCEPT !.rev = rev, !.gen = gen, !.pos = pos]
    <3>1. e.kind = "delta" => e.parent.rev = v.rev
      BY DEF v
    <3>2. e.kind = "compacted" => e.parent = v
      BY DEF v
    <3>3. QED
      BY <1>2, <1>3, <3>1, <3>2 DEF Apply
  <2>2. rev \in Int /\ gen \in Nat /\ pos \in Nat /\ pos = n + 1
    BY <1>1, <1>2 DEF Views
  <2> HIDE DEF rev, gen, pos, w
  <2>3. w \in Views /\ w.pos = pos /\ w.unlogged = v.unlogged
    BY <1>2, <2>1, <2>2 DEF Views
  <2>4. w.pos # 0
    BY <1>1, <2>2, <2>3
  <2>5. w # Broken
    BY <2>4 DEF Broken
  <2>6. QED
    BY <1>2, <2>2, <2>3, <2>5
<1> HIDE DEF w
<1>7. g[n + 1] = w /\ \A i \in 0 .. n : g[i] = f[i]
  BY <1>1
<1> HIDE DEF g
<1>8. History(g, log')
  <2>1. g[0] = Seed
    BY <1>1, <1>7 DEF History
  <2>2. ASSUME NEW i \in 1 .. n + 1 PROVE g[i] = Apply(g[i - 1], log'[i])
    <3>1. CASE i = n + 1
      <4>1. g[i - 1] = v /\ g[i] = w /\ log'[i] = e
        BY <1>1, <1>5, <1>7, <3>1 DEF v
      <4>2. QED
        BY <4>1 DEF w
    <3>2. CASE i # n + 1
      <4>1. i \in 1 .. n /\ i \in 0 .. n /\ i - 1 \in 0 .. n
        BY <1>1, <3>2
      <4>2. QED
        BY <1>1, <1>5, <1>7, <4>1 DEF History
    <3>3. QED
      BY <3>1, <3>2
  <2>3. ASSUME NEW i \in 0 .. n + 1
        PROVE  g[i] \in Views /\ g[i] # Broken /\ g[i].pos = i /\ g[i].unlogged = 0
    <3>1. CASE i = n + 1
      BY <1>6, <1>7, <3>1
    <3>2. CASE i # n + 1
      <4>1. i \in 0 .. n
        BY <1>1, <3>2
      <4>2. QED
        BY <1>1, <1>7, <4>1 DEF History
    <3>3. QED
      BY <3>1, <3>2
  <2>4. QED
    BY <1>5, <2>1, <2>2, <2>3 DEF History
<1>9. QED
  BY <1>4, <1>5, <1>6, <1>7, <1>8

(* An attempt that is over stands at the seed. *)
LEMMA OverStands ==
  ASSUME NEW f, NEW lg, History(f, lg), NEW n
  PROVE  RunStands(f, n, NotRunning)
<1>1. NotRunning.pc = "none" /\ NotRunning.view = Seed /\ NotRunning.dispatch = "no"
      /\ Seed.pos = 0
  BY DEF NotRunning, Seed
<1>2. QED
  BY <1>1 DEF RunStands, History, Early

(* A step that leaves the log and the RunCheckpoint alone *)
LEMMA KeptStands ==
  ASSUME NEW f, Stands(f, log, saved, run), log' = log, saved' = saved,
         RunStands(f, Len(log), run')
  PROVE  Stands(f, log', saved', run')
BY DEF Stands

(* A RunCheckpoint of a View at the end of the history *)
LEMMA SavedAtEnd ==
  ASSUME LoopInv, NEW f, Stands(f, log, saved, run),
         NEW g, NEW n \in Nat, \A i \in 0 .. Len(log) : g[i] = f[i],
         saved' = saved \/ Stood(g, n, saved')
  PROVE  SavedStands(g, saved')
<1>1. ViewOK(saved, log) /\ Len(log) \in Nat /\ SavedStands(f, saved)
  BY DEF LoopInv, Typed, Stands
<1>2. saved.pos \in 0 .. Len(log)
  BY <1>1 DEF ViewOK, Views
<1>3. QED
  BY <1>1, <1>2 DEF SavedStands, Stood

(* A step that only marks progress leaves the history as it stands. *)
LEMMA MarkStands ==
  ASSUME LoopInv, NEW f, Stands(f, log, saved, run), NEW l \in Locals, Step(Mark, l),
         SavesNext(Mark) \/ UNCHANGED saved,
         l.pc # "delta", l.pc \in Early => run.pc \in Early,
         l.dispatch = "pressed" => l.pc \in Dispatches /\ l.parent = ViewAfter(Mark)
  PROVE  Stands(f, log', saved', run')
<1> DEFINE v == ViewAfter(Mark)
           n == Len(log)
<1>1. Typed /\ n \in Nat /\ History(f, log) /\ RunStands(f, n, run) /\ Appends(Mark)
  BY DEF LoopInv, Typed, Stands, Step
<1>2. log' = log /\ v = Replay(run.view) /\ v # Broken
  BY <1>1, MarkTail
<1>3. v \in Views /\ Stood(f, n, v) /\ (run.pc \in Early => v = f[n])
  BY <1>2, TailOf
<1>4. run' = [l EXCEPT !.view = v]
  BY <1>2 DEF Step, Becomes
<1>5. saved' = saved \/ saved' = v
  BY <1>2 DEF SavesNext, Saves
<1>6. l.dispatch = "pressed" => l.pc \in Dispatches /\ l.parent = v
  OBVIOUS
<1> HIDE DEF v, n
<1>7. run'.pc = l.pc /\ run'.view = v /\ run'.parent = l.parent /\ run'.dispatch = l.dispatch
  BY <1>4 DEF Locals
<1>8. RunStands(f, n, run')
  BY <1>3, <1>6, <1>7 DEF RunStands, Stood
<1>9. SavedStands(f, saved')
  BY <1>1, <1>3, <1>5, SavedAtEnd DEF n
<1>10. QED
  BY <1>1, <1>2, <1>8, <1>9 DEF Stands, n

(* An event that changes the text extends the history by one View. *)
LEMMA EventStands ==
  ASSUME LoopInv, NEW f, Stands(f, log, saved, run), NEW e \in Events,
         Appends(e), SavesNext(e) \/ UNCHANGED saved, Replay(run.view) = f[Len(log)],
         e.kind \in {"plan", "delta", "compacted"},
         e.kind = "delta" => e.parent.rev = f[Len(log)].rev,
         e.kind = "compacted" => e.parent = f[Len(log)],
         \/ run' = NotRunning
         \/ \E l \in Locals : /\ ViewAfter(e) # Broken => run' = [l EXCEPT !.view = ViewAfter(e)]
                              /\ l.pc # "delta" /\ l.dispatch # "pressed"
  PROVE  \E g : Stands(g, log', saved', run')
<1> DEFINE v == ViewAfter(e)
           n == Len(log')
<1>1. Typed /\ Len(log) \in Nat
  BY DEF LoopInv, Typed
<1>2. n = Len(log) + 1 /\ v # Broken
  BY EventTail
<1>3. PICK g : History(g, log') /\ g[n] = v /\ \A i \in 0 .. Len(log) : g[i] = f[i]
  BY EventTail
<1>4. n \in Nat /\ v.pos = n
  BY <1>1, <1>2, <1>3 DEF History
<1>5. saved' = saved \/ Stood(g, n, saved')
  BY <1>2, <1>3, <1>4 DEF SavesNext, Saves, Stood
<1>6. SavedStands(g, saved')
  BY <1>1, <1>3, <1>4, <1>5, SavedAtEnd
<1>7. RunStands(g, n, run')
  <2>1. CASE run' = NotRunning
    BY <1>3, <2>1, OverStands
  <2>2. CASE run' # NotRunning
    <3>1. PICK l \in Locals : /\ run' = [l EXCEPT !.view = v]
                              /\ l.pc # "delta" /\ l.dispatch # "pressed"
      BY <1>2, <2>2
    <3> HIDE DEF v
    <3>2. run'.pc = l.pc /\ run'.view = v /\ run'.dispatch = l.dispatch
      BY <3>1 DEF Locals
    <3>3. QED
      BY <1>3, <1>4, <3>1, <3>2 DEF RunStands, Stood
  <2>3. QED
    BY <2>1, <2>2
<1>8. QED
  BY <1>3, <1>6, <1>7 DEF Stands

(* An event made for a View with an item no event carries is excepted. *)
LEMMA DirectiveTail ==
  ASSUME LoopInv, NEW f, Stands(f, log, saved, run), NEW e \in Events, Appends(e),
         e.parent.unlogged > 0
  PROVE  BuiltOnDirective'
<1>1. log \in Seq(Events) /\ Len(log) \in Nat
  BY DEF LoopInv, Typed
<1>2. Replay(run.view) # Broken
  BY TailOf
<1>3. e # Mark
  BY DEF Mark, Event, Events
<1>4. log' = Append(log, e)
  BY <1>2, <1>3 DEF Appends
<1>5. Len(log) + 1 \in DOMAIN log' /\ log'[Len(log) + 1] = e
  BY <1>1, <1>4
<1>6. QED
  BY <1>5 DEF BuiltOnDirective

(* The actions that append nothing *)
LEMMA SilentStands ==
  ASSUME LoopInv, NEW f, Stands(f, log, saved, run),
         \/ Claim \/ Open \/ Resolve \/ RepairChangesNothing \/ Reclaim \/ Retry \/ Deliver
         \/ RequestRejected \/ ContextLimit \/ CallFails \/ Kill \/ MemoryDisabled
         \/ YieldForMemory \/ YieldForEditor \/ YieldForObserver \/ YieldForReconciliation
  PROVE  Stands(f, log', saved', run')
<1> DEFINE n == Len(log)
<1>1. Typed /\ run \in Locals /\ n \in Nat /\ History(f, log) /\ RunStands(f, n, run)
      /\ ViewOK(run.view, log) /\ ViewOK(saved, log)
  BY DEF LoopInv, LocalOK, Typed, Stands
<1>2. log' = log /\ saved' = saved
  BY DEF Claim, Open, Resolve, RepairChangesNothing, Reclaim, Retry, Deliver, MemoryDisabled,
         YieldForMemory, YieldForEditor, YieldForObserver, YieldForReconciliation, Yields,
         RequestRejected, ContextLimit, CallFails, Kill
<1>3. ASSUME RunStands(f, n, run') PROVE Stands(f, log', saved', run')
  BY <1>2, <1>3, KeptStands
<1>4. CASE run' = NotRunning \/ run' = run
  BY <1>1, <1>3, <1>4, OverStands
<1>5. CASE Claim
  <2> DEFINE l == [NotRunning EXCEPT !.pc = "open", !.from = ResumeRef]
  <2>1. run' = l /\ l.pc = "open" /\ l.view = Seed /\ l.dispatch = "no" /\ Seed.pos = 0
    BY <1>5 DEF Claim, Becomes, NotRunning, Seed
  <2> HIDE DEF l
  <2>2. QED
    BY <1>1, <1>3, <2>1 DEF RunStands, History, Early
<1>6. CASE Open
  <2>1. CASE run' = [run EXCEPT !.pc = "plan"]
    <3> DEFINE l == [run EXCEPT !.pc = "plan"]
    <3>1. run' = l /\ l.pc = "plan" /\ l.view = run.view /\ l.dispatch = run.dispatch
          /\ run.pc = "open"
      BY <1>1, <1>6, <2>1 DEF Locals, Open
    <3> HIDE DEF l
    <3>2. QED
      BY <1>1, <1>3, <3>1 DEF RunStands, Early, Dispatches
  <2>2. CASE run' = Resume /\ run.from # 0 /\ Replay(saved) # Broken
    <3> DEFINE q == PhasePc(ckpts[run.from].phase)
    <3>1. run.pc = "open"
      BY <1>6 DEF Open
    <3>2. run'.pc = q /\ run'.dispatch = run.dispatch /\ run'.view = Replay(saved)
      BY <1>1, <2>2 DEF Resume, Locals
    <3>3. q \in {"memory", "review", "observe", "reconcile"}
      BY DEF PhasePc
    <3>4. Stood(f, n, Replay(saved))
      <4>1. saved \in Views /\ saved.pos <= Len(log) /\ log \in Seq(Events)
        BY <1>1 DEF ViewOK, Typed
      <4>2. Replay(saved).pos = n /\ Replay(saved).unlogged = saved.unlogged
        BY <2>2, <4>1, ReplayOK
      <4>3. saved = f[saved.pos] => Replay(saved) = f[n]
        BY <1>1, HistoryReplays
      <4>4. QED
        BY <4>2, <4>3 DEF Stands, SavedStands, Stood
    <3> HIDE DEF q
    <3>5. QED
      BY <1>1, <1>3, <3>1, <3>2, <3>3, <3>4 DEF RunStands, Early, Dispatches
  <2>3. CASE run' = NotRunning
    BY <1>4, <2>3
  <2>4. QED
    BY <1>6, <2>1, <2>2, <2>3 DEF Open, Becomes, Returns, Ends
<1>7. CASE Resolve
  <2> DEFINE l == [run EXCEPT !.pc = "delta", !.parent = run.view]
  <2>1. run' = l /\ l.pc = "delta" /\ l.view = run.view /\ l.parent = run.view
        /\ l.dispatch = run.dispatch /\ run.pc = "memory"
    BY <1>1, <1>7 DEF Locals, Resolve, Becomes
  <2> HIDE DEF l
  <2>2. QED
    BY <1>1, <1>3, <2>1 DEF RunStands, Early, Dispatches
<1>8. CASE RepairChangesNothing
  <2> DEFINE l == [run EXCEPT !.tries = @ + 1]
  <2>1. run' = l \/ run' = NotRunning
    BY <1>8 DEF RepairChangesNothing, Becomes, Returns, Ends
  <2>2. l.pc = run.pc /\ l.view = run.view /\ l.parent = run.parent
        /\ l.dispatch = run.dispatch
    BY <1>1 DEF Locals
  <2> HIDE DEF l
  <2>3. RunStands(f, n, l)
    BY <1>1, <2>2 DEF RunStands
  <2>4. QED
    BY <1>3, <1>4, <2>1, <2>3
<1>9. CASE Reclaim \/ Retry
  BY <1>4, <1>9 DEF Reclaim, Retry, Ends, Becomes
<1>10. CASE \/ RequestRejected \/ ContextLimit \/ CallFails \/ Kill \/ MemoryDisabled \/ Deliver
            \/ YieldForMemory \/ YieldForEditor \/ YieldForObserver \/ YieldForReconciliation
  BY <1>4, <1>10
     DEF MemoryDisabled, YieldForMemory, YieldForEditor, YieldForObserver,
         YieldForReconciliation, Yields, RequestRejected, ContextLimit, CallFails, Kill,
         Deliver, Returns, Ends, Becomes
<1>11. QED
  BY <1>5, <1>6, <1>7, <1>8, <1>9, <1>10

(* The steps that only mark their place in the log *)
LEMMA MarkingStands ==
  ASSUME LoopInv, NEW f, Stands(f, log, saved, run),
         \/ Pressure \/ Draft \/ Repair \/ Rewrite \/ Observe \/ Reconcile
         \/ \E answer \in {"memory", "draft"} : Turn(answer)
  PROVE  Stands(f, log', saved', run')
<1>1. Typed /\ LocalOK(run, ckpts, budgets) /\ run \in Locals /\ Live
      /\ RunStands(f, Len(log), run)
  BY DEF LoopInv, LocalOK, Stands, Pressure, Turn, Draft, Repair, Rewrite, Observe,
         Reconcile, Reconciling, Live, Dispatches
<1>2. CASE Pressure
  <2> DEFINE v == ViewAfter(Mark)
             l == [run EXCEPT !.dispatch = "pressed", !.parent = v]
  <2>1. Step(Mark, l) /\ run.pc \in Dispatches /\ UNCHANGED saved
    BY <1>2 DEF Pressure
  <2>2. v \in Views
    BY <1>1, <2>1, AppendsOK DEF Step
  <2>3. l \in Locals /\ l.pc = run.pc /\ l.parent = v
    BY <1>1, <2>2 DEF Locals
  <2> HIDE DEF l
  <2>4. QED
    BY <1>1, <2>1, <2>3, MarkStands DEF Dispatches, Early
<1>3. ASSUME NEW answer \in {"memory", "draft"}, Turn(answer)
      PROVE  Stands(f, log', saved', run')
  <2> DEFINE l == [Pays(run, <<"turn", run.turns>>)
                     EXCEPT !.pc = answer, !.dispatch = "no", !.turns = @ + 1,
                            !.sliceTurns = @ + 1]
  <2>1. Step(Mark, l) /\ SavesNext(Mark) /\ run.pc = "turn" /\ l \in Locals
    BY <1>3, TurnLocals DEF Turn, LocalOK
  <2>2. l.pc = answer /\ l.dispatch = "no"
    BY <1>1 DEF Pays, Locals
  <2> HIDE DEF l
  <2>3. QED
    BY <1>1, <2>1, <2>2, MarkStands DEF Early
<1>4. CASE Draft
  <2> DEFINE l == [run EXCEPT !.pc = "drafted", !.draft = NewText, !.final = NewText,
                              !.texts = @ + 1]
  <2>1. Step(Mark, l) /\ SavesNext(Mark) /\ run.pc = "draft" /\ l \in Locals
    BY <1>4, DraftLocals DEF Draft, LocalOK
  <2>2. l.pc = "drafted" /\ l.dispatch = run.dispatch /\ run.dispatch # "pressed"
    BY <1>1, <2>1 DEF Locals, RunStands, Dispatches
  <2> HIDE DEF l
  <2>3. QED
    BY <1>1, <2>1, <2>2, MarkStands DEF Early
<1>5. CASE Repair
  <2> DEFINE l == [Pays(run, <<"repair", run.tries>>)
                     EXCEPT !.pc = "reverify", !.post = @ + 1, !.texts = @ + 1,
                            !.final = NewText]
  <2>1. Step(Mark, l) /\ UNCHANGED saved /\ run.pc = "repair" /\ l \in Locals
    BY <1>5, RepairLocals DEF Repair, LocalOK
  <2>2. l.pc = "reverify" /\ l.dispatch = run.dispatch /\ run.dispatch # "pressed"
    BY <1>1, <2>1 DEF Pays, Locals, RunStands, Dispatches
  <2> HIDE DEF l
  <2>3. QED
    BY <1>1, <2>1, <2>2, MarkStands DEF Early
<1>6. CASE Rewrite
  <2> DEFINE l == [Pays(run, <<"rewrite", run.tries>>)
                     EXCEPT !.pc = "rereview", !.dispatch = "no", !.post = @ + 1,
                            !.texts = @ + 1, !.final = NewText]
  <2>1. Step(Mark, l) /\ UNCHANGED saved /\ run.pc = "rewrite" /\ l \in Locals
    BY <1>6, RewriteLocals DEF Rewrite, LocalOK
  <2>2. l.pc = "rereview" /\ l.dispatch = "no"
    BY <1>1 DEF Pays, Locals
  <2> HIDE DEF l
  <2>3. QED
    BY <1>1, <2>1, <2>2, MarkStands DEF Early
<1>7. CASE Observe
  <2> DEFINE l == [Pays(run, <<"observe", 0>>)
                     EXCEPT !.pc = "observed", !.post = @ + 1, !.observed = run.final]
  <2>1. Step(Mark, l) /\ UNCHANGED saved /\ run.pc = "observe" /\ l \in Locals
    BY <1>7, ObserveLocals DEF Observe, LocalOK
  <2>2. l.pc = "observed" /\ l.dispatch = run.dispatch /\ run.dispatch # "pressed"
    BY <1>1, <2>1 DEF Pays, Locals, RunStands, Dispatches
  <2> HIDE DEF l
  <2>3. QED
    BY <1>1, <2>1, <2>2, MarkStands DEF Early
<1>8. CASE Reconcile
  <2> DEFINE l == [run EXCEPT !.pc = "ready"]
  <2>1. /\ Step(Mark, l) /\ SavesNext(Mark) /\ run.pc \in {"observed", "reconcile"}
        /\ l \in Locals
    BY <1>8, ReadyLocals DEF Reconcile, Reconciling, LocalOK
  <2>2. l.pc = "ready" /\ l.dispatch = run.dispatch /\ run.dispatch # "pressed"
    BY <1>1, <2>1 DEF Locals, RunStands, Dispatches
  <2> HIDE DEF l
  <2>3. QED
    BY <1>1, <2>1, <2>2, MarkStands DEF Early
<1>9. QED
  BY <1>2, <1>3, <1>4, <1>5, <1>6, <1>7, <1>8

(* A review leaves the View where it is, or puts the directive into it. *)
LEMMA ReviewedStands ==
  ASSUME LoopInv, Live, NEW f, Stands(f, log, saved, run),
         NEW local \in Locals, local.dispatch = run.dispatch, run.pc \in Reviewing \ {"rewrite"},
         NEW next \in {"observe", "repair", "rewrite", "exhausted"}, Reviewed(local, next)
  PROVE  Stands(f, log', saved', run')
<1> DEFINE v == ViewAfter(Mark)
           n == Len(log)
<1>1. /\ Typed /\ run \in Locals /\ n \in Nat /\ History(f, log) /\ RunStands(f, n, run)
      /\ Appends(Mark) /\ saved' = saved
  BY DEF LoopInv, LocalOK, Typed, Stands, Reviewed
<1>2. log' = log /\ v \in Views /\ v # Broken /\ Stood(f, n, v)
  BY <1>1, MarkTail, TailOf
<1>3. run' = NotRunning \/ (run' = ReviewTarget(local, next, v) /\ next # "exhausted")
  <2>1. CASE next = "exhausted"
    BY <1>2, <2>1 DEF Reviewed, Becomes, Returns, Ends
  <2>2. CASE next # "exhausted"
    BY <1>2, <2>2 DEF Reviewed, ReviewTarget, Becomes
  <2>3. QED
    BY <2>1, <2>2
<1> HIDE DEF v
<1>4. RunStands(f, n, run')
  <2>1. CASE run' = NotRunning
    BY <1>1, <2>1, OverStands
  <2>2. CASE run' = ReviewTarget(local, next, v) /\ next # "exhausted"
    <3> DEFINE l == ReviewTarget(local, next, v)
    <3>1. PutWorkingItem(v).pos = v.pos /\ PutWorkingItem(v).unlogged > 0
      BY <1>2 DEF PutWorkingItem, Views
    <3>2. run.dispatch # "pressed"
      BY <1>1 DEF RunStands, Reviewing, Dispatches
    <3>3. /\ l.pc = next /\ l.dispatch # "pressed" /\ (next # "rewrite" => l.view = v)
          /\ next = "rewrite" => l.view = PutWorkingItem(v)
      BY <1>2, <3>2 DEF ReviewTarget, Rewriting, Locals
    <3> HIDE DEF l
    <3>4. RunStands(f, n, l)
      BY <1>2, <2>2, <3>1, <3>3 DEF RunStands, Stood, Early
    <3>5. QED
      BY <2>2, <3>4 DEF l
  <2>3. QED
    BY <1>3, <2>1, <2>2
<1>5. QED
  BY <1>1, <1>2, <1>4, KeptStands DEF n

(* The three reviews *)
LEMMA ReviewsStand ==
  ASSUME LoopInv, NEW f, Stands(f, log, saved, run), NEW verdict \in Verdicts,
         Review(verdict) \/ Reverify(verdict) \/ Rereview(verdict)
  PROVE  Stands(f, log', saved', run')
<1>1. Typed /\ run \in Locals /\ Live /\ run.pc \in Reviewing \ {"rewrite"}
  BY DEF LoopInv, LocalOK, Review, Reverify, Rereview, ReviewPc, Live, Reviewing
<1>2. ReportOf(verdict) \in Reports
  BY <1>1 DEF ReportOf, Reports, Locals
<1>3. CASE Review(verdict)
  <2> DEFINE local == [Pays(run, <<"review", 0>>)
                         EXCEPT !.report = ReportOf(verdict), !.pc = "review"]
             next == AfterReview(verdict)
  <2>1. Reviewed(local, next) /\ next \in {"observe", "repair", "rewrite", "exhausted"}
    BY <1>3 DEF Review, AfterReview
  <2>2. <<"review", 0>> \in Labels
    BY DEF Labels
  <2>3. local \in Locals /\ local.dispatch = run.dispatch
    BY <1>1, <1>2, <2>2 DEF Pays, Locals, Pcs, Reviewing
  <2> HIDE DEF local, next
  <2>4. QED
    BY <1>1, <2>1, <2>3, ReviewedStands
<1>4. CASE Reverify(verdict)
  <2> DEFINE local == [Pays(run, <<"reverify", run.tries>>)
                         EXCEPT !.report = ReportOf(verdict)]
             next == IF verdict = "PASS" THEN "observe" ELSE "exhausted"
  <2>1. Reviewed(local, next) /\ next \in {"observe", "repair", "rewrite", "exhausted"}
    BY <1>4 DEF Reverify
  <2>2. <<"reverify", run.tries>> \in Labels
    BY <1>1 DEF Labels, Locals
  <2>3. local \in Locals /\ local.dispatch = run.dispatch
    BY <1>1, <1>2, <2>2 DEF Pays, Locals
  <2> HIDE DEF local, next
  <2>4. QED
    BY <1>1, <2>1, <2>3, ReviewedStands
<1>5. CASE Rereview(verdict)
  <2> DEFINE local == [Pays(run, <<"rereview", run.tries>>)
                         EXCEPT !.report = ReportOf(verdict)]
             next == CASE verdict = "PASS" -> "observe"
                       [] verdict = "MAJOR_REWRITE" /\ run.tries < budgets.rewrites -> "rewrite"
                       [] OTHER -> "exhausted"
  <2>1. Reviewed(local, next)
    BY <1>5 DEF Rereview
  <2>2. next \in {"observe", "repair", "rewrite", "exhausted"}
    OBVIOUS
  <2>3. <<"rereview", run.tries>> \in Labels
    BY <1>1 DEF Labels, Locals
  <2>4. local \in Locals /\ local.dispatch = run.dispatch
    BY <1>1, <1>2, <2>3 DEF Pays, Locals
  <2> HIDE DEF local, next
  <2>5. QED
    BY <1>1, <2>1, <2>2, <2>4, ReviewedStands
<1>6. QED
  BY <1>3, <1>4, <1>5

(* The steps that append an event, to the end of the log or to what        *)
(* LogReplays excepts: it was made for the View it is applied to.          *)
LEMMA AppendingStands ==
  ASSUME LoopInv, NEW f, Stands(f, log, saved, run), ~BuiltOnDirective',
         Plan \/ Compacted \/ KillUnsaved \/ \E denied \in BOOLEAN : Delta(denied)
  PROVE  \E g : Stands(g, log', saved', run')
<1> DEFINE n == Len(log)
<1>1. /\ Typed /\ LocalOK(run, ckpts, budgets) /\ run \in Locals /\ n \in Nat
      /\ History(f, log) /\ RunStands(f, n, run) /\ log \in Seq(Events)
  BY DEF LoopInv, LocalOK, Typed, Stands
<1>2. Seed \in Views
  BY DEF Seed, Views
<1>3. Event("plan", Seed) \in Events /\ Event("plan", Seed).kind = "plan"
  BY <1>2 DEF Event, Events
<1>4. ASSUME run.pc = "plan" PROVE Replay(run.view) = f[n]
  BY <1>4, TailOf DEF Early
<1>5. CASE Plan
  <2> DEFINE l == [Pays(run, <<"plan", 0>>) EXCEPT !.pc = "turn", !.dispatch = "no"]
             e == Event("plan", Seed)
  <2>1. Step(e, l) /\ SavesNext(e) /\ run.pc = "plan" /\ l \in Locals
    BY <1>5, PlanLocals DEF Plan, LocalOK
  <2>2. e \in Events /\ e.kind = "plan"
    BY <1>3
  <2>3. l.pc = "turn" /\ l.dispatch = "no"
    BY <1>1 DEF Pays, Locals
  <2> HIDE DEF l, e
  <2>4. Appends(e) /\ (ViewAfter(e) # Broken => run' = [l EXCEPT !.view = ViewAfter(e)])
    BY <2>1 DEF Step, Becomes
  <2>5. QED
    BY <1>4, <2>1, <2>2, <2>3, <2>4, EventStands
<1>6. ASSUME run.pc = "delta", NEW e, e = Event("delta", run.parent), Appends(e),
             SavesNext(e) \/ UNCHANGED saved,
             \/ run' = NotRunning
             \/ \E l \in Locals :
                  /\ ViewAfter(e) # Broken => run' = [l EXCEPT !.view = ViewAfter(e)]
                  /\ l.pc # "delta" /\ l.dispatch # "pressed"
      PROVE  \E g : Stands(g, log', saved', run')
  <2>1. e \in Events /\ e.kind = "delta" /\ e.parent = run.parent
    BY <1>1, <1>6 DEF Event, Events, Locals
  <2>2. run.parent = run.view /\ Stood(f, n, run.view)
    BY <1>1, <1>6 DEF RunStands, Early
  <2>3. CASE run.view = f[n]
    <3>1. Replay(run.view) = f[n]
      BY <1>6, <2>3, TailOf DEF Early
    <3>2. QED
      BY <1>6, <2>1, <2>2, <2>3, <3>1, EventStands
  <2>4. CASE run.view.unlogged > 0
    BY <1>6, <2>1, <2>2, <2>4, DirectiveTail
  <2>5. QED
    BY <2>2, <2>3, <2>4 DEF Stood
<1>7. ASSUME NEW denied \in BOOLEAN, Delta(denied)
      PROVE  \E g : Stands(g, log', saved', run')
  <2> DEFINE l == [run EXCEPT !.pc = "turn", !.parent = Seed, !.sliceRounds = @ + 1]
             e == Event("delta", run.parent)
  <2>1. SavesNext(e) /\ run.pc = "delta" /\ l \in Locals
    BY <1>7, DeltaLocals DEF Delta, LocalOK
  <2>2. l.pc = "turn" /\ l.dispatch = run.dispatch /\ run.dispatch # "pressed"
    BY <1>1, <2>1 DEF Locals, RunStands, Dispatches
  <2>3. (Appends(e) /\ Returns("MEMORY_DENIED")) \/ Step(e, l)
    BY <1>7 DEF Delta
  <2>4. e = Event("delta", run.parent)
    OBVIOUS
  <2> HIDE DEF l, e
  <2>5. /\ Appends(e)
        /\ run' = NotRunning \/ (ViewAfter(e) # Broken => run' = [l EXCEPT !.view = ViewAfter(e)])
    BY <2>3 DEF Step, Becomes, Returns, Ends
  <2>6. QED
    BY <1>6, <2>1, <2>2, <2>4, <2>5
<1>8. CASE KillUnsaved
  <2>1. run' = NotRunning /\ UNCHANGED saved
    BY <1>8 DEF KillUnsaved, Ends, Becomes
  <2>2. CASE run.pc = "plan" /\ Appends(Event("plan", Seed))
    BY <1>3, <1>4, <2>1, <2>2, EventStands
  <2>3. CASE run.pc = "delta" /\ Appends(Event("delta", run.parent))
    BY <1>6, <2>1, <2>3
  <2>4. QED
    BY <1>8, <2>2, <2>3 DEF KillUnsaved
<1>9. CASE Compacted
  <2> DEFINE l == [run EXCEPT !.dispatch = "yes", !.parent = Seed]
             e == Event("compacted", run.parent)
  <2>1. /\ Step(e, l) \/ (run' = l /\ UNCHANGED <<task, log>>)
        /\ UNCHANGED saved /\ run.dispatch = "pressed"
    BY <1>9 DEF Compacted, Becomes
  <2>2. l \in Locals /\ l.pc = run.pc /\ l.dispatch = "yes" /\ l.view = run.view
    BY <1>1, <1>2 DEF Locals
  <2>3. e \in Events /\ e.kind = "compacted" /\ e.parent = run.parent
    BY <1>1 DEF Event, Events, Locals
  <2>4. /\ run.pc \in Dispatches /\ run.parent = run.view /\ run.view.pos = n
        /\ run.pc # "delta"
    BY <1>1, <2>1 DEF RunStands, Dispatches
  <2> HIDE DEF l, e
  <2>5. CASE run' = l /\ UNCHANGED <<task, log>>
    <3>1. RunStands(f, n, l)
      BY <1>1, <2>2, <2>4 DEF RunStands
    <3>2. QED
      BY <2>1, <2>5, <3>1, KeptStands
  <2>6. CASE Step(e, l)
    <3>1. Appends(e) /\ (ViewAfter(e) # Broken => run' = [l EXCEPT !.view = ViewAfter(e)])
      BY <2>6 DEF Step, Becomes
    <3>2. run.view \in Views /\ Replay(run.view) = run.view
      BY <1>1, <2>4, NothingToReplay DEF Locals
    <3>3. run.view = f[n] \/ run.view.unlogged > 0
      BY <3>2, TailOf DEF Stood
    <3>4. CASE run.view = f[n]
      BY <2>1, <2>2, <2>3, <2>4, <3>1, <3>2, <3>4, EventStands
    <3>5. CASE run.view.unlogged > 0
      BY <2>3, <2>4, <3>1, <3>5, DirectiveTail
    <3>6. QED
      BY <3>3, <3>4, <3>5
  <2>7. QED
    BY <2>1, <2>5, <2>6
<1>10. QED
  BY <1>5, <1>7, <1>8, <1>9

(* What LogReplays excepts cannot be undone: the log only grows. *)
LEMMA QuietBefore ==
  ASSUME LoopInv, [Next]_vars, Quiet'
  PROVE  Quiet
<1>1. log \in Seq(Events)
  BY DEF LoopInv, Typed
<1>2. log' = log \/ \E e : log' = Append(log, e)
  <2>1. ASSUME NEW e, Appends(e) PROVE log' = log \/ log' = Append(log, e)
    BY <2>1 DEF Appends
  <2>2. CASE Plan \/ Pressure \/ Draft \/ Repair \/ Rewrite \/ Observe \/ Reconcile
    BY <2>1, <2>2 DEF Plan, Pressure, Draft, Repair, Rewrite, Observe, Reconcile, Step
  <2>3. CASE Compacted
    BY <2>1, <2>3 DEF Compacted, Step
  <2>4. CASE \/ \E answer \in {"memory", "draft"} : Turn(answer)
             \/ \E denied \in BOOLEAN : Delta(denied)
    BY <2>1, <2>4 DEF Turn, Delta, Step
  <2>5. CASE \E v \in Verdicts : Review(v) \/ Reverify(v) \/ Rereview(v)
    BY <2>1, <2>5 DEF Review, Reverify, Rereview, Reviewed
  <2>6. CASE Foreign \/ Stray
    BY <2>6 DEF Foreign, Stray
  <2>7. CASE Claim \/ Reclaim \/ Retry \/ Fails
    BY <2>1, <2>7 DEF Claim, Reclaim, Retry, Fails, RequestRejected, ContextLimit, CallFails,
                      Kill, KillUnsaved
  <2>8. CASE Open \/ Deliver \/ MemoryDisabled \/ Resolve \/ RepairChangesNothing \/ YieldForMemory
               \/ YieldForEditor \/ YieldForObserver \/ YieldForReconciliation
    BY <2>8 DEF Open, Deliver, MemoryDisabled, Resolve, RepairChangesNothing, YieldForMemory,
                YieldForEditor, YieldForObserver, YieldForReconciliation, Yields
  <2>9. CASE UNCHANGED vars
    BY <2>9 DEF vars
  <2>10. QED
    BY <2>2, <2>3, <2>4, <2>5, <2>6, <2>7, <2>8, <2>9 DEF Next, Works
<1>3. stray = Strayed => stray' = Strayed
  <2>1. CASE Works
    <3>1. UNCHANGED stray
      BY <2>1 DEF Works, Open, Pressure, Compacted, Plan, Turn, MemoryDisabled, YieldForMemory,
                  Resolve, Delta, Draft, YieldForEditor, Review, Reverify, Rereview, Reviewed,
                  Repair, RepairChangesNothing, Rewrite, YieldForObserver, Observe,
                  YieldForReconciliation, Reconcile, Deliver, Yields, bounds
    <3>2. QED
      BY <3>1
  <2>2. CASE Fails
    BY <2>2 DEF Fails, RequestRejected, ContextLimit, CallFails, Kill, KillUnsaved
  <2>3. CASE Claim \/ Reclaim \/ Retry \/ Foreign \/ Stray
    BY <2>3 DEF Claim, Reclaim, Retry, Foreign, Stray, bounds, Strayed
  <2>4. CASE UNCHANGED vars
    BY <2>4 DEF vars
  <2>5. QED
    BY <2>1, <2>2, <2>3, <2>4 DEF Next
<1>4. \A i \in DOMAIN log : i \in DOMAIN log' /\ log'[i] = log[i]
  <2>1. CASE log' = log
    BY <2>1
  <2>2. ASSUME NEW e, log' = Append(log, e)
        PROVE  \A i \in DOMAIN log : i \in DOMAIN log' /\ log'[i] = log[i]
    BY <1>1, <2>2
  <2>3. QED
    BY <1>2, <2>1, <2>2
<1>5. QED
  BY <1>3, <1>4 DEF Quiet, BuiltOnDirective, HasForeign

(* The empty log is replayed. *)
LEMMA LogInit ==
  Init => LogInv
<1> SUFFICES ASSUME Init PROVE \E f : Stands(f, log, saved, run)
  BY DEF LogInv
<1>1. log = << >> /\ saved = Seed /\ run = NotRunning
  BY DEF Init
<1> DEFINE f == [i \in {0} |-> Seed]
<1>2. Seed \in Views /\ Seed # Broken /\ Seed.pos = 0 /\ Seed.unlogged = 0
  BY DEF Seed, Views, Broken
<1>3. f[0] = Seed /\ Len(log) = 0
  BY <1>1
<1> HIDE DEF f
<1>4. History(f, log)
  BY <1>2, <1>3 DEF History
<1>5. RunStands(f, Len(log), run)
  BY <1>1, <1>4, OverStands
<1>6. SavedStands(f, saved)
  BY <1>1, <1>2, <1>3 DEF SavedStands
<1>7. QED
  BY <1>4, <1>5, <1>6 DEF Stands

(* Every step keeps the history. *)
LEMMA LogStep ==
  LoopInv /\ LogInv /\ [Next]_vars => LogInv'
<1> SUFFICES ASSUME LoopInv, LogInv, [Next]_vars, Quiet'
             PROVE  \E g : Stands(g, log', saved', run')
  BY DEF LogInv, Stands
<1>1. PICK f : Stands(f, log, saved, run)
  BY QuietBefore DEF LogInv
<1>2. CASE \/ Claim \/ Open \/ Resolve \/ RepairChangesNothing \/ Reclaim \/ Retry \/ Deliver
           \/ RequestRejected \/ ContextLimit \/ CallFails \/ Kill \/ MemoryDisabled
           \/ YieldForMemory \/ YieldForEditor \/ YieldForObserver \/ YieldForReconciliation
  BY <1>1, <1>2, SilentStands
<1>3. CASE \/ Pressure \/ Draft \/ Repair \/ Rewrite \/ Observe \/ Reconcile
           \/ \E answer \in {"memory", "draft"} : Turn(answer)
  BY <1>1, <1>3, MarkingStands
<1>4. CASE \E v \in Verdicts : Review(v) \/ Reverify(v) \/ Rereview(v)
  BY <1>1, <1>4, ReviewsStand
<1>5. CASE Plan \/ Compacted \/ KillUnsaved \/ \E denied \in BOOLEAN : Delta(denied)
  BY <1>1, <1>5, AppendingStands DEF Quiet
<1>6. CASE Foreign
  <2>1. log' = Append(log, Event("foreign", Seed)) /\ log \in Seq(Events)
    BY <1>6 DEF Foreign, LoopInv, Typed
  <2>2. Len(log) + 1 \in DOMAIN log' /\ log'[Len(log) + 1] = Event("foreign", Seed)
    BY <2>1
  <2>3. HasForeign'
    BY <2>2 DEF HasForeign, Event
  <2>4. QED
    BY <2>3 DEF Quiet
<1>7. CASE Stray
  BY <1>7 DEF Stray, Quiet
<1>8. CASE UNCHANGED vars
  BY <1>1, <1>8 DEF vars
<1>9. QED
  BY <1>2, <1>3, <1>4, <1>5, <1>6, <1>7, <1>8 DEF Next, Works, Fails

(* However many attempts, kills (also between an event, its RunCheckpoint  *)
(* and the settlement), reclaims, yields and compactions a task has had,   *)
(* its events can be replayed from the seed and from its latest            *)
(* RunCheckpoint (AgentContextProjector.full_replay), until one of the     *)
(* things LogReplays names has happened: an event or a RunCheckpoint was   *)
(* built on a View with the directive of a rewrite, which no event         *)
(* carries, another process appended between a compaction and its event,   *)
(* or the worker of a reclaimed attempt went on.                           *)
THEOREM AttemptsLeaveAReplayableLog ==
  Spec => []LogReplays
BY LoopInit, LoopStep, LogInit, LogStep, LogInvReplays, PTL DEF Spec

-----------------------------------------------------------------------------
(* The type invariant                                                      *)

Counted == attempts \in 0 .. MaxAttempts

(* Only a claim counts an attempt. *)
LEMMA AttemptsStep ==
  Counted /\ [Next]_vars => Counted'
<1> SUFFICES ASSUME attempts \in 0 .. MaxAttempts, [Next]_vars
             PROVE  attempts' \in 0 .. MaxAttempts
  BY DEF Counted
<1>1. CASE Claim
  BY <1>1, WriterAssumption DEF Claim
<1>2. CASE Works
  BY <1>2 DEF Works, Open, Pressure, Compacted, Plan, Turn, MemoryDisabled, YieldForMemory,
              Resolve, Delta, Draft, YieldForEditor, Review, Reverify, Rereview, Reviewed,
              Repair, RepairChangesNothing, Rewrite, YieldForObserver, Observe,
              YieldForReconciliation, Reconcile, Deliver, Yields
<1>3. CASE Fails
  BY <1>3 DEF Fails, RequestRejected, ContextLimit, CallFails, Kill, KillUnsaved
<1>4. CASE Reclaim \/ Retry \/ Foreign \/ Stray
  BY <1>4 DEF Reclaim, Retry, Foreign, Stray
<1>5. CASE UNCHANGED vars
  BY <1>5 DEF vars
<1>6. QED
  BY <1>1, <1>2, <1>3, <1>4, <1>5 DEF Next

(* The rest of the type invariant is part of the loop's. *)
LEMMA LoopTypeOK ==
  LoopInv /\ Counted => TypeOK
<1> SUFFICES ASSUME LoopInv, attempts \in 0 .. MaxAttempts PROVE TypeOK
  BY DEF Counted
<1>1. Typed /\ LocalOK(run, ckpts, budgets)
  BY DEF LoopInv
<1>2. Range(refs) \cup Range(eventRefs) \subseteq DOMAIN ckpts
  BY <1>1 DEF Typed, Range
<1>3. /\ run.sliceRounds <= budgets.rounds /\ run.sliceTurns <= budgets.turns
      /\ run.from \in 0 .. Len(ckpts)
  BY <1>1 DEF LocalOK, Within
<1>4. run.post <= 2 + 2 * budgets.rewrites \/ (budgets.repairs > 0 /\ run.post <= 4)
  <2>1. budgets.rewrites \in Nat /\ run.tries \in Nat /\ run.post \in Nat
    BY <1>1, BudgetsOK DEF LocalOK, Locals
  <2>2. run.pc \in Pcs /\ Spent(run, budgets)
    BY <1>1 DEF LocalOK, Locals
  <2>3. QED
    BY <2>1, <2>2 DEF Spent, Pcs, Before, Reviewing, After
<1>5. QED
  BY <1>1, <1>2, <1>3, <1>4 DEF TypeOK, Typed, Statuses, ViewOK

(* An attempt runs only in a RUNNING task, every ref names a persisted     *)
(* checkpoint and the Views stand in the log.  A slice keeps to            *)
(* max_reactive_memory_rounds and max_writer_turns; its calls after the    *)
(* Draft, which may exceed max_post_draft_model_calls, are bounded by the  *)
(* repair or the rewrites its policy allows.                               *)
THEOREM SlicesKeepTheirAllowance ==
  Spec => []TypeOK
<1>1. Init => Counted
  BY WriterAssumption DEF Init, Counted
<1>2. QED
  BY <1>1, AttemptsStep, LoopAlways, LoopTypeOK, PTL DEF Spec

=============================================================================
