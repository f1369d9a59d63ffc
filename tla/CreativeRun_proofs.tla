------------------------ MODULE CreativeRun_proofs ------------------------
(***************************************************************************)
(* Theorems about CreativeRun, for every target, set of policies and bound *)
(* on troubles and kills: the run implements Manuscript, plans made ahead  *)
(* are committed only once they are revalidated, Canon does not move       *)
(* behind a chapter that is being written, and a run that waits has a      *)
(* reason to.                                                              *)
(***************************************************************************)
EXTENDS CreativeRun, WellFoundedInduction, FiniteSetTheorems, TLAPS

-----------------------------------------------------------------------------
(* The latest commit                                                       *)

Made(t, lines) == t.kind = "commit" /\ t.line \in lines

(* What Latest is: the last place where a commit of these lines was made *)
LatestIs(c, b, lines, m) ==
  /\ m \in 0 .. b
  /\ m # 0 => Made(c[m], lines)
  /\ \A i \in m + 1 .. b : ~Made(c[i], lines)

(* A set of places in 1 .. b that is not empty has a last one. *)
LEMMA LastPlace ==
  ASSUME NEW b \in Nat, NEW S \in SUBSET (1 .. b), S # {}
  PROVE  \E m \in S : \A i \in S : i <= m
<1> DEFINE T == {k \in Nat : b - k \in S}
           R == {p \in Nat \X Nat : p[1] < p[2]}
<1>1. IsWellFoundedOn(R, Nat)
  BY NatLessThanWellFounded DEF OpToRel
<1>2. ASSUME NEW i \in S PROVE b - i \in T /\ b - (b - i) = i
  BY <1>2
<1>3. T \in SUBSET Nat /\ T # {}
  BY <1>2
<1>4. PICK k \in T : \A j \in T : ~(<<j, k>> \in R)
  <2> HIDE DEF T, R
  <2>1. QED
    BY <1>1, <1>3, WFMin
<1>5. ASSUME NEW i \in S PROVE i <= b - k
  <2>1. ~(b - i < k)
    BY <1>2, <1>4
  <2>2. i \in Int /\ k \in Int
    BY <1>4
  <2>3. QED
    BY <2>1, <2>2
<1>6. QED
  BY <1>4, <1>5

(* Latest is that place. *)
LEMMA LatestOf ==
  ASSUME NEW c, NEW b \in Nat, NEW lines
  PROVE  LatestIs(c, b, lines, Latest(c, b, lines))
<1> DEFINE made == {i \in 1 .. b : c[i].kind = "commit" /\ c[i].line \in lines}
           m == Latest(c, b, lines)
<1>1. \A i \in 1 .. b : i \in made <=> Made(c[i], lines)
  BY DEF Made
<1>2. m = IF made = {} THEN 0 ELSE CHOOSE i \in made : \A j \in made : j <= i
  BY DEF Latest
<1>3. CASE made = {}
  BY <1>1, <1>2, <1>3 DEF LatestIs
<1>4. CASE made # {}
  <2>1. made \in SUBSET (1 .. b)
    OBVIOUS
  <2> HIDE DEF made, m
  <2>2. \E i \in made : \A j \in made : j <= i
    BY <1>4, <2>1, LastPlace
  <2>3. m \in made /\ \A j \in made : j <= m
    BY <1>2, <1>4, <2>2
  <2>4. m \in 1 .. b
    BY <2>1, <2>3
  <2>5. ASSUME NEW i \in m + 1 .. b PROVE ~Made(c[i], lines)
    <3>1. i \in 1 .. b /\ ~(i <= m)
      BY <2>4
    <3>2. QED
      BY <1>1, <2>3, <3>1
  <2>6. LatestIs(c, b, lines, m)
    BY <1>1, <2>3, <2>4, <2>5 DEF LatestIs
  <2>7. QED
    BY <2>6 DEF m
<1>5. QED
  BY <1>3, <1>4

(* There is only one such place. *)
LEMMA LatestUnique ==
  ASSUME NEW c, NEW b \in Nat, NEW lines, NEW m, NEW n,
         LatestIs(c, b, lines, m), LatestIs(c, b, lines, n)
  PROVE  m = n
<1>1. m \in 0 .. b /\ n \in 0 .. b
  BY DEF LatestIs
<1>2. ~(m < n)
  BY <1>1 DEF LatestIs
<1>3. ~(n < m)
  BY <1>1 DEF LatestIs
<1>4. QED
  BY <1>1, <1>2, <1>3

(* It depends on the first b commits only. *)
LEMMA LatestSame ==
  ASSUME NEW c, NEW d, NEW b \in Nat, NEW lines, \A i \in 1 .. b : d[i] = c[i]
  PROVE  Latest(d, b, lines) = Latest(c, b, lines)
<1> DEFINE m == Latest(c, b, lines)
<1>1. LatestIs(c, b, lines, m)
  BY LatestOf
<1> HIDE DEF m
<1>2. LatestIs(d, b, lines, m)
  <2>1. m \in 0 .. b /\ (m # 0 => m \in 1 .. b)
    BY <1>1 DEF LatestIs
  <2>2. \A i \in m + 1 .. b : i \in 1 .. b
    BY <2>1
  <2>3. QED
    BY <1>1, <2>1, <2>2 DEF LatestIs
<1>3. QED
  BY <1>2, LatestOf, LatestUnique DEF m

(* One commit later it is that commit, or still the one before. *)
LEMMA LatestNext ==
  ASSUME NEW c, NEW b \in Nat \ {0}, NEW lines
  PROVE  /\ Made(c[b], lines) => Latest(c, b, lines) = b
         /\ ~Made(c[b], lines) => Latest(c, b, lines) = Latest(c, b - 1, lines)
<1> DEFINE m == Latest(c, b - 1, lines)
<1>1. LatestIs(c, b - 1, lines, m)
  BY LatestOf
<1>2. CASE Made(c[b], lines)
  <2>1. LatestIs(c, b, lines, b)
    BY <1>2 DEF LatestIs
  <2>2. QED
    BY <1>2, <2>1, LatestOf, LatestUnique
<1>3. CASE ~Made(c[b], lines)
  <2> HIDE DEF m
  <2>1. m \in 0 .. b /\ \A i \in m + 1 .. b : i = b \/ i \in m + 1 .. b - 1
    BY <1>1 DEF LatestIs
  <2>2. LatestIs(c, b, lines, m)
    BY <1>1, <1>3, <2>1 DEF LatestIs
  <2>3. QED
    BY <1>3, <2>2, LatestOf, LatestUnique DEF m
<1>4. QED
  BY <1>2, <1>3

(* Over no commits it is none. *)
LEMMA LatestNone ==
  ASSUME NEW c, NEW lines
  PROVE  Latest(c, 0, lines) = 0
<1>1. LatestIs(c, 0, lines, Latest(c, 0, lines))
  BY LatestOf
<1>2. QED
  BY <1>1 DEF LatestIs

(* The same for what the Manuscript is told of the first b commits *)
LEMMA TextSame ==
  ASSUME NEW c, NEW d, NEW b \in Nat, \A i \in 1 .. b : d[i] = c[i]
  PROVE  /\ Latest(d, b, Lines) = Latest(c, b, Lines)
         /\ Latest(c, b, Lines) # 0 => d[Latest(c, b, Lines)] = c[Latest(c, b, Lines)]
         /\ Written(d, b) = Written(c, b)
         /\ \A h : Covered(d, b, h) = Covered(c, b, h)
         /\ \A rows : Fresh(d, b, rows) <=> Fresh(c, b, rows)
<1>1. \A lines : Latest(d, b, lines) = Latest(c, b, lines)
  BY LatestSame
<1>2. ASSUME NEW lines, Latest(c, b, lines) # 0
      PROVE  d[Latest(c, b, lines)] = c[Latest(c, b, lines)]
  <2> DEFINE m == Latest(c, b, lines)
  <2>1. LatestIs(c, b, lines, m)
    BY LatestOf
  <2> HIDE DEF m
  <2>2. m # 0
    BY <1>2 DEF m
  <2>3. m \in 1 .. b
    BY <2>1, <2>2 DEF LatestIs
  <2>4. d[m] = c[m]
    BY <2>3
  <2>5. QED
    BY <2>4 DEF m
<1>3. Written(d, b) = Written(c, b)
  BY <1>1, <1>2 DEF Written
<1>4. \A h : Covered(d, b, h) = Covered(c, b, h)
  BY <1>1, <1>2 DEF Covered, HorizonOf
<1>5. ASSUME NEW rows PROVE Fresh(d, b, rows) <=> Fresh(c, b, rows)
  <2>1. CASE Latest(c, b, Lines) = 0
    BY <1>1, <2>1 DEF Fresh
  <2>2. CASE Latest(c, b, Lines) # 0
    BY <1>1, <1>2, <2>2 DEF Fresh
  <2>3. QED
    BY <2>1, <2>2
<1>6. QED
  BY <1>1, <1>2, <1>3, <1>4, <1>5

Seen(t, rows) == t \in DOMAIN rows /\ rows[t].status = "SUCCEEDED"

(* One commit later *)
LEMMA TextNext ==
  ASSUME NEW c \in Seq(Ids), NEW b \in 1 .. Len(c)
  PROVE  /\ Made(c[b], {"draft"}) => /\ Written(c, b) = c[b].ch
                                     /\ \A h : Covered(c, b, h) = Covered(c, b - 1, h)
         /\ Made(c[b], Planning) => /\ Written(c, b) = Written(c, b - 1)
                                    /\ \A h : Covered(c, b, h) =
                                                c[b].ch + HorizonOf(c[b].line, h)
         /\ c[b].kind = "commit" =>
              /\ Latest(c, b, Lines) = b
              /\ \A rows : Fresh(c, b, rows) <=> Seen(Stage(c[b], "projection"), rows)
         /\ c[b].kind # "commit" =>
              /\ Latest(c, b, Lines) = Latest(c, b - 1, Lines)
              /\ Written(c, b) = Written(c, b - 1)
              /\ \A h : Covered(c, b, h) = Covered(c, b - 1, h)
              /\ \A rows : Fresh(c, b, rows) <=> Fresh(c, b - 1, rows)
<1>1. b \in Nat \ {0} /\ c[b] \in Ids /\ c[b].line \in Lines
  <2>1. b \in Nat \ {0} /\ c[b] \in Ids
    OBVIOUS
  <2>2. QED
    BY <2>1 DEF Ids
<1>2. \A lines : /\ Made(c[b], lines) => Latest(c, b, lines) = b
                 /\ ~Made(c[b], lines) => Latest(c, b, lines) = Latest(c, b - 1, lines)
  BY <1>1, LatestNext
<1>3. CASE Made(c[b], {"draft"})
  <2>1. ~Made(c[b], Planning) /\ Made(c[b], Lines)
    BY <1>1, <1>3 DEF Made, Planning
  <2>2. Latest(c, b, {"draft"}) = b /\ Latest(c, b, Planning) = Latest(c, b - 1, Planning)
    BY <1>2, <1>3, <2>1
  <2>3. Written(c, b) = c[b].ch /\ \A h : Covered(c, b, h) = Covered(c, b - 1, h)
    BY <1>1, <2>2 DEF Written, Covered
  <2>4. Latest(c, b, Lines) = b
    BY <1>2, <2>1
  <2>5. \A rows : Fresh(c, b, rows) <=> Seen(Stage(c[b], "projection"), rows)
    BY <1>1, <2>4 DEF Fresh, Seen
  <2>6. c[b].kind = "commit"
    BY <1>3 DEF Made
  <2>7. QED
    BY <2>1, <2>3, <2>4, <2>5, <2>6
<1>4. CASE Made(c[b], Planning)
  <2>1. ~Made(c[b], {"draft"}) /\ Made(c[b], Lines)
    BY <1>1, <1>4 DEF Made, Planning
  <2>2. Latest(c, b, Planning) = b /\ Latest(c, b, {"draft"}) = Latest(c, b - 1, {"draft"})
    BY <1>2, <1>4, <2>1
  <2>3. /\ Written(c, b) = Written(c, b - 1)
        /\ \A h : Covered(c, b, h) = c[b].ch + HorizonOf(c[b].line, h)
    BY <1>1, <2>2 DEF Written, Covered
  <2>4. Latest(c, b, Lines) = b
    BY <1>2, <2>1
  <2>5. \A rows : Fresh(c, b, rows) <=> Seen(Stage(c[b], "projection"), rows)
    BY <1>1, <2>4 DEF Fresh, Seen
  <2>6. c[b].kind = "commit"
    BY <1>4 DEF Made
  <2>7. QED
    BY <2>1, <2>3, <2>4, <2>5, <2>6
<1>5. CASE c[b].kind # "commit"
  <2>1. \A lines : Latest(c, b, lines) = Latest(c, b - 1, lines)
    BY <1>2, <1>5 DEF Made
  <2>2. QED
    BY <1>5, <2>1 DEF Made, Written, Covered, Fresh
<1>6. QED
  BY <1>1, <1>3, <1>4, <1>5 DEF Made, Planning

(* Chapters are numbers. *)
LEMMA TextTypes ==
  ASSUME NEW c \in Seq(Ids), NEW b \in 0 .. Len(c)
  PROVE  Written(c, b) \in Nat /\ \A pol \in Policies : Covered(c, b, pol) \in Nat
<1>1. b \in Nat /\ \A i \in 1 .. b : c[i].ch \in Nat
  <2>1. b \in Nat /\ Len(c) \in Nat /\ \A i \in 1 .. b : c[i] \in Ids
    OBVIOUS
  <2>2. \A t \in Ids : t.ch \in Nat
    BY CreativeRunAssumption DEF Ids
  <2>3. QED
    BY <2>1, <2>2
<1>2. ASSUME NEW lines, Latest(c, b, lines) # 0 PROVE c[Latest(c, b, lines)].ch \in Nat
  <2>1. Latest(c, b, lines) \in 1 .. b
    BY <1>1, <1>2, LatestOf DEF LatestIs
  <2>2. QED
    BY <1>1, <2>1
<1>3. Written(c, b) \in Nat
  BY <1>2 DEF Written
<1>4. ASSUME NEW pol \in Policies PROVE Covered(c, b, pol) \in Nat
  <2>1. \A line : HorizonOf(line, pol) \in Nat
    BY CreativeRunAssumption DEF HorizonOf
  <2>2. QED
    BY <1>2, <2>1 DEF Covered
<1>5. QED
  BY <1>3, <1>4

(* When the latest commit of all is a chapter, it is the last one written. *)
LEMMA LatestIsWritten ==
  ASSUME NEW c, NEW b \in Nat, NEW o, o = Latest(c, b, Lines), o # 0, c[o].line = "draft"
  PROVE  Written(c, b) = c[o].ch
<1>1. LatestIs(c, b, Lines, o)
  BY LatestOf
<1>2. LatestIs(c, b, {"draft"}, o)
  BY <1>1 DEF LatestIs, Made, Lines
<1>3. Latest(c, b, {"draft"}) = o
  BY <1>2, LatestOf, LatestUnique
<1>4. QED
  BY <1>3 DEF Written

-----------------------------------------------------------------------------
(* The inductive invariant                                                 *)

(* A chapter is in Canon and was observed to change nothing a plan made    *)
(* ahead of it depends on.                                                 *)
Justified(ch, c, rows) ==
  /\ ProjectionOf(ch) \in DOMAIN rows /\ rows[ProjectionOf(ch)].affects = "no"
  /\ \E j \in 1 .. Len(c) : c[j] = Id("draft", ch, 0, "commit")

Foregrounds == {"plan", "replan", "promo"}

(* What the first b commits say of a chapter that is written on them: it   *)
(* follows the last one, inside a plan that has been projected.            *)
ChapterFits(t, b, c, rows, pol) ==
  LET o == Latest(c, b, Lines)
  IN /\ t.n = 0 /\ t.kind # "maintenance"
     /\ Fresh(c, b, rows)
     /\ t.ch = Written(c, b) + 1 /\ t.ch <= Target /\ t.ch <= Covered(c, b, pol)
     /\ o # 0
     /\ c[o].line = "draft" => ~pol.lookahead /\ c[o].ch % pol.horizon # 0

(* And of a plan: it starts where the last chapter ends. *)
PlanFits(t, b, c, rows, pol) ==
  LET o == Latest(c, b, Lines)
  IN /\ Fresh(c, b, rows)
     /\ t.ch = Written(c, b) /\ t.ch < Target
     /\ ~pol.lookahead => t.ch % pol.horizon = 0
     /\ o # 0 => c[o].line = "draft"

(* A row stands on a prefix of Canon, for good: its basis never changes. *)
RowFits(t, b, c, rows, pol) ==
  /\ b \in 0 .. Len(c)
  /\ t.kind = "projection" => b > 0 /\ c[b] = Stage(t, "commit")
  /\ t.kind # "projection" /\ t.line = "draft" => ChapterFits(t, b, c, rows, pol)
  /\ t.kind # "projection" /\ t.line \in Foregrounds => PlanFits(t, b, c, rows, pol)
  /\ t.line = "look" => /\ t.kind \notin {"commit", "projection"}
                       /\ t.ch < Target
  /\ t.line \in {"look", "replan", "promo"} => pol.lookahead
  /\ t.kind = "maintenance" => <<t.line, t.ch>> \in GapAt
  /\ t.line = "promo" => Justified(t.ch, c, rows)

RowsFit(c, rows, pol) ==
  \A t \in DOMAIN rows :
    /\ t \in Ids /\ rows[t] \in Rows
    /\ RowFits(t, rows[t].basis, c, rows, pol)
    /\ rows[t].status = "RECOVERY_PENDING" => t.kind = "maintenance"

(* Each commit was made by a row whose basis was the commit before it. *)
CommitsFit(c, rows) ==
  \A j \in 1 .. Len(c) :
    /\ c[j] \in DOMAIN rows /\ rows[c[j]].basis = j - 1
    /\ c[j].kind \in {"commit", "maintenance"}

(* What is awaited is on the current basis, or has itself moved it. *)
InflightFits(fl, c, rows) ==
  /\ fl \subseteq DOMAIN rows
  /\ \A t, u \in fl : t # u => t.kind = "candidate"
  /\ \A t \in fl :
       /\ t.kind = "projection" => rows[t].status # "SUCCEEDED"
       /\ \/ rows[t].basis = Len(c)
          \/ /\ Len(c) > 0 /\ c[Len(c)] = t
             /\ t.kind = "maintenance" \/ t.line = "draft"

Visible(ch, rows) == Seen(ProjectionOf(ch), rows)

(* What the rest of a handler relies on *)
ThenFits(th, rows, pol) ==
  /\ th.t \in Ids
  /\ th.op = "accept" => th.t.kind = "acceptance"
  /\ th.op = "repair" => th.t = ProjectionOf(th.t.ch) /\ Visible(th.t.ch, rows)
  /\ th.op \in {"promote", "replan", "rolling"} =>
       Visible(th.t.ch, rows) /\ th.t.ch < Target /\ pol.lookahead
  /\ th.op = "promote" => rows[ProjectionOf(th.t.ch)].affects = "no"

(* Where the runner is *)
RunnerFits(at, fl, th, rep, rows) ==
  /\ fl # {} => at = "await"
  /\ th # Nothing => at \in {"loop", "await"}
  /\ rep = "completed" =>
       Visible(Target, rows) /\ th = Nothing /\ fl = {} /\ at \in {"idle", "loop"}

RunInv ==
  /\ policy \in Policies /\ canon \in Seq(Ids)
  /\ RowsFit(canon, task, policy)
  /\ CommitsFit(canon, task)
  /\ InflightFits(inflight, canon, task)
  /\ ThenFits(then, task, policy)
  /\ RunnerFits(pc, inflight, then, report, task)

-----------------------------------------------------------------------------
(* Rows that fit go on fitting                                             *)

(* Canon only grows. *)
Grows(c, d) ==
  c \in Seq(Ids) /\ d \in Seq(Ids) /\ Len(c) <= Len(d) /\ \A i \in 1 .. Len(c) : d[i] = c[i]

(* No row is lost, changes its basis or what was observed of it, and what  *)
(* was projected remains so.                                               *)
Kept(rows, new) ==
  \A t \in DOMAIN rows :
    /\ t \in DOMAIN new /\ new[t].basis = rows[t].basis /\ new[t].affects = rows[t].affects
    /\ t.kind = "projection" /\ rows[t].status = "SUCCEEDED" => new[t].status = "SUCCEEDED"

(* What was projected remains so. *)
LEMMA SeenKept ==
  ASSUME NEW rows, NEW new, Kept(rows, new), NEW t, t.kind = "projection", Seen(t, rows)
  PROVE  Seen(t, new)
BY DEF Kept, Seen

(* A prefix of Canon that was fresh stays fresh, *)
LEMMA FreshKept ==
  ASSUME NEW c \in Seq(Ids), NEW b \in 0 .. Len(c), NEW rows, NEW new, Kept(rows, new),
         Fresh(c, b, rows)
  PROVE  Fresh(c, b, new)
<1> DEFINE i == Latest(c, b, Lines)
           p == Stage(c[i], "projection")
<1>1. CASE i = 0
  BY <1>1 DEF Fresh
<1>2. CASE i # 0
  <2>1. b \in Nat
    OBVIOUS
  <2>2. i \in 1 .. b
    BY <1>2, <2>1, LatestOf DEF LatestIs
  <2>3. c[i] \in Ids
    BY <2>2
  <2>4. p.kind = "projection"
    BY <2>3 DEF Stage, Ids
  <2>5. Seen(p, rows)
    BY <1>2 DEF Fresh, Seen
  <2>6. Seen(p, new)
    BY <2>4, <2>5, SeenKept
  <2>7. QED
    BY <2>6 DEF Fresh, Seen
<1>3. QED
  BY <1>1, <1>2

(* and a row that fits its prefix goes on fitting it. *)
LEMMA RowFitsKept ==
  ASSUME NEW c, NEW d, Grows(c, d), NEW rows, NEW new, Kept(rows, new),
         NEW t \in Ids, NEW b, NEW pol, RowFits(t, b, c, rows, pol)
  PROVE  RowFits(t, b, d, new, pol)
<1>1. b \in 0 .. Len(c) /\ Len(c) \in Nat /\ Len(d) \in Nat /\ Len(c) <= Len(d)
  BY DEF RowFits, Grows
<1>2. b \in Nat /\ b \in 0 .. Len(d) /\ \A i \in 1 .. b : d[i] = c[i]
  BY <1>1 DEF Grows
<1>3. /\ Latest(d, b, Lines) = Latest(c, b, Lines)
      /\ Latest(c, b, Lines) # 0 => d[Latest(c, b, Lines)] = c[Latest(c, b, Lines)]
      /\ Written(d, b) = Written(c, b)
      /\ \A h : Covered(d, b, h) = Covered(c, b, h)
      /\ Fresh(d, b, new) <=> Fresh(c, b, new)
  BY <1>2, TextSame
<1>4. Fresh(c, b, rows) => Fresh(d, b, new)
  BY <1>1, <1>3, FreshKept DEF Grows
<1>5. ASSUME t.kind = "projection" PROVE b > 0 /\ d[b] = Stage(t, "commit")
  <2>1. b > 0 /\ c[b] = Stage(t, "commit")
    BY <1>5 DEF RowFits
  <2>2. b \in 1 .. b
    BY <1>2, <2>1
  <2>3. QED
    BY <1>2, <2>1, <2>2
<1>6. ASSUME t.kind # "projection", t.line = "draft" PROVE ChapterFits(t, b, d, new, pol)
  <2>1. ChapterFits(t, b, c, rows, pol)
    BY <1>6 DEF RowFits
  <2>2. QED
    BY <1>3, <1>4, <2>1 DEF ChapterFits
<1>7. ASSUME t.kind # "projection", t.line \in Foregrounds PROVE PlanFits(t, b, d, new, pol)
  <2>1. PlanFits(t, b, c, rows, pol)
    BY <1>7 DEF RowFits
  <2>2. QED
    BY <1>3, <1>4, <2>1 DEF PlanFits
<1>8. ASSUME t.line = "promo" PROVE Justified(t.ch, d, new)
  <2>1. Justified(t.ch, c, rows)
    BY <1>8 DEF RowFits
  <2>2. PICK j \in 1 .. Len(c) : c[j] = Id("draft", t.ch, 0, "commit")
    BY <2>1 DEF Justified
  <2>3. j \in 1 .. Len(d) /\ d[j] = Id("draft", t.ch, 0, "commit")
    BY <1>1, <2>2 DEF Grows
  <2>4. QED
    BY <2>1, <2>3 DEF Justified, Kept
<1>9. QED
  BY <1>2, <1>5, <1>6, <1>7, <1>8 DEF RowFits

-----------------------------------------------------------------------------
(* What a step does to the rows                                            *)

(* Statuses and attempts change and nothing else: only maintenance waits   *)
(* for a recovery, and no row is projected.                                *)
Same(rows, new) ==
  /\ DOMAIN new = DOMAIN rows
  /\ \A u \in DOMAIN rows :
       /\ new[u] \in Rows
       /\ new[u].basis = rows[u].basis /\ new[u].affects = rows[u].affects
       /\ u.kind = "projection" =>
            (new[u].status = "SUCCEEDED" <=> rows[u].status = "SUCCEEDED")
       /\ new[u].status = "RECOVERY_PENDING" =>
            rows[u].status = "RECOVERY_PENDING" \/ u.kind = "maintenance"

(* The rows of a step that projects nothing: the new ones fit. *)
Revised ==
  /\ DOMAIN task \subseteq DOMAIN task'
  /\ \A u \in DOMAIN task :
       /\ task'[u].basis = task[u].basis /\ task'[u].affects = task[u].affects
       /\ u.kind = "projection" =>
            (task'[u].status = "SUCCEEDED" <=> task[u].status = "SUCCEEDED")
  /\ \A u \in DOMAIN task' :
       task'[u] \in Rows /\ (task'[u].status = "RECOVERY_PENDING" => u.kind = "maintenance")
  /\ \A u \in DOMAIN task' \ DOMAIN task :
       /\ u \in Ids /\ RowFits(u, task'[u].basis, canon', task, policy)
       /\ u.kind = "projection" => task'[u].status # "SUCCEEDED"

RowsTyped == \A u \in DOMAIN task : u \in Ids /\ task[u] \in Rows

(* What the invariant says of rows one by one *)
LEMMA InvTyped ==
  ASSUME RunInv
  PROVE  RowsTyped /\ \A u \in DOMAIN task : RowFits(u, task[u].basis, canon, task, policy)
BY DEF RunInv, RowsFit, RowsTyped

(* A new status of one row *)
LEMMA WithSame ==
  ASSUME RowsTyped, NEW t, NEW s \in Statuses,
         s = "RECOVERY_PENDING" => t.kind = "maintenance",
         t \in DOMAIN task /\ t.kind = "projection" =>
           s # "SUCCEEDED" /\ task[t].status # "SUCCEEDED"
  PROVE  Same(task, With(t, s))
<1> DEFINE r == With(t, s)
<1>1. DOMAIN r = DOMAIN task
  BY DEF With
<1>2. ASSUME NEW u \in DOMAIN task
      PROVE  /\ r[u] \in Rows /\ r[u].basis = task[u].basis /\ r[u].affects = task[u].affects
             /\ u # t => r[u] = task[u]
             /\ u = t => r[u].status = s
  <2>1. task[u] \in Rows
    BY DEF RowsTyped
  <2>2. CASE u # t
    BY <2>1, <2>2 DEF With
  <2>3. CASE u = t
    <3>1. r[u] = [task[u] EXCEPT !.status = s]
      BY <2>3 DEF With
    <3> HIDE DEF r
    <3>2. QED
      BY <2>1, <2>3, <3>1 DEF Rows
  <2>4. QED
    BY <2>2, <2>3
<1> HIDE DEF r
<1>3. Same(task, r)
  BY <1>1, <1>2 DEF Same
<1>4. QED
  BY <1>3 DEF r

(* A row that is no projection is superseded. *)
LEMMA SupersededSame ==
  ASSUME RowsTyped, NEW r, Same(task, r), NEW t, t.kind # "projection"
  PROVE  Same(task, Superseded(r, t))
<1> DEFINE q == Superseded(r, t)
<1>1. DOMAIN q = DOMAIN task
  BY DEF Superseded, Same
<1>2. ASSUME NEW u \in DOMAIN task
      PROVE  /\ q[u] \in Rows /\ q[u].basis = r[u].basis /\ q[u].affects = r[u].affects
             /\ u # t => q[u] = r[u]
             /\ u = t => q[u].status = "CANCELLED"
  <2>1. r[u] \in Rows /\ u \in DOMAIN r
    BY DEF Same
  <2>2. CASE u # t
    BY <2>1, <2>2 DEF Superseded
  <2>3. CASE u = t
    <3>1. q[u] = [r[u] EXCEPT !.status = "CANCELLED", !.superseded = TRUE]
      BY <2>1, <2>3 DEF Superseded
    <3> HIDE DEF q
    <3>2. QED
      BY <2>1, <2>3, <3>1 DEF Rows, Statuses
  <2>4. QED
    BY <2>2, <2>3
<1> HIDE DEF q
<1>3. Same(task, q)
  BY <1>1, <1>2 DEF Same
<1>4. QED
  BY <1>3 DEF q

(* Nothing changes. *)
LEMMA NoneSame ==
  ASSUME RowsTyped
  PROVE  Same(task, task)
BY DEF Same, RowsTyped

(* A task is extended by one more tranche. *)
LEMMA ExtendedSame ==
  ASSUME RowsTyped, NEW t, Extendable(t)
  PROVE  Same(task, Extended(t))
<1> DEFINE q == Extended(t)
<1>1. DOMAIN q = DOMAIN task /\ t.kind # "projection"
  BY DEF Extended, Extendable
<1>2. ASSUME NEW u \in DOMAIN task
      PROVE  /\ q[u] \in Rows /\ q[u].basis = task[u].basis /\ q[u].affects = task[u].affects
             /\ u # t => q[u] = task[u]
             /\ u = t => q[u].status = "READY"
  <2>1. task[u] \in Rows
    BY DEF RowsTyped
  <2>2. CASE u # t
    BY <2>1, <2>2 DEF Extended
  <2>3. CASE u = t
    <3>1. q[u] = [task[u] EXCEPT !.status = "READY", !.tranches = @ + 1]
      BY <2>3 DEF Extended
    <3>2. task[u].tranches + 1 \in 0 .. TrancheLimit
      BY <2>1, <2>3, CreativeRunAssumption DEF Extendable, Rows
    <3> HIDE DEF q
    <3>3. QED
      BY <2>1, <2>3, <3>1, <3>2 DEF Rows, Statuses
  <2>4. QED
    BY <2>2, <2>3
<1> HIDE DEF q
<1>3. Same(task, q)
  BY <1>1, <1>2 DEF Same
<1>4. QED
  BY <1>3 DEF q

(* New statuses only are such a step, *)
LEMMA SameRevised ==
  ASSUME RunInv, Same(task, task')
  PROVE  Revised
BY DEF Same, Revised, RunInv, RowsFit

(* and so is the creation of a row that fits. *)
LEMMA InsertRevised ==
  ASSUME RunInv, NEW r, Same(task, r), NEW x \in Ids, NEW row \in Rows,
         RowFits(x, row.basis, canon', task, policy),
         row.status # "RECOVERY_PENDING",
         x.kind = "projection" => row.status # "SUCCEEDED",
         task' = Insert(r, x, row)
  PROVE  Revised
<1>1. DOMAIN r = DOMAIN task
  BY DEF Same
<1>2. /\ DOMAIN task' = DOMAIN task \cup {x}
      /\ \A u \in DOMAIN task : task'[u] = r[u]
      /\ x \notin DOMAIN task => task'[x] = row
  BY <1>1 DEF Insert
<1>3. QED
  BY <1>2 DEF Same, Revised, RunInv, RowsFit

(* Such a step keeps the rows. *)
LEMMA RevisedKept ==
  ASSUME Revised
  PROVE  Kept(task, task')
BY DEF Revised, Kept

(* Every row fits after a step that keeps the rows and adds some that fit. *)
LEMMA RowsFitKept ==
  ASSUME RunInv, Kept(task, task'), Grows(canon, canon'), policy' = policy,
         \A u \in DOMAIN task' :
           task'[u] \in Rows /\ (task'[u].status = "RECOVERY_PENDING" => u.kind = "maintenance"),
         \A u \in DOMAIN task' \ DOMAIN task :
           u \in Ids /\ RowFits(u, task'[u].basis, canon', task', policy)
  PROVE  RowsFit(canon', task', policy')
<1> SUFFICES ASSUME NEW t \in DOMAIN task'
             PROVE  t \in Ids /\ RowFits(t, task'[t].basis, canon', task', policy)
  BY DEF RowsFit
<1>1. CASE t \in DOMAIN task
  <2>1. RowFits(t, task[t].basis, canon, task, policy) /\ t \in Ids
    BY <1>1 DEF RunInv, RowsFit
  <2>2. task'[t].basis = task[t].basis
    BY <1>1 DEF Kept
  <2>3. QED
    BY <2>1, <2>2, RowFitsKept
<1>2. CASE t \notin DOMAIN task
  BY <1>2
<1>3. QED
  BY <1>1, <1>2

(* In particular after a step that projects nothing *)
LEMMA RevisedFits ==
  ASSUME RunInv, Revised, Grows(canon, canon'), policy' = policy
  PROVE  RowsFit(canon', task', policy')
<1>1. Kept(task, task')
  BY RevisedKept
<1>2. Grows(canon', canon')
  BY DEF Grows
<1>3. ASSUME NEW u \in DOMAIN task' \ DOMAIN task
      PROVE  u \in Ids /\ RowFits(u, task'[u].basis, canon', task', policy)
  <2>1. u \in Ids /\ RowFits(u, task'[u].basis, canon', task, policy)
    BY DEF Revised
  <2>2. QED
    BY <1>1, <1>2, <2>1, RowFitsKept
<1>4. QED
  BY <1>1, <1>3, RowsFitKept DEF Revised

(* The rest of a handler can still rely on what it relied on, *)
LEMMA ThenKept ==
  ASSUME NEW th, NEW pol, ThenFits(th, task, pol), Kept(task, task')
  PROVE  ThenFits(th, task', pol)
<1>1. \A ch : ProjectionOf(ch).kind = "projection"
  BY DEF ProjectionOf, Id
<1>2. \A ch : Visible(ch, task) => Visible(ch, task')
  BY <1>1, SeenKept DEF Visible
<1>3. th.op = "promote" => task'[ProjectionOf(th.t.ch)].affects = "no"
  <2> SUFFICES ASSUME th.op = "promote"
               PROVE  task'[ProjectionOf(th.t.ch)].affects = "no"
    OBVIOUS
  <2>1. Visible(th.t.ch, task) /\ task[ProjectionOf(th.t.ch)].affects = "no"
    BY DEF ThenFits
  <2>2. QED
    BY <2>1 DEF Visible, Seen, Kept
<1>4. QED
  BY <1>2, <1>3 DEF ThenFits

(* and the runner is still where its report says. *)
LEMMA RunnerKept ==
  ASSUME NEW at, NEW fl, NEW th, NEW rep, RunnerFits(at, fl, th, rep, task), Kept(task, task')
  PROVE  RunnerFits(at, fl, th, rep, task')
<1>1. ProjectionOf(Target).kind = "projection"
  BY DEF ProjectionOf, Id
<1>2. Visible(Target, task) => Visible(Target, task')
  BY <1>1, SeenKept DEF Visible
<1>3. QED
  BY <1>2 DEF RunnerFits

(* A step that leaves Canon alone *)
Steady == policy' = policy /\ canon' = canon /\ Revised

(* Rows and commits fit after it, *)
LEMMA SteadyRows ==
  ASSUME RunInv, Steady
  PROVE  /\ Kept(task, task') /\ policy' \in Policies /\ canon' \in Seq(Ids)
         /\ RowsFit(canon', task', policy') /\ CommitsFit(canon', task')
<1>1. Kept(task, task') /\ Grows(canon, canon') /\ canon' = canon
  BY RevisedKept DEF Steady, Grows, RunInv
<1>2. RowsFit(canon', task', policy')
  BY <1>1, RevisedFits DEF Steady
<1>3. CommitsFit(canon, task')
  BY <1>1 DEF RunInv, CommitsFit, Kept
<1>4. QED
  BY <1>1, <1>2, <1>3 DEF Steady, RunInv

(* and the invariant holds if it holds of handler and runner. *)
LEMMA SteadyInv ==
  ASSUME RunInv, Steady, inflight' \subseteq inflight, ThenFits(then', task, policy),
         RunnerFits(pc', inflight', then', report', task)
  PROVE  RunInv'
<1>1. /\ Kept(task, task') /\ policy' \in Policies /\ canon' \in Seq(Ids)
      /\ RowsFit(canon', task', policy') /\ CommitsFit(canon', task')
  BY SteadyRows
<1>2. InflightFits(inflight', canon', task')
  <2>1. inflight \subseteq DOMAIN task /\ canon' = canon
    BY DEF RunInv, InflightFits, Steady
  <2>2. \A t \in inflight : t \in DOMAIN task' /\ task'[t].basis = task[t].basis
    BY <2>1, <1>1 DEF Kept
  <2>3. \A t \in inflight :
          t.kind = "projection" /\ task[t].status # "SUCCEEDED" => task'[t].status # "SUCCEEDED"
    BY <2>1 DEF Steady, Revised
  <2>4. QED
    BY <2>1, <2>2, <2>3 DEF RunInv, InflightFits
<1>3. ThenFits(then', task', policy') /\ RunnerFits(pc', inflight', then', report', task')
  BY <1>1, ThenKept, RunnerKept DEF Steady
<1>4. QED
  BY <1>1, <1>2, <1>3 DEF RunInv

-----------------------------------------------------------------------------
(* What a new row needs to fit                                             *)

(* A row as create_task makes it *)
LEMMA RowTyped ==
  ASSUME NEW s \in Statuses, NEW b \in Nat, NEW a \in {"unknown", "yes", "no"}
  PROVE  /\ Row(s, b, a) \in Rows /\ Row(s, b, a).status = s
         /\ Row(s, b, a).basis = b /\ Row(s, b, a).affects = a
BY CreativeRunAssumption DEF Row, Rows

(* What a row says of its own basis *)
LEMMA RowOf ==
  ASSUME RunInv, NEW t, t \in DOMAIN task
  PROVE  /\ t \in Ids /\ t.line \in Lines /\ t.ch \in 0 .. Target /\ t.n \in 0 .. 1
         /\ t.kind \in Kinds /\ task[t] \in Rows
         /\ task[t].basis \in Nat /\ task[t].basis <= Len(canon)
         /\ task[t].affects \in {"unknown", "yes", "no"}
         /\ RowFits(t, task[t].basis, canon, task, policy)
         /\ task[t].status = "RECOVERY_PENDING" => t.kind = "maintenance"
<1>1. t \in Ids /\ task[t] \in Rows /\ RowFits(t, task[t].basis, canon, task, policy)
  BY DEF RunInv, RowsFit
<1>2. Len(canon) \in Nat
  BY DEF RunInv
<1>3. task[t].basis \in Nat /\ task[t].basis <= Len(canon)
  BY <1>1, <1>2 DEF RowFits
<1>4. task[t].affects \in {"unknown", "yes", "no"}
  BY <1>1 DEF Rows
<1>5. task[t].status = "RECOVERY_PENDING" => t.kind = "maintenance"
  BY DEF RunInv, RowsFit
<1>6. QED
  BY <1>1, <1>3, <1>4, <1>5 DEF Ids

(* The same work at another stage *)
LEMMA StageIs ==
  ASSUME NEW t \in Ids, NEW k \in Kinds
  PROVE  /\ Stage(t, k) \in Ids /\ Stage(t, k).line = t.line /\ Stage(t, k).ch = t.ch
         /\ Stage(t, k).n = t.n /\ Stage(t, k).kind = k
         /\ \A l \in Kinds : Stage(Stage(t, k), l) = Stage(t, l)
         /\ Stage(t, t.kind) = t
BY DEF Stage, Ids

(* Acceptance, commit and maintenance stand where their candidate stands. *)
LEMMA StageFits ==
  ASSUME NEW t \in Ids, NEW b, NEW c, NEW rows, NEW pol, NEW k \in Kinds \ {"projection"},
         RowFits(t, b, c, rows, pol), t.kind # "projection",
         t.line = "look" => k # "commit",
         k = "maintenance" => t.line # "draft" /\ <<t.line, t.ch>> \in GapAt
  PROVE  RowFits(Stage(t, k), b, c, rows, pol)
<1> DEFINE x == Stage(t, k)
<1>1. x.line = t.line /\ x.ch = t.ch /\ x.n = t.n /\ x.kind = k
  BY StageIs
<1> HIDE DEF x
<1>2. t.line = "draft" => ChapterFits(x, b, c, rows, pol)
  BY <1>1 DEF RowFits, ChapterFits
<1>3. t.line \in Foregrounds => PlanFits(x, b, c, rows, pol)
  BY <1>1 DEF RowFits, PlanFits
<1>4. RowFits(x, b, c, rows, pol)
  BY <1>1, <1>2, <1>3 DEF RowFits
<1>5. QED
  BY <1>4 DEF x

(* The projection of a commit stands on that commit. *)
LEMMA ProjectionFits ==
  ASSUME NEW t \in Ids, t.kind = "commit", NEW b, NEW c, NEW d, NEW rows, NEW pol,
         RowFits(t, b, c, rows, pol), Grows(c, d), NEW e \in 1 .. Len(d), d[e] = t
  PROVE  RowFits(Stage(t, "projection"), e, d, rows, pol)
<1> DEFINE x == Stage(t, "projection")
<1>1. /\ x.line = t.line /\ x.ch = t.ch /\ x.kind = "projection"
      /\ Stage(x, "commit") = t
  BY StageIs DEF Kinds
<1>2. Kept(rows, rows)
  BY DEF Kept
<1>3. RowFits(t, b, d, rows, pol)
  BY <1>2, RowFitsKept
<1>4. Len(d) \in Nat
  BY DEF Grows
<1> HIDE DEF x
<1>5. RowFits(x, e, d, rows, pol)
  BY <1>1, <1>3, <1>4 DEF RowFits
<1>6. QED
  BY <1>5 DEF x

(* A plan may follow a chapter that has been projected. *)
LEMMA AfterChapter ==
  ASSUME NEW c \in Seq(Ids), NEW b \in 1 .. Len(c), NEW ch, NEW rows, NEW pol,
         c[b] = Id("draft", ch, 0, "commit"), Seen(ProjectionOf(ch), rows),
         ch < Target, pol.lookahead \/ ch % pol.horizon = 0
  PROVE  \A x : x.ch = ch => PlanFits(x, b, c, rows, pol)
<1>1. /\ c[b].line = "draft" /\ c[b].ch = ch /\ c[b].kind = "commit"
      /\ Stage(c[b], "projection") = ProjectionOf(ch)
  BY DEF Id, Stage, ProjectionOf
<1>2. Made(c[b], {"draft"})
  BY <1>1 DEF Made
<1>3. Written(c, b) = ch /\ Latest(c, b, Lines) = b /\ Fresh(c, b, rows)
  BY <1>1, <1>2, TextNext
<1>4. QED
  BY <1>1, <1>3 DEF PlanFits

(* The projection of a chapter that is visible stands on its commit. *)
LEMMA VisibleIs ==
  ASSUME RunInv, NEW ch, Visible(ch, task)
  PROVE  LET b == task[ProjectionOf(ch)].basis
         IN b \in 1 .. Len(canon) /\ canon[b] = Id("draft", ch, 0, "commit")
<1> DEFINE p == ProjectionOf(ch)
           b == task[p].basis
<1>1. p \in DOMAIN task
  BY DEF Visible, Seen
<1>2. b \in Nat /\ b <= Len(canon) /\ RowFits(p, b, canon, task, policy)
  BY <1>1, RowOf
<1>3. p.kind = "projection" /\ Stage(p, "commit") = Id("draft", ch, 0, "commit")
  BY DEF ProjectionOf, Id, Stage
<1> HIDE DEF p, b
<1>4. b > 0 /\ canon[b] = Stage(p, "commit")
  BY <1>2, <1>3 DEF RowFits
<1>5. Len(canon) \in Nat
  BY DEF RunInv
<1>6. b \in 1 .. Len(canon) /\ canon[b] = Id("draft", ch, 0, "commit")
  BY <1>2, <1>3, <1>4, <1>5
<1>7. QED
  BY <1>6 DEF b, p

(* A commit is a row that fits the commits before it. *)
LEMMA CommitOf ==
  ASSUME RunInv, NEW j \in 1 .. Len(canon)
  PROVE  /\ canon[j] \in DOMAIN task /\ canon[j] \in Ids /\ task[canon[j]].basis = j - 1
         /\ RowFits(canon[j], j - 1, canon, task, policy)
         /\ canon[j].kind \in {"commit", "maintenance"}
<1>1. /\ canon[j] \in DOMAIN task /\ task[canon[j]].basis = j - 1
      /\ canon[j].kind \in {"commit", "maintenance"}
  BY DEF RunInv, CommitsFit
<1>2. QED
  BY <1>1, RowOf

-----------------------------------------------------------------------------
(* Steps that leave Canon and what has been projected alone                *)

(* What a step may do to the report: a target once reported stays so, and  *)
(* it is reported only when its chapter is visible.                        *)
Reported ==
  \/ report' = report
  \/ report' = "completed" /\ Visible(Target, task)
  \/ report # "completed" /\ report' # "completed"

RunnerGoesOn == RunnerFits(pc', inflight', then', report', task) /\ Reported

Still ==
  /\ Steady /\ inflight' \subseteq inflight
  /\ ThenFits(then', task, policy) /\ RunnerGoesOn

(* The invariant survives such a step. *)
LEMMA StillInv ==
  ASSUME RunInv, Still
  PROVE  RunInv'
BY SteadyInv DEF Still, RunnerGoesOn

(* The runner stays where it is, with a handler's next part or none. *)
LEMMA RunnerStays ==
  ASSUME RunInv, pc' = pc, report' = report, inflight' \subseteq inflight,
         \/ then' = Nothing \/ then' = then
         \/ pc = "await"
         \/ pc = "loop" /\ ~Visible(Target, task)
         \/ then # Nothing
  PROVE  RunnerGoesOn
<1>1. RunnerFits(pc, inflight, then, report, task)
  BY DEF RunInv
<1>2. QED
  BY <1>1 DEF RunnerFits, RunnerGoesOn, Reported

(* A handler ends in a conflict. *)
LEMMA ConflictFits ==
  ASSUME RunInv, then # Nothing, Conflict, then' = Nothing, inflight' = inflight
  PROVE  RunnerGoesOn
<1>1. RunnerFits(pc, inflight, then, report, task)
  BY DEF RunInv
<1>2. CASE pc = "loop"
  <2>1. report' = "failed" /\ pc' = "idle"
    BY <1>2 DEF Conflict, Return
  <2>2. QED
    BY <1>1, <1>2, <2>1 DEF RunnerFits, RunnerGoesOn, Reported
<1>3. CASE pc # "loop"
  <2>1. pc' = pc /\ report' = report
    BY <1>3 DEF Conflict
  <2>2. QED
    BY <2>1, RunnerStays
<1>4. QED
  BY <1>2, <1>3

(* run() returns with the status of the run. *)
LEMMA ReturnFits ==
  ASSUME RunInv, Return(RunStatus), then = Nothing, then' = then, inflight = {}, inflight' = inflight
  PROVE  RunnerGoesOn
<1>1. RunnerFits(pc, inflight, then, report, task)
  BY DEF RunInv
<1>2. report' = RunStatus /\ pc' = "idle"
  BY DEF Return
<1>3. Projected(Target) <=> Visible(Target, task)
  BY DEF Projected, Visible, Seen, Is, Exists, ProjectionOf
<1>4. Projected(Target) => RunStatus = "completed"
  BY DEF RunStatus
<1>5. ~Projected(Target) => RunStatus # "completed"
  <2>1. ~Projected(Target) => RunStatus \in {"recovery_pending", "blocked", "waiting"}
    BY DEF RunStatus
  <2>2. QED
    BY <2>1
<1>6. QED
  BY <1>1, <1>2, <1>3, <1>4, <1>5 DEF RunnerFits, RunnerGoesOn, Reported

(* No rows change. *)
LEMMA RowsStand ==
  ASSUME RunInv, task' = task, policy' = policy, canon' = canon
  PROVE  Steady
<1>1. Same(task, task')
  BY InvTyped, NoneSame
<1>2. QED
  BY <1>1, SameRevised DEF Steady

(* One row gets another status. *)
LEMMA StatusSteady ==
  ASSUME RunInv, NEW t, NEW s \in Statuses, task' = With(t, s),
         s = "RECOVERY_PENDING" => t.kind = "maintenance",
         t \in DOMAIN task /\ t.kind = "projection" =>
           s # "SUCCEEDED" /\ task[t].status # "SUCCEEDED",
         policy' = policy, canon' = canon
  PROVE  Steady
<1>1. Same(task, task')
  BY InvTyped, WithSame
<1>2. QED
  BY <1>1, SameRevised DEF Steady

(* A row that is no projection succeeds, or another status is not asked    *)
(* for, and a row is created that fits.                                    *)
LEMMA CreateSteady ==
  ASSUME RunInv, NEW r, Same(task, r), NEW x \in Ids,
         NEW s \in {"READY", "WAITING_INPUT"}, NEW b \in Nat, NEW a \in {"unknown", "yes", "no"},
         RowFits(x, b, canon, task, policy),
         task' = Insert(r, x, Row(s, b, a)), policy' = policy, canon' = canon
  PROVE  Steady
<1> DEFINE row == Row(s, b, a)
<1>1. row \in Rows /\ row.status = s /\ row.basis = b
  BY RowTyped DEF Statuses
<1>2. task' = Insert(r, x, row)
  OBVIOUS
<1> HIDE DEF row
<1>3. Revised
  BY <1>1, <1>2, InsertRevised
<1>4. QED
  BY <1>3 DEF Steady

(* A handler that ends, or goes on with nothing to rely on *)
LEMMA NothingFits ==
  ASSUME NEW th, NEW rows, NEW pol, th = Nothing
  PROVE  ThenFits(th, rows, pol)
<1>1. Id("plan", 0, 0, "candidate") \in Ids
  BY CreativeRunAssumption DEF Id, Ids, Lines, Kinds
<1>2. th.op = "none" /\ th.t \in Ids
  BY <1>1 DEF Nothing
<1>3. QED
  BY <1>2 DEF ThenFits

(* An accepted candidate: its acceptance succeeds, its commit is created. *)
LEMMA AcceptedSteady ==
  ASSUME RunInv, NEW t \in DOMAIN task, t.kind = "acceptance", t.line # "look",
         task' = Accepted(t), policy' = policy, canon' = canon
  PROVE  Steady
<1> DEFINE x == Stage(t, "commit")
           r == With(t, "SUCCEEDED")
<1>1. /\ t \in Ids /\ task[t].basis \in Nat /\ task[t].affects \in {"unknown", "yes", "no"}
      /\ RowFits(t, task[t].basis, canon, task, policy)
  BY RowOf
<1>2. x \in Ids /\ RowFits(x, task[t].basis, canon, task, policy)
  BY <1>1, StageIs, StageFits DEF Kinds
<1>3. Same(task, r)
  BY InvTyped, WithSame DEF Statuses
<1>4. task' = Insert(r, x, Row("READY", task[t].basis, task[t].affects))
  BY DEF Accepted
<1> HIDE DEF x, r
<1>5. QED
  BY <1>1, <1>2, <1>3, <1>4, CreateSteady DEF Statuses

(* _auto_accept decides, leaves the decision or conflicts. *)
LEMMA AutoAcceptStill ==
  ASSUME RunInv, NEW t \in DOMAIN task, AutoAccept(t)
  PROVE  Still
<1>1. /\ then.op = "accept" /\ then.t = t /\ then' = Nothing
      /\ inflight' = inflight /\ policy' = policy /\ canon' = canon
  BY DEF AutoAccept, Done
<1>2. then # Nothing /\ t.kind = "acceptance"
  BY <1>1 DEF Nothing, RunInv, ThenFits
<1>3. ThenFits(then', task, policy)
  BY <1>1, NothingFits
<1>4. CASE ~Automatic(t) \/ ~Decidable(t)
  <2>1. task' = task /\ pc' = pc /\ report' = report
    BY <1>4 DEF AutoAccept
  <2>2. QED
    BY <1>1, <1>3, <2>1, RowsStand, RunnerStays DEF Still
<1>5. CASE ~(~Automatic(t) \/ ~Decidable(t)) /\ task[t].basis = CurrentCommit
  <2>1. task' = Accepted(t) /\ pc' = pc /\ report' = report
    BY <1>5 DEF AutoAccept
  <2>2. Steady
    BY <1>1, <1>2, <1>5, <2>1, AcceptedSteady DEF Decidable
  <2>3. QED
    BY <1>1, <1>3, <2>1, <2>2, RunnerStays DEF Still
<1>6. CASE ~(~Automatic(t) \/ ~Decidable(t)) /\ task[t].basis # CurrentCommit
  <2>1. task' = task /\ Conflict
    BY <1>6 DEF AutoAccept
  <2>2. QED
    BY <1>1, <1>2, <1>3, <2>1, RowsStand, ConflictFits DEF Still
<1>7. QED
  BY <1>4, <1>5, <1>6

(* A person decides. *)
LEMMA HumanStill ==
  ASSUME RunInv, NEW t \in DOMAIN task, NEW accept \in BOOLEAN, HumanDecides(t, accept)
  PROVE  Still
<1>1. /\ t.kind = "acceptance" /\ t.line # "look"
      /\ task' = IF accept THEN Accepted(t) ELSE With(t, "CANCELLED")
      /\ policy' = policy /\ canon' = canon /\ pc' = pc /\ inflight' = inflight
      /\ then' = then /\ report' = report
  BY DEF HumanDecides, Decidable
<1>2. t.kind = "acceptance"
  BY <1>1
<1>3. Steady
  <2>1. CASE accept
    BY <1>1, <1>2, <2>1, AcceptedSteady
  <2>2. CASE ~accept
    BY <1>1, <1>2, <2>2, StatusSteady DEF Statuses
  <2>3. QED
    BY <2>1, <2>2
<1>4. ThenFits(then', task, policy)
  BY <1>1 DEF RunInv
<1>5. QED
  BY <1>1, <1>3, <1>4, RunnerStays DEF Still

(* A lookahead candidate that waited for its chapter is superseded. *)
LEMMA SupersedeFits ==
  ASSUME RunInv, NEW w \in Revalidatable, Supersede(w), policy' = policy, canon' = canon
  PROVE  Steady /\ ThenFits(then', task, policy)
<1>1. /\ w \in DOMAIN task /\ w.line = "look" /\ w.kind = "acceptance"
      /\ Visible(w.ch, task)
  BY DEF Revalidatable, Projected, Is, Exists, Visible, Seen, ProjectionOf
<1>2. w \in Ids /\ w.ch < Target /\ policy.lookahead
  BY <1>1, RowOf DEF RowFits
<1>3. Steady
  <2>1. Same(task, task)
    BY InvTyped, NoneSame
  <2>2. Same(task, task')
    BY <1>1, <2>1, InvTyped, SupersededSame DEF Supersede
  <2>3. QED
    BY <2>2, SameRevised DEF Steady
<1>4. /\ then'.t = w /\ then'.op \in {"promote", "replan"}
      /\ then'.op = "promote" => task[ProjectionOf(w.ch)].affects = "no"
  BY DEF Supersede, Then
<1>5. ThenFits(then', task, policy)
  BY <1>1, <1>2, <1>4 DEF ThenFits
<1>6. QED
  BY <1>3, <1>5

(* The lookahead of a chapter is given up. *)
LEMMA GiveUpFits ==
  ASSUME RunInv, NEW p \in Ids, Visible(p.ch, task), p.ch < Target, policy.lookahead,
         GiveUpLookahead(p), policy' = policy, canon' = canon
  PROVE  Steady /\ ThenFits(then', task, policy)
<1>1. Same(task, task')
  <2>1. DOMAIN task' = DOMAIN task
    BY DEF GiveUpLookahead
  <2>2. ASSUME NEW u \in DOMAIN task
        PROVE  /\ task'[u] \in Rows
               /\ task'[u].basis = task[u].basis /\ task'[u].affects = task[u].affects
               /\ u.kind = "projection" =>
                    (task'[u].status = "SUCCEEDED" <=> task[u].status = "SUCCEEDED")
               /\ task'[u].status = "RECOVERY_PENDING" => task[u].status = "RECOVERY_PENDING"
    <3>1. task[u] \in Rows /\ RowFits(u, task[u].basis, canon, task, policy)
      BY RowOf
    <3>2. CASE u \in LookaheadsOf(p) /\ task[u].status \in Inactive
      <4>1. u.kind # "projection"
        BY <3>1, <3>2 DEF LookaheadsOf, RowFits
      <4>2. task'[u] = [task[u] EXCEPT !.status = "CANCELLED", !.superseded = TRUE]
        BY <3>2 DEF GiveUpLookahead
      <4>3. QED
        BY <3>1, <4>1, <4>2 DEF Rows, Statuses
    <3>3. CASE ~(u \in LookaheadsOf(p) /\ task[u].status \in Inactive)
      <4>1. task'[u] = task[u]
        BY <3>3 DEF GiveUpLookahead
      <4>2. QED
        BY <3>1, <4>1
    <3>4. QED
      BY <3>2, <3>3
  <2>3. QED
    BY <2>1, <2>2 DEF Same
<1>2. Steady
  BY <1>1, SameRevised DEF Steady
<1>3. then'.t = p /\ then'.op = "rolling"
  BY DEF GiveUpLookahead, Then
<1>4. ThenFits(then', task, policy)
  BY <1>3 DEF ThenFits
<1>5. QED
  BY <1>2, <1>4

(* Either way the repair after a draft *)
LEMMA RepairFits ==
  ASSUME RunInv, NEW p \in Ids, Visible(p.ch, task), Repairs(p), RepairPostDraft(p),
         policy' = policy, canon' = canon
  PROVE  Steady /\ ThenFits(then', task, policy)
<1>1. p.ch < Target /\ policy.lookahead
  BY DEF Repairs
<1>2. CASE Revalidatable # {}
  <2>1. PICK w \in Revalidatable : Supersede(w)
    BY <1>2 DEF RepairPostDraft
  <2>2. QED
    BY <2>1, SupersedeFits
<1>3. CASE Revalidatable = {}
  <2>1. GiveUpLookahead(p)
    BY <1>3 DEF RepairPostDraft
  <2>2. QED
    BY <1>1, <2>1, GiveUpFits
<1>4. QED
  BY <1>2, <1>3

(* The rest of advance() after a lookahead candidate *)
LEMMA RevalidateStill ==
  ASSUME RunInv, Revalidate
  PROVE  Still
<1>1. /\ then.op = "revalidate" /\ policy' = policy /\ canon' = canon
      /\ pc' = pc /\ inflight' = inflight /\ report' = report
  BY DEF Revalidate
<1>2. then # Nothing
  BY <1>1 DEF Nothing
<1>3. CASE Revalidatable # {}
  <2>1. PICK w \in Revalidatable : Supersede(w)
    BY <1>3 DEF Revalidate
  <2>2. QED
    BY <1>1, <1>2, <2>1, SupersedeFits, RunnerStays DEF Still
<1>4. CASE Revalidatable = {}
  <2>1. task' = task /\ then' = Nothing
    BY <1>4 DEF Revalidate, Done
  <2>2. QED
    BY <1>1, <2>1, RowsStand, NothingFits, RunnerStays DEF Still
<1>5. QED
  BY <1>3, <1>4

(* The rest of advance() after a draft's projection *)
LEMMA RepairStill ==
  ASSUME RunInv, Repair
  PROVE  Still
<1>1. /\ then.op = "repair" /\ policy' = policy /\ canon' = canon
      /\ pc' = pc /\ inflight' = inflight /\ report' = report
  BY DEF Repair
<1>2. then # Nothing /\ then.t \in Ids /\ Visible(then.t.ch, task)
  BY <1>1 DEF Nothing, RunInv, ThenFits
<1>3. CASE Repairs(then.t)
  <2>1. RepairPostDraft(then.t)
    BY <1>3 DEF Repair
  <2>2. QED
    BY <1>1, <1>2, <1>3, <2>1, RepairFits, RunnerStays DEF Still
<1>4. CASE ~Repairs(then.t)
  <2>1. task' = task /\ then' = Nothing
    BY <1>4 DEF Repair, Done
  <2>2. QED
    BY <1>1, <2>1, RowsStand, NothingFits, RunnerStays DEF Still
<1>5. QED
  BY <1>3, <1>4

(* The promoted acceptance, the replanning Planner and the rolling one     *)
(* stand on the chapter that was projected.                                *)
LEMMA CreatedFits ==
  ASSUME RunInv, then.op \in {"promote", "replan", "rolling"}
  PROVE  LET b == task[ProjectionOf(then.t.ch)].basis
         IN /\ b \in Nat /\ CreatedTask \in Ids
            /\ then.op = "promote" => CreatedTask.kind = "acceptance"
            /\ RowFits(CreatedTask, b, canon, task, policy)
<1> DEFINE ch == then.t.ch
           b == task[ProjectionOf(ch)].basis
           x == CreatedTask
<1>1. /\ then.t \in Ids /\ Visible(ch, task) /\ ch < Target /\ policy.lookahead
      /\ then.op = "promote" => task[ProjectionOf(ch)].affects = "no"
  BY DEF RunInv, ThenFits
<1>2. ch \in 0 .. Target /\ then.t.n \in 0 .. 1
  BY <1>1 DEF Ids
<1>3. b \in 1 .. Len(canon) /\ canon[b] = Id("draft", ch, 0, "commit") /\ canon \in Seq(Ids)
  BY <1>1, VisibleIs DEF RunInv
<1>4. \A y : y.ch = ch => PlanFits(y, b, canon, task, policy)
  <2> HIDE DEF b
  <2>1. QED
    BY <1>1, <1>3, AfterChapter DEF Visible
<1>5. /\ x \in Ids /\ x.ch = ch /\ x.line \in Foregrounds /\ x.kind \in {"acceptance", "candidate"}
      /\ x.line = "promo" => then.op = "promote"
      /\ then.op = "promote" => x.kind = "acceptance"
  <2>1. CASE then.op = "promote"
    <3>1. x = Id("promo", ch, then.t.n, "acceptance")
      BY <2>1 DEF CreatedTask
    <3>2. QED
      BY <1>2, <2>1, <3>1 DEF Id, Ids, Lines, Kinds, Foregrounds
  <2>2. CASE then.op = "replan"
    <3>1. x = Id("replan", ch, 0, "candidate")
      BY <2>2 DEF CreatedTask
    <3>2. QED
      BY <1>2, <2>2, <3>1 DEF Id, Ids, Lines, Kinds, Foregrounds
  <2>3. CASE then.op = "rolling"
    <3>1. x = Id("plan", ch, 0, "candidate")
      BY <2>3 DEF CreatedTask
    <3>2. QED
      BY <1>2, <2>3, <3>1 DEF Id, Ids, Lines, Kinds, Foregrounds
  <2>4. QED
    BY <2>1, <2>2, <2>3
<1>6. then.op = "promote" => Justified(ch, canon, task)
  BY <1>1, <1>3 DEF Justified, Visible, Seen
<1>7. Len(canon) \in Nat
  BY DEF RunInv
<1> HIDE DEF ch, b, x
<1>8. RowFits(x, b, canon, task, policy)
  <2>1. b \in 0 .. Len(canon)
    BY <1>3, <1>7
  <2>2. x.kind \notin {"projection", "maintenance"} /\ x.line \notin {"draft", "look"}
    BY <1>5 DEF Foregrounds
  <2>3. PlanFits(x, b, canon, task, policy)
    BY <1>4, <1>5
  <2>4. x.line = "promo" => Justified(x.ch, canon, task)
    BY <1>5, <1>6
  <2>5. QED
    BY <1>1, <2>1, <2>2, <2>3, <2>4 DEF RowFits
<1>9. b \in Nat /\ x \in Ids /\ (then.op = "promote" => x.kind = "acceptance")
  BY <1>3, <1>5, <1>7
<1>10. QED
  BY <1>8, <1>9 DEF ch, b, x

(* The planning task after either *)
LEMMA CreatePlanningStill ==
  ASSUME RunInv, CreatePlanning
  PROVE  Still
<1> DEFINE b == task[ProjectionOf(then.t.ch)].basis
           x == CreatedTask
           s == IF then.op = "promote" THEN "WAITING_INPUT" ELSE "READY"
<1>1. /\ then.op \in {"promote", "replan", "rolling"}
      /\ policy' = policy /\ canon' = canon /\ inflight' = inflight
  BY DEF CreatePlanning
<1>2. then # Nothing
  BY <1>1 DEF Nothing
<1>3. /\ b \in Nat /\ x \in Ids /\ (then.op = "promote" => x.kind = "acceptance")
      /\ RowFits(x, b, canon, task, policy)
  BY <1>1, CreatedFits
<1>4. CASE Collides(CreatedTask, CreatedRow)
  <2>1. task' = task /\ Conflict /\ then' = Nothing
    BY <1>4 DEF CreatePlanning, Done
  <2>2. QED
    BY <1>1, <1>2, <2>1, RowsStand, NothingFits, ConflictFits DEF Still
<1>5. CASE ~Collides(CreatedTask, CreatedRow)
  <2>1. task' = Insert(task, x, Row(s, b, "unknown")) /\ pc' = pc /\ report' = report
    BY <1>5 DEF CreatePlanning, CreatedRow
  <2>2. IF then.op = "promote" THEN then' = [op |-> "accept", t |-> x] ELSE then' = Nothing
    BY <1>5 DEF CreatePlanning, Then, Done
  <2>3. s \in {"READY", "WAITING_INPUT"}
    OBVIOUS
  <2> HIDE DEF b, x, s
  <2>4. Steady
    <3>1. Same(task, task)
      BY InvTyped, NoneSame
    <3>2. QED
      BY <1>1, <1>3, <2>1, <2>3, <3>1, CreateSteady
  <2>5. ThenFits(then', task, policy)
    <3>1. CASE then.op = "promote"
      <4>1. then'.op = "accept" /\ then'.t = x
        BY <2>2, <3>1
      <4>2. QED
        BY <1>3, <3>1, <4>1 DEF ThenFits
    <3>2. CASE then.op # "promote"
      BY <2>2, <3>2, NothingFits
    <3>3. QED
      BY <3>1, <3>2
  <2>6. QED
    BY <1>1, <1>2, <2>1, <2>4, <2>5, RunnerStays DEF Still
<1>6. QED
  BY <1>4, <1>5

(* The rest of advance() after a budget review *)
LEMMA AutoExtendStill ==
  ASSUME RunInv, AutoExtend
  PROVE  Still
<1>1. /\ policy' = policy /\ canon' = canon /\ then' = Nothing
      /\ pc' = pc /\ inflight' = inflight /\ report' = report
      /\ task' = IF Extendable(then.t) THEN Extended(then.t) ELSE task
  BY DEF AutoExtend, Done
<1>2. Same(task, task')
  BY <1>1, InvTyped, ExtendedSame, NoneSame
<1>3. QED
  BY <1>1, <1>2, SameRevised, NothingFits, RunnerStays DEF Still, Steady

-----------------------------------------------------------------------------
(* The runner, kills and operators                                         *)

(* A run() starts: its first plan stands on an empty Canon. *)
LEMMA StartStill ==
  ASSUME RunInv, Start
  PROVE  Still
<1> DEFINE x == Id("plan", 0, 0, "candidate")
<1>1. /\ pc = "idle" /\ pc' = "loop" /\ policy' = policy /\ canon' = canon
      /\ inflight' = inflight /\ then' = then /\ report' \in {report, "none"}
      /\ (report' = "completed") = (report = "completed")
      /\ task' = Insert(task, x, Row("READY", 0, "unknown"))
  BY DEF Start
<1>2. x \in Ids /\ x.line = "plan" /\ x.ch = 0 /\ x.kind = "candidate"
  BY CreativeRunAssumption DEF Id, Ids, Lines, Kinds
<1>3. \A lines : Latest(canon, 0, lines) = 0
  BY LatestNone
<1>4. Written(canon, 0) = 0 /\ Fresh(canon, 0, task)
  BY <1>3 DEF Written, Fresh
<1>5. 0 % policy.horizon = 0
  <2>1. policy.horizon \in Nat \ {0}
    BY CreativeRunAssumption DEF RunInv
  <2> DEFINE h == policy.horizon
  <2>2. h \in Nat \ {0}
    BY <2>1
  <2> HIDE DEF h
  <2>3. 0 % h = 0
    BY <2>2, Z3
  <2>4. QED
    BY <2>3 DEF h
<1>6. 0 \in 0 .. Len(canon)
  BY DEF RunInv
<1> HIDE DEF x
<1>7. PlanFits(x, 0, canon, task, policy)
  BY <1>2, <1>3, <1>4, <1>5, CreativeRunAssumption DEF PlanFits
<1>8. RowFits(x, 0, canon, task, policy)
  BY <1>2, <1>6, <1>7 DEF RowFits
<1>9. Steady
  <2>1. Same(task, task)
    BY InvTyped, NoneSame
  <2>2. QED
    BY <1>1, <1>2, <1>8, <2>1, CreateSteady DEF Statuses
<1>10. RunnerGoesOn
  BY <1>1 DEF RunInv, RunnerFits, RunnerGoesOn, Reported
<1>11. QED
  BY <1>1, <1>9, <1>10 DEF Still, RunInv

(* The commit that a chapter's projection stands on was made by the first  *)
(* attempt: chapters are not retried under another identity.               *)
LEMMA ProjectionIs ==
  ASSUME RunInv, NEW t \in DOMAIN task, t.kind = "projection"
  PROVE  /\ task[t].basis \in 1 .. Len(canon)
         /\ canon[task[t].basis] = Stage(t, "commit")
         /\ t.line = "draft" => t = ProjectionOf(t.ch)
<1> DEFINE b == task[t].basis
           u == Stage(t, "commit")
<1>1. t \in Ids /\ b \in Nat /\ b <= Len(canon) /\ RowFits(t, b, canon, task, policy)
  BY RowOf
<1>2. b > 0 /\ canon[b] = u
  BY <1>1 DEF RowFits
<1>3. Len(canon) \in Nat
  BY DEF RunInv
<1>4. b \in 1 .. Len(canon)
  BY <1>1, <1>2, <1>3
<1>5. u.line = t.line /\ u.n = t.n /\ u.kind = "commit"
  BY <1>1, StageIs DEF Kinds
<1>6. t.line = "draft" => t.n = 0
  <2> HIDE DEF b, u
  <2>1. RowFits(u, b - 1, canon, task, policy)
    BY <1>2, <1>4, CommitOf
  <2>2. QED
    BY <1>5, <2>1 DEF RowFits, ChapterFits
<1>7. t.line = "draft" => t = ProjectionOf(t.ch)
  BY <1>1, <1>6 DEF ProjectionOf, Id, Ids
<1>8. QED
  BY <1>2, <1>4, <1>7

(* A commit that Canon has gets its projection. *)
LEMMA SettledSteady ==
  ASSUME RunInv, NEW t \in DOMAIN task, t.kind = "commit",
         Len(canon) > 0, canon[Len(canon)] = t,
         task' = Insert(With(t, "SUCCEEDED"), Stage(t, "projection"),
                        Row("READY", Len(canon), task[t].affects)),
         policy' = policy, canon' = canon
  PROVE  Steady
<1> DEFINE x == Stage(t, "projection")
           r == With(t, "SUCCEEDED")
<1>1. /\ t \in Ids /\ task[t].affects \in {"unknown", "yes", "no"}
      /\ RowFits(t, task[t].basis, canon, task, policy)
  BY RowOf
<1>2. Len(canon) \in Nat /\ Len(canon) \in 1 .. Len(canon) /\ Grows(canon, canon)
  BY DEF RunInv, Grows
<1>3. x \in Ids
  BY <1>1, StageIs DEF Kinds
<1>4. RowFits(x, Len(canon), canon, task, policy)
  BY <1>1, <1>2, ProjectionFits
<1>5. Same(task, r)
  BY InvTyped, WithSame DEF Statuses
<1>6. x.kind = "projection"
  BY <1>1, StageIs DEF Kinds
<1> HIDE DEF x, r
<1>7. QED
  BY <1>1, <1>2, <1>3, <1>4, <1>5, CreateSteady DEF x, r, Statuses

(* recover_boundary, for each kind of row it answers for *)
LEMMA RecoverStill ==
  ASSUME RunInv, NEW t \in DOMAIN task, Recover(t)
  PROVE  Still
<1>1. /\ pc = "loop" /\ then = Nothing /\ ~Visible(Target, task) /\ Recoverable(t)
      /\ policy' = policy /\ canon' = canon /\ pc' = pc /\ inflight' = inflight
      /\ report' = report
  BY DEF Recover, Sync, Projected, Is, Exists, Visible, Seen, ProjectionOf
<1>2. t \in Ids
  BY RowOf
<1>3. CASE t.kind = "acceptance"
  <2>1. then' = [op |-> "accept", t |-> t] /\ task' = task
    BY <1>3 DEF Recover, Then, InterruptedSettlement, Settlement
  <2>2. ThenFits(then', task, policy)
    BY <1>2, <1>3, <2>1 DEF ThenFits
  <2>3. QED
    BY <1>1, <2>1, <2>2, RowsStand, RunnerStays DEF Still
<1>4. CASE InterruptedSettlement(t)
  <2>1. t.kind = "commit"
    BY <1>4 DEF InterruptedSettlement, Settlement
  <2>2. task' = Reconciled(t) /\ then' = Nothing
    BY <1>4, <2>1 DEF Recover, Done
  <2>3. Steady
    <3>1. CASE ReceiptFound(t)
      BY <1>1, <2>1, <2>2, <3>1, SettledSteady DEF Reconciled, ReceiptFound, CurrentCommit
    <3>2. CASE ~ReceiptFound(t)
      <4>1. task' = With(t, "WAITING_RETRY")
        BY <2>2, <3>2 DEF Reconciled
      <4>2. QED
        BY <1>1, <2>1, <4>1, StatusSteady DEF Statuses
    <3>3. QED
      BY <3>1, <3>2
  <2>4. QED
    BY <1>1, <2>2, <2>3, NothingFits, RunnerStays DEF Still
<1>5. CASE t.kind = "projection"
  <2>1. RepairPostDraft(t)
    BY <1>5 DEF Recover, InterruptedSettlement, Settlement
  <2>2. t.line = "draft" /\ task[t].status = "SUCCEEDED" /\ Repairs(t)
    BY <1>1, <1>5 DEF Recoverable, InterruptedSettlement, Settlement, Is, Extendable
  <2>3. Visible(t.ch, task)
    <3>1. t = ProjectionOf(t.ch)
      BY <1>5, <2>2, ProjectionIs
    <3>2. QED
      BY <2>2, <3>1 DEF Visible, Seen
  <2>4. QED
    BY <1>1, <1>2, <2>1, <2>2, <2>3, RepairFits, RunnerStays DEF Still
<1>6. CASE t.kind \notin {"acceptance", "projection"} /\ ~InterruptedSettlement(t)
  <2>1. task' = Extended(t) /\ then' = Nothing
    BY <1>6 DEF Recover, Done
  <2>2. Extendable(t)
    BY <1>1, <1>6 DEF Recoverable
  <2>3. Same(task, task')
    BY <2>1, <2>2, InvTyped, ExtendedSame
  <2>4. QED
    BY <1>1, <2>1, <2>3, SameRevised, NothingFits, RunnerStays DEF Still, Steady
<1>7. QED
  BY <1>3, <1>4, <1>5, <1>6

(* The loop returns or asks for a slice. *)
LEMMA LoopStill ==
  ASSUME RunInv, Loop
  PROVE  Still
<1>1. /\ pc = "loop" /\ then = Nothing /\ then' = then /\ task' = task
      /\ policy' = policy /\ canon' = canon /\ inflight' = inflight
  BY DEF Loop, Sync
<1>2. inflight = {}
  BY <1>1 DEF RunInv, RunnerFits
<1>3. Return(RunStatus) \/ (pc' = "poll" /\ report' = report /\ ~Visible(Target, task))
  BY DEF Loop, Projected, Is, Exists, Visible, Seen, ProjectionOf
<1>4. RunnerGoesOn
  <2>1. CASE Return(RunStatus)
    BY <1>1, <1>2, <2>1, ReturnFits
  <2>2. CASE pc' = "poll" /\ report' = report /\ ~Visible(Target, task)
    BY <1>1, <1>2, <2>2 DEF RunInv, RunnerFits, RunnerGoesOn, Reported
  <2>3. QED
    BY <1>3, <2>1, <2>2
<1>5. QED
  BY <1>1, <1>4, RowsStand DEF Still, RunInv

(* A slice ends. *)
LEMMA SliceFits ==
  ASSUME RunInv, SliceEnds, pc \in {"poll", "await"}, then = Nothing, then' = then,
         inflight = {}, inflight' = inflight
  PROVE  RunnerGoesOn
<1>1. CASE Return(RunStatus)
  BY <1>1, ReturnFits
<1>2. CASE pc' = "loop" /\ report' = report
  BY <1>2 DEF RunInv, RunnerFits, RunnerGoesOn, Reported
<1>3. QED
  BY <1>1, <1>2 DEF SliceEnds

(* A batch is back. *)
LEMMA BatchEndsStill ==
  ASSUME RunInv, BatchEnds
  PROVE  Still
<1>1. /\ pc = "await" /\ then = Nothing /\ then' = then /\ task' = task
      /\ policy' = policy /\ canon' = canon /\ inflight = {} /\ inflight' = inflight
  BY DEF BatchEnds, Sync
<1>2. \/ pc' = "idle" /\ report' = "failed"
      \/ SliceEnds
      \/ pc' \in {"poll", "loop"} /\ report' = report
  BY DEF BatchEnds, Return
<1>3. RunnerGoesOn
  <2>1. CASE SliceEnds
    BY <1>1, <2>1, SliceFits
  <2>2. CASE ~SliceEnds
    BY <1>1, <1>2, <2>2 DEF RunInv, RunnerFits, RunnerGoesOn, Reported
  <2>3. QED
    BY <2>1, <2>2
<1>4. QED
  BY <1>1, <1>3, RowsStand DEF Still, RunInv

(* The process is killed. *)
LEMMA KillStill ==
  ASSUME RunInv, Kill
  PROVE  Still
<1>1. /\ pc' = "idle" /\ then' = Nothing /\ task' = task /\ report' = report
      /\ policy' = policy /\ canon' = canon /\ inflight' = {}
  BY DEF Kill
<1>2. RunnerGoesOn
  BY <1>1 DEF RunInv, RunnerFits, RunnerGoesOn, Reported
<1>3. QED
  BY <1>1, <1>2, RowsStand, NothingFits DEF Still

(* An operator retries, unblocks or reclaims. *)
LEMMA OperatorStill ==
  ASSUME RunInv, NEW t \in DOMAIN task, Reclaim(t) \/ Serve(t)
  PROVE  Still
<1>1. /\ task[t].status # "SUCCEEDED"
      /\ task' = With(t, "WAITING_RETRY") \/ task' = With(t, "READY")
      /\ policy' = policy /\ canon' = canon /\ pc' = pc /\ inflight' = inflight
      /\ then' = then /\ report' = report
  BY DEF Reclaim, Serve, Is
<1>2. Steady
  BY <1>1, StatusSteady DEF Statuses
<1>3. QED
  BY <1>1, <1>2, RunnerStays DEF Still, RunInv

(* Two different tasks are two. *)
LEMMA PairCounts ==
  ASSUME NEW x, NEW y, x # y
  PROVE  Cardinality({x, y}) = 2
<1>1. IsFiniteSet({y}) /\ Cardinality({y}) = 1
  BY FS_Singleton
<1>2. x \notin {y} /\ {y} \cup {x} = {x, y}
  OBVIOUS
<1>3. Cardinality({y} \cup {x}) =
        IF x \in {y} THEN Cardinality({y}) ELSE Cardinality({y}) + 1
  BY <1>1, FS_AddElement, Zenon
<1>4. QED
  BY <1>1, <1>2, <1>3

(* Two tasks are awaited together only when both are candidates. *)
LEMMA BatchFits ==
  ASSUME NEW batch \in Batches,
         Cardinality(batch) = 2 => \A t, u \in batch : t # u => Together(t, u)
  PROVE  /\ batch \subseteq Ready
         /\ \A t, u \in batch : t # u => t.kind = "candidate"
<1>1. PICK h \in Ready, u \in Ready : batch = {h} \/ batch = {h, u}
  BY DEF Batches, Heads
<1>2. ASSUME NEW x \in batch, NEW y \in batch, x # y PROVE x.kind = "candidate"
  <2>1. batch = {x, y}
    BY <1>1, <1>2
  <2>2. Cardinality(batch) = 2
    BY <1>2, <2>1, PairCounts
  <2>3. QED
    BY <1>2, <2>2 DEF Together
<1>3. QED
  BY <1>1, <1>2

(* The number a claim gives its attempt *)
LEMMA NextAttempts ==
  ASSUME NEW t
  PROVE  NextAttempt(t) \in 0 .. 2
<1>1. CASE ~Settlement(t)
  BY <1>1 DEF NextAttempt
<1>2. CASE Settlement(t) /\ task[t].attempt = 0
  BY <1>2 DEF NextAttempt
<1>3. CASE Settlement(t) /\ task[t].attempt # 0
  BY <1>3 DEF NextAttempt
<1>4. QED
  BY <1>1, <1>2, <1>3

(* A batch is claimed. *)
LEMMA ClaimInv ==
  ASSUME RunInv, pc = "poll", NEW batch, batch \subseteq Ready,
         \A t, u \in batch : t # u => t.kind = "candidate",
         \A t \in batch : Claimable(t),
         Claim(batch), policy' = policy, canon' = canon, then' = then
  PROVE  RunInv' /\ Steady /\ Reported
<1>1. /\ then = Nothing /\ report # "completed"
      /\ \A t \in batch : t \in DOMAIN task /\ task[t].status = "READY"
  BY DEF RunInv, RunnerFits, Ready, Runnable, Is
<1>2. /\ inflight' = batch /\ pc' = "await" /\ report' = report
      /\ DOMAIN task' = DOMAIN task
  BY DEF Claim
<1>3. ASSUME NEW u \in DOMAIN task
      PROVE  /\ task'[u] \in Rows
             /\ task'[u].basis = task[u].basis /\ task'[u].affects = task[u].affects
             /\ u \in batch => task'[u].status = "RUNNING"
             /\ u \notin batch => task'[u] = task[u]
  <2>1. task[u] \in Rows
    BY RowOf
  <2>2. CASE u \in batch
    <3>1. task'[u] = [task[u] EXCEPT !.status = "RUNNING", !.attempt = NextAttempt(u)]
      BY <2>2 DEF Claim
    <3>2. NextAttempt(u) \in 0 .. 2
      BY NextAttempts
    <3>3. QED
      BY <2>1, <2>2, <3>1, <3>2 DEF Rows, Statuses
  <2>3. CASE u \notin batch
    <3>1. task'[u] = task[u]
      BY <2>3 DEF Claim
    <3>2. QED
      BY <2>1, <2>3, <3>1
  <2>4. QED
    BY <2>2, <2>3
<1>4. Same(task, task')
  BY <1>1, <1>2, <1>3 DEF Same
<1>5. Steady
  BY <1>4, SameRevised DEF Steady
<1>6. /\ Kept(task, task') /\ policy' \in Policies /\ canon' \in Seq(Ids)
      /\ RowsFit(canon', task', policy') /\ CommitsFit(canon', task')
  BY <1>5, SteadyRows
<1>7. InflightFits(inflight', canon', task')
  <2>1. \A t \in batch : task'[t].basis = Len(canon') /\ task'[t].status = "RUNNING"
    BY <1>1, <1>3 DEF Claimable, CurrentCommit
  <2>2. batch \subseteq DOMAIN task'
    BY <1>1, <1>2
  <2>3. QED
    BY <1>2, <2>1, <2>2 DEF InflightFits
<1>8. ThenFits(then', task', policy')
  BY <1>1, NothingFits
<1>9. RunnerFits(pc', inflight', then', report', task')
  BY <1>1, <1>2 DEF RunnerFits
<1>10. QED
  BY <1>2, <1>5, <1>6, <1>7, <1>8, <1>9 DEF RunInv, Reported

(* The dispatcher polls. *)
LEMMA PollInv ==
  ASSUME RunInv, Poll
  PROVE  RunInv' /\ Steady /\ Reported
<1>1. pc = "poll" /\ policy' = policy /\ canon' = canon /\ then' = then
  BY DEF Poll
<1>2. then = Nothing /\ inflight = {}
  BY <1>1 DEF RunInv, RunnerFits
<1>3. CASE SliceEnds /\ task' = task /\ inflight' = inflight
  <2>1. Still
    BY <1>1, <1>2, <1>3, SliceFits, RowsStand DEF Still, RunInv
  <2>2. QED
    BY <2>1, StillInv DEF Still, RunnerGoesOn
<1>4. CASE \E batch \in Batches :
             /\ Cardinality(batch) = 2 => \A t, u \in batch : t # u => Together(t, u)
             /\ Claim({t \in batch : Claimable(t)})
  <2>1. PICK batch \in Batches :
             /\ Cardinality(batch) = 2 => \A t, u \in batch : t # u => Together(t, u)
             /\ Claim({t \in batch : Claimable(t)})
    BY <1>4
  <2> DEFINE claimed == {t \in batch : Claimable(t)}
  <2>2. batch \subseteq Ready /\ \A t, u \in batch : t # u => t.kind = "candidate"
    BY <2>1, BatchFits
  <2>3. /\ claimed \subseteq Ready /\ \A t \in claimed : Claimable(t)
        /\ \A t, u \in claimed : t # u => t.kind = "candidate"
    BY <2>2
  <2>4. Claim(claimed)
    BY <2>1
  <2> HIDE DEF claimed
  <2>5. QED
    BY <1>1, <2>3, <2>4, ClaimInv
<1>5. QED
  BY <1>3, <1>4 DEF Poll

-----------------------------------------------------------------------------
(* What advance() comes back with                                          *)

(* What is awaited is on the current basis, or has just moved it, and only *)
(* candidates are awaited together.                                        *)
LEMMA ReturnsAre ==
  ASSUME RunInv, NEW t, NEW k, Returns(t, k)
  PROVE  /\ pc = "await" /\ then = Nothing /\ t \in inflight /\ t.kind = k /\ t \in DOMAIN task
         /\ inflight' = inflight \ {t} /\ inflight' \subseteq inflight
         /\ policy' = policy /\ pc' = pc /\ report' = report
         /\ k # "candidate" => inflight' = {}
         /\ k = "projection" => task[t].status # "SUCCEEDED"
         /\ \/ task[t].basis = Len(canon)
            \/ /\ Len(canon) > 0 /\ canon[Len(canon)] = t
               /\ t.kind = "maintenance" \/ t.line = "draft"
<1>1. /\ pc = "await" /\ then = Nothing /\ t \in inflight /\ t.kind = k
      /\ inflight' = inflight \ {t} /\ policy' = policy /\ pc' = pc /\ report' = report
  BY DEF Returns, Sync
<1>2. InflightFits(inflight, canon, task)
  BY DEF RunInv
<1>3. QED
  BY <1>1, <1>2 DEF InflightFits

(* A candidate is produced. *)
LEMMA CandidateReadyStill ==
  ASSUME RunInv, NEW t, NEW a \in {"unknown", "yes", "no"}, CandidateReady(t, a)
  PROVE  Still
<1> DEFINE x == Stage(t, "acceptance")
           r == With(t, "SUCCEEDED")
<1>1. /\ pc = "await" /\ t \in DOMAIN task /\ t.kind = "candidate"
      /\ inflight' \subseteq inflight /\ policy' = policy /\ pc' = pc /\ report' = report
      /\ canon' = canon
  BY ReturnsAre DEF CandidateReady
<1>2. t \in Ids /\ task[t].basis \in Nat /\ RowFits(t, task[t].basis, canon, task, policy)
  BY <1>1, RowOf
<1>3. x \in Ids /\ x.kind = "acceptance" /\ RowFits(x, task[t].basis, canon, task, policy)
  BY <1>1, <1>2, StageIs, StageFits DEF Kinds
<1>4. Same(task, r)
  BY <1>1, InvTyped, WithSame DEF Statuses
<1>5. task' = Insert(r, x, Row("WAITING_INPUT", task[t].basis, a))
  BY DEF CandidateReady
<1>6. then'.t = x /\ then'.op \in {"revalidate", "accept"}
  BY DEF CandidateReady, Then
<1> HIDE DEF x, r
<1>7. Steady
  BY <1>1, <1>2, <1>3, <1>4, <1>5, CreateSteady DEF Statuses
<1>8. ThenFits(then', task, policy)
  BY <1>3, <1>6 DEF ThenFits
<1>9. QED
  BY <1>1, <1>7, <1>8, RunnerStays DEF Still

(* A settlement that is no success leaves work to do. *)
Unfinished == Inactive \cup {"RECOVERY_PENDING"}

LEMMA SettledUnfinished ==
  ASSUME NEW t, t.kind \in Kinds, NEW s,
         s \in IF t.kind \in {"commit", "maintenance"} /\ task[t].basis # CurrentCommit
                THEN SettledAfterCommit(t) ELSE SettledStatuses(t)
  PROVE  /\ s \in Unfinished /\ (s = "RECOVERY_PENDING" => t.kind = "maintenance")
         /\ s = "READY" => t.kind = "candidate"
<1>1. CASE s \in SettledAfterCommit(t) /\ t.kind \in {"commit", "maintenance"}
  BY <1>1 DEF SettledAfterCommit, Unfinished, Inactive
<1>2. CASE s \in SettledStatuses(t)
  <2>1. CASE t.kind = "candidate"
    BY <1>2, <2>1 DEF SettledStatuses, Unfinished, Inactive
  <2>2. CASE t.kind = "commit"
    BY <1>2, <2>2 DEF SettledStatuses, Unfinished, Inactive
  <2>3. CASE t.kind = "projection"
    BY <1>2, <2>3 DEF SettledStatuses, Unfinished, Inactive
  <2>4. CASE t.kind = "maintenance"
    BY <1>2, <2>4 DEF SettledStatuses, Unfinished, Inactive
  <2>5. CASE t.kind = "acceptance"
    BY <1>2, <2>5 DEF SettledStatuses
  <2>6. QED
    BY <2>1, <2>2, <2>3, <2>4, <2>5 DEF Kinds
<1>3. QED
  BY <1>1, <1>2

(* An attempt is settled otherwise. *)
LEMMA SettledAsStill ==
  ASSUME RunInv, NEW t, NEW s, SettledAs(t, s)
  PROVE  Still
<1>1. /\ pc = "await" /\ t \in DOMAIN task
      /\ t.kind = "projection" => task[t].status # "SUCCEEDED"
      /\ inflight' \subseteq inflight /\ policy' = policy /\ pc' = pc /\ report' = report
      /\ canon' = canon
  BY ReturnsAre DEF SettledAs
<1>2. s \in Unfinished /\ (s = "RECOVERY_PENDING" => t.kind = "maintenance")
  BY <1>1, RowOf, SettledUnfinished DEF SettledAs
<1>3. task' = With(t, s) /\ (then' = [op |-> "extend", t |-> t] \/ then' = Nothing)
  BY DEF SettledAs, Then, Done
<1>4. Steady
  BY <1>1, <1>2, <1>3, StatusSteady DEF Unfinished, Inactive, Statuses
<1>5. ThenFits(then', task, policy)
  <2>1. CASE then' = Nothing
    BY <2>1, NothingFits
  <2>2. CASE then' = [op |-> "extend", t |-> t]
    <3>1. then'.op = "extend" /\ then'.t = t /\ t \in Ids
      BY <1>1, <2>2, RowOf
    <3>2. QED
      BY <3>1 DEF ThenFits
  <2>3. QED
    BY <1>3, <2>1, <2>2
<1>6. QED
  BY <1>1, <1>4, <1>5, RunnerStays DEF Still

(* An exception leaves the attempt open. *)
LEMMA RaisesStill ==
  ASSUME RunInv, NEW t, Raises(t)
  PROVE  Still
<1>1. /\ inflight' \subseteq inflight /\ policy' = policy /\ pc' = pc /\ report' = report
      /\ canon' = canon /\ task' = task /\ then' = then
  BY ReturnsAre DEF Raises
<1>2. QED
  BY <1>1, RowsStand, RunnerStays DEF Still, RunInv

(* A Planner meets a Canon gap. *)
LEMMA CanonGapStill ==
  ASSUME RunInv, NEW t, CanonGap(t)
  PROVE  Still
<1> DEFINE x == Stage(t, "maintenance")
           r == With(t, "BLOCKED")
<1>1. /\ t \in DOMAIN task /\ t.kind = "candidate" /\ <<t.line, t.ch>> \in GapAt
      /\ inflight' \subseteq inflight /\ policy' = policy /\ pc' = pc /\ report' = report
      /\ canon' = canon /\ then' = then
  BY ReturnsAre DEF CanonGap
<1>2. t \in Ids /\ task[t].basis \in Nat /\ RowFits(t, task[t].basis, canon, task, policy)
  BY <1>1, RowOf
<1>3. t.line # "draft"
  BY <1>1, CreativeRunAssumption
<1>4. x \in Ids /\ x.kind = "maintenance"
  BY <1>2, StageIs DEF Kinds
<1>5. RowFits(x, task[t].basis, canon, task, policy)
  BY <1>1, <1>2, <1>3, StageFits DEF Kinds
<1>6. Same(task, r)
  BY <1>1, InvTyped, WithSame DEF Statuses
<1>7. task' = Insert(r, x, Row("READY", task[t].basis, "unknown"))
  BY DEF CanonGap
<1> HIDE DEF x, r
<1>8. Steady
  BY <1>1, <1>2, <1>4, <1>5, <1>6, <1>7, CreateSteady DEF Statuses
<1>9. QED
  BY <1>1, <1>8, RunnerStays DEF Still, RunInv

(* The Planner that met a gap starts again on the commit that closed it:   *)
(* that commit is no text, and what was written and planned stands.        *)
LEMMA RetryFits ==
  ASSUME RunInv, NEW t \in DOMAIN task, t.kind = "maintenance",
         Len(canon) > 0, canon[Len(canon)] = t, NEW x,
         x.line = t.line, x.ch = t.ch, x.kind = "candidate"
  PROVE  RowFits(x, Len(canon), canon, task, policy)
<1> DEFINE b == Len(canon)
<1>1. canon \in Seq(Ids) /\ b \in 1 .. Len(canon) /\ b \in 0 .. Len(canon)
  BY DEF RunInv
<1>2. RowFits(t, b - 1, canon, task, policy)
  BY <1>1, CommitOf
<1>3. /\ Latest(canon, b, Lines) = Latest(canon, b - 1, Lines)
      /\ Written(canon, b) = Written(canon, b - 1)
      /\ Fresh(canon, b, task) <=> Fresh(canon, b - 1, task)
  BY <1>1, TextNext
<1> HIDE DEF b
<1>4. t.line # "draft"
  BY <1>2 DEF RowFits, ChapterFits
<1>5. t.line \in Foregrounds => PlanFits(x, b, canon, task, policy)
  BY <1>2, <1>3 DEF RowFits, PlanFits
<1>6. RowFits(x, b, canon, task, policy)
  BY <1>1, <1>2, <1>4, <1>5 DEF RowFits
<1>7. QED
  BY <1>6 DEF b

(* The gap is closed. *)
LEMMA MaintenanceStill ==
  ASSUME RunInv, NEW t, MaintenanceCommitted(t)
  PROVE  Still
<1> DEFINE planner == Stage(t, "candidate")
           retry == [planner EXCEPT !.n = 1]
           r == With(t, "SUCCEEDED")
           q == Superseded(r, planner)
<1>1. /\ t \in DOMAIN task /\ t.kind = "maintenance" /\ task[t].basis # Len(canon)
      /\ task[t].basis = Len(canon) \/ (Len(canon) > 0 /\ canon[Len(canon)] = t)
      /\ inflight' \subseteq inflight /\ policy' = policy /\ pc' = pc /\ report' = report
      /\ canon' = canon /\ then' = then
  BY ReturnsAre DEF MaintenanceCommitted, CurrentCommit
<1>2. t \in Ids
  BY <1>1, RowOf
<1>3. planner \in Ids /\ planner.line = t.line /\ planner.ch = t.ch /\ planner.kind = "candidate"
  BY <1>2, StageIs DEF Kinds
<1>4. retry \in Ids /\ retry.line = t.line /\ retry.ch = t.ch /\ retry.kind = "candidate"
  <2> HIDE DEF planner
  <2>1. QED
    BY <1>3 DEF Ids
<1>5. task' = Insert(q, retry, Row("READY", Len(canon), "unknown")) \/ task' = task
  BY DEF MaintenanceCommitted, CurrentCommit
<1>6. Same(task, q)
  <2>1. Same(task, r)
    BY <1>1, InvTyped, WithSame DEF Statuses
  <2> HIDE DEF r, planner
  <2>2. QED
    BY <1>3, <2>1, InvTyped, SupersededSame
<1> HIDE DEF planner, retry, r, q
<1>7. RowFits(retry, Len(canon), canon, task, policy)
  BY <1>1, <1>4, RetryFits
<1>8. Len(canon) \in Nat
  BY DEF RunInv
<1>9. Steady
  <2>1. CASE task' = task
    BY <1>1, <2>1, RowsStand
  <2>2. CASE task' = Insert(q, retry, Row("READY", Len(canon), "unknown"))
    BY <1>1, <1>4, <1>6, <1>7, <1>8, <2>2, CreateSteady DEF Statuses
  <2>3. QED
    BY <1>5, <2>1, <2>2
<1>10. QED
  BY <1>1, <1>9, RunnerStays DEF Still, RunInv

(* The commit of a draft is recorded, once the workflow has made it. *)
LEMMA RecordStill ==
  ASSUME RunInv, NEW t, Commits(t), t.line = "draft"
  PROVE  Still
<1>1. /\ t \in DOMAIN task /\ t.kind = "commit"
      /\ task[t].basis = Len(canon) \/ (Len(canon) > 0 /\ canon[Len(canon)] = t)
      /\ inflight' \subseteq inflight /\ policy' = policy /\ pc' = pc /\ report' = report
      /\ then' = then
  BY ReturnsAre DEF Commits
<1>2. /\ canon' = canon /\ task[t].basis # Len(canon)
      /\ task' = Insert(With(t, "SUCCEEDED"), Stage(t, "projection"),
                        Row("READY", Len(canon), task[t].affects))
  BY DEF Commits, CurrentCommit
<1>3. Steady
  BY <1>1, <1>2, SettledSteady
<1>4. QED
  BY <1>1, <1>3, RunnerStays DEF Still, RunInv

-----------------------------------------------------------------------------
(* A commit is projected                                                   *)

Projecting ==
  /\ policy' = policy /\ canon' = canon /\ report' = report /\ Kept(task, task')
  /\ ~Fresh(canon, Len(canon), task) /\ Fresh(canon, Len(canon), task')

(* What is left of dividing by the horizon *)
LEMMA Multiples ==
  ASSUME NEW h \in Nat \ {0}, NEW p \in Nat, p % h = 0
  PROVE  (p + h) % h = 0
<1>1. PICK q \in Nat : p = q * h
  <2>1. p \div h \in Nat /\ p = h * (p \div h)
    BY Z3
  <2>2. p = (p \div h) * h
    BY <2>1, Z3
  <2>3. QED
    BY <2>1, <2>2
<1>2. p + h = (q + 1) * h
  BY <1>1, Z3
<1>3. ((q + 1) * h) % h = 0
  BY <1>1, Z3
<1>4. QED
  BY <1>2, <1>3

(* Without lookahead the plans cover whole horizons. *)
LEMMA CoverDivides ==
  ASSUME RunInv, ~policy.lookahead, NEW b \in 0 .. Len(canon),
         Covered(canon, b, policy) # 0
  PROVE  /\ Covered(canon, b, policy) % policy.horizon = 0
         /\ Covered(canon, b, policy) \in Nat
<1> DEFINE i == Latest(canon, b, Planning)
           h == policy.horizon
<1>1. b \in Nat /\ canon \in Seq(Ids) /\ h \in Nat \ {0}
  BY CreativeRunAssumption DEF RunInv
<1>2. i # 0 /\ Covered(canon, b, policy) = canon[i].ch + HorizonOf(canon[i].line, policy)
  BY DEF Covered
<1>3. i \in 1 .. b /\ Made(canon[i], Planning)
  BY <1>1, <1>2, LatestOf DEF LatestIs
<1>4. i \in 1 .. Len(canon)
  BY <1>1, <1>3
<1> HIDE DEF i
<1>5. RowFits(canon[i], i - 1, canon, task, policy) /\ canon[i] \in Ids
  BY <1>4, CommitOf
<1>6. canon[i].ch \in Nat
  BY <1>5, CreativeRunAssumption DEF Ids
<1>7. canon[i].ch % h = 0 /\ HorizonOf(canon[i].line, policy) = h
  <2>1. canon[i].kind = "commit" /\ canon[i].line \in Foregrounds /\ canon[i].line = "plan"
    BY <1>3, <1>5 DEF Made, Planning, Lines, Foregrounds, RowFits
  <2>2. PlanFits(canon[i], i - 1, canon, task, policy)
    BY <1>5, <2>1 DEF RowFits
  <2>3. QED
    BY <2>1, <2>2 DEF PlanFits, HorizonOf
<1>8. (canon[i].ch + h) % h = 0
  BY <1>1, <1>6, <1>7, Multiples
<1>9. QED
  BY <1>1, <1>2, <1>6, <1>7, <1>8

(* What the commit under a projection says of the text *)
LEMMA TextAt ==
  ASSUME RunInv, NEW t \in DOMAIN task, t.kind = "projection"
  PROVE  LET b == task[t].basis
             h == HorizonOf(t.line, policy)
         IN /\ Latest(canon, b, Lines) = b /\ canon[b].line = t.line /\ canon[b].ch = t.ch
            /\ \A rows : Fresh(canon, b, rows) <=> Seen(t, rows)
            /\ t.line # "draft" =>
                 t.ch < Target /\ Written(canon, b) = t.ch /\ Covered(canon, b, policy) = t.ch + h
            /\ t.line = "draft" =>
                 Written(canon, b) = t.ch /\ t.ch > 0 /\ t.ch <= Covered(canon, b, policy)
<1> DEFINE b == task[t].basis
           h == HorizonOf(t.line, policy)
           u == Stage(t, "commit")
<1>1. t \in Ids /\ RowFits(t, b, canon, task, policy)
  BY RowOf
<1>2. b \in 1 .. Len(canon) /\ canon[b] = u
  BY ProjectionIs
<1>3. /\ u.line = t.line /\ u.ch = t.ch /\ u.kind = "commit"
      /\ Stage(u, "projection") = t
  BY <1>1, StageIs DEF Kinds
<1>4. canon \in Seq(Ids)
  BY DEF RunInv
<1> HIDE DEF b, u, h
<1>5. RowFits(u, b - 1, canon, task, policy)
  BY <1>2, CommitOf
<1>6. /\ Latest(canon, b, Lines) = b
      /\ \A rows : Fresh(canon, b, rows) <=> Seen(t, rows)
  BY <1>2, <1>3, <1>4, TextNext
<1>7. ASSUME t.line # "draft"
      PROVE  t.ch < Target /\ Written(canon, b) = t.ch /\ Covered(canon, b, policy) = t.ch + h
  <2>1. t.line \in Foregrounds
    BY <1>1, <1>7 DEF RowFits, Foregrounds, Ids, Lines
  <2>2. PlanFits(u, b - 1, canon, task, policy)
    BY <1>3, <1>5, <2>1 DEF RowFits
  <2>3. Made(u, Planning)
    BY <1>3, <2>1 DEF Made, Planning, Foregrounds, Lines
  <2>4. Written(canon, b) = Written(canon, b - 1) /\ Covered(canon, b, policy) = t.ch + h
    BY <1>2, <1>3, <1>4, <2>3, TextNext DEF h
  <2>5. QED
    BY <1>3, <2>2, <2>4 DEF PlanFits
<1>8. ASSUME t.line = "draft"
      PROVE  Written(canon, b) = t.ch /\ t.ch > 0 /\ t.ch <= Covered(canon, b, policy)
  <2>1. ChapterFits(u, b - 1, canon, task, policy)
    BY <1>3, <1>5, <1>8 DEF RowFits
  <2>2. Made(u, {"draft"})
    BY <1>3, <1>8 DEF Made
  <2>3. Written(canon, b) = t.ch /\ Covered(canon, b, policy) = Covered(canon, b - 1, policy)
    BY <1>2, <1>3, <1>4, <2>2, TextNext
  <2>4. Written(canon, b - 1) \in Nat
    <3>1. b - 1 \in 0 .. Len(canon)
      BY <1>2, <1>4
    <3>2. QED
      BY <1>4, <3>1, TextTypes
  <2>5. t.ch = Written(canon, b - 1) + 1 /\ t.ch <= Covered(canon, b - 1, policy)
    BY <1>3, <2>1 DEF ChapterFits
  <2>6. QED
    BY <2>3, <2>4, <2>5
<1>9. QED
  BY <1>2, <1>3, <1>6, <1>7, <1>8 DEF b, h

(* The tasks a projection opens fit the commit it has made visible. *)
LEMMA SuccessorFits ==
  ASSUME RunInv, NEW t \in DOMAIN task, t.kind = "projection", NEW x \in Successors(t),
         NEW rows, Seen(t, rows)
  PROVE  x \in Ids /\ x.kind = "candidate" /\ RowFits(x, task[t].basis, canon, rows, policy)
<1> DEFINE b == task[t].basis
           h == policy.horizon
           ch == t.ch
           k == HorizonOf(t.line, policy)
<1>1. h \in Nat \ {0} /\ k \in Nat \ {0} /\ canon \in Seq(Ids) /\ Target \in Nat
  BY CreativeRunAssumption DEF RunInv, HorizonOf
<1>2. b \in 1 .. Len(canon) /\ b \in 0 .. Len(canon) /\ ch \in 0 .. Target
  BY <1>1, ProjectionIs, RowOf
<1>3. /\ Latest(canon, b, Lines) = b /\ canon[b].line = t.line /\ canon[b].ch = ch
      /\ Fresh(canon, b, rows)
      /\ t.line # "draft" => ch < Target /\ Written(canon, b) = ch /\ Covered(canon, b, policy) = ch + k
      /\ t.line = "draft" => Written(canon, b) = ch /\ ch > 0 /\ ch <= Covered(canon, b, policy)
  BY TextAt
<1>4. b # 0
  BY <1>2
<1>5. ASSUME t.line # "draft" \/ (~policy.lookahead /\ ch % h # 0),
             ch < Target, ch + 1 <= Covered(canon, b, policy), x = Id("draft", ch + 1, 0, "candidate")
      PROVE  x \in Ids /\ x.kind = "candidate" /\ RowFits(x, b, canon, rows, policy)
  <2>1. /\ x \in Ids /\ x.line = "draft" /\ x.ch = ch + 1 /\ x.n = 0 /\ x.kind = "candidate"
    BY <1>1, <1>2, <1>5 DEF Id, Ids, Lines, Kinds
  <2> HIDE DEF b, ch
  <2>2. Written(canon, b) = ch /\ (canon[b].line = "draft" => ~policy.lookahead /\ ch % h # 0)
    BY <1>3, <1>5
  <2>3. ch + 1 <= Target
    BY <1>1, <1>2, <1>5
  <2>4. ChapterFits(x, b, canon, rows, policy)
    BY <1>3, <1>4, <1>5, <2>1, <2>2, <2>3 DEF ChapterFits, h
  <2>5. QED
    BY <1>2, <2>1, <2>4 DEF RowFits, Foregrounds
<1>6. CASE t.line # "draft" /\ x = Id("draft", ch + 1, 0, "candidate")
  <2>1. ch < Target /\ ch + 1 <= ch + k
    BY <1>1, <1>2, <1>3, <1>6
  <2>2. QED
    BY <1>3, <1>5, <1>6, <2>1
<1>7. CASE policy.lookahead /\ ch + 1 < Target /\ x = Id("look", ch + 1, 0, "candidate")
  <2>1. /\ x \in Ids /\ x.line = "look" /\ x.ch = ch + 1 /\ x.kind = "candidate"
    BY <1>1, <1>2, <1>7 DEF Id, Ids, Lines, Kinds
  <2>2. QED
    BY <1>2, <1>7, <2>1 DEF RowFits, Foregrounds
<1>8. CASE t.line = "draft" /\ ch < Target /\ ~policy.lookahead /\ ch % h = 0
           /\ x = Id("plan", ch, 0, "candidate")
  <2>1. /\ x \in Ids /\ x.line = "plan" /\ x.ch = ch /\ x.kind = "candidate"
    BY <1>1, <1>2, <1>8 DEF Id, Ids, Lines, Kinds
  <2>2. t = ProjectionOf(ch) /\ canon[b] = Stage(t, "commit")
    BY <1>8, ProjectionIs
  <2>3. canon[b] = Id("draft", ch, 0, "commit")
    BY <2>2 DEF ProjectionOf, Id, Stage
  <2> HIDE DEF b, ch
  <2>4. PlanFits(x, b, canon, rows, policy)
    BY <1>1, <1>2, <1>8, <2>1, <2>2, <2>3, AfterChapter DEF h
  <2>5. QED
    BY <1>2, <2>1, <2>4 DEF RowFits, Foregrounds, b
<1>9. CASE t.line = "draft" /\ ch < Target /\ ~policy.lookahead /\ ch % h # 0
           /\ x = Id("draft", ch + 1, 0, "candidate")
  <2> DEFINE v == Covered(canon, b, policy)
  <2>1. v # 0 /\ ch <= v
    BY <1>2, <1>3, <1>9, TextTypes, <1>1 DEF RunInv
  <2>2. v % h = 0 /\ v \in Nat
    BY <1>2, <1>9, <2>1, CoverDivides
  <2> HIDE DEF v
  <2>3. ch # v
    BY <1>9, <2>2
  <2>4. ch + 1 <= v
    BY <1>2, <2>1, <2>2, <2>3
  <2>5. QED
    BY <1>5, <1>9, <2>4 DEF v
<1>10. QED
  <2>1. \/ t.line # "draft" /\ x = Id("draft", ch + 1, 0, "candidate")
        \/ policy.lookahead /\ ch + 1 < Target /\ x = Id("look", ch + 1, 0, "candidate")
        \/ t.line = "draft" /\ ch < Target /\ ~policy.lookahead /\ ch % h = 0
           /\ x = Id("plan", ch, 0, "candidate")
        \/ t.line = "draft" /\ ch < Target /\ ~policy.lookahead /\ ch % h # 0
           /\ x = Id("draft", ch + 1, 0, "candidate")
    BY DEF Successors
  <2>2. QED
    BY <1>6, <1>7, <1>8, <1>9, <2>1

(* A projection succeeds: all readers see the last commit, and the tasks   *)
(* it opens fit.                                                           *)
LEMMA ProjectionReadyInv ==
  ASSUME RunInv, NEW t, ProjectionReady(t)
  PROVE  RunInv' /\ ((Steady /\ Reported) \/ Projecting)
<1> DEFINE b == task[t].basis
           row == Row("READY", b, "unknown")
<1>1. /\ pc = "await" /\ then = Nothing /\ t \in DOMAIN task /\ t.kind = "projection"
      /\ inflight' = {} /\ policy' = policy /\ pc' = pc /\ report' = report /\ canon' = canon
      /\ task[t].status # "SUCCEEDED"
  BY ReturnsAre DEF ProjectionReady
<1>2. CASE \E u \in Successors(t) : Collides(u, row)
  <2>1. task' = task /\ then' = then
    BY <1>2 DEF ProjectionReady
  <2>2. Still
    BY <1>1, <2>1, RowsStand, RunnerStays DEF Still, RunInv
  <2>3. QED
    BY <2>2, StillInv DEF Still, RunnerGoesOn
<1>3. CASE ~ \E u \in Successors(t) : Collides(u, row)
  <2>1. task' = [u \in DOMAIN task \cup Successors(t) |->
                   IF u \in DOMAIN task THEN With(t, "SUCCEEDED")[u] ELSE row]
    BY <1>3 DEF ProjectionReady
  <2>2. \/ then' = Nothing
        \/ then' = [op |-> "repair", t |-> t] /\ t.line = "draft"
    BY <1>3 DEF ProjectionReady, Then, Done
  <2>3. b \in Nat /\ t \in Ids
    BY <1>1, RowOf
  <2>4. row \in Rows /\ row.status = "READY" /\ row.basis = b
    BY <2>3, RowTyped DEF Statuses
  <2> HIDE DEF row
  <2>5. ASSUME NEW u \in DOMAIN task
        PROVE  /\ u \in DOMAIN task' /\ task'[u] \in Rows
               /\ task'[u].basis = task[u].basis /\ task'[u].affects = task[u].affects
               /\ u # t => task'[u].status = task[u].status
               /\ u = t => task'[u].status = "SUCCEEDED"
    <3>1. task[u] \in Rows
      BY RowOf
    <3>2. u \in DOMAIN task' /\ task'[u] = With(t, "SUCCEEDED")[u]
      BY <2>1
    <3>3. CASE u = t
      <4>1. task'[u] = [task[u] EXCEPT !.status = "SUCCEEDED"]
        BY <3>2, <3>3 DEF With
      <4>2. QED
        BY <3>1, <3>2, <3>3, <4>1 DEF Rows, Statuses
    <3>4. CASE u # t
      <4>1. task'[u] = task[u]
        BY <3>2, <3>4 DEF With
      <4>2. QED
        BY <3>1, <3>2, <3>4, <4>1
    <3>5. QED
      BY <3>3, <3>4
  <2>6. \A u \in DOMAIN task' \ DOMAIN task : u \in Successors(t) /\ task'[u] = row
    BY <2>1
  <2>7. Kept(task, task') /\ Grows(canon, canon')
    BY <1>1, <2>5 DEF Kept, Grows, RunInv
  <2>8. Seen(t, task')
    BY <1>1, <2>5 DEF Seen
  <2>9. ASSUME NEW u \in DOMAIN task' \ DOMAIN task
        PROVE  /\ u \in Ids /\ RowFits(u, task'[u].basis, canon', task', policy)
               /\ task'[u] \in Rows /\ task'[u].status # "RECOVERY_PENDING"
    <3>1. u \in Successors(t) /\ task'[u] = row
      BY <2>6
    <3>2. u \in Ids /\ RowFits(u, b, canon, task', policy)
      BY <1>1, <2>8, <3>1, SuccessorFits
    <3>3. QED
      BY <1>1, <2>4, <3>1, <3>2
  <2>10. \A u \in DOMAIN task' :
           task'[u] \in Rows /\ (task'[u].status = "RECOVERY_PENDING" => u.kind = "maintenance")
    <3>1. \A u \in DOMAIN task : task[u].status = "RECOVERY_PENDING" => u.kind = "maintenance"
      BY RowOf
    <3>2. QED
      BY <2>5, <2>9, <3>1
  <2>11. RowsFit(canon', task', policy')
    BY <1>1, <2>7, <2>9, <2>10, RowsFitKept
  <2>12. CommitsFit(canon', task')
    BY <1>1, <2>7 DEF RunInv, CommitsFit, Kept
  <2>13. InflightFits(inflight', canon', task')
    BY <1>1 DEF InflightFits
  <2>14. ThenFits(then', task', policy')
    <3>1. CASE then' = Nothing
      BY <3>1, NothingFits
    <3>2. CASE then' = [op |-> "repair", t |-> t] /\ t.line = "draft"
      <4>1. t = ProjectionOf(t.ch)
        BY <1>1, <3>2, ProjectionIs
      <4>2. then'.op = "repair" /\ then'.t = t
        BY <3>2
      <4>3. Visible(t.ch, task')
        BY <2>8, <4>1 DEF Visible
      <4>4. QED
        BY <2>3, <4>1, <4>2, <4>3 DEF ThenFits
    <3>3. QED
      BY <2>2, <3>1, <3>2
  <2>15. RunnerFits(pc', inflight', then', report', task')
    BY <1>1 DEF RunInv, RunnerFits
  <2>16. RunInv'
    BY <1>1, <2>11, <2>12, <2>13, <2>14, <2>15 DEF RunInv
  <2>17. Projecting
    <3>1. b = Len(canon)
      <4>1. b = Len(canon) \/ (Len(canon) > 0 /\ canon[Len(canon)] = t)
        BY ReturnsAre DEF ProjectionReady
      <4>2. ASSUME Len(canon) > 0 PROVE canon[Len(canon)].kind # "projection"
        <5>1. Len(canon) \in 1 .. Len(canon)
          BY <4>2 DEF RunInv
        <5>2. QED
          BY <5>1, CommitOf
      <4>3. QED
        BY <1>1, <4>1, <4>2
    <3>2. \A rows : Fresh(canon, Len(canon), rows) <=> Seen(t, rows)
      BY <1>1, <3>1, TextAt
    <3>3. ~Seen(t, task)
      BY <1>1 DEF Seen
    <3>4. QED
      BY <1>1, <2>7, <2>8, <3>2, <3>3 DEF Projecting
  <2>18. QED
    BY <2>16, <2>17
<1>4. QED
  BY <1>2, <1>3

-----------------------------------------------------------------------------
(* A commit is made                                                        *)

(* Task t commits on top of its own basis; no projection of it is there    *)
(* that could have succeeded.                                              *)
Committing(t) ==
  /\ canon' = Append(canon, t)
  /\ t \in DOMAIN task /\ task[t].basis = Len(canon)
  /\ t.kind \in {"commit", "maintenance"}
  /\ t.kind = "commit" => ~Seen(Stage(t, "projection"), task')
  /\ t.kind = "maintenance" => task' = task
  /\ policy' = policy /\ report' = report /\ Kept(task, task')

(* Before its commit a task has no projection. *)
LEMMA NoProjectionYet ==
  ASSUME RunInv, NEW t \in DOMAIN task, t.kind = "commit", task[t].basis = Len(canon)
  PROVE  Stage(t, "projection") \notin DOMAIN task
<1> DEFINE x == Stage(t, "projection")
           b == task[x].basis
<1> SUFFICES ASSUME x \in DOMAIN task PROVE FALSE
  OBVIOUS
<1>1. t \in Ids
  BY RowOf
<1>2. x.kind = "projection" /\ Stage(x, "commit") = t
  BY <1>1, StageIs DEF Kinds
<1>3. b \in 1 .. Len(canon) /\ canon[b] = t
  BY <1>2, ProjectionIs
<1>4. task[t].basis = b - 1
  BY <1>3, CommitOf
<1>5. Len(canon) \in Nat
  BY DEF RunInv
<1>6. QED
  BY <1>3, <1>4, <1>5

(* Canon with one more commit *)
LEMMA Appended ==
  ASSUME RunInv, NEW t \in DOMAIN task, canon' = Append(canon, t)
  PROVE  /\ Grows(canon, canon') /\ canon' \in Seq(Ids)
         /\ Len(canon') = Len(canon) + 1 /\ canon'[Len(canon) + 1] = t
         /\ Len(canon) \in Nat
<1>1. t \in Ids /\ canon \in Seq(Ids)
  BY RowOf DEF RunInv
<1>2. QED
  BY <1>1 DEF Grows

(* Each commit still stands on the one before. *)
LEMMA CommitsKept ==
  ASSUME RunInv, NEW t \in DOMAIN task, canon' = Append(canon, t), task[t].basis = Len(canon),
         t.kind \in {"commit", "maintenance"}, Kept(task, task')
  PROVE  CommitsFit(canon', task')
<1>1. /\ Len(canon') = Len(canon) + 1 /\ canon'[Len(canon) + 1] = t /\ Len(canon) \in Nat
      /\ \A i \in 1 .. Len(canon) : canon'[i] = canon[i]
  BY Appended DEF Grows
<1> SUFFICES ASSUME NEW j \in 1 .. Len(canon')
             PROVE  /\ canon'[j] \in DOMAIN task' /\ task'[canon'[j]].basis = j - 1
                    /\ canon'[j].kind \in {"commit", "maintenance"}
  BY DEF CommitsFit
<1>2. CASE j \in 1 .. Len(canon)
  <2>1. /\ canon[j] \in DOMAIN task /\ task[canon[j]].basis = j - 1
        /\ canon[j].kind \in {"commit", "maintenance"}
    BY <1>2, CommitOf
  <2>2. canon'[j] = canon[j]
    BY <1>1, <1>2
  <2>3. QED
    BY <2>1, <2>2 DEF Kept
<1>3. CASE j = Len(canon) + 1
  BY <1>1, <1>3 DEF Kept
<1>4. QED
  BY <1>1, <1>2, <1>3

(* The memory-write workflow commits a draft or maintenance. *)
LEMMA WorkflowInv ==
  ASSUME RunInv, NEW t, WorkflowCommits(t)
  PROVE  RunInv' /\ Committing(t)
<1>1. /\ pc = "await" /\ then = Nothing /\ t \in inflight
      /\ t.kind = "maintenance" \/ (t.kind = "commit" /\ t.line = "draft")
      /\ task[t].basis = Len(canon) /\ canon' = Append(canon, t)
      /\ policy' = policy /\ task' = task /\ pc' = pc /\ inflight' = inflight
      /\ then' = then /\ report' = report
  BY DEF WorkflowCommits, Settlement, Sync, CurrentCommit
<1>2. t \in DOMAIN task /\ \A u \in inflight : u = t
  BY <1>1 DEF RunInv, InflightFits
<1>3. /\ Grows(canon, canon') /\ canon' \in Seq(Ids)
      /\ Len(canon') = Len(canon) + 1 /\ canon'[Len(canon')] = t /\ Len(canon) \in Nat
  BY <1>1, <1>2, Appended
<1>4. Kept(task, task')
  BY <1>1 DEF Kept
<1>5. RowsFit(canon', task', policy')
  <2>1. Same(task, task')
    BY <1>1, InvTyped, NoneSame
  <2>2. QED
    BY <1>1, <1>3, <2>1, SameRevised, RevisedFits
<1>6. CommitsFit(canon', task')
  BY <1>1, <1>2, <1>4, CommitsKept
<1>7. InflightFits(inflight', canon', task')
  BY <1>1, <1>2, <1>3 DEF RunInv, InflightFits
<1>8. ThenFits(then', task', policy') /\ RunnerFits(pc', inflight', then', report', task')
  BY <1>1 DEF RunInv
<1>9. RunInv'
  BY <1>1, <1>3, <1>5, <1>6, <1>7, <1>8 DEF RunInv
<1>10. t.kind = "commit" => ~Seen(Stage(t, "projection"), task')
  BY <1>1, <1>2, NoProjectionYet DEF Seen
<1>11. QED
  BY <1>1, <1>2, <1>4, <1>9, <1>10 DEF Committing

(* commit_accepted_candidate commits a plan. *)
LEMMA PlanCommitInv ==
  ASSUME RunInv, NEW t, Commits(t), t.line # "draft"
  PROVE  RunInv' /\ Committing(t)
<1> DEFINE x == Stage(t, "projection")
           r == With(t, "SUCCEEDED")
           row == Row("READY", Len(canon) + 1, task[t].affects)
<1>1. /\ pc = "await" /\ then = Nothing /\ t \in DOMAIN task /\ t.kind = "commit"
      /\ task[t].basis = Len(canon)
      /\ inflight' = {} /\ policy' = policy /\ pc' = pc /\ report' = report /\ then' = then
      /\ canon' = Append(canon, t)
  BY ReturnsAre DEF Commits
<1>2. /\ Grows(canon, canon') /\ canon' \in Seq(Ids)
      /\ Len(canon') = Len(canon) + 1 /\ canon'[Len(canon) + 1] = t /\ Len(canon) \in Nat
  BY <1>1, Appended
<1>3. /\ t \in Ids /\ task[t].affects \in {"unknown", "yes", "no"}
      /\ RowFits(t, task[t].basis, canon, task, policy)
  BY <1>1, RowOf
<1>4. x \in Ids /\ x.kind = "projection"
  BY <1>3, StageIs DEF Kinds
<1>5. RowFits(x, Len(canon) + 1, canon', task, policy)
  <2>1. Len(canon) + 1 \in 1 .. Len(canon')
    BY <1>2
  <2>2. QED
    BY <1>1, <1>2, <1>3, <2>1, ProjectionFits
<1>6. Same(task, r)
  BY <1>1, InvTyped, WithSame DEF Statuses
<1>7. row \in Rows /\ row.status = "READY" /\ row.basis = Len(canon) + 1
  BY <1>2, <1>3, RowTyped DEF Statuses
<1>8. task' = Insert(r, x, row)
  BY <1>2 DEF Commits
<1>9. x \notin DOMAIN task
  BY <1>1, NoProjectionYet
<1>10. ~Seen(x, task')
  <2>1. DOMAIN r = DOMAIN task
    BY DEF With
  <2> HIDE DEF r, row, x
  <2>2. task'[x] = row
    BY <1>8, <1>9, <2>1 DEF Insert
  <2>3. QED
    BY <1>7, <2>2 DEF Seen
<1>11. Revised
  <2> HIDE DEF r, row, x
  <2>1. QED
    BY <1>4, <1>5, <1>6, <1>7, <1>8, InsertRevised
<1>12. Kept(task, task') /\ RowsFit(canon', task', policy')
  BY <1>1, <1>2, <1>11, RevisedKept, RevisedFits
<1>13. CommitsFit(canon', task')
  BY <1>1, <1>12, CommitsKept
<1>14. InflightFits(inflight', canon', task')
  BY <1>1 DEF InflightFits
<1>15. ThenFits(then', task', policy')
  BY <1>1, NothingFits
<1>16. RunnerFits(pc', inflight', then', report', task')
  BY <1>1 DEF RunInv, RunnerFits
<1>17. RunInv'
  BY <1>1, <1>2, <1>12, <1>13, <1>14, <1>15, <1>16 DEF RunInv
<1>18. QED
  BY <1>1, <1>10, <1>12, <1>17 DEF Committing

-----------------------------------------------------------------------------
(* Every step                                                              *)

(* The invariant holds at first. *)
LEMMA RunInit ==
  ASSUME Init
  PROVE  RunInv
<1>1. /\ policy \in Policies /\ task = <<>> /\ canon = <<>> /\ pc = "idle"
      /\ inflight = {} /\ then = Nothing /\ report = "none"
  BY DEF Init
<1>2. DOMAIN task = {} /\ Len(canon) = 0 /\ canon \in Seq(Ids)
  BY <1>1
<1>3. RowsFit(canon, task, policy) /\ CommitsFit(canon, task)
  BY <1>2 DEF RowsFit, CommitsFit
<1>4. InflightFits(inflight, canon, task)
  BY <1>1 DEF InflightFits
<1>5. ThenFits(then, task, policy)
  BY <1>1, NothingFits
<1>6. RunnerFits(pc, inflight, then, report, task)
  BY <1>1 DEF RunnerFits
<1>7. QED
  BY <1>1, <1>2, <1>3, <1>4, <1>5, <1>6 DEF RunInv

Moves == (Steady /\ Reported) \/ Projecting \/ \E t : Committing(t)

(* It survives every step, and each step is one of three kinds. *)
LEMMA RunStep ==
  ASSUME RunInv, [Next]_vars
  PROVE  RunInv' /\ Moves
<1>1. Still => RunInv' /\ Moves
  BY StillInv DEF Still, RunnerGoesOn, Moves
<1>2. CASE Start
  BY <1>1, <1>2, StartStill
<1>3. CASE Runner
  BY <1>1, <1>3, LoopStill, PollInv, BatchEndsStill, RecoverStill DEF Runner, Moves
<1>4. CASE Handler
  BY <1>1, <1>4, AutoAcceptStill, RevalidateStill, RepairStill, CreatePlanningStill,
     AutoExtendStill DEF Handler
<1>5. CASE Advance
  <2>1. PICK t \in inflight :
          \/ \E a \in {"unknown", "yes", "no"} : CandidateReady(t, a)
          \/ Commits(t) \/ MaintenanceCommitted(t) \/ ProjectionReady(t)
    BY <1>5 DEF Advance
  <2>2. CASE \E a \in {"unknown", "yes", "no"} : CandidateReady(t, a)
    BY <1>1, <2>2, CandidateReadyStill
  <2>3. CASE Commits(t) /\ t.line = "draft"
    BY <1>1, <2>3, RecordStill
  <2>4. CASE Commits(t) /\ t.line # "draft"
    BY <2>4, PlanCommitInv DEF Moves
  <2>5. CASE MaintenanceCommitted(t)
    BY <1>1, <2>5, MaintenanceStill
  <2>6. CASE ProjectionReady(t)
    BY <2>6, ProjectionReadyInv DEF Moves
  <2>7. QED
    BY <2>1, <2>2, <2>3, <2>4, <2>5, <2>6
<1>6. CASE Workflow
  BY <1>6, WorkflowInv DEF Workflow, Moves
<1>7. CASE Upset
  BY <1>1, <1>7, SettledAsStill, RaisesStill, CanonGapStill DEF Upset
<1>8. CASE Kill
  BY <1>1, <1>8, KillStill
<1>9. CASE Operator \/ \E t \in DOMAIN task : HumanDecides(t, FALSE)
  BY <1>1, <1>9, OperatorStill, HumanStill DEF Operator
<1>10. CASE UNCHANGED vars
  <2>1. Still
    BY <1>10, RowsStand, RunnerStays DEF vars, Still, RunInv
  <2>2. QED
    BY <1>1, <2>1
<1>11. QED
  BY <1>2, <1>3, <1>4, <1>5, <1>6, <1>7, <1>8, <1>9, <1>10 DEF Next

(* So it always holds. *)
LEMMA RunAlways == Spec => []RunInv
<1>1. Init => RunInv
  BY RunInit
<1>2. RunInv /\ [Next]_vars => RunInv'
  BY RunStep
<1>3. QED
  BY <1>1, <1>2, PTL DEF Spec

-----------------------------------------------------------------------------
(* Plans made ahead                                                        *)

(* What a revalidated plan rests on, from the invariant: the chapter under *)
(* its basis is the one it was made ahead of.                              *)
LEMMA PromotedAfterChapter ==
  ASSUME RunInv
  PROVE  LookaheadRevalidated
<1> SUFFICES ASSUME NEW i \in 1 .. Len(canon),
                    canon[i].line \in {"look", "promo"}, canon[i].kind = "commit"
             PROVE  /\ canon[i].line = "promo"
                    /\ \E j \in 1 .. i - 1 : canon[j] = Id("draft", canon[i].ch, 0, "commit")
                    /\ task[ProjectionOf(canon[i].ch)].affects = "no"
  BY DEF LookaheadRevalidated
<1> DEFINE u == canon[i]
           b == i - 1
           k == Latest(canon, b, {"draft"})
<1>1. RowFits(u, b, canon, task, policy) /\ u \in Ids
  BY CommitOf
<1>2. u.line = "promo"
  BY <1>1 DEF RowFits
<1>3. Justified(u.ch, canon, task) /\ Written(canon, b) = u.ch
  BY <1>1, <1>2 DEF RowFits, Foregrounds, PlanFits
<1>4. canon \in Seq(Ids) /\ Len(canon) \in Nat /\ b \in Nat /\ b \in 0 .. Len(canon)
  BY DEF RunInv
<1>5. LatestIs(canon, b, {"draft"}, k)
  BY <1>4, LatestOf
<1> HIDE DEF u, b
<1>6. CASE k # 0
  <2>1. k \in 1 .. b /\ k \in 1 .. Len(canon) /\ Made(canon[k], {"draft"}) /\ canon[k].ch = u.ch
    BY <1>3, <1>4, <1>5, <1>6 DEF LatestIs, Written
  <2> HIDE DEF k
  <2>2. RowFits(canon[k], k - 1, canon, task, policy) /\ canon[k] \in Ids
    BY <2>1, CommitOf
  <2>3. canon[k].line = "draft" /\ canon[k].kind = "commit"
    BY <2>1 DEF Made
  <2>4. canon[k].n = 0
    BY <2>2, <2>3 DEF RowFits, ChapterFits
  <2>5. canon[k] = Id("draft", u.ch, 0, "commit")
    BY <2>1, <2>2, <2>3, <2>4 DEF Ids, Id
  <2>6. QED
    BY <1>2, <1>3, <2>1, <2>5 DEF Justified, u, b
<1>7. CASE k = 0
  <2>1. u.ch = 0
    BY <1>3, <1>7 DEF Written
  <2>2. PICK j \in 1 .. Len(canon) : canon[j] = Id("draft", u.ch, 0, "commit")
    BY <1>3 DEF Justified
  <2> DEFINE v == canon[j]
  <2>3. v.line = "draft" /\ v.kind = "commit" /\ v.ch = 0
    BY <2>1, <2>2 DEF Id
  <2>4. RowFits(v, j - 1, canon, task, policy)
    BY CommitOf
  <2> HIDE DEF v
  <2>5. v.ch = Written(canon, j - 1) + 1
    BY <2>3, <2>4 DEF RowFits, ChapterFits
  <2>6. Written(canon, j - 1) \in Nat
    <3>1. j - 1 \in 0 .. Len(canon)
      BY <1>4
    <3>2. QED
      BY <1>4, <3>1, TextTypes
  <2>7. QED
    BY <2>3, <2>5, <2>6
<1>8. QED
  BY <1>6, <1>7

(* A plan made before the chapter it builds on was written reaches Canon   *)
(* only after that chapter and only when the chapter was observed to       *)
(* change nothing the plan depends on, however draft, lookahead,           *)
(* revalidation, kill and recovery fall (_revalidate_lookahead).           *)
THEOREM PlansAheadAreRevalidated == Spec => []LookaheadRevalidated
<1>1. RunInv => LookaheadRevalidated
  BY PromotedAfterChapter
<1>2. QED
  BY <1>1, RunAlways, PTL

-----------------------------------------------------------------------------
(* The basis of a chapter that is being written                            *)

(* What is committed on the basis a draft stands on is that draft. *)
LEMMA OnlyTheDraft ==
  ASSUME RunInv, NEW t, ~AheadOfTheDraft(t), Committing(t), t.line # "draft",
         NEW u \in DOMAIN task, u.line = "draft", task[u].basis = Len(canon)
  PROVE  u.kind = "projection"
<1> SUFFICES ASSUME u.kind # "projection" PROVE FALSE
  OBVIOUS
<1> DEFINE b == Len(canon)
           o == Latest(canon, b, Lines)
<1>1. t \in DOMAIN task /\ task[t].basis = b /\ t.kind \in {"commit", "maintenance"}
  BY DEF Committing
<1>2. RowFits(t, b, canon, task, policy) /\ t.line \in Lines
  BY <1>1, RowOf
<1>3. t.line # "look"
  BY <1>1, <1>2 DEF RowFits, AheadOfTheDraft
<1>4. PlanFits(t, b, canon, task, policy)
  BY <1>1, <1>2, <1>3 DEF RowFits, Foregrounds, Lines
<1>5. RowFits(u, b, canon, task, policy)
  BY RowOf
<1>6. ChapterFits(u, b, canon, task, policy)
  BY <1>5 DEF RowFits
<1>7. b \in Nat
  BY DEF RunInv
<1> HIDE DEF b
<1>8. o # 0 /\ canon[o].line = "draft" /\ t.ch = Written(canon, b)
  BY <1>4, <1>6 DEF PlanFits, ChapterFits
<1>9. ~policy.lookahead /\ canon[o].ch % policy.horizon # 0 /\ t.ch % policy.horizon = 0
  BY <1>4, <1>6, <1>8 DEF PlanFits, ChapterFits
<1>10. canon[o].ch = t.ch
  BY <1>7, <1>8, LatestIsWritten
<1>11. QED
  BY <1>9, <1>10

(* From the moment a chapter's task exists until its own commit nothing is *)
(* committed behind it, but for the maintenance of a lookahead's gap:      *)
(* whichever plan is retried, promoted, replanned, recovered or accepted   *)
(* late, and whichever other maintenance is done, its basis is not the one *)
(* the draft stands on.                                                    *)
THEOREM CanonWaitsForTheDraft == Spec => WriterBasisStable
<1>1. ASSUME RunInv, [Next]_vars, canon' # canon, canon'[Len(canon')].line # "draft",
             ~AheadOfTheDraft(canon'[Len(canon')]),
             NEW u \in DOMAIN task, u.line = "draft", task[u].basis = CurrentCommit
      PROVE  u.kind = "projection"
  <2>1. \E t : Committing(t)
    BY <1>1, RunStep DEF Moves, Steady, Projecting
  <2>2. PICK t : Committing(t)
    BY <2>1
  <2>3. canon'[Len(canon')] = t
    BY <2>2, <1>1, Appended DEF Committing
  <2>4. QED
    BY <1>1, <2>2, <2>3, OnlyTheDraft DEF CurrentCommit
<1>2. RunInv /\ [Next]_vars =>
        [canon' # canon /\ canon'[Len(canon')].line # "draft"
         /\ ~AheadOfTheDraft(canon'[Len(canon')]) =>
           \A t \in DOMAIN task :
             t.line = "draft" /\ ~task[t].superseded /\ task[t].basis = CurrentCommit
             => t.kind = "projection" \/ task[t].status \in {"SUCCEEDED", "CANCELLED"}]_vars
  BY <1>1
<1>3. QED
  BY <1>2, RunAlways, PTL DEF Spec, WriterBasisStable

-----------------------------------------------------------------------------
(* The run implements Manuscript                                           *)

(* A set of places that is not empty has a first one. *)
LEMMA FirstPlace ==
  ASSUME NEW S \in SUBSET Nat, S # {}
  PROVE  \E m \in S : \A i \in S : m <= i
<1> DEFINE R == {p \in Nat \X Nat : p[1] < p[2]}
<1>1. IsWellFoundedOn(R, Nat)
  BY NatLessThanWellFounded DEF OpToRel
<1>2. PICK m \in S : \A i \in S : ~(<<i, m>> \in R)
  <2> HIDE DEF R
  <2>1. QED
    BY <1>1, WFMin
<1>3. \A i \in S : i \in Nat /\ m \in Nat /\ ~(i < m)
  BY <1>2
<1>4. QED
  BY <1>3

(* Once the last chapter of the target is in Canon, no text follows it: a  *)
(* later plan or chapter would have found it written.                      *)
LEMMA TargetIsLast ==
  ASSUME RunInv, NEW b \in 1 .. Len(canon), canon[b] = Id("draft", Target, 0, "commit")
  PROVE  Latest(canon, Len(canon), Lines) = b
<1> DEFINE S == {i \in b + 1 .. Len(canon) : canon[i].kind = "commit"}
<1>1. canon \in Seq(Ids) /\ Len(canon) \in Nat /\ b \in Nat /\ Target \in Nat
  BY CreativeRunAssumption DEF RunInv
<1>2. canon[b].kind = "commit" /\ canon[b].line = "draft" /\ canon[b].ch = Target
  BY DEF Id
<1>3. Made(canon[b], Lines) /\ Made(canon[b], {"draft"})
  BY <1>2 DEF Made, Lines
<1>4. S = {}
  <2> SUFFICES ASSUME S # {} PROVE FALSE
    OBVIOUS
  <2>1. S \in SUBSET Nat
    BY <1>1
  <2>2. PICK j \in S : \A i \in S : j <= i
    <3> HIDE DEF S
    <3>1. QED
      BY <2>1, FirstPlace
  <2>3. j \in 1 .. Len(canon) /\ b <= j - 1 /\ j - 1 \in Nat /\ canon[j].kind = "commit"
    BY <1>1, <2>2
  <2>4. \A i \in b + 1 .. j - 1 : canon[i].kind # "commit"
    <3>1. ASSUME NEW i \in b + 1 .. j - 1 PROVE canon[i].kind # "commit"
      <4>1. i \in b + 1 .. Len(canon) /\ ~(j <= i)
        BY <1>1, <2>3
      <4>2. QED
        BY <2>2, <4>1
    <3>2. QED
      BY <3>1
  <2>5. LatestIs(canon, j - 1, Lines, b)
    BY <1>1, <1>3, <2>3, <2>4 DEF LatestIs, Made
  <2>6. Latest(canon, j - 1, Lines) = b
    BY <2>3, <2>5, LatestOf, LatestUnique
  <2>7. Written(canon, j - 1) = Target
    BY <1>1, <1>2, <2>3, <2>6, LatestIsWritten
  <2>8. RowFits(canon[j], j - 1, canon, task, policy) /\ canon[j].line \in Lines
    BY <2>3, CommitOf DEF Ids
  <2>9. CASE canon[j].line = "draft"
    <3>1. ChapterFits(canon[j], j - 1, canon, task, policy)
      BY <2>3, <2>8, <2>9 DEF RowFits
    <3>2. QED
      BY <1>1, <2>7, <3>1 DEF ChapterFits
  <2>10. CASE canon[j].line # "draft"
    <3>1. canon[j].line \in Foregrounds
      BY <2>3, <2>8, <2>10 DEF RowFits, Foregrounds, Lines
    <3>2. PlanFits(canon[j], j - 1, canon, task, policy)
      BY <2>3, <2>8, <3>1 DEF RowFits
    <3>3. QED
      BY <1>1, <2>7, <3>2 DEF PlanFits
  <2>11. QED
    BY <2>9, <2>10
<1>5. LatestIs(canon, Len(canon), Lines, b)
  BY <1>1, <1>3, <1>4 DEF LatestIs, Made
<1>6. QED
  BY <1>1, <1>5, LatestOf, LatestUnique

(* A target that is visible is written, and the novel with it. *)
LEMMA TargetVisible ==
  ASSUME RunInv, Visible(Target, task)
  PROVE  Written(canon, Len(canon)) = Target /\ Fresh(canon, Len(canon), task)
<1> DEFINE b == task[ProjectionOf(Target)].basis
<1>1. b \in 1 .. Len(canon) /\ canon[b] = Id("draft", Target, 0, "commit")
  BY VisibleIs
<1> HIDE DEF b
<1>2. Latest(canon, Len(canon), Lines) = b
  BY <1>1, TargetIsLast
<1>3. /\ canon[b].line = "draft" /\ canon[b].ch = Target
      /\ Stage(canon[b], "projection") = ProjectionOf(Target)
  BY <1>1 DEF Id, Stage, ProjectionOf
<1>4. Len(canon) \in Nat /\ b # 0
  BY <1>1 DEF RunInv
<1>5. Written(canon, Len(canon)) = Target
  BY <1>2, <1>3, <1>4, LatestIsWritten
<1>6. Fresh(canon, Len(canon), task)
  BY <1>2, <1>3 DEF Fresh, Visible, Seen
<1>7. QED
  BY <1>5, <1>6

(* The text a step that leaves Canon and the projections alone shows *)
LEMMA SteadyText ==
  ASSUME RunInv, Steady
  PROVE  Fresh(canon', Len(canon'), task') <=> Fresh(canon, Len(canon), task)
<1> DEFINE b == Len(canon)
           i == Latest(canon, b, Lines)
           p == Stage(canon[i], "projection")
<1>1. canon' = canon /\ Revised
  BY DEF Steady
<1>2. CASE i = 0
  BY <1>1, <1>2 DEF Fresh
<1>3. CASE i # 0
  <2>1. b \in Nat /\ canon \in Seq(Ids)
    BY DEF RunInv
  <2>2. i \in 1 .. b
    BY <1>3, <2>1, LatestOf DEF LatestIs
  <2>3. canon[i] \in Ids
    BY <2>1, <2>2
  <2>4. p.kind = "projection"
    BY <2>3, StageIs DEF Kinds
  <2> HIDE DEF p
  <2>5. Seen(p, task') <=> Seen(p, task)
    BY <1>1, <2>4 DEF Revised, Seen
  <2>6. QED
    BY <1>1, <1>3, <2>5 DEF Fresh, Seen, p
<1>4. QED
  BY <1>2, <1>3

(* The text after a commit *)
LEMMA CommitText ==
  ASSUME RunInv, NEW t, Committing(t)
  PROVE  LET b == Len(canon)
             h == HorizonOf(t.line, policy)
         IN /\ t.kind = "maintenance" =>
                 /\ Written(canon', Len(canon')) = Written(canon, b)
                 /\ Covered(canon', Len(canon'), policy) = Covered(canon, b, policy)
                 /\ Fresh(canon', Len(canon'), task) <=> Fresh(canon, b, task)
            /\ t.kind = "commit" =>
                 Fresh(canon, b, task) /\ ~Fresh(canon', Len(canon'), task')
            /\ t.kind = "commit" /\ t.line = "draft" =>
                 /\ Written(canon, b) < Target /\ Written(canon, b) < Covered(canon, b, policy)
                 /\ Written(canon', Len(canon')) = Written(canon, b) + 1
                 /\ Covered(canon', Len(canon'), policy) = Covered(canon, b, policy)
            /\ t.kind = "commit" /\ t.line # "draft" =>
                 /\ Written(canon, b) < Target
                 /\ Written(canon', Len(canon')) = Written(canon, b)
                 /\ Covered(canon', Len(canon'), policy) = Written(canon, b) + h
<1> DEFINE b == Len(canon)
           e == b + 1
           h == HorizonOf(t.line, policy)
           d == canon'
<1>1. /\ t \in DOMAIN task /\ task[t].basis = b /\ t.kind \in {"commit", "maintenance"}
      /\ t.kind = "commit" => ~Seen(Stage(t, "projection"), task')
  BY DEF Committing
<1>2. /\ Grows(canon, d) /\ d \in Seq(Ids) /\ Len(d) = e /\ d[e] = t /\ b \in Nat
      /\ canon \in Seq(Ids) /\ policy \in Policies /\ Target \in Nat
  BY <1>1, Appended, CreativeRunAssumption DEF Committing, RunInv
<1>3. RowFits(t, b, canon, task, policy) /\ t.line \in Lines
  BY <1>1, RowOf
<1>4. e \in 1 .. Len(d) /\ e - 1 = b /\ b \in 0 .. Len(canon)
  BY <1>2
<1>5. Written(canon, b) \in Nat /\ Covered(canon, b, policy) \in Nat
  BY <1>2, <1>4, TextTypes
<1> HIDE DEF b, e, h, d
<1>6. /\ Written(d, b) = Written(canon, b) /\ Covered(d, b, policy) = Covered(canon, b, policy)
      /\ Fresh(d, b, task) <=> Fresh(canon, b, task)
  <2>1. \A i \in 1 .. b : d[i] = canon[i]
    BY <1>2 DEF Grows, b
  <2>2. b \in Nat
    BY <1>2
  <2>3. /\ Written(d, b) = Written(canon, b)
        /\ \A pol : Covered(d, b, pol) = Covered(canon, b, pol)
        /\ \A rows : Fresh(d, b, rows) <=> Fresh(canon, b, rows)
    BY <2>1, <2>2, TextSame
  <2>4. QED
    BY <2>3
<1>7. CASE t.kind = "maintenance"
  <2>1. /\ Written(d, e) = Written(d, b) /\ Covered(d, e, policy) = Covered(d, b, policy)
        /\ Fresh(d, e, task) <=> Fresh(d, b, task)
    BY <1>2, <1>4, <1>7, TextNext
  <2>2. QED
    BY <1>2, <1>6, <1>7, <2>1 DEF b, d, h
<1>8. CASE t.kind = "commit" /\ t.line = "draft"
  <2>1. Made(t, {"draft"})
    BY <1>8 DEF Made
  <2>2. /\ Written(d, e) = t.ch /\ Covered(d, e, policy) = Covered(d, b, policy)
        /\ Fresh(d, e, task') <=> Seen(Stage(t, "projection"), task')
    BY <1>2, <1>4, <1>8, <2>1, TextNext
  <2>3. ChapterFits(t, b, canon, task, policy)
    BY <1>3, <1>8 DEF RowFits
  <2>4. /\ Fresh(canon, b, task) /\ t.ch = Written(canon, b) + 1 /\ t.ch <= Target
        /\ t.ch <= Covered(canon, b, policy)
    BY <2>3 DEF ChapterFits, h
  <2>5. Written(canon, b) < Target /\ Written(canon, b) < Covered(canon, b, policy)
    BY <1>2, <1>5, <2>4
  <2>6. QED
    BY <1>1, <1>2, <1>6, <1>8, <2>2, <2>4, <2>5 DEF b, d, h
<1>9. CASE t.kind = "commit" /\ t.line # "draft"
  <2>1. t.line \in Foregrounds
    BY <1>3, <1>9 DEF RowFits, Foregrounds, Lines
  <2>2. Made(t, Planning)
    BY <1>3, <1>9 DEF Made, Planning
  <2>3. /\ Written(d, e) = Written(d, b) /\ Covered(d, e, policy) = t.ch + h
        /\ Fresh(d, e, task') <=> Seen(Stage(t, "projection"), task')
    BY <1>2, <1>4, <1>9, <2>2, TextNext DEF h
  <2>4. PlanFits(t, b, canon, task, policy)
    BY <1>3, <1>9, <2>1 DEF RowFits
  <2>5. Fresh(canon, b, task) /\ t.ch = Written(canon, b) /\ t.ch < Target
    BY <2>4 DEF PlanFits
  <2>6. QED
    BY <1>1, <1>2, <1>6, <1>9, <2>3, <2>5 DEF b, d, h
<1>10. QED
  BY <1>1, <1>7, <1>8, <1>9

(* Each step of the run is a step of the novel, or none. *)
LEMMA NovelStep ==
  ASSUME RunInv, [Next]_vars
  PROVE  [Novel!Next]_(Novel!vars)
<1> DEFINE h == {policy.horizon, policy.ahead}
           w == Written(canon, CurrentCommit)
           v == Covered(canon, CurrentCommit, policy)
           f == Fresh(canon, CurrentCommit, task)
           r == report = "completed"
<1>1. f \in BOOLEAN /\ f' \in BOOLEAN /\ r \in BOOLEAN /\ r' \in BOOLEAN
  BY DEF Fresh
<1>2. Novel!vars = <<h, w, v, f, r>>
  BY DEF Novel!vars
<1>3. CASE h' = h /\ w' = w /\ v' = v /\ f' = f /\ r' = r
  BY <1>3 DEF Novel!vars
<1>4. CASE Steady /\ Reported
  <2>1. h' = h /\ w' = w /\ v' = v
    BY <1>4 DEF Steady, CurrentCommit
  <2>2. f' <=> f
    BY <1>4, SteadyText DEF CurrentCommit
  <2>3. f' = f
    BY <1>1, <2>2
  <2>4. CASE r' = r
    BY <1>3, <2>1, <2>3, <2>4
  <2>5. CASE r' # r
    <3>1. r' = TRUE /\ Visible(Target, task)
      BY <1>4, <2>5 DEF Reported
    <3>2. w = Target /\ f
      BY <3>1, TargetVisible DEF CurrentCommit
    <3>3. Novel!Complete
      BY <2>1, <2>3, <3>1, <3>2 DEF Novel!Complete
    <3>4. QED
      BY <3>3 DEF Novel!Next
  <2>6. QED
    BY <2>4, <2>5
<1>5. CASE Projecting
  <2>1. h' = h /\ w' = w /\ v' = v /\ r' = r
    BY <1>5 DEF Projecting, CurrentCommit
  <2>2. ~f /\ f'
    BY <1>5 DEF Projecting, CurrentCommit
  <2>3. f' = TRUE
    BY <1>1, <2>2
  <2>4. Novel!Project
    BY <2>1, <2>2, <2>3 DEF Novel!Project
  <2>5. QED
    BY <2>4 DEF Novel!Next
<1>6. CASE \E t : Committing(t)
  <2>1. PICK t : Committing(t)
    BY <1>6
  <2>2. h' = h /\ r' = r /\ t.kind \in {"commit", "maintenance"}
    BY <2>1 DEF Committing
  <2>3. CASE t.kind = "maintenance"
    <3>1. w' = w /\ v' = v /\ (f' <=> f)
      BY <2>1, <2>2, <2>3, CommitText DEF Committing, CurrentCommit
    <3>2. f' = f
      BY <1>1, <3>1
    <3>3. QED
      BY <1>3, <2>2, <3>1, <3>2
  <2>4. CASE t.kind = "commit" /\ t.line = "draft"
    <3>1. f /\ ~f' /\ w < Target /\ w < v /\ w' = w + 1 /\ v' = v
      BY <2>1, <2>2, <2>4, CommitText DEF CurrentCommit, Committing
    <3>2. f' = FALSE
      BY <1>1, <3>1
    <3>3. Novel!CommitChapter
      BY <2>2, <3>1, <3>2 DEF Novel!CommitChapter
    <3>4. QED
      BY <3>3 DEF Novel!Next
  <2>5. CASE t.kind = "commit" /\ t.line # "draft"
    <3>1. f /\ ~f' /\ w < Target /\ w' = w /\ v' = w + HorizonOf(t.line, policy)
      BY <2>1, <2>2, <2>5, CommitText DEF CurrentCommit, Committing
    <3>2. f' = FALSE
      BY <1>1, <3>1
    <3>3. HorizonOf(t.line, policy) \in h
      BY DEF HorizonOf
    <3>4. Novel!CommitPlan
      BY <2>2, <3>1, <3>2, <3>3 DEF Novel!CommitPlan
    <3>5. QED
      BY <3>4 DEF Novel!Next
  <2>6. QED
    BY <2>2, <2>3, <2>4, <2>5
<1>7. QED
  BY <1>4, <1>5, <1>6, RunStep DEF Moves

(* A run that has not started is an empty novel. *)
LEMMA NovelInit ==
  ASSUME Init
  PROVE  Novel!Init
<1>1. policy \in Policies /\ canon = <<>> /\ report = "none"
  BY DEF Init
<1>2. CurrentCommit = 0
  BY <1>1 DEF CurrentCommit
<1>3. \A lines : Latest(canon, 0, lines) = 0
  BY LatestNone
<1>4. /\ Written(canon, 0) = 0 /\ Covered(canon, 0, policy) = 0
      /\ Fresh(canon, 0, task) = TRUE
  BY <1>3 DEF Written, Covered, Fresh
<1>5. /\ {policy.horizon, policy.ahead} \subseteq Nat \ {0}
      /\ {policy.horizon, policy.ahead} # {} /\ (report = "completed") = FALSE
  BY <1>1, CreativeRunAssumption
<1>6. QED
  BY <1>2, <1>4, <1>5 DEF Novel!Init

(* Whatever was lost, retried, repaired, promoted or planned twice on the  *)
(* way, the run implements Manuscript, under every policy, for any target  *)
(* and any number of troubles and kills (the fixed topology of advance).   *)
THEOREM TheRunWritesTheNovel == Spec => ImplementsManuscript
<1>1. Init => Novel!Init
  BY NovelInit
<1>2. RunInv /\ [Next]_vars => [Novel!Next]_(Novel!vars)
  BY NovelStep
<1>3. QED
  BY <1>1, <1>2, RunAlways, PTL DEF Spec, ImplementsManuscript, Novel!Spec

-----------------------------------------------------------------------------
(* What a run waits for                                                    *)

(* The order of the foreground: chapter by chapter the draft, then the     *)
(* plan that follows it; a retry after maintenance comes after what it     *)
(* repeats, and stage follows stage.                                       *)
Pos(t) == IF t.line = "draft" THEN 2 * t.ch ELSE 2 * t.ch + 1

Rung(kind) == IF kind = "candidate" THEN 1 ELSE
              IF kind = "acceptance" THEN 2 ELSE
              IF kind = "commit" THEN 3 ELSE 4

Place(t) == 8 * Pos(t) + 4 * t.n + Rung(t.kind)

Followed(x, rows) == \E y \in DOMAIN rows : ~Background(y) /\ Place(x) < Place(y)

(* After the last chapter nothing follows, and with lookahead the repair   *)
(* of the projection decides what does.                                    *)
Paused(x, pol) ==
  x.kind = "projection" /\ x.line = "draft" /\ (x.ch = Target \/ pol.lookahead)

Closed == {"SUCCEEDED", "CANCELLED"}

(* A lookahead that may still bring a candidate *)
Open(u, rows) == u.line = "look" /\ u.kind = "candidate" /\ rows[u].status \notin Closed

(* No foreground row is past the chapter of an open lookahead. *)
NotPast(x, u) == Pos(x) <= 2 * u.ch

PlannerWaits(x, rows) ==
  LET planner == Stage(x, "candidate")
  IN planner \in DOMAIN rows /\ rows[planner].status = "BLOCKED" /\ ~rows[planner].superseded

(* A row between its predecessor and what follows it *)
RowWaits(x, c, rows, pol) ==
  /\ rows[x].superseded => rows[x].status = "CANCELLED"
  /\ x.kind = "candidate" => x.line # "promo"
  /\ x.kind = "acceptance" =>
       /\ rows[x].status \in {"WAITING_INPUT", "SUCCEEDED", "CANCELLED"}
       /\ x.line = "promo" \/ Seen(Stage(x, "candidate"), rows)
  /\ x.kind = "commit" => Seen(Stage(x, "acceptance"), rows)
  /\ x.kind = "projection" => Seen(Stage(x, "commit"), rows)
  /\ x.kind = "maintenance" =>
       x.n = 0 /\ (rows[x].status = "SUCCEEDED" \/ PlannerWaits(x, rows))
  /\ x.line = "look" =>
       /\ x.n = 0 /\ Id("draft", x.ch, 0, "candidate") \in DOMAIN rows
       /\ Written(c, rows[x].basis) < x.ch
  /\ ~Background(x) =>
       /\ rows[x].superseded => Followed(x, rows)
       /\ rows[x].status = "SUCCEEDED" => Followed(x, rows) \/ Paused(x, pol)
       /\ \A u \in DOMAIN rows : Open(u, rows) => NotPast(x, u)

RowsWait(c, rows, pol) == \A x \in DOMAIN rows : RowWaits(x, c, rows, pol)

(* Some foreground row is not done. *)
Held(rows) ==
  \E x \in DOMAIN rows :
    ~Background(x) /\ ~rows[x].superseded /\ rows[x].status # "SUCCEEDED"

(* What the rest of a handler relies on *)
ThenWaits ==
  /\ then.op = "accept" =>
       /\ then.t \in DOMAIN task /\ then.t.line # "look"
       /\ Automatic(then.t) => task[then.t].status = "WAITING_INPUT"
  /\ then.op = "extend" =>
       /\ then.t \in DOMAIN task
       /\ Extendable(then.t) => task[then.t].status = "BUDGET_REVIEW"
  /\ then.op = "repair" => Written(canon, Len(canon)) = then.t.ch
  /\ then.op \in {"promote", "replan", "rolling"} =>
       /\ \A u \in DOMAIN task : Open(u, task) => then.t.ch < u.ch
       /\ pc = "await" => Written(canon, Len(canon)) = then.t.ch

(* A slice without results has foreground work left. *)
RunnerWaits ==
  /\ slice \in [got : BOOLEAN, round : BOOLEAN, error : BOOLEAN]
  /\ \A t \in inflight : task[t].status = "RUNNING"
  /\ pc # "idle" => Id("plan", 0, 0, "candidate") \in DOMAIN task
  /\ pc \in {"poll", "await"} /\ then = Nothing /\ ~slice.got => Held(task)

WaitInv == RowsWait(canon, task, policy) /\ ThenWaits /\ RunnerWaits

(* As long as no lookahead has met a gap *)
NoLookaheadGap == \A t \in DOMAIN task : ~AheadOfTheDraft(t)

-----------------------------------------------------------------------------
(* Chapters in Canon                                                       *)

(* The last chapter written never goes back. *)
LEMMA WrittenStep ==
  ASSUME RunInv, NEW b \in 1 .. Len(canon)
  PROVE  /\ Written(canon, b - 1) \in Nat /\ Written(canon, b) \in Nat
         /\ Written(canon, b - 1) <= Written(canon, b)
<1>1. canon \in Seq(Ids) /\ b \in 0 .. Len(canon) /\ b - 1 \in 0 .. Len(canon) /\ 0 \in Nat
  BY DEF RunInv
<1>2. Written(canon, b - 1) \in Nat /\ Written(canon, b) \in Nat
  BY <1>1, TextTypes
<1>3. RowFits(canon[b], b - 1, canon, task, policy) /\ canon[b] \in Ids
  BY CommitOf
<1>4. CASE Made(canon[b], {"draft"})
  <2>1. ChapterFits(canon[b], b - 1, canon, task, policy)
    BY <1>3, <1>4 DEF RowFits, Made
  <2>2. Written(canon, b) = canon[b].ch
    BY <1>1, <1>4, TextNext
  <2>3. QED
    BY <1>2, <2>1, <2>2 DEF ChapterFits
<1>5. CASE ~Made(canon[b], {"draft"})
  <2>1. Made(canon[b], Planning) \/ canon[b].kind # "commit"
    BY <1>3, <1>5 DEF Made, Planning, Ids
  <2>2. Written(canon, b) = Written(canon, b - 1)
    BY <1>1, <2>1, TextNext
  <2>3. QED
    BY <1>2, <2>2
<1>6. QED
  BY <1>4, <1>5

(* So it is never more than what has been written by now: at the first     *)
(* place after b where it were less it would have gone back.               *)
LEMMA WrittenGrows ==
  ASSUME RunInv, NEW b \in 0 .. Len(canon)
  PROVE  /\ Written(canon, b) \in Nat /\ Written(canon, Len(canon)) \in Nat
         /\ Written(canon, b) <= Written(canon, Len(canon))
<1> DEFINE S == {i \in b .. Len(canon) : ~(Written(canon, b) <= Written(canon, i))}
<1>1. canon \in Seq(Ids) /\ Len(canon) \in Nat /\ b \in Nat /\ Len(canon) \in 0 .. Len(canon)
      /\ 0 \in Nat
  BY DEF RunInv
<1>2. \A i \in 0 .. Len(canon) : Written(canon, i) \in Nat
  BY <1>1, TextTypes
<1>3. S = {}
  <2> SUFFICES ASSUME S # {} PROVE FALSE
    OBVIOUS
  <2>1. S \in SUBSET Nat
    BY <1>1
  <2>2. PICK j \in S : \A i \in S : j <= i
    <3> HIDE DEF S
    <3>1. QED
      BY <2>1, FirstPlace
  <2>3. j \in b .. Len(canon) /\ ~(Written(canon, b) <= Written(canon, j))
    BY <2>2
  <2>4. j # b
    BY <1>2, <2>3
  <2>5. j \in 1 .. Len(canon) /\ j - 1 \in b .. Len(canon) /\ j - 1 \in 0 .. Len(canon) /\ ~(j <= j - 1)
    BY <1>1, <2>3, <2>4
  <2>6. Written(canon, b) <= Written(canon, j - 1)
    BY <2>2, <2>5
  <2>7. Written(canon, j - 1) <= Written(canon, j) /\ Written(canon, j - 1) \in Nat /\ Written(canon, j) \in Nat
    BY <2>5, WrittenStep
  <2>8. Written(canon, b) \in Nat
    BY <1>2
  <2>9. QED
    BY <2>3, <2>6, <2>7, <2>8
<1>4. Written(canon, b) <= Written(canon, Len(canon))
  BY <1>1, <1>3
<1>5. QED
  BY <1>1, <1>2, <1>4

(* Where the foreground can be *)
LEMMA PlaceIs ==
  ASSUME NEW t \in Ids
  PROVE  /\ Pos(t) \in Nat /\ Place(t) \in Nat /\ Pos(t) <= 2 * Target + 1
         /\ 8 * Pos(t) < Place(t) /\ Place(t) <= 8 * Pos(t) + 8
         /\ t.n = 0 => Place(t) <= 8 * Pos(t) + 4
<1>1. t.ch \in 0 .. Target /\ t.n \in 0 .. 1 /\ Target \in Nat
  BY CreativeRunAssumption DEF Ids
<1>2. Pos(t) \in Nat /\ Pos(t) <= 2 * Target + 1
  BY <1>1 DEF Pos
<1>3. Rung(t.kind) \in 1 .. 4
  BY DEF Rung
<1>4. QED
  BY <1>1, <1>2, <1>3 DEF Place

(* Foreground rows are at most one chapter ahead of Canon. *)
LEMMA PosBound ==
  ASSUME RunInv, NEW x \in DOMAIN task, ~Background(x)
  PROVE  Pos(x) <= 2 * Written(canon, Len(canon)) + 2
<1> DEFINE b == task[x].basis
<1>1. /\ x \in Ids /\ x.line \in Lines \ {"look"} /\ b \in Nat /\ b <= Len(canon)
      /\ RowFits(x, b, canon, task, policy) /\ x.ch \in 0 .. Target
  BY RowOf DEF Background
<1>2. Len(canon) \in Nat /\ Target \in Nat
  BY CreativeRunAssumption DEF RunInv
<1>3. b \in 0 .. Len(canon)
  BY <1>1, <1>2
<1> HIDE DEF b
<1>4. /\ Written(canon, b) \in Nat /\ Written(canon, Len(canon)) \in Nat
      /\ Written(canon, b) <= Written(canon, Len(canon))
  BY <1>3, WrittenGrows
<1>5. CASE x.kind = "projection"
  <2>1. Written(canon, b) = x.ch
    BY <1>5, TextAt DEF b
  <2>2. QED
    BY <1>1, <1>4, <2>1 DEF Pos
<1>6. CASE x.kind # "projection" /\ x.line = "draft"
  <2>1. x.ch = Written(canon, b) + 1
    BY <1>1, <1>6 DEF RowFits, ChapterFits
  <2>2. QED
    BY <1>1, <1>4, <1>6, <2>1 DEF Pos
<1>7. CASE x.kind # "projection" /\ x.line # "draft"
  <2>1. x.line \in Foregrounds
    BY <1>1, <1>7 DEF Lines, Foregrounds
  <2>2. x.ch = Written(canon, b)
    BY <1>1, <1>7, <2>1 DEF RowFits, PlanFits
  <2>3. QED
    BY <1>1, <1>4, <1>7, <2>2 DEF Pos
<1>8. QED
  BY <1>5, <1>6, <1>7

(* When no foreground work is left, the last of it is a chapter after      *)
(* which the run has to be repaired, or the target.                        *)
LEMMA Stuck ==
  ASSUME RunInv, WaitInv, pc # "idle", ~Held(task)
  PROVE  \E m \in DOMAIN task :
           /\ m.kind = "projection" /\ m.line = "draft" /\ task[m].status = "SUCCEEDED"
           /\ ~task[m].superseded /\ m = ProjectionOf(m.ch)
           /\ m.ch = Target \/ policy.lookahead
           /\ \A y \in DOMAIN task : ~Background(y) => Place(y) <= Place(m)
<1> DEFINE F == {x \in DOMAIN task : ~Background(x)}
           S == {Place(x) : x \in F}
           N == 8 * (2 * Target + 1) + 8
<1>1. \A x \in DOMAIN task : x \in Ids
  BY RowOf
<1>2. N \in Nat
  BY CreativeRunAssumption
<1>3. ASSUME NEW x \in F PROVE Place(x) \in 1 .. N
  BY <1>1, PlaceIs, CreativeRunAssumption
<1>4. Id("plan", 0, 0, "candidate") \in F
  BY DEF WaitInv, RunnerWaits, Background, Id
<1>5. S \in SUBSET (1 .. N) /\ S # {}
  BY <1>3, <1>4
<1> HIDE DEF N
<1>6. PICK k \in S : \A i \in S : i <= k
  <2> HIDE DEF S
  <2>1. QED
    BY <1>2, <1>5, LastPlace
<1>7. PICK m \in F : k = Place(m)
  BY <1>6
<1>8. ASSUME NEW y \in DOMAIN task, ~Background(y) PROVE Place(y) <= Place(m)
  BY <1>6, <1>7, <1>8
<1>9. m \in DOMAIN task /\ ~Background(m) /\ m \in Ids
  BY <1>1, <1>7
<1>10. ~Followed(m, task)
  <2> SUFFICES ASSUME NEW y \in DOMAIN task, ~Background(y), Place(m) < Place(y) PROVE FALSE
    BY DEF Followed
  <2>1. Place(y) <= Place(m) /\ Place(y) \in Nat /\ Place(m) \in Nat
    BY <1>1, <1>8, <1>9, PlaceIs
  <2>2. QED
    BY <2>1
<1>11. RowWaits(m, canon, task, policy)
  BY <1>9 DEF WaitInv, RowsWait
<1>12. ~task[m].superseded /\ task[m].status = "SUCCEEDED"
  BY <1>9, <1>10, <1>11 DEF RowWaits, Held
<1>13. Paused(m, policy)
  BY <1>9, <1>10, <1>11, <1>12 DEF RowWaits
<1>14. m = ProjectionOf(m.ch)
  BY <1>9, <1>13, ProjectionIs DEF Paused
<1>15. QED
  BY <1>8, <1>9, <1>12, <1>13, <1>14 DEF Paused

-----------------------------------------------------------------------------
(* What a step does to rows that wait                                      *)

(* A row stays as it is; or it was not closed and is opened again, is done *)
(* with something after it, or is superseded with something after it.  A   *)
(* Planner that met a gap goes on only when its maintenance is done.       *)
Turned(x, rows, new, pol) ==
  /\ x \in DOMAIN new /\ new[x].basis = rows[x].basis
  /\ \/ new[x].status = rows[x].status /\ new[x].superseded = rows[x].superseded
     \/ /\ rows[x].status \notin Closed
        /\ rows[x].status = "BLOCKED" /\ x.kind = "candidate" =>
             \/ Stage(x, "maintenance") \notin DOMAIN rows
             \/ Seen(Stage(x, "maintenance"), new)
        /\ \/ /\ new[x].status # "SUCCEEDED" /\ new[x].superseded = rows[x].superseded
              /\ x.kind = "acceptance" => new[x].status = "CANCELLED"
           \/ /\ new[x].status = "SUCCEEDED" /\ new[x].superseded = rows[x].superseded
              /\ Background(x) \/ Followed(x, new) \/ Paused(x, pol)
           \/ /\ new[x].status = "CANCELLED"
              /\ Background(x) \/ Followed(x, new)

(* A row that is created *)
Born(y, c, new) ==
  /\ ~new[y].superseded
  /\ new[y].status = IF y.kind = "acceptance" THEN "WAITING_INPUT" ELSE "READY"
  /\ y.kind = "candidate" => y.line # "promo"
  /\ y.kind = "acceptance" => y.line = "promo" \/ Seen(Stage(y, "candidate"), new)
  /\ y.kind = "commit" => Seen(Stage(y, "acceptance"), new)
  /\ y.kind = "projection" => Seen(Stage(y, "commit"), new)
  /\ y.kind = "maintenance" => y.n = 0 /\ PlannerWaits(y, new)
  /\ y.line = "look" =>
       /\ y.n = 0 /\ Id("draft", y.ch, 0, "candidate") \in DOMAIN new
       /\ Written(c, new[y].basis) < y.ch
       /\ y.kind = "candidate" => \A x \in DOMAIN new : ~Background(x) => NotPast(x, y)
  /\ ~Background(y) => \A u \in DOMAIN new : Open(u, new) => NotPast(y, u)

Turn ==
  /\ \A x \in DOMAIN task : Turned(x, task, task', policy)
  /\ \A y \in DOMAIN task' \ DOMAIN task : Born(y, canon', task')

(* What was done stays done, what was closed stays closed, and what is     *)
(* followed stays followed.                                                *)
LEMMA TurnedStays ==
  ASSUME Turn, NEW x
  PROVE  /\ Seen(x, task) => Seen(x, task')
         /\ x \in DOMAIN task /\ Open(x, task') => Open(x, task)
         /\ Followed(x, task) => Followed(x, task')
<1>1. ASSUME NEW y \in DOMAIN task PROVE Turned(y, task, task', policy)
  BY DEF Turn
<1>2. \A y \in DOMAIN task : y \in DOMAIN task'
  BY <1>1 DEF Turned
<1>3. Seen(x, task) => Seen(x, task')
  BY <1>1 DEF Seen, Turned, Closed
<1>4. x \in DOMAIN task /\ Open(x, task') => Open(x, task)
  BY <1>1 DEF Open, Turned
<1>5. Followed(x, task) => Followed(x, task')
  BY <1>2 DEF Followed
<1>6. QED
  BY <1>3, <1>4, <1>5

(* After such a step the rows wait as before. *)
LEMMA TurnWaits ==
  ASSUME RunInv, RowsWait(canon, task, policy), Grows(canon, canon'), policy' = policy, Turn
  PROVE  RowsWait(canon', task', policy')
<1> SUFFICES ASSUME NEW x \in DOMAIN task' PROVE RowWaits(x, canon', task', policy)
  BY DEF RowsWait
<1>1. CASE x \notin DOMAIN task
  <2>1. Born(x, canon', task')
    BY <1>1 DEF Turn
  <2>2. QED
    BY <2>1 DEF Born, RowWaits
<1>2. CASE x \in DOMAIN task
  <2>1. RowWaits(x, canon, task, policy) /\ Turned(x, task, task', policy)
    BY <1>2 DEF RowsWait, Turn
  <2>2. x \in Ids /\ task[x].basis \in Nat /\ task[x].basis <= Len(canon)
    BY <1>2, RowOf
  <2>3. task'[x].superseded => task'[x].status = "CANCELLED"
    BY <2>1 DEF RowWaits, Turned, Closed
  <2>4. ASSUME x.kind = "acceptance"
        PROVE  /\ task'[x].status \in {"WAITING_INPUT", "SUCCEEDED", "CANCELLED"}
               /\ x.line = "promo" \/ Seen(Stage(x, "candidate"), task')
    <3>1. task'[x].status \in {"WAITING_INPUT", "SUCCEEDED", "CANCELLED"}
      BY <2>1, <2>4 DEF RowWaits, Turned
    <3>2. x.line = "promo" \/ Seen(Stage(x, "candidate"), task)
      BY <2>1, <2>4 DEF RowWaits
    <3>3. QED
      BY <3>1, <3>2, TurnedStays
  <2>5. /\ x.kind = "commit" => Seen(Stage(x, "acceptance"), task')
        /\ x.kind = "projection" => Seen(Stage(x, "commit"), task')
    BY <2>1, TurnedStays DEF RowWaits
  <2>6. ASSUME x.kind = "maintenance", task'[x].status # "SUCCEEDED" PROVE PlannerWaits(x, task')
    <3> DEFINE y == Stage(x, "candidate")
    <3>1. task[x].status # "SUCCEEDED"
      BY <1>2, <2>6, TurnedStays DEF Seen
    <3>2. y \in DOMAIN task /\ task[y].status = "BLOCKED" /\ ~task[y].superseded
      BY <2>1, <2>6, <3>1 DEF RowWaits, PlannerWaits
    <3>3. y.kind = "candidate" /\ Stage(y, "maintenance") = x
      BY <2>2, <2>6, StageIs DEF Kinds
    <3>4. Turned(y, task, task', policy)
      BY <3>2 DEF Turn
    <3>5. ~Seen(x, task')
      BY <2>6 DEF Seen
    <3> HIDE DEF y
    <3>6. y \in DOMAIN task' /\ task'[y].status = "BLOCKED" /\ ~task'[y].superseded
      BY <1>2, <3>2, <3>3, <3>4, <3>5 DEF Turned
    <3>7. QED
      BY <3>6 DEF y, PlannerWaits
  <2>7. ASSUME x.line = "look"
        PROVE  /\ x.n = 0 /\ Id("draft", x.ch, 0, "candidate") \in DOMAIN task'
               /\ Written(canon', task'[x].basis) < x.ch
    <3>1. /\ x.n = 0 /\ Id("draft", x.ch, 0, "candidate") \in DOMAIN task
          /\ Written(canon, task[x].basis) < x.ch
      BY <2>1, <2>7 DEF RowWaits
    <3>2. Id("draft", x.ch, 0, "candidate") \in DOMAIN task'
      BY <3>1 DEF Turn, Turned
    <3>3. task'[x].basis = task[x].basis
      BY <2>1 DEF Turned
    <3>4. \A i \in 1 .. task[x].basis : canon'[i] = canon[i]
      BY <2>2 DEF Grows
    <3>5. Written(canon', task[x].basis) = Written(canon, task[x].basis)
      BY <2>2, <3>4, TextSame
    <3>6. QED
      BY <3>1, <3>2, <3>3, <3>5
  <2>8. ASSUME ~Background(x)
        PROVE  /\ task'[x].superseded => Followed(x, task')
               /\ task'[x].status = "SUCCEEDED" => Followed(x, task') \/ Paused(x, policy)
    <3>1. /\ task[x].superseded => task[x].status = "CANCELLED" /\ Followed(x, task')
          /\ task[x].status = "SUCCEEDED" => Followed(x, task') \/ Paused(x, policy)
      BY <2>1, <2>8, TurnedStays DEF RowWaits
    <3>2. QED
      BY <2>1, <2>8, <3>1 DEF Turned, Closed
  <2>9. ASSUME ~Background(x), NEW u \in DOMAIN task', Open(u, task') PROVE NotPast(x, u)
    <3>1. CASE u \in DOMAIN task
      <4>1. Open(u, task)
        BY <2>9, <3>1, TurnedStays
      <4>2. QED
        BY <2>1, <2>9, <3>1, <4>1 DEF RowWaits
    <3>2. CASE u \notin DOMAIN task
      <4>1. Born(u, canon', task')
        BY <3>2 DEF Turn
      <4>2. QED
        BY <2>9, <4>1 DEF Born, Open
    <3>3. QED
      BY <3>1, <3>2
  <2>10. x.kind = "candidate" => x.line # "promo"
    BY <2>1 DEF RowWaits
  <2>11. x.kind = "maintenance" => x.n = 0
    BY <2>1 DEF RowWaits
  <2>12. QED
    BY <2>3, <2>4, <2>5, <2>6, <2>7, <2>8, <2>9, <2>10, <2>11 DEF RowWaits
<1>3. QED
  BY <1>1, <1>2

(* A new status of one row, as With writes it *)
LEMMA WithIs ==
  ASSUME RunInv, NEW t \in DOMAIN task, NEW s
  PROVE  /\ DOMAIN With(t, s) = DOMAIN task
         /\ With(t, s)[t].status = s /\ With(t, s)[t].superseded = task[t].superseded
         /\ With(t, s)[t].basis = task[t].basis /\ With(t, s)[t].tranches = task[t].tranches
         /\ \A u \in DOMAIN task : u # t => With(t, s)[u] = task[u]
<1>1. task[t] \in Rows
  BY RowOf
<1>2. With(t, s)[t] = [task[t] EXCEPT !.status = s]
  BY DEF With
<1>3. /\ With(t, s)[t].status = s /\ With(t, s)[t].superseded = task[t].superseded
      /\ With(t, s)[t].basis = task[t].basis /\ With(t, s)[t].tranches = task[t].tranches
  BY <1>1, <1>2 DEF Rows
<1>4. QED
  BY <1>3 DEF With

(* A row as create_task makes it *)
LEMMA RowIs ==
  ASSUME NEW s, NEW b, NEW a
  PROVE  /\ Row(s, b, a).status = s /\ Row(s, b, a).basis = b
         /\ ~Row(s, b, a).superseded
BY DEF Row

(* No row changes. *)
LEMMA NoTurn ==
  ASSUME task' = task
  PROVE  Turn
BY DEF Turn, Turned

(* One row changes its status and is not done. *)
Reopens(t) ==
  /\ t \in DOMAIN task /\ DOMAIN task' = DOMAIN task
  /\ \A u \in DOMAIN task : u # t => task'[u] = task[u]
  /\ task[t].status \notin Closed /\ task'[t].status # "SUCCEEDED"
  /\ task'[t].basis = task[t].basis /\ task'[t].superseded = task[t].superseded
  /\ t.kind = "acceptance" => task'[t].status = "CANCELLED"
  /\ task[t].status = "BLOCKED" /\ t.kind = "candidate" =>
       Stage(t, "maintenance") \notin DOMAIN task

(* Work that was left is left. *)
LEMMA ReopensTurn ==
  ASSUME NEW t, Reopens(t)
  PROVE  Turn /\ (Held(task) => Held(task'))
<1>1. ASSUME NEW x \in DOMAIN task PROVE Turned(x, task, task', policy)
  <2>1. CASE x # t
    BY <2>1 DEF Reopens, Turned
  <2>2. CASE x = t
    BY <2>2 DEF Reopens, Turned
  <2>3. QED
    BY <2>1, <2>2
<1>2. ASSUME Held(task) PROVE Held(task')
  <2>1. PICK x \in DOMAIN task :
          ~Background(x) /\ ~task[x].superseded /\ task[x].status # "SUCCEEDED"
    BY <1>2 DEF Held
  <2>2. x \in DOMAIN task' /\ ~task'[x].superseded /\ task'[x].status # "SUCCEEDED"
    <3>1. CASE x # t
      BY <2>1, <3>1 DEF Reopens
    <3>2. CASE x = t
      BY <2>1, <3>2 DEF Reopens
    <3>3. QED
      BY <3>1, <3>2
  <2>3. QED
    BY <2>1, <2>2 DEF Held
<1>3. QED
  BY <1>1, <1>2 DEF Turn, Reopens

(* With writes such a change. *)
LEMMA WithReopens ==
  ASSUME RunInv, NEW t \in DOMAIN task, NEW s, s # "SUCCEEDED", task' = With(t, s),
         task[t].status \notin Closed, t.kind = "acceptance" => s = "CANCELLED",
         task[t].status = "BLOCKED" /\ t.kind = "candidate" =>
           Stage(t, "maintenance") \notin DOMAIN task
  PROVE  Reopens(t)
BY WithIs DEF Reopens

(* A budget is extended. *)
LEMMA ExtendReopens ==
  ASSUME RunInv, NEW t, Is(t, "BUDGET_REVIEW"), Extendable(t), task' = Extended(t)
  PROVE  Reopens(t)
<1>1. t \in DOMAIN task /\ task[t].status = "BUDGET_REVIEW" /\ t.kind = "candidate"
  BY DEF Is, Exists, Extendable
<1>2. task[t] \in Rows
  BY <1>1, RowOf
<1>3. DOMAIN task' = DOMAIN task /\ \A u \in DOMAIN task : u # t => task'[u] = task[u]
  BY DEF Extended
<1>4. task'[t] = [task[t] EXCEPT !.status = "READY", !.tranches = @ + 1]
  BY <1>1 DEF Extended
<1>5. /\ task'[t].status = "READY" /\ task'[t].basis = task[t].basis
      /\ task'[t].superseded = task[t].superseded
  BY <1>2, <1>4 DEF Rows
<1>6. QED
  BY <1>1, <1>3, <1>5 DEF Reopens, Closed

Stages == {<<"candidate", "acceptance">>, <<"acceptance", "commit">>, <<"commit", "projection">>}

(* A stage is done and the next one is created. *)
LEMMA StageTurn ==
  ASSUME RunInv, RowsWait(canon, task, policy), NEW t \in DOMAIN task, NEW k,
         <<t.kind, k>> \in Stages, NEW row, task' = Insert(With(t, "SUCCEEDED"), Stage(t, k), row),
         task[t].status \notin Closed \cup {"BLOCKED"},
         row.status = IF k = "acceptance" THEN "WAITING_INPUT" ELSE "READY", ~row.superseded,
         t.line = "look" => k = "acceptance" /\ row.basis = task[t].basis /\ canon' = canon
  PROVE  /\ Turn /\ Stage(t, k) \notin DOMAIN task
         /\ Stage(t, k) \in DOMAIN task' /\ task'[Stage(t, k)] = row
         /\ DOMAIN task' = DOMAIN task \cup {Stage(t, k)}
         /\ \A u \in DOMAIN task : u # t => task'[u] = task[u]
         /\ task'[t].tranches = task[t].tranches
<1> DEFINE x == Stage(t, k)
           r == With(t, "SUCCEEDED")
<1>1. t \in Ids /\ RowWaits(t, canon, task, policy) /\ k \in Kinds
  BY RowOf DEF RowsWait, Stages, Kinds
<1>2. /\ x \in Ids /\ x.line = t.line /\ x.ch = t.ch /\ x.n = t.n /\ x.kind = k
      /\ Stage(x, t.kind) = t /\ x # t
  <2>1. t.kind \in Kinds /\ t.kind # k
    BY <1>1 DEF Ids, Stages
  <2>2. QED
    BY <1>1, <2>1, StageIs
<1>3. /\ DOMAIN r = DOMAIN task /\ r[t].status = "SUCCEEDED"
      /\ r[t].superseded = task[t].superseded /\ r[t].basis = task[t].basis
      /\ r[t].tranches = task[t].tranches
      /\ \A u \in DOMAIN task : u # t => r[u] = task[u]
  BY WithIs
<1> HIDE DEF x, r
<1>4. /\ DOMAIN task' = DOMAIN task \cup {x}
      /\ \A u \in DOMAIN task : task'[u] = r[u]
      /\ x \notin DOMAIN task => task'[x] = row
  <2>1. task' = Insert(r, x, row)
    BY DEF x, r
  <2>2. QED
    BY <1>3, <2>1 DEF Insert
<1>5. x \notin DOMAIN task
  <2> SUFFICES ASSUME x \in DOMAIN task PROVE FALSE
    OBVIOUS
  <2>1. RowWaits(x, canon, task, policy)
    BY DEF RowsWait
  <2>2. CASE t.kind = "candidate" /\ k = "acceptance"
    <3>1. Seen(t, task)
      BY <1>1, <1>2, <2>1, <2>2 DEF RowWaits
    <3>2. QED
      BY <3>1 DEF Seen, Closed
  <2>3. CASE t.kind = "acceptance" /\ k = "commit"
    <3>1. Seen(t, task)
      BY <1>2, <2>1, <2>3 DEF RowWaits
    <3>2. QED
      BY <3>1 DEF Seen, Closed
  <2>4. CASE t.kind = "commit" /\ k = "projection"
    <3>1. Seen(t, task)
      BY <1>2, <2>1, <2>4 DEF RowWaits
    <3>2. QED
      BY <3>1 DEF Seen, Closed
  <2>5. QED
    BY <2>2, <2>3, <2>4 DEF Stages
<1>6. ~Background(t) => Followed(t, task')
  <2> SUFFICES ASSUME ~Background(t) PROVE Followed(t, task')
    OBVIOUS
  <2>1. ~Background(x)
    BY <1>2 DEF Background, Stages
  <2>2. Pos(x) = Pos(t) /\ Pos(t) \in Nat /\ t.n \in Nat
    BY <1>1, <1>2, PlaceIs DEF Pos, Ids
  <2>3. Rung(t.kind) < Rung(k)
    BY DEF Rung, Stages
  <2>4. Place(t) < Place(x)
    BY <1>2, <2>2, <2>3 DEF Place, Rung
  <2>5. QED
    BY <1>4, <2>1, <2>4 DEF Followed
<1>7. ASSUME NEW u \in DOMAIN task PROVE Turned(u, task, task', policy)
  <2>1. CASE u # t
    BY <1>3, <1>4, <2>1 DEF Turned
  <2>2. CASE u = t
    BY <1>3, <1>4, <1>6, <2>2 DEF Turned
  <2>3. QED
    BY <2>1, <2>2
<1>8. Born(x, canon', task')
  <2>1. task'[x] = row /\ Seen(t, task')
    BY <1>3, <1>4, <1>5 DEF Seen
  <2>2. ASSUME ~Background(x), NEW u \in DOMAIN task', Open(u, task') PROVE NotPast(x, u)
    <3>1. u \in DOMAIN task /\ u # t
      BY <1>2, <1>3, <1>4, <2>2 DEF Open, Closed, Stages
    <3>2. Open(u, task)
      BY <1>3, <1>4, <2>2, <3>1 DEF Open
    <3>3. ~Background(t)
      BY <1>2, <2>2 DEF Background, Stages
    <3>4. NotPast(t, u)
      BY <1>1, <3>1, <3>2, <3>3 DEF RowWaits
    <3>5. QED
      BY <1>2, <3>4 DEF NotPast, Pos
  <2>3. ASSUME x.line = "look"
        PROVE  /\ x.n = 0 /\ Id("draft", x.ch, 0, "candidate") \in DOMAIN task'
               /\ Written(canon', task'[x].basis) < x.ch /\ k = "acceptance"
    BY <1>1, <1>2, <1>4, <2>1, <2>3 DEF RowWaits
  <2>4. k # "maintenance" /\ k # "candidate" /\ (k = "acceptance" => t.kind = "candidate")
        /\ (k = "commit" => t.kind = "acceptance") /\ (k = "projection" => t.kind = "commit")
    BY DEF Stages
  <2>5. QED
    BY <1>2, <2>1, <2>2, <2>3, <2>4 DEF Born
<1>9. Turn
  BY <1>4, <1>7, <1>8 DEF Turn
<1>10. QED
  BY <1>3, <1>4, <1>5, <1>9 DEF x

-----------------------------------------------------------------------------
(* Handlers and the runner                                                 *)

Waited == Turn /\ ThenWaits' /\ RunnerWaits'

(* A handler that has ended *)
LEMMA NothingWaits ==
  ASSUME then' = Nothing
  PROVE  ThenWaits'
<1>1. then'.op = "none"
  BY DEF Nothing
<1>2. QED
  BY <1>1 DEF ThenWaits

(* A result *)
LEMMA ResultIs ==
  ASSUME WaitInv, Result
  PROVE  slice' \in [got : BOOLEAN, round : BOOLEAN, error : BOOLEAN] /\ slice'.got
<1>1. slice \in [got : BOOLEAN, round : BOOLEAN, error : BOOLEAN]
  BY DEF WaitInv, RunnerWaits
<1>2. QED
  BY <1>1 DEF Result

(* The runner stays where it is: with a result, with a handler that goes   *)
(* on, or with as much work left as before.                                *)
LEMMA RunnerWaitsOn ==
  ASSUME WaitInv, Turn, pc' = pc,
         slice' \in [got : BOOLEAN, round : BOOLEAN, error : BOOLEAN],
         \A u \in inflight' : u \in inflight /\ task'[u].status = task[u].status,
         \/ slice'.got \/ then' # Nothing \/ Held(task')
         \/ then' = then /\ slice'.got = slice.got /\ (Held(task) => Held(task'))
  PROVE  RunnerWaits'
<1>1. RunnerWaits
  BY DEF WaitInv
<1>2. \A u \in inflight' : task'[u].status = "RUNNING"
  BY <1>1 DEF RunnerWaits
<1>3. pc' # "idle" => Id("plan", 0, 0, "candidate") \in DOMAIN task'
  BY <1>1 DEF RunnerWaits, Turn, Turned
<1>4. pc' \in {"poll", "await"} /\ then' = Nothing /\ ~slice'.got => Held(task')
  BY <1>1 DEF RunnerWaits
<1>5. QED
  BY <1>2, <1>3, <1>4 DEF RunnerWaits

(* An operator turns task t: no lookahead is created, and the row that the *)
(* rest of a handler relies on is not t.                                   *)
Operates(t) ==
  /\ t \in DOMAIN task
  /\ \A u \in DOMAIN task : u # t => task'[u] = task[u]
  /\ task'[t].tranches = task[t].tranches
  /\ \A u \in DOMAIN task' \ DOMAIN task : u.kind # "candidate"
  /\ t = then.t => /\ ~(then.op = "accept" /\ Automatic(t))
                   /\ ~(then.op = "extend" /\ Extendable(t))
  /\ t \notin inflight
  /\ policy' = policy /\ canon' = canon /\ pc' = pc /\ then' = then
  /\ inflight' = inflight /\ slice' = slice

(* After it everything waits as before. *)
LEMMA OperatorWaits ==
  ASSUME RunInv, WaitInv, Turn, NEW t, Operates(t), Held(task) => Held(task')
  PROVE  Waited
<1>1. ThenWaits /\ RunnerWaits
  BY DEF WaitInv
<1>2. DOMAIN task \subseteq DOMAIN task'
  BY DEF Turn, Turned
<1>3. ASSUME then'.op = "accept"
      PROVE  /\ then'.t \in DOMAIN task' /\ then'.t.line # "look"
             /\ Automatic(then.t)' => task'[then'.t].status = "WAITING_INPUT"
  <2>1. then.op = "accept" /\ then' = then /\ policy' = policy
    BY <1>3 DEF Operates
  <2>2. /\ then.t \in DOMAIN task /\ then.t.line # "look"
        /\ Automatic(then.t) => task[then.t].status = "WAITING_INPUT"
    BY <1>1, <2>1 DEF ThenWaits
  <2>3. Automatic(then.t)' <=> Automatic(then.t)
    BY <2>1 DEF Automatic
  <2>4. Automatic(then.t) => task'[then.t] = task[then.t]
    BY <2>1, <2>2 DEF Operates
  <2>5. QED
    BY <1>2, <2>1, <2>2, <2>3, <2>4
<1>4. ASSUME then'.op = "extend"
      PROVE  /\ then'.t \in DOMAIN task'
             /\ Extendable(then.t)' => task'[then'.t].status = "BUDGET_REVIEW"
  <2>1. then.op = "extend" /\ then' = then /\ policy' = policy
    BY <1>4 DEF Operates
  <2>2. /\ then.t \in DOMAIN task
        /\ Extendable(then.t) => task[then.t].status = "BUDGET_REVIEW"
    BY <1>1, <2>1 DEF ThenWaits
  <2>3. task'[then.t].tranches = task[then.t].tranches
    BY <2>2 DEF Operates
  <2>4. Extendable(then.t)' => Extendable(then.t)
    BY <2>1, <2>3 DEF Extendable
  <2>5. Extendable(then.t) => task'[then.t] = task[then.t]
    BY <2>1, <2>2 DEF Operates
  <2>6. QED
    BY <1>2, <2>1, <2>2, <2>4, <2>5
<1>5. then'.op = "repair" => Written(canon', Len(canon')) = then'.t.ch
  BY <1>1 DEF ThenWaits, Operates
<1>6. ASSUME then'.op \in {"promote", "replan", "rolling"}
      PROVE  /\ \A u \in DOMAIN task' : Open(u, task') => then'.t.ch < u.ch
             /\ pc' = "await" => Written(canon', Len(canon')) = then'.t.ch
  <2>1. then.op \in {"promote", "replan", "rolling"} /\ then' = then /\ pc' = pc /\ canon' = canon
    BY <1>6 DEF Operates
  <2>2. ASSUME NEW u \in DOMAIN task', Open(u, task') PROVE then.t.ch < u.ch
    <3>1. u \in DOMAIN task
      BY <2>2 DEF Operates, Open
    <3>2. Open(u, task)
      BY <2>2, <3>1, TurnedStays
    <3>3. QED
      BY <1>1, <2>1, <3>1, <3>2 DEF ThenWaits
  <2>3. QED
    BY <1>1, <2>1, <2>2 DEF ThenWaits
<1>7. ThenWaits'
  BY <1>3, <1>4, <1>5, <1>6 DEF ThenWaits
<1>8. RunnerWaits'
  <2>1. \A u \in inflight' : u \in inflight /\ u \in DOMAIN task /\ u # t
    BY DEF Operates, RunInv, InflightFits
  <2>2. \A u \in inflight' : task'[u].status = task[u].status
    BY <2>1 DEF Operates
  <2>3. pc' = pc /\ slice' = slice /\ then' = then
    BY DEF Operates
  <2>4. slice' \in [got : BOOLEAN, round : BOOLEAN, error : BOOLEAN]
    BY <1>1, <2>3 DEF RunnerWaits
  <2>5. QED
    BY <2>1, <2>2, <2>3, <2>4, RunnerWaitsOn
<1>9. QED
  BY <1>7, <1>8 DEF Waited

(* An operator retries, unblocks or reclaims. *)
LEMMA ServeWaits ==
  ASSUME RunInv, WaitInv, NEW t \in DOMAIN task, Reclaim(t) \/ Serve(t)
  PROVE  Waited
<1>1. /\ task[t].status \in {"RUNNING", "WAITING_RETRY", "RECOVERY_PENDING", "WAITING_INPUT",
                              "BLOCKED", "BUDGET_REVIEW"}
      /\ task[t].status = "WAITING_INPUT" => t.kind # "acceptance"
      /\ task[t].status = "BLOCKED" /\ t.kind = "candidate" =>
           Stage(t, "maintenance") \notin DOMAIN task
      /\ task[t].status = "RUNNING" => t \notin inflight
      /\ task[t].status = "BUDGET_REVIEW" => ~Extendable(t)
      /\ policy' = policy /\ canon' = canon /\ pc' = pc /\ inflight' = inflight
      /\ then' = then /\ slice' = slice
  BY DEF Reclaim, Serve, Is, Exists
<1>2. PICK s : s # "SUCCEEDED" /\ task' = With(t, s)
  BY DEF Reclaim, Serve
<1>3. RowWaits(t, canon, task, policy) /\ ThenWaits /\ RunnerWaits
  BY DEF WaitInv, RowsWait
<1>4. t.kind # "acceptance"
  <2> SUFFICES ASSUME t.kind = "acceptance" PROVE FALSE
    OBVIOUS
  <2>1. task[t].status \in {"WAITING_INPUT", "SUCCEEDED", "CANCELLED"}
    BY <1>3 DEF RowWaits
  <2>2. QED
    BY <1>1, <2>1
<1>5. Reopens(t)
  BY <1>1, <1>2, <1>4, WithReopens DEF Closed
<1>6. Turn /\ (Held(task) => Held(task'))
  BY <1>5, ReopensTurn
<1>7. t \notin inflight
  BY <1>1, <1>3 DEF RunnerWaits
<1>8. Operates(t)
  <2>1. t = then.t => /\ ~(then.op = "accept" /\ Automatic(t))
                      /\ ~(then.op = "extend" /\ Extendable(t))
    BY <1>1, <1>3, <1>4 DEF ThenWaits, RunInv, ThenFits
  <2>2. /\ DOMAIN task' = DOMAIN task /\ task'[t].tranches = task[t].tranches
        /\ \A u \in DOMAIN task : u # t => task'[u] = task[u]
    BY <1>2, WithIs
  <2>3. QED
    BY <1>1, <1>7, <2>1, <2>2 DEF Operates
<1>9. QED
  BY <1>6, <1>8, OperatorWaits

(* A person decides. *)
LEMMA HumanWaits ==
  ASSUME RunInv, WaitInv, NEW t \in DOMAIN task, NEW accept \in BOOLEAN, HumanDecides(t, accept)
  PROVE  Waited
<1>1. /\ t.kind = "acceptance" /\ task[t].status = "WAITING_INPUT" /\ t.line # "look"
      /\ ~Automatic(t)
      /\ task' = IF accept THEN Accepted(t) ELSE With(t, "CANCELLED")
      /\ policy' = policy /\ canon' = canon /\ pc' = pc /\ inflight' = inflight
      /\ then' = then /\ slice' = slice
  BY DEF HumanDecides, Is, Decidable
<1>2. t.kind = "acceptance" /\ t \in Ids
  BY <1>1, RowOf
<1>3. RowsWait(canon, task, policy) /\ ThenWaits /\ RunnerWaits
  BY DEF WaitInv
<1>4. t \notin inflight
  BY <1>1, <1>3 DEF RunnerWaits
<1>5. ~Extendable(t)
  BY <1>2 DEF Extendable
<1>6. CASE ~accept
  <2>1. task' = With(t, "CANCELLED")
    BY <1>1, <1>6
  <2>2. Turn /\ (Held(task) => Held(task'))
    <3>1. Reopens(t)
      BY <1>1, <1>2, <2>1, WithReopens DEF Closed
    <3>2. QED
      BY <3>1, ReopensTurn
  <2>3. /\ DOMAIN task' = DOMAIN task /\ task'[t].tranches = task[t].tranches
        /\ \A u \in DOMAIN task : u # t => task'[u] = task[u]
    BY <2>1, WithIs
  <2>4. Operates(t)
    BY <1>1, <1>4, <1>5, <2>3 DEF Operates
  <2>5. QED
    BY <2>2, <2>4, OperatorWaits
<1>7. CASE accept
  <2> DEFINE x == Stage(t, "commit")
             row == Row("READY", task[t].basis, task[t].affects)
  <2>1. task' = Insert(With(t, "SUCCEEDED"), x, row)
    BY <1>1, <1>7 DEF Accepted
  <2>2. row.status = "READY" /\ ~row.superseded
    BY RowIs
  <2>3. x.line = t.line /\ x.kind = "commit"
    BY <1>2, StageIs DEF Kinds
  <2> HIDE DEF row
  <2>4. /\ Turn /\ DOMAIN task' = DOMAIN task \cup {x} /\ task'[x] = row
        /\ task'[t].tranches = task[t].tranches
        /\ \A u \in DOMAIN task : u # t => task'[u] = task[u]
    BY <1>1, <1>2, <1>3, <2>1, <2>2, StageTurn DEF Stages, Closed
  <2> HIDE DEF x
  <2>5. Operates(t)
    BY <1>1, <1>4, <1>5, <2>3, <2>4 DEF Operates
  <2>6. Held(task')
    BY <1>1, <2>2, <2>3, <2>4 DEF Held, Background
  <2>7. QED
    BY <2>4, <2>5, <2>6, OperatorWaits
<1>8. QED
  BY <1>6, <1>7

(* A handler ends in a conflict while foreground work is left. *)
LEMMA ConflictWaits ==
  ASSUME RunInv, WaitInv, task' = task, inflight' = inflight, then' = Nothing, Conflict,
         pc # "loop" => Held(task)
  PROVE  Waited
<1>1. Turn /\ ThenWaits'
  BY NoTurn, NothingWaits
<1>2. RunnerWaits
  BY DEF WaitInv
<1>3. CASE pc = "loop"
  <2>1. pc' = "idle" /\ slice' = [got |-> FALSE, round |-> FALSE, error |-> FALSE]
    BY <1>3 DEF Conflict, Return
  <2>2. slice' \in [got : BOOLEAN, round : BOOLEAN, error : BOOLEAN]
    BY <2>1
  <2>3. RunnerWaits'
    BY <1>2, <2>1, <2>2 DEF RunnerWaits
  <2>4. QED
    BY <1>1, <2>3 DEF Waited
<1>4. CASE pc # "loop"
  <2>1. pc' = pc /\ slice' = slice
    BY <1>4 DEF Conflict
  <2>2. slice' \in [got : BOOLEAN, round : BOOLEAN, error : BOOLEAN]
    BY <1>2, <2>1 DEF RunnerWaits
  <2>3. RunnerWaits'
    BY <1>1, <1>4, <2>1, <2>2, RunnerWaitsOn
  <2>4. QED
    BY <1>1, <2>3 DEF Waited
<1>5. QED
  BY <1>3, <1>4

(* A handler ends with a result. *)
LEMMA ResultWaits ==
  ASSUME WaitInv, Turn, then' = Nothing, Result, pc' = pc,
         \A u \in inflight' : u \in inflight /\ task'[u].status = task[u].status
  PROVE  Waited
<1>1. slice' \in [got : BOOLEAN, round : BOOLEAN, error : BOOLEAN] /\ slice'.got
  BY ResultIs
<1>2. QED
  BY <1>1, NothingWaits, RunnerWaitsOn DEF Waited

(* _auto_accept decides, leaves the decision or conflicts. *)
LEMMA AutoAcceptWaits ==
  ASSUME RunInv, WaitInv, NEW t \in DOMAIN task, AutoAccept(t)
  PROVE  Waited
<1>1. /\ then.op = "accept" /\ then.t = t /\ then' = Nothing /\ inflight' = inflight
      /\ canon' = canon
  BY DEF AutoAccept, Done
<1>2. RowsWait(canon, task, policy) /\ RunnerWaits /\ t \in Ids
  BY RowOf DEF WaitInv
<1>3. /\ t.line # "look" /\ t.kind = "acceptance"
      /\ Automatic(t) => task[t].status = "WAITING_INPUT"
  BY <1>1 DEF WaitInv, ThenWaits, RunInv, ThenFits
<1>4. CASE ~Automatic(t) \/ ~Decidable(t)
  <2>1. task' = task /\ pc' = pc /\ Result
    BY <1>4 DEF AutoAccept
  <2>2. QED
    BY <1>1, <2>1, NoTurn, ResultWaits
<1>5. CASE ~(~Automatic(t) \/ ~Decidable(t)) /\ task[t].basis = CurrentCommit
  <2> DEFINE row == Row("READY", task[t].basis, task[t].affects)
  <2>1. task' = Insert(With(t, "SUCCEEDED"), Stage(t, "commit"), row) /\ pc' = pc /\ Result
    BY <1>5 DEF AutoAccept, Accepted
  <2>2. row.status = "READY" /\ ~row.superseded
    BY RowIs
  <2> HIDE DEF row
  <2>3. /\ task[t].status = "WAITING_INPUT" /\ task[t].status \notin Closed \cup {"BLOCKED"}
        /\ <<t.kind, "commit">> \in Stages
    BY <1>3, <1>5 DEF Stages, Closed
  <2>4. Turn /\ \A u \in DOMAIN task : u # t => task'[u] = task[u]
    BY <1>2, <1>3, <2>1, <2>2, <2>3, StageTurn
  <2>5. \A u \in inflight' : u \in inflight /\ u \in DOMAIN task /\ u # t
    BY <1>1, <1>2, <2>3 DEF RunInv, InflightFits, RunnerWaits
  <2>6. \A u \in inflight' : task'[u].status = task[u].status
    BY <2>4, <2>5
  <2>7. QED
    BY <1>1, <2>1, <2>4, <2>5, <2>6, ResultWaits
<1>6. CASE ~(~Automatic(t) \/ ~Decidable(t)) /\ task[t].basis # CurrentCommit
  <2>1. task' = task /\ Conflict
    BY <1>6 DEF AutoAccept
  <2>2. task[t].status = "WAITING_INPUT" /\ ~task[t].superseded /\ ~Background(t)
    BY <1>2, <1>3, <1>6 DEF RowsWait, RowWaits, Background
  <2>3. Held(task)
    BY <2>2 DEF Held
  <2>4. QED
    BY <1>1, <2>1, <2>3, ConflictWaits
<1>7. QED
  BY <1>4, <1>5, <1>6

(* An open lookahead is not behind a chapter that is visible. *)
LEMMA OpenAhead ==
  ASSUME RunInv, WaitInv, NEW ch, Visible(ch, task), NEW u \in DOMAIN task, Open(u, task)
  PROVE  ch \in Nat /\ u.ch \in Nat /\ ch <= u.ch
<1> DEFINE p == ProjectionOf(ch)
<1>1. p \in DOMAIN task /\ p.line = "draft" /\ p.ch = ch /\ ~Background(p)
  BY DEF Visible, Seen, ProjectionOf, Id, Background
<1>2. p \in Ids /\ u \in Ids
  BY <1>1, RowOf
<1>3. ch \in Nat /\ u.ch \in Nat
  BY <1>1, <1>2, CreativeRunAssumption DEF Ids
<1> HIDE DEF p
<1>4. RowWaits(p, canon, task, policy)
  BY <1>1 DEF WaitInv, RowsWait
<1>5. NotPast(p, u)
  BY <1>1, <1>4 DEF RowWaits
<1>6. QED
  BY <1>1, <1>3, <1>5 DEF NotPast, Pos

(* The lookahead of a chapter is one task. *)
LEMMA SameLookahead ==
  ASSUME RunInv, WaitInv, NEW u \in DOMAIN task, NEW v \in DOMAIN task,
         u.line = "look", v.line = "look", u.ch = v.ch, u.kind = "candidate"
  PROVE  /\ v.kind = "candidate" => u = v
         /\ v.kind = "acceptance" => u = Stage(v, "candidate")
<1>1. u \in Ids /\ v \in Ids /\ u.n = 0 /\ v.n = 0
  BY RowOf DEF WaitInv, RowsWait, RowWaits
<1>2. QED
  BY <1>1 DEF Ids, Stage

(* A lookahead candidate that waited for its chapter is superseded. *)
LEMMA SupersedeWaits ==
  ASSUME RunInv, WaitInv, NEW w \in Revalidatable, Supersede(w), canon' = canon
  PROVE  /\ Turn /\ ThenWaits' /\ then' # Nothing
         /\ \A u \in DOMAIN task : task[u].status = "RUNNING" => task'[u].status = "RUNNING"
<1>1. /\ w \in DOMAIN task /\ w.line = "look" /\ w.kind = "acceptance"
      /\ task[w].status = "WAITING_INPUT" /\ Visible(w.ch, task)
      /\ task[ProjectionOf(w.ch)].basis = Len(canon)
  BY DEF Revalidatable, Projected, Is, Exists, Visible, Seen, ProjectionOf, CurrentCommit
<1>2. w \in Ids /\ task[w] \in Rows
  BY <1>1, RowOf
<1>3. DOMAIN task' = DOMAIN task /\ \A u \in DOMAIN task : u # w => task'[u] = task[u]
  BY DEF Supersede, Superseded
<1>4. task'[w] = [task[w] EXCEPT !.status = "CANCELLED", !.superseded = TRUE]
  BY <1>1 DEF Supersede, Superseded
<1>5. task'[w].status = "CANCELLED" /\ task'[w].basis = task[w].basis
  BY <1>2, <1>4 DEF Rows
<1>6. Turn
  <2>1. Turned(w, task, task', policy)
    BY <1>1, <1>3, <1>5 DEF Turned, Closed, Background
  <2>2. ASSUME NEW u \in DOMAIN task PROVE Turned(u, task, task', policy)
    <3>1. CASE u # w
      BY <1>3, <3>1 DEF Turned
    <3>2. QED
      BY <2>1, <3>1
  <2>3. QED
    BY <1>3, <2>2 DEF Turn
<1>7. then'.t = w /\ then'.op \in {"promote", "replan"}
  BY DEF Supersede, Then
<1>8. ASSUME NEW u \in DOMAIN task', Open(u, task') PROVE w.ch < u.ch
  <2>1. u \in DOMAIN task
    BY <1>3
  <2>2. Open(u, task)
    BY <1>6, <1>8, <2>1, TurnedStays
  <2>3. w.ch \in Nat /\ u.ch \in Nat /\ w.ch <= u.ch
    BY <1>1, <2>1, <2>2, OpenAhead
  <2>4. u.ch # w.ch
    <3> SUFFICES ASSUME u.ch = w.ch PROVE FALSE
      OBVIOUS
    <3>1. u = Stage(w, "candidate")
      BY <1>1, <2>1, <2>2, SameLookahead DEF Open
    <3>2. RowWaits(w, canon, task, policy)
      BY <1>1 DEF WaitInv, RowsWait
    <3>3. Seen(u, task)
      BY <1>1, <3>1, <3>2 DEF RowWaits
    <3>4. QED
      BY <2>2, <3>3 DEF Open, Seen, Closed
  <2>5. QED
    BY <2>3, <2>4
<1>9. Written(canon', Len(canon')) = w.ch
  <2>1. /\ ProjectionOf(w.ch) \in DOMAIN task /\ ProjectionOf(w.ch).kind = "projection"
        /\ ProjectionOf(w.ch).ch = w.ch /\ ProjectionOf(w.ch).line = "draft"
    BY <1>1 DEF Visible, Seen, ProjectionOf, Id
  <2>2. Written(canon, task[ProjectionOf(w.ch)].basis) = w.ch
    BY <2>1, TextAt
  <2>3. QED
    BY <1>1, <2>2
<1>10. ThenWaits'
  BY <1>7, <1>8, <1>9 DEF ThenWaits
<1>11. then' # Nothing
  BY <1>7 DEF Nothing
<1>12. QED
  BY <1>1, <1>3, <1>6, <1>10, <1>11

(* The lookahead of a chapter is given up. *)
LEMMA GiveUpWaits ==
  ASSUME RunInv, WaitInv, NoLookaheadGap, NEW p \in Ids, Visible(p.ch, task),
         NeedsRollingPlan(p), GiveUpLookahead(p), canon' = canon, pc' = pc,
         pc = "await" => Written(canon, Len(canon)) = p.ch
  PROVE  /\ Turn /\ ThenWaits' /\ then' # Nothing
         /\ \A u \in DOMAIN task : task[u].status = "RUNNING" => task'[u].status = "RUNNING"
<1>1. DOMAIN task' = DOMAIN task
  BY DEF GiveUpLookahead
<1>2. ASSUME NEW u \in DOMAIN task, u \in LookaheadsOf(p), task[u].status \in Inactive
      PROVE  task'[u].status = "CANCELLED" /\ Turned(u, task, task', policy)
  <2>1. task[u] \in Rows /\ u \in Ids /\ u.line = "look"
    BY <1>2, RowOf DEF LookaheadsOf
  <2>2. task'[u] = [task[u] EXCEPT !.status = "CANCELLED", !.superseded = TRUE]
    BY <1>2 DEF GiveUpLookahead
  <2>3. task'[u].status = "CANCELLED" /\ task'[u].basis = task[u].basis
    BY <2>1, <2>2 DEF Rows
  <2>4. Stage(u, "maintenance") \notin DOMAIN task
    <3> DEFINE x == Stage(u, "maintenance")
    <3> SUFFICES ASSUME x \in DOMAIN task PROVE FALSE
      OBVIOUS
    <3>1. x.line = "look" /\ x.kind = "maintenance"
      BY <2>1, StageIs DEF Kinds
    <3> HIDE DEF x
    <3>2. QED
      BY <3>1 DEF NoLookaheadGap, AheadOfTheDraft
  <2>5. QED
    BY <1>1, <1>2, <2>1, <2>3, <2>4 DEF Turned, Inactive, Closed, Background
<1>3. ASSUME NEW u \in DOMAIN task, ~(u \in LookaheadsOf(p) /\ task[u].status \in Inactive)
      PROVE  task'[u] = task[u] /\ Turned(u, task, task', policy)
  <2>1. task'[u] = task[u]
    BY <1>3 DEF GiveUpLookahead
  <2>2. QED
    BY <1>1, <2>1 DEF Turned
<1>4. Turn
  BY <1>1, <1>2, <1>3 DEF Turn
<1>5. then'.t = p /\ then'.op = "rolling"
  BY DEF GiveUpLookahead, Then
<1>6. ASSUME NEW u \in DOMAIN task', Open(u, task') PROVE p.ch < u.ch
  <2>1. u \in DOMAIN task
    BY <1>1
  <2>2. Open(u, task)
    BY <1>4, <1>6, <2>1, TurnedStays
  <2>3. p.ch \in Nat /\ u.ch \in Nat /\ p.ch <= u.ch
    BY <2>1, <2>2, OpenAhead
  <2>4. u.ch # p.ch
    <3> SUFFICES ASSUME u.ch = p.ch PROVE FALSE
      OBVIOUS
    <3>1. /\ RowWaits(u, canon, task, policy) /\ task[u] \in Rows
          /\ task[u].status = "RECOVERY_PENDING" => u.kind = "maintenance"
      BY <2>1, RowOf DEF WaitInv, RowsWait
    <3>2. u \in LookaheadsOf(p)
      BY <2>1, <2>2, <3>1 DEF LookaheadsOf, Open, RowWaits, Closed
    <3>3. task[u].status # "RUNNING"
      BY <3>2 DEF NeedsRollingPlan, Live
    <3>4. task[u].status \in Inactive
      BY <2>2, <3>1, <3>3 DEF Open, Closed, Rows, Statuses, Inactive
    <3>5. task'[u].status = "CANCELLED"
      BY <1>2, <2>1, <3>2, <3>4
    <3>6. QED
      BY <1>6, <3>5 DEF Open, Closed
  <2>5. QED
    BY <2>3, <2>4
<1>7. ThenWaits'
  BY <1>5, <1>6 DEF ThenWaits
<1>8. then' # Nothing
  BY <1>5 DEF Nothing
<1>9. ASSUME NEW u \in DOMAIN task, task[u].status = "RUNNING" PROVE task'[u].status = "RUNNING"
  BY <1>3, <1>9 DEF Inactive
<1>10. QED
  BY <1>4, <1>7, <1>8, <1>9

(* The repair after a draft goes on to the planning task it creates. *)
LEMMA RepairPostWaits ==
  ASSUME RunInv, WaitInv, NoLookaheadGap, NEW p \in Ids, Visible(p.ch, task),
         Repairs(p), RepairPostDraft(p), canon' = canon, pc' = pc, inflight' = inflight,
         slice' = slice, pc = "await" => Written(canon, Len(canon)) = p.ch
  PROVE  Waited
<1>1. /\ Turn /\ ThenWaits' /\ then' # Nothing
      /\ \A u \in DOMAIN task : task[u].status = "RUNNING" => task'[u].status = "RUNNING"
  <2>1. CASE Revalidatable # {}
    <3>1. PICK w \in Revalidatable : Supersede(w)
      BY <2>1 DEF RepairPostDraft
    <3>2. QED
      BY <3>1, SupersedeWaits
  <2>2. CASE Revalidatable = {}
    <3>1. GiveUpLookahead(p) /\ NeedsRollingPlan(p)
      BY <2>2 DEF RepairPostDraft, Repairs
    <3>2. QED
      BY <3>1, GiveUpWaits
  <2>3. QED
    BY <2>1, <2>2
<1>2. RunnerWaits /\ inflight \subseteq DOMAIN task
  BY DEF WaitInv, RunInv, InflightFits
<1>3. \A u \in inflight' : u \in inflight /\ task'[u].status = task[u].status
  BY <1>1, <1>2 DEF RunnerWaits
<1>4. slice' \in [got : BOOLEAN, round : BOOLEAN, error : BOOLEAN]
  BY <1>2 DEF RunnerWaits
<1>5. QED
  BY <1>1, <1>3, <1>4, RunnerWaitsOn DEF Waited

(* The rest of advance() after a lookahead candidate *)
LEMMA RevalidateWaits ==
  ASSUME RunInv, WaitInv, Revalidate
  PROVE  Waited
<1>1. canon' = canon /\ pc' = pc /\ inflight' = inflight
  BY DEF Revalidate
<1>2. RunnerWaits /\ inflight \subseteq DOMAIN task
  BY DEF WaitInv, RunInv, InflightFits
<1>3. CASE Revalidatable # {}
  <2>1. PICK w \in Revalidatable : Supersede(w)
    BY <1>3 DEF Revalidate
  <2>2. slice' = slice
    BY <1>3 DEF Revalidate
  <2>3. /\ Turn /\ ThenWaits' /\ then' # Nothing
        /\ \A u \in DOMAIN task : task[u].status = "RUNNING" => task'[u].status = "RUNNING"
    BY <1>1, <2>1, SupersedeWaits
  <2>4. \A u \in inflight' : u \in inflight /\ task'[u].status = task[u].status
    BY <1>1, <1>2, <2>3 DEF RunnerWaits
  <2>5. slice' \in [got : BOOLEAN, round : BOOLEAN, error : BOOLEAN]
    BY <1>2, <2>2 DEF RunnerWaits
  <2>6. QED
    BY <1>1, <2>3, <2>4, <2>5, RunnerWaitsOn DEF Waited
<1>4. CASE Revalidatable = {}
  <2>1. task' = task /\ then' = Nothing /\ Result
    BY <1>4 DEF Revalidate, Done
  <2>2. QED
    BY <1>1, <2>1, NoTurn, ResultWaits
<1>5. QED
  BY <1>3, <1>4

(* The rest of advance() after a draft's projection *)
LEMMA RepairWaits ==
  ASSUME RunInv, WaitInv, NoLookaheadGap, Repair
  PROVE  Waited
<1>1. then.op = "repair" /\ canon' = canon /\ pc' = pc /\ inflight' = inflight
  BY DEF Repair
<1>2. /\ then.t \in Ids /\ Visible(then.t.ch, task)
      /\ Written(canon, Len(canon)) = then.t.ch
  BY <1>1 DEF RunInv, ThenFits, WaitInv, ThenWaits
<1>3. CASE Repairs(then.t)
  <2>1. RepairPostDraft(then.t) /\ slice' = slice
    BY <1>3 DEF Repair
  <2>2. QED
    BY <1>1, <1>2, <1>3, <2>1, RepairPostWaits
<1>4. CASE ~Repairs(then.t)
  <2>1. task' = task /\ then' = Nothing /\ Result
    BY <1>4 DEF Repair, Done
  <2>2. QED
    BY <1>1, <2>1, NoTurn, ResultWaits
<1>5. QED
  BY <1>3, <1>4

(* The planning task that is created *)
LEMMA CreatedIs ==
  ASSUME then.op \in {"promote", "replan", "rolling"}
  PROVE  LET x == CreatedTask
         IN /\ x.ch = then.t.ch /\ x.line \in Foregrounds
            /\ IF then.op = "promote" THEN x.line = "promo" /\ x.kind = "acceptance"
                                      ELSE x.line # "promo" /\ x.kind = "candidate"
<1>1. CASE then.op = "promote"
  BY <1>1 DEF CreatedTask, Id, Foregrounds
<1>2. CASE then.op = "replan"
  BY <1>2 DEF CreatedTask, Id, Foregrounds
<1>3. CASE then.op = "rolling"
  BY <1>3 DEF CreatedTask, Id, Foregrounds
<1>4. QED
  BY <1>1, <1>2, <1>3

(* The planning task after either *)
LEMMA CreatePlanningWaits ==
  ASSUME RunInv, WaitInv, CreatePlanning
  PROVE  Waited
<1> DEFINE x == CreatedTask
           row == CreatedRow
           ch == then.t.ch
<1>1. /\ then.op \in {"promote", "replan", "rolling"}
      /\ policy' = policy /\ canon' = canon /\ inflight' = inflight
  BY DEF CreatePlanning
<1>2. /\ x \in Ids /\ x.ch = ch /\ x.line \in Foregrounds
      /\ IF then.op = "promote" THEN x.line = "promo" /\ x.kind = "acceptance"
                                ELSE x.line # "promo" /\ x.kind = "candidate"
  BY <1>1, CreatedFits, CreatedIs
<1>3. row.status = (IF then.op = "promote" THEN "WAITING_INPUT" ELSE "READY") /\ ~row.superseded
  BY RowIs DEF CreatedRow
<1>4. ch \in Nat /\ Pos(x) = 2 * ch + 1 /\ ~Background(x)
  BY <1>2, CreativeRunAssumption DEF Ids, Pos, Background, Foregrounds
<1>5. RunnerWaits /\ ThenWaits /\ inflight \subseteq DOMAIN task /\ pc \in {"loop", "await"}
  <2>1. then # Nothing
    BY <1>1 DEF Nothing
  <2>2. QED
    BY <2>1 DEF WaitInv, RunInv, InflightFits, RunnerFits
<1> HIDE DEF x, row, ch
<1>6. CASE Collides(x, row)
  <2>1. task' = task /\ Conflict /\ then' = Nothing
    BY <1>6 DEF CreatePlanning, Done, x, row
  <2>2. x \in DOMAIN task
    BY <1>6 DEF Collides, Exists
  <2>3. ASSUME pc # "loop" PROVE Held(task)
    <3> SUFFICES ASSUME ~Held(task) PROVE FALSE
      OBVIOUS
    <3>1. PICK m \in DOMAIN task :
            /\ m.kind = "projection" /\ m.line = "draft" /\ m = ProjectionOf(m.ch)
            /\ \A y \in DOMAIN task : ~Background(y) => Place(y) <= Place(m)
      BY <1>5, <2>3, Stuck
    <3>2. m \in Ids /\ m.ch \in Nat /\ m.n = 0
      BY <3>1, RowOf, CreativeRunAssumption DEF ProjectionOf, Id, Ids
    <3>3. Written(canon, task[m].basis) = m.ch /\ task[m].basis \in 0 .. Len(canon)
      BY <3>1, TextAt, RowOf DEF RowFits
    <3>4. m.ch <= Written(canon, Len(canon))
      BY <3>3, WrittenGrows
    <3>5. Written(canon, Len(canon)) = ch
      BY <1>1, <1>5, <2>3 DEF ThenWaits, ch
    <3>6. Pos(m) = 2 * m.ch /\ Place(m) <= 8 * Pos(m) + 4 /\ 8 * Pos(x) < Place(x)
          /\ Place(m) \in Nat /\ Place(x) \in Nat
      BY <1>2, <3>1, <3>2, PlaceIs DEF Pos
    <3>7. Place(x) <= Place(m)
      BY <1>4, <2>2, <3>1
    <3>8. QED
      BY <1>4, <3>2, <3>4, <3>5, <3>6, <3>7
  <2>4. QED
    BY <1>1, <2>1, <2>3, ConflictWaits
<1>7. CASE ~Collides(x, row)
  <2>1. task' = Insert(task, x, row) /\ pc' = pc /\ Result
    BY <1>7 DEF CreatePlanning, x, row
  <2>2. IF then.op = "promote" THEN then' = [op |-> "accept", t |-> x] ELSE then' = Nothing
    BY <1>7 DEF CreatePlanning, Then, Done, x, row
  <2>3. DOMAIN task' = DOMAIN task \cup {x} /\ \A u \in DOMAIN task : task'[u] = task[u]
    BY <2>1 DEF Insert
  <2>4. task'[x] = row
    BY <1>7, <2>1 DEF Insert, Collides, Exists
  <2>5. Born(x, canon', task')
    <3>1. ASSUME NEW u \in DOMAIN task', Open(u, task') PROVE NotPast(x, u)
      <4>1. u \in DOMAIN task
        BY <1>2, <2>3, <3>1 DEF Open, Foregrounds
      <4>2. ch < u.ch /\ u \in Ids
        BY <1>1, <1>5, <2>3, <3>1, <4>1, RowOf DEF Open, ThenWaits, ch
      <4>3. u.ch \in Nat
        BY <4>2, CreativeRunAssumption DEF Ids
      <4>4. QED
        BY <1>4, <4>2, <4>3 DEF NotPast
    <3>2. QED
      BY <1>2, <1>3, <2>4, <3>1 DEF Born, Foregrounds
  <2>6. Turn
    BY <2>3, <2>5 DEF Turn, Turned
  <2>7. \A u \in inflight' : u \in inflight /\ task'[u].status = task[u].status
    BY <1>1, <1>5, <2>3
  <2>8. CASE then.op # "promote"
    BY <2>1, <2>2, <2>6, <2>7, <2>8, ResultWaits
  <2>9. CASE then.op = "promote"
    <3>1. then'.op = "accept" /\ then'.t = x
      BY <2>2, <2>9
    <3>2. x \in DOMAIN task' /\ task'[x].status = "WAITING_INPUT" /\ x.line # "look"
      BY <1>2, <1>3, <2>3, <2>4, <2>9
    <3>3. ThenWaits'
      BY <3>1, <3>2 DEF ThenWaits
    <3>4. slice' \in [got : BOOLEAN, round : BOOLEAN, error : BOOLEAN] /\ slice'.got
      BY <2>1, ResultIs
    <3>5. QED
      BY <2>1, <2>6, <2>7, <3>3, <3>4, RunnerWaitsOn DEF Waited
  <2>10. QED
    BY <2>8, <2>9
<1>8. QED
  BY <1>6, <1>7

(* The rest of advance() after a budget review *)
LEMMA AutoExtendWaits ==
  ASSUME RunInv, WaitInv, AutoExtend
  PROVE  Waited
<1>1. /\ then.op = "extend" /\ then' = Nothing /\ Result /\ pc' = pc /\ inflight' = inflight
      /\ task' = IF Extendable(then.t) THEN Extended(then.t) ELSE task
  BY DEF AutoExtend, Done
<1>2. RunnerWaits /\ ThenWaits /\ inflight \subseteq DOMAIN task
  BY DEF WaitInv, RunInv, InflightFits
<1>3. CASE ~Extendable(then.t)
  BY <1>1, <1>3, NoTurn, ResultWaits
<1>4. CASE Extendable(then.t)
  <2>1. then.t \in DOMAIN task /\ task[then.t].status = "BUDGET_REVIEW"
    BY <1>1, <1>2, <1>4 DEF ThenWaits
  <2>2. Reopens(then.t)
    BY <1>1, <1>4, <2>1, ExtendReopens DEF Is, Exists
  <2>3. Turn /\ \A u \in DOMAIN task : u # then.t => task'[u] = task[u]
    BY <2>2, ReopensTurn DEF Reopens
  <2>4. \A u \in inflight' : u \in inflight /\ u # then.t /\ u \in DOMAIN task
    BY <1>1, <1>2, <2>1 DEF RunnerWaits
  <2>5. \A u \in inflight' : task'[u].status = task[u].status
    BY <2>3, <2>4
  <2>6. QED
    BY <1>1, <2>3, <2>4, <2>5, ResultWaits
<1>5. QED
  BY <1>3, <1>4

-----------------------------------------------------------------------------
(* The runner, kills                                                       *)

(* Between two slices nothing is awaited. *)
LEMMA LoopingWaits ==
  ASSUME WaitInv, Turn, inflight' = {}, pc' \in {"idle", "loop"},
         pc' = "loop" => Id("plan", 0, 0, "candidate") \in DOMAIN task',
         slice' \in [got : BOOLEAN, round : BOOLEAN, error : BOOLEAN]
  PROVE  RunnerWaits'
BY DEF RunnerWaits

(* run() goes on or returns, and no row changes. *)
LEMMA StopWaits ==
  ASSUME WaitInv, task' = task, then' = Nothing, inflight' = {}, pc # "idle",
         pc' \in {"idle", "loop"}, slice' = NoSlice
  PROVE  Waited
<1>1. Id("plan", 0, 0, "candidate") \in DOMAIN task'
  BY DEF WaitInv, RunnerWaits
<1>2. slice' \in [got : BOOLEAN, round : BOOLEAN, error : BOOLEAN]
  BY DEF NoSlice
<1>3. Turn /\ ThenWaits'
  BY NoTurn, NothingWaits
<1>4. RunnerWaits'
  BY <1>1, <1>2, <1>3, LoopingWaits
<1>5. QED
  BY <1>3, <1>4 DEF Waited

(* A run() starts with its first plan. *)
LEMMA StartWaits ==
  ASSUME RunInv, WaitInv, Start
  PROVE  Waited
<1> DEFINE x == Id("plan", 0, 0, "candidate")
           row == Row("READY", 0, "unknown")
<1>1. /\ pc = "idle" /\ pc' = "loop" /\ canon' = canon
      /\ inflight' = inflight /\ then' = then /\ slice' = slice
      /\ task' = Insert(task, x, row)
  BY DEF Start
<1>2. inflight = {} /\ then = Nothing
  BY <1>1 DEF RunInv, RunnerFits
<1>3. x.line = "plan" /\ x.ch = 0 /\ x.kind = "candidate" /\ ~Background(x)
  BY DEF Id, Background
<1>4. row.status = "READY" /\ ~row.superseded
  BY RowIs
<1> HIDE DEF x, row
<1>5. /\ DOMAIN task' = DOMAIN task \cup {x} /\ \A u \in DOMAIN task : task'[u] = task[u]
      /\ x \notin DOMAIN task => task'[x] = row
  BY <1>1 DEF Insert
<1>6. ASSUME NEW u \in DOMAIN task', Open(u, task') PROVE NotPast(x, u)
  <2>1. u \in DOMAIN task /\ u.line = "look"
    BY <1>3, <1>5, <1>6 DEF Open
  <2>2. u \in Ids /\ Written(canon, task[u].basis) < u.ch /\ task[u].basis \in 0 .. Len(canon)
    BY <2>1, RowOf DEF WaitInv, RowsWait, RowWaits, RowFits
  <2>3. Written(canon, task[u].basis) \in Nat /\ u.ch \in Nat
    BY <2>2, WrittenGrows, CreativeRunAssumption DEF Ids
  <2>4. Pos(x) = 1
    BY <1>3 DEF Pos
  <2>5. QED
    BY <2>2, <2>3, <2>4 DEF NotPast
<1>7. x \notin DOMAIN task => Born(x, canon', task')
  BY <1>3, <1>4, <1>5, <1>6 DEF Born
<1>8. Turn
  BY <1>5, <1>7 DEF Turn, Turned
<1>9. ThenWaits'
  BY <1>1, <1>2, NothingWaits
<1>10. RunnerWaits'
  <2>1. slice' \in [got : BOOLEAN, round : BOOLEAN, error : BOOLEAN]
    BY <1>1 DEF WaitInv, RunnerWaits
  <2>2. QED
    BY <1>1, <1>2, <1>5, <1>8, <2>1, LoopingWaits DEF x
<1>11. QED
  BY <1>8, <1>9, <1>10 DEF Waited

(* recover_boundary, for each kind of row it answers for *)
LEMMA RecoverWaits ==
  ASSUME RunInv, WaitInv, NoLookaheadGap, NEW t \in DOMAIN task, Recover(t)
  PROVE  Waited
<1>1. /\ pc = "loop" /\ then = Nothing /\ Recoverable(t) /\ policy' = policy
      /\ canon' = canon /\ pc' = pc /\ inflight' = inflight /\ slice' = slice
  BY DEF Recover, Sync
<1>2. t \in Ids /\ inflight = {} /\ RowsWait(canon, task, policy)
  BY <1>1, RowOf DEF RunInv, RunnerFits, WaitInv
<1>3. Turn => RunnerWaits'
  <2>1. slice' \in [got : BOOLEAN, round : BOOLEAN, error : BOOLEAN]
    BY <1>1 DEF WaitInv, RunnerWaits
  <2>2. Turn => Id("plan", 0, 0, "candidate") \in DOMAIN task'
    BY <1>1 DEF WaitInv, RunnerWaits, Turn, Turned
  <2>3. QED
    BY <1>1, <1>2, <2>1, <2>2, LoopingWaits
<1>4. CASE t.kind = "acceptance"
  <2>1. then' = [op |-> "accept", t |-> t] /\ task' = task
    BY <1>4 DEF Recover, Then, InterruptedSettlement, Settlement
  <2>2. task[t].status = "WAITING_INPUT" /\ t.line # "look"
    BY <1>1, <1>4 DEF Recoverable, InterruptedSettlement, Settlement, Extendable, Is, Decidable
  <2>3. ThenWaits'
    BY <2>1, <2>2 DEF ThenWaits
  <2>4. QED
    BY <1>3, <2>1, <2>3, NoTurn DEF Waited
<1>5. CASE InterruptedSettlement(t)
  <2>1. t.kind = "commit" /\ t.line = "draft" /\ task[t].status = "RUNNING"
    BY <1>5 DEF InterruptedSettlement, Settlement, Is
  <2>2. task' = Reconciled(t) /\ then' = Nothing
    BY <1>5, <2>1 DEF Recover, Done
  <2>3. Turn
    <3>1. CASE ReceiptFound(t)
      <4> DEFINE row == Row("READY", CurrentCommit, task[t].affects)
      <4>1. task' = Insert(With(t, "SUCCEEDED"), Stage(t, "projection"), row)
        BY <2>2, <3>1 DEF Reconciled
      <4>2. row.status = "READY" /\ ~row.superseded
        BY RowIs
      <4> HIDE DEF row
      <4>3. <<t.kind, "projection">> \in Stages /\ task[t].status \notin Closed \cup {"BLOCKED"}
        BY <2>1 DEF Stages, Closed
      <4>4. QED
        BY <1>2, <2>1, <4>1, <4>2, <4>3, StageTurn
    <3>2. CASE ~ReceiptFound(t)
      <4>1. task' = With(t, "WAITING_RETRY")
        BY <2>2, <3>2 DEF Reconciled
      <4>2. Reopens(t)
        BY <2>1, <4>1, WithReopens DEF Closed
      <4>3. QED
        BY <4>2, ReopensTurn
    <3>3. QED
      BY <3>1, <3>2
  <2>4. QED
    BY <1>3, <2>2, <2>3, NothingWaits DEF Waited
<1>6. CASE t.kind = "projection"
  <2>1. RepairPostDraft(t)
    BY <1>6 DEF Recover, InterruptedSettlement, Settlement
  <2>2. t.line = "draft" /\ task[t].status = "SUCCEEDED" /\ Repairs(t)
    BY <1>1, <1>6 DEF Recoverable, InterruptedSettlement, Settlement, Is, Extendable
  <2>3. Visible(t.ch, task)
    <3>1. t = ProjectionOf(t.ch)
      BY <1>6, <2>2, ProjectionIs
    <3>2. QED
      BY <2>2, <3>1 DEF Visible, Seen
  <2>4. QED
    BY <1>1, <1>2, <2>1, <2>2, <2>3, RepairPostWaits
<1>7. CASE t.kind \notin {"acceptance", "projection"} /\ ~InterruptedSettlement(t)
  <2>1. task' = Extended(t) /\ then' = Nothing
    BY <1>7 DEF Recover, Done
  <2>2. Extendable(t) /\ Is(t, "BUDGET_REVIEW")
    BY <1>1, <1>7 DEF Recoverable
  <2>3. Turn
    <3>1. Reopens(t)
      BY <2>1, <2>2, ExtendReopens
    <3>2. QED
      BY <3>1, ReopensTurn
  <2>4. QED
    BY <1>3, <2>1, <2>3, NothingWaits DEF Waited
<1>8. QED
  BY <1>4, <1>5, <1>6, <1>7

(* When no foreground work is left and there is nothing to recover, a      *)
(* lookahead of the last chapter counts as live.                           *)
LEMMA StuckLive ==
  ASSUME RunInv, WaitInv, pc # "idle", ~Held(task), NothingToRecover, ~Projected(Target)
  PROVE  \E m, l \in DOMAIN task :
           /\ m.line = "draft" /\ m.kind = "projection" /\ m.n = 0
           /\ \A y \in DOMAIN task : ~Background(y) => Place(y) <= Place(m)
           /\ l.line = "look" /\ l.ch = m.ch /\ l.kind = "candidate"
           /\ task[l].status = "RUNNING"
<1>1. PICK m \in DOMAIN task :
        /\ m.kind = "projection" /\ m.line = "draft" /\ task[m].status = "SUCCEEDED"
        /\ ~task[m].superseded /\ m = ProjectionOf(m.ch)
        /\ m.ch = Target \/ policy.lookahead
        /\ \A y \in DOMAIN task : ~Background(y) => Place(y) <= Place(m)
  BY Stuck
<1>2. m \in Ids /\ m.ch \in 0 .. Target /\ m.ch \in Nat /\ m.n = 0 /\ Target \in Nat
  BY <1>1, RowOf, CreativeRunAssumption DEF ProjectionOf, Id
<1>3. m.ch # Target
  BY <1>1 DEF Projected, Is, Exists, ProjectionOf
<1>4. m.ch < Target /\ policy.lookahead
  BY <1>1, <1>2, <1>3
<1>5. ~NeedsRollingPlan(m)
  <2>1. ~Recoverable(m)
    BY DEF NothingToRecover
  <2>2. ~Repairs(m)
    BY <1>1, <2>1 DEF Recoverable, Is, Exists
  <2>3. QED
    BY <1>4, <2>2 DEF Repairs
<1>6. ~Replanned(m)
  <2> SUFFICES ASSUME NEW t \in DOMAIN task, t.ch = m.ch, t.line \in Foregrounds,
                      t.kind \in {"candidate", "acceptance"}
               PROVE  FALSE
    BY DEF Replanned, Foregrounds
  <2>1. t \in Ids /\ ~Background(t)
    BY RowOf DEF Background, Foregrounds
  <2>2. Pos(t) = 2 * m.ch + 1 /\ Pos(m) = 2 * m.ch
    BY <1>1 DEF Pos, Foregrounds
  <2>3. 8 * Pos(t) < Place(t) /\ Place(m) <= 8 * Pos(m) + 4 /\ Place(t) \in Nat /\ Place(m) \in Nat
    BY <1>2, <2>1, PlaceIs
  <2>4. Place(t) <= Place(m)
    BY <1>1, <2>1
  <2>5. QED
    BY <1>2, <2>2, <2>3, <2>4
<1>7. PICK l \in LookaheadsOf(m) : Live(l)
  BY <1>5, <1>6 DEF NeedsRollingPlan
<1>8. l \in DOMAIN task /\ l.line = "look" /\ l.ch = m.ch /\ l.kind # "maintenance"
  BY <1>7 DEF LookaheadsOf
<1>9. /\ RowFits(l, task[l].basis, canon, task, policy) /\ RowWaits(l, canon, task, policy)
      /\ l.kind \in Kinds
  BY <1>8, RowOf DEF WaitInv, RowsWait
<1>10. task[l].status = "RUNNING"
  <2> SUFFICES ASSUME task[l].basis = Len(canon) PROVE FALSE
    BY <1>7 DEF Live, CurrentCommit
  <2>1. Written(canon, Len(canon)) < m.ch
    BY <1>8, <1>9 DEF RowWaits
  <2>2. Written(canon, task[m].basis) = m.ch /\ task[m].basis \in 0 .. Len(canon)
    BY <1>1, TextAt, RowOf DEF RowFits
  <2>3. Written(canon, Len(canon)) \in Nat /\ m.ch <= Written(canon, Len(canon))
    BY <2>2, WrittenGrows
  <2>4. QED
    BY <1>2, <2>1, <2>3
<1>11. l.kind = "candidate"
  BY <1>8, <1>9, <1>10 DEF RowFits, RowWaits, Kinds
<1>12. QED
  BY <1>1, <1>2, <1>8, <1>10, <1>11

(* While a task is ready and there is nothing to recover, foreground work  *)
(* is left: the ready task itself, the Planner its maintenance is for, or  *)
(* the chapter the lookahead protects.                                     *)
LEMMA LoopHeld ==
  ASSUME RunInv, WaitInv, NoLookaheadGap, pc # "idle", NothingToRecover, ~Projected(Target),
         NEW r \in DOMAIN task, Runnable(r)
  PROVE  Held(task)
<1> SUFFICES ASSUME ~Held(task) PROVE FALSE
  OBVIOUS
<1>1. PICK m, l \in DOMAIN task :
        /\ m.line = "draft" /\ m.kind = "projection" /\ m.n = 0
        /\ \A y \in DOMAIN task : ~Background(y) => Place(y) <= Place(m)
        /\ l.line = "look" /\ l.ch = m.ch /\ l.kind = "candidate"
        /\ task[l].status = "RUNNING"
  BY StuckLive
<1>2. /\ r \in Ids /\ r.kind \in Kinds /\ RowFits(r, task[r].basis, canon, task, policy)
      /\ RowWaits(r, canon, task, policy) /\ task[r].status = "READY"
  BY RowOf DEF WaitInv, RowsWait, Runnable, Is
<1>3. Background(r)
  BY <1>2 DEF Held, RowWaits
<1>4. CASE r.kind = "maintenance"
  <2> DEFINE x == Stage(r, "candidate")
  <2>1. r.line # "look"
    BY <1>4 DEF NoLookaheadGap, AheadOfTheDraft
  <2>2. x.line = r.line /\ x.kind = "candidate"
    BY <1>2, StageIs DEF Kinds
  <2>3. x \in DOMAIN task /\ task[x].status = "BLOCKED" /\ ~task[x].superseded
    BY <1>2, <1>4 DEF RowWaits, PlannerWaits
  <2> HIDE DEF x
  <2>4. QED
    BY <2>1, <2>2, <2>3 DEF Held, Background
<1>5. CASE r.kind # "maintenance"
  <2> DEFINE d == Id("draft", r.ch, 0, "candidate")
  <2>1. r.line = "look"
    BY <1>3, <1>5 DEF Background
  <2>2. r.kind = "candidate"
    BY <1>2, <1>5, <2>1 DEF RowFits, RowWaits, Kinds
  <2>3. d \in DOMAIN task /\ ~Background(d) /\ Pos(d) = 2 * r.ch
    BY <1>2, <2>1 DEF RowWaits, Id, Background, Pos
  <2> HIDE DEF d
  <2>4. m \in Ids /\ d \in Ids /\ m.ch \in Nat /\ r.ch \in Nat
    BY <1>2, <2>3, RowOf, CreativeRunAssumption DEF Ids
  <2>5. Place(d) <= Place(m) /\ 8 * Pos(d) < Place(d) /\ Place(m) <= 8 * Pos(m) + 4
        /\ Place(d) \in Nat /\ Place(m) \in Nat /\ Pos(m) = 2 * m.ch
    BY <1>1, <2>3, <2>4, PlaceIs DEF Pos
  <2>6. Pos(m) <= 2 * r.ch
    <3>1. Open(r, task)
      BY <1>2, <2>1, <2>2 DEF Open, Closed
    <3>2. RowWaits(m, canon, task, policy) /\ ~Background(m)
      BY <1>1 DEF WaitInv, RowsWait, Background
    <3>3. NotPast(m, r)
      BY <3>1, <3>2 DEF RowWaits
    <3>4. QED
      BY <3>3 DEF NotPast
  <2>7. r.ch = m.ch
    BY <2>3, <2>4, <2>5, <2>6
  <2>8. r = l
    BY <1>1, <2>1, <2>2, <2>7, SameLookahead
  <2>9. QED
    BY <1>1, <1>2, <2>8
<1>6. QED
  BY <1>4, <1>5

(* The loop returns or asks for a slice. *)
LEMMA LoopWaits ==
  ASSUME RunInv, WaitInv, NoLookaheadGap, Loop
  PROVE  Waited
<1>1. /\ pc = "loop" /\ then = Nothing /\ then' = then /\ task' = task /\ inflight' = inflight
  BY DEF Loop, Sync
<1>2. inflight = {} /\ pc # "idle"
  BY <1>1 DEF RunInv, RunnerFits
<1>3. CASE pc' = "idle" /\ slice' = NoSlice
  BY <1>1, <1>2, <1>3, StopWaits
<1>4. CASE ~(pc' = "idle" /\ slice' = NoSlice)
  <2>1. /\ pc' = "poll" /\ slice' = NoSlice /\ ~Projected(Target) /\ NothingToRecover
        /\ \E t \in DOMAIN task : Runnable(t)
    BY <1>4 DEF Loop, Return, NoSlice
  <2>2. Held(task)
    BY <1>2, <2>1, LoopHeld
  <2>3. slice' \in [got : BOOLEAN, round : BOOLEAN, error : BOOLEAN]
    BY <2>1 DEF NoSlice
  <2>4. Id("plan", 0, 0, "candidate") \in DOMAIN task
    BY <1>2 DEF WaitInv, RunnerWaits
  <2>5. RunnerWaits'
    BY <1>1, <1>2, <2>2, <2>3, <2>4 DEF RunnerWaits
  <2>6. QED
    BY <1>1, <2>5, NoTurn, NothingWaits DEF Waited
<1>5. QED
  BY <1>3, <1>4

(* A slice ends. *)
LEMMA SliceWaits ==
  ASSUME WaitInv, SliceEnds, pc # "idle", task' = task, then' = Nothing, inflight' = {}
  PROVE  Waited
<1>1. pc' \in {"idle", "loop"} /\ slice' = NoSlice
  BY DEF SliceEnds, Return, NoSlice
<1>2. QED
  BY <1>1, StopWaits

(* A batch is back. *)
LEMMA BatchEndsWaits ==
  ASSUME RunInv, WaitInv, BatchEnds
  PROVE  Waited
<1>1. /\ pc = "await" /\ pc # "idle" /\ then = Nothing /\ then' = Nothing /\ task' = task
      /\ inflight' = {}
  BY DEF BatchEnds, Sync
<1>2. CASE SliceEnds
  BY <1>1, <1>2, SliceWaits
<1>3. CASE pc' \in {"idle", "loop"} /\ slice' = NoSlice
  BY <1>1, <1>3, StopWaits
<1>4. CASE pc' = "poll" /\ slice' = slice
  <2>1. RunnerWaits
    BY DEF WaitInv
  <2>2. slice' \in [got : BOOLEAN, round : BOOLEAN, error : BOOLEAN]
    BY <1>4, <2>1 DEF RunnerWaits
  <2>3. RunnerWaits'
    BY <1>1, <1>4, <2>1, <2>2 DEF RunnerWaits
  <2>4. QED
    BY <1>1, <2>3, NoTurn, NothingWaits DEF Waited
<1>5. QED
  BY <1>2, <1>3, <1>4 DEF BatchEnds, Return, NoSlice

(* A batch is claimed. *)
LEMMA ClaimWaits ==
  ASSUME RunInv, WaitInv, pc = "poll", NEW batch, batch \subseteq Ready, Claim(batch), then' = then
  PROVE  Waited
<1>1. /\ then = Nothing /\ inflight' = batch /\ pc' = "await" /\ DOMAIN task' = DOMAIN task
      /\ slice' = [slice EXCEPT !.round = FALSE]
      /\ \A t \in batch : t \in DOMAIN task /\ task[t].status = "READY"
  BY DEF RunInv, RunnerFits, Claim, Ready, Runnable, Is
<1>2. RunnerWaits /\ RowsWait(canon, task, policy)
  BY DEF WaitInv
<1>3. ASSUME NEW u \in DOMAIN task
      PROVE  /\ u \in batch => /\ task'[u].status = "RUNNING" /\ task'[u].basis = task[u].basis
                               /\ task'[u].superseded = task[u].superseded
             /\ u \notin batch => task'[u] = task[u]
  <2>1. task[u] \in Rows
    BY RowOf
  <2>2. u \in batch =>
          task'[u] = [task[u] EXCEPT !.status = "RUNNING", !.attempt = NextAttempt(u)]
    BY DEF Claim
  <2>3. u \notin batch => task'[u] = task[u]
    BY DEF Claim
  <2>4. QED
    BY <2>1, <2>2, <2>3 DEF Rows
<1>4. ASSUME NEW u \in DOMAIN task PROVE Turned(u, task, task', policy)
  <2>1. CASE u \in batch
    <3>1. u.kind # "acceptance"
      BY <1>1, <1>2, <2>1 DEF RowsWait, RowWaits
    <3>2. QED
      BY <1>1, <1>3, <2>1, <3>1 DEF Turned, Closed
  <2>2. CASE u \notin batch
    BY <1>1, <1>3, <2>2 DEF Turned
  <2>3. QED
    BY <2>1, <2>2
<1>5. Turn
  BY <1>1, <1>4 DEF Turn
<1>6. ASSUME Held(task) PROVE Held(task')
  <2>1. PICK x \in DOMAIN task :
          ~Background(x) /\ ~task[x].superseded /\ task[x].status # "SUCCEEDED"
    BY <1>6 DEF Held
  <2>2. x \in DOMAIN task' /\ ~task'[x].superseded /\ task'[x].status # "SUCCEEDED"
    BY <1>1, <1>3, <2>1
  <2>3. QED
    BY <2>1, <2>2 DEF Held
<1>7. slice' \in [got : BOOLEAN, round : BOOLEAN, error : BOOLEAN] /\ slice'.got = slice.got
  <2>1. slice \in [got : BOOLEAN, round : BOOLEAN, error : BOOLEAN]
    BY <1>2 DEF RunnerWaits
  <2>2. QED
    BY <1>1, <2>1
<1>8. RunnerWaits'
  <2>1. Id("plan", 0, 0, "candidate") \in DOMAIN task'
    BY <1>1, <1>2 DEF RunnerWaits
  <2>2. \A t \in inflight' : task'[t].status = "RUNNING"
    BY <1>1, <1>3
  <2>3. ~slice'.got => Held(task')
    BY <1>1, <1>2, <1>6, <1>7 DEF RunnerWaits
  <2>4. QED
    BY <1>7, <2>1, <2>2, <2>3 DEF RunnerWaits
<1>9. QED
  BY <1>1, <1>5, <1>8, NothingWaits DEF Waited

(* The dispatcher polls. *)
LEMMA PollWaits ==
  ASSUME RunInv, WaitInv, Poll
  PROVE  Waited
<1>1. pc = "poll" /\ pc # "idle" /\ then' = then
  BY DEF Poll
<1>2. then = Nothing /\ inflight = {}
  BY <1>1 DEF RunInv, RunnerFits
<1>3. CASE SliceEnds /\ task' = task /\ inflight' = inflight
  BY <1>1, <1>2, <1>3, SliceWaits
<1>4. CASE \E batch \in Batches :
             /\ Cardinality(batch) = 2 => \A t, u \in batch : t # u => Together(t, u)
             /\ Claim({t \in batch : Claimable(t)})
  <2>1. PICK batch \in Batches :
             /\ Cardinality(batch) = 2 => \A t, u \in batch : t # u => Together(t, u)
             /\ Claim({t \in batch : Claimable(t)})
    BY <1>4
  <2> DEFINE claimed == {t \in batch : Claimable(t)}
  <2>2. claimed \subseteq Ready
    BY <2>1, BatchFits
  <2>3. Claim(claimed)
    BY <2>1
  <2> HIDE DEF claimed
  <2>4. QED
    BY <1>1, <2>2, <2>3, ClaimWaits
<1>5. QED
  BY <1>3, <1>4 DEF Poll

(* The process is killed. *)
LEMMA KillWaits ==
  ASSUME WaitInv, Kill
  PROVE  Waited
<1>1. /\ pc # "idle" /\ pc' = "idle" /\ inflight' = {} /\ then' = Nothing /\ slice' = NoSlice
      /\ task' = task
  BY DEF Kill
<1>2. QED
  BY <1>1, StopWaits

-----------------------------------------------------------------------------
(* What advance() comes back with                                          *)

(* The task that comes back, and the ones that are still awaited *)
LEMMA ReturnsWait ==
  ASSUME RunInv, WaitInv, NEW t, NEW k, Returns(t, k)
  PROVE  /\ t \in DOMAIN task /\ t \in Ids /\ t.kind = k /\ t.kind # "acceptance"
         /\ task[t].status = "RUNNING" /\ ~task[t].superseded
         /\ then = Nothing /\ pc' = pc /\ policy' = policy
         /\ RowWaits(t, canon, task, policy) /\ RowFits(t, task[t].basis, canon, task, policy)
         /\ \A u \in inflight' : u \in inflight /\ u # t /\ u \in DOMAIN task
         /\ slice \in [got : BOOLEAN, round : BOOLEAN, error : BOOLEAN]
<1>1. /\ t \in DOMAIN task /\ t \in inflight /\ then = Nothing /\ t.kind = k
      /\ pc' = pc /\ policy' = policy /\ inflight' = inflight \ {t}
  BY ReturnsAre
<1>2. RunnerWaits /\ RowWaits(t, canon, task, policy)
  BY <1>1 DEF WaitInv, RowsWait
<1>3. task[t].status = "RUNNING"
  BY <1>1, <1>2 DEF RunnerWaits
<1>4. t.kind # "acceptance" /\ ~task[t].superseded
  BY <1>2, <1>3 DEF RowWaits
<1>5. t \in Ids /\ RowFits(t, task[t].basis, canon, task, policy)
  BY <1>1, RowOf
<1>6. inflight \subseteq DOMAIN task
  BY DEF RunInv, InflightFits
<1>7. \A u \in inflight' : u \in inflight /\ u # t /\ u \in DOMAIN task
  BY <1>1, <1>6
<1>8. slice \in [got : BOOLEAN, round : BOOLEAN, error : BOOLEAN]
  BY <1>2 DEF RunnerWaits
<1>9. QED
  BY <1>1, <1>2, <1>3, <1>4, <1>5, <1>7, <1>8

(* A candidate is produced. *)
LEMMA CandidateReadyWaits ==
  ASSUME RunInv, WaitInv, NEW t, NEW a, CandidateReady(t, a)
  PROVE  Waited
<1> DEFINE x == Stage(t, "acceptance")
           row == Row("WAITING_INPUT", task[t].basis, a)
<1>1. Returns(t, "candidate") /\ canon' = canon /\ slice' = slice
  BY DEF CandidateReady
<1>2. /\ t \in DOMAIN task /\ t \in Ids /\ t.kind = "candidate" /\ task[t].status = "RUNNING"
      /\ pc' = pc /\ \A u \in inflight' : u \in inflight /\ u # t /\ u \in DOMAIN task
      /\ slice \in [got : BOOLEAN, round : BOOLEAN, error : BOOLEAN]
  BY <1>1, ReturnsWait
<1>3. task' = Insert(With(t, "SUCCEEDED"), x, row)
  BY DEF CandidateReady
<1>4. then'.t = x /\ then'.op = IF t.line = "look" THEN "revalidate" ELSE "accept"
  BY DEF CandidateReady, Then
<1>5. row.status = "WAITING_INPUT" /\ ~row.superseded /\ row.basis = task[t].basis
  BY RowIs
<1>6. x.line = t.line
  BY <1>2, StageIs DEF Kinds
<1> HIDE DEF row
<1>7. RowsWait(canon, task, policy) /\ <<t.kind, "acceptance">> \in Stages
      /\ task[t].status \notin Closed \cup {"BLOCKED"}
  BY <1>2 DEF WaitInv, Stages, Closed
<1>8. /\ Turn /\ x \in DOMAIN task' /\ task'[x] = row
      /\ \A u \in DOMAIN task : u # t => task'[u] = task[u]
  BY <1>1, <1>2, <1>3, <1>5, <1>7, StageTurn
<1> HIDE DEF x
<1>9. ThenWaits'
  BY <1>4, <1>5, <1>6, <1>8 DEF ThenWaits
<1>10. then' # Nothing
  BY <1>4 DEF Nothing
<1>11. \A u \in inflight' : task'[u].status = task[u].status
  BY <1>2, <1>8
<1>12. RunnerWaits'
  BY <1>1, <1>2, <1>8, <1>10, <1>11, RunnerWaitsOn
<1>13. QED
  BY <1>8, <1>9, <1>12 DEF Waited

(* An attempt is settled otherwise. *)
LEMMA SettledAsWaits ==
  ASSUME RunInv, WaitInv, NEW t, NEW s, SettledAs(t, s)
  PROVE  Waited
<1>1. Returns(t, t.kind) /\ canon' = canon /\ task' = With(t, s)
  BY DEF SettledAs
<1>2. /\ t \in DOMAIN task /\ t.kind # "acceptance" /\ task[t].status = "RUNNING"
      /\ pc' = pc /\ \A u \in inflight' : u \in inflight /\ u # t /\ u \in DOMAIN task
      /\ slice \in [got : BOOLEAN, round : BOOLEAN, error : BOOLEAN]
  BY <1>1, ReturnsWait
<1>3. Reopens(t)
  <2>1. s \in Unfinished
    BY <1>2, RowOf, SettledUnfinished DEF SettledAs
  <2>2. s # "SUCCEEDED"
    BY <2>1 DEF Unfinished, Inactive
  <2>3. QED
    BY <1>1, <1>2, <2>2, WithReopens DEF Closed
<1>4. Turn /\ \A u \in DOMAIN task : u # t => task'[u] = task[u]
  BY <1>3, ReopensTurn DEF Reopens
<1>5. \A u \in inflight' : u \in inflight /\ task'[u].status = task[u].status
  BY <1>2, <1>4
<1>6. CASE ~(s = "BUDGET_REVIEW" /\ t.kind = "candidate")
  <2>1. then' = Nothing /\ Result
    BY <1>6 DEF SettledAs, Done
  <2>2. QED
    BY <1>2, <1>4, <1>5, <2>1, ResultWaits
<1>7. CASE s = "BUDGET_REVIEW" /\ t.kind = "candidate"
  <2>1. then'.op = "extend" /\ then'.t = t /\ slice' = slice
    BY <1>7 DEF SettledAs, Then
  <2>2. t \in DOMAIN task' /\ task'[t].status = "BUDGET_REVIEW"
    BY <1>1, <1>2, <1>7, WithIs
  <2>3. ThenWaits'
    BY <2>1, <2>2 DEF ThenWaits
  <2>4. then' # Nothing
    BY <2>1 DEF Nothing
  <2>5. RunnerWaits'
    BY <1>2, <1>4, <1>5, <2>1, <2>4, RunnerWaitsOn
  <2>6. QED
    BY <1>4, <2>3, <2>5 DEF Waited
<1>8. QED
  BY <1>6, <1>7

(* No row changes and the handler ends without a result. *)
LEMMA UnheardWaits ==
  ASSUME RunInv, WaitInv, then = Nothing, then' = then, task' = task, pc' = pc,
         \A u \in inflight' : u \in inflight,
         slice' \in [got : BOOLEAN, round : BOOLEAN, error : BOOLEAN], slice'.got = slice.got
  PROVE  Waited
<1>1. Turn /\ ThenWaits'
  BY NoTurn, NothingWaits
<1>2. \A u \in inflight' : u \in inflight /\ task'[u].status = task[u].status
  OBVIOUS
<1>3. Held(task) => Held(task')
  OBVIOUS
<1>4. RunnerWaits'
  BY <1>1, <1>2, <1>3, RunnerWaitsOn
<1>5. QED
  BY <1>1, <1>4 DEF Waited

(* An exception leaves the attempt open. *)
LEMMA RaisesWaits ==
  ASSUME RunInv, WaitInv, NEW t, Raises(t)
  PROVE  Waited
<1>1. /\ Returns(t, t.kind) /\ task' = task /\ then' = then
      /\ slice' = [slice EXCEPT !.error = TRUE]
  BY DEF Raises
<1>2. /\ then = Nothing /\ pc' = pc /\ \A u \in inflight' : u \in inflight
      /\ slice \in [got : BOOLEAN, round : BOOLEAN, error : BOOLEAN]
  BY <1>1, ReturnsWait
<1>3. slice' \in [got : BOOLEAN, round : BOOLEAN, error : BOOLEAN] /\ slice'.got = slice.got
  BY <1>1, <1>2
<1>4. QED
  BY <1>1, <1>2, <1>3, UnheardWaits

(* A Planner meets a Canon gap: it stays until maintenance is done. *)
LEMMA CanonGapWaits ==
  ASSUME RunInv, WaitInv, NoLookaheadGap', NEW t, CanonGap(t)
  PROVE  Waited
<1> DEFINE x == Stage(t, "maintenance")
           r == With(t, "BLOCKED")
           row == Row("READY", task[t].basis, "unknown")
<1>1. /\ Returns(t, "candidate") /\ <<t.line, t.ch>> \in GapAt /\ t.n = 0
      /\ task' = Insert(r, x, row) /\ Result /\ then' = then
  BY DEF CanonGap
<1>2. /\ t \in DOMAIN task /\ t \in Ids /\ t.kind = "candidate" /\ task[t].status = "RUNNING"
      /\ ~task[t].superseded /\ then = Nothing
      /\ pc' = pc /\ \A u \in inflight' : u \in inflight /\ u # t /\ u \in DOMAIN task
  BY <1>1, ReturnsWait
<1>3. x.line = t.line /\ x.n = 0 /\ x.kind = "maintenance" /\ Stage(x, "candidate") = t /\ x # t
  BY <1>1, <1>2, StageIs DEF Kinds
<1>4. t.line # "look"
  <2>1. x \in DOMAIN task'
    BY <1>1 DEF Insert
  <2>2. QED
    BY <1>3, <2>1 DEF NoLookaheadGap, AheadOfTheDraft
<1>5. /\ DOMAIN r = DOMAIN task /\ r[t].status = "BLOCKED"
      /\ r[t].superseded = task[t].superseded /\ r[t].basis = task[t].basis
      /\ \A u \in DOMAIN task : u # t => r[u] = task[u]
  BY <1>2, WithIs
<1>6. row.status = "READY" /\ ~row.superseded
  BY RowIs
<1> HIDE DEF x, r, row
<1>7. /\ DOMAIN task' = DOMAIN task \cup {x} /\ \A u \in DOMAIN task : task'[u] = r[u]
      /\ x \notin DOMAIN task => task'[x] = row
  BY <1>1, <1>5 DEF Insert
<1>8. ASSUME NEW u \in DOMAIN task PROVE Turned(u, task, task', policy)
  <2>1. CASE u = t
    BY <1>2, <1>5, <1>7, <2>1 DEF Turned, Closed
  <2>2. CASE u # t
    BY <1>5, <1>7, <2>2 DEF Turned
  <2>3. QED
    BY <2>1, <2>2
<1>9. ASSUME x \notin DOMAIN task PROVE Born(x, canon', task')
  <2>1. PlannerWaits(x, task')
    BY <1>2, <1>3, <1>5, <1>7 DEF PlannerWaits
  <2>2. Background(x)
    BY <1>3 DEF Background
  <2>3. QED
    BY <1>3, <1>4, <1>6, <1>7, <1>9, <2>1, <2>2 DEF Born
<1>10. Turn
  BY <1>7, <1>8, <1>9 DEF Turn
<1>11. \A u \in inflight' : u \in inflight /\ task'[u].status = task[u].status
  BY <1>2, <1>5, <1>7
<1>12. QED
  BY <1>1, <1>2, <1>10, <1>11, ResultWaits

(* The gap is closed: the Planner's retry follows it. *)
LEMMA MaintenanceWaits ==
  ASSUME RunInv, WaitInv, NoLookaheadGap, NEW t, MaintenanceCommitted(t)
  PROVE  Waited
<1> DEFINE p == Stage(t, "candidate")
           y == [p EXCEPT !.n = 1]
           r == With(t, "SUCCEEDED")
           q == Superseded(r, p)
           row == Row("READY", CurrentCommit, "unknown")
<1>1. Returns(t, "maintenance") /\ canon' = canon /\ then' = then
  BY DEF MaintenanceCommitted
<1>2. /\ t \in DOMAIN task /\ t \in Ids /\ t.kind = "maintenance" /\ task[t].status = "RUNNING"
      /\ then = Nothing /\ RowWaits(t, canon, task, policy)
      /\ RowFits(t, task[t].basis, canon, task, policy)
      /\ pc' = pc /\ \A u \in inflight' : u \in inflight /\ u # t /\ u \in DOMAIN task
      /\ slice \in [got : BOOLEAN, round : BOOLEAN, error : BOOLEAN]
  BY <1>1, ReturnsWait
<1>3. CASE task' = task /\ slice' = slice
  BY <1>1, <1>2, <1>3, UnheardWaits
<1>4. CASE ~(task' = task /\ slice' = slice)
  <2>1. task' = Insert(q, y, row) /\ Result
    BY <1>4 DEF MaintenanceCommitted
  <2>2. t.line # "look" /\ t.n = 0
    BY <1>2 DEF NoLookaheadGap, AheadOfTheDraft, RowWaits
  <2>3. /\ p \in Ids /\ p.line = t.line /\ p.ch = t.ch /\ p.n = 0 /\ p.kind = "candidate"
        /\ Stage(p, "maintenance") = t /\ p # t
    BY <1>2, <2>2, StageIs DEF Kinds
  <2>4. p \in DOMAIN task /\ task[p].status = "BLOCKED" /\ ~task[p].superseded
    BY <1>2 DEF RowWaits, PlannerWaits
  <2>5. /\ y \in Ids /\ y.line = t.line /\ y.ch = t.ch /\ y.n = 1 /\ y.kind = "candidate"
    <3> HIDE DEF p
    <3>1. QED
      BY <2>3 DEF Ids
  <2>6. /\ DOMAIN r = DOMAIN task /\ r[t].status = "SUCCEEDED"
        /\ r[t].superseded = task[t].superseded /\ r[t].basis = task[t].basis
        /\ \A u \in DOMAIN task : u # t => r[u] = task[u]
    BY <1>2, WithIs
  <2>7. row.status = "READY" /\ ~row.superseded
    BY RowIs
  <2>8. task[p] \in Rows
    BY <2>4, RowOf
  <2> HIDE DEF p, y, r, row
  <2>9. /\ DOMAIN q = DOMAIN task /\ q[p].status = "CANCELLED" /\ q[p].basis = task[p].basis
        /\ \A u \in DOMAIN task : u # p => q[u] = r[u]
    <3>1. q[p] = [task[p] EXCEPT !.status = "CANCELLED", !.superseded = TRUE]
      BY <2>3, <2>4, <2>6 DEF Superseded
    <3>2. q[p].status = "CANCELLED" /\ q[p].basis = task[p].basis
      <4> HIDE DEF q
      <4>1. QED
        BY <2>8, <3>1 DEF Rows
    <3>3. QED
      BY <2>6, <3>2 DEF Superseded
  <2> HIDE DEF q
  <2>10. /\ DOMAIN task' = DOMAIN task \cup {y} /\ \A u \in DOMAIN task : task'[u] = q[u]
         /\ y \notin DOMAIN task => task'[y] = row
    BY <2>1, <2>9 DEF Insert
  <2>11. ~Background(y) /\ ~Background(p) /\ Pos(y) = Pos(p) /\ Pos(p) \in Nat
    BY <2>2, <2>3, <2>5, PlaceIs DEF Background, Pos
  <2>12. Followed(p, task')
    <3>1. Place(p) < Place(y)
      BY <2>3, <2>5, <2>11 DEF Place, Rung
    <3>2. QED
      BY <2>10, <2>11, <3>1 DEF Followed
  <2>13. Seen(t, task')
    BY <1>2, <2>3, <2>6, <2>9, <2>10 DEF Seen
  <2>14. ASSUME NEW u \in DOMAIN task PROVE Turned(u, task, task', policy)
    <3>1. CASE u = t
      BY <1>2, <2>3, <2>6, <2>9, <2>10, <3>1 DEF Turned, Closed, Background
    <3>2. CASE u = p
      BY <2>3, <2>4, <2>9, <2>10, <2>12, <2>13, <3>2 DEF Turned, Closed
    <3>3. CASE u # t /\ u # p
      BY <2>6, <2>9, <2>10, <3>3 DEF Turned
    <3>4. QED
      BY <3>1, <3>2, <3>3
  <2>15. ASSUME y \notin DOMAIN task PROVE Born(y, canon', task')
    <3>1. RowWaits(p, canon, task, policy)
      BY <2>4 DEF WaitInv, RowsWait
    <3>2. y.line \notin {"promo", "look"}
      BY <2>2, <2>3, <2>5, <3>1 DEF RowWaits
    <3>3. ASSUME NEW u \in DOMAIN task', Open(u, task') PROVE NotPast(y, u)
      <4>1. u \in DOMAIN task /\ u # t /\ u # p
        BY <2>2, <2>3, <2>5, <2>10, <3>3 DEF Open
      <4>2. Open(u, task)
        BY <2>6, <2>9, <2>10, <3>3, <4>1 DEF Open
      <4>3. NotPast(p, u)
        BY <2>11, <3>1, <4>1, <4>2 DEF RowWaits
      <4>4. QED
        BY <2>11, <4>3 DEF NotPast
    <3>4. QED
      BY <2>5, <2>7, <2>10, <2>15, <3>2, <3>3 DEF Born
  <2>16. Turn
    BY <2>10, <2>14, <2>15 DEF Turn
  <2>17. \A u \in inflight' : u \in inflight /\ task'[u].status = task[u].status
    <3>1. \A u \in inflight' : u # p
      BY <1>2, <2>4 DEF WaitInv, RunnerWaits
    <3>2. QED
      BY <1>2, <2>6, <2>9, <2>10, <3>1
  <2>18. QED
    BY <1>1, <1>2, <2>1, <2>16, <2>17, ResultWaits
<1>5. QED
  BY <1>3, <1>4

(* A commit is recorded or made, and is to be projected. *)
LEMMA CommitsWaits ==
  ASSUME RunInv, WaitInv, NEW t, Commits(t)
  PROVE  Waited
<1> DEFINE row == Row("READY", Len(canon'), task[t].affects)
<1>1. /\ Returns(t, "commit") /\ Result /\ then' = then
      /\ task' = Insert(With(t, "SUCCEEDED"), Stage(t, "projection"), row)
  BY DEF Commits
<1>2. /\ t \in DOMAIN task /\ t.kind = "commit" /\ task[t].status = "RUNNING"
      /\ then = Nothing /\ RowFits(t, task[t].basis, canon, task, policy)
      /\ pc' = pc /\ \A u \in inflight' : u \in inflight /\ u # t /\ u \in DOMAIN task
  BY <1>1, ReturnsWait
<1>3. t.line # "look"
  BY <1>2 DEF RowFits
<1>4. row.status = "READY" /\ ~row.superseded
  BY RowIs
<1> HIDE DEF row
<1>5. RowsWait(canon, task, policy) /\ <<t.kind, "projection">> \in Stages
      /\ task[t].status \notin Closed \cup {"BLOCKED"}
  BY <1>2 DEF WaitInv, Stages, Closed
<1>6. Turn /\ \A u \in DOMAIN task : u # t => task'[u] = task[u]
  BY <1>1, <1>2, <1>3, <1>4, <1>5, StageTurn
<1>7. \A u \in inflight' : u \in inflight /\ task'[u].status = task[u].status
  BY <1>2, <1>6
<1>8. QED
  BY <1>1, <1>2, <1>6, <1>7, ResultWaits

(* The workflow commits before the runtime hears of it. *)
LEMMA WorkflowWaits ==
  ASSUME RunInv, WaitInv, NEW t, WorkflowCommits(t)
  PROVE  Waited
<1>1. /\ then = Nothing /\ then' = then /\ task' = task /\ pc' = pc /\ inflight' = inflight
      /\ slice' = slice
  BY DEF WorkflowCommits, Sync
<1>2. slice' \in [got : BOOLEAN, round : BOOLEAN, error : BOOLEAN]
  BY <1>1 DEF WaitInv, RunnerWaits
<1>3. QED
  BY <1>1, <1>2, UnheardWaits

(* The tasks a projection opens: after a plan those of the next chapter,   *)
(* after a draft, without lookahead, the one task that goes on.            *)
LEMMA SuccessorIs ==
  ASSUME NEW t, NEW x \in Successors(t)
  PROVE  /\ x.kind = "candidate" /\ x.n = 0 /\ x.line \in {"draft", "look", "plan"}
         /\ t.line # "draft" => x.line # "plan" /\ x.ch = t.ch + 1
         /\ t.line = "draft" =>
              /\ ~policy.lookahead /\ x.line # "look"
              /\ x.ch = IF x.line = "plan" THEN t.ch ELSE t.ch + 1
<1>1. \/ t.line # "draft" /\ x = Id("draft", t.ch + 1, 0, "candidate")
      \/ t.line # "draft" /\ x = Id("look", t.ch + 1, 0, "candidate")
      \/ t.line = "draft" /\ ~policy.lookahead /\ x = Id("plan", t.ch, 0, "candidate")
      \/ t.line = "draft" /\ ~policy.lookahead /\ x = Id("draft", t.ch + 1, 0, "candidate")
  BY DEF Successors
<1>2. QED
  BY <1>1 DEF Id

(* One of them is in the foreground, unless the projection is the last or  *)
(* the repair decides.                                                     *)
LEMMA SuccessorFollows ==
  ASSUME NEW t, t.kind = "projection", t.ch \in 0 .. Target, ~Paused(t, policy)
  PROVE  \E x \in Successors(t) : x.line # "look"
<1>1. t.line = "draft" => t.ch < Target /\ ~policy.lookahead
  BY CreativeRunAssumption DEF Paused
<1>2. CASE t.line # "draft"
  <2>1. Id("draft", t.ch + 1, 0, "candidate") \in Successors(t)
    BY <1>2 DEF Successors
  <2>2. QED
    BY <2>1 DEF Id
<1>3. CASE t.line = "draft"
  <2> DEFINE x == Id(IF t.ch % policy.horizon = 0 THEN "plan" ELSE "draft",
                     IF t.ch % policy.horizon = 0 THEN t.ch ELSE t.ch + 1, 0, "candidate")
  <2>1. x \in Successors(t)
    BY <1>1, <1>3 DEF Successors
  <2>2. x.line # "look"
    BY DEF Id
  <2>3. QED
    BY <2>1, <2>2
<1>4. QED
  BY <1>2, <1>3

(* A projection succeeds: what it opens follows it, and no lookahead is    *)
(* left behind.                                                            *)
LEMMA ProjectionReadyWaits ==
  ASSUME RunInv, WaitInv, NEW t, ProjectionReady(t)
  PROVE  Waited
<1> DEFINE row == Row("READY", task[t].basis, "unknown")
           r == With(t, "SUCCEEDED")
           S == Successors(t)
<1>1. Returns(t, "projection") /\ canon' = canon
  BY DEF ProjectionReady
<1>2. /\ t \in DOMAIN task /\ t \in Ids /\ t.kind = "projection" /\ task[t].status = "RUNNING"
      /\ then = Nothing /\ RowWaits(t, canon, task, policy)
      /\ RowFits(t, task[t].basis, canon, task, policy)
      /\ pc' = pc /\ \A u \in inflight' : u \in inflight /\ u # t /\ u \in DOMAIN task
      /\ slice \in [got : BOOLEAN, round : BOOLEAN, error : BOOLEAN]
  BY <1>1, ReturnsWait
<1>3. CASE \E u \in S : Collides(u, row)
  <2>1. task' = task /\ slice' = slice /\ then' = then
    BY <1>3 DEF ProjectionReady
  <2>2. QED
    BY <1>2, <2>1, UnheardWaits
<1>4. CASE ~ \E u \in S : Collides(u, row)
  <2> DEFINE ch == t.ch
  <2>1. ch \in 0 .. Target /\ ch \in Nat /\ t.line # "look"
    <3>1. t.ch \in 0 .. Target /\ Target \in Nat
      BY <1>2, RowOf, CreativeRunAssumption
    <3>2. t.line # "look"
      BY <1>2 DEF RowFits
    <3>3. QED
      BY <3>1, <3>2
  <2>2. task[t].basis = Len(canon) /\ Written(canon, Len(canon)) = ch
    <3>1. task[t].basis = Len(canon) \/ (Len(canon) > 0 /\ canon[Len(canon)] = t)
      BY <1>1, ReturnsAre
    <3>2. Len(canon) \in Nat
      BY DEF RunInv
    <3>3. ASSUME Len(canon) > 0, canon[Len(canon)] = t PROVE FALSE
      <4>1. Len(canon) \in 1 .. Len(canon)
        BY <3>2, <3>3
      <4>2. canon[Len(canon)].kind \in {"commit", "maintenance"}
        BY <4>1, CommitOf
      <4>3. QED
        BY <1>2, <3>3, <4>2
    <3>4. Written(canon, task[t].basis) = ch
      BY <1>2, TextAt
    <3>5. QED
      BY <3>1, <3>3, <3>4
  <2>3. task' = [u \in DOMAIN task \cup S |-> IF u \in DOMAIN task THEN r[u] ELSE row]
    BY <1>4 DEF ProjectionReady
  <2>4. /\ DOMAIN r = DOMAIN task /\ r[t].status = "SUCCEEDED"
        /\ r[t].superseded = task[t].superseded /\ r[t].basis = task[t].basis
        /\ \A u \in DOMAIN task : u # t => r[u] = task[u]
    BY <1>2, WithIs
  <2>5. row.status = "READY" /\ ~row.superseded /\ row.basis = task[t].basis
    BY RowIs
  <2>6. ASSUME NEW x \in S
        PROVE  /\ x.kind = "candidate" /\ x.n = 0 /\ x.line \in {"draft", "look", "plan"}
               /\ t.line # "draft" => x.line # "plan" /\ x.ch = ch + 1
               /\ t.line = "draft" =>
                    /\ ~policy.lookahead /\ x.line # "look"
                    /\ x.ch = IF x.line = "plan" THEN ch ELSE ch + 1
    BY SuccessorIs
  <2>7. ~Paused(t, policy) => \E x \in S : x.line # "look"
    BY <1>2, <2>1, SuccessorFollows
  <2>8. t.line # "draft" => Id("draft", ch + 1, 0, "candidate") \in S
    BY DEF Successors
  <2>9. \A x \in S : x \in Ids
    <3>1. Seen(t, r)
      BY <1>2, <2>4 DEF Seen
    <3>2. QED
      BY <1>2, <3>1, SuccessorFits
  <2> HIDE DEF row, r, S, ch
  <2>10. /\ DOMAIN task' = DOMAIN task \cup S /\ \A u \in DOMAIN task : task'[u] = r[u]
         /\ \A u \in S : u \notin DOMAIN task => task'[u] = row
    BY <2>3
  <2>11. /\ ~Background(t) /\ Pos(t) = IF t.line = "draft" THEN 2 * ch ELSE 2 * ch + 1
    BY <1>2, <2>1 DEF Background, Pos, ch
  <2>12. ASSUME NEW x \in S, x.line # "look"
         PROVE  /\ ~Background(x) /\ Pos(t) < Pos(x) /\ Pos(x) <= 2 * ch + 2
                /\ t.line # "draft" => Pos(x) = 2 * ch + 2
    BY <2>1, <2>6, <2>11, <2>12 DEF Background, Pos
  <2>13. Followed(t, task') \/ Paused(t, policy)
    <3> SUFFICES ASSUME ~Paused(t, policy) PROVE Followed(t, task')
      OBVIOUS
    <3>1. PICK x \in S : x.line # "look"
      BY <2>7
    <3>2. ~Background(x) /\ Pos(t) < Pos(x) /\ x \in Ids
      BY <2>9, <2>12, <3>1
    <3>3. Place(t) <= 8 * Pos(t) + 8 /\ 8 * Pos(x) < Place(x) /\ Pos(t) \in Nat /\ Pos(x) \in Nat
          /\ Place(t) \in Nat /\ Place(x) \in Nat
      BY <1>2, <3>2, PlaceIs
    <3>4. Place(t) < Place(x)
      BY <3>2, <3>3
    <3>5. QED
      BY <2>10, <3>2, <3>4 DEF Followed
  <2>14. ASSUME NEW u \in DOMAIN task PROVE Turned(u, task, task', policy)
    <3>1. CASE u = t
      BY <1>2, <2>4, <2>10, <2>13, <3>1 DEF Turned, Closed
    <3>2. CASE u # t
      BY <2>4, <2>10, <3>2 DEF Turned
    <3>3. QED
      BY <3>1, <3>2
  <2>15. ASSUME NEW y \in S, y \notin DOMAIN task PROVE Born(y, canon', task')
    <3>1. ASSUME y.line = "look"
          PROVE  /\ Id("draft", y.ch, 0, "candidate") \in DOMAIN task'
                 /\ Written(canon', task'[y].basis) < y.ch
                 /\ \A x \in DOMAIN task' : ~Background(x) => NotPast(x, y)
      <4>1. t.line # "draft" /\ y.ch = ch + 1
        BY <2>6, <3>1
      <4>2. Id("draft", y.ch, 0, "candidate") \in DOMAIN task'
        BY <2>8, <2>10, <4>1
      <4>3. Written(canon', task'[y].basis) < y.ch
        BY <1>1, <2>1, <2>2, <2>5, <2>10, <2>15, <4>1 DEF ch
      <4>4. ASSUME NEW x \in DOMAIN task', ~Background(x) PROVE Pos(x) <= 2 * ch + 2
        <5>1. CASE x \in DOMAIN task
          BY <2>2, <4>4, <5>1, PosBound
        <5>2. CASE x \in S
          BY <2>12, <4>4, <5>2 DEF Background
        <5>3. QED
          BY <2>10, <5>1, <5>2
      <4>5. 2 * y.ch = 2 * ch + 2
        BY <2>1, <4>1 DEF ch
      <4>6. QED
        BY <4>2, <4>3, <4>4, <4>5 DEF NotPast
    <3>2. ASSUME ~Background(y), NEW u \in DOMAIN task', Open(u, task') PROVE NotPast(y, u)
      <4>1. y.line # "look" /\ u.line = "look"
        BY <3>2 DEF Background, Open
      <4>2. Pos(y) <= 2 * ch + 2
        BY <2>12, <4>1
      <4>3. u.ch \in Nat /\ ch + 1 <= u.ch
        <5>1. CASE u \in DOMAIN task
          <6>1. Open(u, task) /\ u \in Ids /\ policy.lookahead
            <7>1. u # t /\ task'[u] = task[u]
              BY <2>1, <2>4, <2>10, <4>1, <5>1
            <7>2. RowFits(u, task[u].basis, canon, task, policy) /\ u \in Ids
              BY <5>1, RowOf
            <7>3. QED
              BY <3>2, <4>1, <7>1, <7>2 DEF Open, RowFits
          <6>2. u.ch \in Nat
            BY <6>1, CreativeRunAssumption DEF Ids
          <6>3. t.line # "draft"
            BY <2>6, <6>1
          <6>4. Pos(t) <= 2 * u.ch
            BY <1>2, <2>11, <5>1, <6>1 DEF RowWaits, NotPast
          <6>5. QED
            BY <2>1, <2>11, <6>2, <6>3, <6>4 DEF ch
        <5>2. CASE u \in S
          <6>1. u.ch = ch + 1
            BY <2>6, <4>1, <5>2
          <6>2. QED
            BY <2>1, <6>1 DEF ch
        <5>3. QED
          BY <2>10, <5>1, <5>2
      <4>4. Pos(y) \in Nat
        BY <2>9, PlaceIs
      <4>5. QED
        BY <2>1, <4>2, <4>3, <4>4 DEF NotPast, ch
    <3>3. QED
      BY <2>5, <2>6, <2>10, <2>15, <3>1, <3>2 DEF Born
  <2>16. Turn
    BY <2>10, <2>14, <2>15 DEF Turn
  <2>17. \A u \in inflight' : u \in inflight /\ task'[u].status = task[u].status
    BY <1>2, <2>4, <2>10
  <2>18. CASE t.line = "draft" /\ t.ch < Target /\ policy.lookahead
    <3>1. then'.op = "repair" /\ then'.t = t /\ slice' = slice
      BY <1>4, <2>18 DEF ProjectionReady, Then, S, row
    <3>2. ThenWaits'
      BY <1>1, <2>2, <3>1 DEF ThenWaits, ch
    <3>3. then' # Nothing
      BY <3>1 DEF Nothing
    <3>4. RunnerWaits'
      BY <1>2, <2>16, <2>17, <3>1, <3>3, RunnerWaitsOn
    <3>5. QED
      BY <2>16, <3>2, <3>4 DEF Waited
  <2>19. CASE ~(t.line = "draft" /\ t.ch < Target /\ policy.lookahead)
    <3>1. then' = Nothing /\ Result
      BY <1>4, <2>19 DEF ProjectionReady, Done, S, row
    <3>2. QED
      BY <1>2, <2>16, <2>17, <3>1, ResultWaits
  <2>20. QED
    BY <2>18, <2>19
<1>5. QED
  BY <1>3, <1>4

-----------------------------------------------------------------------------
(* A run that waits                                                        *)

(* Before the first run() nothing waits. *)
LEMMA WaitInit ==
  ASSUME Init
  PROVE  WaitInv
<1>1. DOMAIN task = {} /\ inflight = {} /\ pc = "idle" /\ then = Nothing /\ slice = NoSlice
  BY DEF Init
<1>2. RowsWait(canon, task, policy)
  BY <1>1 DEF RowsWait
<1>3. then.op = "none"
  BY <1>1 DEF Nothing
<1>4. ThenWaits
  BY <1>3 DEF ThenWaits
<1>5. slice \in [got : BOOLEAN, round : BOOLEAN, error : BOOLEAN]
  BY <1>1 DEF NoSlice
<1>6. RunnerWaits
  BY <1>1, <1>5 DEF RunnerWaits
<1>7. QED
  BY <1>2, <1>4, <1>6 DEF WaitInv

(* Canon only grows and the policy is pinned. *)
LEMMA StepGrows ==
  ASSUME RunInv, [Next]_vars
  PROVE  Grows(canon, canon') /\ policy' = policy
<1>1. Moves /\ canon \in Seq(Ids)
  BY RunStep DEF RunInv
<1>2. CASE canon' = canon /\ policy' = policy
  BY <1>1, <1>2 DEF Grows
<1>3. CASE \E t : Committing(t)
  <2>1. PICK t : Committing(t)
    BY <1>3
  <2>2. QED
    BY <2>1, Appended DEF Committing
<1>4. QED
  BY <1>1, <1>2, <1>3 DEF Moves, Steady, Projecting

(* No row is lost. *)
LEMMA RowsStay ==
  ASSUME RunInv, [Next]_vars
  PROVE  DOMAIN task \subseteq DOMAIN task'
BY RunStep, RevisedKept DEF Moves, Steady, Projecting, Committing, Kept

(* Every step leaves the rows waiting as they did. *)
LEMMA WaitStep ==
  ASSUME RunInv, WaitInv, NoLookaheadGap', [Next]_vars
  PROVE  WaitInv'
<1> NoLookaheadGap
  BY RowsStay DEF NoLookaheadGap
<1>1. Waited
  <2>1. CASE Start
    BY <2>1, StartWaits
  <2>2. CASE Runner
    BY <2>2, LoopWaits, PollWaits, BatchEndsWaits, RecoverWaits DEF Runner
  <2>3. CASE Handler
    BY <2>3, AutoAcceptWaits, RevalidateWaits, RepairWaits, CreatePlanningWaits,
       AutoExtendWaits DEF Handler
  <2>4. CASE Advance
    BY <2>4, CandidateReadyWaits, CommitsWaits, MaintenanceWaits, ProjectionReadyWaits DEF Advance
  <2>5. CASE Workflow
    BY <2>5, WorkflowWaits DEF Workflow
  <2>6. CASE Upset
    BY <2>6, SettledAsWaits, RaisesWaits, CanonGapWaits DEF Upset
  <2>7. CASE Kill
    BY <2>7, KillWaits
  <2>8. CASE Operator \/ \E t \in DOMAIN task : HumanDecides(t, FALSE)
    BY <2>8, ServeWaits, HumanWaits DEF Operator
  <2>9. CASE UNCHANGED vars
    <3>1. Turn
      BY <2>9, NoTurn DEF vars
    <3>2. ThenWaits' /\ RunnerWaits'
      BY <2>9 DEF vars, WaitInv, ThenWaits, RunnerWaits, Automatic, Extendable
    <3>3. QED
      BY <3>1, <3>2 DEF Waited
  <2>10. QED
    BY <2>1, <2>2, <2>3, <2>4, <2>5, <2>6, <2>7, <2>8, <2>9 DEF Next
<1>2. Grows(canon, canon') /\ policy' = policy
  BY StepGrows
<1>3. RowsWait(canon', task', policy')
  BY <1>1, <1>2, TurnWaits DEF WaitInv, Waited
<1>4. QED
  BY <1>1, <1>3 DEF WaitInv, Waited

Counted == kills \in Nat

(* Kills are counted. *)
LEMMA KillsStep ==
  ASSUME Counted, [Next]_vars
  PROVE  Counted'
<1>1. CASE Start
  BY <1>1 DEF Counted, Start
<1>2. CASE Runner
  BY <1>2 DEF Counted, Runner, Loop, Poll, BatchEnds, Recover
<1>3. CASE Handler
  BY <1>3 DEF Counted, Handler, AutoAccept, Revalidate, Repair, CreatePlanning, AutoExtend
<1>4. CASE Advance
  BY <1>4 DEF Counted, Advance, CandidateReady, Commits, MaintenanceCommitted, ProjectionReady, Returns
<1>5. CASE Workflow
  BY <1>5 DEF Counted, Workflow, WorkflowCommits
<1>6. CASE Upset
  BY <1>6 DEF Counted, Upset, SettledAs, Raises, CanonGap, Returns
<1>7. CASE Kill
  BY <1>7 DEF Counted, Kill
<1>8. CASE Operator \/ \E t \in DOMAIN task : HumanDecides(t, FALSE)
  BY <1>8 DEF Counted, Operator, Reclaim, Serve, HumanDecides
<1>9. CASE UNCHANGED vars
  BY <1>9 DEF Counted, vars
<1>10. QED
  BY <1>1, <1>2, <1>3, <1>4, <1>5, <1>6, <1>7, <1>8, <1>9 DEF Next

(* run() returns "waiting" only from the loop or at the end of a slice     *)
(* without a result.                                                       *)
LEMMA WhereItWaits ==
  ASSUME RunInv, Counted, [Next]_vars, pc # "idle", pc' = "idle",
         report' = "waiting", kills' = kills
  PROVE  /\ then = Nothing /\ RunStatus = "waiting"
         /\ \/ Loop
            \/ pc \in {"poll", "await"} /\ ~slice.got
<1>1. ASSUME Conflict PROVE FALSE
  BY <1>1 DEF Conflict, Return
<1>2. ~Start
  BY DEF Start
<1>3. ~Handler
  BY <1>1 DEF Handler, AutoAccept, Revalidate, Repair, CreatePlanning, AutoExtend
<1>4. ~Advance
  BY DEF Advance, CandidateReady, Commits, MaintenanceCommitted, ProjectionReady, Returns
<1>5. ~Workflow /\ ~Upset
  BY DEF Workflow, WorkflowCommits, Upset, SettledAs, Raises, CanonGap, Returns
<1>6. ~Kill
  BY DEF Kill, Counted
<1>7. ~(Operator \/ \E t \in DOMAIN task : HumanDecides(t, FALSE))
  BY DEF Operator, Reclaim, Serve, HumanDecides
<1>8. ~UNCHANGED vars
  BY DEF vars
<1>9. \A t \in DOMAIN task : ~Recover(t)
  BY DEF Recover
<1>10. Loop \/ Poll \/ BatchEnds
  BY <1>2, <1>3, <1>4, <1>5, <1>6, <1>7, <1>8, <1>9 DEF Next, Runner
<1>11. CASE Loop
  BY <1>11 DEF Loop, Sync, Return
<1>12. CASE Poll
  <2>1. then = Nothing
    BY <1>12 DEF Poll, RunInv, RunnerFits
  <2>2. pc = "poll" /\ SliceEnds
    BY <1>12 DEF Poll, Claim
  <2>3. QED
    BY <2>1, <2>2 DEF SliceEnds, Return
<1>13. CASE BatchEnds
  <2>1. then = Nothing /\ pc = "await" /\ SliceEnds
    BY <1>13 DEF BatchEnds, Sync, Return
  <2>2. QED
    BY <2>1 DEF SliceEnds, Return
<1>14. QED
  BY <1>10, <1>11, <1>12, <1>13

(* What is left of the foreground then is for a person. *)
LEMMA HeldIsExplained ==
  ASSUME RunInv, RunStatus = "waiting", Held(task)
  PROVE  \/ Foreground("WAITING_INPUT") \/ Foreground("WAITING_RETRY")
         \/ Foreground("BUDGET_REVIEW") \/ Foreground("READY")
<1>1. PICK x \in DOMAIN task :
        ~Background(x) /\ ~task[x].superseded /\ task[x].status # "SUCCEEDED"
  BY DEF Held
<1>2. task[x].status \in Statuses
  BY RowOf DEF Rows
<1>3. ~Foreground("RUNNING") /\ ~HasBlocking
  <2>1. ~Projected(Target)
    BY DEF RunStatus
  <2>2. ~Foreground("RUNNING")
    BY <2>1 DEF RunStatus
  <2>3. QED
    BY <2>1, <2>2 DEF RunStatus
<1>4. \A s : task[x].status = s => Foreground(s)
  BY <1>1 DEF Foreground, Is, Exists
<1>5. task[x].status \notin {"RUNNING", "BLOCKED", "CANCELLED"}
  BY <1>3, <1>4 DEF HasBlocking
<1>6. task[x].status # "RECOVERY_PENDING"
  BY <1>1, RowOf DEF Background
<1>7. QED
  BY <1>1, <1>2, <1>4, <1>5, <1>6 DEF Statuses

(* The step on which run() returns *)
LEMMA ReturnIsExplained ==
  ASSUME RunInv, WaitInv, Counted, [Next]_vars, pc # "idle", pc' = "idle",
         report' = "waiting", kills' = kills
  PROVE  \/ Foreground("WAITING_INPUT") \/ Foreground("WAITING_RETRY")
         \/ Foreground("BUDGET_REVIEW") \/ Foreground("READY")
         \/ AbandonedLookahead
<1>1. then = Nothing /\ RunStatus = "waiting" /\ (Loop \/ (pc \in {"poll", "await"} /\ ~slice.got))
  BY WhereItWaits
<1>2. CASE Held(task)
  BY <1>1, <1>2, HeldIsExplained
<1>3. CASE ~Held(task)
  <2>1. Loop
    BY <1>1, <1>3 DEF WaitInv, RunnerWaits
  <2>2. ~Projected(Target)
    BY <1>1 DEF RunStatus
  <2>3. NothingToRecover /\ inflight = {}
    BY <2>1, <2>2 DEF Loop, RunInv, RunnerFits
  <2>4. \E l \in DOMAIN task : l.line = "look" /\ task[l].status = "RUNNING"
    BY <1>3, <2>2, <2>3, StuckLive
  <2>5. QED
    BY <2>3, <2>4 DEF AbandonedLookahead, Is, Exists
<1>4. QED
  BY <1>2, <1>3

(* A run() that reports it is waiting has foreground work that waits, or a *)
(* lookahead whose attempt nobody works on or that met a Canon gap:        *)
(* whatever was retried, repaired, superseded or killed, the last          *)
(* foreground task that is done has one that follows it, ends the target,  *)
(* or is repaired by the next look at the boundary.                        *)
THEOREM AWaitingRunHasAReason == Spec => WaitIsExplained
<1> DEFINE Waits == Counted /\ (NoLookaheadGap => WaitInv)
<1>1. Init => Waits
  BY WaitInit DEF Init, Counted
<1>2. RunInv /\ Waits /\ [Next]_vars => Waits'
  <2> SUFFICES ASSUME RunInv, Waits, [Next]_vars PROVE Waits'
    OBVIOUS
  <2>1. Counted'
    BY KillsStep
  <2>2. ASSUME NoLookaheadGap' PROVE WaitInv'
    <3>1. NoLookaheadGap
      BY <2>2, RowsStay DEF NoLookaheadGap
    <3>2. QED
      BY <2>2, <3>1, WaitStep
  <2>3. QED
    BY <2>1, <2>2
<1>3. RunInv /\ Waits /\ [Next]_vars =>
        [pc # "idle" /\ pc' = "idle" /\ report' = "waiting" /\ kills' = kills =>
           \/ Foreground("WAITING_INPUT") \/ Foreground("WAITING_RETRY")
           \/ Foreground("BUDGET_REVIEW") \/ Foreground("READY")
           \/ AbandonedLookahead \/ LookaheadGap]_vars
  BY ReturnIsExplained DEF NoLookaheadGap, LookaheadGap
<1> HIDE DEF Waits
<1>4. QED
  BY <1>1, <1>2, <1>3, RunAlways, PTL DEF Spec, WaitIsExplained

=============================================================================
