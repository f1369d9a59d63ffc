------------------------ MODULE ModelAdmission_proofs ------------------------
(***************************************************************************)
(* The safety of the admission queue, for any number of calls, request     *)
(* ids, sizes, priorities and limits.                                      *)
(***************************************************************************)
EXTENDS ModelAdmission, Functions, FiniteSetTheorems, TLAPS

-----------------------------------------------------------------------------
(* A tally is a sum                                                        *)

(* The units of one member are f[x] many. *)
LEMMA UnitsOfOne ==
  ASSUME NEW x, NEW k \in Nat
  PROVE  IsFiniteSet({x} \X (1 .. k)) /\ Cardinality({x} \X (1 .. k)) = k
<1>1. IsFiniteSet({x}) /\ Cardinality({x}) = 1
  BY FS_Singleton
<1>2. IsFiniteSet(1 .. k) /\ Cardinality(1 .. k) = k
  BY FS_Interval
<1> DEFINE one == {x}
           units == 1 .. k
<1> HIDE DEF one, units
<1>3. IsFiniteSet(one \X units) /\ Cardinality(one \X units) = Cardinality(one) * Cardinality(units)
  BY <1>1, <1>2, FS_Product DEF one, units
<1>4. Cardinality(one \X units) = k
  BY <1>1, <1>2, <1>3 DEF one, units
<1>5. QED
  BY <1>3, <1>4 DEF one, units

(* Finitely many members hold finitely many units. *)
LEMMA UnitsFinite ==
  ASSUME NEW S, IsFiniteSet(S), NEW f, \A x \in S : f[x] \in Nat
  PROVE  IsFiniteSet(Units(f, S)) /\ Tally(f, S) \in Nat
<1> DEFINE held == {{x} \X (1 .. f[x]) : x \in S}
           of == [x \in S |-> {x} \X (1 .. f[x])]
<1>1. of \in Surjection(S, held)
  BY DEF Surjection
<1>2. IsFiniteSet(held)
  BY <1>1, FS_Surjection
<1>3. \A T \in held : IsFiniteSet(T)
  <2> SUFFICES ASSUME NEW x \in S PROVE IsFiniteSet({x} \X (1 .. f[x]))
    OBVIOUS
  <2>1. QED
    BY UnitsOfOne
<1> HIDE DEF held
<1>4. IsFiniteSet(UNION held)
  BY <1>2, <1>3, FS_UNION
<1>5. QED
  BY <1>4, FS_CardinalityType DEF Units, Tally, held

(* No members hold nothing, *)
LEMMA TallyEmpty ==
  ASSUME NEW f
  PROVE  Tally(f, {}) = 0
<1>1. Units(f, {}) = {}
  BY DEF Units
<1>2. QED
  BY <1>1, FS_EmptySet DEF Tally

(* one holds what it holds. *)
LEMMA TallyOne ==
  ASSUME NEW f, NEW x, f[x] \in Nat
  PROVE  Tally(f, {x}) = f[x]
<1>1. Units(f, {x}) = {x} \X (1 .. f[x])
  BY DEF Units
<1>2. QED
  BY <1>1, UnitsOfOne DEF Tally

(* The members of two sets without a common one are counted apart. *)
LEMMA TallyUnion ==
  ASSUME NEW S, IsFiniteSet(S), NEW T, IsFiniteSet(T), S \cap T = {},
         NEW f, \A x \in S \cup T : f[x] \in Nat
  PROVE  Tally(f, S \cup T) = Tally(f, S) + Tally(f, T)
<1>1. Units(f, S \cup T) = Units(f, S) \cup Units(f, T)
  BY DEF Units
<1>2. Units(f, S) \cap Units(f, T) = {}
  BY DEF Units
<1>3. /\ IsFiniteSet(Units(f, S)) /\ Tally(f, S) \in Nat
      /\ IsFiniteSet(Units(f, T)) /\ Tally(f, T) \in Nat
  BY UnitsFinite
<1> DEFINE us == Units(f, S)
           ut == Units(f, T)
<1> HIDE DEF us, ut
<1>4. Cardinality(us \cup ut) = Cardinality(us) + Cardinality(ut) - Cardinality(us \cap ut)
  BY <1>3, FS_Union DEF us, ut
<1>5. Cardinality(us \cup ut) = Cardinality(us) + Cardinality(ut)
  <2>1. Cardinality(us \cap ut) = 0
    BY <1>2, FS_EmptySet DEF us, ut
  <2>2. Cardinality(us) \in Nat /\ Cardinality(ut) \in Nat
    BY <1>3 DEF us, ut, Tally
  <2>3. QED
    BY <1>4, <2>1, <2>2
<1>6. QED
  BY <1>1, <1>5 DEF Tally, us, ut

-----------------------------------------------------------------------------
(* The inductive invariants                                                *)

(* A reservation is made once by a call whose thread came out of the queue, *)
(* an entry in the queue belongs to a thread inside acquire().             *)
Placed ==
  /\ \A c \in active : thread[c] \in {"admitted", "gone"}
  /\ \A c \in queue : thread[c] \in {"asleep", "awake"}
  /\ \A c \in Calls : caller[c] = "new" => thread[c] = "none"
  /\ \A c \in Calls : thread[c] \in {"none", "started"} => arrival[c] = 0

(* The future is open while the thread is at work, and holds a lease only  *)
(* after it; the coroutine gets past it only with what it holds.           *)
Linked ==
  \A c \in Calls :
    /\ thread[c] \in {"started", "asleep", "awake", "admitted", "raised"} =>
         future[c] \in {"pending", "cancelled"}
    /\ caller[c] = "calling" => future[c] = "lease"

CapacityInv == TypeOK /\ Placed /\ Linked /\ WithinCapacity

(* What a lease needs besides: a future nobody waits for any more is not   *)
(* pending.                                                                *)
Awaited == \A c \in Calls : future[c] = "pending" => caller[c] = "waiting"

(* A reservation is in the hands of its thread or of a coroutine that has  *)
(* not ended with it.                                                      *)
Owned ==
  /\ \A c \in active : \/ thread[c] = "admitted"
                       \/ future[c] = "lease" /\ caller[c] # "ended"
  /\ \A c \in queue : thread[c] \in {"asleep", "awake"}

LeaseInv == CapacityInv /\ Awaited /\ Owned

-----------------------------------------------------------------------------
(* The steps                                                               *)

Threads == {"none", "started", "asleep", "awake", "admitted", "raised", "gone"}

(* A thread is left alone, or notified. *)
Nudged(x, y) == y = x \/ (x = "asleep" /\ y = "awake")

(* A notify wakes sleepers and nobody else. *)
LEMMA WokenFacts ==
  ASSUME NEW f \in [Calls -> Threads]
  PROVE  /\ Woken(f) \in [Calls -> Threads]
         /\ \A c \in Calls : Nudged(f[c], Woken(f)[c])
<1>1. \A c \in Calls : Woken(f)[c] = IF f[c] = "asleep" THEN "awake" ELSE f[c]
  BY DEF Woken
<1>2. \A c \in Calls : (IF f[c] = "asleep" THEN "awake" ELSE f[c]) \in Threads
  BY DEF Threads
<1>3. Woken(f) \in [Calls -> Threads]
  BY <1>2 DEF Woken
<1>4. \A c \in Calls : Nudged(f[c], Woken(f)[c])
  BY <1>1 DEF Nudged
<1>5. QED
  BY <1>3, <1>4

(* There are finitely many calls. *)
LEMMA CallsFinite ==
  ASSUME NEW S, S \subseteq Calls
  PROVE  IsFiniteSet(S) /\ Cardinality(S) \in Nat
<1>1. IsFiniteSet(Calls)
  BY AdmissionAssumption, FS_Interval DEF Calls
<1>2. IsFiniteSet(S)
  BY <1>1, FS_Subset
<1>3. QED
  BY <1>2, FS_CardinalityType

(* Admission: within the limits, and counted once. *)
LEMMA AdmissionCounts ==
  ASSUME CapacityInv, NEW c \in Calls, c \notin active, HasCapacity(c),
         active' = active \cup {c}, kv' = kv + Tokens[c]
  PROVE  WithinCapacity' /\ kv' \in Nat
<1>1. /\ IsFiniteSet(active) /\ IsFiniteSet({c}) /\ Cardinality(active) \in Nat
      /\ active \cap {c} = {} /\ \A d \in active \cup {c} : Tokens[d] \in Nat
      /\ kv \in Nat /\ Tokens[c] \in Nat /\ Budget \in Nat /\ Limit \in Nat
  BY CallsFinite, FS_Singleton, AdmissionAssumption DEF CapacityInv, TypeOK
<1>2. Tally(Tokens, active \cup {c}) = Tally(Tokens, active) + Tokens[c]
  <2>1. Tally(Tokens, active \cup {c}) = Tally(Tokens, active) + Tally(Tokens, {c})
    BY <1>1, TallyUnion
  <2>2. QED
    BY <1>1, <2>1, TallyOne
<1>3. Cardinality(active \cup {c}) = Cardinality(active) + 1
  BY <1>1, FS_AddElement
<1>4. QED
  BY <1>1, <1>2, <1>3 DEF HasCapacity, WithinCapacity, CapacityInv

(* A release gives back what the reservation took. *)
LEMMA ReleaseCounts ==
  ASSUME CapacityInv, NEW c \in Calls, ReleaseReservation(c)
  PROVE  WithinCapacity' /\ kv' \in Nat /\ active' \subseteq active /\ c \notin active'
<1> DEFINE held == {d \in active : IdOf[d] = IdOf[c]}
           rest == active \ held
<1>1. /\ IsFiniteSet(active) /\ IsFiniteSet(held) /\ IsFiniteSet(rest)
      /\ Cardinality(active) \in Nat /\ Cardinality(rest) \in Nat
      /\ Cardinality(rest) <= Cardinality(active)
  BY CallsFinite, FS_Subset DEF CapacityInv, TypeOK
<1>2. /\ active = rest \cup held /\ rest \cap held = {} /\ c \notin rest
      /\ \A d \in rest \cup held : Tokens[d] \in Nat
      /\ kv \in Nat /\ Budget \in Nat /\ Limit \in Nat
  BY AdmissionAssumption DEF CapacityInv, TypeOK
<1>3. active' = rest /\ kv' = kv - Tally(Tokens, held)
  BY DEF ReleaseReservation
<1> HIDE DEF held, rest
<1>4. Tally(Tokens, rest \cup held) = Tally(Tokens, rest) + Tally(Tokens, held)
  BY <1>1, <1>2, TallyUnion
<1>5. Tally(Tokens, rest) \in Nat /\ Tally(Tokens, held) \in Nat
  BY <1>1, <1>2, UnitsFinite
<1>6. kv = Tally(Tokens, rest) + Tally(Tokens, held) /\ kv <= Budget
      /\ Cardinality(active) <= Limit
  BY <1>2, <1>4 DEF CapacityInv, WithinCapacity
<1>7. kv' = Tally(Tokens, rest) /\ kv' <= Budget
  BY <1>2, <1>3, <1>5, <1>6
<1>8. Cardinality(rest) <= Limit
  BY <1>1, <1>2, <1>6
<1>9. QED
  BY <1>2, <1>3, <1>5, <1>7, <1>8 DEF WithinCapacity

-----------------------------------------------------------------------------
(* Capacity                                                                *)

(* What one pass of the loop in acquire() does to the call that makes it   *)
(* and to the others.                                                      *)
LEMMA PassFacts ==
  ASSUME CapacityInv, NEW c \in Calls, NEW q, q = queue \cup {c}, NEW a, LoopPass(c, q, a),
         thread[c] \in {"started", "awake"}
  PROVE  /\ WithinCapacity' /\ kv' \in Nat /\ active' \subseteq active \cup {c}
         /\ queue' \subseteq queue \cup {c}
         /\ thread' \in [Calls -> Threads]
         /\ \/ c \in active' /\ c \notin queue' /\ thread'[c] = "admitted"
            \/ c \notin active' /\ c \in queue' /\ thread'[c] = "asleep"
            \/ c \notin active' /\ c \notin queue' /\ thread'[c] = "raised"
         /\ \A d \in Calls \ {c} : Nudged(thread[d], thread'[d])
<1>1. c \notin active /\ TypeOK
  BY DEF CapacityInv, Placed
<1>2. CASE IsHead(c, q, a) /\ HasCapacity(c)
  <2>1. /\ queue' = q \ {c} /\ active' = active \cup {c} /\ kv' = kv + Tokens[c]
        /\ thread' = [thread EXCEPT ![c] = "admitted"]
    BY <1>2 DEF LoopPass
  <2>2. WithinCapacity' /\ kv' \in Nat
    BY <1>1, <1>2, <2>1, AdmissionCounts
  <2>3. /\ thread' \in [Calls -> Threads] /\ thread'[c] = "admitted"
        /\ \A d \in Calls \ {c} : Nudged(thread[d], thread'[d])
    BY <1>1, <2>1 DEF TypeOK, Threads, Nudged
  <2>4. QED
    BY <2>1, <2>2, <2>3
<1>3. CASE ~(IsHead(c, q, a) /\ HasCapacity(c))
  <2>1. UNCHANGED <<active, kv>>
    BY <1>3 DEF LoopPass
  <2>2. WithinCapacity' /\ kv' \in Nat
    BY <1>1, <2>1 DEF CapacityInv, WithinCapacity, TypeOK
  <2>3. CASE queue' = q /\ thread' = [thread EXCEPT ![c] = "asleep"]
    <3>1. /\ thread' \in [Calls -> Threads] /\ thread'[c] = "asleep"
          /\ \A d \in Calls \ {c} : Nudged(thread[d], thread'[d])
      BY <1>1, <2>3 DEF TypeOK, Threads, Nudged
    <3>2. QED
      BY <1>1, <2>1, <2>2, <2>3, <3>1
  <2>4. CASE queue' = q \ {c} /\ thread' = Woken([thread EXCEPT ![c] = "raised"])
    <3> DEFINE f == [thread EXCEPT ![c] = "raised"]
    <3>1. /\ f \in [Calls -> Threads]
          /\ f[c] = "raised" /\ \A d \in Calls \ {c} : f[d] = thread[d]
      BY <1>1 DEF TypeOK, Threads
    <3> HIDE DEF f
    <3>2. /\ thread' \in [Calls -> Threads]
          /\ \A d \in Calls : Nudged(f[d], thread'[d])
      BY <2>4, <3>1, WokenFacts DEF f
    <3>3. thread'[c] = "raised" /\ \A d \in Calls \ {c} : Nudged(thread[d], thread'[d])
      BY <3>1, <3>2 DEF Nudged
    <3>4. QED
      BY <1>1, <2>1, <2>2, <2>4, <3>2, <3>3
  <2>5. QED
    BY <1>3, <2>3, <2>4 DEF LoopPass
<1>4. QED
  BY <1>2, <1>3

(* A sequence number is at most the number of calls. *)
LEMMA ArrivalType ==
  ASSUME CapacityInv, NEW c \in Calls, thread[c] = "started"
  PROVE  Cardinality({d \in Calls : arrival[d] > 0}) + 1 \in 1 .. NumCalls
<1> DEFINE S == {d \in Calls : arrival[d] > 0}
           others == Calls \ {c}
<1>1. S \subseteq others
  BY DEF CapacityInv, Placed
<1>2. IsFiniteSet(Calls) /\ Cardinality(Calls) = NumCalls /\ NumCalls \in Nat
  BY AdmissionAssumption, FS_Interval DEF Calls
<1>3. IsFiniteSet(others) /\ Cardinality(others) = NumCalls - 1
  BY <1>2, FS_RemoveElement
<1> HIDE DEF S, others
<1>4. Cardinality(S) <= Cardinality(others) /\ IsFiniteSet(S)
  BY <1>1, <1>3, FS_Subset
<1>5. Cardinality(S) \in Nat
  BY <1>4, FS_CardinalityType
<1>6. Cardinality(S) + 1 \in 1 .. NumCalls
  BY <1>2, <1>3, <1>4, <1>5
<1>7. QED
  BY <1>6 DEF S

(* A pass of the loop keeps the invariant, whoever comes to the queue. *)
LEMMA PassPreserves ==
  ASSUME CapacityInv, NEW c \in Calls, NEW q, q = queue \cup {c}, NEW a, LoopPass(c, q, a),
         thread[c] \in {"started", "awake"},
         arrival' \in [Calls -> 0 .. NumCalls],
         \A d \in Calls \ {c} : arrival'[d] = arrival[d],
         UNCHANGED <<caller, future>>
  PROVE  CapacityInv'
<1>1. /\ WithinCapacity' /\ kv' \in Nat /\ active' \subseteq active \cup {c}
      /\ queue' \subseteq queue \cup {c}
      /\ thread' \in [Calls -> Threads]
      /\ \/ c \in active' /\ c \notin queue' /\ thread'[c] = "admitted"
         \/ c \notin active' /\ c \in queue' /\ thread'[c] = "asleep"
         \/ c \notin active' /\ c \notin queue' /\ thread'[c] = "raised"
      /\ \A d \in Calls \ {c} : Nudged(thread[d], thread'[d])
  BY PassFacts
<1>2. TypeOK'
  BY <1>1 DEF CapacityInv, TypeOK, Threads
<1>3. Placed'
  <2>1. \A d \in active' : thread'[d] \in {"admitted", "gone"}
    BY <1>1 DEF CapacityInv, TypeOK, Placed, Nudged
  <2>2. \A d \in queue' : thread'[d] \in {"asleep", "awake"}
    BY <1>1 DEF CapacityInv, TypeOK, Placed, Nudged
  <2>3. \A d \in Calls : caller'[d] = "new" => thread'[d] = "none"
    BY <1>1 DEF CapacityInv, Placed, Nudged
  <2>4. \A d \in Calls : thread'[d] \in {"none", "started"} => arrival'[d] = 0
    BY <1>1 DEF CapacityInv, Placed, Nudged
  <2>5. QED
    BY <2>1, <2>2, <2>3, <2>4 DEF Placed
<1>4. Linked'
  BY <1>1 DEF CapacityInv, Linked, Nudged
<1>5. QED
  BY <1>1, <1>2, <1>3, <1>4 DEF CapacityInv

(* A step that admits nobody: one call moves to its next state, some are   *)
(* notified, entries and reservations may go.                              *)
LEMMA MovePreserves ==
  ASSUME CapacityInv, NEW c \in Calls,
         TypeOK', WithinCapacity', arrival' = arrival,
         queue' \subseteq queue, active' \subseteq active,
         \A d \in Calls \ {c} : /\ caller'[d] = caller[d] /\ future'[d] = future[d]
                                /\ Nudged(thread[d], thread'[d]),
         c \in active' => thread'[c] \in {"admitted", "gone"},
         c \in queue' => thread'[c] \in {"asleep", "awake"},
         caller'[c] = "new" => thread'[c] = "none",
         thread'[c] \in {"none", "started"} => arrival[c] = 0,
         thread'[c] \in {"started", "asleep", "awake", "admitted", "raised"} =>
           future'[c] \in {"pending", "cancelled"},
         caller'[c] = "calling" => future'[c] = "lease"
  PROVE  CapacityInv'
<1>1. Placed'
  <2>1. \A d \in active' : thread'[d] \in {"admitted", "gone"}
    BY DEF CapacityInv, TypeOK, Placed, Nudged
  <2>2. \A d \in queue' : thread'[d] \in {"asleep", "awake"}
    BY DEF CapacityInv, TypeOK, Placed, Nudged
  <2>3. \A d \in Calls : caller'[d] = "new" => thread'[d] = "none"
    BY DEF CapacityInv, Placed, Nudged
  <2>4. \A d \in Calls : thread'[d] \in {"none", "started"} => arrival'[d] = 0
    BY DEF CapacityInv, Placed, Nudged
  <2>5. QED
    BY <2>1, <2>2, <2>3, <2>4 DEF Placed
<1>2. Linked'
  BY DEF CapacityInv, Linked, Nudged
<1>3. QED
  BY <1>1, <1>2 DEF CapacityInv

(* What a release does to the threads. *)
LEMMA ReleaseThreads ==
  ASSUME TypeOK, NEW c \in Calls, ReleaseReservation(c)
  PROVE  /\ thread' \in [Calls -> Threads] /\ thread'[c] = "gone"
         /\ \A d \in Calls \ {c} : Nudged(thread[d], thread'[d])
<1> DEFINE f == [thread EXCEPT ![c] = "gone"]
<1>1. /\ f \in [Calls -> Threads] /\ f[c] = "gone"
      /\ \A d \in Calls \ {c} : f[d] = thread[d]
  BY DEF TypeOK, Threads
<1>2. thread' = Woken(f)
  BY DEF ReleaseReservation
<1> HIDE DEF f
<1>3. /\ thread' \in [Calls -> Threads]
      /\ \A d \in Calls : Nudged(f[d], thread'[d])
  BY <1>1, <1>2, WokenFacts
<1>4. QED
  BY <1>1, <1>3 DEF Nudged

(* Every step keeps the queue within capacity. *)
LEMMA CapacityStep == CapacityInv /\ [Next \/ Done]_vars => CapacityInv'
<1> SUFFICES ASSUME CapacityInv, [Next \/ Done]_vars PROVE CapacityInv'
  OBVIOUS
<1>0. TypeOK
  BY DEF CapacityInv
<1>1. ASSUME NEW c \in Calls, GenerateText(c) PROVE CapacityInv'
  <2>1. /\ caller[c] = "new" /\ caller' = [caller EXCEPT ![c] = "waiting"]
        /\ thread' = [thread EXCEPT ![c] = "started"]
        /\ future' = [future EXCEPT ![c] = "pending"]
        /\ UNCHANGED <<queue, arrival, active, kv>>
    BY <1>1 DEF GenerateText
  <2>2. thread[c] = "none" /\ c \notin queue /\ c \notin active /\ arrival[c] = 0
    BY <2>1 DEF CapacityInv, Placed
  <2>3. TypeOK' /\ WithinCapacity'
    BY <1>0, <2>1 DEF CapacityInv, TypeOK, WithinCapacity
  <2>4. /\ caller'[c] = "waiting" /\ thread'[c] = "started" /\ future'[c] = "pending"
        /\ \A d \in Calls \ {c} : /\ caller'[d] = caller[d] /\ future'[d] = future[d]
                                  /\ Nudged(thread[d], thread'[d])
    BY <1>0, <2>1 DEF TypeOK, Nudged
  <2>5. QED
    BY <2>1, <2>2, <2>3, <2>4, MovePreserves
<1>2. ASSUME NEW c \in Calls, Acquire(c) PROVE CapacityInv'
  <2>1. CASE Tokens[c] > Budget \/ Duplicate(c)
    <3>1. /\ thread[c] = "started" /\ thread' = [thread EXCEPT ![c] = "raised"]
          /\ UNCHANGED <<caller, future, queue, arrival, active, kv>>
      BY <1>2, <2>1 DEF Acquire
    <3>2. /\ c \notin queue /\ c \notin active /\ future[c] \in {"pending", "cancelled"}
          /\ caller[c] # "new" /\ caller[c] # "calling"
      BY <3>1 DEF CapacityInv, Placed, Linked
    <3>3. TypeOK' /\ WithinCapacity'
      BY <1>0, <3>1 DEF CapacityInv, TypeOK, WithinCapacity
    <3>4. thread'[c] = "raised" /\ \A d \in Calls \ {c} : Nudged(thread[d], thread'[d])
      BY <1>0, <3>1 DEF TypeOK, Nudged
    <3>5. QED
      BY <3>1, <3>2, <3>3, <3>4, MovePreserves
  <2>2. CASE ~(Tokens[c] > Budget \/ Duplicate(c))
    <3> DEFINE k == Cardinality({d \in Calls : arrival[d] > 0}) + 1
               a == [arrival EXCEPT ![c] = k]
    <3>1. /\ thread[c] = "started" /\ arrival' = a /\ LoopPass(c, queue \cup {c}, a)
          /\ UNCHANGED <<caller, future>>
      BY <1>2, <2>2 DEF Acquire
    <3>2. k \in 0 .. NumCalls
      BY <3>1, ArrivalType
    <3> HIDE DEF k
    <3>3. /\ arrival' \in [Calls -> 0 .. NumCalls]
          /\ \A d \in Calls \ {c} : arrival'[d] = arrival[d]
      BY <1>0, <3>1, <3>2 DEF TypeOK
    <3> HIDE DEF a
    <3>4. QED
      BY <3>1, <3>3, PassPreserves
  <2>3. QED
    BY <2>1, <2>2
<1>3. ASSUME NEW c \in Calls, WaitReturns(c) PROVE CapacityInv'
  <2>1. /\ thread[c] = "awake" /\ LoopPass(c, queue, arrival) /\ queue = queue \cup {c}
        /\ UNCHANGED <<caller, future, arrival>>
    BY <1>3 DEF WaitReturns
  <2>2. QED
    BY <1>0, <2>1, PassPreserves DEF TypeOK
(* The thread ends its wait without an entry, or wakes up. *)
<1>4. ASSUME NEW c \in Calls, WaitCancelled(c) \/ WaitTimesOut(c) PROVE CapacityInv'
  <2>1. /\ UNCHANGED <<caller, future, queue, arrival, active, kv>>
        /\ \/ /\ thread[c] = "awake" /\ c \notin queue
              /\ thread' = [thread EXCEPT ![c] = "raised"]
           \/ /\ thread[c] = "asleep"
              /\ thread' = [thread EXCEPT ![c] = "awake"]
    BY <1>4 DEF WaitCancelled, WaitTimesOut
  <2>2. /\ c \notin active /\ future[c] \in {"pending", "cancelled"}
        /\ caller[c] # "new" /\ caller[c] # "calling"
    BY <2>1 DEF CapacityInv, Placed, Linked
  <2>3. TypeOK' /\ WithinCapacity'
    BY <1>0, <2>1 DEF CapacityInv, TypeOK, WithinCapacity
  <2>4. /\ thread'[c] \in {"raised", "awake"} /\ (c \in queue' => thread'[c] = "awake")
        /\ \A d \in Calls \ {c} : Nudged(thread[d], thread'[d])
    BY <1>0, <2>1 DEF TypeOK, Nudged
  <2>5. QED
    BY <2>1, <2>2, <2>3, <2>4, MovePreserves
(* A lease is given back, by settle_result or at the end of the call. *)
<1>5. ASSUME NEW c \in Calls, ReleaseReservation(c), future' = future, caller'[c] # "new",
             caller'[c] # "calling", c \notin queue, UNCHANGED <<queue, arrival>>,
             caller' \in [Calls -> {"new", "waiting", "calling", "ended", "cancelled"}],
             \A d \in Calls \ {c} : caller'[d] = caller[d]
      PROVE  CapacityInv'
  <2>1. WithinCapacity' /\ kv' \in Nat /\ active' \subseteq active /\ c \notin active'
    BY <1>5, ReleaseCounts
  <2>2. /\ thread' \in [Calls -> Threads] /\ thread'[c] = "gone"
        /\ \A d \in Calls \ {c} : Nudged(thread[d], thread'[d])
    BY <1>0, <1>5, ReleaseThreads
  <2>3. TypeOK'
    BY <1>0, <1>5, <2>1, <2>2 DEF TypeOK, Threads
  <2>4. QED
    BY <1>5, <2>1, <2>2, <2>3, MovePreserves
<1>6. ASSUME NEW c \in Calls, SettleResult(c) PROVE CapacityInv'
  <2>1. thread[c] = "admitted" /\ UNCHANGED <<caller, queue, arrival>>
    BY <1>6 DEF SettleResult
  <2>2. c \notin queue /\ caller[c] # "new" /\ caller[c] # "calling"
    BY <2>1 DEF CapacityInv, Placed, Linked
  <2>3. CASE future[c] = "cancelled"
    BY <1>0, <1>5, <1>6, <2>1, <2>2, <2>3 DEF SettleResult, TypeOK
  <2>4. CASE future[c] # "cancelled"
    <3>1. /\ future' = [future EXCEPT ![c] = "lease"] /\ thread' = [thread EXCEPT ![c] = "gone"]
          /\ UNCHANGED <<active, kv>>
      BY <1>6, <2>4 DEF SettleResult
    <3>2. TypeOK' /\ WithinCapacity'
      BY <1>0, <2>1, <3>1 DEF CapacityInv, TypeOK, WithinCapacity
    <3>3. /\ thread'[c] = "gone" /\ future'[c] = "lease"
          /\ \A d \in Calls \ {c} : future'[d] = future[d] /\ Nudged(thread[d], thread'[d])
      BY <1>0, <3>1 DEF TypeOK, Nudged
    <3>4. QED
      BY <2>1, <2>2, <3>1, <3>2, <3>3, MovePreserves
  <2>5. QED
    BY <2>3, <2>4
<1>7. ASSUME NEW c \in Calls, SettleError(c) PROVE CapacityInv'
  <2> DEFINE e == IF future[c] = "cancelled" THEN future[c] ELSE "error"
  <2>1. /\ thread[c] = "raised" /\ thread' = [thread EXCEPT ![c] = "gone"]
        /\ future' = [future EXCEPT ![c] = e]
        /\ UNCHANGED <<caller, queue, arrival, active, kv>>
    BY <1>7 DEF SettleError
  <2>2. c \notin queue /\ c \notin active /\ caller[c] # "new" /\ caller[c] # "calling"
    BY <2>1 DEF CapacityInv, Placed, Linked
  <2>3. e \in {"error", "cancelled"}
    OBVIOUS
  <2> HIDE DEF e
  <2>4. TypeOK' /\ WithinCapacity'
    BY <1>0, <2>1, <2>3 DEF CapacityInv, TypeOK, WithinCapacity
  <2>5. /\ thread'[c] = "gone"
        /\ \A d \in Calls \ {c} : future'[d] = future[d] /\ Nudged(thread[d], thread'[d])
    BY <1>0, <2>1 DEF TypeOK, Nudged
  <2>6. QED
    BY <2>1, <2>2, <2>4, <2>5, MovePreserves
<1>8. ASSUME NEW c \in Calls, Resume(c) PROVE CapacityInv'
  <2> DEFINE s == IF future[c] = "lease" THEN "calling" ELSE "ended"
  <2>1. /\ future[c] \in {"lease", "error"} /\ caller' = [caller EXCEPT ![c] = s]
        /\ caller[c] = "waiting" /\ UNCHANGED <<thread, future, queue, arrival, active, kv>>
    BY <1>8 DEF Resume
  <2>2. s \in {"calling", "ended"} /\ (s = "calling" => future[c] = "lease")
    OBVIOUS
  <2> HIDE DEF s
  <2>3. TypeOK' /\ WithinCapacity'
    BY <1>0, <2>1, <2>2 DEF CapacityInv, TypeOK, WithinCapacity
  <2>4. caller'[c] = s /\ \A d \in Calls \ {c} : caller'[d] = caller[d]
    BY <1>0, <2>1 DEF TypeOK
  <2>5. \A d \in Calls : Nudged(thread[d], thread'[d])
    BY <2>1 DEF Nudged
  <2>6. /\ c \in active => thread[c] \in {"admitted", "gone"}
        /\ c \in queue => thread[c] \in {"asleep", "awake"}
        /\ thread[c] \notin {"started", "asleep", "awake", "admitted", "raised"}
        /\ thread[c] \in {"none", "started"} => arrival[c] = 0
    BY <2>1 DEF CapacityInv, Placed, Linked
  <2>7. QED
    BY <2>1, <2>2, <2>3, <2>4, <2>5, <2>6, MovePreserves
<1>9. ASSUME NEW c \in Calls, CallEnds(c) PROVE CapacityInv'
  <2>1. /\ caller[c] = "calling" /\ caller' = [caller EXCEPT ![c] = "ended"]
        /\ ReleaseReservation(c) /\ UNCHANGED <<future, queue, arrival>>
    BY <1>9 DEF CallEnds
  <2>2. c \notin queue
    BY <2>1 DEF CapacityInv, Placed, Linked
  <2>3. /\ caller' \in [Calls -> {"new", "waiting", "calling", "ended", "cancelled"}]
        /\ caller'[c] = "ended"
        /\ \A d \in Calls \ {c} : caller'[d] = caller[d]
    BY <1>0, <2>1 DEF TypeOK
  <2>4. QED
    BY <1>5, <2>1, <2>2, <2>3
<1>10. ASSUME NEW c \in Calls, Cancel(c) PROVE CapacityInv'
  <2> DEFINE e == IF future[c] = "pending" THEN "cancelled" ELSE future[c]
  <2>1. /\ caller[c] = "waiting" /\ caller' = [caller EXCEPT ![c] = "cancelled"]
        /\ future' = [future EXCEPT ![c] = e]
        /\ queue' \subseteq queue /\ (thread' = thread \/ thread' = Woken(thread))
        /\ UNCHANGED <<arrival, active, kv>>
    BY <1>10 DEF Cancel
  <2>2. /\ thread' \in [Calls -> Threads]
        /\ \A d \in Calls : Nudged(thread[d], thread'[d])
    BY <1>0, <2>1, WokenFacts DEF TypeOK, Threads, Nudged
  <2>3. /\ e \in {"none", "lease", "error", "cancelled"}
        /\ future[c] \in {"pending", "cancelled"} => e = "cancelled"
    BY <1>0 DEF TypeOK
  <2> HIDE DEF e
  <2>4. TypeOK' /\ WithinCapacity'
    BY <1>0, <2>1, <2>2, <2>3 DEF CapacityInv, TypeOK, WithinCapacity, Threads
  <2>5. /\ caller'[c] = "cancelled" /\ future'[c] = e
        /\ \A d \in Calls \ {c} : caller'[d] = caller[d] /\ future'[d] = future[d]
    BY <1>0, <2>1 DEF TypeOK
  <2>6. /\ c \in active => thread[c] \in {"admitted", "gone"}
        /\ c \in queue => thread[c] \in {"asleep", "awake"}
        /\ thread[c] \in {"started", "asleep", "awake", "admitted", "raised"} =>
             future[c] \in {"pending", "cancelled"}
        /\ thread[c] \in {"none", "started"} => arrival[c] = 0
    BY <2>1 DEF CapacityInv, Placed, Linked
  <2>7. /\ c \in active' => thread'[c] \in {"admitted", "gone"}
        /\ c \in queue' => thread'[c] \in {"asleep", "awake"}
        /\ thread'[c] \in {"started", "asleep", "awake", "admitted", "raised"} =>
             future'[c] \in {"pending", "cancelled"}
        /\ thread'[c] \in {"none", "started"} => arrival[c] = 0
    BY <2>1, <2>2, <2>3, <2>5, <2>6 DEF Nudged
  <2>8. QED
    BY <2>1, <2>2, <2>4, <2>5, <2>7, MovePreserves
<1>11. CASE UNCHANGED vars
  BY <1>11 DEF vars, CapacityInv, TypeOK, Placed, Linked, WithinCapacity
<1>12. QED
  BY <1>1, <1>2, <1>3, <1>4, <1>6, <1>7, <1>8, <1>9, <1>10, <1>11 DEF Next, Works, Done

(* At first nothing is reserved. *)
LEMMA CapacityInitial == Init => CapacityInv
<1> SUFFICES ASSUME Init PROVE CapacityInv
  OBVIOUS
<1>1. TypeOK
  BY AdmissionAssumption DEF Init, TypeOK
<1>2. WithinCapacity
  BY AdmissionAssumption, TallyEmpty, FS_EmptySet DEF Init, WithinCapacity
<1>3. Placed /\ Linked
  BY DEF Init, Placed, Linked
<1>4. QED
  BY <1>1, <1>2, <1>3 DEF CapacityInv

(* The endpoint is never given more requests or KV tokens than it takes,   *)
(* and the counter of KV tokens in flight is exact, for every mix of       *)
(* timeouts, cancellations, duplicate request ids and releases.            *)
THEOREM CapacityIsKept == Spec => []WithinCapacity
<1>1. CapacityInv => WithinCapacity
  BY DEF CapacityInv
<1>2. QED
  BY <1>1, CapacityInitial, CapacityStep, PTL DEF Spec

-----------------------------------------------------------------------------
(* Leases                                                                  *)

(* A step of one call leaves the leases of the others with their owners. *)
LEMMA LeaseMove ==
  ASSUME LeaseInv, CapacityInv', NEW c \in Calls,
         \A d \in Calls \ {c} : /\ caller'[d] = caller[d] /\ future'[d] = future[d]
                                /\ Nudged(thread[d], thread'[d]),
         active' \subseteq active \cup {c},
         future'[c] = "pending" => caller'[c] = "waiting",
         c \in active' => (thread'[c] = "admitted" \/ (future'[c] = "lease" /\ caller'[c] # "ended"))
  PROVE  LeaseInv'
<1>1. Awaited'
  BY DEF LeaseInv, Awaited
<1>2. \A d \in active' : thread'[d] = "admitted" \/ (future'[d] = "lease" /\ caller'[d] # "ended")
  <2> SUFFICES ASSUME NEW d \in active', d # c
               PROVE  thread'[d] = "admitted" \/ (future'[d] = "lease" /\ caller'[d] # "ended")
    OBVIOUS
  <2>1. d \in Calls \ {c} /\ d \in active
    BY DEF CapacityInv, TypeOK
  <2>2. thread[d] = "admitted" \/ (future[d] = "lease" /\ caller[d] # "ended")
    BY <2>1 DEF LeaseInv, Owned
  <2>3. QED
    BY <2>1, <2>2 DEF Nudged
<1>3. Owned'
  BY <1>2 DEF CapacityInv, Placed, Owned
<1>4. QED
  BY <1>1, <1>3 DEF LeaseInv

(* Every step keeps every lease with somebody who releases it. *)
LEMMA LeaseStep ==
  ASSUME LeaseInv, [Next \/ Done]_vars
  PROVE  LeaseInv'
<1>0. TypeOK /\ CapacityInv /\ CapacityInv'
  BY CapacityStep DEF LeaseInv, CapacityInv
<1>1. ASSUME NEW c \in Calls, GenerateText(c) PROVE LeaseInv'
  <2>1. /\ caller[c] = "new" /\ caller' = [caller EXCEPT ![c] = "waiting"]
        /\ thread' = [thread EXCEPT ![c] = "started"]
        /\ future' = [future EXCEPT ![c] = "pending"] /\ active' = active
    BY <1>1 DEF GenerateText
  <2>2. /\ caller'[c] = "waiting" /\ c \notin active'
        /\ \A d \in Calls \ {c} : /\ caller'[d] = caller[d] /\ future'[d] = future[d]
                                  /\ Nudged(thread[d], thread'[d])
    BY <1>0, <2>1 DEF CapacityInv, TypeOK, Placed, Nudged
  <2>3. QED
    BY <1>0, <2>1, <2>2, LeaseMove
<1>2. ASSUME NEW c \in Calls, NEW q, q = queue \cup {c}, NEW a, LoopPass(c, q, a),
             thread[c] \in {"started", "awake"}, UNCHANGED <<caller, future>>
      PROVE  LeaseInv'
  <2>1. /\ active' \subseteq active \cup {c}
        /\ c \in active' => thread'[c] = "admitted"
        /\ \A d \in Calls \ {c} : Nudged(thread[d], thread'[d])
    BY <1>0, <1>2, PassFacts
  <2>2. future[c] = "pending" => caller[c] = "waiting"
    BY DEF LeaseInv, Awaited
  <2>3. /\ \A d \in Calls \ {c} : caller'[d] = caller[d] /\ future'[d] = future[d]
        /\ future'[c] = "pending" => caller'[c] = "waiting"
    BY <1>2, <2>2
  <2>4. c \in active' => (thread'[c] = "admitted" \/ (future'[c] = "lease" /\ caller'[c] # "ended"))
    BY <2>1
  <2>5. LeaseInv /\ CapacityInv' /\ active' \subseteq active \cup {c}
    BY <1>0, <2>1
  <2>6. \A d \in Calls \ {c} : /\ caller'[d] = caller[d] /\ future'[d] = future[d]
                               /\ Nudged(thread[d], thread'[d])
    BY <2>1, <2>3
  <2>7. QED
    BY <2>3, <2>4, <2>5, <2>6, LeaseMove
<1>3. ASSUME NEW c \in Calls, Acquire(c) PROVE LeaseInv'
  <2>1. CASE Tokens[c] > Budget \/ Duplicate(c)
    <3>1. /\ thread[c] = "started" /\ thread' = [thread EXCEPT ![c] = "raised"]
          /\ UNCHANGED <<caller, future, active>>
      BY <1>3, <2>1 DEF Acquire
    <3>2. c \notin active /\ \A d \in Calls \ {c} : Nudged(thread[d], thread'[d])
      BY <1>0, <3>1 DEF CapacityInv, Placed, TypeOK, Nudged
    <3>3. QED
      BY <1>0, <3>1, <3>2, LeaseMove DEF LeaseInv, Awaited
  <2>2. CASE ~(Tokens[c] > Budget \/ Duplicate(c))
    BY <1>2, <1>3, <2>2 DEF Acquire
  <2>3. QED
    BY <2>1, <2>2
<1>4. ASSUME NEW c \in Calls, WaitReturns(c) PROVE LeaseInv'
  <2>1. queue = queue \cup {c}
    BY <1>4 DEF WaitReturns
  <2>2. QED
    BY <1>2, <1>4, <2>1 DEF WaitReturns
<1>5. ASSUME NEW c \in Calls, WaitCancelled(c) \/ WaitTimesOut(c) PROVE LeaseInv'
  <2>1. /\ UNCHANGED <<caller, future, active>> /\ thread[c] \in {"awake", "asleep"}
        /\ \E v : thread' = [thread EXCEPT ![c] = v]
    BY <1>5 DEF WaitCancelled, WaitTimesOut
  <2>2. c \notin active /\ \A d \in Calls \ {c} : Nudged(thread[d], thread'[d])
    BY <1>0, <2>1 DEF CapacityInv, Placed, TypeOK, Nudged
  <2>3. QED
    BY <1>0, <2>1, <2>2, LeaseMove DEF LeaseInv, Awaited
<1>6. ASSUME NEW c \in Calls, SettleResult(c) PROVE LeaseInv'
  <2>1. thread[c] = "admitted" /\ caller' = caller
    BY <1>6 DEF SettleResult
  <2>2. future[c] \in {"pending", "cancelled"} /\ (future[c] = "pending" => caller[c] = "waiting")
    BY <2>1 DEF LeaseInv, CapacityInv, Linked, Awaited
  <2>3. CASE future[c] = "cancelled"
    <3>1. ReleaseReservation(c) /\ future' = future
      BY <1>6, <2>3 DEF SettleResult
    <3>2. /\ active' \subseteq active /\ c \notin active'
          /\ \A d \in Calls \ {c} : Nudged(thread[d], thread'[d])
      BY <1>0, <3>1, ReleaseCounts, ReleaseThreads
    <3>3. QED
      BY <1>0, <2>1, <2>2, <3>1, <3>2, LeaseMove
  <2>4. CASE future[c] = "pending"
    <3>1. /\ future' = [future EXCEPT ![c] = "lease"] /\ thread' = [thread EXCEPT ![c] = "gone"]
          /\ active' = active
      BY <1>6, <2>4 DEF SettleResult
    <3>2. /\ future'[c] = "lease" /\ caller'[c] = "waiting"
          /\ \A d \in Calls \ {c} : future'[d] = future[d] /\ Nudged(thread[d], thread'[d])
      BY <1>0, <2>1, <2>2, <2>4, <3>1 DEF TypeOK, Nudged
    <3>3. QED
      BY <1>0, <2>1, <3>1, <3>2, LeaseMove
  <2>5. QED
    BY <2>2, <2>3, <2>4
<1>7. ASSUME NEW c \in Calls, SettleError(c) PROVE LeaseInv'
  <2>1. /\ thread[c] = "raised" /\ thread' = [thread EXCEPT ![c] = "gone"]
        /\ future' = [future EXCEPT ![c] = IF future[c] = "cancelled" THEN future[c] ELSE "error"]
        /\ UNCHANGED <<caller, active>>
    BY <1>7 DEF SettleError
  <2>2. /\ c \notin active /\ future'[c] # "pending"
        /\ \A d \in Calls \ {c} : future'[d] = future[d] /\ Nudged(thread[d], thread'[d])
    BY <1>0, <2>1 DEF CapacityInv, Placed, TypeOK, Nudged
  <2>3. QED
    BY <1>0, <2>1, <2>2, LeaseMove
<1>8. ASSUME NEW c \in Calls, Resume(c) PROVE LeaseInv'
  <2>1. /\ future[c] \in {"lease", "error"} /\ UNCHANGED <<thread, future, active>>
        /\ caller' = [caller EXCEPT ![c] = IF future[c] = "lease" THEN "calling" ELSE "ended"]
    BY <1>8 DEF Resume
  <2>2. thread[c] # "admitted"
    BY <2>1 DEF LeaseInv, CapacityInv, Linked
  <2>3. c \in active => future[c] = "lease"
    BY <2>2 DEF LeaseInv, Owned
  <2>4. /\ future[c] = "lease" => caller'[c] = "calling"
        /\ \A d \in Calls \ {c} : caller'[d] = caller[d] /\ Nudged(thread[d], thread'[d])
    BY <1>0, <2>1 DEF TypeOK, Nudged
  <2>5. QED
    BY <1>0, <2>1, <2>3, <2>4, LeaseMove
<1>9. ASSUME NEW c \in Calls, CallEnds(c) PROVE LeaseInv'
  <2>1. /\ caller[c] = "calling" /\ caller' = [caller EXCEPT ![c] = "ended"]
        /\ ReleaseReservation(c) /\ future' = future
    BY <1>9 DEF CallEnds
  <2>2. /\ active' \subseteq active /\ c \notin active'
        /\ \A d \in Calls \ {c} : Nudged(thread[d], thread'[d])
    BY <1>0, <2>1, ReleaseCounts, ReleaseThreads
  <2>3. future[c] = "lease" /\ \A d \in Calls \ {c} : caller'[d] = caller[d]
    BY <1>0, <2>1 DEF CapacityInv, Linked, TypeOK
  <2>4. QED
    BY <1>0, <2>1, <2>2, <2>3, LeaseMove
<1>10. ASSUME NEW c \in Calls, Cancel(c) PROVE LeaseInv'
  <2>1. /\ caller[c] = "waiting" /\ caller' = [caller EXCEPT ![c] = "cancelled"]
        /\ future' = [future EXCEPT ![c] = IF future[c] = "pending" THEN "cancelled" ELSE future[c]]
        /\ active' = active /\ (thread' = thread \/ thread' = Woken(thread))
    BY <1>10 DEF Cancel
  <2>2. \A d \in Calls : Nudged(thread[d], thread'[d])
    BY <1>0, <2>1, WokenFacts DEF TypeOK, Threads, Nudged
  <2>3. c \in active => (thread[c] = "admitted" \/ future[c] = "lease")
    BY DEF LeaseInv, Owned
  <2>4. /\ caller'[c] = "cancelled"
        /\ future'[c] # "pending" /\ (future[c] = "lease" => future'[c] = "lease")
        /\ \A d \in Calls \ {c} : caller'[d] = caller[d] /\ future'[d] = future[d]
    BY <1>0, <2>1 DEF TypeOK
  <2>5. c \in active' => (thread'[c] = "admitted" \/ (future'[c] = "lease" /\ caller'[c] # "ended"))
    BY <2>1, <2>2, <2>3, <2>4 DEF Nudged
  <2>6. \A d \in Calls \ {c} : /\ caller'[d] = caller[d] /\ future'[d] = future[d]
                               /\ Nudged(thread[d], thread'[d])
    BY <2>2, <2>4
  <2>7. QED
    BY <1>0, <2>1, <2>4, <2>5, <2>6, LeaseMove
<1>11. CASE UNCHANGED vars
  BY <1>0, <1>11 DEF vars, LeaseInv, Awaited, Owned
<1>12. QED
  BY <1>1, <1>3, <1>4, <1>5, <1>6, <1>7, <1>8, <1>9, <1>10, <1>11 DEF Next, Works, Done

(* For any calls, limits and cancels, every reservation has a thread or a  *)
(* coroutine that will release it, and every entry a thread that waits,    *)
(* but for the lease of a coroutine cancelled between the handover and its *)
(* own next step.                                                          *)
THEOREM LeasesHaveOwners == Spec => []NoOrphanLease
<1>1. Init => LeaseInv
  BY CapacityInitial DEF Init, LeaseInv, Awaited, Owned
<1>2. LeaseInv /\ [Next \/ Done]_vars => LeaseInv'
  BY LeaseStep
<1>3. LeaseInv => NoOrphanLease
  <2> SUFFICES ASSUME LeaseInv PROVE NoOrphanLease
    OBVIOUS
  <2>1. \A c \in queue : thread[c] \in {"asleep", "awake"}
    BY DEF LeaseInv, Owned
  <2>2. ASSUME NEW c \in active, thread[c] # "admitted"
        PROVE  future[c] = "lease" /\ caller[c] \in {"waiting", "calling", "cancelled"}
    <3>1. c \in Calls /\ future[c] = "lease" /\ caller[c] # "ended"
      BY <2>2 DEF LeaseInv, CapacityInv, TypeOK, Owned
    <3>2. caller[c] \in {"new", "waiting", "calling", "cancelled"}
      BY <3>1 DEF LeaseInv, CapacityInv, TypeOK
    <3>3. caller[c] # "new"
      BY <2>2, <3>1 DEF LeaseInv, CapacityInv, Placed
    <3>4. QED
      BY <3>1, <3>2, <3>3
  <2>3. QED
    BY <2>1, <2>2 DEF NoOrphanLease, Lost
<1>4. QED
  BY <1>1, <1>2, <1>3, PTL DEF Spec
=============================================================================
