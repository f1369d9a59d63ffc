--------------------------- MODULE ModelAdmission ---------------------------
(***************************************************************************)
(* Model capacity of one endpoint: the condition queue of                  *)
(* ModelRequestAdmissionController (services/model_request_admission.py)   *)
(* and the gateway that bridges it to coroutines                           *)
(* (services/model_gateway.py, _acquire_scheduled_lease, generate_text).   *)
(*                                                                         *)
(* Each call has a coroutine, a helper thread that blocks in acquire(),    *)
(* and the future through which the thread hands over the lease.  Every    *)
(* step below is one critical section of the condition's lock or one       *)
(* uninterrupted stretch of the event loop.                                *)
(***************************************************************************)
EXTENDS Integers, FiniteSets, Tallies

CONSTANTS
  NumCalls,       \* bound: calls of generate_text
  IdOf,           \* the request_id of each call; a retry has that of its call
  Tokens,         \* reserved_sequence_tokens of each call
  Priority,       \* scheduling priority of each call
  Limit,          \* endpoint_request_limit
  Budget          \* effective KV token budget

Calls == 1 .. NumCalls

ASSUME AdmissionAssumption ==
  /\ NumCalls \in Nat
  /\ Limit \in Nat \ {0} /\ Budget \in Nat \ {0}
  /\ Tokens \in [Calls -> Nat \ {0}]
  /\ Priority \in [Calls -> Nat]
  /\ DOMAIN IdOf = Calls

VARIABLES
  caller,     \* the coroutine of each call
  thread,     \* its helper thread
  future,     \* "completed", the future between them
  queue,      \* calls with an entry in _queue
  arrival,    \* the sequence number of each entry
  active,     \* calls with a reservation in _active
  kv          \* _inflight_kv_tokens

vars == <<caller, thread, future, queue, arrival, active, kv>>

(* notify_all: every thread asleep in wait() will take the lock again. *)
Woken(f) == [c \in Calls |-> IF f[c] = "asleep" THEN "awake" ELSE f[c]]

-----------------------------------------------------------------------------
(* The controller                                                          *)

(* _queue is sorted by (-priority, sequence), with a for the sequence. *)
Ahead(d, c, a) ==
  \/ Priority[d] > Priority[c]
  \/ Priority[d] = Priority[c] /\ a[d] < a[c]

IsHead(c, q, a) == \A d \in q \ {c} : ~Ahead(d, c, a)

SlotsOnly(c) == Cardinality(active) < Limit

HasCapacity(c) ==
  /\ Cardinality(active) < Limit
  /\ kv + Tokens[c] <= Budget

(* One pass of the loop in acquire(), with q as the queue: admission,      *)
(* another wait, or the deadline, whose finally clause drops the entry and *)
(* notifies.                                                               *)
LoopPass(c, q, a) ==
  IF IsHead(c, q, a) /\ HasCapacity(c)
    THEN /\ queue' = q \ {c}
         /\ active' = active \cup {c}
         /\ kv' = kv + Tokens[c]
         /\ thread' = [thread EXCEPT ![c] = "admitted"]
    ELSE /\ \/ /\ queue' = q
               /\ thread' = [thread EXCEPT ![c] = "asleep"]
            \/ /\ queue' = q \ {c}
               /\ thread' = Woken([thread EXCEPT ![c] = "raised"])
         /\ UNCHANGED <<active, kv>>

Duplicate(c) == \E d \in queue \cup active : IdOf[d] = IdOf[c]

(* acquire() up to its first wait: _validate_capacity and the check for a  *)
(* request that is active or queued raise before the entry is made.        *)
Acquire(c) ==
  /\ thread[c] = "started"
  /\ IF Tokens[c] > Budget \/ Duplicate(c)
       THEN /\ thread' = [thread EXCEPT ![c] = "raised"]
            /\ UNCHANGED <<queue, arrival, active, kv>>
       ELSE LET a == [arrival EXCEPT ![c] = Cardinality({d \in Calls : arrival[d] > 0}) + 1]
            IN /\ arrival' = a
               /\ LoopPass(c, queue \cup {c}, a)
  /\ UNCHANGED <<caller, future>>

WaitReturns(c) ==
  /\ thread[c] = "awake" /\ c \in queue
  /\ LoopPass(c, queue, arrival)
  /\ UNCHANGED <<caller, future, arrival>>

(* abandon_request took the entry away. *)
WaitCancelled(c) ==
  /\ thread[c] = "awake" /\ c \notin queue
  /\ thread' = [thread EXCEPT ![c] = "raised"]
  /\ UNCHANGED <<caller, future, queue, arrival, active, kv>>

(* wait(timeout=remaining) returns although nobody notified. *)
WaitTimesOut(c) ==
  /\ thread[c] = "asleep"
  /\ thread' = [thread EXCEPT ![c] = "awake"]
  /\ UNCHANGED <<caller, future, queue, arrival, active, kv>>

(* _release_reservation, by request_id. *)
ReleaseReservation(c) ==
  LET held == {d \in active : IdOf[d] = IdOf[c]} IN
  /\ active' = active \ held
  /\ kv' = kv - Tally(Tokens, held)
  /\ thread' = Woken([thread EXCEPT ![c] = "gone"])

-----------------------------------------------------------------------------
(* The gateway                                                             *)

(* A call is over when it returned or raised, or its coroutine was         *)
(* cancelled while it waited for the lease.                                *)
Over == {"ended", "cancelled"}

(* A retry starts when the call it repeats is over. *)
GenerateText(c) ==
  /\ caller[c] = "new"
  /\ \A d \in Calls : d < c /\ IdOf[d] = IdOf[c] => caller[d] \in Over
  /\ caller' = [caller EXCEPT ![c] = "waiting"]
  /\ thread' = [thread EXCEPT ![c] = "started"]
  /\ future' = [future EXCEPT ![c] = "pending"]
  /\ UNCHANGED <<queue, arrival, active, kv>>

ResultDropped(c) ==
  /\ thread[c] = "admitted"
  /\ future' = [future EXCEPT ![c] = IF @ = "cancelled" THEN @ ELSE "lease"]
  /\ thread' = [thread EXCEPT ![c] = "gone"]
  /\ UNCHANGED <<caller, queue, arrival, active, kv>>

(* settle_result, run by the event loop. *)
SettleResult(c) ==
  /\ thread[c] = "admitted"
  /\ IF future[c] = "cancelled"
       THEN /\ ReleaseReservation(c)
            /\ UNCHANGED future
       ELSE /\ future' = [future EXCEPT ![c] = "lease"]
            /\ thread' = [thread EXCEPT ![c] = "gone"]
            /\ UNCHANGED <<active, kv>>
  /\ UNCHANGED <<caller, queue, arrival>>

SettleError(c) ==
  /\ thread[c] = "raised"
  /\ thread' = [thread EXCEPT ![c] = "gone"]
  /\ future' = [future EXCEPT ![c] = IF @ = "cancelled" THEN @ ELSE "error"]
  /\ UNCHANGED <<caller, queue, arrival, active, kv>>

(* The coroutine goes on after shield(completed): with the lease it talks  *)
(* to the ledger and the provider, with an error it ends.                  *)
Resume(c) ==
  /\ caller[c] = "waiting"
  /\ future[c] \in {"lease", "error"}
  /\ caller' = [caller EXCEPT ![c] = IF future[c] = "lease" THEN "calling" ELSE "ended"]
  /\ UNCHANGED <<thread, future, queue, arrival, active, kv>>

CancelSilently(c) ==
  /\ caller[c] = "waiting"
  /\ caller' = [caller EXCEPT ![c] = "cancelled"]
  /\ future' = [future EXCEPT ![c] = IF @ = "pending" THEN "cancelled" ELSE @]
  /\ queue' = queue \ {d \in queue : IdOf[d] = IdOf[c]}
  /\ UNCHANGED <<thread, arrival, active, kv>>

(* The coroutine is cancelled while it awaits the future, or when that is  *)
(* done and it has not gone on yet: then completed.cancel() has no effect, *)
(* abandon_request() has none on a request that is not queued, and nobody  *)
(* releases the lease.                                                     *)
Cancel(c) ==
  LET dropped == {d \in queue : IdOf[d] = IdOf[c]} IN
  /\ caller[c] = "waiting"
  /\ caller' = [caller EXCEPT ![c] = "cancelled"]
  /\ future' = [future EXCEPT ![c] = IF @ = "pending" THEN "cancelled" ELSE @]
  /\ queue' = queue \ dropped
  /\ thread' = IF dropped # {} THEN Woken(thread) ELSE thread
  /\ UNCHANGED <<arrival, active, kv>>

(* The call is over, however it went: both exits of generate_text release  *)
(* the lease.                                                              *)
CallEnds(c) ==
  /\ caller[c] = "calling"
  /\ caller' = [caller EXCEPT ![c] = "ended"]
  /\ ReleaseReservation(c)
  /\ UNCHANGED <<future, queue, arrival>>

-----------------------------------------------------------------------------
Init ==
  /\ caller = [c \in Calls |-> "new"]
  /\ thread = [c \in Calls |-> "none"]
  /\ future = [c \in Calls |-> "none"]
  /\ queue = {}
  /\ arrival = [c \in Calls |-> 0]
  /\ active = {}
  /\ kv = 0

(* What goes on by itself.  The clock owes nothing. *)
Works(c) ==
  \/ Acquire(c) \/ WaitReturns(c) \/ WaitCancelled(c)
  \/ SettleResult(c) \/ SettleError(c) \/ Resume(c) \/ CallEnds(c)

Next ==
  \E c \in Calls : GenerateText(c) \/ Works(c) \/ WaitTimesOut(c) \/ Cancel(c)

Quiet == \A c \in Calls : caller[c] \in Over /\ thread[c] = "gone"

Done == Quiet /\ UNCHANGED vars

Spec == Init /\ [][Next \/ Done]_vars /\ \A c \in Calls : WF_vars(Works(c))

-----------------------------------------------------------------------------
(* Properties                                                              *)

(* Calls, threads and futures are in one of their states, and the counter  *)
(* of reserved KV tokens never underflows.                                 *)
TypeOK ==
  /\ caller \in [Calls -> {"new", "waiting", "calling", "ended", "cancelled"}]
  /\ thread \in [Calls -> {"none", "started", "asleep", "awake", "admitted", "raised", "gone"}]
  /\ future \in [Calls -> {"none", "pending", "lease", "error", "cancelled"}]
  /\ queue \subseteq Calls /\ active \subseteq Calls
  /\ arrival \in [Calls -> 0 .. NumCalls]
  /\ kv \in Nat

(* The endpoint never has more requests, or more reserved KV tokens, than  *)
(* it can take, and the KV counter is the sum over the reservations,       *)
(* whatever raises, is cancelled or times out.                             *)
WithinCapacity ==
  /\ Cardinality(active) <= Limit
  /\ kv = Tally(Tokens, active)
  /\ kv <= Budget

(* A lease whose coroutine was cancelled after the handover *)
Lost(c) == c \in active /\ future[c] = "lease" /\ caller[c] = "cancelled"

(* A thread asleep in wait() is woken by what other calls do, not by its   *)
(* deadline: every change that may let it through is followed by a notify. *)
(* Only the capacity that a lost lease keeps may leave it asleep.          *)
SleepersWoken ==
  \A c \in Calls :
    thread[c] = "asleep" ~> (thread[c] # "asleep" \/ \E d \in Calls : Lost(d))

(* "production dispatch returned with model leases still active": every    *)
(* reservation has a thread or a coroutine that will still release it, and *)
(* every entry of the queue a thread that waits, whatever raises, times    *)
(* out or is cancelled.  There is one way to lose a lease: a cancel between *)
(* its handover and the next step of the coroutine.                        *)
NoOrphanLease ==
  /\ \A c \in active : \/ thread[c] = "admitted"
                       \/ future[c] = "lease" /\ caller[c] \in {"waiting", "calling"}
                       \/ Lost(c)
  /\ \A c \in queue : thread[c] \in {"asleep", "awake"}
=============================================================================
