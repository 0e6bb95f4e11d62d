----------------------------- MODULE AckTracker -----------------------------
(***************************************************************************)
(* The ackTracker of internal_support.go and its caller, Buffer.complete   *)
(* of flush.go.                                                            *)
(*                                                                         *)
(* The flusher cuts the log into consecutive ranges of LSNs; deliveries    *)
(* finish them in any order, each calling complete(), which acknowledges   *)
(* the range under the tracker's mutex and then returns the capacity that  *)
(* the mark's advance freed.  The draining loop of ack() is one action per *)
(* iteration, so that what the mutex hides is explicit.                    *)
(*                                                                         *)
(* A range carries `count', the number of records in it: fewer than its    *)
(* LSNs when it spans a gap recovery left.  The bytes counter moves in     *)
(* step with the record counter everywhere and is not kept separately.     *)
(***************************************************************************)
EXTENDS Integers, FiniteSets, Totals

CONSTANTS Workers,    \* goroutines that call complete()
          MaxLSN,     \* bound: the log ends here
          NoRange,    \* a worker holding no range
          NoOne       \* the mutex is free

ASSUME LSNAssumption  == MaxLSN \in Nat
ASSUME NoneAssumption == NoOne \notin Workers
ASSUME FiniteAssumption == IsFiniteSet(Workers)

VARIABLES low,             \* ackTracker.low
          done,            \* ackTracker.done: first LSN -> [last, count]
          mu,              \* holder of ackTracker.mu
          pc,              \* where each worker is in complete()
          task,            \* the range each worker is completing
          freed,           \* freedCount, local to each worker's ack()
          rangeFrom,       \* flusher's rangeFrom: the first LSN in no range yet
          pendingRecords   \* capacity held by the ranges cut so far

vars == <<low, done, mu, pc, task, freed, rangeFrom, pendingRecords>>

Ranges ==
  {r \in [first : 1..MaxLSN, last : 1..MaxLSN, count : 0..MaxLSN] :
     r.first <= r.last /\ r.count <= r.last - r.first + 1}

LSNs(r) == r.first .. r.last

InitAt(mark) ==
  /\ low = mark
  /\ done = [f \in {} |-> [last |-> 0, count |-> 0]]
  /\ mu = NoOne
  /\ pc = [w \in Workers |-> "idle"]
  /\ task = [w \in Workers |-> NoRange]
  /\ freed = [w \in Workers |-> 0]
  /\ rangeFrom = mark + 1
  /\ pendingRecords = 0

Init == InitAt(0)

-----------------------------------------------------------------------------
(***************************************************************************)
(* The flusher ends a range at `to', with n records in it, and hands it to *)
(* a delivery, or completes it itself when it holds nothing to deliver.    *)
(* The records' capacity was taken when they were written.                 *)
(***************************************************************************)
Cut(w, to, n) ==
  /\ pc[w] = "idle"
  /\ n <= to - rangeFrom + 1
  /\ task' = [task EXCEPT ![w] = [first |-> rangeFrom, last |-> to, count |-> n]]
  /\ pc' = [pc EXCEPT ![w] = "ack"]
  /\ rangeFrom' = to + 1
  /\ pendingRecords' = pendingRecords + n
  /\ UNCHANGED <<low, done, mu, freed>>

(***************************************************************************)
(* Mutants of ack() for an early range: the mark taken to be the last LSN  *)
(* completed; capacity freed at once although the range is also parked.    *)
(***************************************************************************)
AckAheadStoresLast(w) ==
  /\ pc[w] = "ack"
  /\ mu = NoOne
  /\ task[w].first # low + 1
  /\ low' = IF task[w].last > low THEN task[w].last ELSE low
  /\ freed' = [freed EXCEPT ![w] = task[w].count]
  /\ pc' = [pc EXCEPT ![w] = "release"]
  /\ UNCHANGED <<done, mu, task, rangeFrom, pendingRecords>>

AckAheadFreesNow(w) ==
  /\ pc[w] = "ack"
  /\ mu = NoOne
  /\ task[w].first # low + 1
  /\ done' = [f \in DOMAIN done \cup {task[w].first} |->
                IF f = task[w].first
                THEN [last |-> task[w].last, count |-> task[w].count]
                ELSE done[f]]
  /\ freed' = [freed EXCEPT ![w] = task[w].count]
  /\ pc' = [pc EXCEPT ![w] = "release"]
  /\ UNCHANGED <<low, mu, task, rangeFrom, pendingRecords>>

(***************************************************************************)
(* ack() of a range that does not start just above the mark: it is parked  *)
(* in done and frees nothing.                                              *)
(***************************************************************************)
AckAhead(w) ==
  /\ pc[w] = "ack"
  /\ mu = NoOne
  /\ task[w].first # low + 1
  /\ done' = [f \in DOMAIN done \cup {task[w].first} |->
                IF f = task[w].first
                THEN [last |-> task[w].last, count |-> task[w].count]
                ELSE done[f]]
  /\ freed' = [freed EXCEPT ![w] = 0]
  /\ pc' = [pc EXCEPT ![w] = "release"]
  /\ UNCHANGED <<low, mu, task, rangeFrom, pendingRecords>>

(***************************************************************************)
(* ack() of the range just above the mark: the mark moves to its end, and  *)
(* the mutex stays held while the parked ranges behind it are drained.     *)
(***************************************************************************)
AckNext(w) ==
  /\ pc[w] = "ack"
  /\ mu = NoOne
  /\ task[w].first = low + 1
  /\ mu' = w
  /\ low' = task[w].last
  /\ freed' = [freed EXCEPT ![w] = task[w].count]
  /\ pc' = [pc EXCEPT ![w] = "drain"]
  /\ UNCHANGED <<done, task, rangeFrom, pendingRecords>>

Drain(w) ==
  /\ pc[w] = "drain"
  /\ low + 1 \in DOMAIN done
  /\ low' = done[low + 1].last
  /\ freed' = [freed EXCEPT ![w] = @ + done[low + 1].count]
  /\ done' = [f \in DOMAIN done \ {low + 1} |-> done[f]]
  /\ UNCHANGED <<mu, pc, task, rangeFrom, pendingRecords>>

Unlock(w) ==
  /\ pc[w] = "drain"
  /\ low + 1 \notin DOMAIN done
  /\ mu' = NoOne
  /\ pc' = [pc EXCEPT ![w] = "release"]
  /\ UNCHANGED <<low, done, task, freed, rangeFrom, pendingRecords>>

(***************************************************************************)
(* complete() after ack() returned: give back what the ack freed.          *)
(***************************************************************************)
Release(w) ==
  /\ pc[w] = "release"
  /\ pendingRecords' = pendingRecords - freed[w]
  /\ freed' = [freed EXCEPT ![w] = 0]
  /\ task' = [task EXCEPT ![w] = NoRange]
  /\ pc' = [pc EXCEPT ![w] = "idle"]
  /\ UNCHANGED <<low, done, mu, rangeFrom>>

Complete(w) == AckAhead(w) \/ AckNext(w) \/ Drain(w) \/ Unlock(w) \/ Release(w)

Next ==
  \E w \in Workers :
    \/ \E to \in rangeFrom..MaxLSN : \E n \in 0..MaxLSN : Cut(w, to, n)
    \/ Complete(w)

Spec == Init /\ [][Next]_vars /\ \A w \in Workers : WF_vars(Complete(w))

-----------------------------------------------------------------------------
\* Types of the tracker's fields and of the workers' variables in complete().
TypeOK ==
  /\ low \in 0..MaxLSN
  /\ DOMAIN done \subseteq 1..MaxLSN
  /\ \A f \in DOMAIN done : done[f] \in [last : f..MaxLSN, count : 0..MaxLSN]
  /\ mu \in Workers \cup {NoOne}
  /\ pc \in [Workers -> {"idle", "ack", "drain", "release"}]
  /\ task \in [Workers -> Ranges \cup {NoRange}]
  /\ freed \in [Workers -> Nat]
  /\ rangeFrom \in 1..(MaxLSN + 1)
  /\ pendingRecords \in Int

(***************************************************************************)
(* Storing the mark is safe: it never reaches a range whose delivery is    *)
(* still unresolved, whatever the order in which deliveries finish         *)
(* (internal_support.go:47-52).                                            *)
(***************************************************************************)
NothingSkipped ==
  /\ low < rangeFrom
  /\ \A w \in Workers : pc[w] = "ack" => low < task[w].first

(***************************************************************************)
(* The mark never stalls: whenever the tracker is unlocked, either every   *)
(* LSN handed out has been acknowledged, or the range just above the mark  *)
(* is still in a delivery's hands.  Were it parked in done instead, no     *)
(* later ack would ever release it.                                        *)
(***************************************************************************)
NoStall ==
  mu = NoOne =>
    \/ low + 1 = rangeFrom
    \/ \E w \in Workers : pc[w] = "ack" /\ task[w].first = low + 1

\* The capacity of the unacknowledged ranges, by worker, and of the parked ones.
Unacknowledged == [w \in {v \in Workers : pc[v] = "ack"} |-> task[w].count]
Parked         == [f \in DOMAIN done |-> done[f].count]

(***************************************************************************)
(* Capacity is returned exactly once, and not before the mark has passed   *)
(* the records that hold it (flush.go:621-628): the counter is what the    *)
(* unacknowledged and the parked ranges hold, plus what some worker has    *)
(* freed and not yet subtracted.                                           *)
(***************************************************************************)
CapacityExact ==
  pendingRecords =
    Total(Unacknowledged) + Total(Parked) + Total(freed)

(***************************************************************************)
(* The strengthening NothingSkipped and NoStall rest on: every LSN between *)
(* the mark and rangeFrom lies in exactly one range, parked or unfinished, *)
(* the mutex is held exactly by the worker that drains, and the range      *)
(* above the mark is parked only while somebody drains.                    *)
(***************************************************************************)
Unfinished(w) == pc[w] = "ack"

Disjoint ==
  /\ \A f, g \in DOMAIN done : f < g => done[f].last < g
  /\ \A f \in DOMAIN done : \A w \in Workers :
       Unfinished(w) => (done[f].last < task[w].first \/ task[w].last < f)
  /\ \A v, w \in Workers :
       Unfinished(v) /\ Unfinished(w) /\ v # w =>
         (task[v].last < task[w].first \/ task[w].last < task[v].first)

Between ==
  /\ low < rangeFrom
  /\ \A f \in DOMAIN done : low < f /\ done[f].last < rangeFrom
  /\ \A w \in Workers :
       Unfinished(w) => low < task[w].first /\ task[w].last < rangeFrom

Covered ==
  \A x \in (low + 1)..(rangeFrom - 1) :
    \/ \E f \in DOMAIN done : f <= x /\ x <= done[f].last
    \/ \E w \in Workers : Unfinished(w) /\ x \in LSNs(task[w])

Locking ==
  /\ \A w \in Workers : pc[w] = "drain" <=> mu = w
  /\ \A w \in Workers : pc[w] \in {"ack", "drain"} => task[w] \in Ranges
  /\ \A w \in Workers : pc[w] = "drain" => task[w].last <= low
  /\ mu = NoOne => low + 1 \notin DOMAIN done

Tiling == Disjoint /\ Between /\ Covered /\ Locking

-----------------------------------------------------------------------------
(***************************************************************************)
(* The tracker implements LowWaterMark.  A caller of ack() takes effect    *)
(* when it unlocks, so a range whose owner is still draining counts as     *)
(* not yet acknowledged.                                                   *)
(***************************************************************************)
visibleMark == IF mu = NoOne THEN low ELSE task[mu].first - 1

visibleAcked ==
  (1..(rangeFrom - 1)) \
    UNION {LSNs(task[w]) : w \in {v \in Workers : pc[v] \in {"ack", "drain"}}}

LWM == INSTANCE LowWaterMark WITH mark <- visibleMark, acked <- visibleAcked

\* The safety part of LowWaterMark: every unlock is an exact Acknowledge.
ImplementsLowWaterMark == LWM!Init /\ [][LWM!Acknowledge]_(LWM!vars)
=============================================================================
