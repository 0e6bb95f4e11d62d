------------------------- MODULE CheckpointerProofs -------------------------
(***************************************************************************)
(* Proofs about Checkpointer, for any number of workers, any length of     *)
(* log and any number of crashes and failed file operations.  The tracker  *)
(* by itself, module AckTracker, comes first.                              *)
(***************************************************************************)
EXTENDS Checkpointer, FiniteSetTheorems, TLAPS

(* Totals of counters. *)

\* The units counted for anything but x.
Others(c, x) == UNION {{y} \X (1..c[y]) : y \in DOMAIN c \ {x}}

\* The units of one value.
LEMMA OneCounter ==
  ASSUME NEW y, NEW n \in Nat
  PROVE  IsFiniteSet({y} \X (1..n)) /\ Cardinality({y} \X (1..n)) = n
<1>1. PICK one \in Int : one = 1
  OBVIOUS
<1>2. IsFiniteSet(one..n) /\ Cardinality(one..n) = IF one > n THEN 0 ELSE n - one + 1
  BY FS_Interval
<1>3. IsFiniteSet(1..n) /\ Cardinality(1..n) = n
  BY <1>1, <1>2
<1>4. IsFiniteSet({y}) /\ Cardinality({y}) = 1
  BY Zenon, FS_Singleton
<1>5. IsFiniteSet({y} \X (1..n)) /\ Cardinality({y} \X (1..n)) = Cardinality({y}) * Cardinality(1..n)
  BY Zenon, <1>3, <1>4, FS_Product
<1> QED
  BY <1>3, <1>4, <1>5

\* A counter has finitely many units: its domain is finite, and so is each value.
LEMMA UnitsFinite ==
  ASSUME NEW c, IsFiniteSet(DOMAIN c), \A y \in DOMAIN c : c[y] \in Nat
  PROVE  IsFiniteSet(Units(c))
<1> DEFINE Of(y) == {y} \X (1..c[y])
           T == {Of(y) : y \in DOMAIN c}
           g == [y \in DOMAIN c |-> Of(y)]
<1>1. g \in Surjection(DOMAIN c, T)
  BY Zenon DEF Surjection
<1>2. IsFiniteSet(T)
  BY Zenon, <1>1, FS_Surjection
<1>3. ASSUME NEW U \in T PROVE IsFiniteSet(U)
  <2>1. PICK y \in DOMAIN c : U = Of(y)
    BY Zenon
  <2> QED
    BY Zenon, <2>1, OneCounter
<1> QED
  BY Zenon, <1>2, <1>3, FS_UNION DEF Units

\* The total is what x counts and what the others do.
LEMMA TotalSplits ==
  ASSUME NEW c, NEW x, IsFiniteSet(DOMAIN c), \A y \in DOMAIN c : c[y] \in Nat
  PROVE  /\ Total(c) \in Nat /\ Cardinality(Others(c, x)) \in Nat
         /\ Total(c) = Cardinality(Others(c, x)) + (IF x \in DOMAIN c THEN c[x] ELSE 0)
<1>1. IsFiniteSet(Units(c)) /\ Total(c) \in Nat
  BY Zenon, UnitsFinite, FS_CardinalityType DEF Total
<1>2. Others(c, x) \subseteq Units(c)
  BY Zenon DEF Others, Units
<1>3. IsFiniteSet(Others(c, x)) /\ Cardinality(Others(c, x)) \in Nat
  BY Zenon, <1>1, <1>2, FS_Subset, FS_CardinalityType
<1>4. CASE x \notin DOMAIN c
  <2>1. Others(c, x) = Units(c)
    BY Zenon, <1>4 DEF Others, Units
  <2> QED
    BY <1>1, <1>4, <2>1 DEF Total
<1>5. CASE x \in DOMAIN c
  <2> DEFINE Own == {x} \X (1..c[x])
  <2>1. Units(c) = Others(c, x) \cup Own
    BY Zenon, <1>5 DEF Others, Units
  <2>2. Others(c, x) \cap Own = {}
    BY DEF Others
  <2>3. c[x] \in Nat
    BY Zenon, <1>5
  <2>4. IsFiniteSet(Own) /\ Cardinality(Own) = c[x]
    BY Zenon, <2>3, OneCounter
  <2>5. Cardinality(Others(c, x) \cap Own) = 0
    BY Zenon, <2>2, FS_EmptySet
  <2> HIDE DEF Own
  <2>6. Total(c) = Cardinality(Others(c, x)) + Cardinality(Own) - 0
    BY Zenon, <1>3, <2>1, <2>4, <2>5, FS_Union DEF Total
  <2> QED
    BY <1>1, <1>3, <1>5, <2>3, <2>4, <2>6
<1> QED
  BY Zenon, <1>1, <1>3, <1>4, <1>5

\* A change at x changes the total by as much.
LEMMA TotalChanges ==
  ASSUME NEW c, NEW d, NEW x, IsFiniteSet(DOMAIN c), IsFiniteSet(DOMAIN d),
         \A y \in DOMAIN c : c[y] \in Nat, \A y \in DOMAIN d : d[y] \in Nat,
         DOMAIN c \ {x} = DOMAIN d \ {x}, \A y \in DOMAIN c \ {x} : c[y] = d[y]
  PROVE  /\ Total(c) \in Nat /\ Total(d) \in Nat
         /\ Total(d) = Total(c) - (IF x \in DOMAIN c THEN c[x] ELSE 0)
                                + (IF x \in DOMAIN d THEN d[x] ELSE 0)
<1>1. Others(c, x) = Others(d, x)
  BY Zenon DEF Others
<1>2. /\ Total(c) \in Nat /\ Cardinality(Others(c, x)) \in Nat
      /\ Total(c) = Cardinality(Others(c, x)) + (IF x \in DOMAIN c THEN c[x] ELSE 0)
  BY Zenon, TotalSplits
<1>3. /\ Total(d) \in Nat
      /\ Total(d) = Cardinality(Others(d, x)) + (IF x \in DOMAIN d THEN d[x] ELSE 0)
  BY Zenon, TotalSplits
<1> QED
  BY <1>1, <1>2, <1>3

-----------------------------------------------------------------------------
(***************************************************************************)
(* The tracker.  Its inductive invariant is TypeOK /\ Tiling.              *)
(* NothingSkipped alone is not inductive: an ack() that drains a parked    *)
(* range moves the mark to that range's end, and only because ranges never *)
(* overlap can that not jump over an unfinished one.  NoStall alone is not *)
(* either: it needs every LSN above the mark to be in some range.          *)
(***************************************************************************)

IInv == TypeOK /\ Tiling

\* newAckTracker: nothing is parked and no range has been cut.
LEMMA InitIInv == Init => IInv
  BY LSNAssumption, NoneAssumption
     DEF Init, InitAt, IInv, TypeOK, Tiling, Disjoint, Between, Covered, Locking,
         Unfinished, LSNs

\* A range the flusher cuts starts where the last one ended, so it overlaps none.
LEMMA CutIInv ==
  ASSUME IInv, NEW w \in Workers, NEW to \in rangeFrom..MaxLSN, NEW n \in 0..MaxLSN,
         Cut(w, to, n)
  PROVE  IInv'
<1> USE LSNAssumption, NoneAssumption
<1> DEFINE r == [first |-> rangeFrom, last |-> to, count |-> n]
<1>1. r \in Ranges
  BY DEF Cut, Ranges, IInv, TypeOK
<1>2. TypeOK'
  BY <1>1 DEF Cut, IInv, TypeOK
<1>3. Locking'
  BY Zenon, <1>1 DEF Cut, IInv, TypeOK, Tiling, Locking
<1>4. Between'
  BY <1>1 DEF Cut, IInv, TypeOK, Tiling, Between, Unfinished, Locking, Ranges
<1>5. Disjoint'
  BY <1>1 DEF Cut, IInv, TypeOK, Tiling, Disjoint, Between, Unfinished, Ranges
<1>6. Covered'
  BY <1>1 DEF Cut, IInv, TypeOK, Tiling, Covered, Between, Unfinished, LSNs
<1> QED
  BY Zenon, <1>2, <1>3, <1>4, <1>5, <1>6 DEF IInv, Tiling

\* ack() of an early range moves it from its delivery into done.
LEMMA AckAheadIInv ==
  ASSUME IInv, NEW w \in Workers, AckAhead(w)
  PROVE  IInv'
<1> USE LSNAssumption, NoneAssumption
<1>1. task[w] \in Ranges
  BY Zenon DEF AckAhead, IInv, Tiling, Locking
<1>2. TypeOK'
  BY <1>1 DEF AckAhead, IInv, TypeOK, Ranges
<1>3. Locking'
  BY <1>1 DEF AckAhead, IInv, TypeOK, Tiling, Locking, Ranges
<1>4. Between'
  BY Zenon, <1>1 DEF AckAhead, IInv, TypeOK, Tiling, Between, Unfinished, Ranges
<1>5. Disjoint'
  BY <1>1 DEF AckAhead, IInv, TypeOK, Tiling, Disjoint, Unfinished, Ranges
<1>6. Covered'
  <2> SUFFICES ASSUME NEW x \in (low + 1)..(rangeFrom - 1)
               PROVE  \/ \E f \in DOMAIN done' : f <= x /\ x <= done'[f].last
                      \/ \E v \in Workers : Unfinished(v)' /\ x \in LSNs(task'[v])
    BY Zenon DEF AckAhead, Covered, LSNs
  <2>1. CASE \E f \in DOMAIN done : f <= x /\ x <= done[f].last
    <3>1. PICK f \in DOMAIN done : f <= x /\ x <= done[f].last
      BY Zenon, <2>1
    <3>2. f # task[w].first
      BY <1>1 DEF AckAhead, IInv, TypeOK, Tiling, Disjoint, Unfinished, Ranges
    <3> QED
      BY Zenon, <3>1, <3>2 DEF AckAhead
  <2>2. CASE x \in LSNs(task[w])
    BY <1>1, <2>2 DEF AckAhead, LSNs, Ranges
  <2>3. CASE \E v \in Workers \ {w} : Unfinished(v) /\ x \in LSNs(task[v])
    BY Zenon, <2>3 DEF AckAhead, Unfinished, IInv, TypeOK
  <2> QED
    BY Zenon, <2>1, <2>2, <2>3 DEF IInv, Tiling, Covered
<1> QED
  BY Zenon, <1>2, <1>3, <1>4, <1>5, <1>6 DEF IInv, Tiling

\* ack() of the range above the mark takes it out of the tiling and moves the mark over it.
LEMMA AckNextIInv ==
  ASSUME IInv, NEW w \in Workers, AckNext(w)
  PROVE  IInv'
<1> USE LSNAssumption, NoneAssumption
<1>1. task[w] \in Ranges
  BY Zenon DEF AckNext, IInv, Tiling, Locking
<1>2. TypeOK'
  BY <1>1 DEF AckNext, IInv, TypeOK, Ranges
<1>3. Locking'
  BY <1>1 DEF AckNext, IInv, TypeOK, Tiling, Locking, Ranges
<1>4. Between'
  BY <1>1 DEF AckNext, IInv, TypeOK, Tiling, Between, Disjoint, Unfinished, Locking, Ranges
<1>5. Disjoint'
  BY Zenon DEF AckNext, IInv, TypeOK, Tiling, Disjoint, Unfinished
<1>6. Covered'
  BY <1>1 DEF AckNext, IInv, TypeOK, Tiling, Covered, Unfinished, LSNs, Ranges
<1> QED
  BY Zenon, <1>2, <1>3, <1>4, <1>5, <1>6 DEF IInv, Tiling

\* The loop of ack() moves the mark over one parked range, and over nothing else.
LEMMA DrainIInv ==
  ASSUME IInv, NEW w \in Workers, Drain(w)
  PROVE  IInv'
<1> USE LSNAssumption, NoneAssumption
<1>1. done[low + 1] \in [last : (low + 1)..MaxLSN, count : 0..MaxLSN]
  BY Zenon DEF Drain, IInv, TypeOK
<1>2. TypeOK'
  BY <1>1 DEF Drain, IInv, TypeOK
<1>3. Locking'
  BY <1>1 DEF Drain, IInv, TypeOK, Tiling, Locking, Ranges
<1>4. Between'
  <2>1. low' < rangeFrom'
    BY Zenon DEF Drain, IInv, TypeOK, Tiling, Between
  <2>2. \A f \in DOMAIN done' : low' < f /\ done'[f].last < rangeFrom'
    BY DEF Drain, IInv, TypeOK, Tiling, Between, Disjoint
  <2>3. \A v \in Workers : Unfinished(v)' => low' < task'[v].first /\ task'[v].last < rangeFrom'
    <3> SUFFICES ASSUME NEW v \in Workers, Unfinished(v)
                 PROVE  low' < task[v].first /\ task[v].last < rangeFrom
      BY Zenon DEF Drain, Unfinished
    <3>1. task[v] \in Ranges
      BY Zenon DEF IInv, Tiling, Locking, Unfinished
    <3>2. low < task[v].first /\ task[v].last < rangeFrom
      BY Zenon DEF IInv, Tiling, Between
    <3>3. done[low + 1].last < task[v].first \/ task[v].last < low + 1
      BY Zenon DEF Drain, IInv, Tiling, Disjoint
    <3> QED
      BY <1>1, <3>1, <3>2, <3>3 DEF Drain, Ranges, IInv, TypeOK
  <2> QED
    BY Zenon, <2>1, <2>2, <2>3 DEF Between
<1>5. Disjoint'
  BY Zenon, <1>1 DEF Drain, IInv, TypeOK, Tiling, Disjoint, Unfinished
<1>6. Covered'
  BY <1>1 DEF Drain, IInv, TypeOK, Tiling, Covered, Unfinished, LSNs
<1> QED
  BY Zenon, <1>2, <1>3, <1>4, <1>5, <1>6 DEF IInv, Tiling

\* ack() returns only when no parked range starts just above the mark.
LEMMA UnlockIInv ==
  ASSUME IInv, NEW w \in Workers, Unlock(w)
  PROVE  IInv'
<1> USE LSNAssumption, NoneAssumption
<1>1. TypeOK'
  BY Zenon DEF Unlock, IInv, TypeOK
<1>2. Locking'
  BY Zenon DEF Unlock, IInv, TypeOK, Tiling, Locking
<1>3. Between' /\ Disjoint' /\ Covered'
  BY DEF Unlock, IInv, TypeOK, Tiling, Between, Disjoint, Covered, Unfinished, LSNs
<1> QED
  BY Zenon, <1>1, <1>2, <1>3 DEF IInv, Tiling

\* Giving capacity back in complete() touches no range.
LEMMA ReleaseIInv ==
  ASSUME IInv, NEW w \in Workers, Release(w)
  PROVE  IInv'
<1> USE LSNAssumption, NoneAssumption
<1>1. TypeOK'
  BY DEF Release, IInv, TypeOK
<1>2. Locking'
  BY Zenon DEF Release, IInv, TypeOK, Tiling, Locking
<1>3. Between' /\ Disjoint' /\ Covered'
  BY DEF Release, IInv, TypeOK, Tiling, Between, Disjoint, Covered, Unfinished, LSNs
<1> QED
  BY Zenon, <1>1, <1>2, <1>3 DEF IInv, Tiling

(***************************************************************************)
(* Every step of the deliveries preserves the invariant.                   *)
(***************************************************************************)
LEMMA NextIInv == IInv /\ [Next]_vars => IInv'
<1> SUFFICES ASSUME IInv, [Next]_vars
             PROVE  IInv'
  BY Zenon
<1>1. CASE UNCHANGED vars
  BY Zenon, <1>1 DEF vars, IInv, TypeOK, Tiling, Disjoint, Between, Covered, Locking,
              Unfinished, LSNs
<1>2. CASE Next
  BY Zenon, <1>2, CutIInv, AckAheadIInv, AckNextIInv, DrainIInv, UnlockIInv, ReleaseIInv
     DEF Next, Complete
<1> QED
  BY Zenon, <1>1, <1>2

(***************************************************************************)
(* The tracker's invariant holds in every reachable state: the ranges that *)
(* ack() has parked and those still in flight tile the LSNs between the    *)
(* mark and the flusher's rangeFrom.                                       *)
(***************************************************************************)
THEOREM Invariance == Spec => [](TypeOK /\ Tiling)
<1>1. IInv => TypeOK /\ Tiling
  BY Zenon DEF IInv
<1> QED
  BY <1>1, InitIInv, NextIInv, PTL DEF Spec

(***************************************************************************)
(* The mark ack() returns never reaches a range whose delivery is still    *)
(* unresolved, whatever the order of completions.                          *)
(***************************************************************************)
THEOREM MarkIsSafe == Spec => []NothingSkipped
<1>1. IInv => NothingSkipped
  BY Zenon DEF IInv, Tiling, Between, Unfinished, NothingSkipped
<1> QED
  BY <1>1, InitIInv, NextIInv, PTL DEF Spec

\* The LSN just above the mark of an unlocked tracker is in a range that ack() has not seen.
LEMMA IInvNoStall == IInv => NoStall
<1> USE LSNAssumption, NoneAssumption
<1> SUFFICES ASSUME IInv, mu = NoOne, low + 1 # rangeFrom
             PROVE  \E w \in Workers : pc[w] = "ack" /\ task[w].first = low + 1
  BY Zenon DEF NoStall
<1>1. low + 1 \in (low + 1)..(rangeFrom - 1)
  BY DEF IInv, TypeOK, Tiling, Between
<1>2. low + 1 \notin DOMAIN done
  BY Zenon DEF IInv, Tiling, Locking
<1>3. ~ \E f \in DOMAIN done : f <= low + 1 /\ low + 1 <= done[f].last
  BY <1>2 DEF IInv, TypeOK, Tiling, Between
<1>4. PICK w \in Workers : Unfinished(w) /\ low + 1 \in LSNs(task[w])
  BY Zenon, <1>1, <1>3 DEF IInv, Tiling, Covered
<1>5. task[w] \in Ranges
  BY Zenon, <1>4 DEF IInv, Tiling, Locking, Unfinished
<1> QED
  BY <1>4, <1>5 DEF IInv, TypeOK, Tiling, Between, Unfinished, LSNs, Ranges

(***************************************************************************)
(* The mark never stalls: ack() always drains the parked ranges it can,    *)
(* so an unlocked tracker waits only for a delivery that is still running. *)
(***************************************************************************)
THEOREM MarkIsTight == Spec => []NoStall
  BY InitIInv, NextIInv, IInvNoStall, PTL DEF Spec

-----------------------------------------------------------------------------
(* Refinement: the tracker implements LowWaterMark. *)

\* A new ackTracker is an initial state of LowWaterMark.
LEMMA InitRefines == Init => LWM!Init
  BY NoneAssumption DEF Init, InitAt, LWM!Init, visibleMark, visibleAcked

\* While no call of ack() is under way, the mark is exact for what is acknowledged.
LEMMA VisibleExact == IInv /\ mu = NoOne => LWM!Exact(low, visibleAcked)
<1> USE LSNAssumption, NoneAssumption
<1> SUFFICES ASSUME IInv, mu = NoOne
             PROVE  LWM!Exact(low, visibleAcked)
  BY Zenon
<1>1. \A w \in Workers : pc[w] # "drain"
  BY Zenon DEF IInv, Tiling, Locking
<1>2. visibleAcked = (1..(rangeFrom - 1)) \
                        UNION {LSNs(task[w]) : w \in {v \in Workers : pc[v] = "ack"}}
  BY Zenon, <1>1 DEF visibleAcked
<1>3. 1..low \subseteq visibleAcked
  BY <1>2 DEF IInv, TypeOK, Tiling, Between, Locking, Unfinished, LSNs, Ranges
<1>4. low + 1 \notin visibleAcked
  <2>1. CASE low + 1 = rangeFrom
    BY <2>1, <1>2 DEF IInv, TypeOK
  <2>2. CASE low + 1 # rangeFrom
    <3>1. PICK w \in Workers : pc[w] = "ack" /\ task[w].first = low + 1
      BY Zenon, <2>2, IInvNoStall DEF NoStall
    <3>2. low + 1 \in LSNs(task[w])
      BY <3>1 DEF IInv, TypeOK, Tiling, Locking, LSNs, Ranges
    <3> QED
      BY Zenon, <1>2, <3>1, <3>2
  <2> QED
    BY Zenon, <2>1, <2>2
<1> QED
  BY <1>3, <1>4 DEF LWM!Exact, IInv, TypeOK

\* The same after a step: what ack() leaves when it unlocks is exact.
LEMMA VisibleExactNext == (IInv /\ mu = NoOne => LWM!Exact(low, visibleAcked))'
  BY VisibleExact, PTL

\* Each step of ack() is an Acknowledge, when it parks or unlocks, or is not seen outside.
LEMMA StepRefines ==
  ASSUME IInv, IInv', [Next]_vars
  PROVE  [LWM!Acknowledge]_(LWM!vars)
<1> USE LSNAssumption, NoneAssumption
<1> DEFINE Open(w) == pc[w] \in {"ack", "drain"}
<1>0. \A x : x \in visibleAcked <=>
               x \in 1..(rangeFrom - 1) /\ \A w \in Workers : Open(w) => x \notin LSNs(task[w])
  BY Zenon DEF visibleAcked
<1>00. \A x : x \in visibleAcked' <=>
               x \in 1..(rangeFrom' - 1) /\ \A w \in Workers : Open(w)' => x \notin LSNs(task'[w])
  BY Zenon DEF visibleAcked, LSNs
<1>01. ASSUME NEW v \in Workers, Open(v)
       PROVE  task[v] \in Ranges /\ task[v].last < rangeFrom
  <2>1. task[v] \in Ranges
    BY Zenon, <1>01 DEF IInv, Tiling, Locking
  <2>2. CASE pc[v] = "ack"
    BY Zenon, <2>1, <2>2 DEF IInv, Tiling, Between, Unfinished
  <2>3. CASE pc[v] = "drain"
    BY <2>1, <2>3 DEF IInv, TypeOK, Tiling, Between, Locking, Ranges
  <2> QED
    BY Zenon, <1>01, <2>1, <2>2, <2>3
<1> HIDE DEF Open
<1>1. ASSUME NEW w \in Workers, NEW to \in rangeFrom..MaxLSN, NEW n \in 0..MaxLSN,
             Cut(w, to, n)
      PROVE  UNCHANGED LWM!vars
  <2>1. visibleMark' = visibleMark
    BY <1>1 DEF Cut, visibleMark, IInv, TypeOK, Tiling, Locking
  <2>2. \A v \in Workers \ {w} : (Open(v)' <=> Open(v)) /\ task'[v] = task[v]
    BY Zenon, <1>1 DEF Cut, Open, IInv, TypeOK
  <2>3. ~Open(w) /\ Open(w)' /\ LSNs(task'[w]) = rangeFrom..to /\ rangeFrom' = to + 1
    BY Zenon, <1>1 DEF Cut, Open, IInv, TypeOK, LSNs
  <2>4. ASSUME NEW x PROVE x \in visibleAcked' <=> x \in visibleAcked
    <3>1. rangeFrom \in Int /\ rangeFrom >= 1
      BY DEF IInv, TypeOK
    <3>2. x \in 1..(rangeFrom' - 1) /\ x \notin LSNs(task'[w]) <=> x \in 1..(rangeFrom - 1)
      BY <2>3, <3>1
    <3>3. (\A v \in Workers : Open(v)' => x \notin LSNs(task'[v])) <=>
             x \notin LSNs(task'[w]) /\ \A v \in Workers : Open(v) => x \notin LSNs(task[v])
      BY Zenon, <2>2, <2>3
    <3> QED
      BY Zenon, <1>0, <1>00, <3>2, <3>3
  <2>5. visibleAcked' = visibleAcked
    BY Zenon, <2>4 DEF visibleAcked
  <2> QED
    BY Zenon, <2>1, <2>5 DEF LWM!vars
<1>2. ASSUME NEW w \in Workers, Open(w), ~Open(w)',
             task[w] \in Ranges, task[w].last < rangeFrom, rangeFrom' = rangeFrom,
             \A v \in Workers \ {w} : (Open(v)' <=> Open(v)) /\ task'[v] = task[v],
             \A v \in Workers \ {w} : Open(v) => LSNs(task[v]) \cap LSNs(task[w]) = {},
             mu' = NoOne
      PROVE  LWM!Acknowledge
  <2>1. (task[w].first .. task[w].last) \cap visibleAcked = {}
    BY Zenon, <1>0, <1>2 DEF LSNs
  <2>2. ASSUME NEW x
        PROVE  x \in visibleAcked' <=> x \in visibleAcked \cup (task[w].first .. task[w].last)
    BY <1>0, <1>00, <1>2 DEF LSNs, Ranges, IInv, TypeOK
  <2>3. visibleAcked' = visibleAcked \cup (task[w].first .. task[w].last)
    BY Zenon, <2>2
  <2>4. LWM!Exact(low, visibleAcked)'
    BY Zenon, <1>2, VisibleExactNext
  <2> QED
    BY Zenon, <1>2, <2>1, <2>3, <2>4 DEF LWM!Acknowledge, visibleMark, Ranges
<1>3. ASSUME NEW w \in Workers, AckAhead(w)
      PROVE  LWM!Acknowledge
  <2>1. Open(w) /\ ~Open(w)' /\ rangeFrom' = rangeFrom /\ mu' = NoOne
    BY Zenon, <1>3 DEF AckAhead, Open, IInv, TypeOK
  <2>2. \A v \in Workers \ {w} : (Open(v)' <=> Open(v)) /\ task'[v] = task[v]
    BY Zenon, <1>3 DEF AckAhead, Open, IInv, TypeOK
  <2>3. \A v \in Workers \ {w} : Open(v) => Unfinished(v)
    BY Zenon, <1>3 DEF AckAhead, Open, Unfinished, IInv, Tiling, Locking
  <2>4. \A v \in Workers \ {w} : Open(v) => LSNs(task[v]) \cap LSNs(task[w]) = {}
    BY <1>3, <1>01, <2>1, <2>3 DEF AckAhead, Unfinished, IInv, Tiling, Disjoint, LSNs, Ranges
  <2> QED
    BY Zenon, <1>2, <1>01, <2>1, <2>2, <2>4
<1>4. ASSUME NEW w \in Workers, AckNext(w)
      PROVE  UNCHANGED LWM!vars
  <2>1. visibleMark' = visibleMark
    <3>1. visibleMark = low
      BY Zenon, <1>4 DEF AckNext, visibleMark
    <3>2. mu' = w /\ task' = task /\ task[w].first = low + 1
      BY Zenon, <1>4 DEF AckNext
    <3>3. visibleMark' = task[w].first - 1
      BY Zenon, <3>2 DEF visibleMark
    <3> QED
      BY <3>1, <3>2, <3>3 DEF IInv, TypeOK
  <2>2. \A v \in Workers : (Open(v)' <=> Open(v)) /\ task'[v] = task[v]
    BY Zenon, <1>4 DEF AckNext, Open, IInv, TypeOK
  <2>3. visibleAcked' = visibleAcked
    BY Zenon, <1>0, <1>00, <1>4, <2>2 DEF AckNext
  <2> QED
    BY Zenon, <2>1, <2>3 DEF LWM!vars
<1>5. ASSUME NEW w \in Workers, Drain(w)
      PROVE  UNCHANGED LWM!vars
  <2>1. mu = w /\ mu' = mu /\ pc' = pc /\ task' = task /\ rangeFrom' = rangeFrom
    BY Zenon, <1>5 DEF Drain, IInv, Tiling, Locking
  <2> QED
    BY Zenon, <2>1 DEF LWM!vars, visibleMark, visibleAcked, LSNs
<1>6. ASSUME NEW w \in Workers, Unlock(w)
      PROVE  LWM!Acknowledge
  <2>1. Open(w) /\ ~Open(w)' /\ rangeFrom' = rangeFrom /\ mu' = NoOne
    BY Zenon, <1>6 DEF Unlock, Open, IInv, TypeOK
  <2>2. \A v \in Workers \ {w} : (Open(v)' <=> Open(v)) /\ task'[v] = task[v]
    BY Zenon, <1>6 DEF Unlock, Open, IInv, TypeOK
  <2>3. \A v \in Workers \ {w} : Open(v) => Unfinished(v)
    BY Zenon, <1>6 DEF Unlock, Open, Unfinished, IInv, Tiling, Locking
  <2>4. task[w].last <= low
    BY Zenon, <1>6 DEF Unlock, IInv, Tiling, Locking
  <2>5. \A v \in Workers \ {w} : Open(v) => LSNs(task[v]) \cap LSNs(task[w]) = {}
    BY <1>01, <2>1, <2>3, <2>4 DEF IInv, TypeOK, Tiling, Between, LSNs, Ranges
  <2> QED
    BY Zenon, <1>2, <1>01, <2>1, <2>2, <2>5
<1>7. ASSUME NEW w \in Workers, Release(w)
      PROVE  UNCHANGED LWM!vars
  <2>1. visibleMark' = visibleMark
    BY Zenon, <1>7 DEF Release, visibleMark, IInv, TypeOK, Tiling, Locking
  <2>2. \A v \in Workers \ {w} : (Open(v)' <=> Open(v)) /\ task'[v] = task[v]
    BY Zenon, <1>7 DEF Release, Open, IInv, TypeOK
  <2>3. ~Open(w) /\ ~Open(w)' /\ rangeFrom' = rangeFrom
    BY Zenon, <1>7 DEF Release, Open, IInv, TypeOK
  <2>4. visibleAcked' = visibleAcked
    BY Zenon, <1>0, <1>00, <2>2, <2>3
  <2> QED
    BY Zenon, <2>1, <2>4 DEF LWM!vars
<1>8. CASE UNCHANGED vars
  BY Zenon, <1>8 DEF vars, LWM!vars, visibleMark, visibleAcked, LSNs
<1> QED
  BY Zenon, <1>1, <1>3, <1>4, <1>5, <1>6, <1>7, <1>8 DEF Next, Complete

(***************************************************************************)
(* The ackTracker implements LowWaterMark: seen from outside its mutex,    *)
(* every call of ack() moves an exact low-water mark in one step.          *)
(***************************************************************************)
THEOREM Refinement == Spec => ImplementsLowWaterMark
<1>1. Init => LWM!Init
  BY Zenon, InitRefines
<1>2. IInv /\ IInv' /\ [Next]_vars => [LWM!Acknowledge]_(LWM!vars)
  BY Zenon, StepRefines
<1> QED
  BY <1>1, <1>2, InitIInv, NextIInv, PTL DEF Spec, ImplementsLowWaterMark

-----------------------------------------------------------------------------
(* Capacity.  A worker has freed nothing before its ack() moved the mark. *)

FreedLate == \A w \in Workers : pc[w] \in {"idle", "ack"} => freed[w] = 0

ExactInv == IInv /\ FreedLate /\ CapacityExact

\* A step of one worker changes each of the three accounts at one place.
LEMMA UnacknowledgedChanges ==
  ASSUME IInv, IInv', NEW w \in Workers,
         \A v \in Workers \ {w} : pc'[v] = pc[v] /\ task'[v] = task[v]
  PROVE  /\ Total(Unacknowledged) \in Nat /\ Total(Unacknowledged)' \in Nat
         /\ Total(Unacknowledged)' = Total(Unacknowledged)
              - (IF pc[w] = "ack" THEN task[w].count ELSE 0)
              + (IF pc'[w] = "ack" THEN task'[w].count ELSE 0)
<1> DEFINE c == Unacknowledged
           d == Unacknowledged'
<1>1. DOMAIN c = {v \in Workers : pc[v] = "ack"} /\ \A v \in DOMAIN c : c[v] = task[v].count
  BY Zenon DEF Unacknowledged
<1>2. DOMAIN d = {v \in Workers : pc'[v] = "ack"} /\ \A v \in DOMAIN d : d[v] = task'[v].count
  BY Zenon DEF Unacknowledged
<1>3. /\ \A v \in Workers : pc[v] = "ack" => task[v].count \in Nat
      /\ \A v \in Workers : pc'[v] = "ack" => task'[v].count \in Nat
  BY LSNAssumption DEF IInv, Tiling, Locking, Ranges
<1>4. IsFiniteSet(DOMAIN c) /\ IsFiniteSet(DOMAIN d)
  BY Zenon, <1>1, <1>2, FiniteAssumption, FS_Subset
<1>5. /\ \A v \in DOMAIN c : c[v] \in Nat
      /\ \A v \in DOMAIN d : d[v] \in Nat
      /\ DOMAIN c \ {w} = DOMAIN d \ {w}
      /\ \A v \in DOMAIN c \ {w} : c[v] = d[v]
  BY <1>1, <1>2, <1>3
<1>6. /\ w \in DOMAIN c <=> pc[w] = "ack"
      /\ w \in DOMAIN d <=> pc'[w] = "ack"
      /\ w \in DOMAIN c => c[w] = task[w].count
      /\ w \in DOMAIN d => d[w] = task'[w].count
  BY Zenon, <1>1, <1>2
<1>7. Total(Unacknowledged)' = Total(d)
  BY Zenon DEF Total, Units
<1> HIDE DEF c, d
<1>8. /\ Total(c) \in Nat /\ Total(d) \in Nat
      /\ Total(d) = Total(c) - (IF w \in DOMAIN c THEN c[w] ELSE 0)
                             + (IF w \in DOMAIN d THEN d[w] ELSE 0)
  BY Zenon, <1>4, <1>5, TotalChanges
<1> QED
  BY Zenon, <1>6, <1>7, <1>8 DEF c

\* What is parked changes at the range parked or drained,
LEMMA ParkedChanges ==
  ASSUME IInv, IInv', NEW x, DOMAIN done' \ {x} = DOMAIN done \ {x},
         \A f \in DOMAIN done \ {x} : done'[f] = done[f]
  PROVE  /\ Total(Parked) \in Nat /\ Total(Parked)' \in Nat
         /\ Total(Parked)' = Total(Parked)
              - (IF x \in DOMAIN done THEN done[x].count ELSE 0)
              + (IF x \in DOMAIN done' THEN done'[x].count ELSE 0)
<1> DEFINE c == Parked
           d == Parked'
<1>1. DOMAIN c = DOMAIN done /\ \A f \in DOMAIN c : c[f] = done[f].count
  BY Zenon DEF Parked
<1>2. DOMAIN d = DOMAIN done' /\ \A f \in DOMAIN d : d[f] = done'[f].count
  BY Zenon DEF Parked
<1>3. /\ \A f \in DOMAIN done : done[f].count \in Nat
      /\ \A f \in DOMAIN done' : done'[f].count \in Nat
  BY LSNAssumption DEF IInv, TypeOK
<1>4. IsFiniteSet(DOMAIN c) /\ IsFiniteSet(DOMAIN d)
  <2>1. PICK one \in Int : one = 1
    OBVIOUS
  <2>2. IsFiniteSet(one..MaxLSN)
    BY LSNAssumption, FS_Interval
  <2>3. DOMAIN c \in SUBSET (one..MaxLSN) /\ DOMAIN d \in SUBSET (one..MaxLSN)
    BY Zenon, <1>1, <1>2, <2>1 DEF IInv, TypeOK
  <2> QED
    BY Zenon, <2>2, <2>3, FS_Subset
<1>5. /\ \A f \in DOMAIN c : c[f] \in Nat
      /\ \A f \in DOMAIN d : d[f] \in Nat
      /\ DOMAIN c \ {x} = DOMAIN d \ {x}
      /\ \A f \in DOMAIN c \ {x} : c[f] = d[f]
  BY Zenon, <1>1, <1>2, <1>3
<1>6. /\ x \in DOMAIN c => c[x] = done[x].count
      /\ x \in DOMAIN d => d[x] = done'[x].count
  BY Zenon, <1>1, <1>2
<1>7. Total(Parked)' = Total(d)
  BY Zenon DEF Total, Units
<1> HIDE DEF c, d
<1>8. /\ Total(c) \in Nat /\ Total(d) \in Nat
      /\ Total(d) = Total(c) - (IF x \in DOMAIN c THEN c[x] ELSE 0)
                             + (IF x \in DOMAIN d THEN d[x] ELSE 0)
  BY Zenon, <1>4, <1>5, TotalChanges
<1> QED
  BY Zenon, <1>1, <1>2, <1>6, <1>7, <1>8 DEF c

\* and what is freed, at the worker that frees or returns it.
LEMMA FreedChanges ==
  ASSUME IInv, IInv', NEW w \in Workers, \A v \in Workers \ {w} : freed'[v] = freed[v]
  PROVE  /\ Total(freed) \in Nat /\ Total(freed)' \in Nat
         /\ Total(freed)' = Total(freed) - freed[w] + freed'[w]
<1>1. DOMAIN freed = Workers /\ DOMAIN freed' = Workers
  BY Zenon DEF IInv, TypeOK
<1>2. (\A v \in Workers : freed[v] \in Nat) /\ (\A v \in Workers : freed'[v] \in Nat)
  BY Zenon DEF IInv, TypeOK
<1>3. Total(freed)' = Total(freed')
  BY Zenon DEF Total, Units
<1>4. /\ Total(freed) \in Nat /\ Total(freed') \in Nat
      /\ Total(freed') = Total(freed) - (IF w \in DOMAIN freed THEN freed[w] ELSE 0)
                                      + (IF w \in DOMAIN freed' THEN freed'[w] ELSE 0)
  BY <1>1, <1>2, FiniteAssumption, TotalChanges
<1> QED
  BY Zenon, <1>1, <1>3, <1>4

\* The range cut, parked, taken below the mark, drained or released: its capacity moves on.
LEMMA WorkerExact ==
  ASSUME ExactInv, IInv', NEW w \in Workers,
         (\E to \in rangeFrom..MaxLSN : \E n \in 0..MaxLSN : Cut(w, to, n)) \/ Complete(w)
  PROVE  FreedLate' /\ CapacityExact'
<1> USE LSNAssumption
<1>0. /\ IInv /\ pendingRecords \in Int /\ freed \in [Workers -> Nat] /\ low \in Int
      /\ pc \in [Workers -> {"idle", "ack", "drain", "release"}] /\ DOMAIN task = Workers
      /\ pc[w] = "ack" => task[w].count \in Nat
  BY DEF ExactInv, IInv, TypeOK, Tiling, Locking, Ranges
<1>1. /\ \A v \in Workers \ {w} : pc'[v] = pc[v] /\ task'[v] = task[v]
      /\ \A v \in Workers \ {w} : freed'[v] = freed[v]
  BY Zenon, <1>0 DEF Cut, Complete, AckAhead, AckNext, Drain, Unlock, Release
<1>2. PICK x : /\ DOMAIN done' \ {x} = DOMAIN done \ {x}
               /\ \A f \in DOMAIN done \ {x} : done'[f] = done[f]
               /\ AckAhead(w) => x = task[w].first
               /\ Drain(w) => x = low + 1
  <2>1. CASE AckAhead(w)
    <3>1. ~Drain(w)
      BY Zenon, <2>1 DEF AckAhead, Drain
    <3> QED
      BY Zenon, <2>1, <3>1 DEF AckAhead
  <2>2. CASE Drain(w)
    <3>1. ~AckAhead(w)
      BY Zenon, <2>2 DEF AckAhead, Drain
    <3> QED
      BY Zenon, <2>2, <3>1 DEF Drain
  <2>3. CASE ~AckAhead(w) /\ ~Drain(w)
    <3>1. done' = done
      BY Zenon, <2>3 DEF Cut, Complete, AckNext, Unlock, Release
    <3> QED
      BY Zenon, <2>3, <3>1
  <2> QED
    BY Zenon, <2>1, <2>2, <2>3
<1>3. PICK u \in Nat, u1 \in Nat, p \in Nat, p1 \in Nat, r \in Nat, r1 \in Nat :
        /\ u = Total(Unacknowledged) /\ u1 = Total(Unacknowledged)'
        /\ p = Total(Parked) /\ p1 = Total(Parked)'
        /\ r = Total(freed) /\ r1 = Total(freed)'
        /\ u1 = u - (IF pc[w] = "ack" THEN task[w].count ELSE 0)
                  + (IF pc'[w] = "ack" THEN task'[w].count ELSE 0)
        /\ p1 = p - (IF x \in DOMAIN done THEN done[x].count ELSE 0)
                  + (IF x \in DOMAIN done' THEN done'[x].count ELSE 0)
        /\ r1 = r - freed[w] + freed'[w]
  <2>1. /\ Total(Unacknowledged) \in Nat /\ Total(Unacknowledged)' \in Nat
        /\ Total(Unacknowledged)' = Total(Unacknowledged)
             - (IF pc[w] = "ack" THEN task[w].count ELSE 0)
             + (IF pc'[w] = "ack" THEN task'[w].count ELSE 0)
    BY Zenon, <1>0, <1>1, UnacknowledgedChanges
  <2>2. /\ Total(Parked) \in Nat /\ Total(Parked)' \in Nat
        /\ Total(Parked)' = Total(Parked)
             - (IF x \in DOMAIN done THEN done[x].count ELSE 0)
             + (IF x \in DOMAIN done' THEN done'[x].count ELSE 0)
    BY Zenon, <1>0, <1>2, ParkedChanges
  <2>3. /\ Total(freed) \in Nat /\ Total(freed)' \in Nat
        /\ Total(freed)' = Total(freed) - freed[w] + freed'[w]
    BY Zenon, <1>0, <1>1, FreedChanges
  <2> QED
    BY Zenon, <2>1, <2>2, <2>3
<1>4. pendingRecords = u + p + r
  BY Zenon, <1>3 DEF ExactInv, CapacityExact
<1>5. pc[w] \in {"idle", "ack"} => freed[w] = 0
  BY Zenon DEF ExactInv, FreedLate
<1>6. FreedLate' /\ pendingRecords' = u1 + p1 + r1
  <2>1. ASSUME NEW to \in rangeFrom..MaxLSN, NEW n \in 0..MaxLSN, Cut(w, to, n)
        PROVE  FreedLate' /\ pendingRecords' = u1 + p1 + r1
    <3>1. pc[w] = "idle" /\ pc'[w] = "ack" /\ task'[w].count = n /\ done' = done /\ freed' = freed
          /\ pendingRecords' = pendingRecords + n
      BY Zenon, <1>0, <2>1 DEF Cut
    <3>2. p1 = p /\ u1 = u + n /\ r1 = r
      BY <1>0, <1>3, <3>1 DEF IInv, TypeOK
    <3> QED
      BY <1>0, <1>1, <1>4, <1>5, <3>1, <3>2 DEF FreedLate, ExactInv
  <2>2. CASE AckAhead(w)
    <3>1. /\ pc[w] = "ack" /\ pc'[w] = "release" /\ x = task[w].first /\ freed'[w] = 0
          /\ pendingRecords' = pendingRecords /\ x \in DOMAIN done'
      BY Zenon, <1>0, <1>2, <2>2 DEF AckAhead
    <3>2. done'[x].count = task[w].count
      BY Zenon, <1>2, <2>2, <3>1 DEF AckAhead
    <3>3. x \notin DOMAIN done
      BY <1>0, <3>1 DEF IInv, TypeOK, Tiling, Disjoint, Locking, Unfinished, Ranges
    <3>4. u1 = u - task[w].count /\ p1 = p + task[w].count /\ r1 = r
      BY SMTT(30), <1>0, <1>3, <1>5, <3>1, <3>2, <3>3
    <3> QED
      BY <1>0, <1>1, <1>4, <3>1, <3>4 DEF FreedLate, ExactInv
  <2>3. CASE AckNext(w)
    <3>1. /\ pc[w] = "ack" /\ pc'[w] = "drain" /\ freed'[w] = task[w].count
          /\ pendingRecords' = pendingRecords /\ done' = done
      BY Zenon, <1>0, <2>3 DEF AckNext
    <3>2. u1 = u - task[w].count /\ p1 = p /\ r1 = r + task[w].count
      BY SMTT(30), <1>0, <1>3, <1>5, <3>1 DEF IInv, TypeOK
    <3> QED
      BY <1>0, <1>1, <1>4, <3>1, <3>2 DEF FreedLate, ExactInv
  <2>4. CASE Drain(w)
    <3>1. /\ pc[w] = "drain" /\ pc'[w] = "drain" /\ x \in DOMAIN done /\ x \notin DOMAIN done'
          /\ freed'[w] = freed[w] + done[x].count /\ pendingRecords' = pendingRecords
      BY Zenon, <1>0, <1>2, <2>4 DEF Drain
    <3>2. done[x].count \in Nat /\ freed[w] \in Nat
      BY <1>0, <3>1 DEF IInv, TypeOK
    <3>3. u1 = u /\ p1 = p - done[x].count /\ r1 = r + done[x].count
      BY <1>3, <3>1, <3>2
    <3> QED
      BY <1>0, <1>1, <1>4, <3>1, <3>2, <3>3 DEF FreedLate, ExactInv
  <2>5. CASE Unlock(w)
    <3>1. /\ pc[w] = "drain" /\ pc'[w] = "release" /\ done' = done /\ freed' = freed
          /\ pendingRecords' = pendingRecords
      BY Zenon, <1>0, <2>5 DEF Unlock
    <3>2. u1 = u /\ p1 = p /\ r1 = r
      BY <1>0, <1>3, <3>1 DEF IInv, TypeOK
    <3> QED
      BY Zenon, <1>0, <1>1, <1>4, <3>1, <3>2 DEF FreedLate, ExactInv
  <2>6. CASE Release(w)
    <3>1. /\ pc[w] = "release" /\ pc'[w] = "idle" /\ done' = done /\ freed'[w] = 0
          /\ pendingRecords' = pendingRecords - freed[w] /\ freed[w] \in Nat
      BY Zenon, <1>0, <2>6 DEF Release
    <3>2. u1 = u /\ p1 = p /\ r1 = r - freed[w]
      BY <1>0, <1>3, <3>1 DEF IInv, TypeOK
    <3> QED
      BY <1>0, <1>1, <1>4, <3>1, <3>2 DEF FreedLate, ExactInv
  <2> QED
    BY Zenon, <2>1, <2>2, <2>3, <2>4, <2>5, <2>6 DEF Complete
<1> QED
  BY Zenon, <1>3, <1>6 DEF CapacityExact

Fresh == /\ DOMAIN done = {} /\ pc = [w \in Workers |-> "idle"]
         /\ freed = [w \in Workers |-> 0] /\ pendingRecords = 0

\* A tracker that starts, also after a crash, holds no capacity.
LEMMA NothingHeld == Fresh => FreedLate /\ CapacityExact
<1> SUFFICES ASSUME Fresh PROVE FreedLate /\ CapacityExact
  BY Zenon
<1> USE DEF Fresh
<1>1. Units(Unacknowledged) = {} /\ Units(Parked) = {} /\ Units(freed) = {}
  <2>1. \A c : DOMAIN c = {} => Units(c) = {}
    BY Zenon DEF Units
  <2>2. DOMAIN Unacknowledged = {} /\ DOMAIN Parked = {}
    BY Zenon DEF Unacknowledged, Parked
  <2>3. Units(freed) = {}
    BY DEF Units
  <2> QED
    BY Zenon, <2>1, <2>2, <2>3
<1>2. Total(Unacknowledged) = 0 /\ Total(Parked) = 0 /\ Total(freed) = 0
  BY Zenon, <1>1, FS_EmptySet DEF Total
<1> QED
  BY <1>2 DEF FreedLate, CapacityExact

\* The same of the state newAckTracker leaves behind.
LEMMA NothingHeldNext == Fresh' => FreedLate' /\ CapacityExact'
  BY NothingHeld, PTL

-----------------------------------------------------------------------------
(* persist(), crashes and restarts around it.                                *)

(***************************************************************************)
(* Beside the tracker's own invariant: what is below rangeFrom and in no   *)
(* unfinished range has been handled, and persist() only ever writes a     *)
(* mark that the tracker has reached in this run.                          *)
(***************************************************************************)
Accounted ==
  \A x \in 1..(rangeFrom - 1) :
    x \in handled \/ \E w \in Workers : Unfinished(w) /\ x \in LSNs(task[w])

Persisting ==
  /\ deleted <= checkpoint
  /\ checkpoint <= low
  /\ cpPC \in {"write", "truncate"} => checkpoint <= cpLow /\ cpLow <= low
  /\ cpPC = "truncate" => checkpoint = cpLow

CIInv == IInv /\ CTypeOK /\ Accounted /\ Persisting

\* A new directory: no checkpoint, nothing handled, persist() idle.
LEMMA CInitIInv == CInit => CIInv
<1> SUFFICES ASSUME CInit PROVE CIInv
  BY Zenon
<1>1. IInv
  BY Zenon, InitIInv DEF CInit
<1>2. Accounted /\ Persisting
  BY DEF CInit, Init, InitAt, Accounted, Persisting
<1> QED
  BY <1>1, <1>2, LSNAssumption, BoundAssumption DEF CIInv, CTypeOK, CInit, IInv

(***************************************************************************)
(* Within a run the mark only grows.                                       *)
(***************************************************************************)
LEMMA LowGrows ==
  ASSUME IInv, NEW w \in Workers,
         (\E to \in rangeFrom..MaxLSN : \E n \in 0..MaxLSN : Cut(w, to, n)) \/ Complete(w)
  PROVE  low <= low'
<1> USE LSNAssumption
<1>1. CASE \E to \in rangeFrom..MaxLSN : \E n \in 0..MaxLSN : Cut(w, to, n)
  BY <1>1 DEF Cut, IInv, TypeOK
<1>2. CASE AckAhead(w) \/ Unlock(w) \/ Release(w)
  BY <1>2 DEF AckAhead, Unlock, Release, IInv, TypeOK
<1>3. CASE AckNext(w)
  BY <1>3 DEF AckNext, IInv, TypeOK, Tiling, Locking, Ranges
<1>4. CASE Drain(w)
  BY <1>4 DEF Drain, IInv, TypeOK
<1> QED
  BY Zenon, <1>1, <1>2, <1>3, <1>4 DEF Complete

\* Deliveries beside persist(): the mark grows, and an acknowledged range is handled.
LEMMA DeliveryIInv ==
  ASSUME CIInv, NEW w \in Workers, CutStep(w) \/ AckStep(w) \/ AfterAckStep(w)
  PROVE  CIInv'
<1> USE LSNAssumption, BoundAssumption
<1>1. (\E to \in rangeFrom..MaxLSN : \E n \in 0..MaxLSN : Cut(w, to, n)) \/ Complete(w)
  BY Zenon DEF CutStep, AckStep, AfterAckStep, Complete
<1>2. IInv'
  BY Zenon, <1>1, NextIInv DEF CIInv, Next
<1>3. cpVars' = cpVars /\ envVars' = envVars
  BY Zenon DEF CutStep, AckStep, AfterAckStep
<1>4. Persisting'
  BY <1>1, <1>2, <1>3, LowGrows DEF CIInv, CTypeOK, Persisting, cpVars, IInv, TypeOK
<1>5. Accounted'
  <2>1. CASE CutStep(w)
    <3>1. PICK to \in rangeFrom..MaxLSN : \E n \in 0..MaxLSN : Cut(w, to, n)
      BY Zenon, <2>1 DEF CutStep
    <3>2. LSNs(task'[w]) = rangeFrom..to /\ Unfinished(w)' /\ ~Unfinished(w)
          /\ rangeFrom' = to + 1 /\ handled' = handled
      BY <2>1, <3>1 DEF Cut, CutStep, CIInv, IInv, TypeOK, LSNs, Unfinished
    <3>3. \A v \in Workers \ {w} : (Unfinished(v)' <=> Unfinished(v)) /\ task'[v] = task[v]
      BY Zenon, <3>1 DEF Cut, CIInv, IInv, TypeOK, Unfinished
    <3>4. rangeFrom \in Int
      BY DEF CIInv, IInv, TypeOK
    <3> SUFFICES ASSUME NEW x \in 1..to
                 PROVE  x \in handled \/ \E v \in Workers : Unfinished(v)' /\ x \in LSNs(task'[v])
      BY <3>2 DEF Accounted, LSNs
    <3>5. CASE x \in rangeFrom..to
      BY Zenon, <3>2, <3>5
    <3>6. CASE x \in 1..(rangeFrom - 1)
      BY Zenon, <3>2, <3>3, <3>6 DEF CIInv, Accounted
    <3> QED
      BY <3>4, <3>5, <3>6
  <2>2. CASE AckStep(w)
    BY Zenon, <2>2 DEF AckStep, AckAhead, AckNext, CIInv, IInv, TypeOK, Accounted, Unfinished, LSNs
  <2>3. CASE AfterAckStep(w)
    BY Zenon, <2>3 DEF AfterAckStep, Drain, Unlock, Release, CIInv, IInv, TypeOK, Accounted,
                Unfinished, LSNs
  <2> QED
    BY Zenon, <2>1, <2>2, <2>3
<1>6. handled' \subseteq 1..MaxLSN
  BY DEF CutStep, AckStep, AfterAckStep, AckAhead, AckNext, CIInv, CTypeOK, IInv, Tiling,
         Locking, LSNs, Ranges
<1> QED
  BY Zenon, <1>2, <1>3, <1>4, <1>5, <1>6 DEF CIInv, CTypeOK, cpVars, envVars, IInv

\* A step of persist(), failing ones included, writes and deletes up to a mark already reached.
LEMMA PersistIInv ==
  ASSUME CIInv, Persist \/ PersistWriteFails \/ PersistTruncateFails
  PROVE  CIInv'
<1> USE LSNAssumption, BoundAssumption
<1>1. vars' = vars /\ handled' = handled
  BY Zenon DEF Persist, PersistRead, PersistWrite, PersistTruncate, PersistWriteFails,
         PersistTruncateFails
<1>2. IInv'
  BY Zenon, <1>1, NextIInv DEF CIInv
<1>3. Accounted'
  BY Zenon, <1>1 DEF CIInv, Accounted, vars, Unfinished, LSNs
<1>4. Persisting'
  BY SMTT(30), <1>1 DEF Persist, PersistRead, PersistWrite, PersistTruncate, PersistWriteFails,
              PersistTruncateFails, CIInv, CTypeOK, IInv, TypeOK, Persisting, vars
<1>5. CTypeOK'
  BY <1>1, <1>2 DEF Persist, PersistRead, PersistWrite, PersistTruncate, PersistWriteFails,
              PersistTruncateFails, CIInv, CTypeOK, IInv, TypeOK, envVars, vars
<1> QED
  BY Zenon, <1>2, <1>3, <1>4, <1>5 DEF CIInv

\* Open restarts the tracker at the checkpoint, all of which is handled.
LEMMA CrashIInv ==
  ASSUME CIInv, CrashAndOpen
  PROVE  CIInv'
<1> USE LSNAssumption, NoneAssumption, BoundAssumption
<1>1. TypeOK'
  BY DEF CrashAndOpen, CIInv, CTypeOK, TypeOK
<1>2. Tiling'
  BY DEF CrashAndOpen, CIInv, CTypeOK, Tiling, Disjoint, Between, Covered, Locking,
         Unfinished, LSNs
<1>3. Persisting'
  BY DEF CrashAndOpen, CIInv, CTypeOK, Persisting
<1>4. 1..checkpoint \subseteq handled
  BY DEF CIInv, CTypeOK, IInv, TypeOK, Tiling, Between, Locking, Accounted, Persisting,
         Unfinished, LSNs, Ranges
<1>5. Accounted'
  BY <1>4 DEF CrashAndOpen, CIInv, CTypeOK, Accounted
<1>6. CTypeOK'
  BY <1>1 DEF CrashAndOpen, CIInv, CTypeOK
<1> QED
  BY Zenon, <1>1, <1>2, <1>3, <1>5, <1>6 DEF CIInv, IInv

\* Every step, of deliveries, persist() or a crash, preserves the invariant.
LEMMA CNextIInv == CIInv /\ [CNext]_allVars => CIInv'
<1> SUFFICES ASSUME CIInv, [CNext]_allVars PROVE CIInv'
  BY Zenon
<1>1. CASE UNCHANGED allVars
  <2>1. IInv'
    BY Zenon, <1>1, NextIInv DEF CIInv, allVars
  <2> QED
    BY Zenon, <1>1, <2>1 DEF allVars, vars, cpVars, envVars, CIInv, CTypeOK, IInv, Accounted,
                      Persisting, Unfinished, LSNs
<1>2. CASE CNext
  BY Zenon, <1>2, DeliveryIInv, PersistIInv, CrashIInv DEF CNext
<1> QED
  BY Zenon, <1>1, <1>2

(***************************************************************************)
(* At-least-once: whatever crashes and failures happen, the checkpoint     *)
(* persist() leaves in the file covers only acknowledged LSNs.             *)
(***************************************************************************)
THEOREM CheckpointIsSafe == CSpec => []CheckpointCovered
<1>1. CIInv => CheckpointCovered
  BY LSNAssumption
     DEF CIInv, CTypeOK, IInv, TypeOK, Tiling, Between, Locking, Accounted, Persisting,
         Unfinished, LSNs, Ranges, CheckpointCovered
<1> QED
  BY <1>1, CInitIInv, CNextIInv, PTL DEF CSpec

(***************************************************************************)
(* persist() deletes nothing the CHECKPOINT file does not cover.           *)
(***************************************************************************)
THEOREM DeletionIsSafe == CSpec => []DeletedCovered
<1>1. CIInv => DeletedCovered
  BY Zenon DEF CIInv, Persisting, DeletedCovered
<1> QED
  BY <1>1, CInitIInv, CNextIInv, PTL DEF CSpec

(***************************************************************************)
(* The CHECKPOINT file never goes back, over any number of restarts.       *)
(***************************************************************************)
THEOREM CheckpointNeverReverts == CSpec => CheckpointMonotone
<1>1. CIInv /\ [CNext]_allVars => [checkpoint' >= checkpoint]_checkpoint
  BY Zenon DEF CIInv, CTypeOK, Persisting, CNext, allVars, cpVars, CutStep, AckStep, AfterAckStep,
         Persist, PersistRead, PersistWrite, PersistTruncate, PersistWriteFails,
         PersistTruncateFails, CrashAndOpen
<1> QED
  BY <1>1, CInitIInv, CNextIInv, PTL DEF CSpec, CheckpointMonotone

(***************************************************************************)
(* Capacity is returned exactly once, and only by the ack() that moved the *)
(* mark over it (flush.go, complete), for any number of workers, any order *)
(* of their acknowledgements, and in every run of the process.             *)
(***************************************************************************)
THEOREM CapacityReturnedOnce == CSpec => []CapacityExact
<1> DEFINE Held == CIInv /\ FreedLate /\ CapacityExact
<1>1. CInit => Held
  <2> SUFFICES ASSUME CInit PROVE Held
    BY Zenon
  <2>1. Fresh
    BY Zenon DEF CInit, Init, InitAt, Fresh
  <2> QED
    BY Zenon, <2>1, NothingHeld, CInitIInv
<1>2. Held /\ [CNext]_allVars => Held'
  <2> SUFFICES ASSUME Held, [CNext]_allVars PROVE Held'
    BY Zenon
  <2>1. CIInv' /\ IInv /\ IInv' /\ ExactInv
    BY Zenon, CNextIInv DEF CIInv, ExactInv
  <2>2. ASSUME NEW w \in Workers, CutStep(w) \/ AckStep(w) \/ AfterAckStep(w)
        PROVE  FreedLate' /\ CapacityExact'
    <3>1. (\E to \in rangeFrom..MaxLSN : \E n \in 0..MaxLSN : Cut(w, to, n)) \/ Complete(w)
      BY Zenon, <2>2 DEF CutStep, AckStep, AfterAckStep, Complete
    <3> QED
      BY Zenon, <2>1, <3>1, WorkerExact
  <2>3. ASSUME UNCHANGED vars PROVE FreedLate' /\ CapacityExact'
    <3>1. UNCHANGED <<Unacknowledged, Parked, freed, pc, pendingRecords>>
      BY Zenon, <2>3 DEF vars, Unacknowledged, Parked
    <3>2. UNCHANGED <<Total(Unacknowledged), Total(Parked), Total(freed)>>
      BY Zenon, <3>1 DEF Total, Units
    <3> QED
      BY Zenon, <3>1, <3>2 DEF FreedLate, CapacityExact
  <2>4. ASSUME CrashAndOpen PROVE FreedLate' /\ CapacityExact'
    <3>1. Fresh'
      BY Zenon, <2>4 DEF CrashAndOpen, Fresh
    <3> QED
      BY Zenon, <3>1, NothingHeldNext
  <2> QED
    BY Zenon, <2>1, <2>2, <2>3, <2>4 DEF CNext, Persist, PersistRead, PersistWrite, PersistTruncate,
                                  PersistWriteFails, PersistTruncateFails, allVars
<1> QED
  BY <1>1, <1>2, PTL DEF CSpec

-----------------------------------------------------------------------------
(* Refinement: restarts included, the tracker implements LowWaterMark. *)

(***************************************************************************)
(* What persist() has read, and so what the file holds, was shown outside  *)
(* the tracker's mutex in this run.                                        *)
(***************************************************************************)
Shown ==
  /\ checkpoint <= visibleMark
  /\ cpPC \in {"write", "truncate"} => cpLow <= visibleMark

\* The mark that mark() shows is a natural number, also while ack() drains.
LEMMA VisibleIsNat == IInv => visibleMark \in Nat
  BY LSNAssumption, NoneAssumption DEF IInv, TypeOK, Tiling, Locking, visibleMark, Ranges

\* The same after a step of ack() or of anything beside it.
LEMMA VisibleIsNatNext == (IInv => visibleMark \in Nat)'
  BY VisibleIsNat, PTL

\* The shown mark never goes back in a run: ack() shows a new one when it unlocks.
LEMMA VisibleGrows ==
  ASSUME IInv, NEW w \in Workers,
         (\E to \in rangeFrom..MaxLSN : \E n \in 0..MaxLSN : Cut(w, to, n)) \/ Complete(w)
  PROVE  visibleMark <= visibleMark'
<1> USE LSNAssumption, NoneAssumption
<1>0. visibleMark \in Nat
  BY Zenon, VisibleIsNat
<1>1. CASE \E to \in rangeFrom..MaxLSN : \E n \in 0..MaxLSN : Cut(w, to, n)
  BY <1>0, <1>1 DEF Cut, visibleMark, IInv, TypeOK, Tiling, Locking
<1>2. CASE AckAhead(w)
  BY <1>0, <1>2 DEF AckAhead, visibleMark
<1>3. CASE AckNext(w)
  BY <1>0, <1>3 DEF AckNext, visibleMark, IInv, TypeOK
<1>4. CASE Drain(w)
  BY <1>0, <1>4 DEF Drain, visibleMark, IInv, Tiling, Locking
<1>5. CASE Unlock(w)
  BY <1>5 DEF Unlock, visibleMark, IInv, TypeOK, Tiling, Locking, Ranges
<1>6. CASE Release(w)
  BY <1>0, <1>6 DEF Release, visibleMark, IInv, TypeOK, Tiling, Locking
<1> QED
  BY Zenon, <1>1, <1>2, <1>3, <1>4, <1>5, <1>6 DEF Complete

\* persist() writes only a mark it was shown, and Open restarts at what it wrote.
LEMMA ShownNext ==
  ASSUME CIInv, Shown, [CNext]_allVars
  PROVE  Shown'
<1>0. visibleMark \in Nat
  BY Zenon, VisibleIsNat DEF CIInv
<1>1. ASSUME NEW w \in Workers, CutStep(w) \/ AckStep(w) \/ AfterAckStep(w)
      PROVE  Shown'
  <2>1. (\E to \in rangeFrom..MaxLSN : \E n \in 0..MaxLSN : Cut(w, to, n)) \/ Complete(w)
    BY Zenon, <1>1 DEF CutStep, AckStep, AfterAckStep, Complete
  <2>2. visibleMark <= visibleMark'
    BY Zenon, <2>1, VisibleGrows DEF CIInv
  <2>3. cpVars' = cpVars
    BY Zenon, <1>1 DEF CutStep, AckStep, AfterAckStep
  <2>4. visibleMark' \in Nat
    <3>1. IInv'
      BY Zenon, <1>1, DeliveryIInv DEF CIInv
    <3> QED
      BY Zenon, <3>1, VisibleIsNatNext
  <2> QED
    BY <1>0, <2>2, <2>3, <2>4 DEF Shown, cpVars, CIInv, CTypeOK
<1>2. CASE Persist \/ PersistWriteFails \/ PersistTruncateFails
  <2>1. visibleMark' = visibleMark
    BY Zenon, <1>2 DEF Persist, PersistRead, PersistWrite, PersistTruncate, PersistWriteFails,
                PersistTruncateFails, vars, visibleMark
  <2> QED
    BY <1>0, <1>2, <2>1
       DEF Persist, PersistRead, PersistWrite, PersistTruncate, PersistWriteFails,
           PersistTruncateFails, visibleMark, Shown, CIInv, CTypeOK
<1>3. CASE CrashAndOpen
  BY <1>3 DEF CrashAndOpen, visibleMark, Shown, CIInv, CTypeOK
<1>4. CASE UNCHANGED allVars
  BY Zenon, <1>4 DEF allVars, vars, cpVars, visibleMark, Shown
<1> QED
  BY Zenon, <1>1, <1>2, <1>3, <1>4 DEF CNext

\* Every step is an Acknowledge or a Restart of LowWaterMark, or is not seen outside.
LEMMA CStepRefines ==
  ASSUME CIInv, CIInv', Shown, [CNext]_allVars
  PROVE  [LWM!Next]_(LWM!vars)
<1>1. ASSUME NEW w \in Workers, CutStep(w) \/ AckStep(w) \/ AfterAckStep(w)
      PROVE  [LWM!Next]_(LWM!vars)
  <2>1. Next
    BY Zenon, <1>1 DEF CutStep, AckStep, AfterAckStep, Complete, Next
  <2>2. [LWM!Acknowledge]_(LWM!vars)
    BY Zenon, <2>1, StepRefines DEF CIInv
  <2> QED
    BY Zenon, <2>2 DEF LWM!Next
<1>2. CASE UNCHANGED vars
  BY Zenon, <1>2 DEF vars, LWM!vars, visibleMark, visibleAcked, LSNs
<1>3. CASE CrashAndOpen
  <2>1. visibleMark' = checkpoint
    BY Zenon, <1>3 DEF CrashAndOpen, visibleMark
  <2>2. visibleAcked' = 1..checkpoint
    BY <1>3 DEF CrashAndOpen, visibleAcked, CIInv, CTypeOK
  <2>3. checkpoint \in 0..visibleMark
    BY VisibleIsNat, LSNAssumption DEF Shown, CIInv, CTypeOK
  <2> QED
    BY Zenon, <2>1, <2>2, <2>3 DEF LWM!Next, LWM!Restart
<1> QED
  BY Zenon, <1>1, <1>2, <1>3 DEF CNext, Persist, PersistRead, PersistWrite, PersistTruncate,
                          PersistWriteFails, PersistTruncateFails, allVars

(***************************************************************************)
(* Deliveries, persist() and Open implement LowWaterMark with restarts: no *)
(* run resumes above a mark that an earlier one was shown.                 *)
(***************************************************************************)
THEOREM RestartRefinement == CSpec => ImplementsRestarts
<1>1. CInit => LWM!Init
  BY Zenon, InitRefines DEF CInit
<1>2. CInit => Shown
  BY NoneAssumption DEF CInit, Init, InitAt, Shown, visibleMark
<1>3. CIInv /\ CIInv' /\ Shown /\ [CNext]_allVars => [LWM!Next]_(LWM!vars)
  BY Zenon, CStepRefines
<1>4. CIInv /\ Shown /\ [CNext]_allVars => Shown'
  BY Zenon, ShownNext
<1> QED
  BY <1>1, <1>2, <1>3, <1>4, CInitIInv, CNextIInv, PTL DEF CSpec, ImplementsRestarts

=============================================================================
