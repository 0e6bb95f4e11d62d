------------------------- MODULE BackpressureProofs -------------------------
(***************************************************************************)
(* Those who wait, in two parts that share no state, each for every value  *)
(* of its constants: deliveries in backoff (Retry, with the Gate they wait *)
(* at), and writers at a full buffer (Admission).                          *)
(***************************************************************************)
EXTENDS Admission, Retry, FiniteSetTheorems, TLAPS

-----------------------------------------------------------------------------
(***************************************************************************)
(* deliver() and awaitRetry(), for any number of deliveries and of writers *)
(* that drop: the gate loses no wake-up although a backoff begins and ends *)
(* around it at any time, and failingBatches counts the failing batches.   *)
(* The gate by itself comes first.                                         *)
(***************************************************************************)

(* The gate: no wake-up is lost, whoever waits and however many signal.      *)

\* The waiters start before the gate, holding its first channel.
LEMMA GInitInv == GInit => TypeOK /\ NoLostWakeup
BY GateAssumption DEF GInit, TypeOK, NoLostWakeup

\* Every step of a waiter or of a publisher keeps the types.
LEMMA NextTypeOK == TypeOK /\ [GNext]_gvars => TypeOK'
<1> SUFFICES ASSUME TypeOK, [GNext]_gvars PROVE TypeOK'
  BY Zenon
<1> USE GateAssumption DEF TypeOK
<1>1. ASSUME NEW w \in Waiters, take(w) PROVE TypeOK'
  BY <1>1 DEF take
<1>2. ASSUME NEW w \in Waiters, test(w) PROVE TypeOK'
  BY Zenon, <1>2 DEF test
<1>3. ASSUME NEW w \in Waiters, woken(w) PROVE TypeOK'
  BY Zenon, <1>3 DEF woken
<1>4. ASSUME NEW p \in Publishers, change(p) PROVE TypeOK'
  BY <1>4 DEF change
<1>5. ASSUME NEW p \in Publishers, signal(p) PROVE TypeOK'
  BY <1>5 DEF signal
<1>6. CASE UNCHANGED gvars
  BY Zenon, <1>6 DEF gvars
<1> QED
  BY Zenon, <1>1, <1>2, <1>3, <1>4, <1>5, <1>6 DEF GNext, Wait, Publish

\* A test that fails sees every change made so far; each later one has its signal to come.
LEMMA NextNoLostWakeup == TypeOK /\ NoLostWakeup /\ [GNext]_gvars => NoLostWakeup'
<1> SUFFICES ASSUME TypeOK, NoLostWakeup, [GNext]_gvars PROVE NoLostWakeup'
  BY Zenon
<1> USE GateAssumption DEF TypeOK, NoLostWakeup
<1>1. ASSUME NEW w \in Waiters, take(w) PROVE NoLostWakeup'
  BY Zenon, <1>1 DEF take
<1>2. ASSUME NEW w \in Waiters, test(w) PROVE NoLostWakeup'
  BY Zenon, <1>2 DEF test
<1>3. ASSUME NEW w \in Waiters, woken(w) PROVE NoLostWakeup'
  BY Zenon, <1>3 DEF woken
<1>4. ASSUME NEW p \in Publishers, change(p) PROVE NoLostWakeup'
  BY Zenon, <1>4 DEF change
<1>5. ASSUME NEW p \in Publishers, signal(p) PROVE NoLostWakeup'
  BY <1>5 DEF signal
<1>6. CASE UNCHANGED gvars
  BY Zenon, <1>6 DEF gvars
<1> QED
  BY Zenon, <1>1, <1>2, <1>3, <1>4, <1>5, <1>6 DEF GNext, Wait, Publish

\* gate.wait before the test, signal after the change: no waiter sleeps through its goal.
THEOREM GateIsSafe == GSpec => []NoLostWakeup
<1>1. TypeOK /\ NoLostWakeup /\ [GNext]_gvars => (TypeOK /\ NoLostWakeup)'
  BY Zenon, NextTypeOK, NextNoLostWakeup
<1> QED
  BY GInitInv, <1>1, PTL DEF GSpec

-----------------------------------------------------------------------------
(* deliver(), deadLetter() and awaitRetry() around it.                       *)

Failing == {w \in Waiters : failing[w]}

\* The counter is the number of deliveries whose flag is up; a delivery that has
\* been answered or has ended has lowered it.
FailingInv ==
  /\ failing \in [Waiters -> BOOLEAN]
  /\ stage \in [Waiters -> {"check", "flush", "load", "store", "enter", "decide", "await", "ended"}]
  /\ \A w \in Waiters : stage[w] \in {"load", "store", "ended"} => ~failing[w]
  /\ failingBatches = Cardinality(Failing)

RInv == TypeOK /\ NoLostWakeup /\ FailingInv

\* Deliveries begin with their flags down.
LEMMA RInitInv == RInit => RInv
<1> SUFFICES ASSUME RInit PROVE RInv
  BY Zenon
<1>1. TypeOK /\ NoLostWakeup
  BY Zenon, GInitInv DEF RInit
<1>2. Failing = {}
  BY Zenon DEF RInit, Failing
<1>3. FailingInv
  BY Zenon, <1>2, FS_EmptySet DEF RInit, FailingInv
<1> QED
  BY Zenon, <1>1, <1>3 DEF RInv

\* Every step of RNext is a step of the gate, leaves it alone, or begins a backoff.
LEMMA GateStep == RInv /\ [RNext]_rvars => TypeOK' /\ NoLostWakeup'
<1> SUFFICES ASSUME RInv, [RNext]_rvars PROVE TypeOK' /\ NoLostWakeup'
  BY Zenon
<1>1. CASE [GNext]_gvars
  BY Zenon, <1>1, NextTypeOK, NextNoLostWakeup DEF RInv
<1>2. ASSUME NEW w \in Waiters, backOff(w) PROVE TypeOK' /\ NoLostWakeup'
  <2>1. pc' = [pc EXCEPT ![w] = "take"] /\ UNCHANGED <<level, ch, pub, goal, held>>
    BY Zenon, <1>2 DEF backOff
  <2> QED
    BY Zenon, <2>1 DEF RInv, TypeOK, NoLostWakeup
<1>3. [GNext]_gvars \/ \E w \in Waiters : backOff(w)
  <2>1. ASSUME NEW w \in Waiters, Deliver(w) \/ timer(w) PROVE [GNext]_gvars \/ backOff(w)
    BY Zenon, <2>1 DEF Deliver, check, flushed, load, store, refused, enter, sinkPanicked, GiveUp, deadLetter,
                awaiting, shed, timer, again, aborted, GNext, gvars
  <2>2. ASSUME NEW p \in Publishers, dropOldest(p) PROVE [GNext]_gvars
    BY Zenon, <2>2 DEF dropOldest, GNext
  <2>3. CASE abort
    BY Zenon, <2>3 DEF abort, gvars
  <2>4. CASE UNCHANGED rvars
    BY Zenon, <2>4 DEF rvars, gvars
  <2> QED
    BY Zenon, <2>1, <2>2, <2>3, <2>4 DEF RNext
<1> QED
  BY Zenon, <1>1, <1>2, <1>3

\* Lowering the flag takes the delivery out of the count, if it was in it.
LEMMA Lowered ==
  ASSUME FailingInv, NEW w \in Waiters, NEW s \in {"load", "ended"}, GoTo(w, s),
         failingBatches' = IF failing[w] THEN failingBatches - 1 ELSE failingBatches,
         failing' = [failing EXCEPT ![w] = FALSE]
  PROVE  FailingInv'
<1>1. IsFiniteSet(Failing)
  BY Zenon, RetryAssumption, FS_Subset DEF Failing
<1>2. Failing' = Failing \ {w}
  BY Zenon DEF Failing, FailingInv
<1>3. Cardinality(Failing') = IF w \in Failing THEN Cardinality(Failing) - 1 ELSE Cardinality(Failing)
  BY Zenon, <1>1, <1>2, FS_RemoveElement
<1>4. w \in Failing <=> failing[w]
  BY Zenon DEF Failing
<1>5. failingBatches' = Cardinality(Failing')
  BY Zenon, <1>3, <1>4 DEF FailingInv
<1> QED
  BY Zenon, <1>5 DEF FailingInv, GoTo

\* Raising it puts the delivery in, once.
LEMMA Raised ==
  ASSUME FailingInv, NEW w \in Waiters, enter(w)
  PROVE  FailingInv'
<1>1. IsFiniteSet(Failing)
  BY Zenon, RetryAssumption, FS_Subset DEF Failing
<1>2. Failing' = Failing \cup {w}
  BY Zenon DEF Failing, FailingInv, enter
<1>3. Cardinality(Failing') = IF w \in Failing THEN Cardinality(Failing) ELSE Cardinality(Failing) + 1
  BY Zenon, <1>1, <1>2, FS_AddElement
<1>4. w \in Failing <=> failing[w]
  BY Zenon DEF Failing
<1>5. failingBatches' = Cardinality(Failing')
  BY Zenon, <1>3, <1>4 DEF FailingInv, enter
<1> QED
  BY Zenon, <1>5 DEF FailingInv, enter, GoTo

\* No other step touches the count, nor ends a delivery whose flag is up.
LEMMA FailingStep == FailingInv /\ [RNext]_rvars => FailingInv'
<1> SUFFICES ASSUME FailingInv, [RNext]_rvars PROVE FailingInv'
  BY Zenon
<1> DEFINE Same(w, s) == GoTo(w, s) /\ UNCHANGED <<failing, failingBatches>>
<1>1. ASSUME NEW w \in Waiters, Leave(w) PROVE FailingInv'
  BY Zenon, <1>1, Lowered DEF Leave
<1>2. ASSUME NEW w \in Waiters, NEW s \in {"check", "flush", "store", "enter", "decide", "await", "ended"},
             Same(w, s), s \in {"store", "ended"} => ~failing[w]
      PROVE  FailingInv'
  BY Zenon, <1>2 DEF FailingInv, GoTo, Failing
<1>3. ASSUME UNCHANGED <<stage, failing, failingBatches>> PROVE FailingInv'
  BY Zenon, <1>3 DEF FailingInv, Failing
<1>4. ASSUME NEW w \in Waiters, Deliver(w) \/ timer(w) PROVE FailingInv'
  <2>1. CASE check(w)
    BY Zenon, <2>1, <1>1, <1>2 DEF check
  <2>2. CASE flushed(w)
    BY Zenon, <2>2, <1>1, Lowered DEF flushed
  <2>3. CASE load(w) \/ store(w)
    BY Zenon, <2>3, <1>2 DEF load, store, FailingInv
  <2>4. CASE refused(w)
    BY Zenon, <2>4, <1>2 DEF refused
  <2>5. CASE enter(w)
    BY Zenon, <2>5, Raised
  <2>6. CASE sinkPanicked(w) \/ GiveUp(w) \/ aborted(w)
    BY Zenon, <2>6, <1>1 DEF sinkPanicked, GiveUp, aborted
  <2>7. CASE deadLetter(w) \/ backOff(w) \/ shed(w) \/ timer(w)
    BY Zenon, <2>7, <1>2 DEF deadLetter, backOff, shed, timer, again
  <2>8. CASE awaiting(w)
    BY Zenon, <2>8, <1>3 DEF awaiting, own
  <2> QED
    BY Zenon, <1>4, <2>1, <2>2, <2>3, <2>4, <2>5, <2>6, <2>7, <2>8 DEF Deliver
<1>5. ASSUME NEW p \in Publishers, dropOldest(p) PROVE FailingInv'
  BY Zenon, <1>5, <1>3 DEF dropOldest, own
<1>6. CASE abort \/ UNCHANGED rvars
  BY Zenon, <1>6, <1>3 DEF abort, rvars, own
<1> QED
  BY Zenon, <1>4, <1>5, <1>6 DEF RNext

\* Every step keeps the invariant.
LEMMA RNextInv == RInv /\ [RNext]_rvars => RInv'
BY Zenon, GateStep, FailingStep DEF RInv

\* The invariant holds at all times.
LEMMA RInvariance == RSpec => []RInv
BY RInitInv, RNextInv, PTL DEF RSpec

\* No delivery in backoff sleeps through the signal that its batch is shed (awaitRetry).
THEOREM BackoffIsWoken == RSpec => []NoLostWakeup
<1>1. RInv => NoLostWakeup
  BY Zenon DEF RInv
<1> QED
  BY <1>1, RInvariance, PTL

\* failingBatches is the number of live deliveries that are failing (deliver's deferred function).
THEOREM FailingIsOwned == RSpec => []FailingHasOwner
<1>1. RInv => FailingHasOwner
  <2> SUFFICES ASSUME RInv PROVE FailingHasOwner
    BY Zenon
  <2>1. {w \in Waiters : stage[w] # "ended" /\ failing[w]} = Failing
    BY Zenon DEF RInv, FailingInv, Failing
  <2> QED
    BY Zenon, <2>1 DEF RInv, FailingInv, FailingHasOwner
<1> QED
  BY <1>1, RInvariance, PTL

-----------------------------------------------------------------------------
(***************************************************************************)
(* WriteBatch, for any number of writers, any sizes and any policy: what a *)
(* caller is told is what happened to its records, no writer is past enter *)
(* once Close drains, the count of pending records is exact, and no writer *)
(* takes the log above the capacity, whatever backlog it was opened with.  *)
(***************************************************************************)

(* Totals of counters. *)

\* The units counted for anything but x.
Others(c, x) == UNION {{y} \X (1..c[y]) : y \in DOMAIN c \ {x}}

\* The units of one value.
LEMMA OneCounter ==
  ASSUME NEW y, NEW n \in Nat
  PROVE  IsFiniteSet({y} \X (1..n)) /\ Cardinality({y} \X (1..n)) = n
<1>1. PICK one \in Int : one = 1
  OBVIOUS
<1>2. IsFiniteSet(one..n) /\ Cardinality(one..n) = IF one > n THEN 0 ELSE n - one + 1
  BY FS_Interval
<1>3. IsFiniteSet(1..n) /\ Cardinality(1..n) = n
  BY <1>1, <1>2
<1>4. IsFiniteSet({y}) /\ Cardinality({y}) = 1
  BY Zenon, FS_Singleton
<1>5. IsFiniteSet({y} \X (1..n)) /\ Cardinality({y} \X (1..n)) = Cardinality({y}) * Cardinality(1..n)
  BY Zenon, <1>3, <1>4, FS_Product
<1> QED
  BY <1>3, <1>4, <1>5

\* A counter has finitely many units: its domain is finite, and so is each value.
LEMMA UnitsFinite ==
  ASSUME NEW c, IsFiniteSet(DOMAIN c), \A y \in DOMAIN c : c[y] \in Nat
  PROVE  IsFiniteSet(Units(c))
<1> DEFINE Of(y) == {y} \X (1..c[y])
           T == {Of(y) : y \in DOMAIN c}
           g == [y \in DOMAIN c |-> Of(y)]
<1>1. g \in Surjection(DOMAIN c, T)
  BY Zenon DEF Surjection
<1>2. IsFiniteSet(T)
  BY Zenon, <1>1, FS_Surjection
<1>3. ASSUME NEW U \in T PROVE IsFiniteSet(U)
  <2>1. PICK y \in DOMAIN c : U = Of(y)
    BY Zenon
  <2> QED
    BY Zenon, <2>1, OneCounter
<1> QED
  BY Zenon, <1>2, <1>3, FS_UNION DEF Units

\* The total is what x counts and what the others do.
LEMMA TotalSplits ==
  ASSUME NEW c, NEW x, IsFiniteSet(DOMAIN c), \A y \in DOMAIN c : c[y] \in Nat
  PROVE  /\ Total(c) \in Nat /\ Cardinality(Others(c, x)) \in Nat
         /\ Total(c) = Cardinality(Others(c, x)) + (IF x \in DOMAIN c THEN c[x] ELSE 0)
<1>1. IsFiniteSet(Units(c)) /\ Total(c) \in Nat
  BY Zenon, UnitsFinite, FS_CardinalityType DEF Total
<1>2. Others(c, x) \subseteq Units(c)
  BY Zenon DEF Others, Units
<1>3. IsFiniteSet(Others(c, x)) /\ Cardinality(Others(c, x)) \in Nat
  BY Zenon, <1>1, <1>2, FS_Subset, FS_CardinalityType
<1>4. CASE x \notin DOMAIN c
  <2>1. Others(c, x) = Units(c)
    BY Zenon, <1>4 DEF Others, Units
  <2> QED
    BY <1>1, <1>4, <2>1 DEF Total
<1>5. CASE x \in DOMAIN c
  <2> DEFINE Own == {x} \X (1..c[x])
  <2>1. Units(c) = Others(c, x) \cup Own
    BY Zenon, <1>5 DEF Others, Units
  <2>2. Others(c, x) \cap Own = {}
    BY DEF Others
  <2>3. c[x] \in Nat
    BY Zenon, <1>5
  <2>4. IsFiniteSet(Own) /\ Cardinality(Own) = c[x]
    BY Zenon, <2>3, OneCounter
  <2>5. Cardinality(Others(c, x) \cap Own) = 0
    BY Zenon, <2>2, FS_EmptySet
  <2> HIDE DEF Own
  <2>6. Total(c) = Cardinality(Others(c, x)) + Cardinality(Own) - 0
    BY Zenon, <1>3, <2>1, <2>4, <2>5, FS_Union DEF Total
  <2> QED
    BY <1>1, <1>3, <1>5, <2>3, <2>4, <2>6
<1> QED
  BY Zenon, <1>1, <1>3, <1>4, <1>5

\* A change at x changes the total by as much.
LEMMA TotalChanges ==
  ASSUME NEW c, NEW d, NEW x, IsFiniteSet(DOMAIN c), IsFiniteSet(DOMAIN d),
         \A y \in DOMAIN c : c[y] \in Nat, \A y \in DOMAIN d : d[y] \in Nat,
         DOMAIN c \ {x} = DOMAIN d \ {x}, \A y \in DOMAIN c \ {x} : c[y] = d[y]
  PROVE  /\ Total(c) \in Nat /\ Total(d) \in Nat
         /\ Total(d) = Total(c) - (IF x \in DOMAIN c THEN c[x] ELSE 0)
                                + (IF x \in DOMAIN d THEN d[x] ELSE 0)
<1>1. Others(c, x) = Others(d, x)
  BY Zenon DEF Others
<1>2. /\ Total(c) \in Nat /\ Cardinality(Others(c, x)) \in Nat
      /\ Total(c) = Cardinality(Others(c, x)) + (IF x \in DOMAIN c THEN c[x] ELSE 0)
  BY Zenon, TotalSplits
<1>3. /\ Total(d) \in Nat
      /\ Total(d) = Cardinality(Others(d, x)) + (IF x \in DOMAIN d THEN d[x] ELSE 0)
  BY Zenon, TotalSplits
<1> QED
  BY <1>1, <1>2, <1>3

-----------------------------------------------------------------------------
(* The writers. *)

Answers == {"none", "ok", "uncertain", "failed", "closed", "ctx", "encode", "tooLarge", "diskFull",
            "full", "dropped", "io"}

WriterType ==
  [pc : Outside \cup {"begin", "reserve", "undo", "refused", "policy", "load", "mark", "raise",
                      "swap", "park", "await", "onDiskFull"},
   n : Nat, df : BOOLEAN, want : Int, to : Int, cur : Int, last : Nat, result : Answers]

\* The variables have their types.
Types ==
  /\ pending \in Int /\ floor \in Int /\ mark \in Int /\ durable \in Nat /\ freed \in Int
  /\ close \in {"open", "sealed", "closing", "drained"}
  /\ wr \in [Writers -> WriterType] /\ policy \subseteq AllDecisions

\* A writer has no answer before it returns, except a caller that gave up waiting for
\* the commit; it has written iff the answer is "ok", and then at least one record.
Honest(r) ==
  /\ r.pc # "idle" => r.n > 0
  /\ r.pc # "done" => r.last = 0 /\ (r.result = "none" \/ (r.pc = "await" /\ r.result = "uncertain"))
  /\ r.pc = "done" /\ r.result # "uncertain" => (r.result = "ok" <=> r.last > 0)

Inv == Types /\ NoWriterBehindClose /\ \A w \in Writers : Honest(wr[w])

\* Every writer begins outside, without an answer.
LEMMA InitInv == Init => Inv
<1> SUFFICES ASSUME Init PROVE Inv
  BY Zenon
<1>1. NewWriter \in WriterType /\ Honest(NewWriter)
  BY DEF NewWriter, WriterType, Outside, Answers, Honest
<1>2. wr \in [Writers -> WriterType] /\ \A w \in Writers : Honest(wr[w])
  BY Zenon, <1>1 DEF Init
<1> QED
  BY <1>2, AdmissionAssumption DEF Init, Inv, Types, NoWriterBehindClose

\* A writer that moves, honest and, if Close has drained, outside, keeps the invariant.
LEMMA Moves ==
  ASSUME Inv, NEW w \in Writers, NEW r \in WriterType, wr' = [wr EXCEPT ![w] = r], Honest(r),
         close = "drained" => r.pc \in Outside, UNCHANGED <<close, policy, freed>>,
         pending' \in Int, floor' \in Int, mark' \in Int, durable' \in Nat
  PROVE  Inv'
<1>1. wr' \in [Writers -> WriterType] /\ wr'[w] = r /\ \A v \in Writers \ {w} : wr'[v] = wr[v]
  BY Zenon DEF Inv, Types
<1>2. Types'
  BY Zenon, <1>1 DEF Inv, Types
<1>3. NoWriterBehindClose'
  BY Zenon, <1>1 DEF Inv, NoWriterBehindClose
<1>4. \A v \in Writers : Honest(wr'[v])
  BY Zenon, <1>1 DEF Inv
<1> QED
  BY Zenon, <1>2, <1>3, <1>4 DEF Inv

\* In particular one that only goes to another place,
LEMMA Goes ==
  ASSUME Inv, NEW w \in Writers, wr[w].pc \notin {"idle", "done", "await"}, UNCHANGED <<close, policy, freed>>,
         NEW p \in {"lock", "begin", "reserve", "undo", "refused", "policy", "load", "park", "raise", "await"},
         Go(w, p), close = "drained" => p = "lock",
         pending' \in Int, UNCHANGED <<floor, durable, mark>>
  PROVE  Inv'
<1> DEFINE r == [wr[w] EXCEPT !.pc = p]
<1>0. wr[w] \in WriterType /\ wr \in [Writers -> WriterType] /\ Honest(wr[w])
  BY Zenon DEF Inv, Types
<1>1. wr' = [wr EXCEPT ![w] = r]
  BY Zenon, <1>0 DEF Go
<1>2. r \in WriterType /\ r.pc = p /\ r.n = wr[w].n /\ r.last = wr[w].last /\ r.result = wr[w].result
  BY Zenon, <1>0 DEF WriterType, Outside
<1> HIDE DEF r
<1>3. Honest(r)
  BY Zenon, <1>0, <1>2 DEF Honest
<1>4. floor' \in Int /\ mark' \in Int /\ durable' \in Nat
  BY Zenon DEF Inv, Types
<1> QED
  BY Zenon, <1>1, <1>2, <1>3, <1>4, Moves DEF Outside

\* and one that returns an error before its records are staged.
LEMMA Returns ==
  ASSUME Inv, NEW w \in Writers, wr[w].pc \notin {"idle", "done", "await"},
         NEW what \in Answers \ {"ok", "uncertain"}, Return(w, what),
         UNCHANGED <<close, policy, freed, pending, floor, durable, mark>>
  PROVE  Inv'
<1> DEFINE r == [wr[w] EXCEPT !.pc = "done", !.result = what]
<1>0. wr[w] \in WriterType /\ wr \in [Writers -> WriterType] /\ Honest(wr[w])
  BY Zenon DEF Inv, Types
<1>1. wr' = [wr EXCEPT ![w] = r]
  BY Zenon, <1>0 DEF Return
<1>2. r \in WriterType /\ r.pc = "done" /\ r.n = wr[w].n /\ r.last = wr[w].last /\ r.result = what
  BY Zenon, <1>0 DEF WriterType, Outside
<1> HIDE DEF r
<1>3. Honest(r)
  BY <1>0, <1>2 DEF Honest
<1>4. floor' \in Int /\ mark' \in Int /\ durable' \in Nat /\ pending' \in Int
  BY Zenon DEF Inv, Types
<1> QED
  BY Zenon, <1>1, <1>2, <1>3, <1>4, Moves DEF Outside

\* enter, and the tests of the call itself.
LEMMA Enters ==
  ASSUME Inv, UNCHANGED <<policy, freed>>, NEW w \in Writers, EnterFailure(w) \/ EnterLocked(w) \/ Begin(w) \/ Refused(w)
  PROVE  Inv'
<1>0. /\ wr[w].pc \in {"enter", "lock", "begin", "refused"}
      /\ UNCHANGED <<close, pending, floor, durable, mark>> /\ pending \in Int
  BY Zenon DEF EnterFailure, EnterLocked, Begin, Refused, At, log, Inv, Types
<1>1. wr[w].pc \in {"begin", "refused"} => close # "drained"
  BY Zenon DEF Inv, NoWriterBehindClose, Outside
<1>2. \/ /\ wr[w].pc = "enter" /\ Go(w, "lock")
      \/ /\ wr[w].pc = "lock" /\ close = "open" /\ Go(w, "begin")
      \/ /\ wr[w].pc \in {"begin", "refused"} /\ \E p \in {"reserve", "policy"} : Go(w, p)
      \/ \E a \in {"failed", "closed", "ctx", "encode", "tooLarge"} : Return(w, a)
  BY Zenon DEF EnterFailure, EnterLocked, Begin, Refused, At
<1>3. \A a \in {"failed", "closed", "ctx", "encode", "tooLarge"} : a \in Answers \ {"ok", "uncertain"}
  BY Zenon DEF Answers
<1> QED
  BY Zenon, <1>0, <1>1, <1>2, <1>3, Goes, Returns

\* reserve, taking it back, the policy's answer, and the wait.
LEMMA Admits ==
  ASSUME Inv, UNCHANGED <<policy, freed>>, NEW w \in Writers,
         reserve(w) \/ reserveUndo(w) \/ onDiskFull(w) \/ Unpark(w) \/ \E d \in policy : decide(w, d)
  PROVE  Inv'
<1>0. /\ wr[w] \in WriterType /\ wr \in [Writers -> WriterType] /\ Honest(wr[w])
      /\ pending \in Int /\ floor \in Int /\ mark \in Int /\ durable \in Nat
  BY Zenon DEF Inv, Types
<1>1. /\ wr[w].pc \in {"reserve", "undo", "onDiskFull", "park", "policy"}
      /\ UNCHANGED <<close, floor, durable, mark>>
  BY Zenon DEF reserve, reserveUndo, onDiskFull, Unpark, decide, At, log
<1>2. close # "drained"
  BY Zenon, <1>1 DEF Inv, NoWriterBehindClose, Outside
<1>3. wr[w].n \in Nat
  BY Zenon, <1>0 DEF WriterType
<1>4. CASE reserve(w)
  <2>1. pending' \in Int /\ \E p \in {"undo", "await"} : Go(w, p)
    BY <1>0, <1>3, <1>4 DEF reserve
  <2> QED
    BY Zenon, <1>1, <1>2, <2>1, Goes
<1>5. CASE reserveUndo(w)
  <2>1. pending' \in Int /\ Go(w, "refused")
    BY <1>0, <1>3, <1>5 DEF reserveUndo
  <2> QED
    BY Zenon, <1>1, <1>2, <2>1, Goes
<1>6. ASSUME NEW p \in {"policy", "reserve"}, NEW b \in BOOLEAN,
             wr' = [wr EXCEPT ![w].pc = p, ![w].df = b], UNCHANGED pending
      PROVE  Inv'
  <2> DEFINE r == [wr[w] EXCEPT !.pc = p, !.df = b]
  <2>1. wr' = [wr EXCEPT ![w] = r]
    BY Zenon, <1>0, <1>6
  <2>2. r \in WriterType /\ r.pc = p /\ r.n = wr[w].n /\ r.last = wr[w].last /\ r.result = wr[w].result
    BY Zenon, <1>0 DEF WriterType
  <2> HIDE DEF r
  <2>3. Honest(r)
    BY Zenon, <1>0, <1>1, <2>2 DEF Honest
  <2> QED
    BY Zenon, <1>0, <1>1, <1>2, <1>6, <2>1, <2>2, <2>3, Moves
<1>7. CASE onDiskFull(w) \/ Unpark(w)
  <2>1. \/ wr' = [wr EXCEPT ![w].pc = "policy", ![w].df = TRUE]
        \/ wr' = [wr EXCEPT ![w].pc = "reserve", ![w].df = FALSE]
        \/ \E a \in {"ctx", "closed"} : Return(w, a)
    BY Zenon, <1>7 DEF onDiskFull, Unpark
  <2>2. UNCHANGED pending
    BY Zenon, <1>7 DEF onDiskFull, Unpark
  <2>3. \A a \in {"ctx", "closed"} : a \in Answers \ {"ok", "uncertain"}
    BY Zenon DEF Answers
  <2> QED
    BY Zenon, <1>1, <1>6, <2>1, <2>2, <2>3, Returns
<1>8. ASSUME NEW d \in policy, decide(w, d), policy \subseteq AllDecisions PROVE Inv'
  <2>1. \/ \E a \in {"closed", "diskFull", "full", "dropped"} : Return(w, a)
        \/ \E p \in {"load", "park"} : Go(w, p)
    BY Zenon, <1>8 DEF decide, AllDecisions
  <2>2. UNCHANGED pending
    BY Zenon, <1>8 DEF decide
  <2>3. \A a \in {"closed", "diskFull", "full", "dropped"} : a \in Answers \ {"ok", "uncertain"}
    BY Zenon DEF Answers
  <2> QED
    BY Zenon, <1>0, <1>1, <1>2, <2>1, <2>2, <2>3, Goes, Returns
<1> QED
  BY Zenon, <1>4, <1>5, <1>7, <1>8 DEF Inv, Types

\* dropOldest and raiseFloor.
LEMMA DropsOldest ==
  ASSUME Inv, UNCHANGED <<policy, freed>>, NEW w \in Writers,
         dropOldestLoad(w) \/ dropOldestMark(w) \/ raiseFloorLoad(w) \/ raiseFloorSwap(w)
  PROVE  Inv'
<1>0. /\ wr[w] \in WriterType /\ wr \in [Writers -> WriterType] /\ Honest(wr[w])
      /\ pending \in Int /\ floor \in Int /\ mark \in Int /\ durable \in Nat
  BY Zenon DEF Inv, Types
<1>1. /\ wr[w].pc \in {"load", "mark", "raise", "swap"}
      /\ UNCHANGED <<close, pending, durable, mark>>
  BY Zenon DEF dropOldestLoad, dropOldestMark, raiseFloorLoad, raiseFloorSwap, At, log
<1>2. close # "drained"
  BY Zenon, <1>1 DEF Inv, NoWriterBehindClose, Outside
<1>3. wr[w].n \in Nat /\ wr[w].want \in Int /\ wr[w].to \in Int /\ wr[w].cur \in Int
  BY Zenon, <1>0 DEF WriterType
<1>4. floor' \in Int
  BY Zenon, <1>0, <1>3 DEF dropOldestLoad, dropOldestMark, raiseFloorLoad, raiseFloorSwap
<1>10. PICK o \in Int : o = 0
  OBVIOUS
<1>5. ASSUME NEW p \in {"park", "mark", "raise", "swap"}, NEW x \in Int, NEW y \in Int, NEW z \in Int,
             wr' = [wr EXCEPT ![w] = [wr[w] EXCEPT !.pc = p, !.want = x, !.to = y, !.cur = z]]
      PROVE  Inv'
  <2> DEFINE r == [wr[w] EXCEPT !.pc = p, !.want = x, !.to = y, !.cur = z]
  <2>1. r \in WriterType /\ r.pc = p /\ r.n = wr[w].n /\ r.last = wr[w].last /\ r.result = wr[w].result
    BY Zenon, <1>0 DEF WriterType
  <2>2. wr' = [wr EXCEPT ![w] = r]
    BY Zenon, <1>5
  <2> HIDE DEF r
  <2>3. Honest(r)
    BY Zenon, <1>0, <1>1, <2>1 DEF Honest
  <2> QED
    BY Zenon, <1>0, <1>1, <1>2, <1>4, <2>1, <2>2, <2>3, Moves
<1>6. CASE dropOldestLoad(w)
  <2>1. \A a, b \in Int : Min({a, b}) \in Int
    BY DEF Min
  <2>2. PICK x \in Int : x = Min({wr[w].n + (wr[w].n \div 4) + 1, pending})
    BY <1>0, <1>3, <2>1
  <2>3. PICK p \in {"park", "mark"} : p = IF pending <= 0 THEN "park" ELSE "mark"
    BY Zenon
  <2>4. wr' = [wr EXCEPT ![w].pc = p, ![w].want = x]
    BY Zenon, <1>6, <2>2, <2>3 DEF dropOldestLoad
  <2>5. wr' = [wr EXCEPT ![w] = [wr[w] EXCEPT !.pc = p, !.want = x, !.to = wr[w].to, !.cur = wr[w].cur]]
    BY Zenon, <1>0, <2>4 DEF WriterType
  <2> QED
    BY Zenon, <1>3, <1>5, <2>5
<1>7. CASE dropOldestMark(w)
  <2>1. PICK y \in Int : y = mark + 1 + wr[w].want
    BY <1>0, <1>3
  <2>2. wr' = [wr EXCEPT ![w].pc = "raise", ![w].to = y, ![w].want = 0]
    BY Zenon, <1>7, <2>1 DEF dropOldestMark
  <2>3. wr' = [wr EXCEPT ![w] = [wr[w] EXCEPT !.pc = "raise", !.want = o, !.to = y, !.cur = wr[w].cur]]
    BY Zenon, <1>0, <1>10, <2>2 DEF WriterType
  <2> QED
    BY Zenon, <1>3, <1>5, <2>3
<1>8. ASSUME Parked(w) PROVE Inv'
  <2>1. wr' = [wr EXCEPT ![w] = [wr[w] EXCEPT !.pc = "park", !.want = wr[w].want, !.to = o, !.cur = o]]
    BY Zenon, <1>0, <1>10, <1>8 DEF Parked, WriterType
  <2> QED
    BY Zenon, <1>3, <1>5, <2>1
<1>9. CASE raiseFloorLoad(w) \/ raiseFloorSwap(w)
  <2>1. CASE wr' = [wr EXCEPT ![w].pc = "swap", ![w].cur = floor]
    <3>1. wr' = [wr EXCEPT ![w] = [wr[w] EXCEPT !.pc = "swap", !.want = wr[w].want, !.to = wr[w].to, !.cur = floor]]
      BY Zenon, <1>0, <2>1 DEF WriterType
    <3> QED
      BY Zenon, <1>0, <1>3, <1>5, <3>1
  <2>2. CASE Go(w, "raise")
    <3>1. wr' = [wr EXCEPT ![w] = [wr[w] EXCEPT !.pc = "raise", !.want = wr[w].want, !.to = wr[w].to, !.cur = wr[w].cur]]
      BY Zenon, <1>0, <2>2 DEF Go, WriterType
    <3> QED
      BY Zenon, <1>3, <1>5, <3>1
  <2> QED
    BY Zenon, <1>8, <1>9, <2>1, <2>2 DEF raiseFloorLoad, raiseFloorSwap
<1> QED
  BY Zenon, <1>6, <1>7, <1>9

\* The wait for the commit: it ends in the log, in an error, or behind the caller's back.
LEMMA Commits ==
  ASSUME Inv, UNCHANGED <<policy, freed>>, NEW w \in Writers,
         Commit(w) \/ settle(w) \/ \E e \in CommitErrors : CommitFails(w, e)
  PROVE  Inv'
<1>0. /\ wr[w] \in WriterType /\ wr \in [Writers -> WriterType] /\ Honest(wr[w])
      /\ pending \in Int /\ floor \in Int /\ mark \in Int /\ durable \in Nat
  BY Zenon DEF Inv, Types
<1>1. wr[w].pc = "await" /\ UNCHANGED <<close, floor, mark>>
  BY Zenon DEF Commit, settle, CommitFails, At, log
<1>2. close # "drained" /\ wr[w].n \in Nat /\ wr[w].n > 0 /\ wr[w].last = 0
      /\ wr[w].result \in {"none", "uncertain"}
  BY Zenon, <1>0, <1>1 DEF Inv, NoWriterBehindClose, Outside, Honest, WriterType
<1>3. ASSUME NEW p \in {"done", "await", "onDiskFull"}, NEW l \in Nat, NEW a \in Answers,
             wr' = [wr EXCEPT ![w] = [wr[w] EXCEPT !.pc = p, !.last = l, !.result = a]],
             p = "done" /\ a # "uncertain" => (a = "ok" <=> l > 0),
             p = "await" => l = 0 /\ a = "uncertain", p = "onDiskFull" => l = 0 /\ a = "none",
             pending' \in Int, durable' \in Nat
      PROVE  Inv'
  <2> DEFINE r == [wr[w] EXCEPT !.pc = p, !.last = l, !.result = a]
  <2>1. r \in WriterType /\ r.pc = p /\ r.n = wr[w].n /\ r.last = l /\ r.result = a
    BY Zenon, <1>0 DEF WriterType, Outside
  <2>2. wr' = [wr EXCEPT ![w] = r]
    BY Zenon, <1>3
  <2> HIDE DEF r
  <2>3. Honest(r)
    BY ZenonT(30), <1>2, <1>3, <2>1 DEF Honest
  <2> QED
    BY Zenon, <1>0, <1>1, <1>2, <1>3, <2>1, <2>2, <2>3, Moves
<1>4. CASE Commit(w)
  <2>1. PICK l \in Nat : l = durable' /\ l = durable + wr[w].n
    BY <1>0, <1>2, <1>4 DEF Commit
  <2>2. PICK a \in Answers : a = IF wr[w].result = "uncertain" THEN wr[w].result ELSE "ok"
    BY Zenon, <1>2 DEF Answers
  <2>3. wr' = [wr EXCEPT ![w].pc = "done", ![w].last = l, ![w].result = a] /\ UNCHANGED pending
    BY Zenon, <1>0, <1>4, <2>1, <2>2 DEF Commit, WriterType
  <2>4. wr' = [wr EXCEPT ![w] = [wr[w] EXCEPT !.pc = "done", !.last = l, !.result = a]]
    BY Zenon, <1>0, <2>3 DEF WriterType
  <2>5. l > 0 /\ a \in {"ok", "uncertain"}
    BY <1>0, <1>2, <2>1, <2>2
  <2> QED
    BY ZenonT(30), <1>0, <1>3, <2>1, <2>3, <2>4, <2>5
<1>5. CASE settle(w)
  <2>1. PICK l \in Nat : l = 0
    BY Zenon
  <2>2. wr' = [wr EXCEPT ![w] = [wr[w] EXCEPT !.pc = "await", !.last = l, !.result = "uncertain"]]
    BY Zenon, <1>0, <1>1, <1>2, <1>5, <2>1 DEF settle, WriterType
  <2>3. "uncertain" \in Answers /\ UNCHANGED <<pending, durable>>
    BY Zenon, <1>5 DEF Answers, settle, log
  <2> QED
    BY Zenon, <1>0, <1>3, <2>1, <2>2, <2>3
<1>6. ASSUME NEW e \in CommitErrors, CommitFails(w, e) PROVE Inv'
  <2>1. PICK l \in Nat : l = 0
    BY Zenon
  <2>2. PICK p \in {"done", "onDiskFull"} :
          p = IF wr[w].result = "none" /\ e = "diskFull" THEN "onDiskFull" ELSE "done"
    BY Zenon
  <2>3. PICK a \in Answers :
          a = IF wr[w].result = "uncertain" THEN wr[w].result ELSE
              IF e = "diskFull" THEN "none" ELSE IF e = "io" THEN "io" ELSE "failed"
    BY Zenon, <1>2 DEF Answers
  <2>4. wr' = [wr EXCEPT ![w].pc = p, ![w].result = a]
    BY Zenon, <1>0, <1>6, <2>2, <2>3 DEF CommitFails
  <2>7. pending' = pending - wr[w].n /\ UNCHANGED log
    BY <1>6, Zenon DEF CommitFails
  <2>8. pending' \in Int /\ UNCHANGED durable
    BY <1>0, <1>2, <2>7 DEF log
  <2>5. wr' = [wr EXCEPT ![w] = [wr[w] EXCEPT !.pc = p, !.last = l, !.result = a]]
    BY Zenon, <1>0, <1>2, <2>1, <2>4 DEF WriterType
  <2>6. a # "ok" /\ (p = "onDiskFull" => a = "none")
    BY Zenon, <1>2, <2>2, <2>3
  <2>9. /\ p \in {"done", "await", "onDiskFull"}
        /\ p = "done" /\ a # "uncertain" => (a = "ok" <=> l > 0)
        /\ p = "await" => l = 0 /\ a = "uncertain"
        /\ p = "onDiskFull" => l = 0 /\ a = "none"
    BY <2>1, <2>2, <2>6
  <2> QED
    BY Zenon, <1>0, <1>3, <2>5, <2>8, <2>9
<1> QED
  BY Zenon, <1>4, <1>5, <1>6

\* A call is for at least one record.
LEMMA Calls ==
  ASSUME Inv, UNCHANGED <<policy, freed>>, NEW w \in Writers, NEW n \in Sizes, Call(w, n)
  PROVE  Inv'
<1> DEFINE r == [wr[w] EXCEPT !.pc = "enter", !.n = n]
<1>0. /\ wr[w] \in WriterType /\ wr \in [Writers -> WriterType] /\ Honest(wr[w])
      /\ n \in Nat /\ n > 0 /\ wr[w].pc = "idle"
  BY AdmissionAssumption DEF Inv, Types, Call, At
<1>1. wr' = [wr EXCEPT ![w] = r]
  BY Zenon, <1>0 DEF Call
<1>2. r \in WriterType /\ r.pc = "enter" /\ r.n = n /\ r.last = wr[w].last /\ r.result = wr[w].result
  BY Zenon, <1>0 DEF WriterType, Outside
<1> HIDE DEF r
<1>3. Honest(r)
  BY Zenon, <1>0, <1>2 DEF Honest
<1>4. floor' \in Int /\ mark' \in Int /\ durable' \in Nat /\ pending' \in Int /\ UNCHANGED close
  BY Zenon DEF Inv, Types, Call, log
<1> QED
  BY Zenon, <1>1, <1>2, <1>3, <1>4, Moves DEF Outside

\* Every step keeps the invariant.
LEMMA NextInv == Inv /\ [Next]_vars => Inv'
<1> SUFFICES ASSUME Inv, [Next]_vars PROVE Inv'
  BY Zenon
<1>1. CASE \E w \in Writers : Write(w)
  <2>1. PICK w \in Writers : Write(w)
    BY Zenon, <1>1
  <2>2. UNCHANGED <<policy, freed>>
    BY Zenon, <2>1 DEF Write, setup, log, EnterFailure, EnterLocked, Begin, reserve, reserveUndo, Refused, decide,
      dropOldestLoad, dropOldestMark, raiseFloorLoad, raiseFloorSwap, Unpark, Commit, settle, onDiskFull,
      CommitFails
  <2> QED
    BY Zenon, <2>1, <2>2, Enters, Admits, DropsOldest, Commits DEF Write
<1>2. CASE Consume \/ Release \/ (Outer /\ fail) \/ UNCHANGED vars
  <2>1. UNCHANGED <<close, wr, policy>>
    BY Zenon, <1>2 DEF Consume, ConsumeAck, Release, release, fail, Outer, vars, setup
  <2>2. \A w \in Writers : wr[w].n \in Nat
    BY Zenon DEF Inv, Types, WriterType
  <2>3. /\ pending \in Int /\ floor \in Int /\ mark \in Int /\ durable \in Nat
        /\ wr \in [Writers -> WriterType] /\ freed \in Int
    BY Zenon DEF Inv, Types
  <2>4. pending' \in Int /\ floor' \in Int /\ mark' \in Int /\ durable' \in Nat /\ freed' \in Int
    BY <1>2, <2>3 DEF Consume, ConsumeAck, Release, release, fail, Outer, vars, log
  <2> QED
    BY Zenon, <2>1, <2>4 DEF Inv, Types, NoWriterBehindClose, Honest
<1>3. CASE Closing \/ (Outer /\ CloseSeal)
  <2>1. UNCHANGED <<pending, floor, durable, mark, freed, wr, policy>>
    BY Zenon, <1>3 DEF Closing, CloseClosing, CloseWait, CloseSeal, CloseTo, Outer, log, setup
  <2>2. /\ close' \in {"sealed", "closing", "drained"}
        /\ close' = "drained" => \A w \in Writers : wr[w].pc \in Outside
    BY Zenon, <1>3 DEF Closing, CloseClosing, CloseWait, CloseSeal, CloseTo
  <2> QED
    BY Zenon, <2>1, <2>2 DEF Inv, Types, NoWriterBehindClose, Honest
<1>4. CASE Outer /\ \E w \in Writers, n \in Sizes : Call(w, n)
  BY Zenon, <1>4, Calls DEF Outer, setup, Call, log
<1> QED
  BY Zenon, <1>1, <1>2, <1>3, <1>4 DEF Next, Outer

-----------------------------------------------------------------------------
(* Capacity. *)

\* A step of one writer changes what is reserved at a place by what that writer has there.
LEMMA Reserves ==
  ASSUME Inv, Inv', NEW w \in Writers, \A v \in Writers \ {w} : wr'[v] = wr[v],
         NEW p \in {"await", "undo"}
  PROVE  /\ Total(Reserved(p)) \in Nat /\ Total(Reserved(p))' \in Nat
         /\ Total(Reserved(p))' = Total(Reserved(p)) - (IF wr[w].pc = p THEN wr[w].n ELSE 0)
                                                     + (IF wr'[w].pc = p THEN wr'[w].n ELSE 0)
<1> DEFINE c == Reserved(p)
           d == Reserved(p)'
<1>1. DOMAIN c = {v \in Writers : wr[v].pc = p} /\ \A v \in DOMAIN c : c[v] = wr[v].n
  BY Zenon DEF Reserved, At
<1>2. DOMAIN d = {v \in Writers : wr'[v].pc = p} /\ \A v \in DOMAIN d : d[v] = wr'[v].n
  BY Zenon DEF Reserved, At
<1>3. \A v \in Writers : wr[v].n \in Nat /\ wr'[v].n \in Nat
  BY Zenon DEF Inv, Types, WriterType
<1>4. IsFiniteSet(DOMAIN c) /\ IsFiniteSet(DOMAIN d)
  BY <1>1, <1>2, AdmissionAssumption, FS_Subset
<1>5. /\ \A v \in DOMAIN c : c[v] \in Nat
      /\ \A v \in DOMAIN d : d[v] \in Nat
      /\ DOMAIN c \ {w} = DOMAIN d \ {w}
      /\ \A v \in DOMAIN c \ {w} : c[v] = d[v]
  BY Zenon, <1>1, <1>2, <1>3
<1>6. /\ w \in DOMAIN c <=> wr[w].pc = p
      /\ w \in DOMAIN d <=> wr'[w].pc = p
      /\ w \in DOMAIN c => c[w] = wr[w].n
      /\ w \in DOMAIN d => d[w] = wr'[w].n
  BY Zenon, <1>1, <1>2
<1>7. Total(Reserved(p))' = Total(d)
  BY Zenon DEF Total, Units
<1> HIDE DEF c, d
<1>8. /\ Total(c) \in Nat /\ Total(d) \in Nat
      /\ Total(d) = Total(c) - (IF w \in DOMAIN c THEN c[w] ELSE 0)
                             + (IF w \in DOMAIN d THEN d[w] ELSE 0)
  BY Zenon, <1>4, <1>5, TotalChanges
<1> QED
  BY Zenon, <1>6, <1>7, <1>8 DEF c

Exact == Inv /\ PendingExact /\ WithinCapacity

\* A writer that holds no reservation before or after its step changes no account.
LEMMA Uninvolved ==
  ASSUME Exact, Inv', NEW w \in Writers, \A v \in Writers \ {w} : wr'[v] = wr[v],
         wr[w].pc \notin {"await", "undo"}, wr'[w].pc \notin {"await", "undo"},
         UNCHANGED <<pending, log>>
  PROVE  PendingExact' /\ WithinCapacity'
<1>1. \A p \in {"await", "undo"} : Total(Reserved(p))' = Total(Reserved(p)) /\ Total(Reserved(p)) \in Nat
  BY Reserves DEF Exact
<1>2. Granted' = Granted
  BY Zenon, <1>1 DEF Granted, log
<1> QED
  BY Zenon, <1>1, <1>2 DEF Exact, PendingExact, WithinCapacity, log

\* Most steps of a writer are of that kind.
LEMMA QuietSteps ==
  ASSUME Exact, Inv', NEW w \in Writers,
         \/ EnterFailure(w) \/ EnterLocked(w) \/ Begin(w) \/ Refused(w) \/ onDiskFull(w) \/ Unpark(w)
         \/ dropOldestLoad(w) \/ dropOldestMark(w) \/ raiseFloorLoad(w) \/ raiseFloorSwap(w)
         \/ (\E d \in policy : decide(w, d)) \/ (\E n \in Sizes : Call(w, n))
  PROVE  PendingExact' /\ WithinCapacity'
<1>0. wr \in [Writers -> WriterType] /\ wr[w] \in WriterType /\ policy \subseteq AllDecisions
  BY Zenon DEF Exact, Inv, Types
<1>1. UNCHANGED <<pending, log>> /\ wr[w].pc \notin {"await", "undo"}
  BY Zenon DEF EnterFailure, EnterLocked, Begin, Refused, onDiskFull, Unpark, dropOldestLoad,
         dropOldestMark, raiseFloorLoad, raiseFloorSwap, decide, Call, At
<1>2. (\A v \in Writers \ {w} : wr'[v] = wr[v]) /\ wr'[w].pc \notin {"await", "undo"}
  <2>1. CASE EnterFailure(w) \/ EnterLocked(w) \/ Begin(w) \/ Refused(w)
    BY <1>0, <2>1 DEF EnterFailure, EnterLocked, Begin, Refused, Go, Return, WriterType
  <2>2. CASE onDiskFull(w) \/ Unpark(w)
    BY <1>0, <2>2 DEF onDiskFull, Unpark, Return, WriterType
  <2>3. CASE dropOldestLoad(w)
    <3>1. PICK p \in {"park", "mark"} : p = IF pending <= 0 THEN "park" ELSE "mark"
      BY Zenon
    <3>2. \E x : wr' = [wr EXCEPT ![w].pc = p, ![w].want = x]
      BY Zenon, <2>3, <3>1 DEF dropOldestLoad
    <3> QED
      BY <1>0, <3>2 DEF WriterType
  <2>4. CASE dropOldestMark(w)
    <3>1. \E x : wr' = [wr EXCEPT ![w].pc = "raise", ![w].to = x, ![w].want = 0]
      BY Zenon, <2>4 DEF dropOldestMark
    <3> QED
      BY <1>0, <3>1 DEF WriterType
  <2>5. CASE raiseFloorLoad(w) \/ raiseFloorSwap(w)
    BY <1>0, <2>5 DEF raiseFloorLoad, raiseFloorSwap, Parked, Go, WriterType
  <2>6. ASSUME NEW d \in policy, decide(w, d)
        PROVE  (\A v \in Writers \ {w} : wr'[v] = wr[v]) /\ wr'[w].pc \notin {"await", "undo"}
    <3>1. \/ \E a \in {"closed", "diskFull", "full", "dropped"} : Return(w, a)
          \/ \E p \in {"load", "park"} : Go(w, p)
      BY Zenon, <1>0, <2>6 DEF decide, AllDecisions
    <3> QED
      BY <1>0, <3>1 DEF Go, Return, WriterType
  <2>7. ASSUME NEW n \in Sizes, Call(w, n)
        PROVE  (\A v \in Writers \ {w} : wr'[v] = wr[v]) /\ wr'[w].pc \notin {"await", "undo"}
    BY Zenon, <1>0, <2>7 DEF Call, WriterType
  <2> QED
    BY ZenonT(30), <2>1, <2>2, <2>3, <2>4, <2>5, <2>6, <2>7
<1> QED
  BY Zenon, <1>1, <1>2, Uninvolved

\* reserve adds before it looks, so whoever stays below the capacity fits beside all others.
LEMMA ReserveSteps ==
  ASSUME Exact, Inv', NEW w \in Writers, reserve(w) \/ reserveUndo(w)
  PROVE  PendingExact' /\ WithinCapacity'
<1>0. /\ wr \in [Writers -> WriterType] /\ wr[w] \in WriterType /\ wr[w].n \in Nat
      /\ pending \in Int /\ durable \in Int /\ mark \in Int /\ freed \in Int
      /\ Capacity \in Int
  BY AdmissionAssumption DEF Exact, Inv, Types, WriterType
<1>1. UNCHANGED log
  BY Zenon DEF reserve, reserveUndo
<1>2. PICK p \in {"await", "undo", "refused"} :
        /\ wr' = [wr EXCEPT ![w].pc = p]
        /\ \/ wr[w].pc = "reserve" /\ pending' = pending + wr[w].n
              /\ ((p = "await" /\ pending' <= Capacity) \/ p = "undo")
           \/ wr[w].pc = "undo" /\ pending' = pending - wr[w].n /\ p = "refused"
  BY <1>0 DEF reserve, reserveUndo, Go, At
<1>3. wr'[w].pc = p /\ wr'[w].n = wr[w].n /\ \A v \in Writers \ {w} : wr'[v] = wr[v]
  BY Zenon, <1>0, <1>2 DEF WriterType
<1>4. \A q \in {"await", "undo"} :
        /\ Total(Reserved(q)) \in Nat /\ Total(Reserved(q))' \in Nat
        /\ Total(Reserved(q))' = Total(Reserved(q)) - (IF wr[w].pc = q THEN wr[w].n ELSE 0)
                                                    + (IF p = q THEN wr[w].n ELSE 0)
  BY Zenon, <1>3, Reserves DEF Exact
<1>5. PICK a \in Nat, a1 \in Nat, u \in Nat, u1 \in Nat :
        /\ a = Total(Reserved("await")) /\ a1 = Total(Reserved("await"))'
        /\ u = Total(Reserved("undo")) /\ u1 = Total(Reserved("undo"))'
        /\ a1 = a - (IF wr[w].pc = "await" THEN wr[w].n ELSE 0) + (IF p = "await" THEN wr[w].n ELSE 0)
        /\ u1 = u - (IF wr[w].pc = "undo" THEN wr[w].n ELSE 0) + (IF p = "undo" THEN wr[w].n ELSE 0)
  BY Zenon, <1>4
<1>6. /\ Granted = (durable - mark) + freed + a /\ Granted' = (durable - mark) + freed + a1
      /\ pending = Granted + u /\ (Granted <= Capacity \/ (durable = Inherited /\ a = 0))
  BY Zenon, <1>1, <1>5 DEF Exact, PendingExact, WithinCapacity, Granted, log
<1>7. pending' = Granted' + u1 /\ (Granted' <= Capacity \/ (durable = Inherited /\ a1 = 0))
  <2>1. PICK k \in Nat : k = wr[w].n
    BY Zenon, <1>0
  <2>2. \/ a1 = a + k /\ u1 = u /\ pending' = pending + k /\ pending' <= Capacity
        \/ a1 = a /\ u1 = u + k /\ pending' = pending + k
        \/ a1 = a /\ u1 = u - k /\ pending' = pending - k
    BY <1>2, <1>5, <2>1
  <2> QED
    BY <1>0, <1>6, <2>2
<1> QED
  BY Zenon, <1>1, <1>5, <1>7 DEF PendingExact, WithinCapacity, log

\* The end of the wait: the room goes to the records, or is given back, once.
LEMMA CommitSteps ==
  ASSUME Exact, Inv', NEW w \in Writers,
         Commit(w) \/ settle(w) \/ \E e \in CommitErrors : CommitFails(w, e)
  PROVE  PendingExact' /\ WithinCapacity'
<1>0. /\ wr \in [Writers -> WriterType] /\ wr[w] \in WriterType /\ wr[w].n \in Nat
      /\ pending \in Int /\ durable \in Int /\ mark \in Int /\ freed \in Int
      /\ Capacity \in Int
  BY AdmissionAssumption DEF Exact, Inv, Types, WriterType
<1>1. wr[w].pc = "await" /\ UNCHANGED <<mark, freed>>
  BY Zenon DEF Commit, settle, CommitFails, At, log
<1>2. \A v \in Writers \ {w} : wr'[v] = wr[v]
  BY Zenon, <1>0 DEF Commit, settle, CommitFails
<1>3. \/ wr'[w].pc = "done" /\ pending' = pending /\ durable' = durable + wr[w].n
      \/ wr'[w].pc = "await" /\ wr'[w].n = wr[w].n /\ pending' = pending /\ durable' = durable
      \/ wr'[w].pc \in {"done", "onDiskFull"} /\ pending' = pending - wr[w].n /\ durable' = durable
  <2>1. CASE Commit(w)
    BY Zenon, <1>0, <2>1 DEF Commit, WriterType
  <2>2. CASE settle(w)
    BY Zenon, <1>0, <1>1, <2>2 DEF settle, WriterType, log
  <2>3. ASSUME NEW e \in CommitErrors, CommitFails(w, e)
        PROVE  wr'[w].pc \in {"done", "onDiskFull"} /\ pending' = pending - wr[w].n /\ durable' = durable
    <3>1. PICK p \in {"done", "onDiskFull"} :
            p = IF wr[w].result = "none" /\ e = "diskFull" THEN "onDiskFull" ELSE "done"
      BY Zenon
    <3>2. \E a : wr' = [wr EXCEPT ![w].pc = p, ![w].result = a]
      BY Zenon, <2>3, <3>1 DEF CommitFails
    <3>3. wr'[w].pc = p
      BY <1>0, <3>2 DEF WriterType
    <3>4. pending' = pending - wr[w].n /\ UNCHANGED log
      BY <2>3, Zenon DEF CommitFails
    <3> QED
      BY Zenon, <3>1, <3>3, <3>4 DEF log
  <2> QED
    BY Zenon, <2>1, <2>2, <2>3
<1>4. \A q \in {"await", "undo"} :
        /\ Total(Reserved(q)) \in Nat /\ Total(Reserved(q))' \in Nat
        /\ Total(Reserved(q))' = Total(Reserved(q)) - (IF wr[w].pc = q THEN wr[w].n ELSE 0)
                                                    + (IF wr'[w].pc = q THEN wr'[w].n ELSE 0)
  BY Zenon, <1>2, Reserves DEF Exact
<1>5. PICK a \in Nat, a1 \in Nat, u \in Nat :
        /\ a = Total(Reserved("await")) /\ a1 = Total(Reserved("await"))'
        /\ u = Total(Reserved("undo")) /\ u = Total(Reserved("undo"))'
        /\ a1 = a - wr[w].n + (IF wr'[w].pc = "await" THEN wr'[w].n ELSE 0)
  BY <1>1, <1>3, <1>4
<1>6. /\ Granted = (durable - mark) + freed + a /\ Granted' = (durable' - mark) + freed + a1
      /\ pending = Granted + u /\ (Granted <= Capacity \/ (durable = Inherited /\ a = 0))
  BY Zenon, <1>1, <1>5 DEF Exact, PendingExact, WithinCapacity, Granted
<1>7. pending' = Granted' + u /\ (Granted' <= Capacity \/ (durable' = Inherited /\ a1 = 0))
  <2>1. PICK k \in Nat : k = wr[w].n /\ k > 0
    BY Zenon, <1>0, <1>1 DEF Exact, Inv, Honest
  <2>2. \/ a1 = a - k + 0 /\ pending' = pending /\ durable' = durable + k
        \/ a1 = a - k + k /\ pending' = pending /\ durable' = durable
        \/ a1 = a - k + 0 /\ pending' = pending - k /\ durable' = durable
    BY Zenon, <1>3, <1>5, <2>1
  <2> QED
    BY <1>0, <1>6, <2>2
<1> QED
  BY Zenon, <1>5, <1>7 DEF PendingExact, WithinCapacity

\* The steps of the consumer, of Close and of a failure leave the writers where they are.
LEMMA OtherSteps ==
  ASSUME Exact, Inv', Consume \/ Release \/ Closing \/ (Outer /\ (fail \/ CloseSeal)) \/ UNCHANGED vars
  PROVE  PendingExact' /\ WithinCapacity'
<1>0. /\ pending \in Int /\ durable \in Int /\ mark \in Int /\ freed \in Int /\ Capacity \in Int
  BY AdmissionAssumption DEF Exact, Inv, Types
<1>1. UNCHANGED wr
  BY Zenon DEF Consume, ConsumeAck, Release, release, Closing, CloseClosing, CloseWait, CloseTo, fail,
         CloseSeal, vars
<1>2. \A q \in {"await", "undo"} : Total(Reserved(q))' = Total(Reserved(q))
  BY Zenon, <1>1 DEF Reserved, At, Total, Units
<1>3. \A q \in {"await", "undo"} : Total(Reserved(q)) \in Nat
  <2>1. \A q \in {"await", "undo"} :
          /\ IsFiniteSet(DOMAIN Reserved(q))
          /\ \A v \in DOMAIN Reserved(q) : Reserved(q)[v] \in Nat
    <3>1. \A q : {v \in Writers : wr[v].pc = q} \in SUBSET Writers
      BY Zenon
    <3>2. \A q : IsFiniteSet({v \in Writers : wr[v].pc = q})
      BY Zenon, <3>1, AdmissionAssumption, FS_Subset
    <3> QED
      BY Zenon, <3>2 DEF Reserved, At, Exact, Inv, Types, WriterType
  <2>2. \A q \in {"await", "undo"} : Total(Reserved(q)) \in Nat
    BY Zenon, <2>1, UnitsFinite, FS_CardinalityType DEF Total
  <2> QED
    BY Zenon, <2>2
<1>4. \/ durable' = durable /\ mark' = mark + 1 /\ freed = 0 /\ freed' = 1 /\ pending' = pending
      \/ durable' = durable /\ mark' = mark /\ freed' = freed /\ pending' = pending
      \/ durable' = durable /\ mark' = mark /\ freed > 0 /\ freed' = 0 /\ pending' = pending - freed
  BY Zenon, <1>0 DEF Consume, ConsumeAck, Release, release, Closing, CloseClosing, CloseWait, CloseTo, fail,
         CloseSeal, vars, log
<1>5. PICK a \in Nat, u \in Nat :
        /\ a = Total(Reserved("await")) /\ a = Total(Reserved("await"))'
        /\ u = Total(Reserved("undo")) /\ u = Total(Reserved("undo"))'
  BY Zenon, <1>2, <1>3
<1>6. /\ Granted = (durable - mark) + freed + a /\ Granted' = (durable' - mark') + freed' + a
      /\ pending = Granted + u /\ (Granted <= Capacity \/ (durable = Inherited /\ a = 0))
  BY Zenon, <1>5 DEF Exact, PendingExact, WithinCapacity, Granted
<1>7. pending' = Granted' + u /\ (Granted' <= Capacity \/ (durable' = Inherited /\ a = 0))
  <2>1. Granted \in Int /\ Granted' \in Int /\ Granted' <= Granted /\ pending' = Granted' + u
    BY <1>0, <1>4, <1>6
  <2> QED
    BY <1>0, <1>4, <1>6, <2>1
<1> QED
  BY Zenon, <1>5, <1>7 DEF PendingExact, WithinCapacity

\* Nothing is reserved at first: pendingRecords is the backlog countBacklog found.
LEMMA InitExact == Init => Exact
<1> SUFFICES ASSUME Init PROVE Exact
  BY Zenon
<1>1. \A q \in {"await", "undo"} : Units(Reserved(q)) = {}
  BY Zenon DEF Init, NewWriter, Reserved, At, Units
<1>2. \A q \in {"await", "undo"} : Total(Reserved(q)) = 0
  BY Zenon, <1>1, FS_EmptySet DEF Total
<1>3. Granted = Inherited /\ pending = Inherited /\ durable = Inherited
  BY <1>2, AdmissionAssumption DEF Init, Granted
<1> QED
  BY <1>2, <1>3, InitInv, AdmissionAssumption DEF Exact, PendingExact, WithinCapacity

\* Every step keeps the accounts.
LEMMA NextExact == Exact /\ [Next]_vars => Exact'
<1> SUFFICES ASSUME Exact, [Next]_vars PROVE Exact'
  BY Zenon
<1>1. Inv'
  BY Zenon, NextInv DEF Exact
<1>2. CASE \E w \in Writers : Write(w)
  BY Zenon, <1>1, <1>2, QuietSteps, ReserveSteps, CommitSteps DEF Exact, Write
<1>3. CASE Outer /\ \E w \in Writers, n \in Sizes : Call(w, n)
  BY Zenon, <1>1, <1>3, QuietSteps DEF Exact
<1>4. CASE Consume \/ Release \/ Closing \/ (Outer /\ (fail \/ CloseSeal)) \/ UNCHANGED vars
  BY Zenon, <1>1, <1>4, OtherSteps DEF Exact
<1> QED
  BY Zenon, <1>2, <1>3, <1>4 DEF Next, Outer

-----------------------------------------------------------------------------
\* Inv holds throughout.
LEMMA Invariance == Spec => []Inv
  BY InitInv, NextInv, PTL DEF Spec

(***************************************************************************)
(* Close goes on to drain only when no writer is past enter, and none gets *)
(* past it later (batch.go, enter and Close).                              *)
(***************************************************************************)
THEOREM NothingBehindTheDrain == Spec => []NoWriterBehindClose
<1>1. Inv => NoWriterBehindClose
  BY Zenon DEF Inv
<1> QED
  BY <1>1, Invariance, PTL

(***************************************************************************)
(* However a call ends, nil means its records are in the log, unless the   *)
(* policy dropped them (DropNewest returns nil too, the answer "dropped"   *)
(* here), and an error other than ErrUncertain that they are not           *)
(* (batch.go, WriteBatch).                                                 *)
(***************************************************************************)
THEOREM AnswersAreHonest == Spec => []AnswersHonest
<1>1. Inv => AnswersHonest
  BY Zenon DEF Inv, AnswersHonest, Honest, At
<1> QED
  BY <1>1, Invariance, PTL

(***************************************************************************)
(* pendingRecords never drifts: it is what the log retains and what is     *)
(* promised, plus what refused writers are about to take back (batch.go,   *)
(* reserve, release and settle; flush.go, complete).                       *)
(***************************************************************************)
THEOREM CountIsExact == Spec => []PendingExact
<1>1. Exact => PendingExact
  BY Zenon DEF Exact
<1> QED
  BY <1>1, InitExact, NextExact, PTL DEF Spec

(***************************************************************************)
(* However many writers race through reserve, they never take the log      *)
(* above WithCapacity, whatever backlog countBacklog found: one above the  *)
(* capacity only drains, without a write, until it is within (batch.go).   *)
(***************************************************************************)
THEOREM CapacityHolds == Spec => []WithinCapacity
<1>1. Exact => WithinCapacity
  BY Zenon DEF Exact
<1> QED
  BY <1>1, InitExact, NextExact, PTL DEF Spec

=============================================================================
