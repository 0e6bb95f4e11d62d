---------------------------- MODULE ReaderProofs ----------------------------
(***************************************************************************)
(* The cursor of the log, for logs of any length and any number of         *)
(* segments: the record it reads is the one it names, it passes over none, *)
(* and, where recovery left no empty segment behind a gap, ErrNoData means *)
(* that it has caught up.                                                  *)
(*                                                                         *)
(* The argument rests on the shape of the segment list, which commits,     *)
(* rotation and truncation keep: segments lie in the order of their bases, *)
(* each knows the last LSN of the one in front of it, and truncation only  *)
(* takes what lies below the cursor.                                       *)
(***************************************************************************)
EXTENDS Reader, WellFoundedInduction, TLAPS

SegType == [base : Nat, prev : Nat, count : Nat]

\* The segments of ss, in order: each starts above the end of those in front of it.
Ordered(ss) ==
  /\ \A i \in DOMAIN ss : ss[i].prev < ss[i].base
  /\ \A i \in DOMAIN ss : i > 1 => ss[i].prev = LastLSN(ss[i - 1])
  /\ \A i, j \in DOMAIN ss : i < j => ss[i].base < ss[j].base /\ LastLSN(ss[i]) < ss[j].base

\* An empty segment that others follow begins where the one in front of it ended.
NoEmptyGap(ss) ==
  EmptyGaps \/ \A i \in DOMAIN ss : i < Len(ss) /\ ss[i].count = 0 => ss[i].base = ss[i].prev + 1

\* The list, and the mark up to which it may be truncated.
Shape ==
  /\ segs \in Seq(SegType) /\ Len(segs) > 0 /\ Ordered(segs) /\ NoEmptyGap(segs)
  /\ durable \in Nat /\ acked \in Nat /\ acked < nextLSN
  /\ \A b \in gone : b \in Nat /\ b < active.base
  /\ \A i \in DOMAIN segs : segs[i].base \in gone => LastLSN(segs[i]) <= acked

\* The snapshot shows nothing the log does not reach.
Snapshot ==
  /\ views \in Seq(SegType)
  /\ \A i \in DOMAIN views : views[i].base > 0 /\ LastLSN(views[i]) <= LastLSN(active)

\* The cursor is within the log, and its file stands where it says.
Place ==
  /\ nextLSN \in Nat /\ nextLSN <= LastLSN(active) + 1
  /\ posLSN \in Nat /\ path \in Nat /\ off \in Int
  /\ path # 0 => path + off = posLSN
  /\ pc \in {"idle", "position", "refresh", "read"}
  /\ pc = "read" => posLSN = nextLSN

\* What was readable when Next() was called, and the cursor has yet to read, is still in the log.
StillThere ==
  /\ \A l \in atCall : l \in Nat
  /\ pc \in {"position", "refresh"} => \A l \in atCall : l >= nextLSN => l \in Contents(segs)

CaughtUp == EmptyGaps \/ NoDataMeansCaughtUp

Inv == Shape /\ Snapshot /\ Place /\ ReadsWhatItNames /\ NoSkip /\ StillThere /\ CaughtUp

-----------------------------------------------------------------------------
(* Helpers. *)

Less == {p \in Nat \X Nat : p[1] < p[2]}

\* A set of natural numbers that is not empty has a least one (position takes the first segment it finds).
LEMMA Least ==
  ASSUME NEW S \in SUBSET Nat, S # {}
  PROVE  Min(S) \in S /\ \A n \in S : Min(S) <= n
<1>1. IsWellFoundedOn(Less, Nat)
  BY Zenon, NatLessThanWellFounded DEF OpToRel, Less
<1>2. PICK m \in S : \A n \in S : <<n, m>> \notin Less
  BY Zenon, <1>1, WFMin
<1>3. \A n \in S : m <= n
  <2> SUFFICES ASSUME NEW n \in S, ~(m <= n) PROVE FALSE
    BY Zenon
  <2>1. n < m /\ m \in Nat /\ n \in Nat
    OBVIOUS
  <2>2. <<n, m>> \in Less
    BY Zenon, <2>1 DEF Less
  <2> QED
    BY Zenon, <1>2, <2>2
<1> QED
  BY Zenon, <1>3 DEF Min

\* A set of natural numbers with an upper bound has a greatest one (Init's end of the log).
LEMMA Greatest ==
  ASSUME NEW n \in Nat, NEW S \in SUBSET (0..n), S # {}
  PROVE  Max(S) \in S /\ \A x \in S : x <= Max(S)
<1> DEFINE Above == {m \in Nat : \A x \in S : x <= m}
<1>1. Above \in SUBSET Nat /\ n \in Above
  OBVIOUS
<1>2. PICK m \in Above : \A k \in Above : m <= k
  <2> HIDE DEF Above
  <2> QED
    BY Zenon, <1>1, Least
<1>3. m \in S
  <2> SUFFICES ASSUME m \notin S PROVE FALSE
    BY Zenon
  <2>1. PICK y \in S : TRUE
    BY Zenon
  <2>2. m \in Nat /\ m > 0
    BY <2>1
  <2>3. m - 1 \in Above
    BY <2>2
  <2> QED
    BY <1>2, <2>2, <2>3
<1>4. \A x \in S : x <= m
  BY Zenon
<1>5. \E k \in S : \A x \in S : x <= k
  BY Zenon, <1>3, <1>4
<1> QED
  BY Zenon, <1>5 DEF Max

\* What a segment list holds.
LEMMA InContents ==
  ASSUME NEW ss, NEW l
  PROVE  l \in Contents(ss) <=> \E i \in DOMAIN ss : l \in LSNsOf(ss[i])
BY Zenon DEF Contents

\* The numbers of a segment.
LEMMA SegNumbers ==
  ASSUME NEW ss \in Seq(SegType), NEW i \in DOMAIN ss
  PROVE  /\ i \in Nat /\ 1 <= i /\ i <= Len(ss) /\ Len(ss) \in Nat
         /\ ss[i] \in SegType
         /\ ss[i].base \in Nat /\ ss[i].prev \in Nat /\ ss[i].count \in Nat
         /\ LastLSN(ss[i]) \in Int /\ LastLSN(ss[i]) >= ss[i].base - 1
         /\ LastLSN(ss[i]) = ss[i].base + ss[i].count - 1
<1>1. i \in Nat /\ 1 <= i /\ i <= Len(ss) /\ Len(ss) \in Nat /\ ss[i] \in SegType
  OBVIOUS
<1>2. ss[i].base \in Nat /\ ss[i].prev \in Nat /\ ss[i].count \in Nat
  BY Zenon, <1>1 DEF SegType
<1> QED
  BY <1>1, <1>2 DEF LastLSN

\* The last segment reaches furthest.
LEMMA EndIsLast ==
  ASSUME NEW ss \in Seq(SegType), Len(ss) > 0, Ordered(ss), NEW i \in DOMAIN ss
  PROVE  LastLSN(ss[i]) <= LastLSN(ss[Len(ss)])
<1>1. Len(ss) \in DOMAIN ss
  OBVIOUS
<1>2. CASE i = Len(ss)
  BY <1>2, SegNumbers
<1>3. CASE i # Len(ss)
  <2>1. i < Len(ss)
    BY <1>3
  <2>2. LastLSN(ss[i]) < ss[Len(ss)].base
    BY Zenon, <1>1, <2>1 DEF Ordered
  <2> QED
    BY <1>1, <2>2, SegNumbers
<1> QED
  BY Zenon, <1>2, <1>3

-----------------------------------------------------------------------------
(* The rest of the log. *)

\* A step of the log that leaves the cursor alone keeps what concerns the cursor
\* when the list only loses what is acknowledged, and only gains at its end.
LEMMA CursorKept ==
  ASSUME Inv, Shape', UNCHANGED <<cursor, pc, result, hist>>, LastLSN(active) <= LastLSN(active'),
         \A l \in Contents(segs') : l \in Contents(segs) \/ l > LastLSN(active),
         \A l \in Contents(segs) : l \in Contents(segs') \/ l <= acked
  PROVE  Inv'
<1>0. /\ LastLSN(active) \in Int /\ LastLSN(active') \in Int /\ nextLSN \in Nat
      /\ acked \in Nat /\ acked < nextLSN
  <2>1. Len(segs) \in DOMAIN segs /\ Len(segs') \in DOMAIN (segs')
    BY DEF Inv, Shape
  <2> QED
    BY Zenon, <2>1, SegNumbers DEF Inv, Shape, Place, active
<1>1. UNCHANGED <<views, seenDurable, nextLSN, posLSN, path, off, pc, result, start, got, atCall>>
  BY Zenon DEF cursor, hist
<1>2. Snapshot'
  <2>1. \A i \in DOMAIN views : LastLSN(views[i]) \in Int
    BY Zenon, SegNumbers DEF Inv, Snapshot
  <2> QED
    BY <1>0, <1>1, <2>1 DEF Inv, Snapshot
<1>3. Place'
  BY <1>0, <1>1 DEF Inv, Place
<1>4. ReadsWhatItNames'
  BY Zenon, <1>1 DEF Inv, ReadsWhatItNames
<1>5. NoSkip'
  <2> SUFFICES ASSUME NEW l \in Contents(segs'), start <= l, l < nextLSN PROVE l \in got
    BY Zenon, <1>1 DEF NoSkip
  <2>1. CASE l \in Contents(segs)
    BY Zenon, <2>1 DEF Inv, NoSkip
  <2>2. CASE l > LastLSN(active)
    <3>1. l \in Nat
      <4>1. PICK i \in DOMAIN (segs') : l \in LSNsOf(segs'[i])
        BY Zenon, InContents
      <4> QED
        BY <4>1, SegNumbers DEF LSNsOf, Shape
    <3> QED
      BY <1>0, <2>2, <3>1 DEF Inv, Place
  <2> QED
    BY Zenon, <2>1, <2>2
<1>6. StillThere'
  <2>1. ASSUME pc \in {"position", "refresh"}, NEW l \in atCall, l >= nextLSN PROVE l \in Contents(segs')
    <3>1. l \in Contents(segs) /\ l \in Nat
      BY Zenon, <2>1 DEF Inv, StillThere
    <3> QED
      BY <1>0, <2>1, <3>1
  <2> QED
    BY Zenon, <1>1, <2>1 DEF Inv, StillThere
<1>7. CaughtUp'
  BY Zenon, <1>1 DEF Inv, CaughtUp, NoDataMeansCaughtUp
<1> QED
  BY Zenon, <1>2, <1>3, <1>4, <1>5, <1>6, <1>7 DEF Inv

\* The list stays as it is.
LEMMA ListKept ==
  ASSUME Inv, Shape', UNCHANGED <<segs, cursor, pc, result, hist>>
  PROVE  Inv'
<1>1. LastLSN(active) <= LastLSN(active')
  <2>1. Len(segs) \in DOMAIN segs
    BY DEF Inv, Shape
  <2> QED
    BY <2>1, SegNumbers DEF Inv, Shape, active
<1> QED
  BY Zenon, <1>1, CursorKept

\* writeBatch counts a record in the active segment.
LEMMA PublishInv ==
  ASSUME Inv, CommitPublish
  PROVE  Inv'
<1> DEFINE n == Len(segs)
<1>0. /\ segs \in Seq(SegType) /\ n \in DOMAIN segs /\ n \in Nat /\ Ordered(segs) /\ NoEmptyGap(segs)
  BY DEF Inv, Shape
<1>1. /\ segs' = [segs EXCEPT ![n] = [segs[n] EXCEPT !.count = @ + 1]]
      /\ UNCHANGED <<durable, gone, acked, cursor, pc, result, hist>>
  BY Zenon DEF CommitPublish
<1>2. PICK d : d = [segs[n] EXCEPT !.count = @ + 1]
  BY Zenon
<1>3. d \in SegType /\ d.base = segs[n].base /\ d.prev = segs[n].prev /\ d.count = segs[n].count + 1
  <2>1. segs[n] \in SegType /\ segs[n].count + 1 \in Nat
    BY <1>0, SegNumbers
  <2> QED
    BY Zenon, <1>2, <2>1 DEF SegType
<1>4. /\ segs' \in Seq(SegType) /\ Len(segs') = n /\ segs'[n] = d /\ DOMAIN (segs') = DOMAIN segs
      /\ \A i \in DOMAIN segs : i # n => segs'[i] = segs[i]
  BY <1>0, <1>1, <1>2, <1>3
<1>5. LastLSN(d) = LastLSN(segs[n]) + 1 /\ LastLSN(segs[n]) \in Int
  BY <1>0, <1>3, SegNumbers DEF LastLSN
<1>6. active = segs[n] /\ active' = d
  BY Zenon, <1>4 DEF active
<1>7. Ordered(segs')
  <2>1. \A i \in DOMAIN segs : segs'[i].base = segs[i].base /\ segs'[i].prev = segs[i].prev
    BY Zenon, <1>3, <1>4
  <2>2. \A i \in DOMAIN segs : i < n => segs'[i] = segs[i]
    BY <1>0, <1>4
  <2>3. \A i \in DOMAIN segs : i > 1 => i - 1 \in DOMAIN segs /\ i - 1 < n
    BY <1>0
  <2>4. \A i \in DOMAIN segs : i > 1 => segs'[i].prev = LastLSN(segs'[i - 1])
    BY Zenon, <1>0, <2>1, <2>2, <2>3 DEF Ordered
  <2>5. \A i, j \in DOMAIN segs : i < j => i < n
    BY <1>0
  <2> QED
    BY Zenon, <1>0, <1>4, <2>1, <2>2, <2>4, <2>5 DEF Ordered
<1>8. NoEmptyGap(segs')
  BY <1>0, <1>4 DEF NoEmptyGap
<1>9. Shape'
  <2>1. \A b \in gone' : b \in Nat /\ b < active'.base
    BY Zenon, <1>1, <1>3, <1>6 DEF Inv, Shape
  <2>2. ASSUME NEW i \in DOMAIN segs, segs'[i].base \in gone PROVE LastLSN(segs'[i]) <= acked
    <3>1. i # n
      <4>1. segs[n].base \in Nat /\ ~(segs[n].base < segs[n].base)
        BY <1>0, SegNumbers
      <4> QED
        BY Zenon, <1>3, <1>4, <1>6, <2>2, <4>1 DEF Inv, Shape
    <3> QED
      BY Zenon, <1>4, <2>2, <3>1 DEF Inv, Shape
  <2>3. durable' \in Nat /\ acked' \in Nat /\ acked' < nextLSN' /\ Len(segs') > 0
    BY Zenon, <1>0, <1>1, <1>4 DEF Inv, Shape, cursor
  <2> QED
    BY Zenon, <1>1, <1>4, <1>7, <1>8, <2>1, <2>2, <2>3 DEF Shape
<1>10. \A l \in Contents(segs') : l \in Contents(segs) \/ l > LastLSN(active)
  <2> SUFFICES ASSUME NEW i \in DOMAIN segs, NEW l \in LSNsOf(segs'[i])
               PROVE  l \in LSNsOf(segs[i]) \/ l > LastLSN(active)
    BY Zenon, <1>4, InContents
  <2>1. CASE i = n
    BY <1>0, <1>3, <1>4, <1>5, <1>6, <2>1, SegNumbers DEF LSNsOf
  <2>2. CASE i # n
    BY Zenon, <1>4, <2>2
  <2> QED
    BY Zenon, <2>1, <2>2
<1>11. \A l \in Contents(segs) : l \in Contents(segs')
  <2> SUFFICES ASSUME NEW i \in DOMAIN segs, NEW l \in LSNsOf(segs[i]) PROVE l \in LSNsOf(segs'[i])
    BY Zenon, <1>4, InContents
  <2>1. CASE i = n
    BY <1>0, <1>3, <1>4, <1>5, <2>1, SegNumbers DEF LSNsOf
  <2>2. CASE i # n
    BY Zenon, <1>4, <2>2
  <2> QED
    BY Zenon, <2>1, <2>2
<1>12. LastLSN(active) <= LastLSN(active')
  BY <1>5, <1>6
<1> QED
  BY Zenon, <1>1, <1>9, <1>10, <1>11, <1>12, CursorKept

\* rotate appends an empty segment that continues the active one.
LEMMA RotateInv ==
  ASSUME Inv, Rotate
  PROVE  Inv'
<1> DEFINE n == Len(segs)
<1>0. /\ segs \in Seq(SegType) /\ n \in DOMAIN segs /\ n \in Nat /\ Ordered(segs) /\ NoEmptyGap(segs)
      /\ durable \in Nat
  BY DEF Inv, Shape
<1>1. /\ segs[n].count > 0 /\ durable = LastLSN(segs[n])
      /\ UNCHANGED <<durable, gone, acked, cursor, pc, result, hist>>
  BY Zenon DEF Rotate, active
<1>2. PICK d : d = [base |-> durable + 1, prev |-> durable, count |-> 0]
  BY Zenon
<1>3. d \in SegType /\ d.base = durable + 1 /\ d.prev = durable /\ d.count = 0
  BY <1>0, <1>2 DEF SegType
<1>4. segs' = Append(segs, d)
  BY Zenon, <1>2 DEF Rotate
<1>5. /\ segs' \in Seq(SegType) /\ Len(segs') = n + 1 /\ segs'[n + 1] = d
      /\ \A i \in DOMAIN segs : segs'[i] = segs[i]
      /\ \A i \in DOMAIN (segs') : i \in DOMAIN segs \/ i = n + 1
      /\ \A i \in DOMAIN segs : i \in DOMAIN (segs') /\ i < n + 1
      /\ n + 1 \in DOMAIN (segs')
  BY <1>0, <1>3, <1>4
<1>6. active = segs[n] /\ active' = d
  BY Zenon, <1>5 DEF active
<1>7. LastLSN(d) = durable /\ d.base > durable
  BY <1>0, <1>3 DEF LastLSN
<1>8. \A i \in DOMAIN segs : segs[i].base < d.base /\ LastLSN(segs[i]) < d.base
  <2> SUFFICES ASSUME NEW i \in DOMAIN segs PROVE segs[i].base < d.base /\ LastLSN(segs[i]) < d.base
    BY Zenon
  <2>1. LastLSN(segs[i]) <= LastLSN(segs[n])
    BY Zenon, <1>0, EndIsLast DEF Inv, Shape
  <2>2. segs[i].base \in Nat /\ LastLSN(segs[i]) \in Int /\ LastLSN(segs[i]) >= segs[i].base - 1
    BY Zenon, <1>0, SegNumbers
  <2>3. CASE i = n
    <3>1. LastLSN(segs[i]) = segs[i].base + segs[i].count - 1 /\ segs[i].count \in Nat
      BY Zenon, <1>0, SegNumbers
    <3> QED
      BY <1>0, <1>1, <1>3, <2>1, <2>2, <2>3, <3>1
  <2>4. CASE i # n
    <3>1. i < n
      BY <1>0, <2>4
    <3>2. segs[i].base < segs[n].base
      BY Zenon, <1>0, <3>1 DEF Ordered
    <3>3. segs[n].base \in Nat /\ LastLSN(segs[n]) >= segs[n].base - 1
      BY Zenon, <1>0, SegNumbers
    <3> QED
      BY <1>0, <1>1, <1>3, <2>1, <2>2, <3>2, <3>3
  <2> QED
    BY Zenon, <2>3, <2>4
<1>9. Ordered(segs')
  <2>1. \A i \in DOMAIN (segs') : segs'[i].prev < segs'[i].base
    BY Zenon, <1>0, <1>3, <1>5, <1>7 DEF Ordered
  <2>2. ASSUME NEW i \in DOMAIN (segs'), i > 1 PROVE segs'[i].prev = LastLSN(segs'[i - 1])
    <3>1. CASE i = n + 1
      <4>1. i - 1 = n
        BY <1>0, <3>1
      <4> QED
        BY Zenon, <1>0, <1>1, <1>3, <1>5, <3>1, <4>1
    <3>2. CASE i \in DOMAIN segs
      <4>1. i - 1 \in DOMAIN segs
        BY <1>0, <2>2, <3>2
      <4> QED
        BY Zenon, <1>0, <1>5, <2>2, <3>2, <4>1 DEF Ordered
    <3> QED
      BY Zenon, <1>5, <3>1, <3>2
  <2>3. ASSUME NEW i \in DOMAIN (segs'), NEW j \in DOMAIN (segs'), i < j
        PROVE  segs'[i].base < segs'[j].base /\ LastLSN(segs'[i]) < segs'[j].base
    <3>1. i \in DOMAIN segs
      BY <1>0, <1>5, <2>3
    <3>2. CASE j = n + 1
      BY Zenon, <1>5, <1>8, <3>1, <3>2
    <3>3. CASE j \in DOMAIN segs
      BY Zenon, <1>0, <1>5, <2>3, <3>1, <3>3 DEF Ordered
    <3> QED
      BY Zenon, <1>5, <3>2, <3>3
  <2> QED
    BY Zenon, <2>1, <2>2, <2>3 DEF Ordered
<1>10. NoEmptyGap(segs')
  <2> SUFFICES ASSUME ~EmptyGaps, NEW i \in DOMAIN (segs'), i < n + 1, segs'[i].count = 0
               PROVE  segs'[i].base = segs'[i].prev + 1
    BY Zenon, <1>5 DEF NoEmptyGap
  <2>1. i \in DOMAIN segs /\ segs[i].count = 0
    BY <1>0, <1>5
  <2>2. i < n
    BY <1>0, <1>1, <2>1
  <2> QED
    BY Zenon, <1>0, <1>5, <2>1, <2>2 DEF NoEmptyGap
<1>11. Shape'
  <2>1. \A b \in gone' : b \in Nat /\ b < active'.base
    <3> SUFFICES ASSUME NEW b \in gone PROVE b \in Nat /\ b < d.base
      BY Zenon, <1>1, <1>6
    <3>1. b \in Nat /\ b < segs[n].base
      BY Zenon, <1>6 DEF Inv, Shape
    <3>2. segs[n].base \in Nat /\ segs[n].base < d.base /\ d.base \in Nat
      BY <1>0, <1>3, <1>8, SegNumbers
    <3> QED
      BY <3>1, <3>2
  <2>2. ASSUME NEW i \in DOMAIN (segs'), segs'[i].base \in gone PROVE LastLSN(segs'[i]) <= acked
    <3>1. i # n + 1
      <4>1. d.base \in Nat
        BY <1>0, <1>3
      <4> QED
        BY <1>1, <1>5, <1>6, <2>1, <2>2, <4>1
    <3> QED
      BY Zenon, <1>5, <2>2, <3>1 DEF Inv, Shape
  <2>3. durable' \in Nat /\ acked' \in Nat /\ acked' < nextLSN' /\ Len(segs') > 0
    BY <1>0, <1>1, <1>5 DEF Inv, Shape, cursor
  <2> QED
    BY Zenon, <1>1, <1>5, <1>9, <1>10, <2>1, <2>2, <2>3 DEF Shape
<1>12. \A l : l \notin LSNsOf(d)
  BY <1>0, <1>3, <1>7 DEF LSNsOf
<1>13. \A l : l \in Contents(segs') <=> l \in Contents(segs)
  BY Zenon, <1>5, <1>12, InContents
<1>14. LastLSN(active) <= LastLSN(active')
  BY <1>0, <1>1, <1>6, <1>7
<1> QED
  BY Zenon, <1>1, <1>11, <1>13, <1>14, CursorKept

\* Truncate takes the first segment from the list: all of it is acknowledged.
LEMMA TruncateInv ==
  ASSUME Inv, TruncateList
  PROVE  Inv'
<1> DEFINE n == Len(segs)
<1>0. /\ segs \in Seq(SegType) /\ n \in Nat /\ n > 0 /\ Ordered(segs) /\ NoEmptyGap(segs)
      /\ durable \in Nat /\ acked \in Nat
  BY DEF Inv, Shape
<1>1. /\ segs[1].base \in gone /\ segs' = Tail(segs)
      /\ UNCHANGED <<durable, gone, acked, cursor, pc, result, hist>>
  BY Zenon DEF TruncateList
<1>2. n > 1
  <2>1. 1 \in DOMAIN segs /\ segs[1].base \in Nat
    BY <1>0, SegNumbers DEF SegType
  <2>2. segs[1].base < segs[n].base
    BY Zenon, <1>1 DEF Inv, Shape, active
  <2> QED
    BY <1>0, <2>1, <2>2
<1>3. /\ segs' \in Seq(SegType) /\ Len(segs') = n - 1
      /\ \A i \in DOMAIN (segs') : i \in Nat /\ 1 <= i /\ i + 1 \in DOMAIN segs /\ segs'[i] = segs[i + 1]
      /\ \A i \in DOMAIN segs : i = 1 \/ (i - 1 \in DOMAIN (segs') /\ segs'[i - 1] = segs[i])
      /\ n - 1 \in DOMAIN (segs') /\ n \in DOMAIN segs
  BY <1>0, <1>1, <1>2
<1>4. active = segs[n] /\ active' = segs[n]
  BY <1>0, <1>3 DEF active
<1>5. Ordered(segs')
  <2>1. ASSUME NEW i \in DOMAIN (segs'), i > 1 PROVE segs'[i].prev = LastLSN(segs'[i - 1])
    <3>1. i - 1 \in DOMAIN (segs') /\ segs'[i - 1] = segs[i]
      BY <1>0, <1>3, <2>1
    <3>2. i + 1 \in DOMAIN segs /\ i + 1 > 1 /\ (i + 1) - 1 = i /\ segs'[i] = segs[i + 1]
      BY <1>3
    <3> QED
      BY Zenon, <1>0, <3>1, <3>2 DEF Ordered
  <2>2. ASSUME NEW i \in DOMAIN (segs'), NEW j \in DOMAIN (segs'), i < j
        PROVE  segs'[i].base < segs'[j].base /\ LastLSN(segs'[i]) < segs'[j].base
    <3>1. i + 1 < j + 1
      BY <1>3, <2>2
    <3> QED
      BY Zenon, <1>0, <1>3, <3>1 DEF Ordered
  <2> QED
    BY Zenon, <1>0, <1>3, <2>1, <2>2 DEF Ordered
<1>6. NoEmptyGap(segs')
  <2>1. \A i \in DOMAIN (segs') : i < n - 1 => i + 1 < n
    BY <1>0, <1>3
  <2> QED
    BY <1>0, <1>3, <2>1 DEF NoEmptyGap
<1>7. Shape'
  BY <1>0, <1>1, <1>2, <1>3, <1>4, <1>5, <1>6 DEF Inv, Shape, cursor
<1>8. \A l \in Contents(segs') : l \in Contents(segs)
  BY <1>3, InContents
<1>9. \A l \in Contents(segs) : l \in Contents(segs') \/ l <= acked
  <2> SUFFICES ASSUME NEW i \in DOMAIN segs, NEW l \in LSNsOf(segs[i]), l \notin Contents(segs')
               PROVE  l <= acked
    BY Zenon, InContents
  <2>1. i = 1
    BY Zenon, <1>3, InContents
  <2>2. LastLSN(segs[i]) <= acked /\ LastLSN(segs[i]) \in Int /\ segs[i].base \in Nat
    BY Zenon, <1>0, <1>1, <2>1, SegNumbers DEF Inv, Shape
  <2> QED
    BY <1>0, <2>2 DEF LSNsOf
<1>10. LastLSN(active) <= LastLSN(active')
  BY <1>0, <1>3, <1>4, SegNumbers
<1> QED
  BY Zenon, <1>1, <1>7, <1>8, <1>9, <1>10, CursorKept

\* The other steps of the log: durable and acked grow, and a file goes.
LEMMA LogInv ==
  ASSUME Inv, LogStep
  PROVE  Inv'
<1> DEFINE n == Len(segs)
<1>0. /\ segs \in Seq(SegType) /\ n \in Nat /\ n > 0 /\ n \in DOMAIN segs /\ 1 \in DOMAIN segs
      /\ Ordered(segs) /\ acked \in Nat
  BY DEF Inv, Shape
<1>1. CASE CommitDurable
  <2>1. durable' = LastLSN(segs[n]) /\ segs[n].count > 0
        /\ UNCHANGED <<segs, gone, acked, cursor, pc, result, hist>>
    BY Zenon, <1>1 DEF CommitDurable, active
  <2>2. durable' \in Nat
    <3>1. /\ LastLSN(segs[n]) = segs[n].base + segs[n].count - 1
          /\ segs[n].base \in Nat /\ segs[n].count \in Nat
      BY Zenon, <1>0, SegNumbers
    <3> QED
      BY <2>1, <3>1
  <2>3. Shape'
    BY Zenon, <2>1, <2>2 DEF Inv, Shape, cursor, active
  <2> QED
    BY Zenon, <2>1, <2>3, ListKept
<1>2. CASE Ack
  <2>1. PICK m \in (acked + 1)..(nextLSN - 1) : acked' = m
    BY Zenon, <1>2 DEF Ack
  <2>2. UNCHANGED <<segs, durable, gone, cursor, pc, result, hist>>
    BY Zenon, <1>2 DEF Ack
  <2>3. acked' \in Nat /\ acked' < nextLSN /\ acked < acked'
    BY <1>0, <2>1 DEF Inv, Place
  <2>4. \A i \in DOMAIN segs : segs[i].base \in gone => LastLSN(segs[i]) <= acked'
    BY <1>0, <2>3, SegNumbers DEF Inv, Shape
  <2>5. Shape'
    BY Zenon, <2>2, <2>3, <2>4 DEF Inv, Shape, cursor, active
  <2> QED
    BY Zenon, <2>2, <2>5, ListKept
<1>3. CASE TruncateFile
  <2>1. /\ n > 1 /\ LastLSN(segs[1]) <= acked /\ gone' = gone \cup {segs[1].base}
        /\ UNCHANGED <<segs, durable, acked, cursor, pc, result, hist>>
    BY Zenon, <1>3 DEF TruncateFile
  <2>2. segs[1].base \in Nat /\ segs[1].base < segs[n].base
    BY Zenon, <1>0, <2>1, SegNumbers DEF Ordered
  <2>3. ASSUME NEW i \in DOMAIN segs, segs[i].base \in gone' PROVE LastLSN(segs[i]) <= acked
    <3>1. CASE segs[i].base \in gone
      BY Zenon, <3>1 DEF Inv, Shape
    <3>2. CASE segs[i].base = segs[1].base
      <4>1. ~(1 < i)
        BY <1>0, <2>2, <3>2 DEF Ordered
      <4>2. i = 1
        BY <1>0, <4>1
      <4> QED
        BY Zenon, <2>1, <4>2
    <3> QED
      BY Zenon, <2>1, <2>3, <3>1, <3>2
  <2>4. Shape'
    BY Zenon, <2>1, <2>2, <2>3 DEF Inv, Shape, cursor, active
  <2> QED
    BY Zenon, <2>1, <2>4, ListKept
<1> QED
  BY Zenon, <1>1, <1>2, <1>3, PublishInv, RotateInv, TruncateInv DEF LogStep

-----------------------------------------------------------------------------
(* Next(). *)

\* The cursor's steps leave the log alone, so its shape stays.
LEMMA ShapeKept ==
  ASSUME Inv, UNCHANGED log, nextLSN' \in Nat, nextLSN <= nextLSN'
  PROVE  Shape' /\ UNCHANGED active
<1>1. UNCHANGED <<segs, durable, gone, acked>> /\ UNCHANGED active
  BY Zenon DEF log, active
<1>2. acked' < nextLSN'
  BY <1>1 DEF Inv, Shape, Place
<1> QED
  BY Zenon, <1>1, <1>2 DEF Inv, Shape

\* The list itself is a snapshot.
LEMMA FreshSnapshot ==
  ASSUME Inv, UNCHANGED active, views' = segs
  PROVE  Snapshot'
<1>0. segs \in Seq(SegType) /\ Len(segs) > 0 /\ Ordered(segs)
  BY Zenon DEF Inv, Shape
<1>1. ASSUME NEW i \in DOMAIN segs PROVE segs[i].base > 0 /\ LastLSN(segs[i]) <= LastLSN(active)
  <2>1. segs[i].prev < segs[i].base /\ segs[i].prev \in Nat /\ segs[i].base \in Nat
    BY Zenon, <1>0, SegNumbers DEF Ordered
  <2> QED
    BY <1>0, <2>1, EndIsLast DEF active
<1> QED
  BY Zenon, <1>0, <1>1 DEF Snapshot

\* openAt puts the file where it reads lsn, or finds it gone.
LEMMA Opens ==
  ASSUME Inv, NEW ss \in Seq(SegType), NEW i \in DOMAIN ss, ss[i].base > 0,
         NEW lsn \in Nat, lsn \in LSNsOf(ss[i]), openAt(ss[i], lsn)
  PROVE  /\ posLSN' \in Nat /\ path' \in Nat /\ off' \in Int
         /\ path' # 0 => path' + off' = posLSN'
         /\ \/ pc' = "read" /\ posLSN' = lsn /\ path' = ss[i].base /\ UNCHANGED result
            \/ pc' = "idle" /\ result' = "truncated"
<1>0. /\ posLSN \in Nat /\ path \in Nat /\ off \in Int /\ (path # 0 => path + off = posLSN)
      /\ ss[i].base \in Nat
  BY Zenon, SegNumbers DEF Inv, Place
<1>1. CASE path = ss[i].base /\ posLSN = lsn
  BY Zenon, <1>0, <1>1 DEF openAt
<1>2. CASE ~(path = ss[i].base /\ posLSN = lsn) /\ ss[i].base \in gone
  BY <1>0, <1>2 DEF openAt, Return
<1>3. CASE ~(path = ss[i].base /\ posLSN = lsn) /\ ss[i].base \notin gone
  <2>1. /\ path' = ss[i].base /\ off' = lsn - ss[i].base /\ posLSN' = lsn
        /\ pc' = "read" /\ UNCHANGED result
    BY Zenon, <1>3 DEF openAt
  <2> QED
    BY <1>0, <2>1
<1> QED
  BY Zenon, <1>1, <1>2, <1>3

\* A call: refresh and give up, or look for the record.
LEMMA CallInv ==
  ASSUME Inv, Call
  PROVE  Inv'
<1>0. /\ nextLSN \in Nat /\ durable \in Nat /\ segs \in Seq(SegType)
  BY Zenon DEF Inv, Shape, Place
<1>1. /\ UNCHANGED <<log, nextLSN, posLSN, path, off, start, got>> /\ pc = "idle"
      /\ atCall' = {l \in Readable : l >= nextLSN}
  BY Zenon DEF Call
<1>2. UNCHANGED <<segs, durable>>
  BY Zenon, <1>1 DEF log
<1>3. \/ views' = segs /\ nextLSN > durable /\ pc' = "idle" /\ result' = "nodata"
      \/ (views' = segs \/ UNCHANGED views) /\ pc' = "position" /\ UNCHANGED result
  BY Zenon DEF Call, Return
<1>4. Shape' /\ UNCHANGED active
  BY <1>0, <1>1, ShapeKept
<1>5. Snapshot'
  <2>1. CASE views' = segs
    BY Zenon, <1>4, <2>1, FreshSnapshot
  <2>2. CASE UNCHANGED views
    BY Zenon, <1>4, <2>2 DEF Inv, Snapshot
  <2> QED
    BY Zenon, <1>3, <2>1, <2>2
<1>6. Place'
  BY Zenon, <1>1, <1>3, <1>4 DEF Inv, Place
<1>7. ReadsWhatItNames'
  BY Zenon, <1>3 DEF ReadsWhatItNames
<1>8. NoSkip'
  BY Zenon, <1>1, <1>2 DEF Inv, NoSkip
<1>9. \A l \in Contents(segs) : l \in Nat
  BY <1>0, InContents, SegNumbers DEF LSNsOf
<1>10. StillThere'
  BY Zenon, <1>1, <1>2, <1>9 DEF StillThere, Readable
<1>11. CaughtUp'
  <2>1. CASE nextLSN > durable
    <3>1. atCall' = {}
      BY <1>0, <1>1, <1>9, <2>1 DEF Readable
    <3> QED
      BY Zenon, <3>1 DEF CaughtUp, NoDataMeansCaughtUp
  <2>2. CASE pc' = "position"
    BY Zenon, <2>2 DEF CaughtUp, NoDataMeansCaughtUp
  <2> QED
    BY Zenon, <1>3, <2>1, <2>2
<1> QED
  BY Zenon, <1>4, <1>5, <1>6, <1>7, <1>8, <1>10, <1>11 DEF Inv

\* The snapshot has the record, or the list is to be looked at again.
LEMMA PositionInv ==
  ASSUME Inv, Position
  PROVE  Inv'
<1> DEFINE found == {i \in DOMAIN views : nextLSN \in LSNsOf(views[i])}
<1>0. nextLSN \in Nat /\ views \in Seq(SegType) /\ nextLSN <= nextLSN
  BY DEF Inv, Place, Snapshot
<1>1. UNCHANGED <<log, views, seenDurable, nextLSN, hist>> /\ pc = "position"
  BY Zenon DEF Position
<1>2. UNCHANGED <<segs, start, got, atCall>>
  BY Zenon, <1>1 DEF log, hist
<1>3. Shape' /\ UNCHANGED active
  BY Zenon, <1>0, <1>1, ShapeKept
<1>4. Snapshot'
  BY Zenon, <1>1, <1>3 DEF Inv, Snapshot
<1>5. NoSkip'
  BY Zenon, <1>1, <1>2 DEF Inv, NoSkip
<1>6. CASE found # {}
  <2>1. openAt(views[Min(found)], nextLSN)
    BY Zenon, <1>6 DEF Position
  <2>2. Min(found) \in found
    <3>1. found \in SUBSET Nat
      BY <1>0
    <3> HIDE DEF found
    <3> QED
      BY Zenon, <1>6, <3>1, Least
  <2>3. PICK i \in DOMAIN views : nextLSN \in LSNsOf(views[i]) /\ i = Min(found)
    BY Zenon, <2>2
  <2>4. views[i].base > 0
    BY Zenon DEF Inv, Snapshot
  <2>5. openAt(views[i], nextLSN)
    BY Zenon, <2>1, <2>3
  <2>6. /\ posLSN' \in Nat /\ path' \in Nat /\ off' \in Int
        /\ path' # 0 => path' + off' = posLSN'
        /\ \/ pc' = "read" /\ posLSN' = nextLSN /\ path' = views[i].base /\ UNCHANGED result
           \/ pc' = "idle" /\ result' = "truncated"
    BY Zenon, <1>0, <2>3, <2>4, <2>5, Opens
  <2>7. Place'
    BY Zenon, <1>1, <1>3, <2>6 DEF Inv, Place
  <2>8. ReadsWhatItNames'
    BY <1>1, <2>3, <2>4, <2>6 DEF ReadsWhatItNames
  <2>9. StillThere' /\ CaughtUp'
    BY Zenon, <1>2, <2>6 DEF Inv, StillThere, CaughtUp, NoDataMeansCaughtUp
  <2> QED
    BY Zenon, <1>3, <1>4, <1>5, <2>7, <2>8, <2>9 DEF Inv
<1>7. CASE found = {}
  <2>1. pc' = "refresh" /\ UNCHANGED <<path, posLSN, off, result>>
    BY Zenon, <1>7 DEF Position
  <2>2. Place' /\ ReadsWhatItNames'
    BY Zenon, <1>1, <1>3, <2>1 DEF Inv, Place, ReadsWhatItNames
  <2>3. StillThere' /\ CaughtUp'
    BY Zenon, <1>1, <1>2, <2>1 DEF Inv, StillThere, CaughtUp, NoDataMeansCaughtUp
  <2> QED
    BY Zenon, <1>3, <1>4, <1>5, <2>2, <2>3 DEF Inv
<1> QED
  BY Zenon, <1>6, <1>7

\* The record is returned.
LEMMA ReadInv ==
  ASSUME Inv, Read
  PROVE  Inv'
<1>1. /\ UNCHANGED <<log, views, seenDurable, path, start, atCall>> /\ pc = "read"
      /\ got' = got \cup {nextLSN} /\ off' = off + 1 /\ nextLSN' = nextLSN + 1 /\ posLSN' = nextLSN + 1
      /\ result' = "record" /\ pc' = "idle"
  BY Zenon DEF Read, Return
<1>2. UNCHANGED segs
  BY Zenon, <1>1 DEF log
<1>3. nextLSN \in Nat /\ nextLSN + 1 \in Nat /\ nextLSN <= nextLSN + 1 /\ path + off = nextLSN
      /\ path \in Nat /\ off \in Int
  BY <1>1 DEF Inv, Place, ReadsWhatItNames
<1>4. Shape' /\ UNCHANGED active
  BY Zenon, <1>1, <1>3, ShapeKept
<1>5. Snapshot'
  BY Zenon, <1>1, <1>4 DEF Inv, Snapshot
<1>6. Place'
  <2>1. PICK i \in DOMAIN views : nextLSN \in LSNsOf(views[i])
    BY Zenon, <1>1 DEF Inv, ReadsWhatItNames
  <2>2. /\ LastLSN(views[i]) <= LastLSN(active) /\ LastLSN(views[i]) \in Int /\ views[i].base \in Nat
    BY Zenon, SegNumbers DEF Inv, Snapshot
  <2>3. LastLSN(active) \in Int
    <3>1. Len(segs) \in DOMAIN segs /\ segs \in Seq(SegType)
      BY DEF Inv, Shape
    <3> QED
      BY Zenon, <3>1, SegNumbers DEF active
  <2>4. nextLSN + 1 <= LastLSN(active) + 1
    BY <1>3, <2>1, <2>2, <2>3 DEF LSNsOf
  <2> QED
    BY <1>1, <1>3, <1>4, <2>4 DEF Place
<1>7. ReadsWhatItNames' /\ StillThere' /\ CaughtUp'
  BY Zenon, <1>1 DEF Inv, ReadsWhatItNames, StillThere, CaughtUp, NoDataMeansCaughtUp
<1>8. NoSkip'
  <2> SUFFICES ASSUME NEW l \in Contents(segs), start <= l, l < nextLSN + 1 PROVE l \in got \/ l = nextLSN
    BY Zenon, <1>1, <1>2 DEF NoSkip
  <2>1. l \in Nat
    BY InContents, SegNumbers DEF LSNsOf, Inv, Shape
  <2>2. l < nextLSN \/ l = nextLSN
    BY <1>3, <2>1
  <2> QED
    BY Zenon, <2>2 DEF Inv, NoSkip
<1> QED
  BY Zenon, <1>4, <1>5, <1>6, <1>7, <1>8 DEF Inv

\* The gap the cursor steps over holds no record.
LEMMA GapIsEmpty ==
  ASSUME Inv, NEW k \in DOMAIN segs, gapBefore(segs[k], nextLSN), NEW l \in Contents(segs), l < segs[k].base
  PROVE  l < nextLSN
<1>0. /\ segs \in Seq(SegType) /\ Ordered(segs) /\ nextLSN \in Nat
      /\ segs[k].base \in Nat /\ segs[k].prev \in Nat /\ k \in Nat /\ 1 <= k
  BY Zenon, SegNumbers DEF Inv, Shape, Place
<1>1. PICK i \in DOMAIN segs : l \in LSNsOf(segs[i])
  BY Zenon, InContents
<1>2. /\ segs[i].base \in Nat /\ LastLSN(segs[i]) \in Int /\ i \in Nat /\ 1 <= i
      /\ l \in Nat /\ segs[i].base <= l /\ l <= LastLSN(segs[i])
  BY <1>0, <1>1, SegNumbers DEF LSNsOf
<1>3. i < k
  <2>1. CASE i = k
    BY <1>2, <2>1
  <2>2. CASE k < i
    <3>1. segs[k].base < segs[i].base
      BY Zenon, <1>0, <2>2 DEF Ordered
    <3> QED
      BY <1>0, <1>2, <3>1
  <2> QED
    BY <1>0, <1>2, <2>1, <2>2
<1>4. /\ k - 1 \in DOMAIN segs /\ LastLSN(segs[k - 1]) = segs[k].prev
  <2>1. k > 1 /\ k - 1 \in DOMAIN segs
    BY <1>0, <1>2, <1>3
  <2> QED
    BY Zenon, <1>0, <2>1 DEF Ordered
<1>5. LastLSN(segs[i]) <= segs[k].prev
  <2>1. CASE i = k - 1
    BY <1>0, <1>4, <2>1
  <2>2. CASE i < k - 1
    <3>1. LastLSN(segs[i]) < segs[k - 1].base
      BY Zenon, <1>0, <1>4, <2>2 DEF Ordered
    <3>2. segs[k - 1].base \in Nat /\ LastLSN(segs[k - 1]) >= segs[k - 1].base - 1
      BY Zenon, <1>0, <1>4, SegNumbers
    <3> QED
      BY <1>0, <1>2, <1>4, <3>1, <3>2
  <2> QED
    BY <1>0, <1>2, <1>3, <2>1, <2>2
<1> QED
  BY <1>0, <1>2, <1>5 DEF gapBefore

\* If the record is in no segment and behind no gap, nothing lies ahead of the cursor.
LEMMA NothingAhead ==
  ASSUME Inv, ~EmptyGaps, ~(nextLSN < segs[1].base),
         \A i \in DOMAIN segs : nextLSN \notin LSNsOf(segs[i]),
         \A i \in DOMAIN segs : ~(gapBefore(segs[i], nextLSN) /\ segs[i].count > 0),
         NEW l \in Contents(segs), l >= nextLSN
  PROVE  FALSE
<1>0. /\ segs \in Seq(SegType) /\ Len(segs) > 0 /\ Ordered(segs) /\ nextLSN \in Nat /\ NoEmptyGap(segs)
  BY Zenon DEF Inv, Shape, Place
<1>1. PICK j \in DOMAIN segs : l \in LSNsOf(segs[j])
  BY Zenon, InContents
<1>2. /\ segs[j].base \in Nat /\ LastLSN(segs[j]) \in Int /\ segs[j].count \in Nat
      /\ l \in Nat /\ segs[j].base <= l /\ l <= LastLSN(segs[j])
      /\ LastLSN(segs[j]) = segs[j].base + segs[j].count - 1
  BY <1>0, <1>1, SegNumbers DEF LSNsOf
<1> DEFINE Ahead == {i \in DOMAIN segs : LastLSN(segs[i]) >= nextLSN}
<1>3. Ahead \in SUBSET Nat /\ j \in Ahead
  BY SMTT(30), <1>0, <1>2
<1>4. PICK k \in Ahead : \A i \in Ahead : k <= i
  <2> HIDE DEF Ahead
  <2> QED
    BY Zenon, <1>3, Least
<1>5. /\ k \in DOMAIN segs /\ k \in Nat /\ 1 <= k /\ k <= Len(segs) /\ k <= j /\ LastLSN(segs[k]) >= nextLSN
      /\ segs[k].base \in Nat /\ segs[k].prev \in Nat /\ segs[k].count \in Nat
      /\ LastLSN(segs[k]) = segs[k].base + segs[k].count - 1
  BY Zenon, <1>0, <1>3, <1>4, SegNumbers
<1>6. k > 1 => segs[k].prev < nextLSN
  <2> SUFFICES ASSUME k > 1 PROVE segs[k].prev < nextLSN
    BY Zenon
  <2>1. k - 1 \in DOMAIN segs /\ LastLSN(segs[k - 1]) = segs[k].prev
    <3>1. k - 1 \in DOMAIN segs
      BY <1>0, <1>5
    <3> QED
      BY Zenon, <1>0, <1>5, <3>1 DEF Ordered
  <2>2. k - 1 \notin Ahead
    <3> SUFFICES ASSUME k - 1 \in Ahead PROVE FALSE
      BY Zenon
    <3>1. k <= k - 1
      BY Zenon, <1>4
    <3> QED
      BY <1>5, <3>1
  <2> QED
    BY <1>0, <1>5, <2>1, <2>2
<1>7. k = 1 => segs[k].base <= nextLSN
  BY <1>0, <1>5
<1>8. CASE segs[k].count > 0
  <2>1. segs[k].base > nextLSN
    BY <1>0, <1>5 DEF LSNsOf
  <2>2. k > 1
    BY <1>0, <1>5, <1>7, <2>1
  <2> QED
    BY Zenon, <1>5, <1>6, <1>8, <2>1, <2>2 DEF gapBefore
<1>9. CASE segs[k].count = 0
  <2>1. k # j
    BY <1>2, <1>5, <1>9
  <2>2. k < Len(segs)
    BY <1>0, <1>5, <2>1
  <2>3. segs[k].base = segs[k].prev + 1
    BY Zenon, <1>5, <1>9, <2>2 DEF Inv, Shape, NoEmptyGap
  <2>4. CASE k > 1
    BY <1>0, <1>5, <1>6, <1>9, <2>3, <2>4
  <2>5. CASE k = 1
    BY <1>0, <1>5, <1>7, <1>9, <2>5
  <2> QED
    BY <1>5, <2>4, <2>5
<1> QED
  BY <1>5, <1>8, <1>9

\* After the refresh: the record, the first one behind a gap, or neither.
LEMMA RepositionInv ==
  ASSUME Inv, Reposition
  PROVE  Inv'
<1> DEFINE found == {i \in DOMAIN segs : nextLSN \in LSNsOf(segs[i])}
           over  == {i \in DOMAIN segs : gapBefore(segs[i], nextLSN) /\ segs[i].count > 0}
<1>0. nextLSN \in Nat /\ segs \in Seq(SegType) /\ Ordered(segs) /\ Len(segs) > 0 /\ nextLSN <= nextLSN
  BY DEF Inv, Place, Shape
<1>1. UNCHANGED <<log, hist>> /\ pc = "refresh" /\ views' = segs
  BY Zenon DEF Reposition
<1>2. UNCHANGED <<segs, start, got, atCall>>
  BY Zenon, <1>1 DEF log, hist
<1>3. ASSUME NEW k \in DOMAIN segs, nextLSN' \in Nat, nextLSN <= nextLSN', nextLSN' \in LSNsOf(segs[k]),
             openAt(segs[k], nextLSN'),
             \A l \in Contents(segs) : l < nextLSN' => l < nextLSN
      PROVE  Inv'
  <2>1. Shape' /\ UNCHANGED active
    BY Zenon, <1>1, <1>3, ShapeKept
  <2>2. Snapshot'
    BY Zenon, <1>1, <2>1, FreshSnapshot
  <2>3. segs[k].base > 0 /\ LastLSN(segs[k]) <= LastLSN(active)
    BY Zenon, <1>1, <2>1, <2>2 DEF Snapshot
  <2>4. /\ posLSN' \in Nat /\ path' \in Nat /\ off' \in Int
        /\ path' # 0 => path' + off' = posLSN'
        /\ \/ pc' = "read" /\ posLSN' = nextLSN' /\ path' = segs[k].base /\ UNCHANGED result
           \/ pc' = "idle" /\ result' = "truncated"
    BY Zenon, <1>0, <1>3, <2>3, Opens
  <2>5. nextLSN' <= LastLSN(active) + 1
    <3>1. LastLSN(segs[k]) \in Int /\ LastLSN(active) \in Int /\ segs[k].base \in Nat
      <4>1. Len(segs) \in DOMAIN segs
        BY <1>0
      <4> QED
        BY Zenon, <1>0, <4>1, SegNumbers DEF active
    <3> QED
      BY <1>3, <2>3, <3>1 DEF LSNsOf
  <2>6. Place'
    BY Zenon, <1>3, <2>1, <2>4, <2>5 DEF Place
  <2>7. ReadsWhatItNames'
    <3> SUFFICES ASSUME pc' = "read"
                 PROVE  /\ path' + off' = nextLSN'
                        /\ \E i \in DOMAIN segs : segs[i].base = path' /\ nextLSN' \in LSNsOf(segs[i])
      BY Zenon, <1>1 DEF ReadsWhatItNames
    <3>1. posLSN' = nextLSN' /\ path' = segs[k].base /\ path' # 0
      BY <2>3, <2>4
    <3> QED
      BY Zenon, <1>3, <2>4, <3>1
  <2>8. NoSkip'
    BY Zenon, <1>2, <1>3 DEF Inv, NoSkip
  <2>9. StillThere' /\ CaughtUp'
    BY Zenon, <1>2, <2>4 DEF Inv, StillThere, CaughtUp, NoDataMeansCaughtUp
  <2> QED
    BY Zenon, <2>1, <2>2, <2>6, <2>7, <2>8, <2>9 DEF Inv
<1>4. CASE found # {} /\ openAt(segs[Min(found)], nextLSN) /\ UNCHANGED nextLSN
  <2>1. Min(found) \in found
    <3>1. found \in SUBSET Nat
      BY <1>0
    <3> HIDE DEF found
    <3> QED
      BY Zenon, <1>4, <3>1, Least
  <2>2. PICK k \in DOMAIN segs : nextLSN \in LSNsOf(segs[k]) /\ k = Min(found)
    BY Zenon, <2>1
  <2>3. openAt(segs[k], nextLSN')
    BY Zenon, <1>4, <2>2
  <2> QED
    BY Zenon, <1>0, <1>3, <1>4, <2>2, <2>3
<1>5. CASE over # {} /\ nextLSN' = segs[Min(over)].base /\ openAt(segs[Min(over)], nextLSN')
  <2>1. Min(over) \in over
    <3>1. over \in SUBSET Nat
      BY <1>0
    <3> HIDE DEF over
    <3> QED
      BY Zenon, <1>5, <3>1, Least
  <2>2. PICK k \in DOMAIN segs : gapBefore(segs[k], nextLSN) /\ segs[k].count > 0 /\ k = Min(over)
    BY Zenon, <2>1
  <2>3. nextLSN' = segs[k].base /\ openAt(segs[k], nextLSN')
    BY Zenon, <1>5, <2>2
  <2>4. /\ segs[k].base \in Nat /\ segs[k].count \in Nat
        /\ LastLSN(segs[k]) = segs[k].base + segs[k].count - 1
    BY Zenon, <1>0, SegNumbers
  <2>5. nextLSN' \in Nat /\ nextLSN <= nextLSN' /\ nextLSN' \in LSNsOf(segs[k])
    <3>1. nextLSN < segs[k].base /\ segs[k].base <= LastLSN(segs[k])
      BY <2>2, <2>4 DEF gapBefore
    <3>2. segs[k].base \in LSNsOf(segs[k])
      BY <2>4, <3>1 DEF LSNsOf
    <3> QED
      BY SMTT(30), <1>0, <2>3, <2>4, <3>1, <3>2
  <2>6. \A l \in Contents(segs) : l < nextLSN' => l < nextLSN
    BY Zenon, <2>2, <2>3, GapIsEmpty
  <2> QED
    BY Zenon, <1>3, <2>3, <2>5, <2>6
<1>6. CASE /\ found = {} /\ over = {}
           /\ Return(IF nextLSN < segs[1].base THEN "truncated" ELSE "nodata")
           /\ UNCHANGED <<nextLSN, path, posLSN, off>>
  <2>1. Shape' /\ UNCHANGED active
    BY Zenon, <1>0, <1>1, <1>6, ShapeKept
  <2>2. Snapshot'
    BY Zenon, <1>1, <2>1, FreshSnapshot
  <2>3. pc' = "idle" /\ (result' = "nodata" => ~(nextLSN < segs[1].base))
    BY Zenon, <1>6 DEF Return
  <2>4. Place' /\ ReadsWhatItNames' /\ NoSkip' /\ StillThere'
    BY Zenon, <1>2, <1>6, <2>1, <2>3 DEF Inv, Place, ReadsWhatItNames, NoSkip, StillThere
  <2>5. CaughtUp'
    <3> SUFFICES ASSUME ~EmptyGaps, result' = "nodata", NEW l \in atCall, l >= nextLSN PROVE FALSE
      BY Zenon, <1>2, <1>6 DEF CaughtUp, NoDataMeansCaughtUp
    <3>1. l \in Contents(segs)
      BY Zenon, <1>1 DEF Inv, StillThere
    <3> QED
      BY Zenon, <1>6, <2>3, <3>1, NothingAhead
  <2> QED
    BY Zenon, <2>1, <2>2, <2>4, <2>5 DEF Inv
<1> QED
  BY Zenon, <1>4, <1>5, <1>6 DEF Reposition

-----------------------------------------------------------------------------
(* The log the cursor starts on. *)

\* The lists recovery produces are in order.
LEMMA RecoveredOrdered ==
  ASSUME NEW ss \in RecoveredLogs
  PROVE  /\ ss \in Seq(SegType) /\ Len(ss) > 0 /\ Ordered(ss) /\ NoEmptyGap(ss)
         /\ \A i \in DOMAIN ss : LastLSN(ss[i]) <= MaxLSN
<1>0. MaxLSN \in Nat /\ MaxSegments \in Nat
  BY Zenon, ReaderAssumption
<1>1. PICK n \in 1..MaxSegments : ss \in [1..n -> Segments]
  BY Zenon DEF RecoveredLogs
<1>2. n \in Nat /\ n > 0 /\ Len(ss) = n /\ DOMAIN ss = 1..n
  BY <1>0, <1>1
<1>3. /\ \A i \in 1..(n - 1) : ss[i + 1].prev = LastLSN(ss[i]) /\ ss[i + 1].base > ss[i].base
      /\ \A i \in 1..(n - 1) : ss[i].count = 0 => (EmptyGaps \/ ss[i].base = ss[i].prev + 1)
  BY Zenon, <1>2 DEF RecoveredLogs
<1>4. \A i \in 1..n : ss[i] \in SegType /\ ss[i].prev < ss[i].base /\ LastLSN(ss[i]) <= MaxLSN
  <2>1. \A s \in Segments : s \in SegType /\ s.prev < s.base /\ LastLSN(s) <= MaxLSN
    BY <1>0 DEF Segments, SegType
  <2> QED
    BY Zenon, <1>1, <2>1
<1>5. ss \in Seq(SegType)
  BY <1>1, <1>2, <1>4
<1>6. \A i \in DOMAIN ss : i > 1 => ss[i].prev = LastLSN(ss[i - 1]) /\ ss[i - 1].base < ss[i].base
  <2> SUFFICES ASSUME NEW i \in 1..n, i > 1
               PROVE  ss[i].prev = LastLSN(ss[i - 1]) /\ ss[i - 1].base < ss[i].base
    BY Zenon, <1>2
  <2>1. PICK h \in 1..(n - 1) : i = h + 1
    BY <1>2
  <2>2. i - 1 = h /\ h \in DOMAIN ss /\ i \in DOMAIN ss
    BY <1>2, <2>1
  <2>3. ss[h].base \in Nat /\ ss[i].base \in Nat
    BY Zenon, <1>5, <2>2, SegNumbers
  <2> QED
    BY Zenon, <1>3, <2>1, <2>2, <2>3
<1>7. ASSUME NEW i \in DOMAIN ss, NEW j \in DOMAIN ss, i < j
      PROVE  ss[i].base < ss[j].base /\ LastLSN(ss[i]) < ss[j].base
  <2> DEFINE Good(k) == ss[i].base < ss[k].base /\ LastLSN(ss[i]) < ss[k].base
             Bad == {k \in DOMAIN ss : i < k /\ ~Good(k)}
  <2> SUFFICES ASSUME Bad # {} PROVE FALSE
    BY Zenon, <1>7
  <2>1. PICK k \in Bad : \A h \in Bad : k <= h
    <3>1. Bad \in SUBSET Nat
      BY <1>2
    <3> HIDE DEF Bad
    <3> QED
      BY Zenon, <3>1, Least
  <2>2. /\ k \in DOMAIN ss /\ i < k /\ ~Good(k) /\ k - 1 \in DOMAIN ss /\ k > 1 /\ i \in Nat /\ k \in Nat
    BY <1>2, <2>1
  <2>3. /\ ss[k].prev = LastLSN(ss[k - 1]) /\ ss[k - 1].base < ss[k].base /\ ss[k].prev < ss[k].base
    BY Zenon, <1>2, <1>4, <1>6, <2>2
  <2>4. /\ ss[i].base \in Nat /\ ss[k].base \in Nat /\ ss[k - 1].base \in Nat
        /\ LastLSN(ss[i]) \in Int
    BY Zenon, <1>5, <2>2, SegNumbers
  <2>5. CASE i = k - 1
    BY Zenon, <2>2, <2>3, <2>5
  <2>6. CASE i < k - 1
    <3>1. k - 1 \notin Bad
      <4> SUFFICES ASSUME k - 1 \in Bad PROVE FALSE
        BY Zenon
      <4>1. k <= k - 1
        BY Zenon, <2>1
      <4> QED
        BY <2>2, <4>1
    <3>2. Good(k - 1)
      BY Zenon, <2>2, <2>6, <3>1
    <3> QED
      BY <2>2, <2>3, <2>4, <3>2
  <2> QED
    BY <2>2, <2>5, <2>6
<1>8. Ordered(ss)
  BY Zenon, <1>2, <1>4, <1>6, <1>7 DEF Ordered
<1>9. NoEmptyGap(ss)
  BY <1>2, <1>3 DEF NoEmptyGap
<1> QED
  BY Zenon, <1>2, <1>4, <1>5, <1>8, <1>9

\* And stay so when Open truncates them.
LEMMA TruncatedOrdered ==
  ASSUME NEW ss \in Seq(SegType), Ordered(ss), NoEmptyGap(ss), NEW h \in DOMAIN ss,
         NEW tt, tt = SubSeq(ss, h, Len(ss))
  PROVE  /\ tt \in Seq(SegType) /\ Len(tt) > 0 /\ Ordered(tt) /\ NoEmptyGap(tt)
         /\ tt[1] = ss[h] /\ tt[Len(tt)] = ss[Len(ss)]
<1>0. h \in Nat /\ 1 <= h /\ h <= Len(ss) /\ Len(ss) \in Nat
  OBVIOUS
<1>1. /\ tt \in Seq(SegType) /\ Len(tt) = Len(ss) - h + 1
      /\ \A i \in 1..(Len(ss) - h + 1) : tt[i] = ss[h + i - 1]
  BY <1>0
<1>2. PICK n \in Nat, m \in Nat : n = Len(tt) /\ m = Len(ss) /\ n = m - h + 1 /\ n > 0
  BY <1>0, <1>1
<1>3. \A i \in DOMAIN tt : i \in Nat /\ 1 <= i /\ i <= n /\ h + i - 1 \in DOMAIN ss /\ tt[i] = ss[h + i - 1]
  BY <1>0, <1>1, <1>2
<1>4. Ordered(tt)
  <2>1. ASSUME NEW i \in DOMAIN tt, i > 1 PROVE tt[i].prev = LastLSN(tt[i - 1])
    <3>1. i - 1 \in DOMAIN tt
      BY <1>1, <1>2, <2>1
    <3>2. PICK k \in DOMAIN ss : k = h + i - 1 /\ k > 1 /\ k - 1 = h + (i - 1) - 1
      <4>1. h + i - 1 \in DOMAIN ss /\ i \in Nat
        BY Zenon, <1>3
      <4>2. h + i - 1 > 1 /\ (h + i - 1) - 1 = h + (i - 1) - 1
        <5>1. \A a, b \in Nat : 1 <= a /\ b > 1 => a + b - 1 > 1 /\ (a + b - 1) - 1 = a + (b - 1) - 1
          OBVIOUS
        <5> QED
          BY Zenon, <1>0, <2>1, <4>1, <5>1
      <4> QED
        BY Zenon, <4>1, <4>2
    <3>3. tt[i] = ss[k] /\ tt[i - 1] = ss[k - 1]
      BY Zenon, <1>3, <3>1, <3>2
    <3> QED
      BY Zenon, <3>2, <3>3 DEF Ordered
  <2>2. ASSUME NEW i \in DOMAIN tt, NEW j \in DOMAIN tt, i < j
        PROVE  tt[i].base < tt[j].base /\ LastLSN(tt[i]) < tt[j].base
    <3>1. h + i - 1 < h + j - 1
      BY <1>0, <1>3, <2>2
    <3> QED
      BY Zenon, <1>3, <3>1 DEF Ordered
  <2>3. \A i \in DOMAIN tt : tt[i].prev < tt[i].base
    BY Zenon, <1>3 DEF Ordered
  <2> QED
    BY Zenon, <2>1, <2>2, <2>3 DEF Ordered
<1>5. NoEmptyGap(tt)
  <2>1. \A i \in DOMAIN tt : i < n => h + i - 1 < m
    BY <1>0, <1>2, <1>3
  <2> QED
    BY Zenon, <1>2, <1>3, <2>1 DEF NoEmptyGap
<1>6. tt[1] = ss[h] /\ tt[n] = ss[m]
  <2>1. 1 \in DOMAIN tt /\ n \in DOMAIN tt /\ h + 1 - 1 = h /\ h + n - 1 = m
    BY <1>0, <1>1, <1>2
  <2>2. tt[1] = ss[h + 1 - 1] /\ tt[n] = ss[h + n - 1]
    BY Zenon, <1>3, <2>1
  <2> QED
    BY Zenon, <2>1, <2>2
<1> QED
  BY Zenon, <1>1, <1>2, <1>4, <1>5, <1>6

\* The larger of two numbers.
LEMMA MaxOfTwo ==
  ASSUME NEW a \in Nat, NEW b \in Nat
  PROVE  Max({a, b}) \in {a, b} /\ a <= Max({a, b}) /\ b <= Max({a, b})
<1>1. PICK n \in Nat : n = a + b
  OBVIOUS
<1>2. {a, b} \in SUBSET (0..n) /\ {a, b} # {}
  BY <1>1
<1> QED
  BY Zenon, <1>2, Greatest

\* Where the flusher and countBacklog start to read.
LEMMA InitInv == Init => Inv
<1> SUFFICES ASSUME Init PROVE Inv
  BY Zenon
<1>0. MaxLSN \in Nat
  BY Zenon, ReaderAssumption
<1>1. PICK ss \in RecoveredLogs :
        LET end == Max({0} \cup Contents(ss))
        IN  /\ acked \in (ss[1].base - 1)..Max({end, ss[1].base - 1})
            /\ LET head == Min({i \in DOMAIN ss : i = Len(ss) \/ LastLSN(ss[i]) > acked})
               IN  segs = SubSeq(ss, head, Len(ss))
            /\ durable = end
  BY Zenon DEF Init
<1>2. /\ gone = {} /\ nextLSN = Max({acked + 1, segs[1].base})
      /\ views = segs /\ posLSN = 0 /\ path = 0 /\ off = 0 /\ pc = "idle" /\ result = "none"
      /\ start = nextLSN /\ atCall = {}
  BY Zenon DEF Init
<1>3. /\ ss \in Seq(SegType) /\ Len(ss) > 0 /\ Ordered(ss) /\ NoEmptyGap(ss)
      /\ \A i \in DOMAIN ss : LastLSN(ss[i]) <= MaxLSN
  BY Zenon, RecoveredOrdered
<1>4. Len(ss) \in DOMAIN ss /\ 1 \in DOMAIN ss /\ Len(ss) \in Nat
  BY <1>3
<1>5. PICK h \in DOMAIN ss : segs = SubSeq(ss, h, Len(ss))
  <2> DEFINE heads == {i \in DOMAIN ss : i = Len(ss) \/ LastLSN(ss[i]) > acked}
  <2>1. heads \in SUBSET Nat /\ heads # {} /\ heads \subseteq DOMAIN ss
    BY <1>3, <1>4
  <2>2. Min(heads) \in heads
    <3> HIDE DEF heads
    <3> QED
      BY Zenon, <2>1, Least
  <2>3. segs = SubSeq(ss, Min(heads), Len(ss))
    BY Zenon, <1>1
  <2> HIDE DEF heads
  <2> QED
    BY Zenon, <2>1, <2>2, <2>3
<1>6. /\ segs \in Seq(SegType) /\ Len(segs) > 0 /\ Ordered(segs) /\ NoEmptyGap(segs)
      /\ segs[1] = ss[h] /\ active = ss[Len(ss)]
  BY Zenon, <1>3, <1>5, TruncatedOrdered DEF active
<1>7. PICK e \in Int : e = LastLSN(active)
  BY Zenon, <1>3, <1>4, <1>6, SegNumbers
<1>8. \A i \in DOMAIN ss : /\ ss[i].base \in Nat /\ ss[i].base > 0 /\ ss[i].base <= e + 1
                           /\ LastLSN(ss[i]) \in Int /\ LastLSN(ss[i]) <= e
  <2> SUFFICES ASSUME NEW i \in DOMAIN ss
               PROVE  /\ ss[i].base \in Nat /\ ss[i].base > 0 /\ ss[i].base <= e + 1
                      /\ LastLSN(ss[i]) \in Int /\ LastLSN(ss[i]) <= e
    BY Zenon
  <2>1. /\ ss[i].base \in Nat /\ ss[i].prev \in Nat /\ LastLSN(ss[i]) \in Int
        /\ LastLSN(ss[i]) >= ss[i].base - 1
    BY Zenon, <1>3, SegNumbers
  <2>2. LastLSN(ss[i]) <= e
    BY Zenon, <1>3, <1>6, <1>7, EndIsLast
  <2>3. ss[i].prev < ss[i].base
    BY Zenon, <1>3 DEF Ordered
  <2> QED
    BY <1>7, <2>1, <2>2, <2>3
<1>9. durable \in Nat /\ durable <= e
  <2> DEFINE S == {0} \cup Contents(ss)
  <2>1. S \in SUBSET (0..MaxLSN) /\ S # {} /\ \A l \in S : l <= e
    <3>1. ASSUME NEW l \in Contents(ss) PROVE l \in Nat /\ l <= MaxLSN /\ l <= e
      <4>1. PICK i \in DOMAIN ss : l \in LSNsOf(ss[i])
        BY Zenon, InContents
      <4>2. LastLSN(ss[i]) \in Int /\ LastLSN(ss[i]) <= MaxLSN /\ LastLSN(ss[i]) <= e /\ ss[i].base \in Nat
        BY Zenon, <1>3, <1>8
      <4> QED
        BY <1>0, <1>7, <4>1, <4>2 DEF LSNsOf
    <3>2. 0 <= e
      <4>1. ss[1].base > 0 /\ ss[1].base <= e + 1 /\ ss[1].base \in Nat
        BY Zenon, <1>4, <1>8
      <4> QED
        BY <1>7, <4>1
    <3> QED
      BY <1>0, <3>1, <3>2
  <2>2. Max(S) \in S
    <3> HIDE DEF S
    <3> QED
      BY Zenon, <1>0, <2>1, Greatest
  <2>3. durable = Max(S)
    BY Zenon, <1>1
  <2> HIDE DEF S
  <2>4. durable \in S /\ S \subseteq 0..MaxLSN
    BY Zenon, <2>1, <2>2, <2>3
  <2> QED
    BY <1>0, <2>1, <2>4
<1>10. acked \in Nat /\ acked <= e
  <2>1. PICK b \in Nat : b = ss[1].base - 1 /\ b <= e
    <3>1. ss[1].base \in Nat /\ ss[1].base > 0 /\ ss[1].base <= e + 1
      BY Zenon, <1>4, <1>8
    <3> QED
      BY <1>7, <3>1
  <2>2. acked \in b..Max({durable, b})
    BY Zenon, <1>1, <2>1
  <2>3. Max({durable, b}) \in {durable, b}
    BY Zenon, <1>9, MaxOfTwo
  <2> QED
    BY <1>7, <1>9, <2>1, <2>2, <2>3
<1>11. nextLSN \in Nat /\ acked < nextLSN /\ nextLSN <= e + 1
  <2>1. PICK a \in Nat, b \in Nat : a = acked + 1 /\ b = segs[1].base /\ b <= e + 1
    <3>1. segs[1].base \in Nat /\ segs[1].base <= e + 1
      BY Zenon, <1>6, <1>8
    <3>2. acked + 1 \in Nat
      BY <1>10
    <3> QED
      BY Zenon, <3>1, <3>2
  <2>2. nextLSN = Max({a, b})
    BY Zenon, <1>2, <2>1
  <2>3. Max({a, b}) \in {a, b} /\ a <= Max({a, b})
    BY Zenon, MaxOfTwo
  <2> QED
    BY <1>7, <1>10, <2>1, <2>2, <2>3
<1>12. Shape
  BY Zenon, <1>2, <1>6, <1>9, <1>10, <1>11 DEF Shape
<1>13. Snapshot
  <2>1. ASSUME NEW i \in DOMAIN segs PROVE segs[i].base > 0 /\ LastLSN(segs[i]) <= LastLSN(active)
    <3>1. segs[i].prev < segs[i].base /\ segs[i].prev \in Nat /\ segs[i].base \in Nat
      BY Zenon, <1>6, SegNumbers DEF Ordered
    <3> QED
      BY <1>6, <3>1, EndIsLast DEF active
  <2> QED
    BY Zenon, <1>2, <1>6, <2>1 DEF Snapshot
<1>14. Place
  BY <1>2, <1>7, <1>11 DEF Place
<1>15. NoSkip
  <2>1. \A l \in Contents(segs) : l \in Nat
    BY <1>6, InContents, SegNumbers DEF LSNsOf
  <2> QED
    BY <1>2, <1>11, <2>1 DEF NoSkip
<1>16. ReadsWhatItNames /\ StillThere /\ CaughtUp
  BY Zenon, <1>2 DEF ReadsWhatItNames, StillThere, CaughtUp, NoDataMeansCaughtUp
<1> QED
  BY Zenon, <1>12, <1>13, <1>14, <1>15, <1>16 DEF Inv

\* Every step keeps the invariant.
LEMMA NextInv == Inv /\ [Next]_vars => Inv'
<1>1. ASSUME Inv, UNCHANGED vars PROVE Inv'
  <2>1. UNCHANGED <<segs, durable, gone, acked, views, nextLSN, posLSN, path, off, pc, result, start, got, atCall>>
    BY Zenon, <1>1 DEF vars, log, cursor, hist
  <2>2. Shape' /\ Snapshot' /\ Place'
    BY Zenon, <1>1, <2>1 DEF Inv, Shape, Snapshot, Place, active
  <2>3. ReadsWhatItNames' /\ NoSkip' /\ StillThere' /\ CaughtUp'
    BY Zenon, <1>1, <2>1 DEF Inv, ReadsWhatItNames, NoSkip, StillThere, CaughtUp, NoDataMeansCaughtUp
  <2> QED
    BY Zenon, <2>2, <2>3 DEF Inv
<1> QED
  BY Zenon, <1>1, LogInv, CallInv, PositionInv, RepositionInv, ReadInv DEF Next, NextCall

\* The invariant holds at all times.
LEMMA Invariance == Spec => []Inv
BY InitInv, NextInv, PTL DEF Spec

-----------------------------------------------------------------------------
(* The results. *)

\* The cached file position is right: the record Next() is about to read is the
\* one nextLSN names, and it is published (openAt, reader.go).
THEOREM PositionIsRight == Spec => []ReadsWhatItNames
<1>1. Inv => ReadsWhatItNames
  BY Zenon DEF Inv
<1> QED
  BY <1>1, Invariance, PTL

\* Every record between the start and the cursor was returned: neither a gap, nor a
\* rotation or a truncation between two steps of Next(), makes it pass over one.
THEOREM NothingIsSkipped == Spec => []NoSkip
<1>1. Inv => NoSkip
  BY Zenon DEF Inv
<1> QED
  BY <1>1, Invariance, PTL

\* Next() returns ErrNoData only when nothing was readable at the call, on every log
\* in which no empty segment behind a gap is followed by another; on those the claim
\* fails (reader.go:64, and position()).
THEOREM NoDataIsTrue == Spec => [](EmptyGaps \/ NoDataMeansCaughtUp)
<1>1. Inv => EmptyGaps \/ NoDataMeansCaughtUp
  BY Zenon DEF Inv, CaughtUp
<1> QED
  BY <1>1, Invariance, PTL

=============================================================================
