--------------------------- MODULE PipelineProofs ---------------------------
(***************************************************************************)
(* The flusher and the deliveries, for any log, any number of slots and    *)
(* any settings: nothing is acknowledged before it is resolved, a record   *)
(* is resolved once, a batch holds consecutive records, a Close that       *)
(* drained left nothing behind, the ranges handed out tile the log, and a  *)
(* shutdown gives no record an outcome.                                    *)
(*                                                                         *)
(* The log falls into four parts: ranges with the deliveries, the          *)
(* flusher's own range from..to, what it has read beyond it (the record    *)
(* held back, or the one that stopped it), and what it has not read.       *)
(***************************************************************************)
EXTENDS Pipeline, FiniteSetTheorems, WellFoundedInduction, TLAPS

Fates == {"pending", "sunk", "dead", "dropped"}

FlusherType ==
  [pc : {"top", "read", "decide", "dispatch", "select", "done"}, pos : Nat, recs : Seq(Nat),
   from : Nat, to : Nat, skip : Nat, expired : BOOLEAN, draining : BOOLEAN, cut : BOOLEAN,
   stop : Nat, held : Nat]

DeliveryType ==
  [pc : {"idle", "try", "sink", "answered", "wait"}, recs : Seq(Nat), from : Nat, to : Nat,
   skip : Nat, attempt : Nat, dead : BOOLEAN,
   verdict : {"none", "retry", "permanent", "fatal"}, genuine : BOOLEAN]

\* The variables have their types.
Types ==
  /\ durable \in 0..MaxLSN /\ f \in FlusherType /\ dl \in [Slots -> DeliveryType]
  /\ fate \in [1..MaxLSN -> Fates]
  /\ failed \in BOOLEAN /\ forceFlush \in BOOLEAN /\ abort \in BOOLEAN /\ cancelled \in BOOLEAN
  /\ close \in {"open", "sealed", "draining", "delivering", "stopping", "aborted", "cancelled", "closed"}

\* The records of a range: consecutive, inside it, not resolved.
Batch(recs, from, to, ft) ==
  \A i \in DOMAIN recs : /\ recs[i] = recs[1] + i - 1
                         /\ recs[i] \in from..to /\ recs[i] \notin Gaps
                         /\ ft[recs[i]] = "pending"

\* What else is in the range is resolved already, or a gap.
Filled(recs, from, to, ft) ==
  \A l \in from..to : l \in Gaps \/ l \in Range(recs) \/ ft[l] # "pending"

\* The flusher's range, and the record read beyond it.
Bounds ==
  /\ 1 <= f.from /\ f.from <= f.to + 1 /\ f.to < f.pos /\ f.pos <= durable + 1
  /\ f.cut => f.recs # <<>>
  /\ f.held # 0 => /\ f.held = f.pos - 1 /\ f.to < f.held /\ f.stop = 0 /\ f.held \notin Gaps
                   /\ \/ f.cut /\ f.recs # <<>>
                      \/ f.recs = <<>> /\ f.pc \in {"top", "done"}
  /\ f.stop # 0 => f.stop = f.pos - 1 /\ f.to < f.stop /\ f.pc \in {"decide", "dispatch", "done"}
  /\ \A l \in (f.to + 1)..(f.pos - 1) : l \in Gaps \/ l = f.held \/ l = f.stop

\* The flusher's batch, and the records above it.
Mine ==
  /\ Batch(f.recs, f.from, f.to, fate) /\ Filled(f.recs, f.from, f.to, fate)
  /\ \A l \in 1..MaxLSN : l > f.to => fate[l] = "pending"

Acks == \A l \in acked : l \in 1..f.to /\ (l \in Gaps \/ fate[l] # "pending")

\* The deliveries' ranges lie side by side below the flusher's.
Theirs ==
  \A s \in Slots : dl[s].pc # "idle" =>
    /\ 1 <= dl[s].from /\ dl[s].to < f.from
    /\ Batch(dl[s].recs, dl[s].from, dl[s].to, fate)
    /\ Filled(dl[s].recs, dl[s].from, dl[s].to, fate)

Apart ==
  \A s, t \in Slots : s # t /\ dl[s].pc # "idle" /\ dl[t].pc # "idle" =>
    dl[s].to < dl[t].from \/ dl[t].to < dl[s].from

\* What is below the flusher's range is acknowledged or being delivered.
Cover ==
  failed \/ abort \/
  \A l \in 1..(f.from - 1) :
    l \in acked \/ \E s \in Slots : dl[s].pc # "idle" /\ l \in dl[s].from..dl[s].to

\* The flusher ends by itself only when Close has kept writers out and it has read everything.
Ending ==
  /\ durable = 0 \/ durable \notin Gaps
  /\ f.draining => close \notin {"open", "sealed"}
  /\ f.pc = "decide" /\ f.draining /\ f.recs = <<>> /\ f.stop = 0 => Unread = {}
  /\ f.pc = "done" => failed \/ abort \/ (f.draining /\ durable < f.from)
  /\ close = "delivering" => f.pc = "done"
  /\ abort => close \in {"aborted", "cancelled", "closed"}

Inv == Types /\ Bounds /\ Mine /\ Acks /\ Theirs /\ Apart /\ Cover /\ Ending

-----------------------------------------------------------------------------
(* Helpers. *)

Less == {p \in Nat \X Nat : p[1] < p[2]}

\* A set of natural numbers that is not empty has a least one (Append1 and Next1).
LEMMA Least ==
  ASSUME NEW S \in SUBSET Nat, S # {}
  PROVE  Min(S) \in S /\ \A n \in S : Min(S) <= n
<1>1. IsWellFoundedOn(Less, Nat)
  BY Zenon, NatLessThanWellFounded DEF OpToRel, Less
<1>2. PICK m \in S : \A n \in S : <<n, m>> \notin Less
  BY Zenon, <1>1, WFMin
<1>3. \A n \in S : m <= n
  <2> SUFFICES ASSUME NEW n \in S, ~(m <= n) PROVE FALSE
    BY Zenon
  <2>1. n < m /\ m \in Nat /\ n \in Nat
    OBVIOUS
  <2>2. <<n, m>> \in Less
    BY Zenon, <2>1 DEF Less
  <2> QED
    BY Zenon, <1>2, <2>2
<1> QED
  BY Zenon, <1>3 DEF Min

\* The record Next() returns: the first one not read, with gaps in front of it.
LEMMA NextRecord ==
  ASSUME Inv, Unread # {}
  PROVE  /\ Next1 \in 1..durable /\ Next1 \notin Gaps /\ f.pos <= Next1
         /\ \A l \in f.pos..(Next1 - 1) : l \in Gaps
<1>1. durable \in Nat /\ f.pos \in Nat /\ 1 <= f.pos
  BY PipelineAssumption DEF Inv, Types, Bounds, FlusherType
<1>2. Unread \in SUBSET Nat
  BY <1>1 DEF Unread, Records
<1>3. Next1 \in Unread /\ \A l \in Unread : Next1 <= l
  BY Zenon, <1>2, Least DEF Next1
<1> QED
  BY <1>1, <1>3 DEF Unread, Records

\* Everything the flusher has read lies within the log.
LEMMA InLog ==
  ASSUME Inv
  PROVE  /\ MaxLSN \in Nat /\ durable \in Nat /\ durable <= MaxLSN
         /\ f.from \in Nat /\ f.to \in Nat /\ f.pos \in Nat /\ f.held \in Nat /\ f.stop \in Nat
         /\ f.recs \in Seq(Nat)
         /\ 1 <= f.from /\ f.from <= f.to + 1 /\ f.to < f.pos /\ f.pos <= durable + 1
         /\ \A s \in Slots : dl[s].from \in Nat /\ dl[s].to \in Nat /\ dl[s].recs \in Seq(Nat)
<1>1. MaxLSN \in Nat /\ durable \in Nat /\ durable <= MaxLSN
  BY PipelineAssumption DEF Inv, Types
<1>2. /\ f.from \in Nat /\ f.to \in Nat /\ f.pos \in Nat /\ f.held \in Nat /\ f.stop \in Nat
      /\ f.recs \in Seq(Nat)
  BY Zenon DEF Inv, Types, FlusherType
<1>3. 1 <= f.from /\ f.from <= f.to + 1 /\ f.to < f.pos /\ f.pos <= durable + 1
  BY Zenon DEF Inv, Bounds
<1>4. \A s \in Slots : dl[s].from \in Nat /\ dl[s].to \in Nat /\ dl[s].recs \in Seq(Nat)
  BY Zenon DEF Inv, Types, DeliveryType
<1> QED
  BY Zenon, <1>1, <1>2, <1>3, <1>4

\* An idle slot is a delivery's.
LEMMA IdleType == Idle \in DeliveryType /\ Idle.pc = "idle"
BY DEF Idle, DeliveryType

\* The buffer opens with nothing read and nothing in flight.
LEMMA InitInv == Init => Inv
<1> SUFFICES ASSUME Init PROVE Inv
  BY Zenon
<1>1. f \in FlusherType
  BY DEF Init, FlusherType
<1>2. Idle \in DeliveryType /\ Idle.pc = "idle"
  BY Zenon, IdleType
<1>3. dl \in [Slots -> DeliveryType] /\ \A s \in Slots : dl[s].pc = "idle"
  BY Zenon, <1>2 DEF Init
<1>4. fate \in [1..MaxLSN -> Fates] /\ \A l \in 1..MaxLSN : fate[l] = "pending"
  BY Zenon DEF Init, Fates
<1>5. Types
  BY Zenon, <1>1, <1>3, <1>4, PipelineAssumption DEF Init, Types
<1>6. Bounds
  BY PipelineAssumption DEF Init, Bounds
<1>7. Mine /\ Acks
  BY <1>4 DEF Init, Mine, Acks, Batch, Filled
<1>8. Theirs /\ Apart
  BY Zenon, <1>3 DEF Theirs, Apart
<1>9. Cover /\ Ending
  BY PipelineAssumption DEF Init, Cover, Ending
<1> QED
  BY Zenon, <1>5, <1>6, <1>7, <1>8, <1>9 DEF Inv

-----------------------------------------------------------------------------
(* What a step does to the ranges. *)

Ranges == Mine /\ Acks /\ Theirs /\ Apart /\ Cover

\* A step that resolves, acknowledges and moves nothing.
LEMMA Still ==
  ASSUME Inv, UNCHANGED <<dl, acked, fate>>,
         f'.from = f.from, f'.to = f.to, f'.recs = f.recs,
         failed => failed', abort => abort'
  PROVE  Ranges'
BY Zenon DEF Inv, Ranges, Mine, Acks, Theirs, Apart, Cover

\* A record opens a batch, and what is in front of it is acknowledged (startBatch).
LEMMA Opens ==
  ASSUME Inv, NEW lsn \in Nat, f.to < lsn, lsn <= MaxLSN, lsn \notin Gaps, f.recs = <<>>,
         \A l \in (f.to + 1)..(lsn - 1) : l \in Gaps,
         startBatch(lsn), UNCHANGED <<dl, fate, failed, abort>>,
         f'.from = lsn, f'.to = lsn, f'.recs = <<lsn>>
  PROVE  Ranges'
<1>1. acked' = acked \cup f.from..(lsn - 1)
  BY InLog DEF startBatch, complete, NotComplete
<1>2. \A l \in f.from..(lsn - 1) : l \in Gaps \/ fate[l] # "pending"
  BY InLog DEF Inv, Mine, Filled, Range
<1>3. Mine'
  <2>1. fate[lsn] = "pending"
    BY InLog DEF Inv, Mine
  <2>2. Batch(<<lsn>>, lsn, lsn, fate) /\ Filled(<<lsn>>, lsn, lsn, fate)
    BY <2>1 DEF Batch, Filled, Range
  <2> QED
    BY SMTT(30), <2>2, InLog DEF Inv, Mine
<1>4. Acks'
  BY SMTT(30), <1>1, <1>2, InLog DEF Inv, Acks
<1>5. Theirs' /\ Apart'
  BY SMTT(30), InLog DEF Inv, Theirs, Apart
<1>6. Cover'
  BY SMTT(30), <1>1, InLog DEF Inv, Cover
<1> QED
  BY Zenon, <1>3, <1>4, <1>5, <1>6 DEF Ranges

\* A range in which everything was skipped is acknowledged (the flusher's step 3).
LEMMA Skipped ==
  ASSUME Inv, f.recs = <<>>, complete(f.from, f.to), UNCHANGED <<dl, fate, abort>>,
         f'.to = f.to, f'.recs = <<>>,
         \/ f'.from = f.to + 1 /\ UNCHANGED failed
         \/ f'.from = f.from /\ failed'
  PROVE  Ranges'
<1>1. acked' = acked \cup f.from..f.to
  BY Zenon DEF complete
<1>2. \A l \in f.from..f.to : l \in Gaps \/ fate[l] # "pending"
  BY DEF Inv, Mine, Filled, Range
<1>3. Mine'
  BY InLog DEF Inv, Mine, Batch, Filled
<1>4. Acks'
  BY <1>1, <1>2, InLog DEF Inv, Acks
<1>5. Theirs' /\ Apart'
  BY SMTT(30), InLog DEF Inv, Theirs, Apart
<1>6. Cover'
  <2>1. CASE failed' \/ abort
    BY Zenon, <2>1 DEF Cover
  <2>2. CASE ~failed' /\ ~abort
    <3>1. f'.from = f.to + 1 /\ f.from \in Nat /\ f.to \in Nat
      BY Zenon, <2>2, InLog
    <3>2. \A l \in 1..(f'.from - 1) : l \in 1..(f.from - 1) \/ l \in f.from..f.to
      BY <3>1
    <3>3. \A l \in 1..(f.from - 1) :
            l \in acked \/ \E s \in Slots : dl[s].pc # "idle" /\ l \in dl[s].from..dl[s].to
      BY Zenon, <2>2 DEF Inv, Cover
    <3> QED
      BY Zenon, <1>1, <3>2, <3>3 DEF Cover
  <2> QED
    BY Zenon, <2>1, <2>2
<1> QED
  BY Zenon, <1>3, <1>4, <1>5, <1>6 DEF Ranges

\* A step that resolves nothing below the flusher's range leaves the deliveries' ranges as they are.
LEMMA TheirsKept ==
  ASSUME Inv, UNCHANGED dl, f'.from \in Nat, f.from <= f'.from,
         \A l \in 1..(f.from - 1) : fate'[l] = fate[l]
  PROVE  Theirs'
<1> SUFFICES ASSUME NEW s \in Slots, dl[s].pc # "idle"
             PROVE  /\ 1 <= dl[s].from /\ dl[s].to < f'.from
                    /\ Batch(dl[s].recs, dl[s].from, dl[s].to, fate')
                    /\ Filled(dl[s].recs, dl[s].from, dl[s].to, fate')
  BY Zenon DEF Theirs
<1>1. dl[s].from \in Nat /\ dl[s].to \in Nat /\ f.from \in Nat
  BY Zenon, InLog
<1>2. /\ 1 <= dl[s].from /\ dl[s].to < f.from
      /\ Batch(dl[s].recs, dl[s].from, dl[s].to, fate)
      /\ Filled(dl[s].recs, dl[s].from, dl[s].to, fate)
  BY Zenon DEF Inv, Theirs
<1>3. \A l \in dl[s].from..dl[s].to : fate'[l] = fate[l]
  BY <1>1, <1>2
<1>4. Batch(dl[s].recs, dl[s].from, dl[s].to, fate') /\ Filled(dl[s].recs, dl[s].from, dl[s].to, fate')
  BY Zenon, <1>1, <1>2, <1>3 DEF Batch, Filled
<1>5. dl[s].to < f'.from
  BY <1>1, <1>2
<1> QED
  BY Zenon, <1>2, <1>4, <1>5

\* A record below the floor, or undecodable, joins the range as dropped.
LEMMA Drops1 ==
  ASSUME Inv, NEW lsn \in Nat, f.to < lsn, lsn <= MaxLSN,
         \A l \in (f.to + 1)..(lsn - 1) : l \in Gaps,
         Become({lsn}, "dropped"), UNCHANGED <<dl, acked, failed, abort>>,
         f'.from = f.from, f'.to = lsn, f'.recs = f.recs
  PROVE  Ranges'
<1>0. /\ MaxLSN \in Nat /\ f.from \in Nat /\ f.to \in Nat /\ 1 <= f.from /\ f.from <= f.to + 1
      /\ f.recs \in Seq(Nat)
  BY Zenon, InLog
<1>1. \A l \in 1..MaxLSN : fate'[l] = IF l = lsn THEN "dropped" ELSE fate[l]
  BY Zenon DEF Become
<1>2. \A l \in 1..f.to : fate'[l] = fate[l]
  <2> SUFFICES ASSUME NEW l \in 1..f.to PROVE fate'[l] = fate[l]
    BY Zenon
  <2>1. l \in 1..MaxLSN /\ l # lsn
    BY <1>0
  <2> QED
    BY Zenon, <1>1, <2>1
<1>3. Mine'
  <2>1. Batch(f.recs, f.from, lsn, fate')
    <3> SUFFICES ASSUME NEW i \in DOMAIN f.recs
                 PROVE  /\ f.recs[i] = f.recs[1] + i - 1
                        /\ f.recs[i] \in f.from..lsn /\ f.recs[i] \notin Gaps
                        /\ fate'[f.recs[i]] = "pending"
      BY Zenon DEF Batch
    <3>1. /\ f.recs[i] = f.recs[1] + i - 1
          /\ f.recs[i] \in f.from..f.to /\ f.recs[i] \notin Gaps
          /\ fate[f.recs[i]] = "pending"
      BY Zenon DEF Inv, Mine, Batch
    <3>2. PICK r \in f.from..f.to : r = f.recs[i]
      BY Zenon, <3>1
    <3>3. r \in f.from..lsn /\ r \in 1..f.to
      BY <1>0
    <3> QED
      BY Zenon, <1>2, <3>1, <3>2, <3>3
  <2>2. Filled(f.recs, f.from, lsn, fate')
    <3> SUFFICES ASSUME NEW l \in f.from..lsn
                 PROVE  l \in Gaps \/ l \in Range(f.recs) \/ fate'[l] # "pending"
      BY Zenon DEF Filled
    <3>1. CASE l <= f.to
      <4>1. l \in Gaps \/ l \in Range(f.recs) \/ fate[l] # "pending"
        BY <1>0, <3>1 DEF Inv, Mine, Filled
      <4> QED
        BY <1>0, <1>2, <3>1, <4>1
    <3>2. CASE l = lsn
      BY <1>0, <1>1, <3>2
    <3>3. CASE f.to < l /\ l < lsn
      BY <1>0, <3>3
    <3> QED
      BY <1>0, <3>1, <3>2, <3>3
  <2>3. \A l \in 1..MaxLSN : l > lsn => fate'[l] = "pending"
    BY <1>0, <1>1 DEF Inv, Mine
  <2> QED
    BY Zenon, <2>1, <2>2, <2>3 DEF Mine
<1>4. Acks'
  BY SMTT(30), <1>0, <1>2 DEF Inv, Acks
<1>5. Theirs' /\ Apart'
  BY <1>0, <1>2, TheirsKept, InLog DEF Inv, Apart
<1>6. Cover'
  BY Zenon DEF Inv, Cover
<1> QED
  BY Zenon, <1>3, <1>4, <1>5, <1>6 DEF Ranges

\* A batch and the record that follows its last one are a batch.
LEMMA Joined ==
  ASSUME NEW recs \in Seq(Nat), recs # <<>>, NEW from \in Nat, NEW to \in Nat, NEW lsn \in Nat, NEW ft,
         from <= to + 1, to < lsn, lsn = recs[Len(recs)] + 1, lsn \notin Gaps, ft[lsn] = "pending",
         \A l \in (to + 1)..(lsn - 1) : l \in Gaps,
         Batch(recs, from, to, ft), Filled(recs, from, to, ft)
  PROVE  Batch(Append(recs, lsn), from, lsn, ft) /\ Filled(Append(recs, lsn), from, lsn, ft)
<1> DEFINE more == Append(recs, lsn)
<1>1. PICK n \in Nat : n = Len(recs) /\ n > 0 /\ DOMAIN recs = 1..n
  OBVIOUS
<1>2. /\ DOMAIN more = 1..(n + 1) /\ more[n + 1] = lsn
      /\ \A i \in 1..n : more[i] = recs[i]
  BY <1>1
<1>3. \A i \in 1..n : /\ recs[i] = recs[1] + i - 1 /\ recs[i] \in from..to
                     /\ recs[i] \notin Gaps /\ ft[recs[i]] = "pending"
  BY Zenon, <1>1 DEF Batch
<1>4. recs[1] \in Nat /\ recs[n] = recs[1] + n - 1 /\ lsn = recs[n] + 1
  BY SMTT(30), <1>1, <1>3
<1>5. lsn = recs[1] + n
  BY SMTT(30), <1>1, <1>4
<1> HIDE DEF more
<1>6. Batch(more, from, lsn, ft)
  <2> SUFFICES ASSUME NEW i \in 1..(n + 1)
               PROVE  /\ more[i] = more[1] + i - 1 /\ more[i] \in from..lsn
                      /\ more[i] \notin Gaps /\ ft[more[i]] = "pending"
    BY Zenon, <1>2 DEF Batch
  <2>1. more[1] = recs[1]
    BY <1>1, <1>2
  <2>2. CASE i = n + 1
    <3>1. more[i] = lsn
      BY Zenon, <1>2, <2>2
    <3>2. more[i] = more[1] + i - 1
      <4>1. more[1] + i - 1 = recs[1] + n
        BY <1>1, <1>4, <2>1, <2>2
      <4> QED
        BY <1>5, <3>1, <4>1, Zenon
    <3>3. lsn \in from..lsn
      OBVIOUS
    <3> QED
      BY Zenon, <3>1, <3>2, <3>3
  <2>3. CASE i \in 1..n
    <3>1. more[i] = recs[i] /\ recs[i] \in from..lsn
      BY <1>1, <1>2, <1>3, <2>3
    <3> QED
      BY Zenon, <1>3, <2>1, <2>3, <3>1
  <2> QED
    BY <1>1, <2>2, <2>3
<1>7. Range(recs) \subseteq Range(more) /\ lsn \in Range(more)
  <2>1. \A i \in 1..n : i \in DOMAIN more /\ more[i] = recs[i]
    BY <1>1, <1>2
  <2>2. n + 1 \in DOMAIN more
    BY <1>1, <1>2
  <2> QED
    BY <1>1, <1>2, <2>1, <2>2, Zenon DEF Range
<1>8. Filled(more, from, lsn, ft)
  <2> SUFFICES ASSUME NEW l \in from..lsn
               PROVE  l \in Gaps \/ l \in Range(more) \/ ft[l] # "pending"
    BY Zenon DEF Filled
  <2>1. l \in from..to \/ l \in (to + 1)..(lsn - 1) \/ l = lsn
    OBVIOUS
  <2> QED
    BY Zenon, <1>7, <2>1 DEF Filled
<1> QED
  BY Zenon, <1>6, <1>8 DEF more

\* A record that follows the batch's last one joins it.
LEMMA Extends ==
  ASSUME Inv, NEW lsn \in Nat, f.to < lsn, lsn <= MaxLSN, lsn \notin Gaps,
         f.recs # <<>>, lsn = f.recs[Len(f.recs)] + 1,
         \A l \in (f.to + 1)..(lsn - 1) : l \in Gaps,
         UNCHANGED <<dl, acked, fate, failed, abort>>,
         f'.from = f.from, f'.to = lsn, f'.recs = Append(f.recs, lsn)
  PROVE  Ranges'
<1>0. /\ MaxLSN \in Nat /\ f.from \in Nat /\ f.to \in Nat /\ 1 <= f.from /\ f.from <= f.to + 1
      /\ f.recs \in Seq(Nat)
  BY Zenon, InLog
<1>1. fate[lsn] = "pending"
  BY SMTT(30), <1>0 DEF Inv, Mine
<1>2. Batch(f.recs, f.from, f.to, fate) /\ Filled(f.recs, f.from, f.to, fate)
  BY Zenon DEF Inv, Mine
<1>3. Batch(f'.recs, f.from, lsn, fate) /\ Filled(f'.recs, f.from, lsn, fate)
  BY Zenon, <1>0, <1>1, <1>2, Joined
<1>4. \A l \in 1..MaxLSN : l > lsn => fate[l] = "pending"
  BY <1>0 DEF Inv, Mine
<1>5. Mine'
  BY Zenon, <1>3, <1>4 DEF Mine
<1>6. Acks'
  BY SMTT(30), <1>0 DEF Inv, Acks
<1>7. Theirs' /\ Apart' /\ Cover'
  BY Zenon DEF Inv, Theirs, Apart, Cover
<1> QED
  BY Zenon, <1>5, <1>6, <1>7 DEF Ranges

\* The flusher's range goes to a free slot (dispatch).
LEMMA Dispatches ==
  ASSUME Inv, NEW s \in Slots, FDispatch(s)
  PROVE  Ranges'
<1>0. /\ f.from \in Nat /\ f.to \in Nat /\ 1 <= f.from /\ f.from <= f.to + 1
      /\ f \in FlusherType /\ dl \in [Slots -> DeliveryType] /\ failed \in BOOLEAN
  BY Zenon, InLog DEF Inv, Types
<1>1. f'.from = f.to + 1 /\ f'.to = f.to /\ f'.recs = <<>>
  BY Zenon, <1>0 DEF FDispatch, FlusherType
<1>2. /\ dl'[s].pc = "try" /\ dl'[s].recs = f.recs /\ dl'[s].from = f.from /\ dl'[s].to = f.to
      /\ \A t \in Slots \ {s} : dl'[t] = dl[t]
  BY Zenon, <1>0 DEF FDispatch, Idle
<1>3. dl[s].pc = "idle" /\ UNCHANGED <<acked, fate, abort>>
  BY Zenon DEF FDispatch, ending
<1>4. failed => failed'
  BY Zenon DEF FDispatch
<1>5. Mine'
  BY <1>0, <1>1, <1>3 DEF Inv, Mine, Batch, Filled
<1>6. Acks'
  BY Zenon, <1>1, <1>3 DEF Inv, Acks
<1>7. Theirs'
  <2>1. ASSUME NEW t \in Slots \ {s}, dl[t].pc # "idle" PROVE dl[t].to < f'.from
    BY <1>0, <1>1, <2>1, InLog DEF Inv, Theirs
  <2> QED
    BY <1>0, <1>1, <1>2, <1>3, <2>1 DEF Inv, Theirs, Mine
<1>8. Apart'
  <2>1. ASSUME NEW t \in Slots \ {s}, dl[t].pc # "idle" PROVE dl[t].to < f.from
    BY Zenon, <2>1 DEF Inv, Theirs
  <2> QED
    BY <1>2, <2>1 DEF Inv, Apart
<1>9. Cover'
  <2> SUFFICES ASSUME ~failed', ~abort', NEW l \in 1..(f'.from - 1)
               PROVE  l \in acked' \/ \E t \in Slots : dl'[t].pc # "idle" /\ l \in dl'[t].from..dl'[t].to
    BY Zenon DEF Cover
  <2>1. CASE l < f.from
    <3>1. l \in acked \/ \E t \in Slots : dl[t].pc # "idle" /\ l \in dl[t].from..dl[t].to
      BY <1>0, <1>3, <1>4, <2>1 DEF Inv, Cover
    <3> QED
      BY Zenon, <1>2, <1>3, <3>1
  <2>2. CASE l >= f.from
    BY <1>0, <1>1, <1>2, <2>2
  <2> QED
    BY <1>0, <1>1, <2>1, <2>2
<1> QED
  BY Zenon, <1>5, <1>6, <1>7, <1>8, <1>9 DEF Ranges

\* A delivery goes on with its batch.
LEMMA Carries ==
  ASSUME Inv, NEW s \in Slots, dl[s].pc # "idle",
         dl'[s].pc # "idle", dl'[s].recs = dl[s].recs, dl'[s].from = dl[s].from, dl'[s].to = dl[s].to,
         \A t \in Slots \ {s} : dl'[t] = dl[t],
         UNCHANGED <<f, acked, fate, abort>>, failed => failed'
  PROVE  Ranges'
<1>1. Mine' /\ Acks'
  BY Zenon DEF Inv, Mine, Acks
<1>2. Theirs' /\ Apart'
  BY DEF Inv, Theirs, Apart
<1>3. Cover'
  <2> SUFFICES ASSUME ~failed', ~abort', NEW l \in 1..(f.from - 1)
               PROVE  l \in acked \/ \E t \in Slots : dl'[t].pc # "idle" /\ l \in dl'[t].from..dl'[t].to
    BY Zenon DEF Cover
  <2>1. l \in acked \/ \E t \in Slots : dl[t].pc # "idle" /\ l \in dl[t].from..dl[t].to
    BY Zenon DEF Inv, Cover
  <2> QED
    BY Zenon, <2>1
<1> QED
  BY Zenon, <1>1, <1>2, <1>3 DEF Ranges

\* A delivery leaves its range unacknowledged: the buffer has failed or Close aborts.
LEMMA Abandons ==
  ASSUME Inv, NEW s \in Slots, Abandon(s), UNCHANGED f, failed' \/ abort'
  PROVE  Ranges'
<1>1. UNCHANGED <<acked, fate>>
  BY Zenon DEF Abandon, NotComplete
<1>2. dl'[s].pc = "idle" /\ \A t \in Slots \ {s} : dl'[t] = dl[t]
  BY Zenon DEF Inv, Types, Abandon, Idle
<1>3. Mine' /\ Acks'
  BY Zenon, <1>1 DEF Inv, Mine, Acks
<1>4. Theirs' /\ Apart'
  BY Zenon, <1>1, <1>2 DEF Inv, Theirs, Apart
<1>5. Cover'
  BY Zenon DEF Cover
<1> QED
  BY Zenon, <1>3, <1>4, <1>5 DEF Ranges

\* The fates a delivery settles: those of its own batch, which were pending.
LEMMA Settles ==
  ASSUME Inv, NEW s \in Slots, dl[s].pc # "idle",
         NEW what \in {"sunk", "dead", "dropped"}, Become(Range(dl[s].recs), what)
  PROVE  /\ Range(dl[s].recs) \subseteq dl[s].from..dl[s].to
         /\ \A l \in Range(dl[s].recs) : fate[l] = "pending"
         /\ \A l \in 1..MaxLSN : fate'[l] = IF l \in Range(dl[s].recs) THEN what ELSE fate[l]
         /\ fate' \in [1..MaxLSN -> Fates]
<1>1. Batch(dl[s].recs, dl[s].from, dl[s].to, fate)
  BY Zenon DEF Inv, Theirs
<1>2. Range(dl[s].recs) \subseteq dl[s].from..dl[s].to /\ \A l \in Range(dl[s].recs) : fate[l] = "pending"
  BY Zenon, <1>1 DEF Batch, Range
<1>3. \A l \in 1..MaxLSN : fate'[l] = IF l \in Range(dl[s].recs) THEN what ELSE fate[l]
  BY Zenon DEF Become
<1>4. fate' \in [1..MaxLSN -> Fates]
  BY Zenon DEF Become, Inv, Types, Fates
<1> QED
  BY Zenon, <1>2, <1>3, <1>4

\* A delivery resolves its batch and acknowledges its range (completeRange).
LEMMA Resolves ==
  ASSUME Inv, NEW s \in Slots, dl[s].pc # "idle",
         NEW what \in {"sunk", "dead", "dropped"}, Resolve(s, what),
         UNCHANGED f, UNCHANGED abort, failed => failed'
  PROVE  Ranges'
<1>0. /\ MaxLSN \in Nat /\ f.from \in Nat /\ f.to \in Nat /\ 1 <= f.from /\ f.from <= f.to + 1
      /\ f.to <= MaxLSN /\ \A t \in Slots : dl[t].from \in Nat /\ dl[t].to \in Nat
  BY InLog
<1>1. acked' = acked \cup dl[s].from..dl[s].to
  BY Zenon DEF Resolve, complete
<1>2. dl'[s].pc = "idle" /\ \A t \in Slots \ {s} : dl'[t] = dl[t]
  BY Zenon DEF Inv, Types, Resolve, Idle
<1>3. 1 <= dl[s].from /\ dl[s].to < f.from
  BY Zenon DEF Inv, Theirs
<1>4. /\ \A l \in 1..MaxLSN : l \notin dl[s].from..dl[s].to => fate'[l] = fate[l]
      /\ \A l \in 1..MaxLSN : fate[l] # "pending" => fate'[l] # "pending"
      /\ \A l \in dl[s].from..dl[s].to : l \in Gaps \/ fate'[l] # "pending"
  <2>1. /\ Range(dl[s].recs) \subseteq dl[s].from..dl[s].to
        /\ \A l \in 1..MaxLSN : fate'[l] = IF l \in Range(dl[s].recs) THEN what ELSE fate[l]
    BY Zenon, Settles DEF Resolve
  <2>2. Filled(dl[s].recs, dl[s].from, dl[s].to, fate)
    BY Zenon DEF Inv, Theirs
  <2>3. \A l \in dl[s].from..dl[s].to : l \in 1..MaxLSN
    BY <1>0, <1>3
  <2> QED
    BY Zenon, <2>1, <2>2, <2>3 DEF Filled
<1>5. Mine'
  <2>1. \A l \in f.from..f.to : fate'[l] = fate[l]
    <3> SUFFICES ASSUME NEW l \in f.from..f.to PROVE fate'[l] = fate[l]
      BY Zenon
    <3>1. l \in 1..MaxLSN /\ l \notin dl[s].from..dl[s].to
      BY <1>0, <1>3
    <3> QED
      BY Zenon, <1>4, <3>1
  <2>2. \A l \in 1..MaxLSN : l > f.to => fate'[l] = "pending"
    <3> SUFFICES ASSUME NEW l \in 1..MaxLSN, l > f.to PROVE fate'[l] = "pending"
      BY Zenon
    <3>1. l \notin dl[s].from..dl[s].to
      BY <1>0, <1>3
    <3> QED
      BY Zenon, <1>4, <3>1 DEF Inv, Mine
  <2>3. Batch(f.recs, f.from, f.to, fate') /\ Filled(f.recs, f.from, f.to, fate')
    BY Zenon, <2>1 DEF Inv, Mine, Batch, Filled
  <2> QED
    BY Zenon, <2>2, <2>3 DEF Mine
<1>6. Acks'
  <2> SUFFICES ASSUME NEW l \in acked' PROVE l \in 1..f.to /\ (l \in Gaps \/ fate'[l] # "pending")
    BY Zenon DEF Acks
  <2>1. CASE l \in acked
    <3>1. l \in 1..f.to /\ (l \in Gaps \/ fate[l] # "pending")
      BY Zenon, <2>1 DEF Inv, Acks
    <3>2. l \in 1..MaxLSN
      BY <1>0, <3>1
    <3> QED
      BY Zenon, <1>4, <3>1, <3>2
  <2>2. CASE l \in dl[s].from..dl[s].to
    BY <1>0, <1>3, <1>4, <2>2
  <2> QED
    BY Zenon, <1>1, <2>1, <2>2
<1>7. Theirs'
  <2> SUFFICES ASSUME NEW t \in Slots \ {s}, dl[t].pc # "idle"
               PROVE  /\ Batch(dl[t].recs, dl[t].from, dl[t].to, fate')
                      /\ Filled(dl[t].recs, dl[t].from, dl[t].to, fate')
    BY Zenon, <1>2 DEF Inv, Theirs
  <2>1. /\ 1 <= dl[t].from /\ dl[t].to < f.from
        /\ Batch(dl[t].recs, dl[t].from, dl[t].to, fate)
        /\ Filled(dl[t].recs, dl[t].from, dl[t].to, fate)
    BY Zenon DEF Inv, Theirs
  <2>2. dl[s].to < dl[t].from \/ dl[t].to < dl[s].from
    BY Zenon DEF Inv, Apart
  <2>3. \A l \in dl[t].from..dl[t].to : fate'[l] = fate[l]
    <3> SUFFICES ASSUME NEW l \in dl[t].from..dl[t].to PROVE fate'[l] = fate[l]
      BY Zenon
    <3>1. l \in 1..MaxLSN /\ l \notin dl[s].from..dl[s].to
      BY <1>0, <1>3, <2>1, <2>2
    <3> QED
      BY Zenon, <1>4, <3>1
  <2> QED
    BY Zenon, <2>1, <2>3 DEF Batch, Filled
<1>8. Apart'
  BY <1>2 DEF Inv, Apart
<1>9. Cover'
  <2> SUFFICES ASSUME ~failed', ~abort', NEW l \in 1..(f.from - 1)
               PROVE  l \in acked' \/ \E t \in Slots : dl'[t].pc # "idle" /\ l \in dl'[t].from..dl'[t].to
    BY Zenon DEF Cover
  <2>1. l \in acked \/ \E t \in Slots : dl[t].pc # "idle" /\ l \in dl[t].from..dl[t].to
    BY Zenon DEF Inv, Cover
  <2> QED
    BY Zenon, <1>1, <1>2, <2>1
<1> QED
  BY Zenon, <1>5, <1>6, <1>7, <1>8, <1>9 DEF Ranges

-----------------------------------------------------------------------------
(* The steps. *)

\* A step of the flusher that leaves its range and its batch alone.
LEMMA Passes ==
  ASSUME Inv, f.pc # "done", f' \in FlusherType, failed' \in BOOLEAN, forceFlush' \in BOOLEAN,
         UNCHANGED <<durable, dl, acked, fate, close, abort, cancelled>>,
         f'.pos = f.pos, f'.recs = f.recs, f'.from = f.from, f'.to = f.to, f'.cut = f.cut,
         f'.stop = f.stop, f'.held = f.held, failed => failed',
         f.stop # 0 => f'.pc \in {"decide", "dispatch", "done"},
         f.held # 0 /\ ~f.cut => f'.pc \in {"top", "done"},
         f'.draining => close \notin {"open", "sealed"},
         f'.pc = "decide" /\ f'.draining /\ f.recs = <<>> /\ f.stop = 0 => Unread = {},
         f'.pc = "done" => failed' \/ abort \/ (f'.draining /\ durable < f.from)
  PROVE  Inv'
<1>1. Ranges'
  BY Zenon, Still
<1>2. Types'
  BY Zenon DEF Inv, Types
<1>3. Bounds'
  BY Zenon DEF Inv, Bounds
<1>4. Unread' = Unread
  BY Zenon DEF Unread, Records
<1>5. Ending'
  BY Zenon, <1>4 DEF Inv, Ending
<1> QED
  BY Zenon, <1>1, <1>2, <1>3, <1>5 DEF Inv, Ranges

\* The steps at the top of the loop and in its select.
LEMMA TopAndSelect ==
  ASSUME Inv, FTopFailed \/ FTop \/ Select
  PROVE  Inv'
<1>0. f \in FlusherType /\ failed \in BOOLEAN /\ forceFlush \in BOOLEAN
  BY Zenon DEF Inv, Types
<1> DEFINE Kept == /\ f'.pos = f.pos /\ f'.recs = f.recs /\ f'.from = f.from /\ f'.to = f.to
                   /\ f'.cut = f.cut /\ f'.stop = f.stop /\ f'.held = f.held
           Else == UNCHANGED <<durable, dl, acked, fate, close, abort, cancelled, failed, forceFlush>>
<1>1. CASE FTopFailed
  <2>1. f' \in FlusherType /\ Kept /\ f'.pc = "done" /\ f'.draining = f.draining
    BY Zenon, <1>0, <1>1 DEF FTopFailed, FlusherType
  <2>2. Else /\ failed /\ f.pc = "top"
    BY Zenon, <1>1 DEF FTopFailed, buffer, ending
  <2> QED
    BY Zenon, <1>0, <2>1, <2>2, Passes DEF Inv, Ending
<1>2. CASE FTop
  <2>1. f' \in FlusherType /\ Kept /\ f'.pc = "read" /\ f'.draining = f.draining
    BY Zenon, <1>0, <1>2 DEF FTop, FlusherType
  <2>2. Else /\ f.pc = "top" /\ (f.held = 0 \/ f.recs # <<>>)
    BY Zenon, <1>2 DEF FTop, buffer, ending
  <2>3. f.stop = 0 /\ (f.held # 0 => f.cut)
    BY Zenon, <2>2 DEF Inv, Bounds
  <2> QED
    BY Zenon, <1>0, <2>1, <2>2, <2>3, Passes DEF Inv, Ending
<1>3. CASE FWoken \/ FTicked
  <2>1. f' \in FlusherType /\ Kept /\ f'.pc = "top" /\ f'.draining = f.draining
    BY ZenonT(30), <1>0, <1>3 DEF FWoken, FTicked, FlusherType
  <2>2. Else /\ f.pc = "select"
    BY Zenon, <1>3 DEF FWoken, FTicked, buffer, ending
  <2>3. f.stop = 0
    BY Zenon, <2>2 DEF Inv, Bounds
  <2> QED
    BY Zenon, <1>0, <2>1, <2>2, <2>3, Passes DEF Inv, Ending
<1>4. CASE FDrainNow
  <2>1. f' \in FlusherType /\ Kept /\ f'.pc = "top"
    BY Zenon, <1>0, <1>4 DEF FDrainNow, FlusherType
  <2>2. Else /\ f.pc = "select" /\ close \notin {"open", "sealed"}
    BY Zenon, <1>4 DEF FDrainNow, buffer, ending
  <2>3. f.stop = 0
    BY Zenon, <2>2 DEF Inv, Bounds
  <2> QED
    BY Zenon, <1>0, <2>1, <2>2, <2>3, Passes
<1>5. CASE FAborted
  <2>1. f' \in FlusherType /\ Kept /\ f'.pc = "done" /\ f'.draining = f.draining
    BY Zenon, <1>0, <1>5 DEF FAborted, FlusherType
  <2>2. Else /\ f.pc = "select" /\ abort
    BY Zenon, <1>5 DEF FAborted, buffer, ending
  <2> QED
    BY Zenon, <1>0, <2>1, <2>2, Passes DEF Inv, Ending
<1> QED
  BY Zenon, <1>1, <1>2, <1>3, <1>4, <1>5 DEF Select

\* The record held back opens the next batch.
LEMMA HeldOpens ==
  ASSUME Inv, FTopHeld
  PROVE  Inv'
<1>0. /\ f \in FlusherType /\ MaxLSN \in Nat /\ durable \in Nat /\ durable <= MaxLSN
      /\ f.to \in Nat /\ f.pos \in Nat /\ f.held \in Nat /\ f.stop \in Nat /\ f.from \in Nat
      /\ f.from <= f.to + 1 /\ f.pos <= durable + 1 /\ 1 <= f.from
  BY Zenon, InLog DEF Inv, Types
<1>1. /\ f.pc = "top" /\ f.held # 0 /\ f.recs = <<>> /\ startBatch(f.held)
      /\ UNCHANGED <<durable, dl, fate, failed, forceFlush, close, abort, cancelled>>
  BY Zenon DEF FTopHeld, buffer, ending
<1>2. f.held = f.pos - 1 /\ f.to < f.held /\ f.stop = 0 /\ ~f.cut /\ f.held \notin Gaps
  BY Zenon, <1>1 DEF Inv, Bounds
<1>3. \A l \in (f.to + 1)..(f.held - 1) : l \in Gaps
  BY <1>0, <1>2 DEF Inv, Bounds
<1>4. /\ f' \in FlusherType /\ f'.pc = "read" /\ f'.pos = f.pos /\ f'.recs = <<f.held>>
      /\ f'.from = f.held /\ f'.to = f.held /\ f'.cut = f.cut /\ f'.draining = f.draining
      /\ f'.stop = f.stop /\ f'.held = 0
  <2>1. Opened(f.held) \in FlusherType
    <3>1. <<f.held>> \in Seq(Nat) /\ (IF f.held > f.from THEN 0 ELSE f.skip) \in Nat
      BY <1>0 DEF FlusherType
    <3> QED
      BY Zenon, <1>0, <3>1 DEF Opened, FlusherType
  <2>2. /\ Opened(f.held).pos = f.pos /\ Opened(f.held).recs = <<f.held>>
        /\ Opened(f.held).from = f.held /\ Opened(f.held).to = f.held /\ Opened(f.held).cut = f.cut
        /\ Opened(f.held).draining = f.draining /\ Opened(f.held).stop = f.stop
    BY Zenon, <1>0 DEF Opened, FlusherType
  <2>3. f' = [Opened(f.held) EXCEPT !.pc = "read", !.held = 0]
    BY Zenon DEF FTopHeld
  <2> HIDE DEF Opened
  <2> QED
    BY Zenon, <2>1, <2>2, <2>3 DEF FlusherType
<1>5. Ranges'
  BY <1>0, <1>1, <1>2, <1>3, <1>4, Opens
<1>6. Types'
  BY Zenon, <1>1, <1>4 DEF Inv, Types
<1>7. Bounds'
  BY <1>0, <1>1, <1>2, <1>4 DEF Bounds
<1>8. Ending'
  BY Zenon, <1>1, <1>4 DEF Inv, Ending
<1> QED
  BY Zenon, <1>5, <1>6, <1>7, <1>8 DEF Inv, Ranges

\* Reading fails, or ends.
LEMMA ReadEnds ==
  ASSUME Inv, FReadFails \/ FReadEnd
  PROVE  Inv'
<1>0. f \in FlusherType /\ failed \in BOOLEAN /\ forceFlush \in BOOLEAN
  BY Zenon DEF Inv, Types
<1> DEFINE Kept == /\ f'.pos = f.pos /\ f'.recs = f.recs /\ f'.from = f.from /\ f'.to = f.to
                   /\ f'.cut = f.cut /\ f'.stop = f.stop /\ f'.held = f.held
           Else == UNCHANGED <<durable, dl, acked, fate, close, abort, cancelled, forceFlush>>
<1>1. CASE FReadFails
  <2>1. f' \in FlusherType /\ Kept /\ f'.pc = "done" /\ f'.draining = f.draining
    BY Zenon, <1>0, <1>1 DEF FReadFails, FlusherType
  <2>2. Else /\ failed' = TRUE /\ f.pc = "read"
    BY Zenon, <1>1 DEF FReadFails, Filling, ending
  <2> QED
    BY Zenon, <1>0, <2>1, <2>2, Passes DEF Inv, Ending
<1>2. CASE FReadEnd
  <2>1. f' \in FlusherType /\ Kept /\ f'.pc = "decide" /\ f'.draining = f.draining
    BY Zenon, <1>0, <1>2 DEF FReadEnd, FlusherType
  <2>2. Else /\ UNCHANGED failed /\ f.pc = "read" /\ (f.cut \/ Full \/ Unread = {})
    BY Zenon, <1>2 DEF FReadEnd, buffer, ending
  <2>3. f.recs = <<>> => Unread = {}
    <3>1. f.recs = <<>> => ~Full
      BY PipelineAssumption DEF Full
    <3> QED
      BY Zenon, <2>2, <3>1 DEF Inv, Bounds
  <2>4. f.held # 0 => f.cut
    BY Zenon, <2>2 DEF Inv, Bounds
  <2> QED
    BY Zenon, <1>0, <2>1, <2>2, <2>3, <2>4, Passes DEF Inv, Ending
<1> QED
  BY Zenon, <1>1, <1>2

\* What the flusher knows of the record it has just read.
LEMMA JustRead ==
  ASSUME Inv, Filling, Unread # {}
  PROVE  /\ f \in FlusherType /\ MaxLSN \in Nat /\ durable \in Nat /\ durable <= MaxLSN
         /\ f.to \in Nat /\ f.pos \in Nat /\ f.from \in Nat
         /\ f.from <= f.to + 1 /\ f.to < f.pos /\ f.pos <= durable + 1 /\ 1 <= f.from
         /\ Next1 \in Nat /\ Next1 <= durable /\ Next1 \notin Gaps /\ f.to < Next1
         /\ \A l \in (f.to + 1)..(Next1 - 1) : l \in Gaps
         /\ f.held = 0 /\ f.stop = 0 /\ f.pc = "read" /\ ~f.cut
<1>0. /\ f \in FlusherType /\ MaxLSN \in Nat /\ durable \in Nat /\ durable <= MaxLSN
      /\ f.to \in Nat /\ f.pos \in Nat /\ f.from \in Nat
      /\ f.from <= f.to + 1 /\ f.to < f.pos /\ f.pos <= durable + 1 /\ 1 <= f.from
  BY Zenon, InLog DEF Inv, Types
<1>1. f.pc = "read" /\ ~f.cut
  BY Zenon DEF Filling
<1>2. /\ Next1 \in 1..durable /\ Next1 \notin Gaps /\ f.pos <= Next1
      /\ \A l \in f.pos..(Next1 - 1) : l \in Gaps
  BY Zenon, NextRecord
<1>3. f.held = 0 /\ f.stop = 0
  BY Zenon, <1>1 DEF Inv, Bounds
<1>4. \A l \in (f.to + 1)..(f.pos - 1) : l \in Gaps
  <2>1. \A l \in (f.to + 1)..(f.pos - 1) : l \in Gaps \/ l = f.held \/ l = f.stop
    BY Zenon DEF Inv, Bounds
  <2> QED
    BY <1>0, <1>3, <2>1
<1>5. \A l \in (f.to + 1)..(Next1 - 1) : l \in Gaps
  <2> SUFFICES ASSUME NEW l \in (f.to + 1)..(Next1 - 1) PROVE l \in Gaps
    BY Zenon
  <2>1. l \in (f.to + 1)..(f.pos - 1) \/ l \in f.pos..(Next1 - 1)
    BY <1>0, <1>2
  <2> QED
    BY Zenon, <1>2, <1>4, <2>1
<1>6. Next1 \in Nat /\ f.to < Next1 /\ Next1 <= durable
  BY <1>0, <1>2
<1> QED
  BY Zenon, <1>0, <1>1, <1>2, <1>3, <1>5, <1>6

\* A record is skipped, or stops the flusher.
LEMMA ReadDrops ==
  ASSUME Inv, FReadSkip \/ FReadStop
  PROVE  Inv'
<1>1. /\ Unread # {} /\ Filling
      /\ UNCHANGED <<durable, dl, acked, failed, forceFlush, close, abort, cancelled>>
  BY Zenon DEF FReadSkip, FReadStop, buffer, ending
<1>0. /\ f \in FlusherType /\ MaxLSN \in Nat /\ durable \in Nat /\ durable <= MaxLSN
      /\ f.to \in Nat /\ f.pos \in Nat /\ f.from \in Nat
      /\ f.from <= f.to + 1 /\ 1 <= f.from
  BY Zenon, <1>1, JustRead
<1>3. f.held = 0 /\ f.stop = 0 /\ f.pc = "read" /\ ~f.cut
  BY Zenon, <1>1, JustRead
<1>5. \A l \in (f.to + 1)..(Next1 - 1) : l \in Gaps
  BY Zenon, <1>1, JustRead
<1>6. Next1 \in Nat /\ f.to < Next1 /\ Next1 <= durable /\ Next1 <= MaxLSN
  BY <1>0, <1>1, JustRead
<1>7. CASE FReadSkip
  <2>1. /\ f' \in FlusherType /\ f'.pc = f.pc /\ f'.pos = Next1 + 1 /\ f'.recs = f.recs
        /\ f'.from = f.from /\ f'.to = Next1 /\ f'.cut = (f.recs # <<>>)
        /\ f'.draining = f.draining /\ f'.stop = f.stop /\ f'.held = f.held
    <3>1. PICK b \in BOOLEAN : b = (f.recs # <<>>)
      BY Zenon
    <3>2. f' = [f EXCEPT !.pos = Next1 + 1, !.to = Next1, !.skip = f.skip + 1, !.cut = b]
      BY Zenon, <1>7, <3>1 DEF FReadSkip
    <3>3. Next1 + 1 \in Nat /\ f.skip + 1 \in Nat
      BY <1>0, <1>6 DEF FlusherType
    <3>4. /\ f' \in FlusherType /\ f'.pc = f.pc /\ f'.pos = Next1 + 1 /\ f'.recs = f.recs
          /\ f'.from = f.from /\ f'.to = Next1 /\ f'.cut = b
          /\ f'.draining = f.draining /\ f'.stop = f.stop /\ f'.held = f.held
      BY Zenon, <1>0, <1>6, <3>2, <3>3 DEF FlusherType
    <3> QED
      BY Zenon, <3>1, <3>4
  <2>2. Become({Next1}, "dropped")
    BY Zenon, <1>7 DEF FReadSkip
  <2>3. Ranges'
    BY Zenon, <1>1, <1>5, <1>6, <2>1, <2>2, Drops1
  <2>4. fate' \in [1..MaxLSN -> Fates]
    BY Zenon, <2>2 DEF Become, Inv, Types, Fates
  <2>5. Types'
    BY Zenon, <1>1, <2>1, <2>4 DEF Inv, Types
  <2>6. Bounds'
    <3>1. f'.cut => f'.recs # <<>>
      BY Zenon, <2>1
    <3>2. \A l \in (f'.to + 1)..(f'.pos - 1) : l \in Gaps \/ l = f'.held \/ l = f'.stop
      BY <1>6, <2>1
    <3>3. /\ 1 <= f'.from /\ f'.from <= f'.to + 1 /\ f'.to < f'.pos /\ f'.pos <= durable' + 1
          /\ f'.held = 0 /\ f'.stop = 0
      BY <1>0, <1>1, <1>3, <1>6, <2>1
    <3> QED
      BY Zenon, <3>1, <3>2, <3>3 DEF Bounds
  <2>7. Ending'
    BY Zenon, <1>1, <1>3, <2>1 DEF Inv, Ending
  <2> QED
    BY Zenon, <2>3, <2>5, <2>6, <2>7 DEF Inv, Ranges
<1>8. CASE FReadStop
  <2>1. /\ f' \in FlusherType /\ f'.pc = "decide" /\ f'.pos = Next1 + 1 /\ f'.recs = f.recs
        /\ f'.from = f.from /\ f'.to = f.to /\ f'.cut = f.cut
        /\ f'.draining = f.draining /\ f'.stop = Next1 /\ f'.held = f.held
    <3>1. f' = [f EXCEPT !.pos = Next1 + 1, !.stop = Next1, !.pc = "decide"]
      BY Zenon, <1>8 DEF FReadStop
    <3>2. Next1 + 1 \in Nat
      BY <1>6
    <3> QED
      BY Zenon, <1>0, <1>6, <3>1, <3>2 DEF FlusherType
  <2>2. UNCHANGED fate
    BY Zenon, <1>8 DEF FReadStop
  <2>3. Ranges'
    BY Zenon, <1>1, <2>1, <2>2, Still
  <2>4. Types'
    BY Zenon, <1>1, <2>1, <2>2 DEF Inv, Types
  <2>5. Bounds'
    <3>1. \A l \in (f'.to + 1)..(f'.pos - 1) : l \in Gaps \/ l = f'.held \/ l = f'.stop
      BY <1>0, <1>5, <1>6, <2>1
    <3> QED
      BY <1>0, <1>1, <1>3, <1>6, <2>1, <3>1 DEF Bounds
  <2>6. Ending'
    <3>1. f'.stop # 0 /\ f'.pc = "decide" /\ f'.draining = f.draining
      BY <1>0, <1>6, <2>1
    <3> QED
      BY Zenon, <1>1, <1>3, <3>1 DEF Inv, Ending
  <2> QED
    BY Zenon, <2>3, <2>4, <2>5, <2>6 DEF Inv, Ranges
<1> QED
  BY Zenon, <1>7, <1>8

\* A record opens the batch, extends it, or is held for the next one.
LEMMA ReadTakes ==
  ASSUME Inv, FReadTake
  PROVE  Inv'
<1>1. /\ Unread # {} /\ Filling
      /\ UNCHANGED <<durable, dl, fate, failed, forceFlush, close, abort, cancelled>>
  BY Zenon DEF FReadTake, buffer, ending
<1>0. /\ f \in FlusherType /\ MaxLSN \in Nat /\ durable \in Nat /\ durable <= MaxLSN
      /\ f.to \in Nat /\ f.pos \in Nat /\ f.from \in Nat
      /\ f.from <= f.to + 1 /\ 1 <= f.from
  BY Zenon, <1>1, JustRead
<1>2. f.held = 0 /\ f.stop = 0 /\ f.pc = "read" /\ ~f.cut
  BY Zenon, <1>1, JustRead
<1>3. \A l \in (f.to + 1)..(Next1 - 1) : l \in Gaps
  BY Zenon, <1>1, JustRead
<1>4. Next1 \in Nat /\ f.to < Next1 /\ Next1 <= durable /\ Next1 <= MaxLSN /\ Next1 \notin Gaps
  BY <1>0, <1>1, JustRead
<1>5. Next1 + 1 \in Nat
  BY <1>4
<1>6. CASE f.recs = <<>>
  <2>1. startBatch(Next1) /\ f' = [Opened(Next1) EXCEPT !.pos = Next1 + 1]
    BY Zenon, <1>6 DEF FReadTake
  <2>2. /\ f' \in FlusherType /\ f'.pc = f.pc /\ f'.pos = Next1 + 1 /\ f'.recs = <<Next1>>
        /\ f'.from = Next1 /\ f'.to = Next1 /\ f'.cut = f.cut /\ f'.draining = f.draining
        /\ f'.stop = f.stop /\ f'.held = f.held
    <3>1. <<Next1>> \in Seq(Nat) /\ (IF Next1 > f.from THEN 0 ELSE f.skip) \in Nat
      BY <1>0, <1>4 DEF FlusherType
    <3>2. /\ Opened(Next1) \in FlusherType
          /\ Opened(Next1).pc = f.pc /\ Opened(Next1).recs = <<Next1>>
          /\ Opened(Next1).from = Next1 /\ Opened(Next1).to = Next1 /\ Opened(Next1).cut = f.cut
          /\ Opened(Next1).draining = f.draining /\ Opened(Next1).stop = f.stop
          /\ Opened(Next1).held = f.held
      BY Zenon, <1>0, <1>4, <3>1 DEF Opened, FlusherType
    <3> HIDE DEF Opened
    <3> QED
      BY Zenon, <1>5, <2>1, <3>2 DEF FlusherType
  <2>3. Ranges'
    BY Zenon, <1>1, <1>3, <1>4, <1>6, <2>1, <2>2, Opens
  <2>4. Types'
    BY Zenon, <1>1, <2>2 DEF Inv, Types
  <2>5. Bounds'
    BY <1>0, <1>1, <1>2, <1>4, <2>2 DEF Bounds
  <2>6. Ending'
    <3>1. f'.pc = "read" /\ f'.draining = f.draining
      BY Zenon, <1>2, <2>2
    <3> QED
      BY Zenon, <1>1, <1>2, <3>1 DEF Inv, Ending
  <2> QED
    BY Zenon, <2>3, <2>4, <2>5, <2>6 DEF Inv, Ranges
<1>7. CASE f.recs # <<>> /\ Next1 = f.recs[Len(f.recs)] + 1
  <2>1. UNCHANGED acked /\ f' = [f EXCEPT !.pos = Next1 + 1, !.recs = Append(f.recs, Next1), !.to = Next1]
    BY Zenon, <1>7 DEF FReadTake, NotComplete
  <2>2. f.recs \in Seq(Nat) /\ Append(f.recs, Next1) \in Seq(Nat) /\ Append(f.recs, Next1) # <<>>
    BY <1>0, <1>4 DEF FlusherType
  <2>3. /\ f' \in FlusherType /\ f'.pc = f.pc /\ f'.pos = Next1 + 1 /\ f'.recs = Append(f.recs, Next1)
        /\ f'.from = f.from /\ f'.to = Next1 /\ f'.cut = f.cut /\ f'.draining = f.draining
        /\ f'.stop = f.stop /\ f'.held = f.held
    BY Zenon, <1>0, <1>4, <1>5, <2>1, <2>2 DEF FlusherType
  <2>4. Ranges'
    BY Zenon, <1>1, <1>3, <1>4, <1>7, <2>1, <2>3, Extends
  <2>5. Types'
    BY Zenon, <1>1, <2>3 DEF Inv, Types
  <2>6. Bounds'
    BY <1>0, <1>1, <1>2, <1>4, <2>3 DEF Bounds
  <2>7. Ending'
    BY Zenon, <1>1, <1>2, <2>3 DEF Inv, Ending
  <2> QED
    BY Zenon, <2>4, <2>5, <2>6, <2>7 DEF Inv, Ranges
<1>8. CASE f.recs # <<>> /\ Next1 # f.recs[Len(f.recs)] + 1
  <2>1. UNCHANGED acked /\ f' = [f EXCEPT !.pos = Next1 + 1, !.held = Next1, !.cut = TRUE]
    BY Zenon, <1>8 DEF FReadTake, NotComplete
  <2>2. /\ f' \in FlusherType /\ f'.pc = f.pc /\ f'.pos = Next1 + 1 /\ f'.recs = f.recs
        /\ f'.from = f.from /\ f'.to = f.to /\ f'.cut /\ f'.draining = f.draining
        /\ f'.stop = f.stop /\ f'.held = Next1
    BY Zenon, <1>0, <1>4, <1>5, <2>1 DEF FlusherType
  <2>3. Ranges'
    BY Zenon, <1>1, <2>1, <2>2, Still
  <2>4. Types'
    BY Zenon, <1>1, <2>2 DEF Inv, Types
  <2>5. Bounds'
    <3>1. \A l \in (f'.to + 1)..(f'.pos - 1) : l \in Gaps \/ l = f'.held \/ l = f'.stop
      BY <1>0, <1>3, <1>4, <2>2
    <3> QED
      BY SMTT(30), <1>0, <1>1, <1>2, <1>4, <1>8, <2>2, <3>1 DEF Bounds
  <2>6. Ending'
    BY Zenon, <1>1, <1>2, <2>2 DEF Inv, Ending
  <2> QED
    BY Zenon, <2>3, <2>4, <2>5, <2>6 DEF Inv, Ranges
<1> QED
  BY Zenon, <1>6, <1>7, <1>8

\* The end after StopBuffer.
LEMMA Stops ==
  ASSUME Inv, FStop
  PROVE  Inv'
<1>0. /\ f \in FlusherType /\ failed \in BOOLEAN /\ forceFlush \in BOOLEAN
      /\ f.pc = "decide" /\ f.stop # 0 /\ f.held = 0
  BY Zenon DEF FStop, Inv, Types, Bounds
<1>1. UNCHANGED <<durable, dl, fate, forceFlush, close, abort, cancelled>>
  BY Zenon DEF FStop, ending
<1>2. /\ f' \in FlusherType /\ f'.pos = f.pos /\ f'.recs = f.recs /\ f'.from = f.from /\ f'.to = f.to
      /\ f'.cut = f.cut /\ f'.stop = f.stop /\ f'.held = f.held /\ f'.draining = f.draining
      /\ f'.pc = IF f.recs # <<>> THEN "dispatch" ELSE "done"
  BY SMTT(30), <1>0 DEF FStop, FlusherType
<1>3. CASE f.recs # <<>>
  <2>1. UNCHANGED <<acked, failed>>
    BY Zenon, <1>3 DEF FStop, NotComplete
  <2> QED
    BY Zenon, <1>0, <1>1, <1>2, <1>3, <2>1, Passes DEF Inv, Ending
<1>4. CASE f.recs = <<>> /\ ~(f.to >= f.from)
  <2>1. UNCHANGED acked /\ failed' = TRUE
    BY Zenon, <1>4 DEF FStop, NotComplete
  <2> QED
    BY Zenon, <1>0, <1>1, <1>2, <1>4, <2>1, Passes DEF Inv, Ending
<1>5. CASE f.recs = <<>> /\ f.to >= f.from
  <2>1. complete(f.from, f.to) /\ failed' = TRUE
    BY Zenon, <1>5 DEF FStop
  <2>2. Ranges'
    BY Zenon, <1>1, <1>2, <1>5, <2>1, Skipped
  <2>3. Types'
    BY Zenon, <1>1, <1>2, <2>1 DEF Inv, Types
  <2>4. Bounds'
    BY Zenon, <1>0, <1>1, <1>2, <1>5 DEF Inv, Bounds
  <2>5. Ending'
    BY Zenon, <1>0, <1>1, <1>2, <1>5, <2>1 DEF Inv, Ending
  <2> QED
    BY Zenon, <2>2, <2>3, <2>4, <2>5 DEF Inv, Ranges
<1> QED
  BY Zenon, <1>3, <1>4, <1>5

\* A drain with nothing in hand and nothing unread has covered the log.
LEMMA NothingLeft ==
  ASSUME Inv, f.pc = "decide", f.stop = 0, f.recs = <<>>, f.draining, ~(f.to >= f.from)
  PROVE  durable < f.from
<1>0. /\ durable \in Nat /\ f.from \in Nat /\ f.to \in Nat /\ f.pos \in Nat
      /\ 1 <= f.from /\ f.from <= f.to + 1 /\ f.pos <= durable + 1
  BY Zenon, InLog
<1>1. f.held = 0 /\ \A l \in (f.to + 1)..(f.pos - 1) : l \in Gaps \/ l = f.held \/ l = f.stop
  BY Zenon DEF Inv, Bounds
<1>2. Unread = {} /\ (durable = 0 \/ durable \notin Gaps)
  BY Zenon DEF Inv, Ending
<1> SUFFICES ASSUME durable >= f.from PROVE FALSE
  BY <1>0
<1>3. durable \notin Gaps /\ durable > 0
  BY <1>0, <1>2
<1>4. durable < f.pos
  BY <1>0, <1>2, <1>3 DEF Unread, Records
<1>5. durable \in (f.to + 1)..(f.pos - 1)
  BY <1>0, <1>4
<1> QED
  BY <1>1, <1>3, <1>5

\* Dispatch, acknowledge a range that was all skipped, end, or wait.
LEMMA Decides ==
  ASSUME Inv, FDecide
  PROVE  Inv'
<1> DEFINE g == [f EXCEPT !.expired = @ \/ forceFlush]
<1>0. /\ f \in FlusherType /\ failed \in BOOLEAN /\ f.pc = "decide" /\ f.stop = 0
      /\ f.from \in Nat /\ f.to \in Nat
  BY Zenon DEF FDecide, Inv, Types, FlusherType
<1>1. UNCHANGED <<durable, dl, fate, failed, close, abort, cancelled>> /\ forceFlush' = FALSE
  BY Zenon DEF FDecide, ending
<1>2. /\ g \in FlusherType /\ g.pc = f.pc /\ g.pos = f.pos /\ g.recs = f.recs /\ g.from = f.from
      /\ g.to = f.to /\ g.cut = f.cut /\ g.stop = f.stop /\ g.held = f.held
      /\ g.draining = f.draining
  <2>1. PICK b \in BOOLEAN : b = (f.expired \/ forceFlush)
    BY Zenon
  <2>2. g = [f EXCEPT !.expired = b]
    BY Zenon, <2>1
  <2> HIDE DEF g
  <2> QED
    BY Zenon, <1>0, <2>2 DEF FlusherType
<1>3. \/ f.recs # <<>> /\ f' = [g EXCEPT !.pc = "dispatch"] /\ UNCHANGED acked
      \/ /\ f.recs = <<>> /\ f.to >= f.from /\ complete(f.from, f.to)
         /\ f' = [g EXCEPT !.pc = "top", !.from = g.to + 1, !.skip = 0, !.cut = FALSE]
      \/ /\ ~(f.recs = <<>> /\ f.to >= f.from) /\ UNCHANGED acked
         /\ f' = [g EXCEPT !.pc = IF g.draining /\ g.recs = <<>> THEN "done" ELSE "select"]
  <2>1. \/ g.recs # <<>> /\ f' = [g EXCEPT !.pc = "dispatch"] /\ NotComplete
        \/ /\ g.recs = <<>> /\ g.to >= g.from /\ complete(g.from, g.to)
           /\ f' = [g EXCEPT !.pc = "top", !.from = g.to + 1, !.skip = 0, !.cut = FALSE]
        \/ /\ ~(g.recs = <<>> /\ g.to >= g.from) /\ NotComplete
           /\ f' = [g EXCEPT !.pc = IF g.draining /\ g.recs = <<>> THEN "done" ELSE "select"]
    BY Zenon DEF FDecide
  <2> HIDE DEF g
  <2> QED
    BY Zenon, <1>2, <2>1 DEF NotComplete
<1> HIDE DEF g
<1>4. f.held # 0 => f.cut
  BY Zenon, <1>0 DEF Inv, Bounds
<1>5. CASE f.recs # <<>> /\ f' = [g EXCEPT !.pc = "dispatch"] /\ UNCHANGED acked
  <2>1. /\ f' \in FlusherType /\ f'.pc = "dispatch" /\ f'.pos = f.pos /\ f'.recs = f.recs
        /\ f'.from = f.from /\ f'.to = f.to /\ f'.cut = f.cut /\ f'.stop = f.stop
        /\ f'.held = f.held /\ f'.draining = f.draining
    BY Zenon, <1>2, <1>5 DEF FlusherType
  <2> QED
    BY Zenon, <1>0, <1>1, <1>4, <1>5, <2>1, Passes DEF Inv, Ending
<1>6. CASE /\ f.recs = <<>> /\ f.to >= f.from /\ complete(f.from, f.to)
           /\ f' = [g EXCEPT !.pc = "top", !.from = g.to + 1, !.skip = 0, !.cut = FALSE]
  <2>1. g.to + 1 \in Nat
    BY <1>0, <1>2
  <2>2. /\ f' \in FlusherType /\ f'.pc = "top" /\ f'.pos = f.pos /\ f'.recs = f.recs
        /\ f'.from = f.to + 1 /\ f'.to = f.to /\ ~f'.cut /\ f'.stop = f.stop
        /\ f'.held = f.held /\ f'.draining = f.draining
    BY Zenon, <1>2, <1>6, <2>1 DEF FlusherType
  <2>3. Ranges'
    BY Zenon, <1>1, <1>6, <2>2, Skipped
  <2>4. Types'
    BY Zenon, <1>1, <2>2 DEF Inv, Types
  <2>5. Bounds'
    BY <1>0, <1>1, <1>6, <2>2 DEF Inv, Bounds
  <2>6. Ending'
    BY Zenon, <1>0, <1>1, <2>2 DEF Inv, Ending
  <2> QED
    BY Zenon, <2>3, <2>4, <2>5, <2>6 DEF Inv, Ranges
<1>7. CASE /\ ~(f.recs = <<>> /\ f.to >= f.from) /\ UNCHANGED acked
           /\ f' = [g EXCEPT !.pc = IF g.draining /\ g.recs = <<>> THEN "done" ELSE "select"]
  <2>1. /\ f' \in FlusherType /\ f'.pc = (IF f.draining /\ f.recs = <<>> THEN "done" ELSE "select")
        /\ f'.pos = f.pos /\ f'.recs = f.recs /\ f'.from = f.from /\ f'.to = f.to /\ f'.cut = f.cut
        /\ f'.stop = f.stop /\ f'.held = f.held /\ f'.draining = f.draining
    BY Zenon, <1>2, <1>7 DEF FlusherType
  <2>2. f.draining /\ f.recs = <<>> => durable < f.from
    BY Zenon, <1>0, <1>7, NothingLeft
  <2>3. f'.draining => close \notin {"open", "sealed"}
    BY Zenon, <2>1 DEF Inv, Ending
  <2> QED
    <3>1. f'.pc \in {"done", "select"} /\ (f'.pc = "done" => f'.draining /\ durable < f.from)
      BY Zenon, <2>1, <2>2
    <3>2. f.held # 0 /\ ~f.cut => f'.pc \in {"top", "done"}
      BY Zenon, <1>4
    <3>3. forceFlush' \in BOOLEAN /\ failed' \in BOOLEAN /\ (failed => failed') /\ f.pc # "done"
      BY Zenon, <1>0, <1>1
    <3> QED
      BY Zenon, <1>0, <1>1, <1>7, <2>1, <2>3, <3>1, <3>2, <3>3, Passes
<1> QED
  BY Zenon, <1>3, <1>5, <1>6, <1>7

\* The batch goes to a slot, or Close aborts while the flusher waits for one.
LEMMA HandsOver ==
  ASSUME Inv, FDispatchAborted \/ \E s \in Slots : FDispatch(s)
  PROVE  Inv'
<1>0. f \in FlusherType /\ failed \in BOOLEAN /\ forceFlush \in BOOLEAN /\ dl \in [Slots -> DeliveryType]
  BY Zenon DEF Inv, Types
<1>1. CASE FDispatchAborted
  <2>1. /\ f' \in FlusherType /\ f'.pos = f.pos /\ f'.recs = f.recs /\ f'.from = f.from /\ f'.to = f.to
        /\ f'.cut = f.cut /\ f'.stop = f.stop /\ f'.held = f.held /\ f'.draining = f.draining
        /\ f'.pc = "done"
    BY Zenon, <1>0, <1>1 DEF FDispatchAborted, FlusherType
  <2>2. /\ UNCHANGED <<durable, dl, acked, fate, forceFlush, close, abort, cancelled>>
        /\ abort /\ f.pc = "dispatch"
    BY Zenon, <1>1 DEF FDispatchAborted, ending
  <2>3. failed' \in BOOLEAN /\ (failed => failed')
    BY Zenon, <1>1 DEF FDispatchAborted
  <2>4. f'.draining => close \notin {"open", "sealed"}
    BY Zenon, <2>1 DEF Inv, Ending
  <2> QED
    BY Zenon, <1>0, <2>1, <2>2, <2>3, <2>4, Passes
<1>2. ASSUME NEW s \in Slots, FDispatch(s) PROVE Inv'
  <2>1. Ranges'
    BY Zenon, <1>2, Dispatches
  <2>2. /\ UNCHANGED <<durable, fate, forceFlush, close, abort, cancelled>>
        /\ f.pc = "dispatch"
    BY Zenon, <1>2 DEF FDispatch, ending
  <2>3. failed' \in BOOLEAN /\ (failed => failed') /\ (f.stop # 0 => failed')
    BY Zenon, <1>0, <1>2 DEF FDispatch
  <2>4. f.to + 1 \in Nat /\ f.recs \in Seq(Nat) /\ f.from \in Nat /\ f.to \in Nat /\ f.skip \in Nat
    BY <1>0 DEF FlusherType
  <2>5. /\ f' \in FlusherType /\ f'.pos = f.pos /\ f'.recs = <<>> /\ f'.from = f.to + 1 /\ f'.to = f.to
        /\ ~f'.cut /\ f'.stop = f.stop /\ f'.held = f.held /\ f'.draining = f.draining
        /\ f'.pc = IF f.stop # 0 THEN "done" ELSE "top"
    <3>1. PICK p \in {"done", "top"} : p = IF f.stop # 0 THEN "done" ELSE "top"
      BY Zenon
    <3>2. f' = [f EXCEPT !.pc = p, !.recs = <<>>,
                         !.from = f.to + 1, !.skip = 0, !.expired = FALSE, !.cut = FALSE]
      BY Zenon, <1>2, <3>1 DEF FDispatch
    <3>3. PICK e \in Seq(Nat) : e = <<>>
      <4>1. <<>> \in Seq(Nat)
        OBVIOUS
      <4> QED
        BY <4>1, Zenon
    <3>4. f' = [f EXCEPT !.pc = p, !.recs = e, !.from = f.to + 1, !.skip = 0, !.expired = FALSE, !.cut = FALSE]
      BY Zenon, <3>2, <3>3
    <3>5. /\ f' \in FlusherType /\ f'.pos = f.pos /\ f'.recs = e /\ f'.from = f.to + 1 /\ f'.to = f.to
          /\ f'.cut = FALSE /\ f'.stop = f.stop /\ f'.held = f.held /\ f'.draining = f.draining
          /\ f'.pc = p
      BY Zenon, <1>0, <2>4, <3>4 DEF FlusherType
    <3> QED
      BY Zenon, <3>1, <3>3, <3>5
  <2>6. dl' \in [Slots -> DeliveryType]
    <3>1. dl' = [dl EXCEPT ![s] = [Idle EXCEPT !.pc = "try", !.recs = f.recs, !.from = f.from,
                                               !.to = f.to, !.skip = f.skip, !.attempt = 1]]
      BY Zenon, <1>2 DEF FDispatch
    <3>2. [Idle EXCEPT !.pc = "try", !.recs = f.recs, !.from = f.from,
                       !.to = f.to, !.skip = f.skip, !.attempt = 1] \in DeliveryType
      BY Zenon, <2>4 DEF Idle, DeliveryType
    <3> QED
      BY Zenon, <1>0, <3>1, <3>2
  <2>7. Types'
    BY Zenon, <2>2, <2>3, <2>5, <2>6 DEF Inv, Types
  <2>8. Bounds'
    BY <2>2, <2>4, <2>5 DEF Inv, Bounds
  <2>9. Ending'
    BY Zenon, <2>2, <2>3, <2>5 DEF Inv, Ending
  <2> QED
    BY Zenon, <2>1, <2>7, <2>8, <2>9 DEF Inv, Ranges
<1> QED
  BY Zenon, <1>1, <1>2

\* Deliveries touch neither the flusher's variables nor Close's.
LEMMA DeliveryRest ==
  ASSUME Inv, UNCHANGED <<Deliverer>>, dl' \in [Slots -> DeliveryType],
         fate' \in [1..MaxLSN -> Fates], failed' \in BOOLEAN, failed => failed', Ranges'
  PROVE  Inv'
<1>1. UNCHANGED <<durable, f, forceFlush, close, abort, cancelled>>
  BY Zenon DEF Deliverer, ending
<1>2. Types' /\ Bounds'
  BY <1>1 DEF Inv, Types, Bounds
<1>3. Unread' = Unread
  BY Zenon, <1>1 DEF Unread, Records
<1>4. Ending'
  BY Zenon, <1>1, <1>3 DEF Inv, Ending
<1> QED
  BY Zenon, <1>2, <1>4 DEF Inv, Ranges

\* A delivery that resolves its batch.
LEMMA ResolvesInv ==
  ASSUME Inv, NEW s \in Slots, dl[s].pc # "idle",
         NEW what \in {"sunk", "dead", "dropped"}, Resolve(s, what),
         UNCHANGED <<Deliverer>>, failed' \in BOOLEAN, failed => failed'
  PROVE  Inv'
<1>1. UNCHANGED f /\ UNCHANGED abort
  BY Zenon DEF Deliverer, ending
<1>2. Ranges'
  BY Zenon, <1>1, Resolves
<1>3. fate' \in [1..MaxLSN -> Fates]
  BY Zenon, Settles DEF Resolve
<1>4. Idle \in DeliveryType
  BY Zenon, IdleType
<1>5. dl' \in [Slots -> DeliveryType]
  BY Zenon, <1>4 DEF Resolve, Inv, Types
<1> QED
  BY Zenon, <1>2, <1>3, <1>5, DeliveryRest

\* A delivery that gives its batch up to the next run.
LEMMA AbandonsInv ==
  ASSUME Inv, NEW s \in Slots, Abandon(s), UNCHANGED <<Deliverer>>,
         failed' \in BOOLEAN, failed => failed', failed' \/ abort
  PROVE  Inv'
<1>1. UNCHANGED f /\ UNCHANGED abort
  BY Zenon DEF Deliverer, ending
<1>2. Ranges'
  BY Zenon, <1>1, Abandons
<1>3. UNCHANGED fate
  BY Zenon DEF Abandon
<1>4. Idle \in DeliveryType
  BY Zenon, IdleType
<1>5. dl' \in [Slots -> DeliveryType]
  BY Zenon, <1>4 DEF Abandon, Inv, Types
<1>6. fate' \in [1..MaxLSN -> Fates]
  BY Zenon, <1>3 DEF Inv, Types
<1> QED
  BY Zenon, <1>2, <1>5, <1>6, DeliveryRest

\* A delivery that goes on with it.
LEMMA CarriesInv ==
  ASSUME Inv, NEW s \in Slots, dl[s].pc # "idle", NEW d \in DeliveryType,
         dl' = [dl EXCEPT ![s] = d], d.pc # "idle",
         d.recs = dl[s].recs, d.from = dl[s].from, d.to = dl[s].to,
         UNCHANGED <<Deliverer>>, UNCHANGED <<acked, fate>>, failed' \in BOOLEAN, failed => failed'
  PROVE  Inv'
<1>1. UNCHANGED f /\ UNCHANGED abort
  BY Zenon DEF Deliverer, ending
<1>2. dl' \in [Slots -> DeliveryType] /\ dl'[s] = d /\ \A t \in Slots \ {s} : dl'[t] = dl[t]
  BY Zenon DEF Inv, Types
<1>3. Ranges'
  BY Zenon, <1>1, <1>2, Carries
<1>4. fate' \in [1..MaxLSN -> Fates]
  BY Zenon DEF Inv, Types
<1> QED
  BY Zenon, <1>2, <1>3, <1>4, DeliveryRest

\* Every step of a delivery does one of the three.
LEMMA DeliversInv ==
  ASSUME Inv, NEW s \in Slots, Delivery(s)
  PROVE  Inv'
<1>0. dl[s] \in DeliveryType /\ dl \in [Slots -> DeliveryType] /\ failed \in BOOLEAN /\ cancelled \in BOOLEAN
  BY Zenon DEF Inv, Types
<1>1. CASE DTry(s)
  <2>1. dl[s].pc # "idle" /\ UNCHANGED <<Deliverer>> /\ UNCHANGED failed
    BY Zenon, <1>1 DEF DTry
  <2>2. CASE Head(dl[s].recs) < floor
    BY <1>0, <1>1, <2>1, <2>2, ResolvesInv DEF DTry
  <2>3. CASE ~(Head(dl[s].recs) < floor)
    <3>1. dl' = [dl EXCEPT ![s] = [dl[s] EXCEPT !.pc = "sink"]] /\ UNCHANGED <<acked, fate>>
      BY Zenon, <1>0, <1>1, <2>3 DEF DTry, NotComplete
    <3>2. /\ [dl[s] EXCEPT !.pc = "sink"] \in DeliveryType
          /\ [dl[s] EXCEPT !.pc = "sink"].pc # "idle"
          /\ [dl[s] EXCEPT !.pc = "sink"].recs = dl[s].recs
          /\ [dl[s] EXCEPT !.pc = "sink"].from = dl[s].from
          /\ [dl[s] EXCEPT !.pc = "sink"].to = dl[s].to
      BY Zenon, <1>0 DEF DeliveryType
    <3> QED
      BY Zenon, <1>0, <2>1, <3>1, <3>2, CarriesInv
  <2> QED
    BY Zenon, <2>2, <2>3
<1>2. CASE DAccepted(s)
  <2>1. /\ dl[s].pc # "idle" /\ UNCHANGED <<Deliverer>> /\ UNCHANGED failed
        /\ Resolve(s, IF dl[s].dead THEN "dead" ELSE "sunk")
    BY Zenon, <1>2 DEF DAccepted
  <2> QED
    BY Zenon, <1>0, <2>1, ResolvesInv
<1>3. CASE DPanicked(s)
  BY Zenon, <1>3, AbandonsInv DEF DPanicked
<1>4. ASSUME NEW v \in Verdicts, DRefused(s, v) PROVE Inv'
  <2>1. PICK b \in BOOLEAN : b = ~cancelled
    BY Zenon
  <2>2. PICK w \in {"none", "retry", "permanent", "fatal"} : w = IF abort THEN "retry" ELSE classify(v)
    BY Zenon DEF classify, Verdicts
  <2> DEFINE d == [dl[s] EXCEPT !.pc = "answered", !.genuine = b, !.verdict = w]
  <2>3. dl' = [dl EXCEPT ![s] = d]
    BY Zenon, <1>0, <1>4, <2>1, <2>2 DEF DRefused
  <2>4. /\ d \in DeliveryType /\ d.pc # "idle" /\ d.recs = dl[s].recs
        /\ d.from = dl[s].from /\ d.to = dl[s].to
    BY Zenon, <1>0, <2>1, <2>2 DEF DeliveryType
  <2>5. dl[s].pc # "idle" /\ UNCHANGED <<Deliverer>> /\ UNCHANGED <<acked, fate>>
    BY Zenon, <1>4 DEF DRefused
  <2>6. failed' \in BOOLEAN /\ (failed => failed')
    BY Zenon, <1>4 DEF DRefused
  <2> HIDE DEF d
  <2> QED
    BY Zenon, <2>3, <2>4, <2>5, <2>6, CarriesInv
<1>5. CASE DAnswered(s)
  <2>1. dl[s].pc # "idle" /\ UNCHANGED <<Deliverer>>
    BY Zenon, <1>5 DEF DAnswered
  <2>2. /\ failed' \in BOOLEAN /\ (failed => failed')
        /\ (dl[s].verdict = "fatal" => failed' \/ abort)
    BY Zenon, <1>5 DEF DAnswered
  <2>3. CASE abort \/ dl[s].verdict = "fatal"
    BY Zenon, <1>5, <2>1, <2>2, <2>3, AbandonsInv DEF DAnswered
  <2>4. CASE ~(abort \/ dl[s].verdict = "fatal") /\ (dl[s].verdict = "permanent" \/ Exhausted(s))
    <3>1. GiveUp(s)
      BY Zenon, <1>5, <2>4 DEF DAnswered
    <3>2. CASE dl[s].dead \/ ~HasDLQ
      BY Zenon, <2>1, <2>2, <3>1, <3>2, ResolvesInv DEF GiveUp
    <3>3. CASE ~(dl[s].dead \/ ~HasDLQ)
      <4> DEFINE d == [dl[s] EXCEPT !.pc = "try", !.dead = TRUE, !.attempt = 1, !.verdict = "none"]
      <4>1. dl' = [dl EXCEPT ![s] = d] /\ UNCHANGED <<acked, fate>>
        BY Zenon, <1>0, <3>1, <3>3 DEF GiveUp, NotComplete
      <4>2. /\ d \in DeliveryType /\ d.pc # "idle" /\ d.recs = dl[s].recs
            /\ d.from = dl[s].from /\ d.to = dl[s].to
        BY Zenon, <1>0 DEF DeliveryType
      <4> HIDE DEF d
      <4> QED
        BY Zenon, <2>1, <2>2, <4>1, <4>2, CarriesInv
    <3> QED
      BY Zenon, <3>2, <3>3
  <2>5. CASE ~(abort \/ dl[s].verdict = "fatal") /\ ~(dl[s].verdict = "permanent" \/ Exhausted(s))
    <3> DEFINE d == [dl[s] EXCEPT !.pc = "wait"]
    <3>1. dl' = [dl EXCEPT ![s] = d] /\ UNCHANGED <<acked, fate>>
      BY Zenon, <1>0, <1>5, <2>5 DEF DAnswered, NotComplete
    <3>2. /\ d \in DeliveryType /\ d.pc # "idle" /\ d.recs = dl[s].recs
          /\ d.from = dl[s].from /\ d.to = dl[s].to
      BY Zenon, <1>0 DEF DeliveryType
    <3> HIDE DEF d
    <3> QED
      BY Zenon, <2>1, <2>2, <3>1, <3>2, CarriesInv
  <2> QED
    BY Zenon, <2>3, <2>4, <2>5
<1>6. CASE DRetries(s)
  <2>1. PICK n \in Nat : n = IF Limit(s) > 0 THEN dl[s].attempt + 1 ELSE dl[s].attempt
    BY <1>0 DEF DeliveryType
  <2> DEFINE d == [dl[s] EXCEPT !.pc = "try", !.verdict = "none", !.attempt = n]
  <2>2. dl' = [dl EXCEPT ![s] = d]
    BY Zenon, <1>0, <1>6, <2>1 DEF DRetries
  <2>3. /\ d \in DeliveryType /\ d.pc # "idle" /\ d.recs = dl[s].recs
        /\ d.from = dl[s].from /\ d.to = dl[s].to
    BY Zenon, <1>0 DEF DeliveryType
  <2>4. dl[s].pc # "idle" /\ UNCHANGED <<Deliverer>> /\ UNCHANGED <<acked, fate, failed>>
    BY Zenon, <1>6 DEF DRetries
  <2> HIDE DEF d
  <2> QED
    BY Zenon, <1>0, <2>2, <2>3, <2>4, CarriesInv
<1>7. CASE DAborted(s)
  BY Zenon, <1>0, <1>7, AbandonsInv DEF DAborted
<1> QED
  BY Zenon, <1>1, <1>2, <1>3, <1>4, <1>5, <1>6, <1>7 DEF Delivery

\* A record is written, or the floor raised.
LEMMA WritesInv ==
  ASSUME Inv, Writer
  PROVE  Inv'
<1>0. durable \in Nat /\ MaxLSN \in Nat /\ f.pos \in Nat /\ f.from \in Nat /\ durable <= MaxLSN
  BY Zenon, InLog
<1>1. CASE Append1
  <2> DEFINE Free == {l \in (durable + 1)..MaxLSN : l \notin Gaps}
  <2>1. Free \in SUBSET Nat /\ MaxLSN \in Free
    BY <1>0, <1>1, PipelineAssumption DEF Append1
  <2>2. durable' \in Free
    <3>1. durable' = Min(Free)
      BY Zenon, <1>1 DEF Append1
    <3> HIDE DEF Free
    <3> QED
      BY Zenon, <2>1, <3>1, Least
  <2>3. durable' \in 0..MaxLSN /\ durable < durable' /\ durable' \notin Gaps
    BY <1>0, <2>2
  <2>4. /\ UNCHANGED <<f, dl, acked, fate, failed, forceFlush, close, abort, cancelled>>
        /\ close \in {"open", "sealed"}
    BY Zenon, <1>1 DEF Append1, Writable, ending
  <2>5. Ranges'
    BY Zenon, <2>4, Still
  <2>6. Types'
    BY Zenon, <2>3, <2>4 DEF Inv, Types
  <2>7. Bounds'
    BY <1>0, <2>3, <2>4 DEF Inv, Bounds
  <2>8. ~f.draining
    BY Zenon, <2>4 DEF Inv, Ending
  <2>9. Ending'
    BY Zenon, <2>3, <2>4, <2>8 DEF Inv, Ending
  <2> QED
    BY Zenon, <2>5, <2>6, <2>7, <2>9 DEF Inv, Ranges
<1>2. ASSUME NEW to, raiseFloor(to) PROVE Inv'
  <2>1. UNCHANGED <<durable, f, dl, acked, fate, failed, forceFlush, close, abort, cancelled>>
    BY Zenon, <1>2 DEF raiseFloor, ending
  <2>2. Ranges'
    BY Zenon, <2>1, Still
  <2>3. Types' /\ Bounds'
    BY <2>1 DEF Inv, Types, Bounds
  <2>4. Ending'
    BY Zenon, <2>1 DEF Inv, Ending, Unread, Records
  <2> QED
    BY Zenon, <2>2, <2>3, <2>4 DEF Inv, Ranges
<1> QED
  BY Zenon, <1>1, <1>2 DEF Writer

\* Flush and Close move nothing themselves; Close aborts only after it has stopped waiting.
LEMMA CallsInv ==
  ASSUME Inv, FlushCall \/ Flushing \/ CloseSeal \/ Closing \/ UNCHANGED vars
  PROVE  Inv'
<1>0. forceFlush \in BOOLEAN
  BY Zenon DEF Inv, Types
<1>1. UNCHANGED <<durable, f, dl, acked, fate, failed>>
  BY Zenon DEF FlushCall, Flushing, FlushGate, FlushTest, FlushForce, FlushWoken, CloseSeal, Closing, CloseDrain,
         CloseDrained, CloseDelivered, CloseTimesOut, CloseAborts, CloseCancels, CloseLog, CloseTo,
         vars, buffer
<1>2. \/ UNCHANGED <<close, abort, cancelled>>
      \/ CloseSeal \/ CloseDrain \/ CloseDrained \/ CloseDelivered \/ CloseTimesOut
      \/ CloseAborts \/ CloseCancels \/ CloseLog
  BY Zenon DEF FlushCall, Flushing, FlushGate, FlushTest, FlushForce, FlushWoken, Closing, vars, ending
<1>3. forceFlush' \in BOOLEAN
  BY Zenon, <1>0 DEF FlushCall, Flushing, FlushGate, FlushTest, FlushForce, FlushWoken, CloseSeal, Closing, CloseDrain,
         CloseDrained, CloseDelivered, CloseTimesOut, CloseAborts, CloseCancels, CloseLog, CloseTo,
         vars, buffer
<1>4. /\ close' \in {"open", "sealed", "draining", "delivering", "stopping", "aborted", "cancelled", "closed"}
      /\ abort' \in BOOLEAN /\ cancelled' \in BOOLEAN /\ (abort => abort')
      /\ (close \notin {"open", "sealed"} => close' \notin {"open", "sealed"})
      /\ (close' = "delivering" => f.pc = "done")
      /\ (abort' => close' \in {"aborted", "cancelled", "closed"})
  <2>0. /\ close \in {"open", "sealed", "draining", "delivering", "stopping", "aborted", "cancelled", "closed"}
        /\ abort \in BOOLEAN /\ cancelled \in BOOLEAN
        /\ (close = "delivering" => f.pc = "done")
        /\ (abort => close \in {"aborted", "cancelled", "closed"})
    BY Zenon DEF Inv, Types, Ending
  <2>1. CASE UNCHANGED <<close, abort, cancelled>>
    BY Zenon, <2>0, <2>1
  <2>2. CASE CloseSeal \/ CloseDrain
    BY <2>0, <2>2 DEF CloseSeal, CloseDrain, CloseTo
  <2>3. CASE CloseDrained \/ CloseDelivered
    BY <2>0, <2>3 DEF CloseDrained, CloseDelivered, CloseTo
  <2>4. CASE CloseTimesOut
    BY <2>0, <2>4 DEF CloseTimesOut, CloseTo
  <2>5. CASE CloseAborts
    BY Zenon, <2>0, <2>5 DEF CloseAborts
  <2>6. CASE CloseCancels
    BY Zenon, <2>0, <2>6 DEF CloseCancels
  <2>7. CASE CloseLog
    BY Zenon, <2>0, <2>7 DEF CloseLog, CloseTo
  <2> QED
    BY Zenon, <1>2, <2>1, <2>2, <2>3, <2>4, <2>5, <2>6, <2>7
<1>5. Ranges'
  BY Zenon, <1>1, <1>4, Still
<1>6. Types' /\ Bounds'
  BY Zenon, <1>1, <1>3, <1>4 DEF Inv, Types, Bounds
<1>7. Ending'
  BY Zenon, <1>1, <1>4 DEF Inv, Ending, Unread, Records
<1> QED
  BY Zenon, <1>5, <1>6, <1>7 DEF Inv, Ranges

\* Every step keeps the invariant.
LEMMA NextInv == Inv /\ [Next]_vars => Inv'
<1> SUFFICES ASSUME Inv, [Next]_vars PROVE Inv'
  BY Zenon
<1>1. CASE Flusher
  BY Zenon, <1>1, TopAndSelect, HeldOpens, ReadEnds, ReadDrops, ReadTakes, Stops, Decides, HandsOver DEF Flusher
<1> QED
  BY Zenon, <1>1, WritesInv, CallsInv, DeliversInv DEF Next

\* The invariant holds at all times.
LEMMA Invariance == Spec => []Inv
BY InitInv, NextInv, PTL DEF Spec

-----------------------------------------------------------------------------
(* How many records a range holds. *)

Weight(from, to) == Cardinality((from..to) \ Gaps)

\* Every record of a range is in its batch or counted as skipped, and the
\* range of a batch is acknowledged only when the batch has ended.
Weighed ==
  /\ \A s \in Slots : dl[s].pc # "idle" =>
       /\ Len(dl[s].recs) + dl[s].skip = Weight(dl[s].from, dl[s].to)
       /\ \A l \in dl[s].from..dl[s].to : l \notin acked
  /\ f.pc # "done" =>
       /\ Len(f.recs) + f.skip = Weight(f.from, f.to)
       /\ \A l \in acked : l < f.from

\* An empty range holds none (dispatch and skipped start the next range so).
LEMMA WeightEmpty ==
  ASSUME NEW a \in Nat, NEW b \in Nat, b < a
  PROVE  Weight(a, b) = 0
<1>1. (a..b) \ Gaps = {}
  OBVIOUS
<1> QED
  BY Zenon, <1>1, FS_EmptySet DEF Weight

\* Extending a range over gaps up to the next record adds one (fill).
LEMMA WeightNext ==
  ASSUME NEW a \in Nat, NEW b \in Nat, NEW c \in Nat, a <= b + 1, b < c, c \notin Gaps,
         \A l \in (b + 1)..(c - 1) : l \in Gaps
  PROVE  Weight(a, c) = Weight(a, b) + 1
<1>1. (a..c) \ Gaps = ((a..b) \ Gaps) \cup {c}
  <2>1. ASSUME NEW l \in (a..c) \ Gaps PROVE l \in (a..b) \/ l = c
    <3>1. CASE l \in (b + 1)..(c - 1)
      BY Zenon, <3>1
    <3>2. CASE ~(l \in (b + 1)..(c - 1))
      BY <2>1, <3>2
    <3> QED
      BY Zenon, <3>1, <3>2
  <2>2. c \in a..c /\ \A l \in a..b : l \in a..c
    OBVIOUS
  <2> QED
    BY Zenon, <2>1, <2>2
<1>2. IsFiniteSet(a..b)
  BY FS_Interval
<1>3. IsFiniteSet((a..b) \ Gaps)
  BY Zenon, <1>2, FS_Difference
<1>4. c \notin a..b
  OBVIOUS
<1>5. Cardinality(((a..b) \ Gaps) \cup {c}) = Cardinality((a..b) \ Gaps) + 1
  BY Zenon, <1>3, <1>4, FS_AddElement
<1> QED
  BY Zenon, <1>1, <1>5 DEF Weight

\* A step that leaves the ranges alone.
LEMMA Rests ==
  ASSUME Weighed, UNCHANGED <<dl, acked>>, f'.pc # "done" => f.pc # "done",
         f'.recs = f.recs, f'.skip = f.skip, f'.from = f.from, f'.to = f.to
  PROVE  Weighed'
BY Zenon DEF Weighed

\* startBatch: the stretch in front of the batch is acknowledged, and what was skipped with it.
LEMMA OpensWeighed ==
  ASSUME Inv, Weighed, NEW lsn \in Nat, f.pc # "done", f.recs = <<>>, f.to < lsn, lsn \notin Gaps,
         startBatch(lsn), UNCHANGED dl,
         f'.recs = <<lsn>>, f'.from = lsn, f'.to = lsn, f'.skip = IF lsn > f.from THEN 0 ELSE f.skip
  PROVE  Weighed'
<1>0. /\ f.from \in Nat /\ f.to \in Nat /\ 1 <= f.from /\ f.from <= f.to + 1 /\ f.skip \in Nat
      /\ \A t \in Slots : dl[t].from \in Nat /\ dl[t].to \in Nat
  BY Zenon, InLog DEF Inv, Types, FlusherType
<1>1. acked \subseteq acked' /\ \A l \in acked' : l \in acked \/ l \in f.from..(lsn - 1)
  BY Zenon DEF startBatch, complete, NotComplete
<1>2. Weight(lsn, lsn) = 1
  <2>1. PICK p \in Nat : p = lsn - 1
    BY <1>0
  <2>2. Weight(lsn, p) = 0
    BY <2>1, WeightEmpty
  <2>3. Weight(lsn, lsn) = Weight(lsn, p) + 1
    BY <2>1, WeightNext
  <2> QED
    BY <2>2, <2>3
<1>3. f'.skip = 0
  <2>1. CASE lsn > f.from
    BY Zenon, <2>1
  <2>2. CASE ~(lsn > f.from)
    <3>1. f.to < f.from
      BY <1>0, <2>2
    <3>2. Weight(f.from, f.to) = 0
      BY Zenon, <1>0, <3>1, WeightEmpty
    <3> QED
      BY <1>0, <2>2, <3>2 DEF Weighed
  <2> QED
    BY Zenon, <2>1, <2>2
<1>4. Len(f'.recs) + f'.skip = Weight(f'.from, f'.to)
  BY <1>2, <1>3
<1>5. \A l \in acked' : l < f'.from
  <2> SUFFICES ASSUME NEW l \in acked' PROVE l < lsn
    BY Zenon
  <2>1. CASE l \in acked
    <3>1. l < f.from /\ l \in Nat
      BY <2>1 DEF Weighed, Inv, Acks
    <3> QED
      BY <1>0, <3>1
  <2> QED
    BY <1>0, <1>1, <2>1
<1>6. ASSUME NEW s \in Slots, dl[s].pc # "idle", NEW l \in dl[s].from..dl[s].to PROVE l \notin acked'
  <2>1. l \notin acked /\ l < f.from
    BY <1>0, <1>6 DEF Weighed, Inv, Theirs
  <2> QED
    BY SMTT(30), <1>0, <1>1, <2>1
<1> QED
  BY Zenon, <1>4, <1>5, <1>6 DEF Weighed

\* The flusher's range was skipped whole, and is acknowledged (FDecide, FStop).
LEMMA SkipsWeighed ==
  ASSUME Inv, Weighed, f.pc # "done", complete(f.from, f.to), UNCHANGED dl,
         f'.pc # "done" => f'.recs = <<>> /\ f'.from = f.to + 1 /\ f'.to = f.to /\ f'.skip = 0
  PROVE  Weighed'
<1>0. /\ f.from \in Nat /\ f.to \in Nat /\ 1 <= f.from /\ f.from <= f.to + 1
      /\ \A t \in Slots : dl[t].from \in Nat /\ dl[t].to \in Nat
  BY Zenon, InLog
<1>1. acked' = acked \cup f.from..f.to
  BY Zenon DEF complete
<1>2. f'.pc # "done" => Len(f'.recs) + f'.skip = Weight(f'.from, f'.to)
  <2>1. PICK n \in Nat : n = f.to + 1
    BY <1>0
  <2>2. Weight(n, f.to) = 0
    BY <1>0, <2>1, WeightEmpty
  <2> QED
    BY <2>1, <2>2
<1>3. f'.pc # "done" => \A l \in acked' : l < f'.from
  <2> SUFFICES ASSUME NEW l \in acked' PROVE l < f.to + 1
    BY Zenon
  <2>1. l \in acked => l < f.from /\ l \in Nat
    BY DEF Weighed, Inv, Acks
  <2> QED
    BY <1>0, <1>1, <2>1
<1>4. ASSUME NEW s \in Slots, dl[s].pc # "idle", NEW l \in dl[s].from..dl[s].to PROVE l \notin acked'
  <2>1. l \notin acked /\ l < f.from
    BY <1>0, <1>4 DEF Weighed, Inv, Theirs
  <2> QED
    BY SMTT(30), <1>0, <1>1, <2>1
<1> QED
  BY Zenon, <1>2, <1>3, <1>4 DEF Weighed

\* The steps that change only where the flusher is.
LEMMA FlusherRests ==
  ASSUME Inv, Weighed,
         FTopFailed \/ FTop \/ FReadFails \/ FReadStop \/ FReadEnd \/ FDispatchAborted \/ Select
  PROVE  Weighed'
<1>0. f \in FlusherType
  BY Zenon DEF Inv, Types
<1>1. UNCHANGED <<dl, acked>> /\ f.pc # "done"
  BY Zenon DEF FTopFailed, FTop, FReadFails, FReadStop, FReadEnd, FDispatchAborted, Select, FWoken, FTicked,
         FDrainNow, FAborted, Filling
<1>2. f'.recs = f.recs /\ f'.skip = f.skip /\ f'.from = f.from /\ f'.to = f.to
  <2>1. CASE FTopFailed \/ FTop \/ FReadFails \/ FReadStop \/ FReadEnd \/ FDispatchAborted
    BY Zenon, <1>0, <2>1 DEF FTopFailed, FTop, FReadFails, FReadStop, FReadEnd, FDispatchAborted, FlusherType
  <2>2. CASE Select
    BY Zenon, <1>0, <2>2 DEF Select, FWoken, FTicked, FDrainNow, FAborted, FlusherType
  <2> QED
    BY Zenon, <2>1, <2>2
<1> QED
  BY Zenon, <1>1, <1>2, Rests

\* A record that is skipped is counted, and one that is taken is in the batch.
LEMMA ReadsWeighed ==
  ASSUME Inv, Weighed, FReadSkip \/ FReadTake \/ FTopHeld
  PROVE  Weighed'
<1>0. f \in FlusherType /\ f.recs \in Seq(Nat) /\ f.from \in Nat /\ f.to \in Nat /\ f.skip \in Nat
  BY Zenon DEF Inv, Types, FlusherType
<1>1. UNCHANGED dl /\ f.pc # "done"
  BY Zenon DEF FReadSkip, FReadTake, FTopHeld, Filling
<1>2. CASE FReadSkip
  <2>1. Unread # {} /\ Filling /\ UNCHANGED acked
    BY Zenon, <1>2 DEF FReadSkip
  <2>2. Weight(f.from, Next1) = Weight(f.from, f.to) + 1
    BY ZenonT(30), <2>1, JustRead, WeightNext
  <2>3. f'.recs = f.recs /\ f'.from = f.from /\ f'.to = Next1 /\ f'.skip = f.skip + 1
    BY Zenon, <1>0, <1>2 DEF FReadSkip, FlusherType
  <2>4. Len(f'.recs) + f'.skip = Weight(f'.from, f'.to)
    <3>1. Len(f.recs) \in Nat /\ Len(f.recs) + f.skip = Weight(f.from, f.to)
      BY <1>0, <1>1 DEF Weighed
    <3>2. PICK n \in Nat, k \in Nat : n = Len(f.recs) /\ k = f.skip
      BY Zenon, <1>0, <3>1
    <3>3. Weight(f.from, Next1) = n + (k + 1)
      BY <2>2, <3>1, <3>2
    <3> QED
      BY Zenon, <2>3, <3>2, <3>3
  <2> QED
    BY Zenon, <1>1, <2>1, <2>3, <2>4 DEF Weighed
<1>3. CASE FReadTake
  <2>1. Unread # {} /\ Filling
    BY Zenon, <1>3 DEF FReadTake
  <2>2. Next1 \in Nat /\ f.to < Next1 /\ Next1 \notin Gaps
    BY Zenon, <2>1, JustRead
  <2>3. CASE f.recs = <<>>
    <3>1. startBatch(Next1) /\ f' = [Opened(Next1) EXCEPT !.pos = Next1 + 1]
      BY Zenon, <1>3, <2>3 DEF FReadTake
    <3>2. /\ f'.recs = <<Next1>> /\ f'.from = Next1 /\ f'.to = Next1
          /\ f'.skip = IF Next1 > f.from THEN 0 ELSE f.skip
      BY Zenon, <1>0, <3>1 DEF Opened, FlusherType
    <3> QED
      BY Zenon, <1>1, <2>2, <2>3, <3>1, <3>2, OpensWeighed
  <2>4. CASE f.recs # <<>> /\ Next1 = f.recs[Len(f.recs)] + 1
    <3>1. UNCHANGED acked /\ f' = [f EXCEPT !.pos = Next1 + 1, !.recs = Append(f.recs, Next1), !.to = Next1]
      BY Zenon, <1>3, <2>4 DEF FReadTake, NotComplete
    <3>2. f'.recs = Append(f.recs, Next1) /\ f'.from = f.from /\ f'.to = Next1 /\ f'.skip = f.skip
      BY Zenon, <1>0, <3>1 DEF FlusherType
    <3>3. Len(Append(f.recs, Next1)) = Len(f.recs) + 1 /\ Len(f.recs) \in Nat
      BY <1>0, <2>2
    <3>4. Weight(f.from, Next1) = Weight(f.from, f.to) + 1
      BY ZenonT(30), <2>1, JustRead, WeightNext
    <3>5. Len(f.recs) + f.skip = Weight(f.from, f.to)
      BY Zenon, <1>1 DEF Weighed
    <3>6. Len(f'.recs) + f'.skip = Weight(f'.from, f'.to)
      <4>1. PICK n \in Nat, k \in Nat : n = Len(f.recs) /\ k = f.skip
        BY Zenon, <1>0, <3>3
      <4>2. Weight(f.from, Next1) = (n + 1) + k
        BY <3>4, <3>5, <4>1
      <4> QED
        BY Zenon, <3>2, <3>3, <4>1, <4>2
    <3> QED
      BY Zenon, <1>1, <3>1, <3>2, <3>6 DEF Weighed
  <2>5. CASE f.recs # <<>> /\ Next1 # f.recs[Len(f.recs)] + 1
    <3>1. UNCHANGED acked /\ f' = [f EXCEPT !.pos = Next1 + 1, !.held = Next1, !.cut = TRUE]
      BY Zenon, <1>3, <2>5 DEF FReadTake, NotComplete
    <3>2. f'.recs = f.recs /\ f'.from = f.from /\ f'.to = f.to /\ f'.skip = f.skip
      BY Zenon, <1>0, <3>1 DEF FlusherType
    <3> QED
      BY Zenon, <1>1, <3>1, <3>2, Rests
  <2> QED
    BY Zenon, <2>3, <2>4, <2>5
<1>4. CASE FTopHeld
  <2>1. f.held # 0 /\ f.recs = <<>> /\ startBatch(f.held)
    BY Zenon, <1>4 DEF FTopHeld
  <2>2. f.held \in Nat /\ f.to < f.held /\ f.held \notin Gaps
    BY Zenon, <1>0, <2>1 DEF Inv, Bounds, FlusherType
  <2>3. f' = [Opened(f.held) EXCEPT !.pc = "read", !.held = 0]
    BY Zenon, <1>4 DEF FTopHeld
  <2>4. /\ f'.recs = <<f.held>> /\ f'.from = f.held /\ f'.to = f.held
        /\ f'.skip = IF f.held > f.from THEN 0 ELSE f.skip
    BY Zenon, <1>0, <2>3 DEF Opened, FlusherType
  <2> QED
    BY Zenon, <1>1, <2>1, <2>2, <2>4, OpensWeighed
<1> QED
  BY Zenon, <1>2, <1>3, <1>4

\* The end of an iteration of the loop.
LEMMA DecidesWeighed ==
  ASSUME Inv, Weighed, FStop \/ FDecide
  PROVE  Weighed'
<1>0. f \in FlusherType
  BY Zenon DEF Inv, Types
<1>1. UNCHANGED dl /\ f.pc # "done"
  BY Zenon DEF FStop, FDecide
<1> DEFINE g == [f EXCEPT !.expired = @ \/ forceFlush]
<1>2. CASE FStop
  <2>1. CASE f.recs = <<>> /\ f.to >= f.from
    <3>1. complete(f.from, f.to) /\ f' = [f EXCEPT !.pc = "done"]
      BY Zenon, <1>2, <2>1 DEF FStop
    <3>2. f'.pc = "done"
      BY Zenon, <1>0, <3>1 DEF FlusherType
    <3> QED
      BY Zenon, <1>1, <3>1, <3>2, SkipsWeighed
  <2>2. CASE ~(f.recs = <<>> /\ f.to >= f.from)
    <3>1. UNCHANGED acked /\ \E p \in {"dispatch", "done"} : f' = [f EXCEPT !.pc = p]
      BY Zenon, <1>2, <2>2 DEF FStop, NotComplete
    <3>2. f'.recs = f.recs /\ f'.skip = f.skip /\ f'.from = f.from /\ f'.to = f.to
      BY Zenon, <1>0, <3>1 DEF FlusherType
    <3> QED
      BY Zenon, <1>1, <3>1, <3>2, Rests
  <2> QED
    BY Zenon, <2>1, <2>2
<1>3. CASE FDecide
  <2>1. /\ g.recs = f.recs /\ g.from = f.from /\ g.to = f.to /\ g.skip = f.skip
        /\ DOMAIN g = DOMAIN f
    BY Zenon, <1>0 DEF FlusherType
  <2>2. \/ (\E p : f' = [g EXCEPT !.pc = p]) /\ UNCHANGED acked
        \/ /\ g.recs = <<>> /\ complete(g.from, g.to)
           /\ f' = [g EXCEPT !.pc = "top", !.from = g.to + 1, !.skip = 0, !.cut = FALSE]
    BY Zenon, <1>3 DEF FDecide, NotComplete
  <2>3. {"recs", "from", "to", "skip", "pc", "cut"} \subseteq DOMAIN g
    BY Zenon, <1>0, <2>1 DEF FlusherType
  <2> HIDE DEF g
  <2>4. CASE (\E p : f' = [g EXCEPT !.pc = p]) /\ UNCHANGED acked
    <3>1. f'.recs = f.recs /\ f'.skip = f.skip /\ f'.from = f.from /\ f'.to = f.to
      BY Zenon, <2>1, <2>3, <2>4
    <3> QED
      BY Zenon, <1>1, <2>4, <3>1, Rests
  <2>5. CASE /\ g.recs = <<>> /\ complete(g.from, g.to)
             /\ f' = [g EXCEPT !.pc = "top", !.from = g.to + 1, !.skip = 0, !.cut = FALSE]
    <3>1. f'.recs = <<>> /\ f'.from = g.to + 1 /\ f'.to = g.to /\ f'.skip = 0
      BY Zenon, <2>3, <2>5
    <3> QED
      BY Zenon, <1>1, <2>1, <2>5, <3>1, SkipsWeighed
  <2> QED
    BY Zenon, <2>2, <2>4, <2>5
<1> QED
  BY Zenon, <1>2, <1>3

\* dispatch: the batch, its range and its count go to the delivery together.
LEMMA DispatchesWeighed ==
  ASSUME Inv, Weighed, NEW s \in Slots, FDispatch(s)
  PROVE  Weighed'
<1>0. /\ f \in FlusherType /\ dl \in [Slots -> DeliveryType] /\ f.from \in Nat /\ f.to \in Nat
      /\ f.from <= f.to + 1
  BY Zenon DEF Inv, Types, FlusherType, Bounds
<1>1. UNCHANGED acked /\ f.pc # "done"
  BY Zenon DEF FDispatch
<1>2. /\ Len(f.recs) + f.skip = Weight(f.from, f.to)
      /\ \A l \in acked : l < f.from /\ l \in Nat
  BY <1>1 DEF Weighed, Inv, Acks
<1>3. /\ dl'[s].recs = f.recs /\ dl'[s].skip = f.skip /\ dl'[s].from = f.from /\ dl'[s].to = f.to
      /\ \A t \in Slots \ {s} : dl'[t] = dl[t]
  <2>1. PICK d : d = [Idle EXCEPT !.pc = "try", !.recs = f.recs, !.from = f.from,
                                  !.to = f.to, !.skip = f.skip, !.attempt = 1]
    BY Zenon
  <2>2. d.recs = f.recs /\ d.skip = f.skip /\ d.from = f.from /\ d.to = f.to
    BY Zenon, <2>1 DEF Idle
  <2>3. dl' = [dl EXCEPT ![s] = d]
    BY Zenon, <2>1 DEF FDispatch
  <2> QED
    BY Zenon, <1>0, <2>2, <2>3
<1>4. f'.recs = <<>> /\ f'.from = f.to + 1 /\ f'.to = f.to /\ f'.skip = 0
  BY Zenon, <1>0 DEF FDispatch, FlusherType
<1>5. Len(f'.recs) + f'.skip = Weight(f'.from, f'.to)
  <2>1. PICK n \in Nat : n = f.to + 1
    BY <1>0
  <2>2. Weight(n, f.to) = 0
    BY <1>0, <2>1, WeightEmpty
  <2> QED
    BY <1>4, <2>1, <2>2
<1>6. \A l \in acked' : l < f'.from
  BY <1>0, <1>1, <1>2, <1>4
<1>7. \A l \in f.from..f.to : l \notin acked
  BY <1>0, <1>2
<1>8. ASSUME NEW t \in Slots, dl'[t].pc # "idle"
      PROVE  /\ Len(dl'[t].recs) + dl'[t].skip = Weight(dl'[t].from, dl'[t].to)
             /\ \A l \in dl'[t].from..dl'[t].to : l \notin acked'
  <2>1. CASE t = s
    BY Zenon, <1>1, <1>2, <1>3, <1>7, <2>1
  <2>2. CASE t # s
    BY Zenon, <1>1, <1>3, <1>8, <2>2 DEF Weighed
  <2> QED
    BY Zenon, <2>1, <2>2
<1> QED
  BY Zenon, <1>5, <1>6, <1>8 DEF Weighed

\* What a delivery's batch is made of, which none of its steps changes.
SameBatch(s) ==
  /\ dl'[s].pc # "idle" /\ dl'[s].recs = dl[s].recs /\ dl'[s].skip = dl[s].skip
  /\ dl'[s].from = dl[s].from /\ dl'[s].to = dl[s].to
  /\ \A t \in Slots \ {s} : dl'[t] = dl[t]
  /\ UNCHANGED acked

\* A step of a delivery abandons the batch, resolves it, or goes on with it.
LEMMA ThreeWays ==
  ASSUME Inv, NEW s \in Slots, Delivery(s)
  PROVE  /\ UNCHANGED f /\ dl[s].pc # "idle"
         /\ Abandon(s) \/ (\E what : Resolve(s, what)) \/ SameBatch(s)
<1>0. dl[s] \in DeliveryType /\ dl \in [Slots -> DeliveryType]
  BY Zenon DEF Inv, Types
<1>1. UNCHANGED f /\ dl[s].pc # "idle"
  BY Zenon DEF Delivery, DTry, DAccepted, DPanicked, DRefused, DAnswered, DRetries, DAborted, Deliverer
<1>2. ASSUME NEW d, dl' = [dl EXCEPT ![s] = d], UNCHANGED acked, d.pc # "idle", d.recs = dl[s].recs,
             d.skip = dl[s].skip, d.from = dl[s].from, d.to = dl[s].to
      PROVE  SameBatch(s)
  BY Zenon, <1>0, <1>2 DEF SameBatch
<1>3. CASE DTry(s)
  <2>1. Resolve(s, "dropped") \/ (dl' = [dl EXCEPT ![s] = [dl[s] EXCEPT !.pc = "sink"]] /\ UNCHANGED acked)
    BY Zenon, <1>0, <1>3 DEF DTry, NotComplete
  <2> DEFINE d == [dl[s] EXCEPT !.pc = "sink"]
  <2>2. /\ d.pc # "idle" /\ d.recs = dl[s].recs
        /\ d.skip = dl[s].skip /\ d.from = dl[s].from /\ d.to = dl[s].to
    BY Zenon, <1>0 DEF DeliveryType
  <2> HIDE DEF d
  <2> QED
    BY Zenon, <1>1, <1>2, <2>1, <2>2 DEF d
<1>4. CASE DAccepted(s) \/ DPanicked(s) \/ DAborted(s)
  BY Zenon, <1>1, <1>4 DEF DAccepted, DPanicked, DAborted
<1>5. ASSUME NEW v \in Verdicts, DRefused(s, v) PROVE SameBatch(s)
  <2>1. PICK b, w : dl' = [dl EXCEPT ![s] = [dl[s] EXCEPT !.pc = "answered", !.genuine = b, !.verdict = w]]
    BY ZenonT(30), <1>0, <1>5 DEF DRefused
  <2> DEFINE d == [dl[s] EXCEPT !.pc = "answered", !.genuine = b, !.verdict = w]
  <2>2. /\ d.pc # "idle" /\ d.recs = dl[s].recs
        /\ d.skip = dl[s].skip /\ d.from = dl[s].from /\ d.to = dl[s].to
    BY Zenon, <1>0 DEF DeliveryType
  <2>3. dl' = [dl EXCEPT ![s] = d] /\ UNCHANGED acked
    BY Zenon, <1>5, <2>1 DEF DRefused
  <2> HIDE DEF d
  <2> QED
    BY Zenon, <1>2, <2>2, <2>3
<1>6. CASE DAnswered(s)
  <2>1. \/ Abandon(s) \/ Resolve(s, "dropped")
        \/ dl' = [dl EXCEPT ![s] = [dl[s] EXCEPT !.pc = "wait"]] /\ UNCHANGED acked
        \/ /\ dl' = [dl EXCEPT ![s] = [dl[s] EXCEPT !.pc = "try", !.dead = TRUE, !.attempt = 1, !.verdict = "none"]]
           /\ UNCHANGED acked
    BY Zenon, <1>0, <1>6 DEF DAnswered, GiveUp, NotComplete
  <2> DEFINE d == [dl[s] EXCEPT !.pc = "wait"]
             e == [dl[s] EXCEPT !.pc = "try", !.dead = TRUE, !.attempt = 1, !.verdict = "none"]
  <2>2. /\ d.pc # "idle" /\ d.recs = dl[s].recs
        /\ d.skip = dl[s].skip /\ d.from = dl[s].from /\ d.to = dl[s].to
    BY Zenon, <1>0 DEF DeliveryType
  <2>3. /\ e.pc # "idle" /\ e.recs = dl[s].recs
        /\ e.skip = dl[s].skip /\ e.from = dl[s].from /\ e.to = dl[s].to
    BY Zenon, <1>0 DEF DeliveryType
  <2>4. Abandon(s) \/ Resolve(s, "dropped") \/ (dl' = [dl EXCEPT ![s] = d] /\ UNCHANGED acked)
        \/ (dl' = [dl EXCEPT ![s] = e] /\ UNCHANGED acked)
    BY Zenon, <2>1
  <2> HIDE DEF d, e
  <2> QED
    BY Zenon, <1>1, <1>2, <2>2, <2>3, <2>4
<1>7. CASE DRetries(s)
  <2>1. PICK n : dl' = [dl EXCEPT ![s] = [dl[s] EXCEPT !.pc = "try", !.verdict = "none", !.attempt = n]]
    BY Zenon, <1>0, <1>7 DEF DRetries
  <2> DEFINE d == [dl[s] EXCEPT !.pc = "try", !.verdict = "none", !.attempt = n]
  <2>2. /\ d.pc # "idle" /\ d.recs = dl[s].recs
        /\ d.skip = dl[s].skip /\ d.from = dl[s].from /\ d.to = dl[s].to
    BY Zenon, <1>0 DEF DeliveryType
  <2>3. dl' = [dl EXCEPT ![s] = d] /\ UNCHANGED acked
    BY Zenon, <1>7, <2>1 DEF DRetries
  <2> HIDE DEF d
  <2> QED
    BY Zenon, <1>1, <1>2, <2>2, <2>3
<1> QED
  BY Zenon, <1>1, <1>3, <1>4, <1>5, <1>6, <1>7 DEF Delivery

\* A delivery keeps its range and its count to the end; what it acknowledges is its own.
LEMMA DeliversWeighed ==
  ASSUME Inv, Weighed, NEW s \in Slots, Delivery(s)
  PROVE  Weighed'
<1>0. /\ UNCHANGED f /\ dl[s].pc # "idle" /\ dl \in [Slots -> DeliveryType] /\ f.from \in Nat
      /\ \A t \in Slots : dl[t].from \in Nat /\ dl[t].to \in Nat
  BY Zenon, ThreeWays, InLog DEF Inv, Types
<1>1. CASE Abandon(s)
  <2>1. UNCHANGED acked /\ dl'[s].pc = "idle" /\ \A t \in Slots \ {s} : dl'[t] = dl[t]
    BY Zenon, <1>0, <1>1 DEF Abandon, NotComplete, Idle
  <2> QED
    BY Zenon, <1>0, <2>1 DEF Weighed
<1>2. ASSUME NEW what, Resolve(s, what) PROVE Weighed'
  <2>1. acked' = acked \cup dl[s].from..dl[s].to
    BY Zenon, <1>2 DEF Resolve, complete
  <2>2. dl'[s].pc = "idle" /\ \A t \in Slots \ {s} : dl'[t] = dl[t]
    BY Zenon, <1>0, <1>2 DEF Resolve, Idle
  <2>3. f.pc # "done" => \A l \in acked' : l < f.from
    BY <1>0, <2>1 DEF Weighed, Inv, Theirs
  <2>4. ASSUME NEW t \in Slots \ {s}, dl[t].pc # "idle", NEW l \in dl[t].from..dl[t].to
        PROVE  l \notin acked'
    <3>1. dl[s].to < dl[t].from \/ dl[t].to < dl[s].from
      BY Zenon, <1>0, <2>4 DEF Inv, Apart
    <3>2. l \notin acked
      BY Zenon, <2>4 DEF Weighed
    <3> QED
      BY SMTT(30), <1>0, <2>1, <3>1, <3>2
  <2> QED
    BY Zenon, <1>0, <2>2, <2>3, <2>4 DEF Weighed
<1>3. CASE SameBatch(s)
  BY Zenon, <1>0, <1>3 DEF SameBatch, Weighed
<1> QED
  BY Zenon, <1>1, <1>2, <1>3, ThreeWays

\* Every step keeps the ranges weighed.
LEMMA NextWeighed == Inv /\ Weighed /\ [Next]_vars => Weighed'
<1> SUFFICES ASSUME Inv, Weighed, [Next]_vars PROVE Weighed'
  BY Zenon
<1>1. CASE Flusher
  BY Zenon, <1>1, FlusherRests, ReadsWeighed, DecidesWeighed, DispatchesWeighed DEF Flusher
<1>2. CASE Writer \/ FlushCall \/ Flushing \/ CloseSeal \/ Closing \/ UNCHANGED vars
  <2>1. UNCHANGED <<f, dl, acked>>
    BY Zenon, <1>2 DEF Writer, Append1, raiseFloor, FlushCall, Flushing, FlushGate, FlushTest, FlushForce,
                FlushWoken, CloseSeal, Closing, CloseDrain, CloseDrained, CloseDelivered, CloseTimesOut,
                CloseAborts, CloseCancels, CloseLog, CloseTo, vars
  <2> QED
    BY Zenon, <2>1, Rests
<1> QED
  BY Zenon, <1>1, <1>2, DeliversWeighed DEF Next

\* And so they are at all times.
LEMMA WeighedInvariance == Spec => []Weighed
<1>1. Init => Weighed
  <2> SUFFICES ASSUME Init PROVE Weighed
    BY Zenon
  <2>1. /\ f.recs = <<>> /\ f.skip = 0 /\ f.from = 1 /\ f.to = 0 /\ acked = {}
        /\ \A s \in Slots : dl[s].pc = "idle"
    BY Zenon DEF Init, Idle
  <2>2. PICK a \in Nat, b \in Nat : a = 1 /\ b = 0
    BY Zenon
  <2>3. Weight(a, b) = 0
    BY <2>2, WeightEmpty
  <2> QED
    BY <2>1, <2>2, <2>3 DEF Weighed
<1> QED
  BY <1>1, NextWeighed, Invariance, PTL DEF Spec

-----------------------------------------------------------------------------
(* Shutdown. *)

\* Close closes abort before it cancels the context, so that a delivery that is
\* refused because of the cancellation finds abort closed.
Shutting ==
  /\ close \in {"aborted", "cancelled", "closed"} => abort
  /\ cancelled => abort
  /\ \A s \in Slots : dl[s].pc = "answered" /\ ~dl[s].genuine => abort

\* No step clears abort, and only DRefused makes a delivery "answered".
LEMMA NextShutting == Inv /\ Shutting /\ [Next]_vars => Shutting'
<1> SUFFICES ASSUME Inv, Shutting, [Next]_vars PROVE Shutting'
  BY Zenon
<1>0. dl \in [Slots -> DeliveryType] /\ abort \in BOOLEAN /\ cancelled \in BOOLEAN
  BY Zenon DEF Inv, Types
<1>1. ASSUME UNCHANGED ending, NEW s \in Slots, \A t \in Slots \ {s} : dl'[t] = dl[t],
             dl'[s].pc = "answered" /\ ~dl'[s].genuine => abort
      PROVE  Shutting'
  BY Zenon, <1>1 DEF Shutting, ending
<1>2. ASSUME NEW s \in Slots, Delivery(s) PROVE Shutting'
  <2>0. dl[s] \in DeliveryType /\ UNCHANGED ending
    BY Zenon, <1>0, <1>2 DEF Delivery, DTry, DAccepted, DPanicked, DRefused, DAnswered, DRetries, DAborted, Deliverer
  <2>1. PICK d : dl' = [dl EXCEPT ![s] = d] /\ (d.pc # "answered" \/ d.genuine = ~cancelled)
    <3>1. CASE DTry(s) \/ DAccepted(s) \/ DPanicked(s) \/ DAborted(s)
      <4>1. \/ dl' = [dl EXCEPT ![s] = Idle]
            \/ dl' = [dl EXCEPT ![s] = [dl[s] EXCEPT !.pc = "sink"]]
        BY Zenon, <1>0, <3>1 DEF DTry, DAccepted, DPanicked, DAborted, Resolve, Abandon
      <4>2. Idle.pc # "answered" /\ [dl[s] EXCEPT !.pc = "sink"].pc # "answered"
        BY Zenon, <2>0 DEF Idle, DeliveryType
      <4> QED
        BY Zenon, <4>1, <4>2
    <3>2. ASSUME NEW v \in Verdicts, DRefused(s, v)
          PROVE  \E d : dl' = [dl EXCEPT ![s] = d] /\ (d.pc # "answered" \/ d.genuine = ~cancelled)
      <4>1. PICK w : w = IF abort THEN "retry" ELSE classify(v)
        BY Zenon
      <4>2. dl' = [dl EXCEPT ![s] = [dl[s] EXCEPT !.pc = "answered", !.genuine = ~cancelled, !.verdict = w]]
        BY Zenon, <1>0, <3>2, <4>1 DEF DRefused
      <4>3. [dl[s] EXCEPT !.pc = "answered", !.genuine = ~cancelled, !.verdict = w].genuine = ~cancelled
        BY Zenon, <2>0 DEF DeliveryType
      <4> QED
        BY Zenon, <4>2, <4>3
    <3>3. CASE DAnswered(s)
      <4>1. \/ dl' = [dl EXCEPT ![s] = Idle]
            \/ dl' = [dl EXCEPT ![s] = [dl[s] EXCEPT !.pc = "wait"]]
            \/ dl' = [dl EXCEPT ![s] = [dl[s] EXCEPT !.pc = "try", !.dead = TRUE, !.attempt = 1, !.verdict = "none"]]
        BY Zenon, <1>0, <3>3 DEF DAnswered, GiveUp, Resolve, Abandon
      <4>2. /\ Idle.pc # "answered" /\ [dl[s] EXCEPT !.pc = "wait"].pc # "answered"
            /\ [dl[s] EXCEPT !.pc = "try", !.dead = TRUE, !.attempt = 1, !.verdict = "none"].pc # "answered"
        BY Zenon, <2>0 DEF Idle, DeliveryType
      <4> QED
        BY Zenon, <4>1, <4>2
    <3>4. CASE DRetries(s)
      <4>1. PICK n : dl' = [dl EXCEPT ![s] = [dl[s] EXCEPT !.pc = "try", !.verdict = "none", !.attempt = n]]
        BY Zenon, <1>0, <3>4 DEF DRetries
      <4>2. [dl[s] EXCEPT !.pc = "try", !.verdict = "none", !.attempt = n].pc # "answered"
        BY Zenon, <2>0 DEF DeliveryType
      <4> QED
        BY Zenon, <4>1, <4>2
    <3> QED
      BY Zenon, <1>2, <3>1, <3>2, <3>3, <3>4 DEF Delivery
  <2>2. dl'[s] = d /\ \A t \in Slots \ {s} : dl'[t] = dl[t]
    BY Zenon, <1>0, <2>1
  <2>3. d.pc = "answered" /\ ~d.genuine => abort
    BY Zenon, <1>0, <2>1 DEF Shutting
  <2> QED
    BY Zenon, <1>1, <2>0, <2>2, <2>3
<1>3. ASSUME NEW s \in Slots, FDispatch(s) PROVE Shutting'
  <2>1. UNCHANGED ending /\ \A t \in Slots \ {s} : dl'[t] = dl[t]
    BY Zenon, <1>0, <1>3 DEF FDispatch
  <2>2. dl'[s].pc = "try"
    <3>1. [Idle EXCEPT !.pc = "try", !.recs = f.recs, !.from = f.from,
                       !.to = f.to, !.skip = f.skip, !.attempt = 1].pc = "try"
      BY Zenon DEF Idle
    <3> QED
      BY Zenon, <1>0, <1>3, <3>1 DEF FDispatch
  <2> QED
    BY Zenon, <1>1, <2>1, <2>2
<1>4. CASE Writer \/ FlushCall \/ Flushing \/ UNCHANGED vars
  <2>1. UNCHANGED <<dl, close, abort, cancelled>>
    BY Zenon, <1>4 DEF Writer, Append1, raiseFloor, FlushCall, Flushing, FlushGate, FlushTest, FlushForce,
                FlushWoken, ending, vars
  <2> QED
    BY Zenon, <2>1 DEF Shutting
<1>5. CASE Flusher /\ ~\E s \in Slots : FDispatch(s)
  <2>1. UNCHANGED <<dl, close, abort, cancelled>>
    BY Zenon, <1>5 DEF Flusher, FTopFailed, FTopHeld, FTop, FReadFails, FReadSkip, FReadStop, FReadTake, FReadEnd,
                FStop, FDecide, FDispatchAborted, Select, FWoken, FTicked, FDrainNow, FAborted, ending
  <2> QED
    BY Zenon, <2>1 DEF Shutting
<1>6. CASE CloseSeal \/ Closing
  <2>1. UNCHANGED dl /\ (abort => abort')
    BY Zenon, <1>0, <1>6 DEF CloseSeal, Closing, CloseDrain, CloseDrained, CloseDelivered, CloseTimesOut,
                CloseAborts, CloseCancels, CloseLog, CloseTo
  <2>2. (close' \in {"aborted", "cancelled", "closed"} => abort') /\ (cancelled' => abort')
    BY <1>0, <1>6 DEF CloseSeal, Closing, CloseDrain, CloseDrained, CloseDelivered, CloseTimesOut,
                CloseAborts, CloseCancels, CloseLog, CloseTo, Shutting
  <2> QED
    BY Zenon, <2>1, <2>2 DEF Shutting
<1> QED
  BY Zenon, <1>2, <1>3, <1>4, <1>5, <1>6 DEF Next

-----------------------------------------------------------------------------
(* The results. *)

\* At least once: a record is acknowledged only after it is resolved (complete, flush.go).
THEOREM NothingAckedUnresolved == Spec => []AckedResolved
<1>1. Inv => AckedResolved
  BY Zenon DEF Inv, Acks, AckedResolved, Records
<1> QED
  BY <1>1, Invariance, PTL

\* Batch.ID + i names the i-th record of a batch, which no other delivery has resolved.
THEOREM BatchesAreConsecutive == Spec => []BatchesConsecutive
<1>1. Inv => BatchesConsecutive
  <2> SUFFICES ASSUME Inv, NEW recs \in {dl[s].recs : s \in Live} \cup {f.recs}, NEW i \in DOMAIN recs
               PROVE  /\ recs[i] = recs[1] + i - 1
                      /\ recs[i] \in Records /\ fate[recs[i]] = "pending"
    BY Zenon DEF BatchesConsecutive
  <2>0. /\ durable \in Nat /\ f.from \in Nat /\ f.to \in Nat /\ f.pos \in Nat
        /\ 1 <= f.from /\ f.from <= f.to + 1 /\ f.to < f.pos /\ f.pos <= durable + 1
    BY Zenon, InLog
  <2>1. CASE recs = f.recs
    <3>1. /\ recs[i] = recs[1] + i - 1 /\ recs[i] \in f.from..f.to /\ recs[i] \notin Gaps
          /\ fate[recs[i]] = "pending"
      BY Zenon, <2>1 DEF Inv, Mine, Batch
    <3> QED
      BY <2>0, <3>1 DEF Records
  <2>2. ASSUME NEW s \in Live, recs = dl[s].recs
        PROVE  recs[i] = recs[1] + i - 1 /\ recs[i] \in Records /\ fate[recs[i]] = "pending"
    <3>0. s \in Slots /\ dl[s].pc # "idle" /\ dl[s].from \in Nat /\ dl[s].to \in Nat
      BY Zenon, InLog DEF Live
    <3>1. /\ recs[i] = recs[1] + i - 1 /\ recs[i] \in dl[s].from..dl[s].to /\ recs[i] \notin Gaps
          /\ fate[recs[i]] = "pending" /\ 1 <= dl[s].from /\ dl[s].to < f.from
      BY Zenon, <2>2, <3>0 DEF Inv, Theirs, Batch
    <3> QED
      BY <2>0, <3>0, <3>1 DEF Records
  <2> QED
    BY Zenon, <2>1, <2>2
<1> QED
  BY <1>1, Invariance, PTL

\* When Close has drained and the buffer has not failed, the whole log is acknowledged (Close, flush.go).
THEOREM DrainIsComplete == Spec => []DrainedMeansResolved
<1>1. Inv => DrainedMeansResolved
  <2> SUFFICES ASSUME Inv, close = "delivering", Quiet, ~failed
               PROVE  1..durable \subseteq acked /\ \A l \in Records : fate[l] # "pending"
    BY Zenon DEF DrainedMeansResolved
  <2>0. durable \in Nat /\ f.from \in Nat
    BY Zenon, InLog
  <2>1. ~abort /\ durable < f.from
    BY Zenon DEF Inv, Ending
  <2>2. \A l \in 1..(f.from - 1) : l \in acked
    BY Zenon, <2>1 DEF Inv, Cover, Quiet
  <2>3. 1..durable \subseteq acked
    BY <2>0, <2>1, <2>2
  <2> QED
    BY Zenon, <2>3 DEF Inv, Acks, Records
<1> QED
  BY <1>1, Invariance, PTL

\* A record has one outcome, whichever delivery or skip settles it.
THEOREM OneOutcome == Spec => ResolvedOnce
<1>1. Inv /\ [Next]_vars => [\A l \in 1..MaxLSN : fate[l] # "pending" => fate'[l] = fate[l]]_vars
  <2> SUFFICES ASSUME Inv, Next, NEW l \in 1..MaxLSN, fate[l] # "pending"
               PROVE  fate'[l] = fate[l]
    BY Zenon
  <2>1. CASE UNCHANGED fate
    BY Zenon, <2>1
  <2>2. CASE FReadSkip
    <3>1. Next1 \in Nat /\ f.to < Next1 /\ Next1 <= durable /\ f.to \in Nat /\ durable \in Nat
          /\ durable <= MaxLSN /\ MaxLSN \in Nat
      BY Zenon, <2>2, JustRead DEF FReadSkip
    <3>2. fate[Next1] = "pending"
      BY <3>1 DEF Inv, Mine
    <3> QED
      BY Zenon, <2>2, <3>2 DEF FReadSkip, Become
  <2>3. ASSUME NEW s \in Slots, dl[s].pc # "idle", NEW what \in {"sunk", "dead", "dropped"}, Resolve(s, what)
        PROVE  fate'[l] = fate[l]
    <3>1. /\ \A k \in Range(dl[s].recs) : fate[k] = "pending"
          /\ fate'[l] = IF l \in Range(dl[s].recs) THEN what ELSE fate[l]
      BY Zenon, <2>3, Settles DEF Resolve
    <3> QED
      BY Zenon, <3>1
  <2>4. ASSUME NEW s \in Slots, Delivery(s) PROVE fate'[l] = fate[l]
    <3>1. CASE DTry(s)
      BY Zenon, <2>1, <2>3, <3>1 DEF DTry
    <3>2. CASE DAccepted(s)
      <4>1. dl[s].pc # "idle" /\ Resolve(s, IF dl[s].dead THEN "dead" ELSE "sunk")
        BY Zenon, <3>2 DEF DAccepted
      <4> QED
        BY Zenon, <2>3, <4>1
    <3>3. CASE DPanicked(s) \/ DAborted(s) \/ DRetries(s) \/ \E v \in Verdicts : DRefused(s, v)
      BY Zenon, <2>1, <3>3 DEF DPanicked, DAborted, DRetries, DRefused, Abandon
    <3>4. CASE DAnswered(s)
      <4>1. dl[s].pc # "idle" /\ (UNCHANGED fate \/ Resolve(s, "dropped"))
        BY Zenon, <3>4 DEF DAnswered, GiveUp, Abandon
      <4> QED
        BY Zenon, <2>1, <2>3, <4>1
    <3> QED
      BY Zenon, <2>4, <3>1, <3>2, <3>3, <3>4 DEF Delivery
  <2>5. CASE Writer \/ FlushCall \/ Flushing \/ CloseSeal \/ Closing
    BY Zenon, <2>1, <2>5 DEF Writer, Append1, raiseFloor, FlushCall, Flushing, FlushGate, FlushTest, FlushForce,
                      FlushWoken, CloseSeal, Closing, CloseDrain, CloseDrained, CloseDelivered, CloseTimesOut,
                      CloseAborts, CloseCancels, CloseLog, CloseTo
  <2>6. CASE Flusher
    BY Zenon, <2>1, <2>2, <2>6 DEF Flusher, FTopFailed, FTopHeld, FTop, FReadFails, FReadStop, FReadTake, FReadEnd,
                            FStop, FDecide, FDispatch, FDispatchAborted, Select, FWoken, FTicked, FDrainNow,
                            FAborted
  <2> QED
    BY Zenon, <2>4, <2>5, <2>6 DEF Next
<1> QED
  BY <1>1, Invariance, PTL DEF Spec, ResolvedOnce

\* The ranges tile the log: those of the batches lie side by side, below the
\* flusher's and outside what is acknowledged, and every record of a range is in
\* the batch or counted as skipped, so an ack releases each record's place once
\* (complete and startBatch, flush.go).
THEOREM RangesAreTiled == Spec => []RangesTile
<1>1. Inv /\ Weighed => RangesTile
  <2> SUFFICES ASSUME Inv, Weighed PROVE RangesTile
    BY Zenon
  <2>0. /\ durable \in Nat /\ f.from \in Nat /\ f.to \in Nat /\ f.pos \in Nat
        /\ 1 <= f.from /\ f.from <= f.to + 1 /\ f.to < f.pos /\ f.pos <= durable + 1
        /\ \A s \in Slots : dl[s].from \in Nat /\ dl[s].to \in Nat
    BY Zenon, InLog
  <2>1. ASSUME NEW a \in Nat, NEW b \in Nat, 1 <= a, b <= durable PROVE Held(a, b) = Weight(a, b)
    <3>1. Records \cap a..b = (a..b) \ Gaps
      BY <2>0, <2>1 DEF Records
    <3> QED
      BY Zenon, <3>1 DEF Held, Weight
  <2>2. ASSUME NEW s \in Slots, dl[s].pc # "idle"
        PROVE  /\ dl[s].from..dl[s].to \subseteq (1..(f.from - 1)) \ acked
               /\ Len(dl[s].recs) + dl[s].skip = Held(dl[s].from, dl[s].to)
    <3>1. 1 <= dl[s].from /\ dl[s].to < f.from
      BY Zenon, <2>2 DEF Inv, Theirs
    <3>2. \A l \in dl[s].from..dl[s].to : l \in 1..(f.from - 1)
      BY <2>0, <3>1
    <3>3. /\ \A l \in dl[s].from..dl[s].to : l \notin acked
          /\ Len(dl[s].recs) + dl[s].skip = Weight(dl[s].from, dl[s].to)
      BY Zenon, <2>2 DEF Weighed
    <3>4. dl[s].to <= durable
      BY <2>0, <3>1
    <3>5. Held(dl[s].from, dl[s].to) = Weight(dl[s].from, dl[s].to)
      BY ZenonT(30), <2>0, <2>1, <3>1, <3>4
    <3> QED
      BY Zenon, <3>2, <3>3, <3>5
  <2>3. Held(f.from, f.to) = Weight(f.from, f.to)
    BY <2>0, <2>1
  <2>4. f.pc # "done" => (\A l \in acked : l < f.from) /\ Len(f.recs) + f.skip = Held(f.from, f.to)
    BY Zenon, <2>3 DEF Weighed
  <2>5. \A s, t \in Live : s # t => dl[s].to < dl[t].from \/ dl[t].to < dl[s].from
    BY Zenon DEF Inv, Apart, Live
  <2> QED
    BY Zenon, <2>2, <2>4, <2>5 DEF RangesTile, Live
<1> QED
  BY <1>1, Invariance, WeighedInvariance, PTL

\* A refusal that the shutdown itself caused disposes of nothing: the batch is left
\* to the next run, neither acknowledged nor given a fate (deliver, and the order
\* of close(abort) and cancel in Close).
THEOREM ShutdownIsHarmless == Spec => ShutdownDisposesNothing
<1>1. Init => Shutting
  BY DEF Init, Shutting, Idle
<1>2. Spec => []Shutting
  BY <1>1, NextShutting, Invariance, PTL DEF Spec
<1>3. Inv /\ Shutting /\ [Next]_vars =>
        [\A s \in Slots : dl[s].pc = "answered" /\ ~dl[s].genuine /\ dl'[s] # dl[s] =>
           dl'[s] = Idle /\ UNCHANGED <<acked, fate>>]_vars
  <2> SUFFICES ASSUME Inv, Shutting, Next, NEW s \in Slots, dl[s].pc = "answered", ~dl[s].genuine,
                      dl'[s] # dl[s]
               PROVE  dl'[s] = Idle /\ UNCHANGED <<acked, fate>>
    BY Zenon DEF vars
  <2>0. dl \in [Slots -> DeliveryType] /\ abort
    BY Zenon DEF Inv, Types, Shutting
  <2>1. CASE Delivery(s)
    <3>1. DAnswered(s)
      BY Zenon, <2>1 DEF Delivery, DTry, DAccepted, DPanicked, DRefused, DRetries, DAborted
    <3> QED
      BY Zenon, <2>0, <3>1 DEF DAnswered, Abandon, NotComplete
  <2>2. ASSUME NEW t \in Slots, Delivery(t), t # s PROVE FALSE
    <3>1. dl'[s] = dl[s]
      BY Zenon, <2>0, <2>2, ThreeWays DEF Abandon, Resolve, SameBatch
    <3> QED
      BY Zenon, <3>1
  <2>3. ASSUME NEW t \in Slots, FDispatch(t) PROVE FALSE
    <3>1. t # s /\ dl'[s] = dl[s]
      BY Zenon, <2>0, <2>3 DEF FDispatch
    <3> QED
      BY Zenon, <3>1
  <2>4. CASE Writer \/ FlushCall \/ Flushing \/ CloseSeal \/ Closing
    BY Zenon, <2>4 DEF Writer, Append1, raiseFloor, FlushCall, Flushing, FlushGate, FlushTest, FlushForce,
                FlushWoken, CloseSeal, Closing, CloseDrain, CloseDrained, CloseDelivered, CloseTimesOut,
                CloseAborts, CloseCancels, CloseLog, CloseTo
  <2>5. CASE Flusher
    BY Zenon, <2>3, <2>5 DEF Flusher, FTopFailed, FTopHeld, FTop, FReadFails, FReadSkip, FReadStop, FReadTake,
                      FReadEnd, FStop, FDecide, FDispatchAborted, Select, FWoken, FTicked, FDrainNow, FAborted
  <2> QED
    BY Zenon, <2>1, <2>2, <2>4, <2>5 DEF Next
<1> QED
  BY <1>2, <1>3, Invariance, PTL DEF Spec, ShutdownDisposesNothing

=============================================================================
