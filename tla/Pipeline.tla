------------------------------ MODULE Pipeline ------------------------------
(***************************************************************************)
(* The way out of the buffer, flush.go: the flusher reads the log and cuts *)
(* it into batches, MaxInFlight deliveries hand them to the sink and then  *)
(* to the dead-letter sink, DropOldest raises a floor under them, a caller *)
(* waits in Flush, and Close drains, or gives up and aborts.               *)
(*                                                                         *)
(* The log is the set of its record LSNs (module Reader shows that Next()  *)
(* returns them in order), and the low-water mark is a function of what is *)
(* acknowledged (module AckTracker).  A crash is modules Log and           *)
(* Checkpointer's subject.  Time is left out: a timer may fire at any      *)
(* moment.                                                                 *)
(***************************************************************************)
EXTENDS Integers, Sequences, FiniteSets, FiniteSetsExt, Functions, TLC

CONSTANTS MaxLSN,         \* bound: no LSN is above this
          Inherited,      \* the last record in the log when the buffer opens
          Gaps,           \* LSNs recovery left without a record
          Undecodable,    \* records the codec refuses
          Slots,          \* the MaxInFlight delivery slots
          FlushRecords,   \* WithFlush
          MaxAttempts,    \* WithRetry, 0 means forever
          DLQAttempts,    \* WithDeadLetterRetry, 0 means forever
          HasDLQ,         \* TRUE with a dead-letter sink
          Faults,         \* what may fail the buffer: see FaultKinds
          Drops,          \* TRUE if writers run DropOldest
          Calls,          \* which of Flush and Close are called
          CloseExpires    \* TRUE if Close's context has a deadline

FaultKinds == {"read", "stop", "fatal", "panic", "handler"}

ASSUME PipelineAssumption ==
  /\ MaxLSN \in Nat \ {0} /\ FlushRecords \in Nat \ {0}
  /\ MaxAttempts \in Nat /\ DLQAttempts \in Nat
  /\ Gaps \subseteq 1..(MaxLSN - 1) /\ Undecodable \subseteq 1..MaxLSN
  /\ Inherited \in (0..MaxLSN) \ Gaps
  /\ Faults \subseteq FaultKinds /\ Slots # {}
  /\ Calls \subseteq {"Flush", "Close"}
  /\ HasDLQ \in BOOLEAN /\ Drops \in BOOLEAN /\ CloseExpires \in BOOLEAN

VARIABLES durable,     \* the last record in the log
          f,           \* the flusher and its local variables
          dl,          \* the deliveries, by slot
          acked,       \* the LSNs acknowledged
          fate,        \* history: what became of every LSN's record
          floor, failed, wake, forceFlush,     \* fields of Buffer
          flush,       \* one call of Flush
          close, abort, cancelled              \* Close, b.abort, b.deliverCtx

buffer == <<floor, failed, wake, forceFlush>>
ending == <<close, abort, cancelled>>
vars   == <<durable, f, dl, acked, fate, buffer, flush, ending>>

Records == (1..durable) \ Gaps
mark    == Max({m \in 0..MaxLSN : 1..m \subseteq acked})

Idle == [pc |-> "idle", recs |-> <<>>, from |-> 0, to |-> 0, skip |-> 0,
         attempt |-> 0, dead |-> FALSE, verdict |-> "none", genuine |-> FALSE]

Init ==
  /\ durable = Inherited
  /\ f = [pc |-> "top", pos |-> 1, recs |-> <<>>, from |-> 1, to |-> 0, skip |-> 0,
          expired |-> FALSE, draining |-> FALSE, cut |-> FALSE, stop |-> 0, held |-> 0]
  /\ dl = [s \in Slots |-> Idle]
  /\ acked = {}
  /\ fate = [l \in 1..MaxLSN |-> "pending"]
  /\ floor = 1 /\ failed = FALSE /\ wake = FALSE /\ forceFlush = FALSE
  /\ flush = [pc |-> "idle", target |-> 0, woken |-> FALSE]
  /\ close = "open" /\ abort = FALSE /\ cancelled = FALSE

-----------------------------------------------------------------------------
(* What several handlers share. *)

\* complete(from, to, ...): the ack, and the signal on the progress gate.
complete(from, to) ==
  /\ acked' = acked \cup from..to
  /\ flush' = [flush EXCEPT !.woken = flush.pc # "idle"]

NotComplete == UNCHANGED <<acked, flush>>

Become(lsns, what) == fate' = [l \in 1..MaxLSN |-> IF l \in lsns THEN what ELSE fate[l]]

\* completeRange, for a delivery whose records became what, and its slot is free.
Resolve(s, what) ==
  /\ Become(Range(dl[s].recs), what)
  /\ complete(dl[s].from, dl[s].to)
  /\ dl' = [dl EXCEPT ![s] = Idle]

\* A delivery ends with its range unacknowledged.
Abandon(s) == dl' = [dl EXCEPT ![s] = Idle] /\ NotComplete /\ UNCHANGED fate

-----------------------------------------------------------------------------
(* Writers.  A writer that entered before Close sealed the buffer finishes. *)

Writable == close \in {"open", "sealed"}

Append1 ==
  /\ Writable /\ durable < MaxLSN
  /\ durable' = Min({l \in (durable + 1)..MaxLSN : l \notin Gaps})
  /\ wake' = TRUE
  /\ UNCHANGED <<f, dl, acked, fate, floor, failed, forceFlush, flush, ending>>

\* raiseFloor, with any value a writer may have computed, and the nudge after it.
raiseFloor(to) ==
  /\ Drops /\ Writable /\ to > floor
  /\ floor' = to
  /\ wake' = TRUE
  /\ UNCHANGED <<durable, f, dl, acked, fate, failed, forceFlush, flush, ending>>

-----------------------------------------------------------------------------
(* The flusher. *)

Unread == {l \in Records : l >= f.pos}
Next1  == Min(Unread)
Full   == Len(f.recs) >= FlushRecords
Filling == f.pc = "read" /\ ~f.cut /\ ~Full

\* Mutant: the stretch acknowledged includes the record that opens the batch.
startBatchTooFar(lsn) == IF lsn > f.from THEN complete(f.from, lsn) ELSE NotComplete

\* startBatch(lsn): the stretch in front of the batch is acknowledged first.
startBatch(lsn) == IF lsn > f.from THEN complete(f.from, lsn - 1) ELSE NotComplete

\* f with the first record of a batch in it.
Opened(lsn) == [f EXCEPT !.recs = <<lsn>>, !.from = lsn, !.to = lsn,
                         !.skip = IF lsn > f.from THEN 0 ELSE f.skip]

FTopFailed ==
  /\ f.pc = "top" /\ failed
  /\ f' = [f EXCEPT !.pc = "done"]
  /\ UNCHANGED <<durable, dl, acked, fate, buffer, flush, ending>>

FTopHeld ==
  /\ f.pc = "top" /\ ~failed /\ f.held # 0 /\ f.recs = <<>>
  /\ startBatch(f.held)
  /\ f' = [Opened(f.held) EXCEPT !.pc = "read", !.held = 0]
  /\ UNCHANGED <<durable, dl, fate, buffer, ending>>

FTop ==
  /\ f.pc = "top" /\ ~failed /\ (f.held = 0 \/ f.recs # <<>>)
  /\ f' = [f EXCEPT !.pc = "read"]
  /\ UNCHANGED <<durable, dl, acked, fate, buffer, flush, ending>>

FReadFails ==
  /\ Filling /\ "read" \in Faults
  /\ failed' = TRUE
  /\ f' = [f EXCEPT !.pc = "done"]
  /\ UNCHANGED <<durable, dl, acked, fate, floor, wake, forceFlush, flush, ending>>

\* Below the floor, or undecodable and the handler lets it go.
FReadSkip ==
  /\ Filling /\ Unread # {}
  /\ Next1 < floor \/ Next1 \in Undecodable
  /\ f' = [f EXCEPT !.pos = Next1 + 1, !.to = Next1, !.skip = @ + 1, !.cut = f.recs # <<>>]
  /\ Become({Next1}, "dropped")
  /\ UNCHANGED <<durable, dl, acked, buffer, flush, ending>>

\* StopBuffer: the record stays in the log and the flusher ends.
FReadStop ==
  /\ Filling /\ Unread # {} /\ "stop" \in Faults
  /\ Next1 >= floor /\ Next1 \in Undecodable
  /\ f' = [f EXCEPT !.pos = Next1 + 1, !.stop = Next1, !.pc = "decide"]
  /\ UNCHANGED <<durable, dl, acked, fate, buffer, flush, ending>>

\* Mutant: a gap does not end the batch.
FReadTakeOverGap ==
  /\ Filling /\ Unread # {} /\ Next1 >= floor /\ Next1 \notin Undecodable
  /\ IF f.recs = <<>>
     THEN startBatch(Next1) /\ f' = [Opened(Next1) EXCEPT !.pos = Next1 + 1]
     ELSE /\ NotComplete
          /\ f' = [f EXCEPT !.pos = Next1 + 1, !.recs = Append(@, Next1), !.to = Next1]
  /\ UNCHANGED <<durable, dl, fate, buffer, ending>>

\* A record that opens the batch, extends it, or is held for the next one.
FReadTake ==
  /\ Filling /\ Unread # {} /\ Next1 >= floor /\ Next1 \notin Undecodable
  /\ IF f.recs = <<>>
     THEN startBatch(Next1) /\ f' = [Opened(Next1) EXCEPT !.pos = Next1 + 1]
     ELSE /\ NotComplete
          /\ f' = IF Next1 = f.recs[Len(f.recs)] + 1
                  THEN [f EXCEPT !.pos = Next1 + 1, !.recs = Append(@, Next1), !.to = Next1]
                  ELSE [f EXCEPT !.pos = Next1 + 1, !.held = Next1, !.cut = TRUE]
  /\ UNCHANGED <<durable, dl, fate, buffer, ending>>

FReadEnd ==
  /\ f.pc = "read" /\ (f.cut \/ Full \/ Unread = {})
  /\ f' = [f EXCEPT !.pc = "decide"]
  /\ UNCHANGED <<durable, dl, acked, fate, buffer, flush, ending>>

\* The end after StopBuffer: what was read before it is handed on, then fail.
FStop ==
  /\ f.pc = "decide" /\ f.stop # 0
  /\ IF f.recs # <<>>
     THEN f' = [f EXCEPT !.pc = "dispatch"] /\ NotComplete /\ UNCHANGED failed
     ELSE /\ f' = [f EXCEPT !.pc = "done"] /\ failed' = TRUE
          /\ IF f.to >= f.from THEN complete(f.from, f.to) ELSE NotComplete
  /\ UNCHANGED <<durable, dl, fate, floor, wake, forceFlush, ending>>

\* Mutant: a drain ends the flusher with a partial batch in hand.
FDecideDrainsEarly ==
  /\ f.pc = "decide" /\ f.stop = 0
  /\ forceFlush' = FALSE
  /\ LET g == [f EXCEPT !.expired = @ \/ forceFlush]
     IN  IF g.recs # <<>> /\ (Full \/ g.expired \/ g.cut)
         THEN f' = [g EXCEPT !.pc = "dispatch"] /\ NotComplete
         ELSE IF g.recs = <<>> /\ g.to >= g.from
         THEN /\ f' = [g EXCEPT !.pc = "top", !.from = g.to + 1, !.skip = 0, !.cut = FALSE]
              /\ complete(g.from, g.to)
         ELSE /\ f' = [g EXCEPT !.pc = IF g.draining THEN "done" ELSE "select"]
              /\ NotComplete
  /\ UNCHANGED <<durable, dl, fate, floor, failed, wake, ending>>

\* Dispatch, acknowledge a range that was all skipped, end, or wait.
FDecide ==
  /\ f.pc = "decide" /\ f.stop = 0
  /\ forceFlush' = FALSE
  /\ LET g == [f EXCEPT !.expired = @ \/ forceFlush]
     IN  IF g.recs # <<>> /\ (Full \/ g.expired \/ g.draining \/ g.cut)
         THEN f' = [g EXCEPT !.pc = "dispatch"] /\ NotComplete
         ELSE IF g.recs = <<>> /\ g.to >= g.from
         THEN /\ f' = [g EXCEPT !.pc = "top", !.from = g.to + 1, !.skip = 0, !.cut = FALSE]
              /\ complete(g.from, g.to)
         ELSE /\ f' = [g EXCEPT !.pc = IF g.draining /\ g.recs = <<>> THEN "done" ELSE "select"]
              /\ NotComplete
  /\ UNCHANGED <<durable, dl, fate, floor, failed, wake, ending>>

\* Mutant: the next range starts at the batch's last record.
FDispatchOverlaps(s) ==
  /\ f.pc = "dispatch" /\ dl[s].pc = "idle"
  /\ dl' = [dl EXCEPT ![s] = [Idle EXCEPT !.pc = "try", !.recs = f.recs, !.from = f.from,
                                          !.to = f.to, !.skip = f.skip, !.attempt = 1]]
  /\ f' = [f EXCEPT !.pc = IF f.stop # 0 THEN "done" ELSE "top", !.recs = <<>>, !.from = f.to,
                    !.skip = 0, !.expired = FALSE, !.cut = FALSE]
  /\ failed' = (failed \/ f.stop # 0)
  /\ UNCHANGED <<durable, acked, fate, floor, wake, forceFlush, flush, ending>>

\* Mutant: the flusher's slice is not emptied.
FDispatchKeepsRecords(s) ==
  /\ f.pc = "dispatch" /\ dl[s].pc = "idle"
  /\ dl' = [dl EXCEPT ![s] = [Idle EXCEPT !.pc = "try", !.recs = f.recs, !.from = f.from,
                                          !.to = f.to, !.skip = f.skip, !.attempt = 1]]
  /\ f' = [f EXCEPT !.pc = IF f.stop # 0 THEN "done" ELSE "top",
                    !.from = f.to + 1, !.skip = 0, !.expired = FALSE, !.cut = FALSE]
  /\ failed' = (failed \/ f.stop # 0)
  /\ UNCHANGED <<durable, acked, fate, floor, wake, forceFlush, flush, ending>>

\* dispatch: a slot of b.sem is free.  The one call after StopBuffer ends the flusher.
FDispatch(s) ==
  /\ f.pc = "dispatch" /\ dl[s].pc = "idle"
  /\ dl' = [dl EXCEPT ![s] = [Idle EXCEPT !.pc = "try", !.recs = f.recs, !.from = f.from,
                                          !.to = f.to, !.skip = f.skip, !.attempt = 1]]
  /\ f' = [f EXCEPT !.pc = IF f.stop # 0 THEN "done" ELSE "top", !.recs = <<>>,
                    !.from = f.to + 1, !.skip = 0, !.expired = FALSE, !.cut = FALSE]
  /\ failed' = (failed \/ f.stop # 0)
  /\ UNCHANGED <<durable, acked, fate, floor, wake, forceFlush, flush, ending>>

FDispatchAborted ==
  /\ f.pc = "dispatch" /\ abort
  /\ f' = [f EXCEPT !.pc = "done"]
  /\ failed' = (failed \/ f.stop # 0)
  /\ UNCHANGED <<durable, dl, acked, fate, floor, wake, forceFlush, flush, ending>>

\* The select at the end of the loop.
FWoken ==
  /\ f.pc = "select" /\ wake
  /\ wake' = FALSE
  /\ f' = [f EXCEPT !.pc = "top"]
  /\ UNCHANGED <<durable, dl, acked, fate, floor, failed, forceFlush, flush, ending>>

\* Mutant: the tick does not make a partial batch due.
FTickedUnexpired ==
  /\ f.pc = "select"
  /\ f' = [f EXCEPT !.pc = "top"]
  /\ UNCHANGED <<durable, dl, acked, fate, buffer, flush, ending>>

FTicked ==
  /\ f.pc = "select"
  /\ f' = [f EXCEPT !.pc = "top", !.expired = TRUE]
  /\ UNCHANGED <<durable, dl, acked, fate, buffer, flush, ending>>

FDrainNow ==
  /\ f.pc = "select" /\ close \notin {"open", "sealed"}
  /\ f' = [f EXCEPT !.pc = "top", !.draining = TRUE]
  /\ UNCHANGED <<durable, dl, acked, fate, buffer, flush, ending>>

FAborted ==
  /\ f.pc = "select" /\ abort
  /\ f' = [f EXCEPT !.pc = "done"]
  /\ UNCHANGED <<durable, dl, acked, fate, buffer, flush, ending>>

-----------------------------------------------------------------------------
(* A delivery: deliver, and deadLetter inside it when dead is set. *)

Deliverer == <<durable, f, floor, wake, forceFlush, ending>>   \* what it never writes

\* The floor is read, then the sink is called.
DTry(s) ==
  /\ dl[s].pc = "try"
  /\ IF Head(dl[s].recs) < floor
     THEN Resolve(s, "dropped")
     ELSE dl' = [dl EXCEPT ![s].pc = "sink"] /\ NotComplete /\ UNCHANGED fate
  /\ UNCHANGED <<Deliverer, failed>>

DAccepted(s) ==
  /\ dl[s].pc = "sink"
  /\ Resolve(s, IF dl[s].dead THEN "dead" ELSE "sunk")
  /\ UNCHANGED <<Deliverer, failed>>

\* sinkPanicked
DPanicked(s) ==
  /\ dl[s].pc = "sink" /\ "panic" \in Faults
  /\ failed' = TRUE
  /\ Abandon(s)
  /\ UNCHANGED Deliverer

Verdicts == {"retry", "permanent"} \cup (Faults \cap {"fatal", "handler"})

\* classify: a handler that panics fails the buffer, and its verdict is FailBuffer.
classify(v) == IF v = "handler" THEN "fatal" ELSE v

\* The sink returns an error; it is classified unless Close has aborted.
DRefused(s, v) ==
  /\ dl[s].pc = "sink" /\ v \in Verdicts
  /\ dl' = [dl EXCEPT ![s].pc = "answered", ![s].genuine = ~cancelled,
                      ![s].verdict = IF abort THEN "retry" ELSE classify(v)]
  /\ failed' = (failed \/ (v = "handler" /\ ~abort))
  /\ UNCHANGED <<Deliverer, acked, fate, flush>>

Limit(s) == IF dl[s].dead THEN DLQAttempts ELSE MaxAttempts

Exhausted(s) == Limit(s) > 0 /\ dl[s].attempt >= Limit(s)

\* The sink will not have the batch: on to the dead-letter sink, if there is one left.
GiveUp(s) ==
  IF dl[s].dead \/ ~HasDLQ
  THEN Resolve(s, "dropped")
  ELSE /\ dl' = [dl EXCEPT ![s].pc = "try", ![s].dead = TRUE, ![s].attempt = 1,
                           ![s].verdict = "none"]
       /\ NotComplete /\ UNCHANGED fate

\* Mutant: the second look at abort is missing.
DAnsweredAborting(s) ==
  /\ dl[s].pc = "answered"
  /\ IF dl[s].verdict = "fatal" THEN Abandon(s)
     ELSE IF dl[s].verdict = "permanent" \/ Exhausted(s) THEN GiveUp(s)
     ELSE dl' = [dl EXCEPT ![s].pc = "wait"] /\ NotComplete /\ UNCHANGED fate
  /\ failed' = (failed \/ dl[s].verdict = "fatal")
  /\ UNCHANGED Deliverer

DAnswered(s) ==
  /\ dl[s].pc = "answered"
  /\ IF abort \/ dl[s].verdict = "fatal" THEN Abandon(s)
     ELSE IF dl[s].verdict = "permanent" \/ Exhausted(s) THEN GiveUp(s)
     ELSE dl' = [dl EXCEPT ![s].pc = "wait"] /\ NotComplete /\ UNCHANGED fate
  /\ failed' = (failed \/ (~abort /\ dl[s].verdict = "fatal"))
  /\ UNCHANGED Deliverer

(***************************************************************************)
(* awaitRetry.  The delay may end at any moment, so a raised floor ending  *)
(* it early is no step of its own.  Attempts are not counted without limit.*)
(***************************************************************************)
DRetries(s) ==
  /\ dl[s].pc = "wait"
  /\ dl' = [dl EXCEPT ![s].pc = "try", ![s].verdict = "none",
                      ![s].attempt = IF Limit(s) > 0 THEN @ + 1 ELSE @]
  /\ UNCHANGED <<Deliverer, failed, acked, fate, flush>>

DAborted(s) ==
  /\ dl[s].pc = "wait" /\ abort
  /\ Abandon(s)
  /\ UNCHANGED <<Deliverer, failed>>

-----------------------------------------------------------------------------
(* Flush: take the gate, test, ask for a partial batch, wait. *)

FlushCall ==
  /\ flush.pc = "idle" /\ "Flush" \in Calls
  /\ flush' = [pc |-> "gate", target |-> durable, woken |-> FALSE]
  /\ UNCHANGED <<durable, f, dl, acked, fate, buffer, ending>>

FlushGate ==
  /\ flush.pc = "gate"
  /\ flush' = [flush EXCEPT !.pc = "test", !.woken = FALSE]
  /\ UNCHANGED <<durable, f, dl, acked, fate, buffer, ending>>

FlushTest ==
  /\ flush.pc = "test"
  /\ flush' = [flush EXCEPT !.pc = IF failed THEN "error" ELSE
                                   IF mark >= flush.target THEN "ok" ELSE "force"]
  /\ UNCHANGED <<durable, f, dl, acked, fate, buffer, ending>>

\* Mutant: the gate is taken after the test.
FlushForceLateGate ==
  /\ flush.pc = "force"
  /\ forceFlush' = TRUE /\ wake' = TRUE
  /\ flush' = [flush EXCEPT !.pc = "wait", !.woken = FALSE]
  /\ UNCHANGED <<durable, f, dl, acked, fate, floor, failed, ending>>

FlushForce ==
  /\ flush.pc = "force"
  /\ forceFlush' = TRUE /\ wake' = TRUE
  /\ flush' = [flush EXCEPT !.pc = "wait"]
  /\ UNCHANGED <<durable, f, dl, acked, fate, floor, failed, ending>>

FlushWoken ==
  /\ flush.pc = "wait" /\ flush.woken
  /\ flush' = [flush EXCEPT !.pc = "gate"]
  /\ UNCHANGED <<durable, f, dl, acked, fate, buffer, ending>>

-----------------------------------------------------------------------------
(* Close. *)

Quiet == \A s \in Slots : dl[s].pc = "idle"

CloseTo(from, to) ==
  /\ close = from
  /\ close' = to
  /\ UNCHANGED <<durable, f, dl, acked, fate, buffer, flush, abort, cancelled>>

CloseSeal       == "Close" \in Calls /\ CloseTo("open", "sealed")
CloseDrain      == CloseTo("sealed", "draining")      \* writers.Wait, close(drainNow)
CloseDrained    == f.pc = "done" /\ CloseTo("draining", "delivering")
CloseDelivered  == Quiet /\ CloseTo("delivering", "stopping")
CloseTimesOut   == CloseExpires /\ (CloseTo("draining", "stopping") \/ CloseTo("delivering", "stopping"))

\* Mutant: the context is cancelled before abort is closed.
CloseCancelsFirst ==
  /\ close = "stopping"
  /\ close' = "aborted" /\ cancelled' = TRUE
  /\ UNCHANGED <<durable, f, dl, acked, fate, buffer, flush, abort>>

CloseAborts ==
  /\ close = "stopping"
  /\ close' = "aborted" /\ abort' = TRUE
  /\ UNCHANGED <<durable, f, dl, acked, fate, buffer, flush, cancelled>>

CloseCancels ==
  /\ close = "aborted"
  /\ close' = "cancelled" /\ cancelled' = TRUE
  /\ UNCHANGED <<durable, f, dl, acked, fate, buffer, flush, abort>>

\* <-drained and deliveries.Wait, the final persist, log.Close.
CloseLog == f.pc = "done" /\ Quiet /\ CloseTo("cancelled", "closed")

-----------------------------------------------------------------------------
Writer   == Append1 \/ \E to \in 1..(MaxLSN + 1) : raiseFloor(to)
Select   == FWoken \/ FTicked \/ FDrainNow \/ FAborted
Flusher  == \/ FTopFailed \/ FTopHeld \/ FTop
            \/ FReadFails \/ FReadSkip \/ FReadStop \/ FReadTake \/ FReadEnd
            \/ FStop \/ FDecide \/ (\E s \in Slots : FDispatch(s)) \/ FDispatchAborted
            \/ Select
Delivery(s) == \/ DTry(s) \/ DAccepted(s) \/ DPanicked(s)
               \/ \E v \in Verdicts : DRefused(s, v)
               \/ DAnswered(s) \/ DRetries(s) \/ DAborted(s)
Flushing == FlushGate \/ FlushTest \/ FlushForce \/ FlushWoken
Closing  == \/ CloseDrain \/ CloseDrained \/ CloseDelivered \/ CloseTimesOut
            \/ CloseAborts \/ CloseCancels \/ CloseLog

Next == \/ Writer \/ Flusher \/ FlushCall \/ Flushing \/ CloseSeal \/ Closing
        \/ \E s \in Slots : Delivery(s)

Spec == Init /\ [][Next]_vars

(***************************************************************************)
(* Goroutines run, sinks return, and the ticker ticks.  drainNow and abort *)
(* are closed channels and Go's select takes a ready case at random, so    *)
(* one that stays ready is taken sooner or later: strong fairness.  Nobody *)
(* has to write, raise the floor, or call Flush or Close.                  *)
(***************************************************************************)
LiveSpec == /\ Spec
            /\ WF_vars(Flusher) /\ WF_vars(FTicked) /\ SF_vars(FDrainNow) /\ SF_vars(FAborted)
            /\ \A s \in Slots : WF_vars(Delivery(s))
            /\ WF_vars(Flushing) /\ WF_vars(Closing)

\* Slots differ in name only (for safety runs).
SlotSymmetry == Permutations(Slots)

-----------------------------------------------------------------------------
(* Properties. *)

Live == {s \in Slots : dl[s].pc # "idle"}
Held(from, to) == Cardinality(Records \cap from..to)

(***************************************************************************)
(* At least once (README, delivery semantics): a record is acknowledged    *)
(* only after a sink accepted it, the dead-letter sink did, or it was      *)
(* dropped.  complete() is called from six places, on ranges that also     *)
(* hold skipped records and gaps.                                          *)
(***************************************************************************)
AckedResolved == \A l \in acked \cap Records : fate[l] # "pending"

(***************************************************************************)
(* Batch.ID + i names the i-th record (sink.go, Batch): a batch in flight  *)
(* or being filled holds consecutive LSNs, every one of them a record that *)
(* is not resolved yet.                                                    *)
(***************************************************************************)
BatchesConsecutive ==
  \A recs \in {dl[s].recs : s \in Live} \cup {f.recs} :
    \A i \in DOMAIN recs : /\ recs[i] = recs[1] + i - 1
                           /\ recs[i] \in Records /\ fate[recs[i]] = "pending"

(***************************************************************************)
(* What ackTracker relies on: the ranges handed out lie side by side, in   *)
(* front of the flusher's own while it runs, none of them acknowledged     *)
(* yet, and each carries the capacity of exactly the records inside it.    *)
(***************************************************************************)
RangesTile ==
  /\ \A s \in Live : /\ dl[s].from..dl[s].to \subseteq (1..(f.from - 1)) \ acked
                     /\ Len(dl[s].recs) + dl[s].skip = Held(dl[s].from, dl[s].to)
  /\ \A s, t \in Live : s # t => dl[s].to < dl[t].from \/ dl[t].to < dl[s].from
  /\ f.pc # "done" => /\ \A l \in acked : l < f.from
                      /\ Len(f.recs) + f.skip = Held(f.from, f.to)

(***************************************************************************)
(* "Close ... drains what is buffered to the sink" (flush.go): once Close  *)
(* has seen the flusher and the deliveries end by themselves, every record *)
(* in the log is resolved and acknowledged, unless the buffer failed.      *)
(***************************************************************************)
DrainedMeansResolved ==
  close = "delivering" /\ Quiet /\ ~failed =>
    1..durable \subseteq acked /\ \A l \in Records : fate[l] # "pending"

(***************************************************************************)
(* A record has one outcome: it is not counted delivered and dropped, and  *)
(* not given to the sink again once it is resolved.                        *)
(***************************************************************************)
ResolvedOnce == [][\A l \in 1..MaxLSN : fate[l] # "pending" => fate'[l] = fate[l]]_vars

(***************************************************************************)
(* An error that the cancelled context may have caused is not the sink's   *)
(* verdict: the batch it was returned for stays unacknowledged.            *)
(***************************************************************************)
ShutdownDisposesNothing ==
  [][\A s \in Slots : dl[s].pc = "answered" /\ ~dl[s].genuine /\ dl'[s] # dl[s] =>
       dl'[s] = Idle /\ UNCHANGED <<acked, fate>>]_vars

\* A batch is with a sink whose attempts have no limit, and which may refuse for ever.
Endless == \E s \in Slots : dl[s].pc # "idle" /\ Limit(s) = 0

(***************************************************************************)
(* Every record in the log is resolved sooner or later, a partial batch by *)
(* the ticker, unless the buffer fails, Close gives up and aborts, or a    *)
(* sink without a limit on attempts refuses for ever.  The writers stop at *)
(* MaxLSN, so the whole log is resolved again and again.                   *)
(***************************************************************************)
EverythingResolved ==
  []<>((\A l \in Records : fate[l] # "pending") \/ failed \/ abort \/ Endless)

(***************************************************************************)
(* Flush, called without a deadline, returns (flush.go, Flush): it forces  *)
(* the partial batch out and no signal of the progress gate passes it by,  *)
(* until the buffer fails or Close aborts what Flush is waiting for, if no *)
(* batch is refused for ever.                                              *)
(***************************************************************************)
FlushReturnsWhileDelivering ==
  \/ []<>Endless
  \/ (flush.pc = "gate") ~> \/ flush.pc \in {"ok", "error"}
                            \/ failed
                            \/ abort /\ mark < flush.target

\* Close returns, whatever the sinks answer.
CloseReturns == (close = "sealed") ~> (close = "closed")

=============================================================================
