----------------------------- MODULE Admission ------------------------------
(***************************************************************************)
(* The way into the buffer, batch.go: WriteBatch and what it calls.  Each  *)
(* access to an atomic, a gate or a channel that another goroutine may     *)
(* race with is a step of its own.  Waits end by a timer at the latest, so *)
(* a wait may end at any moment; the gates that end it sooner are module   *)
(* Gate's subject.                                                         *)
(*                                                                         *)
(* Every writer makes one call, for n records.  Capacity is counted in     *)
(* records (no byte limit is configured, and records are of equal size).   *)
(* Behind the log is a consumer that acknowledges record after record:     *)
(* the sink's, or the flusher's dropping what is below the floor.          *)
(***************************************************************************)
EXTENDS Integers, FiniteSets, FiniteSetsExt, Totals, TLC

CONSTANTS Writers, Sizes,   \* who writes, and how many records a call may have
          Capacity,         \* WithCapacity
          Inherited,        \* the backlog countBacklog found, which no capacity limits
          Policies,         \* each a set of what the policy may answer
          Sinks,            \* TRUE for a sink that accepts, FALSE for a dead one
          CtxExpires,       \* TRUE if a writer's context may end
          CommitErrors,     \* how a commit may fail
          MaxFaults,        \* bound: commits that fail
          CanFail, CanClose \* TRUE if the buffer may fail, may be closed

AllDecisions == {"block", "reject", "dropNewest", "dropOldest"}

ASSUME AdmissionAssumption ==
  /\ Sizes \subseteq Nat \ {0} /\ Capacity \in Nat \ {0} /\ Inherited \in Nat
  /\ Policies \subseteq SUBSET AllDecisions /\ CommitErrors \subseteq {"diskFull", "io", "broken"}
  /\ MaxFaults \in Nat /\ IsFiniteSet(Writers)
  /\ Sinks \subseteq BOOLEAN /\ {CtxExpires, CanFail, CanClose} \subseteq BOOLEAN

VARIABLES pending, floor, failed,   \* Buffer.pendingRecords, floor, fatalErr
          durable, mark,            \* the log's end, and the low-water mark
          freed,                    \* acknowledged, its capacity not yet released
          close,                    \* how far Close is
          wr,                       \* the writers and their local variables
          faults,
          policy, sinkUp            \* fixed: the policy's answers; whether the sink accepts

setup == <<policy, sinkUp>>
log  == <<durable, mark, freed>>
vars == <<pending, floor, failed, log, close, wr, faults, setup>>

NewWriter == [pc |-> "idle", n |-> 0, df |-> FALSE,
              want |-> 0, to |-> 0, cur |-> 0, last |-> 0, result |-> "none"]

Init ==
  /\ pending = Inherited /\ floor = 1 /\ failed = FALSE
  /\ durable = Inherited /\ mark = 0 /\ freed = 0
  /\ close = "open"
  /\ wr = [w \in Writers |-> NewWriter]
  /\ faults = 0
  /\ policy \in Policies /\ sinkUp \in Sinks

-----------------------------------------------------------------------------
Go(w, pc)       == wr' = [wr EXCEPT ![w].pc = pc]
Return(w, what) == wr' = [wr EXCEPT ![w].pc = "done", ![w].result = what]
At(w, pc)       == wr[w].pc = pc
Closed          == close \in {"closing", "drained"}

\* What the writers at a place have added to pendingRecords there.
Reserved(pc) == [w \in {v \in Writers : At(v, pc)} |-> wr[w].n]

\* The records the log retains or has been promised.
Granted == (durable - mark) + freed + Total(Reserved("await"))

Call(w, n) ==
  /\ At(w, "idle")
  /\ wr' = [wr EXCEPT ![w].pc = "enter", ![w].n = n]
  /\ UNCHANGED <<pending, floor, failed, log, close, faults>>

\* enter: the fatal error, then sealed, under the mutex that Close takes.
EnterFailure(w) ==
  /\ At(w, "enter")
  /\ IF failed THEN Return(w, "failed") ELSE Go(w, "lock")
  /\ UNCHANGED <<pending, floor, failed, log, close, faults>>

\* Mutant: sealed is not looked at.
EnterUnsealed(w) ==
  /\ At(w, "lock")
  /\ Go(w, "begin")
  /\ UNCHANGED <<pending, floor, failed, log, close, faults>>

EnterLocked(w) ==
  /\ At(w, "lock")
  /\ IF close = "open" THEN Go(w, "begin") ELSE Return(w, "closed")
  /\ UNCHANGED <<pending, floor, failed, log, close, faults>>

\* A context already over, a record the codec refuses, a call above the capacity (fits).
Begin(w) ==
  /\ At(w, "begin")
  /\ \/ CtxExpires /\ Return(w, "ctx")
     \/ Return(w, "encode")
     \/ IF wr[w].n > Capacity THEN Return(w, "tooLarge") ELSE Go(w, "reserve")
  /\ UNCHANGED <<pending, floor, failed, log, close, faults>>

-----------------------------------------------------------------------------
(* admit *)

\* Mutant: the test is made before the addition.
reserveUnchecked(w) ==
  /\ At(w, "reserve")
  /\ IF pending < Capacity
     THEN pending' = pending + wr[w].n /\ Go(w, "await")
     ELSE UNCHANGED pending /\ Go(w, "refused")
  /\ UNCHANGED <<floor, failed, log, close, faults>>

\* reserve: add, and take it back in a second step if that was too much.
reserve(w) ==
  /\ At(w, "reserve")
  /\ pending' = pending + wr[w].n
  /\ Go(w, IF pending' > Capacity THEN "undo" ELSE "await")
  /\ UNCHANGED <<floor, failed, log, close, faults>>

reserveUndo(w) ==
  /\ At(w, "undo")
  /\ pending' = pending - wr[w].n
  /\ Go(w, "refused")
  /\ UNCHANGED <<floor, failed, log, close, faults>>

Refused(w) ==
  /\ At(w, "refused")
  /\ \/ CtxExpires /\ Return(w, "ctx")
     \/ IF failed THEN Return(w, "failed") ELSE Go(w, "policy")
  /\ UNCHANGED <<pending, floor, failed, log, close, faults>>

\* Mutant: a Close that began does not outrank the policy.
decideIgnoresClose(w, d) ==
  /\ At(w, "policy") /\ d \in policy
  /\ CASE d = "reject"     -> Return(w, IF wr[w].df THEN "diskFull" ELSE "full")
       [] d = "dropNewest" -> Return(w, "dropped")
       [] d = "dropOldest" -> Go(w, "load")
       [] d = "block"      -> Go(w, "park")
  /\ UNCHANGED <<pending, floor, failed, log, close, faults>>

\* decide: whatever the policy answers, a Close that began meanwhile outranks it.
decide(w, d) ==
  /\ At(w, "policy") /\ d \in policy
  /\ IF Closed THEN Return(w, "closed")
     ELSE CASE d = "reject"     -> Return(w, IF wr[w].df THEN "diskFull" ELSE "full")
            [] d = "dropNewest" -> Return(w, "dropped")
            [] d = "dropOldest" -> Go(w, "load")
            [] d = "block"      -> Go(w, "park")
  /\ UNCHANGED <<pending, floor, failed, log, close, faults>>

(***************************************************************************)
(* dropOldest: pendingRecords, the mark and the floor are read one after   *)
(* the other, then the floor is raised by compare-and-swap.                *)
(***************************************************************************)
dropOldestLoad(w) ==
  /\ At(w, "load")
  /\ LET n == wr[w].n
     IN  wr' = [wr EXCEPT ![w].pc = IF pending <= 0 THEN "park" ELSE "mark",
                          ![w].want = Min({n + (n \div 4) + 1, pending})]
  /\ UNCHANGED <<pending, floor, failed, log, close, faults>>

\* Mutant: the floor goes to the oldest record, and so drops none.
dropOldestMarkShort(w) ==
  /\ At(w, "mark")
  /\ wr' = [wr EXCEPT ![w].pc = "raise", ![w].to = mark + 1, ![w].want = 0]
  /\ UNCHANGED <<pending, floor, failed, log, close, faults>>

dropOldestMark(w) ==
  /\ At(w, "mark")
  /\ wr' = [wr EXCEPT ![w].pc = "raise", ![w].to = mark + 1 + wr[w].want, ![w].want = 0]
  /\ UNCHANGED <<pending, floor, failed, log, close, faults>>

Parked(w) == wr' = [wr EXCEPT ![w].pc = "park", ![w].to = 0, ![w].cur = 0]

raiseFloorLoad(w) ==
  /\ At(w, "raise")
  /\ IF wr[w].to <= floor
     THEN Parked(w)
     ELSE wr' = [wr EXCEPT ![w].pc = "swap", ![w].cur = floor]
  /\ UNCHANGED <<pending, floor, failed, log, close, faults>>

raiseFloorSwap(w) ==
  /\ At(w, "swap")
  /\ IF floor = wr[w].cur
     THEN floor' = wr[w].to /\ Parked(w)
     ELSE UNCHANGED floor /\ Go(w, "raise")
  /\ UNCHANGED <<pending, failed, log, close, faults>>

\* The select of admit and of onDiskFull: the gate or the timer, ctx, closing.
Unpark(w) ==
  /\ At(w, "park")
  /\ \/ wr' = [wr EXCEPT ![w].pc = "reserve", ![w].df = FALSE]
     \/ CtxExpires /\ Return(w, "ctx")
     \/ Closed /\ Return(w, "closed")
  /\ UNCHANGED <<pending, floor, failed, log, close, faults>>

-----------------------------------------------------------------------------
(* The append, with its reservation held. *)

\* accept: the capacity stays held, by the records now.  A settler has told nobody.
Commit(w) ==
  /\ At(w, "await")
  /\ durable' = durable + wr[w].n
  /\ wr' = [wr EXCEPT ![w].pc = "done", ![w].last = durable',
                      ![w].result = IF @ = "uncertain" THEN @ ELSE "ok"]
  /\ UNCHANGED <<pending, floor, failed, mark, freed, close, faults>>

\* ErrPending: the caller gets ErrUncertain, a settler waits on in its place.
settle(w) ==
  /\ At(w, "await") /\ CtxExpires /\ wr[w].result = "none"
  /\ wr' = [wr EXCEPT ![w].result = "uncertain"]
  /\ UNCHANGED <<pending, floor, failed, log, close, faults>>

\* Mutant: the settler of a round that is rolled back keeps its reservation.
CommitFailsLeaks(w, e) ==
  /\ At(w, "await") /\ faults < MaxFaults
  /\ faults' = faults + 1
  /\ pending' = IF wr[w].result = "uncertain" THEN pending ELSE pending - wr[w].n
  /\ wr' = [wr EXCEPT
               ![w].pc = IF wr[w].result = "none" /\ e = "diskFull" THEN "onDiskFull" ELSE "done",
               ![w].result = IF @ = "uncertain" THEN @ ELSE
                             IF e = "diskFull" THEN "none" ELSE IF e = "io" THEN "io" ELSE "failed"]
  /\ failed' = (failed \/ (e = "broken" /\ wr[w].result = "none"))
  /\ UNCHANGED <<floor, log, close>>

\* Mutant: an I/O error is taken for success.
CommitFailsSilently(w, e) ==
  /\ At(w, "await") /\ faults < MaxFaults
  /\ faults' = faults + 1
  /\ pending' = pending - wr[w].n
  /\ wr' = [wr EXCEPT
               ![w].pc = IF wr[w].result = "none" /\ e = "diskFull" THEN "onDiskFull" ELSE "done",
               ![w].result = IF @ = "uncertain" THEN @ ELSE
                             IF e = "diskFull" THEN "none" ELSE IF e = "io" THEN "ok" ELSE "failed"]
  /\ failed' = (failed \/ (e = "broken" /\ wr[w].result = "none"))
  /\ UNCHANGED <<floor, log, close>>

\* The round is rolled back: the reservation is released, whoever still waits.
CommitFails(w, e) ==
  /\ At(w, "await") /\ faults < MaxFaults
  /\ faults' = faults + 1
  /\ pending' = pending - wr[w].n
  /\ wr' = [wr EXCEPT
               ![w].pc = IF wr[w].result = "none" /\ e = "diskFull" THEN "onDiskFull" ELSE "done",
               ![w].result = IF @ = "uncertain" THEN @ ELSE
                             IF e = "diskFull" THEN "none" ELSE IF e = "io" THEN "io" ELSE "failed"]
  /\ failed' = (failed \/ (e = "broken" /\ wr[w].result = "none"))
  /\ UNCHANGED <<floor, log, close>>

\* onDiskFull asks the policy about a full disk.
onDiskFull(w) ==
  /\ At(w, "onDiskFull")
  /\ wr' = [wr EXCEPT ![w].pc = "policy", ![w].df = TRUE]
  /\ UNCHANGED <<pending, floor, failed, log, close, faults>>

-----------------------------------------------------------------------------
(* The other side: complete() in two steps, fail, and Close up to the drain. *)

ConsumeAck ==
  /\ mark < durable /\ freed = 0
  /\ sinkUp \/ mark + 1 < floor
  /\ mark' = mark + 1 /\ freed' = 1
  /\ UNCHANGED <<pending, floor, failed, durable, close, wr, faults>>

release ==
  /\ freed > 0
  /\ pending' = pending - freed /\ freed' = 0
  /\ UNCHANGED <<floor, failed, durable, mark, close, wr, faults>>

fail ==
  /\ CanFail /\ ~failed
  /\ failed' = TRUE
  /\ UNCHANGED <<pending, floor, log, close, wr, faults>>

Outside == {"idle", "enter", "lock", "done"}

CloseTo(from, to) ==
  /\ close = from
  /\ close' = to
  /\ UNCHANGED <<pending, floor, failed, log, wr, faults>>

CloseSeal    == CanClose /\ CloseTo("open", "sealed")
CloseClosing == CloseTo("sealed", "closing")
CloseWait    == (\A w \in Writers : wr[w].pc \in Outside) /\ CloseTo("closing", "drained")

-----------------------------------------------------------------------------
Write(w) == /\ \/ EnterFailure(w) \/ EnterLocked(w) \/ Begin(w)
               \/ reserve(w) \/ reserveUndo(w) \/ Refused(w)
               \/ \E d \in policy : decide(w, d)
               \/ dropOldestLoad(w) \/ dropOldestMark(w)
               \/ raiseFloorLoad(w) \/ raiseFloorSwap(w)
               \/ Unpark(w) \/ Commit(w) \/ settle(w) \/ onDiskFull(w)
               \/ \E e \in CommitErrors : CommitFails(w, e)
            /\ UNCHANGED setup
Consume == ConsumeAck /\ UNCHANGED setup
Release == release /\ UNCHANGED setup
Closing == (CloseClosing \/ CloseWait) /\ UNCHANGED setup
Outer   == /\ fail \/ CloseSeal \/ \E w \in Writers, n \in Sizes : Call(w, n)
           /\ UNCHANGED setup

Next == (\E w \in Writers : Write(w)) \/ Consume \/ Release \/ Closing \/ Outer

Spec == Init /\ [][Next]_vars

(***************************************************************************)
(* Writers and Close run, timers fire, commit rounds end (module Log).  A  *)
(* consumer that the sink serves runs until the buffer fails; after that   *)
(* nothing drains any more.  release is the second half of complete().     *)
(***************************************************************************)
LiveSpec == /\ Spec
            /\ \A w \in Writers : WF_vars(Write(w))
            /\ WF_vars(~failed /\ Consume) /\ WF_vars(Release) /\ WF_vars(Closing)

\* Writers differ in name only (for safety runs).
WriterSymmetry == Permutations(Writers)

-----------------------------------------------------------------------------
(* Properties. *)

(***************************************************************************)
(* WithCapacity bounds what the writers add: however they race through     *)
(* reserve, the records in the log and those promised room never exceed    *)
(* the capacity.  Only a backlog that was there at Open may be above it    *)
(* (countBacklog takes the count as it is, which a late checkpoint or a    *)
(* lowered capacity makes too large), and until it has drained to the      *)
(* capacity nothing is written and no writer is promised room.             *)
(***************************************************************************)
WithinCapacity ==
  Granted <= Capacity \/ (durable = Inherited /\ Total(Reserved("await")) = 0)

(***************************************************************************)
(* pendingRecords accounts for every record exactly: each reservation ends *)
(* in the log or is given back once, by the writer, by a settler, or by    *)
(* complete(), and none is leaked or released twice.                       *)
(***************************************************************************)
PendingExact ==
  pending = Granted + Total(Reserved("undo"))

(***************************************************************************)
(* Close goes on to drain only when no writer is past enter (batch.go,     *)
(* enter and settle), and none gets past it later: nothing is appended     *)
(* behind the drain.                                                       *)
(***************************************************************************)
NoWriterBehindClose ==
  close = "drained" => \A w \in Writers : wr[w].pc \in Outside

(***************************************************************************)
(* What a caller is told is what happened: nil means the records are in    *)
(* the log, or that DropNewest dropped them and said so to the observer;   *)
(* an error other than ErrUncertain means they are not in it and, the log  *)
(* being rolled back or broken by then, that this run delivers none.       *)
(***************************************************************************)
AnswersHonest ==
  \A w \in Writers : At(w, "done") /\ wr[w].result # "uncertain" =>
                       (wr[w].result = "ok" <=> wr[w].last > 0)

(***************************************************************************)
(* A write returns, however it was blocked, once the sink accepts, the     *)
(* policy sheds the backlog, the buffer has failed or Close has begun.     *)
(* The run has two writers of single records and a capacity of two, so     *)
(* that both fit once the backlog is gone.  Writers that do not fit beside *)
(* each other can refuse one another for ever: reserve adds before it      *)
(* looks, and each finds what the other is about to take back.             *)
(***************************************************************************)
WriteReturns ==
  \A w \in Writers :
    (~At(w, "idle") /\ (sinkUp \/ policy = {"dropOldest"} \/ failed \/ Closed)) ~> At(w, "done")

\* Close gets past writers.Wait, whoever is parked, and whatever the policy decides.
CloseDrains == (close = "sealed") ~> (close = "drained")

=============================================================================
