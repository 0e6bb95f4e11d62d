----------------------------- MODULE Dispatcher -----------------------------
(***************************************************************************)
(* The asynchronous observer, observer.go, among the goroutines that raise *)
(* its events, and Close, which must outlast every one of them before it   *)
(* closes the queue: a send on a closed channel would end the process.     *)
(*                                                                         *)
(* Events are raised by writers (and settlers, which hold a writer's       *)
(* place), by the flusher, by deliveries, by the checkpointer, and by the  *)
(* last persist() of Close itself.  A hook runs on the dispatcher's own    *)
(* goroutine; it may return, panic, never return, write to the buffer, or  *)
(* close it while somebody else does.  Events are all alike.               *)
(***************************************************************************)
EXTENDS Integers, FiniteSets, TLC

CONSTANTS Writers, Settlers, Deliveries,   \* goroutines that raise events
          Callers,               \* goroutines that call Close
          Hook,                  \* the dispatcher's goroutine, inside a hook
          None,
          Queue,                 \* WithAsyncObserver
          MaxEvents              \* bound: events raised

ASSUME DispatcherAssumption ==
  /\ Queue \in Nat \ {0} /\ MaxEvents \in Nat
  /\ Hook \notin Writers \cup Settlers \cup Callers /\ Writers \cap Settlers = {}
  /\ None \notin Callers \cup {Hook}

VARIABLES queued,      \* events in dispatcher.ch
          chClosed,    \* dispatcher.ch is closed
          dropped,     \* dispatcher.dropped
          raised, ran, \* events posted; hooks that returned
          panicked,    \* a post found the channel closed
          hook,        \* the dispatcher: waiting, in a hook, or gone (done is closed)
          writing,     \* who is inside Write: Buffer.writers
          flusher,     \* the flusher runs; closing Buffer.drained ends this
          delivering,  \* Buffer.deliveries
          checkpointer,   \* the checkpointer runs
          sealed, drainNow, cpStop,   \* what Close has announced
          once,        \* closeOnce: the call that runs its function, or None
          close,       \* per caller of Close, where it is
          expired      \* the callers whose context has ended

events  == <<queued, chClosed, dropped, raised, ran, panicked>>
sources == <<writing, flusher, delivering, checkpointer>>
closing == <<sealed, drainNow, cpStop, once, close, expired>>
dvars   == <<events, hook, sources, closing>>

Closers == Callers \cup {Hook}
Inside  == Writers \cup Settlers \cup {Hook}   \* who may hold a writer's place

DInit ==
  /\ queued = 0 /\ chClosed = FALSE /\ dropped = 0
  /\ raised = 0 /\ ran = 0 /\ panicked = FALSE
  /\ hook = "recv"
  /\ writing = {} /\ flusher = TRUE /\ delivering = {} /\ checkpointer = TRUE
  /\ sealed = FALSE /\ drainNow = FALSE /\ cpStop = FALSE
  /\ once = None
  /\ close = [c \in Closers |-> "idle"]
  /\ expired = {}

-----------------------------------------------------------------------------
(* Raising an event. *)

\* post: a full queue costs the event, a closed one the process.
post ==
  /\ raised < MaxEvents
  /\ raised' = raised + 1
  /\ IF chClosed THEN panicked' = TRUE /\ UNCHANGED <<queued, dropped>>
     ELSE /\ IF queued < Queue THEN queued' = queued + 1 /\ UNCHANGED dropped
                               ELSE dropped' = dropped + 1 /\ UNCHANGED queued
          /\ UNCHANGED panicked
  /\ UNCHANGED <<chClosed, ran>>

\* enter(), by a writer or by a hook that writes.
Enter(w) ==
  /\ w \notin writing /\ ~sealed
  /\ w = Hook => hook = "run"
  /\ writing' = writing \cup {w}
  /\ UNCHANGED <<events, hook, flusher, delivering, checkpointer, closing>>

\* settle: a write that stops waiting takes a second place, for the goroutine
\* that will learn the outcome, before it gives up its own; sealed or not.
settle(w, s) ==
  /\ w \in writing /\ s \notin writing
  /\ writing' = writing \cup {s}
  /\ UNCHANGED <<events, hook, flusher, delivering, checkpointer, closing>>

\* wrote, dropped, observeBackpressure
WriterRaises(w) == w \in writing /\ post /\ UNCHANGED <<hook, sources, closing>>

Leave(w) ==
  /\ w \in writing
  /\ writing' = writing \ {w}
  /\ UNCHANGED <<events, hook, flusher, delivering, checkpointer, closing>>

FlusherRaises == flusher /\ post /\ UNCHANGED <<hook, sources, closing>>

\* dispatch: the flusher starts a delivery.
Dispatch(d) ==
  /\ flusher /\ d \notin delivering
  /\ delivering' = delivering \cup {d}
  /\ UNCHANGED <<events, hook, writing, flusher, checkpointer, closing>>

\* observeFlush, dropped, deadLettered
DeliveryRaises(d) == d \in delivering /\ post /\ UNCHANGED <<hook, sources, closing>>

DeliveryEnds(d) ==
  /\ d \in delivering
  /\ delivering' = delivering \ {d}
  /\ UNCHANGED <<events, hook, writing, flusher, checkpointer, closing>>

\* The flusher ends when it has drained, on abort, or when the buffer fails.
FlusherEnds ==
  /\ flusher
  /\ flusher' = FALSE
  /\ UNCHANGED <<events, hook, writing, delivering, checkpointer, closing>>

\* checkpointed, from a tick of the checkpointer
CheckpointerRaises == checkpointer /\ post /\ UNCHANGED <<hook, sources, closing>>

CheckpointerEnds ==
  /\ checkpointer /\ cpStop
  /\ checkpointer' = FALSE
  /\ UNCHANGED <<events, hook, writing, flusher, delivering, closing>>

-----------------------------------------------------------------------------
(* The dispatcher: run() and call(). *)

receive ==
  /\ hook = "recv" /\ queued > 0
  /\ queued' = queued - 1
  /\ hook' = "run"
  /\ UNCHANGED <<chClosed, dropped, raised, ran, panicked, sources, closing>>

\* The hook is not inside a call of its own to the buffer.
AtLarge == hook = "run" /\ Hook \notin writing /\ close[Hook] \in {"idle", "returned"}

HookReturns ==
  /\ AtLarge
  /\ ran' = ran + 1
  /\ hook' = "recv"
  /\ UNCHANGED <<queued, chClosed, dropped, raised, panicked, sources, closing>>

\* Mutant: a panic is recovered and not counted.
HookPanicsUncounted ==
  /\ AtLarge
  /\ hook' = "recv"
  /\ UNCHANGED <<events, sources, closing>>

\* call() recovers and counts.
HookPanics ==
  /\ AtLarge
  /\ dropped' = dropped + 1
  /\ hook' = "recv"
  /\ UNCHANGED <<queued, chClosed, raised, ran, panicked, sources, closing>>

HookSticks ==
  /\ AtLarge
  /\ hook' = "stuck"
  /\ UNCHANGED <<events, sources, closing>>

\* range over the channel ends: it is closed and empty.
runEnds ==
  /\ hook = "recv" /\ chClosed /\ queued = 0
  /\ hook' = "gone"
  /\ UNCHANGED <<events, sources, closing>>

-----------------------------------------------------------------------------
(* Close. *)

Called(c) == close[c] \notin {"idle", "returned"}

\* The function given to closeOnce has returned.
DoReturned == once # None /\ close[once] \in {"join", "returned"}

Go(c, pc) == close' = [close EXCEPT ![c] = pc]

\* A caller arrives.  The first one seals the buffer; a hook calls from inside
\* a callback that is running.
Close(c) ==
  /\ close[c] = "idle"
  /\ c = Hook => AtLarge
  /\ IF once = None
       THEN once' = c /\ sealed' = TRUE /\ Go(c, "writers")
       ELSE Go(c, "do") /\ UNCHANGED <<once, sealed>>
  /\ UNCHANGED <<events, hook, sources, drainNow, cpStop, expired>>

\* Mutant: nobody waits for the writers.
awaitWritersNot(c) ==
  /\ close[c] = "writers"
  /\ drainNow' = TRUE
  /\ Go(c, "drain")
  /\ UNCHANGED <<events, hook, sources, sealed, cpStop, once, expired>>

\* writers.Wait(), close(drainNow)
awaitWriters(c) ==
  /\ close[c] = "writers" /\ writing = {}
  /\ drainNow' = TRUE
  /\ Go(c, "drain")
  /\ UNCHANGED <<events, hook, sources, sealed, cpStop, once, expired>>

Idle == ~flusher /\ delivering = {}

\* The two selects on ctx, then close(abort).
awaitDrained(c) ==
  /\ close[c] = "drain" /\ (Idle \/ c \in expired)
  /\ Go(c, "abort")
  /\ UNCHANGED <<events, hook, sources, sealed, drainNow, cpStop, once, expired>>

\* <-drained and deliveries.Wait(), whatever ctx says; close(cpStop)
awaitAborted(c) ==
  /\ close[c] = "abort" /\ Idle
  /\ cpStop' = TRUE
  /\ Go(c, "cp")
  /\ UNCHANGED <<events, hook, sources, sealed, drainNow, once, expired>>

\* <-cpDone, and the final persist(), which reports a mark that has moved.
lastPersist(c) ==
  /\ close[c] = "cp" /\ ~checkpointer
  /\ Go(c, "stop")
  /\ post \/ UNCHANGED events
  /\ UNCHANGED <<hook, sources, sealed, drainNow, cpStop, once, expired>>

\* Mutant: a hook waits for its own goroutine.
stopAndWait(c) ==
  /\ close[c] = "stop"
  /\ chClosed' = TRUE
  /\ Go(c, "join")
  /\ UNCHANGED <<queued, dropped, raised, ran, panicked, hook, sources,
                 sealed, drainNow, cpStop, once, expired>>

\* stop() and the end of the function.  inDispatcher: a hook that did the
\* shutdown does not wait for its own goroutine.
stop(c) ==
  /\ close[c] = "stop"
  /\ chClosed' = TRUE
  /\ Go(c, IF c = Hook THEN "returned" ELSE "join")
  /\ UNCHANGED <<queued, dropped, raised, ran, panicked, hook, sources,
                 sealed, drainNow, cpStop, once, expired>>

\* The wait for obs.done, which ctx bounds.
join(c) ==
  /\ close[c] = "join" /\ (hook = "gone" \/ c \in expired)
  /\ Go(c, "returned")
  /\ UNCHANGED <<events, hook, sources, sealed, drainNow, cpStop, once, expired>>

\* Do returns to the callers that found the function running, or run.
do(c) ==
  /\ close[c] = "do" /\ DoReturned
  /\ Go(c, "returned")
  /\ UNCHANGED <<events, hook, sources, sealed, drainNow, cpStop, once, expired>>

Expire(c) ==
  /\ Called(c) /\ c \notin expired
  /\ expired' = expired \cup {c}
  /\ UNCHANGED <<events, hook, sources, sealed, drainNow, cpStop, once, close>>

Shutdown(c) ==
  \/ awaitWriters(c) \/ awaitDrained(c) \/ awaitAborted(c)
  \/ lastPersist(c) \/ stop(c) \/ join(c) \/ do(c)

-----------------------------------------------------------------------------
DNext ==
  \/ \E w \in Writers \cup {Hook} : Enter(w) \/ \E s \in Settlers : settle(w, s)
  \/ \E w \in Inside : WriterRaises(w) \/ Leave(w)
  \/ FlusherRaises \/ FlusherEnds
  \/ \E d \in Deliveries : Dispatch(d) \/ DeliveryRaises(d) \/ DeliveryEnds(d)
  \/ CheckpointerRaises \/ CheckpointerEnds
  \/ receive \/ HookReturns \/ HookPanics \/ HookSticks \/ runEnds
  \/ \E c \in Closers : Close(c) \/ Expire(c) \/ Shutdown(c)

\* Go schedules every goroutine that can run.  Writes end, and so does every
\* delivery, so the flusher that was told to drain does too; a hook returns or
\* is found to be stuck.  Nobody need ever write, close, or run out of time.
Fairness ==
  /\ \A w \in Inside : WF_dvars(Leave(w))
  /\ WF_dvars(drainNow /\ FlusherEnds)
  /\ \A d \in Deliveries : WF_dvars(DeliveryEnds(d))
  /\ WF_dvars(CheckpointerEnds)
  /\ WF_dvars(receive) /\ WF_dvars(runEnds)
  /\ WF_dvars(HookReturns \/ HookPanics \/ HookSticks)
  /\ \A c \in Closers : WF_dvars(Shutdown(c))

DSpec == DInit /\ [][DNext]_dvars /\ Fairness

-----------------------------------------------------------------------------
(* Every event ends in exactly one place: dropped and counted in            *)
(* Stats().ObserverDropped, in the queue, under way in a hook, or run.  A   *)
(* panicking hook is counted like one the queue could not take (post, call).*)
EventsAccounted ==
  raised = ran + dropped + queued + (IF hook \in {"run", "stuck"} THEN 1 ELSE 0)

(* "No event can be raised past this point": when Close closes the queue,   *)
(* nothing is left that could post to it, hooks that write included.        *)
NoSendOnClosed == ~panicked

(* The call that shut the buffer down, if it is no hook and its context has *)
(* not ended, returns only when every event has been run or counted as      *)
(* dropped, the final checkpoint's among them.                              *)
CloseReportsAll ==
  once \in Callers /\ close[once] = "returned" /\ once \notin expired
    => raised = ran + dropped

HeldUp(c) == close[c] = "join" /\ hook = "stuck" /\ c \notin expired

(* Every call of Close returns, a hook's own included, whoever else is      *)
(* closing the buffer.  Only the call that did the shutdown may be held up, *)
(* by a hook that never returns, and only until its context ends.           *)
CloseReturns ==
  \A c \in Closers :
    Called(c) ~> (close[c] = "returned" \/ HeldUp(c))

=============================================================================
