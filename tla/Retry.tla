------------------------------- MODULE Retry --------------------------------
(***************************************************************************)
(* deliver() and deadLetter(): a batch is flushed until the sink takes it, *)
(* a verdict or the attempts end it, DropOldest raises the floor over it,  *)
(* or Close aborts.  Between attempts awaitRetry() waits on a timer, on    *)
(* the abort and on the gate of the floor, module Gate: the deliveries are *)
(* its waiters, the writers that drop are its publishers, the level is the *)
(* floor, and goal[w] is the first floor above the batch of w.  The        *)
(* sink-health counters the policies read are kept by the same goroutines, *)
(* one atomic operation at a time.                                         *)
(***************************************************************************)
EXTENDS Gate, FiniteSets

CONSTANTS MaxAttempts      \* MaxAttempts, and the dead-letter sink's

ASSUME RetryAssumption == MaxAttempts \in Nat \ {0} /\ IsFiniteSet(Waiters)

VARIABLES stage,           \* per delivery, where it is
          dlq,             \* the deliveries that have come to the dead-letter sink
          attempt,
          failing,         \* deliver()'s variable of that name
          failingBatches, sinkFailures,   \* atomic counters of Buffer
          aborting         \* Buffer.abort is closed

own   == <<stage, dlq, attempt, failing, failingBatches, sinkFailures, aborting>>
rvars == <<gvars, own>>

RInit ==
  /\ GInit
  /\ stage = [w \in Waiters |-> "check"]
  /\ dlq = {}
  /\ attempt = [w \in Waiters |-> 1]
  /\ failing = [w \in Waiters |-> FALSE]
  /\ failingBatches = 0 /\ sinkFailures = 0
  /\ aborting = FALSE

GoTo(w, s) == stage' = [stage EXCEPT ![w] = s]

\* Mutant: the deferred function does nothing.
LeaveForgets(w) == GoTo(w, "ended") /\ UNCHANGED <<failingBatches, failing>>

\* Every way out runs the deferred function, which gives the count back.
Leave(w) ==
  /\ GoTo(w, "ended")
  /\ failingBatches' = IF failing[w] THEN failingBatches - 1 ELSE failingBatches
  /\ failing' = [failing EXCEPT ![w] = FALSE]

\* The floor is read at the head of either loop; a batch below it is dropped whole.
check(w) ==
  /\ stage[w] = "check"
  /\ IF level >= goal[w] THEN Leave(w)
     ELSE GoTo(w, "flush") /\ UNCHANGED <<failing, failingBatches>>
  /\ UNCHANGED <<gvars, dlq, attempt, sinkFailures, aborting>>

\* The sink takes the batch.  The dead-letter sink's answer is not counted.
flushed(w) ==
  /\ stage[w] = "flush"
  /\ IF w \in dlq THEN Leave(w)
     ELSE /\ GoTo(w, "load")
          /\ failingBatches' = IF failing[w] THEN failingBatches - 1 ELSE failingBatches
          /\ failing' = [failing EXCEPT ![w] = FALSE]
  /\ UNCHANGED <<gvars, dlq, attempt, sinkFailures, aborting>>

load(w) ==
  /\ stage[w] = "load"
  /\ GoTo(w, IF failingBatches = 0 THEN "store" ELSE "ended")
  /\ UNCHANGED <<gvars, dlq, attempt, failing, failingBatches, sinkFailures, aborting>>

store(w) ==
  /\ stage[w] = "store"
  /\ sinkFailures' = 0
  /\ GoTo(w, "ended")
  /\ UNCHANGED <<gvars, dlq, attempt, failing, failingBatches, aborting>>

\* The sink refuses the batch; the first refusal enters it among the failing.
refused(w) ==
  /\ stage[w] = "flush"
  /\ sinkFailures' = IF w \in dlq THEN sinkFailures ELSE sinkFailures + 1
  /\ GoTo(w, IF w \in dlq THEN "decide" ELSE "enter")
  /\ UNCHANGED <<gvars, dlq, attempt, failing, failingBatches, aborting>>

enter(w) ==
  /\ stage[w] = "enter"
  /\ failingBatches' = IF failing[w] THEN failingBatches ELSE failingBatches + 1
  /\ failing' = [failing EXCEPT ![w] = TRUE]
  /\ GoTo(w, "decide")
  /\ UNCHANGED <<gvars, dlq, attempt, sinkFailures, aborting>>

\* sinkPanicked
sinkPanicked(w) ==
  /\ stage[w] = "flush"
  /\ Leave(w)
  /\ UNCHANGED <<gvars, dlq, attempt, sinkFailures, aborting>>

\* The shutdown, a verdict or a failed buffer ends the delivery.
GiveUp(w) ==
  /\ stage[w] = "decide"
  /\ Leave(w)
  /\ UNCHANGED <<gvars, dlq, attempt, sinkFailures, aborting>>

\* A verdict, or the last attempt, sends the batch to the dead-letter sink.
deadLetter(w) ==
  /\ stage[w] = "decide" /\ w \notin dlq /\ ~aborting
  /\ dlq' = dlq \cup {w}
  /\ attempt' = [attempt EXCEPT ![w] = 1]
  /\ GoTo(w, "check")
  /\ UNCHANGED <<gvars, failing, failingBatches, sinkFailures, aborting>>

\* awaitRetry begins: the gate's loop, from its head.
backOff(w) ==
  /\ stage[w] = "decide" /\ ~aborting /\ attempt[w] < MaxAttempts
  /\ GoTo(w, "await")
  /\ pc' = [pc EXCEPT ![w] = "take"]
  /\ UNCHANGED <<level, ch, pub, goal, held, dlq, attempt, failing, failingBatches,
                 sinkFailures, aborting>>

awaiting(w) == stage[w] = "await" /\ Wait(w) /\ UNCHANGED own

\* awaitRetry returns true: the floor has passed the batch, or the timer fires.
again(w) ==
  /\ attempt' = [attempt EXCEPT ![w] = @ + 1]
  /\ GoTo(w, "check")
  /\ UNCHANGED <<gvars, dlq, failing, failingBatches, sinkFailures, aborting>>

shed(w)  == stage[w] = "await" /\ pc[w] = "done" /\ again(w)
timer(w) == stage[w] = "await" /\ pc[w] = "wait" /\ again(w)

\* Mutant: the abort is looked at once, before the wait.
abortedEarly(w) ==
  /\ stage[w] = "await" /\ pc[w] = "take" /\ aborting
  /\ Leave(w)
  /\ UNCHANGED <<gvars, dlq, attempt, sinkFailures, aborting>>

aborted(w) ==
  /\ stage[w] = "await" /\ pc[w] = "wait" /\ aborting
  /\ Leave(w)
  /\ UNCHANGED <<gvars, dlq, attempt, sinkFailures, aborting>>

\* Close closes abort.
abort ==
  /\ ~aborting
  /\ aborting' = TRUE
  /\ UNCHANGED <<gvars, stage, dlq, attempt, failing, failingBatches, sinkFailures>>

\* dropOldest: the floor is raised, then the gate signalled.
dropOldest(p) == Publish(p) /\ UNCHANGED own

Deliver(w) ==
  \/ check(w) \/ flushed(w) \/ load(w) \/ store(w) \/ refused(w) \/ enter(w) \/ sinkPanicked(w)
  \/ GiveUp(w) \/ deadLetter(w) \/ backOff(w) \/ awaiting(w) \/ shed(w) \/ aborted(w)

RNext ==
  \/ \E w \in Waiters : Deliver(w) \/ timer(w)
  \/ \E p \in Publishers : dropOldest(p)
  \/ abort

\* Goroutines run and sinks answer, but a retry delay may be as long as you like.
RSpec ==
  /\ RInit /\ [][RNext]_rvars
  /\ \A w \in Waiters : WF_rvars(Deliver(w))
  /\ \A p \in Publishers : WF_rvars(signal(p) /\ UNCHANGED own)

-----------------------------------------------------------------------------
(* Every way out of a delivery gives its place among the failing back: one   *)
(* that leaked would keep sinkFailures from ever being reset again.          *)
FailingHasOwner ==
  failingBatches = Cardinality({w \in Waiters : stage[w] # "ended" /\ failing[w]})

(* A delivery in backoff does not sit out its delay when DropOldest has      *)
(* raised the floor over its batch, or Close has aborted: it ends, although  *)
(* the timer never fires (awaitRetry, "waiting out a retry delay first would *)
(* leave a policy that exists never to block blocking").                     *)
BackoffIsCut ==
  \A w \in Waiters :
    stage[w] = "await" /\ (level >= goal[w] \/ aborting) ~> stage[w] = "ended"

=============================================================================
