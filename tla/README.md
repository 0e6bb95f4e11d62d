# better-batch in TLA+

better-batch is a durable buffer between a program that writes records and a sink that takes
them in batches. A write returns when its record is in a write-ahead log; a flusher reads the
log back, cuts it into batches, delivers up to `MaxInFlight` of them at once with retries and a
dead-letter sink, and moves a checkpoint over what has been handled. The promises are: no
acknowledged write is lost by a crash, delivery is at least once, and a sequence number (LSN)
names one record for the life of the directory.

These modules model the code under `src/`, the TLC configurations check them on small instances,
and the `*Proofs` modules prove the central results for every instance with TLAPS.
`PROJECT.json` maps every definition to the lines it models and lists the runs, hazards,
findings and theorems.

## The system and its parts

| Part | Source | Modules | Status |
| --- | --- | --- | --- |
| Ack tracker: out-of-order completions to a low-water mark | `internal_support.go` 47-100, `flush.go` 602-633 | `LowWaterMark`, `AckTracker`, `CheckpointerProofs` | modelled, proved |
| Checkpointer, restart | `flush.go` 635-678, `wal/checkpoint.go`, `batch.go` Open | `Checkpointer`, `CheckpointerProofs` | modelled, proved |
| Broadcast gate | `internal_support.go` 24-45 and its callers | `Gate`, `BackpressureProofs` | modelled, proved |
| Delivery loop, backoff wait, sink-health counters | `flush.go` 268-457, 464-548 | `Retry`, `BackpressureProofs` | modelled, proved |
| Flusher, deliveries, dead letters, Flush, Close | `flush.go` | `Pipeline`, `PipelineProofs` | modelled, safety proved (Flush without a deadline) |
| Write path: capacity, policies, parking, DropOldest, disk full, sealing | `batch.go` 355-726, `policy.go` | `Admission`, `BackpressureProofs` | modelled, safety proved |
| Age tracker | `internal_support.go` 102-192 | `AgeTracker`, `ObserverProofs` | modelled, proved |
| Observer dispatcher, and Close's order of waits | `observer.go`, `flush.go` 722-802 | `Dispatcher`, `ObserverProofs` | modelled, safety proved |
| Log: staging, reservation, group commit, rotation, rollback, truncation, Close, crash recovery, Open's reconciliation with the checkpoint | `wal/wal.go`, `segment.go`, `reservation.go`, `batch.go` 207-280 | `Log`, `LogProofs`, `LogRecoveryProofs`, `LogDurabilityProofs` | modelled, proved |
| Damage: record framing, segment scan, salvage, identity | `wal/record.go`, `segment.go`, `salvage.go`, `identity.go`, `wal.go` 233-341 | `Recovery` | modelled |
| Log reader | `wal/reader.go` | `Reader`, `ReaderProofs` | modelled, safety proved |
| Lock, options, backoff ladder, Stats, codecs' bytes, ClickHouse sink | | | not modelled, see below |

How they interact: writers (`Admission`) reserve capacity and stage records (`Log`); the
committer makes rounds durable and wakes them; the writer notes the age (`AgeTracker`); the
flusher reads through `Reader` and hands ranges to deliveries (`Pipeline`, and `Retry` for what
one delivery does between two answers); a delivery that ends acknowledges its range
(`AckTracker`), which trims the ages, frees capacity (`Admission`) and moves the mark that
`Checkpointer` persists and truncates by. All of them post events (`Dispatcher`), and all
waiting goes through gates (`Gate`). The next Open reads what is left (`Log` after a crash,
`Recovery` after damage).

Each module takes its neighbours at the strength another module establishes:

- `Pipeline` takes the log as the set of its LSNs, in order (`Reader`: NoSkip,
  ReadsWhatItNames), and the mark as a function of what is acknowledged (`AckTracker`:
  ImplementsLowWaterMark). In return it shows RangesTile, the assumption on which the tracker
  works: ranges are handed out side by side.
- `Log` has an in-order consumer in place of the pipeline, since the order of completions is
  invisible behind the mark.
- `Admission` has a consumer that acknowledges records one by one, and commits that succeed or
  fail, as `Log` says they may. `Dispatcher` takes from it that no writer enters a sealed buffer.
- `Checkpointer` extends `AckTracker` and `Retry` extends `Gate`; both compositions are proved
  as well as checked.

## Modules

**LowWaterMark** is the abstract specification: LSNs are acknowledged in any order, the mark is
always exact, and a restart resumes at an earlier mark.

**AckTracker** is `ackTracker.ack` step by step. `low`, `done` and `mu` are its fields. A worker
is a delivery: `Cut` gives it the flusher's next range, `AckAhead` parks a range, `AckNext`
takes the mutex and moves the mark, `Drain` is one turn of the loop, `Unlock` returns, `Release`
is the second half of `Buffer.complete`. A range holds any number of records, gaps included.

**Checkpointer** adds `persist()`: `PersistRead`, `PersistWrite`, `PersistTruncate`, the
failures of the two file operations, and `CrashAndOpen`, which keeps the files only.

**Gate** has one waiter loop (take, test, wait) and publishers that change, then signal.

**Retry** is `deliver()` and `deadLetter()` with every access to a shared counter a step of its
own. The gate is that of the drop floor: its waiters are deliveries in `awaitRetry`, its
publishers the writers that drop, its level the floor. The timer may fire at any time, and need
not ever. What a batch holds, and what becomes of its records, is `Pipeline`'s subject.

**Log** has the directory (`files`, `reservedFile`, `checkpoint`), the fields of `Log`, the
committer's position in `commit()`, and what each writer has been told. The sync mode is chosen
in the initial state among `SyncModes` (TRUE is SyncNever) and kept. A file has the content a
process sees and the content forced to disk. A process crash keeps the first. A machine crash
keeps the forced part and any prefix of the rest, cut between or inside records (`Survivors`);
directory operations are durable in order, since the code follows each with `syncDir`. Recovery
is `OpenScan`, `OpenAttach`, `Reconcile` and their refusals, and a crash may come between them.
It cuts a torn tail without an fsync (`wal.go:281`), so `OpenScan` changes what the process sees
and leaves the disk as it is. `cached` remembers that a process ended with a tail only the page
cache may hold: a process crash, or a Close whose fsync failed. `CutUndone` is a machine crash
that brings a torn tail back under a segment created since it was cut. `Vanish` removes a segment
that a later one follows while the log is closed. `lastCP` is the mark Truncate was called for;
the retry of a failed truncation is `Checkpointer`'s subject.

**Recovery** has records with sizes: a header, a length field that may come to differ from the
payload, a payload that may rot, a file that may lack its last bytes. While the log is closed
`Rot`, `CutShort` and `Removed` damage the directory. Open is `OpenBegin` (RESERVED, LOGID), one
`Scan` per segment, and the three steps of `salvage()`: `SalvageKeep`, `SalvageLink`,
`SalvageCut`; a crash may come between any two. Each Open has its own `MaxRecordBytes` and its
own choice of salvaging. A write is one step here.

**Reader** is one cursor with its snapshot of the segment list, against commits (published, then
durable), rotations and truncations. Initial states are logs that recovery can leave, gaps
between segments included; `EmptyGaps` adds those with an empty segment between two gaps.

**Pipeline** has the flusher with its local variables (`f`), a record per delivery slot (`dl`),
one `Flush` and one `Close`. Delays are left out: a timer may fire whenever it is armed. The
final `persist()` of Close is `Checkpointer`'s. After StopBuffer, dispatching the held batch
and failing the buffer are one step.

**Admission** has every access to a shared atomic as a step: `reserve` and `reserveUndo`,
`dropOldestLoad` and `dropOldestMark`, `raiseFloorLoad` and `raiseFloorSwap`. A wait may end at
any time, as all of them have a timer. Each policy in `Policies` is the set of what it may answer;
the policy and whether the sink accepts (`Sinks`) are chosen in the initial state and kept.
The byte limit is the same code on a second counter and is left out.

**AgeTracker** has the marks, and around them writers whose records become durable, who then
read the clock, and who only then take the mutex; and completers that move the low-water mark
first and trim second. Notes thus come in any order and after the deliveries. The wall clock
does not step back.

**Dispatcher** has the queue, the dispatcher's goroutine and everybody who posts: writers,
settlers that outlive their writer, the flusher, deliveries, the checkpointer, and Close itself.
`Closers` are the callers of Close and a hook that calls it; `once` is closeOnce. Events are all
alike, and what the goroutines do besides is in the other modules.

**Totals** is the sum of a family of counters, written as the size of the set of the units they
count: about sizes of finite sets there are theorems to cite, about a fold there are none.
`Admission` and `AckTracker` state their accounts with it.

Operators marked "Mutant" in a comment are not part of a model: each is a plausible bug with
which a property of the module fails.

## Runs

Bounds are chosen so that every case named happens; they are constants of the cfg. Deadlock is
not checked, except in `recovery`: writers stop writing at a bound, and a closed or failed
buffer has nothing to do.

| Run | Bounds | Shows |
| --- | --- | --- |
| `checkpointer` | 2 workers, 3 LSNs (a range parked behind another), 2 faults, 2 crashes | capacity is freed once; the checkpoint covers handled records, deletion follows it, failed truncations are retried; refines `LowWaterMark` with restarts |
| `retry` | 2 deliveries, 2 writers that drop, a floor of 0 to 2, 2 attempts at either sink, an abort | no raise of the floor is missed; every way out gives the place among the failing back; a backoff is cut by a drop or by Close without its timer |
| `log` | every sync mode; 3 records, segments and LSN blocks of 2 (a rotation, a second reservation), 2 crashes of either kind and 2 faults (failing rollbacks and removals too), 3 of these together, 1 Close, a segment that vanishes | acknowledged records stay readable unless Open refuses the log, and it refuses only a harmed one; a failed write is never delivered; an LSN names one record; no staged write is forgotten |
| `recovery` | 4 records of 2 sizes, header of 2 bytes (a cut inside a header and inside a payload), 2 limits, segments and blocks of 2, 2 damages, 1 crash, any number of Opens with and without salvage | identity and LSN name one record; salvage can always be finished; only damage is cut away |
| `reader` | 5 LSNs, 3 segments | every record is read once under its LSN; ErrNoData means caught up |
| `pipeline` | 4 LSNs, a gap (batches of one and of two records), 2 slots, dead-letter sink, drops, failures, a draining Close | at least once, one outcome, consecutive batches, ranges tile; a drained buffer is empty |
| `pipeline_live` | 3 LSNs, a gap, an undecodable record, a partial batch, 2 attempts, a dead-letter sink retried without limit, all fault kinds, Flush, Close with a deadline | Flush returns; everything is resolved; a shutdown disposes of nothing; Close returns |
| `dispatcher` | a writer, a settler, a delivery, 2 callers of Close and a hook that may close too, a queue of 2, 4 events (the queue overflows) | nothing is posted to the closed queue; Close reports every event; every Close returns |
| `admission` | 2 writers of 1 to 3 records, capacity 2, a backlog of 3 at Open, every decision, commit error, failure and Close, 2 faults | writers never take the log above the capacity, and the count is exact; answers honest; nobody behind Close |
| `admission_live` | 2 writers of 1 record, capacity 2, a backlog of 3 at Open, Block or DropOldest, live or dead sink, full disk, failure, Close | a write returns whenever something can release it; Close gets past parked writers |
| `age_tracker` | 2 writers of 1 or 2 records, 2 completers, 4 LSNs, 2 marks (merged at the third), a granularity of 2 in 5 ticks, an inherited backlog | no age is understated; no backlog outlives its records |

Symmetry (slots, writers, completers) is used in safety runs only.

### Where code and documentation disagree

`reader_wedge` checks one documented sentence, and TLC finds a behaviour of the code against it:
two unclean restarts in a row leave an empty segment between two gaps, and the reader, whose
position is in the first, finds no segment that follows it. It reports ErrNoData with durable
records ahead, where `reader.go:64` says "ErrNoData once the reader has caught up with the
durable tail".

The passing runs except, in the statement of a property or by their constants, what the code
does not do, so that everything else is checked:

- OpenSucceeds holds for a log that was not `harmed`. Machine crashes harm it in three ways. In
  SyncNever, rotation makes the new segment's name durable before the old segment's content
  (`wal.go:666`). In the other modes, recovery after a process crash, or after a Close whose
  fsync failed, adopts records from the page cache without fsyncing them, and links the segment
  it creates above the reservation to them (`wal.go:312`); when a machine crash then takes them,
  Open fails with a hole, where `wal.go:197` says that what a crash leaves at the tail "is
  expected after a crash and is truncated away". And in those
  modes too, recovery after a machine crash cuts a torn tail without fsyncing the cut
  (`wal.go:281`) and creates a segment above the reservation (`wal.go:318`); when a second machine
  crash undoes the cut, Open fails with ErrCorrupt (`wal.go:265`), against the same line 197. No
  other fault is needed: with `CutUndone` left out of `Crash`, the run `log` finds that history.
  Besides machine crashes, a discarded segment that cannot be removed and a segment that vanished
  harm the log.
- LSNNamesOneRecord and FailedNeverDelivered leave out the records of a round that broke the log.
  Its rollback failed, so its whole records may still be in the file: the next Open delivers them
  although their writers got ErrBroken, and Close has given their LSNs back.
- AckedReadable leaves out records written after a round that broke the log, once the log has
  been `harmed` as well. The proof attempt found the chain: the records of the broken round stay
  in the file while Close gives their LSNs back (`wal.go:804-817`); the next run reads, delivers
  and checkpoints them; a machine crash then takes the tail, which was never forced to the disk;
  the log ends below its checkpoint, and Open neither refuses it nor lifts its numbering
  (`batch.go:224-250`), so that new records get LSNs the checkpoint covers already.
  One more crash, and the next run starts above them. The chain takes three faults, a Close and
  two crashes, more than the run `log` allows: within its bounds the property holds without the
  exception. Without it, TLC finds the chain with 2 records, `MaxFaults = 3` and `MaxMishaps = 5`.
- FlushReturnsWhileDelivering is excused by a failure of the buffer: `fail()` (`flush.go:885`)
  signals the space gate and not the progress gate, so a Flush that has tested the error waits
  for a mark that no longer moves, where `flush.go:691` says that Flush returns the buffer's
  fatal error. It is also excused, like EverythingResolved, by an abort that leaves records
  behind and by a sink that refuses for ever without a limit on attempts.
- SalvageOpens excepts a segment with a successor that lost whole records off its end. No byte
  left in it is wrong, so the scan finds nothing to salvage, and the chain does not link: Open
  refuses such a log, with or without salvage, although the comment on `WithSalvage`
  (`options.go:388-395`) counts a segment cut short among what it repairs.
- OpenCutsDamageOnly excepts a record of the last segment whose length field is wrong or above
  `MaxRecordBytes`: it is cut as a torn tail with whatever is behind it, also when it is a rotten
  record of a length an earlier limit allowed (`segment.go:187-190`; the comment at 129-131
  would have it reported).
- WithinCapacity excepts a backlog that was above the capacity when the buffer was opened, until
  it has drained to it: `countBacklog` (`batch.go:300-323`) takes the count above the CHECKPOINT as
  it is, and a checkpoint that lags behind or a lowered `WithCapacity` makes it larger. Meanwhile
  nothing is written and no writer is promised room.
- NameIsUnique excepts numbers nothing on the disk vouches for: a tail that damage made look
  torn, or that was cut off whole, in a log that also lost RESERVED.
- `reader` has no empty segment between two gaps.

More behaviours that a reader of the documentation would not expect, listed as hazards with their
lines: a delivery may start after the buffer has failed; DropOldest may drop the write it makes
room for; a reservation that fits may be refused because of one being undone; a success may zero
`sinkFailures` while another delivery is failing; a CHECKPOINT left alone in a directory emptied
by hand is taken for the mark of new records after a crash. In the age tracker, merging halves
the head's resolution too, which the comment at `internal_support.go:105-107` denies, and a note
that comes late leaves a mark later than the acceptance of a record it covers, which the comment on
`ageMark.at` denies; ages are still never less than the time since the record's note, which is
what NeverUnderstated says.

### Fairness

- `Checkpointer`: the flusher keeps reading, a delivery that acknowledges finishes, the sink
  answers, and the ticker keeps calling `persist()`.
- `Retry`: goroutines run and sinks answer; a writer that raised the floor signals. No timer is
  fair: BackoffIsCut must hold without one.
- `Reader`: Next keeps being called; a round that has published becomes durable.
- `Pipeline`: goroutines run, the ticker ticks and sinks return (deliveries are called with a
  context). Go's select takes a ready case at random, so a closed channel (`drainNow`, `abort`)
  that stays ready is taken in the end: strong fairness on these two cases. A sink need not
  ever accept, except in that retries are limited where a run says so.
- `Dispatcher`: goroutines run, writes and deliveries end, the flusher ends once it is told to
  drain (`Admission` and `Pipeline` are about that); a hook returns, panics or sticks. Contexts
  need not expire.
- `Admission`: writers run and timers fire; the consumer runs until the buffer fails.
- `Log`, `Recovery`, `AgeTracker`: none; their properties are safety properties.

Blocked writers whose calls together exceed the capacity can refuse each other for ever in a
schedule that repeats one collision of `reserve` and its undo; only timing excludes it, so
`admission_live` has two writers of one record and a capacity of two.

## Proofs

All are for every value of the constants: any set of workers, writers or slots, any `MaxLSN`, any
number of crashes and faults. Assumptions are the named ASSUMEs of the modules (naturals; finite
sets of goroutines; `NoOne` is not a worker), which TLC evaluates in the runs. None of them relates
the backlog a buffer is opened with to its capacity.

**CheckpointerProofs.** First the tracker by itself. The inductive invariant is
`IInv == TypeOK /\ Tiling`. That the mark skips nothing is not inductive: `Drain` jumps over a
parked range, which is right only because parked ranges and unfinished ones are disjoint, lie
between the mark and the flusher, and leave no hole (`Disjoint`, `Between`, `Covered`), and
because the mutex is held by the one worker that drains (`Locking`). From it: `MarkIsSafe`
(NothingSkipped), `MarkIsTight` (NoStall: the range just above the mark is really
unacknowledged), and `Refinement`: with a worker's acknowledgement taking effect when it unlocks,
every step is `LWM!Acknowledge` or a stutter.

For the checkpointer, `CIInv` adds `Accounted` (what is below the flusher and in no unfinished
range is handled) and `Persisting` (what `persist()` holds was a mark of this run, and lies
between the file and the present mark). From it: `CheckpointIsSafe`, `DeletionIsSafe`,
`CheckpointNeverReverts`. `CapacityReturnedOnce` adds `FreedLate` (a worker has freed nothing
before its ack moved the mark); each step moves an amount between the accounts of the
unacknowledged, the parked and the freed, each a `Total`. `RestartRefinement` adds `Shown` (the
file holds a mark that was visible outside the mutex) and shows that a crash is `LWM!Restart`.

**PipelineProofs.** AckedResolved says nothing about the ranges being filled or in flight, from
which the next acknowledgement comes, so the invariant is about the whole log, in four parts:
what deliveries hold (`Theirs`, pairwise `Apart`), the flusher's own range (`Mine`), what it has
read beyond that (`Bounds`: the record held back or the one that stopped it, and gaps), and what
it has not read. In each range a record is in the batch or resolved already (`Batch`, `Filled`);
everything above the flusher's range is pending. `Cover` (below the flusher all is acknowledged
or in flight, until the buffer fails or aborts) and `Ending` (a flusher that ended by itself had
read all there is, with writers shut out) carry `DrainIsComplete`. The lemmas follow the code:
what opening, skipping, extending, dispatching and resolving do to the four parts, then one
lemma per group of actions. `NothingAckedUnresolved`, `BatchesAreConsecutive` and `OneOutcome`
follow from the invariant.

`RangesAreTiled` needs `Weighed` besides: every record of a range is in its batch or counted as
skipped, and acknowledgements stay below the flusher's range and outside the ranges in flight.
The `Weight` lemmas say how the number of records in a range changes when it is extended by a
record, by a gap, or by a skipped one. `ShutdownIsHarmless` needs `Shutting`: Close closes
`abort` before it cancels the context, so a delivery refused because of the cancellation finds
`abort` closed and leaves its batch to the next run.

**BackpressureProofs.** What holds writers back, `Admission`, and what holds deliveries back,
`Gate` and `Retry`; the two halves share no state. For `Admission`, `Inv` has the types,
NoWriterBehindClose, and `Honest` for each writer: it has no answer before it returns, except
"uncertain" while a settler waits in its place, and once it has one, the answer is "ok" exactly
if its records have an LSN. One lemma per phase of WriteBatch. PendingExact and WithinCapacity
are inductive together with it (`Exact`): the count is above the granted amount by what refused
writers have yet to undo, so that the comparison with the capacity in `reserve` errs to the safe
side. With a backlog above the capacity no reservation succeeds, so nothing is added to it. The
writers' reservations are `Total`s; the lemmas on totals say what a change in one counter does to
the sum, for any finite set of writers.

`GateIsSafe`: no lost wake-up, for any number of waiters and publishers. The property is
inductive beside the types: a waiter takes the channel before it tests, so a test that fails has
seen every change made before it, and a later one has its signal still to come. `BackoffIsWoken`
carries it to `RSpec`, where a delivery enters and leaves the loop again and again.
`FailingIsOwned`: `FailingInv` says that the count is the size of the set of deliveries that call
themselves failing, and that one that has ended does not; the two lemmas `Raised` and `Lowered`
do the cardinalities.

**ObserverProofs.** What others see of the buffer: the ages in `AgeTracker` and the events of
`Dispatcher`; again the two share no state. `Covers` is the strengthening for the ages: every
record noted and not trimmed has a mark at or above its LSN, and the first such mark is not later
than its note. `MarksFresh`: each mark ends at a record that has been noted and is not trimmed.
Both are shown for an abstract renewal of the marks first (`RenewedInv`), then each case of `note`
(extend, append, merge and append) is shown to be one; `MergedKeeps` is the lemma about merging
pairs.

NoSendOnClosed needs that at each stage of Close the goroutines it has waited for have ended, and
stay ended: `Ended` says so stage by stage, `OneShutdown` that one call at a time is in these
stages, `Gone` that the dispatcher leaves an empty closed queue. `CloseReportsEverything` then
follows from EventsAccounted.

**ReaderProofs.** The properties are statements about the present segment list, and the cursor
works from a stale one. `Shape` says what commits, rotation and truncation keep of the list:
bases ascend, each segment knows the end of the one in front of it, and truncation takes only
what lies below the cursor. `Snapshot` says that the stale list shows nothing the log does not
reach, `Place` that the open file stands where `posLSN` says, `StillThere` that what was
readable when Next was called and is yet to be read is still in the log. From them
`PositionIsRight` and `NothingIsSkipped`, and `NoDataIsTrue` for logs without an empty segment
between two gaps, the case of the finding.

**LogProofs**, **LogRecoveryProofs** and **LogDurabilityProofs.** None of the five properties of `Log` is inductive, and
the reason why each holds lies in other variables than it mentions. The invariant is built in
layers, and each layer is shown to be kept by every step from the layers before it. The first two
are in LogProofs, those from `PlacesInv` to `SoundInv` in LogRecoveryProofs, the last three in
LogDurabilityProofs:

| Layer | Says | Carries |
| --- | --- | --- |
| `RoundsInv` | the records staged and not answered are those of the two rounds, in order, behind all others | `NoWriteIsForgotten` |
| `DiskInv` | files have different bases and do not overlap; the segments in memory are a chain of files; LSNs in use are below the reservation | |
| `PlacesInv` | which records the files and the sink have: settled ones in the same order as their LSNs, each in one file, none above RESERVED or above the last LSN; failed ones nowhere | `FailureIsFinal`, `NumbersAreNeverReused` |
| `ForcedInv` | in the modes that fsync, until a process leaves a tail to the cache, what is published is on the disk, and the disk has the records of every file but the active one; of a torn tail it may still have what Open has cut | |
| `MarksInv` | the checkpoint reaches what Truncate may remove, the mark reaches the checkpoint | |
| `SoundInv` | a log that was not harmed is in one piece: closed, its files link up from the checkpoint (`Linked`); open, they are the segments in memory (`Whole`) | `RecoveryAccepts` |
| `ReachInv` | new records get LSNs above the checkpoint, unless a broken round's LSNs were given back | |
| `TailInv` | between the write and the commit the active file ends in the round | |
| `OwedInv` | every acknowledged, undelivered record is at its place in a file, above the checkpoint and the mark and in no gap (`Placed`), or there is a hole that keeps Open from succeeding (`Missing`) | `AcknowledgedIsReadable` |

Recovery (`OpenScan`) reads files in the order of their bases. `Listings` says what such a list
is instead of computing it, so that the proofs need no induction over it (`ListingFacts`); TLC
finds the one list there is by enumeration. Facts by induction are had from the well-foundedness of the natural
numbers, as the existence of a least counterexample (`Least`, `Greatest`). The
strengthenings were checked with TLC on the instance of the run before they were proved, and
three attempts to prove them corrected the model or a property: a Close whose fsync fails
leaves a tail to the cache as a crash does (`cached`); a segment is missed by Open only if
another follows all of its records (`Vanish`); and the exception in AckedReadable described
above.

Only model-checked:

- liveness: TruncationCatchesUp, BackoffIsCut, EverythingRead, EverythingResolved,
  FlushReturnsWhileDelivering, CloseReturns (twice), WriteReturns, CloseDrains. Fairness and
  ENABLED are out of the prover's reach;
- `Recovery` (NameIsUnique, SalvageOpens, OpenCutsDamageOnly): offsets in a segment are sums over
  its records, and what a scan finds at an offset needs induction over them.


## Not modelled

- The lock on the directory is one system call, and the reason why the models have one process.
- Options are validated and defaulted without state; their values are the modules' constants.
- The backoff ladder is floating-point arithmetic with a random factor; no property depends on
  the length of a delay. When the policies provided answer what, by age, fill level and waiting
  time, is left out for the same reason: every answer is possible at any time.
- Stats reads counters. Synchronous observers run inside the steps of their callers.
- Codecs: a record encodes or not, decodes or not; the bytes are left out.
- The ClickHouse sink is a separate Go module over a database driver: one INSERT per batch and a
  table of error codes. To the buffer it is a sink.
- A malformed LOGID, CHECKPOINT or RESERVED file, which Open refuses; damage that a checksum
  does not catch; fsync that reports success and loses data.
- The clean-up after an Open that failed, and a Flush whose context ends, which only return.
