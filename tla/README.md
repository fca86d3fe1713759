# A TLA+ development for bsas

bsas (Beam Synchronous data Acquisition Service) is an EPICS IOC that subscribes
to lists of PVs over Channel Access (CA), merges their updates by time stamp into
rows of a table, and serves the table over pvAccess (PVA). A separate Python
client, `h5tablewriter.py`, archives such tables. These modules model the parts
in which threads meet, check them with TLC on small instances and prove their
most important properties for all instances with TLAPS.

## The system

| Part | Source | State it keeps | Operations |
| --- | --- | --- | --- |
| Subscription | `collect_ca.*` | one CA channel, the queue of its updates and its limit, `last_event`, `connected`, ten counters | CA callbacks `onConnect`, `onEvent`; `pop`, `clear`, `close` |
| CAContext | `collect_ca.*` | a preemptive CA client context | create, attach, detach, destroy |
| Collector | `collector.*` | per PV `ready` and `connected`; `waiting`, `run`; the map `events`, `oldest_key`, the batch `completed`; the receivers and the processor's copy of them | processor thread `process` (`process_dequeue`, `process_test`), `notEmpty`, `add_receiver`, `remove_receiver`, `close` |
| PVAReceiver | `receiver_pva.*` | columns with their types and copiers, the structure being served, the state `NeedRetype`/`RetypeInProg`/`Run` | `names`, `slices`, `close` |
| Coordinator | `coordinator.*` | the list last put, the Collector and PVAReceiver made for it, the status table | handler thread `handle`, `onPut`, destructor |
| Hooks | `hooks.cpp` | the map of Coordinators, the CA context, the PVA provider | `bsasTableAdd`, `bsasTableSet`, `bsas_report`, `bsasStatReset`, start-up and exit hooks |
| File writer | `h5tablewriter.py` | the open HDF5 file, scratch, second stage and final files, a migration thread | update callback, `flush` with its rotation, `_movefile`, main loop with signals, `close` |
| `bsasconf.py`, `bsasMain.cpp`, tests, databases, build files | | none of their own | |

How they interact: a Subscription's callbacks run on a CA thread and fill its
queue under `Subscription::mutex`. If the queue was empty they call
`Collector::notEmpty`, which marks the PV under `Collector::mutex` and signals
the event `wakeup` if the processor waits. The processor drains the queues with
`Collector::mutex` held, decides which events are complete or too old, releases
the mutex and calls `slices()` of its receivers. The Coordinator's handler thread
owns the Collector and the receiver and replaces both when `onPut`, on a PVA
thread, has stored another list. The IOC shell reads and resets statistics of all
three, and drives the start and the end of the program. All use of libca goes
through one CAContext, to which handler threads, the shell and PVA workers attach
for a moment. The file writer is another process: it monitors the table PV, and
its main loop, the PVA worker and a migration thread share the files.

What is hard: three threads share each Subscription and two mutexes with a gap
between them; the processor and the handler do much of their work with their
mutexes released; time stamps come from other machines; queues, events and
carry-over are bounded and everything beyond is dropped; and objects are
destroyed while others may still refer to them. `PROJECT.json` lists these
hazards at their lines.

What makes each part correct:

- Subscription: the queue is first in first out and loses only its oldest
  entries, each counted; what a disconnection leaves stays last; counters shown
  as differences do not wrap.
- Collector: no wakeup is lost; its view of the connections follows the queues;
  batches advance in time and no data goes back behind them; every event is sent,
  kept or counted as lost; close() returns.
- PVAReceiver: unless a type is just changing, all columns of the table have the
  same length and the type the served structure says; back fill repeats only the
  last value; nobody waits in `slices()` for a rebuild that nobody does.
- Coordinator: the last list put is the one that is served in the end; objects die
  before what they refer to.
- CAContext: no thread notices that it was attached to another context.
- Hooks: the CA context goes after every Coordinator that nobody holds; a list set
  from a file is that of the whole file.
- File writer: no row is lost or overwritten without an error in the log, whatever
  fails between the steps of a rotation; rows do not stay in the scratch file.

## Modules

| Module | Models | State and actions |
| --- | --- | --- |
| `TimeKeys` | packed keys and the age test of `process_test` | `now`, `ts`; `ReadClock`; operators `Pack`, `KeyAge`, `TooOld` in 64 bit arithmetic |
| `WireBytes` | the bandwidth estimate of `onEvent` | `nUpdates`, `nUpdateBytes`, and what the layout of its comment comes to; `Update`, `StatReset`; operators `Size` and `WireSize` |
| `Numbers` | `TimeKeys` and `WireBytes` side by side | the state of both |
| `ValueQueue` | `_push` and `clear` as operators on sequences | `PushBounded`, `KeepNewest`, `Excess` |
| `LossyQueue` | abstract: a queue that may lose its oldest entries and counts them | `q`, `lost` |
| `Subscription` | one Subscription | the members as variables, the counters as two records `n` and `l`; one action per callback outcome, `Pop`, `Clear`, `Close`, `StatusUpdate`, `StatReset` |
| `Collector` | the Collector with the callbacks that feed it | program counters `ca`, `ppc`, `opc`; one action per critical section |
| `EventStream` | abstract: what a Collector promises its receivers | `held`, `newest`, `batch`, `count`; `Gather`, `Send`, `GiveUp` |
| `TableService` | abstract: what a Coordinator promises to clients | `requested`, `building`, `served`, `up` |
| `Coordinator` | one Coordinator with onPut, reports and shutdown | program counters `hpc`, `put`, `shell`, `dpc`; one action per critical section or call |
| `PVAReceiver`, `MCPVAReceiver` | one PVAReceiver with the SharedPV it posts to | program counters `pc` of the constructor and of the processor; `state`, `columns`, `root`, `changed`; one action per critical section or call on the SharedPV |
| `TableWriter` | `h5tablewriter.py` with its three threads, the files and the operating system | `step` is where the holder of the lock is in `flush()`, `mig` where the migration is; one action per call on a file |
| `CAContext` | creating, using and destroying the CA context, by any thread | `attached`, `priority`, `alive`; `call` holds the local variables of an operation; one action per stretch between calls that may fail |
| `Hooks`, `MCHooks` | the whole program's start, commands and exit, over `CAContext` | the map, one `stage`, `handler` and list per table, program counters `shell` and `put` |
| `*Proofs` | theorems about the module they are named after | |

`Subscription` and `Collector` share `ValueQueue`: the Collector model contains
each Subscription reduced to its queue, connection and callbacks, and leaves the
counters to `Subscription`. Operators whose comment says "a seeded fault" are no
part of the models: each is a plausible mistake in the definition that follows
it, used to see that a property notices.

### Abstractions

An update is its time stamp and whether it is data or the marker of a
disconnection. In `Collector` a time stamp is a tick of the processor's clock, and
a key is that tick: `TimeKeysProofs` shows that packing keeps the order of stamps
and by how much the age test is off. Stamps of data are chosen freely up to
`clock + Skew`. The CA library is modelled by two facts on which the code relies:
callbacks of one context run one at a time, and `ca_clear_channel` returns when no
callback of the channel is running. `epicsEvent` is a binary event. An assertion
that fails and an exception that leaves a thread stop the program. Using an
object that is being deleted may or may not stop it; using a null pointer does.

A callback's critical section and the call of `notEmpty` after it are separate
steps, and so are the two halves of `notEmpty`, the marking and the signal. The
processor holds `Collector::mutex` through `round`, `dequeue`, `clear` and `test`,
one PV at a time, so that callbacks push between the PVs of one pass. In
`Coordinator` only the shell keeps the mutex from one step to the next; every
handler step that needs it waits for that.

In `PVAReceiver` events are numbered and a value is the number of the event it
came with; what an event may hold of a PV is one of `Cells`: nothing, the marker
of a disconnection, a scalar or an array of some type. A batch is a range of
events, so that `RowsAreTrue` can look back. The SharedPV is modelled by what the
code uses: it cannot be opened twice, and posting to one that is closed or open
for another structure is an exception. One call on it is one step, although the
mutex is released: a structure read while the other thread fills it is not
modelled. `early` remembers that the processor called `slices()` before
`names()` had run, which add_receiver allows; a null pointer or an exception may
follow, and `RunIsConsistent` and `WaiterIsWoken` are stated without that case.

`WireBytes` has the body of an update as the comment of the estimate has it, its
elements without the meta-data, and the size that the code uses as `dbr_size_n()`
gives it, which includes the meta-data and room for one element even of an empty
array. (That is external: the model has the macro for which the workaround at
`collect_ca.cpp:346` is written.)

In `Subscription` an update of type DBR_TIME_STRING, which `onEvent` would count as
an error and as an overflow (`collect_ca.cpp:379-389`), has no action: `onConnect`
subscribes to no DBF_STRING. In `Coordinator` a channel that libca refuses ends the
rebuild by an exception (`NewCollector`), as does a name of which the receiver can
make no field (`NewReceiver`). Where the processor thread runs already when a
constructor of the Collector throws, unwinding waits for it for ever; the model stops
there, too.

`TableWriter` takes a file as the set of the rows that were flushed to it; what a
crash does to an HDF5 file that is being written is not modelled, nor are its
columns. Faults are counted: a call on a file or the start of the migration thread
fails, SIGINT comes while main holds the lock, the process is killed. Some leave the
TableWriter in a state of its own. A file that a `flush()` closed without getting to
`self.F = None`, or of which `open()` could not make the group, stays in `self.F`:
every append raises and its update is lost (`AppendRaises`), until a rotation gets
rid of the file in the second case. A migration thread that was assigned but not
started cannot be joined, so that every later rotation raises. A restart finds the
files as they were. Where the scratch file and the final one are on different file
systems the move is a copy and a removal, otherwise one step. The signals work as in
Python 2, for which the code is written (`isAlive()`, and `os.write` of a str).

`Hooks` has Coordinators reduced to what start and exit depend on. The handler
opens and closes the channels of a table in one scope of `CAContext::Attach` where
the code has one per channel. The hooks are announced once: an IOC that is paused
and resumed would announce the last one again, for which the code is not made. A
line of a file is a name, blank or a comment.

## What is checked

| Run | Bounds | Shows |
| --- | --- | --- |
| `numbers` | 4 "ns" a second, key halves of 16 values, time-out 2.5 s; frames as in the source, 3 layouts of DBR types, 7 numbers of elements, 2 updates | keys are ordered like stamps; the age test is never late, early by less than the fraction, monotone; the estimate exceeds the layout by the meta-data and at most one header per update |
| `subscription` | 6 callbacks, stamps 1-2, limits 1-2 | implements LossyQueue; bounded; the marker stays last; counters do not wrap |
| `collector` | 2 PVs, queue limit 1, 2 events, carry 1, 3 updates, 3 ticks | no lost wakeup, queues visible, connection view; implements EventStream: batches advance, no event is passed over, nothing late, loss counted; old events leave |
| `collector_live` | 2 PVs, 2 updates, 1 receiver, fairness | queues drain, close() returns, the processor's copy of the receivers is current or marked |
| `coordinator` | 2 clients, 2 puts, 3 lists of which one is refused, 1 report, fairness | no put lost; list, collector and status agree at rest; objects die in order; implements TableService with its liveness; shutdown ends |
| `receiver` | 2 PVs, one of any type and one plain; 3 types of which one has no copier; 3 events in batches of 1 or 2 | rows are true to events with and without back fill; types and lengths agree with the structure; nobody waits for ever for a rebuild |
| `writer` | 2 rows, 2 final paths, 2 faults, fairness | no row lost silently; files have one owner; exit is complete; rows leave the scratch file |
| `hooks` | 2 tables, 1 worker, 1 put of another client, 1 command that reads a file of 3 lines; every thread with or without a context of its own | contexts and priorities restored; order of exit; files taken whole |

The bounds are small but reach every branch: a queue limit of one makes pushes
drop, two events make the processor overflow and drop events beyond the
carry-over, two PVs make partial events, late updates and passes that see one
queue filled while the other is polled, and three updates let one come after a
flush. In `Coordinator` two puts are enough for one to overtake a rebuild or the
other put, two clients for one to hold the Coordinator while the other is served;
a list is empty or one name, so that lengths differ, and one name is refused.
In `PVAReceiver` three events are enough for a change of type, one back, and a
value of an unsupported type twice; a batch of two has the change in its middle.
In `TableWriter` two rows make two files, which may share a final path and meet at
the second stage; two faults put a crash or a failure on top of an earlier one's
debris. In `Hooks` the lists are chosen so that a part of the file is no list of
anybody, and `bsasTableSet` is called once; a command that meets the list of an
earlier one that timed out needs two calls, which was run apart (one table, two
files, 89 thousand states) and is proved. Each property of a passing run is paired with a seeded fault of the code
that it catches, under the same configuration.

### Fairness

`Collector!Fairness`: the processor runs, a callback that has begun ends, and
close(), once called, goes on: these are threads that wait for nothing but a
mutex, the event or each other. Weak fairness is enough because what competes
for the mutex is bounded: the number of updates is, and the processor leaves the
mutex to wait or to read the clock in every round. Nothing is assumed of CA
servers, of receivers that come and go, or of anybody calling close().

`Coordinator!Fairness`: the IOC gets started, the handler runs and its
`wakeup.wait(1.0)` returns, an onPut that has begun ends, a report ends, an exit
that has begun goes on, and so does the destructor. Puts and reports are bounded
and nobody has to put, report or exit.

`TableWriter!Fairness`: the three threads run and time passes. main has to get the
lock in the end although the worker takes it again and again, so that it is fair in
the strong sense: updates take less time than there is between them (the code warns
when they do not), and Python's lock is then free when main wakes. Nothing says that
updates or signals come, that nothing fails, or that the process is started again.

### What does not hold

Runs that are expected to fail show where the code differs from what a comment,
an assertion or a test of the repository says of it; `PROJECT.json` quotes the
lines under "findings".

| Run | Property | What happens |
| --- | --- | --- |
| `collector_assert` | `NoAbort` | a late disconnection marker fails the assertion on the order of events |
| `coordinator_assert` | `SizesAgree` | a put during a rebuild fails the assertion on the sizes |
| `receiver_assert` | `CopierFits` | a scalar of a type without a copier meets the copier of the old type |
| `writer_signal` | `SwitchesOnSignal` | a signal only wakes the main loop, whose flush skips a young file |

More differences are in the models without a run of their own. A partial event
stays, whatever its age, when all PVs fall silent, since `wakeup.wait()` has no
timeout (`collector.cpp:149`, against "timeout to flush partial events" in line 17):
`Wake` needs the event, and `OldIsFlushed` speaks of rounds only. The processor calls `slices()` on its copy of the receivers, and
`remove_receiver` does not wait for it, so that a receiver may be called after it
was removed (`test_collector.cpp:30-32` removes and then destroys itself). An onPut
in progress keeps its Coordinator beyond `coordinators.clear()`, and the CA context
goes first ("enforce shutdown order", `hooks.cpp:38`): `ExitInOrder` makes this
exception. SIGINT in the middle of a rotation makes the final flush fail or leaves
a file at the second stage ("Graceful exit on SIGINT", `h5tablewriter.py:58`), and
the next rotation overwrites it, with an error in the log: `ExitIsComplete` and
`StageIsOwned` make these exceptions. Of what SIGINT between `F.close()` and
`self.F = None` leads to, no property speaks but `NothingLostSilently`: the rows stay
in the scratch file, for the next process to rotate.

Smaller ones: a partial event
can be given up after 2.25 s instead of 2.5 s, because the packed subtraction
borrows 2^32 and not 10^9 (`EarlyByLessThanFraction`); the bandwidth estimate has
the 12 to 16 bytes of meta-data of each update twice, in `dbr_size_n()` and in the 98
of its comment (`collect_ca.cpp:342`, `415-417`), and a header too many when they
cross the end of a frame or the last frame is exactly full (`EstimateIsClose` gives
the bounds); a queue holds
one entry more than its limit, and drops its oldest entry where the comment at
`collect_ca.cpp:253` speaks of the newest (`ValueQueue`); and the shell commands
use a null pointer, which they check too late (`hooks.cpp:82-83`), for a table
that has no Coordinator yet (`ReportBegins`). The report and the reset hold
`Coordinator::mutex`, of which `hooks.cpp:88` says that it "prevents signal list
change"; but the handler replaces the collector with that mutex released
(`NewCollector`), so that they may visit one that is being deleted
(`ReportReads`).

In the receiver, the batch in which a type changes is posted with its times and
the columns that fit, while the changed column keeps what it had, so that one
post has columns of different batches (`RunIsConsistent` leaves it out). An array
whose element type changes sets the column to the type it has already
(`Retyped`): every batch causes a rebuild and the arrays never show. And the
constructor, when it finds that a rebuild is due, does not do it but waits for
the next batch (`WaiterIsWoken`): with silent PVs the handler waits as well.

Met while reading, and not expressible in the models' terms: the names in a file
with DOS line ends keep a carriage return (`hooks.cpp:211`); a client's put is
refused between `provider.add` of the SIG PV and `setHandler` (`hooks.cpp:63`);
under Python 3 the signal handler raises (`h5tablewriter.py:366`); `bsasStatReset`
resets two counters of the Collector without its mutex (`hooks.cpp:163`); an update
that is refused as not newer still becomes `last_event`, so that a queue need not be
in order of time (`collect_ca.cpp:437`), which the Collector model allows for.

After the failed assertions the models stop, as the program does; all other
properties are properties of the behaviours up to there.

## What is proved

The theorems hold for every value of the constants that satisfies the
assumptions in the modules: any number of PVs, tables, threads, clients and
rows, any limits, any clock. Every safety property of the passing runs is
proved, and so are the refinements of `LossyQueue`, of `EventStream` and of the
safety part of `TableService`; `PROJECT.json` says which theorem states which
property. The assumptions are types, disjointness of names, and
what the source fixes: limits and ages are positive, the carry-over of a queue
is at least one (it is 4, `collector.cpp:226`; with none, an overflow would drop the marker of a
disconnection), and an overflow leaves fewer events than there may be.

- `TimeKeysProofs`: `TypeCorrect`; `KeysAreInTimeOrder`, over the whole range of
  the keys; and as facts about the operators for all stamps,
  `TimeoutNeverLate`, `TimeoutHardlyEarly`, `ScanMayStopAtTooOld`, which
  assume `HalfRange`: no key passes 2^63, that is, no clock reads past 2058.
- `WireBytesProofs`: `EstimateWithinHeaders`, from the bounds of a division
  (`FurtherFrames`), what `dbr_size_n()` and its correction come to for every number
  of elements (`SizeIsMetaAndBody`), and one lemma for a single update. It assumes
  of the types only that their meta-data is between two bounds (12 and 16 bytes)
  and less than a frame.
- `SubscriptionProofs`: `TypeCorrect`; `CountersNeverWrap`, with the invariant
  that no copy `l` exceeds its counter; `MarkerIsKept`, which needs that an
  unsubscribed channel gets no event and that `connected` implies subscribed;
  `SubscriptionIsLossyQueue`, step by step from lemmas on `PushBounded`,
  `KeepNewest` and `Excess`; `QueueStaysBounded`, an action property, from the
  same lemmas.
- `CollectorProofs`: `NoWakeupIsLost` and `QueuedStaysVisible`. Neither is
  inductive: `NoLostWakeup` speaks of a waiting processor only, but what makes it
  true is how `ready`, `waiting` and the callback's program counter agree while
  the processor is in its passes. The invariant `Wakeups` says for each program
  counter which queues may be filled without the processor knowing.
  `EventsStayBounded`: the map of events holds fewer than `MaxEvents + N` events;
  in a pass the invariant `PassBounded` counts the PVs passed. (Small instances
  stay below that bound, so no run checks it.)
  `TypeCorrect`, where `oldest_key` stays a key only because a set of keys that is
  flushed has a greatest one (`HasGreatest`). `ShadowStaysCurrent` is inductive as
  it stands. `ViewCatchesUp` speaks of empty queues; its invariant
  `ViewFollowsMarker` says that the queue of a channel that is down ends in the
  marker until the processor has taken it, which holds through every overflow.
  `OldEventsAreFlushed` is an action property of `process_test`: what it leaves is
  younger than the age. `CollectorImplementsEventStream`: dequeuing an update is a
  `Gather` or a stutter (`MergeGathers`), a `Test` is a `Send`, a `GiveUp` or
  both at once (`TestSends`), because batch, carried events and dropped ones are
  in the order of time and together all there are (`RoundsAreInOrder`).
- `CoordinatorProofs`: `NoPutIsLost`, `RestIsConsistent`, `ReceiverGoesFirst`,
  `ServedTableIsFed` and `NothingIsLeft`, all from the invariant `IInv`. What is
  true when the handler waits follows only from what it did before, so `HandlerOK`
  says for each of its program counters which copy of the list is current, unless
  the change flag is set again; `Signalled` carries the wakeup; `References` and
  `Destructor` say that nobody enters `onPut` once the destructor runs.
  `CoordinatorIsTableService` is the safety part of the refinement: one lemma per
  action of `TableService` says when a step is that action, and every step of
  every thread is shown to be one of them or a stutter.
- `PVAReceiverProofs`: `WaitersAreWoken`. The invariant `Protocol` says that
  `RetypeInProg` stands for exactly one thread that rebuilds, and that what the
  processor waits for is the constructor's rebuild or already over. That one
  leaves the state at `Run` because it copies no events (`FillNothing`); the
  processor's may leave it at `NeedRetype`.
  `TypeCorrect`, `ColumnsTellTheTruth`, `ClientsSeeTypedRows` and
  `StructureMatchesColumns` follow from a second invariant, `CopyInv`, on top of the
  first. Its parts: the last value of a column is the PV's newest up to the
  batch that is being handed over (`LastOK`, which needs to know of a thread
  inside `slices()` whether it has copied yet); a copier of arrays never leaves its
  type and one made for this root has the root's type (`CopiersOK`, `FreshOK`);
  every row is true and typed (`RootOK`, `PvOK`); and from a rebuild to the next
  change of type the structure is that of the columns (`ConsistentOK`). A copier's
  loop is a recursive function of the batch. `RunExists` shows that this function
  exists, `CellStep` that each turn keeps what is claimed of the copy, and
  `RunOK` concludes by a least counterexample.
- `TableWriterProofs`: `StageHasOneOwner`, `ScratchHasOneOwner`,
  `NoRowIsLostSilently`, `OrderlyExitIsComplete` and `TypeCorrect` from one
  invariant: who may be where while the lock is taken (`LockOK`), what `flush()`
  knows of `self.F` and the files at each step (`FlushOK`), what a migration knows
  of its two paths (`MigrationOK`), and which leftovers need a fault to come about
  (`FaultsOK`). `OrderlyExitIsComplete` is an action property.
- `HooksProofs`: `ContextIsRestored`, from what `call` has saved at each step of
  each operation on the CA context (`CallsOK`) and that only the shell makes and
  destroys it (`ContextOK`); `ExitIsInOrder`, from what the shell's program counter
  says of the map and of the stage of every table (`ShellOK`, `TablesOK`,
  `DestructorsOK`, `PutsOK`); `FilesAreTakenWhole`, where what has been read is
  what the first lines of some file say (`ReadOK`), and every list on its way
  to a table is a whole one (`ListsOK`).

TLC checks the inductive invariants as well (`ViewInv`, `CopyInv`, and `IInv` of the
file writer and of the hooks hold in all states of their runs' instances; that of
`HooksProofs` also for one table, two different files, two commands that read one
and one put of another client).

Only model-checked is all liveness, which is out of reach of the provers:
`QueuesDrain`, `CloseReturns`, `ServesLastList`, `ShutdownEnds` and
`ScratchIsRotated`, each under the fairness given above. `EventsStayBounded`
is the one result that is only proved.

## Not modelled, and the plan

Not modelled: the CA, PVA and HDF5 libraries themselves; formatting, logging and
debug variables; `nComplete`; what onPut posts back to the SIG PV; the characters of
a file given to `bsasTableSet`; the columns of an archive file; a paused and resumed
IOC; `bsasconf.py`, which puts one list and ends; `bsasMain.cpp`, the stock main
program of an IOC.

What may still be proved: properties of the abstract specifications themselves, which
every implementation inherits (in `EventStream`, that no two batches carry the same
event and that every event is in a batch, held or counted; in `TableService`, that
what is served was once requested). What should be modelled before the code is
changed there: the columns of an archive file, and a paused and resumed IOC.

## Running

`tlc -config X.cfg M` checks module `M` with configuration `X` (the pairs are in
`PROJECT.json`), `tlapm M.tla` checks the proofs of a `*Proofs` module.
