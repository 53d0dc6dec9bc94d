# A verification of the SGX stream-processing engine

TLA+ models of the data-stream engine in this repository, the TLC configurations
that check them, and TLAPS proofs of their main properties. File names below are
relative to the repository; `SimpleEngine.cpp` is `src/Lib/Engine/SimpleEngine.cpp`,
and so on. `PROJECT.json` maps every definition to the lines it stands for.

## The system

A query is a pipeline. A source thread reads records and pushes them into a ring;
each enclave has one responder thread, which makes one long ECALL that polls its
ring, calls the task's callback on each datum, and pushes what the callback emits
into the next ring; a sink thread polls the last ring and writes results. `start()`
of the engine builds all of this, joins the source, and shuts the rest down ring
by ring.

| Component | State it keeps | Operations | Talks to | What is hard |
|---|---|---|---|---|
| Circular buffer (`circular_buffer.cpp`) | `head`, `tail`, slots | push, pop | one producer, one consumer, no lock | pop hands out a pointer into the ring; one slot is never used; order of copy and publication |
| FastCall (`fast_call.h`, `fast_call_enclave.h`, `Enclave.cpp`) | `keepPolling`, the ring | request with `MAX_RETRIES`, wait (several variants), stop | callbacks; main | flag read after the pop; silent loss on a full ring; the NULL callback at the end |
| Simple engine and the observer engines (`SimpleEngine.cpp`, `EngineWithBufferObserver*.cpp`) | lists of buffers, calls, enclaves, threads | set-up, `start`, `clean` | all of the above, SGX | order of creation, stop, join and destruction; any enclave may fail to be created or be lost |
| Two-source engine (`Simple2SourceObserverEngine.cpp`) | three rings, one enclave | `start`, `clean` | two sources, one join | one thread polls two rings; two flags; a failed enclave is not noticed, a lost ECALL only printed |
| Tasks (`tasks.cpp`) | window contents, step counters, groups | 27 callbacks | next ring | four orders of evicting, counting and comparing; unsigned counts; two windows of one join |
| Sources, emitters (`src/Lib/Source`) | file, count, delay | `start`, `emit` | first ring | delays, end of stream |
| Queries, parsers, sinks (`Nexmark`, `StreamBox`, `SecureSGX`) | result files, the sink stream | build an engine; parse; write | tasks by number; each other by files | numbers and types both sides must agree on; headers |
| Hot calls (`hot_calls.h`) | a spinlock, flags, a request | request, wait, stop | nobody at present | who owns the struct when; waiting without a bound |
| Cryptography (`cryptography.cpp`, `aes_gcm.cpp`) | key, IV | encrypt, decrypt | both ends of a ring | ends have to agree |
| Command line (`App.cpp`, `runEngine.cpp`, `CommandLineArgument.cpp`) | arguments, the run's number | dispatch, runs | queries | places of words by their count; what one run leaves to the next in statics and globals |

What makes each correct: a ring is FIFO and never lets the two threads meet in a
slot; a channel delivers what is pushed, ends after its producer, and sees nothing
after the end; an engine returns from `start()`, always, with no thread and no
enclave left, and results come in order; a two-ring responder serves both sides
and flushes once both have ended; a task's window is the end of its stream, its
results come when due and are those of that window; a join misses no pair; a call
the table has is executed once before it returns; a run does what was asked for and nothing of
the run before.

## Modules

| Module | What it is |
|---|---|
| `CircularBuffer` | Index arithmetic of a ring of `MaxLen` slots: `NextIndex`, `IsFull`, `IsEmpty`, `Held`, `Ahead` |
| `StreamChannel` | Abstract specification: a bounded FIFO queue with one sender and one receiver, in-place receipt, and an orderly end |
| `FastCall` | One channel in detail: producer, polling consumer, main |
| `FastCallProofs` | Proofs about `FastCall`, among them that it implements `StreamChannel` |
| `Engine` | `start()` of a pipeline of `NStages` enclaves over rings at the level of `StreamChannel` |
| `EngineProofs` | Proofs about `Engine` |
| `TwoSourceEngine` | `start()` of the two-source engine, with `FastCall_wait_2_decrypt` step by step |
| `TwoSourceEngineProofs` | Proofs about `TwoSourceEngine` |
| `WindowTask`, `WindowTaskProofs` | Every task that keeps a window over one stream, and proofs of when results come, over which data, and what they are |
| `JoinTask`, `JoinTaskProofs` | The tasks that join two streams, and proofs that no pair is missed and no join is incomplete |
| `SyncCall` | Abstract specification: synchronous calls served one at a time |
| `HotCall`, `HotCallProofs` | The hot call in detail: spinlock, requesters, responder, main; proofs that it implements `SyncCall` |
| `Queries` | What each query is wired with and what each callback takes and gives |
| `Application`, `ApplicationProofs` | The program as its user sees it: command lines, runs, result files; proofs for any number of calls, runs and rows |
| `NumberLemmas` | Remainders, the least number of a set, induction, and that a loop has a run, for the other proof modules |
| `MC...` | What TLC is given |

The layers fit together: `FastCall` refines `StreamChannel`; `Engine` and
`TwoSourceEngine` use rings whose push and pop are one step each, and the property
`RingsAreChannels` states that each of their rings is again a `StreamChannel`, seen
from the engine's state. So what `FastCall` is proved to need of its surroundings
(main joins the producer before it stops the consumer) is what the engines are
shown to do. The tasks are what the engines' `Callback` abstracts to a number of
emissions: `WindowTask` and `JoinTask` need of the engine that data come one at a
time, each once and in order, and NULL last, which is what `InOrder`, `EndIsLast` and
`FlushOnceBothEnded` state. `Application` is the layer above `start()`.

Operators with a comment that begins with "Mutation:" are faulty variants of the
action after them (a forgotten join, a lost guard). No specification uses them:
they are there so that one can put them in the action's place and see which
property notices.

### FastCall

The state is the C state: `head`, `tail`, `slot`, `poppedCount` of `circular_buffer`,
`keepPolling` of `FastCallStruct`; and the control state of three threads. Each
action is one access to shared memory, in program order: testing for a full ring,
the start and end of the `memcpy` (between them the slot holds `NoDatum`),
publication of `head`, the empty test of a pop, the callback's read through the
pointer, the advance of `tail`, reading `keepPolling`. `head` and `tail` are
`volatile`, push and pop are in another translation unit, and the machine is x86,
whose stores become visible in program order and whose loads are not reordered;
that is the memory model assumed. `keepPolling` is a plain `bool`; the polling
loop calls `circular_buffer_pop`, which the compiler cannot see into, between two
reads of it, so it is read each round.

`FastCall_wait` counts pops under a lock; the enclave's loops write `popped_count`
only at their end. No thread here reads the count, so one variant stands for all.
Encryption and decryption act on private copies; a datum is a number.

### Engine

A ring is a sequence, `Request` appends or, when the ring is full, gives the datum
up. `Source`, `ResponderThread(r)` and `Main` are the threads. `Main` goes through
`start()`: create the enclaves, stopping at the first failure; spawn the threads;
join the source; for each ring stop its consumer and join it; destroy enclaves
until `sgx_destroy_enclave` refuses one. `SourceAt` says where in the order of
creation the source stands, which is what differs between the engines:
`NStages + 1` in `SimpleEngine`, `NStages` in `EngineWithBufferObserver`, 0 in
`EngineWithBufferObserverCrypto`. An ECALL can fail at any moment (`ECallFails`): the
code then prints a message and ends the thread. The observer engines also join the
threads of their observers (`EngineWithBufferObserver.cpp:243`,
`EngineWithBufferObserverCrypto.cpp:184`), of every ring, those for which no observer was
created included; these joins, between the last responder's and the destruction of the
enclaves, are left out with the observers. A callback's work is reduced to how
many data it emits, any number up to `MaxEmit`; each carries the number of the source
record it stems from, and what is emitted on NULL carries `EndOfStream`.

### TwoSourceEngine

The responder's round is pop ring 1, pop ring 2, read flag 1, read flag 2, callback,
advance 1, advance 2, check. `popped` stands for the two results of the pops and the two
pointers. The ECALL can return an error at any moment (`ECallFails`), as in `Engine`: the
thread prints "Polling failed" and ends (`Simple2SourceObserverEngine.cpp:28`), the tails it had
not moved stay where they are, and both rings fill up. If the enclave could not be created
this happens at once. `Query8_JoinPersonAuction` is a query for which it happens in the
middle: its task has no callback, and the first record makes the responder call NULL. `lost`
remembers the error: `FlushOnceBothEnded`, `NoSideStarves` and, for the step of the loss
alone, `RingsAreChannels` exempt it. `InOrder`, `NothingOutlivesStart` and `Termination` do not.

### WindowTask

A callback runs alone in its enclave's one thread, so it is one step. The tasks
share three shapes. A *sliding* task evicts the oldest datum of a full window,
stores the new one, and computes over the window when its step counter says so;
`Round` is the body of each task's loop over its window (`Query1_TopValuePerKey` and
`Query4_MaxAuctionPriceByCategory` are both `ReplaceByGreater`, and so on), `Loop` is the
loop and `Aggregate` what is emitted after it. *Reduce* is
`ReduceFlight`: it stores before it evicts, keeps counts and totals of groups up to date
instead of computing them, and is the only one to emit on NULL. *Partition* is
`Query6_Avg`, with a window per seller. A datum is what the task groups by and what it
computes with. `seen` and `fired` are history: the stream, and the positions in it at
which results came.

Three things of the code show in the properties. `ReduceFlight` does not count the data
that fill its first window but subtracts them when they leave, so that an unsigned
count may go below zero; `GroupCounts` states by exactly how much, modulo `CountMod`.
The divisor of `Query4_Average` starts at 0, so its average is over one datum too few.
`Query4_JoinWithCategory` puts its price where the auction id belongs.
`ResultsOfLastWindow` states what the code does.

### JoinTask

A callback gets a datum of one side or one of each, in any alternation, as the
two-source responder gives them. Each side has its window and its step counter; a side
that is full and has taken `Step` data asks for a join, of all that both windows
hold: `NestedLoopJoin` is the outer loop, `Matches` the inner one. `trail` records the
lengths of both streams after each callback and `met` which pairs have been compared.
`NoPairMissed` is about a time in which a side that is full takes `Step` more data while two
data are in the windows together (`Together`).

### HotCall

Each section under the spinlock is three steps: take, do, release; `after` says where
the thread goes on. The responder copies the call, releases the lock, calls back if the
call's id is below the length of its table (`hot_calls.h:145`), takes the lock again and
answers in either case. `executed` remembers whether the callback was called. `SyncCall` sees
of this only the status of each call: one that is known is accepted, executed, and returns;
one that is unknown is passed over, and its caller is not told.

### Queries and Application

`Wiring` says for each of the thirty queries of the three benchmarks which task id,
which types of data and whether a header: what the query classes set in the
configuration. `Callbacks` is the table of `tasks.h` with the types that each callback
casts its data to. `Application` goes from the shell through `main`, the checks of the
count of words and of both directories, the loop of runs, `OpenSink`, `StartEngine`
(what `start()` allocates, the lines its sources take, rows written), and `Report` with
`clean()`, back to the loop. What outlives a run is explicit: the engine object's
list, the global sink stream, the static time lists, what stays allocated, and the
files, which a later call may name as a source.

*Words.* `Forms` are the command lines: the two of the usage text with any number of words
behind them, and shorter ones. `main` refuses fewer than eight arguments, and fewer than nine for
the five names it knows to need two sources; it sets no upper bound. With nine or more,
`CommandLineArgument` takes two sources, whatever the query needs, and does not look at the
tenth and those after it: so `AsUsageSays` allows words behind the form of two sources,
while one behind the form of a single source shifts the directories and runs nothing. A comment there
(`CommandLineArgument.cpp:9`) calls `number_of_runs` optional; `main` refuses a command line
without it, and for two sources the class itself would take the result directory for the
number. The number goes through `stoi` and a cast to `uint32_t` (`Uint32`): a negative one is huge. The
counter of the loop has the same width (`Following`), so that the greatest number, which is what -1
becomes, has no end: the loop's `i <= n` is never false.

*Heap.* `Allocated` is what a run allocates and `Cleaned` what `clean()` frees. Every run
leaves something behind until the process ends: the place in which the sink decrypts
(`fast_call.h:189`), the encrypted copy of each request that gave up (`fast_call.h:120`), and with one
source the emitter (`EngineWithBufferObserverCrypto.cpp:77`), with two the three ring structs and
the observers' six arrays (`Simple2SourceObserverEngine.cpp:102` to 179).
`EachRunOnItsOwn` states that it is no more than these kinds (`Leaked`): the arrays of the
rings never stay, nor with one source those of the observers.

## What the runs check

| Run | Instance | Shows |
|---|---|---|
| `fast_call` | 3 slots, 5 requests, 1 retry | types; `NoSlotShared`; `Fifo`; `IInv`, the inductive invariant; `QuietAfterEnd`; `Delivery` and `ResponderReturns`; `ImplementsChannel` |
| `fast_call_shutdown` | 2 slots, 1 request | `NothingLeftBehind` fails: see below |
| `engine` | 2 stages, rings of 1, 2 records, 1 emission, all failures | `StopFollowsProducer`, `EnclaveAlive`, `NothingOutlivesStart`, `InOrder`, `EndIsLast`, `Termination`, `RingsAreChannels`, `IInv` |
| `engine_burst` | 1 stage, rings of 2, 3 records, 2 emissions, source first, lost ECALLs | `Flow`, with fairness of the consumers only |
| `two_source` | rings of 1, 2 records each, 1 emission, enclave may be missing, ECALL may fail at any moment | `IInv`, `InOrder`, `FlushOnceBothEnded`, `NothingOutlivesStart`, `Termination`, `RingsAreChannels` |
| `two_source_stall` | rings of 2, 2 records each, the same failures | `NoSideStarves`, with fairness of the responder only |
| `window_task` | windows of 3, step 2, counts modulo 4, streams of up to 7 data | `WindowHoldsLast`, `OnSchedule`, `NothingSkipped`, `ResultsOfLastWindow`, `GroupCounts`, types |
| `max_batch` | one window of 2 | `BatchMaximum` fails: see below |
| `join_task` | windows of 3, step 2, 5 data of each side in every alternation, 2 keys | `JoinIsComplete`, `NoPairMissed`, `OwnPace` |
| `hot_call` | 3 requesters, 1 retry, a call of the table or not, a stop at any time | `IInv`; `ImplementsSyncCall`; `Answered` |
| `application` | 2 calls of the program, -1, none, 1 or 2 runs in the first and 0 or 1 in the second, counted modulo 3, up to 2 words too many, 1 row | `AsUsageSays`, `EachRunOnItsOwn`, `WiredToItsTask` |
| `query_chain` | the same, with up to 1 word too many | `NothingLostBetweenQueries` fails: see below |

**Bounds.** Three slots are the smallest ring that can be empty, partly full and full
with wraps in between, and five requests go round it twice. One retry lets a
request both succeed late and be given up (`MAX_RETRIES` is 10000). Two stages make
a stage that is both fed and followed by a stage. Rings of one slot are full after
each push; rings of two, in the other runs, let a queue build up. Seven data are two
windows of three and one more: every datum of the first window leaves, results come
three times from a sliding task and once from `ReduceFlight`, whose period of `Step + 1` rests on
the theorem, and with counts modulo 4 a
count below zero wraps. In the join run a side asks when it has three data and again when it
has five, after two data that went into its full window, which is the case that
`NoPairMissed` is about and the shortest stream with a recurring `OwnPace`; a step of two is
neither 1 nor the window, and keys are only compared, so that they may be permuted
(`Symmetry`). Three requesters
let one be served, one retry and one be refused; a table of one entry has id 0 and lacks
id 1. Two calls let the second read what
the first wrote; its queries (`MCLater`) are one of each kind, since what matters of
them then is the file they read and the file they write. Two runs let the second meet what
the first left. Modulo 3 the number -1 is 2, the greatest, so
that the call that never ends and the calls of no run and of one are all there; `MaxFurther`
of 2 makes a form of one source as long as one of two, and longer. Parameters that the
code fixes (windows of 100 to 1000, `MAX_RETRIES`, 2^32) are constants, and what is
proved holds for those values too.

**Fairness.** Weak fairness of each thread as a whole: threads have no locks to wait
for and the operating system schedules each. In `FastCall` the producer is fair only
inside a request: when it makes the next one, or ends, is its own affair, so
`Delivery` covers a datum after which nothing comes. In `Engine` and `TwoSourceEngine`
the source is fair for `Termination`: sources read finite files or count down.
`Flow` and `NoSideStarves` are checked without that, with fairness of the consuming
threads only: a terminating run clears all flags, and both properties would then
say nothing. In `HotCall` every thread is weakly fair once it is inside a call, and
taking the spinlock is strongly fair: `sgx_spin_lock` itself promises no order, but
every thread that releases it pauses before it tries again, and without some such
assumption no spinlock gives progress. New calls and the stop are not fair. Tasks and
`Application` are sequential and have safety properties only. `Application` stops after
`MaxCommands` calls, which is why its runs do not check for deadlock.

**The shutdown race.** The polling loops read `keepPolling` after the pop found the
ring empty (`Enclave.cpp:275`). A datum pushed between those two steps, followed by
the producer's end and main's stop, is left in the ring and never processed, though
`README.md` says of the results that they are stored. `fast_call_shutdown` shows it
with one datum. It needs the responder to be held up between two instructions for as
long as the producer needs to end. A second look at the ring after the flag would
close it.

**The count that is not stored.** `Nexmark_Query5_MaxBatch` copies the time and the
auction of what it stores, but not the count that it later compares
(`tasks.cpp:644`): it finds the maximum of uninitialised memory. `max_batch` shows a
window whose result is not its largest count. `Stored` models the read as any value.

**The header that is none.** `setupConfiguration_` of `NexmarkQuery` tells every source
to skip a header. `scripts/run_nexmark_queries.sh` feeds queries with the results of
others, which have none: the first result is lost each time. `query_chain` shows it
with one row. `FilterQuery` of SecureStream clears the setting, `ReduceQuery` sets it.

**Queries without a task.** `Query7_MaxJoin`, `Query8_JoinPersonAuction` and
`Query8_MapJoinResult` name task ids whose callbacks are commented out of `tasks.h`: the
first would run the callback of StreamBox's sixth query on bids, the others have none.
`WiredToItsTask` names them as its exceptions (`WithoutTask`).

## What is proved

Every theorem holds for all values of the constants that satisfy the named
assumptions (`MaxLenAssumption`: at least one slot, and a ring of one is always full; `FastCallAssumption`,
`EngineAssumption` and its like: counts are naturals, `NStages`, `Window` and `Step`
positive, `SourceAt` in range, threads distinct).

`FastCallProofs`. `Fifo` relates the indices, the slots and two histories. It is not
inductive alone: `IInv` adds that a push under way has a free slot (`PushInProgress`),
that a pop under way has a datum (`PopInProgress`) and the order of the shutdown
(`ShutdownOrder`). The arithmetic of the ring is in `IndexArithmetic` and
`SlotArithmetic`; then there is one lemma per conjunct, each with one step per action.
From `IInv` follow `NoSlotShared` (if head met tail during a copy the ring would be
empty, while the callback holds a datum), `QuietAfterEnd`, and the refinement
`ImplementsChannel`: `Publish` is `Send`, `Callback` is `Receive`, `Advance` is
`Release`, and everything else stutters or is an end.

`EngineProofs`. `IInv` consists of `TypeOK`; `MainOrder`, which says for each place in
`start()` which threads have not begun or have ended, which enclaves exist and which
flags are up; `StopFollowsProducer`; `FlagSeen`; `InHand`; and `PipelineOrder`, by
which what was delivered, what is in the ring, and what can still be pushed
(`Latest`) are each sorted and each after the one before. `InOrder` is a part of
`PipelineOrder`: ordering at one ring depends on the datum the stage before it holds
in hand, so it cannot be proved ring by ring. `EnclaveAlive` and
`NothingOutlivesStart` come from `MainOrder`; `EndIsLast` and `RingsAreChannels` from
the steps under `IInv`.

`TwoSourceEngineProofs`. Here `IInv` is `TypeOK`; `MainOrder`; `FlagSeen`, which says what
the responder knows of the two flags at each place of its round, and which makes the
flush come after both joins unless the ECALL is lost; `InHand`: a ring in which a pop found a
datum has it until its tail moves on, and after a lost ECALL for good (`Held`); `InputOrder` and
`OutputOrder`. The order of the output needs that of both inputs, since a result carries how far each side had come. From it follow `InOrder`,
`NothingOutlivesStart`, `FlushOnceBothEnded` and, for three rings of which one thread
receives two and sends the third, `RingsAreChannels`.

`WindowTaskProofs`. `OnSchedule` and `NothingSkipped` speak of all earlier results, so `IInv`
adds `StepCounter`, which ties the counter to the last of them, for both ways the
code starts and resets it. `WindowHoldsLast` is proved for both orders of storing and
evicting.

`JoinTaskProofs`. `NoPairMissed` speaks of an interval of callbacks, in which some callback
has joined. `IInv` keeps that callback: `MetWhenDue` says that each length of a stream was
reached by one callback and that, if a join was due at that length, this callback has
compared all that both windows held. Among the lengths a full side goes through in `Step`
data one is due, by the arithmetic of remainders (`ModNext`, `ModBelow`), and what is
together before and after is together then, since streams only grow (`TrailGrows`).
`OwnPace` is the part of `IInv` that says when a side asks.

`HotCallProofs`. `IInv` is `TypeOK`, `LockHeld` (mutual exclusion, and each thread where only
it can be), `TriesLeft`, and `OneCall`: busy belongs to the one requester whose call is in
the struct, `runFunction` and `isDone` say how far it has come, also while the
responder works without the lock, and the callback has been called exactly if the call is
handled and its id known. The refinement of `SyncCall` takes each step of the
detailed model to a step or a stutter.

`ApplicationProofs`. `IInv` is `TypeOK`; `Accepted`, what the checks of the words have
established for every call that got past them; `OfTheRun`, what the fields of the current
run hold at each place of the loop and what of earlier runs is still allocated; and `FilesKept`,
of what is on disk. It holds for command lines of any length, for any
number of calls, runs and rows, and any width of the count of runs. `WiredToItsTask` needs in addition that each word the
program knows finds its query in the tables of `Queries` and each task id its callback,
benchmark by benchmark (`NexmarkOneWired` and its like).

**What the tasks compute.** `GroupCounts`, `JoinIsComplete` and `ResultsOfLastWindow` are
about loops, of any length, and the induction theorems of the library take the property
as an operator, which the provers cannot instantiate. `NumberLemmas` states induction
for a *set* of numbers instead (`Induction`): to show a property of every number, one takes the
set of numbers that have it. A loop is a recursive function, and what makes
such a function more than a name is that a function with its equation exists
(`LoopHasRun`). With these two, and `SeqInduction`, the same for sequences, a loop over
one element more is one round more (`LoopSteps`, `OfSteps`, `InnerLoop`, `OuterLoop`), and
what the loops compute follows round by round.

- `ResultsOfLastWindow`: `RInv` adds to the invariant of the windows what was emitted last
  (`SlidingResults`, `PartitionResults`) and that each window of `Query6_Avg` is the end of
  the values of its key (`PartitionsEnd`). What is emitted is then put into words without
  loops: a table has an entry for each key of the window, and the entry is the
  maximum, the number or the sum of the data of that key (`TableEntries`, from one lemma per
  loop body: `MaxEntered`, `CountEntered`, `AverageEntered`); the longest trip is the
  first of its length (`GreatestOfSequence`); a join has a row per datum of a known
  category (`JoinOfSequence`); sensors have their sums (`SensorOfSequence`). The elements of a
  `std::map` are a sequence in order of key, since any finite set of numbers can be put in
  order (`OrderExists`, `KeyOrder`).
- `GroupCounts`: the table of groups represents a function from keys to counts
  (`Represents`). A datum that arrives adds one position to `Counted` of its key, one that
  leaves takes one from `Counted` or, if it was never counted, adds one to `Subtracted`
  (`CountedMoves`, `SubtractedMoves`); the difference changes by what `Add` and `Subtract` do, and
  counting modulo the width of the counter is counting and then taking the remainder
  (`ModCount`).
- `JoinIsComplete`: `JoinInv` adds `KeysKept` (a datum keeps its key in the window) and
  `EmittedIsJoin` (what was emitted last is the join of what the windows hold). The inner
  loop emits the pairs of one datum, the outer one those of all (`MatchesEmitted`,
  `JoinEmitted`), and the windows hold the ends of both streams.

Only model-checked are the liveness properties (`Delivery`, `ResponderReturns`,
`Termination` of both engines, `Flow`, `NoSideStarves`, `Answered`): fairness and ENABLED
are out of this prover's reach. Every other property that a passing run checks is
stated by a theorem. The three properties that are shown to fail have none, of course.

## What is not modelled

- Payloads: sizes in bytes, encryption, parsing, the wording of results. AES-GCM and
  the SGX calls are libraries outside this code; `cryptography.cpp` and
  `aes_gcm.cpp` call them with one fixed key on private copies and keep no state.
- Filters and maps among the tasks: they keep no state, and emit their datum, a part
  of it, or nothing.
- Observer threads, which read `head` and `tail` for measurements and change neither;
  what `start()` allocates for them is in `Application`.
- `FastCall_wait_hotcall`, which no engine starts.
- A second `start()` of one engine object: every run makes an object of its own.
- A failing `pthread_create`, whose result the code does not look at.
- Sources that generate their data, which only the measurement programs use.
- Measurement and test drivers (`test*.cpp`), demo operators, printing.
- `include/sgxssl`: headers of a library, which are most of the
  repository's lines and hold no code of this system.

## Plan

What could come next, in this order.

1. `Observer`: sampling `head` and `tail` while the ring turns; what the sampled sequence
   says of the true one; the end of the observers.
2. `BufferLayout`: byte offsets of slots with 32-bit integers, and the sizes queries ask for.
3. The composition of a channel with a task in one model, so that what a full ring
   loses shows in the results of a window.
4. The totals of `ReduceFlight`'s groups beside their counts: which of its flights'
   delays a total holds once the first window has left.
