# Verification of the GPU colocator

TLA+ models of the CUDA colocation prototype in `src/colocator`, from the
interposed call to the replay page that is served in the end, checked with TLC,
with the main safety results proved with TLAPS for every value of the constants.
The code is the reference: every definition that models code is mapped to its
lines in `PROJECT.json`.

1. [Inventory](#1-inventory)
2. [How the parts interact, and what is hard](#2-how-the-parts-interact-and-what-is-hard)
3. [Modules](#3-modules)
4. [Runs: questions, bounds, results](#4-runs-questions-bounds-results)
5. [Fairness](#5-fairness)
6. [Proofs](#6-proofs)
7. [Disagreements between code and documentation](#7-disagreements-between-code-and-documentation)
8. [Abstractions, and what is not modelled](#8-abstractions-and-what-is-not-modelled)
9. [Plan](#9-plan)

## 1. Inventory

| Part | State it keeps | Operations | Correct when |
|---|---|---|---|
| `src/intercept/intercept.cpp` (libcolocator.so) | client slots: tid, queue of record pointers, `submitted`; statistics table | `col_register_client`, the interposers, `submit_and_wait`, passthrough accounting | a registered client's calls all go to its own queue; a record is not touched once its interposer may have returned; every call returns |
| `src/sched/scheduler.cpp` (libsched.so) | streams, parked sync records, completion events and cursors, issue log, `stop`, `running` | `col_setup`, `col_run` (poll, advance, peek, pick, execute, pop), `col_stop`, accessors, `col_dump_issue_log` | each client's calls are replayed once, in program order; a synchronising call is answered when the client's work is done; clean shutdown |
| the same, with `COLOCATOR_SM_LIMIT` | second stream per client, `last_stream`, chain events, toggle | `route_stream`, the two-stream branches | the two streams behave as one |
| `src/sched/policy.h` | none (a threshold) | `FcfsPolicy`, `ThrottledFcfsPolicy` | interception order across clients; never more than the threshold on the GPU |
| `src/common/records.h` | the shared types | - | - |
| `python/colocator.py` | scheduler thread, client threads, start barrier, errors | `launch`, `dump_issue_log` | comes back whatever the clients do, stops its scheduler, raises the cause |
| `demo/run_demo.py` | demo barrier, results, one directory per mode | `client_body`, `run_seq`, `run_streams`, `run_colocated`, the files of a mode | clients start their timed sections together, with nothing in flight; every mode ends, and drained; results.json is its last file |
| `demo/workload_defs/*.py` | event deque and slot of the depth-2 pipeline | `run_iter`, `run_iter_sync`, `drain`, `calibrate`, `check` | at most two iterations in flight, never on the same buffer |
| `src/observer/observer.cpp` (libobserver.so) | activity rows, live counters, flusher | `obs_init`, `buffer_completed`, `obs_live_*`, `obs_dump` | nothing missed, nothing counted twice |
| `analysis/analyze.py` | none | order join of issue log and activity records, self-check, busy and overlap times | every row gets the kernels it caused, or the join is refused; no nanosecond is counted twice |
| `visualizer/export.py` | none | `build_data`: trimming, time origin, rounds, barrier line | drops no timed row, draws nothing off its time line |
| `visualizer/export_all.py`, `server.py`, template | the pages and the index | scanning `runs/`, missing traces, navigation, pages, index; serving | shows whole runs only; every choice and every link leads to the right page |
| `demo/run_pairs.py` | pairs left, pairs failed, the run directories | solo pass, one process per pair, report | its report is true of the files it leaves, and a dump that gave up can be told from them |
| plots, workload registry, smoke test, tools, `ext/` | none | a drawing, a module loader, scripts, CUDA kernels | not modelled |

## 2. How the parts interact, and what is hard

Client threads call CUDA; the interposers put a pointer to a record **on the
caller's stack** into that client's queue and spin on the record's state. One
scheduler thread polls parked synchronous records, advances completion cursors,
peeks each queue under that queue's own mutex, lets the policy choose, replays
the call on the client's stream, stores the state that releases the client, and
only then pops the queue. Streams drain asynchronously. CUPTI's thread delivers
activity records to the observer. The Python main thread starts and stops all
of it, mode after mode. Each mode leaves files; analysis joins them afterwards,
and the export turns `runs/` into linked pages, perhaps while a sweep is still
adding runs to it.

What makes this hard to test, and what the properties aim at (the full list,
with lines, is `hazards` in `PROJECT.json`):

- **dangling frames**: heads are dereferenced after the mutex is released, and
  the state store ends a record's lifetime;
- **late pop**: a released client pushes its next record before the old one is
  popped;
- **non-atomic snapshot**: FCFS decides on heads read at different times;
- **rate-limited cursor** and **finite event ring**: the throttle decides on an
  old count;
- **blocked clients**: a parked record that is dropped or overwritten hangs its
  client for good;
- **shutdown**: `col_stop` races the last pop and the last log entry;
- **partial failure**: failed replays, a failing client, a device error, two
  launches in one process;
- **two streams for one client** under the SM limit;
- **order join**: nothing but order connects the issue log with CUPTI;
- **modes in one process**: each must end drained, with its scheduler gone,
  although clients raise, a barrier is aborted or the device fails;
- **intervals and missing times**: touching, nested and empty intervals; rows
  that lack a host or a GPU time, at marks the clients cross at different times;
- **files while they are written**: a sweep's processes write file by file and
  may die or give up their dump unnoticed, an export reads the same directories,
  twice, may have an analysis refused, and may be stopped.

## 3. Modules

| Module | Models | Composes with |
|---|---|---|
| `Records` | `records.h`; which state each interposer waits for | all of the core |
| `Policy` | `policy.h` as operators over the snapshot | used by `Colocator` |
| `Colocator` | interposers, `col_run`, `execute`, the streams, the end of `launch` | the core |
| `SoloStream` | abstract: what one client is promised, a private in-order stream | - |
| `ColocatorImplementsSolo` | the refinement from `Colocator` to one `SoloStream` per client | `Colocator`, `SoloStream` |
| `FcfsOrder` | `Colocator` with a history of overtakings | `Colocator` |
| `Registry` | thread registration, lookup, statistics slots, one action per atomic access | `Records` |
| `SmLimit`, `InOrderStream` | `route_stream` and the two chained streams; abstract: one in-order stream | discharges what `Colocator` assumes of a stream |
| `Launch` | `Colocator.launch`: main thread, scheduler thread, client threads, `threading.Barrier` | takes from `Colocator` that calls return and `NothingLeftBehind` |
| `Pipeline` | `client_body` over the depth-2 pipeline, as operations on a stream | takes from `SoloStream` that events are recorded behind the work |
| `Demo` | `run_demo.py`: seq, streams and colocated modes, and plain launches, one after the other in one process | `Launch` and `Pipeline` |
| `Observer` | CUPTI delivery, live counters, dump | - |
| `TraceJoin` | `analyze.py`'s joins and self-check over what `Observer` dumps | extends `Observer` |
| `Order` | sorting and filtering, each entry found by its rank | used by `TraceJoin`, `Intervals`, `Replay` |
| `Intervals` | `analyze.py`'s busy, overlap and union times | - |
| `Replay` | `export.py`'s `build_data` | - |
| `Figures` | every small trace, given to `Intervals` and `Replay` | both |
| `Sweep` | `run_pairs.py` and the files of each `run_demo` process | - |
| `Artifacts` | `export_all.py`, `server.py` and the page's selectors beside a running sweep | extends `Sweep` |
| `MCColocator`, `MCRegistry`, `MCDemo`, `MCArtifacts` | sets of kinds, slot assignments, plans, earlier runs for TLC | |
| `ColocatorInductive`, `ColocatorProofs`, `SmLimitProofs`, `RegistryProofs`, `DemoProofs`, `ObserverProofs`, `FiguresProofs`, `ArtifactsProofs` | inductive invariants and proofs (section 6) | the module they are named for |
| `OrderProofs` | lemmas on ranks, sorted sequences and folds | `Order` |

### Colocator: state and actions

A record is named by its `op_id`; a pointer to a record is that id, and
`rec[c]` is the frame it points into, reset to `NoCall` when the interposer
returns. So "the scheduler dereferences a dangling pointer" is the checkable
`heads[c] # Null /\ rec[c].op_id # heads[c]`.

| Code | Action |
|---|---|
| `submit_and_wait`: stamp, lock-push, spin, return (`intercept.cpp:148-177`) | `Call`, `Push`, `Return` |
| `run_client` ends (`colocator.py:104-115`) | `Exit` |
| `while (!stop)` | `CheckStop` |
| `poll_pending_syncs`, per client | `PollNothing`, `PollParked` |
| `advance_completion(false)` | `SkipAdvance` (rate limit) or `Advance` per client |
| peek under each mutex, `pick_next` | `Peek` per client, `Idle` or `PickNext` |
| `execute`: the switch | `ExecuteAsync`, `ExecuteSyncCopy`, `ExecuteMalloc`, `ExecuteFree`, `ExecuteStreamSync`, `ExecuteEventRecord` |
| `execute`: `record_completion_event`, state store, `issued++` and log | `RecordEvent`, `StoreState`, `Account` |
| pop after execute | `Pop` |
| after the loop: `advance_completion(true)` | `DrainCursor` |
| `launch`: join clients, `synchronize`, `col_stop`, join, accounting | `StopScheduler`, `JoinScheduler` |
| a CUDA stream finishes its oldest operation (external) | `Finish` |

Between any two of these the other threads may run; the points of interleaving
are the program's shared accesses (a queue under its mutex, a record's atomic
state, the `stop` flag, a CUDA call).

### The others, briefly

- `Registry`: each atomic load, store and exchange of `col_register_client`,
  `client_idx` and `stats_slot` is an action (`StoreTid`, `LoadNum`,
  `RaiseNum`; `Lookup`; `Scan`, `Claim`, `Count`). The weak exchange may fail
  spuriously.
- `SmLimit`: one client's two streams as FIFOs of operations, recordings and
  waits; `cudaEventRecord` makes a new recording of what precedes it and a wait
  keeps the recording it captured. A record is replayed in one step, since the
  scheduler is the only thread that enqueues and the GPU could take its steps
  before or after.
- `Launch`: one action per step of the main thread and of `run_client`; the
  calls of a client's function are counted once for all of them.
  `threading.Barrier` is modelled with its draining state, in which an abort
  still breaks threads already released.
- `Pipeline`: `run_iter` in its three steps, `drain`, calibration, synchronous
  check, warm-up, timed loop. A stream is a FIFO of iterations, events and
  llmdecode's resets; an iteration that finishes writes the buffer of its slot.
- `Demo`: a body's steps on the stream its mode gives it (the default stream, in
  turns, for seq), the barrier of `run_streams` and of `run_colocated`, a body
  that raises, each with the clean-up its own mode has.
- `Observer`: records come into being at completion, wait in CUPTI's buffers,
  and are delivered to rows and counters; `row`, `from` and `end` are history.
- `TraceJoin`: records and rows sorted by rank, the kernels' join as a fold over
  the sorted rows, the copies' by index; both compared with the history `row`,
  and `self_check` with what had happened.
- `Intervals`, `Replay`: functions of a trace. `overlap_ns`' two pointers are one
  recursive function of the pair they make. `Figures` builds traces row by
  row, in the order `analyze.py` leaves them, with marks anywhere the pipeline
  can have crossed them, so that TLC visits every small trace.
- `Sweep`: a file is the number of the process that wrote it and whether it is
  whole. A process writes the issue log (one step), then the observer's files
  (`obs_kernels.csv` opened and closed, then the others up to `obs_calib.csv`),
  then `results.json`, opened and closed; it may die between any two.
  `DumpFails` is `obs_dump`'s -1, which `run_demo` does not look at: the files
  from there on are left as they are, and `results.json` is written all the same.
- `Artifacts`: listing, `ensure_trace` with `analyze.py`, the navigation map,
  the second reading and the page, the index; `Interrupt` and a half-written
  `results.json` end the script where it stands. `Analyze` may refuse complete
  files of one process, as `assign_kernels` does when a launch had failed or the
  join drifted, and may accept files of several. `Scan` skips seq runs of several
  clients, unreported, as `scan_solo` does. A page records what was read.

## 4. Runs: questions, bounds, results

| Run | Question | Bounds, and why they are enough |
|---|---|---|
| `core` | no dangling record, no second parked record, program order, sync means drained; a released record is not touched; a client cannot tell the colocator from a private stream | 2 clients, one kind per branch of `execute`'s switch (`Malloc`, answered at once and without stream work, is left to `throttle`, `fcfs_order` and the proofs), calls and queries that may fail; two calls each reach every state of a queue (empty, one, late-pop two) |
| `throttle` | the cap holds against the GPU; the cursor never undercounts; a clean end; every call returns and the run ends, although held heads wait for the rate-limited cursor | 2 clients, 2 calls each: launches (held at the cap), stream syncs (which wait for the GPU) and `Malloc` (never held); threshold 1 on a ring of 1, so the second launch reuses the only event slot |
| `fcfs_order` | a record is overtaken at most once | 3 clients, 2 calls each: two to keep the scheduler busy |
| `registry` | registration is final, statistics slots are private and exact, a call is dropped only when the table is full | 2 clients registering against slot order and 1 other thread, a table of 2 slots: it fills up |
| `demo` | every mode ends, raises if a client did, and leaves no scheduler; nobody calls a scheduler that is not there; buffers in flight differ; checks read their own result; timed sections start together and clean; a mode ends drained | 2 clients, one calibrating and one resetting (llmdecode), depth 2, 2 probes, 3 warm-up and 3 timed iterations (more than the depth, so the pipeline fills and wraps); `run_demo --mode all` and two plain launches in one process; bodies raise in either part (colocated ones only behind their barrier: see `launch_hang`); the device may fail for good |
| `sm_limit` | two chained streams are one in-order stream | 5 calls of any kind: three switches use both chain events and reuse one |
| `trace_join` | live counters and dump are complete; joins are exact or refused; the self-check fails for a reason and only then | 2 streams, 2 rows of three kinds that may fail, 2 kernels of other threads, in this mode or an earlier one; every order of completion, delivery and flushing |
| `figures` | overlap and union are times of the GPU; the replay keeps every timed row, puts none right of its barrier line that is not, and draws nothing off its time line | 4 kernels on 4 instants: every way two intervals of each of two clients nest, touch, coincide or are empty; 2 rows with host times and any marks: a row and what it is compared with |
| `artifacts` | the sweep's report is true, and lost records can be told; a page shows one process; finished runs are shown, or were refused and reported; the navigation leads to the pair and configuration chosen; no index links a missing page | 2 workloads (3 pairs), 3 settings, one sweep, 2 exports, one fault of any kind (a death, a dump that gives up, a refused analysis, an interrupted export), five earlier runs in every layout (flat pair, flat seq runs of one and of two clients, three clients under both limits, an earlier sweep's that is run again): each fault meets every state of the other script, and a second export meets what the first left; 2.2 million states |

Every property has a mutant, a plausible bug in a mapped definition, under which
TLC finds it violated. The mutants stand beside the definitions they replace.

The runs with `expect: violation` are in section 7.

`CHECK_DEADLOCK FALSE` is used in `Registry.cfg`, where the modelled threads
really stop after their last call, and in `Figures.cfg`, where a complete trace
is final. Elsewhere the end of a run is an explicit stuttering action, or, in
`Artifacts`, a reader may always open the index again.

## 5. Fairness

All threads are OS threads that spin or run, so every step a thread can take is
eventually taken: weak fairness for the scheduler, for each client, for the main
thread and for each stream of the GPU, in `Colocator`, `SmLimit` and `Demo`
alike. Clients' functions end; that is the one assumption about programs run on
the colocator. Nothing obliges a client to call, nor the process to begin its
next mode.

`advance_completion` returns at once when less than 30 us have passed since the
last poll. A loop that comes back for ever finds the interval over infinitely
often but not continuously, hence strong fairness of `Advance(0)`, and of it
alone. The 30 s watchdog in `submit_and_wait` is not a scheduling assumption:
it aborts, and `CallsReturn` says it never has to.

## 6. Proofs

TLC's runs and the proofs use the same definitions. Assumptions: the named
`ASSUME`s of the modules, which the runs evaluate; nothing else.

**`ColocatorProofs`**, for every number of clients up to `kMaxClients`, every
policy, threshold, ring size, number of calls and set of kinds, with and
without failures:

| Theorem | States |
|---|---|
| `Inductive` | `IInv` always holds |
| `TypeCorrect` | `TypeOK` |
| `NoDanglingHead` | `HeadsAlive`: every head dereferenced points into a frame whose client still spins |
| `ParkedIsAwaited` | `ParkedAlive`: no parked record is ever overwritten |
| `ProgramOrder` | `ReplayedInOrder`: each call once, in order |
| `SyncDrains` | `SyncMeansDrained` |
| `QueuesStayShort` | `QueueDepthAtMostTwo` |
| `CleanEnd` | `NothingLeftBehind`: no accounting error, nothing queued, parked or unlogged |
| `ReleasedIsUntouched` | `UntouchedOnceReleased`, an action property |

None of these is inductive as it stands. `IInv` (in `ColocatorInductive`) counts
three things per client: calls `Pushed`, real calls `Made`, records `Popped`.
The queue holds exactly the ids from `Popped` to `Pushed`; outside a call
everything submitted has been made; inside one the record is in exactly one of
four phases (`Unserved`, `Served`, `Parked`, `Released`), fixed by `Made`, by
whether the scheduler is between its real call and its store, and by
`pending_sync`. That is why a head seen in an old snapshot is still alive: only
the scheduler makes calls, so between peek and execute its client cannot leave
`Unserved`. The proof has one lemma per action; each conjunct the action can
disturb is a step of it.

Two more parts of the module rest on `IInv`.

The refinement: `Refinement` is `Spec => ImplementsSolo`, the safety part of
the refinement, for every client. A call is made in the abstract machine when
`execute` makes it, and returns when the interposer does. A call is called,
effected or answered as the scheduler has not served it, is serving or parking
it, or has released it; `EffectsInv` adds that between effect and answer the
record reports success exactly when the operation is on the stream. Each action
of `Colocator` is then a step of client `c`'s `SoloStream` or leaves what it
shows alone.

The throttle, when its threshold fits in the ring:
`CountsInductive`, `CountIsSafe` (`CountsEverything`) and `CapHolds`
(`ThrottleCaps`). The two properties need each other: the n-th event stands
behind the n-th operation as long as no operation was skipped, none is skipped
as long as at most `Threshold` are outstanding, and that is what the count
guarantees. `CountInv` states it with the operation `execute` has issued and not
yet counted; `SlotsDiffer` says that sequence numbers less than a ring apart do
not share a slot. `ring_overflow` (section 7) shows the assumption is needed.

Fcfs: `OvertakenOnce`. A record can only be passed over by a snapshot that does
not show it: the one under way when it was pushed. `OvertakingInv` says that a
record overtaken once and not yet served is in every snapshot the policy looks
at, where no later stamp can win.

**`SmLimitProofs`**, for every set of kinds and number of calls:

| Theorem | States |
|---|---|
| `LinearInductive` | `LinearInv` always holds |
| `SyncsDrainBoth` | `SyncDrainsBoth` |
| `EventsCoverAll` | `EventsCoverPriorWork` |
| `CursorExact` | `CursorIsExact` |
| `TwoStreamsAreOne` | the safety part of the refinement `StaysLinear` |

`LinearInv` is about what stands before each place of a stream: the completion
event of every earlier operation, as an event already reached, in the same
stream, or behind a wait for a recording that covers it (`Before`). So the head
of a stream can be an operation only when it is the next of all, and a recording
is reached only behind all that it covers. One value holds both streams; what a
call does to it is a composition of `Chain`, `PutOperation` and `PutEvent`, and
what the GPU does takes a head off. `Grows` and `Takes` say how places move, and
one lemma each that `Before` moves with them.

**`RegistryProofs`**, for every set of threads, slot assignment, table size and
number of calls: `RegistryInductive` (the invariant `RegistryInv`),
`RegistrationHolds`, `SlotsHold`, `DropsHold`. The argument: `num` never falls,
because the exchange succeeds only on the value it compared; a slot bears a
client's id from its store on; so a lookup cannot run past the caller's slot.
For the table: taken slots are a prefix, each thread's scan has left only
others' slots behind it, so claiming a free slot cannot be a second one.

**`DemoProofs`**, for every number of clients, plan of modes and pipeline depth,
with clients that raise anywhere and devices that fail:

| Theorem | States |
|---|---|
| `LifeInductive`, `DemoInductive` | `LifeInv`; all four invariants |
| `SchedulerStopped`, `CallersAreServed` | `NoOrphanScheduler`, `SchedulerServes` |
| `SlotsNeverShared`, `ChecksReadTheirOwn` | `SlotsExclusive`, `CheckReadsItsOwn` |
| `TimedSectionsMeet`, `ModesEndDrained` | `TimedTogether`, `ModeEndsDrained` |

`LifeInv` says what each place of the main thread knows: a scheduler thread
exists only between `col_setup` and the join behind `col_stop`, clients live only
between the spawn and their join, and a mode without a colocator begins and ends
without either. `PipeInv` reads a client's stream through its `_events`: they are
consecutive iterations, at most `Depth`; an iteration in the stream is younger
than all that were forgotten, and once recorded has its event behind it. Two
iterations in flight are then less than `Depth` apart, so their slots differ; that
needs only arithmetic on `%`. `MeetInv` counts who has met at the demo's barrier,
across its draining state, and `EndInv` says what a mode leaves on the streams.

**`ObserverProofs`**, for every number of streams and slots, whatever is launched
and however completion, delivery and tracking interleave: `ObserverInductive`,
`CountersExact` (`LiveCountsDelivered`) and `DumpsAreComplete`
(`DumpIsComplete`), and of the analysis of what was dumped, for logs of any
length:

| Theorem | States | Assumes |
|---|---|---|
| `CorrelationInductive` | `ObserverInv` with `CorrelationInv` | - |
| `DumpTellsIssueOrder` | `DumpInIssueOrder` once dumped | - |
| `CopiesJoined` | `MemcpyJoinExact` | - |
| `KernelsJoined` | `KernelJoinExact` | `~DriverLaunches` |
| `SelfCheckTells` | `SelfCheckSound` | `~DriverLaunches` |

Each completion has left one record, which is in CUPTI's
buffers or among the rows and in one of them only, so no delivery counts twice;
and a slot may be named late because nothing runs on a tracked stream before the
tracking is over. With fewer slots than streams the streams without a slot are
not counted, which the property does not ask for.

`CorrelationInv` is what the joins rest on. It says, for some function from rows
to ids (the id a call was given), that ids rise with the log; that an activity,
waiting on its stream or recorded, has the id of the call that caused it or, for
a cuBLAS call's second kernel, the next; that no two share an id; that each
stream runs them in the order of the ids; and that a RUNTIME record names the
thread its activity came from. Ids are given when a call is made and read after
everything was completed, so it has to hold through every step in between. Once
the observer has dumped it becomes `DumpInIssueOrder`: the order of the ids is the
order of the log, a partner follows its own call's kernel, a call that succeeded
has its record and one that failed none. The copies' join is then a matter of
ranks. The kernels' join is a loop, and its proof takes the loop row by row: a row
that succeeded finds its own first kernel at the loop's position, since all
earlier rows have taken theirs, and takes exactly its own; and as many kernels lead
a row as rows succeeded, so that the loop runs out exactly when a row has none.
`KernelJoinExact` and `SelfCheckSound` need that every launch leaves a RUNTIME
record, by which `analyze.py` tells the scheduler's kernels from others; the run
`trace_modes` shows the join fail without it (section 7).

**`FiguresProofs`**, for traces of any length over any span of time:

| Theorem | States |
|---|---|
| `TracesInductive` | `TraceInv`: the times a row of each mode has, in their order, and no `load_done` behind a barrier |
| `GpuTimesExact` | `ConcurrencyExact` |
| `ReplayShowsTheExperiment` | `ReplayFaithful` |

The figures are loops, and the library's induction theorems take an operator,
which the provers cannot instantiate. So a fold is unfolded to a function over its
turns (`FoldExists`), and a claim about every turn fails, if at all, at a least one
(`Upward`). After n turns of `busy_intervals` the merged intervals are apart and in
order, and cover exactly the nanoseconds of the first n rows; their lengths then
add up to the number of these (`MergedExact`, `BusyExact`). From positions i and j
on, `overlap_ns` still adds the nanoseconds both rests of the lists cover: the
common part of the two intervals at hand is counted (`GainExact`), and the one that
moves on has no other nanosecond in common with the other list's rest
(`MovingOn`). The union is then a matter of two finite sets, and
fits in the span because every nanosecond of a row lies in it.

For the replay: a row right of the barrier line was intercepted, issued or started
after both clients crossed, hence after every `load_done`, so trimming cannot drop
it; and the origin and the end of the time line are a least and a greatest time of
the rows kept, which the rounds rearrange and neither lose nor repeat.

**`OrderProofs`** has what this and the trace join need of ranks: the n-th of a
finite set of numbers is its member with rank n (`Sorted`), a filtered sequence
has the entries at the positions asked for, in order (`AtPositions`), and a
sequence sorted by a strict total order on positions has each entry once
(`ArrangedInOrder`).

**`ArtifactsProofs`**, for every number of workloads, settings, earlier runs,
sweeps, exports, deaths, dumps that give up and refused analyses:

| Theorem | States |
|---|---|
| `SweepInductive`, `ArtifactsInductive` | `SweepInv`; with `LinksInv`, `ScanInv`, `OneInv`, `ShownInv` |
| `ReportIsTrue` | `SweepReportsTruth` |
| `LinksStayOpen` | `ServedLinksOpen` |
| `OneProcessPerPage` | `OneExecutionPerPage` |
| `FinishedShown` | `FinishedRunsShown` |
| `SelectionLeads` | `SelectionShown`, for directories named for what runs in them (`WellNamed`) |

`SweepInv` follows the process under way file by file and carries a report for
each pair done; a write of the pair under way cannot touch another pair's
directory, and the export adds traces only. A dump that gives up is not in the
report, so `SweepReportsTruth` says what remains true then: log and results are
the process's own, and so are its records unless its dump gave up, which the
file written last shows, since a calibration that is a process's own means that
all its records are (`Dumped`). `OneInv` carries that commit point through the
export: in a directory used once, `obs_calib.csv` present means log and records
whole, and analyze.py makes no trace without it; so what it has read may be
older than what is there, but a trace or a page made of it is of whole files.
`ShownInv` is about the directories finished when the script began and not used
again: a process at work makes its own directory unfinished, so they stay as
they were, and one of them is still to be listed, about to be looked at, found,
or refused by analyze.py; then, if it is colocated, it is in the list of what
was skipped. The one way out is the refusal: nothing else can skip it. That the
script has a next pair and a next directory at all needs that what is left has a
first one in the order of pairs and in that of names, which is shown to be total
and transitive (`NamesTotal`, `NamesTransitive`), by the library's theorems on
well-founded relations.

`SelectionLeads` needs two more parts. `OriginInv`: what the export has read of a
directory, and what a page shows, was left by some process that ran there, which
need not be the last one (the directory may be run again between the two passes).
`BuiltInv`: the pages of one export bear the same map and selectors, those of the
directories it found. The loop that fills a slot of `pair_map` is followed turn by
turn (`PreferTurns`): at its end the slot holds one of the items, the canonical
directory if the loop met it (`ChosenExact`, `MapLeads`). That the item, the page
it leads to and the run behind that page then are of one pair and one
configuration is no longer about the export but about names: two processes shown
as one configuration under one name ran one pair. `WellNamed` says so of the
settings and of the runs made by hand, and is a hypothesis because the code does
not see to it: a sweep of a throttle under an SM limit is named for the limit
only, and its runs are shown as without a cap. TLC evaluates `WellNamed` for the
settings of the run (`NamesAssumption` in `MCArtifacts`).

`IInv`, `RegistryInv`, `LinearInv`, `ArtifactsInv` and the parts of the demo's
invariant were checked with TLC on the instances of the runs while they were
found; being proved, they are not in the runs.

What the proofs found in the models: in seq the next client's turn began when the
last one's own stream was empty, where `torch.cuda.synchronize` waits for the
whole device (`NextTurn`); a stuttering disjunct of `SmLimit` bound tighter than
meant (`Done`); the order of directory names was not total on a name and its
prefix (`NameBefore`). Rows of one issue time were sorted by a library operator whose
definition asks for a strict order, which rows that tie do not have, so nothing
could be said of `Rounds`; Python's sort is stable, and `Arranged` now takes the
position as the last key. All are as the code is now.

Only model-checked: liveness (`CallsReturn`, `LaunchReturns`, `LaunchEnds`,
`ErrorsSurface`, `SyncReturns`, and that of the refinements), which under fairness
is out of the prover's reach. Every invariant that a passing run
checks is also a theorem.

## 7. Disagreements between code and documentation

Three are runs whose single property states what the text says; TLC shows the
behaviour that contradicts it.

| Run | The text | The code |
|---|---|---|
| `ring_overflow` | "ring full: skip (never hit under lockstep)" (`scheduler.cpp:131`) | asynchronous calls return at ISSUED, so under fcfs a client can fill the ring, and `in_flight` undercounts. Under a throttle that fits in the ring it cannot (`CountIsSafe`) |
| `launch_hang` | launch "re-raises the first client exception" (`colocator.py:80`) | a client failing before run_demo's barrier leaves the others waiting, and launch with them |
| `trace_modes` | "each mode's records are isolated" (`run_demo.py:203`) | the kernel join does not apply the window |

Others were met while modelling. The models contain the behaviour, and the
passing properties are stated so that they allow it:

| Where | The text | The code, and where the models show it |
|---|---|---|
| queue depth | "Queue depth per client is therefore <= 1" (`src/README.md:86`) | 2: the client is released before the pop. Harmless; `QueueDepthAtMostTwo` is proved |
| fcfs | "run whichever queued op was intercepted earliest" (`policy.h:33`) | heads are read at different times; one later record may go first (`OvertakenAtMostOnce`) |
| threshold 0 | "-1 = everyone ineligible: idle until completions arrive" (`policy.h:84`) | no completion can arrive: `CallsReturn` fails with `Threshold = 0` |
| device error | "Owns the scheduler thread ... for one run" (`colocator.py:48`) | raised by `synchronize`, it skips `col_stop`; `NoOrphanScheduler` excludes that launch |
| second launch | "everything submitted was issued" (`colocator.py:132`) | `submitted` survives a launch, `issued` does not: `Finish` raises |
| masked cause | "re-raises the first client exception" (`colocator.py:80`) | `FirstError` may be the `BrokenBarrierError` a failure caused elsewhere; `ErrorsSurface` asks only that something is raised |
| reset in drain | "cross the barrier with an empty pipeline" (`run_demo.py:88`) | llmdecode's `drain` enqueues its reset after synchronising; `TimedTogether` and `ModeEndsDrained` allow resets, not iterations |
| stale trace | "trace.json exists or was successfully built" (`export_all.py:41`) | one that exists is never rebuilt: a directory used again gets a page with new results over the old trace (`EnsureTrace`); `OneExecutionPerPage` is about directories used once |
| failed dump | "Returns number of kernel records written, -1 on error" (`observer.cpp:272`) | `run_demo.py:224` does not look at it: `res["observer"]` is `True`, the exit code 0, and the pair is not reported; records of an earlier run may stand beside the new log (`DumpFails`, allowed for by `SweepReportsTruth`) |
| skipped runs | "skips runs recorded without `--observer on`" (`visualizer/README.md:21`) and "skipped: ... no observer data" (`export_all.py:194`) | runs whose analysis failed are skipped and listed under the same words (`Skip`); of seq runs nothing is listed. `FinishedRunsShown` allows a refusal, and asks that it is listed |
| live table | "returns a slot handle ..., or -1" (`observer.cpp:244`) | a refused call still advances the count that bounds the scan (`TakeSlot`) |

## 8. Abstractions, and what is not modelled

Stated per module, so that a reader can judge what a result leaves open.

- `Colocator`: argument payloads, priorities, logging, the debug stream,
  `max_pending` and the observer's counters in the snapshot (no policy reads
  them) are left out. Stamps are kept only as far as they order the calls in
  progress. The issue log is kept per client; its order across clients is the
  scheduler's single thread. Clients' event records are not counted as stream
  work (they change no property). Clients start after `col_is_running`
  (`Launch` has the start). `ForgetHeads` clears a snapshot the code leaves to be
  overwritten. `MaxOps` bounds calls; `Ring` stands for `kEventRing` = 1024.
- `SmLimit`: one client, since clients share no stream or event; a record is
  replayed atomically; query errors are left out (they are in `Colocator`).
- `Registry`: threads have one id each; reuse of an exited thread's TID is a
  listed hazard without a property.
- `Launch`, `Demo`: a process begins no program after one that raised; a
  `col_setup` that fails (launch raises before any thread exists) is left out;
  so are model loading and reference results, which happen before the barrier
  on the client's own stream.
- `Pipeline`: what an iteration computes is which slot it writes.
- `Observer`: records are delivered one at a time or, at the dump, all at once;
  RUNTIME records are available at the dump; live counters for copies and busy
  time follow the kernels' pattern and are left out; correlation ids are
  consecutive.
- `TraceJoin`: `assign_kernels`' and `self_check`'s comparisons of clocks and
  their offset estimate are left out: they can only refuse a trace that order
  accepts.
- `Figures`: kernels and host times are explored in separate traces; all times
  are on one clock, so a calibration error between CUPTI and the monotonic clock
  is outside; drawing, percentages and percentiles are left out.
- `Sweep`: the solo pass is one step; `dump_issue_log` is one step (its file is
  small and nothing reads it before `results.json`; where it cannot be opened the
  process raises, which is `Crash`). Of the observer's four files the first and
  the last are told apart: `obs_memcpys.csv` and `obs_runtime.csv` are written
  between them, in the step of the last. In a setting 0 stands for an argument
  that was not given; an explicit `--throttle 0` or `--sm-limit 0`, which
  `run_pairs.py:98` takes for given, is left out.
- `Artifacts`: caps have one digit, so the listing order is that of numbers;
  writing a page is one step (a reader may see a truncated page in the code);
  a directory under `throttle_*` is one of a colocated run;
  `trace.json` is written in one step; the export asks for no self-check, so a
  trace that would fail it has a page. A run made with both limits and a sweep
  of a throttle under `smlimit` would share a directory name with a plain
  `smlimit` sweep: `WellNamed` excludes those settings, for which
  `SelectionShown` would not hold. A flat run and one under `throttle_none` of the same
  name would share a page; the flat ones here have names of their own. A flat run under
  a throttle, as in `demo/README.md:33`, is shown as one without a cap
  (`export_all.py:117`): `WellNamed` excludes it. A re-run
  that dies between its issue log and its results, over an earlier whole run, is
  explored, and is why `OneExecutionPerPage` speaks of directories used once.
- Not modelled: `plot_timeline.py`, `workloads.py` (a loader), `smoke_test.py`,
  the tools, the CUDA kernels of `ext/`, `export.py`'s command line, the drawing
  in the template, the numerical references of the workloads,
  `build_seq_trace`'s row format, and the directory lists kept for runs of older
  layouts. None of them keeps state that two steps share.

## 9. Plan

Done, in order of importance: the core with its refinement and proofs;
registration with proofs; SM limit with refinement; the life of a run; the
demo's modes over the pipeline; observer, join and self-check; figures and
replay; sweep, export and server.

Next, for the model:

1. `Demo` and `Registry` composed, with thread ids that the kernel reuses: the
   stale-TID hazard of `client_idx`.
2. The clock-offset estimate of `assign_kernels` and sync records.
3. `Pipeline` over `Colocator`'s queue and throttle: does a throttle below the
   pipeline's depth change what a workload sees?
4. Runs of their own for the hazards that the code does not handle and the
   models already contain (threshold 0, device error, second launch, live table).

Next, for the proofs: the properties of the composition of `Demo` and `Registry`
above, once it is written, from `DemoInductive` and `RegistryInductive`.
