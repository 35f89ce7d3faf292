------------------------------ MODULE Observer ------------------------------
(***************************************************************************)
(* libobserver: CUPTI's activity records of what the scheduler issued and  *)
(* of what other threads launched, delivered in batches to                 *)
(* buffer_completed, counted live per tracked stream, and written out by   *)
(* obs_dump.  A record's history: `row`, the issue-log row it belongs to   *)
(* (0: none), the thread it is `from`, whether it was launched inside the  *)
(* mode's `window`, and `end`, when the GPU completed it (0: not yet).     *)
(***************************************************************************)
EXTENDS Integers, Sequences, SequencesExt, FiniteSets

CONSTANTS
    NumStreams,      \* colocator streams, tracked by col_setup in this order
    kMaxTracked,     \* slots of g_live
    IssueKinds,      \* kinds of row the scheduler logs
    MaxCalls,        \* bound: issue-log rows
    MaxOther,        \* bound: kernels of other threads, before and during the run
    Failures,        \* may a replayed call fail?
    DriverLaunches   \* may an earlier mode launch through the driver API?

ASSUME TrackingAssumption == {NumStreams, kMaxTracked} \subseteq Nat \ {0}
ASSUME KindsAssumption == IssueKinds \subseteq {"cudaLaunchKernel", "cublasGemmEx", "cudaMemcpyAsync"}
ASSUME BoundsAssumption == {MaxCalls, MaxOther} \subseteq Nat
ASSUME FaultsAssumption == {Failures, DriverLaunches} \subseteq BOOLEAN

Stream == 1 .. NumStreams
DefaultStream == 0

VARIABLES
    phase,     \* earlier (modes), tracking, running, over, flushed, dumped
    issue,     \* Sched.log, in issue order
    other,     \* kernels launched by other threads
    corr,      \* the latest correlation id
    end,       \* completions so far
    fifo,      \* what each stream still has to execute
    runtime,   \* RUNTIME records, delivered or not: only obs_dump reads them
    cupti,     \* activity records in CUPTI's buffers, not yet delivered
    rows,      \* g_kernels and g_memcpys
    taken,     \* a slot taken and not yet named, -1 if none
    live,      \* stream_id per slot of g_live
    live_n,    \* g_live_n
    counts,    \* kernels per slot of g_live
    dump       \* the files of the last obs_dump

gpuVars  == <<issue, other, corr, end, fifo, runtime>>
liveVars == <<taken, live, live_n, counts>>
vars == <<phase, gpuVars, cupti, rows, liveVars, dump>>

Unnamed == -1   \* 0xFFFFFFFF

Activity(what, c, s, partner, row, from) ==
    [what |-> what, corr |-> c, stream |-> s, partner |-> partner, row |-> row,
     from |-> from, window |-> phase # "earlier", end |-> 0]
Runtime(c, kind, tid) == [corr |-> c, kind |-> kind, tid |-> tid]

(***************************************************************************)
(* What CUPTI sees                                                         *)
(***************************************************************************)
\* The kernels (or copy) one replayed call puts on its stream, with
\* consecutive correlation ids: cuBLAS may add a split-K partner.
Effects(kind, s, partners) ==
    LET what == IF kind = "cudaMemcpyAsync" THEN "memcpy" ELSE "kernel"
    IN  [i \in 1 .. 1 + partners |-> Activity(what, corr + i, s, i > 1, Len(issue) + 1, "sched")]

\* The scheduler replays one call.  A failed call still has a RUNTIME
\* record and a log row; cuBLAS's launches may have no RUNTIME record.
Replay(s, kind) ==
    /\ phase = "running" /\ Len(issue) < MaxCalls
    /\ \E ok \in IF Failures THEN BOOLEAN ELSE {TRUE},
          partners \in IF kind = "cublasGemmEx" THEN {0, 1} ELSE {0},
          seen \in IF kind = "cublasGemmEx" THEN BOOLEAN ELSE {TRUE} :
         /\ ok \/ partners = 0
         /\ issue' = Append(issue, [stream |-> s, kind |-> kind, ok |-> ok])
         /\ corr' = corr + 1 + partners
         /\ fifo' = IF ok THEN [fifo EXCEPT ![s] = @ \o Effects(kind, s, partners)] ELSE fifo
         /\ runtime' = IF seen
                       THEN runtime \cup {Runtime(c, kind, "sched") : c \in corr + 1 .. corr'}
                       ELSE runtime
    /\ UNCHANGED <<phase, other, end, cupti, rows, liveVars, dump>>

\* Another thread launches a kernel of its own, on a stream nobody tracks:
\* the main thread, in an earlier mode or creating the context; a client,
\* past the interposers; a worker of an earlier mode that had the thread id
\* the system now gives a client.
LaunchElsewhere(tid) ==
    /\ other < MaxOther
    /\ phase \in IF tid = "main" THEN {"earlier", "tracking"} ELSE {"earlier", "running"}
    /\ other' = other + 1
    /\ corr' = corr + 1
    /\ fifo' = [fifo EXCEPT ![DefaultStream] =
                   Append(@, Activity("kernel", corr + 1, DefaultStream, FALSE, 0, tid))]
    /\ \E seen \in IF DriverLaunches THEN BOOLEAN ELSE {TRUE} :
         runtime' = IF seen THEN runtime \cup {Runtime(corr + 1, "cudaLaunchKernel", tid)}
                    ELSE runtime
    /\ UNCHANGED <<phase, issue, end, cupti, rows, liveVars, dump>>

\* A stream's oldest operation completes; only now is it recorded.
Complete(s) ==
    /\ fifo[s] # <<>>
    /\ fifo' = [fifo EXCEPT ![s] = Tail(@)]
    /\ end' = end + 1
    /\ cupti' = cupti \cup {[Head(fifo[s]) EXCEPT !.end = end + 1]}
    /\ UNCHANGED <<phase, issue, other, corr, runtime, rows, liveVars, dump>>

(***************************************************************************)
(* The observer                                                            *)
(***************************************************************************)
Kernels(records) == {r \in records : r.what = "kernel"}
OnStream(records, s) == {r \in Kernels(records) : r.stream = s}

\* Mutant: the stream id is not compared with every slot, only the last.
CountLast(batch) ==
    counts' = [i \in DOMAIN counts |->
                 IF i = live_n - 1 THEN counts[i] + Cardinality(OnStream(batch, live[i]))
                                   ELSE counts[i]]

\* The scan of buffer_completed: every slot below g_live_n that bears the
\* kernel's stream.
Count(batch) ==
    counts' = [i \in DOMAIN counts |->
                 IF i < live_n THEN counts[i] + Cardinality(OnStream(batch, live[i]))
                               ELSE counts[i]]

\* buffer_completed, under g_mtx: some records, in whatever buffers.
Deliver(batch) ==
    /\ rows' = rows \cup batch
    /\ cupti' = cupti \ batch
    /\ Count(batch)
    /\ UNCHANGED <<gpuVars, taken, live, live_n>>

\* A full buffer, or the flusher thread's cuptiActivityFlushAll(0); one
\* record of it, since the counters are read without g_mtx.
FlushSome ==
    /\ \E r \in cupti : Deliver({r})
    /\ UNCHANGED <<phase, dump>>

\* obs_live_track: take the next slot number, refused past the table's end.
TakeSlot ==
    /\ phase = "tracking" /\ taken = -1 /\ live_n < NumStreams
    /\ live_n' = live_n + 1
    /\ taken' = IF live_n >= kMaxTracked THEN -1 ELSE live_n
    /\ UNCHANGED <<phase, gpuVars, cupti, rows, live, counts, dump>>

NameSlot ==
    /\ taken # -1
    /\ live' = [live EXCEPT ![taken] = taken + 1]
    /\ taken' = -1
    /\ UNCHANGED <<phase, gpuVars, cupti, rows, live_n, counts, dump>>

\* Mutant: obs_dump does not force the flush.
ForceFlushNot ==
    /\ phase = "over"
    /\ phase' = "flushed"
    /\ UNCHANGED <<gpuVars, cupti, rows, liveVars, dump>>

\* obs_dump, first: the forced, blocking flush.
ForceFlush ==
    /\ phase = "over"
    /\ phase' = "flushed"
    /\ Deliver(cupti)
    /\ UNCHANGED dump

\* obs_dump, second: the files, under g_mtx.
WriteFiles ==
    /\ phase = "flushed"
    /\ phase' = "dumped"
    /\ dump' = rows
    /\ UNCHANGED <<gpuVars, cupti, rows, liveVars>>

(***************************************************************************)
(* The run around it                                                       *)
(***************************************************************************)
Idle == \A s \in DOMAIN fifo : fifo[s] = <<>>

\* The mode's window opens behind drained modes (Demo!ModeEndsDrained) and
\* launch begins; col_setup; col_run; launch's device synchronize.
NextPhase ==
    /\ \/ phase = "earlier" /\ Idle /\ phase' = "tracking"
       \/ phase = "tracking" /\ live_n = NumStreams /\ taken = -1 /\ phase' = "running"
       \/ phase = "running" /\ Idle /\ phase' = "over"
    /\ UNCHANGED <<gpuVars, cupti, rows, liveVars, dump>>

Dumped == phase = "dumped" /\ UNCHANGED vars

Init ==
    /\ phase = "earlier"
    /\ issue = <<>> /\ other = 0 /\ corr = 0 /\ end = 0 /\ runtime = {}
    /\ fifo = [s \in Stream \cup {DefaultStream} |-> <<>>]
    /\ cupti = {} /\ rows = {} /\ dump = {}
    /\ taken = -1 /\ live_n = 0
    /\ live = [i \in 0 .. kMaxTracked - 1 |-> Unnamed]
    /\ counts = [i \in 0 .. kMaxTracked - 1 |-> 0]

Next ==
    \/ \E s \in Stream, kind \in IssueKinds : Replay(s, kind)
    \/ LaunchElsewhere("main") \/ LaunchElsewhere("client")
    \/ \E s \in Stream \cup {DefaultStream} : Complete(s)
    \/ FlushSome \/ TakeSlot \/ NameSlot \/ ForceFlush \/ WriteFiles
    \/ NextPhase \/ Dumped

Spec == Init /\ [][Next]_vars

(***************************************************************************)
(* Properties                                                              *)
(***************************************************************************)
\* A tracked stream's live counter is the number of its kernels delivered so
\* far: never ahead of the GPU, nothing missed, nothing counted twice,
\* although tracking, delivery and completion interleave.
LiveCountsDelivered ==
    \A i \in DOMAIN live : live[i] # Unnamed =>
       counts[i] = Cardinality(OnStream(rows, live[i]))

\* obs_dump writes a record for every kernel and copy of the run, those the
\* flusher had not yet delivered included.
DumpIsComplete ==
    phase = "dumped" => {r.end : r \in dump} = 1 .. end /\ Idle
=============================================================================
