------------------------------ MODULE SmLimit -------------------------------
(***************************************************************************)
(* COLOCATOR_SM_LIMIT: each client gets a second stream, inside a green    *)
(* context that owns only part of the SMs, and execute() sends cuBLAS      *)
(* calls there.  route_stream chains every switch between the two with an  *)
(* event, and the synchronising calls look at both.                        *)
(*                                                                         *)
(* Clients share none of this, so the module has one.  It replays a record *)
(* in one step: the scheduler is the only thread that enqueues, and what   *)
(* the GPU does between two of its calls it can do before or after them.   *)
(***************************************************************************)
EXTENDS Records, Sequences, SequencesExt

CONSTANTS
    Kinds,     \* the kinds of call the client makes
    MaxOps     \* bound: calls

ASSUME WorkAssumption == Kinds \subseteq OpKind /\ MaxOps \in Nat

Streams == {"main", "gemm"}

VARIABLES
    phase,         \* the call in progress: none, parked, polling, freeing, ...
    calls,         \* calls made
    last_stream,   \* Sched.last_stream, "null" at first
    chain_ev,      \* Sched.chain_ev: the latest recording of each event
    chain_toggle,  \* Sched.chain_toggle
    ring,          \* completion events, by sequence number: their recordings
    ev_done,       \* completion cursor
    enqueued,      \* operations enqueued on either stream, numbered from 1
    recordings,    \* recordings[r]: the operations that preceded recording r
    reached,       \* the recordings the GPU has reached
    fifo,          \* what each stream still holds, the head included
    executing,     \* the operations the GPU is executing
    completed      \* the operations it has completed, in the order it did

schedVars == <<last_stream, chain_ev, chain_toggle>>
gpuVars   == <<reached, executing, completed>>
vars == <<phase, calls, schedVars, ring, ev_done, enqueued, recordings, fifo, gpuVars>>

(***************************************************************************)
(* CUDA streams and events                                                 *)
(***************************************************************************)
Operation(i) == [item |-> "op", id |-> i]
Recording(r) == [item |-> "record", id |-> r]
WaitFor(r)   == [item |-> "wait", id |-> r]

Empty(s) == fifo[s] = <<>>
HeadIs(s, item) == ~Empty(s) /\ fifo[s][1].item = item
TakeHead(s) == fifo' = [fifo EXCEPT ![s] = Tail(@)]

Start(s) ==
    /\ HeadIs(s, "op") /\ fifo[s][1].id \notin executing
    /\ executing' = executing \cup {fifo[s][1].id}
    /\ UNCHANGED <<phase, calls, schedVars, ring, ev_done, enqueued, recordings,
                   fifo, reached, completed>>

Complete(s) ==
    /\ HeadIs(s, "op") /\ fifo[s][1].id \in executing
    /\ executing' = executing \ {fifo[s][1].id}
    /\ completed' = Append(completed, fifo[s][1].id)
    /\ TakeHead(s)
    /\ UNCHANGED <<phase, calls, schedVars, ring, ev_done, enqueued, recordings, reached>>

Reach(s) ==
    /\ HeadIs(s, "record")
    /\ reached' = reached \cup {fifo[s][1].id}
    /\ TakeHead(s)
    /\ UNCHANGED <<phase, calls, schedVars, ring, ev_done, enqueued, recordings,
                   executing, completed>>

\* The wait captured a recording when it was enqueued.
PassWait(s) ==
    /\ HeadIs(s, "wait") /\ fifo[s][1].id \in reached
    /\ TakeHead(s)
    /\ UNCHANGED <<phase, calls, schedVars, ring, ev_done, enqueued, recordings, gpuVars>>

(***************************************************************************)
(* route_stream                                                            *)
(***************************************************************************)
\* Mutant: order-only calls go to the main stream.
WantedMain(kind) ==
    IF kind \in {"CublasGemmEx", "CublasSgemm"} THEN "gemm" ELSE "main"

\* cuBLAS calls are capped; calls that only order follow the last operation;
\* everything else goes to the main stream.
Wanted(kind) ==
    CASE kind \in {"CublasGemmEx", "CublasSgemm"} -> "gemm"
      [] kind \in {"EventRecord", "StreamSync"} ->
           IF last_stream = "null" THEN "main" ELSE last_stream
      [] OTHER -> "main"

\* Mutant: a switch back to the main stream is not chained.
SwitchesToGemm(kind) ==
    kind \in {"CublasGemmEx", "CublasSgemm"} /\ last_stream \notin {"null", Wanted(kind)}

Switches(kind) ==
    kind \notin {"EventRecord", "StreamSync"} /\ last_stream \notin {"null", Wanted(kind)}

\* The chain: record on the stream left, wait on the one entered.
Chained(kind) ==
    IF Switches(kind)
    THEN [fifo EXCEPT ![last_stream] = Append(@, Recording(Len(recordings) + 1)),
                      ![Wanted(kind)] = Append(@, WaitFor(Len(recordings) + 1))]
    ELSE fifo

ChainRecording(kind) == IF Switches(kind) THEN <<enqueued>> ELSE <<>>

\* What route_stream leaves behind in Sched.
Route(kind) ==
    /\ last_stream' = IF kind \in {"EventRecord", "StreamSync"}
                      THEN last_stream ELSE Wanted(kind)
    /\ chain_toggle' = IF Switches(kind) THEN 1 - chain_toggle ELSE chain_toggle
    /\ chain_ev' = IF Switches(kind)
                   THEN [chain_ev EXCEPT ![chain_toggle] = Len(recordings) + 1]
                   ELSE chain_ev

(***************************************************************************)
(* execute                                                                 *)
(***************************************************************************)
Replays(kind) ==
    /\ phase = "none" /\ calls < MaxOps
    /\ calls' = calls + 1
    /\ Route(kind)
    /\ UNCHANGED <<ev_done, gpuVars>>

Parks == {"Memcpy", "Memset"}

\* Kernels, copies, memsets and cuBLAS calls: the operation and behind it
\* its completion event.
Enqueue(kind) ==
    /\ kind \in AsyncKinds \cup Parks /\ kind # "EventRecord"
    /\ Replays(kind)
    /\ enqueued' = enqueued + 1
    /\ recordings' = recordings \o ChainRecording(kind) \o <<enqueued + 1>>
    /\ fifo' = [Chained(kind) EXCEPT
                  ![Wanted(kind)] = @ \o <<Operation(enqueued + 1),
                                           Recording(Len(recordings'))>>]
    /\ ring' = Append(ring, Len(recordings'))
    /\ phase' = IF kind \in Parks THEN "parked" ELSE "none"

\* The real call fails, or enqueues nothing (Malloc, StreamSync); the stream
\* has been chosen, and left chained, all the same.
EnqueueNothing(kind) ==
    /\ kind \notin {"EventRecord", "Free"}
    /\ Replays(kind)
    /\ recordings' = recordings \o ChainRecording(kind)
    /\ fifo' = Chained(kind)
    /\ phase' = IF kind = "StreamSync" THEN "parked" ELSE "none"
    /\ UNCHANGED <<ring, enqueued>>

\* The client's own event, on the stream of its last operation.
RecordEvent ==
    /\ "EventRecord" \in Kinds
    /\ Replays("EventRecord")
    /\ recordings' = Append(recordings, enqueued)
    /\ fifo' = [fifo EXCEPT ![Wanted("EventRecord")] = Append(@, Recording(Len(recordings')))]
    /\ UNCHANGED <<phase, ring, enqueued>>

\* Free: two cudaStreamSynchronize calls, each blocking the scheduler.
Free ==
    /\ "Free" \in Kinds
    /\ Replays("Free")
    /\ recordings' = recordings \o ChainRecording("Free")
    /\ fifo' = Chained("Free")
    /\ phase' = "freeing"
    /\ UNCHANGED <<ring, enqueued>>

Await(from, s, to) ==
    /\ phase = from /\ Empty(s)
    /\ phase' = to
    /\ UNCHANGED <<calls, schedVars, ring, ev_done, enqueued, recordings, fifo, gpuVars>>

FreeMain == Await("freeing", "main", "freeingGemm")
FreeGemm == Await("freeingGemm", "gemm", "drained")

(***************************************************************************)
(* poll_pending_syncs and advance_completion                               *)
(***************************************************************************)
\* Mutant: only the main stream is queried.
PollMainAlone == Await("parked", "main", "drained")

\* First query: not ready leaves the record parked.
PollMain == Await("parked", "main", "polling")

\* Second query: not ready, and the next turn starts over.
PollGemm ==
    /\ phase = "polling"
    /\ phase' = IF Empty("gemm") THEN "drained" ELSE "parked"
    /\ UNCHANGED <<calls, schedVars, ring, ev_done, enqueued, recordings, fifo, gpuVars>>

\* Mutant: pending_sync is not cleared and REC_DONE not stored.
ReleaseNothing ==
    /\ phase = "drained"
    /\ phase' = "parked"
    /\ UNCHANGED <<calls, schedVars, ring, ev_done, enqueued, recordings, fifo, gpuVars>>

\* The store of REC_DONE; the client resumes.
Release ==
    /\ phase = "drained"
    /\ phase' = "none"
    /\ UNCHANGED <<calls, schedVars, ring, ev_done, enqueued, recordings, fifo, gpuVars>>

Advance ==
    /\ ev_done < Len(ring) /\ ring[ev_done + 1] \in reached
    /\ ev_done' = ev_done + 1
    /\ UNCHANGED <<phase, calls, schedVars, ring, enqueued, recordings, fifo, gpuVars>>

Done == calls = MaxOps /\ phase = "none" /\ (\A s \in Streams : Empty(s)) /\ UNCHANGED vars

(***************************************************************************)
(* Specification                                                           *)
(***************************************************************************)
Init ==
    /\ phase = "none" /\ calls = 0
    /\ last_stream = "null" /\ chain_toggle = 0
    /\ chain_ev = [i \in {0, 1} |-> 0]
    /\ ring = <<>> /\ ev_done = 0
    /\ enqueued = 0 /\ recordings = <<>> /\ reached = {}
    /\ fifo = [s \in Streams |-> <<>>]
    /\ executing = {} /\ completed = <<>>

Gpu(s) == Start(s) \/ Complete(s) \/ Reach(s) \/ PassWait(s)
Call == (\E kind \in Kinds : Enqueue(kind) \/ EnqueueNothing(kind)) \/ RecordEvent \/ Free
Scheduler == FreeMain \/ FreeGemm \/ PollMain \/ PollGemm \/ Release \/ Advance

Next == (\E s \in Streams : Gpu(s)) \/ Call \/ Scheduler \/ Done

Spec == Init /\ [][Next]_vars

\* The GPU works off both streams, and the scheduler loop keeps turning; no
\* call need ever be made.
FairSpec == Spec /\ (\A s \in Streams : WF_vars(Gpu(s))) /\ WF_vars(Scheduler)

(***************************************************************************)
(* Properties                                                              *)
(***************************************************************************)
\* A client's two streams behave as the one in-order stream of module
\* Colocator ("op N+1 cannot start before op N completes, exactly like one
\* stream", scheduler.cpp): operations run one at a time, in program order.
OneStream == INSTANCE InOrderStream
StaysLinear == OneStream!Spec

\* cudaFree, a synchronous copy and a stream synchronisation are answered
\* only when nothing of the client's is left on either stream.
SyncDrainsBoth == phase = "drained" => Len(completed) = enqueued

\* An event the client recorded, and a completion event, is reached only
\* when everything replayed before it has completed, whichever stream that
\* was on: redirecting cudaEventRecord keeps its meaning.
EventsCoverPriorWork ==
    \A r \in reached : \A op \in 1 .. recordings[r] : op \in ToSet(completed)

\* One completion ring serves both streams: the cursor, which stops at the
\* first event not reached, counts exactly the completed operations as soon
\* as their events are reached, and no event behind it waits uncounted.
CursorIsExact ==
    /\ ev_done <= Len(completed)
    /\ \A e \in DOMAIN ring : ring[e] \in reached =>
          \A d \in 1 .. e : ring[d] \in reached

\* Neither stream waits for ever on the other, and every parked call and
\* every cudaFree is answered.
SyncReturns == phase \in {"parked", "freeing"} ~> phase = "none"
=============================================================================
