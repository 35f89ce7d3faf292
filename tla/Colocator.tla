----------------------------- MODULE Colocator -----------------------------
(***************************************************************************)
(* The managed colocation pipeline: client threads inside the interposers  *)
(* of libcolocator, the scheduler thread of libsched, the GPU streams they *)
(* feed, and the frontend thread that ends the run.                        *)
(*                                                                         *)
(*  - a client pushes a pointer to a record on its own stack and spins on  *)
(*    the record's state (intercept.cpp, submit_and_wait);                 *)
(*  - the scheduler loop (scheduler.cpp, col_run) polls parked sync        *)
(*    records, advances the completion cursors, peeks each queue under     *)
(*    that queue's own mutex, asks the policy, replays one record and only *)
(*    then pops it;                                                        *)
(*  - a stream finishes its operations in the order they were enqueued.    *)
(*                                                                         *)
(* One stream per client: the SM limit's second stream is not part of this *)
(* module.  A record is named by its op_id; pointers to records are ids.   *)
(***************************************************************************)
EXTENDS Policy, Sequences, FiniteSets

CONSTANTS
    NumClients,  \* clients of the run (col_setup's num_clients)
    PolicyName,  \* COLOCATOR_POLICY
    Threshold,   \* COLOCATOR_THROTTLE
    Ring,        \* kEventRing, small
    MaxOps,      \* bound: intercepted calls per client
    Kinds,       \* the kinds of call the clients make
    Failures     \* may CUDA calls and queries return errors?

ASSUME ClientsAssumption == NumClients \in 1..kMaxClients
ASSUME PolicyAssumption == PolicyName \in {"fcfs", "throttle"} /\ Threshold \in Nat
ASSUME RingAssumption == Ring \in Nat \ {0}
ASSUME WorkAssumption == MaxOps \in Nat /\ Kinds \subseteq OpKind /\ Failures \in BOOLEAN

Client == 0 .. NumClients - 1

\* The outcomes of a CUDA runtime call that does not query.
CallResults == IF Failures THEN {"success", "error"} ELSE {"success"}

VARIABLES
    cpc,           \* where each client thread is
    rec,           \* the FuncRecord in its interposer's stack frame
    q,             \* ClientSlot.q: pointers to records
    submitted,     \* ClientSlot.submitted
    spc,           \* where the scheduler thread is
    scan,          \* its loop variable over clients
    heads,         \* col_run's snapshot of the queue heads
    pick,          \* the client it is serving, or Null
    stream_op,     \* execute's local: did the record enqueue work?
    final_state,   \* execute's local: the state to store, Null = parked
    pending_sync, issued, ev_issued, ev_done, stop,   \* Sched's fields
    events,        \* events[c][slot]: stream position the event captured
    log,           \* Sched.log, per client: the op_ids in the order logged
    stream,        \* what was enqueued on each client's stream
    finished,      \* how much of it the GPU has finished
    mpc            \* where Colocator.launch is, after the threads started

clientVars == <<cpc, rec, q, submitted>>
execVars   == <<stream_op, final_state>>
schedVars  == <<pending_sync, issued, log>>
evVars     == <<events, ev_issued, ev_done>>
gpuVars    == <<stream, finished>>
mainVars   == <<stop, mpc>>
vars == <<clientVars, spc, scan, heads, pick, execVars, schedVars, evVars,
          gpuVars, mainVars>>

(***************************************************************************)
(* Derived state                                                           *)
(***************************************************************************)
InCall(c) == cpc[c] \in {"pushing", "spinning"}

\* What the policies throttle on, and col_in_flight returns.
InFlight(c) == ev_issued[c] - ev_done[c]

\* What the GPU really still has to do for c.
Outstanding(c) == Len(stream[c]) - finished[c]

Drained(c) == Outstanding(c) = 0

(***************************************************************************)
(* Client threads                                                          *)
(***************************************************************************)
\* CLOCK_MONOTONIC_RAW, kept to the order of the stamps in use: a new stamp
\* is at or just after the latest of the calls in progress.
FreshStamp(t) ==
    LET inUse == {d \in Client : InCall(d)}
    IN  /\ \A d \in inUse : rec[d].t <= t
        /\ t = 0 \/ \E d \in inUse : t <= rec[d].t + 1

\* An interposer fills its record and enters submit_and_wait: op_id, stamp.
Call(c, kind) ==
    /\ cpc[c] = "running"
    /\ submitted[c] < MaxOps
    /\ \E t \in 0 .. NumClients * MaxOps :
         /\ FreshStamp(t)
         /\ rec' = [rec EXCEPT ![c] = FuncRecord(submitted[c], kind, t)]
    /\ submitted' = [submitted EXCEPT ![c] = @ + 1]
    /\ cpc' = [cpc EXCEPT ![c] = "pushing"]
    /\ UNCHANGED <<q, spc, scan, heads, pick, execVars, schedVars, evVars,
                   gpuVars, mainVars>>

Push(c) ==
    /\ cpc[c] = "pushing"
    /\ q' = [q EXCEPT ![c] = Append(@, rec[c].op_id)]
    /\ cpc' = [cpc EXCEPT ![c] = "spinning"]
    /\ UNCHANGED <<rec, submitted, spc, scan, heads, pick, execVars, schedVars,
                   evVars, gpuVars, mainVars>>

\* The spin ends: the interposer returns and its frame is gone.
Return(c) ==
    /\ cpc[c] = "spinning"
    /\ rec[c].state >= WaitState(rec[c].kind)
    /\ rec' = [rec EXCEPT ![c] = NoCall]
    /\ cpc' = [cpc EXCEPT ![c] = "running"]
    /\ UNCHANGED <<q, submitted, spc, scan, heads, pick, execVars, schedVars,
                   evVars, gpuVars, mainVars>>

\* The client's function returns or raises; either way its thread ends.
Exit(c) ==
    /\ cpc[c] = "running"
    /\ cpc' = [cpc EXCEPT ![c] = "exited"]
    /\ UNCHANGED <<rec, q, submitted, spc, scan, heads, pick, execVars, schedVars,
                   evVars, gpuVars, mainVars>>

(***************************************************************************)
(* GPU                                                                     *)
(***************************************************************************)
Finish(c) ==
    /\ ~Drained(c)
    /\ finished' = [finished EXCEPT ![c] = @ + 1]
    /\ UNCHANGED <<clientVars, spc, scan, heads, pick, execVars, schedVars,
                   evVars, stream, mainVars>>

\* cudaStreamQuery on c's stream.
StreamQuery(c) ==
    (IF Drained(c) THEN {"success"} ELSE {"notReady"})
      \cup (IF Failures THEN {"error"} ELSE {})

\* Where in its client's ring a sequence number's event lives.
Slot(s) == s % Ring

\* cudaEventQuery of the event in the slot of sequence number s succeeds.
EventDone(c, s) == events[c][Slot(s)] <= finished[c]

(***************************************************************************)
(* Scheduler thread: the loop of col_run                                   *)
(***************************************************************************)
\* The next step of a loop over the clients: the next client, or `after`.
ScanThen(after) ==
    IF scan + 1 < NumClients
    THEN scan' = scan + 1 /\ spc' = spc
    ELSE scan' = 0 /\ spc' = after

CheckStop ==
    /\ spc = "loop"
    /\ spc' = IF stop THEN "drain" ELSE "poll"
    /\ UNCHANGED <<clientVars, scan, heads, pick, execVars, schedVars, evVars,
                   gpuVars, mainVars>>

\* poll_pending_syncs, one client: nothing parked.
PollNothing(c) ==
    /\ spc = "poll" /\ scan = c
    /\ pending_sync[c] = Null
    /\ ScanThen("advance")
    /\ UNCHANGED <<clientVars, heads, pick, execVars, schedVars, evVars,
                   gpuVars, mainVars>>

\* poll_pending_syncs, one client: a record is parked on its stream.
PollParked(c) ==
    /\ spc = "poll" /\ scan = c
    /\ pending_sync[c] # Null
    /\ \E result \in StreamQuery(c) :
         IF result = "notReady"
         THEN UNCHANGED <<rec, pending_sync>>
         ELSE /\ rec' = [rec EXCEPT
                           ![c].ret = IF @ = "success" THEN result ELSE @,
                           ![c].state = DONE]
              /\ pending_sync' = [pending_sync EXCEPT ![c] = Null]
    /\ ScanThen("advance")
    /\ UNCHANGED <<cpc, q, submitted, heads, pick, execVars, issued, log, evVars,
                   gpuVars, mainVars>>

\* Mutant: `<=` for `<`, the cursor may pass the last event issued.
CursorStopsPastEnd(c) ==
    {s \in ev_done[c] .. ev_issued[c] + 1 :
        /\ \A e \in ev_done[c] .. s - 1 : EventDone(c, e)
        /\ s = ev_issued[c] + 1 \/ ~EventDone(c, s)}

\* Mutant: the cursor never moves.
CursorStopsNever(c) == {ev_done[c]}

\* The values c's completion cursor can stop at: past events that are done,
\* at one that is not, at the end, or (an error) at any event in between.
CursorStops(c) ==
    {s \in ev_done[c] .. ev_issued[c] :
        /\ \A e \in ev_done[c] .. s - 1 : EventDone(c, e)
        /\ s = ev_issued[c] \/ ~EventDone(c, s) \/ Failures}

AdvanceCursor(c) ==
    \E s \in CursorStops(c) : ev_done' = [ev_done EXCEPT ![c] = s]

\* advance_completion returns at once: less than 30 us since the last poll.
SkipAdvance ==
    /\ spc = "advance" /\ scan = 0
    /\ spc' = "peek"
    /\ UNCHANGED <<clientVars, scan, heads, pick, execVars, schedVars, evVars,
                   gpuVars, mainVars>>

Advance(c) ==
    /\ spc = "advance" /\ scan = c
    /\ AdvanceCursor(c)
    /\ ScanThen("peek")
    /\ UNCHANGED <<clientVars, heads, pick, execVars, schedVars, events, ev_issued,
                   gpuVars, mainVars>>

\* One queue's head, read under that queue's mutex and no other.
Peek(c) ==
    /\ spc = "peek" /\ scan = c
    /\ heads' = [heads EXCEPT ![c] = IF q[c] = <<>> THEN Null ELSE Head(q[c])]
    /\ ScanThen("pick")
    /\ UNCHANGED <<clientVars, pick, execVars, schedVars, evVars, gpuVars, mainVars>>

\* Clients the policy may serve now.
Eligible ==
    Candidates(PolicyName, {i \in Client : heads[i] # Null},
               [i \in Client |-> rec[i].kind],
               [i \in Client |-> InFlight(i)], Threshold)

\* The snapshot is dead once the loop restarts: every head is overwritten
\* before it is read again.
ForgetHeads == heads' = [c \in Client |-> Null]

\* Mutant: an idle turn peeks again without polling or advancing.
IdlePeeksAgain ==
    /\ spc = "pick"
    /\ Eligible = {}
    /\ ForgetHeads
    /\ spc' = "peek"
    /\ UNCHANGED <<clientVars, scan, pick, execVars, schedVars, evVars,
                   gpuVars, mainVars>>

\* No head, or every head held: back to the top of the loop.
Idle ==
    /\ spc = "pick"
    /\ Eligible = {}
    /\ ForgetHeads
    /\ spc' = "loop"
    /\ UNCHANGED <<clientVars, scan, pick, execVars, schedVars, evVars,
                   gpuVars, mainVars>>

PickNext(c) ==
    /\ spc = "pick"
    /\ Chosen(c, Eligible, [i \in Client |-> rec[i].t])
    /\ pick' = c
    /\ spc' = "call"
    /\ UNCHANGED <<clientVars, scan, heads, execVars, schedVars, evVars,
                   gpuVars, mainVars>>

(***************************************************************************)
(* Scheduler thread: execute(pick, heads[pick])                            *)
(***************************************************************************)
\* The part every branch of execute's switch shares.
Executing(c, kinds) ==
    /\ spc = "call" /\ pick = c
    /\ rec[c].kind \in kinds
    /\ spc' = "event"
    /\ UNCHANGED <<cpc, q, submitted, scan, heads, pick, issued, log, evVars,
                   finished, mainVars>>

\* Mutant: the real call goes to the first client's stream.
EnqueueOnFirst(c, result) ==
    /\ stream' = IF result = "success"
                 THEN [stream EXCEPT ![0] = Append(@, heads[c])]
                 ELSE stream
    /\ stream_op' = (result = "success")
    /\ rec' = [rec EXCEPT ![c].ret = result]

\* The real call enqueues c's record on c's stream, or fails.
Enqueue(c, result) ==
    /\ stream' = IF result = "success"
                 THEN [stream EXCEPT ![c] = Append(@, heads[c])]
                 ELSE stream
    /\ stream_op' = (result = "success")
    /\ rec' = [rec EXCEPT ![c].ret = result]

\* KernelLaunch, MemcpyAsync, MemsetAsync, CublasGemmEx, CublasSgemm
ExecuteAsync(c) ==
    /\ Executing(c, AsyncKinds \ {"EventRecord"})
    /\ \E result \in CallResults : Enqueue(c, result)
    /\ final_state' = ISSUED
    /\ UNCHANGED pending_sync

\* Mutant: the record is parked and its state is stored as well.
ExecuteSyncCopyStores(c) ==
    /\ Executing(c, {"Memcpy", "Memset"})
    /\ \E result \in CallResults :
         /\ Enqueue(c, result)
         /\ final_state' = DONE
         /\ pending_sync' = IF result = "success"
                            THEN [pending_sync EXCEPT ![c] = heads[c]]
                            ELSE pending_sync

\* Memcpy, Memset: enqueued like the async variant, then parked.
ExecuteSyncCopy(c) ==
    /\ Executing(c, {"Memcpy", "Memset"})
    /\ \E result \in CallResults :
         /\ Enqueue(c, result)
         /\ final_state' = IF result = "success" THEN Null ELSE DONE
         /\ pending_sync' = IF result = "success"
                            THEN [pending_sync EXCEPT ![c] = heads[c]]
                            ELSE pending_sync

ExecuteMalloc(c) ==
    /\ Executing(c, {"Malloc"})
    /\ \E result \in CallResults : rec' = [rec EXCEPT ![c].ret = result]
    /\ stream_op' = FALSE
    /\ final_state' = DONE
    /\ UNCHANGED <<pending_sync, stream>>

\* Mutant: cudaFree without the cudaStreamSynchronize before it.
ExecuteFreeUnordered(c) ==
    /\ Executing(c, {"Free"})
    /\ \E result \in CallResults : rec' = [rec EXCEPT ![c].ret = result]
    /\ stream_op' = FALSE
    /\ final_state' = DONE
    /\ UNCHANGED <<pending_sync, stream>>

\* cudaStreamSynchronize then cudaFree: the scheduler thread blocks here
\* until the client's stream drains.
ExecuteFree(c) ==
    /\ Executing(c, {"Free"})
    /\ \E result \in CallResults :
         /\ result = "success" => Drained(c)
         /\ rec' = [rec EXCEPT ![c].ret = result]
    /\ stream_op' = FALSE
    /\ final_state' = DONE
    /\ UNCHANGED <<pending_sync, stream>>

\* Nothing to issue: DONE comes from poll_pending_syncs.
ExecuteStreamSync(c) ==
    /\ Executing(c, {"StreamSync"})
    /\ rec' = [rec EXCEPT ![c].ret = "success"]
    /\ pending_sync' = [pending_sync EXCEPT ![c] = heads[c]]
    /\ stream_op' = FALSE
    /\ final_state' = Null
    /\ UNCHANGED stream

\* The client's event is recorded on its stream; no stream work is counted.
ExecuteEventRecord(c) ==
    /\ Executing(c, {"EventRecord"})
    /\ \E result \in CallResults : rec' = [rec EXCEPT ![c].ret = result]
    /\ stream_op' = FALSE
    /\ final_state' = ISSUED
    /\ UNCHANGED <<pending_sync, stream>>

\* record_completion_event's early return.
RingFull(c) == InFlight(c) >= Ring

\* After the switch: record_completion_event, when the record was a stream op.
RecordEvent(c) ==
    /\ spc = "event" /\ pick = c
    /\ IF stream_op /\ ~RingFull(c)
       THEN /\ events' = [events EXCEPT ![c][Slot(ev_issued[c])] = Len(stream[c])]
            /\ ev_issued' = [ev_issued EXCEPT ![c] = @ + 1]
       ELSE UNCHANGED <<events, ev_issued>>
    /\ stream_op' = FALSE
    /\ spc' = "store"
    /\ UNCHANGED <<clientVars, scan, heads, pick, final_state, schedVars, ev_done,
                   gpuVars, mainVars>>

\* The state store, the last touch of the record: its client may now return.
StoreState(c) ==
    /\ spc = "store" /\ pick = c
    /\ rec' = IF final_state # Null THEN [rec EXCEPT ![c].state = final_state] ELSE rec
    /\ final_state' = Null
    /\ spc' = "account"
    /\ UNCHANGED <<cpc, q, submitted, scan, heads, pick, stream_op, schedVars, evVars,
                   gpuVars, mainVars>>

\* Mutant: only stream operations are logged.
AccountStreamWorkOnly(c) ==
    /\ spc = "account" /\ pick = c
    /\ issued' = [issued EXCEPT ![c] = @ + 1]
    /\ log' = IF AddsStreamWork(rec[c].kind)
              THEN [log EXCEPT ![c] = Append(@, heads[c])] ELSE log
    /\ spc' = "pop"
    /\ UNCHANGED <<clientVars, scan, heads, pick, execVars, pending_sync, evVars,
                   gpuVars, mainVars>>

\* issued[client]++ and log.push_back, for failed calls too.
Account(c) ==
    /\ spc = "account" /\ pick = c
    /\ issued' = [issued EXCEPT ![c] = @ + 1]
    /\ log' = [log EXCEPT ![c] = Append(@, heads[c])]
    /\ spc' = "pop"
    /\ UNCHANGED <<clientVars, scan, heads, pick, execVars, pending_sync, evVars,
                   gpuVars, mainVars>>

\* Mutant: the record is left in the queue.
PopNothing(c) ==
    /\ spc = "pop" /\ pick = c
    /\ ForgetHeads
    /\ pick' = Null
    /\ spc' = "loop"
    /\ UNCHANGED <<clientVars, scan, execVars, schedVars, evVars, gpuVars, mainVars>>

\* Back in col_run: pop after execute.
Pop(c) ==
    /\ spc = "pop" /\ pick = c
    /\ q' = [q EXCEPT ![c] = Tail(@)]
    /\ ForgetHeads
    /\ pick' = Null
    /\ spc' = "loop"
    /\ UNCHANGED <<cpc, rec, submitted, scan, execVars, schedVars, evVars,
                   gpuVars, mainVars>>

\* After the loop: advance_completion(true).
DrainCursor(c) ==
    /\ spc = "drain" /\ scan = c
    /\ AdvanceCursor(c)
    /\ ScanThen("exited")
    /\ UNCHANGED <<clientVars, heads, pick, execVars, schedVars, events, ev_issued,
                   gpuVars, mainVars>>

(***************************************************************************)
(* Frontend thread: the end of Colocator.launch                            *)
(***************************************************************************)
\* Mutant: col_stop without torch.cuda.synchronize before it.
StopSchedulerUnsynced ==
    /\ mpc = "joining"
    /\ \A c \in Client : cpc[c] = "exited"
    /\ stop' = TRUE
    /\ mpc' = "stopping"
    /\ UNCHANGED <<clientVars, spc, scan, heads, pick, execVars, schedVars, evVars, gpuVars>>

\* Every client joined; torch.cuda.synchronize; col_stop.
StopScheduler ==
    /\ mpc = "joining"
    /\ \A c \in Client : cpc[c] = "exited" /\ Drained(c)
    /\ stop' = TRUE
    /\ mpc' = "stopping"
    /\ UNCHANGED <<clientVars, spc, scan, heads, pick, execVars, schedVars, evVars, gpuVars>>

\* sched_thread.join, then submitted is compared with issued.
JoinScheduler ==
    /\ mpc = "stopping"
    /\ spc = "exited"
    /\ mpc' = IF \A c \in Client : submitted[c] = issued[c] THEN "returned" ELSE "raised"
    /\ UNCHANGED <<clientVars, spc, scan, heads, pick, execVars, schedVars, evVars,
                   gpuVars, stop>>

Finished == mpc \in {"returned", "raised"} /\ UNCHANGED vars

(***************************************************************************)
(* Specification                                                           *)
(***************************************************************************)
Init ==
    /\ cpc = [c \in Client |-> "running"]
    /\ rec = [c \in Client |-> NoCall]
    /\ q = [c \in Client |-> <<>>]
    /\ submitted = [c \in Client |-> 0]
    /\ spc = "loop" /\ scan = 0 /\ pick = Null
    /\ heads = [c \in Client |-> Null]
    /\ stream_op = FALSE /\ final_state = Null
    /\ pending_sync = [c \in Client |-> Null]
    /\ issued = [c \in Client |-> 0]
    /\ log = [c \in Client |-> <<>>]
    /\ events = [c \in Client |-> [s \in 0 .. Ring - 1 |-> 0]]
    /\ ev_issued = [c \in Client |-> 0]
    /\ ev_done = [c \in Client |-> 0]
    /\ stream = [c \in Client |-> <<>>]
    /\ finished = [c \in Client |-> 0]
    /\ stop = FALSE /\ mpc = "joining"

ClientNext(c) == (\E kind \in Kinds : Call(c, kind)) \/ Push(c) \/ Return(c) \/ Exit(c)

Execute(c) ==
    \/ ExecuteAsync(c) \/ ExecuteSyncCopy(c) \/ ExecuteMalloc(c) \/ ExecuteFree(c)
    \/ ExecuteStreamSync(c) \/ ExecuteEventRecord(c)
    \/ RecordEvent(c) \/ StoreState(c) \/ Account(c)

SchedulerNext ==
    \/ CheckStop \/ SkipAdvance \/ Idle
    \/ \E c \in Client :
         \/ PollNothing(c) \/ PollParked(c) \/ Advance(c) \/ Peek(c)
         \/ PickNext(c) \/ Execute(c) \/ Pop(c) \/ DrainCursor(c)

Next ==
    \/ \E c \in Client : ClientNext(c) \/ Finish(c)
    \/ SchedulerNext
    \/ StopScheduler \/ JoinScheduler \/ Finished

Spec == Init /\ [][Next]_vars

(***************************************************************************)
(* Fairness.  Every thread is an OS thread that spins or runs, so each     *)
(* step it can take is eventually taken; the clients' functions return;    *)
(* the GPU makes progress on every stream.  The rate limit of              *)
(* advance_completion looks at the clock, and a loop that keeps coming     *)
(* back finds 30 us elapsed again and again: strong fairness.              *)
(***************************************************************************)
Fairness ==
    /\ WF_vars(SchedulerNext) /\ WF_vars(StopScheduler) /\ WF_vars(JoinScheduler)
    /\ \A c \in Client : WF_vars(ClientNext(c)) /\ WF_vars(Finish(c))
    /\ SF_vars(Advance(0))

FairSpec == Spec /\ Fairness

(***************************************************************************)
(* Invariants                                                              *)
(***************************************************************************)
Frames ==
    [op_id : Nat \cup {Null}, kind : Kinds \cup {"none"}, t : Nat,
     state : {QUEUED, ISSUED, DONE}, ret : {"success", "error"}]

ClientTypeOK ==
    /\ cpc \in [Client -> {"running", "pushing", "spinning", "exited"}]
    /\ rec \in [Client -> Frames]
    /\ q \in [Client -> Seq(Nat)]
    /\ submitted \in [Client -> Nat]

LoopTypeOK ==
    /\ spc \in {"loop", "poll", "advance", "peek", "pick", "call", "event", "store",
                 "account", "pop", "drain", "exited"}
    /\ scan \in Client
    /\ heads \in [Client -> Nat \cup {Null}]
    /\ pick \in Client \cup {Null}
    /\ stream_op \in BOOLEAN
    /\ final_state \in {ISSUED, DONE, Null}

ReplayTypeOK ==
    /\ pending_sync \in [Client -> Nat \cup {Null}]
    /\ issued \in [Client -> Nat]
    /\ log \in [Client -> Seq(Nat)]

EventTypeOK ==
    /\ events \in [Client -> [0 .. Ring - 1 -> Nat]]
    /\ ev_issued \in [Client -> Nat]
    /\ ev_done \in [Client -> Nat]
    /\ \A c \in Client : ev_done[c] <= ev_issued[c]

GpuTypeOK ==
    /\ stream \in [Client -> Seq(Nat)]
    /\ finished \in [Client -> Nat]
    /\ \A c \in Client : finished[c] <= Len(stream[c])

MainTypeOK ==
    /\ stop \in BOOLEAN
    /\ mpc \in {"joining", "stopping", "returned", "raised"}

\* Every variable has its type; no cursor passes what it counts.
TypeOK ==
    /\ ClientTypeOK /\ LoopTypeOK /\ ReplayTypeOK
    /\ EventTypeOK /\ GpuTypeOK /\ MainTypeOK

\* The pointer `id` still points into c's interposer frame, unserved.
Alive(c, id) ==
    /\ cpc[c] = "spinning"
    /\ rec[c].op_id = id
    /\ rec[c].state = QUEUED

\* No dangling pointer: every head the scheduler dereferences (while it picks,
\* for all clients; while it executes, for the one picked) is a record whose
\* client still spins on it and that nothing has served or parked.
\* The lifetime contract of records.h against col_run's unlocked snapshot.
HeadsAlive ==
    \A c \in Client :
       heads[c] # Null =>
         /\ spc \in {"pick", "call"} => Alive(c, heads[c]) /\ pending_sync[c] = Null
         /\ spc \in {"event", "store"} /\ pick = c => Alive(c, heads[c])

\* A parked record is the one its client is blocked on, of a kind that parks,
\* so poll_pending_syncs stores into a live frame and no second record can be
\* parked over it ("at most one per client", scheduler.cpp).
ParkedAlive ==
    \A c \in Client :
       pending_sync[c] # Null =>
         /\ Alive(c, pending_sync[c])
         /\ rec[c].kind \in {"Memcpy", "Memset", "StreamSync"}

\* Each client's calls are replayed in program order, each exactly once, the
\* failed ones included in the log; its stream holds a subsequence of them.
ReplayedInOrder ==
    \A c \in Client :
       /\ Len(log[c]) = issued[c]
       /\ \A i \in DOMAIN log[c] : log[c][i] = i - 1
       /\ \A i, j \in DOMAIN stream[c] : i < j => stream[c][i] < stream[c][j]

\* The synchronous calls that promise "my work so far is done".
DrainingKinds == {"Memcpy", "Memset", "StreamSync", "Free"}

\* A synchronising call that succeeded is released to its client only when
\* nothing the client ever enqueued is still running.
SyncMeansDrained ==
    \A c \in Client :
       /\ cpc[c] = "spinning"
       /\ rec[c].state = DONE /\ rec[c].ret = "success"
       /\ rec[c].kind \in DrainingKinds
       => Drained(c)

\* SchedState.in_flight never shows less than the GPU really holds, except
\* between the real call and its completion event.  (Needs the ring never to
\* be full; the throttle keeps it so, fcfs does not: RingOverflow.cfg.)
CountsEverything ==
    \A c \in Client :
       ~(spc = "event" /\ pick = c) => Outstanding(c) <= InFlight(c)

\* ThrottledFcfsPolicy's promise, against the GPU and not against the cursor:
\* no stream ever holds more than `threshold` unfinished operations.
ThrottleCaps ==
    PolicyName = "throttle" => \A c \in Client : Outstanding(c) <= Threshold

\* col_run pops after execute, so a released client can push its next record
\* while the old one is still at the front; never more than that one.
QueueDepthAtMostTwo == \A c \in Client : Len(q[c]) <= 2

\* When launch returns it has not raised its accounting error, and nothing is
\* left behind: queues empty, nothing parked, every call in the log, and the
\* forced advance_completion has seen every completion event.
NothingLeftBehind ==
    /\ mpc # "raised"
    /\ mpc = "returned" =>
         \A c \in Client :
            /\ q[c] = <<>> /\ pending_sync[c] = Null
            /\ Len(log[c]) = submitted[c]
            /\ ~Failures => InFlight(c) = 0

(***************************************************************************)
(* Action and liveness properties                                          *)
(***************************************************************************)
\* "The state store is the LAST touch of rec": from the moment a client's
\* spin can end, only the client itself changes its record.
UntouchedOnceReleased ==
    [][\A c \in Client :
          cpc[c] = "spinning" /\ rec[c].state >= WaitState(rec[c].kind)
          => rec'[c] \in {rec[c], NoCall}]_vars

\* Every intercepted call returns to its client: no interposer spins forever.
CallsReturn ==
    \A c \in Client : cpc[c] = "pushing" ~> cpc[c] = "running"

\* The run ends: launch gets back from joining the scheduler thread.
LaunchReturns == <>(mpc = "returned")
============================================================================
