------------------------------ MODULE Pipeline ------------------------------
(***************************************************************************)
(* client_body (run_demo.py) over a workload's pipeline of depth Depth     *)
(* (workload_defs/base.py), as operations of client c on the in-order      *)
(* stream s it works on.  Under the colocator cudaEventRecord returns once *)
(* the event is on that stream, behind the iteration's work                *)
(* (ColocatorImplementsSolo).                                              *)
(***************************************************************************)
EXTENDS Integers, Sequences, SequencesExt, FiniteSets

CONSTANTS
    Depth,      \* DEPTH
    Probes,     \* CALIBRATE_PROBES
    Warmup,     \* WARMUP
    Timed,      \* iterations of the timed loop
    Resetting   \* clients whose drain() ends by restoring state (llmdecode)

ASSUME DepthAssumption == Depth \in Nat \ {0} /\ {Probes, Warmup, Timed} \subseteq Nat

Slots == 0 .. Depth - 1

VARIABLES
    body,    \* per client, where its client_body is
    stream   \* what each stream still has to execute

\* section: calibrate, check, warmup, timed, over; pc: the step within it;
\* todo: iterations the section has still to admit; checks: synchronous ones
\* still to run; events: _events, the iterations whose events are queued;
\* slot: _slot; launched: iterations so far; out[s]: the iteration whose
\* result slot s holds, 0 if none.  llmdecode never calibrates.
FreshBody(c) ==
    [section |-> "calibrate", pc |-> "admit",
     todo |-> IF c \in Resetting THEN 0 ELSE Depth + Probes,
     checks |-> IF c \in Resetting THEN 2 ELSE 1,
     events |-> <<>>, slot |-> 0, launched |-> 0, out |-> [s \in Slots |-> 0]]

Iteration(c) == [item |-> "iteration", client |-> c, id |-> body[c].launched + 1,
                 slot |-> body[c].slot, section |-> body[c].section]
EventOf(c) == [item |-> "event", client |-> c, id |-> body[c].launched,
               slot |-> body[c].slot, section |-> body[c].section]
ResetWork(c) == [item |-> "reset", client |-> c, id |-> 0, slot |-> 0, section |-> "none"]

\* Client c's iterations that are launched and not finished.
InFlight(c, s) == {x \in ToSet(stream[s]) : x.item = "iteration" /\ x.client = c}

\* cudaEventSynchronize returns: the event has been reached.
Reached(c, s, id) ==
    ~\E x \in ToSet(stream[s]) : x.item = "event" /\ x.client = c /\ x.id = id

Put(s, x) == stream' = [stream EXCEPT ![s] = Append(@, x)]

\* The stream's oldest item finishes; an iteration ends by copying its
\* result into the pinned buffer of its slot.
Retire(s) ==
    /\ stream[s] # <<>>
    /\ stream' = [stream EXCEPT ![s] = Tail(@)]
    /\ LET x == Head(stream[s])
       IN  body' = IF x.item = "iteration"
                   THEN [body EXCEPT ![x.client].out[x.slot] = x.id] ELSE body

(***************************************************************************)
(* run_iter                                                                *)
(***************************************************************************)
\* With Depth events queued, wait for the oldest.
Admit(c, s) ==
    /\ body[c].pc = "admit" /\ body[c].todo > 0
    /\ LET full == Len(body[c].events) >= Depth
       IN  /\ full => Reached(c, s, Head(body[c].events))
           /\ body' = [body EXCEPT ![c].pc = "launch",
                                   ![c].events = IF full THEN Tail(@) ELSE @]
    /\ UNCHANGED stream

\* launch_iter, then _slot moves on.
LaunchIter(c, s, next) ==
    /\ Put(s, Iteration(c))
    /\ body' = [body EXCEPT ![c].pc = next, ![c].launched = @ + 1,
                            ![c].slot = (@ + 1) % Depth]

Launch(c, s) == body[c].pc = "launch" /\ LaunchIter(c, s, "record")

\* Mutant: cudaEventRecord is not redirected; on the client's own, empty
\* stream the event is reached at once.
RecordElsewhere(c, s) ==
    /\ body[c].pc = "record"
    /\ body' = [body EXCEPT ![c].pc = "admit", ![c].todo = @ - 1,
                            ![c].events = Append(@, body[c].launched)]
    /\ UNCHANGED stream

Record(c, s) ==
    /\ body[c].pc = "record"
    /\ Put(s, EventOf(c))
    /\ body' = [body EXCEPT ![c].pc = "admit", ![c].todo = @ - 1,
                            ![c].events = Append(@, body[c].launched)]

(***************************************************************************)
(* drain and the sections of client_body                                   *)
(***************************************************************************)
\* Mutant: the synchronisation is missing.
DrainUnsynced(c, s) ==
    stream' = IF c \in Resetting THEN [stream EXCEPT ![s] = Append(@, ResetWork(c))] ELSE stream

\* drain(): the stream is empty when it returns, but for what llmdecode's
\* override enqueues after that.  The callers clear _events.
Drain(c, s) ==
    /\ stream[s] = <<>>
    /\ IF c \in Resetting THEN Put(s, ResetWork(c)) ELSE UNCHANGED stream

Ended(c, section) == body[c].section = section /\ body[c].pc = "admit" /\ body[c].todo = 0

\* calibrate: Depth iterations to fill the pipeline, Probes measured ones.
EndCalibrate(c, s) ==
    /\ Ended(c, "calibrate")
    /\ IF c \in Resetting THEN UNCHANGED stream ELSE Drain(c, s)
    /\ body' = [body EXCEPT ![c].section = "check", ![c].pc = "first_drain", ![c].events = <<>>]

\* run_iter_sync: drain, launch, drain; no event.
FirstDrain(c, s) ==
    /\ body[c].pc = "first_drain"
    /\ Drain(c, s)
    /\ body' = [body EXCEPT ![c].pc = "sync_launch", ![c].events = <<>>]

SyncLaunch(c, s) == body[c].pc = "sync_launch" /\ LaunchIter(c, s, "second_drain")

SecondDrain(c, s) ==
    /\ body[c].pc = "second_drain"
    /\ Drain(c, s)
    /\ body' = [body EXCEPT ![c].pc = "read", ![c].events = <<>>]

\* check() compares the result with the reference; llmdecode's runs twice.
Read(c, s) ==
    /\ body[c].pc = "read"
    /\ body' = IF body[c].checks > 1
               THEN [body EXCEPT ![c].checks = @ - 1, ![c].pc = "first_drain"]
               ELSE [body EXCEPT ![c].section = "warmup", ![c].todo = Warmup, ![c].pc = "admit"]
    /\ UNCHANGED stream

EndWarmup(c, s) ==
    /\ Ended(c, "warmup")
    /\ Drain(c, s)
    /\ body' = [body EXCEPT ![c].pc = "barrier", ![c].events = <<>>]

\* barrier.wait has returned; the clock starts.
StartTimed(c) ==
    /\ body[c].pc = "barrier"
    /\ body' = [body EXCEPT ![c].section = "timed", ![c].todo = Timed, ![c].pc = "admit"]
    /\ UNCHANGED stream

EndTimed(c, s) ==
    /\ Ended(c, "timed")
    /\ Drain(c, s)
    /\ body' = [body EXCEPT ![c].section = "over", ![c].pc = "over", ![c].events = <<>>]

\* Everything client_body does but the barrier.
BodyStep(c, s) ==
    \/ Admit(c, s) \/ Launch(c, s) \/ Record(c, s)
    \/ EndCalibrate(c, s) \/ FirstDrain(c, s) \/ SyncLaunch(c, s) \/ SecondDrain(c, s)
    \/ Read(c, s) \/ EndWarmup(c, s) \/ EndTimed(c, s)
=============================================================================
