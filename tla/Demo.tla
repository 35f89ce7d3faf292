-------------------------------- MODULE Demo --------------------------------
(***************************************************************************)
(* run_demo.py: its modes one after the other, each a way of running one   *)
(* client_body per client.  Composes Launch (who runs a body, and when)    *)
(* with Pipeline (what a body does); the bodies meet at a second barrier.  *)
(* A "plain" launch is any other program that uses the Colocator.          *)
(***************************************************************************)
EXTENDS Launch, Pipeline

CONSTANTS
    RaiseIn,      \* per program, parts of a body that may raise: "setup", "timed"
    DeviceFaults  \* may the error be a sticky one of the device?

ASSUME RaiseAssumption ==
    \A p \in Plans : \A i \in DOMAIN p : RaiseIn[p[i]] \subseteq {"setup", "timed"}
ASSUME FaultsAssumption == DeviceFaults \in BOOLEAN

pipelineVars == <<body, stream>>
vars == <<launchVars, pipelineVars>>

\* Each colocated or streams client has a stream of its own; the clients of
\* seq follow one another on the default stream.
StreamOf(c) == IF program = "seq" THEN 0 ELSE c

\* A call returns: passed through, or served by the scheduler.
Served == Colocated => spc = "running"

(***************************************************************************)
(* A client's function                                                     *)
(***************************************************************************)
Step(c) ==
    /\ cpc[c] = "body" /\ program # "plain" /\ Served /\ ~faulted
    /\ BodyStep(c, StreamOf(c))
    /\ UNCHANGED launchVars

\* run_demo's barrier: of run_colocated or of run_streams; seq has none.
Meet(c) ==
    /\ cpc[c] = "body" /\ body[c].pc = "barrier" /\ program \in {"demo", "streams"}
    /\ EnterBarrier(c, "demo", "atDemo", "passed")
    /\ UNCHANGED <<mainVars, schedVars, countVars, pipelineVars>>

PassDemo(c) ==
    /\ cpc[c] = "atDemo"
    /\ LeaveBarrier(c, "demo", "passed")
    /\ UNCHANGED <<mainVars, schedVars, countVars, pipelineVars>>

Go(c) ==
    /\ cpc[c] = "passed" \/ (cpc[c] = "body" /\ program = "seq")
    /\ StartTimed(c)
    /\ cpc' = [cpc EXCEPT ![c] = "body"]
    /\ UNCHANGED <<mainVars, schedVars, countVars, errors, barrier, arrived>>

Return(c) ==
    /\ cpc[c] = "body" /\ Served /\ ~faulted
    /\ program = "plain" \/ body[c].pc = "over"
    /\ cpc' = [cpc EXCEPT ![c] = "exited"]
    /\ IF Colocated THEN CountCalls(c) ELSE UNCHANGED <<submitted, issued>>
    /\ UNCHANGED <<mainVars, schedVars, faulted, errors, barrier, arrived, pipelineVars>>

Part(c) == IF body[c].section = "timed" THEN {"timed"}
           ELSE IF program = "plain" THEN {"setup", "timed"} ELSE {"setup"}

\* The function raises in the middle of a part, for a reason of its own or
\* because of a CUDA error; a sticky one makes every later call fail too.
\* In seq the main thread runs it, and nothing catches what it raises.
RaiseOwn(c) ==
    /\ cpc[c] = "body" /\ Served
    /\ faulted \/ Part(c) \cap RaiseIn[program] # {}
    /\ faulted' \in IF DeviceFaults THEN {faulted, TRUE} ELSE {faulted}
    /\ Raise(c, "own")
    /\ IF Colocated THEN CountCalls(c) ELSE UNCHANGED <<submitted, issued>>
    /\ IF program = "seq" THEN mpc' = "raised" /\ raised' = "own" ELSE UNCHANGED <<mpc, raised>>
    /\ UNCHANGED <<spawned, plan, launches, schedVars, barrier, arrived, pipelineVars>>

\* run_streams' worker: it aborts the barrier that the functions meet at.
WorkerHandle(c) ==
    /\ cpc[c] = "handler" /\ program = "streams"
    /\ barrier' = [barrier EXCEPT !["demo"] = "broken"]
    /\ cpc' = [cpc EXCEPT ![c] = "exited"]
    /\ UNCHANGED <<errors, arrived, mainVars, schedVars, countVars, pipelineVars>>

(***************************************************************************)
(* Main thread: run_seq and run_streams (run_colocated is Launch)          *)
(***************************************************************************)
StartWorkers ==
    /\ Begin({"streams"})
    /\ mpc' = "spawning" /\ cpc' = [c \in Client |-> "none"]
    /\ body' = [c \in Client |-> FreshBody(c)]
    /\ UNCHANGED <<schedVars, countVars, stream>>

RunWorker(c) ==
    /\ cpc[c] = "born" /\ program = "streams"
    /\ cpc' = [cpc EXCEPT ![c] = "body"]
    /\ UNCHANGED <<mainVars, schedVars, countVars, errors, barrier, arrived, pipelineVars>>

JoinWorkers ==
    /\ mpc = "joining" /\ program = "streams"
    /\ \A c \in Client : cpc[c] = "exited"
    /\ raised' = IF \E c \in Client : errors[c] # "none" THEN errors[FirstError] ELSE "none"
    /\ mpc' = IF raised' = "none" THEN "returned" ELSE "raised"
    /\ UNCHANGED <<spawned, plan, launches, schedVars, clientVars, countVars, pipelineVars>>

\* `spawned` counts the clients that have had their turn.
StartSeq ==
    /\ Begin({"seq"})
    /\ mpc' = "turns" /\ cpc' = [c \in Client |-> IF c = 0 THEN "body" ELSE "none"]
    /\ body' = [c \in Client |-> FreshBody(c)]
    /\ UNCHANGED <<schedVars, countVars, stream>>

\* Mutant: run_seq does not synchronize behind a client.
NextTurnUnsynced ==
    /\ mpc = "turns" /\ cpc[spawned] = "exited"
    /\ spawned' = spawned + 1
    /\ IF spawned' < NumClients
       THEN cpc' = [cpc EXCEPT ![spawned'] = "body"] /\ UNCHANGED mpc
       ELSE mpc' = "returned" /\ UNCHANGED cpc
    /\ UNCHANGED <<raised, plan, launches, schedVars, countVars, errors, barrier, arrived, pipelineVars>>

\* torch.cuda.synchronize behind each client: the device, not one stream.
NextTurn ==
    /\ mpc = "turns" /\ cpc[spawned] = "exited"
    /\ \A s \in Client : stream[s] = <<>>
    /\ spawned' = spawned + 1
    /\ IF spawned' < NumClients
       THEN cpc' = [cpc EXCEPT ![spawned'] = "body"] /\ UNCHANGED mpc
       ELSE mpc' = "returned" /\ UNCHANGED cpc
    /\ UNCHANGED <<raised, plan, launches, schedVars, countVars, errors, barrier, arrived, pipelineVars>>

(***************************************************************************)
(* Specification                                                           *)
(***************************************************************************)
\* Launch's own steps; run_colocated makes its clients anew.
MainNext ==
    /\ LaunchNext(\A s \in Client : stream[s] = <<>>)
    /\ UNCHANGED pipelineVars

StartLaunch == Setup /\ body' = [c \in Client |-> FreshBody(c)] /\ UNCHANGED stream

Over == mpc = "raised" \/ (mpc \in {"idle", "returned"} /\ launches = Len(plan))
Done == Over /\ UNCHANGED vars

GpuStep(s) == Retire(s) /\ UNCHANGED launchVars

ClientNext(c) ==
    \/ RunClient(c) /\ UNCHANGED pipelineVars
    \/ RunWorker(c) \/ Step(c) \/ Meet(c) \/ PassDemo(c) \/ Go(c) \/ Return(c)
    \/ RaiseOwn(c) \/ WorkerHandle(c)

Init ==
    /\ InitLaunch
    /\ body = [c \in Client |-> FreshBody(c)]
    /\ stream = [s \in Client |-> <<>>]

Next ==
    \/ \E c \in Client : ClientNext(c) \/ GpuStep(c)
    \/ SchedNext /\ UNCHANGED pipelineVars
    \/ StartLaunch \/ StartWorkers \/ StartSeq
    \/ MainNext \/ JoinWorkers \/ NextTurn
    \/ Done

\* Every thread is an OS thread that keeps running, the GPU executes what is
\* enqueued; nothing obliges the process to begin the next program.
Fairness ==
    /\ WF_vars(MainNext) /\ WF_vars(JoinWorkers) /\ WF_vars(NextTurn)
    /\ WF_vars(SchedNext /\ UNCHANGED pipelineVars)
    /\ \A c \in Client : WF_vars(ClientNext(c)) /\ WF_vars(GpuStep(c))

Spec == Init /\ [][Next]_vars
FairSpec == Spec /\ Fairness

(***************************************************************************)
(* Properties                                                              *)
(***************************************************************************)
\* No client calls into a scheduler that has gone or never came: its
\* interposer would spin until the 30 s watchdog aborts the process.
SchedulerServes ==
    Colocated => \A c \in Client : cpc[c] = "body" => spc = "running" /\ ~stop

\* launch "owns the scheduler thread ... for one run": when it is over,
\* normally or by an exception, no scheduler thread is left spinning, unless
\* the device itself failed and torch.cuda.synchronize raised.
NoOrphanScheduler ==
    mpc \in {"returned", "raised"} => spc \in {"none", "exited"} \/ raised = "cuda"

\* "Two in-flight iterations never race on the same memory" (README): their
\* result buffers differ, through calibration, checks, warm-up and timing.
SlotsExclusive ==
    \A c \in Client : \A x, y \in InFlight(c, StreamOf(c)) : x.slot = y.slot => x = y

\* check() reads the result of the iteration it has just run.
CheckReadsItsOwn ==
    \A c \in Client : body[c].pc = "read" =>
       body[c].out[(body[c].slot + Depth - 1) % Depth] = body[c].launched

\* The timed sections start together, and clean: while any client is in its
\* own, every other has crossed or reached the barrier, and no stream still
\* runs an iteration of a calibration, a check or a warm-up.
TimedTogether ==
    program \in {"demo", "streams"} =>
       \A c, d \in Client : body[c].section = "timed" =>
          /\ body[d].section \in {"timed", "over"} \/ body[d].pc = "barrier"
          /\ \A x \in ToSet(stream[d]) : x.item = "reset" \/ x.section = "timed"

\* A mode's time window closes with nothing of it on the GPU, but for the
\* state llmdecode restores behind its last drain in the streams mode.
ModeEndsDrained ==
    mpc = "returned" => \A s \in Client : \A x \in ToSet(stream[s]) :
       program = "streams" /\ x.item = "reset"

\* A mode comes to an end, whatever its clients do.
LaunchEnds == mpc \notin {"idle", "returned", "raised"} ~> mpc \in {"returned", "raised"}

\* A client that fails makes its mode raise.
ErrorsSurface == \A c \in Client : errors[c] # "none" ~> mpc = "raised"
=============================================================================
