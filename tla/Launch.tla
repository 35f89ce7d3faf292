------------------------------- MODULE Launch -------------------------------
(***************************************************************************)
(* Colocator.launch: the main thread, the scheduler thread it starts and   *)
(* stops, and the threads of the clients, which meet at its start barrier. *)
(* What a client's function does between "body" and "exited" is module     *)
(* Demo; what happens inside an intercepted call is module Colocator: here *)
(* it returns as long as the scheduler runs (ColocatorProofs!CleanEnd).    *)
(***************************************************************************)
EXTENDS Integers, Sequences, FiniteSets

CONSTANTS
    NumClients,
    Plans   \* what the main thread runs, one program after the other

ASSUME ClientsAssumption == NumClients \in Nat \ {0}
\* "plain": a launch of functions with no barrier; "demo": run_demo's
\* colocated mode; "seq" and "streams": its modes without a colocator.
ASSUME PlansAssumption == \A p \in Plans : \A i \in DOMAIN p :
    p[i] \in {"plain", "demo", "seq", "streams"}

Client == 0 .. NumClients - 1
Barriers == {"start", "demo"}

VARIABLES
    mpc,        \* where the main thread is
    spawned,    \* client threads started
    raised,     \* what it raised: "none", "accounting", "cuda", or an error
    plan,       \* its programs
    launches,   \* how many of them it has begun
    spc,        \* where the scheduler thread is: none, started, running, exited
    running, stop,   \* Sched's flags
    cpc,        \* where each client thread is
    errors,     \* launch's errors: "none", "own" or "broken" (BrokenBarrierError)
    barrier,    \* threading.Barrier: filling, draining or broken
    arrived,    \* clients that have entered each barrier
    submitted,  \* ClientSlot.submitted, never reset
    issued,     \* Sched.issued, reset by col_setup
    faulted     \* the device carries a sticky error

mainVars   == <<mpc, spawned, raised, plan, launches>>
schedVars  == <<spc, running, stop>>
clientVars == <<cpc, errors, barrier, arrived>>
countVars  == <<submitted, issued, faulted>>
launchVars == <<mainVars, schedVars, clientVars, countVars>>

program == IF launches = 0 THEN "none" ELSE plan[launches]
Colocated == program \in {"plain", "demo"}

(***************************************************************************)
(* Client threads: run_client                                              *)
(***************************************************************************)
Raise(c, error) ==
    /\ errors' = [errors EXCEPT ![c] = error]
    /\ cpc' = [cpc EXCEPT ![c] = "handler"]

\* Barrier.wait, up to the wait: the last to arrive releases the others.
EnterBarrier(c, b, waiting, passed) ==
    IF barrier[b] = "broken"
    THEN Raise(c, "broken") /\ UNCHANGED <<barrier, arrived>>
    ELSE /\ arrived' = [arrived EXCEPT ![b] = @ + 1]
         /\ cpc' = [cpc EXCEPT ![c] = IF arrived[b] + 1 = NumClients THEN passed ELSE waiting]
         /\ barrier' = IF arrived[b] + 1 = NumClients
                       THEN [barrier EXCEPT ![b] = "draining"] ELSE barrier
         /\ UNCHANGED errors

\* Barrier.wait, after the wait: an abort is seen even by a thread that was
\* already released and has not yet run.
LeaveBarrier(c, b, passed) ==
    /\ barrier[b] # "filling"
    /\ IF barrier[b] = "broken"
       THEN Raise(c, "broken")
       ELSE cpc' = [cpc EXCEPT ![c] = passed] /\ UNCHANGED errors
    /\ UNCHANGED <<barrier, arrived>>

\* col_register_client, then start_barrier.wait.
Register(c) ==
    /\ cpc[c] = "born" /\ Colocated
    /\ EnterBarrier(c, "start", "atStart", "body")
    /\ UNCHANGED <<mainVars, schedVars, countVars>>

PassStart(c) ==
    /\ cpc[c] = "atStart"
    /\ LeaveBarrier(c, "start", "body")
    /\ UNCHANGED <<mainVars, schedVars, countVars>>

\* The calls of a client's function, counted once for all of them: each was
\* submitted and, since it returned, issued.
CountCalls(c) ==
    /\ submitted' = [submitted EXCEPT ![c] = @ + 1]
    /\ issued' = [issued EXCEPT ![c] = @ + 1]

\* Mutant: the error is lost.
HandleSilently(c) ==
    /\ cpc[c] = "handler" /\ Colocated
    /\ errors' = [errors EXCEPT ![c] = "none"]
    /\ barrier' = [barrier EXCEPT !["start"] = "broken"]
    /\ cpc' = [cpc EXCEPT ![c] = "exited"]
    /\ UNCHANGED <<arrived, mainVars, schedVars, countVars>>

\* except BaseException: start_barrier.abort(), and only that barrier.
Handle(c) ==
    /\ cpc[c] = "handler" /\ Colocated
    /\ barrier' = [barrier EXCEPT !["start"] = "broken"]
    /\ cpc' = [cpc EXCEPT ![c] = "exited"]
    /\ UNCHANGED <<errors, arrived, mainVars, schedVars, countVars>>

(***************************************************************************)
(* Scheduler thread                                                        *)
(***************************************************************************)
EnterLoop ==
    /\ spc = "started"
    /\ spc' = "running" /\ running' = TRUE
    /\ UNCHANGED <<stop, mainVars, clientVars, countVars>>

\* col_run's loop, which does not end by itself.
Spin == spc = "running" /\ ~stop /\ UNCHANGED launchVars

LeaveLoop ==
    /\ spc = "running" /\ stop
    /\ spc' = "exited" /\ running' = FALSE
    /\ UNCHANGED <<stop, mainVars, clientVars, countVars>>

(***************************************************************************)
(* Main thread: launch                                                     *)
(***************************************************************************)
\* The next program of the plan begins, with fresh threads, barriers, lists.
Begin(programs) ==
    /\ mpc \in {"idle", "returned"} /\ launches < Len(plan)
    /\ plan[launches + 1] \in programs
    /\ launches' = launches + 1
    /\ spawned' = 0 /\ raised' = "none" /\ UNCHANGED plan
    /\ errors' = [c \in Client |-> "none"]
    /\ barrier' = [b \in Barriers |-> "filling"] /\ arrived' = [b \in Barriers |-> 0]

\* col_setup, then sched_thread.start.  `submitted` belongs to the other
\* library and is not reset.
Setup ==
    /\ Begin({"plain", "demo"})
    /\ mpc' = "awaiting" /\ cpc' = [c \in Client |-> "none"]
    /\ spc' = "started" /\ stop' = FALSE /\ UNCHANGED running
    /\ issued' = [c \in Client |-> 0]
    /\ UNCHANGED <<submitted, faulted>>

AwaitRunning ==
    /\ mpc = "awaiting" /\ running
    /\ mpc' = "spawning"
    /\ UNCHANGED <<spawned, raised, plan, launches, schedVars, clientVars, countVars>>

Spawn ==
    /\ mpc = "spawning"
    /\ cpc' = [cpc EXCEPT ![spawned] = "born"]
    /\ spawned' = spawned + 1
    /\ mpc' = IF spawned + 1 = NumClients THEN "joining" ELSE "spawning"
    /\ UNCHANGED <<raised, plan, launches, schedVars, errors, barrier, arrived, countVars>>

\* Mutant: only the first client is joined.
JoinFirst ==
    /\ mpc = "joining" /\ Colocated
    /\ cpc[0] = "exited"
    /\ mpc' = "synchronizing"
    /\ UNCHANGED <<spawned, raised, plan, launches, schedVars, clientVars, countVars>>

Join ==
    /\ mpc = "joining" /\ Colocated
    /\ \A c \in Client : cpc[c] = "exited"
    /\ mpc' = "synchronizing"
    /\ UNCHANGED <<spawned, raised, plan, launches, schedVars, clientVars, countVars>>

\* torch.cuda.synchronize, once `drained`: raises the sticky error if there
\* is one.
Synchronize(drained) ==
    /\ mpc = "synchronizing"
    /\ IF faulted
       THEN mpc' = "raised" /\ raised' = "cuda"
       ELSE drained /\ mpc' = "synchronized" /\ UNCHANGED raised
    /\ UNCHANGED <<spawned, plan, launches, schedVars, clientVars, countVars>>

\* Mutant: col_stop is forgotten.
StopNot ==
    /\ mpc = "synchronized"
    /\ mpc' = "stopping"
    /\ UNCHANGED <<spawned, raised, plan, launches, schedVars, clientVars, countVars>>

\* col_stop.
Stop ==
    /\ mpc = "synchronized"
    /\ mpc' = "stopping" /\ stop' = TRUE
    /\ UNCHANGED <<spawned, raised, plan, launches, spc, running, clientVars, countVars>>

FirstError == CHOOSE c \in Client :
    errors[c] # "none" /\ \A d \in 0 .. c - 1 : errors[d] = "none"

\* Mutant: the scheduler thread is not joined.
FinishUnjoined ==
    /\ mpc = "stopping"
    /\ raised' = IF \E c \in Client : errors[c] # "none" THEN errors[FirstError] ELSE "none"
    /\ mpc' = IF raised' = "none" THEN "returned" ELSE "raised"
    /\ UNCHANGED <<spawned, plan, launches, schedVars, clientVars, countVars>>

\* sched_thread.join; the first error by client index; then the accounting.
Finish ==
    /\ mpc = "stopping" /\ spc = "exited"
    /\ raised' = CASE \E c \in Client : errors[c] # "none" -> errors[FirstError]
                   [] \A c \in Client : errors[c] = "none" /\ submitted[c] = issued[c] -> "none"
                   [] OTHER -> "accounting"
    /\ mpc' = IF raised' = "none" THEN "returned" ELSE "raised"
    /\ UNCHANGED <<spawned, plan, launches, schedVars, clientVars, countVars>>

InitLaunch ==
    /\ mpc = "idle" /\ spawned = 0 /\ raised = "none" /\ launches = 0
    /\ plan \in Plans
    /\ spc = "none" /\ running = FALSE /\ stop = FALSE
    /\ cpc = [c \in Client |-> "none"] /\ errors = [c \in Client |-> "none"]
    /\ barrier = [b \in Barriers |-> "filling"] /\ arrived = [b \in Barriers |-> 0]
    /\ submitted = [c \in Client |-> 0] /\ issued = [c \in Client |-> 0]
    /\ faulted = FALSE

RunClient(c) == Register(c) \/ PassStart(c) \/ Handle(c)
SchedNext == EnterLoop \/ Spin \/ LeaveLoop
LaunchNext(drained) == AwaitRunning \/ Spawn \/ Join \/ Synchronize(drained) \/ Stop \/ Finish
=============================================================================
