----------------------------- MODULE DemoProofs -----------------------------
(***************************************************************************)
(* Module Demo for every number of clients, every plan of programs,        *)
(* pipelines of every depth, clients that raise anywhere and devices that  *)
(* fail.  Four invariants: LifeInv, what each place of the main thread     *)
(* knows of the scheduler thread and of the clients; PipeInv, what a       *)
(* client's _events says of the iterations on its stream; MeetInv, who is  *)
(* behind the barrier of the demo; EndInv, what a mode leaves behind.      *)
(***************************************************************************)
EXTENDS Demo, FiniteSetTheorems, WellFoundedInduction, TLAPS

AllIn(where) == \A c \in Client : cpc[c] = where

(***************************************************************************)
(* The life of the scheduler thread                                        *)
(***************************************************************************)
\* While a launch is under way.
LaunchInv ==
    /\ mpc = "awaiting" => spc \in {"started", "running"} /\ ~stop /\ AllIn("none")
    /\ mpc \in {"spawning", "joining"} => spc = "running" /\ ~stop
    /\ mpc \in {"synchronizing", "synchronized"} => spc = "running" /\ ~stop /\ AllIn("exited")
    /\ mpc = "stopping" => spc \in {"running", "exited"} /\ stop /\ AllIn("exited")
    /\ mpc = "returned" => spc = "exited" /\ AllIn("exited")
    /\ mpc = "raised" => (spc = "exited" \/ raised = "cuda") /\ AllIn("exited")
    /\ mpc \in {"awaiting", "spawning", "joining", "synchronizing", "synchronized",
                "stopping", "returned", "raised"}

\* Elsewhere: before the first program, in seq and in streams.
ApartInv ==
    /\ spc \in {"none", "exited"}
    /\ mpc \in {"idle", "spawning", "joining", "turns", "returned", "raised"}

LifeInv ==
    /\ launches \in Nat
    /\ mpc = "idle" => launches = 0
    /\ running <=> spc = "running"
    /\ Colocated => LaunchInv
    /\ ~Colocated => ApartInv

USE DEF mainVars, schedVars, clientVars, countVars, launchVars, pipelineVars

LEMMA InitLife == Init => LifeInv
  BY DEF Init, InitLaunch, LifeInv, ApartInv, Colocated, program

\* A client that has not been started or has ended does nothing.
LEMMA OnlyTheLivingAct ==
    ASSUME NEW c \in Client, ClientNext(c)
    PROVE  cpc[c] \notin {"none", "exited"}
  BY DEF ClientNext, RunClient, Register, PassStart, Handle, RunWorker, Step, Meet,
         PassDemo, Go, Return, RaiseOwn, WorkerHandle

\* What a client does leaves the scheduler thread alone, and the main thread,
\* except that seq is its own main thread.
LEMMA ClientsTouchTheirOwn ==
    ASSUME NEW c \in Client, ClientNext(c)
    PROVE  /\ UNCHANGED <<schedVars, plan, launches>>
           /\ program # "seq" => UNCHANGED <<mpc, raised>>
           /\ mpc' \in {mpc, "raised"}
  BY DEF ClientNext, RunClient, Register, PassStart, Handle, RunWorker, Step, Meet,
         PassDemo, Go, Return, RaiseOwn, WorkerHandle

LEMMA ClientLife ==
    ASSUME LifeInv, NEW c \in Client, ClientNext(c)
    PROVE  LifeInv'
  <1>1. UNCHANGED <<schedVars, plan, launches>> /\ mpc' \in {mpc, "raised"}
    BY ClientsTouchTheirOwn
  <1>2. program' = program /\ Colocated' = Colocated
    BY <1>1 DEF program, Colocated
  <1>3. CASE Colocated
    <2>1. UNCHANGED <<mpc, raised>>
      BY <1>3, ClientsTouchTheirOwn DEF Colocated
    <2>2. mpc \in {"spawning", "joining"}
      BY <1>3, OnlyTheLivingAct DEF LifeInv, LaunchInv, AllIn
    <2> QED  BY <1>1, <1>2, <1>3, <2>1, <2>2 DEF LifeInv, LaunchInv
  <1>4. CASE ~Colocated
    BY <1>1, <1>2, <1>4, OnlyTheLivingAct DEF LifeInv, ApartInv
  <1> QED  BY <1>3, <1>4

LEMMA SchedLife ==
    ASSUME LifeInv, SchedNext, UNCHANGED pipelineVars
    PROVE  LifeInv'
  <1>1. Colocated' = Colocated /\ UNCHANGED <<mpc, raised, launches, cpc>>
    BY DEF SchedNext, EnterLoop, Spin, LeaveLoop, Colocated, program
  <1>2. CASE EnterLoop
    BY <1>1, <1>2 DEF EnterLoop, LifeInv, LaunchInv, ApartInv, AllIn
  <1>3. CASE Spin
    BY <1>1, <1>3 DEF Spin, LifeInv, LaunchInv, ApartInv, AllIn
  <1>4. CASE LeaveLoop
    BY <1>1, <1>4 DEF LeaveLoop, LifeInv, LaunchInv, ApartInv, AllIn
  <1> QED  BY <1>2, <1>3, <1>4 DEF SchedNext

\* A program begins where no scheduler thread is left.
LEMMA BeginsAlone ==
    ASSUME LifeInv, NEW programs, Begin(programs)
    PROVE  /\ spc \in {"none", "exited"} /\ ~running
           /\ launches' \in Nat \ {0} /\ program' \in programs
  <1>1. spc \in {"none", "exited"}
    BY DEF Begin, LifeInv, LaunchInv, ApartInv
  <1>2. launches' \in Nat \ {0} /\ program' = plan[launches + 1]
    BY DEF Begin, LifeInv, program
  <1> QED  BY <1>1, <1>2 DEF Begin, LifeInv

LEMMA StartLife ==
    ASSUME LifeInv, StartLaunch \/ StartWorkers \/ StartSeq
    PROVE  LifeInv'
  <1>1. CASE StartLaunch
    <2>1. Begin({"plain", "demo"})
      BY <1>1 DEF StartLaunch, Setup
    <2>2. Colocated' /\ ~running /\ launches' \in Nat \ {0}
      BY <2>1, BeginsAlone DEF Colocated
    <2> QED  BY <1>1, <2>2 DEF StartLaunch, Setup, LifeInv, LaunchInv, AllIn
  <1>2. CASE StartWorkers
    <2>1. Begin({"streams"})
      BY <1>2 DEF StartWorkers
    <2>2. ~Colocated' /\ spc \in {"none", "exited"} /\ launches' \in Nat \ {0}
      BY <2>1, BeginsAlone DEF Colocated
    <2> QED  BY <1>2, <2>2 DEF StartWorkers, LifeInv, ApartInv
  <1>3. CASE StartSeq
    <2>1. Begin({"seq"})
      BY <1>3 DEF StartSeq
    <2>2. ~Colocated' /\ spc \in {"none", "exited"} /\ launches' \in Nat \ {0}
      BY <2>1, BeginsAlone DEF Colocated
    <2> QED  BY <1>3, <2>2 DEF StartSeq, LifeInv, ApartInv
  <1> QED  BY <1>1, <1>2, <1>3

LEMMA MainLife ==
    ASSUME LifeInv, MainNext
    PROVE  LifeInv'
  <1> DEFINE drained == \A s \in Client : stream[s] = <<>>
  <1>1. Colocated' = Colocated /\ UNCHANGED launches
    BY DEF MainNext, LaunchNext, AwaitRunning, Spawn, Join, Synchronize, Stop, Finish,
           Colocated, program
  <1>2. CASE AwaitRunning
    BY <1>1, <1>2 DEF AwaitRunning, LifeInv, LaunchInv, ApartInv
  <1>3. CASE Spawn
    BY <1>1, <1>3 DEF Spawn, LifeInv, LaunchInv, ApartInv
  <1>4. CASE Join
    BY <1>1, <1>4 DEF Join, LifeInv, LaunchInv, AllIn
  <1>5. CASE Synchronize(drained)
    BY <1>1, <1>5 DEF Synchronize, LifeInv, LaunchInv, ApartInv, AllIn
  <1>6. CASE Stop
    BY <1>1, <1>6 DEF Stop, LifeInv, LaunchInv, ApartInv, AllIn
  <1>7. CASE Finish
    <2>1. mpc' \in {"returned", "raised"} /\ spc = "exited" /\ mpc = "stopping"
      BY <1>7 DEF Finish
    <2>2. UNCHANGED <<schedVars, cpc>>
      BY <1>7 DEF Finish
    <2> QED  BY <1>1, <2>1, <2>2 DEF LifeInv, LaunchInv, ApartInv, AllIn
  <1> QED  BY <1>2, <1>3, <1>4, <1>5, <1>6, <1>7 DEF MainNext, LaunchNext

LEMMA ApartLife ==
    ASSUME LifeInv, JoinWorkers \/ NextTurn
    PROVE  LifeInv'
  <1>1. Colocated' = Colocated /\ UNCHANGED <<launches, schedVars>>
    BY DEF JoinWorkers, NextTurn, Colocated, program
  <1>2. ~Colocated
    BY DEF JoinWorkers, NextTurn, Colocated, LifeInv, LaunchInv
  <1>3. mpc' \in {"turns", "returned", "raised"}
    BY DEF JoinWorkers, NextTurn
  <1> QED  BY <1>1, <1>2, <1>3 DEF LifeInv, ApartInv

LEMMA NextLife == LifeInv /\ [Next]_vars => LifeInv'
  <1> SUFFICES ASSUME LifeInv, [Next]_vars PROVE LifeInv'
    OBVIOUS
  <1>1. ASSUME NEW c \in Client, ClientNext(c) PROVE LifeInv'
    BY <1>1, ClientLife
  <1>2. ASSUME UNCHANGED launchVars PROVE LifeInv'
    BY <1>2 DEF LifeInv, LaunchInv, ApartInv, AllIn, Colocated, program
  <1>3. ASSUME NEW s \in Client, GpuStep(s) PROVE LifeInv'
    BY <1>2, <1>3 DEF GpuStep
  <1>4. CASE Done \/ UNCHANGED vars
    BY <1>2, <1>4 DEF Done, vars
  <1> QED
    BY <1>1, <1>3, <1>4, SchedLife, StartLife, MainLife, ApartLife DEF Next

\* Places of the main thread determine the scheduler thread's, over any
\* sequence of programs in one process.
THEOREM LifeInductive == Spec => []LifeInv
  BY InitLife, NextLife, PTL DEF Spec

\* However a launch ends, its scheduler thread has ended, unless the device
\* failed and torch.cuda.synchronize raised before col_stop.
THEOREM SchedulerStopped == Spec => []NoOrphanScheduler
  <1>1. LifeInv => NoOrphanScheduler
    BY DEF LifeInv, LaunchInv, ApartInv, NoOrphanScheduler
  <1> QED  BY <1>1, LifeInductive, PTL

\* Whenever a client is in its function, and so may call, the scheduler's
\* loop is there to answer and has not been told to stop.
THEOREM CallersAreServed == Spec => []SchedulerServes
  <1>1. LifeInv => SchedulerServes
    BY DEF LifeInv, LaunchInv, AllIn, SchedulerServes
  <1> QED  BY <1>1, LifeInductive, PTL

(***************************************************************************)
(* The pipeline of one client                                              *)
(***************************************************************************)
Sections == {"calibrate", "check", "warmup", "timed", "over"}
Places == {"admit", "launch", "record", "first_drain", "sync_launch", "second_drain",
           "read", "barrier", "over"}
Bodies == [section : Sections, pc : Places, todo : Int, checks : Int, events : Seq(Int),
           slot : Slots, launched : Nat, out : [Slots -> Int]]
Items == [item : {"iteration", "event", "reset"}, client : Client, id : Nat, slot : Slots,
          section : Sections \cup {"none"}]

IterationOf(x, c) == x.item = "iteration" /\ x.client = c
IsEvent(x, c, id) == x.item = "event" /\ x.client = c /\ x.id = id

\* The newest iteration that has its event, and the oldest still remembered.
Recorded(b) == IF b.pc \in {"record", "second_drain"} THEN b.launched - 1 ELSE b.launched
Forgotten(b) == Recorded(b) - Len(b.events)

\* _events holds consecutive iterations, never more than Depth, and one less
\* while another is admitted; the synchronous check and the drained places
\* know of none.
BodyInv(c, b) ==
    /\ b.slot = (b.launched % Depth)
    /\ \A i \in 1 .. Len(b.events) : b.events[i] = Forgotten(b) + i
    /\ Len(b.events) <= Depth
    /\ b.pc \in {"launch", "record"} => Len(b.events) < Depth
    /\ b.pc \notin {"admit", "launch", "record"} => b.events = <<>>
    /\ b.pc \in {"record", "second_drain", "read"} => b.launched > 0
    /\ b.pc = "barrier" => b.section = "warmup"
    /\ b.pc \in {"first_drain", "sync_launch", "second_drain", "read"} => b.section = "check"
    /\ b.pc = "over" <=> b.section = "over"
    /\ c \in Resetting /\ b.section = "calibrate" =>
          b.pc = "admit" /\ b.todo = 0 /\ b.events = <<>>

\* What the client's stream q holds of its iterations: they are in order,
\* none is forgotten, and each has its event behind it once recorded.
QueueInv(c, b, q) ==
    \A i \in 1 .. Len(q) : IterationOf(q[i], c) =>
       /\ q[i].id > 0 /\ q[i].id > Forgotten(b) /\ q[i].id <= b.launched
       /\ q[i].slot = (q[i].id - 1) % Depth
       /\ \A j \in 1 .. i - 1 : IterationOf(q[j], c) => q[j].id < q[i].id
       /\ q[i].id <= Recorded(b) => \E j \in i + 1 .. Len(q) : IsEvent(q[j], c, q[i].id)

\* The slot of the client's latest iteration.
Latest(b) == (b.slot + Depth - 1) % Depth

CheckInv(c, b, q) ==
    /\ b.pc = "second_drain" =>
          \/ \E i \in 1 .. Len(q) : IterationOf(q[i], c) /\ q[i].id = b.launched
          \/ b.out[Latest(b)] = b.launched
    /\ b.pc = "read" => b.out[Latest(b)] = b.launched

PipeInv ==
    /\ body \in [Client -> Bodies] /\ stream \in [Client -> Seq(Items)]
    /\ \A c \in Client : BodyInv(c, body[c])
    /\ \A c \in Client : QueueInv(c, body[c], stream[StreamOf(c)])
    /\ \A c \in Client : CheckInv(c, body[c], stream[StreamOf(c)])
    /\ \A s \in Client : \A i \in 1 .. Len(stream[s]) :
          stream[s][i].item = "iteration" => StreamOf(stream[s][i].client) = s

LEMMA Divided ==
    ASSUME NEW n \in Nat
    PROVE  \E q \in Nat : n = Depth * q + (n % Depth) /\ n % Depth \in 0 .. Depth - 1
  <1>1. n \div Depth \in Nat /\ n % Depth \in 0 .. Depth - 1 /\ n = Depth * (n \div Depth) + (n % Depth)
    BY DepthAssumption
  <1> QED  BY <1>1

LEMMA SameMultiple ==
    ASSUME NEW p \in Int, NEW q \in Int, NEW r \in 0 .. Depth - 1, NEW s \in 0 .. Depth - 1,
           Depth * p + r = Depth * q + s
    PROVE  p = q /\ r = s
  <1>1. Depth * (p - q) = s - r
    BY DepthAssumption
  <1>2. s - r < Depth /\ s - r > -Depth
    BY DepthAssumption
  <1>3. ~(p - q >= 1)
    <2> SUFFICES ASSUME p - q >= 1 PROVE FALSE
      OBVIOUS
    <2>1. Depth * (p - q) >= Depth
       BY DepthAssumption
    <2> QED  BY <2>1, <1>1, <1>2, DepthAssumption
  <1>4. ~(p - q <= -1)
    <2> SUFFICES ASSUME p - q <= -1 PROVE FALSE
      OBVIOUS
    <2>1. Depth * (p - q) <= -Depth
       BY DepthAssumption
    <2> QED  BY <2>1, <1>1, <1>2, DepthAssumption
  <1>5. p = q
    BY <1>3, <1>4, DepthAssumption
  <1>6. Depth * p = Depth * q /\ Depth * p \in Int
    BY <1>5, DepthAssumption
  <1>7. r = s
    BY <1>6, DepthAssumption
  <1> QED  BY <1>5, <1>7

LEMMA Remainder ==
    ASSUME NEW q \in Nat, NEW r \in 0 .. Depth - 1
    PROVE  (Depth * q + r) % Depth = r
  <1>1. Depth * q + r \in Nat
    BY DepthAssumption
  <1>2. PICK p \in Nat : Depth * q + r = Depth * p + ((Depth * q + r) % Depth)
                         /\ (Depth * q + r) % Depth \in 0 .. Depth - 1
    BY <1>1, Divided
  <1> QED  BY <1>2, SameMultiple

LEMMA SmallMod ==
    ASSUME NEW r \in 0 .. Depth - 1
    PROVE  r % Depth = r /\ (r + Depth) % Depth = r
  <1>1. Depth * 0 + r = r /\ Depth * 1 + r = r + Depth
    BY DepthAssumption
  <1> QED  BY <1>1, Remainder

LEMMA ModNext ==
    ASSUME NEW n \in Nat
    PROVE  ((n % Depth) + 1) % Depth = (n + 1) % Depth
  <1>1. PICK q \in Nat : n = Depth * q + (n % Depth) /\ n % Depth \in 0 .. Depth - 1
    BY Divided
  <1> DEFINE r == n % Depth
  <1>2. r \in 0 .. Depth - 1 /\ n = Depth * q + r
    BY <1>1
  <1> HIDE DEF r
  <1>3. CASE r + 1 < Depth
    <2>1. n + 1 = Depth * q + (r + 1) /\ r + 1 \in 0 .. Depth - 1
      BY <1>2, <1>3, DepthAssumption
    <2> QED  BY <2>1, Remainder, SmallMod DEF r
  <1>4. CASE r + 1 = Depth
    <2>1. n + 1 = Depth * (q + 1) + 0 /\ 0 \in 0 .. Depth - 1
      BY <1>2, <1>4, DepthAssumption
    <2>2. (n + 1) % Depth = 0
      BY <2>1, Remainder
    <2>3. Depth % Depth = 0
      BY SmallMod, DepthAssumption
    <2> QED  BY <2>2, <2>3, <1>4 DEF r
  <1> QED  BY <1>2, <1>3, <1>4, DepthAssumption

LEMMA ModBack ==
    ASSUME NEW n \in Nat
    PROVE  (((n + 1) % Depth) + Depth - 1) % Depth = n % Depth
  <1>1. (n + 1) % Depth = ((n % Depth) + 1) % Depth
    BY ModNext
  <1>2. n % Depth \in 0 .. Depth - 1
    BY DepthAssumption
  <1> DEFINE r == n % Depth
  <1>3. r \in 0 .. Depth - 1
    BY <1>2
  <1> HIDE DEF r
  <1>4. CASE r + 1 < Depth
    <2>1. (r + 1) % Depth = r + 1
      BY <1>3, <1>4, SmallMod, DepthAssumption
    <2>2. ((n + 1) % Depth) + Depth - 1 = r + Depth
      BY <1>1, <2>1, <1>3, DepthAssumption DEF r
    <2> QED  BY <2>2, <1>3, SmallMod DEF r
  <1>5. CASE r + 1 = Depth
    <2>1. (r + 1) % Depth = 0
      BY <1>5, SmallMod, DepthAssumption
    <2>2. ((n + 1) % Depth) + Depth - 1 = r
      BY <1>1, <2>1, <1>3, <1>5, DepthAssumption DEF r
    <2> QED  BY <2>2, <1>3, SmallMod DEF r
  <1> QED  BY <1>3, <1>4, <1>5, DepthAssumption

LEMMA ModApart ==
    ASSUME NEW m \in Nat, NEW n \in Nat, m < n, n - m < Depth
    PROVE  m % Depth # n % Depth
  <1> SUFFICES ASSUME m % Depth = n % Depth PROVE FALSE
    OBVIOUS
  <1>1. PICK p \in Nat : m = Depth * p + (m % Depth) /\ m % Depth \in 0 .. Depth - 1
    BY Divided
  <1>2. PICK q \in Nat : n = Depth * q + (n % Depth)
    BY Divided
  <1> DEFINE r == m % Depth   d == n - m
  <1>3. m = Depth * p + r /\ n = Depth * q + r /\ r \in 0 .. Depth - 1 /\ d \in 1 .. Depth - 1
    BY <1>1, <1>2, DepthAssumption
  <1> HIDE DEF r
  <1>4. Depth * p + d = Depth * q + 0 /\ 0 \in 0 .. Depth - 1 /\ d \in 0 .. Depth - 1
    BY <1>3, DepthAssumption
  <1> HIDE DEF d
  <1>5. d = 0
    BY <1>4, SameMultiple
  <1> QED  BY <1>5, <1>3

\* Of the iterations after f, up to n, at most Depth: each has its own slot.
LEMMA SameSlotSameId ==
    ASSUME NEW f \in Int, NEW n \in Int, n - f <= Depth,
           NEW k \in Nat, k > 0, k > f, k <= n,
           NEW l \in Nat, l > 0, l > f, l <= n,
           (k - 1) % Depth = (l - 1) % Depth
    PROVE  k = l
  <1>1. k - 1 \in Nat /\ l - 1 \in Nat
        /\ (k - 1) - (l - 1) < Depth /\ (l - 1) - (k - 1) < Depth
    BY DepthAssumption
  <1>2. ~(k - 1 < l - 1) /\ ~(l - 1 < k - 1)
    BY <1>1, ModApart
  <1> QED  BY <1>1, <1>2

(***************************************************************************)
(* One pipeline: the effect of each kind of step on body b and stream q    *)
(***************************************************************************)
LEMMA BodyParts ==
    ASSUME NEW b \in Bodies
    PROVE  /\ b.launched \in Nat /\ b.events \in Seq(Int) /\ Len(b.events) \in Nat
           /\ b.slot \in Slots /\ b.todo \in Int /\ b.checks \in Int
           /\ b.out \in [Slots -> Int] /\ b.section \in Sections /\ b.pc \in Places
           /\ Recorded(b) \in Int /\ Forgotten(b) \in Int
  BY DEF Bodies, Recorded, Forgotten

LEMMA ItemParts ==
    ASSUME NEW q \in Seq(Items), NEW i \in 1 .. Len(q)
    PROVE  /\ q[i] \in Items /\ q[i].id \in Nat /\ q[i].slot \in Slots /\ q[i].client \in Client
  <1>1. q[i] \in Items
    OBVIOUS
  <1> QED  BY <1>1 DEF Items

LEMMA TailParts ==
    ASSUME NEW q \in Seq(Items), q # <<>>
    PROVE  /\ Tail(q) \in Seq(Items) /\ Len(Tail(q)) = Len(q) - 1 /\ Len(q) \in Nat \ {0}
           /\ \A i \in 1 .. Len(Tail(q)) : Tail(q)[i] = q[i + 1]
           /\ Head(q) = q[1]
  OBVIOUS

LEMMA AppendParts ==
    ASSUME NEW q \in Seq(Items), NEW x \in Items
    PROVE  /\ Append(q, x) \in Seq(Items) /\ Len(q) \in Nat
           /\ Len(Append(q, x)) = Len(q) + 1 /\ Append(q, x)[Len(q) + 1] = x
           /\ \A i \in 1 .. Len(q) : Append(q, x)[i] = q[i]
  OBVIOUS

\* The stream works off its head.
LEMMA QueueTail ==
    ASSUME NEW c, NEW b \in Bodies, NEW q \in Seq(Items), q # <<>>, QueueInv(c, b, q)
    PROVE  QueueInv(c, b, Tail(q))
  <1> DEFINE t == Tail(q)
  <1>1. Len(t) = Len(q) - 1 /\ Len(q) \in Nat /\ \A i \in 1 .. Len(t) : t[i] = q[i + 1]
    BY TailParts
  <1> HIDE DEF t
  <1> SUFFICES ASSUME NEW i \in 1 .. Len(t), IterationOf(t[i], c)
               PROVE  /\ t[i].id > 0 /\ t[i].id > Forgotten(b) /\ t[i].id <= b.launched
                      /\ t[i].slot = (t[i].id - 1) % Depth
                      /\ \A j \in 1 .. i - 1 : IterationOf(t[j], c) => t[j].id < t[i].id
                      /\ t[i].id <= Recorded(b) =>
                            \E j \in i + 1 .. Len(t) : IsEvent(t[j], c, t[i].id)
    BY DEF QueueInv, t
  <1>2. t[i] = q[i + 1] /\ i + 1 \in 1 .. Len(q)
    BY <1>1
  <1>3. /\ q[i+1].id > 0 /\ q[i+1].id > Forgotten(b) /\ q[i+1].id <= b.launched
        /\ q[i+1].slot = (q[i+1].id - 1) % Depth
        /\ \A j \in 1 .. i : IterationOf(q[j], c) => q[j].id < q[i+1].id
        /\ q[i+1].id <= Recorded(b) => \E j \in i + 2 .. Len(q) : IsEvent(q[j], c, q[i+1].id)
    BY <1>2, <1>1 DEF QueueInv
  <1>4. \A j \in 1 .. i - 1 : IterationOf(t[j], c) => t[j].id < t[i].id
    <2> TAKE j \in 1 .. i - 1
    <2>1. t[j] = q[j + 1] /\ j + 1 \in 1 .. i
      BY <1>1
    <2> QED  BY <2>1, <1>3, <1>2
  <1>5. t[i].id <= Recorded(b) => \E j \in i + 1 .. Len(t) : IsEvent(t[j], c, t[i].id)
    <2> HAVE t[i].id <= Recorded(b)
    <2>1. PICK j \in i + 2 .. Len(q) : IsEvent(q[j], c, q[i+1].id)
      BY <1>2, <1>3
    <2>2. j - 1 \in i + 1 .. Len(t) /\ t[j - 1] = q[j]
      BY <1>1
    <2> QED  BY <2>1, <2>2, <1>2
  <1> QED  BY <1>2, <1>3, <1>4, <1>5

\* Something that is no iteration of c is enqueued; b2 has forgotten no
\* more than b, and recorded no more but for what this event records.
LEMMA QueuePut ==
    ASSUME NEW c, NEW b \in Bodies, NEW b2 \in Bodies, NEW q \in Seq(Items), NEW x \in Items,
           QueueInv(c, b, q), ~IterationOf(x, c),
           b2.launched = b.launched, Forgotten(b2) <= Forgotten(b),
           \A id \in Nat : id <= Recorded(b2) =>
              id <= Recorded(b) \/ id > b.launched \/ IsEvent(x, c, id)
    PROVE  QueueInv(c, b2, Append(q, x))
  <1> DEFINE p == Append(q, x)
  <1>1. Len(p) = Len(q) + 1 /\ Len(q) \in Nat /\ p[Len(q) + 1] = x
        /\ \A i \in 1 .. Len(q) : p[i] = q[i]
    BY AppendParts
  <1> HIDE DEF p
  <1> SUFFICES ASSUME NEW i \in 1 .. Len(p), IterationOf(p[i], c)
               PROVE  /\ p[i].id > 0 /\ p[i].id > Forgotten(b2) /\ p[i].id <= b2.launched
                      /\ p[i].slot = (p[i].id - 1) % Depth
                      /\ \A j \in 1 .. i - 1 : IterationOf(p[j], c) => p[j].id < p[i].id
                      /\ p[i].id <= Recorded(b2) =>
                            \E j \in i + 1 .. Len(p) : IsEvent(p[j], c, p[i].id)
    BY DEF QueueInv, p
  <1>2. i \in 1 .. Len(q) /\ p[i] = q[i]
    BY <1>1
  <1>3. /\ q[i].id > 0 /\ q[i].id > Forgotten(b) /\ q[i].id <= b.launched
        /\ q[i].slot = (q[i].id - 1) % Depth
        /\ \A j \in 1 .. i - 1 : IterationOf(q[j], c) => q[j].id < q[i].id
        /\ q[i].id <= Recorded(b) => \E j \in i + 1 .. Len(q) : IsEvent(q[j], c, q[i].id)
    BY <1>2 DEF QueueInv
  <1>4. q[i].id \in Nat /\ Forgotten(b) \in Int /\ Forgotten(b2) \in Int /\ b.launched \in Nat
    BY <1>2, ItemParts, BodyParts
  <1>5. q[i].id > Forgotten(b2)
    BY <1>3, <1>4
  <1>6. \A j \in 1 .. i - 1 : IterationOf(p[j], c) => p[j].id < p[i].id
    BY <1>1, <1>2, <1>3
  <1>7. p[i].id <= Recorded(b2) => \E j \in i + 1 .. Len(p) : IsEvent(p[j], c, p[i].id)
    <2> HAVE p[i].id <= Recorded(b2)
    <2>1. CASE q[i].id <= Recorded(b)
      <3>1. PICK j \in i + 1 .. Len(q) : IsEvent(q[j], c, q[i].id)
        BY <2>1, <1>3
      <3>2. j \in 1 .. Len(q) /\ j \in i + 1 .. Len(p)
        BY <1>1
      <3> QED  BY <3>1, <3>2, <1>1, <1>2
    <2>2. CASE IsEvent(x, c, q[i].id)
      <3>1. Len(q) + 1 \in i + 1 .. Len(p)
        BY <1>1, <1>2
      <3> QED  BY <2>2, <3>1, <1>1, <1>2
    <2> QED  BY <2>1, <2>2, <1>2, <1>3, <1>4
  <1> QED  BY <1>2, <1>3, <1>5, <1>6, <1>7

\* Nothing is enqueued, and b2 knows of the same iterations as b.
LEMMA QueueSame ==
    ASSUME NEW c, NEW b, NEW b2, NEW q, QueueInv(c, b, q),
           b2.launched = b.launched, Forgotten(b2) = Forgotten(b), Recorded(b2) = Recorded(b)
    PROVE  QueueInv(c, b2, q)
  BY DEF QueueInv

LEMMA QueueEmpty ==
    ASSUME NEW c, NEW b, NEW x, x.item = "reset"
    PROVE  QueueInv(c, b, <<>>) /\ QueueInv(c, b, Append(<<>>, x))
  BY DEF QueueInv, IterationOf

\* One more iteration, behind all others.
LEMMA QueueLaunch ==
    ASSUME NEW c \in Client, NEW b \in Bodies, NEW b2 \in Bodies, NEW q \in Seq(Items), NEW x \in Items,
           QueueInv(c, b, q), BodyInv(c, b), IterationOf(x, c),
           b.pc \in {"launch", "sync_launch"}, b2.pc \in {"record", "second_drain"},
           b2.launched = b.launched + 1, b2.events = b.events,
           x.id = b.launched + 1, x.slot = b.slot
    PROVE  QueueInv(c, b2, Append(q, x))
  <1> DEFINE p == Append(q, x)
  <1>1. Len(p) = Len(q) + 1 /\ Len(q) \in Nat /\ p[Len(q) + 1] = x
        /\ \A i \in 1 .. Len(q) : p[i] = q[i]
    BY AppendParts
  <1>2. Recorded(b) = b.launched /\ Recorded(b2) = b.launched /\ Forgotten(b2) = Forgotten(b)
        /\ Forgotten(b) <= b.launched
    <2>1. b.launched \in Nat /\ Len(b.events) \in Nat /\ Len(b2.events) = Len(b.events)
      BY BodyParts
    <2>2. Recorded(b) = b.launched /\ Recorded(b2) = b.launched
      BY <2>1 DEF Recorded
    <2> QED  BY <2>1, <2>2 DEF Forgotten
  <1>3. /\ b.launched \in Nat /\ Forgotten(b) \in Int
        /\ x.slot = (x.id - 1) % Depth
    BY BodyParts DEF BodyInv
  <1> HIDE DEF p
  <1> SUFFICES ASSUME NEW i \in 1 .. Len(p), IterationOf(p[i], c)
               PROVE  /\ p[i].id > 0 /\ p[i].id > Forgotten(b2) /\ p[i].id <= b2.launched
                      /\ p[i].slot = (p[i].id - 1) % Depth
                      /\ \A j \in 1 .. i - 1 : IterationOf(p[j], c) => p[j].id < p[i].id
                      /\ p[i].id <= Recorded(b2) =>
                            \E j \in i + 1 .. Len(p) : IsEvent(p[j], c, p[i].id)
    BY DEF QueueInv, p
  <1>4. CASE i \in 1 .. Len(q)
    <2>1. /\ q[i].id > 0 /\ q[i].id > Forgotten(b) /\ q[i].id <= b.launched
          /\ q[i].slot = (q[i].id - 1) % Depth
          /\ \A j \in 1 .. i - 1 : IterationOf(q[j], c) => q[j].id < q[i].id
          /\ q[i].id <= Recorded(b) => \E j \in i + 1 .. Len(q) : IsEvent(q[j], c, q[i].id)
      BY <1>1, <1>4 DEF QueueInv
    <2>2. q[i].id \in Nat
      BY <1>4, ItemParts
    <2>3. PICK j \in i + 1 .. Len(q) : IsEvent(q[j], c, q[i].id)
      BY <2>1, <1>2
    <2>4. j \in i + 1 .. Len(p) /\ p[j] = q[j] /\ p[i] = q[i]
      BY <1>1, <1>4
    <2>5. \A k \in 1 .. i - 1 : IterationOf(p[k], c) => p[k].id < p[i].id
      BY <2>1, <1>1, <1>4
    <2>6. q[i].id <= b2.launched
      BY <2>1, <2>2, <1>3
    <2>7. \E k \in i + 1 .. Len(p) : IsEvent(p[k], c, p[i].id)
      BY <2>3, <2>4
    <2> QED  BY <2>1, <2>4, <2>5, <2>6, <2>7, <1>2
  <1>5. CASE i = Len(q) + 1
    <2>1. p[i] = x
      BY <1>5, <1>1
    <2>2. \A j \in 1 .. i - 1 : IterationOf(p[j], c) => p[j].id < p[i].id
      <3> TAKE j \in 1 .. i - 1
      <3>1. j \in 1 .. Len(q) /\ p[j] = q[j]
        BY <1>5, <1>1
      <3>2. IterationOf(q[j], c) => q[j].id <= b.launched /\ q[j].id \in Nat
        BY <3>1, ItemParts DEF QueueInv
      <3> QED  BY <3>1, <3>2, <2>1, <1>3
    <2>3. x.id > 0 /\ x.id > Forgotten(b2) /\ x.id <= b2.launched /\ ~(x.id <= Recorded(b2))
      BY <1>2, <1>3
    <2> QED  BY <2>1, <2>2, <2>3, <1>3
  <1> QED  BY <1>1, <1>4, <1>5

(***************************************************************************)
(* Each step of client_body keeps its pipeline                             *)
(***************************************************************************)
\* Client c's step leaves its body as b2 and its stream as q2.
Becomes(c, b2, q2) ==
    /\ b2 \in Bodies
    /\ body' = [body EXCEPT ![c] = b2]
    /\ stream' = [stream EXCEPT ![StreamOf(c)] = q2]
    /\ \/ q2 = stream[StreamOf(c)]
       \/ \E x \in Items : x.client = c /\ q2 = Append(stream[StreamOf(c)], x)
    /\ BodyInv(c, b2) /\ QueueInv(c, b2, q2) /\ CheckInv(c, b2, q2)

LEMMA StreamIn == \A c \in Client : StreamOf(c) \in Client
  BY ClientsAssumption DEF StreamOf, Client

LEMMA PipeFacts ==
    ASSUME PipeInv, NEW c \in Client
    PROVE  /\ body[c] \in Bodies /\ StreamOf(c) \in Client /\ stream[StreamOf(c)] \in Seq(Items)
           /\ BodyInv(c, body[c])
           /\ QueueInv(c, body[c], stream[StreamOf(c)])
           /\ CheckInv(c, body[c], stream[StreamOf(c)])
  BY StreamIn DEF PipeInv

LEMMA OwnStep ==
    ASSUME PipeInv, program' = program, NEW c \in Client, NEW b2, NEW q2, Becomes(c, b2, q2)
    PROVE  PipeInv'
  <1> DEFINE s == StreamOf(c)
  <1>1. s \in Client /\ \A d \in Client : StreamOf(d)' = StreamOf(d)
    BY StreamIn DEF StreamOf
  <1>2. q2 \in Seq(Items)
    <2>1. stream[s] \in Seq(Items)
      BY <1>1 DEF PipeInv
    <2> QED  BY <2>1, AppendParts DEF Becomes
  <1>3. body' \in [Client -> Bodies] /\ stream' \in [Client -> Seq(Items)]
    BY <1>1, <1>2 DEF PipeInv, Becomes
  <1>4. /\ body'[c] = b2 /\ \A d \in Client \ {c} : body'[d] = body[d]
        /\ stream'[s] = q2 /\ \A r \in Client \ {s} : stream'[r] = stream[r]
    BY <1>1 DEF PipeInv, Becomes
  <1> HIDE DEF s
  <1>5. ASSUME NEW d \in Client
        PROVE  /\ BodyInv(d, body'[d])
               /\ QueueInv(d, body'[d], stream'[StreamOf(d)])
               /\ CheckInv(d, body'[d], stream'[StreamOf(d)])
    <2> DEFINE b == body[d]   q == stream[StreamOf(d)]
    <2>1. /\ b \in Bodies /\ q \in Seq(Items) /\ StreamOf(d) \in Client
          /\ BodyInv(d, b) /\ QueueInv(d, b, q) /\ CheckInv(d, b, q)
      BY PipeFacts
    <2> HIDE DEF b, q
    <2>2. CASE d = c
      BY <1>4, <2>2 DEF Becomes, s
    <2>3. CASE d # c /\ stream'[StreamOf(d)] = q
      BY <1>4, <2>1, <2>3 DEF b
    <2>4. CASE /\ d # c /\ StreamOf(d) = s
               /\ \E x \in Items : x.client = c /\ q2 = Append(stream[s], x)
      <3>1. PICK x \in Items : x.client = c /\ q2 = Append(q, x)
        BY <2>4 DEF q
      <3>2. ~IterationOf(x, d)
        BY <3>1, <2>4 DEF IterationOf
      <3>3. \A id \in Nat : id <= Recorded(b) => id <= Recorded(b) \/ id > b.launched \/ IsEvent(x, d, id)
        OBVIOUS
      <3>4. Forgotten(b) <= Forgotten(b)
        BY <2>1, BodyParts
      <3>5. QueueInv(d, b, Append(q, x))
        BY <3>2, <3>3, <3>4, <2>1, QueuePut
      <3>6. CheckInv(d, b, Append(q, x))
        BY <2>1, AppendParts DEF CheckInv
      <3> QED  BY <1>4, <2>1, <2>4, <3>1, <3>5, <3>6 DEF b
    <2> QED  BY <1>4, <2>1, <2>2, <2>3, <2>4 DEF Becomes, s, q
  <1>6. ASSUME NEW r \in Client, NEW i \in 1 .. Len(stream'[r]), stream'[r][i].item = "iteration"
        PROVE  StreamOf(stream'[r][i].client) = r
    <2>1. CASE r # s \/ q2 = stream[s]
      BY <1>4, <1>6, <2>1 DEF PipeInv
    <2>2. CASE r = s /\ \E x \in Items : x.client = c /\ q2 = Append(stream[s], x)
      <3>0. Len(q2) = Len(stream'[r])
        BY <1>4, <2>2
      <3>1. PICK x \in Items : x.client = c /\ q2 = Append(stream[s], x)
        BY <2>2
      <3>2. stream[s] \in Seq(Items)
        BY <1>1 DEF PipeInv
      <3>3. i \in 1 .. Len(stream[s]) + 1 /\ q2[Len(stream[s]) + 1] = x
            /\ \A k \in 1 .. Len(stream[s]) : q2[k] = stream[s][k]
        BY <3>0, <3>1, <3>2, AppendParts
      <3>4. CASE i = Len(stream[s]) + 1
        BY <3>1, <3>3, <3>4, <1>4, <2>2 DEF s
      <3>5. CASE i \in 1 .. Len(stream[s])
        <4>1. stream'[r][i] = stream[s][i]
          BY <3>3, <3>5, <1>4, <2>2
        <4> QED  BY <4>1, <3>5, <1>1, <1>6, <2>2 DEF PipeInv
      <3> QED  BY <3>2, <3>3, <3>4, <3>5
    <2> QED  BY <1>4, <2>1, <2>2 DEF Becomes, s
  <1> QED
    <2>1. \A d \in Client : BodyInv(d, body'[d])
      BY <1>5
    <2>2. \A d \in Client : QueueInv(d, body'[d], stream'[StreamOf(d)'])
      BY <1>1, <1>5
    <2>3. \A d \in Client : CheckInv(d, body'[d], stream'[StreamOf(d)'])
      BY <1>1, <1>5
    <2>4. (\A r \in Client : \A i \in 1 .. Len(stream[r]) :
              stream[r][i].item = "iteration" => StreamOf(stream[r][i].client) = r)'
      BY <1>6 DEF StreamOf
    <2> QED  BY <1>3, <2>1, <2>2, <2>3, <2>4 DEF PipeInv, BodyInv, QueueInv, CheckInv

\* What the reset of llmdecode's drain, or a launch, puts on the stream.
LEMMA ItemsPut ==
    ASSUME PipeInv, NEW c \in Client
    PROVE  /\ Iteration(c) \in Items /\ EventOf(c) \in Items /\ ResetWork(c) \in Items
           /\ IterationOf(Iteration(c), c) /\ ~IterationOf(EventOf(c), c)
  <1>1. body[c] \in Bodies /\ 0 \in Slots
    BY PipeFacts, DepthAssumption DEF Slots
  <1> QED  BY <1>1, BodyParts DEF Iteration, EventOf, ResetWork, Items, IterationOf

LEMMA AdmitPipe ==
    ASSUME PipeInv, NEW c \in Client, Admit(c, StreamOf(c))
    PROVE  \E b2, q2 : Becomes(c, b2, q2)
  <1> DEFINE b == body[c]   q == stream[StreamOf(c)]
             full == Len(b.events) >= Depth
             e2 == IF full THEN Tail(b.events) ELSE b.events
             b2 == [b EXCEPT !.pc = "launch", !.events = e2]
  <1>1. b \in Bodies /\ q \in Seq(Items) /\ BodyInv(c, b) /\ QueueInv(c, b, q) /\ StreamOf(c) \in Client
    BY PipeFacts
  <1>2. body' = [body EXCEPT ![c] = b2]
    BY <1>1 DEF Admit, PipeInv, Bodies
  <1>3. stream' = [stream EXCEPT ![StreamOf(c)] = q]
    BY <1>1 DEF Admit, PipeInv
  <1>4. b.pc = "admit" /\ b.todo > 0 /\ (full => Reached(c, StreamOf(c), Head(b.events)))
    BY DEF Admit
  <1>5. b.events \in Seq(Int) /\ Len(b.events) <= Depth
        /\ \A i \in 1 .. Len(b.events) : b.events[i] = Forgotten(b) + i
    BY <1>1, BodyParts DEF BodyInv
  <1>6. /\ e2 \in Seq(Int) /\ Len(e2) < Depth
        /\ full => Len(e2) = Len(b.events) - 1 /\ Head(b.events) = Forgotten(b) + 1
        /\ ~full => Len(e2) = Len(b.events)
        /\ \A i \in 1 .. Len(e2) : e2[i] = IF full THEN b.events[i + 1] ELSE b.events[i]
    BY <1>5, DepthAssumption
  <1>7. b2 \in Bodies /\ b2.launched = b.launched /\ b2.events = e2 /\ b2.pc = "launch"
        /\ b2.slot = b.slot /\ b2.section = b.section
    BY <1>1, <1>6 DEF Bodies, Places
  <1> HIDE DEF b2, e2, full, b, q
  <1>8. /\ Recorded(b) = b.launched /\ Recorded(b2) = b.launched
        /\ Forgotten(b2) = IF full THEN Forgotten(b) + 1 ELSE Forgotten(b)
        /\ Forgotten(b) \in Int /\ Len(b.events) \in Nat
    <2>1. Forgotten(b) \in Int /\ Len(b.events) \in Nat /\ b.launched \in Nat
      BY <1>1, BodyParts
    <2> QED  BY <2>1, <1>4, <1>6, <1>7 DEF Recorded, Forgotten
  <1>9. BodyInv(c, b2)
    <2>1. \A i \in 1 .. Len(e2) : e2[i] = Forgotten(b2) + i
      <3> TAKE i \in 1 .. Len(e2)
      <3>1. CASE full
        <4>1. i + 1 \in 1 .. Len(b.events) /\ i \in Nat
          BY <1>6, <1>8, <3>1
        <4>2. e2[i] = b.events[i + 1]
          BY <1>6, <3>1
        <4>3. b.events[i + 1] = Forgotten(b) + (i + 1)
          BY <4>1, <1>5
        <4> QED  BY <4>1, <4>2, <4>3, <1>8, <3>1
      <3>2. CASE ~full
        BY <1>5, <1>6, <1>8, <3>2
      <3> QED  BY <3>1, <3>2
    <2>2. b.slot = (b.launched % Depth) /\ b.section # "over" /\ b.todo \in Int
          /\ (c \in Resetting /\ b.section = "calibrate" => b.todo = 0)
      BY <1>1, <1>4, BodyParts DEF BodyInv
    <2>3. Len(e2) <= Depth /\ Len(e2) < Depth
      BY <1>6, DepthAssumption
    <2> QED  BY <1>4, <1>7, <2>1, <2>2, <2>3 DEF BodyInv
  <1>10. QueueInv(c, b2, q)
    <2>1. ASSUME NEW i \in 1 .. Len(q), IterationOf(q[i], c)
          PROVE  q[i].id > Forgotten(b2)
      <3>1. q[i].id \in Nat /\ q[i].id > Forgotten(b)
        BY <1>1, <2>1, ItemParts DEF QueueInv
      <3>2. q[i].id <= Recorded(b) /\ \E j \in i + 1 .. Len(q) : IsEvent(q[j], c, q[i].id)
        BY <1>1, <1>8, <2>1 DEF QueueInv
      <3>3. CASE full /\ q[i].id = Forgotten(b) + 1
        <4>1. Reached(c, StreamOf(c), q[i].id)
          BY <1>4, <1>6, <3>3
        <4>2. PICK j \in i + 1 .. Len(q) : IsEvent(q[j], c, q[i].id)
          BY <3>2
        <4>3. q[j] \in ToSet(q)
          BY <1>1, <4>2 DEF ToSet
        <4> QED  BY <4>1, <4>2, <4>3 DEF Reached, IsEvent, q
      <3> QED  BY <1>8, <3>1, <3>3
    <2>2. b2.launched = b.launched /\ Recorded(b2) = Recorded(b)
      BY <1>7, <1>8
    <2> QED  BY <1>1, <2>1, <2>2 DEF QueueInv
  <1>11. CheckInv(c, b2, q)
    BY <1>7 DEF CheckInv
  <1> QED  BY <1>2, <1>3, <1>7, <1>9, <1>10, <1>11 DEF Becomes, q

LEMMA LaunchPipe ==
    ASSUME PipeInv, NEW c \in Client, NEW next, LaunchIter(c, StreamOf(c), next),
           \/ body[c].pc = "launch" /\ next = "record"
           \/ body[c].pc = "sync_launch" /\ next = "second_drain"
    PROVE  \E b2, q2 : Becomes(c, b2, q2)
  <1> DEFINE b == body[c]   q == stream[StreamOf(c)]   x == Iteration(c)   q2 == Append(q, x)
             b2 == [b EXCEPT !.pc = next, !.launched = @ + 1, !.slot = (@ + 1) % Depth]
  <1>1. b \in Bodies /\ q \in Seq(Items) /\ BodyInv(c, b) /\ QueueInv(c, b, q) /\ StreamOf(c) \in Client
    BY PipeFacts
  <1>2. body' = [body EXCEPT ![c] = b2]
    BY <1>1 DEF LaunchIter, PipeInv, Bodies
  <1>3. stream' = [stream EXCEPT ![StreamOf(c)] = q2]
    BY <1>1 DEF LaunchIter, Put, PipeInv
  <1>4. x \in Items /\ IterationOf(x, c) /\ x.client = c /\ x.id = b.launched + 1 /\ x.slot = b.slot
    BY ItemsPut DEF Iteration
  <1>5. b.launched \in Nat /\ b.slot \in Slots /\ b.slot = (b.launched % Depth) /\ b.events \in Seq(Int)
    BY <1>1, BodyParts DEF BodyInv
  <1>6. (b.slot + 1) % Depth = (b.launched + 1) % Depth /\ (b.slot + 1) % Depth \in Slots
    <2>1. ((b.launched % Depth) + 1) % Depth = (b.launched + 1) % Depth
      BY <1>5, ModNext
    <2>2. (b.launched + 1) % Depth \in 0 .. Depth - 1
      BY <1>5, DepthAssumption
    <2> QED  BY <1>5, <2>1, <2>2 DEF Slots
  <1>7. b2 \in Bodies /\ b2.launched = b.launched + 1 /\ b2.events = b.events /\ b2.pc = next
        /\ b2.slot = (b.slot + 1) % Depth /\ b2.section = b.section
    <2>1. b.launched + 1 \in Nat /\ next \in Places
      BY <1>5 DEF Places
    <2> HIDE DEF b
    <2> QED  BY <1>1, <1>6, <2>1 DEF Bodies
  <1> HIDE DEF b, q, b2, x, q2
  <1>8. b.pc \in {"launch", "sync_launch"} /\ next \in {"record", "second_drain"}
        /\ (b.pc = "launch" <=> next = "record")
    BY DEF b
  <1>9. Forgotten(b2) = Forgotten(b)
    BY <1>5, <1>7, <1>8 DEF Forgotten, Recorded
  <1>10. BodyInv(c, b2)
    BY <1>1, <1>5, <1>6, <1>7, <1>8, <1>9 DEF BodyInv
  <1>11. QueueInv(c, b2, q2)
    BY <1>1, <1>4, <1>7, <1>8, QueueLaunch DEF q2
  <1>12. CheckInv(c, b2, q2)
    <2>1. q2[Len(q) + 1] = x /\ Len(q) + 1 \in 1 .. Len(q2)
      BY <1>1, <1>4, AppendParts DEF q2
    <2> QED  BY <2>1, <1>4, <1>7, <1>8 DEF CheckInv
  <1> QED  BY <1>2, <1>3, <1>4, <1>7, <1>10, <1>11, <1>12 DEF Becomes, q2, q

LEMMA RecordPipe ==
    ASSUME PipeInv, NEW c \in Client, Record(c, StreamOf(c))
    PROVE  \E b2, q2 : Becomes(c, b2, q2)
  <1> DEFINE b == body[c]   q == stream[StreamOf(c)]   x == EventOf(c)   q2 == Append(q, x)
             e2 == Append(b.events, b.launched)
             b2 == [b EXCEPT !.pc = "admit", !.todo = @ - 1, !.events = e2]
  <1>1. b \in Bodies /\ q \in Seq(Items) /\ BodyInv(c, b) /\ QueueInv(c, b, q) /\ StreamOf(c) \in Client
    BY PipeFacts
  <1>2. body' = [body EXCEPT ![c] = b2] /\ b.pc = "record"
    BY <1>1 DEF Record, PipeInv, Bodies
  <1>3. stream' = [stream EXCEPT ![StreamOf(c)] = q2]
    BY <1>1 DEF Record, Put, PipeInv
  <1>4. x \in Items /\ ~IterationOf(x, c) /\ x.client = c /\ IsEvent(x, c, b.launched)
    BY ItemsPut DEF EventOf, IsEvent
  <1>5. /\ b.launched \in Nat /\ b.events \in Seq(Int) /\ Len(b.events) \in Nat /\ b.todo \in Int
        /\ Len(b.events) < Depth /\ b.launched > 0
        /\ \A i \in 1 .. Len(b.events) : b.events[i] = Forgotten(b) + i
    BY <1>1, <1>2, BodyParts DEF BodyInv
  <1>6. /\ e2 \in Seq(Int) /\ Len(e2) = Len(b.events) + 1 /\ e2[Len(b.events) + 1] = b.launched
        /\ \A i \in 1 .. Len(b.events) : e2[i] = b.events[i]
    BY <1>5
  <1>7. b2 \in Bodies /\ b2.launched = b.launched /\ b2.events = e2 /\ b2.pc = "admit"
        /\ b2.slot = b.slot /\ b2.section = b.section
    <2>1. b.todo - 1 \in Int /\ "admit" \in Places
      BY <1>5 DEF Places
    <2> HIDE DEF b, e2
    <2> QED  BY <1>1, <1>6, <2>1 DEF Bodies
  <1> HIDE DEF b, q, b2, x, q2, e2
  <1>8. Recorded(b) = b.launched - 1 /\ Recorded(b2) = b.launched
        /\ Forgotten(b2) = Forgotten(b) /\ Forgotten(b) = b.launched - 1 - Len(b.events)
    BY <1>2, <1>5, <1>6, <1>7 DEF Forgotten, Recorded
  <1>9. BodyInv(c, b2)
    <2>1. \A i \in 1 .. Len(e2) : e2[i] = Forgotten(b2) + i
      <3> TAKE i \in 1 .. Len(e2)
      <3>1. CASE i = Len(b.events) + 1
        BY <1>5, <1>6, <1>8, <3>1, SMTT(30)
      <3>2. CASE i \in 1 .. Len(b.events)
        BY <1>5, <1>6, <1>8, <3>2
      <3> QED  BY <1>5, <1>6, <3>1, <3>2
    <2>2. Len(e2) <= Depth
      BY <1>5, <1>6, DepthAssumption
    <2> QED  BY <1>1, <1>2, <1>7, <2>1, <2>2 DEF BodyInv
  <1>10. QueueInv(c, b2, q2)
    <2>1. \A id \in Nat : id <= Recorded(b2) =>
             id <= Recorded(b) \/ id > b.launched \/ IsEvent(x, c, id)
      BY <1>4, <1>5, <1>8
    <2>2. Forgotten(b2) <= Forgotten(b)
      BY <1>5, <1>8
    <2> QED  BY <1>1, <1>4, <1>7, <2>1, <2>2, QueuePut DEF q2
  <1>11. CheckInv(c, b2, q2)
    BY <1>7 DEF CheckInv
  <1> QED  BY <1>2, <1>3, <1>4, <1>7, <1>9, <1>10, <1>11 DEF Becomes, q2, q

\* A step that neither launches nor records: the body moves to another place
\* with the same iterations behind it, or with none and an empty stream.
MovesOn(c, b2) ==
    /\ b2 \in Bodies /\ body' = [body EXCEPT ![c] = b2]
    /\ b2.launched = body[c].launched /\ b2.slot = body[c].slot /\ b2.out = body[c].out
    /\ b2.events = <<>>
    /\ b2.pc \notin {"launch", "record", "second_drain"}
    /\ b2.pc = "barrier" => b2.section = "warmup"
    /\ b2.pc \in {"first_drain", "sync_launch", "read"} => b2.section = "check"
    /\ b2.pc = "over" <=> b2.section = "over"
    /\ b2.section # "calibrate"
    /\ b2.pc = "read" => body[c].launched > 0

LEMMA MoveBody ==
    ASSUME PipeInv, NEW c \in Client, NEW b2, MovesOn(c, b2)
    PROVE  BodyInv(c, b2)
  <1>1. BodyInv(c, body[c]) /\ body[c].launched \in Nat
    BY PipeFacts, BodyParts
  <1> QED  BY <1>1, DepthAssumption DEF BodyInv, MovesOn

LEMMA StayPipe ==
    ASSUME PipeInv, NEW c \in Client, NEW b2, MovesOn(c, b2), UNCHANGED stream,
           body[c].events = <<>>, body[c].pc \notin {"record", "second_drain"}, b2.pc # "read"
    PROVE  Becomes(c, b2, stream[StreamOf(c)])
  <1> DEFINE b == body[c]   q == stream[StreamOf(c)]
  <1>1. BodyInv(c, b2) /\ QueueInv(c, b, q) /\ StreamOf(c) \in Client
    BY MoveBody, PipeFacts
  <1>2. Recorded(b2) = Recorded(b) /\ Forgotten(b2) = Forgotten(b) /\ b2.launched = b.launched
    BY DEF MovesOn, Recorded, Forgotten
  <1>3. QueueInv(c, b2, q)
    BY <1>1, <1>2, QueueSame
  <1>4. CheckInv(c, b2, q)
    BY DEF CheckInv, MovesOn
  <1>5. stream' = [stream EXCEPT ![StreamOf(c)] = q]
    BY <1>1 DEF PipeInv
  <1> QED  BY <1>1, <1>3, <1>4, <1>5 DEF Becomes, MovesOn

LEMMA DrainPipe ==
    ASSUME PipeInv, NEW c \in Client, NEW b2, MovesOn(c, b2), Drain(c, StreamOf(c)),
           b2.pc = "read" => body[c].pc = "second_drain"
    PROVE  \E q2 : Becomes(c, b2, q2)
  <1> DEFINE b == body[c]   q == stream[StreamOf(c)]   x == ResetWork(c)
             q2 == IF c \in Resetting THEN Append(q, x) ELSE q
  <1>1. BodyInv(c, b2) /\ CheckInv(c, b, q) /\ StreamOf(c) \in Client
    BY MoveBody, PipeFacts
  <1>2. q = <<>> /\ stream' = [stream EXCEPT ![StreamOf(c)] = q2]
    BY <1>1 DEF Drain, Put, PipeInv
  <1>3. x \in Items /\ x.client = c /\ x.item = "reset"
    BY ItemsPut DEF ResetWork
  <1>4. QueueInv(c, b2, q2)
    BY <1>2, <1>3, QueueEmpty
  <1>5. CheckInv(c, b2, q2)
    <2>1. b2.pc = "read" => b.out[Latest(b)] = b.launched
      BY <1>1, <1>2 DEF CheckInv
    <2>2. Latest(b2) = Latest(b)
      BY DEF Latest, MovesOn
    <2> QED  BY <2>1, <2>2 DEF CheckInv, MovesOn
  <1> QED  BY <1>1, <1>2, <1>3, <1>4, <1>5 DEF Becomes, MovesOn

LEMMA MovePipe ==
    ASSUME PipeInv, NEW c \in Client,
           \/ EndCalibrate(c, StreamOf(c)) \/ FirstDrain(c, StreamOf(c))
           \/ SecondDrain(c, StreamOf(c)) \/ Read(c, StreamOf(c))
           \/ EndWarmup(c, StreamOf(c)) \/ EndTimed(c, StreamOf(c)) \/ StartTimed(c)
    PROVE  \E b2, q2 : Becomes(c, b2, q2)
  <1> DEFINE b == body[c]
  <1>1. b \in Bodies /\ BodyInv(c, b) /\ body \in [Client -> Bodies]
    BY PipeFacts DEF PipeInv
  <1>2. <<>> \in Seq(Int) /\ Warmup \in Int /\ Timed \in Int
    BY DepthAssumption
  <1>3. CASE EndCalibrate(c, StreamOf(c))
    <2> DEFINE b2 == [b EXCEPT !.section = "check", !.pc = "first_drain", !.events = <<>>]
    <2>1. MovesOn(c, b2) /\ b2.pc # "read"
      BY <1>1, <1>2, <1>3 DEF MovesOn, EndCalibrate, Bodies, Sections, Places
    <2> HIDE DEF b2
    <2>2. CASE c \in Resetting
      <3>1. UNCHANGED stream /\ b.events = <<>> /\ b.pc = "admit"
        BY <1>1, <1>3, <2>2 DEF EndCalibrate, Ended, BodyInv
      <3> QED  BY <2>1, <3>1, StayPipe
    <2>3. CASE c \notin Resetting
      <3>1. Drain(c, StreamOf(c))
        BY <1>3, <2>3 DEF EndCalibrate
      <3> QED  BY <2>1, <3>1, DrainPipe
    <2> QED  BY <2>2, <2>3
  <1>4. CASE FirstDrain(c, StreamOf(c))
    <2> DEFINE b2 == [b EXCEPT !.pc = "sync_launch", !.events = <<>>]
    <2>1. MovesOn(c, b2) /\ (b2.pc = "read" => b.pc = "second_drain")
      BY <1>1, <1>2, <1>4 DEF MovesOn, FirstDrain, Bodies, Sections, Places, BodyInv
    <2>2. Drain(c, StreamOf(c))
      BY <1>4 DEF FirstDrain
    <2> HIDE DEF b2
    <2> QED  BY <2>1, <2>2, DrainPipe
  <1>5. CASE SecondDrain(c, StreamOf(c))
    <2> DEFINE b2 == [b EXCEPT !.pc = "read", !.events = <<>>]
    <2>1. MovesOn(c, b2) /\ (b2.pc = "read" => b.pc = "second_drain")
      BY <1>1, <1>2, <1>5 DEF MovesOn, SecondDrain, Bodies, Sections, Places, BodyInv
    <2>2. Drain(c, StreamOf(c))
      BY <1>5 DEF SecondDrain
    <2> HIDE DEF b2
    <2> QED  BY <2>1, <2>2, DrainPipe
  <1>6. CASE Read(c, StreamOf(c))
    <2> DEFINE b2 == IF b.checks > 1
                     THEN [b EXCEPT !.checks = @ - 1, !.pc = "first_drain"]
                     ELSE [b EXCEPT !.section = "warmup", !.todo = Warmup, !.pc = "admit"]
    <2>1. MovesOn(c, b2) /\ b2.pc # "read"
      <3>1. b.pc = "read" /\ b.section = "check" /\ b.events = <<>> /\ b.checks \in Int
        BY <1>1, <1>6, BodyParts DEF Read, BodyInv
      <3>2. CASE b.checks > 1
        <4>1. b2 = [b EXCEPT !.checks = @ - 1, !.pc = "first_drain"] /\ b.checks - 1 \in Int
          BY <3>1, <3>2
        <4>2. body' = [body EXCEPT ![c] = b2]
          BY <1>1, <1>6, <3>2, <4>1 DEF Read, Bodies
        <4> QED  BY <1>1, <1>2, <3>1, <4>1, <4>2 DEF MovesOn, Bodies, Places
      <3>3. CASE ~(b.checks > 1)
        <4>1. b2 = [b EXCEPT !.section = "warmup", !.todo = Warmup, !.pc = "admit"]
          BY <3>3
        <4>2. body' = [body EXCEPT ![c] = b2]
          BY <1>1, <1>6, <3>3, <4>1 DEF Read, Bodies
        <4> QED  BY <1>1, <1>2, <3>1, <4>1, <4>2 DEF MovesOn, Bodies, Places, Sections
      <3> QED  BY <3>2, <3>3
    <2>2. b.events = <<>> /\ b.pc \in {"read", "barrier"} /\ UNCHANGED stream
      BY <1>1, <1>6 DEF Read, BodyInv
    <2> HIDE DEF b2
    <2> QED  BY <2>1, <2>2, StayPipe
  <1>7. CASE EndWarmup(c, StreamOf(c))
    <2> DEFINE b2 == [b EXCEPT !.pc = "barrier", !.events = <<>>]
    <2>1. MovesOn(c, b2) /\ (b2.pc = "read" => b.pc = "second_drain")
      BY <1>1, <1>2, <1>7 DEF MovesOn, EndWarmup, Ended, Bodies, Sections, Places, BodyInv
    <2>2. Drain(c, StreamOf(c))
      BY <1>7 DEF EndWarmup
    <2> HIDE DEF b2
    <2> QED  BY <2>1, <2>2, DrainPipe
  <1>8. CASE EndTimed(c, StreamOf(c))
    <2> DEFINE b2 == [b EXCEPT !.section = "over", !.pc = "over", !.events = <<>>]
    <2>1. MovesOn(c, b2) /\ (b2.pc = "read" => b.pc = "second_drain")
      BY <1>1, <1>2, <1>8 DEF MovesOn, EndTimed, Ended, Bodies, Sections, Places, BodyInv
    <2>2. Drain(c, StreamOf(c))
      BY <1>8 DEF EndTimed
    <2> HIDE DEF b2
    <2> QED  BY <2>1, <2>2, DrainPipe
  <1>9. CASE StartTimed(c)
    <2> DEFINE b2 == [b EXCEPT !.section = "timed", !.todo = Timed, !.pc = "admit"]
    <2>1. MovesOn(c, b2) /\ b2.pc # "read"
      BY <1>1, <1>2, <1>9 DEF MovesOn, StartTimed, Bodies, Sections, Places, BodyInv
    <2>2. b.events = <<>> /\ b.pc \in {"read", "barrier"} /\ UNCHANGED stream
      BY <1>1, <1>9 DEF StartTimed, BodyInv
    <2> HIDE DEF b2
    <2> QED  BY <2>1, <2>2, StayPipe
  <1> QED  BY <1>3, <1>4, <1>5, <1>6, <1>7, <1>8, <1>9

LEMMA BodyStepPipe ==
    ASSUME PipeInv, program' = program, NEW c \in Client,
           BodyStep(c, StreamOf(c)) \/ StartTimed(c)
    PROVE  PipeInv'
  <1>1. CASE Launch(c, StreamOf(c)) \/ SyncLaunch(c, StreamOf(c))
    BY <1>1, LaunchPipe, OwnStep DEF Launch, SyncLaunch
  <1>2. CASE Admit(c, StreamOf(c)) \/ Record(c, StreamOf(c))
    BY <1>2, AdmitPipe, RecordPipe, OwnStep
  <1> QED  BY <1>1, <1>2, MovePipe, OwnStep DEF BodyStep

\* Stream s holds nothing but restored state; nothing but that and the
\* timed section.
Settled(s) == \A i \in 1 .. Len(stream[s]) : stream[s][i].item = "reset"
TimedOnly(s) == \A i \in 1 .. Len(stream[s]) :
    stream[s][i].item = "reset" \/ stream[s][i].section = "timed"

\* The GPU finishes the head of stream s.
LEMMA RetirePipe ==
    ASSUME PipeInv, program' = program, NEW s \in Client, Retire(s)
    PROVE  PipeInv'
  <1> DEFINE x == Head(stream[s])
  <1>1. /\ stream[s] \in Seq(Items) /\ stream[s] # <<>> /\ x = stream[s][1]
        /\ 1 \in 1 .. Len(stream[s]) /\ x \in Items
        /\ body \in [Client -> Bodies] /\ stream \in [Client -> Seq(Items)]
    BY DEF Retire, PipeInv
  <1>2. x.client \in Client /\ x.slot \in Slots /\ x.id \in Nat
    BY <1>1, ItemParts
  <1>3. /\ stream' \in [Client -> Seq(Items)] /\ stream'[s] = Tail(stream[s])
        /\ \A r \in Client \ {s} : stream'[r] = stream[r]
    BY <1>1, TailParts DEF Retire
  <1>4. /\ x.item = "iteration" => StreamOf(x.client) = s
        /\ \A d \in Client : StreamOf(d)' = StreamOf(d)
    BY <1>1 DEF PipeInv, StreamOf
  <1>5. ASSUME NEW d \in Client
        PROVE  /\ body'[d] \in Bodies
               /\ IF IterationOf(x, d) THEN body'[d] = [body[d] EXCEPT !.out[x.slot] = x.id]
                                       ELSE body'[d] = body[d]
    <2> HIDE DEF x
    <2>1. body[d] \in Bodies /\ body[d].out \in [Slots -> Int]
      BY <1>1, BodyParts
    <2>2. [body[d] EXCEPT !.out[x.slot] = x.id] \in Bodies
      <3> DEFINE out == [body[d].out EXCEPT ![x.slot] = x.id]
      <3>1. out \in [Slots -> Int]
        BY <2>1, <1>2
      <3>2. [body[d] EXCEPT !.out[x.slot] = x.id] = [body[d] EXCEPT !.out = out]
        BY <2>1 DEF Bodies
      <3> HIDE DEF out
      <3> QED  BY <2>1, <3>1, <3>2 DEF Bodies
    <2>3. body' = IF x.item = "iteration"
                  THEN [body EXCEPT ![x.client].out[x.slot] = x.id] ELSE body
      BY DEF Retire, x
    <2> QED  BY <1>1, <1>2, <2>1, <2>2, <2>3 DEF IterationOf
  <1>6. body' \in [Client -> Bodies]
    <2>1. body' = [d \in Client |-> body'[d]]
      BY <1>1, <1>2 DEF Retire
    <2> QED  BY <1>5, <2>1
  <1>7. ASSUME NEW d \in Client
        PROVE  /\ BodyInv(d, body'[d])
               /\ QueueInv(d, body'[d], stream'[StreamOf(d)])
               /\ CheckInv(d, body'[d], stream'[StreamOf(d)])
    <2> DEFINE b == body[d]   q == stream[StreamOf(d)]   b2 == body'[d]
    <2>1. /\ b \in Bodies /\ q \in Seq(Items) /\ StreamOf(d) \in Client
          /\ BodyInv(d, b) /\ QueueInv(d, b, q) /\ CheckInv(d, b, q)
      BY PipeFacts
    <2>2. /\ b2.launched = b.launched /\ b2.events = b.events /\ b2.slot = b.slot
          /\ b2.pc = b.pc /\ b2.section = b.section /\ b2.todo = b.todo
      BY <1>5, <2>1 DEF Bodies
    <2>3. IterationOf(x, d) => b2.out = [b.out EXCEPT ![x.slot] = x.id]
      BY <1>5, <2>1 DEF Bodies
    <2>4. ~IterationOf(x, d) => b2 = b
      BY <1>5
    <2>5. StreamOf(d) = s => q = stream[s] /\ stream'[StreamOf(d)] = Tail(q) /\ q # <<>> /\ x = q[1]
      BY <1>1, <1>3
    <2>6. StreamOf(d) # s => stream'[StreamOf(d)] = q /\ ~IterationOf(x, d)
      BY <1>3, <1>4, <2>1 DEF IterationOf
    <2> HIDE DEF b, q, b2, x
    <2>7. Recorded(b2) = Recorded(b) /\ Forgotten(b2) = Forgotten(b) /\ Latest(b2) = Latest(b)
      BY <2>2 DEF Recorded, Forgotten, Latest
    <2>8. BodyInv(d, b2)
      BY <2>1, <2>2, <2>7 DEF BodyInv
    <2>9. CASE StreamOf(d) # s
      BY <2>1, <2>4, <2>6, <2>8, <2>9 DEF b2
    <2>10. CASE StreamOf(d) = s
      <3>1. q # <<>> /\ x = q[1] /\ stream'[StreamOf(d)] = Tail(q)
        BY <2>5, <2>10
      <3>2. QueueInv(d, b, Tail(q))
        BY <2>1, <3>1, QueueTail
      <3>3. QueueInv(d, b2, Tail(q))
        BY <3>2, <2>2, <2>7, QueueSame
      <3>4. CheckInv(d, b2, Tail(q))
        <4>1. CASE IterationOf(x, d) /\ b.pc \in {"second_drain", "read"}
          <5>1. Forgotten(b) = Recorded(b) /\ b.launched \in Nat /\ b.launched > 0
            BY <2>1, <4>1, BodyParts DEF BodyInv, Forgotten
          <5>2. x.id > Forgotten(b) /\ x.id <= b.launched /\ x.id \in Nat /\ x.slot = (x.id - 1) % Depth
            BY <3>1, <4>1, <1>2, <2>1, TailParts DEF QueueInv
          <5>3. b.pc = "second_drain" /\ x.id = b.launched
            BY <4>1, <5>1, <5>2 DEF Recorded
          <5>4. Latest(b) = x.slot
            <6>1. b.slot = (b.launched % Depth) /\ b.launched - 1 \in Nat /\ b.launched = (b.launched - 1) + 1
              BY <2>1, <5>1 DEF BodyInv
            <6>2. (((b.launched - 1 + 1) % Depth) + Depth - 1) % Depth = (b.launched - 1) % Depth
              BY <6>1, ModBack
            <6> QED  BY <5>2, <5>3, <6>1, <6>2 DEF Latest
          <5>5. b2.out[Latest(b)] = b.launched
            BY <5>3, <5>4, <2>1, <2>3, <4>1, <1>2, BodyParts
          <5> QED  BY <5>3, <5>5, <2>2, <2>7 DEF CheckInv
        <4>2. CASE ~IterationOf(x, d)
          <5>1. ASSUME b.pc = "second_drain", NEW i \in 1 .. Len(q),
                       IterationOf(q[i], d), q[i].id = b.launched
                PROVE  \E k \in 1 .. Len(Tail(q)) : IterationOf(Tail(q)[k], d) /\ Tail(q)[k].id = b.launched
            <6>1. i # 1
              BY <5>1, <4>2, <3>1
            <6>2. i - 1 \in 1 .. Len(Tail(q)) /\ Tail(q)[i - 1] = q[i]
              BY <6>1, <2>1, <3>1, TailParts
            <6> QED  BY <5>1, <6>2
          <5> QED  BY <5>1, <2>1, <2>4, <4>2 DEF CheckInv
        <4>3. CASE b.pc \notin {"second_drain", "read"}
          BY <4>3, <2>2 DEF CheckInv
        <4> QED  BY <4>1, <4>2, <4>3
      <3> QED  BY <2>8, <3>1, <3>3, <3>4 DEF b2
    <2> QED  BY <2>9, <2>10
  <1>8. ASSUME NEW r \in Client, NEW i \in 1 .. Len(stream'[r]), stream'[r][i].item = "iteration"
        PROVE  StreamOf(stream'[r][i].client) = r
    <2>1. CASE r # s
      BY <1>3, <1>8, <2>1 DEF PipeInv
    <2>2. CASE r = s
      <3> DEFINE q == stream[s]
      <3>1. i + 1 \in 1 .. Len(q) /\ stream'[r][i] = q[i + 1]
        <4>1. q \in Seq(Items) /\ q # <<>> /\ stream'[r] = Tail(q) /\ i \in 1 .. Len(Tail(q))
          BY <1>1, <1>3, <1>8, <2>2
        <4> HIDE DEF q
        <4>2. Len(Tail(q)) = Len(q) - 1 /\ Len(q) \in Nat /\ Tail(q)[i] = q[i + 1]
          BY <4>1, TailParts
        <4> QED  BY <4>1, <4>2
      <3> QED  BY <3>1, <1>8, <2>2 DEF PipeInv
    <2> QED  BY <2>1, <2>2
  <1> QED
    <2>1. \A d \in Client : BodyInv(d, body'[d])
      BY <1>7
    <2>2. \A d \in Client : QueueInv(d, body'[d], stream'[StreamOf(d)'])
      BY <1>4, <1>7
    <2>3. \A d \in Client : CheckInv(d, body'[d], stream'[StreamOf(d)'])
      BY <1>4, <1>7
    <2>4. (\A r \in Client : \A i \in 1 .. Len(stream[r]) :
              stream[r][i].item = "iteration" => StreamOf(stream[r][i].client) = r)'
      BY <1>8 DEF StreamOf
    <2> QED  BY <1>3, <1>6, <2>1, <2>2, <2>3, <2>4 DEF PipeInv, BodyInv, QueueInv, CheckInv

LEMMA FreshBodies ==
    \A c \in Client : FreshBody(c) \in Bodies /\ BodyInv(c, FreshBody(c))
  <1> TAKE c \in Client
  <1> DEFINE b == FreshBody(c)
  <1>1. /\ 0 \in Slots /\ 0 % Depth = 0 /\ Depth + Probes \in Int /\ <<>> \in Seq(Int)
        /\ [s \in Slots |-> 0] \in [Slots -> Int]
    BY SmallMod, DepthAssumption DEF Slots
  <1>2. b \in Bodies
    BY <1>1 DEF FreshBody, Bodies, Sections, Places
  <1>3. /\ b.section = "calibrate" /\ b.pc = "admit" /\ b.events = <<>> /\ b.slot = 0
        /\ b.launched = 0 /\ (c \in Resetting => b.todo = 0)
    BY DEF FreshBody
  <1> HIDE DEF b
  <1>4. BodyInv(c, b)
    BY <1>1, <1>3, DepthAssumption DEF BodyInv
  <1> QED  BY <1>2, <1>4 DEF b

\* A program begins with no iteration left anywhere.
LEMMA FreshPipe ==
    ASSUME \A s \in Client : stream[s] \in Seq(Items) /\ Settled(s), stream \in [Client -> Seq(Items)],
           UNCHANGED stream, body' = [c \in Client |-> FreshBody(c)]
    PROVE  PipeInv'
  <1>1. \A c \in Client : FreshBody(c) \in Bodies /\ BodyInv(c, FreshBody(c))
    BY FreshBodies
  <1>2. ASSUME NEW c \in Client, NEW s \in Client
        PROVE  QueueInv(c, FreshBody(c), stream[s]) /\ CheckInv(c, FreshBody(c), stream[s])
    BY DEF Settled, QueueInv, CheckInv, IterationOf, FreshBody
  <1>3. (\A c \in Client : StreamOf(c) \in Client)'
    BY ClientsAssumption DEF StreamOf, Client
  <1>4. body' \in [Client -> Bodies] /\ \A c \in Client : body'[c] = FreshBody(c)
    BY <1>1
  <1>5. (\A c \in Client : BodyInv(c, body[c]) /\ QueueInv(c, body[c], stream[StreamOf(c)])
                           /\ CheckInv(c, body[c], stream[StreamOf(c)]))'
    BY <1>1, <1>2, <1>3, <1>4
  <1>6. (\A s \in Client : \A i \in 1 .. Len(stream[s]) : stream[s][i].item # "iteration")'
    BY DEF Settled
  <1> QED  BY <1>4, <1>5, <1>6 DEF PipeInv

(***************************************************************************)
(* The clients' meeting and the ends of the modes                          *)
(***************************************************************************)
\* Behind the barrier; at it or behind it, which every arrival is.
Crossed(c) == body[c].section \in {"timed", "over"}
Met == {c \in Client : Crossed(c) \/
                       (body[c].pc = "barrier" /\ cpc[c] \in {"atDemo", "passed", "handler", "exited"})}

\* In demo and in streams: who is behind the barrier has met everybody.
MeetInv ==
    /\ barrier \in [Barriers -> {"filling", "draining", "broken"}]
    /\ arrived \in [Barriers -> Nat]
    /\ program \in {"demo", "streams"} =>
          /\ arrived["demo"] <= Cardinality(Met)
          /\ barrier["demo"] = "draining" => arrived["demo"] >= NumClients
          /\ \A c \in Client :
                /\ cpc[c] = "passed" \/ Crossed(c) => arrived["demo"] >= NumClients
                /\ cpc[c] \in {"atDemo", "passed"} => body[c].pc = "barrier"
                /\ body[c].pc = "barrier" \/ Crossed(c) => TimedOnly(c)
                /\ body[c].pc = "over" => Settled(c)

\* Where a client thread can be.
ThreadPlaces == {"none", "born", "atStart", "body", "atDemo", "passed",
                 "handler", "exited"}

\* The whole device is idle.
AllEmpty == \A s \in Client : stream[s] = <<>>

\* What is known where a mode ends, and on the way there: a colocated launch
\* has synchronised, a worker of streams that did not raise has drained, and
\* seq is done with one client before it turns to the next.
EndInv ==
    /\ cpc \in [Client -> ThreadPlaces]
    /\ errors \in [Client -> {"none", "own", "broken"}]
    /\ mpc = "idle" => AllEmpty /\ AllIn("none")
    /\ mpc = "awaiting" => spawned = 0
    /\ mpc = "spawning" => spawned \in Nat /\ \A c \in Client : c >= spawned => cpc[c] = "none"
    /\ program \in {"none", "plain", "demo", "seq", "streams"}
    /\ program = "none" => mpc = "idle"
    /\ program = "plain" => \A s \in Client : Settled(s)
    /\ Colocated /\ mpc \in {"synchronized", "stopping", "returned"} => AllEmpty
    /\ program = "streams" =>
          /\ mpc \in {"spawning", "joining", "returned", "raised"}
          /\ mpc = "returned" => AllIn("exited")
          /\ \A c \in Client : errors[c] = "none" =>
                cpc[c] # "handler" /\ (cpc[c] = "exited" => body[c].pc = "over")
          /\ mpc = "returned" => \A c \in Client : errors[c] = "none"
    /\ program = "seq" =>
          /\ mpc \in {"turns", "returned", "raised"}
          /\ mpc = "turns" => \A c \in Client : c # spawned => cpc[c] \in {"none", "exited"}
          /\ mpc = "returned" => AllEmpty /\ \A c \in Client : cpc[c] \in {"none", "exited"}

USE DEF ThreadPlaces

LEMMA ClientsFinite == IsFiniteSet(Client) /\ Cardinality(Client) = NumClients
  <1>1. Client = 0 .. NumClients - 1 /\ NumClients \in Nat
    BY ClientsAssumption DEF Client
  <1> QED  BY <1>1, FS_Interval, ClientsAssumption

LEMMA MetFinite ==
    /\ IsFiniteSet(Met) /\ Cardinality(Met) \in Nat /\ Cardinality(Met) <= NumClients
    /\ Cardinality(Met) = NumClients => Met = Client
  <1>1. Met \subseteq Client
    BY DEF Met
  <1>2. IsFiniteSet(Met) /\ Cardinality(Met) <= NumClients
        /\ (Cardinality(Met) = NumClients => Met = Client)
    BY <1>1, ClientsFinite, FS_Subset
  <1> QED  BY <1>2, FS_CardinalityType

LEMMA MetGrows ==
    ASSUME Met \subseteq Met'
    PROVE  Cardinality(Met) <= Cardinality(Met')
  <1>1. IsFiniteSet(Met')
    <2>1. Met' \subseteq Client
      BY DEF Met
    <2> QED  BY <2>1, ClientsFinite, FS_Subset
  <1> QED  BY <1>1, FS_Subset

\* A step of client_body, seen from outside.
Seen(c) ==
    /\ UNCHANGED launchVars
    /\ \A d \in Client \ {c} : body'[d] = body[d]
    /\ \A r \in Client \ {StreamOf(c)} : stream'[r] = stream[r]
    /\ body[c].pc \notin {"barrier", "over"}
    /\ body'[c].section \in {"timed", "over"} <=> body[c].section \in {"timed", "over"}
    /\ body'[c].pc \in {"barrier", "over"} =>
          \A i \in 1 .. Len(stream'[StreamOf(c)]) : stream'[StreamOf(c)][i].item = "reset"
    /\ body[c].section \in {"timed", "over"} =>
          \A i \in 1 .. Len(stream'[StreamOf(c)]) :
             \/ i \in 1 .. Len(stream[StreamOf(c)]) /\ stream'[StreamOf(c)][i] = stream[StreamOf(c)][i]
             \/ stream'[StreamOf(c)][i].item = "reset"
             \/ stream'[StreamOf(c)][i].section = "timed"

LEMMA StepEffect ==
    ASSUME PipeInv, NEW c \in Client, Step(c)
    PROVE  Seen(c)
  <1> DEFINE b == body[c]   s == StreamOf(c)   q == stream[s]   b2 == body'[c]   q2 == stream'[s]
  <1>1. /\ b \in Bodies /\ s \in Client /\ q \in Seq(Items) /\ BodyInv(c, b)
        /\ body \in [Client -> Bodies] /\ stream \in [Client -> Seq(Items)]
    BY PipeFacts DEF PipeInv
  <1>2. UNCHANGED launchVars /\ BodyStep(c, s)
    BY DEF Step
  <1>3. CASE Admit(c, s)
    <2>1. b2.section = b.section /\ b2.pc = "launch" /\ b.pc = "admit" /\ UNCHANGED stream
      BY <1>1, <1>3 DEF Admit, Bodies
    <2>2. \A d \in Client \ {c} : body'[d] = body[d]
      BY <1>1, <1>3 DEF Admit
    <2> QED  BY <1>2, <2>1, <2>2 DEF Seen
  <1>4. CASE Launch(c, s) \/ SyncLaunch(c, s)
    <2>1. q2 = Append(q, Iteration(c)) /\ b2.section = b.section
          /\ b2.pc \in {"record", "second_drain"} /\ b.pc \in {"launch", "sync_launch"}
      BY <1>1, <1>4, SMTT(30) DEF Launch, SyncLaunch, LaunchIter, Put, Bodies
    <2>2. Iteration(c).section = b.section /\ b.section # "over"
      BY <1>1, <2>1 DEF Iteration, BodyInv
    <2>3. /\ \A d \in Client \ {c} : body'[d] = body[d]
          /\ \A r \in Client \ {s} : stream'[r] = stream[r]
      BY <1>1, <1>4 DEF Launch, SyncLaunch, LaunchIter, Put
    <2>4. \A i \in 1 .. Len(q2) : (i \in 1 .. Len(q) /\ q2[i] = q[i]) \/ q2[i] = Iteration(c)
      <3>1. Iteration(c) \in Items
        BY ItemsPut
      <3> HIDE DEF q, q2
      <3> QED  BY <1>1, <2>1, <3>1, AppendParts
    <2> QED  BY <1>2, <2>1, <2>2, <2>3, <2>4 DEF Seen
  <1>5. CASE Record(c, s)
    <2>1. q2 = Append(q, EventOf(c)) /\ b2.section = b.section /\ b2.pc = "admit" /\ b.pc = "record"
      BY <1>1, <1>5 DEF Record, Put, Bodies
    <2>2. EventOf(c).section = b.section /\ b.section # "over"
      BY <1>1, <2>1 DEF EventOf, BodyInv
    <2>3. /\ \A d \in Client \ {c} : body'[d] = body[d]
          /\ \A r \in Client \ {s} : stream'[r] = stream[r]
      BY <1>1, <1>5 DEF Record, Put
    <2>4. \A i \in 1 .. Len(q2) : (i \in 1 .. Len(q) /\ q2[i] = q[i]) \/ q2[i] = EventOf(c)
      <3>1. EventOf(c) \in Items
        BY ItemsPut
      <3> HIDE DEF q, q2
      <3> QED  BY <1>1, <2>1, <3>1, AppendParts
    <2> QED  BY <1>2, <2>1, <2>2, <2>3, <2>4 DEF Seen
  <1>6. CASE \/ FirstDrain(c, s) \/ SecondDrain(c, s) \/ EndWarmup(c, s) \/ EndTimed(c, s)
             \/ (EndCalibrate(c, s) /\ c \notin Resetting)
    <2>1. Drain(c, s)
      BY <1>6 DEF FirstDrain, SecondDrain, EndWarmup, EndTimed, EndCalibrate
    <2>2. /\ q2 = <<>> \/ q2 = Append(<<>>, ResetWork(c))
          /\ \A r \in Client \ {s} : stream'[r] = stream[r]
      BY <1>1, <2>1 DEF Drain, Put
    <2>3. \A i \in 1 .. Len(q2) : q2[i].item = "reset"
      BY <2>2 DEF ResetWork
    <2>4. /\ \A d \in Client \ {c} : body'[d] = body[d]
          /\ b.pc \notin {"barrier", "over"}
      BY <1>1, <1>6 DEF FirstDrain, SecondDrain, EndWarmup, EndTimed, EndCalibrate, Ended
    <2>5. b2.section \in {"timed", "over"} <=> b.section \in {"timed", "over"}
      BY <1>1, <1>6 DEF FirstDrain, SecondDrain, EndWarmup, EndTimed, EndCalibrate, Ended, Bodies
    <2> QED  BY <1>2, <2>2, <2>3, <2>4, <2>5 DEF Seen
  <1>7. CASE Read(c, s) \/ (EndCalibrate(c, s) /\ c \in Resetting)
    <2>1. UNCHANGED stream
      BY <1>7 DEF Read, EndCalibrate
    <2>2. /\ b.section \in {"calibrate", "check"} /\ b2.section \in {"check", "warmup"}
          /\ b.pc \in {"read", "admit"} /\ b2.pc \in {"first_drain", "admit"}
          /\ \A d \in Client \ {c} : body'[d] = body[d]
      BY <1>1, <1>7 DEF Read, EndCalibrate, Ended, BodyInv, Bodies
    <2> QED  BY <1>2, <2>1, <2>2 DEF Seen
  <1> QED  BY <1>2, <1>3, <1>4, <1>5, <1>6, <1>7 DEF BodyStep

LEMMA StepEnd ==
    ASSUME LifeInv, PipeInv, MeetInv, EndInv, NEW c \in Client, Step(c)
    PROVE  MeetInv' /\ EndInv'
  <1>1. /\ UNCHANGED launchVars /\ program' = program
        /\ \A d \in Client \ {c} : body'[d] = body[d]
        /\ \A r \in Client \ {StreamOf(c)} : stream'[r] = stream[r]
        /\ body[c].pc \notin {"barrier", "over"}
        /\ Crossed(c)' <=> Crossed(c)
        /\ cpc[c] = "body" /\ program # "plain"
    BY StepEffect DEF program, Crossed, Step, Seen
  <1>2. /\ body'[c].pc \in {"barrier", "over"} =>
              \A i \in 1 .. Len(stream'[StreamOf(c)]) : stream'[StreamOf(c)][i].item = "reset"
        /\ Crossed(c) =>
              \A i \in 1 .. Len(stream'[StreamOf(c)]) :
                 \/ i \in 1 .. Len(stream[StreamOf(c)]) /\ stream'[StreamOf(c)][i] = stream[StreamOf(c)][i]
                 \/ stream'[StreamOf(c)][i].item = "reset"
                 \/ stream'[StreamOf(c)][i].section = "timed"
    BY StepEffect DEF Crossed, Seen
  <1>3. \A d \in Client : Crossed(d)' <=> Crossed(d)
    BY <1>1 DEF Crossed
  <1>4. MeetInv'
    <2>1. SUFFICES ASSUME program \in {"demo", "streams"}
                   PROVE  /\ arrived["demo"] <= Cardinality(Met')
                          /\ \A d \in Client :
                                /\ cpc[d] = "passed" \/ Crossed(d) => arrived["demo"] >= NumClients
                                /\ cpc[d] \in {"atDemo", "passed"} => body'[d].pc = "barrier"
                                /\ body'[d].pc = "barrier" \/ Crossed(d) => TimedOnly(d)'
                                /\ body'[d].pc = "over" => Settled(d)'
      BY <1>1, <1>3 DEF MeetInv
    <2>2. StreamOf(c) = c
      BY <2>1 DEF StreamOf
    <2>3. Met \subseteq Met'
      BY <1>1, <1>3 DEF Met
    <2>4. arrived["demo"] <= Cardinality(Met')
      <3>1. arrived["demo"] \in Nat /\ Cardinality(Met) \in Nat /\ Cardinality(Met') \in Nat
        <4>1. (Cardinality(Met) \in Nat)'
          BY MetFinite, PTL
        <4> QED  BY <4>1, MetFinite DEF MeetInv, Barriers
      <3> QED  BY <2>1, <2>3, <3>1, MetGrows DEF MeetInv
    <2>5. ASSUME NEW d \in Client \ {c}
          PROVE  TimedOnly(d)' <=> TimedOnly(d)
      BY <1>1, <2>2, <2>5 DEF TimedOnly
    <2>6. ASSUME NEW d \in Client \ {c}
          PROVE  Settled(d)' <=> Settled(d)
      BY <1>1, <2>2, <2>6 DEF Settled
    <2>7. body'[c].pc = "barrier" \/ Crossed(c) => TimedOnly(c)'
      BY <1>2, <2>1, <2>2 DEF MeetInv, TimedOnly
    <2>8. body'[c].pc = "over" => Settled(c)'
      BY <1>2, <2>2 DEF Settled
    <2> QED  BY <1>1, <2>1, <2>4, <2>5, <2>6, <2>7, <2>8 DEF MeetInv
  <1>5. EndInv'
    <2>1. mpc \notin {"idle", "returned"} /\ (Colocated => mpc \notin {"synchronized", "stopping"})
      BY <1>1 DEF EndInv, LifeInv, LaunchInv, AllIn, Colocated
    <2> QED  BY <1>1, <2>1 DEF EndInv, AllIn, Colocated
  <1> QED  BY <1>4, <1>5

\* A step that leaves bodies and streams alone, and takes nobody away from
\* the barrier.
LEMMA SameMet ==
    ASSUME UNCHANGED pipelineVars,
           \A d \in Client : cpc[d] \in {"atDemo", "passed", "handler", "exited"}
                             => cpc'[d] \in {"atDemo", "passed", "handler", "exited"}
    PROVE  /\ Met \subseteq Met' /\ Cardinality(Met) <= Cardinality(Met')
           /\ Cardinality(Met) \in Nat /\ Cardinality(Met') \in Nat
           /\ \A d \in Client : /\ Crossed(d)' <=> Crossed(d)
                                /\ TimedOnly(d)' <=> TimedOnly(d)
                                /\ Settled(d)' <=> Settled(d)
           /\ AllEmpty' <=> AllEmpty
  <1>1. \A d \in Client : /\ Crossed(d)' <=> Crossed(d)
                          /\ TimedOnly(d)' <=> TimedOnly(d)
                          /\ Settled(d)' <=> Settled(d)
    BY DEF Crossed, TimedOnly, Settled
  <1>2. Met \subseteq Met'
    BY <1>1 DEF Met
  <1>3. (Cardinality(Met) \in Nat)'
    BY MetFinite, PTL
  <1> QED  BY <1>1, <1>2, <1>3, MetGrows, MetFinite DEF AllEmpty

\* What every step of a client other than Step has in common.
LEMMA ClientFrame ==
    ASSUME EndInv, NEW c \in Client,
           \/ (RunClient(c) /\ UNCHANGED pipelineVars)
           \/ RunWorker(c) \/ Meet(c) \/ PassDemo(c) \/ Return(c)
           \/ RaiseOwn(c) \/ WorkerHandle(c) \/ Go(c)
    PROVE  /\ UNCHANGED <<stream, spawned, plan, launches>> /\ program' = program
           /\ \A d \in Client \ {c} : cpc'[d] = cpc[d] /\ errors'[d] = errors[d]
           /\ cpc[c] \notin {"none", "exited"}
           /\ cpc'[c] \in {"born", "atStart", "body", "atDemo", "passed", "handler", "exited"}
           /\ cpc' \in [Client -> ThreadPlaces]
           /\ errors' \in [Client -> {"none", "own", "broken"}]
           /\ cpc'[c] = "handler" => errors'[c] # "none"
           /\ cpc[c] # "handler" /\ cpc'[c] = "exited" =>
                 (program = "plain" \/ body[c].pc = "over") /\ errors' = errors
           /\ cpc[c] = "handler" => errors' = errors
           /\ errors'[c] = "none" => errors[c] = "none"
           /\ mpc' = mpc \/ (program = "seq" /\ mpc' = "raised")
  <1>1. /\ cpc \in [Client -> ThreadPlaces]
        /\ errors \in [Client -> {"none", "own", "broken"}]
    BY DEF EndInv
  <1>2. CASE Register(c) /\ UNCHANGED pipelineVars
    BY <1>1, <1>2 DEF Register, EnterBarrier, Raise, program
  <1>3. CASE PassStart(c) /\ UNCHANGED pipelineVars
    BY <1>1, <1>3 DEF PassStart, LeaveBarrier, Raise, program
  <1>4. CASE (Handle(c) /\ UNCHANGED pipelineVars) \/ WorkerHandle(c)
    BY <1>1, <1>4 DEF Handle, WorkerHandle, program
  <1>5. CASE RunWorker(c)
    BY <1>1, <1>5 DEF RunWorker, program
  <1>6. CASE Meet(c)
    BY <1>1, <1>6 DEF Meet, EnterBarrier, Raise, program
  <1>7. CASE PassDemo(c)
    BY <1>1, <1>7 DEF PassDemo, LeaveBarrier, Raise, program
  <1>8. CASE Return(c)
    BY <1>1, <1>8 DEF Return, program
  <1>9. CASE RaiseOwn(c)
    BY <1>1, <1>9 DEF RaiseOwn, Raise, program
  <1>10. CASE Go(c)
    BY <1>1, <1>10 DEF Go, StartTimed, program
  <1> QED  BY <1>2, <1>3, <1>4, <1>5, <1>6, <1>7, <1>8, <1>9, <1>10 DEF RunClient

LEMMA ClientEnd ==
    ASSUME LifeInv, EndInv, PipeInv, NEW c \in Client,
           \/ (RunClient(c) /\ UNCHANGED pipelineVars)
           \/ RunWorker(c) \/ Meet(c) \/ PassDemo(c) \/ Return(c)
           \/ RaiseOwn(c) \/ WorkerHandle(c) \/ Go(c)
    PROVE  EndInv'
  <1>1. /\ UNCHANGED <<stream, spawned, plan, launches>> /\ program' = program
        /\ \A d \in Client \ {c} : cpc'[d] = cpc[d] /\ errors'[d] = errors[d]
        /\ cpc[c] \notin {"none", "exited"}
        /\ cpc' \in [Client -> ThreadPlaces]
        /\ errors' \in [Client -> {"none", "own", "broken"}]
        /\ cpc'[c] = "handler" => errors'[c] # "none"
        /\ cpc[c] # "handler" /\ cpc'[c] = "exited" =>
              (program = "plain" \/ body[c].pc = "over") /\ errors' = errors
        /\ cpc[c] = "handler" => errors' = errors
        /\ errors'[c] = "none" => errors[c] = "none"
        /\ mpc' = mpc \/ (program = "seq" /\ mpc' = "raised")
    BY ClientFrame
  <1>2. mpc \notin {"idle", "returned"} /\ (Colocated => mpc \notin {"synchronized", "stopping"})
        /\ mpc # "awaiting"
    BY <1>1 DEF EndInv, LifeInv, LaunchInv, ApartInv, AllIn, Colocated
  <1>3. /\ AllEmpty' <=> AllEmpty
        /\ \A s \in Client : Settled(s)' <=> Settled(s)
        /\ Colocated' = Colocated
    BY <1>1 DEF AllEmpty, Settled, Colocated
  <1>4. \A d \in Client \ {c} : body'[d].pc = body[d].pc
    <2>1. CASE Go(c)
      BY <2>1 DEF Go, StartTimed, PipeInv
    <2> QED  BY <2>1 DEF RunWorker, Meet, PassDemo, Return, RaiseOwn, WorkerHandle
  <1>5. cpc'[c] = "exited" => body'[c].pc = body[c].pc
    BY <1>1 DEF RunWorker, Meet, PassDemo, Return, RaiseOwn, WorkerHandle, Go, PipeInv, EndInv
  <1>6. program = "streams" => \A d \in Client : errors'[d] = "none" =>
           cpc'[d] # "handler" /\ (cpc'[d] = "exited" => body'[d].pc = "over")
    <2> SUFFICES ASSUME program = "streams", NEW d \in Client, errors'[d] = "none"
                 PROVE  cpc'[d] # "handler" /\ (cpc'[d] = "exited" => body'[d].pc = "over")
      OBVIOUS
    <2>1. errors[d] = "none"
      BY <1>1
    <2>2. cpc[d] # "handler" /\ (cpc[d] = "exited" => body[d].pc = "over")
      BY <2>1 DEF EndInv
    <2>3. CASE d # c
      BY <1>1, <1>4, <2>2, <2>3
    <2>4. CASE d = c
      BY <1>1, <1>5, <2>2, <2>4
    <2> QED  BY <2>3, <2>4
  <1>7. mpc = "spawning" => spawned \in Nat /\ \A d \in Client : d >= spawned => cpc'[d] = "none"
    BY <1>1 DEF EndInv
  <1>8. program = "seq" /\ mpc = "turns" => \A d \in Client : d # spawned => cpc'[d] \in {"none", "exited"}
    BY <1>1 DEF EndInv
  <1> QED  BY <1>1, <1>2, <1>3, <1>6, <1>7, <1>8 DEF EndInv

\* Entering the barrier of the demo, and leaving it.
LEMMA ClientMeet ==
    ASSUME EndInv, MeetInv, PipeInv, NEW c \in Client,
           \/ (RunClient(c) /\ UNCHANGED pipelineVars)
           \/ RunWorker(c) \/ Meet(c) \/ PassDemo(c) \/ Return(c)
           \/ RaiseOwn(c) \/ WorkerHandle(c) \/ Go(c)
    PROVE  MeetInv'
  <1>1. /\ cpc \in [Client -> ThreadPlaces]
        /\ barrier \in [Barriers -> {"filling", "draining", "broken"}]
        /\ arrived \in [Barriers -> Nat]
        /\ "start" \in Barriers /\ "demo" \in Barriers
    BY DEF EndInv, MeetInv, Barriers
  <1>2. program' = program
    BY ClientFrame
  <1>3. CASE Meet(c)
    <2>1. /\ program \in {"demo", "streams"} /\ cpc[c] = "body" /\ body[c].pc = "barrier"
          /\ UNCHANGED pipelineVars /\ EnterBarrier(c, "demo", "atDemo", "passed")
      BY <1>3 DEF Meet
    <2>2. /\ barrier' \in [Barriers -> {"filling", "draining", "broken"}]
          /\ arrived' \in [Barriers -> Nat]
          /\ \A d \in Client \ {c} : cpc'[d] = cpc[d]
          /\ cpc'[c] \in {"handler", "atDemo", "passed"}
      BY <1>1, <2>1 DEF EnterBarrier, Raise
    <2>3. /\ Met \subseteq Met'
          /\ Cardinality(Met) \in Nat /\ Cardinality(Met') \in Nat /\ Cardinality(Met) <= Cardinality(Met')
          /\ \A d \in Client : /\ Crossed(d)' <=> Crossed(d)
                               /\ TimedOnly(d)' <=> TimedOnly(d)
                               /\ Settled(d)' <=> Settled(d)
      BY <2>1, <2>2, SameMet
    <2>4. /\ arrived["demo"] <= Cardinality(Met) /\ arrived["demo"] \in Nat
          /\ barrier["demo"] = "draining" => arrived["demo"] >= NumClients
      BY <1>1, <2>1 DEF MeetInv
    <2>5. ~Crossed(c)
      BY <2>1, PipeFacts DEF Crossed, BodyInv
    <2>6. Cardinality(Met') >= Cardinality(Met) + 1
      <3>1. c \notin Met /\ c \in Met'
        BY <2>1, <2>2, <2>5 DEF Met
      <3>2. IsFiniteSet(Met) /\ IsFiniteSet(Met')
        <4>1. Met \subseteq Client /\ Met' \subseteq Client
          BY DEF Met
        <4> QED  BY <4>1, ClientsFinite, FS_Subset
      <3>3. Cardinality(Met \cup {c}) = Cardinality(Met) + 1 /\ Met \cup {c} \subseteq Met'
        BY <2>3, <3>1, <3>2, FS_AddElement
      <3>4. Cardinality(Met \cup {c}) <= Cardinality(Met')
        BY <3>2, <3>3, FS_Subset
      <3> QED  BY <3>3, <3>4
    <2>7. /\ arrived'["demo"] \in Nat /\ arrived'["demo"] <= Cardinality(Met')
          /\ arrived'["demo"] >= arrived["demo"]
          /\ cpc'[c] = "passed" => arrived'["demo"] >= NumClients
          /\ barrier'["demo"] = "draining" => arrived'["demo"] >= NumClients
      <3>1. CASE barrier["demo"] = "broken"
        BY <1>1, <2>1, <2>3, <2>4, <3>1 DEF EnterBarrier, Raise
      <3>2. CASE barrier["demo"] # "broken"
        <4>1. arrived'["demo"] = arrived["demo"] + 1
          BY <1>1, <2>1, <3>2 DEF EnterBarrier
        <4>2. cpc'[c] = "passed" => arrived'["demo"] = NumClients
          BY <1>1, <2>1, <3>2, <4>1 DEF EnterBarrier
        <4>3. barrier'["demo"] = "draining" => barrier["demo"] = "draining" \/ arrived'["demo"] = NumClients
          BY <1>1, <2>1, <3>2, <4>1 DEF EnterBarrier
        <4> QED  BY <4>1, <4>2, <4>3, <2>3, <2>4, <2>6, ClientsAssumption
      <3> QED  BY <3>1, <3>2
    <2>8. \A d \in Client :
             /\ cpc'[d] = "passed" \/ Crossed(d)' => arrived'["demo"] >= NumClients
             /\ cpc'[d] \in {"atDemo", "passed"} => body'[d].pc = "barrier"
             /\ body'[d].pc = "barrier" \/ Crossed(d)' => TimedOnly(d)'
             /\ body'[d].pc = "over" => Settled(d)'
      BY <2>1, <2>2, <2>3, <2>4, <2>5, <2>7, ClientsAssumption DEF MeetInv
    <2> QED  BY <2>2, <2>7, <2>8 DEF MeetInv
  <1>4. CASE Go(c)
    <2>1. /\ UNCHANGED <<stream, barrier, arrived>> /\ body[c].pc = "barrier"
          /\ cpc[c] = "passed" \/ (cpc[c] = "body" /\ program = "seq")
          /\ \A d \in Client \ {c} : body'[d] = body[d] /\ cpc'[d] = cpc[d]
          /\ body'[c].section = "timed" /\ body'[c].pc = "admit" /\ cpc'[c] = "body"
      <3>1. body \in [Client -> Bodies] /\ body[c] \in Bodies
        BY DEF PipeInv
      <3> QED  BY <1>1, <1>4, <3>1 DEF Go, StartTimed, Bodies
    <2>2. Met \subseteq Met'
      BY <2>1 DEF Met, Crossed
    <2>3. Cardinality(Met) \in Nat /\ Cardinality(Met') \in Nat /\ Cardinality(Met) <= Cardinality(Met')
      <3>1. (Cardinality(Met) \in Nat)'
        BY MetFinite, PTL
      <3> QED  BY <2>2, <3>1, MetFinite, MetGrows
    <2>4. \A d \in Client : (TimedOnly(d)' <=> TimedOnly(d)) /\ (Settled(d)' <=> Settled(d))
      BY <2>1 DEF TimedOnly, Settled
    <2>5. \A d \in Client \ {c} : Crossed(d)' <=> Crossed(d)
      BY <2>1 DEF Crossed
    <2> QED  BY <1>1, <1>2, <2>1, <2>3, <2>4, <2>5 DEF MeetInv, Barriers
  <1>5. CASE PassDemo(c)
    <2>1. /\ cpc[c] = "atDemo" /\ UNCHANGED <<pipelineVars, barrier, arrived>>
          /\ \A d \in Client \ {c} : cpc'[d] = cpc[d]
          /\ cpc'[c] \in {"handler", "passed"}
          /\ cpc'[c] = "passed" => barrier["demo"] = "draining"
      BY <1>1, <1>5 DEF PassDemo, LeaveBarrier, Raise
    <2>2. /\ Cardinality(Met) \in Nat /\ Cardinality(Met') \in Nat /\ Cardinality(Met) <= Cardinality(Met')
          /\ \A d \in Client : /\ Crossed(d)' <=> Crossed(d)
                               /\ TimedOnly(d)' <=> TimedOnly(d)
                               /\ Settled(d)' <=> Settled(d)
      BY <2>1, SameMet
    <2> QED  BY <1>1, <1>2, <2>1, <2>2 DEF MeetInv, Barriers
  <1>6. CASE \/ (RunClient(c) /\ UNCHANGED pipelineVars)
             \/ RunWorker(c) \/ Return(c) \/ RaiseOwn(c) \/ WorkerHandle(c)
    <2>1. /\ UNCHANGED pipelineVars
          /\ \A d \in Client \ {c} : cpc'[d] = cpc[d]
          /\ cpc'[c] \in {"atStart", "body", "handler", "exited"}
          /\ cpc[c] \in {"atDemo", "passed", "handler", "exited"} => cpc'[c] \in {"handler", "exited"}
      BY <1>1, <1>6 DEF RunClient, Register, PassStart, Handle, EnterBarrier, LeaveBarrier, Raise,
                        RunWorker, Return, RaiseOwn, WorkerHandle
    <2>2. /\ barrier' \in [Barriers -> {"filling", "draining", "broken"}]
          /\ arrived' \in [Barriers -> Nat] /\ arrived'["demo"] = arrived["demo"]
          /\ barrier'["demo"] \in {barrier["demo"], "broken"}
      <3>1. CASE Register(c)
        BY <1>1, <3>1 DEF Register, EnterBarrier, Raise
      <3>2. CASE Handle(c) \/ WorkerHandle(c)
        BY <1>1, <3>2 DEF Handle, WorkerHandle
      <3>3. CASE PassStart(c) \/ RunWorker(c) \/ Return(c) \/ RaiseOwn(c)
        BY <1>1, <3>3 DEF PassStart, LeaveBarrier, RunWorker, Return, RaiseOwn
      <3> QED  BY <1>6, <3>1, <3>2, <3>3 DEF RunClient
    <2>3. /\ Cardinality(Met) \in Nat /\ Cardinality(Met') \in Nat /\ Cardinality(Met) <= Cardinality(Met')
          /\ \A d \in Client : /\ Crossed(d)' <=> Crossed(d)
                               /\ TimedOnly(d)' <=> TimedOnly(d)
                               /\ Settled(d)' <=> Settled(d)
      BY <2>1, SameMet
    <2> QED  BY <1>1, <1>2, <2>1, <2>2, <2>3 DEF MeetInv, Barriers
  <1> QED  BY <1>3, <1>4, <1>5, <1>6

LEMMA PipeStays ==
    ASSUME PipeInv, UNCHANGED pipelineVars, program' = program
    PROVE  PipeInv'
  <1>1. \A c \in Client : StreamOf(c)' = StreamOf(c)
    BY DEF StreamOf
  <1>2. (\A s \in Client : \A i \in 1 .. Len(stream[s]) :
            stream[s][i].item = "iteration" => StreamOf(stream[s][i].client) = s)'
    BY DEF PipeInv, StreamOf
  <1>3. \A c \in Client : /\ QueueInv(c, body'[c], stream'[StreamOf(c)'])
                          /\ CheckInv(c, body'[c], stream'[StreamOf(c)'])
    BY <1>1 DEF PipeInv
  <1> QED  BY <1>2, <1>3 DEF PipeInv, BodyInv, QueueInv, CheckInv

(***************************************************************************)
(* The whole demo                                                          *)
(***************************************************************************)
Whole == LifeInv /\ PipeInv /\ MeetInv /\ EndInv

LEMMA ClientWhole ==
    ASSUME Whole, NEW c \in Client, ClientNext(c)
    PROVE  PipeInv' /\ MeetInv' /\ EndInv'
  <1>1. CASE Step(c)
    <2>1. program' = program /\ BodyStep(c, StreamOf(c))
      BY <1>1 DEF Step, program
    <2> QED  BY <1>1, <2>1, BodyStepPipe, StepEnd DEF Whole
  <1>2. CASE Go(c)
    <2>1. program' = program /\ StartTimed(c)
      BY <1>2 DEF Go, program
    <2> QED  BY <1>2, <2>1, BodyStepPipe, ClientEnd, ClientMeet DEF Whole
  <1>3. CASE \/ (RunClient(c) /\ UNCHANGED pipelineVars)
             \/ RunWorker(c) \/ Meet(c) \/ PassDemo(c) \/ Return(c)
             \/ RaiseOwn(c) \/ WorkerHandle(c)
    <2>1. program' = program
      BY <1>3, ClientFrame DEF Whole
    <2>2. UNCHANGED pipelineVars
      BY <1>3 DEF RunWorker, Meet, PassDemo, Return, RaiseOwn, WorkerHandle
    <2> QED  BY <1>3, <2>1, <2>2, PipeStays, ClientEnd, ClientMeet DEF Whole
  <1> QED  BY <1>1, <1>2, <1>3 DEF ClientNext

LEMMA GpuWhole ==
    ASSUME Whole, NEW s \in Client, GpuStep(s)
    PROVE  PipeInv' /\ MeetInv' /\ EndInv'
  <1>1. UNCHANGED launchVars /\ Retire(s) /\ program' = program
    BY DEF GpuStep, program
  <1>2. /\ \A c \in Client : body'[c].pc = body[c].pc /\ body'[c].section = body[c].section
        /\ \A r \in Client \ {s} : stream'[r] = stream[r]
        /\ stream[s] # <<>> /\ stream'[s] = Tail(stream[s]) /\ stream[s] \in Seq(Items)
    <2>1. body \in [Client -> Bodies] /\ stream \in [Client -> Seq(Items)]
      BY DEF Whole, PipeInv
    <2>2. stream[s] # <<>> /\ stream' = [stream EXCEPT ![s] = Tail(@)]
          /\ LET x == Head(stream[s])
             IN  body' = IF x.item = "iteration"
                         THEN [body EXCEPT ![x.client].out[x.slot] = x.id] ELSE body
      BY <1>1 DEF Retire
    <2> QED  BY <2>1, <2>2 DEF Bodies
  <1>3. \A i \in 1 .. Len(stream'[s]) : i + 1 \in 1 .. Len(stream[s]) /\ stream'[s][i] = stream[s][i + 1]
    <2> DEFINE q == stream[s]
    <2>1. q \in Seq(Items) /\ q # <<>> /\ stream'[s] = Tail(q)
      BY <1>2
    <2> HIDE DEF q
    <2>2. \A i \in 1 .. Len(Tail(q)) : i + 1 \in 1 .. Len(q) /\ Tail(q)[i] = q[i + 1]
      BY <2>1, TailParts
    <2> QED  BY <2>1, <2>2 DEF q
  <1>4. \A c \in Client : /\ Crossed(c)' <=> Crossed(c)
                          /\ TimedOnly(c) => TimedOnly(c)'
                          /\ Settled(c) => Settled(c)'
    <2> TAKE c \in Client
    <2>1. Crossed(c)' <=> Crossed(c)
      BY <1>2 DEF Crossed
    <2>2. CASE c = s
      BY <1>3, <2>1, <2>2 DEF TimedOnly, Settled
    <2>3. CASE c # s
      BY <1>2, <2>1, <2>3 DEF TimedOnly, Settled
    <2> QED  BY <2>2, <2>3
  <1>5. ~AllEmpty
    BY <1>2 DEF AllEmpty
  <1>6. Met' = Met
    BY <1>1, <1>2, <1>4 DEF Met
  <1>7. MeetInv'
    BY <1>1, <1>2, <1>4, <1>6 DEF MeetInv, Whole
  <1>8. EndInv'
    BY <1>1, <1>2, <1>4, <1>5 DEF EndInv, Whole, AllIn, Colocated
  <1> QED  BY <1>1, <1>7, <1>8, RetirePipe DEF Whole

LEMMA SchedWhole ==
    ASSUME Whole, SchedNext, UNCHANGED pipelineVars
    PROVE  PipeInv' /\ MeetInv' /\ EndInv'
  <1>1. UNCHANGED <<mainVars, clientVars, countVars>> /\ program' = program
    BY DEF SchedNext, EnterLoop, Spin, LeaveLoop, program
  <1>2. Met' = Met /\ (AllEmpty' <=> AllEmpty) /\ Colocated' = Colocated
        /\ \A c \in Client : /\ Crossed(c)' <=> Crossed(c)
                             /\ TimedOnly(c)' <=> TimedOnly(c)
                             /\ Settled(c)' <=> Settled(c)
    BY <1>1 DEF Met, Crossed, AllEmpty, TimedOnly, Settled, Colocated
  <1>3. MeetInv'
    BY <1>1, <1>2 DEF MeetInv, Whole
  <1>4. EndInv'
    BY <1>1, <1>2 DEF EndInv, Whole, AllIn
  <1> QED  BY <1>1, <1>3, <1>4, PipeStays DEF Whole

\* Between two programs the streams hold restored state at most.
LEMMA BetweenPrograms ==
    ASSUME Whole, mpc \in {"idle", "returned"}
    PROVE  \A s \in Client : Settled(s)
  <1>1. AllEmpty => \A s \in Client : Settled(s)
    BY DEF AllEmpty, Settled
  <1>2. CASE program \in {"none", "plain", "seq"}
    BY <1>1, <1>2 DEF Whole, EndInv
  <1>3. CASE program = "demo"
    BY <1>1, <1>3 DEF Whole, EndInv, Colocated
  <1>4. CASE program = "streams"
    <2>1. \A c \in Client : body[c].pc = "over"
      BY <1>4 DEF Whole, EndInv, AllIn
    <2> QED  BY <1>4, <2>1 DEF Whole, MeetInv
  <1> QED  BY <1>2, <1>3, <1>4 DEF Whole, EndInv

LEMMA StartWhole ==
    ASSUME Whole, StartLaunch \/ StartWorkers \/ StartSeq
    PROVE  PipeInv' /\ MeetInv' /\ EndInv'
  <1>1. PICK programs : Begin(programs) /\ programs \subseteq {"plain", "demo", "seq", "streams"}
    BY DEF StartLaunch, Setup, StartWorkers, StartSeq
  <1>2. /\ UNCHANGED stream /\ body' = [c \in Client |-> FreshBody(c)]
        /\ cpc' \in [Client -> {"none", "body"}]
        /\ mpc' \in {"awaiting", "spawning", "turns"}
    BY DEF StartLaunch, Setup, StartWorkers, StartSeq
  <1>3. /\ mpc \in {"idle", "returned"} /\ spawned' = 0
        /\ errors' = [c \in Client |-> "none"]
        /\ barrier' = [b \in Barriers |-> "filling"] /\ arrived' = [b \in Barriers |-> 0]
    BY <1>1 DEF Begin
  <1>4. /\ program' \in programs
    BY <1>1, BeginsAlone DEF Whole
  <1>5. \A s \in Client : Settled(s) /\ (Settled(s)' <=> Settled(s))
    BY <1>2, <1>3, BetweenPrograms DEF Settled
  <1>6. PipeInv'
    <2>1. stream \in [Client -> Seq(Items)]
      BY DEF Whole, PipeInv
    <2>2. \A s \in Client : stream[s] \in Seq(Items) /\ Settled(s)
      BY <2>1, <1>5
    <2> QED  BY <1>2, <2>1, <2>2, FreshPipe
  <1>7. \A c \in Client : body'[c].section = "calibrate" /\ body'[c].pc = "admit" /\ ~Crossed(c)'
    BY <1>2 DEF FreshBody, Crossed
  <1>8. MeetInv'
    <2>1. (Cardinality(Met) \in Nat)'
      BY MetFinite, PTL
    <2>2. \A c \in Client : cpc'[c] \notin {"passed", "atDemo"}
      BY <1>2
    <2> QED  BY <1>3, <1>7, <2>1, <2>2 DEF MeetInv, Barriers
  <1>9. EndInv'
    <2>1. CASE StartLaunch
      <3>1. program' \in {"plain", "demo"}
        BY <2>1, BeginsAlone DEF StartLaunch, Setup, Whole
      <3> QED  BY <1>3, <1>5, <2>1, <3>1 DEF StartLaunch, Setup, EndInv
    <2>2. CASE StartWorkers
      <3>1. program' = "streams"
        BY <2>2, BeginsAlone DEF StartWorkers, Whole
      <3> QED  BY <1>3, <2>2, <3>1 DEF StartWorkers, EndInv, Colocated
    <2>3. CASE StartSeq
      <3>1. program' = "seq"
        BY <2>3, BeginsAlone DEF StartSeq, Whole
      <3> QED  BY <1>3, <2>3, <3>1 DEF StartSeq, EndInv, Colocated
    <2> QED  BY <2>1, <2>2, <2>3
  <1> QED  BY <1>6, <1>8, <1>9

LEMMA LeastError ==
    ASSUME \E c \in Client : errors[c] # "none"
    PROVE  FirstError \in Client /\ errors[FirstError] # "none"
  <1> DEFINE T == {c \in Client : errors[c] # "none"}
  <1>1. T \subseteq Nat /\ T # {}
    BY DEF Client
  <1>2. PICK c \in T : \A d \in T : <<d, c>> \notin OpToRel(<, Nat)
    BY <1>1, NatLessThanWellFounded, WFMin
  <1>3. \A d \in 0 .. c - 1 : errors[d] = "none"
    <2> SUFFICES ASSUME NEW d \in 0 .. c - 1, errors[d] # "none" PROVE FALSE
      OBVIOUS
    <2>1. d \in T /\ d < c /\ d \in Nat /\ c \in Nat
      BY <1>1, ClientsAssumption DEF Client
    <2> QED  BY <1>2, <2>1 DEF OpToRel
  <1> QED  BY <1>3 DEF FirstError

LEMMA MainWhole ==
    ASSUME Whole, MainNext \/ JoinWorkers \/ NextTurn
    PROVE  PipeInv' /\ MeetInv' /\ EndInv'
  <1>1. /\ program' = program /\ Colocated' = Colocated
        /\ UNCHANGED <<plan, launches, pipelineVars, errors, barrier, arrived>>
    BY DEF MainNext, LaunchNext, AwaitRunning, Spawn, Join, Synchronize, Stop, Finish,
           JoinWorkers, NextTurn, program, Colocated
  <1>2. /\ cpc \in [Client -> ThreadPlaces]
        /\ cpc' \in [Client -> ThreadPlaces]
        /\ \A d \in Client : cpc'[d] # cpc[d] =>
              cpc'[d] \in {"born", "body"} /\ (program = "seq" \/ cpc[d] = "none")
    <2>1. cpc \in [Client -> ThreadPlaces]
      BY DEF Whole, EndInv
    <2>2. CASE MainNext /\ Spawn
      <3>1. mpc = "spawning" /\ cpc' = [cpc EXCEPT ![spawned] = "born"]
        BY <2>2 DEF Spawn
      <3>2. spawned \in Nat /\ (spawned \in Client => cpc[spawned] = "none")
        BY <3>1 DEF Whole, EndInv
      <3> QED  BY <2>1, <3>1, <3>2
    <2>3. CASE NextTurn
      <3>1. program = "seq" /\ cpc' \in {cpc, [cpc EXCEPT ![spawned'] = "body"]}
        BY <2>3 DEF NextTurn, Whole, EndInv, LifeInv, LaunchInv, Colocated
      <3> QED  BY <2>1, <3>1
    <2>4. UNCHANGED cpc \/ (MainNext /\ Spawn) \/ NextTurn
      BY DEF MainNext, LaunchNext, AwaitRunning, Spawn, Join, Synchronize, Stop, Finish, JoinWorkers
    <2> QED  BY <2>1, <2>2, <2>3, <2>4
  <1>3. PipeInv'
    BY <1>1, PipeStays DEF Whole
  <1>4. (AllEmpty' <=> AllEmpty)
        /\ \A d \in Client : /\ Crossed(d)' <=> Crossed(d)
                             /\ TimedOnly(d)' <=> TimedOnly(d)
                             /\ Settled(d)' <=> Settled(d)
    BY <1>1 DEF Crossed, AllEmpty, TimedOnly, Settled
  <1>5. MeetInv'
    <2>1. CASE program \in {"demo", "streams"}
      <3>1. Met \subseteq Met'
        BY <1>1, <1>2, <1>4, <2>1 DEF Met
      <3>2. Cardinality(Met) \in Nat /\ Cardinality(Met') \in Nat /\ Cardinality(Met) <= Cardinality(Met')
        <4>1. (Cardinality(Met) \in Nat)'
          BY MetFinite, PTL
        <4> QED  BY <3>1, <4>1, MetFinite, MetGrows
      <3>3. \A d \in Client : cpc'[d] \in {"atDemo", "passed"} => cpc'[d] = cpc[d]
        BY <1>2
      <3> QED  BY <1>1, <1>4, <3>2, <3>3, <2>1 DEF MeetInv, Whole, Barriers
    <2>2. CASE program \notin {"demo", "streams"}
      BY <1>1, <2>2 DEF MeetInv, Whole
    <2> QED  BY <2>1, <2>2
  <1>6. EndInv'
    <2>1. CASE MainNext
      <3>1. CASE AwaitRunning
        BY <1>1, <1>2, <1>4, <3>1 DEF AwaitRunning, Whole, EndInv, LifeInv, LaunchInv, ApartInv, AllIn, Colocated
      <3>2. CASE Spawn
        <4>1. /\ mpc = "spawning" /\ spawned \in Nat /\ spawned' = spawned + 1
              /\ mpc' \in {"joining", "spawning"} /\ cpc' = [cpc EXCEPT ![spawned] = "born"]
              /\ \A d \in Client : d >= spawned => cpc[d] = "none"
          BY <3>2 DEF Spawn, Whole, EndInv
        <4>2. spawned' \in Nat /\ \A d \in Client : d >= spawned' => cpc'[d] = "none"
          BY <1>2, <4>1, ClientsAssumption DEF Client
        <4>3. \A d \in Client : cpc'[d] \in {"handler", "exited"} => cpc'[d] = cpc[d]
          BY <1>2
        <4> QED  BY <1>1, <1>2, <1>4, <4>1, <4>2, <4>3 DEF Whole, EndInv
      <3>3. CASE Join
        BY <1>1, <1>2, <1>4, <3>3 DEF Join, Whole, EndInv, Colocated
      <3>4. CASE Synchronize(\A s \in Client : stream[s] = <<>>)
        BY <1>1, <1>2, <1>4, <3>4 DEF Synchronize, Whole, EndInv, LifeInv, ApartInv, AllEmpty, Colocated
      <3>5. CASE Stop
        BY <1>1, <1>2, <1>4, <3>5 DEF Stop, Whole, EndInv, LifeInv, ApartInv, Colocated
      <3>6. CASE Finish
        <4>1. mpc = "stopping" /\ mpc' \in {"returned", "raised"} /\ UNCHANGED <<spawned, cpc>>
          BY <3>6 DEF Finish
        <4>2. Colocated /\ AllEmpty
          BY <4>1 DEF Whole, EndInv, LifeInv, ApartInv
        <4> QED  BY <1>1, <1>2, <1>4, <4>1, <4>2 DEF Whole, EndInv, Colocated
      <3> QED  BY <2>1, <3>1, <3>2, <3>3, <3>4, <3>5, <3>6 DEF MainNext, LaunchNext
    <2>2. CASE JoinWorkers
      <3>1. /\ mpc = "joining" /\ program = "streams" /\ AllIn("exited")
            /\ mpc' \in {"returned", "raised"} /\ UNCHANGED <<spawned, cpc>>
            /\ mpc' = "returned" => \A c \in Client : errors[c] = "none"
        BY <2>2, LeastError DEF JoinWorkers, AllIn
      <3> QED  BY <1>1, <1>2, <1>4, <3>1 DEF Whole, EndInv, AllIn, Colocated
    <2>3. CASE NextTurn
      <3>1. /\ mpc = "turns" /\ cpc[spawned] = "exited" /\ spawned' = spawned + 1
            /\ AllEmpty
            /\ \/ cpc' = [cpc EXCEPT ![spawned'] = "body"] /\ mpc' = "turns"
               \/ cpc' = cpc /\ mpc' = "returned"
        BY <2>3 DEF NextTurn, AllEmpty
      <3>2. program = "seq" /\ ~Colocated
        BY <3>1 DEF Whole, EndInv, LifeInv, LaunchInv, Colocated
      <3>3. \A c \in Client : cpc[c] \in {"none", "exited"}
        BY <3>1, <3>2 DEF Whole, EndInv
      <3> QED  BY <1>1, <1>2, <1>4, <3>1, <3>2, <3>3 DEF Whole, EndInv, Colocated
    <2> QED  BY <2>1, <2>2, <2>3
  <1> QED  BY <1>3, <1>5, <1>6

LEMMA InitWhole == Init => Whole
  <1> SUFFICES ASSUME Init PROVE Whole
    OBVIOUS
  <1>1. stream = [s \in Client |-> <<>>] /\ body = [c \in Client |-> FreshBody(c)]
        /\ mpc = "idle" /\ launches = 0
        /\ cpc = [c \in Client |-> "none"] /\ errors = [c \in Client |-> "none"]
        /\ barrier = [b \in Barriers |-> "filling"] /\ arrived = [b \in Barriers |-> 0]
    BY DEF Init, InitLaunch
  <1>2. program = "none"
    BY <1>1 DEF program
  <1>3. PipeInv
    <2>1. body \in [Client -> Bodies] /\ \A c \in Client : BodyInv(c, body[c])
      BY <1>1, FreshBodies
    <2>2. stream \in [Client -> Seq(Items)] /\ \A s \in Client : stream[s] = <<>>
      BY <1>1
    <2>3. \A c \in Client : QueueInv(c, body[c], <<>>) /\ CheckInv(c, body[c], <<>>)
      BY <1>1 DEF QueueInv, CheckInv, FreshBody
    <2> QED  BY <2>1, <2>2, <2>3, StreamIn DEF PipeInv
  <1>4. MeetInv
    BY <1>1, <1>2 DEF MeetInv
  <1>5. EndInv
    BY <1>1, <1>2 DEF EndInv, AllEmpty, AllIn, Colocated
  <1> QED  BY <1>3, <1>4, <1>5, InitLife DEF Whole

LEMMA StutterWhole ==
    ASSUME Whole, UNCHANGED vars
    PROVE  PipeInv' /\ MeetInv' /\ EndInv'
  <1>1. UNCHANGED <<mainVars, clientVars, countVars, pipelineVars>> /\ program' = program
    BY DEF vars, program
  <1>2. Met' = Met /\ (AllEmpty' <=> AllEmpty) /\ Colocated' = Colocated
        /\ \A c \in Client : /\ Crossed(c)' <=> Crossed(c)
                             /\ TimedOnly(c)' <=> TimedOnly(c)
                             /\ Settled(c)' <=> Settled(c)
    BY <1>1 DEF Met, Crossed, AllEmpty, TimedOnly, Settled, Colocated
  <1>3. MeetInv'
    BY <1>1, <1>2 DEF MeetInv, Whole
  <1>4. EndInv'
    BY <1>1, <1>2 DEF EndInv, Whole, AllIn
  <1> QED  BY <1>1, <1>3, <1>4, PipeStays DEF Whole

LEMMA NextWhole == Whole /\ [Next]_vars => Whole'
  <1> SUFFICES ASSUME Whole, [Next]_vars PROVE Whole'
    OBVIOUS
  <1>1. LifeInv'
    BY NextLife DEF Whole
  <1>2. ASSUME NEW c \in Client, ClientNext(c) \/ GpuStep(c) PROVE PipeInv' /\ MeetInv' /\ EndInv'
    BY <1>2, ClientWhole, GpuWhole
  <1>3. CASE UNCHANGED vars
    BY <1>1, <1>3, StutterWhole DEF Whole
  <1>4. CASE Done
    BY <1>3, <1>4 DEF Done
  <1> QED
    BY <1>1, <1>2, <1>3, <1>4, SchedWhole, StartWhole, MainWhole DEF Next, Whole

\* The pipelines, the meeting at the barrier and the ends of the modes, for
\* every pipeline depth, number of probes and iterations, and plan.
THEOREM DemoInductive == Spec => []Whole
  BY InitWhole, NextWhole, PTL DEF Spec

\* Two iterations of one client that are on the GPU at once never share a
\* result slot, whatever the depth.
THEOREM SlotsNeverShared == Spec => []SlotsExclusive
  <1>1. Whole => SlotsExclusive
    <2> SUFFICES ASSUME Whole, NEW c \in Client,
                        NEW x \in InFlight(c, StreamOf(c)), NEW y \in InFlight(c, StreamOf(c)),
                        x.slot = y.slot
                 PROVE  x = y
      BY DEF SlotsExclusive
    <2> DEFINE b == body[c]   q == stream[StreamOf(c)]
    <2>1. b \in Bodies /\ q \in Seq(Items) /\ BodyInv(c, b) /\ QueueInv(c, b, q)
      BY PipeFacts DEF Whole
    <2>2. PICK i \in 1 .. Len(q), j \in 1 .. Len(q) :
             x = q[i] /\ y = q[j] /\ IterationOf(q[i], c) /\ IterationOf(q[j], c)
      BY <2>1 DEF InFlight, ToSet, IterationOf
    <2> HIDE DEF b, q
    <2>3. q[i].id \in Nat /\ q[j].id \in Nat /\ Forgotten(b) \in Int /\ b.launched \in Nat /\ Len(b.events) \in Nat
      BY <2>1, <2>2, ItemParts, BodyParts
    <2>4. /\ q[i].id > 0 /\ q[i].id > Forgotten(b) /\ q[i].id <= b.launched
          /\ q[j].id > 0 /\ q[j].id > Forgotten(b) /\ q[j].id <= b.launched
          /\ q[i].slot = (q[i].id - 1) % Depth /\ q[j].slot = (q[j].id - 1) % Depth
          /\ i < j => q[i].id < q[j].id
          /\ j < i => q[j].id < q[i].id
      BY <2>1, <2>2 DEF QueueInv
    \* All that is in flight fits in one turn of the slots.
    <2>5. b.launched - Forgotten(b) <= Depth
      <3>1. Len(b.events) <= Depth /\ (b.pc = "record" => Len(b.events) < Depth)
            /\ (b.pc = "second_drain" => Len(b.events) = 0)
        BY <2>1 DEF BodyInv
      <3>2. b.launched - Forgotten(b) =
               IF b.pc \in {"record", "second_drain"} THEN Len(b.events) + 1 ELSE Len(b.events)
        BY <2>3 DEF Forgotten, Recorded
      <3> QED  BY <2>3, <3>1, <3>2, DepthAssumption
    <2>6. q[i].id = q[j].id
      <3> DEFINE k == q[i].id   l == q[j].id   f == Forgotten(b)   n == b.launched
      <3>1. (k - 1) % Depth = (l - 1) % Depth
        BY <2>2, <2>4
      <3>2. /\ f \in Int /\ n \in Int /\ n - f <= Depth /\ k \in Nat /\ l \in Nat
            /\ k > 0 /\ k > f /\ k <= n /\ l > 0 /\ l > f /\ l <= n
        BY <2>3, <2>4, <2>5
      <3> HIDE DEF k, l, f, n
      <3>3. k = l
        BY <3>1, <3>2, SameSlotSameId
      <3> QED  BY <3>3 DEF k, l
    <2>7. i = j
      BY <2>3, <2>4, <2>6
    <2> QED  BY <2>2, <2>7
  <1> QED  BY <1>1, DemoInductive, PTL

\* What a synchronous check compares with its reference is the result of the
\* iteration it launched.
THEOREM ChecksReadTheirOwn == Spec => []CheckReadsItsOwn
  <1>1. Whole => CheckReadsItsOwn
    BY PipeFacts DEF Whole, CheckReadsItsOwn, CheckInv, Latest
  <1> QED  BY <1>1, DemoInductive, PTL

\* Nobody times before everybody has warmed up and drained.
THEOREM TimedSectionsMeet == Spec => []TimedTogether
  <1>1. Whole => TimedTogether
    <2> SUFFICES ASSUME Whole, program \in {"demo", "streams"}, NEW c \in Client, NEW d \in Client,
                        body[c].section = "timed"
                 PROVE  /\ body[d].section \in {"timed", "over"} \/ body[d].pc = "barrier"
                        /\ \A x \in ToSet(stream[d]) : x.item = "reset" \/ x.section = "timed"
      BY DEF TimedTogether
    <2>1. arrived["demo"] \in Nat /\ arrived["demo"] <= Cardinality(Met) /\ arrived["demo"] >= NumClients
      BY DEF Whole, MeetInv, Crossed, Barriers
    <2>2. Met = Client
      BY <2>1, MetFinite, ClientsAssumption
    <2>3. Crossed(d) \/ body[d].pc = "barrier"
      BY <2>2 DEF Met
    <2>4. TimedOnly(d)
      BY <2>3 DEF Whole, MeetInv
    <2>5. stream[d] \in Seq(Items)
      BY DEF Whole, PipeInv
    <2> QED  BY <2>3, <2>4, <2>5 DEF Crossed, TimedOnly, ToSet
  <1> QED  BY <1>1, DemoInductive, PTL

\* When a mode has returned, nothing that it timed is left on the GPU.
THEOREM ModesEndDrained == Spec => []ModeEndsDrained
  <1>1. Whole => ModeEndsDrained
    <2> SUFFICES ASSUME Whole, mpc = "returned", NEW s \in Client, NEW x \in ToSet(stream[s])
                 PROVE  program = "streams" /\ x.item = "reset"
      BY DEF ModeEndsDrained
    <2>1. PICK i \in 1 .. Len(stream[s]) : x = stream[s][i]
      BY DEF ToSet, Whole, PipeInv
    <2>2. ~AllEmpty
      BY <2>1 DEF AllEmpty
    <2>3. program = "streams"
      BY <2>2 DEF Whole, EndInv, Colocated
    <2> QED  BY <2>1, <2>3, BetweenPrograms DEF Settled
  <1> QED  BY <1>1, DemoInductive, PTL
=============================================================================
