--------------------------- MODULE ColocatorProofs ---------------------------
(***************************************************************************)
(* For every number of clients, policy, threshold, ring size, number of    *)
(* calls and set of kinds, with and without failing calls:                 *)
(*                                                                         *)
(* Safety.  IInv is inductive and implies the invariants of Colocator.     *)
(*                                                                         *)
(* Refinement.  Colocator implements SoloStream: each step is one of a     *)
(* single client's private stream, or invisible to the clients.            *)
(*                                                                         *)
(* ThrottledFcfsPolicy.  Under a threshold the ring can hold, every        *)
(* operation on a stream has a completion event of its own, so the         *)
(* cursor's count, however old, never shows less than the GPU has.         *)
(*                                                                         *)
(* FcfsPolicy.  A record that is passed over was not yet seen, the next    *)
(* snapshot sees it, and then no later stamp can win.                      *)
(***************************************************************************)
EXTENDS FcfsOrder, ColocatorImplementsSolo, TLAPS

USE DEF clientVars, execVars, schedVars, evVars, gpuVars, mainVars

(***************************************************************************)
(* Data                                                                    *)
(***************************************************************************)
LEMMA AppendFacts ==
    ASSUME NEW s \in Seq(Nat), NEW x \in Nat
    PROVE  /\ Append(s, x) \in Seq(Nat)
           /\ Len(Append(s, x)) = Len(s) + 1
           /\ \A i \in 1 .. Len(s) : Append(s, x)[i] = s[i]
           /\ Append(s, x)[Len(s) + 1] = x
  OBVIOUS

LEMMA TailFacts ==
    ASSUME NEW s \in Seq(Nat), s # <<>>
    PROVE  /\ Tail(s) \in Seq(Nat)
           /\ Len(s) >= 1 /\ Len(Tail(s)) = Len(s) - 1
           /\ \A i \in 1 .. Len(s) - 1 : Tail(s)[i] = s[i + 1]
           /\ Head(s) = s[1]
  OBVIOUS

LEMMA SlotInRing == \A s \in Nat : Slot(s) \in 0 .. Ring - 1
  BY RingAssumption DEF Slot

\* Client numbers are a non-empty initial segment, so a scan stays in it.
LEMMA ClientFacts == 0 \in Client /\ Null \notin Client /\ Client \subseteq Nat
  BY ClientsAssumption DEF Client, Null, kMaxClients

LEMMA ScanFacts ==
    ASSUME scan \in Client, NEW after, ScanThen(after)
    PROVE  /\ scan' \in Client
           /\ \/ spc' = spc /\ scan' = scan + 1
              \/ spc' = after /\ scan' = 0 /\ \A c \in Client : c <= scan
  BY ClientsAssumption DEF Client, ScanThen, kMaxClients

\* Updates of one field of one frame.
LEMMA RetUpdate ==
    ASSUME rec \in [Client -> Frames], NEW c \in Client, NEW r \in {"success", "error"},
           rec' = [rec EXCEPT ![c].ret = r]
    PROVE  /\ rec' \in [Client -> Frames]
           /\ rec'[c].op_id = rec[c].op_id /\ rec'[c].kind = rec[c].kind
           /\ rec'[c].state = rec[c].state /\ rec'[c].ret = r
           /\ \A d \in Client : d # c => rec'[d] = rec[d]
  BY DEF Frames

LEMMA StateUpdate ==
    ASSUME rec \in [Client -> Frames], NEW c \in Client, NEW s \in {QUEUED, ISSUED, DONE},
           rec' = [rec EXCEPT ![c].state = s]
    PROVE  /\ rec' \in [Client -> Frames]
           /\ rec'[c].op_id = rec[c].op_id /\ rec'[c].kind = rec[c].kind
           /\ rec'[c].ret = rec[c].ret /\ rec'[c].state = s
           /\ \A d \in Client : d # c => rec'[d] = rec[d]
  BY DEF Frames

LEMMA PollUpdate ==
    ASSUME rec \in [Client -> Frames], NEW c \in Client, NEW r \in {"success", "error"},
           rec' = [rec EXCEPT ![c].ret = IF @ = "success" THEN r ELSE @, ![c].state = DONE]
    PROVE  /\ rec' \in [Client -> Frames]
           /\ rec'[c].op_id = rec[c].op_id /\ rec'[c].kind = rec[c].kind
           /\ rec'[c].state = DONE /\ rec'[c].ret = (IF rec[c].ret = "success" THEN r ELSE rec[c].ret)
           /\ \A d \in Client : d # c => rec'[d] = rec[d]
  BY ZenonT(60) DEF Frames

LEMMA FrameUpdate ==
    ASSUME rec \in [Client -> Frames], NEW c \in Client, NEW f \in Frames,
           rec' = [rec EXCEPT ![c] = f]
    PROVE  /\ rec' \in [Client -> Frames]
           /\ rec'[c] = f
           /\ \A d \in Client : d # c => rec'[d] = rec[d]
  OBVIOUS

LEMMA FrameFields ==
    ASSUME NEW f \in Frames
    PROVE  /\ f.op_id \in Nat \cup {Null} /\ f.kind \in Kinds \cup {"none"}
           /\ f.t \in Nat /\ f.state \in {QUEUED, ISSUED, DONE} /\ f.ret \in {"success", "error"}
  BY DEF Frames

LEMMA NoCallFrame ==
    /\ NoCall \in Frames
    /\ NoCall.state = QUEUED /\ NoCall.kind = "none" /\ NoCall.ret = "success"
  BY DEF NoCall, Frames

(***************************************************************************)
(* Initial states                                                          *)
(***************************************************************************)
LEMMA InitInductive == Init => IInv
  <1> SUFFICES ASSUME Init PROVE IInv
    OBVIOUS
  <1> USE ClientFacts, RingAssumption, NoCallFrame DEF Init
  <1>1. ClientTypeOK /\ MainTypeOK
    BY DEF ClientTypeOK, MainTypeOK
  <1>6. LoopTypeOK
    BY DEF LoopTypeOK
  <1>2. ReplayTypeOK /\ EventTypeOK /\ GpuTypeOK
    BY DEF ReplayTypeOK, EventTypeOK, GpuTypeOK
  <1>3. ASSUME NEW c \in Client
        PROVE  QueueInv(c) /\ OutsideInv(c) /\ InsideInv(c) /\ HeadInv(c)
    BY <1>3 DEF QueueInv, OutsideInv, InsideInv, HeadInv, Pushed, Made, Popped,
                InService, InCall, Null
  <1>4. ASSUME NEW c \in Client
        PROVE  LogInv(c) /\ DrainInv(c) /\ EventInv(c)
    BY <1>4 DEF LogInv, DrainInv, EventInv, InService, QUEUED, DONE
  <1>5. SchedInv /\ MainInv
    BY DEF SchedInv, MainInv
  <1> QED
    BY <1>1, <1>2, <1>3, <1>4, <1>5, <1>6 DEF IInv, TypeOK

(***************************************************************************)
(* Client threads                                                          *)
(***************************************************************************)
LEMMA CallInductive ==
    ASSUME IInv, NEW c \in Client, NEW kind \in Kinds, Call(c, kind)
    PROVE  IInv'
  <1> USE DEF IInv, TypeOK, Call
  <1>1. PICK t \in 0 .. NumClients * MaxOps :
          rec' = [rec EXCEPT ![c] = FuncRecord(submitted[c], kind, t)]
    OBVIOUS
  <1> DEFINE f == FuncRecord(submitted[c], kind, t)
  <1>2. /\ f \in Frames /\ f.op_id = submitted[c] /\ f.kind = kind
        /\ f.state = QUEUED /\ f.ret = "success"
    BY ClientsAssumption, WorkAssumption DEF FuncRecord, Frames, ClientTypeOK, kMaxClients
  <1> HIDE DEF f
  <1>3. /\ rec' \in [Client -> Frames] /\ rec'[c] = f
        /\ \A d \in Client : d # c => rec'[d] = rec[d]
    BY <1>1, <1>2, FrameUpdate DEF ClientTypeOK, f
  <1>4. TypeOK'
    <2>1. ClientTypeOK'
      BY <1>3 DEF ClientTypeOK
    <2> QED
      BY <2>1, ZenonT(40) DEF LoopTypeOK, ReplayTypeOK, EventTypeOK, GpuTypeOK, MainTypeOK
  <1>5. ASSUME NEW d \in Client PROVE QueueInv(d)'
    <2>1. Pushed(d)' = Pushed(d) /\ Popped(d)' = Popped(d)
      BY DEF Pushed, Popped, ClientTypeOK
    <2> QED BY <2>1 DEF QueueInv
  <1>6. ASSUME NEW d \in Client PROVE (OutsideInv(d) /\ InsideInv(d) /\ HeadInv(d))'
    <2>1. /\ rec'[c].state = QUEUED /\ rec'[c].op_id = submitted[c] /\ rec'[c].kind = kind
          /\ submitted'[c] = submitted[c] + 1 /\ submitted[c] \in Nat /\ cpc'[c] = "pushing"
      BY <1>2, <1>3 DEF ClientTypeOK
    <2>2. Unserved(c)'
      BY <2>1 DEF Unserved, Made, OutsideInv
    <2>3. CASE d = c
      BY <2>1, <2>2, <2>3 DEF OutsideInv, InsideInv, HeadInv, InCall, InService, Null
    <2>4. CASE d # c
      BY <1>3, <2>4 DEF OutsideInv, InsideInv, HeadInv, InCall, Made, InService,
         Unserved, Served, Parked, Released, ClientTypeOK
    <2> QED
      BY <2>3, <2>4
  <1>7. ASSUME NEW d \in Client PROVE (LogInv(d) /\ DrainInv(d) /\ EventInv(d))'
    BY <1>2, <1>3, SMTT(30) DEF LogInv, DrainInv, EventInv, Made, InService, Drained, Outstanding,
       OutsideInv, QUEUED, DONE
  <1>8. (SchedInv /\ MainInv)'
    BY DEF SchedInv, MainInv, Drained, Outstanding, ClientTypeOK
  <1> QED
    BY <1>4, <1>5, <1>6, <1>7, <1>8

LEMMA PushInductive ==
    ASSUME IInv, NEW c \in Client, Push(c)
    PROVE  IInv'
  <1> USE DEF IInv, TypeOK, Push
  <1>1. /\ rec[c].op_id = submitted[c] - 1 /\ submitted[c] >= 1 /\ Unserved(c)
        /\ submitted[c] \in Nat /\ q[c] \in Seq(Nat)
    BY DEF InsideInv, InCall, ClientTypeOK
  <1> DEFINE nq == Append(q[c], rec[c].op_id)
  <1>2. /\ nq \in Seq(Nat) /\ Len(nq) = Len(q[c]) + 1
        /\ \A i \in 1 .. Len(q[c]) : nq[i] = q[c][i]
        /\ nq[Len(q[c]) + 1] = rec[c].op_id
    BY <1>1, AppendFacts
  <1>3. q' = [q EXCEPT ![c] = nq]
    OBVIOUS
  <1> HIDE DEF nq
  <1>4. TypeOK'
    BY <1>2, <1>3, ZenonT(60)
       DEF ClientTypeOK, LoopTypeOK, ReplayTypeOK, EventTypeOK, GpuTypeOK, MainTypeOK
  <1>5. ASSUME NEW d \in Client PROVE QueueInv(d)'
    <2>1. CASE d = c
      <3>1. /\ Popped(c)' = Popped(c) /\ Pushed(c)' = Pushed(c) + 1 /\ Popped(c) \in Int
            /\ Pushed(c) = submitted[c] - 1
        BY DEF Popped, Pushed, ClientTypeOK, ReplayTypeOK
      <3>2. q'[c] = nq /\ Len(q[c]) \in Nat /\ Len(q[c]) = Pushed(c) - Popped(c)
        BY <1>1, <1>3 DEF QueueInv, ClientTypeOK
      <3>3. \A i \in 1 .. Len(q[c]) : q[c][i] = Popped(c) + i - 1
        BY DEF QueueInv
      <3>4. nq[Len(q[c]) + 1] = Popped(c) + (Len(q[c]) + 1) - 1
        BY <1>1, <1>2, <3>1, <3>2
      <3>5. \A i \in 1 .. Len(q[c]) + 1 : nq[i] = Popped(c) + i - 1
        <4> TAKE i \in 1 .. Len(q[c]) + 1
        <4>1. CASE i = Len(q[c]) + 1
          BY <3>4, <4>1
        <4>2. CASE i \in 1 .. Len(q[c])
          BY <1>2, <3>3, <4>2
        <4> QED BY <3>2, <4>1, <4>2
      <3>6. QueueInv(c)'
        <4>1. Len(q[c])' = Len(q[c]) + 1
          BY <1>2, <3>2
        <4>2. (Len(q[c]) = Pushed(c) - Popped(c))'
          BY <4>1, <1>1, <3>1, <3>2
        <4>3. (\A i \in 1 .. Len(q[c]) : q[c][i] = Popped(c) + i - 1)'
          BY <4>1, <3>1, <3>2, <3>5
        <4> QED BY <4>2, <4>3 DEF QueueInv
      <3> QED BY <2>1, <3>6
    <2>2. CASE d # c
      BY <1>3, <2>2 DEF QueueInv, Pushed, Popped, ClientTypeOK
    <2> QED BY <2>1, <2>2
  <1>6. ASSUME NEW d \in Client PROVE (OutsideInv(d) /\ InsideInv(d) /\ HeadInv(d))'
    BY DEF OutsideInv, InsideInv, HeadInv, InCall, Made, InService,
       Unserved, Served, Parked, Released, ClientTypeOK
  <1>7. ASSUME NEW d \in Client PROVE (LogInv(d) /\ DrainInv(d) /\ EventInv(d))'
    BY DEF LogInv, DrainInv, EventInv, Made, InService, Drained, Outstanding
  <1>8. (SchedInv /\ MainInv)'
    BY DEF SchedInv, MainInv, Drained, Outstanding, ClientTypeOK
  <1> QED
    BY <1>4, <1>5, <1>6, <1>7, <1>8

LEMMA ReturnInductive ==
    ASSUME IInv, NEW c \in Client, Return(c)
    PROVE  IInv'
  <1> USE DEF IInv, TypeOK, Return
  <1>1. /\ rec' \in [Client -> Frames] /\ rec'[c] = NoCall
        /\ \A d \in Client : d # c => rec'[d] = rec[d]
    BY NoCallFrame, FrameUpdate DEF ClientTypeOK
  <1>2. Released(c)
    BY DEF InsideInv, Unserved, Served, Parked, WaitState, QUEUED, ISSUED, DONE
  <1>3. TypeOK'
    BY <1>1, ZenonT(40) DEF ClientTypeOK, LoopTypeOK, ReplayTypeOK, EventTypeOK, GpuTypeOK, MainTypeOK
  <1>4. ASSUME NEW d \in Client PROVE QueueInv(d)'
    BY DEF QueueInv, Pushed, Popped, ClientTypeOK
  <1>5. ASSUME NEW d \in Client PROVE (OutsideInv(d) /\ InsideInv(d))'
    BY <1>1, <1>2 DEF OutsideInv, InsideInv, InCall, Made, InService, Unserved, Served,
       Parked, Released, ClientTypeOK
  <1>6. ASSUME NEW d \in Client PROVE HeadInv(d)'
    <2>1. ~Unserved(c)
      BY <1>2 DEF Unserved, Released, Made, ClientTypeOK, ReplayTypeOK
    <2>2. CASE d = c
      BY <1>2, <2>1, <2>2 DEF HeadInv, Released, InService
    <2>3. CASE d # c
      BY <1>1, <2>3 DEF HeadInv, Unserved, Served, InService, Made, ClientTypeOK
    <2> QED BY <2>2, <2>3
  <1>7. ASSUME NEW d \in Client PROVE (LogInv(d) /\ DrainInv(d) /\ EventInv(d))'
    <2>1. CASE d = c
      <3>1. ~InService(c)' /\ rec'[c].state # DONE
        BY <1>1, <1>2, NoCallFrame DEF Released, InService, QUEUED, DONE
      <3> QED BY <2>1, <3>1 DEF LogInv, DrainInv, EventInv, Made
    <2>2. CASE d # c
      BY <1>1, <2>2 DEF LogInv, DrainInv, EventInv, Made, InService, Drained, Outstanding
    <2> QED BY <2>1, <2>2
  <1>8. (SchedInv /\ MainInv)'
    BY DEF SchedInv, MainInv, Drained, Outstanding, ClientTypeOK
  <1> QED
    BY <1>3, <1>4, <1>5, <1>6, <1>7, <1>8

LEMMA ExitInductive ==
    ASSUME IInv, NEW c \in Client, Exit(c)
    PROVE  IInv'
  <1> USE DEF IInv, TypeOK, Exit
  <1>1. TypeOK'
    BY ZenonT(40) DEF ClientTypeOK, LoopTypeOK, ReplayTypeOK, EventTypeOK, GpuTypeOK, MainTypeOK
  <1>2. ASSUME NEW d \in Client PROVE QueueInv(d)'
    BY DEF QueueInv, Pushed, Popped, ClientTypeOK
  <1>3. ASSUME NEW d \in Client PROVE (OutsideInv(d) /\ InsideInv(d) /\ HeadInv(d))'
    BY DEF OutsideInv, InsideInv, HeadInv, InCall, Made, InService, Unserved, Served,
       Parked, Released, ClientTypeOK
  <1>4. ASSUME NEW d \in Client PROVE (LogInv(d) /\ DrainInv(d) /\ EventInv(d))'
    BY DEF LogInv, DrainInv, EventInv, Made, InService, Drained, Outstanding
  <1>5. (SchedInv /\ MainInv)'
    BY DEF SchedInv, MainInv, Drained, Outstanding, ClientTypeOK
  <1> QED
    BY <1>1, <1>2, <1>3, <1>4, <1>5

(***************************************************************************)
(* GPU                                                                     *)
(***************************************************************************)
LEMMA FinishInductive ==
    ASSUME IInv, NEW c \in Client, Finish(c)
    PROVE  IInv'
  <1> USE DEF IInv, TypeOK, Finish
  <1>1. GpuTypeOK'
    <2>1. \A d \in Client : finished[d] \in Nat /\ Len(stream[d]) \in Nat /\ finished[d] <= Len(stream[d])
      BY DEF GpuTypeOK
    <2>2. finished[c] < Len(stream[c])
      BY <2>1 DEF Drained, Outstanding
    <2> QED BY <2>1, <2>2 DEF GpuTypeOK
  <1>2. TypeOK'
    BY <1>1, ZenonT(40) DEF ClientTypeOK, LoopTypeOK, ReplayTypeOK, EventTypeOK, MainTypeOK
  <1>3. ASSUME NEW d \in Client
        PROVE  (QueueInv(d) /\ OutsideInv(d) /\ InsideInv(d) /\ HeadInv(d))'
    BY DEF QueueInv, OutsideInv, InsideInv, HeadInv, InCall, Made, Pushed, Popped, InService,
       Unserved, Served, Parked, Released
  <1>4. ASSUME NEW d \in Client PROVE (LogInv(d) /\ DrainInv(d) /\ EventInv(d))'
    BY DEF LogInv, DrainInv, EventInv, Made, InService, Drained, Outstanding, GpuTypeOK
  <1>5. (SchedInv /\ MainInv)'
    BY DEF SchedInv, MainInv, Drained, Outstanding, GpuTypeOK
  <1> QED
    BY <1>2, <1>3, <1>4, <1>5

(***************************************************************************)
(* Scheduler thread: the loop                                              *)
(***************************************************************************)
LEMMA CheckStopInductive ==
    ASSUME IInv, CheckStop
    PROVE  IInv'
  <1> USE DEF IInv, TypeOK, CheckStop
  <1>1. TypeOK'
    BY DEF ClientTypeOK, LoopTypeOK, ReplayTypeOK, EventTypeOK, GpuTypeOK, MainTypeOK
  <1>2. ASSUME NEW d \in Client
        PROVE  (QueueInv(d) /\ OutsideInv(d) /\ InsideInv(d) /\ HeadInv(d))'
    BY DEF QueueInv, OutsideInv, InsideInv, HeadInv, InCall, Made, Pushed, Popped, InService,
       Unserved, Served, Parked, Released
  <1>3. ASSUME NEW d \in Client PROVE (LogInv(d) /\ DrainInv(d) /\ EventInv(d))'
    <2>1. scan = 0 /\ ~(d < 0)
      BY ClientFacts DEF SchedInv
    <2> QED
      BY <2>1 DEF LogInv, DrainInv, EventInv, Made, InService, Drained, Outstanding
  <1>4. (SchedInv /\ MainInv)'
    BY DEF SchedInv, MainInv, Drained, Outstanding
  <1> QED
    BY <1>1, <1>2, <1>3, <1>4

LEMMA PollNothingInductive ==
    ASSUME IInv, NEW c \in Client, PollNothing(c)
    PROVE  IInv'
  <1> USE DEF IInv, TypeOK, PollNothing
  <1>1. /\ scan' \in Client
        /\ (spc' = spc /\ scan' = scan + 1) \/ (spc' = "advance" /\ scan' = 0)
    BY ScanFacts DEF LoopTypeOK
  <1>2. TypeOK'
    BY <1>1 DEF ClientTypeOK, LoopTypeOK, ReplayTypeOK, EventTypeOK, GpuTypeOK, MainTypeOK
  <1>3. ASSUME NEW d \in Client
        PROVE  (QueueInv(d) /\ OutsideInv(d) /\ InsideInv(d) /\ HeadInv(d))'
    BY <1>1 DEF QueueInv, OutsideInv, InsideInv, HeadInv, InCall, Made, Pushed, Popped, InService,
       Unserved, Served, Parked, Released, SchedInv
  <1>4. ASSUME NEW d \in Client PROVE (LogInv(d) /\ DrainInv(d) /\ EventInv(d))'
    BY <1>1 DEF LogInv, DrainInv, EventInv, Made, InService, Drained, Outstanding
  <1>5. (SchedInv /\ MainInv)'
    BY <1>1 DEF SchedInv, MainInv, Drained, Outstanding
  <1> QED
    BY <1>2, <1>3, <1>4, <1>5

\* The parked record is live, so the store lands in its client's frame, and
\* the query that answered "success" saw the stream drained.
LEMMA PollParkedInductive ==
    ASSUME IInv, NEW c \in Client, PollParked(c)
    PROVE  IInv'
  <1> USE DEF IInv, TypeOK
  <1>1. /\ scan' \in Client /\ spc = "poll"
        /\ (spc' = spc /\ scan' = scan + 1) \/ (spc' = "advance" /\ scan' = 0)
    BY ScanFacts DEF LoopTypeOK, PollParked
  <1>2. pick = Null /\ ~InService(c)
    BY <1>1, ClientFacts DEF SchedInv, InService
  <1>3. /\ cpc[c] = "spinning" /\ Parked(c)
        /\ rec[c].kind \in {"Memcpy", "Memset", "StreamSync"}
    BY <1>2 DEF PollParked, OutsideInv, InsideInv, Unserved, Served, Parked, Released,
       ClientTypeOK
  <1>4. PICK result \in StreamQuery(c) :
          IF result = "notReady"
          THEN UNCHANGED <<rec, pending_sync>>
          ELSE /\ rec' = [rec EXCEPT
                           ![c].ret = IF @ = "success" THEN result ELSE @,
                           ![c].state = DONE]
               /\ pending_sync' = [pending_sync EXCEPT ![c] = Null]
    BY DEF PollParked
  <1>5. UNCHANGED <<cpc, q, submitted, heads, pick, execVars, issued, log, evVars,
                    gpuVars, mainVars>>
    BY DEF PollParked
  <1>6. CASE result = "notReady"
    <2>1. TypeOK'
      BY <1>1, <1>4, <1>5, <1>6
         DEF ClientTypeOK, LoopTypeOK, ReplayTypeOK, EventTypeOK, GpuTypeOK, MainTypeOK
    <2>2. ASSUME NEW d \in Client
          PROVE  (QueueInv(d) /\ OutsideInv(d) /\ InsideInv(d) /\ HeadInv(d))'
      BY <1>1, <1>2, <1>4, <1>5, <1>6 DEF QueueInv, OutsideInv, InsideInv, HeadInv, InCall, Made,
         Pushed, Popped, InService, Unserved, Served, Parked, Released, SchedInv
    <2>3. ASSUME NEW d \in Client PROVE (LogInv(d) /\ DrainInv(d) /\ EventInv(d))'
      BY <1>1, <1>4, <1>5, <1>6
         DEF LogInv, DrainInv, EventInv, Made, InService, Drained, Outstanding
    <2>4. (SchedInv /\ MainInv)'
      BY <1>1, <1>5 DEF SchedInv, MainInv, Drained, Outstanding
    <2> QED BY <2>1, <2>2, <2>3, <2>4
  <1>7. CASE result # "notReady"
    <2>1. result \in {"success", "error"} /\ (result = "success" => Drained(c))
      BY <1>4, <1>7 DEF StreamQuery
    <2>2. pending_sync' = [pending_sync EXCEPT ![c] = Null]
      BY <1>4, <1>7
    <2>3. /\ rec' \in [Client -> Frames]
          /\ rec'[c].op_id = rec[c].op_id /\ rec'[c].kind = rec[c].kind
          /\ rec'[c].state = DONE
          /\ rec'[c].ret = "success" => result = "success"
          /\ \A d \in Client : d # c => rec'[d] = rec[d]
      BY <1>4, <1>7, <2>1, PollUpdate DEF ClientTypeOK
    <2>4. TypeOK'
      BY <1>1, <1>5, <2>2, <2>3
         DEF ClientTypeOK, LoopTypeOK, ReplayTypeOK, EventTypeOK, GpuTypeOK, MainTypeOK
    <2>5. ASSUME NEW d \in Client PROVE QueueInv(d)'
      BY <1>1, <1>5 DEF QueueInv, Pushed, Popped
    <2>6. Released(c)'
      BY <1>1, <1>2, <1>3, <1>5, <2>2, <2>3, ClientFacts
         DEF Released, Parked, Made, InService, WaitState, AsyncKinds, ReplayTypeOK
    <2>7. ASSUME NEW d \in Client PROVE (OutsideInv(d) /\ InsideInv(d) /\ HeadInv(d))'
      <3>1. CASE d = c
        BY <1>1, <1>2, <1>3, <1>5, <2>2, <2>3, <2>6, <3>1, ClientFacts
           DEF OutsideInv, InsideInv, HeadInv, InCall, Released, SchedInv, ReplayTypeOK
      <3>2. CASE d # c
        BY <1>1, <1>2, <1>5, <2>2, <2>3, <3>2, ZenonT(40) DEF OutsideInv, InsideInv, HeadInv, InCall, Made,
           InService, Unserved, Served, Parked, Released, SchedInv, ReplayTypeOK
      <3> QED BY <3>1, <3>2
    <2>8. ASSUME NEW d \in Client PROVE (LogInv(d) /\ DrainInv(d) /\ EventInv(d))'
      BY <1>1, <1>2, <1>5, <2>1, <2>3
         DEF LogInv, DrainInv, EventInv, Made, InService, Drained, Outstanding, SchedInv
    <2>9. (SchedInv /\ MainInv)'
      BY <1>1, <1>5 DEF SchedInv, MainInv, Drained, Outstanding
    <2> QED BY <2>4, <2>5, <2>7, <2>8, <2>9
  <1> QED
    BY <1>6, <1>7

LEMMA SkipAdvanceInductive ==
    ASSUME IInv, SkipAdvance
    PROVE  IInv'
  <1> USE DEF IInv, TypeOK, SkipAdvance
  <1>1. TypeOK'
    BY DEF ClientTypeOK, LoopTypeOK, ReplayTypeOK, EventTypeOK, GpuTypeOK, MainTypeOK
  <1>2. ASSUME NEW d \in Client
        PROVE  (QueueInv(d) /\ OutsideInv(d) /\ InsideInv(d) /\ HeadInv(d))'
    BY DEF QueueInv, OutsideInv, InsideInv, HeadInv, InCall, Made, Pushed, Popped, InService,
       Unserved, Served, Parked, Released, SchedInv
  <1>3. ASSUME NEW d \in Client PROVE (LogInv(d) /\ DrainInv(d) /\ EventInv(d))'
    BY DEF LogInv, DrainInv, EventInv, Made, InService, Drained, Outstanding
  <1>4. (SchedInv /\ MainInv)'
    BY DEF SchedInv, MainInv, Drained, Outstanding
  <1> QED
    BY <1>1, <1>2, <1>3, <1>4

\* Moving a cursor touches nothing but ev_done.
LEMMA CursorFacts ==
    ASSUME EventTypeOK, NEW c \in Client, AdvanceCursor(c), UNCHANGED <<events, ev_issued>>
    PROVE  /\ EventTypeOK'
           /\ \A d \in Client : d # c => ev_done'[d] = ev_done[d]
           /\ ev_done'[c] \in CursorStops(c)
  <1>1. PICK s \in CursorStops(c) : ev_done' = [ev_done EXCEPT ![c] = s]
    BY DEF AdvanceCursor
  <1>2. s \in Nat /\ s <= ev_issued[c]
    BY DEF CursorStops, EventTypeOK
  <1> QED
    BY <1>1, <1>2 DEF EventTypeOK

LEMMA AdvanceInductive ==
    ASSUME IInv, NEW c \in Client, Advance(c)
    PROVE  IInv'
  <1> USE DEF IInv, TypeOK, Advance
  <1>1. /\ scan' \in Client
        /\ (spc' = spc /\ scan' = scan + 1) \/ (spc' = "peek" /\ scan' = 0)
    BY ScanFacts DEF LoopTypeOK
  <1>2. EventTypeOK'
    BY CursorFacts
  <1>3. TypeOK'
    BY <1>1, <1>2 DEF ClientTypeOK, LoopTypeOK, ReplayTypeOK, GpuTypeOK, MainTypeOK
  <1>4. ASSUME NEW d \in Client
        PROVE  (QueueInv(d) /\ OutsideInv(d) /\ InsideInv(d) /\ HeadInv(d))'
    BY <1>1 DEF QueueInv, OutsideInv, InsideInv, HeadInv, InCall, Made, Pushed, Popped, InService,
       Unserved, Served, Parked, Released, SchedInv
  <1>5. ASSUME NEW d \in Client PROVE (LogInv(d) /\ DrainInv(d) /\ EventInv(d))'
    BY <1>1 DEF LogInv, DrainInv, EventInv, Made, InService, Drained, Outstanding
  <1>6. (SchedInv /\ MainInv)'
    BY <1>1 DEF SchedInv, MainInv, Drained, Outstanding
  <1> QED
    BY <1>3, <1>4, <1>5, <1>6

\* A head is always the one unserved record of a client that spins on it.
LEMMA PeekInductive ==
    ASSUME IInv, NEW c \in Client, Peek(c)
    PROVE  IInv'
  <1> USE DEF IInv, TypeOK, Peek
  <1> DEFINE h == IF q[c] = <<>> THEN Null ELSE Head(q[c])
  <1>1. /\ scan' \in Client
        /\ (spc' = spc /\ scan' = scan + 1) \/ (spc' = "pick" /\ scan' = 0)
    BY ScanFacts DEF LoopTypeOK
  <1>2. pick = Null /\ Made(c) = issued[c] /\ Popped(c) = issued[c]
    BY ClientFacts DEF SchedInv, Made, Popped
  <1>3. ASSUME q[c] # <<>>
        PROVE  h = issued[c] /\ cpc[c] = "spinning" /\ Unserved(c)
    <2>1. q[c] \in Seq(Nat) /\ Len(q[c]) >= 1 /\ h = q[c][1]
      BY <1>3, TailFacts DEF ClientTypeOK
    <2>2. h = issued[c] /\ Len(q[c]) = Pushed(c) - issued[c]
      <3>1. issued[c] \in Nat /\ 1 \in 1 .. Len(q[c])
        BY <2>1 DEF ReplayTypeOK
      <3>2. q[c][1] = Popped(c) + 1 - 1
        BY <3>1 DEF QueueInv
      <3> QED BY <1>2, <2>1, <3>1, <3>2 DEF QueueInv
    <2>3. Pushed(c) > issued[c] /\ submitted[c] \in Nat /\ issued[c] \in Nat
      BY <2>1, <2>2 DEF Pushed, ClientTypeOK, ReplayTypeOK
    <2>4. cpc[c] = "spinning" /\ Made(c) # submitted[c]
      BY <1>2, <2>3 DEF Pushed, OutsideInv, InsideInv, Unserved, ClientTypeOK
    <2>5. Unserved(c)
      BY <2>4 DEF InsideInv, Served, Parked, Released
    <2> QED BY <2>2, <2>4, <2>5
  <1>4. /\ heads' = [heads EXCEPT ![c] = h]
        /\ h # Null => h = issued[c] /\ cpc[c] = "spinning" /\ Unserved(c)
        /\ h \in Nat \cup {Null}
    BY <1>3 DEF ReplayTypeOK
  <1> HIDE DEF h
  <1>5. TypeOK'
    BY <1>1, <1>4, ZenonT(40) DEF ClientTypeOK, LoopTypeOK, ReplayTypeOK, EventTypeOK, GpuTypeOK, MainTypeOK
  <1>6. ASSUME NEW d \in Client
        PROVE  (QueueInv(d) /\ OutsideInv(d) /\ InsideInv(d))'
    BY <1>1 DEF QueueInv, OutsideInv, InsideInv, InCall, Made, Pushed, Popped, InService,
       Unserved, Served, Parked, Released
  <1>7. ASSUME NEW d \in Client PROVE HeadInv(d)'
    <2>1. Unserved(d)' <=> Unserved(d)
      BY <1>1 DEF Unserved, Made
    <2>2. CASE d = c
      BY <1>1, <1>2, <1>4, <2>1, <2>2 DEF HeadInv, LoopTypeOK
    <2>3. CASE d # c
      BY <1>1, <1>2, <1>4, <2>1, <2>3 DEF HeadInv, LoopTypeOK
    <2> QED BY <2>2, <2>3
  <1>8. ASSUME NEW d \in Client PROVE (LogInv(d) /\ DrainInv(d) /\ EventInv(d))'
    BY <1>1 DEF LogInv, DrainInv, EventInv, Made, InService, Drained, Outstanding
  <1>9. (SchedInv /\ MainInv)'
    BY <1>1, <1>2 DEF SchedInv, MainInv, Drained, Outstanding
  <1> QED
    BY <1>5, <1>6, <1>7, <1>8, <1>9

LEMMA IdleInductive ==
    ASSUME IInv, Idle
    PROVE  IInv'
  <1> USE DEF IInv, TypeOK, Idle, ForgetHeads
  <1>1. TypeOK'
    BY DEF ClientTypeOK, LoopTypeOK, ReplayTypeOK, EventTypeOK, GpuTypeOK, MainTypeOK
  <1>2. ASSUME NEW d \in Client
        PROVE  (QueueInv(d) /\ OutsideInv(d) /\ InsideInv(d) /\ HeadInv(d))'
    BY DEF QueueInv, OutsideInv, InsideInv, HeadInv, InCall, Made, Pushed, Popped, InService,
       Unserved, Served, Parked, Released
  <1>3. ASSUME NEW d \in Client PROVE (LogInv(d) /\ DrainInv(d) /\ EventInv(d))'
    BY DEF LogInv, DrainInv, EventInv, Made, InService, Drained, Outstanding
  <1>4. (SchedInv /\ MainInv)'
    BY DEF SchedInv, MainInv, Drained, Outstanding
  <1> QED
    BY <1>1, <1>2, <1>3, <1>4

\* Whatever the policy, it picks a client whose head was seen.
LEMMA PickNextInductive ==
    ASSUME IInv, NEW c \in Client, PickNext(c)
    PROVE  IInv'
  <1> USE DEF IInv, TypeOK, PickNext
  <1>1. heads[c] # Null /\ pick = Null /\ c # Null
    BY ClientFacts DEF Chosen, Eligible, Candidates, SchedInv
  <1>2. TypeOK'
    BY DEF ClientTypeOK, LoopTypeOK, ReplayTypeOK, EventTypeOK, GpuTypeOK, MainTypeOK
  <1>3. ASSUME NEW d \in Client
        PROVE  (QueueInv(d) /\ OutsideInv(d) /\ InsideInv(d) /\ HeadInv(d))'
    BY DEF QueueInv, OutsideInv, InsideInv, HeadInv, InCall, Made, Pushed, Popped, InService,
       Unserved, Served, Parked, Released
  <1>4. ASSUME NEW d \in Client PROVE (LogInv(d) /\ DrainInv(d) /\ EventInv(d))'
    BY DEF LogInv, DrainInv, EventInv, Made, InService, Drained, Outstanding
  <1>5. SchedInv'
    BY <1>1 DEF SchedInv
  <1>6. MainInv'
    BY DEF MainInv, Drained, Outstanding
  <1> QED
    BY <1>2, <1>3, <1>4, <1>5, <1>6

(***************************************************************************)
(* Scheduler thread: execute.  The six branches of the switch differ in    *)
(* what they enqueue and whether they park; Replay is what they share.     *)
(***************************************************************************)
Replay(c, r) ==
    /\ spc = "call" /\ pick = c /\ spc' = "event"
    /\ r \in {"success", "error"}
    /\ rec' = [rec EXCEPT ![c].ret = r]
    /\ stream_op' \in BOOLEAN
    /\ \/ UNCHANGED stream
       \/ stream' = [stream EXCEPT ![c] = Append(@, heads[c])]
    /\ final_state' # Null /\ r = "success" /\ rec[c].kind \in DrainingKinds
         => Drained(c) /\ UNCHANGED stream
    /\ \/ /\ rec[c].kind \in {"Memcpy", "Memset", "StreamSync"}
          /\ final_state' = Null
          /\ pending_sync' = [pending_sync EXCEPT ![c] = heads[c]]
       \/ final_state' = WaitState(rec[c].kind) /\ UNCHANGED pending_sync
    /\ UNCHANGED <<cpc, q, submitted, scan, heads, pick, issued, log, evVars,
                   finished, mainVars>>

LEMMA ExecuteAsyncReplays ==
    ASSUME NEW c \in Client, ExecuteAsync(c) PROVE \E r : Replay(c, r)
  BY DEF ExecuteAsync, Executing, Enqueue, CallResults, Replay, WaitState, AsyncKinds, DrainingKinds

LEMMA ExecuteSyncCopyReplays ==
    ASSUME NEW c \in Client, ExecuteSyncCopy(c) PROVE \E r : Replay(c, r)
  BY
     DEF ExecuteSyncCopy, Executing, Enqueue, CallResults, Replay, WaitState, AsyncKinds,
         DrainingKinds

LEMMA ExecuteMallocReplays ==
    ASSUME NEW c \in Client, ExecuteMalloc(c) PROVE \E r : Replay(c, r)
  BY DEF ExecuteMalloc, Executing, CallResults, Replay, WaitState, AsyncKinds, DrainingKinds

LEMMA ExecuteFreeReplays ==
    ASSUME NEW c \in Client, ExecuteFree(c) PROVE \E r : Replay(c, r)
  BY DEF ExecuteFree, Executing, CallResults, Replay, WaitState, AsyncKinds, DrainingKinds

LEMMA ExecuteStreamSyncReplays ==
    ASSUME NEW c \in Client, ExecuteStreamSync(c) PROVE \E r : Replay(c, r)
  BY DEF ExecuteStreamSync, Executing, Replay, WaitState, AsyncKinds, DrainingKinds

LEMMA ExecuteEventRecordReplays ==
    ASSUME NEW c \in Client, ExecuteEventRecord(c) PROVE \E r : Replay(c, r)
  BY DEF ExecuteEventRecord, Executing, CallResults, Replay, WaitState, AsyncKinds, DrainingKinds

\* What the scheduler knows of the record it replays.
LEMMA ServingFacts ==
    ASSUME IInv, NEW c \in Client, spc = "call", pick = c
    PROVE  /\ heads[c] = issued[c] /\ issued[c] \in Nat
           /\ cpc[c] = "spinning" /\ Unserved(c)
           /\ issued[c] = submitted[c] - 1 /\ rec[c].op_id = issued[c]
  <1> USE DEF IInv, TypeOK
  <1>1. heads[c] # Null
    BY ClientFacts DEF SchedInv
  <1>2. heads[c] = issued[c] /\ cpc[c] = "spinning" /\ Unserved(c)
    BY <1>1 DEF HeadInv
  <1> QED
    BY <1>2 DEF Unserved, Made, InsideInv, InCall, ReplayTypeOK

LEMMA ReplayInductive ==
    ASSUME IInv, NEW c \in Client, NEW r, Replay(c, r)
    PROVE  IInv'
  <1> USE DEF IInv, TypeOK
  <1>1. /\ heads[c] = issued[c] /\ issued[c] \in Nat
        /\ cpc[c] = "spinning" /\ Unserved(c)
        /\ issued[c] = submitted[c] - 1 /\ rec[c].op_id = issued[c]
    BY ServingFacts DEF Replay
  <1>2. /\ rec' \in [Client -> Frames]
        /\ rec'[c].op_id = rec[c].op_id /\ rec'[c].kind = rec[c].kind
        /\ rec'[c].state = QUEUED /\ rec'[c].ret = r
        /\ \A d \in Client : d # c => rec'[d] = rec[d]
    BY <1>1, RetUpdate DEF Replay, ClientTypeOK, Unserved
  <1> DEFINE ns == Append(stream[c], heads[c])
  <1>3. /\ ns \in Seq(Nat) /\ Len(ns) = Len(stream[c]) + 1 /\ stream[c] \in Seq(Nat)
        /\ \A i \in 1 .. Len(stream[c]) : ns[i] = stream[c][i]
        /\ ns[Len(stream[c]) + 1] = heads[c]
    BY <1>1, AppendFacts DEF GpuTypeOK
  <1>4. \/ UNCHANGED stream
        \/ stream' = [stream EXCEPT ![c] = ns]
    BY DEF Replay
  <1> HIDE DEF ns
  <1>5. TypeOK'
    <2>1. ClientTypeOK'
      BY <1>2 DEF ClientTypeOK, Replay
    <2>2. GpuTypeOK'
      <3>1. finished' = finished /\ finished[c] \in Nat /\ finished[c] <= Len(stream[c])
        BY DEF Replay, GpuTypeOK
      <3>2. finished[c] <= Len(ns)
        BY <1>3, <3>1
      <3> QED BY <1>3, <1>4, <3>1, <3>2 DEF GpuTypeOK
    <2>3. (LoopTypeOK /\ ReplayTypeOK)'
      BY <1>1 DEF LoopTypeOK, ReplayTypeOK, Replay, WaitState
    <2> QED
      BY <2>1, <2>2, <2>3 DEF EventTypeOK, MainTypeOK, Replay
  <1>6. ASSUME NEW d \in Client PROVE QueueInv(d)'
    BY DEF QueueInv, Pushed, Popped, Replay
  <1>7. /\ Made(c)' = submitted[c] /\ Made(c)' = Made(c) + 1 /\ Made(c) = issued[c]
        /\ InService(c)' /\ ~InService(c)
        /\ \A d \in Client : d # c => Made(d)' = Made(d) /\ ~InService(d) /\ ~InService(d)'
    BY <1>1 DEF Made, InService, Replay, ClientTypeOK
  <1>8. ASSUME NEW d \in Client PROVE (OutsideInv(d) /\ InsideInv(d) /\ HeadInv(d))'
    <2>1. CASE d = c
      <3>1. Served(c)'
        BY <1>1, <1>2, <1>7, ClientFacts
           DEF Served, Unserved, Replay, WaitState, ISSUED, DONE, Null, ReplayTypeOK
      <3> QED
        BY <1>1, <1>2, <2>1, <3>1
           DEF OutsideInv, InsideInv, HeadInv, InCall, Replay, Unserved, ReplayTypeOK
    <2>2. CASE d # c
      BY <1>2, <1>7, <2>2 DEF OutsideInv, InsideInv, HeadInv, InCall,
         InService, Unserved, Served, Parked, Released, Replay, ReplayTypeOK
    <2> QED BY <2>1, <2>2
  <1>9. ASSUME NEW d \in Client PROVE (LogInv(d) /\ EventInv(d))'
    <2>1. CASE d = c
      <3>1. (Len(log[c]) = issued[c] /\ \A i \in 1 .. Len(log[c]) : log[c][i] = i - 1)'
        BY DEF LogInv, Replay
      <3>2. CASE UNCHANGED stream
        BY <1>7, <2>1, <3>1, <3>2 DEF LogInv, EventInv, Replay, GpuTypeOK
      <3>3. CASE stream' = [stream EXCEPT ![c] = ns]
        <4>1. stream'[c] = ns
          BY <3>3 DEF GpuTypeOK
        <4>0. /\ \A i \in 1 .. Len(stream[c]) : ns[i] \in Nat /\ ns[i] < issued[c]
              /\ \A i, j \in 1 .. Len(stream[c]) : i < j => ns[i] < ns[j]
              /\ Len(stream[c]) \in Nat
          <5>1. /\ \A i \in 1 .. Len(stream[c]) : stream[c][i] < issued[c]
                /\ \A i, j \in 1 .. Len(stream[c]) : i < j => stream[c][i] < stream[c][j]
            BY <1>7 DEF LogInv
          <5>2. \A i \in 1 .. Len(stream[c]) : stream[c][i] \in Nat
            BY <1>3, SMTT(30)
          <5> QED BY <1>3, <5>1, <5>2, SMTT(30)
        <4>2. \A i \in 1 .. Len(ns) : ns[i] < issued[c] + 1
          <5> TAKE i \in 1 .. Len(ns)
          <5>1. CASE i = Len(stream[c]) + 1
            BY <1>1, <1>3, <5>1
          <5>2. CASE i \in 1 .. Len(stream[c])
            BY <1>1, <4>0, <5>2
          <5> QED BY <1>3, <5>1, <5>2
        <4>3. \A i, j \in 1 .. Len(ns) : i < j => ns[i] < ns[j]
          <5> TAKE i, j \in 1 .. Len(ns)
          <5>1. CASE j = Len(stream[c]) + 1 /\ i < j
            BY <1>1, <1>3, <4>0, <5>1
          <5>2. CASE j \in 1 .. Len(stream[c]) /\ i < j
            BY <4>0, <5>2
          <5> QED BY <1>3, <5>1, <5>2
        <4>4. LogInv(c)'
          BY <1>7, <3>1, <4>1, <4>2, <4>3 DEF LogInv
        <4>5. EventInv(c)'
          <5>1. \A s \in 0 .. Ring - 1 : events[c][s] \in Nat /\ events[c][s] <= Len(stream[c])
            BY DEF EventInv, EventTypeOK
          <5>2. UNCHANGED <<events, ev_issued, ev_done>> /\ spc' = "event" /\ Len(stream'[c]) = Len(stream[c]) + 1
            BY <1>3, <4>1 DEF Replay
          <5> QED BY <1>3, <5>1, <5>2 DEF EventInv
        <4> QED BY <2>1, <4>4, <4>5
      <3> QED BY <1>4, <3>2, <3>3
    <2>2. CASE d # c
      BY <1>4, <1>7, <2>2 DEF LogInv, EventInv, Replay, GpuTypeOK
    <2> QED BY <2>1, <2>2
  <1>10. ASSUME NEW d \in Client PROVE DrainInv(d)'
    <2>1. CASE d = c
      <3>1. rec'[c].state # DONE
        BY <1>2 DEF QUEUED, DONE
      <3> QED BY <1>2, <2>1, <3>1 DEF DrainInv, Replay, Drained, Outstanding
    <2>2. CASE d # c
      BY <1>2, <1>4, <1>7, <2>2 DEF DrainInv, Replay, Drained, Outstanding, GpuTypeOK
    <2> QED BY <2>1, <2>2
  <1>11. (SchedInv /\ MainInv)'
    BY <1>1, <1>4, ClientFacts DEF SchedInv, MainInv, Replay, Drained, Outstanding
  <1> QED
    BY <1>5, <1>6, <1>8, <1>9, <1>10, <1>11

LEMMA RecordEventInductive ==
    ASSUME IInv, NEW c \in Client, RecordEvent(c)
    PROVE  IInv'
  <1> USE DEF IInv, TypeOK
  <1>1. /\ spc = "event" /\ pick = c /\ spc' = "store" /\ stream_op' = FALSE
        /\ UNCHANGED <<clientVars, scan, heads, pick, final_state, schedVars, ev_done,
                       gpuVars, mainVars>>
    BY DEF RecordEvent
  <1>2. /\ EventTypeOK'
        /\ \A d \in Client, s \in 0 .. Ring - 1 : events'[d][s] <= Len(stream[d])
    <2>1. CASE UNCHANGED <<events, ev_issued>>
      BY <1>1, <2>1 DEF EventTypeOK, EventInv
    <2>2. CASE /\ events' = [events EXCEPT ![c][Slot(ev_issued[c])] = Len(stream[c])]
               /\ ev_issued' = [ev_issued EXCEPT ![c] = @ + 1]
      <3>1. Slot(ev_issued[c]) \in 0 .. Ring - 1 /\ Len(stream[c]) \in Nat
        BY SlotInRing DEF EventTypeOK, GpuTypeOK
      <3>2. \A d \in Client, s \in 0 .. Ring - 1 : events'[d][s] \in {events[d][s], Len(stream[d])}
        BY <2>2, <3>1 DEF EventTypeOK
      <3>3. events' \in [Client -> [0 .. Ring - 1 -> Nat]]
        BY <2>2, <3>1 DEF EventTypeOK
      <3>4. \A d \in Client, s \in 0 .. Ring - 1 : events[d][s] <= Len(stream[d]) /\ Len(stream[d]) \in Nat
        BY DEF EventInv, GpuTypeOK
      <3>5. EventTypeOK'
        BY <1>1, <2>2, <3>3 DEF EventTypeOK
      <3> QED BY <3>2, <3>4, <3>5
    <2> QED BY <2>1, <2>2 DEF RecordEvent
  <1>3. TypeOK'
    BY <1>1, <1>2 DEF ClientTypeOK, LoopTypeOK, ReplayTypeOK, GpuTypeOK, MainTypeOK
  <1>4. ASSUME NEW d \in Client
        PROVE  (QueueInv(d) /\ OutsideInv(d) /\ InsideInv(d) /\ HeadInv(d))'
    BY <1>1 DEF QueueInv, OutsideInv, InsideInv, HeadInv, InCall, Made, Pushed, Popped, InService,
       Unserved, Served, Parked, Released
  <1>5. ASSUME NEW d \in Client PROVE (LogInv(d) /\ DrainInv(d) /\ EventInv(d))'
    BY <1>1, <1>2 DEF LogInv, DrainInv, EventInv, Made, InService, Drained, Outstanding
  <1>6. (SchedInv /\ MainInv)'
    BY <1>1 DEF SchedInv, MainInv, Drained, Outstanding
  <1> QED
    BY <1>3, <1>4, <1>5, <1>6

\* The store releases a record that asked for exactly this state, or leaves
\* it parked.
LEMMA StoreStateInductive ==
    ASSUME IInv, NEW c \in Client, StoreState(c)
    PROVE  IInv'
  <1> USE DEF IInv, TypeOK
  <1>1. /\ spc = "store" /\ pick = c /\ spc' = "account" /\ final_state' = Null
        /\ UNCHANGED <<cpc, q, submitted, scan, heads, pick, stream_op, schedVars, evVars,
                       gpuVars, mainVars>>
    BY DEF StoreState
  <1>2. heads[c] # Null /\ cpc[c] = "spinning" /\ InService(c)
    BY <1>1, ClientFacts DEF SchedInv, HeadInv, InService
  <1>3. Served(c)
    BY <1>1, <1>2 DEF HeadInv
  <1>4. /\ rec' \in [Client -> Frames]
        /\ rec'[c].op_id = rec[c].op_id /\ rec'[c].kind = rec[c].kind /\ rec'[c].ret = rec[c].ret
        /\ rec'[c].state = IF final_state = Null THEN QUEUED ELSE final_state
        /\ \A d \in Client : d # c => rec'[d] = rec[d]
    <2>1. CASE final_state = Null
      BY <1>3, <2>1 DEF StoreState, ClientTypeOK, Served
    <2>2. CASE final_state # Null
      BY <2>2, StateUpdate DEF StoreState, ClientTypeOK, LoopTypeOK
    <2> QED BY <2>1, <2>2
  <1>5. TypeOK'
    BY <1>1, <1>4 DEF ClientTypeOK, LoopTypeOK, ReplayTypeOK, EventTypeOK, GpuTypeOK, MainTypeOK
  <1>6. ASSUME NEW d \in Client PROVE QueueInv(d)'
    BY <1>1 DEF QueueInv, Pushed, Popped
  <1>7. /\ Made(c)' = Made(c) /\ ~InService(c)'
        /\ \A d \in Client : d # c => Made(d)' = Made(d) /\ InService(d)' = InService(d)
    BY <1>1 DEF Made, InService
  <1>8. ASSUME NEW d \in Client PROVE (OutsideInv(d) /\ InsideInv(d) /\ HeadInv(d))'
    <2>1. CASE d = c
      <3>1. Parked(c)' \/ Released(c)'
        BY <1>1, <1>3, <1>4, <1>7 DEF Served, Parked, Released, ReplayTypeOK
      <3> QED
        BY <1>1, <1>2, <1>4, <1>7, <2>1, <3>1 DEF OutsideInv, InsideInv, HeadInv, InCall
    <2>2. CASE d # c
      BY <1>1, <1>4, <1>7, <2>2 DEF OutsideInv, InsideInv, HeadInv, InCall,
         InService, Unserved, Served, Parked, Released
    <2> QED BY <2>1, <2>2
  <1>9. ASSUME NEW d \in Client PROVE (LogInv(d) /\ EventInv(d))'
    BY <1>1, <1>7 DEF LogInv, EventInv
  <1>10. ASSUME NEW d \in Client PROVE DrainInv(d)'
    <2>1. CASE d = c
      <3>1. rec[c].state = QUEUED /\ QUEUED # DONE
        BY <1>3 DEF Served, QUEUED, DONE
      <3>2. rec'[c].state = DONE =>
              /\ pending_sync[c] = Null /\ final_state # Null /\ final_state = WaitState(rec[c].kind)
        BY <1>3, <1>4, <3>1 DEF Served
      <3>3. rec'[c].state = DONE /\ rec[c].kind \in DrainingKinds /\ rec[c].ret = "success" => Drained(c)
        BY <1>2, <3>2 DEF DrainInv
      <3> QED BY <1>1, <1>4, <1>7, <2>1, <3>3 DEF DrainInv, Drained, Outstanding
    <2>2. CASE d # c
      BY <1>1, <1>4, <1>7, <2>2 DEF DrainInv, Drained, Outstanding
    <2> QED BY <2>1, <2>2
  <1>11. (SchedInv /\ MainInv)'
    BY <1>1 DEF SchedInv, MainInv, Drained, Outstanding
  <1> QED
    BY <1>5, <1>6, <1>8, <1>9, <1>10, <1>11

LEMMA AccountInductive ==
    ASSUME IInv, NEW c \in Client, Account(c)
    PROVE  IInv'
  <1> USE DEF IInv, TypeOK
  <1>1. /\ spc = "account" /\ pick = c /\ spc' = "pop"
        /\ issued' = [issued EXCEPT ![c] = @ + 1]
        /\ UNCHANGED <<clientVars, scan, heads, pick, execVars, pending_sync, evVars,
                       gpuVars, mainVars>>
    BY DEF Account
  <1>2. heads[c] = issued[c] /\ issued[c] \in Nat /\ log[c] \in Seq(Nat)
    BY <1>1, ClientFacts DEF SchedInv, HeadInv, ReplayTypeOK
  <1> DEFINE nl == Append(log[c], heads[c])
  <1>3. /\ nl \in Seq(Nat) /\ Len(nl) = Len(log[c]) + 1
        /\ \A i \in 1 .. Len(log[c]) : nl[i] = log[c][i]
        /\ nl[Len(log[c]) + 1] = heads[c]
    BY <1>2, AppendFacts
  <1>4. log' = [log EXCEPT ![c] = nl]
    BY DEF Account
  <1> HIDE DEF nl
  <1>5. TypeOK'
    <2>1. ReplayTypeOK'
      BY <1>1, <1>2, <1>3, <1>4 DEF ReplayTypeOK
    <2> QED
      BY <1>1, <2>1 DEF ClientTypeOK, LoopTypeOK, EventTypeOK, GpuTypeOK, MainTypeOK
  <1>6. /\ issued'[c] = issued[c] + 1
        /\ \A d \in Client : d # c => issued'[d] = issued[d]
    BY <1>1 DEF ReplayTypeOK
  <1>7. ASSUME NEW d \in Client
        PROVE  Made(d)' = Made(d) /\ Popped(d)' = Popped(d) /\ InService(d)' = InService(d)
    BY <1>1, <1>2, <1>6, SMTT(30) DEF Made, Popped, InService
  <1>8. ASSUME NEW d \in Client PROVE QueueInv(d)'
    BY <1>1, <1>7 DEF QueueInv, Pushed
  <1>9. ASSUME NEW d \in Client PROVE (OutsideInv(d) /\ InsideInv(d) /\ HeadInv(d))'
    BY <1>1, <1>7 DEF OutsideInv, InsideInv, HeadInv, InCall, InService,
       Unserved, Served, Parked, Released
  <1>10. ASSUME NEW d \in Client PROVE (LogInv(d) /\ DrainInv(d) /\ EventInv(d))'
    <2>1. CASE d = c
      <3>1. \A i \in 1 .. Len(nl) : nl[i] = i - 1
        <4> TAKE i \in 1 .. Len(nl)
        <4>1. CASE i = Len(log[c]) + 1
          BY <1>2, <1>3, <4>1 DEF LogInv
        <4>2. CASE i \in 1 .. Len(log[c])
          BY <1>3, <4>2 DEF LogInv
        <4> QED BY <1>2, <1>3, <4>1, <4>2
      <3>2. log'[c] = nl /\ Len(nl) = issued[c] + 1
        BY <1>3, <1>4 DEF LogInv, ReplayTypeOK
      <3> QED
        BY <1>1, <1>6, <1>7, <2>1, <3>1, <3>2 DEF LogInv, DrainInv, EventInv, Drained, Outstanding
    <2>2. CASE d # c
      <3>1. log'[d] = log[d]
        BY <1>4, <2>2 DEF ReplayTypeOK
      <3> QED
        BY <1>1, <1>6, <1>7, <2>2, <3>1, SMTT(30) DEF LogInv, DrainInv, EventInv, Drained, Outstanding
    <2> QED BY <2>1, <2>2
  <1>11. (SchedInv /\ MainInv)'
    BY <1>1, <1>2, <1>6 DEF SchedInv, MainInv, Drained, Outstanding
  <1> QED
    BY <1>5, <1>8, <1>9, <1>10, <1>11

\* The client may have pushed its next record behind the one being popped.
LEMMA PopInductive ==
    ASSUME IInv, NEW c \in Client, Pop(c)
    PROVE  IInv'
  <1> USE DEF IInv, TypeOK
  <1>1. /\ spc = "pop" /\ pick = c /\ spc' = "loop" /\ pick' = Null
        /\ heads' = [d \in Client |-> Null]
        /\ UNCHANGED <<cpc, rec, submitted, scan, execVars, schedVars, evVars,
                       gpuVars, mainVars>>
    BY DEF Pop, ForgetHeads
  <1>2. /\ issued[c] \in Nat /\ issued[c] >= 1 /\ submitted[c] \in Nat
        /\ Popped(c) = issued[c] - 1 /\ Popped(c)' = issued[c]
        /\ \A d \in Client : d # c => Popped(d)' = Popped(d)
        /\ \A d \in Client : Pushed(d)' = Pushed(d) /\ Made(d)' = Made(d) /\ Made(d) = issued[d]
        /\ \A d \in Client : ~InService(d) /\ ~InService(d)'
    BY <1>1, ClientFacts
       DEF SchedInv, Popped, Pushed, Made, InService, ReplayTypeOK, ClientTypeOK
  <1>3. Pushed(c) >= issued[c] /\ Pushed(c) \in Nat
    BY <1>2 DEF Pushed, OutsideInv, InsideInv, Unserved, Served, Parked, Released, ClientTypeOK
  <1>4. /\ q[c] \in Seq(Nat) /\ q[c] # <<>> /\ Len(q[c]) = Pushed(c) - (issued[c] - 1)
        /\ \A i \in 1 .. Len(q[c]) : q[c][i] = (issued[c] - 1) + i - 1
    <2>1. q[c] \in Seq(Nat) /\ Len(q[c]) = Pushed(c) - (issued[c] - 1)
      BY <1>2 DEF QueueInv, ClientTypeOK
    <2>2. \A i \in 1 .. Len(q[c]) : q[c][i] = (issued[c] - 1) + i - 1
      BY <1>2 DEF QueueInv
    <2>3. Len(q[c]) >= 1
      BY <1>2, <1>3, <2>1
    <2> QED BY <2>1, <2>2, <2>3
  <1> DEFINE nq == Tail(q[c])
  <1>5. /\ nq \in Seq(Nat) /\ Len(nq) = Len(q[c]) - 1
        /\ \A i \in 1 .. Len(q[c]) - 1 : nq[i] = q[c][i + 1]
    BY <1>4, TailFacts
  <1>6. q' = [q EXCEPT ![c] = nq]
    BY DEF Pop
  <1> HIDE DEF nq
  <1>7. TypeOK'
    <2>1. ClientTypeOK'
      BY <1>1, <1>5, <1>6 DEF ClientTypeOK
    <2>2. LoopTypeOK'
      BY <1>1 DEF LoopTypeOK
    <2> QED
      BY <1>1, <2>1, <2>2 DEF ReplayTypeOK, EventTypeOK, GpuTypeOK, MainTypeOK
  <1>8. ASSUME NEW d \in Client PROVE QueueInv(d)'
    <2>1. CASE d = c
      <3>1. q'[c] = nq
        BY <1>6 DEF ClientTypeOK
      <3>2. Len(nq) = Pushed(c) - issued[c]
        BY <1>2, <1>3, <1>4, <1>5
      <3>3. \A i \in 1 .. Len(nq) : nq[i] = issued[c] + i - 1
        <4> TAKE i \in 1 .. Len(nq)
        <4>1. i \in Int /\ i + 1 \in 1 .. Len(q[c]) /\ i \in 1 .. Len(q[c]) - 1
          BY <1>4, <1>5
        <4>2. nq[i] = (issued[c] - 1) + (i + 1) - 1
          BY <1>4, <1>5, <4>1
        <4> QED BY <1>2, <4>1, <4>2
      <3> QED BY <1>2, <2>1, <3>1, <3>2, <3>3 DEF QueueInv
    <2>2. CASE d # c
      BY <1>2, <1>6, <2>2 DEF QueueInv, ClientTypeOK
    <2> QED BY <2>1, <2>2
  <1>9. ASSUME NEW d \in Client PROVE (OutsideInv(d) /\ InsideInv(d) /\ HeadInv(d))'
    BY <1>1, <1>2 DEF OutsideInv, InsideInv, HeadInv, InCall, Unserved, Served, Parked, Released
  <1>10. ASSUME NEW d \in Client PROVE (LogInv(d) /\ DrainInv(d) /\ EventInv(d))'
    BY <1>1, <1>2 DEF LogInv, DrainInv, EventInv, Drained, Outstanding
  <1>11. (SchedInv /\ MainInv)'
    BY <1>1 DEF SchedInv, MainInv, Drained, Outstanding
  <1> QED
    BY <1>7, <1>8, <1>9, <1>10, <1>11

\* Every stream is drained by now, so every event is done and no error can
\* hold the cursor back.
LEMMA DrainCursorInductive ==
    ASSUME IInv, NEW c \in Client, DrainCursor(c)
    PROVE  IInv'
  <1> USE DEF IInv, TypeOK
  <1>1. /\ spc = "drain" /\ scan = c /\ AdvanceCursor(c)
        /\ UNCHANGED <<clientVars, heads, pick, execVars, schedVars, events, ev_issued,
                       gpuVars, mainVars>>
    BY DEF DrainCursor
  <1>2. /\ scan' \in Client
        /\ \/ spc' = spc /\ scan' = scan + 1
           \/ spc' = "exited" /\ scan' = 0 /\ \A d \in Client : d <= scan
    BY ScanFacts DEF LoopTypeOK, DrainCursor
  <1>3. /\ EventTypeOK'
        /\ \A d \in Client : d # c => ev_done'[d] = ev_done[d]
        /\ ev_done'[c] \in CursorStops(c)
    BY <1>1, CursorFacts
  <1>4. TypeOK'
    BY <1>1, <1>2, <1>3 DEF ClientTypeOK, LoopTypeOK, ReplayTypeOK, GpuTypeOK, MainTypeOK
  <1>5. ~Failures => ev_done'[c] = ev_issued[c]
    <2>1. Drained(c) /\ Len(stream[c]) = finished[c]
      <3>1. mpc # "joining"
        BY <1>1 DEF MainInv
      <3>2. Drained(c)
        BY <3>1 DEF MainInv
      <3>3. Len(stream[c]) \in Nat /\ finished[c] \in Nat
        BY DEF GpuTypeOK
      <3> QED BY <3>2, <3>3 DEF Drained, Outstanding
    <2>2. \A s \in Nat : EventDone(c, s)
      BY <2>1, SlotInRing DEF EventInv, EventDone
    <2>3. ev_done'[c] \in Nat
      BY <1>3 DEF EventTypeOK
    <2> QED BY <1>3, <2>2, <2>3 DEF CursorStops
  <1>6. ASSUME NEW d \in Client
        PROVE  (QueueInv(d) /\ OutsideInv(d) /\ InsideInv(d) /\ HeadInv(d))'
    BY <1>1, <1>2
       DEF QueueInv, OutsideInv, InsideInv, HeadInv, InCall, Made, Pushed, Popped, InService,
       Unserved, Served, Parked, Released, SchedInv
  <1>7. ASSUME NEW d \in Client PROVE (LogInv(d) /\ DrainInv(d))'
    BY <1>1, <1>2 DEF LogInv, DrainInv, Made, InService, Drained, Outstanding
  <1>8. ASSUME NEW d \in Client PROVE EventInv(d)'
    <2>1. (\A s \in 0 .. Ring - 1 : events[d][s] <= Len(stream[d]))'
      BY <1>1 DEF EventInv
    <2>2. (spc = "exited" \/ (spc = "drain" /\ d < scan))' => d = c \/ d < scan
      BY <1>1, <1>2, ClientFacts
    <2>3. ~Failures /\ d < scan => ev_done[d] = ev_issued[d]
      BY <1>1 DEF EventInv
    <2> QED BY <1>1, <1>3, <1>5, <2>1, <2>2, <2>3, ClientFacts DEF EventInv
  <1>9. (SchedInv /\ MainInv)'
    BY <1>1, <1>2 DEF SchedInv, MainInv, Drained, Outstanding
  <1> QED
    BY <1>4, <1>6, <1>7, <1>8, <1>9

(***************************************************************************)
(* Frontend thread                                                         *)
(***************************************************************************)
LEMMA StopSchedulerInductive ==
    ASSUME IInv, StopScheduler
    PROVE  IInv'
  <1> USE DEF IInv, TypeOK, StopScheduler
  <1>1. TypeOK'
    BY DEF ClientTypeOK, LoopTypeOK, ReplayTypeOK, EventTypeOK, GpuTypeOK, MainTypeOK
  <1>2. ASSUME NEW d \in Client
        PROVE  (QueueInv(d) /\ OutsideInv(d) /\ InsideInv(d) /\ HeadInv(d))'
    BY DEF QueueInv, OutsideInv, InsideInv, HeadInv, InCall, Made, Pushed, Popped, InService,
       Unserved, Served, Parked, Released
  <1>3. ASSUME NEW d \in Client PROVE (LogInv(d) /\ DrainInv(d) /\ EventInv(d))'
    BY DEF LogInv, DrainInv, EventInv, Made, InService, Drained, Outstanding
  <1>4. (SchedInv /\ MainInv)'
    BY DEF SchedInv, MainInv, Drained, Outstanding
  <1> QED
    BY <1>1, <1>2, <1>3, <1>4

\* By the time the scheduler thread is joined, everything submitted has been
\* issued: its clients were outside their calls when it was told to stop.
LEMMA JoinSchedulerInductive ==
    ASSUME IInv, JoinScheduler
    PROVE  IInv'
  <1> USE DEF IInv, TypeOK, JoinScheduler
  <1>1. TypeOK'
    BY DEF ClientTypeOK, LoopTypeOK, ReplayTypeOK, EventTypeOK, GpuTypeOK, MainTypeOK
  <1>2. ASSUME NEW d \in Client
        PROVE  (QueueInv(d) /\ OutsideInv(d) /\ InsideInv(d) /\ HeadInv(d))'
    BY DEF QueueInv, OutsideInv, InsideInv, HeadInv, InCall, Made, Pushed, Popped, InService,
       Unserved, Served, Parked, Released
  <1>3. ASSUME NEW d \in Client PROVE (LogInv(d) /\ DrainInv(d) /\ EventInv(d))'
    BY DEF LogInv, DrainInv, EventInv, Made, InService, Drained, Outstanding
  <1>4. \A c \in Client : submitted[c] = issued[c]
    BY DEF MainInv, OutsideInv, Made
  <1>5. (SchedInv /\ MainInv)'
    BY <1>4 DEF SchedInv, MainInv, Drained, Outstanding
  <1> QED
    BY <1>1, <1>2, <1>3, <1>5

(***************************************************************************)
(* The theorems                                                            *)
(***************************************************************************)
LEMMA StutterInductive ==
    ASSUME IInv, UNCHANGED vars
    PROVE  IInv'
  <1> USE DEF IInv, TypeOK, vars
  <1>1. TypeOK'
    BY ZenonT(40) DEF ClientTypeOK, LoopTypeOK, ReplayTypeOK, EventTypeOK, GpuTypeOK, MainTypeOK
  <1>2. ASSUME NEW d \in Client
        PROVE  (QueueInv(d) /\ OutsideInv(d) /\ InsideInv(d) /\ HeadInv(d))'
    BY DEF QueueInv, OutsideInv, InsideInv, HeadInv, InCall, Made, Pushed, Popped, InService,
       Unserved, Served, Parked, Released
  <1>3. ASSUME NEW d \in Client PROVE (LogInv(d) /\ DrainInv(d) /\ EventInv(d))'
    BY DEF LogInv, DrainInv, EventInv, Made, InService, Drained, Outstanding
  <1>4. (SchedInv /\ MainInv)'
    BY DEF SchedInv, MainInv, Drained, Outstanding
  <1> QED
    BY <1>1, <1>2, <1>3, <1>4

LEMMA NextInductive ==
    ASSUME IInv, [Next]_vars
    PROVE  IInv'
  <1>1. ASSUME NEW c \in Client, ClientNext(c) PROVE IInv'
    BY <1>1, CallInductive, PushInductive, ReturnInductive, ExitInductive DEF ClientNext
  <1>2. ASSUME NEW c \in Client, Finish(c) PROVE IInv'
    BY <1>2, FinishInductive
  <1>3. ASSUME NEW c \in Client, Execute(c) PROVE IInv'
    <2>1. ASSUME NEW r, Replay(c, r) PROVE IInv'
      BY <2>1, ReplayInductive
    <2>2. CASE ExecuteAsync(c)
      BY <2>1, <2>2, ExecuteAsyncReplays
    <2>3. CASE ExecuteSyncCopy(c)
      BY <2>1, <2>3, ExecuteSyncCopyReplays
    <2>4. CASE ExecuteMalloc(c)
      BY <2>1, <2>4, ExecuteMallocReplays
    <2>5. CASE ExecuteFree(c)
      BY <2>1, <2>5, ExecuteFreeReplays
    <2>6. CASE ExecuteStreamSync(c)
      BY <2>1, <2>6, ExecuteStreamSyncReplays
    <2>7. CASE ExecuteEventRecord(c)
      BY <2>1, <2>7, ExecuteEventRecordReplays
    <2> QED
      BY <1>3, <2>2, <2>3, <2>4, <2>5, <2>6, <2>7, RecordEventInductive,
         StoreStateInductive, AccountInductive DEF Execute
  <1>4. CASE SchedulerNext
    BY <1>3, <1>4, CheckStopInductive, SkipAdvanceInductive, IdleInductive,
       PollNothingInductive, PollParkedInductive, AdvanceInductive, PeekInductive,
       PickNextInductive, PopInductive, DrainCursorInductive DEF SchedulerNext
  <1> QED
    BY <1>1, <1>2, <1>4, StopSchedulerInductive, JoinSchedulerInductive, StutterInductive
       DEF Next, Finished

\* IInv is inductive, so it holds of every reachable state.
THEOREM Inductive == Spec => []IInv
  BY InitInductive, NextInductive, PTL DEF Spec

\* Every variable keeps its type, and no cursor passes what it counts.
THEOREM TypeCorrect == Spec => []TypeOK
  <1>1. IInv => TypeOK
    BY DEF IInv
  <1> QED
    BY <1>1, Inductive, PTL

\* The lifetime contract of records.h: the scheduler never dereferences a
\* record whose interposer has returned, nor one it has already served.
THEOREM NoDanglingHead == Spec => []HeadsAlive
  <1>1. ASSUME IInv PROVE HeadsAlive
    <2> SUFFICES ASSUME NEW c \in Client, heads[c] # Null
                 PROVE  /\ spc \in {"pick", "call"} => Alive(c, heads[c]) /\ pending_sync[c] = Null
                        /\ spc \in {"event", "store"} /\ pick = c => Alive(c, heads[c])
      BY DEF HeadsAlive
    <2> USE <1>1 DEF IInv, TypeOK
    <2>1. CASE spc \in {"pick", "call"}
      <3>1. pick # c \/ spc \notin {"event", "store", "account"}
        BY <2>1
      <3>2. heads[c] = issued[c] /\ cpc[c] = "spinning" /\ Unserved(c)
        BY <2>1 DEF HeadInv
      <3> QED
        BY <2>1, <3>2 DEF Alive, Unserved, Made, InsideInv, InCall, ReplayTypeOK, ClientTypeOK
    <2>2. CASE spc \in {"event", "store"} /\ pick = c
      <3>1. heads[c] = issued[c] /\ cpc[c] = "spinning" /\ Served(c)
        BY <2>2 DEF HeadInv
      <3> QED
        BY <2>2, <3>1 DEF Alive, Served, Made, InsideInv, InCall, ReplayTypeOK, ClientTypeOK
    <2> QED BY <2>1, <2>2
  <1> QED
    BY <1>1, Inductive, PTL

\* poll_pending_syncs stores only into the frame of the client that is blocked
\* on the parked record, and a client never has two.
THEOREM ParkedIsAwaited == Spec => []ParkedAlive
  <1>1. ASSUME IInv PROVE ParkedAlive
    <2> SUFFICES ASSUME NEW c \in Client, pending_sync[c] # Null
                 PROVE  /\ Alive(c, pending_sync[c])
                        /\ rec[c].kind \in {"Memcpy", "Memset", "StreamSync"}
      BY DEF ParkedAlive
    <2> USE <1>1 DEF IInv, TypeOK
    <2>1. cpc[c] = "spinning" /\ (Served(c) \/ Parked(c))
      BY DEF OutsideInv, InsideInv, Unserved, Released, ClientTypeOK
    <2> QED
      BY <2>1 DEF Alive, Served, Parked, InsideInv
  <1> QED
    BY <1>1, Inductive, PTL

\* Program order: each client's calls are replayed once each, in the order it
\* made them, and land on its stream in that order.
THEOREM ProgramOrder == Spec => []ReplayedInOrder
  <1>1. ASSUME IInv PROVE ReplayedInOrder
    <2> SUFFICES ASSUME NEW c \in Client
                 PROVE  /\ Len(log[c]) = issued[c]
                        /\ \A i \in DOMAIN log[c] : log[c][i] = i - 1
                        /\ \A i, j \in DOMAIN stream[c] : i < j => stream[c][i] < stream[c][j]
      BY DEF ReplayedInOrder
    <2>1. DOMAIN log[c] = 1 .. Len(log[c]) /\ DOMAIN stream[c] = 1 .. Len(stream[c])
      BY <1>1 DEF IInv, TypeOK, ReplayTypeOK, GpuTypeOK
    <2>2. LogInv(c)
      BY <1>1 DEF IInv
    <2> QED BY <2>1, <2>2 DEF LogInv
  <1> QED
    BY <1>1, Inductive, PTL

\* A synchronising call that succeeds returns only when the client's stream
\* has nothing left to do.
THEOREM SyncDrains == Spec => []SyncMeansDrained
  <1>1. IInv => SyncMeansDrained
    BY DEF IInv, DrainInv, SyncMeansDrained
  <1> QED
    BY <1>1, Inductive, PTL

\* At most one stale record sits in front of the one a client waits for.
THEOREM QueuesStayShort == Spec => []QueueDepthAtMostTwo
  <1>1. ASSUME IInv PROVE QueueDepthAtMostTwo
    <2> SUFFICES ASSUME NEW c \in Client PROVE Len(q[c]) <= 2
      BY DEF QueueDepthAtMostTwo
    <2> USE <1>1 DEF IInv, TypeOK
    <2>1. /\ Len(q[c]) = Pushed(c) - Popped(c)
          /\ submitted[c] \in Nat /\ issued[c] \in Nat
      BY DEF QueueInv, ClientTypeOK, ReplayTypeOK
    <2>2. Pushed(c) <= Made(c) + 1
      BY <2>1
         DEF Pushed, Made, OutsideInv, InsideInv, Unserved, Served, Parked, Released,
             ClientTypeOK
    <2>3. Made(c) <= Popped(c) + 1
      BY <2>1 DEF Made, Popped
    <2> QED
      BY <2>1, <2>2, <2>3 DEF Pushed, Made, Popped
  <1> QED
    BY <1>1, Inductive, PTL

\* launch never raises its accounting error, and returns with every queue
\* empty, every call logged and every completion event seen.
THEOREM CleanEnd == Spec => []NothingLeftBehind
  <1>1. ASSUME IInv PROVE NothingLeftBehind
    <2> USE <1>1 DEF IInv, TypeOK
    <2>1. mpc # "raised"
      BY DEF MainInv
    <2>2. ASSUME mpc = "returned", NEW c \in Client
          PROVE  /\ q[c] = <<>> /\ pending_sync[c] = Null
                 /\ Len(log[c]) = submitted[c]
                 /\ ~Failures => InFlight(c) = 0
      <3>1. spc = "exited" /\ cpc[c] = "exited"
        BY <2>2 DEF MainInv
      <3>2. pending_sync[c] = Null /\ submitted[c] = issued[c] /\ issued[c] \in Nat
        BY <3>1 DEF OutsideInv, Made, ReplayTypeOK
      <3>3. Len(q[c]) = 0 /\ q[c] \in Seq(Nat)
        <4>1. Pushed(c) = issued[c] /\ Popped(c) = issued[c]
          BY <3>1, <3>2 DEF Pushed, Popped
        <4> QED BY <3>2, <4>1 DEF QueueInv, ClientTypeOK
      <3>4. Len(log[c]) = submitted[c]
        BY <3>2 DEF LogInv
      <3>5. ~Failures => InFlight(c) = 0
        BY <3>1 DEF EventInv, InFlight, EventTypeOK
      <3> QED BY <3>2, <3>3, <3>4, <3>5
    <2> QED BY <2>1, <2>2 DEF NothingLeftBehind
  <1> QED
    BY <1>1, Inductive, PTL

\* "The state store is the LAST touch of rec": a record whose client may
\* return is changed by that client alone.
THEOREM ReleasedIsUntouched == Spec => UntouchedOnceReleased
  <1> DEFINE Untouched(c) ==
        cpc[c] = "spinning" /\ rec[c].state >= WaitState(rec[c].kind)
          => rec'[c] \in {rec[c], NoCall}
  <1>1. ASSUME IInv, [Next]_vars, NEW c \in Client
        PROVE  Untouched(c)
    <2> SUFFICES ASSUME cpc[c] = "spinning", rec[c].state >= WaitState(rec[c].kind),
                        rec'[c] # rec[c]
                 PROVE  rec'[c] = NoCall
      OBVIOUS
    <2> USE <1>1 DEF IInv, TypeOK
    <2>1. Released(c)
      BY DEF InsideInv, Unserved, Served, Parked, WaitState, QUEUED, ISSUED, DONE
    <2>2. ~Unserved(c) /\ ~Served(c)
      BY <2>1 DEF Unserved, Served, Released, ClientTypeOK
    <2>3. ASSUME NEW d \in Client, ClientNext(d)
          PROVE  rec'[c] = NoCall
      BY <2>3 DEF ClientNext, Call, Push, Return, Exit, ClientTypeOK
    <2>4. ASSUME NEW d \in Client, PollParked(d)
          PROVE  FALSE
      BY <2>1, <2>4 DEF PollParked, Released, ClientTypeOK
    <2>5. ASSUME NEW d \in Client, StoreState(d)
          PROVE  FALSE
      <3>1. d # c
        BY <2>2, <2>5, ClientFacts DEF StoreState, SchedInv, HeadInv
      <3> QED BY <2>5, <3>1 DEF StoreState, ClientTypeOK
    <2>6. ASSUME NEW d \in Client, NEW r, Replay(d, r)
          PROVE  FALSE
      <3>1. d # c
        BY <2>2, <2>6, ServingFacts DEF Replay
      <3> QED BY <2>6, <3>1 DEF Replay, ClientTypeOK
    <2>7. ASSUME NEW d \in Client, Execute(d) PROVE FALSE
      BY <2>5, <2>6, <2>7, ExecuteAsyncReplays, ExecuteSyncCopyReplays, ExecuteMallocReplays,
         ExecuteFreeReplays, ExecuteStreamSyncReplays, ExecuteEventRecordReplays
         DEF Execute, RecordEvent, Account
    <2>8. CASE SchedulerNext
      BY <2>4, <2>7, <2>8 DEF SchedulerNext, CheckStop, SkipAdvance, Idle, PollNothing, Advance,
         Peek, PickNext, Pop, DrainCursor
    <2>9. CASE StopScheduler \/ JoinScheduler \/ UNCHANGED vars \/ \E d \in Client : Finish(d)
      BY <2>9 DEF StopScheduler, JoinScheduler, Finish, vars
    <2> QED
      BY <2>3, <2>8, <2>9 DEF Next, Finished
  <1>2. ASSUME IInv, [Next]_vars PROVE [\A c \in Client : Untouched(c)]_vars
    BY <1>1, <1>2
  <1> QED
    BY <1>2, Inductive, PTL DEF Spec, UntouchedOnceReleased

(***************************************************************************)
(* SoloStream: what the clients see                                        *)
(***************************************************************************)
\* c's latest call is the last operation on its stream.
OnStream(c) == stream[c] # <<>> /\ stream[c][Len(stream[c])] = submitted[c] - 1

\* Between the real call and the answer, the record says whether it is.
EffectInv(c) ==
    PhaseOf(c) = "effected" /\ AddsStreamWork(rec[c].kind)
      => (rec[c].ret = "success" <=> OnStream(c))

EffectsInv == \A c \in Client : EffectInv(c)

\* What SoloStream shows of c.
Kept(c) ==
    /\ PhaseOf(c)' = PhaseOf(c)
    /\ rec'[c].kind = rec[c].kind /\ rec'[c].ret = rec[c].ret
    /\ submitted'[c] = submitted[c]
    /\ stream'[c] = stream[c] /\ finished'[c] = finished[c]

(***************************************************************************)
(* Phases                                                                  *)
(***************************************************************************)
LEMMA Types ==
    ASSUME IInv
    PROVE  /\ rec \in [Client -> Frames] /\ submitted \in [Client -> Nat]
           /\ stream \in [Client -> Seq(Nat)] /\ finished \in [Client -> Nat]
           /\ pending_sync \in [Client -> Nat \cup {Null}]
           /\ cpc \in [Client -> {"running", "pushing", "spinning", "exited"}]
           /\ issued \in [Client -> Nat]
  BY DEF IInv, TypeOK, ClientTypeOK, GpuTypeOK, ReplayTypeOK

\* A call is called, effected or answered as the scheduler has not served it,
\* is serving or parking it, or has released it.
LEMMA PhaseFacts ==
    ASSUME IInv, NEW c \in Client
    PROVE  /\ PhaseOf(c) = "idle" <=> ~InCall(c)
           /\ PhaseOf(c) = "called" <=> InCall(c) /\ Unserved(c)
           /\ PhaseOf(c) = "effected" <=> cpc[c] = "spinning" /\ (Served(c) \/ Parked(c))
           /\ PhaseOf(c) = "answered" <=> cpc[c] = "spinning" /\ Released(c)
  <1>1. WaitState(rec[c].kind) # QUEUED /\ QUEUED # Null
    BY DEF WaitState, QUEUED, ISSUED, DONE, Null
  <1>2. InsideInv(c) /\ OutsideInv(c)
    BY DEF IInv
  <1>3. ASSUME Unserved(c), InCall(c) PROVE ~InService(c)
    BY <1>3, Types DEF Unserved, InService, Made, OutsideInv, HeadInv, IInv, SchedInv, Served, Null
  <1>4. CASE ~InCall(c)
    BY <1>4 DEF PhaseOf, InCall
  <1>5. CASE InCall(c) /\ Unserved(c)
    BY <1>1, <1>3, <1>5, Types DEF PhaseOf, Effected, Unserved, Served, Parked, Released, InService
  <1>6. CASE cpc[c] = "spinning" /\ (Served(c) \/ Parked(c))
    BY <1>1, <1>6, Types, <1>2
       DEF PhaseOf, Effected, Unserved, Served, Parked, Released, InService, InCall, InsideInv, Null
  <1>7. CASE cpc[c] = "spinning" /\ Released(c)
    BY <1>1, <1>7, Types
       DEF PhaseOf, Effected, Unserved, Served, Parked, Released, InService, InCall, Null
  <1> QED
    BY <1>2, <1>4, <1>5, <1>6, <1>7 DEF InsideInv, InCall

LEMMA PhaseKept ==
    ASSUME NEW c \in Client, InCall(c)' = InCall(c), rec'[c].state = rec[c].state,
           pending_sync'[c] = pending_sync[c],
           InService(c)' = InService(c) \/ pending_sync[c] # Null
    PROVE  PhaseOf(c)' = PhaseOf(c)
  BY DEF PhaseOf, Effected, InService

LEMMA EffectKept ==
    ASSUME NEW c \in Client, Kept(c), EffectInv(c)
    PROVE  EffectInv(c)'
  BY DEF EffectInv, Kept, OnStream

\* A step no client sees.
LEMMA Silent ==
    ASSUME EffectsInv, UNCHANGED <<submitted, gpuVars>>, \A c \in Client : Kept(c)
    PROVE  UNCHANGED Solo!vars /\ EffectsInv'
  <1>1. EffectsInv'
    BY EffectKept DEF EffectsInv
  <1>2. UNCHANGED Solo!vars
    BY DEF Solo!vars, Kept
  <1> QED BY <1>1, <1>2

(***************************************************************************)
(* Client threads and the GPU                                              *)
(***************************************************************************)
LEMMA CallMaps ==
    ASSUME IInv, IInv', EffectsInv, NEW d \in Client, NEW k \in Kinds, Call(d, k)
    PROVE  Solo!Call(d) /\ EffectsInv'
  <1> USE Types
  <1>1. PICK t : rec' = [rec EXCEPT ![d] = FuncRecord(submitted[d], k, t)]
    BY DEF Call
  <1>2. ASSUME NEW c \in Client, c # d PROVE Kept(c)
    <2>1. PhaseOf(c)' = PhaseOf(c)
      BY <1>1, <1>2, PhaseKept DEF Call, InCall, InService
    <2> QED BY <1>1, <1>2, <2>1 DEF Kept, Call
  <1>3. rec'[d].kind = k
    BY <1>1 DEF FuncRecord
  <1>4. PhaseOf(d) = "idle"
    BY DEF PhaseOf, InCall, Call
  <1>5. PhaseOf(d)' = "called"
    <2>1. InCall(d)' /\ rec'[d].state = QUEUED
      BY <1>1 DEF InCall, Call, FuncRecord
    <2>2. ~Effected(d)'
      BY <2>1 DEF Effected, Call, OutsideInv, IInv, InService
    <2> QED BY <2>1, <2>2 DEF PhaseOf
  <1>6. rec[d].kind = "none" /\ PhaseOf(d)' # "answered"
    BY <1>5 DEF Call, OutsideInv, IInv, NoCall
  <1>7. Solo!Call(d)
    <2>1. [c \in Client |-> PhaseOf(c)'] = [[c \in Client |-> PhaseOf(c)] EXCEPT ![d] = "called"]
      BY <1>2, <1>5 DEF Kept
    <2>2. [c \in Client |-> rec'[c].kind] = [[c \in Client |-> rec[c].kind] EXCEPT ![d] = k]
      BY <1>2, <1>3 DEF Kept
    <2>3. [c \in Client |-> IF PhaseOf(c)' = "answered" THEN rec'[c].ret ELSE "none"]
            = [c \in Client |-> IF PhaseOf(c) = "answered" THEN rec[c].ret ELSE "none"]
      BY <1>2, <1>4, <1>5 DEF Kept
    <2> QED BY <1>4, <2>1, <2>2, <2>3 DEF Solo!Call, Call
  <1>8. EffectsInv'
    BY <1>2, <1>5, EffectKept DEF EffectsInv, EffectInv
  <1> QED BY <1>7, <1>8

LEMMA PushMaps ==
    ASSUME IInv, EffectsInv, NEW d \in Client, Push(d)
    PROVE  UNCHANGED Solo!vars /\ EffectsInv'
  <1>1. ASSUME NEW c \in Client PROVE Kept(c)
    <2>1. InCall(c)' = InCall(c) /\ InService(c)' = InService(c)
      BY Types DEF Push, InCall, InService
    <2>2. PhaseOf(c)' = PhaseOf(c)
      BY <2>1, PhaseKept DEF Push
    <2> QED BY <2>2 DEF Kept, Push
  <1> QED BY <1>1, Silent DEF Push

LEMMA ReturnMaps ==
    ASSUME IInv, EffectsInv, NEW d \in Client, Return(d)
    PROVE  Solo!Return(d) /\ EffectsInv'
  <1> USE Types
  <1>1. ASSUME NEW c \in Client, c # d PROVE Kept(c)
    <2>1. PhaseOf(c)' = PhaseOf(c)
      BY <1>1, PhaseKept DEF Return, InCall, InService
    <2> QED BY <1>1, <2>1 DEF Kept, Return
  <1>2. PhaseOf(d) = "answered"
    BY DEF Return, PhaseOf, InCall, WaitState, QUEUED, ISSUED, DONE
  <1>3. PhaseOf(d)' = "idle" /\ rec'[d].kind = "none"
    BY DEF Return, PhaseOf, InCall, NoCall
  <1>4. [c \in Client |-> PhaseOf(c)'] = [[c \in Client |-> PhaseOf(c)] EXCEPT ![d] = "idle"]
    BY <1>1, <1>3 DEF Kept
  <1>5. [c \in Client |-> rec'[c].kind] = [[c \in Client |-> rec[c].kind] EXCEPT ![d] = "none"]
    BY <1>1, <1>3 DEF Kept
  <1>6. [c \in Client |-> IF PhaseOf(c)' = "answered" THEN rec'[c].ret ELSE "none"]
          = [[c \in Client |-> IF PhaseOf(c) = "answered" THEN rec[c].ret ELSE "none"]
               EXCEPT ![d] = "none"]
    BY <1>1, <1>3 DEF Kept
  <1>7. Solo!Return(d)
    BY <1>2, <1>4, <1>5, <1>6 DEF Solo!Return, Return
  <1>8. EffectsInv'
    BY <1>1, <1>3, EffectKept DEF EffectsInv, EffectInv
  <1> QED BY <1>7, <1>8

LEMMA ExitMaps ==
    ASSUME IInv, EffectsInv, NEW d \in Client, Exit(d)
    PROVE  UNCHANGED Solo!vars /\ EffectsInv'
  <1>1. ASSUME NEW c \in Client PROVE Kept(c)
    <2>1. InCall(c)' = InCall(c) /\ InService(c)' = InService(c)
      BY Types DEF Exit, InCall, InService
    <2>2. PhaseOf(c)' = PhaseOf(c)
      BY <2>1, PhaseKept DEF Exit
    <2> QED BY <2>2 DEF Kept, Exit
  <1> QED BY <1>1, Silent DEF Exit

LEMMA FinishMaps ==
    ASSUME IInv, EffectsInv, NEW d \in Client, Finish(d)
    PROVE  Solo!Finish(d) /\ EffectsInv'
  <1>1. ASSUME NEW c \in Client
        PROVE  PhaseOf(c)' = PhaseOf(c) /\ EffectInv(c)'
    <2>1. PhaseOf(c)' = PhaseOf(c)
      BY PhaseKept DEF Finish, InCall, InService
    <2> QED BY <2>1 DEF Finish, EffectsInv, EffectInv, OnStream
  <1>2. Solo!Finish(d)
    <2>1. finished[d] < Len(stream[d])
      BY DEF Finish, Drained, Outstanding, IInv, TypeOK, GpuTypeOK
    <2> QED BY <1>1, <2>1 DEF Solo!Finish, Finish
  <1> QED BY <1>1, <1>2 DEF EffectsInv

(***************************************************************************)
(* Scheduler: execute                                                      *)
(***************************************************************************)
\* What SoloStream needs of the switch, besides Replay: what is enqueued, and
\* for which answer.
Effects(c, r) ==
    /\ Replay(c, r)
    /\ IF AddsStreamWork(rec[c].kind) /\ r = "success"
       THEN stream' = [stream EXCEPT ![c] = Append(@, heads[c])]
       ELSE UNCHANGED stream

LEMMA ExecuteEffects ==
    ASSUME NEW c \in Client,
           \/ ExecuteAsync(c) \/ ExecuteSyncCopy(c) \/ ExecuteMalloc(c) \/ ExecuteFree(c)
           \/ ExecuteStreamSync(c) \/ ExecuteEventRecord(c)
    PROVE  \E r : Effects(c, r)
  <1> USE DEF Executing, CallResults, Effects, Replay, WaitState, AsyncKinds, DrainingKinds,
              AddsStreamWork
  <1>1. CASE ExecuteAsync(c)
    BY <1>1 DEF ExecuteAsync, Enqueue
  <1>2. CASE ExecuteSyncCopy(c)
    BY <1>2 DEF ExecuteSyncCopy, Enqueue
  <1>3. CASE ExecuteMalloc(c)
    BY <1>3 DEF ExecuteMalloc
  <1>4. CASE ExecuteFree(c)
    BY <1>4 DEF ExecuteFree
  <1>5. CASE ExecuteStreamSync(c)
    BY <1>5 DEF ExecuteStreamSync
  <1>6. CASE ExecuteEventRecord(c)
    BY <1>6 DEF ExecuteEventRecord
  <1> QED BY <1>1, <1>2, <1>3, <1>4, <1>5, <1>6

\* Everything on the stream is older than the call being served; the real
\* call adds that one, or nothing.
LEMMA EffectMaps ==
    ASSUME IInv, IInv', EffectsInv, NEW d \in Client, NEW r, Effects(d, r)
    PROVE  Solo!TakeEffect(d) /\ EffectsInv'
  <1> USE Types
  <1>1. /\ heads[d] = submitted[d] - 1 /\ heads[d] \in Nat
        /\ cpc[d] = "spinning" /\ Unserved(d) /\ rec[d].state = QUEUED
    BY ServingFacts DEF Effects, Replay, Unserved
  <1>2. /\ \A c \in Client : rec'[c].kind = rec[c].kind /\ rec'[c].state = rec[c].state
        /\ \A c \in Client \ {d} : rec'[c] = rec[c]
        /\ rec'[d].ret = r
    BY RetUpdate DEF Effects, Replay
  <1>3. ASSUME NEW c \in Client, c # d PROVE Kept(c)
    <2>1. PhaseOf(c)' = PhaseOf(c)
      BY <1>2, <1>3, PhaseKept DEF Effects, Replay, InCall, InService
    <2> QED BY <1>2, <1>3, <2>1 DEF Kept, Effects, Replay
  <1>4. PhaseOf(d) = "called"
    BY <1>1, PhaseFacts DEF InCall
  <1>5. PhaseOf(d)' = "effected"
    BY <1>1, <1>2 DEF PhaseOf, Effected, InCall, Effects, Replay
  <1>6. \A i \in 1 .. Len(stream[d]) : stream[d][i] < submitted[d] - 1
    BY <1>1 DEF IInv, LogInv, Unserved
  <1>7. EffectInv(d)'
    <2> SUFFICES ASSUME AddsStreamWork(rec[d].kind) PROVE r = "success" <=> OnStream(d)'
      BY <1>2 DEF EffectInv
    <2>1. CASE r = "success"
      <3>1. stream'[d] = Append(stream[d], heads[d])
        BY <2>1 DEF Effects
      <3>2. Len(stream'[d]) = Len(stream[d]) + 1 /\ stream'[d][Len(stream[d]) + 1] = heads[d]
        BY <1>1, <3>1, AppendFacts
      <3> QED BY <1>1, <2>1, <3>1, <3>2 DEF OnStream, Effects, Replay
    <2>2. CASE r # "success"
      <3>1. stream'[d] = stream[d] /\ submitted'[d] = submitted[d]
        BY <2>2 DEF Effects, Replay
      <3>2. ASSUME stream[d] # <<>> PROVE stream[d][Len(stream[d])] < submitted[d] - 1
        <4>1. Len(stream[d]) \in 1 .. Len(stream[d])
          BY <3>2
        <4> QED BY <1>6, <4>1
      <3>3. stream[d] # <<>> => stream[d][Len(stream[d])] # submitted[d] - 1
        <4>1. ASSUME stream[d] # <<>> PROVE stream[d][Len(stream[d])] \in Nat
          BY <4>1
        <4> QED BY <3>2, <4>1
      <3> QED BY <2>2, <3>1, <3>3 DEF OnStream
    <2> QED BY <2>1, <2>2
  <1>8. EffectsInv'
    BY <1>3, <1>7, EffectKept DEF EffectsInv
  <1>9. Solo!TakeEffect(d)
    <2>1. [c \in Client |-> PhaseOf(c)'] = [[c \in Client |-> PhaseOf(c)] EXCEPT ![d] = "effected"]
      BY <1>3, <1>5 DEF Kept
    <2>2. [c \in Client |-> rec'[c].kind] = [c \in Client |-> rec[c].kind]
      BY <1>2
    <2>3. [c \in Client |-> IF PhaseOf(c)' = "answered" THEN rec'[c].ret ELSE "none"]
            = [c \in Client |-> IF PhaseOf(c) = "answered" THEN rec[c].ret ELSE "none"]
      BY <1>3, <1>4, <1>5 DEF Kept
    <2>4. \/ UNCHANGED stream
          \/ /\ rec[d].kind \in Solo!Enqueues
             /\ stream' = [stream EXCEPT ![d] = Append(@, submitted[d] - 1)]
      BY <1>1 DEF Effects, AddsStreamWork, Solo!Enqueues
    <2>5. UNCHANGED <<submitted, finished>>
      BY DEF Effects, Replay
    <2> QED BY <1>4, <2>1, <2>2, <2>3, <2>4, <2>5 DEF Solo!TakeEffect
  <1> QED BY <1>8, <1>9

(***************************************************************************)
(* Scheduler: answers                                                      *)
(***************************************************************************)
\* A step that gives c's call, already effected, its answer.
LEMMA AnswerMaps ==
    ASSUME IInv, EffectsInv, NEW d \in Client, NEW r \in {"success", "error"},
           UNCHANGED <<cpc, submitted, gpuVars>>,
           \A c \in Client : rec'[c].kind = rec[c].kind,
           \A c \in Client \ {d} : Kept(c),
           PhaseOf(d) = "effected", PhaseOf(d)' = "answered", rec'[d].ret = r,
           r = "success" /\ AddsStreamWork(rec[d].kind) => OnStream(d),
           r = "success" /\ rec[d].kind \in DrainingKinds => Drained(d),
           r = "error" /\ AddsStreamWork(rec[d].kind) /\ rec[d].kind \notin DrainingKinds
             => ~OnStream(d)
    PROVE  Solo!Answer(d) /\ EffectsInv'
  <1>1. [c \in Client |-> PhaseOf(c)'] = [[c \in Client |-> PhaseOf(c)] EXCEPT ![d] = "answered"]
    BY DEF Kept
  <1>2. [c \in Client |-> rec'[c].kind] = [c \in Client |-> rec[c].kind]
    OBVIOUS
  <1>3. [c \in Client |-> IF PhaseOf(c)' = "answered" THEN rec'[c].ret ELSE "none"]
          = [[c \in Client |-> IF PhaseOf(c) = "answered" THEN rec[c].ret ELSE "none"]
               EXCEPT ![d] = r]
    BY DEF Kept
  <1>4. Drained(d) => finished[d] = Len(stream[d])
    BY DEF Drained, Outstanding, IInv, TypeOK, GpuTypeOK
  <1>5. Solo!Answer(d)
    <2>1. /\ r = "success" /\ rec[d].kind \in Solo!Enqueues => Solo!OnStream(d)
          /\ r = "success" /\ rec[d].kind \in Solo!Drains => finished[d] = Len(stream[d])
          /\ r = "error" /\ rec[d].kind \in Solo!Enqueues \ Solo!Drains => ~Solo!OnStream(d)
      BY <1>4 DEF Solo!Enqueues, Solo!Drains, Solo!OnStream, OnStream, AddsStreamWork, DrainingKinds
    <2> QED BY <1>1, <1>2, <1>3, <2>1 DEF Solo!Answer
  <1>6. EffectsInv'
    BY EffectKept DEF EffectsInv, EffectInv
  <1> QED BY <1>5, <1>6

LEMMA StoreMaps ==
    ASSUME IInv, EffectsInv, NEW d \in Client, StoreState(d)
    PROVE  [Solo!Next]_Solo!vars /\ EffectsInv'
  <1> USE Types
  <1>1. Served(d) /\ cpc[d] = "spinning" /\ InsideInv(d)
    BY ClientFacts DEF StoreState, IInv, SchedInv, HeadInv
  <1>2. PhaseOf(d) = "effected"
    BY <1>1, PhaseFacts
  <1>3. CASE final_state = Null
    <2>1. ASSUME NEW c \in Client PROVE Kept(c)
      <3>1. InService(c)' = InService(c) \/ pending_sync[c] # Null
        BY <1>1, <1>3 DEF InService, StoreState, Served, InsideInv, InCall, Null
      <3>2. PhaseOf(c)' = PhaseOf(c)
        BY <1>3, <3>1, PhaseKept DEF StoreState, InCall
      <3> QED BY <1>3, <3>2 DEF Kept, StoreState
    <2> QED BY <2>1, Silent DEF StoreState
  <1>4. CASE final_state # Null
    <2>1. /\ rec' = [rec EXCEPT ![d].state = final_state]
          /\ final_state = WaitState(rec[d].kind)
      BY <1>1, <1>4 DEF StoreState, Served
    <2>2. final_state \in {QUEUED, ISSUED, DONE} /\ final_state # QUEUED
      BY <2>1 DEF WaitState, QUEUED, ISSUED, DONE
    <2>3. /\ rec'[d].ret = rec[d].ret /\ rec'[d].kind = rec[d].kind /\ rec'[d].state = final_state
          /\ \A c \in Client : c # d => rec'[c] = rec[c]
      BY <2>1, <2>2, StateUpdate
    <2>4. ASSUME NEW c \in Client, c # d PROVE Kept(c)
      <3>1. PhaseOf(c)' = PhaseOf(c)
        BY <2>3, <2>4, PhaseKept DEF StoreState, InCall, InService
      <3> QED BY <2>3, <2>4, <3>1 DEF Kept, StoreState
    <2>5. PhaseOf(d)' = "answered"
      BY <1>1, <2>2, <2>3 DEF PhaseOf, InCall, StoreState
    <2>6. EffectInv(d) /\ DrainInv(d) /\ InService(d)
      BY DEF EffectsInv, IInv, InService, StoreState
    <2>7. rec[d].ret \in {"success", "error"}
      BY FrameFields
    <2>8. Solo!Answer(d) /\ EffectsInv'
      BY <1>2, <1>4, <2>3, <2>4, <2>5, <2>6, <2>7, AnswerMaps DEF EffectInv, DrainInv, StoreState
    <2> QED BY <2>8 DEF Solo!Next
  <1> QED BY <1>3, <1>4

LEMMA PollMaps ==
    ASSUME IInv, EffectsInv, NEW d \in Client, PollParked(d)
    PROVE  [Solo!Next]_Solo!vars /\ EffectsInv'
  <1> USE Types
  <1>1. PICK result \in StreamQuery(d) :
          IF result = "notReady"
          THEN UNCHANGED <<rec, pending_sync>>
          ELSE /\ rec' = [rec EXCEPT ![d].ret = IF @ = "success" THEN result ELSE @,
                                     ![d].state = DONE]
               /\ pending_sync' = [pending_sync EXCEPT ![d] = Null]
    BY DEF PollParked
  <1>2. spc = "poll" /\ spc' \in {"poll", "advance"} /\ UNCHANGED <<cpc, submitted, gpuVars>>
    BY DEF PollParked, ScanThen
  <1>3. ASSUME NEW c \in Client
        PROVE  /\ ~InService(c) /\ InService(c)' = InService(c)
               /\ InCall(c)' = InCall(c)
    BY <1>2 DEF InService, InCall
  <1>4. CASE result = "notReady"
    <2>1. ASSUME NEW c \in Client PROVE Kept(c)
      <3>1. PhaseOf(c)' = PhaseOf(c)
        <4>1. rec' = rec /\ pending_sync' = pending_sync
          BY <1>1, <1>4
        <4> QED BY <1>3, <4>1, PhaseKept
      <3> QED BY <1>1, <1>2, <1>4, <3>1 DEF Kept
    <2> QED BY <1>2, <2>1, Silent
  <1>5. CASE result # "notReady"
    <2> DEFINE r == IF rec[d].ret = "success" THEN result ELSE rec[d].ret
    <2>1. result \in {"success", "error"} /\ (result = "success" => Drained(d))
      BY <1>5 DEF StreamQuery
    <2>2. /\ rec'[d].ret = r /\ rec'[d].kind = rec[d].kind /\ rec'[d].state = DONE
          /\ \A c \in Client : c # d => rec'[c] = rec[c]
      BY <1>1, <1>5, <2>1, PollUpdate
    <2>3. r \in {"success", "error"} /\ (r = "success" => rec[d].ret = "success" /\ Drained(d))
      BY <2>1, FrameFields
    <2> HIDE DEF r
    <2>4. ASSUME NEW c \in Client, c # d PROVE Kept(c)
      <3>1. pending_sync'[c] = pending_sync[c]
        BY <1>1, <1>5, <2>4
      <3>2. PhaseOf(c)' = PhaseOf(c)
        BY <1>3, <2>2, <2>4, <3>1, PhaseKept
      <3> QED BY <1>2, <2>2, <2>4, <3>2 DEF Kept
    <2>5. /\ pending_sync[d] # Null /\ cpc[d] = "spinning" /\ Parked(d)
          /\ rec[d].kind \in {"Memcpy", "Memset", "StreamSync"}
      BY <1>3 DEF PollParked, IInv, OutsideInv, InsideInv, Unserved, Served, Released
    <2>6. PhaseOf(d) = "effected" /\ PhaseOf(d)' = "answered"
      BY <1>2, <2>2, <2>5, PhaseFacts DEF PhaseOf, InCall, QUEUED, DONE
    <2>7. EffectInv(d) /\ rec[d].kind \in DrainingKinds
      BY <2>5 DEF EffectsInv, DrainingKinds
    <2>8. Solo!Answer(d) /\ EffectsInv'
      BY <1>2, <2>2, <2>3, <2>4, <2>6, <2>7, AnswerMaps DEF EffectInv
    <2> QED BY <2>8 DEF Solo!Next
  <1> QED BY <1>4, <1>5

(***************************************************************************)
(* Scheduler and frontend: what no client sees                             *)
(***************************************************************************)
LEMMA Unseen ==
    ASSUME IInv, EffectsInv, UNCHANGED <<cpc, rec, submitted, gpuVars, pending_sync>>,
           \A c \in Client : InService(c)' = InService(c)
    PROVE  UNCHANGED Solo!vars /\ EffectsInv'
  <1>1. ASSUME NEW c \in Client PROVE Kept(c)
    BY PhaseKept DEF Kept, InCall
  <1> QED BY <1>1, Silent

LEMMA LoopMaps ==
    ASSUME IInv, EffectsInv,
           \/ CheckStop \/ SkipAdvance \/ Idle
           \/ \E c \in Client : \/ PollNothing(c) \/ Advance(c) \/ Peek(c) \/ PickNext(c)
                                \/ RecordEvent(c) \/ Account(c) \/ Pop(c) \/ DrainCursor(c)
           \/ StopScheduler \/ JoinScheduler \/ UNCHANGED vars
    PROVE  UNCHANGED Solo!vars /\ EffectsInv'
  <1>1. CASE CheckStop \/ SkipAdvance \/ Idle
    BY <1>1, Unseen DEF CheckStop, SkipAdvance, Idle, InService
  <1>2. ASSUME NEW c \in Client, PollNothing(c) \/ Advance(c) \/ Peek(c) \/ DrainCursor(c)
        PROVE  UNCHANGED Solo!vars /\ EffectsInv'
    BY <1>2, Unseen DEF PollNothing, Advance, Peek, DrainCursor, ScanThen, InService
  <1>3. ASSUME NEW c \in Client, PickNext(c) \/ RecordEvent(c) \/ Account(c) \/ Pop(c)
        PROVE  UNCHANGED Solo!vars /\ EffectsInv'
    BY <1>3, Unseen DEF PickNext, RecordEvent, Account, Pop, InService
  <1>4. CASE StopScheduler \/ JoinScheduler \/ UNCHANGED vars
    BY <1>4, Unseen DEF StopScheduler, JoinScheduler, vars, InService
  <1> QED BY <1>1, <1>2, <1>3, <1>4

(***************************************************************************)
(* Theorem                                                                 *)
(***************************************************************************)
LEMMA InitMaps == Init => Solo!Init /\ EffectsInv
  <1> SUFFICES ASSUME Init PROVE Solo!Init /\ EffectsInv
    OBVIOUS
  <1>1. ASSUME NEW c \in Client PROVE PhaseOf(c) = "idle" /\ rec[c].kind = "none"
    BY DEF Init, PhaseOf, InCall, NoCall
  <1> QED BY <1>1 DEF Init, Solo!Init, EffectsInv, EffectInv

LEMMA NextMaps ==
    IInv /\ IInv' /\ EffectsInv /\ [Next]_vars => [Solo!Next]_Solo!vars /\ EffectsInv'
  <1> SUFFICES ASSUME IInv, IInv', EffectsInv, [Next]_vars
               PROVE  [Solo!Next]_Solo!vars /\ EffectsInv'
    OBVIOUS
  <1>1. ASSUME NEW c \in Client, ClientNext(c) \/ Finish(c)
        PROVE  [Solo!Next]_Solo!vars /\ EffectsInv'
    BY <1>1, CallMaps, PushMaps, ReturnMaps, ExitMaps, FinishMaps DEF ClientNext, Solo!Next
  <1>2. ASSUME NEW c \in Client, Execute(c) \/ PollParked(c)
        PROVE  [Solo!Next]_Solo!vars /\ EffectsInv'
    <2>1. ASSUME NEW r, Effects(c, r) PROVE [Solo!Next]_Solo!vars /\ EffectsInv'
      BY <2>1, EffectMaps DEF Solo!Next
    <2>2. CASE RecordEvent(c) \/ Account(c)
      BY <2>2, LoopMaps
    <2> QED BY <1>2, <2>1, <2>2, ExecuteEffects, StoreMaps, PollMaps DEF Execute
  <1>3. CASE SchedulerNext
    BY <1>2, <1>3, LoopMaps DEF SchedulerNext
  <1> QED BY <1>1, <1>3, LoopMaps DEF Next, Finished

\* Every behaviour of the colocator is, for its clients, one of private
\* in-order streams: queue, scheduler, policy and parking cannot be noticed.
THEOREM Refinement == Spec => ImplementsSolo
  <1>1. Init => Solo!Init /\ EffectsInv
    BY InitMaps
  <1>2. IInv /\ IInv' /\ EffectsInv /\ [Next]_vars => [Solo!Next]_Solo!vars /\ EffectsInv'
    BY NextMaps
  <1> QED
    BY <1>1, <1>2, Inductive, PTL DEF Spec, ImplementsSolo, Solo!Spec

(***************************************************************************)
(* The throttle                                                            *)
(***************************************************************************)
\* c's stream operation is enqueued, and its event is not recorded yet.
Uncounted(c) == IF spc = "event" /\ pick = c /\ stream_op THEN 1 ELSE 0

\* The n-th event recorded captured the n-th operation of the stream.
EventsInv(c) ==
    /\ Len(stream[c]) = ev_issued[c] + Uncounted(c)
    /\ \A s \in ev_done[c] .. ev_issued[c] - 1 : events[c][Slot(s)] = s + 1
    /\ ev_done[c] <= finished[c]

\* What the policy saw still holds when its choice is carried out.
CapInv(c) ==
    /\ InFlight(c) + Uncounted(c) <= Threshold
    /\ spc = "call" /\ pick = c /\ AddsStreamWork(rec[c].kind) => InFlight(c) < Threshold

CountInv == \A c \in Client : EventsInv(c) /\ CapInv(c)

\* The throttle is chosen, and the ring is not smaller than its threshold.
Throttled == PolicyName = "throttle" /\ Threshold <= Ring

(***************************************************************************)
(* The ring                                                                *)
(***************************************************************************)
\* Fewer than Ring sequence numbers in a row have slots of their own.
LEMMA SlotsDiffer ==
    ASSUME NEW s \in Nat, NEW t \in Nat, s < t, t < s + Ring
    PROVE  Slot(s) # Slot(t)
  <1> USE RingAssumption
  <1> DEFINE p == s \div Ring
             r == t \div Ring
  <1>1. p \in Int /\ r \in Int
    OBVIOUS
  <1>2. s = Ring * p + (s % Ring)
    OBVIOUS
  <1>3. t = Ring * r + (t % Ring)
    OBVIOUS
  <1>4. ASSUME s % Ring = t % Ring PROVE FALSE
    <2> HIDE DEF p, r
    <2>1. t - s = Ring * (r - p)
      BY <1>1, <1>2, <1>3, <1>4
    <2>2. r - p <= 0 \/ r - p >= 1
      BY <1>1
    <2>3. ASSUME r - p <= 0 PROVE FALSE
      BY <1>1, <2>1, <2>3
    <2>4. ASSUME r - p >= 1 PROVE FALSE
      BY <1>1, <2>1, <2>4
    <2> QED BY <2>2, <2>3, <2>4
  <1> QED BY <1>4 DEF Slot

(***************************************************************************)
(* Steps                                                                   *)
(***************************************************************************)
\* The counts of c, as numbers.
LEMMA CountTypes ==
    ASSUME IInv, NEW c \in Client
    PROVE  /\ ev_issued[c] \in Nat /\ ev_done[c] \in Nat /\ ev_done[c] <= ev_issued[c]
           /\ stream[c] \in Seq(Nat) /\ Len(stream[c]) \in Nat /\ finished[c] \in Nat
           /\ finished[c] <= Len(stream[c]) /\ Uncounted(c) \in {0, 1}
  BY DEF IInv, TypeOK, EventTypeOK, GpuTypeOK, Uncounted

LEMMA InitCounts == Throttled /\ Init => CountInv
  <1> SUFFICES ASSUME Init, NEW c \in Client PROVE EventsInv(c) /\ CapInv(c)
    BY DEF CountInv
  <1>1. /\ ev_issued[c] = 0 /\ ev_done[c] = 0 /\ finished[c] = 0 /\ Len(stream[c]) = 0
        /\ spc = "loop"
    BY DEF Init
  <1> QED
    BY <1>1, PolicyAssumption DEF EventsInv, CapInv, Uncounted, InFlight

\* Steps that touch neither the streams nor the events, and choose nothing.
LEMMA CountsKept ==
    ASSUME CountInv, UNCHANGED <<gpuVars, evVars>>,
           \A c \in Client : Uncounted(c)' = Uncounted(c),
           \A c \in Client : spc' = "call" /\ pick' = c =>
              spc = "call" /\ pick = c /\ rec'[c].kind = rec[c].kind
    PROVE  CountInv'
  <1> SUFFICES ASSUME NEW c \in Client PROVE (EventsInv(c) /\ CapInv(c))'
    BY DEF CountInv
  <1>1. EventsInv(c) /\ CapInv(c)
    BY DEF CountInv
  <1>2. EventsInv(c)'
    BY <1>1 DEF EventsInv, Slot
  <1>3. InFlight(c)' = InFlight(c)
    BY DEF InFlight
  <1>4. CapInv(c)'
    BY <1>1, <1>3 DEF CapInv
  <1> QED BY <1>2, <1>4

LEMMA ClientCounts ==
    ASSUME IInv, CountInv, NEW d \in Client, ClientNext(d)
    PROVE  CountInv'
  <1>1. UNCHANGED <<gpuVars, evVars, spc, pick, stream_op>>
    BY DEF ClientNext, Call, Push, Return, Exit
  <1>2. ASSUME NEW c \in Client, spc = "call", pick = c PROVE rec'[c] = rec[c]
    <2>1. cpc[c] = "spinning" /\ rec[c].state = QUEUED
      BY <1>2, ServingFacts DEF Unserved
    <2>2. rec \in [Client -> Frames]
      BY DEF IInv, TypeOK, ClientTypeOK
    <2>3. WaitState(rec[c].kind) > QUEUED
      BY DEF WaitState, QUEUED, ISSUED, DONE
    <2>4. ~(rec[c].state >= WaitState(rec[c].kind))
      BY <2>1, <2>3 DEF WaitState, QUEUED, ISSUED, DONE
    <2>5. CASE Push(d) \/ Exit(d)
      BY <2>5 DEF Push, Exit
    <2>6. CASE Return(d)
      BY <2>2, <2>4, <2>6 DEF Return
    <2>7. ASSUME NEW kind \in Kinds, Call(d, kind) PROVE rec'[c] = rec[c]
      BY <2>1, <2>2, <2>7 DEF Call
    <2> QED BY <2>5, <2>6, <2>7 DEF ClientNext
  <1> QED
    BY <1>1, <1>2, CountsKept DEF Uncounted

\* The scheduler's steps outside execute's call and event, and the frontend's.
LEMMA LoopCounts ==
    ASSUME IInv, CountInv, UNCHANGED <<gpuVars, evVars>>,
           \/ spc \notin {"call", "event"} /\ spc' \notin {"call", "event"}
           \/ UNCHANGED <<rec, spc, pick, stream_op>>
    PROVE  CountInv'
  BY CountsKept DEF Uncounted

LEMMA FinishCounts ==
    ASSUME IInv, CountInv, NEW d \in Client, Finish(d)
    PROVE  CountInv'
  <1> SUFFICES ASSUME NEW c \in Client PROVE (EventsInv(c) /\ CapInv(c))'
    BY DEF CountInv
  <1>1. EventsInv(c) /\ CapInv(c)
    BY DEF CountInv
  <1>2. finished'[c] >= finished[c] /\ finished'[c] \in Nat
    BY DEF Finish, IInv, TypeOK, GpuTypeOK
  <1>3. EventsInv(c)'
    BY <1>1, <1>2, CountTypes DEF EventsInv, Finish, Uncounted, Slot
  <1>4. CapInv(c)'
    BY <1>1 DEF CapInv, Finish, Uncounted, InFlight
  <1> QED BY <1>3, <1>4

\* The cursor stops behind events that are done, so behind finished work.
LEMMA CursorCounts ==
    ASSUME IInv, CountInv, NEW d \in Client, AdvanceCursor(d),
           UNCHANGED <<gpuVars, events, ev_issued>>,
           spc \notin {"call", "event"}, spc' \notin {"call", "event"}
    PROVE  CountInv'
  <1>1. PICK s \in ev_done[d] .. ev_issued[d] :
          /\ \A e \in ev_done[d] .. s - 1 : EventDone(d, e)
          /\ ev_done' = [ev_done EXCEPT ![d] = s]
    BY DEF AdvanceCursor, CursorStops
  <1>2. ev_done \in [Client -> Nat]
    BY DEF IInv, TypeOK, EventTypeOK
  <1> SUFFICES ASSUME NEW c \in Client PROVE (EventsInv(c) /\ CapInv(c))'
    BY DEF CountInv
  <1>3. EventsInv(c) /\ CapInv(c)
    BY DEF CountInv
  <1>4. Uncounted(c) = 0 /\ Uncounted(c)' = 0
    BY DEF Uncounted
  <1>5. CASE c # d
    <2>1. ev_done'[c] = ev_done[c]
      BY <1>1, <1>2, <1>5
    <2> QED BY <1>3, <1>4, <2>1 DEF EventsInv, CapInv, InFlight, Slot
  <1>6. CASE c = d
    <2>1. ev_done'[c] = s /\ s \in Nat /\ ev_done[c] <= s /\ s <= ev_issued[c]
      BY <1>1, <1>2, <1>6, CountTypes
    <2>2. s <= finished[c]
      <3>1. CASE s = ev_done[c]
        BY <1>3, <3>1 DEF EventsInv
      <3>2. CASE s > ev_done[c]
        <4>1. s - 1 \in ev_done[c] .. s - 1 /\ s - 1 \in ev_done[c] .. ev_issued[c] - 1
          BY <2>1, <3>2, CountTypes
        <4>2. events[c][Slot(s - 1)] = (s - 1) + 1
          BY <1>3, <4>1 DEF EventsInv
        <4> QED BY <1>1, <1>6, <2>1, <4>1, <4>2, CountTypes DEF EventDone
      <3> QED BY <2>1, <3>1, <3>2, CountTypes
    <2>3. EventsInv(c)'
      <3>1. \A e \in s .. ev_issued[c] - 1 : events[c][Slot(e)] = e + 1
        BY <1>3, <2>1, CountTypes DEF EventsInv
      <3> QED BY <1>3, <1>4, <2>1, <2>2, <3>1 DEF EventsInv, Slot
    <2>4. CapInv(c)'
      BY <1>3, <1>4, <2>1, CountTypes, PolicyAssumption DEF CapInv, InFlight
    <2> QED BY <2>3, <2>4
  <1> QED BY <1>5, <1>6

\* The policy holds what would pass the cap.
LEMMA PickCounts ==
    ASSUME Throttled, IInv, CountInv, NEW d \in Client, PickNext(d)
    PROVE  CountInv'
  <1> SUFFICES ASSUME NEW c \in Client PROVE (EventsInv(c) /\ CapInv(c))'
    BY DEF CountInv
  <1>1. EventsInv(c) /\ CapInv(c)
    BY DEF CountInv
  <1>2. Uncounted(c) = 0 /\ Uncounted(c)' = 0 /\ InFlight(c)' = InFlight(c)
    BY DEF PickNext, Uncounted, InFlight
  <1>3. EventsInv(c)'
    BY <1>1, <1>2 DEF EventsInv, PickNext, Slot
  <1>4. ~Held(rec[d].kind, InFlight(d), Threshold)
    BY DEF PickNext, Chosen, Eligible, Candidates, Throttled
  <1>5. AddsStreamWork(rec[d].kind) => InFlight(d) < Threshold
    BY <1>4, CountTypes, PolicyAssumption DEF Held, InFlight
  <1>6. CapInv(c)'
    BY <1>1, <1>2, <1>5 DEF CapInv, PickNext
  <1> QED BY <1>3, <1>6

\* The switch of execute: one operation more on the stream when stream_op is
\* set, none otherwise, and only for the kinds the policy counts.
Enqueued(c) ==
    /\ spc = "call" /\ pick = c /\ spc' = "event"
    /\ \/ stream_op' = FALSE /\ UNCHANGED stream
       \/ /\ stream_op' = TRUE /\ AddsStreamWork(rec[c].kind)
          /\ stream' = [stream EXCEPT ![c] = Append(@, heads[c])]
    /\ UNCHANGED <<pick, finished, evVars>>

LEMMA ExecuteEnqueues ==
    ASSUME NEW c \in Client,
           \/ ExecuteAsync(c) \/ ExecuteSyncCopy(c) \/ ExecuteMalloc(c) \/ ExecuteFree(c)
           \/ ExecuteStreamSync(c) \/ ExecuteEventRecord(c)
    PROVE  Enqueued(c)
  <1>1. CASE ExecuteAsync(c)
    BY <1>1 DEF ExecuteAsync, Executing, Enqueue, CallResults, Enqueued, AddsStreamWork, AsyncKinds
  <1>2. CASE ExecuteSyncCopy(c)
    BY <1>2 DEF ExecuteSyncCopy, Executing, Enqueue, CallResults, Enqueued, AddsStreamWork
  <1>3. CASE ExecuteMalloc(c) \/ ExecuteFree(c)
    BY <1>3 DEF ExecuteMalloc, ExecuteFree, Executing, Enqueued
  <1>4. CASE ExecuteStreamSync(c) \/ ExecuteEventRecord(c)
    BY <1>4 DEF ExecuteStreamSync, ExecuteEventRecord, Executing, Enqueued
  <1> QED BY <1>1, <1>2, <1>3, <1>4

LEMMA EnqueueCounts ==
    ASSUME IInv, CountInv, NEW d \in Client, Enqueued(d)
    PROVE  CountInv'
  <1> SUFFICES ASSUME NEW c \in Client PROVE (EventsInv(c) /\ CapInv(c))'
    BY DEF CountInv
  <1>1. EventsInv(c) /\ CapInv(c)
    BY DEF CountInv
  <1>2. Uncounted(c) = 0 /\ InFlight(c)' = InFlight(c)
    BY DEF Enqueued, Uncounted, InFlight
  <1>3. Len(stream'[c]) = Len(stream[c]) + Uncounted(c)'
    <2>1. CASE stream_op' = FALSE /\ UNCHANGED stream
      BY <2>1, CountTypes DEF Uncounted
    <2>2. CASE stream' = [stream EXCEPT ![d] = Append(@, heads[d])] /\ stream_op' = TRUE
      <3>1. heads[d] \in Nat
        BY ServingFacts DEF Enqueued
      <3>2. Len(Append(stream[d], heads[d])) = Len(stream[d]) + 1
        BY <3>1, CountTypes, AppendFacts
      <3>3. stream \in [Client -> Seq(Nat)]
        BY DEF IInv, TypeOK, GpuTypeOK
      <3> QED BY <2>2, <3>2, <3>3, CountTypes DEF Enqueued, Uncounted
    <2> QED BY <2>1, <2>2 DEF Enqueued
  <1>4. EventsInv(c)'
    <2>1. Uncounted(c)' \in {0, 1}
      BY DEF Uncounted
    <2>2. Len(stream'[c]) = ev_issued[c] + Uncounted(c)'
      BY <1>1, <1>2, <1>3, <2>1, CountTypes DEF EventsInv
    <2> QED BY <1>1, <2>2 DEF EventsInv, Enqueued, Slot
  <1>5. CapInv(c)'
    <2>1. Uncounted(c)' = 0 \/ (Uncounted(c)' = 1 /\ c = d /\ AddsStreamWork(rec[d].kind))
      BY DEF Uncounted, Enqueued
    <2> QED
      BY <1>1, <1>2, <2>1, CountTypes, PolicyAssumption DEF CapInv, Enqueued, InFlight
  <1> QED BY <1>4, <1>5

\* The ring has room, and the new slot is none of those still to be queried.
LEMMA RecordCounts ==
    ASSUME Throttled, IInv, CountInv, NEW d \in Client, RecordEvent(d)
    PROVE  CountInv'
  <1> SUFFICES ASSUME NEW c \in Client PROVE (EventsInv(c) /\ CapInv(c))'
    BY DEF CountInv
  <1>1. EventsInv(c) /\ CapInv(c)
    BY DEF CountInv
  <1>2. Uncounted(c)' = 0 /\ UNCHANGED <<gpuVars, ev_done, pick>> /\ spc = "event" /\ pick = d
    BY DEF RecordEvent, Uncounted
  <1>3. CASE ~stream_op \/ c # d
    <2>1. Uncounted(c) = 0
      BY <1>2, <1>3 DEF Uncounted
    <2>2. ev_issued'[c] = ev_issued[c] /\ events'[c] = events[c]
      BY <1>3 DEF RecordEvent, IInv, TypeOK, EventTypeOK
    <2> QED
      BY <1>1, <1>2, <2>1, <2>2 DEF EventsInv, CapInv, InFlight, Slot, RecordEvent
  <1>4. CASE stream_op /\ c = d
    <2>1. Uncounted(c) = 1 /\ Len(stream[c]) = ev_issued[c] + 1
      BY <1>1, <1>2, <1>4 DEF Uncounted, EventsInv
    <2>2. InFlight(c) < Threshold /\ InFlight(c) < Ring
      BY <1>1, <2>1, CountTypes, PolicyAssumption, RingAssumption DEF CapInv, InFlight, Throttled
    <2>3. ~RingFull(c)
      BY <2>2, CountTypes, RingAssumption DEF RingFull, InFlight
    <2>4. /\ events' = [events EXCEPT ![c][Slot(ev_issued[c])] = Len(stream[c])]
          /\ ev_issued' = [ev_issued EXCEPT ![c] = @ + 1]
      BY <1>4, <2>3 DEF RecordEvent
    <2>5. /\ ev_issued'[c] = ev_issued[c] + 1
          /\ events'[c] = [events[c] EXCEPT ![Slot(ev_issued[c])] = ev_issued[c] + 1]
          /\ events[c] \in [0 .. Ring - 1 -> Nat]
      BY <2>1, <2>4 DEF IInv, TypeOK, EventTypeOK
    <2>6. ASSUME NEW s \in ev_done[c] .. ev_issued[c]
          PROVE  events'[c][Slot(s)] = s + 1
      <3>1. CASE s = ev_issued[c]
        BY <2>5, <3>1, CountTypes, SlotInRing
      <3>2. CASE s < ev_issued[c]
        <4>1. s \in Nat /\ s \in ev_done[c] .. ev_issued[c] - 1 /\ ev_issued[c] < s + Ring
          BY <2>2, <3>2, CountTypes, RingAssumption DEF InFlight
        <4>2. Slot(s) # Slot(ev_issued[c])
          BY <3>2, <4>1, CountTypes, SlotsDiffer
        <4>3. events[c][Slot(s)] = s + 1
          BY <1>1, <4>1 DEF EventsInv
        <4> QED BY <2>5, <4>1, <4>2, <4>3, SlotInRing
      <3> QED BY <3>1, <3>2, CountTypes
    <2>7. EventsInv(c)'
      BY <1>1, <1>2, <2>1, <2>5, <2>6, CountTypes DEF EventsInv, Slot
    <2>8. CapInv(c)'
      BY <1>1, <1>2, <2>1, <2>5, CountTypes, PolicyAssumption DEF CapInv, InFlight, RecordEvent
    <2> QED BY <2>7, <2>8
  <1> QED BY <1>3, <1>4

(***************************************************************************)
(* Theorems                                                                *)
(***************************************************************************)
LEMMA NextCounts == Throttled /\ IInv /\ CountInv /\ [Next]_vars => CountInv'
  <1> SUFFICES ASSUME Throttled, IInv, CountInv, [Next]_vars PROVE CountInv'
    OBVIOUS
  <1>1. CASE \E c \in Client : ClientNext(c) \/ Finish(c)
    BY <1>1, ClientCounts, FinishCounts
  <1>2. CASE StopScheduler \/ JoinScheduler \/ UNCHANGED vars
    BY <1>2, LoopCounts DEF StopScheduler, JoinScheduler, vars
  <1>3. CASE CheckStop \/ SkipAdvance \/ Idle
    BY <1>3, LoopCounts DEF CheckStop, SkipAdvance, Idle
  <1>4. ASSUME NEW c \in Client, PollNothing(c) \/ PollParked(c) \/ Peek(c) PROVE CountInv'
    BY <1>4, LoopCounts DEF PollNothing, PollParked, Peek, ScanThen
  <1>5. ASSUME NEW c \in Client, Advance(c) \/ DrainCursor(c) PROVE CountInv'
    BY <1>5, CursorCounts DEF Advance, DrainCursor, ScanThen
  <1>6. ASSUME NEW c \in Client, PickNext(c) PROVE CountInv'
    BY <1>6, PickCounts
  <1>7. ASSUME NEW c \in Client, Pop(c) PROVE CountInv'
    BY <1>7, LoopCounts DEF Pop
  <1>8. ASSUME NEW c \in Client, Execute(c) PROVE CountInv'
    <2>1. CASE StoreState(c) \/ Account(c)
      BY <2>1, LoopCounts DEF StoreState, Account
    <2>2. CASE RecordEvent(c)
      BY <2>2, RecordCounts
    <2> QED BY <1>8, <2>1, <2>2, ExecuteEnqueues, EnqueueCounts DEF Execute
  <1>9. CASE SchedulerNext
    BY <1>3, <1>4, <1>5, <1>6, <1>7, <1>8, <1>9 DEF SchedulerNext
  <1> QED BY <1>1, <1>2, <1>9 DEF Next, Finished

\* Under a throttle every stream operation has its event, in its own slot,
\* and what the policy saw when it chose still holds when it is carried out.
THEOREM CountsInductive == Throttled => (Spec => []CountInv)
  <1> SUFFICES ASSUME Throttled PROVE Spec => []CountInv
    OBVIOUS
  <1>1. Init => CountInv
    BY InitCounts
  <1>2. IInv /\ CountInv /\ [Next]_vars => CountInv'
    BY NextCounts
  <1> QED
    BY <1>1, <1>2, Inductive, PTL DEF Spec

\* SchedState.in_flight, on which the policies throttle, never shows less
\* than the GPU really holds, however rarely the cursor is polled.
THEOREM CountIsSafe == Throttled => (Spec => []CountsEverything)
  <1> SUFFICES ASSUME Throttled PROVE Spec => []CountsEverything
    OBVIOUS
  <1>1. IInv /\ CountInv => CountsEverything
    <2> SUFFICES ASSUME IInv, CountInv, NEW c \in Client, ~(spc = "event" /\ pick = c)
                 PROVE  Outstanding(c) <= InFlight(c)
      BY DEF CountsEverything
    <2>1. Uncounted(c) = 0 /\ EventsInv(c)
      BY DEF CountInv, Uncounted
    <2> QED BY <2>1, CountTypes DEF EventsInv, Outstanding, InFlight
  <1> QED
    BY <1>1, CountsInductive, Inductive, PTL

\* ThrottledFcfsPolicy's promise against the GPU: at most `threshold`
\* operations of a client are unfinished.
THEOREM CapHolds == Throttled => (Spec => []ThrottleCaps)
  <1> SUFFICES ASSUME Throttled PROVE Spec => []ThrottleCaps
    OBVIOUS
  <1>1. IInv /\ CountInv => ThrottleCaps
    <2> SUFFICES ASSUME IInv, CountInv, NEW c \in Client PROVE Outstanding(c) <= Threshold
      BY DEF ThrottleCaps
    <2>1. EventsInv(c) /\ CapInv(c)
      BY DEF CountInv
    <2>2. /\ Len(stream[c]) = ev_issued[c] + Uncounted(c) /\ ev_done[c] <= finished[c]
          /\ ev_issued[c] - ev_done[c] + Uncounted(c) <= Threshold
      BY <2>1 DEF EventsInv, CapInv, InFlight
    <2>3. /\ ev_issued[c] \in Nat /\ ev_done[c] \in Nat /\ Len(stream[c]) \in Nat
          /\ finished[c] \in Nat /\ Uncounted(c) \in {0, 1} /\ Threshold \in Nat
      BY CountTypes, PolicyAssumption
    <2>4. Len(stream[c]) - finished[c] <= Threshold
      BY <2>2, <2>3
    <2> QED BY <2>4 DEF Outstanding
  <1> QED
    BY <1>1, CountsInductive, Inductive, PTL

(***************************************************************************)
(* The order of FCFS                                                       *)
(***************************************************************************)
\* c is blocked on a record the scheduler has not served.
Waiting(c) == cpc[c] = "spinning" /\ Unserved(c)

\* Once overtaken, c's record is in every snapshot that is looked at.
Seen(c) ==
    /\ spc = "pick" => heads[c] # Null
    /\ spc = "peek" /\ c < scan => heads[c] # Null

SeenInv(c) ==
    overtaken[c] = 1 => /\ cpc[c] = "spinning"
                        /\ Waiting(c) => Seen(c)

OvertakingInv ==
    /\ overtaken \in [Client -> {0, 1}]
    /\ \A c \in Client : SeenInv(c)

\* c waits when its record is neither served, nor parked, nor released.
LEMMA WaitingFacts ==
    ASSUME IInv, NEW c \in Client, cpc[c] = "spinning"
    PROVE  Waiting(c) <=> rec[c].state = QUEUED /\ pending_sync[c] = Null /\ ~InService(c)
  <1> USE DEF IInv, TypeOK
  <1>1. submitted[c] \in Nat /\ issued[c] \in Nat /\ rec[c].op_id # Null
    BY DEF ClientTypeOK, ReplayTypeOK, InsideInv, InCall, Null
  <1>2. ASSUME Unserved(c) PROVE ~InService(c)
    <2>1. ASSUME InService(c) PROVE FALSE
      <3>1. Served(c)
        BY <2>1, ClientFacts DEF InService, SchedInv, HeadInv
      <3> QED BY <1>1, <1>2, <3>1 DEF Served, Unserved
    <2> QED BY <2>1
  <1>3. WaitState(rec[c].kind) # QUEUED
    BY DEF WaitState, QUEUED, ISSUED, DONE
  <1> QED
    BY <1>1, <1>2, <1>3 DEF Waiting, InsideInv, Unserved, Served, Parked, Released

\* At the peek, the record of a client that waits is at the front.
LEMMA PeekSees ==
    ASSUME IInv, NEW c \in Client, Peek(c), Waiting(c)
    PROVE  heads'[c] # Null
  <1> USE DEF IInv, TypeOK
  <1>1. Pushed(c) = submitted[c] /\ Popped(c) = issued[c] /\ Made(c) = issued[c]
    BY DEF Pushed, Popped, Made, Peek, Waiting
  <1>2. /\ issued[c] = submitted[c] - 1 /\ issued[c] \in Nat /\ submitted[c] \in Nat
        /\ q[c] \in Seq(Nat)
    BY <1>1 DEF Waiting, Unserved, ClientTypeOK, ReplayTypeOK
  <1>3. Len(q[c]) = 1
    <2>1. Len(q[c]) = Pushed(c) - Popped(c)
      BY DEF QueueInv
    <2> HIDE DEF IInv, TypeOK
    <2> QED BY <1>1, <1>2, <2>1
  <1>4. q[c] # <<>> /\ Head(q[c]) \in Nat
    BY <1>2, <1>3
  <1>5. heads'[c] = Head(q[c])
    BY <1>4 DEF Peek, LoopTypeOK
  <1> QED BY <1>4, <1>5 DEF Null

\* A client that waits after a step and was spinning before it waited already.
LEMMA WaitedBefore ==
    ASSUME IInv, IInv', NEW c \in Client, [Next]_vars, Waiting(c)', cpc[c] = "spinning"
    PROVE  Waiting(c)
  <1>1. /\ rec \in [Client -> Frames] /\ pending_sync \in [Client -> Nat \cup {Null}]
        /\ cpc \in [Client -> {"running", "pushing", "spinning", "exited"}]
    BY DEF IInv, TypeOK, ClientTypeOK, ReplayTypeOK
  <1>2. cpc'[c] = "spinning" /\ rec'[c].state = QUEUED /\ pending_sync'[c] = Null /\ ~InService(c)'
    <2>1. cpc'[c] = "spinning"
      BY DEF Waiting
    <2>2. submitted'[c] \in Nat /\ Made(c)' = submitted'[c] - 1
      BY DEF Waiting, Unserved, IInv, TypeOK, ClientTypeOK
    <2>3. InService(c)' => Served(c)'
      BY ClientFacts DEF InService, IInv, SchedInv, HeadInv
    <2>4. Served(c)' => Made(c)' = submitted'[c]
      BY DEF Served
    <2>5. rec'[c].state = QUEUED /\ pending_sync'[c] = Null
      BY DEF Waiting, Unserved
    <2> QED BY <2>1, <2>2, <2>3, <2>4, <2>5
  <1> SUFFICES rec[c].state = QUEUED /\ pending_sync[c] = Null /\ ~InService(c)
    BY WaitingFacts
  <1>3. ASSUME NEW d \in Client, ClientNext(d) \/ Finish(d)
        PROVE  rec[c].state = QUEUED /\ pending_sync[c] = Null /\ ~InService(c)
    <2>1. CASE c = d
      BY <1>1, <1>2, <1>3, <2>1 DEF ClientNext, Call, Push, Return, Exit, Finish, InService
    <2>2. CASE c # d
      BY <1>1, <1>2, <1>3, <2>2 DEF ClientNext, Call, Push, Return, Exit, Finish, InService
    <2> QED BY <2>1, <2>2
  <1>4. ASSUME NEW d \in Client, NEW r, Replay(d, r)
        PROVE  rec[c].state = QUEUED /\ pending_sync[c] = Null /\ ~InService(c)
    <2>1. rec'[c].state = rec[c].state
      BY <1>1, <1>4, RetUpdate DEF Replay
    <2>2. c # d
      BY <1>2, <1>4 DEF Replay, InService
    <2> QED BY <1>1, <1>2, <1>4, <2>1, <2>2 DEF Replay, InService
  <1>5. ASSUME NEW d \in Client, StoreState(d)
        PROVE  rec[c].state = QUEUED /\ pending_sync[c] = Null /\ ~InService(c)
    <2>1. c # d
      <3>1. ASSUME c = d PROVE FALSE
        <4>1. Served(c) /\ InsideInv(c)
          BY <1>5, <3>1, ClientFacts DEF StoreState, IInv, SchedInv, HeadInv
        <4>2. final_state # Null
          <5>1. rec[c].op_id = submitted[c] - 1 /\ submitted[c] \in Nat /\ submitted[c] >= 1
            BY <4>1 DEF InsideInv, InCall, IInv, TypeOK, ClientTypeOK
          <5>2. pending_sync[c] = Null
            BY <1>2, <1>5 DEF StoreState
          <5> QED BY <4>1, <5>1, <5>2 DEF Served, Null
        <4>3. final_state # QUEUED /\ rec'[c].state = final_state
          BY <1>1, <1>5, <3>1, <4>1, <4>2 DEF Served, StoreState, WaitState, QUEUED, ISSUED, DONE
        <4> QED BY <1>2, <4>3
      <3> QED BY <3>1
    <2> QED BY <1>1, <1>2, <1>5, <2>1 DEF StoreState, InService
  <1>6. ASSUME NEW d \in Client, PollParked(d)
        PROVE  rec[c].state = QUEUED /\ pending_sync[c] = Null /\ ~InService(c)
    <2>1. CASE c = d
      <3>1. pending_sync'[c] # pending_sync[c]
        BY <1>2, <1>6, <2>1 DEF PollParked
      <3>2. PICK result : rec' = [rec EXCEPT ![c].ret = IF @ = "success" THEN result ELSE @,
                                             ![c].state = DONE]
        BY <1>6, <2>1, <3>1 DEF PollParked
      <3>3. rec'[c].state = DONE
        BY <1>1, <3>2 DEF Frames
      <3> QED BY <1>2, <3>3 DEF QUEUED, DONE
    <2>2. CASE c # d
      BY <1>1, <1>2, <1>6, <2>2 DEF PollParked, InService
    <2> QED BY <2>1, <2>2
  <1>7. CASE UNCHANGED <<rec, pending_sync>> /\ (InService(c) => InService(c)')
    BY <1>2, <1>7
  <1>8. ASSUME NEW d \in Client, Execute(d)
        PROVE  rec[c].state = QUEUED /\ pending_sync[c] = Null /\ ~InService(c)
    <2>1. CASE RecordEvent(d) \/ Account(d)
      BY <1>7, <2>1 DEF RecordEvent, Account, InService
    <2> QED
      BY <1>4, <1>5, <1>8, <2>1, ExecuteAsyncReplays, ExecuteSyncCopyReplays, ExecuteMallocReplays,
         ExecuteFreeReplays, ExecuteStreamSyncReplays, ExecuteEventRecordReplays DEF Execute
  <1>9. CASE SchedulerNext
    <2>1. CASE CheckStop \/ SkipAdvance \/ Idle
      BY <1>7, <2>1 DEF CheckStop, SkipAdvance, Idle, InService
    <2>2. ASSUME NEW d \in Client,
                 PollNothing(d) \/ Advance(d) \/ Peek(d) \/ PickNext(d) \/ Pop(d) \/ DrainCursor(d)
          PROVE  rec[c].state = QUEUED /\ pending_sync[c] = Null /\ ~InService(c)
      BY <1>7, <2>2
         DEF PollNothing, Advance, Peek, PickNext, Pop, DrainCursor, ScanThen, InService
    <2> QED BY <1>6, <1>8, <1>9, <2>1, <2>2 DEF SchedulerNext
  <1>10. CASE StopScheduler \/ JoinScheduler \/ UNCHANGED vars
    BY <1>7, <1>10 DEF StopScheduler, JoinScheduler, vars, InService
  <1> QED BY <1>3, <1>9, <1>10 DEF Next, Finished

(***************************************************************************)
(* The invariant                                                           *)
(***************************************************************************)
LEMMA InitOvertaking == FcfsInit => OvertakingInv
  BY DEF FcfsInit, Init, OvertakingInv, SeenInv

\* Whoever is picked while c's record is in the snapshot has no later stamp.
LEMMA SeenIsNotOvertaken ==
    ASSUME PolicyName = "fcfs", IInv, NEW c \in Client, NEW d \in Client, PickNext(d),
           heads[c] # Null
    PROVE  ~Overtakes(d, c)
  <1>1. c \in Eligible
    BY DEF Eligible, Candidates
  <1>2. rec[d].t < rec[c].t \/ rec[d].t = rec[c].t
    BY <1>1 DEF PickNext, Chosen
  <1>3. rec[c].t \in Nat /\ rec[d].t \in Nat
    BY FrameFields DEF IInv, TypeOK, ClientTypeOK
  <1> QED BY <1>2, <1>3 DEF Overtakes

\* A waiting client's record stays in the snapshot, and enters the next one.
LEMMA SeenKept ==
    ASSUME IInv, Next, NEW c \in Client, Waiting(c), Seen(c)
    PROVE  Seen(c)'
  <1> USE DEF Seen
  <1>1. heads \in [Client -> Nat \cup {Null}] /\ scan \in Client
    BY DEF IInv, TypeOK, LoopTypeOK
  <1>2. CASE \E d \in Client : ClientNext(d) \/ Finish(d)
    BY <1>2 DEF ClientNext, Call, Push, Return, Exit, Finish
  <1>3. CASE StopScheduler \/ JoinScheduler \/ Finished
    BY <1>3 DEF StopScheduler, JoinScheduler, Finished, vars
  <1>4. CASE CheckStop \/ Idle
    BY <1>4 DEF CheckStop, Idle
  <1>5. CASE SkipAdvance
    BY <1>5, ClientFacts DEF SkipAdvance
  <1>6. ASSUME NEW d \in Client, Peek(d) PROVE Seen(c)'
    <2>1. CASE c = d
      BY <1>6, <2>1, PeekSees
    <2>2. CASE c # d
      <3>1. heads'[c] = heads[c]
        BY <1>6, <2>2 DEF Peek
      <3>2. \/ spc' = spc /\ scan' = scan + 1
            \/ spc' = "pick" /\ scan' = 0 /\ c <= scan
        BY <1>1, <1>6, ScanFacts DEF Peek
      <3> QED BY <1>1, <1>6, <2>2, <3>1, <3>2, ClientFacts DEF Peek
    <2> QED BY <2>1, <2>2
  <1>7. ASSUME NEW d \in Client,
               PollNothing(d) \/ PollParked(d) \/ Advance(d) \/ DrainCursor(d)
        PROVE  Seen(c)'
    BY <1>1, <1>7, ClientFacts DEF PollNothing, PollParked, Advance, DrainCursor, ScanThen
  <1>8. ASSUME NEW d \in Client, PickNext(d) \/ Pop(d) \/ Execute(d)
        PROVE  spc' \notin {"peek", "pick"}
    BY <1>8
       DEF PickNext, Pop, Execute, ExecuteAsync, ExecuteSyncCopy, ExecuteMalloc, ExecuteFree,
           ExecuteStreamSync, ExecuteEventRecord, Executing, RecordEvent, StoreState, Account
  <1> QED BY <1>2, <1>3, <1>4, <1>5, <1>6, <1>7, <1>8 DEF Next, SchedulerNext

\* Only PickNext picks.
LEMMA PicksFrom ==
    ASSUME IInv, Next, spc = "pick", pick' # Null
    PROVE  pick' \in Client /\ PickNext(pick')
  <1>1. pick = Null
    BY DEF IInv, SchedInv
  <1>2. CASE \E c \in Client : ClientNext(c) \/ Finish(c)
    BY <1>1, <1>2 DEF ClientNext, Call, Push, Return, Exit, Finish
  <1>3. CASE StopScheduler \/ JoinScheduler \/ Finished
    BY <1>1, <1>3 DEF StopScheduler, JoinScheduler, Finished, vars
  <1>4. CASE CheckStop \/ SkipAdvance \/ Idle
    BY <1>1, <1>4 DEF CheckStop, SkipAdvance, Idle
  <1>5. ASSUME NEW c \in Client,
               \/ PollNothing(c) \/ PollParked(c) \/ Advance(c) \/ Peek(c)
               \/ Pop(c) \/ DrainCursor(c) \/ Execute(c)
        PROVE  FALSE
    <2>1. ~Execute(c)
      BY DEF Execute, ExecuteAsync, ExecuteSyncCopy, ExecuteMalloc, ExecuteFree,
             ExecuteStreamSync, ExecuteEventRecord, Executing, RecordEvent, StoreState, Account
    <2> QED BY <1>5, <2>1 DEF PollNothing, PollParked, Advance, Peek, Pop, DrainCursor
  <1>6. ASSUME NEW c \in Client, PickNext(c) PROVE pick' \in Client /\ PickNext(pick')
    BY <1>6 DEF PickNext
  <1> QED BY <1>2, <1>3, <1>4, <1>5, <1>6 DEF Next, SchedulerNext

LEMMA NextOvertaking ==
    PolicyName = "fcfs" /\ IInv /\ IInv' /\ OvertakingInv /\ [FcfsNext]_<<vars, overtaken>>
      => OvertakingInv'
  <1> SUFFICES ASSUME PolicyName = "fcfs", IInv, IInv', OvertakingInv,
                      [FcfsNext]_<<vars, overtaken>>
               PROVE  OvertakingInv'
    OBVIOUS
  <1>1. CASE UNCHANGED <<vars, overtaken>>
    BY <1>1 DEF OvertakingInv, SeenInv, Seen, Waiting, Unserved, Made, vars
  <1>2. CASE FcfsNext
    <2> USE <1>2 DEF FcfsNext
    <2>1. overtaken \in [Client -> {0, 1}]
      BY DEF OvertakingInv
    <2>2. ASSUME NEW c \in Client, spc = "pick", pick' # Null, Overtakes(pick', c)
          PROVE  overtaken[c] = 0
      <3>1. pick' \in Client /\ PickNext(pick')
        BY <2>2, PicksFrom
      <3>2. heads[c] = Null
        BY <2>2, <3>1, SeenIsNotOvertaken
      <3>3. Waiting(c)
        <4>1. ~InService(c)
          BY <2>2 DEF InService
        <4> QED BY <2>2, <4>1, WaitingFacts DEF Overtakes
      <3>4. overtaken[c] # 1
        BY <2>2, <3>2, <3>3 DEF OvertakingInv, SeenInv, Seen
      <3> QED BY <2>1, <3>4
    <2>3. ASSUME NEW c \in Client
          PROVE  /\ overtaken'[c] \in {0, 1}
                 /\ overtaken'[c] = 1 => cpc'[c] = "spinning"
                 /\ overtaken'[c] = 1 =>
                      overtaken[c] = 1 \/ (spc = "pick" /\ pick' # Null /\ Overtakes(pick', c))
      <3>1. CASE cpc'[c] # "spinning"
        <4>1. ~(spc = "pick" /\ pick' # Null /\ Overtakes(pick', c))
          BY <3>1, PicksFrom DEF PickNext, Overtakes
        <4> QED BY <3>1, <4>1 DEF ObserveOvertaking
      <3>2. CASE cpc'[c] = "spinning" /\ spc = "pick" /\ pick' # Null /\ Overtakes(pick', c)
        BY <2>2, <3>2 DEF ObserveOvertaking
      <3>3. CASE cpc'[c] = "spinning" /\ ~(spc = "pick" /\ pick' # Null /\ Overtakes(pick', c))
        BY <2>1, <3>3 DEF ObserveOvertaking
      <3> QED BY <3>1, <3>2, <3>3
    <2>4. overtaken' \in [Client -> {0, 1}]
      BY <2>3 DEF ObserveOvertaking
    <2>5. ASSUME NEW c \in Client PROVE SeenInv(c)'
      <3> SUFFICES ASSUME overtaken'[c] = 1, Waiting(c)' PROVE Seen(c)'
        BY <2>3 DEF SeenInv
      <3>1. CASE spc = "pick" /\ pick' # Null
        BY <3>1, PicksFrom DEF PickNext, Seen
      <3>2. CASE spc # "pick" \/ pick' = Null
        <4>1. overtaken[c] = 1 /\ SeenInv(c)
          BY <2>3, <3>2 DEF OvertakingInv
        <4>2. Waiting(c) /\ Seen(c)
          BY <4>1, WaitedBefore DEF SeenInv
        <4> QED BY <4>2, SeenKept
      <3> QED BY <3>1, <3>2
    <2> QED BY <2>4, <2>5 DEF OvertakingInv
  <1> QED BY <1>1, <1>2

\* A record is passed over at most once, however its client's push falls
\* between the scheduler's peeks.
THEOREM OvertakenOnce == PolicyName = "fcfs" => (FcfsSpec => []OvertakenAtMostOnce)
  <1> SUFFICES ASSUME PolicyName = "fcfs" PROVE FcfsSpec => []OvertakenAtMostOnce
    OBVIOUS
  <1>1. FcfsInit => OvertakingInv
    BY InitOvertaking
  <1>2. IInv /\ IInv' /\ OvertakingInv /\ [FcfsNext]_<<vars, overtaken>> => OvertakingInv'
    BY NextOvertaking
  <1>3. FcfsInit => Init
    BY DEF FcfsInit
  <1>4. [FcfsNext]_<<vars, overtaken>> => [Next]_vars
    BY DEF FcfsNext
  <1>5. OvertakingInv => OvertakenAtMostOnce
    BY DEF OvertakingInv, OvertakenAtMostOnce
  <1> QED
    BY <1>1, <1>2, <1>3, <1>4, <1>5, Inductive, PTL DEF FcfsSpec, Spec
=============================================================================
