--------------------------- MODULE ObserverProofs ---------------------------
(***************************************************************************)
(* For every number of streams and slots, whatever is launched, and in     *)
(* whatever order the GPU completes and CUPTI delivers: the live counters  *)
(* count what was delivered, the dump is complete, the analysis joins the  *)
(* issue log to it exactly, and its self-check tells what happened.        *)
(***************************************************************************)
EXTENDS TraceJoin, OrderProofs, SequenceTheorems

USE DEF gpuVars, liveVars, vars
USE TrackingAssumption, KindsAssumption

Streams == Stream \cup {DefaultStream}

\* What a stream has to execute, and what it leaves behind.
Operation(s) ==
    [what : {"kernel", "memcpy"}, corr : Nat, stream : {s}, partner : BOOLEAN, row : Nat,
     from : {"sched", "main", "client"}, window : BOOLEAN, end : {0}]

GpuInv ==
    /\ phase \in {"earlier", "tracking", "running", "over", "flushed", "dumped"}
    /\ issue \in Seq([stream : Stream, kind : IssueKinds, ok : BOOLEAN])
    /\ corr \in Nat /\ end \in Nat
    /\ DOMAIN fifo = Streams /\ fifo = [s \in Streams |-> fifo[s]]
    /\ \A s \in Streams : fifo[s] \in Seq(Operation(s))
    /\ phase \in {"over", "flushed", "dumped"} => Idle

\* Every completion has left one record, delivered or not.  Nothing has run
\* on a tracked stream before the tracking is over.
DeliveryInv ==
    /\ IsFiniteSet(rows) /\ IsFiniteSet(cupti) /\ rows \cap cupti = {}
    /\ {r.end : r \in rows \cup cupti} = 1 .. end
    /\ \A r \in rows \cup cupti : r.stream \in Streams
    /\ phase \in {"earlier", "tracking"} =>
          /\ \A s \in Stream : fifo[s] = <<>>
          /\ \A r \in rows \cup cupti : r.stream = DefaultStream
    /\ phase \in {"flushed", "dumped"} => cupti = {}
    /\ phase = "dumped" => dump = rows

Slots == 0 .. kMaxTracked - 1

\* A slot is empty, taken, or named for one stream; its counter is exact
\* already before it is named.
TableInv ==
    /\ live_n \in Nat /\ taken \in Slots \cup {-1}
    /\ DOMAIN live = Slots /\ DOMAIN counts = Slots
    /\ \A i \in Slots : live[i] \in {Unnamed, i + 1} /\ (i >= live_n => live[i] = Unnamed)
    /\ taken # -1 => phase = "tracking" /\ taken < live_n
    /\ \A i \in Slots : counts[i] = Cardinality(OnStream(rows, live[i]))

ObserverInv == GpuInv /\ DeliveryInv /\ TableInv

(***************************************************************************)
(* Lemmas                                                                  *)
(***************************************************************************)
LEMMA StreamFacts ==
    /\ \A s \in Streams : s \in Nat
    /\ Stream \subseteq Streams /\ DefaultStream \in Streams /\ DefaultStream \notin Stream
    /\ Unnamed \notin Streams
  BY DEF Streams, Stream, DefaultStream, Unnamed

\* What an activity is, when it is launched.
LEMMA ActivityType ==
    ASSUME GpuInv, NEW what \in {"kernel", "memcpy"}, NEW c \in Nat, NEW s, NEW partner \in BOOLEAN,
           NEW row \in Nat, NEW from \in {"sched", "main", "client"}
    PROVE  Activity(what, c, s, partner, row, from) \in Operation(s)
  <1>1. (phase # "earlier") \in BOOLEAN
    OBVIOUS
  <1> QED BY <1>1 DEF Activity, Operation

LEMMA EffectsType ==
    ASSUME GpuInv, NEW kind \in IssueKinds, NEW s \in Stream, NEW partners \in {0, 1}
    PROVE  Effects(kind, s, partners) \in Seq(Operation(s))
  <1>1. PICK what : what = IF kind = "cudaMemcpyAsync" THEN "memcpy" ELSE "kernel"
    OBVIOUS
  <1>2. PICK row \in Nat : row = Len(issue) + 1
    BY DEF GpuInv
  <1>3. ASSUME NEW i \in 1 .. 1 + partners
        PROVE  Activity(what, corr + i, s, i > 1, row, "sched") \in Operation(s)
    <2>1. corr + i \in Nat /\ (i > 1) \in BOOLEAN
      BY DEF GpuInv
    <2> QED BY <1>1, <2>1, ActivityType
  <1>4. Effects(kind, s, partners) =
          [i \in 1 .. 1 + partners |-> Activity(what, corr + i, s, i > 1, row, "sched")]
    BY <1>1, <1>2 DEF Effects
  <1>5. 1 + partners \in Nat
    OBVIOUS
  <1> QED BY <1>3, <1>4, <1>5

\* The kernels of a batch on one stream.
LEMMA OnStreamAdds ==
    ASSUME NEW old, NEW batch, IsFiniteSet(old), IsFiniteSet(batch), old \cap batch = {}, NEW s
    PROVE  Cardinality(OnStream(old \cup batch, s)) =
              Cardinality(OnStream(old, s)) + Cardinality(OnStream(batch, s))
  <1> DEFINE S == OnStream(old, s)
             T == OnStream(batch, s)
  <1>1. S \in SUBSET old /\ T \in SUBSET batch
    BY DEF OnStream, Kernels
  <1>2. OnStream(old \cup batch, s) = S \cup T
    BY DEF OnStream, Kernels
  <1> HIDE DEF S, T
  <1>3. IsFiniteSet(S) /\ IsFiniteSet(T)
    BY <1>1, FS_Subset
  <1>4. Cardinality(S) \in Nat /\ Cardinality(T) \in Nat
    BY <1>3, FS_CardinalityType
  <1>5. Cardinality(S \cap T) = 0
    <2>1. S \cap T = {}
      BY <1>1
    <2> QED BY <2>1, FS_EmptySet
  <1>6. Cardinality(S \cup T) = Cardinality(S) + Cardinality(T) - Cardinality(S \cap T)
    BY <1>3, FS_Union
  <1>7. Cardinality(OnStream(old \cup batch, s)) = Cardinality(S) + Cardinality(T)
    <2>1. \A a, b \in Nat : a + b - 0 = a + b
      OBVIOUS
    <2> QED BY <1>2, <1>4, <1>5, <1>6, <2>1
  <1> QED BY <1>7 DEF S, T

LEMMA OnNoStream ==
    ASSUME NEW records, NEW s, \A r \in records : r.stream # s
    PROVE  Cardinality(OnStream(records, s)) = 0
  <1>1. OnStream(records, s) = {}
    BY DEF OnStream, Kernels
  <1> QED BY <1>1, FS_EmptySet

(***************************************************************************)
(* The steps                                                               *)
(***************************************************************************)
LEMMA InitObserver == Init => ObserverInv
  <1> SUFFICES ASSUME Init PROVE ObserverInv
    OBVIOUS
  <1>1. GpuInv
    BY DEF Init, GpuInv, Streams
  <1>2. DeliveryInv
    <2>1. IsFiniteSet({})
      BY FS_EmptySet
    <2>2. 1 .. end = {}
      BY DEF Init
    <2>3. \A s \in Stream : fifo[s] = <<>>
      BY DEF Init
    <2> QED BY <2>1, <2>2, <2>3 DEF Init, DeliveryInv
  <1>3. TableInv
    <2>1. \A s : Cardinality(OnStream({}, s)) = 0
      BY OnNoStream
    <2> QED BY <2>1 DEF Init, TableInv, Slots
  <1> QED BY <1>1, <1>2, <1>3 DEF ObserverInv

\* A launch puts operations on one stream; on a tracked one only when the
\* tracking is over.
LEMMA LaunchObserver ==
    ASSUME ObserverInv, NEW s \in Streams, NEW ops \in Seq(Operation(s)),
           fifo' = [fifo EXCEPT ![s] = @ \o ops], corr' \in Nat,
           issue' \in Seq([stream : Stream, kind : IssueKinds, ok : BOOLEAN]),
           phase \in {"earlier", "tracking", "running"},
           s \in Stream => phase = "running",
           UNCHANGED <<phase, end, cupti, rows, liveVars, dump>>
    PROVE  ObserverInv'
  <1> USE DEF ObserverInv
  <1>1. DOMAIN fifo' = Streams /\ \A t \in Streams : fifo'[t] \in Seq(Operation(t))
    <2>1. fifo[s] \o ops \in Seq(Operation(s))
      BY DEF GpuInv
    <2> QED BY <2>1 DEF GpuInv
  <1>2. GpuInv'
    BY <1>1 DEF GpuInv
  <1>3. DeliveryInv'
    <2>1. phase \in {"earlier", "tracking"} => \A t \in Stream : fifo'[t] = fifo[t]
      BY StreamFacts DEF GpuInv
    <2> QED BY <2>1 DEF DeliveryInv
  <1>4. TableInv'
    BY DEF TableInv, OnStream, Kernels
  <1> QED BY <1>2, <1>3, <1>4

LEMMA ReplayObserver ==
    ASSUME ObserverInv, NEW s \in Stream, NEW kind \in IssueKinds, Replay(s, kind)
    PROVE  ObserverInv'
  <1>1. PICK ok \in BOOLEAN, partners \in {0, 1} :
           /\ issue' = Append(issue, [stream |-> s, kind |-> kind, ok |-> ok])
           /\ corr' = corr + 1 + partners
           /\ fifo' = IF ok THEN [fifo EXCEPT ![s] = @ \o Effects(kind, s, partners)] ELSE fifo
    BY FaultsAssumption DEF Replay
  <1>2. PICK ops \in Seq(Operation(s)) : ops = IF ok THEN Effects(kind, s, partners) ELSE <<>>
    <2>1. Effects(kind, s, partners) \in Seq(Operation(s))
      BY EffectsType DEF ObserverInv
    <2>2. <<>> \in Seq(Operation(s))
      OBVIOUS
    <2> QED BY <2>1, <2>2
  <1>3. s \in Streams /\ fifo[s] \in Seq(Operation(s)) /\ DOMAIN fifo = Streams
    BY StreamFacts DEF ObserverInv, GpuInv
  <1>4. fifo' = [fifo EXCEPT ![s] = @ \o ops]
    <2>1. CASE ok
      BY <1>1, <1>2, <2>1
    <2>2. CASE ~ok
      <3>1. ops = <<>> /\ fifo' = fifo
        BY <1>1, <1>2, <2>2
      <3>2. fifo[s] \o ops = fifo[s]
        BY <1>3, <3>1
      <3>3. [fifo EXCEPT ![s] = fifo[s]] = fifo
        BY <1>3 DEF ObserverInv, GpuInv
      <3> QED BY <3>1, <3>2, <3>3
    <2> QED BY <2>1, <2>2
  <1>5. corr' \in Nat /\ issue' \in Seq([stream : Stream, kind : IssueKinds, ok : BOOLEAN])
    BY <1>1 DEF ObserverInv, GpuInv
  <1>6. phase = "running" /\ UNCHANGED <<phase, end, cupti, rows, liveVars, dump>>
    BY DEF Replay
  <1> QED BY <1>3, <1>4, <1>5, <1>6, LaunchObserver

LEMMA ElsewhereObserver ==
    ASSUME ObserverInv, NEW tid \in {"main", "client"}, LaunchElsewhere(tid)
    PROVE  ObserverInv'
  <1>1. PICK op \in Operation(DefaultStream) :
           op = Activity("kernel", corr + 1, DefaultStream, FALSE, 0, tid)
    <2>1. corr + 1 \in Nat
      BY DEF ObserverInv, GpuInv
    <2> QED BY <2>1, ActivityType DEF ObserverInv
  <1>2. fifo' = [fifo EXCEPT ![DefaultStream] = @ \o <<op>>]
    <2>1. fifo[DefaultStream] \in Seq(Operation(DefaultStream))
      BY StreamFacts DEF ObserverInv, GpuInv
    <2>2. Append(fifo[DefaultStream], op) = fifo[DefaultStream] \o <<op>>
      BY <2>1
    <2> QED BY <1>1, <2>2 DEF LaunchElsewhere
  <1>3. <<op>> \in Seq(Operation(DefaultStream)) /\ DefaultStream \in Streams
        /\ DefaultStream \notin Stream
    BY StreamFacts
  <1>4. corr' \in Nat /\ issue' \in Seq([stream : Stream, kind : IssueKinds, ok : BOOLEAN])
    BY DEF LaunchElsewhere, ObserverInv, GpuInv
  <1>5. /\ phase \in {"earlier", "tracking", "running"}
        /\ UNCHANGED <<phase, end, cupti, rows, liveVars, dump>>
    BY DEF LaunchElsewhere
  <1> QED BY <1>2, <1>3, <1>4, <1>5, LaunchObserver

LEMMA CompleteObserver ==
    ASSUME ObserverInv, NEW s \in Streams, Complete(s)
    PROVE  ObserverInv'
  <1> USE DEF ObserverInv
  <1>1a. PICK op \in Operation(s) : op = Head(fifo[s])
    <2>1. fifo[s] \in Seq(Operation(s)) /\ fifo[s] # <<>>
      BY DEF Complete, GpuInv
    <2> QED BY <2>1
  <1>1. PICK r : r = [op EXCEPT !.end = end + 1]
    OBVIOUS
  <1>2. r.end = end + 1 /\ r.stream = s
    BY <1>1 DEF Operation
  <1>3. cupti' = cupti \cup {r} /\ end' = end + 1 /\ fifo' = [fifo EXCEPT ![s] = Tail(@)]
        /\ fifo[s] # <<>> /\ UNCHANGED <<phase, issue, corr, rows, liveVars, dump>>
    BY <1>1a, <1>1 DEF Complete
  <1>4. phase \notin {"over", "flushed", "dumped"}
    BY <1>3 DEF GpuInv, Idle
  <1>5. GpuInv'
    <2>1. Tail(fifo[s]) \in Seq(Operation(s))
      BY <1>3 DEF GpuInv
    <2>2. /\ DOMAIN fifo' = Streams /\ fifo' = [t \in Streams |-> fifo'[t]]
          /\ \A t \in Streams : fifo'[t] \in Seq(Operation(t))
      BY <1>3, <2>1 DEF GpuInv
    <2> QED BY <1>3, <1>4, <2>2 DEF GpuInv
  <1>6. r \notin rows
    <2>1. end + 1 \notin 1 .. end
      BY DEF GpuInv
    <2> QED BY <1>2, <2>1 DEF DeliveryInv
  <1>7. DeliveryInv'
    <2>1. IsFiniteSet(cupti')
      BY <1>3, FS_AddElement DEF DeliveryInv
    <2>2. {x.end : x \in rows \cup cupti'} = {x.end : x \in rows \cup cupti} \cup {end + 1}
      BY <1>2, <1>3
    <2>3. 1 .. end + 1 = (1 .. end) \cup {end + 1}
      BY DEF GpuInv
    <2>4. phase \in {"earlier", "tracking"} =>
             s = DefaultStream /\ \A t \in Stream : fifo'[t] = <<>>
      BY <1>3, StreamFacts DEF DeliveryInv, Streams
    <2> QED BY <1>2, <1>3, <1>4, <1>6, <2>1, <2>2, <2>3, <2>4 DEF DeliveryInv
  <1>8. TableInv'
    BY <1>3 DEF TableInv, OnStream, Kernels
  <1> QED BY <1>5, <1>7, <1>8

\* Delivered records are counted once, on the slot of their stream.
LEMMA DeliverCounts ==
    ASSUME ObserverInv, NEW batch \in SUBSET cupti, Deliver(batch)
    PROVE  /\ IsFiniteSet(rows') /\ IsFiniteSet(cupti') /\ rows' \cap cupti' = {}
           /\ rows' \cup cupti' = rows \cup cupti
           /\ DOMAIN counts' = Slots
           /\ \A i \in Slots : counts'[i] = Cardinality(OnStream(rows, live[i]))'
  <1> USE DEF ObserverInv
  <1>1. /\ rows' = rows \cup batch /\ cupti' = cupti \ batch /\ UNCHANGED <<live, live_n>>
        /\ counts' = [i \in DOMAIN counts |->
                        IF i < live_n THEN counts[i] + Cardinality(OnStream(batch, live[i]))
                                      ELSE counts[i]]
    BY DEF Deliver, Count
  <1>2. IsFiniteSet(batch) /\ rows \cap batch = {} /\ IsFiniteSet(cupti \ batch)
    BY FS_Subset DEF DeliveryInv
  <1>3. IsFiniteSet(rows')
    BY <1>1, <1>2, FS_Union DEF DeliveryInv
  <1>4. ASSUME NEW i \in Slots
        PROVE  counts'[i] = Cardinality(OnStream(rows, live[i]))'
    <2>1. PICK s : s = live[i]
      OBVIOUS
    <2>2. Cardinality(OnStream(rows \cup batch, s)) =
             Cardinality(OnStream(rows, s)) + Cardinality(OnStream(batch, s))
      BY <1>2, OnStreamAdds DEF DeliveryInv
    <2>3. Cardinality(OnStream(rows, live[i]))' = Cardinality(OnStream(rows \cup batch, s))
      BY <1>1, <2>1 DEF OnStream, Kernels
    <2>4. counts[i] = Cardinality(OnStream(rows, s))
      BY <2>1 DEF TableInv
    <2>5. Cardinality(OnStream(rows, s)) \in Nat
      <3>1. OnStream(rows, s) \in SUBSET rows
        BY DEF OnStream, Kernels
      <3> QED BY <3>1, FS_Subset, FS_CardinalityType DEF DeliveryInv
    <2>6. CASE i < live_n
      BY <1>1, <2>1, <2>2, <2>3, <2>4, <2>6 DEF TableInv
    <2>7. CASE ~(i < live_n)
      <3>1. s = Unnamed
        BY <2>1, <2>7 DEF TableInv, Slots
      <3>2. Cardinality(OnStream(batch, s)) = 0
        BY <3>1, OnNoStream, StreamFacts DEF DeliveryInv
      <3> QED BY <1>1, <2>2, <2>3, <2>4, <2>5, <2>7, <3>2 DEF TableInv
    <2> QED BY <2>6, <2>7
  <1> QED BY <1>1, <1>2, <1>3, <1>4 DEF TableInv, DeliveryInv

LEMMA DeliverObserver ==
    ASSUME ObserverInv, NEW batch \in SUBSET cupti, Deliver(batch), UNCHANGED dump,
           \/ UNCHANGED phase /\ batch # {}
           \/ phase = "over" /\ phase' = "flushed" /\ batch = cupti
    PROVE  ObserverInv'
  <1> USE DEF ObserverInv
  <1>1. UNCHANGED <<gpuVars, taken, live, live_n>> /\ cupti' = cupti \ batch
    BY DEF Deliver
  <1>2. GpuInv'
    BY <1>1 DEF GpuInv, Idle
  <1>3. DeliveryInv'
    BY <1>1, DeliverCounts DEF DeliveryInv
  <1>4. TableInv'
    BY <1>1, DeliverCounts DEF TableInv
  <1> QED BY <1>2, <1>3, <1>4

\* The slot that is named has counted nothing, and nothing was to be counted.
LEMMA NameSlotObserver ==
    ASSUME ObserverInv, NameSlot
    PROVE  ObserverInv'
  <1> USE DEF ObserverInv
  <1>1. /\ taken \in Slots /\ taken < live_n /\ phase = "tracking" /\ taken' = -1
        /\ live' = [live EXCEPT ![taken] = taken + 1]
        /\ UNCHANGED <<phase, gpuVars, cupti, rows, live_n, counts, dump>>
    BY DEF NameSlot, TableInv
  <1>2. GpuInv' /\ DeliveryInv'
    BY <1>1 DEF GpuInv, Idle, DeliveryInv
  <1>3. ASSUME NEW i \in Slots
        PROVE  counts'[i] = Cardinality(OnStream(rows, live[i]))'
    <2>1. Cardinality(OnStream(rows, live[i]))' = Cardinality(OnStream(rows, live'[i]))
      BY <1>1 DEF OnStream, Kernels
    <2>2. counts[i] = Cardinality(OnStream(rows, live[i]))
      BY DEF TableInv
    <2>3. CASE i # taken
      BY <1>1, <2>1, <2>2, <2>3 DEF TableInv
    <2>4. CASE i = taken
      <3>1. live'[i] = i + 1 /\ i \in Nat
        BY <1>1, <2>4 DEF TableInv, Slots
      <3>2. live[i] \in {Unnamed, i + 1}
        BY DEF TableInv
      <3>3. \A r \in rows : r.stream # live'[i] /\ r.stream # live[i]
        <4>1. \A r \in rows : r.stream = 0
          BY <1>1 DEF DeliveryInv, DefaultStream
        <4> QED BY <3>1, <3>2, <4>1 DEF Unnamed
      <3>4. /\ Cardinality(OnStream(rows, live'[i])) = 0
            /\ Cardinality(OnStream(rows, live[i])) = 0
        BY <3>3, OnNoStream
      <3> QED BY <1>1, <2>1, <2>2, <3>4
    <2> QED BY <2>3, <2>4
  <1>4. TableInv'
    BY <1>1, <1>3 DEF TableInv, Slots
  <1> QED BY <1>2, <1>4

LEMMA NextObserver == ObserverInv /\ [Next]_vars => ObserverInv'
  <1> SUFFICES ASSUME ObserverInv, [Next]_vars PROVE ObserverInv'
    OBVIOUS
  <1> USE DEF ObserverInv
  <1>1. CASE \E s \in Stream, kind \in IssueKinds : Replay(s, kind)
    BY <1>1, ReplayObserver
  <1>2. CASE LaunchElsewhere("main") \/ LaunchElsewhere("client")
    BY <1>2, ElsewhereObserver
  <1>3. CASE \E s \in Stream \cup {DefaultStream} : Complete(s)
    BY <1>3, CompleteObserver DEF Streams
  <1>4. CASE FlushSome
    BY <1>4, DeliverObserver DEF FlushSome
  <1>5. CASE TakeSlot
    <2>1. GpuInv' /\ DeliveryInv'
      BY <1>5 DEF TakeSlot, GpuInv, Idle, DeliveryInv
    <2>2. TableInv'
      BY <1>5 DEF TakeSlot, TableInv, Slots, OnStream, Kernels
    <2> QED BY <2>1, <2>2
  <1>6. CASE NameSlot
    BY <1>6, NameSlotObserver
  <1>7. CASE ForceFlush
    <2>1. PICK batch \in SUBSET cupti : batch = cupti
      OBVIOUS
    <2> QED BY <1>7, <2>1, DeliverObserver DEF ForceFlush
  <1>8. CASE WriteFiles
    <2>1. GpuInv' /\ DeliveryInv'
      BY <1>8 DEF WriteFiles, GpuInv, Idle, DeliveryInv
    <2>2. TableInv'
      BY <1>8 DEF WriteFiles, TableInv, OnStream, Kernels
    <2> QED BY <2>1, <2>2
  <1>9. CASE NextPhase
    <2>1. GpuInv' /\ DeliveryInv'
      BY <1>9 DEF NextPhase, GpuInv, Idle, DeliveryInv
    <2>2. TableInv'
      BY <1>9 DEF NextPhase, TableInv, OnStream, Kernels
    <2> QED BY <2>1, <2>2
  <1>10. CASE UNCHANGED vars
    <2>1. GpuInv' /\ DeliveryInv'
      BY <1>10 DEF GpuInv, Idle, DeliveryInv
    <2>2. TableInv'
      BY <1>10 DEF TableInv, OnStream, Kernels
    <2> QED BY <2>1, <2>2
  <1> QED BY <1>1, <1>2, <1>3, <1>4, <1>5, <1>6, <1>7, <1>8, <1>9, <1>10 DEF Next, Dumped

(***************************************************************************)
(* The theorems                                                            *)
(***************************************************************************)
\* What is known of the GPU, of CUPTI's records and of the live table.
THEOREM ObserverInductive == Spec => []ObserverInv
  BY InitObserver, NextObserver, PTL DEF Spec

\* The live counter of a named slot is the number of kernels delivered on its
\* stream, in whatever order tracking, completion and delivery go on.
THEOREM CountersExact == Spec => []LiveCountsDelivered
  <1>1. ObserverInv => LiveCountsDelivered
    BY DEF ObserverInv, TableInv, LiveCountsDelivered
  <1> QED BY <1>1, ObserverInductive, PTL

\* The files of obs_dump hold a record of every completion.
THEOREM DumpsAreComplete == Spec => []DumpIsComplete
  <1>1. ASSUME ObserverInv PROVE DumpIsComplete
    <2> SUFFICES ASSUME phase = "dumped" PROVE {r.end : r \in dump} = 1 .. end /\ Idle
      BY DEF DumpIsComplete
    <2>1. dump = rows \cup cupti /\ Idle
      BY <1>1 DEF ObserverInv, DeliveryInv, GpuInv
    <2> QED BY <1>1, <2>1 DEF ObserverInv, DeliveryInv
  <1> QED BY <1>1, ObserverInductive, PTL

(***************************************************************************)
(* Correlation ids                                                         *)
(***************************************************************************)
Recorded == rows \cup cupti
Waiting(s) == 1 .. Len(fifo[s])
Activities == Recorded \cup UNION {{fifo[s][k] : k \in Waiting(s)} : s \in Streams}

\* The ids of the calls in the log: `first` gives the one a row's call has.
LogInv(first) ==
    /\ first \in Seq(Nat) /\ Len(first) = Len(issue)
    /\ \A i \in DOMAIN issue : first[i] \in 1 .. corr
    /\ \A i, j \in DOMAIN issue : i < j => first[i] < first[j]

\* Of RUNTIME records, all copies and none but the scheduler's.
RuntimeInv(first) ==
    /\ \A r \in runtime : r = Runtime(r.corr, r.kind, r.tid) /\ r.corr \in 1 .. corr
    /\ \A r \in runtime : r.kind = "cudaMemcpyAsync" =>
          r.tid = "sched" /\ \E i \in DOMAIN issue : issue[i].kind = r.kind /\ r.corr = first[i]
    /\ \A i \in DOMAIN issue : issue[i].kind = "cudaMemcpyAsync" =>
          Runtime(first[i], "cudaMemcpyAsync", "sched") \in runtime

\* Activity x has the id of the call that caused it, its partner the next;
\* without one it is of no row.
CausedBy(first, x) ==
    /\ x.corr \in 1 .. corr
    /\ x.row # 0 =>
          /\ x.row \in DOMAIN issue /\ issue[x.row].ok /\ x.from = "sched"
          /\ x.stream = issue[x.row].stream
          /\ x.what = IF issue[x.row].kind = "cudaMemcpyAsync" THEN "memcpy" ELSE "kernel"
          /\ x.partner => issue[x.row].kind = "cublasGemmEx"
          /\ x.corr = first[x.row] + (IF x.partner THEN 1 ELSE 0)
          /\ \A j \in DOMAIN issue : x.row < j => x.corr < first[j]
    /\ x.row = 0 => x.what = "kernel" /\ ~x.partner /\ x.from # "sched"
                    /\ \A i \in DOMAIN issue : first[i] # x.corr
    /\ \A r \in runtime : r.corr = x.corr => r.tid = x.from
    /\ x.row = 0 /\ ~DriverLaunches =>
          \E r \in runtime : r.corr = x.corr /\ r.kind = "cudaLaunchKernel" /\ r.tid = x.from

CausedInv(first) ==
    /\ \A x \in Activities : CausedBy(first, x)
    /\ \A i \in DOMAIN issue : issue[i].ok => \E x \in Activities : x.row = i /\ ~x.partner

\* An id is of one activity, and a stream executes in the order of the ids.
OrderInv ==
    /\ \A x, y \in Recorded : x.corr = y.corr => x = y
    /\ \A x, y \in Recorded : x.stream = y.stream /\ x.corr < y.corr => x.end < y.end
    /\ \A s \in Streams : \A k, l \in Waiting(s) : k < l => fifo[s][k].corr < fifo[s][l].corr
    /\ \A s, t \in Streams : \A k \in Waiting(s), l \in Waiting(t) :
          fifo[s][k].corr = fifo[t][l].corr => s = t
    /\ \A x \in Recorded, s \in Streams : \A k \in Waiting(s) :
          x.corr # fifo[s][k].corr /\ (x.stream = s => x.corr < fifo[s][k].corr)

CorrelationInv == OrderInv /\ \E first : LogInv(first) /\ RuntimeInv(first) /\ CausedInv(first)

LEMMA InitCorrelation == Init => CorrelationInv
  <1> SUFFICES ASSUME Init PROVE CorrelationInv
    OBVIOUS
  <1>1. Recorded = {} /\ runtime = {} /\ issue = <<>> /\ \A s \in Streams : fifo[s] = <<>>
    BY DEF Init, Recorded, Streams
  <1>2. Activities = {} /\ \A s \in Streams : Waiting(s) = {}
    BY <1>1 DEF Activities, Waiting
  <1>3. OrderInv
    BY <1>1, <1>2 DEF OrderInv
  <1>4. PICK first : first = <<>>
    OBVIOUS
  <1>5. LogInv(first)
    BY <1>1, <1>4 DEF LogInv
  <1>6. RuntimeInv(first) /\ CausedInv(first)
    BY <1>1, <1>2 DEF RuntimeInv, CausedInv
  <1> QED BY <1>3, <1>5, <1>6 DEF CorrelationInv

\* What was caused by a call stays so when other calls have followed.
LEMMA CausedKept ==
    ASSUME corr \in Nat, corr' \in Nat, corr <= corr', issue \in Seq([stream : Stream, kind : IssueKinds, ok : BOOLEAN]),
           NEW first, NEW later, NEW x, CausedBy(first, x),
           \A i \in DOMAIN issue : i \in DOMAIN issue' /\ issue'[i] = issue[i] /\ later[i] = first[i],
           \A i \in DOMAIN issue' : i \in DOMAIN issue \/ (later[i] \in Nat /\ corr < later[i]),
           runtime \subseteq runtime', \A r \in runtime' \ runtime : r.corr \in Nat /\ corr < r.corr
    PROVE  CausedBy(later, x)'
  <1>1. x.corr \in 1 .. corr /\ x.corr \in 1 .. corr'
    BY DEF CausedBy
  <1>2. \A r \in runtime' : r.corr = x.corr => r \in runtime
    BY <1>1
  <1>3. ASSUME x.row # 0, NEW j \in DOMAIN issue', x.row < j PROVE x.corr < later[j]
    BY <1>1, <1>3 DEF CausedBy
  <1>4. ASSUME x.row = 0, NEW j \in DOMAIN issue' PROVE later[j] # x.corr
    BY <1>1, <1>4 DEF CausedBy
  <1>5. x.row # 0 => x.row \in DOMAIN issue' /\ issue'[x.row] = issue[x.row] /\ later[x.row] = first[x.row]
    BY DEF CausedBy
  <1> QED BY <1>1, <1>2, <1>3, <1>4, <1>5 DEF CausedBy

\* The streams after a launch.
LEMMA LaunchPlaces ==
    ASSUME ObserverInv, NEW s \in Streams, NEW ops \in Seq(Operation(s)),
           fifo' = [fifo EXCEPT ![s] = @ \o ops], NEW t \in Streams
    PROVE  /\ \A k \in Waiting(t) : k \in Waiting(t)' /\ fifo'[t][k] = fifo[t][k]
           /\ \A k \in Waiting(t)' :
                 \/ k \in Waiting(t) /\ fifo'[t][k] = fifo[t][k]
                 \/ /\ t = s /\ k - Len(fifo[t]) \in 1 .. Len(ops) /\ Len(fifo[t]) < k
                    /\ fifo'[t][k] = ops[k - Len(fifo[t])]
  <1>1. fifo[t] \in Seq(Operation(t)) /\ fifo[s] \in Seq(Operation(s)) /\ DOMAIN fifo = Streams
    BY DEF ObserverInv, GpuInv
  <1>2. CASE t = s
    <2>1. fifo'[t] = fifo[t] \o ops
      BY <1>1, <1>2
    <2>2. /\ Len(fifo'[t]) = Len(fifo[t]) + Len(ops) /\ Len(fifo[t]) \in Nat /\ Len(ops) \in Nat
          /\ \A k \in 1 .. Len(fifo[t]) : fifo'[t][k] = fifo[t][k]
          /\ \A k \in 1 .. Len(ops) : fifo'[t][Len(fifo[t]) + k] = ops[k]
          /\ \A k \in Len(fifo[t]) + 1 .. Len(fifo[t]) + Len(ops) : fifo'[t][k] = ops[k - Len(fifo[t])]
      BY <1>1, <1>2, <2>1
    <2> QED BY <1>2, <2>2 DEF Waiting
  <1>3. CASE t # s
    BY <1>1, <1>3 DEF Waiting
  <1> QED BY <1>2, <1>3

LEMMA LaunchActivities ==
    ASSUME ObserverInv, NEW s \in Streams, NEW ops \in Seq(Operation(s)),
           fifo' = [fifo EXCEPT ![s] = @ \o ops], UNCHANGED <<rows, cupti>>
    PROVE  Activities' = Activities \cup {ops[k] : k \in 1 .. Len(ops)}
  <1>1. Recorded' = Recorded
    BY DEF Recorded
  <1>2. ASSUME NEW x \in Activities' PROVE x \in Activities \cup {ops[k] : k \in 1 .. Len(ops)}
    <2>1. CASE x \in Recorded
      BY <2>1 DEF Activities
    <2>2. CASE x \notin Recorded
      <3>1. PICK t \in Streams : \E k \in Waiting(t)' : x = fifo'[t][k]
        BY <1>1, <1>2, <2>2 DEF Activities
      <3>2. PICK k \in Waiting(t)' : x = fifo'[t][k]
        BY <3>1
      <3> QED BY <3>2, LaunchPlaces DEF Activities, Waiting
    <2> QED BY <2>1, <2>2
  <1>3. ASSUME NEW x \in Activities PROVE x \in Activities'
    <2>1. CASE x \in Recorded
      BY <1>1, <2>1 DEF Activities
    <2>2. CASE x \notin Recorded
      <3>1. PICK t \in Streams : \E k \in Waiting(t) : x = fifo[t][k]
        BY <1>3, <2>2 DEF Activities
      <3>2. PICK k \in Waiting(t) : x = fifo[t][k]
        BY <3>1
      <3>3. k \in Waiting(t)' /\ x = fifo'[t][k]
        BY <3>2, LaunchPlaces DEF Waiting
      <3> QED BY <3>3 DEF Activities, Waiting
    <2> QED BY <2>1, <2>2
  <1>4. ASSUME NEW k \in 1 .. Len(ops) PROVE ops[k] \in Activities'
    <2>1. PICK m : m = Len(fifo[s]) + k
      OBVIOUS
    <2>2. m \in 1 .. Len(fifo'[s]) /\ fifo'[s][m] = ops[k]
      <3>1. fifo[s] \in Seq(Operation(s)) /\ fifo'[s] = fifo[s] \o ops
        BY DEF ObserverInv, GpuInv
      <3> QED BY <2>1, <3>1
    <2> QED BY <2>2 DEF Activities, Waiting
  <1> QED BY <1>2, <1>3, <1>4
LEMMA LaunchOrder ==
    ASSUME ObserverInv, NEW first, CausedInv(first), OrderInv,
           NEW s \in Streams, NEW ops \in Seq(Operation(s)),
           fifo' = [fifo EXCEPT ![s] = @ \o ops], UNCHANGED <<rows, cupti>>,
           \A k \in 1 .. Len(ops) : corr < ops[k].corr,
           \A k, l \in 1 .. Len(ops) : k < l => ops[k].corr < ops[l].corr
    PROVE  OrderInv'
  <1>0. corr \in Nat /\ Len(fifo[s]) \in Nat /\ \A k \in 1 .. Len(ops) : ops[k].corr \in Nat
    <2>1. corr \in Nat /\ fifo[s] \in Seq(Operation(s))
      BY DEF ObserverInv, GpuInv
    <2>2. ASSUME NEW k \in 1 .. Len(ops) PROVE ops[k].corr \in Nat
      <3>1. ops[k] \in Operation(s)
        OBVIOUS
      <3> QED BY <3>1 DEF Operation
    <2> QED BY <2>1, <2>2
  <1>1. Recorded' = Recorded
    BY DEF Recorded
  <1>2. ASSUME NEW x \in Recorded PROVE x.corr \in Nat /\ x.corr <= corr
    BY <1>0 DEF CausedInv, CausedBy, Activities
  <1>3. ASSUME NEW t \in Streams, NEW k \in 1 .. Len(fifo[t])
        PROVE  fifo[t][k].corr \in Nat /\ fifo[t][k].corr <= corr
    <2>1. fifo[t][k] \in Activities
      BY DEF Activities, Waiting
    <2> QED BY <1>0, <2>1 DEF CausedInv, CausedBy
  <1>4. ASSUME NEW t \in Streams, NEW k \in 1 .. Len(fifo'[t])
        PROVE  \/ k \in 1 .. Len(fifo[t]) /\ fifo'[t][k] = fifo[t][k]
               \/ /\ t = s /\ k - Len(fifo[t]) \in 1 .. Len(ops) /\ Len(fifo[t]) < k
                  /\ fifo'[t][k] = ops[k - Len(fifo[t])]
    BY LaunchPlaces DEF Waiting
  <1>5. ASSUME NEW t \in Streams, NEW k \in 1 .. Len(fifo'[t]), NEW l \in 1 .. Len(fifo'[t]), k < l
        PROVE  fifo'[t][k].corr < fifo'[t][l].corr
    <2>1. CASE l \in 1 .. Len(fifo[t]) /\ fifo'[t][l] = fifo[t][l]
      <3>1. k \in 1 .. Len(fifo[t]) /\ fifo'[t][k] = fifo[t][k]
        BY <1>4, <1>5, <2>1
      <3> QED BY <1>5, <2>1, <3>1 DEF OrderInv, Waiting
    <2>2. CASE /\ t = s /\ l - Len(fifo[t]) \in 1 .. Len(ops)
               /\ fifo'[t][l] = ops[l - Len(fifo[t])]
      <3>1. CASE k \in 1 .. Len(fifo[t]) /\ fifo'[t][k] = fifo[t][k]
        BY <1>0, <1>3, <2>2, <3>1
      <3>2. CASE k - Len(fifo[t]) \in 1 .. Len(ops) /\ fifo'[t][k] = ops[k - Len(fifo[t])]
        <4>1. k - Len(fifo[t]) < l - Len(fifo[t])
          BY <1>0, <1>5, <2>2
        <4> QED BY <2>2, <3>2, <4>1
      <3> QED BY <1>4, <3>1, <3>2
    <2> QED BY <1>4, <2>1, <2>2
  <1>6. ASSUME NEW t \in Streams, NEW u \in Streams, t # u,
               NEW k \in 1 .. Len(fifo'[t]), NEW l \in 1 .. Len(fifo'[u])
        PROVE  fifo'[t][k].corr # fifo'[u][l].corr
    <2>1. CASE t = s
      <3>1. l \in 1 .. Len(fifo[u]) /\ fifo'[u][l] = fifo[u][l]
        BY <1>4, <1>6, <2>1
      <3>2. CASE k \in 1 .. Len(fifo[t]) /\ fifo'[t][k] = fifo[t][k]
        BY <1>6, <3>1, <3>2 DEF OrderInv, Waiting
      <3>3. CASE k - Len(fifo[t]) \in 1 .. Len(ops) /\ fifo'[t][k] = ops[k - Len(fifo[t])]
        <4>1. corr < fifo'[t][k].corr /\ fifo'[t][k].corr \in Nat
          BY <1>0, <3>3
        <4>2. fifo'[u][l].corr \in Nat /\ fifo'[u][l].corr <= corr
          BY <1>3, <3>1
        <4>3. \A a, b \in Nat : corr < a /\ b <= corr => a # b
          BY <1>0
        <4> QED BY <4>1, <4>2, <4>3
      <3> QED BY <1>4, <3>2, <3>3
    <2>2. CASE t # s
      <3>1. k \in 1 .. Len(fifo[t]) /\ fifo'[t][k] = fifo[t][k]
        BY <1>4, <2>2
      <3>2. CASE l \in 1 .. Len(fifo[u]) /\ fifo'[u][l] = fifo[u][l]
        BY <1>6, <3>1, <3>2 DEF OrderInv, Waiting
      <3>3. CASE l - Len(fifo[u]) \in 1 .. Len(ops) /\ fifo'[u][l] = ops[l - Len(fifo[u])]
        <4>1. corr < fifo'[u][l].corr /\ fifo'[u][l].corr \in Nat
          BY <1>0, <3>3
        <4>2. fifo'[t][k].corr \in Nat /\ fifo'[t][k].corr <= corr
          BY <1>3, <3>1
        <4>3. \A a, b \in Nat : corr < a /\ b <= corr => a # b
          BY <1>0
        <4> QED BY <4>1, <4>2, <4>3
      <3> QED BY <1>4, <3>2, <3>3
    <2> QED BY <2>1, <2>2
  <1>7. ASSUME NEW x \in Recorded, NEW t \in Streams, NEW k \in 1 .. Len(fifo'[t])
        PROVE  x.corr # fifo'[t][k].corr /\ (x.stream = t => x.corr < fifo'[t][k].corr)
    <2>1. CASE k \in 1 .. Len(fifo[t]) /\ fifo'[t][k] = fifo[t][k]
      BY <2>1 DEF OrderInv, Waiting
    <2>2. CASE k - Len(fifo[t]) \in 1 .. Len(ops) /\ fifo'[t][k] = ops[k - Len(fifo[t])] /\ t = s
      BY <1>0, <1>2, <2>2
    <2> QED BY <1>4, <2>1, <2>2
  <1>8. /\ \A x, y \in Recorded : x.corr = y.corr => x = y
        /\ \A x, y \in Recorded : x.stream = y.stream /\ x.corr < y.corr => x.end < y.end
    BY DEF OrderInv
  <1> QED BY <1>1, <1>5, <1>6, <1>7, <1>8, SMTT(40) DEF OrderInv, Waiting

\* A launch: the ids of what it puts on the stream are new.
LEMMA LaunchCorrelation ==
    ASSUME ObserverInv, NEW first, LogInv(first), CausedInv(first), OrderInv,
           NEW s \in Streams, NEW ops \in Seq(Operation(s)),
           fifo' = [fifo EXCEPT ![s] = @ \o ops], UNCHANGED <<rows, cupti>>,
           corr' \in Nat, corr <= corr',
           \A k \in 1 .. Len(ops) : corr < ops[k].corr,
           \A k, l \in 1 .. Len(ops) : k < l => ops[k].corr < ops[l].corr,
           NEW later, LogInv(later)', RuntimeInv(later)',
           \A i \in DOMAIN issue : i \in DOMAIN issue' /\ issue'[i] = issue[i] /\ later[i] = first[i],
           \A i \in DOMAIN issue' : i \in DOMAIN issue \/ (later[i] \in Nat /\ corr < later[i]),
           runtime \subseteq runtime', \A r \in runtime' \ runtime : r.corr \in Nat /\ corr < r.corr,
           \A k \in 1 .. Len(ops) : CausedBy(later, ops[k])',
           \A i \in DOMAIN issue' \ DOMAIN issue : issue'[i].ok =>
              \E k \in 1 .. Len(ops) : ops[k].row = i /\ ~ops[k].partner
    PROVE  CorrelationInv'
  <1>1. OrderInv'
    BY LaunchOrder
  <1>2. Activities' = Activities \cup {ops[k] : k \in 1 .. Len(ops)}
    BY LaunchActivities
  <1>3. corr \in Nat /\ issue \in Seq([stream : Stream, kind : IssueKinds, ok : BOOLEAN])
    BY DEF ObserverInv, GpuInv
  <1>4. ASSUME NEW x \in Activities PROVE CausedBy(later, x)'
    <2>1. CausedBy(first, x)
      BY DEF CausedInv
    <2> QED BY <1>3, <2>1, CausedKept
  <1>5. \A x \in Activities' : CausedBy(later, x)'
    BY <1>2, <1>4
  <1>6. ASSUME NEW i \in DOMAIN issue', issue'[i].ok
        PROVE  \E x \in Activities' : x.row = i /\ ~x.partner
    BY <1>2, <1>6 DEF CausedInv
  <1>7. CausedInv(later)'
    BY <1>5, <1>6 DEF CausedInv
  <1> QED BY <1>1, <1>7 DEF CorrelationInv

\* What a launch puts on its stream, activity by activity.
LEMMA EffectsLength ==
    ASSUME NEW kind, NEW s, NEW partners \in {0, 1}
    PROVE  Len(Effects(kind, s, partners)) = 1 + partners
  <1>1. PICK what : what = IF kind = "cudaMemcpyAsync" THEN "memcpy" ELSE "kernel"
    OBVIOUS
  <1>2. Effects(kind, s, partners) =
          [i \in 1 .. 1 + partners |-> Activity(what, corr + i, s, i > 1, Len(issue) + 1, "sched")]
    BY <1>1 DEF Effects
  <1> QED BY <1>2

LEMMA EffectsParts ==
    ASSUME GpuInv, NEW kind \in IssueKinds, NEW s \in Stream, NEW partners \in {0, 1}, NEW ops,
           ops = Effects(kind, s, partners)
    PROVE  /\ ops \in Seq(Operation(s)) /\ Len(ops) = 1 + partners
           /\ \A k \in 1 .. Len(ops) :
                 /\ ops[k].corr = corr + k /\ ops[k].row = Len(issue) + 1 /\ ops[k].from = "sched"
                 /\ ops[k].stream = s /\ (ops[k].partner <=> k > 1)
                 /\ ops[k].what = IF kind = "cudaMemcpyAsync" THEN "memcpy" ELSE "kernel"
  <1>1. ops \in Seq(Operation(s))
    BY EffectsType
  <1>2. PICK what : what = IF kind = "cudaMemcpyAsync" THEN "memcpy" ELSE "kernel"
    OBVIOUS
  <1>3. ops = [i \in 1 .. 1 + partners |-> Activity(what, corr + i, s, i > 1, Len(issue) + 1, "sched")]
    BY <1>2 DEF Effects
  <1>4. Len(ops) = 1 + partners
    <2>1. DOMAIN ops = 1 .. 1 + partners /\ DOMAIN ops = 1 .. Len(ops) /\ Len(ops) \in Nat
      BY <1>1, <1>3
    <2> QED BY <2>1
  <1>5. ASSUME NEW k \in 1 .. Len(ops)
        PROVE  ops[k] = Activity(what, corr + k, s, k > 1, Len(issue) + 1, "sched")
    BY <1>3, <1>4
  <1>6. ASSUME NEW k \in 1 .. Len(ops)
        PROVE  /\ ops[k].corr = corr + k /\ ops[k].row = Len(issue) + 1 /\ ops[k].from = "sched"
               /\ ops[k].stream = s /\ (ops[k].partner <=> k > 1) /\ ops[k].what = what
    <2>1. PICK partner : partner = (k > 1)
      OBVIOUS
    <2>2. ops[k] = Activity(what, corr + k, s, partner, Len(issue) + 1, "sched")
      BY <1>5, <2>1
    <2>3. /\ ops[k].corr = corr + k /\ ops[k].row = Len(issue) + 1 /\ ops[k].from = "sched"
          /\ ops[k].stream = s /\ ops[k].partner = partner /\ ops[k].what = what
      BY <2>2 DEF Activity
    <2> QED BY <2>1, <2>3
  <1> QED BY <1>1, <1>2, <1>4, <1>6

LEMMA ReplayCorrelation ==
    ASSUME ObserverInv, CorrelationInv, NEW s \in Stream, NEW kind \in IssueKinds, Replay(s, kind)
    PROVE  CorrelationInv'
  <1>1. PICK first : LogInv(first) /\ RuntimeInv(first) /\ CausedInv(first)
    BY DEF CorrelationInv
  <1>2. PICK ok \in BOOLEAN, partners \in {0, 1}, seen \in BOOLEAN :
           /\ partners = 1 => kind = "cublasGemmEx" /\ ok
           /\ kind # "cublasGemmEx" => seen
           /\ issue' = Append(issue, [stream |-> s, kind |-> kind, ok |-> ok])
           /\ corr' = corr + 1 + partners
           /\ fifo' = IF ok THEN [fifo EXCEPT ![s] = @ \o Effects(kind, s, partners)] ELSE fifo
           /\ runtime' = IF seen THEN runtime \cup {Runtime(c, kind, "sched") : c \in corr + 1 .. corr'}
                         ELSE runtime
    <2>1. PICK ok \in IF Failures THEN BOOLEAN ELSE {TRUE},
               partners \in IF kind = "cublasGemmEx" THEN {0, 1} ELSE {0},
               seen \in IF kind = "cublasGemmEx" THEN BOOLEAN ELSE {TRUE} :
             /\ ok \/ partners = 0
             /\ issue' = Append(issue, [stream |-> s, kind |-> kind, ok |-> ok])
             /\ corr' = corr + 1 + partners
             /\ fifo' = IF ok THEN [fifo EXCEPT ![s] = @ \o Effects(kind, s, partners)] ELSE fifo
             /\ runtime' = IF seen THEN runtime \cup {Runtime(c, kind, "sched") : c \in corr + 1 .. corr'}
                           ELSE runtime
      BY DEF Replay
    <2>2. ok \in BOOLEAN /\ partners \in {0, 1} /\ seen \in BOOLEAN
      OBVIOUS
    <2>3. (partners = 1 => kind = "cublasGemmEx" /\ ok) /\ (kind # "cublasGemmEx" => seen)
      <3>1. CASE kind = "cublasGemmEx"
        BY <2>1, <3>1
      <3>2. CASE kind # "cublasGemmEx"
        <4>1. partners \in {0} /\ seen \in {TRUE}
          BY <3>2
        <4> QED BY <3>2, <4>1
      <3> QED BY <3>1, <3>2
    <2> QED BY <2>1, <2>2, <2>3
  <1>3. PICK ops \in Seq(Operation(s)) : ops = IF ok THEN Effects(kind, s, partners) ELSE <<>>
    <2>1. Effects(kind, s, partners) \in Seq(Operation(s))
      BY EffectsType DEF ObserverInv
    <2>2. <<>> \in Seq(Operation(s))
      OBVIOUS
    <2> QED BY <2>1, <2>2
  <1>4. /\ corr \in Nat /\ corr' \in Nat /\ corr < corr' /\ Len(issue) \in Nat
        /\ issue \in Seq([stream : Stream, kind : IssueKinds, ok : BOOLEAN])
    BY <1>2 DEF ObserverInv, GpuInv
  <1>5. s \in Streams /\ fifo[s] \in Seq(Operation(s)) /\ DOMAIN fifo = Streams
    BY StreamFacts DEF ObserverInv, GpuInv
  <1>6. fifo' = [fifo EXCEPT ![s] = @ \o ops]
    <2>1. CASE ok
      BY <1>2, <1>3, <2>1
    <2>2. CASE ~ok
      <3>1. ops = <<>> /\ fifo' = fifo
        BY <1>2, <1>3, <2>2
      <3>2. fifo[s] \o ops = fifo[s]
        BY <1>5, <3>1
      <3>3. [fifo EXCEPT ![s] = fifo[s]] = fifo
        BY <1>5 DEF ObserverInv, GpuInv
      <3> QED BY <3>1, <3>2, <3>3
    <2> QED BY <2>1, <2>2
  <1>7. PICK n : n = Len(issue) + 1
    OBVIOUS
  <1>8. /\ n \in Nat /\ n \notin DOMAIN issue /\ DOMAIN issue' = DOMAIN issue \cup {n}
        /\ issue'[n] = [stream |-> s, kind |-> kind, ok |-> ok] /\ Len(issue') = n
        /\ \A i \in DOMAIN issue : issue'[i] = issue[i] /\ i \in Nat /\ i < n
    BY <1>2, <1>4, <1>7
  <1>9. PICK later : later = Append(first, corr + 1)
    OBVIOUS
  <1>10. /\ later \in Seq(Nat) /\ Len(later) = n /\ later[n] = corr + 1
         /\ \A i \in DOMAIN issue : later[i] = first[i] /\ first[i] \in 1 .. corr
    BY <1>1, <1>4, <1>7, <1>9 DEF LogInv
  <1>11. LogInv(later)'
    <2>1. ASSUME NEW i \in DOMAIN issue' PROVE later[i] \in 1 .. corr'
      <3>1. CASE i \in DOMAIN issue
        BY <1>4, <1>10, <3>1
      <3>2. CASE i = n
        BY <1>4, <1>10, <3>2
      <3> QED BY <1>8, <3>1, <3>2
    <2>2. ASSUME NEW i \in DOMAIN issue', NEW j \in DOMAIN issue', i < j
          PROVE  later[i] < later[j]
      <3>1. CASE j \in DOMAIN issue
        <4>1. i \in DOMAIN issue
          BY <1>8, <2>2, <3>1
        <4> QED BY <1>1, <1>10, <2>2, <3>1, <4>1 DEF LogInv
      <3>2. CASE j = n
        <4>1. i \in DOMAIN issue
          BY <1>8, <2>2, <3>2
        <4> QED BY <1>4, <1>10, <3>2, <4>1
      <3> QED BY <1>8, <3>1, <3>2
    <2> QED BY <1>8, <1>10, <2>1, <2>2 DEF LogInv
  <1>12. /\ runtime \subseteq runtime'
         /\ \A r \in runtime' \ runtime :
               /\ r = Runtime(r.corr, r.kind, r.tid) /\ r.kind = kind /\ r.tid = "sched"
               /\ r.corr \in corr + 1 .. corr' /\ r.corr \in Nat /\ corr < r.corr
    <2>1. ASSUME NEW r \in runtime' \ runtime
          PROVE  \E c \in corr + 1 .. corr' : r = Runtime(c, kind, "sched")
      BY <1>2
    <2>2. ASSUME NEW c \in corr + 1 .. corr', NEW r, r = Runtime(c, kind, "sched")
          PROVE  /\ r = Runtime(r.corr, r.kind, r.tid) /\ r.kind = kind /\ r.tid = "sched"
                 /\ r.corr \in corr + 1 .. corr' /\ r.corr \in Nat /\ corr < r.corr
      <3>1. r.corr = c /\ r.kind = kind /\ r.tid = "sched"
        BY <2>2 DEF Runtime
      <3> QED BY <1>4, <2>2, <3>1
    <2> QED BY <1>2, <2>1, <2>2
  <1>13. RuntimeInv(later)'
    <2>1. ASSUME NEW r \in runtime'
          PROVE  r = Runtime(r.corr, r.kind, r.tid) /\ r.corr \in 1 .. corr'
      <3>1. CASE r \in runtime
        BY <1>1, <1>4, <3>1 DEF RuntimeInv
      <3>2. CASE r \notin runtime
        BY <1>4, <1>12, <3>2
      <3> QED BY <3>1, <3>2
    <2>2. ASSUME NEW r \in runtime', r.kind = "cudaMemcpyAsync"
          PROVE  r.tid = "sched" /\ \E i \in DOMAIN issue' : issue'[i].kind = r.kind /\ r.corr = later[i]
      <3>1. CASE r \in runtime
        BY <1>1, <1>8, <1>10, <2>2, <3>1 DEF RuntimeInv
      <3>2. CASE r \notin runtime
        <4>1. r.tid = "sched" /\ kind = "cudaMemcpyAsync" /\ r.corr \in corr + 1 .. corr'
          BY <1>12, <2>2, <3>2
        <4>2. corr' = corr + 1
          BY <1>2, <1>4, <4>1
        <4>3. r.corr = later[n]
          BY <1>4, <1>10, <4>1, <4>2
        <4> QED BY <1>8, <2>2, <4>1, <4>3
      <3> QED BY <3>1, <3>2
    <2>3. ASSUME NEW i \in DOMAIN issue', issue'[i].kind = "cudaMemcpyAsync"
          PROVE  Runtime(later[i], "cudaMemcpyAsync", "sched") \in runtime'
      <3>1. CASE i \in DOMAIN issue
        BY <1>1, <1>8, <1>10, <1>12, <2>3, <3>1 DEF RuntimeInv
      <3>2. CASE i = n
        <4>1. kind = "cudaMemcpyAsync"
          BY <1>8, <2>3, <3>2
        <4>2. corr + 1 \in corr + 1 .. corr' /\ later[i] = corr + 1
          BY <1>4, <1>10, <3>2
        <4> QED BY <1>2, <4>1, <4>2
      <3> QED BY <1>8, <3>1, <3>2
    <2> QED BY <2>1, <2>2, <2>3 DEF RuntimeInv
  <1>14. ASSUME NEW k \in 1 .. Len(ops)
         PROVE  /\ k \in {1, 2} /\ ok /\ (k = 2 => kind = "cublasGemmEx") /\ k <= 1 + partners
                /\ ops[k].corr = corr + k /\ ops[k].row = n /\ ops[k].from = "sched"
                /\ ops[k].stream = s /\ (ops[k].partner <=> k > 1)
                /\ ops[k].what = IF kind = "cudaMemcpyAsync" THEN "memcpy" ELSE "kernel"
    <2>1. ok
      BY <1>3, <1>14
    <2>2. ops = Effects(kind, s, partners)
      BY <1>3, <2>1
    <2>3. /\ Len(ops) = 1 + partners
          /\ ops[k].corr = corr + k /\ ops[k].row = n /\ ops[k].from = "sched"
          /\ ops[k].stream = s /\ (ops[k].partner <=> k > 1)
          /\ ops[k].what = IF kind = "cudaMemcpyAsync" THEN "memcpy" ELSE "kernel"
      BY <1>7, <2>2, EffectsParts DEF ObserverInv
    <2>4. k \in {1, 2} /\ k <= 1 + partners /\ (k = 2 => partners = 1)
      BY <2>3
    <2> QED BY <1>2, <2>1, <2>3, <2>4
  <1>15. ASSUME NEW k \in 1 .. Len(ops) PROVE CausedBy(later, ops[k])'
    <2>1. PICK x : x = ops[k]
      OBVIOUS
    <2>2. /\ x.corr = corr + k /\ x.row = n /\ x.from = "sched" /\ x.stream = s
          /\ x.what = IF kind = "cudaMemcpyAsync" THEN "memcpy" ELSE "kernel"
          /\ x.partner => kind = "cublasGemmEx"
      BY <1>14, <2>1
    <2>3. x.corr \in 1 .. corr' /\ x.corr = later[n] + (IF x.partner THEN 1 ELSE 0)
      <3>1. k \in {1, 2} /\ k <= 1 + partners /\ (x.partner <=> k > 1)
        BY <1>14, <2>1
      <3>2. corr + k = corr + 1 + (IF x.partner THEN 1 ELSE 0)
        BY <1>4, <3>1
      <3> QED BY <1>2, <1>4, <1>10, <2>2, <3>1, <3>2, SMTT(40)
    <2>4. n # 0 /\ \A j \in DOMAIN issue' : ~(n < j)
      BY <1>4, <1>7, <1>8
    <2>5. ASSUME NEW r \in runtime', r.corr = x.corr PROVE r.tid = x.from
      <3>1. r \notin runtime
        BY <1>1, <1>4, <2>2, <2>5 DEF RuntimeInv
      <3> QED BY <1>12, <2>2, <3>1
    <2>6. n \in DOMAIN issue' /\ issue'[n].ok /\ issue'[n].stream = s /\ issue'[n].kind = kind
      BY <1>8, <1>14
    <2>7. CausedBy(later, x)'
      BY <2>2, <2>3, <2>4, <2>5, <2>6 DEF CausedBy
    <2> QED BY <2>1, <2>7
  <1>16. ASSUME NEW i \in DOMAIN issue' \ DOMAIN issue, issue'[i].ok
         PROVE  \E k \in 1 .. Len(ops) : ops[k].row = i /\ ~ops[k].partner
    <2>1. i = n /\ ok
      BY <1>8, <1>16
    <2>2. 1 \in 1 .. Len(ops)
      <3>1. Len(ops) = 1 + partners
        <4>1. ops = Effects(kind, s, partners)
          BY <1>3, <2>1
        <4> QED BY <4>1, EffectsLength
      <3> QED BY <3>1
    <2>3. ops[1].row = n /\ ~ops[1].partner
      BY <1>14, <2>2
    <2> QED BY <2>1, <2>2, <2>3
  <1>17. /\ \A k \in 1 .. Len(ops) : corr < ops[k].corr
         /\ \A k, l \in 1 .. Len(ops) : k < l => ops[k].corr < ops[l].corr
    BY <1>4, <1>14
  <1>18. /\ \A i \in DOMAIN issue : i \in DOMAIN issue' /\ issue'[i] = issue[i] /\ later[i] = first[i]
         /\ \A i \in DOMAIN issue' : i \in DOMAIN issue \/ (later[i] \in Nat /\ corr < later[i])
    <2>1. later[n] \in Nat /\ corr < later[n]
      BY <1>4, <1>10
    <2>2. ASSUME NEW i \in DOMAIN issue', i \notin DOMAIN issue
          PROVE  later[i] \in Nat /\ corr < later[i]
      <3>1. i = n
        BY <1>8, <2>2
      <3> QED BY <2>1, <3>1
    <2>3. \A i \in DOMAIN issue : i \in DOMAIN issue' /\ issue'[i] = issue[i] /\ later[i] = first[i]
      BY <1>8, <1>10
    <2>4. \A i \in DOMAIN issue' : i \in DOMAIN issue \/ (later[i] \in Nat /\ corr < later[i])
      BY <2>2
    <2> QED BY <2>3, <2>4
  <1>19. UNCHANGED <<rows, cupti>> /\ corr <= corr'
    BY <1>4 DEF Replay
  <1> QED BY <1>1, <1>4, <1>5, <1>6, <1>11, <1>12, <1>13, <1>15, <1>16, <1>17, <1>18, <1>19,
             LaunchCorrelation, ZenonT(60) DEF CorrelationInv

LEMMA ElsewhereCorrelation ==
    ASSUME ObserverInv, CorrelationInv, NEW tid \in {"main", "client"}, LaunchElsewhere(tid)
    PROVE  CorrelationInv'
  <1>1. PICK first : LogInv(first) /\ RuntimeInv(first) /\ CausedInv(first)
    BY DEF CorrelationInv
  <1>2. corr \in Nat /\ corr' = corr + 1 /\ UNCHANGED <<issue, rows, cupti>>
    BY DEF LaunchElsewhere, ObserverInv, GpuInv
  <1>3. PICK op \in Operation(DefaultStream) :
           op = Activity("kernel", corr + 1, DefaultStream, FALSE, 0, tid)
    <2>1. corr + 1 \in Nat
      BY <1>2
    <2> QED BY <2>1, ActivityType DEF ObserverInv
  <1>4. /\ op.corr = corr + 1 /\ op.row = 0 /\ op.from = tid /\ op.what = "kernel" /\ ~op.partner
    BY <1>3 DEF Activity
  <1>5. PICK ops : ops = <<op>>
    OBVIOUS
  <1>6. ops \in Seq(Operation(DefaultStream)) /\ Len(ops) = 1 /\ ops[1] = op
    BY <1>5
  <1>7. fifo' = [fifo EXCEPT ![DefaultStream] = @ \o ops] /\ DefaultStream \in Streams
    <2>1. fifo[DefaultStream] \in Seq(Operation(DefaultStream)) /\ DefaultStream \in Streams
      BY StreamFacts DEF ObserverInv, GpuInv
    <2>2. Append(fifo[DefaultStream], op) = fifo[DefaultStream] \o ops
      BY <1>5, <2>1
    <2> QED BY <1>3, <2>1, <2>2 DEF LaunchElsewhere
  <1>8. PICK r : r = Runtime(corr + 1, "cudaLaunchKernel", tid)
    OBVIOUS
  <1>9. /\ r = Runtime(r.corr, r.kind, r.tid) /\ r.corr = corr + 1
        /\ r.kind = "cudaLaunchKernel" /\ r.tid = tid
    BY <1>8 DEF Runtime
  <1>10. /\ runtime' = runtime \cup {r} \/ runtime' = runtime
         /\ ~DriverLaunches => r \in runtime'
    BY <1>8 DEF LaunchElsewhere
  <1>11. LogInv(first)'
    BY <1>1, <1>2 DEF LogInv
  <1>12. RuntimeInv(first)'
    <2>1. \A x \in runtime' : x = Runtime(x.corr, x.kind, x.tid) /\ x.corr \in 1 .. corr'
      BY <1>1, <1>2, <1>9, <1>10 DEF RuntimeInv
    <2>2. \A x \in runtime' : x.kind = "cudaMemcpyAsync" => x \in runtime
      BY <1>9, <1>10
    <2> QED BY <1>1, <1>2, <1>10, <2>1, <2>2 DEF RuntimeInv
  <1>13. \A x \in runtime' \ runtime : x.corr \in Nat /\ corr < x.corr /\ x.tid = tid
    BY <1>2, <1>9, <1>10
  <1>14. CausedBy(first, op)'
    <2>1. \A x \in runtime' : x.corr = op.corr => x.tid = op.from
      <3>1. \A x \in runtime : x.corr # op.corr
        BY <1>1, <1>2, <1>4 DEF RuntimeInv
      <3> QED BY <1>4, <1>13, <3>1
    <2>2. \A i \in DOMAIN issue' : first[i] # op.corr
      BY <1>1, <1>2, <1>4 DEF LogInv
    <2>3. ~DriverLaunches =>
             \E x \in runtime' : x.corr = op.corr /\ x.kind = "cudaLaunchKernel" /\ x.tid = op.from
      BY <1>4, <1>9, <1>10
    <2>4. op.corr \in 1 .. corr' /\ op.from # "sched"
      BY <1>2, <1>4
    <2> QED BY <1>4, <2>1, <2>2, <2>3, <2>4 DEF CausedBy
  <1>15. /\ \A k \in 1 .. Len(ops) : k = 1 /\ ops[k] = op
         /\ \A k \in 1 .. Len(ops) : corr < ops[k].corr
         /\ \A k, l \in 1 .. Len(ops) : k < l => ops[k].corr < ops[l].corr
    BY <1>2, <1>4, <1>6
  <1>16. \A k \in 1 .. Len(ops) : CausedBy(first, ops[k])'
    BY <1>14, <1>15
  <1>17. runtime \subseteq runtime' /\ corr' \in Nat /\ corr <= corr'
    BY <1>2, <1>10
  <1>18. /\ \A i \in DOMAIN issue : i \in DOMAIN issue' /\ issue'[i] = issue[i] /\ first[i] = first[i]
         /\ \A i \in DOMAIN issue' : i \in DOMAIN issue \/ (first[i] \in Nat /\ corr < first[i])
         /\ \A i \in DOMAIN issue' \ DOMAIN issue : issue'[i].ok =>
               \E k \in 1 .. Len(ops) : ops[k].row = i /\ ~ops[k].partner
    <2>1. DOMAIN issue' = DOMAIN issue /\ issue' = issue
      BY <1>2
    <2> QED BY <2>1
  <1>19. UNCHANGED <<rows, cupti>> /\ OrderInv
    BY <1>2 DEF CorrelationInv
  <1> QED BY <1>1, <1>6, <1>7, <1>11, <1>12, <1>13, <1>15, <1>16, <1>17, <1>18, <1>19,
             LaunchCorrelation
\* A completion: the stream's head leaves its record.
LEMMA CompletePlaces ==
    ASSUME ObserverInv, NEW s \in Streams, Complete(s)
    PROVE  \E op, r :
             /\ op \in Operation(s) /\ 1 \in 1 .. Len(fifo[s]) /\ fifo[s][1] = op /\ r = [op EXCEPT !.end = end + 1]
             /\ cupti' = cupti \cup {r}
             /\ \A t \in Streams : \A k \in 1 .. Len(fifo'[t]) :
                   IF t = s THEN k + 1 \in 1 .. Len(fifo[t]) /\ fifo'[t][k] = fifo[t][k + 1]
                            ELSE k \in 1 .. Len(fifo[t]) /\ fifo'[t][k] = fifo[t][k]
             /\ \A t \in Streams : \A k \in 1 .. Len(fifo[t]) :
                   \/ t = s /\ k = 1
                   \/ t = s /\ k - 1 \in 1 .. Len(fifo'[t]) /\ fifo'[t][k - 1] = fifo[t][k]
                   \/ t # s /\ k \in 1 .. Len(fifo'[t]) /\ fifo'[t][k] = fifo[t][k]
  <1>1. fifo[s] \in Seq(Operation(s)) /\ fifo[s] # <<>> /\ DOMAIN fifo = Streams
    BY DEF ObserverInv, GpuInv, Complete
  <1>2. PICK op \in Operation(s) : op = fifo[s][1] /\ op = Head(fifo[s]) /\ 1 \in 1 .. Len(fifo[s])
    BY <1>1
  <1>3. PICK r : r = [op EXCEPT !.end = end + 1]
    OBVIOUS
  <1>4. cupti' = cupti \cup {r} /\ fifo' = [fifo EXCEPT ![s] = Tail(@)]
    BY <1>2, <1>3 DEF Complete
  <1>5. /\ fifo'[s] = Tail(fifo[s]) /\ Len(fifo'[s]) = Len(fifo[s]) - 1 /\ Len(fifo[s]) \in Nat
        /\ \A k \in 1 .. Len(fifo[s]) - 1 : fifo'[s][k] = fifo[s][k + 1]
        /\ \A t \in Streams \ {s} : fifo'[t] = fifo[t]
    BY <1>1, <1>4
  <1>6. ASSUME NEW t \in Streams, NEW k \in 1 .. Len(fifo'[t])
        PROVE  IF t = s THEN k + 1 \in 1 .. Len(fifo[t]) /\ fifo'[t][k] = fifo[t][k + 1]
                        ELSE k \in 1 .. Len(fifo[t]) /\ fifo'[t][k] = fifo[t][k]
    <2>1. CASE t = s
      <3>1. k \in 1 .. Len(fifo'[s]) /\ k \in Nat
        BY <2>1
      <3>2. k \in 1 .. Len(fifo[s]) - 1
        BY <1>5, <3>1
      <3>3. k + 1 \in 1 .. Len(fifo[s])
        BY <1>5, <3>2
      <3> QED BY <1>5, <2>1, <3>2, <3>3
    <2>2. CASE t # s
      BY <1>5, <2>2
    <2> QED BY <2>1, <2>2
  <1>7. ASSUME NEW t \in Streams, NEW k \in 1 .. Len(fifo[t])
        PROVE  \/ t = s /\ k = 1
               \/ t = s /\ k - 1 \in 1 .. Len(fifo'[t]) /\ fifo'[t][k - 1] = fifo[t][k]
               \/ t # s /\ k \in 1 .. Len(fifo'[t]) /\ fifo'[t][k] = fifo[t][k]
    <2>1. CASE t = s /\ k # 1
      <3>1. k - 1 \in 1 .. Len(fifo[s]) - 1 /\ (k - 1) + 1 = k
        BY <1>5, <2>1
      <3> QED BY <1>5, <2>1, <3>1
    <2>2. CASE t # s
      BY <1>5, <2>2
    <2> QED BY <2>1, <2>2
  <1> QED BY <1>2, <1>3, <1>4, <1>6, <1>7

LEMMA CompleteCorrelation ==
    ASSUME ObserverInv, CorrelationInv, NEW s \in Streams, Complete(s)
    PROVE  CorrelationInv'
  <1>1. PICK first : LogInv(first) /\ RuntimeInv(first) /\ CausedInv(first)
    BY DEF CorrelationInv
  <1>2. OrderInv
    BY DEF CorrelationInv
  <1>3. UNCHANGED <<issue, corr, runtime, rows>> /\ end' = end + 1 /\ end \in Nat
    BY DEF Complete, ObserverInv, GpuInv
  <1>4. PICK op, r :
           /\ op \in Operation(s) /\ 1 \in 1 .. Len(fifo[s]) /\ fifo[s][1] = op /\ r = [op EXCEPT !.end = end + 1]
           /\ cupti' = cupti \cup {r}
           /\ \A t \in Streams : \A k \in 1 .. Len(fifo'[t]) :
                 IF t = s THEN k + 1 \in 1 .. Len(fifo[t]) /\ fifo'[t][k] = fifo[t][k + 1]
                          ELSE k \in 1 .. Len(fifo[t]) /\ fifo'[t][k] = fifo[t][k]
           /\ \A t \in Streams : \A k \in 1 .. Len(fifo[t]) :
                 \/ t = s /\ k = 1
                 \/ t = s /\ k - 1 \in 1 .. Len(fifo'[t]) /\ fifo'[t][k - 1] = fifo[t][k]
                 \/ t # s /\ k \in 1 .. Len(fifo'[t]) /\ fifo'[t][k] = fifo[t][k]
    BY CompletePlaces
  <1>5. /\ r.corr = op.corr /\ r.row = op.row /\ r.from = op.from /\ r.what = op.what
        /\ r.partner = op.partner /\ r.stream = s /\ op.stream = s /\ r.end = end + 1
        /\ op.corr \in Nat
    BY <1>4 DEF Operation
  <1>6. Recorded' = Recorded \cup {r}
    BY <1>3, <1>4 DEF Recorded
  <1>7. op \in Activities
    BY <1>4 DEF Activities, Waiting
  <1>8. ASSUME NEW x \in Activities', x # r PROVE x \in Activities
    <2>1. CASE x \in Recorded
      BY <2>1 DEF Activities
    <2>2. CASE x \notin Recorded
      <3>1. PICK t \in Streams : \E k \in 1 .. Len(fifo'[t]) : x = fifo'[t][k]
        BY <1>6, <1>8, <2>2 DEF Activities, Waiting
      <3>2. PICK k \in 1 .. Len(fifo'[t]) : x = fifo'[t][k]
        BY <3>1
      <3>3. PICK l \in 1 .. Len(fifo[t]) : x = fifo[t][l]
        BY <1>4, <3>2
      <3> QED BY <3>3 DEF Activities, Waiting
    <2> QED BY <2>1, <2>2
  <1>9. ASSUME NEW x \in Activities, x # op PROVE x \in Activities'
    <2>1. CASE x \in Recorded
      BY <1>6, <2>1 DEF Activities
    <2>2. CASE x \notin Recorded
      <3>1. PICK t \in Streams : \E k \in 1 .. Len(fifo[t]) : x = fifo[t][k]
        BY <1>9, <2>2 DEF Activities, Waiting
      <3>2. PICK k \in 1 .. Len(fifo[t]) : x = fifo[t][k]
        BY <3>1
      <3>3. ~(t = s /\ k = 1)
        BY <1>4, <1>9, <3>2
      <3>4. \E l \in 1 .. Len(fifo'[t]) : x = fifo'[t][l]
        BY <1>4, <3>2, <3>3
      <3> QED BY <3>4 DEF Activities, Waiting
    <2> QED BY <2>1, <2>2
  <1>10. r \in Activities'
    BY <1>6 DEF Activities
  <1>11. ASSUME NEW x, CausedBy(first, x) PROVE CausedBy(first, x)'
    BY <1>3, <1>11 DEF CausedBy
  <1>12. CausedBy(first, r)
    <2>1. CausedBy(first, op)
      BY <1>1, <1>7 DEF CausedInv
    <2> QED BY <1>5, <2>1 DEF CausedBy
  <1>13. ASSUME NEW x \in Activities' PROVE CausedBy(first, x)'
    <2>1. CausedBy(first, x)
      BY <1>1, <1>8, <1>12 DEF CausedInv
    <2> QED BY <1>11, <2>1
  <1>14. ASSUME NEW i \in DOMAIN issue, issue[i].ok
         PROVE  \E x \in Activities' : x.row = i /\ ~x.partner
    <2>1. PICK x \in Activities : x.row = i /\ ~x.partner
      BY <1>1, <1>14 DEF CausedInv
    <2>2. CASE x = op
      BY <1>5, <1>10, <2>1, <2>2
    <2>3. CASE x # op
      BY <1>9, <2>1, <2>3
    <2> QED BY <2>2, <2>3
  <1>15. CausedInv(first)'
    BY <1>3, <1>13, <1>14 DEF CausedInv
  <1>16. LogInv(first)' /\ RuntimeInv(first)'
    BY <1>1, <1>3 DEF LogInv, RuntimeInv
  <1>17. ASSUME NEW x \in Recorded
         PROVE  /\ x.corr # r.corr /\ (x.stream = r.stream => x.corr < r.corr) /\ x.end < r.end
                /\ x.corr \in Nat
    <2>1. x.end \in 1 .. end
      BY DEF ObserverInv, DeliveryInv, Recorded
    <2>2. x.corr # op.corr /\ (x.stream = s => x.corr < op.corr)
      BY <1>2, <1>4 DEF OrderInv, Waiting
    <2>3. x.corr \in Nat
      BY <1>1 DEF CausedInv, CausedBy, Activities
    <2> QED BY <1>3, <1>5, <2>1, <2>2, <2>3
  <1>18. ASSUME NEW x \in Recorded', NEW y \in Recorded'
         PROVE  /\ x.corr = y.corr => x = y
                /\ x.stream = y.stream /\ x.corr < y.corr => x.end < y.end
    <2>1. CASE x \in Recorded /\ y \in Recorded
      BY <1>2, <2>1 DEF OrderInv
    <2>2. CASE x \in Recorded /\ y = r
      BY <1>17, <2>2
    <2>3. CASE x = r /\ y \in Recorded
      <3>1. r.corr \in Nat /\ ~(r.stream = y.stream /\ r.corr < y.corr)
        BY <1>5, <1>17, <2>3
      <3> QED BY <1>17, <2>3, <3>1
    <2>4. CASE x = r /\ y = r
      BY <1>5, <2>4
    <2> QED BY <1>6, <2>1, <2>2, <2>3, <2>4
  <1>19. ASSUME NEW t \in Streams, NEW k \in 1 .. Len(fifo'[t])
         PROVE  \E l \in 1 .. Len(fifo[t]) :
                   /\ fifo'[t][k] = fifo[t][l] /\ (t = s => l = k + 1) /\ (t # s => l = k)
    BY <1>4
  <1>20. ASSUME NEW t \in Streams, NEW k \in 1 .. Len(fifo'[t]), NEW l \in 1 .. Len(fifo'[t]), k < l
         PROVE  fifo'[t][k].corr < fifo'[t][l].corr
    <2>1. PICK i \in 1 .. Len(fifo[t]) :
             fifo'[t][k] = fifo[t][i] /\ (t = s => i = k + 1) /\ (t # s => i = k)
      BY <1>19
    <2>2. PICK j \in 1 .. Len(fifo[t]) :
             fifo'[t][l] = fifo[t][j] /\ (t = s => j = l + 1) /\ (t # s => j = l)
      BY <1>19
    <2>3. i < j
      BY <1>20, <2>1, <2>2
    <2> QED BY <1>2, <2>1, <2>2, <2>3 DEF OrderInv, Waiting
  <1>21. ASSUME NEW t \in Streams, NEW u \in Streams,
                NEW k \in 1 .. Len(fifo'[t]), NEW l \in 1 .. Len(fifo'[u]),
                fifo'[t][k].corr = fifo'[u][l].corr
         PROVE  t = u
    <2>1. PICK i \in 1 .. Len(fifo[t]) : fifo'[t][k] = fifo[t][i]
      BY <1>19
    <2>2. PICK j \in 1 .. Len(fifo[u]) : fifo'[u][l] = fifo[u][j]
      BY <1>19
    <2> QED BY <1>2, <1>21, <2>1, <2>2 DEF OrderInv, Waiting
  <1>22. ASSUME NEW x \in Recorded', NEW t \in Streams, NEW k \in 1 .. Len(fifo'[t])
         PROVE  x.corr # fifo'[t][k].corr /\ (x.stream = t => x.corr < fifo'[t][k].corr)
    <2>1. PICK l \in 1 .. Len(fifo[t]) :
             fifo'[t][k] = fifo[t][l] /\ (t = s => l = k + 1) /\ (t # s => l = k)
      BY <1>19
    <2>2. CASE x \in Recorded
      BY <1>2, <2>1, <2>2 DEF OrderInv, Waiting
    <2>3. CASE x = r
      <3>1. CASE t = s
        <4>1. 1 < l /\ l \in 1 .. Len(fifo[s]) /\ fifo'[t][k] = fifo[s][l]
          BY <2>1, <3>1
        <4>2. op.corr < fifo[s][l].corr
          BY <1>2, <1>4, <4>1 DEF OrderInv, Waiting
        <4>3. fifo[s][l] \in Activities
          BY <4>1 DEF Activities, Waiting
        <4>4. fifo[s][l].corr \in Nat
          BY <1>1, <4>3 DEF CausedInv, CausedBy
        <4> QED BY <1>5, <2>3, <4>1, <4>2, <4>4
      <3>2. CASE t # s
        <4>1. op.corr # fifo[t][l].corr
          BY <1>2, <1>4, <3>2, SMTT(40) DEF OrderInv, Waiting
        <4> QED BY <1>5, <2>1, <2>3, <3>2, <4>1
      <3> QED BY <3>1, <3>2
    <2> QED BY <1>6, <2>2, <2>3
  <1>23. OrderInv'
    BY <1>18, <1>20, <1>21, <1>22 DEF OrderInv, Waiting
  <1> QED BY <1>15, <1>16, <1>23 DEF CorrelationInv

\* What CUPTI delivers is what it had; the other steps touch none of it.
LEMMA SameActivities ==
    ASSUME CorrelationInv, UNCHANGED <<issue, corr, runtime, fifo>>, Recorded' = Recorded
    PROVE  CorrelationInv'
  <1>1. PICK first : LogInv(first) /\ RuntimeInv(first) /\ CausedInv(first)
    BY DEF CorrelationInv
  <1>2. Activities' = Activities
    BY DEF Activities, Waiting
  <1>3. \A x : CausedBy(first, x) => CausedBy(first, x)'
    BY DEF CausedBy
  <1>4. CausedInv(first)'
    BY <1>1, <1>2, <1>3 DEF CausedInv
  <1>5. LogInv(first)' /\ RuntimeInv(first)'
    BY <1>1 DEF LogInv, RuntimeInv
  <1>6. OrderInv'
    BY DEF CorrelationInv, OrderInv, Waiting
  <1> QED BY <1>4, <1>5, <1>6 DEF CorrelationInv

LEMMA NextCorrelation == ObserverInv /\ CorrelationInv /\ [Next]_vars => CorrelationInv'
  <1> SUFFICES ASSUME ObserverInv, CorrelationInv, [Next]_vars PROVE CorrelationInv'
    OBVIOUS
  <1>1. CASE \E s \in Stream, kind \in IssueKinds : Replay(s, kind)
    BY <1>1, ReplayCorrelation
  <1>2. CASE LaunchElsewhere("main") \/ LaunchElsewhere("client")
    BY <1>2, ElsewhereCorrelation
  <1>3. CASE \E s \in Stream \cup {DefaultStream} : Complete(s)
    BY <1>3, CompleteCorrelation DEF Streams
  <1>4. ASSUME NEW batch \in SUBSET cupti, Deliver(batch) PROVE CorrelationInv'
    BY <1>4, SameActivities DEF Deliver, Recorded
  <1>5. CASE FlushSome \/ ForceFlush
    BY <1>4, <1>5 DEF FlushSome, ForceFlush
  <1>6. CASE TakeSlot \/ NameSlot \/ WriteFiles \/ NextPhase \/ UNCHANGED vars
    <2>1. UNCHANGED <<issue, corr, runtime, fifo, rows, cupti>>
      BY <1>6 DEF TakeSlot, NameSlot, WriteFiles, NextPhase
    <2> QED BY <2>1, SameActivities DEF Recorded
  <1> QED BY <1>1, <1>2, <1>3, <1>5, <1>6 DEF Next, Dumped
(***************************************************************************)
(* Records and rows in order                                               *)
(***************************************************************************)
\* The M records of R in the order of their ids.
InIdOrder(seq, R, M) ==
    /\ DOMAIN seq = 1 .. M /\ Len(seq) = M
    /\ \A p \in 1 .. M : seq[p] \in R
    /\ \A p, q \in 1 .. M : p < q => seq[p].corr < seq[q].corr
    /\ \A x \in R : \E p \in 1 .. M : seq[p] = x

LEMMA ByCorrelationAt ==
    ASSUME NEW R, IsFiniteSet(R), \A x \in R : x.corr \in Nat,
           \A x, y \in R : x.corr = y.corr => x = y
    PROVE  \E M \in Nat : InIdOrder(ByCorrelation(R), R, M)
  <1>1. PICK C : C = {x.corr : x \in R}
    OBVIOUS
  <1>2. C \in SUBSET Nat /\ IsFiniteSet(C)
    <2>1. IsFiniteSet({x.corr : x \in R})
      <3>1. PICK f : f = [x \in R |-> x.corr]
        OBVIOUS
      <3>2. f \in Surjection(R, C)
        BY <1>1, <3>1 DEF Surjection
      <3>3. IsFiniteSet(C)
        BY <3>2, FS_Surjection
      <3> QED BY <1>1, <3>3
    <2> QED BY <1>1, <2>1
  <1>3. PICK M \in Nat : M = Cardinality(C)
    BY <1>2, FS_CardinalityType
  <1>4. PICK ids : ids = Sorted(C)
    OBVIOUS
  <1>5. /\ DOMAIN ids = 1 .. M
        /\ \A p \in 1 .. M : ids[p] \in C
        /\ \A p, q \in 1 .. M : p < q => ids[p] < ids[q]
        /\ \A c \in C : \E p \in 1 .. M : ids[p] = c
    BY <1>2, <1>3, <1>4, SortedAt, SortedRises
  <1>6. PICK seq : seq = ByCorrelation(R)
    OBVIOUS
  <1>7. seq = [p \in 1 .. M |-> CHOOSE x \in R : x.corr = ids[p]]
    <2>1. ids = Sorted({x.corr : x \in R})
      BY <1>1, <1>4
    <2> QED BY <1>5, <1>6, <2>1 DEF ByCorrelation
  <1>8. ASSUME NEW p \in 1 .. M PROVE seq[p] \in R /\ seq[p].corr = ids[p]
    <2>1. \E x \in R : x.corr = ids[p]
      BY <1>1, <1>5
    <2> QED BY <1>7, <2>1
  <1>9. DOMAIN seq = 1 .. M /\ Len(seq) = M
    <2>1. seq \in Seq(R)
      BY <1>7, <1>8
    <2> QED BY <1>7, <2>1
  <1>10. ASSUME NEW p \in 1 .. M, NEW q \in 1 .. M, p < q PROVE seq[p].corr < seq[q].corr
    BY <1>5, <1>8, <1>10
  <1>11. ASSUME NEW x \in R PROVE \E p \in 1 .. M : seq[p] = x
    <2>1. PICK p \in 1 .. M : ids[p] = x.corr
      BY <1>1, <1>5
    <2>2. seq[p] \in R /\ seq[p].corr = x.corr
      BY <1>8, <2>1
    <2> QED BY <2>2
  <1> QED BY <1>6, <1>8, <1>9, <1>10, <1>11 DEF InIdOrder

\* The N rows of some kinds in the order of the log.
InLogOrder(ops, kinds, N) ==
    /\ DOMAIN ops = 1 .. N /\ Len(ops) = N
    /\ \A n \in 1 .. N : /\ ops[n].row \in DOMAIN issue
                         /\ ops[n].kind = issue[ops[n].row].kind /\ ops[n].kind \in kinds
    /\ \A m, n \in 1 .. N : m < n => ops[m].row < ops[n].row
    /\ \A i \in DOMAIN issue : issue[i].kind \in kinds => \E n \in 1 .. N : ops[n].row = i

LEMMA RowsOfAt ==
    ASSUME NEW kinds, DOMAIN issue = 1 .. Len(issue), Len(issue) \in Nat
    PROVE  \E N \in Nat : InLogOrder(RowsOf(kinds), kinds, N)
  <1>1. PICK S : S = {i \in DOMAIN issue : issue[i].kind \in kinds}
    OBVIOUS
  <1>2. S \in SUBSET Nat /\ IsFiniteSet(S)
    <2>1. IsFiniteSet(1 .. Len(issue)) /\ S \in SUBSET (1 .. Len(issue))
      BY <1>1, FS_Interval
    <2>2. IsFiniteSet(S)
      BY <2>1, FS_Subset
    <2>3. S \in SUBSET Nat
      BY <2>1
    <2> QED BY <2>2, <2>3
  <1>3. PICK N \in Nat : N = Cardinality(S)
    BY <1>2, FS_CardinalityType
  <1>4. PICK found : found = Sorted(S)
    OBVIOUS
  <1>5. /\ DOMAIN found = 1 .. N
        /\ \A n \in 1 .. N : found[n] \in S
        /\ \A m, n \in 1 .. N : m < n => found[m] < found[n]
        /\ \A i \in S : \E n \in 1 .. N : found[n] = i
    BY <1>2, <1>3, <1>4, SortedAt, SortedRises
  <1>6. PICK ops : ops = RowsOf(kinds)
    OBVIOUS
  <1>7. ops = [n \in 1 .. N |-> [row |-> found[n], kind |-> issue[found[n]].kind]]
    <2>1. found = Sorted({i \in DOMAIN issue : issue[i].kind \in kinds})
      BY <1>1, <1>4
    <2> QED BY <1>5, <1>6, <2>1 DEF RowsOf
  <1>8. DOMAIN ops = 1 .. N /\ Len(ops) = N
    <2>1. ops \in Seq({ops[n] : n \in 1 .. N})
      BY <1>7
    <2> QED BY <1>7, <2>1
  <1>9. ASSUME NEW n \in 1 .. N
        PROVE  ops[n].row = found[n] /\ ops[n].kind = issue[found[n]].kind
    BY <1>7
  <1>10. \A n \in 1 .. N : /\ ops[n].row \in DOMAIN issue
                           /\ ops[n].kind = issue[ops[n].row].kind /\ ops[n].kind \in kinds
    BY <1>1, <1>5, <1>9
  <1>11. \A m, n \in 1 .. N : m < n => ops[m].row < ops[n].row
    BY <1>5, <1>9
  <1>12. \A i \in DOMAIN issue : issue[i].kind \in kinds => \E n \in 1 .. N : ops[n].row = i
    <2>1. ASSUME NEW i \in DOMAIN issue, issue[i].kind \in kinds PROVE \E n \in 1 .. N : ops[n].row = i
      <3>1. PICK n \in 1 .. N : found[n] = i
        BY <1>1, <1>5, <2>1
      <3> QED BY <1>9, <3>1
    <2> QED BY <2>1
  <1> QED BY <1>6, <1>8, <1>10, <1>11, <1>12 DEF InLogOrder

(***************************************************************************)
(* The loop of assign_kernels                                              *)
(***************************************************************************)
\* assign_kernels' loop over the rows.
Loop(base, ops, kern) == FoldLeft(LAMBDA acc, op : Assign(acc, op, kern), base, ops)

\* The same, of any set of rows.
Looped(join, s, base, ops, kern) ==
    join = [t \in SUBSET s |-> IF t = {} THEN base
                               ELSE Assign(join[t \ {Max(t)}], ops[Max(t)], kern)]

LEMMA LoopExists ==
    ASSUME NEW base, NEW ops, NEW kern, NEW N \in Nat
    PROVE  \E join : Looped(join, 1 .. N, base, ops, kern)
  <1> DEFINE Less == OpToRel(<, Nat)
             T == {n \in Nat : ~\E join : Looped(join, 1 .. n, base, ops, kern)}
  <1>1. SUFFICES ASSUME T # {} PROVE FALSE
    OBVIOUS
  <1>2. PICK n \in T : \A m \in T : <<m, n>> \notin Less
    <2> HIDE DEF Less
    <2>1. T \subseteq Nat
      OBVIOUS
    <2> HIDE DEF T
    <2> QED BY <1>1, <2>1, NatLessThanWellFounded, WFMin DEF Less
  <1>3. n # 0
    <2>1. SUFFICES ASSUME n = 0 PROVE FALSE
      OBVIOUS
    <2>2. 1 .. n = {}
      BY <2>1
    <2>3. PICK join : join = [t \in SUBSET (1 .. n) |-> base]
      OBVIOUS
    <2>4. \A t \in SUBSET (1 .. n) : t = {}
      BY <2>2
    <2>5. Looped(join, 1 .. n, base, ops, kern)
      BY <2>3, <2>4 DEF Looped
    <2> QED BY <2>5
  <1>4. PICK k \in Nat : n = k + 1
    <2>1. n - 1 \in Nat /\ n = (n - 1) + 1
      BY <1>3
    <2> QED BY <2>1
  <1>5. k \notin T
    <2>1. k < n /\ n \in Nat
      BY <1>4
    <2>2. <<k, n>> \in Less
      BY <2>1 DEF OpToRel
    <2> QED BY <1>2, <2>2
  <1>6. PICK join : Looped(join, 1 .. k, base, ops, kern)
    BY <1>5
  <1>7. PICK longer : longer = [t \in SUBSET (1 .. n) |->
                          IF n \in t THEN Assign(join[t \ {n}], ops[n], kern) ELSE join[t]]
    OBVIOUS
  <1>8. ASSUME NEW t \in SUBSET (1 .. n)
        PROVE  longer[t] = IF t = {} THEN base
                           ELSE Assign(longer[t \ {Max(t)}], ops[Max(t)], kern)
    <2>1. CASE n \in t
      <3>1. Max(t) = n /\ t \ {n} \in SUBSET (1 .. k)
        BY <1>4, <2>1, LastOfRange
      <3>2. t \ {n} \in SUBSET (1 .. n) /\ n \notin t \ {n}
        OBVIOUS
      <3>3. longer[t \ {n}] = join[t \ {n}]
        BY <1>7, <3>2
      <3>4. longer[t] = Assign(join[t \ {n}], ops[n], kern)
        BY <1>7, <2>1
      <3> QED BY <2>1, <3>1, <3>3, <3>4
    <2>2. CASE n \notin t
      <3>1. t \in SUBSET (1 .. k) /\ t \ {Max(t)} \in SUBSET (1 .. n) /\ n \notin t \ {Max(t)}
        <4>1. \A i \in t : i \in 1 .. k
          BY <1>4, <2>2
        <4> QED BY <2>2, <4>1
      <3>2. longer[t] = join[t] /\ longer[t \ {Max(t)}] = join[t \ {Max(t)}]
        BY <1>7, <2>2, <3>1
      <3>3. join[t] = IF t = {} THEN base ELSE Assign(join[t \ {Max(t)}], ops[Max(t)], kern)
        BY <1>6, <3>1 DEF Looped
      <3> QED BY <3>2, <3>3
    <2> QED BY <2>1, <2>2
  <1>9. Looped(longer, 1 .. n, base, ops, kern)
    <2>1. longer = [t \in SUBSET (1 .. n) |-> longer[t]]
      BY <1>7
    <2> QED BY <1>8, <2>1 DEF Looped
  <1> QED BY <1>9

LEMMA LoopIsFold ==
    ASSUME NEW base, NEW ops, NEW kern, NEW N \in Nat, DOMAIN ops = 1 .. N
    PROVE  \E join : /\ Looped(join, 1 .. N, base, ops, kern)
                     /\ Loop(base, ops, kern) = join[1 .. N]
  <1>1. Loop(base, ops, kern) =
           (CHOOSE j : j = [t \in SUBSET DOMAIN ops |-> IF t = {} THEN base
                            ELSE Assign(j[t \ {Max(t)}], ops[Max(t)], kern)])[DOMAIN ops]
    BY Zenon DEF Loop, FoldLeft, MapThenFoldSet
  <1>2. PICK join : join = CHOOSE j : Looped(j, 1 .. N, base, ops, kern)
    OBVIOUS
  <1>3. Looped(join, 1 .. N, base, ops, kern)
    BY <1>2, LoopExists
  <1>4. Loop(base, ops, kern) = join[1 .. N]
    BY <1>1, <1>2, Zenon DEF Looped
  <1> QED BY <1>3, <1>4

\* The loop, row by row.
LEMMA RowByRow ==
    ASSUME NEW base, NEW ops, NEW kern, NEW N \in Nat, DOMAIN ops = 1 .. N
    PROVE  \E after :
             /\ after[0] = base
             /\ \A n \in 0 .. N - 1 : after[n + 1] = Assign(after[n], ops[n + 1], kern)
             /\ Loop(base, ops, kern) = after[N]
  <1>1. PICK join : /\ Looped(join, 1 .. N, base, ops, kern)
                    /\ Loop(base, ops, kern) = join[1 .. N]
    BY LoopIsFold
  <1>2. PICK after : after = [n \in 0 .. N |-> join[1 .. n]]
    OBVIOUS
  <1>3. after[0] = base
    <2>1. 1 .. 0 = {} /\ {} \in SUBSET (1 .. N) /\ 0 \in 0 .. N
      OBVIOUS
    <2>2. join[{}] = base
      BY <1>1, <2>1 DEF Looped
    <2> QED BY <1>2, <2>1, <2>2
  <1>4. ASSUME NEW n \in 0 .. N - 1 PROVE after[n + 1] = Assign(after[n], ops[n + 1], kern)
    <2>1. n \in Nat /\ n \in 0 .. N /\ n + 1 \in 0 .. N /\ n + 1 \in 1 .. n + 1
      OBVIOUS
    <2>2. Max(1 .. n + 1) = n + 1
      BY <2>1, LastOfRange
    <2>3. (1 .. n + 1) \ {n + 1} = 1 .. n
      BY <2>1
    <2>4. 1 .. n + 1 \in SUBSET (1 .. N) /\ 1 .. n + 1 # {}
      BY <2>1
    <2>5. join[1 .. n + 1] = Assign(join[(1 .. n + 1) \ {Max(1 .. n + 1)}], ops[Max(1 .. n + 1)], kern)
      BY <1>1, <2>4 DEF Looped
    <2>6. join[1 .. n + 1] = Assign(join[1 .. n], ops[n + 1], kern)
      BY <2>2, <2>3, <2>5
    <2> QED BY <1>2, <2>1, <2>6
  <1>5. after[N] = join[1 .. N]
    BY <1>2
  <1> QED BY <1>1, <1>3, <1>4, <1>5

Takeable(join, kern) == ~join.raised /\ ~(join.ki > Len(kern)) /\ ~kern[join.ki].partner

LEMMA TakesBound ==
    ASSUME NEW op, NEW kern, NEW M \in Nat, Len(kern) = M, NEW ki \in 1 .. M
    PROVE  /\ Takes(op, kern, ki) \in 1 .. M - ki + 1
           /\ op.kind # "cudaLaunchKernel" =>
                LET take == Takes(op, kern, ki)
                IN  /\ \A j \in 1 .. take - 1 : kern[ki + j].partner
                    /\ ki + take > M \/ ~kern[ki + take].partner
  <1> DEFINE J == {j \in 1 .. Len(kern) - ki + 1 : ki + j > Len(kern) \/ ~kern[ki + j].partner}
  <1>1. CASE op.kind = "cudaLaunchKernel"
    BY <1>1 DEF Takes
  <1>2. CASE op.kind # "cudaLaunchKernel"
    <2>1. J \subseteq Nat /\ M - ki + 1 \in J
      OBVIOUS
    <2>3. PICK take : take = Takes(op, kern, ki)
      OBVIOUS
    <2>4. take = Min(J)
      BY <1>2, <2>3 DEF Takes
    <2>5. take \in J /\ \A j \in J : take <= j
      <3> HIDE DEF J
      <3> QED BY <2>1, <2>4, MinTaken
    <2>6. take \in 1 .. M - ki + 1 /\ (ki + take > M \/ ~kern[ki + take].partner)
      BY <2>5
    <2>7. ASSUME NEW j \in 1 .. take - 1 PROVE kern[ki + j].partner
      <3>1. j \notin J /\ j \in 1 .. M - ki + 1
        BY <2>5, <2>6
      <3> QED BY <3>1
    <2> QED BY <2>3, <2>6, <2>7
  <1> QED BY <1>1, <1>2

\* One row.
LEMMA AssignEither ==
    ASSUME NEW join, NEW op, NEW kern,
           join = [raised |-> join.raised, ki |-> join.ki, out |-> join.out]
    PROVE  LET next == Assign(join, op, kern)
           IN  /\ next = [raised |-> next.raised, ki |-> next.ki, out |-> next.out]
               /\ ~Takeable(join, kern) => next.raised
               /\ Takeable(join, kern) =>
                    LET take == Takes(op, kern, join.ki)
                    IN  /\ ~next.raised /\ next.ki = join.ki + take
                        /\ next.out = Append(join.out, {kern[i].corr : i \in join.ki .. join.ki + take - 1})
  <1>1. CASE Takeable(join, kern)
    <2>1. Assign(join, op, kern) =
             [raised |-> FALSE, ki |-> join.ki + Takes(op, kern, join.ki),
              out |-> Append(join.out, {kern[i].corr : i \in join.ki .. join.ki + Takes(op, kern, join.ki) - 1})]
      BY <1>1, Zenon DEF Takeable, Assign
    <2>2. PICK out : out = Append(join.out, {kern[i].corr : i \in join.ki .. join.ki + Takes(op, kern, join.ki) - 1})
      OBVIOUS
    <2>3. Assign(join, op, kern) = [raised |-> FALSE, ki |-> join.ki + Takes(op, kern, join.ki), out |-> out]
      BY <2>1, <2>2
    <2> QED BY <1>1, <2>2, <2>3
  <1>2. CASE ~Takeable(join, kern)
    <2>1. Assign(join, op, kern) = [join EXCEPT !.raised = TRUE]
      BY <1>2, Zenon DEF Takeable, Assign
    <2>2. PICK raised, ki, out : join = [raised |-> raised, ki |-> ki, out |-> out]
      OBVIOUS
    <2>3. Assign(join, op, kern) = [raised |-> TRUE, ki |-> ki, out |-> out]
      BY <2>1, <2>2
    <2> QED BY <1>2, <2>3
  <1> QED BY <1>1, <1>2

\* M kernels in the order of the N rows they are of: each row's leader first,
\* and at most one partner, of a row of cuBLAS.
InRowOrder(kern, ops, M, N) ==
    /\ M \in Nat /\ N \in Nat
    /\ DOMAIN kern = 1 .. M /\ Len(kern) = M /\ DOMAIN ops = 1 .. N
    /\ \A n \in 1 .. N : ops[n].row \in Nat \ {0}
    /\ \A m, n \in 1 .. N : m < n => ops[m].row < ops[n].row
    /\ \A p \in 1 .. M : \E n \in 1 .. N :
          kern[p].row = ops[n].row /\ (kern[p].partner => ops[n].kind # "cudaLaunchKernel")
    /\ \A p, q \in 1 .. M : p < q =>
          /\ kern[p].row <= kern[q].row
          /\ kern[p].row = kern[q].row => ~kern[p].partner /\ kern[q].partner
    /\ \A p \in 1 .. M : kern[p].partner =>
          \E q \in 1 .. M : q < p /\ kern[q].row = kern[p].row /\ ~kern[q].partner

Start == [raised |-> FALSE, ki |-> 1, out |-> <<>>]

\* `after` is what the loop's variables are after each row.
Looping(after, kern, ops, N) ==
    /\ after[0] = Start
    /\ \A n \in 0 .. N - 1 : after[n + 1] = Assign(after[n], ops[n + 1], kern)

LEMMA Restarted ==
    ASSUME NEW kern, NEW ops, NEW M, NEW N, InRowOrder(kern, ops, M, N)
    PROVE  \E after :
             Looping(after, kern, ops, N) /\ Loop(Start, ops, kern) = after[N]
  <1>1. N \in Nat /\ DOMAIN ops = 1 .. N
    BY DEF InRowOrder
  <1>2. PICK loop : loop = Loop(Start, ops, kern)
    OBVIOUS
  <1>3. \E after : /\ after[0] = Start
                   /\ \A n \in 0 .. N - 1 : after[n + 1] = Assign(after[n], ops[n + 1], kern)
                   /\ loop = after[N]
    BY <1>1, <1>2, RowByRow
  <1> QED BY <1>2, <1>3 DEF Looping

\* The loop's variables.
Standing(join, M) ==
    /\ join = [raised |-> join.raised, ki |-> join.ki, out |-> join.out]
    /\ ~join.raised => join.ki \in 1 .. M + 1

LEMMA LoopTypes ==
    ASSUME NEW kern, NEW ops, NEW M \in Nat, NEW N \in Nat, Len(kern) = M,
           NEW after, Looping(after, kern, ops, N)
    PROVE  \A n \in 0 .. N : Standing(after[n], M)
  <1> DEFINE S == {n \in 0 .. N : Standing(after[n], M)}
  <1>1. 0 \in S
    BY DEF Looping, Start, Standing
  <1>2. ASSUME NEW n \in 0 .. N - 1, n \in S PROVE n + 1 \in S
    <2>1. n + 1 \in 0 .. N /\ Standing(after[n], M) /\ after[n + 1] = Assign(after[n], ops[n + 1], kern)
      BY <1>2 DEF Looping
    <2>2. PICK join : join = after[n]
      OBVIOUS
    <2>3. PICK op : op = ops[n + 1]
      OBVIOUS
    <2>4. PICK next : next = after[n + 1] /\ next = Assign(join, op, kern)
      BY <2>1, <2>2, <2>3
    <2>5. /\ next = [raised |-> next.raised, ki |-> next.ki, out |-> next.out]
          /\ ~Takeable(join, kern) => next.raised
          /\ Takeable(join, kern) => next.ki = join.ki + Takes(op, kern, join.ki)
      BY <2>1, <2>2, <2>4, AssignEither DEF Standing
    <2>6. ASSUME ~next.raised PROVE next.ki \in 1 .. M + 1
      <3>1. Takeable(join, kern) /\ next.ki = join.ki + Takes(op, kern, join.ki)
        BY <2>5, <2>6
      <3>2. join.ki \in 1 .. M
        BY <2>1, <2>2, <3>1 DEF Takeable, Standing
      <3>3. Takes(op, kern, join.ki) \in 1 .. M - join.ki + 1
        BY <3>2, TakesBound
      <3> QED BY <3>1, <3>2, <3>3
    <2> QED BY <2>1, <2>4, <2>5, <2>6 DEF Standing
  <1> HIDE DEF S
  <1>3. \A n \in 0 .. N : n \in S
    BY <1>1, <1>2, Upward
  <1> QED BY <1>3 DEF S

\* When the loop does not raise, every row has taken a leader of its own.
LEMMA LoopTakesLeaders ==
    ASSUME NEW kern, NEW ops, NEW M \in Nat, NEW N \in Nat, Len(kern) = M,
           NEW after, Looping(after, kern, ops, N)
    PROVE  \A n \in 0 .. N : ~after[n].raised =>
              \A m \in 0 .. n - 1 : /\ after[m].ki \in 1 .. M /\ after[m].ki < after[n].ki
                                    /\ ~kern[after[m].ki].partner /\ ~after[m].raised
  <1> DEFINE Taken(n, m) == /\ after[m].ki \in 1 .. M /\ after[m].ki < after[n].ki
                            /\ ~kern[after[m].ki].partner /\ ~after[m].raised
             S == {n \in 0 .. N : ~after[n].raised => \A m \in 0 .. n - 1 : Taken(n, m)}
  <1>1. 0 \in S
    OBVIOUS
  <1>2. ASSUME NEW n \in 0 .. N - 1, n \in S, ~after[n + 1].raised, NEW m \in 0 .. n
        PROVE  Taken(n + 1, m)
    <2>1. Standing(after[n], M)
      <3>1. n \in 0 .. N
        OBVIOUS
      <3> HIDE DEF S, Taken
      <3> QED BY <3>1, LoopTypes
    <2>2. PICK join : join = after[n]
      OBVIOUS
    <2>3. PICK op : op = ops[n + 1]
      OBVIOUS
    <2>4. PICK next : next = after[n + 1] /\ next = Assign(join, op, kern)
      BY <2>2, <2>3 DEF Looping
    <2>5. Takeable(join, kern) /\ next.ki = join.ki + Takes(op, kern, join.ki)
      BY <1>2, <2>1, <2>2, <2>4, AssignEither DEF Standing
    <2>6. ~join.raised /\ join.ki \in 1 .. M /\ ~kern[join.ki].partner
      BY <2>1, <2>2, <2>5 DEF Takeable, Standing
    <2>7. Takes(op, kern, join.ki) \in 1 .. M - join.ki + 1
      BY <2>6, TakesBound
    <2>8. join.ki < next.ki /\ next.ki \in Nat
      BY <2>5, <2>6, <2>7
    <2>9. CASE m = n
      BY <2>2, <2>4, <2>6, <2>8, <2>9
    <2>10. CASE m # n
      <3>1. m \in 0 .. n - 1
        BY <2>10
      <3>2. Taken(n, m)
        BY <1>2, <2>2, <2>6, <3>1
      <3> QED BY <2>2, <2>4, <2>6, <2>8, <3>2
    <2> QED BY <2>9, <2>10
  <1>3. ASSUME NEW n \in 0 .. N - 1, n \in S PROVE n + 1 \in S
    <2>1. n + 1 \in 0 .. N /\ (n + 1) - 1 = n
      OBVIOUS
    <2> HIDE DEF Taken
    <2> QED BY <1>2, <1>3, <2>1
  <1> HIDE DEF S
  <1>4. \A n \in 0 .. N : n \in S
    BY <1>1, <1>3, Upward
  <1> QED BY <1>4 DEF S

\* It can do so only if every row has a kernel: there are as many rows as
\* leaders taken, and two leaders are of different rows.
LEMMA LoopCounts ==
    ASSUME NEW kern, NEW ops, NEW M, NEW N, InRowOrder(kern, ops, M, N),
           ~Loop(Start, ops, kern).raised
    PROVE  \A n \in 1 .. N : \E p \in 1 .. M : kern[p].row = ops[n].row
  <1>1. M \in Nat /\ N \in Nat /\ Len(kern) = M /\ DOMAIN ops = 1 .. N
    BY DEF InRowOrder
  <1>2. PICK after : Looping(after, kern, ops, N) /\ Loop(Start, ops, kern) = after[N]
    BY Restarted
  <1>3. \A n \in 0 .. N : ~after[n].raised =>
           \A m \in 0 .. n - 1 : /\ after[m].ki \in 1 .. M /\ after[m].ki < after[n].ki
                                 /\ ~kern[after[m].ki].partner /\ ~after[m].raised
    BY <1>1, <1>2, LoopTakesLeaders
  <1>4. ~after[N].raised
    BY <1>2
  <1>5. \A m \in 0 .. N - 1 : after[m].ki \in 1 .. M /\ ~kern[after[m].ki].partner /\ ~after[m].raised
    BY <1>1, <1>3, <1>4
  <1>6. \A m, n \in 0 .. N - 1 : m < n => after[m].ki < after[n].ki
    BY <1>1, <1>3, <1>5
  <1> DEFINE I == 1 .. N
             took == [n \in I |-> CHOOSE k \in I : ops[k].row = kern[after[n - 1].ki].row]
  <1>7. ASSUME NEW n \in I
        PROVE  took[n] \in I /\ ops[took[n]].row = kern[after[n - 1].ki].row
    <2>1. n - 1 \in 0 .. N - 1
      BY <1>1
    <2>2. \E k \in I : ops[k].row = kern[after[n - 1].ki].row
      <3>1. PICK p \in 1 .. M : p = after[n - 1].ki
        BY <1>5, <2>1
      <3>2. \E k \in 1 .. N : kern[p].row = ops[k].row
        BY DEF InRowOrder
      <3> QED BY <3>1, <3>2
    <2> QED BY <2>2
  <1>8. ASSUME NEW m \in I, NEW n \in I, m < n PROVE took[m] # took[n]
    <2>1. m - 1 \in 0 .. N - 1 /\ n - 1 \in 0 .. N - 1 /\ m - 1 < n - 1
      BY <1>1, <1>8
    <2>2. PICK p \in 1 .. M, q \in 1 .. M : p = after[m - 1].ki /\ q = after[n - 1].ki
      BY <1>5, <2>1
    <2>3. p < q /\ ~kern[q].partner
      BY <1>5, <1>6, <2>1, <2>2
    <2>4. kern[p].row # kern[q].row
      BY <2>3 DEF InRowOrder
    <2> QED BY <1>7, <2>2, <2>4
  <1>9. ASSUME NEW m \in I, NEW n \in I, m # n PROVE took[m] # took[n]
    <2>1. m < n \/ n < m
      BY <1>1, <1>9
    <2> QED BY <1>8, <2>1
  <1>10. IsFiniteSet(I)
    BY <1>1, FS_Interval
  <1> HIDE DEF took, I
  <1>11. took \in [I -> I]
    <2>1. took = [n \in I |-> took[n]]
      BY DEF took
    <2> QED BY <1>7, <2>1
  <1>12. took \in Injection(I, I)
    BY <1>9, <1>11 DEF Injection, IsInjective
  <1>13. took \in Surjection(I, I)
    BY <1>10, <1>12, FS_Injection
  <1>14. ASSUME NEW k \in I PROVE \E p \in 1 .. M : kern[p].row = ops[k].row
    <2>1. PICK n \in I : took[n] = k
      BY <1>13 DEF Surjection
    <2>2. n - 1 \in 0 .. N - 1
      BY <1>1 DEF I
    <2> QED BY <1>5, <1>7, <2>1, <2>2
  <1> QED BY <1>14 DEF I

\* One row takes its kernels, when the rows before have taken theirs.
LEMMA RowTakesItsOwn ==
    ASSUME NEW kern, NEW ops, NEW M, NEW N, InRowOrder(kern, ops, M, N),
           NEW n \in 0 .. N - 1, NEW ki \in 1 .. M + 1,
           \A p \in 1 .. M : p < ki <=> \E m \in 1 .. n : kern[p].row = ops[m].row,
           \E p \in 1 .. M : kern[p].row = ops[n + 1].row
    PROVE  /\ ki \in 1 .. M /\ ~kern[ki].partner
           /\ LET take == Takes(ops[n + 1], kern, ki)
              IN  /\ ki + take \in 1 .. M + 1
                  /\ \A p \in 1 .. M : p \in ki .. ki + take - 1 <=> kern[p].row = ops[n + 1].row
                  /\ \A p \in 1 .. M : p < ki + take <=> \E m \in 1 .. n + 1 : kern[p].row = ops[m].row
  <1>1. M \in Nat /\ N \in Nat /\ Len(kern) = M /\ n + 1 \in 1 .. N /\ n \in Nat
    BY DEF InRowOrder
  <1>2. PICK r : r = ops[n + 1].row
    OBVIOUS
  <1>3. ASSUME NEW m \in 1 .. n PROVE ops[m].row # r
    <2>1. m \in 1 .. N /\ m < n + 1 /\ ops[m].row \in Nat /\ ops[n + 1].row \in Nat
      BY <1>1 DEF InRowOrder
    <2>2. ops[m].row < ops[n + 1].row
      BY <1>1, <2>1 DEF InRowOrder
    <2> QED BY <1>2, <2>1, <2>2
  <1>4. ASSUME NEW p \in 1 .. M, kern[p].row = r PROVE ~(p < ki)
    BY <1>3, <1>4
  <1>5. PICK x \in 1 .. M : kern[x].row = r
    BY <1>2
  <1>6. ki \in 1 .. M /\ ki <= x
    BY <1>1, <1>4, <1>5
  <1>7. kern[ki].row = r
    <2>1. PICK k \in 1 .. N : kern[ki].row = ops[k].row
      BY <1>6 DEF InRowOrder
    <2>2. k \notin 1 .. n
      BY <1>6, <2>1
    <2>3. k >= n + 1
      BY <1>1, <2>2
    <2>4. /\ ops[k].row \in Nat /\ r \in Nat
          /\ n + 1 < k => r < ops[k].row
      BY <1>1, <1>2 DEF InRowOrder
    <2>5. ki # x => kern[ki].row <= kern[x].row
      <3>1. ki # x => ki < x
        BY <1>6
      <3> QED BY <1>5, <1>6, <3>1 DEF InRowOrder
    <2>6. ops[k].row <= r
      BY <1>5, <2>1, <2>4, <2>5
    <2>7. k = n + 1
      BY <1>1, <2>3, <2>4, <2>6
    <2> QED BY <1>2, <2>1, <2>7
  <1>8. ~kern[ki].partner
    <2>1. SUFFICES ASSUME kern[ki].partner PROVE FALSE
      OBVIOUS
    <2>2. PICK q \in 1 .. M : q < ki /\ kern[q].row = kern[ki].row
      BY <1>6, <2>1 DEF InRowOrder
    <2> QED BY <1>4, <1>7, <2>2
  <1>9. PICK take : take = Takes(ops[n + 1], kern, ki)
    OBVIOUS
  <1>10. /\ take \in 1 .. M - ki + 1
         /\ ops[n + 1].kind # "cudaLaunchKernel" =>
              /\ \A j \in 1 .. take - 1 : kern[ki + j].partner
              /\ ki + take > M \/ ~kern[ki + take].partner
    BY <1>1, <1>6, <1>9, TakesBound
  <1>11. ASSUME NEW p \in ki .. ki + take - 1 PROVE kern[p].row = r
    <2>1. CASE p = ki
      BY <1>7, <2>1
    <2>2. CASE p # ki
      <3>1. p - ki \in 1 .. take - 1 /\ p \in 1 .. M /\ ki + (p - ki) = p
        BY <1>1, <1>6, <1>10, <2>2
      <3>2. ops[n + 1].kind # "cudaLaunchKernel"
        <4>1. ops[n + 1].kind = "cudaLaunchKernel" => take = 1
          BY <1>9 DEF Takes
        <4> QED BY <3>1, <4>1
      <3>3. kern[p].partner
        BY <1>10, <3>1, <3>2
      <3>4. PICK q \in 1 .. M : q < p /\ kern[q].row = kern[p].row /\ ~kern[q].partner
        BY <3>1, <3>3 DEF InRowOrder
      <3>5. ~(q < ki)
        <4>1. SUFFICES ASSUME q < ki PROVE FALSE
          OBVIOUS
        <4>2. \E m \in 1 .. n : kern[p].row = ops[m].row
          BY <3>4, <4>1
        <4>3. p < ki
          BY <3>1, <4>2
        <4> QED BY <4>3
      <3>6. q = ki
        <4>1. SUFFICES ASSUME q # ki PROVE FALSE
          OBVIOUS
        <4>2. q - ki \in 1 .. take - 1 /\ ki + (q - ki) = q
          BY <1>6, <1>10, <3>4, <3>5, <4>1
        <4> QED BY <1>10, <3>2, <3>4, <4>2
      <3> QED BY <1>7, <3>4, <3>6
    <2> QED BY <2>1, <2>2
  <1>12. ASSUME NEW p \in 1 .. M, kern[p].row = r PROVE p \in ki .. ki + take - 1
    <2>1. p >= ki
      BY <1>4, <1>6, <1>12
    <2>2. CASE ops[n + 1].kind = "cudaLaunchKernel"
      <3>1. SUFFICES ASSUME ki < p PROVE FALSE
        BY <1>6, <1>10, <2>1
      <3>2. kern[p].partner
        BY <1>6, <1>7, <1>12, <3>1 DEF InRowOrder
      <3>3. PICK k \in 1 .. N : kern[p].row = ops[k].row /\ ops[k].kind # "cudaLaunchKernel"
        BY <3>2 DEF InRowOrder
      <3>4. k # n + 1
        BY <2>2, <3>3
      <3>5. k < n + 1 \/ n + 1 < k
        BY <1>1, <3>4
      <3>6. ops[k].row # ops[n + 1].row
        <4>1. ops[k].row \in Nat /\ ops[n + 1].row \in Nat
          BY <1>1 DEF InRowOrder
        <4>2. ops[k].row < ops[n + 1].row \/ ops[n + 1].row < ops[k].row
          BY <1>1, <3>5 DEF InRowOrder
        <4> QED BY <4>1, <4>2
      <3> QED BY <1>2, <1>12, <3>3, <3>6
    <2>3. CASE ops[n + 1].kind # "cudaLaunchKernel"
      <3>1. SUFFICES ASSUME ki + take <= p PROVE FALSE
        BY <1>6, <1>10, <2>1
      <3>2. PICK e \in 1 .. M : e = ki + take
        <4>1. ki + take \in 1 .. M
          BY <1>1, <1>6, <1>10, <3>1
        <4> QED BY <4>1
      <3>3. ~kern[e].partner /\ ki < e /\ e <= p
        BY <1>1, <1>6, <1>10, <2>3, <3>1, <3>2
      <3>4. kern[ki].row <= kern[e].row /\ (e # p => kern[e].row <= kern[p].row)
        <4>1. e # p => e < p
          BY <3>3
        <4> QED BY <1>6, <3>3, <4>1 DEF InRowOrder
      <3>5. kern[e].row \in Nat /\ r \in Nat
        BY <1>1, <1>2 DEF InRowOrder
      <3>6. kern[e].row = r
        BY <1>7, <1>12, <3>4, <3>5
      <3>7. ki < e /\ kern[ki].row = kern[e].row => kern[e].partner
        BY <1>6 DEF InRowOrder
      <3> QED BY <1>7, <3>3, <3>6, <3>7
    <2> QED BY <2>2, <2>3
  <1>13. ki + take \in 1 .. M + 1
    BY <1>1, <1>6, <1>10
  <1>14. ASSUME NEW p \in 1 .. M
         PROVE  p < ki + take <=> \E m \in 1 .. n + 1 : kern[p].row = ops[m].row
    <2>1. p < ki + take <=> p < ki \/ p \in ki .. ki + take - 1
      BY <1>6, <1>10
    <2>2. p \in ki .. ki + take - 1 <=> kern[p].row = ops[n + 1].row
      BY <1>2, <1>11, <1>12
    <2>3. (\E m \in 1 .. n + 1 : kern[p].row = ops[m].row) <=>
             (\E m \in 1 .. n : kern[p].row = ops[m].row) \/ kern[p].row = ops[n + 1].row
      <3>1. 1 .. n + 1 = (1 .. n) \cup {n + 1}
        BY <1>1
      <3> QED BY <3>1
    <2> QED BY <2>1, <2>2, <2>3
  <1> QED BY <1>2, <1>6, <1>8, <1>9, <1>11, <1>12, <1>13, <1>14

KernelsOf(kern, M, row) == {kern[p].corr : p \in {q \in 1 .. M : kern[q].row = row}}

\* When every row has kernels, the loop gives every row its own, and ends
\* past the last.
LEMMA LoopExact ==
    ASSUME NEW kern, NEW ops, NEW M, NEW N, InRowOrder(kern, ops, M, N),
           \A n \in 1 .. N : \E p \in 1 .. M : kern[p].row = ops[n].row
    PROVE  Loop(Start, ops, kern) =
              [raised |-> FALSE, ki |-> M + 1, out |-> [n \in 1 .. N |-> KernelsOf(kern, M, ops[n].row)]]
  <1>1. M \in Nat /\ N \in Nat /\ Len(kern) = M /\ DOMAIN ops = 1 .. N
    BY DEF InRowOrder
  <1>2. PICK after : Looping(after, kern, ops, N) /\ Loop(Start, ops, kern) = after[N]
    BY Restarted
  <1> DEFINE Own(n) == [i \in 1 .. n |-> KernelsOf(kern, M, ops[i].row)]
             Good(n) == \E ki \in 1 .. M + 1 :
                /\ after[n] = [raised |-> FALSE, ki |-> ki, out |-> Own(n)]
                /\ \A p \in 1 .. M : p < ki <=> \E m \in 1 .. n : kern[p].row = ops[m].row
             S == {n \in 0 .. N : Good(n)}
  <1>3. 0 \in S
    <2>1. Own(0) = <<>>
      OBVIOUS
    <2>2. after[0] = [raised |-> FALSE, ki |-> 1, out |-> Own(0)]
      BY <1>2, <2>1 DEF Start, Looping
    <2>3. 1 \in 1 .. M + 1 /\ \A p \in 1 .. M : p < 1 <=> \E m \in 1 .. 0 : kern[p].row = ops[m].row
      BY <1>1
    <2> HIDE DEF Own
    <2>4. Good(0)
      BY <2>2, <2>3
    <2>5. 0 \in 0 .. N
      BY <1>1
    <2> HIDE DEF Good
    <2> QED BY <2>4, <2>5
  <1>4. ASSUME NEW n \in 0 .. N - 1, n \in S PROVE n + 1 \in S
    <2>1. n + 1 \in 0 .. N /\ n + 1 \in 1 .. N /\ n \in Nat
      BY <1>1
    <2>0. Good(n)
      <3> HIDE DEF Good
      <3> QED BY <1>4
    <2>2. PICK ki \in 1 .. M + 1 :
             /\ after[n] = [raised |-> FALSE, ki |-> ki, out |-> Own(n)]
             /\ \A p \in 1 .. M : p < ki <=> \E m \in 1 .. n : kern[p].row = ops[m].row
      <3> HIDE DEF Own
      <3> QED BY <2>0
    <2>3. PICK own : own = Own(n)
      OBVIOUS
    <2>4. PICK take : take = Takes(ops[n + 1], kern, ki)
      OBVIOUS
    <2>5. /\ ki \in 1 .. M /\ ~kern[ki].partner
          /\ ki + take \in 1 .. M + 1
          /\ \A p \in 1 .. M : p \in ki .. ki + take - 1 <=> kern[p].row = ops[n + 1].row
          /\ \A p \in 1 .. M : p < ki + take <=> \E m \in 1 .. n + 1 : kern[p].row = ops[m].row
      <3>1. \E p \in 1 .. M : kern[p].row = ops[n + 1].row
        BY <2>1
      <3>2. \A p \in 1 .. M : p < ki <=> \E m \in 1 .. n : kern[p].row = ops[m].row
        BY <2>2
      <3> HIDE DEF Own, Good, S
      <3> QED BY <2>4, <3>1, <3>2, RowTakesItsOwn
    <2>6. take \in 1 .. M - ki + 1
      BY <1>1, <2>4, <2>5, TakesBound
    <2>7. {kern[i].corr : i \in ki .. ki + take - 1} = KernelsOf(kern, M, ops[n + 1].row)
      <3>1. ki .. ki + take - 1 = {q \in 1 .. M : kern[q].row = ops[n + 1].row}
        <4>1. ki .. ki + take - 1 \subseteq 1 .. M
          BY <1>1, <2>5, <2>6
        <4> QED BY <2>5, <4>1
      <3> QED BY <3>1 DEF KernelsOf
    <2>8. PICK join : join = [raised |-> FALSE, ki |-> ki, out |-> own] /\ join = after[n]
      BY <2>2, <2>3
    <2>9. Takeable(join, kern)
      BY <1>1, <2>5, <2>8 DEF Takeable
    <2>10. PICK next : next = after[n + 1] /\ next = Assign(join, ops[n + 1], kern)
      BY <1>2, <2>8 DEF Looping
    <2>11. /\ next = [raised |-> next.raised, ki |-> next.ki, out |-> next.out]
           /\ ~next.raised /\ next.ki = join.ki + Takes(ops[n + 1], kern, join.ki)
           /\ next.out = Append(join.out, {kern[i].corr : i \in join.ki .. join.ki + Takes(ops[n + 1], kern, join.ki) - 1})
      <3>1. join = [raised |-> join.raised, ki |-> join.ki, out |-> join.out]
        BY <2>8
      <3> QED BY <2>9, <2>10, <3>1, AssignEither
    <2>12. next.ki = ki + take /\ next.out = Append(own, KernelsOf(kern, M, ops[n + 1].row))
      <3>1. join.ki = ki /\ join.out = own
        BY <2>8
      <3> QED BY <2>4, <2>7, <2>11, <3>1
    <2>13. Append(own, KernelsOf(kern, M, ops[n + 1].row)) = Own(n + 1)
      <3>1. own \in Seq({own[i] : i \in 1 .. n}) /\ Len(own) = n
        BY <2>1, <2>3
      <3> QED BY <2>1, <2>3, <3>1
    <2>14. next = [raised |-> FALSE, ki |-> ki + take, out |-> Own(n + 1)]
      <3> HIDE DEF Own
      <3>1. next.raised = FALSE
        BY <1>1, <2>8, <2>9, <2>10 DEF Assign, Takeable
      <3> QED BY <2>11, <2>12, <2>13, <3>1
    <2> HIDE DEF Own
    <2>15. Good(n + 1)
      BY <2>5, <2>10, <2>14
    <2> HIDE DEF Good
    <2> QED BY <2>1, <2>15
  <1> HIDE DEF S
  <1>5. N \in S
    <2>1. \A n \in 0 .. N : n \in S
      BY <1>1, <1>3, <1>4, Upward
    <2>2. N \in 0 .. N
      BY <1>1
    <2> QED BY <2>1, <2>2
  <1>6. PICK ki \in 1 .. M + 1 :
           /\ after[N] = [raised |-> FALSE, ki |-> ki, out |-> Own(N)]
           /\ \A p \in 1 .. M : p < ki <=> \E m \in 1 .. N : kern[p].row = ops[m].row
    <2>1. Good(N)
      <3> HIDE DEF Good
      <3> QED BY <1>5 DEF S
    <2> HIDE DEF Own
    <2> QED BY <2>1
  <1>7. ki = M + 1
    <2>1. SUFFICES ASSUME ki \in 1 .. M PROVE FALSE
      BY <1>1
    <2>2. \E m \in 1 .. N : kern[ki].row = ops[m].row
      BY <2>1 DEF InRowOrder
    <2>3. ki < ki
      BY <1>6, <2>1, <2>2
    <2> QED BY <2>1, <2>3
  <1> QED BY <1>2, <1>6, <1>7

(***************************************************************************)
(* The dump, joined to the issue log                                       *)
(***************************************************************************)
\* What is known of correlation ids, from their first use to the dump.
THEOREM CorrelationInductive == Spec => [](ObserverInv /\ CorrelationInv)
  <1>1. Init => ObserverInv /\ CorrelationInv
    BY InitObserver, InitCorrelation
  <1>2. ObserverInv /\ CorrelationInv /\ [Next]_vars => (ObserverInv /\ CorrelationInv)'
    BY NextObserver, NextCorrelation
  <1> QED BY <1>1, <1>2, PTL DEF Spec

\* Once dumped, the activities are the records of the files.
LEMMA DumpedActivities ==
    ASSUME ObserverInv, phase = "dumped"
    PROVE  Recorded = dump /\ Activities = dump
  <1>1. Recorded = dump
    BY DEF ObserverInv, DeliveryInv, Recorded
  <1>2. \A s \in Streams : Waiting(s) = {}
    BY DEF ObserverInv, GpuInv, Idle, Waiting
  <1>3. UNION {{fifo[s][k] : k \in Waiting(s)} : s \in Streams} = {}
    BY <1>2
  <1> QED BY <1>1, <1>3 DEF Activities

\* The k-th row of a copy and the k-th cudaMemcpyAsync record of the
\* scheduler are of one call, failed copies included, however many copies,
\* streams and threads there are.
LEMMA MemcpyByRank ==
    ASSUME ObserverInv, CorrelationInv, phase = "dumped"
    PROVE  /\ ~MemcpyJoin.raised /\ Exact(MemcpyJoin, "memcpy", {"cudaMemcpyAsync"})
           /\ DOMAIN MemcpyJoin.out = 1 .. Len(RowsOf({"cudaMemcpyAsync"}))
  <1> DEFINE Copies == {i \in DOMAIN issue : issue[i].kind \in {"cudaMemcpyAsync"}}
             Api == {r \in runtime \ Launches : r.tid = "sched"}
             N == Cardinality(Copies)
             ops == RowsOf({"cudaMemcpyAsync"})
             api == ByCorrelation(Api)
  <1>1. PICK first : LogInv(first) /\ RuntimeInv(first) /\ CausedInv(first)
    BY DEF CorrelationInv
  <1>2. Copies \in SUBSET Nat /\ IsFiniteSet(Copies)
    <2>1. DOMAIN issue = 1 .. Len(issue) /\ Len(issue) \in Nat
      BY DEF ObserverInv, GpuInv
    <2>2. IsFiniteSet(1 .. Len(issue))
      BY <2>1, FS_Interval
    <2>3. Copies \in SUBSET (1 .. Len(issue))
      BY <2>1
    <2> QED BY <2>1, <2>2, <2>3, FS_Subset
  <1>3. N \in Nat
    BY <1>2, FS_CardinalityType
  <1>4. Api = {Runtime(first[i], "cudaMemcpyAsync", "sched") : i \in Copies}
    <2>1. ASSUME NEW r \in Api PROVE \E i \in Copies : r = Runtime(first[i], "cudaMemcpyAsync", "sched")
      <3>1. r \in runtime /\ r.kind = "cudaMemcpyAsync" /\ r.tid = "sched"
        BY DEF Launches
      <3>2. r = Runtime(r.corr, r.kind, r.tid)
        BY <1>1, <3>1 DEF RuntimeInv
      <3>3. PICK i \in DOMAIN issue : issue[i].kind = "cudaMemcpyAsync" /\ r.corr = first[i]
        BY <1>1, <3>1 DEF RuntimeInv
      <3> QED BY <3>1, <3>2, <3>3
    <2>2. ASSUME NEW i \in Copies, NEW r, r = Runtime(first[i], "cudaMemcpyAsync", "sched")
          PROVE  r \in Api
      <3>1. r \in runtime
        BY <1>1, <2>2 DEF RuntimeInv
      <3>2. r.kind = "cudaMemcpyAsync" /\ r.tid = "sched"
        BY <2>2 DEF Runtime
      <3> QED BY <3>1, <3>2 DEF Launches
    <2> QED BY <2>1, <2>2
  <1>5. {r.corr : r \in Api} = {first[i] : i \in Copies}
    <2>1. \A i : Runtime(first[i], "cudaMemcpyAsync", "sched").corr = first[i]
      BY DEF Runtime
    <2> HIDE DEF Api, Copies
    <2> QED BY <1>4, <2>1
  <1> HIDE DEF Copies
  <1>6. /\ DOMAIN Sorted({r.corr : r \in Api}) = 1 .. N
        /\ \A n \in 1 .. N : Sorted({r.corr : r \in Api})[n] = first[Sorted(Copies)[n]]
    <2>1. \A i \in Copies : first[i] \in Nat
      BY <1>1 DEF LogInv, Copies
    <2>2. \A i, j \in Copies : i < j => first[i] < first[j]
      BY <1>1 DEF LogInv, Copies
    <2>3. PICK T : T = {r.corr : r \in Api} /\ (\A t : t \in T <=> \E i \in Copies : t = first[i])
      BY <1>5
    <2>4. PICK S : S = Copies
      OBVIOUS
    <2>5. S \in SUBSET Nat /\ IsFiniteSet(S) /\ (\A i \in S : first[i] \in Nat)
      BY <1>2, <2>1, <2>4
    <2>6. \A i, j \in S : i < j => first[i] < first[j]
      BY <2>2, <2>4
    <2>7. \A t : t \in T <=> \E i \in S : t = first[i]
      BY <2>3, <2>4
    <2>8. /\ DOMAIN Sorted(T) = 1 .. Cardinality(S)
          /\ \A n \in 1 .. Cardinality(S) : Sorted(T)[n] = first[Sorted(S)[n]]
      BY <2>5, <2>6, <2>7, SortedImage
    <2> QED BY <2>3, <2>4, <2>8
  <1>7. /\ DOMAIN Sorted(Copies) = 1 .. N
        /\ \A n \in 1 .. N : Sorted(Copies)[n] \in Copies
    BY <1>2, SortedAt
  <1>8. /\ DOMAIN ops = 1 .. N /\ Len(ops) = N
        /\ \A n \in 1 .. N : ops[n].row = Sorted(Copies)[n]
    <2>1. ops = [n \in 1 .. N |-> [row |-> Sorted(Copies)[n], kind |-> issue[Sorted(Copies)[n]].kind]]
      BY <1>7 DEF RowsOf, Copies
    <2> HIDE DEF ops
    <2>2. ops \in Seq({ops[n] : n \in 1 .. N})
      BY <1>3, <2>1
    <2> QED BY <1>3, <2>1, <2>2
  <1>9. /\ DOMAIN api = 1 .. N /\ Len(api) = N
        /\ \A n \in 1 .. N : api[n].corr = first[Sorted(Copies)[n]]
    <2>1. PICK ids : ids = Sorted({r.corr : r \in Api})
      OBVIOUS
    <2>2. DOMAIN ids = 1 .. N /\ \A n \in 1 .. N : ids[n] = first[Sorted(Copies)[n]]
      BY <1>6, <2>1
    <2>3. api = [n \in DOMAIN ids |-> CHOOSE r \in Api : r.corr = ids[n]]
      BY <2>1 DEF ByCorrelation
    <2> HIDE DEF api
    <2>4. api \in Seq({api[n] : n \in 1 .. N})
      BY <1>3, <2>2, <2>3
    <2>5. ASSUME NEW n \in 1 .. N PROVE api[n].corr = first[Sorted(Copies)[n]]
      <3>1. ids[n] \in {r.corr : r \in Api}
        BY <1>5, <1>7, <2>2
      <3>2. \E r \in Api : r.corr = ids[n]
        BY <3>1
      <3>3. api[n] = CHOOSE r \in Api : r.corr = ids[n]
        BY <2>2, <2>3
      <3> QED BY <2>2, <3>2, <3>3
    <2> QED BY <1>3, <2>2, <2>3, <2>4, <2>5
  <1>10. ASSUME NEW n \in 1 .. N
         PROVE  {r.corr : r \in {x \in dump : x.what = "memcpy" /\ x.corr = api[n].corr}} =
                   Caused("memcpy", ops[n].row)
    <2>1. PICK i \in Copies : i = Sorted(Copies)[n] /\ i = ops[n].row /\ first[i] = api[n].corr
      BY <1>7, <1>8, <1>9
    <2>2. ASSUME NEW x \in dump, x.what = "memcpy" PROVE x.corr = first[i] <=> x.row = i
      <3>1. CausedBy(first, x)
        BY <1>1, DumpedActivities DEF CausedInv
      <3>2. x.row # 0
        BY <2>2, <3>1 DEF CausedBy
      <3>3. x.row \in DOMAIN issue /\ ~x.partner
        BY <2>2, <3>1, <3>2 DEF CausedBy
      <3>4. first[x.row] \in Nat /\ x.corr = first[x.row] + 0
        BY <1>1, <3>1, <3>2, <3>3 DEF CausedBy, LogInv
      <3>5. x.corr = first[x.row]
        BY <3>4
      <3>6. first[i] = first[x.row] => x.row = i
        <4>1. i \in DOMAIN issue /\ i \in Nat /\ x.row \in Nat
          BY <1>2, <3>3 DEF Copies, ObserverInv, GpuInv
        <4>2. first[i] \in Nat /\ (i < x.row => first[i] < first[x.row])
              /\ (x.row < i => first[x.row] < first[i])
          BY <1>1, <3>3, <4>1 DEF LogInv
        <4> QED BY <3>4, <4>1, <4>2
      <3> QED BY <3>5, <3>6
    <2>3. {x \in dump : x.what = "memcpy" /\ x.corr = api[n].corr} =
             {x \in dump : x.what = "memcpy" /\ x.row = i}
      BY <2>1, <2>2
    <2> QED BY <2>1, <2>3 DEF Caused
  <1> HIDE DEF ops, api
  <1>11. /\ MemcpyJoin.raised = (Len(api) # Len(ops))
         /\ MemcpyJoin.out =
               [n \in DOMAIN api |->
                  {r.corr : r \in {x \in dump : x.what = "memcpy" /\ x.corr = api[n].corr}}]
    BY DEF MemcpyJoin, ops, api
  <1>12. ~MemcpyJoin.raised
    BY <1>8, <1>9, <1>11
  <1>13. Len(MemcpyJoin.out) = N /\ DOMAIN MemcpyJoin.out = 1 .. N /\ \A n \in 1 .. N : MemcpyJoin.out[n] = Caused("memcpy", ops[n].row)
    <2>1. PICK out : out = MemcpyJoin.out
      OBVIOUS
    <2>2. out = [n \in 1 .. N |-> Caused("memcpy", ops[n].row)]
      BY <1>9, <1>10, <1>11, <2>1
    <2>3. out \in Seq({out[n] : n \in 1 .. N})
      BY <1>3, <2>2
    <2> QED BY <1>3, <2>1, <2>2, <2>3
  <1> QED BY <1>8, <1>12, <1>13 DEF Exact, ops

\* The copies' join never raises, and gives every row of a copy what the row
\* put on the GPU.
THEOREM CopiesJoined == Spec => []MemcpyJoinExact
  <1>1. ObserverInv /\ CorrelationInv => MemcpyJoinExact
    BY MemcpyByRank DEF MemcpyJoinExact
  <1> QED BY <1>1, CorrelationInductive, PTL
\* What the dump tells of the log.
DumpInIssueOrder ==
    /\ \A x \in dump : x.corr \in Nat /\ x.what \in {"kernel", "memcpy"}
    /\ \A x, y \in dump : x.corr = y.corr => x = y
    /\ \A x, y \in dump : x.stream = y.stream /\ x.corr < y.corr => x.end < y.end
    /\ \A x \in dump : x.row # 0 =>
          /\ x.row \in DOMAIN issue /\ issue[x.row].ok /\ x.stream = issue[x.row].stream
          /\ x.from = "sched"
          /\ x.what = "memcpy" <=> issue[x.row].kind = "cudaMemcpyAsync"
          /\ x.partner => issue[x.row].kind = "cublasGemmEx"
    /\ \A x, y \in dump : x.row # 0 /\ y.row # 0 /\ x.corr < y.corr =>
          x.row <= y.row /\ (x.row = y.row => ~x.partner /\ y.partner)
    /\ \A i \in DOMAIN issue : issue[i].ok => \E x \in dump : x.row = i /\ ~x.partner
    /\ \A x \in dump : x.partner =>
          x.row # 0 /\ \E y \in dump : y.row = x.row /\ ~y.partner /\ y.corr < x.corr
    /\ \A x \in dump : x.row = 0 => x.what = "kernel" /\ x.from # "sched"
    /\ \A x \in dump, r \in runtime : r.corr = x.corr => r.tid = x.from
    /\ ~DriverLaunches => \A x \in Kernels(dump) :
          x.row = 0 => \E r \in Launches : r.corr = x.corr /\ r.tid = x.from

LEMMA DumpedInIssueOrder ==
    ASSUME ObserverInv, CorrelationInv, phase = "dumped"
    PROVE  DumpInIssueOrder
  <1>1. PICK first : LogInv(first) /\ RuntimeInv(first) /\ CausedInv(first)
    BY DEF CorrelationInv
  <1>2. \A x \in dump : CausedBy(first, x)
    BY <1>1, DumpedActivities DEF CausedInv
  <1>3. DOMAIN issue = 1 .. Len(issue) /\ Len(issue) \in Nat /\ corr \in Nat
    BY DEF ObserverInv, GpuInv
  <1>4. \A i \in DOMAIN issue : first[i] \in Nat
    BY <1>1 DEF LogInv
  <1>5. ASSUME NEW x \in dump
        PROVE  x.corr \in Nat /\ x.what \in {"kernel", "memcpy"}
    BY <1>2, <1>3 DEF CausedBy
  <1>6. /\ \A x, y \in dump : x.corr = y.corr => x = y
        /\ \A x, y \in dump : x.stream = y.stream /\ x.corr < y.corr => x.end < y.end
    BY DumpedActivities DEF CorrelationInv, OrderInv
  <1>7. ASSUME NEW x \in dump, x.row # 0
        PROVE  /\ x.row \in DOMAIN issue /\ issue[x.row].ok /\ x.stream = issue[x.row].stream
               /\ x.from = "sched"
               /\ x.what = "memcpy" <=> issue[x.row].kind = "cudaMemcpyAsync"
               /\ x.partner => issue[x.row].kind = "cublasGemmEx"
               /\ x.row \in Nat /\ first[x.row] \in Nat
               /\ x.corr = first[x.row] + (IF x.partner THEN 1 ELSE 0)
               /\ \A j \in DOMAIN issue : x.row < j => x.corr < first[j]
    <2>1. CausedBy(first, x)
      BY <1>2
    <2>2. x.row \in DOMAIN issue
      BY <1>7, <2>1 DEF CausedBy
    <2>3. x.row \in Nat /\ first[x.row] \in Nat
      BY <1>3, <1>4, <2>2
    <2> QED BY <1>7, <2>1, <2>3 DEF CausedBy
  <1>8. ASSUME NEW x \in dump, NEW y \in dump, x.row # 0, y.row # 0, x.corr < y.corr
        PROVE  x.row <= y.row /\ (x.row = y.row => ~x.partner /\ y.partner)
    <2>1. x.row \in Nat /\ y.row \in Nat /\ x.corr \in Nat /\ y.corr \in Nat
      BY <1>5, <1>7, <1>8
    <2>2. ~(y.row < x.row)
      <3>1. SUFFICES ASSUME y.row < x.row PROVE FALSE
        OBVIOUS
      <3>2. y.corr < first[x.row] /\ first[x.row] \in Nat
        BY <1>7, <1>8, <3>1
      <3>3. first[x.row] <= x.corr
        BY <1>7, <1>8
      <3> QED BY <1>8, <2>1, <3>2, <3>3
    <2>3. ASSUME x.row = y.row PROVE ~x.partner /\ y.partner
      <3>1. PICK f \in Nat : f = first[x.row]
        BY <1>7, <1>8
      <3>2. x.corr = f + (IF x.partner THEN 1 ELSE 0) /\ y.corr = f + (IF y.partner THEN 1 ELSE 0)
        BY <1>7, <1>8, <2>3, <3>1
      <3>3. CASE x.partner
        BY <1>8, <3>2, <3>3
      <3>4. CASE ~x.partner /\ ~y.partner
        BY <1>8, <3>2, <3>4
      <3> QED BY <3>3, <3>4
    <2> QED BY <2>1, <2>2, <2>3
  <1>9. ASSUME NEW i \in DOMAIN issue, issue[i].ok PROVE \E x \in dump : x.row = i /\ ~x.partner
    BY <1>1, <1>9, DumpedActivities DEF CausedInv
  <1>10. ASSUME NEW x \in dump, x.partner
         PROVE  x.row # 0 /\ \E y \in dump : y.row = x.row /\ ~y.partner /\ y.corr < x.corr
    <2>1. x.row # 0
      BY <1>2, <1>10 DEF CausedBy
    <2>2. PICK y \in dump : y.row = x.row /\ ~y.partner
      BY <1>7, <1>9, <2>1
    <2>3. PICK f \in Nat : f = first[x.row]
      BY <1>7, <2>1
    <2>4. x.corr = f + 1
      BY <1>7, <1>10, <2>1, <2>3
    <2>5. y.corr = f + 0
      BY <1>7, <2>1, <2>2, <2>3
    <2> QED BY <2>1, <2>2, <2>4, <2>5
  <1>11. ASSUME NEW x \in dump, x.row = 0 PROVE x.what = "kernel" /\ x.from # "sched"
    BY <1>2, <1>11 DEF CausedBy
  <1>12. ASSUME ~DriverLaunches, NEW x \in Kernels(dump), x.row = 0
         PROVE  \E r \in Launches : r.corr = x.corr /\ r.tid = x.from
    <2>1. x \in dump /\ CausedBy(first, x)
      BY <1>2 DEF Kernels
    <2>2. PICK r \in runtime : r.corr = x.corr /\ r.kind = "cudaLaunchKernel" /\ r.tid = x.from
      BY <1>12, <2>1 DEF CausedBy
    <2> QED BY <2>2 DEF Launches
  <1>14. ASSUME NEW x \in dump, NEW r \in runtime, r.corr = x.corr PROVE r.tid = x.from
    BY <1>2, <1>14 DEF CausedBy
  <1>13. \A x \in dump : x.row # 0 =>
          /\ x.row \in DOMAIN issue /\ issue[x.row].ok /\ x.stream = issue[x.row].stream
          /\ x.from = "sched"
          /\ x.what = "memcpy" <=> issue[x.row].kind = "cudaMemcpyAsync"
          /\ x.partner => issue[x.row].kind = "cublasGemmEx"
    BY <1>7
  <1> QED BY <1>5, <1>6, <1>8, <1>9, <1>10, <1>11, <1>12, <1>13, <1>14 DEF DumpInIssueOrder

\* Once everything is written, the order of the ids is the order of the log.
THEOREM DumpTellsIssueOrder == Spec => [](phase = "dumped" => DumpInIssueOrder)
  <1>1. ObserverInv /\ CorrelationInv => (phase = "dumped" => DumpInIssueOrder)
    BY DumpedInIssueOrder
  <1> QED BY <1>1, CorrelationInductive, PTL

LEMMA LoggedKinds ==
    ASSUME ObserverInv, NEW i \in DOMAIN issue
    PROVE  issue[i].kind \in IssueKinds
  <1>1. PICK Row : /\ Row = [stream : Stream, kind : IssueKinds, ok : BOOLEAN]
                   /\ issue \in Seq(Row)
    BY DEF ObserverInv, GpuInv
  <1>2. i \in 1 .. Len(issue)
    BY <1>1, LenProperties
  <1>3. issue[i] \in Row
    BY <1>1, <1>2, ElementOfSeq
  <1> QED BY <1>1, <1>3

\* The kernels that the join looks at are those of the log's calls.
LEMMA SchedulersKernels ==
    ASSUME ObserverInv, DumpInIssueOrder, phase = "dumped", ~DriverLaunches
    PROVE  \E M, N :
              /\ InRowOrder(SchedKernels, RowsOf(KernelKinds), M, N)
              /\ Len(RowsOf(KernelKinds)) = N
              /\ \A n \in 1 .. N : RowsOf(KernelKinds)[n].row \in DOMAIN issue
                                   /\ issue[RowsOf(KernelKinds)[n].row].kind \in KernelKinds
              /\ \A i \in DOMAIN issue : issue[i].kind \in KernelKinds =>
                    \E n \in 1 .. N : RowsOf(KernelKinds)[n].row = i
              /\ \A p \in 1 .. M : SchedKernels[p] \in dump /\ SchedKernels[p].what = "kernel"
              /\ \A x \in dump : x.what = "kernel" /\ x.row # 0 =>
                    \E p \in 1 .. M : SchedKernels[p] = x
  <1>1. PICK R : R = {k \in Kernels(dump) : ~Foreign(k)}
    OBVIOUS
  <1>2. R = {x \in dump : x.what = "kernel" /\ x.row # 0}
    <2>1. ASSUME NEW x \in dump, x.what = "kernel" PROVE Foreign(x) <=> x.row = 0
      <3>1. x \in Kernels(dump)
        BY <2>1 DEF Kernels
      <3>2. ASSUME x.row = 0 PROVE Foreign(x)
        <4>1. PICK r \in Launches : r.corr = x.corr /\ r.tid = x.from
          BY <3>1, <3>2 DEF DumpInIssueOrder
        <4>2. x.from # "sched"
          BY <3>2 DEF DumpInIssueOrder
        <4> QED BY <4>1, <4>2 DEF Foreign
      <3>3. ASSUME Foreign(x) PROVE x.row = 0
        <4>1. PICK r \in Launches : r.corr = x.corr /\ r.tid # "sched"
          BY <3>3 DEF Foreign
        <4>2. r \in runtime
          BY DEF Launches
        <4> QED BY <4>1, <4>2 DEF DumpInIssueOrder
      <3> QED BY <3>2, <3>3
    <2> QED BY <1>1, <2>1 DEF Kernels
  <1>3. IsFiniteSet(R) /\ (\A x \in R : x.corr \in Nat) /\ \A x, y \in R : x.corr = y.corr => x = y
    <2>1. IsFiniteSet(dump)
      BY DEF ObserverInv, DeliveryInv
    <2>2. R \in SUBSET dump
      BY <1>2
    <2>3. IsFiniteSet(R)
      BY <2>1, <2>2, FS_Subset
    <2> QED BY <2>2, <2>3 DEF DumpInIssueOrder
  <1>4. PICK kern : kern = SchedKernels /\ kern = ByCorrelation(R)
    BY <1>1 DEF SchedKernels
  <1>5. PICK M \in Nat : InIdOrder(kern, R, M)
    BY <1>3, <1>4, ByCorrelationAt
  <1>6. PICK ops : ops = RowsOf(KernelKinds)
    OBVIOUS
  <1>7. DOMAIN issue = 1 .. Len(issue) /\ Len(issue) \in Nat
    BY DEF ObserverInv, GpuInv
  <1>8. PICK N \in Nat : InLogOrder(ops, KernelKinds, N)
    BY <1>6, <1>7, RowsOfAt
  <1>9. ASSUME NEW p \in 1 .. M
        PROVE  \E n \in 1 .. N :
                  kern[p].row = ops[n].row /\ (kern[p].partner => ops[n].kind # "cudaLaunchKernel")
    <2>1. PICK x \in dump : x = kern[p] /\ x.what = "kernel" /\ x.row # 0
      BY <1>2, <1>5 DEF InIdOrder
    <2>2. /\ x.row \in DOMAIN issue /\ issue[x.row].kind # "cudaMemcpyAsync"
          /\ x.partner => issue[x.row].kind = "cublasGemmEx"
      BY <2>1 DEF DumpInIssueOrder
    <2>3. issue[x.row].kind \in KernelKinds
      <3>1. issue[x.row].kind \in IssueKinds
        BY <2>2, LoggedKinds
      <3> QED BY <2>2, <3>1, KindsAssumption DEF KernelKinds
    <2>4. PICK n \in 1 .. N : ops[n].row = x.row
      BY <1>8, <2>2, <2>3 DEF InLogOrder
    <2> QED BY <1>8, <2>1, <2>2, <2>4 DEF InLogOrder
  <1>10. ASSUME NEW p \in 1 .. M, NEW q \in 1 .. M, p < q
         PROVE  /\ kern[p].row <= kern[q].row
                /\ kern[p].row = kern[q].row => ~kern[p].partner /\ kern[q].partner
    <2>1. /\ kern[p] \in dump /\ kern[p].row # 0 /\ kern[q] \in dump /\ kern[q].row # 0
          /\ kern[p].corr < kern[q].corr
      BY <1>2, <1>5, <1>10 DEF InIdOrder
    <2> QED BY <2>1 DEF DumpInIssueOrder
  <1>11. ASSUME NEW p \in 1 .. M, kern[p].partner
         PROVE  \E q \in 1 .. M : q < p /\ kern[q].row = kern[p].row /\ ~kern[q].partner
    <2>1. PICK x \in dump : x = kern[p] /\ x.what = "kernel" /\ x.row # 0
      BY <1>2, <1>5 DEF InIdOrder
    <2>2. PICK y \in dump : y.row = x.row /\ ~y.partner /\ y.corr < x.corr
      BY <1>11, <2>1 DEF DumpInIssueOrder
    <2>3. y.what = "kernel"
      BY <2>1, <2>2 DEF DumpInIssueOrder
    <2>4. PICK q \in 1 .. M : kern[q] = y
      BY <1>2, <1>5, <2>1, <2>2, <2>3 DEF InIdOrder
    <2>5. ~(p < q) /\ p # q
      <3>1. x.corr \in Nat /\ y.corr \in Nat
        BY DEF DumpInIssueOrder
      <3> QED BY <1>5, <2>1, <2>2, <2>4, <3>1 DEF InIdOrder
    <2> QED BY <1>5, <2>1, <2>2, <2>4, <2>5
  <1>12. InRowOrder(kern, ops, M, N)
    <2>1. \A n \in 1 .. N : ops[n].row \in Nat \ {0}
      BY <1>7, <1>8 DEF InLogOrder
    <2> QED BY <1>5, <1>8, <1>9, <1>10, <1>11, <2>1 DEF InRowOrder, InIdOrder, InLogOrder
  <1>13. \A p \in 1 .. M : kern[p] \in dump /\ kern[p].what = "kernel"
    BY <1>2, <1>5 DEF InIdOrder
  <1>14. \A x \in dump : x.what = "kernel" /\ x.row # 0 => \E p \in 1 .. M : kern[p] = x
    BY <1>2, <1>5 DEF InIdOrder
  <1>15. \A n \in 1 .. N : ops[n].row \in DOMAIN issue /\ issue[ops[n].row].kind \in KernelKinds
    BY <1>8 DEF InLogOrder
  <1> QED BY <1>4, <1>6, <1>8, <1>12, <1>13, <1>14, <1>15 DEF InLogOrder

\* The order join, when no launch of another thread goes unrecorded: it does
\* not raise exactly when all rows had succeeded, and is exact then.
LEMMA KernelsByOrder ==
    ASSUME ObserverInv, DumpInIssueOrder, phase = "dumped", ~DriverLaunches
    PROVE  /\ KernelJoin.raised <=> \E i \in DOMAIN issue : issue[i].kind \in KernelKinds /\ ~issue[i].ok
           /\ ~KernelJoin.raised => Exact(KernelJoin, "kernel", KernelKinds)
  <1>1. PICK kern, ops : kern = SchedKernels /\ ops = RowsOf(KernelKinds)
    OBVIOUS
  <1>2. PICK M, N :
          /\ InRowOrder(kern, ops, M, N)
          /\ Len(ops) = N
          /\ \A n \in 1 .. N : ops[n].row \in DOMAIN issue /\ issue[ops[n].row].kind \in KernelKinds
          /\ \A i \in DOMAIN issue : issue[i].kind \in KernelKinds => \E n \in 1 .. N : ops[n].row = i
          /\ \A p \in 1 .. M : kern[p] \in dump /\ kern[p].what = "kernel"
          /\ \A x \in dump : x.what = "kernel" /\ x.row # 0 => \E p \in 1 .. M : kern[p] = x
    BY <1>1, SchedulersKernels
  <1>3. PICK join : join = Loop(Start, ops, kern)
    OBVIOUS
  <1>4. M \in Nat /\ N \in Nat /\ Len(kern) = M /\ DOMAIN ops = 1 .. N
        /\ \A n \in 1 .. N : ops[n].row # 0
    BY <1>2 DEF InRowOrder
  <1>5. join = [raised |-> join.raised, ki |-> join.ki, out |-> join.out]
    <2>1. PICK after : Looping(after, kern, ops, N) /\ Loop(Start, ops, kern) = after[N]
      BY <1>2, Restarted
    <2>2. N \in 0 .. N
      BY <1>4
    <2>3. Standing(after[N], M)
      BY <1>4, <2>1, <2>2, LoopTypes
    <2> QED BY <1>3, <2>1, <2>3 DEF Standing
  <1>6. KernelJoin = [join EXCEPT !.raised = @ \/ join.ki # M + 1]
    <2>1. KernelJoin = [Loop(Start, RowsOf(KernelKinds), SchedKernels) EXCEPT
             !.raised = @ \/ Loop(Start, RowsOf(KernelKinds), SchedKernels).ki # Len(SchedKernels) + 1]
      BY Zenon DEF KernelJoin, Loop, Start
    <2>2. KernelJoin = [join EXCEPT !.raised = @ \/ join.ki # Len(kern) + 1]
      BY <1>1, <1>3, <2>1
    <2> QED BY <1>4, <2>2
  <1>7. /\ KernelJoin.raised = (join.raised \/ join.ki # M + 1)
        /\ KernelJoin.out = join.out
    BY <1>5, <1>6
  <1>8. ASSUME NEW n \in 1 .. N
        PROVE  issue[ops[n].row].ok <=> \E p \in 1 .. M : kern[p].row = ops[n].row
    <2>1. ASSUME issue[ops[n].row].ok PROVE \E p \in 1 .. M : kern[p].row = ops[n].row
      <3>1. PICK x \in dump : x.row = ops[n].row
        BY <1>2, <2>1 DEF DumpInIssueOrder
      <3>2. x.what = "kernel"
        BY <1>2, <1>4, <3>1 DEF DumpInIssueOrder, KernelKinds
      <3> QED BY <1>2, <1>4, <3>1, <3>2
    <2>2. ASSUME NEW p \in 1 .. M, kern[p].row = ops[n].row PROVE issue[ops[n].row].ok
      BY <1>2, <1>4, <2>2 DEF DumpInIssueOrder
    <2> QED BY <2>1, <2>2
  <1>9. CASE \E i \in DOMAIN issue : issue[i].kind \in KernelKinds /\ ~issue[i].ok
    <2>1. PICK n \in 1 .. N : ~issue[ops[n].row].ok
      BY <1>2, <1>9
    <2>2. join.raised
      BY <1>2, <1>3, <1>8, <2>1, LoopCounts
    <2> QED BY <1>7, <1>9, <2>2
  <1>10. CASE ~\E i \in DOMAIN issue : issue[i].kind \in KernelKinds /\ ~issue[i].ok
    <2>1. \A n \in 1 .. N : \E p \in 1 .. M : kern[p].row = ops[n].row
      BY <1>2, <1>8, <1>10
    <2>2. join = [raised |-> FALSE, ki |-> M + 1, out |-> [n \in 1 .. N |-> KernelsOf(kern, M, ops[n].row)]]
      BY <1>2, <1>3, <2>1, LoopExact
    <2>3. PICK out : out = [n \in 1 .. N |-> KernelsOf(kern, M, ops[n].row)]
      OBVIOUS
    <2>4. join.raised = FALSE /\ join.ki = M + 1 /\ join.out = out
      BY <2>2, <2>3
    <2>5. ~KernelJoin.raised /\ KernelJoin.out = out
      BY <1>7, <2>4
    <2>6. ASSUME NEW n \in 1 .. N PROVE out[n] = Caused("kernel", ops[n].row)
      <3>1. out[n] = KernelsOf(kern, M, ops[n].row)
        BY <2>3
      <3>2. ASSUME NEW x \in dump, x.what = "kernel", x.row = ops[n].row
            PROVE  \E p \in 1 .. M : kern[p] = x
        BY <1>2, <1>4, <3>2
      <3>3. {kern[p] : p \in {q \in 1 .. M : kern[q].row = ops[n].row}} =
               {x \in dump : x.what = "kernel" /\ x.row = ops[n].row}
        BY <1>2, <3>2
      <3>4. KernelsOf(kern, M, ops[n].row) =
               {x.corr : x \in {kern[p] : p \in {q \in 1 .. M : kern[q].row = ops[n].row}}}
        BY DEF KernelsOf
      <3> QED BY <3>1, <3>3, <3>4 DEF Caused
    <2>7. Len(out) = N
      <3>1. out \in Seq({out[n] : n \in 1 .. N}) /\ DOMAIN out = 1 .. N
        BY <1>4, <2>3
      <3> QED BY <1>4, <3>1
    <2>8. Exact(KernelJoin, "kernel", KernelKinds)
      BY <1>1, <1>2, <1>4, <2>5, <2>6, <2>7 DEF Exact
    <2> QED BY <1>10, <2>5, <2>8
  <1> QED BY <1>9, <1>10

\* The launches' join gives every row exactly what it put on the GPU, and
\* raises only when a replayed launch had failed: for any number of
\* streams and launches, when all launches leave a RUNTIME record.
THEOREM KernelsJoined ==
    ASSUME ~DriverLaunches
    PROVE  Spec => []KernelJoinExact
  <1>1. ObserverInv /\ CorrelationInv => KernelJoinExact
    BY DumpedInIssueOrder, KernelsByOrder DEF KernelJoinExact
  <1> QED BY <1>1, CorrelationInductive, PTL
\* Of two kernels' rows on one stream the earlier one ends first.
LEMMA RowsEndInOrder ==
    ASSUME DumpInIssueOrder, ObserverInv, phase = "dumped",
           NEW i \in DOMAIN issue, NEW j \in DOMAIN issue, i < j,
           issue[i].stream = issue[j].stream, issue[i].ok, issue[j].ok,
           issue[i].kind \in KernelKinds, issue[j].kind \in KernelKinds,
           NEW A, A = {k.end : k \in {x \in dump : x.corr \in Caused("kernel", i)}},
           NEW B, B = {k.end : k \in {x \in dump : x.corr \in Caused("kernel", j)}}
    PROVE  ~(Min(A) > Min(B))
  <1>1. ASSUME NEW l \in DOMAIN issue, issue[l].ok, issue[l].kind \in KernelKinds
        PROVE  /\ \A x \in dump : x.corr \in Caused("kernel", l) <=> x.row = l
               /\ \E x \in dump : x.row = l
    <2>1. \A x \in dump : x.row = l => x.what = "kernel"
      <3>1. DOMAIN issue = 1 .. Len(issue) /\ l # 0
        BY DEF ObserverInv, GpuInv
      <3> QED BY <1>1, <3>1 DEF DumpInIssueOrder, KernelKinds
    <2>2. \A x, y \in dump : x.corr = y.corr => x = y
      BY DEF DumpInIssueOrder
    <2>3. \A x \in dump : x.corr \in Caused("kernel", l) <=> x.row = l
      BY <2>1, <2>2 DEF Caused
    <2> QED BY <1>1, <2>3 DEF DumpInIssueOrder
  <1>2. \A x \in dump : x.end \in Nat
    <2>1. \A x \in dump : x.end \in 1 .. end
      BY DEF ObserverInv, DeliveryInv
    <2>2. end \in Nat
      BY DEF ObserverInv, GpuInv
    <2> QED BY <2>1, <2>2
  <1>3. /\ A = {x.end : x \in {y \in dump : y.row = i}}
        /\ B = {x.end : x \in {y \in dump : y.row = j}}
    BY <1>1
  <1>4. A \subseteq Nat /\ A # {} /\ B \subseteq Nat /\ B # {}
    BY <1>1, <1>2, <1>3
  <1>5. ASSUME NEW a \in A, NEW b \in B PROVE a < b
    <2>1. PICK x \in dump, y \in dump : x.row = i /\ y.row = j /\ a = x.end /\ b = y.end
      BY <1>3
    <2>2. i \in Nat \ {0} /\ j \in Nat \ {0}
      BY DEF ObserverInv, GpuInv
    <2>3. x.stream = y.stream
      BY <2>1, <2>2 DEF DumpInIssueOrder
    <2>4. x.corr < y.corr
      <3>1. x.corr \in Nat /\ y.corr \in Nat /\ x.corr # y.corr
        BY <2>1, <2>2 DEF DumpInIssueOrder
      <3>2. ~(y.corr < x.corr)
        <4>1. SUFFICES ASSUME y.corr < x.corr PROVE FALSE
          OBVIOUS
        <4>2. y.row <= x.row
          BY <2>1, <2>2, <4>1 DEF DumpInIssueOrder
        <4> QED BY <2>1, <2>2, <4>2
      <3> QED BY <3>1, <3>2
    <2> QED BY <2>1, <2>3, <2>4 DEF DumpInIssueOrder
  <1>6. Min(A) \in A /\ Min(B) \in B
    BY <1>4, MinTaken
  <1>7. Min(A) < Min(B)
    BY <1>5, <1>6
  <1>8. Min(A) \in Nat /\ Min(B) \in Nat
    BY <1>4, <1>6
  <1> QED BY <1>7, <1>8

\* A copy's row has no record of the GPU exactly when its call had failed.
LEMMA CopiesWithout ==
    ASSUME ObserverInv, CorrelationInv, DumpInIssueOrder, phase = "dumped"
    PROVE  (\E i \in DOMAIN MemcpyJoin.out : MemcpyJoin.out[i] = {}) <=>
              \E i \in DOMAIN issue : issue[i].kind = "cudaMemcpyAsync" /\ ~issue[i].ok
  <1>1. PICK ops : ops = RowsOf({"cudaMemcpyAsync"})
    OBVIOUS
  <1>2. DOMAIN issue = 1 .. Len(issue) /\ Len(issue) \in Nat
    BY DEF ObserverInv, GpuInv
  <1>3. PICK N \in Nat : InLogOrder(ops, {"cudaMemcpyAsync"}, N)
    BY <1>1, <1>2, RowsOfAt
  <1>4. DOMAIN ops = 1 .. N /\ Len(ops) = N
    BY <1>3 DEF InLogOrder
  <1>5. DOMAIN MemcpyJoin.out = 1 .. N /\ \A n \in 1 .. N : MemcpyJoin.out[n] = Caused("memcpy", ops[n].row)
    BY <1>1, <1>4, MemcpyByRank DEF Exact
  <1>6. ASSUME NEW i \in DOMAIN issue, issue[i].kind = "cudaMemcpyAsync"
        PROVE  Caused("memcpy", i) = {} <=> ~issue[i].ok
    <2>1. i # 0
      BY <1>2
    <2>2. ASSUME issue[i].ok PROVE Caused("memcpy", i) # {}
      <3>1. PICK x \in dump : x.row = i
        BY <2>2 DEF DumpInIssueOrder
      <3>2. x.what = "memcpy"
        BY <1>6, <2>1, <3>1 DEF DumpInIssueOrder
      <3> QED BY <3>1, <3>2 DEF Caused
    <2>3. ASSUME ~issue[i].ok PROVE Caused("memcpy", i) = {}
      <3>1. \A x \in dump : x.row # i
        BY <2>1, <2>3 DEF DumpInIssueOrder
      <3> QED BY <3>1 DEF Caused
    <2> QED BY <2>2, <2>3
  <1>7. ASSUME NEW n \in 1 .. N
        PROVE  ops[n].row \in DOMAIN issue /\ issue[ops[n].row].kind = "cudaMemcpyAsync"
    BY <1>3 DEF InLogOrder
  <1>8. ASSUME NEW i \in DOMAIN issue, issue[i].kind = "cudaMemcpyAsync"
        PROVE  \E n \in 1 .. N : ops[n].row = i
    BY <1>3, <1>8 DEF InLogOrder
  <1>9. ASSUME NEW n \in 1 .. N, MemcpyJoin.out[n] = {}
        PROVE  \E i \in DOMAIN issue : issue[i].kind = "cudaMemcpyAsync" /\ ~issue[i].ok
    BY <1>5, <1>6, <1>7, <1>9
  <1>10. ASSUME NEW i \in DOMAIN issue, issue[i].kind = "cudaMemcpyAsync", ~issue[i].ok
         PROVE  \E n \in 1 .. N : MemcpyJoin.out[n] = {}
    <2>1. PICK n \in 1 .. N : ops[n].row = i
      BY <1>8, <1>10
    <2> QED BY <1>5, <1>6, <1>10, <2>1
  <1> QED BY <1>5, <1>9, <1>10

\* A leak is a kernel that a client launched in the mode's window.
LEMMA LeaksAreSeen ==
    ASSUME DumpInIssueOrder, ~DriverLaunches
    PROVE  Leaked # {} <=> \E k \in dump : k.from = "client" /\ k.window
  <1>1. ASSUME NEW k \in Leaked PROVE k \in dump /\ k.from = "client" /\ k.window
    <2>1. PICK r \in Launches : r.corr = k.corr /\ r.tid = "client"
      BY DEF Leaked
    <2>2. k \in Kernels(dump) /\ k \in dump /\ k.window /\ r \in runtime
      BY DEF Leaked, Kernels, Launches
    <2> QED BY <2>1, <2>2 DEF DumpInIssueOrder
  <1>2. ASSUME NEW k \in dump, k.from = "client", k.window PROVE k \in Leaked
    <2>1. k.row = 0
      BY <1>2 DEF DumpInIssueOrder
    <2>2. k \in Kernels(dump)
      BY <2>1 DEF DumpInIssueOrder, Kernels
    <2>3. \E r \in Launches : r.corr = k.corr /\ r.tid = "client"
      BY <1>2, <2>1, <2>2 DEF DumpInIssueOrder
    <2> QED BY <1>2, <2>2, <2>3 DEF Leaked
  <1> QED BY <1>1, <1>2

\* Of a trace that could be joined the self-check fails exactly when a copy
\* had failed or a client had launched a kernel past the colocator.
THEOREM SelfCheckTells ==
    ASSUME ~DriverLaunches
    PROVE  Spec => []SelfCheckSound
  <1>1. ASSUME ObserverInv, CorrelationInv, phase = "dumped", ~KernelJoin.raised
        PROVE  SelfCheckFails <=> \/ \E i \in DOMAIN issue : ~issue[i].ok
                                  \/ \E k \in dump : k.from = "client" /\ k.window
    <2>1. DumpInIssueOrder
      BY <1>1, DumpedInIssueOrder
    <2>2. /\ \A i \in DOMAIN issue : issue[i].kind \in KernelKinds => issue[i].ok
          /\ Exact(KernelJoin, "kernel", KernelKinds)
      BY <1>1, <2>1, KernelsByOrder
    <2>3. \A i \in DOMAIN issue : issue[i].kind \in KernelKinds \/ issue[i].kind = "cudaMemcpyAsync"
      BY <1>1, LoggedKinds, KindsAssumption DEF KernelKinds
    <2>4. (\E i \in DOMAIN MemcpyJoin.out : MemcpyJoin.out[i] = {}) <=> \E i \in DOMAIN issue : ~issue[i].ok
      BY <1>1, <2>1, <2>2, <2>3, CopiesWithout DEF KernelKinds
    <2>5. PICK ops : ops = RowsOf(KernelKinds)
      OBVIOUS
    <2>6. PICK ends : ends = [i \in DOMAIN ops |-> {k.end : k \in {x \in dump : x.corr \in KernelJoin.out[i]}}]
      OBVIOUS
    <2>7. PICK N \in Nat : InLogOrder(ops, KernelKinds, N)
      <3>1. DOMAIN issue = 1 .. Len(issue) /\ Len(issue) \in Nat
        BY <1>1 DEF ObserverInv, GpuInv
      <3> QED BY <2>5, <3>1, RowsOfAt
    <2>8. ASSUME NEW i \in DOMAIN ops, NEW j \in DOMAIN ops, i < j,
                 issue[ops[i].row].stream = issue[ops[j].row].stream
          PROVE  ~(Min(ends[i]) > Min(ends[j]))
      <3>1. PICK a \in DOMAIN issue, b \in DOMAIN issue : a = ops[i].row /\ b = ops[j].row
        BY <2>7 DEF InLogOrder
      <3>2. a < b /\ issue[a].kind \in KernelKinds /\ issue[b].kind \in KernelKinds
        BY <2>7, <2>8, <3>1 DEF InLogOrder
      <3>3. KernelJoin.out[i] = Caused("kernel", a) /\ KernelJoin.out[j] = Caused("kernel", b)
        BY <2>2, <2>5, <3>1 DEF Exact
      <3>4. /\ ends[i] = {k.end : k \in {x \in dump : x.corr \in Caused("kernel", a)}}
            /\ ends[j] = {k.end : k \in {x \in dump : x.corr \in Caused("kernel", b)}}
        BY <2>6, <3>3
      <3> QED BY <1>1, <2>1, <2>2, <2>8, <3>1, <3>2, <3>4, RowsEndInOrder
    <2>9. SelfCheckFails <=>
             \/ \E i \in DOMAIN MemcpyJoin.out : MemcpyJoin.out[i] = {}
             \/ \E i, j \in DOMAIN ops :
                  /\ i < j /\ issue[ops[i].row].stream = issue[ops[j].row].stream
                  /\ Min(ends[i]) > Min(ends[j])
             \/ Leaked # {}
      BY <2>5, <2>6 DEF SelfCheckFails
    <2> QED BY <2>1, <2>4, <2>8, <2>9, LeaksAreSeen
  <1>2. ObserverInv /\ CorrelationInv => SelfCheckSound
    BY <1>1 DEF SelfCheckSound
  <1> QED BY <1>2, CorrelationInductive, PTL
=============================================================================
