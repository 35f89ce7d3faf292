---------------------------- MODULE SmLimitProofs ---------------------------
(***************************************************************************)
(* The two streams of a client under COLOCATOR_SM_LIMIT are one in-order   *)
(* stream, for every set of kinds and any number of calls: SmLimit         *)
(* implements InOrderStream, an event covers what was replayed before it,  *)
(* and a synchronising call returns with both streams drained.             *)
(*                                                                         *)
(* The invariant is about what stands before each place of a stream.  An   *)
(* operation is preceded, there or across a chain event, by the completion *)
(* event of every earlier one, so the head of a stream is an operation     *)
(* only when it is the next of all; and a recording is preceded by the     *)
(* completion events of all that it covers.                                *)
(***************************************************************************)
EXTENDS SmLimit, TLAPS

USE DEF schedVars, gpuVars

(***************************************************************************)
(* The two streams of a client, as one value                               *)
(***************************************************************************)
Now == [fifo |-> fifo, recordings |-> recordings, ring |-> ring, reached |-> reached,
        enqueued |-> enqueued, done |-> Len(completed)]

Items == [item : {"op", "record", "wait"}, id : Nat]

TypeQ(q) ==
    /\ q.fifo \in [Streams -> Seq(Items)]
    /\ q.recordings \in Seq(Nat) /\ q.ring \in Seq(Nat)
    /\ q.reached \subseteq 1 .. Len(q.recordings)
    /\ q.enqueued \in Nat /\ q.done \in Nat /\ q.done <= q.enqueued
    /\ Len(q.ring) = q.enqueued
    /\ \A r \in 1 .. Len(q.recordings) : q.recordings[r] <= q.enqueued
    /\ \A m \in 1 .. q.enqueued :
          q.ring[m] \in 1 .. Len(q.recordings) /\ q.recordings[q.ring[m]] = m

\* Operation m, with its completion event, precedes place i of stream s: the
\* event has been reached, or stands before the place, or a wait does for a
\* recording that m precedes.
Before(q, s, i, m) ==
    \/ q.ring[m] \in q.reached
    \/ \E j \in 1 .. i - 1 : q.fifo[s][j] = Recording(q.ring[m])
    \/ \E j \in 1 .. i - 1 : q.fifo[s][j].item = "wait" /\ q.recordings[q.fifo[s][j].id] >= m

\* What is known of item x, at place i of stream s.
ItemInv(q, s, i, x) ==
    /\ x.item = "op" =>
          x.id \in q.done + 1 .. q.enqueued /\ \A m \in 1 .. x.id - 1 : Before(q, s, i, m)
    /\ x.item # "op" => x.id \in 1 .. Len(q.recordings)
    /\ x.item = "record" =>
          /\ \A m \in 1 .. q.recordings[x.id] : q.ring[m] = x.id \/ Before(q, s, i, m)
          /\ \A m \in 1 .. q.enqueued : q.ring[m] = x.id =>
                m <= q.done \/ \E j \in 1 .. i - 1 : q.fifo[s][j] = Operation(m)

ItemsInv(q) == \A s \in Streams : \A i \in 1 .. Len(q.fifo[s]) : ItemInv(q, s, i, q.fifo[s][i])

\* Every operation that is not done is on one stream, once.
PendingInv(q) ==
    /\ \A n \in q.done + 1 .. q.enqueued :
          \E s \in Streams : \E i \in 1 .. Len(q.fifo[s]) : q.fifo[s][i] = Operation(n)
    /\ \A s, r \in Streams : \A i \in 1 .. Len(q.fifo[s]), j \in 1 .. Len(q.fifo[r]) :
          q.fifo[s][i].item = "op" /\ q.fifo[s][i] = q.fifo[r][j] => s = r /\ i = j

\* A recording is reached behind the completion events of all before it, and
\* those behind their operations.
ReachedInv(q) ==
    /\ \A r \in q.reached : \A m \in 1 .. q.recordings[r] : q.ring[m] \in q.reached
    /\ \A m \in 1 .. q.enqueued : q.ring[m] \in q.reached => m <= q.done

QueueInv(q) == TypeQ(q) /\ ItemsInv(q) /\ PendingInv(q) /\ ReachedInv(q)

\* Whatever is put on stream s next comes after everything.
Behind(q, s) == \A m \in 1 .. q.enqueued : Before(q, s, Len(q.fifo[s]) + 1, m)

LinearInv ==
    /\ QueueInv(Now)
    /\ completed \in Seq(Nat) /\ \A i \in 1 .. Len(completed) : completed[i] = i
    /\ executing \subseteq {Len(completed) + 1}
    /\ last_stream \in Streams \cup {"null"}
    /\ IF last_stream = "null" THEN enqueued = 0 ELSE Behind(Now, last_stream)
    /\ ev_done \in Nat /\ ev_done <= Len(completed)
    /\ phase \in {"polling", "freeingGemm", "drained"} => Empty("main")
    /\ phase = "drained" => Empty("gemm")

(***************************************************************************)
(* What a call adds                                                        *)
(***************************************************************************)
\* A switch: record on the stream left, wait on the one entered.
Chain(q, s, w) ==
    [fifo       |-> [q.fifo EXCEPT ![s] = Append(@, Recording(Len(q.recordings) + 1)),
                                   ![w] = Append(@, WaitFor(Len(q.recordings) + 1))],
     recordings |-> Append(q.recordings, q.enqueued),
     ring |-> q.ring, reached |-> q.reached, enqueued |-> q.enqueued, done |-> q.done]

\* An operation and its completion event.
PutOperation(q, w) ==
    [fifo       |-> [q.fifo EXCEPT ![w] = @ \o <<Operation(q.enqueued + 1),
                                                 Recording(Len(q.recordings) + 1)>>],
     recordings |-> Append(q.recordings, q.enqueued + 1),
     ring       |-> Append(q.ring, Len(q.recordings) + 1),
     enqueued   |-> q.enqueued + 1,
     reached |-> q.reached, done |-> q.done]

\* The client's own event.
PutEvent(q, w) ==
    [fifo       |-> [q.fifo EXCEPT ![w] = Append(@, Recording(Len(q.recordings) + 1))],
     recordings |-> Append(q.recordings, q.enqueued),
     ring |-> q.ring, reached |-> q.reached, enqueued |-> q.enqueued, done |-> q.done]

\* p holds what q does, in its place, and perhaps more behind it.
Grows(q, p) ==
    /\ p.reached = q.reached /\ p.done = q.done
    /\ q.enqueued <= p.enqueued /\ Len(q.recordings) <= Len(p.recordings)
    /\ \A r \in 1 .. Len(q.recordings) : p.recordings[r] = q.recordings[r]
    /\ \A m \in 1 .. q.enqueued : p.ring[m] = q.ring[m]
    /\ \A m \in q.enqueued + 1 .. p.enqueued : p.ring[m] > Len(q.recordings)
    /\ \A s \in Streams :
          /\ Len(q.fifo[s]) <= Len(p.fifo[s])
          /\ \A j \in 1 .. Len(q.fifo[s]) : p.fifo[s][j] = q.fifo[s][j]

\* What TypeQ says of each element.
Elements(q) ==
    /\ q.enqueued \in Nat /\ q.done \in Nat /\ q.done <= q.enqueued
    /\ Len(q.recordings) \in Nat /\ Len(q.ring) \in Nat
    /\ \A r \in 1 .. Len(q.recordings) :
          q.recordings[r] \in Nat /\ q.recordings[r] <= q.enqueued
    /\ \A m \in 1 .. q.enqueued :
          /\ q.ring[m] \in Nat /\ q.ring[m] \in 1 .. Len(q.recordings)
          /\ q.recordings[q.ring[m]] = m
    /\ \A s \in Streams :
          /\ q.fifo[s] \in Seq(Items) /\ Len(q.fifo[s]) \in Nat
          /\ \A j \in 1 .. Len(q.fifo[s]) : q.fifo[s][j] \in Items /\ q.fifo[s][j].id \in Nat
    /\ q.reached \subseteq 1 .. Len(q.recordings)

LEMMA Typed ==
    ASSUME NEW q, TypeQ(q)
    PROVE  Elements(q)
  <1>1. \A s \in Streams : q.fifo[s] \in Seq(Items)
    BY DEF TypeQ
  <1>2. ASSUME NEW s \in Streams, NEW j \in 1 .. Len(q.fifo[s])
        PROVE  q.fifo[s][j] \in Items /\ q.fifo[s][j].id \in Nat
    <2>1. q.fifo[s][j] \in Items
      BY <1>1
    <2> QED BY <2>1 DEF Items
  <1> QED BY <1>1, <1>2, SMTT(30) DEF TypeQ, Elements

\* The recordings that items name exist.
LEMMA Recorded ==
    ASSUME NEW q, QueueInv(q), NEW s \in Streams, NEW j \in 1 .. Len(q.fifo[s]),
           q.fifo[s][j].item # "op"
    PROVE  q.fifo[s][j].id \in 1 .. Len(q.recordings)
  BY DEF QueueInv, ItemsInv, ItemInv

LEMMA BeforeGrows ==
    ASSUME NEW q, NEW p, QueueInv(q), Grows(q, p), NEW s \in Streams,
           NEW i \in 1 .. Len(q.fifo[s]) + 1, NEW k \in Int, i <= k,
           NEW m \in 1 .. q.enqueued, Before(q, s, i, m)
    PROVE  Before(p, s, k, m)
  <1>0. TypeQ(q)
    BY DEF QueueInv
  <1>1. CASE q.ring[m] \in q.reached
    BY <1>1 DEF Before, Grows
  <1>2. ASSUME NEW j \in 1 .. i - 1, q.fifo[s][j] = Recording(q.ring[m])
        PROVE  Before(p, s, k, m)
    <2>1. j \in 1 .. Len(q.fifo[s]) /\ j \in 1 .. k - 1
      BY <1>0 DEF TypeQ
    <2> QED BY <1>2, <2>1 DEF Before, Grows
  <1>3. ASSUME NEW j \in 1 .. i - 1, q.fifo[s][j].item = "wait",
               q.recordings[q.fifo[s][j].id] >= m
        PROVE  Before(p, s, k, m)
    <2>1. j \in 1 .. Len(q.fifo[s]) /\ j \in 1 .. k - 1
      BY <1>0 DEF TypeQ
    <2>2. q.fifo[s][j].id \in 1 .. Len(q.recordings)
      BY <1>3, <2>1, Recorded
    <2>3. p.fifo[s][j] = q.fifo[s][j]
          /\ p.recordings[q.fifo[s][j].id] = q.recordings[q.fifo[s][j].id]
      BY <2>1, <2>2 DEF Grows
    <2> QED BY <1>3, <2>1, <2>3 DEF Before
  <1> QED BY <1>1, <1>2, <1>3 DEF Before

LEMMA ItemGrows ==
    ASSUME NEW q, NEW p, QueueInv(q), TypeQ(p), Grows(q, p), NEW s \in Streams,
           NEW i \in 1 .. Len(q.fifo[s])
    PROVE  ItemInv(p, s, i, q.fifo[s][i])
  <1> DEFINE x == q.fifo[s][i]
  <1>0. TypeQ(q) /\ ItemInv(q, s, i, x) /\ i \in 1 .. Len(q.fifo[s]) + 1 /\ i \in Int
    BY DEF QueueInv, ItemsInv, TypeQ
  <1>t. Elements(q)
    BY <1>0, Typed
  <1>1. x.id \in Nat /\ q.enqueued \in Nat /\ p.enqueued \in Nat
    BY <1>t DEF Elements, TypeQ
  <1> HIDE DEF x
  <1>2. ASSUME NEW m \in 1 .. q.enqueued, Before(q, s, i, m) PROVE Before(p, s, i, m)
    <2>1. i <= i
      BY <1>0
    <2> QED BY <1>0, <1>2, <2>1, BeforeGrows
  <1>3. ASSUME x.item = "op"
        PROVE  x.id \in p.done + 1 .. p.enqueued /\ \A m \in 1 .. x.id - 1 : Before(p, s, i, m)
    <2>1. x.id \in q.done + 1 .. q.enqueued /\ \A m \in 1 .. x.id - 1 : Before(q, s, i, m)
      BY <1>0, <1>3 DEF ItemInv
    <2> QED BY <1>1, <1>2, <2>1 DEF Grows
  <1>4. ASSUME x.item # "op" PROVE x.id \in 1 .. Len(p.recordings)
    BY <1>0, <1>4 DEF ItemInv, Grows, TypeQ
  <1>5. ASSUME x.item = "record"
        PROVE  /\ \A m \in 1 .. p.recordings[x.id] : p.ring[m] = x.id \/ Before(p, s, i, m)
               /\ \A m \in 1 .. p.enqueued : p.ring[m] = x.id =>
                     m <= p.done \/ \E j \in 1 .. i - 1 : p.fifo[s][j] = Operation(m)
    <2>1. x.id \in 1 .. Len(q.recordings)
      BY <1>0, <1>5 DEF ItemInv
    <2>2. p.recordings[x.id] = q.recordings[x.id]
          /\ q.recordings[x.id] \in Nat /\ q.recordings[x.id] <= q.enqueued
      BY <1>0, <2>1, <1>t DEF Elements, Grows
    <2>3. ASSUME NEW m \in 1 .. p.recordings[x.id]
          PROVE  p.ring[m] = x.id \/ Before(p, s, i, m)
      <3>1. m \in 1 .. q.recordings[x.id] /\ m \in 1 .. q.enqueued
        BY <1>1, <2>2
      <3>2. q.ring[m] = x.id \/ Before(q, s, i, m)
        BY <1>0, <1>5, <3>1 DEF ItemInv
      <3> QED BY <1>2, <3>1, <3>2 DEF Grows
    <2>4. ASSUME NEW m \in 1 .. p.enqueued, p.ring[m] = x.id
          PROVE  m <= p.done \/ \E j \in 1 .. i - 1 : p.fifo[s][j] = Operation(m)
      <3>1. m \in 1 .. q.enqueued
        BY <1>1, <2>1, <2>4 DEF Grows
      <3>2. m <= q.done \/ \E j \in 1 .. i - 1 : q.fifo[s][j] = Operation(m)
        BY <1>0, <1>5, <2>4, <3>1 DEF ItemInv, Grows
      <3>3. \A j \in 1 .. i - 1 : p.fifo[s][j] = q.fifo[s][j]
        BY <1>0, <1>t DEF Elements, Grows
      <3> QED BY <3>2, <3>3 DEF Grows
    <2> QED BY <2>3, <2>4
  <1>6. ItemInv(p, s, i, x)
    BY <1>3, <1>4, <1>5 DEF ItemInv
  <1> QED BY <1>6 DEF x

\* What is put on the streams only has to come after what is there.
LEMMA Added ==
    ASSUME NEW q, NEW p, QueueInv(q), TypeQ(p), Grows(q, p),
           \A s \in Streams : \A i \in Len(q.fifo[s]) + 1 .. Len(p.fifo[s]) :
              ItemInv(p, s, i, p.fifo[s][i]),
           PendingInv(p)
    PROVE  QueueInv(p)
  <1>0. TypeQ(q) /\ ReachedInv(q)
    BY DEF QueueInv
  <1>t. Elements(q)
    BY <1>0, Typed
  <1>1. ItemsInv(p)
    <2>1. SUFFICES ASSUME NEW s \in Streams, NEW i \in 1 .. Len(p.fifo[s])
                   PROVE  ItemInv(p, s, i, p.fifo[s][i])
      BY DEF ItemsInv
    <2>2. CASE i \in 1 .. Len(q.fifo[s])
      BY <2>2, ItemGrows DEF Grows
    <2>3. CASE i \in Len(q.fifo[s]) + 1 .. Len(p.fifo[s])
      BY <2>3
    <2> QED BY <1>0, <2>2, <2>3 DEF TypeQ
  <1>2. ReachedInv(p)
    <2>1. ASSUME NEW r \in p.reached, NEW m \in 1 .. p.recordings[r]
          PROVE  p.ring[m] \in p.reached
      <3>1. r \in q.reached /\ r \in 1 .. Len(q.recordings)
        BY <1>0, <2>1 DEF Grows, TypeQ
      <3>2. m \in 1 .. q.recordings[r] /\ m \in 1 .. q.enqueued
        BY <1>0, <3>1, <1>t DEF Elements, Grows
      <3> QED BY <1>0, <3>1, <3>2 DEF Grows, ReachedInv
    <2>2. ASSUME NEW m \in 1 .. p.enqueued, p.ring[m] \in p.reached
          PROVE  m <= p.done
      <3>1. m \in 1 .. q.enqueued
        <4>1. p.ring[m] \in 1 .. Len(q.recordings)
          BY <1>0, <2>2, <1>t DEF Elements, Grows
        <4>2. p.enqueued \in Nat /\ q.enqueued \in Nat /\ Len(q.recordings) \in Nat
          BY <1>t DEF Elements, TypeQ
        <4>3. \A k \in q.enqueued + 1 .. p.enqueued : p.ring[k] > Len(q.recordings)
          BY DEF Grows
        <4> QED BY <4>1, <4>2, <4>3
      <3> QED BY <1>0, <2>2, <3>1 DEF Grows, ReachedInv
    <2> QED BY <2>1, <2>2 DEF ReachedInv
  <1> QED BY <1>1, <1>2 DEF QueueInv

(***************************************************************************)
(* Calls                                                                   *)
(***************************************************************************)
LEMMA ChainShape ==
    ASSUME NEW q, TypeQ(q), NEW s \in Streams, NEW w \in Streams, s # w
    PROVE  /\ TypeQ(Chain(q, s, w)) /\ Grows(q, Chain(q, s, w))
           /\ Chain(q, s, w).fifo[s] = Append(q.fifo[s], Recording(Len(q.recordings) + 1))
           /\ Chain(q, s, w).fifo[w] = Append(q.fifo[w], WaitFor(Len(q.recordings) + 1))
           /\ Chain(q, s, w).recordings[Len(q.recordings) + 1] = q.enqueued
  <1> DEFINE p == Chain(q, s, w)
             n == Len(q.recordings) + 1
  <1>t. Elements(q)
    BY Typed
  <1>1. p.reached = q.reached /\ p.done = q.done /\ p.enqueued = q.enqueued /\ p.ring = q.ring
        /\ p.recordings = Append(q.recordings, q.enqueued)
    BY DEF Chain
  <1>2. /\ p.fifo \in [Streams -> Seq(Items)]
        /\ p.fifo[s] = Append(q.fifo[s], Recording(n))
        /\ p.fifo[w] = Append(q.fifo[w], WaitFor(n))
    <2>1. Recording(n) \in Items /\ WaitFor(n) \in Items
      BY <1>t DEF Elements, Items, Recording, WaitFor
    <2>2. p.fifo = [q.fifo EXCEPT ![s] = Append(@, Recording(n)), ![w] = Append(@, WaitFor(n))]
      BY DEF Chain
    <2> HIDE DEF p, n
    <2>3. Append(q.fifo[s], Recording(n)) \in Seq(Items) /\ Append(q.fifo[w], WaitFor(n)) \in Seq(Items)
      BY <2>1, <1>t DEF Elements
    <2> QED BY <2>2, <2>3 DEF TypeQ
  <1>3. /\ p.recordings \in Seq(Nat) /\ Len(p.recordings) = n /\ p.recordings[n] = q.enqueued
        /\ \A r \in 1 .. Len(q.recordings) : p.recordings[r] = q.recordings[r]
    BY <1>1 DEF TypeQ
  <1> HIDE DEF p
  <1>4. TypeQ(p)
    <2>1. n \in Nat /\ n = Len(q.recordings) + 1
      BY <1>t DEF Elements
    <2> HIDE DEF n
    <2>2. \A r \in 1 .. Len(p.recordings) : p.recordings[r] <= p.enqueued
      BY <1>1, <1>3, <2>1, <1>t DEF Elements
    <2>3. \A m \in 1 .. p.enqueued :
             p.ring[m] \in 1 .. Len(p.recordings) /\ p.recordings[p.ring[m]] = m
      BY <1>1, <1>3, <2>1, <1>t DEF Elements
    <2> QED BY <1>1, <1>2, <1>3, <2>1, <2>2, <2>3, <1>t, SMTT(30) DEF Elements, TypeQ
  <1>5. Grows(q, p)
    <2>1. ASSUME NEW r \in Streams
          PROVE  /\ Len(q.fifo[r]) <= Len(p.fifo[r])
                 /\ \A j \in 1 .. Len(q.fifo[r]) : p.fifo[r][j] = q.fifo[r][j]
      <3>1. r = s \/ r = w
        BY DEF Streams
      <3>2. Recording(n) \in Items /\ WaitFor(n) \in Items
        BY <1>t DEF Elements, Items, Recording, WaitFor
      <3> HIDE DEF n
      <3>3. CASE r = s
        BY <1>2, <3>2, <3>3, <1>t DEF Elements
      <3>4. CASE r = w
        <4>1. q.fifo[w] \in Seq(Items)
          BY <1>t DEF Elements
        <4>2. p.fifo[r] = Append(q.fifo[w], WaitFor(n))
          BY <1>2, <3>4
        <4> QED BY <3>2, <3>4, <4>1, <4>2
      <3> QED BY <3>1, <3>3, <3>4
    <2> QED BY <1>1, <1>3, <2>1, <1>t DEF Elements, Grows
  <1> QED BY <1>2, <1>3, <1>4, <1>5 DEF p

LEMMA EventShape ==
    ASSUME NEW q, TypeQ(q), NEW w \in Streams
    PROVE  /\ TypeQ(PutEvent(q, w)) /\ Grows(q, PutEvent(q, w))
           /\ PutEvent(q, w).fifo = [q.fifo EXCEPT ![w] =
                                      Append(@, Recording(Len(q.recordings) + 1))]
           /\ PutEvent(q, w).recordings[Len(q.recordings) + 1] = q.enqueued
  <1> DEFINE p == PutEvent(q, w)
             n == Len(q.recordings) + 1
  <1>t. Elements(q)
    BY Typed
  <1>1. p.reached = q.reached /\ p.done = q.done /\ p.enqueued = q.enqueued /\ p.ring = q.ring
        /\ p.recordings = Append(q.recordings, q.enqueued)
        /\ p.fifo = [q.fifo EXCEPT ![w] = Append(@, Recording(n))]
    BY DEF PutEvent
  <1>2. p.fifo \in [Streams -> Seq(Items)]
    <2>1. Recording(n) \in Items
      BY <1>t DEF Elements, Items, Recording
    <2> QED BY <1>1, <2>1 DEF TypeQ
  <1>3. /\ p.recordings \in Seq(Nat) /\ Len(p.recordings) = n /\ p.recordings[n] = q.enqueued
        /\ \A r \in 1 .. Len(q.recordings) : p.recordings[r] = q.recordings[r]
    BY <1>1 DEF TypeQ
  <1> HIDE DEF p
  <1>4. TypeQ(p)
    <2>1. n \in Nat /\ n = Len(q.recordings) + 1
      BY <1>t DEF Elements
    <2> HIDE DEF n
    <2>2. \A r \in 1 .. Len(p.recordings) : p.recordings[r] <= p.enqueued
      BY <1>1, <1>3, <2>1, <1>t DEF Elements
    <2>3. \A m \in 1 .. p.enqueued :
             p.ring[m] \in 1 .. Len(p.recordings) /\ p.recordings[p.ring[m]] = m
      BY <1>1, <1>3, <2>1, <1>t DEF Elements
    <2> QED BY <1>1, <1>2, <1>3, <2>1, <2>2, <2>3, <1>t, SMTT(30) DEF Elements, TypeQ
  <1>5. Grows(q, p)
    <2>1. ASSUME NEW r \in Streams
          PROVE  /\ Len(q.fifo[r]) <= Len(p.fifo[r])
                 /\ \A j \in 1 .. Len(q.fifo[r]) : p.fifo[r][j] = q.fifo[r][j]
      BY <1>1, <1>t DEF Elements, TypeQ
    <2> QED BY <1>1, <1>3, <2>1, <1>t DEF Elements, Grows
  <1> QED BY <1>1, <1>3, <1>4, <1>5 DEF p

LEMMA OperationShape ==
    ASSUME NEW q, TypeQ(q), NEW w \in Streams
    PROVE  /\ TypeQ(PutOperation(q, w)) /\ Grows(q, PutOperation(q, w))
           /\ PutOperation(q, w).ring[q.enqueued + 1] = Len(q.recordings) + 1
           /\ PutOperation(q, w).recordings[Len(q.recordings) + 1] = q.enqueued + 1
           /\ Len(PutOperation(q, w).fifo[w]) = Len(q.fifo[w]) + 2
           /\ PutOperation(q, w).fifo[w][Len(q.fifo[w]) + 1] = Operation(q.enqueued + 1)
           /\ PutOperation(q, w).fifo[w][Len(q.fifo[w]) + 2] = Recording(Len(q.recordings) + 1)
           /\ \A s \in Streams \ {w} : PutOperation(q, w).fifo[s] = q.fifo[s]
  <1> DEFINE p == PutOperation(q, w)
             n == Len(q.recordings) + 1
             e == q.enqueued + 1
  <1>t. Elements(q)
    BY Typed
  <1>1. p.reached = q.reached /\ p.done = q.done /\ p.enqueued = e
        /\ p.ring = Append(q.ring, n) /\ p.recordings = Append(q.recordings, e)
        /\ p.fifo = [q.fifo EXCEPT ![w] = @ \o <<Operation(e), Recording(n)>>]
    BY DEF PutOperation
  <1>2. e \in Nat /\ n \in Nat /\ e = q.enqueued + 1 /\ n = Len(q.recordings) + 1
    BY <1>t DEF Elements
  <1>3. Operation(e) \in Items /\ Recording(n) \in Items
    BY <1>2 DEF Items, Operation, Recording
  <1> HIDE DEF p, n, e
  <1>4. /\ p.fifo[w] = q.fifo[w] \o <<Operation(e), Recording(n)>>
        /\ \A s \in Streams \ {w} : p.fifo[s] = q.fifo[s]
    BY <1>1 DEF TypeQ
  <1>5. <<Operation(e), Recording(n)>> \in Seq(Items)
        /\ Len(<<Operation(e), Recording(n)>>) = 2
        /\ <<Operation(e), Recording(n)>>[1] = Operation(e)
        /\ <<Operation(e), Recording(n)>>[2] = Recording(n)
    BY <1>3
  <1>6. /\ p.fifo[w] \in Seq(Items) /\ Len(p.fifo[w]) = Len(q.fifo[w]) + 2
        /\ p.fifo[w][Len(q.fifo[w]) + 1] = Operation(e)
        /\ p.fifo[w][Len(q.fifo[w]) + 2] = Recording(n)
        /\ \A j \in 1 .. Len(q.fifo[w]) : p.fifo[w][j] = q.fifo[w][j]
    BY <1>4, <1>5, <1>t DEF Elements
  <1>7. p.fifo \in [Streams -> Seq(Items)]
    BY <1>1, <1>4, <1>6 DEF TypeQ
  <1>8. /\ p.recordings \in Seq(Nat) /\ Len(p.recordings) = n /\ p.recordings[n] = e
        /\ \A r \in 1 .. Len(q.recordings) : p.recordings[r] = q.recordings[r]
    BY <1>1, <1>2 DEF TypeQ
  <1>9. /\ p.ring \in Seq(Nat) /\ Len(p.ring) = e /\ p.ring[e] = n
        /\ \A m \in 1 .. q.enqueued : p.ring[m] = q.ring[m]
    BY <1>1, <1>2 DEF TypeQ
  <1>10. TypeQ(p)
    <2>1. /\ q.enqueued \in Nat /\ Len(q.recordings) \in Nat
          /\ \A r \in 1 .. Len(q.recordings) : q.recordings[r] \in Nat /\ q.recordings[r] <= q.enqueued
      BY <1>t DEF Elements
    <2>2. \A r \in 1 .. Len(p.recordings) : p.recordings[r] <= p.enqueued
      <3>1. p.enqueued = q.enqueued + 1 /\ p.recordings[n] <= p.enqueued
        BY <1>1, <1>2, <1>8, <2>1
      <3>2. ASSUME NEW r \in 1 .. Len(q.recordings) PROVE p.recordings[r] <= p.enqueued
        BY <1>8, <2>1, <3>1
      <3> QED BY <1>2, <1>8, <2>1, <3>1, <3>2
    <2>3. ASSUME NEW m \in 1 .. p.enqueued
          PROVE  p.ring[m] \in 1 .. Len(p.recordings) /\ p.recordings[p.ring[m]] = m
      <3>1. m \in 1 .. q.enqueued \/ m = e
        BY <1>1, <1>2, <1>t DEF Elements
      <3>2. CASE m \in 1 .. q.enqueued
        <4>1. p.ring[m] = q.ring[m] /\ q.ring[m] \in 1 .. Len(q.recordings)
              /\ q.recordings[q.ring[m]] = m
          BY <1>9, <3>2, <1>t DEF Elements
        <4>2. p.recordings[q.ring[m]] = q.recordings[q.ring[m]]
          BY <1>8, <4>1
        <4> QED BY <1>2, <1>8, <4>1, <4>2, <1>t DEF Elements
      <3>3. CASE m = e
        <4>1. p.ring[m] = n /\ p.recordings[n] = m /\ Len(p.recordings) = n
          BY <1>8, <1>9, <3>3
        <4>2. n \in 1 .. n
          BY <1>2, <1>t DEF Elements
        <4> QED BY <4>1, <4>2
      <3> QED BY <3>1, <3>2, <3>3
    <2>4. p.done \in Nat /\ p.done <= p.enqueued /\ p.reached \subseteq 1 .. Len(p.recordings)
      BY <1>1, <1>2, <1>8, <1>t DEF Elements
    <2> QED BY <1>1, <1>2, <1>7, <1>8, <1>9, <2>2, <2>3, <2>4 DEF TypeQ
  <1>11. Grows(q, p)
    <2>1. ASSUME NEW r \in Streams
          PROVE  /\ Len(q.fifo[r]) <= Len(p.fifo[r])
                 /\ \A j \in 1 .. Len(q.fifo[r]) : p.fifo[r][j] = q.fifo[r][j]
      <3>1. CASE r = w
        BY <1>6, <3>1, <1>t DEF Elements
      <3>2. CASE r # w
        BY <1>4, <3>2, <1>t DEF Elements
      <3> QED BY <3>1, <3>2
    <2>2. \A m \in q.enqueued + 1 .. p.enqueued : p.ring[m] > Len(q.recordings)
      BY <1>1, <1>2, <1>9, <1>t DEF Elements
    <2>3. q.enqueued <= p.enqueued /\ Len(q.recordings) <= Len(p.recordings)
      <3>1. q.enqueued \in Nat /\ Len(q.recordings) \in Nat
        BY <1>t DEF Elements
      <3> QED BY <1>1, <1>2, <1>8, <3>1
    <2> QED BY <1>1, <1>8, <1>9, <2>1, <2>2, <2>3 DEF Grows
  <1> QED BY <1>2, <1>4, <1>6, <1>8, <1>9, <1>10, <1>11 DEF p, n, e

LEMMA OnePlace ==
    ASSUME NEW q, PendingInv(q), NEW s \in Streams, NEW r \in Streams,
           NEW i \in 1 .. Len(q.fifo[s]), NEW j \in 1 .. Len(q.fifo[r]),
           q.fifo[s][i].item = "op", q.fifo[s][i] = q.fifo[r][j]
    PROVE  s = r /\ i = j
  BY DEF PendingInv

\* Places keep what they hold.
LEMMA PlacesKept ==
    ASSUME NEW q, NEW p, Elements(q), Elements(p), Grows(q, p), NEW r \in Streams,
           NEW i \in 1 .. Len(q.fifo[r])
    PROVE  i \in 1 .. Len(p.fifo[r]) /\ p.fifo[r][i] = q.fifo[r][i]
  BY DEF Elements, Grows

\* Recordings and waits leave the operations where they are.
LEMMA PendingGrows ==
    ASSUME NEW q, NEW p, QueueInv(q), TypeQ(p), Grows(q, p), p.enqueued = q.enqueued,
           \A s \in Streams : \A i \in Len(q.fifo[s]) + 1 .. Len(p.fifo[s]) :
              p.fifo[s][i].item # "op"
    PROVE  PendingInv(p)
  <1>0. TypeQ(q) /\ PendingInv(q)
    BY DEF QueueInv
  <1>t. Elements(q) /\ Elements(p)
    BY <1>0, Typed
  <1>1. ASSUME NEW r \in Streams, NEW i \in 1 .. Len(q.fifo[r])
        PROVE  i \in 1 .. Len(p.fifo[r]) /\ p.fifo[r][i] = q.fifo[r][i]
    BY <1>t, PlacesKept
  <1>2. ASSUME NEW r \in Streams, NEW i \in 1 .. Len(p.fifo[r]), p.fifo[r][i].item = "op"
        PROVE  i \in 1 .. Len(q.fifo[r]) /\ p.fifo[r][i] = q.fifo[r][i]
    <2>1. i \in 1 .. Len(q.fifo[r])
      BY <1>2, <1>t DEF Elements
    <2> QED BY <1>1, <2>1
  <1>3. ASSUME NEW n \in p.done + 1 .. p.enqueued
        PROVE  \E s \in Streams : \E i \in 1 .. Len(p.fifo[s]) : p.fifo[s][i] = Operation(n)
    <2>1. n \in q.done + 1 .. q.enqueued
      <3>1. p.done = q.done
        BY DEF Grows
      <3> QED BY <1>3, <3>1
    <2>2. PICK s \in Streams : \E i \in 1 .. Len(q.fifo[s]) : q.fifo[s][i] = Operation(n)
      BY <1>0, <1>3, <2>1 DEF PendingInv
    <2> QED BY <1>1, <2>2
  <1>4. ASSUME NEW s \in Streams, NEW r \in Streams,
               NEW i \in 1 .. Len(p.fifo[s]), NEW j \in 1 .. Len(p.fifo[r]),
               p.fifo[s][i].item = "op", p.fifo[s][i] = p.fifo[r][j]
        PROVE  s = r /\ i = j
    <2>1. i \in 1 .. Len(q.fifo[s]) /\ p.fifo[s][i] = q.fifo[s][i]
      BY <1>2, <1>4
    <2>2. j \in 1 .. Len(q.fifo[r]) /\ p.fifo[r][j] = q.fifo[r][j]
      BY <1>2, <1>4
    <2>3. q.fifo[s][i].item = "op" /\ q.fifo[s][i] = q.fifo[r][j]
      BY <1>4, <2>1, <2>2
    <2> QED BY <1>0, <2>1, <2>2, <2>3, OnePlace
  <1> QED BY <1>3, <1>4 DEF PendingInv

\* The item that a switch leaves behind covers everything; the wait that it
\* puts on the stream entered puts everything behind it.
LEMMA ChainKeeps ==
    ASSUME NEW q, QueueInv(q), NEW s \in Streams, NEW w \in Streams, s # w, Behind(q, s)
    PROVE  QueueInv(Chain(q, s, w)) /\ Behind(Chain(q, s, w), w)
  <1> DEFINE p == Chain(q, s, w)
             n == Len(q.recordings) + 1
  <1>0. TypeQ(q) /\ PendingInv(q)
    BY DEF QueueInv
  <1>t. Elements(q) /\ n \in Nat /\ n > Len(q.recordings) /\ n \in 1 .. n
    BY <1>0, Typed DEF Elements
  <1>1. /\ TypeQ(p) /\ Grows(q, p)
        /\ p.fifo[s] = Append(q.fifo[s], Recording(n))
        /\ p.fifo[w] = Append(q.fifo[w], WaitFor(n))
        /\ p.recordings[n] = q.enqueued
    BY <1>0, ChainShape
  <1>2. p.enqueued = q.enqueued /\ p.ring = q.ring /\ p.done = q.done /\ Len(p.recordings) = n
    BY <1>0 DEF Chain, TypeQ
  <1> HIDE DEF p, n
  <1>3. /\ Len(p.fifo[s]) = Len(q.fifo[s]) + 1 /\ p.fifo[s][Len(q.fifo[s]) + 1] = Recording(n)
        /\ \A j \in 1 .. Len(q.fifo[s]) : p.fifo[s][j] = q.fifo[s][j]
    BY <1>1, <1>t DEF Elements
  <1>4. /\ Len(p.fifo[w]) = Len(q.fifo[w]) + 1 /\ p.fifo[w][Len(q.fifo[w]) + 1] = WaitFor(n)
        /\ \A j \in 1 .. Len(q.fifo[w]) : p.fifo[w][j] = q.fifo[w][j]
    BY <1>1, <1>t DEF Elements
  <1>5. ItemInv(p, s, Len(q.fifo[s]) + 1, Recording(n))
    <2>1. ASSUME NEW m \in 1 .. q.enqueued PROVE Before(p, s, Len(q.fifo[s]) + 1, m)
      <3> DEFINE k == Len(q.fifo[s]) + 1
      <3>1. k \in 1 .. k /\ k \in Int /\ k <= k /\ Before(q, s, k, m)
        BY <1>t DEF Elements, Behind
      <3> QED BY <1>1, <3>1, BeforeGrows
    <2>2. \A m \in 1 .. p.enqueued : p.ring[m] # n
      BY <1>2, <1>t DEF Elements
    <2> QED BY <1>1, <1>2, <1>t, <2>1, <2>2 DEF ItemInv, Recording
  <1>6. ItemInv(p, w, Len(q.fifo[w]) + 1, WaitFor(n))
    BY <1>2, <1>t DEF ItemInv, WaitFor
  <1>7. \A r \in Streams : \A i \in Len(q.fifo[r]) + 1 .. Len(p.fifo[r]) :
           ItemInv(p, r, i, p.fifo[r][i])
    <2>1. SUFFICES ASSUME NEW r \in Streams, NEW i \in Len(q.fifo[r]) + 1 .. Len(p.fifo[r])
                   PROVE  ItemInv(p, r, i, p.fifo[r][i])
      OBVIOUS
    <2>2. CASE r = s
      <3>1. i = Len(q.fifo[s]) + 1
        BY <1>3, <2>2, <1>t DEF Elements
      <3> QED BY <1>3, <1>5, <2>2, <3>1
    <2>3. CASE r = w
      <3>1. i = Len(q.fifo[w]) + 1
        BY <1>4, <2>3, <1>t DEF Elements
      <3> QED BY <1>4, <1>6, <2>3, <3>1
    <2> QED BY <2>2, <2>3 DEF Streams
  <1>8. PendingInv(p)
    <2>1. ASSUME NEW r \in Streams, NEW i \in Len(q.fifo[r]) + 1 .. Len(p.fifo[r])
          PROVE  p.fifo[r][i].item # "op"
      <3>1. CASE r = s
        BY <1>3, <2>1, <3>1, <1>t, SMTT(30) DEF Elements, Recording
      <3>2. CASE r = w
        BY <1>4, <2>1, <3>2, <1>t DEF Elements, WaitFor
      <3> QED BY <3>1, <3>2 DEF Streams
    <2> QED BY <1>1, <1>2, <2>1, PendingGrows
  <1>9. QueueInv(p)
    BY <1>1, <1>7, <1>8, Added
  <1>10. Behind(p, w)
    <2>1. ASSUME NEW m \in 1 .. p.enqueued PROVE Before(p, w, Len(p.fifo[w]) + 1, m)
      <3>1. Len(q.fifo[w]) + 1 \in 1 .. (Len(p.fifo[w]) + 1) - 1
        BY <1>4, <1>t DEF Elements
      <3>2. p.recordings[n] >= m
        BY <1>1, <1>2, <1>t DEF Elements
      <3> QED BY <1>4, <3>1, <3>2 DEF Before, WaitFor
    <2> QED BY <2>1 DEF Behind
  <1> QED BY <1>9, <1>10 DEF p

LEMMA EventKeeps ==
    ASSUME NEW q, QueueInv(q), NEW w \in Streams, Behind(q, w)
    PROVE  QueueInv(PutEvent(q, w)) /\ Behind(PutEvent(q, w), w)
  <1> DEFINE p == PutEvent(q, w)
             n == Len(q.recordings) + 1
             k == Len(q.fifo[w]) + 1
  <1>0. TypeQ(q)
    BY DEF QueueInv
  <1>t. Elements(q) /\ n \in Nat /\ n > Len(q.recordings) /\ n \in 1 .. n
    BY <1>0, Typed DEF Elements
  <1>1. /\ TypeQ(p) /\ Grows(q, p)
        /\ p.fifo = [q.fifo EXCEPT ![w] = Append(@, Recording(n))]
        /\ p.recordings[n] = q.enqueued
    BY <1>0, EventShape
  <1>2. p.enqueued = q.enqueued /\ p.ring = q.ring /\ p.done = q.done /\ Len(p.recordings) = n
    BY <1>0 DEF PutEvent, TypeQ
  <1>3. k \in 1 .. k /\ k \in Int /\ k <= k /\ k = Len(q.fifo[w]) + 1
    BY <1>t DEF Elements
  <1> HIDE DEF p, n, k
  <1>4. Len(p.fifo[w]) = k /\ p.fifo[w][k] = Recording(n)
    BY <1>0, <1>1, <1>3, <1>t DEF Elements, TypeQ
  <1>5. ASSUME NEW m \in 1 .. q.enqueued, NEW j \in Int, k <= j PROVE Before(p, w, j, m)
    <2>1. Before(q, w, k, m) /\ k \in 1 .. Len(q.fifo[w]) + 1
      BY <1>3 DEF Behind
    <2> QED BY <1>1, <1>5, <2>1, BeforeGrows
  <1>6. ItemInv(p, w, k, Recording(n))
    <2>1. \A m \in 1 .. p.enqueued : p.ring[m] # n
      BY <1>2, <1>t DEF Elements
    <2> QED BY <1>1, <1>2, <1>3, <1>t, <1>5, <2>1 DEF ItemInv, Recording
  <1>7. ASSUME NEW r \in Streams, NEW i \in Len(q.fifo[r]) + 1 .. Len(p.fifo[r])
        PROVE  ItemInv(p, r, i, p.fifo[r][i]) /\ p.fifo[r][i].item # "op"
    <2>1. CASE r = w
      <3>1. i = k
        BY <1>3, <1>4, <1>7, <2>1, <1>t DEF Elements
      <3> QED BY <1>4, <1>6, <2>1, <3>1 DEF Recording
    <2>2. CASE r # w
      BY <1>0, <1>1, <1>7, <2>2, <1>t DEF Elements, TypeQ
    <2> QED BY <2>1, <2>2
  <1>8. QueueInv(p)
    BY <1>1, <1>2, <1>7, PendingGrows, Added
  <1>9. Behind(p, w)
    <2>1. k <= Len(p.fifo[w]) + 1 /\ Len(p.fifo[w]) + 1 \in Int
      BY <1>3, <1>4
    <2> QED BY <1>2, <1>5, <2>1 DEF Behind
  <1> QED BY <1>8, <1>9 DEF p

LEMMA OperationKeeps ==
    ASSUME NEW q, QueueInv(q), NEW w \in Streams, Behind(q, w)
    PROVE  QueueInv(PutOperation(q, w)) /\ Behind(PutOperation(q, w), w)
  <1> DEFINE p == PutOperation(q, w)
             n == Len(q.recordings) + 1
             e == q.enqueued + 1
             k == Len(q.fifo[w]) + 1
  <1>0. TypeQ(q) /\ PendingInv(q)
    BY DEF QueueInv
  <1>t. Elements(q)
    BY <1>0, Typed
  <1>1. /\ TypeQ(p) /\ Grows(q, p) /\ p.ring[e] = n /\ p.recordings[n] = e
        /\ Len(p.fifo[w]) = Len(q.fifo[w]) + 2
        /\ p.fifo[w][k] = Operation(e) /\ p.fifo[w][Len(q.fifo[w]) + 2] = Recording(n)
        /\ \A s \in Streams \ {w} : p.fifo[s] = q.fifo[s]
    BY <1>0, OperationShape
  <1>2. p.enqueued = e /\ p.done = q.done /\ Len(p.recordings) = n
    BY <1>0, <1>t DEF PutOperation, TypeQ, Elements
  <1>3. /\ k \in 1 .. k /\ k \in Nat /\ k = Len(q.fifo[w]) + 1 /\ Len(q.fifo[w]) + 2 = k + 1
        /\ n \in 1 .. n /\ n > Len(q.recordings) /\ n \in Nat
        /\ e = q.enqueued + 1 /\ e \in q.done + 1 .. e /\ e \in Nat
    BY <1>t, SMTT(30) DEF Elements
  <1> HIDE DEF p, n, k, e
  <1>4. ASSUME NEW m \in 1 .. q.enqueued, NEW j \in Int, k <= j PROVE Before(p, w, j, m)
    <2>1. Before(q, w, k, m) /\ k \in 1 .. Len(q.fifo[w]) + 1
      BY <1>3 DEF Behind
    <2> QED BY <1>1, <1>4, <2>1, BeforeGrows
  <1>5. \A m \in 1 .. p.enqueued : p.ring[m] = n => m = e
    <2>1. ASSUME NEW m \in 1 .. q.enqueued PROVE p.ring[m] # n
      <3>1. p.ring[m] = q.ring[m]
        BY <1>1 DEF Grows
      <3>2. q.ring[m] \in 1 .. Len(q.recordings) /\ Len(q.recordings) \in Nat
        BY <1>t DEF Elements
      <3> QED BY <1>3, <3>1, <3>2
    <2> QED BY <1>2, <1>3, <2>1, <1>t DEF Elements
  <1>6. ItemInv(p, w, k, Operation(e))
    <2>1. \A m \in 1 .. e - 1 : Before(p, w, k, m)
      BY <1>3, <1>4, <1>t, SMTT(30) DEF Elements
    <2> QED BY <1>2, <1>3, <2>1 DEF ItemInv, Operation
  <1>7. ItemInv(p, w, k + 1, Recording(n))
    <2>1. \A m \in 1 .. e : p.ring[m] = n \/ Before(p, w, k + 1, m)
      <3>1. ASSUME NEW m \in 1 .. e, m # e PROVE Before(p, w, k + 1, m)
        <4>1. m \in 1 .. q.enqueued /\ k + 1 \in Int /\ k <= k + 1
          BY <1>3, <3>1, <1>t DEF Elements
        <4> QED BY <1>4, <4>1
      <3> QED BY <1>1, <3>1
    <2>2. \E j \in 1 .. (k + 1) - 1 : p.fifo[w][j] = Operation(e)
      BY <1>1, <1>3
    <2> QED BY <1>1, <1>2, <1>3, <1>5, <2>1, <2>2 DEF ItemInv, Recording
  <1>8. ASSUME NEW r \in Streams, NEW i \in Len(q.fifo[r]) + 1 .. Len(p.fifo[r])
        PROVE  /\ r = w /\ i \in {k, k + 1}
               /\ ItemInv(p, r, i, p.fifo[r][i])
               /\ p.fifo[r][i].item = "op" => i = k
    <2>1. CASE r = w
      <3>1. i \in {k, k + 1}
        <4>1. i \in Len(q.fifo[w]) + 1 .. Len(q.fifo[w]) + 2 /\ Len(q.fifo[w]) \in Nat
          BY <1>1, <1>8, <2>1, <1>t DEF Elements
        <4> QED BY <1>3, <4>1
      <3> QED BY <1>1, <1>3, <1>6, <1>7, <2>1, <3>1 DEF Recording
    <2>2. CASE r # w
      BY <1>1, <1>8, <2>2, <1>t DEF Elements
    <2> QED BY <2>1, <2>2
  <1>9. PendingInv(p)
    <2>t. Elements(p)
      BY <1>1, Typed
    <2>1. ASSUME NEW r \in Streams, NEW i \in 1 .. Len(q.fifo[r])
          PROVE  i \in 1 .. Len(p.fifo[r]) /\ p.fifo[r][i] = q.fifo[r][i]
      BY <1>1, <1>t, <2>t, PlacesKept
    <2>2. ASSUME NEW r \in Streams, NEW i \in 1 .. Len(p.fifo[r]), p.fifo[r][i].item = "op"
          PROVE  \/ i \in 1 .. Len(q.fifo[r]) /\ p.fifo[r][i] = q.fifo[r][i] /\ p.fifo[r][i].id < e
                 \/ r = w /\ i = k /\ p.fifo[r][i].id = e
      <3>1. CASE i \in 1 .. Len(q.fifo[r])
        <4>1. p.fifo[r][i] = q.fifo[r][i] /\ ItemInv(q, r, i, q.fifo[r][i])
          BY <2>1, <3>1 DEF QueueInv, ItemsInv
        <4>2. q.fifo[r][i].id \in q.done + 1 .. q.enqueued
          BY <2>2, <4>1 DEF ItemInv
        <4>3. q.fifo[r][i].id < e
          <5>1. q.enqueued \in Nat /\ q.done \in Nat
            BY <1>0 DEF TypeQ
          <5> QED BY <1>3, <4>2, <5>1
        <4> QED BY <3>1, <4>1, <4>3
      <3>2. CASE i \in Len(q.fifo[r]) + 1 .. Len(p.fifo[r])
        BY <1>1, <1>8, <2>2, <3>2 DEF Operation
      <3> QED BY <3>1, <3>2, <1>t, <2>t DEF Elements
    <2>3. ASSUME NEW m \in p.done + 1 .. p.enqueued
          PROVE  \E s \in Streams : \E i \in 1 .. Len(p.fifo[s]) : p.fifo[s][i] = Operation(m)
      <3>1. CASE m = e
        <4>1. k \in 1 .. Len(p.fifo[w])
          BY <1>1, <1>3
        <4> QED BY <1>1, <3>1, <4>1
      <3>2. CASE m \in q.done + 1 .. q.enqueued
        <4>1. PICK s \in Streams : \E i \in 1 .. Len(q.fifo[s]) : q.fifo[s][i] = Operation(m)
          BY <1>0, <3>2 DEF PendingInv
        <4> QED BY <2>1, <4>1
      <3> QED BY <1>2, <1>3, <3>1, <3>2, <1>t DEF Elements
    <2>4. ASSUME NEW s \in Streams, NEW r \in Streams,
                 NEW i \in 1 .. Len(p.fifo[s]), NEW j \in 1 .. Len(p.fifo[r]),
                 p.fifo[s][i].item = "op", p.fifo[s][i] = p.fifo[r][j]
          PROVE  s = r /\ i = j
      <3>1. CASE p.fifo[s][i].id = e
        BY <1>3, <2>2, <2>4, <3>1, SMTT(30)
      <3>2. CASE p.fifo[s][i].id # e
        <4>1. i \in 1 .. Len(q.fifo[s]) /\ p.fifo[s][i] = q.fifo[s][i]
          BY <2>2, <2>4, <3>2
        <4>2. j \in 1 .. Len(q.fifo[r]) /\ p.fifo[r][j] = q.fifo[r][j]
          BY <2>2, <2>4, <3>2
        <4>3. q.fifo[s][i].item = "op" /\ q.fifo[s][i] = q.fifo[r][j]
          BY <2>4, <4>1, <4>2
        <4> QED BY <1>0, <4>1, <4>2, <4>3, OnePlace
      <3> QED BY <3>1, <3>2
    <2>5. \A s, r \in Streams : \A i \in 1 .. Len(p.fifo[s]), j \in 1 .. Len(p.fifo[r]) :
             p.fifo[s][i].item = "op" /\ p.fifo[s][i] = p.fifo[r][j] => s = r /\ i = j
      BY <2>4
    <2>6. \A m \in p.done + 1 .. p.enqueued :
             \E s \in Streams : \E i \in 1 .. Len(p.fifo[s]) : p.fifo[s][i] = Operation(m)
      BY <2>3
    <2> QED BY <2>5, <2>6 DEF PendingInv
  <1>10. QueueInv(p)
    BY <1>1, <1>8, <1>9, Added
  <1>11. Behind(p, w)
    <2>1. ASSUME NEW m \in 1 .. p.enqueued PROVE Before(p, w, Len(p.fifo[w]) + 1, m)
      <3>1. CASE m \in 1 .. q.enqueued
        <4>1. k <= Len(p.fifo[w]) + 1 /\ Len(p.fifo[w]) + 1 \in Int
          BY <1>1, <1>3
        <4> QED BY <1>4, <3>1, <4>1
      <3>2. CASE m = e
        <4>1. k + 1 \in 1 .. (Len(p.fifo[w]) + 1) - 1
          BY <1>1, <1>3
        <4> QED BY <1>1, <1>3, <3>2, <4>1 DEF Before
      <3> QED BY <1>2, <1>3, <3>1, <3>2, <1>t DEF Elements
    <2> QED BY <2>1 DEF Behind
  <1> QED BY <1>10, <1>11 DEF p

(***************************************************************************)
(* What the GPU takes                                                      *)
(***************************************************************************)
\* An operation starts in program order: nothing but the next one of all is
\* ever at the head of a stream.
LEMMA HeadIsNext ==
    ASSUME NEW q, QueueInv(q), NEW s \in Streams, q.fifo[s] # <<>>, q.fifo[s][1].item = "op"
    PROVE  q.fifo[s][1].id = q.done + 1 /\ q.done + 1 <= q.enqueued
  <1> DEFINE x == q.fifo[s][1]
  <1>0. TypeQ(q) /\ ReachedInv(q)
    BY DEF QueueInv
  <1>t. Elements(q)
    BY <1>0, Typed
  <1>1. 1 \in 1 .. Len(q.fifo[s])
    BY <1>t DEF Elements
  <1>2. /\ x.id \in q.done + 1 .. q.enqueued
        /\ \A m \in 1 .. x.id - 1 : Before(q, s, 1, m)
    BY <1>1 DEF QueueInv, ItemsInv, ItemInv
  <1> HIDE DEF x
  <1>3. ASSUME x.id # q.done + 1 PROVE FALSE
    <2>1. x.id - 1 \in 1 .. x.id - 1 /\ x.id - 1 \in 1 .. q.enqueued /\ x.id - 1 > q.done
      BY <1>2, <1>3, <1>t DEF Elements
    <2>2. Before(q, s, 1, x.id - 1)
      BY <1>2, <2>1
    <2>3. q.ring[x.id - 1] \in q.reached
      BY <2>2 DEF Before
    <2> QED BY <1>0, <1>t, <2>1, <2>3 DEF ReachedInv, Elements
  <1> QED BY <1>2, <1>3, <1>t DEF x, Elements

\* The head x of stream s has gone, and counts as done or reached.
Takes(q, p, s) ==
    LET x == q.fifo[s][1]
    IN  /\ q.fifo[s] # <<>>
        /\ p.fifo = [q.fifo EXCEPT ![s] = Tail(@)]
        /\ p.recordings = q.recordings /\ p.ring = q.ring /\ p.enqueued = q.enqueued
        /\ \/ x.item = "op" /\ p.done = q.done + 1 /\ p.reached = q.reached
           \/ x.item = "record" /\ p.done = q.done /\ p.reached = q.reached \cup {x.id}
           \/ x.item = "wait" /\ x.id \in q.reached /\ p.done = q.done /\ p.reached = q.reached

\* Stream s is one shorter, and each item one place further on.
Shifts(q, p, s) ==
    /\ Len(q.fifo[s]) > 0 /\ Len(p.fifo[s]) = Len(q.fifo[s]) - 1
    /\ \A i \in 1 .. Len(p.fifo[s]) : p.fifo[s][i] = q.fifo[s][i + 1]
    /\ \A r \in Streams \ {s} : p.fifo[r] = q.fifo[r]
    /\ p.recordings = q.recordings /\ p.ring = q.ring /\ p.enqueued = q.enqueued
    /\ q.reached \subseteq p.reached /\ q.done <= p.done /\ p.done \in Nat
    /\ p.done <= q.enqueued

LEMMA TakesShifts ==
    ASSUME NEW q, NEW p, QueueInv(q), NEW s \in Streams, Takes(q, p, s)
    PROVE  Shifts(q, p, s) /\ TypeQ(p)
  <1> DEFINE x == q.fifo[s][1]
  <1>0. TypeQ(q)
    BY DEF QueueInv
  <1>t. Elements(q)
    BY <1>0, Typed
  <1>1. /\ p.fifo[s] = Tail(q.fifo[s]) /\ q.fifo[s] # <<>> /\ q.fifo[s] \in Seq(Items)
        /\ \A r \in Streams \ {s} : p.fifo[r] = q.fifo[r]
    BY <1>0, <1>t DEF Takes, TypeQ, Elements
  <1>2. /\ Len(q.fifo[s]) > 0 /\ Len(p.fifo[s]) = Len(q.fifo[s]) - 1
        /\ \A i \in 1 .. Len(p.fifo[s]) : p.fifo[s][i] = q.fifo[s][i + 1]
        /\ p.fifo[s] \in Seq(Items)
    BY <1>1
  <1>3. p.fifo \in [Streams -> Seq(Items)]
    BY <1>0, <1>2 DEF Takes, TypeQ
  <1>4. 1 \in 1 .. Len(q.fifo[s])
    BY <1>2, <1>t DEF Elements
  <1>5. p.done \in Nat /\ q.done <= p.done /\ p.done <= q.enqueued
    <2>1. x.item = "op" => q.done + 1 <= q.enqueued
      BY <1>1, HeadIsNext
    <2> QED BY <2>1, <1>t DEF Takes, Elements
  <1>6. q.reached \subseteq p.reached /\ p.reached \subseteq 1 .. Len(q.recordings)
    <2>1. x.item = "record" => x.id \in 1 .. Len(q.recordings)
      BY <1>4, Recorded
    <2> QED BY <2>1, <1>t DEF Takes, Elements
  <1>7. p.recordings = q.recordings /\ p.ring = q.ring /\ p.enqueued = q.enqueued
    BY DEF Takes
  <1>8. Shifts(q, p, s)
    BY <1>1, <1>2, <1>5, <1>6, <1>7 DEF Shifts
  <1> QED BY <1>0, <1>3, <1>5, <1>6, <1>7, <1>8 DEF TypeQ

\* What stood at the head is reached by now.
LEMMA BeforeShifts ==
    ASSUME NEW q, NEW p, QueueInv(q), NEW s \in Streams, Takes(q, p, s),
           NEW i \in 1 .. Len(q.fifo[s]), NEW m \in 1 .. q.enqueued, Before(q, s, i + 1, m)
    PROVE  Before(p, s, i, m)
  <1> DEFINE x == q.fifo[s][1]
  <1>0. TypeQ(q) /\ ReachedInv(q) /\ Shifts(q, p, s)
    BY TakesShifts DEF QueueInv
  <1>t. Elements(q)
    BY <1>0, Typed
  <1>1. p.recordings = q.recordings /\ p.ring = q.ring /\ q.reached \subseteq p.reached
    BY <1>0 DEF Shifts
  <1>2. ASSUME NEW j \in 1 .. i, j # 1
        PROVE  j - 1 \in 1 .. i - 1 /\ p.fifo[s][j - 1] = q.fifo[s][j]
    <2>1. j - 1 \in 1 .. i - 1 /\ j - 1 \in 1 .. Len(p.fifo[s]) /\ (j - 1) + 1 = j
      BY <1>0, <1>2, <1>t DEF Shifts, Elements
    <2> QED BY <1>0, <2>1 DEF Shifts
  <1>3. CASE q.ring[m] \in q.reached
    BY <1>1, <1>3 DEF Before
  <1>4. ASSUME NEW j \in 1 .. i, q.fifo[s][j] = Recording(q.ring[m]) PROVE Before(p, s, i, m)
    <2>1. CASE j = 1
      <3>1. x.item = "record" /\ x.id = q.ring[m]
        BY <1>4, <2>1 DEF Recording
      <3>2. q.ring[m] \in p.reached
        BY <3>1 DEF Takes
      <3> QED BY <1>1, <3>2 DEF Before
    <2>2. CASE j # 1
      BY <1>1, <1>2, <1>4, <2>2 DEF Before
    <2> QED BY <2>1, <2>2
  <1>5. ASSUME NEW j \in 1 .. i, q.fifo[s][j].item = "wait",
               q.recordings[q.fifo[s][j].id] >= m
        PROVE  Before(p, s, i, m)
    <2>1. CASE j = 1
      <3>1. x.id \in q.reached /\ x.id \in 1 .. Len(q.recordings)
        BY <1>5, <2>1, <1>t DEF Takes, Elements
      <3>2. m \in 1 .. q.recordings[x.id]
        BY <1>5, <2>1, <3>1, <1>t DEF Elements
      <3>3. q.ring[m] \in p.reached
        BY <1>0, <1>1, <3>1, <3>2 DEF ReachedInv
      <3> QED BY <1>1, <3>3 DEF Before
    <2>2. CASE j # 1
      <3>1. j - 1 \in 1 .. i - 1 /\ p.fifo[s][j - 1] = q.fifo[s][j]
        BY <1>2, <2>2
      <3>2. p.fifo[s][j - 1].item = "wait" /\ p.recordings[p.fifo[s][j - 1].id] >= m
        BY <1>1, <1>5, <3>1
      <3> QED BY <3>1, <3>2 DEF Before
    <2> QED BY <2>1, <2>2
  <1>6. (i + 1) - 1 = i
    BY <1>t DEF Elements
  <1> QED BY <1>3, <1>4, <1>5, <1>6 DEF Before

\* On the other stream nothing moves.
LEMMA BeforeStays ==
    ASSUME NEW q, NEW p, NEW s \in Streams, Shifts(q, p, s), NEW r \in Streams, r # s,
           NEW i, NEW m, Before(q, r, i, m)
    PROVE  Before(p, r, i, m)
  BY DEF Before, Shifts

\* Item x, at place i of stream r, now at place k.
LEMMA ItemShifts ==
    ASSUME NEW q, NEW p, QueueInv(q), NEW s \in Streams, Takes(q, p, s),
           NEW r \in Streams, NEW k \in 1 .. Len(p.fifo[r]), NEW i \in 1 .. Len(q.fifo[r]),
           IF r = s THEN i = k + 1 ELSE i = k
    PROVE  ItemInv(p, r, k, q.fifo[r][i])
  <1> DEFINE x == q.fifo[r][i]
  <1>0. TypeQ(q) /\ TypeQ(p) /\ Shifts(q, p, s) /\ PendingInv(q) /\ ItemInv(q, r, i, x)
    BY TakesShifts DEF QueueInv, ItemsInv
  <1>t. Elements(q) /\ Elements(p)
    BY <1>0, Typed
  <1>1. /\ p.recordings = q.recordings /\ p.ring = q.ring /\ p.enqueued = q.enqueued
        /\ q.done <= p.done /\ p.done \in Nat
    BY <1>0 DEF Shifts
  <1>2. ASSUME NEW m \in 1 .. q.enqueued, Before(q, r, i, m) PROVE Before(p, r, k, m)
    <2>1. CASE r = s
      <3>1. k \in 1 .. Len(q.fifo[s])
        BY <1>0, <2>1, <1>t DEF Shifts, Elements
      <3> QED BY <1>2, <2>1, <3>1, BeforeShifts
    <2>2. CASE r # s
      BY <1>0, <1>2, <2>2, BeforeStays
    <2> QED BY <2>1, <2>2
  <1>3. 1 \in 1 .. Len(q.fifo[s]) /\ q.fifo[s] # <<>> /\ (r = s => i # 1)
    BY <1>t, SMTT(30) DEF Takes, Elements
  <1>4. ASSUME x.item = "op"
        PROVE  x.id \in p.done + 1 .. p.enqueued /\ \A m \in 1 .. x.id - 1 : Before(p, r, k, m)
    <2>1. x.id \in q.done + 1 .. q.enqueued /\ \A m \in 1 .. x.id - 1 : Before(q, r, i, m)
      BY <1>0, <1>4 DEF ItemInv
    <2>2. x.id # p.done \/ p.done = q.done
      <3>1. CASE q.fifo[s][1].item = "op"
        <4>1. q.fifo[s][1].id = p.done
          BY <1>3, <3>1, HeadIsNext DEF Takes
        <4>2. x \in Items /\ q.fifo[s][1] \in Items
          BY <1>3, <1>t DEF Elements
        <4>3. x # q.fifo[s][1]
          BY <1>0, <1>3, <1>4, OnePlace
        <4> QED BY <1>4, <3>1, <4>1, <4>2, <4>3 DEF Items
      <3>2. CASE q.fifo[s][1].item # "op"
        BY <3>2 DEF Takes
      <3> QED BY <3>1, <3>2
    <2>3. p.done = q.done \/ p.done = q.done + 1
      BY DEF Takes
    <2> HIDE DEF x
    <2>4. x.id \in p.done + 1 .. p.enqueued
      BY <1>1, <2>1, <2>2, <2>3, <1>t DEF Elements
    <2>5. \A m \in 1 .. x.id - 1 : m \in 1 .. q.enqueued
      BY <2>1, <1>t DEF Elements
    <2> QED BY <1>2, <2>1, <2>4, <2>5
  <1>5. ASSUME x.item # "op" PROVE x.id \in 1 .. Len(p.recordings)
    BY <1>0, <1>1, <1>5 DEF ItemInv
  <1>6. ASSUME x.item = "record"
        PROVE  /\ \A m \in 1 .. p.recordings[x.id] : p.ring[m] = x.id \/ Before(p, r, k, m)
               /\ \A m \in 1 .. p.enqueued : p.ring[m] = x.id =>
                     m <= p.done \/ \E j \in 1 .. k - 1 : p.fifo[r][j] = Operation(m)
    <2>1. /\ \A m \in 1 .. q.recordings[x.id] : q.ring[m] = x.id \/ Before(q, r, i, m)
          /\ \A m \in 1 .. q.enqueued : q.ring[m] = x.id =>
                m <= q.done \/ \E j \in 1 .. i - 1 : q.fifo[r][j] = Operation(m)
          /\ x.id \in 1 .. Len(q.recordings)
      BY <1>0, <1>6 DEF ItemInv
    <2> HIDE DEF x
    <2>2. \A m \in 1 .. q.recordings[x.id] : m \in 1 .. q.enqueued
      BY <2>1, <1>t DEF Elements
    <2>3. ASSUME NEW m \in 1 .. q.enqueued, q.ring[m] = x.id
          PROVE  m <= p.done \/ \E j \in 1 .. k - 1 : p.fifo[r][j] = Operation(m)
      <3>1. CASE m <= q.done
        BY <1>1, <3>1, <1>t DEF Elements
      <3>2. ASSUME NEW j \in 1 .. i - 1, q.fifo[r][j] = Operation(m)
            PROVE  m <= p.done \/ \E l \in 1 .. k - 1 : p.fifo[r][l] = Operation(m)
        <4>1. CASE r = s /\ j = 1
          <5>1. q.fifo[s][1].item = "op" /\ q.fifo[s][1].id = m
            BY <3>2, <4>1 DEF Operation
          <5>2. m = p.done
            BY <1>3, <5>1, HeadIsNext DEF Takes
          <5> QED BY <5>2, <1>1
        <4>2. CASE r = s /\ j # 1
          <5>1. j - 1 \in 1 .. k - 1 /\ j - 1 \in 1 .. Len(p.fifo[s]) /\ (j - 1) + 1 = j
            BY <3>2, <4>2, <1>t DEF Elements
          <5>2. p.fifo[r][j - 1] = Operation(m)
            BY <1>0, <3>2, <4>2, <5>1 DEF Shifts
          <5> QED BY <5>1, <5>2
        <4>3. CASE r # s
          BY <1>0, <3>2, <4>3 DEF Shifts
        <4> QED BY <4>1, <4>2, <4>3
      <3> QED BY <2>1, <2>3, <3>1, <3>2
    <2> QED BY <1>1, <1>2, <2>1, <2>2, <2>3
  <1>7. ItemInv(p, r, k, x)
    BY <1>4, <1>5, <1>6 DEF ItemInv
  <1> QED BY <1>7 DEF x

\* The place in q of what is at place k of stream r in p.
LEMMA PlaceShifts ==
    ASSUME NEW q, NEW p, Elements(q), Elements(p), NEW s \in Streams, Shifts(q, p, s),
           NEW r \in Streams, NEW k \in 1 .. Len(p.fifo[r]),
           NEW i, i = IF r = s THEN k + 1 ELSE k
    PROVE  i \in 1 .. Len(q.fifo[r]) /\ p.fifo[r][k] = q.fifo[r][i]
  <1>1. CASE r = s
    <2>1. Len(p.fifo[s]) = Len(q.fifo[s]) - 1 /\ Len(q.fifo[s]) \in Nat
      BY DEF Shifts, Elements
    <2> QED BY <1>1, <2>1 DEF Shifts
  <1>2. CASE r # s
    BY <1>2 DEF Shifts
  <1> QED BY <1>1, <1>2

LEMMA PendingShifts ==
    ASSUME NEW q, NEW p, QueueInv(q), NEW s \in Streams, Takes(q, p, s)
    PROVE  PendingInv(p)
  <1>0. TypeQ(q) /\ TypeQ(p) /\ Shifts(q, p, s) /\ PendingInv(q)
    BY TakesShifts DEF QueueInv
  <1>t. Elements(q) /\ Elements(p)
    BY <1>0, Typed
  <1>1. ASSUME NEW n \in p.done + 1 .. p.enqueued
        PROVE  \E r \in Streams : \E i \in 1 .. Len(p.fifo[r]) : p.fifo[r][i] = Operation(n)
    <2>1. n \in q.done + 1 .. q.enqueued /\ n # p.done
      BY <1>0, <1>t DEF Shifts, Elements
    <2>2. PICK r \in Streams : \E i \in 1 .. Len(q.fifo[r]) : q.fifo[r][i] = Operation(n)
      BY <1>0, <2>1 DEF PendingInv
    <2>3. PICK i \in 1 .. Len(q.fifo[r]) : q.fifo[r][i] = Operation(n)
      BY <2>2
    <2>4. CASE r = s
      <3>1. i # 1
        <4>1. SUFFICES ASSUME i = 1 PROVE FALSE
          OBVIOUS
        <4>2. q.fifo[s][1].item = "op" /\ q.fifo[s][1].id = n
          BY <2>3, <2>4, <4>1 DEF Operation
        <4>3. n = p.done
          BY <4>2, HeadIsNext DEF Takes
        <4> QED BY <2>1, <4>3
      <3>2. i - 1 \in 1 .. Len(p.fifo[s]) /\ (i - 1) + 1 = i
        BY <1>0, <2>4, <3>1, <1>t DEF Shifts, Elements
      <3>3. p.fifo[s][i - 1] = Operation(n)
        BY <1>0, <2>3, <2>4, <3>2 DEF Shifts
      <3> QED BY <3>2, <3>3
    <2>5. CASE r # s
      BY <1>0, <2>3, <2>5 DEF Shifts
    <2> QED BY <2>4, <2>5
  <1> DEFINE Was(r, k) == IF r = s THEN k + 1 ELSE k
  <1>2. ASSUME NEW r \in Streams, NEW k \in 1 .. Len(p.fifo[r])
        PROVE  /\ Was(r, k) \in 1 .. Len(q.fifo[r])
               /\ p.fifo[r][k] = q.fifo[r][Was(r, k)]
    BY <1>0, <1>t, PlaceShifts
  <1>3. ASSUME NEW r \in Streams, NEW t \in Streams,
               NEW i \in 1 .. Len(p.fifo[r]), NEW j \in 1 .. Len(p.fifo[t]),
               p.fifo[r][i].item = "op", p.fifo[r][i] = p.fifo[t][j]
        PROVE  r = t /\ i = j
    <2> HIDE DEF Was
    <2>1. q.fifo[r][Was(r, i)].item = "op" /\ q.fifo[r][Was(r, i)] = q.fifo[t][Was(t, j)]
      BY <1>2, <1>3
    <2>2. r = t /\ Was(r, i) = Was(t, j)
      BY <1>0, <1>2, <2>1, OnePlace
    <2> QED BY <2>2, <1>t DEF Was, Elements
  <1> QED BY <1>1, <1>3 DEF PendingInv

LEMMA ReachedShifts ==
    ASSUME NEW q, NEW p, QueueInv(q), NEW s \in Streams, Takes(q, p, s)
    PROVE  ReachedInv(p)
  <1> DEFINE x == q.fifo[s][1]
  <1>0. TypeQ(q) /\ Shifts(q, p, s) /\ ReachedInv(q)
    BY TakesShifts DEF QueueInv
  <1>t. Elements(q)
    BY <1>0, Typed
  <1>1. p.recordings = q.recordings /\ p.ring = q.ring /\ p.enqueued = q.enqueued
        /\ q.done <= p.done /\ p.done \in Nat /\ q.reached \subseteq p.reached
    BY <1>0 DEF Shifts
  <1>2. 1 \in 1 .. Len(q.fifo[s])
    BY <1>t DEF Takes, Elements
  <1>3. CASE x.item # "record"
    BY <1>0, <1>1, <1>3, <1>t DEF Takes, ReachedInv, Elements
  <1>4. CASE x.item = "record"
    <2>1. p.reached = q.reached \cup {x.id} /\ p.done = q.done
      BY <1>4 DEF Takes
    <2>2. /\ \A m \in 1 .. q.recordings[x.id] : q.ring[m] = x.id \/ Before(q, s, 1, m)
          /\ \A m \in 1 .. q.enqueued : q.ring[m] = x.id =>
                m <= q.done \/ \E j \in 1 .. 1 - 1 : q.fifo[s][j] = Operation(m)
      BY <1>2, <1>4 DEF QueueInv, ItemsInv, ItemInv
    <2>3. \A m \in 1 .. q.recordings[x.id] : q.ring[m] = x.id \/ q.ring[m] \in q.reached
      BY <2>2 DEF Before
    <2>4. \A m \in 1 .. q.enqueued : q.ring[m] = x.id => m <= q.done
      BY <2>2
    <2> QED BY <1>0, <1>1, <2>1, <2>3, <2>4 DEF ReachedInv
  <1> QED BY <1>3, <1>4

LEMMA TakesKeeps ==
    ASSUME NEW q, NEW p, QueueInv(q), NEW s \in Streams, Takes(q, p, s)
    PROVE  QueueInv(p) /\ \A w \in Streams : Behind(q, w) => Behind(p, w)
  <1>0. TypeQ(q) /\ TypeQ(p) /\ Shifts(q, p, s)
    BY TakesShifts DEF QueueInv
  <1>t. Elements(q) /\ Elements(p)
    BY <1>0, Typed
  <1>1. ASSUME NEW r \in Streams, NEW k \in 1 .. Len(p.fifo[r])
        PROVE  ItemInv(p, r, k, p.fifo[r][k])
    <2> DEFINE i == IF r = s THEN k + 1 ELSE k
    <2>1. i \in 1 .. Len(q.fifo[r]) /\ p.fifo[r][k] = q.fifo[r][i]
      BY <1>0, <1>t, PlaceShifts
    <2>2. ItemInv(p, r, k, q.fifo[r][i])
      BY <2>1, ItemShifts
    <2> QED BY <2>1, <2>2
  <1>2. ASSUME NEW w \in Streams, Behind(q, w), NEW m \in 1 .. p.enqueued
        PROVE  Before(p, w, Len(p.fifo[w]) + 1, m)
    <2>1. m \in 1 .. q.enqueued
      BY <1>0 DEF Shifts
    <2>2. Before(q, w, Len(q.fifo[w]) + 1, m)
      BY <1>2, <2>1 DEF Behind
    <2>3. CASE w = s
      <3>1. Len(q.fifo[s]) \in 1 .. Len(q.fifo[s]) /\ Len(p.fifo[s]) + 1 = Len(q.fifo[s])
        BY <1>0, <1>t DEF Shifts, Elements
      <3> QED BY <2>1, <2>2, <2>3, <3>1, BeforeShifts
    <2>4. CASE w # s
      <3>1. p.fifo[w] = q.fifo[w]
        BY <1>0, <2>4 DEF Shifts
      <3> QED BY <1>0, <2>2, <2>4, <3>1, BeforeStays
    <2> QED BY <2>3, <2>4
  <1> QED BY <1>0, <1>1, <1>2, PendingShifts, ReachedShifts DEF QueueInv, ItemsInv, Behind

(***************************************************************************)
(* LinearInv                                                               *)
(***************************************************************************)
LEMMA LinearHolds ==
    ASSUME WorkAssumption, Init
    PROVE  LinearInv
  <1> DEFINE q == Now
  <1>1. /\ q.fifo = [s \in Streams |-> <<>>] /\ q.recordings = <<>> /\ q.ring = <<>>
        /\ q.reached = {} /\ q.enqueued = 0 /\ q.done = 0
    BY DEF Now, Init
  <1>2. \A s \in Streams : q.fifo[s] = <<>> /\ Len(q.fifo[s]) = 0
    BY <1>1
  <1> HIDE DEF q
  <1>3. TypeQ(q)
    <2>1. q.fifo \in [Streams -> Seq(Items)]
      BY <1>1
    <2> QED BY <1>1, <2>1 DEF TypeQ
  <1>4. QueueInv(q)
    BY <1>1, <1>2, <1>3 DEF QueueInv, ItemsInv, PendingInv, ReachedInv
  <1> QED BY <1>4 DEF q, LinearInv, Init

\* The parts of QueueInv, and Behind, of the value the streams have after a step.
LEMMA QueueNext ==
    ASSUME NEW p, QueueInv(p), Now' = p
    PROVE  QueueInv(Now)'
  <1>1. TypeQ(Now)'
    BY DEF QueueInv, TypeQ
  <1>2. ItemsInv(Now)'
    <2>1. ASSUME NEW s \in Streams, NEW i \in 1 .. Len(p.fifo[s])
          PROVE  ItemInv(Now, s, i, Now.fifo[s][i])'
      <3>1. ItemInv(p, s, i, p.fifo[s][i])
        BY DEF QueueInv, ItemsInv
      <3>2. ASSUME NEW m, Before(p, s, i, m) PROVE Before(Now, s, i, m)'
        BY <3>2 DEF Before
      <3> QED BY <3>1, <3>2 DEF ItemInv
    <2> QED BY <2>1 DEF ItemsInv
  <1>3. PendingInv(Now)'
    BY DEF QueueInv, PendingInv
  <1>4. ReachedInv(Now)'
    BY DEF QueueInv, ReachedInv
  <1> QED BY <1>1, <1>2, <1>3, <1>4 DEF QueueInv

LEMMA BehindNext ==
    ASSUME NEW p, NEW w, Behind(p, w), Now' = p, last_stream' = w
    PROVE  Behind(Now, last_stream)'
  BY DEF Behind, Before

\* A step of the scheduler that puts nothing on the streams.
LEMMA LinearKept ==
    ASSUME LinearInv, UNCHANGED <<schedVars, ring, enqueued, recordings, fifo, gpuVars>>,
           ev_done' \in Nat, ev_done' <= Len(completed),
           phase' \in {"polling", "freeingGemm", "drained"} => Empty("main"),
           phase' = "drained" => Empty("gemm")
    PROVE  LinearInv'
  <1>1. Now' = Now
    BY DEF Now
  <1>2. last_stream # "null" => Behind(Now, last_stream)'
    BY <1>1, BehindNext DEF LinearInv
  <1>3. QueueInv(Now)'
    BY <1>1, QueueNext DEF LinearInv
  <1> QED BY <1>2, <1>3 DEF LinearInv, Empty

LEMMA WantedStream ==
    ASSUME LinearInv, NEW kind \in Kinds
    PROVE  /\ Wanted(kind) \in Streams
           /\ Switches(kind) => last_stream \in Streams /\ last_stream # Wanted(kind)
  BY DEF LinearInv, Wanted, Switches, Streams

\* The stream a call is put on, after the chain that leads there.
Routed(kind) == IF Switches(kind) THEN Chain(Now, last_stream, Wanted(kind)) ELSE Now

LEMMA RoutedKeeps ==
    ASSUME LinearInv, NEW kind \in Kinds
    PROVE  /\ QueueInv(Routed(kind)) /\ Behind(Routed(kind), Wanted(kind))
           /\ Routed(kind).fifo = Chained(kind)
           /\ Routed(kind).recordings = recordings \o ChainRecording(kind)
           /\ Routed(kind).ring = ring /\ Routed(kind).reached = reached
           /\ Routed(kind).enqueued = enqueued /\ Routed(kind).done = Len(completed)
  <1>1. QueueInv(Now) /\ recordings \in Seq(Nat) /\ enqueued \in Nat
    BY DEF LinearInv, QueueInv, TypeQ, Now
  <1>2. CASE Switches(kind)
    <2>1. last_stream # "null" /\ Behind(Now, last_stream)
      BY <1>2 DEF LinearInv, Switches
    <2>2. QueueInv(Routed(kind)) /\ Behind(Routed(kind), Wanted(kind))
      BY <1>1, <1>2, <2>1, WantedStream, ChainKeeps DEF Routed
    <2>3. Append(recordings, enqueued) = recordings \o <<enqueued>>
      BY <1>1
    <2> QED BY <1>2, <2>2, <2>3 DEF Routed, Chain, Chained, ChainRecording, Now
  <1>3. CASE ~Switches(kind)
    <2>1. Behind(Now, Wanted(kind))
      <3>1. CASE last_stream = "null"
        BY <3>1 DEF LinearInv, Behind, Now
      <3>2. CASE last_stream # "null"
        <4>1. last_stream = Wanted(kind)
          BY <1>3, <3>2 DEF Switches, Wanted
        <4> QED BY <3>2, <4>1 DEF LinearInv
      <3> QED BY <3>1, <3>2
    <2>2. recordings \o <<>> = recordings
      BY <1>1
    <2> QED BY <1>1, <1>3, <2>1, <2>2 DEF Routed, Chained, ChainRecording, Now
  <1> QED BY <1>2, <1>3

LEMMA EnqueueKeeps ==
    ASSUME WorkAssumption, LinearInv, NEW kind \in Kinds, Enqueue(kind)
    PROVE  LinearInv'
  <1> DEFINE q == Routed(kind)
             w == Wanted(kind)
             p == PutOperation(q, w)
  <1>1. /\ QueueInv(q) /\ Behind(q, w) /\ w \in Streams
        /\ q.fifo = Chained(kind) /\ q.recordings = recordings \o ChainRecording(kind)
        /\ q.ring = ring /\ q.reached = reached /\ q.enqueued = enqueued
        /\ q.done = Len(completed)
    BY RoutedKeeps, WantedStream
  <1>2. QueueInv(p) /\ Behind(p, w)
    BY <1>1, OperationKeeps
  <1>3. Now' = p
    <2>1. q.recordings \in Seq(Nat) /\ enqueued \in Nat
      BY <1>1 DEF QueueInv, TypeQ
    <2>2. recordings' = q.recordings \o <<enqueued + 1>>
      BY <1>1 DEF Enqueue
    <2> HIDE DEF q
    <2>3. recordings' = Append(q.recordings, enqueued + 1)
          /\ Len(recordings') = Len(q.recordings) + 1
      BY <2>1, <2>2
    <2> QED BY <1>1, <2>3 DEF Now, PutOperation, Enqueue, Replays
  <1>4. last_stream' = w /\ w # "null"
    BY <1>1 DEF Enqueue, Replays, Route, AsyncKinds, Parks, Streams
  <1>5. QueueInv(Now)'
    BY <1>2, <1>3, QueueNext
  <1>6. Behind(Now, last_stream)'
    BY <1>2, <1>3, <1>4, BehindNext
  <1>7. phase' \in {"parked", "none"} /\ UNCHANGED <<completed, executing, ev_done>>
    BY DEF Enqueue, Replays
  <1> QED BY <1>1, <1>4, <1>5, <1>6, <1>7 DEF LinearInv

LEMMA RoutedAlone ==
    ASSUME WorkAssumption, LinearInv, NEW kind \in Kinds, Replays(kind), kind # "EventRecord",
           recordings' = recordings \o ChainRecording(kind), fifo' = Chained(kind),
           UNCHANGED <<ring, enqueued>>, phase' \in {"none", "parked", "freeing"}
    PROVE  LinearInv'
  <1> DEFINE q == Routed(kind)
             w == Wanted(kind)
  <1>1. /\ QueueInv(q) /\ Behind(q, w) /\ w \in Streams
        /\ q.fifo = Chained(kind) /\ q.recordings = recordings \o ChainRecording(kind)
        /\ q.ring = ring /\ q.reached = reached /\ q.enqueued = enqueued
        /\ q.done = Len(completed)
    BY RoutedKeeps, WantedStream
  <1>2. Now' = q
    BY <1>1 DEF Now, Replays, Routed, Chain
  <1>3. QueueInv(Now)'
    <2>1. QueueInv(q)
      BY <1>1
    <2> HIDE DEF q
    <2> QED BY <1>2, <2>1, QueueNext
  <1>4. CASE kind = "StreamSync"
    <2>1. last_stream' = last_stream /\ ~Switches(kind)
      BY <1>4 DEF Replays, Route, Switches
    <2>2. Now' = Now
      BY <1>2, <2>1 DEF Routed
    <2>3. IF last_stream' = "null" THEN enqueued' = 0 ELSE Behind(Now, last_stream)'
      BY <2>1, <2>2 DEF LinearInv, Behind, Before
    <2> QED BY <1>3, <2>1, <2>3 DEF LinearInv, Replays
  <1>5. CASE kind # "StreamSync"
    <2>1. last_stream' = w /\ w # "null"
      BY <1>1, <1>5 DEF Replays, Route, Streams
    <2>2. Behind(Now, last_stream)'
      BY <1>1, <1>2, <2>1, BehindNext
    <2> QED BY <1>1, <1>3, <2>1, <2>2 DEF LinearInv, Replays
  <1> QED BY <1>4, <1>5

LEMMA RecordEventKeeps ==
    ASSUME WorkAssumption, LinearInv, RecordEvent
    PROVE  LinearInv'
  <1> DEFINE w == Wanted("EventRecord")
             p == PutEvent(Now, w)
  <1>1. QueueInv(Now) /\ Behind(Now, w) /\ w \in Streams
    <2>1. ~Switches("EventRecord") /\ "EventRecord" \in Kinds
      BY DEF Switches, RecordEvent
    <2> QED BY <2>1, RoutedKeeps, WantedStream DEF Routed
  <1>2. QueueInv(p) /\ Behind(p, w)
    BY <1>1, EventKeeps
  <1>3. Now' = p
    <2>1. recordings \in Seq(Nat) /\ enqueued \in Nat
      BY <1>1 DEF QueueInv, TypeQ, Now
    <2>2. recordings' = Append(recordings, enqueued) /\ Len(recordings') = Len(recordings) + 1
      BY <2>1 DEF RecordEvent
    <2> QED BY <2>2 DEF Now, PutEvent, RecordEvent, Replays
  <1>4. last_stream' = last_stream /\ (last_stream # "null" => w = last_stream)
        /\ UNCHANGED <<enqueued, phase, completed, executing, ev_done>>
    BY DEF RecordEvent, Replays, Route, Wanted
  <1>5. QueueInv(Now)'
    <2> HIDE DEF p
    <2> QED BY <1>2, <1>3, QueueNext
  <1>6. last_stream # "null" => Behind(Now, last_stream)'
    BY <1>2, <1>3, <1>4, BehindNext
  <1>7. phase = "none"
    BY DEF RecordEvent, Replays
  <1> QED BY <1>4, <1>5, <1>6, <1>7 DEF LinearInv

\* What Complete, Reach and PassWait have in common.
LEMMA HeadGone ==
    ASSUME LinearInv, NEW s \in Streams, Takes(Now, Now', s),
           UNCHANGED <<phase, schedVars, ev_done, enqueued>>,
           completed' \in Seq(Nat), Len(completed) <= Len(completed'),
           \A i \in 1 .. Len(completed') : completed'[i] = i,
           executing' \subseteq {Len(completed') + 1}
    PROVE  LinearInv'
  <1>1. QueueInv(Now) /\ (last_stream # "null" => Behind(Now, last_stream) /\ last_stream \in Streams)
    BY DEF LinearInv
  <1> DEFINE p == Now'
  <1>2. QueueInv(p) /\ (last_stream # "null" => Behind(p, last_stream))
    BY <1>1, TakesKeeps
  <1>3. QueueInv(Now)'
    BY <1>2, QueueNext
  <1>4. last_stream' # "null" => Behind(Now, last_stream)'
    BY <1>2, BehindNext
  <1>5. ASSUME NEW r \in Streams, Empty(r) PROVE Empty(r)'
    <2>1. r # s /\ fifo' = [fifo EXCEPT ![s] = Tail(@)]
      BY <1>5 DEF Takes, Now, Empty
    <2>2. fifo \in [Streams -> Seq(Items)]
      BY <1>1 DEF QueueInv, TypeQ, Now
    <2> QED BY <1>5, <2>1, <2>2 DEF Empty
  <1>6. ev_done' \in Nat /\ ev_done' <= Len(completed')
    BY DEF LinearInv
  <1> QED BY <1>3, <1>4, <1>5, <1>6 DEF LinearInv, Streams

LEMMA GpuKeeps ==
    ASSUME LinearInv, NEW s \in Streams, Gpu(s)
    PROVE  LinearInv'
  <1> DEFINE x == fifo[s][1]
  <1>0. QueueInv(Now) /\ completed \in Seq(Nat) /\ executing \subseteq {Len(completed) + 1}
        /\ Now.fifo = fifo /\ Now.done = Len(completed)
    BY DEF LinearInv, Now
  <1>1. ASSUME HeadIs(s, "op") PROVE x.id = Len(completed) + 1 /\ Now.fifo[s] # <<>>
    BY <1>0, <1>1, HeadIsNext DEF HeadIs, Empty
  <1>2. CASE Start(s)
    <2>1. Now' = Now
      BY <1>2 DEF Start, Now
    <2>2. last_stream # "null" => Behind(Now, last_stream)'
      BY <1>2, <2>1, BehindNext DEF LinearInv, Start
    <2>3. QueueInv(Now)'
      BY <1>0, <2>1, QueueNext
    <2> QED BY <1>1, <1>2, <2>2, <2>3 DEF LinearInv, Start, Empty
  <1>3. CASE Complete(s)
    <2>1. x.id = Len(completed) + 1 /\ x.item = "op" /\ fifo[s] # <<>>
      BY <1>1, <1>3 DEF Complete, HeadIs, Empty
    <2>2. completed' = Append(completed, Len(completed) + 1) /\ executing' = {}
      BY <1>0, <1>3, <2>1 DEF Complete
    <2>3. /\ completed' \in Seq(Nat) /\ Len(completed') = Len(completed) + 1
          /\ \A i \in 1 .. Len(completed') : completed'[i] = i
      BY <1>0, <2>2 DEF LinearInv
    <2>4. Takes(Now, Now', s)
      BY <1>3, <2>1, <2>3 DEF Complete, Takes, Now, TakeHead
    <2>5. Len(completed) <= Len(completed')
      BY <1>0, <2>3
    <2> QED BY <1>3, <2>2, <2>3, <2>4, <2>5, HeadGone DEF Complete
  <1>4. CASE Reach(s)
    <2>1. Takes(Now, Now', s)
      BY <1>4 DEF Reach, Takes, Now, TakeHead, HeadIs, Empty
    <2> QED BY <1>0, <1>4, <2>1, HeadGone DEF Reach, LinearInv
  <1>5. CASE PassWait(s)
    <2>1. Takes(Now, Now', s)
      BY <1>5 DEF PassWait, Takes, Now, TakeHead, HeadIs, Empty
    <2> QED BY <1>0, <1>5, <2>1, HeadGone DEF PassWait, LinearInv
  <1> QED BY <1>2, <1>3, <1>4, <1>5 DEF Gpu

LEMMA SchedulerKeeps ==
    ASSUME LinearInv, Scheduler
    PROVE  LinearInv'
  <1>1. ev_done \in Nat /\ ev_done <= Len(completed)
    BY DEF LinearInv
  <1>2. CASE FreeMain
    BY <1>1, <1>2, LinearKept DEF FreeMain, Await
  <1>3. CASE FreeGemm
    BY <1>1, <1>3, LinearKept DEF FreeGemm, Await, LinearInv
  <1>4. CASE PollMain
    BY <1>1, <1>4, LinearKept DEF PollMain, Await
  <1>5. CASE PollGemm
    BY <1>1, <1>5, LinearKept DEF PollGemm, LinearInv
  <1>6. CASE Release
    BY <1>1, <1>6, LinearKept DEF Release
  <1>7. CASE Advance
    <2>1. ev_done + 1 \in 1 .. enqueued /\ ring[ev_done + 1] \in reached
      BY <1>1, <1>7 DEF Advance, LinearInv, QueueInv, TypeQ, Now
    <2>2. ev_done + 1 <= Len(completed)
      BY <2>1 DEF LinearInv, QueueInv, ReachedInv, Now
    <2> QED BY <1>1, <1>7, <2>2, LinearKept DEF Advance, LinearInv
  <1> QED BY <1>2, <1>3, <1>4, <1>5, <1>6, <1>7 DEF Scheduler

LEMMA LinearNext ==
    ASSUME WorkAssumption, LinearInv, [Next]_vars
    PROVE  LinearInv'
  <1>1. ASSUME NEW s \in Streams, Gpu(s) PROVE LinearInv'
    BY <1>1, GpuKeeps
  <1>2. ASSUME NEW kind \in Kinds, Enqueue(kind) PROVE LinearInv'
    BY <1>2, EnqueueKeeps
  <1>3. ASSUME NEW kind \in Kinds, EnqueueNothing(kind) PROVE LinearInv'
    <2>1. phase' \in {"none", "parked", "freeing"}
      BY <1>3 DEF EnqueueNothing
    <2> QED BY <1>3, <2>1, RoutedAlone DEF EnqueueNothing
  <1>4. CASE RecordEvent
    BY <1>4, RecordEventKeeps
  <1>5. CASE Free
    BY <1>5, RoutedAlone DEF Free
  <1>6. CASE Scheduler
    BY <1>6, SchedulerKeeps
  <1>7. CASE UNCHANGED vars
    <2>1. ev_done \in Nat /\ ev_done <= Len(completed)
      BY DEF LinearInv
    <2> QED BY <1>7, <2>1, LinearKept DEF vars, LinearInv, Empty
  <1>8. CASE Call
    BY <1>2, <1>3, <1>4, <1>5, <1>8 DEF Call
  <1>9. CASE Done
    BY <1>7, <1>9 DEF Done
  <1> QED BY <1>1, <1>6, <1>7, <1>8, <1>9 DEF Next

(***************************************************************************)
(* Theorems                                                                *)
(***************************************************************************)
\* The two streams always hold what one stream would, cut in two: see the
\* comment at the head of the module.
THEOREM LinearInductive == Spec => []LinearInv
  <1>1. Init => LinearInv
    BY WorkAssumption, LinearHolds
  <1>2. LinearInv /\ [Next]_vars => LinearInv'
    BY WorkAssumption, LinearNext
  <1> QED BY <1>1, <1>2, PTL DEF Spec

\* What was enqueued and is on neither stream has completed: the synchronous
\* calls look at both streams, so they return with nothing left.
THEOREM SyncsDrainBoth == Spec => []SyncDrainsBoth
  <1>1. LinearInv => SyncDrainsBoth
    <2>1. SUFFICES ASSUME LinearInv, phase = "drained" PROVE Len(completed) = enqueued
      BY DEF SyncDrainsBoth
    <2>2. TypeQ(Now) /\ PendingInv(Now) /\ \A s \in Streams : fifo[s] = <<>>
      BY <2>1 DEF LinearInv, QueueInv, Empty, Streams
    <2>3. \A n \in Len(completed) + 1 .. enqueued : FALSE
      BY <2>2 DEF PendingInv, Now
    <2>4. Len(completed) \in Nat /\ enqueued \in Nat /\ Len(completed) <= enqueued
      BY <2>2 DEF TypeQ, Now
    <2> QED BY <2>3, <2>4
  <1> QED BY <1>1, LinearInductive, PTL

\* Redirecting cudaEventRecord to the stream of the last operation keeps its
\* meaning, and a completion event counts for both streams.
THEOREM EventsCoverAll == Spec => []EventsCoverPriorWork
  <1>1. LinearInv => EventsCoverPriorWork
    <2>1. SUFFICES ASSUME LinearInv, NEW r \in reached, NEW op \in 1 .. recordings[r]
                   PROVE  op \in ToSet(completed)
      BY DEF EventsCoverPriorWork
    <2>2. TypeQ(Now) /\ ReachedInv(Now)
      BY <2>1 DEF LinearInv, QueueInv
    <2>3. Elements(Now)
      BY <2>2, Typed
    <2>4. op \in 1 .. enqueued
      BY <2>1, <2>3 DEF Elements, Now
    <2>5. op <= Len(completed)
      BY <2>1, <2>2, <2>4 DEF ReachedInv, Now
    <2>6. op \in 1 .. Len(completed) /\ completed \in Seq(Nat) /\ completed[op] = op
      BY <2>1, <2>4, <2>5 DEF LinearInv
    <2> QED BY <2>6 DEF ToSet
  <1> QED BY <1>1, LinearInductive, PTL

\* The completion events are reached in order across the two streams, so a
\* cursor that stops at the first one not reached misses none.
THEOREM CursorExact == Spec => []CursorIsExact
  <1>1. LinearInv => CursorIsExact
    <2>1. SUFFICES ASSUME LinearInv, NEW e \in DOMAIN ring, ring[e] \in reached, NEW d \in 1 .. e
                   PROVE  ring[d] \in reached
      BY DEF LinearInv, CursorIsExact
    <2>2. TypeQ(Now) /\ ReachedInv(Now)
      BY <2>1 DEF LinearInv, QueueInv
    <2>3. e \in 1 .. enqueued
      BY <2>2 DEF TypeQ, Now
    <2>4. recordings[ring[e]] = e
      BY <2>2, <2>3 DEF TypeQ, Now
    <2> QED BY <2>1, <2>2, <2>4 DEF ReachedInv, Now
  <1> QED BY <1>1, LinearInductive, PTL

LEMMA GpuMaps ==
    ASSUME LinearInv, NEW s \in Streams, Gpu(s)
    PROVE  [OneStream!Next]_OneStream!vars
  <1>1. QueueInv(Now) /\ executing \subseteq {Len(completed) + 1}
        /\ Now.fifo = fifo /\ Now.done = Len(completed) /\ Now.enqueued = enqueued
    BY DEF LinearInv, Now
  <1>2. ASSUME HeadIs(s, "op")
        PROVE  fifo[s][1].id = Len(completed) + 1 /\ Len(completed) + 1 <= enqueued
    BY <1>1, <1>2, HeadIsNext DEF HeadIs, Empty
  <1>3. CASE Start(s)
    <2>1. executing = {}
      BY <1>1, <1>2, <1>3 DEF Start
    <2>2. Len(completed) < enqueued
      BY <1>1, <1>2, <1>3 DEF Start, QueueInv, TypeQ
    <2> QED BY <1>2, <1>3, <2>1, <2>2 DEF Start, OneStream!Start, OneStream!Next
  <1>4. CASE Complete(s)
    BY <1>1, <1>2, <1>4 DEF Complete, OneStream!Complete, OneStream!Next
  <1>5. CASE Reach(s) \/ PassWait(s)
    BY <1>5 DEF Reach, PassWait, OneStream!vars
  <1> QED BY <1>3, <1>4, <1>5 DEF Gpu

\* To the GPU, and to whoever looks at what has run, the capped client has
\* one in-order stream: what module Colocator takes each client's stream to
\* be holds with the SM limit as well.
THEOREM TwoStreamsAreOne == Spec => StaysLinear
  <1>1. Init => OneStream!Init
    BY DEF Init, OneStream!Init
  <1>2. LinearInv /\ [Next]_vars => [OneStream!Next]_OneStream!vars
    <2>1. SUFFICES ASSUME LinearInv, [Next]_vars PROVE [OneStream!Next]_OneStream!vars
      OBVIOUS
    <2>2. ASSUME NEW s \in Streams, Gpu(s) PROVE [OneStream!Next]_OneStream!vars
      BY <2>1, <2>2, GpuMaps
    <2>3. CASE Call
      BY <2>3 DEF Call, Enqueue, EnqueueNothing, RecordEvent, Free, Replays,
                  OneStream!Next, OneStream!Enqueue, OneStream!vars
    <2>4. CASE Scheduler
      BY <2>4 DEF Scheduler, FreeMain, FreeGemm, PollMain, PollGemm, Release, Advance, Await,
                  OneStream!vars
    <2>5. CASE UNCHANGED vars
      BY <2>5 DEF vars, OneStream!vars
    <2>6. CASE Done
      BY <2>5, <2>6 DEF Done
    <2> QED BY <2>1, <2>2, <2>3, <2>4, <2>5, <2>6 DEF Next
  <1> QED BY <1>1, <1>2, LinearInductive, PTL DEF Spec, StaysLinear, OneStream!Spec
=============================================================================
