--------------------------- MODULE FiguresProofs ----------------------------
(***************************************************************************)
(* The figures and the replay of every trace, of any length and over any   *)
(* span of time.  busy_intervals and overlap_ns are loops: what each has   *)
(* at a turn is stated in nanoseconds, and kept by the next.               *)
(***************************************************************************)
EXTENDS Figures, OrderProofs, SequenceTheorems

USE BoundsAssumption

(***************************************************************************)
(* Traces                                                                  *)
(***************************************************************************)
Times == Time \cup {None}

\* The rows a mode leaves.
InMode(r) ==
    CASE mode = "kernels" -> r.start \in Time /\ r.end \in Time /\ r.start <= r.end
                             /\ r.intercept = None /\ r.issue = None
      [] mode = "colocated" -> /\ r.intercept \in Time /\ r.issue \in Time /\ r.intercept <= r.issue
                               /\ \/ r.start = None /\ r.end = None
                                  \/ /\ r.start \in Time /\ r.end \in Time
                                     /\ r.issue <= r.start /\ r.start < r.end
      [] OTHER -> /\ r.client = 0 /\ r.intercept = None
                  /\ r.start \in Time /\ r.end \in Time /\ r.issue <= r.start /\ r.start < r.end

TraceInv ==
    /\ mode \in {"kernels", "colocated", "seq"}
    /\ trace \in Seq([client : Client, intercept : Times, issue : Times, start : Times, end : Times])
    /\ barrier \in [Client -> Time] /\ load \in [Client -> Times]
    /\ \A c, d \in Client : load[c] <= barrier[d]
    /\ \A i \in DOMAIN trace : InMode(trace[i])

LEMMA InitTrace == Init => TraceInv
  <1> SUFFICES ASSUME Init PROVE TraceInv
    OBVIOUS
  <1>1. trace = <<>> /\ mode \in {"kernels", "colocated", "seq"}
    BY DEF Init
  <1>2. barrier \in [Client -> Time] /\ load \in [Client -> Times]
    BY DEF Init, Times
  <1>3. \A c, d \in Client : load[c] <= barrier[d]
    BY DEF Init
  <1> QED BY <1>1, <1>2, <1>3 DEF TraceInv

LEMMA NextTrace == TraceInv /\ [Next]_vars => TraceInv'
  <1> SUFFICES ASSUME TraceInv, [Next]_vars PROVE TraceInv'
    OBVIOUS
  <1>1. CASE UNCHANGED vars
    BY <1>1 DEF TraceInv, InMode, vars
  <1>2. ASSUME NEW r \in [client : Client, intercept : Times, issue : Times, start : Times, end : Times],
               InMode(r), Add(r)
        PROVE  TraceInv'
    <2>1. trace' = Append(trace, r) /\ UNCHANGED <<mode, load, barrier>>
      BY <1>2 DEF Add
    <2>2. /\ trace' \in Seq([client : Client, intercept : Times, issue : Times, start : Times, end : Times])
          /\ \A i \in DOMAIN trace' : trace'[i] = r \/ (i \in DOMAIN trace /\ trace'[i] = trace[i])
      <3>1. PICK R : /\ R = [client : Client, intercept : Times, issue : Times, start : Times, end : Times]
                     /\ trace \in Seq(R) /\ r \in R
        BY DEF TraceInv
      <3> QED BY <2>1, <3>1
    <2>3. \A i \in DOMAIN trace' : InMode(trace'[i])
      BY <1>2, <2>2 DEF TraceInv
    <2>4. (\A i \in DOMAIN trace : InMode(trace[i]))'
      BY <2>1, <2>3 DEF InMode
    <2> QED BY <2>1, <2>2, <2>4 DEF TraceInv
  <1>3. ASSUME NEW c \in Client, NEW start \in Time, NEW end \in Time, Kernel(c, start, end)
        PROVE  TraceInv'
    <2>1. PICK r : r = Row(c, None, None, start, end)
      OBVIOUS
    <2>2. /\ r \in [client : Client, intercept : Times, issue : Times, start : Times, end : Times]
          /\ InMode(r) /\ Add(r)
      BY <1>3, <2>1 DEF Kernel, Row, InMode, Times
    <2> QED BY <1>2, <2>2
  <1>4. ASSUME NEW issue \in Time \cup {None}, NEW start \in Time, NEW end \in Time,
               Observed(issue, start, end)
        PROVE  TraceInv'
    <2>1. PICK r : r = Row(0, None, issue, start, end)
      OBVIOUS
    <2>2. /\ r \in [client : Client, intercept : Times, issue : Times, start : Times, end : Times]
          /\ InMode(r) /\ Add(r)
      BY <1>4, <2>1 DEF Observed, Op, Row, InMode, Times, Client
    <2> QED BY <1>2, <2>2
  <1>5. ASSUME NEW c \in Client, NEW intercept \in Time, NEW issue \in Time, NEW start \in Time,
               NEW end \in Time, Intercepted(c, intercept, issue, start, end)
        PROVE  TraceInv'
    <2>1. PICK r : r = Row(c, intercept, issue, start, end)
      OBVIOUS
    <2>2. /\ r \in [client : Client, intercept : Times, issue : Times, start : Times, end : Times]
          /\ InMode(r) /\ Add(r)
      BY <1>5, <2>1 DEF Intercepted, Op, Row, InMode, Times
    <2> QED BY <1>2, <2>2
  <1>6. ASSUME NEW c \in Client, NEW intercept \in Time, NEW issue \in Time,
               Failed(c, intercept, issue)
        PROVE  TraceInv'
    <2>1. PICK r : r = Row(c, intercept, issue, None, None)
      OBVIOUS
    <2>2. /\ r \in [client : Client, intercept : Times, issue : Times, start : Times, end : Times]
          /\ InMode(r) /\ Add(r)
      BY <1>6, <2>1 DEF Failed, Op, Row, InMode, Times
    <2> QED BY <1>2, <2>2
  <1> QED BY <1>1, <1>3, <1>4, <1>5, <1>6 DEF Next

\* Every row of a trace has the times its mode leaves it, in their order.
THEOREM TracesInductive == Spec => []TraceInv
  <1> QED BY InitTrace, NextTrace, PTL DEF Spec
(***************************************************************************)
(* busy_intervals                                                          *)
(***************************************************************************)
\* Rows with a record of the GPU.
GpuRows == [client : Client, intercept : Times, issue : Times, start : Time, end : Time]

\* What one row covers; all of them are Nanoseconds(rows).
Covers(r) == {t \in Time : r.start <= t /\ t < r.end}

\* A merged list: in order, and with a gap between any two.
Apart(m) ==
    /\ m \in Seq(GpuRows)
    /\ \A k \in 1 .. Len(m) : m[k].start <= m[k].end
    /\ \A k, l \in 1 .. Len(m) : k < l => m[k].end < m[l].start

LEMMA MergeTypes ==
    ASSUME NEW m \in Seq(GpuRows), NEW iv \in GpuRows
    PROVE  Merge(m, iv) \in Seq(GpuRows)
  <1>1. CASE m # <<>> /\ iv.start <= Last(m).end
    <2>1. PICK end : end = IF iv.end > m[Len(m)].end THEN iv.end ELSE m[Len(m)].end
      OBVIOUS
    <2>2. Merge(m, iv) = [m EXCEPT ![Len(m)].end = end]
      BY <1>1, <2>1 DEF Merge
    <2>3. Len(m) \in 1 .. Len(m) /\ m[Len(m)] \in GpuRows
      BY <1>1
    <2>4. end \in Time
      BY <2>1, <2>3 DEF GpuRows
    <2>5. [m[Len(m)] EXCEPT !.end = end] \in GpuRows
      BY <2>3, <2>4 DEF GpuRows
    <2>6. Merge(m, iv) = [m EXCEPT ![Len(m)] = [m[Len(m)] EXCEPT !.end = end]]
      BY <2>2
    <2> QED BY <2>3, <2>5, <2>6
  <1>2. CASE ~(m # <<>> /\ iv.start <= Last(m).end)
    <2>1. Merge(m, iv) = Append(m, iv)
      BY <1>2 DEF Merge
    <2> QED BY <2>1
  <1> QED BY <1>1, <1>2

\* One turn: an interval that starts no earlier than those before it.
LEMMA MergeKeepsApart ==
    ASSUME NEW m, Apart(m), NEW iv \in GpuRows, iv.start <= iv.end,
           \A k \in 1 .. Len(m) : m[k].start <= iv.start
    PROVE  /\ Apart(Merge(m, iv))
           /\ Nanoseconds(Merge(m, iv)) = Nanoseconds(m) \cup Covers(iv)
           /\ \A k \in 1 .. Len(Merge(m, iv)) : Merge(m, iv)[k].start <= iv.start
  <1>1. PICK next : next = Merge(m, iv)
    OBVIOUS
  <1>2. next \in Seq(GpuRows) /\ m \in Seq(GpuRows) /\ Len(m) \in Nat
    BY <1>1, MergeTypes DEF Apart
  <1>3. iv.start \in Int /\ iv.end \in Int
    BY DEF GpuRows, Time
  <1>4. ASSUME NEW k \in 1 .. Len(m) PROVE m[k] \in GpuRows /\ m[k].start \in Int /\ m[k].end \in Int
    <2>1. m[k] \in GpuRows
      BY <1>2
    <2> QED BY <2>1 DEF GpuRows, Time
  <1>5. CASE m # <<>> /\ iv.start <= Last(m).end
    <2>1. PICK n \in 1 .. Len(m) : n = Len(m)
      BY <1>2, <1>5
    <2>2. Last(m) = m[n]
      BY <2>1 DEF Last
    <2>3. PICK end : end = IF iv.end > m[n].end THEN iv.end ELSE m[n].end
      OBVIOUS
    <2>4. next = [m EXCEPT ![n].end = end]
      BY <1>1, <1>5, <2>1, <2>3 DEF Merge
    <2>5. /\ Len(next) = n /\ next[n].start = m[n].start /\ next[n].end = end
          /\ \A k \in 1 .. n : k # n => next[k] = m[k]
      <3>1. next = [m EXCEPT ![n] = [m[n] EXCEPT !.end = end]] /\ DOMAIN m = 1 .. n
        BY <1>2, <2>1, <2>4
      <3>2. next[n] = [m[n] EXCEPT !.end = end] /\ DOMAIN next = 1 .. n
        BY <3>1
      <3>3. next[n].start = m[n].start /\ next[n].end = end
        BY <1>4, <3>2 DEF GpuRows
      <3>4. Len(next) = n
        BY <1>2, <3>2
      <3> QED BY <3>1, <3>3, <3>4
    <2>6. m[n].start <= iv.start /\ iv.start <= m[n].end /\ m[n].end <= end /\ iv.end <= end
      <3>1. m[n].start <= iv.start /\ iv.start <= m[n].end
        BY <1>5, <2>2
      <3> QED BY <1>3, <1>4, <2>3, <3>1
    <2>7. end \in Int /\ m[n].start \in Int /\ m[n].end \in Int
      BY <1>3, <1>4, <2>3
    <2>8. Apart(next)
      <3>1. \A k \in 1 .. Len(next) : next[k].start <= next[k].end
        <4>1. m[n].start <= end
          BY <2>6, <2>7, <1>3
        <4>2. ASSUME NEW k \in 1 .. n, k # n PROVE next[k].start <= next[k].end
          BY <2>1, <2>5, <4>2 DEF Apart
        <4> QED BY <2>5, <4>1, <4>2
      <3>2. ASSUME NEW k \in 1 .. n, NEW l \in 1 .. n, k < l PROVE next[k].end < next[l].start
        <4>1. k # n /\ next[k] = m[k]
          BY <2>1, <2>5, <3>2
        <4>2. next[l].start = m[l].start
          BY <2>5
        <4>3. m[k].end < m[l].start
          BY <2>1, <3>2 DEF Apart
        <4> QED BY <4>1, <4>2, <4>3
      <3> QED BY <1>2, <2>5, <3>1, <3>2 DEF Apart
    <2>9. ASSUME NEW t \in Time PROVE t \in Nanoseconds(next) <=> t \in Nanoseconds(m) \/ t \in Covers(iv)
      <3>1. t \in Int
        BY DEF Time
      <3>2. next[n].start <= t /\ t < next[n].end
              <=> (m[n].start <= t /\ t < m[n].end) \/ (iv.start <= t /\ t < iv.end)
        BY <1>3, <2>3, <2>5, <2>6, <2>7, <3>1
      <3>3. DOMAIN next = 1 .. n /\ DOMAIN m = 1 .. n
        BY <1>2, <2>1, <2>5
      <3> QED BY <2>5, <3>2, <3>3 DEF Nanoseconds, Covers
    <2>10. Nanoseconds(next) = Nanoseconds(m) \cup Covers(iv)
      BY <2>9 DEF Nanoseconds, Covers
    <2>11. \A k \in 1 .. Len(next) : next[k].start <= iv.start
      BY <2>1, <2>5
    <2> QED BY <1>1, <2>8, <2>10, <2>11
  <1>6. CASE ~(m # <<>> /\ iv.start <= Last(m).end)
    <2>1. PICK n \in Nat : n = Len(m)
      BY <1>2
    <2>2. /\ Len(next) = n + 1 /\ next[n + 1] = iv /\ DOMAIN next = 1 .. n + 1 /\ DOMAIN m = 1 .. n
          /\ \A k \in 1 .. n : next[k] = m[k]
      BY <1>1, <1>2, <1>6, <2>1 DEF Merge
    <2>3. ASSUME NEW k \in 1 .. n PROVE m[k].end < iv.start
      <3>1. m # <<>> /\ n \in 1 .. n /\ Last(m) = m[n] /\ m[n].end < iv.start
        BY <1>2, <1>3, <1>4, <1>6, <2>1 DEF Last
      <3>2. CASE k = n
        BY <3>1, <3>2
      <3>3. CASE k # n
        <4>1. m[k].end < m[n].start /\ m[n].start <= m[n].end
          BY <2>1, <3>1, <3>3 DEF Apart
        <4>2. m[k].end \in Int /\ m[n].start \in Int /\ m[n].end \in Int
          BY <1>4, <2>1, <3>1
        <4> QED BY <1>3, <3>1, <4>1, <4>2
      <3> QED BY <3>2, <3>3
    <2>4. Apart(next)
      <3>1. \A k \in 1 .. Len(next) : next[k].start <= next[k].end
        <4>1. ASSUME NEW k \in 1 .. n + 1 PROVE k = n + 1 \/ k \in 1 .. n
          OBVIOUS
        <4> QED BY <2>1, <2>2, <4>1 DEF Apart
      <3>2. ASSUME NEW k \in 1 .. n + 1, NEW l \in 1 .. n + 1, k < l PROVE next[k].end < next[l].start
        <4>1. k \in 1 .. n /\ next[k] = m[k]
          BY <2>2, <3>2
        <4>2. CASE l = n + 1
          BY <2>2, <2>3, <4>1, <4>2
        <4>3. CASE l \in 1 .. n
          BY <2>1, <2>2, <3>2, <4>1, <4>3 DEF Apart
        <4> QED BY <4>2, <4>3
      <3> QED BY <1>2, <2>2, <3>1, <3>2 DEF Apart
    <2>5. \A i : i \in DOMAIN next <=> i \in DOMAIN m \/ i = n + 1
      BY <2>2
    <2>6. Nanoseconds(next) = Nanoseconds(m) \cup Covers(iv)
      BY <2>2, <2>5 DEF Nanoseconds, Covers
    <2>7. \A k \in 1 .. Len(next) : next[k].start <= iv.start
      <3>1. ASSUME NEW k \in 1 .. n + 1 PROVE k = n + 1 \/ k \in 1 .. n
        OBVIOUS
      <3>2. iv.start <= iv.start
        BY <1>3
      <3> QED BY <2>1, <2>2, <3>1, <3>2
    <2> QED BY <1>1, <2>4, <2>6, <2>7
  <1> QED BY <1>5, <1>6
\* The rows by start.
LEMMA ByStartAt ==
    ASSUME NEW rows \in Seq(GpuRows), NEW N \in Nat, N = Len(rows)
    PROVE  \E at \in [1 .. N -> 1 .. N] :
             /\ ByStart(rows) = [n \in 1 .. N |-> rows[at[n]]]
             /\ \A m, n \in 1 .. N : m < n => rows[at[m]].start <= rows[at[n]].start
             /\ \A k \in 1 .. N : \E n \in 1 .. N : at[n] = k
  <1>1. DOMAIN rows = 1 .. N
    OBVIOUS
  <1>2. ASSUME NEW i \in 1 .. N PROVE rows[i].start \in Int /\ rows[i].end \in Int /\ i \in Int
    <2>1. rows[i] \in GpuRows
      BY <1>1
    <2> QED BY <2>1 DEF GpuRows, Time
  <1> DEFINE First(i, j) == \/ rows[i].start < rows[j].start
                            \/ rows[i].start = rows[j].start /\ rows[i].end < rows[j].end
                            \/ rows[i].start = rows[j].start /\ rows[i].end = rows[j].end /\ i < j
  <1>3. PICK before : before = {p \in (1 .. N) \X (1 .. N) : First(p[1], p[2])}
    OBVIOUS
  <1>4. ASSUME NEW i \in 1 .. N, NEW j \in 1 .. N PROVE <<i, j>> \in before <=> First(i, j)
    BY <1>3
  <1>5. ByStart(rows) = Arranged(rows, before)
    BY <1>1, <1>3, Zenon DEF ByStart
  <1>6. Orders(before, N)
    <2>1. ASSUME NEW i \in 1 .. N, NEW j \in 1 .. N, i # j
          PROVE  <<i, j>> \in before <=> <<j, i>> \notin before
      <3>1. First(i, j) <=> ~First(j, i)
        BY <1>2, <2>1
      <3> HIDE DEF First
      <3> QED BY <1>4, <3>1
    <2>2. ASSUME NEW i \in 1 .. N PROVE <<i, i>> \notin before
      <3>1. ~First(i, i)
        BY <1>2
      <3> HIDE DEF First
      <3> QED BY <1>4, <3>1
    <2>3. ASSUME NEW i \in 1 .. N, NEW j \in 1 .. N, NEW k \in 1 .. N,
                 <<i, j>> \in before, <<j, k>> \in before
          PROVE  <<i, k>> \in before
      <3>1. First(i, j) /\ First(j, k) => First(i, k)
        BY <1>2
      <3> HIDE DEF First
      <3> QED BY <1>4, <2>3, <3>1
    <2> QED BY <2>1, <2>2, <2>3 DEF Orders
  <1> HIDE DEF First
  <1>7. PICK at : Arrangement(at, rows, before, N)
    BY <1>1, <1>6, ArrangedInOrder
  <1>8. ASSUME NEW m \in 1 .. N, NEW n \in 1 .. N, m < n
        PROVE  rows[at[m]].start <= rows[at[n]].start
    <2>1. PICK i \in 1 .. N, j \in 1 .. N : i = at[m] /\ j = at[n] /\ <<i, j>> \in before
      BY <1>7, <1>8 DEF Arrangement
    <2>2. First(i, j)
      BY <1>4, <2>1
    <2>3. rows[i].start < rows[j].start \/ rows[i].start = rows[j].start
      BY <2>2 DEF First
    <2>4. rows[i].start \in Int /\ rows[j].start \in Int
      BY <1>2
    <2>5. rows[i].start <= rows[j].start
      BY <2>3, <2>4
    <2> QED BY <2>1, <2>5
  <1>9. ByStart(rows) = [n \in 1 .. N |-> rows[at[n]]]
    BY <1>5, <1>7 DEF Arrangement
  <1>10. at \in [1 .. N -> 1 .. N] /\ \A k \in 1 .. N : \E n \in 1 .. N : at[n] = k
    BY <1>7 DEF Arrangement
  <1> QED BY <1>8, <1>9, <1>10

\* busy_intervals' loop over N rows, turn by turn.
MergeLoop(after, sorted, N) ==
    /\ after[0] = <<>>
    /\ \A n \in 0 .. N - 1 : after[n + 1] = Merge(after[n], sorted[n + 1])

LEMMA MergedTurns ==
    ASSUME NEW rows, NEW N \in Nat, NEW sorted, sorted = ByStart(rows),
           DOMAIN sorted = 1 .. N, \A n \in 1 .. N : sorted[n] \in GpuRows
    PROVE  \E after : MergeLoop(after, sorted, N) /\ after[N] = Merged(rows)
  <1>1. PICK A : A = Seq(GpuRows)
    OBVIOUS
  <1>2. PICK step : step = [p \in A \X (1 .. N) |-> Merge(p[1], sorted[p[2]])]
    OBVIOUS
  <1>3. ASSUME NEW m \in A, NEW n \in 1 .. N
        PROVE  step[<<m, n>>] = Merge(m, sorted[n])
    <2>1. <<m, n>> \in A \X (1 .. N) /\ <<m, n>>[1] = m /\ <<m, n>>[2] = n
      OBVIOUS
    <2> QED BY <1>2, <2>1
  <1>4. step \in [A \X (1 .. N) -> A]
    <2>1. ASSUME NEW p \in A \X (1 .. N) PROVE Merge(p[1], sorted[p[2]]) \in A
      BY <1>1, MergeTypes
    <2> QED BY <1>2, <2>1
  <1>5. PICK iter : Folded(iter, 1 .. N, A, <<>>, step)
    <2>1. <<>> \in A
      BY <1>1
    <2> QED BY <1>4, <2>1, FoldExists
  <1>6. iter = [t \in SUBSET (1 .. N) |->
                  IF t = {} THEN <<>> ELSE Merge(iter[t \ {Max(t)}], sorted[Max(t)])]
    <2>1. ASSUME NEW t \in SUBSET (1 .. N), t # {}
          PROVE  step[<<iter[t \ {Max(t)}], Max(t)>>] = Merge(iter[t \ {Max(t)}], sorted[Max(t)])
      <3>1. Max(t) \in 1 .. N
        <4>1. t \in SUBSET (0 .. N)
          OBVIOUS
        <4> QED BY <2>1, <4>1, MaxTaken
      <3>2. iter[t \ {Max(t)}] \in A
        BY <1>5 DEF Folded
      <3> QED BY <1>3, <3>1, <3>2
    <2> QED BY <1>5, <2>1 DEF Folded
  <1>7. PICK loop : /\ loop = [t \in SUBSET (1 .. N) |->
                         IF t = {} THEN <<>> ELSE Merge(loop[t \ {Max(t)}], sorted[Max(t)])]
                    /\ Merged(rows) = loop[1 .. N]
    <2>1. Merged(rows) =
            (CHOOSE j : j = [t \in SUBSET (DOMAIN sorted) |->
                IF t = {} THEN <<>> ELSE Merge(j[t \ {Max(t)}], sorted[Max(t)])])[DOMAIN sorted]
      BY Zenon DEF Merged, FoldLeft, MapThenFoldSet
    <2>2. Merged(rows) =
            (CHOOSE j : j = [t \in SUBSET (1 .. N) |->
                IF t = {} THEN <<>> ELSE Merge(j[t \ {Max(t)}], sorted[Max(t)])])[1 .. N]
      BY <2>1, Zenon
    <2> QED BY <1>6, <2>2, Zenon
  <1>8. PICK after : after = [n \in 0 .. N |-> loop[1 .. n]]
    OBVIOUS
  <1>9. after[0] = <<>>
    <2>1. 1 .. 0 = {} /\ {} \in SUBSET (1 .. N) /\ 0 \in 0 .. N
      OBVIOUS
    <2>2. loop[{}] = <<>>
      BY <1>7, <2>1
    <2> QED BY <1>8, <2>1, <2>2
  <1>10. ASSUME NEW n \in 0 .. N - 1 PROVE after[n + 1] = Merge(after[n], sorted[n + 1])
    <2>1. /\ 1 .. n + 1 \in SUBSET (1 .. N) /\ 1 .. n + 1 # {}
          /\ Max(1 .. n + 1) = n + 1 /\ (1 .. n + 1) \ {Max(1 .. n + 1)} = 1 .. n
      BY TurnOf
    <2>2. loop[1 .. n + 1] = Merge(loop[(1 .. n + 1) \ {Max(1 .. n + 1)}], sorted[Max(1 .. n + 1)])
      BY <1>7, <2>1
    <2>3. loop[1 .. n + 1] = Merge(loop[1 .. n], sorted[n + 1])
      BY <2>1, <2>2
    <2>4. n \in 0 .. N /\ n + 1 \in 0 .. N
      OBVIOUS
    <2> QED BY <1>8, <2>3, <2>4
  <1>11. after[N] = Merged(rows)
    <2>1. N \in 0 .. N
      OBVIOUS
    <2> QED BY <1>7, <1>8, <2>1
  <1> QED BY <1>9, <1>10, <1>11 DEF MergeLoop

\* A merged list covers what its rows cover.
LEMMA MergedExact ==
    ASSUME NEW rows \in Seq(GpuRows), \A i \in DOMAIN rows : rows[i].start <= rows[i].end
    PROVE  Apart(Merged(rows)) /\ Nanoseconds(Merged(rows)) = Nanoseconds(rows)
  <1>1. PICK N \in Nat : N = Len(rows) /\ DOMAIN rows = 1 .. N
    OBVIOUS
  <1>2. PICK at \in [1 .. N -> 1 .. N] :
           /\ ByStart(rows) = [n \in 1 .. N |-> rows[at[n]]]
           /\ \A m, n \in 1 .. N : m < n => rows[at[m]].start <= rows[at[n]].start
           /\ \A k \in 1 .. N : \E n \in 1 .. N : at[n] = k
    BY <1>1, ByStartAt
  <1>3. PICK sorted : sorted = ByStart(rows)
    OBVIOUS
  <1>4. /\ DOMAIN sorted = 1 .. N
        /\ \A n \in 1 .. N : sorted[n] = rows[at[n]] /\ sorted[n] \in GpuRows
        /\ \A n \in 1 .. N : sorted[n].start <= sorted[n].end
        /\ \A m, n \in 1 .. N : m < n => sorted[m].start <= sorted[n].start
    <2>1. \A n \in 1 .. N : at[n] \in 1 .. N /\ at[n] \in DOMAIN rows /\ rows[at[n]] \in GpuRows
      BY <1>1
    <2>2. DOMAIN sorted = 1 .. N /\ \A n \in 1 .. N : sorted[n] = rows[at[n]]
      BY <1>2, <1>3
    <2> QED BY <1>2, <2>1, <2>2
  <1>5. PICK after : MergeLoop(after, sorted, N) /\ after[N] = Merged(rows)
    <2>1. DOMAIN sorted = 1 .. N /\ \A n \in 1 .. N : sorted[n] \in GpuRows
      BY <1>4
    <2> QED BY <1>3, <2>1, MergedTurns
  <1> DEFINE Good(n) == /\ Apart(after[n])
                        /\ Nanoseconds(after[n]) = {t \in Time : \E i \in 1 .. n : t \in Covers(sorted[i])}
                        /\ \A k \in 1 .. Len(after[n]), i \in 1 .. N :
                              n < i => after[n][k].start <= sorted[i].start
  <1>6. Good(0)
    <2>1. after[0] = <<>> /\ Len(<<>>) = 0 /\ DOMAIN <<>> = {} /\ 1 .. 0 = {}
      BY <1>5 DEF MergeLoop
    <2>2. Apart(<<>>)
      BY DEF Apart
    <2> QED BY <2>1, <2>2 DEF Nanoseconds
  <1>7. ASSUME NEW n \in 0 .. N - 1, Good(n) PROVE Good(n + 1)
    <2>1. PICK iv : iv = sorted[n + 1]
      OBVIOUS
    <2>2. PICK m : m = after[n]
      OBVIOUS
    <2>3. n + 1 \in 1 .. N /\ n < n + 1
      OBVIOUS
    <2>4. iv \in GpuRows /\ iv.start <= iv.end /\ \A k \in 1 .. Len(m) : m[k].start <= iv.start
      BY <1>4, <1>7, <2>1, <2>2, <2>3
    <2>5. /\ Apart(Merge(m, iv))
          /\ Nanoseconds(Merge(m, iv)) = Nanoseconds(m) \cup Covers(iv)
          /\ \A k \in 1 .. Len(Merge(m, iv)) : Merge(m, iv)[k].start <= iv.start
      BY <1>7, <2>2, <2>4, MergeKeepsApart
    <2>6. after[n + 1] = Merge(m, iv)
      BY <1>5, <2>1, <2>2 DEF MergeLoop
    <2>7. Nanoseconds(after[n + 1]) = {t \in Time : \E i \in 1 .. n + 1 : t \in Covers(sorted[i])}
      <3>1. (\A i \in 1 .. n + 1 : i \in 1 .. n \/ i = n + 1) /\ n + 1 \in 1 .. n + 1
            /\ 1 .. n \in SUBSET (1 .. n + 1)
        <4> HIDE DEF Good
        <4> QED OBVIOUS
      <3>2. Nanoseconds(m) = {t \in Time : \E i \in 1 .. n : t \in Covers(sorted[i])}
        BY <1>7, <2>2
      <3>3. Covers(iv) \subseteq Time
        BY DEF Covers
      <3> QED BY <2>1, <2>5, <2>6, <3>1, <3>2, <3>3
    <2>8. ASSUME NEW k \in 1 .. Len(after[n + 1]), NEW i \in 1 .. N, n + 1 < i
          PROVE  after[n + 1][k].start <= sorted[i].start
      <3>1. Merge(m, iv)[k].start <= iv.start /\ iv.start <= sorted[i].start
        BY <1>4, <2>1, <2>3, <2>5, <2>6, <2>8
      <3>2. Merge(m, iv)[k] \in GpuRows /\ iv \in GpuRows /\ sorted[i] \in GpuRows
        BY <1>4, <2>4, <2>5, <2>6, <2>8 DEF Apart
      <3>3. \A r \in GpuRows : r.start \in Int
        BY DEF GpuRows, Time
      <3>4. PICK x, y, z : /\ x = Merge(m, iv)[k].start /\ y = iv.start /\ z = sorted[i].start
        OBVIOUS
      <3>5. x \in Int /\ y \in Int /\ z \in Int
        BY <3>2, <3>3, <3>4
      <3>6. x <= z
        <4>1. x <= y /\ y <= z
          BY <3>1, <3>4
        <4> QED BY <3>5, <4>1
      <3> QED BY <2>6, <3>4, <3>6
    <2> QED BY <2>5, <2>6, <2>7, <2>8
  <1>8. Good(N)
    <2>1. PICK S : S = {n \in 0 .. N : Good(n)}
      OBVIOUS
    <2> HIDE DEF Good
    <2>2. 0 \in S /\ \A n \in 0 .. N - 1 : n \in S => n + 1 \in S
      BY <1>6, <1>7, <2>1
    <2>3. \A n \in 0 .. N : n \in S
      BY <2>2, Upward
    <2> QED BY <2>1, <2>3
  <1>9. Nanoseconds(rows) = {t \in Time : \E i \in 1 .. N : t \in Covers(sorted[i])}
    <2>1. Nanoseconds(rows) = {t \in Time : \E i \in 1 .. N : t \in Covers(rows[i])}
      BY <1>1 DEF Nanoseconds, Covers
    <2>2. ASSUME NEW t
          PROVE  (\E i \in 1 .. N : t \in Covers(rows[i])) <=> \E n \in 1 .. N : t \in Covers(sorted[n])
      <3>1. \A n \in 1 .. N : at[n] \in 1 .. N /\ sorted[n] = rows[at[n]]
        BY <1>4
      <3>2. \A i \in 1 .. N : \E n \in 1 .. N : at[n] = i
        BY <1>2
      <3>3. ASSUME NEW i \in 1 .. N, t \in Covers(rows[i])
            PROVE  \E n \in 1 .. N : t \in Covers(sorted[n])
        <4>1. PICK n \in 1 .. N : at[n] = i
          BY <3>2
        <4>2. t \in Covers(sorted[n])
          BY <3>1, <3>3, <4>1
        <4> QED BY <4>2
      <3> QED BY <3>1, <3>3
    <2> QED BY <2>1, <2>2
  <1> QED BY <1>5, <1>8, <1>9
(***************************************************************************)
(* busy_ns: the sum of a merged list's lengths                             *)
(***************************************************************************)
\* The sum, turn by turn.
SumLoop(sums, m, N) ==
    /\ sums[0] = 0
    /\ \A n \in 0 .. N - 1 : sums[n + 1] = sums[n] + Length(m[n + 1])

LEMMA BusyTurns ==
    ASSUME NEW rows, NEW m, m = Merged(rows), NEW N \in Nat, DOMAIN m = 1 .. N,
           \A n \in 1 .. N : Length(m[n]) \in Int
    PROVE  \E sums : SumLoop(sums, m, N) /\ sums[N] = Busy(rows)
  <1>1. PICK step : step = [p \in Int \X (1 .. N) |-> p[1] + Length(m[p[2]])]
    OBVIOUS
  <1>2. ASSUME NEW s \in Int, NEW n \in 1 .. N
        PROVE  step[<<s, n>>] = s + Length(m[n])
    <2>1. <<s, n>> \in Int \X (1 .. N) /\ <<s, n>>[1] = s /\ <<s, n>>[2] = n
      OBVIOUS
    <2> QED BY <1>1, <2>1
  <1>3. step \in [Int \X (1 .. N) -> Int]
    <2>1. ASSUME NEW p \in Int \X (1 .. N) PROVE p[1] + Length(m[p[2]]) \in Int
      OBVIOUS
    <2> QED BY <1>1, <2>1
  <1>4. PICK iter : Folded(iter, 1 .. N, Int, 0, step)
    <2>1. 0 \in Int
      OBVIOUS
    <2> QED BY <1>3, <2>1, FoldExists
  <1>5. iter = [t \in SUBSET (1 .. N) |->
                  IF t = {} THEN 0 ELSE iter[t \ {Max(t)}] + Length(m[Max(t)])]
    <2>1. ASSUME NEW t \in SUBSET (1 .. N), t # {}
          PROVE  step[<<iter[t \ {Max(t)}], Max(t)>>] = iter[t \ {Max(t)}] + Length(m[Max(t)])
      <3>1. Max(t) \in 1 .. N
        <4>1. t \in SUBSET (0 .. N)
          OBVIOUS
        <4> QED BY <2>1, <4>1, MaxTaken
      <3>2. iter[t \ {Max(t)}] \in Int
        BY <1>4 DEF Folded
      <3> QED BY <1>2, <3>1, <3>2
    <2> QED BY <1>4, <2>1 DEF Folded
  <1>6. PICK loop : /\ loop = [t \in SUBSET (1 .. N) |->
                         IF t = {} THEN 0 ELSE loop[t \ {Max(t)}] + Length(m[Max(t)])]
                    /\ Busy(rows) = loop[1 .. N]
    <2>1. Busy(rows) =
            (CHOOSE j : j = [t \in SUBSET (DOMAIN m) |->
                IF t = {} THEN 0 ELSE j[t \ {Max(t)}] + Length(m[Max(t)])])[DOMAIN m]
      BY Zenon DEF Busy, FoldLeft, MapThenFoldSet
    <2>2. Busy(rows) =
            (CHOOSE j : j = [t \in SUBSET (1 .. N) |->
                IF t = {} THEN 0 ELSE j[t \ {Max(t)}] + Length(m[Max(t)])])[1 .. N]
      BY <2>1, Zenon
    <2> QED BY <1>5, <2>2, Zenon
  <1>7. PICK sums : sums = [n \in 0 .. N |-> loop[1 .. n]]
    OBVIOUS
  <1>8. sums[0] = 0
    <2>1. 1 .. 0 = {} /\ {} \in SUBSET (1 .. N) /\ 0 \in 0 .. N
      OBVIOUS
    <2>2. loop[{}] = 0
      BY <1>6, <2>1
    <2> QED BY <1>7, <2>1, <2>2
  <1>9. ASSUME NEW n \in 0 .. N - 1 PROVE sums[n + 1] = sums[n] + Length(m[n + 1])
    <2>1. /\ 1 .. n + 1 \in SUBSET (1 .. N) /\ 1 .. n + 1 # {}
          /\ Max(1 .. n + 1) = n + 1 /\ (1 .. n + 1) \ {Max(1 .. n + 1)} = 1 .. n
      BY TurnOf
    <2>2. loop[1 .. n + 1] = loop[(1 .. n + 1) \ {Max(1 .. n + 1)}] + Length(m[Max(1 .. n + 1)])
      BY <1>6, <2>1
    <2>3. loop[1 .. n + 1] = loop[1 .. n] + Length(m[n + 1])
      BY <2>1, <2>2
    <2>4. n \in 0 .. N /\ n + 1 \in 0 .. N
      OBVIOUS
    <2> QED BY <1>7, <2>3, <2>4
  <1>10. sums[N] = Busy(rows)
    <2>1. N \in 0 .. N
      OBVIOUS
    <2> QED BY <1>6, <1>7, <2>1
  <1> QED BY <1>8, <1>9, <1>10 DEF SumLoop

\* The nanoseconds of one row.
LEMMA CoversLength ==
    ASSUME NEW r \in GpuRows, r.start <= r.end
    PROVE  IsFiniteSet(Covers(r)) /\ Cardinality(Covers(r)) = Length(r)
  <1>1. PICK s, e : s = r.start /\ e = r.end
    OBVIOUS
  <1>2. LastTime \in Nat /\ s \in 1 .. LastTime /\ e \in 1 .. LastTime /\ s <= e
    BY <1>1 DEF GpuRows, Time
  <1>3. Covers(r) = s .. e - 1
    BY <1>1, <1>2 DEF Covers, Time
  <1>4. s \in Int /\ e - 1 \in Int
    BY <1>2
  <1>5. /\ IsFiniteSet(s .. e - 1)
        /\ Cardinality(s .. e - 1) = IF s > e - 1 THEN 0 ELSE (e - 1) - s + 1
    BY <1>4, FS_Interval
  <1>6. (IF s > e - 1 THEN 0 ELSE (e - 1) - s + 1) = e - s
    BY <1>2
  <1> QED BY <1>1, <1>3, <1>5, <1>6 DEF Length

\* Time is finite, and so is what any rows cover.
LEMMA NanosecondsFinite ==
    ASSUME NEW S \in SUBSET Time
    PROVE  IsFiniteSet(S) /\ Cardinality(S) \in Nat
  <1>1. 1 \in Int /\ LastTime \in Int
    OBVIOUS
  <1>2. IsFiniteSet(1 .. LastTime)
    BY <1>1, FS_Interval
  <1>3. IsFiniteSet(S)
    BY <1>2, FS_Subset DEF Time
  <1> QED BY <1>3, FS_CardinalityType

\* A merged list's lengths add up to the nanoseconds it covers.
LEMMA BusyExact ==
    ASSUME NEW rows, NEW m, m = Merged(rows), Apart(m)
    PROVE  Busy(rows) = Cardinality(Nanoseconds(m))
  <1>1. PICK N \in Nat : N = Len(m) /\ DOMAIN m = 1 .. N
    BY DEF Apart
  <1>2. ASSUME NEW n \in 1 .. N
        PROVE  m[n] \in GpuRows /\ m[n].start <= m[n].end /\ Length(m[n]) \in Int
    <2>1. m[n] \in GpuRows /\ m[n].start <= m[n].end
      BY <1>1 DEF Apart
    <2>2. m[n].start \in Int /\ m[n].end \in Int
      BY <2>1 DEF GpuRows, Time
    <2> QED BY <2>1, <2>2 DEF Length
  <1>3. PICK sums : SumLoop(sums, m, N) /\ sums[N] = Busy(rows)
    BY <1>1, <1>2, BusyTurns
  <1> DEFINE Upto(n) == {t \in Time : \E i \in 1 .. n : t \in Covers(m[i])}
             Good(n) == sums[n] = Cardinality(Upto(n))
  <1>4. Good(0)
    <2>1. Upto(0) = {}
      OBVIOUS
    <2>2. Cardinality(Upto(0)) = 0
      BY <2>1, FS_EmptySet
    <2> QED BY <1>3, <2>2 DEF SumLoop
  <1>5. ASSUME NEW n \in 0 .. N - 1, Good(n) PROVE Good(n + 1)
    <2>1. n + 1 \in 1 .. N /\ (\A i \in 1 .. n + 1 : i \in 1 .. n \/ i = n + 1)
          /\ n + 1 \in 1 .. n + 1 /\ 1 .. n \in SUBSET (1 .. n + 1) /\ 1 .. n \in SUBSET (1 .. N)
      <3> HIDE DEF Good, Upto
      <3> QED OBVIOUS
    <2>2. Covers(m[n + 1]) \in SUBSET Time /\ Upto(n) \in SUBSET Time
      BY DEF Covers
    <2>3. Upto(n + 1) = Upto(n) \cup Covers(m[n + 1])
      BY <2>1, <2>2
    <2>4. Upto(n) \cap Covers(m[n + 1]) = {}
      <3>1. SUFFICES ASSUME NEW t \in Time, NEW i \in 1 .. n, t \in Covers(m[i]), t \in Covers(m[n + 1])
                     PROVE  FALSE
        OBVIOUS
      <3>2. i < n + 1 /\ i \in 1 .. N
        BY <2>1
      <3>3. m[i].end < m[n + 1].start
        BY <1>1, <2>1, <3>2 DEF Apart
      <3>4. t < m[i].end /\ m[n + 1].start <= t
        BY <3>1 DEF Covers
      <3>5. t \in Int /\ m[i].end \in Int /\ m[n + 1].start \in Int
        BY <1>2, <2>1, <3>2 DEF GpuRows, Time
      <3> QED BY <3>3, <3>4, <3>5
    <2>5. Cardinality(Covers(m[n + 1])) = Length(m[n + 1]) /\ IsFiniteSet(Covers(m[n + 1]))
      BY <1>2, <2>1, CoversLength
    <2>6. IsFiniteSet(Upto(n)) /\ Cardinality(Upto(n)) \in Nat
      BY <2>2, NanosecondsFinite
    <2>7. Cardinality(Upto(n + 1)) = Cardinality(Upto(n)) + Length(m[n + 1])
      <3> HIDE DEF Upto
      <3>1. PICK U, C : U = Upto(n) /\ C = Covers(m[n + 1])
        OBVIOUS
      <3>2. Cardinality(U \cup C) = Cardinality(U) + Cardinality(C) - Cardinality(U \cap C)
        BY <2>5, <2>6, <3>1, FS_Union
      <3>3. Cardinality(U \cap C) = 0
        BY <2>4, <3>1, FS_EmptySet
      <3>4. Length(m[n + 1]) \in Int
        BY <1>2, <2>1
      <3>5. Cardinality(U \cup C) = Cardinality(U) + Length(m[n + 1]) - 0
        BY <2>5, <3>1, <3>2, <3>3
      <3>6. Cardinality(U) + Length(m[n + 1]) - 0 = Cardinality(U) + Length(m[n + 1])
        BY <2>6, <3>1, <3>4
      <3>7. Cardinality(Upto(n + 1)) = Cardinality(U \cup C)
        BY <2>3, <3>1
      <3> QED BY <3>1, <3>5, <3>6, <3>7
    <2>8. sums[n + 1] = sums[n] + Length(m[n + 1])
      BY <1>3 DEF SumLoop
    <2> HIDE DEF Upto
    <2> QED BY <1>5, <2>7, <2>8
  <1>6. Good(N)
    <2>1. PICK S : S = {n \in 0 .. N : Good(n)}
      OBVIOUS
    <2> HIDE DEF Good
    <2>2. 0 \in S /\ \A n \in 0 .. N - 1 : n \in S => n + 1 \in S
      BY <1>4, <1>5, <2>1
    <2>3. \A n \in 0 .. N : n \in S
      BY <2>2, Upward
    <2> QED BY <2>1, <2>3
  <1>7. Nanoseconds(m) = Upto(N)
    BY <1>1 DEF Nanoseconds, Covers
  <1> HIDE DEF Upto
  <1> QED BY <1>3, <1>6, <1>7
(***************************************************************************)
(* overlap_ns: two pointers over two merged lists                          *)
(***************************************************************************)
\* What two intervals add.
Gain(x, y) ==
    LET both == Common(x, y)
    IN  IF both.start < both.end THEN Length(both) ELSE 0

WalkTurn(from, a, b, at) ==
    LET i == at[1]
        j == at[2]
        both == Common(a[i], b[j])
    IN  IF i > Len(a) \/ j > Len(b) THEN 0
        ELSE (IF both.start < both.end THEN Length(both) ELSE 0)
               + from[IF MovesFirst(a[i], b[j]) THEN <<i + 1, j>> ELSE <<i, j + 1>>]

WalkLoop(from, a, b) ==
    from = [at \in (1 .. Len(a) + 1) \X (1 .. Len(b) + 1) |-> WalkTurn(from, a, b, at)]

LEMMA Walked ==
    ASSUME NEW a, NEW b, \E from : WalkLoop(from, a, b)
    PROVE  \E from : WalkLoop(from, a, b) /\ Overlap(a, b) = from[<<1, 1>>]
  <1>1. Overlap(a, b) = (CHOOSE from : WalkLoop(from, a, b))[<<1, 1>>]
    BY Zenon DEF Overlap, WalkLoop, WalkTurn
  <1>2. WalkLoop(CHOOSE from : WalkLoop(from, a, b), a, b)
    BY Zenon
  <1>3. PICK from : from = CHOOSE f : WalkLoop(f, a, b)
    OBVIOUS
  <1> QED BY <1>1, <1>2, <1>3, Zenon

\* What is left of a merged list from position i on.
Rest(m, i) == {t \in Time : \E k \in i .. Len(m) : t \in Covers(m[k])}

LEMMA GainExact ==
    ASSUME NEW x \in GpuRows, NEW y \in GpuRows
    PROVE  Gain(x, y) = Cardinality(Covers(x) \cap Covers(y))
  <1>1. PICK xs, xe, ys, ye : xs = x.start /\ xe = x.end /\ ys = y.start /\ ye = y.end
    OBVIOUS
  <1>2. LastTime \in Nat /\ {xs, xe, ys, ye} \in SUBSET (1 .. LastTime)
    BY <1>1 DEF GpuRows, Time
  <1>3. PICK s, e : s = Common(x, y).start /\ e = Common(x, y).end
    OBVIOUS
  <1>4. s = Max({xs, ys}) /\ e = Min({xe, ye})
    BY <1>1, <1>3 DEF Common
  <1>5. s \in {xs, ys} /\ xs <= s /\ ys <= s
    <2>1. {xs, ys} \in SUBSET (0 .. LastTime) /\ {xs, ys} # {}
      BY <1>2
    <2>2. Max({xs, ys}) \in {xs, ys} /\ \A j \in {xs, ys} : j <= Max({xs, ys})
      BY <2>1, MaxTaken
    <2> QED BY <1>4, <2>2
  <1>6. e \in {xe, ye} /\ e <= xe /\ e <= ye
    <2>1. {xe, ye} \in SUBSET Nat /\ {xe, ye} # {}
      BY <1>2
    <2>2. Min({xe, ye}) \in {xe, ye} /\ \A j \in {xe, ye} : Min({xe, ye}) <= j
      BY <2>1, MinTaken
    <2> QED BY <1>4, <2>2
  <1>7. s \in 1 .. LastTime /\ e \in 1 .. LastTime
    BY <1>2, <1>5, <1>6
  <1>8. ASSUME NEW t \in Int
        PROVE  xs <= t /\ t < xe /\ ys <= t /\ t < ye <=> s <= t /\ t < e
    <2>1. xs \in Int /\ xe \in Int /\ ys \in Int /\ ye \in Int /\ s \in Int /\ e \in Int
      BY <1>2, <1>7
    <2>2. (s = xs \/ s = ys) /\ (e = xe \/ e = ye)
      BY <1>5, <1>6
    <2> QED BY <1>5, <1>6, <2>1, <2>2
  <1>9. Covers(x) \cap Covers(y) = s .. e - 1
    <2>1. Covers(x) \cap Covers(y) = {t \in Time : xs <= t /\ t < xe /\ ys <= t /\ t < ye}
      BY <1>1 DEF Covers
    <2>2. \A t \in Time : t \in Int
      BY DEF Time
    <2>3. Covers(x) \cap Covers(y) = {t \in Time : s <= t /\ t < e}
      BY <1>8, <2>1, <2>2
    <2>4. {t \in Time : s <= t /\ t < e} = s .. e - 1
      BY <1>7 DEF Time
    <2> QED BY <2>3, <2>4
  <1>10. s \in Int /\ e - 1 \in Int
    BY <1>7
  <1>11. Cardinality(s .. e - 1) = IF s > e - 1 THEN 0 ELSE (e - 1) - s + 1
    BY <1>10, FS_Interval
  <1>12. (IF s > e - 1 THEN 0 ELSE (e - 1) - s + 1) = IF s < e THEN e - s ELSE 0
    BY <1>7
  <1>13. Gain(x, y) = IF s < e THEN e - s ELSE 0
    BY <1>3, Zenon DEF Gain, Length
  <1> QED BY <1>9, <1>11, <1>12, <1>13

\* The interval at a pointer, and a gap before what follows it.
LEMMA RestFirst ==
    ASSUME NEW m, Apart(m), NEW i \in 1 .. Len(m)
    PROVE  /\ m[i] \in GpuRows
           /\ Rest(m, i) = Covers(m[i]) \cup Rest(m, i + 1)
           /\ \A t \in Rest(m, i + 1) : m[i].end <= t
  <1>1. PICK N \in Nat : N = Len(m) /\ i \in 1 .. N
    BY DEF Apart
  <1>2. \A k \in 1 .. N : m[k] \in GpuRows
    BY <1>1 DEF Apart
  <1>3. Rest(m, i) = Covers(m[i]) \cup Rest(m, i + 1)
    <2>1. i \in i .. N /\ i + 1 .. N \in SUBSET (i .. N) /\ \A k \in i .. N : k = i \/ k \in i + 1 .. N
      BY <1>1
    <2>2. Covers(m[i]) \in SUBSET Time
      BY DEF Covers
    <2> QED BY <1>1, <2>1, <2>2 DEF Rest
  <1>4. ASSUME NEW t \in Rest(m, i + 1) PROVE m[i].end <= t
    <2>1. PICK k \in i + 1 .. N : t \in Covers(m[k])
      BY <1>1 DEF Rest
    <2>2. k \in 1 .. N /\ i < k
      BY <1>1
    <2>3. m[i].end < m[k].start
      BY <1>1, <2>2 DEF Apart
    <2>4. m[k].start <= t /\ t \in Time
      BY <2>1 DEF Covers
    <2>5. m[i].end \in Int /\ m[k].start \in Int /\ t \in Int
      BY <1>1, <1>2, <2>2, <2>4 DEF GpuRows, Time
    <2> QED BY <2>3, <2>4, <2>5
  <1> QED BY <1>1, <1>2, <1>3, <1>4

\* Moving on from the interval that ends first leaves nothing out: what
\* follows on either side begins after it.
Leaves(x, y, U, V) ==
    Cardinality((Covers(x) \cup U) \cap (Covers(y) \cup V))
      = Gain(x, y) + Cardinality(U \cap (Covers(y) \cup V))

LEMMA MovingOn ==
    ASSUME NEW x \in GpuRows, NEW y \in GpuRows, NEW U \in SUBSET Time, NEW V \in SUBSET Time,
           \A t \in U : x.end <= t, \A t \in V : x.end <= t
    PROVE  Leaves(x, y, U, V)
  <1>1. ASSUME NEW t \in Covers(x) PROVE t \notin U /\ t \notin V
    <2>1. t < x.end /\ t \in Int /\ x.end \in Int
      BY DEF Covers, GpuRows, Time
    <2>2. ~(x.end <= t)
      BY <2>1
    <2> QED BY <2>2
  <1>2. PICK P, Q : P = Covers(x) \cap Covers(y) /\ Q = U \cap (Covers(y) \cup V)
    OBVIOUS
  <1>3. (Covers(x) \cup U) \cap (Covers(y) \cup V) = P \cup Q /\ P \cap Q = {}
    BY <1>1, <1>2
  <1>4. P \in SUBSET Time /\ Q \in SUBSET Time
    BY <1>2 DEF Covers
  <1>5. IsFiniteSet(P) /\ IsFiniteSet(Q) /\ Cardinality(P) \in Nat /\ Cardinality(Q) \in Nat
    BY <1>4, NanosecondsFinite
  <1>6. Cardinality(P \cup Q) = Cardinality(P) + Cardinality(Q) - Cardinality(P \cap Q)
    BY <1>5, FS_Union
  <1>7. Cardinality(P \cap Q) = 0
    BY <1>3, FS_EmptySet
  <1>8. Cardinality(P \cup Q) = Cardinality(P) + Cardinality(Q)
    BY <1>5, <1>6, <1>7
  <1>9. Gain(x, y) = Cardinality(P)
    BY <1>2, GainExact
  <1> QED BY <1>2, <1>3, <1>8, <1>9 DEF Leaves

\* One turn, in nanoseconds.
Turns(a, b, i, j) ==
    Cardinality(Rest(a, i) \cap Rest(b, j))
      = Gain(a[i], b[j]) + IF MovesFirst(a[i], b[j])
                           THEN Cardinality(Rest(a, i + 1) \cap Rest(b, j))
                           ELSE Cardinality(Rest(a, i) \cap Rest(b, j + 1))

LEMMA TurnExact ==
    ASSUME NEW a, Apart(a), NEW b, Apart(b), NEW i \in 1 .. Len(a), NEW j \in 1 .. Len(b)
    PROVE  Turns(a, b, i, j)
  <1>1. PICK x \in GpuRows, y \in GpuRows : x = a[i] /\ y = b[j]
    BY RestFirst
  <1>2. /\ Rest(a, i) = Covers(x) \cup Rest(a, i + 1) /\ \A t \in Rest(a, i + 1) : x.end <= t
        /\ Rest(b, j) = Covers(y) \cup Rest(b, j + 1) /\ \A t \in Rest(b, j + 1) : y.end <= t
    BY <1>1, RestFirst
  <1>3. Rest(a, i + 1) \in SUBSET Time /\ Rest(b, j + 1) \in SUBSET Time
    BY DEF Rest
  <1>4. x.end \in Int /\ y.end \in Int /\ \A t \in Time : t \in Int
    BY DEF GpuRows, Time
  <1>5. CASE MovesFirst(x, y)
    <2>1. x.end < y.end
      BY <1>5 DEF MovesFirst
    <2>2. \A t \in Rest(b, j + 1) : x.end <= t
      BY <1>2, <1>3, <1>4, <2>1
    <2>3. Cardinality(Rest(a, i) \cap Rest(b, j))
            = Gain(x, y) + Cardinality(Rest(a, i + 1) \cap Rest(b, j))
      <3>1. PICK U, V : U = Rest(a, i + 1) /\ V = Rest(b, j + 1)
        OBVIOUS
      <3>2. U \in SUBSET Time /\ V \in SUBSET Time /\ (\A t \in U : x.end <= t) /\ \A t \in V : x.end <= t
        BY <1>2, <1>3, <2>2, <3>1
      <3>3. Cardinality((Covers(x) \cup U) \cap (Covers(y) \cup V))
              = Gain(x, y) + Cardinality(U \cap (Covers(y) \cup V))
        <4>1. Leaves(x, y, U, V)
          BY <1>1, <3>2, MovingOn
        <4> QED BY <4>1, Zenon DEF Leaves
      <3>4. Rest(a, i) = Covers(x) \cup U /\ Rest(b, j) = Covers(y) \cup V
        BY <1>2, <3>1
      <3> QED BY <3>1, <3>3, <3>4, Zenon
    <2> QED BY <1>1, <1>5, <2>3 DEF Turns
  <1>6. CASE ~MovesFirst(x, y)
    <2>1. y.end <= x.end
      BY <1>4, <1>6 DEF MovesFirst
    <2>2. \A t \in Rest(a, i + 1) : y.end <= t
      BY <1>2, <1>3, <1>4, <2>1
    <2>3. Cardinality(Rest(b, j) \cap Rest(a, i))
            = Gain(y, x) + Cardinality(Rest(b, j + 1) \cap Rest(a, i))
      <3>1. PICK U, V : U = Rest(b, j + 1) /\ V = Rest(a, i + 1)
        OBVIOUS
      <3>2. U \in SUBSET Time /\ V \in SUBSET Time /\ (\A t \in U : y.end <= t) /\ \A t \in V : y.end <= t
        BY <1>2, <1>3, <2>2, <3>1
      <3>3. Cardinality((Covers(y) \cup U) \cap (Covers(x) \cup V))
              = Gain(y, x) + Cardinality(U \cap (Covers(x) \cup V))
        <4>1. Leaves(y, x, U, V)
          BY <1>1, <3>2, MovingOn
        <4> QED BY <4>1, Zenon DEF Leaves
      <3>4. Rest(b, j) = Covers(y) \cup U /\ Rest(a, i) = Covers(x) \cup V
        BY <1>2, <3>1
      <3> QED BY <3>1, <3>3, <3>4, Zenon
    <2>4. Gain(y, x) = Gain(x, y)
      <3>1. Covers(x) \cap Covers(y) = Covers(y) \cap Covers(x)
        OBVIOUS
      <3> QED BY <3>1, GainExact
    <2>5. /\ Rest(b, j) \cap Rest(a, i) = Rest(a, i) \cap Rest(b, j)
          /\ Rest(b, j + 1) \cap Rest(a, i) = Rest(a, i) \cap Rest(b, j + 1)
      OBVIOUS
    <2> QED BY <1>1, <1>6, <2>3, <2>4, <2>5 DEF Turns
  <1> QED BY <1>5, <1>6
\* The two pointers meet every nanosecond of both lists, once.
LEMMA OverlapExact ==
    ASSUME NEW a, Apart(a), NEW b, Apart(b)
    PROVE  Overlap(a, b) = Cardinality(Nanoseconds(a) \cap Nanoseconds(b))
  <1>1. PICK M \in Nat, N \in Nat : M = Len(a) /\ N = Len(b) /\ DOMAIN a = 1 .. M /\ DOMAIN b = 1 .. N
    BY DEF Apart
  <1>2. PICK left : left = [at \in (1 .. M + 1) \X (1 .. N + 1) |->
                              Cardinality(Rest(a, at[1]) \cap Rest(b, at[2]))]
    OBVIOUS
  <1>3. ASSUME NEW i \in 1 .. M + 1, NEW j \in 1 .. N + 1
        PROVE  left[<<i, j>>] = Cardinality(Rest(a, i) \cap Rest(b, j))
    BY <1>2
  <1>4. ASSUME NEW from, NEW i \in 1 .. M + 1, NEW j \in 1 .. N + 1
        PROVE  WalkTurn(from, a, b, <<i, j>>) =
                 IF i > M \/ j > N THEN 0
                 ELSE Gain(a[i], b[j])
                        + from[IF MovesFirst(a[i], b[j]) THEN <<i + 1, j>> ELSE <<i, j + 1>>]
    <2>1. WalkTurn(from, a, b, <<i, j>>) =
                 IF i > Len(a) \/ j > Len(b) THEN 0
                 ELSE Gain(a[i], b[j])
                        + from[IF MovesFirst(a[i], b[j]) THEN <<i + 1, j>> ELSE <<i, j + 1>>]
      BY Zenon DEF WalkTurn, Gain
    <2> QED BY <1>1, <2>1, Zenon
  <1>5. ASSUME NEW i \in 1 .. M + 1, NEW j \in 1 .. N + 1, i > M \/ j > N
        PROVE  Rest(a, i) \cap Rest(b, j) = {} /\ left[<<i, j>>] = 0
    <2>1. i .. M = {} \/ j .. N = {}
      BY <1>5
    <2>2. Rest(a, i) \cap Rest(b, j) = {}
      BY <1>1, <2>1 DEF Rest
    <2> QED BY <1>3, <2>2, FS_EmptySet
  <1>6. ASSUME NEW i \in 1 .. M, NEW j \in 1 .. N
        PROVE  left[<<i, j>>] =
                 Gain(a[i], b[j])
                   + left[IF MovesFirst(a[i], b[j]) THEN <<i + 1, j>> ELSE <<i, j + 1>>]
    <2>1. i \in 1 .. M + 1 /\ i + 1 \in 1 .. M + 1 /\ j \in 1 .. N + 1 /\ j + 1 \in 1 .. N + 1
      OBVIOUS
    <2>2. /\ left[<<i, j>>] = Cardinality(Rest(a, i) \cap Rest(b, j))
          /\ left[<<i + 1, j>>] = Cardinality(Rest(a, i + 1) \cap Rest(b, j))
          /\ left[<<i, j + 1>>] = Cardinality(Rest(a, i) \cap Rest(b, j + 1))
      BY <1>3, <2>1
    <2>3. Cardinality(Rest(a, i) \cap Rest(b, j))
            = Gain(a[i], b[j]) + IF MovesFirst(a[i], b[j])
                                 THEN Cardinality(Rest(a, i + 1) \cap Rest(b, j))
                                 ELSE Cardinality(Rest(a, i) \cap Rest(b, j + 1))
      <3>1. i \in 1 .. Len(a) /\ j \in 1 .. Len(b)
        BY <1>1
      <3>2. Turns(a, b, i, j)
        BY <3>1, TurnExact
      <3> QED BY <3>2 DEF Turns
    <2>4. CASE MovesFirst(a[i], b[j])
      BY <2>2, <2>3, <2>4
    <2>5. CASE ~MovesFirst(a[i], b[j])
      BY <2>2, <2>3, <2>5
    <2> QED BY <2>4, <2>5
  <1>7. WalkLoop(left, a, b)
    <2>1. ASSUME NEW i \in 1 .. M + 1, NEW j \in 1 .. N + 1
          PROVE  left[<<i, j>>] = WalkTurn(left, a, b, <<i, j>>)
      <3>1. CASE i > M \/ j > N
        BY <1>4, <1>5, <3>1
      <3>2. CASE ~(i > M \/ j > N)
        <4>1. i \in 1 .. M /\ j \in 1 .. N
          BY <3>2
        <4> QED BY <1>4, <1>6, <3>2, <4>1
      <3> QED BY <3>1, <3>2
    <2>2. ASSUME NEW at \in (1 .. M + 1) \X (1 .. N + 1)
          PROVE  left[at] = WalkTurn(left, a, b, at)
      <3>1. PICK i \in 1 .. M + 1, j \in 1 .. N + 1 : at = <<i, j>>
        OBVIOUS
      <3> QED BY <2>1, <3>1
    <2>3. left = [at \in (1 .. M + 1) \X (1 .. N + 1) |-> left[at]]
      BY <1>2
    <2>4. left = [at \in (1 .. M + 1) \X (1 .. N + 1) |-> WalkTurn(left, a, b, at)]
      BY <2>2, <2>3
    <2> QED BY <1>1, <2>4 DEF WalkLoop
  <1>8. PICK from : WalkLoop(from, a, b) /\ Overlap(a, b) = from[<<1, 1>>]
    BY <1>7, Walked
  <1>9. ASSUME NEW i \in 1 .. M + 1, NEW j \in 1 .. N + 1
        PROVE  from[<<i, j>>] = WalkTurn(from, a, b, <<i, j>>)
    BY <1>1, <1>8 DEF WalkLoop
  \* By what is left of both lists.
  <1>10. PICK S : S = {n \in 0 .. M + N : \A i \in 1 .. M + 1, j \in 1 .. N + 1 :
                         (M + 1 - i) + (N + 1 - j) = n => from[<<i, j>>] = left[<<i, j>>]}
    OBVIOUS
  <1>11. 0 \in S
    <2>1. ASSUME NEW i \in 1 .. M + 1, NEW j \in 1 .. N + 1, (M + 1 - i) + (N + 1 - j) = 0
          PROVE  from[<<i, j>>] = left[<<i, j>>]
      <3>1. i > M
        BY <2>1
      <3> QED BY <1>4, <1>5, <1>9, <3>1
    <2> QED BY <1>10, <2>1
  <1>12. ASSUME NEW n \in 0 .. (M + N) - 1, n \in S PROVE n + 1 \in S
    <2>1. ASSUME NEW i \in 1 .. M + 1, NEW j \in 1 .. N + 1, (M + 1 - i) + (N + 1 - j) = n + 1
          PROVE  from[<<i, j>>] = left[<<i, j>>]
      <3>1. CASE i > M \/ j > N
        <4>1. from[<<i, j>>] = 0
          BY <1>4, <1>9, <3>1
        <4> QED BY <1>5, <3>1, <4>1
      <3>2. CASE ~(i > M \/ j > N)
        <4>1. i \in 1 .. M /\ j \in 1 .. N /\ i + 1 \in 1 .. M + 1 /\ j + 1 \in 1 .. N + 1
          BY <3>2
        <4>2. /\ (M + 1 - (i + 1)) + (N + 1 - j) = n
              /\ (M + 1 - i) + (N + 1 - (j + 1)) = n
          BY <2>1
        <4>3. from[<<i + 1, j>>] = left[<<i + 1, j>>] /\ from[<<i, j + 1>>] = left[<<i, j + 1>>]
          BY <1>10, <1>12, <4>1, <4>2
        <4>4. PICK next : next = IF MovesFirst(a[i], b[j]) THEN <<i + 1, j>> ELSE <<i, j + 1>>
          OBVIOUS
        <4>5. from[next] = left[next]
          BY <4>3, <4>4
        <4>6. from[<<i, j>>] = Gain(a[i], b[j]) + from[next]
          BY <1>4, <1>9, <3>2, <4>4
        <4>7. left[<<i, j>>] = Gain(a[i], b[j]) + left[next]
          BY <1>6, <4>1, <4>4
        <4> QED BY <4>5, <4>6, <4>7
      <3> QED BY <3>1, <3>2
    <2>2. n + 1 \in 0 .. M + N
      OBVIOUS
    <2> QED BY <1>10, <2>1, <2>2
  <1>13. from[<<1, 1>>] = left[<<1, 1>>]
    <2>1. M + N \in Nat /\ M + N \in 0 .. M + N
      OBVIOUS
    <2>2. \A n \in 0 .. M + N : n \in S
      BY <1>11, <1>12, <2>1, Upward
    <2>3. 1 \in 1 .. M + 1 /\ 1 \in 1 .. N + 1 /\ (M + 1 - 1) + (N + 1 - 1) = M + N
      OBVIOUS
    <2> QED BY <1>10, <2>1, <2>2, <2>3
  <1>14. left[<<1, 1>>] = Cardinality(Rest(a, 1) \cap Rest(b, 1))
    <2>1. 1 \in 1 .. M + 1 /\ 1 \in 1 .. N + 1
      OBVIOUS
    <2> QED BY <1>3, <2>1
  <1>15. Rest(a, 1) = Nanoseconds(a) /\ Rest(b, 1) = Nanoseconds(b)
    BY <1>1 DEF Rest, Nanoseconds, Covers
  <1> QED BY <1>8, <1>13, <1>14, <1>15
(***************************************************************************)
(* metrics_colocated                                                       *)
(***************************************************************************)
\* A client's rows of a trace of kernels.
LEMMA ClientRows ==
    ASSUME TraceInv, mode = "kernels", NEW c \in Client
    PROVE  RowsOf(c) \in Seq(GpuRows) /\ \A i \in DOMAIN RowsOf(c) : RowsOf(c)[i].start <= RowsOf(c)[i].end
  <1>1. PICK R : /\ R = [client : Client, intercept : Times, issue : Times, start : Times, end : Times]
                 /\ trace \in Seq(R)
    BY DEF TraceInv
  <1>2. PICK N \in Nat : N = Len(trace) /\ DOMAIN trace = 1 .. N /\ \A i \in 1 .. N : trace[i] \in R
    <2>1. trace \in Seq(R)
      BY <1>1
    <2> QED BY <2>1
  <1>3. ASSUME NEW i \in 1 .. N PROVE trace[i] \in GpuRows /\ trace[i].start <= trace[i].end
    <2>1. trace[i].start \in Time /\ trace[i].end \in Time /\ trace[i].start <= trace[i].end
      BY <1>2 DEF TraceInv, InMode
    <2>2. trace[i] \in R
      BY <1>2
    <2> QED BY <1>1, <2>1, <2>2 DEF GpuRows
  <1>4. PICK S \in SUBSET (1 .. N) : S = {i \in DOMAIN trace : trace[i].client = c}
    BY <1>2
  <1>5. PICK M \in 0 .. N : \E at : Part(at, M, trace, S)
    BY AtPositions
  <1>6. PICK at : Part(at, M, trace, S)
    BY <1>5
  <1>7. PICK rows : rows = RowsOf(c) /\ rows = [n \in 1 .. M |-> trace[at[n]]]
    BY <1>4, <1>6 DEF RowsOf, Part
  <1>8. ASSUME NEW n \in 1 .. M PROVE rows[n] \in GpuRows /\ rows[n].start <= rows[n].end
    <2>1. at[n] \in 1 .. N /\ rows[n] = trace[at[n]]
      BY <1>6, <1>7 DEF Part
    <2> QED BY <1>3, <2>1
  <1>9. rows \in Seq(GpuRows) /\ DOMAIN rows = 1 .. M
    <2>1. M \in Nat /\ rows \in [1 .. M -> GpuRows]
      BY <1>5, <1>7, <1>8
    <2> QED BY <2>1, SeqDef
  <1> QED BY <1>7, <1>8, <1>9

\* A client's figures.
LEMMA BusyOfRows ==
    ASSUME NEW rows \in Seq(GpuRows), \A i \in DOMAIN rows : rows[i].start <= rows[i].end
    PROVE  /\ Apart(Merged(rows)) /\ Nanoseconds(Merged(rows)) = Nanoseconds(rows)
           /\ Busy(rows) = Cardinality(Nanoseconds(rows))
  <1>1. Apart(Merged(rows)) /\ Nanoseconds(Merged(rows)) = Nanoseconds(rows)
    BY MergedExact
  <1>2. PICK m : m = Merged(rows)
    OBVIOUS
  <1>3. Busy(rows) = Cardinality(Nanoseconds(m))
    BY <1>1, <1>2, BusyExact
  <1> QED BY <1>1, <1>2, <1>3

\* The span reaches from the first start to the last end of either client.
LEMMA SpanCovers ==
    ASSUME NEW k0 \in Seq(GpuRows), NEW k1 \in Seq(GpuRows), k0 # <<>>,
           \A i \in DOMAIN k0 : k0[i].start <= k0[i].end
    PROVE  Cardinality(Nanoseconds(k0) \cup Nanoseconds(k1)) <= Concurrency(k0, k1).span
  <1>1. PICK rows : rows = ToSet(k0 \o k1)
    OBVIOUS
  <1>2. /\ rows \in SUBSET GpuRows
        /\ \A i \in DOMAIN k0 : k0[i] \in rows
        /\ \A i \in DOMAIN k1 : k1[i] \in rows
    <2>1. PICK L \in Nat, N \in Nat : L = Len(k0) /\ N = Len(k1) /\ DOMAIN k0 = 1 .. L /\ DOMAIN k1 = 1 .. N
      OBVIOUS
    <2>2. PICK all : all = k0 \o k1
      OBVIOUS
    <2>3. /\ all \in Seq(GpuRows) /\ DOMAIN all = 1 .. L + N
          /\ \A i \in 1 .. L : all[i] = k0[i]
          /\ \A i \in 1 .. N : all[L + i] = k1[i]
      BY <2>1, <2>2
    <2>4. rows = {all[i] : i \in 1 .. L + N}
      BY <1>1, <2>2, <2>3 DEF ToSet
    <2>5. (\A i \in 1 .. L : i \in 1 .. L + N) /\ \A i \in 1 .. N : L + i \in 1 .. L + N
      OBVIOUS
    <2>6. \A i \in 1 .. L + N : all[i] \in GpuRows
      BY <2>3
    <2> QED BY <2>1, <2>3, <2>4, <2>5, <2>6
  <1>3. PICK starts, ends : starts = {r.start : r \in rows} /\ ends = {r.end : r \in rows}
    OBVIOUS
  <1>4. LastTime \in Nat /\ starts \in SUBSET (1 .. LastTime) /\ ends \in SUBSET (1 .. LastTime)
    <2>1. \A r \in GpuRows : r.start \in 1 .. LastTime /\ r.end \in 1 .. LastTime
      BY DEF GpuRows, Time
    <2> QED BY <1>2, <1>3, <2>1
  <1>5. PICK row \in rows : row.start <= row.end
    <2>1. 1 \in DOMAIN k0
      OBVIOUS
    <2> QED BY <1>2, <2>1
  <1>6. PICK lo \in 1 .. LastTime : lo = Min(starts) /\ \A r \in rows : lo <= r.start
    <2>1. starts \in SUBSET Nat /\ starts # {}
      BY <1>3, <1>4, <1>5
    <2>2. Min(starts) \in starts /\ \A s \in starts : Min(starts) <= s
      BY <2>1, MinTaken
    <2> QED BY <1>3, <1>4, <2>2
  <1>7. PICK hi \in 1 .. LastTime : hi = Max(ends) /\ \A r \in rows : r.end <= hi
    <2>1. ends \in SUBSET (0 .. LastTime) /\ ends # {}
      BY <1>3, <1>4, <1>5
    <2>2. Max(ends) \in ends /\ \A e \in ends : e <= Max(ends)
      BY <2>1, MaxTaken
    <2> QED BY <1>3, <1>4, <2>2
  <1>8. lo <= hi
    <2>1. lo <= row.start /\ row.start <= row.end /\ row.end <= hi
      BY <1>5, <1>6, <1>7
    <2>2. row.start \in Int /\ row.end \in Int
      BY <1>2 DEF GpuRows, Time
    <2> QED BY <2>1, <2>2
  <1>9. Nanoseconds(k0) \cup Nanoseconds(k1) \in SUBSET (lo .. hi - 1)
    <2>1. ASSUME NEW t \in Time, NEW r \in rows, r.start <= t, t < r.end
          PROVE  t \in lo .. hi - 1
      <3>1. lo <= r.start /\ r.end <= hi
        BY <1>6, <1>7
      <3>2. r.start \in Int /\ r.end \in Int /\ t \in Int
        BY <1>2 DEF GpuRows, Time
      <3> QED BY <2>1, <3>1, <3>2
    <2> QED BY <1>2, <2>1 DEF Nanoseconds
  <1>10. lo \in Int /\ hi - 1 \in Int
    OBVIOUS
  <1>11. /\ IsFiniteSet(lo .. hi - 1)
         /\ Cardinality(lo .. hi - 1) = IF lo > hi - 1 THEN 0 ELSE (hi - 1) - lo + 1
    BY <1>10, FS_Interval
  <1>12. (IF lo > hi - 1 THEN 0 ELSE (hi - 1) - lo + 1) = hi - lo
    BY <1>8
  <1>13. Cardinality(Nanoseconds(k0) \cup Nanoseconds(k1)) <= Cardinality(lo .. hi - 1)
    BY <1>9, <1>11, FS_Subset
  <1>14. Concurrency(k0, k1).span = hi - lo
    <2>1. Concurrency(k0, k1).span = Max({r.end : r \in rows}) - Min({r.start : r \in rows})
      BY <1>1 DEF Concurrency
    <2> QED BY <1>3, <1>6, <1>7, <2>1
  <1> QED BY <1>11, <1>12, <1>13, <1>14

LEMMA FiguresExact == TraceInv => ConcurrencyExact
  <1> SUFFICES ASSUME TraceInv, mode = "kernels", RowsOf(0) # <<>>, RowsOf(1) # <<>>
      PROVE  LET figures == Concurrency(RowsOf(0), RowsOf(1))
                 gpu(c) == Nanoseconds(RowsOf(c))
             IN  /\ figures.overlap = Cardinality(gpu(0) \cap gpu(1))
                 /\ figures.union = Cardinality(gpu(0) \cup gpu(1))
                 /\ figures.union <= figures.span
    BY DEF ConcurrencyExact
  <1>1. PICK k0, k1 : k0 = RowsOf(0) /\ k1 = RowsOf(1)
    OBVIOUS
  <1>2. 0 \in Client /\ 1 \in Client
    BY DEF Client
  <1>3. /\ k0 \in Seq(GpuRows) /\ \A i \in DOMAIN k0 : k0[i].start <= k0[i].end
        /\ k1 \in Seq(GpuRows) /\ \A i \in DOMAIN k1 : k1[i].start <= k1[i].end
    BY <1>1, <1>2, ClientRows
  <1>4. PICK G0, G1 : G0 = Nanoseconds(k0) /\ G1 = Nanoseconds(k1)
    OBVIOUS
  <1>5. /\ Apart(Merged(k0)) /\ Nanoseconds(Merged(k0)) = G0 /\ Busy(k0) = Cardinality(G0)
        /\ Apart(Merged(k1)) /\ Nanoseconds(Merged(k1)) = G1 /\ Busy(k1) = Cardinality(G1)
    BY <1>3, <1>4, BusyOfRows
  <1>6. Overlap(Merged(k0), Merged(k1)) = Cardinality(G0 \cap G1)
    <2>1. PICK a, b : a = Merged(k0) /\ b = Merged(k1)
      OBVIOUS
    <2>2. Overlap(a, b) = Cardinality(Nanoseconds(a) \cap Nanoseconds(b))
      BY <1>5, <2>1, OverlapExact
    <2> QED BY <1>5, <2>1, <2>2
  <1>7. G0 \in SUBSET Time /\ G1 \in SUBSET Time
    BY <1>4 DEF Nanoseconds
  <1>8. Cardinality(G0 \cup G1) = Cardinality(G0) + Cardinality(G1) - Cardinality(G0 \cap G1)
    BY <1>7, NanosecondsFinite, FS_Union
  <1>9. Concurrency(k0, k1).overlap = Overlap(Merged(k0), Merged(k1))
        /\ Concurrency(k0, k1).union = Busy(k0) + Busy(k1) - Overlap(Merged(k0), Merged(k1))
    BY DEF Concurrency
  <1>10. Cardinality(G0 \cup G1) <= Concurrency(k0, k1).span
    BY <1>1, <1>3, <1>4, SpanCovers
  <1> QED BY <1>1, <1>4, <1>5, <1>6, <1>8, <1>9, <1>10

\* The printed overlap and union count every nanosecond in which both, or
\* either, of the clients had a kernel running, once, however many kernels
\* there are and however they nest and touch; the union fits in the span.
THEOREM GpuTimesExact == Spec => []ConcurrencyExact
  <1> QED BY InitTrace, NextTrace, FiguresExact, PTL DEF Spec
(***************************************************************************)
(* build_data                                                              *)
(***************************************************************************)
LateTime(op) == Or(op.start, Or(op.issue, op.intercept))

\* The order of the times a row of a replayed trace has.
RowTimes(op) ==
    /\ op.client \in Client /\ (mode = "seq" => op.client = 0)
    /\ HostTime(op) \in Time /\ IssueTime(op) \in Time /\ LateTime(op) \in Time
    /\ HostTime(op) <= IssueTime(op) /\ HostTime(op) <= LateTime(op)
    /\ op.start # None => /\ op.start \in Time /\ op.end \in Time
                          /\ IssueTime(op) <= op.start /\ op.start < op.end

LEMMA RowTimesHold ==
    ASSUME TraceInv, mode # "kernels", NEW i \in DOMAIN trace
    PROVE  RowTimes(trace[i])
  <1>1. PICK op : op = trace[i]
    OBVIOUS
  <1>2. op \in [client : Client, intercept : Times, issue : Times, start : Times, end : Times]
    <2>1. PICK R : R = [client : Client, intercept : Times, issue : Times, start : Times, end : Times]
      OBVIOUS
    <2>2. trace \in Seq(R)
      BY <2>1 DEF TraceInv
    <2>3. trace[i] \in R
      BY <2>2
    <2> QED BY <1>1, <2>1, <2>3
  <1>3. PICK n, m, s, e : n = op.intercept /\ m = op.issue /\ s = op.start /\ e = op.end
    OBVIOUS
  <1>4. /\ n \in Times /\ m \in Times /\ s \in Times /\ e \in Times /\ op.client \in Client
        /\ HostTime(op) = (IF n # 0 THEN n ELSE IF m # 0 THEN m ELSE s)
        /\ IssueTime(op) = (IF m # 0 THEN m ELSE s)
        /\ LateTime(op) = (IF s # 0 THEN s ELSE IF m # 0 THEN m ELSE n)
    BY <1>2, <1>3 DEF HostTime, IssueTime, LateTime, Or, None
  <1>5. LastTime \in Nat /\ Time = 1 .. LastTime /\ Times = 0 .. LastTime
    BY DEF Time, Times, None
  <1>6. CASE mode = "colocated"
    <2>1. /\ n \in Time /\ m \in Time /\ n <= m
          /\ \/ s = 0 /\ e = 0
             \/ s \in Time /\ e \in Time /\ m <= s /\ s < e
      BY <1>1, <1>3, <1>6 DEF TraceInv, InMode, None
    <2> QED BY <1>1, <1>3, <1>4, <1>5, <1>6, <2>1 DEF RowTimes, None
  <1>7. CASE mode = "seq"
    <2>1. op.client = 0 /\ n = 0 /\ s \in Time /\ e \in Time /\ m <= s /\ s < e
      BY <1>1, <1>3, <1>7 DEF TraceInv, InMode, None
    <2> QED BY <1>1, <1>3, <1>4, <1>5, <1>7, <2>1 DEF RowTimes, None
  <1> QED BY <1>6, <1>7 DEF TraceInv

\* The rows kept are rows of the trace, and no timed one is missing.
Kept(kept, M, N) ==
    /\ M \in Nat /\ M # 0 /\ DOMAIN kept = 1 .. M
    /\ \A n \in 1 .. M : \E i \in 1 .. N : kept[n] = trace[i]
    /\ \A i \in 1 .. N : Timed(trace[i]) => \E n \in 1 .. M : kept[n] = trace[i]

LEMMA TrimmedKeeps ==
    ASSUME TraceInv, mode # "kernels", NEW N \in Nat, N # 0, DOMAIN trace = 1 .. N,
           NEW loads \in SUBSET Time, \A l \in loads, c \in Client : l <= barrier[c]
    PROVE  \E M : Kept(Trimmed(trace, loads), M, N)
  <1>1. CASE loads = {} \/ Behind(trace, Max(loads)) = {}
    <2>1. Trimmed(trace, loads) = trace
      BY <1>1 DEF Trimmed
    <2>2. Kept(trace, N, N)
      BY DEF Kept
    <2> QED BY <2>1, <2>2
  <1>2. CASE ~(loads = {} \/ Behind(trace, Max(loads)) = {})
    <2>1. PICK cut \in loads : cut = Max(loads)
      <3>1. loads \in SUBSET (0 .. LastTime) /\ LastTime \in Nat
        BY DEF Time
      <3> QED BY <1>2, <3>1, MaxTaken
    <2>2. PICK S \in SUBSET (1 .. N) : S = Behind(trace, cut) /\ S # {}
      BY <1>2, <2>1 DEF Behind
    <2>3. Trimmed(trace, loads) = At(trace, S)
      BY <1>2, <2>1, <2>2 DEF Trimmed
    <2>4. PICK M \in 0 .. N : \E at : Part(at, M, trace, S)
      BY AtPositions
    <2>5. PICK at : Part(at, M, trace, S)
      BY <2>4
    <2>6. PICK kept : kept = Trimmed(trace, loads) /\ kept = [n \in 1 .. M |-> trace[at[n]]]
      BY <2>3, <2>5 DEF Part
    <2>7. ASSUME NEW i \in 1 .. N, Timed(trace[i]) PROVE i \in S
      <3>1. RowTimes(trace[i])
        BY RowTimesHold
      <3>2. /\ HostTime(trace[i]) \in Time /\ LateTime(trace[i]) \in Time
            /\ HostTime(trace[i]) <= LateTime(trace[i]) /\ trace[i].client \in Client
        BY <3>1 DEF RowTimes
      <3>3. cut <= barrier[trace[i].client] /\ barrier[trace[i].client] <= HostTime(trace[i])
        BY <2>7, <3>2 DEF Timed, TraceInv
      <3>4. cut \in Int /\ barrier[trace[i].client] \in Int
            /\ HostTime(trace[i]) \in Int /\ LateTime(trace[i]) \in Int
        BY <3>2 DEF TraceInv, Time
      <3>5. cut <= LateTime(trace[i])
        BY <3>2, <3>3, <3>4
      <3> QED BY <2>2, <3>4, <3>5 DEF Behind, LateTime
    <2>8. Kept(kept, M, N)
      <3>1. \A n \in 1 .. M : at[n] \in 1 .. N /\ kept[n] = trace[at[n]]
        BY <2>5, <2>6 DEF Part
      <3>2. ASSUME NEW i \in S PROVE \E n \in 1 .. M : kept[n] = trace[i]
        <4>1. PICK n \in 1 .. M : at[n] = i
          BY <2>5 DEF Part
        <4> QED BY <3>1, <4>1
      <3>3. M # 0
        <4>1. PICK i \in S : TRUE
          BY <2>2
        <4> QED BY <3>2, <4>1
      <3>4. M \in Nat /\ DOMAIN kept = 1 .. M
        BY <2>6
      <3> QED BY <2>7, <3>1, <3>2, <3>3, <3>4 DEF Kept
    <2> QED BY <2>6, <2>8
  <1> QED BY <1>1, <1>2

\* The rounds are the rows kept, each in its turn.
Reordered(rounds, kept, M) ==
    /\ \A n \in 1 .. M : \E i \in 1 .. M : rounds[n] = kept[i]
    /\ \A i \in 1 .. M : \E n \in 1 .. M : rounds[n] = kept[i]

LEMMA RoundsKeep ==
    ASSUME NEW M \in Nat, NEW kept, DOMAIN kept = 1 .. M,
           \A n \in 1 .. M : IssueTime(kept[n]) \in Int
    PROVE  Reordered(Rounds(kept), kept, M)
  <1> DEFINE First(i, j) == \/ IssueTime(kept[i]) < IssueTime(kept[j])
                            \/ IssueTime(kept[i]) = IssueTime(kept[j]) /\ i < j
  <1>1. PICK before : before = {p \in (1 .. M) \X (1 .. M) : First(p[1], p[2])}
    OBVIOUS
  <1>2. ASSUME NEW i \in 1 .. M, NEW j \in 1 .. M PROVE <<i, j>> \in before <=> First(i, j)
    BY <1>1
  <1>3. Rounds(kept) = Arranged(kept, before)
    BY <1>1, Zenon DEF Rounds
  <1>4. Orders(before, M)
    <2>1. ASSUME NEW i \in 1 .. M, NEW j \in 1 .. M, i # j
          PROVE  <<i, j>> \in before <=> <<j, i>> \notin before
      <3>1. IssueTime(kept[i]) \in Int /\ IssueTime(kept[j]) \in Int
        OBVIOUS
      <3>2. First(i, j) <=> ~First(j, i)
        BY <2>1, <3>1
      <3> HIDE DEF First
      <3> QED BY <1>2, <3>2
    <2>2. ASSUME NEW i \in 1 .. M PROVE <<i, i>> \notin before
      <3>1. ~First(i, i)
        OBVIOUS
      <3> HIDE DEF First
      <3> QED BY <1>2, <3>1
    <2>3. ASSUME NEW i \in 1 .. M, NEW j \in 1 .. M, NEW k \in 1 .. M,
                 <<i, j>> \in before, <<j, k>> \in before
          PROVE  <<i, k>> \in before
      <3>1. IssueTime(kept[i]) \in Int /\ IssueTime(kept[j]) \in Int /\ IssueTime(kept[k]) \in Int
        OBVIOUS
      <3>2. First(i, j) /\ First(j, k) => First(i, k)
        BY <3>1
      <3> HIDE DEF First
      <3> QED BY <1>2, <2>3, <3>2
    <2> QED BY <2>1, <2>2, <2>3 DEF Orders
  <1>5. PICK at : Arrangement(at, kept, before, M)
    BY <1>4, ArrangedInOrder
  <1>6. \A n \in 1 .. M : at[n] \in 1 .. M /\ Rounds(kept)[n] = kept[at[n]]
    BY <1>3, <1>5 DEF Arrangement
  <1>7. ASSUME NEW i \in 1 .. M PROVE \E n \in 1 .. M : Rounds(kept)[n] = kept[i]
    <2>1. PICK n \in 1 .. M : at[n] = i
      BY <1>5 DEF Arrangement
    <2> QED BY <1>6, <2>1
  <1> QED BY <1>6, <1>7 DEF Reordered

\* What is drawn of rows of a trace, with the time line they span.
Inside(ops, t0, t_end, N) ==
    /\ \A i \in 1 .. N : Timed(trace[i]) => \E n \in DOMAIN ops : ops[n].op = trace[i]
    /\ \A n \in DOMAIN ops : \E i \in 1 .. N :
         /\ RowTimes(trace[i]) /\ ops[n].op = trace[i]
         /\ ops[n].ti = HostTime(trace[i]) - t0
         /\ 0 <= ops[n].ti /\ ops[n].ti <= ops[n].tis /\ ops[n].tis <= t_end
         /\ ops[n].ran => 0 <= ops[n].tgs /\ ops[n].tge <= t_end
    /\ t0 \in Int

LEMMA DrawnInside ==
    ASSUME TraceInv, mode # "kernels", NEW N \in Nat, DOMAIN trace = 1 .. N,
           NEW M, NEW kept, Kept(kept, M, N), NEW t0, t0 = Origin(kept),
           NEW ops, ops = [i \in DOMAIN kept |-> Drawn(Rounds(kept)[i], t0)],
           NEW t_end,
           t_end = Max({IF ops[i].ran THEN ops[i].tge ELSE ops[i].tis : i \in DOMAIN ops})
    PROVE  Inside(ops, t0, t_end, N)
  <1>1. /\ M \in Nat /\ M # 0 /\ DOMAIN kept = 1 .. M
        /\ \A n \in 1 .. M : \E i \in 1 .. N : kept[n] = trace[i]
        /\ \A i \in 1 .. N : Timed(trace[i]) => \E n \in 1 .. M : kept[n] = trace[i]
    BY DEF Kept
  <1>2. ASSUME NEW n \in 1 .. M PROVE RowTimes(kept[n])
    <2>1. PICK i \in 1 .. N : kept[n] = trace[i]
      BY <1>1
    <2> QED BY <2>1, RowTimesHold
  <1>3. LastTime \in Nat /\ Time = 1 .. LastTime
    BY DEF Time
  <1>4. ASSUME NEW n \in 1 .. M PROVE HostTime(kept[n]) \in Time /\ IssueTime(kept[n]) \in Time
    BY <1>2 DEF RowTimes
  <1>5. t0 \in Time /\ \A n \in 1 .. M : t0 <= HostTime(kept[n])
    <2>1. PICK hosts : hosts = {HostTime(kept[n]) : n \in 1 .. M}
      OBVIOUS
    <2>2. hosts \in SUBSET Time /\ hosts # {} /\ hosts \in SUBSET Nat
      <3>1. 1 \in 1 .. M
        BY <1>1
      <3> QED BY <1>3, <1>4, <2>1, <3>1
    <2>3. Min(hosts) \in hosts /\ \A h \in hosts : Min(hosts) <= h
      BY <2>2, MinTaken
    <2>4. t0 = Min(hosts)
      BY <1>1, <2>1 DEF Origin
    <2> QED BY <2>1, <2>2, <2>3, <2>4
  <1>6. /\ \A n \in 1 .. M : \E i \in 1 .. M : Rounds(kept)[n] = kept[i]
        /\ \A i \in 1 .. M : \E n \in 1 .. M : Rounds(kept)[n] = kept[i]
    <2>1. \A n \in 1 .. M : IssueTime(kept[n]) \in Int
      BY <1>3, <1>4
    <2>2. Reordered(Rounds(kept), kept, M)
      BY <1>1, <2>1, RoundsKeep
    <2> QED BY <2>2 DEF Reordered
  <1>7. DOMAIN ops = 1 .. M /\ \A n \in 1 .. M : ops[n] = Drawn(Rounds(kept)[n], t0)
    BY <1>1
  <1>8. ASSUME NEW op
        PROVE  /\ Drawn(op, t0).op = op /\ Drawn(op, t0).ti = HostTime(op) - t0
               /\ Drawn(op, t0).tis = IssueTime(op) - t0 /\ (Drawn(op, t0).ran <=> op.start # None)
               /\ Drawn(op, t0).tgs = op.start - t0 /\ Drawn(op, t0).tge = op.end - t0
    BY DEF Drawn
  <1> DEFINE Till(n) == IF ops[n].ran THEN ops[n].tge ELSE ops[n].tis
  <1>9. ASSUME NEW n \in 1 .. M
        PROVE  \E i \in 1 .. M :
                 /\ ops[n].op = kept[i] /\ ops[n].ti = HostTime(kept[i]) - t0
                 /\ 0 <= ops[n].ti /\ ops[n].ti <= ops[n].tis /\ ops[n].tis <= Till(n)
                 /\ Till(n) \in 0 .. LastTime
                 /\ ops[n].ran => 0 <= ops[n].tgs
    <2>1. PICK i \in 1 .. M : Rounds(kept)[n] = kept[i]
      BY <1>6
    <2>2. PICK op : op = kept[i]
      OBVIOUS
    <2>3. PICK d : d = ops[n]
      OBVIOUS
    <2>4. /\ d.op = op /\ d.ti = HostTime(op) - t0
          /\ d.tis = IssueTime(op) - t0 /\ (d.ran <=> op.start # None)
          /\ d.tgs = op.start - t0 /\ d.tge = op.end - t0
      BY <1>7, <1>8, <2>1, <2>2, <2>3
    <2>5. /\ HostTime(op) \in Time /\ IssueTime(op) \in Time /\ HostTime(op) <= IssueTime(op)
          /\ op.start # None => /\ op.start \in Time /\ op.end \in Time
                                /\ IssueTime(op) <= op.start /\ op.start < op.end
      BY <1>2, <2>2 DEF RowTimes
    <2>6. t0 <= HostTime(op)
      BY <1>5, <2>2
    <2>7. PICK h, m, s, e : h = HostTime(op) /\ m = IssueTime(op) /\ s = op.start /\ e = op.end
      OBVIOUS
    <2>8. 0 <= d.ti /\ d.ti <= d.tis
      BY <1>3, <1>5, <2>4, <2>5, <2>6, <2>7
    <2>9. CASE op.start # None
      <3>1. Till(n) = e - t0 /\ d.tgs = s - t0 /\ d.tis = m - t0
        BY <2>3, <2>4, <2>7, <2>9
      <3>2. /\ t0 \in 1 .. LastTime /\ h \in 1 .. LastTime /\ m \in 1 .. LastTime /\ s \in 1 .. LastTime
            /\ e \in 1 .. LastTime /\ t0 <= h /\ h <= m /\ m <= s /\ s < e
        BY <1>3, <1>5, <2>5, <2>6, <2>7, <2>9
      <3>3. e - t0 \in 0 .. LastTime /\ 0 <= s - t0 /\ m - t0 <= e - t0
        BY <3>2
      <3> HIDE DEF Till
      <3> QED BY <2>2, <2>3, <2>4, <2>8, <3>1, <3>3
    <2>10. CASE op.start = None
      <3>1. Till(n) = d.tis /\ d.tis = m - t0 /\ ~d.ran
        BY <2>3, <2>4, <2>7, <2>10
      <3>2. t0 \in 1 .. LastTime /\ h \in 1 .. LastTime /\ m \in 1 .. LastTime /\ t0 <= h /\ h <= m
        BY <1>3, <1>5, <2>5, <2>6, <2>7
      <3>3. m - t0 \in 0 .. LastTime /\ m - t0 <= m - t0
        BY <3>2
      <3> HIDE DEF Till
      <3> QED BY <2>2, <2>3, <2>4, <2>8, <3>1, <3>3
    <2> QED BY <2>9, <2>10
  <1>10. ASSUME NEW n \in 1 .. M PROVE Till(n) <= t_end /\ t_end \in 0 .. LastTime
    <2>1. PICK all : all = {Till(i) : i \in 1 .. M}
      OBVIOUS
    <2>2. t_end = Max(all)
      BY <1>7, <2>1
    <2>3. Till(n) \in all /\ all \in SUBSET (0 .. LastTime) /\ all # {}
      <3>1. \A i \in 1 .. M : Till(i) \in 0 .. LastTime
        BY <1>9
      <3> HIDE DEF Till
      <3> QED BY <2>1, <3>1
    <2> HIDE DEF Till
    <2> QED BY <1>3, <2>2, <2>3, MaxTaken
  <1>11. ASSUME NEW i \in 1 .. N, Timed(trace[i]) PROVE \E n \in DOMAIN ops : ops[n].op = trace[i]
    <2>1. PICK k \in 1 .. M : kept[k] = trace[i]
      BY <1>1, <1>11
    <2>2. PICK n \in 1 .. M : Rounds(kept)[n] = kept[k]
      BY <1>6
    <2> QED BY <1>7, <1>8, <2>1, <2>2
  <1>12. ASSUME NEW n \in DOMAIN ops
         PROVE  \E i \in 1 .. N :
                  /\ RowTimes(trace[i]) /\ ops[n].op = trace[i]
                  /\ ops[n].ti = HostTime(trace[i]) - t0
                  /\ 0 <= ops[n].ti /\ ops[n].ti <= ops[n].tis /\ ops[n].tis <= t_end
                  /\ ops[n].ran => 0 <= ops[n].tgs /\ ops[n].tge <= t_end
    <2>1. n \in 1 .. M
      BY <1>7
    <2>2. PICK k \in 1 .. M :
                 /\ ops[n].op = kept[k] /\ ops[n].ti = HostTime(kept[k]) - t0
                 /\ 0 <= ops[n].ti /\ ops[n].ti <= ops[n].tis /\ ops[n].tis <= Till(n)
                 /\ Till(n) \in 0 .. LastTime
                 /\ ops[n].ran => 0 <= ops[n].tgs
      BY <1>9, <2>1
    <2>3. PICK i \in 1 .. N : kept[k] = trace[i]
      BY <1>1
    <2>4. RowTimes(trace[i])
      BY <2>3, RowTimesHold
    <2>5. Till(n) <= t_end /\ t_end \in 0 .. LastTime
      BY <1>10, <2>1
    <2>6. ops[n].ran => Till(n) = ops[n].tge
      OBVIOUS
    <2>7. ops[n].tis \in Int
      <3>1. PICK j \in 1 .. M : Rounds(kept)[n] = kept[j]
        BY <1>6, <2>1
      <3>2. ops[n].tis = IssueTime(kept[j]) - t0
        BY <1>7, <1>8, <2>1, <3>1
      <3> QED BY <1>3, <1>4, <1>5, <3>2
    <2>8. ops[n].tis <= t_end
      <3> HIDE DEF Till
      <3> QED BY <2>2, <2>5, <2>7
    <2>9. ops[n].ran => ops[n].tge <= t_end
      <3> HIDE DEF Till
      <3> QED BY <2>5, <2>6
    <2> HIDE DEF Till
    <2> QED BY <2>2, <2>3, <2>4, <2>8, <2>9
  <1>13. t0 \in Int
    BY <1>3, <1>5
  <1> QED BY <1>11, <1>12, <1>13 DEF Inside

LEMMA ReplayHolds == TraceInv => ReplayFaithful
  <1> SUFFICES ASSUME TraceInv, mode # "kernels", trace # <<>>, NEW clients,
                      clients = IF mode = "seq" THEN {0} ELSE Client, NEW data,
                      data = BuildData(trace, {load[c] : c \in clients} \ {None},
                                       {barrier[c] : c \in clients})
      PROVE  /\ \A i \in DOMAIN trace : Timed(trace[i]) => \E d \in Ops(data) : d.op = trace[i]
             /\ \A d \in Ops(data) :
                   /\ d.ti >= data.line => Timed(d.op)
                   /\ 0 <= d.ti /\ d.ti <= d.tis /\ d.tis <= data.t_end
                   /\ d.ran => 0 <= d.tgs /\ d.tge <= data.t_end
    BY Zenon DEF ReplayFaithful
  <1>1. PICK N \in Nat : N # 0 /\ DOMAIN trace = 1 .. N
    <2>1. PICK R : trace \in Seq(R)
      BY DEF TraceInv
    <2> QED BY <2>1
  <1>2. PICK loads, barriers : loads = {load[c] : c \in clients} \ {None}
                               /\ barriers = {barrier[c] : c \in clients}
    OBVIOUS
  <1>3. clients \in SUBSET Client /\ 0 \in clients
    BY DEF Client
  <1>4. loads \in SUBSET Time /\ \A l \in loads, c \in Client : l <= barrier[c]
    BY <1>2, <1>3 DEF TraceInv, Times
  <1>5. PICK line \in Time : line = Max(barriers) /\ \A c \in clients : barrier[c] <= line
    <2>1. barriers \in SUBSET Time /\ barriers # {}
      BY <1>2, <1>3 DEF TraceInv
    <2>2. barriers \in SUBSET (0 .. LastTime) /\ LastTime \in Nat
      BY <2>1 DEF Time
    <2>3. Max(barriers) \in barriers /\ \A b \in barriers : b <= Max(barriers)
      BY <2>1, <2>2, MaxTaken
    <2> QED BY <1>2, <2>1, <2>3
  <1>6. PICK kept, M : kept = Trimmed(trace, loads) /\ Kept(kept, M, N)
    BY <1>1, <1>4, TrimmedKeeps
  <1>7. PICK t0 : t0 = Origin(kept)
    OBVIOUS
  <1>8. PICK ops : ops = [i \in DOMAIN kept |-> Drawn(Rounds(kept)[i], t0)]
    OBVIOUS
  <1>9. PICK t_end : t_end = Max({IF ops[i].ran THEN ops[i].tge ELSE ops[i].tis : i \in DOMAIN ops})
    OBVIOUS
  <1>10. data.ops = ops /\ data.line = line - t0 /\ data.t_end = t_end
    <2>1. data = BuildData(trace, loads, barriers)
      BY <1>2
    <2>2. BuildData(trace, loads, barriers)
            = [ops |-> ops, line |-> BarrierLine(barriers, t0), t_end |-> t_end]
      BY <1>6, <1>7, <1>8, <1>9, Zenon DEF BuildData
    <2> QED BY <1>5, <2>1, <2>2 DEF BarrierLine
  <1>11. Inside(ops, t0, t_end, N)
    BY <1>1, <1>6, <1>7, <1>8, <1>9, DrawnInside
  <1>12. Ops(data) = {ops[n] : n \in DOMAIN ops}
    BY <1>10 DEF Ops
  <1>13. ASSUME NEW n \in DOMAIN ops, ops[n].ti >= data.line PROVE Timed(ops[n].op)
    <2>1. PICK i \in 1 .. N : /\ RowTimes(trace[i]) /\ ops[n].op = trace[i]
                              /\ ops[n].ti = HostTime(trace[i]) - t0
      BY <1>11 DEF Inside
    <2>2. HostTime(trace[i]) \in Time /\ trace[i].client \in clients
      BY <2>1 DEF RowTimes
    <2>3. HostTime(trace[i]) - t0 >= line - t0
      BY <1>10, <1>13, <2>1
    <2>4. /\ HostTime(trace[i]) \in Int /\ line \in Int /\ barrier[trace[i].client] \in Int
          /\ barrier[trace[i].client] <= line
      <3>1. PICK c \in clients : c = trace[i].client
        BY <2>2
      <3>2. barrier[c] \in Time /\ barrier[c] <= line /\ line \in Time
        BY <1>3, <1>5, <3>1 DEF TraceInv
      <3>3. \A t \in Time : t \in Int
        BY DEF Time
      <3> QED BY <2>2, <3>1, <3>2, <3>3
    <2>5. HostTime(trace[i]) >= barrier[trace[i].client]
      BY <1>11, <2>3, <2>4 DEF Inside
    <2> QED BY <2>1, <2>5 DEF Timed
  <1>14. \A i \in DOMAIN trace : Timed(trace[i]) => \E d \in Ops(data) : d.op = trace[i]
    BY <1>1, <1>11, <1>12 DEF Inside
  <1>15. \A d \in Ops(data) :
            /\ d.ti >= data.line => Timed(d.op)
            /\ 0 <= d.ti /\ d.ti <= d.tis /\ d.tis <= data.t_end
            /\ d.ran => 0 <= d.tgs /\ d.tge <= data.t_end
    BY <1>10, <1>11, <1>12, <1>13 DEF Inside
  <1> QED BY <1>14, <1>15

\* The replay of every trace has all of the timed section, shows nothing
\* else right of the barrier line, and draws nothing outside its time line.
THEOREM ReplayShowsTheExperiment == Spec => []ReplayFaithful
  <1> QED BY InitTrace, NextTrace, ReplayHolds, PTL DEF Spec
=============================================================================
