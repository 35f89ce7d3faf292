------------------------------ MODULE Figures -------------------------------
(***************************************************************************)
(* A finished trace as a reader meets it: the figures analyze.py prints    *)
(* (Intervals) and the replay (Replay).  The traces are those a run of     *)
(* client_body can leave: each client's rows lie before or behind its      *)
(* load_done mark and its barrier, which are crossed with an empty         *)
(* pipeline (Demo!TimedTogether), and the clocks agree.                    *)
(***************************************************************************)
EXTENDS Intervals, Replay, FiniteSets, TLC

CONSTANTS
    LastTime,   \* times are 1 .. LastTime
    MaxKernels, \* bound: rows of a trace whose GPU intervals only matter
    MaxOps      \* bound: rows of a trace with host times and marks

ASSUME BoundsAssumption == {LastTime, MaxKernels, MaxOps} \subseteq Nat

Client == {0, 1}
Time == 1 .. LastTime

VARIABLES
    trace,  \* its rows so far
    mode,   \* "kernels" (intervals only), "colocated" or "seq"
    load,   \* per client, its load_done mark, if any
    barrier \* per client, when it had crossed the barrier
vars == <<trace, mode, load, barrier>>

Clear(op, mark) == op.end <= mark \/ HostTime(op) >= mark

Timed(op) == HostTime(op) >= barrier[op.client]

\* build_colocated_trace sorts by t_issue, build_seq_trace by GPU start.
InOrder(op) ==
    trace # <<>> => IF mode = "seq" THEN Last(trace).start <= op.start
                                    ELSE Last(trace).issue <= op.issue

Add(op) == trace' = Append(trace, op) /\ UNCHANGED <<mode, load, barrier>>

Row(c, intercept, issue, start, end) ==
    [client |-> c, intercept |-> intercept, issue |-> issue, start |-> start, end |-> end]

\* A kernel in whatever order, its host times left out.
Kernel(c, start, end) ==
    /\ mode = "kernels" /\ Len(trace) < MaxKernels /\ start <= end
    /\ Add(Row(c, None, None, start, end))

Op(op) ==
    /\ Len(trace) < MaxOps
    /\ InOrder(op) /\ Clear(op, barrier[op.client])
    /\ load[op.client] # None => Clear(op, load[op.client])
    /\ Add(op)

Intercepted(c, intercept, issue, start, end) ==
    /\ mode = "colocated"
    /\ intercept <= issue /\ issue <= start /\ start < end
    /\ Op(Row(c, intercept, issue, start, end))

\* Logged, but never on the GPU.
Failed(c, intercept, issue) ==
    /\ mode = "colocated" /\ intercept <= issue
    /\ Op(Row(c, intercept, issue, None, None))

\* A launch through the driver API has no host time.
Observed(issue, start, end) ==
    /\ mode = "seq" /\ issue <= start /\ start < end
    /\ Op(Row(0, None, issue, start, end))

Init ==
    /\ trace = <<>> /\ mode \in {"kernels", "colocated", "seq"}
    /\ barrier \in [Client -> Time] /\ load \in [Client -> Time \cup {None}]
    /\ \A c, d \in Client : load[c] <= barrier[d]
    /\ mode = "kernels" => barrier = [c \in Client |-> 1] /\ load = [c \in Client |-> None]
    /\ mode = "seq" => barrier[1] = barrier[0] /\ load[1] = None

Next ==
    \E start, end \in Time :
       \/ \E c \in Client : Kernel(c, start, end)
       \/ \E issue \in Time \cup {None} : Observed(issue, start, end)
       \/ \E c \in Client, intercept, issue \in Time :
             Intercepted(c, intercept, issue, start, end) \/ Failed(c, intercept, issue)

Spec == Init /\ [][Next]_vars

(***************************************************************************)
(* Properties                                                              *)
(***************************************************************************)
RowsOf(c) == At(trace, {i \in DOMAIN trace : trace[i].client = c})

\* The nanoseconds [t, t + 1) in which one of the rows is on the GPU.
Nanoseconds(rows) == {t \in Time : \E i \in DOMAIN rows : rows[i].start <= t /\ t < rows[i].end}

\* The figures are times of the GPU: the overlap is what both clients had a
\* kernel running, the union (the percentage's denominator) what either had,
\* every nanosecond once, with nested, touching, equal and empty intervals.
ConcurrencyExact ==
    mode = "kernels" /\ RowsOf(0) # <<>> /\ RowsOf(1) # <<>> =>
       LET figures == Concurrency(RowsOf(0), RowsOf(1))
           gpu(c) == Nanoseconds(RowsOf(c))
       IN  /\ figures.overlap = Cardinality(gpu(0) \cap gpu(1))
           /\ figures.union = Cardinality(gpu(0) \cup gpu(1))
           /\ figures.union <= figures.span

Ops(data) == {data.ops[i] : i \in DOMAIN data.ops}

\* The replay shows the experiment: trimming at load_done drops no row of a
\* timed section, what is right of the barrier line is "the timed
\* experiment", and nothing is drawn outside the time line.
ReplayFaithful ==
    mode # "kernels" /\ trace # <<>> =>
       LET clients == IF mode = "seq" THEN {0} ELSE Client
           data == BuildData(trace, {load[c] : c \in clients} \ {None}, {barrier[c] : c \in clients})
       IN  /\ \A i \in DOMAIN trace : Timed(trace[i]) => \E d \in Ops(data) : d.op = trace[i]
           /\ \A d \in Ops(data) :
                 /\ d.ti >= data.line => Timed(d.op)
                 /\ 0 <= d.ti /\ d.ti <= d.tis /\ d.tis <= data.t_end
                 /\ d.ran => 0 <= d.tgs /\ d.tge <= data.t_end
=============================================================================
