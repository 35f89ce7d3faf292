------------------------------- MODULE Replay -------------------------------
(***************************************************************************)
(* export.py's build_data: what the replay page draws of a trace.  A row   *)
(* may lack a time (None): observer-only traces have no interception and   *)
(* perhaps no launch, a failed copy has no GPU record.                     *)
(***************************************************************************)
EXTENDS Order, FiniteSetsExt

None == 0   \* Python's None: like it, false in `a or b`

Or(time, other) == IF time # None THEN time ELSE other

\* host_ts: the earliest host time, falling back to the GPU start.
HostTime(op) == Or(op.intercept, Or(op.issue, op.start))
IssueTime(op) == Or(op.issue, op.start)

\* Everything before the last load_done mark goes, unless that is everything.
Behind(trace, cut) ==
    {i \in DOMAIN trace : Or(trace[i].start, Or(trace[i].issue, trace[i].intercept)) >= cut}

Trimmed(trace, loads) ==
    IF loads = {} \/ Behind(trace, Max(loads)) = {} THEN trace
    ELSE At(trace, Behind(trace, Max(loads)))

Origin(trace) == Min({HostTime(trace[i]) : i \in DOMAIN trace})

\* Rounds: the rows in issue order; rows of one time stay as they were.
Rounds(trace) ==
    LET first(i, j) == \/ IssueTime(trace[i]) < IssueTime(trace[j])
                       \/ IssueTime(trace[i]) = IssueTime(trace[j]) /\ i < j
    IN  Arranged(trace, {p \in (DOMAIN trace) \X (DOMAIN trace) : first(p[1], p[2])})

Drawn(op, t0) ==
    [op |-> op, ti |-> HostTime(op) - t0, tis |-> IssueTime(op) - t0,
     ran |-> op.start # None, tgs |-> op.start - t0, tge |-> op.end - t0]

\* Mutant: the moment the first client crossed.
BarrierLineFirst(barriers, t0) == Min(barriers) - t0

\* The moment both clients had crossed the start barrier.
BarrierLine(barriers, t0) == Max(barriers) - t0

BuildData(trace, loads, barriers) ==
    LET kept == Trimmed(trace, loads)
        t0 == Origin(kept)
        ops == [i \in DOMAIN kept |-> Drawn(Rounds(kept)[i], t0)]
    IN  [ops |-> ops,
         line |-> BarrierLine(barriers, t0),
         t_end |-> Max({IF ops[i].ran THEN ops[i].tge ELSE ops[i].tis : i \in DOMAIN ops})]
=============================================================================
