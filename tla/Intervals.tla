----------------------------- MODULE Intervals ------------------------------
(***************************************************************************)
(* analyze.py's GPU-concurrency figures over rows of the joined trace:     *)
(* busy_intervals merges a client's kernel intervals, overlap_ns walks two *)
(* merged lists with two pointers, metrics_colocated puts them together.   *)
(***************************************************************************)
EXTENDS Order, SequencesExt, FiniteSetsExt

\* Mutant: the last interval's end is replaced although it may be later.
MergeReplacing(merged, iv) ==
    IF merged # <<>> /\ iv.start <= Last(merged).end
    THEN [merged EXCEPT ![Len(merged)].end = iv.end]
    ELSE Append(merged, iv)

\* One turn of busy_intervals' loop.
Merge(merged, iv) ==
    IF merged # <<>> /\ iv.start <= Last(merged).end
    THEN [merged EXCEPT ![Len(merged)].end = IF iv.end > @ THEN iv.end ELSE @]
    ELSE Append(merged, iv)

\* sorted(zip(start, end)): pairs compare by start, then by end.
ByStart(rows) ==
    LET first(i, j) == \/ rows[i].start < rows[j].start
                       \/ rows[i].start = rows[j].start /\ rows[i].end < rows[j].end
                       \/ rows[i].start = rows[j].start /\ rows[i].end = rows[j].end /\ i < j
    IN  Arranged(rows, {p \in (DOMAIN rows) \X (DOMAIN rows) : first(p[1], p[2])})

Merged(rows) == FoldLeft(Merge, <<>>, ByStart(rows))

Length(iv) == iv.end - iv.start

Busy(rows) == FoldLeft(LAMBDA sum, iv : sum + Length(iv), 0, Merged(rows))

Common(x, y) == [start |-> Max({x.start, y.start}), end |-> Min({x.end, y.end})]

\* Which of overlap_ns's pointers moves on.
MovesFirst(x, y) == x.end < y.end

\* overlap_ns: what the loop still adds from positions i and j.
Overlap(a, b) ==
    LET from[at \in (1 .. Len(a) + 1) \X (1 .. Len(b) + 1)] ==
          LET i == at[1]
              j == at[2]
              both == Common(a[i], b[j])
          IN  IF i > Len(a) \/ j > Len(b) THEN 0
              ELSE (IF both.start < both.end THEN Length(both) ELSE 0)
                     + from[IF MovesFirst(a[i], b[j]) THEN <<i + 1, j>> ELSE <<i, j + 1>>]
    IN  from[<<1, 1>>]

\* metrics_colocated's figures for the kernel rows of clients 0 and 1.
Concurrency(kern0, kern1) ==
    LET ov == Overlap(Merged(kern0), Merged(kern1))
        rows == ToSet(kern0 \o kern1)
    IN  [overlap |-> ov,
         union |-> Busy(kern0) + Busy(kern1) - ov,
         span |-> Max({r.end : r \in rows}) - Min({r.start : r \in rows})]
=============================================================================
