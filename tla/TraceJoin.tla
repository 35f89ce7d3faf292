----------------------------- MODULE TraceJoin ------------------------------
(***************************************************************************)
(* analyze.py: the issue log joined to the observer's dump.  Kernels are   *)
(* matched in correlation order, copies by rank among the scheduler's      *)
(* RUNTIME records; a join that does not come out even raises.             *)
(***************************************************************************)
EXTENDS Observer, Order, FiniteSetsExt

KernelKinds == {"cudaLaunchKernel", "cublasGemmEx"}

\* sorted(..., key=correlation); no two records of a kind share an id.
ByCorrelation(records) ==
    LET ids == Sorted({r.corr : r \in records})
    IN  [n \in DOMAIN ids |-> CHOOSE r \in records : r.corr = ids[n]]

\* RUNTIME records are kept for two API calls only; a cuBLAS call's launches
\* are cudaLaunchKernel calls inside it.
Launches == {r \in runtime : r.kind # "cudaMemcpyAsync"}

\* Kernels whose launch record carries another thread's id.
Foreign(k) == \E r \in Launches : r.corr = k.corr /\ r.tid # "sched"

\* Mutant: the order in which the GPU completed them.
SchedKernelsByCompletion ==
    SetToSortSeq({k \in Kernels(dump) : ~Foreign(k)}, LAMBDA a, b : a.end < b.end)

SchedKernels == ByCorrelation({k \in Kernels(dump) : ~Foreign(k)})

\* Mutant: rows of failed calls are left out.
RowsOfSucceeded(kinds) ==
    SelectSeq([i \in DOMAIN issue |-> [row |-> i, kind |-> issue[i].kind]],
              LAMBDA op : op.kind \in kinds /\ issue[op.row].ok)

RowsOf(kinds) ==
    LET found == Sorted({i \in DOMAIN issue : issue[i].kind \in kinds})
    IN  [n \in DOMAIN found |-> [row |-> found[n], kind |-> issue[found[n]].kind]]

\* How many kernels a row takes at position ki: one, and after a cuBLAS
\* call the partner kernels that follow.
Takes(op, kern, ki) ==
    IF op.kind = "cudaLaunchKernel" THEN 1
    ELSE Min({j \in 1 .. Len(kern) - ki + 1 :
                ki + j > Len(kern) \/ ~kern[ki + j].partner})

\* assign_kernels, one row; `join` is where it stands.
Assign(join, op, kern) ==
    IF join.raised \/ join.ki > Len(kern) \/ kern[join.ki].partner
    THEN [join EXCEPT !.raised = TRUE]
    ELSE LET take == Takes(op, kern, join.ki)
         IN  [raised |-> FALSE, ki |-> join.ki + take,
              out |-> Append(join.out, {kern[i].corr : i \in join.ki .. join.ki + take - 1})]

\* assign_kernels: per row, the correlation ids of its kernels.
KernelJoin ==
    LET join == FoldLeft(LAMBDA acc, op : Assign(acc, op, SchedKernels),
                         [raised |-> FALSE, ki |-> 1, out |-> <<>>], RowsOf(KernelKinds))
    IN  [join EXCEPT !.raised = @ \/ join.ki # Len(SchedKernels) + 1]

\* The copies: k-th row, k-th cudaMemcpyAsync record of the scheduler.
MemcpyJoin ==
    LET api == ByCorrelation({r \in runtime \ Launches : r.tid = "sched"})
    IN  [raised |-> Len(api) # Len(RowsOf({"cudaMemcpyAsync"})),
         out |-> [i \in DOMAIN api |->
                    {r.corr : r \in {x \in dump : x.what = "memcpy" /\ x.corr = api[i].corr}}]]

\* Mutant: without the mode's window.
LeakedEver == {k \in Kernels(dump) : \E r \in Launches : r.corr = k.corr /\ r.tid = "client"}

\* Kernels that started in the mode's window, launched by a client's thread.
Leaked == {k \in Kernels(dump) :
             k.window /\ \E r \in Launches : r.corr = k.corr /\ r.tid = "client"}

\* self_check over the joined trace: a row without a record of the GPU, a
\* client's kernels out of issue order, a leak.  Its clock checks are left out.
SelfCheckFails ==
    \/ \E i \in DOMAIN MemcpyJoin.out : MemcpyJoin.out[i] = {}
    \/ LET ops == RowsOf(KernelKinds)
           ends(i) == {k.end : k \in {x \in dump : x.corr \in KernelJoin.out[i]}}
       IN  \E i, j \in DOMAIN ops :
             /\ i < j /\ issue[ops[i].row].stream = issue[ops[j].row].stream
             /\ Min(ends(i)) > Min(ends(j))
    \/ Leaked # {}

(***************************************************************************)
(* Properties                                                              *)
(***************************************************************************)
\* What really happened: the kernels (copies) a row put on the GPU.
Caused(what, row) == {r.corr : r \in {x \in dump : x.what = what /\ x.row = row}}

Exact(join, what, kinds) ==
    LET ops == RowsOf(kinds)
    IN  /\ Len(join.out) = Len(ops)
        /\ \A i \in DOMAIN ops : join.out[i] = Caused(what, ops[i].row)

\* The order join gives every row exactly the kernels it caused, whatever
\* the order in which the GPU completed and CUPTI delivered them, and it
\* raises only when a replayed launch had failed.
KernelJoinExact ==
    phase = "dumped" =>
       IF KernelJoin.raised
       THEN \E i \in DOMAIN issue : issue[i].kind \in KernelKinds /\ ~issue[i].ok
       ELSE Exact(KernelJoin, "kernel", KernelKinds)

\* The copies' join never raises and is exact, failed copies (which have a
\* record of the call and none of the GPU) included.
MemcpyJoinExact ==
    phase = "dumped" =>
       ~MemcpyJoin.raised /\ Exact(MemcpyJoin, "memcpy", {"cudaMemcpyAsync"})

\* The self-check says what happened: of a trace that could be joined it
\* fails exactly when a logged copy had failed or a client of this run had
\* launched a kernel past the colocator, whatever ran in earlier modes.
SelfCheckSound ==
    phase = "dumped" /\ ~KernelJoin.raised /\ ~MemcpyJoin.raised =>
       (SelfCheckFails <=> \/ \E i \in DOMAIN issue : ~issue[i].ok
                           \/ \E k \in dump : k.from = "client" /\ k.window)

\* "each mode's records are isolated": kernels of an earlier mode never end
\* up in the colocated trace, nor spoil it.
EarlierModesIsolated ==
    phase = "dumped" /\ (\A i \in DOMAIN issue : issue[i].ok) =>
       ~KernelJoin.raised /\ Exact(KernelJoin, "kernel", KernelKinds)
=============================================================================
