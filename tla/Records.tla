------------------------------ MODULE Records ------------------------------
(***************************************************************************)
(* The vocabulary both libraries share (common/records.h) and the part of  *)
(* it that only the call sites fix: the state each interposer of           *)
(* intercept.cpp waits for.  Argument payloads (pointers, grids, byte      *)
(* counts, GEMM shapes) are abstracted away: nothing here depends on them. *)
(***************************************************************************)
EXTENDS Integers

\* Interposers that pass REC_ISSUED to submit_and_wait.
AsyncKinds == {"KernelLaunch", "MemcpyAsync", "MemsetAsync", "EventRecord",
               "CublasGemmEx", "CublasSgemm"}

\* Interposers that pass REC_DONE to submit_and_wait.
SyncKinds == {"Malloc", "Free", "Memcpy", "Memset", "StreamSync"}

\* OpKind without KernelLaunchExC, which is counted and forwarded, never queued.
OpKind == AsyncKinds \cup SyncKinds

\* RecordState
QUEUED == 0
ISSUED == 1
DONE   == 2

\* The third argument of submit_and_wait, by interposer.
WaitState(kind) == IF kind \in AsyncKinds THEN ISSUED ELSE DONE

\* nullptr: an empty queue's head, no parked record, no pick.
Null == -1

kMaxClients == 8

\* The stack frame of a client that is in no intercepted call.
NoCall == [op_id |-> Null, kind |-> "none", t |-> 0, state |-> QUEUED,
           ret |-> "success"]

\* A FuncRecord as submit_and_wait initialises it.
FuncRecord(id, kind, t) ==
    [op_id |-> id, kind |-> kind, t |-> t, state |-> QUEUED, ret |-> "success"]
============================================================================
