--------------------------- MODULE InOrderStream ----------------------------
(***************************************************************************)
(* What module Colocator assumes of a client's stream: the operations on   *)
(* it run one at a time, in the order they were enqueued.                  *)
(***************************************************************************)
EXTENDS Integers, Sequences, FiniteSets

VARIABLES
    enqueued,   \* how many operations have been enqueued, numbered from 1
    executing,  \* the operations the GPU is executing
    completed   \* the operations it has completed, in the order it did

vars == <<enqueued, executing, completed>>

\* One replayed record puts at most one operation on the stream.
Enqueue ==
    /\ enqueued' = enqueued + 1
    /\ UNCHANGED <<executing, completed>>

Start ==
    /\ executing = {}
    /\ Len(completed) < enqueued
    /\ executing' = {Len(completed) + 1}
    /\ UNCHANGED <<enqueued, completed>>

Complete ==
    /\ \E op \in executing : completed' = Append(completed, op)
    /\ executing' = {}
    /\ UNCHANGED enqueued

Init == enqueued = 0 /\ executing = {} /\ completed = <<>>
Next == Enqueue \/ Start \/ Complete
Spec == Init /\ [][Next]_vars
=============================================================================
