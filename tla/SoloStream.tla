----------------------------- MODULE SoloStream -----------------------------
(***************************************************************************)
(* What the colocator promises a client: it runs as if alone, on an        *)
(* in-order stream of its own.  Its calls take effect one at a time, in    *)
(* program order, between their invocation and their return; a stream      *)
(* operation that succeeds is on the stream when the call returns; a       *)
(* synchronising call that succeeds returns only when the stream is empty. *)
(* No step of one client touches another's state.                          *)
(***************************************************************************)
EXTENDS Records, Sequences

CONSTANTS Client, Kinds

VARIABLES
    calls,     \* calls[c]: how many calls c has made
    phase,     \* where c's call is: idle, called, effected, answered
    kind,      \* the call's kind, "none" when idle
    result,    \* the call's answer, "none" until answered
    stream,    \* the operations on c's stream, by call number
    finished   \* how many of them the GPU has finished

vars == <<calls, phase, kind, result, stream, finished>>

Enqueues == {"KernelLaunch", "Memcpy", "MemcpyAsync", "Memset", "MemsetAsync",
             "CublasGemmEx", "CublasSgemm"}
Drains == {"Memcpy", "Memset", "StreamSync", "Free"}

OnStream(c) == stream[c] # <<>> /\ stream[c][Len(stream[c])] = calls[c] - 1

Call(c) ==
    /\ phase[c] = "idle"
    /\ \E k \in Kinds : kind' = [kind EXCEPT ![c] = k]
    /\ calls' = [calls EXCEPT ![c] = @ + 1]
    /\ phase' = [phase EXCEPT ![c] = "called"]
    /\ UNCHANGED <<result, stream, finished>>

\* The one moment the call acts on the stream, if it does.
TakeEffect(c) ==
    /\ phase[c] = "called"
    /\ phase' = [phase EXCEPT ![c] = "effected"]
    /\ \/ UNCHANGED stream
       \/ /\ kind[c] \in Enqueues
          /\ stream' = [stream EXCEPT ![c] = Append(@, calls[c] - 1)]
    /\ UNCHANGED <<calls, kind, result, finished>>

Answer(c) ==
    /\ phase[c] = "effected"
    /\ \E r \in {"success", "error"} :
         /\ r = "success" /\ kind[c] \in Enqueues => OnStream(c)
         /\ r = "success" /\ kind[c] \in Drains => finished[c] = Len(stream[c])
         /\ r = "error" /\ kind[c] \in Enqueues \ Drains => ~OnStream(c)
         /\ result' = [result EXCEPT ![c] = r]
    /\ phase' = [phase EXCEPT ![c] = "answered"]
    /\ UNCHANGED <<calls, kind, stream, finished>>

Return(c) ==
    /\ phase[c] = "answered"
    /\ phase' = [phase EXCEPT ![c] = "idle"]
    /\ kind' = [kind EXCEPT ![c] = "none"]
    /\ result' = [result EXCEPT ![c] = "none"]
    /\ UNCHANGED <<calls, stream, finished>>

Finish(c) ==
    /\ finished[c] < Len(stream[c])
    /\ finished' = [finished EXCEPT ![c] = @ + 1]
    /\ UNCHANGED <<calls, phase, kind, result, stream>>

Init ==
    /\ calls = [c \in Client |-> 0]
    /\ phase = [c \in Client |-> "idle"]
    /\ kind = [c \in Client |-> "none"]
    /\ result = [c \in Client |-> "none"]
    /\ stream = [c \in Client |-> <<>>]
    /\ finished = [c \in Client |-> 0]

Next == \E c \in Client : Call(c) \/ TakeEffect(c) \/ Answer(c) \/ Return(c) \/ Finish(c)

Spec == Init /\ [][Next]_vars
============================================================================
