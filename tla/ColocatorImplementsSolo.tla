---------------------- MODULE ColocatorImplementsSolo ----------------------
(***************************************************************************)
(* Colocator implements SoloStream: the queue, the shared scheduler        *)
(* thread, the policy and the parking of sync records are invisible to     *)
(* each client.                                                            *)
(***************************************************************************)
EXTENDS ColocatorInductive

\* A call has taken effect once the real call was made: its record is past
\* execute's switch, parked, or released.
Effected(c) ==
    \/ rec[c].state # QUEUED
    \/ pending_sync[c] # Null
    \/ spc \in {"event", "store"} /\ pick = c

PhaseOf(c) ==
    IF ~InCall(c) THEN "idle"
    ELSE IF rec[c].state # QUEUED THEN "answered"
    ELSE IF Effected(c) THEN "effected" ELSE "called"

Solo == INSTANCE SoloStream WITH
    calls <- submitted,
    phase <- [c \in Client |-> PhaseOf(c)],
    kind <- [c \in Client |-> rec[c].kind],
    result <- [c \in Client |-> IF PhaseOf(c) = "answered" THEN rec[c].ret ELSE "none"]

\* Every behaviour of the colocator, seen from its clients, is one of private
\* in-order streams.
ImplementsSolo == Solo!Spec
============================================================================
