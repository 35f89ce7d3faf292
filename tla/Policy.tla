------------------------------- MODULE Policy -------------------------------
(***************************************************************************)
(* sched/policy.h: which of the peeked heads to run next.  A policy sees   *)
(* only what the scheduler hands it: `seen`, the clients whose head it     *)
(* peeked, the heads' kinds and interception stamps, and the in-flight     *)
(* counts of SchedState.  Candidates is what each policy's loop does not   *)
(* skip; Chosen is the head its strict comparison keeps.                   *)
(***************************************************************************)
EXTENDS Records

\* ThrottledFcfsPolicy::adds_stream_work
AddsStreamWork(kind) ==
    kind \in {"KernelLaunch", "Memcpy", "MemcpyAsync", "Memset", "MemsetAsync",
              "CublasGemmEx", "CublasSgemm"}

\* Mutant: `>` for `>=`.
HeldAbove(kind, in_flight, threshold) ==
    AddsStreamWork(kind) /\ in_flight > threshold

\* The `continue` of ThrottledFcfsPolicy::pick_next.
Held(kind, in_flight, threshold) ==
    AddsStreamWork(kind) /\ in_flight >= threshold

Candidates(policy, seen, kind, in_flight, threshold) ==
    IF policy = "throttle"
    THEN {i \in seen : ~Held(kind[i], in_flight[i], threshold)}
    ELSE seen

\* Mutant: the latest stamp wins.
ChosenLatest(i, candidates, t) ==
    /\ i \in candidates
    /\ \A j \in candidates : t[i] > t[j] \/ (t[i] = t[j] /\ i <= j)

\* Earliest stamp; the strict `<` leaves equal stamps to the lowest client.
Chosen(i, candidates, t) ==
    /\ i \in candidates
    /\ \A j \in candidates : t[i] < t[j] \/ (t[i] = t[j] /\ i <= j)
=============================================================================
