------------------------------ MODULE FcfsOrder ------------------------------
(***************************************************************************)
(* How far the replay order strays from interception order under FCFS.     *)
(* A history variable is added to Colocator: overtaken[c] counts, while c  *)
(* is blocked on a record it has pushed, the records of other clients      *)
(* with a later stamp that the scheduler picked first (saturating at 2).   *)
(***************************************************************************)
EXTENDS Colocator

VARIABLE overtaken

\* Picking d's head overtakes c: c's record sits in its queue, unserved, with
\* an earlier stamp.
Overtakes(d, c) ==
    /\ cpc[c] = "spinning"
    /\ rec[c].state = QUEUED
    /\ pending_sync[c] = Null
    /\ rec[c].t < rec[d].t

ObserveOvertaking ==
    overtaken' =
      [c \in Client |->
         CASE cpc'[c] # "spinning" -> 0
           [] spc = "pick" /\ pick' # Null /\ Overtakes(pick', c) ->
                IF overtaken[c] < 2 THEN overtaken[c] + 1 ELSE 2
           [] OTHER -> overtaken[c]]

FcfsInit == Init /\ overtaken = [c \in Client |-> 0]
FcfsNext == Next /\ ObserveOvertaking
FcfsSpec == FcfsInit /\ [][FcfsNext]_<<vars, overtaken>>

\* Peeking one queue at a time lets a later-stamped record of a client peeked
\* later be seen while an earlier one, pushed just after its own queue was
\* peeked, is not.  At most one such record: the next snapshot sees both.
OvertakenAtMostOnce == \A c \in Client : overtaken[c] <= 1
==============================================================================
