------------------------------ MODULE Registry ------------------------------
(***************************************************************************)
(* Who is calling?  Every interposer of intercept.cpp asks client_idx()    *)
(* whether the calling thread is a client; the others are passed through   *)
(* and counted in a table of per-thread slots.  Threads register and look  *)
(* each other up with atomics only: one action per atomic access.          *)
(***************************************************************************)
EXTENDS Records

CONSTANTS
    Threads,      \* thread ids (Linux TIDs, all nonzero)
    Index,        \* Index[t]: the slot t registers, -1 if it is no client
    NumSlots,     \* kMaxThreads: slots of the statistics table
    MaxCalls      \* bound: intercepted calls per thread

ASSUME ThreadsAssumption == Threads \subseteq Nat \ {0}
ASSUME SlotsAssumption == NumSlots \in Nat /\ MaxCalls \in Nat
ASSUME IndexAssumption ==
    /\ Index \in [Threads -> -1 .. kMaxClients - 1]
    /\ \A t, u \in Threads : Index[t] = Index[u] /\ Index[t] >= 0 => t = u

NoThread == 0

ClientSlots == 0 .. kMaxClients - 1
StatSlots == 0 .. NumSlots - 1

VARIABLES
    tid,          \* ClientSlot.tid, per client slot
    num,          \* g_col_num_clients
    stat_tid,     \* ThreadStats.tid, per slot of the statistics table
    counts,       \* ThreadStats.counts, summed over the kinds
    dropped,      \* g_dropped
    pc,           \* where each thread is
    n,            \* its local copy of num
    at,           \* its loop variable
    registered,   \* has its col_register_client returned?
    made          \* intercepted calls it has started

vars == <<tid, num, stat_tid, counts, dropped, pc, n, at, registered, made>>

Goto(t, where) == pc' = [pc EXCEPT ![t] = where]

(***************************************************************************)
(* col_register_client                                                     *)
(***************************************************************************)
StoreTid(t) ==
    /\ pc[t] = "idle" /\ Index[t] >= 0 /\ ~registered[t]
    /\ tid' = [tid EXCEPT ![Index[t]] = t]
    /\ Goto(t, "load")
    /\ UNCHANGED <<num, stat_tid, counts, dropped, n, at, registered, made>>

LoadNum(t) ==
    /\ pc[t] = "load"
    /\ n' = [n EXCEPT ![t] = num]
    /\ Goto(t, "raise")
    /\ UNCHANGED <<tid, num, stat_tid, counts, dropped, at, registered, made>>

\* Mutant: a plain store for the compare-exchange.
RaiseNumPlain(t) ==
    /\ pc[t] = "raise"
    /\ num' = Index[t] + 1
    /\ registered' = [registered EXCEPT ![t] = TRUE]
    /\ Goto(t, "idle")
    /\ UNCHANGED <<tid, stat_tid, counts, dropped, n, at, made>>

\* One turn of the compare-exchange loop; a failed exchange reloads n.
RaiseNum(t) ==
    /\ pc[t] = "raise"
    /\ \/ /\ n[t] > Index[t] \/ n[t] = num
          /\ num' = IF n[t] > Index[t] THEN num ELSE Index[t] + 1
          /\ registered' = [registered EXCEPT ![t] = TRUE]
          /\ Goto(t, "idle")
          /\ UNCHANGED n
       \/ /\ n[t] <= Index[t]       \* weak: may also fail spuriously
          /\ n' = [n EXCEPT ![t] = num]
          /\ UNCHANGED <<num, registered, pc>>
    /\ UNCHANGED <<tid, stat_tid, counts, dropped, at, made>>

(***************************************************************************)
(* An intercepted call: client_idx, then submit_and_wait or note           *)
(***************************************************************************)
Intercept(t) ==
    /\ pc[t] = "idle"
    /\ made[t] < MaxCalls
    /\ made' = [made EXCEPT ![t] = @ + 1]
    /\ n' = [n EXCEPT ![t] = num]
    /\ at' = [at EXCEPT ![t] = 0]
    /\ Goto(t, "lookup")
    /\ UNCHANGED <<tid, num, stat_tid, counts, dropped, registered>>

Lookup(t) ==
    /\ pc[t] = "lookup"
    /\ IF at[t] >= n[t]
       THEN at' = [at EXCEPT ![t] = 0] /\ Goto(t, "scan")
       ELSE IF tid[at[t]] = t
            THEN Goto(t, "managed") /\ UNCHANGED at
            ELSE at' = [at EXCEPT ![t] = @ + 1] /\ UNCHANGED pc
    /\ UNCHANGED <<tid, num, stat_tid, counts, dropped, n, registered, made>>

\* submit_and_wait on slot at[t]: the whole call (module Colocator).
Managed(t) ==
    /\ pc[t] = "managed"
    /\ Goto(t, "idle")
    /\ UNCHANGED <<tid, num, stat_tid, counts, dropped, n, at, registered, made>>

\* stats_slot, one slot: mine, free, another's, or none left.
Scan(t) ==
    /\ pc[t] = "scan"
    /\ CASE at[t] = NumSlots -> /\ dropped' = dropped + 1
                                /\ Goto(t, "idle") /\ UNCHANGED at
         [] at[t] < NumSlots /\ stat_tid[at[t]] = t -> Goto(t, "count") /\ UNCHANGED <<at, dropped>>
         [] at[t] < NumSlots /\ stat_tid[at[t]] = NoThread -> Goto(t, "claim") /\ UNCHANGED <<at, dropped>>
         [] OTHER -> at' = [at EXCEPT ![t] = @ + 1] /\ UNCHANGED <<pc, dropped>>
    /\ UNCHANGED <<tid, num, stat_tid, counts, n, registered, made>>

\* Mutant: a plain store for the compare-exchange.
ClaimPlain(t) ==
    /\ pc[t] = "claim"
    /\ stat_tid' = [stat_tid EXCEPT ![at[t]] = t]
    /\ Goto(t, "count")
    /\ UNCHANGED <<tid, num, counts, dropped, n, at, registered, made>>

\* Mutant: a thread that loses the exchange gives up instead of scanning on.
ClaimOnce(t) ==
    /\ pc[t] = "claim"
    /\ IF stat_tid[at[t]] = NoThread
       THEN /\ stat_tid' = [stat_tid EXCEPT ![at[t]] = t]
            /\ Goto(t, "count") /\ UNCHANGED <<at, dropped>>
       ELSE /\ dropped' = dropped + 1
            /\ Goto(t, "idle") /\ UNCHANGED <<at, stat_tid>>
    /\ UNCHANGED <<tid, num, counts, n, registered, made>>

\* compare_exchange_strong on a slot seen free; the loser scans on.
Claim(t) ==
    /\ pc[t] = "claim"
    /\ IF stat_tid[at[t]] = NoThread
       THEN /\ stat_tid' = [stat_tid EXCEPT ![at[t]] = t]
            /\ Goto(t, "count") /\ UNCHANGED at
       ELSE /\ at' = [at EXCEPT ![t] = @ + 1]
            /\ Goto(t, "scan") /\ UNCHANGED stat_tid
    /\ UNCHANGED <<tid, num, counts, dropped, n, registered, made>>

Count(t) ==
    /\ pc[t] = "count"
    /\ counts' = [counts EXCEPT ![at[t]] = @ + 1]
    /\ Goto(t, "idle")
    /\ UNCHANGED <<tid, num, stat_tid, dropped, n, at, registered, made>>

Init ==
    /\ tid = [i \in ClientSlots |-> NoThread]
    /\ num = 0
    /\ stat_tid = [i \in StatSlots |-> NoThread]
    /\ counts = [i \in StatSlots |-> 0]
    /\ dropped = 0
    /\ pc = [t \in Threads |-> "idle"]
    /\ n = [t \in Threads |-> 0]
    /\ at = [t \in Threads |-> 0]
    /\ registered = [t \in Threads |-> FALSE]
    /\ made = [t \in Threads |-> 0]

Next ==
    \E t \in Threads :
       \/ StoreTid(t) \/ LoadNum(t) \/ RaiseNum(t)
       \/ Intercept(t) \/ Lookup(t) \/ Managed(t)
       \/ Scan(t) \/ Claim(t) \/ Count(t)

Spec == Init /\ [][Next]_vars

(***************************************************************************)
(* Properties                                                              *)
(***************************************************************************)
TypeOK ==
    /\ tid \in [ClientSlots -> Threads \cup {NoThread}]
    /\ num \in 0 .. kMaxClients
    /\ stat_tid \in [StatSlots -> Threads \cup {NoThread}]
    /\ counts \in [StatSlots -> Nat]
    /\ dropped \in Nat
    /\ pc \in [Threads -> {"idle", "load", "raise", "lookup", "managed", "scan",
                           "claim", "count"}]
    /\ n \in [Threads -> 0 .. kMaxClients] /\ at \in [Threads -> Nat]
    /\ \A t \in Threads : pc[t] \in {"scan", "claim", "count"} => at[t] <= NumSlots
    /\ registered \in [Threads -> BOOLEAN]
    /\ made \in [Threads -> Nat]

\* Once col_register_client has returned to a client, none of its calls is
\* passed through, and none goes to another client's queue, whatever the
\* order in which the clients register.
RegisteredIsManaged ==
    \A t \in Threads :
       /\ registered[t] => pc[t] \notin {"scan", "claim", "count"}
       /\ pc[t] = "managed" => registered[t] /\ at[t] = Index[t]

\* Two threads never count in one slot, no thread counts in two, and the
\* count of a thread that is no client is the number of its calls: report()
\* attributes every call to the thread that made it.
SlotIsOwn ==
    /\ \A t \in Threads : pc[t] = "count" => stat_tid[at[t]] = t
    /\ \A i, j \in StatSlots : stat_tid[i] = stat_tid[j] /\ stat_tid[i] # NoThread => i = j
    /\ \A t \in Threads, i \in StatSlots :
         Index[t] = -1 /\ stat_tid[i] = t
         => counts[i] = IF pc[t] = "idle" THEN made[t] ELSE made[t] - 1

\* "calls from more than kMaxThreads threads not counted": a call goes
\* uncounted only when the table is full of other threads.
DroppedOnlyWhenFull ==
    dropped > 0 => \A i \in StatSlots : stat_tid[i] # NoThread

(***************************************************************************)
(* The inductive invariant                                                 *)
(***************************************************************************)
Registering(t) == pc[t] \in {"load", "raise"}
InTable(t) == pc[t] \in {"scan", "claim", "count"}

\* num never falls, so a registered client stays below it.
NumInv(t) ==
    /\ registered[t] => Index[t] >= 0 /\ num > Index[t]
    /\ Registering(t) => Index[t] >= 0 /\ ~registered[t]
    /\ pc[t] = "raise" => n[t] <= num

\* A client's slot bears its id from its store on, and no other slot does.
TidInv ==
    /\ \A t \in Threads : registered[t] \/ Registering(t) => tid[Index[t]] = t
    /\ \A i \in ClientSlots : tid[i] # NoThread =>
         Index[tid[i]] = i /\ (registered[tid[i]] \/ Registering(tid[i]))

\* A registered client's lookup cannot run past its slot.
CallInv(t) ==
    /\ pc[t] = "lookup" /\ registered[t] => Index[t] < n[t] /\ at[t] <= Index[t]
    /\ pc[t] = "managed" => registered[t] /\ at[t] = Index[t]
    /\ InTable(t) => ~registered[t]

Full == \A i \in StatSlots : stat_tid[i] # NoThread

\* The taken slots come first, each thread has one, and a scan has left no
\* free slot behind it.
TableInv ==
    /\ \A i, j \in StatSlots : i < j /\ stat_tid[j] # NoThread => stat_tid[i] # NoThread
    /\ \A i, j \in StatSlots : stat_tid[i] = stat_tid[j] /\ stat_tid[i] # NoThread => i = j
    /\ dropped > 0 => Full

ScanInv(t) ==
    /\ InTable(t) => \A i \in StatSlots : i < at[t] => stat_tid[i] \notin {t, NoThread}
    /\ pc[t] \in {"claim", "count"} => at[t] \in StatSlots
    /\ pc[t] = "claim" => stat_tid[at[t]] # t
    /\ pc[t] = "count" => stat_tid[at[t]] = t

\* Calls of t that are over.
Past(t) == IF pc[t] = "idle" THEN made[t] ELSE made[t] - 1

\* A thread that is not in a table with room has made no call yet.
CountInv ==
    /\ \A i \in StatSlots : stat_tid[i] = NoThread => counts[i] = 0
    /\ \A t \in Threads : Index[t] = -1 =>
         /\ \A i \in StatSlots : stat_tid[i] = t => counts[i] = Past(t)
         /\ Full \/ (\E i \in StatSlots : stat_tid[i] = t) \/ Past(t) = 0

RegistryInv ==
    /\ TypeOK /\ TidInv /\ TableInv /\ CountInv
    /\ \A t \in Threads : NumInv(t) /\ CallInv(t) /\ ScanInv(t)
=============================================================================
