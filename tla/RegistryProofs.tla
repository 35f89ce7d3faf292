--------------------------- MODULE RegistryProofs ---------------------------
(***************************************************************************)
(* The properties of Registry, for every set of threads, every assignment  *)
(* of client slots, every size of the statistics table and every number of *)
(* calls: RegistryInv is inductive and implies them.                       *)
(***************************************************************************)
EXTENDS Registry, TLAPS

USE DEF NoThread, kMaxClients

\* Registration (tid, num) and calls, seen apart from the table.
ClientInv ==
    TidInv /\ \A t \in Threads : NumInv(t) /\ CallInv(t)

\* The table, seen apart from registration.
StatsInv ==
    TableInv /\ CountInv /\ \A t \in Threads : ScanInv(t)

LEMMA Parts == RegistryInv <=> TypeOK /\ ClientInv /\ StatsInv
  BY DEF RegistryInv, ClientInv, StatsInv

LEMMA RegistryInit == Init => RegistryInv
  BY ThreadsAssumption, SlotsAssumption, IndexAssumption
     DEF Init, RegistryInv, TypeOK, TidInv, TableInv, CountInv, NumInv, CallInv, ScanInv,
         Registering, InTable, Past, Full, ClientSlots, StatSlots

\* A registering or registered thread is a client, and its slot is its own.
LEMMA OwnSlot ==
    ASSUME NEW t \in Threads, Index[t] >= 0
    PROVE  Index[t] \in ClientSlots /\ \A u \in Threads : Index[u] = Index[t] => u = t
  BY IndexAssumption DEF ClientSlots

(***************************************************************************)
(* Steps that touch neither tid, num nor the table                         *)
(***************************************************************************)
LEMMA TableUntouched ==
    ASSUME TypeOK, StatsInv, NEW t \in Threads,
           UNCHANGED <<stat_tid, counts, dropped>>,
           \A u \in Threads : u # t => pc'[u] = pc[u] /\ at'[u] = at[u],
           pc'[t] \notin {"scan", "claim", "count"},
           \A u \in Threads : Index[u] = -1 => Past(u)' = Past(u)
    PROVE  StatsInv'
  <1>1. TableInv'
    BY DEF StatsInv, TableInv, Full
  <1>2. CountInv'
    BY DEF StatsInv, CountInv, Full
  <1>3. ASSUME NEW u \in Threads PROVE ScanInv(u)'
    BY DEF StatsInv, ScanInv, InTable
  <1> QED
    BY <1>1, <1>2, <1>3 DEF StatsInv

LEMMA StoreTidStep ==
    ASSUME RegistryInv, NEW t \in Threads, StoreTid(t)
    PROVE  RegistryInv'
  <1>0. TypeOK /\ ClientInv /\ StatsInv
    BY Parts
  <1>1. TypeOK'
    BY <1>0, ThreadsAssumption, SlotsAssumption, IndexAssumption
       DEF StoreTid, Goto, TypeOK, ClientSlots, StatSlots
  <1>2. ClientInv'
    <2>1. Index[t] \in ClientSlots /\ \A u \in Threads : Index[u] = Index[t] => u = t
      BY OwnSlot DEF StoreTid
    <2>2. tid'[Index[t]] = t /\ \A i \in ClientSlots : i # Index[t] => tid'[i] = tid[i]
      BY <1>0, <2>1 DEF StoreTid, TypeOK
    <2>3. TidInv'
      <3>1. ASSUME NEW u \in Threads, (registered[u] \/ Registering(u))'
            PROVE  tid'[Index[u]] = u
        <4>1. CASE u = t
          BY <2>2, <4>1
        <4>2. CASE u # t
          <5>1. registered[u] \/ Registering(u)
            BY <1>0, <3>1, <4>2 DEF StoreTid, Goto, Registering, TypeOK
          <5>2. Index[u] \in ClientSlots /\ Index[u] # Index[t]
            BY <1>0, <2>1, <4>2, <5>1, OwnSlot DEF ClientInv, NumInv
          <5> QED
            BY <1>0, <2>2, <5>1, <5>2 DEF ClientInv, TidInv
        <4> QED
          BY <4>1, <4>2
      <3>2. ASSUME NEW i \in ClientSlots, tid'[i] # NoThread
            PROVE  Index[tid'[i]] = i /\ (registered'[tid'[i]] \/ pc'[tid'[i]] \in {"load", "raise"})
        <4>1. CASE i = Index[t]
          BY <1>0, <2>2, <4>1 DEF StoreTid, Goto, Registering, TypeOK
        <4>2. CASE i # Index[t]
          <5>1. tid'[i] = tid[i] /\ tid[i] \in Threads
            BY <1>0, <2>2, <3>2, <4>2 DEF TypeOK
          <5> QED
            BY <1>0, <3>2, <4>2, <5>1, ThreadsAssumption
               DEF ClientInv, TidInv, StoreTid, Goto, Registering, TypeOK
        <4> QED
          BY <4>1, <4>2
      <3> QED
        BY <3>1, <3>2 DEF TidInv, Registering
    <2>4. ASSUME NEW u \in Threads PROVE NumInv(u)' /\ CallInv(u)'
      BY <1>0, <2>1 DEF StoreTid, Goto, ClientInv, NumInv, CallInv, Registering, InTable, TypeOK
    <2> QED
      BY <2>3, <2>4 DEF ClientInv
  <1>3. StatsInv'
    BY <1>0, TableUntouched, IndexAssumption
       DEF StoreTid, Goto, TypeOK, Past
  <1> QED
    BY <1>1, <1>2, <1>3 DEF RegistryInv, ClientInv, StatsInv

LEMMA LoadNumStep ==
    ASSUME RegistryInv, NEW t \in Threads, LoadNum(t)
    PROVE  RegistryInv'
  <1>0. TypeOK /\ ClientInv /\ StatsInv
    BY Parts
  <1>1. TypeOK'
    BY <1>0, ThreadsAssumption, SlotsAssumption, IndexAssumption
       DEF LoadNum, Goto, TypeOK, ClientSlots, StatSlots
  <1>2. ClientInv'
    BY <1>0, ThreadsAssumption, SlotsAssumption, IndexAssumption
      
          DEF LoadNum, ClientInv, TypeOK, TidInv, NumInv, CallInv, Goto, Registering, InTable,
              ClientSlots
  <1>3. StatsInv'
    BY <1>0, TableUntouched, IndexAssumption
       DEF LoadNum, Goto, TypeOK, Past
  <1> QED
    BY <1>1, <1>2, <1>3 DEF RegistryInv, ClientInv, StatsInv

LEMMA RaiseNumStep ==
    ASSUME RegistryInv, NEW t \in Threads, RaiseNum(t)
    PROVE  RegistryInv'
  <1>0. TypeOK /\ ClientInv /\ StatsInv
    BY Parts
  <1>1. TypeOK'
    <2>1. Index[t] \in ClientSlots
      BY <1>0, OwnSlot DEF RaiseNum, ClientInv, NumInv, Registering
    <2>2. num' \in 0 .. kMaxClients /\ n' \in [Threads -> 0 .. kMaxClients]
      BY <1>0, <2>1 DEF RaiseNum, TypeOK, ClientSlots
    <2>3. pc' \in [Threads -> {"idle", "load", "raise", "lookup", "managed", "scan",
                                "claim", "count"}]
      BY <1>0 DEF RaiseNum, Goto, TypeOK
    <2>4. \A u \in Threads : pc'[u] = pc[u] \/ pc'[u] = "idle"
      BY <1>0 DEF RaiseNum, Goto, TypeOK
    <2> QED
      BY <1>0, <2>2, <2>3, <2>4 DEF RaiseNum, TypeOK
  <1>2. ClientInv'
    <2>1. Index[t] >= 0 /\ Index[t] \in Int
      BY <1>0, OwnSlot DEF RaiseNum, ClientInv, NumInv, Registering, ClientSlots
    <2>2. /\ \A u \in Threads : u # t => pc'[u] = pc[u] /\ registered'[u] = registered[u]
                                        /\ n'[u] = n[u]
          /\ registered'[t] \/ pc'[t] = "raise"
          /\ UNCHANGED <<tid, at>>
      BY <1>0 DEF RaiseNum, Goto, TypeOK
    <2>3. TidInv'
      BY <1>0, <2>1, <2>2 DEF RaiseNum, ClientInv, TidInv, Registering, TypeOK
    <2>4. num' >= num
      BY <1>0, <2>1 DEF RaiseNum, ClientInv, NumInv, TypeOK
    <2>5. ASSUME NEW u \in Threads PROVE NumInv(u)'
      BY <1>0, <2>1, <2>4, IndexAssumption
         DEF RaiseNum, Goto, ClientInv, NumInv, Registering, TypeOK
    <2>6. ASSUME NEW u \in Threads PROVE CallInv(u)'
      BY <1>0, <2>2 DEF RaiseNum, Goto, ClientInv, CallInv, InTable, TypeOK
    <2> QED
      BY <2>3, <2>5, <2>6 DEF ClientInv
  <1>3. StatsInv'
    <2>1. Index[t] # -1
      BY <1>0 DEF RaiseNum, ClientInv, NumInv, Registering
    <2> QED
      BY <1>0, <2>1, TableUntouched DEF RaiseNum, Goto, TypeOK, Past
  <1> QED
    BY <1>1, <1>2, <1>3 DEF RegistryInv, ClientInv, StatsInv

LEMMA InterceptStep ==
    ASSUME RegistryInv, NEW t \in Threads, Intercept(t)
    PROVE  RegistryInv'
  <1>0. TypeOK /\ ClientInv /\ StatsInv
    BY Parts
  <1>1. TypeOK'
    BY <1>0, ThreadsAssumption, SlotsAssumption, IndexAssumption, SMTT(30)
       DEF Intercept, Goto, TypeOK, ClientSlots, StatSlots
  <1>2. ClientInv'
    BY <1>0, ThreadsAssumption, SlotsAssumption, IndexAssumption
      
          DEF Intercept, ClientInv, TypeOK, TidInv, NumInv, CallInv, Goto, Registering,
              InTable, ClientSlots
  <1>3. StatsInv'
    BY <1>0, TableUntouched, IndexAssumption
       DEF Intercept, Goto, TypeOK, Past
  <1> QED
    BY <1>1, <1>2, <1>3 DEF RegistryInv, ClientInv, StatsInv

LEMMA LookupStep ==
    ASSUME RegistryInv, NEW t \in Threads, Lookup(t)
    PROVE  RegistryInv'
  <1>0. TypeOK /\ ClientInv /\ StatsInv
    BY Parts
  <1>1. TypeOK'
    BY <1>0, SlotsAssumption DEF Lookup, Goto, TypeOK
  <1>2. ClientInv'
    <2>1. CASE at[t] >= n[t]
      BY <1>0, <2>1, IndexAssumption
         DEF Lookup, Goto, ClientInv, TidInv, NumInv, CallInv, Registering, InTable, TypeOK
    <2>2. CASE at[t] < n[t] /\ tid[at[t]] = t
      <3>1. at[t] \in ClientSlots /\ Index[t] = at[t] /\ registered[t]
        BY <1>0, <2>2, ThreadsAssumption
           DEF Lookup, ClientInv, TidInv, Registering, TypeOK, ClientSlots
      <3> QED
        BY <1>0, <2>2, <3>1 DEF Lookup, Goto, ClientInv, TidInv, NumInv, CallInv, Registering,
                                InTable, TypeOK
    <2>3. CASE at[t] < n[t] /\ tid[at[t]] # t
      <3>1. registered[t] => tid[Index[t]] = t /\ at[t] # Index[t]
        BY <1>0, <2>3 DEF ClientInv, TidInv
      <3> QED
        BY <1>0, <2>3, <3>1, IndexAssumption
           DEF Lookup, Goto, ClientInv, TidInv, NumInv, CallInv, Registering, InTable, TypeOK
    <2> QED
      BY <1>0, <2>1, <2>2, <2>3 DEF TypeOK
  <1>3. StatsInv'
    <2>1. CASE pc'[t] # "scan"
      BY <1>0, <2>1, TableUntouched DEF Lookup, Goto, TypeOK, Past
    <2>2. CASE pc'[t] = "scan"
      <3>1. /\ at'[t] = 0 /\ pc[t] = "lookup"
            /\ \A u \in Threads : u # t => pc'[u] = pc[u] /\ at'[u] = at[u]
            /\ UNCHANGED <<stat_tid, counts, dropped, made>>
        BY <1>0, <2>2 DEF Lookup, Goto, TypeOK
      <3>2. TableInv'
        BY <1>0, <3>1 DEF StatsInv, TableInv, Full
      <3>3. CountInv'
        BY <1>0, <2>2, <3>1 DEF StatsInv, CountInv, Full, Past
      <3>4. ASSUME NEW u \in Threads PROVE ScanInv(u)'
        BY <1>0, <2>2, <3>1 DEF StatsInv, ScanInv, InTable, StatSlots
      <3> QED
        BY <3>2, <3>3, <3>4 DEF StatsInv
    <2> QED
      BY <2>1, <2>2
  <1> QED
    BY <1>1, <1>2, <1>3 DEF RegistryInv, ClientInv, StatsInv

LEMMA ManagedStep ==
    ASSUME RegistryInv, NEW t \in Threads, Managed(t)
    PROVE  RegistryInv'
  <1>0. TypeOK /\ ClientInv /\ StatsInv
    BY Parts
  <1>1. TypeOK'
    BY <1>0, ThreadsAssumption, SlotsAssumption, IndexAssumption
       DEF Managed, Goto, TypeOK, ClientSlots, StatSlots
  <1>2. ClientInv'
    BY <1>0, ThreadsAssumption, SlotsAssumption, IndexAssumption
      
          DEF Managed, ClientInv, TypeOK, TidInv, NumInv, CallInv, Goto, Registering, InTable,
              ClientSlots
  <1>3. StatsInv'
    <2>1. Index[t] # -1
      BY <1>0 DEF Managed, ClientInv, CallInv, NumInv
    <2> QED
      BY <1>0, <2>1, TableUntouched DEF Managed, Goto, TypeOK, Past
  <1> QED
    BY <1>1, <1>2, <1>3 DEF RegistryInv, ClientInv, StatsInv

LEMMA ScanStep ==
    ASSUME RegistryInv, NEW t \in Threads, Scan(t)
    PROVE  RegistryInv'
  <1>0. TypeOK /\ ClientInv /\ StatsInv
    BY Parts
  <1>1. TypeOK'
    <2>0. at[t] \in 0 .. NumSlots
      BY <1>0, SlotsAssumption DEF Scan, TypeOK
    <2>1. CASE at[t] = NumSlots
      BY <1>0, <2>1, <2>0, SlotsAssumption, ThreadsAssumption DEF Scan, Goto, TypeOK
    <2>2. CASE at[t] # NumSlots /\ stat_tid[at[t]] = t
      BY <1>0, <2>2, <2>0, SlotsAssumption, ThreadsAssumption DEF Scan, Goto, TypeOK
    <2>3. CASE at[t] # NumSlots /\ stat_tid[at[t]] = NoThread
      BY <1>0, <2>3, <2>0, SlotsAssumption, ThreadsAssumption DEF Scan, Goto, TypeOK
    <2>4. CASE at[t] # NumSlots /\ stat_tid[at[t]] \notin {t, NoThread}
      BY <1>0, <2>4, <2>0, SlotsAssumption, ThreadsAssumption DEF Scan, Goto, TypeOK
    <2> QED
      BY <1>0, <2>1, <2>2, <2>3, <2>4, SlotsAssumption DEF Scan, TypeOK
  <1>2. ClientInv'
    BY <1>0, ThreadsAssumption, SlotsAssumption, IndexAssumption
       DEF Scan, ClientInv, TypeOK, TidInv, NumInv, CallInv, Goto, Registering, InTable, ClientSlots
  <1>3. StatsInv'
    <2>0. at[t] \in 0 .. NumSlots
      BY <1>0, SlotsAssumption DEF Scan, TypeOK
    <2>1. CASE at[t] = NumSlots
      BY <1>0, <2>1, <2>0, SlotsAssumption, ThreadsAssumption, SMTT(30)
         DEF Scan, StatsInv, TypeOK, TableInv, ScanInv, CountInv, Goto, InTable, Past, Full,
             StatSlots
    <2>2. CASE at[t] # NumSlots /\ stat_tid[at[t]] = t
      BY <1>0, <2>2, <2>0, SlotsAssumption, ThreadsAssumption, SMTT(30)
         DEF Scan, StatsInv, TypeOK, TableInv, ScanInv, CountInv, Goto, InTable, Past, Full,
             StatSlots
    <2>3. CASE at[t] # NumSlots /\ stat_tid[at[t]] = NoThread
      BY <1>0, <2>3, <2>0, SlotsAssumption, ThreadsAssumption
         DEF Scan, StatsInv, TypeOK, TableInv, ScanInv, CountInv, Goto, InTable, Past, Full,
             StatSlots
    <2>4. CASE at[t] # NumSlots /\ stat_tid[at[t]] \notin {t, NoThread}
      <3>1. /\ at' = [at EXCEPT ![t] = @ + 1]
            /\ UNCHANGED <<pc, stat_tid, counts, dropped, made>>
        BY <2>0, <2>4, SlotsAssumption DEF Scan
      <3>2. TableInv' /\ CountInv'
        BY <1>0, <3>1 DEF StatsInv, TableInv, CountInv, Full, Past
      <3>3. ASSUME NEW u \in Threads PROVE ScanInv(u)'
        BY <1>0, <2>0, <2>4, <3>1 DEF Scan, StatsInv, ScanInv, InTable, StatSlots, TypeOK
      <3> QED
        BY <3>2, <3>3 DEF StatsInv
    <2> QED
      BY <1>0, <2>1, <2>2, <2>3, <2>4, SlotsAssumption DEF Scan, TypeOK
  <1> QED
    BY <1>1, <1>2, <1>3 DEF RegistryInv, ClientInv, StatsInv

LEMMA ClaimStep ==
    ASSUME RegistryInv, NEW t \in Threads, Claim(t)
    PROVE  RegistryInv'
  <1>0. TypeOK /\ ClientInv /\ StatsInv
    BY Parts
  <1>1. at[t] \in StatSlots /\ pc[t] = "claim" /\ stat_tid[at[t]] # t
    BY <1>0 DEF Claim, StatsInv, ScanInv
  <1>2. pc'[t] \in {"count", "scan"} /\ \A u \in Threads : u # t => pc'[u] = pc[u] /\ at'[u] = at[u]
    BY <1>0 DEF Claim, Goto, TypeOK
  <1>3. ClientInv'
    <2>1. UNCHANGED <<tid, num, n, registered>>
      BY DEF Claim
    <2>2. \A u \in Threads : Registering(u)' = Registering(u)
      BY <1>1, <1>2 DEF Registering
    <2>3. TidInv'
      <3>1. \A i \in ClientSlots : tid[i] \in Threads \cup {NoThread}
        BY <1>0 DEF TypeOK
      <3> QED
        BY <1>0, <2>1, <2>2, <3>1, ThreadsAssumption DEF ClientInv, TidInv, Registering
    <2>4. ASSUME NEW u \in Threads PROVE NumInv(u)' /\ CallInv(u)'
      BY <1>0, <1>1, <1>2, <2>1, <2>2 DEF ClientInv, NumInv, CallInv, InTable, Registering
    <2> QED
      BY <2>3, <2>4 DEF ClientInv
  <1>4. TypeOK' /\ StatsInv'
    <2>1. CASE stat_tid[at[t]] = NoThread
      <3>1. /\ stat_tid' = [stat_tid EXCEPT ![at[t]] = t]
            /\ pc' = [pc EXCEPT ![t] = "count"]
            /\ UNCHANGED <<tid, num, counts, dropped, n, at, registered, made>>
        BY <2>1 DEF Claim, Goto
      <3>2. TypeOK'
        BY <1>0, <1>1, <3>1 DEF TypeOK
      <3>3. \A i \in StatSlots : i # at[t] => stat_tid[i] # t
        BY <1>0, <1>1, <2>1, ThreadsAssumption DEF StatsInv, TableInv, ScanInv, InTable, StatSlots
      <3>4. TableInv'
        BY <1>0, <1>1, <2>1, <3>1, <3>3, ThreadsAssumption
           DEF StatsInv, TableInv, ScanInv, InTable, StatSlots, Full, TypeOK
      <3>5. CountInv'
        <4>1. ASSUME NEW i \in StatSlots, stat_tid'[i] = NoThread PROVE counts'[i] = 0
          BY <1>0, <1>1, <3>1, <4>1, ThreadsAssumption DEF StatsInv, CountInv, TypeOK
        <4>2. \A u \in Threads : Past(u)' = Past(u)
          BY <1>0, <1>1, <3>1 DEF Past, TypeOK
        <4>3. ASSUME NEW u \in Threads, Index[u] = -1, NEW i \in StatSlots, stat_tid'[i] = u
              PROVE  counts'[i] = Past(u)'
          <5>1. CASE i = at[t]
            <6>1. u = t
              BY <1>0, <1>1, <3>1, <4>3, <5>1 DEF TypeOK
            <6>2. Past(t) = 0
              BY <1>0, <1>1, <2>1, <3>3, <4>3, <6>1 DEF StatsInv, CountInv, Full
            <6> QED
              BY <1>0, <1>1, <2>1, <3>1, <4>2, <5>1, <6>1, <6>2 DEF StatsInv, CountInv
          <5>2. CASE i # at[t]
            BY <1>0, <1>1, <3>1, <4>2, <4>3, <5>2 DEF StatsInv, CountInv, TypeOK
          <5> QED
            BY <5>1, <5>2
        <4>4. ASSUME NEW u \in Threads, Index[u] = -1
              PROVE  Full' \/ (\E i \in StatSlots : stat_tid'[i] = u) \/ Past(u)' = 0
          <5>1. Full \/ (\E i \in StatSlots : stat_tid[i] = u) \/ Past(u) = 0
            BY <1>0, <4>4 DEF StatsInv, CountInv
          <5>2. ~Full
            BY <1>1, <2>1 DEF Full
          <5>3. \A i \in StatSlots : stat_tid[i] = u => stat_tid'[i] = u
            BY <1>0, <1>1, <2>1, <3>1, ThreadsAssumption DEF TypeOK
          <5> QED
            BY <4>2, <4>4, <5>1, <5>2, <5>3
        <4> QED
          BY <4>1, <4>3, <4>4 DEF CountInv
      <3>6. ASSUME NEW u \in Threads PROVE ScanInv(u)'
        BY <1>0, <1>1, <1>2, <2>1, <3>1, ThreadsAssumption
           DEF StatsInv, ScanInv, TableInv, InTable, StatSlots, TypeOK
      <3> QED
        BY <3>2, <3>4, <3>5, <3>6 DEF StatsInv
    <2>2. CASE stat_tid[at[t]] # NoThread
      <3>1. /\ at' = [at EXCEPT ![t] = @ + 1]
            /\ pc' = [pc EXCEPT ![t] = "scan"]
            /\ UNCHANGED <<tid, num, stat_tid, counts, dropped, n, registered, made>>
        BY <2>2 DEF Claim, Goto
      <3>2. TypeOK'
        BY <1>0, <1>1, <3>1, SlotsAssumption DEF TypeOK, StatSlots
      <3>3. TableInv'
        BY <1>0, <3>1 DEF StatsInv, TableInv, Full
      <3>4. CountInv'
        BY <1>0, <1>1, <3>1 DEF StatsInv, CountInv, Full, Past, TypeOK
      <3>5. ASSUME NEW u \in Threads PROVE ScanInv(u)'
        BY <1>0, <1>1, <1>2, <2>2, <3>1, SlotsAssumption
           DEF StatsInv, ScanInv, InTable, StatSlots, TypeOK
      <3> QED
        BY <3>2, <3>3, <3>4, <3>5 DEF StatsInv
    <2> QED
      BY <2>1, <2>2
  <1> QED
    BY <1>3, <1>4 DEF RegistryInv, ClientInv, StatsInv

LEMMA CountStep ==
    ASSUME RegistryInv, NEW t \in Threads, Count(t)
    PROVE  RegistryInv'
  <1>0. TypeOK /\ ClientInv /\ StatsInv
    BY Parts
  <1>1. TypeOK'
    <2>0. at[t] \in StatSlots
      BY <1>0 DEF Count, StatsInv, ScanInv
    <2> QED
      BY <1>0, <2>0 DEF Count, Goto, TypeOK
  <1>2. ClientInv'
    BY <1>0, ThreadsAssumption, SlotsAssumption, IndexAssumption
      
          DEF Count, ClientInv, TypeOK, TidInv, NumInv, CallInv, Goto, Registering, InTable,
              ClientSlots
  <1>3. StatsInv'
    <2>0. at[t] \in StatSlots /\ stat_tid[at[t]] = t /\ t # NoThread
      BY <1>0, ThreadsAssumption DEF Count, StatsInv, ScanInv
    <2>1. /\ pc[t] = "count"
          /\ counts' = [counts EXCEPT ![at[t]] = @ + 1]
          /\ pc' = [pc EXCEPT ![t] = "idle"]
          /\ UNCHANGED <<tid, num, stat_tid, dropped, n, at, registered, made>>
      BY DEF Count, Goto
    <2>2. TableInv'
      BY <1>0, <2>1 DEF StatsInv, TableInv, Full
    <2>3. \A u \in Threads : ScanInv(u)'
      BY <1>0, <2>1 DEF StatsInv, ScanInv, InTable, TypeOK
    <2>4. Past(t)' = Past(t) + 1 /\ \A u \in Threads \ {t} : Past(u)' = Past(u)
      BY <1>0, <2>1 DEF Past, TypeOK
    <2>5. \A i \in StatSlots : stat_tid'[i] = NoThread => counts'[i] = 0
      BY <1>0, <2>0, <2>1 DEF StatsInv, CountInv, TypeOK
    <2>6. ASSUME NEW u \in Threads, Index[u] = -1, NEW i \in StatSlots, stat_tid'[i] = u
          PROVE  counts'[i] = Past(u)'
      <3>1. stat_tid[i] = u /\ counts[i] = Past(u)
        BY <1>0, <2>1, <2>6 DEF StatsInv, CountInv
      <3>2. CASE u = t
        <4>1. i = at[t]
          BY <1>0, <2>0, <3>1, <3>2 DEF StatsInv, TableInv
        <4> QED
          BY <1>0, <2>0, <2>1, <2>4, <3>1, <3>2, <4>1 DEF TypeOK
      <3>3. CASE u # t
        <4>1. i # at[t]
          BY <2>0, <3>1, <3>3
        <4> QED
          BY <1>0, <2>1, <2>4, <3>1, <3>3, <4>1 DEF TypeOK
      <3> QED
        BY <3>2, <3>3
    <2>7. ASSUME NEW u \in Threads, Index[u] = -1
          PROVE  Full' \/ (\E i \in StatSlots : stat_tid'[i] = u) \/ Past(u)' = 0
      <3>1. Full' <=> Full
        BY <2>1 DEF Full
      <3>2. Full \/ (\E i \in StatSlots : stat_tid[i] = u) \/ Past(u) = 0
        BY <1>0, <2>7 DEF StatsInv, CountInv
      <3>3. CASE u = t
        BY <2>0, <2>1, <3>3
      <3>4. CASE u # t
        BY <2>1, <2>4, <3>1, <3>2, <3>4
      <3> QED
        BY <3>3, <3>4
    <2>8. CountInv'
      BY <2>5, <2>6, <2>7 DEF CountInv
    <2> QED
      BY <2>2, <2>3, <2>8 DEF StatsInv
  <1> QED
    BY <1>1, <1>2, <1>3 DEF RegistryInv, ClientInv, StatsInv

(***************************************************************************)
(* The theorems                                                            *)
(***************************************************************************)
LEMMA RegistryStep == RegistryInv /\ [Next]_vars => RegistryInv'
  <1> SUFFICES ASSUME RegistryInv, [Next]_vars PROVE RegistryInv'
    OBVIOUS
  <1>1. ASSUME NEW t \in Threads,
               \/ StoreTid(t) \/ LoadNum(t) \/ RaiseNum(t)
               \/ Intercept(t) \/ Lookup(t) \/ Managed(t)
               \/ Scan(t) \/ Claim(t) \/ Count(t)
        PROVE  RegistryInv'
    BY <1>1, StoreTidStep, LoadNumStep, RaiseNumStep, InterceptStep, LookupStep,
       ManagedStep, ScanStep, ClaimStep, CountStep
  <1>2. CASE UNCHANGED vars
    BY <1>2 DEF vars, RegistryInv, TypeOK, TidInv, TableInv, CountInv, NumInv, CallInv, ScanInv,
                Registering, InTable, Past, Full
  <1> QED
    BY <1>1, <1>2 DEF Next

\* RegistryInv, the invariant that relates the client slots, their number and
\* the statistics table to where each thread is, holds in every state.
THEOREM RegistryInductive == Spec => []RegistryInv
  BY RegistryInit, RegistryStep, PTL DEF Spec

\* Registration is final: a registered client's calls go to its own queue,
\* for any number of threads that register and call concurrently.
THEOREM RegistrationHolds == Spec => []RegisteredIsManaged
  <1>1. RegistryInv => RegisteredIsManaged
    BY DEF RegistryInv, CallInv, InTable, RegisteredIsManaged
  <1> QED
    BY <1>1, RegistryInductive, PTL

\* Every statistics slot counts the calls of one thread, all of them.
THEOREM SlotsHold == Spec => []SlotIsOwn
  <1>1. RegistryInv => SlotIsOwn
    BY DEF RegistryInv, TableInv, ScanInv, CountInv, Past, SlotIsOwn
  <1> QED
    BY <1>1, RegistryInductive, PTL

\* A call goes uncounted only when the table is full.
THEOREM DropsHold == Spec => []DroppedOnlyWhenFull
  <1>1. RegistryInv => DroppedOnlyWhenFull
    BY DEF RegistryInv, TableInv, Full, DroppedOnlyWhenFull
  <1> QED
    BY <1>1, RegistryInductive, PTL
=============================================================================
