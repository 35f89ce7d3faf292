-------------------------- MODULE ArtifactsProofs ---------------------------
(***************************************************************************)
(* For every number of workloads, every list of settings and of runs made  *)
(* by hand, any number of sweeps, exports, dumps that give up and deaths.  *)
(* SweepInv: what the sweep's script knows of its processes, so that its   *)
(* report is true.  LinksInv: no index ever links a page that is not       *)
(* there.  OneInv: in a directory used once the last file of the dump      *)
(* commits the records, from the files through what analyze.py read of     *)
(* them to the page.  ShownInv: a run that was finished when an export     *)
(* began stays whole, and is still to be listed, about to be looked at,    *)
(* found, or refused and reported.  ScanInv carries the types, and that    *)
(* the next directory is one of those left.                                *)
(* OriginInv and BuiltInv: what was read of a directory was left by a      *)
(* process that ran there, and the pages of one export bear one map, which *)
(* PreferTurns and ChosenExact follow turn by turn: so that a selection    *)
(* shows what it names.                                                    *)
(***************************************************************************)
EXTENDS Artifacts, OrderProofs, FiniteSetTheorems, WellFoundedInduction, SequenceTheorems, TLAPS

USE DEF sweepVars, exportVars, vars

(***************************************************************************)
(* The next pair                                                           *)
(***************************************************************************)
\* Pairs are taken in the order of combinations_with_replacement, in which
\* what is left has a first one.
LEMMA NextPairIsLeft ==
    ASSUME NEW left \in SUBSET Pairs, left # {}
    PROVE  \E p \in left : \A q \in left : p[1] < q[1] \/ (p[1] = q[1] /\ p[2] <= q[2])
  <1> DEFINE Less == OpToRel(<, Nat)
             Lex == LexPairOrdering(Less, Less, Nat, Nat)
  <1>1. IsWellFoundedOn(Lex, Nat \X Nat)
    BY NatLessThanWellFounded, WFLexPairOrdering
  <1>2. left \subseteq Nat \X Nat
    BY SweepAssumption DEF Pairs
  <1>3. PICK p \in left : \A q \in left : <<q, p>> \notin Lex
    <2> HIDE DEF Lex
    <2> QED  BY <1>1, <1>2, WFMin
  <1>4. \A i, j \in Nat : <<i, j>> \in Less <=> i < j
    BY DEF OpToRel
  <1>5. ASSUME NEW q \in left
        PROVE  p[1] < q[1] \/ (p[1] = q[1] /\ p[2] <= q[2])
    <2>1. p[1] \in Nat /\ p[2] \in Nat /\ q[1] \in Nat /\ q[2] \in Nat
      BY <1>2
    <2>2. ~(<<q[1], p[1]>> \in Less) /\ ~(q[1] = p[1] /\ <<q[2], p[2]>> \in Less)
      <3> HIDE DEF Less
      <3> QED  BY <1>2, <1>3 DEF LexPairOrdering
    <2>3. ~(q[1] < p[1]) /\ ~(q[1] = p[1] /\ q[2] < p[2])
      <3> HIDE DEF Less
      <3> QED  BY <1>4, <2>1, <2>2
    <2> QED  BY <2>1, <2>3
  <1> QED  BY <1>5

(***************************************************************************)
(* The sweep's report                                                      *)
(***************************************************************************)
\* Where a process of the sweep is under way: before its dump has ended, after.
Early == {"running", "logged", "dumping", "closed"}
Late == {"dumped", "writing", "written"}
Busy == Early \cup Late

\* The files a process writes, and what analyze.py adds.
Own == {"log", "kernels", "calib", "results"}
FileFields == Own \cup {"trace"}

\* The records a process leaves: its own, unless its dump gave up; and then
\* the calibration is not its own.
Dumped(f, n) ==
    /\ n \in lost <=> f.calib # Whole(n)
    /\ n \notin lost => f.kernels = Whole(n)

\* A pair's directory holds one process of this sweep.
Reported(p) ==
    LET d == Dir(CfgOf(sweep.setting), p)
    IN  /\ d \in DOMAIN files
        /\ \E n \in 1 .. Now :
             /\ n > sweep.since
             /\ files[d].log = Whole(n) /\ files[d].results = Whole(n) /\ Dumped(files[d], n)
             /\ exec[n].setting = sweep.setting /\ exec[n].clients = p

RecordsInv ==
    /\ exec \in Seq(Processes) /\ lost \subseteq 1 .. Now
    /\ \A d \in DOMAIN files : DOMAIN files[d] = FileFields /\ files[d].calib.run \in 0 .. Now
    /\ DOMAIN sweep = {"pc", "n", "setting", "left", "failed", "since"}
    /\ sweep.left \in SUBSET Pairs
    /\ sweep.since \in Nat /\ sweep.since <= Now

\* The process under way, and what it has written so far.
ProcessInv ==
    sweep.pc \in Busy =>
       /\ sweep.left # {} /\ Now > sweep.since
       /\ exec[Now] = Process(sweep.setting, NextPair) /\ Here \in DOMAIN files
       /\ sweep.pc # "running" => files[Here].log = Whole(Now)
       /\ sweep.pc \in Early => Now \notin lost /\ files[Here].calib # Whole(Now)
       /\ sweep.pc = "closed" => files[Here].kernels = Whole(Now)
       /\ sweep.pc \in Late => Dumped(files[Here], Now)
       /\ sweep.pc = "written" => files[Here].results = Whole(Now)

SweepInv ==
    /\ RecordsInv
    /\ ProcessInv
    /\ sweep.pc # "idle" =>
          /\ sweep.setting \in Settings
          /\ \A p \in Pairs \ (sweep.left \cup sweep.failed) : Reported(p)
    /\ sweep.pc = "done" => sweep.left = {}

LEMMA NextPairIn ==
    ASSUME sweep.left \in SUBSET Pairs, sweep.left # {}
    PROVE  NextPair \in sweep.left
  <1>1. \E p \in sweep.left : \A q \in sweep.left : p[1] < q[1] \/ (p[1] = q[1] /\ p[2] <= q[2])
    BY NextPairIsLeft
  <1> QED  BY <1>1 DEF NextPair

LEMMA InitSweepInv == Init => SweepInv
  <1> SUFFICES ASSUME Init PROVE SweepInv
    OBVIOUS
  <1>1. exec \in Seq(Processes)
    <2>1. ByHand \in Seq({ByHand[n] : n \in DOMAIN ByHand})
      BY ByHandAssumption, SeqOfRange
    <2>2. ByHand \in Seq(Processes)
      BY <2>1, SeqMonotonic DEF Processes
    <2> QED  BY <2>2 DEF Init, InitSweep
  <1>2. Now \in Nat
    BY <1>1 DEF Now
  <1>3. ASSUME NEW d \in DOMAIN files
        PROVE  DOMAIN files[d] = FileFields /\ files[d].calib.run \in 0 .. Now
    <2> DEFINE n == CHOOSE i \in DOMAIN ByHand : ByHand[i].dir = d
    <2>1. d \in {ByHand[i].dir : i \in DOMAIN ByHand}
      BY DEF Init, InitSweep
    <2>2. n \in DOMAIN ByHand
      BY <2>1
    <2>3. files[d] = LeftByHand(n)
      BY <2>1 DEF Init, InitSweep
    <2> HIDE DEF n
    <2>4. n \in 0 .. Now
      <3>1. DOMAIN ByHand = 1 .. Len(ByHand) /\ Len(ByHand) \in Nat
        BY ByHandAssumption
      <3> QED  BY <2>2, <3>1 DEF Init, InitSweep, Now
    <2>5. DOMAIN files[d] = FileFields /\ files[d].calib = Whole(n)
      BY <2>3 DEF LeftByHand, FileFields, Own
    <2> QED  BY <2>4, <2>5 DEF Whole
  <1>4. sweep.pc = "idle" /\ sweep.left = {} /\ sweep.since = 0 /\ lost = {}
        /\ DOMAIN sweep = {"pc", "n", "setting", "left", "failed", "since"}
    BY DEF Init, InitSweep
  <1> QED  BY <1>1, <1>2, <1>3, <1>4 DEF SweepInv, RecordsInv, ProcessInv, Busy, Early, Late

\* Reports stand as long as their directories and the processes do.
LEMMA ReportsStand ==
    ASSUME NEW p, Reported(p), exec \in Seq(Processes),
           sweep'.setting = sweep.setting, sweep'.since = sweep.since,
           Now' \in Nat, Now <= Now', \A n \in 1 .. Now : exec'[n] = exec[n],
           \A n \in 1 .. Now : exec[n].clients = p => (n \in lost' <=> n \in lost),
           Dir(CfgOf(sweep.setting), p) \in DOMAIN files',
           \A file \in Own :
              files'[Dir(CfgOf(sweep.setting), p)][file] = files[Dir(CfgOf(sweep.setting), p)][file]
    PROVE  Reported(p)'
  <1>0. PICK d : d = Dir(CfgOf(sweep.setting), p)
    OBVIOUS
  <1>1. PICK n \in 1 .. Now :
          /\ n > sweep.since
          /\ files[d].log = Whole(n) /\ files[d].results = Whole(n) /\ Dumped(files[d], n)
          /\ exec[n].setting = sweep.setting /\ exec[n].clients = p
    BY <1>0 DEF Reported
  <1>2. n \in 1 .. Now' /\ exec'[n] = exec[n] /\ (n \in lost' <=> n \in lost)
    BY <1>1 DEF Now
  <1>3. /\ files'[d].log = files[d].log /\ files'[d].kernels = files[d].kernels
        /\ files'[d].calib = files[d].calib /\ files'[d].results = files[d].results
    BY <1>0 DEF Own
  <1>4. Dumped(files[d], n)'
    BY <1>1, <1>2, <1>3 DEF Dumped, Whole
  <1>5. d \in DOMAIN files' /\ d = Dir(CfgOf(sweep'.setting), p)
    BY <1>0
  <1>6. files'[d].log = Whole(n) /\ files'[d].results = Whole(n)
    BY <1>1, <1>3
  <1>7. n > sweep'.since /\ exec'[n].setting = sweep'.setting /\ exec'[n].clients = p
    BY <1>1, <1>2
  <1> QED  BY <1>2, <1>4, <1>5, <1>6, <1>7 DEF Reported

LEMMA StartSweepInv ==
    ASSUME SweepInv, NEW s \in Settings, NEW skip \in BOOLEAN, Start(s, skip)
    PROVE  SweepInv'
  <1>1. sweep'.pc \in {"solo", "pairs"} /\ sweep'.setting = s /\ sweep'.left = Pairs
        /\ sweep'.failed = {} /\ sweep'.since = Now
        /\ DOMAIN sweep' = {"pc", "n", "setting", "left", "failed", "since"}
    BY DEF Start
  <1>2. UNCHANGED <<files, exec, lost>> /\ Now' = Now /\ Now \in Nat
    BY DEF Start, Now, SweepInv, RecordsInv
  <1> QED  BY <1>1, <1>2 DEF SweepInv, RecordsInv, ProcessInv, Busy, Early, Late

\* Steps of the script between its processes.
LEMMA ScriptSweepInv ==
    ASSUME SweepInv, SoloPass \/ EndSweep
    PROVE  SweepInv'
  <1>1. UNCHANGED <<files, exec, lost>> /\ sweep'.setting = sweep.setting /\ sweep'.left = sweep.left
        /\ sweep'.failed = sweep.failed /\ sweep'.since = sweep.since
        /\ DOMAIN sweep' = {"pc", "n", "setting", "left", "failed", "since"}
        /\ sweep.pc \in {"solo", "pairs"} /\ sweep'.pc \in {"idle", "pairs", "done"}
        /\ (sweep'.pc = "done" => sweep.left = {})
    BY DEF SoloPass, EndSweep, SweepInv, RecordsInv
  <1>2. Now' = Now
    BY <1>1 DEF Now
  <1>3. \A p : Reported(p)' <=> Reported(p)
    BY <1>1, <1>2 DEF Reported, Dumped
  <1> QED  BY <1>1, <1>2, <1>3 DEF SweepInv, RecordsInv, ProcessInv, Busy, Early, Late

LEMMA RunPairInv ==
    ASSUME SweepInv, RunPair
    PROVE  SweepInv'
  <1> DEFINE d == Dir(CfgOf(sweep.setting), NextPair)
             n == Process(sweep.setting, NextPair)
  <1>1. NextPair \in sweep.left /\ sweep.left \in SUBSET Pairs
    BY NextPairIn DEF RunPair, SweepInv, RecordsInv
  <1>2. /\ sweep.pc = "pairs" /\ sweep'.pc = "running" /\ sweep'.setting = sweep.setting
        /\ sweep'.left = sweep.left /\ sweep'.failed = sweep.failed /\ sweep'.since = sweep.since
        /\ DOMAIN sweep' = {"pc", "n", "setting", "left", "failed", "since"} /\ lost' = lost
    BY DEF RunPair, SweepInv, RecordsInv
  <1>3. exec' = Append(exec, n) /\ n \in Processes /\ exec \in Seq(Processes)
    BY <1>1, <1>2 DEF RunPair, Process, Processes, SweepInv, RecordsInv
  <1>4. /\ exec' \in Seq(Processes) /\ Now \in Nat /\ Now' = Now + 1 /\ exec'[Now'] = n
        /\ \A i \in 1 .. Now : exec'[i] = exec[i]
    <2> HIDE DEF n
    <2> QED  BY <1>3 DEF Now
  <1>5. /\ DOMAIN files' = DOMAIN files \cup {d}
        /\ \A e \in DOMAIN files : files'[e] = files[e]
        /\ \A e \in DOMAIN files' : DOMAIN files'[e] = FileFields /\ files'[e].calib.run \in 0 .. Now
    <2>1. files' = IF d \in DOMAIN files THEN files
                   ELSE [e \in DOMAIN files \cup {d} |-> IF e = d THEN Empty ELSE files[e]]
      BY DEF RunPair
    <2>2. \A e \in DOMAIN files : DOMAIN files[e] = FileFields /\ files[e].calib.run \in 0 .. Now
      BY DEF SweepInv, RecordsInv
    <2>3. DOMAIN Empty = FileFields /\ Empty.calib.run \in 0 .. Now
      BY <1>4 DEF Empty, FileFields, Own, Absent
    <2> HIDE DEF d
    <2> QED  BY <2>1, <2>2, <2>3
  <1>6. Here' = d /\ NextPair' = NextPair
    BY <1>2, <1>4 DEF Here, Process, NextPair
  <1>7. RecordsInv'
    <2>1. lost' \subseteq 1 .. Now'
      BY <1>2, <1>4 DEF SweepInv, RecordsInv
    <2>2. \A e \in DOMAIN files' : DOMAIN files'[e] = FileFields /\ files'[e].calib.run \in 0 .. Now'
      BY <1>4, <1>5
    <2> QED  BY <1>1, <1>2, <1>4, <2>1, <2>2 DEF SweepInv, RecordsInv
  <1>8. ProcessInv'
    <2>1. Now' \notin lost' /\ files'[d].calib # Whole(Now')
      <3>1. \A e \in DOMAIN files' : files'[e].calib.run # Now'
        BY <1>4, <1>5
      <3> QED  BY <1>2, <1>4, <1>5, <3>1 DEF SweepInv, RecordsInv, Whole
    <2>2. d \in DOMAIN files' /\ Now' > sweep.since
      BY <1>4, <1>5 DEF SweepInv, RecordsInv
    <2>3. exec'[Now'] = Process(sweep.setting, NextPair)
      BY <1>4
    <2> HIDE DEF d, n
    <2> QED  BY <1>1, <1>2, <1>6, <2>1, <2>2, <2>3 DEF ProcessInv, Early, Late, Whole, Process
  <1>9. ASSUME NEW p \in Pairs \ (sweep.left \cup sweep.failed)
        PROVE  Reported(p)'
    <2>1. Reported(p)
      BY <1>2 DEF SweepInv
    <2>2. Dir(CfgOf(sweep.setting), p) \in DOMAIN files
      BY <2>1 DEF Reported
    <2>3. exec \in Seq(Processes) /\ Now' \in Nat /\ Now <= Now'
          /\ \A i \in 1 .. Now : exec'[i] = exec[i]
      <3>1. Now' \in Nat /\ Now <= Now'
        <4> HIDE DEF n
        <4> QED  BY <1>4
      <3> QED  BY <1>3, <1>4, <3>1
    <2>4. Dir(CfgOf(sweep.setting), p) \in DOMAIN files'
          /\ files'[Dir(CfgOf(sweep.setting), p)] = files[Dir(CfgOf(sweep.setting), p)]
      BY <1>5, <2>2
    <2> QED  BY <2>1, <2>3, <2>4, <1>2, ReportsStand
  <1>10. sweep.setting \in Settings
    BY <1>2 DEF SweepInv
  <1> QED  BY <1>2, <1>7, <1>8, <1>9, <1>10 DEF SweepInv

\* A step of the process under way: no report is about its pair.
LEMMA ProcessStep ==
    ASSUME SweepInv, NEW to \in Busy, sweep.pc \in Busy, sweep' = [sweep EXCEPT !.pc = to],
           exec' = exec, lost' \in {lost, lost \cup {Now}}, DOMAIN files' = DOMAIN files,
           \A d \in DOMAIN files : d # Here => files'[d] = files[d],
           DOMAIN files'[Here] = FileFields, files'[Here].calib.run \in 0 .. Now,
           sweep'.pc = to => ProcessInv'
    PROVE  SweepInv'
  <1>1. /\ sweep'.pc = to /\ sweep'.setting = sweep.setting
        /\ sweep'.left = sweep.left /\ sweep'.failed = sweep.failed /\ sweep'.since = sweep.since
        /\ DOMAIN sweep' = {"pc", "n", "setting", "left", "failed", "since"} /\ exec' = exec
    BY DEF SweepInv, RecordsInv
  <1>2. /\ sweep.left # {} /\ Now > sweep.since /\ Here \in DOMAIN files /\ Now \in Nat
        /\ exec[Now] = Process(sweep.setting, NextPair) /\ sweep.since \in Nat
    BY DEF SweepInv, ProcessInv, RecordsInv, Now
  <1>3. Now' = Now /\ Here' = Here /\ NextPair' = NextPair
    BY <1>1 DEF Now, Here, NextPair
  <1>4. NextPair \in sweep.left
    BY <1>2, NextPairIn DEF SweepInv, RecordsInv
  <1>5. RecordsInv'
    <2>1. lost' \subseteq 1 .. Now
      BY <1>2 DEF SweepInv, RecordsInv
    <2>2. \A d \in DOMAIN files' : DOMAIN files'[d] = FileFields /\ files'[d].calib.run \in 0 .. Now
      BY DEF SweepInv, RecordsInv
    <2> QED  BY <1>1, <1>3, <2>1, <2>2 DEF SweepInv, RecordsInv
  <1>6. ASSUME NEW p \in Pairs \ (sweep.left \cup sweep.failed)
        PROVE  Reported(p)'
    <2>1. Reported(p)
      BY DEF SweepInv, Busy, Early, Late
    <2>2. Dir(CfgOf(sweep.setting), p) \in DOMAIN files
      BY <2>1 DEF Reported
    <2>3. Dir(CfgOf(sweep.setting), p) # Here
      BY <1>2, <1>4 DEF Here, Process, Dir
    <2>4. exec \in Seq(Processes) /\ \A i \in 1 .. Now : exec'[i] = exec[i]
      BY <1>1 DEF SweepInv, RecordsInv
    <2>5. \A n \in 1 .. Now : exec[n].clients = p => (n \in lost' <=> n \in lost)
      <3>1. exec[Now].clients = NextPair /\ p # NextPair
        BY <1>2, <1>4 DEF Process
      <3> QED  BY <3>1
    <2>6. /\ Dir(CfgOf(sweep.setting), p) \in DOMAIN files'
          /\ files'[Dir(CfgOf(sweep.setting), p)] = files[Dir(CfgOf(sweep.setting), p)]
      BY <2>2, <2>3
    <2> QED  BY <2>1, <2>4, <2>5, <2>6, <1>1, <1>2, <1>3, ReportsStand
  <1>7. sweep.setting \in Settings
    BY DEF SweepInv, Busy, Early, Late
  <1> QED  BY <1>1, <1>5, <1>6, <1>7 DEF SweepInv, Busy, Early, Late

\* What a write does.
LEMMA WriteEffect ==
    ASSUME SweepInv, NEW file \in Own, NEW content, NEW from \in Busy, NEW to \in Busy,
           Write(file, content, from, to)
    PROVE  /\ sweep.pc = from /\ sweep' = [sweep EXCEPT !.pc = to] /\ sweep'.pc = to
           /\ sweep'.setting = sweep.setting /\ sweep'.left = sweep.left
           /\ sweep'.since = sweep.since
           /\ exec' = exec /\ lost' = lost /\ Now' = Now /\ Here' = Here /\ NextPair' = NextPair
           /\ Now \in Nat /\ Now > 0 /\ Here \in DOMAIN files
           /\ DOMAIN files' = DOMAIN files /\ DOMAIN files'[Here] = FileFields
           /\ \A d \in DOMAIN files : d # Here => files'[d] = files[d]
           /\ files'[Here][file] = content
           /\ \A f \in FileFields : f # file => files'[Here][f] = files[Here][f]
  <1>1. /\ sweep.pc = from /\ sweep' = [sweep EXCEPT !.pc = to] /\ exec' = exec /\ lost' = lost
        /\ files' = [files EXCEPT ![Here][file] = content]
    BY DEF Write
  <1>2. /\ sweep'.pc = to /\ sweep'.setting = sweep.setting /\ sweep'.left = sweep.left
        /\ sweep'.since = sweep.since
    BY <1>1 DEF SweepInv, RecordsInv
  <1>3. Now' = Now /\ Here' = Here /\ NextPair' = NextPair
    BY <1>1, <1>2 DEF Now, Here, NextPair
  <1>4. Now \in Nat /\ Now > 0 /\ Here \in DOMAIN files
    <2>1. Now \in Nat
      BY DEF SweepInv, RecordsInv, Now
    <2> QED  BY <1>1, <2>1 DEF SweepInv, ProcessInv, RecordsInv
  <1>5. DOMAIN files[Here] = FileFields
    BY <1>4 DEF SweepInv, RecordsInv
  <1>6. file \in FileFields
    BY DEF FileFields
  <1> QED  BY <1>1, <1>2, <1>3, <1>4, <1>5, <1>6

\* A file of the process under way is written.
LEMMA WriteInv ==
    ASSUME SweepInv, NEW file \in Own, NEW content, NEW from \in Busy, NEW to \in Busy,
           Write(file, content, from, to), files'[Here].calib.run \in 0 .. Now,
           to # "running" => files'[Here].log = Whole(Now),
           to \in Early => Now \notin lost /\ files'[Here].calib # Whole(Now),
           to = "closed" => files'[Here].kernels = Whole(Now),
           to \in Late => Dumped(files'[Here], Now),
           to = "written" => files'[Here].results = Whole(Now)
    PROVE  SweepInv'
  <1>1. /\ sweep.pc = from /\ sweep' = [sweep EXCEPT !.pc = to] /\ sweep'.pc = to
        /\ sweep'.setting = sweep.setting /\ sweep'.left = sweep.left
        /\ sweep'.since = sweep.since
        /\ exec' = exec /\ lost' = lost /\ Now' = Now /\ Here' = Here /\ NextPair' = NextPair
        /\ Now \in Nat /\ Now > 0 /\ Here \in DOMAIN files
        /\ DOMAIN files' = DOMAIN files /\ DOMAIN files'[Here] = FileFields
        /\ \A d \in DOMAIN files : d # Here => files'[d] = files[d]
        /\ files'[Here][file] = content
        /\ \A f \in FileFields : f # file => files'[Here][f] = files[Here][f]
    BY WriteEffect, Zenon
  <1>2. sweep.left # {} /\ Now > sweep.since /\ exec[Now] = Process(sweep.setting, NextPair)
    BY <1>1 DEF SweepInv, ProcessInv
  <1>3. ProcessInv'
    BY <1>1, <1>2 DEF ProcessInv, Whole, Dumped, Process
  <1> QED  BY <1>1, <1>3, ProcessStep

LEMMA RunDemoSweepInv ==
    ASSUME SweepInv,
           \/ WriteLog \/ OpenKernels \/ CloseKernels \/ WriteCalib \/ DumpFails
           \/ OpenResults \/ CloseResults
    PROVE  SweepInv'
  <1> USE DEF Busy, Early, Late, Own, FileFields
  <1>0. ASSUME sweep.pc \in Busy
        PROVE  /\ Here \in DOMAIN files /\ files[Here].calib.run \in 0 .. Now /\ Now \in Nat
               /\ sweep.pc # "running" => files[Here].log = Whole(Now)
               /\ sweep.pc \in Early => Now \notin lost /\ files[Here].calib # Whole(Now)
               /\ sweep.pc = "closed" => files[Here].kernels = Whole(Now)
               /\ sweep.pc \in Late => Dumped(files[Here], Now)
    BY <1>0 DEF SweepInv, ProcessInv, RecordsInv, Now
  <1>1. CASE WriteLog
    <2>1. Write("log", Whole(Now), "running", "logged") /\ sweep.pc = "running"
      BY <1>1 DEF WriteLog, Write
    <2>2. files'[Here].log = Whole(Now) /\ files'[Here].calib = files[Here].calib
      BY <2>1, WriteEffect
    <2> QED  BY <1>0, <2>1, <2>2, WriteInv
  <1>2. CASE OpenKernels
    <2>1. Write("kernels", Partial(Now), "logged", "dumping") /\ sweep.pc = "logged"
      BY <1>2 DEF OpenKernels, Write
    <2>2. files'[Here].log = files[Here].log /\ files'[Here].calib = files[Here].calib
      BY <2>1, WriteEffect
    <2> QED  BY <1>0, <2>1, <2>2, WriteInv
  <1>3. CASE CloseKernels
    <2>1. Write("kernels", Whole(Now), "dumping", "closed") /\ sweep.pc = "dumping"
      BY <1>3 DEF CloseKernels, Write
    <2>2. /\ files'[Here].log = files[Here].log /\ files'[Here].calib = files[Here].calib
          /\ files'[Here].kernels = Whole(Now)
      BY <2>1, WriteEffect
    <2> QED  BY <1>0, <2>1, <2>2, WriteInv
  <1>4. CASE WriteCalib
    <2>1. Write("calib", Whole(Now), "closed", "dumped") /\ sweep.pc = "closed"
      BY <1>4 DEF WriteCalib, Write
    <2>2. /\ files'[Here].log = files[Here].log /\ files'[Here].kernels = files[Here].kernels
          /\ files'[Here].calib = Whole(Now)
      BY <2>1, WriteEffect
    <2>3. files'[Here].calib.run \in 0 .. Now
      BY <1>0, <2>1, <2>2 DEF Whole
    <2>4. Dumped(files'[Here], Now)
      BY <1>0, <2>1, <2>2 DEF Dumped
    <2> QED  BY <1>0, <2>1, <2>2, <2>3, <2>4, WriteInv
  <1>5. CASE OpenResults
    <2>1. Write("results", Partial(Now), "dumped", "writing") /\ sweep.pc = "dumped"
      BY <1>5 DEF OpenResults, Write
    <2>2. /\ files'[Here].log = files[Here].log /\ files'[Here].kernels = files[Here].kernels
          /\ files'[Here].calib = files[Here].calib
      BY <2>1, WriteEffect
    <2>3. Dumped(files'[Here], Now)
      BY <1>0, <2>1, <2>2 DEF Dumped
    <2> QED  BY <1>0, <2>1, <2>2, <2>3, WriteInv
  <1>6. CASE CloseResults
    <2>1. Write("results", Whole(Now), "writing", "written") /\ sweep.pc = "writing"
      BY <1>6 DEF CloseResults, Write
    <2>2. /\ files'[Here].log = files[Here].log /\ files'[Here].kernels = files[Here].kernels
          /\ files'[Here].calib = files[Here].calib /\ files'[Here].results = Whole(Now)
      BY <2>1, WriteEffect
    <2>3. Dumped(files'[Here], Now)
      BY <1>0, <2>1, <2>2 DEF Dumped
    <2> QED  BY <1>0, <2>1, <2>2, <2>3, WriteInv
  <1>7. CASE DumpFails
    <2>1. /\ sweep.pc \in {"logged", "closed"} /\ sweep' = [sweep EXCEPT !.pc = "dumped"]
          /\ lost' = lost \cup {Now} /\ UNCHANGED <<files, exec>>
      BY <1>7 DEF DumpFails
    <2>2. /\ sweep'.pc = "dumped" /\ sweep'.setting = sweep.setting /\ sweep'.left = sweep.left
          /\ sweep'.since = sweep.since
      BY <2>1 DEF SweepInv, RecordsInv
    <2>3. Now' = Now /\ Here' = Here /\ NextPair' = NextPair
      BY <2>1, <2>2 DEF Now, Here, NextPair
    <2>4. /\ Here \in DOMAIN files /\ files[Here].calib.run \in 0 .. Now
          /\ files[Here].log = Whole(Now) /\ files[Here].calib # Whole(Now)
          /\ DOMAIN files[Here] = FileFields
      BY <1>0, <2>1 DEF SweepInv, RecordsInv
    <2>5. ProcessInv'
      <3>1. sweep.left # {} /\ Now > sweep.since /\ exec[Now] = Process(sweep.setting, NextPair)
        BY <2>1 DEF SweepInv, ProcessInv
      <3> QED  BY <2>1, <2>2, <2>3, <2>4, <3>1 DEF ProcessInv, Whole, Dumped, Process
    <2> QED  BY <2>1, <2>4, <2>5, ProcessStep
  <1> QED  BY <1>1, <1>2, <1>3, <1>4, <1>5, <1>6, <1>7

\* A process ends: with its files complete, it is reported; else its pair is
\* among the failed.
LEMMA EndOfProcessInv ==
    ASSUME SweepInv, Exit \/ Crash
    PROVE  SweepInv'
  <1>1. /\ sweep.pc \in Busy /\ sweep'.pc = "pairs" /\ sweep'.setting = sweep.setting
        /\ sweep'.left = sweep.left \ {NextPair} /\ sweep'.since = sweep.since
        /\ DOMAIN sweep' = {"pc", "n", "setting", "left", "failed", "since"}
        /\ UNCHANGED <<files, exec, lost>>
    BY DEF Exit, Crash, Returned, Busy, Early, Late, SweepInv, RecordsInv
  <1>2. Now' = Now
    BY <1>1 DEF Now
  <1>3. NextPair \in sweep.left /\ sweep.left \in SUBSET Pairs
    BY <1>1, NextPairIn DEF SweepInv, RecordsInv, ProcessInv
  <1>4. \A p : Reported(p) => Reported(p)'
    BY <1>1, <1>2 DEF Reported, Dumped
  <1>0. DOMAIN sweep = {"pc", "n", "setting", "left", "failed", "since"}
    BY DEF SweepInv, RecordsInv
  <1>5. /\ sweep.failed \subseteq sweep'.failed
        /\ NextPair \notin sweep'.failed => sweep.pc = "written"
    <2>1. CASE Exit
      BY <1>0, <2>1 DEF Exit, Returned
    <2>2. CASE Crash
      BY <1>0, <2>2 DEF Crash, Returned
    <2> QED  BY <2>1, <2>2
  <1>6. ASSUME NEW p, p = NextPair, p \notin sweep'.failed
        PROVE  Reported(p)'
    <2>1. sweep.pc = "written"
      BY <1>5, <1>6
    <2>2. /\ Now > sweep.since /\ Here \in DOMAIN files
          /\ exec[Now] = Process(sweep.setting, NextPair)
          /\ files[Here].log = Whole(Now) /\ Dumped(files[Here], Now)
          /\ files[Here].results = Whole(Now)
      BY <2>1 DEF SweepInv, ProcessInv, Busy, Late
    <2>3. Here = Dir(CfgOf(sweep.setting), NextPair)
          /\ exec[Now].setting = sweep.setting /\ exec[Now].clients = NextPair
      BY <2>2 DEF Here, Process
    <2>4. Now \in 1 .. Now
      BY <2>2 DEF Now, SweepInv, RecordsInv
    <2>5. Reported(p)
      BY <1>6, <2>2, <2>3, <2>4 DEF Reported
    <2> QED  BY <2>5, <1>4
  <1>7. ASSUME NEW p \in Pairs \ (sweep'.left \cup sweep'.failed)
        PROVE  Reported(p)'
    <2>1. CASE p = NextPair
      BY <1>6, <2>1
    <2>2. CASE p # NextPair
      BY <1>1, <1>4, <1>5, <2>2 DEF SweepInv, Busy, Early, Late
    <2> QED  BY <2>1, <2>2
  <1>8. RecordsInv'
    BY <1>1, <1>2, <1>3 DEF SweepInv, RecordsInv
  <1> QED  BY <1>1, <1>7, <1>8 DEF SweepInv, ProcessInv, Busy, Early, Late

\* The export adds traces to directories and nothing else.
LEMMA AnalyzeFiles ==
    ASSUME SweepInv, Analyze
    PROVE  /\ UNCHANGED <<exec, sweep, lost>> /\ DOMAIN files' = DOMAIN files
           /\ \A e \in DOMAIN files :
                /\ \A file \in Own : files'[e][file] = files[e][file]
                /\ DOMAIN files'[e] = FileFields
  <1>1. \A e \in DOMAIN files : DOMAIN files[e] = FileFields
    BY DEF SweepInv, RecordsInv
  <1>2. \/ files' = files
        \/ \E t : files' = [files EXCEPT ![NextDir].trace = t]
    BY DEF Analyze
  <1>3. UNCHANGED <<exec, sweep, lost>>
    BY DEF Analyze
  <1> QED  BY <1>1, <1>2, <1>3 DEF FileFields, Own

LEMMA ExportSweepInv ==
    ASSUME SweepInv, Analyze
    PROVE  SweepInv'
  <1>1. /\ UNCHANGED <<exec, sweep, lost>> /\ DOMAIN files' = DOMAIN files
        /\ \A e \in DOMAIN files :
             /\ files'[e].log = files[e].log /\ files'[e].kernels = files[e].kernels
             /\ files'[e].calib = files[e].calib /\ files'[e].results = files[e].results
             /\ DOMAIN files'[e] = FileFields
    BY AnalyzeFiles DEF Own
  <1>2. Now' = Now /\ Here' = Here /\ NextPair' = NextPair /\ Whole(Now)' = Whole(Now)
    BY <1>1 DEF Now, Here, NextPair, Whole
  <1>3. \A p : Reported(p) => Reported(p)'
    BY <1>1, <1>2 DEF Reported, Dumped
  <1>4. RecordsInv'
    BY <1>1, <1>2 DEF SweepInv, RecordsInv
  <1>5. ProcessInv'
    BY <1>1, <1>2 DEF SweepInv, ProcessInv, Dumped
  <1> QED  BY <1>1, <1>3, <1>4, <1>5 DEF SweepInv

LEMMA NextSweepInv == SweepInv /\ [Next]_vars => SweepInv'
  <1> SUFFICES ASSUME SweepInv, [Next]_vars PROVE SweepInv'
    OBVIOUS
  <1>1. ASSUME UNCHANGED <<files, exec, sweep, lost>> PROVE SweepInv'
    BY <1>1 DEF SweepInv, RecordsInv, ProcessInv, Reported, Dumped, Now, Here, NextPair
  <1>2. CASE SweepNext
    BY <1>2, StartSweepInv, ScriptSweepInv, RunPairInv, RunDemoSweepInv, EndOfProcessInv
       DEF SweepNext
  <1>3. CASE Begin \/ ListEntry \/ Scan \/ Analyzed \/ EndScan \/ Build \/ WriteIndex
             \/ Interrupt \/ Open \/ UNCHANGED vars
    BY <1>1, <1>3 DEF Begin, ListEntry, Scan, Analyzed, EndScan, Build, WriteIndex,
                      Interrupt, Open
  <1> QED  BY <1>2, <1>3, ExportSweepInv DEF Next

\* What the sweep knows of the process under way and of those that ended, of
\* dumps that gave up as well.
THEOREM SweepInductive == Spec => []SweepInv
  BY InitSweepInv, NextSweepInv, PTL DEF Spec

\* When a sweep has ended, each pair it did not list as failed has, in the
\* directory of its setting, log and results of one process of this very sweep,
\* and that process's records too unless its dump gave up: then the calibration
\* there is not its own.
THEOREM ReportIsTrue == Spec => []SweepReportsTruth
  <1>1. ASSUME SweepInv PROVE SweepReportsTruth
    <2> SUFFICES ASSUME sweep.pc = "done", NEW p \in Pairs \ sweep.failed
                 PROVE  LET f == files[Dir(CfgOf(sweep.setting), p)]
                            n == f.results.run
                        IN  /\ f.log = Whole(n) /\ f.results = Whole(n) /\ n > sweep.since
                            /\ exec[n].setting = sweep.setting /\ exec[n].clients = p
                            /\ n \in lost <=> f.calib # Whole(n)
                            /\ n \notin lost => f.kernels = Whole(n)
      BY DEF SweepReportsTruth
    <2>1. Reported(p)
      BY <1>1 DEF SweepInv
    <2>2. \A n : Whole(n).run = n
      BY DEF Whole
    <2> QED  BY <2>1, <2>2 DEF Reported, Dumped
  <1> QED  BY <1>1, SweepInductive, PTL

(***************************************************************************)
(* The pages                                                               *)
(***************************************************************************)
\* Pages are never taken away, and the index is made of those written.
LinksInv ==
    /\ "built" \in DOMAIN export /\ export.built \in Seq(DOMAIN pages)
    /\ index \subseteq DOMAIN pages
    /\ view \subseteq DOMAIN pages

LEMMA NextLinks == LinksInv /\ [Next]_vars => LinksInv'
  <1> SUFFICES ASSUME LinksInv, [Next]_vars PROVE LinksInv'
    OBVIOUS
  <1>1. ASSUME UNCHANGED <<pages, index, view>>, "built" \in DOMAIN export',
               export'.built \in {export.built, <<>>}
        PROVE  LinksInv'
    BY <1>1, EmptySeq DEF LinksInv
  <1>2. CASE SweepNext /\ UNCHANGED exportVars
    BY <1>1, <1>2 DEF LinksInv
  <1>3. CASE Begin
    BY <1>1, <1>3 DEF Begin, NoScript
  <1>4. CASE ListEntry
    BY <1>1, <1>4 DEF ListEntry, LinksInv
  <1>5. CASE Scan
    BY <1>1, <1>5 DEF Scan, EnsureTrace, Accept, Skip, Die, NoScript, LinksInv
  <1>6. CASE Analyze
    BY <1>1, <1>6 DEF Analyze, Skip, LinksInv
  <1>7. CASE Analyzed
    BY <1>1, <1>7 DEF Analyzed, Accept, Die, NoScript, LinksInv
  <1>8. CASE EndScan
    BY <1>1, <1>8 DEF EndScan, LinksInv
  <1>9. CASE Build
    <2> DEFINE page == Page(export.found[Len(export.built) + 1])
    <2>1. CASE UNCHANGED pages /\ Die
      BY <1>1, <1>9, <2>1 DEF Build, Die, NoScript, LinksInv
    <2>2. CASE DOMAIN pages' = DOMAIN pages \cup {page}
               /\ export' = [export EXCEPT !.built = Append(@, page)]
      <3>1. export.built \in Seq(DOMAIN pages') /\ page \in DOMAIN pages'
        BY <2>2, SeqMonotonic DEF LinksInv
      <3>2. export'.built = Append(export.built, page) /\ "built" \in DOMAIN export'
        BY <2>2 DEF LinksInv
      <3>3. UNCHANGED <<index, view>>
        BY <1>9 DEF Build
      <3> HIDE DEF page
      <3> QED  BY <2>2, <3>1, <3>2, <3>3 DEF LinksInv
    <2> QED  BY <1>9, <2>1, <2>2 DEF Build
  <1>10. CASE WriteIndex
    <2>1. index' \subseteq DOMAIN pages
      BY <1>10 DEF WriteIndex, LinksInv, ToSet
    <2>2. export'.built = export.built /\ "built" \in DOMAIN export'
      BY <1>10 DEF WriteIndex, LinksInv
    <2> QED  BY <1>10, <2>1, <2>2 DEF WriteIndex, LinksInv
  <1>11. CASE Interrupt
    BY <1>1, <1>11 DEF Interrupt, Die, NoScript, LinksInv
  <1>12. CASE Open
    BY <1>12 DEF Open, LinksInv
  <1>13. CASE UNCHANGED vars
    BY <1>1, <1>13 DEF LinksInv
  <1> QED  BY <1>2, <1>3, <1>4, <1>5, <1>6, <1>7, <1>8, <1>9, <1>10, <1>11, <1>12, <1>13
           DEF Next

\* Whatever exports do, and wherever they die, the links of every index that
\* was ever served lead to pages.
THEOREM LinksStayOpen == Spec => []ServedLinksOpen
  <1>1. Init => LinksInv
    BY EmptySeq DEF Init, NoScript, LinksInv
  <1>2. LinksInv => ServedLinksOpen
    BY DEF LinksInv, ServedLinksOpen
  <1> QED  BY <1>1, <1>2, NextLinks, PTL DEF Spec

(***************************************************************************)
(* The runs and the scan                                                   *)
(***************************************************************************)
\* Process n is the only one of the directory, and the files are its own: the
\* calibration is there only when the log and the records before it are
\* complete, and the trace was made of complete ones.
OwnTrace(trace, n) ==
    /\ trace.kernels = Whole(n) /\ trace.calib = Whole(n)
    /\ exec[n].mode # "seq" => trace.log = Whole(n)

OwnFiles(f, n) ==
    /\ f.results \in {Absent, Partial(n), Whole(n)}
    /\ f.calib # Absent => OwnTrace(f, n)
    /\ f.trace # Absent => OwnTrace(f.trace, n)

OwnPage(page, n) == page.results = n /\ OwnTrace(page.trace, n)

ExportFields == {"pc", "n", "entries", "todo", "found", "built", "reads", "skipped", "refused",
                 "finished", "since", "complete"}
Cfgs == [thr : Int, sm : Int]
Dirs == [cfg : Cfgs, name : Seq(Nat)]

\* What results.json can be when n processes have begun.
Results(n) == {Absent} \cup {Partial(i) : i \in 1 .. n} \cup {Whole(i) : i \in 1 .. n}

\* The directories, and how far the script is among them.
ScanInv ==
    /\ IsFiniteSet(DOMAIN files) /\ DOMAIN files \subseteq Dirs
    /\ \A d \in DOMAIN files : Runs(d) # {} /\ files[d].results \in Results(Now)
    /\ DOMAIN export = ExportFields
    /\ export.todo \subseteq DOMAIN files
    /\ \A d, e \in export.todo : d.cfg = e.cfg
    /\ export.pc \in {"idle", "scan", "analyze", "analyzed", "build"}
    /\ export.pc \in {"analyze", "analyzed"} => export.todo # {}
    /\ export.pc = "analyzed" => files[NextDir].trace # Absent
    /\ export.found \in Seq([dir : Dirs, cfg : Cfgs, clients : Seq(Nat)])
    /\ \A i \in 1 .. Len(export.found) :
          export.found[i].dir \in DOMAIN files /\ files[export.found[i].dir].trace # Absent

\* A directory used once.
OneInv ==
    /\ \A d \in DOMAIN files : \A n \in Runs(d) : Runs(d) = {n} => OwnFiles(files[d], n)
    /\ sweep.pc \in Early /\ Runs(Here) = {Now} => files[Here].calib = Absent
    /\ export.pc = "analyze" =>
          \A n \in Runs(NextDir) : Runs(NextDir) = {n} => OwnFiles(export.reads, n)
    /\ \A p \in DOMAIN pages :
          /\ pages[p].dir \in DOMAIN files
          /\ \A n \in Runs(pages[p].dir) : Runs(pages[p].dir) = {n} => OwnPage(pages[p], n)

Settled(d) == d \in export.finished /\ \A n \in Runs(d) : n <= export.since
Found(d) == \E i \in 1 .. Len(export.found) :
    export.found[i].dir = d /\ export.found[i].cfg = CfgShown(d)
Refused(d) == d \in export.refused /\ (ModeOf(d) # "seq" => d \in export.skipped)

\* A run that was finished when the script began.
ShownInv ==
    /\ export.since \in Nat /\ export.since <= Now /\ export.finished \subseteq DOMAIN files
    /\ sweep.pc \in Early \cup {"dumped"} => files[Here].results.run # Now
    /\ sweep.pc = "writing" => files[Here].results = Partial(Now)
    /\ export.complete => export.pc = "idle"
    /\ export.pc \in {"scan", "analyze", "analyzed"} => export.built = <<>>
    /\ export.pc = "build" =>
          /\ Len(export.built) <= Len(export.found)
          /\ \A i \in 1 .. Len(export.built) : export.built[i] = Page(export.found[i])
    /\ \A d : Settled(d) =>
          /\ export.pc # "idle" => d \in DOMAIN files /\ Finished(d)
          /\ export.pc \in {"scan", "analyze", "analyzed"} =>
                d.cfg \in export.entries \/ d \in export.todo \/ Found(d) \/ Refused(d)
          /\ export.pc = "analyze" /\ d = NextDir => OfOne(d, export.reads)
          /\ export.pc = "build" => Found(d) \/ Refused(d)
          /\ export.complete => Page([dir |-> d, cfg |-> CfgShown(d)]) \in index \/ Refused(d)

(***************************************************************************)
(* The order of names                                                      *)
(***************************************************************************)
LEMMA NatHasLeast ==
    ASSUME NEW S \in SUBSET Nat, S # {}
    PROVE  \E n \in S : \A m \in S : n <= m
  <1> DEFINE Less == OpToRel(<, Nat)
  <1>1. PICK n \in S : \A m \in S : <<m, n>> \notin Less
    <2>1. IsWellFoundedOn(Less, Nat)
      BY NatLessThanWellFounded
    <2> HIDE DEF Less
    <2> QED BY <2>1, WFMin
  <1>2. \A i, j \in Nat : <<i, j>> \in Less <=> i < j
    BY DEF OpToRel
  <1> HIDE DEF Less
  <1>3. ASSUME NEW m \in S PROVE n <= m
    <2>1. m \in Nat /\ n \in Nat /\ ~(m < n)
      BY <1>1, <1>2
    <2> QED BY <2>1
  <1> QED BY <1>3

\* Of two names one comes first.
LEMMA NamesTotal ==
    ASSUME NEW a \in Seq(Nat), NEW b \in Seq(Nat), a # b
    PROVE  NameBefore(a, b) \/ NameBefore(b, a)
  <1> DEFINE D == {i \in Nat : i \in 1 .. Len(a) /\ i \in 1 .. Len(b) /\ a[i] # b[i]}
  <1>1. CASE D = {}
    <2>1. \A i \in 1 .. Len(a) : i \in 1 .. Len(b) => a[i] = b[i]
      BY <1>1
    <2>2. CASE Len(a) = Len(b)
      BY <2>1, <2>2, SMTT(30)
    <2>3. CASE Len(a) < Len(b)
      BY <2>1, <2>3 DEF NameBefore
    <2>4. CASE Len(b) < Len(a)
      BY <2>1, <2>4 DEF NameBefore
    <2> QED BY <2>2, <2>3, <2>4
  <1>2. CASE D # {}
    <2>1. PICK i \in D : \A j \in D : i <= j
      BY <1>2, NatHasLeast
    <2>2. i \in 1 .. Len(a) /\ i \in 1 .. Len(b) /\ a[i] # b[i]
      BY <2>1
    <2>3. \A j \in 1 .. i - 1 : a[j] = b[j]
      <3>1. SUFFICES ASSUME NEW j \in 1 .. i - 1, a[j] # b[j] PROVE FALSE
        OBVIOUS
      <3>2. j \in D /\ j < i
        BY <2>2, <3>1
      <3> HIDE DEF D
      <3> QED BY <2>1, <2>2, <3>2
    <2> HIDE DEF D
    <2>4. a[i] \in Nat /\ b[i] \in Nat /\ i \in DOMAIN a \cap DOMAIN b
      BY <2>2
    <2>5. a[i] < b[i] \/ b[i] < a[i]
      BY <2>2, <2>4
    <2> QED BY <2>3, <2>4, <2>5 DEF NameBefore
  <1> QED BY <1>1, <1>2

LEMMA NamesStrict ==
    ASSUME NEW a \in Seq(Nat)
    PROVE  ~NameBefore(a, a)
  BY DEF NameBefore

LEMMA NamesTransitive ==
    ASSUME NEW a \in Seq(Nat), NEW b \in Seq(Nat), NEW c \in Seq(Nat),
           NameBefore(a, b), NameBefore(b, c)
    PROVE  NameBefore(a, c)
  <1> DEFINE Pre(x, y) == Len(x) < Len(y) /\ \A j \in 1 .. Len(x) : x[j] = y[j]
             LessAt(x, y, i) == /\ i \in 1 .. Len(x) /\ i \in 1 .. Len(y) /\ x[i] < y[i]
                                /\ \A j \in 1 .. i - 1 : x[j] = y[j]
  <1>1. ASSUME NEW x \in Seq(Nat), NEW y \in Seq(Nat)
        PROVE  NameBefore(x, y) <=> Pre(x, y) \/ \E i \in 1 .. Len(x) : LessAt(x, y, i)
    <2>1. DOMAIN x = 1 .. Len(x) /\ DOMAIN y = 1 .. Len(y)
      OBVIOUS
    <2> QED BY <2>1, Zenon DEF NameBefore
  <1>2. ASSUME Pre(a, c) \/ \E i \in 1 .. Len(a) : LessAt(a, c, i) PROVE NameBefore(a, c)
    BY <1>1, <1>2
  <1>3. CASE Pre(a, b) /\ Pre(b, c)
    BY <1>2, <1>3
  <1>4. ASSUME Pre(a, b), NEW i \in 1 .. Len(b), LessAt(b, c, i) PROVE NameBefore(a, c)
    <2>1. CASE i <= Len(a)
      <3>1. LessAt(a, c, i)
        BY <1>4, <2>1
      <3> QED BY <1>2, <2>1, <3>1
    <2>2. CASE i > Len(a)
      <3>1. Pre(a, c)
        BY <1>4, <2>2
      <3> QED BY <1>2, <3>1
    <2> QED BY <2>1, <2>2
  <1>5. ASSUME NEW i \in 1 .. Len(a), LessAt(a, b, i), Pre(b, c) PROVE NameBefore(a, c)
    <2>1. LessAt(a, c, i)
      BY <1>5
    <2> QED BY <1>2, <2>1
  <1>6. ASSUME NEW i \in 1 .. Len(a), LessAt(a, b, i), NEW k \in 1 .. Len(b), LessAt(b, c, k)
        PROVE  NameBefore(a, c)
    <2>0. a[i] \in Nat /\ b[i] \in Nat /\ b[k] \in Nat /\ c[k] \in Nat
      <3>1. i \in 1 .. Len(b) /\ k \in 1 .. Len(c)
        BY <1>6
      <3> HIDE DEF LessAt
      <3> QED BY <3>1, SMTT(30)
    <2>1. CASE i < k
      <3>1. b[i] = c[i] /\ i \in 1 .. Len(c)
        BY <1>6, <2>1
      <3>2. \A j \in 1 .. i - 1 : a[j] = c[j]
        BY <1>6, <2>1
      <3>3. LessAt(a, c, i)
        BY <1>6, <3>1, <3>2
      <3> QED BY <1>2, <3>3
    <2>2. CASE i = k
      <3>1. LessAt(a, c, i)
        BY <1>6, <2>0, <2>2, SMTT(30)
      <3> QED BY <1>2, <3>1
    <2>3. CASE k < i
      <3>1. a[k] = b[k] /\ k \in 1 .. Len(a)
        BY <1>6, <2>3
      <3>2. \A j \in 1 .. k - 1 : a[j] = c[j]
        BY <1>6, <2>3
      <3>3. LessAt(a, c, k)
        BY <1>6, <3>1, <3>2
      <3> QED BY <1>2, <3>1, <3>3
    <2> QED BY <1>6, <2>1, <2>2, <2>3
  <1> HIDE DEF Pre, LessAt
  <1> QED BY <1>1, <1>3, <1>4, <1>5, <1>6

\* In a set of directories of one configuration one has the first name.
LEMMA FirstDir ==
    ASSUME NEW S, IsFiniteSet(S), S \subseteq Dirs, S # {}, \A d, e \in S : d.cfg = e.cfg
    PROVE  \E d \in S : \A e \in S \ {d} : NameBefore(d.name, e.name)
  <1> DEFINE Down(d) == {e \in S : NameBefore(e.name, d.name)}
             C == {Cardinality(Down(d)) : d \in S}
  <1>1. ASSUME NEW d \in S
        PROVE  d.name \in Seq(Nat) /\ IsFiniteSet(Down(d)) /\ Cardinality(Down(d)) \in Nat
    <2>1. Down(d) \in SUBSET S
      OBVIOUS
    <2>2. IsFiniteSet(Down(d))
      BY <2>1, FS_Subset
    <2>3. Cardinality(Down(d)) \in Nat
      BY <2>2, FS_CardinalityType
    <2>4. d.name \in Seq(Nat)
      BY DEF Dirs
    <2> QED BY <2>2, <2>3, <2>4
  <1>2. C \in SUBSET Nat /\ C # {}
    <2> HIDE DEF Down
    <2> QED BY <1>1
  <1>3. PICK n \in C : \A m \in C : n <= m
    <2> HIDE DEF C
    <2> QED BY <1>2, NatHasLeast
  <1>4. PICK d \in S : n = Cardinality(Down(d))
    BY <1>3
  <1>5. ASSUME NEW e \in S \ {d}, ~NameBefore(d.name, e.name) PROVE FALSE
    <2>1. d.name # e.name
      BY <1>5 DEF Dirs
    <2>2. NameBefore(e.name, d.name)
      BY <1>1, <1>5, <2>1, NamesTotal
    <2>3. Down(e) \subseteq Down(d)
      <3>1. SUFFICES ASSUME NEW x \in S, NameBefore(x.name, e.name) PROVE NameBefore(x.name, d.name)
        OBVIOUS
      <3>2. x.name \in Seq(Nat) /\ e.name \in Seq(Nat) /\ d.name \in Seq(Nat)
        BY <1>1
      <3> QED BY <2>2, <3>1, <3>2, NamesTransitive
    <2>4. e \in Down(d) /\ e \notin Down(e)
      BY <1>1, <2>2, NamesStrict
    <2> HIDE DEF Down
    <2>5. Cardinality(Down(e)) < Cardinality(Down(d))
      <3>1. Down(e) \in SUBSET Down(d) /\ Down(e) # Down(d)
        BY <2>3, <2>4
      <3>2. Cardinality(Down(e)) <= Cardinality(Down(d))
            /\ Cardinality(Down(d)) # Cardinality(Down(e))
        BY <1>1, <3>1, FS_Subset
      <3>3. Cardinality(Down(e)) \in Nat /\ Cardinality(Down(d)) \in Nat
        BY <1>1
      <3> QED BY <3>2, <3>3
    <2>6. Cardinality(Down(e)) \in C
      OBVIOUS
    <2>7. Cardinality(Down(e)) \in Nat /\ Cardinality(Down(d)) \in Nat
      BY <1>1
    <2> HIDE DEF C
    <2> QED BY <1>3, <1>4, <2>5, <2>6, <2>7
  <1> QED BY <1>5

LEMMA NextDirIn ==
    ASSUME ScanInv, export.todo # {}
    PROVE  NextDir \in export.todo
  <1>1. IsFiniteSet(export.todo) /\ export.todo \subseteq Dirs
        /\ \A d, e \in export.todo : d.cfg = e.cfg
    <2>1. export.todo \in SUBSET DOMAIN files
      BY DEF ScanInv
    <2> QED BY <2>1, FS_Subset DEF ScanInv
  <1>2. \E d \in export.todo : \A e \in export.todo \ {d} : NameBefore(d.name, e.name)
    BY <1>1, FirstDir
  <1> QED BY <1>2 DEF NextDir

(***************************************************************************)
(* Processes and their directories                                         *)
(***************************************************************************)
LEMMA ProcessTypes ==
    ASSUME NEW x \in Processes
    PROVE  x.dir \in Dirs /\ x.clients \in Seq(Nat)
  <1>1. CASE x \in {ByHand[n] : n \in DOMAIN ByHand}
    <2> DEFINE Hand == [dir : [cfg : [thr : Int, sm : Int], name : Seq(Nat)],
                        mode : {"seq", "colocated"}, clients : Seq(Nat),
                        setting : [policy : {"fcfs", "throttle"}, throttle : Nat, sm : Nat]]
    <2>1. ByHand \in Seq(Hand)
      BY ByHandAssumption
    <2>2. x \in Hand
      <3> HIDE DEF Hand
      <3> QED BY <1>1, <2>1
    <2>3. x.dir \in [cfg : [thr : Int, sm : Int], name : Seq(Nat)] /\ x.clients \in Seq(Nat)
      BY <2>2
    <2> QED BY <2>3 DEF Dirs, Cfgs
  <1>2. CASE \E s \in Settings, p \in Pairs : x = Process(s, p)
    <2>1. PICK s \in Settings, p \in Pairs : x = Process(s, p)
      BY <1>2
    <2>2. p \in Seq(Nat)
      <3>1. p = <<p[1], p[2]>> /\ p[1] \in Nat /\ p[2] \in Nat
        BY SweepAssumption DEF Pairs
      <3> HIDE DEF Pairs
      <3>2. <<p[1], p[2]>> \in Seq(Nat)
        BY <3>1
      <3> QED BY <3>1, <3>2
    <2>3. CfgOf(s) \in Cfgs
      BY SettingsAssumption DEF CfgOf, Cfgs
    <2> QED BY <2>1, <2>2, <2>3 DEF Process, Dir, Dirs
  <1> QED BY <1>1, <1>2 DEF Processes

LEMMA ExecTypes ==
    ASSUME SweepInv
    PROVE  /\ Now \in Nat /\ DOMAIN exec = 1 .. Now
           /\ \A n \in 1 .. Now : exec[n].dir \in Dirs /\ exec[n].clients \in Seq(Nat)
           /\ \A d : Runs(d) \subseteq 1 .. Now
  BY ProcessTypes DEF SweepInv, RecordsInv, Now, Runs

LEMMA ShownType ==
    ASSUME NEW d \in Dirs
    PROVE  CfgShown(d) \in Cfgs
  BY DEF CfgShown, Shown, Dirs, Cfgs, Solo, NoLimit

LEMMA ResultsWhole ==
    ASSUME NEW n \in Nat, NEW r \in Results(n), r.whole
    PROVE  r.run \in 1 .. n /\ r = Whole(r.run)
  BY DEF Results, Absent, Partial, Whole

\* All the files of a finished directory are there.
LEMMA FinishedFiles ==
    ASSUME NEW d, NEW f, OfOne(d, f)
    PROVE  /\ f.results.whole /\ f.results # Absent /\ f.kernels # Absent
           /\ Readable(d, f)
  <1>1. /\ f.kernels = Whole(f.results.run) /\ f.calib = Whole(f.results.run)
        /\ f.results = Whole(f.results.run)
        /\ ModeOf(d) = "seq" \/ f.log = Whole(f.results.run)
    BY DEF OfOne
  <1>2. Whole(f.results.run) # Absent /\ Whole(f.results.run).whole
    BY DEF Whole, Absent
  <1>3. /\ f.kernels # Absent /\ f.calib # Absent /\ f.results # Absent /\ f.results.whole
        /\ ModeOf(d) = "seq" \/ f.log # Absent
    BY <1>1, <1>2
  <1> QED BY <1>3 DEF Readable

LEMMA ModeOfOne ==
    ASSUME NEW d, NEW n, Runs(d) = {n}
    PROVE  ModeOf(d) = exec[n].mode
  BY DEF ModeOf

LEMMA RunsKept ==
    ASSUME UNCHANGED exec
    PROVE  /\ Now' = Now /\ Here' = Here
           /\ \A d : Runs(d)' = Runs(d) /\ ModeOf(d)' = ModeOf(d) /\ CfgShown(d)' = CfgShown(d)
           /\ \A d, f : OfOne(d, f)' <=> OfOne(d, f)
           /\ \A f, n : OwnFiles(f, n)' <=> OwnFiles(f, n)
           /\ \A f, n : OwnPage(f, n)' <=> OwnPage(f, n)
  <1>1. Now' = Now /\ Here' = Here
    BY DEF Now, Here
  <1>2. \A d : Runs(d)' = Runs(d)
    BY DEF Runs
  <1>3. \A d : ModeOf(d)' = ModeOf(d)
    BY <1>2 DEF ModeOf
  <1>4. \A d : CfgShown(d)' = CfgShown(d)
    BY <1>3 DEF CfgShown
  <1>5. \A d, f : OfOne(d, f)' <=> OfOne(d, f)
    BY <1>3 DEF OfOne
  <1>6. /\ \A f, n : OwnFiles(f, n)' <=> OwnFiles(f, n)
        /\ \A f, n : OwnPage(f, n)' <=> OwnPage(f, n)
    BY DEF OwnFiles, OwnPage, OwnTrace
  <1> QED BY <1>1, <1>2, <1>3, <1>4, <1>5, <1>6

\* A new process in directory d.
LEMMA RunsGrow ==
    ASSUME SweepInv, NEW x, exec' = Append(exec, x), x \in Processes
    PROVE  /\ Now' = Now + 1 /\ Here' = x.dir
           /\ Runs(x.dir)' = Runs(x.dir) \cup {Now + 1}
           /\ \A d : d # x.dir => Runs(d)' = Runs(d)
           /\ \A d : d # x.dir /\ Runs(d) # {} =>
                 /\ ModeOf(d)' = ModeOf(d) /\ CfgShown(d)' = CfgShown(d)
                 /\ \A f : OfOne(d, f)' <=> OfOne(d, f)
           /\ \A n \in 1 .. Now : \A f : OwnFiles(f, n)' <=> OwnFiles(f, n)
           /\ \A n \in 1 .. Now : \A f : OwnPage(f, n)' <=> OwnPage(f, n)
  <1>0. exec \in Seq(Processes) /\ Now \in Nat
    BY DEF SweepInv, RecordsInv, Now
  <1>1. /\ Now' = Now + 1 /\ DOMAIN exec = 1 .. Now /\ DOMAIN exec' = 1 .. Now + 1
        /\ exec'[Now + 1] = x /\ \A n \in 1 .. Now : exec'[n] = exec[n]
    BY <1>0 DEF Now
  <1>2. Here' = x.dir
    BY <1>1 DEF Here
  <1>3. Runs(x.dir)' = Runs(x.dir) \cup {Now + 1} /\ \A d : d # x.dir => Runs(d)' = Runs(d)
    BY <1>0, <1>1 DEF Runs
  <1>4. ASSUME NEW d, d # x.dir, Runs(d) # {}
        PROVE  /\ ModeOf(d)' = ModeOf(d) /\ CfgShown(d)' = CfgShown(d)
               /\ \A f : OfOne(d, f)' <=> OfOne(d, f)
    <2>1. Runs(d)' = Runs(d) /\ Runs(d) \subseteq 1 .. Now
      BY <1>1, <1>3, <1>4 DEF Runs
    <2>2. (CHOOSE n \in Runs(d) : TRUE) \in 1 .. Now
      BY <1>4, <2>1
    <2>3. ModeOf(d)' = ModeOf(d)
      BY <1>1, <2>1, <2>2 DEF ModeOf
    <2> QED BY <2>3 DEF CfgShown, OfOne
  <1>5. /\ \A n \in 1 .. Now : \A f : OwnFiles(f, n)' <=> OwnFiles(f, n)
        /\ \A n \in 1 .. Now : \A f : OwnPage(f, n)' <=> OwnPage(f, n)
    <2>1. \A n \in 1 .. Now : \A f : OwnTrace(f, n)' <=> OwnTrace(f, n)
      BY <1>1 DEF OwnTrace
    <2> QED BY <2>1 DEF OwnFiles, OwnPage
  <1> QED BY <1>1, <1>2, <1>3, <1>4, <1>5

(***************************************************************************)
(* The beginning, and the sweep                                            *)
(***************************************************************************)
LEMMA InitFiles ==
    ASSUME Init, NEW d \in DOMAIN files
    PROVE  /\ d \in Dirs /\ Runs(d) # {} /\ files[d].results \in Results(Now)
           /\ files[d].trace = Absent /\ files[d].results.run \in Runs(d)
           /\ \A n \in Runs(d) : Runs(d) = {n} => OwnFiles(files[d], n)
  <1> DEFINE n == CHOOSE i \in DOMAIN ByHand : ByHand[i].dir = d
  <1>1. d \in {ByHand[i].dir : i \in DOMAIN ByHand}
    BY DEF Init, InitSweep
  <1>2. n \in DOMAIN ByHand /\ ByHand[n].dir = d
    BY <1>1
  <1>3. files[d] = LeftByHand(n)
    BY <1>1 DEF Init, InitSweep
  <1> HIDE DEF n
  <1>4. exec = ByHand /\ exec[n] \in Processes /\ n \in Runs(d) /\ n \in 1 .. Now
    <2>1. DOMAIN ByHand = 1 .. Len(ByHand)
      BY ByHandAssumption
    <2>2. exec = ByHand
      BY DEF Init, InitSweep
    <2>3. exec[n] \in Processes
      BY <1>2, <2>2 DEF Processes
    <2>4. n \in Runs(d) /\ n \in 1 .. Now
      BY <1>2, <2>1, <2>2 DEF Runs, Now
    <2> QED BY <2>2, <2>3, <2>4
  <1>5. d \in Dirs
    BY <1>2, <1>4, ProcessTypes
  <1>6. /\ files[d].kernels = Whole(n) /\ files[d].calib = Whole(n)
        /\ files[d].results = Whole(n) /\ files[d].trace = Absent
        /\ exec[n].mode # "seq" => files[d].log = Whole(n)
    BY <1>3, <1>4 DEF LeftByHand
  <1>7. OwnFiles(files[d], n)
    BY <1>6 DEF OwnFiles, OwnTrace
  <1>8. files[d].results \in Results(Now)
    BY <1>4, <1>6 DEF Results
  <1>9. \A m \in Runs(d) : Runs(d) = {m} => OwnFiles(files[d], m)
    <2>1. \A m \in Runs(d) : Runs(d) = {m} => m = n
      BY <1>4
    <2> QED BY <1>7, <2>1
  <1>10. files[d].results.run \in Runs(d)
    BY <1>4, <1>6 DEF Whole
  <1> QED BY <1>4, <1>5, <1>6, <1>8, <1>9, <1>10

LEMMA InitArtifacts ==
    ASSUME Init
    PROVE  ScanInv /\ OneInv /\ ShownInv
  <1>1. IsFiniteSet(DOMAIN files)
    <2> DEFINE T == {ByHand[n].dir : n \in DOMAIN ByHand}
               f == [n \in 1 .. Len(ByHand) |-> ByHand[n].dir]
    <2>1. DOMAIN ByHand = 1 .. Len(ByHand) /\ Len(ByHand) \in Nat
      BY ByHandAssumption
    <2>2. f \in Surjection(1 .. Len(ByHand), T)
      BY <2>1 DEF Surjection
    <2>3. IsFiniteSet(1 .. Len(ByHand))
      BY <2>1, FS_Interval
    <2>4. IsFiniteSet(T)
      <3> HIDE DEF T, f
      <3> QED BY <2>2, <2>3, FS_Surjection
    <2> QED BY <2>4 DEF Init, InitSweep
  <1>2. /\ export.pc = "idle" /\ export.todo = {} /\ export.found = <<>> /\ ~export.complete
        /\ export.since = 0 /\ export.finished = {} /\ DOMAIN export = ExportFields
        /\ pages = <<>> /\ sweep.pc = "idle"
    BY DEF Init, InitSweep, NoScript, ExportFields
  <1>3. ScanInv
    BY <1>1, <1>2, InitFiles DEF ScanInv
  <1>4. OneInv
    BY <1>2, InitFiles DEF OneInv, Early
  <1>5. ShownInv
    <2>1. Now \in Nat
      BY InitSweepInv, ExecTypes
    <2> QED BY <1>2, <2>1 DEF ShownInv, Settled, Early
  <1> QED BY <1>3, <1>4, <1>5

\* Steps of the script between its processes, and the end of one.
LEMMA QuietSweep ==
    ASSUME ScanInv, OneInv, ShownInv, UNCHANGED <<files, exec, exportVars>>,
           sweep'.pc \notin Early \cup {"dumped", "writing"}
    PROVE  (ScanInv /\ OneInv /\ ShownInv)'
  <1>1. /\ NextDir' = NextDir
        /\ \A d : (Settled(d)' <=> Settled(d)) /\ (Found(d)' <=> Found(d)) /\ (Refused(d)' <=> Refused(d))
    BY RunsKept DEF NextDir, Settled, Found, Refused
  <1>2. \A d : Finished(d)' <=> Finished(d)
    BY RunsKept DEF Finished, Alone
  <1>3. ScanInv'
    BY RunsKept, <1>1 DEF ScanInv
  <1>4. OneInv'
    BY RunsKept, <1>1 DEF OneInv
  <1>5. ShownInv'
    BY RunsKept, <1>1, <1>2 DEF ShownInv
  <1> QED BY <1>3, <1>4, <1>5

\* The latest process is the last of its directory.
LEMMA LastRun ==
    ASSUME SweepInv, Now > 0
    PROVE  Now \in Runs(Here) /\ Max(Runs(Here)) = Now
  <1>1. Now \in Runs(Here) /\ Runs(Here) \subseteq 1 .. Now /\ Now \in Nat
    BY ExecTypes DEF Runs, Here
  <1>2. \E x \in Runs(Here) : \A y \in Runs(Here) : x >= y
    BY <1>1
  <1>3. Max(Runs(Here)) \in Runs(Here) /\ \A y \in Runs(Here) : Max(Runs(Here)) >= y
    BY <1>2 DEF Max
  <1> QED BY <1>1, <1>3

LEMMA RunPairArtifacts ==
    ASSUME SweepInv, ScanInv, OneInv, ShownInv, RunPair, UNCHANGED exportVars
    PROVE  (ScanInv /\ OneInv /\ ShownInv)'
  <1>1. PICK x \in Processes :
           /\ exec' = Append(exec, x) /\ x.dir = Dir(CfgOf(sweep.setting), NextPair)
           /\ sweep'.pc = "running"
    <2>1. NextPair \in Pairs /\ sweep.setting \in Settings
      BY NextPairIn DEF RunPair, SweepInv, RecordsInv
    <2>2. Process(sweep.setting, NextPair) \in Processes
          /\ Process(sweep.setting, NextPair).dir = Dir(CfgOf(sweep.setting), NextPair)
      BY <2>1 DEF Processes, Process
    <2>3. sweep'.pc = "running"
      BY DEF RunPair, SweepInv, RecordsInv
    <2>4. exec' = Append(exec, Process(sweep.setting, NextPair))
      BY DEF RunPair, Process
    <2> QED BY <2>2, <2>3, <2>4
  <1>2. PICK d0 : d0 = x.dir
    OBVIOUS
  <1>3. d0 \in Dirs /\ files' = IF d0 \in DOMAIN files THEN files
                               ELSE [e \in DOMAIN files \cup {d0} |-> IF e = d0 THEN Empty ELSE files[e]]
    BY <1>1, <1>2, ProcessTypes DEF RunPair
  <1>4. /\ Now' = Now + 1 /\ Here' = d0 /\ Now \in Nat
        /\ Runs(d0)' = Runs(d0) \cup {Now + 1}
        /\ \A d : d # d0 => Runs(d)' = Runs(d)
        /\ \A d : d # d0 /\ Runs(d) # {} =>
              /\ ModeOf(d)' = ModeOf(d) /\ CfgShown(d)' = CfgShown(d)
              /\ \A f : OfOne(d, f)' <=> OfOne(d, f)
        /\ \A d : Runs(d) \subseteq 1 .. Now
    <2>1. Now \in Nat /\ \A d : Runs(d) \subseteq 1 .. Now
      BY ExecTypes
    <2>2. /\ Now' = Now + 1 /\ Here' = d0
          /\ Runs(d0)' = Runs(d0) \cup {Now + 1}
          /\ \A d : d # d0 => Runs(d)' = Runs(d)
      BY <1>1, <1>2, RunsGrow
    <2>3. \A d : d # d0 /\ Runs(d) # {} =>
             /\ ModeOf(d)' = ModeOf(d) /\ CfgShown(d)' = CfgShown(d)
             /\ \A f : OfOne(d, f)' <=> OfOne(d, f)
      BY <1>1, <1>2, RunsGrow
    <2> QED BY <2>1, <2>2, <2>3
  <1>4c. \A n \in 1 .. Now : exec'[n] = exec[n]
    BY <1>1 DEF SweepInv, RecordsInv, Now
  <1>4a. \A n \in 1 .. Now : \A f : OwnFiles(f, n)' <=> OwnFiles(f, n)
    BY <1>1, RunsGrow
  <1>4b. \A n \in 1 .. Now : \A f : OwnPage(f, n)' <=> OwnPage(f, n)
    BY <1>1, RunsGrow
  <1>5. /\ DOMAIN files' = DOMAIN files \cup {d0}
        /\ \A d \in DOMAIN files : files'[d] = files[d]
        /\ d0 \notin DOMAIN files => files'[d0] = Empty
    BY <1>3
  <1>6. NextDir' = NextDir /\ UNCHANGED export
    BY DEF NextDir
  <1>7. export.todo # {} => NextDir \in DOMAIN files
    BY NextDirIn DEF ScanInv
  <1>8. Results(Now) \subseteq Results(Now + 1)
    BY <1>4 DEF Results
  <1>9. ScanInv'
    <2>1. IsFiniteSet(DOMAIN files') /\ DOMAIN files' \subseteq Dirs
      BY <1>1, <1>3, <1>5, FS_AddElement DEF ScanInv
    <2>2. \A d \in DOMAIN files' : Runs(d)' # {} /\ files'[d].results \in Results(Now + 1)
      <3>1. ASSUME NEW d \in DOMAIN files
            PROVE  Runs(d)' # {} /\ files'[d].results \in Results(Now + 1)
        <4>1. Runs(d) # {} /\ files'[d].results \in Results(Now)
          BY <1>5 DEF ScanInv
        <4>2. Runs(d) \subseteq Runs(d)'
          BY <1>4
        <4> QED BY <1>8, <4>1, <4>2
      <3>2. d0 \notin DOMAIN files => files'[d0].results \in Results(Now + 1)
        BY <1>5 DEF Empty, Results
      <3>3. Runs(d0)' # {}
        BY <1>4
      <3> QED BY <1>5, <3>1, <3>2, <3>3
    <2>3. export.pc = "analyzed" => files'[NextDir].trace # Absent
      BY <1>5, <1>7 DEF ScanInv
    <2>4. \A i \in 1 .. Len(export.found) :
             export.found[i].dir \in DOMAIN files' /\ files'[export.found[i].dir].trace # Absent
      BY <1>5 DEF ScanInv
    <2>5. Results(Now)' = Results(Now + 1)
      BY <1>4 DEF Results
    <2> QED BY <1>5, <1>6, <2>1, <2>2, <2>3, <2>4, <2>5 DEF ScanInv
  <1>10. ASSUME NEW d \in DOMAIN files, NEW n \in Runs(d)', Runs(d)' = {n}
         PROVE  d # d0 /\ n \in Runs(d) /\ Runs(d) = {n} /\ n \in 1 .. Now
    <2>1. Runs(d) # {} /\ Runs(d) \subseteq 1 .. Now
      BY <1>4 DEF ScanInv
    <2>2. d # d0
      <3>1. SUFFICES ASSUME d = d0 PROVE FALSE
        OBVIOUS
      <3>2. Runs(d) \cup {Now + 1} = {n} /\ Now + 1 \notin Runs(d)
        BY <1>4, <1>10, <2>1, <3>1
      <3> QED BY <2>1, <3>2
    <2> QED BY <1>4, <1>10, <2>1, <2>2
  <1>11. OneInv'
    <2>1. ASSUME NEW d \in DOMAIN files', NEW n \in Runs(d)', Runs(d)' = {n}
          PROVE  OwnFiles(files[d], n)'
      <3>1. CASE d \in DOMAIN files
        <4>1. d # d0 /\ n \in Runs(d) /\ Runs(d) = {n} /\ n \in 1 .. Now
          BY <1>10, <2>1, <3>1
        <4>2. OwnFiles(files[d], n) /\ files'[d] = files[d]
          BY <1>5, <3>1, <4>1 DEF OneInv
        <4>3. \A f : OwnFiles(f, n)' <=> OwnFiles(f, n)
          BY <1>4a, <4>1
        <4> QED BY <4>2, <4>3 DEF OwnFiles, OwnTrace
      <3>2. CASE d \notin DOMAIN files
        BY <1>5, <3>2 DEF OwnFiles, Empty
      <3> QED BY <3>1, <3>2
    <2>2. ASSUME Runs(Here)' = {Now'} PROVE files'[Here'].calib = Absent
      <3>1. d0 \notin DOMAIN files
        <4>1. SUFFICES ASSUME d0 \in DOMAIN files PROVE FALSE
          OBVIOUS
        <4>2. Now + 1 \in Runs(d0)' /\ Runs(d0)' = {Now + 1}
          <5>1. Runs(Here)' = Runs(d0)'
            BY <1>4 DEF Runs
          <5> QED BY <1>4, <2>2, <5>1
        <4>3. \A d \in DOMAIN files : \A n \in Runs(d)' : Runs(d)' = {n} => d # d0
          BY <1>10
        <4> QED BY <4>1, <4>2, <4>3
      <3> QED BY <1>4, <1>5, <3>1 DEF Empty
    <2>3. ASSUME export.pc = "analyze", NEW n \in Runs(NextDir)', Runs(NextDir)' = {n}
          PROVE  OwnFiles(export.reads, n)'
      <3>1. NextDir \in DOMAIN files /\ n \in Runs(NextDir)' /\ NextDir' = NextDir
        BY <1>6, <1>7, <2>3 DEF ScanInv
      <3>2. \A d : d = NextDir => Runs(d)' = Runs(NextDir)'
        BY <1>6 DEF Runs
      <3>3. Runs(NextDir) = {n} /\ n \in 1 .. Now
        BY <1>6, <1>10, <2>3, <3>1, <3>2
      <3>4. OwnFiles(export.reads, n)
        BY <2>3, <3>3 DEF OneInv
      <3>5. \A f : OwnFiles(f, n)' <=> OwnFiles(f, n)
        BY <1>4a, <3>3
      <3> QED BY <1>6, <3>4, <3>5 DEF OwnFiles, OwnTrace
    <2>4. ASSUME NEW p \in DOMAIN pages
          PROVE  /\ pages[p].dir \in DOMAIN files'
                 /\ \A n \in Runs(pages[p].dir)' : Runs(pages[p].dir)' = {n} => OwnPage(pages[p], n)'
      <3> DEFINE d == pages[p].dir
      <3>1. d \in DOMAIN files /\ pages' = pages
        BY DEF OneInv
      <3>2. Runs(pages[p].dir)' = Runs(d)'
        BY <3>1 DEF Runs
      <3>3. ASSUME NEW n \in Runs(d)', Runs(d)' = {n} PROVE OwnPage(pages[p], n)'
        <4>1. n \in Runs(d) /\ Runs(d) = {n} /\ n \in 1 .. Now
          BY <1>10, <3>1, <3>3
        <4>2. OwnPage(pages[p], n)
          BY <4>1 DEF OneInv
        <4>3. \A f : OwnPage(f, n)' <=> OwnPage(f, n)
          BY <1>4b, <4>1
        <4> QED BY <3>1, <4>2, <4>3 DEF OwnPage, OwnTrace
      <3> QED BY <1>5, <3>1, <3>3
    <2> QED BY <1>1, <1>6, <2>1, <2>2, <2>3, <2>4 DEF OneInv
  <1>12. ShownInv'
    <2>1. ASSUME NEW d, Settled(d)'
          PROVE  /\ d \in DOMAIN files /\ d # d0 /\ Settled(d) /\ Runs(d)' = Runs(d)
                 /\ ModeOf(d)' = ModeOf(d) /\ CfgShown(d)' = CfgShown(d)
                 /\ \A f : OfOne(d, f)' <=> OfOne(d, f)
      <3>1. d \in export.finished /\ d \in DOMAIN files /\ export.since <= Now /\ export.since \in Nat
        BY <1>6, <2>1 DEF Settled, ShownInv
      <3>2. d # d0
        BY <1>4, <1>6, <2>1, <3>1 DEF Settled
      <3> QED BY <1>4, <1>6, <2>1, <3>1, <3>2 DEF Settled, ScanInv
    <2>2. ASSUME NEW d, Settled(d)'
          PROVE  /\ Finished(d) => Finished(d)'
                 /\ Found(d)' <=> Found(d)
                 /\ Refused(d)' <=> Refused(d)
      <3>1. ASSUME Finished(d) PROVE Finished(d)'
        <4>1. PICK n : n = files[d].results.run /\ n \in 1 .. Now
          <5>1. files[d].results.whole /\ files[d].results \in Results(Now)
            BY <2>1, <2>2, <3>1, FinishedFiles DEF Finished, ScanInv
          <5> QED BY <1>4, <5>1, ResultsWhole
        <4>2. exec'[n] = exec[n] /\ files'[d] = files[d]
          BY <1>4c, <1>5, <2>1, <2>2, <4>1
        <4>3. Alone(d)' <=> Alone(d)
          BY <4>1, <4>2 DEF Alone
        <4>4. files'[d].results.run = Max(Runs(d)')
          BY <2>1, <2>2, <3>1, <4>2 DEF Finished
        <4>5. OfOne(d, files[d])'
          BY <2>1, <2>2, <3>1, <4>2 DEF Finished, OfOne
        <4> QED BY <2>1, <2>2, <3>1, <4>3, <4>4, <4>5 DEF Finished
      <3>2. (Found(d)' <=> Found(d)) /\ (Refused(d)' <=> Refused(d))
        BY <1>6, <2>1, <2>2 DEF Found, Refused
      <3> QED BY <3>1, <3>2
    <2>3. files'[Here'].results.run # Now'
      <3>1. \A r \in Results(Now) : r.run # Now + 1
        BY <1>4 DEF Results, Absent, Partial, Whole
      <3> QED BY <1>4, <1>5, <3>1 DEF ScanInv, Empty, Absent
    <2>4. export'.since \in Nat /\ export'.since <= Now' /\ export'.finished \subseteq DOMAIN files'
      BY <1>4, <1>5, <1>6 DEF ShownInv
    <2>5. index' = index
      OBVIOUS
    <2>6. ASSUME NEW d, Settled(d)'
          PROVE  /\ export'.pc # "idle" => d \in DOMAIN files' /\ Finished(d)'
                 /\ export'.pc \in {"scan", "analyze", "analyzed"} =>
                       d.cfg \in export'.entries \/ d \in export'.todo \/ Found(d)' \/ Refused(d)'
                 /\ export'.pc = "analyze" /\ d = NextDir' => OfOne(d, export.reads)'
                 /\ export'.pc = "build" => Found(d)' \/ Refused(d)'
                 /\ export'.complete =>
                       Page([dir |-> d, cfg |-> CfgShown(d)])' \in index' \/ Refused(d)'
      <3>1. OfOne(d, export.reads)' <=> OfOne(d, export.reads)
        BY <1>6, <2>1, <2>6 DEF OfOne
      <3>2. Page([dir |-> d, cfg |-> CfgShown(d)])' = Page([dir |-> d, cfg |-> CfgShown(d)])
        BY <2>1, <2>6 DEF Page
      <3> QED BY <1>5, <1>6, <2>1, <2>2, <2>5, <2>6, <3>1, <3>2 DEF ShownInv
    <2> QED BY <1>1, <1>6, <2>3, <2>4, <2>6 DEF ShownInv
  <1> QED BY <1>9, <1>11, <1>12

\* A process writes a file of its own: the calibration only when the log and
\* the records are complete, and none in a directory that counts as finished.
LEMMA WriteArtifacts ==
    ASSUME SweepInv, ScanInv, OneInv, ShownInv, UNCHANGED exportVars,
           NEW file \in Own, NEW content, NEW from \in Busy, NEW to \in Busy,
           Write(file, content, from, to),
           file \in {"log", "kernels"} => from \in Early /\ to \in Early,
           file = "calib" => from = "closed" /\ to = "dumped" /\ content = Whole(Now),
           file = "results" =>
              /\ from \in {"dumped", "writing"} /\ to \in {"writing", "written"}
              /\ content = IF to = "writing" THEN Partial(Now) ELSE Whole(Now)
    PROVE  (ScanInv /\ OneInv /\ ShownInv)'
  <1>1. /\ sweep.pc = from /\ sweep'.pc = to /\ exec' = exec
        /\ Here \in DOMAIN files /\ Now \in Nat /\ Now > 0
    <2>1. sweep.pc = from /\ sweep'.pc = to /\ exec' = exec
      BY DEF Write, SweepInv, RecordsInv
    <2>2. Here \in DOMAIN files /\ Now \in Nat /\ Now > 0
      <3>1. Now > sweep.since /\ sweep.since \in Nat /\ Here \in DOMAIN files
        BY <2>1 DEF SweepInv, ProcessInv, RecordsInv
      <3> QED BY <3>1, ExecTypes
    <2> QED BY <2>1, <2>2
  <1>2. /\ DOMAIN files' = DOMAIN files
        /\ \A d \in DOMAIN files : d # Here => files'[d] = files[d]
        /\ files'[Here][file] = content
        /\ \A f \in FileFields : f # file => files'[Here][f] = files[Here][f]
    BY WriteEffect
  <1>3. /\ file # "log" => files'[Here].log = files[Here].log
        /\ file # "kernels" => files'[Here].kernels = files[Here].kernels
        /\ file # "calib" => files'[Here].calib = files[Here].calib
        /\ file # "results" => files'[Here].results = files[Here].results
        /\ \A d \in DOMAIN files : files'[d].trace = files[d].trace
    BY <1>2 DEF FileFields, Own
  <1>4. Now' = Now /\ Here' = Here /\ NextDir' = NextDir /\ UNCHANGED export
    BY <1>1, RunsKept DEF NextDir
  <1>5. Now \in Runs(Here) /\ Max(Runs(Here)) = Now
    BY <1>1, LastRun
  <1>6. \A d : Runs(d)' = Runs(d) /\ ModeOf(d)' = ModeOf(d) /\ CfgShown(d)' = CfgShown(d)
    BY <1>1, RunsKept
  <1>7. files'[Here].results \in Results(Now)
    <2>1. CASE file # "results"
      BY <1>1, <1>3, <2>1 DEF ScanInv
    <2>2. CASE file = "results"
      BY <1>1, <1>2, <2>2 DEF Results
    <2> QED BY <2>1, <2>2
  <1>8. ScanInv'
    <2>1. \A d \in DOMAIN files' : Runs(d)' # {} /\ files'[d].results \in Results(Now)
      BY <1>2, <1>6, <1>7 DEF ScanInv
    <2>2. Results(Now)' = Results(Now)
      BY <1>4 DEF Results
    <2>3. export.todo # {} => NextDir \in DOMAIN files
      BY NextDirIn DEF ScanInv
    <2>4. DOMAIN files' = DOMAIN files /\ \A d \in DOMAIN files : files'[d].trace = files[d].trace
      BY <1>2, <1>3
    <2>5. (export.pc = "analyzed" => files[NextDir].trace # Absent)'
      BY <1>4, <2>3, <2>4 DEF ScanInv, Absent
    <2>6. export' = export
      BY <1>4
    <2>7. \A i \in 1 .. Len(export.found) :
            export.found[i].dir \in DOMAIN files' /\ files'[export.found[i].dir].trace # Absent
      BY <2>4 DEF ScanInv
    <2> QED BY <2>1, <2>2, <2>4, <2>5, <2>6, <2>7 DEF ScanInv
  <1>9. OneInv'
    <2>1. ASSUME NEW n \in Runs(Here), Runs(Here) = {n}
          PROVE  OwnFiles(files'[Here], n)
      <3>1. n = Now /\ OwnFiles(files[Here], n) /\ files'[Here].trace = files[Here].trace
        BY <1>1, <1>3, <1>5, <2>1 DEF OneInv
      <3>2. CASE file \in {"log", "kernels"}
        <4>1. files'[Here].calib = Absent /\ files'[Here].results = files[Here].results
          BY <1>1, <1>3, <2>1, <3>1, <3>2 DEF OneInv
        <4> QED BY <3>1, <4>1 DEF OwnFiles
      <3>3. CASE file = "calib"
        <4>1. files[Here].log = Whole(Now) /\ files[Here].kernels = Whole(Now)
          BY <1>1, <3>3 DEF SweepInv, ProcessInv, Busy, Early
        <4>2. /\ files'[Here].log = Whole(Now) /\ files'[Here].kernels = Whole(Now)
              /\ files'[Here].calib = Whole(Now) /\ files'[Here].results = files[Here].results
          BY <1>2, <1>3, <3>3, <4>1
        <4> QED BY <3>1, <4>2 DEF OwnFiles, OwnTrace
      <3>4. CASE file = "results"
        <4>1. /\ files'[Here].log = files[Here].log /\ files'[Here].kernels = files[Here].kernels
              /\ files'[Here].calib = files[Here].calib
              /\ files'[Here].results \in {Partial(Now), Whole(Now)}
          BY <1>2, <1>3, <3>4
        <4> QED BY <3>1, <4>1 DEF OwnFiles, OwnTrace
      <3> QED BY <3>2, <3>3, <3>4 DEF Own
    <2>2. ASSUME NEW d \in DOMAIN files, NEW n \in Runs(d), Runs(d) = {n}
          PROVE  OwnFiles(files'[d], n)
      <3>1. CASE d = Here
        BY <2>1, <2>2, <3>1
      <3>2. CASE d # Here
        BY <1>2, <2>2, <3>2 DEF OneInv
      <3> QED BY <3>1, <3>2
    <2>3. sweep'.pc \in Early /\ Runs(Here) = {Now} => files'[Here].calib = Absent
      BY <1>1, <1>3 DEF OneInv, Own, Early
    <2>4. /\ \A f, n : OwnFiles(f, n)' <=> OwnFiles(f, n)
          /\ \A f, n : OwnPage(f, n)' <=> OwnPage(f, n)
      BY <1>1, RunsKept
    <2>5. Runs(Here)' = Runs(Here) /\ Runs(NextDir)' = Runs(NextDir)
      BY <1>1, <1>4 DEF Runs
    <2>6. \A d \in DOMAIN files' : \A n \in Runs(d)' : Runs(d)' = {n} => OwnFiles(files[d], n)'
      BY <1>2, <1>6, <2>2, <2>4 DEF OwnFiles, OwnTrace
    <2>7. export'.pc = "analyze" =>
             \A n \in Runs(NextDir)' : Runs(NextDir)' = {n} => OwnFiles(export.reads, n)'
      BY <1>1, <1>4, <2>5 DEF OneInv, OwnFiles, OwnTrace
    <2>8. ASSUME NEW p \in DOMAIN pages
          PROVE  /\ pages[p].dir \in DOMAIN files'
                 /\ \A n \in Runs(pages[p].dir)' : Runs(pages[p].dir)' = {n} => OwnPage(pages[p], n)'
      <3>1. Runs(pages[p].dir)' = Runs(pages[p].dir)
        BY <1>1 DEF Runs
      <3> QED BY <1>1, <1>2, <3>1 DEF OneInv, OwnPage, OwnTrace
    <2> QED BY <1>4, <2>3, <2>5, <2>6, <2>7, <2>8 DEF OneInv
  <1>10. ShownInv'
    <2>1. ASSUME NEW d, d \in DOMAIN files, Finished(d)
          PROVE  d # Here
      <3>1. SUFFICES ASSUME d = Here PROVE FALSE
        OBVIOUS
      <3>2. files[Here].results.run = Now /\ files[Here].results = Whole(files[Here].results.run)
        BY <1>5, <2>1, <3>1 DEF Finished, OfOne
      <3>3. from \in Early \cup {"dumped", "writing"}
        BY DEF Own, Early
      <3> QED BY <1>1, <3>2, <3>3 DEF ShownInv, Partial, Whole
    <2>2. ASSUME NEW d, d \in DOMAIN files, Finished(d)
          PROVE  Finished(d)'
      <3>1. files'[d] = files[d]
        BY <1>2, <2>1, <2>2
      <3> QED BY <1>1, <2>2, <3>1, RunsKept DEF Finished, Alone
    <2>3. \A d : (Settled(d)' <=> Settled(d)) /\ (Found(d)' <=> Found(d)) /\ (Refused(d)' <=> Refused(d))
      BY <1>4, <1>6 DEF Settled, Found, Refused
    <2>4. \A d : OfOne(d, export.reads)' <=> OfOne(d, export.reads)
      BY <1>1, RunsKept DEF OfOne
    <2>5. \A d : Page([dir |-> d, cfg |-> CfgShown(d)])' = Page([dir |-> d, cfg |-> CfgShown(d)])
      BY <1>6 DEF Page
    <2>6. /\ sweep'.pc \in Early \cup {"dumped"} => files'[Here].results.run # Now
          /\ sweep'.pc = "writing" => files'[Here].results = Partial(Now)
      <3>1. CASE file = "results"
        BY <1>1, <1>2, <3>1 DEF Early
      <3>2. CASE file # "results"
        BY <1>1, <1>3, <3>2 DEF ShownInv, Own, Early
      <3> QED BY <3>1, <3>2
    <2>7. Partial(Now)' = Partial(Now) /\ files'[Here'] = files'[Here]
      BY <1>4 DEF Partial
    <2>8. ASSUME NEW d, Settled(d)'
          PROVE  /\ export'.pc # "idle" => d \in DOMAIN files' /\ Finished(d)'
                 /\ export'.pc \in {"scan", "analyze", "analyzed"} =>
                       d.cfg \in export'.entries \/ d \in export'.todo \/ Found(d)' \/ Refused(d)'
                 /\ export'.pc = "analyze" /\ d = NextDir' => OfOne(d, export.reads)'
                 /\ export'.pc = "build" => Found(d)' \/ Refused(d)'
                 /\ export'.complete =>
                       Page([dir |-> d, cfg |-> CfgShown(d)])' \in index' \/ Refused(d)'
      BY <1>2, <1>4, <2>2, <2>3, <2>4, <2>5, <2>8 DEF ShownInv
    <2> QED BY <1>2, <1>4, <2>6, <2>7, <2>8 DEF ShownInv
  <1> QED BY <1>8, <1>9, <1>10

\* A dump that gives up leaves the files as they are.
LEMMA DumpFailsArtifacts ==
    ASSUME SweepInv, ScanInv, OneInv, ShownInv, UNCHANGED exportVars, DumpFails
    PROVE  (ScanInv /\ OneInv /\ ShownInv)'
  <1>1. /\ UNCHANGED <<files, exec>> /\ sweep'.pc = "dumped"
        /\ sweep.pc \in Early
    BY DEF DumpFails, SweepInv, RecordsInv, Early
  <1>2. /\ NextDir' = NextDir /\ Now' = Now /\ Here' = Here
        /\ \A d : (Settled(d)' <=> Settled(d)) /\ (Found(d)' <=> Found(d)) /\ (Refused(d)' <=> Refused(d))
    BY <1>1, RunsKept DEF NextDir, Settled, Found, Refused
  <1>3. \A d : Finished(d)' <=> Finished(d)
    BY <1>1, RunsKept DEF Finished, Alone
  <1>4. ScanInv'
    BY <1>1, RunsKept, <1>2 DEF ScanInv
  <1>5. OneInv'
    BY <1>1, RunsKept, <1>2 DEF OneInv, Early
  <1>6. ShownInv'
    BY <1>1, RunsKept, <1>2, <1>3 DEF ShownInv
  <1> QED BY <1>4, <1>5, <1>6

LEMMA SweepArtifacts ==
    ASSUME SweepInv, ScanInv, OneInv, ShownInv, SweepNext, UNCHANGED exportVars
    PROVE  (ScanInv /\ OneInv /\ ShownInv)'
  <1>1. CASE \E s \in Settings, skip_solo \in BOOLEAN : Start(s, skip_solo)
    BY <1>1, QuietSweep DEF Start, Early
  <1>2. CASE SoloPass \/ EndSweep
    <2>1. sweep'.pc \in {"idle", "pairs", "done"} /\ UNCHANGED <<files, exec>>
      BY <1>2 DEF SoloPass, EndSweep, SweepInv, RecordsInv
    <2> QED BY <2>1, QuietSweep DEF Early
  <1>3. CASE Exit \/ Crash
    <2>1. sweep'.pc = "pairs" /\ UNCHANGED <<files, exec>>
      BY <1>3 DEF Exit, Crash, Returned, SweepInv, RecordsInv
    <2> QED BY <2>1, QuietSweep DEF Early
  <1>4. CASE WriteLog
    BY <1>4, WriteArtifacts DEF WriteLog, Busy, Early, Own
  <1>5. CASE OpenKernels
    BY <1>5, WriteArtifacts DEF OpenKernels, Busy, Early, Own
  <1>6. CASE CloseKernels
    BY <1>6, WriteArtifacts DEF CloseKernels, Busy, Early, Own
  <1>7. CASE WriteCalib
    BY <1>7, WriteArtifacts DEF WriteCalib, Busy, Early, Late, Own
  <1>8. CASE OpenResults
    BY <1>8, WriteArtifacts DEF OpenResults, Busy, Late, Own
  <1>9. CASE CloseResults
    BY <1>9, WriteArtifacts DEF CloseResults, Busy, Late, Own
  <1> QED BY <1>1, <1>2, <1>3, <1>4, <1>5, <1>6, <1>7, <1>8, <1>9, RunPairArtifacts,
             DumpFailsArtifacts DEF SweepNext

(***************************************************************************)
(* The export                                                              *)
(***************************************************************************)
\* A step of the script that is not analyze.py's and writes no page.
LEMMA OneKept ==
    ASSUME OneInv, UNCHANGED <<files, exec, sweep, pages>>, export'.pc # "analyze"
    PROVE  OneInv'
  <1>1. /\ Here' = Here /\ Now' = Now /\ \A d : Runs(d)' = Runs(d)
        /\ \A f, n : OwnFiles(f, n)' <=> OwnFiles(f, n)
        /\ \A f, n : OwnPage(f, n)' <=> OwnPage(f, n)
    BY RunsKept
  <1>2. Runs(Here)' = Runs(Here)
    BY DEF Runs, Here, Now
  <1>3. \A d \in DOMAIN files' : \A n \in Runs(d)' : Runs(d)' = {n} => OwnFiles(files[d], n)'
    BY <1>1 DEF OneInv, OwnFiles, OwnTrace
  <1>4. ASSUME NEW p \in DOMAIN pages'
        PROVE  /\ pages'[p].dir \in DOMAIN files'
               /\ \A n \in Runs(pages[p].dir)' : Runs(pages[p].dir)' = {n} => OwnPage(pages[p], n)'
    <2>1. Runs(pages[p].dir)' = Runs(pages[p].dir)
      BY DEF Runs
    <2> QED BY <1>4, <2>1 DEF OneInv, OwnPage, OwnTrace
  <1> QED BY <1>1, <1>2, <1>3, <1>4 DEF OneInv

\* What is known of settled directories, in a step that leaves processes and
\* files alone.
LEMMA SettledKept ==
    ASSUME UNCHANGED <<files, exec>>
    PROVE  /\ \A d : Finished(d)' <=> Finished(d)
           /\ \A d : Page([dir |-> d, cfg |-> CfgShown(d)])' = Page([dir |-> d, cfg |-> CfgShown(d)])
           /\ export'.since = export.since /\ export'.finished = export.finished =>
                 \A d : Settled(d)' <=> Settled(d)
           /\ export'.found = export.found => \A d : Found(d)' <=> Found(d)
           /\ export.refused \subseteq export'.refused /\ export.skipped \subseteq export'.skipped =>
                 \A d : Refused(d) => Refused(d)'
           /\ export'.reads = export.reads =>
                 \A d : OfOne(d, export.reads)' <=> OfOne(d, export.reads)
  <1>1. \A d : Finished(d)' <=> Finished(d)
    BY RunsKept DEF Finished, Alone
  <1>2. \A d : Page([dir |-> d, cfg |-> CfgShown(d)])' = Page([dir |-> d, cfg |-> CfgShown(d)])
    BY RunsKept DEF Page
  <1>3. export'.since = export.since /\ export'.finished = export.finished =>
           \A d : Settled(d)' <=> Settled(d)
    BY RunsKept DEF Settled
  <1>4. export'.found = export.found => \A d : Found(d)' <=> Found(d)
    BY RunsKept DEF Found
  <1>5. export'.reads = export.reads => \A d : OfOne(d, export.reads)' <=> OfOne(d, export.reads)
    BY RunsKept DEF OfOne
  <1>6. export.refused \subseteq export'.refused /\ export.skipped \subseteq export'.skipped =>
           \A d : Refused(d) => Refused(d)'
    BY RunsKept DEF Refused
  <1> QED BY <1>1, <1>2, <1>3, <1>4, <1>5, <1>6

\* The script ends early, and shows nothing new.
LEMMA DieArtifacts ==
    ASSUME SweepInv, ScanInv, OneInv, ShownInv, export.pc # "idle", Die,
           UNCHANGED <<files, exec, sweep, pages, index>>
    PROVE  (ScanInv /\ OneInv /\ ShownInv)'
  <1>1. /\ export'.pc = "idle" /\ export'.todo = {} /\ export'.found = <<>>
        /\ export'.since = 0 /\ export'.finished = {}
        /\ ~export'.complete /\ DOMAIN export' = ExportFields
    BY DEF Die, NoScript, ExportFields
  <1>2. Here' = Here /\ Now' = Now /\ Now \in Nat /\ \A d : Runs(d)' = Runs(d)
    BY RunsKept, ExecTypes
  <1>3. ScanInv'
    BY <1>1, <1>2 DEF ScanInv, Results
  <1>4. OneInv'
    BY <1>1, OneKept
  <1>5. ShownInv'
    <2>1. \A d : ~Settled(d)'
      BY <1>1 DEF Settled
    <2> QED BY <1>1, <1>2, <2>1 DEF ShownInv, Partial
  <1> QED BY <1>3, <1>4, <1>5

LEMMA BeginArtifacts ==
    ASSUME SweepInv, ScanInv, OneInv, ShownInv, Begin
    PROVE  (ScanInv /\ OneInv /\ ShownInv)'
  <1>1. /\ export'.pc = "scan" /\ export'.todo = {} /\ export'.found = <<>>
        /\ export'.built = <<>> /\ export'.entries = {d.cfg : d \in DOMAIN files}
        /\ export'.since = Now /\ export'.finished = {d \in DOMAIN files : Finished(d)}
        /\ ~export'.complete /\ DOMAIN export' = ExportFields
        /\ UNCHANGED <<files, exec, sweep, pages, index>>
    BY DEF Begin, NoScript, ExportFields
  <1>2. Here' = Here /\ Now' = Now /\ Now \in Nat /\ \A d : Runs(d)' = Runs(d)
    BY <1>1, RunsKept, ExecTypes
  <1>3. ScanInv'
    BY <1>1, <1>2 DEF ScanInv, Results
  <1>4. OneInv'
    BY <1>1, OneKept
  <1>5. ShownInv'
    <2>1. ASSUME NEW d, Settled(d)'
          PROVE  d \in DOMAIN files' /\ Finished(d)' /\ d.cfg \in export'.entries
      BY <1>1, <2>1, SettledKept DEF Settled
    <2> QED BY <1>1, <1>2, <2>1 DEF ShownInv, Partial
  <1> QED BY <1>3, <1>4, <1>5

LEMMA ListEntryArtifacts ==
    ASSUME SweepInv, ScanInv, OneInv, ShownInv, ListEntry
    PROVE  (ScanInv /\ OneInv /\ ShownInv)'
  <1> DEFINE e == CHOOSE x \in export.entries : \A y \in export.entries : Rank(x) <= Rank(y)
  <1>1. /\ export.pc = "scan" /\ export.todo = {} /\ export'.pc = "scan"
        /\ export'.todo = {d \in DOMAIN files : d.cfg = e}
        /\ export'.entries = export.entries \ {e}
        /\ export'.found = export.found /\ export'.built = export.built
        /\ export'.since = export.since /\ export'.finished = export.finished
        /\ export'.refused = export.refused /\ export'.skipped = export.skipped
        /\ export'.complete = export.complete /\ DOMAIN export' = ExportFields
        /\ UNCHANGED <<files, exec, sweep, pages, index>>
    BY DEF ListEntry, ScanInv, ExportFields
  <1> HIDE DEF e
  <1>2. Here' = Here /\ Now' = Now /\ \A d : Runs(d)' = Runs(d)
    BY <1>1, RunsKept
  <1>3. ScanInv'
    BY <1>1, <1>2 DEF ScanInv, Results
  <1>4. OneInv'
    BY <1>1, OneKept
  <1>5. ShownInv'
    <2>1. ASSUME NEW d, Settled(d)'
          PROVE  /\ d \in DOMAIN files' /\ Finished(d)'
                 /\ d.cfg \in export'.entries \/ d \in export'.todo \/ Found(d)' \/ Refused(d)'
      BY <1>1, <2>1, SettledKept DEF ShownInv
    <2> QED BY <1>1, <1>2, <2>1 DEF ShownInv, Partial
  <1> QED BY <1>3, <1>4, <1>5

\* A directory is left out only when it was not finished, or is reported.
LEMMA SkipArtifacts ==
    ASSUME SweepInv, ScanInv, OneInv, ShownInv, export.pc \in {"scan", "analyze"},
           NEW refused, ~Settled(NextDir) \/ NextDir \in refused, Skip(refused),
           UNCHANGED <<files, exec, sweep, pages, index>>
    PROVE  (ScanInv /\ OneInv /\ ShownInv)'
  <1>1. PICK d0 : d0 = NextDir
    OBVIOUS
  <1>2. /\ export'.pc = "scan" /\ export'.todo = export.todo \ {d0}
        /\ export'.entries = export.entries
        /\ export'.found = export.found /\ export'.built = export.built
        /\ export'.since = export.since /\ export'.finished = export.finished
        /\ export'.refused = export.refused \cup refused
        /\ export'.skipped = IF ModeOf(d0) = "seq" THEN export.skipped ELSE export.skipped \cup {d0}
        /\ export'.complete = export.complete /\ DOMAIN export' = ExportFields
    BY <1>1 DEF Skip, ScanInv, ExportFields
  <1>3. Here' = Here /\ Now' = Now /\ \A d : Runs(d)' = Runs(d) /\ ModeOf(d)' = ModeOf(d)
    BY RunsKept
  <1>4. ScanInv'
    BY <1>2, <1>3 DEF ScanInv, Results
  <1>5. OneInv'
    BY <1>2, OneKept
  <1>6. ShownInv'
    <2>1. ASSUME NEW d, Settled(d)'
          PROVE  /\ d \in DOMAIN files' /\ Finished(d)'
                 /\ d.cfg \in export'.entries \/ d \in export'.todo \/ Found(d)' \/ Refused(d)'
      <3>1. Settled(d)
        BY <1>2, <2>1, SettledKept
      <3>2. Refused(d) => Refused(d)'
        BY <1>2, SettledKept
      <3>3. d = d0 => Refused(d)'
        BY <1>1, <1>2, <1>3, <3>1 DEF Refused
      <3> QED BY <1>2, <3>1, <3>2, <3>3, SettledKept DEF ShownInv
    <2> QED BY <1>2, <1>3, <2>1 DEF ShownInv, Partial
  <1> QED BY <1>4, <1>5, <1>6

\* A directory with a trace is found, under the configuration it is shown as.
LEMMA AcceptArtifacts ==
    ASSUME SweepInv, ScanInv, OneInv, ShownInv, export.pc \in {"scan", "analyzed"},
           export.todo # {}, files[NextDir].trace # Absent, Accept(NextDir),
           UNCHANGED <<files, exec, sweep, pages, index>>
    PROVE  (ScanInv /\ OneInv /\ ShownInv)'
  <1>1. PICK d0 : d0 = NextDir
    OBVIOUS
  <1>2. d0 \in export.todo /\ d0 \in DOMAIN files /\ d0 \in Dirs
    BY <1>1, NextDirIn DEF ScanInv
  <1>3. CASE ~files[d0].results.whole
    BY <1>1, <1>3, DieArtifacts DEF Accept
  <1>4. CASE files[d0].results.whole
    <2> DEFINE item == [dir |-> d0, cfg |-> CfgShown(d0),
                        clients |-> exec[files[d0].results.run].clients]
    <2>1. /\ export'.pc = "scan" /\ export'.todo = export.todo \ {d0}
          /\ export'.found = Append(export.found, item)
          /\ export'.entries = export.entries /\ export'.built = export.built
          /\ export'.since = export.since /\ export'.finished = export.finished
          /\ export'.refused = export.refused /\ export'.skipped = export.skipped
          /\ export'.complete = export.complete /\ DOMAIN export' = ExportFields
      BY <1>1, <1>4 DEF Accept, ScanInv, ExportFields
    <2>2. Here' = Here /\ Now' = Now /\ \A d : Runs(d)' = Runs(d) /\ CfgShown(d)' = CfgShown(d)
      BY RunsKept
    <2>3. item \in [dir : Dirs, cfg : Cfgs, clients : Seq(Nat)]
      <3>1. files[d0].results.run \in 1 .. Now
        BY <1>2, <1>4, ResultsWhole, ExecTypes DEF ScanInv
      <3>2. exec[files[d0].results.run].clients \in Seq(Nat)
        BY <3>1, ExecTypes
      <3>3. CfgShown(d0) \in Cfgs
        BY <1>2, ShownType
      <3> QED BY <1>2, <3>2, <3>3
    <2>4. item.dir = d0 /\ item.cfg = CfgShown(d0)
      OBVIOUS
    <2> HIDE DEF item
    <2>5. /\ export'.found \in Seq([dir : Dirs, cfg : Cfgs, clients : Seq(Nat)])
          /\ Len(export'.found) = Len(export.found) + 1 /\ Len(export.found) \in Nat
          /\ export'.found[Len(export.found) + 1] = item
          /\ \A i \in 1 .. Len(export.found) : export'.found[i] = export.found[i]
      <3>1. export.found \in Seq([dir : Dirs, cfg : Cfgs, clients : Seq(Nat)])
        BY DEF ScanInv
      <3> QED BY <2>1, <2>3, <3>1
    <2>6. ScanInv'
      <3>1. \A i \in 1 .. Len(export'.found) :
               export'.found[i].dir \in DOMAIN files' /\ files'[export'.found[i].dir].trace # Absent
        <4>1. \A i \in 1 .. Len(export.found) :
                 export'.found[i].dir \in DOMAIN files /\ files[export'.found[i].dir].trace # Absent
          BY <2>5 DEF ScanInv
        <4>2. \A i \in 1 .. Len(export'.found) :
                 i \in 1 .. Len(export.found) \/ i = Len(export.found) + 1
          BY <2>5
        <4>3. export'.found[Len(export.found) + 1].dir = d0
          BY <2>4, <2>5
        <4> QED BY <1>1, <1>2, <4>1, <4>2, <4>3
      <3> QED BY <2>1, <2>2, <2>5, <3>1 DEF ScanInv, Results
    <2>7. OneInv'
      BY <2>1, OneKept
    <2>8. ShownInv'
      <3>1. Found(d0)'
        <4>1. Len(export.found) + 1 \in 1 .. Len(export'.found)
          BY <2>5
        <4>2. /\ export'.found[Len(export.found) + 1].dir = d0
              /\ export'.found[Len(export.found) + 1].cfg = CfgShown(d0)'
          BY <2>2, <2>4, <2>5
        <4> QED BY <4>1, <4>2 DEF Found
      <3>2. ASSUME NEW d, Found(d) PROVE Found(d)'
        <4>1. PICK i \in 1 .. Len(export.found) :
                 export.found[i].dir = d /\ export.found[i].cfg = CfgShown(d)
          BY <3>2 DEF Found
        <4>2. i \in 1 .. Len(export'.found) /\ export'.found[i] = export.found[i]
          BY <2>5
        <4>3. CfgShown(d)' = CfgShown(d)
          BY <2>2
        <4> QED BY <4>1, <4>2, <4>3 DEF Found
      <3>3. ASSUME NEW d, Settled(d)'
            PROVE  /\ d \in DOMAIN files' /\ Finished(d)'
                   /\ d.cfg \in export'.entries \/ d \in export'.todo \/ Found(d)' \/ Refused(d)'
        <4>1. Settled(d)
          BY <2>1, <3>3, SettledKept
        <4>2. /\ d \in DOMAIN files' /\ Finished(d)'
              /\ d.cfg \in export.entries \/ d \in export.todo \/ Found(d) \/ Refused(d)
          BY <4>1, SettledKept DEF ShownInv
        <4>3. Refused(d) => Refused(d)'
          BY <2>1, SettledKept
        <4> QED BY <2>1, <3>1, <3>2, <4>2, <4>3
      <3> QED BY <2>1, <2>2, <3>3 DEF ShownInv, Partial
    <2> QED BY <2>6, <2>7, <2>8
  <1> QED BY <1>3, <1>4

\* What is done about a directory.
LEMMA ScanCases ==
    ASSUME Scan
    PROVE  \/ files[NextDir].trace # Absent /\ Accept(NextDir)
           \/ Die
           \/ Skip({}) /\ ~Finished(NextDir)
           \/ export' = [export EXCEPT !.pc = "analyze", !.reads = files[NextDir]]
  <1>1. PICK d : d = NextDir
    OBVIOUS
  <1>2. CASE EnsureTrace(d)
    <2>1. files[d].kernels = Absent => ~Finished(d)
      BY FinishedFiles DEF Finished
    <2> QED BY <1>1, <1>2, <2>1 DEF EnsureTrace
  <1>3. CASE ModeOf(d) = "seq" /\ Skip({}) /\ (files[d].results = Absent \/ ~Alone(d))
    <2>1. ~Finished(d)
      BY <1>3, FinishedFiles DEF Finished
    <2> QED BY <1>1, <1>3, <2>1
  <1>4. EnsureTrace(d) \/ Die \/ (ModeOf(d) = "seq" /\ Skip({}) /\ (files[d].results = Absent \/ ~Alone(d)))
    BY <1>1 DEF Scan
  <1> QED BY <1>2, <1>3, <1>4

LEMMA ScanArtifacts ==
    ASSUME SweepInv, ScanInv, OneInv, ShownInv, Scan
    PROVE  (ScanInv /\ OneInv /\ ShownInv)'
  <1>1. PICK d0 : d0 = NextDir
    OBVIOUS
  <1>2. export.pc = "scan" /\ export.todo # {} /\ UNCHANGED <<files, exec, sweep, pages, index>>
    BY DEF Scan
  <1>3. d0 \in export.todo /\ d0 \in DOMAIN files
    BY <1>1, <1>2, NextDirIn DEF ScanInv
  <1>4. CASE files[NextDir].trace # Absent /\ Accept(NextDir)
    BY <1>2, <1>4, AcceptArtifacts
  <1>4a. CASE Die
    BY <1>2, <1>4a, DieArtifacts
  <1>5. CASE Skip({}) /\ ~Finished(NextDir)
    <2>1. ~Settled(NextDir)
      BY <1>2, <1>5 DEF ShownInv
    <2> QED BY <1>2, <1>5, <2>1, SkipArtifacts
  <1>6. CASE export' = [export EXCEPT !.pc = "analyze", !.reads = files[NextDir]]
    <2>1. /\ export'.pc = "analyze" /\ export'.reads = files[d0]
          /\ export'.todo = export.todo /\ export'.entries = export.entries
          /\ export'.found = export.found /\ export'.built = export.built
          /\ export'.since = export.since /\ export'.finished = export.finished
          /\ export'.refused = export.refused /\ export'.skipped = export.skipped
          /\ export'.complete = export.complete /\ DOMAIN export' = ExportFields
      BY <1>1, <1>6 DEF ScanInv, ExportFields
    <2>2. Here' = Here /\ Now' = Now /\ \A d : Runs(d)' = Runs(d)
      BY <1>2, RunsKept
    <2>3. NextDir' = d0
      BY <1>1, <2>1 DEF NextDir
    <2>4. ScanInv'
      BY <1>2, <2>1, <2>2 DEF ScanInv, Results
    <2>5. OneInv'
      <3>1. /\ \A f, n : OwnFiles(f, n)' <=> OwnFiles(f, n)
            /\ \A f, n : OwnPage(f, n)' <=> OwnPage(f, n)
        BY <1>2, RunsKept
      <3>2. Runs(Here)' = Runs(Here) /\ Runs(NextDir)' = Runs(d0)
        BY <1>1, <1>2, <2>1, <2>2, <2>3 DEF Runs
      <3>3. \A d \in DOMAIN files' : \A n \in Runs(d)' : Runs(d)' = {n} => OwnFiles(files[d], n)'
        BY <1>2, <2>2, <3>1 DEF OneInv, OwnFiles, OwnTrace
      <3>4. \A n \in Runs(NextDir)' : Runs(NextDir)' = {n} => OwnFiles(export.reads, n)'
        <4>1. \A n \in Runs(d0) : Runs(d0) = {n} => OwnFiles(files[d0], n)
          BY <1>3 DEF OneInv
        <4> QED BY <1>2, <2>1, <3>2, <4>1 DEF OwnFiles, OwnTrace
      <3>5. ASSUME NEW p \in DOMAIN pages'
            PROVE  /\ pages'[p].dir \in DOMAIN files'
                   /\ \A n \in Runs(pages[p].dir)' : Runs(pages[p].dir)' = {n} => OwnPage(pages[p], n)'
        <4>1. Runs(pages[p].dir)' = Runs(pages[p].dir)
          BY <1>2 DEF Runs
        <4> QED BY <1>2, <3>5, <4>1 DEF OneInv, OwnPage, OwnTrace
      <3> QED BY <1>2, <2>2, <3>2, <3>3, <3>4, <3>5 DEF OneInv
    <2>6. ShownInv'
      <3>1. ASSUME NEW d, Settled(d)'
            PROVE  /\ d \in DOMAIN files' /\ Finished(d)'
                   /\ d.cfg \in export'.entries \/ d \in export'.todo \/ Found(d)' \/ Refused(d)'
                   /\ d = NextDir' => OfOne(d, export.reads)'
        <4>1. Settled(d)
          BY <1>2, <2>1, <3>1, SettledKept
        <4>2. d \in DOMAIN files /\ Finished(d)
              /\ (d.cfg \in export.entries \/ d \in export.todo \/ Found(d) \/ Refused(d))
          BY <1>2, <4>1 DEF ShownInv
        <4>3. d = NextDir' => OfOne(d, export.reads)'
          <5>1. d = d0 => OfOne(d, files[d0])
            BY <4>2 DEF Finished
          <5>2. OfOne(d, files[d0])' <=> OfOne(d, files[d0])
            <6>1. ModeOf(d)' = ModeOf(d)
              BY <1>2, RunsKept
            <6> QED BY <1>2, <6>1 DEF OfOne
          <5> QED BY <1>2, <2>1, <2>3, <5>1, <5>2 DEF OfOne
        <4>4. Refused(d) => Refused(d)'
          BY <1>2, <2>1, SettledKept
        <4> QED BY <1>2, <2>1, <4>2, <4>3, <4>4, SettledKept
      <3> QED BY <1>2, <2>1, <2>2, <3>1 DEF ShownInv, Partial
    <2> QED BY <2>4, <2>5, <2>6
  <1> QED BY <1>4, <1>4a, <1>5, <1>6, ScanCases

\* analyze.py writes the trace of what it read, or refuses it: of a finished
\* directory, reported.
LEMMA AnalyzeArtifacts ==
    ASSUME SweepInv, ScanInv, OneInv, ShownInv, Analyze
    PROVE  (ScanInv /\ OneInv /\ ShownInv)'
  <1>1. PICK d0, trace : /\ d0 = NextDir
                         /\ trace = [log |-> export.reads.log, kernels |-> export.reads.kernels,
                                     calib |-> export.reads.calib]
    OBVIOUS
  <1>2. /\ export.pc = "analyze" /\ export.todo # {} /\ d0 \in export.todo /\ d0 \in DOMAIN files
        /\ UNCHANGED <<exec, sweep, pages, index>>
    BY <1>1, NextDirIn DEF Analyze, ScanInv
  <1>3. CASE files' = files /\ \E refused : /\ Skip(refused)
                                            /\ OfOne(d0, export.reads) => d0 \in refused
    <2>1. ~Settled(d0) \/ OfOne(d0, export.reads)
      BY <1>1, <1>2 DEF ShownInv
    <2> QED BY <1>1, <1>2, <1>3, <2>1, SkipArtifacts
  <1>4. CASE /\ Readable(d0, export.reads)
             /\ files' = [files EXCEPT ![d0].trace = trace]
             /\ export' = [export EXCEPT !.pc = "analyzed", !.reads = Empty]
    <2>1. /\ export'.pc = "analyzed"
          /\ export'.todo = export.todo /\ export'.entries = export.entries
          /\ export'.found = export.found /\ export'.built = export.built
          /\ export'.since = export.since /\ export'.finished = export.finished
          /\ export'.refused = export.refused /\ export'.skipped = export.skipped
          /\ export'.complete = export.complete /\ DOMAIN export' = ExportFields
      BY <1>4 DEF ScanInv, ExportFields
    <2>2. /\ Here' = Here /\ Now' = Now
          /\ \A d : Runs(d)' = Runs(d) /\ CfgShown(d)' = CfgShown(d)
          /\ \A f, n : OwnFiles(f, n)' <=> OwnFiles(f, n)
          /\ \A f, n : OwnPage(f, n)' <=> OwnPage(f, n)
      BY <1>2, RunsKept
    <2>3. NextDir' = d0
      BY <1>1, <2>1 DEF NextDir
    <2>4. trace # Absent
      <3>1. DOMAIN trace = {"log", "kernels", "calib"}
        BY <1>1
      <3>2. DOMAIN Absent = {"run", "whole"}
        BY DEF Absent
      <3> QED BY <3>1, <3>2
    <2>5. /\ DOMAIN files' = DOMAIN files
          /\ \A d \in DOMAIN files : d # d0 => files'[d] = files[d]
          /\ files'[d0].trace = trace
      <3>1. \A d \in DOMAIN files : DOMAIN files[d] = FileFields
        BY DEF SweepInv, RecordsInv
      <3> QED BY <1>2, <1>4, <3>1 DEF FileFields
    <2>6. /\ \A d \in DOMAIN files :
                /\ files'[d].log = files[d].log /\ files'[d].kernels = files[d].kernels
                /\ files'[d].calib = files[d].calib /\ files'[d].results = files[d].results
          /\ \A d \in DOMAIN files : files[d].trace # Absent => files'[d].trace # Absent
      <3>1. files'[d0].trace # Absent
        BY <2>4, <2>5
      <3>2. \A d \in DOMAIN files :
                /\ files'[d].log = files[d].log /\ files'[d].kernels = files[d].kernels
                /\ files'[d].calib = files[d].calib /\ files'[d].results = files[d].results
        BY AnalyzeFiles DEF Own
      <3> QED BY <2>5, <3>1, <3>2
    <2>7. ScanInv'
      <3>1. \A d \in DOMAIN files' : Runs(d)' # {} /\ files'[d].results \in Results(Now)
        BY <2>2, <2>5, <2>6 DEF ScanInv
      <3>2. files'[NextDir'].trace # Absent
        BY <2>3, <2>4, <2>5
      <3>3. \A i \in 1 .. Len(export'.found) :
               export'.found[i].dir \in DOMAIN files' /\ files'[export'.found[i].dir].trace # Absent
        BY <2>1, <2>5, <2>6 DEF ScanInv
      <3>4. Results(Now)' = Results(Now)
        BY <2>2 DEF Results
      <3> QED BY <1>2, <2>1, <2>5, <3>1, <3>2, <3>3, <3>4 DEF ScanInv
    <2>8. OneInv'
      <3>1. ASSUME NEW n \in Runs(d0), Runs(d0) = {n} PROVE OwnFiles(files'[d0], n)
        <4>1. OwnFiles(files[d0], n) /\ OwnFiles(export.reads, n)
          BY <1>1, <1>2, <3>1 DEF OneInv
        <4>2. OwnTrace(export.reads, n)
          BY <1>4, <4>1 DEF OwnFiles, Readable
        <4>3. OwnTrace(files'[d0].trace, n)
          BY <1>1, <2>5, <4>2 DEF OwnTrace
        <4>4. /\ files'[d0].log = files[d0].log /\ files'[d0].kernels = files[d0].kernels
              /\ files'[d0].calib = files[d0].calib /\ files'[d0].results = files[d0].results
          BY <1>2, <2>6
        <4> QED BY <4>1, <4>3, <4>4 DEF OwnFiles, OwnTrace
      <3>2. ASSUME NEW d \in DOMAIN files, NEW n \in Runs(d), Runs(d) = {n}
            PROVE  OwnFiles(files'[d], n)
        BY <2>5, <3>1, <3>2 DEF OneInv
      <3>3. \A d \in DOMAIN files' : \A n \in Runs(d)' : Runs(d)' = {n} => OwnFiles(files[d], n)'
        BY <2>2, <2>5, <3>2 DEF OwnFiles, OwnTrace
      <3>4. Runs(Here)' = Runs(Here)
        BY <1>2, <2>2 DEF Runs
      <3>5. sweep'.pc \in Early /\ Runs(Here) = {Now} => files'[Here].calib = Absent
        <4>1. sweep.pc \in Early => Here \in DOMAIN files
          BY DEF SweepInv, ProcessInv, Busy
        <4> QED BY <1>2, <2>6, <4>1 DEF OneInv
      <3>6. ASSUME NEW p \in DOMAIN pages'
            PROVE  /\ pages'[p].dir \in DOMAIN files'
                   /\ \A n \in Runs(pages[p].dir)' : Runs(pages[p].dir)' = {n} => OwnPage(pages[p], n)'
        <4>1. Runs(pages[p].dir)' = Runs(pages[p].dir)
          BY <1>2 DEF Runs
        <4> QED BY <1>2, <2>5, <3>6, <4>1 DEF OneInv, OwnPage, OwnTrace
      <3> QED BY <1>2, <2>1, <2>2, <3>3, <3>4, <3>5, <3>6 DEF OneInv
    <2>9. ShownInv'
      <3>1. ASSUME NEW d, Settled(d)'
            PROVE  /\ d \in DOMAIN files' /\ Finished(d)'
                   /\ d.cfg \in export'.entries \/ d \in export'.todo \/ Found(d)' \/ Refused(d)'
        <4>1. Settled(d)
          BY <1>2, <2>1, <2>2, <3>1 DEF Settled
        <4>2. d \in DOMAIN files /\ Finished(d)
              /\ (d.cfg \in export.entries \/ d \in export.todo \/ Found(d) \/ Refused(d))
          BY <1>2, <4>1 DEF ShownInv
        <4>3. Finished(d)'
          <5>1. ModeOf(d)' = ModeOf(d) /\ Runs(d)' = Runs(d)
            BY <1>2, RunsKept
          <5>2. OfOne(d, files[d])' <=> OfOne(d, files[d])
            BY <2>6, <4>2, <5>1 DEF OfOne
          <5>3. files'[d].results = files[d].results
            BY <2>6, <4>2
          <5> QED BY <1>2, <4>2, <5>1, <5>2, <5>3 DEF Finished, Alone
        <4>4. (Found(d)' <=> Found(d)) /\ (Refused(d)' <=> Refused(d))
          BY <1>2, <2>1, <2>2, RunsKept DEF Found, Refused
        <4> QED BY <2>1, <2>5, <4>2, <4>3, <4>4
      <3>2. /\ sweep'.pc \in Early \cup {"dumped"} => files'[Here].results.run # Now
            /\ sweep'.pc = "writing" => files'[Here].results = Partial(Now)
        <4>1. sweep.pc \in Busy => Here \in DOMAIN files
          BY DEF SweepInv, ProcessInv
        <4> QED BY <1>2, <2>6, <4>1 DEF ShownInv, Busy, Late
      <3> QED BY <1>2, <2>1, <2>2, <2>5, <3>1, <3>2 DEF ShownInv, Partial
    <2> QED BY <2>7, <2>8, <2>9
  <1>5. CASE OfOne(d0, export.reads) /\ files' = files /\ Skip({d0})
    BY <1>3, <1>5
  <1>6. CASE ~OfOne(d0, export.reads) /\ files' = files /\ Skip({})
    BY <1>3, <1>6
  <1>7. \/ /\ Readable(d0, export.reads)
           /\ files' = [files EXCEPT ![d0].trace = trace]
           /\ export' = [export EXCEPT !.pc = "analyzed", !.reads = Empty]
        \/ OfOne(d0, export.reads) /\ files' = files /\ Skip({d0})
        \/ ~OfOne(d0, export.reads) /\ files' = files /\ Skip({})
    BY <1>1 DEF Analyze
  <1> QED BY <1>4, <1>5, <1>6, <1>7

LEMMA EndScanArtifacts ==
    ASSUME SweepInv, ScanInv, OneInv, ShownInv, EndScan
    PROVE  (ScanInv /\ OneInv /\ ShownInv)'
  <1>1. /\ export.pc = "scan" /\ export.todo = {} /\ export.entries = {}
        /\ export'.pc = "build" /\ export'.todo = {} /\ export'.found = export.found
        /\ export'.built = <<>> /\ export'.since = export.since
        /\ export'.finished = export.finished
        /\ export'.refused = export.refused /\ export'.skipped = export.skipped
        /\ export'.complete = export.complete /\ DOMAIN export' = ExportFields
        /\ UNCHANGED <<files, exec, sweep, pages, index>>
    BY DEF EndScan, ScanInv, ShownInv, ExportFields
  <1>2. Here' = Here /\ Now' = Now /\ \A d : Runs(d)' = Runs(d)
    BY <1>1, RunsKept
  <1>3. ScanInv'
    BY <1>1, <1>2 DEF ScanInv, Results
  <1>4. OneInv'
    BY <1>1, OneKept
  <1>5. ShownInv'
    <2>1. ASSUME NEW d, Settled(d)'
          PROVE  d \in DOMAIN files' /\ Finished(d)' /\ (Found(d)' \/ Refused(d)')
      BY <1>1, <2>1, SettledKept DEF ShownInv
    <2>2. Len(export'.built) <= Len(export'.found) /\ Len(export'.built) = 0
      <3>1. Len(export.found) \in Nat
        BY DEF ScanInv
      <3> QED BY <1>1, <3>1
    <2> QED BY <1>1, <1>2, <2>1, <2>2 DEF ShownInv, Partial
  <1> QED BY <1>3, <1>4, <1>5

\* A page shows what was found with a trace and has results that are whole.
LEMMA BuildArtifacts ==
    ASSUME SweepInv, ScanInv, OneInv, ShownInv, LinksInv, Build
    PROVE  (ScanInv /\ OneInv /\ ShownInv)'
  <1> DEFINE item == export.found[Len(export.built) + 1]
  <1>1. /\ export.pc = "build" /\ Len(export.built) < Len(export.found)
        /\ UNCHANGED <<files, exec, sweep, index>>
    BY DEF Build
  <1>2. CASE pages' = pages /\ Die
    BY <1>1, <1>2, DieArtifacts
  <1>3. CASE /\ files[item.dir].results.whole
             /\ \E page : /\ page.dir = item.dir /\ page.trace = files[item.dir].trace
                          /\ page.results = files[item.dir].results.run
                          /\ pages' = [p \in DOMAIN pages \cup {Page(item)} |->
                                         IF p = Page(item) THEN page ELSE pages[p]]
             /\ export' = [export EXCEPT !.built = Append(@, Page(item))]
    <2>1. /\ export'.pc = "build" /\ export'.todo = export.todo /\ export'.found = export.found
          /\ export'.built = Append(export.built, Page(item))
          /\ export'.since = export.since /\ export'.finished = export.finished
          /\ export'.refused = export.refused /\ export'.skipped = export.skipped
          /\ export'.complete = export.complete /\ DOMAIN export' = ExportFields
      BY <1>1, <1>3 DEF ScanInv, ExportFields
    <2>2. /\ Len(export.found) \in Nat /\ Len(export.built) \in Nat
          /\ Len(export'.built) = Len(export.built) + 1
          /\ export'.built[Len(export.built) + 1] = Page(item)
          /\ \A i \in 1 .. Len(export.built) : export'.built[i] = export.built[i]
      <3>1. export.built \in Seq(DOMAIN pages') /\ Page(item) \in DOMAIN pages'
        <4>1. DOMAIN pages' = DOMAIN pages \cup {Page(item)}
          BY <1>3
        <4> HIDE DEF item
        <4> QED BY <4>1, SeqMonotonic DEF LinksInv
      <3>2. Len(export.found) \in Nat
        BY DEF ScanInv
      <3> HIDE DEF item
      <3> QED BY <2>1, <3>1, <3>2
    <2>3. item.dir \in DOMAIN files /\ files[item.dir].trace # Absent
      <3>1. Len(export.built) + 1 \in 1 .. Len(export.found)
        BY <1>1, <2>2
      <3> QED BY <3>1 DEF ScanInv
    <2>4. PICK d0, it : d0 = item.dir /\ it = Page(item)
      OBVIOUS
    <2>5. PICK page : /\ page.dir = d0 /\ page.trace = files[d0].trace
                      /\ page.results = files[d0].results.run
                      /\ pages' = [p \in DOMAIN pages \cup {it} |-> IF p = it THEN page ELSE pages[p]]
      BY <1>3, <2>4
    <2>6. d0 \in DOMAIN files /\ files[d0].trace # Absent /\ files[d0].results.whole
      BY <1>3, <2>3, <2>4
    <2>7. /\ Here' = Here /\ Now' = Now
          /\ \A d : Runs(d)' = Runs(d) /\ CfgShown(d)' = CfgShown(d)
          /\ \A f, n : OwnFiles(f, n)' <=> OwnFiles(f, n)
          /\ \A f, n : OwnPage(f, n)' <=> OwnPage(f, n)
      BY <1>1, RunsKept
    <2>8. ScanInv'
      BY <1>1, <2>1, <2>7 DEF ScanInv, Results
    <2>9. OneInv'
      <3>1. ASSUME NEW n \in Runs(d0), Runs(d0) = {n} PROVE OwnPage(page, n)
        <4>1. OwnFiles(files[d0], n)
          BY <2>6, <3>1 DEF OneInv
        <4>2. files[d0].results = Whole(n)
          BY <2>6, <4>1 DEF OwnFiles, Absent, Partial
        <4> QED BY <2>5, <2>6, <4>1, <4>2 DEF OwnFiles, OwnPage, Whole
      <3>2. ASSUME NEW p \in DOMAIN pages'
            PROVE  /\ pages'[p].dir \in DOMAIN files
                   /\ \A n \in Runs(pages'[p].dir) : Runs(pages'[p].dir) = {n} => OwnPage(pages'[p], n)
        <4>1. CASE p = it
          <5>1. pages'[p] = page
            BY <2>5, <4>1
          <5> QED BY <2>5, <2>6, <3>1, <5>1
        <4>2. CASE p # it
          <5>1. p \in DOMAIN pages /\ pages'[p] = pages[p]
            BY <2>5, <3>2, <4>2
          <5> QED BY <5>1 DEF OneInv
        <4> QED BY <4>1, <4>2
      <3>3. ASSUME NEW p \in DOMAIN pages'
            PROVE  \A n \in Runs(pages[p].dir)' : Runs(pages[p].dir)' = {n} => OwnPage(pages[p], n)'
        <4>1. Runs(pages[p].dir)' = Runs(pages'[p].dir)
          BY <1>1 DEF Runs
        <4> QED BY <1>1, <3>2, <4>1 DEF OwnPage, OwnTrace
      <3>4. Runs(Here)' = Runs(Here)
        BY <1>1, <2>7 DEF Runs
      <3>5. \A d \in DOMAIN files' : \A n \in Runs(d)' : Runs(d)' = {n} => OwnFiles(files[d], n)'
        BY <1>1, <2>7 DEF OneInv, OwnFiles, OwnTrace
      <3> QED BY <1>1, <2>1, <2>7, <3>2, <3>3, <3>4, <3>5 DEF OneInv
    <2>10. ShownInv'
      <3>1. ASSUME NEW d, Settled(d)'
            PROVE  d \in DOMAIN files' /\ Finished(d)' /\ (Found(d)' \/ Refused(d)')
        BY <1>1, <2>1, <3>1, SettledKept DEF ShownInv
      <3>2. \A i \in 1 .. Len(export'.built) : export'.built[i] = Page(export'.found[i])
        <4>1. ASSUME NEW i \in 1 .. Len(export'.built)
              PROVE  export'.built[i] = Page(export.found[i])
          <5>1. CASE i = Len(export.built) + 1
            BY <2>2, <5>1
          <5>2. CASE i # Len(export.built) + 1
            <6>1. i \in 1 .. Len(export.built)
              BY <2>2, <5>2
            <6> QED BY <1>1, <2>2, <6>1 DEF ShownInv
          <5> QED BY <5>1, <5>2
        <4> QED BY <2>1, <4>1
      <3>3. Len(export'.built) <= Len(export'.found)
        BY <1>1, <2>1, <2>2
      <3>4. \A i \in 1 .. Len(export'.built) : export'.built[i] = Page(export.found[i])'
        BY <3>2 DEF Page
      <3> QED BY <1>1, <2>1, <2>7, <3>1, <3>3, <3>4 DEF ShownInv, Partial
    <2> QED BY <2>8, <2>9, <2>10
  <1>4. \/ pages' = pages /\ Die
        \/ /\ files[item.dir].results.whole
           /\ \E page : /\ page.dir = item.dir /\ page.trace = files[item.dir].trace
                        /\ page.results = files[item.dir].results.run
                        /\ pages' = [p \in DOMAIN pages \cup {Page(item)} |->
                                       IF p = Page(item) THEN page ELSE pages[p]]
           /\ export' = [export EXCEPT !.built = Append(@, Page(item))]
    <2> DEFINE made == [dir |-> item.dir, trace |-> files[item.dir].trace,
                        results |-> files[item.dir].results.run,
                        nav |-> PairMap, selectors |-> Selectors]
    <2>1. \/ pages' = pages /\ Die
          \/ /\ files[item.dir].results.whole
             /\ pages' = [p \in DOMAIN pages \cup {Page(item)} |->
                            IF p = Page(item) THEN made ELSE pages[p]]
             /\ export' = [export EXCEPT !.built = Append(@, Page(item))]
      BY DEF Build
    <2>2. made.dir = item.dir /\ made.trace = files[item.dir].trace
          /\ made.results = files[item.dir].results.run
      OBVIOUS
    <2> HIDE DEF made, item
    <2> QED BY <2>1, <2>2
  <1> HIDE DEF item
  <1> QED BY <1>2, <1>3, <1>4
LEMMA WriteIndexArtifacts ==
    ASSUME SweepInv, ScanInv, OneInv, ShownInv, WriteIndex
    PROVE  (ScanInv /\ OneInv /\ ShownInv)'
  <1>1. /\ export.pc = "build" /\ Len(export.built) = Len(export.found)
        /\ export'.pc = "idle" /\ export'.todo = export.todo /\ export'.found = export.found
        /\ export'.built = export.built /\ export'.since = export.since
        /\ export'.finished = export.finished
        /\ export'.refused = export.refused /\ export'.skipped = export.skipped
        /\ DOMAIN export' = ExportFields
        /\ UNCHANGED <<files, exec, sweep, pages>>
        /\ index' = ToSet(export.built)
    BY DEF WriteIndex, ScanInv, ExportFields
  <1>2. Here' = Here /\ Now' = Now /\ \A d : Runs(d)' = Runs(d)
    BY <1>1, RunsKept
  <1>3. ScanInv'
    BY <1>1, <1>2 DEF ScanInv, Results
  <1>4. OneInv'
    BY <1>1, OneKept
  <1>5. ShownInv'
    <2>1. ASSUME NEW d, Settled(d)'
          PROVE  Page([dir |-> d, cfg |-> CfgShown(d)])' \in index' \/ Refused(d)'
      <3>1. Found(d) \/ Refused(d)
        BY <1>1, <2>1, SettledKept DEF ShownInv
      <3>2. CASE Found(d)
        <4>1. PICK i \in 1 .. Len(export.found) :
                 export.found[i].dir = d /\ export.found[i].cfg = CfgShown(d)
          BY <3>2 DEF Found
        <4>2. export.built[i] = Page([dir |-> d, cfg |-> CfgShown(d)])
          BY <1>1, <4>1 DEF ShownInv, Page
        <4>3. Page([dir |-> d, cfg |-> CfgShown(d)])' = Page([dir |-> d, cfg |-> CfgShown(d)])
          BY <1>1, SettledKept
        <4> QED BY <1>1, <4>1, <4>2, <4>3 DEF ToSet
      <3>3. CASE Refused(d)
        BY <1>1, <3>3, SettledKept
      <3> QED BY <3>1, <3>2, <3>3
    <2> QED BY <1>1, <1>2, <2>1 DEF ShownInv, Partial
  <1> QED BY <1>3, <1>4, <1>5

LEMMA IdleArtifacts ==
    ASSUME ScanInv, OneInv, ShownInv, UNCHANGED <<files, exec, sweep, export, pages, index>>
    PROVE  (ScanInv /\ OneInv /\ ShownInv)'
  <1>1. /\ NextDir' = NextDir
        /\ \A d : (Settled(d)' <=> Settled(d)) /\ (Found(d)' <=> Found(d)) /\ (Refused(d)' <=> Refused(d))
    BY RunsKept DEF NextDir, Settled, Found, Refused
  <1>2. Here' = Here /\ Now' = Now /\ \A d : Runs(d)' = Runs(d)
    BY RunsKept
  <1>3. ScanInv'
    BY <1>1, <1>2 DEF ScanInv, Results
  <1>4. OneInv'
    BY RunsKept, <1>1 DEF OneInv
  <1>5. ShownInv'
    <2>1. \A d : OfOne(d, export.reads)' <=> OfOne(d, export.reads)
      BY SettledKept
    <2>2. \A d : Finished(d)' <=> Finished(d)
      BY SettledKept
    <2>3. \A d : Page([dir |-> d, cfg |-> CfgShown(d)])' = Page([dir |-> d, cfg |-> CfgShown(d)])
      BY SettledKept
    <2>4. ASSUME NEW d, Settled(d)'
          PROVE  /\ export'.pc # "idle" => d \in DOMAIN files' /\ Finished(d)'
                 /\ export'.pc \in {"scan", "analyze", "analyzed"} =>
                       d.cfg \in export'.entries \/ d \in export'.todo \/ Found(d)' \/ Refused(d)'
                 /\ export'.pc = "analyze" /\ d = NextDir' => OfOne(d, export.reads)'
                 /\ export'.pc = "build" => Found(d)' \/ Refused(d)'
                 /\ export'.complete =>
                       Page([dir |-> d, cfg |-> CfgShown(d)])' \in index' \/ Refused(d)'
      BY <1>1, <2>1, <2>2, <2>3, <2>4 DEF ShownInv
    <2> QED BY <1>2, <2>4 DEF ShownInv, Partial
  <1> QED BY <1>3, <1>4, <1>5

(***************************************************************************)
(* The theorems                                                            *)
(***************************************************************************)
ArtifactsInv == SweepInv /\ LinksInv /\ ScanInv /\ OneInv /\ ShownInv

LEMMA NextArtifacts == ArtifactsInv /\ [Next]_vars => ArtifactsInv'
  <1> SUFFICES ASSUME ArtifactsInv, [Next]_vars PROVE (ScanInv /\ OneInv /\ ShownInv)'
    BY NextSweepInv, NextLinks DEF ArtifactsInv
  <1> USE DEF ArtifactsInv
  <1>1. CASE SweepNext /\ UNCHANGED exportVars
    BY <1>1, SweepArtifacts
  <1>2. CASE Begin
    BY <1>2, BeginArtifacts
  <1>3. CASE ListEntry
    BY <1>3, ListEntryArtifacts
  <1>4. CASE Scan
    BY <1>4, ScanArtifacts
  <1>5. CASE Analyze
    BY <1>5, AnalyzeArtifacts
  <1>6. CASE Analyzed
    BY <1>6, AcceptArtifacts DEF Analyzed, ScanInv
  <1>7. CASE EndScan
    BY <1>7, EndScanArtifacts
  <1>8. CASE Build
    BY <1>8, BuildArtifacts
  <1>9. CASE WriteIndex
    BY <1>9, WriteIndexArtifacts
  <1>10. CASE Interrupt
    BY <1>10, DieArtifacts DEF Interrupt
  <1>11. CASE Open \/ UNCHANGED vars
    BY <1>11, IdleArtifacts DEF Open
  <1> QED BY <1>1, <1>2, <1>3, <1>4, <1>5, <1>6, <1>7, <1>8, <1>9, <1>10, <1>11 DEF Next

\* What is known of directories, processes, traces and pages, while sweeps
\* write them, exports read them, and both may die at any point.
THEOREM ArtifactsInductive == Spec => []ArtifactsInv
  <1>1. Init => ArtifactsInv
    <2>1. Init => LinksInv
      BY EmptySeq DEF Init, NoScript, LinksInv
    <2> QED BY <2>1, InitSweepInv, InitArtifacts DEF ArtifactsInv
  <1> QED BY <1>1, NextArtifacts, PTL DEF Spec

\* A page of a directory that one process has run in shows that process, and
\* the records and log beside its results are its own, complete: the last file
\* of the dump commits them, and without it there is no trace.
THEOREM OneProcessPerPage == Spec => []OneExecutionPerPage
  <1>1. ASSUME ArtifactsInv PROVE OneExecutionPerPage
    <2> SUFFICES ASSUME NEW p \in DOMAIN pages, Cardinality(Runs(pages[p].dir)) = 1
                 PROVE  /\ Runs(pages[p].dir) = {pages[p].results}
                        /\ pages[p].trace.kernels = Whole(pages[p].results)
                        /\ pages[p].trace.calib = Whole(pages[p].results)
                        /\ ModeOf(pages[p].dir) # "seq" =>
                              pages[p].trace.log = Whole(pages[p].results)
      BY DEF OneExecutionPerPage
    <2>1. IsFiniteSet(Runs(pages[p].dir))
      <3>1. Runs(pages[p].dir) \in SUBSET (1 .. Now) /\ Now \in Nat
        BY <1>1, ExecTypes DEF ArtifactsInv
      <3> QED BY <3>1, FS_Interval, FS_Subset, SMTT(30)
    <2>2. PICK n : Runs(pages[p].dir) = {n}
      BY <2>1, FS_Singleton
    <2>3. OwnPage(pages[p], n)
      BY <1>1, <2>2 DEF ArtifactsInv, OneInv
    <2>4. ModeOf(pages[p].dir) = exec[n].mode
      BY <2>2, ModeOfOne
    <2> QED BY <2>2, <2>3, <2>4 DEF OwnPage, OwnTrace
  <1> QED BY <1>1, ArtifactsInductive, PTL

\* A run that was finished when an export began, and was not begun again
\* since, is in the index that the export writes, unless analyze.py failed on
\* its complete files: then a colocated run is reported as skipped.
THEOREM FinishedShown == Spec => []FinishedRunsShown
  <1>1. ArtifactsInv => FinishedRunsShown
    BY DEF ArtifactsInv, ShownInv, Settled, Refused, FinishedRunsShown
  <1> QED BY <1>1, ArtifactsInductive, PTL
(***************************************************************************)
(* Navigation                                                              *)
(***************************************************************************)
\* A process as the export shows it, in a list of runs and as a page.
ShownAs(r) == Shown(r.dir, r.mode)
ItemOf(r) == [dir |-> r.dir, cfg |-> ShownAs(r), clients |-> r.clients]
PageOf(r) == [cfg |-> ShownAs(r), name |-> r.dir.name]

\* What has been read of a directory was left by a process that ran there.
OriginInv ==
    /\ \A d \in DOMAIN files : files[d].results # Absent => files[d].results.run \in Runs(d)
    /\ \A i \in 1 .. Len(export.found) : \E n \in 1 .. Now : export.found[i] = ItemOf(exec[n])
    /\ \A p \in DOMAIN pages :
          pages[p].results \in 1 .. Now /\ p = PageOf(exec[pages[p].results])

\* The pages of one export bear one map.
BuiltInv ==
    /\ export.pc = "build" \/ export.complete =>
          \A i \in 1 .. Len(export.built) :
             /\ export.built[i] = Page(export.found[i])
             /\ pages[export.built[i]].nav = PairMap
             /\ pages[export.built[i]].selectors = Selectors
    /\ export.complete =>
          /\ export.pc = "idle" /\ Len(export.built) = Len(export.found)
          /\ index = ToSet(export.built)

NavInv == OriginInv /\ BuiltInv

LEMMA ShownAlike ==
    ASSUME WellNamed, SweepInv, NEW d, NEW n \in Runs(d)
    PROVE  exec[n].dir = d /\ CfgShown(d) = ShownAs(exec[n])
  <1>1. PICK m : m = (CHOOSE i \in Runs(d) : TRUE) /\ m \in Runs(d)
    OBVIOUS
  <1>2. exec[m].dir = d /\ exec[n].dir = d /\ exec[m] \in Processes /\ exec[n] \in Processes
    BY <1>1 DEF Runs, SweepInv, RecordsInv
  <1>3. exec[m].mode = exec[n].mode
    BY <1>2 DEF WellNamed
  <1>4. ModeOf(d) = exec[n].mode
    BY <1>1, <1>3 DEF ModeOf
  <1> QED BY <1>2, <1>4 DEF CfgShown, ShownAs

\* The map and the selectors are made of what was found.
LEMMA MapKept ==
    ASSUME export'.found = export.found
    PROVE  PairMap' = PairMap /\ Selectors' = Selectors
  <1>1. \A k : OfChoice(k)' = OfChoice(k)
    BY DEF OfChoice
  <1> QED BY <1>1 DEF PairMap, Selectors

LEMMA BuiltKept ==
    ASSUME BuiltInv, UNCHANGED <<export, pages, index>>
    PROVE  BuiltInv'
  <1>1. PairMap' = PairMap /\ Selectors' = Selectors
    BY MapKept
  <1> QED BY <1>1 DEF BuiltInv, Page

\* Processes are only ever added.
LEMMA OriginGrows ==
    ASSUME OriginInv, SweepInv, Now' \in Nat, Now <= Now',
           \A n \in 1 .. Now : exec'[n] = exec[n], UNCHANGED pages,
           export'.found = export.found \/ export'.found = <<>>
    PROVE  /\ \A i \in 1 .. Len(export'.found) :
                 \E n \in 1 .. Now' : export'.found[i] = ItemOf(exec[n])'
           /\ \A p \in DOMAIN pages' :
                 pages'[p].results \in 1 .. Now' /\ p = PageOf(exec[pages[p].results])'
  <1>1. Now \in Nat /\ \A n \in 1 .. Now : n \in 1 .. Now'
    BY ExecTypes
  <1>2. \A n \in 1 .. Now : ItemOf(exec[n])' = ItemOf(exec[n]) /\ PageOf(exec[n])' = PageOf(exec[n])
    BY DEF ItemOf, PageOf, ShownAs
  <1>3. ASSUME NEW i \in 1 .. Len(export'.found)
        PROVE  \E n \in 1 .. Now' : export'.found[i] = ItemOf(exec[n])'
    <2>1. export'.found = export.found
      BY <1>3
    <2>2. PICK n \in 1 .. Now : export.found[i] = ItemOf(exec[n])
      BY <1>3, <2>1 DEF OriginInv
    <2> QED BY <1>1, <1>2, <2>1, <2>2
  <1>4. ASSUME NEW p \in DOMAIN pages'
        PROVE  pages'[p].results \in 1 .. Now' /\ p = PageOf(exec[pages[p].results])'
    <2>1. PICK n \in 1 .. Now : n = pages[p].results /\ p = PageOf(exec[n])
      BY <1>4 DEF OriginInv
    <2>2. pages'[p].results = n /\ exec'[n] = exec[n]
      BY <2>1
    <2> QED BY <1>1, <2>1, <2>2 DEF PageOf, ShownAs
  <1> QED BY <1>3, <1>4

LEMMA InitNav ==
    ASSUME Init
    PROVE  NavInv
  <1>1. export.found = <<>> /\ export.pc = "idle" /\ ~export.complete /\ pages = <<>>
    BY DEF Init, NoScript
  <1> QED BY <1>1, InitFiles DEF NavInv, OriginInv, BuiltInv

LEMMA RunPairOrigin ==
    ASSUME SweepInv, ScanInv, OriginInv, RunPair, UNCHANGED exportVars
    PROVE  OriginInv'
  <1>1. PICK x \in Processes : exec' = Append(exec, x) /\ x.dir = Dir(CfgOf(sweep.setting), NextPair)
    <2>1. NextPair \in Pairs /\ sweep.setting \in Settings
      BY NextPairIn DEF RunPair, SweepInv, RecordsInv
    <2> QED BY <2>1 DEF RunPair, Processes, Process
  <1>2. PICK d0 : d0 = x.dir
    OBVIOUS
  <1>3. files' = IF d0 \in DOMAIN files THEN files
                 ELSE [e \in DOMAIN files \cup {d0} |-> IF e = d0 THEN Empty ELSE files[e]]
    BY <1>1, <1>2 DEF RunPair
  <1>4. \A d : Runs(d) \subseteq Runs(d)'
    BY <1>1, <1>2, RunsGrow
  <1>5. Now' \in Nat /\ Now <= Now' /\ \A n \in 1 .. Now : exec'[n] = exec[n]
    <2>1. exec \in Seq(Processes)
      BY DEF SweepInv, RecordsInv
    <2> QED BY <1>1, <2>1 DEF Now
  <1>6. ASSUME NEW d \in DOMAIN files', files'[d].results # Absent
        PROVE  files'[d].results.run \in Runs(d)'
    <2>1. d \in DOMAIN files /\ files'[d] = files[d]
      BY <1>3, <1>6 DEF Empty
    <2> QED BY <1>4, <1>6, <2>1 DEF OriginInv
  <1>7. Absent' = Absent
    BY DEF Absent
  <1> QED BY <1>5, <1>6, <1>7, OriginGrows DEF OriginInv

\* Processes and pages stay, and so do results, but for a process's own.
LEMMA OriginKept ==
    ASSUME OriginInv, SweepInv, UNCHANGED <<exec, pages>>,
           export'.found = export.found \/ export'.found = <<>>,
           DOMAIN files' = DOMAIN files,
           \A d \in DOMAIN files :
              \/ files'[d].results = files[d].results
              \/ files'[d].results.run \in Runs(d)
    PROVE  OriginInv'
  <1>1. Now' = Now /\ Now' \in Nat /\ Now <= Now' /\ \A d : Runs(d)' = Runs(d)
    BY ExecTypes, RunsKept
  <1>2. Absent' = Absent
    BY DEF Absent
  <1>3. \A d \in DOMAIN files' : files'[d].results # Absent => files'[d].results.run \in Runs(d)
    BY DEF OriginInv
  <1> QED BY <1>1, <1>2, <1>3, OriginGrows DEF OriginInv

LEMMA WriteOrigin ==
    ASSUME SweepInv, OriginInv, NEW file \in Own,
           NEW content \in {Partial(Now), Whole(Now)}, NEW from \in Busy, NEW to,
           Write(file, content, from, to), UNCHANGED exportVars
    PROVE  OriginInv'
  <1>1. /\ sweep.pc = from /\ exec' = exec
        /\ files' = [files EXCEPT ![Here][file] = content]
    BY DEF Write
  <1>2. Now > 0 /\ Here \in DOMAIN files
    <2>1. Now > sweep.since /\ sweep.since \in Nat /\ Here \in DOMAIN files
      BY <1>1 DEF SweepInv, ProcessInv, RecordsInv
    <2> QED BY <2>1, ExecTypes
  <1>3. Now \in Runs(Here) /\ content.run = Now
    BY <1>2, LastRun DEF Partial, Whole
  <1>4. \A d \in DOMAIN files : DOMAIN files[d] = FileFields
    BY DEF SweepInv, RecordsInv
  <1>5. /\ DOMAIN files' = DOMAIN files
        /\ \A d \in DOMAIN files : d # Here => files'[d] = files[d]
        /\ files'[Here].results = IF file = "results" THEN content ELSE files[Here].results
    BY <1>1, <1>2, <1>4 DEF FileFields, Own
  <1>6. \A d \in DOMAIN files : \/ files'[d].results = files[d].results
                                \/ files'[d].results.run \in Runs(d)
    BY <1>3, <1>5
  <1> QED BY <1>1, <1>5, <1>6, OriginKept

LEMMA SweepNav ==
    ASSUME SweepInv, ScanInv, NavInv, SweepNext, UNCHANGED exportVars
    PROVE  NavInv'
  <1> SUFFICES OriginInv'
    BY BuiltKept DEF NavInv
  <1>2. CASE UNCHANGED <<files, exec>>
    BY <1>2, OriginKept DEF NavInv
  <1>3. CASE \/ \E s \in Settings, skip_solo \in BOOLEAN : Start(s, skip_solo)
             \/ SoloPass \/ EndSweep \/ DumpFails \/ Exit \/ Crash
    BY <1>2, <1>3 DEF Start, SoloPass, EndSweep, DumpFails, Exit, Crash
  <1>4. CASE RunPair
    BY <1>4, RunPairOrigin DEF NavInv
  <1>5. CASE WriteLog \/ OpenKernels \/ CloseKernels \/ WriteCalib \/ OpenResults \/ CloseResults
    <2>1. \E to : \/ Write("log", Whole(Now), "running", to)
                  \/ Write("kernels", Partial(Now), "logged", to)
                  \/ Write("kernels", Whole(Now), "dumping", to)
                  \/ Write("calib", Whole(Now), "closed", to)
                  \/ Write("results", Partial(Now), "dumped", to)
                  \/ Write("results", Whole(Now), "writing", to)
      BY <1>5, Zenon DEF WriteLog, OpenKernels, CloseKernels, WriteCalib, OpenResults, CloseResults
    <2>2. \E file \in Own, content \in {Partial(Now), Whole(Now)}, from \in Busy : \E to :
             Write(file, content, from, to)
      BY <2>1 DEF Own, Busy, Early, Late
    <2> QED BY <2>2, WriteOrigin DEF NavInv
  <1> QED BY <1>2, <1>3, <1>4, <1>5 DEF SweepNext

\* A step of the script that finds nothing and writes no page.
LEMMA ScriptNav ==
    ASSUME SweepInv, NavInv, UNCHANGED <<exec, pages>>, DOMAIN files' = DOMAIN files,
           \A d \in DOMAIN files : files'[d].results = files[d].results,
           export'.found = export.found \/ export'.found = <<>>,
           export'.pc # "build" \/ export'.built = <<>>, ~export'.complete
    PROVE  NavInv'
  <1>1. OriginInv'
    BY OriginKept DEF NavInv
  <1>2. BuiltInv'
    BY DEF BuiltInv
  <1> QED BY <1>1, <1>2 DEF NavInv

LEMMA DieNav ==
    ASSUME SweepInv, ScanInv, ShownInv, NavInv, export.pc # "idle", Die,
           UNCHANGED <<files, exec, pages>>
    PROVE  NavInv'
  <1>1. export'.pc = "idle" /\ export'.found = <<>> /\ ~export'.complete
    BY DEF Die, NoScript
  <1> QED BY <1>1, ScriptNav

\* A directory is found with what its results say of the process that left them.
LEMMA AcceptNav ==
    ASSUME WellNamed, SweepInv, ScanInv, ShownInv, NavInv, export.pc \in {"scan", "analyzed"},
           export.todo # {}, Accept(NextDir), UNCHANGED <<files, exec, pages>>
    PROVE  NavInv'
  <1>1. PICK d0 : d0 = NextDir
    OBVIOUS
  <1>2. d0 \in DOMAIN files
    BY <1>1, NextDirIn DEF ScanInv
  <1>3. CASE ~files[d0].results.whole
    BY <1>1, <1>3, DieNav DEF Accept
  <1>4. CASE files[d0].results.whole
    <2>1. PICK n : n = files[d0].results.run /\ n \in Runs(d0) /\ n \in 1 .. Now
      <3>1. files[d0].results # Absent
        BY <1>4 DEF Absent
      <3> QED BY <1>2, <3>1, ExecTypes DEF NavInv, OriginInv
    <2>2. exec[n].dir = d0 /\ CfgShown(d0) = ShownAs(exec[n])
      BY <2>1, ShownAlike
    <2>3. PICK item : item = [dir |-> d0, cfg |-> CfgShown(d0), clients |-> exec[n].clients]
      OBVIOUS
    <2>4. item = ItemOf(exec[n])
      BY <2>2, <2>3 DEF ItemOf
    <2>5. /\ export'.pc = "scan" /\ ~export'.complete
          /\ export'.found = Append(export.found, item)
      BY <1>1, <1>4, <2>1, <2>3 DEF Accept, ScanInv, ShownInv, ExportFields
    <2>6. ASSUME NEW i \in 1 .. Len(export'.found)
          PROVE  \E m \in 1 .. Now' : export'.found[i] = ItemOf(exec[m])'
      <3>0. export.found \in Seq([dir : Dirs, cfg : Cfgs, clients : Seq(Nat)])
        BY DEF ScanInv
      <3>1. \/ i \in 1 .. Len(export.found) /\ export'.found[i] = export.found[i]
            \/ export'.found[i] = item
        BY <2>5, <3>0
      <3>2. PICK m \in 1 .. Now : export'.found[i] = ItemOf(exec[m])
        BY <2>1, <2>4, <3>1 DEF NavInv, OriginInv
      <3>3. Now' = Now /\ ItemOf(exec[m])' = ItemOf(exec[m])
        BY DEF Now, ItemOf, ShownAs
      <3> QED BY <3>2, <3>3
    <2>7. OriginInv'
      <3>1. /\ Now' = Now /\ \A d : Runs(d)' = Runs(d)
            /\ \A m : PageOf(exec[m])' = PageOf(exec[m])
        BY RunsKept DEF PageOf, ShownAs
      <3>2. Absent' = Absent
        BY DEF Absent
      <3>3. \A p \in DOMAIN pages' :
               pages'[p].results \in 1 .. Now' /\ p = PageOf(exec[pages[p].results])'
        BY <3>1 DEF NavInv, OriginInv, PageOf, ShownAs
      <3> QED BY <2>6, <3>1, <3>2, <3>3 DEF NavInv, OriginInv
    <2>8. BuiltInv'
      BY <2>5 DEF BuiltInv
    <2> QED BY <2>7, <2>8 DEF NavInv
  <1> QED BY <1>3, <1>4

LEMMA ScanNav ==
    ASSUME WellNamed, SweepInv, ScanInv, ShownInv, NavInv,
           Begin \/ ListEntry \/ Scan \/ Analyze \/ Analyzed \/ EndScan
    PROVE  NavInv'
  <1>1. CASE Begin
    BY <1>1, ScriptNav DEF Begin, NoScript
  <1>2. CASE ListEntry
    <2>1. export'.found = export.found /\ export'.pc = "scan" /\ ~export'.complete
      BY <1>2 DEF ListEntry, ScanInv, ShownInv, ExportFields
    <2> QED BY <1>2, <2>1, ScriptNav DEF ListEntry
  <1>3. CASE Scan
    <2>1. export.pc = "scan" /\ export.todo # {} /\ UNCHANGED <<files, exec, pages>>
      BY <1>3 DEF Scan
    <2>2. CASE Accept(NextDir)
      BY <2>1, <2>2, AcceptNav
    <2>3. CASE Die
      BY <2>1, <2>3, DieNav
    <2>4. CASE Skip({}) \/ export' = [export EXCEPT !.pc = "analyze", !.reads = files[NextDir]]
      <3>1. export'.found = export.found /\ export'.pc # "build" /\ ~export'.complete
        BY <2>1, <2>4 DEF Skip, ScanInv, ShownInv, ExportFields
      <3> QED BY <2>1, <3>1, ScriptNav
    <2> QED BY <1>3, <2>2, <2>3, <2>4, ScanCases
  <1>4. CASE Analyze
    <2>1. /\ export.pc = "analyze" /\ UNCHANGED <<exec, pages>>
          /\ \/ \E refused : Skip(refused)
             \/ export' = [export EXCEPT !.pc = "analyzed", !.reads = Empty]
      BY <1>4 DEF Analyze
    <2>2. export'.found = export.found /\ export'.pc # "build" /\ ~export'.complete
      BY <2>1 DEF Skip, ScanInv, ShownInv, ExportFields
    <2>3. DOMAIN files' = DOMAIN files /\ \A d \in DOMAIN files : files'[d].results = files[d].results
      BY <1>4, AnalyzeFiles DEF Own
    <2> QED BY <2>1, <2>2, <2>3, ScriptNav
  <1>5. CASE Analyzed
    BY <1>5, AcceptNav DEF Analyzed, ScanInv
  <1>6. CASE EndScan
    <2>1. /\ export'.found = export.found /\ export'.built = <<>> /\ ~export'.complete
      BY <1>6 DEF EndScan, ScanInv, ShownInv, ExportFields
    <2> QED BY <1>6, <2>1, ScriptNav DEF EndScan
  <1> QED BY <1>1, <1>2, <1>3, <1>4, <1>5, <1>6

\* A page is made of the results of a process that ran in its item's directory,
\* and bears the map of this export.
LEMMA BuildNav ==
    ASSUME WellNamed, SweepInv, ScanInv, ShownInv, LinksInv, NavInv, Build
    PROVE  NavInv'
  <1>1. /\ export.pc = "build" /\ UNCHANGED <<files, exec, sweep, index>>
        /\ ~export.complete
    BY DEF Build, ShownInv
  <1>2. CASE pages' = pages /\ Die
    BY <1>1, <1>2, DieNav
  <1>3. PICK k : k = Len(export.built) + 1
    OBVIOUS
  <1>4. PICK item : item = export.found[k]
    OBVIOUS
  <1>5. PICK page : page = [dir |-> item.dir, trace |-> files[item.dir].trace,
                            results |-> files[item.dir].results.run,
                            nav |-> PairMap, selectors |-> Selectors]
    OBVIOUS
  <1>6. CASE /\ files[item.dir].results.whole
             /\ pages' = [p \in DOMAIN pages \cup {Page(item)} |->
                            IF p = Page(item) THEN page ELSE pages[p]]
             /\ export' = [export EXCEPT !.built = Append(@, Page(item))]
    <2>1. /\ export'.pc = "build" /\ export'.found = export.found /\ ~export'.complete
          /\ export'.built = Append(export.built, Page(item))
      BY <1>1, <1>6 DEF ScanInv, ExportFields
    <2>2. /\ k \in 1 .. Len(export.found) /\ Len(export.built) \in Nat
          /\ Len(export'.built) = k /\ export'.built[k] = Page(item)
          /\ \A i \in 1 .. k - 1 : i \in 1 .. Len(export.built) /\ export'.built[i] = export.built[i]
      <3>1. export.built \in Seq(DOMAIN pages') /\ Page(item) \in DOMAIN pages'
        <4>1. DOMAIN pages' = DOMAIN pages \cup {Page(item)}
          BY <1>6
        <4> QED BY <4>1, SeqMonotonic DEF LinksInv
      <3>2. Len(export.built) < Len(export.found)
        BY DEF Build
      <3>3. Len(export.found) \in Nat
        <4>1. export.found \in Seq([dir : Dirs, cfg : Cfgs, clients : Seq(Nat)])
          BY DEF ScanInv
        <4> HIDE DEF Dirs, Cfgs
        <4> QED BY <4>1, LenProperties
      <3> QED BY <1>3, <2>1, <3>1, <3>2, <3>3
    <2>3. PICK m \in 1 .. Now : item = ItemOf(exec[m])
      BY <1>4, <2>2 DEF NavInv, OriginInv
    <2>4. item.dir = exec[m].dir /\ item.cfg = ShownAs(exec[m])
      BY <2>3 DEF ItemOf
    <2>5. item.dir \in DOMAIN files
      BY <1>4, <2>2 DEF ScanInv
    <2>6. PICK n : n = files[item.dir].results.run /\ n \in Runs(item.dir) /\ n \in 1 .. Now
      <3>1. files[item.dir].results # Absent
        BY <1>6 DEF Absent
      <3> QED BY <2>5, <3>1, ExecTypes DEF NavInv, OriginInv
    <2>7. Page(item) = PageOf(exec[n])
      <3>1. m \in Runs(item.dir)
        BY <2>3, <2>4, ExecTypes DEF Runs
      <3>2. ShownAs(exec[n]) = ShownAs(exec[m]) /\ exec[n].dir = item.dir
        BY <2>6, <3>1, ShownAlike
      <3> QED BY <2>4, <3>2 DEF Page, PageOf
    <2>8. /\ DOMAIN pages' = DOMAIN pages \cup {Page(item)} /\ pages'[Page(item)] = page
          /\ \A p \in DOMAIN pages : p # Page(item) => pages'[p] = pages[p]
      BY <1>6
    <2>9. page.results = n /\ page.nav = PairMap /\ page.selectors = Selectors
      BY <1>5, <2>6
    <2>10. OriginInv'
      <3>1. /\ Now' = Now /\ \A d : Runs(d)' = Runs(d)
            /\ \A i : ItemOf(exec[i])' = ItemOf(exec[i]) /\ PageOf(exec[i])' = PageOf(exec[i])
        BY <1>1, RunsKept DEF PageOf, ItemOf, ShownAs
      <3>2. Absent' = Absent
        BY DEF Absent
      <3>3. ASSUME NEW p \in DOMAIN pages'
            PROVE  pages'[p].results \in 1 .. Now /\ p = PageOf(exec[pages'[p].results])
        BY <2>6, <2>7, <2>8, <2>9, <3>3 DEF NavInv, OriginInv
      <3>4. \A p \in DOMAIN pages' :
               pages'[p].results \in 1 .. Now' /\ p = PageOf(exec[pages[p].results])'
        BY <1>1, <3>1, <3>3 DEF PageOf, ShownAs
      <3>5. \A i \in 1 .. Len(export'.found) :
               \E j \in 1 .. Now' : export'.found[i] = ItemOf(exec[j])'
        BY <2>1, <3>1 DEF NavInv, OriginInv
      <3>6. \A d \in DOMAIN files' : files'[d].results # Absent => files'[d].results.run \in Runs(d)'
        BY <1>1, <3>1 DEF NavInv, OriginInv
      <3> QED BY <3>2, <3>4, <3>5, <3>6 DEF OriginInv
    <2>11. BuiltInv'
      <3>1. PairMap' = PairMap /\ Selectors' = Selectors
        BY <2>1, MapKept
      <3>2. ASSUME NEW i \in 1 .. Len(export'.built)
            PROVE  /\ export'.built[i] = Page(export.found[i])
                   /\ pages'[export'.built[i]].nav = PairMap
                   /\ pages'[export'.built[i]].selectors = Selectors
        <4>1. CASE i = k
          BY <1>4, <2>2, <2>8, <2>9, <4>1
        <4>2. CASE i # k
          <5>1. i \in 1 .. Len(export.built) /\ export'.built[i] = export.built[i]
            BY <2>2, <4>2
          <5>2. /\ export.built[i] = Page(export.found[i]) /\ export.built[i] \in DOMAIN pages
                /\ pages[export.built[i]].nav = PairMap
                /\ pages[export.built[i]].selectors = Selectors
            BY <1>1, <5>1 DEF NavInv, BuiltInv, LinksInv
          <5> QED BY <2>8, <2>9, <5>1, <5>2
        <4> QED BY <4>1, <4>2
      <3>3. \A i \in 1 .. Len(export'.built) : Page(export.found[i])' = Page(export.found[i])
        BY <2>1 DEF Page
      <3> QED BY <2>1, <3>1, <3>2, <3>3 DEF BuiltInv
    <2> QED BY <2>10, <2>11 DEF NavInv
  <1>7. \/ pages' = pages /\ Die
        \/ /\ files[item.dir].results.whole
           /\ pages' = [p \in DOMAIN pages \cup {Page(item)} |->
                          IF p = Page(item) THEN page ELSE pages[p]]
           /\ export' = [export EXCEPT !.built = Append(@, Page(item))]
    BY <1>3, <1>4, <1>5 DEF Build
  <1> QED BY <1>2, <1>6, <1>7

LEMMA IndexNav ==
    ASSUME SweepInv, ScanInv, ShownInv, NavInv, WriteIndex
    PROVE  NavInv'
  <1>1. /\ export.pc = "build" /\ Len(export.built) = Len(export.found)
        /\ export'.pc = "idle" /\ export'.found = export.found /\ export'.built = export.built
        /\ UNCHANGED <<files, exec, sweep, pages>>
        /\ index' = ToSet(export.built)
    BY DEF WriteIndex, ScanInv, ExportFields
  <1>2. OriginInv'
    BY <1>1, OriginKept DEF NavInv
  <1>3. PairMap' = PairMap /\ Selectors' = Selectors
    BY <1>1, MapKept
  <1>4. \A i \in 1 .. Len(export.built) : Page(export.found[i])' = Page(export.found[i])
    BY <1>1 DEF Page
  <1>5. BuiltInv'
    BY <1>1, <1>3, <1>4 DEF NavInv, BuiltInv
  <1> QED BY <1>2, <1>5 DEF NavInv

LEMMA NextNav ==
    ASSUME WellNamed, ArtifactsInv, NavInv, [Next]_vars
    PROVE  NavInv'
  <1> USE DEF ArtifactsInv
  <1>1. CASE SweepNext /\ UNCHANGED exportVars
    BY <1>1, SweepNav
  <1>2. CASE Begin \/ ListEntry \/ Scan \/ Analyze \/ Analyzed \/ EndScan
    BY <1>2, ScanNav
  <1>3. CASE Build
    BY <1>3, BuildNav
  <1>4. CASE WriteIndex
    BY <1>4, IndexNav
  <1>5. CASE Interrupt
    BY <1>5, DieNav DEF Interrupt
  <1>6. CASE Open \/ UNCHANGED vars
    <2>1. UNCHANGED <<files, exec, export, pages, index>>
      BY <1>6 DEF Open
    <2> QED BY <2>1, OriginKept, BuiltKept DEF NavInv
  <1> QED BY <1>1, <1>2, <1>3, <1>4, <1>5, <1>6 DEF Next

\* pair_map's loop over N items of one choice, turn by turn.
PreferLoop(after, items, N) ==
    /\ after[0] = <<>>
    /\ \A n \in 0 .. N - 1 : after[n + 1] = Prefer(after[n], items[n + 1])

LEMMA PreferTurns ==
    ASSUME NEW items, NEW N \in Nat, DOMAIN items = 1 .. N
    PROVE  \E after : PreferLoop(after, items, N) /\ after[N] = FoldLeft(Prefer, <<>>, items)
  <1>1. PICK A : A = {<<>>} \cup {<<Page(items[n])>> : n \in 1 .. N}
    OBVIOUS
  <1>2. PICK step : step = [p \in A \X (1 .. N) |-> Prefer(p[1], items[p[2]])]
    OBVIOUS
  <1>3. ASSUME NEW m \in A, NEW n \in 1 .. N
        PROVE  step[<<m, n>>] = Prefer(m, items[n]) /\ Prefer(m, items[n]) \in A
    <2>1. <<m, n>> \in A \X (1 .. N) /\ <<m, n>>[1] = m /\ <<m, n>>[2] = n
      OBVIOUS
    <2> QED BY <1>1, <1>2, <2>1 DEF Prefer
  <1>4. step \in [A \X (1 .. N) -> A]
    <2>1. ASSUME NEW p \in A \X (1 .. N) PROVE Prefer(p[1], items[p[2]]) \in A
      BY <1>3
    <2> QED BY <1>2, <2>1
  <1>5. PICK iter : Folded(iter, 1 .. N, A, <<>>, step)
    <2>1. <<>> \in A
      BY <1>1
    <2> QED BY <1>4, <2>1, FoldExists
  <1>6. iter = [t \in SUBSET (1 .. N) |->
                  IF t = {} THEN <<>> ELSE Prefer(iter[t \ {Max(t)}], items[Max(t)])]
    <2>1. ASSUME NEW t \in SUBSET (1 .. N), t # {}
          PROVE  step[<<iter[t \ {Max(t)}], Max(t)>>] = Prefer(iter[t \ {Max(t)}], items[Max(t)])
      <3>1. Max(t) \in 1 .. N
        <4>1. t \in SUBSET (0 .. N)
          OBVIOUS
        <4> QED BY <2>1, <4>1, MaxTaken
      <3>2. iter[t \ {Max(t)}] \in A
        BY <1>5 DEF Folded
      <3> QED BY <1>3, <3>1, <3>2
    <2> QED BY <1>5, <2>1 DEF Folded
  <1>7. PICK loop : /\ loop = [t \in SUBSET (1 .. N) |->
                         IF t = {} THEN <<>> ELSE Prefer(loop[t \ {Max(t)}], items[Max(t)])]
                    /\ FoldLeft(Prefer, <<>>, items) = loop[1 .. N]
    <2>1. FoldLeft(Prefer, <<>>, items) =
            (CHOOSE j : j = [t \in SUBSET (DOMAIN items) |->
                IF t = {} THEN <<>> ELSE Prefer(j[t \ {Max(t)}], items[Max(t)])])[DOMAIN items]
      BY Zenon DEF FoldLeft, MapThenFoldSet
    <2>2. FoldLeft(Prefer, <<>>, items) =
            (CHOOSE j : j = [t \in SUBSET (1 .. N) |->
                IF t = {} THEN <<>> ELSE Prefer(j[t \ {Max(t)}], items[Max(t)])])[1 .. N]
      BY <2>1, Zenon
    <2> QED BY <1>6, <2>2, Zenon
  <1>8. PICK after : after = [n \in 0 .. N |-> loop[1 .. n]]
    OBVIOUS
  <1>9. after[0] = <<>>
    <2>1. 1 .. 0 = {} /\ {} \in SUBSET (1 .. N) /\ 0 \in 0 .. N
      OBVIOUS
    <2>2. loop[{}] = <<>>
      BY <1>7, <2>1
    <2> QED BY <1>8, <2>1, <2>2
  <1>10. ASSUME NEW n \in 0 .. N - 1 PROVE after[n + 1] = Prefer(after[n], items[n + 1])
    <2>1. /\ 1 .. n + 1 \in SUBSET (1 .. N) /\ 1 .. n + 1 # {}
          /\ Max(1 .. n + 1) = n + 1 /\ (1 .. n + 1) \ {Max(1 .. n + 1)} = 1 .. n
      BY TurnOf
    <2>2. loop[1 .. n + 1] = Prefer(loop[(1 .. n + 1) \ {Max(1 .. n + 1)}], items[Max(1 .. n + 1)])
      BY <1>7, <2>1
    <2>3. loop[1 .. n + 1] = Prefer(loop[1 .. n], items[n + 1])
      BY <2>1, <2>2
    <2>4. n \in 0 .. N /\ n + 1 \in 0 .. N
      OBVIOUS
    <2> QED BY <1>8, <2>3, <2>4
  <1>11. after[N] = FoldLeft(Prefer, <<>>, items)
    <2>1. N \in 0 .. N
      OBVIOUS
    <2> QED BY <1>7, <1>8, <2>1
  <1> QED BY <1>9, <1>10, <1>11 DEF PreferLoop

Canon(item) == item.dir.name = Canonical(item.clients)

\* After n turns: the page of one of the first n items, of a canonical one if
\* there has been one.
Preferred(slot, items, n) ==
    \E i \in 1 .. n : /\ slot = <<Page(items[i])>>
                      /\ (\E j \in 1 .. n : Canon(items[j])) => Canon(items[i])

LEMMA ChosenExact ==
    ASSUME NEW items, NEW N \in Nat \ {0}, DOMAIN items = 1 .. N
    PROVE  \E i \in 1 .. N : /\ Chosen(items) = Page(items[i])
                             /\ (\E j \in 1 .. N : Canon(items[j])) => Canon(items[i])
  <1>1. PICK after : PreferLoop(after, items, N) /\ after[N] = FoldLeft(Prefer, <<>>, items)
    BY PreferTurns
  <1>2. PICK S : S = {n \in 0 .. N : n # 0 => Preferred(after[n], items, n)}
    OBVIOUS
  <1>3. 0 \in S
    BY <1>2
  <1>4. ASSUME NEW n \in 0 .. N - 1, n \in S PROVE n + 1 \in S
    <2>1. after[n + 1] = Prefer(after[n], items[n + 1])
      BY <1>1 DEF PreferLoop
    <2>2. n \in Nat /\ n + 1 \in 1 .. n + 1 /\ \A i \in 1 .. n : i \in 1 .. n + 1
      OBVIOUS
    <2>3. CASE n = 0
      <3>0. after[n] = <<>>
        BY <1>1, <2>3 DEF PreferLoop
      <3>1. after[n + 1] = <<Page(items[n + 1])>>
        BY <2>1, <3>0 DEF Prefer
      <3>2. \A j \in 1 .. n + 1 : j = n + 1
        BY <2>3
      <3>3. Preferred(after[n + 1], items, n + 1)
        BY <2>2, <3>1, <3>2 DEF Preferred
      <3> QED BY <1>2, <3>3
    <2>4. CASE n # 0
      <3>1. PICK i \in 1 .. n : /\ after[n] = <<Page(items[i])>>
                                /\ (\E j \in 1 .. n : Canon(items[j])) => Canon(items[i])
        BY <1>2, <1>4, <2>4 DEF Preferred
      <3>2. CASE Canon(items[n + 1])
        <4>1. after[n + 1] = <<Page(items[n + 1])>>
          BY <2>1, <3>2 DEF Prefer, Canon
        <4>2. Preferred(after[n + 1], items, n + 1)
          BY <2>2, <3>2, <4>1 DEF Preferred
        <4> QED BY <1>2, <4>2
      <3>3. CASE ~Canon(items[n + 1])
        <4>1. after[n + 1] = after[n]
          <5>1. <<Page(items[i])>> # <<>>
            OBVIOUS
          <5> QED BY <2>1, <3>1, <3>3, <5>1 DEF Prefer, Canon
        <4>2. \A j \in 1 .. n + 1 : Canon(items[j]) => j \in 1 .. n
          BY <3>3
        <4>3. Preferred(after[n + 1], items, n + 1)
          BY <2>2, <3>1, <4>1, <4>2 DEF Preferred
        <4> QED BY <1>2, <4>3
      <3> QED BY <3>2, <3>3
    <2> QED BY <2>3, <2>4
  <1>5. \A n \in 0 .. N : n \in S
    BY <1>3, <1>4, Upward
  <1>6. Preferred(after[N], items, N)
    BY <1>2, <1>5
  <1>7. PICK i \in 1 .. N : /\ after[N] = <<Page(items[i])>>
                            /\ (\E j \in 1 .. N : Canon(items[j])) => Canon(items[i])
    BY <1>6 DEF Preferred
  <1>8. Chosen(items) = Page(items[i])
    BY <1>1, <1>7 DEF Chosen
  <1> QED BY <1>7, <1>8

\* Where the map leads: to a run of the choice made, the canonical one if any.
LEMMA MapLeads ==
    ASSUME ScanInv, NEW k \in DOMAIN PairMap
    PROVE  \E i \in 1 .. Len(export.found) :
              /\ InMap(export.found[i]) /\ Choice(export.found[i]) = k
              /\ PairMap[k] = Page(export.found[i])
              /\ (\E j \in 1 .. Len(export.found) :
                     /\ InMap(export.found[j]) /\ Choice(export.found[j]) = k
                     /\ Canon(export.found[j])) => Canon(export.found[i])
  <1> DEFINE S == {i \in DOMAIN export.found :
                     InMap(export.found[i]) /\ Choice(export.found[i]) = k}
  <1>1. PICK N \in Nat : N = Len(export.found) /\ DOMAIN export.found = 1 .. N
    BY DEF ScanInv
  <1>2. S \in SUBSET (1 .. N)
    BY <1>1
  <1>3. PairMap[k] = Chosen(OfChoice(k)) /\ S # {}
    <2>1. PICK item \in ToSet(export.found) : InMap(item) /\ k = Choice(item)
      BY DEF PairMap
    <2>2. PICK i \in DOMAIN export.found : item = export.found[i]
      BY DEF ToSet
    <2>3. PairMap[k] = Chosen(OfChoice(k))
      BY DEF PairMap
    <2> QED BY <2>1, <2>2, <2>3
  <1>4. PICK items : items = OfChoice(k) /\ items = At(export.found, S)
    BY DEF OfChoice
  <1>5. PICK M \in 0 .. N : \E at : Part(at, M, export.found, S)
    <2> HIDE DEF S
    <2> QED BY <1>2, AtPositions
  <1>5a. PICK at : Part(at, M, export.found, S)
    BY <1>5
  <1>6. /\ at \in [1 .. M -> S] /\ items = [n \in 1 .. M |-> export.found[at[n]]]
        /\ \A i \in S : \E n \in 1 .. M : at[n] = i
    <2> HIDE DEF S
    <2> QED BY <1>4, <1>5a DEF Part
  <1>7. M \in Nat \ {0} /\ DOMAIN items = 1 .. M
    <2> HIDE DEF S
    <2> QED BY <1>3, <1>6
  <1>8. PICK n \in 1 .. M : /\ Chosen(items) = Page(items[n])
                            /\ (\E j \in 1 .. M : Canon(items[j])) => Canon(items[n])
    BY <1>7, ChosenExact
  <1>9. at[n] \in S /\ items[n] = export.found[at[n]]
    <2> HIDE DEF S
    <2> QED BY <1>6
  <1>10. \A i \in S : Canon(export.found[i]) => \E j \in 1 .. M : Canon(items[j])
    <2> HIDE DEF S
    <2> QED BY <1>6
  <1>11. PairMap[k] = Page(export.found[at[n]])
    BY <1>3, <1>4, <1>8, <1>9
  <1>12. \A i \in S : Canon(export.found[i]) => Canon(export.found[at[n]])
    BY <1>8, <1>9, <1>10
  <1> QED BY <1>1, <1>9, <1>11, <1>12

\* Processes shown as one configuration under one name ran one pair, under it.
LEMMA Named ==
    ASSUME WellNamed, SweepInv, NEW m \in 1 .. Now, NEW n \in 1 .. Now,
           ShownAs(exec[m]) = ShownAs(exec[n]), ShownAs(exec[n]) # Solo
    PROVE  /\ CapOf(exec[n].setting) = ShownAs(exec[n]).thr
           /\ exec[n].setting.sm = ShownAs(exec[n]).sm
           /\ exec[m].dir.name = exec[n].dir.name =>
                 Canonical(exec[m].clients) = Canonical(exec[n].clients)
           /\ exec[m].dir.name = Canonical(exec[n].clients) =>
                 Canonical(exec[m].clients) = Canonical(exec[n].clients)
  <1>1. PICK r \in Processes, q \in Processes : r = exec[m] /\ q = exec[n]
    BY ExecTypes DEF SweepInv, RecordsInv
  <1>2. Shown(r.dir, r.mode) = Shown(q.dir, q.mode) /\ Shown(q.dir, q.mode) # Solo
    BY <1>1 DEF ShownAs
  <1>3. /\ CapOf(q.setting) = Shown(q.dir, q.mode).thr
        /\ q.setting.sm = Shown(q.dir, q.mode).sm
        /\ r.dir.name = q.dir.name => Canonical(r.clients) = Canonical(q.clients)
        /\ r.dir.name = Canonical(q.clients) => Canonical(r.clients) = Canonical(q.clients)
    BY <1>1, <1>2 DEF WellNamed
  <1> QED BY <1>1, <1>3 DEF ShownAs

\* The page of a process bears its configuration and its directory's name.
LEMMA PageNamed ==
    ASSUME NEW r
    PROVE  PageOf(r).cfg = ShownAs(r) /\ PageOf(r).name = r.dir.name
  BY DEF PageOf

\* A page stands for its item: one pair, one configuration.
LEMMA PageShows ==
    ASSUME WellNamed, ArtifactsInv, NavInv, export.complete, NEW i \in 1 .. Len(export.found),
           export.found[i].cfg # Solo
    PROVE  /\ Page(export.found[i]) \in index /\ Page(export.found[i]) \in DOMAIN pages
           /\ Shows(pages[Page(export.found[i])],
                    Canonical(export.found[i].clients), export.found[i].cfg)
  <1> USE DEF ArtifactsInv
  <1>1. PICK item, p : item = export.found[i] /\ p = Page(item)
    OBVIOUS
  <1>2. p \in index /\ p \in DOMAIN pages
    BY <1>1 DEF NavInv, BuiltInv, LinksInv, ToSet
  <1>3. PICK m \in 1 .. Now : item = ItemOf(exec[m])
    BY <1>1 DEF NavInv, OriginInv
  <1>4. PICK n \in 1 .. Now : n = pages[p].results /\ p = PageOf(exec[n])
    BY <1>2 DEF NavInv, OriginInv
  <1>5. /\ item.cfg = ShownAs(exec[m]) /\ item.cfg = ShownAs(exec[n])
        /\ exec[m].dir.name = exec[n].dir.name /\ item.clients = exec[m].clients
    <2> HIDE DEF ArtifactsInv
    <2>1. /\ item.cfg = ShownAs(exec[m]) /\ item.dir = exec[m].dir
          /\ item.clients = exec[m].clients
      BY <1>3 DEF ItemOf
    <2>2. p.cfg = item.cfg /\ p.name = item.dir.name
      BY <1>1 DEF Page
    <2>3. p.cfg = ShownAs(exec[n]) /\ p.name = exec[n].dir.name
      BY <1>4, PageNamed
    <2> QED BY <2>1, <2>2, <2>3
  <1>6. /\ Canonical(exec[m].clients) = Canonical(exec[n].clients)
        /\ CapOf(exec[n].setting) = item.cfg.thr /\ exec[n].setting.sm = item.cfg.sm
    <2>1. ShownAs(exec[m]) = ShownAs(exec[n]) /\ ShownAs(exec[n]) # Solo
      BY <1>1, <1>5
    <2>2. /\ Canonical(exec[m].clients) = Canonical(exec[n].clients)
          /\ CapOf(exec[n].setting) = ShownAs(exec[n]).thr
          /\ exec[n].setting.sm = ShownAs(exec[n]).sm
      <3>1. exec[m].dir.name = exec[n].dir.name
        BY <1>5
      <3> QED BY <2>1, <3>1, Named
    <2> QED BY <1>5, <2>2
  <1>7. Shows(pages[p], Canonical(item.clients), item.cfg)
    BY <1>4, <1>5, <1>6 DEF Shows
  <1> QED BY <1>1, <1>2, <1>7

LEMMA SelectionHolds ==
    ASSUME WellNamed, ArtifactsInv, NavInv, export.complete, NEW p \in index
    PROVE  LET page == pages[p]
           IN  /\ \A k \in DOMAIN page.nav : LET target == page.nav[k] IN
                    /\ target \in DOMAIN pages /\ Shows(pages[target], k[1], k[2])
                    /\ [cfg |-> k[2], name |-> k[1]] \in index => target.name = k[1]
               /\ p.cfg # Solo =>
                    /\ p.cfg.thr \in page.selectors.thr /\ p.cfg.sm \in page.selectors.sm
                    /\ LET clients == Canonical(exec[page.results].clients)
                       IN  Len(clients) <= 2 => <<clients, p.cfg>> \in DOMAIN page.nav
  <1> USE DEF ArtifactsInv
  <1>0. /\ Len(export.built) = Len(export.found) /\ index = ToSet(export.built)
        /\ export.built \in Seq(DOMAIN pages)
        /\ DOMAIN export.found = 1 .. Len(export.found)
    BY DEF NavInv, BuiltInv, LinksInv, ScanInv
  <1>1. ASSUME NEW q \in index
        PROVE  \E i \in 1 .. Len(export.found) :
                  /\ q = Page(export.found[i])
                  /\ pages[q].nav = PairMap /\ pages[q].selectors = Selectors
    <2>1. PICK i \in 1 .. Len(export.built) : q = export.built[i]
      BY <1>0 DEF ToSet
    <2> QED BY <1>0, <2>1 DEF NavInv, BuiltInv
  <1>2. PICK i \in 1 .. Len(export.found) :
           /\ p = Page(export.found[i])
           /\ pages[p].nav = PairMap /\ pages[p].selectors = Selectors
    BY <1>1
  <1>3. ASSUME NEW k \in DOMAIN PairMap
        PROVE  /\ PairMap[k] \in DOMAIN pages /\ Shows(pages[PairMap[k]], k[1], k[2])
               /\ [cfg |-> k[2], name |-> k[1]] \in index => PairMap[k].name = k[1]
    <2>1. PICK j \in 1 .. Len(export.found) :
             /\ InMap(export.found[j]) /\ Choice(export.found[j]) = k
             /\ PairMap[k] = Page(export.found[j])
             /\ (\E l \in 1 .. Len(export.found) :
                    /\ InMap(export.found[l]) /\ Choice(export.found[l]) = k
                    /\ Canon(export.found[l])) => Canon(export.found[j])
      BY <1>3, MapLeads
    <2>2. /\ k[1] = Canonical(export.found[j].clients) /\ k[2] = export.found[j].cfg
          /\ export.found[j].cfg # Solo /\ Len(k[1]) <= 2
      BY <2>1 DEF Choice, InMap
    <2>3. PairMap[k] \in DOMAIN pages /\ Shows(pages[PairMap[k]], k[1], k[2])
      BY <2>1, <2>2, PageShows
    <2>4. ASSUME [cfg |-> k[2], name |-> k[1]] \in index PROVE PairMap[k].name = k[1]
      <3>1. PICK l \in 1 .. Len(export.found) :
               [cfg |-> k[2], name |-> k[1]] = Page(export.found[l])
        BY <1>1, <2>4
      <3>2. export.found[l].cfg = k[2] /\ export.found[l].dir.name = k[1]
        BY <3>1 DEF Page
      <3>3. PICK m \in 1 .. Now, n \in 1 .. Now :
               export.found[l] = ItemOf(exec[m]) /\ export.found[j] = ItemOf(exec[n])
        BY DEF NavInv, OriginInv
      <3>4. /\ ShownAs(exec[m]) = ShownAs(exec[n]) /\ ShownAs(exec[n]) # Solo
            /\ exec[m].dir.name = Canonical(exec[n].clients)
        BY <2>1, <2>2, <3>2, <3>3 DEF ItemOf
      <3>5. Canonical(exec[m].clients) = Canonical(exec[n].clients)
        BY <3>4, Named
      <3>6. Canonical(export.found[l].clients) = k[1]
        BY <2>2, <3>3, <3>5 DEF ItemOf
      <3>7. Choice(export.found[l]) = k /\ InMap(export.found[l])
        BY <2>1, <2>2, <3>2, <3>6 DEF Choice, InMap
      <3>8. Canon(export.found[l])
        BY <3>2, <3>6 DEF Canon
      <3>9. Canon(export.found[j])
        BY <2>1, <2>2, <3>2, <3>7, <3>8
      <3> QED BY <2>1, <2>2, <3>9 DEF Canon, Page
    <2> QED BY <2>3, <2>4
  <1>4. ASSUME p.cfg # Solo
        PROVE  /\ p.cfg.thr \in Selectors.thr /\ p.cfg.sm \in Selectors.sm
               /\ LET clients == Canonical(exec[pages[p].results].clients)
                  IN  Len(clients) <= 2 => <<clients, p.cfg>> \in DOMAIN PairMap
    <2>1. PICK item : item = export.found[i] /\ item \in ToSet(export.found)
      BY <1>0 DEF ToSet
    <2>2. item.cfg = p.cfg /\ item.cfg # Solo
      BY <1>2, <1>4, <2>1 DEF Page
    <2>3. p.cfg.thr \in Selectors.thr /\ p.cfg.sm \in Selectors.sm
      <3>1. p.cfg \in {x.cfg : x \in ToSet(export.found)} \ {Solo}
        BY <2>1, <2>2
      <3> QED BY <3>1 DEF Selectors
    <2>4. Canonical(exec[pages[p].results].clients) = Canonical(item.clients)
      BY <1>2, <2>1, <2>2, PageShows DEF Shows
    <2>5. Len(Canonical(item.clients)) <= 2 => Choice(item) \in DOMAIN PairMap
      BY <2>1, <2>2 DEF PairMap, InMap
    <2> QED BY <2>2, <2>3, <2>4, <2>5 DEF Choice
  <1> QED BY <1>2, <1>3, <1>4

\* After an export, choosing a pair, a throttle and a limit on any page leads
\* to a page that shows that pair as it ran under them, the canonical run where
\* there is one, and the own choice of every page of at most a pair can be
\* made: provided directories are named for what runs in them.
THEOREM SelectionLeads ==
    ASSUME WellNamed
    PROVE  Spec => []SelectionShown
  <1>1. Init => NavInv
    BY InitNav
  <1>2. ArtifactsInv /\ NavInv /\ [Next]_vars => NavInv'
    BY NextNav
  <1>3. ArtifactsInv /\ NavInv => SelectionShown
    BY SelectionHolds DEF SelectionShown
  <1> QED BY <1>1, <1>2, <1>3, ArtifactsInductive, PTL DEF Spec
=============================================================================
