------------------------------- MODULE Sweep --------------------------------
(***************************************************************************)
(* run_pairs.py: a solo pass, then one run_demo process per unordered pair *)
(* of workloads, each writing its run directory, file by file.  A process  *)
(* may die at any point, and obs_dump may give up on a file it cannot      *)
(* open, which nobody looks at.  `exec` and `lost` are history: the        *)
(* processes begun so far, by whose numbers files are told apart, and      *)
(* those whose dump gave up.                                               *)
(***************************************************************************)
EXTENDS Integers, Sequences, FiniteSets

CONSTANTS
    NumWorkloads,   \* colocatable workloads, numbered in alphabetical order
    Settings,       \* [policy, throttle, sm]: arguments of a sweep, 0 = omitted
    ByHand,         \* runs made with run_demo alone, as in `exec`
    MaxSweeps,      \* bound
    MaxFaults       \* bound: what goes wrong from outside, of all kinds

ASSUME SweepAssumption == {NumWorkloads, MaxSweeps, MaxFaults} \subseteq Nat
ASSUME SettingsAssumption == \A s \in Settings :
    s.policy \in {"fcfs", "throttle"} /\ s.throttle \in Nat /\ s.sm \in Nat
ASSUME ByHandAssumption == ByHand \in
    Seq([dir : [cfg : [thr : Int, sm : Int], name : Seq(Nat)], mode : {"seq", "colocated"},
         clients : Seq(Nat), setting : [policy : {"fcfs", "throttle"}, throttle : Nat, sm : Nat]])

\* combinations_with_replacement; a pair is also the name "<a>__<b>".
Pairs == {p \in (1 .. NumWorkloads) \X (1 .. NumWorkloads) : p[1] <= p[2]}

\* The configuration a sweep's directory is named for, by axis: throttle_<N>
\* (0: throttle_none) and smlimit_<P> (0: no limit).
CfgOf(s) ==
    IF s.sm # 0 THEN [thr |-> 0, sm |-> s.sm]
    ELSE IF s.policy = "throttle" THEN [thr |-> IF s.throttle = 0 THEN 2 ELSE s.throttle, sm |-> 0]
    ELSE [thr |-> 0, sm |-> 0]

\* What run_demo makes of the arguments it is passed: its own default cap.
CapOf(s) == IF s.policy # "throttle" THEN 0 ELSE IF s.throttle = 0 THEN 2 ELSE s.throttle

Flat == [thr |-> -1, sm |-> -1]   \* directly under runs/
Dir(cfg, name) == [cfg |-> cfg, name |-> name]

\* The process of a pair, under a sweep's setting.
Process(s, p) == [dir |-> Dir(CfgOf(s), p), mode |-> "colocated", clients |-> p, setting |-> s]

VARIABLES
    files,    \* per run directory, the files of its mode
    exec,     \* processes begun so far
    solo,     \* <out>/solo/seq/results.json exists
    sweep,    \* the script: where it is, its setting, pairs left, pairs failed
    faults,
    lost      \* processes whose dump gave up
sweepVars == <<files, exec, solo, sweep, faults, lost>>

\* A file: the process that wrote it (0: absent), and whether it has finished.
Absent == [run |-> 0, whole |-> FALSE]
Empty == [log |-> Absent, kernels |-> Absent, calib |-> Absent,
          results |-> Absent, trace |-> Absent]
Whole(n) == [run |-> n, whole |-> TRUE]
Partial(n) == [run |-> n, whole |-> FALSE]

Now == Len(exec)
Here == exec[Now].dir

\* A process is killed, a file cannot be opened, an analysis fails.
Fault == faults < MaxFaults /\ faults' = faults + 1

(***************************************************************************)
(* The script                                                              *)
(***************************************************************************)
Start(s, skip_solo) ==
    /\ sweep.pc \in {"idle", "done"} /\ sweep.n < MaxSweeps
    /\ sweep' = [pc |-> IF skip_solo /\ solo THEN "pairs" ELSE "solo", n |-> sweep.n + 1,
                 setting |-> s, left |-> Pairs, failed |-> {}, since |-> Now]
    /\ UNCHANGED <<files, exec, solo, faults, lost>>

\* The solo pass leaves its results, or ends the script.
SoloPass ==
    /\ sweep.pc = "solo"
    /\ \/ solo' = TRUE /\ sweep' = [sweep EXCEPT !.pc = "pairs"] /\ UNCHANGED faults
       \/ /\ Fault
          /\ sweep' = [sweep EXCEPT !.pc = "idle"] /\ UNCHANGED solo
    /\ UNCHANGED <<files, exec, lost>>

NextPair == CHOOSE p \in sweep.left : \A q \in sweep.left :
    p[1] < q[1] \/ (p[1] = q[1] /\ p[2] <= q[2])

\* A fresh process, in its directory.
RunPair ==
    /\ sweep.pc = "pairs" /\ sweep.left # {}
    /\ exec' = Append(exec, Process(sweep.setting, NextPair))
    /\ LET d == Dir(CfgOf(sweep.setting), NextPair)
       IN  files' = IF d \in DOMAIN files THEN files
                    ELSE [e \in DOMAIN files \cup {d} |-> IF e = d THEN Empty ELSE files[e]]
    /\ sweep' = [sweep EXCEPT !.pc = "running"]
    /\ UNCHANGED <<solo, faults, lost>>

\* Mutant: the exit code is not looked at.
ReturnedUnseen(ok) ==
    sweep' = [sweep EXCEPT !.pc = "pairs", !.left = @ \ {NextPair}]

\* run(): the process has ended; a failed pair is noted, the others go on.
Returned(ok) ==
    sweep' = [sweep EXCEPT !.pc = "pairs", !.left = @ \ {NextPair},
                           !.failed = IF ok THEN @ ELSE @ \cup {NextPair}]

EndSweep ==
    /\ sweep.pc = "pairs" /\ sweep.left = {}
    /\ sweep' = [sweep EXCEPT !.pc = "done"]
    /\ UNCHANGED <<files, exec, solo, faults, lost>>

(***************************************************************************)
(* run_demo, --mode colocated --observer on                                *)
(***************************************************************************)
Write(file, content, from, to) ==
    /\ sweep.pc = from
    /\ files' = [files EXCEPT ![Here][file] = content]
    /\ sweep' = [sweep EXCEPT !.pc = to]
    /\ UNCHANGED <<exec, solo, faults, lost>>

\* The run itself, then dump_issue_log.
WriteLog == Write("log", Whole(Now), "running", "logged")

\* obs_dump: obs_kernels.csv is truncated and filled, obs_memcpys.csv and
\* obs_runtime.csv after it, and obs_calib.csv, a few lines, at last.  The last
\* one is of a process only when all four are.
OpenKernels == Write("kernels", Partial(Now), "logged", "dumping")

CloseKernels == Write("kernels", Whole(Now), "dumping", "closed")

WriteCalib == Write("calib", Whole(Now), "closed", "dumped")

\* A file cannot be opened: -1, the files from there on are left as they
\* are, and run_demo goes on.
DumpFails ==
    /\ sweep.pc \in {"logged", "closed"}
    /\ Fault
    /\ lost' = lost \cup {Now}
    /\ sweep' = [sweep EXCEPT !.pc = "dumped"]
    /\ UNCHANGED <<files, exec, solo>>

\* results.json is the last file of a mode.
OpenResults == Write("results", Partial(Now), "dumped", "writing")

CloseResults == Write("results", Whole(Now), "writing", "written")

Exit ==
    /\ sweep.pc = "written"
    /\ Returned(TRUE)
    /\ UNCHANGED <<files, exec, solo, faults, lost>>

\* It dies where it stands, perhaps with its files complete.
Crash ==
    /\ sweep.pc \in {"running", "logged", "dumping", "closed", "dumped", "writing", "written"}
    /\ Fault
    /\ Returned(FALSE)
    /\ UNCHANGED <<files, exec, solo, lost>>

\* What a run made by hand has left: of a seq run, no log.
LeftByHand(n) == [log |-> IF ByHand[n].mode = "seq" THEN Absent ELSE Whole(n),
                  kernels |-> Whole(n), calib |-> Whole(n), results |-> Whole(n),
                  trace |-> Absent]

InitSweep ==
    /\ exec = ByHand
    /\ files = [d \in {ByHand[n].dir : n \in DOMAIN ByHand} |->
                  LeftByHand(CHOOSE n \in DOMAIN ByHand : ByHand[n].dir = d)]
    /\ solo \in BOOLEAN /\ faults = 0 /\ lost = {}
    /\ sweep = [pc |-> "idle", n |-> 0, setting |-> CHOOSE s \in Settings : TRUE,
                left |-> {}, failed |-> {}, since |-> 0]

SweepNext ==
    \/ \E s \in Settings, skip_solo \in BOOLEAN : Start(s, skip_solo)
    \/ SoloPass \/ RunPair \/ EndSweep
    \/ WriteLog \/ OpenKernels \/ CloseKernels \/ WriteCalib \/ DumpFails
    \/ OpenResults \/ CloseResults \/ Exit \/ Crash
=============================================================================
