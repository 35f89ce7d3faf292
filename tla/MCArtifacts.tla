---------------------------- MODULE MCArtifacts -----------------------------
(***************************************************************************)
(* Sweeps and runs made by hand for TLC.                                   *)
(***************************************************************************)
EXTENDS Artifacts

Sweeps == {[policy |-> "fcfs", throttle |-> 0, sm |-> 0],
           [policy |-> "throttle", throttle |-> 0, sm |-> 0],
           [policy |-> "fcfs", throttle |-> 0, sm |-> 25]}

\* What is there already: a legacy run of a pair in a directory of its own
\* name, seq runs with the observer, of one client and of two, a run of three
\* under both limits, where a page's hint says to put it, and one of an earlier
\* sweep, which may be run again.
HandRuns ==
    LET fcfs == [policy |-> "fcfs", throttle |-> 0, sm |-> 0]
        throttle(n, sm) == [policy |-> "throttle", throttle |-> n, sm |-> sm]
        run(dir, mode, clients, setting) ==
          [dir |-> dir, mode |-> mode, clients |-> clients, setting |-> setting]
    IN  << run(Dir(Flat, <<0>>), "colocated", <<2, 1>>, fcfs),
           run(Dir(Flat, <<1>>), "seq", <<1>>, fcfs),
           run(Dir(Flat, <<3>>), "seq", <<1, 2>>, fcfs),
           run(Dir([thr |-> 4, sm |-> 25], <<1, 2, 2>>), "colocated", <<1, 2, 2>>, throttle(4, 25)),
           run(Dir([thr |-> 2, sm |-> 0], <<1, 2>>), "colocated", <<1, 2>>, throttle(2, 0)) >>

ASSUME NamesAssumption == WellNamed
=============================================================================
