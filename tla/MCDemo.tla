------------------------------- MODULE MCDemo -------------------------------
(***************************************************************************)
(* Plans and failures for TLC.                                             *)
(***************************************************************************)
EXTENDS Demo

\* run_demo --mode all, every mode of which begins as if it were alone; two
\* plain launches of one process.
AllPlans == {<<"seq", "streams", "demo">>, <<"plain", "plain">>}

JustDemo == {<<"demo">>}

\* Anything may raise anywhere, but the bodies of a colocated run only behind
\* their barrier.
DemoBehindBarrier ==
    [p \in {"plain", "demo", "seq", "streams"} |->
       IF p = "demo" THEN {"timed"} ELSE {"setup", "timed"}]

DemoInSetup == [p \in {"demo"} |-> {"setup"}]
=============================================================================
