----------------------------- MODULE MCRegistry -----------------------------
(***************************************************************************)
(* Two clients, whose slots run against the order of their ids, and        *)
(* another thread; a statistics table too small for all of them.           *)
(***************************************************************************)
EXTENDS Registry

TwoClients == [t \in Threads |-> IF t <= 2 THEN 2 - t ELSE -1]
=============================================================================
