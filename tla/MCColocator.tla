---------------------------- MODULE MCColocator ----------------------------
(***************************************************************************)
(* Constants for checking Colocator with TLC.                              *)
(***************************************************************************)
EXTENDS Colocator

LaunchOnly == {"KernelLaunch"}

\* What a throttle holds, what waits for the GPU and what it never holds.
LaunchSyncMalloc == {"KernelLaunch", "StreamSync", "Malloc"}
============================================================================
