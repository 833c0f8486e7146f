-------------------------- MODULE MCBridgeLifecycle --------------------------
(***************************************************************************)
(* Instances of BridgeLifecycle for TLC.                                   *)
(***************************************************************************)
EXTENDS BridgeLifecycle

\* Every call that may fail.
AllFaults ==
  {"control", "device", "create", "enable", "disable", "thread",
   "interrupted", "autoDetach", "uninitialize"}

\* What it takes to detach without unloading.
ResidentFaults == {"disable"}

=============================================================================
