---------------------------- MODULE MCSupervisor ----------------------------
(***************************************************************************)
(* Supervisor with Core and one satellite.                                  *)
(***************************************************************************)
EXTENDS Supervisor

CONSTANTS core, options

CoreFirst == <<core, options>>
==============================================================================
