-------------------------------- MODULE MCEMS --------------------------------
(***************************************************************************)
(* Instances of EMS for TLC.                                               *)
(***************************************************************************)
EXTENDS EMS
==============================================================================
