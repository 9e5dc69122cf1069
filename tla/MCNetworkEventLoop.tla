------------------------- MODULE MCNetworkEventLoop --------------------------
(***************************************************************************)
(* Instances of NetworkEventLoop for TLC.                                  *)
(***************************************************************************)
EXTENDS NetworkEventLoop
==============================================================================
