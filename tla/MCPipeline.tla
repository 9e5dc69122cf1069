----------------------------- MODULE MCPipeline ------------------------------
(***************************************************************************)
(* Instances of Pipeline for TLC; integers on the wire have one or two     *)
(* bytes.                                                                  *)
(***************************************************************************)
EXTENDS Pipeline

MCBytes == [b \in {16, 32, 48, 64} |-> IF b \in {16, 48} THEN 1 ELSE 2]
==============================================================================
