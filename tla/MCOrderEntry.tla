---------------------------- MODULE MCOrderEntry -----------------------------
(***************************************************************************)
(* An instance of OrderEntry for TLC; integers on the wire have one or two *)
(* bytes.                                                                  *)
(***************************************************************************)
EXTENDS OrderEntry

MCBytes == [b \in {16, 32, 48, 64} |-> IF b = 16 THEN 1 ELSE 2]
==============================================================================
