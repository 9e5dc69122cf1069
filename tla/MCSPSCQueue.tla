----------------------------- MODULE MCSPSCQueue -----------------------------
(* SPSCQueue with a ring of Capacity slots and enough distinct items to tell *)
(* a lost, repeated or reordered one apart.                                  *)
EXTENDS SPSCQueue
==============================================================================
