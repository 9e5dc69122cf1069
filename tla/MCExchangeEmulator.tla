------------------------- MODULE MCExchangeEmulator --------------------------
(***************************************************************************)
(* An instance of ExchangeEmulator for TLC.                                *)
(***************************************************************************)
EXTENDS ExchangeEmulator

MCBytes == [b \in {16, 32, 48, 64} |-> b \div 16]

MCClientOrder ==
    {[token |-> <<"a">>, side |-> "B", shares |-> 1, stock |-> <<"a">>, price |-> 2,
      time_in_force |-> 2, min_qty |-> 0]}
==============================================================================
