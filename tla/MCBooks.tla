------------------------------- MODULE MCBooks -------------------------------
(* One symbol both overlapping sleeves trade: S0 and S1 on QQQ.            *)
EXTENDS Books

MCRunners  == <<"S0", "S1">>
MCIntraday == {"S0", "S1"}
MCSymbols  == {"QQQ"}
MCUniverse == [sl \in {"S0", "S1"} |-> {"QQQ"}]
==============================================================================
