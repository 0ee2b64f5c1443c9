------------------------------- MODULE MCRisk -------------------------------
(* S0, a sleeve sized by its stop, and S2, on an account that the loss of  *)
(* 5% halts between 100 and 90, with two positions a side.                 *)
EXTENDS Risk

MCEquity   == {"S0", "S1"}
MCCrypto   == {"S2"}
MCEquities == {90, 100}
MCOffers   == {[price |-> 20, stop |-> d] : d \in 0..2}
=============================================================================
