------------------------------- MODULE MCSweep -------------------------------
(* S3's grid of two moving averages, the forms on it and off it, the two   *)
(* corners of it that a replay may find best, or neither.                  *)
EXTENDS Sweep

MCOrder    == <<"fast", "slow">>
MCGrid     == [k \in {"fast", "slow"} |-> IF k = "fast" THEN <<5, 10, 20>> ELSE <<20, 30, 50>>]
MCFitting  == {p \in [{"fast", "slow"} -> 1..60] : p["fast"] < p["slow"]}
P(f, s)    == [k \in {"fast", "slow"} |-> IF k = "fast" THEN f ELSE s]
MCConfig   == P(10, 30)
MCForms    == {P(5, 50), P(20, 26), P(18, 24), P(15, 16), P(24, 25)}
MCVerdicts == {P(20, 50), P(5, 20), NoRow}
==============================================================================
