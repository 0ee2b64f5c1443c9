------------------------------ MODULE MCAlerts ------------------------------
EXTENDS Alerts

\* S0 runs every minute, S1 on every third.
MCMarks == [s \in Sleeves |-> IF s = "S0" THEN 1..4 ELSE {2, 5}]
=============================================================================
