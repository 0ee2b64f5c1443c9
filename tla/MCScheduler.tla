---------------------------- MODULE MCScheduler ----------------------------
(* A day of S0 (a cycle a minute), S1 (two decision marks, intraday), S3 (a *)
(* mark in the session and one at flatten_at, carries) and the brief; and a *)
(* shorter day of S0, S1 and the brief, with one mark and a single minute, *)
(* for the run with faults and the liveness properties.                    *)
EXTENDS Scheduler
MCRunners      == <<"S0", "S1", "S3", "brief">>
MCMarks        == [sl \in {"S1", "S3"} |-> IF sl = "S1" THEN {16, 22} ELSE {19, 24}]
MCShortRunners == <<"S0", "S1", "brief">>
MCOneMark      == [sl \in {"S1"} |-> {4}]
=============================================================================
