----------------------------- MODULE MCNightly -----------------------------
EXTENDS Nightly

MCCandidates == <<"L1_orb">>
\* One step of each kind: no durable check, a row that is there or not, a row
\* that may say error, a process.  backup and evening are like p100.
MCSteps == <<"history", "p100", "recon", "lab">>
=============================================================================
