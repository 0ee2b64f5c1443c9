------------------------------- MODULE MCLab -------------------------------
EXTENDS Lab

MCCandidates == <<"L1_orb", "L2_pullback">>
=============================================================================
