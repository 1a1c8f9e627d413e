------------------------------ MODULE MCRound ------------------------------
EXTENDS Round

CONSTANTS round1, round2
=============================================================================
