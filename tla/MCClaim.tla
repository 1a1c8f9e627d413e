------------------------------ MODULE MCClaim ------------------------------
EXTENDS Claim

CONSTANTS root1, run1
=============================================================================
