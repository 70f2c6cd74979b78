---------------------------- MODULE MCValsetRelay ----------------------------
EXTENDS ValsetRelay

CONSTANTS r1, r2

MCRelayers == {r1, r2}
=============================================================================
