------------------------------ MODULE MC_Sound ------------------------------
EXTENDS Sound
=============================================================================
