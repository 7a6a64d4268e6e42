------------------------------ MODULE MC_Shell ------------------------------
EXTENDS Shell
=============================================================================
