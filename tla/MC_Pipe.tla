------------------------------- MODULE MC_Pipe -------------------------------
EXTENDS Pipe
=============================================================================
