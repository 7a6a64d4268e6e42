----------------------------- MODULE MC_Storage -----------------------------
EXTENDS Storage
=============================================================================
