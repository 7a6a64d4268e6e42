----------------------------- MODULE MC_RamPage -----------------------------
EXTENDS RamPage
=============================================================================
