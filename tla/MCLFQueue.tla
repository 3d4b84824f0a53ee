----------------------------- MODULE MCLFQueue ------------------------------
EXTENDS LFQueue
=============================================================================
