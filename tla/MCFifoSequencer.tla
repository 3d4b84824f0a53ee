-------------------------- MODULE MCFifoSequencer ---------------------------
EXTENDS FifoSequencer
=============================================================================
