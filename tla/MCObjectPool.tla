---------------------------- MODULE MCObjectPool ----------------------------
EXTENDS ObjectPool
=============================================================================
