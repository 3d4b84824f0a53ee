---------------------------- MODULE MCOrderBook -----------------------------
EXTENDS OrderBookProperties
=============================================================================
