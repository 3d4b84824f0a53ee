----------------------------- MODULE MCExchange -----------------------------
EXTENDS ExchangeProperties
=============================================================================
