---------------------------- MODULE MCPriceLevel ----------------------------
EXTENDS PriceLevel
=============================================================================
