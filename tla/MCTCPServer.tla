---------------------------- MODULE MCTCPServer -----------------------------
EXTENDS TCPServer
=============================================================================
