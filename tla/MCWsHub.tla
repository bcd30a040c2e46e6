------------------------------ MODULE MCWsHub ------------------------------
EXTENDS WsHub
=============================================================================
