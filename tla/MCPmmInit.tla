----------------------------- MODULE MCPmmInit -----------------------------
EXTENDS PmmInit
=============================================================================
