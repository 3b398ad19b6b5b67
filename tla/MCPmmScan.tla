----------------------------- MODULE MCPmmScan -----------------------------
EXTENDS PmmScan
=============================================================================
