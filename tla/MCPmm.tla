------------------------------- MODULE MCPmm -------------------------------
EXTENDS Pmm
=============================================================================
