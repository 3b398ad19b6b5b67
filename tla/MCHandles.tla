----------------------------- MODULE MCHandles -----------------------------
EXTENDS Handles
=============================================================================
