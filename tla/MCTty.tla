------------------------------- MODULE MCTty -------------------------------
EXTENDS Tty
=============================================================================
