------------------------------ MODULE MCDevIO ------------------------------
EXTENDS DevIO

\* On the terminal that is not read one key is pressed.
MCRoom == [t \in Ttys |-> IF t \in Readers THEN KB_L2_SIZE ELSE 1]
=============================================================================
