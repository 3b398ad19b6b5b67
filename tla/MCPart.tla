------------------------------ MODULE MCPart ------------------------------
EXTENDS Part, TLC

\* A drive whose last block is cut short, with a table, partitions of two
\* sectors and of one, and an empty entry between them; and another drive.
CONSTANTS d1, d2
MCSectors == d1 :> 5 @@ d2 :> 2
MCFirst == 0 :> 1 @@ 1 :> 1 @@ 2 :> 3
MCCount == 0 :> 2 @@ 1 :> 0 @@ 2 :> 1
=============================================================================
