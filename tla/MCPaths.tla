------------------------------ MODULE MCPaths ------------------------------
EXTENDS Paths

CONSTANT MaxInput       \* bound: characters of a path

MCInputs == UNION {[1 .. n -> Characters] : n \in 0 .. MaxInput}
MCDirs == {<<"/">>, <<"/", "a">>, <<"/", "a", "/", "a">>}
MCPwds == MCDirs \cup {<<>>, <<"a">>, <<"/", "a", "/">>}
MCMountNames == {<<"/">>, <<"/", "a">>, <<"/", "a", "/", "a">>}
=============================================================================
