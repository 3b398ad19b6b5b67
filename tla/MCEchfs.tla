------------------------------ MODULE MCEchfs ------------------------------
EXTENDS Echfs

\* A file in the root and one in a directory; directories below each other.
MCFilePaths == {<<"a">>, <<"d", "a">>}
MCDirPaths == {<<"d">>, <<"d", "e">>, <<"d", "e", "f">>}
=============================================================================
