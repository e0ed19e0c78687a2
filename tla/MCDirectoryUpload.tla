--------------------------- MODULE MCDirectoryUpload ---------------------------
(***************************************************************************)
(* DirectoryUpload for TLC: three paths, one a prefix of another, and      *)
(* files of none, one and two blocks.                                      *)
(***************************************************************************)
EXTENDS DirectoryUpload

CONSTANTS x, y, whole, first, second

MCOrder == <<<<x>>, <<x, y>>, <<y>>>>
MCPaths == {MCOrder[i] : i \in 1..3}
MCContents == {<<>>, <<whole>>, <<first, second>>}

=============================================================================
