------------------------------ MODULE MCMantaray ------------------------------
(***************************************************************************)
(* Mantaray for TLC: paths that branch after every number of bytes, extend *)
(* each other, and reach over the end of a piece of two bytes.             *)
(***************************************************************************)
EXTENDS Mantaray

CONSTANTS x, y

MCPaths == {<<x>>, <<y>>, <<x, x>>, <<x, y>>, <<x, y, x>>, <<x, y, y>>, <<x, y, x, y>>}

=============================================================================
