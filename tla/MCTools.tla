------------------------------- MODULE MCTools -------------------------------
(***************************************************************************)
(* Tools for TLC: shells and contents are interchangeable; two buckets of  *)
(* two slots, a file that fills one and a file that does not fit twice.    *)
(***************************************************************************)
EXTENDS Tools, TLC

TwoBuckets == {<<1, 1>>, <<1, 2>>}
ToolsSymmetry == Permutations(Shells) \cup Permutations(Contents)

=============================================================================
