-------------------------- MODULE MCStorageExtension --------------------------
(***************************************************************************)
(* StorageExtension for TLC: the callers are interchangeable, as no        *)
(* definition and no property tells one from another.                      *)
(***************************************************************************)
EXTENDS StorageExtension, TLC

CallerSymmetry == Permutations(Callers)

=============================================================================
