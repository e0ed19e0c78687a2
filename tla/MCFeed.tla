-------------------------------- MODULE MCFeed --------------------------------
(***************************************************************************)
(* Feed for TLC: the writers are interchangeable, as no definition and no  *)
(* property tells one from another.                                        *)
(***************************************************************************)
EXTENDS Feed, TLC

WriterSymmetry == Permutations(Writers)

=============================================================================
