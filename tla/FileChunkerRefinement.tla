------------------------- MODULE FileChunkerRefinement -------------------------
(***************************************************************************)
(* FileChunker implements FileHash: whatever the sizes of the Write calls, *)
(* the chunks it emits and the root it returns are those of the canonical  *)
(* tree of the input.                                                      *)
(***************************************************************************)
EXTENDS FileChunker

phaseBar ==
  IF faults > 0 \/ reopened THEN "void"
  ELSE IF root # NoRef THEN "sealed"
  ELSE IF call = "finalize" THEN "sealing"
  ELSE "open"

Shape(a) == [height |-> store[a].height, lo |-> store[a].lo, span |-> store[a].span]

void == phaseBar = "void"

Hash == INSTANCE FileHash WITH
  bytes  <- IF void THEN 0 ELSE written,
  chunks <- IF void THEN {} ELSE {Shape(a) : a \in 1..Len(store)},
  root   <- IF void \/ root = NoRef THEN [height |-> 0, lo |-> 0, span |-> 0]
            ELSE Shape(root.addr),
  phase  <- phaseBar

(* Chunks and root depend on the bytes written alone: the tree the chunker *)
(* builds is the canonical one, emitted children first and without extras. *)
ImplementsFileHash == Hash!Spec

=============================================================================
