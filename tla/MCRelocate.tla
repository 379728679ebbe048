----------------------------- MODULE MCRelocate -----------------------------
(* An image of two data words and a GOT of four entries, three entries of  *)
(* .rel.dyn beside the reserved one, for any words; a word is null or not. *)
EXTENDS Relocate

MCWord == {0, 3}
=============================================================================
