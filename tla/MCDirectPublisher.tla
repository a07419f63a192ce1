------------------------- MODULE MCDirectPublisher -------------------------
EXTENDS DirectPublisher, TLC

(* Messages are interchangeable: sound for the safety runs only. *)
Symmetry == Permutations(Messages)
=============================================================================
