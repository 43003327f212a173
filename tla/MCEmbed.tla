-------------------------------- MODULE MCEmbed --------------------------------
(* TLC instances of EmbedPipeline; the .cfg files choose sessions and bounds. *)
EXTENDS EmbedPipeline, TLC

Symmetry == Permutations(Concepts) \cup Permutations(Contents)
===============================================================================
