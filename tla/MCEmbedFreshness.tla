--------------------------- MODULE MCEmbedFreshness ---------------------------
(* EmbedFreshness on small sets of model values.                             *)
EXTENDS EmbedFreshness

=============================================================================
