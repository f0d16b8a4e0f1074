--------------------------- MODULE MCIndexFreshness ---------------------------
(* IndexFreshness on small sets of model values.  Init takes one content for *)
(* all files, so contents are not exchanged by a symmetry.                   *)
EXTENDS IndexFreshness, TLC

=============================================================================
