---------------------------- MODULE MCSessionStore ----------------------------
(* SessionStore on small sets of model values.                               *)
EXTENDS SessionStore, TLC

\* Hooks are only ever compared.
Symmetry == Permutations(Hooks)

=============================================================================
