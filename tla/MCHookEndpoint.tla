--------------------------- MODULE MCHookEndpoint ---------------------------
(* HookEndpoint on a small set of server processes.                           *)
EXTENDS HookEndpoint, TLC

\* Processes are only ever compared.
Symmetry == Permutations(Procs)

=============================================================================
