---------------------------- MODULE MCFileLock ----------------------------
(* FileLock on small sets of model values.                                   *)
EXTENDS FileLock, TLC

\* Processes are only ever compared (for the runs that check no liveness).
Symmetry == Permutations(Procs)

=============================================================================
