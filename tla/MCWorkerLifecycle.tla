------------------------- MODULE MCWorkerLifecycle -------------------------
(* WorkerLifecycle on small sets of model values.                            *)
EXTENDS WorkerLifecycle, TLC

\* Launchers and pids are only ever compared (for runs that check no liveness).
Symmetry == Permutations(Launchers) \cup Permutations(Pids)

=============================================================================
