--------------------------- MODULE MCDirtyQueue ---------------------------
(* DirtyQueue on small sets of model values.                                 *)
EXTENDS DirtyQueue, TLC

\* Hooks are only ever compared (for the runs that check no liveness).
Symmetry == Permutations(Hooks) \cup Permutations(Files)

\* The contents of an inode nobody links or holds open are never read again.
View ==
  <<disk, indexed, retries, dir, hook, drain, faults,
    [i \in Inodes |-> IF Free(i) THEN NoLines ELSE lines[i]]>>

=============================================================================
