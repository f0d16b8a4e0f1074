------------------------------- MODULE Mutex -------------------------------
(***************************************************************************)
(* What the callers of withFileLock (src/src/util.ts) build on: a critical  *)
(* section that at most one process is in, and an answer that says whether  *)
(* the section ran, was refused because another process held the lock, or   *)
(* could not be locked at all.  A process that dies leaves the section.     *)
(***************************************************************************)
CONSTANTS Procs, Null

VARIABLES
  section,  \* the process that runs its critical section, or Null
  answer    \* answer[p]: what p's call returned; "none" while it is under way

vars == <<section, answer>>

Init ==
  /\ section = Null
  /\ answer = [p \in Procs |-> "none"]

Call(p) ==
  /\ section # p
  /\ answer' = [answer EXCEPT ![p] = "none"]
  /\ UNCHANGED section

Enter(p) ==
  /\ section = Null /\ answer[p] = "none"
  /\ section' = p
  /\ UNCHANGED answer

Leave(p) ==
  /\ section = p
  /\ section' = Null
  /\ answer' = [answer EXCEPT ![p] = "ran"]

\* The section is not entered: the lock was held, or could not be created.
Refuse(p) ==
  /\ section # p /\ answer[p] = "none"
  /\ \E why \in {"contended", "unlockable"} :
       answer' = [answer EXCEPT ![p] = why]
  /\ UNCHANGED section

Die(p) ==
  /\ section = p
  /\ section' = Null
  /\ UNCHANGED answer

Next == \E p \in Procs : Call(p) \/ Enter(p) \/ Leave(p) \/ Refuse(p) \/ Die(p)

Spec == Init /\ [][Next]_vars

=============================================================================
