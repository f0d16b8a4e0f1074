------------------------------- MODULE HookRun -------------------------------
(***************************************************************************)
(* What a harness is promised of the hooks it calls (src/src/hook_client.ts *)
(* and hook_server.ts): a hook is run by one process or by none, its answer *)
(* is of that run, a call that fails open was not run unless it is excused, *)
(* and a call that decided to run its hook itself is the one that runs it.  *)
(* A call is excused when the process that ran its hook died, or when its   *)
(* harness or its timer gave it up.                                         *)
(***************************************************************************)
CONSTANTS Calls, Null

VARIABLES
  outcome,  \* outcome[c]: "open", "own" when c is to run its hook itself, then how it ended
  by,       \* by[c]: who ran the hook of c, "server" or "caller", or Null
  excused

vars == <<outcome, by, excused>>

Init ==
  /\ outcome = [c \in Calls |-> "open"]
  /\ by = [c \in Calls |-> Null]
  /\ excused = {}

Ends(c, how) == outcome' = [outcome EXCEPT ![c] = how]

\* A server runs the hook, of a call that it may have to answer or that gave up on it.
ServerRuns(c) ==
  /\ outcome[c] \in {"open", "lost", "killed"}
  /\ outcome[c] = "open" \/ c \in excused
  /\ by[c] = Null /\ by' = [by EXCEPT ![c] = "server"]
  /\ UNCHANGED <<outcome, excused>>

Decide(c) ==
  /\ outcome[c] = "open" /\ by[c] = Null
  /\ Ends(c, "own") /\ UNCHANGED <<by, excused>>

CallerRuns(c) ==
  /\ outcome[c] = "own" /\ by[c] = Null
  /\ Ends(c, "ran") /\ by' = [by EXCEPT ![c] = "caller"]
  /\ UNCHANGED excused

Serve(c) ==
  /\ outcome[c] = "open" /\ by[c] = "server"
  /\ Ends(c, "served") /\ UNCHANGED <<by, excused>>

FailOpen(c) ==
  /\ outcome[c] = "open" /\ Ends(c, "lost")
  /\ \/ by[c] = Null /\ excused' = excused
     \/ excused' = excused \cup {c}
  /\ UNCHANGED by

Kill(c) ==
  /\ outcome[c] \in {"open", "own"} /\ Ends(c, "killed")
  /\ excused' = excused \cup {c}
  /\ UNCHANGED by

\* A server dies with the answers of S, which it had run.
LoseAnswers(S) ==
  /\ \A c \in S : by[c] = "server"
  /\ excused' = excused \cup S
  /\ UNCHANGED <<outcome, by>>

Next ==
  \/ \E c \in Calls :
       \/ ServerRuns(c) \/ Decide(c) \/ CallerRuns(c) \/ Serve(c) \/ FailOpen(c) \/ Kill(c)
  \/ \E S \in SUBSET Calls : LoseAnswers(S)

Spec == Init /\ [][Next]_vars

=============================================================================
