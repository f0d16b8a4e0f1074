------------------------ MODULE WorkerLifecycleProofs ------------------------
(***************************************************************************)
(* Proofs about WorkerLifecycle, for any number of launchers, processes and *)
(* faults: type correctness, and that no stranger is ended.                 *)
(***************************************************************************)
EXTENDS WorkerLifecycle, TLAPS

\* The steps between the spawn and the end of the claim.
Claiming == {"create", "fill", "unnote", "lock", "stamp", "discard"} \cup Section

\* A launcher that claims, or gives up, does so for a daemon it has spawned.
ClaimsForChild == \A l \in Launchers : hook[l].pc \in Claiming => hook[l].child # Null

\* Neither the child a launcher holds nor the process it is about to end is a
\* stranger.
VictimsKnown ==
  \A l \in Launchers :
    /\ hook[l].child # Null => proc[hook[l].child].st # "other"
    /\ At(l, "kill") => hook[l].saw # Null /\ proc[hook[l].saw].st # "other"

\* What Typed says of the launchers' records.
CallsOK == hook \in [Launchers -> Call] /\ ClaimsForChild

\* The inductive invariant of TypeOK: a launcher that writes the pid file must
\* have a pid to write.
Typed == TypeOK /\ ClaimsForChild

\* Every step a launcher can be sent to is one of its steps.
LEMMA StepNames ==
  /\ {"idle", "read", "judge", "again", "stopread", "stopjudge", "kill", "stopcheck",
      "stoprm", "spawn"} \subseteq Steps \ Claiming
  /\ {"create", "fill", "unnote", "lock", "stamp", "discard", "reread", "rejudge",
      "note", "rm", "recreate"} \subseteq Steps \cap Claiming
  BY DEF Steps, Section, Claiming

\* A call may be replaced by one that, if it claims, has a child.
LEMMA CallReplaced ==
  ASSUME Typed, NEW l \in Launchers, NEW r \in Call,
         r.pc \in Claiming => r.child # Null, hook' = [hook EXCEPT ![l] = r]
  PROVE  CallsOK'
<1>1. hook' \in [Launchers -> Call] /\ hook'[l] = r
  BY DEF Typed, TypeOK
<1>2. \A k \in Launchers \ {l} : hook'[k] = hook[k]
  BY DEF Typed, TypeOK
<1>3. \A k \in Launchers : hook'[k].pc \in Claiming => hook'[k].child # Null
  BY <1>1, <1>2 DEF Typed, ClaimsForChild
<1> QED
  BY <1>1, <1>3 DEF CallsOK, ClaimsForChild

\* What a launcher writes over its record is the record of a call; it goes on
\* claiming only if it was.
LEMMA CallStays ==
  ASSUME Typed, NEW l \in Launchers, NEW pc \in Steps, NEW p \in Pids \cup {Null}
  PROVE  /\ Ends(l) => CallsOK'
         /\ (pc \in Claiming => hook[l].pc \in Claiming)
            => (Goes(l, pc) => CallsOK') /\ (Saw(l, p, pc) => CallsOK')
<1>1. hook[l] \in Call /\ (hook[l].pc \in Claiming => hook[l].child # Null)
  BY DEF Typed, TypeOK, ClaimsForChild
<1>2. NoCall \in Call /\ NoCall.pc \notin Claiming
  BY StepNames DEF NoCall, Call
<1>3. Ends(l) => CallsOK'
  BY <1>2, CallReplaced DEF Ends
<1>4. ASSUME pc \in Claiming => hook[l].pc \in Claiming, Goes(l, pc) PROVE CallsOK'
  <2> DEFINE r == [hook[l] EXCEPT !.pc = pc]
  <2>1. r \in Call /\ r.pc = pc /\ r.child = hook[l].child
    BY <1>1 DEF Call
  <2>2. hook' = [hook EXCEPT ![l] = r]
    BY <1>4 DEF Goes
  <2> QED
    BY <1>1, <1>4, <2>1, <2>2, CallReplaced
<1>5. ASSUME pc \in Claiming => hook[l].pc \in Claiming, Saw(l, p, pc) PROVE CallsOK'
  <2> DEFINE r == [hook[l] EXCEPT !.saw = p, !.pc = pc]
  <2>1. r \in Call /\ r.pc = pc /\ r.child = hook[l].child
    BY <1>1 DEF Call
  <2>2. hook' = [hook EXCEPT ![l] = r]
    BY <1>5 DEF Saw
  <2> QED
    BY <1>1, <1>5, <2>1, <2>2, CallReplaced
<1> QED
  BY <1>3, <1>4, <1>5

\* So is the record it starts a call or a claim with.
LEMMA CallStarts ==
  ASSUME Typed, NEW l \in Launchers, Start(l) \/ Stop(l) \/ Spawn(l)
  PROVE  CallsOK'
<1>1. PICK r \in Call : /\ hook' = [hook EXCEPT ![l] = r]
                        /\ r.pc \in Claiming => r.child # Null
  <2>1. CASE Start(l)
    <3> DEFINE r == [hook[l] EXCEPT !.pc = "read", !.cmd = "start"]
    <3>1. r \in Call /\ r.pc \notin Claiming
      BY StepNames DEF Typed, TypeOK, Call
    <3> QED
      BY <2>1, <3>1 DEF Start
  <2>2. CASE Stop(l)
    <3> DEFINE r == [hook[l] EXCEPT !.pc = "stopread", !.cmd = "stop"]
    <3>1. r \in Call /\ r.pc \notin Claiming
      BY StepNames DEF Typed, TypeOK, Call
    <3> QED
      BY <2>2, <3>1 DEF Stop
  <2>3. CASE Spawn(l)
    <3>1. PICK p \in Pids :
            hook' = [hook EXCEPT ![l] = [NoCall EXCEPT !.pc = "create", !.child = p]]
      BY <2>3 DEF Spawn
    <3> DEFINE r == [NoCall EXCEPT !.pc = "create", !.child = p]
    <3>2. r \in Call /\ r.child # Null
      BY StepNames, ConstantsAssumption DEF NoCall, Call
    <3> QED
      BY <3>1, <3>2
  <2> QED
    BY <2>1, <2>2, <2>3
<1> QED
  BY <1>1, CallReplaced

\* What is read in worker.pid is a pid, or none.
LEMMA ReadIsAPid == ASSUME Typed PROVE Read \in Pids \cup {Null}
  BY DEF Typed, TypeOK, Read, PidFile

\* A mishap is counted within the bound.
LEMMA SpendIsTyped ==
  ASSUME Typed PROVE Spend => faults' \in 0..MaxFaults
  BY ConstantsAssumption DEF Typed, TypeOK, Spend

\* A pid file stays one when it is written, filled or grows old.
LEMMA PidFileStays ==
  /\ \A p \in Pids, w \in BOOLEAN : NewFile(p, w) \in PidFile
  /\ \A f \in PidFile : /\ [f EXCEPT !.written = TRUE] \in PidFile
                       /\ [f EXCEPT !.young = FALSE] \in PidFile
  BY DEF NewFile, PidFile

\* What becomes of a process in one step is a process, and a stranger only by
\* being one already.
LEMMA ProcessStays ==
  ASSUME NEW r \in Process, NEW b \in BOOLEAN
  PROVE  /\ Dead \in Process /\ Leaving \in Process
         /\ [Leaving EXCEPT !.idle = TRUE] \in Process
         /\ Signalled(r, b) \in Process
         /\ r.st # "other" => Signalled(r, b).st # "other"
         /\ \A st \in {"boot", "run", "other", "dead"} :
              [r EXCEPT !.st = st] \in Process /\ [Dead EXCEPT !.st = st] \in Process
         /\ \A st \in {"exit", "dead"} : [Dead EXCEPT !.st = st, !.idle = b] \in Process
         /\ [r EXCEPT !.idle = b] \in Process /\ [r EXCEPT !.late = b] \in Process
         /\ \A a \in {"no", "yes", "long"} :
              [r EXCEPT !.absent = a] \in Process /\ [r EXCEPT !.owned = b, !.absent = a] \in Process
  BY DEF Signalled, Process, Dead, Leaving

\* A kill leaves processes, whether or not the pid is anybody's.
LEMMA KilledIsTyped ==
  ASSUME Typed, NEW p, proc' \in Killed(p)
  PROVE  proc' \in [Pids -> Process]
<1>1. PICK w \in BOOLEAN : proc' = [proc EXCEPT ![p] = Signalled(proc[p], w)]
  BY DEF Killed
<1>2. p \in Pids => Signalled(proc[p], w) \in Process
  BY ProcessStays DEF Typed, TypeOK
<1> QED
  BY <1>1, <1>2 DEF Typed, TypeOK

\* So does writing one process.
LEMMA BecomesIsTyped ==
  ASSUME Typed, NEW d \in Pids, NEW r \in Process, Becomes(d, r)
  PROVE  proc' \in [Pids -> Process]
  BY DEF Typed, TypeOK, Becomes

-----------------------------------------------------------------------------
\* A launcher's step leaves every value in its type.
LEMMA LauncherType ==
  ASSUME Typed, NEW l \in Launchers,
         Ensure(l) \/ Start(l) \/ Stop(l) \/ LauncherStep(l) \/ LauncherDies(l)
  PROVE  Typed'
<1>0. hook[l] \in Call /\ hook[l].saw \in Pids \cup {Null} /\ hook[l].child \in Pids \cup {Null}
  BY DEF Typed, TypeOK, Call
<1>1. CASE Ensure(l)
  <2>1. CallsOK'
    BY <1>1, <1>0, CallStays, StepNames DEF Ensure, At, CallsOK, Typed, TypeOK, ClaimsForChild
  <2> QED
    BY <1>1, <1>0, <2>1 DEF Ensure, CallsOK, Typed, TypeOK
<1>2. CASE Start(l)
  <2>1. CallsOK'
    BY <1>2, CallStarts
  <2> QED
    BY <1>2, <1>0, <2>1, SpendIsTyped DEF Start, CallsOK, Typed, TypeOK
<1>3. CASE ReadPid(l)
  <2>1. CallsOK'
    BY <1>3, <1>0, CallStays, StepNames, ReadIsAPid DEF ReadPid, At
  <2> QED
    BY <1>3, <1>0, <2>1 DEF ReadPid, CallsOK, Typed, TypeOK
<1>4. CASE Judge(l)
  <2>1. CallsOK'
    BY <1>4, <1>0, CallStays, StepNames DEF Judge, At
  <2> QED
    BY <1>4, <1>0, <2>1 DEF Judge, CallsOK, Typed, TypeOK
<1>5. CASE LookAgain(l)
  <2>1. CallsOK'
    BY <1>5, <1>0, CallStays, StepNames DEF LookAgain, At
  <2> QED
    BY <1>5, <1>0, <2>1 DEF LookAgain, CallsOK, Typed, TypeOK
<1>6. CASE Stop(l)
  <2>1. CallsOK'
    BY <1>6, CallStarts
  <2> QED
    BY <1>6, <1>0, <2>1, SpendIsTyped DEF Stop, CallsOK, Typed, TypeOK
<1>7. CASE StopRead(l)
  <2>1. CallsOK'
    BY <1>7, <1>0, CallStays, StepNames, ReadIsAPid DEF StopRead, At, StopDone
  <2> QED
    BY <1>7, <1>0, <2>1 DEF StopRead, CallsOK, Typed, TypeOK
<1>8. CASE StopJudge(l)
  <2>1. CallsOK'
    BY <1>8, <1>0, CallStays, StepNames DEF StopJudge, At, StopDone
  <2> QED
    BY <1>8, <1>0, <2>1, SpendIsTyped DEF StopJudge, CallsOK, Typed, TypeOK
<1>9. CASE EndDaemon(l)
  <2>1. CallsOK'
    BY <1>9, <1>0, CallStays, StepNames DEF EndDaemon, At, StopDone
  <2> QED
    BY <1>9, <1>0, <2>1, KilledIsTyped, SpendIsTyped DEF EndDaemon, CallsOK, Typed, TypeOK
<1>10. CASE StopCheck(l)
  <2>1. CallsOK'
    BY <1>10, <1>0, CallStays, StepNames DEF StopCheck, At, StopDone
  <2> QED
    BY <1>10, <1>0, <2>1 DEF StopCheck, CallsOK, Typed, TypeOK
<1>11. CASE StopRemove(l)
  <2>1. CallsOK'
    BY <1>11, <1>0, CallStays, StepNames DEF StopRemove, At, StopDone
  <2> QED
    BY <1>11, <1>0, <2>1 DEF StopRemove, CallsOK, Typed, TypeOK
<1>12. CASE Spawn(l)
  <2>1. CallsOK'
    BY <1>12, CallStarts
  <2>2. proc' \in [Pids -> Process]
    BY <1>12, ProcessStays DEF Spawn, Typed, TypeOK
  <2> QED
    BY <1>12, <1>0, <2>1, <2>2 DEF Spawn, CallsOK, Typed, TypeOK
<1>13. CASE Create(l)
  <2>1. CallsOK'
    BY <1>13, <1>0, CallStays, StepNames DEF Create, At, Writes
  <2>2. hook[l].child \in Pids
    BY StepNames, <1>13, <1>0 DEF Create, At, Typed, ClaimsForChild
  <2>3. pidfile' \in PidFile \cup {Null}
    BY <1>13, <2>2, PidFileStays DEF Create, Writes, Typed, TypeOK
  <2> QED
    BY <1>13, <1>0, <2>1, <2>3 DEF Create, CallsOK, Typed, TypeOK
<1>14. CASE Fill(l)
  <2>1. CallsOK'
    BY <1>14, <1>0, CallStays, StepNames DEF Fill, At
  <2> QED
    BY <1>14, <1>0, <2>1, PidFileStays DEF Fill, CallsOK, Typed, TypeOK
<1>15. CASE RemoveNote(l)
  <2>1. CallsOK'
    BY <1>15, <1>0, CallStays, StepNames DEF RemoveNote, At
  <2> QED
    BY <1>15, <1>0, <2>1 DEF RemoveNote, CallsOK, Typed, TypeOK
<1>16. CASE TakeReclaim(l)
  <2>1. CallsOK'
    BY <1>16, <1>0, CallStays, StepNames DEF TakeReclaim, At
  <2> QED
    BY <1>16, <1>0, <2>1 DEF TakeReclaim, CallsOK, Typed, TypeOK
<1>17. CASE Reread(l)
  <2>1. CallsOK'
    BY <1>17, <1>0, CallStays, StepNames, ReadIsAPid DEF Reread, At
  <2> QED
    BY <1>17, <1>0, <2>1 DEF Reread, CallsOK, Typed, TypeOK
<1>18. CASE Rejudge(l)
  <2>1. CallsOK'
    BY <1>18, <1>0, CallStays, StepNames DEF Rejudge, At
  <2> QED
    BY <1>18, <1>0, <2>1 DEF Rejudge, CallsOK, Typed, TypeOK
<1>19. CASE WriteNote(l)
  <2>1. CallsOK'
    BY <1>19, <1>0, CallStays, StepNames DEF WriteNote, At
  <2> QED
    BY <1>19, <1>0, <2>1 DEF WriteNote, CallsOK, Typed, TypeOK, Note, Alive
<1>20. CASE Remove(l)
  <2>1. CallsOK'
    BY <1>20, <1>0, CallStays, StepNames DEF Remove, At
  <2> QED
    BY <1>20, <1>0, <2>1 DEF Remove, CallsOK, Typed, TypeOK
<1>21. CASE Recreate(l)
  <2>1. CallsOK'
    BY <1>21, <1>0, CallStays, StepNames DEF Recreate, At, Writes
  <2>2. hook[l].child \in Pids
    BY StepNames, <1>21, <1>0 DEF Recreate, At, Typed, ClaimsForChild
  <2>3. pidfile' \in PidFile \cup {Null}
    BY <1>21, <2>2, PidFileStays DEF Recreate, Writes, Typed, TypeOK
  <2> QED
    BY <1>21, <1>0, <2>1, <2>3 DEF Recreate, CallsOK, Typed, TypeOK
<1>22. CASE WriteStamp(l)
  <2>1. CallsOK'
    BY <1>22, <1>0, CallStays, StepNames DEF WriteStamp, At
  <2> QED
    BY <1>22, <1>0, <2>1 DEF WriteStamp, CallsOK, Typed, TypeOK
<1>23. CASE Discard(l)
  <2>1. CallsOK'
    BY <1>23, <1>0, CallStays, StepNames DEF Discard, At
  <2> QED
    BY <1>23, <1>0, <2>1, KilledIsTyped DEF Discard, CallsOK, Typed, TypeOK
<1>24. CASE LauncherDies(l)
  <2>1. CallsOK'
    BY <1>24, <1>0, CallStays, StepNames DEF LauncherDies, At
  <2> QED
    BY <1>24, <1>0, <2>1, SpendIsTyped DEF LauncherDies, CallsOK, Typed, TypeOK
<1> QED
  BY <1>1, <1>2, <1>3, <1>4, <1>5, <1>6, <1>7, <1>8, <1>9, <1>10, <1>11,
     <1>12, <1>13, <1>14, <1>15, <1>16, <1>17, <1>18, <1>19, <1>20, <1>21,
     <1>22, <1>23, <1>24 DEF LauncherStep

\* So does a step of a daemon, of the machine or of time.
LEMMA OtherType ==
  ASSUME Typed,
         \/ \E p \in Pids : \/ DaemonStep(p) \/ Crash(p) \/ GracePasses(p)
                            \/ Reuse(p) \/ StrangerEnds(p)
         \/ Upgrade \/ PidFileAges \/ HeartAges \/ NoteAges \/ MarkerAges
  PROVE  Typed'
<1> USE SpendIsTyped DEF Typed, ClaimsForChild
<1>1. ASSUME NEW d \in Pids, Boot(d) PROVE Typed'
  BY <1>1, ProcessStays, BecomesIsTyped DEF Boot, TypeOK, Becomes, StallIf, Heartbeat
<1>2. ASSUME NEW d \in Pids, Poll(d) PROVE Typed'
  <2>1. ASSUME NEW w \in BOOLEAN, proc' = Takes(d, w) PROVE proc' \in [Pids -> Process]
    <3>1. \A p \in Pids : /\ Signalled(proc[p], w) \in Process
                          /\ [proc[p] EXCEPT !.owned = TRUE, !.absent = "no"] \in Process
      BY ProcessStays DEF TypeOK
    <3> QED
      BY <2>1, <3>1 DEF Takes, TypeOK
  <2>2. ASSUME Becomes(d, Leaving) \/ \E a \in {"no", "yes"} : Becomes(d, [proc[d] EXCEPT !.absent = a])
        PROVE  proc' \in [Pids -> Process]
    BY <2>2, ProcessStays, BecomesIsTyped DEF TypeOK
  <2>3. proc' \in [Pids -> Process] /\ (note' = note \/ note' = Null)
    BY <1>2, <2>1, <2>2 DEF Poll, PollUnnamed
  <2> QED
    BY <1>2, <2>3 DEF Poll, TypeOK
<1>3. ASSUME NEW d \in Pids, Drain(d) PROVE Typed'
  BY <1>3, ProcessStays, BecomesIsTyped DEF Drain, TypeOK, Becomes, StallIf, Heartbeat, LongIdle
<1>4. ASSUME NEW d \in Pids, IdleExit(d) PROVE Typed'
  BY <1>4, ProcessStays, BecomesIsTyped DEF IdleExit, TypeOK, Becomes, StallIf
<1>5. ASSUME NEW d \in Pids, Exit(d) PROVE Typed'
  BY <1>5, ProcessStays, BecomesIsTyped DEF Exit, TypeOK, Becomes, StallIf
<1>6. ASSUME NEW d \in Pids, ExitRemove(d) PROVE Typed'
  BY <1>6, ProcessStays, BecomesIsTyped DEF ExitRemove, TypeOK, Becomes, StallIf
<1>7. ASSUME NEW d \in Pids, Crash(d) PROVE Typed'
  BY <1>7, ProcessStays, BecomesIsTyped DEF Crash, TypeOK, Becomes, StallIf
<1>8. ASSUME NEW d \in Pids, GracePasses(d) PROVE Typed'
  BY <1>8, ProcessStays, BecomesIsTyped DEF GracePasses, TypeOK, Becomes, StallIf
<1>9. ASSUME NEW d \in Pids, Reuse(d) PROVE Typed'
  BY <1>9, ProcessStays, BecomesIsTyped DEF Reuse, TypeOK, Becomes, StallIf
<1>10. ASSUME NEW d \in Pids, StrangerEnds(d) PROVE Typed'
  BY <1>10, ProcessStays, BecomesIsTyped DEF StrangerEnds, TypeOK, Becomes, StallIf
<1>11. CASE Upgrade
  BY <1>11, PidFileStays DEF Upgrade, TypeOK, Young, StallIf
<1>12. CASE PidFileAges
  BY <1>12, PidFileStays DEF PidFileAges, TypeOK, Young, StallIf
<1>13. CASE HeartAges
  BY <1>13, PidFileStays DEF HeartAges, TypeOK, Young, StallIf, Heartbeat
<1>14. CASE NoteAges
  BY <1>14, PidFileStays DEF NoteAges, TypeOK, Young, StallIf, Note
<1>15. CASE MarkerAges
  BY <1>15, PidFileStays DEF MarkerAges, TypeOK, Young, StallIf
<1> QED
  BY <1>1, <1>2, <1>3, <1>4, <1>5, <1>6, <1>7, <1>8, <1>9, <1>10, <1>11, <1>12, <1>13, <1>14, <1>15 DEF DaemonStep

\* The invariant holds at the start, with no file, no call and no process.
LEMMA TypedInit == Init => Typed
<1>1. NoCall \in Call /\ NoCall.pc \notin Claiming /\ Dead \in Process
  BY StepNames DEF NoCall, Call, Dead, Process
<1>2. Init => TypeOK
  <2>1. 0 \in 0..MaxFaults
    BY ConstantsAssumption
  <2> QED
    BY <1>1, <2>1, Zenon DEF Init, TypeOK
<1>3. Init => ClaimsForChild
  BY <1>1 DEF Init, ClaimsForChild
<1> QED
  BY <1>2, <1>3 DEF Typed

\* Every step keeps it.
LEMMA TypedStep == Typed /\ [Next]_vars => Typed'
<1> SUFFICES ASSUME Typed, [Next]_vars PROVE Typed'
  OBVIOUS
<1>1. CASE UNCHANGED vars
  BY <1>1 DEF vars, Typed, TypeOK, ClaimsForChild
<1>2. CASE Next
  BY <1>2, LauncherType, OtherType DEF Next
<1> QED
  BY <1>1, <1>2

\* Every variable of the worker protocol holds a value of its type in every state
\* that is reached.
THEOREM TypeCorrect == Spec => []TypeOK
<1>1. Typed => TypeOK
  BY DEF Typed
<1> QED
  BY <1>1, TypedInit, TypedStep, PTL DEF Spec

-----------------------------------------------------------------------------
(***************************************************************************)
(* No stranger is ended.  A launcher ends the process it has judged, or the *)
(* child it spawned, in a later step, so the invariant is about what it      *)
(* holds in between: VictimsKnown.                                          *)
(***************************************************************************)

\* A process becomes a stranger only by being given a free pid, and is one no more
\* only by its own end.
StrangersStay ==
  \A p \in Pids : /\ proc'[p].st = "other" => proc[p].st = "other" \/ Reuse(p)
                  /\ proc[p].st = "other" => proc'[p].st = "other" \/ StrangerEnds(p)

\* Of a launcher's record: a new child is a daemon that boots, and the step before
\* the kill is reached by judging a worker.
CallMoves(l) ==
  /\ \/ hook'[l].child \in {Null, hook[l].child}
     \/ hook'[l].child \in Pids /\ proc'[hook'[l].child].st = "boot"
  /\ hook'[l].pc = "kill" =>
       \/ hook'[l] = hook[l]
       \/ Worker(hook[l].saw) /\ hook'[l].saw = hook[l].saw /\ UNCHANGED proc

\* The records of processes that are not strangers.
Quiet == {r \in Process : r.st # "other"}

\* A process is quiet exactly when it is no stranger.
LEMMA QuietIff ==
  ASSUME Typed, NEW p \in Pids PROVE proc[p].st # "other" <=> proc[p] \in Quiet
  BY DEF Typed, TypeOK, Quiet

\* A step that touches no process spares strangers.
LEMMA UnchangedStays ==
  ASSUME UNCHANGED proc PROVE StrangersStay
  BY DEF StrangersStay

\* So does one that writes a process that is none over one that is none.
LEMMA BecomesStays ==
  ASSUME Typed, NEW d \in Pids, proc[d].st # "other", NEW r \in Quiet, Becomes(d, r)
  PROVE  StrangersStay
  BY DEF Typed, TypeOK, Becomes, StrangersStay, Quiet

\* What a step writes over the record of a process that is no stranger is the record
\* of one that is none.
LEMMA QuietStays ==
  ASSUME NEW r \in Quiet, NEW b \in BOOLEAN
  PROVE  /\ Dead \in Quiet /\ Leaving \in Quiet /\ [Leaving EXCEPT !.idle = TRUE] \in Quiet
         /\ [Dead EXCEPT !.st = "boot"] \in Quiet
         /\ [Dead EXCEPT !.st = "exit", !.idle = b] \in Quiet
         /\ [Dead EXCEPT !.st = "dead", !.idle = b] \in Quiet
         /\ [r EXCEPT !.st = "run"] \in Quiet /\ [r EXCEPT !.st = "dead"] \in Quiet
         /\ [r EXCEPT !.idle = b] \in Quiet /\ [r EXCEPT !.late = b] \in Quiet
         /\ [r EXCEPT !.absent = "no"] \in Quiet /\ [r EXCEPT !.absent = "yes"] \in Quiet
         /\ [r EXCEPT !.absent = "long"] \in Quiet
         /\ [r EXCEPT !.owned = TRUE, !.absent = "no"] \in Quiet
         /\ Signalled(r, b) \in Quiet
  BY DEF Quiet, Process, Dead, Leaving, Signalled

\* So does a kill of a process that is no stranger.
LEMMA KilledStays ==
  ASSUME Typed, NEW d \in Pids, proc' \in Killed(d), proc[d].st # "other"
  PROVE  StrangersStay
<1>1. PICK w \in BOOLEAN : Becomes(d, Signalled(proc[d], w))
  BY DEF Killed, Becomes
<1>2. Signalled(proc[d], w) \in Quiet
  BY QuietIff, QuietStays
<1> QED
  BY <1>1, <1>2, BecomesStays

\* Every step of a launcher spares them, with what is known of its victims.
LEMMA LauncherSpares ==
  ASSUME Typed, VictimsKnown, NEW l \in Launchers,
         Ensure(l) \/ Start(l) \/ Stop(l) \/ LauncherStep(l) \/ LauncherDies(l)
  PROVE  StrangersStay
<1>1. CASE EndDaemon(l)
  <2>1. hook[l].saw \in Pids /\ proc[hook[l].saw].st # "other"
    BY <1>1 DEF EndDaemon, VictimsKnown, Typed, TypeOK, Call
  <2> QED
    BY <1>1, <2>1, KilledStays, UnchangedStays DEF EndDaemon
<1>2. CASE Discard(l)
  <2>1. hook[l].child \in Pids /\ proc[hook[l].child].st # "other"
    BY <1>2, StepNames DEF Discard, At, VictimsKnown, Typed, ClaimsForChild, TypeOK, Call
  <2> QED
    BY <1>2, <2>1, KilledStays DEF Discard
<1>3. CASE Spawn(l)
  <2>1. PICK p \in Pids : ~Alive(p) /\ Becomes(p, [Dead EXCEPT !.st = "boot"])
    BY <1>3 DEF Spawn, Becomes
  <2>2. proc[p] \in Quiet
    BY <2>1, QuietIff, ConstantsAssumption DEF Alive
  <2> QED
    BY <2>1, <2>2, QuietIff, QuietStays, BecomesStays
<1>4. CASE ~(EndDaemon(l) \/ Discard(l) \/ Spawn(l))
  <2>1. UNCHANGED proc
    BY <1>4 DEF LauncherStep, Ensure, Start, Stop, ReadPid, Judge, LookAgain, StopRead,
       StopJudge, StopCheck, StopRemove, Create, Fill, RemoveNote, TakeReclaim, Reread,
       Rejudge, WriteNote, Remove, Recreate, WriteStamp, LauncherDies
  <2> QED
    BY <2>1, UnchangedStays
<1> QED
  BY <1>1, <1>2, <1>3, <1>4

\* So does every step of a daemon, of the machine and of time.
LEMMA OtherSpares ==
  ASSUME Typed,
         \/ \E p \in Pids : \/ DaemonStep(p) \/ Crash(p) \/ GracePasses(p)
                            \/ Reuse(p) \/ StrangerEnds(p)
         \/ Upgrade \/ PidFileAges \/ HeartAges \/ NoteAges \/ MarkerAges
  PROVE  StrangersStay
<1>1. ASSUME NEW d \in Pids, Boot(d) PROVE StrangersStay
  <2>1. Becomes(d, [proc[d] EXCEPT !.st = "run"]) /\ proc[d].st # "other"
    BY <1>1 DEF Boot, Becomes
  <2> QED
    BY <2>1, QuietIff, QuietStays, BecomesStays
<1>2. ASSUME NEW d \in Pids, Poll(d) PROVE StrangersStay
  <2>1. proc[d].st # "other" /\ proc[d] \in Quiet
    BY <1>2, QuietIff DEF Poll, Loops
  <2>2. ASSUME NEW w \in BOOLEAN, proc' = Takes(d, w) PROVE StrangersStay
    <3>1. \A p \in Pids : proc[p].st = "other" => proc'[p].st = "other"
      BY <2>1, <2>2 DEF Takes, Displaced, Worker
    <3>2. \A p \in Pids : proc[p] \in Quiet => proc'[p] \in Quiet
      BY <2>1, <2>2, QuietStays DEF Takes
    <3>3. \A p \in Pids : proc'[p].st = "other" => proc[p].st = "other"
      BY <3>2, QuietIff DEF Quiet
    <3> QED
      BY <3>1, <3>3 DEF StrangersStay
  <2>3. ASSUME \/ Becomes(d, Leaving)
               \/ \E a \in {"no", "yes"} : Becomes(d, [proc[d] EXCEPT !.absent = a])
        PROVE  StrangersStay
    BY <2>1, <2>3, QuietStays, BecomesStays
  <2> QED
    BY <1>2, <2>2, <2>3 DEF Poll, PollUnnamed
<1>3. ASSUME NEW d \in Pids, Drain(d) PROVE StrangersStay
  <2>1. proc[d].st # "other" /\ proc[d] \in Quiet
    BY <1>3, QuietIff DEF Drain, Loops
  <2> QED
    BY <1>3, <2>1, QuietStays, BecomesStays DEF Drain, LongIdle
<1>4. ASSUME NEW d \in Pids, IdleExit(d) PROVE StrangersStay
  <2>1. proc[d].st # "other" /\ proc[d] \in Quiet
    BY <1>4, QuietIff DEF IdleExit
  <2> QED
    BY <1>4, <2>1, QuietStays, BecomesStays DEF IdleExit
<1>5. ASSUME NEW d \in Pids, Exit(d) PROVE StrangersStay
  <2>1. proc[d].st # "other" /\ proc[d] \in Quiet
    BY <1>5, QuietIff DEF Exit
  <2> QED
    BY <1>5, <2>1, QuietStays, BecomesStays DEF Exit
<1>6. ASSUME NEW d \in Pids, ExitRemove(d) PROVE StrangersStay
  <2>1. proc[d].st # "other" /\ proc[d] \in Quiet
    BY <1>6, QuietIff DEF ExitRemove
  <2> QED
    BY <1>6, <2>1, QuietStays, BecomesStays DEF ExitRemove
<1>7. ASSUME NEW d \in Pids, Crash(d) PROVE StrangersStay
  <2>1. proc[d].st # "other" /\ proc[d] \in Quiet
    BY <1>7, QuietIff DEF Crash, Worker
  <2> QED
    BY <1>7, <2>1, QuietStays, BecomesStays DEF Crash
<1>8. ASSUME NEW d \in Pids, GracePasses(d) PROVE StrangersStay
  <2>1. proc[d].st # "other" /\ proc[d] \in Quiet
    BY <1>8, QuietIff DEF GracePasses, Loops
  <2> QED
    BY <1>8, <2>1, QuietStays, BecomesStays DEF GracePasses
<1>9. ASSUME NEW d \in Pids, Reuse(d) PROVE StrangersStay
  <2>1. \A p \in Pids \ {d} : proc'[p] = proc[p]
    BY <1>9 DEF Reuse, Becomes, Typed, TypeOK
  <2>2. proc[d].st # "other"
    BY <1>9, ConstantsAssumption DEF Reuse, Alive
  <2> QED
    BY <1>9, <2>1, <2>2 DEF StrangersStay
<1>10. ASSUME NEW d \in Pids, StrangerEnds(d) PROVE StrangersStay
  <2>1. \A p \in Pids \ {d} : proc'[p] = proc[p]
    BY <1>10 DEF StrangerEnds, Becomes, Typed, TypeOK
  <2> QED
    BY <1>10, <2>1 DEF StrangersStay, StrangerEnds
<1>11. CASE Upgrade \/ PidFileAges \/ HeartAges \/ NoteAges \/ MarkerAges
  BY <1>11, UnchangedStays DEF Upgrade, PidFileAges, HeartAges, NoteAges, MarkerAges
<1> QED
  BY <1>1, <1>2, <1>3, <1>4, <1>5, <1>6, <1>7, <1>8, <1>9, <1>10, <1>11 DEF DaemonStep

\* A call that is replaced moves so, unless it is sent to the kill.
LEMMA ReplacedMoves ==
  ASSUME Typed, NEW k \in Launchers, NEW l \in Launchers,
         NEW pc \in Steps \ {"kill"}, NEW p \in Pids \cup {Null}
  PROVE  /\ UNCHANGED hook => CallMoves(l)
         /\ Ends(k) => CallMoves(l)
         /\ Goes(k, pc) => CallMoves(l)
         /\ Saw(k, p, pc) => CallMoves(l)
<1>1. hook'[l] = hook[l] => CallMoves(l)
  BY DEF CallMoves
<1>2. CASE k # l
  BY <1>1, <1>2 DEF Typed, TypeOK, Ends, Goes, Saw
<1>3. CASE k = l
  <2>1. ASSUME Ends(l) PROVE hook'[l].pc # "kill" /\ hook'[l].child = Null
    BY <2>1 DEF Ends, NoCall, Typed, TypeOK
  <2>2. ASSUME Goes(l, pc) \/ Saw(l, p, pc)
        PROVE  hook'[l].pc # "kill" /\ hook'[l].child = hook[l].child
    <3> DEFINE r == [hook[l] EXCEPT !.pc = pc]
               s == [hook[l] EXCEPT !.saw = p, !.pc = pc]
    <3>1. r.pc = pc /\ r.child = hook[l].child /\ s.pc = pc /\ s.child = hook[l].child
      BY DEF Typed, TypeOK, Call
    <3>2. hook'[l] = r \/ hook'[l] = s
      BY <2>2 DEF Goes, Saw, Typed, TypeOK
    <3> HIDE DEF r, s
    <3> QED
      BY <3>1, <3>2
  <2> QED
    BY <1>1, <1>3, <2>1, <2>2 DEF CallMoves
<1> QED
  BY <1>2, <1>3

\* Every step of a launcher moves its own record so, and no other.
LEMMA LauncherMoves ==
  ASSUME Typed, "blind" \notin Mishaps, NEW k \in Launchers, NEW l \in Launchers,
         Ensure(k) \/ Start(k) \/ Stop(k) \/ LauncherStep(k) \/ LauncherDies(k)
  PROVE  CallMoves(l)
<1>0. hook'[l] = hook[l] => CallMoves(l)
  BY DEF CallMoves
<1>1. CASE Start(k) \/ Stop(k)
  <2>1. CASE k # l
    BY <1>0, <1>1, <2>1 DEF Start, Stop, Typed, TypeOK
  <2>2. CASE k = l
    <3>1. hook'[l].pc # "kill" /\ hook'[l].child = hook[l].child
      BY <1>1, <2>2 DEF Start, Stop, Typed, TypeOK, Call
    <3> QED
      BY <3>1 DEF CallMoves
  <2> QED
    BY <2>1, <2>2
<1>2. CASE Spawn(k)
  <2>1. CASE k # l
    BY <1>0, <1>2, <2>1 DEF Spawn, Typed, TypeOK
  <2>2. CASE k = l
    <3>1. PICK p \in Pids :
            /\ proc' = [proc EXCEPT ![p] = [Dead EXCEPT !.st = "boot"]]
            /\ hook' = [hook EXCEPT ![l] = [NoCall EXCEPT !.pc = "create", !.child = p]]
      BY <1>2, <2>2 DEF Spawn
    <3>2. proc'[p].st = "boot" /\ hook'[l].child = p /\ hook'[l].pc # "kill"
      BY <3>1 DEF Dead, NoCall, Typed, TypeOK
    <3> QED
      BY <3>2 DEF CallMoves
  <2> QED
    BY <2>1, <2>2
<1>3. CASE StopJudge(k)
  <2>1. CASE Goes(k, "kill")
    <3>1. Worker(hook[k].saw) /\ UNCHANGED proc
      BY <1>3, <2>1 DEF StopJudge, StopDone, Ends, Goes, NoCall, At, Typed, TypeOK, Call
    <3>2. hook'[k].saw = hook[k].saw /\ hook'[k].child = hook[k].child
      BY <2>1 DEF Goes, Typed, TypeOK, Call
    <3>3. k # l => hook'[l] = hook[l]
      BY <2>1 DEF Goes, Typed, TypeOK
    <3> QED
      BY <1>0, <3>1, <3>2, <3>3 DEF CallMoves
  <2>2. CASE ~Goes(k, "kill")
    BY <1>3, <2>2, ReplacedMoves, StepNames DEF StopJudge, StopDone
  <2> QED
    BY <2>1, <2>2
<1>4. CASE Ensure(k)
  BY <1>4, ReplacedMoves, StepNames DEF Ensure
<1>5. CASE ReadPid(k)
  BY <1>5, ReplacedMoves, StepNames, ReadIsAPid DEF ReadPid
<1>6. CASE Judge(k)
  BY <1>6, ReplacedMoves, StepNames DEF Judge
<1>7. CASE LookAgain(k)
  BY <1>7, ReplacedMoves, StepNames DEF LookAgain
<1>8. CASE StopRead(k)
  BY <1>8, ReplacedMoves, StepNames, ReadIsAPid DEF StopRead, StopDone
<1>9. CASE EndDaemon(k)
  BY <1>9, ReplacedMoves, StepNames DEF EndDaemon, StopDone
<1>10. CASE StopCheck(k)
  BY <1>10, ReplacedMoves, StepNames DEF StopCheck, StopDone
<1>11. CASE StopRemove(k)
  BY <1>11, ReplacedMoves, StepNames DEF StopRemove, StopDone
<1>12. CASE Create(k)
  BY <1>12, ReplacedMoves, StepNames DEF Create, Writes
<1>13. CASE Fill(k)
  BY <1>13, ReplacedMoves, StepNames DEF Fill
<1>14. CASE RemoveNote(k)
  BY <1>14, ReplacedMoves, StepNames DEF RemoveNote
<1>15. CASE TakeReclaim(k)
  BY <1>15, ReplacedMoves, StepNames DEF TakeReclaim
<1>16. CASE Reread(k)
  BY <1>16, ReplacedMoves, StepNames, ReadIsAPid DEF Reread
<1>17. CASE Rejudge(k)
  BY <1>17, ReplacedMoves, StepNames DEF Rejudge
<1>18. CASE WriteNote(k)
  BY <1>18, ReplacedMoves, StepNames DEF WriteNote
<1>19. CASE Remove(k)
  BY <1>19, ReplacedMoves, StepNames DEF Remove
<1>20. CASE Recreate(k)
  BY <1>20, ReplacedMoves, StepNames DEF Recreate, Writes
<1>21. CASE WriteStamp(k)
  BY <1>21, ReplacedMoves, StepNames DEF WriteStamp
<1>22. CASE Discard(k)
  BY <1>22, ReplacedMoves, StepNames DEF Discard
<1>23. CASE LauncherDies(k)
  BY <1>23, ReplacedMoves, StepNames DEF LauncherDies
<1> QED
  BY <1>1, <1>2, <1>3, <1>4, <1>5, <1>6, <1>7, <1>8, <1>9, <1>10, <1>11,
     <1>12, <1>13, <1>14, <1>15, <1>16, <1>17, <1>18, <1>19, <1>20, <1>21,
     <1>22, <1>23 DEF LauncherStep

\* No action but a launcher's touches a launcher's record.
LEMMA CallsMove ==
  ASSUME Typed, "blind" \notin Mishaps, [Next]_vars, NEW l \in Launchers
  PROVE  CallMoves(l)
<1>1. ASSUME NEW k \in Launchers,
             Ensure(k) \/ Start(k) \/ Stop(k) \/ LauncherStep(k) \/ LauncherDies(k)
      PROVE  CallMoves(l)
  BY <1>1, LauncherMoves
<1>2. ASSUME \/ UNCHANGED vars
             \/ \E p \in Pids : \/ DaemonStep(p) \/ Crash(p) \/ GracePasses(p)
                                \/ Reuse(p) \/ StrangerEnds(p)
             \/ Upgrade \/ PidFileAges \/ HeartAges \/ NoteAges \/ MarkerAges
      PROVE  CallMoves(l)
  <2>1. UNCHANGED hook
    BY <1>2 DEF vars, DaemonStep, Boot, Poll, Drain, IdleExit, Exit, ExitRemove, Crash,
       GracePasses, Reuse, StrangerEnds, Upgrade, PidFileAges, HeartAges, NoteAges, MarkerAges
  <2> QED
    BY <2>1 DEF CallMoves
<1> QED
  BY <1>1, <1>2 DEF Next

\* As long as no process query fails and none is so slow that the pid is another's
\* before the kill, no step ends a stranger that has been given a daemon's pid:
\* neither a launcher that stops a daemon or gives a child up, nor a daemon that
\* retires those its note names.
THEOREM StrangersAreSpared ==
  ASSUME "blind" \notin Mishaps, "slow" \notin Mishaps
  PROVE  Spec => StrangersSpared
<1> DEFINE Inv == Typed /\ VictimsKnown
<1>1. Init => Inv
  <2>1. NoCall.child = Null /\ NoCall.pc = "idle"
    BY DEF NoCall
  <2>2. Init => VictimsKnown
    BY <2>1 DEF Init, VictimsKnown, At
  <2> QED
    BY <2>2, TypedInit
<1>2. Inv /\ [Next]_vars => StrangersStay
  <2> SUFFICES ASSUME Inv, [Next]_vars PROVE StrangersStay
    OBVIOUS
  <2> QED
    BY LauncherSpares, OtherSpares, UnchangedStays DEF Next, vars
<1>3. Inv /\ [Next]_vars => Inv'
  <2> SUFFICES ASSUME Inv, [Next]_vars, NEW l \in Launchers
               PROVE  /\ hook'[l].child # Null => proc'[hook'[l].child].st # "other"
                      /\ hook'[l].pc = "kill" => /\ hook'[l].saw # Null
                                                 /\ proc'[hook'[l].saw].st # "other"
    BY TypedStep DEF VictimsKnown, At
  <2>1. CallMoves(l) /\ StrangersStay /\ hook[l] \in Call
    BY <1>2, CallsMove DEF Typed, TypeOK
  <2>2. ASSUME hook'[l].child # Null PROVE proc'[hook'[l].child].st # "other"
    <3>1. CASE hook'[l].child = hook[l].child
      <4>1. hook[l].child \in Pids /\ ~Reuse(hook[l].child)
        BY <2>1, <2>2, <3>1 DEF Call, Reuse
      <4> QED
        BY <2>2, <3>1, <2>1, <4>1 DEF StrangersStay, VictimsKnown
    <3> QED
      BY <2>1, <2>2, <3>1 DEF CallMoves
  <2>3. ASSUME hook'[l].pc = "kill"
        PROVE  hook'[l].saw # Null /\ proc'[hook'[l].saw].st # "other"
    <3>1. CASE hook'[l] = hook[l]
      <4>1. hook[l].saw \in Pids /\ ~Reuse(hook[l].saw)
        BY <2>1, <2>3, <3>1 DEF Call, Reuse, At, VictimsKnown
      <4> QED
        BY <2>3, <3>1, <2>1, <4>1 DEF StrangersStay, VictimsKnown, At
    <3>2. CASE Worker(hook[l].saw) /\ hook'[l].saw = hook[l].saw /\ UNCHANGED proc
      BY <3>2 DEF Worker, Alive
    <3> QED
      BY <2>1, <2>3, <3>1, <3>2 DEF CallMoves
  <2> QED
    BY <2>2, <2>3
<1>4. StrangersStay =>
        [\A p \in Pids : proc[p].st = "other" => proc'[p].st = "other" \/ StrangerEnds(p)]_vars
  BY DEF StrangersStay
<1> QED
  BY <1>1, <1>2, <1>3, <1>4, PTL DEF Spec, StrangersSpared

=============================================================================
