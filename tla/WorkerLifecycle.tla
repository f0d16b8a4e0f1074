-------------------------- MODULE WorkerLifecycle --------------------------
(***************************************************************************)
(* Who is the worker daemon of a data directory: worker.pid names it, the   *)
(* drain heartbeat proves it is alive, a launcher claims the file for the   *)
(* daemon it has just spawned, and a daemon that finds itself unnamed goes  *)
(* (src/src/worker_lifecycle.ts, src/src/worker.ts: runWorkerLoop).         *)
(*                                                                         *)
(* Launchers are hook processes in ensureWorkerAlive, or the commands       *)
(* `worker start` and `worker stop`; each step of theirs reads or writes one *)
(* file.  Time is in flags that only turn one way: a pid file is young for   *)
(* the startup grace (10 s), a heartbeat fresh for a minute, a health check  *)
(* recent for five, a daemon late a grace after it started.  What cannot    *)
(* take so long is in the guards of the steps that turn them.               *)
(***************************************************************************)
EXTENDS Naturals

CONSTANTS
  Launchers,  \* processes that start or stop the worker, one call at a time
  Pids,       \* the process numbers daemons get, and strangers after them
  Null,       \* "no file", "no pid"
  Mishaps,    \* which of the mishaps below the run allows
  MaxFaults   \* bound: crashes, idle exits, commands, upgrades, failed calls

\* "start", "stop": `worker start`, `worker stop` is run.  "upgrade": the bundle on
\* disk changes under a running daemon.  "stall": a running process does nothing
\* for one of the times above.  "empty": a launcher is preempted between creating
\* the pid file and writing to it.  "blind": a process query fails.  "slow": it
\* takes so long that the pid is another process's before the kill.
AllMishaps == {"start", "stop", "upgrade", "stall", "empty", "blind", "slow"}

ASSUME ConstantsAssumption ==
  /\ Null \notin Pids \cup Launchers
  /\ Mishaps \subseteq AllMishaps
  /\ MaxFaults \in Nat

VARIABLES
  proc,     \* proc[p]: the process that has pid p, with the locals of its loop
  pidfile,  \* worker.pid: whose it is, whether the pid is written yet, its age
  heart,    \* queue/drain-heartbeat
  note,     \* worker.pid.displaced
  reclaim,  \* who is in the section of the worker.pid.reclaim lock, see Mutex
  checked,  \* worker-healthcheck.marker is recent
  stamped,  \* worker.stamp names the bundle that is on disk
  pending,  \* the dirty queue has something in it
  hook,     \* hook[l]: the step a launcher is at, and what it has read
  faults

vars == <<proc, pidfile, heart, note, reclaim, checked, stamped, pending, hook,
          faults>>

Spend == faults < MaxFaults /\ faults' = faults + 1

Dead == [st |-> "dead", owned |-> FALSE, late |-> FALSE, idle |-> FALSE, absent |-> "no"]

Alive(p) == p # Null /\ proc[p].st # "dead"
Worker(p) == Alive(p) /\ proc[p].st # "other"

Named == IF pidfile = Null THEN Null ELSE pidfile.pid

\* readPidFile: an absent file and one without a pid read the same.
Read == IF pidfile # Null /\ pidfile.written THEN pidfile.pid ELSE Null

Beating(p) == heart # Null /\ heart.fresh /\ heart.pid = p
Young == pidfile # Null /\ pidfile.young

\* The two proofs of a live worker: a fresh heartbeat that names it, or a pid
\* file too young for one.
Leased(p) == Alive(p) /\ (Beating(p) \/ Young)

NoCall == [pc |-> "idle", cmd |-> "ensure", saw |-> Null, child |-> Null]

At(l, pc) == hook[l].pc = pc
Goes(l, pc) == hook' = [hook EXCEPT ![l].pc = pc]
Ends(l) == hook' = [hook EXCEPT ![l] = NoCall]
Saw(l, p, pc) == hook' = [hook EXCEPT ![l].saw = p, ![l].pc = pc]

NewFile(p, written) == [pid |-> p, written |-> written, young |-> TRUE]
Section == {"reread", "rejudge", "note", "rm", "recreate"}

Init ==
  /\ proc = [p \in Pids |-> Dead]
  /\ pidfile = Null /\ heart = Null /\ note = Null /\ reclaim = Null
  /\ checked = FALSE /\ stamped = FALSE /\ pending = FALSE
  /\ hook = [l \in Launchers |-> NoCall]
  /\ faults = 0

-----------------------------------------------------------------------------
(***************************************************************************)
(* ensureWorkerAlive: an edit hook has queued a path and looks for a worker. *)
(***************************************************************************)

\* With a recent marker the call ends here.
Ensure(l) ==
  /\ At(l, "idle")
  /\ pending' = TRUE
  /\ IF checked THEN UNCHANGED hook ELSE Goes(l, "read")
  /\ UNCHANGED <<proc, pidfile, heart, note, reclaim, checked, stamped, faults>>

\* `worker start` looks for a worker the same way, without the marker.
Start(l) ==
  /\ "start" \in Mishaps /\ At(l, "idle")
  /\ Spend
  /\ hook' = [hook EXCEPT ![l].pc = "read", ![l].cmd = "start"]
  /\ UNCHANGED <<proc, pidfile, heart, note, reclaim, checked, stamped, pending>>

\* The marker is written, then worker.pid read.
ReadPid(l) ==
  /\ At(l, "read")
  /\ checked' = (checked \/ hook[l].cmd = "ensure")
  /\ Saw(l, Read, "judge")
  /\ UNCHANGED <<proc, pidfile, heart, note, reclaim, stamped, pending, faults>>

\* A live worker is left alone, but replaced when its bundle is not the one on
\* disk.
Judge(l) ==
  /\ At(l, "judge")
  /\ IF Alive(hook[l].saw) /\ Beating(hook[l].saw)
       THEN IF stamped \/ hook[l].cmd = "start" THEN Ends(l) ELSE Goes(l, "stopread")
       ELSE Goes(l, "spawn")
  /\ UNCHANGED <<proc, pidfile, heart, note, reclaim, checked, stamped, pending, faults>>

\* After the stop: another hook may have replaced the daemon already.
LookAgain(l) ==
  /\ At(l, "again")
  /\ IF Read # Null /\ Read # hook[l].saw THEN Ends(l) ELSE Goes(l, "spawn")
  /\ UNCHANGED <<proc, pidfile, heart, note, reclaim, checked, stamped, pending, faults>>

-----------------------------------------------------------------------------
(***************************************************************************)
(* stopWorkerDetailed, for `worker stop` and for ensureWorkerAlive.         *)
(***************************************************************************)

Stop(l) ==
  /\ "stop" \in Mishaps /\ At(l, "idle")
  /\ Spend
  /\ hook' = [hook EXCEPT ![l].pc = "stopread", ![l].cmd = "stop"]
  /\ UNCHANGED <<proc, pidfile, heart, note, reclaim, checked, stamped, pending>>

StopDone(l) == IF hook[l].cmd = "stop" THEN Ends(l) ELSE Goes(l, "again")

\* The pid judged earlier is the only one ensureWorkerAlive may stop.
StopRead(l) ==
  /\ At(l, "stopread")
  /\ IF Read = Null \/ (hook[l].cmd = "ensure" /\ Read # hook[l].saw)
       THEN StopDone(l)
       ELSE Saw(l, Read, "stopjudge")
  /\ UNCHANGED <<proc, pidfile, heart, note, reclaim, checked, stamped, pending, faults>>

\* Mutant of StopJudge: the lease is proof enough, the command line is not read.
StopJudgeByLease(l) ==
  LET p == hook[l].saw
  IN /\ At(l, "stopjudge")
     /\ IF Alive(p) THEN IF Leased(p) THEN Goes(l, "kill") ELSE StopDone(l)
                    ELSE Goes(l, "stopcheck")
     /\ UNCHANGED <<proc, pidfile, heart, note, reclaim, checked, stamped, pending, faults>>

\* A live process without a lease is left alone and named; a leased one is ended
\* when its command line is the worker's, or could not be read.
StopJudge(l) ==
  LET p == hook[l].saw
  IN /\ At(l, "stopjudge")
     /\ \/ Alive(p) /\ ~Leased(p) /\ StopDone(l) /\ UNCHANGED faults
        \/ ~Alive(p) /\ Goes(l, "stopcheck") /\ UNCHANGED faults
        \/ Leased(p) /\ Worker(p) /\ Goes(l, "kill") /\ UNCHANGED faults
        \/ Leased(p) /\ ~Worker(p) /\ Goes(l, "stopcheck") /\ UNCHANGED faults
        \/ "blind" \in Mishaps /\ Leased(p) /\ Goes(l, "kill") /\ Spend
     /\ UNCHANGED <<proc, pidfile, heart, note, reclaim, checked, stamped, pending>>

\* A process after a signal.  SIGTERM lets a running daemon finish its embeds while
\* its loop goes on; on Windows, or before the handler is there, it dies.
Signalled(r, windows) ==
  IF windows \/ r.st \in {"boot", "other"} THEN Dead
    ELSE [r EXCEPT !.st = IF @ = "run" THEN "term" ELSE @]

Killed(p) == {[proc EXCEPT ![p] = Signalled(proc[p], w)] : w \in BOOLEAN}

\* The kill, which the system may deny: then the daemon stays named.
EndDaemon(l) ==
  /\ At(l, "kill")
  /\ \/ proc' \in Killed(hook[l].saw) /\ Goes(l, "stopcheck") /\ UNCHANGED faults
     \/ Spend /\ StopDone(l) /\ UNCHANGED proc
  /\ UNCHANGED <<pidfile, heart, note, reclaim, checked, stamped, pending>>

StopCheck(l) ==
  /\ At(l, "stopcheck")
  /\ IF Read = hook[l].saw THEN Goes(l, "stoprm") ELSE StopDone(l)
  /\ UNCHANGED <<proc, pidfile, heart, note, reclaim, checked, stamped, pending, faults>>

StopRemove(l) ==
  /\ At(l, "stoprm")
  /\ pidfile' = Null
  /\ StopDone(l)
  /\ UNCHANGED <<proc, heart, note, reclaim, checked, stamped, pending, faults>>

-----------------------------------------------------------------------------
(***************************************************************************)
(* startDetachedWorker: spawn, then claim the slot for what was spawned     *)
(* (claimWorkerPidFile, reclaimStalePidFile).                               *)
(***************************************************************************)

\* A new daemon does not happen to get the number the pid file names.
Spawn(l) ==
  /\ At(l, "spawn")
  /\ \E p \in Pids :
       /\ ~Alive(p) /\ p # Named
       /\ \A k \in Launchers : hook[k].child # p
       /\ proc' = [proc EXCEPT ![p] = [Dead EXCEPT !.st = "boot"]]
       /\ hook' = [hook EXCEPT ![l] = [NoCall EXCEPT !.pc = "create", !.child = p]]
  /\ UNCHANGED <<pidfile, heart, note, reclaim, checked, stamped, pending, faults>>

\* The exclusive create, and the write of the pid into the new file.
Writes(l, then) ==
  \/ pidfile' = NewFile(hook[l].child, TRUE) /\ Goes(l, then)
  \/ "empty" \in Mishaps /\ pidfile' = NewFile(hook[l].child, FALSE) /\ Goes(l, "fill")

Create(l) ==
  /\ At(l, "create")
  /\ \/ pidfile = Null /\ Writes(l, "unnote")
     \/ pidfile # Null /\ Goes(l, "lock") /\ UNCHANGED pidfile
  /\ UNCHANGED <<proc, heart, note, reclaim, checked, stamped, pending, faults>>

\* The bytes go to the file this launcher created, if it still has a name.
Fill(l) ==
  /\ At(l, "fill")
  /\ pidfile' = IF pidfile # Null /\ pidfile.pid = hook[l].child
                  THEN [pidfile EXCEPT !.written = TRUE] ELSE pidfile
  /\ IF reclaim = l THEN reclaim' = Null /\ Goes(l, "stamp")
                    ELSE UNCHANGED reclaim /\ Goes(l, "unnote")
  /\ UNCHANGED <<proc, heart, note, checked, stamped, pending, faults>>

RemoveNote(l) ==
  /\ At(l, "unnote")
  /\ note' = Null
  /\ Goes(l, "stamp")
  /\ UNCHANGED <<proc, pidfile, heart, reclaim, checked, stamped, pending, faults>>

\* A claimer that finds the reclaim lock held has lost (waitMs is 0).
TakeReclaim(l) ==
  /\ At(l, "lock")
  /\ \/ reclaim = Null /\ reclaim' = l /\ Goes(l, "reread")
     \/ reclaim # Null /\ Goes(l, "discard") /\ UNCHANGED reclaim
  /\ UNCHANGED <<proc, pidfile, heart, note, checked, stamped, pending, faults>>

Reread(l) ==
  /\ At(l, "reread")
  /\ Saw(l, Read, "rejudge")
  /\ UNCHANGED <<proc, pidfile, heart, note, reclaim, checked, stamped, pending, faults>>

\* Mutant of Rejudge: whatever pid is in the file keeps the slot.
RejudgeRefusing(l) ==
  /\ At(l, "rejudge")
  /\ IF hook[l].saw # Null
       THEN reclaim' = Null /\ Saw(l, Null, "discard")
       ELSE UNCHANGED reclaim /\ Goes(l, "note")
  /\ UNCHANGED <<proc, pidfile, heart, note, checked, stamped, pending, faults>>

Rejudge(l) ==
  /\ At(l, "rejudge")
  /\ IF Leased(hook[l].saw)
       THEN reclaim' = Null /\ Saw(l, Null, "discard")
       ELSE UNCHANGED reclaim /\ Goes(l, "note")
  /\ UNCHANGED <<proc, pidfile, heart, note, checked, stamped, pending, faults>>

\* Mutant of WriteNote: who was in the slot is noted unseen.
WriteNoteUnseen(l) ==
  /\ At(l, "note")
  /\ note' = [pids |-> {hook[l].saw}, young |-> TRUE]
  /\ Goes(l, "rm")
  /\ UNCHANGED <<proc, pidfile, heart, reclaim, checked, stamped, pending, faults>>

\* The note for the daemon about to own the slot: whom it displaces, and whom
\* a young note nobody has read names.
WriteNote(l) ==
  LET named == (IF note # Null /\ note.young THEN note.pids ELSE {}) \cup {hook[l].saw}
      held == {p \in named \ {hook[l].child} : Alive(p)}
  IN /\ At(l, "note")
     /\ note' = IF held = {} THEN Null ELSE [pids |-> held, young |-> TRUE]
     /\ Goes(l, "rm")
     /\ UNCHANGED <<proc, pidfile, heart, reclaim, checked, stamped, pending, faults>>

Remove(l) ==
  /\ At(l, "rm")
  /\ pidfile' = Null
  /\ Saw(l, Null, "recreate")
  /\ UNCHANGED <<proc, heart, note, reclaim, checked, stamped, pending, faults>>

\* A first-time claimer may have created the file since.
Recreate(l) ==
  /\ At(l, "recreate")
  /\ \/ /\ pidfile = Null /\ Writes(l, "stamp")
        /\ reclaim' = IF hook'[l].pc = "stamp" THEN Null ELSE reclaim
        /\ UNCHANGED note
     \/ /\ pidfile # Null
        /\ note' = Null /\ reclaim' = Null /\ Goes(l, "discard")
        /\ UNCHANGED pidfile
  /\ UNCHANGED <<proc, heart, checked, stamped, pending, faults>>

WriteStamp(l) ==
  /\ At(l, "stamp")
  /\ stamped' = TRUE
  /\ Ends(l)
  /\ UNCHANGED <<proc, pidfile, heart, note, reclaim, checked, pending, faults>>

Discard(l) ==
  /\ At(l, "discard")
  /\ proc' \in Killed(hook[l].child)
  /\ Ends(l)
  /\ UNCHANGED <<pidfile, heart, note, reclaim, checked, stamped, pending, faults>>

\* The launcher is killed; its reclaim lock is stolen in time (OrphanCleared of
\* FileLock), and its process number is not looked at.
LauncherDies(l) ==
  /\ ~At(l, "idle")
  /\ Spend
  /\ Ends(l)
  /\ reclaim' = IF reclaim = l THEN Null ELSE reclaim
  /\ UNCHANGED <<proc, pidfile, heart, note, checked, stamped, pending>>

-----------------------------------------------------------------------------
(***************************************************************************)
(* The daemon: runDetachedWorkerDaemon and the steps of runWorkerLoop that  *)
(* decide whether it stays.                                                 *)
(***************************************************************************)

Loops(d) == proc[d].st \in {"run", "term"}
Becomes(d, r) == proc' = [proc EXCEPT ![d] = r]
Leaving == [Dead EXCEPT !.st = "leave"]

\* Its first act is a heartbeat; whether it has the slot it does not know.
Boot(d) ==
  /\ proc[d].st = "boot"
  /\ proc' = [proc EXCEPT ![d].st = "run"]
  /\ heart' = [pid |-> d, fresh |-> TRUE]
  /\ UNCHANGED <<pidfile, note, reclaim, checked, stamped, pending, hook, faults>>

\* retireDisplacedWorker: those a young note names, if they have no heartbeat and
\* are workers, are ended, and the note is removed.
Displaced(d) ==
  IF note = Null \/ ~note.young THEN {}
    ELSE {p \in note.pids : p # d /\ Worker(p) /\ ~Beating(p)}

Takes(d, windows) ==
  [p \in Pids |-> IF p = d THEN [proc[d] EXCEPT !.owned = TRUE, !.absent = "no"]
                  ELSE IF p \in Displaced(d) THEN Signalled(proc[p], windows) ELSE proc[p]]

\* Mutant of PollUnnamed: a daemon that never had the slot waits for it.
PollUnnamedPatient(d) ==
  /\ Read # d
  /\ \/ /\ proc[d].owned /\ Read # Null
        /\ Becomes(d, Leaving)
     \/ /\ ~(proc[d].owned /\ Read # Null)
        /\ pidfile # Null
        /\ Becomes(d, [proc[d] EXCEPT !.absent = "no"])
  /\ UNCHANGED note

\* The slot is another's, or nobody's: a daemon that had it goes when another
\* has it, any daemon when the file has been absent for a grace, and one that
\* never had it when it is another's a grace after the start.
PollUnnamed(d) ==
  /\ Read # d
  /\ \/ /\ \/ proc[d].owned /\ Read # Null
           \/ pidfile = Null /\ proc[d].absent = "long"
           \/ ~proc[d].owned /\ Read # Null /\ proc[d].late
        /\ Becomes(d, Leaving)
     \/ /\ ~(proc[d].owned /\ Read # Null)
        /\ pidfile = Null /\ proc[d].absent # "long"
        /\ Becomes(d, [proc[d] EXCEPT !.absent = "yes"])
     \/ /\ ~(proc[d].owned /\ Read # Null)
        /\ pidfile # Null /\ ~(Read # Null /\ proc[d].late)
        /\ Becomes(d, [proc[d] EXCEPT !.absent = "no"])
  /\ UNCHANGED note

\* pidFileSaysRetire, at the top of a cycle and inside it.
Poll(d) ==
  /\ Loops(d)
  /\ \/ /\ Read = d
        /\ IF proc[d].owned
             THEN Becomes(d, [proc[d] EXCEPT !.absent = "no"]) /\ UNCHANGED note
             ELSE (\E w \in BOOLEAN : proc' = Takes(d, w)) /\ note' = Null
     \/ PollUnnamed(d)
  /\ UNCHANGED <<pidfile, heart, reclaim, checked, stamped, pending, hook, faults>>

\* Nothing has been queued for idleExitMs, half an hour, so neither is a health
\* check recent nor one under way.
LongIdle ==
  /\ ~pending /\ ~checked
  /\ \A l \in Launchers : At(l, "idle") \/ hook[l].cmd # "ensure"

\* One drain, and the heartbeat at its end.
Drain(d) ==
  /\ Loops(d)
  /\ pending' = FALSE
  /\ Becomes(d, [proc[d] EXCEPT !.idle = LongIdle])
  /\ heart' = [pid |-> d, fresh |-> TRUE]
  /\ UNCHANGED <<pidfile, note, reclaim, checked, stamped, hook, faults>>

\* The drain of this cycle was the last of a half-hour that found nothing.
IdleExit(d) ==
  /\ proc[d].st = "run" /\ proc[d].idle
  /\ Spend
  /\ Becomes(d, [Leaving EXCEPT !.idle = TRUE])
  /\ UNCHANGED <<pidfile, heart, note, reclaim, checked, stamped, pending, hook>>

\* The exit handler, after the embeds in flight have settled: it looks whether
\* the pid file is the daemon's own, then removes it.
Exit(d) ==
  /\ proc[d].st \in {"leave", "term"}
  /\ Becomes(d, [Dead EXCEPT !.st = IF Read = d THEN "exit" ELSE "dead",
                             !.idle = (proc[d].st = "leave" /\ proc[d].idle)])
  /\ UNCHANGED <<pidfile, heart, note, reclaim, checked, stamped, pending, hook, faults>>

ExitRemove(d) ==
  /\ proc[d].st = "exit"
  /\ pidfile' = Null
  /\ Becomes(d, [proc[d] EXCEPT !.st = "dead"])
  /\ UNCHANGED <<heart, note, reclaim, checked, stamped, pending, hook, faults>>

Crash(d) ==
  /\ Worker(d)
  /\ Spend
  /\ Becomes(d, Dead)
  /\ UNCHANGED <<pidfile, heart, note, reclaim, checked, stamped, pending, hook>>

-----------------------------------------------------------------------------
(***************************************************************************)
(* The rest of the machine.                                                 *)
(***************************************************************************)

\* A stranger is given a dead daemon's pid, though not before its launcher has let
\* go of it, nor, unless the query was slow, between a query and the kill.
Reuse(p) ==
  /\ ~Alive(p)
  /\ \A l \in Launchers : /\ hook[l].child # p
                          /\ At(l, "kill") /\ hook[l].saw = p => "slow" \in Mishaps
  /\ Spend
  /\ Becomes(p, [Dead EXCEPT !.st = "other"])
  /\ UNCHANGED <<pidfile, heart, note, reclaim, checked, stamped, pending, hook>>

StrangerEnds(p) ==
  /\ proc[p].st = "other"
  /\ Becomes(p, Dead)
  /\ UNCHANGED <<pidfile, heart, note, reclaim, checked, stamped, pending, hook, faults>>

Upgrade ==
  /\ "upgrade" \in Mishaps /\ stamped
  /\ Spend
  /\ stamped' = FALSE
  /\ UNCHANGED <<proc, pidfile, heart, note, reclaim, checked, pending, hook>>

StallIf(busy) == IF busy THEN "stall" \in Mishaps /\ Spend ELSE UNCHANGED faults

\* A daemon boots well within the grace, and beats and leaves well within the
\* minute.
PidFileAges ==
  /\ Young
  /\ StallIf(proc[pidfile.pid].st = "boot")
  /\ pidfile' = [pidfile EXCEPT !.young = FALSE]
  /\ UNCHANGED <<proc, heart, note, reclaim, checked, stamped, pending, hook>>

HeartAges ==
  /\ heart # Null /\ heart.fresh
  /\ StallIf(\E p \in Pids : Worker(p) /\ proc[p].st # "boot")
  /\ heart' = [heart EXCEPT !.fresh = FALSE]
  /\ UNCHANGED <<proc, pidfile, note, reclaim, checked, stamped, pending, hook>>

NoteAges ==
  /\ note # Null /\ note.young
  /\ note' = [note EXCEPT !.young = FALSE]
  /\ UNCHANGED <<proc, pidfile, heart, reclaim, checked, stamped, pending, hook, faults>>

\* In five minutes calls return, strays leave, and every shorter time passes.
Settled ==
  /\ \A l \in Launchers : At(l, "idle")
  /\ ~Young
  /\ heart # Null /\ heart.fresh => Worker(heart.pid)
  /\ \A d \in Pids : Worker(d) =>
       /\ proc[d].st = "run" /\ proc[d].late /\ (Read = d \/ (Read = Null /\ pidfile # Null))
       /\ heart # Null /\ heart.fresh

MarkerAges ==
  /\ checked
  /\ StallIf(~Settled)
  /\ checked' = FALSE
  /\ UNCHANGED <<proc, pidfile, heart, note, reclaim, stamped, pending, hook>>

\* A launcher claims the slot, or gives it up, well within the grace.
GracePasses(d) ==
  /\ Loops(d)
  /\ StallIf(\E l \in Launchers : hook[l].child = d)
  /\ \/ ~proc[d].late /\ Becomes(d, [proc[d] EXCEPT !.late = TRUE])
     \/ proc[d].absent = "yes" /\ Becomes(d, [proc[d] EXCEPT !.absent = "long"])
  /\ UNCHANGED <<pidfile, heart, note, reclaim, checked, stamped, pending, hook>>

-----------------------------------------------------------------------------
LauncherStep(l) ==
  \/ ReadPid(l) \/ Judge(l) \/ LookAgain(l)
  \/ StopRead(l) \/ StopJudge(l) \/ EndDaemon(l) \/ StopCheck(l) \/ StopRemove(l)
  \/ Spawn(l) \/ Create(l) \/ Fill(l) \/ RemoveNote(l)
  \/ TakeReclaim(l) \/ Reread(l) \/ Rejudge(l) \/ WriteNote(l) \/ Remove(l)
  \/ Recreate(l) \/ WriteStamp(l) \/ Discard(l)

DaemonStep(d) ==
  Boot(d) \/ Poll(d) \/ Drain(d) \/ IdleExit(d) \/ Exit(d) \/ ExitRemove(d)

Next ==
  \/ \E l \in Launchers : Ensure(l) \/ Start(l) \/ Stop(l) \/ LauncherStep(l) \/ LauncherDies(l)
  \/ \E p \in Pids : \/ DaemonStep(p) \/ Crash(p) \/ GracePasses(p)
                     \/ Reuse(p) \/ StrangerEnds(p)
  \/ Upgrade \/ PidFileAges \/ HeartAges \/ NoteAges \/ MarkerAges

Spec == Init /\ [][Next]_vars

\* A running launcher and a running daemon go on, a daemon polls and drains in
\* every cycle, and time passes.  Nobody has to call, or to exit when idle.
Fairness ==
  /\ \A l \in Launchers : WF_vars(LauncherStep(l))
  /\ \A d \in Pids : /\ WF_vars(Boot(d)) /\ WF_vars(Poll(d)) /\ WF_vars(Drain(d))
                     /\ WF_vars(Exit(d)) /\ WF_vars(ExitRemove(d))
                     /\ WF_vars(GracePasses(d) /\ UNCHANGED faults)
                     /\ WF_vars(StrangerEnds(d))
  /\ WF_vars(PidFileAges /\ UNCHANGED faults) /\ WF_vars(HeartAges /\ UNCHANGED faults)
  /\ WF_vars(NoteAges) /\ WF_vars(MarkerAges /\ UNCHANGED faults)

FairSpec == Spec /\ Fairness

\* Edits go on too.
BusySpec == FairSpec /\ \A l \in Launchers : WF_vars(Ensure(l))

-----------------------------------------------------------------------------
Steps == {"idle", "read", "judge", "again", "stopread", "stopjudge", "kill",
          "stopcheck", "stoprm", "spawn", "create", "fill", "unnote", "lock",
          "stamp", "discard"} \cup Section

Process ==
  [st : {"dead", "other", "boot", "run", "term", "leave", "exit"}, owned : BOOLEAN,
   late : BOOLEAN, idle : BOOLEAN, absent : {"no", "yes", "long"}]

PidFile == [pid : Pids, written : BOOLEAN, young : BOOLEAN]
Heartbeat == [pid : Pids, fresh : BOOLEAN]
Note == [pids : SUBSET Pids, young : BOOLEAN]

Call ==
  [pc : Steps, cmd : {"ensure", "start", "stop"},
   saw : Pids \cup {Null}, child : Pids \cup {Null}]

\* Every variable holds a value of its type.
TypeOK ==
  /\ proc \in [Pids -> Process]
  /\ pidfile \in PidFile \cup {Null}
  /\ heart \in Heartbeat \cup {Null}
  /\ note \in Note \cup {Null}
  /\ reclaim \in Launchers \cup {Null}
  /\ checked \in BOOLEAN /\ stamped \in BOOLEAN /\ pending \in BOOLEAN
  /\ hook \in [Launchers -> Call]
  /\ faults \in 0..MaxFaults

\* worker_lifecycle.ts:208: "the pid is ended only when its command line is this
\* install's `--worker-daemon`".  No step but its own end ends a stranger that
\* has been given a daemon's pid.
StrangersSpared ==
  [][\A p \in Pids : proc[p].st = "other" => proc'[p].st = "other" \/ StrangerEnds(p)]_vars

\* worker.ts:975 says that the exit handler "can never clobber the *current*
\* owner's pid file on its own delayed exit".
ExitSparesOwner ==
  [][\A d \in Pids : ExitRemove(d) => pidfile = Null \/ pidfile.pid = d]_vars

\* What a claimer removes is the pid file it judged: worker_lifecycle.ts:318, a
\* losing writer never silently clobbers the winner's entry.
NoClobber ==
  [][\A l \in Launchers : At(l, "rm") /\ hook'[l].pc = "recreate" =>
       pidfile = Null \/ Read = hook[l].saw]_vars

\* worker_lifecycle.ts:267: a stop removes the pid file "when it still names the
\* pid we just killed -- never unconditionally".
StopSparesReplacement ==
  [][\A l \in Launchers : At(l, "stoprm") /\ hook'[l].pc \in {"again", "idle"}
       /\ pidfile' # pidfile /\ reclaim' = reclaim /\ faults' = faults
       => Read = hook[l].saw]_vars

\* A daemon nobody's pid file names goes, or gets the slot: none is stranded.
StraysLeave ==
  \A d \in Pids : (Worker(d) /\ Read # d) ~> (~Worker(d) \/ Read = d)

\* What is queued is drained, although daemons crash, stall, are stopped,
\* replaced, displaced or leave for idleness, as long as edits go on.
QueuedIsDrained == pending ~> ~pending

\* In the end one daemon is left, or the last one's exit.
OneDaemonAtLast == <>[](\A d, e \in Pids : Worker(d) /\ Worker(e) => d = e)

\* worker.ts:967 says of an idle exit that "the next enqueue's ensureWorkerAlive
\* starts a fresh daemon": once the last daemon has left for idleness, that call is
\* not cut short by a recent health check.
NextEnqueueStarts ==
  /\ \E d \in Pids : proc[d].st = "dead" /\ proc[d].idle
  /\ \A d \in Pids : ~Worker(d)
  /\ \A l \in Launchers : At(l, "idle")
  => ~checked

=============================================================================
