------------------------------ MODULE FileLock ------------------------------
(***************************************************************************)
(* withFileLock (src/src/util.ts): mutual exclusion between processes by    *)
(* the exclusive creation of a lock file, with the theft of a lock whose    *)
(* holder died.  Each step below is one system call, because another        *)
(* process can run between any two of them.                                 *)
(*                                                                         *)
(* Time is in the file ages only: a lock is fresh, then stale (older than   *)
(* staleMs), then ancient (older than LOCK_LIVE_HOLDER_MAX_MS).             *)
(***************************************************************************)
EXTENDS Naturals

CONSTANTS
  Procs,        \* the processes that use the lock; each name is a pid
  Null,         \* "no file"
  Mishaps,      \* which of the three mishaps below the run allows
  Undeletable,  \* whether unlinking the lock file is refused
  MaxFaults     \* bound: deaths and failed calls

\* "token": a process is preempted between creating the lock file and writing
\* its token.  "steal": a process dies while it steals.  "hold": a live process
\* keeps the lock past LOCK_LIVE_HOLDER_MAX_MS, or the guard past staleMs.
AllMishaps == {"token", "steal", "hold"}

ASSUME ConstantsAssumption ==
  /\ Null \notin Procs
  /\ \A p \in Procs, t \in BOOLEAN, a \in {"fresh", "stale", "ancient"} :
       Null # [owner |-> p, token |-> t, age |-> a]
  /\ \A p \in Procs, s \in BOOLEAN : Null # [owner |-> p, stale |-> s]
  /\ Mishaps \subseteq AllMishaps /\ Undeletable \in BOOLEAN
  /\ MaxFaults \in Nat

VARIABLES
  pc,      \* pc[p]: the system call p is about to make
  lock,    \* the lock file: who created it, whether its token is written, its age
  guard,   \* the `.steal` guard file
  answer,  \* answer[p]: what p's last call of withFileLock returned
  faults

vars == <<pc, lock, guard, answer, faults>>

Fresh(p, written) == [owner |-> p, token |-> written, age |-> "fresh"]

Goes(p, to) == pc' = [pc EXCEPT ![p] = to]
Returns(p, what) == answer' = [answer EXCEPT ![p] = what]
Spend == faults < MaxFaults /\ faults' = faults + 1

Init ==
  /\ pc = [p \in Procs |-> "idle"]
  /\ lock = Null /\ guard = Null
  /\ answer = [p \in Procs |-> "none"]
  /\ faults = 0

-----------------------------------------------------------------------------
(***************************************************************************)
(* Taking the lock.                                                         *)
(***************************************************************************)

Begin(p) ==
  /\ pc[p] = "idle"
  /\ Goes(p, "create") /\ Returns(p, "none")
  /\ UNCHANGED <<lock, guard, faults>>

\* writeFileSync(lockPath, token, {flag: 'wx'}) opens the file, exclusively,
\* and then writes the token.
Create(p) ==
  /\ pc[p] = "create"
  /\ \/ /\ lock = Null
        /\ \/ lock' = Fresh(p, TRUE) /\ Goes(p, "fn")
           \/ "token" \in Mishaps /\ lock' = Fresh(p, FALSE) /\ Goes(p, "write")
     \/ lock # Null /\ Goes(p, "stat") /\ UNCHANGED lock
  /\ UNCHANGED <<guard, answer, faults>>

\* The bytes go to the file p opened, which may no longer have a name.
WriteToken(p) ==
  /\ pc[p] = "write"
  /\ Goes(p, "fn")
  /\ IF lock # Null /\ lock.owner = p /\ ~lock.token
       THEN lock' = Fresh(p, TRUE)
       ELSE UNCHANGED lock
  /\ UNCHANGED <<guard, answer, faults>>

\* The create fails for another reason than EEXIST: the directory is missing,
\* or the disk is full and the file stays behind without a token.
CannotLock(p) ==
  /\ pc[p] = "create"
  /\ Spend
  /\ \/ UNCHANGED lock
     \/ lock = Null /\ lock' = Fresh(p, FALSE)
  /\ Goes(p, "idle") /\ Returns(p, "unlockable")
  /\ UNCHANGED guard

\* Mutant of HolderAlive: a stale lock is abandoned whoever holds it.
NobodyAlive(me) == FALSE

\* lockHolderAlive: the token names a running process that is not the asker.
\* A process that reuses a dead holder's pid passes for it.
HolderAlive(me) ==
  lock.token /\ lock.owner # me /\ pc[lock.owner] # "dead"

\* lockAbandoned, in two calls: the age is read first, and, when it is stale
\* but not ancient, the token, of whatever file is there by then.
Stat(p) ==
  /\ pc[p] = "stat"
  /\ \/ lock = Null /\ Goes(p, "create")
     \/ lock # Null /\ lock.age = "fresh" /\ Goes(p, "wait")
     \/ lock # Null /\ lock.age = "stale" /\ Goes(p, "read")
     \/ lock # Null /\ lock.age = "ancient" /\ Goes(p, "steal")
  /\ UNCHANGED <<lock, guard, answer, faults>>

ReadToken(p) ==
  /\ pc[p] = "read"
  /\ \/ lock = Null /\ Goes(p, "create")
     \/ lock # Null /\ HolderAlive(p) /\ Goes(p, "wait")
     \/ lock # Null /\ ~HolderAlive(p) /\ Goes(p, "steal")
  /\ UNCHANGED <<lock, guard, answer, faults>>

\* The deadline has passed, or the process sleeps and tries again.
Retry(p) ==
  /\ pc[p] = "wait"
  /\ Goes(p, "create")
  /\ UNCHANGED <<lock, guard, answer, faults>>

GiveUp(p) ==
  /\ pc[p] = "wait"
  /\ Goes(p, "idle") /\ Returns(p, "contended")
  /\ UNCHANGED <<lock, guard, faults>>

-----------------------------------------------------------------------------
(***************************************************************************)
(* stealAbandoned: the lock is judged again under the guard file.           *)
(***************************************************************************)

\* Mutant of TakeGuard: an existing guard file does not stop the steal.
TakeGuardAnyway(p) ==
  /\ pc[p] = "steal"
  /\ guard' = [owner |-> p, stale |-> FALSE]
  /\ Goes(p, "restat")
  /\ UNCHANGED <<lock, answer, faults>>

TakeGuard(p) ==
  /\ pc[p] = "steal"
  /\ \/ /\ guard = Null
        /\ guard' = [owner |-> p, stale |-> FALSE]
        /\ Goes(p, "restat")
     \/ guard # Null /\ Goes(p, "guardstat") /\ UNCHANGED guard
  /\ UNCHANGED <<lock, answer, faults>>

\* Mutant of StatGuard: a guard is waited for however old it is.
StatGuardPatient(p) ==
  /\ pc[p] = "guardstat"
  /\ Goes(p, "wait")
  /\ UNCHANGED <<lock, guard, answer, faults>>

StatGuard(p) ==
  /\ pc[p] = "guardstat"
  /\ IF guard # Null /\ guard.stale THEN Goes(p, "guardrm") ELSE Goes(p, "wait")
  /\ UNCHANGED <<lock, guard, answer, faults>>

RemoveGuard(p) ==
  /\ pc[p] = "guardrm"
  /\ guard' = Null
  /\ Goes(p, "wait")
  /\ UNCHANGED <<lock, answer, faults>>

\* Mutant of Restat: the verdict reached before the guard is not checked again.
RestatTrusting(p) ==
  /\ pc[p] = "restat"
  /\ Goes(p, "unlink")
  /\ UNCHANGED <<lock, guard, answer, faults>>

Restat(p) ==
  /\ pc[p] = "restat"
  /\ \/ lock = Null /\ Goes(p, "unguard")
     \/ lock # Null /\ lock.age = "fresh" /\ Goes(p, "unguard")
     \/ lock # Null /\ lock.age = "stale" /\ Goes(p, "reread")
     \/ lock # Null /\ lock.age = "ancient" /\ Goes(p, "unlink")
  /\ UNCHANGED <<lock, guard, answer, faults>>

Reread(p) ==
  /\ pc[p] = "reread"
  /\ IF lock = Null \/ HolderAlive(p) THEN Goes(p, "unguard") ELSE Goes(p, "unlink")
  /\ UNCHANGED <<lock, guard, answer, faults>>

\* A refused unlink is swallowed like one that finds the file gone.
Unlink(p) ==
  /\ pc[p] = "unlink"
  /\ IF Undeletable THEN UNCHANGED lock ELSE lock' = Null
  /\ Goes(p, "unguard")
  /\ UNCHANGED <<guard, answer, faults>>

\* The guard is removed whoever owns it by now, and the create is retried
\* without a look at the deadline.
DropGuard(p) ==
  /\ pc[p] = "unguard"
  /\ guard' = Null
  /\ Goes(p, "create")
  /\ UNCHANGED <<lock, answer, faults>>

-----------------------------------------------------------------------------
(***************************************************************************)
(* The critical section, its end, and what happens around it.               *)
(***************************************************************************)

\* fn returns or throws; the lock is released only if it carries p's token.
Finish(p) ==
  /\ pc[p] = "fn"
  /\ IF lock # Null /\ lock.owner = p /\ lock.token
       THEN Goes(p, "release") ELSE Goes(p, "idle")
  /\ Returns(p, "ran")
  /\ UNCHANGED <<lock, guard, faults>>

Release(p) ==
  /\ pc[p] = "release"
  /\ lock' = Null
  /\ Goes(p, "idle")
  /\ UNCHANGED <<guard, answer, faults>>

Stealing == {"restat", "reread", "unlink", "unguard"}

Die(p) ==
  /\ pc[p] # "dead"
  /\ "steal" \in Mishaps \/ pc[p] \notin Stealing
  /\ Spend
  /\ Goes(p, "dead")
  /\ UNCHANGED <<lock, guard, answer>>

\* Another process is given the dead one's pid.
ReusePid(p) ==
  /\ pc[p] = "dead"
  /\ Goes(p, "idle")
  /\ UNCHANGED <<lock, guard, answer, faults>>

\* p runs its section, or is about to, on the strength of the lock file there.
Holds(p) ==
  lock # Null /\ lock.owner = p /\ pc[p] \in {"write", "fn", "release"}

Orphan == lock # Null /\ ~Holds(lock.owner)

LockAges ==
  /\ lock # Null
  /\ \/ /\ lock.age = "fresh" /\ pc[lock.owner] # "write"
        /\ lock' = [lock EXCEPT !.age = "stale"]
     \/ /\ lock.age = "stale"
        /\ Orphan \/ "hold" \in Mishaps
        /\ lock' = [lock EXCEPT !.age = "ancient"]
  /\ UNCHANGED <<pc, guard, answer, faults>>

GuardAges ==
  /\ guard # Null /\ ~guard.stale
  /\ pc[guard.owner] \notin Stealing \/ "hold" \in Mishaps
  /\ guard' = [guard EXCEPT !.stale = TRUE]
  /\ UNCHANGED <<pc, lock, answer, faults>>

Step(p) ==
  \/ Begin(p) \/ Create(p) \/ WriteToken(p) \/ Stat(p) \/ ReadToken(p)
  \/ Retry(p) \/ GiveUp(p) \/ TakeGuard(p) \/ StatGuard(p) \/ RemoveGuard(p)
  \/ Restat(p) \/ Reread(p) \/ Unlink(p) \/ DropGuard(p)
  \/ Finish(p) \/ Release(p)

Next ==
  \/ \E p \in Procs : Step(p) \/ CannotLock(p) \/ Die(p) \/ ReusePid(p)
  \/ LockAges \/ GuardAges

Spec == Init /\ [][Next]_vars

\* A live process keeps running and files keep ageing.
Fairness ==
  /\ \A p \in Procs : WF_vars(Step(p))
  /\ WF_vars(LockAges) /\ WF_vars(GuardAges)

FairSpec == Spec /\ Fairness

-----------------------------------------------------------------------------
Pcs == {"idle", "create", "write", "fn", "release", "stat", "read", "wait",
        "steal", "guardstat", "guardrm", "dead"} \cup Stealing

LockFile == [owner : Procs, token : BOOLEAN, age : {"fresh", "stale", "ancient"}]
GuardFile == [owner : Procs, stale : BOOLEAN]

\* Every variable holds a value of its type.
TypeOK ==
  /\ pc \in [Procs -> Pcs]
  /\ lock \in LockFile \cup {Null}
  /\ guard \in GuardFile \cup {Null}
  /\ answer \in [Procs -> {"none", "ran", "contended", "unlockable"}]
  /\ faults \in 0..MaxFaults

\* The critical section never runs in two processes at once: not when a waiter
\* judges a lock abandoned while it changes hands, not when two waiters do.
MutualExclusion ==
  \A p, q \in Procs : pc[p] = "fn" /\ pc[q] = "fn" => p = q

\* util.ts:500: an abandoned lock is removed by "one waiter at a time".
OneStealer ==
  \A p, q \in Procs : pc[p] \in Stealing /\ pc[q] \in Stealing => p = q

\* A process in its section, or leaving it, finds its own lock file there, with
\* its token in it.
HoldersKeepTheFile ==
  \A p \in Procs :
    /\ pc[p] # "write"
    /\ pc[p] \in {"fn", "release"} => Holds(p) /\ lock.token

\* A waiter that is about to unlink the lock is not unlinking a live holder's,
\* and no holder's lock becomes ancient.
VerdictStands ==
  \A p \in Procs : /\ pc[p] = "unlink" => Orphan
                   /\ Holds(p) => lock.age # "ancient"

\* The guard is in the hands of the only process that steals.
GuardIsHeld ==
  /\ guard # Null => ~guard.stale /\ pc[guard.owner] \in Stealing
  /\ \A p \in Procs : /\ pc[p] # "guardrm"
                      /\ pc[p] \in Stealing => guard # Null /\ guard.owner = p

\* A call that is under way has no answer yet.
Unanswered ==
  \A p \in Procs : pc[p] \notin {"idle", "release", "dead"} => answer[p] = "none"

\* Without mishaps, whoever is in the section, or is about to unlink the lock, or
\* has the guard, is entitled to it by what is on disk.
IInv ==
  TypeOK /\ HoldersKeepTheFile /\ VerdictStands /\ GuardIsHeld /\ Unanswered

\* A lock whose holder died does not wedge the section: while processes go on
\* asking for it, it is removed, even when one of them dies while it steals.
OrphanCleared == Orphan ~> ~Orphan

\* util.ts:464: the wait budget means that withFileLock "never hangs the caller
\* indefinitely", behind a lock nobody holds least of all.
NeverHangsBehindOrphan ==
  \A p \in Procs : []<>(~Orphan \/ pc[p] \in {"idle", "dead"})

-----------------------------------------------------------------------------
\* The critical section as callers see it.
InSection ==
  IF \E p \in Procs : pc[p] = "fn" THEN CHOOSE p \in Procs : pc[p] = "fn" ELSE Null

Section == INSTANCE Mutex WITH section <- InSection

\* The lock file implements the critical section its callers build on.
ImplementsMutex == Section!Spec

=============================================================================
