--------------------------- MODULE FileLockProofs ---------------------------
(***************************************************************************)
(* Proofs about FileLock, for any number of processes, deaths and failed    *)
(* calls: without the three mishaps the section is exclusive, and the lock  *)
(* file implements the abstract Mutex.                                      *)
(***************************************************************************)
EXTENDS FileLock, TLAPS

\* The run on which the section is exclusive: nobody is preempted before its
\* token is written, nobody dies stealing, nobody outlasts the limits.
NoMishaps == Mishaps = {}

\* A lock file that exists is a record, whose fields are of their types.
LEMMA FreshIsAFile ==
  ASSUME NEW p \in Procs, NEW t \in BOOLEAN
  PROVE  /\ Fresh(p, t) \in LockFile /\ Fresh(p, t) # Null
         /\ Fresh(p, t).owner = p /\ Fresh(p, t).token = t
         /\ Fresh(p, t).age = "fresh"
  BY ConstantsAssumption DEF Fresh, LockFile

\* Ageing changes a lock file's age and nothing else.
LEMMA AgedIsAFile ==
  ASSUME NEW f \in LockFile, NEW a \in {"stale", "ancient"}
  PROVE  /\ [f EXCEPT !.age = a] \in LockFile /\ [f EXCEPT !.age = a] # Null
         /\ [f EXCEPT !.age = a].owner = f.owner
         /\ [f EXCEPT !.age = a].token = f.token
         /\ [f EXCEPT !.age = a].age = a
<1>1. [f EXCEPT !.age = a] = [owner |-> f.owner, token |-> f.token, age |-> a]
  BY DEF LockFile
<1>2. f.owner \in Procs /\ f.token \in BOOLEAN
  BY DEF LockFile
<1> QED
  BY <1>1, <1>2, ConstantsAssumption DEF LockFile

\* A guard file is a record too, new or aged.
LEMMA GuardIsAFile ==
  ASSUME NEW p \in Procs, NEW s \in BOOLEAN
  PROVE  /\ [owner |-> p, stale |-> s] \in GuardFile
         /\ [owner |-> p, stale |-> s] # Null
  BY ConstantsAssumption DEF GuardFile

-----------------------------------------------------------------------------
\* No step leaves a value outside its type.
LEMMA TypeStep == TypeOK /\ [Next]_vars => TypeOK'
<1> SUFFICES ASSUME TypeOK, [Next]_vars PROVE TypeOK'
  OBVIOUS
<1> USE DEF Returns
<1>1. ASSUME NEW p \in Procs, Step(p) \/ CannotLock(p) \/ Die(p) \/ ReusePid(p)
      PROVE  pc' \in [Procs -> Pcs]
<2>1. \E to \in Pcs : Goes(p, to)
  BY <1>1 DEF Pcs, Stealing, Step, Begin, Create, WriteToken, Stat,
     ReadToken, Retry, GiveUp, TakeGuard, StatGuard, RemoveGuard, Restat,
     Reread, Unlink, DropGuard, Finish, Release, CannotLock, Die, ReusePid
<2> QED
  BY <2>1 DEF TypeOK, Goes
<1>2. ASSUME NEW p \in Procs, Step(p) \/ CannotLock(p) \/ Die(p) \/ ReusePid(p)
      PROVE  lock' \in LockFile \cup {Null}
  BY <1>2, FreshIsAFile DEF TypeOK, Step, Begin, Create, WriteToken, Stat,
     ReadToken, Retry, GiveUp, TakeGuard, StatGuard, RemoveGuard, Restat,
     Reread, Unlink, DropGuard, Finish, Release, CannotLock, Die, ReusePid
<1>3. ASSUME NEW p \in Procs, Step(p) \/ CannotLock(p) \/ Die(p) \/ ReusePid(p)
      PROVE  guard' \in GuardFile \cup {Null}
  BY <1>3, GuardIsAFile DEF TypeOK, Step, Begin, Create, WriteToken, Stat,
     ReadToken, Retry, GiveUp, TakeGuard, StatGuard, RemoveGuard, Restat,
     Reread, Unlink, DropGuard, Finish, Release, CannotLock, Die, ReusePid
<1>4. ASSUME NEW p \in Procs, Step(p) \/ CannotLock(p) \/ Die(p) \/ ReusePid(p)
      PROVE  answer' \in [Procs -> {"none", "ran", "contended", "unlockable"}]
  BY <1>4 DEF TypeOK, Step, Begin, Create, WriteToken, Stat,
     ReadToken, Retry, GiveUp, TakeGuard, StatGuard, RemoveGuard, Restat,
     Reread, Unlink, DropGuard, Finish, Release, CannotLock, Die, ReusePid
<1>5. ASSUME NEW p \in Procs, Step(p) \/ CannotLock(p) \/ Die(p) \/ ReusePid(p)
      PROVE  faults' \in 0..MaxFaults
<2>1. CASE Spend
  BY <2>1, ConstantsAssumption DEF TypeOK, Spend
<2>2. CASE faults' = faults
  BY <2>2 DEF TypeOK
<2> QED
  BY <1>5, <2>1, <2>2 DEF Step, Begin, Create, WriteToken, Stat,
     ReadToken, Retry, GiveUp, TakeGuard, StatGuard, RemoveGuard, Restat,
     Reread, Unlink, DropGuard, Finish, Release, CannotLock, Die, ReusePid
<1>6. CASE LockAges
  BY <1>6, AgedIsAFile DEF TypeOK, LockAges
<1>7. CASE GuardAges
  BY <1>7 DEF TypeOK, GuardAges, GuardFile
<1>8. CASE UNCHANGED vars
  BY <1>8 DEF TypeOK, vars
<1> QED
  BY <1>1, <1>2, <1>3, <1>4, <1>5, <1>6, <1>7, <1>8 DEF TypeOK, Next

-----------------------------------------------------------------------------
(***************************************************************************)
(* The invariant.                                                           *)
(***************************************************************************)

Active == {"write", "fn", "release"}

\* A step of p that changes neither file, and neither starts nor ends p's time
\* in the section, keeps the invariant, given what it must know to reach
\* "unlink" and that it neither gains nor drops the guard.
LEMMA MoveKeepsIInv ==
  ASSUME IInv, TypeOK', Unanswered', NEW p \in Procs, NEW to \in Pcs,
         Goes(p, to), UNCHANGED <<lock, guard>>,
         pc[p] \notin Active, to \notin Active, to # "guardrm",
         to = "unlink" => Orphan,
         pc[p] \in Stealing <=> to \in Stealing
  PROVE  IInv'
<1>1. /\ pc'[p] = to
      /\ \A q \in Procs : q # p => pc'[q] = pc[q]
  BY DEF IInv, TypeOK, Goes
<1>2. \A q \in Procs : Holds(q)' <=> Holds(q)
  BY <1>1 DEF Holds, Active
<1>3. Orphan' <=> Orphan
  BY <1>2 DEF Orphan, IInv, TypeOK, LockFile
<1>4. HoldersKeepTheFile'
  BY <1>1, <1>2 DEF IInv, HoldersKeepTheFile, Active
<1>5. VerdictStands'
  BY <1>1, <1>2, <1>3 DEF IInv, VerdictStands
<1>6. GuardIsHeld'
  BY <1>1 DEF IInv, TypeOK, GuardFile, GuardIsHeld
<1> QED
  BY <1>4, <1>5, <1>6 DEF IInv

\* No call that is under way gets an answer, and every new one starts without.
LEMMA UnansweredStep ==
  ASSUME IInv, Next PROVE Unanswered'
<1>1. ASSUME NEW p \in Procs, Step(p) \/ CannotLock(p) \/ Die(p) \/ ReusePid(p)
      PROVE  Unanswered'
  <2>1. PICK to \in Pcs : Goes(p, to)
    BY <1>1 DEF Pcs, Stealing, Step, Begin, Create, WriteToken, Stat, ReadToken,
       Retry, GiveUp, TakeGuard, StatGuard, RemoveGuard, Restat, Reread, Unlink,
       DropGuard, Finish, Release, CannotLock, Die, ReusePid
  <2>2. pc'[p] = to /\ \A q \in Procs : q # p => pc'[q] = pc[q]
    BY <2>1 DEF IInv, TypeOK, Goes
  <2>3. \A q \in Procs : q # p => answer'[q] = answer[q]
    BY <1>1 DEF IInv, TypeOK, Returns, Step, Begin, Create, WriteToken, Stat,
       ReadToken, Retry, GiveUp, TakeGuard, StatGuard, RemoveGuard, Restat, Reread,
       Unlink, DropGuard, Finish, Release, CannotLock, Die, ReusePid
  <2>4. CASE answer' # answer
    <3>1. Begin(p) \/ to \in {"idle", "release"}
      BY <1>1, <2>1, <2>2, <2>4 DEF Goes, Returns, Step, Begin, Create, WriteToken,
         Stat, ReadToken, Retry, GiveUp, TakeGuard, StatGuard, RemoveGuard, Restat,
         Reread, Unlink, DropGuard, Finish, Release, CannotLock, Die, ReusePid, IInv,
         TypeOK
    <3> QED
      BY <2>2, <2>3, <3>1 DEF Begin, Returns, IInv, TypeOK, Unanswered
  <2>5. CASE answer' = answer
    <3>1. pc[p] \in {"idle", "release", "dead"} => to \in {"idle", "dead"} \/ Begin(p)
      BY <1>1, <2>2, <2>1 DEF Goes, Step, Begin, Create, WriteToken,
         Stat, ReadToken, Retry, GiveUp, TakeGuard, StatGuard, RemoveGuard, Restat,
         Reread, Unlink, DropGuard, Finish, Release, CannotLock, Die, ReusePid, IInv,
         TypeOK
    <3> QED
      BY <2>2, <2>3, <2>5, <3>1 DEF Begin, Returns, IInv, TypeOK, Unanswered
  <2> QED
    BY <2>4, <2>5
<1>2. CASE LockAges \/ GuardAges
  BY <1>2 DEF LockAges, GuardAges, IInv, Unanswered
<1> QED
  BY <1>1, <1>2 DEF Next

\* While a lock file has a holder it has no other; while it is gone, or is an
\* orphan, it has none.
LEMMA SoleHolder ==
  ASSUME IInv, NEW p \in Procs, pc[p] \in Active
  PROVE  /\ Holds(p) /\ lock # Null /\ lock.owner = p /\ ~Orphan
         /\ \A q \in Procs : q # p => pc[q] \notin Active
         /\ \A q \in Procs : pc[q] # "unlink"
<1>1. Holds(p)
  BY DEF IInv, HoldersKeepTheFile, Active
<1>2. lock # Null /\ lock.owner = p /\ ~Orphan
  BY <1>1 DEF Holds, Orphan
<1>3. ASSUME NEW q \in Procs, q # p PROVE pc[q] \notin Active
  BY <1>2, <1>3 DEF IInv, HoldersKeepTheFile, Active, Holds
<1> QED
  BY <1>1, <1>2, <1>3 DEF IInv, VerdictStands

\* Every step without mishaps keeps the invariant.
LEMMA IInvStep == NoMishaps /\ IInv /\ [Next]_vars => IInv'
<1> SUFFICES ASSUME NoMishaps, IInv, [Next]_vars PROVE IInv'
  OBVIOUS
<1>t. TypeOK'
  BY TypeStep DEF IInv
<1>u. CASE UNCHANGED vars
  BY <1>u DEF vars, IInv, TypeOK, HoldersKeepTheFile, VerdictStands, GuardIsHeld,
     Unanswered, Holds, Orphan
<1>a. CASE Next
  <2>n. Unanswered'
    BY <1>a, UnansweredStep
  <2>e. \A p \in Procs, to \in Pcs : Goes(p, to) =>
          /\ pc'[p] = to
          /\ \A q \in Procs : q # p => pc'[q] = pc[q]
    BY DEF IInv, TypeOK, Goes
  \* Steps that only look, decide or wait.
  <2>1. ASSUME NEW p \in Procs, Begin(p) \/ Stat(p) \/ ReadToken(p) \/ Retry(p)
               \/ GiveUp(p) \/ StatGuard(p) \/ ReusePid(p)
        PROVE  IInv'
    <3>1. UNCHANGED <<lock, guard>> /\ pc[p] \notin Active \cup Stealing
      BY <2>1 DEF Begin, Stat, ReadToken, Retry, GiveUp, StatGuard, ReusePid,
         Active, Stealing
    <3>2. PICK to \in {"create", "wait", "read", "steal", "idle"} : Goes(p, to)
      BY <2>1 DEF Begin, Stat, ReadToken, Retry, GiveUp, StatGuard, ReusePid,
         IInv, GuardIsHeld
    <3>3. to \in Pcs /\ to \notin Active \cup Stealing
             /\ to \notin {"unlink", "guardrm"}
      BY DEF Pcs, Active, Stealing
    <3> QED
      BY <1>t, <2>n, <3>1, <3>2, <3>3, MoveKeepsIInv
  <2>2. ASSUME NEW p \in Procs, Create(p) PROVE IInv'
    <3>1. CASE lock # Null
      <4>1. Goes(p, "stat") /\ UNCHANGED <<lock, guard>> /\ pc[p] = "create"
        BY <2>2, <3>1 DEF Create
      <4> QED
        BY <1>t, <2>n, <4>1, MoveKeepsIInv DEF Pcs, Active, Stealing
    <3>2. CASE lock = Null
      <4>1. /\ lock' = Fresh(p, TRUE) /\ Goes(p, "fn") /\ guard' = guard
            /\ pc[p] = "create"
        BY <2>2, <3>2 DEF Create, NoMishaps
      <4>2. /\ lock' # Null /\ lock'.owner = p /\ lock'.token
            /\ lock'.age = "fresh"
        BY <4>1, FreshIsAFile
      <4>3. pc'[p] = "fn" /\ \A q \in Procs : q # p => pc'[q] = pc[q]
        BY <4>1, <2>e DEF Pcs
      <4>4. \A q \in Procs : pc[q] \notin Active \cup {"unlink"}
        BY <3>2, SoleHolder DEF IInv, VerdictStands, Orphan
      <4>5. HoldersKeepTheFile'
        BY <4>2, <4>3, <4>4 DEF HoldersKeepTheFile, Holds, Active
      <4>6. VerdictStands'
        BY <4>2, <4>3, <4>4 DEF VerdictStands, Holds
      <4>7. GuardIsHeld'
        BY <4>1, <4>3 DEF IInv, TypeOK, GuardFile, GuardIsHeld, Stealing
      <4> QED
        BY <1>t, <2>n, <4>5, <4>6, <4>7 DEF IInv
    <3> QED
      BY <3>1, <3>2
  <2>3. ASSUME NEW p \in Procs, CannotLock(p) PROVE IInv'
    <3>1. Goes(p, "idle") /\ UNCHANGED guard /\ pc[p] = "create"
      BY <2>3 DEF CannotLock
    <3>2. CASE UNCHANGED lock
      BY <1>t, <2>n, <3>1, <3>2, MoveKeepsIInv DEF Pcs, Active, Stealing
    <3>3. CASE lock = Null /\ lock' = Fresh(p, FALSE)
      <4>1. lock' # Null /\ lock'.owner = p
        BY <3>3, FreshIsAFile
      <4>2. pc'[p] = "idle" /\ \A q \in Procs : q # p => pc'[q] = pc[q]
        BY <3>1, <2>e DEF Pcs
      <4>3. \A q \in Procs : pc[q] \notin Active \cup {"unlink"}
        BY <3>3, SoleHolder DEF IInv, VerdictStands, Orphan
      <4>4. HoldersKeepTheFile' /\ VerdictStands'
        BY <4>1, <4>2, <4>3 DEF HoldersKeepTheFile, VerdictStands, Holds, Active
      <4>5. GuardIsHeld'
        BY <3>1, <4>2 DEF IInv, TypeOK, GuardFile, GuardIsHeld, Stealing
      <4> QED
        BY <1>t, <2>n, <4>4, <4>5 DEF IInv
    <3> QED
      BY <2>3, <3>2, <3>3 DEF CannotLock
  <2>4. ASSUME NEW p \in Procs, WriteToken(p) \/ RemoveGuard(p) PROVE IInv'
    BY <2>4 DEF WriteToken, RemoveGuard, IInv, HoldersKeepTheFile, GuardIsHeld
  <2>5. ASSUME NEW p \in Procs, TakeGuard(p) PROVE IInv'
    <3>1. pc[p] = "steal" /\ UNCHANGED lock
      BY <2>5 DEF TakeGuard
    <3>2. CASE guard # Null
      <4>1. Goes(p, "guardstat") /\ UNCHANGED guard
        BY <2>5, <3>2 DEF TakeGuard
      <4> QED
        BY <1>t, <2>n, <3>1, <4>1, MoveKeepsIInv DEF Pcs, Active, Stealing
    <3>3. CASE guard = Null
      <4>1. guard' = [owner |-> p, stale |-> FALSE] /\ Goes(p, "restat")
        BY <2>5, <3>3 DEF TakeGuard
      <4>2. guard' # Null /\ guard'.owner = p /\ ~guard'.stale
        BY <4>1, GuardIsAFile
      <4>3. pc'[p] = "restat" /\ \A q \in Procs : q # p => pc'[q] = pc[q]
        BY <4>1, <2>e DEF Pcs, Stealing
      <4>4. \A q \in Procs : pc[q] \notin Stealing
        BY <3>3 DEF IInv, GuardIsHeld
      <4>5. \A q \in Procs : Holds(q)' <=> Holds(q)
        BY <3>1, <4>3 DEF Holds
      <4>6. HoldersKeepTheFile' /\ VerdictStands'
        BY <3>1, <4>3, <4>4, <4>5
        DEF IInv, HoldersKeepTheFile, VerdictStands, Stealing
      <4>7. GuardIsHeld'
        BY <4>2, <4>3, <4>4 DEF IInv, GuardIsHeld, Stealing
      <4> QED
        BY <1>t, <2>n, <4>6, <4>7 DEF IInv
    <3> QED
      BY <3>2, <3>3
  \* The verdict under the guard: only an orphan is condemned.
  <2>6. ASSUME NEW p \in Procs, Restat(p) \/ Reread(p) PROVE IInv'
    <3>1. UNCHANGED <<lock, guard>> /\ pc[p] \in {"restat", "reread"}
      BY <2>6 DEF Restat, Reread
    <3>2. PICK to \in {"unguard", "reread", "unlink"} : Goes(p, to)
      BY <2>6 DEF Restat, Reread
    <3>3. ASSUME to = "unlink" PROVE Orphan
      <4>1. pc'[p] = "unlink" /\ lock # Null
        BY <2>6, <3>2, <3>3, <2>e DEF Restat, Reread, Pcs, Stealing
      <4>2. lock.age = "ancient" \/ ~HolderAlive(p)
        BY <2>6, <4>1, <2>e DEF Restat, Reread, Pcs, Stealing
      <4>3. lock.owner \in Procs
        BY <4>1 DEF IInv, TypeOK, LockFile
      <4>4. ASSUME Holds(lock.owner) PROVE FALSE
        <5>1. lock.age # "ancient"
          BY <4>3, <4>4 DEF IInv, VerdictStands
        <5>2. pc[lock.owner] \in {"fn", "release"} /\ lock.token
          BY <4>3, <4>4 DEF IInv, HoldersKeepTheFile, Holds
        <5> QED
          BY <3>1, <4>2, <5>1, <5>2 DEF HolderAlive
      <4> QED
        BY <4>1, <4>4 DEF Orphan
    <3>4. /\ to \in Pcs /\ to \notin Active /\ to # "guardrm" /\ to \in Stealing
          /\ pc[p] \notin Active /\ pc[p] \in Stealing
      BY <3>1 DEF Pcs, Active, Stealing
    <3> QED
      BY <1>t, <2>n, <3>1, <3>2, <3>3, <3>4, MoveKeepsIInv
  <2>7. ASSUME NEW p \in Procs, Unlink(p) PROVE IInv'
    <3>1. /\ pc[p] = "unlink" /\ Goes(p, "unguard") /\ UNCHANGED guard
          /\ lock' = lock \/ lock' = Null
      BY <2>7 DEF Unlink
    <3>2. pc'[p] = "unguard" /\ \A q \in Procs : q # p => pc'[q] = pc[q]
      BY <3>1, <2>e DEF Pcs, Stealing
    <3>3. \A q \in Procs : pc[q] \notin Active
      BY <3>1, SoleHolder
    <3>4. \A q \in Procs : q # p => pc[q] \notin Stealing
      BY <3>1 DEF IInv, GuardIsHeld, Stealing
    <3>5. HoldersKeepTheFile' /\ VerdictStands'
      BY <3>2, <3>3, <3>4
      DEF HoldersKeepTheFile, VerdictStands, Holds, Active, Stealing
    <3>6. GuardIsHeld'
      BY <3>1, <3>2 DEF IInv, TypeOK, GuardFile, GuardIsHeld, Stealing
    <3> QED
      BY <1>t, <2>n, <3>5, <3>6 DEF IInv
  <2>8. ASSUME NEW p \in Procs, DropGuard(p) PROVE IInv'
    <3>1. pc[p] = "unguard" /\ Goes(p, "create") /\ UNCHANGED lock /\ guard' = Null
      BY <2>8 DEF DropGuard
    <3>2. pc'[p] = "create" /\ \A q \in Procs : q # p => pc'[q] = pc[q]
      BY <3>1, <2>e DEF Pcs
    <3>3. \A q \in Procs : q # p => pc[q] \notin Stealing
      BY <3>1 DEF IInv, GuardIsHeld, Stealing
    <3>4. \A q \in Procs : Holds(q)' <=> Holds(q)
      BY <3>1, <3>2 DEF Holds
    <3>5. HoldersKeepTheFile' /\ VerdictStands'
      BY <3>1, <3>2, <3>3, <3>4
      DEF IInv, HoldersKeepTheFile, VerdictStands, Stealing
    <3>6. GuardIsHeld'
      BY <3>1, <3>2, <3>3 DEF IInv, GuardIsHeld, Stealing
    <3> QED
      BY <1>t, <2>n, <3>5, <3>6 DEF IInv
  <2>9. ASSUME NEW p \in Procs, Finish(p) PROVE IInv'
    <3>1. pc[p] = "fn" /\ UNCHANGED <<lock, guard>>
      BY <2>9 DEF Finish
    <3>2. Holds(p) /\ lock.token /\ lock # Null /\ lock.owner = p
      BY <3>1, SoleHolder DEF IInv, HoldersKeepTheFile, Active
    <3>3. Goes(p, "release")
      BY <2>9, <3>2 DEF Finish
    <3>4. pc'[p] = "release" /\ \A q \in Procs : q # p => pc'[q] = pc[q]
      BY <3>3, <2>e DEF Pcs
    <3>5. \A q \in Procs : Holds(q)' <=> Holds(q)
      BY <3>1, <3>4 DEF Holds
    <3>6. HoldersKeepTheFile' /\ VerdictStands'
      BY <3>1, <3>2, <3>4, <3>5, SoleHolder
      DEF IInv, HoldersKeepTheFile, VerdictStands, Active
    <3>7. GuardIsHeld'
      BY <3>1, <3>4 DEF IInv, TypeOK, GuardFile, GuardIsHeld, Stealing
    <3> QED
      BY <1>t, <2>n, <3>6, <3>7 DEF IInv
  <2>10. ASSUME NEW p \in Procs, Release(p) PROVE IInv'
    <3>1. /\ pc[p] = "release" /\ lock' = Null /\ UNCHANGED guard
          /\ Goes(p, "idle")
      BY <2>10 DEF Release
    <3>2. pc'[p] = "idle" /\ \A q \in Procs : q # p => pc'[q] = pc[q]
      BY <3>1, <2>e DEF Pcs
    <3>3. \A q \in Procs : pc'[q] \notin Active \cup {"unlink"}
      BY <3>1, <3>2, SoleHolder DEF Active
    <3>4. HoldersKeepTheFile' /\ VerdictStands'
      BY <3>1, <3>3 DEF HoldersKeepTheFile, VerdictStands, Holds, Active
    <3>5. GuardIsHeld'
      BY <3>1, <3>2 DEF IInv, TypeOK, GuardFile, GuardIsHeld, Stealing
    <3> QED
      BY <1>t, <2>n, <3>4, <3>5 DEF IInv
  <2>11. ASSUME NEW p \in Procs, Die(p) PROVE IInv'
    <3>1. /\ UNCHANGED <<lock, guard>> /\ Goes(p, "dead")
          /\ pc[p] \notin Stealing
      BY <2>11 DEF Die, NoMishaps
    <3>2. pc'[p] = "dead" /\ \A q \in Procs : q # p => pc'[q] = pc[q]
      BY <3>1, <2>e DEF Pcs
    <3>3. \A q \in Procs : Holds(q)' <=> q # p /\ Holds(q)
      BY <3>1, <3>2 DEF Holds
    <3>4. Orphan => Orphan'
      BY <3>1, <3>3 DEF Orphan, IInv, TypeOK, LockFile
    <3>5. HoldersKeepTheFile' /\ VerdictStands'
      BY <3>1, <3>2, <3>3, <3>4 DEF IInv, HoldersKeepTheFile, VerdictStands
    <3>6. GuardIsHeld'
      BY <3>1, <3>2 DEF IInv, TypeOK, GuardFile, GuardIsHeld, Stealing
    <3> QED
      BY <1>t, <2>n, <3>5, <3>6 DEF IInv
  <2>12. CASE LockAges
    <3>1. /\ lock # Null /\ UNCHANGED <<pc, guard>>
          /\ lock' # Null /\ lock'.owner = lock.owner /\ lock'.token = lock.token
          /\ lock'.age = "stale" \/ Orphan
      BY <2>12, AgedIsAFile DEF LockAges, IInv, TypeOK, NoMishaps
    <3>2. \A q \in Procs : Holds(q)' <=> Holds(q)
      BY <3>1 DEF Holds
    <3>3. Orphan' <=> Orphan
      BY <3>1, <3>2 DEF Orphan, IInv, TypeOK, LockFile
    <3>4. Orphan => \A q \in Procs : ~Holds(q)
      BY DEF Orphan, Holds
    <3>5. HoldersKeepTheFile' /\ VerdictStands'
      BY <3>1, <3>2, <3>3, <3>4 DEF IInv, HoldersKeepTheFile, VerdictStands
    <3>6. GuardIsHeld'
      BY <3>1 DEF IInv, GuardIsHeld
    <3> QED
      BY <1>t, <2>n, <3>5, <3>6 DEF IInv
  <2>13. CASE GuardAges
    BY <2>13 DEF GuardAges, IInv, GuardIsHeld, NoMishaps
  <2> QED
    BY <1>a, <2>1, <2>2, <2>3, <2>4, <2>5, <2>6, <2>7, <2>8, <2>9, <2>10, <2>11,
       <2>12, <2>13 DEF Next, Step
<1> QED
  BY <1>u, <1>a

\* Without mishaps, whoever is in the section, is about to unlink the lock or
\* has the guard is entitled to it by what is on disk.
THEOREM LockStateCorrect ==
  ASSUME NoMishaps PROVE Spec => []IInv
<1>1. Init => IInv
  BY ConstantsAssumption
  DEF Init, IInv, TypeOK, Pcs, HoldersKeepTheFile, VerdictStands, GuardIsHeld,
      Unanswered, Holds, Stealing
<1> QED
  BY <1>1, IInvStep, PTL DEF Spec

\* The critical section of withFileLock is exclusive, whatever dies, is refused
\* or changes hands while waiters judge the lock, short of the three mishaps.
THEOREM SectionIsExclusive ==
  ASSUME NoMishaps PROVE Spec => []MutualExclusion
<1>1. IInv => MutualExclusion
  BY DEF IInv, HoldersKeepTheFile, MutualExclusion, Holds
<1> QED
  BY <1>1, LockStateCorrect, PTL

-----------------------------------------------------------------------------
(***************************************************************************)
(* The refinement: which process is in the section, seen from outside.      *)
(***************************************************************************)

\* The process that is in fn, for any assignment f of program counters.
InFn(f) ==
  IF \E p \in Procs : f[p] = "fn" THEN CHOOSE p \in Procs : f[p] = "fn" ELSE Null

\* When at most one process is in fn, InFn names it, or is Null.
LEMMA InFnIs ==
  ASSUME NEW f, \A p, q \in Procs : f[p] = "fn" /\ f[q] = "fn" => p = q
  PROVE  /\ \A p \in Procs : InFn(f) = p <=> f[p] = "fn"
         /\ InFn(f) = Null <=> \A p \in Procs : f[p] # "fn"
<1>1. CASE \E p \in Procs : f[p] = "fn"
  <2>1. InFn(f) \in Procs /\ f[InFn(f)] = "fn"
    BY <1>1 DEF InFn
  <2> QED
    BY <2>1, ConstantsAssumption
<1>2. CASE \A p \in Procs : f[p] # "fn"
  <2>1. InFn(f) = Null
    BY <1>2 DEF InFn
  <2> QED
    BY <1>2, <2>1, ConstantsAssumption
<1> QED
  BY <1>1, <1>2

\* The section of the abstract specification, before and after a step.
LEMMA SectionFacts ==
  ASSUME IInv, IInv'
  PROVE  /\ \A p \in Procs : InSection = p <=> pc[p] = "fn"
         /\ InSection = Null <=> \A p \in Procs : pc[p] # "fn"
         /\ \A p \in Procs : InSection' = p <=> pc'[p] = "fn"
         /\ InSection' = Null <=> \A p \in Procs : pc'[p] # "fn"
         /\ InSection \in Procs \cup {Null} /\ InSection' \in Procs \cup {Null}
<1>1. InSection = InFn(pc) /\ InSection' = InFn(pc')
  BY DEF InSection, InFn
<1>2. \A p, q \in Procs : pc[p] = "fn" /\ pc[q] = "fn" => p = q
  BY DEF IInv, HoldersKeepTheFile, Holds
<1>3. \A p, q \in Procs : pc'[p] = "fn" /\ pc'[q] = "fn" => p = q
  BY DEF IInv, HoldersKeepTheFile, Holds
<1>4. /\ \A p \in Procs : InFn(pc) = p <=> pc[p] = "fn"
      /\ InFn(pc) = Null <=> \A p \in Procs : pc[p] # "fn"
  BY <1>2, InFnIs
<1>5. /\ \A p \in Procs : InFn(pc') = p <=> pc'[p] = "fn"
      /\ InFn(pc') = Null <=> \A p \in Procs : pc'[p] # "fn"
  BY <1>3, InFnIs
<1>6. InFn(pc) \in Procs \cup {Null} /\ InFn(pc') \in Procs \cup {Null}
  BY DEF InFn
<1> QED
  BY <1>1, <1>4, <1>5, <1>6

\* A step that starts and ends no process's time in fn keeps the section.
LEMMA SectionStays ==
  ASSUME IInv, IInv', \A p \in Procs : pc[p] = "fn" <=> pc'[p] = "fn"
  PROVE  InSection' = InSection
  BY SectionFacts

\* Every step is a step of the abstract section, or invisible to it.
LEMMA StepImplements ==
  ASSUME NoMishaps, IInv, IInv', [Next]_vars
  PROVE  [Section!Next]_(Section!vars)
<1> USE DEF Section!vars
<1>e. \A p \in Procs, to \in Pcs : Goes(p, to) =>
        /\ pc'[p] = to
        /\ \A q \in Procs : q # p => pc'[q] = pc[q]
  BY DEF IInv, TypeOK, Goes
<1>1. ASSUME NEW p \in Procs, Begin(p) PROVE Section!Next
  <2>1. pc[p] = "idle" /\ pc'[p] = "create" /\ \A q \in Procs : q # p => pc'[q] = pc[q]
    BY <1>1, <1>e DEF Begin, Pcs
  <2>2. InSection' = InSection /\ InSection # p
    BY <2>1, SectionStays, SectionFacts
  <2> QED
    BY <1>1, <2>2 DEF Begin, Returns, Section!Next, Section!Call
<1>2. ASSUME NEW p \in Procs, Create(p), pc'[p] = "fn" PROVE Section!Next
  <2>0. ~Goes(p, "stat")
    BY <1>2, <1>e DEF Pcs
  <2>1. /\ pc[p] = "create" /\ lock = Null /\ Goes(p, "fn") /\ UNCHANGED answer
    BY <1>2, <2>0 DEF Create, NoMishaps
  <2>2. \A q \in Procs : pc[q] # "fn"
    BY <2>1 DEF IInv, HoldersKeepTheFile, Holds
  <2>3. InSection = Null /\ InSection' = p
    BY <1>2, <2>2, SectionFacts
  <2>4. answer[p] = "none"
    BY <2>1 DEF IInv, Unanswered
  <2> QED
    BY <2>1, <2>3, <2>4 DEF Section!Next, Section!Enter
<1>3. ASSUME NEW p \in Procs, Finish(p) PROVE Section!Next
  <2>1. PICK to \in {"release", "idle"} : Goes(p, to) /\ pc[p] = "fn"
    BY <1>3 DEF Finish
  <2>2. pc'[p] # "fn" /\ \A q \in Procs : q # p => pc'[q] = pc[q]
    BY <2>1, <1>e DEF Pcs
  <2>3. InSection = p /\ InSection' = Null
    BY <2>1, <2>2, SectionFacts
  <2> QED
    BY <1>3, <2>3 DEF Finish, Returns, Section!Next, Section!Leave
<1>4. ASSUME NEW p \in Procs, GiveUp(p) \/ CannotLock(p) PROVE Section!Next
  <2>1. /\ pc[p] \in {"wait", "create"} /\ Goes(p, "idle")
        /\ \E why \in {"contended", "unlockable"} : Returns(p, why)
    BY <1>4 DEF GiveUp, CannotLock
  <2>2. pc'[p] = "idle" /\ \A q \in Procs : q # p => pc'[q] = pc[q]
    BY <2>1, <1>e DEF Pcs
  <2>3. InSection' = InSection /\ InSection # p
    BY <2>1, <2>2, SectionStays, SectionFacts
  <2>4. answer[p] = "none"
    BY <2>1 DEF IInv, Unanswered
  <2> QED
    BY <2>1, <2>3, <2>4 DEF Returns, Section!Next, Section!Refuse
<1>5. ASSUME NEW p \in Procs, Die(p) PROVE [Section!Next]_(Section!vars)
  <2>1. /\ Goes(p, "dead") /\ UNCHANGED answer
        /\ pc'[p] = "dead" /\ \A q \in Procs : q # p => pc'[q] = pc[q]
    BY <1>5, <1>e DEF Die, Pcs
  <2>2. CASE pc[p] = "fn"
    <3>1. InSection = p /\ InSection' = Null
      BY <2>1, <2>2, SectionFacts
    <3> QED
      BY <2>1, <3>1 DEF Section!Next, Section!Die
  <2>3. CASE pc[p] # "fn"
    BY <2>1, <2>3, SectionStays
  <2> QED
    BY <2>2, <2>3
<1>6. ASSUME NEW p \in Procs,
             \/ Create(p) /\ pc'[p] # "fn"
             \/ Stat(p) \/ ReadToken(p) \/ Retry(p) \/ TakeGuard(p) \/ StatGuard(p)
             \/ RemoveGuard(p) \/ Restat(p) \/ Reread(p) \/ Unlink(p) \/ DropGuard(p)
             \/ Release(p) \/ ReusePid(p)
      PROVE  UNCHANGED Section!vars
  <2>1. UNCHANGED answer /\ pc[p] # "fn"
    BY <1>6 DEF Create, Stat, ReadToken, Retry, TakeGuard, StatGuard, RemoveGuard,
       Restat, Reread, Unlink, DropGuard, Release, ReusePid
  <2>2. PICK to \in Pcs \ {"fn"} : Goes(p, to)
    BY <1>6, <1>e DEF Create, Stat, ReadToken, Retry, TakeGuard, StatGuard,
       RemoveGuard, Restat, Reread, Unlink, DropGuard, Release, ReusePid, Pcs, Stealing
  <2>3. pc'[p] # "fn" /\ \A q \in Procs : q # p => pc'[q] = pc[q]
    BY <2>2, <1>e
  <2> QED
    BY <2>1, <2>3, SectionStays
<1>7. ASSUME NEW p \in Procs, WriteToken(p) PROVE FALSE
  BY <1>7 DEF WriteToken, IInv, HoldersKeepTheFile
<1>8. CASE LockAges \/ GuardAges \/ UNCHANGED vars
  <2>1. UNCHANGED <<pc, answer>>
    BY <1>8 DEF LockAges, GuardAges, vars
  <2> QED
    BY <2>1, SectionStays
<1> QED
  BY <1>1, <1>2, <1>3, <1>4, <1>5, <1>6, <1>7, <1>8 DEF Next, Step

\* The lock file, with its stale locks, guards and thefts, implements the
\* critical section its callers build on, short of the three mishaps.
THEOREM LockImplementsMutex ==
  ASSUME NoMishaps PROVE Spec => ImplementsMutex
<1>1. Init => Section!Init
  <2>1. ASSUME Init PROVE InSection = Null
    BY <2>1 DEF Init, InSection
  <2> QED
    BY <2>1 DEF Init, Section!Init
<1>2. IInv /\ IInv' /\ [Next]_vars => [Section!Next]_(Section!vars)
  BY StepImplements
<1> QED
  BY <1>1, <1>2, LockStateCorrect, PTL DEF Spec, ImplementsMutex, Section!Spec

=============================================================================
