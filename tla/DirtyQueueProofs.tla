-------------------------- MODULE DirtyQueueProofs --------------------------
(***************************************************************************)
(* Proofs about DirtyQueue, for any sets of files, hooks, inodes and names  *)
(* and any bounds: type correctness, the bookkeeping and the order of the   *)
(* versions of a daemon alone on the queue (IInv), and NoSilentLoss, which  *)
(* rests on them.                                                           *)
(***************************************************************************)
EXTENDS DirtyQueue, FiniteSetTheorems, TLAPS

-----------------------------------------------------------------------------
(***************************************************************************)
(* Type correctness.                                                        *)
(***************************************************************************)

\* The paths a queue file names are files.
LEMMA NamedTyped == \A i : Named(i) \in SUBSET Files
  BY DEF Named

\* Counting a set of paths once more keeps a bag of paths a bag of paths.
LEMMA WithLinesTyped ==
  ASSUME NEW bag \in Lines, NEW S
  PROVE  WithLines(bag, S) \in Lines
  BY DEF WithLines, Lines

\* An empty queue file is a bag of paths.
LEMMA NoLinesTyped == NoLines \in Lines
  BY DEF NoLines, Lines

\* A daemon starts, and begins its next cycle, in a state of its type.
LEMMA NewDaemonTyped ==
  ASSUME NEW pc \in {"down", "idle"}
  PROVE  NewDaemon(pc) \in DaemonState
<1>1. NewDaemon(pc) \in DaemonRecord
  BY NoLinesTyped, ConstantsAssumption DEF NewDaemon, DaemonRecord, DrainPcs, Names
<1> QED
  BY <1>1 DEF NewDaemon, DaemonState, DaemonRecord

\* The memory a daemon carries into its next cycle is of its type.
LEMMA NextCycleTyped ==
  ASSUME NEW d \in Daemons, TypeOK
  PROVE  NextCycle(d) \in DaemonState
<1>1. drain[d] \in DaemonState
  BY DEF TypeOK
<1>2. NewDaemon("idle") \in DaemonState
  BY NewDaemonTyped DEF DrainPcs
<1> QED
  BY <1>1, <1>2 DEF NextCycle, DaemonState, DaemonRecord

\* Spending part of the fault budget keeps it within its bound.
LEMMA SpendTyped ==
  ASSUME TypeOK, NEW k \in Nat, Spend(k)
  PROVE  faults' \in 0..MaxFaults
  BY ConstantsAssumption DEF TypeOK, Spend

\* Appending to a named queue file, created or not, keeps the directory and
\* the contents well typed, and leaves the name linked to an inode.
LEMMA AppendTyped ==
  ASSUME TypeOK, NEW n \in Names, NEW S \in SUBSET Files, AppendTo(n, S)
  PROVE  /\ dir' \in [Names -> Inodes \cup {Null}]
         /\ lines' \in [Inodes -> Lines]
         /\ dir'[n] \in Inodes
<1>1. CASE dir[n] # Null
  <2>1. /\ dir[n] \in Inodes /\ dir' = dir
        /\ lines' = [lines EXCEPT ![dir[n]] = WithLines(@, S)]
    BY <1>1 DEF AppendTo, TypeOK
  <2>2. WithLines(lines[dir[n]], S) \in Lines
    BY <2>1, WithLinesTyped DEF TypeOK
  <2> QED
    BY <2>1, <2>2 DEF TypeOK
<1>2. CASE dir[n] = Null
  <2>1. PICK i \in Inodes : /\ dir' = [dir EXCEPT ![n] = i]
                            /\ lines' = [lines EXCEPT ![i] = WithLines(NoLines, S)]
    BY <1>2 DEF AppendTo
  <2>2. WithLines(NoLines, S) \in Lines
    BY WithLinesTyped, NoLinesTyped
  <2> QED
    BY <2>1, <2>2 DEF TypeOK
<1> QED
  BY <1>1, <1>2

\* Deferring paths keeps every type.
LEMMA DeferTyped ==
  ASSUME TypeOK, NEW d \in Daemons, NEW S \in SUBSET Files, NEW cost \in {0, 1},
         Defer(d, S, cost)
  PROVE  /\ dir' \in [Names -> Inodes \cup {Null}]
         /\ lines' \in [Inodes -> Lines]
         /\ drain' \in [Daemons -> DaemonState]
         /\ faults' \in 0..MaxFaults
<1> DEFINE r == [drain[d] EXCEPT !.pc = "batch", !.doing = Null, !.got = 0,
                   !.batch = @ \ S, !.defer = @ \cup S]
<1>0. drain[d] \in DaemonState /\ 0 \in 0..MaxEdits
  BY ConstantsAssumption DEF TypeOK
<1>1. r \in DaemonState
  BY <1>0 DEF DaemonState, DaemonRecord, DrainPcs
<1>2. CASE Spend(cost + 1) /\ drain' = [drain EXCEPT ![d] = r] /\ UNCHANGED queue
  BY <1>1, <1>2, SpendTyped DEF TypeOK, queue
<1>3. ASSUME NEW n \in Alts, Spend(cost), AppendTo(n, S),
             drain' = [drain EXCEPT ![d] = [r EXCEPT !.side = n]]
      PROVE  /\ dir' \in [Names -> Inodes \cup {Null}]
             /\ lines' \in [Inodes -> Lines]
             /\ drain' \in [Daemons -> DaemonState]
             /\ faults' \in 0..MaxFaults
  <2>1. [r EXCEPT !.side = n] \in DaemonState
    BY <1>1 DEF DaemonState, DaemonRecord
  <2>2. n \in Names
    BY DEF Names
  <2> QED
    BY <1>3, <2>1, <2>2, AppendTyped, SpendTyped DEF TypeOK
<1> QED
  BY <1>2, <1>3 DEF Defer, Becomes

\* Charging a failed path to its retry streak keeps every type, deferred or not.
LEMMA RequeueTyped ==
  ASSUME TypeOK, NEW d \in Daemons, NEW f \in Files, NEW cost \in {0, 1},
         Requeue(d, f, cost)
  PROVE  TypeOK'
<1>1. retries' \in [Files -> 0..MaxRetries + 1]
  BY ConstantsAssumption DEF TypeOK, Requeue
<1>2. CASE Defer(d, {f}, cost)
  BY <1>1, <1>2, DeferTyped DEF TypeOK, Requeue
<1>3. CASE ~Defer(d, {f}, cost)
  <2> DEFINE r == [drain[d] EXCEPT !.pc = "batch", !.doing = Null, !.got = 0,
                     !.batch = @ \ {f}]
  <2>0. drain[d] \in DaemonState /\ 0 \in 0..MaxEdits
    BY ConstantsAssumption DEF TypeOK
  <2>1. r \in DaemonState
    BY <2>0 DEF DaemonState, DaemonRecord, DrainPcs
  <2>2. /\ Spend(cost) /\ drain' = [drain EXCEPT ![d] = r]
        /\ UNCHANGED <<dir, lines, disk, indexed, hook>>
    BY <1>3 DEF Requeue, queue, Becomes
  <2> QED
    BY <1>1, <2>1, <2>2, SpendTyped DEF TypeOK
<1> QED
  BY <1>2, <1>3

\* The hooks' steps keep every type.
LEMMA HookTyped ==
  ASSUME TypeOK, NEW h \in Hooks
  PROVE  (\E S \in SUBSET Files : EditFiles(h, S)) \/ HookStep(h) \/ HookFails(h)
         => TypeOK'
<1>1. /\ hook[h] \in HookState
      /\ hook[h].files \in SUBSET Files
      /\ HookIdle \in HookState
  BY ConstantsAssumption DEF TypeOK, HookState, HookIdle, HookPcs
<1>2. ASSUME NEW S \in SUBSET Files, EditFiles(h, S)
      PROVE  TypeOK'
  <2>1. disk' \in [Files -> 0..MaxEdits]
    BY <1>2, ConstantsAssumption DEF EditFiles, TypeOK
  <2>2. [HookIdle EXCEPT !.pc = "open", !.files = S] \in HookState
    BY <1>1 DEF HookState, HookPcs
  <2>3. hook' \in [Hooks -> HookState]
    BY <1>2, <2>2 DEF EditFiles, TypeOK
  <2> QED
    BY <1>2, <2>1, <2>3 DEF EditFiles, TypeOK
<1>3. CASE HookOpen(h)
  <2>1. /\ dir' \in [Names -> Inodes \cup {Null}]
        /\ lines' \in [Inodes -> Lines]
        /\ dir'["live"] \in Inodes
    BY <1>3, AppendTyped DEF HookOpen, Names
  <2> DEFINE t == hook[h].tries + 1
  <2>. t \in Nat
    BY <1>1 DEF HookState
  <2>. HIDE DEF t
  <2>2. [hook[h] EXCEPT !.pc = "write", !.fd = dir'["live"], !.tries = t]
          \in HookState
    BY <1>1, <2>1 DEF HookState, HookPcs
  <2>3. hook' \in [Hooks -> HookState]
    BY <1>3, <2>2 DEF HookOpen, TypeOK, t
  <2> QED
    BY <1>3, <2>1, <2>3 DEF HookOpen, TypeOK
<1>4. CASE HookWrite(h)
  <2>1. \A i \in Inodes : WithLines(lines[i], hook[h].files) \in Lines
    BY WithLinesTyped DEF TypeOK
  <2>2. lines' \in [Inodes -> Lines]
    BY <1>4, <2>1 DEF HookWrite, TypeOK
  <2>3. [hook[h] EXCEPT !.pc = "check"] \in HookState
    BY <1>1 DEF HookState, HookPcs
  <2>4. hook' \in [Hooks -> HookState]
    BY <1>4, <2>3 DEF HookWrite, TypeOK
  <2> QED
    BY <1>4, <2>2, <2>4 DEF HookWrite, TypeOK
<1>5. CASE HookCheck(h)
  <2>1. Cardinality(hook[h].files) \in Nat
    BY <1>1, ConstantsAssumption, FS_Subset, FS_CardinalityType
  <2> DEFINE done == [HookIdle EXCEPT !.reported = Cardinality(hook[h].files)]
             again == [hook[h] EXCEPT !.pc = "open", !.fd = Null]
             lost == [HookIdle EXCEPT !.pc = "lost", !.files = hook[h].files,
                                      !.reported = Cardinality(hook[h].files)]
  <2>2. done \in HookState /\ again \in HookState /\ lost \in HookState
    BY <1>1, <2>1 DEF HookState, HookPcs
  <2>3. \/ hook' = [hook EXCEPT ![h] = done]
        \/ hook' = [hook EXCEPT ![h] = again]
        \/ hook' = [hook EXCEPT ![h] = lost]
    BY <1>5 DEF HookCheck
  <2>4. hook' \in [Hooks -> HookState]
    BY <2>2, <2>3 DEF TypeOK
  <2> QED
    BY <1>5, <2>4 DEF HookCheck, TypeOK
<1>6. CASE HookFails(h)
  <2>1. [HookIdle EXCEPT !.pc = "lost", !.files = hook[h].files] \in HookState
    BY <1>1 DEF HookState, HookPcs
  <2>2. hook' \in [Hooks -> HookState]
    BY <1>6, <2>1 DEF HookFails, TypeOK
  <2> QED
    BY <1>6, <2>2, SpendTyped DEF HookFails, TypeOK
<1> QED
  BY <1>2, <1>3, <1>4, <1>5, <1>6 DEF HookStep

\* A daemon's memory that stays a DaemonState keeps the type of drain.
LEMMA BecomesTyped ==
  ASSUME TypeOK, NEW d \in Daemons, NEW r \in DaemonState, Becomes(d, r)
  PROVE  drain' \in [Daemons -> DaemonState]
  BY DEF TypeOK, Becomes

\* The daemon's steps outside processDirtyBatch's requeues keep every type.
LEMMA DrainTyped ==
  ASSUME TypeOK, NEW d \in Daemons
  PROVE  Start(d) \/ Retire(d) \/ Leave(d) \/ Crash(d) \/ DrainThrows(d)
         \/ DrainStep(d) => TypeOK'
<1> USE SpendTyped
<1> DEFINE r == drain[d]
<1>1. r \in DaemonState /\ r \in DaemonRecord /\ 0 \in 0..MaxEdits
  BY ConstantsAssumption DEF TypeOK, DaemonState, DaemonRecord
<1>2. /\ NextCycle(d) \in DaemonState
      /\ NewDaemon("idle") \in DaemonState
      /\ NewDaemon("down") \in DaemonState
  BY NextCycleTyped, NewDaemonTyped DEF DrainPcs
<1>3. ASSUME NEW q \in DaemonState, Becomes(d, q)
      PROVE  drain' \in [Daemons -> DaemonState]
  BY <1>3, BecomesTyped
<1>4. CASE Start(d) \/ Leave(d) \/ Crash(d) \/ DrainThrows(d)
  BY <1>2, <1>3, <1>4 DEF TypeOK, Start, Leave, Crash, DrainThrows
<1>5. CASE Retire(d)
  <2>1. [r EXCEPT !.retiring = TRUE] \in DaemonState
    BY <1>1 DEF DaemonState, DaemonRecord
  <2> QED
    BY <1>3, <1>5, <2>1 DEF TypeOK, Retire
<1>6. CASE BeginDrain(d)
  <2> DEFINE q == [n \in Names |-> IF n \in Recoverable THEN r.snap[n] ELSE Null]
  <2>1. /\ Recoverable \in SUBSET (Names \ {"live"})
        /\ q \in [Names -> (Inodes \X Lines) \cup {Null}]
    BY <1>1 DEF Recoverable, DaemonState, DaemonRecord
  <2>2. [r EXCEPT !.pc = "recover", !.todo = Recoverable, !.snap = q] \in DaemonState
    <3> HIDE DEF q
    <3>1. [r EXCEPT !.pc = "recover", !.todo = Recoverable, !.snap = q] \in DaemonRecord
      BY <1>1, <2>1 DEF DaemonRecord, DrainPcs
    <3> QED
      BY <1>1, <1>6, <3>1 DEF DaemonState, DaemonRecord, BeginDrain
  <2> QED
    BY <1>3, <1>6, <2>2 DEF TypeOK, BeginDrain
<1>7. CASE RecoverNext(d)
  <2>1. PICK n \in r.todo :
          /\ dir[n] # Null
          /\ Becomes(d, [r EXCEPT !.pc = "batch", !.stage = "a", !.cur = n,
                           !.seen = lines[dir[n]],
                           !.batch = IF Stamped(d, n) THEN {} ELSE Named(dir[n])])
    BY <1>7 DEF RecoverNext
  <2> DEFINE b == IF Stamped(d, n) THEN {} ELSE Named(dir[n])
  <2>2. /\ n \in Names \ {"live"} /\ lines[dir[n]] \in Lines
        /\ b \in SUBSET Files
    BY <1>1, <2>1, NamedTyped DEF TypeOK, DaemonState, DaemonRecord
  <2>3. [r EXCEPT !.pc = "batch", !.stage = "a", !.cur = n, !.seen = lines[dir[n]],
                  !.batch = b] \in DaemonState
    <3> HIDE DEF b
    <3>1. [r EXCEPT !.pc = "batch", !.stage = "a", !.cur = n, !.seen = lines[dir[n]],
                    !.batch = b] \in DaemonRecord
      BY <1>1, <2>2 DEF DaemonRecord, DrainPcs
    <3> QED
      BY <1>1, <1>7, <3>1 DEF DaemonState, DaemonRecord, RecoverNext
  <2> QED
    BY <1>3, <1>7, <2>1, <2>3 DEF TypeOK, RecoverNext
<1>8. CASE RecoverUnreadable(d)
  <2>1. PICK n \in r.todo :
          \/ /\ dir' = [dir EXCEPT ![n] = Null] /\ Spend(1)
             /\ Becomes(d, [r EXCEPT !.todo = @ \ {n}, !.snap[n] = Null])
          \/ Spend(2) /\ UNCHANGED dir /\ Becomes(d, [r EXCEPT !.todo = @ \ {n}])
          \/ UNCHANGED <<dir, faults>> /\ Becomes(d, [r EXCEPT !.todo = @ \ {n}])
    BY <1>8 DEF RecoverUnreadable
  <2>2. /\ [r EXCEPT !.todo = @ \ {n}] \in DaemonState
        /\ [r EXCEPT !.todo = @ \ {n}, !.snap[n] = Null] \in DaemonState
    BY <1>1 DEF DaemonState, DaemonRecord
  <2>3. drain' \in [Daemons -> DaemonState]
    BY <1>3, <2>1, <2>2
  <2>4. dir' \in [Names -> Inodes \cup {Null}] /\ faults' \in 0..MaxFaults
    BY <2>1 DEF TypeOK
  <2> QED
    BY <1>8, <2>3, <2>4 DEF TypeOK, RecoverUnreadable
<1>9. CASE HandBack(d)
  <2>1. [r EXCEPT !.batch = {}] \in DaemonState /\ r.batch \in SUBSET Files
    BY <1>1 DEF DaemonState, DaemonRecord
  <2>2. CASE Defer(d, r.batch, 1)
    BY <1>9, <2>1, <2>2, DeferTyped DEF TypeOK, HandBack
  <2>3. CASE ~Defer(d, r.batch, 1)
    BY <1>3, <1>9, <2>1, <2>3, AppendTyped DEF TypeOK, HandBack, Names
  <2> QED
    BY <2>2, <2>3
<1>10. CASE SkipBlocked(d)
  <2>1. \A f : [r EXCEPT !.batch = @ \ {f}] \in DaemonState
    BY <1>1 DEF DaemonState, DaemonRecord
  <2> QED
    BY <1>3, <1>10, <2>1 DEF TypeOK, SkipBlocked
<1>11. CASE Fingerprint(d)
  <2>1. PICK f \in r.batch :
          Becomes(d, [r EXCEPT !.pc = "index", !.doing = f, !.got = disk[f],
                               !.batch = @ \ {f}])
    BY <1>11 DEF Fingerprint
  <2>2. f \in Files /\ disk[f] \in 0..MaxEdits
    BY <1>1 DEF TypeOK, DaemonState, DaemonRecord
  <2>3. [r EXCEPT !.pc = "index", !.doing = f, !.got = disk[f], !.batch = @ \ {f}]
          \in DaemonState
    <3>1. [r EXCEPT !.pc = "index", !.doing = f, !.got = disk[f], !.batch = @ \ {f}]
            \in DaemonRecord
      BY <1>1, <2>2 DEF DaemonRecord, DrainPcs
    <3> QED
      BY <1>1, <2>2, <3>1, ConstantsAssumption DEF DaemonState, DaemonRecord
  <2> QED
    BY <1>3, <1>11, <2>1, <2>3 DEF TypeOK, Fingerprint
<1>12. CASE FingerprintFails(d)
  <2>1. PICK f \in r.batch : Requeue(d, f, 1)
    BY <1>12 DEF FingerprintFails
  <2> QED
    BY <1>1, <2>1, RequeueTyped DEF DaemonState, DaemonRecord
<1>13. CASE IndexPath(d)
  <2>1. /\ indexed' \in [Files -> 0..MaxEdits]
        /\ retries' \in [Files -> 0..MaxRetries + 1]
    BY <1>1, <1>13, ConstantsAssumption DEF TypeOK, IndexPath, DaemonState, DaemonRecord
  <2>2. [r EXCEPT !.pc = "batch", !.doing = Null, !.got = 0] \in DaemonState
    <3>1. [r EXCEPT !.pc = "batch", !.doing = Null, !.got = 0] \in DaemonRecord
      BY <1>1 DEF DaemonRecord, DrainPcs
    <3> QED
      BY <1>1, <3>1 DEF DaemonState, DaemonRecord
  <2> QED
    BY <1>3, <1>13, <2>1, <2>2 DEF TypeOK, IndexPath
<1>14. CASE IndexFails(d)
  <2>1. r.doing \in Files
    BY <1>1, <1>14 DEF DaemonState, DaemonRecord, IndexFails
  <2> QED
    BY <1>14, <2>1, RequeueTyped DEF IndexFails
<1>15. CASE ChooseClaim(d)
  <2>1. \A n \in Names \ {"live"} : [r EXCEPT !.pc = "claim", !.cur = n] \in DaemonState
    <3> TAKE n \in Names \ {"live"}
    <3>1. [r EXCEPT !.pc = "claim", !.cur = n] \in DaemonRecord
      BY <1>1 DEF DaemonRecord, DrainPcs
    <3> QED
      BY <1>1, <1>15, <3>1, ConstantsAssumption DEF DaemonState, DaemonRecord, ChooseClaim
  <2>2. [r EXCEPT !.pc = "requeue"] \in DaemonState
    BY <1>1, <1>15 DEF DaemonState, DaemonRecord, DrainPcs, ChooseClaim
  <2> QED
    BY <1>3, <1>15, <2>1, <2>2 DEF TypeOK, ChooseClaim
<1>16. CASE Claim(d)
  <2>1. /\ [r EXCEPT !.pc = "read"] \in DaemonState
        /\ [r EXCEPT !.pc = "requeue", !.cur = Null] \in DaemonState
    BY <1>1, <1>16 DEF DaemonState, DaemonRecord, DrainPcs, Claim
  <2>2. dir' \in [Names -> Inodes \cup {Null}] /\ faults' \in 0..MaxFaults
    BY <1>16 DEF TypeOK, Claim, Names
  <2> QED
    BY <1>3, <1>16, <2>1, <2>2 DEF TypeOK, Claim
<1>17. CASE ReadClaim(d)
  <2>1. [r EXCEPT !.pc = "requeue", !.cur = Null] \in DaemonState
    BY <1>1, <1>17 DEF DaemonState, DaemonRecord, DrainPcs, ReadClaim
  <2>2. r.cur \in Names
    BY <1>1, <1>17 DEF DaemonState, DaemonRecord, ReadClaim
  <2>3. ASSUME dir[r.cur] # Null
        PROVE  [r EXCEPT !.pc = "batch", !.stage = "b", !.seen = lines[dir[r.cur]],
                         !.batch = Named(dir[r.cur])] \in DaemonState
    <3>1. lines[dir[r.cur]] \in Lines /\ Named(dir[r.cur]) \in SUBSET Files
      BY <2>2, <2>3, NamedTyped DEF TypeOK
    <3>2. [r EXCEPT !.pc = "batch", !.stage = "b", !.seen = lines[dir[r.cur]],
                    !.batch = Named(dir[r.cur])] \in DaemonRecord
      BY <1>1, <3>1 DEF DaemonRecord, DrainPcs
    <3> QED
      BY <1>1, <1>17, <3>2 DEF DaemonState, DaemonRecord, ReadClaim
  <2>4. faults' \in 0..MaxFaults
    BY <1>17 DEF TypeOK, ReadClaim
  <2> QED
    BY <1>3, <1>17, <2>1, <2>3, <2>4 DEF TypeOK, ReadClaim
<1>18. CASE Recheck(d)
  <2>1. [r EXCEPT !.pc = "clear"] \in DaemonState
    BY <1>1, <1>18 DEF DaemonState, DaemonRecord, DrainPcs, Recheck
  <2>2. Extra(d) \in SUBSET Files
    BY NamedTyped DEF Extra
  <2>3. /\ dir' \in [Names -> Inodes \cup {Null}]
        /\ lines' \in [Inodes -> Lines]
        /\ faults' \in 0..MaxFaults
    BY <1>18, <2>2, AppendTyped DEF TypeOK, Recheck, queue, Names
  <2> QED
    BY <1>3, <1>18, <2>1, <2>3 DEF TypeOK, Recheck
<1>19. CASE Clear(d)
  <2> DEFINE n == r.cur
             done == [r EXCEPT !.pc = IF r.stage = "a" THEN "recover" ELSE "requeue",
                               !.todo = @ \ {n}, !.cur = Null, !.seen = NoLines]
             kept == IF r.stage = "a" THEN Null ELSE r.snap[n]
             left == <<dir[n], r.seen>>
  <2>1. done \in DaemonRecord /\ done.pc \in {"recover", "requeue"} /\ done.doing = Null
    <3>1. r.pc # "index" /\ r.doing = Null
      BY <1>1, <1>19 DEF DaemonState, Clear
    <3>2. (IF r.stage = "a" THEN "recover" ELSE "requeue") \in {"recover", "requeue"}
      OBVIOUS
    <3> DEFINE pc == IF r.stage = "a" THEN "recover" ELSE "requeue"
    <3> HIDE DEF pc
    <3>3. /\ done = [r EXCEPT !.pc = pc, !.todo = @ \ {n}, !.cur = Null, !.seen = NoLines]
          /\ pc \in {"recover", "requeue"}
      BY <3>2 DEF pc
    <3>4. done \in DaemonRecord
      BY <1>1, <3>3, NoLinesTyped DEF DaemonRecord, DrainPcs
    <3>5. done.pc = pc /\ done.doing = r.doing
      BY <1>1, <3>3 DEF DaemonRecord
    <3> QED
      BY <3>1, <3>3, <3>4, <3>5
  <2>2. [done EXCEPT !.snap[n] = kept] \in DaemonState
    <3>1. kept \in (Inodes \X Lines) \cup {Null} \/ n \notin Names
      BY <1>1 DEF DaemonRecord
    <3> HIDE DEF done, kept
    <3>2. [done EXCEPT !.snap[n] = kept] \in DaemonRecord
      BY <2>1, <3>1 DEF DaemonRecord
    <3> QED
      BY <2>1, <3>2 DEF DaemonState, DaemonRecord
  <2>3. ASSUME dir[n] # Null
        PROVE  [done EXCEPT !.snap[n] = left] \in DaemonState
    <3>1. n \in Names => left \in Inodes \X Lines
      BY <1>1, <2>3 DEF TypeOK, DaemonState, DaemonRecord
    <3> QED
      <4> HIDE DEF done, left
      <4>1. [done EXCEPT !.snap[n] = left] \in DaemonRecord
        BY <2>1, <3>1 DEF DaemonRecord
      <4> QED
        BY <2>1, <4>1 DEF DaemonState, DaemonRecord
  <2>4. /\ drain' \in [Daemons -> DaemonState]
        /\ dir' \in [Names -> Inodes \cup {Null}]
        /\ faults' \in 0..MaxFaults
    BY <1>3, <1>19, <2>2, <2>3 DEF TypeOK, Clear
  <2> QED
    BY <1>19, <2>4 DEF TypeOK, Clear
<1>20. CASE FlushDeferred(d)
  <2>1. r.pc = "requeue" /\ r.defer \in SUBSET Files
    BY <1>1, <1>20 DEF DaemonRecord, FlushDeferred
  <2>a. [r EXCEPT !.pc = "tidy", !.defer = {}] \in DaemonState
    <3>1. [r EXCEPT !.pc = "tidy", !.defer = {}] \in DaemonRecord
      BY <1>1 DEF DaemonRecord, DrainPcs
    <3> QED
      BY <1>1, <2>1, <3>1 DEF DaemonState, DaemonRecord
  <2>2. /\ dir' \in [Names -> Inodes \cup {Null}]
        /\ lines' \in [Inodes -> Lines]
        /\ faults' \in 0..MaxFaults
    BY <1>20, <2>1, AppendTyped DEF TypeOK, FlushDeferred, queue, Names
  <2> QED
    BY <1>2, <1>3, <1>20, <2>1, <2>a, <2>2 DEF TypeOK, FlushDeferred
<1>21. CASE RemoveSidecar(d)
  BY <1>2, <1>3, <1>21 DEF TypeOK, RemoveSidecar
<1> QED
  BY <1>4, <1>5, <1>6, <1>7, <1>8, <1>9, <1>10, <1>11, <1>12, <1>13, <1>14, <1>15,
     <1>16, <1>17, <1>18, <1>19, <1>20, <1>21
  DEF DrainStep, PathStep

\* The empty data directory the system starts from is of the types.
LEMMA InitTyped == Init => TypeOK
<1>1. NewDaemon("down") \in DaemonState /\ NoLines \in Lines
  BY NewDaemonTyped, NoLinesTyped
<1> QED
  BY <1>1, ConstantsAssumption
  DEF Init, TypeOK, HookState, HookIdle, HookPcs

\* No step leaves a value outside its type.
LEMMA TypeStep == TypeOK /\ [Next]_vars => TypeOK'
<1> SUFFICES ASSUME TypeOK, [Next]_vars
             PROVE  TypeOK'
  OBVIOUS
<1>1. CASE Next
  BY <1>1, HookTyped, DrainTyped DEF Next
<1>2. CASE UNCHANGED vars
  BY <1>2 DEF TypeOK, vars
<1> QED
  BY <1>1, <1>2

\* TypeOK holds in every state of every behaviour, with any number of daemons:
\* no append, claim, requeue or crash leaves a value outside its type.
THEOREM TypeCorrect == Spec => []TypeOK
<1>1. Init => TypeOK
  BY InitTyped
<1>2. TypeOK /\ [Next]_vars => TypeOK'
  BY TypeStep
<1> QED
  BY <1>1, <1>2, PTL DEF Spec

-----------------------------------------------------------------------------
(***************************************************************************)
(* The bookkeeping invariant of a daemon alone on the queue.                *)
(***************************************************************************)

\* The daemon that steps is the only one, so its new memory is all of drain'.
SoleDaemon == \A c, d \in Daemons : c = d

\* A daemon's memory is, after a step, the one the step gave it.
LEMMA BecomesIs ==
  ASSUME TypeOK, NEW d \in Daemons, NEW q, Becomes(d, q)
  PROVE  drain'[d] = q
  BY DEF TypeOK, Becomes

\* What an append to the queue file n does: every other name keeps its file and
\* that file its lines, no line of n or of a hook's descriptor disappears, and n
\* gains the paths S and no other.
LEMMA AppendFacts ==
  ASSUME TypeOK, OneNamePerInode, NEW n \in Names, NEW S \in SUBSET Files,
         AppendTo(n, S)
  PROVE  /\ dir'[n] \in Inodes
         /\ dir[n] # Null => dir'[n] = dir[n]
         /\ dir[n] = Null => \A h \in Hooks : hook[h].fd # dir'[n]
         /\ \A m \in Names \ {n} :
              /\ dir'[m] = dir[m]
              /\ dir[m] # Null => dir'[n] # dir[m] /\ lines'[dir[m]] = lines[dir[m]]
         /\ \A i \in Inodes, f \in Files :
              \/ lines[i][f] <= lines'[i][f]
              \/ dir[n] = Null /\ i = dir'[n]
         /\ \A f \in S : lines'[dir'[n]][f] > 0
         /\ \A f \in Files : lines'[dir'[n]][f] > 0 =>
              f \in S \/ (dir[n] # Null /\ lines[dir[n]][f] > 0)
<1>1. CASE dir[n] # Null
  <2>1. /\ dir[n] \in Inodes /\ dir' = dir
        /\ lines' = [lines EXCEPT ![dir[n]] = WithLines(@, S)]
    BY <1>1 DEF AppendTo, TypeOK
  <2>2. \A i \in Inodes, f \in Files : lines[i][f] \in Nat
    BY DEF TypeOK, Lines
  <2>3. \A i \in Inodes, f \in Files : lines'[i][f] =
          IF i = dir[n] /\ f \in S THEN lines[i][f] + 1 ELSE lines[i][f]
    BY <2>1 DEF TypeOK, WithLines, Lines
  <2>4. \A m \in Names \ {n} : dir[m] # Null =>
          dir[m] \in Inodes /\ dir[m] # dir[n] /\ lines'[dir[m]] = lines[dir[m]]
    BY <1>1, <2>1 DEF TypeOK, OneNamePerInode
  <2> QED
    BY <1>1, <2>1, <2>2, <2>3, <2>4
<1>2. CASE dir[n] = Null
  <2>1. PICK i \in Inodes : /\ Free(i)
                            /\ dir' = [dir EXCEPT ![n] = i]
                            /\ lines' = [lines EXCEPT ![i] = WithLines(NoLines, S)]
    BY <1>2 DEF AppendTo
  <2>2. dir'[n] = i /\ \A m \in Names \ {n} : dir'[m] = dir[m]
    BY <2>1 DEF TypeOK
  <2>3. /\ \A h \in Hooks : hook[h].fd # i
        /\ \A m \in Names : dir[m] # i
    BY <2>1 DEF Free
  <2>4. /\ \A j \in Inodes \ {i} : lines'[j] = lines[j]
        /\ \A f \in Files : lines'[i][f] = IF f \in S THEN 1 ELSE 0
    BY <2>1 DEF TypeOK, WithLines, NoLines
  <2>5. \A j \in Inodes, f \in Files : lines[j][f] \in Nat
    BY DEF TypeOK, Lines
  <2>6. \A m \in Names \ {n} : dir[m] # Null => dir[m] \in Inodes \ {i}
    BY <2>3 DEF TypeOK
  <2> QED
    BY <1>2, <2>2, <2>3, <2>4, <2>5, <2>6
<1> QED
  BY <1>1, <1>2

\* Lines are only ever added to a file whose stamp is remembered, so a file that
\* has outgrown its stamp never matches it again.
LEMMA StampStaysStale ==
  ASSUME TypeOK, TypeOK', NEW d \in Daemons, StampsCurrent(d),
         NEW n \in Names, dir[n] # Null, dir'[n] = dir[n],
         drain'[d].snap[n] = drain[d].snap[n],
         \A f \in Files : lines[dir[n]][f] <= lines'[dir[n]][f],
         ~Stamped(d, n)
  PROVE  ~Stamped(d, n)'
<1>1. /\ dir[n] \in Inodes /\ lines[dir[n]] \in Lines /\ lines'[dir[n]] \in Lines
      /\ drain[d].snap[n] \in (Inodes \X Lines) \cup {Null}
  BY DEF TypeOK, DaemonState, DaemonRecord
<1>2. CASE drain[d].snap[n] = Null
  BY <1>1, <1>2, ConstantsAssumption DEF Stamped, Lines
<1>3. CASE drain[d].snap[n] # Null
  <2> DEFINE old == drain[d].snap[n][2]
  <2>1. /\ drain[d].snap[n] = <<dir[n], old>> /\ old \in Lines
        /\ \A f \in Files : old[f] <= lines[dir[n]][f]
    BY <1>1, <1>3 DEF StampsCurrent
  <2>2. old # lines[dir[n]]
    BY <2>1 DEF Stamped
  <2>3. PICK f \in Files : old[f] # lines[dir[n]][f]
    BY <1>1, <2>1, <2>2 DEF Lines
  <2>4. old[f] < lines'[dir[n]][f]
    <3>1. old[f] \in Nat /\ lines[dir[n]][f] \in Nat /\ lines'[dir[n]][f] \in Nat
      BY <1>1, <2>1 DEF Lines
    <3> QED
      BY <2>1, <2>3, <3>1
  <2>5. old # lines'[dir[n]]
    BY <1>1, <2>1, <2>4 DEF Lines
  <2> QED
    BY <2>1, <2>5 DEF Stamped
<1> QED
  BY <1>2, <1>3

\* The part of the invariant that speaks of daemon d alone.
DaemonOK(d) == ClaimHeld(d) /\ SidecarOwn(d) /\ StampsCurrent(d)

\* A step of another process that moves no claimable file of the daemon, only
\* adds lines, and leaves its sidecar alone keeps the daemon's bookkeeping.
LEMMA DaemonKept ==
  ASSUME TypeOK, TypeOK', NEW d \in Daemons, DaemonOK(d), drain'[d] = drain[d],
         \A n \in Names \ {"live"} :
           /\ dir'[n] = dir[n]
           /\ dir[n] # Null => \A f \in Files : lines[dir[n]][f] <= lines'[dir[n]][f],
         drain[d].side # Null =>
           /\ lines'[dir[drain[d].side]] = lines[dir[drain[d].side]]
           /\ \A h \in Hooks : hook'[h].fd # dir[drain[d].side]
  PROVE  DaemonOK(d)'
<1> DEFINE r == drain[d]
<1>1. /\ r.todo \subseteq Names \ {"live"} /\ r.cur \in (Names \ {"live"}) \cup {Null}
      /\ r.side \in Alts \cup {Null} /\ r.seen \in Lines
      /\ r.batch \subseteq Files /\ r.doing \in Files \cup {Null}
      /\ Alts \subseteq Names \ {"live"} /\ Null \notin Names
      /\ r.pc \in {"claim", "read"} => r.cur # Null
      /\ r.snap \in [Names -> (Inodes \X Lines) \cup {Null}]
  BY ConstantsAssumption DEF TypeOK, DaemonState, DaemonRecord, Names
<1>2. \A i \in Inodes, f \in Files : lines[i][f] \in Nat /\ lines'[i][f] \in Nat
  BY DEF TypeOK, Lines
<1>3. \A n \in Names : dir[n] # Null => dir[n] \in Inodes
  BY DEF TypeOK
<1>4. StampsCurrent(d)'
  <2> SUFFICES ASSUME NEW n \in Names, r.snap[n] # Null
               PROVE  /\ n # "live" /\ r.snap[n][1] = dir'[n]
                      /\ \A f \in Files : r.snap[n][2][f] <= lines'[dir'[n]][f]
    BY DEF StampsCurrent
  <2>1. /\ n # "live" /\ r.snap[n][1] = dir[n] /\ dir'[n] = dir[n]
        /\ \A f \in Files : r.snap[n][2][f] <= lines[dir[n]][f]
    BY DEF DaemonOK, StampsCurrent
  <2>2. r.snap[n][1] \in Inodes /\ r.snap[n][2] \in Lines
    BY <1>1
  <2>3. dir[n] # Null /\ \A f \in Files : r.snap[n][2][f] \in Nat
    BY <2>1, <2>2, ConstantsAssumption DEF Lines
  <2> QED
    BY <1>2, <1>3, <2>1, <2>3
<1>5. SidecarOwn(d)'
  BY <1>1 DEF DaemonOK, SidecarOwn, Named
<1>6. ClaimHeld(d)'
  <2>1. \A n \in r.todo : dir'[n] # Null
    BY <1>1 DEF DaemonOK, ClaimHeld
  <2>2. r.pc = "claim" => dir'[r.cur] = Null
    BY <1>1 DEF DaemonOK, ClaimHeld
  <2>3. r.pc \in {"read", "batch", "index", "clear"} =>
          r.cur # Null /\ dir[r.cur] # Null /\ dir'[r.cur] = dir[r.cur]
    BY <1>1 DEF DaemonOK, ClaimHeld
  <2>4. ASSUME r.pc \in {"batch", "index", "clear"}, NEW f \in Files
        PROVE  r.seen[f] <= lines'[dir'[r.cur]][f]
    <3>1. r.seen[f] <= lines[dir[r.cur]][f] /\ r.seen[f] \in Nat
      BY <1>1, <2>4 DEF DaemonOK, ClaimHeld, Lines
    <3>2. dir[r.cur] \in Inodes /\ lines[dir[r.cur]][f] <= lines'[dir[r.cur]][f]
      BY <1>1, <1>3, <2>3, <2>4
    <3> QED
      BY <1>2, <2>3, <2>4, <3>1, <3>2
  <2>5. ASSUME r.pc \in {"batch", "index"}, NEW f \in r.batch \cup {r.doing}, f # Null
        PROVE  lines'[dir'[r.cur]][f] > 0 /\ ~Stamped(d, r.cur)'
    <3>1. /\ f \in Files /\ r.cur \in Names \ {"live"} /\ dir[r.cur] \in Inodes
          /\ dir[r.cur] # Null /\ dir'[r.cur] = dir[r.cur]
      BY <1>1, <1>3, <2>3, <2>5
    <3>2. lines[dir[r.cur]][f] > 0 /\ ~Stamped(d, r.cur)
      BY <2>5 DEF DaemonOK, ClaimHeld
    <3>3. \A g \in Files : lines[dir[r.cur]][g] <= lines'[dir[r.cur]][g]
      BY <3>1
    <3>4. ~Stamped(d, r.cur)'
      BY <3>1, <3>2, <3>3, StampStaysStale DEF DaemonOK
    <3> QED
      BY <1>2, <3>1, <3>2, <3>3, <3>4
  <2> QED
    BY <2>1, <2>2, <2>3, <2>4, <2>5 DEF DaemonOK, ClaimHeld
<1> QED
  BY <1>4, <1>5, <1>6 DEF DaemonOK

\* A hook's step keeps the invariant, whatever the daemons are doing.
LEMMA HookKeepsBooks ==
  ASSUME Books, TypeOK', NEW h \in Hooks
  PROVE  (\E S \in SUBSET Files : EditFiles(h, S)) \/ HookStep(h) \/ HookFails(h)
         => Books'
<1>1. /\ TypeOK /\ OneNamePerInode /\ HookWrote
      /\ \A d \in Daemons : DaemonOK(d)
  BY DEF Books, DaemonOK
<1>2. /\ \A i \in Inodes, f \in Files : lines[i][f] \in Nat
      /\ \A n \in Names : dir[n] # Null => dir[n] \in Inodes
      /\ \A d \in Daemons : drain[d].side # Null =>
           /\ drain[d].side \in Names \ {"live"} /\ dir[drain[d].side] \in Inodes
           /\ \A k \in Hooks : hook[k].fd # dir[drain[d].side]
      /\ hook[h].files \subseteq Files
      /\ \A k \in Hooks : hook[k].fd \in Inodes \cup {Null}
      /\ Null \notin Inodes /\ Null \notin Names /\ "live" \in Names
    BY <1>1, ConstantsAssumption
    DEF TypeOK, Lines, DaemonState, DaemonRecord, DaemonOK, SidecarOwn, Names,
        HookState
<1>3. CASE /\ (\E S \in SUBSET Files : EditFiles(h, S)) \/ HookCheck(h) \/ HookFails(h)
  <2>1. UNCHANGED <<dir, lines, drain>>
    BY <1>3 DEF EditFiles, HookCheck, HookFails
  <2>a. \A k \in Hooks \ {h} : hook'[k] = hook[k]
    BY <1>1, <1>3 DEF EditFiles, HookCheck, HookFails, TypeOK
  <2>2. hook'[h].pc \in {"idle", "open", "lost"} /\ hook'[h].fd = Null
    <3>1. h \in DOMAIN hook /\ hook[h] \in HookState
      BY <1>1 DEF TypeOK
    <3>2. ASSUME NEW S \in SUBSET Files, EditFiles(h, S)
          PROVE  hook'[h].pc \in {"idle", "open", "lost"} /\ hook'[h].fd = Null
      BY <3>1, <3>2 DEF EditFiles, HookIdle
    <3>3. CASE HookFails(h)
      BY <3>1, <3>3 DEF HookFails, HookIdle
    <3>4. CASE HookCheck(h)
      <4> DEFINE done == [HookIdle EXCEPT !.reported = Cardinality(hook[h].files)]
                 again == [hook[h] EXCEPT !.pc = "open", !.fd = Null]
                 lost == [HookIdle EXCEPT !.pc = "lost", !.files = hook[h].files,
                                          !.reported = Cardinality(hook[h].files)]
      <4>1. /\ done.pc = "idle" /\ again.pc = "open" /\ lost.pc = "lost"
            /\ done.fd = Null /\ again.fd = Null /\ lost.fd = Null
        BY <3>1 DEF HookIdle, HookState
      <4>2. hook'[h] \in {done, again, lost}
        BY <3>1, <3>4 DEF HookCheck
      <4> QED
        BY <4>1, <4>2
    <3> QED
      BY <1>3, <3>2, <3>3, <3>4
  <2>3. OneNamePerInode' /\ HookWrote'
    BY <1>1, <2>1, <2>a, <2>2 DEF OneNamePerInode, HookWrote
  <2>4. ASSUME NEW d \in Daemons
        PROVE  DaemonOK(d)'
    BY <1>1, <1>2, <2>1, <2>a, <2>2, DaemonKept
  <2> QED
    BY <2>3, <2>4 DEF Books, DaemonOK
<1>4. CASE HookOpen(h)
  <2>1. /\ AppendTo("live", {}) /\ UNCHANGED drain
        /\ \A k \in Hooks \ {h} : hook'[k] = hook[k]
        /\ hook'[h].pc = "write" /\ hook'[h].fd = dir'["live"]
    BY <1>1, <1>4 DEF HookOpen, TypeOK, HookState
  <2>2. /\ dir'["live"] \in Inodes
        /\ dir["live"] # Null => dir'["live"] = dir["live"]
        /\ dir["live"] = Null => \A k \in Hooks : hook[k].fd # dir'["live"]
        /\ \A m \in Names \ {"live"} :
             /\ dir'[m] = dir[m]
             /\ dir[m] # Null =>
                  dir'["live"] # dir[m] /\ lines'[dir[m]] = lines[dir[m]]
        /\ \A i \in Inodes, f \in Files :
             \/ lines[i][f] <= lines'[i][f]
             \/ dir["live"] = Null /\ i = dir'["live"]
    BY <1>1, <1>2, <2>1, AppendFacts
  <2>3. OneNamePerInode'
    BY <1>1, <2>2 DEF OneNamePerInode
  <2>4. HookWrote'
    <3>1. ASSUME NEW k \in Hooks \ {h}, hook[k].pc = "check", NEW f \in hook[k].files
          PROVE  lines'[hook[k].fd][f] > 0
      <4>1. /\ hook[k].fd \in Inodes /\ lines[hook[k].fd][f] > 0 /\ f \in Files
            /\ lines'[hook[k].fd][f] \in Nat
        BY <1>1, <1>2, <3>1 DEF HookWrote, TypeOK, HookState, Lines
      <4> QED
        BY <1>2, <2>2, <4>1
    <3> QED
      BY <1>1, <1>2, <2>1, <2>2, <3>1 DEF HookWrote
  <2>5. ASSUME NEW d \in Daemons
        PROVE  DaemonOK(d)'
    <3>1. ASSUME NEW n \in Names \ {"live"}
          PROVE  /\ dir'[n] = dir[n]
                 /\ dir[n] # Null =>
                      \A f \in Files : lines[dir[n]][f] <= lines'[dir[n]][f]
      BY <1>2, <2>2
    <3>2. drain[d].side # Null =>
            /\ lines'[dir[drain[d].side]] = lines[dir[drain[d].side]]
            /\ \A k \in Hooks : hook'[k].fd # dir[drain[d].side]
      BY <1>2, <2>1, <2>2
    <3> QED
      BY <1>1, <2>1, <3>1, <3>2, DaemonKept
  <2> QED
    BY <2>3, <2>4, <2>5 DEF Books, DaemonOK
<1>5. CASE HookWrite(h)
  <2>1. /\ UNCHANGED <<dir, drain>> /\ hook[h].pc = "write"
        /\ \A k \in Hooks \ {h} : hook'[k] = hook[k]
        /\ hook'[h].pc = "check" /\ hook'[h].fd = hook[h].fd
        /\ hook'[h].files = hook[h].files
    BY <1>1, <1>5 DEF HookWrite, TypeOK, HookState
  <2>2. hook[h].fd \in Inodes
    BY <1>1, <1>2, <2>1 DEF HookWrote
  <2>3. /\ \A i \in Inodes \ {hook[h].fd} : lines'[i] = lines[i]
        /\ \A f \in Files : lines'[hook[h].fd][f] =
             IF f \in hook[h].files THEN lines[hook[h].fd][f] + 1
                                    ELSE lines[hook[h].fd][f]
    BY <1>1, <1>5, <2>2 DEF HookWrite, TypeOK, WithLines
  <2>4. \A i \in Inodes, f \in Files : lines[i][f] <= lines'[i][f]
    BY <1>2, <2>3
  <2>5. OneNamePerInode'
    BY <1>1, <2>1 DEF OneNamePerInode
  <2>6. HookWrote'
    <3>1. ASSUME NEW k \in Hooks \ {h}, hook[k].pc = "check", NEW f \in hook[k].files
          PROVE  lines'[hook[k].fd][f] > 0
      <4>1. /\ hook[k].fd \in Inodes /\ lines[hook[k].fd][f] > 0 /\ f \in Files
            /\ lines'[hook[k].fd][f] \in Nat
        BY <1>1, <1>2, <3>1 DEF HookWrote, TypeOK, HookState, Lines
      <4> QED
        BY <1>2, <2>4, <4>1
    <3>2. \A f \in hook[h].files : lines'[hook[h].fd][f] > 0
      BY <1>2, <2>2, <2>3
    <3> QED
      BY <1>1, <1>2, <2>1, <2>2, <3>1, <3>2 DEF HookWrote
  <2>7. ASSUME NEW d \in Daemons
        PROVE  DaemonOK(d)'
    <3>1. drain[d].side # Null =>
            /\ lines'[dir[drain[d].side]] = lines[dir[drain[d].side]]
            /\ \A k \in Hooks : hook'[k].fd # dir[drain[d].side]
      BY <1>2, <2>1, <2>2, <2>3
    <3> QED
      BY <1>1, <1>2, <2>1, <2>4, <3>1, DaemonKept
  <2> QED
    BY <2>5, <2>6, <2>7 DEF Books, DaemonOK
<1> QED
  BY <1>3, <1>4, <1>5 DEF HookStep

\* What the invariant says of a daemon, with the types of what it remembers.
LEMMA DaemonFacts ==
  ASSUME Books, NEW d \in Daemons
  PROVE  /\ DaemonOK(d) /\ drain[d] \in DaemonState /\ drain[d] \in DaemonRecord
         /\ drain[d].todo \subseteq Names \ {"live"}
         /\ drain[d].cur \in (Names \ {"live"}) \cup {Null}
         /\ drain[d].side \in Alts \cup {Null}
         /\ drain[d].batch \subseteq Files /\ drain[d].defer \subseteq Files
         /\ drain[d].pc = "index" <=> drain[d].doing # Null
         /\ drain[d].doing \in Files \cup {Null}
         /\ drain[d].seen \in Lines
         /\ drain[d].snap \in [Names -> (Inodes \X Lines) \cup {Null}]
         /\ Alts \subseteq Names \ {"live", "draining"} /\ "draining" \in Names
         /\ Null \notin Names /\ Null \notin Inodes /\ Null \notin Files
         /\ Null \notin Inodes \X Lines
         /\ \A n \in Names : dir[n] # Null => dir[n] \in Inodes
         /\ \A i \in Inodes : lines[i] \in Lines
         /\ \A i \in Inodes, f \in Files : lines[i][f] \in Nat
  BY ConstantsAssumption
  DEF Books, DaemonOK, TypeOK, DaemonState, DaemonRecord, Names, Lines

\* With one daemon, what it keeps straight is the invariant.
LEMMA SoleBooks ==
  ASSUME SoleDaemon, TypeOK', NEW d \in Daemons, DaemonOK(d)',
         OneNamePerInode', HookWrote'
  PROVE  Books'
  BY DEF SoleDaemon, Books, DaemonOK

\* Steps that change the daemon's memory and not the queue directory.
LEMMA MemoryKeepsBooks ==
  ASSUME Books, TypeOK', SoleDaemon, NEW d \in Daemons, UNCHANGED <<dir, lines, hook>>
  PROVE  Start(d) \/ Retire(d) \/ Leave(d) \/ Crash(d) \/ DrainThrows(d)
         \/ BeginDrain(d) \/ RecoverNext(d) \/ SkipBlocked(d) \/ Fingerprint(d)
         \/ IndexPath(d) \/ ChooseClaim(d) \/ ReadClaim(d) => Books'
<1> DEFINE r == drain[d]
<1>0. TypeOK /\ OneNamePerInode' /\ HookWrote'
  BY DEF Books, OneNamePerInode, HookWrote
<1>r. r \in DaemonRecord
  BY DaemonFacts
<1>b. ASSUME NEW q, Becomes(d, q)
      PROVE  drain'[d] = q
  BY <1>0, <1>b, BecomesIs
<1>s. SUFFICES ASSUME Start(d) \/ Retire(d) \/ Leave(d) \/ Crash(d) \/ DrainThrows(d)
                    \/ BeginDrain(d) \/ RecoverNext(d) \/ SkipBlocked(d)
                    \/ Fingerprint(d) \/ IndexPath(d) \/ ChooseClaim(d) \/ ReadClaim(d)
             PROVE  DaemonOK(d)'
  BY <1>0, SoleBooks
<1>1. CASE Start(d) \/ Leave(d) \/ Crash(d)
  <2>1. drain'[d] = NewDaemon("idle") \/ drain'[d] = NewDaemon("down")
    BY <1>0, <1>1, BecomesIs DEF Start, Leave, Crash
  <2>2. /\ drain'[d].todo = {} /\ drain'[d].side = Null
        /\ drain'[d].pc \in {"idle", "down"}
        /\ \A n \in Names : drain'[d].snap[n] = Null
    BY <2>1 DEF NewDaemon
  <2> QED
    BY <2>2 DEF DaemonOK, ClaimHeld, SidecarOwn, StampsCurrent
<1>2. CASE DrainThrows(d)
  <2>0. drain'[d] = NextCycle(d)
    BY <1>b, <1>2 DEF DrainThrows
  <2>1. /\ drain'[d].todo = {} /\ drain'[d].side = Null
        /\ drain'[d].pc = "idle" /\ drain'[d].snap = r.snap
    BY <2>0 DEF NextCycle, NewDaemon
  <2> QED
    BY <2>1, DaemonFacts DEF DaemonOK, ClaimHeld, SidecarOwn, StampsCurrent
<1>3. CASE Retire(d)
  <2>1. drain'[d] = [r EXCEPT !.retiring = TRUE]
    BY <1>0, <1>3, BecomesIs DEF Retire
  <2>2. /\ drain'[d].pc = r.pc /\ drain'[d].todo = r.todo /\ drain'[d].cur = r.cur
        /\ drain'[d].stage = r.stage /\ drain'[d].seen = r.seen
        /\ drain'[d].batch = r.batch /\ drain'[d].doing = r.doing
        /\ drain'[d].defer = r.defer /\ drain'[d].side = r.side
        /\ drain'[d].snap = r.snap
    BY <2>1, DaemonFacts DEF DaemonRecord
  <2> QED
    BY <2>2, DaemonFacts
    DEF DaemonOK, ClaimHeld, SidecarOwn, StampsCurrent, Stamped, Named
<1>4. CASE BeginDrain(d)
  <2>1. /\ drain'[d].pc = "recover" /\ drain'[d].todo = Recoverable
        /\ drain'[d].side = r.side
        /\ drain'[d].snap = [n \in Names |-> IF n \in Recoverable THEN r.snap[n] ELSE Null]
        /\ r.pc = "idle"
    <3> DEFINE q == [n \in Names |-> IF n \in Recoverable THEN r.snap[n] ELSE Null]
    <3> HIDE DEF q
    <3>1. r.pc = "idle" /\ drain'[d] = [r EXCEPT !.pc = "recover", !.todo = Recoverable,
                                                 !.snap = q]
      BY <1>b, <1>4 DEF BeginDrain, q
    <3>2. /\ drain'[d].pc = "recover" /\ drain'[d].todo = Recoverable
          /\ drain'[d].side = r.side /\ drain'[d].snap = q
      BY <1>r, <3>1 DEF DaemonRecord
    <3> QED
      BY <3>1, <3>2 DEF q
  <2>2. drain'[d].side = Null
    BY <2>1, DaemonFacts DEF DaemonOK, SidecarOwn
  <2> QED
    BY <2>1, <2>2, DaemonFacts
    DEF DaemonOK, ClaimHeld, SidecarOwn, StampsCurrent, Recoverable
<1>5. CASE SkipBlocked(d)
  <2>1. /\ drain'[d].pc = r.pc /\ drain'[d].todo = r.todo /\ drain'[d].cur = r.cur
        /\ drain'[d].stage = r.stage /\ drain'[d].seen = r.seen
        /\ drain'[d].batch \subseteq r.batch /\ drain'[d].doing = r.doing
        /\ drain'[d].defer = r.defer /\ drain'[d].side = r.side
        /\ drain'[d].snap = r.snap
    <3>1. PICK g \in r.batch : Becomes(d, [r EXCEPT !.batch = @ \ {g}])
      BY <1>5 DEF SkipBlocked
    <3>2. drain'[d] = [r EXCEPT !.batch = @ \ {g}]
      BY <1>b, <3>1
    <3> QED
      BY <1>r, <3>2 DEF DaemonRecord
  <2> QED
    BY <2>1, DaemonFacts
    DEF DaemonOK, ClaimHeld, SidecarOwn, StampsCurrent, Stamped, Named
<1>6. CASE Fingerprint(d) \/ IndexPath(d)
  <2>1. /\ r.pc \in {"batch", "index"} /\ drain'[d].pc \in {"batch", "index"}
        /\ drain'[d].todo = r.todo /\ drain'[d].cur = r.cur
        /\ drain'[d].stage = r.stage /\ drain'[d].seen = r.seen
        /\ drain'[d].batch \cup {drain'[d].doing} \subseteq r.batch \cup {Null}
        /\ drain'[d].defer = r.defer /\ drain'[d].side = r.side
        /\ drain'[d].snap = r.snap
    <3>1. CASE IndexPath(d)
      <4>1. drain'[d] = [r EXCEPT !.pc = "batch", !.doing = Null, !.got = 0]
        BY <1>b, <3>1 DEF IndexPath
      <4>2. r.pc = "index"
        BY <3>1 DEF IndexPath
      <4> QED
        BY <1>r, <4>1, <4>2 DEF DaemonRecord
    <3>2. CASE Fingerprint(d)
      <4>1. PICK f \in r.batch \ Blocked :
              Becomes(d, [r EXCEPT !.pc = "index", !.doing = f, !.got = disk[f],
                                   !.batch = @ \ {f}])
        BY <3>2 DEF Fingerprint
      <4>2. drain'[d] = [r EXCEPT !.pc = "index", !.doing = f, !.got = disk[f],
                                   !.batch = @ \ {f}]
        BY <1>b, <4>1
      <4>3. /\ drain'[d].pc = "index" /\ drain'[d].doing = f
            /\ drain'[d].batch = r.batch \ {f} /\ r.pc = "batch"
            /\ drain'[d].todo = r.todo /\ drain'[d].cur = r.cur
            /\ drain'[d].stage = r.stage /\ drain'[d].seen = r.seen
            /\ drain'[d].defer = r.defer /\ drain'[d].side = r.side
            /\ drain'[d].snap = r.snap
        BY <1>r, <3>2, <4>2 DEF DaemonRecord, Fingerprint
      <4> QED
        BY <4>1, <4>3
    <3> QED
      BY <1>6, <3>1, <3>2
  <2> QED
    BY <2>1, DaemonFacts
    DEF DaemonOK, ClaimHeld, SidecarOwn, StampsCurrent, Stamped, Named
<1>7. CASE ChooseClaim(d)
  <2>1. /\ drain'[d].todo = r.todo /\ drain'[d].side = r.side
        /\ drain'[d].snap = r.snap /\ drain'[d].defer = r.defer
        /\ r.pc = "recover" /\ drain'[d].pc \in {"requeue", "claim"}
        /\ drain'[d].pc = "requeue" => drain'[d].cur = r.cur
        /\ drain'[d].pc = "claim" =>
             /\ drain'[d].cur \in Names \ {"live"}
             /\ dir[drain'[d].cur] = Null
             /\ drain'[d].cur # r.side
    <3>1. CASE Becomes(d, [r EXCEPT !.pc = "requeue"])
      <4>1. drain'[d] = [r EXCEPT !.pc = "requeue"] /\ r.pc = "recover"
        BY <1>b, <1>7, <3>1 DEF ChooseClaim
      <4> QED
        BY <1>r, <4>1 DEF DaemonRecord
    <3>2. ASSUME NEW n \in Names \ {"live"},
                 IF dir["draining"] = Null THEN n = "draining"
                                           ELSE n \in Alts /\ Unused(n),
                 Becomes(d, [r EXCEPT !.pc = "claim", !.cur = n])
          PROVE  <2>1
      <4>1. drain'[d].cur = n /\ drain'[d].pc = "claim" /\ drain'[d].todo = r.todo
            /\ drain'[d].side = r.side /\ drain'[d].snap = r.snap
            /\ drain'[d].defer = r.defer
        <5>1. drain'[d] = [r EXCEPT !.pc = "claim", !.cur = n]
          BY <1>b, <3>2
        <5> QED
          BY <1>r, <5>1 DEF DaemonRecord
      <4>2. dir[n] = Null /\ n # r.side
        BY <3>2, DaemonFacts DEF Unused
      <4> QED
        BY <1>7, <4>1, <4>2 DEF ChooseClaim
    <3> QED
      BY <1>7, <3>1, <3>2 DEF ChooseClaim
  <2> QED
    BY <2>1, DaemonFacts, SMTT(30)
    DEF DaemonOK, ClaimHeld, SidecarOwn, StampsCurrent, Named
<1>8. CASE RecoverNext(d)
  <2>1. PICK n \in r.todo :
          /\ dir[n] # Null
          /\ Becomes(d, [r EXCEPT !.pc = "batch", !.stage = "a", !.cur = n,
                           !.seen = lines[dir[n]],
                           !.batch = IF Stamped(d, n) THEN {} ELSE Named(dir[n])])
    BY <1>8 DEF RecoverNext
  <2>2. /\ drain'[d].pc = "batch" /\ drain'[d].stage = "a" /\ drain'[d].cur = n
        /\ drain'[d].seen = lines[dir[n]] /\ drain'[d].doing = r.doing
        /\ drain'[d].batch = IF Stamped(d, n) THEN {} ELSE Named(dir[n])
        /\ drain'[d].todo = r.todo /\ drain'[d].side = r.side
        /\ drain'[d].snap = r.snap /\ drain'[d].defer = r.defer
        /\ r.pc = "recover"
    <3> DEFINE b == IF Stamped(d, n) THEN {} ELSE Named(dir[n])
    <3> HIDE DEF b
    <3>1. drain'[d] = [r EXCEPT !.pc = "batch", !.stage = "a", !.cur = n,
                                !.seen = lines[dir[n]], !.batch = b]
      BY <1>b, <2>1 DEF b
    <3>2. r.pc = "recover"
      BY <1>8 DEF RecoverNext
    <3> QED
      BY <1>r, <3>1, <3>2 DEF DaemonRecord, b
  <2>3. StampsCurrent(d)' /\ SidecarOwn(d)'
    BY <2>1, <2>2, DaemonFacts DEF DaemonOK, SidecarOwn, StampsCurrent, Named
  <2>4. \A f \in drain'[d].batch : lines[dir[n]][f] > 0 /\ ~Stamped(d, n)
    BY <2>2 DEF Named
  <2>5. Stamped(d, n)' <=> Stamped(d, n)
    BY <2>2 DEF Stamped
  <2>6. drain'[d].doing = Null
    BY <2>2, DaemonFacts
  <2>7. ClaimHeld(d)'
    BY <2>1, <2>2, <2>4, <2>5, <2>6, DaemonFacts DEF DaemonOK, ClaimHeld, Lines
  <2> QED
    BY <2>3, <2>7 DEF DaemonOK
<1>9. CASE ReadClaim(d)
  <2>1. CASE Becomes(d, [r EXCEPT !.pc = "requeue", !.cur = Null])
    <3>1. /\ drain'[d].pc = "requeue" /\ drain'[d].todo = r.todo
          /\ drain'[d].side = r.side /\ drain'[d].snap = r.snap
          /\ drain'[d].defer = r.defer /\ r.pc = "read" /\ drain'[d].cur = Null
      <4>1. r.pc = "read" /\ drain'[d] = [r EXCEPT !.pc = "requeue", !.cur = Null]
        BY <1>b, <1>9, <2>1 DEF ReadClaim
      <4> QED
        BY <1>r, <4>1 DEF DaemonRecord
    <3> QED
      BY <3>1, DaemonFacts
      DEF DaemonOK, ClaimHeld, SidecarOwn, StampsCurrent, Named
  <2>2. CASE Becomes(d, [r EXCEPT !.pc = "batch", !.stage = "b",
                           !.seen = lines[dir[r.cur]],
                           !.batch = Named(dir[r.cur])])
    <3>1. /\ drain'[d].pc = "batch" /\ drain'[d].stage = "b" /\ drain'[d].cur = r.cur
          /\ drain'[d].seen = lines[dir[r.cur]] /\ drain'[d].doing = r.doing
          /\ drain'[d].batch = Named(dir[r.cur])
          /\ drain'[d].todo = r.todo /\ drain'[d].side = r.side
          /\ drain'[d].snap = r.snap /\ drain'[d].defer = r.defer
          /\ r.pc = "read"
      <4>1. r.pc = "read"
        BY <1>9 DEF ReadClaim
      <4>2. drain'[d] = [r EXCEPT !.pc = "batch", !.stage = "b",
                           !.seen = lines[dir[r.cur]],
                           !.batch = Named(dir[r.cur])]
        BY <1>b, <2>2
      <4> QED
        BY <1>r, <4>1, <4>2 DEF DaemonRecord
    <3>2. /\ r.cur \in Names /\ dir[r.cur] # Null /\ r.snap[r.cur] = Null
          /\ dir[r.cur] \in Inodes /\ r.doing = Null
      BY <3>1, DaemonFacts DEF DaemonOK, ClaimHeld
    <3>3. ~Stamped(d, r.cur)'
      BY <3>1, <3>2, DaemonFacts DEF Stamped
    <3>4. ClaimHeld(d)'
      BY <3>1, <3>2, <3>3, DaemonFacts DEF DaemonOK, ClaimHeld, Named, Lines
    <3>5. SidecarOwn(d)' /\ StampsCurrent(d)'
      BY <3>1, <3>2, DaemonFacts DEF DaemonOK, SidecarOwn, StampsCurrent, Named
    <3> QED
      BY <3>4, <3>5 DEF DaemonOK
  <2> QED
    BY <1>9, <2>1, <2>2 DEF ReadClaim
<1> QED
  BY <1>s, <1>1, <1>2, <1>3, <1>4, <1>5, <1>6, <1>7, <1>8, <1>9

\* An append by the daemon gives no file a second name and takes no hook's lines.
LEMMA AppendKeepsQueue ==
  ASSUME Books, NEW n \in Names, NEW S \in SUBSET Files, AppendTo(n, S), UNCHANGED hook
  PROVE  OneNamePerInode' /\ HookWrote'
<1>1. TypeOK /\ OneNamePerInode /\ HookWrote
  BY DEF Books
<1>2. /\ dir'[n] \in Inodes
      /\ dir[n] # Null => dir'[n] = dir[n]
      /\ dir[n] = Null => \A h \in Hooks : hook[h].fd # dir'[n]
      /\ \A m \in Names \ {n} : dir'[m] = dir[m]
      /\ \A m \in Names \ {n} : dir[m] # Null => dir'[n] # dir[m]
      /\ \A i \in Inodes, f \in Files :
           \/ lines[i][f] <= lines'[i][f]
           \/ dir[n] = Null /\ i = dir'[n]
  BY <1>1, AppendFacts
<1>3. OneNamePerInode'
  BY <1>1, <1>2 DEF OneNamePerInode
<1>4. ASSUME NEW h \in Hooks, hook[h].pc = "check", NEW f \in hook[h].files
      PROVE  lines'[hook[h].fd][f] > 0
  <2>1. hook[h].fd \in Inodes /\ lines[hook[h].fd][f] > 0 /\ f \in Files
    BY <1>1, <1>4, ConstantsAssumption DEF HookWrote, TypeOK, HookState
  <2>2. lines[hook[h].fd][f] \in Nat /\ lines'[hook[h].fd][f] \in Nat
    BY <1>1, <2>1, AppendTyped DEF TypeOK, Lines
  <2>3. lines[hook[h].fd][f] <= lines'[hook[h].fd][f]
    BY <1>2, <2>1
  <2> QED
    BY <2>1, <2>2, <2>3
<1>5. HookWrote'
  BY <1>1, <1>4 DEF HookWrote
<1> QED
  BY <1>3, <1>5

\* An append to the live queue leaves every claimable file as it was.
LEMMA LiveAppend ==
  ASSUME Books, NEW S \in SUBSET Files, AppendTo("live", S)
  PROVE  \A n \in Names \ {"live"} :
           dir'[n] = dir[n] /\ (dir[n] # Null => lines'[dir[n]] = lines[dir[n]])
<1>1. TypeOK /\ OneNamePerInode /\ "live" \in Names
  BY DEF Books, Names
<1> QED
  BY <1>1, AppendFacts

\* The steps of the daemon that append to the live queue.
LEMMA LiveAppendKeepsBooks ==
  ASSUME Books, TypeOK', SoleDaemon, NEW d \in Daemons, NEW S \in SUBSET Files,
         AppendTo("live", S) \/ UNCHANGED <<dir, lines>>, UNCHANGED hook
  PROVE  /\ Becomes(d, [drain[d] EXCEPT !.batch = {}]) /\ drain[d].pc = "batch" => Books'
         /\ Recheck(d) => Books'
         /\ FlushDeferred(d) => Books'
<1> DEFINE r == drain[d]
<1>0. TypeOK /\ OneNamePerInode' /\ HookWrote' /\ "live" \in Names
  BY AppendKeepsQueue DEF Books, OneNamePerInode, HookWrote, Names
<1>r. r \in DaemonRecord
  BY DaemonFacts
<1>b. ASSUME NEW q, Becomes(d, q)
      PROVE  drain'[d] = q
  BY <1>0, <1>b, BecomesIs
<1>a. \A n \in Names \ {"live"} :
        dir'[n] = dir[n] /\ (dir[n] # Null => lines'[dir[n]] = lines[dir[n]])
  BY LiveAppend
<1>1. ASSUME Becomes(d, [drain[d] EXCEPT !.batch = {}]), drain[d].pc = "batch"
      PROVE  Books'
  <2>1. /\ drain'[d].pc = r.pc /\ drain'[d].todo = r.todo /\ drain'[d].cur = r.cur
        /\ drain'[d].stage = r.stage /\ drain'[d].seen = r.seen
        /\ drain'[d].batch = {} /\ drain'[d].doing = r.doing
        /\ drain'[d].defer = r.defer /\ drain'[d].side = r.side
        /\ drain'[d].snap = r.snap
    <3>1. drain'[d] = [r EXCEPT !.batch = {}]
      BY <1>b, <1>1
    <3> QED
      BY <1>r, <3>1 DEF DaemonRecord
  <2>2. DaemonOK(d)'
    BY <1>1, <1>a, <2>1, DaemonFacts
    DEF DaemonOK, ClaimHeld, SidecarOwn, StampsCurrent, Named
  <2> QED
    BY <1>0, <2>2, SoleBooks
<1>2. ASSUME Recheck(d)
      PROVE  Books'
  <2>1. /\ drain'[d].pc = "clear" /\ drain'[d].todo = r.todo /\ drain'[d].cur = r.cur
        /\ drain'[d].stage = r.stage /\ drain'[d].seen = r.seen
        /\ drain'[d].defer = r.defer /\ drain'[d].side = r.side
        /\ drain'[d].snap = r.snap /\ r.pc = "batch"
    <3>1. drain'[d] = [r EXCEPT !.pc = "clear"] /\ r.pc = "batch"
      BY <1>b, <1>2 DEF Recheck
    <3> QED
      BY <1>r, <3>1 DEF DaemonRecord
  <2>2. DaemonOK(d)'
    BY <1>a, <2>1, DaemonFacts
    DEF DaemonOK, ClaimHeld, SidecarOwn, StampsCurrent, Named
  <2> QED
    BY <1>0, <2>2, SoleBooks
<1>3. ASSUME FlushDeferred(d)
      PROVE  Books'
  <2>1. CASE Becomes(d, NextCycle(d))
    <3>1. /\ drain'[d].todo = {} /\ drain'[d].side = Null
          /\ drain'[d].pc = "idle" /\ drain'[d].snap = r.snap
      BY <1>b, <2>1 DEF NextCycle, NewDaemon
    <3>2. DaemonOK(d)'
      BY <1>a, <3>1, DaemonFacts DEF DaemonOK, ClaimHeld, SidecarOwn, StampsCurrent
    <3> QED
      BY <1>0, <3>2, SoleBooks
  <2>2. CASE Becomes(d, [r EXCEPT !.pc = "tidy", !.defer = {}])
    <3>1. /\ drain'[d].pc = "tidy" /\ drain'[d].todo = r.todo
          /\ drain'[d].side = r.side /\ drain'[d].snap = r.snap
          /\ drain'[d].cur = r.cur /\ r.pc = "requeue"
      <4>1. drain'[d] = [r EXCEPT !.pc = "tidy", !.defer = {}] /\ r.pc = "requeue"
        BY <1>b, <1>3, <2>2 DEF FlushDeferred
      <4> QED
        BY <1>r, <4>1 DEF DaemonRecord
    <3>2. DaemonOK(d)'
      BY <1>a, <3>1, DaemonFacts DEF DaemonOK, ClaimHeld, SidecarOwn, StampsCurrent
    <3> QED
      BY <1>0, <3>2, SoleBooks
  <2> QED
    BY <1>3, <2>1, <2>2 DEF FlushDeferred
<1> QED
  BY <1>1, <1>2, <1>3

\* Deferring paths keeps the invariant: the sidecar is a file nobody else has.
LEMMA DeferKeepsBooks ==
  ASSUME Books, TypeOK', SoleDaemon, NEW d \in Daemons, NEW S \in SUBSET Files,
         NEW cost \in {0, 1}, Defer(d, S, cost), drain[d].pc \in {"batch", "index"},
         UNCHANGED hook
  PROVE  Books'
<1> DEFINE r == drain[d]
           q == [r EXCEPT !.pc = "batch", !.doing = Null, !.got = 0,
                          !.batch = @ \ S, !.defer = @ \cup S]
<1>0. TypeOK /\ OneNamePerInode /\ HookWrote
  BY DEF Books
<1>r. r \in DaemonRecord
  BY DaemonFacts
<1>b. ASSUME NEW x, Becomes(d, x)
      PROVE  drain'[d] = x
  BY <1>0, <1>b, BecomesIs
<1>1. CASE Becomes(d, q) /\ UNCHANGED queue
  <2>1. /\ drain'[d].pc = "batch" /\ drain'[d].todo = r.todo /\ drain'[d].cur = r.cur
        /\ drain'[d].stage = r.stage /\ drain'[d].seen = r.seen
        /\ drain'[d].batch \subseteq r.batch /\ drain'[d].doing = Null
        /\ r.defer \subseteq drain'[d].defer /\ drain'[d].side = r.side
        /\ drain'[d].snap = r.snap
    <3>1. drain'[d] = q
      BY <1>b, <1>1
    <3> QED
      BY <1>r, <3>1 DEF DaemonRecord
  <2>2. UNCHANGED <<dir, lines>> /\ OneNamePerInode' /\ HookWrote'
    BY <1>0, <1>1 DEF queue, OneNamePerInode, HookWrote
  <2>3. DaemonOK(d)'
    BY <2>1, <2>2, DaemonFacts
    DEF DaemonOK, ClaimHeld, SidecarOwn, StampsCurrent, Stamped, Named
  <2> QED
    BY <2>2, <2>3, SoleBooks
<1>2. ASSUME NEW n \in Alts, AppendTo(n, S),
             IF r.side = Null THEN Unused(n) /\ n = FreshAlt ELSE n = r.side,
             Becomes(d, [q EXCEPT !.side = n])
      PROVE  Books'
  <2>1. /\ drain'[d].pc = "batch" /\ drain'[d].todo = r.todo /\ drain'[d].cur = r.cur
        /\ drain'[d].stage = r.stage /\ drain'[d].seen = r.seen
        /\ drain'[d].batch \subseteq r.batch /\ drain'[d].doing = Null
        /\ drain'[d].defer = r.defer \cup S /\ drain'[d].side = n
        /\ drain'[d].snap = r.snap
    <3>1. drain'[d] = [q EXCEPT !.side = n]
      BY <1>b, <1>2
    <3> QED
      BY <1>r, <3>1 DEF DaemonRecord
  <2>2. /\ n \in Names \ {"live"} /\ n # Null
        /\ r.side # Null => n = r.side
        /\ r.side = Null => dir[n] = Null
        /\ r.cur # Null /\ dir[r.cur] # Null
    BY <1>2, DaemonFacts DEF Unused, DaemonOK, ClaimHeld
  <2>3. n # r.cur /\ n \notin r.todo /\ r.snap[n] = Null
    <3>1. CASE r.side # Null
      BY <2>2, <3>1, DaemonFacts DEF DaemonOK, SidecarOwn
    <3>2. CASE r.side = Null
      BY <2>2, <3>2, DaemonFacts DEF DaemonOK, ClaimHeld, StampsCurrent
    <3> QED
      BY <3>1, <3>2
  <2>4. /\ dir'[n] \in Inodes
        /\ dir[n] # Null => dir'[n] = dir[n]
        /\ dir[n] = Null => \A h \in Hooks : hook[h].fd # dir'[n]
        /\ \A m \in Names \ {n} :
             /\ dir'[m] = dir[m]
             /\ dir[m] # Null => lines'[dir[m]] = lines[dir[m]]
        /\ \A f \in Files : lines'[dir'[n]][f] > 0 =>
             f \in S \/ (dir[n] # Null /\ lines[dir[n]][f] > 0)
    BY <1>0, <1>2, <2>2, AppendFacts
  <2>5. SidecarOwn(d)'
    <3>1. \A h \in Hooks : hook'[h].fd # dir'[n]
      BY <2>2, <2>4, DaemonFacts DEF DaemonOK, SidecarOwn
    <3>2. Named(dir[n])' \subseteq r.defer \cup S
      BY <2>2, <2>4, DaemonFacts DEF DaemonOK, SidecarOwn, Named
    <3> QED
      BY <2>1, <2>3, <2>4, <3>1, <3>2, DaemonFacts DEF SidecarOwn
  <2>6. StampsCurrent(d)'
    BY <2>1, <2>3, <2>4, DaemonFacts DEF DaemonOK, StampsCurrent
  <2>7. ClaimHeld(d)'
    BY <2>1, <2>2, <2>3, <2>4, DaemonFacts DEF DaemonOK, ClaimHeld, Stamped
  <2>8. OneNamePerInode' /\ HookWrote'
    BY <1>2, <2>2, AppendKeepsQueue
  <2> QED
    BY <2>5, <2>6, <2>7, <2>8, SoleBooks DEF DaemonOK
<1> QED
  BY <1>1, <1>2 DEF Defer

\* Charging a failure to a path, and dropping or deferring it.
LEMMA RequeueKeepsBooks ==
  ASSUME Books, TypeOK', SoleDaemon, NEW d \in Daemons, NEW f \in Files,
         NEW cost \in {0, 1}, Requeue(d, f, cost), drain[d].pc \in {"batch", "index"}
  PROVE  Books'
<1> DEFINE r == drain[d]
           q == [r EXCEPT !.pc = "batch", !.doing = Null, !.got = 0,
                          !.batch = @ \ {f}]
<1>1. CASE Defer(d, {f}, cost)
  BY <1>1, DeferKeepsBooks DEF Requeue
<1>2. CASE Becomes(d, q) /\ UNCHANGED queue
  <2>1. drain'[d] = q
    BY <1>2, BecomesIs DEF Books
  <2>2. r \in DaemonRecord
    BY DaemonFacts
  <2>3. /\ drain'[d].pc = "batch" /\ drain'[d].todo = r.todo /\ drain'[d].cur = r.cur
        /\ drain'[d].stage = r.stage /\ drain'[d].seen = r.seen
        /\ drain'[d].batch \subseteq r.batch /\ drain'[d].doing = Null
        /\ drain'[d].defer = r.defer /\ drain'[d].side = r.side
        /\ drain'[d].snap = r.snap
    BY <2>1, <2>2 DEF DaemonRecord
  <2>4. UNCHANGED <<dir, lines, hook>>
    BY <1>2 DEF queue, Requeue
  <2>5. OneNamePerInode' /\ HookWrote'
    BY <2>4 DEF Books, OneNamePerInode, HookWrote
  <2>6. DaemonOK(d)'
    BY <2>3, <2>4, DaemonFacts
    DEF DaemonOK, ClaimHeld, SidecarOwn, StampsCurrent, Stamped, Named
  <2> QED
    BY <2>5, <2>6, SoleBooks
<1> QED
  BY <1>1, <1>2 DEF Requeue

\* Unlinking or keeping names, and renaming the live queue to a name nobody has,
\* gives no file a second name.
LEMMA DirKeepsQueue ==
  ASSUME Books, UNCHANGED <<lines, hook>>, "live" \in Names,
         \/ UNCHANGED dir
         \/ \E n \in Names \cup {Null} :
              \A m \in Names : dir'[m] = IF m = n THEN Null ELSE dir[m]
         \/ \E n \in Names \ {"live"} :
              /\ dir[n] = Null
              /\ \A m \in Names : dir'[m] = IF m = "live" THEN Null
                                            ELSE IF m = n THEN dir["live"] ELSE dir[m]
  PROVE  OneNamePerInode' /\ HookWrote'
<1>1. HookWrote'
  BY DEF Books, HookWrote
<1>2. CASE UNCHANGED dir
  BY <1>1, <1>2 DEF Books, OneNamePerInode
<1>3. CASE \E n \in Names \cup {Null} :
             \A m \in Names : dir'[m] = IF m = n THEN Null ELSE dir[m]
  BY <1>1, <1>3 DEF Books, OneNamePerInode
<1>4. ASSUME NEW n \in Names \ {"live"}, dir[n] = Null,
             \A m \in Names : dir'[m] = IF m = "live" THEN Null
                                        ELSE IF m = n THEN dir["live"] ELSE dir[m]
      PROVE  OneNamePerInode'
  <2>1. \A m \in Names \ {"live", n} : dir'[m] = dir[m]
    BY <1>4
  <2>2. dir'["live"] = Null /\ dir'[n] = dir["live"]
    BY <1>4
  <2> QED
    BY <2>1, <2>2 DEF Books, OneNamePerInode
<1> QED
  BY <1>1, <1>2, <1>3, <1>4

\* The steps of the daemon that rename or delete queue files.
LEMMA DirKeepsBooks ==
  ASSUME Books, TypeOK', SoleDaemon, NEW d \in Daemons, UNCHANGED <<lines, hook>>
  PROVE  RecoverUnreadable(d) \/ Claim(d) \/ Clear(d) \/ RemoveSidecar(d) => Books'
<1> DEFINE r == drain[d]
<1>0. TypeOK /\ "live" \in Names
  BY DEF Books, Names
<1>r. r \in DaemonRecord
  BY DaemonFacts
<1>b. ASSUME NEW x, Becomes(d, x)
      PROVE  drain'[d] = x
  BY <1>0, <1>b, BecomesIs
<1>d. ASSUME NEW n \in Names \cup {Null}, dir' = [dir EXCEPT ![n] = Null]
      PROVE  \A m \in Names : dir'[m] = IF m = n THEN Null ELSE dir[m]
  BY <1>0, <1>d DEF TypeOK
<1>1. ASSUME RecoverUnreadable(d)
      PROVE  Books'
  <2>1. PICK n \in r.todo :
          \/ /\ dir' = [dir EXCEPT ![n] = Null]
             /\ Becomes(d, [r EXCEPT !.todo = @ \ {n}, !.snap[n] = Null])
          \/ UNCHANGED dir /\ Becomes(d, [r EXCEPT !.todo = @ \ {n}])
    BY <1>1 DEF RecoverUnreadable
  <2>2. n \in Names \ {"live"} /\ r.pc = "recover"
    BY <1>1, DaemonFacts DEF RecoverUnreadable
  <2>3. CASE dir' = [dir EXCEPT ![n] = Null]
             /\ Becomes(d, [r EXCEPT !.todo = @ \ {n}, !.snap[n] = Null])
    <3>1. drain'[d] = [r EXCEPT !.todo = @ \ {n}, !.snap[n] = Null]
      BY <1>b, <2>3
    <3>2. /\ drain'[d].pc = "recover" /\ drain'[d].todo = r.todo \ {n}
          /\ drain'[d].side = r.side /\ drain'[d].defer = r.defer
          /\ drain'[d].cur = r.cur /\ drain'[d].snap = [r.snap EXCEPT ![n] = Null]
      BY <1>r, <2>2, <3>1 DEF DaemonRecord
    <3>3. \A m \in Names : /\ dir'[m] = IF m = n THEN Null ELSE dir[m]
                           /\ drain'[d].snap[m] = IF m = n THEN Null ELSE r.snap[m]
      <4>1. \A m \in Names : dir'[m] = IF m = n THEN Null ELSE dir[m]
        BY <1>d, <2>2, <2>3
      <4>2. \A m \in Names : drain'[d].snap[m] = IF m = n THEN Null ELSE r.snap[m]
        BY <3>2, DaemonFacts
      <4> QED
        BY <4>1, <4>2
    <3>4. DaemonOK(d)'
      BY <2>2, <3>2, <3>3, DaemonFacts
      DEF DaemonOK, ClaimHeld, SidecarOwn, StampsCurrent, Named
    <3>5. OneNamePerInode' /\ HookWrote'
      BY <1>0, <2>2, <3>3, DirKeepsQueue
    <3> QED
      BY <3>4, <3>5, SoleBooks
  <2>4. CASE UNCHANGED dir /\ Becomes(d, [r EXCEPT !.todo = @ \ {n}])
    <3>1. drain'[d] = [r EXCEPT !.todo = @ \ {n}]
      BY <1>b, <2>4
    <3>2. /\ drain'[d].pc = "recover" /\ drain'[d].todo = r.todo \ {n}
          /\ drain'[d].side = r.side /\ drain'[d].defer = r.defer
          /\ drain'[d].cur = r.cur /\ drain'[d].snap = r.snap
      BY <1>r, <2>2, <3>1 DEF DaemonRecord
    <3>3. DaemonOK(d)'
      BY <2>2, <2>4, <3>2, DaemonFacts
      DEF DaemonOK, ClaimHeld, SidecarOwn, StampsCurrent, Named
    <3>4. OneNamePerInode' /\ HookWrote'
      BY <1>0, <2>4, DirKeepsQueue
    <3> QED
      BY <3>3, <3>4, SoleBooks
  <2> QED
    BY <2>1, <2>3, <2>4
<1>2. ASSUME Claim(d)
      PROVE  Books'
  <2>1. CASE /\ dir["live"] # Null
             /\ dir' = [dir EXCEPT !["live"] = Null, ![r.cur] = dir["live"]]
             /\ Becomes(d, [r EXCEPT !.pc = "read"])
    <3>1. drain'[d] = [r EXCEPT !.pc = "read"]
      BY <1>b, <2>1
    <3>2. /\ drain'[d].pc = "read" /\ drain'[d].todo = r.todo /\ r.pc = "claim"
          /\ drain'[d].side = r.side /\ drain'[d].defer = r.defer
          /\ drain'[d].cur = r.cur /\ drain'[d].snap = r.snap
      BY <1>r, <1>2, <3>1 DEF DaemonRecord, Claim
    <3>3. /\ r.cur \in Names \ {"live"} /\ dir[r.cur] = Null
          /\ r.snap[r.cur] = Null
      BY <3>2, DaemonFacts DEF DaemonOK, ClaimHeld, StampsCurrent, DaemonState
    <3>4. \A m \in Names : dir'[m] = IF m = "live" THEN Null
                                     ELSE IF m = r.cur THEN dir["live"] ELSE dir[m]
      <4>1. dir' = [dir EXCEPT !["live"] = Null, ![r.cur] = dir["live"]]
        BY <2>1
      <4>2. dir \in [Names -> Inodes \cup {Null}] /\ r.cur # "live"
        BY <1>0, <3>3 DEF TypeOK
      <4> DEFINE e == [dir EXCEPT !["live"] = Null]
      <4>3. e \in [Names -> Inodes \cup {Null}] /\ e["live"] = Null
            /\ \A m \in Names \ {"live"} : e[m] = dir[m]
        BY <1>0, <4>2
      <4>4. dir' = [e EXCEPT ![r.cur] = dir["live"]]
        BY <4>1
      <4> HIDE DEF e
      <4>5. dir'[r.cur] = dir["live"] /\ \A m \in Names \ {r.cur} : dir'[m] = e[m]
        BY <3>3, <4>3, <4>4
      <4> QED
        BY <4>2, <4>3, <4>5
    <3>5. DaemonOK(d)'
      <4>1. /\ \A m \in Names \ {"live"} : dir[m] # Null => dir'[m] = dir[m]
            /\ dir'[r.cur] # Null
        BY <2>1, <3>3, <3>4
      <4>2. ClaimHeld(d)' /\ StampsCurrent(d)'
        BY <3>2, <3>3, <4>1, DaemonFacts DEF DaemonOK, ClaimHeld, StampsCurrent
      <4>3. SidecarOwn(d)'
        BY <3>2, <3>3, <4>1, DaemonFacts DEF DaemonOK, SidecarOwn, Named
      <4> QED
        BY <4>2, <4>3 DEF DaemonOK
    <3>6. OneNamePerInode' /\ HookWrote'
      BY <1>0, <3>3, <3>4, DirKeepsQueue
    <3> QED
      BY <3>5, <3>6, SoleBooks
  <2>2. CASE UNCHANGED dir /\ Becomes(d, [r EXCEPT !.pc = "requeue", !.cur = Null])
    <3>1. drain'[d] = [r EXCEPT !.pc = "requeue", !.cur = Null]
      BY <1>b, <2>2
    <3>2. /\ drain'[d].pc = "requeue" /\ drain'[d].todo = r.todo /\ r.pc = "claim"
          /\ drain'[d].side = r.side /\ drain'[d].defer = r.defer
          /\ drain'[d].cur = Null /\ drain'[d].snap = r.snap
      BY <1>r, <1>2, <3>1 DEF DaemonRecord, Claim
    <3>3. DaemonOK(d)'
      BY <2>2, <3>2, DaemonFacts
      DEF DaemonOK, ClaimHeld, SidecarOwn, StampsCurrent, Named
    <3>4. OneNamePerInode' /\ HookWrote'
      BY <1>0, <2>2, DirKeepsQueue
    <3> QED
      BY <3>3, <3>4, SoleBooks
  <2> QED
    BY <1>2, <2>1, <2>2 DEF Claim
<1>3. ASSUME Clear(d)
      PROVE  Books'
  <2> DEFINE done == [r EXCEPT
                       !.pc = IF r.stage = "a" THEN "recover" ELSE "requeue",
                       !.todo = @ \ {r.cur}, !.cur = Null, !.seen = NoLines]
  <2>1. /\ r.pc \in {"clear", "batch"} /\ r.cur \in Names \ {"live"}
        /\ dir[r.cur] \in Inodes
    BY <1>3, DaemonFacts DEF Clear, DaemonOK, ClaimHeld
  <2>2. ASSUME NEW s, drain'[d] = [done EXCEPT !.snap[r.cur] = s]
        PROVE  /\ drain'[d].pc \in {"recover", "requeue"}
               /\ drain'[d].todo = r.todo \ {r.cur}
               /\ drain'[d].side = r.side /\ drain'[d].defer = r.defer
               /\ drain'[d].cur = Null /\ drain'[d].snap = [r.snap EXCEPT ![r.cur] = s]
    BY <1>r, <2>2 DEF DaemonRecord
  <2>5. done.snap = r.snap
    BY <1>r DEF DaemonRecord
  <2> HIDE DEF done
  <2>3. CASE /\ dir' = [dir EXCEPT ![r.cur] = Null]
             /\ Becomes(d, [done EXCEPT !.snap[r.cur] =
                              IF r.stage = "a" THEN Null ELSE @])
    <3>1. drain'[d] = [done EXCEPT !.snap[r.cur] =
                         IF r.stage = "a" THEN Null ELSE done.snap[r.cur]]
      BY <1>b, <2>3
    <3>2. (IF r.stage = "a" THEN Null ELSE r.snap[r.cur]) = Null
      BY <1>3, <2>1, DaemonFacts DEF Clear, DaemonOK, ClaimHeld, DaemonRecord
    <3>3. drain'[d] = [done EXCEPT !.snap[r.cur] = Null]
      BY <2>5, <3>1, <3>2
    <3>4. \A m \in Names : /\ dir'[m] = IF m = r.cur THEN Null ELSE dir[m]
                           /\ drain'[d].snap[m] = IF m = r.cur THEN Null ELSE r.snap[m]
      <4>1. \A m \in Names : dir'[m] = IF m = r.cur THEN Null ELSE dir[m]
        BY <1>d, <2>1, <2>3
      <4>2. drain'[d].snap = [r.snap EXCEPT ![r.cur] = Null]
        BY <2>2, <3>3
      <4>3. \A m \in Names : drain'[d].snap[m] = IF m = r.cur THEN Null ELSE r.snap[m]
        BY <4>2, DaemonFacts
      <4> QED
        BY <4>1, <4>3
    <3>f. /\ drain'[d].pc \in {"recover", "requeue"}
          /\ drain'[d].todo = r.todo \ {r.cur}
          /\ drain'[d].side = r.side /\ drain'[d].defer = r.defer
          /\ drain'[d].cur = Null
      BY <2>2, <3>3
    <3>5. DaemonOK(d)'
      BY <2>1, <3>f, <3>4, DaemonFacts
      DEF DaemonOK, ClaimHeld, SidecarOwn, StampsCurrent, Named
    <3>6. OneNamePerInode' /\ HookWrote'
      BY <1>0, <2>1, <3>4, DirKeepsQueue
    <3> QED
      BY <3>5, <3>6, SoleBooks
  <2>4. CASE /\ UNCHANGED dir
             /\ Becomes(d, [done EXCEPT !.snap[r.cur] = <<dir[r.cur], r.seen>>])
    <3>1. drain'[d] = [done EXCEPT !.snap[r.cur] = <<dir[r.cur], r.seen>>]
      BY <1>b, <2>4
    <3>2. \A m \in Names : drain'[d].snap[m] =
            IF m = r.cur THEN <<dir[r.cur], r.seen>> ELSE r.snap[m]
      <4>1. drain'[d].snap = [r.snap EXCEPT ![r.cur] = <<dir[r.cur], r.seen>>]
        BY <2>2, <3>1
      <4> QED
        BY <4>1, DaemonFacts
    <3>3. \A f \in Files : r.seen[f] <= lines[dir[r.cur]][f]
      BY <2>1, DaemonFacts DEF DaemonOK, ClaimHeld
    <3>f. /\ drain'[d].pc \in {"recover", "requeue"}
          /\ drain'[d].todo = r.todo \ {r.cur}
          /\ drain'[d].side = r.side /\ drain'[d].defer = r.defer
          /\ drain'[d].cur = Null
      BY <2>2, <3>1
    <3>4. DaemonOK(d)'
      BY <2>1, <2>4, <3>f, <3>2, <3>3, DaemonFacts
      DEF DaemonOK, ClaimHeld, SidecarOwn, StampsCurrent, Named
    <3>5. OneNamePerInode' /\ HookWrote'
      BY <1>0, <2>4, DirKeepsQueue
    <3> QED
      BY <3>4, <3>5, SoleBooks
  <2> QED
    BY <1>3, <2>3, <2>4 DEF Clear, done
<1>4. ASSUME RemoveSidecar(d)
      PROVE  Books'
  <2>1. Becomes(d, NextCycle(d))
    BY <1>4 DEF RemoveSidecar
  <2>2. /\ drain'[d].todo = {} /\ drain'[d].side = Null
        /\ drain'[d].pc = "idle" /\ drain'[d].snap = r.snap
    BY <1>b, <2>1 DEF NextCycle, NewDaemon
  <2>3. \/ UNCHANGED dir
        \/ \A m \in Names : dir'[m] = IF m = r.side THEN Null ELSE dir[m]
    BY <1>4 DEF RemoveSidecar
  <2>4. r.side \in Names \cup {Null} /\ (r.side # Null => r.snap[r.side] = Null)
    BY DaemonFacts DEF DaemonOK, SidecarOwn
  <2>5. DaemonOK(d)'
    BY <2>2, <2>3, <2>4, DaemonFacts
    DEF DaemonOK, ClaimHeld, SidecarOwn, StampsCurrent
  <2>6. OneNamePerInode' /\ HookWrote'
    BY <1>0, <2>3, <2>4, DirKeepsQueue
  <2> QED
    BY <2>5, <2>6, SoleBooks
<1> QED
  BY <1>1, <1>2, <1>3, <1>4

\* Every step of a daemon working alone keeps the invariant.
LEMMA BooksStep == SoleDaemon /\ Books /\ [Next]_vars => Books'
<1>s. SUFFICES ASSUME SoleDaemon, Books, [Next]_vars
               PROVE  Books'
  OBVIOUS
<1>0. TypeOK /\ TypeOK'
  BY <1>s, TypeStep DEF Books
<1>1. CASE UNCHANGED vars
  BY <1>1, <1>s, <1>0
  DEF vars, Books, OneNamePerInode, HookWrote, ClaimHeld, SidecarOwn, StampsCurrent,
      Stamped, Named
<1>2. ASSUME NEW h \in Hooks,
             (\E S \in SUBSET Files : EditFiles(h, S)) \/ HookStep(h) \/ HookFails(h)
      PROVE  Books'
  BY <1>s, <1>0, <1>2, HookKeepsBooks
<1>3. ASSUME NEW d \in Daemons,
             \/ Start(d) \/ Retire(d) \/ Leave(d) \/ Crash(d) \/ DrainThrows(d)
             \/ BeginDrain(d) \/ RecoverNext(d) \/ SkipBlocked(d) \/ Fingerprint(d)
             \/ IndexPath(d) \/ ChooseClaim(d) \/ ReadClaim(d)
      PROVE  Books'
  <2>1. UNCHANGED <<dir, lines, hook>>
    BY <1>3 DEF Start, Retire, Leave, Crash, DrainThrows, BeginDrain, RecoverNext,
                SkipBlocked, Fingerprint, IndexPath, ChooseClaim, ReadClaim
  <2> QED
    BY <1>s, <1>0, <1>3, <2>1, MemoryKeepsBooks, SMTT(30)
<1>4. ASSUME NEW d \in Daemons,
             RecoverUnreadable(d) \/ Claim(d) \/ Clear(d) \/ RemoveSidecar(d)
      PROVE  Books'
  <2>1. UNCHANGED <<lines, hook>>
    BY <1>4 DEF RecoverUnreadable, Claim, Clear, RemoveSidecar
  <2> QED
    BY <1>s, <1>0, <1>4, <2>1, DirKeepsBooks
<1>5. ASSUME NEW d \in Daemons, FingerprintFails(d) \/ IndexFails(d)
      PROVE  Books'
  <2>1. CASE FingerprintFails(d)
    <3>1. PICK f \in drain[d].batch : Requeue(d, f, 1)
      BY <2>1 DEF FingerprintFails
    <3>2. f \in Files /\ drain[d].pc \in {"batch", "index"}
      BY <1>s, <2>1, DaemonFacts DEF FingerprintFails
    <3> QED
      BY <1>s, <1>0, <3>1, <3>2, RequeueKeepsBooks
  <2>2. CASE IndexFails(d)
    <3>1. drain[d].doing \in Files /\ drain[d].pc \in {"batch", "index"}
      BY <1>s, <2>2, DaemonFacts DEF IndexFails
    <3>2. PICK c \in {0, 1} : Requeue(d, drain[d].doing, c)
      BY <2>2 DEF IndexFails
    <3> QED
      BY <1>s, <1>0, <3>1, <3>2, RequeueKeepsBooks
  <2> QED
    BY <1>5, <2>1, <2>2
<1>6. ASSUME NEW d \in Daemons, HandBack(d)
      PROVE  Books'
  <2>1. /\ drain[d].batch \in SUBSET Files /\ drain[d].pc \in {"batch", "index"}
        /\ drain[d].pc = "batch" /\ UNCHANGED hook
    BY <1>s, <1>6, DaemonFacts DEF HandBack
  <2>2. CASE Defer(d, drain[d].batch, 1)
    BY <1>s, <1>0, <2>1, <2>2, DeferKeepsBooks
  <2>3. CASE /\ AppendTo("live", drain[d].batch)
             /\ Becomes(d, [drain[d] EXCEPT !.batch = {}])
    BY <1>s, <1>0, <2>1, <2>3, LiveAppendKeepsBooks
  <2> QED
    BY <1>6, <2>2, <2>3 DEF HandBack
<1>7. ASSUME NEW d \in Daemons, Recheck(d) \/ FlushDeferred(d)
      PROVE  Books'
  <2>1. PICK S \in SUBSET Files : AppendTo("live", S) \/ UNCHANGED <<dir, lines>>
    <3>1. Extra(d) \in SUBSET Files /\ drain[d].defer \in SUBSET Files
      BY <1>s, NamedTyped, DaemonFacts DEF Extra
    <3> QED
      BY <1>7, <3>1 DEF Recheck, FlushDeferred, queue
  <2>2. UNCHANGED hook
    BY <1>7 DEF Recheck, FlushDeferred
  <2> QED
    BY <1>s, <1>0, <1>7, <2>1, <2>2, LiveAppendKeepsBooks
<1> QED
  BY <1>s, <1>1, <1>2, <1>3, <1>4, <1>5, <1>6, <1>7
  DEF Next, DrainStep, PathStep

\* A daemon alone on the queue directory never loses track of a queue file, for
\* any number of hooks, files and edits and any crash or failed call.
LEMMA BooksKept ==
  ASSUME SoleDaemon
  PROVE  Spec => []Books
<1>1. Init => Books
  <2> SUFFICES ASSUME Init
               PROVE  Books
    OBVIOUS
  <2>1. TypeOK
    BY InitTyped
  <2>2. OneNamePerInode /\ HookWrote
    BY DEF Init, OneNamePerInode, HookWrote, HookIdle
  <2>3. \A d \in Daemons : /\ drain[d].todo = {} /\ drain[d].side = Null
                           /\ drain[d].pc = "down"
                           /\ \A n \in Names : drain[d].snap[n] = Null
    BY DEF Init, NewDaemon
  <2>4. \A d \in Daemons : ClaimHeld(d) /\ SidecarOwn(d) /\ StampsCurrent(d)
    BY <2>3 DEF ClaimHeld, SidecarOwn, StampsCurrent
  <2> QED
    BY <2>1, <2>2, <2>4 DEF Books
<1>2. Books /\ [Next]_vars => Books'
  BY BooksStep
<1> QED
  BY <1>1, <1>2, PTL DEF Spec

-----------------------------------------------------------------------------
(***************************************************************************)
(* Versions: the rows of a file never go back.                              *)
(***************************************************************************)

\* A daemon takes up a path only by reading the file; every other step leaves it
\* at the path it is at, with what it read, or at none.
Reads(d) ==
  /\ drain[d].doing = Null
  /\ drain'[d].doing \in Files /\ drain'[d].got = disk[drain'[d].doing]
StaysAt(d) ==
  drain'[d].doing = drain[d].doing /\ drain'[d].got = drain[d].got

\* Only IndexPath writes rows, and it writes what was read.
Writes(d) ==
  /\ drain[d].doing \in Files /\ drain'[d].doing = Null
  /\ indexed' = [indexed EXCEPT ![drain[d].doing] = drain[d].got]

\* What a step of a daemon does to the path it is at, and to the rows.
LEMMA ReadingKept ==
  ASSUME TypeOK, NEW d \in Daemons,
         \/ Start(d) \/ Retire(d) \/ Leave(d) \/ Crash(d) \/ DrainThrows(d) \/ DrainStep(d)
  PROVE  /\ disk' = disk
         /\ \A c \in Daemons \ {d} : drain'[c] = drain[c]
         /\ \/ Writes(d)
            \/ indexed' = indexed /\ (Reads(d) \/ StaysAt(d) \/ drain'[d].doing = Null)
<1> DEFINE r == drain[d]
           Others == \A c \in Daemons \ {d} : drain'[c] = drain[c]
           All == /\ disk' = disk /\ Others
                  /\ \/ Writes(d)
                     \/ indexed' = indexed /\ (Reads(d) \/ StaysAt(d) \/ drain'[d].doing = Null)
<1>1. /\ r \in DaemonRecord /\ (r.pc = "index" <=> r.doing # Null)
      /\ Null \notin Files /\ r.doing \in Files \cup {Null} /\ r.batch \subseteq Files
  BY ConstantsAssumption DEF TypeOK, DaemonState, DaemonRecord
<1>2. ASSUME NEW q, Becomes(d, q)
      PROVE  drain'[d] = q /\ Others
  BY <1>2 DEF TypeOK, Becomes
<1>3. ASSUME NEW q, Becomes(d, q), q.doing = r.doing, q.got = r.got, UNCHANGED <<disk, indexed>>
      PROVE  All
  BY <1>2, <1>3 DEF StaysAt
<1>4. ASSUME NEW q, Becomes(d, q), q.doing = Null, UNCHANGED <<disk, indexed>>
      PROVE  All
  BY <1>2, <1>4
<1>5. ASSUME NEW S, NEW k, Defer(d, S, k), UNCHANGED <<disk, indexed>>
      PROVE  All
  <2> DEFINE q(n) == [r EXCEPT !.pc = "batch", !.doing = Null, !.got = 0, !.batch = @ \ S,
                               !.defer = @ \cup S, !.side = n]
             p == [r EXCEPT !.pc = "batch", !.doing = Null, !.got = 0, !.batch = @ \ S,
                            !.defer = @ \cup S]
  <2>1. (\A n : q(n).doing = Null) /\ p.doing = Null
    BY <1>1 DEF DaemonRecord
  <2>2. (\E n \in Alts : Becomes(d, q(n))) \/ Becomes(d, p)
    BY <1>5 DEF Defer
  <2> HIDE DEF q, p, All
  <2> QED
    BY <1>4, <1>5, <2>1, <2>2
<1>6. ASSUME NEW g, NEW k, Requeue(d, g, k)
      PROVE  All
  <2>1. CASE Defer(d, {g}, k)
    BY <1>5, <1>6, <2>1 DEF Requeue
  <2>2. CASE ~Defer(d, {g}, k)
    <3> DEFINE q == [r EXCEPT !.pc = "batch", !.doing = Null, !.got = 0, !.batch = @ \ {g}]
    <3>1. q.doing = Null
      BY <1>1 DEF DaemonRecord
    <3>2. Becomes(d, q) /\ UNCHANGED <<disk, indexed>>
      BY <1>6, <2>2 DEF Requeue
    <3> HIDE DEF q, All
    <3> QED
      BY <1>4, <3>1, <3>2
  <2> QED
    BY <2>1, <2>2
<1>7. ASSUME Start(d) \/ Leave(d) \/ Crash(d) \/ DrainThrows(d)
      PROVE  All
  <2>1. NewDaemon("idle").doing = Null /\ NewDaemon("down").doing = Null /\ NextCycle(d).doing = Null
    BY DEF NewDaemon, NextCycle
  <2> HIDE DEF All
  <2> QED
    BY <1>4, <1>7, <2>1 DEF Start, Leave, Crash, DrainThrows
<1>8. ASSUME Retire(d)
      PROVE  All
  <2> DEFINE q == [r EXCEPT !.retiring = TRUE]
  <2>1. q.doing = r.doing /\ q.got = r.got
    BY <1>1 DEF DaemonRecord
  <2>2. Becomes(d, q) /\ UNCHANGED <<disk, indexed>>
    BY <1>8 DEF Retire
  <2> HIDE DEF q, All
  <2> QED
    BY <1>3, <2>1, <2>2
<1>9. ASSUME BeginDrain(d)
      PROVE  All
  <2> DEFINE sn == [n \in Names |-> IF n \in Recoverable THEN r.snap[n] ELSE Null]
             q == [r EXCEPT !.pc = "recover", !.todo = Recoverable, !.snap = sn]
  <2> HIDE DEF sn
  <2>1. q.doing = r.doing /\ q.got = r.got
    BY <1>1 DEF DaemonRecord
  <2>2. Becomes(d, q) /\ UNCHANGED <<disk, indexed>>
    BY <1>9 DEF BeginDrain, sn
  <2> HIDE DEF q, All
  <2> QED
    BY <1>3, <2>1, <2>2
<1>10. ASSUME RecoverNext(d)
       PROVE  All
  <2> DEFINE b(n) == IF Stamped(d, n) THEN {} ELSE Named(dir[n])
             q(n) == [r EXCEPT !.pc = "batch", !.stage = "a", !.cur = n,
                               !.seen = lines[dir[n]], !.batch = b(n)]
  <2>1. (\E n \in r.todo : Becomes(d, q(n))) /\ UNCHANGED <<disk, indexed>>
    BY <1>10 DEF RecoverNext
  <2> HIDE DEF b
  <2>2. \A n : q(n).doing = r.doing /\ q(n).got = r.got
    BY <1>1 DEF DaemonRecord
  <2> HIDE DEF q, All
  <2> QED
    BY <1>3, <2>1, <2>2
<1>11. ASSUME RecoverUnreadable(d)
       PROVE  All
  <2> DEFINE q(n) == [r EXCEPT !.todo = @ \ {n}, !.snap[n] = Null]
             p(n) == [r EXCEPT !.todo = @ \ {n}]
  <2>1. /\ \A n : q(n).doing = r.doing /\ q(n).got = r.got
        /\ \A n : p(n).doing = r.doing /\ p(n).got = r.got
    BY <1>1 DEF DaemonRecord
  <2>2. /\ \E n \in r.todo : Becomes(d, q(n)) \/ Becomes(d, p(n))
        /\ UNCHANGED <<disk, indexed>>
    BY <1>11 DEF RecoverUnreadable
  <2> HIDE DEF q, p, All
  <2> QED
    BY <1>3, <2>1, <2>2
<1>12. ASSUME HandBack(d)
       PROVE  All
  <2> DEFINE q == [r EXCEPT !.batch = {}]
  <2>1. q.doing = r.doing /\ q.got = r.got
    BY <1>1 DEF DaemonRecord
  <2>2. (Becomes(d, q) \/ Defer(d, r.batch, 1)) /\ UNCHANGED <<disk, indexed>>
    BY <1>12 DEF HandBack
  <2> HIDE DEF q, All
  <2> QED
    BY <1>3, <1>5, <2>1, <2>2
<1>13. ASSUME SkipBlocked(d)
       PROVE  All
  <2> DEFINE q(g) == [r EXCEPT !.batch = @ \ {g}]
  <2>1. \A g : q(g).doing = r.doing /\ q(g).got = r.got
    BY <1>1 DEF DaemonRecord
  <2>2. (\E g \in Blocked : Becomes(d, q(g))) /\ UNCHANGED <<disk, indexed>>
    BY <1>13 DEF SkipBlocked
  <2> HIDE DEF q, All
  <2> QED
    BY <1>3, <2>1, <2>2
<1>14. ASSUME Fingerprint(d)
       PROVE  All
  <2>1. PICK f \in r.batch \ Blocked :
          Becomes(d, [r EXCEPT !.pc = "index", !.doing = f, !.got = disk[f], !.batch = @ \ {f}])
    BY <1>14 DEF Fingerprint
  <2> DEFINE q == [r EXCEPT !.pc = "index", !.doing = f, !.got = disk[f], !.batch = @ \ {f}]
  <2>2. q.doing = f /\ q.got = disk[f]
    BY <1>1 DEF DaemonRecord
  <2>3. drain'[d] = q /\ Others
    BY <1>2, <2>1
  <2>4. UNCHANGED <<disk, indexed>> /\ r.pc # "index"
    BY <1>14 DEF Fingerprint
  <2> HIDE DEF q
  <2> QED
    BY <1>1, <2>1, <2>2, <2>3, <2>4 DEF Reads
<1>15. ASSUME FingerprintFails(d) \/ IndexFails(d)
       PROVE  All
  <2> HIDE DEF All
  <2> QED
    BY <1>6, <1>15 DEF FingerprintFails, IndexFails
<1>16. ASSUME IndexPath(d)
       PROVE  All
  <2> DEFINE q == [r EXCEPT !.pc = "batch", !.doing = Null, !.got = 0]
  <2>1. q.doing = Null
    BY <1>1 DEF DaemonRecord
  <2>2. drain'[d] = q /\ Others
    BY <1>2, <1>16 DEF IndexPath
  <2>3. /\ r.pc = "index" /\ disk' = disk
        /\ indexed' = [indexed EXCEPT ![r.doing] = r.got]
    BY <1>16 DEF IndexPath
  <2> HIDE DEF q
  <2> QED
    BY <1>1, <2>1, <2>2, <2>3 DEF Writes
<1>17. ASSUME ChooseClaim(d) \/ Claim(d) \/ Recheck(d)
       PROVE  All
  <2> DEFINE q(pc) == [r EXCEPT !.pc = pc]
             p(pc, n) == [r EXCEPT !.pc = pc, !.cur = n]
  <2>1. /\ \A pc : q(pc).doing = r.doing /\ q(pc).got = r.got
        /\ \A pc, n : p(pc, n).doing = r.doing /\ p(pc, n).got = r.got
    BY <1>1 DEF DaemonRecord
  <2>2. UNCHANGED <<disk, indexed>>
    BY <1>17 DEF ChooseClaim, Claim, Recheck
  <2>3. \/ \E pc : Becomes(d, q(pc))
        \/ \E pc, n : Becomes(d, p(pc, n))
    BY <1>17 DEF ChooseClaim, Claim, Recheck
  <2> HIDE DEF q, p, All
  <2> QED
    BY <1>3, <2>1, <2>2, <2>3
<1>18. ASSUME ReadClaim(d)
       PROVE  All
  <2> DEFINE q == [r EXCEPT !.pc = "batch", !.stage = "b", !.seen = lines[dir[r.cur]],
                            !.batch = Named(dir[r.cur])]
             p == [r EXCEPT !.pc = "requeue", !.cur = Null]
  <2>1. /\ q.doing = r.doing /\ q.got = r.got
        /\ p.doing = r.doing /\ p.got = r.got
    BY <1>1 DEF DaemonRecord
  <2>2. (Becomes(d, q) \/ Becomes(d, p)) /\ UNCHANGED <<disk, indexed>>
    BY <1>18 DEF ReadClaim
  <2> HIDE DEF q, p, All
  <2> QED
    BY <1>3, <2>1, <2>2
<1>19. ASSUME Clear(d)
       PROVE  All
  <2> DEFINE pc == IF r.stage = "a" THEN "recover" ELSE "requeue"
             done == [r EXCEPT !.pc = pc, !.todo = @ \ {r.cur}, !.cur = Null, !.seen = NoLines]
             q(v) == [done EXCEPT !.snap[r.cur] = v]
  <2>1. (\E v : Becomes(d, q(v))) /\ UNCHANGED <<disk, indexed>>
    <3>1. CASE Becomes(d, q(IF r.stage = "a" THEN Null ELSE r.snap[r.cur]))
      BY <1>19, <3>1 DEF Clear
    <3>2. CASE Becomes(d, q(<<dir[r.cur], r.seen>>))
      BY <1>19, <3>2 DEF Clear
    <3> QED
      BY <1>19, <3>1, <3>2 DEF Clear
  <2> HIDE DEF pc
  <2>2. \A v : q(v).doing = r.doing /\ q(v).got = r.got
    BY <1>1 DEF DaemonRecord
  <2> HIDE DEF q, All
  <2> QED
    BY <1>3, <2>1, <2>2
<1>20. ASSUME FlushDeferred(d)
       PROVE  All
  <2> DEFINE q == [r EXCEPT !.pc = "tidy", !.defer = {}]
  <2>1. q.doing = r.doing /\ q.got = r.got /\ NextCycle(d).doing = Null
    BY <1>1 DEF DaemonRecord, NextCycle, NewDaemon
  <2>2. (Becomes(d, q) \/ Becomes(d, NextCycle(d))) /\ UNCHANGED <<disk, indexed>>
    BY <1>20 DEF FlushDeferred
  <2> HIDE DEF q, All
  <2> QED
    BY <1>3, <1>4, <2>1, <2>2
<1>21. ASSUME RemoveSidecar(d)
       PROVE  All
  <2>1. NextCycle(d).doing = Null
    BY DEF NextCycle, NewDaemon
  <2> HIDE DEF All
  <2> QED
    BY <1>4, <1>21, <2>1 DEF RemoveSidecar
<1> HIDE DEF All
<1>22. All
  BY <1>7, <1>8, <1>9, <1>10, <1>11, <1>12, <1>13, <1>14, <1>15, <1>16, <1>17, <1>18, <1>19,
     <1>20, <1>21 DEF DrainStep, PathStep
<1> QED
  BY <1>22 DEF All

\* What a step of a hook does: files get newer, and no daemon moves.
LEMMA HookVersions ==
  ASSUME TypeOK, NEW h \in Hooks,
         (\E S \in SUBSET Files : EditFiles(h, S)) \/ HookStep(h) \/ HookFails(h)
  PROVE  /\ drain' = drain /\ indexed' = indexed
         /\ \A f \in Files : disk[f] <= disk'[f]
<1>1. \A f \in Files : disk[f] \in Nat
  BY ConstantsAssumption DEF TypeOK
<1>2. CASE \E S \in SUBSET Files : EditFiles(h, S)
  <2>1. /\ drain' = drain /\ indexed' = indexed
        /\ \E S : \A f \in Files : disk'[f] = IF f \in S THEN disk[f] + 1 ELSE disk[f]
    BY <1>2 DEF EditFiles
  <2> QED
    BY <1>1, <2>1
<1>3. CASE HookStep(h) \/ HookFails(h)
  BY <1>1, <1>3 DEF HookStep, HookOpen, HookWrite, HookCheck, HookFails
<1> QED
  BY <1>2, <1>3

\* No step of a daemon alone, and none of a hook, puts versions out of order.
LEMMA VersionsStep ==
  ASSUME SoleDaemon, TypeOK, VersionsInOrder, [Next]_vars
  PROVE  VersionsInOrder'
<1>1. /\ Null \notin Files
      /\ \A f \in Files : disk[f] \in Nat /\ indexed[f] \in Nat
      /\ \A d \in Daemons : drain[d].got \in Nat
      /\ indexed \in [Files -> Nat]
  BY ConstantsAssumption DEF TypeOK, DaemonState, DaemonRecord
<1>2. ASSUME NEW h \in Hooks,
             (\E S \in SUBSET Files : EditFiles(h, S)) \/ HookStep(h) \/ HookFails(h)
      PROVE  VersionsInOrder'
  <2>1. /\ drain' = drain /\ indexed' = indexed
        /\ \A f \in Files : disk[f] <= disk'[f]
    BY <1>2, HookVersions
  <2>2. \A f \in Files : disk'[f] \in Nat
    <3>1. CASE \E S \in SUBSET Files : EditFiles(h, S)
      BY <1>1, <3>1 DEF EditFiles
    <3>2. CASE HookStep(h) \/ HookFails(h)
      BY <1>1, <3>2 DEF HookStep, HookOpen, HookWrite, HookCheck, HookFails
    <3> QED
      BY <1>2, <3>1, <3>2
  <2> QED
    BY <1>1, <2>1, <2>2 DEF VersionsInOrder
<1>3. ASSUME NEW d \in Daemons,
             \/ Start(d) \/ Retire(d) \/ Leave(d) \/ Crash(d) \/ DrainThrows(d)
             \/ DrainStep(d)
      PROVE  VersionsInOrder'
  <2>1. disk' = disk
    BY <1>3, ReadingKept
  <2>2. CASE Writes(d)
    <3>1. \A c \in Daemons : drain'[c].doing = Null
      BY <2>2 DEF SoleDaemon, Writes
    <3>2. drain[d].got <= disk[drain[d].doing]
      BY <2>2 DEF VersionsInOrder, Writes
    <3>3. \A f \in Files : indexed'[f] = IF f = drain[d].doing THEN drain[d].got
                                         ELSE indexed[f]
      BY <1>1, <2>2 DEF Writes
    <3> QED
      BY <1>1, <2>1, <3>1, <3>2, <3>3 DEF VersionsInOrder
  <2>3. CASE indexed' = indexed /\ (Reads(d) \/ StaysAt(d) \/ drain'[d].doing = Null)
    <3>1. \A c \in Daemons : c = d
      BY DEF SoleDaemon
    <3> QED
      BY <1>1, <2>1, <2>3, <3>1 DEF VersionsInOrder, Reads, StaysAt
  <2> QED
    BY <1>3, <2>2, <2>3, ReadingKept
<1>4. CASE UNCHANGED vars
  BY <1>4 DEF vars, VersionsInOrder
<1> QED
  BY <1>2, <1>3, <1>4 DEF Next

\* A daemon alone on the queue directory never loses track of a queue file, and
\* never writes rows older than those it replaces, for any number of hooks, files
\* and edits and any crash or failed call (worker.ts: drainOnce,
\* processDirtyBatch; dirty_queue.ts: appendToLiveQueue).
THEOREM BookkeepingCorrect ==
  ASSUME SoleDaemon
  PROVE  Spec => []IInv
<1>1. Init => VersionsInOrder
  BY ConstantsAssumption DEF Init, VersionsInOrder, NewDaemon
<1>2. TypeOK /\ VersionsInOrder /\ [Next]_vars => VersionsInOrder'
  BY VersionsStep
<1>3. Spec => []TypeOK
  BY TypeCorrect
<1>4. Spec => []Books
  BY BooksKept
<1> QED
  BY <1>1, <1>2, <1>3, <1>4, PTL DEF Spec, IInv

-----------------------------------------------------------------------------
(***************************************************************************)
(* No edit is lost in silence: each step of each process, case by case.     *)
(***************************************************************************)

\* What NoSilentLoss asks of a step for the file f.
Kept(f) ==
  \/ Owed(f)' \/ ~Stale(f)'
  \/ HookLost(f) \/ GivenUp(f) \/ Quarantined(f) \/ MemoryOnly(f) \/ ForwardFailed(f)

\* The queue file n names f, and the daemons will still get to it.
InQueue(n, f) ==
  dir[n] # Null /\ lines[dir[n]][f] > 0 /\ \A d \in Daemons : ~Spent(d, n, f)

\* A path in the live queue is owed: no daemon reads or deletes it there.
LEMMA LiveOwed ==
  ASSUME Books', NEW f \in Files, dir'["live"] # Null, lines'[dir'["live"]][f] > 0
  PROVE  Owed(f)'
<1>1. "live" \in Names
  BY DEF Names
<1>2. ASSUME NEW d \in Daemons
      PROVE  ~Spent(d, "live", f)'
  <2>1. /\ drain'[d].cur # "live" /\ drain'[d].side # "live"
        /\ drain'[d].snap["live"] = Null
    BY <1>1, ConstantsAssumption
    DEF Books, StampsCurrent, TypeOK, DaemonState, DaemonRecord, Names
  <2>2. <<dir'["live"], lines'[dir'["live"]]>> # Null
    BY <1>1, ConstantsAssumption DEF Books, TypeOK, Lines
  <2> QED
    BY <2>1, <2>2 DEF Spent, Stamped
<1> QED
  BY <1>1, <1>2 DEF Owed

\* A path in a queue file the only daemon has not dealt with is owed.
LEMMA QueueOwed ==
  ASSUME SoleDaemon, NEW d \in Daemons, NEW f \in Files, NEW n \in Names,
         dir'[n] # Null, lines'[dir'[n]][f] > 0, ~Spent(d, n, f)'
  PROVE  Owed(f)'
<1>1. \A c \in Daemons : ~Spent(c, n, f)'
  BY DEF SoleDaemon
<1> QED
  BY <1>1 DEF Owed

\* An appended path is in the live queue afterwards, and so is what was there.
LEMMA AppendedOwed ==
  ASSUME Books, Books', NEW S \in SUBSET Files, AppendTo("live", S), NEW f \in Files,
         f \in S \/ InQueue("live", f)
  PROVE  Owed(f)'
<1>0. "live" \in Names /\ TypeOK /\ TypeOK' /\ OneNamePerInode
  BY DEF Books, Names
<1>1. /\ dir'["live"] \in Inodes /\ dir'["live"] # Null
      /\ dir["live"] # Null => dir'["live"] = dir["live"]
      /\ \A i \in Inodes : \/ lines[i][f] <= lines'[i][f]
                           \/ dir["live"] = Null /\ i = dir'["live"]
      /\ f \in S => lines'[dir'["live"]][f] > 0
  BY <1>0, AppendFacts, ConstantsAssumption
<1>2. \A i \in Inodes : lines[i][f] \in Nat /\ lines'[i][f] \in Nat
  BY <1>0 DEF TypeOK, Lines
<1>3. lines'[dir'["live"]][f] > 0
  <2>1. CASE f \in S
    BY <1>1, <2>1
  <2>2. CASE InQueue("live", f)
    <3>1. dir["live"] # Null /\ lines[dir["live"]][f] > 0
      BY <2>2 DEF InQueue
    <3>2. dir'["live"] = dir["live"] /\ lines[dir["live"]][f] <= lines'[dir["live"]][f]
      BY <1>1, <3>1
    <3> QED
      BY <1>1, <1>2, <3>1, <3>2
  <2> QED
    BY <2>1, <2>2
<1> QED
  BY <1>1, <1>3, LiveOwed

\* A daemon whose cycle ends, however it ends, with the queue as it was: what it
\* held in memory is still named by a file it has not marked as processed.
LEMMA CycleEndKeeps ==
  ASSUME SoleDaemon, Books, NEW d \in Daemons, NEW f \in Files, Owed(f),
         UNCHANGED <<dir, lines, hook, disk>>,
         drain'[d].pc \in {"down", "idle"}, drain'[d].side = Null,
         drain'[d].defer = {},
         \A n \in Names : drain'[d].snap[n] \in {Null, drain[d].snap[n]}
  PROVE  Kept(f)
<1> DEFINE r == drain[d]
<1>1. ASSUME NEW n \in Names, dir[n] # Null, lines[dir[n]][f] > 0, ~Stamped(d, n)
      PROVE  Owed(f)'
  <2>1. ~Stamped(d, n)'
    <3>1. <<dir[n], lines[dir[n]]>> # Null
      BY <1>1, DaemonFacts
    <3> QED
      BY <1>1, <3>1 DEF Stamped
  <2>2. ~Spent(d, n, f)'
    BY <2>1, DaemonFacts DEF Spent
  <2> QED
    BY <1>1, <2>2, QueueOwed
<1>2. ASSUME NEW n \in Names, InQueue(n, f)
      PROVE  Owed(f)'
  BY <1>1, <1>2 DEF InQueue, Spent
<1>3. CASE \E h \in Hooks : hook[h].pc \in {"open", "write", "check"} /\ f \in hook[h].files
  BY <1>3 DEF Kept, Owed
<1>4. CASE f \in r.defer
  <2>1. CASE r.side = Null \/ dir[r.side] = Null \/ lines[dir[r.side]][f] = 0
    BY <1>4, <2>1 DEF Kept, MemoryOnly
  <2>2. CASE r.side # Null /\ dir[r.side] # Null /\ lines[dir[r.side]][f] # 0
    <3>1. r.side \in Names /\ r.snap[r.side] = Null
      BY <2>2, DaemonFacts DEF DaemonOK, SidecarOwn
    <3>2. ~Stamped(d, r.side)
      BY <2>2, <3>1, DaemonFacts DEF Stamped
    <3>3. lines[dir[r.side]][f] > 0
      <4>1. lines[dir[r.side]][f] \in Nat
        BY <2>2, <3>1, DaemonFacts
      <4> QED
        BY <2>2, <4>1
    <3> QED
      BY <1>1, <2>2, <3>1, <3>2, <3>3 DEF Kept
  <2> QED
    BY <2>1, <2>2
<1>5. CASE r.doing = f
  <2>1. r.pc = "index"
    BY <1>5, DaemonFacts
  <2>2. /\ r.cur \in Names /\ dir[r.cur] # Null
        /\ lines[dir[r.cur]][f] > 0 /\ ~Stamped(d, r.cur)
    BY <1>5, <2>1, DaemonFacts DEF DaemonOK, ClaimHeld
  <2> QED
    BY <1>1, <2>2 DEF Kept
<1>6. \/ \E n \in Names : InQueue(n, f)
      \/ \E h \in Hooks : hook[h].pc \in {"open", "write", "check"} /\ f \in hook[h].files
      \/ f \in r.defer \/ r.doing = f
  BY DEF Owed, InQueue, SoleDaemon
<1> QED
  BY <1>2, <1>3, <1>4, <1>5, <1>6 DEF Kept

\* Steps of a hook.
LEMMA HookKeeps ==
  ASSUME SoleDaemon, Books, Books', NEW h \in Hooks, NEW f \in Files, Owed(f),
         (\E S \in SUBSET Files : EditFiles(h, S)) \/ HookStep(h) \/ HookFails(h)
  PROVE  Kept(f)
<1>0. /\ TypeOK /\ TypeOK' /\ OneNamePerInode /\ HookWrote /\ "live" \in Names
      /\ hook[h] \in HookState
  BY DEF Books, Names, TypeOK
<1>d. /\ UNCHANGED drain
      /\ \A k \in Hooks \ {h} : hook'[k] = hook[k]
  BY <1>0 DEF EditFiles, HookStep, HookOpen, HookWrite, HookCheck, HookFails, TypeOK
<1>q. ASSUME NEW n \in Names, InQueue(n, f)
      PROVE  Owed(f)'
  <2>1. dir[n] # Null /\ dir[n] \in Inodes /\ lines[dir[n]][f] > 0
    BY <1>0, <1>q DEF InQueue, TypeOK
  <2>2. dir'[n] = dir[n] /\ \A g \in Files : lines[dir[n]][g] <= lines'[dir[n]][g]
    <3>1. \A i \in Inodes, g \in Files : lines[i][g] \in Nat
      BY <1>0 DEF TypeOK, Lines
    <3>2. CASE HookOpen(h)
      <4>1. AppendTo("live", {})
        BY <3>2 DEF HookOpen
      <4>2. /\ dir["live"] # Null => dir'["live"] = dir["live"]
            /\ \A m \in Names \ {"live"} :
                 /\ dir'[m] = dir[m]
                 /\ dir[m] # Null => dir'["live"] # dir[m]
            /\ \A i \in Inodes, g \in Files :
                 \/ lines[i][g] <= lines'[i][g]
                 \/ dir["live"] = Null /\ i = dir'["live"]
        BY <1>0, <4>1, AppendFacts
      <4> QED
        BY <2>1, <4>2
    <3>3. CASE HookWrite(h)
      <4>1. /\ UNCHANGED dir
            /\ lines' = [lines EXCEPT ![hook[h].fd] = WithLines(@, hook[h].files)]
        BY <3>3 DEF HookWrite
      <4>2. \A g \in Files : lines'[dir[n]][g] \in {lines[dir[n]][g], lines[dir[n]][g] + 1}
        BY <1>0, <2>1, <4>1 DEF TypeOK, WithLines
      <4> QED
        BY <2>1, <3>1, <4>1, <4>2
    <3>4. CASE UNCHANGED <<dir, lines>>
      BY <2>1, <3>1, <3>4
    <3> QED
      BY <3>2, <3>3, <3>4 DEF EditFiles, HookStep, HookCheck, HookFails
  <2>3. lines[dir[n]][f] \in Nat /\ lines'[dir[n]][f] \in Nat
    BY <1>0, <2>1 DEF TypeOK, Lines
  <2>4. ASSUME NEW d \in Daemons
        PROVE  ~Spent(d, n, f)'
    <3>1. ~Spent(d, n, f)
      BY <1>q DEF InQueue
    <3>2. ~Stamped(d, n)'
      BY <1>0, <1>d, <2>1, <2>2, <3>1, StampStaysStale DEF Spent, Books
    <3>3. drain[d].seen[f] \in Nat
      BY <1>0 DEF TypeOK, DaemonState, DaemonRecord, Lines
    <3> QED
      BY <1>d, <2>2, <2>3, <3>1, <3>2, <3>3 DEF Spent
  <2> QED
    BY <2>1, <2>2, <2>3, <2>4 DEF Owed
<1>o. CASE \E k \in Hooks \ {h} : hook[k].pc \in {"open", "write", "check"}
                                   /\ f \in hook[k].files
  BY <1>d, <1>o DEF Kept, Owed
<1>h. CASE hook[h].pc \in {"open", "write", "check"} /\ f \in hook[h].files
  <2>1. CASE \E S \in SUBSET Files : EditFiles(h, S)
    BY <1>h, <2>1 DEF EditFiles
  <2>2. CASE HookOpen(h)
    <3>1. hook'[h].pc = "write" /\ hook'[h].files = hook[h].files
      BY <1>0, <2>2 DEF HookOpen, HookState, TypeOK
    <3> QED
      BY <1>h, <3>1 DEF Kept, Owed
  <2>3. CASE HookWrite(h)
    <3>1. hook'[h].pc = "check" /\ hook'[h].files = hook[h].files
      BY <1>0, <2>3 DEF HookWrite, HookState, TypeOK
    <3> QED
      BY <1>h, <3>1 DEF Kept, Owed
  <2>4. CASE HookFails(h)
    <3>1. hook'[h].pc = "lost"
      BY <1>0, <2>4 DEF HookFails, TypeOK, HookIdle
    <3> QED
      BY <1>h, <3>1 DEF Kept, HookLost
  <2>5. CASE HookCheck(h)
    <3>1. CASE dir["live"] = hook[h].fd
      <4>1. /\ dir'["live"] = dir["live"] /\ lines' = lines
            /\ hook[h].fd # Null /\ lines[hook[h].fd][f] > 0
        BY <1>0, <1>h, <2>5 DEF HookCheck, HookWrote
      <4> QED
        BY <3>1, <4>1, LiveOwed DEF Kept
    <3>2. CASE dir["live"] # hook[h].fd /\ hook[h].tries < AppendAttempts
      <4>1. hook'[h] = [hook[h] EXCEPT !.pc = "open", !.fd = Null]
        BY <1>0, <2>5, <3>2 DEF HookCheck, TypeOK
      <4>2. hook'[h].pc = "open" /\ hook'[h].files = hook[h].files
        BY <1>0, <4>1 DEF HookState
      <4> QED
        BY <1>h, <4>2 DEF Kept, Owed
    <3>3. CASE dir["live"] # hook[h].fd /\ ~(hook[h].tries < AppendAttempts)
      <4>1. hook'[h] = [HookIdle EXCEPT !.pc = "lost", !.files = hook[h].files,
                                        !.reported = Cardinality(hook[h].files)]
        BY <1>0, <2>5, <3>3 DEF HookCheck, TypeOK
      <4>2. hook'[h].pc = "lost"
        BY <4>1 DEF HookIdle
      <4> QED
        BY <1>h, <4>2 DEF Kept, HookLost
    <3> QED
      BY <3>1, <3>2, <3>3
  <2> QED
    BY <2>1, <2>2, <2>3, <2>4, <2>5 DEF HookStep
<1>f. CASE \E d \in Daemons : f \in drain[d].defer
  BY <1>d, <1>f DEF Kept, Owed
<1>i. CASE \E d \in Daemons : drain[d].doing = f /\ drain[d].got = disk[f]
  <2>1. CASE disk'[f] = disk[f]
    BY <1>d, <1>i, <2>1 DEF Kept, Owed
  <2>2. CASE disk'[f] # disk[f]
    <3>1. PICK S \in SUBSET Files : EditFiles(h, S)
      BY <2>2 DEF HookStep, HookOpen, HookWrite, HookCheck, HookFails
    <3>2. f \in S
      BY <1>0, <2>2, <3>1 DEF EditFiles, TypeOK
    <3>3. hook'[h] = [HookIdle EXCEPT !.pc = "open", !.files = S]
      BY <1>0, <3>1 DEF EditFiles, TypeOK
    <3>4. hook'[h].pc = "open" /\ hook'[h].files = S
      BY <3>3 DEF HookIdle
    <3> QED
      BY <3>2, <3>4 DEF Kept, Owed
  <2> QED
    BY <2>1, <2>2
<1>c. \/ \E n \in Names : InQueue(n, f)
      \/ \E k \in Hooks \ {h} : hook[k].pc \in {"open", "write", "check"}
                                /\ f \in hook[k].files
      \/ hook[h].pc \in {"open", "write", "check"} /\ f \in hook[h].files
      \/ \E d \in Daemons : f \in drain[d].defer
      \/ \E d \in Daemons : drain[d].doing = f /\ drain[d].got = disk[f]
  BY DEF Owed, InQueue
<1> QED
  BY <1>q, <1>o, <1>h, <1>f, <1>i, <1>c DEF Kept

\* The three ways a file is owed that a daemon's step can disturb.
LEMMA OwedCases ==
  ASSUME SoleDaemon, NEW d \in Daemons, NEW f \in Files, Owed(f), UNCHANGED hook,
         \A n \in Names : InQueue(n, f) => Kept(f),
         f \in drain[d].defer => Kept(f),
         drain[d].doing = f /\ drain[d].got = disk[f] => Kept(f)
  PROVE  Kept(f)
<1>1. CASE \E h \in Hooks : hook[h].pc \in {"open", "write", "check"} /\ f \in hook[h].files
  BY <1>1 DEF Kept, Owed
<1>2. \/ \E n \in Names : InQueue(n, f)
      \/ f \in drain[d].defer
      \/ drain[d].doing = f /\ drain[d].got = disk[f]
      \/ \E h \in Hooks : hook[h].pc \in {"open", "write", "check"} /\ f \in hook[h].files
  BY DEF Owed, InQueue, SoleDaemon
<1> QED
  BY <1>1, <1>2

\* A daemon's step that keeps its deferred paths, is at no path, and does not
\* touch or mark as processed any file that names f.
LEMMA QueueKeeps ==
  ASSUME SoleDaemon, Books, NEW d \in Daemons, NEW f \in Files, Owed(f), UNCHANGED hook,
         drain[d].pc # "index",
         drain[d].defer \subseteq drain'[d].defer,
         \A n \in Names : InQueue(n, f) =>
           \/ Kept(f)
           \/ dir'[n] = dir[n] /\ lines'[dir[n]][f] > 0 /\ ~Spent(d, n, f)'
  PROVE  Kept(f)
<1>1. drain[d].doing # f
  BY DaemonFacts
<1>2. f \in drain[d].defer => Kept(f)
  BY DEF Kept, Owed
<1>3. ASSUME NEW n \in Names, InQueue(n, f)
      PROVE  Kept(f)
  <2>1. CASE dir'[n] = dir[n] /\ lines'[dir[n]][f] > 0 /\ ~Spent(d, n, f)'
    <3>1. dir'[n] # Null
      BY <1>3, <2>1 DEF InQueue
    <3>2. lines'[dir'[n]][f] > 0
      BY <2>1
    <3> QED
      BY <2>1, <3>1, <3>2, QueueOwed DEF Kept
  <2> QED
    BY <1>3, <2>1
<1> QED
  BY <1>1, <1>2, <1>3, OwedCases

\* Deferring the paths S: they are in memory, and every other path is where it was.
LEMMA DeferKeeps ==
  ASSUME SoleDaemon, Books, Books', NEW d \in Daemons, NEW S \in SUBSET Files,
         NEW cost \in {0, 1}, Defer(d, S, cost), drain[d].pc \in {"batch", "index"},
         UNCHANGED hook, drain[d].doing \in S \cup {Null},
         NEW f \in Files, Owed(f)
  PROVE  Kept(f)
<1> DEFINE r == drain[d]
           q == [r EXCEPT !.pc = "batch", !.doing = Null, !.got = 0,
                          !.batch = @ \ S, !.defer = @ \cup S]
<1>0. TypeOK /\ TypeOK' /\ OneNamePerInode
  BY DEF Books
<1>r. r \in DaemonRecord
  BY DaemonFacts
<1>1. /\ drain'[d].pc = "batch" /\ drain'[d].cur = r.cur /\ drain'[d].stage = r.stage
      /\ drain'[d].seen = r.seen /\ drain'[d].batch = r.batch \ S
      /\ drain'[d].defer = r.defer \cup S /\ drain'[d].snap = r.snap
  <2>1. CASE Becomes(d, q)
    <3>1. drain'[d] = q
      BY <1>0, <2>1, BecomesIs
    <3> QED
      BY <1>r, <3>1 DEF DaemonRecord
  <2>2. ASSUME NEW n \in Alts, Becomes(d, [q EXCEPT !.side = n])
        PROVE  <1>1
    <3>1. drain'[d] = [q EXCEPT !.side = n]
      BY <1>0, <2>2, BecomesIs
    <3> QED
      BY <1>r, <3>1 DEF DaemonRecord
  <2> QED
    BY <2>1, <2>2 DEF Defer
<1>2. CASE f \in S \/ f \in r.defer
  BY <1>1, <1>2 DEF Kept, Owed
<1>3. CASE f \notin S /\ f \notin r.defer
  <2>1. r.doing # f
    BY <1>3, DaemonFacts
  <2>2. ASSUME NEW n \in Names, InQueue(n, f)
        PROVE  Owed(f)'
    <3>0. dir[n] # Null /\ lines[dir[n]][f] > 0 /\ dir[n] \in Inodes
      BY <2>2, DaemonFacts DEF InQueue
    <3>1. dir'[n] = dir[n] /\ lines'[dir[n]] = lines[dir[n]]
      <4>1. CASE UNCHANGED queue
        BY <4>1 DEF queue
      <4>2. ASSUME NEW m \in Alts, AppendTo(m, S),
                   IF r.side = Null THEN Unused(m) /\ m = FreshAlt ELSE m = r.side
            PROVE  <3>1
        <5>1. m \in Names
          BY <4>2 DEF Names
        <5>2. m # n
          <6>1. CASE r.side = Null
            BY <3>0, <4>2, <6>1 DEF Unused
          <6>2. CASE r.side # Null
            <7>1. r.pc # "tidy" /\ m = r.side
              BY <4>2, <6>2
            <7>2. Named(dir[m]) \subseteq r.defer
              BY <6>2, <7>1, DaemonFacts DEF DaemonOK, SidecarOwn
            <7> QED
              BY <1>3, <3>0, <7>2 DEF Named
          <6> QED
            BY <6>1, <6>2
        <5> QED
          BY <1>0, <3>0, <4>2, <5>1, <5>2, AppendFacts
      <4> QED
        BY <4>1, <4>2 DEF Defer
    <3>2. ~Spent(d, n, f)
      BY <2>2 DEF InQueue
    <3>3. ~Spent(d, n, f)'
      BY <1>1, <1>3, <3>1, <3>2 DEF Spent, Stamped
    <3> QED
      BY <3>0, <3>1, <3>3, QueueOwed
  <2> QED
    BY <1>3, <2>1, <2>2, OwedCases DEF Kept
<1> QED
  BY <1>2, <1>3

\* A failed path is given up, or deferred.
LEMMA RequeueKeeps ==
  ASSUME SoleDaemon, Books, Books', NEW d \in Daemons, NEW g \in Files,
         NEW cost \in {0, 1}, Requeue(d, g, cost), drain[d].pc \in {"batch", "index"},
         drain[d].doing \in {g, Null}, NEW f \in Files, Owed(f)
  PROVE  Kept(f)
<1> DEFINE r == drain[d]
           q == [r EXCEPT !.pc = "batch", !.doing = Null, !.got = 0,
                          !.batch = @ \ {g}]
<1>1. CASE Defer(d, {g}, cost)
  BY <1>1, DeferKeeps DEF Requeue
<1>2. CASE retries[g] + 1 > MaxRetries /\ Becomes(d, q) /\ UNCHANGED queue
  <2>0. /\ retries[g] \in 0..MaxRetries + 1 /\ MaxRetries \in Nat
        /\ retries' = [retries EXCEPT ![g] = IF @ > MaxRetries THEN @ ELSE @ + 1]
        /\ retries \in [Files -> 0..MaxRetries + 1]
    BY ConstantsAssumption DEF Books, TypeOK, Requeue
  <2>1. CASE f = g
    <3>1. retries[f] >= MaxRetries /\ retries'[f] = MaxRetries + 1
      BY <1>2, <2>0, <2>1
    <3> QED
      BY <3>1 DEF Kept, GivenUp
  <2>2. CASE f # g
    <3>1. drain'[d] = q
      BY <1>2, BecomesIs DEF Books
    <3>2. /\ drain'[d].pc = "batch" /\ drain'[d].cur = r.cur /\ drain'[d].stage = r.stage
          /\ drain'[d].seen = r.seen /\ drain'[d].batch = r.batch \ {g}
          /\ drain'[d].defer = r.defer /\ drain'[d].snap = r.snap
      <4>1. r \in DaemonRecord
        BY DaemonFacts
      <4> QED
        BY <3>1, <4>1 DEF DaemonRecord
    <3>3. UNCHANGED <<dir, lines, hook>>
      BY <1>2 DEF queue, Requeue
    <3>4. ASSUME NEW n \in Names, InQueue(n, f)
          PROVE  Owed(f)'
      <4>1. ~Spent(d, n, f)'
        BY <2>2, <3>2, <3>3, <3>4 DEF InQueue, Spent, Stamped
      <4> QED
        BY <3>3, <3>4, <4>1, QueueOwed DEF InQueue
    <3>5. r.doing # f
      BY <2>2, DaemonFacts
    <3>6. f \in r.defer => Owed(f)'
      BY <3>2 DEF Owed
    <3> QED
      BY <3>3, <3>4, <3>5, <3>6, OwedCases DEF Kept
  <2> QED
    BY <2>1, <2>2
<1> QED
  BY <1>1, <1>2 DEF Requeue

\* Steps that change the daemon's memory and not the queue directory.
LEMMA MemoryKeeps ==
  ASSUME SoleDaemon, Books, Books', NEW d \in Daemons, UNCHANGED <<dir, lines, hook, disk>>,
         NEW f \in Files, Stale(f), Owed(f),
         \/ Retire(d) \/ BeginDrain(d) \/ RecoverNext(d) \/ SkipBlocked(d)
         \/ Fingerprint(d) \/ IndexPath(d) \/ ChooseClaim(d) \/ ReadClaim(d)
  PROVE  Kept(f)
<1> DEFINE r == drain[d]
<1>r. r \in DaemonRecord
  BY DaemonFacts
<1>b. ASSUME NEW x, Becomes(d, x)
      PROVE  drain'[d] = x
  BY <1>b, BecomesIs DEF Books
<1>q. ASSUME r.pc # "index", r.defer \subseteq drain'[d].defer,
             \A n \in Names : InQueue(n, f) => ~Spent(d, n, f)'
      PROVE  Kept(f)
  <2>1. \A n \in Names : InQueue(n, f) => dir'[n] = dir[n] /\ lines'[dir[n]][f] > 0
    BY DEF InQueue
  <2> QED
    BY <1>q, <2>1, QueueKeeps
<1>n. \A n \in Names : InQueue(n, f) =>
        /\ dir[n] # Null /\ lines[dir[n]][f] > 0 /\ ~Spent(d, n, f)
        /\ ~Stamped(d, n) /\ <<dir[n], lines[dir[n]]>> # Null
  BY DaemonFacts DEF InQueue, Spent
<1>1. CASE Retire(d)
  <2>1. drain'[d] = [r EXCEPT !.retiring = TRUE]
    BY <1>b, <1>1 DEF Retire
  <2>2. /\ drain'[d].pc = r.pc /\ drain'[d].cur = r.cur /\ drain'[d].stage = r.stage
        /\ drain'[d].seen = r.seen /\ drain'[d].batch = r.batch
        /\ drain'[d].defer = r.defer /\ drain'[d].side = r.side
        /\ drain'[d].snap = r.snap /\ r.pc # "index"
    BY <1>r, <1>1, <2>1 DEF DaemonRecord, Retire
  <2>3. \A n \in Names : InQueue(n, f) => ~Spent(d, n, f)'
    BY <1>n, <2>2 DEF Spent, Stamped
  <2> QED
    BY <1>q, <2>2, <2>3
<1>2. CASE BeginDrain(d)
  <2>1. /\ drain'[d].pc = "recover" /\ drain'[d].defer = r.defer
        /\ drain'[d].snap = [n \in Names |-> IF n \in Recoverable THEN r.snap[n] ELSE Null]
        /\ r.pc = "idle"
    BY <1>r, <1>b, <1>2 DEF BeginDrain, DaemonRecord
  <2>2. \A n \in Names : drain'[d].snap[n] \in {r.snap[n], Null}
    BY <2>1
  <2>3. \A n \in Names : InQueue(n, f) => ~Spent(d, n, f)'
    BY <1>n, <2>1, <2>2 DEF Spent, Stamped
  <2> QED
    BY <1>q, <2>1, <2>3
<1>3. CASE RecoverNext(d)
  <2>1. PICK m \in r.todo :
          Becomes(d, [r EXCEPT !.pc = "batch", !.stage = "a", !.cur = m,
                        !.seen = lines[dir[m]],
                        !.batch = IF Stamped(d, m) THEN {} ELSE Named(dir[m])])
    BY <1>3 DEF RecoverNext
  <2>2. r.pc = "recover"
    BY <1>3 DEF RecoverNext
  <2>3. /\ drain'[d].pc = "batch" /\ drain'[d].stage = "a" /\ drain'[d].cur = m
        /\ drain'[d].batch = IF Stamped(d, m) THEN {} ELSE Named(dir[m])
        /\ drain'[d].defer = r.defer /\ drain'[d].snap = r.snap
    <3> DEFINE b == IF Stamped(d, m) THEN {} ELSE Named(dir[m])
    <3> HIDE DEF b
    <3>1. drain'[d] = [r EXCEPT !.pc = "batch", !.stage = "a", !.cur = m,
                                !.seen = lines[dir[m]], !.batch = b]
      BY <1>b, <2>1 DEF b
    <3> QED
      BY <1>r, <3>1 DEF DaemonRecord, b
  <2>4. \A n \in Names : InQueue(n, f) => ~Spent(d, n, f)'
    BY <1>n, <2>3 DEF Spent, Stamped, Named
  <2> QED
    BY <1>q, <2>2, <2>3, <2>4
<1>4. CASE SkipBlocked(d)
  <2>1. PICK g \in r.batch \cap Blocked : drain'[d] = [r EXCEPT !.batch = @ \ {g}]
    BY <1>b, <1>4 DEF SkipBlocked
  <2>2. /\ drain'[d].pc = r.pc /\ drain'[d].cur = r.cur /\ drain'[d].stage = r.stage
        /\ drain'[d].seen = r.seen /\ drain'[d].batch = r.batch \ {g}
        /\ drain'[d].defer = r.defer /\ drain'[d].side = r.side
        /\ drain'[d].snap = r.snap /\ r.pc # "index" /\ f # g
    BY <1>r, <1>4, <2>1 DEF DaemonRecord, SkipBlocked, Stale
  <2>3. \A n \in Names : InQueue(n, f) => ~Spent(d, n, f)'
    BY <1>n, <2>2 DEF Spent, Stamped
  <2> QED
    BY <1>q, <2>2, <2>3
<1>5. CASE Fingerprint(d)
  <2>1. PICK g \in r.batch : drain'[d] = [r EXCEPT !.pc = "index", !.doing = g,
                                             !.got = disk[g], !.batch = @ \ {g}]
    BY <1>b, <1>5 DEF Fingerprint
  <2>2. /\ drain'[d].pc = "index" /\ drain'[d].cur = r.cur /\ drain'[d].stage = r.stage
        /\ drain'[d].seen = r.seen /\ drain'[d].batch = r.batch \ {g}
        /\ drain'[d].defer = r.defer /\ drain'[d].side = r.side
        /\ drain'[d].snap = r.snap /\ r.pc = "batch"
        /\ drain'[d].doing = g /\ drain'[d].got = disk[g]
    BY <1>r, <1>5, <2>1 DEF DaemonRecord, Fingerprint
  <2>3. CASE f = g
    BY <2>2, <2>3 DEF Kept, Owed
  <2>4. CASE f # g
    <3>1. \A n \in Names : InQueue(n, f) => ~Spent(d, n, f)'
      BY <1>n, <2>2, <2>4 DEF Spent, Stamped
    <3> QED
      BY <1>q, <2>2, <3>1
  <2> QED
    BY <2>3, <2>4
<1>6. CASE IndexPath(d)
  <2>1. drain'[d] = [r EXCEPT !.pc = "batch", !.doing = Null, !.got = 0]
    BY <1>b, <1>6 DEF IndexPath
  <2>2. /\ drain'[d].pc = "batch" /\ drain'[d].cur = r.cur /\ drain'[d].stage = r.stage
        /\ drain'[d].seen = r.seen /\ drain'[d].batch = r.batch
        /\ drain'[d].defer = r.defer /\ drain'[d].side = r.side
        /\ drain'[d].snap = r.snap /\ r.pc = "index"
    BY <1>r, <1>6, <2>1 DEF DaemonRecord, IndexPath
  <2>3. ASSUME NEW n \in Names, InQueue(n, f)
        PROVE  Kept(f)
    <3>1. ~Spent(d, n, f)'
      BY <1>n, <2>2, <2>3 DEF Spent, Stamped
    <3> QED
      BY <1>n, <2>3, <3>1, QueueOwed DEF Kept
  <2>4. f \in r.defer => Kept(f)
    BY <2>2 DEF Kept, Owed
  <2>5. ASSUME r.doing = f, r.got = disk[f]
        PROVE  Kept(f)
    <3>1. indexed'[f] = disk'[f]
      BY <1>6, <2>5 DEF Books, TypeOK, IndexPath
    <3> QED
      BY <3>1 DEF Kept, Stale
  <2> QED
    BY <2>3, <2>4, <2>5, OwedCases
<1>7. CASE ChooseClaim(d)
  <2>1. /\ drain'[d].pc \in {"requeue", "claim"} /\ drain'[d].snap = r.snap
        /\ drain'[d].defer = r.defer /\ r.pc = "recover"
    <3>1. \/ drain'[d] = [r EXCEPT !.pc = "requeue"]
          \/ \E n \in Names : drain'[d] = [r EXCEPT !.pc = "claim", !.cur = n]
      BY <1>b, <1>7 DEF ChooseClaim
    <3> QED
      BY <1>r, <1>7, <3>1 DEF DaemonRecord, ChooseClaim
  <2>2. \A n \in Names : InQueue(n, f) => ~Spent(d, n, f)'
    BY <1>n, <2>1 DEF Spent, Stamped
  <2> QED
    BY <1>q, <2>1, <2>2
<1>8. CASE ReadClaim(d)
  <2>1. r.pc = "read"
    BY <1>8 DEF ReadClaim
  <2>2. CASE Becomes(d, [r EXCEPT !.pc = "requeue", !.cur = Null])
    <3>1. /\ drain'[d].pc = "requeue" /\ drain'[d].snap = r.snap
          /\ drain'[d].defer = r.defer
      BY <1>r, <1>b, <2>2 DEF DaemonRecord
    <3>2. \A n \in Names : InQueue(n, f) => ~Spent(d, n, f)'
      BY <1>n, <3>1 DEF Spent, Stamped
    <3> QED
      BY <1>q, <2>1, <3>1, <3>2
  <2>3. CASE Becomes(d, [r EXCEPT !.pc = "batch", !.stage = "b",
                           !.seen = lines[dir[r.cur]], !.batch = Named(dir[r.cur])])
    <3>1. drain'[d] = [r EXCEPT !.pc = "batch", !.stage = "b",
                         !.seen = lines[dir[r.cur]], !.batch = Named(dir[r.cur])]
      BY <1>b, <2>3
    <3>2. /\ drain'[d].pc = "batch" /\ drain'[d].snap = r.snap
          /\ drain'[d].defer = r.defer /\ drain'[d].cur = r.cur
          /\ drain'[d].batch = Named(dir[r.cur])
      BY <1>r, <3>1 DEF DaemonRecord
    <3>3. \A n \in Names : InQueue(n, f) => ~Spent(d, n, f)'
      BY <1>n, <3>2 DEF Spent, Stamped, Named
    <3> QED
      BY <1>q, <2>1, <3>2, <3>3
  <2> QED
    BY <1>8, <2>2, <2>3 DEF ReadClaim
<1> QED
  BY <1>1, <1>2, <1>3, <1>4, <1>5, <1>6, <1>7, <1>8

\* Steps that append to the live queue, or fail to.
LEMMA AppendKeeps ==
  ASSUME SoleDaemon, Books, Books', NEW d \in Daemons, UNCHANGED <<hook, disk>>,
         NEW f \in Files, Owed(f), HandBack(d) \/ Recheck(d) \/ FlushDeferred(d)
  PROVE  Kept(f)
<1> DEFINE r == drain[d]
<1>r. r \in DaemonRecord
  BY DaemonFacts
<1>b. ASSUME NEW x, Becomes(d, x)
      PROVE  drain'[d] = x
  BY <1>b, BecomesIs DEF Books
<1>n. \A n \in Names : InQueue(n, f) =>
        /\ dir[n] # Null /\ lines[dir[n]][f] > 0 /\ ~Spent(d, n, f)
        /\ ~Stamped(d, n) /\ <<dir[n], lines[dir[n]]>> # Null
  BY DaemonFacts DEF InQueue, Spent
<1>k. ASSUME r.pc # "index", NEW S \in SUBSET Files, AppendTo("live", S),
             \/ f \in S
             \/ /\ f \in r.defer => f \in drain'[d].defer
                /\ \A n \in Names \ {"live"} :
                     InQueue(n, f) /\ dir'[n] = dir[n] /\ lines'[dir[n]] = lines[dir[n]]
                     => ~Spent(d, n, f)'
      PROVE  Kept(f)
  <2>1. CASE f \in S
    BY <1>k, <2>1, AppendedOwed DEF Kept
  <2>2. CASE f \notin S
    <3>1. ASSUME NEW n \in Names, InQueue(n, f)
          PROVE  Kept(f)
      <4>1. CASE n = "live"
        BY <1>k, <3>1, <4>1, AppendedOwed DEF Kept
      <4>2. CASE n # "live"
        <5>1. dir'[n] = dir[n] /\ lines'[dir[n]] = lines[dir[n]]
          BY <1>k, <1>n, <3>1, <4>2, LiveAppend
        <5>2. ~Spent(d, n, f)'
          BY <1>k, <2>2, <3>1, <4>2, <5>1
        <5> QED
          BY <1>n, <3>1, <5>1, <5>2, QueueOwed DEF Kept
      <4> QED
        BY <4>1, <4>2
    <3>2. f \in r.defer => Kept(f)
      BY <1>k, <2>2 DEF Kept, Owed
    <3>3. r.doing # f
      BY <1>k, DaemonFacts
    <3> QED
      BY <3>1, <3>2, <3>3, OwedCases
  <2> QED
    BY <2>1, <2>2
<1>1. CASE HandBack(d)
  <2>1. r.pc = "batch" /\ r.doing = Null /\ r.batch \in SUBSET Files
    BY <1>1, DaemonFacts DEF HandBack
  <2>2. CASE Defer(d, r.batch, 1)
    BY <2>1, <2>2, DeferKeeps
  <2>3. CASE AppendTo("live", r.batch) /\ Becomes(d, [r EXCEPT !.batch = {}])
    <3>1. drain'[d] = [r EXCEPT !.batch = {}]
      BY <1>b, <2>3
    <3>2. /\ drain'[d].pc = r.pc /\ drain'[d].cur = r.cur /\ drain'[d].stage = r.stage
          /\ drain'[d].seen = r.seen /\ drain'[d].batch = {}
          /\ drain'[d].defer = r.defer /\ drain'[d].side = r.side
          /\ drain'[d].snap = r.snap
      BY <1>r, <3>1 DEF DaemonRecord
    <3>3. ASSUME f \notin r.batch, NEW n \in Names \ {"live"}, InQueue(n, f),
                 dir'[n] = dir[n], lines'[dir[n]] = lines[dir[n]]
          PROVE  ~Spent(d, n, f)'
      BY <1>n, <3>2, <3>3 DEF Spent, Stamped
    <3> QED
      BY <1>k, <2>1, <2>3, <3>2, <3>3
  <2> QED
    BY <1>1, <2>2, <2>3 DEF HandBack
<1>2. CASE Recheck(d)
  <2>1. /\ r.pc = "batch" /\ r.batch = {} /\ r.stage = "b"
        /\ drain'[d] = [r EXCEPT !.pc = "clear"]
    BY <1>b, <1>2 DEF Recheck
  <2>2. /\ drain'[d].pc = "clear" /\ drain'[d].cur = r.cur
        /\ drain'[d].defer = r.defer /\ drain'[d].snap = r.snap
    BY <1>r, <2>1 DEF DaemonRecord
  <2>3. ASSUME NEW n \in Names, InQueue(n, f), f \notin Extra(d)
        PROVE  n # r.cur
    <3>1. SUFFICES ASSUME n = r.cur
                   PROVE  FALSE
      OBVIOUS
    <3>2. dir[n] # Null /\ \A g \in Files : r.seen[g] <= lines[dir[n]][g]
      BY <2>1, <3>1, DaemonFacts DEF DaemonOK, ClaimHeld
    <3>3. ~(lines[dir[n]][f] <= r.seen[f])
      BY <1>n, <2>1, <2>3, <3>1 DEF Spent
    <3>4. r.seen[f] \in Nat /\ lines[dir[n]][f] \in Nat
      BY <3>2, DaemonFacts DEF Lines
    <3>5. \A g \in Files : r.seen[g] \in Nat /\ lines[dir[n]][g] \in Nat
      BY <3>2, DaemonFacts DEF Lines
    <3>6. f \in Extra(d)
      BY <3>1, <3>2, <3>3, <3>4, <3>5 DEF Extra
    <3> QED
      BY <2>3, <3>6
  <2>4. Extra(d) \in SUBSET Files
    BY NamedTyped DEF Extra
  <2>5. CASE AppendTo("live", Extra(d))
    <3>1. ASSUME f \notin Extra(d), NEW n \in Names \ {"live"}, InQueue(n, f),
                 dir'[n] = dir[n], lines'[dir[n]] = lines[dir[n]]
          PROVE  ~Spent(d, n, f)'
      BY <1>n, <2>2, <2>3, <3>1 DEF Spent, Stamped
    <3> QED
      BY <1>k, <2>1, <2>2, <2>4, <2>5, <3>1
  <2>6. CASE f \notin Extra(d) /\ UNCHANGED queue
    <3>1. \A n \in Names : InQueue(n, f) => ~Spent(d, n, f)'
      BY <1>n, <2>2, <2>3, <2>6 DEF Spent, Stamped, queue
    <3> QED
      BY <1>n, <2>1, <2>2, <2>6, <3>1, QueueKeeps DEF queue
  <2>7. CASE f \in Extra(d) /\ Spend(1)
    <3>1. faults' # faults
      BY <2>7 DEF Books, TypeOK, Spend
    <3> QED
      BY <2>1, <2>2, <2>7, <3>1 DEF Kept, ForwardFailed
  <2> QED
    BY <1>2, <2>5, <2>6, <2>7 DEF Recheck, queue
<1>3. CASE FlushDeferred(d)
  <2>1. CASE Becomes(d, NextCycle(d)) /\ UNCHANGED <<dir, lines>>
    <3>1. /\ drain'[d].pc = "idle" /\ drain'[d].side = Null /\ drain'[d].defer = {}
          /\ drain'[d].snap = r.snap
      BY <1>b, <2>1 DEF NextCycle, NewDaemon
    <3> QED
      BY <2>1, <3>1, CycleEndKeeps
  <2>2. CASE AppendTo("live", r.defer) /\ Becomes(d, [r EXCEPT !.pc = "tidy", !.defer = {}])
    <3>1. drain'[d] = [r EXCEPT !.pc = "tidy", !.defer = {}]
      BY <1>b, <2>2
    <3>2. /\ drain'[d].pc = "tidy" /\ drain'[d].side = r.side
          /\ drain'[d].snap = r.snap /\ r.pc = "requeue"
      BY <1>r, <1>3, <3>1 DEF DaemonRecord, FlushDeferred
    <3>3. ASSUME f \notin r.defer, NEW n \in Names \ {"live"}, InQueue(n, f),
                 dir'[n] = dir[n], lines'[dir[n]] = lines[dir[n]]
          PROVE  ~Spent(d, n, f)'
      <4>1. n # r.side
        BY <1>n, <3>2, <3>3, DaemonFacts DEF DaemonOK, SidecarOwn, Named
      <4> QED
        BY <1>n, <3>2, <3>3, <4>1 DEF Spent, Stamped
    <3>4. r.defer \in SUBSET Files
      BY DaemonFacts
    <3> QED
      BY <1>k, <2>2, <3>2, <3>3, <3>4
  <2> QED
    BY <1>3, <2>1, <2>2 DEF FlushDeferred, queue
<1> QED
  BY <1>1, <1>2, <1>3

\* Steps that rename or delete queue files.
LEMMA DirKeeps ==
  ASSUME SoleDaemon, Books, Books', NEW d \in Daemons, UNCHANGED <<lines, hook, disk>>,
         NEW f \in Files, Owed(f),
         RecoverUnreadable(d) \/ Claim(d) \/ Clear(d) \/ RemoveSidecar(d)
  PROVE  Kept(f)
<1> DEFINE r == drain[d]
<1>0. dir \in [Names -> Inodes \cup {Null}] /\ "live" \in Names
  BY DEF Books, TypeOK, Names
<1>r. r \in DaemonRecord
  BY DaemonFacts
<1>b. ASSUME NEW x, Becomes(d, x)
      PROVE  drain'[d] = x
  BY <1>b, BecomesIs DEF Books
<1>n. \A n \in Names : InQueue(n, f) =>
        /\ dir[n] # Null /\ lines[dir[n]][f] > 0 /\ ~Spent(d, n, f)
        /\ ~Stamped(d, n) /\ <<dir[n], lines[dir[n]]>> # Null
  BY DaemonFacts DEF InQueue, Spent
<1>1. CASE RecoverUnreadable(d)
  <2>1. PICK m \in r.todo :
          \/ /\ dir[m] # Null /\ dir' = [dir EXCEPT ![m] = Null]
             /\ Becomes(d, [r EXCEPT !.todo = @ \ {m}, !.snap[m] = Null])
          \/ UNCHANGED dir /\ Becomes(d, [r EXCEPT !.todo = @ \ {m}])
    BY <1>1 DEF RecoverUnreadable
  <2>2. m \in Names \ {"live"} /\ r.pc = "recover"
    BY <1>1, DaemonFacts DEF RecoverUnreadable
  <2>3. /\ drain'[d].pc = "recover" /\ drain'[d].defer = r.defer
        /\ \A n \in Names \ {m} : drain'[d].snap[n] = r.snap[n]
        /\ \A n \in Names \ {m} : dir'[n] = dir[n]
        /\ \/ dir[m] # Null /\ dir'[m] = Null
           \/ dir'[m] = dir[m] /\ drain'[d].snap[m] = r.snap[m]
    <3>1. CASE /\ dir[m] # Null /\ dir' = [dir EXCEPT ![m] = Null]
               /\ Becomes(d, [r EXCEPT !.todo = @ \ {m}, !.snap[m] = Null])
      <4>1. drain'[d] = [r EXCEPT !.todo = @ \ {m}, !.snap[m] = Null]
        BY <1>b, <3>1
      <4>2. /\ drain'[d].pc = "recover" /\ drain'[d].defer = r.defer
            /\ drain'[d].snap = [r.snap EXCEPT ![m] = Null]
        BY <1>r, <2>2, <4>1 DEF DaemonRecord
      <4>3. \A n \in Names \ {m} : drain'[d].snap[n] = r.snap[n]
        BY <4>2, DaemonFacts
      <4>4. dir[m] # Null /\ dir'[m] = Null /\ \A n \in Names \ {m} : dir'[n] = dir[n]
        BY <1>0, <2>2, <3>1
      <4> QED
        BY <4>2, <4>3, <4>4
    <3>2. CASE UNCHANGED dir /\ Becomes(d, [r EXCEPT !.todo = @ \ {m}])
      <4>1. drain'[d] = [r EXCEPT !.todo = @ \ {m}]
        BY <1>b, <3>2
      <4> QED
        BY <1>r, <2>2, <3>2, <4>1 DEF DaemonRecord
    <3> QED
      BY <2>1, <3>1, <3>2
  <2>4. CASE dir[m] # Null /\ dir'[m] = Null /\ lines[dir[m]][f] > 0
    BY <2>2, <2>4 DEF Kept, Quarantined
  <2>5. CASE ~(dir[m] # Null /\ dir'[m] = Null /\ lines[dir[m]][f] > 0)
    <3>1. ASSUME NEW n \in Names, InQueue(n, f)
          PROVE  dir'[n] = dir[n] /\ lines'[dir[n]][f] > 0 /\ ~Spent(d, n, f)'
      <4>1. dir'[n] = dir[n] /\ drain'[d].snap[n] = r.snap[n]
        BY <1>n, <2>3, <2>5, <3>1
      <4> QED
        BY <1>n, <2>3, <3>1, <4>1 DEF Spent, Stamped
    <3> QED
      BY <2>2, <2>3, <3>1, QueueKeeps
  <2> QED
    BY <2>4, <2>5
<1>2. CASE Claim(d)
  <2>0. r.pc = "claim"
    BY <1>2 DEF Claim
  <2>1. CASE /\ dir["live"] # Null
             /\ dir' = [dir EXCEPT !["live"] = Null, ![r.cur] = dir["live"]]
             /\ Becomes(d, [r EXCEPT !.pc = "read"])
    <3>1. drain'[d] = [r EXCEPT !.pc = "read"]
      BY <1>b, <2>1
    <3>2. /\ drain'[d].pc = "read" /\ drain'[d].defer = r.defer
          /\ drain'[d].cur = r.cur /\ drain'[d].snap = r.snap
      BY <1>r, <3>1 DEF DaemonRecord
    <3>3. /\ r.cur \in Names \ {"live"} /\ dir[r.cur] = Null
          /\ r.snap[r.cur] = Null
      BY <2>0, DaemonFacts DEF DaemonOK, ClaimHeld, StampsCurrent, DaemonState
    <3>4. dir'[r.cur] = dir["live"] /\ \A n \in Names \ {"live", r.cur} : dir'[n] = dir[n]
      <4> DEFINE e == [dir EXCEPT !["live"] = Null]
      <4>1. e \in [Names -> Inodes \cup {Null}] /\ \A n \in Names \ {"live"} : e[n] = dir[n]
        BY <1>0
      <4>2. dir' = [e EXCEPT ![r.cur] = dir["live"]]
        BY <2>1
      <4> HIDE DEF e
      <4> QED
        BY <3>3, <4>1, <4>2
    <3>5. ASSUME NEW n \in Names, InQueue(n, f)
          PROVE  Kept(f)
      <4>1. CASE n = "live"
        <5>0. PICK c \in Names : c = r.cur
          BY <3>3
        <5>1. dir'[c] # Null /\ lines'[dir'[c]][f] > 0
          BY <1>n, <3>4, <3>5, <4>1, <5>0
        <5>2. ~Spent(d, c, f)'
          <6>1. <<dir'[c], lines'[dir'[c]]>> # Null
            BY <1>n, <3>4, <3>5, <4>1, <5>0
          <6>2. drain'[d].snap[c] = Null /\ drain'[d].pc = "read"
            BY <3>2, <3>3, <5>0
          <6> QED
            BY <6>1, <6>2 DEF Spent, Stamped
        <5> QED
          BY <5>1, <5>2, QueueOwed DEF Kept
      <4>2. CASE n # "live"
        <5>1. dir'[n] = dir[n]
          BY <1>n, <3>3, <3>4, <3>5, <4>2
        <5>2. ~Spent(d, n, f)'
          BY <1>n, <3>2, <3>5, <5>1 DEF Spent, Stamped
        <5> QED
          BY <1>n, <3>5, <5>1, <5>2, QueueOwed DEF Kept
      <4> QED
        BY <4>1, <4>2
    <3> QED
      BY <2>0, <3>2, <3>5, QueueKeeps
  <2>2. CASE UNCHANGED dir /\ Becomes(d, [r EXCEPT !.pc = "requeue", !.cur = Null])
    <3>1. drain'[d] = [r EXCEPT !.pc = "requeue", !.cur = Null]
      BY <1>b, <2>2
    <3>2. /\ drain'[d].pc = "requeue" /\ drain'[d].defer = r.defer
          /\ drain'[d].snap = r.snap
      BY <1>r, <3>1 DEF DaemonRecord
    <3>3. \A n \in Names : InQueue(n, f) =>
            dir'[n] = dir[n] /\ lines'[dir[n]][f] > 0 /\ ~Spent(d, n, f)'
      BY <1>n, <2>2, <3>2 DEF Spent, Stamped
    <3> QED
      BY <2>0, <3>2, <3>3, QueueKeeps
  <2> QED
    BY <1>2, <2>1, <2>2 DEF Claim
<1>3. CASE Clear(d)
  <2>1. /\ r.pc # "index" /\ r.cur \in Names
        /\ \/ r.pc = "clear"
           \/ r.pc = "batch" /\ r.batch = {} /\ r.stage = "a"
    BY <1>3, DaemonFacts DEF Clear, DaemonOK, ClaimHeld
  <2>2. \A n \in Names \ {r.cur} : dir'[n] = dir[n]
    <3>1. UNCHANGED dir \/ dir' = [dir EXCEPT ![r.cur] = Null]
      BY <1>3 DEF Clear
    <3> QED
      BY <1>0, <3>1
  <2>3. /\ drain'[d].pc \in {"recover", "requeue"} /\ drain'[d].defer = r.defer
        /\ \A n \in Names \ {r.cur} : drain'[d].snap[n] = r.snap[n]
    <3> DEFINE done == [r EXCEPT
                         !.pc = IF r.stage = "a" THEN "recover" ELSE "requeue",
                         !.todo = @ \ {r.cur}, !.cur = Null, !.seen = NoLines]
    <3>1. PICK s : drain'[d] = [done EXCEPT !.snap[r.cur] = s]
      <4>1. CASE Becomes(d, [done EXCEPT !.snap[r.cur] =
                               IF r.stage = "a" THEN Null ELSE @])
        <5> HIDE DEF done
        <5> QED
          BY <1>b, <4>1
      <4>2. CASE Becomes(d, [done EXCEPT !.snap[r.cur] = <<dir[r.cur], r.seen>>])
        <5> HIDE DEF done
        <5> QED
          BY <1>b, <4>2
      <4> QED
        BY <1>3, <4>1, <4>2 DEF Clear
    <3>2. /\ drain'[d].pc \in {"recover", "requeue"} /\ drain'[d].defer = r.defer
          /\ drain'[d].snap = [r.snap EXCEPT ![r.cur] = s]
      BY <1>r, <3>1 DEF DaemonRecord
    <3>3. \A n \in Names \ {r.cur} : drain'[d].snap[n] = r.snap[n]
      BY <3>2, DaemonFacts
    <3> QED
      BY <3>2, <3>3
  <2>4. ASSUME NEW n \in Names, InQueue(n, f)
        PROVE  dir'[n] = dir[n] /\ lines'[dir[n]][f] > 0 /\ ~Spent(d, n, f)'
    <3>1. n # r.cur
      BY <1>n, <2>1, <2>4 DEF Spent
    <3>2. dir'[n] = dir[n] /\ drain'[d].snap[n] = r.snap[n]
      BY <2>2, <2>3, <3>1
    <3> QED
      BY <1>n, <2>3, <2>4, <3>2 DEF Spent, Stamped
  <2> QED
    BY <2>1, <2>3, <2>4, QueueKeeps, SMTT(30)
<1>4. CASE RemoveSidecar(d)
  <2>1. /\ r.pc = "tidy" /\ r.defer = {} /\ Becomes(d, NextCycle(d))
    BY <1>4, DaemonFacts DEF RemoveSidecar, DaemonState
  <2>2. drain'[d].pc = "idle" /\ drain'[d].snap = r.snap
    BY <1>b, <2>1 DEF NextCycle, NewDaemon
  <2>3. ASSUME NEW n \in Names, InQueue(n, f)
        PROVE  dir'[n] = dir[n] /\ lines'[dir[n]][f] > 0 /\ ~Spent(d, n, f)'
    <3>1. n # r.side
      BY <1>n, <2>1, <2>3 DEF Spent
    <3>2. dir'[n] = dir[n]
      BY <1>4, <3>1 DEF RemoveSidecar
    <3> QED
      BY <1>n, <2>2, <2>3, <3>2 DEF Spent, Stamped
  <2> QED
    BY <2>1, <2>3, QueueKeeps
<1> QED
  BY <1>1, <1>2, <1>3, <1>4

\* Every step keeps every owed stale file, or loses it by name.
LEMMA StepKeeps ==
  ASSUME SoleDaemon, Books, Books', Next, NEW f \in Files, Stale(f), Owed(f)
  PROVE  Kept(f)
<1>1. ASSUME NEW h \in Hooks,
             (\E S \in SUBSET Files : EditFiles(h, S)) \/ HookStep(h) \/ HookFails(h)
      PROVE  Kept(f)
  BY <1>1, HookKeeps
<1>2. ASSUME NEW d \in Daemons, Start(d) \/ Leave(d) \/ Crash(d) \/ DrainThrows(d)
      PROVE  Kept(f)
  <2>1. UNCHANGED <<dir, lines, hook, disk>>
    BY <1>2 DEF Start, Leave, Crash, DrainThrows
  <2>2. \/ drain'[d] = NewDaemon("idle")
        \/ drain'[d] = NewDaemon("down")
        \/ drain'[d] = NextCycle(d)
    BY <1>2, BecomesIs DEF Books, Start, Leave, Crash, DrainThrows
  <2>3. /\ drain'[d].pc \in {"down", "idle"} /\ drain'[d].side = Null
        /\ drain'[d].defer = {}
        /\ \A n \in Names : drain'[d].snap[n] \in {Null, drain[d].snap[n]}
    <3>1. CASE drain'[d] = NewDaemon("idle") \/ drain'[d] = NewDaemon("down")
      BY <3>1 DEF NewDaemon
    <3>2. CASE drain'[d] = NextCycle(d)
      BY <3>2 DEF NextCycle, NewDaemon
    <3> QED
      BY <2>2, <3>1, <3>2
  <2> QED
    BY <2>1, <2>3, CycleEndKeeps
<1>3. ASSUME NEW d \in Daemons,
             \/ Retire(d) \/ BeginDrain(d) \/ RecoverNext(d) \/ SkipBlocked(d)
             \/ Fingerprint(d) \/ IndexPath(d) \/ ChooseClaim(d) \/ ReadClaim(d)
      PROVE  Kept(f)
  <2>1. UNCHANGED <<dir, lines, hook, disk>>
    BY <1>3 DEF Retire, BeginDrain, RecoverNext, SkipBlocked, Fingerprint, IndexPath,
                ChooseClaim, ReadClaim
  <2> QED
    BY <1>3, <2>1, MemoryKeeps, SMTT(30)
<1>4. ASSUME NEW d \in Daemons, FingerprintFails(d) \/ IndexFails(d)
      PROVE  Kept(f)
  <2>1. CASE FingerprintFails(d)
    <3>1. PICK g \in drain[d].batch : Requeue(d, g, 1)
      BY <2>1 DEF FingerprintFails
    <3>2. g \in Files /\ drain[d].pc \in {"batch", "index"} /\ drain[d].doing = Null
      BY <2>1, DaemonFacts DEF FingerprintFails
    <3> QED
      BY <3>1, <3>2, RequeueKeeps
  <2>2. CASE IndexFails(d)
    <3>1. drain[d].doing \in Files /\ drain[d].pc \in {"batch", "index"}
      BY <2>2, DaemonFacts DEF IndexFails
    <3>2. PICK c \in {0, 1} : Requeue(d, drain[d].doing, c)
      BY <2>2 DEF IndexFails
    <3> QED
      BY <3>1, <3>2, RequeueKeeps
  <2> QED
    BY <1>4, <2>1, <2>2
<1>5. ASSUME NEW d \in Daemons, HandBack(d) \/ Recheck(d) \/ FlushDeferred(d)
      PROVE  Kept(f)
  <2>1. UNCHANGED <<hook, disk>>
    BY <1>5 DEF HandBack, Recheck, FlushDeferred
  <2> QED
    BY <1>5, <2>1, AppendKeeps
<1>6. ASSUME NEW d \in Daemons,
             RecoverUnreadable(d) \/ Claim(d) \/ Clear(d) \/ RemoveSidecar(d)
      PROVE  Kept(f)
  <2>1. UNCHANGED <<lines, hook, disk>>
    BY <1>6 DEF RecoverUnreadable, Claim, Clear, RemoveSidecar
  <2> QED
    BY <1>6, <2>1, DirKeeps
<1> QED
  BY <1>1, <1>2, <1>3, <1>4, <1>5, <1>6 DEF Next, DrainStep, PathStep

\* Rows that are right stay right or the file is owed: an edit is with its hook,
\* and rows written now were read no earlier than those they replace.
LEMMA CurrentStays ==
  ASSUME TypeOK, VersionsInOrder, Next, NEW f \in Files, ~Stale(f)
  PROVE  Accounted(f)'
<1>1. /\ Null \notin Files
      /\ \A g \in Files : disk[g] \in Nat /\ indexed[g] \in Nat
      /\ \A d \in Daemons : drain[d].got \in Nat
      /\ indexed \in [Files -> Nat]
  BY ConstantsAssumption DEF TypeOK, DaemonState, DaemonRecord
<1>2. CASE f \in Blocked
  BY <1>2 DEF Accounted, Stale
<1>3. ASSUME f \notin Blocked, NEW h \in Hooks, NEW S \in SUBSET Files, EditFiles(h, S)
      PROVE  Accounted(f)'
  <2>1. CASE f \in S
    <3>1. hook'[h].pc = "open" /\ hook'[h].files = S
      BY <1>3 DEF EditFiles, HookIdle, TypeOK
    <3> QED
      BY <2>1, <3>1 DEF Accounted, Owed
  <2>2. CASE f \notin S
    <3>1. disk'[f] = disk[f] /\ indexed'[f] = indexed[f]
      BY <1>3, <2>2 DEF EditFiles
    <3> QED
      BY <3>1 DEF Accounted, Stale
  <2> QED
    BY <2>1, <2>2
<1>4. ASSUME NEW h \in Hooks, HookStep(h) \/ HookFails(h)
      PROVE  Accounted(f)'
  <2>1. disk' = disk /\ indexed' = indexed
    BY <1>4 DEF HookStep, HookOpen, HookWrite, HookCheck, HookFails
  <2> QED
    BY <2>1 DEF Accounted, Stale
<1>5. ASSUME f \notin Blocked, NEW d \in Daemons,
             \/ Start(d) \/ Retire(d) \/ Leave(d) \/ Crash(d) \/ DrainThrows(d)
             \/ DrainStep(d)
      PROVE  Accounted(f)'
  <2>1. disk' = disk /\ indexed[f] = disk[f]
    BY <1>5, ReadingKept DEF Stale
  <2>2. CASE Writes(d) /\ drain[d].doing = f
    <3>1. drain[d].got = disk[f] /\ indexed'[f] = drain[d].got
      BY <1>1, <2>1, <2>2 DEF Writes, VersionsInOrder
    <3> QED
      BY <2>1, <3>1 DEF Accounted, Stale
  <2>3. CASE ~(Writes(d) /\ drain[d].doing = f)
    <3>1. indexed'[f] = indexed[f]
      BY <1>1, <1>5, <2>3, ReadingKept DEF Writes
    <3> QED
      BY <2>1, <3>1 DEF Accounted, Stale
  <2> QED
    BY <2>2, <2>3
<1> QED
  BY <1>2, <1>3, <1>4, <1>5 DEF Next

\* With one daemon on the queue directory, no step of any process loses an edit
\* in silence, for any number of hooks, files, edits and faults: a file whose rows
\* are right, or still owed, stays so, or goes by one of the five losses the code
\* accepts (worker.ts: drainOnce, processDirtyBatch; dirty_queue.ts:
\* appendToLiveQueue).
THEOREM SilentLossFree ==
  ASSUME SoleDaemon
  PROVE  Spec => NoSilentLoss
<1>1. IInv /\ IInv' /\ [Next]_vars =>
        [\A f \in Files :
           Accounted(f) =>
             \/ Accounted(f)'
             \/ HookLost(f) \/ GivenUp(f) \/ Quarantined(f)
             \/ MemoryOnly(f) \/ ForwardFailed(f)]_vars
  <2> SUFFICES ASSUME IInv, IInv', Next, NEW f \in Files, Accounted(f)
               PROVE  \/ Accounted(f)'
                      \/ HookLost(f) \/ GivenUp(f) \/ Quarantined(f)
                      \/ MemoryOnly(f) \/ ForwardFailed(f)
    OBVIOUS
  <2>1. CASE Stale(f)
    <3>1. Kept(f)
      BY <2>1, StepKeeps DEF IInv, Accounted
    <3> QED
      BY <3>1 DEF Kept, Accounted
  <2>2. CASE ~Stale(f)
    BY <2>2, CurrentStays DEF IInv, Books
  <2> QED
    BY <2>1, <2>2
<1>2. Spec => []IInv
  BY BookkeepingCorrect
<1> QED
  BY <1>1, <1>2, PTL DEF Spec, NoSilentLoss

-----------------------------------------------------------------------------
(***************************************************************************)
(* Where nothing fails: a hook out of attempts is the only loss.            *)
(***************************************************************************)

\* Until something fails no retry is charged and nothing is deferred.
Calm ==
  faults = 0 => /\ \A f \in Files : retries[f] = 0
                /\ \A d \in Daemons : drain[d].defer = {}

\* A step of a daemon that is no fault charges and defers nothing, and it unlinks
\* nothing while it looks for files to recover.
LEMMA CalmStep ==
  ASSUME TypeOK, Stuck = {}, faults' = 0, NEW d \in Daemons,
         \/ Start(d) \/ Retire(d) \/ Leave(d) \/ Crash(d) \/ DrainThrows(d) \/ DrainStep(d)
  PROVE  /\ faults = 0
         /\ \A c \in Daemons \ {d} : drain'[c] = drain[c]
         /\ \A f \in Files : retries'[f] \in {0, retries[f]}
         /\ drain'[d].defer \in {{}, drain[d].defer}
         /\ drain[d].pc = "recover" => dir' = dir
<1> DEFINE r == drain[d]
           Others == \A c \in Daemons \ {d} : drain'[c] = drain[c]
           Quiet == /\ faults = 0
                    /\ \A f \in Files : retries'[f] \in {0, retries[f]}
                    /\ r.pc = "recover" => dir' = dir
           All == /\ Quiet /\ Others
                  /\ drain'[d].defer \in {{}, r.defer}
<1>1. /\ r \in DaemonRecord /\ faults \in Nat /\ retries \in [Files -> Nat]
      /\ (r.pc = "index" <=> r.doing # Null) /\ r.doing \in Files \cup {Null}
  BY ConstantsAssumption DEF TypeOK, DaemonState, DaemonRecord
<1>2. ASSUME NEW q, Becomes(d, q)
      PROVE  drain'[d] = q /\ Others
  BY <1>2 DEF TypeOK, Becomes
<1>3. ASSUME NEW q, Becomes(d, q), q.defer \in {{}, r.defer}, Quiet
      PROVE  All
  <2> HIDE DEF Quiet
  <2> QED
    BY <1>2, <1>3
<1>4. ASSUME NEW k \in Nat, Spend(k)
      PROVE  k = 0 /\ faults = 0
  BY <1>1, <1>4 DEF Spend
<1>5. ~Spend(1) /\ ~Spend(2) /\ (Spend(0) => faults = 0) /\ (UNCHANGED faults => faults = 0)
  BY <1>4
<1>6. \A S : ~Defer(d, S, 1)
  <2> SUFFICES ASSUME NEW S, Defer(d, S, 1)
               PROVE  FALSE
    OBVIOUS
  <2>1. Spend(1) \/ Spend(1 + 1)
    BY DEF Defer
  <2> QED
    BY <1>4, <2>1
<1>7. \A g : ~Requeue(d, g, 1)
  BY <1>5, <1>6 DEF Requeue
<1>8. NewDaemon("idle").defer = {} /\ NewDaemon("down").defer = {} /\ NextCycle(d).defer = {}
  BY DEF NewDaemon, NextCycle
<1>9. ~Crash(d) /\ ~DrainThrows(d) /\ ~Retire(d) /\ ~FingerprintFails(d) /\ ~IndexFails(d)
  <2>1. ~IndexFails(d)
    BY <1>7 DEF IndexFails
  <2>2. ~Crash(d) /\ ~DrainThrows(d) /\ ~Retire(d)
    BY <1>5 DEF Crash, DrainThrows, Retire
  <2>3. ~FingerprintFails(d)
    BY <1>7 DEF FingerprintFails
  <2> QED
    BY <2>1, <2>2, <2>3
<1>10. ASSUME Start(d) \/ Leave(d)
       PROVE  All
  <2>1. Quiet
    BY <1>1, <1>5, <1>10 DEF Start, Leave
  <2> HIDE DEF Quiet, All
  <2> QED
    BY <1>3, <1>8, <1>10, <2>1 DEF Start, Leave
<1>11. ASSUME BeginDrain(d)
       PROVE  All
  <2> DEFINE sn == [n \in Names |-> IF n \in Recoverable THEN r.snap[n] ELSE Null]
             q == [r EXCEPT !.pc = "recover", !.todo = Recoverable, !.snap = sn]
  <2> HIDE DEF sn
  <2>1. q.defer = r.defer
    BY <1>1 DEF DaemonRecord
  <2>2. Becomes(d, q) /\ Quiet
    BY <1>1, <1>5, <1>11 DEF BeginDrain, sn
  <2> HIDE DEF q, Quiet, All
  <2> QED
    BY <1>3, <2>1, <2>2
<1>12. ASSUME RecoverNext(d)
       PROVE  All
  <2> DEFINE b(n) == IF Stamped(d, n) THEN {} ELSE Named(dir[n])
             q(n) == [r EXCEPT !.pc = "batch", !.stage = "a", !.cur = n,
                               !.seen = lines[dir[n]], !.batch = b(n)]
  <2>1. (\E n \in r.todo : Becomes(d, q(n))) /\ Quiet
    BY <1>1, <1>5, <1>12 DEF RecoverNext
  <2> HIDE DEF b
  <2>2. \A n : q(n).defer = r.defer
    BY <1>1 DEF DaemonRecord
  <2> HIDE DEF q, Quiet, All
  <2> QED
    BY <1>3, <2>1, <2>2
<1>13. ASSUME RecoverUnreadable(d)
       PROVE  All
  <2> DEFINE p(n) == [r EXCEPT !.todo = @ \ {n}]
  <2>1. \A n : p(n).defer = r.defer
    BY <1>1 DEF DaemonRecord
  <2>2. \E n \in r.todo : Becomes(d, p(n)) /\ UNCHANGED <<dir, faults>>
    BY <1>5, <1>13 DEF RecoverUnreadable
  <2>3. Quiet
    BY <1>1, <1>5, <1>13, <2>2 DEF RecoverUnreadable
  <2> HIDE DEF p, Quiet, All
  <2> QED
    BY <1>3, <2>1, <2>2, <2>3
<1>14. ASSUME HandBack(d)
       PROVE  All
  <2> DEFINE q == [r EXCEPT !.batch = {}]
  <2>1. q.defer = r.defer
    BY <1>1 DEF DaemonRecord
  <2>2. Becomes(d, q) /\ UNCHANGED faults
    BY <1>6, <1>14 DEF HandBack
  <2>3. Quiet
    BY <1>1, <1>5, <1>14, <2>2 DEF HandBack
  <2> HIDE DEF q, Quiet, All
  <2> QED
    BY <1>3, <2>1, <2>2, <2>3
<1>15. ASSUME SkipBlocked(d)
       PROVE  All
  <2> DEFINE q(g) == [r EXCEPT !.batch = @ \ {g}]
  <2>1. \A g : q(g).defer = r.defer
    BY <1>1 DEF DaemonRecord
  <2>2. (\E g \in Blocked : Becomes(d, q(g))) /\ Quiet
    BY <1>1, <1>5, <1>15 DEF SkipBlocked
  <2> HIDE DEF q, Quiet, All
  <2> QED
    BY <1>3, <2>1, <2>2
<1>16. ASSUME Fingerprint(d)
       PROVE  All
  <2>1. PICK f \in r.batch \ Blocked :
          Becomes(d, [r EXCEPT !.pc = "index", !.doing = f, !.got = disk[f], !.batch = @ \ {f}])
    BY <1>16 DEF Fingerprint
  <2> DEFINE q == [r EXCEPT !.pc = "index", !.doing = f, !.got = disk[f], !.batch = @ \ {f}]
  <2>2. q.defer = r.defer
    BY <1>1 DEF DaemonRecord
  <2>3. Becomes(d, q) /\ Quiet
    BY <1>1, <1>5, <1>16, <2>1 DEF Fingerprint
  <2> HIDE DEF q, Quiet, All
  <2> QED
    BY <1>3, <2>2, <2>3
<1>17. ASSUME IndexPath(d)
       PROVE  All
  <2> DEFINE q == [r EXCEPT !.pc = "batch", !.doing = Null, !.got = 0]
  <2>1. q.defer = r.defer
    BY <1>1 DEF DaemonRecord
  <2>2. Becomes(d, q) /\ Quiet
    BY <1>1, <1>5, <1>17 DEF IndexPath
  <2> HIDE DEF q, Quiet, All
  <2> QED
    BY <1>3, <2>1, <2>2
<1>18. ASSUME ChooseClaim(d) \/ Claim(d) \/ Recheck(d)
       PROVE  All
  <2> DEFINE q(pc) == [r EXCEPT !.pc = pc]
             p(pc, n) == [r EXCEPT !.pc = pc, !.cur = n]
  <2>1. (\A pc : q(pc).defer = r.defer) /\ (\A pc, n : p(pc, n).defer = r.defer)
    BY <1>1 DEF DaemonRecord
  <2>2. Quiet
    BY <1>1, <1>5, <1>18 DEF ChooseClaim, Claim, Recheck
  <2>3. (\E pc : Becomes(d, q(pc))) \/ (\E pc, n : Becomes(d, p(pc, n)))
    BY <1>18 DEF ChooseClaim, Claim, Recheck
  <2> HIDE DEF q, p, Quiet, All
  <2> QED
    BY <1>3, <2>1, <2>2, <2>3
<1>19. ASSUME ReadClaim(d)
       PROVE  All
  <2> DEFINE q == [r EXCEPT !.pc = "batch", !.stage = "b", !.seen = lines[dir[r.cur]],
                            !.batch = Named(dir[r.cur])]
             p == [r EXCEPT !.pc = "requeue", !.cur = Null]
  <2>1. q.defer = r.defer /\ p.defer = r.defer
    BY <1>1 DEF DaemonRecord
  <2>2. (Becomes(d, q) \/ Becomes(d, p)) /\ Quiet
    BY <1>1, <1>5, <1>19 DEF ReadClaim
  <2> HIDE DEF q, p, Quiet, All
  <2> QED
    BY <1>3, <2>1, <2>2
<1>20. ASSUME Clear(d)
       PROVE  All
  <2> DEFINE pc == IF r.stage = "a" THEN "recover" ELSE "requeue"
             done == [r EXCEPT !.pc = pc, !.todo = @ \ {r.cur}, !.cur = Null, !.seen = NoLines]
             q(v) == [done EXCEPT !.snap[r.cur] = v]
  <2>1. Becomes(d, q(IF r.stage = "a" THEN Null ELSE r.snap[r.cur])) /\ UNCHANGED faults
    BY <1>5, <1>20 DEF Clear
  <2>2. Quiet
    BY <1>1, <1>5, <1>20, <2>1 DEF Clear
  <2> HIDE DEF pc
  <2>3. \A v : q(v).defer = r.defer
    BY <1>1 DEF DaemonRecord
  <2> HIDE DEF q, Quiet, All
  <2> QED
    BY <1>3, <2>1, <2>2, <2>3
<1>21. ASSUME FlushDeferred(d)
       PROVE  All
  <2> DEFINE q == [r EXCEPT !.pc = "tidy", !.defer = {}]
  <2>1. q.defer = {}
    BY <1>1 DEF DaemonRecord
  <2>2. (Becomes(d, q) \/ Becomes(d, NextCycle(d))) /\ Quiet
    BY <1>1, <1>5, <1>21 DEF FlushDeferred
  <2> HIDE DEF q, Quiet, All
  <2> QED
    BY <1>3, <1>8, <2>1, <2>2
<1>22. ASSUME RemoveSidecar(d)
       PROVE  All
  <2>1. Becomes(d, NextCycle(d)) /\ Quiet
    BY <1>1, <1>5, <1>22 DEF RemoveSidecar
  <2> HIDE DEF Quiet, All
  <2> QED
    BY <1>3, <1>8, <2>1
<1> HIDE DEF All
<1>23. All
  BY <1>9, <1>10, <1>11, <1>12, <1>13, <1>14, <1>15, <1>16, <1>17, <1>18, <1>19, <1>20, <1>21,
     <1>22 DEF DrainStep, PathStep
<1> QED
  BY <1>23 DEF All

\* A step of a hook that is no fault: it charges nothing, moves no daemon and
\* unlinks nothing, and it gives a file up only when its attempts are spent.
LEMMA CalmHook ==
  ASSUME TypeOK, faults' = 0, NEW h \in Hooks,
         (\E S \in SUBSET Files : EditFiles(h, S)) \/ HookStep(h) \/ HookFails(h)
  PROVE  /\ faults = 0 /\ drain' = drain /\ retries' = retries
         /\ \A n \in Names : dir[n] # Null => dir'[n] = dir[n]
         /\ \A f \in Files : HookLost(f) => OutOfAttempts(f)
<1>1. faults \in Nat /\ hook \in [Hooks -> HookState]
  BY ConstantsAssumption DEF TypeOK
<1>2. ~HookFails(h)
  BY <1>1 DEF HookFails, Spend
<1>3. \A k \in Hooks \ {h} : hook'[k] = hook[k]
  BY <1>1, <1>2 DEF EditFiles, HookStep, HookOpen, HookWrite, HookCheck
<1>4. CASE \E S \in SUBSET Files : EditFiles(h, S)
  <2>1. hook'[h].pc # "lost"
    BY <1>1, <1>4 DEF EditFiles, HookIdle
  <2> QED
    BY <1>3, <1>4, <2>1 DEF EditFiles, HookLost
<1>5. CASE HookOpen(h)
  <2>1. \A n \in Names : dir[n] # Null => dir'[n] = dir[n]
    BY <1>5 DEF HookOpen, AppendTo, TypeOK
  <2>2. hook'[h].pc = "write"
    <3> DEFINE t == hook[h].tries + 1
    <3> HIDE DEF t
    <3>1. hook' = [hook EXCEPT ![h].pc = "write", ![h].fd = dir'["live"], ![h].tries = t]
      BY <1>5 DEF HookOpen, t
    <3> QED
      BY <1>1, <3>1 DEF HookState
  <2> QED
    BY <1>3, <1>5, <2>1, <2>2 DEF HookOpen, HookLost
<1>6. CASE HookWrite(h)
  <2>1. hook'[h].pc = "check"
    BY <1>1, <1>6 DEF HookWrite, HookState
  <2> QED
    BY <1>3, <1>6, <2>1 DEF HookWrite, HookLost
<1>7. CASE HookCheck(h)
  <2>1. UNCHANGED <<faults, drain, retries, dir>>
    BY <1>7 DEF HookCheck
  <2>2. ASSUME dir["live"] = hook[h].fd \/ hook[h].tries < AppendAttempts
        PROVE  hook'[h].pc # "lost"
    <3> DEFINE done == [HookIdle EXCEPT !.reported = Cardinality(hook[h].files)]
               again == [hook[h] EXCEPT !.pc = "open", !.fd = Null]
    <3>1. hook'[h] = done \/ hook'[h] = again
      BY <1>1, <1>7, <2>2 DEF HookCheck
    <3>2. done.pc = "idle" /\ again.pc = "open"
      BY <1>1 DEF HookIdle, HookState
    <3> QED
      BY <3>1, <3>2
  <2>3. hook[h].pc = "check" /\ hook[h].tries \in Nat /\ AppendAttempts \in Nat
    BY <1>1, <1>7, ConstantsAssumption DEF HookCheck, HookState
  <2> QED
    BY <1>3, <2>1, <2>2, <2>3 DEF HookLost, OutOfAttempts
<1> QED
  BY <1>2, <1>4, <1>5, <1>6, <1>7 DEF HookStep

\* While nothing has failed, nothing is charged or deferred.
LEMMA CalmKept ==
  ASSUME TypeOK, Calm, Stuck = {}, [Next]_vars
  PROVE  Calm'
<1> SUFFICES ASSUME faults' = 0
             PROVE  /\ \A f \in Files : retries'[f] = 0
                    /\ \A d \in Daemons : drain'[d].defer = {}
  BY DEF Calm
<1>1. CASE UNCHANGED vars
  BY <1>1 DEF vars, Calm
<1>2. ASSUME NEW h \in Hooks,
             (\E S \in SUBSET Files : EditFiles(h, S)) \/ HookStep(h) \/ HookFails(h)
      PROVE  /\ \A f \in Files : retries'[f] = 0
             /\ \A d \in Daemons : drain'[d].defer = {}
  <2>1. faults = 0 /\ drain' = drain /\ retries' = retries
    BY <1>2, CalmHook
  <2> QED
    BY <2>1 DEF Calm
<1>3. ASSUME NEW d \in Daemons,
             \/ Start(d) \/ Retire(d) \/ Leave(d) \/ Crash(d) \/ DrainThrows(d)
             \/ DrainStep(d)
      PROVE  /\ \A f \in Files : retries'[f] = 0
             /\ \A c \in Daemons : drain'[c].defer = {}
  <2>1. /\ faults = 0
        /\ \A c \in Daemons \ {d} : drain'[c] = drain[c]
        /\ \A f \in Files : retries'[f] \in {0, retries[f]}
        /\ drain'[d].defer \in {{}, drain[d].defer}
    BY <1>3, CalmStep
  <2> QED
    BY <2>1 DEF Calm
<1> QED
  BY <1>1, <1>2, <1>3 DEF Next

\* Four of the five losses take a failure, and so does a hook that dies.
LEMMA CalmLosses ==
  ASSUME SoleDaemon, TypeOK, Calm, Calm', Stuck = {}, Next, faults' = 0, NEW f \in Files
  PROVE  /\ HookLost(f) => OutOfAttempts(f)
         /\ ~GivenUp(f) /\ ~Quarantined(f) /\ ~MemoryOnly(f) /\ ~ForwardFailed(f)
<1>1. faults = 0
  BY CalmHook, CalmStep DEF Next
<1>2. ~GivenUp(f)
  BY ConstantsAssumption DEF GivenUp, Calm
<1>3. ~MemoryOnly(f) /\ ~ForwardFailed(f)
  BY <1>1 DEF MemoryOnly, ForwardFailed, Calm
<1>4. ASSUME NEW h \in Hooks,
             (\E S \in SUBSET Files : EditFiles(h, S)) \/ HookStep(h) \/ HookFails(h)
      PROVE  ~Quarantined(f) /\ (HookLost(f) => OutOfAttempts(f))
  BY <1>4, CalmHook DEF Quarantined
<1>5. ASSUME NEW d \in Daemons,
             \/ Start(d) \/ Retire(d) \/ Leave(d) \/ Crash(d) \/ DrainThrows(d)
             \/ DrainStep(d)
      PROVE  ~Quarantined(f) /\ ~HookLost(f)
  <2>1. drain[d].pc = "recover" => dir' = dir
    BY <1>5, CalmStep
  <2>2. \A c \in Daemons : c = d
    BY DEF SoleDaemon
  <2>3. hook' = hook
    BY <1>5
    DEF Start, Retire, Leave, Crash, DrainThrows, DrainStep, PathStep, BeginDrain, RecoverNext,
        RecoverUnreadable, HandBack, SkipBlocked, Fingerprint, FingerprintFails, IndexPath,
        IndexFails, Requeue, ChooseClaim, Claim, ReadClaim, Recheck, Clear, FlushDeferred,
        RemoveSidecar
  <2> QED
    BY <2>1, <2>2, <2>3 DEF Quarantined, HookLost
<1> QED
  BY <1>2, <1>3, <1>4, <1>5 DEF Next

\* With one daemon and no file whose indexing always fails: until the first crash,
\* retirement or failed call, an edit is lost only by a hook under which dirty.txt was
\* renamed at each of its attempts (dirty_queue.ts: appendToClaimableFile).
THEOREM OnlyAttemptsLose ==
  ASSUME SoleDaemon, Stuck = {}
  PROVE  Spec => LostOnlyByAttempts
<1>1. Init => Calm
  BY DEF Init, Calm, NewDaemon
<1>2. TypeOK /\ Calm /\ [Next]_vars => Calm'
  BY CalmKept
<1>3. Spec => []TypeOK
  BY TypeCorrect
<1>4. TypeOK /\ Calm /\ Calm' /\ [Next]_vars
      /\ [\A f \in Files :
           Accounted(f) =>
             \/ Accounted(f)'
             \/ HookLost(f) \/ GivenUp(f) \/ Quarantined(f)
             \/ MemoryOnly(f) \/ ForwardFailed(f)]_vars
      => [faults' = 0 /\ Stuck = {} =>
            \A f \in Files : Accounted(f) => Accounted(f)' \/ OutOfAttempts(f)]_vars
  BY CalmLosses
<1>5. Spec => NoSilentLoss
  BY SilentLossFree
<1> QED
  BY <1>1, <1>2, <1>3, <1>4, <1>5, PTL DEF Spec, NoSilentLoss, LostOnlyByAttempts

=============================================================================
