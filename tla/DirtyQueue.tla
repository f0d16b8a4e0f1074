----------------------------- MODULE DirtyQueue -----------------------------
(***************************************************************************)
(* The dirty queue of token-goat: hook processes append the paths of edited *)
(* files to queue/dirty.txt, and a worker daemon claims the file by rename, *)
(* indexes every path in it and deletes it (src/src/dirty_queue.ts,         *)
(* src/src/worker.ts: drainOnce and processDirtyBatch).                     *)
(*                                                                         *)
(* The file system is modelled at the level the code's races live at: a     *)
(* directory of names, and inodes that a hook's open descriptor keeps       *)
(* writing to after the name has moved.  A queue file is a bag of paths:    *)
(* its order and spelling never matter, because every reader deduplicates.  *)
(***************************************************************************)
EXTENDS Naturals, FiniteSets

CONSTANTS
  Files,          \* the source files being edited
  Hooks,          \* hook processes: each appends to the queue, one call at a time
  Daemons,        \* worker daemon processes; the intended number alive is one
  Inodes,         \* file objects of the queue directory
  Alts,           \* the `.draining.alt-<ts>` and `.draining.alt-requeue-<pid>-<ts>` names
  Blocked,        \* files under a worker.blocked_roots prefix
  Stuck,          \* files whose indexing always fails
  Null,           \* "no file", "no name", "no path"
  MaxEdits,       \* bound: versions each file goes through
  MaxRetries,     \* MAX_TRANSIENT_RETRIES
  AppendAttempts, \* the three attempts of appendToClaimableFile
  MaxFaults       \* bound: crashes, retirements and failed system calls

Names == {"live", "draining"} \cup Alts

ASSUME ConstantsAssumption ==
  /\ "live" \notin Alts /\ "draining" \notin Alts
  /\ Null \notin Names /\ Null \notin Inodes /\ Null \notin Files
  /\ Null \notin Inodes \X [Files -> Nat]
  /\ IsFiniteSet(Files)
  /\ MaxEdits \in Nat /\ MaxRetries \in Nat /\ MaxFaults \in Nat
  /\ AppendAttempts \in Nat \ {0}

VARIABLES
  disk,     \* disk[f]: the version of f on disk (a deletion is a version too)
  indexed,  \* indexed[f]: the version the index rows of f describe
  retries,  \* index_retries.retry_count, saturating just above MaxRetries
  dir,      \* dir[n]: the inode the queue directory links under name n, or Null
  lines,    \* lines[i][f]: how many lines of inode i name f
  hook,     \* hook[h]: the append a hook process is in
  drain,    \* drain[d]: the program counter and the memory of a daemon
  faults    \* how many crashes, retirements and failed calls have happened

vars == <<disk, indexed, retries, dir, lines, hook, drain, faults>>
queue == <<dir, lines>>
index == <<indexed, retries>>

Lines == [Files -> Nat]
NoLines == [f \in Files |-> 0]
Named(i) == {f \in Files : lines[i][f] > 0}
WithLines(bag, S) == [f \in Files |-> IF f \in S THEN bag[f] + 1 ELSE bag[f]]

HookPcs == {"idle", "open", "write", "check", "lost"}
DrainPcs == {"down", "idle", "recover", "batch", "index", "clear", "claim",
             "read", "requeue", "tidy"}

HookIdle == [pc |-> "idle", files |-> {}, fd |-> Null, tries |-> 0, reported |-> 0]

\* A daemon's memory when it starts: everything but the disk is gone.
NewDaemon(pc) ==
  [pc |-> pc, stage |-> "a", todo |-> {}, cur |-> Null, seen |-> NoLines,
   batch |-> {}, doing |-> Null, got |-> 0, defer |-> {}, side |-> Null,
   retiring |-> FALSE, snap |-> [n \in Names |-> Null]]

\* Daemon d's memory becomes r; the other daemons keep theirs.
Becomes(d, r) == drain' = [drain EXCEPT ![d] = r]

\* What survives in a daemon from one drain cycle to the next: the retirement
\* latch and unclearedDrainingSnapshots, which are module state, not locals.
NextCycle(d) == [NewDaemon("idle") EXCEPT !.retiring = drain[d].retiring,
                                          !.snap = drain[d].snap]

Spend(k) == faults + k <= MaxFaults /\ faults' = faults + k

\* An inode the file system may hand out: unlinked and held open by nobody.  A
\* remembered stamp carries the file's mtime, so a reused inode never matches it.
Free(i) ==
  /\ \A n \in Names : dir[n] # i
  /\ \A h \in Hooks : hook[h].fd # i
  /\ \A d \in Daemons, n \in Names :
       drain[d].snap[n] # Null => drain[d].snap[n][1] # i

\* Which free inode, and which unused name, is handed out never matters.
FreshInode == CHOOSE i \in Inodes : Free(i)

Unused(n) == dir[n] = Null /\ \A d \in Daemons : drain[d].side # n
FreshAlt == CHOOSE n \in Alts : Unused(n)

\* Open name n for append, creating it when absent, and write the paths S.
AppendTo(n, S) ==
  \/ /\ dir[n] # Null
     /\ lines' = [lines EXCEPT ![dir[n]] = WithLines(@, S)]
     /\ UNCHANGED dir
  \/ /\ dir[n] = Null
     /\ \E i \in Inodes :
          /\ Free(i) /\ i = FreshInode
          /\ dir' = [dir EXCEPT ![n] = i]
          /\ lines' = [lines EXCEPT ![i] = WithLines(NoLines, S)]

Init ==
  /\ disk = [f \in Files |-> 0]
  /\ indexed = [f \in Files |-> 0]
  /\ retries = [f \in Files |-> 0]
  /\ dir = [n \in Names |-> Null]
  /\ lines = [i \in Inodes |-> NoLines]
  /\ hook = [h \in Hooks |-> HookIdle]
  /\ drain = [d \in Daemons |-> NewDaemon("down")]
  /\ faults = 0

-----------------------------------------------------------------------------
(***************************************************************************)
(* The producers: an edit lands, then its hook appends the paths            *)
(* (enqueueDirtyPathsSafe, appendDirtyQueuePaths, appendToClaimableFile).   *)
(***************************************************************************)

\* A tool call changes the files S and its post-tool hook starts the append.
EditFiles(h, S) ==
  /\ hook[h].pc \in {"idle", "lost"}
  /\ S # {} /\ \A f \in S : disk[f] < MaxEdits
  /\ disk' = [f \in Files |-> IF f \in S THEN disk[f] + 1 ELSE disk[f]]
  /\ hook' = [hook EXCEPT ![h] = [HookIdle EXCEPT !.pc = "open", !.files = S]]
  /\ UNCHANGED <<indexed, retries, dir, lines, drain, faults>>

\* openSync(queuePath, 'a'): the descriptor stays on this inode from here on.
HookOpen(h) ==
  /\ hook[h].pc = "open"
  /\ AppendTo("live", {})
  /\ hook' = [hook EXCEPT ![h].pc = "write", ![h].fd = dir'["live"],
                          ![h].tries = @ + 1]
  /\ UNCHANGED <<disk, indexed, retries, drain, faults>>

HookWrite(h) ==
  /\ hook[h].pc = "write"
  /\ lines' = [lines EXCEPT ![hook[h].fd] = WithLines(@, hook[h].files)]
  /\ hook' = [hook EXCEPT ![h].pc = "check"]
  /\ UNCHANGED <<disk, indexed, retries, dir, drain, faults>>

\* Mutant of HookCheck: the append trusts its write and never compares inodes.
HookTrustsWrite(h) ==
  /\ hook[h].pc = "check"
  /\ hook' = [hook EXCEPT ![h] =
       [HookIdle EXCEPT !.reported = Cardinality(hook[h].files)]]
  /\ UNCHANGED <<disk, indexed, retries, dir, lines, drain, faults>>

\* The inode written is compared with the one now named dirty.txt; a mismatch
\* means a claim took it, and the write is done again.  When the attempts run
\* out appendDirtyQueuePaths answers false, and enqueueDirtyPathsSafe, which
\* drops that answer, still reports every path as queued.
HookCheck(h) ==
  /\ hook[h].pc = "check"
  /\ hook' = [hook EXCEPT ![h] =
       IF dir["live"] = hook[h].fd
         THEN [HookIdle EXCEPT !.reported = Cardinality(hook[h].files)]
       ELSE IF hook[h].tries < AppendAttempts
         THEN [hook[h] EXCEPT !.pc = "open", !.fd = Null]
       ELSE [HookIdle EXCEPT !.pc = "lost", !.files = hook[h].files,
                             !.reported = Cardinality(hook[h].files)]]
  /\ UNCHANGED <<disk, indexed, retries, dir, lines, drain, faults>>

\* The hook process is killed, or its open or write throws and is swallowed.
HookFails(h) ==
  /\ hook[h].pc \in {"open", "write", "check"}
  /\ Spend(1)
  /\ hook' = [hook EXCEPT ![h] = [HookIdle EXCEPT !.pc = "lost",
                                                  !.files = hook[h].files]]
  /\ UNCHANGED <<disk, indexed, retries, dir, lines, drain>>

-----------------------------------------------------------------------------
(***************************************************************************)
(* The daemon's life around its drain cycles (runWorkerLoop).               *)
(***************************************************************************)

\* A hook's ensureWorkerAlive starts a daemon.
Start(d) ==
  /\ drain[d].pc = "down"
  /\ Becomes(d, NewDaemon("idle"))
  /\ UNCHANGED <<disk, indexed, retries, dir, lines, hook, faults>>

\* retiringNow: at a check the pid file says this daemon should leave; latched.
Retire(d) ==
  /\ drain[d].pc \in {"idle", "recover", "batch"}
  /\ ~drain[d].retiring
  /\ Spend(1)
  /\ Becomes(d, [drain[d] EXCEPT !.retiring = TRUE])
  /\ UNCHANGED <<disk, indexed, retries, dir, lines, hook>>

Leave(d) ==
  /\ drain[d].pc = "idle" /\ drain[d].retiring
  /\ Becomes(d, NewDaemon("down"))
  /\ UNCHANGED <<disk, indexed, retries, dir, lines, hook, faults>>

Crash(d) ==
  /\ drain[d].pc # "down"
  /\ Spend(1)
  /\ Becomes(d, NewDaemon("down"))
  /\ UNCHANGED <<disk, indexed, retries, dir, lines, hook>>

-----------------------------------------------------------------------------
(***************************************************************************)
(* Stage (a) of drainOnce: recover the files an earlier cycle left behind.  *)
(***************************************************************************)

\* Mutants of Recoverable: every queue file is listed, the live one too; and
\* only the primary name is, so that a fallback claim is never recovered.
RecoverableAny == {n \in Names : dir[n] # Null}
RecoverablePrimary == {n \in {"draining"} : dir[n] # Null}

Recoverable == {n \in Names \ {"live"} : dir[n] # Null}

BeginDrain(d) ==
  /\ drain[d].pc = "idle" /\ ~drain[d].retiring
  /\ Becomes(d, [drain[d] EXCEPT
       !.pc = "recover",
       !.todo = Recoverable,
       !.snap = [n \in Names |-> IF n \in Recoverable THEN @[n] ELSE Null]])
  /\ UNCHANGED <<disk, indexed, retries, dir, lines, hook, faults>>

\* The file n is, unchanged, the one whose stamp the daemon remembers.
Stamped(d, n) == drain[d].snap[n] = <<dir[n], lines[dir[n]]>>

\* One listed file is read.  Contents already folded into a batch, which could
\* not be deleted, are recognised by their stamp and not processed again.
RecoverNext(d) ==
  /\ drain[d].pc = "recover"
  /\ \E n \in drain[d].todo :
       /\ dir[n] # Null
       /\ Becomes(d, [drain[d] EXCEPT
            !.pc = "batch", !.stage = "a", !.cur = n,
            !.seen = lines[dir[n]],
            !.batch = IF Stamped(d, n)
                        THEN {} ELSE Named(dir[n])])
  /\ UNCHANGED <<disk, indexed, retries, dir, lines, hook, faults>>

\* Five failed reads: the file is renamed to `.corrupt-`, out of recovery's
\* reach, or, when the rename fails as well, left for the next cycle.
RecoverUnreadable(d) ==
  /\ drain[d].pc = "recover"
  /\ \E n \in drain[d].todo :
       \/ /\ dir[n] # Null /\ Spend(1)
          /\ dir' = [dir EXCEPT ![n] = Null]
          /\ Becomes(d, [drain[d] EXCEPT !.todo = @ \ {n}, !.snap[n] = Null])
       \/ /\ dir[n] # Null /\ Spend(2)
          /\ Becomes(d, [drain[d] EXCEPT !.todo = @ \ {n}])
          /\ UNCHANGED dir
       \/ /\ dir[n] = Null
          /\ Becomes(d, [drain[d] EXCEPT !.todo = @ \ {n}])
          /\ UNCHANGED <<dir, faults>>
  /\ UNCHANGED <<disk, indexed, retries, lines, hook>>

-----------------------------------------------------------------------------
(***************************************************************************)
(* processDirtyBatch, one path at a time.                                   *)
(***************************************************************************)

\* deferAppend: the paths S wait in memory for the end of the cycle, with a
\* copy in this cycle's sidecar.  A failed sidecar write leaves the memory copy.
Defer(d, S, cost) ==
  \/ /\ Spend(cost)
     /\ \E n \in Alts :
          /\ IF drain[d].side = Null
               THEN Unused(n) /\ n = FreshAlt
               ELSE n = drain[d].side
          /\ AppendTo(n, S)
          /\ Becomes(d, [drain[d] EXCEPT !.pc = "batch", !.doing = Null,
                         !.got = 0, !.batch = @ \ S,
                         !.defer = @ \cup S, !.side = n])
  \/ /\ Spend(cost + 1)
     /\ Becomes(d, [drain[d] EXCEPT !.pc = "batch", !.doing = Null,
                    !.got = 0, !.batch = @ \ S, !.defer = @ \cup S])
     /\ UNCHANGED queue

\* Mutant of Requeue: the retry streak is not charged, so the budget never ends.
RequeueUncharged(d, f, cost) ==
  /\ Defer(d, {f}, cost)
  /\ UNCHANGED <<disk, indexed, retries, hook>>

\* requeueFn: the failure is charged to the path's retry streak, and the path
\* is deferred unless the streak has outgrown the budget.
Requeue(d, f, cost) ==
  /\ retries' = [retries EXCEPT ![f] = IF @ > MaxRetries THEN @ ELSE @ + 1]
  /\ \/ retries[f] + 1 > MaxRetries
        /\ Spend(cost)
        /\ Becomes(d, [drain[d] EXCEPT !.pc = "batch", !.doing = Null,
                      !.got = 0, !.batch = @ \ {f}])
        /\ UNCHANGED queue
     \/ retries[f] + 1 <= MaxRetries /\ Defer(d, {f}, cost)
  /\ UNCHANGED <<disk, indexed, hook>>

\* Mutant of HandBack: the answer of the append is not looked at.
HandBackUnchecked(d) ==
  /\ drain[d].pc = "batch" /\ drain[d].batch # {} /\ drain[d].retiring
  /\ Becomes(d, [drain[d] EXCEPT !.batch = {}])
  /\ \/ AppendTo("live", drain[d].batch) /\ UNCHANGED faults
     \/ Spend(1) /\ UNCHANGED queue
  /\ UNCHANGED <<disk, indexed, retries, hook>>

\* drainShouldHandBack: a retiring daemon returns what it has not reached to
\* the live queue, and defers it when that append fails.
HandBack(d) ==
  /\ drain[d].pc = "batch" /\ drain[d].batch # {} /\ drain[d].retiring
  /\ \/ /\ AppendTo("live", drain[d].batch)
        /\ Becomes(d, [drain[d] EXCEPT !.batch = {}])
        /\ UNCHANGED faults
     \/ Defer(d, drain[d].batch, 1)
  /\ UNCHANGED <<disk, indexed, retries, hook>>

SkipBlocked(d) ==
  /\ drain[d].pc = "batch" /\ ~drain[d].retiring
  /\ \E f \in drain[d].batch \cap Blocked :
       Becomes(d, [drain[d] EXCEPT !.batch = @ \ {f}])
  /\ UNCHANGED <<disk, indexed, retries, dir, lines, hook, faults>>

\* The bytes are read (or found absent) now; the rows are written later.
Fingerprint(d) ==
  /\ drain[d].pc = "batch" /\ ~drain[d].retiring
  /\ \E f \in drain[d].batch \ Blocked :
       Becomes(d, [drain[d] EXCEPT !.pc = "index", !.doing = f,
                     !.got = disk[f], !.batch = @ \ {f}])
  /\ UNCHANGED <<disk, indexed, retries, dir, lines, hook, faults>>

FingerprintFails(d) ==
  /\ drain[d].pc = "batch" /\ ~drain[d].retiring
  /\ \E f \in drain[d].batch \ Blocked : Requeue(d, f, 1)

\* The rows (or their removal) commit, and the retry streak ends.
IndexPath(d) ==
  /\ drain[d].pc = "index" /\ drain[d].doing \notin Stuck
  /\ indexed' = [indexed EXCEPT ![drain[d].doing] = drain[d].got]
  /\ retries' = [retries EXCEPT ![drain[d].doing] = 0]
  /\ Becomes(d, [drain[d] EXCEPT !.pc = "batch", !.doing = Null, !.got = 0])
  /\ UNCHANGED <<disk, dir, lines, hook, faults>>

\* INDEX_FAILED, or removeFileFromIndex throwing.
IndexFails(d) ==
  /\ drain[d].pc = "index"
  /\ Requeue(d, drain[d].doing, IF drain[d].doing \in Stuck THEN 0 ELSE 1)

\* bumpRetryCount throws: drainOnce unwinds, and the loop starts a new cycle.
DrainThrows(d) ==
  /\ drain[d].pc \in {"batch", "index"}
  /\ drain[d].pc = "index" \/ drain[d].batch # {}
  /\ Spend(1)
  /\ Becomes(d, NextCycle(d))
  /\ UNCHANGED <<disk, indexed, retries, dir, lines, hook>>

-----------------------------------------------------------------------------
(***************************************************************************)
(* Stage (b) of drainOnce: claim the live queue, and finish the cycle.      *)
(***************************************************************************)

\* existsSync(draining) picks the name to claim into; the rename comes later.
ChooseClaim(d) ==
  /\ drain[d].pc = "recover" /\ drain[d].todo = {}
  /\ \/ /\ drain[d].retiring \/ dir["live"] = Null
        /\ Becomes(d, [drain[d] EXCEPT !.pc = "requeue"])
     \/ /\ ~drain[d].retiring /\ dir["live"] # Null
        /\ \E n \in Names \ {"live"} :
             /\ IF dir["draining"] = Null
                  THEN n = "draining"
                  ELSE n \in Alts /\ Unused(n) /\ n = FreshAlt
             /\ Becomes(d, [drain[d] EXCEPT !.pc = "claim", !.cur = n])
  /\ UNCHANGED <<disk, indexed, retries, dir, lines, hook, faults>>

\* renameSync(queuePath, claimTarget) replaces whatever the target names.
Claim(d) ==
  /\ drain[d].pc = "claim"
  /\ \/ /\ dir["live"] # Null
        /\ dir' = [dir EXCEPT !["live"] = Null, ![drain[d].cur] = dir["live"]]
        /\ Becomes(d, [drain[d] EXCEPT !.pc = "read"])
        /\ UNCHANGED faults
     \/ /\ IF dir["live"] = Null THEN Spend(0) ELSE Spend(1)
        /\ Becomes(d, [drain[d] EXCEPT !.pc = "requeue", !.cur = Null])
        /\ UNCHANGED dir
  /\ UNCHANGED <<disk, indexed, retries, lines, hook>>

\* A failed read leaves the claimed file for stage (a) of the next cycle.
ReadClaim(d) ==
  /\ drain[d].pc = "read"
  /\ \/ /\ dir[drain[d].cur] # Null
        /\ Becomes(d, [drain[d] EXCEPT !.pc = "batch", !.stage = "b",
                       !.seen = lines[dir[drain[d].cur]],
                       !.batch = Named(dir[drain[d].cur])])
        /\ UNCHANGED faults
     \/ /\ IF dir[drain[d].cur] = Null THEN Spend(0) ELSE Spend(1)
        /\ Becomes(d, [drain[d] EXCEPT !.pc = "requeue", !.cur = Null])
  /\ UNCHANGED <<disk, indexed, retries, dir, lines, hook>>

\* What the claimed file holds beyond the contents that were read: the suffix
\* when it still starts with them, and otherwise everything.
Extra(d) ==
  LET now == lines[dir[drain[d].cur]]
  IN  IF dir[drain[d].cur] = Null THEN {}
      ELSE IF \A f \in Files : now[f] >= drain[d].seen[f]
        THEN {f \in Files : now[f] > drain[d].seen[f]}
      ELSE Named(dir[drain[d].cur])

\* The claimed file is read one last time, and lines a late writer added to it
\* are forwarded to the live queue.  Only stage (b) does this.
Recheck(d) ==
  /\ drain[d].pc = "batch" /\ drain[d].batch = {} /\ drain[d].stage = "b"
  /\ Becomes(d, [drain[d] EXCEPT !.pc = "clear"])
  /\ \/ Extra(d) = {} /\ UNCHANGED <<dir, lines, faults>>
     \/ Extra(d) # {} /\ AppendTo("live", Extra(d)) /\ UNCHANGED faults
     \/ Extra(d) # {} /\ Spend(1) /\ UNCHANGED queue
  /\ UNCHANGED <<disk, indexed, retries, hook>>

\* Mutant of Clear: a recovered file that is deleted leaves its stamp behind.
ClearKeepsStamp(d) ==
  /\ \/ drain[d].pc = "clear"
     \/ drain[d].pc = "batch" /\ drain[d].batch = {} /\ drain[d].stage = "a"
  /\ LET n == drain[d].cur
         done == [drain[d] EXCEPT
                    !.pc = IF drain[d].stage = "a" THEN "recover" ELSE "requeue",
                    !.todo = @ \ {n}, !.cur = Null, !.seen = NoLines]
     IN  \/ /\ dir' = [dir EXCEPT ![n] = Null]
            /\ Becomes(d, done)
            /\ UNCHANGED faults
         \/ /\ dir[n] # Null /\ Spend(2)
            /\ Becomes(d, [done EXCEPT !.snap[n] = <<dir[n], drain[d].seen>>])
            /\ UNCHANGED dir
  /\ UNCHANGED <<disk, indexed, retries, lines, hook>>

\* rmSync, or when it fails the rename to `.corrupt-`; when both fail the file
\* stays and its stamp is remembered.
Clear(d) ==
  /\ \/ drain[d].pc = "clear"
     \/ drain[d].pc = "batch" /\ drain[d].batch = {} /\ drain[d].stage = "a"
  /\ LET n == drain[d].cur
         done == [drain[d] EXCEPT
                    !.pc = IF drain[d].stage = "a" THEN "recover" ELSE "requeue",
                    !.todo = @ \ {n}, !.cur = Null, !.seen = NoLines]
     IN  \/ /\ dir' = [dir EXCEPT ![n] = Null]
            /\ Becomes(d, [done EXCEPT
                 !.snap[n] = IF drain[d].stage = "a" THEN Null ELSE @])
            /\ UNCHANGED faults
         \/ /\ dir[n] # Null /\ Spend(2)
            /\ Becomes(d, [done EXCEPT !.snap[n] = <<dir[n], drain[d].seen>>])
            /\ UNCHANGED dir
  /\ UNCHANGED <<disk, indexed, retries, lines, hook>>

\* This cycle's deferred paths go to the live queue; the sidecar outlives a
\* failure to write them.
FlushDeferred(d) ==
  /\ drain[d].pc = "requeue"
  /\ \/ /\ drain[d].defer = {}
        /\ Becomes(d, NextCycle(d))
        /\ UNCHANGED <<dir, lines, faults>>
     \/ /\ drain[d].defer # {}
        /\ AppendTo("live", drain[d].defer)
        /\ Becomes(d, [drain[d] EXCEPT !.pc = "tidy", !.defer = {}])
        /\ UNCHANGED faults
     \/ /\ drain[d].defer # {} /\ Spend(1)
        /\ Becomes(d, NextCycle(d))
        /\ UNCHANGED queue
  /\ UNCHANGED <<disk, indexed, retries, hook>>

RemoveSidecar(d) ==
  /\ drain[d].pc = "tidy"
  /\ Becomes(d, NextCycle(d))
  /\ \/ /\ dir' = [n \in Names |-> IF n = drain[d].side THEN Null ELSE dir[n]]
        /\ UNCHANGED faults
     \/ /\ drain[d].side # Null /\ Spend(1)
        /\ UNCHANGED dir
  /\ UNCHANGED <<disk, indexed, retries, lines, hook>>

-----------------------------------------------------------------------------
HookStep(h) == HookOpen(h) \/ HookWrite(h) \/ HookCheck(h)

PathStep(d) ==
  \/ HandBack(d) \/ SkipBlocked(d) \/ Fingerprint(d) \/ FingerprintFails(d)
  \/ IndexPath(d) \/ IndexFails(d)

DrainStep(d) ==
  \/ BeginDrain(d) \/ RecoverNext(d) \/ RecoverUnreadable(d) \/ PathStep(d)
  \/ ChooseClaim(d) \/ Claim(d) \/ ReadClaim(d) \/ Recheck(d) \/ Clear(d)
  \/ FlushDeferred(d) \/ RemoveSidecar(d)

Next ==
  \/ \E h \in Hooks :
       \/ \E S \in SUBSET Files : EditFiles(h, S)
       \/ HookStep(h)
       \/ HookFails(h)
  \/ \E d \in Daemons :
       \/ Start(d) \/ Retire(d) \/ Leave(d) \/ Crash(d) \/ DrainThrows(d)
       \/ DrainStep(d)

Spec == Init /\ [][Next]_vars

\* A hook that is not killed finishes its append, a running daemon keeps taking
\* steps (its loop is a timer chain), and a dead one is started again by the
\* ensureWorkerAlive of some later hook.
Fairness ==
  /\ \A h \in Hooks : WF_vars(HookStep(h))
  /\ \A d \in Daemons : WF_vars(DrainStep(d) \/ Leave(d) \/ Start(d))

FairSpec == Spec /\ Fairness

-----------------------------------------------------------------------------
(***************************************************************************)
(* What the queue promises.                                                 *)
(***************************************************************************)

HookState ==
  [pc : HookPcs, files : SUBSET Files, fd : Inodes \cup {Null},
   tries : Nat, reported : Nat]

DaemonRecord ==
  [pc : DrainPcs, stage : {"a", "b"}, todo : SUBSET (Names \ {"live"}),
   cur : (Names \ {"live"}) \cup {Null}, seen : Lines, batch : SUBSET Files,
   doing : Files \cup {Null}, got : 0..MaxEdits, defer : SUBSET Files,
   side : Alts \cup {Null}, retiring : BOOLEAN,
   snap : [Names -> (Inodes \X Lines) \cup {Null}]]

\* A daemon that is indexing is at a path, one that claims has a target, and one
\* that has put its deferred paths back, or runs no cycle, holds none.
DaemonState ==
  {r \in DaemonRecord : /\ r.pc = "index" <=> r.doing # Null
                        /\ r.pc \in {"claim", "read"} => r.cur # Null
                        /\ r.pc \in {"down", "idle", "tidy"} => r.defer = {}}

\* Every variable holds a value of its type, and the numbers stay in bounds.
TypeOK ==
  /\ disk \in [Files -> 0..MaxEdits]
  /\ indexed \in [Files -> 0..MaxEdits]
  /\ retries \in [Files -> 0..MaxRetries + 1]
  /\ dir \in [Names -> Inodes \cup {Null}]
  /\ lines \in [Inodes -> Lines]
  /\ hook \in [Hooks -> HookState]
  /\ drain \in [Daemons -> DaemonState]
  /\ faults \in 0..MaxFaults

\* The index serves old rows for f.
Stale(f) == f \notin Blocked /\ indexed[f] # disk[f]

\* Daemon d will not look at f's lines under name n again: it has gone past
\* them, or is about to delete the file, or remembers having processed it.
Spent(d, n, f) ==
  \/ /\ drain[d].cur = n /\ drain[d].pc \in {"batch", "index"}
     /\ f \notin drain[d].batch
     /\ drain[d].stage = "a" \/ lines[dir[n]][f] <= drain[d].seen[f]
  \/ drain[d].cur = n /\ drain[d].pc = "clear"
  \/ drain[d].side = n /\ drain[d].pc = "tidy"
  \/ Stamped(d, n)

\* Some process still has to deal with f: a queue file names it, a hook is
\* appending it, a daemon holds it for the end of the cycle, or is writing rows
\* of the version now on disk.
Owed(f) ==
  \/ \E n \in Names : /\ dir[n] # Null /\ lines[dir[n]][f] > 0
                      /\ \A d \in Daemons : ~Spent(d, n, f)
  \/ \E h \in Hooks : hook[h].pc \in {"open", "write", "check"} /\ f \in hook[h].files
  \/ \E d \in Daemons : f \in drain[d].defer
  \/ \E d \in Daemons : drain[d].doing = f /\ drain[d].got = disk[f]

\* The losses the code accepts and says so: the hook died or ran out of
\* attempts, the retry budget is spent, an unreadable file is quarantined, a
\* deferred path had no sidecar copy, or a last-moment forward failed.
HookLost(f) ==
  \E h \in Hooks : hook[h].pc # "lost" /\ hook'[h].pc = "lost" /\ f \in hook[h].files

GivenUp(f) == retries[f] >= MaxRetries /\ retries'[f] = MaxRetries + 1

Quarantined(f) ==
  \E d \in Daemons, n \in Names :
    /\ drain[d].pc = "recover" /\ n \in drain[d].todo
    /\ dir[n] # Null /\ dir'[n] = Null /\ lines[dir[n]][f] > 0

MemoryOnly(f) ==
  \E d \in Daemons :
    /\ f \in drain[d].defer /\ f \notin drain'[d].defer
    /\ \/ drain[d].side = Null
       \/ dir[drain[d].side] = Null
       \/ lines[dir[drain[d].side]][f] = 0

ForwardFailed(f) ==
  \E d \in Daemons :
    /\ drain[d].pc = "batch" /\ drain'[d].pc = "clear"
    /\ faults' # faults /\ f \in Extra(d)

\* The rows of f are right, or some process will still make them so.
Accounted(f) == Stale(f) => Owed(f)

\* An edit is never lost in silence.  A file that is accounted for stays so at
\* every step of every process, an edit of it and the writing of rows read long
\* before included, unless the step is one of the five losses above: this is
\* what the inode recheck, the recheck before the delete, the sidecar and
\* delete-after-processing are for.
NoSilentLoss ==
  [][\A f \in Files :
       Accounted(f) =>
         \/ Accounted(f)'
         \/ HookLost(f) \/ GivenUp(f) \/ Quarantined(f)
         \/ MemoryOnly(f) \/ ForwardFailed(f)]_vars

\* The queue was renamed under each of the attempts of a hook that appends f.
OutOfAttempts(f) ==
  \E h \in Hooks :
    /\ hook[h].pc = "check" /\ hook'[h].pc = "lost" /\ f \in hook[h].files
    /\ hook[h].tries >= AppendAttempts /\ dir["live"] # hook[h].fd

\* As long as nothing has crashed, retired or failed, that is the only loss left.
LostOnlyByAttempts ==
  [][faults' = 0 /\ Stuck = {} =>
       \A f \in Files : Accounted(f) => Accounted(f)' \/ OutOfAttempts(f)]_vars

-----------------------------------------------------------------------------
(***************************************************************************)
(* The bookkeeping one daemon alone on the queue keeps straight; it is what *)
(* NoSilentLoss rests on, and two overlapping daemons break it.             *)
(***************************************************************************)

\* No queue file has two names: a rename moves it, it never copies it.
OneNamePerInode ==
  \A m, n \in Names : dir[m] # Null /\ dir[m] = dir[n] => m = n

\* A hook that has written finds its lines in the inode it holds open.
HookWrote ==
  \A h \in Hooks :
    /\ hook[h].pc \in {"write", "check"} => hook[h].fd # Null
    /\ hook[h].pc = "check" =>
         \A f \in hook[h].files : lines[hook[h].fd][f] > 0

\* The files a daemon listed, claimed or is reading are where it left them, and
\* what it has yet to do is still named there.
ClaimHeld(d) ==
  /\ \A n \in drain[d].todo : dir[n] # Null
  /\ drain[d].pc = "claim" => dir[drain[d].cur] = Null
  /\ drain[d].pc \in {"read", "batch", "index", "clear"} =>
       drain[d].cur # Null /\ dir[drain[d].cur] # Null
  /\ \/ drain[d].pc = "read"
     \/ drain[d].pc \in {"batch", "index", "clear"} /\ drain[d].stage = "b"
     => drain[d].snap[drain[d].cur] = Null
  /\ drain[d].pc \in {"batch", "index", "clear"} =>
       \A f \in Files : drain[d].seen[f] <= lines[dir[drain[d].cur]][f]
  /\ drain[d].pc \in {"batch", "index"} =>
       \A f \in drain[d].batch \cup {drain[d].doing} : f # Null =>
         /\ lines[dir[drain[d].cur]][f] > 0
         /\ ~Stamped(d, drain[d].cur)

\* The sidecar is the daemon's own file and names only what it deferred.
SidecarOwn(d) ==
  drain[d].side # Null =>
    /\ drain[d].pc \notin {"down", "idle"}
    /\ drain[d].side # drain[d].cur /\ drain[d].side \notin drain[d].todo
    /\ drain[d].snap[drain[d].side] = Null
    /\ dir[drain[d].side] # Null
    /\ drain[d].pc # "tidy" => Named(dir[drain[d].side]) \subseteq drain[d].defer
    /\ \A h \in Hooks : hook[h].fd # dir[drain[d].side]

\* A remembered stamp is of a file still there, which can only have grown.
StampsCurrent(d) ==
  \A n \in Names : drain[d].snap[n] # Null =>
    /\ n # "live" /\ drain[d].snap[n][1] = dir[n]
    /\ \A f \in Files : drain[d].snap[n][2][f] <= lines[dir[n]][f]

\* A daemon working alone never loses track of a queue file: whatever it has
\* listed, claimed, deferred or failed to delete is on disk under the name it
\* remembers, and holds at least the lines it remembers.
Books ==
  /\ TypeOK /\ OneNamePerInode /\ HookWrote
  /\ \A d \in Daemons : ClaimHeld(d) /\ SidecarOwn(d) /\ StampsCurrent(d)

\* No rows are of a version older than those they replace: the daemon read the
\* file after whatever wrote the rows that are there.
VersionsInOrder ==
  \A f \in Files :
    /\ indexed[f] <= disk[f]
    /\ \A d \in Daemons :
         drain[d].doing = f => indexed[f] <= drain[d].got /\ drain[d].got <= disk[f]

IInv == Books /\ VersionsInOrder

-----------------------------------------------------------------------------
\* No queue file is stuck: a stale file that is owed is eventually indexed or
\* given up, so a file that always fails cannot be requeued for ever.
OwedIsSettled == \A f \in Files : (Stale(f) /\ Owed(f)) ~> ~(Stale(f) /\ Owed(f))

\* Whatever any process still knows of f, its name in a queue file included.
Tracked(f) ==
  \/ \E n \in Names : dir[n] # Null /\ lines[dir[n]][f] > 0
  \/ \E h \in Hooks : hook[h].pc \in {"open", "write", "check"} /\ f \in hook[h].files
  \/ \E d \in Daemons : f \in drain[d].batch \cup drain[d].defer \cup {drain[d].doing}

\* worker.ts:616 says of a path appended around a claim that "it can never be
\* deleted unindexed": the last trace of a path never goes while its index rows
\* are old, short of a hook that ran out of attempts.
NeverDeletedUnindexed ==
  [][\A f \in Files : Stale(f) /\ Tracked(f) =>
       Tracked(f)' \/ ~Stale(f)' \/ HookLost(f)]_vars

\* worker.ts:558 says of a deferred path whose sidecar write failed that "only
\* a kill before then loses it".
DeferredLostOnlyByKill ==
  [][\A d \in Daemons, f \in Files :
       /\ f \in drain[d].defer /\ Stale(f) /\ Owed(f)
       /\ drain'[d].pc # "down"
       => Owed(f)' \/ ~Stale(f)' \/ HookLost(f)]_vars

\* hooks_index.ts:38 says enqueueDirtyPathsSafe "returns how many paths reached
\* the queue [...] and zero when the append failed".
CountReachedQueue == \A h \in Hooks : hook[h].pc = "lost" => hook[h].reported = 0

\* When edits and faults stop, the queue directory empties for good: no claimed,
\* deferred or undeletable file is left behind or handed round for ever.
QueueEmpties == <>[](\A n \in Names : dir[n] = Null)

=============================================================================
