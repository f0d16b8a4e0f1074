----------------------------- MODULE SessionStore -----------------------------
(***************************************************************************)
(* The state of one session (src/src/session.ts, session_store.ts), shared  *)
(* by its hooks.  A hook is a process of its own: it loads the session's    *)
(* file, handles one event on the copy, and saves by reading the file again *)
(* under the lock, merging the copy into it and writing the result.         *)
(*                                                                         *)
(* The session touches one file of the project.  Four parts of its state    *)
(* stand for the others that merge alike: the read counters (readCount,     *)
(* fullReadCount), the line ranges with the identity of the file they were  *)
(* served from (also the served outputs and CLI reads), the entries one     *)
(* hook leaves for another to take (large-file hints, downloads, Bash start *)
(* directories, outstanding agents), and the epoch of the last compaction.  *)
(* The caps on those lists are left out: fewer than the cap are ever there. *)
(***************************************************************************)
EXTENDS Integers, FiniteSets

CONSTANTS
  Hooks,       \* names for hook processes; a name is used again after its hook
  Null,
  Spans,       \* line ranges of the file that are read
  Entries,     \* entries left by one hook for another, each with its unique key
  Sessions,    \* the sets of operations whose mixtures are looked at
  Torn,        \* whether others see the epoch file while it is being written
  MaxReads, MaxCompactions, MaxChanges, MaxFaults  \* bounds

ASSUME ConstantsAssumption ==
  /\ Null \notin Hooks
  /\ \A o \in Sessions : o \subseteq {"read", "range", "edit", "ask", "take", "compact"}
  /\ Torn \in BOOLEAN
  /\ MaxReads \in Nat /\ MaxCompactions \in Nat /\ MaxChanges \in Nat
  /\ MaxFaults \in Nat

VARIABLES
  disk,      \* the session file
  epochFile, \* the epoch in the `.compacted-at` file next to it; 0: none
  mem,       \* mem[h]: the session as h sees it
  loaded,    \* loaded[h]: the counters and entries h started from
  cleared,   \* cleared[h]: h dropped the line ranges of the file
  seen,      \* seen[h]: the session file as h read it again to merge
  pc,
  section, answer,  \* the session's lock, see Mutex
  now,       \* the present epoch: 1 plus the number of compactions so far
  version,   \* what the file of the project holds
  ops,       \* what the hooks of this session do
  faults,
  \* What happened, for the properties:
  log,       \* log[t]: the reads the model made in epoch t
  counted,   \* the reads of the hooks whose save was written
  landed, taken, \* the entries left, and taken, by such hooks
  bare,      \* a save was written without the lock
  compactor, \* the hook that handles the present compaction, or Null
  known,     \* the last compaction whose hook has ended with its epoch published
  due        \* due[h]: that compaction when h began

store == <<disk, epochFile, mem, loaded, cleared, seen>>
history == <<log, counted, landed, taken, bare, compactor, known, due>>
vars == <<store, pc, section, answer, now, version, ops, faults, history>>

Lock == INSTANCE Mutex WITH Procs <- Hooks

Epochs == 0..(MaxCompactions + 1)
NoBase == [at |-> 0, reads |-> 0]
Empty == [reads |-> 0, last |-> 0, base |-> NoBase, ranges |-> {}, ident |-> Null,
          pending |-> {}, epoch |-> 0]

Larger(a, b) == IF a >= b THEN a ELSE b
Goes(h, to) == pc' = [pc EXCEPT ![h] = to]
Spend == faults < MaxFaults /\ faults' = faults + 1

Fresh == [reads |-> 0, pending |-> {}]

Init ==
  /\ disk = Empty /\ epochFile = 0
  /\ mem = [h \in Hooks |-> Empty] /\ seen = [h \in Hooks |-> Empty]
  /\ loaded = [h \in Hooks |-> Fresh]
  /\ cleared = [h \in Hooks |-> FALSE]
  /\ pc = [h \in Hooks |-> "idle"]
  /\ Lock!Init
  /\ now = 1 /\ version = 0 /\ ops \in Sessions /\ faults = 0
  /\ log = [t \in Epochs |-> 0]
  /\ counted = 0 /\ landed = {} /\ taken = {}
  /\ bare = FALSE /\ compactor = Null
  /\ known = 0 /\ due = [h \in Hooks |-> 0]

-----------------------------------------------------------------------------
(***************************************************************************)
(* The operations on a copy of the session.                                 *)
(***************************************************************************)

\* markCompacted.
MarkCompacted(s, t) ==
  IF t <= s.epoch THEN s ELSE [s EXCEPT !.epoch = t, !.ranges = {}, !.ident = Null]

\* recordFileRead: the first read since the last compaction notes what the
\* counter was.
RecordFileRead(s) ==
  LET opens == s.epoch > 0 /\ s.last < s.epoch /\ s.base.at < s.epoch IN
  [s EXCEPT !.reads = @ + 1, !.last = now,
            !.base = IF opens THEN [at |-> s.epoch, reads |-> s.reads] ELSE @]

\* Mutant of RefuseRead: the entry that the refused read created is not dropped.
RefuseReadOnce(s) == [s EXCEPT !.reads = @ - 1]

\* unrecordRefusedRead, after recordFileRead: the counter is put back.
RefuseRead(s) ==
  IF s.reads = 0 THEN s ELSE [RecordFileRead(s) EXCEPT !.reads = s.reads]

\* dropFileLineRangesIfChanged, and then recordFileLineRange.
Moved(s) == s.ident # Null /\ s.ident # version

RecordFileLineRange(s, span) ==
  [s EXCEPT !.ranges = (IF Moved(s) THEN {} ELSE @)
                         \cup {[span |-> span, version |-> version, at |-> now]},
            !.ident = version]

ResetFileLineRanges(s) == [s EXCEPT !.ranges = {}, !.ident = Null]

\* epochReadCounts: how many reads are still in the model's context.
EpochReadCounts(s) ==
  CASE s.last < s.epoch -> 0
    [] s.last >= s.epoch /\ s.base.at = s.epoch -> Larger(0, s.reads - s.base.reads)
    [] OTHER -> IF s.reads >= 1 THEN 1 ELSE 0

-----------------------------------------------------------------------------
(***************************************************************************)
(* mergeSessionState: the session file d and the copy m of hook h.          *)
(***************************************************************************)

\* Mutant of MergedReads: the larger counter wins.
MergedReadsMax(d, m, h) == Larger(d.reads, m.reads)

MergedReads(d, m, h) ==
  IF d.reads = 0 THEN m.reads ELSE d.reads + Larger(0, m.reads - loaded[h].reads)

\* mergeEpochBase: the later epoch, and for one epoch the larger counter.
MergedBase(a, b) ==
  CASE a.at > b.at -> a
    [] b.at > a.at -> b
    [] OTHER -> [at |-> a.at, reads |-> Larger(a.reads, b.reads)]

\* Mutant of MergedPending: what h merely carried is written again.
MergedPendingUnion(d, m, h) ==
  (d.pending \ (loaded[h].pending \ m.pending)) \cup m.pending

MergedPending(d, m, h) ==
  (d.pending \ (loaded[h].pending \ m.pending)) \cup (m.pending \ loaded[h].pending)

\* Mutant of Current: ranges are kept whichever compaction they predate.
CurrentAlways(s, epoch) == s.ranges

\* The ranges of a side that has not seen the last compaction are dropped.
Current(s, epoch) == IF s.epoch = epoch THEN s.ranges ELSE {}

MergedIdent(fromDisk, fromMem, d, m) ==
  CASE fromMem # {} -> m.ident
    [] fromMem = {} /\ fromDisk # {} -> d.ident
    [] OTHER -> Null

Merge(d, m, h) ==
  LET epoch == Larger(d.epoch, m.epoch)
      fromDisk == IF cleared[h] THEN {} ELSE Current(d, epoch)
      fromMem == Current(m, epoch) IN
  [reads |-> MergedReads(d, m, h), last |-> Larger(d.last, m.last),
   base |-> MergedBase(d.base, m.base),
   ranges |-> fromDisk \cup fromMem,
   ident |-> MergedIdent(fromDisk, fromMem, d, m),
   pending |-> MergedPending(d, m, h), epoch |-> epoch]

-----------------------------------------------------------------------------
(***************************************************************************)
(* A hook loads the session, in two reads: the file, then the epoch.        *)
(***************************************************************************)

\* importSessionState.
Import(h, s) ==
  /\ mem' = [mem EXCEPT ![h] = s]
  /\ loaded' = [loaded EXCEPT ![h] = [reads |-> s.reads, pending |-> s.pending]]
  /\ cleared' = [cleared EXCEPT ![h] = FALSE]

\* A session file that cannot be read makes an empty session.
Load(h) ==
  /\ pc[h] = "idle" /\ Lock!Call(h)
  /\ \/ Import(h, disk) /\ UNCHANGED faults
     \/ Spend /\ Import(h, Empty)
  /\ due' = [due EXCEPT ![h] = known]
  /\ Goes(h, "epoch")
  /\ UNCHANGED <<disk, epochFile, seen, now, version, ops, log, counted, landed, taken, bare, compactor, known>>

Publishing == \E h \in Hooks : pc[h] = "publish"

\* Mutant of ApplySessionCompaction: the epoch file is not looked at.
ApplyNoCompaction(h) ==
  /\ pc[h] = "epoch"
  /\ Goes(h, "ready")
  /\ UNCHANGED <<store, section, answer, now, version, ops, faults, history>>

ApplySessionCompaction(h) ==
  /\ pc[h] = "epoch" /\ (Publishing => Torn)
  /\ mem' = [mem EXCEPT ![h] = MarkCompacted(@, epochFile)]
  /\ Goes(h, "ready")
  /\ UNCHANGED <<disk, epochFile, loaded, cleared, seen, section, answer, now, version, ops, faults, history>>

-----------------------------------------------------------------------------
(***************************************************************************)
(* The hook handles its event.                                              *)
(***************************************************************************)
Reads == LET S[t \in Epochs] == log[t] + (IF t = 0 THEN 0 ELSE S[t - 1]) IN S[MaxCompactions + 1]

Handle(h, op, s, drop) ==
  /\ pc[h] = "ready" /\ op \in ops
  /\ mem' = [mem EXCEPT ![h] = s]
  /\ cleared' = [cleared EXCEPT ![h] = drop]
  /\ UNCHANGED <<disk, loaded, seen, section, answer, version, ops, counted, landed, taken, bare, known, due>>

Logged == Reads < MaxReads /\ log' = [log EXCEPT ![now] = @ + 1]

ReadFile(h) ==
  /\ Handle(h, "read", RecordFileRead(mem[h]), FALSE)
  /\ Logged /\ Goes(h, "done") /\ UNCHANGED <<epochFile, now, faults, compactor>>

ReadRefused(h) ==
  /\ Handle(h, "read", RefuseRead(mem[h]), FALSE)
  /\ Goes(h, "done") /\ UNCHANGED <<epochFile, now, faults, compactor, log>>

\* A slice is read: it counts as a read, and its range is recorded.
ReadRange(h) ==
  /\ \E span \in Spans :
       Handle(h, "range", RecordFileLineRange(RecordFileRead(mem[h]), span), Moved(mem[h]))
  /\ Logged /\ Goes(h, "done") /\ UNCHANGED <<epochFile, now, faults, compactor>>

\* recordFileEdit drops the ranges of the file.
EditFile(h) ==
  /\ Handle(h, "edit", ResetFileLineRanges(mem[h]), TRUE)
  /\ Goes(h, "done") /\ UNCHANGED <<epochFile, now, faults, compactor, log>>

Unused(k) ==
  /\ k \notin disk.pending \cup landed \cup taken
  /\ \A h \in Hooks : k \notin mem[h].pending \cup loaded[h].pending \cup seen[h].pending

Leave(h) ==
  /\ \E k \in Entries :
       Unused(k) /\ Handle(h, "ask", [mem[h] EXCEPT !.pending = @ \cup {k}], FALSE)
  /\ Goes(h, "done") /\ UNCHANGED <<epochFile, now, faults, compactor, log>>

Take(h) ==
  /\ \E k \in mem[h].pending :
       Handle(h, "take", [mem[h] EXCEPT !.pending = @ \ {k}], FALSE)
  /\ Goes(h, "done") /\ UNCHANGED <<epochFile, now, faults, compactor, log>>

\* preCompactHandler: the epoch is stamped on the copy and published in the epoch
\* file, which is emptied and then written, or cannot be opened.  A session is
\* compacted once at a time.
Compact(h) ==
  /\ now <= MaxCompactions /\ compactor = Null
  /\ now' = now + 1 /\ compactor' = h
  /\ Handle(h, "compact", MarkCompacted(mem[h], now + 1), FALSE)
  /\ \/ epochFile' = 0 /\ Goes(h, "publish") /\ UNCHANGED faults
     \/ Spend /\ Goes(h, "done") /\ UNCHANGED epochFile
  /\ UNCHANGED log

Publish(h) ==
  /\ pc[h] = "publish"
  /\ epochFile' = mem[h].epoch /\ Goes(h, "done")
  /\ UNCHANGED <<disk, mem, loaded, cleared, seen, section, answer, now, version, ops, faults, history>>

-----------------------------------------------------------------------------
(***************************************************************************)
(* The hook saves: what is on disk is read again and merged into.           *)
(***************************************************************************)

\* The memory of the process goes with it.
Exits(h) ==
  /\ Goes(h, "idle")
  /\ mem' = [mem EXCEPT ![h] = Empty] /\ seen' = [seen EXCEPT ![h] = Empty]
  /\ loaded' = [loaded EXCEPT ![h] = Fresh]
  /\ cleared' = [cleared EXCEPT ![h] = FALSE]
  /\ due' = [due EXCEPT ![h] = 0]
  /\ compactor' = IF compactor = h THEN Null ELSE compactor

\* h ends; a compaction whose epoch is in the epoch file is known from then on.
Ends(h) ==
  /\ Exits(h)
  /\ known' = IF compactor = h /\ epochFile = now THEN now ELSE known

Reread(h) ==
  /\ Goes(h, "merge") /\ seen' = [seen EXCEPT ![h] = disk]
  /\ UNCHANGED <<disk, epochFile, mem, loaded, cleared, now, version, ops, faults, history>>

SaveLocked(h) == pc[h] = "done" /\ Lock!Enter(h) /\ Reread(h)

\* The lock file cannot be created: the save goes on without it.
SaveBare(h) ==
  /\ pc[h] = "done" /\ answer[h] = "none"
  /\ faults < MaxFaults
  /\ Lock!Refuse(h) /\ answer'[h] = "unlockable"
  /\ Goes(h, "merge") /\ seen' = [seen EXCEPT ![h] = disk]
  /\ faults' = faults + 1
  /\ UNCHANGED <<disk, epochFile, mem, loaded, cleared, now, version, ops, history>>

\* The lock is held past SESSION_SAVE_LOCK_WAIT_MS: this save is left out.
SkipSave(h) ==
  /\ pc[h] = "done" /\ Lock!Refuse(h) /\ answer'[h] = "contended"
  /\ Ends(h)
  /\ UNCHANGED <<disk, epochFile, now, version, ops, faults, log, counted, landed, taken, bare>>

LeaveLock(h) == IF section = h THEN Lock!Leave(h) ELSE UNCHANGED <<section, answer>>

\* The merged session replaces the file (atomicWriteText).
Write(h) ==
  /\ pc[h] = "merge"
  /\ disk' = Merge(seen[h], mem[h], h)
  /\ LeaveLock(h) /\ Ends(h)
  /\ counted' = counted + Larger(0, mem[h].reads - loaded[h].reads)
  /\ landed' = landed \cup (mem[h].pending \ loaded[h].pending)
  /\ taken' = taken \cup (loaded[h].pending \ mem[h].pending)
  /\ bare' = (bare \/ section # h)
  /\ UNCHANGED <<epochFile, now, version, ops, faults, log>>

\* The session file cannot be read, the redaction throws, or the write fails.
SaveFails(h) ==
  /\ pc[h] = "merge"
  /\ Spend /\ LeaveLock(h) /\ Ends(h)
  /\ UNCHANGED <<disk, epochFile, now, version, ops, log, counted, landed, taken, bare>>

\* The harness kills a hook that takes too long.
Die(h) ==
  /\ pc[h] # "idle" /\ (pc[h] = "publish" => Torn)
  /\ Spend
  /\ IF section = h THEN Lock!Die(h) ELSE UNCHANGED <<section, answer>>
  /\ Exits(h)
  /\ UNCHANGED <<disk, epochFile, now, version, ops, log, counted, landed, taken, bare, known>>

\* The file of the project changes, by the session's edits or by others.
FileChanges ==
  /\ version < MaxChanges /\ version' = version + 1
  /\ UNCHANGED <<store, pc, section, answer, now, ops, faults, history>>

HookStep(h) ==
  \/ Load(h) \/ ApplySessionCompaction(h)
  \/ ReadFile(h) \/ ReadRefused(h) \/ ReadRange(h) \/ EditFile(h)
  \/ Leave(h) \/ Take(h) \/ Compact(h) \/ Publish(h)
  \/ SaveLocked(h) \/ SaveBare(h) \/ SkipSave(h) \/ Write(h) \/ SaveFails(h) \/ Die(h)

Next == (\E h \in Hooks : HookStep(h)) \/ FileChanges

Spec == Init /\ [][Next]_vars

-----------------------------------------------------------------------------
Versions == 0..MaxChanges
Range == [span : Spans, version : Versions, at : Epochs]
Session ==
  [reads : Nat, last : Epochs, base : [at : Epochs, reads : Nat],
   ranges : SUBSET Range, ident : Versions \cup {Null},
   pending : SUBSET Entries, epoch : Epochs]

Pcs == {"idle", "epoch", "ready", "publish", "done", "merge"}

\* Every variable holds a value of its type.
TypeOK ==
  /\ disk \in Session /\ epochFile \in Epochs
  /\ mem \in [Hooks -> Session] /\ seen \in [Hooks -> Session]
  /\ loaded \in [Hooks -> [reads : Nat, pending : SUBSET Entries]]
  /\ cleared \in [Hooks -> BOOLEAN]
  /\ pc \in [Hooks -> Pcs]
  /\ section \in Hooks \cup {Null}
  /\ answer \in [Hooks -> {"none", "ran", "contended", "unlockable"}]
  /\ now \in 1..(MaxCompactions + 1) /\ version \in Versions /\ ops \in Sessions
  /\ faults \in 0..MaxFaults
  /\ log \in [Epochs -> Nat] /\ counted \in Nat
  /\ landed \subseteq Entries /\ taken \subseteq Entries
  /\ bare \in BOOLEAN
  /\ compactor \in Hooks \cup {Null}
  /\ known \in Epochs /\ due \in [Hooks -> Epochs]

\* Overlapping hooks lose no read of one another and count none twice: the
\* counter on disk is the number of reads of the hooks that saved.  Without the
\* lock a save can lose reads, but never add any.
CountedOnce ==
  /\ disk.reads <= counted
  /\ ~bare => disk.reads = counted

\* An entry that a hook left stays until a hook takes it, and then stays away,
\* although hooks that loaded it before save afterwards.
PendingExact == ~bare => disk.pending = landed \ taken

\* No line range served before the compaction that the session knows of is ever
\* merged back, from hooks that missed the compaction or by saves without lock.
RangesInEpoch ==
  /\ \A r \in disk.ranges : r.at >= disk.epoch
  /\ \A h \in Hooks : \A r \in mem[h].ranges : r.at >= mem[h].epoch

\* session_store.ts:596: a compaction whose save was skipped is known to every
\* later hook all the same, through the epoch file.
KnowsCompaction ==
  \A h \in Hooks : pc[h] \in {"ready", "publish", "done", "merge"} => mem[h].epoch >= due[h]

\* hooks_read.ts answers "already read" from ranges whose identity matches the
\* file: each of them was served from a file with that identity.
RangesVouched ==
  \A r \in disk.ranges :
    \E q \in disk.ranges : q.span = r.span /\ q.version = disk.ident

\* session.ts:325: of the reads of the file, how many "landed since the compaction":
\* one when the hooks cannot tell, and never more than there were.
ReadsSince(t) ==
  LET S[u \in Epochs] == IF u < t THEN 0 ELSE log[u] + (IF u = 0 THEN 0 ELSE S[u - 1])
  IN S[MaxCompactions + 1]

EpochCountsReal ==
  \A h \in Hooks :
    pc[h] \in {"ready", "done"} => EpochReadCounts(mem[h]) <= Larger(1, ReadsSince(mem[h].epoch))

=============================================================================
