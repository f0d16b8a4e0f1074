---------------------------- MODULE IndexFreshness ----------------------------
(***************************************************************************)
(* How the rows of the index follow the files on disk (src/src/reconcile.ts,*)
(* fingerprint.ts, and the gates of worker.ts, cli.ts and parser.ts).  A    *)
(* row holds the hash of the bytes it was made from, the mtime they had and *)
(* the time they were indexed; a file whose mtime is that of its row, and   *)
(* older than the row by a tick, is taken for unchanged and never read.     *)
(*                                                                         *)
(* Sweeps compare rows with files and queue what drifted (the order they go *)
(* in and their budget are module ReconcileSweep); drains index what is     *)
(* queued (the queue is module DirtyQueue); `token-goat index`, and read    *)
(* commands that heal a stale row, index on their own.  Files change at any *)
(* time, unseen, and between any two looks that one of these takes.         *)
(*                                                                         *)
(* Left out: the other gates of a row (its parser, its embeddings, its      *)
(* spelling), which compare it with the program and not with the file; and  *)
(* writers that forge an mtime.                                             *)
(***************************************************************************)
EXTENDS Naturals

CONSTANTS
  Files,
  Tracked,   \* the files that git lists
  Sweepers,  \* processes that sweep
  Indexers,  \* processes that index a file: drains and commands
  Contents,  \* what a file may hold
  Null,
  Tick,      \* TIMESTAMP_TICK_SEC: how far a file system rounds an mtime down
  MaxClock, MaxEdits, MaxFaults  \* bounds

ASSUME ConstantsAssumption ==
  /\ Tracked \subseteq Files
  /\ Contents # {} /\ Null \notin Contents /\ Null \notin Files
  /\ Tick \in Nat \ {0}
  /\ MaxClock \in Nat /\ MaxEdits \in Nat /\ MaxFaults \in Nat

VARIABLES
  clock,     \* in seconds
  content,   \* content[f]: what file f holds; Null: there is no such file
  mtime,     \* mtime[f]
  row,       \* row[f]: the row of f; its sha is Null when there is none
  queue,     \* the files queued for indexing
  sweep,     \* sweep[s]: what sweep s is doing
  job,       \* job[p]: what indexer p is doing
  edits, faults,
  torn       \* torn[f]: the row's mtime was read after the file had changed again

disk == <<content, mtime, edits>>
vars == <<clock, disk, row, queue, sweep, job, faults, torn>>

NoRow == [sha |-> Null, mtime |-> 0, at |-> 0]

\* A look at a file, in the order of its parts; mtime 0: no stat was had.
NoLook == [file |-> Null, mtime |-> 0, clock |-> 0, sha |-> Null]
Idle == [stage |-> "idle", look |-> NoLook, same |-> FALSE, drain |-> FALSE]
Asleep ==
  [stage |-> "idle", look |-> NoLook, todo |-> {}, entry |-> [f \in Files |-> NoRow],
   found |-> {}, clean |-> {}]

Init ==
  /\ clock = 1
  /\ \E old \in SUBSET Files : LET c == CHOOSE c \in Contents : TRUE IN
       /\ content = [f \in Files |-> c]
       /\ row = [f \in Files |-> IF f \in old THEN [sha |-> c, mtime |-> 1, at |-> 1] ELSE NoRow]
  /\ mtime = [f \in Files |-> 1]
  /\ queue = {}
  /\ sweep = [s \in Sweepers |-> Asleep] /\ job = [p \in Indexers |-> Idle]
  /\ edits = 0 /\ faults = 0
  /\ torn = [f \in Files |-> FALSE]

Spend == faults < MaxFaults /\ faults' = faults + 1
There(f) == content[f] # Null

-----------------------------------------------------------------------------
(***************************************************************************)
(* Rows and proofs.                                                         *)
(***************************************************************************)

MtimeEqualsRow(r, m) == r.mtime # 0 /\ r.mtime = m

\* Mutant of MtimeProvesUnchanged: an equal mtime is proof enough.
MtimeAlone(r, m) == MtimeEqualsRow(r, m)

MtimeProvesUnchanged(r, m) == MtimeEqualsRow(r, m) /\ r.mtime + Tick <= r.at

\* restampVerifiedUnchanged: the row of a file whose bytes were hashed again.  An
\* mtime too close to the look is recorded without vouching for it.
Restamped(r, look) ==
  CASE r.sha # look.sha -> r
    [] r.sha = look.sha /\ look.mtime + Tick <= look.clock ->
         [r EXCEPT !.mtime = look.mtime, !.at = look.clock]
    [] OTHER ->
         [r EXCEPT !.mtime = look.mtime, !.at = IF @ > look.clock THEN look.clock ELSE @]

-----------------------------------------------------------------------------
(***************************************************************************)
(* The world: time passes, files are written, removed and made again.       *)
(***************************************************************************)

Passes ==
  /\ clock < MaxClock /\ clock' = clock + 1
  /\ UNCHANGED <<disk, row, queue, sweep, job, faults, torn>>

\* A file system may round the time down, by less than a tick.
Stamps == {t \in 1..clock : t + Tick > clock}

Edit(f) ==
  /\ edits < MaxEdits /\ edits' = edits + 1
  /\ \E c \in Contents : content' = [content EXCEPT ![f] = c]
  /\ \E t \in Stamps : mtime' = [mtime EXCEPT ![f] = t]
  /\ UNCHANGED <<clock, row, queue, sweep, job, faults, torn>>

Delete(f) ==
  /\ There(f)
  /\ edits < MaxEdits /\ edits' = edits + 1
  /\ content' = [content EXCEPT ![f] = Null]
  /\ UNCHANGED <<clock, mtime, row, queue, sweep, job, faults, torn>>

-----------------------------------------------------------------------------
(***************************************************************************)
(* Indexing one file.                                                       *)
(***************************************************************************)

\* p goes on with its file, or to another one.
Turns(p, stage, look) == job' = [job EXCEPT ![p].stage = stage, ![p].look = look]
Begins(p, stage, f, drain) ==
  LET look == [NoLook EXCEPT !.file = f] IN
  job' = [job EXCEPT ![p] = [Idle EXCEPT !.stage = stage, !.look = look, !.drain = drain]]
Ends(p) == job' = [job EXCEPT ![p] = Idle]
Elsewhere == UNCHANGED <<clock, disk, sweep>>

\* processDirtyBatch: the row of a file that is gone is dropped.
Take(p) ==
  /\ job[p].stage = "idle"
  /\ \E f \in queue :
       /\ queue' = queue \ {f}
       /\ Begins(p, IF There(f) THEN "stat" ELSE "drop", f, TRUE)
  /\ UNCHANGED <<row, faults, torn>> /\ Elsewhere

\* Mutant of Drop: the rows of a file that is gone are kept.
DropKeepsRow(p) ==
  /\ job[p].stage = "drop" /\ Ends(p)
  /\ UNCHANGED <<row, queue, faults, torn>> /\ Elsewhere

Drop(p) ==
  /\ job[p].stage = "drop"
  /\ LET f == job[p].look.file IN
     row' = [row EXCEPT ![f] = NoRow] /\ torn' = [torn EXCEPT ![f] = FALSE]
  /\ Ends(p) /\ UNCHANGED <<queue, faults>> /\ Elsewhere

\* cmdIndex goes through the files git lists; a command that heals a row, or was
\* told to refresh it, looks at no stamp.
Open(p) ==
  /\ job[p].stage = "idle"
  /\ \E f \in Files :
       /\ There(f)
       /\ \/ f \in Tracked /\ Begins(p, "stat", f, FALSE)
          \/ Begins(p, "reread", f, FALSE)
  /\ UNCHANGED <<row, queue, faults, torn>> /\ Elsewhere

\* readPreHashStamp: the mtime and then the clock.
Stat(p) ==
  /\ job[p].stage = "stat"
  /\ LET f == job[p].look.file IN
     \/ /\ There(f) /\ Turns(p, "clock", [job[p].look EXCEPT !.mtime = mtime[f]])
        /\ UNCHANGED faults
     \/ /\ Turns(p, "hash", job[p].look)
        /\ IF There(f) THEN Spend ELSE UNCHANGED faults
  /\ UNCHANGED <<row, queue, torn>> /\ Elsewhere

ReadClock(p) ==
  /\ job[p].stage = "clock"
  /\ Turns(p, "hash", [job[p].look EXCEPT !.clock = clock])
  /\ UNCHANGED <<row, queue, faults, torn>> /\ Elsewhere

\* A file that cannot be read is queued again by the drain, and skipped by others.
Hash(p) ==
  /\ job[p].stage = "hash"
  /\ LET f == job[p].look.file IN
     \/ /\ There(f) /\ Turns(p, "judge", [job[p].look EXCEPT !.sha = content[f]])
        /\ UNCHANGED <<queue, faults>>
     \/ /\ Ends(p) /\ queue' = IF job[p].drain THEN queue \cup {f} ELSE queue
        /\ IF There(f) THEN Spend ELSE UNCHANGED faults
  /\ UNCHANGED <<row, torn>> /\ Elsewhere

\* The rows of a file that did not change are kept.  cmdIndex reads a file that
\* changed once more.
Judge(p) ==
  /\ job[p].stage = "judge"
  /\ LET look == job[p].look
         same == row[look.file].sha = look.sha
         again == ~job[p].drain /\ ~same
         next == IF again THEN [NoLook EXCEPT !.file = look.file] ELSE look
         stage == IF again THEN "reread" ELSE "write" IN
     job' = [job EXCEPT ![p] = [@ EXCEPT !.same = same, !.stage = stage, !.look = next]]
  /\ UNCHANGED <<row, queue, faults, torn>> /\ Elsewhere

Reread(p) ==
  /\ job[p].stage = "reread"
  /\ LET f == job[p].look.file IN
     IF There(f) THEN Turns(p, "write", [job[p].look EXCEPT !.sha = content[f]]) ELSE Ends(p)
  /\ UNCHANGED <<row, queue, faults, torn>> /\ Elsewhere

\* Mutant of Parsed: that there is no mtime to be read is not thought of.
ParsedUnsure(look) ==
  [sha |-> look.sha, mtime |-> IF There(look.file) THEN mtime[look.file] ELSE Null, at |-> clock]

\* writeParseResult: the mtime is read now, after the bytes.
Parsed(look) ==
  [sha |-> look.sha, mtime |-> IF There(look.file) THEN mtime[look.file] ELSE 0, at |-> clock]

\* indexAndRestamp, in one transaction; without a stamp nothing is restamped.
Write(p) ==
  /\ job[p].stage = "write"
  /\ LET look == job[p].look
         f == look.file
         written == IF job[p].same THEN row[f] ELSE Parsed(look) IN
     IF look.mtime = 0
     THEN /\ row' = [row EXCEPT ![f] = written]
          /\ torn' = [torn EXCEPT ![f] = IF job[p].same THEN @ ELSE content[f] # look.sha]
     ELSE /\ row' = [row EXCEPT ![f] = Restamped(written, look)]
          /\ torn' = [torn EXCEPT ![f] = @ /\ written.sha # look.sha]
  /\ Ends(p)
  /\ UNCHANGED <<queue, faults>> /\ Elsewhere

\* The transaction fails: the drain queues the file again.
WriteFails(p) ==
  /\ job[p].stage \in {"write", "drop"}
  /\ Spend /\ Ends(p)
  /\ queue' = IF job[p].drain THEN queue \cup {job[p].look.file} ELSE queue
  /\ UNCHANGED <<row, torn>> /\ Elsewhere

-----------------------------------------------------------------------------
(***************************************************************************)
(* A sweep (reconcileProjectWith), from a snapshot of the rows.             *)
(***************************************************************************)
Sweeps(s, new) == sweep' = [sweep EXCEPT ![s] = new]
SweepOnly == UNCHANGED <<clock, disk, row, job, torn>>

\* The files git lists and those that have rows, or only these when it lists none.
Start(s) ==
  /\ sweep[s].stage = "idle"
  /\ \E listed \in SUBSET Tracked :
       /\ listed \in {{}, Tracked}
       /\ Sweeps(s, [Asleep EXCEPT !.stage = "next", !.entry = row,
                       !.todo = listed \cup {f \in Files : row[f].sha # Null}])
  /\ UNCHANGED <<queue, faults>> /\ SweepOnly

\* The clock is read first.  A file without a row is new.
NextFile(s) ==
  LET sw == sweep[s] IN
  /\ sw.stage = "next"
  /\ \E f \in sw.todo :
       LET next == [sw EXCEPT !.todo = @ \ {f}] IN
       Sweeps(s, IF sw.entry[f].sha = Null THEN [next EXCEPT !.found = @ \cup {f}]
                 ELSE [next EXCEPT !.stage = "stat",
                                   !.look = [NoLook EXCEPT !.file = f, !.clock = clock]])
  /\ UNCHANGED <<queue, faults>> /\ SweepOnly

\* The sweep is done with the file it looks at: it has drifted, or not.
Passed(sw) == [sw EXCEPT !.stage = "next", !.look = NoLook]
Found(sw) == [Passed(sw) EXCEPT !.found = @ \cup {sw.look.file}]

\* A file that is gone is drift.  One that cannot be looked at may be gone, if git
\* lists it, and else is left as it is.
Unread(sw) == IF sw.look.file \in Tracked THEN Found(sw) ELSE Passed(sw)

SweepStat(s) ==
  LET sw == sweep[s] f == sw.look.file IN
  /\ sw.stage = "stat"
  /\ \/ /\ There(f) /\ UNCHANGED faults
        /\ Sweeps(s, IF MtimeProvesUnchanged(sw.entry[f], mtime[f]) THEN Passed(sw)
                     ELSE [sw EXCEPT !.stage = "hash", !.look.mtime = mtime[f]])
     \/ ~There(f) /\ Sweeps(s, Found(sw)) /\ UNCHANGED faults
     \/ There(f) /\ Sweeps(s, Unread(sw)) /\ Spend
  /\ UNCHANGED queue /\ SweepOnly

SweepHash(s) ==
  LET sw == sweep[s] f == sw.look.file IN
  /\ sw.stage = "hash"
  /\ \/ /\ There(f) /\ UNCHANGED faults
        /\ Sweeps(s, IF content[f] = sw.entry[f].sha
                     THEN [Passed(sw) EXCEPT !.clean = @ \cup {[sw.look EXCEPT !.sha = content[f]]}]
                     ELSE Found(sw))
     \/ ~There(f) /\ Sweeps(s, Unread(sw)) /\ UNCHANGED faults
     \/ There(f) /\ Sweeps(s, Unread(sw)) /\ Spend
  /\ UNCHANGED queue /\ SweepOnly

\* All files are seen, or the budget is spent.  The rows of files that were hashed
\* and had not changed are restamped, in one transaction that may fail.
Restamp(s) ==
  LET clean == sweep[s].clean
      LookAt(f) == CHOOSE look \in clean : look.file = f
      Hashed == {look.file : look \in clean} IN
  /\ sweep[s].stage = "next"
  /\ \/ /\ row' = [f \in Files |-> IF f \in Hashed THEN Restamped(row[f], LookAt(f)) ELSE row[f]]
        /\ torn' = [f \in Files |-> torn[f] /\ ~(f \in Hashed /\ row[f].sha = LookAt(f).sha)]
        /\ UNCHANGED faults
     \/ clean # {} /\ Spend /\ UNCHANGED <<row, torn>>
  /\ Sweeps(s, [Asleep EXCEPT !.stage = "enqueue", !.found = sweep[s].found])
  /\ UNCHANGED <<clock, disk, queue, job>>

\* The queue takes the files, or cannot be written.
Enqueue(s) ==
  LET found == sweep[s].found IN
  /\ sweep[s].stage = "enqueue"
  /\ \/ queue' = queue \cup found /\ UNCHANGED faults
     \/ found # {} /\ Spend /\ UNCHANGED queue
  /\ Sweeps(s, Asleep) /\ SweepOnly

Killed(s) ==
  /\ sweep[s].stage # "idle" /\ Spend
  /\ Sweeps(s, Asleep) /\ UNCHANGED queue /\ SweepOnly

World == Passes \/ \E f \in Files : Edit(f) \/ Delete(f)

IndexerStep(p) ==
  \/ Stat(p) \/ ReadClock(p) \/ Hash(p) \/ Judge(p) \/ Reread(p) \/ Write(p) \/ Drop(p)

SweepStep(s) == NextFile(s) \/ SweepStat(s) \/ SweepHash(s) \/ Restamp(s) \/ Enqueue(s)

Next ==
  \/ World
  \/ \E p \in Indexers : Take(p) \/ Open(p) \/ IndexerStep(p) \/ WriteFails(p)
  \/ \E s \in Sweepers : Start(s) \/ SweepStep(s) \/ Killed(s)

Spec == Init /\ [][Next]_vars

\* What was begun goes on, and drains come between the commands.  So do sweeps, and those that are
\* cut short get through all files in the end (ReconcileSweep).
FairSpec ==
  /\ Spec
  /\ \A p \in Indexers : WF_vars(IndexerStep(p))
  /\ \A p \in Indexers : SF_vars(Take(p))
  /\ \A s \in Sweepers : WF_vars(SweepStep(s)) /\ SF_vars(NextFile(s))
  /\ \A s \in Sweepers : SF_vars(Start(s) /\ Tracked \subseteq sweep'[s].todo)

-----------------------------------------------------------------------------
Sha == Contents \cup {Null}
Row == [sha : Sha, mtime : Nat, at : Nat]
Look == [file : Files \cup {Null}, mtime : Nat, clock : Nat, sha : Sha]
Sweep ==
  [stage : {"idle", "next", "stat", "hash", "enqueue"}, look : Look, todo : SUBSET Files,
   entry : [Files -> Row], found : SUBSET Files, clean : SUBSET Look]
Job ==
  [stage : {"idle", "drop", "stat", "clock", "hash", "judge", "reread", "write"},
   look : Look, same : BOOLEAN, drain : BOOLEAN]

\* Every variable holds a value of its type.
TypeOK ==
  /\ clock \in Nat /\ edits \in Nat /\ faults \in Nat
  /\ content \in [Files -> Sha] /\ mtime \in [Files -> Nat] /\ row \in [Files -> Row]
  /\ queue \subseteq Files
  /\ sweep \in [Sweepers -> Sweep] /\ job \in [Indexers -> Job]
  /\ torn \in [Files -> BOOLEAN]

InSync(f) == row[f].sha = content[f] \/ (f \notin Tracked /\ row[f] = NoRow)

\* mtimeProvesUnchanged: "an equal mtime proves the file unchanged since its row was
\* written".  A file whose row is passed over without reading it holds what the row
\* was made from, however its changes fell between the looks of those who indexed,
\* swept and restamped it; but for rows whose mtime was read after the bytes.
ProofsHold ==
  \A f \in Files :
    There(f) /\ row[f].sha # Null /\ ~torn[f] /\ MtimeProvesUnchanged(row[f], mtime[f])
      => row[f].sha = content[f]

\* The same of every row, as fingerprint.ts:67 has it.
EveryProofHolds ==
  \A f \in Files :
    There(f) /\ row[f].sha # Null /\ MtimeProvesUnchanged(row[f], mtime[f])
      => row[f].sha = content[f]

\* Once files stop changing the index comes to agree with them.
DriftSettles == \A f \in Files : <>[](InSync(f) \/ torn[f])

=============================================================================
