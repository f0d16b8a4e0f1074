---------------------------- MODULE ReconcileSweep ----------------------------
(***************************************************************************)
(* How a project's drift reaches the dirty queue (src/src/reconcile.ts,     *)
(* reconcile_requests.ts, reconcile_stamp.ts, hooks_session_start.ts).  A   *)
(* sweep scans the files that git lists, and then the rows of those it does *)
(* not list, until its budget is spent; the next one goes on where it       *)
(* stopped.  A session's start sweeps unless a sweep was complete a moment  *)
(* ago; a shell command that wrote who knows what leaves a request, and so  *)
(* does a start whose listing came late.  The worker claims the requests,   *)
(* sweeps, and puts back what it could not finish.                          *)
(*                                                                         *)
(* One project.  A look at one file is a step here: module IndexFreshness   *)
(* takes it apart.  The append of a request is atomic by the inode check    *)
(* that module DirtyQueue is about, and the drain is that module's.         *)
(***************************************************************************)
EXTENDS Naturals, Sequences, SequencesExt

CONSTANTS
  Tracked,   \* the files that git tracks, as it lists them
  Listed,    \* with those it neither tracks nor ignores, which the worker asks for
  Order,     \* all files, in the order of their rows
  Hooks,     \* processes that run the hooks of session starts
  Worker,    \* the worker
  Null,
  MaxChanges, MaxStarts, MaxFaults  \* bounds

Files == ToSet(Order)
Sweepers == Hooks \cup {Worker}

ASSUME ConstantsAssumption ==
  /\ {Tracked, Listed, Order} \subseteq Seq(Files)
  /\ IsInjective(Tracked) /\ IsInjective(Listed) /\ IsInjective(Order)
  /\ ToSet(Tracked) \subseteq ToSet(Listed)
  /\ Worker \notin Hooks /\ Null \notin Files
  /\ MaxChanges \in Nat /\ MaxStarts \in Nat /\ MaxFaults \in Nat

VARIABLES
  row,             \* the files that have rows
  drift,           \* the files that do not agree with the index
  queue,           \* the files queued for the drain
  cursor,          \* where the last scan stopped
  deletionCursor,  \* where the last pass over the rows stopped
  swept,           \* a complete sweep was recorded a moment ago
  slow,            \* a listing came late within the hour
  live, claim,     \* a request is in reconcile.txt, and in the claimed file
  sweep,           \* sweep[s]: what s is doing
  owed,            \* files that had drifted at a request and were not queued since
  before,          \* before[s]: files that had drifted as s listed and were not queued since
  gap,             \* the worker was killed between the removal of its claim and the append
  changes, starts, faults

kept == <<cursor, deletionCursor, swept>>
requests == <<live, claim>>
vars == <<row, drift, queue, kept, slow, requests, sweep, owed, before, gap, changes, starts, faults>>

\* lap: the order in which a pass goes; due: what it has not looked at yet; last: the
\* file it looked at last; rows: the rows as the sweep read them; scanCut, scanLast, cut:
\* how the passes ended; resumed: the second pass began at a resume point; again: the
\* request is to be put back; failed: a step of it failed.
Asleep ==
  [stage |-> "idle", lap |-> <<>>, due |-> {}, last |-> Null, rows |-> {}, found |-> {}, listed |-> <<>>,
   late |-> FALSE, scanCut |-> FALSE, scanLast |-> Null, cut |-> FALSE, resumed |-> FALSE,
   again |-> FALSE, failed |-> FALSE]

\* The tracked files are indexed; the last listing may have been slow.
Init ==
  /\ row = ToSet(Tracked) /\ drift = {}
  /\ queue = {} /\ cursor = Null /\ deletionCursor = Null /\ swept = FALSE /\ slow \in BOOLEAN
  /\ live = FALSE /\ claim = FALSE
  /\ sweep = [s \in Sweepers |-> Asleep]
  /\ owed = {} /\ before = [s \in Sweepers |-> {}] /\ gap = FALSE
  /\ changes = 0 /\ starts = 0 /\ faults = 0

Spend == faults < MaxFaults /\ faults' = faults + 1
Sweeps(s, new) == sweep' = [sweep EXCEPT ![s] = new]
Bounds == <<changes, starts>>
IndexKept == UNCHANGED <<row, drift, queue, owed, before>>

\* What a sweep by the worker can find: files that it lists, and rows.
Reach == ToSet(Listed) \cup row

-----------------------------------------------------------------------------
(***************************************************************************)
(* The world: files change, the drain indexes, records age.                 *)
(***************************************************************************)
Change(f) ==
  /\ changes < MaxChanges /\ changes' = changes + 1
  /\ drift' = drift \cup {f}
  /\ UNCHANGED <<row, queue, kept, slow, requests, sweep, owed, before, gap, starts, faults>>

Drain(f) ==
  /\ f \in queue
  /\ queue' = queue \ {f} /\ drift' = drift \ {f} /\ row' = row \cup {f}
  /\ UNCHANGED <<kept, slow, requests, sweep, owed, before, gap, Bounds, faults>>

\* SESSION_SWEEP_REUSE_MS and SLOW_LISTING_MEMORY_MS go by.
Ages ==
  /\ \/ swept /\ swept' = FALSE /\ UNCHANGED slow
     \/ slow /\ slow' = FALSE /\ UNCHANGED swept
  /\ IndexKept
  /\ UNCHANGED <<cursor, deletionCursor, requests, sweep, gap, Bounds, faults>>

-----------------------------------------------------------------------------
(***************************************************************************)
(* Requests.                                                                *)
(***************************************************************************)

\* appendReconcileRequest: what has drifted by now is owed a sweep.
Requests ==
  /\ live' = TRUE
  /\ owed' = owed \cup ((drift \cap Reach) \ queue)

\* enqueueShellWrites: the command wrote files it does not name.  A request that
\* waits already serves (reconcileAlreadyPending); one that adds nothing is no step.
ShellWrites ==
  /\ ~(drift \cap Reach \subseteq owed \cup queue /\ live)
  /\ Requests
  /\ UNCHANGED <<row, drift, queue, kept, slow, claim, sweep, before, gap, Bounds, faults>>

-----------------------------------------------------------------------------
(***************************************************************************)
(* A sweep (reconcileProjectWith).                                          *)
(***************************************************************************)
\* Mutant of RotatedAfter: the file at the resume point comes first and last.
RotatedAt(seq, k) == SubSeq(seq, k, Len(seq)) \o SubSeq(seq, 1, k)

\* Mutant of RotatedAfter: the file at the resume point is left out.
RotatedPast(seq, k) == SubSeq(seq, k + 1, Len(seq)) \o SubSeq(seq, 1, k - 1)

RotatedAfter(seq, k) == SubSeq(seq, k + 1, Len(seq)) \o SubSeq(seq, 1, k)

Position(seq, f) == CHOOSE k \in 1..Len(seq) : seq[k] = f

\* A pass goes on after the file where the last one stopped, if that is in its sequence.
Lap(seq, point) ==
  IF point \in ToSet(seq) THEN RotatedAfter(seq, Position(seq, point)) ELSE seq

\* A listing that comes late, or fails, is taken for an empty one.
Begins(s, list) ==
  /\ \/ Sweeps(s, [Asleep EXCEPT !.stage = "scan", !.rows = row, !.listed = list,
                     !.lap = Lap(list, cursor), !.due = ToSet(Lap(list, cursor))])
        /\ UNCHANGED faults
     \/ /\ Spend
        /\ \E late \in BOOLEAN :
             Sweeps(s, [Asleep EXCEPT !.stage = "scan", !.rows = row, !.late = late,
                          !.failed = ~late])
  /\ before' = [before EXCEPT ![s] = (drift \cap (ToSet(list) \cup row)) \ queue]

\* A pass looks at the file that comes next in its lap.
Looks(s) ==
  LET sw == sweep[s] IN
  \E f \in sw.due :
    /\ \A g \in sw.due : Position(sw.lap, f) <= Position(sw.lap, g)
    /\ Sweeps(s, [sw EXCEPT !.due = @ \ {f}, !.last = f,
                    !.found = IF f \in drift THEN @ \cup {f} ELSE @])

SweepOnly ==
  IndexKept /\ UNCHANGED <<kept, slow, requests, gap, Bounds, faults>>

\* Mutant of MayStop: a pass may stop having examined nothing.
MayStopAtOnce(sw) == TRUE

\* MIN_FILES_PER_SWEEP: a pass examines one file, or row, before it may stop; the
\* budget may be spent at any time.
MayStop(sw) == sw.due = {} \/ sw.last # Null

ScanNext(s) ==
  /\ sweep[s].stage = "scan" /\ Looks(s)
  /\ SweepOnly

\* The second pass looks at the rows of files that were not listed.
Candidates(sw) == sw.rows \ ToSet(sw.listed)
RowLap == Lap(Order, deletionCursor)

ScanEnds(s) ==
  LET sw == sweep[s] IN
  /\ sw.stage = "scan" /\ MayStop(sw)
  /\ Sweeps(s, [sw EXCEPT !.stage = "rows", !.lap = RowLap,
                  !.due = ToSet(RowLap) \cap Candidates(sw), !.last = Null, !.rows = {},
                  !.scanCut = sw.due # {}, !.scanLast = sw.last,
                  !.resumed = Candidates(sw) # {} /\ deletionCursor # Null])
  /\ SweepOnly

\* The budget is one for both passes.
RowsNext(s) ==
  LET sw == sweep[s] IN
  /\ sw.stage = "rows" /\ Looks(s)
  /\ sw.scanCut => sw.last = Null
  /\ SweepOnly

RowsEnd(s) ==
  LET sw == sweep[s] IN
  /\ sw.stage = "rows" /\ MayStop(sw)
  /\ Sweeps(s, [sw EXCEPT !.stage = "enqueue", !.lap = <<>>, !.due = {},
                  !.cut = sw.due # {}])
  /\ SweepOnly

\* The queue takes what was found, or cannot be written.
Enqueue(s) ==
  LET sw == sweep[s] IN
  /\ sw.stage = "enqueue"
  /\ \/ /\ queue' = queue \cup sw.found
        /\ owed' = owed \ sw.found
        /\ before' = [t \in Sweepers |-> before[t] \ sw.found]
        /\ Sweeps(s, [sw EXCEPT !.stage = "settle", !.found = {}])
        /\ UNCHANGED faults
     \/ /\ sw.found # {} /\ Spend
        /\ Sweeps(s, [sw EXCEPT !.stage = "settle", !.failed = TRUE])
        /\ UNCHANGED <<queue, owed, before>>
  /\ UNCHANGED <<row, drift, kept, slow, requests, gap, Bounds>>

BudgetExhausted(sw) == sw.scanCut \/ sw.cut

\* Mutant of Complete: a sweep that its budget stopped counts.
CompleteAnyway(sw) == sw.listed # <<>> /\ sw.found = {}

\* A full lap over a real listing whose drift all reached the queue.
Complete(sw) == ~BudgetExhausted(sw) /\ sw.listed # <<>> /\ sw.found = {}

\* Mutant of Resume: a scan that was cut short starts over.
ResumeNever(sw) == IF sw.scanCut THEN Null ELSE cursor

Resume(sw) ==
  IF sw.scanCut THEN sw.scanLast ELSE IF sw.listed # <<>> THEN Null ELSE cursor

\* The resume points, the record of a complete sweep, and what comes of the sweep.
Settle(s) ==
  LET sw == sweep[s] IN
  /\ sw.stage = "settle"
  /\ cursor' = Resume(sw)
  /\ deletionCursor' = IF sw.cut THEN sw.last ELSE IF sw.resumed THEN Null ELSE deletionCursor
  /\ swept' = (swept \/ Complete(sw))
  /\ before' = [before EXCEPT ![s] = {}]
  /\ Sweeps(s, [Asleep EXCEPT !.stage = IF s = Worker THEN "release" ELSE "hand", !.late = sw.late,
                  !.again = BudgetExhausted(sw) \/ sw.late, !.failed = sw.failed])
  /\ UNCHANGED <<row, drift, queue, slow, requests, owed, gap, Bounds, faults>>

-----------------------------------------------------------------------------
(***************************************************************************)
(* A session starts (reconcileNote).                                        *)
(***************************************************************************)

\* A complete sweep a moment ago serves.  A listing known to be slow is left to the
\* worker, unless the request cannot be recorded.
Start(s) ==
  /\ s \in Hooks /\ sweep[s].stage = "idle" /\ ~swept
  /\ starts < MaxStarts /\ starts' = starts + 1
  /\ \/ slow /\ Requests /\ UNCHANGED <<sweep, before, faults>>
     \/ Begins(s, Tracked) /\ UNCHANGED <<live, owed>>
  /\ UNCHANGED <<row, drift, queue, kept, slow, claim, gap, changes>>

\* A listing that came late is handed to the worker, and remembered.
Hand(s) ==
  /\ sweep[s].stage = "hand"
  /\ \/ sweep[s].late /\ Requests /\ UNCHANGED faults
     \/ sweep[s].late /\ Spend /\ UNCHANGED <<live, owed>>
     \/ ~sweep[s].late /\ UNCHANGED <<live, owed, faults>>
  /\ slow' = sweep[s].late
  /\ Sweeps(s, Asleep)
  /\ UNCHANGED <<row, drift, queue, kept, claim, before, gap, Bounds>>

-----------------------------------------------------------------------------
(***************************************************************************)
(* The worker (drainReconcileRequestsAsync).                                *)
(***************************************************************************)

\* What is given up is owed no longer, unless another request has it.
GivesUp(claimed) == owed' = IF live \/ claimed THEN owed ELSE {}

\* Mutant of Claim: the claim is removed before the sweep.
ClaimOnly ==
  /\ sweep[Worker].stage = "idle" /\ (live \/ claim)
  /\ claim' = FALSE /\ live' = (live /\ claim)
  /\ Sweeps(Worker, [Asleep EXCEPT !.stage = "ask"])
  /\ IndexKept /\ UNCHANGED <<kept, slow, gap, Bounds, faults>>

\* A claim that a dead worker left comes first.
Claim ==
  /\ sweep[Worker].stage = "idle" /\ (live \/ claim)
  /\ claim' = TRUE /\ live' = (live /\ claim)
  /\ Sweeps(Worker, [Asleep EXCEPT !.stage = "ask"])
  /\ IndexKept /\ UNCHANGED <<kept, slow, gap, Bounds, faults>>

\* Where is the repository?  Git may not answer in time, or name none.
Ask ==
  /\ sweep[Worker].stage = "ask"
  /\ \/ Sweeps(Worker, [Asleep EXCEPT !.stage = "list"]) /\ UNCHANGED faults
     \/ /\ Spend
        /\ \E unfinished \in BOOLEAN :
             Sweeps(Worker, [Asleep EXCEPT !.stage = "release", !.again = unfinished,
                               !.failed = ~unfinished])
  /\ IndexKept /\ UNCHANGED <<kept, slow, requests, gap, Bounds>>

WorkerList ==
  /\ sweep[Worker].stage = "list"
  /\ Begins(Worker, Listed)
  /\ UNCHANGED <<row, drift, queue, kept, slow, requests, owed, gap, Bounds>>

\* The sweep throws: the request is spent.
Throws ==
  /\ sweep[Worker].stage \in {"scan", "rows", "enqueue"} /\ Spend
  /\ Sweeps(Worker, [Asleep EXCEPT !.stage = "release", !.failed = TRUE])
  /\ before' = [before EXCEPT ![Worker] = {}]
  /\ UNCHANGED <<row, drift, queue, kept, slow, requests, owed, gap, Bounds>>

\* The claim is removed, if it can be, once the sweeps have run.
Release ==
  LET sw == sweep[Worker] IN
  /\ sw.stage = "release"
  /\ \/ claim' = FALSE /\ UNCHANGED faults
     \/ claim' = TRUE /\ Spend
  /\ IF sw.failed /\ ~sw.again THEN GivesUp(claim') ELSE UNCHANGED owed
  /\ Sweeps(Worker, IF sw.again THEN [Asleep EXCEPT !.stage = "back"] ELSE Asleep)
  /\ UNCHANGED <<row, drift, queue, kept, slow, live, before, gap, Bounds>>

PutBack ==
  /\ sweep[Worker].stage = "back"
  /\ \/ live' = TRUE /\ UNCHANGED <<owed, faults>>
     \/ Spend /\ GivesUp(claim) /\ UNCHANGED live
  /\ Sweeps(Worker, Asleep)
  /\ UNCHANGED <<row, drift, queue, kept, slow, claim, before, gap, Bounds>>

\* The process is killed.
Killed(s) ==
  /\ sweep[s].stage # "idle" /\ Spend
  /\ gap' = (gap \/ (sweep[s].stage = "back" /\ ~live /\ ~claim))
  /\ Sweeps(s, Asleep) /\ before' = [before EXCEPT ![s] = {}]
  /\ UNCHANGED <<row, drift, queue, kept, slow, requests, owed, Bounds>>

World == Ages \/ ShellWrites \/ \E f \in Files : Change(f) \/ Drain(f)

SweepStep(s) ==
  ScanNext(s) \/ ScanEnds(s) \/ RowsNext(s) \/ RowsEnd(s) \/ Enqueue(s) \/ Settle(s)

WorkerStep ==
  Claim \/ Ask \/ WorkerList \/ SweepStep(Worker) \/ Release \/ PutBack

Next ==
  \/ World
  \/ \E s \in Hooks : Start(s) \/ SweepStep(s) \/ Hand(s)
  \/ WorkerStep \/ Throws
  \/ \E s \in Sweepers : Killed(s)

Spec == Init /\ [][Next]_vars

\* The worker's loop comes back to the requests (WorkerLifecycle keeps one alive).
FairSpec == Spec /\ WF_vars(WorkerStep)

-----------------------------------------------------------------------------
FileOrNull == Files \cup {Null}
Stages == {"idle", "list", "scan", "rows", "enqueue", "settle", "hand", "ask", "release", "back"}
SweepState ==
  [stage : Stages, lap : Seq(Files), due : SUBSET Files, last : FileOrNull,
   rows : SUBSET Files, found : SUBSET Files, listed : {<<>>, Tracked, Listed},
   late : BOOLEAN, scanCut : BOOLEAN, scanLast : FileOrNull, cut : BOOLEAN, resumed : BOOLEAN,
   again : BOOLEAN, failed : BOOLEAN]

\* Every variable holds a value of its type, and the lap of a pass, rotated or not, has
\* each file once and every file that is due.
TypeOK ==
  /\ row \subseteq Files /\ drift \subseteq Files /\ queue \subseteq Files
  /\ cursor \in FileOrNull /\ deletionCursor \in FileOrNull
  /\ {swept, slow, live, claim, gap} \subseteq BOOLEAN
  /\ owed \subseteq Files /\ before \in [Sweepers -> SUBSET Files]
  /\ changes \in Nat /\ starts \in Nat /\ faults \in Nat
  /\ sweep \in [Sweepers -> SweepState]
  /\ \A s \in Sweepers :
       /\ IsInjective(sweep[s].lap) /\ sweep[s].due \subseteq ToSet(sweep[s].lap)

\* What a sweep has yet to look at, if no budget ends its passes.
Ahead(sw) == sw.due \cup IF sw.stage = "scan" THEN Candidates(sw) ELSE {}

Sweeping == {"scan", "rows", "enqueue", "settle"}

\* reconcileProjectWith: a lap "still visits every tracked file exactly once".  Wherever
\* the passes began and whatever was queued or drained meanwhile, a file that had drifted
\* as the sweep listed and is not queued yet was found or is still to be looked at, but
\* for a listing that came late or failed and a budget that ended a pass.
NothingMissed ==
  \A s \in Sweepers : LET sw == sweep[s] IN
    /\ sw.stage \in Sweeping /\ ~BudgetExhausted(sw)
    /\ sw.listed # <<>> \/ ~(sw.late \/ sw.failed)
    => before[s] \subseteq sw.found \cup Ahead(sw)

\* writeSweepStamp: "Only a full lap over a real listing whose drift all reached the
\* queue lets session start skip the next sweeps".  When a sweep is recorded as
\* complete, every file that had drifted as it began was queued since.
SweptIsQueued ==
  [][swept' /\ ~swept => \E s \in Sweepers : sweep[s].stage = "settle" /\ before[s] = {}]_vars

\* drainReconcileRequestsAsync: while files are owed a sweep their request is in one
\* of the two files or with a worker about to put it back, but for a worker killed
\* in between.  A worker's sweep that leaves no request behind found all of them.
RequestKept == owed # {} /\ ~gap => live \/ claim \/ sweep[Worker].stage = "back"

\* The same of every worker, as reconcile_requests.ts:90 has it ("a kill mid-sweep
\* leaves the claim for the next cycle").
EveryRequestKept == owed # {} => live \/ claim \/ sweep[Worker].stage = "back"

\* What is owed a sweep is queued in the end, however often sweeps run out of budget.
OwedQueued == \A f \in Files : f \in owed ~> f \notin owed \/ gap

=============================================================================
