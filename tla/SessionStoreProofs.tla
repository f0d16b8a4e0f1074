-------------------------- MODULE SessionStoreProofs --------------------------
(***************************************************************************)
(* Proofs about SessionStore, for any hooks, entries, ranges, mixtures of   *)
(* operations and faults: overlapping saves lose and double nothing, and no *)
(* line range comes back from before a compaction.                          *)
(***************************************************************************)
EXTENDS SessionStore, TLAPS

Base == [at : Epochs, reads : Nat]
Started == [reads : Nat, pending : SUBSET Entries]

\* The parts of the type invariant.
CopyTypes ==
  /\ disk \in Session /\ epochFile \in Epochs
  /\ mem \in [Hooks -> Session] /\ seen \in [Hooks -> Session]
  /\ loaded \in [Hooks -> Started]
  /\ cleared \in [Hooks -> BOOLEAN]
PlaceTypes ==
  /\ pc \in [Hooks -> Pcs]
  /\ section \in Hooks \cup {Null}
  /\ answer \in [Hooks -> {"none", "ran", "contended", "unlockable"}]
  /\ now \in 1..(MaxCompactions + 1) /\ version \in Versions /\ ops \in Sessions
  /\ faults \in 0..MaxFaults
HistoryTypes ==
  /\ log \in [Epochs -> Nat] /\ counted \in Nat
  /\ landed \subseteq Entries /\ taken \subseteq Entries
  /\ bare \in BOOLEAN
  /\ compactor \in Hooks \cup {Null}
  /\ known \in Epochs /\ due \in [Hooks -> Epochs]

\* The parts make the type invariant.
LEMMA TypesOfParts == TypeOK <=> CopyTypes /\ PlaceTypes /\ HistoryTypes
  BY DEF TypeOK, CopyTypes, PlaceTypes, HistoryTypes, Started

\* And so after a step.
LEMMA TypesOfPartsNext == ASSUME CopyTypes', PlaceTypes', HistoryTypes' PROVE TypeOK'
  BY DEF TypeOK, CopyTypes, PlaceTypes, HistoryTypes, Started

-----------------------------------------------------------------------------
(***************************************************************************)
(* The operations on a copy.                                                *)
(***************************************************************************)

\* The fields of a session.
LEMMA Fields ==
  ASSUME NEW s \in Session
  PROVE  /\ s.reads \in Nat /\ s.last \in Epochs /\ s.base \in Base
         /\ s.ranges \in SUBSET Range /\ s.ident \in Versions \cup {Null}
         /\ s.pending \in SUBSET Entries /\ s.epoch \in Epochs
  BY DEF Session, Base

\* The larger of two numbers is one of them, and at least as large as both.
LEMMA LargerIs ==
  ASSUME NEW a \in Int, NEW b \in Int
  PROVE  /\ Larger(a, b) \in {a, b} /\ Larger(a, b) >= a /\ Larger(a, b) >= b
  BY DEF Larger

\* The empty session.
LEMMA EmptyIs ==
  /\ Empty \in Session /\ Empty.pending = {} /\ Empty.epoch = 0 /\ Empty.ranges = {}
  /\ Empty.reads = 0 /\ Fresh \in Started /\ Fresh.reads = 0 /\ Fresh.pending = {}
<1>1. 0 \in Epochs
  BY ConstantsAssumption DEF Epochs
<1>2. NoBase \in Base
  BY <1>1 DEF NoBase, Base
<1>3. {} \in SUBSET Range /\ {} \in SUBSET Entries
  OBVIOUS
<1>4. Empty \in Session
  BY <1>1, <1>2, <1>3 DEF Empty, Session, Base
<1>5. Fresh \in Started
  BY <1>3 DEF Fresh, Started
<1> QED
  BY <1>4, <1>5 DEF Empty, Fresh

\* markCompacted.
LEMMA MarkCompactedIs ==
  ASSUME NEW s \in Session, NEW t \in Epochs
  PROVE  LET new == MarkCompacted(s, t) IN
         /\ new \in Session /\ new.pending = s.pending
         /\ new.epoch >= s.epoch /\ new.epoch >= t /\ new.epoch \in {s.epoch, t}
         /\ new.ranges = {} \/ (new.epoch = s.epoch /\ new.ranges = s.ranges)
<1>1. s.epoch \in Nat /\ t \in Nat
  BY Fields, ConstantsAssumption DEF Epochs
<1>2. CASE t <= s.epoch
  BY <1>1, <1>2 DEF MarkCompacted
<1>3. CASE ~(t <= s.epoch)
  <2> DEFINE new == [s EXCEPT !.epoch = t, !.ranges = {}, !.ident = Null]
  <2>1. MarkCompacted(s, t) = new
    BY <1>3 DEF MarkCompacted
  <2>2. new \in Session /\ new.pending = s.pending /\ new.epoch = t /\ new.ranges = {}
    BY DEF Session
  <2> QED
    BY <1>1, <1>3, <2>1, <2>2
<1> QED
  BY <1>2, <1>3

\* recordFileRead.
LEMMA RecordFileReadIs ==
  ASSUME NEW s \in Session, now \in Epochs
  PROVE  LET new == RecordFileRead(s) IN
         /\ new \in Session /\ new.pending = s.pending /\ new.epoch = s.epoch
         /\ new.ranges = s.ranges
<1> DEFINE opens == s.epoch > 0 /\ s.last < s.epoch /\ s.base.at < s.epoch
           base == IF opens THEN [at |-> s.epoch, reads |-> s.reads] ELSE s.base
           new == [s EXCEPT !.reads = s.reads + 1, !.last = now, !.base = base]
<1>1. s.reads + 1 \in Nat /\ base \in Base
  BY Fields DEF Base
<1>2. new = RecordFileRead(s)
  BY DEF RecordFileRead
<1>3. new \in Session /\ new.pending = s.pending /\ new.epoch = s.epoch
         /\ new.ranges = s.ranges
  <2> HIDE DEF base
  <2> QED
    BY <1>1 DEF Session, Base
<1> QED
  BY <1>2, <1>3

\* unrecordRefusedRead.
LEMMA RefuseReadIs ==
  ASSUME NEW s \in Session, now \in Epochs
  PROVE  LET new == RefuseRead(s) IN
         /\ new \in Session /\ new.pending = s.pending /\ new.epoch = s.epoch
         /\ new.ranges = s.ranges
<1>1. CASE s.reads = 0
  BY <1>1 DEF RefuseRead
<1>2. CASE s.reads # 0
  <2> DEFINE read == RecordFileRead(s)
             new == [read EXCEPT !.reads = s.reads]
  <2>1. read \in Session /\ read.pending = s.pending /\ read.epoch = s.epoch
          /\ read.ranges = s.ranges
    BY RecordFileReadIs
  <2>2. RefuseRead(s) = new
    BY <1>2 DEF RefuseRead
  <2>3. s.reads \in Nat
    BY Fields
  <2> HIDE DEF read
  <2>4. new \in Session /\ new.pending = read.pending /\ new.epoch = read.epoch
          /\ new.ranges = read.ranges
    BY <2>1, <2>3 DEF Session
  <2> QED
    BY <2>1, <2>2, <2>4
<1> QED
  BY <1>1, <1>2

\* recordFileLineRange: the new range is of the present epoch.
LEMMA RecordFileLineRangeIs ==
  ASSUME NEW s \in Session, NEW span \in Spans, now \in Epochs, version \in Versions
  PROVE  LET new == RecordFileLineRange(s, span) IN
         /\ new \in Session /\ new.pending = s.pending /\ new.epoch = s.epoch
         /\ \A r \in new.ranges : r \in s.ranges \/ r.at = now
<1> DEFINE range == [span |-> span, version |-> version, at |-> now]
           ranges == (IF Moved(s) THEN {} ELSE s.ranges) \cup {range}
           new == [s EXCEPT !.ranges = ranges, !.ident = version]
<1>1. range \in Range /\ range.at = now
  BY DEF Range
<1>2. ranges \in SUBSET Range /\ \A r \in ranges : r \in s.ranges \/ r.at = now
  <2> HIDE DEF range
  <2> QED
    BY <1>1, Fields
<1>3. RecordFileLineRange(s, span) = new
  BY DEF RecordFileLineRange
<1> HIDE DEF ranges
<1>4. new \in Session /\ new.pending = s.pending /\ new.epoch = s.epoch /\ new.ranges = ranges
  BY <1>2 DEF Session
<1> QED
  BY <1>2, <1>3, <1>4

\* recordFileEdit.
LEMMA ResetFileLineRangesIs ==
  ASSUME NEW s \in Session
  PROVE  LET new == ResetFileLineRanges(s) IN
         /\ new \in Session /\ new.pending = s.pending /\ new.epoch = s.epoch
         /\ new.ranges = {}
  BY DEF ResetFileLineRanges, Session

\* The pending entries alone are changed.
LEMMA PendingSet ==
  ASSUME NEW s \in Session, NEW keys \in SUBSET Entries
  PROVE  LET new == [s EXCEPT !.pending = keys] IN
         /\ new \in Session /\ new.pending = keys /\ new.epoch = s.epoch
         /\ new.ranges = s.ranges
  BY DEF Session

\* mergeSessionState.
LEMMA MergeIs ==
  ASSUME NEW d \in Session, NEW m \in Session, NEW h \in Hooks, CopyTypes
  PROVE  LET new == Merge(d, m, h) IN
         /\ new \in Session
         /\ new.reads = MergedReads(d, m, h) /\ new.pending = MergedPending(d, m, h)
         /\ new.epoch = Larger(d.epoch, m.epoch)
         /\ \A r \in new.ranges :
              (r \in d.ranges /\ d.epoch = new.epoch) \/ (r \in m.ranges /\ m.epoch = new.epoch)
<1> DEFINE epoch == Larger(d.epoch, m.epoch)
           fromDisk == IF cleared[h] THEN {} ELSE Current(d, epoch)
           fromMem == Current(m, epoch)
           reads == MergedReads(d, m, h)
           last == Larger(d.last, m.last)
           base == MergedBase(d.base, m.base)
           ident == MergedIdent(fromDisk, fromMem, d, m)
           pending == MergedPending(d, m, h)
           ranges == fromDisk \cup fromMem
           new == [reads |-> reads, last |-> last, base |-> base, ranges |-> ranges,
                   ident |-> ident, pending |-> pending, epoch |-> epoch]
<1>1. /\ d.reads \in Nat /\ d.last \in Epochs /\ d.base \in Base /\ d.ranges \in SUBSET Range
      /\ d.ident \in Versions \cup {Null} /\ d.pending \in SUBSET Entries /\ d.epoch \in Epochs
  BY Fields
<1>2. /\ m.reads \in Nat /\ m.last \in Epochs /\ m.base \in Base /\ m.ranges \in SUBSET Range
      /\ m.ident \in Versions \cup {Null} /\ m.pending \in SUBSET Entries /\ m.epoch \in Epochs
  BY Fields
<1>3. loaded[h].reads \in Nat /\ loaded[h].pending \in SUBSET Entries
  BY DEF CopyTypes, Started
<1>4. reads \in Nat
  BY <1>1, <1>2, <1>3 DEF MergedReads, Larger
<1>5. last \in Epochs /\ epoch \in Epochs
  BY <1>1, <1>2 DEF Larger
<1>6. base \in Base
  <2> d.base.at \in Epochs /\ m.base.at \in Epochs
    BY <1>1, <1>2 DEF Base
  <2>1. CASE d.base.at > m.base.at
    <3>1. ~(m.base.at > d.base.at)
      BY <2>1, ConstantsAssumption DEF Epochs
    <3> QED
      BY <1>1, <2>1, <3>1 DEF MergedBase
  <2>2. CASE m.base.at > d.base.at
    <3>1. ~(d.base.at > m.base.at)
      BY <2>2, ConstantsAssumption DEF Epochs
    <3> QED
      BY <1>2, <2>2, <3>1 DEF MergedBase
  <2>3. CASE ~(d.base.at > m.base.at) /\ ~(m.base.at > d.base.at)
    <3>1. base = [at |-> d.base.at, reads |-> Larger(d.base.reads, m.base.reads)]
      BY <2>3 DEF MergedBase
    <3>2. d.base.at \in Epochs /\ Larger(d.base.reads, m.base.reads) \in Nat
      BY <1>1, <1>2 DEF Base, Larger
    <3> HIDE DEF base
    <3> QED
      BY <3>1, <3>2 DEF Base
  <2> QED
    BY <2>1, <2>2, <2>3
<1>7. fromDisk \in SUBSET Range /\ fromMem \in SUBSET Range
  BY <1>1, <1>2 DEF Current
<1>8. ident \in Versions \cup {Null}
  BY <1>1, <1>2 DEF MergedIdent
<1>9. pending \in SUBSET Entries
  BY <1>1, <1>2 DEF MergedPending
<1>10. \A r \in ranges : (r \in d.ranges /\ d.epoch = epoch) \/ (r \in m.ranges /\ m.epoch = epoch)
  BY DEF Current
<1>11. Merge(d, m, h) = new
  BY DEF Merge
<1> HIDE DEF epoch, fromDisk, fromMem, reads, last, base, ident, pending
<1>12. new \in Session
  <2>1. ranges \in SUBSET Range
    BY <1>7
  <2> HIDE DEF ranges
  <2> QED
    BY <1>4, <1>5, <1>6, <1>8, <1>9, <2>1 DEF Session, Base
<1>13. new.reads = reads /\ new.pending = pending /\ new.epoch = epoch /\ new.ranges = ranges
  OBVIOUS
<1> USE DEF epoch, reads, pending
<1> HIDE DEF ranges, new
<1> QED
  BY <1>10, <1>11, <1>12, <1>13

-----------------------------------------------------------------------------
(***************************************************************************)
(* The invariant.                                                           *)
(***************************************************************************)

\* The lock: whoever has it has read the file again, and as long as every save had it
\* nobody has changed the file since.
LockInv ==
  \A h \in Hooks : section = h => pc[h] = "merge" /\ (~bare => seen[h] = disk)

\* Counters on their way are not larger than what was counted.
CountInv ==
  /\ CountedOnce
  /\ \A h \in Hooks : loaded[h].reads <= counted /\ seen[h].reads <= counted

\* An entry that h left is with h alone until h has saved.
Own(h, k) == k \in mem[h].pending /\ k \notin loaded[h].pending
Alone(h, k) ==
  /\ k \notin disk.pending /\ k \notin landed /\ k \notin taken
  /\ \A g \in Hooks : k \notin loaded[g].pending /\ k \notin seen[g].pending
  /\ \A g \in Hooks \ {h} : k \notin mem[g].pending

PendingInv ==
  /\ PendingExact
  /\ \A h \in Hooks, k \in Entries : Own(h, k) => Alone(h, k)

\* Every copy keeps to its epoch, and epochs are of the past.
CopyOK(s) == s.epoch <= now /\ \A r \in s.ranges : r.at >= s.epoch

EpochInv ==
  /\ CopyOK(disk) /\ epochFile <= now
  /\ \A h \in Hooks : CopyOK(mem[h]) /\ CopyOK(seen[h])

IInv == TypeOK /\ LockInv /\ CountInv /\ PendingInv /\ EpochInv

-----------------------------------------------------------------------------
(***************************************************************************)
(* What the steps of a hook do.                                             *)
(***************************************************************************)

\* The hook handles an event: its copy becomes s.
Worked(h, s) ==
  /\ pc[h] = "ready"
  /\ mem' = [mem EXCEPT ![h] = s]
  /\ \A k \in s.pending : k \in mem[h].pending \/ Unused(k)
  /\ s.epoch >= mem[h].epoch /\ s.epoch <= now'
  /\ \A r \in s.ranges : r.at >= s.epoch
  /\ \/ UNCHANGED <<now, epochFile, compactor>> /\ Goes(h, "done")
     \/ /\ compactor = Null /\ compactor' = h
        /\ now <= MaxCompactions /\ now' = now + 1 /\ s.epoch = now'
        /\ (epochFile' = 0 /\ Goes(h, "publish")) \/ (UNCHANGED epochFile /\ Goes(h, "done"))
  /\ cleared' \in [Hooks -> BOOLEAN] /\ log' \in [Epochs -> Nat] /\ faults' \in 0..MaxFaults
  /\ UNCHANGED <<disk, loaded, seen, section, answer, version, ops, counted, landed, taken,
                 bare, known, due>>

\* A hook ends, and with it its part in the section.
Stopped(h) ==
  /\ Exits(h)
  /\ section' = IF section = h THEN Null ELSE section
  /\ answer' \in [Hooks -> {"none", "ran", "contended", "unlockable"}]
  /\ known' = known \/ (compactor = h /\ epochFile = now /\ known' = now)
  /\ pc[h] = "publish" => Torn
  /\ faults' \in 0..MaxFaults
  /\ UNCHANGED <<epochFile, now, version, ops, log>>

\* The bounds are numbers.
LEMMA Numbers ==
  ASSUME TypeOK
  PROVE  /\ now \in Nat /\ now \in Epochs /\ epochFile \in Nat /\ counted \in Nat /\ known \in Nat
         /\ \A e \in Epochs : e \in Nat
         /\ \A s \in Session : s.epoch \in Nat /\ s.epoch \in Epochs
         /\ \A r \in Range : r.at \in Nat
         /\ \A h \in Hooks : due[h] \in Nat
<1>1. \A e \in Epochs : e \in Nat
  BY ConstantsAssumption DEF Epochs
<1>2. now \in Nat /\ now \in Epochs
  BY ConstantsAssumption DEF TypeOK, Epochs
<1>3. \A s \in Session : s.epoch \in Epochs
  BY Fields
<1>4. \A r \in Range : r.at \in Epochs
  BY DEF Range
<1> QED
  BY <1>1, <1>2, <1>3, <1>4 DEF TypeOK

\* What Handle changes.
Handled(h, s) ==
  /\ pc[h] = "ready" /\ mem' = [mem EXCEPT ![h] = s] /\ cleared' \in [Hooks -> BOOLEAN]
  /\ UNCHANGED <<disk, loaded, seen, section, answer, version, ops, counted, landed, taken,
                 bare, known, due>>

\* The events that leave the epoch as it is.
LEMMA QuietWork ==
  ASSUME IInv, NEW h \in Hooks, NEW s \in Session, Handled(h, s),
         \A k \in s.pending : k \in mem[h].pending \/ Unused(k),
         s.epoch = mem[h].epoch,
         \A r \in s.ranges : r \in mem[h].ranges \/ r.at = now,
         Goes(h, "done"), UNCHANGED <<epochFile, now, faults, compactor>>,
         log' \in [Epochs -> Nat]
  PROVE  Worked(h, s)
<1>1. mem[h] \in Session /\ cleared \in [Hooks -> BOOLEAN] /\ faults \in 0..MaxFaults
  BY DEF IInv, TypeOK
<1>2. CopyOK(mem[h])
  BY DEF IInv, EpochInv
<1>3. s.epoch \in Nat /\ now \in Nat /\ s.epoch <= now
  BY <1>1, <1>2, Numbers DEF CopyOK, IInv
<1>4. \A r \in s.ranges : r.at >= s.epoch
  BY <1>2, <1>3 DEF CopyOK
<1> QED
  BY <1>1, <1>3, <1>4 DEF Handled, Worked

\* What the model reads is logged.
LEMMA LoggedType == ASSUME TypeOK, Logged PROVE log' \in [Epochs -> Nat]
  BY Numbers DEF Logged, TypeOK

\* Every event of a hook.
LEMMA Works ==
  ASSUME IInv, NEW h \in Hooks,
         ReadFile(h) \/ ReadRefused(h) \/ ReadRange(h) \/ EditFile(h) \/ Leave(h) \/ Take(h)
           \/ Compact(h)
  PROVE  \E s \in Session : Worked(h, s)
<1> DEFINE m == mem[h]
<1>1. /\ m \in Session /\ now \in Epochs /\ version \in Versions /\ log \in [Epochs -> Nat]
      /\ cleared \in [Hooks -> BOOLEAN]
  BY Numbers DEF IInv, TypeOK
<1>2. \A s \in Session :
        /\ Handled(h, s) /\ Goes(h, "done")
        /\ UNCHANGED <<epochFile, now, faults, compactor>>
        /\ log' \in [Epochs -> Nat]
        /\ s.epoch = m.epoch
        /\ \A k \in s.pending : k \in m.pending \/ Unused(k)
        /\ \A r \in s.ranges : r \in m.ranges \/ r.at = now
        => Worked(h, s)
  BY QuietWork
<1> HIDE DEF m
<1>3. CASE ReadFile(h)
  <2> DEFINE s == RecordFileRead(m)
  <2>1. s \in Session /\ s.pending = m.pending /\ s.epoch = m.epoch /\ s.ranges = m.ranges
    BY <1>1, RecordFileReadIs
  <2>2. log' \in [Epochs -> Nat]
    BY <1>3, LoggedType DEF ReadFile, IInv
  <2>3. Handled(h, s) /\ Goes(h, "done") /\ UNCHANGED <<epochFile, now, faults, compactor>>
    BY <1>1, <1>3 DEF ReadFile, m, Handle, Handled
  <2> HIDE DEF s
  <2> QED
    BY <1>2, <2>1, <2>2, <2>3
<1>4. CASE ReadRefused(h)
  <2> DEFINE s == RefuseRead(m)
  <2>1. s \in Session /\ s.pending = m.pending /\ s.epoch = m.epoch /\ s.ranges = m.ranges
    BY <1>1, RefuseReadIs
  <2>2. log' \in [Epochs -> Nat]
    BY <1>1, <1>4 DEF ReadRefused
  <2>3. Handled(h, s) /\ Goes(h, "done") /\ UNCHANGED <<epochFile, now, faults, compactor>>
    BY <1>1, <1>4 DEF ReadRefused, m, Handle, Handled
  <2> HIDE DEF s
  <2> QED
    BY <1>2, <2>1, <2>2, <2>3
<1>5. CASE ReadRange(h)
  <2>1. PICK span \in Spans : Handle(h, "range", RecordFileLineRange(RecordFileRead(m), span), Moved(m))
    BY <1>5 DEF ReadRange, m
  <2> DEFINE read == RecordFileRead(m)
             s == RecordFileLineRange(read, span)
  <2>2. read \in Session /\ read.pending = m.pending /\ read.epoch = m.epoch /\ read.ranges = m.ranges
    BY <1>1, RecordFileReadIs
  <2> HIDE DEF read
  <2>3. s \in Session /\ s.pending = read.pending /\ s.epoch = read.epoch
          /\ \A r \in s.ranges : r \in read.ranges \/ r.at = now
    BY <1>1, <2>2, RecordFileLineRangeIs
  <2>4. log' \in [Epochs -> Nat]
    BY <1>5, LoggedType DEF ReadRange, IInv
  <2>5. Handled(h, s) /\ Goes(h, "done") /\ UNCHANGED <<epochFile, now, faults, compactor>>
    BY <1>1, <1>5, <2>1 DEF ReadRange, read, Handle, Handled, Moved
  <2> HIDE DEF s
  <2> QED
    BY <1>2, <2>2, <2>3, <2>4, <2>5
<1>6. CASE EditFile(h)
  <2> DEFINE s == ResetFileLineRanges(m)
  <2>1. s \in Session /\ s.pending = m.pending /\ s.epoch = m.epoch /\ s.ranges = {}
    BY <1>1, ResetFileLineRangesIs
  <2>2. log' \in [Epochs -> Nat]
    BY <1>1, <1>6 DEF EditFile
  <2>3. Handled(h, s) /\ Goes(h, "done") /\ UNCHANGED <<epochFile, now, faults, compactor>>
    BY <1>1, <1>6 DEF EditFile, m, Handle, Handled
  <2> HIDE DEF s
  <2> QED
    BY <1>2, <2>1, <2>2, <2>3
<1>7. CASE Leave(h)
  <2>1. PICK k \in Entries : Unused(k) /\ Handle(h, "ask", [m EXCEPT !.pending = @ \cup {k}], FALSE)
    BY <1>7 DEF Leave, m
  <2> DEFINE keys == m.pending \cup {k}
             s == [m EXCEPT !.pending = keys]
  <2>2. keys \in SUBSET Entries
    BY <1>1, Fields
  <2>3. Handled(h, s) /\ Goes(h, "done") /\ UNCHANGED <<epochFile, now, faults, compactor>>
    BY <1>1, <1>7, <2>1 DEF Leave, Handle, Handled
  <2>4. \A j \in keys : j \in m.pending \/ Unused(j)
    BY <2>1
  <2> HIDE DEF keys
  <2>5. s \in Session /\ s.pending = keys /\ s.epoch = m.epoch /\ s.ranges = m.ranges
    BY <1>1, <2>2, PendingSet
  <2>6. log' \in [Epochs -> Nat]
    BY <1>1, <1>7 DEF Leave
  <2> HIDE DEF s
  <2> QED
    BY <1>2, <2>3, <2>4, <2>5, <2>6
<1>8. CASE Take(h)
  <2>1. PICK k \in m.pending : Handle(h, "take", [m EXCEPT !.pending = @ \ {k}], FALSE)
    BY <1>8 DEF Take, m
  <2> DEFINE keys == m.pending \ {k}
             s == [m EXCEPT !.pending = keys]
  <2>2. keys \in SUBSET Entries
    BY <1>1, Fields
  <2>3. Handled(h, s) /\ Goes(h, "done") /\ UNCHANGED <<epochFile, now, faults, compactor>>
    BY <1>1, <1>8, <2>1 DEF Take, Handle, Handled
  <2>4. \A j \in keys : j \in m.pending
    OBVIOUS
  <2> HIDE DEF keys
  <2>5. s \in Session /\ s.pending = keys /\ s.epoch = m.epoch /\ s.ranges = m.ranges
    BY <1>1, <2>2, PendingSet
  <2>6. log' \in [Epochs -> Nat]
    BY <1>1, <1>8 DEF Take
  <2> HIDE DEF s
  <2> QED
    BY <1>2, <2>3, <2>4, <2>5, <2>6
<1>9. CASE Compact(h)
  <2> DEFINE s == MarkCompacted(m, now + 1)
  <2>1. now + 1 \in Epochs /\ now \in Nat
    BY <1>9, Numbers, ConstantsAssumption DEF Compact, Epochs, IInv
  <2>2. /\ s \in Session /\ s.pending = m.pending
        /\ s.epoch >= m.epoch /\ s.epoch >= now + 1 /\ s.epoch \in {m.epoch, now + 1}
        /\ s.ranges = {} \/ (s.epoch = m.epoch /\ s.ranges = m.ranges)
    BY <1>1, <2>1, MarkCompactedIs
  <2>3. m.epoch \in Nat /\ m.epoch <= now
    BY <1>1, Numbers DEF IInv, EpochInv, CopyOK, m
  <2>4. /\ Handle(h, "compact", s, FALSE)
        /\ now <= MaxCompactions /\ compactor = Null /\ now' = now + 1 /\ compactor' = h
        /\ (epochFile' = 0 /\ Goes(h, "publish")) \/ (UNCHANGED epochFile /\ Goes(h, "done"))
        /\ log' = log
    BY <1>9 DEF Compact, m
  <2>5. faults' \in 0..MaxFaults
    BY <1>9, ConstantsAssumption DEF Compact, Spend, IInv, TypeOK
  <2> HIDE DEF s
  <2>6. s.epoch = now + 1 /\ s.ranges = {}
    BY <2>1, <2>2, <2>3
  <2>7. cleared' \in [Hooks -> BOOLEAN]
    BY <2>4 DEF Handle, IInv, TypeOK
  <2>8. Worked(h, s)
    BY <1>1, <2>1, <2>2, <2>3, <2>4, <2>5, <2>6, <2>7 DEF Worked, Handle, m
  <2> QED
    BY <2>2, <2>8
<1> QED
  BY <1>3, <1>4, <1>5, <1>6, <1>7, <1>8, <1>9

-----------------------------------------------------------------------------
(***************************************************************************)
(* Every step keeps the invariant.                                          *)
(***************************************************************************)

\* A hook handles its event.
LEMMA WorkedStep ==
  ASSUME IInv, NEW h \in Hooks, NEW s \in Session, Worked(h, s) PROVE IInv'
<1> USE DEF IInv
<1>1. pc' \in [Hooks -> Pcs] /\ \A g \in Hooks \ {h} : pc'[g] = pc[g]
  BY DEF Worked, Goes, Pcs, TypeOK
<1>2. /\ mem' \in [Hooks -> Session] /\ mem'[h] = s
      /\ \A g \in Hooks \ {h} : mem'[g] = mem[g]
  BY DEF Worked, TypeOK
<1>3. now' \in 1..(MaxCompactions + 1) /\ now <= now' /\ now \in Nat /\ now' \in Nat
  <2>1. now' = now \/ (now <= MaxCompactions /\ now' = now + 1)
    BY DEF Worked
  <2>2. now \in 1..(MaxCompactions + 1) /\ MaxCompactions \in Nat
    BY ConstantsAssumption DEF TypeOK
  <2> QED
    BY <2>1, <2>2
<1>4. epochFile' \in Epochs /\ epochFile' <= now'
  <2>1. epochFile' = 0 \/ epochFile' = epochFile
    BY DEF Worked
  <2>2. epochFile \in Epochs /\ epochFile \in Nat /\ epochFile <= now
    BY Numbers DEF TypeOK, EpochInv
  <2>3. 0 \in Epochs
    BY ConstantsAssumption DEF Epochs
  <2> QED
    BY <1>3, <2>1, <2>2, <2>3
<1>5. compactor' \in Hooks \cup {Null}
  BY DEF Worked, TypeOK
<1>6. TypeOK'
  <2>1. CopyTypes'
    BY <1>2, <1>4, TypesOfParts DEF Worked, CopyTypes
  <2>2. PlaceTypes'
    BY <1>1, <1>3, TypesOfParts DEF Worked, PlaceTypes
  <2>3. HistoryTypes'
    BY <1>5, TypesOfParts DEF Worked, HistoryTypes
  <2> QED
    BY <2>1, <2>2, <2>3, TypesOfPartsNext
<1>7. LockInv'
  BY <1>1 DEF LockInv, Worked
<1>8. CountInv'
  BY DEF CountInv, CountedOnce, Worked
<1>9. PendingInv'
  <2>1. PendingExact'
    BY DEF PendingInv, PendingExact, Worked
  <2>2. ASSUME NEW g \in Hooks, NEW k \in Entries, Own(g, k)' PROVE Alone(g, k)'
    <3>1. UNCHANGED <<disk, landed, taken, loaded, seen>>
      BY DEF Worked
    <3>2. CASE g = h
      <4>1. Own(h, k) \/ Unused(k)
        BY <1>2, <2>2, <3>1, <3>2 DEF Own, Worked
      <4>2. Alone(h, k)
        BY <4>1 DEF PendingInv, Alone, Unused
      <4> QED
        BY <1>2, <3>1, <3>2, <4>2 DEF Alone
    <3>3. CASE g # h
      <4>1. Own(g, k)
        BY <1>2, <2>2, <3>1, <3>3 DEF Own
      <4>2. Alone(g, k) /\ ~Unused(k)
        BY <4>1 DEF PendingInv, Own, Unused
      <4>3. k \notin s.pending
        BY <3>3, <4>2 DEF Worked, Alone
      <4> QED
        BY <1>2, <3>1, <3>3, <4>2, <4>3 DEF Alone
    <3> QED
      BY <3>2, <3>3
  <2> QED
    BY <2>1, <2>2 DEF PendingInv
<1>10. EpochInv'
  <2>1. \A c \in Session : CopyOK(c) => c.epoch <= now' /\ \A r \in c.ranges : r.at >= c.epoch
    BY <1>3, Numbers DEF CopyOK
  <2>2. disk \in Session /\ \A g \in Hooks : mem[g] \in Session /\ seen[g] \in Session
    BY DEF TypeOK
  <2>3. UNCHANGED <<disk, seen>>
    BY DEF Worked
  <2>4. CopyOK(disk)'
    BY <2>1, <2>2, <2>3 DEF CopyOK, EpochInv
  <2>5. ASSUME NEW g \in Hooks PROVE CopyOK(seen[g])' /\ CopyOK(mem[g])'
    <3>1. CopyOK(seen[g])'
      BY <2>1, <2>2, <2>3 DEF CopyOK, EpochInv
    <3>2. CASE g = h
      BY <1>2, <3>1, <3>2 DEF CopyOK, Worked
    <3>3. CASE g # h
      BY <1>2, <2>1, <2>2, <3>1, <3>3 DEF CopyOK, EpochInv
    <3> QED
      BY <3>2, <3>3
  <2> QED
    BY <1>4, <2>4, <2>5 DEF EpochInv
<1> QED
  BY <1>6, <1>7, <1>8, <1>9, <1>10

\* A hook loads the session, or finds it unreadable.
LEMMA LoadStep == ASSUME IInv, NEW h \in Hooks, Load(h) PROVE IInv'
<1> USE DEF IInv
<1>1. PICK s \in {disk, Empty} : Import(h, s)
  BY DEF Load
<1>2. s \in Session
  BY <1>1, EmptyIs DEF TypeOK
<1>3. s.reads \in Nat /\ s.reads <= counted /\ counted \in Nat
  BY <1>1, <1>2, EmptyIs, Fields DEF TypeOK, CountInv, CountedOnce
<1>4. s.pending \in SUBSET Entries /\ s.pending \subseteq disk.pending
  BY <1>1, <1>2, EmptyIs, Fields
<1>5. CopyOK(s)
  BY <1>1, EmptyIs, Numbers DEF CopyOK, EpochInv
<1>6. /\ mem' \in [Hooks -> Session] /\ mem'[h] = s
      /\ \A g \in Hooks \ {h} : mem'[g] = mem[g]
  BY <1>1, <1>2 DEF Import, TypeOK
<1>7. /\ loaded' \in [Hooks -> Started] /\ loaded'[h].reads = s.reads /\ loaded'[h].pending = s.pending
      /\ \A g \in Hooks \ {h} : loaded'[g] = loaded[g]
  <2> DEFINE r == [reads |-> s.reads, pending |-> s.pending]
  <2>1. r \in Started /\ r.reads = s.reads /\ r.pending = s.pending
    BY <1>3, <1>4 DEF Started
  <2>2. loaded' = [loaded EXCEPT ![h] = r]
    BY <1>1 DEF Import
  <2>3. loaded \in [Hooks -> Started]
    BY DEF TypeOK, Started
  <2> HIDE DEF r
  <2> QED
    BY <2>1, <2>2, <2>3
<1>8. cleared' \in [Hooks -> BOOLEAN]
  BY <1>1 DEF Import, TypeOK
<1>9. /\ section # h /\ section' = section
      /\ answer' \in [Hooks -> {"none", "ran", "contended", "unlockable"}]
  BY DEF Load, Lock!Call, TypeOK
<1>10. pc' \in [Hooks -> Pcs] /\ \A g \in Hooks \ {h} : pc'[g] = pc[g]
  BY DEF Load, Goes, Pcs, TypeOK
<1>11. faults' \in 0..MaxFaults
  BY ConstantsAssumption DEF Load, Spend, TypeOK
<1>12. UNCHANGED <<disk, epochFile, seen, now, version, ops, log, counted, landed, taken, bare,
                   compactor, known>>
  BY DEF Load
<1>13. due' \in [Hooks -> Epochs]
  BY DEF Load, TypeOK
<1>14. TypeOK'
  <2>1. CopyTypes'
    BY <1>6, <1>7, <1>8, <1>12, TypesOfParts DEF CopyTypes
  <2>2. PlaceTypes'
    BY <1>9, <1>10, <1>11, <1>12, TypesOfParts DEF PlaceTypes
  <2>3. HistoryTypes'
    BY <1>12, <1>13, TypesOfParts DEF HistoryTypes
  <2> QED
    BY <2>1, <2>2, <2>3, TypesOfPartsNext
<1>15. LockInv'
  BY <1>9, <1>10, <1>12 DEF LockInv
<1>16. CountInv'
  BY <1>3, <1>7, <1>12 DEF CountInv, CountedOnce
<1>17. PendingInv'
  <2>1. PendingExact'
    BY <1>12 DEF PendingInv, PendingExact
  <2>2. ASSUME NEW g \in Hooks, NEW k \in Entries, Own(g, k)' PROVE Alone(g, k)'
    <3>1. g # h
      BY <1>6, <1>7, <2>2 DEF Own
    <3>2. Alone(g, k)
      BY <1>6, <1>7, <2>2, <3>1 DEF Own, PendingInv
    <3>3. k \notin s.pending
      BY <1>4, <3>2 DEF Alone
    <3> QED
      BY <1>6, <1>7, <1>12, <3>1, <3>2, <3>3 DEF Alone
  <2> QED
    BY <2>1, <2>2 DEF PendingInv
<1>18. EpochInv'
  BY <1>5, <1>6, <1>12 DEF EpochInv, CopyOK
<1> QED
  BY <1>14, <1>15, <1>16, <1>17, <1>18

\* A hook hears of the last compaction.
LEMMA ApplyStep == ASSUME IInv, NEW h \in Hooks, ApplySessionCompaction(h) PROVE IInv'
<1> USE DEF IInv
<1> DEFINE s == MarkCompacted(mem[h], epochFile)
<1>1. mem[h] \in Session /\ epochFile \in Epochs /\ CopyOK(mem[h]) /\ epochFile <= now
  BY DEF TypeOK, EpochInv
<1>2. /\ s \in Session /\ s.pending = mem[h].pending /\ s.epoch \in {mem[h].epoch, epochFile}
      /\ s.ranges = {} \/ (s.epoch = mem[h].epoch /\ s.ranges = mem[h].ranges)
  BY <1>1, MarkCompactedIs
<1>3. mem' = [mem EXCEPT ![h] = s] /\ Goes(h, "ready")
  BY DEF ApplySessionCompaction
<1>4. UNCHANGED <<disk, epochFile, loaded, cleared, seen, section, answer, now, version, ops, faults,
                  history>>
  BY DEF ApplySessionCompaction
<1> HIDE DEF s
<1>5. CopyOK(s)
  BY <1>1, <1>2 DEF CopyOK
<1>6. /\ mem' \in [Hooks -> Session] /\ mem'[h] = s
      /\ \A g \in Hooks \ {h} : mem'[g] = mem[g]
  BY <1>2, <1>3 DEF TypeOK
<1>7. pc' \in [Hooks -> Pcs] /\ \A g \in Hooks \ {h} : pc'[g] = pc[g]
  BY <1>3 DEF Goes, Pcs, TypeOK
<1>8. pc[h] # "merge"
  BY DEF ApplySessionCompaction
<1>9. TypeOK'
  <2>1. CopyTypes'
    BY <1>4, <1>6, TypesOfParts DEF CopyTypes
  <2>2. PlaceTypes'
    BY <1>4, <1>7, TypesOfParts DEF PlaceTypes
  <2>3. HistoryTypes'
    BY <1>4, TypesOfParts DEF HistoryTypes, history
  <2> QED
    BY <2>1, <2>2, <2>3, TypesOfPartsNext
<1>10. LockInv'
  BY <1>4, <1>7, <1>8 DEF LockInv, history
<1>11. CountInv'
  BY <1>4 DEF CountInv, CountedOnce, history
<1>12. PendingInv'
  BY <1>2, <1>4, <1>6 DEF PendingInv, PendingExact, Own, Alone, history
<1>13. EpochInv'
  BY <1>4, <1>5, <1>6 DEF EpochInv, CopyOK
<1> QED
  BY <1>9, <1>10, <1>11, <1>12, <1>13

\* The epoch is published.
LEMMA PublishStep == ASSUME IInv, NEW h \in Hooks, Publish(h) PROVE IInv'
<1> USE DEF IInv
<1>1. mem[h] \in Session /\ mem[h].epoch \in Epochs /\ mem[h].epoch <= now
  BY Fields DEF TypeOK, EpochInv, CopyOK
<1>2. epochFile' = mem[h].epoch /\ pc[h] = "publish"
  BY DEF Publish
<1>3. UNCHANGED <<disk, mem, loaded, cleared, seen, section, answer, now, version, ops, faults, history>>
  BY DEF Publish
<1>4. pc' \in [Hooks -> Pcs] /\ \A g \in Hooks \ {h} : pc'[g] = pc[g]
  BY DEF Publish, Goes, Pcs, TypeOK
<1>5. TypeOK'
  <2>1. CopyTypes'
    BY <1>1, <1>2, <1>3, TypesOfParts DEF CopyTypes
  <2>2. PlaceTypes'
    BY <1>3, <1>4, TypesOfParts DEF PlaceTypes
  <2>3. HistoryTypes'
    BY <1>3, TypesOfParts DEF HistoryTypes, history
  <2> QED
    BY <2>1, <2>2, <2>3, TypesOfPartsNext
<1>6. LockInv'
  BY <1>2, <1>3, <1>4 DEF LockInv, history
<1>7. CountInv' /\ PendingInv'
  BY <1>3 DEF CountInv, CountedOnce, PendingInv, PendingExact, Own, Alone, history
<1>8. EpochInv'
  BY <1>1, <1>2, <1>3 DEF EpochInv, CopyOK
<1> QED
  BY <1>5, <1>6, <1>7, <1>8

\* A hook about to save reads the file again.
LEMMA RereadStep == ASSUME IInv, NEW h \in Hooks, SaveLocked(h) \/ SaveBare(h) PROVE IInv'
<1> USE DEF IInv
<1>1. Goes(h, "merge") /\ seen' = [seen EXCEPT ![h] = disk] /\ pc[h] = "done"
  BY DEF SaveLocked, SaveBare, Reread
<1>2. UNCHANGED <<disk, epochFile, mem, loaded, cleared, now, version, ops, history>>
  BY DEF SaveLocked, SaveBare, Reread
<1>3. faults' \in 0..MaxFaults
  BY ConstantsAssumption DEF SaveLocked, SaveBare, Reread, TypeOK
<1>4. answer' \in [Hooks -> {"none", "ran", "contended", "unlockable"}]
  BY DEF SaveLocked, SaveBare, Lock!Enter, Lock!Refuse, TypeOK
<1>5. section' \in {h, section} /\ (section' = h => section # h)
  <2>1. section # h
    BY <1>1 DEF LockInv
  <2> QED
    BY <2>1 DEF SaveLocked, SaveBare, Lock!Enter, Lock!Refuse
<1>6. section' = section \/ section = Null
  BY DEF SaveLocked, SaveBare, Lock!Enter, Lock!Refuse
<1>7. pc' \in [Hooks -> Pcs] /\ pc'[h] = "merge" /\ \A g \in Hooks \ {h} : pc'[g] = pc[g]
  BY <1>1 DEF Goes, Pcs, TypeOK
<1>8. /\ seen' \in [Hooks -> Session] /\ seen'[h] = disk
      /\ \A g \in Hooks \ {h} : seen'[g] = seen[g]
  BY <1>1 DEF TypeOK
<1>9. TypeOK'
  <2>1. CopyTypes'
    BY <1>2, <1>8, TypesOfParts DEF CopyTypes
  <2>2. PlaceTypes'
    BY <1>2, <1>3, <1>4, <1>5, <1>7, TypesOfParts DEF PlaceTypes
  <2>3. HistoryTypes'
    BY <1>2, TypesOfParts DEF HistoryTypes, history
  <2> QED
    BY <2>1, <2>2, <2>3, TypesOfPartsNext
<1>10. LockInv'
  BY <1>2, <1>5, <1>7, <1>8 DEF LockInv, history
<1>11. CountInv'
  BY <1>2, <1>8 DEF CountInv, CountedOnce, history
<1>12. PendingInv'
  BY <1>2, <1>8 DEF PendingInv, PendingExact, Own, Alone, history
<1>13. EpochInv'
  BY <1>2, <1>8 DEF EpochInv, CopyOK
<1> QED
  BY <1>9, <1>10, <1>11, <1>12, <1>13

\* What is left of a hook that ended.
LEMMA StoppedLeaves ==
  ASSUME IInv, NEW h \in Hooks, Stopped(h)
  PROVE  /\ mem' \in [Hooks -> Session] /\ mem'[h] = Empty
         /\ seen' \in [Hooks -> Session] /\ seen'[h] = Empty
         /\ loaded' \in [Hooks -> Started] /\ loaded'[h] = Fresh
         /\ cleared' \in [Hooks -> BOOLEAN] /\ pc' \in [Hooks -> Pcs] /\ pc'[h] = "idle"
         /\ due' \in [Hooks -> Epochs] /\ compactor' \in Hooks \cup {Null} /\ known' \in Epochs
         /\ section' \in Hooks \cup {Null} /\ section' # h
         /\ \A g \in Hooks \ {h} : /\ mem'[g] = mem[g] /\ seen'[g] = seen[g] /\ loaded'[g] = loaded[g]
                                   /\ pc'[g] = pc[g] /\ (section' = g => section = g)
<1> USE DEF IInv
<1>1. 0 \in Epochs
  BY ConstantsAssumption DEF Epochs
<1>2. loaded \in [Hooks -> Started] /\ Null \notin Hooks
  BY ConstantsAssumption DEF TypeOK, Started
<1>3. /\ mem' \in [Hooks -> Session] /\ mem'[h] = Empty
      /\ seen' \in [Hooks -> Session] /\ seen'[h] = Empty
      /\ loaded' \in [Hooks -> Started] /\ loaded'[h] = Fresh
      /\ \A g \in Hooks \ {h} : mem'[g] = mem[g] /\ seen'[g] = seen[g] /\ loaded'[g] = loaded[g]
  BY <1>2, EmptyIs DEF Stopped, Exits, TypeOK
<1>4. /\ pc' \in [Hooks -> Pcs] /\ pc'[h] = "idle" /\ \A g \in Hooks \ {h} : pc'[g] = pc[g]
  BY DEF Stopped, Exits, Goes, Pcs, TypeOK
<1>5. cleared' \in [Hooks -> BOOLEAN] /\ due' \in [Hooks -> Epochs] /\ compactor' \in Hooks \cup {Null}
  BY <1>1 DEF Stopped, Exits, TypeOK
<1>6. known' \in Epochs
  BY Numbers DEF Stopped, TypeOK
<1>7. /\ section' \in Hooks \cup {Null} /\ section' # h
      /\ \A g \in Hooks \ {h} : section' = g => section = g
  BY <1>2 DEF Stopped, TypeOK
<1> QED
  BY <1>3, <1>4, <1>5, <1>6, <1>7

\* A hook ends without a save.
LEMMA StopStep ==
  ASSUME IInv, NEW h \in Hooks, Stopped(h), UNCHANGED <<disk, counted, landed, taken, bare>>
  PROVE  IInv'
<1> USE DEF IInv
<1>1. /\ mem' \in [Hooks -> Session] /\ mem'[h] = Empty
      /\ seen' \in [Hooks -> Session] /\ seen'[h] = Empty
      /\ loaded' \in [Hooks -> Started] /\ loaded'[h] = Fresh
      /\ \A g \in Hooks \ {h} : mem'[g] = mem[g] /\ seen'[g] = seen[g] /\ loaded'[g] = loaded[g]
  BY StoppedLeaves
<1>2. TypeOK'
  <2>1. CopyTypes'
    BY StoppedLeaves, TypesOfParts DEF CopyTypes, Stopped
  <2>2. PlaceTypes'
    BY StoppedLeaves, TypesOfParts DEF PlaceTypes, Stopped
  <2>3. HistoryTypes'
    BY StoppedLeaves, TypesOfParts DEF HistoryTypes, Stopped
  <2> QED
    BY <2>1, <2>2, <2>3, TypesOfPartsNext
<1>3. LockInv'
  BY StoppedLeaves DEF LockInv
<1>4. CountInv'
  BY <1>1, EmptyIs, Numbers DEF CountInv, CountedOnce
<1>5. PendingInv'
  <2>1. PendingExact'
    BY DEF PendingInv, PendingExact
  <2>2. ASSUME NEW g \in Hooks, NEW k \in Entries, Own(g, k)' PROVE Alone(g, k)'
    <3>1. g # h
      BY <1>1, <2>2, EmptyIs DEF Own
    <3>2. Alone(g, k)
      BY <1>1, <2>2, <3>1 DEF Own, PendingInv
    <3> QED
      BY <1>1, <3>1, <3>2, EmptyIs DEF Alone
  <2> QED
    BY <2>1, <2>2 DEF PendingInv
<1>6. EpochInv'
  <2>1. Empty.epoch <= now /\ Empty.ranges = {}
    BY EmptyIs, Numbers
  <2> QED
    BY <1>1, <2>1 DEF EpochInv, CopyOK, Stopped
<1> QED
  BY <1>2, <1>3, <1>4, <1>5, <1>6

\* The steps that end a hook without a save.
LEMMA Stops ==
  ASSUME IInv, NEW h \in Hooks, SkipSave(h) \/ SaveFails(h) \/ Die(h)
  PROVE  Stopped(h) /\ UNCHANGED <<disk, counted, landed, taken, bare>>
<1> USE DEF IInv
<1>1. CASE SkipSave(h)
  <2>1. section # h /\ UNCHANGED section
          /\ answer' \in [Hooks -> {"none", "ran", "contended", "unlockable"}]
    BY <1>1 DEF SkipSave, Lock!Refuse, TypeOK
  <2> QED
    BY <1>1, <2>1 DEF SkipSave, Ends, Stopped, TypeOK
<1>2. CASE SaveFails(h)
  <2>1. section' = (IF section = h THEN Null ELSE section)
          /\ answer' \in [Hooks -> {"none", "ran", "contended", "unlockable"}]
    BY <1>2 DEF SaveFails, LeaveLock, Lock!Leave, TypeOK
  <2>2. faults' \in 0..MaxFaults
    BY <1>2, ConstantsAssumption DEF SaveFails, Spend, TypeOK
  <2> QED
    BY <1>2, <2>1, <2>2 DEF SaveFails, Ends, Stopped
<1>3. CASE Die(h)
  <2>1. section' = (IF section = h THEN Null ELSE section)
          /\ answer' \in [Hooks -> {"none", "ran", "contended", "unlockable"}]
    BY <1>3 DEF Die, Lock!Die, TypeOK
  <2>2. faults' \in 0..MaxFaults
    BY <1>3, ConstantsAssumption DEF Die, Spend, TypeOK
  <2> QED
    BY <1>3, <2>1, <2>2 DEF Die, Stopped
<1> QED
  BY <1>1, <1>2, <1>3

\* A save that is written ends the hook, too.
LEMMA WriteStops == ASSUME IInv, NEW h \in Hooks, Write(h) PROVE Stopped(h)
<1>1. section' = (IF section = h THEN Null ELSE section)
        /\ answer' \in [Hooks -> {"none", "ran", "contended", "unlockable"}]
  BY DEF Write, LeaveLock, Lock!Leave, IInv, TypeOK
<1> QED
  BY <1>1 DEF Write, Ends, Stopped, IInv, TypeOK

\* A merge of what is on disk, under the lock and as long as every save had it, brings
\* the reads of h to the counter and what h left and took to the entries.
LEMMA WriteStep == ASSUME IInv, NEW h \in Hooks, Write(h) PROVE IInv'
<1> USE DEF IInv
<1> DEFINE d == seen[h]
           m == mem[h]
           s == Merge(d, m, h)
           new == Larger(0, m.reads - loaded[h].reads)
<1>1. Stopped(h)
  BY WriteStops
<1>2. d \in Session /\ m \in Session /\ CopyTypes
  BY TypesOfParts DEF CopyTypes
<1>3. /\ d.reads \in Nat /\ m.reads \in Nat /\ loaded[h].reads \in Nat
      /\ d.pending \in SUBSET Entries /\ m.pending \in SUBSET Entries
      /\ loaded[h].pending \in SUBSET Entries /\ counted \in Nat
  BY <1>2, Fields DEF TypeOK
<1>4. new \in Nat /\ (m.reads >= loaded[h].reads => new = m.reads - loaded[h].reads)
        /\ new >= m.reads - loaded[h].reads
  BY <1>3 DEF Larger
<1>5. /\ disk' = s
      /\ counted' = counted + new
      /\ landed' = landed \cup (m.pending \ loaded[h].pending)
      /\ taken' = taken \cup (loaded[h].pending \ m.pending)
      /\ bare' = (bare \/ section # h)
  BY DEF Write
<1>6. ~bare' => ~bare /\ d = disk
  BY <1>5 DEF LockInv
<1>7. /\ s \in Session /\ s.reads = MergedReads(d, m, h) /\ s.pending = MergedPending(d, m, h)
      /\ s.epoch = Larger(d.epoch, m.epoch)
      /\ \A r \in s.ranges :
           (r \in d.ranges /\ d.epoch = s.epoch) \/ (r \in m.ranges /\ m.epoch = s.epoch)
  BY <1>2, MergeIs
<1>8. CopyOK(s)
  <2>1. CopyOK(d) /\ CopyOK(m)
    BY DEF EpochInv
  <2>2. s.epoch \in {d.epoch, m.epoch}
    BY <1>2, <1>7, Numbers DEF Larger
  <2> HIDE DEF s, d, m
  <2> QED
    BY <1>7, <2>1, <2>2 DEF CopyOK
<1>9. s.reads = IF d.reads = 0 THEN m.reads ELSE d.reads + new
  BY <1>7 DEF MergedReads
<1>10. s.pending = (d.pending \ (loaded[h].pending \ m.pending)) \cup (m.pending \ loaded[h].pending)
  BY <1>7 DEF MergedPending
<1> HIDE DEF s, new
<1>11. /\ mem' \in [Hooks -> Session] /\ mem'[h] = Empty
       /\ seen' \in [Hooks -> Session] /\ seen'[h] = Empty
       /\ loaded' \in [Hooks -> Started] /\ loaded'[h] = Fresh
       /\ \A g \in Hooks \ {h} : mem'[g] = mem[g] /\ seen'[g] = seen[g] /\ loaded'[g] = loaded[g]
  BY <1>1, StoppedLeaves
<1>12. TypeOK'
  <2>1. CopyTypes'
    BY <1>1, <1>5, <1>7, StoppedLeaves, TypesOfParts DEF CopyTypes, Stopped
  <2>2. PlaceTypes'
    BY <1>1, StoppedLeaves, TypesOfParts DEF PlaceTypes, Stopped
  <2>3. counted' \in Nat /\ landed' \subseteq Entries /\ taken' \subseteq Entries /\ bare' \in BOOLEAN
    BY <1>3, <1>4, <1>5 DEF TypeOK
  <2>4. HistoryTypes'
    BY <1>1, <2>3, StoppedLeaves, TypesOfParts DEF HistoryTypes, Stopped
  <2> QED
    BY <2>1, <2>2, <2>4, TypesOfPartsNext
<1>13. LockInv'
  <2>1. ASSUME NEW g \in Hooks, section' = g PROVE pc'[g] = "merge" /\ bare'
    <3>1. g # h /\ section = g /\ pc'[g] = pc[g]
      BY <1>1, <2>1, StoppedLeaves
    <3> QED
      BY <1>5, <3>1 DEF LockInv
  <2> QED
    BY <2>1 DEF LockInv
<1>14. CountInv'
  <2>1. d.reads <= counted /\ loaded[h].reads <= counted
    BY DEF CountInv
  <2>2. s.reads <= counted'
    BY <1>3, <1>4, <1>5, <1>9, <2>1
  <2>3. ~bare' => s.reads = counted'
    BY <1>3, <1>4, <1>5, <1>6, <1>9, <2>1 DEF CountInv, CountedOnce
  <2>4. ASSUME NEW g \in Hooks PROVE loaded'[g].reads <= counted' /\ seen'[g].reads <= counted'
    <3>1. counted <= counted'
      BY <1>3, <1>4, <1>5
    <3>2. CASE g = h
      BY <1>3, <1>5, <1>4, <1>11, <3>2, EmptyIs
    <3>3. CASE g # h
      <4>1. seen[g].reads \in Nat /\ loaded[g].reads \in Nat /\ counted' \in Nat
        BY <1>3, <1>4, <1>5, Fields DEF TypeOK
      <4> QED
        BY <1>3, <1>11, <3>1, <3>3, <4>1 DEF CountInv
    <3> QED
      BY <3>2, <3>3
  <2> QED
    BY <1>5, <2>2, <2>3, <2>4 DEF CountInv, CountedOnce
<1>15. PendingInv'
  <2>1. \A k \in Entries : Own(h, k) => Alone(h, k)
    BY DEF PendingInv
  <2>2. PendingExact'
    <3>1. ASSUME ~bare' PROVE disk'.pending = landed' \ taken'
      <4>1. d.pending = landed \ taken /\ ~bare
        BY <1>6, <3>1 DEF PendingInv, PendingExact
      <4>2. \A k \in m.pending \ loaded[h].pending : k \notin taken
        BY <1>3, <2>1 DEF Own, Alone
      <4> QED
        BY <1>5, <1>10, <4>1, <4>2
    <3> QED
      BY <3>1 DEF PendingExact
  <2>3. ASSUME NEW g \in Hooks, NEW k \in Entries, Own(g, k)' PROVE Alone(g, k)'
    <3>1. g # h
      BY <1>11, <2>3, EmptyIs DEF Own
    <3>2. Own(g, k) /\ Alone(g, k)
      BY <1>11, <2>3, <3>1 DEF Own, PendingInv
    <3>3. k \notin d.pending /\ k \notin m.pending /\ k \notin loaded[h].pending
      BY <3>1, <3>2 DEF Alone
    <3>4. k \notin disk'.pending /\ k \notin landed' /\ k \notin taken'
      BY <1>5, <1>10, <3>2, <3>3 DEF Alone
    <3> QED
      BY <1>11, <3>1, <3>2, <3>4, EmptyIs DEF Alone
  <2> QED
    BY <2>2, <2>3 DEF PendingInv
<1>16. EpochInv'
  <2>1. Empty.epoch <= now /\ Empty.ranges = {}
    BY EmptyIs, Numbers
  <2>2. now' = now /\ epochFile' = epochFile
    BY <1>1 DEF Stopped
  <2> QED
    BY <1>5, <1>8, <1>11, <2>1, <2>2 DEF EpochInv, CopyOK
<1> QED
  BY <1>12, <1>13, <1>14, <1>15, <1>16

\* Every step keeps the invariant.
LEMMA Invariant == ASSUME IInv, [Next]_vars PROVE IInv'
<1>1. ASSUME NEW h \in Hooks, HookStep(h) PROVE IInv'
  <2>1. CASE Load(h)
    BY <2>1, LoadStep
  <2>2. CASE ApplySessionCompaction(h)
    BY <2>2, ApplyStep
  <2>3. CASE ReadFile(h) \/ ReadRefused(h) \/ ReadRange(h) \/ EditFile(h) \/ Leave(h) \/ Take(h)
               \/ Compact(h)
    BY <2>3, Works, WorkedStep
  <2>4. CASE Publish(h)
    BY <2>4, PublishStep
  <2>5. CASE SaveLocked(h) \/ SaveBare(h)
    BY <2>5, RereadStep
  <2>6. CASE SkipSave(h) \/ SaveFails(h) \/ Die(h)
    BY <2>6, Stops, StopStep
  <2>7. CASE Write(h)
    BY <2>7, WriteStep
  <2> QED
    BY <1>1, <2>1, <2>2, <2>3, <2>4, <2>5, <2>6, <2>7 DEF HookStep
<1>2. CASE FileChanges
  <2>1. version' \in Versions
    BY <1>2, ConstantsAssumption DEF FileChanges, IInv, TypeOK, Versions
  <2> QED
    BY <1>2, <2>1 DEF FileChanges, store, history, IInv, TypeOK, LockInv, CountInv, CountedOnce,
      PendingInv, PendingExact, Own, Alone, EpochInv, CopyOK
<1>3. CASE UNCHANGED vars
  BY <1>3 DEF vars, store, history, IInv, TypeOK, LockInv, CountInv, CountedOnce,
    PendingInv, PendingExact, Own, Alone, EpochInv, CopyOK
<1> QED
  BY <1>1, <1>2, <1>3 DEF Next

\* The invariant holds at first.
LEMMA Initially == ASSUME Init PROVE IInv
<1>1. 0 \in Epochs /\ 1 \in 1..(MaxCompactions + 1) /\ 0 \in Versions /\ 0 \in 0..MaxFaults
  BY ConstantsAssumption DEF Epochs, Versions
<1>2. TypeOK
  <2>1. CopyTypes
    BY <1>1, EmptyIs DEF Init, CopyTypes
  <2>2. PlaceTypes
    BY <1>1 DEF Init, PlaceTypes, Pcs, Lock!Init
  <2>3. HistoryTypes
    BY <1>1 DEF Init, HistoryTypes
  <2> QED
    BY <2>1, <2>2, <2>3, TypesOfParts
<1>3. LockInv
  BY ConstantsAssumption DEF Init, LockInv, Lock!Init
<1>4. CountInv
  BY EmptyIs DEF Init, CountInv, CountedOnce
<1>5. PendingInv
  BY EmptyIs DEF Init, PendingInv, PendingExact, Own
<1>6. EpochInv
  BY EmptyIs DEF Init, EpochInv, CopyOK
<1> QED
  BY <1>2, <1>3, <1>4, <1>5, <1>6 DEF IInv

\* The invariant is one of every behaviour.
LEMMA AlwaysIInv == Spec => []IInv
<1>1. Init => IInv
  BY Initially
<1>2. IInv /\ [Next]_vars => IInv'
  BY Invariant
<1> QED
  BY <1>1, <1>2, PTL DEF Spec

\* Every variable always holds a value of its type.
THEOREM TypeCorrect == Spec => []TypeOK
<1>1. IInv => TypeOK
  BY DEF IInv
<1> QED
  BY <1>1, AlwaysIInv, PTL

\* Reads of overlapping hooks are counted once each, see CountedOnce.
THEOREM ReadsCountedOnce == Spec => []CountedOnce
<1>1. IInv => CountedOnce
  BY DEF IInv, CountInv
<1> QED
  BY <1>1, AlwaysIInv, PTL

\* What a hook left stays until it is taken, and then stays away, see PendingExact.
THEOREM EntriesExact == Spec => []PendingExact
<1>1. IInv => PendingExact
  BY DEF IInv, PendingInv
<1> QED
  BY <1>1, AlwaysIInv, PTL

\* No range comes back from before a compaction, see RangesInEpoch.
THEOREM RangesStayInEpoch == Spec => []RangesInEpoch
<1>1. IInv => RangesInEpoch
  BY DEF IInv, EpochInv, CopyOK, RangesInEpoch
<1> QED
  BY <1>1, AlwaysIInv, PTL

-----------------------------------------------------------------------------
(***************************************************************************)
(* When no hook reads the epoch file half-written, it has the last          *)
(* compaction that is known, and every hook that began since knows of it.   *)
(***************************************************************************)

KnowsInv ==
  /\ KnowsCompaction
  /\ \A h \in Hooks : due[h] <= known
  /\ Publishing \/ known <= epochFile
  /\ \A h \in Hooks : pc[h] = "publish" => mem[h].epoch = now /\ compactor = h
  /\ known <= now

\* It is kept by every step.
LEMMA KnowsStep ==
  ASSUME Torn = FALSE, IInv, KnowsInv, [Next]_vars PROVE KnowsInv'
<1>0. /\ now \in Nat /\ epochFile \in Nat /\ known \in Nat /\ epochFile <= now
      /\ \A h \in Hooks : mem[h].epoch \in Nat /\ due[h] \in Nat /\ mem[h].epoch <= now
  BY Numbers DEF IInv, TypeOK, EpochInv, CopyOK
<1>1. ASSUME NEW h \in Hooks, Load(h) PROVE KnowsInv'
  <2>1. /\ \A g \in Hooks \ {h} : mem'[g] = mem[g] /\ pc'[g] = pc[g] /\ due'[g] = due[g]
        /\ pc'[h] = "epoch" /\ due'[h] = known /\ pc[h] = "idle"
        /\ UNCHANGED <<epochFile, now, compactor, known>>
    BY <1>1 DEF Load, Import, Goes, IInv, TypeOK
  <2>2. Publishing' <=> Publishing
    BY <2>1 DEF Publishing
  <2> QED
    BY <1>0, <2>1, <2>2 DEF KnowsInv, KnowsCompaction
<1>2. ASSUME NEW h \in Hooks, ApplySessionCompaction(h) PROVE KnowsInv'
  <2>1. mem[h] \in Session /\ epochFile \in Epochs
    BY DEF IInv, TypeOK
  <2>2. MarkCompacted(mem[h], epochFile).epoch >= epochFile
    BY <2>1, MarkCompactedIs
  <2>3. /\ \A g \in Hooks \ {h} : mem'[g] = mem[g] /\ pc'[g] = pc[g]
        /\ pc'[h] = "ready" /\ pc[h] = "epoch" /\ mem'[h].epoch >= epochFile
        /\ UNCHANGED <<epochFile, now, compactor, known, due>>
    BY <1>2, <2>2 DEF ApplySessionCompaction, Goes, history, IInv, TypeOK
  <2>4. ~Publishing /\ ~Publishing'
    BY <1>2, <2>3 DEF ApplySessionCompaction, Publishing
  <2>5. mem'[h].epoch \in Nat
    <3>1. mem'[h] = MarkCompacted(mem[h], epochFile)
      BY <1>2 DEF ApplySessionCompaction, IInv, TypeOK
    <3>2. MarkCompacted(mem[h], epochFile) \in Session
      BY <2>1, MarkCompactedIs
    <3> QED
      BY <3>1, <3>2, Numbers DEF IInv
  <2>6. mem'[h].epoch >= due[h]
    BY <1>0, <2>3, <2>4, <2>5 DEF KnowsInv
  <2> QED
    BY <1>0, <2>3, <2>4, <2>6 DEF KnowsInv, KnowsCompaction
<1>3. ASSUME NEW h \in Hooks, NEW s \in Session, Worked(h, s) PROVE KnowsInv'
  <2>1. /\ mem'[h] = s /\ pc[h] = "ready" /\ s.epoch >= mem[h].epoch /\ s.epoch \in Nat
        /\ \A g \in Hooks \ {h} : mem'[g] = mem[g] /\ pc'[g] = pc[g]
        /\ known' = known /\ due' = due
    BY <1>3, Numbers DEF Worked, Goes, IInv, TypeOK
  <2>2. mem'[h].epoch >= due'[h]
    BY <1>0, <2>1 DEF KnowsInv, KnowsCompaction
  <2>3. CASE UNCHANGED <<now, epochFile, compactor>> /\ Goes(h, "done")
    <3>1. pc'[h] = "done"
      BY <2>3 DEF Goes, IInv, TypeOK
    <3>2. Publishing' <=> Publishing
      BY <2>1, <3>1 DEF Publishing
    <3> QED
      BY <2>1, <2>2, <2>3, <3>1, <3>2 DEF KnowsInv, KnowsCompaction
  <2>4. CASE /\ compactor = Null /\ compactor' = h /\ now' = now + 1 /\ s.epoch = now'
             /\ (epochFile' = 0 /\ Goes(h, "publish")) \/ (UNCHANGED epochFile /\ Goes(h, "done"))
    <3>1. \A g \in Hooks : pc[g] # "publish"
      BY <2>4, ConstantsAssumption DEF KnowsInv
    <3>2. known <= epochFile
      BY <3>1 DEF KnowsInv, Publishing
    <3>3. known' <= now'
      BY <1>0, <2>1, <2>4 DEF KnowsInv
    <3>4. CASE epochFile' = 0 /\ Goes(h, "publish")
      <4>1. pc'[h] = "publish"
        BY <3>4 DEF Goes, IInv, TypeOK
      <4>2. Publishing'
        BY <4>1 DEF Publishing
      <4> QED
        BY <2>1, <2>2, <2>4, <3>1, <3>3, <4>1, <4>2 DEF KnowsInv, KnowsCompaction
    <3>5. CASE UNCHANGED epochFile /\ Goes(h, "done")
      <4>1. pc'[h] = "done"
        BY <3>5 DEF Goes, IInv, TypeOK
      <4> QED
        BY <2>1, <2>2, <3>1, <3>2, <3>3, <3>5, <4>1 DEF KnowsInv, KnowsCompaction
    <3> QED
      BY <2>4, <3>4, <3>5
  <2> QED
    BY <1>3, <2>3, <2>4 DEF Worked
<1>4. ASSUME NEW h \in Hooks, Publish(h) PROVE KnowsInv'
  <2>1. /\ \A g \in Hooks \ {h} : pc'[g] = pc[g]
        /\ pc[h] = "publish" /\ pc'[h] = "done" /\ epochFile' = mem[h].epoch
        /\ UNCHANGED <<mem, now, compactor, known, due>>
    BY <1>4 DEF Publish, Goes, history, IInv, TypeOK
  <2>2. known' <= epochFile'
    BY <1>0, <2>1 DEF KnowsInv
  <2> QED
    BY <2>1, <2>2 DEF KnowsInv, KnowsCompaction
<1>5. ASSUME NEW h \in Hooks, SaveLocked(h) \/ SaveBare(h) PROVE KnowsInv'
  <2>1. /\ \A g \in Hooks \ {h} : pc'[g] = pc[g]
        /\ pc[h] = "done" /\ pc'[h] = "merge"
        /\ UNCHANGED <<mem, epochFile, now, compactor, known, due>>
    BY <1>5 DEF SaveLocked, SaveBare, Reread, Goes, history, IInv, TypeOK
  <2>2. Publishing' <=> Publishing
    BY <2>1 DEF Publishing
  <2> QED
    BY <2>1, <2>2 DEF KnowsInv, KnowsCompaction
<1>6. ASSUME NEW h \in Hooks, Stopped(h) PROVE KnowsInv'
  <2>1. /\ \A g \in Hooks \ {h} : mem'[g] = mem[g] /\ pc'[g] = pc[g] /\ due'[g] = due[g]
        /\ pc'[h] = "idle" /\ due'[h] = 0 /\ pc[h] # "publish"
        /\ UNCHANGED <<epochFile, now>>
        /\ compactor' = IF compactor = h THEN Null ELSE compactor
    BY <1>6 DEF Stopped, Exits, Goes, IInv, TypeOK
  <2>2. Publishing' <=> Publishing
    BY <2>1 DEF Publishing
  <2>3. known' >= known /\ known' <= now /\ known' \in Nat /\ (Publishing' \/ known' <= epochFile')
    <3>1. CASE known' = known
      BY <1>0, <2>1, <2>2, <3>1 DEF KnowsInv
    <3>2. CASE compactor = h /\ epochFile = now /\ known' = now
      BY <1>0, <2>1, <3>2 DEF KnowsInv
    <3> QED
      BY <1>6, <3>1, <3>2 DEF Stopped
  <2>4. \A g \in Hooks : pc'[g] = "publish" => mem'[g].epoch = now' /\ compactor' = g
    BY <2>1 DEF KnowsInv
  <2>5. \A g \in Hooks : due'[g] <= known'
    BY <1>0, <2>1, <2>3 DEF KnowsInv
  <2> QED
    BY <2>1, <2>3, <2>4, <2>5 DEF KnowsInv, KnowsCompaction
<1>7. ASSUME NEW h \in Hooks, HookStep(h) PROVE KnowsInv'
  <2>1. CASE ReadFile(h) \/ ReadRefused(h) \/ ReadRange(h) \/ EditFile(h) \/ Leave(h) \/ Take(h)
               \/ Compact(h)
    BY <1>3, <2>1, Works
  <2>2. CASE SkipSave(h) \/ SaveFails(h) \/ Die(h)
    BY <1>6, <2>2, Stops
  <2>3. CASE Write(h)
    BY <1>6, <2>3, WriteStops
  <2> QED
    BY <1>1, <1>2, <1>4, <1>5, <1>7, <2>1, <2>2, <2>3 DEF HookStep
<1>8. CASE FileChanges \/ UNCHANGED vars
  BY <1>8 DEF FileChanges, vars, store, history, KnowsInv, KnowsCompaction, Publishing
<1> QED
  BY <1>7, <1>8 DEF Next

\* A compaction reaches every later hook, whatever became of its save, see
\* KnowsCompaction, as long as the epoch file is never seen half-written.
THEOREM CompactionKnown == ASSUME Torn = FALSE PROVE Spec => []KnowsCompaction
<1>1. Init => KnowsInv
  BY ConstantsAssumption, EmptyIs DEF Init, KnowsInv, KnowsCompaction, Publishing
<1>2. IInv /\ KnowsInv /\ [Next]_vars => KnowsInv'
  BY KnowsStep
<1>3. KnowsInv => KnowsCompaction
  BY DEF KnowsInv
<1> QED
  BY <1>1, <1>2, <1>3, AlwaysIInv, PTL DEF Spec

=============================================================================
