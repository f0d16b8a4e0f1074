------------------------- MODULE ReconcileSweepProofs -------------------------
(***************************************************************************)
(* Proofs about ReconcileSweep, for any files, any order of the rows, any   *)
(* number of session starts and any number of changes and faults: a sweep   *)
(* recorded as complete left nothing behind, and files that are owed a      *)
(* sweep keep their request.                                                *)
(*                                                                         *)
(* Both rest on one fact about a sweep: what had drifted as it listed was   *)
(* found, or is still to be looked at, unless a listing failed or a budget  *)
(* ended a pass.  It needs that a lap, wherever it begins, has every file.  *)
(***************************************************************************)
EXTENDS ReconcileSweep, SequenceTheorems, TLAPS

\* A sequence rotated after its k-th element has the same elements, each once.
LEMMA RotatedKeeps ==
  ASSUME NEW S, NEW seq \in Seq(S), IsInjective(seq), NEW k \in 1..Len(seq)
  PROVE  /\ RotatedAfter(seq, k) \in Seq(S)
         /\ IsInjective(RotatedAfter(seq, k))
         /\ ToSet(RotatedAfter(seq, k)) = ToSet(seq)
<1> DEFINE n == Len(seq)
           high == SubSeq(seq, k + 1, n)
           low == SubSeq(seq, 1, k)
           lap == high \o low
<1>1. n \in Nat /\ DOMAIN seq = 1..n /\ k \in 1..n /\ \A i \in 1..n : seq[i] \in S
  BY LenProperties, ElementOfSeq
<1>2. /\ high \in Seq(S) /\ Len(high) = n - k
      /\ \A i \in 1..(n - k) : high[i] = seq[k + i]
  <2> HIDE DEF n
  <2>1. k + 1 \in Int /\ n \in Int /\ \A i \in (k + 1)..n : seq[i] \in S
    BY <1>1
  <2>2. /\ high \in Seq(S) /\ Len(high) = IF k + 1 <= n THEN n - (k + 1) + 1 ELSE 0
        /\ \A i \in 1..(n - (k + 1) + 1) : high[i] = seq[k + 1 + i - 1]
    BY <2>1, SubSeqProperties
  <2> HIDE DEF high
  <2> QED
    BY <1>1, <2>2
<1>3. /\ low \in Seq(S) /\ Len(low) = k
      /\ \A i \in 1..k : low[i] = seq[i]
  <2> HIDE DEF n
  <2>1. k \in Int /\ \A i \in 1..k : seq[i] \in S
    BY <1>1
  <2>2. /\ low \in Seq(S) /\ Len(low) = IF 1 <= k THEN k - 1 + 1 ELSE 0
        /\ \A i \in 1..(k - 1 + 1) : low[i] = seq[1 + i - 1]
    BY <2>1, SubSeqProperties
  <2> HIDE DEF low
  <2> QED
    BY <1>1, <2>2
<1>4. /\ lap \in Seq(S) /\ Len(lap) = n /\ DOMAIN lap = 1..n
      /\ \A i \in 1..n : lap[i] = IF i <= n - k THEN seq[k + i] ELSE seq[i - (n - k)]
  <2> HIDE DEF high, low, n
  <2>1. /\ lap \in Seq(S) /\ Len(lap) = Len(high) + Len(low)
        /\ \A i \in 1..(Len(high) + Len(low)) :
             lap[i] = IF i <= Len(high) THEN high[i] ELSE low[i - Len(high)]
    BY <1>2, <1>3, ConcatProperties
  <2> HIDE DEF lap
  <2>2. Len(high) + Len(low) = n
    BY <1>1, <1>2, <1>3
  <2>3. DOMAIN lap = 1..n
    BY <2>1, <2>2, LenProperties
  <2>4. ASSUME NEW i \in 1..n
        PROVE  lap[i] = IF i <= n - k THEN seq[k + i] ELSE seq[i - (n - k)]
    <3>1. lap[i] = IF i <= n - k THEN high[i] ELSE low[i - (n - k)]
      BY <1>2, <2>1, <2>2
    <3>2. CASE i <= n - k
      <4>1. i \in 1..(n - k)
        BY <1>1, <3>2
      <4> QED
        BY <1>2, <3>1, <3>2, <4>1
    <3>3. CASE ~(i <= n - k)
      <4>1. i - (n - k) \in 1..k
        BY <1>1, <3>3
      <4> QED
        BY <1>3, <3>1, <3>3, <4>1
    <3> QED
      BY <3>2, <3>3
  <2> QED
    BY <2>1, <1>2, <1>3, <2>2, <2>3, <2>4
<1>5. RotatedAfter(seq, k) = lap
  BY DEF RotatedAfter
<1> HIDE DEF lap, high, low, n
<1>6. IsInjective(lap)
  <2> SUFFICES ASSUME NEW i \in 1..n, NEW j \in 1..n, lap[i] = lap[j]
               PROVE  i = j
    BY <1>4 DEF IsInjective
  <2>1. \A a, b \in 1..n : seq[a] = seq[b] => a = b
    BY <1>1 DEF IsInjective
  <2> QED
    BY <1>1, <1>4, <2>1, k \in 1..n
<1>7. ToSet(lap) = ToSet(seq)
  <2>1. \A i \in 1..n : \E j \in 1..n : lap[i] = seq[j]
    BY <1>1, <1>4, k \in 1..n
  <2>2. \A j \in 1..n : \E i \in 1..n : lap[i] = seq[j]
    <3> SUFFICES ASSUME NEW j \in 1..n
                 PROVE  \E i \in 1..n : lap[i] = seq[j]
      OBVIOUS
    <3>1. CASE j <= k
      <4>1. j + (n - k) \in 1..n /\ ~(j + (n - k) <= n - k) /\ j + (n - k) - (n - k) = j
        BY <1>1, <3>1, k \in 1..n
      <4> QED
        BY <1>4, <4>1
    <3>2. CASE j > k
      <4>1. j - k \in 1..n /\ j - k <= n - k /\ k + (j - k) = j
        BY <1>1, <3>2, k \in 1..n
      <4> QED
        BY <1>4, <4>1
    <3> QED
      BY <1>1, <3>1, <3>2
  <2>3. ToSet(lap) = {lap[i] : i \in 1..n} /\ ToSet(seq) = {seq[i] : i \in 1..n}
    BY <1>1, <1>4 DEF ToSet
  <2> QED
    BY <2>1, <2>2, <2>3
<1> QED
  BY <1>4, <1>5, <1>6, <1>7, k \in 1..n DEF n

\* A lap, wherever it begins, has each element of its sequence once.
LEMMA LapKeeps ==
  ASSUME NEW S, NEW seq \in Seq(S), IsInjective(seq), NEW point
  PROVE  /\ Lap(seq, point) \in Seq(S)
         /\ IsInjective(Lap(seq, point))
         /\ ToSet(Lap(seq, point)) = ToSet(seq)
<1>1. CASE point \in ToSet(seq)
  <2>1. \E k \in 1..Len(seq) : seq[k] = point
    BY <1>1, LenProperties DEF ToSet
  <2>2. Position(seq, point) \in 1..Len(seq)
    BY <2>1 DEF Position
  <2> QED
    BY <1>1, <2>2, RotatedKeeps DEF Lap
<1>2. CASE point \notin ToSet(seq)
  BY <1>2 DEF Lap
<1> QED
  BY <1>1, <1>2

-----------------------------------------------------------------------------
(***************************************************************************)
(* Types.                                                                   *)
(***************************************************************************)

\* What TypeOK says of a sweep.
SweepOK(sw) ==
  sw \in SweepState /\ IsInjective(sw.lap) /\ sw.due \subseteq ToSet(sw.lap)

\* What TypeOK says of all else.
WorldOK ==
  /\ row \subseteq Files /\ drift \subseteq Files /\ queue \subseteq Files
  /\ cursor \in FileOrNull /\ deletionCursor \in FileOrNull
  /\ {swept, slow, live, claim, gap} \subseteq BOOLEAN
  /\ owed \subseteq Files /\ before \in [Sweepers -> SUBSET Files]
  /\ changes \in Nat /\ starts \in Nat /\ faults \in Nat

\* The type invariant, sweep by sweep.
LEMMA TypeBySweep ==
  TypeOK <=> /\ WorldOK
             /\ sweep \in [Sweepers -> SweepState]
             /\ \A s \in Sweepers : SweepOK(sweep[s])
  BY DEF TypeOK, WorldOK, SweepOK

\* And so after a step.
LEMMA TypeBySweepNext ==
  TypeOK' <=> /\ WorldOK'
              /\ sweep' \in [Sweepers -> SweepState]
              /\ \A s \in Sweepers : SweepOK(sweep'[s])
  BY DEF TypeOK, WorldOK, SweepOK

\* One sweep moves on to a state of its type.
LEMMA SweepsTyped ==
  ASSUME TypeOK, NEW s \in Sweepers, NEW new, SweepOK(new), Sweeps(s, new)
  PROVE  /\ sweep' \in [Sweepers -> SweepState]
         /\ \A t \in Sweepers : SweepOK(sweep'[t])
         /\ sweep'[s] = new
         /\ \A t \in Sweepers \ {s} : sweep'[t] = sweep[t]
<1>1. sweep \in [Sweepers -> SweepState] /\ \A t \in Sweepers : SweepOK(sweep[t])
  BY TypeBySweep
<1>2. new \in SweepState
  BY DEF SweepOK
<1> QED
  BY <1>1, <1>2 DEF Sweeps

\* A sweep that has nothing to look at is of its type.
LEMMA AsleepOK ==
  ASSUME NEW sw \in SweepState, sw.lap = <<>>, sw.due = {}
  PROVE  SweepOK(sw)
  BY DEF SweepOK, IsInjective, ToSet

\* A sweep that is not at work has its type.
LEMMA AsleepTyped == Asleep \in SweepState /\ Asleep.lap = <<>> /\ Asleep.due = {}
<1>1. <<>> \in Seq(Files)
  BY EmptySeq
<1> QED
  BY <1>1 DEF Asleep, SweepState, Stages, FileOrNull

\* What the constants are.
LEMMA ConstantsTyped ==
  /\ \A seq \in {Tracked, Listed, Order} :
       seq \in Seq(Files) /\ IsInjective(seq) /\ ToSet(seq) \subseteq Files
  /\ ToSet(Order) = Files
<1>1. \A seq \in {Tracked, Listed, Order} : seq \in Seq(Files) /\ IsInjective(seq)
  BY ConstantsAssumption
<1>2. ASSUME NEW seq \in Seq(Files)
      PROVE  ToSet(seq) \subseteq Files
  BY LenProperties, ElementOfSeq DEF ToSet
<1> QED
  BY <1>1, <1>2 DEF Files

\* The first state is of its type.
LEMMA InitTypes == Init => TypeOK
<1> SUFFICES ASSUME Init
             PROVE  TypeOK
  OBVIOUS
<1>1. SweepOK(Asleep) /\ Asleep \in SweepState
  BY AsleepOK, AsleepTyped
<1>2. WorldOK
  BY ConstantsTyped DEF Init, WorldOK, FileOrNull
<1> QED
  BY <1>1, <1>2, TypeBySweep DEF Init

\* A sweep begins.
LEMMA BeginsTyped ==
  ASSUME TypeOK, NEW s \in Sweepers, NEW list \in {Tracked, Listed}, Begins(s, list)
  PROVE  /\ sweep' \in [Sweepers -> SweepState]
         /\ \A t \in Sweepers : SweepOK(sweep'[t])
         /\ before' \in [Sweepers -> SUBSET Files] /\ faults' \in Nat
<1>1. WorldOK
  BY TypeBySweep
<1>2. before' \in [Sweepers -> SUBSET Files] /\ faults' \in Nat
  <2>1. faults' \in {faults, faults + 1}
    BY DEF Begins, Spend
  <2>2. before' = [before EXCEPT ![s] = (drift \cap (ToSet(list) \cup row)) \ queue]
    BY DEF Begins
  <2> QED
    BY <1>1, <2>1, <2>2 DEF WorldOK
<1>3. CASE Sweeps(s, [Asleep EXCEPT !.stage = "scan", !.rows = row, !.listed = list,
                        !.lap = Lap(list, cursor), !.due = ToSet(Lap(list, cursor))])
  <2> DEFINE new == [Asleep EXCEPT !.stage = "scan", !.rows = row, !.listed = list,
                       !.lap = Lap(list, cursor), !.due = ToSet(Lap(list, cursor))]
  <2>1. /\ Lap(list, cursor) \in Seq(Files) /\ IsInjective(Lap(list, cursor))
        /\ ToSet(Lap(list, cursor)) = ToSet(list) /\ ToSet(list) \subseteq Files
    BY ConstantsTyped, LapKeeps
  <2>2. /\ new \in SweepState /\ new.lap = Lap(list, cursor)
        /\ new.due = ToSet(Lap(list, cursor))
    BY <1>1, <2>1, AsleepTyped DEF WorldOK, SweepState, Stages
  <2>3. SweepOK(new)
    BY <2>1, <2>2 DEF SweepOK
  <2> HIDE DEF new
  <2> QED
    BY <1>2, <1>3, <2>3, SweepsTyped DEF new
<1>4. CASE \E late \in BOOLEAN :
             Sweeps(s, [Asleep EXCEPT !.stage = "scan", !.rows = row, !.late = late,
                          !.failed = ~late])
  <2> PICK late \in BOOLEAN :
             Sweeps(s, [Asleep EXCEPT !.stage = "scan", !.rows = row, !.late = late,
                          !.failed = ~late])
    BY <1>4
  <2> DEFINE new == [Asleep EXCEPT !.stage = "scan", !.rows = row, !.late = late,
                       !.failed = ~late]
  <2>1. new \in SweepState /\ new.lap = <<>> /\ new.due = {}
    BY <1>1, AsleepTyped DEF WorldOK, SweepState, Stages
  <2>2. SweepOK(new)
    BY <2>1, AsleepOK
  <2> HIDE DEF new
  <2> QED
    BY <1>2, <2>2, SweepsTyped DEF new
<1> QED
  BY <1>3, <1>4 DEF Begins

\* A pass looks at a file.
LEMMA LooksTyped ==
  ASSUME TypeOK, NEW s \in Sweepers, Looks(s)
  PROVE  sweep' \in [Sweepers -> SweepState] /\ \A t \in Sweepers : SweepOK(sweep'[t])
<1> DEFINE sw == sweep[s]
<1>1. PICK f \in sw.due :
        Sweeps(s, [sw EXCEPT !.due = @ \ {f}, !.last = f,
                     !.found = IF f \in drift THEN @ \cup {f} ELSE @])
  BY DEF Looks
<1>2. SweepOK(sw) /\ sw \in SweepState /\ f \in Files
  BY TypeBySweep DEF SweepOK, SweepState
<1>3. ASSUME NEW found \in SUBSET Files
      PROVE  SweepOK([sw EXCEPT !.due = @ \ {f}, !.last = f, !.found = found])
  BY <1>2 DEF SweepOK, SweepState, FileOrNull
<1>4. (IF f \in drift THEN sw.found \cup {f} ELSE sw.found) \in SUBSET Files
  BY <1>2 DEF SweepState
<1> HIDE DEF sw
<1>5. SweepOK([sw EXCEPT !.due = @ \ {f}, !.last = f,
                 !.found = IF f \in drift THEN @ \cup {f} ELSE @])
  BY <1>3, <1>4
<1> QED
  BY <1>1, <1>5, SweepsTyped DEF sw

\* A step of a sweep keeps the types.
LEMMA SweepStepTypes ==
  ASSUME TypeOK, NEW s \in Sweepers, SweepStep(s)
  PROVE  TypeOK'
<1> DEFINE sw == sweep[s]
<1>1. SweepOK(sw) /\ sw \in SweepState /\ WorldOK
  BY TypeBySweep DEF SweepOK
<1>2. /\ sweep \in [Sweepers -> SweepState]
      /\ \A new : SweepOK(new) /\ Sweeps(s, new) =>
           sweep' \in [Sweepers -> SweepState] /\ \A t \in Sweepers : SweepOK(sweep'[t])
  BY SweepsTyped, TypeBySweep
<1>3. ASSUME Looks(s) \/ ScanEnds(s) \/ RowsEnd(s), SweepOnly
      PROVE  WorldOK'
  BY <1>1, <1>3 DEF WorldOK, SweepOnly, IndexKept, kept, requests, Bounds
<1>4. CASE ScanNext(s) \/ RowsNext(s)
  <2>1. Looks(s) /\ SweepOnly
    BY <1>4 DEF ScanNext, RowsNext
  <2> QED
    BY <1>3, <2>1, LooksTyped, TypeBySweepNext
<1>5. CASE ScanEnds(s)
  <2> DEFINE resumed == Candidates(sw) # {} /\ deletionCursor # Null
             scanCut == sw.due # {}
             new == [sw EXCEPT !.stage = "rows", !.lap = RowLap,
                       !.due = ToSet(RowLap) \cap Candidates(sw), !.last = Null, !.rows = {},
                       !.scanCut = scanCut, !.scanLast = sw.last, !.resumed = resumed]
  <2>1. RowLap \in Seq(Files) /\ IsInjective(RowLap) /\ ToSet(RowLap) = Files
    BY ConstantsTyped, LapKeeps DEF RowLap
  <2>2. Candidates(sw) \subseteq Files
    BY <1>1 DEF Candidates, SweepState
  <2>3. /\ new \in SweepState /\ new.lap = RowLap
        /\ new.due = ToSet(RowLap) \cap Candidates(sw)
    <3>1. resumed \in BOOLEAN /\ scanCut \in BOOLEAN /\ sw.last \in FileOrNull
          /\ Null \in FileOrNull /\ "rows" \in Stages
      BY <1>1 DEF SweepState, Stages, FileOrNull
    <3> HIDE DEF resumed, scanCut, sw
    <3> QED
      BY <1>1, <2>1, <2>2, <3>1 DEF SweepState
  <2>4. SweepOK(new)
    BY <2>1, <2>2, <2>3 DEF SweepOK
  <2>5. Sweeps(s, new) /\ SweepOnly
    BY <1>5 DEF ScanEnds
  <2> QED
    BY <1>2, <1>3, <1>5, <2>4, <2>5, TypeBySweepNext
<1>6. CASE RowsEnd(s)
  <2> DEFINE new == [sw EXCEPT !.stage = "enqueue", !.lap = <<>>, !.due = {},
                       !.cut = sw.due # {}]
  <2>1. <<>> \in Seq(Files)
    BY EmptySeq
  <2>2. new \in SweepState /\ new.lap = <<>> /\ new.due = {}
    BY <1>1, <2>1 DEF SweepState, Stages
  <2>3. SweepOK(new)
    BY <2>2, AsleepOK
  <2>4. Sweeps(s, new) /\ SweepOnly
    BY <1>6 DEF RowsEnd
  <2> QED
    BY <1>2, <1>3, <1>6, <2>3, <2>4, TypeBySweepNext
<1>7. CASE Enqueue(s)
  <2>1. SweepOK([sw EXCEPT !.stage = "settle", !.found = {}])
        /\ SweepOK([sw EXCEPT !.stage = "settle", !.failed = TRUE])
    BY <1>1 DEF SweepOK, SweepState, Stages
  <2>2. sw.found \subseteq Files
    BY <1>1 DEF SweepState
  <2>3. faults' \in {faults, faults + 1} /\ queue' \in {queue, queue \cup sw.found}
        /\ owed' \in {owed, owed \ sw.found}
        /\ before' \in {before, [t \in Sweepers |-> before[t] \ sw.found]}
        /\ UNCHANGED <<row, drift, kept, slow, requests, gap, Bounds>>
    BY <1>7 DEF Enqueue, Spend
  <2>4. before' \in [Sweepers -> SUBSET Files]
    BY <1>1, <2>3 DEF WorldOK
  <2>5. WorldOK'
    BY <1>1, <2>2, <2>3, <2>4 DEF WorldOK, kept, requests, Bounds
  <2>6. Sweeps(s, [sw EXCEPT !.stage = "settle", !.found = {}])
        \/ Sweeps(s, [sw EXCEPT !.stage = "settle", !.failed = TRUE])
    BY <1>7 DEF Enqueue
  <2> QED
    BY <1>2, <2>1, <2>5, <2>6, TypeBySweepNext
<1>8. CASE Settle(s)
  <2> DEFINE new == [Asleep EXCEPT !.stage = IF s = Worker THEN "release" ELSE "hand",
                       !.late = sw.late, !.again = BudgetExhausted(sw) \/ sw.late,
                       !.failed = sw.failed]
  <2>1. BudgetExhausted(sw) \in BOOLEAN /\ Complete(sw) \in BOOLEAN
    BY <1>1 DEF SweepState, BudgetExhausted, Complete
  <2>2. new \in SweepState /\ new.lap = <<>> /\ new.due = {}
    BY <1>1, <2>1, AsleepTyped DEF SweepState, Stages
  <2>3. SweepOK(new)
    BY <2>2, AsleepOK
  <2>4. cursor' \in FileOrNull /\ deletionCursor' \in FileOrNull
    BY <1>1, <1>8 DEF Settle, Resume, SweepState, WorldOK, FileOrNull
  <2>5. swept' \in BOOLEAN
    BY <1>1, <1>8, <2>1 DEF Settle, WorldOK
  <2>6. before' \in [Sweepers -> SUBSET Files]
    BY <1>1, <1>8 DEF Settle, WorldOK
  <2>7. WorldOK'
    BY <1>1, <1>8, <2>4, <2>5, <2>6 DEF Settle, WorldOK, requests, Bounds
  <2>8. Sweeps(s, new)
    BY <1>8 DEF Settle
  <2> QED
    BY <1>2, <2>3, <2>7, <2>8, TypeBySweepNext
<1> QED
  BY <1>4, <1>5, <1>6, <1>7, <1>8 DEF SweepStep

\* A sweep moves on, and the world keeps its types.
LEMMA MovesTypes ==
  ASSUME TypeOK, NEW s \in Sweepers, NEW new, SweepOK(new), Sweeps(s, new), WorldOK'
  PROVE  TypeOK'
  BY SweepsTyped, TypeBySweepNext

\* What is left of a sweep that is over is of its type.
LEMMA AsleepVariants ==
  /\ SweepOK(Asleep)
  /\ \A stage \in Stages : SweepOK([Asleep EXCEPT !.stage = stage])
  /\ \A stage \in Stages, failed \in BOOLEAN :
       SweepOK([Asleep EXCEPT !.stage = stage, !.failed = failed])
  /\ \A stage \in Stages, again, failed \in BOOLEAN :
       SweepOK([Asleep EXCEPT !.stage = stage, !.again = again, !.failed = failed])
<1> USE AsleepTyped, AsleepOK DEF SweepState
<1>1. SweepOK(Asleep)
  OBVIOUS
<1>2. ASSUME NEW stage \in Stages, NEW again \in BOOLEAN, NEW failed \in BOOLEAN
      PROVE  /\ SweepOK([Asleep EXCEPT !.stage = stage])
             /\ SweepOK([Asleep EXCEPT !.stage = stage, !.failed = failed])
             /\ SweepOK([Asleep EXCEPT !.stage = stage, !.again = again, !.failed = failed])
  <2>1. SweepOK([Asleep EXCEPT !.stage = stage])
    OBVIOUS
  <2>2. SweepOK([Asleep EXCEPT !.stage = stage, !.failed = failed])
    OBVIOUS
  <2>3. SweepOK([Asleep EXCEPT !.stage = stage, !.again = again, !.failed = failed])
    OBVIOUS
  <2> QED
    BY <2>1, <2>2, <2>3
<1> QED
  BY <1>1, <1>2

\* A session start keeps the types.
LEMMA StartTypes ==
  ASSUME TypeOK, NEW s \in Hooks, Start(s)
  PROVE  TypeOK'
<1>1. WorldOK /\ s \in Sweepers
  BY TypeBySweep DEF Sweepers
<1>2. UNCHANGED <<row, drift, queue, kept, slow, claim, gap, changes>> /\ starts' = starts + 1
  BY DEF Start
<1>3. CASE slow /\ Requests /\ UNCHANGED <<sweep, before, faults>>
  <2>1. WorldOK'
    BY <1>1, <1>2, <1>3 DEF WorldOK, Requests, kept
  <2> QED
    BY <1>3, <2>1, TypeBySweep, TypeBySweepNext
<1>4. CASE Begins(s, Tracked) /\ UNCHANGED <<live, owed>>
  <2>1. /\ sweep' \in [Sweepers -> SweepState]
        /\ \A t \in Sweepers : SweepOK(sweep'[t])
        /\ before' \in [Sweepers -> SUBSET Files] /\ faults' \in Nat
    BY <1>1, <1>4, BeginsTyped
  <2>2. WorldOK'
    BY <1>1, <1>2, <1>4, <2>1 DEF WorldOK, kept
  <2> QED
    BY <2>1, <2>2, TypeBySweepNext
<1> QED
  BY <1>3, <1>4 DEF Start

\* The end of a session start keeps the types.
LEMMA HandTypes ==
  ASSUME TypeOK, NEW s \in Hooks, Hand(s)
  PROVE  TypeOK'
<1>1. WorldOK /\ s \in Sweepers /\ sweep[s] \in SweepState
  BY TypeBySweep DEF Sweepers, SweepOK
<1>2. /\ live' \in BOOLEAN /\ owed' \in {owed, owed \cup ((drift \cap Reach) \ queue)}
      /\ faults' \in {faults, faults + 1}
  BY <1>1 DEF Hand, Requests, Spend, WorldOK
<1>3. slow' \in BOOLEAN
  BY <1>1 DEF Hand, SweepState
<1>4. UNCHANGED <<row, drift, queue, kept, claim, before, gap, Bounds>>
  BY DEF Hand
<1>5. WorldOK'
  BY <1>1, <1>2, <1>3, <1>4 DEF WorldOK, kept, Bounds
<1>6. Sweeps(s, Asleep)
  BY DEF Hand
<1> QED
  BY <1>1, <1>5, <1>6, MovesTypes, AsleepVariants DEF Stages

\* The worker's own steps keep the types.
LEMMA WorkerTypes ==
  ASSUME TypeOK, Claim \/ Ask \/ WorkerList \/ Throws \/ Release \/ PutBack
  PROVE  TypeOK'
<1>1. WorldOK /\ Worker \in Sweepers /\ sweep[Worker] \in SweepState
  BY TypeBySweep DEF Sweepers, SweepOK
<1>2. CASE Claim
  <2>1. WorldOK'
    BY <1>1, <1>2 DEF Claim, WorldOK, IndexKept, kept, Bounds
  <2>2. Sweeps(Worker, [Asleep EXCEPT !.stage = "ask"])
    BY <1>2 DEF Claim
  <2> QED
    BY <1>1, <2>1, <2>2, MovesTypes, AsleepVariants DEF Stages
<1>3. CASE Ask
  <2>1. faults' \in {faults, faults + 1}
    BY <1>3 DEF Ask, Spend
  <2>2. IndexKept /\ UNCHANGED <<kept, slow, requests, gap, Bounds>>
    BY <1>3 DEF Ask
  <2>3. WorldOK'
    BY <1>1, <2>1, <2>2 DEF WorldOK, IndexKept, kept, requests, Bounds
  <2>4. \/ Sweeps(Worker, [Asleep EXCEPT !.stage = "list"])
        \/ \E unfinished \in BOOLEAN :
             Sweeps(Worker, [Asleep EXCEPT !.stage = "release", !.again = unfinished,
                               !.failed = ~unfinished])
    BY <1>3 DEF Ask
  <2> QED
    BY <1>1, <2>3, <2>4, MovesTypes, AsleepVariants DEF Stages
<1>4. CASE WorkerList
  <2>1. /\ sweep' \in [Sweepers -> SweepState]
        /\ \A t \in Sweepers : SweepOK(sweep'[t])
        /\ before' \in [Sweepers -> SUBSET Files] /\ faults' \in Nat
    BY <1>1, <1>4, BeginsTyped DEF WorkerList
  <2>2. WorldOK'
    BY <1>1, <1>4, <2>1 DEF WorkerList, WorldOK, kept, requests, Bounds
  <2> QED
    BY <2>1, <2>2, TypeBySweepNext
<1>5. CASE Throws
  <2>1. WorldOK'
    BY <1>1, <1>5 DEF Throws, Spend, WorldOK, kept, requests, Bounds
  <2>2. Sweeps(Worker, [Asleep EXCEPT !.stage = "release", !.failed = TRUE])
    BY <1>5 DEF Throws
  <2> QED
    BY <1>1, <2>1, <2>2, MovesTypes, AsleepVariants DEF Stages
<1>6. CASE Release
  <2>1. claim' \in BOOLEAN /\ faults' \in {faults, faults + 1} /\ owed' \in {owed, {}}
    BY <1>6 DEF Release, Spend, GivesUp
  <2>2. WorldOK'
    BY <1>1, <1>6, <2>1 DEF Release, WorldOK, kept, Bounds
  <2>3. \/ Sweeps(Worker, [Asleep EXCEPT !.stage = "back"])
        \/ Sweeps(Worker, Asleep)
    BY <1>6 DEF Release
  <2> QED
    BY <1>1, <2>2, <2>3, MovesTypes, AsleepVariants DEF Stages
<1>7. CASE PutBack
  <2>1. live' \in BOOLEAN /\ faults' \in {faults, faults + 1} /\ owed' \in {owed, {}}
    BY <1>1, <1>7 DEF PutBack, Spend, GivesUp, WorldOK
  <2>2. WorldOK'
    BY <1>1, <1>7, <2>1 DEF PutBack, WorldOK, kept, Bounds
  <2>3. Sweeps(Worker, Asleep)
    BY <1>7 DEF PutBack
  <2> QED
    BY <1>1, <2>2, <2>3, MovesTypes, AsleepVariants DEF Stages
<1> QED
  BY <1>2, <1>3, <1>4, <1>5, <1>6, <1>7

\* The death of a sweeper keeps the types.
LEMMA KilledTypes ==
  ASSUME TypeOK, NEW s \in Sweepers, Killed(s)
  PROVE  TypeOK'
<1>1. WorldOK
  BY TypeBySweep
<1>2. gap' \in BOOLEAN
  BY <1>1 DEF Killed, WorldOK
<1>3. WorldOK'
  BY <1>1, <1>2 DEF Killed, Spend, WorldOK, kept, requests, Bounds
<1>4. Sweeps(s, Asleep)
  BY DEF Killed
<1> QED
  BY <1>3, <1>4, MovesTypes, AsleepVariants DEF Stages

\* What the world does keeps the types.
LEMMA WorldTypes ==
  ASSUME TypeOK, World
  PROVE  TypeOK'
<1>1. WorldOK
  BY TypeBySweep
<1>2. UNCHANGED sweep
  BY DEF World, Ages, ShellWrites, Change, Drain
<1>3. CASE Ages
  BY <1>1, <1>2, <1>3, TypeBySweep, TypeBySweepNext
     DEF Ages, IndexKept, requests, Bounds, WorldOK
<1>4. CASE ShellWrites
  BY <1>1, <1>2, <1>4, TypeBySweep, TypeBySweepNext
     DEF ShellWrites, Requests, kept, Bounds, WorldOK
<1>5. ASSUME NEW f \in Files, Change(f)
      PROVE  TypeOK'
  BY <1>1, <1>2, <1>5, TypeBySweep, TypeBySweepNext DEF Change, kept, requests, WorldOK
<1>6. ASSUME NEW f \in Files, Drain(f)
      PROVE  TypeOK'
  BY <1>1, <1>2, <1>6, TypeBySweep, TypeBySweepNext DEF Drain, kept, requests, Bounds, WorldOK
<1> QED
  BY <1>3, <1>4, <1>5, <1>6 DEF World

\* Every step keeps the types.
LEMMA NextTypes == TypeOK /\ [Next]_vars => TypeOK'
<1> SUFFICES ASSUME TypeOK, [Next]_vars
             PROVE  TypeOK'
  OBVIOUS
<1>1. ASSUME NEW s \in Hooks, Start(s) \/ SweepStep(s) \/ Hand(s)
      PROVE  TypeOK'
  BY <1>1, StartTypes, HandTypes, SweepStepTypes DEF Sweepers
<1>2. CASE WorkerStep \/ Throws
  BY <1>2, WorkerTypes, SweepStepTypes DEF WorkerStep, Sweepers
<1>3. CASE UNCHANGED vars
  BY <1>3 DEF vars, kept, requests, TypeOK
<1> QED
  BY <1>1, <1>2, <1>3, WorldTypes, KilledTypes DEF Next

\* Whatever the files, the orders and the bounds, every variable keeps its type, and the
\* lap of a pass, rotated or not, has each file once and every file that is due
\* (scanOrder, "always a full permutation" of the listing).
THEOREM TypeInvariant == Spec => []TypeOK
<1>1. Init => TypeOK
  BY InitTypes
<1>2. TypeOK /\ [Next]_vars => TypeOK'
  BY NextTypes
<1> QED
  BY <1>1, <1>2, PTL DEF Spec

-----------------------------------------------------------------------------
(***************************************************************************)
(* Sweeps.                                                                  *)
(***************************************************************************)

\* NothingMissed of a sweep that is in state sw and is to answer for the files b.
Covers(sw, b) ==
  /\ sw.stage \in Sweeping /\ ~BudgetExhausted(sw)
  /\ sw.listed # <<>> \/ ~(sw.late \/ sw.failed)
  => b \subseteq sw.found \cup Ahead(sw)

\* A pass is cut when it ends.  Nothing is due after the passes, nor left in hand when the
\* queue has taken it.
Ends(sw) ==
  /\ sw.stage = "scan" => ~sw.scanCut
  /\ sw.stage \in {"scan", "rows"} => ~sw.cut
  /\ sw.stage \notin {"scan", "rows"} => sw.due = {}
  /\ sw.stage = "settle" => sw.failed \/ sw.found = {}

\* What a sweep is to answer for has drifted still and is not queued.
SweepInv(s) ==
  /\ Covers(sweep[s], before[s]) /\ Ends(sweep[s])
  /\ before[s] \subseteq drift \ queue

\* A sweep that is not at work answers for nothing.
LEMMA AtRest ==
  ASSUME NEW sw, sw.stage \notin Sweeping, sw.due = {}
  PROVE  \A b : Covers(sw, b) /\ Ends(sw)
  BY DEF Covers, Ends, Sweeping

\* One that answers for less answers still.
LEMMA CoversLess ==
  ASSUME NEW sw, NEW b, NEW c \in SUBSET b, Covers(sw, b)
  PROVE  Covers(sw, c)
  BY DEF Covers

\* A sweep that begins has all it answers for ahead of it.
LEMMA BeginsInv ==
  ASSUME TypeOK, NEW s \in Sweepers, NEW list \in {Tracked, Listed}, Begins(s, list)
  PROVE  /\ Covers(sweep'[s], before'[s]) /\ Ends(sweep'[s])
         /\ before'[s] = (drift \cap (ToSet(list) \cup row)) \ queue
         /\ sweep'[s].stage = "scan"
         /\ \A t \in Sweepers \ {s} : sweep'[t] = sweep[t] /\ before'[t] = before[t]
<1>1. before \in [Sweepers -> SUBSET Files] /\ sweep \in [Sweepers -> SweepState]
  BY DEF TypeOK
<1>2. /\ before'[s] = (drift \cap (ToSet(list) \cup row)) \ queue
      /\ \A t \in Sweepers \ {s} : before'[t] = before[t]
  BY <1>1 DEF Begins
<1>3. CASE Sweeps(s, [Asleep EXCEPT !.stage = "scan", !.rows = row, !.listed = list,
                        !.lap = Lap(list, cursor), !.due = ToSet(Lap(list, cursor))])
  <2> DEFINE new == [Asleep EXCEPT !.stage = "scan", !.rows = row, !.listed = list,
                       !.lap = Lap(list, cursor), !.due = ToSet(Lap(list, cursor))]
  <2>1. sweep'[s] = new /\ \A t \in Sweepers \ {s} : sweep'[t] = sweep[t]
    BY <1>1, <1>3 DEF Sweeps
  <2>2. /\ new.stage = "scan" /\ new.due = ToSet(Lap(list, cursor)) /\ new.rows = row
        /\ new.listed = list /\ ~new.scanCut /\ ~new.cut
    BY DEF Asleep
  <2>3. ToSet(Lap(list, cursor)) = ToSet(list)
    BY ConstantsTyped, LapKeeps
  <2> HIDE DEF new
  <2>4. Ahead(new) = ToSet(list) \cup row
    BY <2>2, <2>3 DEF Ahead, Candidates
  <2> QED
    BY <1>2, <2>1, <2>2, <2>4 DEF Covers, Ends
<1>4. CASE \E late \in BOOLEAN :
             Sweeps(s, [Asleep EXCEPT !.stage = "scan", !.rows = row, !.late = late,
                          !.failed = ~late])
  <2> PICK late \in BOOLEAN :
             Sweeps(s, [Asleep EXCEPT !.stage = "scan", !.rows = row, !.late = late,
                          !.failed = ~late])
    BY <1>4
  <2> DEFINE new == [Asleep EXCEPT !.stage = "scan", !.rows = row, !.late = late,
                       !.failed = ~late]
  <2>1. sweep'[s] = new /\ \A t \in Sweepers \ {s} : sweep'[t] = sweep[t]
    BY <1>1 DEF Sweeps
  <2>2. new.stage = "scan" /\ new.listed = <<>> /\ (new.late \/ new.failed)
        /\ ~new.scanCut /\ ~new.cut
    BY DEF Asleep
  <2> HIDE DEF new
  <2> QED
    BY <1>2, <2>1, <2>2 DEF Covers, Ends
<1> QED
  BY <1>3, <1>4 DEF Begins

\* A file that a pass looks at is found, if it is among those to answer for.
LEMMA LooksInv ==
  ASSUME TypeOK, NEW s \in Sweepers, SweepInv(s), Looks(s), UNCHANGED before,
         sweep[s].stage \in {"scan", "rows"}
  PROVE  /\ Covers(sweep'[s], before'[s]) /\ Ends(sweep'[s])
         /\ sweep'[s].stage = sweep[s].stage
         /\ \A t \in Sweepers \ {s} : sweep'[t] = sweep[t]
<1> DEFINE sw == sweep[s]
<1>1. PICK f \in sw.due :
        Sweeps(s, [sw EXCEPT !.due = @ \ {f}, !.last = f,
                     !.found = IF f \in drift THEN @ \cup {f} ELSE @])
  BY DEF Looks
<1> DEFINE found == IF f \in drift THEN sw.found \cup {f} ELSE sw.found
           new == [sw EXCEPT !.due = @ \ {f}, !.last = f, !.found = found]
<1>2. sweep \in [Sweepers -> SweepState] /\ sw \in SweepState
  BY DEF TypeOK
<1>3. sweep'[s] = new /\ \A t \in Sweepers \ {s} : sweep'[t] = sweep[t]
  BY <1>1, <1>2 DEF Sweeps
<1>4. /\ new.due = sw.due \ {f} /\ new.found = found /\ new.stage = sw.stage
      /\ new.rows = sw.rows /\ new.listed = sw.listed /\ new.late = sw.late
      /\ new.failed = sw.failed /\ new.scanCut = sw.scanCut /\ new.cut = sw.cut
  BY <1>2 DEF SweepState
<1> HIDE DEF new
<1>5. before[s] \subseteq drift
  BY DEF SweepInv
<1>6. f \in before[s] => f \in found
  BY <1>5
<1>7. sw.found \subseteq found
  OBVIOUS
<1> HIDE DEF found
<1>8. Covers(new, before[s])
  <2> SUFFICES ASSUME new.stage \in Sweeping, ~BudgetExhausted(new),
                      new.listed # <<>> \/ ~(new.late \/ new.failed)
               PROVE  before[s] \subseteq new.found \cup Ahead(new)
    BY DEF Covers
  <2>1. before[s] \subseteq sw.found \cup Ahead(sw)
    BY <1>4 DEF SweepInv, Covers, BudgetExhausted
  <2>2. Ahead(sw) \subseteq Ahead(new) \cup {f}
    BY <1>4 DEF Ahead, Candidates
  <2> QED
    BY <1>4, <1>6, <1>7, <2>1, <2>2
<1>9. Ends(new)
  BY <1>4 DEF Ends, SweepInv
<1> QED
  BY <1>3, <1>4, <1>8, <1>9

\* The first pass ends: the rows of the second are due.
LEMMA ScanEndsInv ==
  ASSUME TypeOK, NEW s \in Sweepers, SweepInv(s), ScanEnds(s)
  PROVE  /\ Covers(sweep'[s], before[s]) /\ Ends(sweep'[s])
         /\ sweep'[s].stage = "rows"
         /\ \A t \in Sweepers \ {s} : sweep'[t] = sweep[t]
<1> DEFINE sw == sweep[s]
           new == [sw EXCEPT !.stage = "rows", !.lap = RowLap,
                     !.due = ToSet(RowLap) \cap Candidates(sw), !.last = Null, !.rows = {},
                     !.scanCut = sw.due # {}, !.scanLast = sw.last,
                     !.resumed = Candidates(sw) # {} /\ deletionCursor # Null]
<1>1. sweep \in [Sweepers -> SweepState] /\ sw \in SweepState
  BY DEF TypeOK
<1>2. sweep'[s] = new /\ \A t \in Sweepers \ {s} : sweep'[t] = sweep[t]
  BY <1>1 DEF ScanEnds, Sweeps
<1>3. /\ new.stage = "rows" /\ new.due = ToSet(RowLap) \cap Candidates(sw)
      /\ new.found = sw.found /\ new.listed = sw.listed /\ new.late = sw.late
      /\ new.failed = sw.failed /\ new.scanCut = (sw.due # {}) /\ new.cut = sw.cut
  BY <1>1 DEF SweepState
<1> HIDE DEF new
<1>4. Candidates(sw) \subseteq ToSet(RowLap)
  BY <1>1, ConstantsTyped, LapKeeps DEF RowLap, Candidates, SweepState
<1>5. sw.stage = "scan" /\ ~sw.scanCut /\ ~sw.cut
  BY DEF ScanEnds, SweepInv, Ends
<1>6. Covers(new, before[s])
  <2> SUFFICES ASSUME ~BudgetExhausted(new), new.listed # <<>> \/ ~(new.late \/ new.failed)
               PROVE  before[s] \subseteq new.found \cup Ahead(new)
    BY DEF Covers
  <2>1. sw.due = {} /\ Ahead(new) = Candidates(sw)
    BY <1>3, <1>4 DEF BudgetExhausted, Ahead
  <2>2. before[s] \subseteq sw.found \cup Ahead(sw)
    BY <1>3, <1>5 DEF SweepInv, Covers, BudgetExhausted, Sweeping
  <2> QED
    BY <1>3, <1>5, <2>1, <2>2 DEF Ahead
<1>7. Ends(new)
  BY <1>3, <1>5 DEF Ends
<1> QED
  BY <1>2, <1>3, <1>6, <1>7

\* The second pass ends.
LEMMA RowsEndInv ==
  ASSUME TypeOK, NEW s \in Sweepers, SweepInv(s), RowsEnd(s)
  PROVE  /\ Covers(sweep'[s], before[s]) /\ Ends(sweep'[s])
         /\ sweep'[s].stage = "enqueue"
         /\ \A t \in Sweepers \ {s} : sweep'[t] = sweep[t]
<1> DEFINE sw == sweep[s]
           new == [sw EXCEPT !.stage = "enqueue", !.lap = <<>>, !.due = {},
                     !.cut = sw.due # {}]
<1>1. sweep \in [Sweepers -> SweepState] /\ sw \in SweepState
  BY DEF TypeOK
<1>2. sweep'[s] = new /\ \A t \in Sweepers \ {s} : sweep'[t] = sweep[t]
  BY <1>1 DEF RowsEnd, Sweeps
<1>3. /\ new.stage = "enqueue" /\ new.due = {} /\ new.cut = (sw.due # {})
      /\ new.found = sw.found /\ new.listed = sw.listed /\ new.late = sw.late
      /\ new.failed = sw.failed /\ new.scanCut = sw.scanCut
  BY <1>1 DEF SweepState
<1> HIDE DEF new
<1>4. sw.stage = "rows" /\ ~sw.cut
  BY DEF RowsEnd, SweepInv, Ends
<1>5. Covers(new, before[s])
  <2> SUFFICES ASSUME ~BudgetExhausted(new), new.listed # <<>> \/ ~(new.late \/ new.failed)
               PROVE  before[s] \subseteq new.found \cup Ahead(new)
    BY DEF Covers
  <2>1. sw.due = {}
    BY <1>3 DEF BudgetExhausted
  <2>2. before[s] \subseteq sw.found \cup Ahead(sw)
    BY <1>3, <1>4 DEF SweepInv, Covers, BudgetExhausted, Sweeping
  <2> QED
    BY <1>3, <1>4, <2>1, <2>2 DEF Ahead
<1>6. Ends(new)
  BY <1>3 DEF Ends
<1> QED
  BY <1>2, <1>3, <1>5, <1>6

\* What was found is queued, and nobody answers for it any longer.
LEMMA EnqueueInv ==
  ASSUME TypeOK, NEW s \in Sweepers, SweepInv(s), Enqueue(s)
  PROVE  /\ Covers(sweep'[s], before'[s]) /\ Ends(sweep'[s])
         /\ sweep'[s].stage = "settle"
         /\ \A t \in Sweepers \ {s} : sweep'[t] = sweep[t]
         /\ \E found \in SUBSET Files :
              /\ queue' = queue \cup found /\ owed' = owed \ found
              /\ \A t \in Sweepers : before'[t] = before[t] \ found
<1> DEFINE sw == sweep[s]
<1>1. /\ sweep \in [Sweepers -> SweepState] /\ sw \in SweepState
      /\ before \in [Sweepers -> SUBSET Files]
  BY DEF TypeOK
<1>2. sw.stage = "enqueue" /\ sw.due = {} /\ sw.found \in SUBSET Files
  BY <1>1 DEF Enqueue, SweepInv, Ends, SweepState
<1>3. CASE /\ queue' = queue \cup sw.found
           /\ owed' = owed \ sw.found
           /\ before' = [t \in Sweepers |-> before[t] \ sw.found]
           /\ Sweeps(s, [sw EXCEPT !.stage = "settle", !.found = {}])
  <2> DEFINE new == [sw EXCEPT !.stage = "settle", !.found = {}]
  <2>1. sweep'[s] = new /\ \A t \in Sweepers \ {s} : sweep'[t] = sweep[t]
    BY <1>1, <1>3 DEF Sweeps
  <2>2. /\ new.stage = "settle" /\ new.due = sw.due /\ new.found = {}
        /\ new.listed = sw.listed /\ new.late = sw.late /\ new.failed = sw.failed
        /\ new.scanCut = sw.scanCut /\ new.cut = sw.cut
    BY <1>1 DEF SweepState
  <2> HIDE DEF new
  <2>3. Covers(new, before[s] \ sw.found)
    BY <1>2, <2>2 DEF SweepInv, Covers, BudgetExhausted, Ahead, Sweeping
  <2>4. Ends(new)
    BY <1>2, <2>2 DEF Ends
  <2> QED
    BY <1>2, <1>3, <2>1, <2>2, <2>3, <2>4
<1>4. CASE /\ Sweeps(s, [sw EXCEPT !.stage = "settle", !.failed = TRUE])
           /\ sw.found # {} /\ UNCHANGED <<queue, owed, before>>
  <2> DEFINE new == [sw EXCEPT !.stage = "settle", !.failed = TRUE]
  <2>1. sweep'[s] = new /\ \A t \in Sweepers \ {s} : sweep'[t] = sweep[t]
    BY <1>1, <1>4 DEF Sweeps
  <2>2. /\ new.stage = "settle" /\ new.due = sw.due /\ new.found = sw.found
        /\ new.listed = sw.listed /\ new.late = sw.late /\ new.failed = TRUE
        /\ new.scanCut = sw.scanCut /\ new.cut = sw.cut
    BY <1>1 DEF SweepState
  <2> HIDE DEF new
  <2>3. Covers(new, before[s])
    BY <1>2, <2>2 DEF SweepInv, Covers, BudgetExhausted, Ahead, Sweeping
  <2>4. Ends(new)
    BY <1>2, <2>2 DEF Ends
  <2>5. /\ queue' = queue \cup {} /\ owed' = owed \ {}
        /\ \A t \in Sweepers : before'[t] = before[t] \ {}
    BY <1>4
  <2> QED
    BY <1>4, <2>1, <2>2, <2>3, <2>4, <2>5
<1> QED
  BY <1>3, <1>4 DEF Enqueue

\* A sweep that no fault and no budget spoilt has queued all it answered for.
LEMMA SettledClean ==
  ASSUME TypeOK, NEW s \in Sweepers, SweepInv(s), Settle(s), ~BudgetExhausted(sweep[s]),
         sweep[s].found = {},
         sweep[s].listed # <<>> \/ ~(sweep[s].late \/ sweep[s].failed)
  PROVE  before[s] = {}
  BY DEF SweepInv, Settle, Covers, Ends, Ahead, Sweeping

\* The sweep is over.
LEMMA SettleInv ==
  ASSUME TypeOK, NEW s \in Sweepers, SweepInv(s), Settle(s)
  PROVE  /\ Covers(sweep'[s], before'[s]) /\ Ends(sweep'[s])
         /\ before'[s] = {} /\ sweep'[s].stage = IF s = Worker THEN "release" ELSE "hand"
         /\ \A t \in Sweepers \ {s} : sweep'[t] = sweep[t] /\ before'[t] = before[t]
         /\ ~sweep'[s].again /\ ~sweep'[s].failed => before[s] = {}
<1> DEFINE sw == sweep[s]
           new == [Asleep EXCEPT !.stage = IF s = Worker THEN "release" ELSE "hand",
                     !.late = sw.late, !.again = BudgetExhausted(sw) \/ sw.late,
                     !.failed = sw.failed]
<1>1. /\ sweep \in [Sweepers -> SweepState] /\ sw \in SweepState
      /\ before \in [Sweepers -> SUBSET Files]
  BY DEF TypeOK
<1>2. sweep'[s] = new /\ \A t \in Sweepers \ {s} : sweep'[t] = sweep[t]
  BY <1>1 DEF Settle, Sweeps
<1>3. /\ new.stage = (IF s = Worker THEN "release" ELSE "hand") /\ new.due = {}
      /\ new.again = (BudgetExhausted(sw) \/ sw.late) /\ new.failed = sw.failed
  BY DEF Asleep
<1> HIDE DEF new
<1>4. before'[s] = {} /\ \A t \in Sweepers \ {s} : before'[t] = before[t]
  BY <1>1 DEF Settle
<1>5. new.stage \notin Sweeping
  BY <1>3 DEF Sweeping
<1>6. ASSUME ~new.again, ~new.failed
      PROVE  before[s] = {}
  <2>1. sw.found = {}
    BY <1>3, <1>6 DEF Settle, SweepInv, Ends
  <2> QED
    BY <1>3, <1>6, <2>1, SettledClean
<1> QED
  BY <1>2, <1>3, <1>4, <1>5, <1>6, AtRest

\* Every sweep covers what it answers for.
SweepsInv == \A s \in Sweepers : SweepInv(s)

\* What a step of a sweep does to the others, to what is owed and to the requests.
LEMMA SweepStepDoes ==
  ASSUME TypeOK, SweepsInv, NEW s \in Sweepers, SweepStep(s)
  PROVE  /\ SweepsInv'
         /\ \A t \in Sweepers \ {s} : sweep'[t] = sweep[t]
         /\ \E found \in SUBSET Files :
              /\ queue' = queue \cup found /\ owed' = owed \ found
              /\ \A t \in Sweepers \ {s} : before'[t] = before[t] \ found
              /\ \/ sweep'[s].stage \in Sweeping /\ before'[s] = before[s] \ found
                 \/ /\ sweep'[s].stage = (IF s = Worker THEN "release" ELSE "hand")
                    /\ sweep'[s].again \/ sweep'[s].failed \/ before[s] = {}
         /\ sweep[s].stage \in Sweeping
         /\ UNCHANGED <<row, drift, live, claim, gap>>
<1>1. SweepInv(s) /\ before \in [Sweepers -> SUBSET Files]
  BY DEF SweepsInv, TypeOK
<1>2. /\ UNCHANGED <<row, drift, live, claim, gap>>
      /\ sweep[s].stage \in Sweeping
  BY DEF SweepStep, ScanNext, ScanEnds, RowsNext, RowsEnd, Enqueue, Settle, SweepOnly,
     IndexKept, requests, Sweeping
<1>3. CASE ScanNext(s) \/ ScanEnds(s) \/ RowsNext(s) \/ RowsEnd(s)
  <2>1. UNCHANGED <<queue, owed, before>>
    BY <1>3 DEF ScanNext, ScanEnds, RowsNext, RowsEnd, SweepOnly, IndexKept
  <2>2. /\ Covers(sweep'[s], before[s]) /\ Ends(sweep'[s])
        /\ sweep'[s].stage \in Sweeping
        /\ \A t \in Sweepers \ {s} : sweep'[t] = sweep[t]
    BY <1>1, <1>2, <1>3, <2>1, LooksInv, ScanEndsInv, RowsEndInv
       DEF ScanNext, RowsNext, Sweeping
  <2>3. SweepsInv'
    BY <1>2, <2>1, <2>2 DEF SweepsInv, SweepInv
  <2>4. /\ queue' = queue \cup {} /\ owed' = owed \ {}
        /\ \A t \in Sweepers : before'[t] = before[t] \ {}
    BY <2>1
  <2> QED
    BY <1>2, <2>2, <2>3, <2>4
<1>4. CASE Enqueue(s)
  <2>1. /\ Covers(sweep'[s], before'[s]) /\ Ends(sweep'[s])
        /\ sweep'[s].stage = "settle"
        /\ \A t \in Sweepers \ {s} : sweep'[t] = sweep[t]
        /\ \E found \in SUBSET Files :
             /\ queue' = queue \cup found /\ owed' = owed \ found
             /\ \A t \in Sweepers : before'[t] = before[t] \ found
    BY <1>1, <1>4, EnqueueInv
  <2>2. ASSUME NEW t \in Sweepers \ {s}
        PROVE  Covers(sweep'[t], before'[t]) /\ Ends(sweep'[t])
    BY <2>1, CoversLess DEF SweepsInv, SweepInv
  <2>3. \A t \in Sweepers : before'[t] \subseteq drift' \ queue'
    BY <1>2, <2>1 DEF SweepsInv, SweepInv
  <2>4. SweepsInv'
    BY <2>1, <2>2, <2>3 DEF SweepsInv, SweepInv
  <2> QED
    BY <1>2, <2>1, <2>4 DEF Sweeping
<1>5. CASE Settle(s)
  <2>1. /\ Covers(sweep'[s], before'[s]) /\ Ends(sweep'[s])
        /\ before'[s] = {} /\ sweep'[s].stage = IF s = Worker THEN "release" ELSE "hand"
        /\ \A t \in Sweepers \ {s} : sweep'[t] = sweep[t] /\ before'[t] = before[t]
        /\ sweep'[s].again \/ sweep'[s].failed \/ before[s] = {}
    BY <1>1, <1>5, SettleInv
  <2>2. UNCHANGED <<queue, owed>>
    BY <1>5 DEF Settle
  <2>3. SweepsInv'
    BY <1>2, <2>1, <2>2 DEF SweepsInv, SweepInv
  <2>4. /\ queue' = queue \cup {} /\ owed' = owed \ {}
        /\ \A t \in Sweepers \ {s} : before'[t] = before[t] \ {}
    BY <2>1, <2>2
  <2> QED
    BY <1>2, <2>1, <2>3, <2>4
<1> QED
  BY <1>3, <1>4, <1>5 DEF SweepStep

\* A sweeper that begins or stops, while the files and the queue stay as they are.
LEMMA OneMoves ==
  ASSUME SweepsInv, NEW s \in Sweepers, drift \subseteq drift', queue' \subseteq queue,
         \A t \in Sweepers \ {s} : sweep'[t] = sweep[t] /\ before'[t] = before[t],
         Covers(sweep'[s], before'[s]), Ends(sweep'[s]), before'[s] \subseteq drift' \ queue'
  PROVE  SweepsInv'
  BY DEF SweepsInv, SweepInv

\* A sweeper that stops, or has not begun, answers for nothing.
LEMMA Stops ==
  ASSUME TypeOK, NEW s \in Sweepers, NEW new, Sweeps(s, new), new.stage \notin Sweeping,
         new.due = {}
  PROVE  /\ \A t \in Sweepers \ {s} : sweep'[t] = sweep[t]
         /\ sweep'[s] = new
         /\ \A b : Covers(sweep'[s], b) /\ Ends(sweep'[s])
<1>1. /\ \A t \in Sweepers \ {s} : sweep'[t] = sweep[t]
      /\ sweep'[s] = new
  BY DEF Sweeps, TypeOK
<1> QED
  BY <1>1, AtRest

\* What is left of a sweep that is over.
LEMMA AsleepFields ==
  /\ Asleep.stage = "idle" /\ Asleep.due = {}
  /\ \A stage :
       [Asleep EXCEPT !.stage = stage].stage = stage /\ [Asleep EXCEPT !.stage = stage].due = {}
  /\ \A stage, failed :
       LET sw == [Asleep EXCEPT !.stage = stage, !.failed = failed] IN
       sw.stage = stage /\ sw.due = {} /\ sw.failed = failed
  /\ \A stage, again, failed :
       LET sw == [Asleep EXCEPT !.stage = stage, !.again = again, !.failed = failed] IN
       sw.stage = stage /\ sw.due = {} /\ sw.again = again /\ sw.failed = failed
  BY DEF Asleep

\* Files that are owed a sweep have drifted, can be found and are not queued.  The claim
\* stands until the sweeps have run.  While no other request waits, what is owed is
\* among what the worker's sweep is to answer for; when that sweep went well, nothing
\* is owed any longer.
OwedInv ==
  LET sw == sweep[Worker] IN
  /\ owed \subseteq (drift \cap Reach) \ queue
  /\ sw.stage \in {"ask", "list", "release"} \cup Sweeping => claim
  /\ sw.stage \in Sweeping => live \/ owed \subseteq before[Worker]
  /\ sw.stage = "release" => live \/ owed = {} \/ sw.again \/ sw.failed
  /\ RequestKept

\* The inductive invariant.
IInv == TypeOK /\ SweepsInv /\ OwedInv

\* Nothing is owed and no sweep is at work at the start.
LEMMA InitIInv == Init => IInv
<1> SUFFICES ASSUME Init
             PROVE  IInv
  OBVIOUS
<1>1. Worker \in Sweepers /\ "idle" \notin Sweeping
  BY DEF Sweepers, Sweeping
<1>2. \A s \in Sweepers : sweep[s] = Asleep /\ before[s] = {}
  BY DEF Init
<1>3. SweepsInv
  BY <1>1, <1>2, AsleepFields, AtRest DEF SweepsInv, SweepInv
<1>4. OwedInv
  BY <1>1, <1>2, AsleepFields DEF Init, OwedInv, RequestKept
<1> QED
  BY <1>3, <1>4, InitTypes DEF IInv

\* A sweep of anybody keeps what is owed in the worker's charge.
LEMMA SweepStepKeeps ==
  ASSUME IInv, NEW s \in Sweepers, SweepStep(s)
  PROVE  SweepsInv' /\ OwedInv'
<1> USE DEF IInv
<1>1. PICK found \in SUBSET Files :
        /\ queue' = queue \cup found /\ owed' = owed \ found
        /\ \A t \in Sweepers \ {s} : before'[t] = before[t] \ found
        /\ \/ sweep'[s].stage \in Sweeping /\ before'[s] = before[s] \ found
           \/ /\ sweep'[s].stage = (IF s = Worker THEN "release" ELSE "hand")
              /\ sweep'[s].again \/ sweep'[s].failed \/ before[s] = {}
  BY SweepStepDoes
<1>2. /\ SweepsInv' /\ sweep[s].stage \in Sweeping
      /\ UNCHANGED <<row, drift, live, claim, gap>>
      /\ \A t \in Sweepers \ {s} : sweep'[t] = sweep[t]
  BY SweepStepDoes
<1>3. owed' \subseteq (drift' \cap Reach') \ queue'
  BY <1>1, <1>2 DEF OwedInv, Reach
<1>4. CASE s = Worker
  <2>1. claim /\ (live \/ owed \subseteq before[Worker])
    BY <1>2, <1>4 DEF OwedInv
  <2>2. "release" \notin Sweeping
    BY DEF Sweeping
  <2> QED
    BY <1>1, <1>2, <1>3, <1>4, <2>1, <2>2 DEF OwedInv, RequestKept
<1>5. CASE s # Worker
  <2>1. sweep'[Worker] = sweep[Worker] /\ before'[Worker] = before[Worker] \ found
    BY <1>1, <1>2, <1>5 DEF Sweepers
  <2> QED
    BY <1>1, <1>2, <1>3, <2>1 DEF OwedInv, RequestKept
<1> QED
  BY <1>2, <1>4, <1>5

\* What has drifted by now may be owed, for a request waits.
LEMMA RequestsKeep ==
  ASSUME OwedInv, Requests, UNCHANGED <<row, drift, queue, claim, before, gap>>,
         sweep'[Worker] = sweep[Worker]
  PROVE  OwedInv'
  BY DEF OwedInv, Requests, RequestKept, Reach

\* What the world does keeps sweeps and requests.
LEMMA WorldKeeps ==
  ASSUME IInv, World
  PROVE  SweepsInv' /\ OwedInv'
<1> USE DEF IInv
<1>1. UNCHANGED <<sweep, before>>
  BY DEF World, Ages, ShellWrites, Change, Drain, IndexKept
<1>2. CASE Ages
  BY <1>1, <1>2 DEF Ages, IndexKept, requests, SweepsInv, SweepInv, OwedInv, RequestKept, Reach
<1>3. CASE ShellWrites
  <2>1. OwedInv'
    BY <1>1, <1>3, RequestsKeep DEF ShellWrites
  <2> QED
    BY <1>1, <1>3, <2>1 DEF ShellWrites, SweepsInv, SweepInv
<1>4. ASSUME NEW f \in Files, Change(f)
      PROVE  SweepsInv' /\ OwedInv'
  BY <1>1, <1>4 DEF Change, requests, SweepsInv, SweepInv, OwedInv, RequestKept, Reach
<1>5. ASSUME NEW f \in Files, Drain(f)
      PROVE  SweepsInv' /\ OwedInv'
  <2>1. \A b : b \subseteq drift \ queue => b \subseteq drift' \ queue'
    BY <1>5 DEF Drain
  <2>2. UNCHANGED <<live, claim, gap, owed>> /\ Reach \subseteq Reach'
    BY <1>5 DEF Drain, requests, Reach
  <2> QED
    BY <1>1, <2>1, <2>2 DEF SweepsInv, SweepInv, OwedInv, RequestKept
<1> QED
  BY <1>2, <1>3, <1>4, <1>5 DEF World

\* A session start keeps sweeps and requests.
LEMMA HookKeeps ==
  ASSUME IInv, NEW s \in Hooks, Start(s) \/ Hand(s)
  PROVE  SweepsInv' /\ OwedInv'
<1> USE DEF IInv
<1>1. s \in Sweepers /\ Worker \in Sweepers \ {s}
  BY ConstantsAssumption DEF Sweepers
<1>2. UNCHANGED <<row, drift, queue, claim, gap>>
  BY DEF Start, Hand
<1>3. CASE slow /\ Requests /\ UNCHANGED <<sweep, before, faults>>
  <2>1. OwedInv'
    BY <1>2, <1>3, RequestsKeep
  <2> QED
    BY <1>2, <1>3, <2>1 DEF SweepsInv, SweepInv
<1>4. CASE Begins(s, Tracked) /\ UNCHANGED <<live, owed>>
  <2>1. /\ Covers(sweep'[s], before'[s]) /\ Ends(sweep'[s])
        /\ before'[s] = (drift \cap (ToSet(Tracked) \cup row)) \ queue
        /\ \A t \in Sweepers \ {s} : sweep'[t] = sweep[t] /\ before'[t] = before[t]
    BY <1>1, <1>4, BeginsInv
  <2>2. SweepsInv'
    BY <1>1, <1>2, <2>1, OneMoves
  <2> QED
    BY <1>1, <1>2, <1>4, <2>1, <2>2 DEF OwedInv, RequestKept, Reach
<1>5. CASE Hand(s)
  <2>1. Sweeps(s, Asleep) /\ UNCHANGED before
    BY <1>5 DEF Hand
  <2>2. /\ \A t \in Sweepers \ {s} : sweep'[t] = sweep[t]
        /\ \A b : Covers(sweep'[s], b) /\ Ends(sweep'[s])
    BY <1>1, <2>1, AsleepFields, Stops DEF Sweeping
  <2>3. SweepsInv'
    BY <1>2, <2>1, <2>2 DEF SweepsInv, SweepInv
  <2>4. Requests \/ UNCHANGED <<live, owed>>
    BY <1>5 DEF Hand
  <2>5. OwedInv'
    BY <1>1, <1>2, <2>1, <2>2, <2>4, RequestsKeep DEF OwedInv, RequestKept, Reach
  <2> QED
    BY <2>3, <2>5
<1> QED
  BY <1>3, <1>4, <1>5 DEF Start

\* The worker moves on without a sweep at work.
LEMMA WorkerStops ==
  ASSUME TypeOK, SweepsInv, NEW new, Sweeps(Worker, new), new.stage \notin Sweeping,
         new.due = {}, UNCHANGED <<drift, queue>>,
         before' = before \/ before' = [before EXCEPT ![Worker] = {}]
  PROVE  SweepsInv' /\ sweep'[Worker] = new
<1>1. Worker \in Sweepers /\ before \in [Sweepers -> SUBSET Files]
  BY DEF Sweepers, TypeOK
<1>2. /\ \A t \in Sweepers \ {Worker} : sweep'[t] = sweep[t]
      /\ sweep'[Worker] = new
      /\ \A b : Covers(sweep'[Worker], b) /\ Ends(sweep'[Worker])
  BY <1>1, Stops
<1>3. /\ \A t \in Sweepers \ {Worker} : before'[t] = before[t]
      /\ before'[Worker] \in {before[Worker], {}}
  BY <1>1
<1>4. before'[Worker] \subseteq drift \ queue
  BY <1>1, <1>3 DEF SweepsInv, SweepInv
<1> QED
  BY <1>1, <1>2, <1>3, <1>4, OneMoves

\* The same, by what is left of the sweep.
LEMMA WorkerGoes ==
  ASSUME TypeOK, SweepsInv, UNCHANGED <<drift, queue>>,
         before' = before \/ before' = [before EXCEPT ![Worker] = {}],
         NEW stage, stage \notin Sweeping
  PROVE  /\ Sweeps(Worker, [Asleep EXCEPT !.stage = stage]) =>
              SweepsInv' /\ sweep'[Worker].stage = stage
         /\ Sweeps(Worker, [Asleep EXCEPT !.stage = stage, !.failed = TRUE]) =>
              SweepsInv' /\ sweep'[Worker].stage = stage /\ sweep'[Worker].failed
         /\ \A again, failed \in BOOLEAN :
              Sweeps(Worker, [Asleep EXCEPT !.stage = stage, !.again = again,
                                !.failed = failed]) =>
                /\ SweepsInv' /\ sweep'[Worker].stage = stage
                /\ sweep'[Worker].again = again /\ sweep'[Worker].failed = failed
<1>1. ASSUME Sweeps(Worker, [Asleep EXCEPT !.stage = stage])
      PROVE  SweepsInv' /\ sweep'[Worker].stage = stage
  <2> DEFINE new == [Asleep EXCEPT !.stage = stage]
  <2>1. new.stage = stage /\ new.due = {}
    BY AsleepFields
  <2> HIDE DEF new
  <2> QED
    BY <1>1, <2>1, WorkerStops DEF new
<1>2. ASSUME Sweeps(Worker, [Asleep EXCEPT !.stage = stage, !.failed = TRUE])
      PROVE  SweepsInv' /\ sweep'[Worker].stage = stage /\ sweep'[Worker].failed
  <2> DEFINE new == [Asleep EXCEPT !.stage = stage, !.failed = TRUE]
  <2>1. new.stage = stage /\ new.due = {} /\ new.failed
    BY AsleepFields
  <2>2. Sweeps(Worker, new)
    BY <1>2
  <2> HIDE DEF new
  <2> QED
    BY <2>1, <2>2, WorkerStops
<1>3. ASSUME NEW again \in BOOLEAN, NEW failed \in BOOLEAN,
             Sweeps(Worker, [Asleep EXCEPT !.stage = stage, !.again = again,
                               !.failed = failed])
      PROVE  /\ SweepsInv' /\ sweep'[Worker].stage = stage
             /\ sweep'[Worker].again = again /\ sweep'[Worker].failed = failed
  <2> DEFINE new == [Asleep EXCEPT !.stage = stage, !.again = again, !.failed = failed]
  <2>1. new.stage = stage /\ new.due = {} /\ new.again = again /\ new.failed = failed
    BY AsleepFields
  <2>2. Sweeps(Worker, new)
    BY <1>3
  <2> HIDE DEF new
  <2> QED
    BY <2>1, <2>2, WorkerStops
<1> QED
  BY <1>1, <1>2, <1>3

\* The worker's own steps keep sweeps and requests.
LEMMA WorkerKeeps ==
  ASSUME IInv, Claim \/ Ask \/ WorkerList \/ Throws \/ Release \/ PutBack
  PROVE  SweepsInv' /\ OwedInv'
<1> USE DEF IInv
<1> DEFINE sw == sweep[Worker]
<1>1. Worker \in Sweepers /\ {"idle", "ask", "list", "release", "back"} \cap Sweeping = {}
  BY DEF Sweepers, Sweeping
<1>2. CASE Claim
  <2>1. SweepsInv' /\ sweep'[Worker].stage = "ask"
    BY <1>1, <1>2, WorkerGoes DEF Claim, IndexKept
  <2> QED
    BY <1>1, <1>2, <2>1 DEF Claim, IndexKept, OwedInv, RequestKept, Reach
<1>3. CASE Ask
  <2>1. sw.stage = "ask" /\ IndexKept /\ UNCHANGED <<requests, gap>>
    BY <1>3 DEF Ask
  <2>2. \/ Sweeps(Worker, [Asleep EXCEPT !.stage = "list"])
        \/ \E again, failed \in BOOLEAN :
             /\ again \/ failed
             /\ Sweeps(Worker, [Asleep EXCEPT !.stage = "release", !.again = again,
                                  !.failed = failed])
    <3>1. \A u \in BOOLEAN : (~u) \in BOOLEAN /\ (u \/ ~u)
      OBVIOUS
    <3> QED
      BY <1>3, <3>1 DEF Ask
  <2>3. CASE Sweeps(Worker, [Asleep EXCEPT !.stage = "list"])
    <3>1. SweepsInv' /\ sweep'[Worker].stage = "list"
      BY <1>1, <2>1, <2>3, WorkerGoes DEF IndexKept
    <3> QED
      BY <1>1, <2>1, <3>1 DEF IndexKept, requests, OwedInv, RequestKept, Reach
  <2>4. ASSUME NEW again \in BOOLEAN, NEW failed \in BOOLEAN, again \/ failed,
               Sweeps(Worker, [Asleep EXCEPT !.stage = "release", !.again = again,
                                 !.failed = failed])
        PROVE  SweepsInv' /\ OwedInv'
    <3>1. /\ SweepsInv' /\ sweep'[Worker].stage = "release"
          /\ sweep'[Worker].again \/ sweep'[Worker].failed
      BY <1>1, <2>1, <2>4, WorkerGoes DEF IndexKept
    <3> QED
      BY <1>1, <2>1, <3>1 DEF IndexKept, requests, OwedInv, RequestKept, Reach
  <2> QED
    BY <2>2, <2>3, <2>4
<1>4. CASE WorkerList
  <2>1. /\ Begins(Worker, Listed)
        /\ UNCHANGED <<row, drift, queue, owed, live, claim, gap>> /\ sw.stage = "list"
    BY <1>4 DEF WorkerList, requests
  <2>2. /\ Covers(sweep'[Worker], before'[Worker]) /\ Ends(sweep'[Worker])
        /\ before'[Worker] = (drift \cap Reach) \ queue
        /\ sweep'[Worker].stage = "scan"
        /\ \A t \in Sweepers \ {Worker} : sweep'[t] = sweep[t] /\ before'[t] = before[t]
    BY <1>1, <2>1, BeginsInv DEF Reach
  <2>3. SweepsInv'
    BY <1>1, <2>1, <2>2, OneMoves
  <2> QED
    BY <1>1, <2>1, <2>2, <2>3 DEF OwedInv, RequestKept, Reach, Sweeping
<1>5. CASE Throws
  <2>1. sw.stage \in Sweeping /\ UNCHANGED <<row, drift, queue, owed, live, claim, gap>>
    BY <1>5 DEF Throws, requests, Sweeping
  <2>2. SweepsInv' /\ sweep'[Worker].stage = "release" /\ sweep'[Worker].failed
    BY <1>1, <1>5, <2>1, WorkerGoes DEF Throws
  <2> QED
    BY <1>1, <2>1, <2>2 DEF OwedInv, RequestKept, Reach
<1>6. CASE Release
  <2>1. sw.stage = "release" /\ UNCHANGED <<row, drift, queue, live, before, gap>>
    BY <1>6 DEF Release
  <2>2. CASE sw.again
    <3>1. Sweeps(Worker, [Asleep EXCEPT !.stage = "back"])
      BY <1>6, <2>2 DEF Release
    <3>2. SweepsInv' /\ sweep'[Worker].stage = "back"
      BY <1>1, <2>1, <3>1, WorkerGoes
    <3>3. UNCHANGED owed
      BY <1>6, <2>2 DEF Release
    <3> QED
      BY <1>1, <2>1, <3>2, <3>3 DEF OwedInv, RequestKept, Reach
  <2>3. CASE ~sw.again
    <3>1. Sweeps(Worker, Asleep)
      BY <1>6, <2>3 DEF Release
    <3>2. SweepsInv' /\ sweep'[Worker].stage = "idle"
      BY <1>1, <2>1, <3>1, WorkerStops, AsleepFields
    <3>3. owed' \in {owed, {}} /\ (live \/ claim' \/ owed' = {})
      BY <1>6, <2>1, <2>3 DEF Release, GivesUp, OwedInv
    <3> QED
      BY <1>1, <2>1, <3>2, <3>3 DEF OwedInv, RequestKept, Reach
  <2> QED
    BY <2>2, <2>3
<1>7. CASE PutBack
  <2>1. Sweeps(Worker, Asleep) /\ UNCHANGED <<row, drift, queue, claim, before, gap>>
    BY <1>7 DEF PutBack
  <2>2. SweepsInv' /\ sweep'[Worker].stage = "idle"
    BY <1>1, <2>1, WorkerStops, AsleepFields
  <2>3. owed' \in {owed, {}} /\ (live' \/ claim \/ owed' = {})
    BY <1>7 DEF PutBack, GivesUp
  <2> QED
    BY <1>1, <2>1, <2>2, <2>3 DEF OwedInv, RequestKept, Reach
<1> QED
  BY <1>2, <1>3, <1>4, <1>5, <1>6, <1>7

\* A kill keeps sweeps and requests, but for the gap.
LEMMA KilledKeeps ==
  ASSUME IInv, NEW s \in Sweepers, Killed(s)
  PROVE  SweepsInv' /\ OwedInv'
<1> USE DEF IInv
<1>1. /\ Worker \in Sweepers /\ "idle" \notin Sweeping
      /\ before \in [Sweepers -> SUBSET Files]
  BY DEF Sweepers, Sweeping, TypeOK
<1>2. /\ UNCHANGED <<row, drift, queue, live, claim, owed>> /\ Sweeps(s, Asleep)
      /\ before' = [before EXCEPT ![s] = {}]
      /\ gap' = (gap \/ (sweep[s].stage = "back" /\ ~live /\ ~claim))
  BY DEF Killed, requests
<1>3. /\ \A t \in Sweepers \ {s} : sweep'[t] = sweep[t] /\ before'[t] = before[t]
      /\ sweep'[s].stage = "idle" /\ before'[s] = {}
      /\ \A b : Covers(sweep'[s], b) /\ Ends(sweep'[s])
  BY <1>1, <1>2, Stops, AsleepFields
<1>4. SweepsInv'
  BY <1>2, <1>3, OneMoves
<1>5. CASE s = Worker
  BY <1>1, <1>2, <1>3, <1>4, <1>5 DEF OwedInv, RequestKept, Reach
<1>6. CASE s # Worker
  <2>1. sweep'[Worker] = sweep[Worker] /\ before'[Worker] = before[Worker]
    BY <1>1, <1>3, <1>6
  <2> QED
    BY <1>2, <1>4, <2>1 DEF OwedInv, RequestKept, Reach
<1> QED
  BY <1>5, <1>6

\* The invariant is inductive.
LEMMA NextIInv == IInv /\ [Next]_vars => IInv'
<1> SUFFICES ASSUME IInv, [Next]_vars
             PROVE  IInv'
  OBVIOUS
<1>1. TypeOK'
  BY NextTypes DEF IInv
<1>2. ASSUME NEW s \in Hooks, Start(s) \/ SweepStep(s) \/ Hand(s)
      PROVE  SweepsInv' /\ OwedInv'
  BY <1>2, HookKeeps, SweepStepKeeps DEF Sweepers
<1>3. CASE WorkerStep \/ Throws
  <2>1. SweepsInv' /\ OwedInv'
    BY <1>3, WorkerKeeps, SweepStepKeeps DEF WorkerStep, Sweepers
  <2> QED
    BY <1>1, <2>1 DEF IInv
<1>4. CASE UNCHANGED vars
  <2>1. SweepsInv' /\ OwedInv'
    BY <1>4 DEF vars, kept, requests, IInv, SweepsInv, SweepInv, OwedInv, RequestKept, Reach
  <2> QED
    BY <1>1, <2>1 DEF IInv
<1>5. CASE World \/ \E s \in Sweepers : Killed(s)
  BY <1>1, <1>5, WorldKeeps, KilledKeeps DEF IInv
<1> QED
  BY <1>1, <1>2, <1>3, <1>4, <1>5 DEF Next, IInv

\* The invariant holds of every state.
LEMMA IInvAlways == Spec => []IInv
  BY InitIInv, NextIInv, PTL DEF Spec

\* However sweeps, drains and edits interleave and wherever a pass began, a file that had
\* drifted as a sweep listed was found, was queued, or is still to be looked at, unless a
\* listing came late or failed or a budget ended a pass.
THEOREM SweepsMissNothing == Spec => []NothingMissed
<1>1. IInv => NothingMissed
  BY DEF IInv, SweepsInv, SweepInv, Covers, NothingMissed
<1> QED
  BY <1>1, IInvAlways, PTL

\* drainReconcileRequestsAsync: while files are owed a sweep, their request is in one of
\* the two files or with a worker about to put it back, but for a worker killed between
\* the removal of its claim and the append.
THEOREM RequestsKept == Spec => []RequestKept
<1>1. IInv => RequestKept
  BY DEF IInv, OwedInv
<1> QED
  BY <1>1, IInvAlways, PTL

\* writeSweepStamp: a sweep is recorded as complete only when every file that had drifted
\* as it listed was queued since.
THEOREM SweptMeansQueued == Spec => SweptIsQueued
<1>1. ASSUME IInv, [Next]_vars, swept', ~swept
      PROVE  \E s \in Sweepers : sweep[s].stage = "settle" /\ before[s] = {}
  <2>1. PICK s \in Sweepers : Settle(s)
    <3>1. \/ UNCHANGED swept
          \/ Ages
          \/ \E s \in Sweepers : Settle(s)
      BY <1>1 DEF Next, vars, kept, World, ShellWrites, Change, Drain, Start, Hand, Throws,
         Killed, WorkerStep, Claim, Ask, WorkerList, Release, PutBack, SweepStep, SweepOnly,
         ScanNext, ScanEnds, RowsNext, RowsEnd, Enqueue, Sweepers
    <3> QED
      BY <1>1, <3>1 DEF Ages
  <2>2. Complete(sweep[s])
    BY <1>1, <2>1 DEF Settle
  <2>3. before[s] = {}
    BY <1>1, <2>1, <2>2, SettledClean DEF IInv, SweepsInv, Complete
  <2> QED
    BY <2>1, <2>3 DEF Settle
<1> QED
  BY <1>1, IInvAlways, PTL DEF Spec, SweptIsQueued

=============================================================================
