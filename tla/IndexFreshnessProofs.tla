------------------------ MODULE IndexFreshnessProofs ------------------------
(***************************************************************************)
(* Proofs about IndexFreshness, for any files, contents, indexers, sweeps,  *)
(* clocks and faults: a row that is passed over unread is right.            *)
(*                                                                         *)
(* The invariant is about looks in flight.  A look proves something only if *)
(* its mtime is older than its clock by a tick; whoever writes the file     *)
(* after the hash writes it after the clock, and an mtime is rounded down   *)
(* by less than a tick, so the file has another mtime from then on.         *)
(***************************************************************************)
EXTENDS IndexFreshness, TLAPS

JobStages == {"idle", "drop", "stat", "clock", "hash", "judge", "reread", "write"}
SweepStages == {"idle", "next", "stat", "hash", "enqueue"}

\* What a look says of its file still holds, if it says anything.
Vouches(look) ==
  look.mtime # 0 /\ look.mtime + Tick <= look.clock
      /\ There(look.file) /\ mtime[look.file] = look.mtime
    => content[look.file] = look.sha

\* A look at a file, of the past.
Past(look) == look \in Look /\ look.file \in Files /\ look.clock <= clock

JobOK(p) ==
  /\ job[p] \in Job
  /\ job[p].stage # "idle" => Past(job[p].look)
  /\ job[p].stage = "reread" => job[p].look.mtime = 0
  /\ job[p].stage \in {"judge", "write"} => Vouches(job[p].look)

SweepOK(s) ==
  /\ sweep[s] \in Sweep
  /\ sweep[s].stage \in {"stat", "hash"} => Past(sweep[s].look)
  /\ \A look \in sweep[s].clean : Past(look) /\ Vouches(look)

\* The row of f is of the past, and its proof holds.
RowOK(f) ==
  /\ row[f] \in Row /\ row[f].at <= clock
  /\ There(f) /\ row[f].sha # Null /\ ~torn[f] /\ MtimeProvesUnchanged(row[f], mtime[f])
       => row[f].sha = content[f]

DiskOK ==
  /\ clock \in Nat /\ edits \in Nat
  /\ content \in [Files -> Sha] /\ mtime \in [Files -> Nat]
  /\ \A f \in Files : mtime[f] <= clock

IInv ==
  /\ DiskOK /\ faults \in Nat /\ queue \subseteq Files
  /\ DOMAIN row = Files /\ row = [f \in Files |-> row[f]] /\ torn \in [Files -> BOOLEAN]
  /\ \A f \in Files : RowOK(f)
  /\ job \in [Indexers -> Job] /\ \A p \in Indexers : JobOK(p)
  /\ sweep \in [Sweepers -> Sweep] /\ \A s \in Sweepers : SweepOK(s)

-----------------------------------------------------------------------------
\* IInv has the types and the property in it.
LEMMA IInvSays == IInv => TypeOK /\ ProofsHold
<1> SUFFICES ASSUME IInv PROVE TypeOK /\ ProofsHold
  OBVIOUS
<1>1. row \in [Files -> Row]
  BY DEF IInv, RowOK
<1>2. TypeOK
  BY <1>1 DEF IInv, DiskOK, TypeOK
<1>3. ProofsHold
  BY DEF IInv, RowOK, ProofsHold
<1> QED
  BY <1>2, <1>3

\* An empty look, row, job and sweep are of their types.
LEMMA EmptyTypes ==
  NoRow \in Row /\ NoLook \in Look /\ Idle \in Job /\ Asleep \in Sweep
<1>1. NoRow \in Row /\ NoLook \in Look
  BY DEF NoRow, Row, Sha, NoLook, Look
<1>2. Idle \in Job
  BY <1>1 DEF Idle, Job
<1>3. Asleep \in Sweep
  BY <1>1 DEF Asleep, Sweep
<1> QED
  BY <1>1, <1>2, <1>3

\* The fields of a look.
LEMMA LookFields ==
  ASSUME NEW look \in Look
  PROVE  /\ look.file \in Files \cup {Null} /\ look.mtime \in Nat /\ look.clock \in Nat
         /\ look.sha \in Sha
         /\ \A f \in Files : [look EXCEPT !.file = f] \in Look
         /\ \A m \in Nat : [look EXCEPT !.mtime = m] \in Look
         /\ \A c \in Nat : [look EXCEPT !.clock = c] \in Look
         /\ \A h \in Sha : [look EXCEPT !.sha = h] \in Look
  BY DEF Look

\* The fields of a row.
LEMMA RowFields ==
  ASSUME NEW r \in Row PROVE r.sha \in Sha /\ r.mtime \in Nat /\ r.at \in Nat
  BY DEF Row

\* Time passing, and a change of a file, do not refute a look of the past.
LEMMA VouchesKept ==
  ASSUME DiskOK, NEW look, Past(look), Vouches(look), World
  PROVE  Past(look)' /\ Vouches(look)'
<1> USE ConstantsAssumption DEF DiskOK, Past, Vouches, There
<1> look.file \in Files /\ look.mtime \in Nat /\ look.clock \in Nat
  BY LookFields
<1>1. CASE Passes
  BY <1>1 DEF Passes, disk
<1>2. ASSUME NEW f \in Files, Edit(f) PROVE Past(look)' /\ Vouches(look)'
  <2>1. Past(look)'
    BY <1>2 DEF Edit
  <2>2. CASE f # look.file
    BY <1>2, <2>1, <2>2 DEF Edit
  <2>3. CASE f = look.file
    <3>1. mtime'[f] + Tick > clock
      BY <1>2 DEF Edit, Stamps
    <3>2. look.mtime + Tick <= look.clock => mtime'[f] # look.mtime
      BY <3>1
    <3> QED
      BY <2>1, <2>3, <3>2
  <2> QED
    BY <2>2, <2>3
<1>3. ASSUME NEW f \in Files, Delete(f) PROVE Past(look)' /\ Vouches(look)'
  BY <1>3 DEF Delete
<1> QED
  BY <1>1, <1>2, <1>3 DEF World

\* Nor do they refute a row.
LEMMA RowKept ==
  ASSUME DiskOK, World, torn \in [Files -> BOOLEAN], NEW f \in Files, RowOK(f)
  PROVE  RowOK(f)'
<1> USE ConstantsAssumption DEF DiskOK, RowOK, There, MtimeProvesUnchanged, MtimeEqualsRow
<1> row[f].sha \in Sha /\ row[f].mtime \in Nat /\ row[f].at \in Nat
  BY RowFields
<1>1. CASE Passes
  BY <1>1 DEF Passes, disk
<1>2. ASSUME NEW g \in Files, Edit(g) PROVE RowOK(f)'
  <2>1. CASE f # g
    BY <1>2, <2>1 DEF Edit
  <2>2. CASE f = g
    <3>1. mtime'[f] + Tick > clock /\ mtime'[f] \in Nat
      BY <1>2, <2>2 DEF Edit, Stamps
    <3>2. row' = row /\ clock' = clock
      BY <1>2 DEF Edit
    <3> QED
      BY <3>1, <3>2
  <2> QED
    BY <2>1, <2>2
<1>3. ASSUME NEW g \in Files, Delete(g) PROVE RowOK(f)'
  BY <1>3 DEF Delete
<1> QED
  BY <1>1, <1>2, <1>3 DEF World

\* The disk keeps its types, and every mtime is of the past.
LEMMA DiskKept ==
  ASSUME DiskOK, World
  PROVE  DiskOK' /\ clock <= clock' /\ UNCHANGED <<row, queue, sweep, job, faults, torn>>
<1> USE ConstantsAssumption DEF DiskOK
<1>1. CASE Passes
  BY <1>1 DEF Passes, disk
<1>2. ASSUME NEW f \in Files, Edit(f)
      PROVE DiskOK' /\ clock <= clock' /\ UNCHANGED <<row, queue, sweep, job, faults, torn>>
  <2>1. PICK c \in Contents, t \in Stamps :
          content' = [content EXCEPT ![f] = c] /\ mtime' = [mtime EXCEPT ![f] = t]
    BY <1>2 DEF Edit
  <2>2. t \in Nat /\ t <= clock /\ c \in Sha
    BY DEF Stamps, Sha
  <2> QED
    BY <1>2, <2>1, <2>2 DEF Edit
<1>3. ASSUME NEW f \in Files, Delete(f)
      PROVE DiskOK' /\ clock <= clock' /\ UNCHANGED <<row, queue, sweep, job, faults, torn>>
  BY <1>3 DEF Delete, Sha
<1> QED
  BY <1>1, <1>2, <1>3 DEF World

\* A step of the world keeps the invariant.
LEMMA WorldStep == ASSUME IInv, World PROVE IInv'
<1>1. DiskOK' /\ clock <= clock' /\ UNCHANGED <<row, queue, sweep, job, faults, torn>>
  BY DiskKept DEF IInv
<1>2. \A f \in Files : RowOK(f)'
  BY RowKept DEF IInv
<1>3. \A look : Past(look) => Past(look)'
  BY <1>1, LookFields DEF Past, DiskOK, IInv
<1>4. \A look : Past(look) /\ Vouches(look) => Vouches(look)'
  BY VouchesKept DEF IInv
<1>5. \A p \in Indexers : JobOK(p)'
  BY <1>1, <1>3, <1>4 DEF IInv, JobOK
<1>6. \A s \in Sweepers : SweepOK(s)'
  BY <1>1, <1>3, <1>4 DEF IInv, SweepOK
<1> QED
  BY <1>1, <1>2, <1>5, <1>6 DEF IInv

-----------------------------------------------------------------------------
\* Nothing happens to the disk.
Still == UNCHANGED <<clock, content, mtime, edits>>

\* Looks say the same of a disk to which nothing happened.
LEMMA LooksStay ==
  ASSUME Still PROVE \A look : (Past(look)' <=> Past(look)) /\ (Vouches(look)' <=> Vouches(look))
  BY DEF Still, Past, Vouches, There

\* What Turns does to the jobs.
LEMMA TurnsDoes ==
  ASSUME NEW p \in Indexers, job \in [Indexers -> Job], NEW stage \in JobStages,
         NEW look \in Look, Turns(p, stage, look)
  PROVE  /\ job' \in [Indexers -> Job] /\ job'[p].stage = stage /\ job'[p].look = look
         /\ \A q \in Indexers \ {p} : job'[q] = job[q]
  BY DEF Turns, Job, JobStages

\* What Begins does to the jobs.
LEMMA BeginsDoes ==
  ASSUME NEW p \in Indexers, job \in [Indexers -> Job], NEW stage \in JobStages,
         NEW f \in Files, NEW drain \in BOOLEAN, Begins(p, stage, f, drain)
  PROVE  /\ job' \in [Indexers -> Job] /\ job'[p].stage = stage
         /\ job'[p].look = [NoLook EXCEPT !.file = f]
         /\ \A q \in Indexers \ {p} : job'[q] = job[q]
<1> DEFINE new == [Idle EXCEPT !.stage = stage, !.look = [NoLook EXCEPT !.file = f],
                           !.drain = drain]
<1>1. [NoLook EXCEPT !.file = f] \in Look
  BY EmptyTypes, LookFields
<1>2. job' = [job EXCEPT ![p] = new]
  BY DEF Begins
<1>3. new \in Job /\ new.stage = stage /\ new.look = [NoLook EXCEPT !.file = f]
  BY <1>1, EmptyTypes DEF Job, JobStages
<1> HIDE DEF new
<1> QED
  BY <1>2, <1>3

\* What Ends does to the jobs.
LEMMA EndsDoes ==
  ASSUME NEW p \in Indexers, job \in [Indexers -> Job], Ends(p)
  PROVE  /\ job' \in [Indexers -> Job] /\ job'[p].stage = "idle"
         /\ \A q \in Indexers \ {p} : job'[q] = job[q]
  BY EmptyTypes DEF Ends, Idle

\* The look of a file that was begun, and every later one, is of the past.
LEMMA BeginsPast ==
  ASSUME DiskOK, NEW f \in Files
  PROVE  /\ Past([NoLook EXCEPT !.file = f])
         /\ \A look \in Look : Past(look) =>
              /\ \A m \in Nat : Past([look EXCEPT !.mtime = m])
              /\ Past([look EXCEPT !.clock = clock])
              /\ \A h \in Sha : Past([look EXCEPT !.sha = h])
<1>1. Past([NoLook EXCEPT !.file = f])
  BY EmptyTypes, LookFields DEF Past, NoLook, DiskOK
<1>2. ASSUME NEW look \in Look, Past(look)
      PROVE  /\ \A m \in Nat : Past([look EXCEPT !.mtime = m])
             /\ Past([look EXCEPT !.clock = clock])
             /\ \A h \in Sha : Past([look EXCEPT !.sha = h])
  <2>1. ASSUME NEW m \in Nat PROVE Past([look EXCEPT !.mtime = m])
    BY <1>2, LookFields DEF Past, Look
  <2>2. Past([look EXCEPT !.clock = clock])
    BY <1>2, LookFields DEF Past, DiskOK, Look
  <2>3. ASSUME NEW h \in Sha PROVE Past([look EXCEPT !.sha = h])
    BY <1>2, LookFields DEF Past, Look
  <2> QED
    BY <2>1, <2>2, <2>3
<1> QED
  BY <1>1, <1>2

\* The steps of indexers that do not write a row.
LEMMA ReadingStep ==
  ASSUME IInv, NEW p \in Indexers,
         Take(p) \/ Open(p) \/ Stat(p) \/ ReadClock(p) \/ Hash(p) \/ Judge(p) \/ Reread(p)
           \/ WriteFails(p)
  PROVE  /\ Still /\ UNCHANGED <<row, torn, sweep>>
         /\ queue' \subseteq Files /\ faults' \in Nat
         /\ job' \in [Indexers -> Job] /\ JobOK(p)'
         /\ \A q \in Indexers \ {p} : job'[q] = job[q]
<1> USE DEF Elsewhere, disk, Still, Spend
<1> job[p].look \in Look /\ job \in [Indexers -> Job] /\ queue \subseteq Files /\ faults \in Nat
    /\ DiskOK /\ job[p] \in Job
  BY DEF IInv, JobOK, Job
<1>a. \A f \in Files : content[f] \in Sha /\ mtime[f] \in Nat
  BY DEF DiskOK
<1>b. job[p].stage # "idle" => Past(job[p].look) /\ job[p].look.file \in Files
  BY DEF IInv, JobOK, Past
<1>c. SUFFICES /\ Still /\ UNCHANGED <<row, torn, sweep>>
               /\ queue' \subseteq Files /\ faults' \in Nat
               /\ job' \in [Indexers -> Job]
               /\ job'[p].stage # "idle" => Past(job'[p].look)
               /\ job'[p].stage = "reread" => job'[p].look.mtime = 0
               /\ job'[p].stage \in {"judge", "write"} => Vouches(job'[p].look)
               /\ \A q \in Indexers \ {p} : job'[q] = job[q]
  BY LooksStay DEF JobOK
<1>1. CASE Take(p)
  <2>1. PICK f \in queue, stage \in {"stat", "drop"} :
          queue' = queue \ {f} /\ Begins(p, stage, f, TRUE)
    BY <1>1 DEF Take
  <2>2. f \in Files /\ stage \in JobStages
    BY DEF JobStages
  <2> QED
    BY <1>1, <2>1, <2>2, BeginsDoes, BeginsPast DEF Take
<1>2. CASE Open(p)
  <2>1. PICK f \in Files, stage \in {"stat", "reread"} : Begins(p, stage, f, FALSE)
    BY <1>2 DEF Open
  <2>2. stage \in JobStages /\ [NoLook EXCEPT !.file = f].mtime = 0
    BY DEF JobStages, NoLook
  <2> QED
    BY <1>2, <2>1, <2>2, BeginsDoes, BeginsPast DEF Open
<1>3. CASE Stat(p)
  <2>1. PICK m \in Nat, stage \in {"clock", "hash"}, look \in Look :
          /\ Turns(p, stage, look) /\ look \in {job[p].look, [job[p].look EXCEPT !.mtime = m]}
    BY <1>3, <1>a, <1>b, LookFields DEF Stat
  <2>2. stage \in JobStages /\ Past(look)
    BY <1>3, <1>b, <2>1, BeginsPast DEF JobStages, Stat
  <2> QED
    BY <1>3, <2>1, <2>2, TurnsDoes DEF Stat
<1>4. CASE ReadClock(p)
  <2> DEFINE look == [job[p].look EXCEPT !.clock = clock]
  <2>1. look \in Look /\ Past(look)
    BY <1>4, <1>b, LookFields, BeginsPast DEF ReadClock, DiskOK
  <2> QED
    BY <1>4, <2>1, TurnsDoes DEF ReadClock, JobStages
<1>5. CASE Hash(p)
  <2> DEFINE f == job[p].look.file
             look == [job[p].look EXCEPT !.sha = content[f]]
  <2>1. f \in Files /\ look \in Look /\ Past(look)
    BY <1>5, <1>a, <1>b, LookFields, BeginsPast DEF Hash
  <2>2. Vouches(look)
    BY <2>1 DEF Vouches, Look
  <2>3. CASE Turns(p, "judge", look)
    BY <1>5, <2>1, <2>2, <2>3, TurnsDoes DEF Hash, JobStages
  <2>4. CASE Ends(p)
    BY <1>5, <2>1, <2>4, EndsDoes DEF Hash
  <2> QED
    BY <1>5, <2>3, <2>4 DEF Hash
<1>6. CASE Judge(p)
  <2> DEFINE look == job[p].look
             again == ~job[p].drain /\ ~(row[look.file].sha = look.sha)
             next == IF again THEN [NoLook EXCEPT !.file = look.file] ELSE look
  <2>1. look.file \in Files /\ Past(look) /\ Vouches(look)
    BY <1>6, <1>b DEF Judge, IInv, JobOK
  <2>2. next \in Look /\ Past(next) /\ Vouches(next) /\ (again => next.mtime = 0)
    BY <2>1, BeginsPast, EmptyTypes, LookFields DEF Vouches, NoLook
  <2> DEFINE same == row[look.file].sha = look.sha
             stage == IF again THEN "reread" ELSE "write"
  <2>3. job' = [job EXCEPT ![p] = [job[p] EXCEPT !.same = same, !.stage = stage, !.look = next]]
    BY <1>6 DEF Judge
  <2>4. stage \in JobStages /\ same \in BOOLEAN
    BY DEF JobStages
  <2>5. job' \in [Indexers -> Job] /\ job'[p].look = next /\ job'[p].stage = stage
        /\ \A q \in Indexers \ {p} : job'[q] = job[q]
    <3> HIDE DEF next, look, again, same, stage
    <3> QED
      BY <2>2, <2>3, <2>4 DEF Job, JobStages
  <2> QED
    BY <1>6, <2>2, <2>5 DEF Judge
<1>7. CASE Reread(p)
  <2> DEFINE f == job[p].look.file
             look == [job[p].look EXCEPT !.sha = content[f]]
  <2>1. f \in Files /\ look \in Look /\ Past(look)
    BY <1>7, <1>a, <1>b, LookFields, BeginsPast DEF Reread
  <2>2. job[p].look.mtime = 0
    BY <1>7 DEF Reread, IInv, JobOK
  <2>3. look.mtime = 0
    BY <2>2 DEF Look
  <2>4. Vouches(look)
    BY <2>3 DEF Vouches
  <2>5. CASE Turns(p, "write", look)
    BY <1>7, <2>1, <2>4, <2>5, TurnsDoes DEF Reread, JobStages
  <2>6. CASE Ends(p)
    BY <1>7, <2>6, EndsDoes DEF Reread
  <2> QED
    BY <1>7, <2>5, <2>6 DEF Reread
<1>8. CASE WriteFails(p)
  BY <1>8, <1>b, EndsDoes DEF WriteFails
<1> QED
  BY <1>1, <1>2, <1>3, <1>4, <1>5, <1>6, <1>7, <1>8

-----------------------------------------------------------------------------
\* What a restamp makes of a row: its bytes stay those it was made from, and if it
\* vouches for the file then the look did.
LEMMA RestampedSays ==
  ASSUME DiskOK, NEW r \in Row, r.at <= clock, NEW look, Past(look), Vouches(look)
  PROVE  /\ Restamped(r, look) \in Row /\ Restamped(r, look).at <= clock
         /\ Restamped(r, look).sha = r.sha
         /\ r.sha # look.sha => Restamped(r, look) = r
         /\ r.sha = look.sha /\ There(look.file)
              /\ MtimeProvesUnchanged(Restamped(r, look), mtime[look.file])
            => content[look.file] = r.sha
<1> USE ConstantsAssumption
<1> look \in Look /\ look.mtime \in Nat /\ look.clock \in Nat /\ look.file \in Files
    /\ look.clock <= clock /\ clock \in Nat /\ mtime[look.file] \in Nat
  BY LookFields DEF Past, DiskOK
<1> r.mtime \in Nat /\ r.at \in Nat
  BY RowFields
<1>1. CASE r.sha # look.sha
  BY <1>1 DEF Restamped
<1>2. CASE r.sha = look.sha /\ look.mtime + Tick <= look.clock
  <2>1. Restamped(r, look) = [r EXCEPT !.mtime = look.mtime, !.at = look.clock]
    BY <1>2 DEF Restamped
  <2>2. [r EXCEPT !.mtime = look.mtime, !.at = look.clock] \in Row
    BY DEF Row
  <2>3. /\ Restamped(r, look).mtime = look.mtime /\ Restamped(r, look).at = look.clock
        /\ Restamped(r, look).sha = r.sha
    BY <2>1 DEF Row
  <2> QED
    BY <1>2, <2>1, <2>2, <2>3 DEF Vouches, MtimeProvesUnchanged, MtimeEqualsRow
<1>3. CASE r.sha = look.sha /\ ~(look.mtime + Tick <= look.clock)
  <2> DEFINE at == IF r.at > look.clock THEN look.clock ELSE r.at
  <2>1. Restamped(r, look) = [r EXCEPT !.mtime = look.mtime, !.at = at]
    BY <1>3 DEF Restamped
  <2>2. at \in Nat /\ at <= clock /\ at <= look.clock
    OBVIOUS
  <2> HIDE DEF at
  <2>3. [r EXCEPT !.mtime = look.mtime, !.at = at] \in Row
    BY <2>2 DEF Row
  <2>4. /\ Restamped(r, look).mtime = look.mtime /\ Restamped(r, look).at = at
        /\ Restamped(r, look).sha = r.sha
    BY <2>1 DEF Row
  <2>5. ~MtimeProvesUnchanged(Restamped(r, look), mtime[look.file])
    BY <1>3, <2>2, <2>4 DEF MtimeProvesUnchanged, MtimeEqualsRow
  <2> QED
    BY <1>3, <2>1, <2>2, <2>3, <2>4, <2>5
<1> QED
  BY <1>1, <1>2, <1>3

\* A row that a look restamps stays right.
LEMMA RestampedRow ==
  ASSUME DiskOK, Still, NEW f \in Files, RowOK(f), torn \in [Files -> BOOLEAN],
         NEW look, Past(look), Vouches(look), look.file = f,
         row'[f] = Restamped(row[f], look),
         torn'[f] = (torn[f] /\ row[f].sha # look.sha)
  PROVE  RowOK(f)'
<1>1. row[f] \in Row /\ row[f].at <= clock
  BY DEF RowOK
<1>2. CASE row[f].sha = look.sha
  BY <1>1, <1>2, RestampedSays DEF Still, RowOK, There, MtimeProvesUnchanged, MtimeEqualsRow
<1>3. CASE row[f].sha # look.sha
  <2>1. row'[f] = row[f] /\ torn'[f] = torn[f]
    BY <1>1, <1>3, RestampedSays
  <2> QED
    BY <2>1 DEF Still, RowOK, There, MtimeProvesUnchanged, MtimeEqualsRow
<1> QED
  BY <1>2, <1>3

\* Rows that are left alone stay right.
LEMMA SameRow ==
  ASSUME Still, NEW f \in Files, RowOK(f), row'[f] = row[f], torn'[f] = torn[f]
  PROVE  RowOK(f)'
  BY DEF Still, RowOK, There, MtimeProvesUnchanged, MtimeEqualsRow

\* The row that writeParseResult makes of a look.
LEMMA ParsedSays ==
  ASSUME DiskOK, NEW look \in Look, look.file \in Files
  PROVE  Parsed(look) \in Row /\ Parsed(look).sha = look.sha /\ Parsed(look).at = clock
<1>1. look.sha \in Sha /\ mtime[look.file] \in Nat /\ clock \in Nat
  BY LookFields DEF DiskOK
<1> QED
  BY <1>1 DEF Parsed, Row

\* What a write and a drop do to the row of the file.
LEMMA WritingStep ==
  ASSUME IInv, NEW p \in Indexers, Write(p) \/ Drop(p)
  PROVE  /\ Still /\ UNCHANGED <<queue, faults, sweep>>
         /\ job' \in [Indexers -> Job] /\ JobOK(p)'
         /\ \A q \in Indexers \ {p} : job'[q] = job[q]
         /\ row' = [f \in Files |-> row'[f]] /\ torn' \in [Files -> BOOLEAN]
         /\ \A f \in Files : RowOK(f)'
<1> USE DEF Elsewhere, disk, Still
<1>1. /\ DiskOK /\ job \in [Indexers -> Job] /\ row = [g \in Files |-> row[g]]
      /\ torn \in [Files -> BOOLEAN] /\ \A g \in Files : RowOK(g)
  BY DEF IInv
<1>2. PICK look \in Look, f \in Files : look = job[p].look /\ f = look.file /\ Past(look)
  BY DEF IInv, JobOK, Write, Drop, Past
<1>3. Still /\ Ends(p) /\ UNCHANGED <<queue, faults, sweep>>
  BY DEF Write, Drop
<1>4. /\ job' \in [Indexers -> Job] /\ JobOK(p)'
      /\ \A q \in Indexers \ {p} : job'[q] = job[q]
  BY <1>1, <1>3, EndsDoes DEF JobOK
<1>5. CASE Drop(p)
  <2>1. row' = [row EXCEPT ![f] = NoRow] /\ torn' = [torn EXCEPT ![f] = FALSE]
    BY <1>2, <1>5 DEF Drop
  <2>2. RowOK(f)'
    BY <1>1, <1>2, <1>3, <2>1, EmptyTypes DEF RowOK, NoRow, DiskOK
  <2>3. \A g \in Files : RowOK(g)'
    BY <1>1, <1>3, <2>1, <2>2, SameRow
  <2> QED
    BY <1>1, <1>2, <1>3, <1>4, <2>1, <2>3
<1>6. CASE Write(p)
  <2> DEFINE written == IF job[p].same THEN row[f] ELSE Parsed(look)
  <2>1. Vouches(look)
    BY <1>2, <1>6 DEF Write, IInv, JobOK
  <2>2. written \in Row /\ written.at <= clock
    BY <1>1, <1>2, ParsedSays DEF RowOK, DiskOK
  <2>3. CASE look.mtime = 0
    <3>1. /\ row' = [row EXCEPT ![f] = written]
          /\ torn' = [torn EXCEPT ![f] = IF job[p].same THEN @ ELSE content[f] # look.sha]
      BY <1>2, <1>6, <2>3 DEF Write
    <3>2. /\ row' = [g \in Files |-> row'[g]] /\ torn' \in [Files -> BOOLEAN]
          /\ row'[f] = written
          /\ torn'[f] = (IF job[p].same THEN torn[f] ELSE content[f] # look.sha)
          /\ \A g \in Files \ {f} : row'[g] = row[g] /\ torn'[g] = torn[g]
      BY <1>1, <1>2, <3>1
    <3>3. RowOK(f)'
      <4>1. CASE job[p].same
        BY <1>1, <1>3, <3>2, <4>1, SameRow
      <4>2. CASE ~job[p].same
        <5>1. row'[f] = written /\ written.sha = look.sha /\ torn'[f] = (content[f] # look.sha)
          BY <1>1, <1>2, <3>2, <4>2, ParsedSays
        <5> HIDE DEF written
        <5> QED
          BY <1>3, <2>2, <5>1 DEF RowOK
      <4> QED
        BY <4>1, <4>2
    <3> QED
      BY <1>1, <1>3, <1>4, <3>2, <3>3, SameRow
  <2>4. CASE look.mtime # 0
    <3>1. /\ row' = [row EXCEPT ![f] = Restamped(written, look)]
          /\ torn' = [torn EXCEPT ![f] = @ /\ written.sha # look.sha]
      BY <1>2, <1>6, <2>4 DEF Write
    <3>2. /\ row'[f] = Restamped(written, look) /\ torn'[f] = (torn[f] /\ written.sha # look.sha)
          /\ row' = [g \in Files |-> row'[g]] /\ torn' \in [Files -> BOOLEAN]
          /\ \A g \in Files \ {f} : row'[g] = row[g] /\ torn'[g] = torn[g]
      <4> HIDE DEF written
      <4> QED
        BY <1>1, <1>2, <3>1
    <3>3. RowOK(f)'
      <4>1. CASE job[p].same
        <5>1. written = row[f]
          BY <4>1
        <5> HIDE DEF written
        <5> QED
          BY <1>1, <1>2, <1>3, <2>1, <3>2, <5>1, RestampedRow
      <4>2. CASE ~job[p].same
        <5>1. written.sha = look.sha
          BY <1>1, <1>2, <4>2, ParsedSays
        <5> HIDE DEF written
        <5>2. /\ row'[f] \in Row /\ row'[f].at <= clock /\ row'[f].sha = written.sha
              /\ There(f) /\ MtimeProvesUnchanged(row'[f], mtime[f]) => content[f] = written.sha
          BY <1>1, <1>2, <2>1, <2>2, <3>2, <5>1, RestampedSays
        <5> QED
          BY <1>3, <5>2 DEF RowOK, There, MtimeProvesUnchanged, MtimeEqualsRow
      <4> QED
        BY <4>1, <4>2
    <3> QED
      BY <1>1, <1>3, <1>4, <3>2, <3>3, SameRow
  <2> QED
    BY <2>3, <2>4
<1> QED
  BY <1>5, <1>6

\* A step of an indexer keeps the invariant.
LEMMA IndexerKeeps ==
  ASSUME IInv, NEW p \in Indexers, Take(p) \/ Open(p) \/ IndexerStep(p) \/ WriteFails(p)
  PROVE  IInv'
<1>1. /\ Still /\ UNCHANGED sweep /\ queue' \subseteq Files /\ faults' \in Nat
      /\ job' \in [Indexers -> Job] /\ JobOK(p)' /\ \A q \in Indexers \ {p} : job'[q] = job[q]
      /\ row' = [f \in Files |-> row'[f]] /\ torn' \in [Files -> BOOLEAN]
      /\ \A f \in Files : RowOK(f)'
  <2>1. CASE Write(p) \/ Drop(p)
    BY <2>1, WritingStep DEF IInv
  <2>2. CASE ~(Write(p) \/ Drop(p))
    BY <2>2, ReadingStep, SameRow DEF IInv, IndexerStep
  <2> QED
    BY <2>1, <2>2
<1>2. \A q \in Indexers : JobOK(q)'
  BY <1>1, LooksStay DEF IInv, JobOK
<1>3. \A s \in Sweepers : SweepOK(s)'
  BY <1>1, LooksStay DEF IInv, SweepOK
<1>4. DiskOK'
  BY <1>1 DEF IInv, DiskOK, Still
<1> QED
  BY <1>1, <1>2, <1>3, <1>4 DEF IInv

-----------------------------------------------------------------------------
\* The fields of a sweep.
LEMMA SweepFields ==
  ASSUME NEW sw \in Sweep
  PROVE  /\ sw.look \in Look /\ sw.todo \subseteq Files /\ sw.entry \in [Files -> Row]
         /\ sw.found \subseteq Files /\ sw.clean \subseteq Look
         /\ \A stage \in SweepStages, look \in Look :
              [sw EXCEPT !.stage = stage, !.look = look] \in Sweep
         /\ \A found \in SUBSET Files : [sw EXCEPT !.found = found] \in Sweep
         /\ \A todo \in SUBSET Files : [sw EXCEPT !.todo = todo] \in Sweep
         /\ \A clean \in SUBSET Look : [sw EXCEPT !.clean = clean] \in Sweep
  BY DEF Sweep, SweepStages

\* What a sweep is after it was done with a file.
LEMMA PassedSays ==
  ASSUME NEW sw \in Sweep, sw.look.file \in Files
  PROVE  \A new \in {Passed(sw), Found(sw), Unread(sw)} :
           new \in Sweep /\ new.stage = "next" /\ new.clean = sw.clean
<1> DEFINE found == sw.found \cup {sw.look.file}
<1>1. Passed(sw) \in Sweep
  BY EmptyTypes, SweepFields DEF Passed, SweepStages
<1>2. Passed(sw).stage = "next" /\ Passed(sw).clean = sw.clean /\ Passed(sw).found = sw.found
  BY DEF Passed, Sweep
<1>3. Found(sw) = [Passed(sw) EXCEPT !.found = found] /\ found \in SUBSET Files
  BY <1>2, SweepFields DEF Found
<1>4. [Passed(sw) EXCEPT !.found = found] \in Sweep
  BY <1>1, <1>3, SweepFields
<1>5. [Passed(sw) EXCEPT !.found = found].stage = "next"
      /\ [Passed(sw) EXCEPT !.found = found].clean = sw.clean
  <2> HIDE DEF found
  <2> QED
    BY <1>1, <1>2 DEF Sweep
<1>6. Unread(sw) \in {Passed(sw), Found(sw)}
  BY DEF Unread
<1> QED
  BY <1>1, <1>2, <1>3, <1>4, <1>5, <1>6

\* What a sweep may become without the invariant being lost.
Sound(new) ==
  /\ new \in Sweep
  /\ new.stage \in {"stat", "hash"} => Past(new.look)
  /\ \A look \in new.clean : Past(look) /\ Vouches(look)

\* An idle sweep is sound.
LEMMA AsleepSound == Sound(Asleep)
  BY EmptyTypes DEF Sound, Asleep

\* The steps of sweeps that do not write a row make a sound sweep of it.
LEMMA SweepingStep ==
  ASSUME IInv, NEW s \in Sweepers,
         Start(s) \/ NextFile(s) \/ SweepStat(s) \/ SweepHash(s) \/ Enqueue(s) \/ Killed(s)
  PROVE  /\ Still /\ UNCHANGED <<row, torn, job>>
         /\ queue' \subseteq Files /\ faults' \in Nat
         /\ \E new : Sound(new) /\ Sweeps(s, new)
<1> DEFINE sw == sweep[s]
<1> USE DEF SweepOnly, disk, Still, Spend
<1>a. /\ DiskOK /\ sw \in Sweep /\ Sound(sw) /\ queue \subseteq Files /\ faults \in Nat
      /\ row \in [Files -> Row]
  BY DEF IInv, SweepOK, Sound, RowOK
<1>b. /\ sw.look \in Look /\ sw.todo \subseteq Files /\ sw.found \subseteq Files
      /\ sw.clean \subseteq Look /\ sw.entry \in [Files -> Row]
  BY <1>a, SweepFields
<1>c. Still /\ UNCHANGED <<row, torn, job>>
  BY DEF Start, NextFile, SweepStat, SweepHash, Enqueue, Killed
<1>d. queue' \subseteq Files /\ faults' \in Nat
  <2>1. CASE Start(s) \/ NextFile(s)
    BY <1>a, <2>1 DEF Start, NextFile
  <2>2. CASE SweepStat(s)
    BY <1>a, <2>2 DEF SweepStat
  <2>3. CASE SweepHash(s)
    BY <1>a, <2>3 DEF SweepHash
  <2>4. CASE Enqueue(s) \/ Killed(s)
    BY <1>a, <1>b, <2>4 DEF Enqueue, Killed
  <2> QED
    BY <2>1, <2>2, <2>3, <2>4
<1>e. \A f \in Files : content[f] \in Sha /\ mtime[f] \in Nat
  BY <1>a DEF DiskOK
<1> HIDE DEF SweepOnly, disk, Still, Spend
<1> SUFFICES \E new : Sound(new) /\ Sweeps(s, new)
  BY <1>c, <1>d
<1>f. ASSUME sw.stage \in {"stat", "hash"}
      PROVE \A new \in {Passed(sw), Found(sw), Unread(sw)} : Sound(new)
  BY <1>a, <1>f, PassedSays DEF Sound, Past
<1>1. CASE Start(s)
  <2>1. PICK listed \in SUBSET Tracked :
          Sweeps(s, [Asleep EXCEPT !.stage = "next", !.entry = row,
                       !.todo = listed \cup {f \in Files : row[f].sha # Null}])
    BY <1>1 DEF Start
  <2> DEFINE todo == listed \cup {f \in Files : row[f].sha # Null}
             new == [Asleep EXCEPT !.stage = "next", !.entry = row, !.todo = todo]
  <2>2. todo \subseteq Files
    BY ConstantsAssumption
  <2>3. new \in Sweep /\ new.stage = "next" /\ new.clean = {}
    <3>1. Asleep \in Sweep /\ Asleep.clean = {}
      BY EmptyTypes DEF Asleep
    <3> HIDE DEF todo
    <3> QED
      BY <1>a, <2>2, <3>1 DEF Sweep
  <2>4. Sound(new)
    <3> HIDE DEF new
    <3> QED
      BY <2>3 DEF Sound
  <2> QED
    BY <2>1, <2>4
<1>2. CASE NextFile(s)
  <2>1. PICK f \in sw.todo :
          LET next == [sw EXCEPT !.todo = @ \ {f}] IN
          Sweeps(s, IF sw.entry[f].sha = Null THEN [next EXCEPT !.found = @ \cup {f}]
                    ELSE [next EXCEPT !.stage = "stat",
                                      !.look = [NoLook EXCEPT !.file = f, !.clock = clock]])
    BY <1>2 DEF NextFile
  <2> DEFINE next == [sw EXCEPT !.todo = sw.todo \ {f}]
             look == [NoLook EXCEPT !.file = f, !.clock = clock]
  <2>2. f \in Files /\ sw.stage = "next" /\ clock \in Nat
    BY <1>2, <1>a, <1>b DEF NextFile, DiskOK
  <2>3. /\ next \in Sweep /\ next.stage = "next" /\ next.clean = sw.clean
        /\ next.found \subseteq Files
    BY <1>a, <1>b, <2>2 DEF Sweep
  <2>4. look \in Look /\ Past(look)
    <3>1. look \in Look /\ look.file = f /\ look.clock = clock
      BY <2>2, EmptyTypes DEF Look
    <3> HIDE DEF look
    <3> QED
      BY <2>2, <3>1 DEF Past
  <2> HIDE DEF next, look
  <2>5. [next EXCEPT !.found = @ \cup {f}] \in Sweep
        /\ [next EXCEPT !.found = @ \cup {f}].stage = "next"
        /\ [next EXCEPT !.found = @ \cup {f}].clean = sw.clean
    BY <2>2, <2>3 DEF Sweep
  <2>6. Sound([next EXCEPT !.found = @ \cup {f}])
    BY <1>a, <2>5 DEF Sound
  <2>7. [next EXCEPT !.stage = "stat", !.look = look] \in Sweep
        /\ [next EXCEPT !.stage = "stat", !.look = look].look = look
        /\ [next EXCEPT !.stage = "stat", !.look = look].clean = sw.clean
    BY <2>3, <2>4 DEF Sweep
  <2>8. Sound([next EXCEPT !.stage = "stat", !.look = look])
    BY <1>a, <2>4, <2>7 DEF Sound
  <2> QED
    BY <2>1, <2>6, <2>8 DEF next, look
<1>3. CASE SweepStat(s)
  <2> DEFINE f == sw.look.file
             new == [sw EXCEPT !.stage = "hash", !.look.mtime = mtime[f]]
  <2>1. \E n \in {Passed(sw), Found(sw), Unread(sw), new} : Sweeps(s, n)
    BY <1>3 DEF SweepStat
  <2>2. sw.stage = "stat" /\ Past(sw.look) /\ f \in Files
    BY <1>3, <1>a DEF SweepStat, Sound, Past
  <2>3. [sw.look EXCEPT !.mtime = mtime[f]] \in Look /\ Past([sw.look EXCEPT !.mtime = mtime[f]])
    BY <1>a, <1>b, <1>e, <2>2, LookFields, BeginsPast
  <2>4. new = [sw EXCEPT !.stage = "hash", !.look = [sw.look EXCEPT !.mtime = mtime[f]]]
    BY <1>a DEF Sweep
  <2>5. new \in Sweep /\ new.stage = "hash" /\ new.clean = sw.clean
        /\ new.look = [sw.look EXCEPT !.mtime = mtime[f]]
    BY <1>a, <2>3, <2>4 DEF Sweep
  <2>6. Sound(new)
    <3> HIDE DEF new
    <3> QED
      BY <1>a, <2>3, <2>5 DEF Sound
  <2> QED
    BY <1>f, <2>1, <2>2, <2>6
<1>4. CASE SweepHash(s)
  <2> DEFINE f == sw.look.file
             look == [sw.look EXCEPT !.sha = content[f]]
             new == [Passed(sw) EXCEPT !.clean = @ \cup {look}]
  <2>1. \E n \in {Found(sw), Unread(sw), new} : Sweeps(s, n)
    BY <1>4 DEF SweepHash
  <2>2. sw.stage = "hash" /\ Past(sw.look) /\ f \in Files
    BY <1>4, <1>a DEF SweepHash, Sound, Past
  <2>3. look \in Look /\ Past(look)
    BY <1>a, <1>b, <1>e, <2>2, LookFields, BeginsPast
  <2>4. Vouches(look)
    BY <1>b DEF Vouches, Look
  <2>5. Passed(sw) \in Sweep /\ Passed(sw).stage = "next" /\ Passed(sw).clean = sw.clean
    BY <1>a, <2>2, PassedSays
  <2>6. new \in Sweep /\ new.stage = "next" /\ new.clean = sw.clean \cup {look}
    <3> HIDE DEF look
    <3> QED
      BY <1>b, <2>3, <2>5 DEF Sweep
  <2>7. Sound(new)
    <3> HIDE DEF new, look
    <3> QED
      BY <1>a, <2>3, <2>4, <2>6 DEF Sound
  <2> QED
    BY <1>f, <2>1, <2>2, <2>7
<1>5. CASE Enqueue(s) \/ Killed(s)
  BY <1>5, AsleepSound DEF Enqueue, Killed
<1> QED
  BY <1>1, <1>2, <1>3, <1>4, <1>5

\* What a sweep that restamps does.
LEMMA RestampStep ==
  ASSUME IInv, NEW s \in Sweepers, Restamp(s)
  PROVE  /\ Still /\ UNCHANGED <<queue, job>> /\ faults' \in Nat
         /\ \E new : Sound(new) /\ Sweeps(s, new)
         /\ row' = [f \in Files |-> row'[f]] /\ torn' \in [Files -> BOOLEAN]
         /\ \A f \in Files : RowOK(f)'
<1> DEFINE clean == sweep[s].clean
           LookAt(f) == CHOOSE look \in clean : look.file = f
           Hashed == {look.file : look \in clean}
           new == [Asleep EXCEPT !.stage = "enqueue", !.found = sweep[s].found]
<1>1. /\ Still /\ UNCHANGED <<queue, job>> /\ faults' \in Nat
      /\ Sweeps(s, new)
  BY DEF Restamp, disk, Still, Spend, IInv
<1>2. /\ DiskOK /\ sweep[s] \in Sweep /\ \A f \in Files : RowOK(f)
      /\ row = [f \in Files |-> row[f]] /\ torn \in [Files -> BOOLEAN]
      /\ \A look \in clean : Past(look) /\ Vouches(look)
  BY DEF IInv, SweepOK
<1>3. Sound(new)
  <2>1. new \in Sweep /\ new.stage = "enqueue" /\ new.clean = {}
    <3>1. Asleep \in Sweep /\ Asleep.clean = {}
      BY EmptyTypes DEF Asleep
    <3>2. sweep[s].found \subseteq Files
      BY <1>2, SweepFields
    <3> QED
      BY <3>1, <3>2 DEF Sweep
  <2> HIDE DEF new
  <2> QED
    BY <2>1 DEF Sound
<1>4. CASE UNCHANGED <<row, torn>>
  BY <1>1, <1>2, <1>3, <1>4, SameRow
<1>5. CASE /\ row' = [f \in Files |-> IF f \in Hashed THEN Restamped(row[f], LookAt(f)) ELSE row[f]]
           /\ torn' = [f \in Files |-> torn[f] /\ ~(f \in Hashed /\ row[f].sha = LookAt(f).sha)]
  <2>1. ASSUME NEW f \in Files PROVE RowOK(f)'
    <3>1. CASE f \in Hashed
      <4>1. PICK look \in clean : look = LookAt(f) /\ look.file = f
        BY <3>1
      <4>2. row'[f] = Restamped(row[f], look)
            /\ torn'[f] = (torn[f] /\ row[f].sha # look.sha)
        <5> HIDE DEF Hashed, LookAt, clean
        <5> QED
          BY <1>2, <1>5, <3>1, <4>1
      <4> QED
        BY <1>1, <1>2, <4>1, <4>2, RestampedRow
    <3>2. CASE f \notin Hashed
      <4>1. row'[f] = row[f] /\ torn'[f] = torn[f]
        <5> HIDE DEF Hashed, LookAt, clean
        <5> QED
          BY <1>2, <1>5, <3>2
      <4> QED
        BY <1>1, <1>2, <4>1, SameRow
    <3> QED
      BY <3>1, <3>2
  <2>2. row' = [f \in Files |-> row'[f]] /\ torn' \in [Files -> BOOLEAN]
    <3> HIDE DEF Hashed, LookAt, clean
    <3> QED
      BY <1>2, <1>5
  <2> QED
    BY <1>1, <1>3, <2>1, <2>2
<1> QED
  BY <1>4, <1>5 DEF Restamp

\* A step of a sweep keeps the invariant.
LEMMA SweeperKeeps ==
  ASSUME IInv, NEW s \in Sweepers, Start(s) \/ SweepStep(s) \/ Killed(s)
  PROVE  IInv'
<1>1. /\ Still /\ UNCHANGED job /\ queue' \subseteq Files /\ faults' \in Nat
      /\ \E new : Sound(new) /\ Sweeps(s, new)
      /\ row' = [f \in Files |-> row'[f]] /\ torn' \in [Files -> BOOLEAN]
      /\ \A f \in Files : RowOK(f)'
  <2>1. CASE Restamp(s)
    BY <2>1, RestampStep DEF IInv
  <2>2. CASE ~Restamp(s)
    BY <2>2, SweepingStep, SameRow DEF IInv, SweepStep
  <2> QED
    BY <2>1, <2>2
<1>2. PICK new : Sound(new) /\ Sweeps(s, new)
  BY <1>1
<1>3. /\ sweep' \in [Sweepers -> Sweep] /\ sweep'[s] = new
      /\ \A r \in Sweepers \ {s} : sweep'[r] = sweep[r]
  BY <1>2 DEF IInv, Sound, Sweeps
<1>4. SweepOK(s)'
  BY <1>1, <1>2, <1>3, LooksStay DEF Sound, SweepOK
<1>5. \A r \in Sweepers : SweepOK(r)'
  BY <1>1, <1>3, <1>4, LooksStay DEF IInv, SweepOK
<1>6. \A p \in Indexers : JobOK(p)'
  BY <1>1, LooksStay DEF IInv, JobOK
<1>7. DiskOK'
  BY <1>1 DEF IInv, DiskOK, Still
<1> QED
  BY <1>1, <1>3, <1>5, <1>6, <1>7 DEF IInv

-----------------------------------------------------------------------------
\* The invariant holds at the start.
LEMMA InitIInv == Init => IInv
<1> SUFFICES ASSUME Init PROVE IInv
  OBVIOUS
<1>1. PICK old \in SUBSET Files, c \in Contents :
        /\ content = [f \in Files |-> c]
        /\ row = [f \in Files |-> IF f \in old THEN [sha |-> c, mtime |-> 1, at |-> 1] ELSE NoRow]
  <2> DEFINE first == CHOOSE c \in Contents : TRUE
  <2>1. first \in Contents
    BY ConstantsAssumption
  <2>2. \E old \in SUBSET Files :
          /\ content = [f \in Files |-> first]
          /\ row = [f \in Files |->
                      IF f \in old THEN [sha |-> first, mtime |-> 1, at |-> 1] ELSE NoRow]
    BY DEF Init
  <2> HIDE DEF first
  <2> QED
    BY <2>1, <2>2
<1>2. DiskOK
  BY <1>1 DEF Init, DiskOK, Sha
<1>3. [sha |-> c, mtime |-> 1, at |-> 1] \in Row
  BY DEF Row, Sha
<1>4. ASSUME NEW f \in Files PROVE RowOK(f)
  <2>1. content[f] = c /\ clock = 1 /\ row[f] \in {[sha |-> c, mtime |-> 1, at |-> 1], NoRow}
    BY <1>1 DEF Init
  <2>2. NoRow.sha = Null /\ NoRow.at = 0
    BY DEF NoRow
  <2> QED
    BY <1>3, <2>1, <2>2, EmptyTypes DEF RowOK
<1>5. row = [f \in Files |-> row[f]]
  BY <1>1
<1>6. \A p \in Indexers : JobOK(p)
  BY EmptyTypes DEF Init, JobOK, Idle
<1>7. \A s \in Sweepers : SweepOK(s)
  BY EmptyTypes DEF Init, SweepOK, Asleep
<1> QED
  BY <1>2, <1>4, <1>5, <1>6, <1>7, EmptyTypes DEF Init, IInv

\* Every step keeps the invariant.
LEMMA NextIInv == IInv /\ [Next]_vars => IInv'
<1> SUFFICES ASSUME IInv, [Next]_vars PROVE IInv'
  OBVIOUS
<1>1. CASE World
  BY <1>1, WorldStep
<1>2. ASSUME NEW p \in Indexers, Take(p) \/ Open(p) \/ IndexerStep(p) \/ WriteFails(p)
      PROVE IInv'
  BY <1>2, IndexerKeeps
<1>3. ASSUME NEW s \in Sweepers, Start(s) \/ SweepStep(s) \/ Killed(s)
      PROVE IInv'
  BY <1>3, SweeperKeeps
<1>4. CASE UNCHANGED vars
  <2>1. Still /\ UNCHANGED <<row, torn, job, sweep, queue, faults>>
    BY <1>4 DEF vars, disk, Still
  <2>2. \A f \in Files : RowOK(f)'
    BY <2>1, SameRow DEF IInv
  <2>3. \A p \in Indexers : JobOK(p)'
    BY <2>1, LooksStay DEF IInv, JobOK
  <2>4. \A s \in Sweepers : SweepOK(s)'
    BY <2>1, LooksStay DEF IInv, SweepOK
  <2>5. DiskOK'
    BY <2>1 DEF IInv, DiskOK, Still
  <2> QED
    BY <2>1, <2>2, <2>3, <2>4, <2>5 DEF IInv
<1> QED
  BY <1>1, <1>2, <1>3, <1>4 DEF Next

\* Every variable keeps its type, whatever is edited, indexed and swept.
THEOREM TypeCorrect == Spec => []TypeOK
<1>1. IInv => TypeOK
  BY IInvSays
<1> QED
  BY <1>1, InitIInv, NextIInv, PTL DEF Spec

\* mtimeProvesUnchanged, fingerprint.ts:67: a row that a sweep or a drain passes over
\* unread holds the hash of what the file holds, for any number of files, indexers,
\* sweeps, edits and faults and any tick; but for the rows whose mtime was read after
\* the file had changed again.
THEOREM ProofsAlwaysHold == Spec => []ProofsHold
<1>1. IInv => ProofsHold
  BY IInvSays
<1> QED
  BY <1>1, InitIInv, NextIInv, PTL DEF Spec

=============================================================================
