------------------------- MODULE EmbedFreshnessProofs -------------------------
(***************************************************************************)
(* What holds of EmbedFreshness for every set of files, every limit of      *)
(* slots and every number of events: the types, the count of the embedding  *)
(* slots, and, when no file gets an old content back and no other process   *)
(* indexes a file between the reading of a text that is not embedded and    *)
(* the deletion of its vectors, that a stamp tells the truth.               *)
(***************************************************************************)
EXTENDS EmbedFreshness, FiniteSetTheorems, SequenceTheorems, TLAPS

Idle0 == {"none", "over"}
HasText == {"drop", "infer"}

(***************************************************************************)
(* Every embed at work is for a known file and a content that file has had. *)
(***************************************************************************)
JobsOK ==
  /\ \A f \in Files : job[f].phase \notin Idle0 => job[f].file = f
  /\ \A p \in Embedders : job[p].phase \notin Idle0 =>
       job[p].file \in Files /\ job[p].sha \in seen[job[p].file]
  /\ \A p \in Embedders : job[p].phase \in HasText => job[p].text \in Contents
  /\ \A p \in Embedders : job[p].phase = "drop" => job[p].text \in Skipped
  /\ \A p \in Embedders : job[p].phase = "infer" => job[p].text \notin Skipped
  /\ job[Cli].phase \notin {"slot", "over"}

(***************************************************************************)
(* What is remembered of a file it has held at some time.                   *)
(***************************************************************************)
SeenOK ==
  /\ \A f \in Files : disk[f] \in seen[f] \cup {Null}
  /\ \A f \in Files : row[f].sha \in seen[f] \cup {Null}
  /\ \A f \in Files : row[f].sha = Null => row[f].stamp = Null /\ vec[f] = Null
  /\ \A f \in Files : \A i \in DOMAIN chain[f] : chain[f][i] \in seen[f]
  /\ taken # Nothing => taken.file \in Files /\ taken.bytes \in seen[taken.file] \cup {Null}
  /\ cli.at \in {"look", "parsed"} => cli.file \in Files /\ cli.sha \in seen[cli.file]
  /\ cli.at = "parsed" => cli.bytes \in seen[cli.file]

(***************************************************************************)
(* The text of an embed, as long as its file is what the embed is for.      *)
(***************************************************************************)
TextOK ==
  \A p \in Embedders : job[p].phase \in HasText =>
    (job[p].sha = disk[job[p].file] => job[p].text = disk[job[p].file])

(***************************************************************************)
(* The row of a file whose vectors are about to be deleted: if it describes *)
(* the file, the file is not to be embedded.                                *)
(***************************************************************************)
DropOK ==
  \A p \in Embedders : job[p].phase = "drop" =>
    (row[job[p].file].sha = disk[job[p].file] => disk[job[p].file] \in Skipped \cup {Null})

Base == TypeOK /\ JobsOK /\ SeenOK /\ SlotsKept

IInv == Base /\ TextOK /\ DropOK /\ StampTrue

-----------------------------------------------------------------------------
(***************************************************************************)
(* What a step may do to the embeds other than to read a text: it leaves    *)
(* them alone, ends them, or begins them.                                   *)
(***************************************************************************)
Moves(p) ==
  \/ job'[p] = job[p]
  \/ job'[p] = NoJob
  \/ p \in Files /\ job'[p] = Over
  \/ p \in Files /\ job[p].phase = "slot" /\ job'[p] = [job[p] EXCEPT !.phase = "read"]
  \/ p \in Files /\ \E s \in seen[p] : job'[p] \in {Starts(p, s, "slot"), Starts(p, s, "read")}
  \/ p = Cli /\ \E f \in Files : \E s \in seen[f] : job'[p] = Starts(f, s, "read")

JobsMove == \A p \in Embedders : Moves(p)

\* A step that only ends and begins embeds keeps them for what their files have held.
LEMMA JobsMoveKeepJobs ==
  ASSUME TypeOK, JobsOK, JobsMove, \A f \in Files : seen[f] \subseteq seen'[f]
  PROVE  JobsOK'
<1> USE DEF TypeOK, Idle0, HasText, Embedders
<1>1. ASSUME NEW p \in Embedders
      PROVE  /\ job'[p].phase \notin Idle0 =>
                  job'[p].file \in Files /\ job'[p].sha \in seen'[job'[p].file]
             /\ job'[p].phase \in HasText => job'[p] = job[p]
             /\ p \in Files => (job'[p].phase \notin Idle0 => job'[p].file = p)
             /\ p = Cli => job'[p].phase \notin {"slot", "over"}
  <2> Moves(p)
    BY <1>1 DEF JobsMove
  <2> job[p] \in Jobs
    BY <1>1
  <2> /\ job[p].phase \notin Idle0 =>
           job[p].file \in Files /\ job[p].sha \in seen[job[p].file]
      /\ p \in Files => (job[p].phase \notin Idle0 => job[p].file = p)
      /\ p = Cli => job[p].phase \notin {"slot", "over"}
      /\ Cli \notin Files
    BY <1>1, ConstantsAssumption DEF JobsOK
  <2>1. CASE job'[p] = job[p]
    BY <2>1, <1>1
  <2>2. CASE job'[p] = NoJob
    BY <2>2, <1>1 DEF NoJob
  <2>3. CASE p \in Files /\ job'[p] = Over
    BY <2>3, <1>1 DEF NoJob, Over
  <2>4. CASE p \in Files /\ job[p].phase = "slot" /\ job'[p] = [job[p] EXCEPT !.phase = "read"]
    BY <2>4, <1>1 DEF Jobs
  <2>5. CASE p \in Files /\ \E s \in seen[p] : job'[p] \in {Starts(p, s, "slot"), Starts(p, s, "read")}
    BY <2>5, <1>1 DEF Starts
  <2>6. CASE p = Cli /\ \E f \in Files : \E s \in seen[f] : job'[p] = Starts(f, s, "read")
    BY <2>6, <1>1 DEF Starts
  <2> QED
    BY <2>1, <2>2, <2>3, <2>4, <2>5, <2>6 DEF Moves
<1> QED
  BY <1>1 DEF JobsOK

\* Nor does it give an embed a text.
LEMMA JobsMoveReadNothing ==
  ASSUME TypeOK, JobsMove, NEW p \in Embedders, job'[p].phase \in HasText
  PROVE  job'[p] = job[p]
<1>1. Moves(p) /\ job[p] \in Jobs
  BY DEF JobsMove, TypeOK, Embedders
<1>2. CASE job'[p] \in {NoJob, Over}
  BY <1>2 DEF HasText, NoJob, Over
<1>3. CASE job'[p] = [job[p] EXCEPT !.phase = "read"]
  <2>1. job'[p].phase = "read"
    BY <1>1, <1>3 DEF Jobs
  <2> QED
    BY <2>1 DEF HasText
<1>4. CASE \E f, s : job'[p] \in {Starts(f, s, "slot"), Starts(f, s, "read")}
  BY <1>4 DEF HasText, Starts
<1> QED
  BY <1>1, <1>2, <1>3, <1>4 DEF Moves

\* So what is known of the texts stays true while no file changes.
LEMMA JobsMoveKeepTexts ==
  ASSUME TypeOK, TextOK, JobsMove, disk' = disk
  PROVE  TextOK'
BY JobsMoveReadNothing DEF TextOK

\* And what is known of the deletions to come, while no row they concern is written.
LEMMA JobsMoveKeepDrops ==
  ASSUME TypeOK, DropOK, JobsMove, disk' = disk,
         \A p \in Embedders : job[p].phase = "drop" => row'[job[p].file].sha = row[job[p].file].sha
  PROVE  DropOK'
BY JobsMoveReadNothing DEF DropOK, HasText

-----------------------------------------------------------------------------
(***************************************************************************)
(* The slots.                                                               *)
(***************************************************************************)
OnceEach(s) == \A i, j \in DOMAIN s : s[i] = s[j] => i = j

Members(s) == {s[i] : i \in DOMAIN s}

\* An embed that is put at the end of the line, and was not in it.
LEMMA LineGrows ==
  ASSUME NEW S, NEW s \in Seq(S), NEW e \in S, e \notin Members(s), OnceEach(s)
  PROVE  /\ Append(s, e) \in Seq(S) /\ Append(s, e) # <<>>
         /\ Members(Append(s, e)) = Members(s) \cup {e}
         /\ OnceEach(Append(s, e))
<1> DEFINE t == Append(s, e)
<1>1. /\ t \in Seq(S) /\ t # <<>> /\ DOMAIN t = 1..(Len(s) + 1) /\ DOMAIN s = 1..Len(s)
      /\ Len(s) \in Nat
      /\ \A i \in 1..Len(s) : t[i] = s[i]
      /\ t[Len(s) + 1] = e
  BY AppendProperties, LenProperties
<1> HIDE DEF t
<1>2. Members(t) = Members(s) \cup {e}
  <2>1. ASSUME NEW i \in DOMAIN t PROVE t[i] \in Members(s) \cup {e}
    BY <1>1, <2>1 DEF Members
  <2>2. ASSUME NEW i \in DOMAIN s PROVE s[i] \in Members(t)
    <3>1. i \in DOMAIN t /\ t[i] = s[i]
      BY <1>1, <2>2
    <3> QED
      BY <3>1 DEF Members
  <2>3. e \in Members(t)
    <3>1. Len(s) + 1 \in DOMAIN t
      BY <1>1
    <3> QED
      BY <3>1, <1>1 DEF Members
  <2> QED
    BY <2>1, <2>2, <2>3 DEF Members
<1>3. OnceEach(t)
  BY <1>1 DEF OnceEach, Members
<1> QED
  BY <1>1, <1>2, <1>3 DEF t

\* The first of the line leaves it.
LEMMA LineMoves ==
  ASSUME NEW S, NEW s \in Seq(S), s # <<>>, OnceEach(s)
  PROVE  /\ Head(s) \in S /\ Head(s) \in Members(s)
         /\ Tail(s) \in Seq(S)
         /\ Members(Tail(s)) = Members(s) \ {Head(s)}
         /\ OnceEach(Tail(s))
<1> DEFINE t == Tail(s)
<1>1. /\ t \in Seq(S) /\ Head(s) \in S /\ Head(s) = s[1]
      /\ Len(s) \in Nat \ {0} /\ DOMAIN s = 1..Len(s)
      /\ DOMAIN t = 1..(Len(s) - 1)
      /\ \A i \in 1..(Len(s) - 1) : t[i] = s[i + 1]
  BY HeadTailProperties, EmptySeq, LenProperties
<1> HIDE DEF t
<1>2. Head(s) \in Members(s)
  <2>1. 1 \in DOMAIN s
    BY <1>1
  <2> QED
    BY <2>1, <1>1 DEF Members
<1>3. Members(t) = Members(s) \ {Head(s)}
  <2>1. ASSUME NEW i \in DOMAIN t PROVE t[i] \in Members(s) \ {Head(s)}
    <3>1. i + 1 \in DOMAIN s /\ 1 \in DOMAIN s /\ i + 1 # 1 /\ t[i] = s[i + 1]
      BY <1>1, <2>1
    <3>2. s[i + 1] # s[1]
      BY <3>1 DEF OnceEach
    <3> QED
      BY <3>1, <3>2, <1>1 DEF Members
  <2>2. ASSUME NEW i \in DOMAIN s, s[i] # Head(s) PROVE s[i] \in Members(t)
    <3>1. i - 1 \in DOMAIN t /\ t[i - 1] = s[i]
      BY <1>1, <2>2
    <3> QED
      BY <3>1 DEF Members
  <2> QED
    BY <2>1, <2>2 DEF Members
<1>4. OnceEach(t)
  <2> SUFFICES ASSUME NEW i \in DOMAIN t, NEW j \in DOMAIN t, t[i] = t[j] PROVE i = j
    BY DEF OnceEach
  <2>1. i + 1 \in DOMAIN s /\ j + 1 \in DOMAIN s /\ s[i + 1] = s[j + 1]
    BY <1>1
  <2>2. i + 1 = j + 1
    BY <2>1 DEF OnceEach
  <2> QED
    BY <2>2, <1>1
<1> QED
  BY <1>1, <1>2, <1>3, <1>4 DEF t

Slotted == {f \in Files : job[f].phase = "slot"}

\* The count of the slots in use goes with the embeds at work.
LEMMA RunningFinite == IsFiniteSet(Running) /\ Cardinality(Running) \in Nat
<1>1. IsFiniteSet(Running)
  <2>1. Running \in SUBSET Files
    BY DEF Running
  <2> QED
    BY <2>1, ConstantsAssumption, FS_Subset
<1> QED
  BY <1>1, FS_CardinalityType

\* A step that leaves the worker's embeds and slots alone.
LEMMA SlotsUntouched ==
  ASSUME SlotsKept, UNCHANGED <<waiters, active>>, \A f \in Files : job'[f] = job[f]
  PROVE  SlotsKept'
<1>1. Running' = Running /\ Slotted' = Slotted
  BY DEF Running, Slotted
<1>2. Waiting' = Waiting
  BY DEF Waiting
<1> QED
  BY <1>1, <1>2 DEF SlotsKept, Slotted

\* An embed that is begun, or put in line.
LEMMA RunEmbedOK ==
  ASSUME TypeOK, SlotsKept, NEW f \in Files, NEW s \in seen[f],
         job[f].phase \in Idle0, RunEmbed(f, s)
  PROVE  /\ job' \in [Embedders -> Jobs] /\ waiters' \in Seq(Files) /\ active' \in 0..Limit
         /\ JobsMove /\ SlotsKept'
         /\ \A p \in Embedders \ {f} : job'[p] = job[p]
<1> USE ConstantsAssumption
<1>1. /\ job \in [Embedders -> Jobs] /\ f \in Embedders /\ s \in Contents
      /\ waiters \in Seq(Files) /\ active \in 0..Limit /\ Limit \in Nat
      /\ active = Cardinality(Running) /\ Waiting = Slotted
      /\ f \notin Running /\ f \notin Slotted
  BY DEF TypeOK, SlotsKept, Embedders, Idle0, Running, Slotted
<1>2. /\ Starts(f, s, "read") \in Jobs /\ Starts(f, s, "slot") \in Jobs /\ Over \in Jobs
      /\ Starts(f, s, "read").phase = "read" /\ Starts(f, s, "slot").phase = "slot"
      /\ Over.phase = "over"
  BY <1>1 DEF Starts, Jobs, Over, NoJob
<1>3. CASE active < Limit /\ Held
  <2>1. job' = [job EXCEPT ![f] = Over] /\ active' = active /\ waiters' = waiters
    BY <1>3 DEF RunEmbed
  <2>2. Running' = Running /\ Slotted' = Slotted
    BY <2>1, <1>1, <1>2 DEF Running, Slotted, Embedders
  <2>3. JobsMove
    BY <2>1, <1>1 DEF JobsMove, Moves
  <2>4. SlotsKept'
    BY <2>1, <2>2, <1>1 DEF SlotsKept, Waiting, Slotted
  <2> QED
    BY <2>1, <2>3, <2>4, <1>1, <1>2
<1>4. CASE active < Limit /\ ~Held
  <2>1. job' = [job EXCEPT ![f] = Starts(f, s, "read")] /\ active' = active + 1
        /\ waiters' = waiters
    BY <1>4 DEF RunEmbed
  <2>2. Running' = Running \cup {f} /\ Slotted' = Slotted
    BY <2>1, <1>1, <1>2 DEF Running, Slotted, Embedders
  <2>3. JobsMove
    BY <2>1, <1>1 DEF JobsMove, Moves
  <2>4. active' = Cardinality(Running')
    BY <2>1, <2>2, <1>1, RunningFinite, FS_AddElement
  <2>5. waiters = <<>>
    BY <1>4, <1>1 DEF SlotsKept
  <2>6. SlotsKept'
    BY <2>1, <2>2, <2>4, <2>5, <1>1 DEF SlotsKept, Waiting, Slotted
  <2> QED
    BY <2>1, <2>3, <2>6, <1>1, <1>2, <1>4
<1>5. CASE ~(active < Limit)
  <2>1. job' = [job EXCEPT ![f] = Starts(f, s, "slot")] /\ active' = active
        /\ waiters' = Append(waiters, f)
    BY <1>5 DEF RunEmbed
  <2>2. Running' = Running /\ Slotted' = Slotted \cup {f}
    BY <2>1, <1>1, <1>2 DEF Running, Slotted, Embedders
  <2>3. JobsMove
    BY <2>1, <1>1 DEF JobsMove, Moves
  <2>4. f \notin Members(waiters) /\ OnceEach(waiters)
    BY <1>1 DEF Waiting, Members, SlotsKept, OnceEach
  <2>5. /\ waiters' \in Seq(Files) /\ Members(waiters') = Members(waiters) \cup {f}
        /\ OnceEach(waiters')
    BY <2>1, <2>4, <1>1, LineGrows
  <2>6. active = Limit
    BY <1>5, <1>1
  <2>7. SlotsKept'
    BY <2>1, <2>2, <2>5, <2>6, <1>1 DEF SlotsKept, Waiting, Members, OnceEach, Slotted
  <2> QED
    BY <2>1, <2>3, <2>5, <2>7, <1>1, <1>2
<1> QED
  BY <1>3, <1>4, <1>5

\* An embed that ends: its slot is the next one's, or free.
LEMMA ReleaseOK ==
  ASSUME TypeOK, JobsOK, SlotsKept, NEW f \in Files, f \in Running, Release(f)
  PROVE  /\ job' \in [Embedders -> Jobs] /\ waiters' \in Seq(Files) /\ active' \in 0..Limit
         /\ JobsMove /\ SlotsKept'
         /\ job'[f] = Over
<1> USE ConstantsAssumption
<1>1. /\ job \in [Embedders -> Jobs] /\ f \in Embedders /\ Files \subseteq Embedders
      /\ waiters \in Seq(Files) /\ active \in 0..Limit /\ Limit \in Nat
      /\ active = Cardinality(Running) /\ Waiting = Slotted
      /\ Slotted \subseteq Files /\ f \notin Slotted
      /\ job[f].phase \in {"read", "drop", "infer"}
  BY DEF TypeOK, SlotsKept, Embedders, Running, Slotted
<1>2. Over \in Jobs /\ Over.phase = "over"
  BY DEF Over, NoJob, Jobs
<1>3. Cardinality(Running \ {f}) = active - 1 /\ active - 1 \in 0..Limit
  <2>1. Cardinality(Running \ {f}) = Cardinality(Running) - 1
    BY RunningFinite, FS_RemoveElement
  <2>2. IsFiniteSet(Running \ {f})
    BY RunningFinite, FS_RemoveElement
  <2>3. Cardinality(Running \ {f}) \in Nat
    BY <2>2, FS_CardinalityType
  <2> QED
    BY <2>1, <2>3, <1>1
<1>4. CASE waiters = <<>> \/ model' = "held"
  <2>1. /\ job' = [p \in Embedders |-> IF p \in Slotted \cup {f} THEN Over ELSE job[p]]
        /\ active' = active - 1 /\ waiters' = <<>>
    BY <1>4, <1>1 DEF Release
  <2>2. Running' = Running \ {f} /\ Slotted' = {}
    BY <2>1, <1>1, <1>2 DEF Running, Slotted
  <2>3. JobsMove
    BY <2>1, <1>1 DEF JobsMove, Moves
  <2>4. SlotsKept'
    BY <2>1, <2>2, <1>3 DEF SlotsKept, Waiting, Slotted
  <2>5. job' \in [Embedders -> Jobs]
    BY <2>1, <1>1, <1>2
  <2> QED
    BY <2>1, <2>3, <2>4, <2>5, <1>1, <1>3
<1>5. CASE ~(waiters = <<>> \/ model' = "held")
  <2> DEFINE h == Head(waiters)
  <2>1. /\ h \in Files /\ h \in Members(waiters) /\ Tail(waiters) \in Seq(Files)
        /\ Members(Tail(waiters)) = Members(waiters) \ {h} /\ OnceEach(Tail(waiters))
    BY <1>5, <1>1, LineMoves DEF SlotsKept, OnceEach
  <2>2. /\ job' = [job EXCEPT ![f] = Over, ![h].phase = "read"]
        /\ active' = active /\ waiters' = Tail(waiters)
    BY <1>5 DEF Release
  <2>3. Members(waiters) = Slotted /\ h \in Slotted
    BY <2>1, <1>1 DEF Members, Waiting
  <2> HIDE DEF h
  <2>4. h # f /\ job[h] \in Jobs /\ job[h].phase = "slot" /\ h \in Embedders
    BY <2>1, <2>3, <1>1 DEF Slotted
  <2>5. /\ job'[h] = [job[h] EXCEPT !.phase = "read"] /\ job'[f] = Over
        /\ \A p \in Embedders \ {f, h} : job'[p] = job[p]
        /\ job' = [p \in Embedders |-> job'[p]]
    BY <2>2, <2>4, <1>1
  <2>6. job'[h] \in Jobs /\ job'[h].phase = "read"
    BY <2>4, <2>5 DEF Jobs
  <2>7. job' \in [Embedders -> Jobs]
    BY <2>5, <2>6, <1>1, <1>2
  <2>8. Running' = (Running \ {f}) \cup {h} /\ Slotted' = Slotted \ {h}
    <3>1. ASSUME NEW g \in Files
          PROVE  /\ job'[g].phase \in {"read", "drop", "infer"} <=>
                      g \in (Running \ {f}) \cup {h}
                 /\ job'[g].phase = "slot" <=> g \in Slotted \ {h}
      <4>1. CASE g = f
        BY <4>1, <2>4, <2>5, <1>1, <1>2
      <4>2. CASE g = h
        BY <4>2, <2>6
      <4>3. CASE g \notin {f, h}
        BY <4>3, <2>5, <1>1 DEF Running, Slotted
      <4> QED
        BY <4>1, <4>2, <4>3
    <3>2. (Running \ {f}) \cup {h} \subseteq Files
      BY <2>1 DEF Running
    <3>3. Running' = (Running \ {f}) \cup {h}
      BY <3>1, <3>2 DEF Running
    <3>4. Slotted' = Slotted \ {h}
      BY <3>1, <1>1 DEF Slotted
    <3> QED
      BY <3>3, <3>4
  <2>9. JobsMove
    BY <2>5, <2>4, <2>1, <1>1 DEF JobsMove, Moves
  <2>10. Cardinality(Running') = active
    <3>1. IsFiniteSet(Running \ {f}) /\ h \notin Running \ {f}
      BY <2>4, RunningFinite, FS_RemoveElement DEF Running
    <3>2. Cardinality(Running') = Cardinality(Running \ {f}) + 1
      BY <3>1, <2>8, FS_AddElement
    <3> QED
      BY <3>2, <1>3, <1>1
  <2>11. SlotsKept'
    <3>1. active = Limit
      BY <1>5 DEF SlotsKept
    <3>2. Waiting' = Slotted'
      BY <2>1, <2>2, <2>3, <2>8 DEF Waiting, Members
    <3>3. \A i, j \in DOMAIN waiters' : waiters'[i] = waiters'[j] => i = j
      BY <2>1, <2>2 DEF OnceEach
    <3>4. active' = Cardinality(Running') /\ active' = Limit
      BY <3>1, <2>2, <2>10
    <3> QED
      BY <3>2, <3>3, <3>4 DEF SlotsKept, Slotted
  <2> QED
    BY <2>1, <2>2, <2>5, <2>7, <2>9, <2>11, <1>1
<1> QED
  BY <1>4, <1>5

SlotTypes == job \in [Embedders -> Jobs] /\ waiters \in Seq(Files) /\ active \in 0..Limit

Commands ==
  [at : {"none", "next", "look", "parsed", "embed"}, file : Files \cup {Null},
   sha : Contents \cup {Null}, bytes : Contents \cup {Null},
   todo : SUBSET Files, left : SUBSET Files, inline : BOOLEAN]

\* The command that turns to its next file keeps its type.
LEMMA TurnedOK ==
  ASSUME TypeOK, NEW left \in SUBSET Files
  PROVE  Turned(left) \in Commands /\ Turned(left).at = "next"
BY DEF TypeOK, Commands, Turned

\* An embed at work that ends, in either process.
LEMMA EndsOK ==
  ASSUME TypeOK, JobsOK, SlotsKept, NEW p \in Embedders,
         job[p].phase \in {"read", "drop", "infer"}, Ends(p)
  PROVE  /\ SlotTypes' /\ JobsMove /\ SlotsKept'
         /\ cli' \in Commands /\ (cli' = cli \/ cli'.at = "next")
         /\ chain' = chain
         /\ job'[p] \in {NoJob, Over}
<1> USE ConstantsAssumption
<1>1. /\ job \in [Embedders -> Jobs] /\ Cli \in Embedders /\ chain' = chain
      /\ waiters \in Seq(Files) /\ active \in 0..Limit /\ cli \in Commands
  BY DEF TypeOK, Embedders, Ends, Commands
<1>2. CASE p = Cli
  <2>1. /\ job' = [job EXCEPT ![Cli] = NoJob] /\ UNCHANGED <<waiters, active>>
        /\ cli' = [Turned({}) EXCEPT !.inline = TRUE]
    BY <1>2 DEF Ends
  <2>2. NoJob \in Jobs
    BY DEF NoJob, Jobs
  <2>3. SlotTypes' /\ job'[p] = NoJob
    BY <2>1, <2>2, <1>1, <1>2 DEF SlotTypes
  <2>4. JobsMove
    BY <2>1, <1>1 DEF JobsMove, Moves
  <2>5. \A f \in Files : job'[f] = job[f]
    BY <2>1, <1>1 DEF Embedders
  <2>6. SlotsKept'
    BY <2>1, <2>5, SlotsUntouched
  <2>7. cli' \in Commands /\ cli'.at = "next"
    <3>1. Turned({}) \in Commands /\ Turned({}).at = "next"
      BY TurnedOK
    <3> QED
      BY <3>1, <2>1 DEF Commands
  <2> QED
    BY <2>3, <2>4, <2>6, <2>7, <1>1
<1>3. CASE p # Cli
  <2>1. p \in Files /\ Release(p) /\ cli' = cli
    BY <1>3 DEF Ends, Embedders
  <2>2. p \in Running
    BY <2>1 DEF Running
  <2> QED
    BY <2>1, <2>2, <1>1, ReleaseOK DEF SlotTypes
<1> QED
  BY <1>2, <1>3

\* What is done about the vectors of the command's file.
LEMMA GateOK ==
  ASSUME TypeOK, JobsOK, SeenOK, SlotsKept, NEW r, Gate(r),
         cli.at \in {"look", "parsed"}, UNCHANGED <<waiters, active>>
  PROVE  /\ SlotTypes' /\ JobsMove /\ SlotsKept'
         /\ cli' \in Commands /\ cli'.at \in {"next", "embed"}
<1> USE ConstantsAssumption
<1>1. /\ job \in [Embedders -> Jobs] /\ Cli \in Embedders
      /\ waiters \in Seq(Files) /\ active \in 0..Limit /\ cli \in Commands
      /\ cli.file \in Files /\ cli.sha \in seen[cli.file] /\ cli.sha \in Contents
  BY DEF TypeOK, Embedders, SeenOK, Commands
<1>2. ASSUME NEW left \in SUBSET Files, Leaves(left)
      PROVE  job' = job /\ cli' \in Commands /\ cli'.at \in {"next", "embed"}
  BY <1>2, TurnedOK DEF Leaves
<1>3. CASE job' = job /\ cli' \in Commands /\ cli'.at \in {"next", "embed"}
  <2>1. SlotTypes' /\ JobsMove
    BY <1>1, <1>3 DEF SlotTypes, JobsMove, Moves
  <2>2. SlotsKept'
    BY <1>3, SlotsUntouched
  <2> QED
    BY <2>1, <2>2, <1>3
<1>4. CASE /\ cli' = [cli EXCEPT !.at = "embed", !.bytes = Null]
           /\ job' = [job EXCEPT ![Cli] = Starts(cli.file, cli.sha, "read")]
  <2>1. Starts(cli.file, cli.sha, "read") \in Jobs
    BY <1>1 DEF Starts, Jobs
  <2>2. SlotTypes'
    BY <2>1, <1>1, <1>4 DEF SlotTypes
  <2>3. JobsMove
    BY <1>1, <1>4 DEF JobsMove, Moves
  <2>4. \A f \in Files : job'[f] = job[f]
    BY <1>1, <1>4 DEF Embedders
  <2>5. SlotsKept'
    BY <2>4, SlotsUntouched
  <2>6. cli' \in Commands /\ cli'.at = "embed"
    BY <1>1, <1>4 DEF Commands
  <2> QED
    BY <2>2, <2>3, <2>5, <2>6
<1> QED
  <2>1. {cli.file} \in SUBSET Files /\ {} \in SUBSET Files
    BY <1>1
  <2> QED
    BY <2>1, <1>2, <1>3, <1>4 DEF Gate

-----------------------------------------------------------------------------
(***************************************************************************)
(* Every step keeps the types, what is remembered, and the slots.           *)
(***************************************************************************)
WorldTypes ==
  /\ disk \in [Files -> Contents \cup {Null}] /\ seen \in [Files -> SUBSET Contents]
  /\ row \in [Files -> [sha : Contents \cup {Null}, stamp : Contents \cup {Null}]]
  /\ vec \in [Files -> Contents \cup {Null}]
  /\ queued \subseteq Files /\ model \in {"here", "missing", "held"} /\ up \in BOOLEAN
  /\ taken \in [file : Files \cup {Null}, bytes : Contents \cup {Null}]
  /\ chain \in [Files -> Seq(Contents)]
  /\ walk \subseteq Files /\ wasReady \in BOOLEAN
  /\ cli \in Commands
  /\ events \in 0..MaxEvents /\ forgone \subseteq Files

\* The two parts make the type invariant.
LEMMA TypesSplit == TypeOK <=> SlotTypes /\ WorldTypes
BY DEF TypeOK, SlotTypes, WorldTypes, Commands

\* And so after a step.
LEMMA TypesSplitNext == TypeOK' <=> SlotTypes' /\ WorldTypes'
BY DEF TypeOK, SlotTypes, WorldTypes, Commands

\* What a step must show to keep them.
LEMMA BaseKept ==
  ASSUME Base, JobsMove, SlotTypes', WorldTypes', SlotsKept', SeenOK',
         \A f \in Files : seen[f] \subseteq seen'[f]
  PROVE  Base' /\ JobsMove
BY JobsMoveKeepJobs, TypesSplitNext DEF Base

\* A step that leaves the embeds alone.
LEMMA EmbedsUntouched ==
  ASSUME Base, UNCHANGED <<job, waiters, active>>
  PROVE  SlotTypes' /\ JobsMove /\ SlotsKept'
BY SlotsUntouched, TypesSplit DEF Base, SlotTypes, JobsMove, Moves

\* A spent event stays within the bound.
LEMMA SpendOK ==
  ASSUME WorldTypes, Spend
  PROVE  events' \in 0..MaxEvents
BY ConstantsAssumption DEF WorldTypes, Spend

\* An edit: what the file held is remembered.
LEMMA EditKeepsBase ==
  ASSUME Base, NEW f \in Files, Edit(f)
  PROVE  Base' /\ JobsMove
<1> USE ConstantsAssumption
<1>1. WorldTypes /\ SeenOK
  BY TypesSplit DEF Base
<1>2. UNCHANGED <<job, waiters, active>>
  BY DEF Edit, slots
<1>3. WorldTypes'
  BY <1>1, SpendOK DEF WorldTypes, Edit, slots, loop
<1>4. \A g \in Files : seen[g] \subseteq seen'[g]
  BY <1>1 DEF WorldTypes, Edit
<1>5. \A g \in Files : disk'[g] \in seen'[g] \cup {Null}
  <2> SUFFICES ASSUME NEW g \in Files PROVE disk'[g] \in seen'[g] \cup {Null}
    OBVIOUS
  <2>1. CASE g = f
    BY <2>1, <1>1 DEF WorldTypes, Edit
  <2>2. CASE g # f
    BY <2>2, <1>1 DEF WorldTypes, SeenOK, Edit
  <2> QED
    BY <2>1, <2>2
<1>6. UNCHANGED <<row, vec, chain, taken, cli>>
  BY DEF Edit, slots
<1>7. SeenOK'
  BY <1>1, <1>4, <1>5, <1>6 DEF SeenOK
<1> QED
  BY <1>2, <1>3, <1>4, <1>7, EmbedsUntouched, BaseKept

\* The steps that change neither files, rows, embeds nor commands.
LEMMA QuietKeepsBase ==
  ASSUME Base, HoldEnds \/ (\E f \in Files : Enqueue(f) \/ Take(f)) \/ Idle \/ Start
  PROVE  Base' /\ JobsMove
<1> USE ConstantsAssumption
<1>1. WorldTypes /\ SeenOK
  BY TypesSplit DEF Base
<1>2. UNCHANGED <<disk, seen, row, vec, chain, cli, job, waiters, active, events>>
  BY DEF HoldEnds, Enqueue, Take, Idle, Start, files, slots, loop
<1> DEFINE
      Flags == /\ queued' \subseteq Files /\ model' \in {"here", "missing", "held"}
               /\ up' \in BOOLEAN /\ walk' \subseteq Files /\ wasReady' \in BOOLEAN
               /\ forgone' \subseteq Files
      TakenOK == /\ taken' \in [file : Files \cup {Null}, bytes : Contents \cup {Null}]
                 /\ taken' # Nothing =>
                      taken'.file \in Files /\ taken'.bytes \in seen[taken'.file] \cup {Null}
<1>3. Flags
  <2>1. CASE HoldEnds
    BY <2>1, <1>1 DEF HoldEnds, WorldTypes, loop
  <2>2. ASSUME NEW f \in Files, Enqueue(f) \/ Take(f) PROVE Flags
    BY <2>2, <1>1 DEF Enqueue, Take, WorldTypes, loop
  <2>3. CASE Idle
    BY <2>3, <1>1 DEF Idle, WorldTypes
  <2>4. CASE Start
    BY <2>4, <1>1 DEF Start, WorldTypes
  <2> QED
    BY <2>1, <2>2, <2>3, <2>4
<1>4. TakenOK
  <2>1. CASE taken' = taken
    BY <2>1, <1>1 DEF WorldTypes, SeenOK
  <2>2. ASSUME NEW f \in Files, taken' = [file |-> f, bytes |-> disk[f]] PROVE TakenOK
    BY <2>2, <1>1 DEF WorldTypes, SeenOK
  <2> QED
    BY <2>1, <2>2 DEF HoldEnds, Enqueue, Take, Idle, Start
<1>5. WorldTypes' /\ SeenOK'
  BY <1>1, <1>2, <1>3, <1>4 DEF WorldTypes, SeenOK
<1> QED
  BY <1>2, <1>5, EmbedsUntouched, BaseKept

\* An embed at work, and what the command keeps when one of its own ends.
LEMMA EndsKeepsRest ==
  ASSUME Base, NEW p \in Embedders, job[p].phase \in {"read", "drop", "infer"}, Ends(p)
  PROVE  /\ SlotTypes' /\ JobsMove /\ SlotsKept'
         /\ chain' = chain /\ cli' \in Commands
         /\ cli'.at \in {"look", "parsed"} => cli' = cli
BY EndsOK DEF Base

\* The steps of an embed that end it.
LEMMA EmbedEndKeepsBase ==
  ASSUME Base, NEW p \in Embedders, Drop(p) \/ WriteVectors(p) \/ Refused(p) \/ EmbedFails(p)
  PROVE  Base' /\ JobsMove
<1> USE ConstantsAssumption
<1> DEFINE f == job[p].file
<1>1. WorldTypes /\ SeenOK /\ JobsOK
  BY TypesSplit DEF Base
<1>2. job[p].phase \in {"drop", "infer"} /\ Ends(p)
  BY DEF Drop, WriteVectors, Refused, EmbedFails, Turn
<1>3. /\ f \in Files /\ job[p].sha \in seen[f] /\ job[p].sha \in Contents
      /\ job[p].text \in Contents
  BY <1>1, <1>2 DEF JobsOK, Idle0, HasText, WorldTypes
<1> HIDE DEF f
<1>4. /\ SlotTypes' /\ JobsMove /\ SlotsKept' /\ chain' = chain /\ cli' \in Commands
      /\ cli'.at \in {"look", "parsed"} => cli' = cli
  BY <1>2, EndsKeepsRest
<1>5. UNCHANGED <<disk, seen, queued, up, taken, walk, wasReady>>
  BY DEF Drop, WriteVectors, Refused, EmbedFails, files, loop
<1>6. \/ UNCHANGED <<row, vec>> /\ (forgone' = forgone \/ forgone' = forgone \cup {f})
      \/ \E v \in Contents \cup {Null} :
           /\ vec' = [vec EXCEPT ![f] = v]
           /\ \/ UNCHANGED <<row, forgone>> /\ v = Null
              \/ /\ row[f].sha = job[p].sha
                 /\ row' = [row EXCEPT ![f].stamp = job[p].sha] /\ forgone' = forgone \ {f}
  <2>1. CASE Drop(p)
    BY <2>1 DEF Drop, Stamps, f
  <2>2. CASE WriteVectors(p)
    <3>1. CASE row[f].sha = job[p].sha
      <4>1. Stamps(p, job[p].text)
        BY <2>2, <3>1 DEF WriteVectors, f
      <4> QED
        BY <4>1, <3>1, <1>3 DEF Stamps, f
    <3>2. CASE row[f].sha # job[p].sha
      BY <2>2, <3>2 DEF WriteVectors, f
    <3> QED
      BY <3>1, <3>2
  <2>3. CASE Refused(p)
    BY <2>3 DEF Refused
  <2>4. CASE EmbedFails(p)
    BY <2>4 DEF EmbedFails, f
  <2> QED
    BY <2>1, <2>2, <2>3, <2>4
<1>7. model' \in {"here", "missing", "held"} /\ events' \in 0..MaxEvents
  <2>1. CASE EmbedFails(p)
    BY <2>1, <1>1, SpendOK DEF EmbedFails, WorldTypes
  <2>2. CASE Drop(p) \/ WriteVectors(p) \/ Refused(p)
    BY <2>2, <1>1 DEF Drop, WriteVectors, Refused, WorldTypes
  <2> QED
    BY <2>1, <2>2
<1>8. /\ row' \in [Files -> [sha : Contents \cup {Null}, stamp : Contents \cup {Null}]]
      /\ vec' \in [Files -> Contents \cup {Null}] /\ forgone' \subseteq Files
  <2>1. /\ row \in [Files -> [sha : Contents \cup {Null}, stamp : Contents \cup {Null}]]
        /\ vec \in [Files -> Contents \cup {Null}] /\ forgone \subseteq Files
    BY <1>1 DEF WorldTypes
  <2>2. \A v \in Contents \cup {Null} :
          [vec EXCEPT ![f] = v] \in [Files -> Contents \cup {Null}]
    BY <2>1
  <2>3. [row EXCEPT ![f].stamp = job[p].sha]
          \in [Files -> [sha : Contents \cup {Null}, stamp : Contents \cup {Null}]]
    BY <2>1, <1>3
  <2> QED
    BY <2>1, <2>2, <2>3, <1>3, <1>6
<1> DEFINE Told(g) == /\ row'[g].sha = row[g].sha
                      /\ row'[g].sha = Null => row'[g].stamp = Null /\ vec'[g] = Null
<1>9. ASSUME NEW g \in Files PROVE Told(g)
  <2>1. row[g].sha = Null => row[g].stamp = Null /\ vec[g] = Null
    BY <1>1 DEF SeenOK
  <2>2. CASE UNCHANGED <<row, vec>>
    BY <2>1, <2>2
  <2>3. ASSUME NEW v \in Contents \cup {Null}, vec' = [vec EXCEPT ![f] = v],
               row' = row, v = Null
        PROVE  Told(g)
    BY <2>1, <2>3, <1>1 DEF WorldTypes
  <2>4. ASSUME NEW v \in Contents \cup {Null}, vec' = [vec EXCEPT ![f] = v],
               row[f].sha = job[p].sha, row' = [row EXCEPT ![f].stamp = job[p].sha]
        PROVE  Told(g)
    BY <2>1, <2>4, <1>1, <1>3 DEF WorldTypes
  <2> QED
    BY <1>6, <2>2, <2>3, <2>4
<1>10. WorldTypes'
  BY <1>1, <1>4, <1>5, <1>7, <1>8 DEF WorldTypes
<1>11. SeenOK'
  BY <1>1, <1>4, <1>5, <1>9 DEF SeenOK
<1> QED
  BY <1>4, <1>5, <1>10, <1>11, BaseKept

\* An embed that reads its text, or finds no file.
LEMMA ReadTextKeepsBase ==
  ASSUME Base, NEW p \in Embedders, ReadText(p)
  PROVE  Base' /\ (disk[job[p].file] = Null => JobsMove)
<1> USE ConstantsAssumption
<1> DEFINE f == job[p].file
           text == disk[f]
<1>1. WorldTypes /\ SeenOK /\ JobsOK /\ TypeOK /\ SlotTypes
  BY TypesSplit DEF Base
<1>2. /\ UNCHANGED <<disk, seen, row, vec, queued, model, up, taken, walk, wasReady, events, forgone>>
      /\ job[p].phase = "read"
  BY DEF ReadText, Turn, files, loop
<1>3. f \in Files /\ text \in Contents \cup {Null}
  BY <1>1, <1>2 DEF JobsOK, Idle0, WorldTypes
<1>4. CASE text = Null
  <2>1. Ends(p)
    BY <1>4 DEF ReadText
  <2>2. /\ SlotTypes' /\ JobsMove /\ SlotsKept' /\ chain' = chain /\ cli' \in Commands
        /\ cli'.at \in {"look", "parsed"} => cli' = cli
    BY <2>1, <1>2, EndsKeepsRest
  <2>3. WorldTypes' /\ SeenOK'
    BY <2>2, <1>1, <1>2 DEF WorldTypes, SeenOK
  <2> QED
    BY <2>2, <2>3, <1>2, BaseKept
<1>5. CASE text # Null
  <2> DEFINE j == [job[p] EXCEPT !.text = text, !.phase = IF text \in Skipped THEN "drop" ELSE "infer"]
  <2>1. job' = [job EXCEPT ![p] = j] /\ UNCHANGED <<chain, waiters, active, cli>>
    BY <1>5 DEF ReadText, slots
  <2>2. job[p] \in Jobs /\ job \in [Embedders -> Jobs]
    BY <1>1 DEF SlotTypes
  <2>3. /\ j \in Jobs /\ j.file = job[p].file /\ j.sha = job[p].sha /\ j.text = text
        /\ j.phase = IF text \in Skipped THEN "drop" ELSE "infer"
    BY <2>2, <1>3, <1>5 DEF Jobs
  <2> HIDE DEF j
  <2>4. /\ job'[p] = j /\ \A q \in Embedders \ {p} : job'[q] = job[q]
        /\ job' \in [Embedders -> Jobs]
    BY <2>1, <2>2, <2>3
  <2>5. Running' = Running /\ Slotted' = Slotted
    <3>1. ASSUME NEW g \in Files
          PROVE  /\ job'[g].phase \in {"read", "drop", "infer"} <=> job[g].phase \in {"read", "drop", "infer"}
                 /\ job'[g].phase = "slot" <=> job[g].phase = "slot"
      BY <2>3, <2>4, <1>2 DEF Embedders
    <3> QED
      BY <3>1 DEF Running, Slotted
  <2>6. SlotsKept'
    <3>1. Waiting' = Waiting
      BY <2>1 DEF Waiting
    <3> QED
      BY <3>1, <2>1, <2>5 DEF SlotsKept, Slotted, Base
  <2>7. JobsOK'
    <3>1. /\ p \in Files => job'[p].file = p
          /\ job'[p].file \in Files /\ job'[p].sha \in seen'[job'[p].file]
          /\ job'[p].text \in Contents
          /\ job'[p].phase = "drop" => job'[p].text \in Skipped
          /\ job'[p].phase = "infer" => job'[p].text \notin Skipped
          /\ job'[p].phase \notin {"slot", "over"}
      BY <2>3, <2>4, <1>1, <1>2, <1>3, <1>5 DEF JobsOK, Idle0
    <3> QED
      BY <3>1, <2>4, <1>1, <1>2 DEF JobsOK, Idle0, HasText, Embedders
  <2>8. WorldTypes' /\ SeenOK' /\ SlotTypes'
    BY <1>1, <1>2, <2>1, <2>4 DEF WorldTypes, SeenOK, SlotTypes
  <2> QED
    BY <1>5, <2>6, <2>7, <2>8, TypesSplitNext DEF Base
<1> QED
  BY <1>4, <1>5

\* A row is written: what it says of its file, the file has held.
LEMMA WrittenOK ==
  ASSUME WorldTypes, SeenOK, NEW f \in Files, NEW c \in seen[f],
         row' = [row EXCEPT ![f] = Written(@, c)], UNCHANGED <<vec, seen>>
  PROVE  /\ row' \in [Files -> [sha : Contents \cup {Null}, stamp : Contents \cup {Null}]]
         /\ \A g \in Files : row'[g].sha \in seen'[g] \cup {Null}
         /\ \A g \in Files : row'[g].sha = Null => row'[g].stamp = Null /\ vec'[g] = Null
         /\ row'[f].sha = c
<1>1. /\ row \in [Files -> [sha : Contents \cup {Null}, stamp : Contents \cup {Null}]]
      /\ c \in Contents /\ c # Null
  BY ConstantsAssumption DEF WorldTypes
<1>2. /\ Written(row[f], c) \in [sha : Contents \cup {Null}, stamp : Contents \cup {Null}]
      /\ Written(row[f], c).sha = c
  BY <1>1 DEF Written
<1>3. row'[f] = Written(row[f], c) /\ \A g \in Files \ {f} : row'[g] = row[g]
  BY <1>1
<1> QED
  BY <1>1, <1>2, <1>3 DEF SeenOK

\* What a longer line holds.
LEMMA AppendedItems ==
  ASSUME NEW S, NEW s \in Seq(S), NEW e \in S
  PROVE  /\ Append(s, e) \in Seq(S)
         /\ \A i \in DOMAIN Append(s, e) :
              (i \in DOMAIN s /\ Append(s, e)[i] = s[i]) \/ Append(s, e)[i] = e
<1> DEFINE t == Append(s, e)
<1>1. /\ t \in Seq(S) /\ DOMAIN t = 1..(Len(s) + 1) /\ DOMAIN s = 1..Len(s) /\ Len(s) \in Nat
      /\ \A i \in 1..Len(s) : t[i] = s[i]
      /\ t[Len(s) + 1] = e
  BY AppendProperties, LenProperties
<1> HIDE DEF t
<1>2. \A i \in DOMAIN t : (i \in DOMAIN s /\ t[i] = s[i]) \/ t[i] = e
  BY <1>1
<1> QED
  BY <1>1, <1>2 DEF t

\* The file taken is indexed, or found gone.
LEMMA IndexTakenKeepsBase ==
  ASSUME Base, IndexTaken
  PROVE  Base' /\ JobsMove
<1> USE ConstantsAssumption
<1> DEFINE f == taken.file
           c == taken.bytes
<1>1. WorldTypes /\ SeenOK /\ TypeOK /\ SlotTypes /\ SlotsKept
  BY TypesSplit DEF Base
<1>2. /\ UNCHANGED <<disk, seen, queued, model, up, walk, wasReady, cli, events, forgone>>
      /\ taken' = Nothing /\ f \in Files /\ c \in seen[f] \cup {Null}
  BY <1>1 DEF IndexTaken, files, loop, SeenOK
<1>3. /\ taken' \in [file : Files \cup {Null}, bytes : Contents \cup {Null}]
      /\ \A g \in Files : seen[g] \subseteq seen'[g]
  BY <1>2 DEF Nothing
<1>6. c = Null => /\ row' = [row EXCEPT ![f] = NoRow] /\ vec' = [vec EXCEPT ![f] = Null]
                  /\ UNCHANGED <<job, chain, waiters, active>>
  BY DEF IndexTaken, slots
<1>7. c # Null => /\ row' = [row EXCEPT ![f] = Written(@, c)] /\ vec' = vec
                  /\ \/ UNCHANGED <<job, chain, waiters, active>>
                     \/ job[f] = NoJob /\ RunEmbed(f, c) /\ chain' = chain
                     \/ /\ chain' = [chain EXCEPT ![f] = Append(@, c)]
                        /\ UNCHANGED <<waiters, active, job>>
  BY DEF IndexTaken, slots
<1> HIDE DEF f, c
<1>4. CASE c = Null
  <2>1. /\ row' = [row EXCEPT ![f] = NoRow] /\ vec' = [vec EXCEPT ![f] = Null]
        /\ UNCHANGED <<job, chain, waiters, active>>
    BY <1>4, <1>6
  <2>2. /\ row' \in [Files -> [sha : Contents \cup {Null}, stamp : Contents \cup {Null}]]
        /\ vec' \in [Files -> Contents \cup {Null}]
        /\ row'[f] = NoRow /\ vec'[f] = Null
        /\ \A g \in Files \ {f} : row'[g] = row[g] /\ vec'[g] = vec[g]
    BY <2>1, <1>1, <1>2 DEF WorldTypes, NoRow
  <2>3. /\ \A g \in Files : row'[g].sha \in seen'[g] \cup {Null}
        /\ \A g \in Files : row'[g].sha = Null => row'[g].stamp = Null /\ vec'[g] = Null
    BY <2>2, <1>1, <1>2 DEF NoRow, SeenOK
  <2>4. WorldTypes'
    BY <2>1, <2>2, <1>1, <1>2, <1>3 DEF WorldTypes
  <2>5. SeenOK'
    <3>1. UNCHANGED <<disk, seen, chain, cli>> /\ taken' = Nothing
      BY <2>1, <1>2
    <3>2. /\ \A g \in Files : disk'[g] \in seen'[g] \cup {Null}
          /\ \A g \in Files : \A i \in DOMAIN chain'[g] : chain'[g][i] \in seen'[g]
      BY <3>1, <1>1 DEF SeenOK
    <3>3. /\ cli'.at \in {"look", "parsed"} => cli'.file \in Files /\ cli'.sha \in seen'[cli'.file]
          /\ cli'.at = "parsed" => cli'.bytes \in seen'[cli'.file]
      BY <3>1, <1>1 DEF SeenOK
    <3> QED
      BY <3>1, <3>2, <3>3, <2>3 DEF SeenOK
  <2> QED
    BY <2>1, <2>4, <2>5, <1>3, EmbedsUntouched, BaseKept
<1>5. CASE c # Null
  <2>1. row' = [row EXCEPT ![f] = Written(@, c)] /\ vec' = vec /\ c \in seen[f] /\ c \in Contents
    BY <1>5, <1>2, <1>1, <1>7 DEF WorldTypes
  <2>2. /\ row' \in [Files -> [sha : Contents \cup {Null}, stamp : Contents \cup {Null}]]
        /\ \A g \in Files : row'[g].sha \in seen'[g] \cup {Null}
        /\ \A g \in Files : row'[g].sha = Null => row'[g].stamp = Null /\ vec'[g] = Null
    BY <2>1, <1>1, <1>2, WrittenOK
  <2>3. \/ UNCHANGED <<job, chain, waiters, active>>
        \/ job[f] = NoJob /\ RunEmbed(f, c) /\ chain' = chain
        \/ chain' = [chain EXCEPT ![f] = Append(@, c)] /\ UNCHANGED <<waiters, active, job>>
    BY <1>5, <1>7
  <2>4. SlotTypes' /\ JobsMove /\ SlotsKept'
    <3>1. CASE UNCHANGED <<job, waiters, active>>
      BY <3>1, EmbedsUntouched
    <3>2. CASE job[f] = NoJob /\ RunEmbed(f, c)
      <4>1. job[f].phase \in Idle0
        BY <3>2 DEF NoJob, Idle0
      <4> QED
        BY <3>2, <4>1, <1>1, <1>2, <2>1, RunEmbedOK DEF SlotTypes
    <3> QED
      BY <3>1, <3>2, <2>3
  <2>5. chain' \in [Files -> Seq(Contents)] /\ \A g \in Files : \A i \in DOMAIN chain'[g] : chain'[g][i] \in seen'[g]
    <3>1. CASE chain' = chain
      BY <3>1, <1>1, <1>2 DEF WorldTypes, SeenOK
    <3>2. CASE chain' = [chain EXCEPT ![f] = Append(@, c)]
      <4>1. chain \in [Files -> Seq(Contents)] /\ chain[f] \in Seq(Contents)
        BY <1>1, <1>2 DEF WorldTypes
      <4>2. /\ Append(chain[f], c) \in Seq(Contents)
            /\ \A i \in DOMAIN Append(chain[f], c) :
                 (i \in DOMAIN chain[f] /\ Append(chain[f], c)[i] = chain[f][i])
                 \/ Append(chain[f], c)[i] = c
        <5> DEFINE s == chain[f]
        <5>1. s \in Seq(Contents) /\ c \in Contents
          BY <4>1, <2>1
        <5> HIDE DEF s
        <5>2. /\ Append(s, c) \in Seq(Contents)
              /\ \A i \in DOMAIN Append(s, c) :
                   (i \in DOMAIN s /\ Append(s, c)[i] = s[i]) \/ Append(s, c)[i] = c
          BY <5>1, AppendedItems
        <5> QED
          BY <5>2 DEF s
      <4>3. chain'[f] = Append(chain[f], c) /\ \A g \in Files \ {f} : chain'[g] = chain[g]
        BY <3>2, <4>1, <1>2
      <4>4. \A i \in DOMAIN chain'[f] : chain'[f][i] \in seen[f]
        <5>1. \A i \in DOMAIN chain[f] : chain[f][i] \in seen[f]
          BY <1>1, <1>2 DEF SeenOK
        <5> QED
          BY <5>1, <4>2, <4>3, <2>1
      <4>5. chain' \in [Files -> Seq(Contents)]
        BY <3>2, <4>1, <4>2
      <4>6. \A g \in Files \ {f} : \A i \in DOMAIN chain'[g] : chain'[g][i] \in seen[g]
        BY <4>3, <1>1 DEF SeenOK
      <4> QED
        BY <4>4, <4>5, <4>6, <1>2
    <3> QED
      BY <3>1, <3>2, <2>3
  <2>6. WorldTypes' /\ SeenOK'
    BY <2>1, <2>2, <2>5, <1>1, <1>2, <1>3 DEF WorldTypes, SeenOK
  <2> QED
    BY <2>4, <2>6, <1>3, BaseKept
<1> QED
  BY <1>4, <1>5

\* The next embed of a file begins, or there is none.
LEMMA NextInChainKeepsBase ==
  ASSUME Base, NEW f \in Files, NextInChain(f)
  PROVE  Base' /\ JobsMove
<1> USE ConstantsAssumption
<1>1. WorldTypes /\ SeenOK /\ TypeOK /\ SlotTypes /\ SlotsKept
  BY TypesSplit DEF Base
<1>2. /\ UNCHANGED <<disk, seen, row, vec, queued, model, up, taken, walk, wasReady, cli, events, forgone>>
      /\ job[f].phase = "over"
  BY DEF NextInChain, files, loop
<1>3. chain \in [Files -> Seq(Contents)] /\ f \in Embedders /\ job \in [Embedders -> Jobs]
  BY <1>1 DEF WorldTypes, SlotTypes, Embedders
<1>4. CASE chain[f] = <<>>
  <2>1. job' = [job EXCEPT ![f] = NoJob] /\ UNCHANGED <<chain, waiters, active>>
    BY <1>4 DEF NextInChain, slots
  <2>2. NoJob \in Jobs /\ NoJob.phase = "none"
    BY DEF NoJob, Jobs
  <2>3. SlotTypes' /\ JobsMove
    BY <2>1, <2>2, <1>1, <1>3 DEF SlotTypes, JobsMove, Moves
  <2>4. SlotsKept'
    <3>1. ASSUME NEW g \in Files
          PROVE  /\ job'[g].phase \in {"read", "drop", "infer"} <=> job[g].phase \in {"read", "drop", "infer"}
                 /\ job'[g].phase = "slot" <=> job[g].phase = "slot"
      BY <2>1, <2>2, <1>2, <1>3 DEF Embedders
    <3>2. Running' = Running /\ Slotted' = Slotted /\ Waiting' = Waiting
      BY <3>1, <2>1 DEF Running, Slotted, Waiting
    <3> QED
      BY <3>2, <2>1, <1>1 DEF SlotsKept, Slotted
  <2>5. WorldTypes' /\ SeenOK'
    BY <2>1, <1>1, <1>2 DEF WorldTypes, SeenOK
  <2> QED
    BY <2>3, <2>4, <2>5, <1>2, BaseKept
<1>5. CASE chain[f] # <<>>
  <2> DEFINE s == Head(chain[f])
  <2>1. RunEmbed(f, s) /\ chain' = [chain EXCEPT ![f] = Tail(@)]
    BY <1>5 DEF NextInChain
  <2>2. /\ Tail(chain[f]) \in Seq(Contents) /\ s = chain[f][1] /\ 1 \in DOMAIN chain[f]
        /\ DOMAIN Tail(chain[f]) = 1..(Len(chain[f]) - 1) /\ DOMAIN chain[f] = 1..Len(chain[f])
        /\ Len(chain[f]) \in Nat \ {0}
        /\ \A i \in 1..(Len(chain[f]) - 1) : Tail(chain[f])[i] = chain[f][i + 1]
    BY <1>3, <1>5, HeadTailProperties, EmptySeq, LenProperties
  <2>3. \A i \in DOMAIN chain[f] : chain[f][i] \in seen[f]
    BY <1>1 DEF SeenOK
  <2>4. s \in seen[f]
    BY <2>2, <2>3
  <2> HIDE DEF s
  <2>5. job[f].phase \in Idle0
    BY <1>2 DEF Idle0
  <2>6. SlotTypes' /\ JobsMove /\ SlotsKept'
    BY <2>1, <2>4, <2>5, <1>1, RunEmbedOK DEF SlotTypes
  <2>7. /\ chain' \in [Files -> Seq(Contents)] /\ chain'[f] = Tail(chain[f])
        /\ \A g \in Files \ {f} : chain'[g] = chain[g]
    BY <2>1, <2>2, <1>3
  <2>8. \A g \in Files : \A i \in DOMAIN chain'[g] : chain'[g][i] \in seen'[g]
    <3>1. \A i \in DOMAIN chain'[f] : chain'[f][i] \in seen[f]
      <4> SUFFICES ASSUME NEW i \in DOMAIN chain'[f] PROVE chain'[f][i] \in seen[f]
        OBVIOUS
      <4>1. i + 1 \in DOMAIN chain[f] /\ chain'[f][i] = chain[f][i + 1]
        BY <2>2, <2>7
      <4> QED
        BY <4>1, <2>3
    <3>2. \A g \in Files \ {f} : \A i \in DOMAIN chain'[g] : chain'[g][i] \in seen[g]
      BY <2>7, <1>1 DEF SeenOK
    <3> QED
      BY <3>1, <3>2, <1>2
  <2>9. WorldTypes' /\ SeenOK'
    BY <2>7, <2>8, <1>1, <1>2 DEF WorldTypes, SeenOK
  <2> QED
    BY <2>6, <2>9, <1>2, BaseKept
<1> QED
  BY <1>4, <1>5

\* The worker dies with all its embeds.
LEMMA DieKeepsBase ==
  ASSUME Base, Die
  PROVE  Base' /\ JobsMove
<1> USE ConstantsAssumption
<1>1. WorldTypes /\ SeenOK /\ SlotTypes
  BY TypesSplit DEF Base
<1>2. /\ UNCHANGED <<disk, seen, row, vec, model, walk, wasReady, cli, forgone>>
      /\ taken' = Nothing /\ up' = FALSE /\ queued' \subseteq Files /\ events' \in 0..MaxEvents
      /\ chain' = [f \in Files |-> <<>>] /\ waiters' = <<>> /\ active' = 0
  BY <1>1, SpendOK DEF Die, files, loop, WorldTypes
<1>3. job' = [p \in Embedders |-> IF p = Cli THEN job[p] ELSE NoJob]
  BY DEF Die
<1>4. NoJob \in Jobs /\ NoJob.phase = "none"
  BY DEF NoJob, Jobs
<1>5. SlotTypes' /\ JobsMove
  BY <1>1, <1>2, <1>3, <1>4 DEF SlotTypes, JobsMove, Moves
<1>6. SlotsKept'
  <2>1. \A f \in Files : job'[f].phase = "none"
    BY <1>3, <1>4 DEF Embedders
  <2>2. Running' = {} /\ Slotted' = {}
    BY <2>1 DEF Running, Slotted
  <2>3. Waiting' = {}
    BY <1>2 DEF Waiting
  <2>4. Cardinality(Running') = 0
    BY <2>2, FS_EmptySet
  <2> QED
    BY <2>2, <2>3, <2>4, <1>2 DEF SlotsKept, Slotted
<1>7. WorldTypes'
  <2>1. chain' \in [Files -> Seq(Contents)]
    BY <1>2
  <2>2. taken' \in [file : Files \cup {Null}, bytes : Contents \cup {Null}]
    BY <1>2 DEF Nothing
  <2> QED
    BY <2>1, <2>2, <1>1, <1>2 DEF WorldTypes
<1>8. SeenOK'
  <2>1. \A f \in Files : \A i \in DOMAIN chain'[f] : chain'[f][i] \in seen'[f]
    BY <1>2
  <2> QED
    BY <2>1, <1>1, <1>2 DEF SeenOK
<1> QED
  BY <1>2, <1>5, <1>6, <1>7, <1>8, BaseKept

\* What the command knows of its file, it has seen there.
CommandSeen ==
  /\ cli.at \in {"look", "parsed"} => cli.file \in Files /\ cli.sha \in seen[cli.file]
  /\ cli.at = "parsed" => cli.bytes \in seen[cli.file]

\* A command that is not at work has its type.
LEMMA CommandTypes ==
  NoCommand \in Commands /\ NoCommand.at = "none"
BY DEF NoCommand, Commands

\* The command begins, and hashes a file.
LEMMA OpenHashKeepsBase ==
  ASSUME Base, Open \/ \E f \in Files : Hash(f)
  PROVE  Base' /\ JobsMove
<1> USE ConstantsAssumption
<1>1. WorldTypes /\ SeenOK /\ cli \in Commands
  BY TypesSplit DEF Base, WorldTypes
<1>2. /\ UNCHANGED <<disk, seen, row, vec, queued, model, up, taken, chain, walk, wasReady, forgone>>
      /\ UNCHANGED <<job, waiters, active>>
  BY DEF Open, Hash, files, slots, loop
<1>3. events' \in 0..MaxEvents
  BY <1>1, SpendOK DEF Open, Hash, WorldTypes
<1>4. cli' \in Commands /\ CommandSeen'
  <2>1. CASE Open
    <3>1. cli' \in Commands /\ cli'.at = "next"
      BY <2>1, CommandTypes DEF Open, Commands
    <3> QED
      BY <3>1 DEF CommandSeen
  <2>2. ASSUME NEW f \in Files, Hash(f), disk[f] = Null PROVE cli' \in Commands /\ CommandSeen'
    <3>1. cli' = [cli EXCEPT !.todo = @ \ {f}] /\ cli.at = "next"
      BY <2>2 DEF Hash
    <3>2. cli' \in Commands /\ cli'.at = "next"
      BY <3>1, <1>1 DEF Commands
    <3> QED
      BY <3>2 DEF CommandSeen
  <2>3. ASSUME NEW f \in Files, Hash(f), disk[f] # Null PROVE cli' \in Commands /\ CommandSeen'
    <3>1. cli' = [cli EXCEPT !.at = "look", !.file = f, !.sha = disk[f], !.todo = @ \ {f}]
      BY <2>3 DEF Hash
    <3>2. disk[f] \in seen[f] /\ disk[f] \in Contents
      BY <2>3, <1>1 DEF SeenOK, WorldTypes
    <3>3. cli' \in Commands /\ cli'.at = "look" /\ cli'.file = f /\ cli'.sha = disk[f]
      BY <3>1, <3>2, <1>1 DEF Commands
    <3> QED
      BY <3>2, <3>3, <1>2 DEF CommandSeen
  <2> QED
    BY <2>1, <2>2, <2>3
<1>5. WorldTypes' /\ SeenOK'
  BY <1>1, <1>2, <1>3, <1>4 DEF WorldTypes, SeenOK, CommandSeen
<1> QED
  BY <1>2, <1>5, EmbedsUntouched, BaseKept

\* The row is looked up, and the file read to be parsed.
LEMMA LookKeepsBase ==
  ASSUME Base, Look
  PROVE  Base' /\ JobsMove
<1> USE ConstantsAssumption
<1>1. WorldTypes /\ SeenOK /\ cli \in Commands /\ TypeOK /\ JobsOK /\ SlotsKept
  BY TypesSplit DEF Base, WorldTypes
<1>2. /\ UNCHANGED <<disk, seen, row, vec, queued, model, up, taken, chain, walk, wasReady, events, forgone>>
      /\ UNCHANGED <<waiters, active>> /\ cli.at = "look"
  BY DEF Look, files, slots, loop
<1>3. cli.file \in Files /\ cli.sha \in seen[cli.file]
  BY <1>1, <1>2 DEF SeenOK
<1>4. SlotTypes' /\ JobsMove /\ SlotsKept' /\ cli' \in Commands /\ CommandSeen'
  <2>1. CASE row[cli.file].sha = cli.sha
    <3>1. Gate(row[cli.file])
      BY <2>1 DEF Look
    <3>2. SlotTypes' /\ JobsMove /\ SlotsKept' /\ cli' \in Commands /\ cli'.at \in {"next", "embed"}
      BY <3>1, <1>1, <1>2, GateOK
    <3> QED
      BY <3>2 DEF CommandSeen
  <2>2. CASE row[cli.file].sha # cli.sha /\ disk[cli.file] = Null
    <3>1. Leaves({})
      BY <2>2 DEF Look
    <3>2. job' = job /\ cli' \in Commands /\ cli'.at = "next"
      BY <3>1, <1>1, TurnedOK DEF Leaves
    <3> QED
      BY <3>2, <1>2, EmbedsUntouched DEF CommandSeen
  <2>3. CASE row[cli.file].sha # cli.sha /\ disk[cli.file] # Null
    <3>1. cli' = [cli EXCEPT !.at = "parsed", !.bytes = disk[cli.file]] /\ job' = job
      BY <2>3 DEF Look
    <3>2. disk[cli.file] \in seen[cli.file] /\ disk[cli.file] \in Contents
      BY <2>3, <1>1, <1>3 DEF SeenOK, WorldTypes
    <3>3. /\ cli' \in Commands /\ cli'.at = "parsed" /\ cli'.file = cli.file
          /\ cli'.sha = cli.sha /\ cli'.bytes = disk[cli.file]
      BY <3>1, <3>2, <1>1 DEF Commands
    <3>4. CommandSeen'
      BY <3>2, <3>3, <1>2, <1>3 DEF CommandSeen
    <3> QED
      BY <3>1, <3>3, <3>4, <1>2, EmbedsUntouched
  <2> QED
    BY <2>1, <2>2, <2>3
<1>5. WorldTypes' /\ SeenOK'
  BY <1>1, <1>2, <1>4 DEF WorldTypes, SeenOK, CommandSeen
<1> QED
  BY <1>2, <1>4, <1>5, BaseKept

\* The row of the command's file is written.
LEMMA WriteRowKeepsBase ==
  ASSUME Base, WriteRow
  PROVE  Base' /\ JobsMove
<1> USE ConstantsAssumption
<1>1. WorldTypes /\ SeenOK /\ cli \in Commands /\ TypeOK /\ JobsOK /\ SlotsKept
  BY TypesSplit DEF Base, WorldTypes
<1>2. /\ UNCHANGED <<disk, seen, vec, queued, model, up, taken, chain, walk, wasReady, events>>
      /\ UNCHANGED <<waiters, active>> /\ cli.at = "parsed"
      /\ row' = [row EXCEPT ![cli.file] = Written(@, cli.bytes)]
      /\ Gate(row'[cli.file])
  BY DEF WriteRow, files, slots, loop
<1>3. cli.file \in Files /\ cli.bytes \in seen[cli.file]
  BY <1>1, <1>2 DEF SeenOK
<1>4. /\ row' \in [Files -> [sha : Contents \cup {Null}, stamp : Contents \cup {Null}]]
      /\ \A g \in Files : row'[g].sha \in seen'[g] \cup {Null}
      /\ \A g \in Files : row'[g].sha = Null => row'[g].stamp = Null /\ vec'[g] = Null
  BY <1>1, <1>2, <1>3, WrittenOK
<1>5. SlotTypes' /\ JobsMove /\ SlotsKept' /\ cli' \in Commands /\ cli'.at \in {"next", "embed"}
  BY <1>1, <1>2, GateOK
<1>6. forgone' \subseteq Files
  BY <1>1, <1>3 DEF WriteRow, WorldTypes
<1>7. WorldTypes' /\ SeenOK'
  BY <1>1, <1>2, <1>4, <1>5, <1>6 DEF WorldTypes, SeenOK
<1> QED
  BY <1>2, <1>5, <1>7, BaseKept

\* The command ends, or is killed.
LEMMA CloseKilledKeepsBase ==
  ASSUME Base, Close \/ Killed
  PROVE  Base' /\ JobsMove
<1> USE ConstantsAssumption
<1>1. WorldTypes /\ SeenOK /\ cli \in Commands /\ SlotTypes /\ SlotsKept
  BY TypesSplit DEF Base, WorldTypes
<1>2. /\ UNCHANGED <<disk, seen, model, up, taken, chain, walk, wasReady, waiters, active>>
      /\ cli' = NoCommand /\ cli' \in Commands /\ cli'.at = "none"
  BY CommandTypes DEF Close, Killed, files, slots, loop
<1>3. queued' \subseteq Files /\ forgone' \subseteq Files /\ events' \in 0..MaxEvents
  <2>1. cli.left \subseteq Files
    BY <1>1 DEF Commands
  <2>2. CASE Close
    BY <2>1, <2>2, <1>1 DEF Close, WorldTypes
  <2>3. CASE Killed
    BY <2>1, <2>3, <1>1, SpendOK DEF Killed, WorldTypes
  <2> QED
    BY <2>2, <2>3
<1>4. /\ row' \in [Files -> [sha : Contents \cup {Null}, stamp : Contents \cup {Null}]]
      /\ vec' \in [Files -> Contents \cup {Null}]
      /\ \A f \in Files : (row'[f] = row[f] /\ vec'[f] = vec[f]) \/ (row'[f] = NoRow /\ vec'[f] = Null)
  <2>1. NoRow \in [sha : Contents \cup {Null}, stamp : Contents \cup {Null}]
    BY DEF NoRow
  <2>2. CASE Close
    BY <2>1, <2>2, <1>1 DEF Close, WorldTypes
  <2>3. CASE Killed
    BY <2>3, <1>1 DEF Killed, WorldTypes
  <2> QED
    BY <2>2, <2>3
<1>5. /\ \A f \in Files : row'[f].sha \in seen'[f] \cup {Null}
      /\ \A f \in Files : row'[f].sha = Null => row'[f].stamp = Null /\ vec'[f] = Null
  BY <1>1, <1>2, <1>4 DEF SeenOK, NoRow
<1>6. WorldTypes' /\ SeenOK'
  BY <1>1, <1>2, <1>3, <1>4, <1>5 DEF WorldTypes, SeenOK
<1>7. SlotTypes' /\ JobsMove /\ SlotsKept'
  <2>1. CASE Close
    BY <2>1, EmbedsUntouched DEF Close, slots
  <2>2. CASE Killed
    <3>1. job' = [job EXCEPT ![Cli] = NoJob]
      BY <2>2 DEF Killed
    <3>2. NoJob \in Jobs /\ Cli \in Embedders /\ Files \subseteq Embedders
      BY DEF NoJob, Jobs, Embedders
    <3>3. SlotTypes' /\ JobsMove /\ \A f \in Files : job'[f] = job[f]
      BY <3>1, <3>2, <1>1, <1>2 DEF SlotTypes, JobsMove, Moves
    <3> QED
      BY <3>3, <1>1, <1>2, SlotsUntouched
  <2> QED
    BY <2>1, <2>2
<1> QED
  BY <1>2, <1>6, <1>7, BaseKept

\* The slots, and what is known of contents, are right at the start.
LEMMA InitBase == Init => Base
<1> USE ConstantsAssumption
<1> SUFFICES ASSUME Init PROVE Base
  OBVIOUS
<1>1. NoJob \in Jobs /\ NoJob.phase = "none" /\ NoRow.sha = Null /\ NoRow.stamp = Null
  BY DEF NoJob, Jobs, NoRow
<1>2. \A p \in Embedders : job[p].phase = "none"
  BY <1>1 DEF Init
<1>3. SlotTypes
  BY <1>1 DEF Init, SlotTypes
<1>4. WorldTypes
  <2>1. /\ disk \in [Files -> Contents \cup {Null}] /\ seen \in [Files -> SUBSET Contents]
        /\ vec \in [Files -> Contents \cup {Null}] /\ chain \in [Files -> Seq(Contents)]
    BY DEF Init
  <2>2. row \in [Files -> [sha : Contents \cup {Null}, stamp : Contents \cup {Null}]]
    BY DEF Init, NoRow
  <2>3. taken \in [file : Files \cup {Null}, bytes : Contents \cup {Null}]
    BY DEF Init, Nothing
  <2>4. queued = {} /\ model \in {"here", "missing"} /\ up = FALSE /\ walk = {} /\ wasReady = TRUE
    BY DEF Init
  <2>5. cli \in Commands /\ events \in 0..MaxEvents /\ forgone = {}
    BY CommandTypes DEF Init
  <2> QED
    BY <2>1, <2>2, <2>3, <2>4, <2>5 DEF WorldTypes
<1>5. JobsOK
  BY <1>2 DEF JobsOK, Idle0, HasText, Embedders
<1>6. SeenOK
  <2>1. \A f \in Files : chain[f] = <<>> /\ row[f] = NoRow /\ vec[f] = Null /\ seen[f] = {disk[f]}
    BY DEF Init
  <2>2. cli.at = "none" /\ taken = Nothing
    BY CommandTypes DEF Init
  <2> QED
    BY <2>1, <2>2, <1>1 DEF SeenOK
<1>7. SlotsKept
  <2>1. Running = {} /\ Slotted = {}
    BY <1>2 DEF Running, Slotted, Embedders
  <2>2. waiters = <<>> /\ active = 0 /\ Waiting = {}
    BY DEF Init, Waiting
  <2> QED
    BY <2>1, <2>2, FS_EmptySet DEF SlotsKept, Slotted
<1> QED
  BY <1>3, <1>4, <1>5, <1>6, <1>7, TypesSplit DEF Base

\* A stuttering step keeps them.
LEMMA BaseUnchanged == Base /\ UNCHANGED vars => Base'
BY DEF Base, TypeOK, JobsOK, SeenOK, SlotsKept, Running, Waiting, vars, files, slots, loop,
       Idle0, HasText

\* The invariant of the types, the memory and the slots.
LEMMA BaseInvariant == Spec => []Base
<1>1. Base /\ [Next]_vars => Base'
  <2> SUFFICES ASSUME Base, [Next]_vars PROVE Base'
    OBVIOUS
  <2>1. CASE UNCHANGED vars
    BY <2>1, BaseUnchanged
  <2>2. ASSUME NEW p \in Embedders, EmbedStep(p) PROVE Base'
    BY <2>2, ReadTextKeepsBase, EmbedEndKeepsBase DEF EmbedStep
  <2>3. CASE WorkerStep
    BY <2>3, IndexTakenKeepsBase, QuietKeepsBase, DieKeepsBase, NextInChainKeepsBase
      DEF WorkerStep
  <2>4. CASE CommandStep
    BY <2>4, OpenHashKeepsBase, LookKeepsBase, WriteRowKeepsBase, CloseKilledKeepsBase
      DEF CommandStep
  <2>5. ASSUME NEW f \in Files, Edit(f) \/ Enqueue(f) PROVE Base'
    BY <2>5, EditKeepsBase, QuietKeepsBase
  <2>6. CASE HoldEnds
    BY <2>6, QuietKeepsBase
  <2> QED
    BY <2>1, <2>2, <2>3, <2>4, <2>5, <2>6 DEF Next
<1> QED
  BY InitBase, <1>1, PTL DEF Spec

(***************************************************************************)
(* The types hold: in particular the slots in use never exceed              *)
(* worker.max_pool_workers and never go below zero.                         *)
(***************************************************************************)
THEOREM TypeCorrect == Spec => []TypeOK
<1>1. Base => TypeOK
  BY DEF Base
<1> QED
  BY <1>1, BaseInvariant, PTL

(***************************************************************************)
(* A slot is in use by exactly one embed at work, and none is free while an *)
(* embed waits, whatever fails, ends early or dies.                         *)
(***************************************************************************)
THEOREM SlotsAreKept == Spec => []SlotsKept
<1>1. Base => SlotsKept
  BY DEF Base
<1> QED
  BY <1>1, BaseInvariant, PTL

-----------------------------------------------------------------------------
(***************************************************************************)
(* Stamps tell the truth.                                                   *)
(***************************************************************************)
NoRaces == {"gap", "revert"} \cap Mishaps = {}

Truth == TextOK /\ DropOK /\ StampTrue

\* A step that changes no file, no row and no vectors, and reads no text.
LEMMA TruthUntouched ==
  ASSUME Base, Truth, JobsMove, UNCHANGED <<disk, row, vec>>
  PROVE  Truth'
<1>1. TypeOK /\ TextOK /\ DropOK /\ StampTrue
  BY DEF Base, Truth
<1>2. StampTrue'
  BY <1>1 DEF StampTrue
<1> QED
  BY <1>1, <1>2, JobsMoveKeepTexts, JobsMoveKeepDrops DEF Truth

\* The vectors of no file.
LEMMA VectorsOfNull == VectorsOf(Null) = Null
BY ConstantsAssumption DEF VectorsOf

\* An edit: no row describes the new content yet, and no embed was started for it.
LEMMA EditKeepsTruth ==
  ASSUME NoRaces, Base, Truth, NEW f \in Files, Edit(f)
  PROVE  Truth'
<1> USE ConstantsAssumption
<1>1. WorldTypes /\ SeenOK /\ JobsOK
  BY TypesSplit DEF Base
<1>2. UNCHANGED <<job, row, vec>> /\ \A g \in Files \ {f} : disk'[g] = disk[g]
  BY <1>1 DEF Edit, WorldTypes
<1>3. disk'[f] = Null \/ disk'[f] \notin seen[f]
  BY <1>1 DEF Edit, WorldTypes, NoRaces
<1>4. \A g \in Files : seen[g] \subseteq Contents /\ Null \notin seen[g]
  BY <1>1 DEF WorldTypes
<1>5. TextOK'
  <2> SUFFICES ASSUME NEW p \in Embedders, job[p].phase \in HasText,
                      job[p].sha = disk'[job[p].file]
               PROVE  job[p].text = disk'[job[p].file]
    BY <1>2 DEF TextOK
  <2>1. job[p].file \in Files /\ job[p].sha \in seen[job[p].file]
    BY <1>1 DEF JobsOK, HasText, Idle0
  <2>2. job[p].file # f
    BY <2>1, <1>3, <1>4
  <2> QED
    BY <2>1, <2>2, <1>2 DEF TextOK, Truth
<1>6. DropOK'
  <2> SUFFICES ASSUME NEW p \in Embedders, job[p].phase = "drop",
                      row[job[p].file].sha = disk'[job[p].file]
               PROVE  disk'[job[p].file] \in Skipped \cup {Null}
    BY <1>2 DEF DropOK
  <2>1. job[p].file \in Files /\ row[job[p].file].sha \in seen[job[p].file] \cup {Null}
    BY <1>1 DEF JobsOK, SeenOK, Idle0
  <2>2. CASE job[p].file = f
    BY <2>1, <2>2, <1>3
  <2>3. CASE job[p].file # f
    BY <2>1, <2>3, <1>2 DEF DropOK, Truth
  <2> QED
    BY <2>2, <2>3
<1>7. StampTrue'
  <2> SUFFICES ASSUME NEW g \in Files, row[g].sha = disk'[g], EmbedFresh(row[g], row[g].sha)
               PROVE  vec[g] = VectorsOf(disk'[g])
    BY <1>2 DEF StampTrue
  <2>1. CASE g = f
    <3>1. row[g].sha = Null
      BY <2>1, <1>1, <1>3 DEF SeenOK
    <3> QED
      BY <3>1, <1>1, VectorsOfNull DEF SeenOK
  <2>2. CASE g # f
    BY <2>2, <1>2 DEF StampTrue, Truth
  <2> QED
    BY <2>1, <2>2
<1> QED
  BY <1>5, <1>6, <1>7 DEF Truth

\* A text is read: it is what the file holds now.
LEMMA ReadTextKeepsTruth ==
  ASSUME Base, Truth, NEW p \in Embedders, ReadText(p), disk[job[p].file] # Null
  PROVE  Truth'
<1> DEFINE f == job[p].file
           text == disk[f]
           j == [job[p] EXCEPT !.text = text, !.phase = IF text \in Skipped THEN "drop" ELSE "infer"]
<1>1. SlotTypes /\ UNCHANGED <<disk, row, vec>> /\ job' = [job EXCEPT ![p] = j]
  BY TypesSplit DEF Base, ReadText, files
<1>2. job[p] \in Jobs /\ job \in [Embedders -> Jobs]
  BY <1>1 DEF SlotTypes
<1>3. /\ j.file = f /\ j.sha = job[p].sha /\ j.text = text
      /\ j.phase = IF text \in Skipped THEN "drop" ELSE "infer"
  BY <1>2 DEF Jobs
<1> HIDE DEF j
<1>4. job'[p] = j /\ \A q \in Embedders \ {p} : job'[q] = job[q]
  BY <1>1, <1>2
<1>5. TextOK'
  BY <1>1, <1>3, <1>4 DEF TextOK, Truth
<1>6. DropOK'
  BY <1>1, <1>3, <1>4 DEF DropOK, Truth
<1>7. StampTrue'
  BY <1>1 DEF StampTrue, Truth
<1> QED
  BY <1>5, <1>6, <1>7 DEF Truth

\* While no other process indexes a file that is about to lose its vectors, none of
\* these embeds is of a file that is.
LEMMA AloneNoDrops ==
  ASSUME NoRaces, Base, NEW f \in Files, Alone(f), NEW p \in Embedders, job[p].phase = "drop"
  PROVE  job[p].file # f
<1>1. JobsOK
  BY DEF Base
<1>2. \A q \in {f, Cli} : job[q].file = f => job[q].phase # "drop"
  BY DEF Alone, NoRaces
<1>3. CASE p \in Files
  <2>1. job[p].file = p
    BY <1>1, <1>3 DEF JobsOK, Idle0
  <2> QED
    BY <2>1, <1>2
<1>4. CASE p = Cli
  BY <1>2, <1>4
<1> QED
  BY <1>3, <1>4 DEF Embedders

\* A row is written: other bytes have no stamp, the same bytes keep theirs.
LEMMA WrittenKeepsTruth ==
  ASSUME NoRaces, Base, Truth, JobsMove, NEW f \in Files, NEW c \in seen[f], Alone(f),
         row' = [row EXCEPT ![f] = Written(@, c)], UNCHANGED <<disk, vec>>
  PROVE  Truth'
<1>1. WorldTypes /\ TypeOK /\ TextOK /\ DropOK /\ StampTrue
  BY TypesSplit DEF Base, Truth
<1>2. c # Null
  BY <1>1, ConstantsAssumption DEF WorldTypes
<1>3. row'[f] = Written(row[f], c) /\ \A g \in Files \ {f} : row'[g] = row[g]
  BY <1>1 DEF WorldTypes
<1>4. StampTrue'
  <2> SUFFICES ASSUME NEW g \in Files, row'[g].sha = disk[g], EmbedFresh(row'[g], row'[g].sha)
               PROVE  vec[g] = VectorsOf(disk[g])
    BY DEF StampTrue
  <2>1. CASE g # f
    BY <2>1, <1>1, <1>3 DEF StampTrue
  <2>2. CASE g = f
    <3>1. row'[f].sha = c /\ row'[f].stamp = IF row[f].sha = c THEN row[f].stamp ELSE Null
      BY <1>3 DEF Written
    <3>2. row[f].sha = c /\ row[f].stamp = c
      BY <3>1, <2>2, <1>2 DEF EmbedFresh
    <3> QED
      BY <3>1, <3>2, <2>2, <1>1 DEF StampTrue, EmbedFresh
  <2> QED
    BY <2>1, <2>2
<1>5. \A p \in Embedders : job[p].phase = "drop" => row'[job[p].file].sha = row[job[p].file].sha
  <2> SUFFICES ASSUME NEW p \in Embedders, job[p].phase = "drop"
               PROVE  row'[job[p].file].sha = row[job[p].file].sha
    OBVIOUS
  <2>1. job[p].file # f
    BY AloneNoDrops
  <2>2. job[p].file \in Files
    BY DEF Base, JobsOK, Idle0
  <2> QED
    BY <2>1, <2>2, <1>3
<1> QED
  BY <1>1, <1>4, <1>5, JobsMoveKeepTexts, JobsMoveKeepDrops DEF Truth

\* Files that are gone lose row and vectors.
LEMMA GoneKeepsTruth ==
  ASSUME NoRaces, Base, Truth, JobsMove, disk' = disk,
         NEW gone \in SUBSET Files, \A f \in gone : Alone(f),
         \A f \in gone : row'[f] = NoRow /\ vec'[f] = Null,
         \A f \in Files \ gone : row'[f] = row[f] /\ vec'[f] = vec[f]
  PROVE  Truth'
<1>1. TypeOK /\ TextOK /\ DropOK /\ StampTrue
  BY DEF Base, Truth
<1>2. StampTrue'
  <2> SUFFICES ASSUME NEW g \in Files, row'[g].sha = disk[g], EmbedFresh(row'[g], row'[g].sha)
               PROVE  vec'[g] = VectorsOf(disk[g])
    BY DEF StampTrue
  <2>1. CASE g \in gone
    BY <2>1, VectorsOfNull DEF NoRow
  <2>2. CASE g \notin gone
    BY <2>2, <1>1 DEF StampTrue
  <2> QED
    BY <2>1, <2>2
<1>3. \A p \in Embedders : job[p].phase = "drop" => row'[job[p].file].sha = row[job[p].file].sha
  <2> SUFFICES ASSUME NEW p \in Embedders, job[p].phase = "drop"
               PROVE  row'[job[p].file].sha = row[job[p].file].sha
    OBVIOUS
  <2>1. job[p].file \in Files
    BY DEF Base, JobsOK, Idle0
  <2>2. job[p].file \notin gone
    BY <2>1, AloneNoDrops
  <2> QED
    BY <2>1, <2>2
<1> QED
  BY <1>1, <1>2, <1>3, JobsMoveKeepTexts, JobsMoveKeepDrops DEF Truth

\* What an embed writes.  Vectors are written of the text that was read, if the row is
\* the one the embed was started for; they are deleted whatever the row is by now, which
\* then does not describe a text that should have vectors.
LEMMA StampsKeepTruth ==
  ASSUME Base, Truth, JobsMove, disk' = disk,
         NEW p \in Embedders, job[p].phase \in HasText, NEW vectors, Stamps(p, vectors),
         \/ job[p].phase = "drop" /\ vectors = Null
         \/ /\ job[p].phase = "infer" /\ vectors = job[p].text
            /\ row[job[p].file].sha = job[p].sha
  PROVE  Truth'
<1> DEFINE f == job[p].file
<1>1. WorldTypes /\ TypeOK /\ JobsOK /\ TextOK /\ DropOK /\ StampTrue
  BY TypesSplit DEF Base, Truth
<1>2. f \in Files
  BY <1>1 DEF JobsOK, HasText, Idle0
<1> HIDE DEF f
<1>3. /\ \A g \in Files : row'[g].sha = row[g].sha
      /\ \A g \in Files \ {f} : row'[g] = row[g] /\ vec'[g] = vec[g]
      /\ vec'[f] = vectors
  <2>1. /\ vec' = [vec EXCEPT ![f] = vectors]
        /\ row' = row \/ row' = [row EXCEPT ![f].stamp = job[p].sha]
    BY DEF Stamps, f
  <2>2. /\ row \in [Files -> [sha : Contents \cup {Null}, stamp : Contents \cup {Null}]]
        /\ vec \in [Files -> Contents \cup {Null}]
    BY <1>1 DEF WorldTypes
  <2>3. vec'[f] = vectors /\ \A g \in Files \ {f} : vec'[g] = vec[g]
    BY <2>1, <2>2, <1>2
  <2>4. CASE row' = row
    BY <2>3, <2>4
  <2>5. CASE row' = [row EXCEPT ![f].stamp = job[p].sha]
    <3>1. \A g \in Files : row'[g].sha = row[g].sha
      BY <2>5, <2>2, <1>2
    <3>2. \A g \in Files \ {f} : row'[g] = row[g]
      BY <2>5, <2>2, <1>2
    <3> QED
      BY <3>1, <3>2, <2>3
  <2> QED
    BY <2>1, <2>4, <2>5
<1>4. StampTrue'
  <2> SUFFICES ASSUME NEW g \in Files, row[g].sha = disk[g], EmbedFresh(row'[g], row'[g].sha)
               PROVE  vec'[g] = VectorsOf(disk[g])
    BY <1>3 DEF StampTrue
  <2>1. CASE g # f
    BY <2>1, <1>1, <1>3 DEF StampTrue
  <2>2. CASE g = f /\ job[p].phase = "drop"
    <3>1. disk[f] \in Skipped \cup {Null} /\ vectors = Null
      BY <2>2, <1>1 DEF DropOK, f
    <3> QED
      BY <3>1, <2>2, <1>3, VectorsOfNull DEF VectorsOf
  <2>3. CASE g = f /\ job[p].phase = "infer"
    <3>1. row[f].sha = job[p].sha /\ vectors = job[p].text
      BY <2>3 DEF f
    <3>2. job[p].text = disk[f]
      BY <3>1, <2>3, <1>1 DEF TextOK, HasText, f
    <3>3. job[p].text \notin Skipped
      BY <2>3, <1>1 DEF JobsOK
    <3> QED
      BY <3>1, <3>2, <3>3, <2>3, <1>3 DEF VectorsOf
  <2> QED
    BY <2>1, <2>2, <2>3 DEF HasText
<1>5. \A q \in Embedders : job[q].phase = "drop" => row'[job[q].file].sha = row[job[q].file].sha
  BY <1>1, <1>3 DEF JobsOK, Idle0
<1> QED
  BY <1>1, <1>4, <1>5, JobsMoveKeepTexts, JobsMoveKeepDrops DEF Truth

\* The steps of an embed.
LEMMA EmbedStepKeepsTruth ==
  ASSUME Base, Truth, NEW p \in Embedders, EmbedStep(p)
  PROVE  Truth'
<1>1. CASE ReadText(p)
  <2>1. CASE disk[job[p].file] = Null
    <3>1. UNCHANGED <<disk, row, vec>>
      BY <1>1 DEF ReadText, files
    <3> QED
      BY <2>1, <3>1, <1>1, ReadTextKeepsBase, TruthUntouched
  <2>2. CASE disk[job[p].file] # Null
    BY <2>2, <1>1, ReadTextKeepsTruth
  <2> QED
    BY <2>1, <2>2
<1>2. CASE Drop(p) \/ WriteVectors(p) \/ Refused(p) \/ EmbedFails(p)
  <2>1. JobsMove
    BY <1>2, EmbedEndKeepsBase
  <2>2. disk' = disk
    BY <1>2 DEF Drop, WriteVectors, Refused, EmbedFails, files
  <2>3. CASE Drop(p)
    <3>1. job[p].phase = "drop" /\ Stamps(p, Null)
      BY <2>3 DEF Drop, Turn
    <3> QED
      BY <3>1, <2>1, <2>2, StampsKeepTruth DEF HasText
  <2>4. CASE WriteVectors(p) /\ row[job[p].file].sha = job[p].sha
    <3>1. job[p].phase = "infer" /\ Stamps(p, job[p].text)
      BY <2>4 DEF WriteVectors, Turn
    <3> QED
      BY <3>1, <2>1, <2>2, <2>4, StampsKeepTruth DEF HasText
  <2>5. CASE \/ WriteVectors(p) /\ row[job[p].file].sha # job[p].sha
             \/ Refused(p) \/ EmbedFails(p)
    <3>1. UNCHANGED <<row, vec>>
      BY <2>5 DEF WriteVectors, Refused, EmbedFails
    <3> QED
      BY <3>1, <2>1, <2>2, TruthUntouched
  <2> QED
    BY <1>2, <2>3, <2>4, <2>5
<1> QED
  BY <1>1, <1>2 DEF EmbedStep

\* The worker's row writes.
LEMMA IndexTakenKeepsTruth ==
  ASSUME NoRaces, Base, Truth, IndexTaken
  PROVE  Truth'
<1> DEFINE f == taken.file
           c == taken.bytes
<1>1. WorldTypes /\ SeenOK /\ JobsMove
  BY TypesSplit, IndexTakenKeepsBase DEF Base
<1>2. f \in Files /\ c \in seen[f] \cup {Null} /\ Alone(f) /\ disk' = disk
  BY <1>1 DEF IndexTaken, files, SeenOK
<1>3. c = Null => row' = [row EXCEPT ![f] = NoRow] /\ vec' = [vec EXCEPT ![f] = Null]
  BY DEF IndexTaken
<1>4. c # Null => row' = [row EXCEPT ![f] = Written(@, c)] /\ vec' = vec
  BY DEF IndexTaken
<1> HIDE DEF f, c
<1>5. CASE c = Null
  <2>1. /\ {f} \in SUBSET Files
        /\ row'[f] = NoRow /\ vec'[f] = Null
        /\ \A g \in Files \ {f} : row'[g] = row[g] /\ vec'[g] = vec[g]
    BY <1>5, <1>1, <1>2, <1>3 DEF WorldTypes
  <2> QED
    BY <2>1, <1>1, <1>2, GoneKeepsTruth
<1>6. CASE c # Null
  BY <1>1, <1>2, <1>4, <1>6, WrittenKeepsTruth
<1> QED
  BY <1>5, <1>6

\* The command's.
LEMMA CommandKeepsTruth ==
  ASSUME NoRaces, Base, Truth, CommandStep
  PROVE  Truth'
<1>1. WorldTypes /\ SeenOK
  BY TypesSplit DEF Base
<1>2. CASE WriteRow
  <2>1. /\ cli.file \in Files /\ cli.bytes \in seen[cli.file] /\ Alone(cli.file)
        /\ row' = [row EXCEPT ![cli.file] = Written(@, cli.bytes)]
        /\ UNCHANGED <<disk, vec>>
    BY <1>1, <1>2 DEF WriteRow, SeenOK, files
  <2>2. JobsMove
    BY <1>2, WriteRowKeepsBase
  <2> QED
    BY <2>1, <2>2, WrittenKeepsTruth
<1>3. CASE Close
  <2> DEFINE gone == {f \in Files : disk[f] = Null}
  <2>1. /\ disk' = disk /\ \A f \in gone : Alone(f)
        /\ row' = [f \in Files |-> IF f \in gone THEN NoRow ELSE row[f]]
        /\ vec' = [f \in Files |-> IF f \in gone THEN Null ELSE vec[f]]
    BY <1>3 DEF Close, files
  <2>2. gone \in SUBSET Files
    OBVIOUS
  <2> HIDE DEF gone
  <2>3. /\ \A f \in gone : row'[f] = NoRow /\ vec'[f] = Null
        /\ \A f \in Files \ gone : row'[f] = row[f] /\ vec'[f] = vec[f]
    BY <2>1, <2>2
  <2>4. JobsMove
    BY <1>3, CloseKilledKeepsBase
  <2> QED
    BY <2>1, <2>2, <2>3, <2>4, GoneKeepsTruth
<1>4. CASE Open \/ Look \/ Killed \/ \E f \in Files : Hash(f)
  <2>1. UNCHANGED <<disk, row, vec>>
    BY <1>4 DEF Open, Look, Killed, Hash, files
  <2>2. JobsMove
    BY <1>4, OpenHashKeepsBase, LookKeepsBase, CloseKilledKeepsBase
  <2> QED
    BY <2>1, <2>2, TruthUntouched
<1> QED
  BY <1>2, <1>3, <1>4 DEF CommandStep

\* At the start no file has a stamp or vectors that could be wrong.
LEMMA InitTruth == Init => Truth
<1> SUFFICES ASSUME Init PROVE Truth
  OBVIOUS
<1>1. \A p \in Embedders : job[p].phase = "none"
  BY DEF Init, NoJob
<1>2. \A f \in Files : row[f].sha = Null /\ vec[f] = Null
  BY DEF Init, NoRow
<1>3. TextOK /\ DropOK
  BY <1>1 DEF TextOK, DropOK, HasText
<1>4. StampTrue
  <2> SUFFICES ASSUME NEW f \in Files, row[f].sha = disk[f] PROVE vec[f] = VectorsOf(disk[f])
    BY DEF StampTrue
  <2>1. disk[f] = Null
    BY <1>2
  <2> QED
    BY <2>1, <1>2, VectorsOfNull
<1> QED
  BY <1>3, <1>4 DEF Truth

(***************************************************************************)
(* Whatever the order in which the worker, the command and the editors of   *)
(* the files take their steps, a row that describes its file and is stamped *)
(* has the vectors of that file (parser.ts:814, embeddings.ts:623) -- for   *)
(* as long as contents do not come back, and no process indexes a file      *)
(* while an embed of it is about to delete its vectors (parser.ts:853-921). *)
(***************************************************************************)
THEOREM StampsAreTrue == ASSUME NoRaces PROVE Spec => []StampTrue
<1>1. Init => Truth
  BY InitTruth
<1>2. Base /\ Truth /\ [Next]_vars => Truth'
  <2> SUFFICES ASSUME Base, Truth, [Next]_vars PROVE Truth'
    OBVIOUS
  <2>1. CASE UNCHANGED vars
    BY <2>1 DEF Truth, TextOK, DropOK, StampTrue, vars, files
  <2>2. ASSUME NEW p \in Embedders, EmbedStep(p) PROVE Truth'
    BY <2>2, EmbedStepKeepsTruth
  <2>3. ASSUME NEW f \in Files, Edit(f) PROVE Truth'
    BY <2>3, EditKeepsTruth
  <2>4. CASE CommandStep
    BY <2>4, CommandKeepsTruth
  <2>5. CASE IndexTaken
    BY <2>5, IndexTakenKeepsTruth
  <2>6. CASE HoldEnds \/ (\E f \in Files : Enqueue(f) \/ Take(f)) \/ Idle \/ Start
    <3>1. UNCHANGED <<disk, row, vec>>
      BY <2>6 DEF HoldEnds, Enqueue, Take, Idle, Start, files
    <3> QED
      BY <3>1, <2>6, QuietKeepsBase, TruthUntouched
  <2>7. CASE Die
    <3>1. UNCHANGED <<disk, row, vec>>
      BY <2>7 DEF Die, files
    <3> QED
      BY <3>1, <2>7, DieKeepsBase, TruthUntouched
  <2>8. ASSUME NEW f \in Files, NextInChain(f) PROVE Truth'
    <3>1. UNCHANGED <<disk, row, vec>>
      BY <2>8 DEF NextInChain, files
    <3> QED
      BY <3>1, <2>8, NextInChainKeepsBase, TruthUntouched
  <2> QED
    BY <2>1, <2>2, <2>3, <2>4, <2>5, <2>6, <2>7, <2>8 DEF Next, WorkerStep
<1>3. Truth => StampTrue
  BY DEF Truth
<1> QED
  BY <1>1, <1>2, <1>3, BaseInvariant, PTL DEF Spec

=============================================================================
