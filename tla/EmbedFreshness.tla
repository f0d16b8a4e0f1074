---------------------------- MODULE EmbedFreshness ----------------------------
(***************************************************************************)
(* How the vectors of semantic search follow the files (src/src/worker.ts,  *)
(* parser.ts, embeddings.ts, cli.ts).  A row has two stamps: the hash of    *)
(* the bytes it was made from, and the hash its vectors were made for.  An  *)
(* embed takes seconds: it reads the file again, waits for the model, and   *)
(* writes vectors and stamp if the row is still the one it was started for. *)
(*                                                                         *)
(* The worker's drain starts an embed and goes on.  Embeds of one file go   *)
(* in order, those of different files share a few slots.  `token-goat       *)
(* index` embeds too, in its own process, one file after the other.  What   *)
(* an ended process or a missing model left undone is found by a walk over  *)
(* the rows that an idle worker takes.                                      *)
(*                                                                         *)
(* The worker is one thread: while it indexes a file nothing else of it     *)
(* runs, but other processes do.  The queue and its losses are DirtyQueue's *)
(* subject, how drift of a file from its row is noticed IndexFreshness's.   *)
(* The markers stamped for files that have no vectors count as the hash;    *)
(* the configuration does not change.                                       *)
(***************************************************************************)
EXTENDS Naturals, Sequences, FiniteSets

CONSTANTS
  Files, Cli, Null,
  Contents,  \* what a file may hold, which is also its hash
  Skipped,   \* contents that are not embedded: empty, too large, not text
  Limit,     \* worker.max_pool_workers
  Batch,     \* EMBED_BACKLOG_BATCH
  Mishaps,   \* what else may happen: "gap", "revert", "brief"
  Walked,    \* the files under the root that `token-goat index` is given
  Steady,    \* bound: files that keep one content, which is embedded
  MaxEvents  \* bound: edits, commands and faults

ASSUME ConstantsAssumption ==
  /\ Cli \notin Files /\ Null \notin Files \cup Contents /\ Null # Cli
  /\ Skipped \subseteq Contents /\ Walked \cup Steady \subseteq Files /\ IsFiniteSet(Files)
  /\ Limit \in Nat \ {0} /\ Batch \in Nat \ {0}
  /\ Mishaps \subseteq {"gap", "revert", "brief"}
  /\ MaxEvents \in Nat

Embedders == Files \cup {Cli}

VARIABLES
  disk, seen,  \* what a file holds (Null: there is none), and has held
  row,         \* row[f]: its sha and embed_sha, Null when there is none
  vec,         \* vec[f]: the content the vectors of f were made from
  queued,      \* the dirty queue
  model,       \* the model's files: "here", "missing", or "held": missing, and the
               \* last download failed recently
  \* The worker:
  up,
  taken,       \* the file it indexes, and the bytes it read
  chain,       \* chain[f]: the hashes of the embeds of f behind the one at work
  waiters, active,  \* embedSlotWaiters, activeEmbedSlots
  walk,        \* the rows past embedBacklogCursor
  wasReady,    \* embeddingsWereReady
  \* `token-goat index`:
  cli,
  job,         \* job[p]: the embed at work for file p in the worker, or in the command
  events,  \* how many edits, commands and faults there were
  forgone      \* files whose embed failed, or was left to a command that was killed

files == <<disk, seen>>
slots == <<chain, waiters, active>>
loop == <<walk, wasReady>>
vars == <<files, row, vec, queued, model, up, taken, slots, loop, cli, job,
          events, forgone>>

NoRow == [sha |-> Null, stamp |-> Null]
NoJob == [phase |-> "none", file |-> Null, sha |-> Null, text |-> Null]
Over == [NoJob EXCEPT !.phase = "over"]
Nothing == [file |-> Null, bytes |-> Null]
NoCommand ==
  [at |-> "none", file |-> Null, sha |-> Null, bytes |-> Null, todo |-> {}, left |-> {},
   inline |-> FALSE]

Spend == events < MaxEvents /\ events' = events + 1

Init ==
  /\ disk \in [Files -> Contents] /\ (\A f \in Steady : disk[f] \notin Skipped)
  /\ seen = [f \in Files |-> {disk[f]}]
  /\ row = [f \in Files |-> NoRow] /\ vec = [f \in Files |-> Null]
  /\ queued = {}
  /\ model \in {"here", "missing"}
  /\ up = FALSE /\ taken = Nothing
  /\ chain = [f \in Files |-> <<>>] /\ waiters = <<>> /\ active = 0
  /\ walk = {} /\ wasReady = TRUE
  /\ cli = NoCommand
  /\ job = [p \in Embedders |-> NoJob]
  /\ events = 0 /\ forgone = {}

-----------------------------------------------------------------------------
(***************************************************************************)
(* The world: files change, the model's download fails and may be retried.  *)
(***************************************************************************)

\* A file is written or removed.  Contents do not come back, or "revert".
Edit(f) ==
  /\ f \notin Steady /\ Spend
  /\ \E c \in Contents \cup {Null} :
       /\ c # disk[f] /\ (c \notin seen[f] \/ "revert" \in Mishaps)
       /\ disk' = [disk EXCEPT ![f] = c]
       /\ seen' = [seen EXCEPT ![f] = @ \cup ({c} \cap Contents)]
  /\ UNCHANGED <<row, vec, queued, model, up, taken, slots, loop, cli, job, forgone>>

\* The hook of an edit, or a sweep, queues a file that its row does not describe.
Enqueue(f) ==
  /\ row[f].sha # disk[f] /\ f \notin queued
  /\ queued' = queued \cup {f}
  /\ UNCHANGED <<files, row, vec, model, up, taken, slots, loop, cli, job,
                 events, forgone>>

Held == model = "held"

\* The cooldown of a failed download ends, unseen by the worker's loop only if "brief".
HoldEnds ==
  /\ Held /\ (~up \/ ~wasReady \/ "brief" \in Mishaps)
  /\ model' = "missing"
  /\ UNCHANGED <<files, row, vec, queued, up, taken, slots, loop, cli, job,
                 events, forgone>>

-----------------------------------------------------------------------------
(***************************************************************************)
(* Rows, and what is kept of an embed.                                      *)
(***************************************************************************)

\* writeParseResult: the stamp of the vectors is carried over when the bytes are the
\* same.
Written(r, c) == [sha |-> c, stamp |-> IF r.sha = c THEN r.stamp ELSE Null]

\* isEmbedFresh.
EmbedFresh(r, sha) == r.stamp = sha

\* The vectors a content has when it was embedded or passed over.
VectorsOf(c) == IF c \in Skipped THEN Null ELSE c

Starts(f, sha, phase) == [phase |-> phase, file |-> f, sha |-> sha, text |-> Null]

\* Mutant of RunEmbed: the slots are not counted.
RunEmbedUncapped(f, sha) ==
  /\ job' = [job EXCEPT ![f] = IF Held THEN Over ELSE Starts(f, sha, "read")]
  /\ active' = IF Held THEN active ELSE active + 1
  /\ UNCHANGED waiters

\* Mutant of RunEmbed: an embed that finds the download held keeps its slot.
RunEmbedKeepsSlot(f, sha) ==
  IF active < Limit
    THEN /\ job' = [job EXCEPT ![f] = IF Held THEN Over ELSE Starts(f, sha, "read")]
         /\ active' = active + 1
         /\ UNCHANGED waiters
    ELSE /\ job' = [job EXCEPT ![f] = Starts(f, sha, "slot")]
         /\ waiters' = Append(waiters, f) /\ UNCHANGED active

\* runEmbed of an embed of f, in the worker: it gets a free slot, unless the download
\* is held by now, or waits for one.
RunEmbed(f, sha) ==
  IF active < Limit
    THEN /\ job' = [job EXCEPT ![f] = IF Held THEN Over ELSE Starts(f, sha, "read")]
         /\ active' = IF Held THEN active ELSE active + 1
         /\ UNCHANGED waiters
    ELSE /\ job' = [job EXCEPT ![f] = Starts(f, sha, "slot")]
         /\ waiters' = Append(waiters, f) /\ UNCHANGED active

Waiting == {waiters[i] : i \in DOMAIN waiters}

\* makeReleaseEmbedSlot: the slot of f goes to the next in line; while the download is
\* held each in turn hands it on.
Release(f) ==
  IF waiters = <<>> \/ model' = "held"
    THEN /\ job' = [p \in Embedders |-> IF p \in Waiting \cup {f} THEN Over ELSE job[p]]
         /\ active' = active - 1 /\ waiters' = <<>>
    ELSE /\ job' = [job EXCEPT ![f] = Over, ![Head(waiters)].phase = "read"]
         /\ waiters' = Tail(waiters) /\ UNCHANGED active

\* The command turns to its next file, leaving these to the worker.
Turned(left) ==
  [cli EXCEPT !.at = "next", !.file = Null, !.sha = Null, !.bytes = Null, !.left = @ \cup left]

\* The embed of p is over, with or without a result.
Ends(p) ==
  /\ UNCHANGED chain
  /\ IF p = Cli
       THEN /\ job' = [job EXCEPT ![Cli] = NoJob]
            /\ cli' = [Turned({}) EXCEPT !.inline = TRUE]
            /\ UNCHANGED <<waiters, active>>
       ELSE Release(p) /\ UNCHANGED cli

-----------------------------------------------------------------------------
(***************************************************************************)
(* indexFileEmbeddings, in either process.                                  *)
(***************************************************************************)

\* The worker's thread is free: it indexes no file, and what follows the end of an embed
\* is done.
Free == taken = Nothing /\ \A f \in Files : job[f].phase # "over"

Turn(p, phase) == job[p].phase = phase /\ (p = Cli \/ Free)

\* An embed that read a text that is not embedded will drop the vectors of f; only with
\* "gap" does another process index f before it does.
Alone(f) ==
  "gap" \in Mishaps \/ \A p \in {f, Cli} : job[p].file = f => job[p].phase # "drop"

\* The file is read, some time after it was hashed.
ReadText(p) ==
  LET text == disk[job[p].file] IN
  /\ Turn(p, "read")
  /\ UNCHANGED <<files, row, vec, queued, model, up, taken, loop, events, forgone>>
  /\ IF text = Null THEN Ends(p)
     ELSE /\ job' = [job EXCEPT ![p] = [@ EXCEPT !.text = text,
                          !.phase = IF text \in Skipped THEN "drop" ELSE "infer"]]
          /\ UNCHANGED <<slots, cli>>

\* The embed of p is done with these vectors.  stampEmbedSha: a row that has moved on
\* is not stamped.
Stamps(p, vectors) ==
  LET f == job[p].file IN
  /\ vec' = [vec EXCEPT ![f] = vectors]
  /\ IF row[f].sha = job[p].sha
       THEN row' = [row EXCEPT ![f].stamp = job[p].sha] /\ forgone' = forgone \ {f}
       ELSE UNCHANGED <<row, forgone>>

\* deleteFileEmbeddings: what is not to be embedded loses its vectors, whatever the row
\* says by now.
Drop(p) ==
  /\ Turn(p, "drop") /\ Stamps(p, Null)
  /\ UNCHANGED <<files, queued, model, up, taken, loop, events>>
  /\ Ends(p)

\* Mutant of WriteVectors: the row is not compared under the write lock.
WriteVectorsAnyway(p) ==
  /\ Turn(p, "infer") /\ ~Held
  /\ model' = "here" /\ Stamps(p, job[p].text)
  /\ UNCHANGED <<files, queued, up, taken, loop, events>>
  /\ Ends(p)

\* upsertChunks: the model was there or was downloaded, and the vectors are written if
\* the row is still the one this embed was started for.
WriteVectors(p) ==
  /\ Turn(p, "infer") /\ ~Held
  /\ model' = "here"
  /\ IF row[job[p].file].sha = job[p].sha THEN Stamps(p, job[p].text)
     ELSE UNCHANGED <<row, vec, forgone>>
  /\ UNCHANGED <<files, queued, up, taken, loop, events>>
  /\ Ends(p)

\* The model is held by now.
Refused(p) ==
  /\ Turn(p, "infer") /\ Held
  /\ UNCHANGED <<files, row, vec, queued, model, up, taken, loop, events, forgone>>
  /\ Ends(p)

\* The download fails, which holds it for every process, or the inference does.
EmbedFails(p) ==
  /\ Turn(p, "infer") /\ ~Held /\ Spend
  /\ model' = IF model = "missing" THEN "held" ELSE model
  /\ forgone' = IF model = "missing" THEN forgone ELSE forgone \cup {job[p].file}
  /\ Ends(p)
  /\ UNCHANGED <<files, row, vec, queued, up, taken, loop>>

-----------------------------------------------------------------------------
(***************************************************************************)
(* The worker.                                                              *)
(***************************************************************************)
Take(f) ==
  /\ up /\ Free /\ f \in queued /\ Alone(f)
  /\ taken' = [file |-> f, bytes |-> disk[f]]
  /\ queued' = queued \ {f}
  /\ UNCHANGED <<files, row, vec, model, up, slots, loop, cli, job, events, forgone>>

\* A file that is gone loses its row and vectors.  Another is indexed and, if its
\* vectors are not of these bytes, embedded behind the embeds of it that are at work.
IndexTaken ==
  LET f == taken.file IN
  /\ taken # Nothing /\ taken' = Nothing /\ Alone(f)
  /\ UNCHANGED <<files, queued, model, up, loop, cli, events, forgone>>
  /\ IF taken.bytes = Null
       THEN /\ row' = [row EXCEPT ![f] = NoRow] /\ vec' = [vec EXCEPT ![f] = Null]
            /\ UNCHANGED <<slots, job>>
       ELSE /\ row' = [row EXCEPT ![f] = Written(@, taken.bytes)] /\ UNCHANGED vec
            /\ IF EmbedFresh(row'[f], taken.bytes) \/ Held THEN UNCHANGED <<slots, job>>
               ELSE IF job[f] = NoJob THEN RunEmbed(f, taken.bytes) /\ UNCHANGED chain
               ELSE /\ chain' = [chain EXCEPT ![f] = Append(@, taken.bytes)]
                    /\ UNCHANGED <<waiters, active, job>>

\* The next embed of the same file begins.
NextInChain(f) ==
  /\ job[f].phase = "over"
  /\ IF chain[f] = <<>>
       THEN job' = [job EXCEPT ![f] = NoJob] /\ UNCHANGED slots
       ELSE /\ RunEmbed(f, Head(chain[f]))
            /\ chain' = [chain EXCEPT ![f] = Tail(@)]
  /\ UNCHANGED <<files, row, vec, queued, model, up, taken, loop, cli, events, forgone>>

\* Mutant of Rewalks: the end of a hold does not start the walk again.
RewalksNever == FALSE

\* Embeds are possible again.
Rewalks == ~Held /\ ~wasReady

\* An idle cycle: requeueStaleEmbeddings queues the next files whose vectors are not of
\* their rows.  What it passed over is fresh; where in the order of paths that is, is
\* left open.
Idle ==
  LET rows == IF Rewalks THEN Files ELSE walk
      owed == {f \in rows : /\ row[f].sha # Null /\ disk[f] # Null
                            /\ ~EmbedFresh(row[f], row[f].sha)}
  IN
  /\ up /\ Free /\ queued = {} /\ \A f \in Files : job[f] = NoJob
  /\ walk # {} \/ wasReady = Held
  /\ wasReady' = ~Held
  /\ forgone' = IF Rewalks THEN {} ELSE forgone
  /\ \/ Held /\ UNCHANGED <<walk, queued>>
     \/ ~Held /\ Cardinality(owed) < Batch /\ queued' = owed /\ walk' = {}
     \/ /\ ~Held
        /\ \E b \in SUBSET owed :
             /\ Cardinality(b) = Batch /\ queued' = b
             /\ \E rest \in SUBSET (rows \ b) : owed \ b \subseteq rest /\ walk' = rest
  /\ UNCHANGED <<files, row, vec, model, up, taken, slots, cli, job, events>>

\* The daemon dies, or stops and embeds outlast SIGTERM_DRAIN_TIMEOUT_MS.  The file it
\* was indexing is still in the queue's claimed copy.
Die ==
  /\ up /\ Spend /\ up' = FALSE
  /\ queued' = queued \cup ({taken.file} \cap Files) /\ taken' = Nothing
  /\ job' = [p \in Embedders |-> IF p = Cli THEN job[p] ELSE NoJob]
  /\ chain' = [f \in Files |-> <<>>] /\ waiters' = <<>> /\ active' = 0
  /\ UNCHANGED <<files, row, vec, model, loop, cli, forgone>>

Start ==
  /\ ~up /\ up' = TRUE
  /\ walk' = Files /\ wasReady' = TRUE /\ forgone' = {}
  /\ UNCHANGED <<files, row, vec, queued, model, taken, slots, cli, job, events>>

-----------------------------------------------------------------------------
(***************************************************************************)
(* `token-goat index` (cmdIndex).                                           *)
(***************************************************************************)
Open ==
  /\ cli = NoCommand /\ Spend
  /\ cli' = [NoCommand EXCEPT !.at = "next", !.todo = Walked]
  /\ UNCHANGED <<files, row, vec, queued, model, up, taken, slots, loop, job, forgone>>

Hash(f) ==
  /\ cli.at = "next" /\ f \in cli.todo
  /\ cli' = IF disk[f] = Null THEN [cli EXCEPT !.todo = @ \ {f}]
            ELSE [cli EXCEPT !.at = "look", !.file = f, !.sha = disk[f], !.todo = @ \ {f}]
  /\ UNCHANGED <<files, row, vec, queued, model, up, taken, slots, loop, job,
                 events, forgone>>

Leaves(left) == cli' = Turned(left) /\ UNCHANGED job

\* What is done about the vectors of a file with row r: nothing when they are fresh; it
\* is left to the worker when the download is held or the time for embedding inline is
\* spent; else it is embedded here, with the hash taken first.
Gate(r) ==
  \/ EmbedFresh(r, cli.sha) /\ Leaves({})
  \/ ~EmbedFresh(r, cli.sha) /\ (Held \/ cli.inline) /\ Leaves({cli.file})
  \/ /\ ~EmbedFresh(r, cli.sha) /\ ~Held
     /\ cli' = [cli EXCEPT !.at = "embed", !.bytes = Null]
     /\ job' = [job EXCEPT ![Cli] = Starts(cli.file, cli.sha, "read")]

\* The row is looked up.  Unless it has this hash, the file is read again to be parsed.
Look ==
  /\ cli.at = "look"
  /\ IF row[cli.file].sha = cli.sha THEN Gate(row[cli.file])
     ELSE IF disk[cli.file] = Null THEN Leaves({})
     ELSE cli' = [cli EXCEPT !.at = "parsed", !.bytes = disk[cli.file]] /\ UNCHANGED job
  /\ UNCHANGED <<files, row, vec, queued, model, up, taken, slots, loop, events,
                 forgone>>

\* The embed of a file that changed since it was hashed will find the row moved on.
WriteRow ==
  /\ cli.at = "parsed" /\ Alone(cli.file)
  /\ row' = [row EXCEPT ![cli.file] = Written(@, cli.bytes)]
  /\ Gate(row'[cli.file])
  /\ forgone' = forgone \cup (IF cli.bytes = cli.sha THEN {} ELSE {cli.file})
  /\ UNCHANGED <<files, vec, queued, model, up, taken, slots, loop, events>>

\* The rows of files that are gone are pruned, and the worker is given the rest.
Close ==
  LET gone == {f \in Files : disk[f] = Null} IN
  /\ cli.at = "next" /\ cli.todo = {} /\ \A f \in gone : Alone(f)
  /\ row' = [f \in Files |-> IF f \in gone THEN NoRow ELSE row[f]]
  /\ vec' = [f \in Files |-> IF f \in gone THEN Null ELSE vec[f]]
  /\ queued' = queued \cup cli.left
  /\ cli' = NoCommand
  /\ UNCHANGED <<files, model, up, taken, slots, loop, job, events, forgone>>

Killed ==
  /\ cli # NoCommand /\ Spend
  /\ forgone' = forgone \cup cli.left \cup ({cli.file} \cap Files)
  /\ cli' = NoCommand /\ job' = [job EXCEPT ![Cli] = NoJob]
  /\ UNCHANGED <<files, row, vec, queued, model, up, taken, slots, loop>>

-----------------------------------------------------------------------------
EmbedStep(p) ==
  ReadText(p) \/ Drop(p) \/ WriteVectors(p) \/ Refused(p) \/ EmbedFails(p)

WorkerStep ==
  \/ IndexTaken \/ Idle \/ Die \/ Start
  \/ \E f \in Files : Take(f) \/ NextInChain(f)

CommandStep == Open \/ Look \/ WriteRow \/ Close \/ Killed \/ (\E f \in Files : Hash(f))

Next ==
  \/ HoldEnds \/ WorkerStep \/ CommandStep
  \/ \E f \in Files : Edit(f) \/ Enqueue(f)
  \/ \E p \in Embedders : EmbedStep(p)

Spec == Init /\ [][Next]_vars

\* A worker runs and goes through its cycles, embeds and commands come to their end, a
\* cooldown too, and what drifted is queued.
Fairness ==
  /\ WF_vars(HoldEnds) /\ WF_vars(Start) /\ WF_vars(\E f \in Files : Take(f))
  /\ WF_vars(IndexTaken) /\ WF_vars(Idle)
  /\ \A f \in Files : WF_vars(Enqueue(f)) /\ WF_vars(NextInChain(f))
  /\ WF_vars(Look \/ WriteRow \/ Close \/ \E f \in Files : Hash(f))
  /\ \A p \in Embedders :
       WF_vars(ReadText(p) \/ Drop(p) \/ WriteVectors(p) \/ Refused(p))

FairSpec == Spec /\ Fairness

-----------------------------------------------------------------------------
Jobs ==
  [phase : {"none", "slot", "read", "drop", "infer", "over"},
   file : Files \cup {Null}, sha : Contents \cup {Null}, text : Contents \cup {Null}]

\* Every variable holds a value of its type.
TypeOK ==
  /\ disk \in [Files -> Contents \cup {Null}] /\ seen \in [Files -> SUBSET Contents]
  /\ row \in [Files -> [sha : Contents \cup {Null}, stamp : Contents \cup {Null}]]
  /\ vec \in [Files -> Contents \cup {Null}]
  /\ queued \subseteq Files /\ model \in {"here", "missing", "held"} /\ up \in BOOLEAN
  /\ taken \in [file : Files \cup {Null}, bytes : Contents \cup {Null}]
  /\ chain \in [Files -> Seq(Contents)] /\ waiters \in Seq(Files) /\ active \in 0..Limit
  /\ walk \subseteq Files /\ wasReady \in BOOLEAN
  /\ cli \in [at : {"none", "next", "look", "parsed", "embed"}, file : Files \cup {Null},
              sha : Contents \cup {Null}, bytes : Contents \cup {Null},
              todo : SUBSET Files, left : SUBSET Files, inline : BOOLEAN]
  /\ job \in [Embedders -> Jobs]
  /\ events \in 0..MaxEvents /\ forgone \subseteq Files

Running == {f \in Files : job[f].phase \in {"read", "drop", "infer"}}

\* worker.ts:197: the worker runs no more embeds than it has slots, loses no slot to an
\* embed that failed or was passed over, and leaves none free while an embed waits.
SlotsKept ==
  /\ active = Cardinality(Running)
  /\ waiters # <<>> => active = Limit
  /\ Waiting = {f \in Files : job[f].phase = "slot"}
  /\ \A i, j \in DOMAIN waiters : waiters[i] = waiters[j] => i = j

\* parser.ts:814 and embeddings.ts:623: a row that describes its file and is stamped as
\* embedded has the vectors of that content, whoever embedded which version of it; a
\* file that is gone, and its row with it, has none.
StampTrue ==
  \A f \in Files :
    row[f].sha = disk[f] /\ EmbedFresh(row[f], row[f].sha) => vec[f] = VectorsOf(disk[f])

Settled(f) == row[f].sha = disk[f] /\ row[f].stamp = disk[f] /\ vec[f] = VectorsOf(disk[f])

\* worker.ts:749: what a worker that stopped, a held download or an index run out of time
\* left without vectors is embedded in the end, and with the last version of its file;
\* a file whose embed failed waits for the next start of a worker.
EmbedsSettle == \A f \in Files : <>[](f \in forgone \/ Settled(f))

=============================================================================
