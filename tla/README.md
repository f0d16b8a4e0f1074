# token-goat: a TLA+ development of its concurrent core

token-goat is a TypeScript command line tool and a set of hooks that sit beside
an AI coding agent. Every tool call of the agent runs one or more short-lived
hook processes; a detached worker daemon keeps a SQLite symbol index fresh; an
optional resident hook server answers hook calls from an already loaded module
graph; the CLI and an MCP server read the index. These processes have no common
memory. They meet in the files of one data directory, and almost everything that
can go wrong between them goes wrong there. The modules in this directory model
that part. Source paths below are relative to `src/src/`.

## Contents

1. Inventory of the system
2. Plan
3. The modules and the code
4. What the runs show
5. What is proved
6. Where the code and its comments disagree
7. What is not modelled, and why

## 1. Inventory of the system

For every component: the state it keeps (**S**), its operations (**O**), how it
meets the others (**I**), what is hard about it (**H**), and what makes it
correct (**C**).

### Dirty queue and drain: `dirty_queue.ts`, `hooks_index.ts`, `worker.ts`

- **S** `queue/dirty.txt`, the claimed copies `*.draining`, `*.draining.alt-*`,
  `*.draining.alt-requeue-*`; in the daemon, the batch, the deferred requeues,
  the retirement latch and `unclearedDrainingSnapshots`; in the database, the
  rows of a file and its `index_retries` count.
- **O** `appendDirtyQueuePaths` (open, write, compare inodes, up to three
  attempts), `drainOnce` (recover left-over claims, claim by rename, read, index
  each path, recheck, delete, flush what was deferred), `processDirtyBatch`,
  `bumpAndCheckRetry`, `requeueDirtyPath`.
- **I** hooks, reconcile and the CLI append; one daemon drains.
- **H** a hook writes through a descriptor whose file was renamed under it; the
  claimed file grows between the read and the delete; a crash anywhere; a file
  that cannot be deleted, renamed or read; a path that can never be indexed; two
  daemons at once.
- **C** an edit is never lost in silence; every owed edit is indexed or given
  up; the queue directory empties.

### Cross-process file lock: `util.ts` (`withFileLock`, `stealAbandoned`)

- **S** a lock file holding `<pid>:<hrtime>`, a `.steal` guard file, their ages.
- **O** exclusive create, judgement of the holder by age and pid, theft under
  the guard, release of one's own lock.
- **I** session store, project memory, failure store, agent receipts, model
  download gate, `config set` and the pid file claim all run inside it, and each
  decides for itself what a refusal means (skip, or go on without the lock).
- **H** every judgement is of a file that may have changed hands since; a holder
  or a stealing waiter dies; pids are reused; unlinking is refused.
- **C** at most one process in the section; a dead holder's lock is removed; the
  caller gets an answer.

### Worker lifecycle: `worker_lifecycle.ts`, `worker.ts` (`runWorkerLoop`)

- **S** `worker.pid`, `worker.stamp`, `queue/drain-heartbeat`,
  `worker.pid.displaced`, the `worker.pid.reclaim` lock.
- **O** spawn then claim, reclaim of a stale pid file, `stopWorkerDetailed`,
  replacement after an upgrade, `retireDisplacedWorker`, self-retirement when the
  pid file names another, idle exit, exit handler.
- **I** every edit hook may call `ensureWorkerAlive`; the CLI starts and stops.
- **H** pid file and heartbeat are read at different times; a daemon that stalls
  (machine sleep) loses its slot and wakes up; pids are reused.
- **C** at most one daemon for longer than a grace period; a running daemon is
  always named by the pid file; a dead one is replaced.

### Index freshness: `fingerprint.ts`, `reconcile.ts`, `worker.ts`, `parser.ts`, `cli.ts`

- **S** the row of a file: the hash of the bytes it was made from, the mtime they had,
  the time they were indexed; the file itself, which changes at any time.
- **O** `readPreHashStamp`, `fingerprintFileWithBytes`, `writeParseResult`,
  `restampVerifiedUnchanged`, and the comparison of a row with a stat.
- **I** drains, `token-goat index`, read commands and sweeps write the same rows.
- **H** a file written twice inside the tick of its mtime; an edit between any two of
  the looks that one handler takes; a restamp from a snapshot over a newer row.
- **C** a file passed over unread is what its row says; drift settles.

### Reconcile sweeps and requests: `reconcile.ts`, `reconcile_requests.ts`, `reconcile_stamp.ts`, `hooks_session_start.ts`

- **S** two resume points and the record of a complete sweep in the database;
  `reconcile.txt` and its claim; the memory of a slow listing.
- **O** a budgeted walk over the listed files and then over the rows of unlisted
  ones, which enqueues what differs; the request for a sweep, its claim by the
  worker, its release and return.
- **I** session starts sweep for themselves; shell commands and session starts ask
  the worker to; the drain takes what they enqueue.
- **H** a budget that ends at the first file of every sweep; files that change during
  it; a listing that fails or comes late; a kill between the removal of a claim and
  the return of what is left over.
- **C** what is owed a sweep is enqueued in the end; a request is not lost; only a
  complete sweep is recorded as one.

### Session store: `session_store.ts`, `session.ts`, `hooks_compact.ts`

- **S** one JSON file per session and the epoch of its last compaction in a file next
  to it; the copy each hook process loaded, and what it started from.
- **O** load (two reads), change, `saveSessionState`: lock, read again, merge, write.
- **I** every hook of a session; the lock of `FileLock`.
- **H** concurrent hooks of one session; the skipped save under contention, the
  unlocked save when locking is impossible; a compaction between load and save.
- **C** a merge loses neither side and counts nothing twice; what one hook took stays
  taken; what the model no longer has in its context is not withheld.

### Hook server and client: `hook_server.ts`, `hook_client.ts`, `hook_ipc.ts`, `native/tg-hook`

- **S** on the client, the attempts of a call on the slots and which of them has the
  request; on the server, the call it runs, the connections that hold a challenge and
  the answers to be flushed; on disk, the socket file of a slot and the key.
- **O** ask, hedge, claim, time out, fall back, fail open; challenge, run, answer,
  flush, retire, exit; listen, probe, remove a dead socket, check one's own.
- **H** several slots asked at once; an answer after the client gave up; a request that
  crosses a retirement; two servers that find the same dead socket.
- **C** a hook runs at most once per call; a finished answer arrives; a retired server
  goes away; a server nobody can reach exits, and none unlinks another's socket.

### Embedding slots and vectors: `worker.ts`, `parser.ts`, `embeddings.ts`, `cli.ts`

- **S** in the database, the hash of a row's bytes, the hash its vectors were made for,
  the vectors; in the worker, the embeds of each file in order, the slots in use and the
  line for them, the cursor of the idle walk; the recorded failure of a download.
- **O** `makeIndexer` starts an embed behind those of its file, `embedFileSerialized`
  gives it a slot, `indexFileEmbeddings` reads, infers, writes and stamps,
  `requeueStaleEmbeddings` walks the rows of an idle worker; `token-goat index` hashes,
  parses and embeds, or leaves the embed to the worker.
- **I** the worker and the command write the same rows and vectors.
- **H** an embed takes seconds, in which file and row change; the process ends with
  embeds in flight; a download fails and holds all others; the command is killed.
- **C** never more embeds than slots, no slot lost; a stamp never vouches for vectors of
  another text; what has no vectors gets them in the end.

### Idle reclaim and wake-up: `worker.ts`, `queue_waker.ts`

- **S** the queue signature and the watcher; the polls of a reclaim.
- **H** an append between drain and watch.
- **C** no append sleeps through.

### Model download gate: `model_download_gate.ts`

- **S** a shared record of failed downloads with a doubling hold (10 to 60 min).
- **C** one success clears it; concurrent failures count.

### Storage: `db.ts`, `db_integrity.ts`, `sqlite_driver.ts`, `index_reclaim.ts`

SQLite in WAL mode. Transactions are SQLite's; quarantine of a malformed file and
idle reclaim are token-goat's own.

### Sequential parts

Parsers and 70 language adapters; embedding inference and ranking; surgical reads
and text processing; tool-output filters and hints; harness bridges; CLI and MCP
dispatch; configuration and install; statistics; blob caches; path and project
detection. Each is a function of its inputs or keeps private files; see section 7.

## 2. Plan

In order of how much an error would cost and how little a test would see of it:

| # | module | composes | abstract promise | status |
|---|--------|----------|------------------|--------|
| 1 | `DirtyQueue` | hooks, daemons, queue directory | no edit disappears unnamed | built, proved |
| 2 | `Mutex`, `FileLock` | | `Mutex` is what callers of the lock rely on | built, refinement proved |
| 3 | `WorkerLifecycle` | pid file, heartbeat, claim under the lock | one daemon in the end, and no stranger ended | built, type and safety proved |
| 4 | `SessionStore` | over `Mutex` | an atomic union of the changes | built, safety proved |
| 5 | `HookRun`, `HookCall` | calls, servers, connections | `HookRun`: one process runs a hook, and an answer is of that run | built, refinement proved |
| 6 | `HookEndpoint` | servers of one slot, socket file, key | one reachable server | built, safety proved |
| 7 | `IndexFreshness` | files, indexers, sweeps | an unread file is what its row says | built, safety proved |
| 8 | `ReconcileSweep` | session starts, worker, requests | what is owed a sweep is queued | built, safety proved |
| 9 | `EmbedFreshness` | the worker's embeds, `token-goat index`, changing files | a stamp tells the truth, and every file is embedded | built, safety proved |
| 10 | `QueueWaker` | inside the daemon | no lost wake-up | planned |

The modules do not share state: where one component relies on another, the other is
there as its promise. `SessionStore` and the reclaim in `WorkerLifecycle` use `Mutex`,
which `FileLock` implements; `IndexFreshness` has the queue of `DirtyQueue` as a set from
which something is taken again and again, and sweeps without the order and the budget
that are `ReconcileSweep`'s subject; `ReconcileSweep` has the drain as one step per file;
`HookCall` has one server per slot at a time, which is `HookEndpoint`'s.
`EmbedFreshness` has the queue as a set and the detection of drift as the step `Enqueue`,
which are the subjects of `DirtyQueue` and `IndexFreshness`.

Theorem still worth proving: that `SessionStore` implements the union of the changes
that its hooks made (4).

PROJECT.json lists the twelve runs that say most, all of them passing. The
configurations that show a disagreement with a comment (section 6) and one more
instance are kept beside them.

Every module is written to be proved about as well as checked: parameters are
CONSTANTS with a named assumption, each system call or handler step is one action,
invariants are conjunctions of named parts, and no RECURSIVE operator is used.

## 3. The modules and the code

### `DirtyQueue`

The file system is modelled where the code's races are: names and inodes. A hook
holds an inode open, so a rename under it leaves it writing to a file that has
another name. A queue file is a bag of paths, because every reader deduplicates
and order never matters.

| state | code |
|-------|------|
| `disk`, `indexed` | the version of a file on disk and in its index rows |
| `retries` | `index_retries.retry_count`, saturating just above `MAX_TRANSIENT_RETRIES`: the code never tells larger values apart |
| `dir`, `lines` | the queue directory and the contents of its files |
| `hook[h]` | one append: `appendToClaimableFile` between its system calls |
| `drain[d]` | the locals of `drainOnce` and `processDirtyBatch`, plus the module state that survives a cycle |

Actions: `EditFiles`, `HookOpen`, `HookWrite`, `HookCheck`, `HookFails` for the
producers; `Start`, `Retire`, `Leave`, `Crash` for the life of a daemon; `BeginDrain`,
`RecoverNext`, `RecoverUnreadable` for stage (a); `ChooseClaim`, `Claim`, `ReadClaim`
for stage (b); `HandBack`, `SkipBlocked`, `Fingerprint`, `FingerprintFails`,
`IndexPath`, `IndexFails` for one path of a batch; `Recheck`, `Clear`, `DrainThrows`,
`FlushDeferred`, `RemoveSidecar` for the end of a file and of a cycle.

Abstractions. An append by the daemon itself (handing back, flushing) is one step,
not open, write and check: with one daemon no claim can fall between them. `Recheck`
forwards all late paths or none. Which free inode or unused name is handed out is a
`CHOOSE`: nothing depends on it.

### `Mutex` and `FileLock`

`FileLock` has one action per system call of `withFileLock`, because another process
can run between any two. Time appears only in the age of the two files: fresh, stale
(older than `staleMs`), ancient (older than `LOCK_LIVE_HOLDER_MAX_MS`), so the waiter's
deadline is a choice in `pc = "wait"` between `Retry` and `GiveUp`.

Three things the code cannot exclude are named `Mishaps`, and each run says which it
allows:

- `"token"`: a process is preempted between creating the lock file and writing its
  token into it;
- `"steal"`: a process dies while it steals;
- `"hold"`: a live process keeps the lock for more than a minute, or the guard for
  more than `staleMs`.

Deaths elsewhere, refused creates (including one that leaves an empty lock file
behind) and reuse of a dead process's pid are always allowed.

`Mutex` is what callers build on: a section that at most one process is in, and an
answer that says whether it ran, was contended, or could not be locked.
`FileLock!Section` is the refinement mapping: the section belongs to the process whose
`pc` is `"fn"`.

### `WorkerLifecycle`

One action per system call of a launcher that another process can observe, and one
per decision of a daemon's loop.

| state | code |
|-------|------|
| `proc[p]` | the process with number `p`: dead, booting, running, asked to terminate, leaving, in its exit handler, or a stranger that was given the number; with the locals of `runWorkerLoop` that decide its fate (`ownedPidFile`, whether the startup grace has passed, how long the file has been absent, whether the last half-hour found nothing) |
| `pidfile` | `worker.pid`: whose, whether the bytes are in it yet, younger than the startup grace |
| `heart` | `queue/drain-heartbeat`: whose, fresher than a minute |
| `note` | `worker.pid.displaced`: the pids it names, young |
| `reclaim` | who is in the section of the `worker.pid.reclaim` lock |
| `checked`, `stamped` | `worker-healthcheck.marker` is recent; `worker.stamp` matches the bundle |
| `pending` | the dirty queue has something in it |
| `hook[l]` | one call of a launcher: its step, the command, the pid it read, its child |

Actions of a launcher: `Ensure`, `Start`, `Stop` begin a call; `ReadPid`, `Judge`,
`LookAgain` are `ensureWorkerAlive`; `StopRead` to `StopRemove` are
`stopWorkerDetailed`; `Spawn`, `Create`, `Fill`, `RemoveNote` the first-time claim;
`TakeReclaim`, `Reread`, `Rejudge`, `WriteNote`, `Remove`, `Recreate` the reclaim;
`WriteStamp` and `Discard` the two ends. Of a daemon: `Boot`, `Poll`
(`pidFileSaysRetire`, with `retireDisplacedWorker`), `Drain`, `IdleExit`, `Exit`,
`ExitRemove`. `LauncherDies`, `Crash`, `Reuse`, `StrangerEnds` and `Upgrade` are the
machine's.

Time. A pid file, a heartbeat, a note and the marker are young until `PidFileAges`,
`HeartAges`, `NoteAges`, `MarkerAges`; a daemon's grace passes in `GracePasses`. What
cannot take that long for a running process is a guard of these steps (`StallIf`,
`Settled`), which the mishap `"stall"` lifts at the price of a fault: a machine that
sleeps. A note and a pid file have unrelated ages. `LongIdle` says when half an hour
without an edit can have passed.

Named mishaps, allowed run by run: `"start"`, `"stop"`, `"upgrade"`, `"stall"`;
`"empty"`, a launcher preempted between creating the pid file and writing to it;
`"blind"`, a process query that fails; `"slow"`, one that takes so long that the pid is
another process's by the time of the kill. Crashes, deaths of launchers, denied kills,
idle exits and reuse of process numbers are always allowed, up to `MaxFaults`.

Abstractions. The reclaim lock is `Mutex`: its section is exclusive, a launcher that
finds it held has lost (`waitMs` is 0), and a dead holder's lock counts as stolen at
once. A daemon's poll, which repeats the process query right before the kill, is one
step. A new process does not get the number that `worker.pid` names at that moment.
Every `Ensure` has queued a path first, as the edit hooks do.

### `SessionStore`

A hook is a process: it loads the session, handles one event on its copy, and saves by
merging the copy into what is on disk by then. The session touches one file of the
project; four parts of its state stand for the twenty that merge alike.

| state | code |
|-------|------|
| `disk`, `epochFile` | the session's JSON file; the epoch in `.compacted-at` (0: none, or emptied and not yet written) |
| `mem[h]`, `loaded[h]`, `cleared[h]` | the copy of a hook, the counters and entries it started from (`importSessionState`), whether it dropped the line ranges |
| `seen[h]` | what `readDiskStateForMerge` returned |
| fields `reads`, `last`, `base` | `readCount`, `lastReadAt`, `epochBase` of the file |
| fields `ranges`, `ident` | the line ranges served, each with the version it came from, and the identity they are kept under; served outputs and CLI reads are kept likewise |
| field `pending` | large-file hints, downloads, Bash start directories, outstanding agents: left by one hook, taken by another |
| `section`, `answer` | `Mutex`: the lock of the session |

`Load` and `ApplySessionCompaction` are `loadSessionState`; `ReadFile`, `ReadRefused`,
`ReadRange`, `EditFile`, `Leave`, `Take`, `Compact` and `Publish` the handlers;
`SaveLocked`, `SaveBare`, `SkipSave`, `Write`, `SaveFails` the save; `Die` the harness
that kills a slow hook. `FileChanges` is the rest of the world.

Abstractions. Time is the number of compactions, so every read falls into an epoch; two
timestamps of one millisecond are not told apart from two of one epoch. `Sessions` are
the sets of operations whose mixtures a run looks at. A key of `Entries` is used once,
as the code's keys are unique. The caps on the lists are never reached. `Torn` says
whether another hook may read the epoch file between its truncation and its write.

### `HookCall`

| state | code |
|-------|------|
| `call[c]` | the locals of `callServer` for each call that is followed: how far it is, the slot it asks next, the hedge timer, whether it asks no more, the slot that has its request |
| `att[c][s]` | one `attempt`: connecting, asked, sent, over |
| `toS`, `toC`, `link` | what the client wrote; the frames on their way to it; the server's end of the connection |
| `srv[s]`, `busy[s]` | up, retiring or down; the call whose handler runs, or `Other`: one of the machine's calls that are not followed |
| `awaiting[s]`, `flushing[s]` | connections that hold a challenge; answers still in the buffers |
| `runs`, `excused` | history: how often a hook ran; calls whose server died or whose caller stopped waiting |

A client's actions are `Begin`, `NotAsked`, `Hedge`, `RunOwn` and, per attempt,
`Connect`, `Absent`, `GetChallenge`, `GetBusy`, `GetStale`, `GetAnswer`, `GetEnd`,
`WriteFails` and the two timeouts; a server's are `Hello`, `Request`, `Answer`, `Flush`,
`SeesClose`, `IdleDrop`, `Stop`, `Exit`, `Start`; the machine's are `KillCall`, `Die` and
`RunsOther`, by which another call gets the server and keeps it busy.

Abstractions. Frames arrive in order and whole. The budget of all attempts
(`FIND_BUDGET_MS`) may be spent at any `AskNext`; a timer may fire at any time while
it is armed. Keys and MACs are left out: both ends hold the key. The second protocol
version has the same handshake.

`HookRun` is what a harness is promised: for each call how it ended (`outcome`), who ran
its hook (`by`) and whether it is excused, without slots, frames or timers. In the
mapping an outcome is `open` until the call decides, and whoever ran the hook is the
caller exactly when the call ended by running it itself.

### `HookEndpoint`

| state | code |
|-------|------|
| `file` | the inode at the path of the socket, or none |
| `mine[p]`, `socketIno[p]` | the inode a server listens on, and the one it read back and takes for its own |
| `key`, `held[p]` | the key on disk, and the one a server answers with |
| `pc[p]` | the step of `listen`, `runHookServer` or `stop` |

`Launch`, `Listen`, `InUse`, `Probe`, `Remove`, `Stat` start a server; `KeyCheck` is its
timer; `Stops` and `Close` end it; `Crash` and `PurgeKey` are the machine's and the
user's.

Node calls `stat` right after `listen` returned and `close` right after the comparison
of inodes, without waiting for anything; another process can still run in between.
`Prompt` is the set of servers to which that does not happen: while one of them is
between two such calls, nobody else moves (`At`). All others may be interrupted anywhere.
What is stated of every server holds whatever `Prompt` is, the empty set included:
`EndpointInv` but for its last part, and `ReachableStays`. What is stated of prompt ones
only (`OrphanExits`, `LeavesOthersAlone`) is so because it is false of the others:
`endpoint_gap` and `endpoint_unlink` state it of all and refute it. A prompt server is
still among others that are not.

### `IndexFreshness`

| state | code |
|-------|------|
| `content[f]`, `mtime[f]` | the file: its bytes, or that there is none, and its mtime |
| `row[f]` | `content_sha`, `mtime`, `indexed_at` of the file's row |
| `queue` | the paths queued for indexing |
| `job[p]` | one file in `processDirtyBatch`, `cmdIndex`, or a read command that heals a row |
| `sweep[s]` | the locals of `reconcileProjectWith`: a snapshot of the rows, the files still to be looked at, those found, those hashed and clean |
| `clock` | the time in seconds; a file system may round an mtime down by less than `Tick` |
| `torn[f]` | history: the mtime of the row was read after the bytes had changed again |

Every look at a file is an action: `Stat`, `ReadClock`, `Hash`, `Judge`, `Write` for a
drain and `token-goat index`, `Reread` for the second reading of `indexFileSync`,
`SweepStat`, `SweepHash`, `Restamp`, `Enqueue` for a sweep. Files change by `Edit` and
`Delete` between any two of them.

Abstractions. A hash is the content itself. A row's other gates (parser version,
embedding state, spelling of the path) compare it with the program, not with the file,
and are left out, and so are writers that forge an mtime.

### `ReconcileSweep`

| state | code |
|-------|------|
| `row`, `drift`, `queue` | the files with rows, the files that differ from theirs, the dirty queue |
| `cursor`, `deletionCursor`, `swept` | the two resume points, and the record of a complete sweep while it is recent |
| `slow` | `listingKnownSlow` |
| `live`, `claim` | the request file and the claimed one |
| `sweep[s]` | the locals of a sweep of a session start or of the worker: the order of its pass (`lap`), the files of it that are still `due`, those `found` |
| `owed`, `before`, `gap` | history: files that had drifted at a request, or as a sweep began, and were not queued since; the worker was killed between removing its claim and putting the request back |

`ScanNext`, `ScanEnds`, `RowsNext`, `RowsEnd`, `Enqueue` and `Settle` are a sweep,
whoever runs it; `Start` and `Hand` the session start around it; `Claim`, `Ask`,
`WorkerList`, `Throws`, `Release` and `PutBack` the worker around it. `Lap` is the order of a pass that
begins after a resume point: `RotatedAfter` it. `Drain`, `Change`,
`ShellWrites`, `Ages` are the world. A pass may stop after its first file, at any file:
that is the budget. Order matters to the resume points, so the listings are sequences:
`Tracked` is what git lists to a session start, `Listed` what the worker sees, with the
untracked files.

### `EmbedFreshness`

| state | code |
|-------|------|
| `disk`, `seen` | what a file holds and has held |
| `row[f]`, `vec[f]` | `files.sha` and `files.embed_sha` of its row; the content its chunks and vectors were made from |
| `model` | the model's files are there, missing, or missing and held by a recent failure |
| `job[p]`, `chain[f]` | the embed at work for a file, or in the command: waiting for a slot, about to read, about to delete the vectors, in inference, over; the hashes of those behind it (`inFlightEmbeddings`) |
| `waiters`, `active` | `embedSlotWaiters`, `activeEmbedSlots` |
| `queued`, `taken` | the dirty queue; the file a drain indexes, with the bytes it read |
| `walk`, `wasReady` | the rows past `embedBacklogCursor`; `embeddingsWereReady` |
| `cli` | the locals of `cmdIndex` for one file after the other, and the files left to the worker |
| `events`, `forgone` | bound and history: edits, commands and faults so far; files whose embed failed, was lost with a killed command, or was begun by the command for bytes the file no longer had |

`Take` and `IndexTaken` are a drain's work on a file, `RunEmbed`, `Release` and
`NextInChain` the slots and chains, `ReadText`, `Drop`, `WriteVectors`, `Refused` and
`EmbedFails` an embed in either process, `Idle` a cycle that found nothing to drain,
`Die` and `Start` the worker's life; `Open`, `Hash`, `Look`, `WriteRow`, `Close` and
`Killed` the command. `Edit`, `Enqueue` and `HoldEnds` are the world.

The worker is one thread, so what follows the end of an embed (the release, the next in
line, the next of the chain) comes before anything else of it does (`Free`), but not
before steps of the command. What the code cannot exclude is named in `Mishaps`:

- `"gap"`: another process indexes a file between the reading of a text that is not to
  be embedded and the deletion of its vectors;
- `"revert"`: a file gets a content back that it had before;
- `"brief"`: a hold begins and ends without an idle cycle that sees it.

Abstractions. A hash is the content itself; contents are embedded or are not
(`Skipped`: empty, too large, not text), and the markers stamped for the latter count
as the hash. Vectors and stamp are written in one step: between them the row stays
unstamped, and is taken for stale by whoever looks. Which rows the walk has passed is
any set of fresh ones: the code's order is that of paths.

## 4. What the runs show

Passing runs. Deadlock checking is off in all of them: the system really may stop
(every hook idle, the daemon dead, the edits used up).

| run | instance | shows |
|-----|----------|-------|
| `drain_core` | 2 files in one call, one of them blocked, 1 hook, 1 daemon, 2 faults | `IInv`: the daemon's bookkeeping agrees with the directory, through batches, partial hand-back and deferral, and no rows go back to an older version; `NoSilentLoss`: a file whose rows are right, or which somebody still has to index, stays so at every step, edits included, or goes by one of five named losses |
| `drain_live` | 2 files, one never indexable, 2 faults, 1 attempt of a hook | `OwedIsSettled`: no queue file is stuck and none is handed round for ever; `QueueEmpties`: the directory empties, a file that could for once be neither deleted nor renamed included |
| `lock_core` | 4 processes, 2 faults, no mishap | `IInv`, `MutualExclusion`, and `ImplementsMutex` |
| `lock_live` | 3 processes, 2 faults, mishaps token and steal | `OrphanCleared` |
| `life_core` | 2 launchers, 2 process numbers, `worker start` and `stop`, 2 faults | `StrangersSpared`: nothing a launcher or a daemon does ends a process that merely got a daemon's number |
| `life_live` | 1 launcher, 2 numbers, all mishaps but a slow query, 1 fault | `StraysLeave`, `QueuedIsDrained`, `OneDaemonAtLast` |
| `session_core` | 2 hooks, 1 range, 1 entry, 2 reads, 1 compaction, 1 change of the file, 1 fault, two mixtures of operations, the epoch file seen half-written | `CountedOnce`, `PendingExact`: no read, entry or taking of one hook is lost to or doubled by the save of another; `RangesInEpoch`: nothing from before a compaction comes back; `KnowsCompaction`: a compaction reaches every later hook although its save was skipped |
| `call_core` | 1 call followed among any others, 2 slots, 2 faults, 1 server started anew | `RunsOnce`: no hook runs twice; `AnswerNotCutShort`: no answer is lost because its server retired; `CallEnds`, `Retires`; `ImplementsHookRun`: all steps are those of `HookRun` |
| `endpoint_core` | 3 servers, of which one may be interrupted anywhere, 4 socket files, 2 keys, 2 faults | `EndpointInv`: no server takes an older socket file for its own; `LeavesOthersAlone` and `OrphanExits` of the other two, beside the third |
| `index_core` | 1 file, 1 sweep, 1 indexer, 2 contents, a tick of 2 s in 3 s, 1 edit, 1 fault | `ProofsHold`: a row passed over unread is right; `DriftSettles` |
| `reconcile_core` | 1 tracked and 1 untracked file, 1 session start, the worker, 1 change, 1 fault | `NothingMissed`: a sweep loses no drifted file to its rotation, to its second pass or to what others do meanwhile; `RequestKept`, `SweptIsQueued`, `OwedQueued` |
| `embed_core` | 2 files, both given to the command, one of which changes, 2 contents, one of them not embedded, 1 slot, 2 edits, commands or faults, no mishap | `SlotsKept`: no slot is lost or used twice; `StampTrue`: a stamp does not vouch for other vectors; `EmbedsSettle`: what was left without vectors gets them |

Kept beside them, and passing: `reconcile_lap`, the same questions as `reconcile_core`
for two tracked files and one untracked, without session starts, where a scan is cut
short and goes on from its resume point twice.

Why the bounds are enough. Two faults let a second one hit the handling of the first (a
failed delete followed by a crash, a failed sidecar write followed by a failed append).
Two edits let the second arrive while the first is in any phase. The inodes and
alternate names are as many as one cycle can link at once, plus one held open by a hook.
`AppendAttempts = 2` lets both the retry and its exhaustion happen; in `drain_live` a hook
gives up when one claim overtakes it, and the two faults are spent on the daemon, as the
file that can be neither deleted nor renamed takes both. With two attempts and two
faults the same properties hold (898,178 states, over four minutes); with one attempt
and three faults they do too (483,017 states). Four lock processes
give a holder, two waiters that judged the same lock and one that takes it in between;
the judging needs no more.

In `WorkerLifecycle`, two process numbers let a daemon and its successor, or a daemon
and the stranger with its predecessor's number, exist side by side. Its
two faults are a crash and what befalls the daemon started after it. Two launchers let
one claim, stop or replace between any two steps of the other. `life_live` has one
launcher and one fault: two calls never overlap in it. With two launchers that start,
stop and upgrade at once, the pid file seen empty and no fault (`MaxFaults = 0`), all
three properties hold as well (68,384 states). With a second fault both numbers
could be taken by daemons that nothing names, and no third could be started: that would
be the bound's doing. With three numbers, two faults and the empty pid file as the only
mishap, `StraysLeave` and `OneDaemonAtLast` hold too (132,247 states, some minutes).

In `SessionStore`, two hooks let each part of one hook's load, event and save fall
anywhere in the other's; a merge has two sides, and a third hook finds what two left on
disk, since names are used again. Two reads let a count be doubled, lost or moved over
the compaction; the one fault is a killed hook, an unreadable file, a save without lock
or one that fails, and the next hooks live with it. The two mixtures of operations
leave out only combinations of parts that no definition relates (entries with ranges).

In `HookCall`, calls do not see each other: one meets another only as a server that is
busy, or that retires only after the other's answer. So one call is followed, and
`RunsOther` makes a server busy at any time. Two slots let the call be answered twice,
claim one and hang up on the other, and run out. Each fault (a death, a kill of the
caller, a dropped connection) ends a call or a server for good; two let both servers
die, or one die and the other's connection drop. The theorems cover any number of calls.

In `HookEndpoint`, three servers are a dead one's two finders and a newer one; the four
files are one each and one more for a restart. `ReachableStays` was checked with
`Prompt = {}` too (174,532 states) before it was proved.

In `IndexFreshness`, files do not interact: a row is a matter of its own file, so one
file, one sweep and one indexer (which is a drain, a command or a healing read from one
file to the next) are a sweep and a drain that interleave. A clock of three seconds is a
tick and one more: time for an mtime to become old enough to vouch, and for an edit
before and after that. The theorem covers the rest.

In `ReconcileSweep`, one tracked and one untracked file give each pass one file: the
budget ends before or after it. Passes of two files, their resume points in between and
their rotation are `reconcile_lap`'s.

In `EmbedFreshness`, files meet only in the slots: with one slot and two files, one
embed waits while the other works, fails or finds the download held. All else is a
matter of one file, in two processes, so that only `f1` changes. The command is given
both, and may run out of time after either: what it has not embedded is then left to the
worker. Two events are a pair of edits around an embed, an edit beside a command, a
failed download and the death that follows. Two instances that take longer pass as well:
both files changing and one given to the command (1,558,108 states), and one file with
three events (127,318 states).

Symmetry is used in runs without liveness properties only. The `VIEW` of
`MCDirtyQueue` hides the contents of inodes nobody links or holds open, which no
action reads.

Fairness. In `DirtyQueue`, weak fairness of each hook's steps (a running process is
scheduled) and of each daemon's steps, its start included: `ensureWorkerAlive` runs in
every edit hook and restarts a dead daemon. Faults, edits and retirement are not
fair. In `FileLock`, weak fairness of each live process and of the passing of time
(the files' ages). Nothing is assumed of deaths or of pid reuse. `OrphanCleared` is
about locks that somebody still asks for: fairness of a process includes calling
again. In `WorkerLifecycle` (`BusySpec`), weak fairness of each launcher's step within
a call, of each running daemon's boot, poll, drain and exit (the loop does each in
every cycle), of time passing without a stall, and of `Ensure`: edits go on. Nothing
is assumed of crashes, commands, upgrades, reuse, stalls or idle exits; without further
edits a queue can wait for ever, which is what `life_idle` is about.

In `HookCall`, weak fairness of the timers (Node fires them), of a connection attempt and
of what arrives at a client, of the handler's end and of the flush of its answer or the
sight of a closed connection, of `Exit` once nothing holds it back. Nothing is assumed
of new calls, stops, starts or deaths. In `HookEndpoint`, weak fairness of a server's own
code and of its timer. In `IndexFreshness`, weak fairness of what an indexer or a sweep
has begun; strong fairness of `Take` (a drain comes again and again between the commands,
and takes what is queued), of looking at the next file, and of a `Start` over a full
listing: sweeps are started at every session and the walk of each goes on where the last
one stopped, which `OwedQueued` checks of `ReconcileSweep`.
In `EmbedFreshness`, weak fairness of the start of a worker and of what it does in each
cycle (take a file, index it, walk when idle), of the steps of an embed, of the command
once it is begun, of the end of a hold, and of queueing a file that differs from its
row, which is what `DriftSettles` checks. Nothing is assumed of edits, new commands,
failures or deaths: `EmbedsSettle` is about what they left.
In `ReconcileSweep`, weak fairness of the worker's step alone: its loop comes back to the
requests as long as it lives, and `life_live` is why one does. Session starts, kills,
drains and the ageing of records are not fair.

## 5. What is proved

Eight modules of proofs, each beside the modules it is about (`HookServerProofs` is about
`HookCall` and `HookEndpoint`), for every value of the constants.

`DirtyQueueProofs` (assumption `ConstantsAssumption`; where stated, `SoleDaemon`: at
most one daemon):

- `TypeCorrect`: `Spec => []TypeOK`.
- `BookkeepingCorrect`: `Spec => []IInv` with one daemon. `IInv` has two parts.
  `Books`: no inode has two names, a hook that wrote finds its lines in its inode, what
  the daemon listed, claimed or is reading is where it left it, the sidecar is its own,
  and remembered stamps are of files still there. Each part is needed: without
  `HookWrote` the recheck could miss a late line; without `StampsCurrent` a recreated
  file could be taken for one already processed. `VersionsInOrder`: what the daemon has
  read is no older than the rows it will replace.
- `SilentLossFree`: `Spec => NoSilentLoss` with one daemon. `Accounted(f)` says that the
  rows of `f` are right or some process will still make them so; it holds at the start,
  and each step keeps it or is one of the five losses. For a file that is owed, one lemma
  per action shows where it still is after the step (`Books`); for one whose rows are
  right, an edit leaves it with its hook, and rows read before the edit are never written
  over newer ones (`VersionsInOrder`).
- `OnlyAttemptsLose`: `Spec => LostOnlyByAttempts` with one daemon and `Stuck = {}`: until
  the first crash, retirement or failed call, four of the five losses cannot happen, and
  the fifth is a hook under which dirty.txt was renamed at each of its attempts. The
  invariant is `Calm`: until then no retry is charged and nothing is deferred.

`FileLockProofs` (assumption `NoMishaps`: `Mishaps = {}`; deaths, refusals and pid
reuse remain):

- `LockStateCorrect`: `Spec => []IInv`: a process in its section has its own complete
  lock file on disk, whoever is about to unlink the lock is unlinking an orphan, and
  the guard is in the hands of the only process that steals. Mutual exclusion is not
  inductive by itself: it is preserved by an unlink only because of what the unlinking
  process established under the guard.
- `SectionIsExclusive`: `Spec => []MutualExclusion`.
- `LockImplementsMutex`: `Spec => ImplementsMutex`, the refinement, from `IInv`.

`WorkerLifecycleProofs`:

- `TypeCorrect`: `Spec => []TypeOK`, with no assumption on the mishaps. `TypeOK` is not
  inductive: a launcher that writes `worker.pid` must hold a child to name, which is
  `ClaimsForChild`.
- `StrangersAreSpared` (assumption: neither `"blind"` nor `"slow"` is among the
  mishaps): `Spec => StrangersSpared`. A launcher judges a process in one step and ends
  it in a later one, so the invariant, `VictimsKnown`, is about what it holds in
  between: neither its child nor the process it is about to end is a stranger. It is
  kept because a process becomes a stranger only by `Reuse`, whose guard excludes a
  number whose launcher still holds the child (the handle keeps the number) and one
  under query. `life_blind` shows that the first assumption is needed; with `"slow"` in
  its place the second is.

`HookServerProofs`, about `HookCall` (assumption `ConstantsAssumption` only; any number of
calls, slots, starts and faults):

- `TypeCorrect`: `Spec => []TypeOK`.
- `HooksRunOnce`: `Spec => []RunsOnce`.
- `AnswersArrive`: `Spec => []AnswerNotCutShort`.

  `RunsOnce` is kept by a step only because of where the request can be. The invariant
  says so in two parts. Of a call (`CallInv`): unclaimed it ran nowhere, claimed it never
  runs its hook itself, and lost without excuse no server ran it. Of a call and a slot
  (`AttInv`, `HelloInv`, `AnswerInv`): which frames can be on the connection, that a
  request is written once and only to the slot that has the claim, that a server counts
  a call as awaiting exactly while its challenge is unanswered, and that a run has left
  its answer with the server or, behind no other frame, on the connection.

- `CallImplementsHookRun`: `Spec => ImplementsHookRun`, the refinement. It says more than
  the two above: that an answer is of a run of the hook, that a call which decided to
  run its hook itself is the only one to run it ever after, and that an outcome is
  final. `IInv` is not enough for it. `RunInv` adds that an answer on a connection, or
  taken, is of a call whose hook ran, that a server has only calls that claimed it, and
  that a killed call is excused. The proof has two halves with a statement of their own
  each: a step of a call `Proceeds` and brings it no answer, a step of a server runs a
  hook that is its to run (`RunsFor`) or loses answers with the server (`Loses`); both
  are then mapped.

- `UnclaimedNeverStranded`: `Spec => []StrandedWasClaimed`. Section 6 shows a call that
  waits for nothing (`call_stranded`); this bounds that: only a call that some server
  claimed can come to it, as a call that asks and is unclaimed has an attempt under way
  or the timer of its hedge running (`StepWaits`).

About `HookEndpoint` (assumption `EndpointAssumption` only: any servers, any of them
interrupted between any two calls, any crashes and deletions of the key):

- `EndpointKnown`: `EndpointSpec => []EndpointInv`. The path names the newest socket file
  or none, no two servers listen on one, and the file a server takes for its own is its
  own or one made after it (`mine[p] <= socketIno[p]`): what it reads back may be
  another's, but never an older one, since a file that was replaced does not return. Of
  a prompt server it says that it took its own, and finds it there when about to close.
- `ReachableServersStay`: `EndpointSpec => []ReachableStays`, from it: a server that
  callers reach never takes itself for replaced. This needs the order of the inodes: the
  file at its path is its own and the newest, so nothing newer can have been read back.
- `OthersLeftAlone`: `EndpointSpec => LeavesOthersAlone`, from it, for a prompt server
  among any others. Of a server that is interrupted it is false (`endpoint_unlink`).

`IndexFreshnessProofs` (assumption `ConstantsAssumption` only; any files, tick, clock,
sweeps, indexers and faults):

- `TypeCorrect`: `Spec => []TypeOK`.
- `ProofsAlwaysHold`: `Spec => []ProofsHold`. The argument is the racy-clean rule's own:
  a look vouches for its bytes when its mtime is a tick older than its clock, because
  every later write gets a time above that mtime (`Stamps`), so equality rules a later
  write out. `IInv` carries this from the look to the row: every look that was finished
  vouches (`Vouches`), the snapshot of a sweep is of no use to it once the row changed
  (its hash is compared again), and a row whose mtime was not read before its bytes is
  `torn` or was read while they were still the same.

`SessionStoreProofs` (assumption `ConstantsAssumption`; any hooks, entries, spans,
mixtures of operations and faults; where stated, `Torn = FALSE`):

- `TypeCorrect`: `Spec => []TypeOK`.
- `ReadsCountedOnce`, `EntriesExact`, `RangesStayInEpoch`: `Spec => []CountedOnce`,
  `Spec => []PendingExact`, `Spec => []RangesInEpoch`. None is inductive. The invariant
  adds to them what makes a merge right: while every save had the lock, whoever is in
  the section has read what is on disk (`LockInv`); the counters in the copies and in
  what was read never exceed what was counted (`CountInv`); an entry that was left but
  not saved is with the hook that left it and with no other (`PendingInv`); and every
  copy of a session keeps to its own epoch, no epoch being of the future (`EpochInv`).
  `RangesInEpoch` needs nothing of the lock, so it holds of saves without it too.
- `CompactionKnown`: `Torn = FALSE` implies `Spec => []KnowsCompaction`, from `IInv`
  and `KnowsInv`: the epoch file holds the last published compaction. `session_torn`
  (section 6) shows that the assumption is needed.

`EmbedFreshnessProofs` (assumption `ConstantsAssumption`; any files, slots, batch, events;
where stated, `NoRaces`: neither `"gap"` nor `"revert"` is among the mishaps):

- `TypeCorrect`: `Spec => []TypeOK`, and `SlotsAreKept`: `Spec => []SlotsKept`. The two
  need each other: that `active` stays a number of slots follows from its being the
  number of embeds at work, and that counts finite sets. What else is needed is where
  an embed can be: the embed kept for a file is of that file (`JobsOK`), so the line of
  waiters holds each file once. A release with a held download ends the whole line at
  once; that this leaves no slot in use without an embed is the core of the proof.
- `StampsAreTrue`: `NoRaces` implies `Spec => []StampTrue`. Not inductive: vectors are
  right when written only because the text was read after the hash and no content comes
  back, so that whenever the file is what the embed is for, the text is too (`TextOK`);
  and the unguarded deletion is right only because a row that describes the file then
  describes a text without vectors (`DropOK`). Both rest on what a file has held
  (`SeenOK`). `embed_gap` shows the first part of the assumption is needed.

`ReconcileSweepProofs` (assumption `ConstantsAssumption`; any files, listings, order of the
rows, session starts, changes and faults):

- `TypeInvariant`: `Spec => []TypeOK`; that a lap has no file twice is part of it.
- `SweepsMissNothing`: `Spec => []NothingMissed`, `RequestsKept`: `Spec => []RequestKept`,
  `SweptMeansQueued`: `Spec => SweptIsQueued`. They rest on one fact about a sweep, which
  `NothingMissed` states and `SweepInv` makes inductive: what had drifted as it listed,
  and was not queued since, is found or still ahead, unless the listing failed or a
  budget ended a pass. It holds of a sweep that begins because a lap has every file of
  the listing, wherever it starts (`RotatedKeeps`, `LapKeeps`); of the change to the
  second pass because a row that git did not list is a candidate of it; and of the
  other processes because whatever they queue leaves `before`. A request is then kept
  (`OwedInv`) because a worker that lets go of one has found all that was owed, or keeps
  the request; and a record of a complete sweep is written only by a sweep whose passes
  were not cut and whose queue took what it found, so nothing is left in `before`.

Only model-checked: everything about liveness, the runs with overlapping daemons and
with mishaps (where the invariants fail). Liveness under fairness and ENABLED are out
of the prover's reach, and so is induction over data.

## 6. Where the code and its comments disagree

Each is a configuration beside the listed runs, with one property that TLC finds
violated within seconds: what a comment says, against what the code does.

| cfg | property | source | disagreement |
|-----|----------|--------|--------------|
| `drain_overlap` | `NeverDeletedUnindexed` | `worker.ts:616` | two daemons alive on one data directory can delete a path unindexed |
| `lock_token` | `MutualExclusion` | `util.ts:527` | a lock read between its create and its token write names nobody, so a fresh lock is stolen and two processes are in an "exclusive" section |
| `lock_steal` | `OneStealer` | `util.ts:500` | after a death during a theft two waiters steal at once |
| `life_exit` | `ExitSparesOwner` | `worker.ts:975` | a daemon's exit handler removes the next owner's pid file |
| `life_idle` | `NextEnqueueStarts` | `worker.ts:967` | the enqueue after an idle exit starts no daemon when the last health check is recent |
| `life_clobber` | `NoClobber` | `worker_lifecycle.ts:318` | a reclaimer removes the file of a first-time claimer, who takes no lock and sees no `EEXIST` |
| `life_stop` | `StopSparesReplacement` | `worker_lifecycle.ts:267` | a stop removes a successor's pid file between its check and its removal |
| `life_blind` | `StrangersSpared` | `worker_lifecycle.ts:208` | a stop whose process query fails ends whatever has the pid; the line before the kill gives the reason, so a choice and not a slip |
| `session_vouch` | `RangesVouched` | `session_store.ts:469` | two hooks serve ranges around a change of the file: the merge keeps both lists under one identity, so a range of the old file is vouched for by the identity of the new |
| `session_epoch` | `EpochCountsReal` | `session.ts:325`, `:341` | a hook that missed the compaction and one that saw it merge to more reads "since the compaction" than there were, which can refuse a re-read |
| `session_torn` | `KnowsCompaction` | `hooks_compact.ts:27` | the epoch file is emptied before it is written: with a second compaction a hook that reads it in between learns of neither |
| `call_stranded` | `NoneStranded` | `hook_client.ts:206` | the slot that got the request answers busy or stale: every branch that settles the call is behind the early return, and the call waits for nothing |
| `endpoint_gap` | `AllOrphansExit` | `hook_server.ts:409`, `:237` | a server reads its inode back after another replaced its file, takes that for its own and never exits |
| `endpoint_unlink` | `AllLeaveOthersAlone` | `hook_server.ts:254` | the file is replaced between the comparison and the close |
| `index_late` | `EveryProofHolds` | `fingerprint.ts:67`, `parser.ts:559` | an edit between the reading of the bytes and of the mtime leaves an old hash under a new mtime; `token-goat index` and healing reads never repair it (`cli.ts:413`, `read_commands.ts:213`) |
| `reconcile_gap` | `EveryRequestKept` | `reconcile_requests.ts:90` | a kill between the removal of the claim and the append of what is left loses the request |

| `embed_gap` | `StampTrue` | `parser.ts:911`, `embeddings.ts:628` | `deleteFileEmbeddings` does not compare the row as `upsertChunks` does: `token-goat index` reads an empty version of a file, the worker embeds the next one, and the command then deletes its vectors; the stamp stays, so nothing embeds it again |
| `embed_brief` | `EmbedsSettle` | `worker.ts:414` | the walk starts again only when an idle cycle saw the hold: an embed passed over during a hold that no idle cycle saw waits for the next start of the worker |

Five more, whose instances are one line each:

- With `"revert"` in place of `"gap"`, `embed_gap` shows in nine states that an embed
  that read one text can stamp a row for another when the file got its old content back
  (`parser.ts:947`: the stamp's guard compares the hash of the row, not of the text).
- `DeferredLostOnlyByKill` (`worker.ts:558`): one file, one hook, one daemon, four
  inodes, two spare names, `MaxEdits = 1`, `MaxRetries = 1`, `AppendAttempts = 3`,
  `MaxFaults = 3`: a deferred path is lost without a kill when its sidecar and its final
  append both fail.
- `CountReachedQueue` (`hooks_index.ts:38`): the same with `MaxFaults = 0`:
  `enqueueDirtyPathsSafe` counts paths that did not reach the queue.
- `NeverHangsBehindOrphan` (`util.ts:464`): two processes, no mishap, one fault and
  `Undeletable = TRUE`: while an orphaned lock cannot be deleted, `withFileLock` never
  returns.
- `DeletedKeyRetires` (`hook_server.ts:43`): two servers, both in `Prompt`, four files, two
  keys, two faults: a deleted key that is made again within the interval retires nobody.

Two slips beside these are modelled and counted as `forgone`, so that `EmbedsSettle`
does not speak of them: a file that `token-goat index` hashes, and that changes before
it is parsed, is embedded for the older hash, which finds the row moved on; and one
whose embed fails. Both wait for the next start of a worker, for the second
`worker.ts:751` says so.

Some of these bound what the passing runs say: `KnowsCompaction` is checked with one
compaction (it holds with two when the epoch file is not seen empty: `Torn = FALSE`,
`MaxReads = 1`, `MaxChanges = 0`, reads and entries, 739,274 states), `ProofsHold` leaves `torn` rows out, `RequestKept` the one kill, `StampTrue`
and `EmbedsSettle` the three mishaps, each by a named condition in the property or the
instance.

## 7. What is not modelled, and why

- The watch on the queue that ends a sleep early, the length of the hold that
  `model_download_gate.ts` computes, and the eviction of blob caches: row 10 of the plan
  and after.
- `EmbedFreshness` leaves out the markers that say why a file has no vectors and the
  changes of configuration that make them stale, chunk boundaries moved by a new parser
  (`embeddingBoundariesMoved`), the cap on stored chunks (`enforceStoredChunkCap`),
  indexing that fails (`DirtyQueue` has it), the pause of the walk while hooks are active,
  a walk whose batch could not be queued, and the reset of the slots between tests.
- `WorkerLifecycle` leaves out a daemon that claims for itself (`claimCurrentWorker`),
  the deferred spawn of a session start, file operations that fail one by one, and the
  callers of `ensureWorkerAlive` that have queued nothing (`read_semantic.ts`). The
  heartbeat is of a whole cycle: the beats within a long batch only keep it fresh.
- `DirtyQueue` leaves out the embeds, the idle reclaim and the periodic sweeps of
  `worker.ts`, which touch neither the queue nor the rows it models; `FileLock` leaves
  out the Windows `EPERM` retry of the create and the backoff.
- `SessionStore` leaves out the caps on the session's lists, the redaction of what is
  written, and the parts of a session that merge like one of the four it has.
- `HookCall` leaves out the MACs, the frames of the second protocol version, requests
  too long for a frame, the control requests (status, stop), the markers that throttle
  the start of servers, and the order of calls inside one server (`relay.ts`).
- `HookEndpoint` is about Unix sockets; named pipes have no file to lose.
- `IndexFreshness` leaves out the gates of a row that compare it with the program
  (parser version, embeddings, spelling, skip rules) and writers that forge an mtime.
- `ReconcileSweep` leaves out several projects in one request file, `token-goat
  reconcile` (a sweep without the memory of a slow listing), which projects are indexed
  on purpose, and `index_prune.ts`.
- SQLite: its transactions are taken as atomic. The database is an external component.
- Parsers, language adapters, embedding inference, ranking, text and output
  processing, bridges, CLI: nine tenths of the source, sequential functions over text,
  whose input space is out of a model checker's reach and whose properties are not
  about state. Their share of the source is why the map covers little of it.
- The Rust hook client repeats the fast path of `hook_client.ts`: its protocol is that
  of `HookCall`, its code is not modelled.
