----------------------------- MODULE HookEndpoint -----------------------------
(***************************************************************************)
(* The Unix socket of one slot of the resident hook server and the secret   *)
(* key of the data directory (src/src/hook_server.ts, hook_ipc.ts).  "The   *)
(* endpoint name doubles as the single-instance lock": a server that finds  *)
(* a socket file with nobody behind it removes the file and listens itself, *)
(* and two of them may do so at once.  A server knows its own socket file   *)
(* by its inode, and leaves when the file is another's.                     *)
(*                                                                         *)
(* What a server answers to its callers is the subject of HookCall.         *)
(***************************************************************************)
EXTENDS Integers, FiniteSets

CONSTANTS
  Procs,    \* names for server processes; a name is used again after its process
  Prompt,   \* those of them that nobody comes between while they make two system
            \* calls in a row: listen and stat, stat and close
  MaxFiles, MaxKeys, MaxMishaps  \* bounds

ASSUME EndpointAssumption ==
  /\ Prompt \subseteq Procs
  /\ MaxFiles \in Nat /\ MaxKeys \in Nat \ {0} /\ MaxMishaps \in Nat

VARIABLES
  file,      \* the inode of the socket file, or 0
  mine,      \* mine[p]: the inode p listens on, or 0
  socketIno, \* socketIno[p]: the inode p takes for its own
  pc,
  key,       \* the key on disk, or 0
  held,      \* held[p]: the key p answers with
  files, keys, mishaps  \* how many of each there were

endpointVars == <<file, mine, socketIno, pc, key, held, files, keys, mishaps>>

EndpointInit ==
  /\ file = 0 /\ key = 0 /\ files = 0 /\ keys = 0 /\ mishaps = 0
  /\ mine = [p \in Procs |-> 0] /\ socketIno = [p \in Procs |-> 0]
  /\ held = [p \in Procs |-> 0]
  /\ pc = [p \in Procs |-> "off"]

Goes(p, to) == pc' = [pc EXCEPT ![p] = to]
Mishap == mishaps < MaxMishaps /\ mishaps' = mishaps + 1

\* p is at a step, and no prompt process is between its two calls.
At(p, step) ==
  pc[p] = step /\ \A q \in Prompt \ {p} : pc[q] \notin {"stat", "close"}

\* The socket and the memory of p go with the process.
TurnsOff(p) ==
  /\ Goes(p, "off")
  /\ mine' = [mine EXCEPT ![p] = 0] /\ socketIno' = [socketIno EXCEPT ![p] = 0]
  /\ held' = [held EXCEPT ![p] = 0]

\* A server starts: it reads the key, or makes one.
Launch(p) ==
  /\ At(p, "off")
  /\ \/ key # 0 /\ held' = [held EXCEPT ![p] = key] /\ UNCHANGED <<key, keys>>
     \/ /\ key = 0 /\ keys < MaxKeys
        /\ keys' = keys + 1 /\ key' = keys + 1 /\ held' = [held EXCEPT ![p] = keys + 1]
  /\ Goes(p, "listen")
  /\ UNCHANGED <<file, mine, socketIno, files, mishaps>>

\* listen on a free path makes the file.
Listen(p) ==
  /\ (At(p, "listen") \/ At(p, "relisten")) /\ file = 0 /\ files < MaxFiles
  /\ files' = files + 1 /\ file' = files + 1
  /\ mine' = [mine EXCEPT ![p] = files + 1]
  /\ Goes(p, "stat")
  /\ UNCHANGED <<socketIno, key, held, keys, mishaps>>

\* There is a file: the first time, whoever listens on it is probed.
InUse(p) ==
  /\ file # 0 /\ UNCHANGED <<file, key, files, keys, mishaps>>
  /\ \/ At(p, "listen") /\ Goes(p, "probe") /\ UNCHANGED <<mine, socketIno, held>>
     \/ At(p, "relisten") /\ TurnsOff(p)

Answered == file # 0 /\ \E q \in Procs : mine[q] = file

Probe(p) ==
  /\ At(p, "probe") /\ UNCHANGED <<file, key, files, keys, mishaps>>
  /\ IF Answered THEN TurnsOff(p)
     ELSE Goes(p, "remove") /\ UNCHANGED <<mine, socketIno, held>>

Remove(p) ==
  /\ At(p, "remove") /\ file' = 0 /\ Goes(p, "relisten")
  /\ UNCHANGED <<mine, socketIno, key, held, files, keys, mishaps>>

\* Mutant of Stat: a file that is gone by then is shrugged off.
StatTolerates(p) ==
  /\ At(p, "stat")
  /\ socketIno' = [socketIno EXCEPT ![p] = file]
  /\ Goes(p, "up")
  /\ UNCHANGED <<file, mine, key, held, files, keys, mishaps>>

\* The inode is read back.  Without a file this throws: the command fails, and the
\* server goes on listening with none of its timers set.
Stat(p) ==
  /\ At(p, "stat")
  /\ socketIno' = [socketIno EXCEPT ![p] = file]
  /\ Goes(p, IF file = 0 THEN "adrift" ELSE "up")
  /\ UNCHANGED <<file, mine, key, held, files, keys, mishaps>>

\* Mutant of OwnsEndpoint: a file at the path is taken for its own.
OwnsAnyFile(p) == file # 0

OwnsEndpoint(p) == file = socketIno[p]

\* Mutant of Leaves: the server is closed whosever the file is.
LeavesByClosing(p) ==
  /\ Goes(p, "close") /\ UNCHANGED <<file, mine, socketIno, held>>

\* stop: the path is unlinked by closing the server, which is left out when the file
\* is not its own.
Leaves(p) ==
  /\ UNCHANGED file
  /\ IF OwnsEndpoint(p) THEN Goes(p, "close") /\ UNCHANGED <<mine, socketIno, held>>
                        ELSE TurnsOff(p)

Close(p) ==
  /\ At(p, "close") /\ file' = 0 /\ TurnsOff(p)
  /\ UNCHANGED <<key, files, keys, mishaps>>

\* Idle, asked to stop, disabled or outdated.
Stops(p) ==
  /\ At(p, "up") /\ Leaves(p)
  /\ UNCHANGED <<key, files, keys, mishaps>>

\* Every KEY_CHECK_MS.
KeyCheck(p) ==
  /\ At(p, "up")
  /\ IF key = 0 \/ ~OwnsEndpoint(p) THEN Leaves(p)
     ELSE UNCHANGED <<file, mine, socketIno, pc, held>>
  /\ UNCHANGED <<key, files, keys, mishaps>>

Crash(p) ==
  /\ pc[p] # "off" /\ At(p, pc[p]) /\ Mishap /\ TurnsOff(p)
  /\ UNCHANGED <<file, key, files, keys>>

\* uninstall --purge.
PurgeKey ==
  /\ key # 0 /\ Mishap /\ key' = 0
  /\ UNCHANGED <<file, mine, socketIno, pc, held, files, keys>>

ProcStep(p) ==
  \/ Launch(p) \/ Listen(p) \/ InUse(p) \/ Probe(p) \/ Remove(p) \/ Stat(p)
  \/ Stops(p) \/ Close(p) \/ KeyCheck(p) \/ Crash(p)

EndpointNext == (\E p \in Procs : ProcStep(p)) \/ PurgeKey

EndpointSpec == EndpointInit /\ [][EndpointNext]_endpointVars

\* Nobody need start a server, stop it or end it, but its code runs and its timer fires.
EndpointFairness ==
  \A p \in Procs :
    /\ WF_endpointVars(Listen(p) \/ InUse(p) \/ Probe(p) \/ Remove(p) \/ Stat(p) \/ Close(p))
    /\ WF_endpointVars(KeyCheck(p))

EndpointFairSpec == EndpointSpec /\ EndpointFairness

-----------------------------------------------------------------------------
Pcs == {"off", "listen", "probe", "remove", "relisten", "stat", "up", "adrift", "close"}

\* Every variable holds a value of its type.
EndpointTypeOK ==
  /\ file \in 0..MaxFiles /\ files \in 0..MaxFiles
  /\ mine \in [Procs -> 0..MaxFiles] /\ socketIno \in [Procs -> 0..MaxFiles]
  /\ pc \in [Procs -> Pcs]
  /\ key \in 0..MaxKeys /\ keys \in 0..MaxKeys /\ held \in [Procs -> 0..MaxKeys]
  /\ mishaps \in 0..MaxMishaps

\* A server is listening once, on a file of its own, with or without that file.
Listening == {p \in Procs : pc[p] \in {"stat", "up", "adrift", "close"}}

\* The file at the path is the newest or there is none; no two servers listen on one;
\* a server takes its own file, or one that replaced it, for its own; and a prompt one
\* takes no other, and finds it there when it is about to unlink the path.
EndpointInv ==
  /\ EndpointTypeOK
  /\ file \in {0, files}
  /\ \A p \in Procs :
       /\ p \in Listening <=> mine[p] # 0
       /\ mine[p] <= files /\ socketIno[p] <= files
       /\ pc[p] \in {"up", "close"} => mine[p] <= socketIno[p]
       /\ \A q \in Procs \ {p} : mine[p] # 0 => mine[p] # mine[q]
  /\ \A p \in Prompt :
       /\ pc[p] \in {"up", "close"} => socketIno[p] = mine[p]
       /\ pc[p] \in {"stat", "close"} => file = mine[p]
       /\ pc[p] # "adrift"

\* hook_server.ts:237: the server that leaves because the file at the path is another's
\* is "reachable by nobody": one that callers reach never takes itself for replaced,
\* however late it looked at its inode and whoever came between.
ReachableStays ==
  \A p \in Procs : pc[p] = "up" /\ file = mine[p] => OwnsEndpoint(p)

\* A step with which p leaves, and the socket file that q listens on goes.
UnlinksAnothers(p, q) ==
  /\ p # q /\ pc[p] \in {"up", "close"} /\ pc'[p] = "off"
  /\ q \in Listening /\ mine[q] = file /\ file # 0 /\ file' = 0

\* hook_server.ts:254: a server that leaves "leaves that file alone" which another
\* server made: only the server that listens on a socket file unlinks it, but for one
\* that found it dead.
LeavesOthersAlone ==
  [][\A p \in Prompt, q \in Procs : ~UnlinksAnothers(p, q)]_endpointVars

\* The same of servers that others come between, of which it is not true.
AllLeaveOthersAlone ==
  [][\A p, q \in Procs : ~UnlinksAnothers(p, q)]_endpointVars

\* hook_server.ts:237: a server on a file that another replaced is "reachable by
\* nobody, so it exits", by its own timer and without anybody asking it.
Exits(p) == (p \in Listening /\ file # mine[p]) ~> (p \notin Listening)

OrphanExits == \A p \in Prompt : Exits(p)

\* The same of servers that others come between, of which it is not true.
AllOrphansExit == \A p \in Procs : Exits(p)

\* hook_server.ts:43: a key that was deleted "retires every server keyed on it within
\* this interval", whether or not the next server has made another by then.
DeletedKeyRetires ==
  \A p \in Procs : (pc[p] = "up" /\ held[p] # key) ~> (pc[p] # "up")

=============================================================================
