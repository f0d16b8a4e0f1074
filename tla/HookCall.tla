------------------------------- MODULE HookCall -------------------------------
(***************************************************************************)
(* A hook asks the resident servers to run it (src/src/hook_client.ts,      *)
(* hook_server.ts).  A call asks the slots one after the other, several at  *)
(* once when they are slow; the first server to answer its hello with a     *)
(* challenge gets the request.  A call that no server took runs the hook    *)
(* itself, and one that a server took and did not answer fails open.        *)
(*                                                                         *)
(* A connection carries frames in order and then an end of file.  What a    *)
(* server answers is in its own buffers until they are flushed; its other   *)
(* frames are small and are on the connection at once.  Keys and MACs are   *)
(* left out: both ends hold the key.  Which process has a slot's socket is  *)
(* the subject of HookEndpoint; here a slot has one server at a time.       *)
(***************************************************************************)
EXTENDS Integers, FiniteSets, Sequences

CONSTANTS
  Calls,  \* the calls that are followed
  Other,  \* any call of the rest of the machine
  Null, NSlots, MaxFaults, MaxStarts

Slots == 0..(NSlots - 1)

ASSUME ConstantsAssumption ==
  /\ Other \notin Calls \cup {Null}
  /\ Null \notin Calls /\ Null \notin Slots /\ Null \notin {"hello", "req"}
  /\ NSlots \in Nat \ {0} /\ MaxFaults \in Nat /\ MaxStarts \in Nat

VARIABLES
  \* The calls:
  call,      \* call[c]: how far c is, which slot it asks next, whether the timer for
             \* that is armed, whether it asks no more, and the slot that has its request
  att,       \* att[c][s]: the attempt of c on s
  \* The connections:
  toS, toC,  \* what the client has written, and the frames on their way to it
  link,      \* the server's end: "open", "ended" by it, or "closed" with the process
  \* The servers:
  srv, busy, awaiting, flushing,
  starts, faults,
  \* What happened, for the properties:
  runs,      \* runs[c]: how often the hook of c was run
  excused    \* calls whose server died, or whose harness or timer gave up on it

wires == <<toS, toC, link>>
servers == <<srv, busy, awaiting, flushing>>
clients == <<call, att>>
vars == <<clients, wires, servers, starts, faults, runs, excused>>

Spend == faults < MaxFaults /\ faults' = faults + 1

Init ==
  /\ call = [c \in Calls |-> [phase |-> "idle", next |-> 0, hedge |-> FALSE,
                              exhausted |-> FALSE, claimed |-> Null]]
  /\ att = [c \in Calls |-> [s \in Slots |-> "none"]]
  /\ toS = [c \in Calls |-> [s \in Slots |-> Null]]
  /\ toC = [c \in Calls |-> [s \in Slots |-> <<>>]]
  /\ link = [c \in Calls |-> [s \in Slots |-> "none"]]
  /\ srv \in [Slots -> {"up", "down"}]
  /\ busy = [s \in Slots |-> Null]
  /\ awaiting = [s \in Slots |-> {}] /\ flushing = [s \in Slots |-> {}]
  /\ starts = 0 /\ faults = 0
  /\ runs = [c \in Calls |-> 0] /\ excused = {}

-----------------------------------------------------------------------------
(***************************************************************************)
(* callServer.  a is what the attempts of the call are by now.              *)
(***************************************************************************)
Pending(a) == {s \in Slots : a[s] \in {"connecting", "asked", "sent"}}

\* Every attempt that has not sent the request hangs up.
Cancel(a) == [s \in Slots |-> IF a[s] \in {"connecting", "asked"} THEN "over" ELSE a[s]]

\* The attempts of c become a: a frame on its way to one that hung up is lost, f is
\* what the others are still to get.
Becomes(c, a, f) ==
  /\ att' = [att EXCEPT ![c] = a]
  /\ toC' = [toC EXCEPT ![c] = [s \in Slots |-> IF a[s] = "over" THEN <<>> ELSE f[s]]]

Settle(c, a, phase) ==
  /\ call' = [call EXCEPT ![c] = [@ EXCEPT !.phase = phase, !.hedge = FALSE]]
  /\ Becomes(c, Cancel(a), toC[c])

\* Mutant of Asks: the count of slots is not looked at.
AsksOn(c) == call[c].phase \in {"idle", "asking"} /\ ~call[c].exhausted

Asks(c) ==
  call[c].phase \in {"idle", "asking"} /\ ~call[c].exhausted /\ call[c].next \in Slots

\* No further slot is asked.
Exhausted(c, a) ==
  LET phase == IF Pending(a) = {} THEN "own" ELSE call[c].phase IN
  call' = [call EXCEPT ![c] = [@ EXCEPT !.phase = phase, !.exhausted = TRUE, !.hedge = FALSE]]

\* askNext of an unclaimed call: the next slot is asked, unless there is none or
\* FIND_BUDGET_MS has passed; then the call falls back once no slot is waited on.
AskNext(c, a) ==
  \/ /\ Asks(c)
     /\ LET next == call[c].next + 1 hedge == next \in Slots IN
        call' = [call EXCEPT ![c] = [@ EXCEPT !.phase = "asking", !.next = next, !.hedge = hedge]]
     /\ Becomes(c, [a EXCEPT ![call[c].next] = "connecting"], toC[c])
  \/ Exhausted(c, a) /\ Becomes(c, a, toC[c])

Over(c, s) == [att[c] EXCEPT ![s] = "over"]

\* The attempt ended without an answer.  Once the request is with a server,
\* "the winner settles the call".
Ends(c, s) ==
  IF call[c].claimed # Null
    THEN Becomes(c, Over(c, s), toC[c]) /\ UNCHANGED call
    ELSE AskNext(c, Over(c, s))

Begin(c) ==
  /\ call[c].phase = "idle"
  /\ AskNext(c, att[c])
  /\ UNCHANGED <<toS, link, servers, starts, faults, runs, excused>>

\* The server is turned off for this call, or there is no key.
NotAsked(c) ==
  /\ call[c].phase = "idle"
  /\ call' = [call EXCEPT ![c].phase = "own"]
  /\ UNCHANGED <<att, wires, servers, starts, faults, runs, excused>>

\* HEDGE_MS without an answer: the next slot is asked as well.
Hedge(c) ==
  /\ call[c].hedge
  /\ AskNext(c, att[c])
  /\ UNCHANGED <<toS, link, servers, starts, faults, runs, excused>>

\* The hook is run in the caller's own process.
RunOwn(c) ==
  /\ call[c].phase = "own"
  /\ call' = [call EXCEPT ![c].phase = "ran"]
  /\ runs' = [runs EXCEPT ![c] = @ + 1]
  /\ UNCHANGED <<att, wires, servers, starts, faults, excused>>

\* The harness kills the hook.
KillCall(c) ==
  /\ call[c].phase \in {"asking", "own"} /\ Spend
  /\ call' = [call EXCEPT ![c] = [@ EXCEPT !.phase = "killed", !.hedge = FALSE]]
  /\ Becomes(c, [s \in Slots |-> IF att[c][s] = "none" THEN "none" ELSE "over"], toC[c])
  /\ excused' = excused \cup {c}
  /\ UNCHANGED <<toS, link, servers, starts, runs>>

-----------------------------------------------------------------------------
(***************************************************************************)
(* One attempt: c on slot s.                                                *)
(***************************************************************************)
Connect(c, s) ==
  /\ att[c][s] = "connecting" /\ srv[s] = "up"
  /\ att' = [att EXCEPT ![c][s] = "asked"]
  /\ link' = [link EXCEPT ![c][s] = "open"] /\ toS' = [toS EXCEPT ![c][s] = "hello"]
  /\ UNCHANGED <<call, toC, servers, starts, faults, runs, excused>>

\* Nobody listens: a server is started for other calls, and no further slot asked.
Absent(c, s) ==
  /\ att[c][s] = "connecting" /\ srv[s] # "up"
  /\ Becomes(c, Over(c, s), toC[c]) /\ Exhausted(c, Over(c, s))
  /\ UNCHANGED <<toS, link, servers, starts, faults, runs, excused>>

Gets(c, s, frame) ==
  /\ att[c][s] \in {"asked", "sent"}
  /\ toC[c][s] # <<>> /\ Head(toC[c][s]) = frame
  /\ UNCHANGED <<link, servers, starts, faults, runs, excused>>

\* The first server to prove itself gets the request; the other attempts hang up.
GetChallenge(c, s) ==
  /\ Gets(c, s, "challenge") /\ att[c][s] = "asked"
  /\ IF call[c].phase = "asking" /\ call[c].claimed = Null
       THEN /\ call' = [call EXCEPT ![c] = [@ EXCEPT !.claimed = s, !.hedge = FALSE]]
            /\ Becomes(c, Cancel([att[c] EXCEPT ![s] = "sent"]),
                       [toC[c] EXCEPT ![s] = Tail(@)])
            /\ toS' = [toS EXCEPT ![c][s] = "req"]
       ELSE Becomes(c, Over(c, s), toC[c]) /\ UNCHANGED <<call, toS>>

GetBusy(c, s) == Gets(c, s, "busy") /\ Ends(c, s) /\ UNCHANGED toS

\* Every other slot would answer the same.
GetStale(c, s) ==
  /\ Gets(c, s, "stale") /\ UNCHANGED toS
  /\ IF call[c].claimed # Null THEN Ends(c, s) ELSE Settle(c, Over(c, s), "own")

GetAnswer(c, s) ==
  /\ Gets(c, s, "res") /\ att[c][s] = "sent" /\ UNCHANGED toS
  /\ Settle(c, Over(c, s), "served")

\* Mutant of GetEnd: a refused attempt does not ask the next slot.
GetEndOnly(c, s) ==
  /\ Gets(c, s, "eof") /\ UNCHANGED toS
  /\ IF att[c][s] = "sent" THEN Settle(c, Over(c, s), "lost")
     ELSE Becomes(c, Over(c, s), toC[c]) /\ UNCHANGED call

\* Mutant of GetEnd: a request whose answer does not come is run by the caller.
GetEndRuns(c, s) ==
  /\ Gets(c, s, "eof") /\ UNCHANGED toS
  /\ IF att[c][s] = "sent" THEN Settle(c, Over(c, s), "own") ELSE Ends(c, s)

\* The connection ends before the answer: lost when the request was sent.
GetEnd(c, s) ==
  /\ Gets(c, s, "eof") /\ UNCHANGED toS
  /\ IF att[c][s] = "sent" THEN Settle(c, Over(c, s), "lost") ELSE Ends(c, s)

\* The server is gone, and the request cannot be written.
WriteFails(c, s) ==
  /\ att[c][s] = "sent" /\ toS[c][s] = "req" /\ link[c][s] = "closed"
  /\ Settle(c, Over(c, s), "lost")
  /\ UNCHANGED <<toS, link, servers, starts, faults, runs, excused>>

HandshakeTimeout(c, s) ==
  /\ att[c][s] \in {"connecting", "asked"}
  /\ Ends(c, s)
  /\ UNCHANGED <<toS, link, servers, starts, faults, runs, excused>>

\* Mutant of ResponseTimeout: the hook is run by the caller after all.
ResponseTimeoutRetries(c, s) ==
  /\ att[c][s] = "sent"
  /\ Settle(c, Over(c, s), "own") /\ excused' = excused \cup {c}
  /\ UNCHANGED <<toS, link, servers, starts, faults, runs>>

ResponseTimeout(c, s) ==
  /\ att[c][s] = "sent"
  /\ Settle(c, Over(c, s), "lost") /\ excused' = excused \cup {c}
  /\ UNCHANGED <<toS, link, servers, starts, faults, runs>>

-----------------------------------------------------------------------------
(***************************************************************************)
(* The server of slot s (serveConnection, stop).                            *)
(***************************************************************************)
Sends(c, s, frames) ==
  toC' = IF att[c][s] = "over" THEN toC ELSE [toC EXCEPT ![c][s] = @ \o frames]

Reads(s, c, frame) ==
  /\ srv[s] # "down" /\ link[c][s] \in {"open", "ended"} /\ toS[c][s] = frame
  /\ toS' = [toS EXCEPT ![c][s] = Null]
  /\ UNCHANGED <<clients, srv, starts, faults, excused>>

\* A hello is answered with a challenge, or turned away.  A server whose bundle was
\* replaced turns it away too, and then stops.
Hello(s, c) ==
  /\ Reads(s, c, "hello") /\ UNCHANGED <<busy, flushing, runs>>
  /\ \/ /\ Sends(c, s, <<"stale", "eof">>)
        /\ link' = [link EXCEPT ![c][s] = "ended"] /\ UNCHANGED awaiting
     \/ /\ srv[s] = "up" /\ busy[s] # Null
        /\ Sends(c, s, <<"busy", "eof">>)
        /\ link' = [link EXCEPT ![c][s] = "ended"] /\ UNCHANGED awaiting
     \/ /\ srv[s] = "up" /\ busy[s] = Null
        /\ Sends(c, s, <<"challenge">>)
        /\ awaiting' = [awaiting EXCEPT ![s] = @ \cup {c}] /\ UNCHANGED link

\* A request is run when the server is free.  One that crossed the server's notice
\* that it stops is ignored.
Request(s, c) ==
  /\ Reads(s, c, "req") /\ UNCHANGED flushing
  /\ awaiting' = [awaiting EXCEPT ![s] = @ \ {c}]
  /\ IF c \notin awaiting[s] THEN UNCHANGED <<busy, toC, link, runs>>
     ELSE IF busy[s] = Null /\ srv[s] = "up"
       THEN /\ busy' = [busy EXCEPT ![s] = c] /\ runs' = [runs EXCEPT ![c] = @ + 1]
            /\ UNCHANGED <<toC, link>>
       ELSE /\ Sends(c, s, <<IF srv[s] = "retiring" THEN "stale" ELSE "busy", "eof">>)
            /\ link' = [link EXCEPT ![c][s] = "ended"] /\ UNCHANGED <<busy, runs>>

\* A call of the rest of the machine gets the server.
RunsOther(s) ==
  /\ srv[s] = "up" /\ busy[s] = Null
  /\ busy' = [busy EXCEPT ![s] = Other]
  /\ UNCHANGED <<clients, wires, srv, awaiting, flushing, starts, faults, runs, excused>>

\* The handler is done: its answer, or that it threw, goes into the buffers.
Answer(s) ==
  /\ srv[s] # "down" /\ busy[s] # Null
  /\ flushing' = [flushing EXCEPT ![s] = @ \cup ({busy[s]} \cap Calls)]
  /\ busy' = [busy EXCEPT ![s] = Null]
  /\ UNCHANGED <<clients, wires, srv, awaiting, starts, faults, runs, excused>>

Flush(s, c) ==
  /\ c \in flushing[s] /\ att[c][s] # "over"
  /\ Sends(c, s, <<"res", "eof">>) /\ link' = [link EXCEPT ![c][s] = "ended"]
  /\ flushing' = [flushing EXCEPT ![s] = @ \ {c}]
  /\ UNCHANGED <<clients, toS, srv, busy, awaiting, starts, faults, runs, excused>>

\* Mutant of SeesClose: an answer to a client that hung up is still waited for.
SeesCloseOfAwaiting(s, c) ==
  /\ att[c][s] = "over" /\ c \in awaiting[s]
  /\ awaiting' = [awaiting EXCEPT ![s] = @ \ {c}]
  /\ toS' = [toS EXCEPT ![c][s] = Null]
  /\ UNCHANGED <<clients, toC, link, srv, busy, flushing, starts, faults, runs, excused>>

\* The client has hung up.
SeesClose(s, c) ==
  /\ att[c][s] = "over" /\ c \in awaiting[s] \cup flushing[s]
  /\ awaiting' = [awaiting EXCEPT ![s] = @ \ {c}]
  /\ flushing' = [flushing EXCEPT ![s] = @ \ {c}]
  /\ toS' = [toS EXCEPT ![c][s] = Null]
  /\ UNCHANGED <<clients, toC, link, srv, busy, starts, faults, runs, excused>>

\* No request within HANDSHAKE_IDLE_MS: the connection is dropped.
IdleDrop(s, c) ==
  /\ c \in awaiting[s] /\ Spend
  /\ awaiting' = [awaiting EXCEPT ![s] = @ \ {c}]
  /\ Sends(c, s, <<"eof">>) /\ link' = [link EXCEPT ![c][s] = "closed"]
  /\ UNCHANGED <<clients, toS, srv, busy, flushing, starts, runs, excused>>

\* stop: asked to, idle, outdated, without key, or replaced.  A caller that holds a
\* challenge is told, since its request will not be run.
Stop(s) ==
  /\ srv[s] = "up"
  /\ srv' = [srv EXCEPT ![s] = "retiring"]
  /\ toC' = [c \in Calls |-> IF c \in awaiting[s]
               THEN [toC[c] EXCEPT ![s] = @ \o <<"stale", "eof">>] ELSE toC[c]]
  /\ link' = [c \in Calls |-> IF c \in awaiting[s] THEN [link[c] EXCEPT ![s] = "ended"]
                                                    ELSE link[c]]
  /\ awaiting' = [awaiting EXCEPT ![s] = {}]
  /\ UNCHANGED <<clients, toS, busy, flushing, starts, faults, runs, excused>>

\* The process ends, and its connections with it.
Gone(s) ==
  /\ srv' = [srv EXCEPT ![s] = "down"] /\ busy' = [busy EXCEPT ![s] = Null]
  /\ awaiting' = [awaiting EXCEPT ![s] = {}] /\ flushing' = [flushing EXCEPT ![s] = {}]
  /\ toC' = [c \in Calls |-> IF link[c][s] = "open" /\ att[c][s] # "over"
               THEN [toC[c] EXCEPT ![s] = Append(@, "eof")] ELSE toC[c]]
  /\ link' = [c \in Calls |-> IF link[c][s] = "none" THEN link[c]
                                                      ELSE [link[c] EXCEPT ![s] = "closed"]]
  /\ UNCHANGED <<clients, toS, starts, runs>>

\* Mutant of Exit: it does not wait for the answers in the buffers.
ExitUnflushed(s) ==
  /\ srv[s] = "retiring" /\ busy[s] = Null
  /\ Gone(s) /\ UNCHANGED <<faults, excused>>

Exit(s) ==
  /\ srv[s] = "retiring" /\ busy[s] = Null /\ flushing[s] = {}
  /\ Gone(s) /\ UNCHANGED <<faults, excused>>

Die(s) ==
  /\ srv[s] # "down" /\ Spend
  /\ Gone(s) /\ excused' = excused \cup flushing[s] \cup ({busy[s]} \cap Calls)

\* A server that some call found absent was started, and listens.
Start(s) ==
  /\ srv[s] = "down" /\ starts < MaxStarts
  /\ starts' = starts + 1
  /\ srv' = [srv EXCEPT ![s] = "up"]
  /\ UNCHANGED <<clients, wires, busy, awaiting, flushing, faults, runs, excused>>

CallStep(c) ==
  \/ Begin(c) \/ NotAsked(c) \/ Hedge(c) \/ RunOwn(c) \/ KillCall(c)
  \/ \E s \in Slots :
       \/ Connect(c, s) \/ Absent(c, s) \/ GetChallenge(c, s) \/ GetBusy(c, s)
       \/ GetStale(c, s) \/ GetAnswer(c, s) \/ GetEnd(c, s) \/ WriteFails(c, s)
       \/ HandshakeTimeout(c, s) \/ ResponseTimeout(c, s)

ServerStep(s) ==
  \/ RunsOther(s) \/ Answer(s) \/ Stop(s) \/ Exit(s) \/ Die(s) \/ Start(s)
  \/ \E c \in Calls :
       Hello(s, c) \/ Request(s, c) \/ Flush(s, c) \/ SeesClose(s, c) \/ IdleDrop(s, c)

Next == (\E c \in Calls : CallStep(c)) \/ (\E s \in Slots : ServerStep(s))

Spec == Init /\ [][Next]_vars

\* Node's timers fire, frames arrive, and a handler comes to its end.
Fairness ==
  /\ \A c \in Calls : WF_vars(Hedge(c)) /\ WF_vars(RunOwn(c))
  /\ \A c \in Calls, s \in Slots :
       /\ WF_vars(Connect(c, s) \/ Absent(c, s)) /\ WF_vars(HandshakeTimeout(c, s))
       /\ WF_vars(GetChallenge(c, s) \/ GetBusy(c, s) \/ GetStale(c, s)
                    \/ GetAnswer(c, s) \/ GetEnd(c, s))
       /\ WF_vars(ResponseTimeout(c, s))
       /\ WF_vars(Flush(s, c) \/ SeesClose(s, c))
  /\ \A s \in Slots : WF_vars(Answer(s)) /\ WF_vars(Exit(s))

FairSpec == Spec /\ Fairness

-----------------------------------------------------------------------------
Phases == {"idle", "asking", "own", "ran", "served", "lost", "killed"}
Frames == {"challenge", "busy", "stale", "res", "eof"}

CallState ==
  [phase : Phases, next : 0..NSlots, hedge : BOOLEAN, exhausted : BOOLEAN,
   claimed : Slots \cup {Null}]

\* Every variable holds a value of its type.
TypeOK ==
  /\ call \in [Calls -> CallState]
  /\ att \in [Calls -> [Slots -> {"none", "connecting", "asked", "sent", "over"}]]
  /\ toS \in [Calls -> [Slots -> {"hello", "req", Null}]]
  /\ toC \in [Calls -> [Slots -> Seq(Frames)]]
  /\ link \in [Calls -> [Slots -> {"none", "open", "ended", "closed"}]]
  /\ srv \in [Slots -> {"up", "retiring", "down"}]
  /\ busy \in [Slots -> Calls \cup {Null, Other}]
  /\ awaiting \in [Slots -> SUBSET Calls] /\ flushing \in [Slots -> SUBSET Calls]
  /\ starts \in 0..MaxStarts /\ faults \in 0..MaxFaults
  /\ runs \in [Calls -> Nat] /\ excused \subseteq Calls

\* hook_client.ts:1: "running a hook twice is worse than failing it open": a hook is
\* run once at most, by one of the servers asked at the same time or by its caller.
RunsOnce == \A c \in Calls : runs[c] <= 1

\* hook_server.ts:222: "an answer already sent is never cut short", nor is one still
\* to be made: a call whose hook a server ran fails open only when that server died
\* or the caller stopped waiting, never because the server retired.
AnswerNotCutShort ==
  \A c \in Calls : call[c].phase = "lost" /\ runs[c] = 1 => c \in excused

\* The call still waits, and for nothing.
Stranded(c) == call[c].phase = "asking" /\ ~call[c].hedge /\ Pending(att[c]) = {}

\* hook_client.ts:155: "`undefined` means nothing was dispatched and the caller should
\* do the work itself": a call ends with an answer or with one of the two ways out.
NoneStranded == \A c \in Calls : ~Stranded(c)

\* Only a call that a server has claimed can come to that.
StrandedWasClaimed == \A c \in Calls : Stranded(c) => call[c].claimed # Null

\* A call with no server left to answer it ends: unanswered hellos, absent slots and
\* busy servers never leave one waiting (the calls of NoneStranded excepted).
CallEnds ==
  \A c \in Calls :
    (call[c].phase = "asking" /\ call[c].claimed = Null)
      ~> (call[c].phase # "asking" \/ call[c].claimed # Null)

\* A server that retires goes away, whatever its callers do.
Retires == \A s \in Slots : (srv[s] = "retiring") ~> (srv[s] = "down")

-----------------------------------------------------------------------------
Outcome(c) == IF call[c].phase \in {"idle", "asking"} THEN "open" ELSE call[c].phase
RanBy(c) ==
  IF runs[c] = 0 THEN Null ELSE IF call[c].phase = "ran" THEN "caller" ELSE "server"

Run == INSTANCE HookRun WITH outcome <- [c \in Calls |-> Outcome(c)],
                             by <- [c \in Calls |-> RanBy(c)]

\* All the races of slots, timers, frames and retirements come to this: one process
\* runs the hook, an answer is of that run, and what a call decided it keeps to.
ImplementsHookRun == Run!Spec

=============================================================================
