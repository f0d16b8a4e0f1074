---------------------------- MODULE HookServerProofs ----------------------------
(***************************************************************************)
(* Proofs about the resident hook server.  About HookCall, for any calls,   *)
(* slots, starts and faults: a hook runs once at most, and an answer is not *)
(* cut short by a retiring server.  About HookEndpoint, for any servers,    *)
(* crashes and deleted keys, and whoever comes between their system calls:  *)
(* a server takes no older file for its own, so that one which callers      *)
(* reach never takes itself for replaced; and one that nobody came between  *)
(* leaves the socket of another alone.                                      *)
(*                                                                         *)
(* HookCall's invariant has two parts.  One is about a call: what it can    *)
(* still do follows from who has its request.  The other is about a call    *)
(* and a slot: what is on the connection, and whether the server is to run  *)
(* the request, runs it or has run it, as far as the client is concerned.   *)
(***************************************************************************)
EXTENDS HookCall, HookEndpoint, TLAPS

\* Who may run the hook of c: nobody before the call was claimed, the server that has
\* the request once, and the caller only when no server has it.
CallInv(c) ==
  /\ call[c].phase \in {"idle", "own", "ran"} => call[c].claimed = Null
  /\ call[c].claimed = Null /\ call[c].phase # "ran" => runs[c] = 0
  /\ runs[c] <= 1
  /\ call[c].hedge => call[c].claimed = Null /\ call[c].phase = "asking"
  /\ call[c].phase = "lost" /\ c \notin excused => runs[c] = 0

\* An attempt of c on s goes with the call.
AttInv(c, s) ==
  /\ s >= call[c].next => att[c][s] = "none"
  /\ att[c][s] \in {"connecting", "asked"} => call[c].phase = "asking" /\ call[c].claimed = Null
  /\ att[c][s] = "sent" => call[c].phase = "asking" /\ call[c].claimed = s
  /\ toS[c][s] = "req" => call[c].claimed = s /\ runs[c] = 0 /\ att[c][s] \in {"sent", "over"}

\* The connection of c and s before s has the request.
HelloInv(c, s) ==
  /\ att[c][s] \in {"none", "connecting"} =>
       link[c][s] = "none" /\ toC[c][s] = <<>> /\ c \notin awaiting[s]
  /\ toS[c][s] = "hello" =>
       /\ att[c][s] \in {"asked", "over"} /\ c \notin awaiting[s] /\ link[c][s] # "ended"
       /\ link[c][s] = "open" /\ att[c][s] = "asked" => toC[c][s] = <<>>
  /\ c \in awaiting[s] =>
       /\ link[c][s] = "open"
       /\ att[c][s] = "asked" => toC[c][s] = <<"challenge">>
       /\ att[c][s] = "sent" => toC[c][s] = <<>> /\ toS[c][s] = "req"

\* s runs the hook of c or holds its answer; never both.
Handled(c, s) == busy[s] = c \/ c \in flushing[s]
Both(c, s) == busy[s] = c /\ c \in flushing[s]

\* The connection of c and s once s has the request, and the answer on its way.
AnswerInv(c, s) ==
  /\ ~Both(c, s)
  /\ Handled(c, s) => runs[c] = 1 /\ att[c][s] \in {"sent", "over"}
  /\ att[c][s] = "sent" /\ runs[c] = 1 /\ c \notin excused =>
       \/ link[c][s] = "open" /\ Handled(c, s) /\ toC[c][s] = <<>>
       \/ link[c][s] # "open" /\ ~Handled(c, s) /\ toC[c][s] = <<"res", "eof">>
  /\ call[c].phase = "lost" /\ c \notin excused /\ toS[c][s] = "req" => c \notin awaiting[s]

OK(c) == CallInv(c) /\ \A s \in Slots : AttInv(c, s) /\ HelloInv(c, s) /\ AnswerInv(c, s)

IInv == TypeOK /\ \A c \in Calls : OK(c)

-----------------------------------------------------------------------------
AttStates == {"none", "connecting", "asked", "sent", "over"}
LinkStates == {"none", "open", "ended", "closed"}

\* The parts of the type invariant, for the two ends and what lies between.
ClientTypes ==
  /\ call \in [Calls -> CallState]
  /\ att \in [Calls -> [Slots -> AttStates]]
WireTypes ==
  /\ toS \in [Calls -> [Slots -> {"hello", "req", Null}]]
  /\ toC \in [Calls -> [Slots -> Seq(Frames)]]
  /\ link \in [Calls -> [Slots -> LinkStates]]
ServerTypes ==
  /\ srv \in [Slots -> {"up", "retiring", "down"}]
  /\ busy \in [Slots -> Calls \cup {Null, Other}]
  /\ awaiting \in [Slots -> SUBSET Calls] /\ flushing \in [Slots -> SUBSET Calls]
CountTypes ==
  /\ starts \in 0..MaxStarts /\ faults \in 0..MaxFaults
  /\ runs \in [Calls -> Nat] /\ excused \subseteq Calls

\* The parts make the type invariant.
LEMMA TypesOfParts == TypeOK <=> ClientTypes /\ WireTypes /\ ServerTypes /\ CountTypes
  BY DEF TypeOK, ClientTypes, WireTypes, ServerTypes, CountTypes, AttStates, LinkStates

\* And so after a step.
LEMMA TypesOfPartsNext ==
  ASSUME ClientTypes', WireTypes', ServerTypes', CountTypes' PROVE TypeOK'
  BY DEF TypeOK, ClientTypes, WireTypes, ServerTypes, CountTypes, AttStates, LinkStates

\* The fields of what is kept about a call.
LEMMA CallFields ==
  ASSUME NEW r \in CallState
  PROVE  /\ r.phase \in Phases /\ r.next \in 0..NSlots /\ r.hedge \in BOOLEAN
         /\ r.exhausted \in BOOLEAN /\ r.claimed \in Slots \cup {Null}
  BY DEF CallState

\* Another phase, and a timer that is off.
LEMMA CallSettled ==
  ASSUME NEW r \in CallState, NEW phase \in Phases
  PROVE  LET new == [r EXCEPT !.phase = phase, !.hedge = FALSE] IN
         /\ new \in CallState /\ new.phase = phase /\ new.hedge = FALSE
         /\ new.next = r.next /\ new.claimed = r.claimed
  BY DEF CallState

\* A slot is asked.
LEMMA CallAsks ==
  ASSUME NEW r \in CallState, r.next \in Slots, NEW hedge \in BOOLEAN
  PROVE  LET new == [r EXCEPT !.phase = "asking", !.next = r.next + 1, !.hedge = hedge] IN
         /\ new \in CallState /\ new.phase = "asking" /\ new.hedge = hedge
         /\ new.next = r.next + 1 /\ new.claimed = r.claimed
<1>1. r.next + 1 \in 0..NSlots
  BY CallFields, ConstantsAssumption DEF Slots
<1> QED
  BY <1>1 DEF CallState, Phases

\* No slot is asked any more.
LEMMA CallExhausted ==
  ASSUME NEW r \in CallState, NEW phase \in Phases
  PROVE  LET new == [r EXCEPT !.phase = phase, !.exhausted = TRUE, !.hedge = FALSE] IN
         /\ new \in CallState /\ new.phase = phase /\ new.hedge = FALSE
         /\ new.next = r.next /\ new.claimed = r.claimed
  BY DEF CallState

\* A call is claimed.
LEMMA CallClaimed ==
  ASSUME NEW r \in CallState, NEW s \in Slots
  PROVE  LET new == [r EXCEPT !.claimed = s, !.hedge = FALSE] IN
         /\ new \in CallState /\ new.phase = r.phase /\ new.hedge = FALSE
         /\ new.next = r.next /\ new.claimed = s
  BY DEF CallState

\* The frames a server sends are frames, and so is what is left of them.
LEMMA FrameSeqs ==
  /\ <<>> \in Seq(Frames) /\ <<"challenge">> \in Seq(Frames) /\ <<"eof">> \in Seq(Frames)
  /\ \A x \in {"stale", "busy", "res"} : <<x, "eof">> \in Seq(Frames)
  /\ \A q, r \in Seq(Frames) : q \o r \in Seq(Frames)
  /\ \A q \in Seq(Frames) : q # <<>> => Tail(q) \in Seq(Frames)
  /\ \A q \in Seq(Frames) : Append(q, "eof") \in Seq(Frames)
  BY DEF Frames

\* What Becomes does.
LEMMA BecomesDoes ==
  ASSUME ClientTypes, WireTypes, NEW c \in Calls, NEW a \in [Slots -> AttStates],
         NEW f \in [Slots -> Seq(Frames)], Becomes(c, a, f)
  PROVE  /\ att' \in [Calls -> [Slots -> AttStates]] /\ toC' \in [Calls -> [Slots -> Seq(Frames)]]
         /\ att'[c] = a
         /\ \A s \in Slots : toC'[c][s] = IF a[s] = "over" THEN <<>> ELSE f[s]
         /\ \A d \in Calls \ {c} : att'[d] = att[d] /\ toC'[d] = toC[d]
<1> DEFINE new == [s \in Slots |-> IF a[s] = "over" THEN <<>> ELSE f[s]]
<1>1. new \in [Slots -> Seq(Frames)]
  BY FrameSeqs
<1>2. att' = [att EXCEPT ![c] = a] /\ toC' = [toC EXCEPT ![c] = new]
  BY DEF Becomes
<1>3. \A s \in Slots : new[s] = IF a[s] = "over" THEN <<>> ELSE f[s]
  OBVIOUS
<1> HIDE DEF new
<1> QED
  BY <1>1, <1>2, <1>3 DEF ClientTypes, WireTypes

\* The attempts that a call may get.
LEMMA AttemptTypes ==
  ASSUME ClientTypes, NEW c \in Calls
  PROVE  /\ att[c] \in [Slots -> AttStates]
         /\ \A s \in Slots, x \in AttStates :
              [att[c] EXCEPT ![s] = x] \in [Slots -> AttStates]
         /\ \A s \in Slots : Over(c, s) \in [Slots -> AttStates]
         /\ \A a \in [Slots -> AttStates] : Cancel(a) \in [Slots -> AttStates]
  BY DEF ClientTypes, AttStates, Over, Cancel

\* What Settle does.
LEMMA SettleDoes ==
  ASSUME ClientTypes, WireTypes, NEW c \in Calls, NEW a \in [Slots -> AttStates],
         NEW phase \in Phases, Settle(c, a, phase)
  PROVE  /\ ClientTypes' /\ toC' \in [Calls -> [Slots -> Seq(Frames)]]
         /\ call'[c].phase = phase /\ call'[c].hedge = FALSE
         /\ call'[c].next = call[c].next /\ call'[c].claimed = call[c].claimed
         /\ \A s \in Slots :
              /\ att'[c][s] = IF a[s] \in {"connecting", "asked"} THEN "over" ELSE a[s]
              /\ toC'[c][s] = IF att'[c][s] = "over" THEN <<>> ELSE toC[c][s]
         /\ \A d \in Calls \ {c} : call'[d] = call[d] /\ att'[d] = att[d] /\ toC'[d] = toC[d]
<1> DEFINE new == [call[c] EXCEPT !.phase = phase, !.hedge = FALSE]
<1>1. call' = [call EXCEPT ![c] = new]
  BY DEF Settle, ClientTypes
<1>2. /\ new \in CallState /\ new.phase = phase /\ new.hedge = FALSE
      /\ new.next = call[c].next /\ new.claimed = call[c].claimed
  BY CallSettled DEF ClientTypes
<1> HIDE DEF new
<1>3. toC[c] \in [Slots -> Seq(Frames)] /\ Cancel(a) \in [Slots -> AttStates]
  BY AttemptTypes DEF WireTypes
<1>4. /\ att' \in [Calls -> [Slots -> AttStates]] /\ toC' \in [Calls -> [Slots -> Seq(Frames)]]
      /\ att'[c] = Cancel(a)
      /\ \A s \in Slots : toC'[c][s] = IF Cancel(a)[s] = "over" THEN <<>> ELSE toC[c][s]
      /\ \A d \in Calls \ {c} : att'[d] = att[d] /\ toC'[d] = toC[d]
  BY <1>3, BecomesDoes DEF Settle
<1> QED
  BY <1>1, <1>2, <1>4 DEF ClientTypes, Cancel

\* What AskNext does: the next slot is asked, or none any more.
LEMMA AskNextDoes ==
  ASSUME ClientTypes, WireTypes, NEW c \in Calls, NEW a \in [Slots -> AttStates], AskNext(c, a)
  PROVE  /\ ClientTypes' /\ toC' \in [Calls -> [Slots -> Seq(Frames)]]
         /\ call'[c].claimed = call[c].claimed
         /\ \A d \in Calls \ {c} : call'[d] = call[d] /\ att'[d] = att[d] /\ toC'[d] = toC[d]
         /\ \A s \in Slots : toC'[c][s] = IF att'[c][s] = "over" THEN <<>> ELSE toC[c][s]
         /\ \/ /\ Asks(c) /\ call'[c].phase = "asking" /\ call'[c].next = call[c].next + 1
               /\ \A s \in Slots : att'[c][s] = IF s = call[c].next THEN "connecting" ELSE a[s]
            \/ /\ call'[c].phase = IF Pending(a) = {} THEN "own" ELSE call[c].phase
               /\ call'[c].next = call[c].next /\ call'[c].hedge = FALSE /\ att'[c] = a
<1>1. toC[c] \in [Slots -> Seq(Frames)] /\ call[c] \in CallState /\ call \in [Calls -> CallState]
  BY DEF WireTypes, ClientTypes
<1>2. CASE /\ Asks(c)
           /\ LET next == call[c].next + 1 hedge == next \in Slots IN
              call' = [call EXCEPT ![c] = [@ EXCEPT !.phase = "asking", !.next = next,
                                                    !.hedge = hedge]]
           /\ Becomes(c, [a EXCEPT ![call[c].next] = "connecting"], toC[c])
  <2> DEFINE next == call[c].next + 1
             hedge == next \in Slots
             new == [call[c] EXCEPT !.phase = "asking", !.next = next, !.hedge = hedge]
             b == [a EXCEPT ![call[c].next] = "connecting"]
  <2>1. call[c].next \in Slots
    BY <1>2 DEF Asks
  <2>2. /\ new \in CallState /\ new.phase = "asking" /\ new.next = call[c].next + 1
        /\ new.claimed = call[c].claimed
    <3>1. hedge \in BOOLEAN
      OBVIOUS
    <3> HIDE DEF hedge
    <3> QED
      BY <1>1, <2>1, <3>1, CallAsks
  <2>3. call' = [call EXCEPT ![c] = new]
    <3> HIDE DEF hedge, next
    <3> QED
      BY <1>1, <1>2 DEF hedge, next
  <2>4. b \in [Slots -> AttStates] /\ \A s \in Slots : b[s] = IF s = call[c].next THEN "connecting" ELSE a[s]
    BY <2>1 DEF AttStates
  <2>5. Becomes(c, b, toC[c])
    BY <1>2
  <2> HIDE DEF new, b, hedge
  <2>6. /\ att' \in [Calls -> [Slots -> AttStates]] /\ toC' \in [Calls -> [Slots -> Seq(Frames)]]
        /\ att'[c] = b
        /\ \A s \in Slots : toC'[c][s] = IF b[s] = "over" THEN <<>> ELSE toC[c][s]
        /\ \A d \in Calls \ {c} : att'[d] = att[d] /\ toC'[d] = toC[d]
    BY <1>1, <2>4, <2>5, BecomesDoes
  <2> QED
    BY <1>1, <1>2, <2>2, <2>3, <2>4, <2>6 DEF ClientTypes
<1>3. CASE Exhausted(c, a) /\ Becomes(c, a, toC[c])
  <2> DEFINE phase == IF Pending(a) = {} THEN "own" ELSE call[c].phase
             new == [call[c] EXCEPT !.phase = phase, !.exhausted = TRUE, !.hedge = FALSE]
  <2>1. phase \in Phases
    BY <1>1, CallFields DEF Phases
  <2>2. call' = [call EXCEPT ![c] = new]
    BY <1>1, <1>3 DEF Exhausted
  <2>3. /\ new \in CallState /\ new.phase = phase /\ new.hedge = FALSE
        /\ new.next = call[c].next /\ new.claimed = call[c].claimed
    <3> HIDE DEF phase
    <3> QED
      BY <1>1, <2>1, CallExhausted
  <2> HIDE DEF new
  <2>4. /\ att' \in [Calls -> [Slots -> AttStates]] /\ toC' \in [Calls -> [Slots -> Seq(Frames)]]
        /\ att'[c] = a
        /\ \A s \in Slots : toC'[c][s] = IF a[s] = "over" THEN <<>> ELSE toC[c][s]
        /\ \A d \in Calls \ {c} : att'[d] = att[d] /\ toC'[d] = toC[d]
    BY <1>1, <1>3, BecomesDoes
  <2> QED
    BY <1>1, <2>2, <2>3, <2>4 DEF ClientTypes
<1> QED
  BY <1>2, <1>3 DEF AskNext

-----------------------------------------------------------------------------
\* What the calls do to the servers, and to what is counted.
Outside == UNCHANGED <<servers, starts>> /\ faults' \in 0..MaxFaults

\* A step of one call leaves the others as they are.
LEMMA OthersKept ==
  ASSUME IInv, NEW c \in Calls, UNCHANGED servers,
         \A d \in Calls \ {c} :
           /\ call'[d] = call[d] /\ att'[d] = att[d] /\ toS'[d] = toS[d] /\ toC'[d] = toC[d]
           /\ link'[d] = link[d] /\ runs'[d] = runs[d]
           /\ d \in excused' <=> d \in excused
  PROVE  \A d \in Calls \ {c} : OK(d)'
<1> SUFFICES ASSUME NEW d \in Calls \ {c} PROVE OK(d)'
  OBVIOUS
<1>1. OK(d)
  BY DEF IInv
<1>2. CallInv(d)'
  BY <1>1 DEF OK, CallInv
<1>3. ASSUME NEW s \in Slots PROVE AttInv(d, s)' /\ HelloInv(d, s)' /\ AnswerInv(d, s)'
  BY <1>1 DEF OK, AttInv, HelloInv, AnswerInv, Handled, Both, servers
<1> QED
  BY <1>2, <1>3 DEF OK

\* Attempts that were begun may end, and the next slot be asked, as long as no server
\* has the request.
LEMMA AskNextKeeps ==
  ASSUME IInv, NEW c \in Calls, NEW a \in [Slots -> AttStates], AskNext(c, a),
         call[c].phase \in {"idle", "asking"}, call[c].claimed = Null,
         \A s \in Slots : a[s] = att[c][s] \/ (a[s] = "over" /\ att[c][s] # "none"),
         UNCHANGED <<toS, link, runs, excused>>, Outside
  PROVE  IInv'
<1>1. ClientTypes /\ WireTypes /\ ServerTypes /\ CountTypes /\ OK(c)
  BY TypesOfParts DEF IInv
<1>2. /\ ClientTypes' /\ toC' \in [Calls -> [Slots -> Seq(Frames)]]
      /\ call'[c].claimed = call[c].claimed
      /\ \A d \in Calls \ {c} : call'[d] = call[d] /\ att'[d] = att[d] /\ toC'[d] = toC[d]
      /\ \A s \in Slots : toC'[c][s] = IF att'[c][s] = "over" THEN <<>> ELSE toC[c][s]
      /\ \/ /\ Asks(c) /\ call'[c].phase = "asking" /\ call'[c].next = call[c].next + 1
            /\ \A s \in Slots : att'[c][s] = IF s = call[c].next THEN "connecting" ELSE a[s]
         \/ /\ call'[c].phase = IF Pending(a) = {} THEN "own" ELSE call[c].phase
            /\ call'[c].next = call[c].next /\ call'[c].hedge = FALSE /\ att'[c] = a
  BY <1>1, AskNextDoes
<1>3. TypeOK'
  BY <1>1, <1>2, TypesOfPartsNext DEF WireTypes, ServerTypes, CountTypes, Outside, servers
<1>4. call[c] \in CallState /\ call[c].next \in 0..NSlots /\ call'[c].phase \in Phases
  BY <1>1, <1>2, CallFields DEF ClientTypes
<1>5. \A s \in Slots : s \in Nat /\ s # Null
  BY ConstantsAssumption DEF Slots
<1>6. call'[c].phase \in {"idle", "asking", "own"}
  BY <1>2
<1>7. CallInv(c)'
  BY <1>1, <1>2, <1>6 DEF OK, CallInv
<1>8. ASSUME NEW s \in Slots PROVE AttInv(c, s)' /\ HelloInv(c, s)' /\ AnswerInv(c, s)'
  <2>1. AttInv(c, s) /\ HelloInv(c, s) /\ AnswerInv(c, s) /\ CallInv(c)
    BY <1>1 DEF OK
  <2>2. att[c][s] # "sent" /\ toS[c][s] # "req"
    BY <1>5, <2>1 DEF AttInv
  <2>3. s >= call'[c].next => att'[c][s] = "none"
    BY <1>2, <1>4, <1>5, <2>1 DEF AttInv
  <2>4. att'[c][s] \in {"connecting", "asked"} => call'[c].phase = "asking"
    BY <1>2, <2>1 DEF AttInv, Pending
  <2>5. att'[c][s] # "sent"
    BY <1>2, <2>2
  <2>6. AttInv(c, s)'
    BY <1>2, <2>2, <2>3, <2>4, <2>5 DEF AttInv
  <2>7. \/ att'[c][s] = att[c][s] /\ toC'[c][s] \in {toC[c][s], <<>>}
           /\ (att[c][s] # "over" => toC'[c][s] = toC[c][s])
        \/ att'[c][s] = "over" /\ att[c][s] # "none" /\ toC'[c][s] = <<>>
        \/ att'[c][s] = "connecting" /\ att[c][s] = "none" /\ toC'[c][s] = toC[c][s]
    BY <1>2, <1>4, <1>5, <2>1 DEF AttInv
  <2>8. HelloInv(c, s)'
    BY <2>1, <2>2, <2>7 DEF HelloInv, Outside, servers
  <2>9. AnswerInv(c, s)'
    BY <1>6, <2>1, <2>5 DEF AnswerInv, Handled, Both, CallInv, Outside, servers
  <2> QED
    BY <2>6, <2>8, <2>9
<1>9. \A d \in Calls \ {c} : OK(d)'
  BY <1>2, OthersKept DEF Outside
<1> QED
  BY <1>3, <1>7, <1>8, <1>9 DEF IInv, OK

\* An attempt hangs up, and the call goes on as it was.
LEMMA HangUpKeeps ==
  ASSUME IInv, NEW c \in Calls, NEW s \in Slots, att[c][s] # "none",
         Becomes(c, Over(c, s), toC[c]),
         UNCHANGED <<call, toS, link, runs, excused>>, Outside
  PROVE  IInv'
<1>1. ClientTypes /\ WireTypes /\ ServerTypes /\ CountTypes /\ OK(c)
  BY TypesOfParts DEF IInv
<1>2. Over(c, s) \in [Slots -> AttStates] /\ toC[c] \in [Slots -> Seq(Frames)]
  BY <1>1, AttemptTypes DEF WireTypes
<1>3. /\ att' \in [Calls -> [Slots -> AttStates]] /\ toC' \in [Calls -> [Slots -> Seq(Frames)]]
      /\ att'[c] = Over(c, s)
      /\ \A r \in Slots : toC'[c][r] = IF Over(c, s)[r] = "over" THEN <<>> ELSE toC[c][r]
      /\ \A d \in Calls \ {c} : att'[d] = att[d] /\ toC'[d] = toC[d]
  BY <1>1, <1>2, BecomesDoes
<1>4. TypeOK'
  BY <1>1, <1>3, TypesOfPartsNext DEF ClientTypes, WireTypes, ServerTypes, CountTypes, Outside, servers
<1>5. CallInv(c)'
  BY <1>1 DEF OK, CallInv
<1>6. ASSUME NEW r \in Slots PROVE AttInv(c, r)' /\ HelloInv(c, r)' /\ AnswerInv(c, r)'
  <2>1. AttInv(c, r) /\ HelloInv(c, r) /\ AnswerInv(c, r)
    BY <1>1 DEF OK
  <2>2. \/ att'[c][r] = att[c][r] /\ (att[c][r] # "over" => toC'[c][r] = toC[c][r])
        \/ att'[c][r] = "over" /\ att[c][r] # "none"
    BY <1>1, <1>3 DEF Over, ClientTypes
  <2>3. AttInv(c, r)'
    BY <2>1, <2>2 DEF AttInv
  <2>4. HelloInv(c, r)'
    BY <2>1, <2>2 DEF HelloInv, Outside, servers
  <2>5. AnswerInv(c, r)'
    BY <2>1, <2>2 DEF AnswerInv, Handled, Both, Outside, servers
  <2> QED
    BY <2>3, <2>4, <2>5
<1>7. \A d \in Calls \ {c} : OK(d)'
  BY <1>3, OthersKept DEF Outside
<1> QED
  BY <1>4, <1>5, <1>6, <1>7 DEF IInv, OK

\* A call may be settled: as its own to run when no server has the request, and as
\* lost when the server will not run it, or the caller is excused.
LEMMA SettleKeeps ==
  ASSUME IInv, NEW c \in Calls, NEW s \in Slots, att[c][s] \in {"asked", "sent"},
         NEW phase \in {"own", "served", "lost"}, Settle(c, Over(c, s), phase),
         phase = "own" => call[c].claimed = Null,
         phase = "lost" /\ c \notin excused' =>
           runs[c] = 0 /\ \A r \in Slots : toS[c][r] = "req" => c \notin awaiting[r],
         excused' \in {excused, excused \cup {c}},
         UNCHANGED <<toS, link, runs>>, Outside
  PROVE  IInv'
<1>1. ClientTypes /\ WireTypes /\ ServerTypes /\ CountTypes /\ OK(c)
  BY TypesOfParts DEF IInv
<1>2. Over(c, s) \in [Slots -> AttStates] /\ phase \in Phases
  BY <1>1, AttemptTypes DEF Phases
<1>3. /\ ClientTypes' /\ toC' \in [Calls -> [Slots -> Seq(Frames)]]
      /\ call'[c].phase = phase /\ call'[c].hedge = FALSE
      /\ call'[c].next = call[c].next /\ call'[c].claimed = call[c].claimed
      /\ \A r \in Slots :
           /\ att'[c][r] = IF Over(c, s)[r] \in {"connecting", "asked"} THEN "over" ELSE Over(c, s)[r]
           /\ toC'[c][r] = IF att'[c][r] = "over" THEN <<>> ELSE toC[c][r]
      /\ \A d \in Calls \ {c} : call'[d] = call[d] /\ att'[d] = att[d] /\ toC'[d] = toC[d]
  BY <1>1, <1>2, SettleDoes
<1>4. TypeOK'
  BY <1>1, <1>3, TypesOfPartsNext DEF WireTypes, ServerTypes, CountTypes, Outside, servers
<1>5. \A r \in Slots : att[c][r] = "sent" => r = s
  BY <1>1, ConstantsAssumption DEF OK, AttInv
<1>6. ASSUME NEW r \in Slots
      PROVE att'[c][r] \in {"none", "over"} /\ (att'[c][r] = "none" <=> att[c][r] = "none")
  <2>1. att[c] \in [Slots -> AttStates] /\ att[c][r] \in AttStates
    BY <1>1 DEF ClientTypes
  <2>2. CASE r = s
    <3>1. Over(c, s)[r] = "over" /\ att[c][r] # "none"
      BY <1>1, <2>1, <2>2 DEF Over
    <3> QED
      BY <1>3, <3>1
  <2>3. CASE r # s
    <3>1. Over(c, s)[r] = att[c][r] /\ att[c][r] # "sent"
      BY <1>5, <2>1, <2>3 DEF Over
    <3> QED
      BY <1>3, <2>1, <3>1 DEF AttStates
  <2> QED
    BY <2>2, <2>3
<1>a. call[c].phase = "asking"
  BY <1>1 DEF OK, AttInv
<1>7. CallInv(c)'
  BY <1>1, <1>3, <1>a DEF OK, CallInv
<1>8. ASSUME NEW r \in Slots PROVE AttInv(c, r)' /\ HelloInv(c, r)' /\ AnswerInv(c, r)'
  <2>1. AttInv(c, r) /\ HelloInv(c, r) /\ AnswerInv(c, r)
    BY <1>1 DEF OK
  <2>2. AttInv(c, r)'
    BY <1>3, <1>6, <2>1 DEF AttInv
  <2>3. HelloInv(c, r)'
    BY <1>3, <1>6, <2>1 DEF HelloInv, Outside, servers
  <2>4. AnswerInv(c, r)'
    BY <1>3, <1>6, <2>1 DEF AnswerInv, Handled, Both, Outside, servers
  <2> QED
    BY <2>2, <2>3, <2>4
<1>9. \A d \in Calls \ {c} : OK(d)'
  BY <1>3, OthersKept DEF Outside
<1> QED
  BY <1>4, <1>7, <1>8, <1>9 DEF IInv, OK

\* Slots are numbers, and Null is neither a slot nor a request.
LEMMA NullIsApart ==
  /\ \A s \in Slots : s \in Nat /\ s # Null
  /\ Null # "hello" /\ Null # "req"
  BY ConstantsAssumption DEF Slots

\* An attempt that has ended keeps the invariant, whoever has the request.
LEMMA EndsKeeps ==
  ASSUME IInv, NEW c \in Calls, NEW s \in Slots, Ends(c, s),
         att[c][s] \in {"connecting", "asked", "sent"},
         UNCHANGED <<toS, link, runs, excused>>, Outside
  PROVE  IInv'
<1>1. CASE call[c].claimed # Null
  BY <1>1, HangUpKeeps DEF Ends
<1>2. CASE call[c].claimed = Null
  <2>1. ClientTypes /\ AttInv(c, s)
    BY TypesOfParts DEF IInv, OK
  <2>2. call[c].phase = "asking"
    BY <1>2, <2>1, NullIsApart DEF AttInv
  <2>3. Over(c, s) \in [Slots -> AttStates]
    BY <2>1, AttemptTypes
  <2>4. \A r \in Slots : Over(c, s)[r] = att[c][r] \/ (Over(c, s)[r] = "over" /\ att[c][r] # "none")
    BY <2>1 DEF Over, ClientTypes
  <2> QED
    BY <1>2, <2>2, <2>3, <2>4, AskNextKeeps DEF Ends
<1> QED
  BY <1>1, <1>2

\* A server proved itself: it gets the request, and all other attempts hang up.
LEMMA ChallengeKeeps ==
  ASSUME IInv, NEW c \in Calls, NEW s \in Slots, GetChallenge(c, s)
  PROVE  IInv'
<1> USE DEF Gets
<1>1. ClientTypes /\ WireTypes /\ ServerTypes /\ CountTypes /\ OK(c)
  BY TypesOfParts DEF IInv
<1>2. Outside /\ UNCHANGED <<link, runs, excused>> /\ att[c][s] = "asked"
  BY <1>1 DEF GetChallenge, Outside, CountTypes
<1>3. CASE ~(call[c].phase = "asking" /\ call[c].claimed = Null)
  BY <1>2, <1>3, HangUpKeeps DEF GetChallenge
<1>4. CASE call[c].phase = "asking" /\ call[c].claimed = Null
  <2> DEFINE new == [call[c] EXCEPT !.claimed = s, !.hedge = FALSE]
             a == Cancel([att[c] EXCEPT ![s] = "sent"])
             f == [toC[c] EXCEPT ![s] = Tail(@)]
  <2>1. /\ call' = [call EXCEPT ![c] = new] /\ Becomes(c, a, f)
        /\ toS' = [toS EXCEPT ![c][s] = "req"]
    BY <1>1, <1>4 DEF GetChallenge, ClientTypes
  <2>2. /\ new \in CallState /\ new.phase = "asking" /\ new.hedge = FALSE
        /\ new.next = call[c].next /\ new.claimed = s
    BY <1>1, <1>4, CallClaimed DEF ClientTypes
  <2>3. /\ a \in [Slots -> AttStates] /\ a[s] = "sent"
        /\ \A r \in Slots \ {s} : a[r] = IF att[c][r] \in {"connecting", "asked"} THEN "over"
                                         ELSE att[c][r]
    BY <1>1 DEF ClientTypes, AttStates, Cancel
  <2>4. /\ f \in [Slots -> Seq(Frames)] /\ f[s] = Tail(toC[c][s])
        /\ \A r \in Slots \ {s} : f[r] = toC[c][r]
    <3>1. toC[c] \in [Slots -> Seq(Frames)] /\ toC[c][s] # <<>>
      BY <1>1 DEF WireTypes, GetChallenge
    <3>2. Tail(toC[c][s]) \in Seq(Frames)
      BY <3>1, FrameSeqs
    <3> QED
      BY <3>1, <3>2
  <2> HIDE DEF new, a, f
  <2>5. /\ att' \in [Calls -> [Slots -> AttStates]] /\ toC' \in [Calls -> [Slots -> Seq(Frames)]]
        /\ att'[c] = a
        /\ \A r \in Slots : toC'[c][r] = IF a[r] = "over" THEN <<>> ELSE f[r]
        /\ \A d \in Calls \ {c} : att'[d] = att[d] /\ toC'[d] = toC[d]
    BY <1>1, <2>1, <2>3, <2>4, BecomesDoes
  <2>6. /\ call' \in [Calls -> CallState] /\ call'[c] = new
        /\ \A d \in Calls \ {c} : call'[d] = call[d]
        /\ toS' \in [Calls -> [Slots -> {"hello", "req", Null}]] /\ toS'[c][s] = "req"
        /\ \A r \in Slots \ {s} : toS'[c][r] = toS[c][r]
        /\ \A d \in Calls \ {c} : toS'[d] = toS[d]
    BY <1>1, <2>1, <2>2 DEF ClientTypes, WireTypes
  <2>7. TypeOK'
    BY <1>1, <1>2, <2>5, <2>6, TypesOfPartsNext
      DEF ClientTypes, WireTypes, ServerTypes, CountTypes, Outside, servers
  <2>8. CallInv(c)'
    BY <1>1, <1>2, <1>4, <2>2, <2>6, NullIsApart DEF OK, CallInv
  <2>9. ASSUME NEW r \in Slots PROVE AttInv(c, r)' /\ HelloInv(c, r)' /\ AnswerInv(c, r)'
    <3>1. AttInv(c, r) /\ HelloInv(c, r) /\ AnswerInv(c, r) /\ CallInv(c) /\ runs[c] = 0
      BY <1>1, <1>4 DEF OK, CallInv
    <3>2. CASE r = s
      <4>1. c \in awaiting[s] => toC'[c][s] = <<>>
        <5>1. c \in awaiting[s] => toC[c][s] = <<"challenge">>
          BY <1>2, <3>1, <3>2 DEF HelloInv
        <5>2. Tail(<<"challenge">>) = <<>>
          OBVIOUS
        <5> QED
          BY <2>3, <2>4, <2>5, <5>1, <5>2
      <4>2. AttInv(c, s)'
        BY <1>2, <2>2, <2>3, <2>5, <2>6, <3>1, <3>2 DEF AttInv
      <4>3. HelloInv(c, s)'
        BY <1>2, <2>3, <2>5, <2>6, <3>1, <3>2, <4>1 DEF HelloInv, Outside, servers
      <4>4. AnswerInv(c, s)'
        BY <1>2, <2>2, <2>3, <2>5, <2>6, <3>1, <3>2 DEF AnswerInv, Handled, Both, Outside, servers
      <4> QED
        BY <3>2, <4>2, <4>3, <4>4
    <3>3. CASE r # s
      <4>1. att[c][r] # "sent" /\ toS[c][r] # "req"
        BY <1>4, <3>1, NullIsApart DEF AttInv
      <4>2. att'[c][r] \in {"none", "over"} /\ (att'[c][r] = "none" <=> att[c][r] = "none")
        BY <1>1, <2>3, <2>5, <3>3, <4>1 DEF ClientTypes, AttStates
      <4>3. AttInv(c, r)'
        BY <2>2, <2>6, <3>1, <3>3, <4>1, <4>2 DEF AttInv
      <4>4. HelloInv(c, r)'
        BY <1>2, <2>4, <2>5, <2>6, <3>1, <3>3, <4>2 DEF HelloInv, Outside, servers
      <4>5. AnswerInv(c, r)'
        BY <1>2, <2>2, <2>6, <3>1, <4>2 DEF AnswerInv, Handled, Both, Outside, servers
      <4> QED
        BY <4>3, <4>4, <4>5
    <3> QED
      BY <3>2, <3>3
  <2>10. \A d \in Calls \ {c} : OK(d)'
    BY <1>2, <2>5, <2>6, OthersKept DEF Outside
  <2> QED
    BY <2>7, <2>8, <2>9, <2>10 DEF IInv, OK
<1> QED
  BY <1>3, <1>4

\* A call that claims no slot, is not asking, and whose attempts are all over or were
\* never made, may go to any phase that its runs allow.
LEMMA PhaseKeeps ==
  ASSUME IInv, NEW c \in Calls, NEW phase \in Phases, ClientTypes', CountTypes',
         toC' \in [Calls -> [Slots -> Seq(Frames)]],
         call'[c].phase = phase, call'[c].hedge = FALSE, phase \notin {"asking", "lost"},
         call'[c].next = call[c].next, call'[c].claimed = call[c].claimed,
         phase \in {"idle", "own", "ran"} => call[c].claimed = Null,
         call[c].claimed = Null /\ phase # "ran" => runs'[c] = 0,
         runs'[c] <= 1, runs'[c] = runs[c] \/ (runs[c] = 0 /\ call[c].claimed = Null),
         \A s \in Slots :
           /\ att'[c][s] \in {"none", "over"} /\ (att'[c][s] = "none" <=> att[c][s] = "none")
           /\ att'[c][s] = "none" => toC'[c][s] = toC[c][s],
         \A d \in Calls \ {c} :
           /\ call'[d] = call[d] /\ att'[d] = att[d] /\ toC'[d] = toC[d] /\ runs'[d] = runs[d]
           /\ d \in excused' <=> d \in excused,
         UNCHANGED <<toS, link>>, Outside
  PROVE  IInv'
<1>1. WireTypes /\ ServerTypes /\ OK(c)
  BY TypesOfParts DEF IInv
<1>2. TypeOK'
  BY <1>1, TypesOfPartsNext DEF WireTypes, ServerTypes, Outside, servers
<1>3. CallInv(c)'
  BY <1>1 DEF OK, CallInv
<1>4. ASSUME NEW s \in Slots PROVE AttInv(c, s)' /\ HelloInv(c, s)' /\ AnswerInv(c, s)'
  <2>1. AttInv(c, s) /\ HelloInv(c, s) /\ AnswerInv(c, s)
    BY <1>1 DEF OK
  <2>2. AttInv(c, s)'
    BY <2>1, NullIsApart DEF AttInv
  <2>3. HelloInv(c, s)'
    BY <2>1 DEF HelloInv, Outside, servers
  <2>4. AnswerInv(c, s)'
    BY <2>1 DEF AnswerInv, Handled, Both, Outside, servers
  <2> QED
    BY <2>2, <2>3, <2>4
<1>5. \A d \in Calls \ {c} : OK(d)'
  BY OthersKept DEF Outside
<1> QED
  BY <1>2, <1>3, <1>4, <1>5 DEF IInv, OK

\* A step of a call keeps the invariant.
LEMMA CallKeeps ==
  ASSUME IInv, NEW c \in Calls, CallStep(c)
  PROVE  IInv'
<1> USE DEF Spend
<1>a. ClientTypes /\ WireTypes /\ ServerTypes /\ CountTypes /\ OK(c) /\ CallInv(c)
  BY TypesOfParts DEF IInv, OK
<1>b. call[c] \in CallState /\ att[c] \in [Slots -> AttStates] /\ faults \in 0..MaxFaults
  BY <1>a DEF ClientTypes, CountTypes
<1>c. (faults < MaxFaults /\ faults' = faults + 1) \/ faults' = faults => faults' \in 0..MaxFaults
  BY <1>b, ConstantsAssumption
<1>1. CASE Begin(c)
  BY <1>a, <1>b, <1>1, AskNextKeeps DEF Begin, CallInv, Outside
<1>2. CASE Hedge(c)
  BY <1>a, <1>b, <1>2, AskNextKeeps DEF Hedge, CallInv, Outside
<1>3. CASE NotAsked(c)
  <2>1. /\ call' \in [Calls -> CallState] /\ call'[c].phase = "own" /\ call'[c].hedge = call[c].hedge
        /\ call'[c].next = call[c].next /\ call'[c].claimed = call[c].claimed
        /\ \A d \in Calls \ {c} : call'[d] = call[d]
    BY <1>a, <1>3 DEF NotAsked, ClientTypes, CallState, Phases
  <2>2. call[c].phase = "idle" /\ UNCHANGED <<att, toS, toC, link, runs, excused>> /\ Outside
    BY <1>3, <1>c DEF NotAsked, wires, Outside
  <2>3. call[c].claimed = Null /\ call'[c].hedge = FALSE /\ runs[c] = 0
    BY <1>a, <1>b, <2>1, <2>2, CallFields DEF CallInv
  <2>4. \A s \in Slots : att[c][s] \in {"none", "over"}
    BY <1>a, <1>b, <2>2, <2>3, NullIsApart DEF OK, AttInv, AttStates
  <2>5. ClientTypes' /\ CountTypes' /\ toC' \in [Calls -> [Slots -> Seq(Frames)]]
    BY <1>a, <2>1, <2>2, <1>3 DEF NotAsked, ClientTypes, CountTypes, WireTypes
  <2>6. /\ \A s \in Slots :
             /\ att'[c][s] \in {"none", "over"} /\ (att'[c][s] = "none" <=> att[c][s] = "none")
             /\ att'[c][s] = "none" => toC'[c][s] = toC[c][s]
        /\ \A d \in Calls \ {c} :
             /\ call'[d] = call[d] /\ att'[d] = att[d] /\ toC'[d] = toC[d] /\ runs'[d] = runs[d]
             /\ d \in excused' <=> d \in excused
    BY <2>1, <2>2, <2>4
  <2>7. runs'[c] = 0 /\ runs'[c] <= 1 /\ UNCHANGED <<toS, link>> /\ Outside
    BY <2>2, <2>3
  <2> QED
    BY <2>1, <2>3, <2>5, <2>6, <2>7, PhaseKeeps DEF Phases
<1>4. CASE RunOwn(c)
  <2>1. /\ call' \in [Calls -> CallState] /\ call'[c].phase = "ran" /\ call'[c].hedge = call[c].hedge
        /\ call'[c].next = call[c].next /\ call'[c].claimed = call[c].claimed
        /\ \A d \in Calls \ {c} : call'[d] = call[d]
    BY <1>a, <1>4 DEF RunOwn, ClientTypes, CallState, Phases
  <2>2. call[c].phase = "own" /\ UNCHANGED <<att, toS, toC, link, excused>> /\ Outside
    BY <1>4, <1>c DEF RunOwn, wires, Outside
  <2>3. call[c].claimed = Null /\ call'[c].hedge = FALSE /\ runs[c] = 0
    BY <1>a, <1>b, <2>1, <2>2, CallFields DEF CallInv
  <2>4. \A s \in Slots : att[c][s] \in {"none", "over"}
    BY <1>a, <1>b, <2>2, <2>3, NullIsApart DEF OK, AttInv, AttStates
  <2>5. /\ runs' \in [Calls -> Nat] /\ runs'[c] = 1
        /\ \A d \in Calls \ {c} : runs'[d] = runs[d]
    BY <1>a, <1>4, <2>3 DEF RunOwn, CountTypes
  <2>6. ClientTypes' /\ CountTypes' /\ toC' \in [Calls -> [Slots -> Seq(Frames)]]
    BY <1>a, <1>4, <2>1, <2>2, <2>5 DEF RunOwn, ClientTypes, CountTypes, WireTypes
  <2>7. /\ \A s \in Slots :
             /\ att'[c][s] \in {"none", "over"} /\ (att'[c][s] = "none" <=> att[c][s] = "none")
             /\ att'[c][s] = "none" => toC'[c][s] = toC[c][s]
        /\ \A d \in Calls \ {c} :
             /\ call'[d] = call[d] /\ att'[d] = att[d] /\ toC'[d] = toC[d] /\ runs'[d] = runs[d]
             /\ d \in excused' <=> d \in excused
    BY <2>1, <2>2, <2>4, <2>5
  <2>8. runs'[c] <= 1 /\ UNCHANGED <<toS, link>> /\ Outside
    BY <2>2, <2>5
  <2> QED
    BY <2>1, <2>3, <2>6, <2>7, <2>8, PhaseKeeps DEF Phases
<1>5. CASE KillCall(c)
  <2> DEFINE new == [call[c] EXCEPT !.phase = "killed", !.hedge = FALSE]
             a == [s \in Slots |-> IF att[c][s] = "none" THEN "none" ELSE "over"]
  <2>1. /\ call' = [call EXCEPT ![c] = new] /\ Becomes(c, a, toC[c])
        /\ call[c].phase \in {"asking", "own"} /\ excused' = excused \cup {c}
        /\ UNCHANGED <<toS, link, runs, starts>> /\ Outside
    BY <1>a, <1>c, <1>5 DEF KillCall, ClientTypes, Outside
  <2>2. /\ new \in CallState /\ new.phase = "killed" /\ new.hedge = FALSE
        /\ new.next = call[c].next /\ new.claimed = call[c].claimed
    BY <1>b, CallSettled DEF Phases
  <2>3. /\ a \in [Slots -> AttStates]
        /\ \A s \in Slots : a[s] \in {"none", "over"} /\ (a[s] = "none" <=> att[c][s] = "none")
    BY DEF AttStates
  <2> HIDE DEF new, a
  <2>4. toC[c] \in [Slots -> Seq(Frames)]
    BY <1>a DEF WireTypes
  <2>5. /\ att' \in [Calls -> [Slots -> AttStates]] /\ toC' \in [Calls -> [Slots -> Seq(Frames)]]
        /\ att'[c] = a
        /\ \A s \in Slots : toC'[c][s] = IF a[s] = "over" THEN <<>> ELSE toC[c][s]
        /\ \A d \in Calls \ {c} : att'[d] = att[d] /\ toC'[d] = toC[d]
    BY <1>a, <2>1, <2>3, <2>4, BecomesDoes
  <2>6. /\ call' \in [Calls -> CallState] /\ call'[c] = new
        /\ \A d \in Calls \ {c} : call'[d] = call[d]
    BY <1>a, <2>1, <2>2 DEF ClientTypes
  <2>7. ClientTypes' /\ CountTypes'
    BY <1>a, <2>1, <2>5, <2>6 DEF ClientTypes, CountTypes, Outside
  <2>8. /\ call[c].claimed = Null => runs'[c] = 0
        /\ runs'[c] <= 1
    BY <1>a, <2>1 DEF CallInv
  <2>9. /\ call'[c].phase = "killed" /\ call'[c].hedge = FALSE
        /\ call'[c].next = call[c].next /\ call'[c].claimed = call[c].claimed
        /\ \A s \in Slots :
             /\ att'[c][s] \in {"none", "over"} /\ (att'[c][s] = "none" <=> att[c][s] = "none")
             /\ att'[c][s] = "none" => toC'[c][s] = toC[c][s]
        /\ \A d \in Calls \ {c} :
             /\ call'[d] = call[d] /\ att'[d] = att[d] /\ toC'[d] = toC[d] /\ runs'[d] = runs[d]
             /\ d \in excused' <=> d \in excused
    BY <2>1, <2>2, <2>3, <2>5, <2>6
  <2> QED
    BY <2>1, <2>5, <2>7, <2>8, <2>9, PhaseKeeps DEF Phases
<1>6. ASSUME NEW s \in Slots, Connect(c, s) PROVE IInv'
  <2>1. /\ att' \in [Calls -> [Slots -> AttStates]] /\ att'[c][s] = "asked"
        /\ toS' \in [Calls -> [Slots -> {"hello", "req", Null}]] /\ toS'[c][s] = "hello"
        /\ link' \in [Calls -> [Slots -> LinkStates]] /\ link'[c][s] = "open"
        /\ \A r \in Slots \ {s} :
             att'[c][r] = att[c][r] /\ toS'[c][r] = toS[c][r] /\ link'[c][r] = link[c][r]
        /\ \A d \in Calls \ {c} : att'[d] = att[d] /\ toS'[d] = toS[d] /\ link'[d] = link[d]
    BY <1>a, <1>6 DEF Connect, ClientTypes, WireTypes, AttStates, LinkStates
  <2>2. att[c][s] = "connecting" /\ UNCHANGED <<call, toC, servers, starts, faults, runs, excused>>
    BY <1>6 DEF Connect
  <2>3. TypeOK'
    BY <1>a, <2>1, <2>2, TypesOfPartsNext DEF ClientTypes, WireTypes, ServerTypes, CountTypes, servers
  <2>4. CallInv(c)'
    BY <1>a, <2>2 DEF CallInv
  <2>5. ASSUME NEW r \in Slots PROVE AttInv(c, r)' /\ HelloInv(c, r)' /\ AnswerInv(c, r)'
    <3>1. AttInv(c, r) /\ HelloInv(c, r) /\ AnswerInv(c, r)
      BY <1>a DEF OK
    <3>2. AttInv(c, r)'
      BY <2>1, <2>2, <3>1 DEF AttInv
    <3>3. HelloInv(c, r)'
      BY <2>1, <2>2, <3>1 DEF HelloInv, servers
    <3>4. AnswerInv(c, r)'
      BY <2>1, <2>2, <3>1 DEF AnswerInv, Handled, Both, servers
    <3> QED
      BY <3>2, <3>3, <3>4
  <2>6. \A d \in Calls \ {c} : OK(d)'
    BY <2>1, <2>2, OthersKept
  <2> QED
    BY <2>3, <2>4, <2>5, <2>6 DEF IInv, OK
<1>7. ASSUME NEW s \in Slots, Absent(c, s) PROVE IInv'
  <2>1. AskNext(c, Over(c, s)) /\ att[c][s] = "connecting"
        /\ UNCHANGED <<toS, link, runs, excused>> /\ Outside
    BY <1>7, <1>c DEF Absent, AskNext, Outside
  <2>2. call[c].phase = "asking" /\ call[c].claimed = Null
    BY <1>a, <2>1 DEF OK, AttInv
  <2> QED
    BY <2>1, <2>2, EndsKeeps DEF Ends
<1>d. ASSUME NEW s \in Slots, NEW frame, Gets(c, s, frame)
      PROVE  /\ UNCHANGED <<link, runs, excused>> /\ Outside
             /\ att[c][s] \in {"asked", "sent"}
             /\ toC[c][s] # <<>> /\ Head(toC[c][s]) = frame
  BY <1>d, <1>c DEF Gets, Outside
<1>8. ASSUME NEW s \in Slots, GetBusy(c, s) PROVE IInv'
  BY <1>8, <1>d, EndsKeeps DEF GetBusy
<1>9. ASSUME NEW s \in Slots, GetStale(c, s) PROVE IInv'
  BY <1>9, <1>d, EndsKeeps, SettleKeeps DEF GetStale
<1>10. ASSUME NEW s \in Slots, GetAnswer(c, s) PROVE IInv'
  BY <1>10, <1>d, SettleKeeps DEF GetAnswer
<1>11. ASSUME NEW s \in Slots, GetEnd(c, s) PROVE IInv'
  <2>1. CASE att[c][s] # "sent"
    BY <1>11, <1>d, <2>1, EndsKeeps DEF GetEnd
  <2>2. CASE att[c][s] = "sent"
    <3>1. /\ toC[c][s] # <<>> /\ Head(toC[c][s]) = "eof" /\ Settle(c, Over(c, s), "lost")
          /\ UNCHANGED <<toS, link, runs, excused>> /\ Outside
      BY <1>11, <1>d, <2>2 DEF GetEnd
    <3>2. toC[c][s] # <<"res", "eof">>
      BY <3>1
    <3>3. AttInv(c, s) /\ HelloInv(c, s) /\ AnswerInv(c, s) /\ runs[c] \in Nat
      BY <1>a DEF OK, CountTypes
    <3>4. c \notin excused => runs[c] = 0
      BY <1>a, <2>2, <3>1, <3>2, <3>3 DEF AnswerInv, Handled, Both, CallInv
    <3>5. \A r \in Slots : toS[c][r] = "req" => r = s
      BY <1>a, <2>2 DEF OK, AttInv
    <3>6. c \notin awaiting[s]
      BY <2>2, <3>1, <3>3 DEF HelloInv
    <3> QED
      BY <2>2, <3>1, <3>4, <3>5, <3>6, SettleKeeps
  <2> QED
    BY <2>1, <2>2
<1>12. ASSUME NEW s \in Slots, WriteFails(c, s) PROVE IInv'
  <2>1. /\ att[c][s] = "sent" /\ toS[c][s] = "req" /\ link[c][s] = "closed"
        /\ Settle(c, Over(c, s), "lost")
        /\ UNCHANGED <<toS, link, runs, excused>> /\ Outside
    BY <1>12, <1>c DEF WriteFails, Outside
  <2>2. runs[c] = 0 /\ c \notin awaiting[s]
    BY <1>a, <2>1 DEF OK, AttInv, HelloInv
  <2>3. \A r \in Slots : toS[c][r] = "req" => r = s
    BY <1>a, <2>1 DEF OK, AttInv
  <2> QED
    BY <2>1, <2>2, <2>3, SettleKeeps
<1>13. ASSUME NEW s \in Slots, HandshakeTimeout(c, s) PROVE IInv'
  BY <1>13, <1>c, EndsKeeps DEF HandshakeTimeout, Outside
<1>14. ASSUME NEW s \in Slots, ResponseTimeout(c, s) PROVE IInv'
  BY <1>14, <1>c, SettleKeeps DEF ResponseTimeout, Outside
<1>15. ASSUME NEW s \in Slots, GetChallenge(c, s) PROVE IInv'
  BY <1>15, ChallengeKeeps
<1> QED
  BY <1>1, <1>2, <1>3, <1>4, <1>5, <1>6, <1>7, <1>8, <1>9, <1>10, <1>11, <1>12, <1>13,
     <1>14, <1>15 DEF CallStep

-----------------------------------------------------------------------------
\* The attempt, the connection and the answer of c on s are as the invariant has them.
WireOK(c, s) == AttInv(c, s) /\ HelloInv(c, s) /\ AnswerInv(c, s)

\* A step of a server leaves the connections alone that it does not touch.
LEMMA WiresKept ==
  ASSUME IInv, UNCHANGED clients, NEW d \in Calls, NEW r \in Slots,
         toS'[d][r] = toS[d][r], toC'[d][r] = toC[d][r], link'[d][r] = link[d][r],
         runs'[d] = runs[d], d \in awaiting'[r] <=> d \in awaiting[r],
         Handled(d, r)' <=> Handled(d, r), Both(d, r)' => Both(d, r), excused \subseteq excused'
  PROVE  WireOK(d, r)'
<1>1. AttInv(d, r) /\ HelloInv(d, r) /\ AnswerInv(d, r)
  BY DEF IInv, OK
<1>2. AttInv(d, r)'
  BY <1>1 DEF AttInv, clients
<1>3. HelloInv(d, r)'
  BY <1>1 DEF HelloInv, clients
<1>4. AnswerInv(d, r)'
  BY <1>1 DEF AnswerInv, clients
<1> QED
  BY <1>2, <1>3, <1>4 DEF WireOK

\* Nor do its steps disturb a call that it does not run.
LEMMA CallsKept ==
  ASSUME IInv, UNCHANGED clients, NEW d \in Calls, runs'[d] = runs[d], excused \subseteq excused'
  PROVE  CallInv(d)'
<1>1. CallInv(d)
  BY DEF IInv, OK
<1> QED
  BY <1>1 DEF CallInv, clients

\* What Sends does: nothing reaches a client that has hung up.
LEMMA SendsDoes ==
  ASSUME ClientTypes, WireTypes, NEW c \in Calls, NEW s \in Slots,
         NEW frames \in Seq(Frames), Sends(c, s, frames)
  PROVE  /\ toC' \in [Calls -> [Slots -> Seq(Frames)]]
         /\ att[c][s] # "over" => toC'[c][s] = toC[c][s] \o frames
         /\ \A d \in Calls, r \in Slots : d # c \/ r # s => toC'[d][r] = toC[d][r]
<1>1. toC[c][s] \in Seq(Frames) /\ toC[c] \in [Slots -> Seq(Frames)]
  BY DEF WireTypes
<1>2. toC[c][s] \o frames \in Seq(Frames)
  BY <1>1, FrameSeqs
<1>3. CASE att[c][s] = "over"
  BY <1>3 DEF Sends, WireTypes
<1>4. CASE att[c][s] # "over"
  <2> DEFINE q == toC[c][s] \o frames
  <2>1. toC' = [toC EXCEPT ![c] = [toC[c] EXCEPT ![s] = q]]
    BY <1>4 DEF Sends, WireTypes
  <2>2. q \in Seq(Frames)
    BY <1>2
  <2> HIDE DEF q
  <2>3. [toC[c] EXCEPT ![s] = q] \in [Slots -> Seq(Frames)]
    BY <1>1, <2>2
  <2>4. toC' \in [Calls -> [Slots -> Seq(Frames)]] /\ toC'[c][s] = q
        /\ \A d \in Calls, r \in Slots : d # c \/ r # s => toC'[d][r] = toC[d][r]
    BY <1>1, <2>1, <2>3 DEF WireTypes
  <2> QED
    BY <2>4 DEF q
<1> QED
  BY <1>3, <1>4

\* What Reads does.
LEMMA ReadsDoes ==
  ASSUME WireTypes, NEW s \in Slots, NEW c \in Calls, NEW frame, Reads(s, c, frame)
  PROVE  /\ toS[c][s] = frame /\ toS'[c][s] = Null
         /\ toS' \in [Calls -> [Slots -> {"hello", "req", Null}]]
         /\ \A d \in Calls, r \in Slots : d # c \/ r # s => toS'[d][r] = toS[d][r]
         /\ link[c][s] \in {"open", "ended"}
         /\ UNCHANGED <<call, att, srv, starts, faults, excused>>
  BY DEF Reads, WireTypes, clients

\* The end of the connection that the server holds.
LEMMA LinkTypes ==
  ASSUME WireTypes, NEW c \in Calls, NEW s \in Slots, NEW x \in LinkStates,
         link' = [link EXCEPT ![c][s] = x]
  PROVE  /\ link' \in [Calls -> [Slots -> LinkStates]] /\ link'[c][s] = x
         /\ \A d \in Calls, r \in Slots : d # c \/ r # s => link'[d][r] = link[d][r]
  BY DEF WireTypes

\* A step of one server on one connection.
LEMMA OneWire ==
  ASSUME IInv, UNCHANGED <<clients, starts>>, NEW c \in Calls, NEW s \in Slots,
         WireTypes', ServerTypes', CountTypes', CallInv(c)', WireOK(c, s)',
         excused \subseteq excused',
         \A d \in Calls, r \in Slots : d # c \/ r # s =>
           /\ toS'[d][r] = toS[d][r] /\ toC'[d][r] = toC[d][r] /\ link'[d][r] = link[d][r]
           /\ d \in awaiting'[r] <=> d \in awaiting[r]
           /\ (Handled(d, r)' <=> Handled(d, r)) /\ (Both(d, r)' => Both(d, r)),
         \A d \in Calls \ {c} : runs'[d] = runs[d],
         runs'[c] = runs[c] \/ \A r \in Slots \ {s} : WireOK(c, r)'
  PROVE  IInv'
<1>1. TypeOK'
  BY TypesOfParts, TypesOfPartsNext DEF ClientTypes, IInv, clients
<1>2. ASSUME NEW d \in Calls, NEW r \in Slots PROVE WireOK(d, r)'
  <2>1. CASE d = c /\ r = s
    BY <2>1
  <2>2. CASE d # c
    BY <2>2, WiresKept
  <2>3. CASE d = c /\ r # s
    BY <2>3, WiresKept
  <2> QED
    BY <2>1, <2>2, <2>3
<1>3. \A d \in Calls : CallInv(d)'
  BY CallsKept
<1> QED
  BY <1>1, <1>2, <1>3 DEF IInv, OK, WireOK

\* A server reads a hello.
LEMMA HelloKeeps == ASSUME IInv, NEW s \in Slots, NEW c \in Calls, Hello(s, c) PROVE IInv'
<1>1. ClientTypes /\ WireTypes /\ ServerTypes /\ CountTypes /\ OK(c)
  BY TypesOfParts DEF IInv
<1>2. CallInv(c) /\ AttInv(c, s) /\ HelloInv(c, s) /\ AnswerInv(c, s)
  BY <1>1 DEF OK
<1>3. /\ toS[c][s] = "hello" /\ toS'[c][s] = Null
      /\ toS' \in [Calls -> [Slots -> {"hello", "req", Null}]]
      /\ \A d \in Calls, r \in Slots : d # c \/ r # s => toS'[d][r] = toS[d][r]
      /\ link[c][s] = "open"
      /\ UNCHANGED <<clients, srv, busy, flushing, starts, faults, excused, runs>>
  BY <1>1, <1>2, ReadsDoes DEF Hello, HelloInv, clients
<1>4. att[c][s] \in {"asked", "over"} /\ c \notin awaiting[s] /\ (att[c][s] = "asked" => toC[c][s] = <<>>)
  BY <1>2, <1>3 DEF HelloInv
<1>5. CallInv(c)' /\ CountTypes'
  BY <1>1, <1>2, <1>3, CallsKept DEF CountTypes
<1>6. AttInv(c, s)' /\ AnswerInv(c, s)'
  BY <1>2, <1>3, <1>4, NullIsApart DEF AttInv, AnswerInv, Handled, Both, clients
<1>7. CASE \E x \in {"stale", "busy"} :
             /\ Sends(c, s, <<x, "eof">>)
             /\ link' = [link EXCEPT ![c][s] = "ended"] /\ UNCHANGED awaiting
  <2>1. PICK x \in {"stale", "busy"} :
             /\ Sends(c, s, <<x, "eof">>)
             /\ link' = [link EXCEPT ![c][s] = "ended"] /\ UNCHANGED awaiting
    BY <1>7
  <2>2. <<x, "eof">> \in Seq(Frames)
    BY FrameSeqs
  <2>3. /\ toC' \in [Calls -> [Slots -> Seq(Frames)]]
        /\ \A d \in Calls, r \in Slots : d # c \/ r # s => toC'[d][r] = toC[d][r]
    BY <1>1, <2>1, <2>2, SendsDoes
  <2>4. /\ link' \in [Calls -> [Slots -> LinkStates]] /\ link'[c][s] = "ended"
        /\ \A d \in Calls, r \in Slots : d # c \/ r # s => link'[d][r] = link[d][r]
    BY <1>1, <2>1, LinkTypes DEF LinkStates
  <2>5. HelloInv(c, s)'
    BY <1>3, <1>4, <2>1, NullIsApart DEF HelloInv, clients
  <2>6. WireTypes' /\ ServerTypes'
    BY <1>1, <1>3, <2>1, <2>3, <2>4 DEF WireTypes, ServerTypes
  <2> QED
    BY <1>3, <1>5, <1>6, <2>1, <2>3, <2>4, <2>5, <2>6, OneWire DEF WireOK, Handled, Both
<1>8. CASE /\ Sends(c, s, <<"challenge">>)
           /\ awaiting' = [awaiting EXCEPT ![s] = @ \cup {c}] /\ UNCHANGED link
  <2>1. /\ toC' \in [Calls -> [Slots -> Seq(Frames)]]
        /\ att[c][s] # "over" => toC'[c][s] = toC[c][s] \o <<"challenge">>
        /\ \A d \in Calls, r \in Slots : d # c \/ r # s => toC'[d][r] = toC[d][r]
    BY <1>1, <1>8, FrameSeqs, SendsDoes
  <2>2. att[c][s] = "asked" => toC'[c][s] = <<"challenge">>
    <3>1. <<>> \o <<"challenge">> = <<"challenge">>
      OBVIOUS
    <3> QED
      BY <1>4, <2>1, <3>1
  <2>3. /\ awaiting' \in [Slots -> SUBSET Calls] /\ c \in awaiting'[s]
        /\ \A d \in Calls, r \in Slots : d # c \/ r # s => (d \in awaiting'[r] <=> d \in awaiting[r])
    BY <1>1, <1>8 DEF ServerTypes
  <2>4. HelloInv(c, s)'
    BY <1>3, <1>4, <1>8, <2>2, NullIsApart DEF HelloInv, clients
  <2>5. WireTypes' /\ ServerTypes'
    BY <1>1, <1>3, <1>8, <2>1, <2>3 DEF WireTypes, ServerTypes
  <2> QED
    BY <1>3, <1>5, <1>6, <1>8, <2>1, <2>3, <2>4, <2>5, OneWire DEF WireOK, Handled, Both
<1> QED
  BY <1>7, <1>8 DEF Hello

\* A server reads a request: it runs it, turns it away or ignores it.
LEMMA RequestKeeps == ASSUME IInv, NEW s \in Slots, NEW c \in Calls, Request(s, c) PROVE IInv'
<1>1. ClientTypes /\ WireTypes /\ ServerTypes /\ CountTypes /\ OK(c)
  BY TypesOfParts DEF IInv
<1>2. CallInv(c) /\ AttInv(c, s) /\ HelloInv(c, s) /\ AnswerInv(c, s)
  BY <1>1 DEF OK
<1>3. /\ toS[c][s] = "req" /\ toS'[c][s] = Null
      /\ toS' \in [Calls -> [Slots -> {"hello", "req", Null}]]
      /\ \A d \in Calls, r \in Slots : d # c \/ r # s => toS'[d][r] = toS[d][r]
      /\ UNCHANGED <<clients, srv, flushing, starts, faults, excused>>
  BY <1>1, ReadsDoes DEF Request, clients
<1>4. call[c].claimed = s /\ runs[c] = 0 /\ att[c][s] \in {"sent", "over"} /\ ~Handled(c, s)
  BY <1>2, <1>3 DEF AttInv, AnswerInv
<1>5. /\ awaiting' \in [Slots -> SUBSET Calls] /\ c \notin awaiting'[s]
      /\ \A d \in Calls, r \in Slots : d # c \/ r # s => (d \in awaiting'[r] <=> d \in awaiting[r])
  BY <1>1 DEF Request, ServerTypes
<1>6. HelloInv(c, s)'
  BY <1>3, <1>4, <1>5, NullIsApart DEF HelloInv, clients
<1>7. CASE c \notin awaiting[s]
  <2>1. UNCHANGED <<busy, toC, link, runs>>
    BY <1>7 DEF Request
  <2>2. AttInv(c, s)' /\ AnswerInv(c, s)'
    BY <1>2, <1>3, <1>4, <2>1, NullIsApart DEF AttInv, AnswerInv, Handled, Both, clients
  <2>3. WireTypes' /\ ServerTypes' /\ CountTypes' /\ CallInv(c)'
    BY <1>1, <1>3, <1>5, <2>1, CallsKept DEF WireTypes, ServerTypes, CountTypes
  <2> QED
    BY <1>3, <1>5, <1>6, <2>1, <2>2, <2>3, OneWire DEF WireOK, Handled, Both
<1>8. CASE c \in awaiting[s] /\ busy[s] = Null /\ srv[s] = "up"
  <2>1. /\ busy' = [busy EXCEPT ![s] = c] /\ runs' = [runs EXCEPT ![c] = @ + 1]
        /\ UNCHANGED <<toC, link>>
    BY <1>8 DEF Request
  <2>2. /\ busy' \in [Slots -> Calls \cup {Null, Other}] /\ busy'[s] = c
        /\ \A r \in Slots \ {s} : busy'[r] = busy[r]
        /\ runs' \in [Calls -> Nat] /\ runs'[c] = 1 /\ \A d \in Calls \ {c} : runs'[d] = runs[d]
    BY <1>1, <1>4, <2>1 DEF ServerTypes, CountTypes
  <2>3. call[c].phase = "lost" => c \in excused
    BY <1>2, <1>3, <1>8 DEF AnswerInv
  <2>4. call[c].phase \notin {"idle", "own", "ran"} /\ ~call[c].hedge
    BY <1>2, <1>4, NullIsApart DEF CallInv
  <2>5. CallInv(c)'
    BY <1>3, <1>4, <2>2, <2>3, <2>4, NullIsApart DEF CallInv, clients
  <2>6. link[c][s] = "open" /\ (att[c][s] = "sent" => toC[c][s] = <<>>)
    BY <1>2, <1>8 DEF HelloInv
  <2>7. AttInv(c, s)' /\ AnswerInv(c, s)'
    BY <1>2, <1>3, <1>4, <2>1, <2>2, <2>6, NullIsApart DEF AttInv, AnswerInv, Handled, Both, clients
  <2>8. ASSUME NEW r \in Slots \ {s} PROVE WireOK(c, r)'
    <3>1. AttInv(c, r) /\ HelloInv(c, r) /\ AnswerInv(c, r)
      BY <1>1 DEF OK
    <3>2. AttInv(c, r)' /\ toS[c][r] # "req" /\ att[c][r] # "sent"
      BY <1>3, <1>4, <3>1 DEF AttInv, clients
    <3>3. HelloInv(c, r)'
      BY <1>3, <1>5, <2>1, <3>1 DEF HelloInv, clients
    <3>4. AnswerInv(c, r)'
      BY <1>3, <1>4, <2>2, <3>1, <3>2 DEF AnswerInv, Handled, Both, clients
    <3> QED
      BY <3>2, <3>3, <3>4 DEF WireOK
  <2>9. \A d \in Calls, r \in Slots : d # c \/ r # s =>
          (Handled(d, r)' <=> Handled(d, r)) /\ (Both(d, r)' => Both(d, r))
    BY <1>3, <1>8, <2>2, ConstantsAssumption DEF Handled, Both
  <2>10. WireTypes' /\ ServerTypes' /\ CountTypes'
    BY <1>1, <1>3, <1>5, <2>1, <2>2 DEF WireTypes, ServerTypes, CountTypes
  <2> QED
    BY <1>3, <1>5, <1>6, <2>1, <2>2, <2>5, <2>7, <2>8, <2>9, <2>10, OneWire DEF WireOK
<1>9. CASE c \in awaiting[s] /\ ~(busy[s] = Null /\ srv[s] = "up")
  <2>1. PICK x \in {"stale", "busy"} :
          /\ Sends(c, s, <<x, "eof">>)
          /\ link' = [link EXCEPT ![c][s] = "ended"] /\ UNCHANGED <<busy, runs>>
    BY <1>9 DEF Request
  <2>2. <<x, "eof">> \in Seq(Frames)
    BY FrameSeqs
  <2>3. /\ toC' \in [Calls -> [Slots -> Seq(Frames)]]
        /\ \A d \in Calls, r \in Slots : d # c \/ r # s => toC'[d][r] = toC[d][r]
    BY <1>1, <2>1, <2>2, SendsDoes
  <2>4. /\ link' \in [Calls -> [Slots -> LinkStates]] /\ link'[c][s] = "ended"
        /\ \A d \in Calls, r \in Slots : d # c \/ r # s => link'[d][r] = link[d][r]
    BY <1>1, <2>1, LinkTypes DEF LinkStates
  <2>5. AttInv(c, s)' /\ AnswerInv(c, s)'
    BY <1>2, <1>3, <1>4, <2>1, NullIsApart DEF AttInv, AnswerInv, Handled, Both, clients
  <2>6. WireTypes' /\ ServerTypes' /\ CountTypes' /\ CallInv(c)'
    BY <1>1, <1>3, <1>5, <2>1, <2>3, <2>4, CallsKept DEF WireTypes, ServerTypes, CountTypes
  <2> QED
    BY <1>3, <1>5, <1>6, <2>1, <2>3, <2>4, <2>5, <2>6, OneWire DEF WireOK, Handled, Both
<1> QED
  BY <1>7, <1>8, <1>9

\* An answer is flushed.
LEMMA FlushKeeps == ASSUME IInv, NEW s \in Slots, NEW c \in Calls, Flush(s, c) PROVE IInv'
<1>1. ClientTypes /\ WireTypes /\ ServerTypes /\ CountTypes /\ OK(c)
  BY TypesOfParts DEF IInv
<1>2. CallInv(c) /\ AttInv(c, s) /\ HelloInv(c, s) /\ AnswerInv(c, s)
  BY <1>1 DEF OK
<1>3. /\ c \in flushing[s] /\ att[c][s] # "over" /\ Sends(c, s, <<"res", "eof">>)
      /\ link' = [link EXCEPT ![c][s] = "ended"]
      /\ flushing' = [flushing EXCEPT ![s] = @ \ {c}]
      /\ UNCHANGED <<clients, toS, srv, busy, awaiting, starts, faults, runs, excused>>
  BY DEF Flush
<1>4. runs[c] = 1 /\ att[c][s] = "sent"
  BY <1>2, <1>3 DEF AnswerInv, Handled, Both
<1>5. toS[c][s] # "req" /\ c \notin awaiting[s] /\ toS[c][s] # "hello"
  BY <1>2, <1>4 DEF AttInv, HelloInv
<1>6. /\ toC' \in [Calls -> [Slots -> Seq(Frames)]]
      /\ toC'[c][s] = toC[c][s] \o <<"res", "eof">>
      /\ \A d \in Calls, r \in Slots : d # c \/ r # s => toC'[d][r] = toC[d][r]
  <2>1. <<"res", "eof">> \in Seq(Frames)
    BY FrameSeqs
  <2> QED
    BY <1>1, <1>3, <2>1, SendsDoes
<1>7. /\ link' \in [Calls -> [Slots -> LinkStates]] /\ link'[c][s] = "ended"
      /\ \A d \in Calls, r \in Slots : d # c \/ r # s => link'[d][r] = link[d][r]
  BY <1>1, <1>3, LinkTypes DEF LinkStates
<1>8. /\ flushing' \in [Slots -> SUBSET Calls] /\ c \notin flushing'[s]
      /\ \A d \in Calls, r \in Slots : d # c \/ r # s => (d \in flushing'[r] <=> d \in flushing[r])
  BY <1>1, <1>3 DEF ServerTypes
<1>9. c \notin excused => toC'[c][s] = <<"res", "eof">>
  <2>1. <<>> \o <<"res", "eof">> = <<"res", "eof">>
    OBVIOUS
  <2> QED
    BY <1>2, <1>3, <1>4, <1>6, <2>1 DEF AnswerInv, Handled, Both
<1>10. busy[s] # c
  BY <1>2, <1>3 DEF AnswerInv, Both
<1>11. AttInv(c, s)' /\ HelloInv(c, s)'
  BY <1>2, <1>3, <1>4, <1>5 DEF AttInv, HelloInv, clients
<1>12. AnswerInv(c, s)'
  BY <1>2, <1>3, <1>4, <1>5, <1>7, <1>8, <1>9, <1>10 DEF AnswerInv, Handled, Both, clients
<1>13. WireTypes' /\ ServerTypes' /\ CountTypes' /\ CallInv(c)'
  BY <1>1, <1>3, <1>6, <1>7, <1>8, CallsKept DEF WireTypes, ServerTypes, CountTypes
<1> QED
  BY <1>3, <1>6, <1>7, <1>8, <1>11, <1>12, <1>13, OneWire DEF WireOK, Handled, Both

\* A server sees that a client has hung up.
LEMMA SeesCloseKeeps == ASSUME IInv, NEW s \in Slots, NEW c \in Calls, SeesClose(s, c) PROVE IInv'
<1>1. ClientTypes /\ WireTypes /\ ServerTypes /\ CountTypes /\ OK(c)
  BY TypesOfParts DEF IInv
<1>2. CallInv(c) /\ AttInv(c, s) /\ HelloInv(c, s) /\ AnswerInv(c, s)
  BY <1>1 DEF OK
<1>3. att[c][s] = "over"
      /\ UNCHANGED <<clients, toC, link, srv, busy, starts, faults, runs, excused>>
  BY DEF SeesClose
<1>4. /\ awaiting' \in [Slots -> SUBSET Calls] /\ c \notin awaiting'[s]
      /\ flushing' \in [Slots -> SUBSET Calls] /\ c \notin flushing'[s]
      /\ toS' \in [Calls -> [Slots -> {"hello", "req", Null}]] /\ toS'[c][s] = Null
      /\ \A d \in Calls, r \in Slots : d # c \/ r # s =>
           /\ d \in flushing'[r] <=> d \in flushing[r]
           /\ d \in awaiting'[r] <=> d \in awaiting[r]
           /\ toS'[d][r] = toS[d][r]
  BY <1>1 DEF SeesClose, ServerTypes, WireTypes
<1>5. AttInv(c, s)' /\ HelloInv(c, s)' /\ AnswerInv(c, s)'
  BY <1>2, <1>3, <1>4, NullIsApart DEF AttInv, HelloInv, AnswerInv, Handled, Both, clients
<1>6. WireTypes' /\ ServerTypes' /\ CountTypes' /\ CallInv(c)'
  BY <1>1, <1>3, <1>4, CallsKept DEF WireTypes, ServerTypes, CountTypes
<1> QED
  BY <1>3, <1>4, <1>5, <1>6, OneWire DEF WireOK, Handled, Both

\* A server drops a connection that is idle.
LEMMA IdleDropKeeps == ASSUME IInv, NEW s \in Slots, NEW c \in Calls, IdleDrop(s, c) PROVE IInv'
<1>1. ClientTypes /\ WireTypes /\ ServerTypes /\ CountTypes /\ OK(c)
  BY TypesOfParts DEF IInv
<1>2. CallInv(c) /\ AttInv(c, s) /\ HelloInv(c, s) /\ AnswerInv(c, s)
  BY <1>1 DEF OK
<1>3. /\ c \in awaiting[s] /\ Sends(c, s, <<"eof">>)
      /\ link' = [link EXCEPT ![c][s] = "closed"]
      /\ UNCHANGED <<clients, toS, srv, busy, flushing, starts, runs, excused>>
      /\ faults' \in 0..MaxFaults
  BY <1>1, ConstantsAssumption DEF IdleDrop, Spend, CountTypes
<1>4. /\ toC' \in [Calls -> [Slots -> Seq(Frames)]]
      /\ \A d \in Calls, r \in Slots : d # c \/ r # s => toC'[d][r] = toC[d][r]
  BY <1>1, <1>3, FrameSeqs, SendsDoes
<1>5. /\ link' \in [Calls -> [Slots -> LinkStates]] /\ link'[c][s] = "closed"
      /\ \A d \in Calls, r \in Slots : d # c \/ r # s => link'[d][r] = link[d][r]
  <2>1. "closed" \in LinkStates
    BY DEF LinkStates
  <2> QED
    BY <1>1, <1>3, <2>1, LinkTypes
<1>6. /\ awaiting' \in [Slots -> SUBSET Calls] /\ c \notin awaiting'[s]
      /\ \A d \in Calls, r \in Slots : d # c \/ r # s => (d \in awaiting'[r] <=> d \in awaiting[r])
  BY <1>1 DEF IdleDrop, ServerTypes
<1>7. /\ att[c][s] \notin {"none", "connecting"} /\ toS[c][s] # "hello"
      /\ att[c][s] = "sent" => runs[c] = 0
  BY <1>2, <1>3 DEF AttInv, HelloInv
<1>8. AttInv(c, s)' /\ HelloInv(c, s)' /\ AnswerInv(c, s)'
  BY <1>2, <1>3, <1>6, <1>7 DEF AttInv, HelloInv, AnswerInv, Handled, Both, clients
<1>9. WireTypes' /\ ServerTypes' /\ CountTypes' /\ CallInv(c)'
  BY <1>1, <1>3, <1>4, <1>5, <1>6, CallsKept DEF WireTypes, ServerTypes, CountTypes
<1> QED
  BY <1>3, <1>4, <1>5, <1>6, <1>8, <1>9, OneWire DEF WireOK, Handled, Both

\* The hook is done, or the server runs one of the calls that are not followed, or is
\* started anew: the connections stay as they are.
LEMMA AnswerStartKeep ==
  ASSUME IInv, NEW s \in Slots, Answer(s) \/ RunsOther(s) \/ Start(s) PROVE IInv'
<1>1. ClientTypes /\ WireTypes /\ ServerTypes /\ CountTypes
  BY TypesOfParts DEF IInv
<1>2. UNCHANGED <<clients, wires, awaiting, faults, runs, excused>>
  BY DEF Answer, RunsOther, Start
<1>3. ServerTypes' /\ CountTypes'
  BY <1>1, ConstantsAssumption DEF Answer, RunsOther, Start, ServerTypes, CountTypes
<1>4. \A d \in Calls, r \in Slots :
        (Handled(d, r)' <=> Handled(d, r)) /\ (Both(d, r)' => Both(d, r))
  <2>1. CASE Answer(s)
    BY <1>1, <2>1, ConstantsAssumption DEF Answer, Handled, Both, ServerTypes
  <2>2. CASE Start(s)
    BY <2>2 DEF Start, Handled, Both
  <2>3. CASE RunsOther(s)
    BY <1>1, <2>3, ConstantsAssumption DEF RunsOther, Handled, Both, ServerTypes
  <2> QED
    BY <2>1, <2>2, <2>3
<1>5. TypeOK'
  BY <1>1, <1>2, <1>3, TypesOfPartsNext DEF ClientTypes, WireTypes, clients, wires
<1>6. \A d \in Calls, r \in Slots : WireOK(d, r)'
  BY <1>2, <1>4, WiresKept DEF wires
<1>7. \A d \in Calls : CallInv(d)'
  BY <1>2, CallsKept
<1> QED
  BY <1>5, <1>6, <1>7 DEF IInv, OK, WireOK

\* A server stops: those that hold a challenge are told.
LEMMA StopKeeps == ASSUME IInv, NEW s \in Slots, Stop(s) PROVE IInv'
<1>1. ClientTypes /\ WireTypes /\ ServerTypes /\ CountTypes
  BY TypesOfParts DEF IInv
<1>2. UNCHANGED <<clients, toS, busy, flushing, starts, faults, runs, excused>>
  BY DEF Stop
<1>3. /\ toC' = [d \in Calls |-> IF d \in awaiting[s]
               THEN [toC[d] EXCEPT ![s] = @ \o <<"stale", "eof">>] ELSE toC[d]]
      /\ link' = [d \in Calls |-> IF d \in awaiting[s] THEN [link[d] EXCEPT ![s] = "ended"]
                                                       ELSE link[d]]
      /\ awaiting' = [awaiting EXCEPT ![s] = {}]
      /\ srv' = [srv EXCEPT ![s] = "retiring"]
  BY DEF Stop
<1>4. ASSUME NEW d \in Calls
      PROVE  /\ toC'[d] \in [Slots -> Seq(Frames)] /\ link'[d] \in [Slots -> LinkStates]
             /\ \A r \in Slots : r # s \/ d \notin awaiting[s] =>
                  toC'[d][r] = toC[d][r] /\ link'[d][r] = link[d][r]
             /\ d \in awaiting[s] => link'[d][s] = "ended"
  <2>1. toC[d] \in [Slots -> Seq(Frames)] /\ link[d] \in [Slots -> LinkStates]
    BY <1>1 DEF WireTypes
  <2>2. CASE d \notin awaiting[s]
    BY <1>3, <2>1, <2>2
  <2>3. CASE d \in awaiting[s]
    <3> DEFINE q == toC[d][s] \o <<"stale", "eof">>
    <3>1. q \in Seq(Frames)
      BY <2>1, FrameSeqs
    <3>2. toC'[d] = [toC[d] EXCEPT ![s] = q] /\ link'[d] = [link[d] EXCEPT ![s] = "ended"]
      BY <1>3, <2>1, <2>3
    <3> HIDE DEF q
    <3> QED
      BY <2>1, <2>3, <3>1, <3>2 DEF LinkStates
  <2> QED
    BY <2>2, <2>3
<1>5. /\ toC' \in [Calls -> [Slots -> Seq(Frames)]]
      /\ link' \in [Calls -> [Slots -> LinkStates]]
      /\ awaiting' \in [Slots -> SUBSET Calls] /\ srv' \in [Slots -> {"up", "retiring", "down"}]
      /\ awaiting'[s] = {} /\ \A r \in Slots \ {s} : awaiting'[r] = awaiting[r]
  <2>1. toC' = [d \in Calls |-> toC'[d]] /\ link' = [d \in Calls |-> link'[d]]
    BY <1>3
  <2> QED
    BY <1>1, <1>3, <1>4, <2>1 DEF ServerTypes
<1>6. TypeOK'
  BY <1>1, <1>2, <1>5, TypesOfPartsNext
    DEF ClientTypes, WireTypes, ServerTypes, CountTypes, clients
<1>7. ASSUME NEW d \in Calls, NEW r \in Slots PROVE WireOK(d, r)'
  <2>1. CASE r # s \/ d \notin awaiting[s]
    <3>1. d \in awaiting'[r] <=> d \in awaiting[r]
      BY <1>5, <2>1
    <3> QED
      BY <1>2, <1>4, <2>1, <3>1, WiresKept DEF Handled, Both
  <2>2. CASE r = s /\ d \in awaiting[s]
    <3>1. AttInv(d, s) /\ HelloInv(d, s) /\ AnswerInv(d, s)
      BY DEF IInv, OK
    <3>2. /\ att[d][s] \notin {"none", "connecting"} /\ toS[d][s] # "hello"
          /\ att[d][s] = "sent" => runs[d] = 0
      BY <2>2, <3>1 DEF AttInv, HelloInv
    <3>3. AttInv(d, s)' /\ HelloInv(d, s)' /\ AnswerInv(d, s)'
      BY <1>2, <1>5, <3>1, <3>2 DEF AttInv, HelloInv, AnswerInv, Handled, Both, clients
    <3> QED
      BY <2>2, <3>3 DEF WireOK
  <2> QED
    BY <2>1, <2>2
<1>8. \A d \in Calls : CallInv(d)'
  BY <1>2, CallsKept
<1> QED
  BY <1>6, <1>7, <1>8 DEF IInv, OK, WireOK

\* A server exits when all that it ran is answered, or dies and excuses the rest.
LEMMA GoneKeeps == ASSUME IInv, NEW s \in Slots, Exit(s) \/ Die(s) PROVE IInv'
<1>1. ClientTypes /\ WireTypes /\ ServerTypes /\ CountTypes
  BY TypesOfParts DEF IInv
<1>2. Gone(s) /\ faults' \in 0..MaxFaults
  BY <1>1, ConstantsAssumption DEF Exit, Die, Spend, CountTypes
<1>3. /\ excused \subseteq excused' /\ excused' \subseteq Calls
      /\ \A d \in Calls : Handled(d, s) => d \in excused'
  <2>1. CASE Exit(s)
    BY <1>1, <2>1, ConstantsAssumption DEF Exit, CountTypes, Handled, Both
  <2>2. CASE Die(s)
    BY <1>1, <2>2, ConstantsAssumption DEF Die, ServerTypes, CountTypes, Handled, Both
  <2> QED
    BY <2>1, <2>2
<1>4. /\ UNCHANGED <<clients, toS, starts, runs>>
      /\ toC' = [d \in Calls |-> IF link[d][s] = "open" /\ att[d][s] # "over"
                   THEN [toC[d] EXCEPT ![s] = Append(@, "eof")] ELSE toC[d]]
      /\ link' = [d \in Calls |-> IF link[d][s] = "none" THEN link[d]
                                                          ELSE [link[d] EXCEPT ![s] = "closed"]]
      /\ srv' = [srv EXCEPT ![s] = "down"] /\ busy' = [busy EXCEPT ![s] = Null]
      /\ awaiting' = [awaiting EXCEPT ![s] = {}] /\ flushing' = [flushing EXCEPT ![s] = {}]
  BY <1>2 DEF Gone
<1>5. ASSUME NEW d \in Calls
      PROVE  /\ toC'[d] \in [Slots -> Seq(Frames)] /\ link'[d] \in [Slots -> LinkStates]
             /\ \A r \in Slots \ {s} : toC'[d][r] = toC[d][r] /\ link'[d][r] = link[d][r]
             /\ link'[d][s] = IF link[d][s] = "none" THEN "none" ELSE "closed"
             /\ link[d][s] # "open" => toC'[d][s] = toC[d][s]
  <2>1. toC[d] \in [Slots -> Seq(Frames)] /\ link[d] \in [Slots -> LinkStates]
    BY <1>1 DEF WireTypes
  <2>2. /\ link'[d] \in [Slots -> LinkStates]
        /\ \A r \in Slots \ {s} : link'[d][r] = link[d][r]
        /\ link'[d][s] = IF link[d][s] = "none" THEN "none" ELSE "closed"
    BY <1>4, <2>1 DEF LinkStates
  <2>3. /\ toC'[d] \in [Slots -> Seq(Frames)]
        /\ \A r \in Slots \ {s} : toC'[d][r] = toC[d][r]
        /\ link[d][s] # "open" => toC'[d][s] = toC[d][s]
    <3>1. CASE ~(link[d][s] = "open" /\ att[d][s] # "over")
      BY <1>4, <2>1, <3>1
    <3>2. CASE link[d][s] = "open" /\ att[d][s] # "over"
      <4> DEFINE q == Append(toC[d][s], "eof")
      <4>1. q \in Seq(Frames)
        BY <2>1, FrameSeqs
      <4>2. toC'[d] = [toC[d] EXCEPT ![s] = q]
        BY <1>4, <2>1, <3>2
      <4> HIDE DEF q
      <4> QED
        BY <2>1, <3>2, <4>1, <4>2
    <3> QED
      BY <3>1, <3>2
  <2> QED
    BY <2>2, <2>3
<1>6. /\ awaiting' \in [Slots -> SUBSET Calls] /\ srv' \in [Slots -> {"up", "retiring", "down"}]
      /\ busy' \in [Slots -> Calls \cup {Null, Other}] /\ flushing' \in [Slots -> SUBSET Calls]
      /\ awaiting'[s] = {} /\ \A r \in Slots \ {s} : awaiting'[r] = awaiting[r]
      /\ \A d \in Calls : ~Handled(d, s)' /\ ~Both(d, s)'
      /\ \A d \in Calls, r \in Slots \ {s} :
           (Handled(d, r)' <=> Handled(d, r)) /\ (Both(d, r)' => Both(d, r))
  BY <1>1, <1>4, ConstantsAssumption DEF ServerTypes, Handled, Both
<1>7. toC' \in [Calls -> [Slots -> Seq(Frames)]] /\ link' \in [Calls -> [Slots -> LinkStates]]
  <2>1. toC' = [d \in Calls |-> toC'[d]] /\ link' = [d \in Calls |-> link'[d]]
    BY <1>4
  <2> QED
    BY <1>5, <2>1
<1>8. TypeOK'
  BY <1>1, <1>2, <1>3, <1>4, <1>6, <1>7, TypesOfPartsNext
    DEF ClientTypes, WireTypes, ServerTypes, CountTypes, clients
<1>9. ASSUME NEW d \in Calls, NEW r \in Slots PROVE WireOK(d, r)'
  <2>1. CASE r # s
    <3>1. UNCHANGED <<clients, toS, runs>>
      BY <1>4
    <3>2. toC'[d][r] = toC[d][r] /\ link'[d][r] = link[d][r]
      BY <1>5, <2>1
    <3>3. /\ d \in awaiting'[r] <=> d \in awaiting[r]
          /\ (Handled(d, r)' <=> Handled(d, r)) /\ (Both(d, r)' => Both(d, r))
      BY <1>6, <2>1
    <3> QED
      BY <1>3, <3>1, <3>2, <3>3, WiresKept
  <2>2. CASE r = s
    <3>1. AttInv(d, s) /\ HelloInv(d, s) /\ AnswerInv(d, s)
      BY DEF IInv, OK
    <3>2. AttInv(d, s)'
      BY <1>4, <3>1 DEF AttInv, clients
    <3>3. HelloInv(d, s)'
      BY <1>4, <1>5, <1>6, <3>1 DEF HelloInv, clients
    <3>4. att[d][s] = "sent" /\ runs[d] = 1 /\ d \notin excused' =>
            link'[d][s] # "open" /\ toC'[d][s] = <<"res", "eof">>
      BY <1>3, <1>5, <3>1 DEF AnswerInv
    <3>5. AnswerInv(d, s)'
      BY <1>3, <1>4, <1>6, <3>1, <3>4 DEF AnswerInv, clients
    <3> QED
      BY <2>2, <3>2, <3>3, <3>5 DEF WireOK
  <2> QED
    BY <2>1, <2>2
<1>10. \A d \in Calls : CallInv(d)'
  BY <1>3, <1>4, CallsKept
<1> QED
  BY <1>8, <1>9, <1>10 DEF IInv, OK, WireOK

-----------------------------------------------------------------------------
\* At the start nobody was asked.
LEMMA InitIInv == Init => IInv
<1> SUFFICES ASSUME Init PROVE IInv
  OBVIOUS
<1>1. ClientTypes
  BY ConstantsAssumption DEF Init, ClientTypes, CallState, Phases, AttStates
<1>2. WireTypes /\ ServerTypes /\ CountTypes
  BY ConstantsAssumption, FrameSeqs DEF Init, WireTypes, ServerTypes, CountTypes, LinkStates
<1>3. \A c \in Calls : CallInv(c)
  BY DEF Init, CallInv
<1>4. \A c \in Calls, s \in Slots : AttInv(c, s) /\ HelloInv(c, s) /\ AnswerInv(c, s)
  BY ConstantsAssumption, NullIsApart DEF Init, AttInv, HelloInv, AnswerInv, Handled, Both
<1> QED
  BY <1>1, <1>2, <1>3, <1>4, TypesOfParts DEF IInv, OK

\* Every step keeps the invariant.
LEMMA NextIInv == IInv /\ [Next]_vars => IInv'
<1> SUFFICES ASSUME IInv, [Next]_vars PROVE IInv'
  OBVIOUS
<1>1. ASSUME NEW c \in Calls, CallStep(c) PROVE IInv'
  BY <1>1, CallKeeps
<1>2. ASSUME NEW s \in Slots, ServerStep(s) PROVE IInv'
  BY <1>2, HelloKeeps, RequestKeeps, FlushKeeps, SeesCloseKeeps, IdleDropKeeps,
     AnswerStartKeep, StopKeeps, GoneKeeps DEF ServerStep
<1>3. CASE UNCHANGED vars
  BY <1>3 DEF vars, clients, wires, servers, IInv, TypeOK, OK, CallInv, AttInv, HelloInv,
              AnswerInv, Handled, Both, Pending
<1> QED
  BY <1>1, <1>2, <1>3 DEF Next

\* Every variable keeps its type, whoever stops, dies or times out.
THEOREM TypeCorrect == Spec => []TypeOK
<1>1. IInv => TypeOK
  BY DEF IInv
<1> QED
  BY <1>1, InitIInv, NextIInv, PTL DEF Spec

\* hook_client.ts:1: a hook is run once at most, by one server or by its caller, for
\* any number of calls, slots, server starts, crashes, timeouts and dropped
\* connections.
THEOREM HooksRunOnce == Spec => []RunsOnce
<1>1. IInv => RunsOnce
  BY DEF IInv, OK, CallInv, RunsOnce
<1> QED
  BY <1>1, InitIInv, NextIInv, PTL DEF Spec

\* hook_server.ts:222: a hook that a server ran fails open only when that server died
\* or the caller stopped waiting, for any number of calls, slots and faults.
THEOREM AnswersArrive == Spec => []AnswerNotCutShort
<1>1. IInv => AnswerNotCutShort
  BY DEF IInv, OK, CallInv, AnswerNotCutShort
<1> QED
  BY <1>1, InitIInv, NextIInv, PTL DEF Spec

-----------------------------------------------------------------------------
(***************************************************************************)
(* HookCall implements HookRun.  Beside IInv it takes what an answer says   *)
(* of the run it is of.                                                     *)
(***************************************************************************)
HasRes(q) == \E i \in 1..Len(q) : q[i] = "res"

\* An answer that is with the server, on its way or with the caller is of a run of the
\* hook by a server, and only an excused call is killed.
RunInv(c) ==
  /\ call[c].phase = "served" => runs[c] = 1
  /\ call[c].phase = "killed" => c \in excused
  /\ \A s \in Slots : /\ Handled(c, s) => call[c].claimed # Null
                      /\ HasRes(toC[c][s]) => runs[c] = 1

\* An answer is on a connection only when it was sent.
LEMMA AnswerFrames ==
  /\ ~HasRes(<<>>)
  /\ \A q \in Seq(Frames) : q # <<>> =>
       (HasRes(Tail(q)) => HasRes(q)) /\ (Head(q) = "res" => HasRes(q))
  /\ \A q \in Seq(Frames), x \in Frames :
       /\ HasRes(q \o <<x>>) => HasRes(q) \/ x = "res"
       /\ HasRes(q \o <<x, "eof">>) => HasRes(q) \/ x = "res"
       /\ HasRes(Append(q, x)) => HasRes(q) \/ x = "res"
<1>1. ~HasRes(<<>>)
  BY DEF HasRes
<1>2. ASSUME NEW q \in Seq(Frames), q # <<>>
      PROVE  (HasRes(Tail(q)) => HasRes(q)) /\ (Head(q) = "res" => HasRes(q))
  <2>1. ASSUME NEW i \in 1..Len(Tail(q)), Tail(q)[i] = "res" PROVE HasRes(q)
    <3>1. i + 1 \in 1..Len(q) /\ q[i + 1] = Tail(q)[i]
      BY <1>2
    <3> QED
      BY <2>1, <3>1 DEF HasRes
  <2>2. 1 \in 1..Len(q) /\ q[1] = Head(q)
    BY <1>2
  <2> QED
    BY <2>1, <2>2 DEF HasRes
<1>3. ASSUME NEW q \in Seq(Frames), NEW x \in Frames
      PROVE  /\ HasRes(q \o <<x>>) => HasRes(q) \/ x = "res"
             /\ HasRes(q \o <<x, "eof">>) => HasRes(q) \/ x = "res"
             /\ HasRes(Append(q, x)) => HasRes(q) \/ x = "res"
  <2>1. ASSUME NEW i \in 1..Len(q \o <<x>>), (q \o <<x>>)[i] = "res"
        PROVE  HasRes(q) \/ x = "res"
    BY <2>1 DEF HasRes
  <2>2. ASSUME NEW i \in 1..Len(q \o <<x, "eof">>), (q \o <<x, "eof">>)[i] = "res"
        PROVE  HasRes(q) \/ x = "res"
    <3>1. /\ i \in 1..Len(q) \/ i = Len(q) + 1 \/ i = Len(q) + 2
          /\ (q \o <<x, "eof">>)[i] = IF i <= Len(q) THEN q[i] ELSE <<x, "eof">>[i - Len(q)]
      OBVIOUS
    <3>2. <<x, "eof">>[1] = x /\ <<x, "eof">>[2] = "eof" /\ "eof" # "res"
      OBVIOUS
    <3>3. Len(q) \in Nat
      OBVIOUS
    <3> QED
      BY <2>2, <3>1, <3>2, <3>3 DEF HasRes
  <2>3. ASSUME NEW i \in 1..Len(Append(q, x)), Append(q, x)[i] = "res"
        PROVE  HasRes(q) \/ x = "res"
    BY <2>3 DEF HasRes
  <2> QED
    BY <2>1, <2>2, <2>3 DEF HasRes
<1> QED
  BY <1>1, <1>2, <1>3

\* How a step of c moves it on: it still asks, decides to run its hook itself, runs it,
\* gets an answer, fails open or is killed.
Proceeds(c) ==
  \/ /\ \/ call'[c].phase = call[c].phase
        \/ call[c].phase \in {"idle", "asking"} /\ call'[c].phase \in {"idle", "asking"}
     /\ runs'[c] = runs[c] /\ excused' = excused
  \/ /\ call[c].phase \in {"idle", "asking"} /\ call'[c].phase = "own"
     /\ runs[c] = 0 /\ runs'[c] = 0 /\ excused' = excused
  \/ /\ call[c].phase = "own" /\ call'[c].phase = "ran"
     /\ runs[c] = 0 /\ runs'[c] = 1 /\ excused' = excused
  \/ /\ call[c].phase = "asking" /\ call'[c].phase = "served"
     /\ \E s \in Slots : HasRes(toC[c][s])
     /\ runs'[c] = runs[c] /\ excused' = excused
  \/ /\ call[c].phase = "asking" /\ call'[c].phase = "lost" /\ runs'[c] = runs[c]
     /\ (runs[c] = 0 /\ excused' = excused) \/ excused' = excused \cup {c}
  \/ /\ call[c].phase \in {"asking", "own"} /\ call'[c].phase = "killed"
     /\ runs'[c] = runs[c] /\ excused' = excused \cup {c}

\* No answer comes to c but from a server.
NoAnswer(c) ==
  /\ call[c].claimed # Null => call'[c].claimed # Null
  /\ \A s \in Slots : HasRes(toC'[c][s]) => HasRes(toC[c][s])

\* A step of c is none of a server or of another call.
OthersStay(c) ==
  /\ UNCHANGED servers
  /\ \A d \in Calls \ {c} :
       call'[d] = call[d] /\ toC'[d] = toC[d] /\ runs'[d] = runs[d]

\* Where no server has the request, to ask on is to wait or to decide.
LEMMA AskNextProceeds ==
  ASSUME IInv, NEW c \in Calls, NEW a \in [Slots -> AttStates], AskNext(c, a),
         call[c].phase \in {"idle", "asking"}, call[c].claimed = Null,
         UNCHANGED <<runs, excused, servers>>
  PROVE  Proceeds(c) /\ NoAnswer(c) /\ OthersStay(c)
<1>1. ClientTypes /\ WireTypes /\ CallInv(c)
  BY TypesOfParts DEF IInv, OK
<1>2. /\ call'[c].claimed = call[c].claimed
      /\ \A d \in Calls \ {c} : call'[d] = call[d] /\ att'[d] = att[d] /\ toC'[d] = toC[d]
      /\ \A s \in Slots : toC'[c][s] = IF att'[c][s] = "over" THEN <<>> ELSE toC[c][s]
      /\ call'[c].phase = "asking" \/ call'[c].phase \in {"own", call[c].phase}
  BY <1>1, AskNextDoes
<1>3. NoAnswer(c) /\ OthersStay(c)
  BY <1>2, AnswerFrames DEF NoAnswer, OthersStay
<1>4. runs[c] = 0
  BY <1>1 DEF CallInv
<1>5. Proceeds(c)
  BY <1>2, <1>4 DEF Proceeds
<1> QED
  BY <1>3, <1>5

\* A call that settles gets no answer any more.
LEMMA SettleProceeds ==
  ASSUME IInv, NEW c \in Calls, NEW a \in [Slots -> AttStates], NEW phase \in Phases,
         Settle(c, a, phase), UNCHANGED <<runs, servers>>
  PROVE  call'[c].phase = phase /\ NoAnswer(c) /\ OthersStay(c)
<1>1. ClientTypes /\ WireTypes
  BY TypesOfParts DEF IInv
<1>2. /\ call'[c].phase = phase /\ call'[c].claimed = call[c].claimed
      /\ \A d \in Calls \ {c} : call'[d] = call[d] /\ att'[d] = att[d] /\ toC'[d] = toC[d]
      /\ \A s \in Slots : toC'[c][s] = IF att'[c][s] = "over" THEN <<>> ELSE toC[c][s]
  BY <1>1, SettleDoes
<1> QED
  BY <1>2, AnswerFrames DEF NoAnswer, OthersStay

\* An attempt that hangs up lets the call wait, or ask on where no server has the request.
LEMMA EndsProceeds ==
  ASSUME IInv, NEW c \in Calls, NEW s \in Slots, Ends(c, s),
         att[c][s] \in {"connecting", "asked", "sent"},
         UNCHANGED <<runs, excused, servers>>
  PROVE  Proceeds(c) /\ NoAnswer(c) /\ OthersStay(c)
<1>1. ClientTypes /\ WireTypes /\ AttInv(c, s) /\ Over(c, s) \in [Slots -> AttStates]
  BY TypesOfParts, AttemptTypes DEF IInv, OK
<1>2. CASE call[c].claimed # Null
  <2>1. Becomes(c, Over(c, s), toC[c]) /\ UNCHANGED call
    BY <1>2 DEF Ends
  <2>2. toC[c] \in [Slots -> Seq(Frames)]
    BY <1>1 DEF WireTypes
  <2>3. /\ \A r \in Slots : toC'[c][r] = IF Over(c, s)[r] = "over" THEN <<>> ELSE toC[c][r]
        /\ \A d \in Calls \ {c} : toC'[d] = toC[d]
    BY <1>1, <2>1, <2>2, BecomesDoes
  <2> QED
    BY <2>1, <2>3, AnswerFrames DEF Proceeds, NoAnswer, OthersStay
<1>3. CASE call[c].claimed = Null
  <2>1. call[c].phase = "asking"
    BY <1>1, <1>3, NullIsApart DEF AttInv
  <2> QED
    BY <1>1, <1>3, <2>1, AskNextProceeds DEF Ends
<1> QED
  BY <1>2, <1>3

\* The request goes to one server, and the call waits on.
LEMMA ChallengeProceeds ==
  ASSUME IInv, NEW c \in Calls, NEW s \in Slots, GetChallenge(c, s)
  PROVE  Proceeds(c) /\ NoAnswer(c) /\ OthersStay(c)
<1>1. ClientTypes /\ WireTypes
  BY TypesOfParts DEF IInv
<1>2. /\ att[c] \in [Slots -> AttStates] /\ toC[c] \in [Slots -> Seq(Frames)]
      /\ toC[c][s] \in Seq(Frames) /\ toC[c][s] # <<>>
      /\ UNCHANGED <<servers, runs, excused>>
  BY <1>1 DEF GetChallenge, Gets, ClientTypes, WireTypes
<1>3. CASE call[c].phase = "asking" /\ call[c].claimed = Null
  <2> DEFINE a == Cancel([att[c] EXCEPT ![s] = "sent"])
             f == [toC[c] EXCEPT ![s] = Tail(@)]
             new == [call[c] EXCEPT !.claimed = s, !.hedge = FALSE]
  <2>1. Becomes(c, a, f) /\ call' = [call EXCEPT ![c] = new]
    BY <1>3 DEF GetChallenge
  <2>2. new.phase = call[c].phase /\ new.claimed = s /\ s # Null
    BY <1>1, CallClaimed, NullIsApart DEF ClientTypes
  <2>3. Tail(toC[c][s]) \in Seq(Frames)
    BY <1>2, FrameSeqs
  <2>4. f \in [Slots -> Seq(Frames)] /\ \A r \in Slots : HasRes(f[r]) => HasRes(toC[c][r])
    BY <1>2, <2>3, AnswerFrames
  <2>5. a \in [Slots -> AttStates]
    BY <1>1, AttemptTypes DEF AttStates
  <2> HIDE DEF a, f, new
  <2>6. /\ \A r \in Slots : toC'[c][r] = IF a[r] = "over" THEN <<>> ELSE f[r]
        /\ \A d \in Calls \ {c} : toC'[d] = toC[d]
    BY <1>1, <2>1, <2>4, <2>5, BecomesDoes
  <2>7. call'[c] = new /\ \A d \in Calls \ {c} : call'[d] = call[d]
    BY <1>1, <2>1 DEF ClientTypes
  <2> QED
    BY <1>2, <2>2, <2>4, <2>6, <2>7, AnswerFrames DEF Proceeds, NoAnswer, OthersStay
<1>4. CASE ~(call[c].phase = "asking" /\ call[c].claimed = Null)
  <2>1. Becomes(c, Over(c, s), toC[c]) /\ UNCHANGED call
    BY <1>4 DEF GetChallenge
  <2>2. /\ \A r \in Slots : toC'[c][r] = IF Over(c, s)[r] = "over" THEN <<>> ELSE toC[c][r]
        /\ \A d \in Calls \ {c} : toC'[d] = toC[d]
    BY <1>1, <1>2, <2>1, BecomesDoes, AttemptTypes
  <2> QED
    BY <1>2, <2>1, <2>2, AnswerFrames DEF Proceeds, NoAnswer, OthersStay
<1> QED
  BY <1>3, <1>4

\* Every step of a call moves it on, brings it no answer and leaves the others alone.
LEMMA CallProceeds ==
  ASSUME IInv, IInv', NEW c \in Calls, CallStep(c)
  PROVE  Proceeds(c) /\ NoAnswer(c) /\ OthersStay(c)
<1>1. ClientTypes /\ WireTypes /\ CountTypes /\ CallInv(c)
  BY TypesOfParts DEF IInv, OK
<1>2. /\ call[c] \in CallState /\ att[c] \in [Slots -> AttStates] /\ runs[c] \in Nat
      /\ \A s \in Slots : Over(c, s) \in [Slots -> AttStates] /\ AttInv(c, s)
  BY <1>1, AttemptTypes DEF ClientTypes, CountTypes, IInv, OK
<1>3. ASSUME NEW s \in Slots, att[c][s] \in {"asked", "sent"}
      PROVE  call[c].phase = "asking"
  BY <1>2, <1>3 DEF AttInv
<1>4. CASE Begin(c) \/ Hedge(c)
  BY <1>1, <1>2, <1>4, AskNextProceeds DEF Begin, Hedge, CallInv
<1>5. CASE NotAsked(c)
  <2>1. /\ call'[c].phase = "own" /\ call'[c].claimed = call[c].claimed /\ call[c].phase = "idle"
        /\ \A d \in Calls \ {c} : call'[d] = call[d]
        /\ UNCHANGED <<toC, runs, excused, servers>>
    BY <1>1, <1>5 DEF NotAsked, ClientTypes, CallState, wires
  <2>2. runs[c] = 0
    BY <1>1, <2>1 DEF CallInv
  <2> QED
    BY <2>1, <2>2 DEF Proceeds, NoAnswer, OthersStay
<1>6. CASE RunOwn(c)
  <2>1. /\ call'[c].phase = "ran" /\ call'[c].claimed = call[c].claimed /\ call[c].phase = "own"
        /\ \A d \in Calls \ {c} : call'[d] = call[d] /\ runs'[d] = runs[d]
        /\ runs'[c] = runs[c] + 1
        /\ UNCHANGED <<toC, excused, servers>>
    BY <1>1, <1>6 DEF RunOwn, ClientTypes, CountTypes, CallState, wires
  <2>2. runs[c] = 0
    BY <1>1, <2>1 DEF CallInv
  <2> QED
    BY <2>1, <2>2 DEF Proceeds, NoAnswer, OthersStay
<1>7. CASE KillCall(c)
  <2> DEFINE new == [call[c] EXCEPT !.phase = "killed", !.hedge = FALSE]
             a == [s \in Slots |-> IF att[c][s] = "none" THEN "none" ELSE "over"]
  <2>1. /\ call' = [call EXCEPT ![c] = new] /\ Becomes(c, a, toC[c])
        /\ call[c].phase \in {"asking", "own"} /\ excused' = excused \cup {c}
        /\ UNCHANGED <<runs, servers>>
    BY <1>7 DEF KillCall
  <2>2. /\ new.phase = "killed" /\ new.claimed = call[c].claimed
        /\ a \in [Slots -> AttStates] /\ toC[c] \in [Slots -> Seq(Frames)]
    BY <1>1, <1>2, CallSettled DEF Phases, AttStates, WireTypes
  <2> HIDE DEF new, a
  <2>3. /\ \A r \in Slots : toC'[c][r] = IF a[r] = "over" THEN <<>> ELSE toC[c][r]
        /\ \A d \in Calls \ {c} : toC'[d] = toC[d]
    BY <1>1, <2>1, <2>2, BecomesDoes
  <2>4. call'[c] = new /\ \A d \in Calls \ {c} : call'[d] = call[d]
    BY <1>1, <2>1 DEF ClientTypes
  <2> QED
    BY <2>1, <2>2, <2>3, <2>4, AnswerFrames DEF Proceeds, NoAnswer, OthersStay
<1>8. ASSUME NEW s \in Slots, Connect(c, s) PROVE Proceeds(c) /\ NoAnswer(c) /\ OthersStay(c)
  BY <1>8 DEF Connect, Proceeds, NoAnswer, OthersStay
<1>9. ASSUME NEW s \in Slots, Absent(c, s) PROVE Proceeds(c) /\ NoAnswer(c) /\ OthersStay(c)
  <2>1. AskNext(c, Over(c, s)) /\ call[c].phase = "asking" /\ call[c].claimed = Null
    BY <1>2, <1>9 DEF Absent, AskNext, AttInv
  <2> QED
    BY <1>2, <1>9, <2>1, AskNextProceeds DEF Absent
<1>10. ASSUME NEW s \in Slots, NEW frame, Gets(c, s, frame)
       PROVE  /\ UNCHANGED <<runs, excused, servers>> /\ att[c][s] \in {"asked", "sent"}
              /\ toC[c][s] # <<>> /\ Head(toC[c][s]) = frame /\ toC[c][s] \in Seq(Frames)
  BY <1>1, <1>10 DEF Gets, WireTypes
<1>11. ASSUME NEW s \in Slots, GetBusy(c, s) PROVE Proceeds(c) /\ NoAnswer(c) /\ OthersStay(c)
  BY <1>10, <1>11, EndsProceeds DEF GetBusy
<1>12. ASSUME NEW s \in Slots, GetStale(c, s) PROVE Proceeds(c) /\ NoAnswer(c) /\ OthersStay(c)
  <2>1. CASE call[c].claimed # Null
    BY <1>10, <1>12, <2>1, EndsProceeds DEF GetStale
  <2>2. CASE call[c].claimed = Null
    <3>1. Settle(c, Over(c, s), "own") /\ call[c].phase = "asking"
      BY <1>3, <1>10, <1>12, <2>2 DEF GetStale
    <3>2. runs[c] = 0
      BY <1>1, <2>2, <3>1 DEF CallInv
    <3>3. call'[c].phase = "own" /\ NoAnswer(c) /\ OthersStay(c)
      BY <1>2, <1>10, <1>12, <3>1, SettleProceeds DEF GetStale, Phases
    <3> QED
      BY <1>10, <1>12, <3>1, <3>2, <3>3 DEF GetStale, Proceeds
  <2> QED
    BY <2>1, <2>2
<1>13. ASSUME NEW s \in Slots, GetAnswer(c, s) PROVE Proceeds(c) /\ NoAnswer(c) /\ OthersStay(c)
  <2>1. /\ Settle(c, Over(c, s), "served") /\ call[c].phase = "asking"
        /\ UNCHANGED <<runs, excused, servers>> /\ HasRes(toC[c][s])
    BY <1>3, <1>10, <1>13, AnswerFrames DEF GetAnswer
  <2>2. call'[c].phase = "served" /\ NoAnswer(c) /\ OthersStay(c)
    BY <1>2, <2>1, SettleProceeds DEF Phases
  <2> QED
    BY <2>1, <2>2 DEF Proceeds
<1>14. ASSUME NEW s \in Slots, att[c][s] = "sent", Settle(c, Over(c, s), "lost"),
              UNCHANGED <<runs, servers>>, excused' \in {excused, excused \cup {c}}
       PROVE  Proceeds(c) /\ NoAnswer(c) /\ OthersStay(c)
  <2>1. call'[c].phase = "lost" /\ NoAnswer(c) /\ OthersStay(c)
    BY <1>2, <1>14, SettleProceeds DEF Phases
  <2>2. c \notin excused' => runs'[c] = 0
    BY <2>1 DEF IInv, OK, CallInv
  <2>3. (runs[c] = 0 /\ excused' = excused) \/ excused' = excused \cup {c}
    BY <1>14, <2>2
  <2> QED
    BY <1>3, <1>14, <2>1, <2>3 DEF Proceeds
<1>15. ASSUME NEW s \in Slots, GetEnd(c, s) PROVE Proceeds(c) /\ NoAnswer(c) /\ OthersStay(c)
  BY <1>10, <1>14, <1>15, EndsProceeds DEF GetEnd
<1>16. ASSUME NEW s \in Slots, WriteFails(c, s) \/ ResponseTimeout(c, s)
       PROVE  Proceeds(c) /\ NoAnswer(c) /\ OthersStay(c)
  BY <1>14, <1>16 DEF WriteFails, ResponseTimeout
<1>17. ASSUME NEW s \in Slots, HandshakeTimeout(c, s)
       PROVE  Proceeds(c) /\ NoAnswer(c) /\ OthersStay(c)
  BY <1>17, EndsProceeds DEF HandshakeTimeout
<1>18. ASSUME NEW s \in Slots, GetChallenge(c, s)
       PROVE  Proceeds(c) /\ NoAnswer(c) /\ OthersStay(c)
  BY <1>18, ChallengeProceeds
<1> QED
  BY <1>4, <1>5, <1>6, <1>7, <1>8, <1>9, <1>11, <1>12, <1>13, <1>15, <1>16, <1>17, <1>18
     DEF CallStep

\* What a server may do to the calls: an answer is of a run, and it runs the hook only
\* of a call that claimed it.
ServesOnly ==
  /\ UNCHANGED call
  /\ \A d \in Calls, r \in Slots :
       /\ Handled(d, r)' => Handled(d, r) \/ call[d].claimed # Null
       /\ HasRes(toC'[d][r]) => HasRes(toC[d][r]) \/ runs[d] = 1

\* The hook of c is run, or the answers of some calls are lost with their server.
RunsFor(c) ==
  /\ runs[c] = 0 /\ runs' = [runs EXCEPT ![c] = 1] /\ excused' = excused
  /\ call[c].claimed # Null /\ call[c].phase \in {"asking", "lost", "killed"}
  /\ call[c].phase # "asking" => c \in excused

Loses(S) ==
  /\ runs' = runs /\ excused' = excused \cup S
  /\ \A c \in S : runs[c] = 1 /\ call[c].claimed # Null

\* A server that sends frames that are no answer keeps its calls.
LEMMA SendsServes ==
  ASSUME IInv, NEW c \in Calls, NEW s \in Slots, NEW x \in Frames, x # "res" \/ runs[c] = 1,
         Sends(c, s, <<x>>) \/ Sends(c, s, <<x, "eof">>)
  PROVE  \A d \in Calls, r \in Slots : HasRes(toC'[d][r]) => HasRes(toC[d][r]) \/ runs[d] = 1
<1>1. ClientTypes /\ WireTypes /\ toC[c][s] \in Seq(Frames) /\ "eof" \in Frames
  BY TypesOfParts DEF IInv, WireTypes, Frames
<1>2. <<x>> \in Seq(Frames) /\ <<x, "eof">> \in Seq(Frames)
  BY <1>1
<1>3. /\ \A d \in Calls, r \in Slots : d # c \/ r # s => toC'[d][r] = toC[d][r]
      /\ toC'[c][s] \in {toC[c][s], toC[c][s] \o <<x>>, toC[c][s] \o <<x, "eof">>}
  <2>1. CASE att[c][s] = "over"
    BY <1>1, <2>1 DEF Sends
  <2>2. CASE att[c][s] # "over"
    BY <1>1, <1>2, <2>2, SendsDoes
  <2> QED
    BY <2>1, <2>2
<1>4. HasRes(toC'[c][s]) => HasRes(toC[c][s]) \/ x = "res"
  BY <1>1, <1>3, AnswerFrames
<1> QED
  BY <1>3, <1>4

\* A hook is run for the call that has the server's challenge, and for no other.
LEMMA RequestServes ==
  ASSUME IInv, \A d \in Calls : RunInv(d), NEW s \in Slots, NEW c \in Calls, Request(s, c)
  PROVE  ServesOnly /\ (RunsFor(c) \/ Loses({}))
<1>1. /\ toS[c][s] = "req" /\ UNCHANGED <<call, att, flushing, srv, excused>>
      /\ runs \in [Calls -> Nat] /\ busy \in [Slots -> Calls \cup {Null, Other}]
  BY TypesOfParts DEF Request, Reads, clients, IInv, CountTypes, ServerTypes
<1>2. runs[c] = 0 /\ call[c].claimed = s /\ s # Null /\ CallInv(c) /\ AnswerInv(c, s) /\ RunInv(c)
  BY <1>1, NullIsApart DEF IInv, OK, AttInv
<1>3. CASE c \notin awaiting[s]
  BY <1>1, <1>3 DEF Request, ServesOnly, Loses, Handled
<1>4. CASE c \in awaiting[s] /\ busy[s] = Null /\ srv[s] = "up"
  <2>1. busy' = [busy EXCEPT ![s] = c] /\ runs' = [runs EXCEPT ![c] = 1] /\ UNCHANGED toC
    BY <1>1, <1>2, <1>4 DEF Request
  <2>2. call[c].phase \in Phases
    BY TypesOfParts, CallFields DEF IInv, ClientTypes
  <2>3. /\ call[c].phase \in {"asking", "lost", "killed"}
        /\ call[c].phase # "asking" => c \in excused
    BY <1>1, <1>2, <1>4, <2>2 DEF Phases, CallInv, AnswerInv, RunInv
  <2>4. ServesOnly
    BY <1>1, <1>2, <2>1 DEF ServesOnly, Handled
  <2> QED
    BY <1>1, <1>2, <2>1, <2>3, <2>4 DEF RunsFor
<1>5. CASE c \in awaiting[s] /\ ~(busy[s] = Null /\ srv[s] = "up")
  <2>1. UNCHANGED <<busy, runs>> /\ \E x \in {"stale", "busy"} : Sends(c, s, <<x, "eof">>)
    BY <1>5 DEF Request
  <2>2. \A d \in Calls, r \in Slots : HasRes(toC'[d][r]) => HasRes(toC[d][r]) \/ runs[d] = 1
    BY <2>1, SendsServes DEF Frames
  <2> QED
    BY <1>1, <2>1, <2>2 DEF ServesOnly, Loses, Handled
<1> QED
  BY <1>3, <1>4, <1>5

\* A server that stops tells the callers that hold a challenge, and no more.
LEMMA StopServes == ASSUME IInv, NEW s \in Slots, Stop(s) PROVE ServesOnly /\ Loses({})
<1>1. UNCHANGED <<call, busy, flushing, runs, excused>> /\ WireTypes
  BY TypesOfParts DEF Stop, clients, IInv
<1>2. ASSUME NEW d \in Calls, NEW r \in Slots PROVE HasRes(toC'[d][r]) => HasRes(toC[d][r])
  <2>1. toC[d] \in [Slots -> Seq(Frames)] /\ toC[d][s] \in Seq(Frames)
    BY <1>1 DEF WireTypes
  <2>2. toC'[d][r] \in {toC[d][r], toC[d][s] \o <<"stale", "eof">>}
        /\ (r # s => toC'[d][r] = toC[d][r])
    BY <2>1 DEF Stop
  <2>3. HasRes(toC[d][s] \o <<"stale", "eof">>) => HasRes(toC[d][s])
    BY <2>1, AnswerFrames DEF Frames
  <2> QED
    BY <2>2, <2>3
<1> QED
  BY <1>1, <1>2 DEF ServesOnly, Loses, Handled

\* With a server that is gone go the answers that it had not sent.
LEMMA GoneServes ==
  ASSUME IInv, \A d \in Calls : RunInv(d), NEW s \in Slots, Exit(s) \/ Die(s)
  PROVE  ServesOnly /\ \E S \in SUBSET Calls : Loses(S)
<1>1. UNCHANGED <<call, runs>> /\ Gone(s) /\ WireTypes /\ ServerTypes
  BY TypesOfParts DEF Exit, Die, Gone, clients, IInv
<1>2. ASSUME NEW d \in Calls, NEW r \in Slots PROVE HasRes(toC'[d][r]) => HasRes(toC[d][r])
  <2>1. toC[d] \in [Slots -> Seq(Frames)] /\ toC[d][s] \in Seq(Frames)
    BY <1>1 DEF WireTypes
  <2>2. toC'[d][r] \in {toC[d][r], Append(toC[d][s], "eof")} /\ (r # s => toC'[d][r] = toC[d][r])
    BY <1>1, <2>1 DEF Gone
  <2>3. HasRes(Append(toC[d][s], "eof")) => HasRes(toC[d][s])
    BY <2>1, AnswerFrames DEF Frames
  <2> QED
    BY <2>2, <2>3
<1>3. \A d \in Calls, r \in Slots : Handled(d, r)' => Handled(d, r)
  BY <1>1, ConstantsAssumption DEF Gone, Handled, ServerTypes
<1>4. ServesOnly
  BY <1>1, <1>2, <1>3 DEF ServesOnly
<1>5. CASE Exit(s)
  BY <1>1, <1>4, <1>5 DEF Exit, Loses
<1>6. CASE Die(s)
  <2> DEFINE S == flushing[s] \cup ({busy[s]} \cap Calls)
  <2>1. S \in SUBSET Calls /\ \A c \in S : Handled(c, s)
    BY <1>1 DEF ServerTypes, Handled
  <2>2. \A c \in S : runs[c] = 1 /\ call[c].claimed # Null
    BY <2>1 DEF IInv, OK, AnswerInv, RunInv
  <2>3. excused' = excused \cup S
    BY <1>6 DEF Die
  <2>4. Loses(S)
    BY <1>1, <2>2, <2>3 DEF Loses
  <2> QED
    BY <1>4, <2>1, <2>4
<1> QED
  BY <1>5, <1>6

\* Every step of a server runs a hook that is its to run, loses answers, or neither.
LEMMA ServerServes ==
  ASSUME IInv, \A d \in Calls : RunInv(d), NEW s \in Slots, ServerStep(s)
  PROVE  ServesOnly /\ ((\E c \in Calls : RunsFor(c)) \/ \E S \in SUBSET Calls : Loses(S))
<1>1. ServerTypes /\ Other \notin Calls
  BY TypesOfParts, ConstantsAssumption DEF IInv
<1>2. ASSUME Loses({}) PROVE \E S \in SUBSET Calls : Loses(S)
  <2>1. {} \in SUBSET Calls
    OBVIOUS
  <2> QED
    BY <1>2, <2>1
<1>3. ASSUME NEW c \in Calls, Hello(s, c) PROVE ServesOnly /\ Loses({})
  <2>1. UNCHANGED <<call, busy, flushing, runs, excused>>
    BY <1>3 DEF Hello, Reads, clients
  <2>2. \E x \in {"stale", "busy", "challenge"} : Sends(c, s, <<x>>) \/ Sends(c, s, <<x, "eof">>)
    BY <1>3 DEF Hello
  <2>3. \A d \in Calls, r \in Slots : HasRes(toC'[d][r]) => HasRes(toC[d][r]) \/ runs[d] = 1
    BY <2>2, SendsServes DEF Frames
  <2> QED
    BY <2>1, <2>3 DEF ServesOnly, Loses, Handled
<1>4. ASSUME NEW c \in Calls, Flush(s, c) PROVE ServesOnly /\ Loses({})
  <2>1. Handled(c, s) /\ Sends(c, s, <<"res", "eof">>)
        /\ UNCHANGED <<call, busy, runs, excused>> /\ flushing' = [flushing EXCEPT ![s] = @ \ {c}]
    BY <1>4 DEF Flush, Handled, clients
  <2>2. runs[c] = 1
    BY <2>1 DEF IInv, OK, AnswerInv
  <2>3. \A d \in Calls, r \in Slots : HasRes(toC'[d][r]) => HasRes(toC[d][r]) \/ runs[d] = 1
    BY <2>1, <2>2, SendsServes DEF Frames
  <2>4. \A d \in Calls, r \in Slots : Handled(d, r)' => Handled(d, r)
    BY <1>1, <2>1 DEF Handled, ServerTypes
  <2> QED
    BY <2>1, <2>3, <2>4 DEF ServesOnly, Loses
<1>5. ASSUME NEW c \in Calls, SeesClose(s, c) PROVE ServesOnly /\ Loses({})
  <2>1. UNCHANGED <<call, busy, runs, excused, toC>> /\ flushing' = [flushing EXCEPT ![s] = @ \ {c}]
    BY <1>5 DEF SeesClose, clients
  <2>2. \A d \in Calls, r \in Slots : Handled(d, r)' => Handled(d, r)
    BY <1>1, <2>1 DEF Handled, ServerTypes
  <2> QED
    BY <2>1, <2>2 DEF ServesOnly, Loses
<1>6. ASSUME NEW c \in Calls, IdleDrop(s, c) PROVE ServesOnly /\ Loses({})
  <2>1. UNCHANGED <<call, busy, flushing, runs, excused>> /\ Sends(c, s, <<"eof">>)
    BY <1>6 DEF IdleDrop, clients
  <2>2. \A d \in Calls, r \in Slots : HasRes(toC'[d][r]) => HasRes(toC[d][r]) \/ runs[d] = 1
    BY <2>1, SendsServes DEF Frames
  <2> QED
    BY <2>1, <2>2 DEF ServesOnly, Loses, Handled
<1>7. ASSUME RunsOther(s) PROVE ServesOnly /\ Loses({})
  BY <1>1, <1>7 DEF RunsOther, ServesOnly, Loses, Handled, ServerTypes, clients, wires
<1>8. ASSUME Answer(s) PROVE ServesOnly /\ Loses({})
  <2>1. UNCHANGED <<call, toC, runs, excused>>
        /\ flushing' = [flushing EXCEPT ![s] = @ \cup ({busy[s]} \cap Calls)]
        /\ busy' = [busy EXCEPT ![s] = Null]
    BY <1>8 DEF Answer, clients, wires
  <2>2. \A d \in Calls, r \in Slots : Handled(d, r)' => Handled(d, r)
    BY <1>1, <2>1, ConstantsAssumption DEF Handled, ServerTypes
  <2> QED
    BY <2>1, <2>2 DEF ServesOnly, Loses
<1>9. ASSUME Start(s) PROVE ServesOnly /\ Loses({})
  BY <1>9 DEF Start, ServesOnly, Loses, Handled, clients, wires
<1> QED
  BY <1>2, <1>3, <1>4, <1>5, <1>6, <1>7, <1>8, <1>9, RequestServes, StopServes, GoneServes
     DEF ServerStep

\* What is known of a call goes on to hold when its own process takes a step.
LEMMA CallRunInv ==
  ASSUME IInv, IInv', \A d \in Calls : RunInv(d), NEW c \in Calls,
         Proceeds(c), NoAnswer(c), OthersStay(c)
  PROVE  \A d \in Calls : RunInv(d)'
<1>1. UNCHANGED <<busy, flushing>> /\ excused \subseteq excused'
  BY DEF OthersStay, servers, Proceeds
<1>2. ASSUME NEW d \in Calls \ {c} PROVE RunInv(d)'
  BY <1>1 DEF OthersStay, RunInv, Handled
<1>3. RunInv(c)'
  <2>1. RunInv(c) /\ (runs[c] = 1 => runs'[c] = 1)
    BY DEF Proceeds
  <2>2. /\ call'[c].phase = "served" => runs'[c] = 1
        /\ call'[c].phase = "killed" => c \in excused'
    BY <1>1, <2>1 DEF Proceeds, RunInv
  <2>3. ASSUME NEW s \in Slots
        PROVE  /\ Handled(c, s)' => call'[c].claimed # Null
               /\ HasRes(toC'[c][s]) => runs'[c] = 1
    BY <1>1, <2>1 DEF RunInv, NoAnswer, Handled
  <2> QED
    BY <2>2, <2>3 DEF RunInv
<1> QED
  BY <1>2, <1>3

\* And when a server does.
LEMMA ServerRunInv ==
  ASSUME IInv, \A d \in Calls : RunInv(d), ServesOnly,
         (\E c \in Calls : RunsFor(c)) \/ \E S \in SUBSET Calls : Loses(S)
  PROVE  \A d \in Calls : RunInv(d)'
<1> SUFFICES ASSUME NEW d \in Calls PROVE RunInv(d)'
  OBVIOUS
<1>1. runs \in [Calls -> Nat] /\ RunInv(d)
  BY TypesOfParts DEF IInv, CountTypes
<1>2. excused \subseteq excused' /\ (runs[d] = 1 => runs'[d] = 1)
  BY <1>1 DEF RunsFor, Loses
<1> QED
  BY <1>1, <1>2 DEF ServesOnly, RunInv

\* A step that moves one call moves the outcome of that call, or who ran its hook.
LEMMA MapsOneCall ==
  ASSUME NEW c \in Calls,
         \A d \in Calls \ {c} : call'[d] = call[d] /\ runs'[d] = runs[d]
  PROVE  /\ [d \in Calls |-> Outcome(d)]' = [[d \in Calls |-> Outcome(d)] EXCEPT ![c] = Outcome(c)']
         /\ [d \in Calls |-> RanBy(d)]' = [[d \in Calls |-> RanBy(d)] EXCEPT ![c] = RanBy(c)']
  BY DEF Outcome, RanBy

\* A step of a call is one of the steps that HookRun lets it take, or none.
LEMMA CallImplements ==
  ASSUME IInv, \A d \in Calls : RunInv(d), NEW c \in Calls,
         Proceeds(c), OthersStay(c)
  PROVE  [Run!Next]_(Run!vars)
<1>1. /\ [d \in Calls |-> Outcome(d)]' = [[d \in Calls |-> Outcome(d)] EXCEPT ![c] = Outcome(c)']
      /\ [d \in Calls |-> RanBy(d)]' = [[d \in Calls |-> RanBy(d)] EXCEPT ![c] = RanBy(c)']
  BY MapsOneCall DEF OthersStay
<1>2. runs[c] \in {0, 1} /\ CallInv(c) /\ RunInv(c)
  BY TypesOfParts DEF IInv, OK, CallInv, CountTypes
<1>3. CASE /\ \/ call'[c].phase = call[c].phase
              \/ call[c].phase \in {"idle", "asking"} /\ call'[c].phase \in {"idle", "asking"}
           /\ runs'[c] = runs[c] /\ excused' = excused
  <2>1. Outcome(c)' = Outcome(c) /\ RanBy(c)' = RanBy(c)
    BY <1>3 DEF Outcome, RanBy
  <2> QED
    BY <1>1, <1>3, <2>1 DEF Run!vars
<1>4. CASE /\ call[c].phase \in {"idle", "asking"} /\ call'[c].phase = "own"
           /\ runs[c] = 0 /\ runs'[c] = 0 /\ excused' = excused
  <2>1. Outcome(c) = "open" /\ Outcome(c)' = "own" /\ RanBy(c) = Null /\ RanBy(c)' = Null
    BY <1>4 DEF Outcome, RanBy
  <2>2. Run!Decide(c)
    BY <1>1, <1>4, <2>1 DEF Run!Decide, Run!Ends
  <2> QED
    BY <2>2 DEF Run!Next
<1>5. CASE /\ call[c].phase = "own" /\ call'[c].phase = "ran"
           /\ runs[c] = 0 /\ runs'[c] = 1 /\ excused' = excused
  <2>1. Outcome(c) = "own" /\ Outcome(c)' = "ran" /\ RanBy(c) = Null /\ RanBy(c)' = "caller"
    BY <1>5 DEF Outcome, RanBy
  <2>2. Run!CallerRuns(c)
    BY <1>1, <1>5, <2>1 DEF Run!CallerRuns, Run!Ends
  <2> QED
    BY <2>2 DEF Run!Next
<1>6. CASE /\ call[c].phase = "asking" /\ call'[c].phase = "served"
           /\ \E s \in Slots : HasRes(toC[c][s])
           /\ runs'[c] = runs[c] /\ excused' = excused
  <2>1. runs[c] = 1
    BY <1>2, <1>6 DEF RunInv
  <2>2. /\ Outcome(c) = "open" /\ Outcome(c)' = "served"
        /\ RanBy(c) = "server" /\ RanBy(c)' = "server"
    BY <1>6, <2>1 DEF Outcome, RanBy
  <2>3. Run!Serve(c)
    BY <1>1, <1>6, <2>2 DEF Run!Serve, Run!Ends
  <2> QED
    BY <2>3 DEF Run!Next
<1>7. CASE /\ call[c].phase = "asking" /\ call'[c].phase = "lost" /\ runs'[c] = runs[c]
           /\ (runs[c] = 0 /\ excused' = excused) \/ excused' = excused \cup {c}
  <2>1. /\ Outcome(c) = "open" /\ Outcome(c)' = "lost" /\ RanBy(c)' = RanBy(c)
        /\ runs[c] = 0 => RanBy(c) = Null
    BY <1>7 DEF Outcome, RanBy
  <2>2. Run!FailOpen(c)
    BY <1>1, <1>7, <2>1 DEF Run!FailOpen, Run!Ends
  <2> QED
    BY <2>2 DEF Run!Next
<1>8. CASE /\ call[c].phase \in {"asking", "own"} /\ call'[c].phase = "killed"
           /\ runs'[c] = runs[c] /\ excused' = excused \cup {c}
  <2>1. Outcome(c) \in {"open", "own"} /\ Outcome(c)' = "killed" /\ RanBy(c)' = RanBy(c)
    BY <1>8 DEF Outcome, RanBy
  <2>2. Run!Kill(c)
    BY <1>1, <1>8, <2>1 DEF Run!Kill, Run!Ends
  <2> QED
    BY <2>2 DEF Run!Next
<1> QED
  BY <1>3, <1>4, <1>5, <1>6, <1>7, <1>8 DEF Proceeds

\* So is a step of a server.
LEMMA ServerImplements ==
  ASSUME IInv, \A d \in Calls : RunInv(d), ServesOnly,
         (\E c \in Calls : RunsFor(c)) \/ \E S \in SUBSET Calls : Loses(S)
  PROVE  [Run!Next]_(Run!vars)
<1>1. UNCHANGED call /\ runs \in [Calls -> Nat]
  BY TypesOfParts DEF ServesOnly, IInv, CountTypes
<1>2. ASSUME NEW c \in Calls, RunsFor(c) PROVE Run!ServerRuns(c)
  <2>1. runs[c] = 0 /\ runs'[c] = 1 /\ \A d \in Calls \ {c} : runs'[d] = runs[d]
    BY <1>1, <1>2 DEF RunsFor
  <2>2. /\ [d \in Calls |-> Outcome(d)]' = [d \in Calls |-> Outcome(d)]
        /\ [d \in Calls |-> RanBy(d)]' = [[d \in Calls |-> RanBy(d)] EXCEPT ![c] = RanBy(c)']
    BY <1>1, <2>1, MapsOneCall DEF Outcome
  <2>3. /\ RanBy(c) = Null /\ RanBy(c)' = "server"
        /\ Outcome(c) \in {"open", "lost", "killed"} /\ (Outcome(c) = "open" \/ c \in excused)
    BY <1>1, <1>2, <2>1 DEF RunsFor, Outcome, RanBy
  <2> QED
    BY <1>2, <2>2, <2>3 DEF RunsFor, Run!ServerRuns
<1>3. ASSUME NEW S \in SUBSET Calls, Loses(S) PROVE Run!LoseAnswers(S)
  <2>1. /\ [d \in Calls |-> Outcome(d)]' = [d \in Calls |-> Outcome(d)]
        /\ [d \in Calls |-> RanBy(d)]' = [d \in Calls |-> RanBy(d)]
    BY <1>1, <1>3 DEF Loses, Outcome, RanBy
  <2>2. \A c \in S : RanBy(c) = "server"
    BY <1>3 DEF Loses, RanBy, IInv, OK, CallInv
  <2> QED
    BY <1>3, <2>1, <2>2 DEF Loses, Run!LoseAnswers
<1> QED
  BY <1>2, <1>3 DEF Run!Next

\* Every step does what HookRun allows, and keeps what that rests on.
LEMMA StepImplements ==
  ASSUME IInv, IInv', \A d \in Calls : RunInv(d), [Next]_vars
  PROVE  [Run!Next]_(Run!vars) /\ \A d \in Calls : RunInv(d)'
<1>1. ASSUME NEW c \in Calls, CallStep(c)
      PROVE  [Run!Next]_(Run!vars) /\ \A d \in Calls : RunInv(d)'
  BY <1>1, CallProceeds, CallRunInv, CallImplements
<1>2. ASSUME NEW s \in Slots, ServerStep(s)
      PROVE  [Run!Next]_(Run!vars) /\ \A d \in Calls : RunInv(d)'
  BY <1>2, ServerServes, ServerRunInv, ServerImplements
<1>3. CASE UNCHANGED vars
  <2>1. UNCHANGED <<call, runs, excused, busy, flushing, toC>>
    BY <1>3 DEF vars, clients, wires, servers
  <2> QED
    BY <2>1 DEF RunInv, Handled, Run!vars, Outcome, RanBy
<1> QED
  BY <1>1, <1>2, <1>3 DEF Next

\* hook_client.ts, hook_server.ts: whatever slots, timers, retirements and crashes do, a
\* hook is run by one process or by none, an answer is of that run, a call that decided
\* to run its hook itself is the one that runs it, and one that fails open was not run
\* or is excused: for any number of calls, slots, starts and faults.
THEOREM CallImplementsHookRun == Spec => ImplementsHookRun
<1> DEFINE J == \A d \in Calls : RunInv(d)
<1>1. Init => J /\ Run!Init
  <2> SUFFICES ASSUME Init PROVE J /\ Run!Init
    OBVIOUS
  <2>1. ASSUME NEW c \in Calls PROVE Outcome(c) = "open" /\ RanBy(c) = Null
    BY DEF Init, Outcome, RanBy
  <2>2. J
    BY AnswerFrames, ConstantsAssumption DEF Init, RunInv, Handled
  <2> QED
    BY <2>1, <2>2 DEF Init, Run!Init
<1>2. IInv /\ IInv' /\ J /\ [Next]_vars => J' /\ [Run!Next]_(Run!vars)
  BY StepImplements
<1> HIDE DEF J
<1> QED
  BY <1>1, <1>2, InitIInv, NextIInv, PTL DEF Spec, ImplementsHookRun, Run!Spec

-----------------------------------------------------------------------------
(***************************************************************************)
(* What a call waits for.                                                   *)
(***************************************************************************)

\* An unclaimed call that asks waits for an attempt or for its timer.
Waits(c) ==
  call[c].phase = "asking" /\ call[c].claimed = Null /\ ~call[c].hedge => Pending(att[c]) # {}

\* To ask on is to begin an attempt, to wait for another or to stop asking.
LEMMA AskNextWaits ==
  ASSUME IInv, NEW c \in Calls, NEW a \in [Slots -> AttStates], AskNext(c, a)
  PROVE  Waits(c)' /\ \A d \in Calls \ {c} : call'[d] = call[d] /\ att'[d] = att[d]
<1>1. ClientTypes /\ WireTypes
  BY TypesOfParts DEF IInv
<1>2. /\ \A d \in Calls \ {c} : call'[d] = call[d] /\ att'[d] = att[d]
      /\ \/ /\ Asks(c)
            /\ \A s \in Slots : att'[c][s] = IF s = call[c].next THEN "connecting" ELSE a[s]
         \/ /\ call'[c].phase = IF Pending(a) = {} THEN "own" ELSE call[c].phase
            /\ att'[c] = a
  BY <1>1, AskNextDoes
<1>3. CASE /\ Asks(c)
           /\ \A s \in Slots : att'[c][s] = IF s = call[c].next THEN "connecting" ELSE a[s]
  <2>1. call[c].next \in Slots /\ att'[c][call[c].next] = "connecting"
    BY <1>3 DEF Asks
  <2> QED
    BY <1>2, <2>1 DEF Waits, Pending
<1>4. CASE /\ call'[c].phase = IF Pending(a) = {} THEN "own" ELSE call[c].phase
           /\ att'[c] = a
  BY <1>2, <1>4 DEF Waits, Pending
<1> QED
  BY <1>2, <1>3, <1>4

\* A call that settles does not wait.
LEMMA SettleWaits ==
  ASSUME IInv, NEW c \in Calls, NEW a \in [Slots -> AttStates], NEW phase \in Phases \ {"asking"},
         Settle(c, a, phase)
  PROVE  Waits(c)' /\ \A d \in Calls \ {c} : call'[d] = call[d] /\ att'[d] = att[d]
<1>1. ClientTypes /\ WireTypes
  BY TypesOfParts DEF IInv
<1>2. /\ call'[c].phase = phase
      /\ \A d \in Calls \ {c} : call'[d] = call[d] /\ att'[d] = att[d]
  BY <1>1, SettleDoes
<1> QED
  BY <1>2 DEF Waits

\* A call that was not claimed asks on when an attempt hangs up.
LEMMA EndsWaits ==
  ASSUME IInv, NEW c \in Calls, NEW s \in Slots, Ends(c, s)
  PROVE  Waits(c)' /\ \A d \in Calls \ {c} : call'[d] = call[d] /\ att'[d] = att[d]
<1>1. ClientTypes /\ WireTypes /\ Over(c, s) \in [Slots -> AttStates]
  BY TypesOfParts, AttemptTypes DEF IInv
<1>2. CASE call[c].claimed # Null
  <2>1. Becomes(c, Over(c, s), toC[c]) /\ UNCHANGED call
    BY <1>2 DEF Ends
  <2>2. toC[c] \in [Slots -> Seq(Frames)]
    BY <1>1 DEF WireTypes
  <2>3. \A d \in Calls \ {c} : att'[d] = att[d]
    BY <1>1, <2>1, <2>2, BecomesDoes
  <2> QED
    BY <1>2, <2>1, <2>3 DEF Waits
<1>3. CASE call[c].claimed = Null
  BY <1>1, <1>3, AskNextWaits DEF Ends
<1> QED
  BY <1>2, <1>3

\* The step of a call that claims a server ends the waiting for any other.
LEMMA ChallengeWaits ==
  ASSUME IInv, NEW c \in Calls, NEW s \in Slots, GetChallenge(c, s)
  PROVE  Waits(c)' /\ \A d \in Calls \ {c} : call'[d] = call[d] /\ att'[d] = att[d]
<1>1. ClientTypes /\ WireTypes /\ toC[c] \in [Slots -> Seq(Frames)]
  BY TypesOfParts DEF IInv, WireTypes
<1>2. \A d \in Calls \ {c} : att'[d] = att[d]
  BY <1>1 DEF GetChallenge, Becomes, ClientTypes
<1>3. CASE call[c].phase = "asking" /\ call[c].claimed = Null
  <2> DEFINE new == [call[c] EXCEPT !.claimed = s, !.hedge = FALSE]
  <2>1. call' = [call EXCEPT ![c] = new]
    BY <1>3 DEF GetChallenge
  <2>2. new.claimed = s /\ s # Null
    BY <1>1, CallClaimed, NullIsApart DEF ClientTypes
  <2> HIDE DEF new
  <2>3. call'[c] = new /\ \A d \in Calls \ {c} : call'[d] = call[d]
    BY <1>1, <2>1 DEF ClientTypes
  <2> QED
    BY <1>2, <2>2, <2>3 DEF Waits
<1>4. CASE ~(call[c].phase = "asking" /\ call[c].claimed = Null)
  BY <1>2, <1>4 DEF GetChallenge, Waits
<1> QED
  BY <1>3, <1>4

\* No step leaves an unclaimed call without anything to wait for.
LEMMA StepWaits ==
  ASSUME IInv, NEW c \in Calls, \A d \in Calls : Waits(d), CallStep(c)
  PROVE  \A d \in Calls : Waits(d)'
<1>1. ClientTypes /\ \A s \in Slots : Over(c, s) \in [Slots -> AttStates]
  BY TypesOfParts, AttemptTypes DEF IInv
<1> DEFINE Kept == Waits(c)' /\ \A d \in Calls \ {c} : call'[d] = call[d] /\ att'[d] = att[d]
<1>2. CASE Begin(c) \/ Hedge(c)
  <2>1. att[c] \in [Slots -> AttStates]
    BY <1>1 DEF ClientTypes
  <2>2. Kept
    BY <1>2, <2>1, AskNextWaits DEF Begin, Hedge
  <2> QED
    BY <2>2 DEF Waits, Pending
<1>3. CASE NotAsked(c) \/ RunOwn(c)
  <2>1. /\ call'[c].phase \in {"own", "ran"} /\ UNCHANGED att
        /\ \A d \in Calls \ {c} : call'[d] = call[d]
    BY <1>1, <1>3 DEF NotAsked, RunOwn, ClientTypes, CallState
  <2> QED
    BY <2>1 DEF Waits, Pending
<1>4. CASE KillCall(c)
  <2>1. call'[c].phase = "killed" /\ \A d \in Calls \ {c} : call'[d] = call[d]
    BY <1>1, <1>4 DEF KillCall, ClientTypes, CallState
  <2>2. \A d \in Calls \ {c} : att'[d] = att[d]
    BY <1>1, <1>4 DEF KillCall, Becomes, ClientTypes
  <2> QED
    BY <2>1, <2>2 DEF Waits, Pending
<1>5. ASSUME NEW s \in Slots, Connect(c, s) PROVE Kept
  <2>1. att'[c][s] = "asked" /\ UNCHANGED call /\ \A d \in Calls \ {c} : att'[d] = att[d]
    BY <1>1, <1>5 DEF Connect, ClientTypes
  <2> QED
    BY <2>1 DEF Waits, Pending
<1>6. ASSUME NEW s \in Slots, Absent(c, s) PROVE Kept
  BY <1>1, <1>6, AskNextWaits DEF Absent, AskNext
<1>7. ASSUME NEW s \in Slots, GetBusy(c, s) \/ HandshakeTimeout(c, s) PROVE Kept
  BY <1>7, EndsWaits DEF GetBusy, HandshakeTimeout
<1>8. ASSUME NEW s \in Slots, GetStale(c, s) \/ GetAnswer(c, s) \/ GetEnd(c, s)
      PROVE  Kept
  BY <1>1, <1>8, EndsWaits, SettleWaits DEF GetStale, GetAnswer, GetEnd, Phases
<1>9. ASSUME NEW s \in Slots, WriteFails(c, s) \/ ResponseTimeout(c, s) PROVE Kept
  BY <1>1, <1>9, SettleWaits DEF WriteFails, ResponseTimeout, Phases
<1>10. ASSUME NEW s \in Slots, GetChallenge(c, s) PROVE Kept
  BY <1>10, ChallengeWaits
<1>11. ASSUME Kept PROVE \A d \in Calls : Waits(d)'
  BY <1>11 DEF Waits, Pending
<1> HIDE DEF Kept
<1> QED
  BY <1>2, <1>3, <1>4, <1>5, <1>6, <1>7, <1>8, <1>9, <1>10, <1>11 DEF CallStep

\* hook_client.ts:155: a call that no server has claimed never waits for nothing, for any
\* number of calls, slots and faults; those that can be stranded have been claimed.
THEOREM UnclaimedNeverStranded == Spec => []StrandedWasClaimed
<1> DEFINE W == \A c \in Calls : Waits(c)
<1>1. Init => W
  BY DEF Init, Waits
<1>2. IInv /\ W /\ [Next]_vars => W'
  <2> SUFFICES ASSUME IInv, W, [Next]_vars PROVE W'
    OBVIOUS
  <2>1. CASE \E c \in Calls : CallStep(c)
    BY <2>1, StepWaits
  <2>2. CASE \E s \in Slots : ServerStep(s)
    <3>1. UNCHANGED clients
      BY <2>2 DEF ServerStep, RunsOther, Answer, Stop, Exit, Die, Gone, Start, Hello, Request,
                  Reads, Flush, SeesClose, IdleDrop
    <3> QED
      BY <3>1 DEF clients, Waits, Pending
  <2>3. CASE UNCHANGED vars
    BY <2>3 DEF vars, clients, Waits, Pending
  <2> QED
    BY <2>1, <2>2, <2>3 DEF Next
<1>3. W => StrandedWasClaimed
  BY DEF Waits, Stranded, StrandedWasClaimed
<1> HIDE DEF W
<1> QED
  BY <1>1, <1>2, <1>3, InitIInv, NextIInv, PTL DEF Spec

-----------------------------------------------------------------------------
(***************************************************************************)
(* The endpoint.                                                            *)
(***************************************************************************)

\* What one server does to its own state, wherever it is.
Moves(p) ==
  /\ \A q \in Procs \ {p} :
       pc'[q] = pc[q] /\ mine'[q] = mine[q] /\ socketIno'[q] = socketIno[q]
  /\ held' \in [Procs -> 0..MaxKeys] /\ key' \in 0..MaxKeys /\ keys' \in 0..MaxKeys
  /\ mishaps' \in 0..MaxMishaps

-----------------------------------------------------------------------------
\* A server's step touches nobody else's state, and keeps the counters in bounds.
LEMMA StepMoves ==
  ASSUME EndpointTypeOK, NEW p \in Procs, ProcStep(p)
  PROVE  /\ Moves(p)
         /\ pc' \in [Procs -> Pcs]
         /\ mine' \in [Procs -> 0..MaxFiles] /\ socketIno' \in [Procs -> 0..MaxFiles]
         /\ file' \in 0..MaxFiles /\ files' \in 0..MaxFiles
<1> USE EndpointAssumption DEF EndpointTypeOK, Pcs, Goes, TurnsOff, Moves, Leaves, Mishap
<1>1. CASE Launch(p)
  BY <1>1 DEF Launch
<1>2. CASE Listen(p)
  BY <1>2 DEF Listen
<1>3. CASE InUse(p)
  BY <1>3 DEF InUse
<1>4. CASE Probe(p)
  BY <1>4 DEF Probe
<1>5. CASE Remove(p)
  BY <1>5 DEF Remove
<1>6. CASE Stat(p)
  BY <1>6 DEF Stat
<1>7. CASE Stops(p)
  BY <1>7 DEF Stops
<1>8. CASE Close(p)
  BY <1>8 DEF Close
<1>9. CASE KeyCheck(p)
  BY <1>9 DEF KeyCheck
<1>10. CASE Crash(p)
  BY <1>10 DEF Crash
<1> QED
  BY <1>1, <1>2, <1>3, <1>4, <1>5, <1>6, <1>7, <1>8, <1>9, <1>10 DEF ProcStep

\* What EndpointInv says of one server, and of two.
Knows(p) ==
  /\ p \in Listening <=> mine[p] # 0
  /\ mine[p] <= files /\ socketIno[p] <= files
  /\ pc[p] \in {"up", "close"} => mine[p] <= socketIno[p]
  /\ p \in Prompt =>
       /\ pc[p] \in {"up", "close"} => socketIno[p] = mine[p]
       /\ pc[p] \in {"stat", "close"} => file = mine[p]
       /\ pc[p] # "adrift"

\* EndpointInv, server by server.
LEMMA EndpointInvByProc ==
  EndpointInv <=>
    /\ EndpointTypeOK /\ file \in {0, files}
    /\ \A p \in Procs : Knows(p)
    /\ \A p \in Procs : \A q \in Procs \ {p} : mine[p] # 0 => mine[p] # mine[q]
  BY EndpointAssumption DEF EndpointInv, Knows

\* A server acts only while no other prompt one is between its two calls.
LEMMA OthersSettled ==
  ASSUME NEW p \in Procs, ProcStep(p)
  PROVE  \A q \in Prompt \ {p} : pc[q] \notin {"stat", "close"}
  BY DEF ProcStep, At, Launch, Listen, InUse, Probe, Remove, Stat, Stops, Close,
     KeyCheck, Crash

\* What a server's step does to its own part of the state, and to the socket file.
LEMMA StepKnows ==
  ASSUME EndpointInv, NEW p \in Procs, ProcStep(p)
  PROVE  /\ Knows(p)' /\ file' \in {0, files'} /\ files <= files'
         /\ mine'[p] \in {0, mine[p]} \/ mine'[p] > files
<1> USE EndpointAssumption DEF EndpointInv, EndpointTypeOK, Pcs, Goes, TurnsOff, Leaves,
        Mishap, Knows, At, OwnsEndpoint, Listening
<1>1. CASE Launch(p)
  BY <1>1 DEF Launch
<1>2. CASE Listen(p)
  BY <1>2 DEF Listen
<1>3. CASE InUse(p)
  BY <1>3 DEF InUse
<1>4. CASE Probe(p)
  BY <1>4 DEF Probe
<1>5. CASE Remove(p)
  BY <1>5 DEF Remove
<1>6. CASE Stat(p)
  BY <1>6 DEF Stat
<1>7. CASE Stops(p)
  BY <1>7 DEF Stops
<1>8. CASE Close(p)
  BY <1>8 DEF Close
<1>9. CASE KeyCheck(p)
  BY <1>9 DEF KeyCheck
<1>10. CASE Crash(p)
  BY <1>10 DEF Crash
<1> QED
  BY <1>1, <1>2, <1>3, <1>4, <1>5, <1>6, <1>7, <1>8, <1>9, <1>10 DEF ProcStep

\* The invariant is inductive.
LEMMA EndpointInvStep ==
  ASSUME EndpointInv, [EndpointNext]_endpointVars PROVE EndpointInv'
<1>1. CASE UNCHANGED endpointVars
  BY <1>1 DEF EndpointInv, EndpointTypeOK, Listening, endpointVars
<1>2. CASE PurgeKey
  BY <1>2, EndpointAssumption DEF EndpointInv, EndpointTypeOK, Listening, PurgeKey, Mishap
<1>3. ASSUME NEW p \in Procs, ProcStep(p) PROVE EndpointInv'
  <2>1. EndpointTypeOK' /\ Moves(p)
    BY <1>3, StepMoves DEF EndpointInv, EndpointTypeOK, Moves
  <2>2. /\ Knows(p)' /\ file' \in {0, files'} /\ files <= files'
        /\ mine'[p] \in {0, mine[p]} \/ mine'[p] > files
    BY <1>3, StepKnows
  <2>3. ASSUME NEW q \in Procs \ {p} PROVE Knows(q)'
    <3>1. (q \in Prompt => pc[q] \notin {"stat", "close"}) /\ Knows(q)
      BY <1>3, OthersSettled, EndpointInvByProc
    <3>2. /\ mine[q] \in Nat /\ socketIno[q] \in Nat
          /\ files \in Nat /\ files' \in Nat
      BY <2>1, EndpointAssumption DEF EndpointInv, EndpointTypeOK
    <3>3. pc'[q] = pc[q] /\ mine'[q] = mine[q] /\ socketIno'[q] = socketIno[q]
      BY <2>1 DEF Moves
    <3> QED
      BY <2>2, <3>1, <3>2, <3>3 DEF Knows, Listening
  <2>4. ASSUME NEW q \in Procs, NEW r \in Procs \ {q}, mine'[q] # 0
        PROVE  mine'[q] # mine'[r]
    <3>1. /\ mine[q] # 0 => mine[q] # mine[r]
          /\ mine[r] # 0 => mine[r] # mine[q]
          /\ mine[q] <= files /\ mine[r] <= files
      BY DEF EndpointInv
    <3>2. mine[q] \in Nat /\ mine[r] \in Nat /\ files \in Nat
      BY EndpointAssumption DEF EndpointInv, EndpointTypeOK
    <3>3. mine'[p] \in Nat
      BY <2>1, EndpointAssumption DEF EndpointTypeOK
    <3>4. CASE q = p
      BY <2>1, <2>2, <2>4, <3>1, <3>2, <3>3, <3>4 DEF Moves
    <3>5. CASE r = p
      BY <2>1, <2>2, <2>4, <3>1, <3>2, <3>3, <3>5 DEF Moves
    <3>6. CASE q # p /\ r # p
      BY <2>1, <2>4, <3>1, <3>6 DEF Moves
    <3> QED
      BY <3>4, <3>5, <3>6
  <2>5. \A q \in Procs : Knows(q)'
    BY <2>2, <2>3
  <2> QED
    BY <2>1, <2>2, <2>4, <2>5, EndpointAssumption DEF EndpointInv, Knows
<1> QED
  BY <1>1, <1>2, <1>3 DEF EndpointNext

\* A prompt server that leaves unlinks its own socket file or none.
LEMMA LeavesStep ==
  ASSUME EndpointInv, [EndpointNext]_endpointVars, NEW p \in Prompt, NEW q \in Procs
  PROVE  ~UnlinksAnothers(p, q)
<1> SUFFICES ASSUME UnlinksAnothers(p, q)
             PROVE  FALSE
  OBVIOUS
<1>1. /\ p \in Procs /\ p # q /\ pc[p] \in {"up", "close"} /\ pc'[p] = "off"
      /\ q \in Listening /\ mine[q] = file /\ file # 0 /\ file' = 0
  BY EndpointAssumption DEF UnlinksAnothers
<1>2. PICK r \in Procs : ProcStep(r)
  BY <1>1 DEF EndpointNext, PurgeKey, endpointVars
<1>3. r = p
  BY <1>1, <1>2, StepMoves DEF Moves, EndpointInv
<1>4. mine[q] # mine[p]
  BY <1>1 DEF EndpointInv
<1>5. CASE Close(p)
  BY <1>1, <1>4, <1>5 DEF Close, At, EndpointInv
<1>6. CASE ~Close(p)
  BY <1>1, <1>2, <1>3, <1>6 DEF ProcStep, At, Launch, Listen, InUse, Probe, Remove, Stat, Stops,
     KeyCheck, Crash, Leaves, TurnsOff, Goes, EndpointInv, EndpointTypeOK
<1> QED
  BY <1>5, <1>6

-----------------------------------------------------------------------------
\* hook_server.ts:174-263: for any number of servers, whoever comes between their calls,
\* no two listen on one file, the path names the newest or none, and a server takes no
\* file for its own that is older than its own.
THEOREM EndpointKnown == EndpointSpec => []EndpointInv
<1>1. EndpointInit => EndpointInv
  BY EndpointAssumption DEF EndpointInit, EndpointInv, EndpointTypeOK, Listening, Pcs
<1>2. EndpointInv /\ [EndpointNext]_endpointVars => EndpointInv'
  BY EndpointInvStep
<1> QED
  BY <1>1, <1>2, PTL DEF EndpointSpec

\* hook_server.ts:237: a server that callers reach never takes itself for replaced, so
\* its timer never makes it leave, whoever came between its calls.
THEOREM ReachableServersStay == EndpointSpec => []ReachableStays
<1>1. EndpointInv => ReachableStays
  <2> SUFFICES ASSUME EndpointInv, NEW p \in Procs, pc[p] = "up", file = mine[p]
               PROVE  file = socketIno[p]
    BY DEF ReachableStays, OwnsEndpoint
  <2>1. mine[p] # 0 /\ file \in {0, files}
    BY DEF EndpointInv, Listening
  <2>2. mine[p] <= socketIno[p] /\ socketIno[p] <= files
    BY DEF EndpointInv
  <2>3. mine[p] \in Nat /\ socketIno[p] \in Nat /\ files \in Nat
    BY EndpointAssumption DEF EndpointInv, EndpointTypeOK
  <2> QED
    BY <2>1, <2>2, <2>3
<1> QED
  BY <1>1, EndpointKnown, PTL

\* hook_server.ts:254: a server that nobody comes between never unlinks, as it leaves,
\* the socket file that another listens on, whatever the others do.
THEOREM OthersLeftAlone == EndpointSpec => LeavesOthersAlone
<1>1. EndpointInv /\ [EndpointNext]_endpointVars =>
        [\A p \in Prompt, q \in Procs : ~UnlinksAnothers(p, q)]_endpointVars
  BY LeavesStep
<1> QED
  BY <1>1, EndpointKnown, PTL DEF EndpointSpec, LeavesOthersAlone

=============================================================================
