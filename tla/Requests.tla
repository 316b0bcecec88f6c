------------------------------ MODULE Requests ------------------------------
(***************************************************************************)
(* Signed requests and the clients that send them (internal/federation:     *)
(* signer.go, authpeer.go; internal/aghub: auth2.go, fed_relay.go).         *)
(*                                                                         *)
(* A client hands out its signing times from a clock that only goes up, one *)
(* for each hub it talks to, and signs a request again above the floor a    *)
(* refusal names.  An agent's request is judged once its signature is       *)
(* verified; a peer hub's is looked at before its body is read, and one at  *)
(* or below the floor is refused there without naming it.  The two          *)
(* processes of a peer, the hub and the operator's command, sign as one     *)
(* hub with a clock each.                                                  *)
(***************************************************************************)
EXTENDS Replay

CONSTANTS
  Clients, SignerOf,   \* the processes that sign, and as whom
  Peers,               \* the signers that are peer hubs
  ClientSkew,          \* how far a client's clock may be from the hub's
  Margin,              \* the part of MaxSkew a raised clock stays below
  MaxLives             \* bound of the model: restarts of the hub, and one more

ASSUME RequestsAssumption ==
  /\ SignerOf \in [Clients -> Signers] /\ Peers \subseteq Signers
  /\ ClientSkew \in Nat /\ Margin \in Nat /\ MaxLives \in Nat \ {0}

VARIABLES
  mono,      \* relayauth.MonoClock of each client: the last time it handed out
  call,      \* the request each client has in flight
  earlier,   \* the <<signer, time>> pairs taken in earlier lives of the hub
  lives      \* how often the hub began

vars == <<replayVars, mono, call, earlier, lives>>

NoCall == [pc |-> "none"]

\* told is the floor a refusal named, and era the life of the hub that named it, or the
\* request was sent in; excused: that life was over when it was answered, or the hub's
\* clock stood behind its latest.
CallType ==
  [pc: {"sent", "body", "answered", "done"}, ts: Times, resent: BOOLEAN, retried: BOOLEAN,
   answer: {"", "accepted", "outside", "below", "refused", "stale", "replayed", "lost", "notAdopted"},
   told: Nat, era: 1..MaxLives, excused: BOOLEAN]

RequestsTypeOK ==
  /\ ReplayTypeOK
  /\ mono \in [Clients -> 0..MaxTime] /\ call \in [Clients -> CallType \cup {NoCall}]
  /\ earlier \subseteq Signers \X Times /\ lives \in 1..MaxLives

RequestsInit ==
  /\ ReplayInit /\ lives = 1 /\ earlier = {}
  /\ mono = [c \in Clients |-> 0] /\ call = [c \in Clients |-> NoCall]

-----------------------------------------------------------------------------
(* The client (Signer.Do, doRetryingReplayed).                              *)

\* MonoClock.Next with the client's clock at l.
NextTime(c, l) == MaxOf(l, mono[c] + 1)

ClockOf(c) == {l \in Times : now - ClientSkew <= l /\ l <= now + ClientSkew}

Signed(ts, resent, retried, life) ==
  [pc |-> "sent", ts |-> ts, resent |-> resent, retried |-> retried, answer |-> "", told |-> 0,
   era |-> life, excused |-> FALSE]

Send(c) ==
  /\ call[c].pc \in {"none", "done"}
  /\ \E l \in ClockOf(c) :
       /\ NextTime(c, l) <= MaxTime
       /\ mono' = [mono EXCEPT ![c] = NextTime(c, l)]
       /\ call' = [call EXCEPT ![c] = Signed(NextTime(c, l), FALSE, FALSE, lives)]
  /\ UNCHANGED <<replayVars, earlier, lives>>

\* A command run anew begins with a new clock.
NewProcess(c) ==
  /\ call[c].pc = "done" /\ mono[c] # 0
  /\ mono' = [mono EXCEPT ![c] = 0] /\ call' = [call EXCEPT ![c] = NoCall]
  /\ UNCHANGED <<replayVars, earlier, lives>>

\* What is kept of a call that is over.
Ended(c, answer) ==
  [call[c] EXCEPT !.pc = "done", !.answer = answer, !.ts = 0, !.told = 0, !.era = 1]

\* MonoClock.Raise: a floor too far ahead of the client's clock is not adopted.
Adopts(floor, l) == floor <= l + MaxSkew - Margin

\* Mutant: the request is signed again at the client's own time.
RaisedTime_Own(c, l) == NextTime(c, l)

RaisedTime(c, l) == MaxOf(l, MaxOf(mono[c], call[c].told) + 1)

\* A ts_stale answer that names a floor has the request signed again above it, once.
SignAgain(c) ==
  /\ call[c].pc = "answered" /\ call[c].answer = "stale" /\ ~call[c].resent
  /\ \E l \in ClockOf(c) :
       IF Adopts(call[c].told, l)
       THEN /\ RaisedTime(c, l) <= MaxTime
            /\ mono' = [mono EXCEPT ![c] = RaisedTime(c, l)]
            /\ call' = [call EXCEPT ![c] = Signed(RaisedTime(c, l), TRUE, call[c].retried, call[c].era)]
       ELSE /\ call' = [call EXCEPT ![c] = Ended(c, "notAdopted")]
            /\ UNCHANGED mono
  /\ UNCHANGED <<replayVars, earlier, lives>>

\* A replayed answer has it sent once more with a new time, from the start.
SendAgain(c) ==
  /\ call[c].pc = "answered" /\ call[c].answer = "replayed" /\ ~call[c].retried
  /\ \E l \in ClockOf(c) :
       /\ NextTime(c, l) <= MaxTime
       /\ mono' = [mono EXCEPT ![c] = NextTime(c, l)]
       /\ call' = [call EXCEPT ![c] = Signed(NextTime(c, l), FALSE, TRUE, lives)]
  /\ UNCHANGED <<replayVars, earlier, lives>>

\* Any other answer is the caller's.
Return(c) ==
  /\ call[c].pc = "answered"
  /\ ~(call[c].answer = "stale" /\ ~call[c].resent) /\ ~(call[c].answer = "replayed" /\ ~call[c].retried)
  /\ call' = [call EXCEPT ![c] = Ended(c, call[c].answer)]
  /\ UNCHANGED <<replayVars, mono, earlier, lives>>

\* The request or its answer is lost, or the client stops waiting.
Lose(c) ==
  /\ call[c].pc \in {"sent", "body", "answered"}
  /\ call' = [call EXCEPT ![c] = Ended(c, "lost")]
  /\ UNCHANGED <<replayVars, mono, earlier, lives>>

-----------------------------------------------------------------------------
(* The hub.                                                                *)

IsPeer(c) == SignerOf[c] \in Peers

Answered(c, answer) ==
  call' = [call EXCEPT ![c] = [call[c] EXCEPT !.pc = "answered", !.answer = answer,
                                 !.told = IF answer = "stale" THEN FloorOf(SignerOf[c]) ELSE 0, !.era = lives,
                                 !.excused = now < latest \/ call[c].era # lives]]

\* peerHeaders: what the headers of a peer's request settle before its body is read.
\* One at or below the floor is refused like a bad signature.
PeerHeaders(c) ==
  /\ call[c].pc = "sent" /\ IsPeer(c)
  /\ \/ ~InWindow(call[c].ts) /\ Answered(c, "outside")
     \/ InWindow(call[c].ts) /\ call[c].ts <= FloorOf(SignerOf[c]) /\ Answered(c, "below")
     \/ /\ InWindow(call[c].ts) /\ call[c].ts > FloorOf(SignerOf[c])
        /\ call' = [call EXCEPT ![c].pc = "body"]
  /\ UNCHANGED <<replayVars, mono, earlier, lives>>

\* The body, the key or the signature is refused (authPeer, verifyV2).
Refuse(c) ==
  /\ call[c].pc = (IF IsPeer(c) THEN "body" ELSE "sent")
  /\ Answered(c, "refused")
  /\ UNCHANGED <<replayVars, mono, earlier, lives>>

\* The signature verified: RC1 judges (rc1Check, PeerRC1).
JudgeCall(c) ==
  LET a == SignerOf[c]
      ts == call[c].ts
  IN  /\ call[c].pc = (IF IsPeer(c) THEN "body" ELSE "sent")
      /\ \E k \in KsOf[a] : Judge(a, ts, k)
      /\ Answered(c, Verdict(a, ts))
      /\ UNCHANGED <<mono, earlier, lives>>

\* The network delivers a request the hub took before once more; nobody waits for the
\* answer.
Redeliver(x) ==
  /\ x[1] \in Peers => InWindow(x[2]) /\ x[2] > FloorOf(x[1])
  /\ \E k \in KsOf[x[1]] : Judge(x[1], x[2], k)
  /\ UNCHANGED <<mono, call, earlier, lives>>

HubRestart ==
  /\ lives < MaxLives /\ lives' = lives + 1 /\ ReplayRestart
  /\ earlier' = earlier \cup taken
  /\ UNCHANGED <<mono, call>>

HubStep ==
  /\ \/ \E p \in Shards : SweepNext(p) \/ ValveSweeps(p)
     \/ \E a \in Signers : Relieve(a)
     \/ ValveCloses
     \/ \E t \in Times : Clock(t)
  /\ UNCHANGED <<mono, call, earlier, lives>>

RequestsNext ==
  \/ \E c \in Clients :
       \/ Send(c) \/ NewProcess(c) \/ SignAgain(c) \/ SendAgain(c) \/ Return(c) \/ Lose(c)
       \/ PeerHeaders(c) \/ Refuse(c) \/ JudgeCall(c)
  \/ \E x \in taken \cup earlier : Redeliver(x)
  \/ HubRestart \/ HubStep

RequestsSpec == RequestsInit /\ [][RequestsNext]_vars

-----------------------------------------------------------------------------
(* Properties. *)

\* An agent that signs one request at a time is not refused for the time of a request
\* it signed again: only a restart of the hub since then, or a clock the hub set
\* back, has it refused once more (Signer.Do, relieve, sweepLocked).
SignedAgainIsTaken ==
  \A c \in Clients :
    /\ ~IsPeer(c) /\ call[c].pc = "done" /\ call[c].resent /\ call[c].answer \in {"stale", "replayed"}
    => call[c].excused

\* What signer.go, forward_v3.go, relaystatus.go and settle.go say of a request
\* refused for a time at or below the floor: it has been signed again above it.
StaleSignedAgain ==
  \A c \in Clients :
    call[c].pc = "done" /\ call[c].answer \in {"stale", "below"} => call[c].resent
=============================================================================
