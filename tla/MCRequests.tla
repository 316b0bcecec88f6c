----------------------------- MODULE MCRequests -----------------------------
(***************************************************************************)
(* One hub and its callers, in two views: an agent that sends one request   *)
(* at a time while another agent of the same part signs as it likes; and a  *)
(* peer hub whose operator sends a request beside it.                      *)
(***************************************************************************)
EXTENDS Requests, TLC

CONSTANTS agent, other, peer, daemon, hub, operator

VARIABLE focus

MCShardOf == [a \in Signers |-> 1]
MCKsOf == [a \in Signers |-> IF a = agent THEN {1, 2} ELSE IF a = other THEN {1} ELSE {2}]
MCSignerOf == daemon :> agent @@ hub :> peer @@ operator :> peer

\* Requests of another agent, whoever sends them, one in the first life of the hub.
Others ==
  /\ focus = "agents" /\ lives = 1 /\ \E t \in Times : Judge(other, t, 1)
  /\ {t \in Times : <<other, t>> \in taken} = {}
  /\ UNCHANGED <<mono, call, earlier, lives>>

Focused ==
  IF focus = "agents"
  THEN /\ call'[hub] = NoCall /\ call'[operator] = NoCall
       \* The clock of an agent's daemon only goes up.
       /\ mono[daemon] <= mono'[daemon]
       /\ (call'[daemon] # NoCall => call'[daemon].answer \notin {"lost", "refused"})
  ELSE /\ latest' = now' /\ call'[daemon] = NoCall /\ mono[hub] <= mono'[hub]
       \* The operator sends one request.
       /\ call[operator].pc = "done" => call'[operator] = call[operator]

MCInit == RequestsInit /\ now = 1 /\ focus \in {"agents", "peer"}

MCNext == (RequestsNext \/ Others) /\ Focused /\ UNCHANGED focus

MCSpec == MCInit /\ [][MCNext]_<<vars, focus>>
=============================================================================
