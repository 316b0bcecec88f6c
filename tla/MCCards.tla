------------------------------- MODULE MCCards -------------------------------
(* The card stream on a small instance, in views.  "hub": one hub, one agent *)
(* that rotates, requests that overlap.  "peers": an agent at two hubs.       *)
(* "stream": two agents of one hub, arrivals and departures at the reader.    *)
(* "turns": one hub and a visibility that changes back and forth.             *)
EXTENDS Cards, TLC

CONSTANTS p1, p2, a1, a2, r1, r2

VARIABLE focus

OneHub == agent'[p2] = agent[p2] /\ (page' # None => page'.peer = p1)
OneAgent == \A p \in Peers : agent'[p][a2] = None /\ stay'[a2] = 0 /\ own'[a2] = 1
NoMoves == stay' = [a \in AIDs |-> 0]
Alone == req'[r2] = None

\* Under its second key the agent starts over with the first seq.
Offered == \A r \in Requests : req'[r] # None /\ req'[r].card \in Card =>
             req'[r].card.key = 1 \/ req'[r].card.seq = 1

\* Requests and visibility changes here end before the reader goes on.
Quiet == (\E r \in Requests : req[r] # None) \/ (\E p \in Peers : vis[p] # None) => UNCHANGED reader

\* These agents keep the card they first register.
Constant == \A r \in Requests : req'[r] # None /\ req'[r].card \in Card => req'[r].card.seq = 1

\* Agents here bring their whole history, open their visibility and then have cards.
Brief == /\ \A r \in Requests : req[r] = None /\ req'[r] # None =>
              /\ req'[r].kel = own[req'[r].aid]
              /\ (req'[r].card = None) # Federates(req'[r].hub, req'[r].aid)
         /\ \A p \in Peers : vis'[p] # None => vis'[p].to
         /\ head'[p1] <= 3 /\ head'[p2] <= 2
         /\ \A r \in Requests : req'[r] # None /\ req'[r].card \in Card /\ req'[r].hub = p1 => req'[r].card.seq = 1
         /\ page # None /\ page' = None => page.rest = {}
         \* The second hub goes on once its page is taken in.
         /\ page # None => (page.peer = p2 => UNCHANGED publisher)

\* The second request is a history pushed while the first is under way.
Beside == req[r2] = None /\ req'[r2] # None => req[r1] # None /\ req'[r2].card = None /\ agent' # agent

\* No key sets are published here.
NoKeySets == \A p \in Peers : head'[p] # head[p] => req' # req \/ vis' # vis \/ agent' # agent

\* What begins at a hub, which takes room on the stream; here only at its start.
Begins(p) ==
  \/ agent'[p] # agent[p] \/ (vis[p] = None /\ vis'[p] # None)
  \/ \E r \in Requests : req[r] = None /\ req'[r] # None /\ req'[r].hub = p
  \/ card'[p] # card[p] /\ req' = req /\ vis' = vis

Short == \A p \in Peers : head[p] >= 2 => ~Begins(p)

Focused ==
  CASE focus = "hub" -> OneHub /\ OneAgent /\ NoMoves /\ Offered /\ Beside /\ NoKeySets /\ Short /\ head'[p1] <= 4
    [] focus = "peers" -> OneAgent /\ NoMoves /\ Alone /\ Offered /\ Quiet /\ Brief /\ NoKeySets /\ Short /\ cut' = cut
    [] focus = "stream" -> OneHub /\ Alone /\ Quiet /\ Constant /\ Short /\ own' = own /\ cut' = cut
    [] focus = "turns" -> OneHub /\ OneAgent /\ NoMoves /\ Alone /\ Constant /\ NoKeySets /\ own' = own /\ head'[p1] <= 4

MCInit == CardsInit /\ focus \in {"hub", "peers", "stream", "turns"} /\ (focus = "stream" \/ \A a \in AIDs : stay[a] = 0)

MCNext == CardsNext /\ Focused /\ UNCHANGED focus

MCSpec == MCInit /\ [][MCNext]_<<vars, focus>>
==============================================================================
