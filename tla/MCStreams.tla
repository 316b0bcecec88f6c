------------------------------ MODULE MCStreams ------------------------------
(* The two streams together on a small instance, in views.  "cards": the     *)
(* cards of two agents of one hub, with arrivals at the reader.  "reviews":   *)
(* one hub that rotates, two interactions of an agent.  "hubs": one          *)
(* interaction at two hubs and at the reader.                                 *)
EXTENDS Reviews

CONSTANTS p1, p2, a1, a2, r1, r2

VARIABLES focus, stopped

OneHub(p) == agent'[p] = agent[p] /\ (page' # None => page'.peer # p)

Alone == req'[r2] = None /\ cut' = cut

\* Requests and visibility changes here end before the reader goes on.
Quiet == (\E r \in Requests : req[r] # None) \/ (\E p \in Peers : vis[p] # None)
           => UNCHANGED <<reader, reviewVars>>

\* These agents keep the card they first register.
Constant == \A r \in Requests : req'[r] # None /\ req'[r].card \in Card => req'[r].card.seq = 1

\* Of a2 nothing but its card elsewhere, which p1 lists or does not.
NoCards == /\ own' = own /\ stay' = stay /\ page' = None
           /\ \A r \in Requests : req'[r] # None => req'[r].card = None /\ req'[r].aid = a1
           /\ away'[p1] \subseteq {a2} /\ away'[p2] = {}

\* Here no review of a deal outside these is uploaded.
Only(deals) == /\ local' \subseteq deals /\ upload' \in deals \cup {None}
               /\ \A p \in Peers : \A i \in DOMAIN rev'[p] : rev'[p][i].deal \in deals

\* The other peer answers nothing.
Silent(p) == /\ rev'[p] = <<>> /\ hubkey'[p] = 1 /\ pin'[p] = 0 /\ ~asked'[p] /\ away'[p] = {}
             /\ (rpage' # None => rpage'.peer # p)

\* Agents here register once.
Once == \A p \in Peers : agent[p][a1] # None /\ req'[r1] # req[r1] /\ req'[r1] # None => req'[r1].hub # p

\* An agent here stays, and keeps its visibility once it is open.
Steady == \A p \in Peers : agent[p][a1] # None => agent'[p][a1] # None /\ (Federates(p, a1) => agent'[p][a1].federates)

\* A reader that stopped for ever between two entries would never be done: it
\* does so once at most, among the reviews.
Done == (page # None /\ page' = None) => Finish \/ Stall
DoneReviews == (rpage # None /\ rpage' = None) => FinishReviews \/ StallReviews

Focused ==
  CASE focus = "cards" -> OneHub(p2) /\ Alone /\ Quiet /\ Constant /\ own' = own /\ stay'[a2] = 0 /\ reviewVars' = reviewVars
    [] focus = "reviews" -> OneHub(p2) /\ Silent(p2) /\ Alone /\ Quiet /\ NoCards /\ Only({<<a1, 1>>, <<a2, 1>>}) /\ upload' = None /\ Once /\ Steady
    [] focus = "hubs" -> Alone /\ Quiet /\ NoCards /\ Only({<<a1, 1>>}) /\ away' = away /\ Once /\ Steady /\ asked' = asked /\ hubkey' = hubkey

MCInit == ReviewsInit /\ stopped = FALSE /\ focus \in {"cards", "reviews", "hubs"} /\ (focus = "cards" \/ stay[a1] = 0) /\ stay[a2] = 0

MCNext == /\ ReviewsNext /\ Focused /\ UNCHANGED focus
          /\ Done /\ (stopped => DoneReviews) /\ stopped' = (stopped \/ ~DoneReviews)

\* SetVisibility and the requests run to their end.  Each round of the reader
\* asks every peer for cards, in some rounds from the beginning, and for
\* reviews; of the reads of its identity every ten minutes some answer with
\* its whole history.  Each is asked in the views that have it.
InView(A) == A /\ UNCHANGED reviewVars
Whole(p) == [len |-> hubkey[p], own |-> TRUE]
Reviewing(p) == focus = "hubs" \/ (focus = "reviews" /\ p = p1)

Fairness ==
  /\ WF_allVars(InView(\E p \in Peers : VisTake(p) \/ VisPut(p) \/ VisClear(p)))
  /\ SF_allVars(InView(\E r \in Requests : Settle(r)))
  /\ \A full \in BOOLEAN : SF_allVars(focus = "cards" /\ InView(Pull(p1, full)))
  /\ WF_allVars(InView(AdmitEntry \/ Finish))
  /\ \A p \in Peers :
       /\ SF_allVars(Reviewing(p) /\ PullReviews(p) /\ UNCHANGED vars)
       /\ SF_allVars(Reviewing(p) /\ SyncPin(p, Whole(p)) /\ UNCHANGED vars)
  /\ WF_allVars(AdmitReviews /\ UNCHANGED vars)

MCSpec == MCInit /\ [][MCNext]_<<allVars, focus, stopped>> /\ Fairness
==============================================================================
