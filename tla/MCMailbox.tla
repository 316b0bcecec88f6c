------------------------------ MODULE MCMailbox ------------------------------
(***************************************************************************)
(* One mailbox, in three views.  A behaviour looks at the credentials of    *)
(* sends, with revocations, key sets and departures around them; or at the *)
(* mailbox, with two envelopes, its daemon and the janitors; or at one     *)
(* envelope that is sent again and again, and what its sender is told.     *)
(***************************************************************************)
EXTENDS Mailbox, TLC

CONSTANTS owner, s1, s2

VARIABLE focus

pass == [id |-> 1, owner |-> owner, class |-> "contact", epoch |-> 1, from |-> 1, until |-> 1]

MCCaps == {pass}

Kid(i, until) == [id |-> i, notAfter |-> until]

MCKeySets ==
  { [seq |-> 1, epoch |-> 1, kids |-> {Kid(1, 1), Kid(2, 2)}],
    [seq |-> 2, epoch |-> 2, kids |-> {Kid(2, 2)}] }

Mail(id, cap, kid, exp) == [id |-> id, to |-> owner, cap |-> cap, kid |-> kid, exp |-> exp]

known1 == Mail(1, pass, 1, 0)      \* under the credential
first1 == Mail(2, NoCap, 1, 3)     \* first contacts, one with an end
first2 == Mail(3, NoCap, 2, 0)

MCEnvelopes == {known1, first1, first2}
MCShares == {1, 2}

-----------------------------------------------------------------------------
(* The views. *)

Sends(s, M) == send'[s] # NoSend => send'[s].msg \in M

\* What this view leaves out does not happen in it.
Focused ==
  CASE focus = "credentials" ->
         /\ UNCHANGED <<dackVars, readerVars, told, check>>
         /\ (rows' = rows /\ redelivery' = redelivery) \/ lastId' # lastId \/ agents' # agents
         /\ Sends(s1, {known1}) /\ Sends(s2, {known1})
         /\ agents # agents' => owner \in agents \/ time = 1
         \* s2 comes while s1 is checked, and s1 goes on alone to the end.
         /\ send'[s2].phase # "waiting"
         /\ send[s2] = NoSend /\ send'[s2] # NoSend => Looking(s1, "row") \/ Looking(s1, "put")
         /\ send[s1] = NoSend /\ send'[s1] # NoSend => send[s2] = NoSend
         /\ send'[s1].phase \in {"waiting", "enqueue"} => send'[s2] = NoSend
         /\ lastId = 1 => \A s \in Slots : send'[s] = NoSend \/ send[s] # NoSend
    [] OTHER ->
         \* The owner joins, publishes one set and stays.
         /\ UNCHANGED <<revokedAt, work, cache>>
         /\ agents \subseteq agents'
         /\ keyset' # keyset => keyset'[owner].seq = 1
         /\ IF focus = "mailbox"
            THEN /\ UNCHANGED <<told, check>> /\ lastId' <= 3
                 /\ Sends(s1, {first1, first2}) /\ send'[s2] = NoSend
            ELSE /\ UNCHANGED poll /\ Cardinality(told') <= 1
                 /\ Sends(s1, {first2}) /\ Sends(s2, {first2})
                 \* s2 comes beside s1's first, and is over within a clock unit.
                 /\ send'[s2] # NoSend => time' = 1 /\ lastId' <= 1 /\ told = {}
                 /\ send[s2] = NoSend /\ send'[s2] # NoSend => send[s1] # NoSend

MCInit == MailInit /\ focus \in {"credentials", "mailbox", "sender"}

MCNext == MailNext /\ Focused /\ UNCHANGED focus

MCSpec == MCInit /\ [][MCNext]_<<vars, focus>> /\ \A o \in Owners : WF_vars(PollPage(o))

\* The owner stays, and a new mailbox key is what voids its revocations.
NobodyLeaves == agents \subseteq agents'
=============================================================================
