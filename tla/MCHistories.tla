---------------------------- MODULE MCHistories ----------------------------
(* Key histories on a small instance: one agent with two rotations, in three *)
(* views.  "rollback": the hub, copies of the database put in its place, and *)
(* the wait; "entries": the hub, its key, key sets and the directory;         *)
(* "processes": two processes on the database and on the file.               *)
EXTENDS Histories, TLC

CONSTANTS a1

VARIABLE focus

First == <<"here">>
Second == <<"here", "here">>
Gone == <<"here", "dip">>

MCKELs == {First, Second, Gone}

-----------------------------------------------------------------------------
(* The views. *)

OperatorAway == proc'["operator"].pc = "down"

Stopped(p) == proc[p].pc # "down" /\ proc'[p].pc = "down"

\* The write of the file does not fail, the process dies before it at worst.
Written(p) == sync[p].pc = "read" /\ sync'[p].pc # "read" => file' = sync[p].n \/ Stopped(p)

\* What this view leaves out does not happen in it.
Focused ==
  CASE focus = "rollback" ->
         /\ OperatorAway /\ key' = key /\ file' # Unreadable /\ now' <= 1 /\ db'.n <= 3
         /\ copy' # None => copy'.n = 1
         /\ Written("hub")
         /\ \A a \in AIDs : /\ req'[a] # None => req'[a].pc # "read"
                            /\ db'.reg[a] \in {None, First, Second}
    [] focus = "entries" ->
         /\ OperatorAway /\ copy' = None /\ file' # Unreadable /\ now' <= 1
    [] focus = "processes" ->
         /\ key' = key /\ now' = 0
         /\ copy' # None => copy'.n = 1 /\ copy'.quar = None /\ copy'.reg[a1] # None /\ (copy = None => AllDown)
         /\ db'.quar # None => db'.quar.why = "rollback"
         /\ \A p \in Processes : Written(p)
         /\ Stopped("operator") => proc["operator"].pc = "opened" /\ sync["operator"] = NoSync
         /\ proc["operator"].pc = "down" /\ ~OperatorAway => copy # None /\ proc["hub"].pc # "up"
         /\ \A a \in AIDs :
              /\ db'.notice[a] = None /\ db'.keys[a] = None /\ db'.reg[a] \in {None, First}
              /\ req'[a] # None => req'[a].of = "register" /\ req'[a].pc = "signed"
              /\ db.reg[a] # None /\ db'.reg[a] = None => db'.event \/ AllDown

MCInit == HistoriesInit /\ focus \in {"rollback", "entries", "processes"}

MCNext == HistoriesNext /\ Focused /\ UNCHANGED focus

MCSpec == MCInit /\ [][MCNext]_<<historyVars, focus>>
============================================================================
