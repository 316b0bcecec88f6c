----------------------------- MODULE AcceptOnce -----------------------------
(***************************************************************************)
(* What a hub promises about signed requests (internal/aghub/auth2.go):     *)
(* each time a signer signs is taken at most once in the life of the hub    *)
(* process, and no time from before the process began is taken at all.      *)
(***************************************************************************)
EXTENDS Naturals

CONSTANTS Signers, Times

VARIABLES
  uses,    \* how often each <<signer, time>> was taken in this life of the process
  since    \* when this life began

Unused == [x \in Signers \X Times |-> 0]

Init == uses = Unused /\ since \in Times

Take(a, t) ==
  /\ uses[<<a, t>>] = 0 /\ t >= since
  /\ uses' = [uses EXCEPT ![<<a, t>>] = 1] /\ UNCHANGED since

Restart == uses' = Unused /\ since' \in Times

Next == Restart \/ \E a \in Signers, t \in Times : Take(a, t)

Spec == Init /\ [][Next]_<<uses, since>>
=============================================================================
