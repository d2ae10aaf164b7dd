----------------------------- MODULE AtLeastOnce -----------------------------
(***************************************************************************)
(* What the message bus promises of each message: once accepted it is owed *)
(* until it is settled, by a consumer that finished its work or by the     *)
(* dead-letter queue, and it is never just gone.  Duplicates are allowed,  *)
(* so nothing is said of a message after that.                             *)
(***************************************************************************)
CONSTANT Messages

VARIABLE custody

Init == custody = [m \in Messages |-> "none"]

Accept(m) ==
    /\ custody[m] = "none"
    /\ custody' = [custody EXCEPT ![m] = "owed"]

Settle(m) ==
    /\ custody[m] = "owed"
    /\ custody' = [custody EXCEPT ![m] = "settled"]

Next == \E m \in Messages : Accept(m) \/ Settle(m)

Spec == Init /\ [][Next]_custody

EverythingSettles ==
    \A m \in Messages : custody[m] = "owed" ~> custody[m] = "settled"
=============================================================================
