---------------------------- MODULE EventChannel ----------------------------
(***************************************************************************)
(* What pairing, the ratchet, the relay mailbox and the sync loop promise  *)
(* together, seen from the two people: events go from one device's         *)
(* history to the other's in the order in which they were sent, none is    *)
(* left out, and nothing is shown to somebody who has not confirmed the    *)
(* safety number.                                                          *)
(***************************************************************************)
EXTENDS Naturals

CONSTANT Peers

VARIABLES
    count,      \* how many events each peer has handed over to be sent
    shown,      \* which of the other's events each peer has in its history
    confirmed   \* whether each peer's user has confirmed the safety number

vars == <<count, shown, confirmed>>

TypeOK ==
    /\ count \in [Peers -> Nat]
    /\ shown \in [Peers -> SUBSET Nat]
    /\ confirmed \in [Peers -> BOOLEAN]

Init ==
    /\ count = [p \in Peers |-> 0]
    /\ shown = [p \in Peers |-> {}]
    /\ confirmed = [p \in Peers |-> FALSE]

Confirm(p) ==
    /\ confirmed' = [confirmed EXCEPT ![p] = TRUE]
    /\ UNCHANGED <<count, shown>>

Send(p) ==
    /\ confirmed[p]
    /\ count' = [count EXCEPT ![p] = @ + 1]
    /\ UNCHANGED <<shown, confirmed>>

\* The next event of the sender q, and no other, reaches the history of p.
Show(p, q) ==
    /\ confirmed[p]
    /\ \E n \in 1..count[q] :
         /\ shown[p] = 1..(n - 1)
         /\ shown' = [shown EXCEPT ![p] = 1..n]
    /\ UNCHANGED <<count, confirmed>>

Next ==
    \E p \in Peers : Confirm(p) \/ Send(p) \/ \E q \in Peers \ {p} : Show(p, q)

Spec == Init /\ [][Next]_vars
=============================================================================
