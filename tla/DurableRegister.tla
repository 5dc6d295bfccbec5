--------------------------- MODULE DurableRegister ---------------------------
(***************************************************************************)
(* What the native session store promises its callers, without files, OS   *)
(* credentials or crashes: one durable state that only ever moves forward, *)
(* and an acknowledgement that is given for nothing but the state that is  *)
(* durable at that moment.  States are numbered in the order in which they *)
(* are made; 0 is the store before its first commit.                       *)
(***************************************************************************)
EXTENDS Naturals

VARIABLES
    state,   \* the state a reader of the store gets
    acked    \* the last state whose commit was reported as done

vars == <<state, acked>>

TypeOK == state \in Nat /\ acked \in Nat

Init == state = 0 /\ acked = 0

\* A commit takes effect.  Its caller may never hear of it (a crash, an
\* uncertain error), so taking effect and acknowledging are separate steps.
Advance == state' \in Nat /\ state' > state /\ UNCHANGED acked

\* A caller is told that the durable state is now its own.
Acknowledge == acked' = state /\ UNCHANGED state

Next == Advance \/ Acknowledge

Spec == Init /\ [][Next]_vars

(* Nothing acknowledged is ever undone: "return ciphertext or plaintext    *)
(* only after commit succeeds".                                            *)
AckedIsDurable == acked <= state
=============================================================================
