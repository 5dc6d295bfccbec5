--------------------------------- MODULE Cups ---------------------------------
(***************************************************************************)
(* The cups of water of a pair (App.tsx, pet/pendingCups.ts).  Each app    *)
(* keeps the cup on its own desk and the one on TA's; a cup is known by    *)
(* the event that sent it.  Encrypted events reach the other app in order  *)
(* and are never lost (RatchetMailbox), but may come too late to be shown. *)
(***************************************************************************)
EXTENDS Naturals, Sequences

CONSTANTS
    MaxCups, MaxFaults  \* bounds: cups sent, and faults

VARIABLES
    sent,      \* cups sent so far; a cup is its number
    self, partner,  \* pendingCups of each app
    drinking,  \* drinkInProgress
    mail,      \* events on their way to each app
    broken,    \* history: cups on which the apps may differ for a known reason
    faults

vars == <<sent, self, partner, drinking, mail, broken, faults>>

Apps == {1, 2}
Other(a) == 3 - a
None == 0
Event(kind, cup) == [kind |-> kind, cup |-> cup]
Post(a, event) == mail' = [mail EXCEPT ![Other(a)] = Append(@, event)]
Arrived(a) == [mail EXCEPT ![a] = Tail(@)]
Fault == faults < MaxFaults /\ faults' = faults + 1

Init ==
    /\ sent = 0 /\ self = [a \in Apps |-> None] /\ partner = [a \in Apps |-> None]
    /\ drinking = [a \in Apps |-> FALSE] /\ mail = [a \in Apps |-> <<>>]
    /\ broken = {} /\ faults = 0

\* send, when no cup stands on the own desk (waterClickAction), and showGesture.
SendWater(a) ==
    /\ ~drinking[a] /\ self[a] = None /\ sent < MaxCups
    /\ sent' = sent + 1
    /\ partner' = [partner EXCEPT ![a] = sent']
    /\ Post(a, Event("water", sent'))
    /\ UNCHANGED <<self, drinking, broken, faults>>

\* drinkCup of the own cup, by a click or after 15 minutes; the event that
\* says so may fail to be queued.
DrinkOwn(a) ==
    /\ self[a] # None /\ ~drinking[a]
    /\ self' = [self EXCEPT ![a] = None]
    /\ drinking' = [drinking EXCEPT ![a] = TRUE]
    /\ \/ Post(a, Event("consumed", self[a])) /\ UNCHANGED <<broken, faults>>
       \/ Fault /\ broken' = broken \cup {self[a]} /\ UNCHANGED mail
    /\ UNCHANGED <<sent, partner>>

\* TA's cup has stood here for 15 minutes: nothing is told.
DrinkTheirs(a) ==
    /\ partner[a] # None /\ ~drinking[a]
    /\ partner' = [partner EXCEPT ![a] = None]
    /\ drinking' = [drinking EXCEPT ![a] = TRUE]
    /\ broken' = broken \cup {partner[a]}
    /\ UNCHANGED <<sent, self, mail, faults>>

\* drinkLockTimer.
Drunk(a) ==
    /\ drinking[a]
    /\ drinking' = [drinking EXCEPT ![a] = FALSE]
    /\ UNCHANGED <<sent, self, partner, mail, broken, faults>>

\* Water of an incoming interaction: it takes the place of a cup there.
Water(a, cup) ==
    \/ self' = [self EXCEPT ![a] = cup] /\ UNCHANGED <<broken, faults>>
    \* Older than 15 seconds or than the reconnection, or while replaying: not shown.
    \/ Fault /\ broken' = broken \cup {cup, self[a]} /\ UNCHANGED self

\* Mutant: whatever cup is there is drunk.
ConsumedAny(a, cup) == partner' = [partner EXCEPT ![a] = None]

\* consumeCup.
Consumed(a, cup) ==
    partner' = IF partner[a] = cup THEN [partner EXCEPT ![a] = None] ELSE partner

Receive(a) ==
    /\ mail[a] # <<>>
    /\ mail' = Arrived(a)
    /\ LET event == Head(mail[a])
       IN IF event.kind = "water"
          THEN Water(a, event.cup) /\ UNCHANGED <<partner, drinking>>
          ELSE /\ Consumed(a, event.cup)
               /\ drinking' = [drinking EXCEPT ![a] = @ \/ partner' # partner]
               /\ UNCHANGED <<self, broken, faults>>
    /\ UNCHANGED sent

\* The stored cups are cleared before the pairing is loaded (App.tsx:952).
Restart(a) ==
    /\ Fault
    /\ broken' = broken \cup {self[a], partner[a]}
    /\ self' = [self EXCEPT ![a] = None]
    /\ partner' = [partner EXCEPT ![a] = None]
    /\ drinking' = [drinking EXCEPT ![a] = FALSE]
    /\ UNCHANGED <<sent, mail>>

Next ==
    \E a \in Apps :
        \/ SendWater(a) \/ DrinkOwn(a) \/ DrinkTheirs(a) \/ Drunk(a) \/ Receive(a) \/ Restart(a)
Spec == Init /\ [][Next]_vars
-----------------------------------------------------------------------------
TypeOK ==
    /\ sent \in 0 .. MaxCups /\ faults \in 0 .. MaxFaults
    /\ {self, partner} \subseteq [Apps -> 0 .. sent]
    /\ drinking \in [Apps -> BOOLEAN] /\ broken \subseteq 0 .. sent
    /\ \A a \in Apps : Len(mail[a]) <= 2 * sent

(* Once everything has arrived, both apps show the same cups on the same    *)
(* desks, however sending, replacing and drinking them crossed; only cups   *)
(* that came too late, were drunk unheard of or were lost with a restart    *)
(* may differ (pendingCups.test.ts:15).                                     *)
CupsAgree ==
    (\A a \in Apps : mail[a] = <<>>) =>
        \A a \in Apps, cup \in 1 .. sent :
            cup \notin broken => (partner[a] = cup <=> self[Other(a)] = cup)
=============================================================================
