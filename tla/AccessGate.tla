----------------------------- MODULE AccessGate -----------------------------
(***************************************************************************)
(* The gate before the system's credential store                           *)
(* (src-tauri/src/credentials.rs): the app's two items are read and        *)
(* written without a dialog; only a Settings action may attempt an access  *)
(* that can show one (one attempt may show several dialogs, as macOS       *)
(* checks both layers of an item's access list).  The gate's lock is held  *)
(* for a whole action, so a background access falls between two actions;   *)
(* what the store answers may change at any time.  A store that is not     *)
(* available ends an action, and a background access that finds it so      *)
(* changes nothing.                                                        *)
(***************************************************************************)
EXTENDS Naturals

CONSTANT MaxActions  \* Settings actions

VARIABLES
    silent,      \* does the store answer for the item without a dialog
    interaction, \* may this process show dialogs at all
    prompted, paused,  \* AccessGate
    step,        \* of authorize: 0 none, 1 .. 2 authorize, 3 .. 4 the read-back
    dialog,      \* the item of the attempt whose dialog is on screen, or 0
    locked,      \* App: credentialLocked
    actions,     \* history: Settings actions
    attempts,    \* history: attempts with dialogs at each item, in the last action
    unasked,     \* history: attempts with dialogs outside of an action
    checked      \* history: items read in silence since their last attempt

vars ==
    <<silent, interaction, prompted, paused, step, dialog, locked, actions, attempts, unasked, checked>>
gate == <<prompted, paused, step, dialog, locked, actions, attempts, unasked, checked>>

Pairing == 1
Ratchet == 2
Items == {Pairing, Ratchet}
ItemAt(s) == IF s \in {1, 3} THEN Pairing ELSE Ratchet

Init ==
    /\ silent \in [Items -> BOOLEAN] /\ interaction \in BOOLEAN
    /\ prompted = [i \in Items |-> FALSE] /\ paused = FALSE
    /\ step = 0 /\ dialog = 0 /\ locked = FALSE
    /\ actions = 0 /\ attempts = [i \in Items |-> 0] /\ unasked = 0 /\ checked = {}

\* The user or the system locks the store, grants an item, or forbids dialogs.
StoreChanges ==
    /\ \/ \E i \in Items : silent' = [silent EXCEPT ![i] = ~@] /\ UNCHANGED interaction
       \/ interaction' = ~interaction /\ UNCHANGED silent
    /\ UNCHANGED gate

\* An access that may show dialogs.
Attempt(i) ==
    IF step = 0 THEN unasked' = unasked + 1 /\ UNCHANGED attempts
    ELSE attempts' = [attempts EXCEPT ![i] = @ + 1] /\ UNCHANGED unasked
NoAttempt == UNCHANGED <<attempts, unasked>>

\* Mutant: an access that is refused in silence is attempted with dialogs.
RefusedAsks(i) == Attempt(i) /\ UNCHANGED <<paused, checked>>

\* run, refused: everything pauses until the next Settings action.
Refused(i) == paused' = TRUE /\ checked' = checked \ {i} /\ NoAttempt

\* A read or write of the app: AccessGate.run, and the App's answer to an error.
Access(i) ==
    /\ step = 0
    /\ IF paused THEN locked' = TRUE /\ UNCHANGED <<paused, checked>> /\ NoAttempt
       ELSE IF silent[i]
       THEN checked' = checked \cup {i} /\ UNCHANGED <<paused, locked>> /\ NoAttempt
       ELSE locked' = TRUE /\ Refused(i)
    /\ UNCHANGED <<silent, interaction, prompted, step, dialog, actions>>

\* begin_authorization.
Begin ==
    /\ step = 0 /\ actions < MaxActions
    /\ prompted' = [i \in Items |-> FALSE] /\ paused' = FALSE
    /\ step' = 1 /\ actions' = actions + 1 /\ attempts' = [i \in Items |-> 0]
    /\ UNCHANGED <<silent, interaction, dialog, locked, unasked, checked>>

\* How an action ends at an error: refused, or the store is not available.
Denied == paused' = TRUE /\ step' = 0 /\ locked' = TRUE
Unavailable == step' = 0 /\ UNCHANGED <<paused, locked>>

\* AccessGate.authorize, up to the dialog.
Authorize ==
    /\ step \in {1, 2} /\ dialog = 0
    /\ LET i == ItemAt(step)
       IN \/ /\ silent[i]
             /\ step' = step + 1 /\ checked' = checked \cup {i}
             /\ UNCHANGED <<prompted, paused, dialog, locked>> /\ NoAttempt
          \/ /\ ~silent[i] /\ ~prompted[i] /\ interaction
             /\ prompted' = [prompted EXCEPT ![i] = TRUE]
             /\ dialog' = i /\ Attempt(i)
             /\ UNCHANGED <<paused, step, locked, checked>>
          \/ /\ ~silent[i] /\ (prompted[i] \/ ~interaction)
             /\ prompted' = [prompted EXCEPT ![i] = TRUE]
             /\ Denied
             /\ UNCHANGED <<dialog, checked>> /\ NoAttempt
          \/ Unavailable /\ UNCHANGED <<prompted, dialog, checked>> /\ NoAttempt
    /\ UNCHANGED <<silent, interaction, actions>>

\* Mutant: whatever the dialog gave is taken for unlocked.
AllowedAtOnce(i) == IF i = Ratchet THEN 0 ELSE 2

Allowed(i) == i + 1

\* The user allows the access for now, for good, or refuses it.
Answer ==
    /\ dialog # 0
    /\ dialog' = 0
    /\ checked' = checked \ {dialog}
    /\ \/ /\ step' = Allowed(dialog)
          /\ locked' = (locked /\ step' # 0)
          /\ \E grant \in BOOLEAN : silent' = [silent EXCEPT ![dialog] = grant]
          /\ UNCHANGED paused
       \/ (Denied \/ Unavailable) /\ UNCHANGED silent
    /\ UNCHANGED <<interaction, prompted, actions>> /\ NoAttempt

\* The background path is read back before the App is told it is unlocked.
ReadBack ==
    /\ step \in {3, 4}
    /\ LET i == ItemAt(step)
       IN \/ /\ silent[i]
             /\ checked' = checked \cup {i}
             /\ IF step = 4 THEN step' = 0 /\ locked' = FALSE
                ELSE step' = step + 1 /\ UNCHANGED locked
             /\ UNCHANGED paused /\ NoAttempt
          \/ ~silent[i] /\ Refused(i) /\ step' = 0 /\ locked' = TRUE
          \/ Unavailable /\ UNCHANGED checked /\ NoAttempt
    /\ UNCHANGED <<silent, interaction, prompted, dialog, actions>>

Next ==
    \/ StoreChanges \/ Begin \/ Authorize \/ Answer \/ ReadBack
    \/ \E i \in Items : Access(i)
Spec == Init /\ [][Next]_vars
-----------------------------------------------------------------------------
TypeOK ==
    /\ silent \in [Items -> BOOLEAN] /\ interaction \in BOOLEAN
    /\ prompted \in [Items -> BOOLEAN] /\ paused \in BOOLEAN /\ locked \in BOOLEAN
    /\ step \in 0 .. 4 /\ dialog \in 0 .. 2
    /\ actions \in Nat /\ attempts \in [Items -> Nat] /\ unasked \in Nat /\ checked \subseteq Items

(* Neither start-up nor polling makes an attempt that may open a dialog,    *)
(* and each Settings action makes at most one for each item                 *)
(* (credentials.rs:1-3, SECURITY-HARDENING.md:25-26), however accesses,     *)
(* refusals and cancelled dialogs alternate.                                *)
AskedOnlyOnRequest == unasked = 0 /\ \A i \in Items : attempts[i] <= 1

(* The App is told of an unlocked store only when both items were read in    *)
(* silence after their dialogs: an "Allow" may be temporary                  *)
(* (credentials.rs:174-175).                                                 *)
UnlockVerified == locked /\ ~locked' => checked' = Items
UnlockedIsVerified == [][UnlockVerified]_vars

(* Why: an action has made no attempt at an item it has not prompted for,   *)
(* and the second read-back comes after the first.                          *)
Bookkeeping ==
    /\ \A i \in Items : step # 0 /\ ~prompted[i] => attempts[i] = 0
    /\ dialog # 0 => step = dialog
    /\ step = 4 => Pairing \in checked

(* The invariant of the runs and of the proofs.                             *)
GateSafe == TypeOK /\ AskedOnlyOnRequest /\ Bookkeeping
=============================================================================
