------------------------------- MODULE PetDrag -------------------------------
(***************************************************************************)
(* Dragging the window by a pet, and the click the system may make of it   *)
(* (petDrag.ts, and the handlers of App.tsx that pin the menu).  While the *)
(* system moves the window it may swallow the pointerup, and the click may *)
(* come before, after, or not at all.                                      *)
(***************************************************************************)
EXTENDS Naturals, Sequences

VARIABLES
    pressed,           \* the button
    drag,              \* PetDrag: none, pressed (start), dragging
    clicks,            \* clicks not delivered: of a "click" or of a "drag"
    suppress, pinned,  \* suppressPetClick, petMenuPinned
    holds              \* calls of holdPetPointer, in its queue

dragVars == <<pressed, drag, clicks, suppress, pinned, holds>>

Init ==
    /\ pressed = FALSE /\ drag = "none" /\ clicks = <<>>
    /\ suppress = FALSE /\ pinned = FALSE /\ holds = <<>>

\* beginPetDrag.  The system delivers a click before the next press.
Press ==
    /\ ~pressed /\ clicks = <<>> /\ Len(holds) < 3
    /\ pressed' = TRUE /\ holds' = Append(holds, TRUE)
    /\ IF drag = "dragging" THEN UNCHANGED <<drag, suppress>>
       ELSE drag' = "pressed" /\ suppress' = FALSE
    /\ UNCHANGED <<clicks, pinned>>

\* continuePetDrag, past the threshold.
Moves ==
    /\ pressed /\ drag = "pressed"
    /\ drag' = "dragging" /\ suppress' = TRUE /\ pinned' = FALSE
    /\ UNCHANGED <<pressed, clicks, holds>>

\* endPetDrag; during a drag the pointerup is swallowed, or ignored.
LetGo ==
    /\ pressed /\ Len(holds) < 3
    /\ pressed' = FALSE
    /\ IF drag = "dragging"
       THEN clicks' \in {<<>>, <<"drag">>} /\ UNCHANGED <<drag, holds>>
       ELSE /\ drag' = "none" /\ holds' = Append(holds, FALSE)
            /\ clicks' = IF drag = "pressed" THEN <<"click">> ELSE <<>>
    /\ UNCHANGED <<suppress, pinned>>

\* Mutant: the end of the drag ends the suppression, and the hold is left to pointerup.
FinishUnsuppressed == drag' = "none" /\ suppress' = FALSE /\ UNCHANGED holds

\* PetDrag.finish, and what follows it.
Finish == drag' = "none" /\ UNCHANGED suppress /\ holds' = Append(holds, FALSE)

\* startDragging has returned.
DragEnds ==
    /\ drag = "dragging" /\ ~pressed /\ Len(holds) < 3
    /\ Finish
    /\ pinned' = FALSE
    /\ UNCHANGED <<pressed, clicks>>

\* pinPetMenu.
Click ==
    /\ clicks # <<>> /\ clicks' = Tail(clicks)
    /\ pinned' = IF drag = "dragging" \/ suppress THEN pinned ELSE ~pinned
    /\ UNCHANGED <<pressed, drag, suppress, holds>>

\* The native side takes the calls in order; the last stands.
Held ==
    /\ Len(holds) > 1 /\ holds' = Tail(holds)
    /\ UNCHANGED <<pressed, drag, clicks, suppress, pinned>>

Next == Press \/ Moves \/ LetGo \/ DragEnds \/ Click \/ Held
Spec == Init /\ [][Next]_dragVars
-----------------------------------------------------------------------------
TypeOK ==
    /\ {pressed, suppress, pinned} \subseteq BOOLEAN /\ drag \in {"none", "pressed", "dragging"}
    /\ clicks \in {<<>>, <<"click">>, <<"drag">>} /\ holds \in Seq(BOOLEAN) /\ Len(holds) <= 3

(* A drag is never a click: it does not pin the menu, however late the      *)
(* click comes that the system makes of it (petDrag.ts:3-4).                *)
NoPin == clicks = <<"drag">> /\ clicks' = <<>> => (pinned' => pinned)
DragIsNoClick == [][NoPin]_dragVars

(* A window that is not held by a press or a drag is not held natively, or  *)
(* soon will not be, though the drag swallowed the pointerup                *)
(* (usePixelPointer.ts:25, App.tsx:1275-1277).                              *)
HoldEnds == ~pressed /\ drag = "none" /\ holds # <<>> => ~holds[Len(holds)]
=============================================================================
