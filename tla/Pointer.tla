------------------------------- MODULE Pointer -------------------------------
(***************************************************************************)
(* Who gets a click: the pets or the windows underneath (pointer.rs,       *)
(* pixelPointer.ts, usePixelPointer.ts, the panels and menus of App.tsx).  *)
(* A command stores its flag, then posts a closure to the main thread,     *)
(* which applies all flags as they are by then; commands of different      *)
(* callers overtake one another.  The window system obeys                  *)
(* set_ignore_cursor_events; the pixels hit are external.                  *)
(***************************************************************************)
EXTENDS Naturals, Sequences

CONSTANTS MaxFaults,  \* failed samples and commands
          MaxPosted   \* closures waiting for the main thread

VARIABLES
    over, pressed,   \* the pointer: on something visible, a button down
    native,          \* PointerPolicy: pixel, held, panel, through
    applied,         \* does the window take clicks
    calls,           \* commands of each caller: what, its value, and what is left to do
    posted,          \* closures on the main thread, with what was true when they were posted
    tracker,         \* trackPixelPointer: whether it runs, captured, what it awaits
    holds,           \* holdPetPointer: values waiting in the queue
    through,         \* App: clickThrough
    faults

vars == <<over, pressed, native, applied, calls, posted, tracker, holds, through, faults>>
world == <<over, pressed>>
page == <<tracker, holds, through>>

Flags == {"pixel", "held", "panel", "through"}
Callers == {"pixel", "held", "through"}
Call(value) == [at |-> "store", value |-> value]
NoCall == [at |-> "none", value |-> FALSE]
Unknown == "unknown"
Hit == IF over THEN "on" ELSE "off"

\* captures.
Captures(p) == ~p.through /\ (p.pixel \/ p.held \/ p.panel)

Init ==
    /\ over = FALSE /\ pressed = FALSE
    /\ native = [c \in Flags |-> FALSE] /\ applied = FALSE
    /\ calls = [c \in Callers |-> NoCall] /\ posted = <<>>
    /\ tracker = [on |-> TRUE, captured |-> Unknown, awaits |-> "none"]
    /\ holds = <<>> /\ through = FALSE /\ faults = 0

Moves ==
    /\ over' = ~over
    /\ UNCHANGED <<pressed, native, applied, calls, posted, page, faults>>

\* A command's first half; click-through forgets the pixel, too.
Store(c) ==
    /\ calls[c].at = "store"
    /\ native' = IF c = "through" /\ calls[c].value
                 THEN [native EXCEPT !.through = TRUE, !.pixel = FALSE]
                 ELSE [native EXCEPT ![c] = calls[c].value]
    /\ calls' = [calls EXCEPT ![c] = [at |-> "post", value |-> FALSE]]
    /\ UNCHANGED <<world, page, applied, posted, faults>>

\* refresh; run_on_main_thread may fail.  Only the tracker does anything with
\* the answer.
Post(c) ==
    /\ calls[c].at = "post" /\ Len(posted) < MaxPosted
    /\ \/ posted' = Append(posted, Captures(native)) /\ UNCHANGED faults
          /\ calls' = IF c = "pixel" THEN [calls EXCEPT ![c].at = "answered"]
                      ELSE [calls EXCEPT ![c] = NoCall]
       \/ c = "pixel" /\ faults < MaxFaults /\ faults' = faults + 1 /\ UNCHANGED posted
          /\ calls' = [calls EXCEPT ![c].at = "failed"]
    /\ UNCHANGED <<world, page, native, applied>>

\* Mutant: the closure carries what its command decided.
DecisionPosted == Head(posted)

\* The policy is read on the main thread.
Decision == Captures(native)

Apply ==
    /\ posted # <<>>
    /\ applied' = Decision
    /\ posted' = Tail(posted)
    /\ UNCHANGED <<world, page, native, calls, faults>>

(* trackPixelPointer: one probe at a time.                                 *)

Probe ==
    /\ tracker.on /\ tracker.awaits = "none" /\ calls["pixel"] = NoCall
    /\ IF tracker.captured = Hit THEN UNCHANGED <<tracker, calls>>
       ELSE /\ calls' = [calls EXCEPT !["pixel"] = Call(over)]
            /\ tracker' = [tracker EXCEPT !.awaits = Hit]
    /\ UNCHANGED <<world, native, applied, posted, holds, through, faults>>

\* Mutant: after a failure nothing is taken back.
RecoverNothing ==
    /\ calls' = [calls EXCEPT !["pixel"] = NoCall]
    /\ tracker' = [tracker EXCEPT !.awaits = "none"]

\* The catch handler.
Recover ==
    /\ calls' = [calls EXCEPT !["pixel"] = Call(FALSE)]
    /\ tracker' = [tracker EXCEPT !.awaits = Unknown]

ProbeFails ==
    /\ tracker.on /\ tracker.awaits = "none" /\ calls["pixel"] = NoCall
    /\ faults < MaxFaults /\ faults' = faults + 1
    /\ Recover
    /\ UNCHANGED <<world, native, applied, posted, holds, through>>

Captured ==
    /\ \/ /\ calls["pixel"].at = "answered" /\ calls' = [calls EXCEPT !["pixel"] = NoCall]
          /\ tracker' = [tracker EXCEPT !.awaits = "none",
                                        !.captured = IF tracker.on THEN tracker.awaits ELSE @]
       \/ /\ calls["pixel"].at = "failed"
          /\ IF tracker.on /\ tracker.awaits # Unknown THEN Recover
             ELSE /\ calls' = [calls EXCEPT !["pixel"] = NoCall]
                  /\ tracker' = [tracker EXCEPT !.awaits = "none", !.captured = Unknown]
    /\ UNCHANGED <<world, native, applied, posted, holds, through, faults>>

(* holdPetPointer: its calls wait for one another.                         *)

Hold(held) == holds' = Append(holds, held)

Held ==
    /\ holds # <<>> /\ calls["held"] = NoCall
    /\ holds' = Tail(holds) /\ calls' = [calls EXCEPT !["held"] = Call(Head(holds))]
    /\ UNCHANGED <<world, native, applied, posted, tracker, through, faults>>

\* Presses reach the page while the window takes clicks.
Press ==
    /\ ~pressed /\ over /\ applied /\ Len(holds) < 2
    /\ pressed' = TRUE /\ Hold(TRUE)
    /\ UNCHANGED <<over, native, applied, calls, posted, tracker, through, faults>>

\* Of a click, or of a drag once startDragging has returned.
Release ==
    /\ pressed /\ Len(holds) < 2
    /\ pressed' = FALSE /\ Hold(FALSE)
    /\ UNCHANGED <<over, native, applied, calls, posted, tracker, through, faults>>

\* set_panel_open, which runs on the main thread: opened or closed by a click
\* or a key, and not while the button is down.
Panel ==
    /\ ~pressed /\ ~through
    /\ native' = [native EXCEPT !.panel = ~@]
    /\ applied' = Captures(native')
    /\ UNCHANGED <<world, page, calls, posted, faults>>

\* The menu of a right click; usePixelPointer is disabled.
ClickThrough ==
    /\ ~through /\ ~native.panel /\ over /\ applied /\ ~pressed /\ Len(holds) < 2
    /\ calls["through"] = NoCall
    /\ through' = TRUE /\ Hold(FALSE)
    /\ calls' = [calls EXCEPT !["through"] = Call(TRUE)]
    /\ tracker' = [tracker EXCEPT !.on = FALSE]
    /\ UNCHANGED <<world, native, applied, posted, faults>>

\* end_click_through, and the event it sends to the page: a person takes longer
\* to open the app than the commands of before take to end.
Reopen ==
    /\ native.through /\ through /\ calls["through"] = NoCall /\ calls["pixel"] = NoCall
    /\ Len(posted) < MaxPosted
    /\ native' = [native EXCEPT !.through = FALSE]
    /\ posted' = Append(posted, Captures(native'))
    /\ through' = FALSE
    /\ calls' = [calls EXCEPT !["through"] = Call(FALSE)]
    /\ tracker' = [on |-> TRUE, captured |-> Unknown, awaits |-> "none"]
    /\ UNCHANGED <<world, applied, holds, faults>>

Next ==
    \/ Moves \/ Press \/ Release
    \/ \E c \in Callers : Store(c) \/ Post(c)
    \/ Apply \/ Probe \/ ProbeFails \/ Captured \/ Held \/ Panel \/ ClickThrough \/ Reopen

Fairness ==
    /\ \A c \in Callers : WF_vars(Store(c) \/ Post(c))
    /\ WF_vars(Apply) /\ WF_vars(Probe) /\ WF_vars(Captured) /\ WF_vars(Held)
Spec == Init /\ [][Next]_vars
FairSpec == Spec /\ Fairness
-----------------------------------------------------------------------------
TypeOK ==
    /\ native \in [Flags -> BOOLEAN] /\ applied \in BOOLEAN
    /\ Len(posted) <= MaxPosted /\ Len(holds) <= 2 /\ faults \in 0 .. MaxFaults

(* When nothing is under way and the last call of the tracker succeeded,    *)
(* the window takes clicks exactly when the flags say so: a slow answer about a transparent pixel never takes them   *)
(* from a panel that has just opened (pointer.rs:33-34).                    *)
PolicyApplied ==
    /\ posted = <<>> /\ tracker.captured # Unknown
    /\ \A c \in Callers : calls[c].at \in {"none", "answered"}
    => applied = Captures(native)

(* No invisible shield: with the pointer off the pets, nothing pressed and  *)
(* no panel, clicks come to go to the windows underneath, whatever failed   *)
(* or overtook another before (pixelPointer.ts:59).                         *)
NoShield ==
    <>[](~over /\ ~pressed /\ ~native.panel) => <>[](~applied)
=============================================================================
