------------------------------ MODULE PetWindow ------------------------------
(***************************************************************************)
(* Where the pets' desks stand (window_layout.rs, App.tsx:672-721).  The   *)
(* window ends below the desks with a tray, cut off as far as it would     *)
(* reach below the work area; the menu changes the height, a panel takes   *)
(* the whole window, and the page saves the place after every move.  A     *)
(* person drags the window to anywhere, over the edges too (App.tsx:1277), *)
(* and the next call that fits a frame brings it back.  Vertical only, one *)
(* display from 0 to Bottom, scale 1, in tens of pixels; no call to the    *)
(* window system fails.                                                    *)
(***************************************************************************)
EXTENDS Integers

CONSTANTS Bottom,   \* of the work area
          Heights,  \* of the pets' frame, as the menu wraps
          Moves,    \* drags of the pets or of the panel
          Tops      \* where a drag lets go of the window's top

VARIABLES
    win,      \* the window: y, height
    saved,    \* DesktopLayout.0: the pets' frame while a panel is open, or No
    tray,     \* DesktopLayout.1
    stored,   \* windowPositionKey, or NoPlace
    moved,    \* a move the page has not answered
    page,     \* queued calls of a page being loaded: starting, sized, ready
    left,     \* where the person left the desks, and the tray below them
    moves

windowVars == <<win, saved, tray, stored, moved, page, left, moves>>

NoPlace == -(2 * Bottom) - 100
No == [y |-> NoPlace, h |-> 0]
TRAY == 5
PANEL == 56
DEFAULT == 33
Tallest == CHOOSE h \in Heights : \A g \in Heights : g <= h

Clamp(x, low, high) == IF x < low THEN low ELSE IF x > high THEN high ELSE x
Foot(rect) == rect.y + rect.h
Desks == (IF saved = No THEN Foot(win) ELSE Foot(saved)) - tray
Stood(desks, below) == [desks |-> desks, tray |-> below]

\* Rect.fit.
Fit(rect, margin) ==
    LET h == IF rect.h > Bottom - 2 * margin THEN Bottom - 2 * margin ELSE rect.h
    IN  [y |-> Clamp(rect.y, margin, Bottom - margin - h), h |-> h]

\* Mutant: the tray is not part of the anchor.
AnchorOfFoot(rect, t) == Foot(rect) - (32 + TRAY)

\* saved_anchor_y.
Anchor(rect, t) == Foot(rect) - (32 + t)

\* resize_pet.
Resized(rect, h, t) == [y |-> Anchor(rect, t) + 37 - h, h |-> h]

\* Mutant: a frame that was lifted keeps its whole tray.
FittedTrayWhole(rect) == TRAY

\* fit_pet: the tray of the fitted frame.
FittedTray(rect) == Clamp(TRAY - (rect.y - Fit(rect, 0).y), 0, TRAY)

\* place_pet, and the second half of set_pet_size.
Placed(rect) == win' = Fit(rect, 0) /\ tray' = FittedTray(rect)

\* position_initial_pet.
Initial == [y |-> Bottom - DEFAULT - 2 + TRAY, h |-> DEFAULT]
InitialDesks == Foot(Initial) - TRAY

\* A place from disk, with as much of the tray as the work area shows.
StoodAt(desks) == Stood(desks, Clamp(Bottom - desks, 0, TRAY))

Init ==
    /\ win = Fit(Initial, 0) /\ tray = FittedTray(Initial)
    /\ saved = No /\ stored = NoPlace /\ moved = FALSE /\ page = "starting"
    /\ left = StoodAt(InitialDesks) /\ moves = 0

\* Only a page that is ready listens.
Moved(y) == moved' = (moved \/ (page = "ready" /\ y # win.y))

\* With another height, or only another width.
SetPetSize(h, widths) ==
    /\ page' = IF page = "starting" THEN "sized" ELSE page
    /\ LET rect == IF saved = No THEN win ELSE saved
           next == Resized(rect, h, tray)
       IN  IF rect.h = h /\ widths = "same" THEN UNCHANGED <<win, saved, tray, moved>>
           ELSE IF saved = No THEN Placed(next) /\ Moved(win'.y) /\ UNCHANGED saved
           ELSE saved' = Fit(next, 0) /\ tray' = FittedTray(next) /\ UNCHANGED <<win, moved>>
    /\ UNCHANGED <<stored, left, moves>>

\* restore_pet_position, unless a panel is open by now; then the page listens.
Restore ==
    /\ page = "sized" /\ page' = "ready"
    /\ IF stored = NoPlace \/ saved # No THEN UNCHANGED <<win, tray>>
       ELSE Placed([y |-> stored + 37 - win.h, h |-> win.h])
    /\ UNCHANGED <<saved, stored, moved, left, moves>>

\* onMoved: pet_window_position, and what it answers is stored.
Save ==
    /\ moved /\ moved' = FALSE
    /\ stored' = Anchor(IF saved = No THEN win ELSE saved, tray)
    /\ UNCHANGED <<win, saved, tray, page, left, moves>>

\* The panel of a person who is quicker than the page is left out.
OpenPanel ==
    /\ saved = No /\ page = "ready"
    /\ saved' = win /\ win' = Fit([win EXCEPT !.h = PANEL], 1) /\ Moved(win'.y)
    /\ UNCHANGED <<tray, stored, page, left, moves>>

ClosePanel ==
    /\ saved # No
    /\ saved' = No /\ win' = Fit(saved, 0) /\ Moved(win'.y)
    /\ UNCHANGED <<tray, stored, page, left, moves>>

Drag(y) ==
    /\ page = "ready" /\ moves < Moves /\ moves' = moves + 1
    /\ y # win.y
    /\ win' = [win EXCEPT !.y = y] /\ Moved(y)
    /\ left' = IF saved = No THEN Stood(Foot(win') - tray, tray) ELSE left
    /\ UNCHANGED <<saved, tray, stored, page>>

\* The application stops and starts again, at any time.  A move that was not
\* saved is lost.
Restart ==
    /\ page = "ready"
    /\ win' = Fit(Initial, 0) /\ tray' = FittedTray(Initial)
    /\ saved' = No /\ moved' = FALSE /\ page' = "starting"
    /\ left' = IF stored = NoPlace THEN StoodAt(InitialDesks)
               ELSE IF moved THEN StoodAt(stored + 32) ELSE left
    /\ UNCHANGED <<stored, moves>>

Next ==
    \/ \E h \in Heights, widths \in {"same", "differ"} : SetPetSize(h, widths)
    \/ \E y \in Tops : Drag(y)
    \/ Restore \/ Save \/ OpenPanel \/ ClosePanel \/ Restart

Spec == Init /\ [][Next]_windowVars
-----------------------------------------------------------------------------
TypeOK ==
    /\ win.y \in Tops \cup 0 .. Bottom /\ win.h \in Heights \cup {PANEL, DEFAULT}
    /\ tray \in 0 .. TRAY /\ moved \in BOOLEAN /\ moves \in 0 .. Moves
    /\ page \in {"starting", "sized", "ready"}

(* Where the frame on desks that were left stays in the work area at every  *)
(* height, the desks stay; where it does not, they are moved no further     *)
(* than to where it is: up until the tray they were left with is on the     *)
(* screen, down until the tallest frame is.                                 *)
Kept(d) ==
    /\ d >= left.desks \/ d >= Bottom - left.tray
    /\ d <= left.desks \/ d <= Tallest - left.tray

(* The desks stand where the person left them, over any sequence of wrapped *)
(* menus, panels, sizes changed under a panel and restarts                  *)
(* (window_layout.rs:288-289: "Resizing trims the TOP, never moves the      *)
(* desks"; App.tsx:700-709); past the edges, see Kept.                      *)
DesksStay == page = "ready" => Kept(Desks)

(* The place on disk is theirs, too, once the page has answered every move. *)
PlaceIsStored == page = "ready" /\ ~moved /\ stored # NoPlace => Kept(stored + 32)

(* The invariant of the runs: the desks and their place on disk.            *)
WindowSafe == TypeOK /\ DesksStay /\ PlaceIsStored
=============================================================================
