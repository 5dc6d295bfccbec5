-------------------------------- MODULE Desk --------------------------------
(***************************************************************************)
(* The parts of the pets' window, each on its own.  They share no state    *)
(* that a property speaks of, so a behaviour is one of a single part,      *)
(* chosen at the start.                                                    *)
(***************************************************************************)
EXTENDS Integers, FiniteSets

CONSTANTS
    MaxActions,                                              \* AccessGate
    DayHours, WeekDays, MonthDays, MonthStep, KeepDays,      \* Statistics
    UsualActive, PriorDays, InputDays, UsualMin, HistoryDays,
    Zones, LastHour, MaxRecords,
    Length, MaxTimers, MaxTime,                              \* Pomodoro
    Last, News,                                              \* Updates
    Scenes,                                                  \* Scene
    Sheets, Bytes, Budget, MaxLoads, MaxHeld,                \* SpriteCache
    MaxCups, MaxCupFaults,                                   \* Cups
    MaxMouseFaults, MaxPosted,                               \* Pointer
    Bottom, Heights, Drags, Tops,                            \* PetWindow
    MaxTAFaults, MaxChanges, MaxMail, Patience,              \* Presence
    Transits, Windows, Warm, MaxSamples,                     \* Playout
    Frames, RecordedAt, CalendarDay, MaxRuns                 \* Replay

\* A pomodoro takes some time; timers and time are bounds of the model.
ASSUME PomodoroAssumption ==
    Length \in Nat \ {0} /\ MaxTimers \in Nat /\ MaxTime \in Nat
\* Versions are numbered from 0 to the last.
ASSUME LastAssumption == Last \in Nat
\* The panel (560 pixels) and every frame fit the work area, and of the rows
\* the menu wraps to, some number is the largest, no less than one.  A drag
\* leaves some of the window on the screen.
ASSUME WindowAssumption ==
    /\ Bottom \in Nat /\ Bottom >= 58 /\ Drags \in Nat
    /\ Heights \subseteq 1 .. Bottom /\ Tops \subseteq -Bottom .. Bottom
    /\ \E h \in Heights : h >= 33 /\ \A g \in Heights : g <= h

\* Buckets are kept longer than a month is shown and growth looks back, and
\* a usual day is some time in front of the computer.
ASSUME StatisticsAssumption ==
    /\ DayHours \in Nat \ {0} /\ MonthStep \in Nat \ {0} /\ KeepDays \in Nat \ {0}
    /\ WeekDays \in 1 .. KeepDays /\ MonthDays \in 1 .. KeepDays /\ HistoryDays \in 0 .. KeepDays - 1
    /\ UsualActive \in Nat \ {0} /\ PriorDays \in Nat \ {0} /\ InputDays \in Nat \ {0} /\ UsualMin \in Nat
    /\ Zones \subseteq Int /\ LastHour \in Nat /\ MaxRecords \in Nat \ {0}

\* Pulses take milliseconds, and some sample is kept.
ASSUME PlayoutAssumption ==
    Transits \subseteq Int /\ Windows \in Nat /\ MaxSamples \in Nat \ {0}
ASSUME FramesAssumption == Frames \in Nat
\* A call waits in the session queue for a time.
ASSUME PresenceAssumption == MaxMail \in Nat /\ Patience \in Nat

VARIABLES
    part,
    silent, interaction, prompted, denied, step, dialog, locked, actions, attempts, unasked, checked,
    clock, zone, disk, mem, flush, noted,
    now, up, asleep, started, timer, stored, read, counts, ended, missed,
    published, installed, first, ran, seen, news, told, starting, busy, pending, handles,
    autoInstall, quiet,
    desired, displayed, transition, sheet, typing, unseen, kept,
    entries, touched, loading, nameOf, held, resolved, live, constrained,
    sent, self, partner, drinking, cupMail, broken, cupFaults,
    over, button, native, applied, calls, posted, tracker, grips, through, mouseFaults,
    pressed, drag, clicks, suppress, pinned, holds,
    win, frame, tray, place, moved, page, left, moves,
    running, mine, effects, queue, mail, theirs, age, online, ago, faults, changes,
    samples, offset, lastWindow, arrived, heard, played,
    known, generation, session, playingDay, display, watermark, runs, watched

Gate == INSTANCE AccessGate WITH paused <- denied
Stats == INSTANCE Statistics WITH now <- clock, saved <- disk
Timer == INSTANCE Pomodoro
Updater == INSTANCE Updates
Pup == INSTANCE Scene WITH paused <- unseen
Sprites == INSTANCE SpriteCache
Cup == INSTANCE Cups WITH MaxFaults <- MaxCupFaults, faults <- cupFaults, mail <- cupMail
Mouse == INSTANCE Pointer WITH
    MaxFaults <- MaxMouseFaults, faults <- mouseFaults, pressed <- button, holds <- grips
Dragging == INSTANCE PetDrag
Window == INSTANCE PetWindow WITH stored <- place, saved <- frame, Moves <- Drags
TA == INSTANCE Presence WITH MaxFaults <- MaxTAFaults
Paws == INSTANCE Playout WITH History <- MaxSamples
Player == INSTANCE Replay WITH seen <- watermark, At <- RecordedAt, DayOf <- CalendarDay

gateVars == <<silent, interaction, prompted, denied, step, dialog, locked, actions,
  attempts, unasked, checked>>
statsVars == <<clock, zone, disk, mem, flush, noted>>
pomodoroVars == <<now, up, asleep, started, timer, stored, read, counts, ended, missed>>
updatesVars == <<published, installed, first, ran, seen, news, told, starting, busy,
  pending, handles, autoInstall, quiet>>
sceneVars == <<desired, displayed, transition, sheet, typing, unseen, kept>>
cacheVars == <<entries, touched, loading, nameOf, held, resolved, live, constrained>>
cupsVars == <<sent, self, partner, drinking, cupMail, broken, cupFaults>>
pointerVars == <<over, button, native, applied, calls, posted, tracker, grips, through,
  mouseFaults>>
dragVars == <<pressed, drag, clicks, suppress, pinned, holds>>
windowVars == <<win, frame, tray, place, moved, page, left, moves>>
presenceVars == <<running, mine, effects, queue, mail, theirs, age, online, ago, faults,
  changes>>
playoutVars == <<samples, offset, lastWindow, arrived, heard, played>>
replayVars == <<known, generation, session, playingDay, display, watermark, runs,
  watched>>

Parts == {"gate", "stats", "pomodoro", "updates", "scene", "cache", "cups", "pointer", "drag", "window", "presence", "playout", "replay"}

deskVars ==
    <<part, gateVars, statsVars, pomodoroVars, updatesVars, sceneVars, cacheVars,
      cupsVars, pointerVars, dragVars, windowVars, presenceVars, playoutVars, replayVars>>

(* The parts that are not chosen have one initial state.                    *)
Init ==
    /\ part \in Parts
    /\ Gate!Init
    /\ Stats!Init
    /\ Timer!Init
    /\ Updater!Init
    /\ Pup!Init
    /\ Sprites!Init
    /\ Cup!Init
    /\ Mouse!Init
    /\ Dragging!Init
    /\ Window!Init
    /\ TA!Init
    /\ Paws!Init
    /\ Player!Init
    /\ part = "gate" \/ (interaction /\ \A item \in DOMAIN silent : silent[item])
    /\ part = "stats" \/ (disk.version = 1 /\ zone = 0)
    /\ part = "updates" \/ ran

Others(p) ==
    /\ part' = part
    /\ IF p = "gate" THEN TRUE ELSE UNCHANGED gateVars
    /\ IF p = "stats" THEN TRUE ELSE UNCHANGED statsVars
    /\ IF p = "pomodoro" THEN TRUE ELSE UNCHANGED pomodoroVars
    /\ IF p = "updates" THEN TRUE ELSE UNCHANGED updatesVars
    /\ IF p = "scene" THEN TRUE ELSE UNCHANGED sceneVars
    /\ IF p = "cache" THEN TRUE ELSE UNCHANGED cacheVars
    /\ IF p = "cups" THEN TRUE ELSE UNCHANGED cupsVars
    /\ IF p = "pointer" THEN TRUE ELSE UNCHANGED pointerVars
    /\ IF p = "drag" THEN TRUE ELSE UNCHANGED dragVars
    /\ IF p = "window" THEN TRUE ELSE UNCHANGED windowVars
    /\ IF p = "presence" THEN TRUE ELSE UNCHANGED presenceVars
    /\ IF p = "playout" THEN TRUE ELSE UNCHANGED playoutVars
    /\ IF p = "replay" THEN TRUE ELSE UNCHANGED replayVars

Next ==
    \/ part = "gate" /\ Gate!Next /\ Others("gate")
    \/ part = "stats" /\ Stats!Next /\ Others("stats")
    \/ part = "pomodoro" /\ Timer!Next /\ Others("pomodoro")
    \/ part = "updates" /\ Updater!Next /\ Others("updates")
    \/ part = "scene" /\ Pup!Next /\ Others("scene")
    \/ part = "cache" /\ Sprites!Next /\ Others("cache")
    \/ part = "cups" /\ Cup!Next /\ Others("cups")
    \/ part = "pointer" /\ Mouse!Next /\ Others("pointer")
    \/ part = "drag" /\ Dragging!Next /\ Others("drag")
    \/ part = "window" /\ Window!Next /\ Others("window")
    \/ part = "presence" /\ TA!Next /\ Others("presence")
    \/ part = "playout" /\ Paws!Next /\ Others("playout")
    \/ part = "replay" /\ Player!Next /\ Others("replay")

(* What the parts justify: answers come, promises settle, timers fire.      *)
Fairness ==
    /\ WF_updatesVars(part = "updates" /\ (Updater!Checked \/ Updater!CheckFails))
    /\ WF_updatesVars(part = "updates" /\ (Updater!Installed \/ Updater!InstallFails))
    /\ WF_sceneVars(part = "scene" /\ Pup!Settle) /\ WF_sceneVars(part = "scene" /\ (Pup!Loaded \/ Pup!LoadFails))
    /\ WF_sceneVars(part = "scene" /\ Pup!LoopBoundary) /\ WF_sceneVars(part = "scene" /\ Pup!Complete)
    /\ \A c \in {"pixel", "held", "through"} : WF_pointerVars(part = "pointer" /\ (Mouse!Store(c) \/ Mouse!Post(c)))
    /\ WF_pointerVars(part = "pointer" /\ Mouse!Apply) /\ WF_pointerVars(part = "pointer" /\ Mouse!Probe)
    /\ WF_pointerVars(part = "pointer" /\ Mouse!Captured) /\ WF_pointerVars(part = "pointer" /\ Mouse!Held)
    /\ WF_presenceVars(part = "presence" /\ TA!Run) /\ WF_presenceVars(part = "presence" /\ TA!Deliver)
    /\ WF_presenceVars(part = "presence" /\ TA!Poll) /\ WF_presenceVars(part = "presence" /\ TA!Tick)
    /\ \A t \in 1 .. MaxRuns : WF_replayVars(part = "replay" /\ (\E r \in runs : r.token = t /\ Player!Step(r)))

Spec == Init /\ [][Next]_deskVars /\ Fairness
-----------------------------------------------------------------------------
(* An access that may open dialogs is attempted only in an action of the    *)
(* Settings, once for each item, over any sequence of background failures   *)
(* (AccessGate).                                                            *)
GateSafe == part = "gate" => Gate!GateSafe

(* Every bar of the statistics is the sum of its local days, and nothing    *)
(* recorded waits without a timer to write it (Statistics).                 *)
StatisticsSafe == part = "stats" => Stats!StatisticsSafe

(* A pomodoro counts once, and each one that ended counts (Pomodoro).       *)
PomodoroSafe == part = "pomodoro" => Timer!PomodoroSafe

(* The handles of the updater are not lost, and what was told is not told   *)
(* again (Updates).                                                         *)
UpdatesSafe == part = "updates" => Updater!UpdatesSafe

(* A leased sheet stays, no bitmap leaks, and the budget holds              *)
(* (SpriteCache).                                                           *)
CacheSafe == part = "cache" => Sprites!CacheSafe

(* Both apps show the same cups (Cups).                                     *)
CupsAgree == part = "cups" => Cup!CupsAgree

(* The window takes clicks exactly when the flags say so (Pointer).         *)
PolicyApplied == part = "pointer" => Mouse!PolicyApplied

(* The desks stand where they were left, wherever on the screen or past its *)
(* edge that was, as far as the frame fits the work area, on the screen and *)
(* on disk (PetWindow), and a drag that ended does not hold the pointer     *)
(* (PetDrag).                                                               *)
WindowSafe ==
    /\ part = "window" => Window!WindowSafe
    /\ part = "drag" => Dragging!HoldEnds

(* Work that has ended is not shown for longer than 90 s and the time a     *)
(* heartbeat waited in the session queue (Presence).                        *)
GoneIsIdle == part = "presence" => TA!GoneIsIdle

(* At most one run plays, and a run marks its day as seen only when each    *)
(* recording of it was shown, or skipped on the bar (Replay).               *)
ReplaySafe == part = "replay" => Player!ReplaySafe

(* What no step may do: unlock what was not read back (AccessGate), shrink  *)
(* the pup during a day (Statistics), pin the menu by a drag (PetDrag),     *)
(* play the paws backwards (Playout).                                       *)
StepsSafe ==
    [][ /\ part = "gate" => Gate!UnlockVerified
        /\ part = "stats" => Stats!Grows
        /\ part = "drag" => Dragging!NoPin
        /\ part = "playout" => Paws!PlaysLater ]_deskVars

(* What must come in the end: a check of updates ends (Updates), the scene  *)
(* wanted shows (Scene), clicks pass (Pointer), what I choose comes to TA   *)
(* (Presence), a playback ends (Replay).                                    *)
Settles ==
    /\ Updater!ComesFree
    /\ Pup!ShowsIt
    /\ Mouse!NoShield
    /\ TA!ComesThrough
    /\ Player!PlaybackEnds
=============================================================================
