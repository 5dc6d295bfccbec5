------------------------------ MODULE Pomodoro ------------------------------
(***************************************************************************)
(* The kitchen timer (src/pomodoro, App.tsx): started by a click, kept in  *)
(* localStorage over a restart, counted when it rings or, when it rang     *)
(* while the app was closed, at the next start.  Time is counted in rings  *)
(* (4 seconds); winding, placing and counting down are one phase.  The     *)
(* effect that counts writes the statistics and removes the timer from     *)
(* storage in one turn of the event loop: one step here.                   *)
(***************************************************************************)
EXTENDS Naturals, Sequences

CONSTANTS
    Length,              \* of a pomodoro
    MaxTimers, MaxTime   \* bounds

VARIABLES
    now,
    up, asleep,     \* does the app run, does the computer sleep
    started,        \* when each pomodoro was started; its place is its id
    timer, stored,  \* the App's pomodoro and the one in localStorage, or None
    read,           \* the instant usePomodoroClock last read
    counts,         \* the statistics: how often each was counted
    ended,          \* history: those the user ended before they were counted
    missed          \* history: those the computer slept through the ring of

vars == <<now, up, asleep, started, timer, stored, read, counts, ended, missed>>

None == 0
Timers == 1 .. MaxTimers
Running == up /\ ~asleep

\* pomodoroPhase.
End(t) == started[t] + Length
Phase(t, at) ==
    IF t = None THEN "over"
    ELSE IF at < End(t) THEN "counting"
    ELSE IF at = End(t) THEN "ringing" ELSE "over"

Init ==
    /\ now = 0 /\ up = TRUE /\ asleep = FALSE /\ started = <<>>
    /\ timer = None /\ stored = None /\ read = 0
    /\ counts = [t \in Timers |-> 0] /\ ended = {} /\ missed = {}

\* Mutant: a pomodoro that was counted stays in storage.
CountKept(t) == counts' = [counts EXCEPT ![t] = @ + 1] /\ UNCHANGED stored

\* recordPomodoroStatistics, savePomodoro(undefined).
Count(t) == counts' = [counts EXCEPT ![t] = @ + 1] /\ stored' = None

\* The effect of a ringing pomodoro; countedPomodoros is what it has removed.
Ring(t, at) ==
    IF Phase(t, at) = "ringing" /\ stored = t THEN Count(t) ELSE UNCHANGED <<stored, counts>>

\* usePomodoroClock, and the render it causes.
Reread ==
    /\ Running /\ timer # None /\ read # now
    /\ read' = now
    /\ Ring(timer, now)
    /\ UNCHANGED <<now, up, asleep, started, timer, ended, missed>>

\* startOrStopPomodoro: what runs is judged by the last render.
Click ==
    /\ Running
    /\ IF Phase(timer, read) # "over"
       THEN /\ timer' = None /\ stored' = None
            /\ ended' = IF counts[timer] = 0 THEN ended \cup {timer} ELSE ended
            /\ UNCHANGED <<started, read>>
       ELSE /\ Len(started) < MaxTimers
            /\ started' = Append(started, now)
            /\ timer' = Len(started') /\ stored' = Len(started')
            /\ read' = now
            /\ UNCHANGED ended
    /\ UNCHANGED <<now, up, asleep, counts, missed>>

Quit ==
    /\ up
    /\ up' = FALSE /\ timer' = None
    /\ UNCHANGED <<now, asleep, started, stored, read, counts, ended, missed>>

\* Mutant: one that rang while the app was closed is not looked for.
AwayIgnored == UNCHANGED <<stored, counts>>

\* finishedWhileAway.
Away == IF stored # None /\ Phase(stored, now) = "over" THEN Count(stored) ELSE Ring(stored, now)

\* The App starts: loadPomodoro, and the effects of its first render.
Start ==
    /\ ~up /\ ~asleep
    /\ up' = TRUE /\ read' = now
    /\ timer' = IF Phase(stored, now) = "over" THEN None ELSE stored
    /\ Away
    /\ UNCHANGED <<now, asleep, started, ended, missed>>

\* The computer goes to sleep with the app, or wakes up.
Doze ==
    /\ asleep' = ~asleep
    /\ UNCHANGED <<now, up, started, timer, stored, read, counts, ended, missed>>

\* The clock is read again at each change of phase.
Tick ==
    /\ now < MaxTime
    /\ Running /\ timer # None => read = now
    /\ now' = now + 1
    /\ missed' = IF asleep THEN missed \cup {t \in 1 .. Len(started) : End(t) = now} ELSE missed
    /\ UNCHANGED <<up, asleep, started, timer, stored, read, counts, ended>>

Next == Reread \/ Click \/ Quit \/ Start \/ Doze \/ Tick
Spec == Init /\ [][Next]_vars
-----------------------------------------------------------------------------
TypeOK ==
    /\ now \in 0 .. MaxTime /\ read \in 0 .. now
    /\ up \in BOOLEAN /\ asleep \in BOOLEAN
    /\ Len(started) <= MaxTimers /\ \A t \in 1 .. Len(started) : started[t] \in 0 .. now
    /\ {timer, stored} \subseteq 0 .. Len(started)
    /\ counts \in [Timers -> Nat] /\ ended \cup missed \subseteq Timers

(* A pomodoro is counted once, whether it rang here, before a restart or    *)
(* while the app was closed, and never when it was ended early              *)
(* (pomodoro.ts:95-98, App.tsx:1359-1378).                                  *)
CountedOnce == \A t \in Timers : counts[t] <= (IF t \in ended THEN 0 ELSE 1)

(* A pomodoro that ran to its end is counted, or will be at the next start  *)
(* because it is still in storage (App.tsx:1359, 1371), unless the computer *)
(* slept while it should have rung.                                         *)
EveryEndCounts ==
    \A t \in 1 .. Len(started) :
        Phase(t, now) = "over" /\ t \notin ended \cup missed => counts[t] >= 1 \/ stored = t

(* The invariant of the runs: each end counts, and counts once.             *)
PomodoroSafe == TypeOK /\ CountedOnce /\ EveryEndCounts
=============================================================================
