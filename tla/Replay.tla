------------------------------- MODULE Replay -------------------------------
(***************************************************************************)
(* Playing back the partner's days: start, seek and stop of                *)
(* src/history/useOperationHistory.ts.  Each start makes a run of its own, *)
(* which goes on after it was stopped or replaced until it looks at its    *)
(* generation; every step below is the code between two awaits.            *)
(*                                                                         *)
(* The recordings are numbered in the order of their times, but may arrive *)
(* in any order; each lasts one unit of time (10 s) and belongs to a day   *)
(* of the partner's calendar.  Pausing, the length of a wait and the end   *)
(* of the retention are left out.                                          *)
(***************************************************************************)
EXTENDS Integers, FiniteSets, FiniteSetsExt

CONSTANTS
    Frames,  \* how many recordings there may be
    At,      \* when each began
    DayOf,   \* the day of each, by the offset it was recorded with
    MaxRuns  \* starts

VARIABLES
    known,       \* recordings scanned so far
    generation,  \* generation.current
    session,     \* session.current
    playingDay,  \* the recordings of the day on the bar, {} when none
    display,     \* the recording whose activity the pup shows
    seen,        \* the stored watermark: the last recording of a day, or 0
    runs,        \* the runs that have not returned
    watched      \* history: recordings shown, or skipped by a seek

vars == <<known, generation, session, playingDay, display, seen, runs, watched>>

Nothing == 0
Resting == Frames + 1

Init ==
    /\ known = {} /\ generation = 0 /\ session = FALSE
    /\ playingDay = {} /\ display = Nothing /\ seen = 0 /\ runs = {} /\ watched = {}

Valid(r) == r.token = generation
Become(r, s) == runs' = (runs \ {r}) \cup {s}
Return(r) == runs' = runs \ {r}

\* groupReplayDays: those of the recordings that were scanned.
Days(all) == {{f \in all : DayOf[f] = d} : d \in {DayOf[f] : f \in all}}
First(days) == CHOOSE day \in days : \A other \in days : Min(day) <= Min(other)
Newest(days) == CHOOSE day \in days : \A other \in days : Min(day) >= Min(other)

\* unseenMs, and less than a minute of it is not worth a notice.
MIN_UNSEEN == 6
End(day) == At[Max(day)] + 1
From(day) == IF seen = 0 THEN At[Min(day)] ELSE Max({At[Min(day)], At[seen]})
Unseen(all) == {day \in Days(all) : End(day) - From(day) >= MIN_UNSEEN}

\* A thousandth of the day is left: dayProgress >= 0.999.
AtEnd(day) == 1000 * (End(day) - From(day)) <= End(day) - At[Min(day)]

Chosen(r) ==
    IF r.request = "unseen" /\ Unseen(r.all) # {} THEN First(Unseen(r.all)) ELSE Newest(Days(r.all))

\* A recording that arrives late has its original time.
Scan ==
    /\ \E f \in (1 .. Frames) \ known : known' = known \cup {f}
    /\ UNCHANGED <<generation, session, playingDay, display, seen, runs, watched>>

Stopped == generation' = generation + 1 /\ session' = FALSE /\ playingDay' = {}

Run(request, day, left) ==
    [token |-> generation + 1, request |-> request, all |-> known, day |-> day, left |-> left,
     shown |-> Nothing, pc |-> "open"]

\* start, up to historySeen.
Begin(request, day, left) ==
    /\ generation < MaxRuns
    /\ session' = TRUE
    /\ generation' = generation + 1
    /\ runs' = runs \cup {Run(request, day, left)}

\* The notice asks for what is unseen, the menu for the newest day if none is.
Press ==
    /\ known # {} \/ session
    /\ IF session THEN Stopped /\ UNCHANGED runs
       ELSE (\E request \in {"unseen", "newest"} : Begin(request, {}, {})) /\ UNCHANGED playingDay
    /\ UNCHANGED <<known, display, seen, watched>>

\* To any moment of the day on the bar: a recording or the rest before it, or
\* the end.
Seek ==
    /\ session /\ playingDay # {}
    /\ \E f \in playingDay \cup {Resting} :
           /\ Begin("seek", playingDay, {g \in playingDay : g >= f})
           /\ watched' = watched \cup {g \in playingDay : g < f}
    /\ UNCHANGED <<known, playingDay, display, seen>>

\* The day is chosen after the watermark was read.
Open(r) ==
    /\ r.pc = "open"
    /\ IF ~Valid(r) THEN Return(r) /\ UNCHANGED playingDay
       ELSE LET day == IF r.request = "seek" THEN r.day ELSE Chosen(r)
                left == IF r.request = "seek" THEN r.left
                        ELSE IF r.request = "unseen" /\ ~AtEnd(day) THEN {f \in day : f > seen} ELSE day
            IN /\ playingDay' = day
               /\ Become(r, [r EXCEPT !.day = day, !.left = left, !.pc = "read"])
    /\ UNCHANGED <<known, generation, session, display, seen, watched>>

\* Mutant: a run is not asked for its generation at the end.
EndsUnchecked(r) == TRUE

\* The watermark is written by a run that was not stopped.
Ends(r) == Valid(r)

\* The loop over the frames is left.
LeaveLoop(r) == IF Ends(r) THEN Become(r, [r EXCEPT !.pc = "mark"]) ELSE Return(r)

\* Three minutes without a recording are a rest.
REST_GAP == 18
AfterRest(day, f) ==
    LET before == {g \in day : g < f} IN before # {} /\ At[f] - At[Max(before)] > REST_GAP

\* The next frame was read: nothing is checked before the rest is presented.
\* A seek may have gone to the frame itself.
Read(r) ==
    /\ r.pc = "read" /\ r.left # {}
    /\ \/ /\ AfterRest(r.day, Min(r.left))
          /\ display' = Resting /\ Become(r, [r EXCEPT !.pc = "rest", !.shown = Resting])
       \/ /\ ~AfterRest(r.day, Min(r.left)) \/ (r.request = "seek" /\ r.shown = Nothing)
          /\ UNCHANGED display /\ Become(r, [r EXCEPT !.pc = "walk"])
    /\ UNCHANGED <<known, generation, session, playingDay, seen, watched>>
ReadEnd(r) ==
    /\ r.pc = "read" /\ r.left = {}
    /\ LeaveLoop(r)
    /\ UNCHANGED <<known, generation, session, playingDay, display, seen, watched>>

Rested(r) ==
    /\ r.pc = "rest"
    /\ IF Valid(r) THEN Become(r, [r EXCEPT !.pc = "walk"]) ELSE LeaveLoop(r)
    /\ UNCHANGED <<known, generation, session, playingDay, display, seen, watched>>

\* advanceTo has come to the frame.
Walked(r) ==
    /\ r.pc = "walk"
    /\ LET f == Min(r.left)
       IN IF Valid(r)
          THEN /\ display' = f /\ watched' = watched \cup {f}
               /\ Become(r, [r EXCEPT !.shown = f, !.left = @ \ {f}, !.pc = "show"])
          ELSE LeaveLoop(r) /\ UNCHANGED <<display, watched>>
    /\ UNCHANGED <<known, generation, session, playingDay, seen>>

\* The transition has ended, or taken too long; a gesture was played, too.
Shown(r) ==
    /\ r.pc = "show"
    /\ IF Valid(r) THEN Become(r, [r EXCEPT !.pc = "read"]) ELSE LeaveLoop(r)
    /\ UNCHANGED <<known, generation, session, playingDay, display, seen, watched>>

\* Mutant: whichever run ends stops what is playing.
LeaveUnchecked(r) == Return(r) /\ Stopped

\* Mutant: the last run leaves the session open.
LeaveOpen(r) == Return(r) /\ UNCHANGED <<generation, session, playingDay>>

\* The finally block.
Leave(r) ==
    /\ Return(r)
    /\ IF Valid(r) THEN Stopped ELSE UNCHANGED <<generation, session, playingDay>>

Marked(r) ==
    /\ r.pc = "mark"
    /\ seen' = Max({seen, Max(r.day)})
    /\ Leave(r)
    /\ UNCHANGED <<known, display, watched>>
\* A read or a write of the database fails.
Fails(r) ==
    /\ r.pc \in {"open", "read", "mark"}
    /\ Leave(r)
    /\ UNCHANGED <<known, display, seen, watched>>

Step(r) ==
    \/ Open(r) \/ Read(r) \/ ReadEnd(r) \/ Rested(r) \/ Walked(r) \/ Shown(r) \/ Marked(r)

Next ==
    \/ Scan \/ Press \/ Seek
    \/ \E r \in runs : Step(r) \/ Fails(r)

\* Timers and the database answer every run.
Progress == \A t \in 1 .. MaxRuns : WF_vars(\E r \in runs : r.token = t /\ Step(r))
Spec == Init /\ [][Next]_vars
FairSpec == Spec /\ Progress
-----------------------------------------------------------------------------
TypeOK ==
    /\ known \subseteq 1 .. Frames /\ seen \in 0 .. Frames /\ session \in BOOLEAN
    /\ playingDay \subseteq known /\ watched \subseteq known
    /\ display \in 0 .. Resting
    /\ \A r \in runs : r.token \in 1 .. generation /\ r.left \subseteq r.day

(* What the button toggles is what plays: a session is open exactly while   *)
(* one run holds the current generation, however starts, seeks, stops and   *)
(* ends of replaced runs follow one another.                                *)
SessionIsLive ==
    /\ session <=> \E r \in runs : Valid(r)
    /\ Cardinality({r \in runs : Valid(r)}) <= 1

(* A run writes the watermark only when each recording of its day that the  *)
(* watermark now comes to cover was shown, or skipped on the bar: a run     *)
(* that was stopped, replaced or failed marks nothing                       *)
(* (useOperationHistory.ts:296: "Watched to the end of the day: its notice  *)
(* goes away").  Recordings of other days, and those that arrive after the  *)
(* run began, may be covered unwatched: one watermark serves all days.      *)
SeenWasWatched == \A r \in runs : r.pc = "mark" => {f \in r.day : f > seen} \subseteq watched

(* Every playback ends, also when a transition on screen never does.        *)
PlaybackEnds == session ~> ~session

(* The invariant of the runs: one playback, and what it marks it has shown.  *)
ReplaySafe == TypeOK /\ SessionIsLive /\ SeenWasWatched
=============================================================================
