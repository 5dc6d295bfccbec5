------------------------------- MODULE Presence -------------------------------
(***************************************************************************)
(* What TA's screen shows of me: my activity by a heartbeat, my pup's skin *)
(* and my statistics when they change (App.tsx:530-653), through the queue *)
(* of the session to TA's events (companionState.ts).  A call waits there, *)
(* and may fail: it is tried again by a timer or not at all.  An event is  *)
(* dated when its call runs, and from the outbox reaches TA in order       *)
(* (RatchetMailbox), however late; TA's app forgets it with its history.   *)
(* One Tick is 30 s.                                                       *)
(***************************************************************************)
EXTENDS Naturals, Sequences, SequencesExt

CONSTANTS
    MaxFaults,  \* publications that fail
    MaxChanges, \* of activity, skin or visibility, restarts and pairings
    MaxMail,    \* events on their way
    Patience    \* ticks a call may wait in the session queue

VARIABLES
    running,  \* my app
    mine,     \* activity, skin, statisticsVisibility
    effects,  \* delivered, of the effect of each topic
    queue,    \* session queue: topic, value, of the effect that runs now?, ticks waited
    mail,     \* events on their way to TA: topic, value, age
    theirs,   \* the latest event of each topic TA has of this relationship, or None
    age,      \* ticks since createdAt of TA's latest heartbeat
    online,   \* TA's partnerPresence
    ago,      \* ticks since I was at work
    faults, changes

presenceVars == <<running, mine, effects, queue, mail, theirs, age, online, ago, faults, changes>>

None == "none"
Topics == {"activity", "skin", "statistics"}
Values == [activity |-> {"work", "idle"}, skin |-> {"cream", "grey"}, statistics |-> {"partner", "private"}]
STALE == 3

Init ==
    /\ running = TRUE /\ online = TRUE
    /\ mine = [activity |-> "idle", skin |-> "cream", statistics |-> "private"]
    /\ effects = [t \in Topics |-> TRUE]
    /\ queue = <<>> /\ mail = <<>>
    /\ theirs = mine /\ age = 0 /\ ago = STALE + Patience + 1
    /\ faults = 0 /\ changes = 0

Task(t, value) == [topic |-> t, value |-> value, current |-> TRUE, waited |-> 0]
Event(t, value) == [topic |-> t, value |-> value, age |-> 0]
Publish(ts, values) == SetToSeq({Task(t, values[t]) : t \in ts})

\* The effects of these topics start anew; what the old ones queued still runs.
Restarts(ts) ==
    /\ changes < MaxChanges /\ changes' = changes + 1
    /\ effects' = [t \in Topics |-> effects[t] /\ t \notin ts]

Change(t) ==
    /\ running
    /\ \E value \in Values[t] \ {mine[t]} : mine' = [mine EXCEPT ![t] = value]
    /\ Restarts({t})
    /\ queue' = [i \in DOMAIN queue |-> IF queue[i].topic = t THEN [queue[i] EXCEPT !.current = FALSE]
                                        ELSE queue[i]] \o Publish({t}, mine')
    /\ ago' = IF mine'.activity = "work" THEN 0 ELSE ago
    /\ UNCHANGED <<running, mail, theirs, age, online, faults>>

Stop ==
    /\ running /\ running' = FALSE
    /\ queue' = <<>>
    /\ UNCHANGED <<mine, effects, mail, theirs, age, online, ago, faults, changes>>

\* Until the first sample of the input says otherwise, I am at work.
Start ==
    /\ ~running /\ running' = TRUE
    /\ mine' = [mine EXCEPT !.activity = "work"] /\ ago' = 0
    /\ Restarts(Topics)
    /\ queue' = Publish(Topics, mine')
    /\ UNCHANGED <<mail, theirs, age, online, faults>>

\* A new relationship: what was queued under the old one is refused
\* (enqueueEncryptedEvent), and its events are not TA's (partnerEventsFor).
Pair ==
    /\ running
    /\ Restarts(Topics)
    /\ theirs' = [t \in Topics |-> None] /\ mail' = <<>>
    /\ queue' = Publish(Topics, mine)
    /\ UNCHANGED <<running, mine, age, online, ago, faults>>

\* The head of the session queue: into the outbox, or an error.
Run ==
    /\ queue # <<>> /\ queue' = Tail(queue)
    /\ LET task == Head(queue)
       IN  \/ /\ Len(mail) < MaxMail /\ mail' = Append(mail, Event(task.topic, task.value))
              /\ effects' = [effects EXCEPT ![task.topic] = @ \/ task.current]
              /\ UNCHANGED faults
           \/ faults < MaxFaults /\ faults' = faults + 1 /\ UNCHANGED <<mail, effects>>
    /\ UNCHANGED <<running, mine, theirs, age, online, ago, changes>>

Deliver ==
    /\ mail # <<>> /\ mail' = Tail(mail)
    /\ theirs' = [theirs EXCEPT ![Head(mail).topic] = Head(mail).value]
    /\ age' = IF Head(mail).topic = "activity" THEN Head(mail).age ELSE age
    /\ UNCHANGED <<running, mine, effects, queue, online, ago, faults, changes>>

\* TA's app drops what is older than its history may be: 12 hours or more,
\* whose end is left open, but which a heartbeat that counts has not reached.
Prune(t) ==
    /\ theirs[t] # None /\ (t = "activity" => age > STALE)
    /\ theirs' = [theirs EXCEPT ![t] = None]
    /\ UNCHANGED <<running, mine, effects, queue, mail, age, online, ago, faults, changes>>

\* TA's sync answers whether I am connected.
Poll == online' = running /\ UNCHANGED <<running, mine, effects, queue, mail, theirs, age, ago, faults, changes>>

\* Mutant: an undelivered change waits for the next one.
RetriedNever == IF mine.statistics = "partner" THEN {"activity", "statistics"} ELSE {"activity"}

\* The timers: a heartbeat unless one is pending, shared statistics always,
\* the rest until delivered.
Pending == \E i \in DOMAIN queue : queue[i].topic = "activity" /\ queue[i].current
Retried ==
    {t \in Topics : IF t = "activity" THEN ~Pending
                    ELSE ~effects[t] \/ (t = "statistics" /\ mine[t] = "partner")}

Older(n, last) == IF n > last THEN n ELSE n + 1
Waits(task) == [task EXCEPT !.waited = @ + 1]
Ages(event) == [event EXCEPT !.age = Older(@, STALE)]
Tick ==
    /\ \A i \in DOMAIN queue : queue[i].waited < Patience
    /\ queue' = [i \in DOMAIN queue |-> Waits(queue[i])] \o (IF running THEN Publish(Retried, mine) ELSE <<>>)
    /\ mail' = [i \in DOMAIN mail |-> Ages(mail[i])]
    /\ age' = Older(age, STALE)
    /\ ago' = IF running /\ mine.activity = "work" THEN 0 ELSE Older(ago, STALE + Patience)
    /\ UNCHANGED <<running, mine, effects, theirs, online, faults, changes>>

\* Mutant: the last heartbeat stands until another comes.
LiveForever == online

\* companionStates.
Live == online /\ age <= STALE
Shown == IF Live /\ theirs.activity # None THEN theirs.activity ELSE "idle"

Next == (\E t \in Topics : Change(t) \/ Prune(t)) \/ Stop \/ Start \/ Pair \/ Run \/ Deliver \/ Poll \/ Tick
Spec == Init /\ [][Next]_presenceVars
FairSpec ==
    Spec /\ WF_presenceVars(Run) /\ WF_presenceVars(Deliver) /\ WF_presenceVars(Poll) /\ WF_presenceVars(Tick)
-----------------------------------------------------------------------------
TypeOK ==
    /\ running \in BOOLEAN /\ online \in BOOLEAN /\ effects \in [Topics -> BOOLEAN]
    /\ \A t \in Topics : mine[t] \in Values[t] /\ theirs[t] \in Values[t] \cup {None}
    /\ age \in 0 .. STALE + 1 /\ ago \in 0 .. STALE + Patience + 1

(* Work that has ended, by a break, a stop or a failure of every heartbeat, *)
(* is not shown for longer than 90 s (companionState.ts:43-46) and the time *)
(* a heartbeat waited in my queue, however late its event arrives: it is    *)
(* dated when it leaves the queue, and says what was true when it entered.  *)
GoneIsIdle == Shown = "work" => ago <= STALE + Patience

(* What I choose comes to be what TA has, whatever failed before, a choice  *)
(* that is undone does not stay, and statistics made private do not stay on *)
(* TA's screen (App.tsx:617-653).  A skin is sent once: TA's app forgets it *)
(* with its history, and shows the usual one again (companionState.ts:40);  *)
(* what is repeated, the activity and shared statistics, comes back.        *)
ComesThrough ==
    <>[]running =>
        /\ <>[](\A t \in Topics : effects[t] /\ theirs[t] \in {mine[t], None})
        /\ []<>(theirs.activity = mine.activity)
        /\ []<>(mine.statistics = "partner" => theirs.statistics = "partner")
=============================================================================
