------------------------------ MODULE LiveRoom ------------------------------
(***************************************************************************)
(* The room of one relationship in the mewlink-live Worker                 *)
(* (live-worker/src/index.ts): it forwards the frames of each device to    *)
(* the other and tells each whether the other is there.                    *)
(*                                                                         *)
(* A handler of the room runs to its end before the next event, because    *)
(* the runtime delivers nothing while storage is awaited; only a renewal,  *)
(* which awaits the check of a signature, lets other events in.  A socket  *)
(* the room has closed is "closing" until its close event is handled.  The *)
(* runtime may list it until then (lingers), and its frames still arrive.  *)
(* Time is counted down to each deadline, one Tick at a time.  The rate    *)
(* limit is a choice: any frame may find the bucket of its socket empty.   *)
(* The key epoch a socket announces is left out.                           *)
(***************************************************************************)
EXTENDS Naturals, FiniteSets, FiniteSetsExt

CONSTANTS
    Devices,     \* device ids that hold a ticket
    Sockets,     \* sockets there ever are
    None,        \* no socket, no alarm, no renewal under way
    Life,        \* longest life of a ticket, in ticks
    ReadyLimit,  \* READY_TIMEOUT_MS, in ticks
    Sweep,       \* SWEEP_MS, in ticks
    Runtimes     \* may a runtime list a socket after the room has closed it

ASSUME RoomAssumption ==
    /\ None \notin Sockets \cup Devices \cup Nat /\ IsFiniteSet(Devices)
    /\ Life \in Nat \ {0} /\ ReadyLimit \in Nat /\ Sweep \in Nat
    /\ Runtimes \subseteq BOOLEAN

VARIABLES
    lingers,   \* does the runtime list such a socket
    phase,     \* of each socket: new, open, closing, closed
    att,       \* its attachment
    renewing,  \* how long ago its renewal came that awaits validTicket
    alarm,     \* ticks until the alarm of the room
    revoked,   \* the durable flag
    online,    \* was the client of a socket last told its peer is there
    heard      \* the socket whose frame a socket last got

vars == <<lingers, phase, att, renewing, alarm, revoked, online, heard>>

NotAccepted == [owner |-> None, ready |-> FALSE, exp |-> 0, readyBy |-> 0]
Attachments ==
    [owner : Devices \cup {None}, ready : BOOLEAN, exp : 0 .. Life, readyBy : 0 .. ReadyLimit]

Init ==
    /\ lingers \in Runtimes
    /\ phase = [s \in Sockets |-> "new"]
    /\ att = [s \in Sockets |-> NotAccepted]
    /\ renewing = [s \in Sockets |-> None]
    /\ alarm = None
    /\ revoked = FALSE
    /\ online = [s \in Sockets |-> FALSE]
    /\ heard = [s \in Sockets |-> None]

\* getWebSockets, entries.
Listed == {s \in Sockets : phase[s] = "open" \/ (lingers /\ phase[s] = "closing")}
\* Sockets whose frames arrive.
Reachable(s) == phase[s] \in {"open", "closing"}

Closing(S) == [s \in Sockets |-> IF s \in S /\ phase[s] = "open" THEN "closing" ELSE phase[s]]

\* What is left of a time span, and the longest span there is.
Left(span, passed) == IF span > passed THEN span - passed ELSE 0
Longest == Max({Life, ReadyLimit, Sweep})

Earliest(S) == IF S = {} THEN None ELSE Min(S)

\* Mutant: an alarm that is set is not moved forward.
ScheduleIfNone(at) == alarm' = IF alarm = None THEN at ELSE alarm

Schedule(at) == alarm' = Earliest({at} \cup ({alarm} \ {None}))

\* Mutant: a socket that has not sent ready is chosen too.
PeersUnready(d) == {p \in Listed : att[p].owner # d}

\* peerOf: any ready socket of another device, the first of the list.
Peers(d) == {p \in Listed : att[p].owner # d /\ att[p].ready}

\* send: lost on a socket that is being closed.
Told(S, is) == [s \in Sockets |-> IF s \in S /\ phase[s] = "open" THEN is ELSE online[s]]

\* Mutant: a ticket of any life is accepted.
LivesUnlimited == 1 .. Life + 1

\* validTicket: the remaining life of a ticket that is accepted.
Lives == 1 .. Life

\* Mutant: a third device is let in.
RoomForThird(d) == Cardinality({att[t].owner : t \in Listed} \ {d}) <= 2

\* Two devices per room.
RoomFor(d) == Cardinality({att[t].owner : t \in Listed} \ {d}) < 2

-----------------------------------------------------------------------------
\* fetch: a device with a valid ticket of some remaining life connects.
Connect(d, s) ==
    /\ phase[s] = "new"
    /\ ~revoked
    /\ RoomFor(d)
    /\ \E exp \in Lives :
        /\ att' = [att EXCEPT ![s] =
                    [owner |-> d, ready |-> FALSE, exp |-> exp, readyBy |-> ReadyLimit]]
        /\ Schedule(Min({exp, ReadyLimit}))
    /\ phase' = [Closing({t \in Listed : att[t].owner = d}) EXCEPT ![s] = "open"]
    /\ UNCHANGED <<lingers, renewing, revoked, online, heard>>

\* webSocketMessage: too large, no ticket left, over the rate for too long, not
\* JSON, ready twice or without an epoch, or anything else before ready.
FrameRefused(s) ==
    /\ phase[s] = "open"
    /\ phase' = Closing({s})
    /\ UNCHANGED <<lingers, att, renewing, alarm, revoked, online, heard>>

Accepted(s) == Reachable(s) /\ att[s].exp > 0

\* Mutant: the peer is told, the newcomer is not.
ReadyUnanswered(s) ==
    /\ Accepted(s) /\ ~att[s].ready
    /\ att' = [att EXCEPT ![s].ready = TRUE, ![s].readyBy = 0]
    /\ \/ Peers(att[s].owner) = {} /\ UNCHANGED online
       \/ \E p \in Peers(att[s].owner) : online' = Told({p}, TRUE)
    /\ UNCHANGED <<lingers, phase, renewing, alarm, revoked, heard>>

Ready(s) ==
    /\ Accepted(s) /\ ~att[s].ready
    /\ att' = [att EXCEPT ![s].ready = TRUE, ![s].readyBy = 0]  \* not read again
    /\ \/ Peers(att[s].owner) = {} /\ online' = Told({s}, FALSE)
       \/ \E p \in Peers(att[s].owner) : online' = Told({s, p}, TRUE)
    /\ UNCHANGED <<lingers, phase, renewing, alarm, revoked, heard>>

\* renew, up to the await.
Renew(s) ==
    /\ Accepted(s) /\ att[s].ready /\ renewing[s] = None
    /\ renewing' = [renewing EXCEPT ![s] = 0]
    /\ UNCHANGED <<lingers, phase, att, alarm, revoked, online, heard>>

\* renew, after it: the ticket is not valid, or the room was revoked.
RenewRefused(s) ==
    /\ renewing[s] # None
    /\ phase' = Closing({s})
    /\ renewing' = [renewing EXCEPT ![s] = None]
    /\ UNCHANGED <<lingers, att, alarm, revoked, online, heard>>

\* The same with a ticket that was valid when the renewal came.
Renewed(s) ==
    /\ renewing[s] # None
    /\ ~revoked
    /\ \E life \in Lives :
        LET exp == Left(life, renewing[s])
        IN /\ att' = [att EXCEPT ![s].exp = IF Reachable(s) THEN exp ELSE 0]
           /\ Schedule(Min({exp, Left(Sweep, renewing[s])}))
    /\ renewing' = [renewing EXCEPT ![s] = None]
    /\ UNCHANGED <<lingers, phase, revoked, online, heard>>

\* pulse and rekey.
Forward(s) ==
    /\ Accepted(s) /\ att[s].ready
    /\ \E p \in Peers(att[s].owner) :
        /\ phase[p] = "open"
        /\ heard' = [heard EXCEPT ![p] = s]
    /\ UNCHANGED <<lingers, phase, att, renewing, alarm, revoked, online>>

\* webSocketClose: the client closed, its connection was lost, or it answered
\* the room's close.
Closed(s) ==
    /\ Reachable(s)
    /\ phase' = [phase EXCEPT ![s] = "closed"]
    /\ att' = [att EXCEPT ![s].exp = 0, ![s].readyBy = 0]  \* not read again
    /\ heard' = [heard EXCEPT ![s] = None]
    /\ LET stillHere == \E t \in Listed \ {s} : att[t].owner = att[s].owner
           told == IF att[s].ready /\ ~stillHere THEN Peers(att[s].owner) ELSE {}
       IN \E p \in told \cup (IF told = {} THEN {s} ELSE {}) :
            online' = [Told({p}, FALSE) EXCEPT ![s] = FALSE]
    /\ UNCHANGED <<lingers, renewing, alarm, revoked>>

Alarm ==
    /\ alarm = 0
    /\ LET stale == {s \in Listed : att[s].exp = 0 \/ (~att[s].ready /\ att[s].readyBy = 0)}
           deadlines(s) == {att[s].exp, Sweep} \cup (IF att[s].ready THEN {} ELSE {att[s].readyBy})
       IN /\ phase' = Closing(stale)
          /\ alarm' = Earliest(UNION {deadlines(s) : s \in Listed \ stale})
    /\ UNCHANGED <<lingers, att, renewing, revoked, online, heard>>

\* The relay's signed notice.
Revoke ==
    /\ ~revoked
    /\ revoked' = TRUE
    /\ phase' = Closing(Listed)
    /\ UNCHANGED <<lingers, att, renewing, alarm, online, heard>>

Tick ==
    /\ alarm' = IF alarm = None THEN None ELSE Left(alarm, 1)
    /\ att' = [s \in Sockets |->
                [att[s] EXCEPT !.exp = Left(@, 1), !.readyBy = Left(@, 1)]]
    /\ renewing' = [s \in Sockets |->
                IF renewing[s] \in {None, Longest} THEN renewing[s] ELSE renewing[s] + 1]
    /\ UNCHANGED <<lingers, phase, revoked, online, heard>>

Next ==
    \/ \E s \in Sockets :
        \/ \E d \in Devices : Connect(d, s)
        \/ FrameRefused(s) \/ Ready(s) \/ Renew(s) \/ RenewRefused(s) \/ Renewed(s)
        \/ Forward(s) \/ Closed(s)
    \/ Alarm \/ Revoke \/ Tick

Spec == Init /\ [][Next]_vars
-----------------------------------------------------------------------------
Open(s) == phase[s] = "open"
Faces(s, t) == Open(s) /\ Open(t) /\ att[s].owner # att[t].owner /\ att[s].ready /\ att[t].ready

TypeOK ==
    /\ lingers \in Runtimes
    /\ phase \in [Sockets -> {"new", "open", "closing", "closed"}]
    /\ att \in [Sockets -> Attachments]
    /\ renewing \in [Sockets -> {None} \cup 0 .. Longest]
    /\ alarm \in {None} \cup 0 .. Longest
    /\ revoked \in BOOLEAN
    /\ online \in [Sockets -> BOOLEAN]
    /\ heard \in [Sockets -> Sockets \cup {None}]

(* "nothing is forwarded to or from a socket before that" (its ready        *)
(* frame): whatever closes, replaces or renews meanwhile.                   *)
NothingBeforeReady ==
    \A s \in Sockets :
        /\ online[s] \/ heard[s] # None => att[s].ready
        /\ heard[s] # None => att[heard[s]].ready /\ att[heard[s]].owner # att[s].owner

(* "Two devices per room; a reconnecting device replaces its own old        *)
(* socket": and nobody is in a room that has been revoked, although a       *)
(* renewal may be awaiting its signature check when the notice arrives.     *)
TwoDevices ==
    /\ Cardinality({att[s].owner : s \in {t \in Sockets : Open(t)}}) <= 2
    /\ \A s, t \in Sockets : Open(s) /\ Open(t) /\ att[s].owner = att[t].owner => s = t
    /\ revoked => \A s \in Sockets : ~Open(s)

(* The one alarm of the room is never later than the deadline of any open   *)
(* socket, although accepting, renewing and the alarm itself all move it.   *)
AlarmCovers ==
    \A s \in Sockets : Open(s) =>
        /\ alarm # None
        /\ alarm <= att[s].exp
        /\ ~att[s].ready => alarm <= att[s].readyBy

(* "peers learn each other is online": two ready sockets of the two devices *)
(* have each been told so, in whatever order they came and their earlier    *)
(* sockets went.  Where the runtime still lists a socket the room closed,   *)
(* the code does not keep this: peerOf may tell that one (index.ts:232).    *)
PeersLearn == \A s, t \in Sockets : Faces(s, t) => online[s]

(* The same where the runtime lists no socket that the room has closed, as  *)
(* long as only the two devices of the relationship have come: the late     *)
(* close of a third would be reported as the departure of the second.       *)
PairLearns ==
    ~lingers /\ Cardinality({att[s].owner : s \in Sockets} \ {None}) <= 2 => PeersLearn

(* "disconnecting tells the peer it went offline": a client that sees its   *)
(* peer online has a peer with a socket whose end the room has not handled. *)
GoneIsOffline ==
    \A s \in Sockets : Open(s) /\ online[s] =>
        \E t \in Sockets : att[t].owner # att[s].owner /\ Reachable(t)
=============================================================================
