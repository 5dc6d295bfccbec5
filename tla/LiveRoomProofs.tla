--------------------------- MODULE LiveRoomProofs ---------------------------
(***************************************************************************)
(* What TLAPS proves of LiveRoom, for any set of sockets, any devices and  *)
(* deadlines: its types, nothing passes before ready, two devices at most, *)
(* an alarm that covers every deadline, and two devices that learn of each *)
(* other.  NothingBeforeReady needs one more fact, that a socket which      *)
(* never came is not ready (Fresh), and PairLearns that every other has an  *)
(* owner (Owned), so that of two devices one is that of any socket          *)
(* (OneOfTwo); the other two are inductive beside the types.  A step is a   *)
(* socket that joins (Joining) or one of the others (OthersKeep).           *)
(***************************************************************************)
EXTENDS LiveRoom, FiniteSetTheorems, WellFoundedInduction, TLAPS

(* Part of the induction: a socket that never came has not sent ready.      *)
Fresh == \A s \in Sockets : phase[s] = "new" => ~att[s].ready

-----------------------------------------------------------------------------
(* Every set of naturals has the minimum that Min chooses.                  *)
LEMMA MinIsLeast ==
  ASSUME NEW S, S \subseteq Nat, S # {}
  PROVE  Min(S) \in S /\ \A y \in S : Min(S) <= y
<1> DEFINE Below == {0 .. x : x \in S}
<1>1. Below \subseteq FiniteSubsetsOf(Nat)
  <2> SUFFICES ASSUME NEW x \in S PROVE 0 .. x \in FiniteSubsetsOf(Nat)
    OBVIOUS
  <2>1. 0 \in Int /\ x \in Int /\ 0 .. x \subseteq Nat
    OBVIOUS
  <2>2. IsFiniteSet(0 .. x)
    BY <2>1, FS_Interval
  <2>3. QED BY <2>1, <2>2 DEF FiniteSubsetsOf
<1>2. Below # {}
  OBVIOUS
<1>3. PICK b \in Below : \A c \in Below : ~ (<<c, b>> \in StrictSubsetOrdering(Nat))
  <2> HIDE DEF Below
  <2>1. IsWellFoundedOn(StrictSubsetOrdering(Nat), FiniteSubsetsOf(Nat))
    BY FS_StrictSubsetOrderingWellFounded
  <2>2. QED BY <1>1, <1>2, <2>1, WFMin
<1>4. PICK x \in S : b = 0 .. x
  BY <1>3
<1>5. ASSUME NEW y \in S PROVE x <= y
  <2>1. <<0 .. y, 0 .. x>> \notin StrictSubsetOrdering(Nat)
    BY <1>3, <1>4
  <2>2. ~(0 .. y \subseteq 0 .. x /\ 0 .. y # 0 .. x)
    BY <2>1 DEF StrictSubsetOrdering
  <2>3. CASE y < x
    <3>1. 0 .. y \subseteq 0 .. x /\ x \in 0 .. x /\ x \notin 0 .. y
      BY <2>3
    <3>2. QED BY <2>2, <3>1
  <2>4. QED BY <2>3
<1>6. QED BY <1>4, <1>5 DEF Min

(* The longest span is a number, and no span is longer.                     *)
LEMMA LongestBounds ==
  /\ Longest \in Nat
  /\ Life <= Longest /\ ReadyLimit <= Longest /\ Sweep <= Longest
<1> DEFINE S == {Life, ReadyLimit, Sweep}
<1>1. Life \in Nat /\ ReadyLimit \in Nat /\ Sweep \in Nat
  BY RoomAssumption
<1>2. \E x \in S : \A y \in S : x >= y
  BY <1>1
<1>3. Longest \in S /\ \A y \in S : Longest >= y
  BY <1>2 DEF Longest, Max
<1>4. QED BY <1>1, <1>3

(* What is left of a span is no more than the span.                         *)
LEMMA LeftIsNatural ==
  ASSUME NEW span \in Nat, NEW passed \in Nat
  PROVE  Left(span, passed) \in Nat /\ Left(span, passed) <= span
BY DEF Left

(* Scheduling never puts the alarm later than it was, nor than asked for.   *)
LEMMA ScheduleCovers ==
  ASSUME NEW at \in 0 .. Longest, alarm \in {None} \cup 0 .. Longest, Schedule(at)
  PROVE  /\ alarm' \in 0 .. Longest /\ alarm' <= at /\ alarm' # None
         /\ alarm # None => alarm' <= alarm
<1> DEFINE S == {at} \cup ({alarm} \ {None})
<1>1. S \subseteq Nat /\ S \subseteq 0 .. Longest /\ S # {} /\ at \in S /\ (alarm # None => alarm \in S)
  BY LongestBounds
<1>2. alarm' = Min(S)
  BY <1>1 DEF Schedule, Earliest
<1>3. Min(S) \in S /\ \A y \in S : Min(S) <= y
  BY <1>1, MinIsLeast
<1>4. None \notin Nat
  BY RoomAssumption
<1>5. QED BY <1>1, <1>2, <1>3, <1>4

-----------------------------------------------------------------------------
LEMMA TypeInit == Init => TypeOK
<1> SUFFICES ASSUME Init PROVE TypeOK
  OBVIOUS
<1>1. NotAccepted \in Attachments
  BY RoomAssumption DEF NotAccepted, Attachments
<1>2. att \in [Sockets -> Attachments]
  BY <1>1 DEF Init
<1>3. online \in [Sockets -> BOOLEAN] /\ revoked \in BOOLEAN
  BY DEF Init
<1>4. QED BY <1>2, <1>3 DEF Init, TypeOK

(* Two fields of an attachment at once, as one after the other.             *)
LEMMA TwoFields ==
  ASSUME NEW a, NEW x, NEW y
  PROVE  /\ [a EXCEPT !.ready = x, !.readyBy = y] = [[a EXCEPT !.ready = x] EXCEPT !.readyBy = y]
         /\ [a EXCEPT !.exp = x, !.readyBy = y] = [[a EXCEPT !.exp = x] EXCEPT !.readyBy = y]
<1>1. [a EXCEPT !.ready = x, !.readyBy = y] = [[a EXCEPT !.ready = x] EXCEPT !.readyBy = y]
  BY SMTT(20)
<1>2. [a EXCEPT !.exp = x, !.readyBy = y] = [[a EXCEPT !.exp = x] EXCEPT !.readyBy = y]
  BY SMTT(20)
<1>3. QED BY <1>1, <1>2

(* A change of one field leaves an attachment.                              *)
LEMMA OneField ==
  ASSUME NEW a \in Attachments, NEW r \in BOOLEAN, NEW e \in 0 .. Life, NEW b \in 0 .. ReadyLimit
  PROVE  /\ [a EXCEPT !.ready = r] \in Attachments
         /\ [a EXCEPT !.exp = e] \in Attachments
         /\ [a EXCEPT !.readyBy = b] \in Attachments
<1>1. [a EXCEPT !.ready = r] \in Attachments
  BY Zenon DEF Attachments
<1>2. [a EXCEPT !.exp = e] \in Attachments
  BY DEF Attachments
<1>3. [a EXCEPT !.readyBy = b] \in Attachments
  BY DEF Attachments
<1>4. QED BY <1>1, <1>2, <1>3

(* And so do the changes the handlers make.                                 *)
LEMMA AttachmentType ==
  ASSUME NEW a \in Attachments, NEW r \in BOOLEAN, NEW e \in 0 .. Life, NEW b \in 0 .. ReadyLimit
  PROVE  /\ [a EXCEPT !.ready = r, !.readyBy = b] \in Attachments
         /\ [a EXCEPT !.exp = e] \in Attachments
         /\ [a EXCEPT !.exp = e, !.readyBy = b] \in Attachments
<1>1. [a EXCEPT !.ready = r] \in Attachments /\ [a EXCEPT !.exp = e] \in Attachments
  BY OneField
<1>2. \A c \in Attachments : [c EXCEPT !.readyBy = b] \in Attachments
  BY OneField
<1>3. [[a EXCEPT !.ready = r] EXCEPT !.readyBy = b] \in Attachments
  BY <1>1, <1>2
<1>4. [[a EXCEPT !.exp = e] EXCEPT !.readyBy = b] \in Attachments
  BY <1>1, <1>2
<1>5. QED BY <1>1, <1>3, <1>4, TwoFields

(* The attachments keep their type.                                         *)
LEMMA AttachmentsStep == TypeOK /\ [Next]_vars => (att \in [Sockets -> Attachments])'
<1> SUFFICES ASSUME TypeOK, [Next]_vars PROVE att' \in [Sockets -> Attachments]
  OBVIOUS
<1> USE RoomAssumption
<1>0. att \in [Sockets -> Attachments] /\ renewing \in [Sockets -> {None} \cup 0 .. Longest]
  BY DEF TypeOK
<1>z. TRUE \in BOOLEAN /\ 0 \in 0 .. ReadyLimit /\ 0 \in 0 .. Life
  OBVIOUS
<1>1. ASSUME NEW s \in Sockets, NEW d \in Devices, Connect(d, s) PROVE att' \in [Sockets -> Attachments]
  <2>1. PICK exp \in 1 .. Life :
          att' = [att EXCEPT ![s] = [owner |-> d, ready |-> FALSE, exp |-> exp, readyBy |-> ReadyLimit]]
    BY <1>1 DEF Connect, Lives
  <2>2. exp \in 0 .. Life /\ ReadyLimit \in 0 .. ReadyLimit /\ FALSE \in BOOLEAN
    OBVIOUS
  <2>3. [owner |-> d, ready |-> FALSE, exp |-> exp, readyBy |-> ReadyLimit] \in Attachments
    BY <2>2, Zenon DEF Attachments
  <2>4. QED BY <1>0, <2>1, <2>3
<1>2. ASSUME NEW s \in Sockets, Ready(s) PROVE att' \in [Sockets -> Attachments]
  <2>1. att' = [att EXCEPT ![s] = [att[s] EXCEPT !.ready = TRUE, !.readyBy = 0]]
    BY <1>2 DEF Ready
  <2>2. att[s] \in Attachments
    BY <1>0
  <2>3. [att[s] EXCEPT !.ready = TRUE, !.readyBy = 0] \in Attachments
    BY <1>z, <2>2, AttachmentType
  <2>4. QED BY <1>0, <2>1, <2>3
<1>3. ASSUME NEW s \in Sockets, Renewed(s) PROVE att' \in [Sockets -> Attachments]
  <2>1. renewing[s] \in Nat
    BY <1>0, <1>3, LongestBounds DEF Renewed
  <2>2. \A life \in Lives : Left(life, renewing[s]) \in 0 .. Life
    BY <2>1 DEF Lives, Left
  <2>3. PICK life \in Lives : att' = [att EXCEPT ![s].exp = IF Reachable(s) THEN Left(life, renewing[s]) ELSE 0]
    BY <1>3 DEF Renewed
  <2>4. (IF Reachable(s) THEN Left(life, renewing[s]) ELSE 0) \in 0 .. Life
    BY <1>z, <2>2
  <2>5. PICK exp \in 0 .. Life : att' = [att EXCEPT ![s] = [att[s] EXCEPT !.exp = exp]]
    BY <2>3, <2>4
  <2>6. att[s] \in Attachments
    BY <1>0
  <2>7. [att[s] EXCEPT !.exp = exp] \in Attachments
    BY <1>z, <2>6, AttachmentType
  <2>8. QED BY <1>0, <2>5, <2>7
<1>4. ASSUME NEW s \in Sockets, Closed(s) PROVE att' \in [Sockets -> Attachments]
  <2>1. att' = [att EXCEPT ![s] = [att[s] EXCEPT !.exp = 0, !.readyBy = 0]]
    BY <1>4 DEF Closed
  <2>2. att[s] \in Attachments
    BY <1>0
  <2>3. [att[s] EXCEPT !.exp = 0, !.readyBy = 0] \in Attachments
    BY <1>z, <2>2, AttachmentType
  <2>4. QED BY <1>0, <2>1, <2>3
<1>5. ASSUME Tick PROVE att' \in [Sockets -> Attachments]
  <2>1. att' = [s \in Sockets |-> [att[s] EXCEPT !.exp = Left(att[s].exp, 1), !.readyBy = Left(att[s].readyBy, 1)]]
    BY <1>5 DEF Tick
  <2>2. ASSUME NEW s \in Sockets
        PROVE  [att[s] EXCEPT !.exp = Left(att[s].exp, 1), !.readyBy = Left(att[s].readyBy, 1)] \in Attachments
    <3>1. att[s] \in Attachments
      BY <1>0
    <3>2. att[s].exp \in 0 .. Life /\ att[s].readyBy \in 0 .. ReadyLimit
      BY <3>1 DEF Attachments
    <3>3. Left(att[s].exp, 1) \in 0 .. Life /\ Left(att[s].readyBy, 1) \in 0 .. ReadyLimit
      BY <3>2 DEF Left
    <3>4. QED BY <1>z, <3>1, <3>3, AttachmentType
  <2>3. QED BY <2>1, <2>2
<1>6. CASE UNCHANGED att
  BY <1>0, <1>6
<1>7. QED
  BY <1>1, <1>2, <1>3, <1>4, <1>5, <1>6
  DEF Next, vars, FrameRefused, Renew, RenewRefused, Forward, Alarm, Revoke

-----------------------------------------------------------------------------
(* What closing does to the phases.                                         *)
LEMMA ClosingPhases ==
  ASSUME TypeOK, NEW S
  PROVE  /\ Closing(S) \in [Sockets -> {"new", "open", "closing", "closed"}]
         /\ \A t \in Sockets :
              /\ Closing(S)[t] = "open" <=> phase[t] = "open" /\ t \notin S
              /\ Closing(S)[t] = "new" <=> phase[t] = "new"
BY DEF TypeOK, Closing

(* Telling clients keeps the type of online.                                *)
LEMMA ToldType ==
  ASSUME TypeOK, NEW S, NEW is \in BOOLEAN
  PROVE  Told(S, is) \in [Sockets -> BOOLEAN]
<1>1. \A t \in Sockets : online[t] \in BOOLEAN
  BY DEF TypeOK
<1>2. \A t \in Sockets : (IF t \in S /\ phase[t] = "open" THEN is ELSE online[t]) \in BOOLEAN
  BY <1>1, Zenon
<1>3. QED BY <1>2, Zenon DEF Told

(* The phases keep their type.                                              *)
LEMMA PhaseStep ==
  TypeOK /\ [Next]_vars => (phase \in [Sockets -> {"new", "open", "closing", "closed"}])'
<1> SUFFICES ASSUME TypeOK, [Next]_vars
             PROVE  phase' \in [Sockets -> {"new", "open", "closing", "closed"}]
  OBVIOUS
<1>0. phase \in [Sockets -> {"new", "open", "closing", "closed"}]
  BY DEF TypeOK
<1>1. ASSUME NEW s \in Sockets, NEW d \in Devices, Connect(d, s)
      PROVE  phase' \in [Sockets -> {"new", "open", "closing", "closed"}]
  BY <1>1, ClosingPhases DEF Connect
<1>2. ASSUME NEW S, phase' = Closing(S)
      PROVE  phase' \in [Sockets -> {"new", "open", "closing", "closed"}]
  BY <1>2, ClosingPhases
<1>3. ASSUME NEW s \in Sockets, Closed(s)
      PROVE  phase' \in [Sockets -> {"new", "open", "closing", "closed"}]
  BY <1>0, <1>3 DEF Closed
<1>4. ASSUME Alarm PROVE \E S : phase' = Closing(S)
  BY <1>4 DEF Alarm
<1>5. ASSUME Revoke PROVE phase' = Closing(Listed)
  BY <1>5 DEF Revoke
<1>6. CASE UNCHANGED phase
  BY <1>0, <1>6
<1>7. QED
  BY <1>1, <1>2, <1>3, <1>4, <1>5, <1>6
  DEF Next, vars, FrameRefused, Ready, Renew, RenewRefused, Renewed, Forward, Tick

(* Whether a client was told its peer is there keeps its type.              *)
LEMMA OnlineStep == TypeOK /\ [Next]_vars => (online \in [Sockets -> BOOLEAN])'
<1> SUFFICES ASSUME TypeOK, [Next]_vars PROVE online' \in [Sockets -> BOOLEAN]
  OBVIOUS
<1>0. online \in [Sockets -> BOOLEAN]
  BY DEF TypeOK
<1>1. ASSUME NEW s \in Sockets, Ready(s) PROVE online' \in [Sockets -> BOOLEAN]
  <2>1. \/ online' = Told({s}, FALSE)
        \/ \E p \in Peers(att[s].owner) : online' = Told({s, p}, TRUE)
    BY <1>1 DEF Ready
  <2>2. QED BY <2>1, ToldType
<1>2. ASSUME NEW s \in Sockets, Closed(s) PROVE online' \in [Sockets -> BOOLEAN]
  <2>1. \E p : online' = [Told({p}, FALSE) EXCEPT ![s] = FALSE]
    BY <1>2 DEF Closed
  <2>2. \A p : Told({p}, FALSE) \in [Sockets -> BOOLEAN]
    BY ToldType
  <2>3. QED BY <2>1, <2>2, Zenon
<1>3. CASE UNCHANGED online
  BY <1>0, <1>3
<1>4. QED
  BY <1>1, <1>2, <1>3
  DEF Next, vars, Connect, FrameRefused, Renew, RenewRefused, Renewed, Forward, Alarm, Revoke, Tick

(* Whom a socket last heard keeps its type.                                 *)
LEMMA HeardStep == TypeOK /\ [Next]_vars => (heard \in [Sockets -> Sockets \cup {None}])'
<1> SUFFICES ASSUME TypeOK, [Next]_vars PROVE heard' \in [Sockets -> Sockets \cup {None}]
  OBVIOUS
<1>0. heard \in [Sockets -> Sockets \cup {None}]
  BY DEF TypeOK
<1>1. ASSUME NEW s \in Sockets, Forward(s) PROVE heard' \in [Sockets -> Sockets \cup {None}]
  BY <1>0, <1>1 DEF Forward
<1>2. ASSUME NEW s \in Sockets, Closed(s) PROVE heard' \in [Sockets -> Sockets \cup {None}]
  BY <1>0, <1>2 DEF Closed
<1>3. CASE UNCHANGED heard
  BY <1>0, <1>3
<1>4. QED
  BY <1>1, <1>2, <1>3
  DEF Next, vars, Connect, FrameRefused, Ready, Renew, RenewRefused, Renewed, Alarm, Revoke, Tick

(* The age of a renewal keeps its type; it stops at the longest span.       *)
LEMMA RenewingStep == TypeOK /\ [Next]_vars => (renewing \in [Sockets -> {None} \cup 0 .. Longest])'
<1> SUFFICES ASSUME TypeOK, [Next]_vars PROVE renewing' \in [Sockets -> {None} \cup 0 .. Longest]
  OBVIOUS
<1>0. renewing \in [Sockets -> {None} \cup 0 .. Longest] /\ Longest \in Nat
  BY LongestBounds DEF TypeOK
<1>1. ASSUME NEW s \in Sockets, Renew(s) PROVE renewing' \in [Sockets -> {None} \cup 0 .. Longest]
  BY <1>0, <1>1 DEF Renew
<1>2. ASSUME NEW s \in Sockets, RenewRefused(s) \/ Renewed(s)
      PROVE  renewing' \in [Sockets -> {None} \cup 0 .. Longest]
  BY <1>0, <1>2 DEF RenewRefused, Renewed
<1>3. ASSUME Tick PROVE renewing' \in [Sockets -> {None} \cup 0 .. Longest]
  <2>1. \A s \in Sockets : renewing[s] \notin {None, Longest} => renewing[s] + 1 \in 0 .. Longest
    BY <1>0
  <2>2. QED BY <1>0, <1>3, <2>1 DEF Tick
<1>4. CASE UNCHANGED renewing
  BY <1>0, <1>4
<1>5. QED
  BY <1>1, <1>2, <1>3, <1>4
  DEF Next, vars, Connect, FrameRefused, Ready, Forward, Closed, Alarm, Revoke
(* An accepted socket's deadlines, and those of the alarm itself.           *)
LEMMA AcceptDeadline ==
  ASSUME NEW exp \in 0 .. Life, NEW other \in Nat, other <= Longest
  PROVE  /\ Min({exp, other}) \in 0 .. Longest
         /\ Min({exp, other}) <= exp /\ Min({exp, other}) <= other
<1>1. {exp, other} \subseteq Nat /\ {exp, other} # {} /\ {exp, other} \subseteq 0 .. Longest
  BY LongestBounds, RoomAssumption
<1>2. Min({exp, other}) \in {exp, other} /\ \A y \in {exp, other} : Min({exp, other}) <= y
  BY <1>1, MinIsLeast
<1>3. QED BY <1>1, <1>2

(* The alarm keeps its type.                                                *)
LEMMA AlarmStep == TypeOK /\ [Next]_vars => (alarm \in {None} \cup 0 .. Longest)'
<1> SUFFICES ASSUME TypeOK, [Next]_vars PROVE alarm' \in {None} \cup 0 .. Longest
  OBVIOUS
<1>0. alarm \in {None} \cup 0 .. Longest /\ Longest \in Nat /\ None \notin Nat
  BY LongestBounds, RoomAssumption DEF TypeOK
<1>1. ASSUME NEW s \in Sockets, NEW d \in Devices, Connect(d, s)
      PROVE  alarm' \in {None} \cup 0 .. Longest
  <2>1. PICK exp \in 1 .. Life : Schedule(Min({exp, ReadyLimit}))
    BY <1>1 DEF Connect, Lives
  <2>2. exp \in 0 .. Life /\ ReadyLimit \in Nat /\ ReadyLimit <= Longest
    BY LongestBounds, RoomAssumption
  <2>3. Min({exp, ReadyLimit}) \in 0 .. Longest
    BY <2>2, AcceptDeadline
  <2>4. QED BY <1>0, <2>1, <2>3, ScheduleCovers
<1>2. ASSUME NEW s \in Sockets, Renewed(s) PROVE alarm' \in {None} \cup 0 .. Longest
  <2>1. renewing[s] \in Nat
    BY <1>0, <1>2 DEF Renewed, TypeOK
  <2>2. PICK life \in 1 .. Life : Schedule(Min({Left(life, renewing[s]), Left(Sweep, renewing[s])}))
    BY <1>2 DEF Renewed, Lives
  <2>3. Left(life, renewing[s]) \in 0 .. Life
    BY <2>1, RoomAssumption, LeftIsNatural
  <2>4. Left(Sweep, renewing[s]) \in Nat /\ Left(Sweep, renewing[s]) <= Longest
    <3>1. Sweep \in Nat /\ Sweep <= Longest
      BY LongestBounds, RoomAssumption
    <3>2. Left(Sweep, renewing[s]) \in Nat /\ Left(Sweep, renewing[s]) <= Sweep
      BY <2>1, <3>1, LeftIsNatural
    <3>3. QED BY <1>0, <3>1, <3>2
  <2>5. Min({Left(life, renewing[s]), Left(Sweep, renewing[s])}) \in 0 .. Longest
    BY <2>3, <2>4, AcceptDeadline
  <2>6. QED BY <1>0, <2>2, <2>5, ScheduleCovers
<1>3. ASSUME Alarm PROVE alarm' \in {None} \cup 0 .. Longest
  <2> DEFINE stale == {s \in Listed : att[s].exp = 0 \/ (~att[s].ready /\ att[s].readyBy = 0)}
             deadlines(s) == {att[s].exp, Sweep} \cup (IF att[s].ready THEN {} ELSE {att[s].readyBy})
             all == UNION {deadlines(s) : s \in Listed \ stale}
  <2>1. alarm' = Earliest(all)
    BY <1>3 DEF Alarm
  <2>2. \A s \in Listed \ stale : deadlines(s) \subseteq 0 .. Longest
    <3> SUFFICES ASSUME NEW s \in Sockets PROVE deadlines(s) \subseteq 0 .. Longest
      BY DEF Listed
    <3>1. att[s].exp \in 0 .. Life /\ att[s].readyBy \in 0 .. ReadyLimit
      BY DEF TypeOK, Attachments
    <3>2. QED BY <3>1, LongestBounds, RoomAssumption
  <2>3. all \subseteq 0 .. Longest
    BY <2>2
  <2>4. all # {} => Min(all) \in all
    <3> HIDE DEF all
    <3>1. all \subseteq Nat
      BY <2>3
    <3>2. QED BY <3>1, MinIsLeast
  <2> HIDE DEF all
  <2>5. QED BY <2>1, <2>3, <2>4 DEF Earliest
<1>4. ASSUME Tick PROVE alarm' \in {None} \cup 0 .. Longest
  <2>1. alarm # None => Left(alarm, 1) \in 0 .. Longest
    BY <1>0 DEF Left
  <2>2. QED BY <1>0, <1>4, <2>1 DEF Tick
<1>5. CASE UNCHANGED alarm
  BY <1>0, <1>5
<1>6. QED
  BY <1>1, <1>2, <1>3, <1>4, <1>5
  DEF Next, vars, FrameRefused, Ready, Renew, RenewRefused, Forward, Closed, Revoke

(* The durable flag and the runtime keep theirs.                            *)
LEMMA FlagsStep == TypeOK /\ [Next]_vars => (lingers \in Runtimes)' /\ (revoked \in BOOLEAN)'
<1> SUFFICES ASSUME TypeOK, [Next]_vars PROVE lingers' \in Runtimes /\ revoked' \in BOOLEAN
  OBVIOUS
<1>1. lingers \in Runtimes /\ revoked \in BOOLEAN
  BY DEF TypeOK
<1>2. lingers' = lingers
  BY DEF Next, vars, Connect, FrameRefused, Ready, Renew, RenewRefused, Renewed, Forward, Closed,
         Alarm, Revoke, Tick
<1>3. CASE Revoke
  BY <1>1, <1>2, <1>3, Zenon DEF Revoke
<1>4. CASE UNCHANGED revoked
  BY <1>1, <1>2, <1>4
<1>5. QED
  BY <1>3, <1>4
  DEF Next, vars, Connect, FrameRefused, Ready, Renew, RenewRefused, Renewed, Forward, Closed,
      Alarm, Tick

(* All of it.                                                               *)
LEMMA TypeStep == TypeOK /\ [Next]_vars => TypeOK'
<1> SUFFICES ASSUME TypeOK, [Next]_vars PROVE TypeOK'
  OBVIOUS
<1>1. (lingers \in Runtimes)' /\ (revoked \in BOOLEAN)'
  BY FlagsStep
<1>2. (phase \in [Sockets -> {"new", "open", "closing", "closed"}])'
  BY PhaseStep
<1>3. (att \in [Sockets -> Attachments])'
  BY AttachmentsStep
<1>4. (renewing \in [Sockets -> {None} \cup 0 .. Longest])'
  BY RenewingStep
<1>5. (alarm \in {None} \cup 0 .. Longest)'
  BY AlarmStep
<1>6. (online \in [Sockets -> BOOLEAN])' /\ (heard \in [Sockets -> Sockets \cup {None}])'
  BY OnlineStep, HeardStep
<1>7. QED BY <1>1, <1>2, <1>3, <1>4, <1>5, <1>6, Zenon DEF TypeOK

(* Every variable of the room has its type: an attachment is one, an alarm  *)
(* is a time that the constants bound, whatever overtakes what.             *)
THEOREM Typed == Spec => []TypeOK
<1>1. Init => TypeOK
  BY TypeInit
<1>2. TypeOK /\ [Next]_vars => TypeOK'
  BY TypeStep
<1>3. QED BY <1>1, <1>2, PTL DEF Spec
-----------------------------------------------------------------------------
(* Any step but a socket's joining.                                         *)
NobodyJoins == \A s \in Sockets, d \in Devices : ~Connect(d, s)

(* Reading one field of an attachment of which another one changed.         *)
LEMMA OtherFields ==
  ASSUME NEW a \in Attachments, NEW x
  PROVE  /\ [a EXCEPT !.exp = x].owner = a.owner /\ [a EXCEPT !.exp = x].readyBy = a.readyBy
         /\ [a EXCEPT !.exp = x].ready = a.ready /\ [a EXCEPT !.exp = x].exp = x
         /\ [a EXCEPT !.ready = x].owner = a.owner /\ [a EXCEPT !.ready = x].exp = a.exp
         /\ [a EXCEPT !.ready = x].readyBy = a.readyBy /\ [a EXCEPT !.ready = x].ready = x
         /\ [a EXCEPT !.readyBy = x].owner = a.owner /\ [a EXCEPT !.readyBy = x].exp = a.exp
         /\ [a EXCEPT !.readyBy = x].ready = a.ready /\ [a EXCEPT !.readyBy = x].readyBy = x
BY DEF Attachments

(* Both fields of a pair of changes.                                        *)
LEMMA PairFields ==
  ASSUME NEW a \in Attachments, NEW e \in 0 .. Life, NEW b \in 0 .. ReadyLimit
  PROVE  /\ [a EXCEPT !.ready = TRUE, !.readyBy = b].owner = a.owner
         /\ [a EXCEPT !.ready = TRUE, !.readyBy = b].ready
         /\ [a EXCEPT !.ready = TRUE, !.readyBy = b].exp = a.exp
         /\ [a EXCEPT !.exp = e, !.readyBy = b].owner = a.owner
         /\ [a EXCEPT !.exp = e, !.readyBy = b].ready = a.ready
         /\ [a EXCEPT !.exp = e, !.readyBy = b].exp = e
         /\ [a EXCEPT !.exp = e, !.readyBy = b].readyBy = b
<1>0. [a EXCEPT !.ready = TRUE] \in Attachments /\ [a EXCEPT !.exp = e] \in Attachments
  <2>1. TRUE \in BOOLEAN
    OBVIOUS
  <2>2. [a EXCEPT !.ready = TRUE] \in Attachments
    BY <2>1, Zenon DEF Attachments
  <2>3. [a EXCEPT !.exp = e] \in Attachments
    BY DEF Attachments
  <2>4. QED BY <2>2, <2>3
<1> DEFINE r == [a EXCEPT !.ready = TRUE]
           c == [a EXCEPT !.exp = e]
<1>1. r.owner = a.owner /\ r.ready /\ r.exp = a.exp
  BY OtherFields
<1>2. c.owner = a.owner /\ c.ready = a.ready /\ c.exp = e
  BY OtherFields
<1>3. r \in Attachments /\ c \in Attachments
  BY <1>0
<1> HIDE DEF r, c
<1>4. [r EXCEPT !.readyBy = b].owner = r.owner /\ [r EXCEPT !.readyBy = b].ready = r.ready
      /\ [r EXCEPT !.readyBy = b].exp = r.exp
  BY <1>3, OtherFields
<1>5. [c EXCEPT !.readyBy = b].owner = c.owner /\ [c EXCEPT !.readyBy = b].ready = c.ready
      /\ [c EXCEPT !.readyBy = b].exp = c.exp /\ [c EXCEPT !.readyBy = b].readyBy = b
  BY <1>3, OtherFields
<1>6. [a EXCEPT !.ready = TRUE, !.readyBy = b] = [r EXCEPT !.readyBy = b]
      /\ [a EXCEPT !.exp = e, !.readyBy = b] = [c EXCEPT !.readyBy = b]
  BY TwoFields DEF r, c
<1>7. QED BY <1>1, <1>2, <1>4, <1>5, <1>6
(* But for a socket that joins, attachments keep their owner, none becomes  *)
(* less ready, only a socket that came becomes ready, and none opens.       *)
LEMMA OthersKeep ==
  ASSUME TypeOK, [Next]_vars, NobodyJoins, NEW t \in Sockets
  PROVE  /\ att'[t].owner = att[t].owner
         /\ att[t].ready => att'[t].ready
         /\ phase[t] = "new" => (att'[t].ready => att[t].ready)
         /\ phase'[t] = "open" => phase[t] = "open"
         /\ phase'[t] = "new" => phase[t] = "new"
<1> DEFINE Keeps ==
      /\ att'[t].owner = att[t].owner
      /\ att[t].ready => att'[t].ready
      /\ phase[t] = "new" => (att'[t].ready => att[t].ready)
    Shuts ==
      /\ phase'[t] = "open" => phase[t] = "open"
      /\ phase'[t] = "new" => phase[t] = "new"
<1>0. att \in [Sockets -> Attachments] /\ att[t] \in Attachments
  BY DEF TypeOK
<1>z. 0 \in 0 .. Life /\ 0 \in 0 .. ReadyLimit
  BY RoomAssumption
<1>1. ASSUME NEW s \in Sockets, Ready(s) PROVE Keeps
  <2>1. att' = [att EXCEPT ![s] = [att[s] EXCEPT !.ready = TRUE, !.readyBy = 0]]
    BY <1>1 DEF Ready
  <2>2. CASE t = s
    <3>1. att'[t] = [att[t] EXCEPT !.ready = TRUE, !.readyBy = 0]
      BY <1>0, <2>1, <2>2
    <3>2. att'[t].owner = att[t].owner /\ att'[t].ready
      BY <1>0, <1>z, <3>1, PairFields
    <3>3. phase[t] # "new"
      BY <1>1, <2>2 DEF Ready, Accepted, Reachable
    <3>4. QED BY <3>2, <3>3
  <2>3. CASE t # s
    BY <1>0, <2>1, <2>3
  <2>4. QED BY <2>2, <2>3
<1>2. ASSUME NEW s \in Sockets, Renewed(s) PROVE Keeps
  <2>1. PICK exp : att' = [att EXCEPT ![s] = [att[s] EXCEPT !.exp = exp]]
    BY <1>2 DEF Renewed
  <2>2. [att[t] EXCEPT !.exp = exp].owner = att[t].owner /\ [att[t] EXCEPT !.exp = exp].ready = att[t].ready
    BY <1>0, OtherFields
  <2>3. att'[t] = att[t] \/ att'[t] = [att[t] EXCEPT !.exp = exp]
    BY <1>0, <2>1
  <2>4. QED BY <2>2, <2>3
<1>3. ASSUME NEW s \in Sockets, Closed(s) PROVE Keeps
  <2>1. att' = [att EXCEPT ![s] = [att[s] EXCEPT !.exp = 0, !.readyBy = 0]]
    BY <1>3 DEF Closed
  <2>2. att'[t] = att[t] \/ att'[t] = [att[t] EXCEPT !.exp = 0, !.readyBy = 0]
    BY <1>0, <2>1
  <2>3. /\ [att[t] EXCEPT !.exp = 0, !.readyBy = 0].owner = att[t].owner
        /\ [att[t] EXCEPT !.exp = 0, !.readyBy = 0].ready = att[t].ready
    BY <1>0, <1>z, PairFields
  <2>4. QED BY <2>2, <2>3
<1>4. ASSUME Tick PROVE Keeps
  <2>1. att'[t] = [att[t] EXCEPT !.exp = Left(att[t].exp, 1), !.readyBy = Left(att[t].readyBy, 1)]
    BY <1>4 DEF Tick
  <2>2. Left(att[t].exp, 1) \in 0 .. Life /\ Left(att[t].readyBy, 1) \in 0 .. ReadyLimit
    BY <1>0, RoomAssumption DEF Attachments, Left
  <2>3. QED BY <1>0, <2>1, <2>2, PairFields
<1>5. ASSUME UNCHANGED att PROVE Keeps
  BY <1>5
<1>6. Keeps
  BY <1>1, <1>2, <1>3, <1>4, <1>5
  DEF Next, vars, NobodyJoins, FrameRefused, Renew, RenewRefused, Forward, Alarm, Revoke
<1>7. ASSUME NEW S, phase' = Closing(S) PROVE Shuts
  BY <1>7, ClosingPhases
<1>8. ASSUME NEW s \in Sockets, Closed(s) PROVE Shuts
  BY <1>8 DEF Closed, TypeOK
<1>9. ASSUME Alarm PROVE \E S : phase' = Closing(S)
  BY <1>9 DEF Alarm
<1>10. ASSUME Revoke PROVE phase' = Closing(Listed)
  BY <1>10 DEF Revoke
<1>11. ASSUME UNCHANGED phase PROVE Shuts
  BY <1>11
<1>12. Shuts
  BY <1>7, <1>8, <1>9, <1>10, <1>11
  DEF Next, vars, NobodyJoins, FrameRefused, Ready, Renew, RenewRefused, Renewed, Forward, Tick
<1>13. QED BY <1>6, <1>12

(* What a socket that joins finds and leaves.                               *)
LEMMA Joining ==
  ASSUME TypeOK, NEW s \in Sockets, NEW d \in Devices, Connect(d, s), NEW t \in Sockets
  PROVE  /\ phase'[t] = "new" => phase[t] = "new"
         /\ t # s => att'[t] = att[t]
         /\ t # s /\ phase'[t] = "open" => phase[t] = "open" /\ att[t].owner # d
         /\ att'[s].owner = d /\ ~att'[s].ready /\ phase'[s] = "open" /\ phase[s] = "new"
         /\ heard' = heard /\ online' = online
<1>1. PICK exp \in Lives :
        att' = [att EXCEPT ![s] = [owner |-> d, ready |-> FALSE, exp |-> exp, readyBy |-> ReadyLimit]]
  BY DEF Connect
<1> DEFINE S == {u \in Listed : att[u].owner = d}
<1>2. phase' = [Closing(S) EXCEPT ![s] = "open"] /\ phase[s] = "new"
  BY DEF Connect
<1>3. /\ Closing(S) \in [Sockets -> {"new", "open", "closing", "closed"}]
      /\ Closing(S)[t] = "open" => phase[t] = "open" /\ t \notin S
      /\ Closing(S)[t] = "new" <=> phase[t] = "new"
  BY ClosingPhases
<1>4. phase[t] = "open" => (t \in S <=> att[t].owner = d)
  BY DEF Listed
<1> HIDE DEF S
<1>5. t # s /\ phase'[t] = "open" => phase[t] = "open" /\ att[t].owner # d
  BY <1>2, <1>3, <1>4
<1>6. t # s => att'[t] = att[t]
  BY <1>1 DEF TypeOK
<1>7. att'[s].owner = d /\ ~att'[s].ready
  BY <1>1 DEF TypeOK
<1>8. phase'[s] = "open" /\ (phase'[t] = "new" => phase[t] = "new")
  BY <1>2, <1>3
<1>9. heard' = heard /\ online' = online
  BY DEF Connect
<1>10. QED BY <1>2, <1>5, <1>6, <1>7, <1>8, <1>9

FreshInv == TypeOK /\ Fresh /\ NothingBeforeReady

(* A socket that never came stays unready.                                  *)
LEMMA FreshStep == TypeOK /\ Fresh /\ [Next]_vars => Fresh'
<1> SUFFICES ASSUME TypeOK, Fresh, [Next]_vars, NEW t \in Sockets, phase'[t] = "new"
             PROVE  ~att'[t].ready
  BY DEF Fresh
<1>1. ASSUME NEW s \in Sockets, NEW d \in Devices, Connect(d, s) PROVE ~att'[t].ready
  <2>1. t # s /\ att'[t] = att[t] /\ phase[t] = "new"
    BY <1>1, Joining
  <2>2. QED BY <2>1 DEF Fresh
<1>2. CASE NobodyJoins
  <2>1. phase[t] = "new" /\ (att'[t].ready => att[t].ready)
    BY <1>2, OthersKeep
  <2>2. QED BY <2>1 DEF Fresh
<1>3. QED BY <1>1, <1>2 DEF NobodyJoins

(* Every handler keeps what is said and heard behind ready.                 *)
LEMMA ReadyFirstStep == FreshInv /\ [Next]_vars => NothingBeforeReady'
<1> SUFFICES ASSUME TypeOK, Fresh, NothingBeforeReady, [Next]_vars, NEW t \in Sockets
             PROVE  /\ online'[t] \/ heard'[t] # None => att'[t].ready
                    /\ heard'[t] # None => att'[heard'[t]].ready /\ att'[heard'[t]].owner # att'[t].owner
  BY DEF FreshInv, NothingBeforeReady
<1> DEFINE Told1 == online'[t] => att'[t].ready
           Told2 == heard'[t] # None =>
                      att'[t].ready /\ att'[heard'[t]].ready /\ att'[heard'[t]].owner # att'[t].owner
<1>0. /\ online[t] \/ heard[t] # None => att[t].ready
      /\ heard[t] # None => att[heard[t]].ready /\ att[heard[t]].owner # att[t].owner /\ heard[t] \in Sockets
  BY DEF NothingBeforeReady, TypeOK
<1>1. ASSUME NEW s \in Sockets, NEW d \in Devices, Connect(d, s) PROVE Told1 /\ Told2
  <2>1. ~att[s].ready /\ online' = online /\ heard' = heard
    BY <1>1, Joining DEF Fresh
  <2>2. \A u \in Sockets : u # s => att'[u] = att[u]
    BY <1>1, Joining
  <2>3. QED BY <1>0, <2>1, <2>2
<1>2. ASSUME NobodyJoins, online'[t] => online[t], heard'[t] \in {heard[t], None} PROVE Told1 /\ Told2
  <2>1. \A u \in Sockets : att'[u].owner = att[u].owner /\ (att[u].ready => att'[u].ready)
    BY <1>2, OthersKeep
  <2>2. QED BY <1>0, <1>2, <2>1
<1>3. ASSUME NobodyJoins, NEW s \in Sockets, Ready(s) PROVE Told1 /\ Told2
  <2>1. \A u \in Sockets : att'[u].owner = att[u].owner /\ (att[u].ready => att'[u].ready)
    BY <1>3, OthersKeep
  <2>2. att'[s].ready
    <3>1. att' = [att EXCEPT ![s] = [att[s] EXCEPT !.ready = TRUE, !.readyBy = 0]]
      BY <1>3 DEF Ready
    <3>2. att[s] \in Attachments /\ att'[s] = [att[s] EXCEPT !.ready = TRUE, !.readyBy = 0]
      BY <3>1 DEF TypeOK
    <3>3. 0 \in 0 .. Life /\ 0 \in 0 .. ReadyLimit
      BY RoomAssumption
    <3>4. QED BY <3>2, <3>3, PairFields
  <2>3. \/ online' = Told({s}, FALSE)
        \/ \E p \in Peers(att[s].owner) : online' = Told({s, p}, TRUE)
    BY <1>3 DEF Ready
  <2>4. \A p \in Peers(att[s].owner) : att'[p].ready
    BY <2>1 DEF Peers, Listed
  <2>5. Told1
    <3>1. CASE online' = Told({s}, FALSE)
      BY <1>0, <2>1, <3>1 DEF Told
    <3>2. ASSUME NEW p \in Peers(att[s].owner), online' = Told({s, p}, TRUE) PROVE Told1
      BY <1>0, <2>1, <2>2, <2>4, <3>2 DEF Told
    <3>3. QED BY <2>3, <3>1, <3>2
  <2>6. heard' = heard
    BY <1>3 DEF Ready
  <2>7. QED BY <1>0, <2>1, <2>5, <2>6
<1>4. ASSUME NobodyJoins, NEW s \in Sockets, Forward(s) PROVE Told1 /\ Told2
  <2>1. att' = att /\ online' = online /\ att[s].ready
    BY <1>4 DEF Forward
  <2>2. PICK p \in Peers(att[s].owner) : heard' = [heard EXCEPT ![p] = s]
    BY <1>4 DEF Forward
  <2>3. att[p].ready /\ att[p].owner # att[s].owner
    BY <2>2 DEF Peers
  <2>4. heard'[t] = heard[t] \/ (t = p /\ heard'[t] = s)
    BY <2>2 DEF TypeOK
  <2>5. QED BY <1>0, <2>1, <2>3, <2>4
<1>5. ASSUME NEW s \in Sockets, Closed(s) PROVE (online'[t] => online[t]) /\ heard'[t] \in {heard[t], None}
  <2>1. heard' = [heard EXCEPT ![s] = None]
    BY <1>5 DEF Closed
  <2>2. PICK p : online' = [Told({p}, FALSE) EXCEPT ![s] = FALSE]
    BY <1>5 DEF Closed
  <2>3. Told({p}, FALSE)[t] => online[t]
    BY DEF Told
  <2>4. Told({p}, FALSE) \in [Sockets -> BOOLEAN]
    BY ToldType
  <2>5. online'[t] => Told({p}, FALSE)[t]
    BY <2>2, <2>4
  <2>6. heard'[t] \in {heard[t], None}
    BY <2>1 DEF TypeOK
  <2>7. QED BY <2>3, <2>5, <2>6
<1>6. CASE ~NobodyJoins
  BY <1>1, <1>6 DEF NobodyJoins
<1>7. CASE NobodyJoins /\ UNCHANGED <<online, heard>>
  BY <1>2, <1>7
<1>8. CASE NobodyJoins
  BY <1>2, <1>3, <1>4, <1>5, <1>7, <1>8
  DEF Next, vars, NobodyJoins, FrameRefused, Renew, RenewRefused, Renewed, Alarm, Revoke, Tick
<1>9. QED BY <1>6, <1>8

(* Nothing reaches a socket, and no socket is heard of, before it has sent  *)
(* ready, for any number of sockets, devices and reconnects.                *)
THEOREM ReadyFirst == Spec => []NothingBeforeReady
<1>1. Init => FreshInv
  <2>1. Init => Fresh /\ NothingBeforeReady
    BY RoomAssumption DEF Init, Fresh, NothingBeforeReady, NotAccepted
  <2>2. QED BY <2>1, TypeInit DEF FreshInv
<1>2. FreshInv /\ [Next]_vars => FreshInv'
  BY TypeStep, FreshStep, ReadyFirstStep DEF FreshInv
<1>3. FreshInv => NothingBeforeReady
  BY DEF FreshInv
<1>4. QED BY <1>1, <1>2, <1>3, PTL DEF Spec
-----------------------------------------------------------------------------
Owners == {att[s].owner : s \in {t \in Sockets : Open(t)}}

(* The devices of any sockets are finitely many.                            *)
LEMMA OwnersFinite ==
  ASSUME TypeOK, NEW S, S \subseteq Sockets
  PROVE  IsFiniteSet({att[s].owner : s \in S})
<1>1. IsFiniteSet(Devices \cup {None})
  BY RoomAssumption, FS_AddElement
<1>2. {att[s].owner : s \in S} \subseteq Devices \cup {None}
  BY DEF TypeOK, Attachments
<1>3. QED BY <1>1, <1>2, FS_Subset

(* RoomFor lets a device in beside one other at most.                       *)
LEMMA TwoAfterJoining ==
  ASSUME TypeOK, NEW s \in Sockets, NEW d \in Devices, Connect(d, s)
  PROVE  Cardinality(Owners') <= 2
<1> DEFINE Listing == {att[t].owner : t \in Listed}
<1>1. IsFiniteSet(Listing)
  BY OwnersFinite DEF Listed
<1>2. Cardinality(Listing \ {d}) < 2
  BY DEF Connect, RoomFor
<1>3. Owners' \subseteq (Listing \ {d}) \cup {d}
  <2> SUFFICES ASSUME NEW t \in Sockets, phase'[t] = "open"
               PROVE  att'[t].owner \in (Listing \ {d}) \cup {d}
    BY DEF Owners, Open
  <2>1. CASE t = s
    BY <2>1, Joining
  <2>2. CASE t # s
    <3>1. phase[t] = "open" /\ att'[t] = att[t]
      BY <2>2, Joining
    <3>2. t \in Listed
      BY <3>1 DEF Listed
    <3>3. QED BY <3>1, <3>2
  <2>3. QED BY <2>1, <2>2
<1> HIDE DEF Listing
<1>4. IsFiniteSet(Listing \ {d}) /\ Cardinality(Listing \ {d}) \in Nat
  BY <1>1, FS_RemoveElement, FS_CardinalityType
<1>5. /\ IsFiniteSet((Listing \ {d}) \cup {d})
      /\ Cardinality((Listing \ {d}) \cup {d}) = Cardinality(Listing \ {d}) + 1
  BY <1>4, FS_AddElement
<1>6. /\ IsFiniteSet(Owners') /\ Cardinality(Owners') <= Cardinality((Listing \ {d}) \cup {d})
  BY <1>3, <1>5, FS_Subset
<1>7. Cardinality(Owners') \in Nat
  BY <1>6, FS_CardinalityType
<1>8. QED BY <1>2, <1>4, <1>5, <1>6, <1>7

TwoInv == TypeOK /\ TwoDevices

(* Every handler keeps the two devices.                                     *)
LEMMA TwoStep == TwoInv /\ [Next]_vars => TwoDevices'
<1> SUFFICES ASSUME TypeOK, TwoDevices, [Next]_vars PROVE TwoDevices'
  BY DEF TwoInv
<1> DEFINE AtMostTwo == Cardinality(Owners') <= 2
           OnePerDevice == \A s, t \in Sockets :
             phase'[s] = "open" /\ phase'[t] = "open" /\ att'[s].owner = att'[t].owner => s = t
           NobodyStays == revoked' => \A s \in Sockets : phase'[s] # "open"
<1>1. ASSUME NEW s \in Sockets, NEW d \in Devices, Connect(d, s)
      PROVE  AtMostTwo /\ OnePerDevice /\ NobodyStays
  <2>1. AtMostTwo
    BY <1>1, TwoAfterJoining
  <2>2. OnePerDevice
    BY <1>1, Joining DEF TwoDevices, Open
  <2>3. ~revoked'
    BY <1>1 DEF Connect
  <2>4. QED BY <2>1, <2>2, <2>3
<1>2. ASSUME NobodyJoins PROVE AtMostTwo /\ OnePerDevice /\ NobodyStays
  <2>1. \A t \in Sockets : att'[t].owner = att[t].owner /\ (phase'[t] = "open" => phase[t] = "open")
    BY <1>2, OthersKeep
  <2>2. AtMostTwo
    <3>1. IsFiniteSet(Owners) /\ Cardinality(Owners) <= 2
      BY OwnersFinite DEF Owners, TwoDevices
    <3>2. Owners' \subseteq Owners
      BY <2>1 DEF Owners, Open
    <3>3. Cardinality(Owners) \in Nat
      BY <3>1, FS_CardinalityType
    <3>4. IsFiniteSet(Owners') /\ Cardinality(Owners') <= Cardinality(Owners)
      BY <3>1, <3>2, FS_Subset
    <3>5. Cardinality(Owners') \in Nat
      BY <3>4, FS_CardinalityType
    <3>6. QED BY <3>1, <3>3, <3>4, <3>5
  <2>3. OnePerDevice
    BY <2>1 DEF TwoDevices, Open
  <2>4. ASSUME Revoke PROVE NobodyStays
    <3>1. phase' = Closing(Listed)
      BY <2>4 DEF Revoke
    <3>2. QED BY <3>1, ClosingPhases DEF Listed
  <2>5. ASSUME revoked' = revoked PROVE NobodyStays
    BY <2>1, <2>5 DEF TwoDevices, Open
  <2>6. NobodyStays
    BY <1>2, <2>4, <2>5
    DEF Next, vars, NobodyJoins, FrameRefused, Ready, Renew, RenewRefused, Renewed, Forward, Closed,
        Alarm, Tick
  <2>7. QED BY <2>2, <2>3, <2>6
<1>3. AtMostTwo /\ OnePerDevice /\ NobodyStays
  BY <1>1, <1>2 DEF NobodyJoins
<1>4. QED BY <1>3 DEF TwoDevices, Owners, Open

(* However many devices hold tickets and however they come and go, two are  *)
(* in the room at most, each with one socket, and nobody once it is revoked. *)
THEOREM TwoAtMost == Spec => []TwoDevices
<1>1. Init => TwoInv
  <2> SUFFICES ASSUME Init PROVE TwoInv
    OBVIOUS
  <2>1. {t \in Sockets : Open(t)} = {}
    BY DEF Init, Open
  <2>2. {att[s].owner : s \in {t \in Sockets : Open(t)}} = {}
    BY <2>1
  <2>3. Cardinality({att[s].owner : s \in {t \in Sockets : Open(t)}}) <= 2
    BY <2>2, FS_EmptySet
  <2>4. QED BY <2>3, TypeInit DEF TwoInv, TwoDevices, Init, Open
<1>2. TwoInv /\ [Next]_vars => TwoInv'
  BY TypeStep, TwoStep DEF TwoInv
<1>3. TwoInv => TwoDevices
  BY DEF TwoInv
<1>4. QED BY <1>1, <1>2, <1>3, PTL DEF Spec
-----------------------------------------------------------------------------
Covers(s) ==
  /\ alarm # None
  /\ alarm <= att[s].exp
  /\ ~att[s].ready => alarm <= att[s].readyBy

AlarmInv == TypeOK /\ AlarmCovers

(* Where the alarm only moves forward and no deadline does, it still covers. *)
LEMMA StillCovers ==
  ASSUME TypeOK, TypeOK', AlarmCovers, NEW t \in Sockets,
         phase[t] = "open", alarm' # None, alarm' <= alarm,
         att'[t].exp >= att[t].exp,
         att'[t].ready \/ (~att[t].ready /\ att'[t].readyBy >= att[t].readyBy)
  PROVE  Covers(t)'
<1>1. alarm # None /\ alarm <= att[t].exp /\ (~att[t].ready => alarm <= att[t].readyBy)
  BY DEF AlarmCovers, Open
<1>2. alarm \in Nat /\ alarm' \in Nat
  BY <1>1, LongestBounds DEF TypeOK
<1>3. att[t] \in Attachments /\ att'[t] \in Attachments
  BY DEF TypeOK
<1>4. att[t].exp \in Nat /\ att'[t].exp \in Nat /\ att[t].readyBy \in Nat /\ att'[t].readyBy \in Nat
  BY <1>3 DEF Attachments
<1>5. QED BY <1>1, <1>2, <1>4 DEF Covers

(* Accepting a socket schedules its first deadline, and none later.         *)
LEMMA JoinCovers ==
  ASSUME TypeOK, TypeOK', AlarmCovers, NEW s \in Sockets, NEW d \in Devices, Connect(d, s),
         NEW t \in Sockets, phase'[t] = "open"
  PROVE  Covers(t)'
<1>1. PICK exp \in 1 .. Life :
        /\ att' = [att EXCEPT ![s] = [owner |-> d, ready |-> FALSE, exp |-> exp, readyBy |-> ReadyLimit]]
        /\ Schedule(Min({exp, ReadyLimit}))
  BY DEF Connect, Lives
<1>2. exp \in 0 .. Life /\ ReadyLimit \in Nat /\ ReadyLimit <= Longest
  BY LongestBounds, RoomAssumption
<1>3. /\ Min({exp, ReadyLimit}) \in 0 .. Longest
      /\ Min({exp, ReadyLimit}) <= exp /\ Min({exp, ReadyLimit}) <= ReadyLimit
  BY <1>2, AcceptDeadline
<1>4. /\ alarm' \in 0 .. Longest /\ alarm' <= Min({exp, ReadyLimit}) /\ alarm' # None
      /\ alarm # None => alarm' <= alarm
  BY <1>1, <1>3, ScheduleCovers DEF TypeOK
<1>5. Longest \in Nat
  BY LongestBounds
<1>6. CASE t = s
  <2>1. att'[t].exp = exp /\ att'[t].readyBy = ReadyLimit
    BY <1>1, <1>6 DEF TypeOK
  <2>2. alarm' <= exp /\ alarm' <= ReadyLimit
    BY <1>2, <1>3, <1>4, <1>5
  <2>3. QED BY <1>4, <2>1, <2>2 DEF Covers
<1>7. CASE t # s
  <2>1. phase[t] = "open" /\ att'[t] = att[t]
    BY <1>7, Joining
  <2>2. alarm # None
    BY <2>1 DEF AlarmCovers, Open
  <2>3. att[t].exp \in Nat /\ att[t].readyBy \in Nat
    <3>1. att[t] \in Attachments
      BY DEF TypeOK
    <3>2. QED BY <3>1 DEF Attachments
  <2>4. att'[t].exp >= att[t].exp /\ (att'[t].ready \/ (~att[t].ready /\ att'[t].readyBy >= att[t].readyBy))
    BY <2>1, <2>3
  <2>5. QED BY <1>4, <2>1, <2>2, <2>4, StillCovers
<1>8. QED BY <1>6, <1>7

(* A renewal schedules the new deadline, however late its check ends.       *)
LEMMA RenewedCovers ==
  ASSUME TypeOK, TypeOK', AlarmCovers, NEW s \in Sockets, Renewed(s), NEW t \in Sockets, phase[t] = "open"
  PROVE  Covers(t)'
<1>1. PICK life \in 1 .. Life :
        /\ att' = [att EXCEPT ![s] = [att[s] EXCEPT !.exp =
                     IF Reachable(s) THEN Left(life, renewing[s]) ELSE 0]]
        /\ Schedule(Min({Left(life, renewing[s]), Left(Sweep, renewing[s])}))
  BY DEF Renewed, Lives
<1> DEFINE exp == Left(life, renewing[s])
           sweep == Left(Sweep, renewing[s])
<1>2. renewing[s] \in Nat
  BY LongestBounds DEF Renewed, TypeOK
<1>3. exp \in 0 .. Life /\ sweep \in Nat /\ sweep <= Sweep
  <2>1. Life \in Nat /\ life \in Nat /\ life <= Life /\ Sweep \in Nat
    BY RoomAssumption
  <2>2. exp \in Nat /\ exp <= life
    BY <1>2, <2>1, LeftIsNatural
  <2>3. sweep \in Nat /\ sweep <= Sweep
    BY <1>2, <2>1, LeftIsNatural
  <2> HIDE DEF exp, sweep
  <2>4. QED BY <2>1, <2>2, <2>3
<1>4. sweep <= Longest
  BY <1>3, LongestBounds, RoomAssumption
<1>5. att[t] \in Attachments /\ att[t].exp \in Nat /\ att[t].readyBy \in Nat
  <2>1. att[t] \in Attachments
    BY DEF TypeOK
  <2>2. QED BY <2>1 DEF Attachments
<1>6. alarm # None /\ alarm <= att[t].exp /\ (~att[t].ready => alarm <= att[t].readyBy)
  BY DEF AlarmCovers, Open
<1>7. Schedule(Min({exp, sweep}))
  BY <1>1
<1> HIDE DEF exp, sweep
<1>8. Min({exp, sweep}) \in 0 .. Longest /\ Min({exp, sweep}) <= exp
  BY <1>3, <1>4, AcceptDeadline
<1>9. alarm' \in 0 .. Longest /\ alarm' <= Min({exp, sweep}) /\ alarm' # None /\ alarm' <= alarm
  BY <1>6, <1>7, <1>8, ScheduleCovers DEF TypeOK
<1>10. CASE t = s
  <2>1. att'[t] = [att[t] EXCEPT !.exp = exp]
    BY <1>1, <1>10 DEF exp, Reachable, TypeOK
  <2>2. att'[t].exp = exp /\ att'[t].ready = att[t].ready /\ att'[t].readyBy = att[t].readyBy
    BY <1>5, <2>1, OtherFields
  <2>3. alarm' <= exp
    BY <1>3, <1>8, <1>9, LongestBounds
  <2>4. alarm \in Nat
    BY <1>6, LongestBounds DEF TypeOK
  <2>5. ~att[t].ready => alarm' <= att[t].readyBy
    BY <1>5, <1>6, <1>9, <2>4, LongestBounds
  <2>6. QED BY <1>9, <2>2, <2>3, <2>5 DEF Covers
<1>11. CASE t # s
  <2>1. att'[t] = att[t]
    BY <1>1, <1>11 DEF TypeOK
  <2>2. att'[t].exp >= att[t].exp /\ (att'[t].ready \/ (~att[t].ready /\ att'[t].readyBy >= att[t].readyBy))
    BY <1>5, <2>1
  <2>3. QED BY <1>9, <2>2, StillCovers
<1>12. QED BY <1>10, <1>11

(* The alarm itself is set for the earliest deadline of those it leaves.    *)
LEMMA AlarmRuns ==
  ASSUME TypeOK, TypeOK', Alarm, NEW t \in Sockets, phase'[t] = "open"
  PROVE  Covers(t)'
<1> DEFINE stale == {s \in Listed : att[s].exp = 0 \/ (~att[s].ready /\ att[s].readyBy = 0)}
           deadlines(s) == {att[s].exp, Sweep} \cup (IF att[s].ready THEN {} ELSE {att[s].readyBy})
           all == UNION {deadlines(s) : s \in Listed \ stale}
<1>1. alarm' = Earliest(all) /\ phase' = Closing(stale) /\ att' = att
  BY DEF Alarm
<1>2. all \subseteq Nat
  <2> SUFFICES ASSUME NEW s \in Sockets PROVE deadlines(s) \subseteq Nat
    BY DEF Listed
  <2>1. att[s] \in Attachments
    BY DEF TypeOK
  <2>2. att[s].exp \in Nat /\ att[s].readyBy \in Nat
    BY <2>1 DEF Attachments
  <2>3. QED BY <2>2, RoomAssumption
<1>3. t \in Listed \ stale
  <2> HIDE DEF stale
  <2>1. phase[t] = "open" /\ t \notin stale
    BY <1>1, ClosingPhases
  <2>2. QED BY <2>1 DEF Listed
<1>4. att[t].exp \in all /\ (~att[t].ready => att[t].readyBy \in all)
  BY <1>3
<1> HIDE DEF all
<1>5. Min(all) \in all /\ \A y \in all : Min(all) <= y
  BY <1>2, <1>4, MinIsLeast
<1>6. alarm' = Min(all) /\ alarm' # None
  BY <1>1, <1>2, <1>4, <1>5, RoomAssumption DEF Earliest
<1>7. QED BY <1>1, <1>4, <1>5, <1>6 DEF Covers

(* Time brings alarm and deadlines nearer alike.                            *)
LEMMA TickCovers ==
  ASSUME TypeOK, TypeOK', AlarmCovers, Tick, NEW t \in Sockets, phase[t] = "open"
  PROVE  Covers(t)'
<1>1. alarm # None /\ alarm <= att[t].exp /\ (~att[t].ready => alarm <= att[t].readyBy)
  BY DEF AlarmCovers, Open
<1>2. alarm \in Nat /\ None \notin Nat
  BY <1>1, LongestBounds, RoomAssumption DEF TypeOK
<1>3. att[t] \in Attachments
  BY DEF TypeOK
<1>4. att[t].exp \in 0 .. Life /\ att[t].readyBy \in 0 .. ReadyLimit
  BY <1>3 DEF Attachments
<1>5. Left(att[t].exp, 1) \in 0 .. Life /\ Left(att[t].readyBy, 1) \in 0 .. ReadyLimit
  BY <1>4, RoomAssumption DEF Left
<1>6. att'[t] = [att[t] EXCEPT !.exp = Left(att[t].exp, 1), !.readyBy = Left(att[t].readyBy, 1)]
  BY DEF Tick
<1>7. /\ att'[t].exp = Left(att[t].exp, 1) /\ att'[t].readyBy = Left(att[t].readyBy, 1)
      /\ att'[t].ready = att[t].ready
  BY <1>3, <1>5, <1>6, PairFields
<1>8. alarm' = Left(alarm, 1)
  BY <1>1 DEF Tick
<1>9. Left(alarm, 1) \in Nat /\ Left(alarm, 1) <= Left(att[t].exp, 1)
      /\ (~att[t].ready => Left(alarm, 1) <= Left(att[t].readyBy, 1))
  BY <1>1, <1>2, <1>4, RoomAssumption DEF Left
<1>10. QED BY <1>2, <1>7, <1>8, <1>9 DEF Covers

(* Every handler keeps the alarm in time.                                   *)
LEMMA AlarmInvStep == AlarmInv /\ [Next]_vars => AlarmInv'
<1> SUFFICES ASSUME TypeOK, AlarmCovers, [Next]_vars, TypeOK' PROVE AlarmCovers'
  BY TypeStep DEF AlarmInv
<1> SUFFICES ASSUME NEW t \in Sockets, phase'[t] = "open" PROVE Covers(t)'
  BY DEF AlarmCovers, Covers, Open
<1>1. ASSUME NEW s \in Sockets, NEW d \in Devices, Connect(d, s) PROVE Covers(t)'
  BY <1>1, JoinCovers
<1>2. ASSUME NobodyJoins PROVE Covers(t)'
  <2>1. phase[t] = "open"
    BY <1>2, OthersKeep
  <2>2. alarm # None /\ alarm \in Nat
    BY <2>1, LongestBounds DEF AlarmCovers, Open, TypeOK
  <2>3. att[t] \in Attachments /\ att[t].exp \in Nat /\ att[t].readyBy \in Nat
    <3>1. att[t] \in Attachments
      BY DEF TypeOK
    <3>2. QED BY <3>1 DEF Attachments
  <2>4. ASSUME alarm' = alarm, att'[t] = att[t] PROVE Covers(t)'
    <3>1. att'[t].exp >= att[t].exp /\ (att'[t].ready \/ (~att[t].ready /\ att'[t].readyBy >= att[t].readyBy))
      BY <2>3, <2>4
    <3>2. QED BY <2>1, <2>2, <2>4, <3>1, StillCovers
  <2>5. ASSUME NEW s \in Sockets, Ready(s) PROVE Covers(t)'
    <3>1. att' = [att EXCEPT ![s] = [att[s] EXCEPT !.ready = TRUE, !.readyBy = 0]] /\ alarm' = alarm
      BY <2>5 DEF Ready
    <3>2. CASE t = s
      <4>1. att'[t] = [att[t] EXCEPT !.ready = TRUE, !.readyBy = 0]
        BY <3>1, <3>2 DEF TypeOK
      <4>2. 0 \in 0 .. Life /\ 0 \in 0 .. ReadyLimit
        BY RoomAssumption
      <4>3. att'[t].ready /\ att'[t].exp = att[t].exp
        BY <2>3, <4>1, <4>2, PairFields
      <4>4. QED BY <2>1, <2>2, <2>3, <3>1, <4>3, StillCovers
    <3>3. CASE t # s
      <4>1. att'[t] = att[t]
        BY <3>1, <3>3 DEF TypeOK
      <4>2. QED BY <2>4, <3>1, <4>1
    <3>4. QED BY <3>2, <3>3
  <2>6. ASSUME NEW s \in Sockets, Closed(s) PROVE alarm' = alarm /\ att'[t] = att[t]
    <3>1. t # s
      BY <2>6 DEF Closed, TypeOK
    <3>2. QED BY <2>6, <3>1 DEF Closed, TypeOK
  <2>7. ASSUME NEW s \in Sockets, Renewed(s) PROVE Covers(t)'
    BY <2>1, <2>7, RenewedCovers
  <2>8. ASSUME Alarm PROVE Covers(t)'
    BY <2>8, AlarmRuns
  <2>9. ASSUME Tick PROVE Covers(t)'
    BY <2>1, <2>9, TickCovers
  <2>10. QED
    BY <1>2, <2>4, <2>5, <2>6, <2>7, <2>8, <2>9
    DEF Next, vars, NobodyJoins, FrameRefused, Renew, RenewRefused, Forward, Revoke
<1>3. QED BY <1>1, <1>2 DEF NobodyJoins

(* For every choice of the ticket's life, the limit for ready and the sweep, *)
(* the alarm is never later than a deadline of an open socket.               *)
THEOREM AlarmInTime == Spec => []AlarmCovers
<1>1. Init => AlarmInv
  BY TypeInit DEF Init, AlarmInv, AlarmCovers, Open
<1>2. AlarmInv /\ [Next]_vars => AlarmInv'
  BY AlarmInvStep
<1>3. AlarmInv => AlarmCovers
  BY DEF AlarmInv
<1>4. QED BY <1>1, <1>2, <1>3, PTL DEF Spec
-----------------------------------------------------------------------------
(* A socket has an owner once it came.                                      *)
Owned == \A s \in Sockets : phase[s] = "new" <=> att[s].owner = None
Comers == {att[s].owner : s \in Sockets} \ {None}

PairInv == TypeOK /\ TwoDevices /\ Owned /\ PairLearns

(* Of two devices that came, one is that of any socket.                     *)
LEMMA OneOfTwo ==
  ASSUME TypeOK, Owned, Cardinality(Comers) <= 2, NEW s \in Sockets, NEW t \in Sockets, NEW u \in Sockets,
         phase[s] # "new", phase[t] # "new", phase[u] # "new", att[s].owner # att[t].owner
  PROVE  att[u].owner \in {att[s].owner, att[t].owner}
<1> DEFINE Two == {att[s].owner, att[t].owner}
<1>1. IsFiniteSet(Comers) /\ Cardinality(Comers) \in Nat
  BY OwnersFinite, FS_RemoveElement, FS_CardinalityType DEF Comers
<1>2. Two \subseteq Comers /\ att[u].owner \in Comers
  BY DEF Owned, Comers
<1>3. Cardinality(Two) = 2
  <2>1. IsFiniteSet({att[s].owner}) /\ Cardinality({att[s].owner}) = 1
    BY FS_Singleton
  <2>2. Cardinality({att[s].owner} \cup {att[t].owner}) = 2
    BY <2>1, FS_AddElement
  <2>3. Two = {att[s].owner} \cup {att[t].owner}
    OBVIOUS
  <2>4. QED BY <2>2, <2>3
<1> HIDE DEF Two
<1>4. Cardinality(Two) <= Cardinality(Comers) /\ (Cardinality(Comers) = Cardinality(Two) => Comers = Two)
  BY <1>1, <1>2, FS_Subset
<1>5. Comers = Two
  BY <1>1, <1>3, <1>4
<1>6. QED BY <1>2, <1>5 DEF Two

(* Sockets keep their owners, and the devices that came stay counted.       *)
LEMMA OwnedStep ==
  ASSUME TypeOK, Owned, [Next]_vars
  PROVE  Owned' /\ (Cardinality(Comers') <= 2 => Cardinality(Comers) <= 2)
<1>1. None \notin Devices
  BY RoomAssumption
<1>2. ASSUME NEW s \in Sockets, NEW d \in Devices, Connect(d, s)
      PROVE  Owned' /\ Comers \subseteq Comers'
  <2>1. \A t \in Sockets : t # s => att'[t] = att[t] /\ (phase'[t] = "new" <=> phase[t] = "new")
    <3> SUFFICES ASSUME NEW t \in Sockets, t # s
                 PROVE  att'[t] = att[t] /\ (phase'[t] = "new" <=> phase[t] = "new")
      OBVIOUS
    <3>1. att'[t] = att[t]
      BY <1>2, Joining
    <3>2. phase' = [Closing({u \in Listed : att[u].owner = d}) EXCEPT ![s] = "open"]
      BY <1>2 DEF Connect
    <3>3. phase'[t] = "new" <=> phase[t] = "new"
      BY <3>2, ClosingPhases
    <3>4. QED BY <3>1, <3>3
  <2>2. att'[s].owner = d /\ phase'[s] = "open" /\ phase[s] = "new"
    BY <1>2, Joining
  <2>3. att[s].owner = None
    BY <2>2 DEF Owned
  <2>4. QED BY <1>1, <2>1, <2>2, <2>3 DEF Owned, Comers
<1>3. ASSUME NobodyJoins PROVE Owned' /\ Comers = Comers'
  <2>1. \A t \in Sockets : att'[t].owner = att[t].owner /\ (phase'[t] = "new" => phase[t] = "new")
    BY <1>3, OthersKeep
  <2>2. \A t \in Sockets : phase[t] = "new" => phase'[t] = "new"
    <3>1. ASSUME NEW S, phase' = Closing(S), NEW t \in Sockets, phase[t] = "new" PROVE phase'[t] = "new"
      BY <3>1, ClosingPhases
    <3>2. ASSUME NEW s \in Sockets, Closed(s), NEW t \in Sockets, phase[t] = "new" PROVE phase'[t] = "new"
      BY <3>2 DEF Closed, Reachable, TypeOK
    <3>3. Alarm => \E S : phase' = Closing(S)
      BY DEF Alarm
    <3>4. Revoke => phase' = Closing(Listed)
      BY DEF Revoke
    <3>5. UNCHANGED phase => \A t \in Sockets : phase[t] = "new" => phase'[t] = "new"
      OBVIOUS
    <3>6. QED
      BY <1>3, <3>1, <3>2, <3>3, <3>4, <3>5, Zenon
      DEF Next, vars, NobodyJoins, FrameRefused, Ready, Renew, RenewRefused, Renewed, Forward, Tick
  <2>3. QED BY <2>1, <2>2 DEF Owned, Comers
<1>4. Owned' /\ Comers \subseteq Comers'
  BY <1>2, <1>3 DEF NobodyJoins
<1>5. ASSUME Cardinality(Comers') <= 2 PROVE Cardinality(Comers) <= 2
  <2>1. TypeOK'
    BY TypeStep
  <2>2. IsFiniteSet(Comers')
    <3>1. IsFiniteSet(Devices \cup {None})
      BY RoomAssumption, FS_AddElement
    <3>2. Comers' \subseteq Devices \cup {None}
      BY <2>1 DEF TypeOK, Attachments, Comers
    <3>3. QED BY <3>1, <3>2, FS_Subset
  <2>3. IsFiniteSet(Comers) /\ Cardinality(Comers) <= Cardinality(Comers')
    BY <1>4, <2>2, FS_Subset
  <2>4. Cardinality(Comers) \in Nat /\ Cardinality(Comers') \in Nat
    BY <2>2, <2>3, FS_CardinalityType
  <2>5. PICK m \in Nat, n \in Nat : m = Cardinality(Comers) /\ n = Cardinality(Comers')
    BY <2>4
  <2>6. QED BY <1>5, <2>3, <2>5
<1>6. QED BY <1>4, <1>5

(* Where two devices at most have come and no closed socket is listed,      *)
(* every handler leaves two sockets that face each other informed.          *)
LEMMA LearnsStep == PairInv /\ [Next]_vars => PairLearns'
<1> SUFFICES ASSUME TypeOK, TwoDevices, Owned, PairLearns, [Next]_vars,
                    ~lingers', Cardinality(Comers') <= 2,
                    NEW s \in Sockets, NEW t \in Sockets, Faces(s, t)'
             PROVE  online'[s]
  BY DEF PairInv, PairLearns, PeersLearn, Comers
<1>0. ~lingers /\ Cardinality(Comers) <= 2
  <2>1. lingers' = lingers
    BY Zenon DEF Next, vars, Connect, FrameRefused, Ready, Renew, RenewRefused, Renewed, Forward, Closed, Alarm,
           Revoke, Tick
  <2>2. QED BY <2>1, OwnedStep
<1>1. \A p, q \in Sockets : Faces(p, q) => online[p]
  BY <1>0, Zenon DEF PairLearns, PeersLearn, Comers
<1>2. /\ phase'[s] = "open" /\ phase'[t] = "open" /\ att'[s].owner # att'[t].owner
      /\ att'[s].ready /\ att'[t].ready
  BY DEF Faces, Open
<1>3. ASSUME NEW c \in Sockets, NEW d \in Devices, Connect(d, c) PROVE online'[s]
  <2>1. s # c /\ t # c /\ online' = online
    BY <1>2, <1>3, Joining
  <2>2. Faces(s, t)
    BY <1>2, <1>3, <2>1, Joining DEF Faces, Open
  <2>3. QED BY <1>1, <2>1, <2>2
<1>4. ASSUME NobodyJoins PROVE online'[s]
  <2>0. \A u \in Sockets :
          /\ att'[u].owner = att[u].owner /\ (phase'[u] = "open" => phase[u] = "open")
          /\ phase[u] # "new" => phase'[u] # "new" \/ phase'[u] = "new"
    BY <1>4, OthersKeep
  <2>1. phase[s] = "open" /\ phase[t] = "open" /\ att[s].owner # att[t].owner
    BY <1>2, <2>0
  <2>2. ASSUME NEW u \in Sockets, Ready(u) PROVE online'[s]
    <3>1. phase[u] \in {"open", "closing"} /\ ~att[u].ready
      BY <2>2 DEF Ready, Accepted, Reachable
    <3>2. \A v \in Sockets \ {u} : att'[v] = att[v]
      BY <2>2 DEF Ready, TypeOK
    <3>3. CASE s = u
      <4>1. t # u /\ t \in Peers(att[u].owner)
        BY <1>2, <2>1, <3>2, <3>3 DEF Peers, Listed
      <4>2. PICK p \in Peers(att[u].owner) : online' = Told({u, p}, TRUE)
        BY <2>2, <4>1 DEF Ready
      <4>3. QED BY <2>1, <3>3, <4>2 DEF Told
    <3>4. CASE t = u
      <4>1. s # u /\ s \in Peers(att[u].owner)
        BY <1>2, <2>1, <3>2, <3>4 DEF Peers, Listed
      <4>2. PICK p \in Peers(att[u].owner) : online' = Told({u, p}, TRUE)
        BY <2>2, <4>1 DEF Ready
      <4>3. p \in Sockets /\ phase[p] = "open" /\ att[p].owner # att[u].owner
        BY <1>0, <4>2 DEF Peers, Listed
      <4>4. att[p].owner \in {att[s].owner, att[u].owner}
        BY <1>0, <2>1, <3>4, <4>3, OneOfTwo
      <4>5. p = s
        BY <2>1, <4>3, <4>4 DEF TwoDevices, Open
      <4>6. QED BY <2>1, <4>2, <4>5 DEF Told
    <3>5. CASE s # u /\ t # u
      <4>1. Faces(s, t)
        BY <1>2, <2>1, <3>2, <3>5 DEF Faces, Open
      <4>2. online[s]
        BY <1>1, <4>1
      <4>3. \/ online' = Told({u}, FALSE)
            \/ \E p \in Peers(att[u].owner) : online' = Told({u, p}, TRUE)
        BY <2>2 DEF Ready
      <4>4. CASE online' = Told({u}, FALSE)
        BY <3>5, <4>2, <4>4 DEF Told
      <4>5. ASSUME NEW p, online' = Told({u, p}, TRUE) PROVE online'[s]
        BY <3>5, <4>2, <4>5 DEF Told
      <4>6. QED BY <4>3, <4>4, <4>5
    <3>6. QED BY <3>3, <3>4, <3>5
  <2>3. ASSUME NEW u \in Sockets, Closed(u) PROVE online'[s]
    <3> DEFINE stillHere == \E v \in Listed \ {u} : att[v].owner = att[u].owner
               told == IF att[u].ready /\ ~stillHere THEN Peers(att[u].owner) ELSE {}
    <3>1. PICK p \in told \cup (IF told = {} THEN {u} ELSE {}) :
            online' = [Told({p}, FALSE) EXCEPT ![u] = FALSE]
      BY <2>3, Zenon DEF Closed
    <3>2. phase[u] \in {"open", "closing"} /\ phase'[u] = "closed"
      BY <2>3 DEF Closed, Reachable, TypeOK
    <3>3. s # u /\ t # u
      BY <1>2, <3>2
    <3>4. att'[s] = att[s] /\ att'[t] = att[t]
      BY <2>3, <3>3 DEF Closed, TypeOK
    <3>5. online[s]
      BY <1>1, <1>2, <2>1, <3>4 DEF Faces, Open
    <3>6. p # s
      <4> SUFFICES ASSUME p = s PROVE FALSE
        OBVIOUS
      <4>1. told # {}
        BY <3>1, <3>3
      <4>2. ~stillHere /\ s \in Peers(att[u].owner)
        BY <3>1, <4>1, Zenon
      <4>3. att[s].owner # att[u].owner
        BY <4>2 DEF Peers
      <4>4. att[t].owner \in {att[s].owner, att[u].owner}
        BY <1>0, <2>1, <3>2, <4>3, OneOfTwo
      <4>5. t \in Listed \ {u} /\ att[t].owner = att[u].owner
        BY <2>1, <3>3, <4>4 DEF Listed
      <4>6. QED BY <4>2, <4>5, Zenon
    <3> HIDE DEF told
    <3>7. QED BY <3>1, <3>3, <3>5, <3>6 DEF Told
  <2>4. ASSUME UNCHANGED online, \A v \in Sockets : att'[v].ready = att[v].ready PROVE online'[s]
    BY <1>1, <1>2, <2>1, <2>4 DEF Faces, Open
  <2>5. ASSUME NEW u \in Sockets, Renewed(u) PROVE \A v \in Sockets : att'[v].ready = att[v].ready
    <3>1. PICK exp : att' = [att EXCEPT ![u] = [att[u] EXCEPT !.exp = exp]]
      BY <2>5 DEF Renewed
    <3>2. ASSUME NEW v \in Sockets PROVE att'[v].ready = att[v].ready
      <4>1. [att[v] EXCEPT !.exp = exp].ready = att[v].ready
        BY OtherFields DEF TypeOK
      <4>2. att'[v] = att[v] \/ att'[v] = [att[v] EXCEPT !.exp = exp]
        BY <3>1 DEF TypeOK
      <4>3. QED BY <4>1, <4>2
    <3>3. QED BY <3>2
  <2>6. ASSUME Tick PROVE \A v \in Sockets : att'[v].ready = att[v].ready
    <3>1. ASSUME NEW v \in Sockets PROVE att'[v].ready = att[v].ready
      <4>1. att'[v] = [att[v] EXCEPT !.exp = Left(att[v].exp, 1), !.readyBy = Left(att[v].readyBy, 1)]
        BY <2>6, <3>1, Zenon DEF Tick
      <4>2. att[v] \in Attachments
        BY DEF TypeOK
      <4>3. Left(att[v].exp, 1) \in 0 .. Life /\ Left(att[v].readyBy, 1) \in 0 .. ReadyLimit
        BY <4>2, RoomAssumption DEF Attachments, Left
      <4>4. QED BY <4>1, <4>2, <4>3, PairFields
    <3>2. QED BY <3>1
  <2>7. \/ UNCHANGED <<att, online>> \/ Tick
        \/ \E u \in Sockets : Ready(u) \/ Closed(u) \/ Renewed(u)
    BY <1>4, Zenon DEF Next, vars, NobodyJoins, FrameRefused, Renew, RenewRefused, Forward, Alarm, Revoke
  <2>8. Tick \/ (\E u \in Sockets : Renewed(u)) => UNCHANGED online
    BY Zenon DEF Tick, Renewed
  <2>9. QED BY <2>2, <2>3, <2>4, <2>5, <2>6, <2>7, <2>8, Zenon
<1>5. QED BY <1>3, <1>4 DEF NobodyJoins

(* However the sockets of the two devices come, are replaced and go, two    *)
(* ready ones have each been told that the other is there.                  *)
THEOREM PairIsTold == Spec => []PairLearns
<1>1. Init => TypeOK /\ Owned /\ PairLearns
  <2> SUFFICES ASSUME Init PROVE Owned /\ PairLearns
    BY TypeInit
  <2>1. \A s \in Sockets : phase[s] = "new" /\ att[s].owner = None
    BY DEF Init, NotAccepted
  <2>2. QED BY <2>1 DEF Owned, PairLearns, PeersLearn, Faces, Open
<1>2. TypeOK /\ Owned /\ PairLearns /\ TwoDevices /\ TwoDevices' /\ [Next]_vars
        => TypeOK' /\ Owned' /\ PairLearns'
  BY TypeStep, OwnedStep, LearnsStep DEF PairInv
<1>3. QED BY <1>1, <1>2, TwoAtMost, PTL DEF Spec
=============================================================================
