---------------------------- MODULE LiveTypingProofs ----------------------------
(***************************************************************************)
(* What TLAPS proves of LiveTyping, for any number of faults and of frames *)
(* on the wire: the keys that are made are bounded by what went wrong.     *)
(*                                                                         *)
(* The invariant is a budget.  It counts the keys made (clock), the causes *)
(* that will make one each (Causes), and the two the receiver may still    *)
(* ask for: while a doubt can lead it to a request that was not needed     *)
(* (Doubt), or while it lacks the sender's key (Apart) and nothing is      *)
(* under way that would send it one.  A fault adds three at most, and no   *)
(* other step adds any: a key that is made takes a cause, a request takes  *)
(* the doubt that led to it, and the key it brings ends the other doubts.  *)
(***************************************************************************)
EXTENDS LiveTyping, FiniteSets, TLAPS, FiniteSetTheorems, NaturalsInduction, WellFoundedInduction

(* The key the receiver will hold when all the mail has come.               *)
Coming == IF keymail = <<>> THEN Newest ELSE keymail[Len(keymail)]

(* The calls in the session queue that make a key.                          *)
Asked(ops) == {i \in 1 .. Len(ops) : ops[i] \in Makes}
(* A condition, counted.                                                    *)
One(p) == IF p THEN 1 ELSE 0
(* The keys that will be made without another request: for calls that wait, *)
(* a rekey request, a channel that will connect for the first time, and a   *)
(* seal of a stopped channel.                                               *)
Causes ==
    Cardinality(Asked(queue)) + One(need) + One(link = "off") + One(link = "retry" /\ epoch = 0)
      + One(reply.op = "connect" /\ reply.e = 0) + One(sealing = "late")

(* May an epoch not be the sender's when the mail has come?                 *)
Stale(e) == e # own \/ Causes >= 1

(* A frame that makes the receiver look for its key: an announcement, or a  *)
(* pulse it cannot open.                                                    *)
Unreadable(f) == f.t # "pulse" \/ f.e \notin keys

(* What may make the receiver ask for a key although it has the last one.   *)
(* It waits for an epoch that is not, or will not be, the sender's;         *)
InVain == checking # 0 /\ Stale(checking)
(* such a frame is on its way to it;                                        *)
OnWire == \E i \in 1 .. Len(wire) : Unreadable(wire[i]) /\ Stale(wire[i].e)
(* two keys are to be made, or one while another travels: the first is      *)
(* announced when it is no longer the sender's;                             *)
Hurried == Causes >= 2 \/ (Causes >= 1 /\ (keymail # <<>> \/ reply # None))
(* an off event takes the key away;                                         *)
Off ==
    \/ \E i \in 1 .. Len(queue) : queue[i] = "off"
    \/ \E i \in 1 .. Len(keymail) : keymail[i] = 0
(* the receiver's next socket is told a stale epoch by the room;            *)
Announces == ~listening /\ link = "up" /\ (Stale(announced) \/ (renewing # 0 /\ Stale(renewing)))
(* the sender's next socket announces one.                                  *)
Reopens == link \in {"wait", "retry"} /\ epoch # 0 /\ Stale(epoch)
(* Any of these.                                                            *)
Doubt == InVain \/ OnWire \/ Hurried \/ Off \/ Announces \/ Reopens

(* The receiver lacks the sender's key: it asks, and may have begun to wait *)
(* for one that is replaced.                                                *)
Apart == Coming # own

(* The request that a doubt or a loss may lead to, and the key it asks for. *)
Doubts == One(Doubt \/ Apart)
Lacks == One(Apart /\ Causes = 0)

(* The keys made, and those that may yet be, without another fault.         *)
Budget == clock + Causes + Doubts + Lacks <= 1 + 3 * faults

(* Epochs grow: with the clock, with the receiver and along the mail.  A    *)
(* result on its way back is of the sender's key.                           *)
Epochs ==
    /\ own <= clock /\ faults \in Nat
    /\ \A k \in keys : k <= clock
    /\ \A i \in 1 .. Len(keymail) : keymail[i] <= clock
    /\ \A i \in 1 .. Len(keymail) : keymail[i] # 0 => \A k \in keys : k < keymail[i]
    /\ \A i, j \in 1 .. Len(keymail) : i < j /\ keymail[j] # 0 => keymail[i] < keymail[j]
    /\ reply.e # 0 => reply.e = own
    /\ reply.op = "none" => reply = None

(* Which calls may wait in the session queue, by the state of the channel;  *)
(* a channel with an epoch has a key behind it.                             *)
Calls ==
    /\ link = "off" => epoch = 0
    /\ link = "up" => epoch # 0
    /\ sealing = "yes" => epoch # 0
    /\ epoch # 0 => own # 0
    /\ \A i \in 1 .. Len(queue) :
          /\ queue[i] = "off" =>
                /\ epoch = 0 /\ reply.op \in {"none", "orphan"}
                /\ \A j \in 1 .. i : queue[j] \in {"off", "orphan"}
          /\ queue[i] = "connect" =>
                /\ link = "wait" /\ epoch = 0 /\ reply.op # "connect"
                /\ \A j \in 1 .. Len(queue) : queue[j] = "connect" => j = i
          /\ queue[i] = "rotate" => epoch # 0
    /\ reply.op = "connect" => link = "wait" /\ epoch = 0
    /\ reply.op = "rotate" => epoch # 0

(* The inductive invariant.                                                 *)
TypingInv == TypeOK /\ Epochs /\ Calls /\ Budget

-----------------------------------------------------------------------------
(* Sequences.                                                               *)

(* An element comes to the end of a sequence.                               *)
LEMMA AppendIs ==
    ASSUME NEW S, NEW s \in Seq(S), NEW x \in S
    PROVE  /\ Append(s, x) \in Seq(S) /\ Len(Append(s, x)) = Len(s) + 1
           /\ Append(s, x) # <<>> /\ Append(s, x)[Len(s) + 1] = x
           /\ \A i \in 1 .. Len(s) : Append(s, x)[i] = s[i]
  OBVIOUS

(* The first element leaves a sequence.                                     *)
LEMMA TailIs ==
    ASSUME NEW S, NEW s \in Seq(S), s # <<>>
    PROVE  /\ Tail(s) \in Seq(S) /\ Len(Tail(s)) = Len(s) - 1 /\ Len(s) \in Nat \ {0}
           /\ Head(s) = s[1] /\ Head(s) \in S
           /\ \A i \in 1 .. Len(s) - 1 : Tail(s)[i] = s[i + 1]
  OBVIOUS

-----------------------------------------------------------------------------
(* Naturals.                                                                *)

(* A set of naturals has a least element.                                   *)
LEMMA LeastNatural ==
    ASSUME NEW S, S \subseteq Nat, S # {}
    PROVE  \E x \in S : \A y \in S : x <= y
  <1>1. PICK x \in S : \A y \in S : ~(<<y, x>> \in OpToRel(<, Nat))
    BY NatLessThanWellFounded, WFMin, Zenon
  <1>2. ASSUME NEW y \in S PROVE x <= y
    <2>1. x \in Nat /\ y \in Nat
      OBVIOUS
    <2>2. ~(y < x)
      BY <1>1, <2>1, Zenon DEF OpToRel
    <2>3. QED BY <2>1, <2>2
  <1>3. QED BY <1>2, Zenon

(* A bounded one has a greatest.                                            *)
LEMMA GreatestNatural ==
    ASSUME NEW S, S \subseteq Nat, S # {}, NEW n \in Nat, \A y \in S : y <= n
    PROVE  \E x \in S : \A y \in S : x >= y
  <1> DEFINE T == {n - x : x \in S}
  <1>1. T \subseteq Nat /\ T # {}
    OBVIOUS
  <1> HIDE DEF T
  <1>2. PICK t \in T : \A u \in T : t <= u
    BY <1>1, LeastNatural, Zenon
  <1>3. PICK x \in S : t = n - x
    BY <1>2, Zenon DEF T
  <1>4. ASSUME NEW y \in S PROVE x >= y
    <2>1. n - y \in T
      BY Zenon DEF T
    <2>2. n - x <= n - y
      BY <1>2, <1>3, <2>1, Zenon
    <2>3. QED BY <2>2
  <1>5. QED BY <1>4, Zenon

-----------------------------------------------------------------------------
-----------------------------------------------------------------------------
(* The types, one by one.                                                   *)
LEMMA TypeParts ==
    TypeOK <=>
      /\ clock \in Nat /\ own \in Nat /\ epoch \in Nat /\ announced \in Nat /\ renewing \in Nat
      /\ checking \in Nat
      /\ link \in {"off", "wait", "retry", "up"}
      /\ queue \in Seq(Makes \cup {"off"})
      /\ reply \in [op : Makes \cup {"none"}, e : Nat]
      /\ sealing \in {"no", "yes", "late"}
      /\ wire \in Seq([t : {"peer", "rekey", "pulse"}, e : Nat])
      /\ keymail \in Seq(Nat) /\ keys \subseteq Nat \ {0}
      /\ wanted \in BOOLEAN /\ rotatable \in BOOLEAN /\ need \in BOOLEAN /\ listening \in BOOLEAN
      /\ askable \in BOOLEAN
  BY Zenon DEF TypeOK

(* The calls of a queue that make keys, when it grows, shrinks, and when    *)
(* the channel is stopped.                                                  *)
LEMMA AskedIs ==
    ASSUME NEW s \in Seq(Makes \cup {"off"})
    PROVE  /\ IsFiniteSet(Asked(s)) /\ Cardinality(Asked(s)) \in Nat
           /\ Asked(s) \subseteq 1 .. Len(s)
           /\ Cardinality(Asked(s)) = 0 => \A i \in 1 .. Len(s) : s[i] = "off"
  <1>1. Len(s) \in Nat /\ \A i \in 1 .. Len(s) : s[i] \in Makes \cup {"off"}
    OBVIOUS
  <1>2. Asked(s) \in SUBSET (1 .. Len(s))
    BY Zenon DEF Asked
  <1>3. IsFiniteSet(Asked(s)) /\ Cardinality(Asked(s)) \in Nat
    <2>1. IsFiniteSet(1 .. Len(s))
      BY <1>1, FS_Interval
    <2>2. IsFiniteSet(Asked(s))
      BY <1>2, <2>1, FS_Subset, Zenon
    <2>3. QED BY <2>2, FS_CardinalityType, Zenon
  <1>4. ASSUME Cardinality(Asked(s)) = 0 PROVE \A i \in 1 .. Len(s) : s[i] = "off"
    <2>1. Asked(s) = {}
      BY <1>3, <1>4, FS_EmptySet
    <2>2. QED BY <1>1, <2>1, Zenon DEF Asked
  <1>5. QED BY <1>2, <1>3, <1>4

(* A call comes to the end.                                                 *)
LEMMA AskedAppend ==
    ASSUME NEW s \in Seq(Makes \cup {"off"}), NEW x \in Makes \cup {"off"}
    PROVE  /\ Append(s, x) \in Seq(Makes \cup {"off"})
           /\ Cardinality(Asked(Append(s, x))) = Cardinality(Asked(s)) + One(x \in Makes)
  <1>1. /\ Append(s, x) \in Seq(Makes \cup {"off"})
        /\ Len(Append(s, x)) = Len(s) + 1 /\ Append(s, x)[Len(s) + 1] = x /\ Len(s) \in Nat
        /\ \A i \in 1 .. Len(s) : Append(s, x)[i] = s[i]
    BY AppendIs
  <1>2. Len(s) + 1 \notin Asked(s)
    BY <1>1 DEF Asked
  <1>3. IsFiniteSet(Asked(s)) /\ Cardinality(Asked(s)) \in Nat
    BY AskedIs
  <1>4. CASE x \in Makes
    <2>1. Asked(Append(s, x)) = Asked(s) \cup {Len(s) + 1}
      BY <1>1, <1>4 DEF Asked
    <2>2. Cardinality(Asked(s) \cup {Len(s) + 1}) = Cardinality(Asked(s)) + 1
      BY <1>2, <1>3, FS_AddElement, Zenon
    <2>3. One(x \in Makes) = 1
      BY <1>4, Zenon DEF One
    <2>4. QED BY <1>1, <1>2, <2>1, <2>2, <2>3
  <1>5. CASE x \notin Makes
    <2>1. Asked(Append(s, x)) = Asked(s)
      BY <1>1, <1>5 DEF Asked
    <2>2. QED BY <1>1, <1>3, <1>5, <2>1 DEF One
  <1>6. QED BY <1>4, <1>5

(* The first call leaves.                                                   *)
LEMMA AskedTail ==
    ASSUME NEW s \in Seq(Makes \cup {"off"}), s # <<>>
    PROVE  /\ Tail(s) \in Seq(Makes \cup {"off"})
           /\ Cardinality(Asked(s)) = Cardinality(Asked(Tail(s))) + One(Head(s) \in Makes)
  <1>1. /\ Tail(s) \in Seq(Makes \cup {"off"}) /\ Len(Tail(s)) = Len(s) - 1 /\ Len(s) \in Nat /\ Len(s) >= 1
        /\ \A i \in 1 .. Len(s) - 1 : Tail(s)[i] = s[i + 1]
        /\ Head(s) = s[1]
    BY TailIs
  <1> DEFINE f == [i \in Asked(Tail(s)) |-> i + 1]
             R == Asked(s) \ {1}
  <1>2. IsFiniteSet(Asked(Tail(s))) /\ IsFiniteSet(Asked(s)) /\ Cardinality(Asked(s)) \in Nat
        /\ Cardinality(Asked(Tail(s))) \in Nat
    BY <1>1, AskedIs
  <1>3. \A i : i \in Asked(Tail(s)) <=> i \in 1 .. Len(s) - 1 /\ i + 1 \in Asked(s)
    BY <1>1 DEF Asked
  <1>4. f \in Bijection(Asked(Tail(s)), R)
    <2>1. \A i \in Asked(Tail(s)) : i \in Int /\ f[i] = i + 1 /\ f[i] \in R
      BY <1>3
    <2>2. \A j \in R : j \in 2 .. Len(s)
      BY <1>1 DEF Asked
    <2>3. ASSUME NEW j \in R PROVE \E i \in Asked(Tail(s)) : f[i] = j
      <3>1. j - 1 \in 1 .. Len(s) - 1 /\ (j - 1) + 1 = j
        BY <1>1, <2>2
      <3>2. j - 1 \in Asked(Tail(s))
        BY <1>3, <3>1
      <3>3. QED BY <2>1, <3>1, <3>2
    <2>4. f \in [Asked(Tail(s)) -> R]
      BY <2>1
    <2>5. f \in Injection(Asked(Tail(s)), R)
      <3>1. \A i, j \in Asked(Tail(s)) : f[i] = f[j] => i = j
        BY <2>1
      <3> HIDE DEF f
      <3>2. QED BY <2>4, <3>1, Zenon DEF Injection, IsInjective
    <2> HIDE DEF f
    <2>6. f \in Surjection(Asked(Tail(s)), R)
      BY <2>3, <2>4, Zenon DEF Surjection
    <2>7. QED BY <2>5, <2>6, Zenon DEF Bijection
  <1> HIDE DEF f
  <1>5. Cardinality(R) = Cardinality(Asked(Tail(s)))
    <2>1. ExistsBijection(Asked(Tail(s)), R)
      BY <1>4, Zenon DEF ExistsBijection
    <2>2. QED BY <1>2, <2>1, FS_Bijection
  <1>6. Cardinality(R) = IF 1 \in Asked(s) THEN Cardinality(Asked(s)) - 1 ELSE Cardinality(Asked(s))
    BY <1>2, FS_RemoveElement
  <1>7. 1 \in Asked(s) <=> Head(s) \in Makes
    BY <1>1 DEF Asked
  <1>8. QED BY <1>1, <1>2, <1>5, <1>6, <1>7 DEF One

(* The channel is stopped: its calls stay, for nobody.                      *)
LEMMA AskedOrphaned ==
    ASSUME NEW s \in Seq(Makes \cup {"off"})
    PROVE  /\ Orphaned(s) \in Seq(Makes \cup {"off"}) /\ Len(Orphaned(s)) = Len(s)
           /\ \A i \in 1 .. Len(s) : Orphaned(s)[i] = IF s[i] = "off" THEN "off" ELSE "orphan"
           /\ Cardinality(Asked(Orphaned(s))) = Cardinality(Asked(s))
  <1> DEFINE o == [i \in 1 .. Len(s) |-> IF s[i] = "off" THEN "off" ELSE "orphan"]
  <1>0. Len(s) \in Nat /\ DOMAIN s = 1 .. Len(s) /\ \A i \in 1 .. Len(s) : s[i] \in Makes \cup {"off"}
    OBVIOUS
  <1>1. Orphaned(s) = o
    BY <1>0, Zenon DEF Orphaned
  <1>2. o \in Seq(Makes \cup {"off"}) /\ Len(o) = Len(s)
    BY <1>0 DEF Makes
  <1>3. \A i \in 1 .. Len(s) : o[i] = IF s[i] = "off" THEN "off" ELSE "orphan"
    OBVIOUS
  <1> HIDE DEF o
  <1>4. "off" \notin Makes /\ "orphan" \in Makes
    BY DEF Makes
  <1>5. Asked(o) = Asked(s)
    <2>1. \A i \in 1 .. Len(s) : o[i] \in Makes <=> s[i] \in Makes
      BY <1>0, <1>3, <1>4
    <2>2. QED BY <1>2, <2>1, Zenon DEF Asked
  <1>6. QED BY <1>1, <1>2, <1>3, <1>5

(* No calls.                                                                *)
LEMMA AskedNone == <<>> \in Seq(Makes \cup {"off"}) /\ Cardinality(Asked(<<>>)) = 0
  <1>1. <<>> \in Seq(Makes \cup {"off"}) /\ Len(<<>>) = 0
    OBVIOUS
  <1>2. Asked(<<>>) = {}
    BY <1>1 DEF Asked
  <1>3. QED BY <1>1, <1>2, FS_EmptySet

(* The newest key.                                                          *)
LEMMA NewestOf ==
    ASSUME NEW S \in SUBSET Nat, NEW n \in Nat, \A k \in S : k <= n
    PROVE  Max(S \cup {0}) \in S \cup {0} /\ \A k \in S : k <= Max(S \cup {0})
  <1>1. S \cup {0} \subseteq Nat /\ S \cup {0} # {} /\ \A k \in S \cup {0} : k <= n
    OBVIOUS
  <1>2. \E x \in S \cup {0} : \A y \in S \cup {0} : x >= y
    BY <1>1, GreatestNatural, Zenon
  <1>3. Max(S \cup {0}) \in S \cup {0} /\ \A y \in S \cup {0} : Max(S \cup {0}) >= y
    BY <1>2, Zenon DEF Max
  <1>4. QED BY <1>1, <1>3

(* The greater of two epochs.                                               *)
LEMMA FreshIs ==
    ASSUME NEW a \in Nat, NEW b \in Nat
    PROVE  Max({a, b}) \in Nat /\ (a >= b => Max({a, b}) = a)
  <1>1. \E x \in {a, b} : \A y \in {a, b} : x >= y
    OBVIOUS
  <1>2. Max({a, b}) \in {a, b} /\ \A y \in {a, b} : Max({a, b}) >= y
    BY <1>1, Zenon DEF Max
  <1>3. QED BY <1>2
-----------------------------------------------------------------------------
(* The frames of the room.                                                  *)
Frames == [t : {"peer", "rekey", "pulse"}, e : Nat]

(* The names of calls differ.                                               *)
LEMMA Opcodes ==
    /\ Makes = {"connect", "rotate", "orphan"} /\ "off" \notin Makes
    /\ None = [op |-> "none", e |-> 0] /\ None.op = "none" /\ None.e = 0
  BY DEF Makes, None

(* Each step keeps the types.                                               *)
LEMMA QueueTypes ==
    ASSUME TypeOK, [Next]_vars
    PROVE  queue' \in Seq(Makes \cup {"off"})
  <1>0. queue \in Seq(Makes \cup {"off"}) /\ "off" \in Makes \cup {"off"}
        /\ "connect" \in Makes \cup {"off"} /\ "rotate" \in Makes \cup {"off"} /\ "orphan" \in Makes \cup {"off"}
    BY TypeParts DEF Makes
  <1>1. \A x \in Makes \cup {"off"} : Append(queue, x) \in Seq(Makes \cup {"off"})
    BY <1>0, AppendIs
  <1>2. queue # <<>> => Tail(queue) \in Seq(Makes \cup {"off"})
    BY <1>0, TailIs
  <1>3. Append(Orphaned(queue), "off") \in Seq(Makes \cup {"off"})
    BY <1>0, AskedOrphaned, AppendIs
  <1>4. CASE NeedArrives \/ SealRefused
    BY <1>0, <1>1, <1>4, Zenon DEF NeedArrives, SealRefused, Rotate
  <1>5. CASE Start \/ Retry
    BY <1>0, <1>1, <1>5, Zenon DEF Start, Retry
  <1>6. CASE SwitchOff
    BY <1>3, <1>6, Zenon DEF SwitchOff
  <1>7. CASE SenderRestarts
    BY <1>7, AskedNone, Zenon DEF SenderRestarts
  <1>8. CASE Native
    BY <1>2, <1>8, Zenon DEF Native, MakeKey, MakeKeyFails, MakeKeyUncommitted, SendOff, SendOffFails, Return, Running
  <1>9. CASE Connected \/ Rotated \/ Dropped \/ SwitchOn \/ Open \/ OpenFails \/ Lost \/ Send \/ Sealed
    BY <1>0, <1>9, Zenon DEF Connected, Rotated, Dropped, SwitchOn, Open, OpenFails, Lost, Send, Sealed
  <1>10. CASE Renew \/ Renewed \/ Listen \/ ReceiverLost \/ ReceiverRestarts \/ Receive \/ CheckDue \/ Sync \/ Retire
              \/ TenSeconds \/ UNCHANGED vars
    BY <1>0, <1>10, Zenon DEF Renew, Renewed, Listen, ReceiverLost, ReceiverRestarts, Receive, CheckDue, Sync,
       Retire, TenSeconds, vars, sender
  <1>11. QED BY <1>4, <1>5, <1>6, <1>7, <1>8, <1>9, <1>10, Zenon DEF Next, Continue

(* Frames stay frames.                                                      *)
LEMMA WireTypes ==
    ASSUME TypeOK, [Next]_vars
    PROVE  wire' \in Seq(Frames)
  <1>0. wire \in Seq(Frames) /\ epoch \in Nat /\ own \in Nat /\ announced \in Nat /\ reply.e \in Nat
    BY TypeParts DEF Frames
  <1>1. \A e \in Nat : Frame("peer", e) \in Frames /\ Frame("rekey", e) \in Frames /\ Frame("pulse", e) \in Frames
    BY DEF Frames, Frame
  <1>2. \A f \in Frames : Append(wire, f) \in Seq(Frames) /\ <<f>> \in Seq(Frames)
    BY <1>0, AppendIs
  <1>3. wire # <<>> => Tail(wire) \in Seq(Frames)
    BY <1>0, TailIs
  <1>4. <<>> \in Seq(Frames)
    OBVIOUS
  <1>5. CASE Open \/ Sealed \/ Rotated
    BY <1>0, <1>1, <1>2, <1>5, Zenon DEF Open, Sealed, Rotated, Forward
  <1>6. CASE Listen \/ ReceiverLost \/ ReceiverRestarts
    BY <1>0, <1>1, <1>2, <1>4, <1>6, Zenon DEF Listen, ReceiverLost, ReceiverRestarts
  <1>7. CASE Receive
    BY <1>3, <1>7, Zenon DEF Receive
  <1>8. CASE Start \/ Retry \/ OpenFails \/ Lost \/ NeedArrives \/ Send \/ SealRefused \/ SwitchOff \/ SwitchOn
             \/ SenderRestarts
    BY <1>0, <1>8, Zenon DEF Start, Retry, OpenFails, Lost, NeedArrives, Send, SealRefused, SwitchOff, SwitchOn,
       SenderRestarts, room
  <1>9. CASE Native \/ Connected \/ Dropped
    BY <1>0, <1>9, Zenon DEF Native, MakeKey, MakeKeyFails, MakeKeyUncommitted, SendOff, SendOffFails, Connected,
       Dropped, room
  <1>10. CASE Renew \/ Renewed \/ CheckDue \/ Sync \/ Retire \/ TenSeconds \/ UNCHANGED vars
    BY <1>0, <1>10, Zenon DEF Renew, Renewed, CheckDue, Sync, Retire, TenSeconds, vars, room
  <1>11. QED BY <1>5, <1>6, <1>7, <1>8, <1>9, <1>10, Zenon DEF Next, Continue

(* What a call makes, sends and returns is an epoch.                        *)
LEMMA MailTypes ==
    ASSUME TypeOK, [Next]_vars
    PROVE  keymail' \in Seq(Nat) /\ own' \in Nat /\ clock' \in Nat /\ reply' \in [op : Makes \cup {"none"}, e : Nat]
  <1>0. keymail \in Seq(Nat) /\ own \in Nat /\ clock \in Nat /\ reply \in [op : Makes \cup {"none"}, e : Nat]
        /\ 0 \in Nat /\ clock + 1 \in Nat
    BY TypeParts
  <1>1. FreshEpoch \in Nat
    BY <1>0, FreshIs DEF FreshEpoch
  <1>2. None \in [op : Makes \cup {"none"}, e : Nat]
    BY DEF None
  <1>3. \A e \in Nat : Append(keymail, e) \in Seq(Nat)
    BY <1>0, AppendIs
  <1>4. CASE Native
    <2>1. Running(Makes) => Head(queue) \in Makes
      BY Zenon DEF Running
    <2>2. ASSUME Running(Makes), NEW e \in Nat, Return(e) PROVE reply' \in [op : Makes \cup {"none"}, e : Nat]
      BY <2>1, <2>2 DEF Return
    <2>3. CASE MakeKey
      <3>1. own' \in Nat /\ clock' \in Nat /\ Running(Makes) /\ Return(own') /\ keymail' = Append(keymail, own')
        BY <1>0, <1>1, <2>3, Zenon DEF MakeKey
      <3>2. QED BY <1>3, <2>2, <3>1, Zenon
    <2>4. CASE MakeKeyFails \/ MakeKeyUncommitted
      <3>1. own' \in Nat /\ clock' \in Nat /\ Running(Makes) /\ Return(0) /\ keymail' = keymail
        BY <1>0, <1>1, <2>4, Zenon DEF MakeKeyFails, MakeKeyUncommitted, room
      <3>2. QED BY <1>0, <2>2, <3>1, Zenon
    <2>5. CASE SendOff \/ SendOffFails
      BY <1>0, <1>3, <2>5, Zenon DEF SendOff, SendOffFails, room
    <2>6. QED BY <1>4, <2>3, <2>4, <2>5, Zenon DEF Native
  <1>5. CASE SwitchOff
    <2>1. [reply EXCEPT !.op = "orphan"] \in [op : Makes \cup {"none"}, e : Nat]
      BY <1>0 DEF Makes
    <2>2. QED BY <1>0, <1>2, <1>5, <2>1, Zenon DEF SwitchOff, Stop
  <1>6. CASE SenderRestarts \/ Connected \/ Rotated \/ Dropped
    BY <1>0, <1>2, <1>6, Zenon DEF SenderRestarts, Connected, Rotated, Dropped, room
  <1>7. CASE Start \/ Retry \/ OpenFails \/ Lost \/ NeedArrives \/ Send \/ SealRefused \/ SwitchOn \/ Open \/ Sealed
    BY <1>0, <1>7, Zenon DEF Start, Retry, OpenFails, Lost, NeedArrives, Send, SealRefused, SwitchOn, Open, Sealed,
       room
  <1>8. CASE Sync
    <2>1. keymail' = Tail(keymail) /\ keymail # <<>>
      BY <1>8, Zenon DEF Sync
    <2>2. Tail(keymail) \in Seq(Nat)
      BY <1>0, <2>1, TailIs
    <2>3. QED BY <1>0, <1>8, <2>1, <2>2, Zenon DEF Sync, sender
  <1>9. CASE Renew \/ Renewed \/ Listen \/ ReceiverLost \/ ReceiverRestarts \/ Receive \/ CheckDue \/ Retire
             \/ TenSeconds \/ UNCHANGED vars
    BY <1>0, <1>9, Zenon DEF Renew, Renewed, Listen, ReceiverLost, ReceiverRestarts, Receive, CheckDue, Retire,
       TenSeconds, vars, sender, room
  <1>10. QED BY <1>4, <1>5, <1>6, <1>7, <1>8, <1>9, Zenon DEF Next, Continue

(* The newest key is one of the keys, or none.                              *)
LEMMA NewestIs ==
    ASSUME TypeOK, Epochs
    PROVE  /\ Newest \in Nat /\ Newest \in keys \cup {0} /\ \A k \in keys : k <= Newest
           /\ keys # {} => Newest \in Nat \ {0}
  <1>1. keys \subseteq Nat \ {0} /\ clock \in Nat
    BY TypeParts
  <1>2. \A k \in keys : k <= clock
    BY DEF Epochs
  <1>3. Newest \in keys \cup {0} /\ \A k \in keys : k <= Newest
    BY <1>1, <1>2, NewestOf DEF Newest
  <1>4. Newest \in Nat
    BY <1>1, <1>3
  <1>5. ASSUME keys # {} PROVE Newest # 0
    <2>1. PICK k \in keys : TRUE
      BY <1>5
    <2>2. k \in Nat /\ k # 0 /\ k <= Newest
      BY <1>1, <1>3
    <2>3. QED BY <1>4, <2>2
  <1>6. QED BY <1>3, <1>4, <1>5

(* All types together.                                                      *)
LEMMA TypesStep ==
    ASSUME TypeOK, Epochs, [Next]_vars
    PROVE  TypeOK'
  <1>1. /\ queue' \in Seq(Makes \cup {"off"}) /\ wire' \in Seq([t : {"peer", "rekey", "pulse"}, e : Nat])
        /\ keymail' \in Seq(Nat) /\ own' \in Nat /\ clock' \in Nat /\ reply' \in [op : Makes \cup {"none"}, e : Nat]
    BY QueueTypes, WireTypes, MailTypes, Zenon DEF Frames
  <1>2. /\ epoch' \in Nat /\ announced' \in Nat /\ renewing' \in Nat /\ link' \in {"off", "wait", "retry", "up"}
        /\ sealing' \in {"no", "yes", "late"}
    <2>0. /\ epoch \in Nat /\ announced \in Nat /\ renewing \in Nat /\ link \in {"off", "wait", "retry", "up"}
          /\ sealing \in {"no", "yes", "late"} /\ reply.e \in Nat /\ 0 \in Nat
      BY TypeParts
    <2>1. CASE Start \/ Retry \/ Open \/ OpenFails \/ Lost \/ NeedArrives \/ Send \/ Sealed \/ SealRefused
      BY <2>0, <2>1, Zenon DEF Start, Retry, Open, OpenFails, Lost, NeedArrives, Send, Sealed, SealRefused, room
    <2>2. CASE SwitchOff \/ SwitchOn \/ SenderRestarts
      BY <2>0, <2>2, Zenon DEF SwitchOff, SwitchOn, SenderRestarts, Stop, room
    <2>3. CASE Native \/ Continue
      BY <2>0, <2>3, Zenon DEF Native, MakeKey, MakeKeyFails, MakeKeyUncommitted, SendOff, SendOffFails, Continue,
         Connected, Rotated, Dropped, room
    <2>4. CASE Renew \/ Renewed \/ Listen \/ ReceiverLost \/ ReceiverRestarts \/ Receive \/ CheckDue \/ Sync
               \/ Retire \/ TenSeconds \/ UNCHANGED vars
      BY <2>0, <2>4, Zenon DEF Renew, Renewed, Listen, ReceiverLost, ReceiverRestarts, Receive, CheckDue, Sync,
         Retire, TenSeconds, vars, sender, room
    <2>5. QED BY <2>1, <2>2, <2>3, <2>4, Zenon DEF Next
  <1>3. /\ checking' \in Nat /\ keys' \subseteq Nat \ {0} /\ wanted' \in BOOLEAN /\ rotatable' \in BOOLEAN
        /\ need' \in BOOLEAN /\ listening' \in BOOLEAN /\ askable' \in BOOLEAN
    <2>0. /\ checking \in Nat /\ keys \subseteq Nat \ {0} /\ wanted \in BOOLEAN /\ rotatable \in BOOLEAN
          /\ need \in BOOLEAN /\ listening \in BOOLEAN /\ askable \in BOOLEAN /\ 0 \in Nat
      BY TypeParts
    <2>1. CASE Start \/ Retry \/ Open \/ OpenFails \/ Lost \/ NeedArrives \/ Send \/ Sealed \/ SealRefused
      BY <2>0, <2>1, Zenon DEF Start, Retry, Open, OpenFails, Lost, NeedArrives, Send, Sealed, SealRefused, room,
         receiver, Rotate
    <2>2. CASE SwitchOff \/ SwitchOn \/ SenderRestarts
      BY <2>0, <2>2, Zenon DEF SwitchOff, SwitchOn, SenderRestarts, Stop, room, receiver
    <2>3. CASE Native \/ Continue
      BY <2>0, <2>3, Zenon DEF Native, MakeKey, MakeKeyFails, MakeKeyUncommitted, SendOff, SendOffFails, Continue,
         Connected, Rotated, Dropped, room, receiver
    <2>4. CASE Renew \/ Renewed \/ Listen \/ ReceiverLost \/ ReceiverRestarts \/ CheckDue \/ TenSeconds
               \/ UNCHANGED vars
      BY <2>0, <2>4, Zenon DEF Renew, Renewed, Listen, ReceiverLost, ReceiverRestarts, CheckDue, TenSeconds, vars,
         sender, room, receiver
    <2>5. CASE Receive
      <3>1. wire # <<>> => Head(wire) \in Frames
        BY TypeParts, TailIs DEF Frames
      <3>2. wire # <<>> => Head(wire).e \in Nat
        BY <3>1 DEF Frames
      <3>3. QED BY <2>0, <2>5, <3>2, Zenon DEF Receive, Check, sender
    <2>6. CASE Sync
      <3>1. keymail # <<>> => Head(keymail) \in Nat
        BY TypeParts, TailIs
      <3>2. \A e \in Nat : Absorb(e) \subseteq Nat \ {0}
        BY <2>0 DEF Absorb
      <3>3. QED BY <2>0, <2>6, <3>1, <3>2, Zenon DEF Sync, sender
    <2>7. CASE Retire
      <3>1. keys' = {Newest} /\ keys # {}
        BY <2>7, Zenon DEF Retire
      <3>2. Newest \in Nat \ {0}
        BY <3>1, NewestIs
      <3>3. {Newest} \subseteq Nat \ {0}
        BY <3>2
      <3>4. QED BY <2>0, <2>7, <3>1, <3>3, Zenon DEF Retire, sender, room
    <2>8. QED BY <2>1, <2>2, <2>3, <2>4, <2>5, <2>6, <2>7, Zenon DEF Next
  <1>4. QED BY <1>1, <1>2, <1>3, Zenon DEF TypeOK

(* The clock has reached every key, so it alone makes the next one.         *)
LEMMA FreshEpochIs ==
    ASSUME TypeOK, Epochs
    PROVE  FreshEpoch = clock + 1
  <1>1. clock + 1 \in Nat /\ own + 1 \in Nat /\ clock + 1 >= own + 1
    BY TypeParts DEF Epochs
  <1>2. QED BY <1>1, FreshIs, Zenon DEF FreshEpoch
-----------------------------------------------------------------------------
(* What a call that waits says of the channel.                              *)
LEMMA CallsStep ==
    ASSUME TypeOK, Epochs, Calls, [Next]_vars
    PROVE  Calls'
  <1>0. /\ queue \in Seq(Makes \cup {"off"}) /\ Len(queue) \in Nat
        /\ link \in {"off", "wait", "retry", "up"} /\ sealing \in {"no", "yes", "late"}
        /\ clock \in Nat /\ own \in Nat
    BY TypeParts
  <1>n. None.op = "none" /\ None.e = 0
    BY DEF None
  \* A call comes to the end of the queue.
  <1>a. ASSUME NEW x \in Makes \cup {"off"}, queue' = Append(queue, x)
        PROVE  /\ Len(queue') = Len(queue) + 1 /\ queue'[Len(queue) + 1] = x
               /\ \A i \in 1 .. Len(queue) : queue'[i] = queue[i]
    BY <1>0, <1>a, AppendIs
  \* The first one leaves it.
  <1>t. ASSUME queue # <<>>, queue' = Tail(queue)
        PROVE  /\ Len(queue) >= 1 /\ Len(queue') = Len(queue) - 1 /\ Head(queue) = queue[1]
               /\ \A i \in 1 .. Len(queue) - 1 : queue'[i] = queue[i + 1]
    BY <1>0, <1>t, TailIs
  <1>1. CASE Start
    <2>1. link = "off" /\ link' = "wait" /\ queue' = Append(queue, "connect") /\ UNCHANGED <<epoch, own, reply, sealing>>
      BY <1>1, Zenon DEF Start
    <2>2. /\ Len(queue') = Len(queue) + 1 /\ queue'[Len(queue) + 1] = "connect"
          /\ \A i \in 1 .. Len(queue) : queue'[i] = queue[i]
      BY <1>a, <2>1 DEF Makes
    <2>3. QED BY <1>0, <2>1, <2>2 DEF Calls
  <1>2. CASE Retry
    <2>1. link = "retry" /\ link' = "wait" /\ UNCHANGED <<epoch, own, reply, sealing>>
      BY <1>2, Zenon DEF Retry
    <2>2. CASE epoch = 0
      <3>1. queue' = Append(queue, "connect")
        BY <1>2, <2>2, Zenon DEF Retry
      <3>2. /\ Len(queue') = Len(queue) + 1 /\ queue'[Len(queue) + 1] = "connect"
            /\ \A i \in 1 .. Len(queue) : queue'[i] = queue[i]
        BY <1>a, <3>1 DEF Makes
      <3>3. QED BY <1>0, <2>1, <2>2, <3>2 DEF Calls
    <2>3. CASE epoch # 0
      <3>1. queue' = queue
        BY <1>2, <2>3, Zenon DEF Retry
      <3>2. QED BY <1>0, <2>1, <2>3, <3>1 DEF Calls
    <2>4. QED BY <2>2, <2>3
  <1>3. CASE Open \/ OpenFails \/ Lost
    <2>1. /\ link \in {"wait", "up"} /\ link' \in {"up", "retry"} /\ (link = "wait" => epoch # 0)
          /\ UNCHANGED <<queue, epoch, own, reply, sealing>>
      BY <1>3, Zenon DEF Open, OpenFails, Lost
    <2>2. QED BY <1>0, <2>1 DEF Calls
  <1>4. ASSUME NEW x \in {"rotate", "orphan"}, Rotate(x), x = "rotate" => epoch # 0, UNCHANGED <<link, epoch, own, reply>>,
               sealing' = "yes" => sealing = "yes"
        PROVE  Calls'
    <2>1. CASE queue' = queue
      BY <1>0, <1>4, <2>1 DEF Calls
    <2>2. CASE queue' = Append(queue, x)
      <3>1. /\ Len(queue') = Len(queue) + 1 /\ queue'[Len(queue) + 1] = x
            /\ \A i \in 1 .. Len(queue) : queue'[i] = queue[i]
        BY <1>a, <1>4, <2>2 DEF Makes
      <3>2. x # "off" /\ x # "connect"
        BY <1>4
      <3>3. QED BY <1>0, <1>4, <3>1, <3>2 DEF Calls
    <2>3. QED BY <1>4, <2>1, <2>2, Zenon DEF Rotate
  <1>5. CASE NeedArrives
    <2>1. Rotate("rotate") /\ link = "up" /\ UNCHANGED <<link, epoch, own, reply, sealing>>
      BY <1>5, Zenon DEF NeedArrives
    <2>2. QED BY <1>4, <2>1 DEF Calls
  <1>6. CASE SealRefused
    <2>1. /\ Rotate(IF sealing = "yes" THEN "rotate" ELSE "orphan") /\ sealing' = "no"
          /\ UNCHANGED <<link, epoch, own, reply>>
      BY <1>6, Zenon DEF SealRefused
    <2>2. CASE sealing = "yes"
      BY <1>4, <2>1, <2>2 DEF Calls
    <2>3. CASE sealing # "yes"
      BY <1>4, <2>1, <2>3 DEF Calls
    <2>4. QED BY <2>2, <2>3
  <1>7. CASE Send \/ Sealed \/ SwitchOn
    <2>1. /\ UNCHANGED <<link, epoch, own, reply, queue>>
          /\ sealing' = "yes" => link = "up" \/ sealing = "yes"
      BY <1>7, Zenon DEF Send, Sealed, SwitchOn
    <2>2. QED BY <1>0, <2>1 DEF Calls
  <1>8. CASE SwitchOff
    <2>1. /\ link' = "off" /\ epoch' = 0 /\ own' = own /\ queue' = Append(Orphaned(queue), "off")
          /\ reply' = IF reply = None THEN None ELSE [reply EXCEPT !.op = "orphan"]
          /\ sealing' = IF sealing = "yes" THEN "late" ELSE sealing
      BY <1>8, Zenon DEF SwitchOff, Stop
    <2>2. reply'.op \in {"none", "orphan"}
      BY <1>n, <2>1, TypeParts
    <2>3. \A i \in 1 .. Len(queue') : queue'[i] \in {"off", "orphan"}
      <3>1. /\ Orphaned(queue) \in Seq(Makes \cup {"off"}) /\ Len(Orphaned(queue)) = Len(queue)
            /\ \A i \in 1 .. Len(queue) : Orphaned(queue)[i] = IF queue[i] = "off" THEN "off" ELSE "orphan"
        BY <1>0, AskedOrphaned
      <3> DEFINE o == Orphaned(queue)
      <3> HIDE DEF o
      <3>2. /\ Len(Append(o, "off")) = Len(queue) + 1 /\ Append(o, "off")[Len(queue) + 1] = "off"
            /\ \A i \in 1 .. Len(queue) : Append(o, "off")[i] = o[i]
        BY <3>1, AppendIs DEF o
      <3>3. \A i \in 1 .. Len(queue) : o[i] \in {"off", "orphan"}
        BY <3>1 DEF o
      <3>4. queue' = Append(o, "off")
        BY <2>1 DEF o
      <3>5. QED BY <1>0, <3>2, <3>3, <3>4
    <2>4. QED BY <2>1, <2>2, <2>3 DEF Calls
  <1>9. CASE SenderRestarts
    <2>1. link' = "off" /\ epoch' = 0 /\ own' = 0 /\ queue' = <<>> /\ reply' = None /\ sealing' = "no"
      BY <1>9, Zenon DEF SenderRestarts
    <2>2. QED BY <1>n, <2>1 DEF Calls
  <1>10. CASE Native
    <2>1. CASE MakeKey \/ MakeKeyFails \/ MakeKeyUncommitted
      <3>1. /\ queue # <<>> /\ Head(queue) \in Makes /\ queue' = Tail(queue) /\ reply'.op = Head(queue)
            /\ UNCHANGED <<link, epoch, sealing>> /\ own' \in {own, FreshEpoch}
        <4>1. /\ Running(Makes) /\ \E e : Return(e)
              /\ UNCHANGED <<link, epoch, sealing>> /\ own' \in {own, FreshEpoch}
          BY <2>1, Zenon DEF MakeKey, MakeKeyFails, MakeKeyUncommitted
        <4>2. QED BY <4>1, TypeParts DEF Running, Return
      <3>2. FreshEpoch = clock + 1
        BY FreshEpochIs
      <3>3. /\ Len(queue) >= 1 /\ Len(queue') = Len(queue) - 1 /\ Head(queue) = queue[1]
            /\ \A i \in 1 .. Len(queue) - 1 : queue'[i] = queue[i + 1]
        BY <1>t, <3>1
      <3>4. epoch # 0 => own' # 0
        BY <1>0, <3>1, <3>2 DEF Calls
      <3>5. /\ \A i \in 1 .. Len(queue') : queue'[i] = "connect" => queue[1] # "connect"
            /\ \A i, j \in 1 .. Len(queue') : queue'[i] = "connect" /\ queue'[j] = "connect" => j = i
        BY <1>0, <3>3 DEF Calls
      <3>6. \A i \in 1 .. Len(queue') : queue'[i] = "off" =>
              /\ epoch = 0 /\ queue[1] \in {"off", "orphan"}
              /\ \A j \in 1 .. i : queue'[j] \in {"off", "orphan"}
        <4> SUFFICES ASSUME NEW i \in 1 .. Len(queue'), queue'[i] = "off"
                     PROVE  /\ epoch = 0 /\ queue[1] \in {"off", "orphan"}
                            /\ \A j \in 1 .. i : queue'[j] \in {"off", "orphan"}
          OBVIOUS
        <4>1. i + 1 \in 1 .. Len(queue) /\ queue[i + 1] = "off"
          BY <1>0, <3>3
        <4>2. epoch = 0 /\ \A j \in 1 .. i + 1 : queue[j] \in {"off", "orphan"}
          BY <4>1, Zenon DEF Calls
        <4>3. 1 \in 1 .. i + 1 /\ \A j \in 1 .. i : j + 1 \in 1 .. i + 1 /\ queue'[j] = queue[j + 1]
          BY <1>0, <3>3
        <4>4. QED BY <4>2, <4>3, Zenon
      <3>7. reply'.op = queue[1] /\ queue[1] # "off" /\ 1 \in 1 .. Len(queue)
        BY <1>0, <3>1, <3>3 DEF Makes
      <3>8. \A i \in 1 .. Len(queue') : queue'[i] = queue[i + 1] /\ i + 1 \in 1 .. Len(queue)
        BY <1>0, <3>3
      <3>9. QED BY <3>1, <3>4, <3>5, <3>6, <3>7, <3>8 DEF Calls
    <2>2. CASE SendOff \/ SendOffFails
      <3>1. /\ queue # <<>> /\ Head(queue) = "off" /\ queue' = Tail(queue)
            /\ UNCHANGED <<link, epoch, sealing, reply>>
        BY <2>2, Zenon DEF SendOff, SendOffFails, Running
      <3>2. /\ Len(queue) >= 1 /\ Len(queue') = Len(queue) - 1 /\ Head(queue) = queue[1]
            /\ \A i \in 1 .. Len(queue) - 1 : queue'[i] = queue[i + 1]
        BY <1>t, <3>1
      <3>3. epoch = 0
        BY <1>0, <3>1, <3>2 DEF Calls
      <3>8. \A i \in 1 .. Len(queue') : queue'[i] = queue[i + 1] /\ i + 1 \in 1 .. Len(queue)
        BY <1>0, <3>2
      <3>5. \A i, j \in 1 .. Len(queue') : queue'[i] = "connect" /\ queue'[j] = "connect" => j = i
        <4> SUFFICES ASSUME NEW i \in 1 .. Len(queue'), NEW j \in 1 .. Len(queue'),
                            queue'[i] = "connect", queue'[j] = "connect"
                     PROVE  j = i
          OBVIOUS
        <4>1. /\ i + 1 \in 1 .. Len(queue) /\ queue[i + 1] = "connect"
              /\ j + 1 \in 1 .. Len(queue) /\ queue[j + 1] = "connect"
          BY <3>8
        <4>2. j + 1 = i + 1
          BY <4>1, Zenon DEF Calls
        <4>3. QED BY <4>2
      <3>6. \A i \in 1 .. Len(queue') : queue'[i] = "off" => \A j \in 1 .. i : queue'[j] \in {"off", "orphan"}
        <4> SUFFICES ASSUME NEW i \in 1 .. Len(queue'), queue'[i] = "off"
                     PROVE  \A j \in 1 .. i : queue'[j] \in {"off", "orphan"}
          OBVIOUS
        <4>1. i + 1 \in 1 .. Len(queue) /\ queue[i + 1] = "off"
          BY <3>8
        <4>2. \A j \in 1 .. i + 1 : queue[j] \in {"off", "orphan"}
          BY <4>1, Zenon DEF Calls
        <4>3. \A j \in 1 .. i : j + 1 \in 1 .. i + 1 /\ queue'[j] = queue[j + 1]
          BY <1>0, <3>2
        <4>4. QED BY <4>2, <4>3, Zenon
      <3>7. QED BY <3>1, <3>3, <3>5, <3>6, <3>8 DEF Calls
    <2>3. QED BY <1>10, <2>1, <2>2, Zenon DEF Native
  <1>11. CASE Connected
    <2>1. reply.op = "connect" /\ reply' = None /\ UNCHANGED <<own, queue, sealing>>
      BY <1>11, Zenon DEF Connected
    <2>2. CASE reply.e = 0
      <3>1. link' = "retry" /\ epoch' = epoch
        BY <1>11, <2>2, Zenon DEF Connected
      <3>2. QED BY <1>n, <2>1, <3>1 DEF Calls
    <2>3. CASE reply.e # 0
      <3>1. epoch' = own /\ link' = link /\ own # 0
        BY <1>11, <2>3, Zenon DEF Connected, Epochs
      <3>2. QED BY <1>n, <2>1, <3>1 DEF Calls
    <2>4. QED BY <2>2, <2>3
  <1>12. CASE Rotated
    <2>1. reply.op = "rotate" /\ reply' = None /\ UNCHANGED <<own, queue, sealing, link>>
      BY <1>12, Zenon DEF Rotated
    <2>2. epoch' = own /\ own # 0
      BY <1>12, Zenon DEF Rotated, Epochs
    <2>3. QED BY <1>n, <2>1, <2>2 DEF Calls
  <1>13. CASE Dropped
    <2>1. reply' = None /\ UNCHANGED <<own, queue, sealing, link, epoch>>
      BY <1>13, Zenon DEF Dropped
    <2>2. QED BY <1>n, <2>1 DEF Calls
  <1>14. CASE Renew \/ Renewed \/ Listen \/ ReceiverLost \/ ReceiverRestarts \/ Receive \/ CheckDue \/ Sync \/ Retire
              \/ TenSeconds \/ UNCHANGED vars
    <2>1. UNCHANGED <<own, queue, sealing, link, epoch, reply>>
      BY <1>14, Zenon DEF Renew, Renewed, Listen, ReceiverLost, ReceiverRestarts, Receive, CheckDue, Sync, Retire,
         TenSeconds, vars, sender
    <2>2. QED BY <1>n, <2>1, SMTT(40) DEF Calls
  <1>15. Connected \/ Rotated \/ Dropped => Calls'
    BY <1>11, <1>12, <1>13
  <1>16. CASE Continue
    BY <1>15, <1>16, Zenon DEF Continue
  <1>17. ASSUME Next PROVE Calls'
    <2>1. \/ Start \/ Retry \/ Open \/ OpenFails \/ Lost \/ NeedArrives
          \/ Send \/ Sealed \/ SealRefused \/ SwitchOff \/ SwitchOn \/ SenderRestarts
          \/ Native \/ Continue \/ Renew \/ Renewed
          \/ Listen \/ ReceiverLost \/ ReceiverRestarts \/ Receive \/ CheckDue \/ Sync \/ Retire \/ TenSeconds
      BY <1>17, Zenon DEF Next
    <2>2. CASE Start \/ Retry \/ Open \/ OpenFails \/ Lost \/ NeedArrives
      BY <1>1, <1>2, <1>3, <1>5, <2>2, Zenon
    <2>3. CASE Send \/ Sealed \/ SealRefused \/ SwitchOff \/ SwitchOn \/ SenderRestarts \/ Native \/ Continue
      BY <1>6, <1>7, <1>8, <1>9, <1>10, <1>16, <2>3, Zenon
    <2>4. CASE \/ Renew \/ Renewed \/ Listen \/ ReceiverLost \/ ReceiverRestarts \/ Receive \/ CheckDue \/ Sync
               \/ Retire \/ TenSeconds
      BY <1>14, <2>4, Zenon
    <2>5. QED BY <2>1, <2>2, <2>3, <2>4, Zenon
  <1>18. QED BY <1>14, <1>17, Zenon
-----------------------------------------------------------------------------
(* A key that is made is above every one on its way or with the receiver.   *)
LEMMA EpochsStep ==
    ASSUME TypeOK, Epochs, [Next]_vars
    PROVE  Epochs'
  <1>0. /\ keymail \in Seq(Nat) /\ Len(keymail) \in Nat /\ clock \in Nat /\ own \in Nat /\ keys \subseteq Nat \ {0}
        /\ \A i \in 1 .. Len(keymail) : keymail[i] \in Nat
        /\ queue \in Seq(Makes \cup {"off"})
    <2>1. /\ keymail \in Seq(Nat) /\ clock \in Nat /\ own \in Nat /\ keys \subseteq Nat \ {0}
          /\ queue \in Seq(Makes \cup {"off"})
      BY TypeParts, Zenon
    <2>2. Len(keymail) \in Nat /\ \A i \in 1 .. Len(keymail) : keymail[i] \in Nat
      BY <2>1
    <2>3. QED BY <2>1, <2>2, Zenon
  <1>n. None.op = "none" /\ None.e = 0
    BY DEF None
  <1>f. faults' \in Nat
    <2>1. faults' \in {faults, faults + 1}
      <3>1. CASE Start \/ Retry \/ Open \/ OpenFails \/ Lost \/ NeedArrives \/ Send \/ Sealed \/ SealRefused
                 \/ SwitchOff \/ SwitchOn \/ SenderRestarts
        BY <3>1, Zenon DEF Start, Retry, Open, OpenFails, Lost, NeedArrives, Send, Sealed, SealRefused, SwitchOff,
           SwitchOn, SenderRestarts, Fault
      <3>2. CASE Native \/ Continue
        BY <3>2, Zenon DEF Native, MakeKey, MakeKeyFails, MakeKeyUncommitted, SendOff, SendOffFails, Continue,
           Connected, Rotated, Dropped, Fault
      <3>3. CASE Renew \/ Renewed \/ Listen \/ ReceiverLost \/ ReceiverRestarts \/ Receive \/ CheckDue \/ Sync
                 \/ Retire \/ TenSeconds \/ UNCHANGED vars
        BY <3>3, Zenon DEF Renew, Renewed, Listen, ReceiverLost, ReceiverRestarts, Receive, CheckDue, Sync, Retire,
           TenSeconds, vars, Fault, Slow
      <3>4. QED BY <3>1, <3>2, <3>3, Zenon DEF Next
    <2>2. QED BY <2>1 DEF Epochs
  <1>1. CASE MakeKey
    <2>1. /\ clock' = clock + 1 /\ own' = FreshEpoch /\ keymail' = Append(keymail, own') /\ keys' = keys
          /\ reply' = [op |-> Head(queue), e |-> own'] /\ Head(queue) \in Makes
      BY <1>1, Zenon DEF MakeKey, receiver, Return, Running
    <2>2. own' = clock + 1
      BY <2>1, FreshEpochIs, Zenon
    <2>3. /\ Len(keymail') = Len(keymail) + 1 /\ keymail'[Len(keymail) + 1] = clock + 1
          /\ \A i \in 1 .. Len(keymail) : keymail'[i] = keymail[i]
      BY <1>0, <2>1, <2>2, AppendIs
    <2>4. reply'.e = own' /\ reply'.op # "none"
      BY <2>1 DEF Makes
    <2>5. \A k \in keys : k <= clock /\ k \in Nat
      BY <1>0 DEF Epochs
    <2>6. \A i \in 1 .. Len(keymail) : keymail[i] <= clock
      BY DEF Epochs
    <2>7. \A i \in 1 .. Len(keymail') : keymail'[i] <= clock'
      BY <1>0, <2>1, <2>3, <2>6
    <2>8. \A i \in 1 .. Len(keymail') : keymail'[i] # 0 => \A k \in keys' : k < keymail'[i]
      BY <1>0, <2>1, <2>3, <2>5 DEF Epochs
    <2>9. \A i, j \in 1 .. Len(keymail') : i < j /\ keymail'[j] # 0 => keymail'[i] < keymail'[j]
      <3> SUFFICES ASSUME NEW i \in 1 .. Len(keymail'), NEW j \in 1 .. Len(keymail'), i < j, keymail'[j] # 0
                   PROVE  keymail'[i] < keymail'[j]
        OBVIOUS
      <3>1. i \in 1 .. Len(keymail) /\ keymail'[i] = keymail[i]
        BY <1>0, <2>3
      <3>2. CASE j \in 1 .. Len(keymail)
        BY <2>3, <3>1, <3>2, Zenon DEF Epochs
      <3>3. CASE j = Len(keymail) + 1
        <4>1. keymail[i] \in Nat /\ keymail[i] <= clock
          BY <1>0, <2>6, <3>1, Zenon
        <4>2. keymail[i] < clock + 1
          BY <1>0, <4>1
        <4>3. QED BY <2>3, <3>1, <3>3, <4>2, Zenon
      <3>4. j \in 1 .. Len(keymail) \/ j = Len(keymail) + 1
        BY <1>0, <2>3
      <3>5. QED BY <3>2, <3>3, <3>4, Zenon
    <2>10. own' <= clock' /\ \A k \in keys' : k <= clock'
      BY <1>0, <2>1, <2>2, <2>5
    <2>11. QED BY <1>f, <2>4, <2>7, <2>8, <2>9, <2>10, Zenon DEF Epochs
  <1>2. CASE MakeKeyFails \/ MakeKeyUncommitted
    <2>1. /\ clock' \in {clock, clock + 1} /\ own' \in {own, FreshEpoch} /\ (own' = own \/ clock' = clock + 1)
          /\ keymail' = keymail /\ keys' = keys
          /\ reply' = [op |-> Head(queue), e |-> 0] /\ Head(queue) \in Makes
      BY <1>2, Zenon DEF MakeKeyFails, MakeKeyUncommitted, room, receiver, Return, Running
    <2>2. own' <= clock'
      BY <1>0, <2>1, FreshEpochIs DEF Epochs
    <2>3. reply'.e = 0 /\ reply'.op # "none"
      BY <2>1 DEF Makes
    <2>4. QED BY <1>0, <1>f, <2>1, <2>2, <2>3 DEF Epochs
  <1>3. CASE SendOff
    <2>1. /\ own' = 0 /\ keymail' = Append(keymail, 0) /\ UNCHANGED <<clock, keys, reply>> /\ reply = None
      BY <1>3, Zenon DEF SendOff, Running, receiver
    <2>2. /\ Len(keymail') = Len(keymail) + 1 /\ keymail'[Len(keymail) + 1] = 0
          /\ \A i \in 1 .. Len(keymail) : keymail'[i] = keymail[i]
      BY <1>0, <2>1, AppendIs
    <2>3. \A i \in 1 .. Len(keymail') : keymail'[i] # 0 => i \in 1 .. Len(keymail)
      BY <1>0, <2>2
    <2>4. \A i \in 1 .. Len(keymail') : keymail'[i] <= clock'
      BY <1>0, <2>1, <2>2 DEF Epochs
    <2>5. \A i, j \in 1 .. Len(keymail') : i < j /\ keymail'[j] # 0 => keymail'[i] < keymail'[j]
      <3> SUFFICES ASSUME NEW i \in 1 .. Len(keymail'), NEW j \in 1 .. Len(keymail'), i < j, keymail'[j] # 0
                   PROVE  keymail'[i] < keymail'[j]
        OBVIOUS
      <3>1. i \in 1 .. Len(keymail) /\ j \in 1 .. Len(keymail)
        BY <1>0, <2>2, <2>3
      <3>2. keymail'[i] = keymail[i] /\ keymail'[j] = keymail[j]
        BY <2>2, <3>1
      <3>3. QED BY <3>1, <3>2, Zenon DEF Epochs
    <2>6. QED BY <1>0, <1>f, <1>n, <2>1, <2>2, <2>3, <2>4, <2>5 DEF Epochs
  <1>4. CASE SwitchOff
    <2>1. /\ UNCHANGED <<clock, own, keys, keymail>>
          /\ reply' = IF reply = None THEN None ELSE [reply EXCEPT !.op = "orphan"]
      BY <1>4, Zenon DEF SwitchOff, Stop, receiver
    <2>2. reply'.e = reply.e /\ (reply'.op = "none" => reply' = None)
      BY <1>n, <2>1, TypeParts
    <2>3. QED BY <1>f, <2>1, <2>2 DEF Epochs
  <1>5. CASE SenderRestarts
    <2>1. own' = 0 /\ reply' = None /\ UNCHANGED <<clock, keys, keymail>>
      BY <1>5, Zenon DEF SenderRestarts, receiver
    <2>2. QED BY <1>0, <1>f, <1>n, <2>1 DEF Epochs
  <1>6. CASE Continue
    <2>1. reply' = None /\ UNCHANGED <<clock, own, keys, keymail>>
      BY <1>6, Zenon DEF Continue, Connected, Rotated, Dropped, receiver, room
    <2>2. QED BY <1>f, <1>n, <2>1 DEF Epochs
  <1>7. CASE Sync
    <2>1. /\ keymail # <<>> /\ keymail' = Tail(keymail) /\ keys' = Absorb(Head(keymail)) /\ UNCHANGED <<clock, own, reply>>
      BY <1>7, Zenon DEF Sync, sender
    <2>2. /\ Len(keymail) >= 1 /\ Len(keymail') = Len(keymail) - 1 /\ Head(keymail) = keymail[1]
          /\ \A i \in 1 .. Len(keymail) - 1 : keymail'[i] = keymail[i + 1]
      BY <1>0, <2>1, TailIs
    <2>3. keys' \subseteq (IF keymail[1] = 0 THEN {} ELSE keys \cup {keymail[1]})
      BY <2>1, <2>2, Zenon DEF Absorb
    <2>4. \A i \in 1 .. Len(keymail') : keymail'[i] = keymail[i + 1] /\ i + 1 \in 1 .. Len(keymail) /\ 1 < i + 1
      BY <1>0, <2>2
    <2>5. 1 \in 1 .. Len(keymail)
      BY <1>0, <2>2
    <2>6. \A k \in keys' : k <= clock'
      BY <2>1, <2>3, <2>5 DEF Epochs
    <2>7. \A i \in 1 .. Len(keymail') : keymail'[i] <= clock'
      BY <2>1, <2>4 DEF Epochs
    <2>8. \A i \in 1 .. Len(keymail') : keymail'[i] # 0 => \A k \in keys' : k < keymail'[i]
      BY <2>3, <2>4, <2>5, Zenon DEF Epochs
    <2>9. \A i, j \in 1 .. Len(keymail') : i < j /\ keymail'[j] # 0 => keymail'[i] < keymail'[j]
      <3> SUFFICES ASSUME NEW i \in 1 .. Len(keymail'), NEW j \in 1 .. Len(keymail'), i < j, keymail'[j] # 0
                   PROVE  keymail'[i] < keymail'[j]
        OBVIOUS
      <3>1. i + 1 < j + 1
        OBVIOUS
      <3>2. QED BY <2>4, <3>1, Zenon DEF Epochs
    <2>10. QED BY <1>f, <2>1, <2>6, <2>7, <2>8, <2>9, Zenon DEF Epochs
  <1>8. CASE ReceiverRestarts \/ Retire
    <2>1. keys' \subseteq keys /\ UNCHANGED <<clock, own, reply, keymail>>
      <3>1. Newest \in keys \/ keys = {}
        BY NewestIs
      <3>2. QED BY <1>8, <3>1, Zenon DEF ReceiverRestarts, Retire, sender, room
    <2>2. QED BY <1>f, <2>1 DEF Epochs
  <1>9. CASE Start \/ Retry \/ Open \/ OpenFails \/ Lost \/ NeedArrives \/ Send \/ Sealed \/ SealRefused
             \/ SwitchOn \/ SendOffFails
    <2>1. UNCHANGED <<clock, own, keys, keymail, reply>>
      BY <1>9, Zenon DEF Start, Retry, Open, OpenFails, Lost, NeedArrives, Send, Sealed, SealRefused, SwitchOn,
         SendOffFails, room, receiver
    <2>2. QED BY <1>f, <2>1, Zenon DEF Epochs
  <1>10. CASE Renew \/ Renewed \/ Listen \/ ReceiverLost \/ Receive \/ CheckDue \/ TenSeconds \/ UNCHANGED vars
    <2>1. UNCHANGED <<clock, own, keys, keymail, reply>>
      BY <1>10, Zenon DEF Renew, Renewed, Listen, ReceiverLost, Receive, CheckDue, TenSeconds, vars, sender,
         room, receiver
    <2>2. QED BY <1>f, <2>1, Zenon DEF Epochs
  <1>11. QED BY <1>1, <1>2, <1>3, <1>4, <1>5, <1>6, <1>7, <1>8, <1>9, <1>10, Zenon DEF Next, Native
-----------------------------------------------------------------------------
(* The causes are counted.                                                  *)
LEMMA CausesIs ==
    ASSUME TypeOK
    PROVE  Causes \in Nat /\ Cardinality(Asked(queue)) \in Nat
  <1>1. Cardinality(Asked(queue)) \in Nat
    BY TypeParts, AskedIs
  <1>2. QED BY <1>1 DEF Causes, One

(* And after the step.                                                      *)
LEMMA CausesNext ==
    ASSUME TypeOK'
    PROVE  /\ Causes' \in Nat
           /\ Causes' = Cardinality(Asked(queue')) + One(need') + One(link' = "off") + One(link' = "retry" /\ epoch' = 0)
                          + One(reply'.op = "connect" /\ reply'.e = 0) + One(sealing' = "late")
  <1>1. Cardinality(Asked(queue')) \in Nat
    <2>1. queue' \in Seq(Makes \cup {"off"})
      BY Zenon DEF TypeOK
    <2>2. QED BY <2>1, AskedIs
  <1>2. Causes' = Cardinality(Asked(queue')) + One(need') + One(link' = "off") + One(link' = "retry" /\ epoch' = 0)
                    + One(reply'.op = "connect" /\ reply'.e = 0) + One(sealing' = "late")
    BY Zenon DEF Causes, Asked, One, Makes
  <1>3. QED BY <1>1, <1>2 DEF One

(* The receiver's doubt and its loss, as numbers.                           *)
LEMMA Ones ==
    /\ Doubt \/ Apart => Doubts = 1
    /\ ~(Doubt \/ Apart) => Doubts = 0
    /\ Apart /\ Causes = 0 => Lacks = 1
    /\ ~(Apart /\ Causes = 0) => Lacks = 0
    /\ Doubt' \/ Apart' => Doubts' = 1
    /\ ~(Doubt' \/ Apart') => Doubts' = 0
    /\ Apart' /\ Causes' = 0 => Lacks' = 1
    /\ ~(Apart' /\ Causes' = 0) => Lacks' = 0
  BY Zenon DEF Doubts, Lacks, One

(* A fault pays for two keys, and for the receiver's doubt or its loss.     *)
LEMMA FaultPays ==
    ASSUME TypeOK, TypeOK', faults \in Nat, Budget, faults' = faults + 1,
           \/ clock' = clock /\ Causes' <= Causes + 1
           \/ clock' = clock /\ Causes' <= Causes + 2 /\ Causes' >= 1
           \/ clock' = clock + 1 /\ Causes' <= Causes
    PROVE  Budget'
  <1>1. clock \in Nat /\ clock' \in Nat
    BY TypeParts, Zenon DEF TypeOK
  <1>2. Causes \in Nat /\ Causes' \in Nat
    BY CausesIs, CausesNext
  <1>3. Doubts \in {0, 1} /\ Lacks \in {0, 1} /\ Doubts' \in {0, 1} /\ Lacks' \in {0, 1}
        /\ (Causes' # 0 => Lacks' = 0)
    BY Ones, Zenon
  <1>4. PICK c \in Nat, a \in Nat, d \in Nat, l \in Nat : c = clock' /\ a = Causes' /\ d = Doubts' /\ l = Lacks'
    BY <1>1, <1>2, <1>3
  <1>5. d <= 1 /\ l <= 1 /\ (a >= 1 => l = 0)
    BY <1>3, <1>4
  <1>6. \/ c = clock /\ a <= Causes + 1
        \/ c = clock /\ a <= Causes + 2 /\ a >= 1
        \/ c = clock + 1 /\ a <= Causes
    BY <1>4, Zenon
  <1>7. clock + Causes + Doubts + Lacks <= 1 + 3 * faults
    BY DEF Budget
  <1>8. c + a + d + l <= 1 + 3 * (faults + 1)
    BY <1>1, <1>2, <1>3, <1>5, <1>6, <1>7
  <1>9. QED BY <1>4, <1>8 DEF Budget

(* Without a fault nothing is added.                                        *)
LEMMA QuietKeeps ==
    ASSUME TypeOK, TypeOK', faults \in Nat, Budget, faults' = faults,
           Doubt' \/ Apart' => Doubt \/ Apart,
           \/ clock' = clock /\ Causes' <= Causes /\ (Apart' => Apart)
           \/ clock' = clock + 1 /\ Causes' <= Causes - 1 /\ ~Apart'
    PROVE  Budget'
  <1>1. clock \in Nat /\ clock' \in Nat
    BY TypeParts, Zenon DEF TypeOK
  <1>2. Causes \in Nat /\ Causes' \in Nat
    BY CausesIs, CausesNext
  <1>3. Doubts \in {0, 1} /\ Lacks \in {0, 1} /\ Doubts' \in {0, 1} /\ Lacks' \in {0, 1}
    BY Ones, Zenon
  <1>4. PICK c \in Nat, a \in Nat, d \in Nat, l \in Nat : c = clock' /\ a = Causes' /\ d = Doubts' /\ l = Lacks'
    BY <1>1, <1>2, <1>3
  <1>5. d = 1 => Doubts = 1
    BY <1>4, Ones, Zenon
  <1>6. \/ c = clock /\ a <= Causes /\ (l = 0 \/ Lacks = 1 \/ a # Causes)
        \/ c = clock + 1 /\ a <= Causes - 1 /\ l = 0
    <2>1. CASE clock' = clock /\ Causes' <= Causes /\ (Apart' => Apart)
      BY <1>4, <2>1, Ones, Zenon
    <2>2. CASE clock' = clock + 1 /\ Causes' <= Causes - 1 /\ ~Apart'
      BY <1>4, <2>2, Ones, Zenon
    <2>3. QED BY <2>1, <2>2, Zenon
  <1>7. d \in {0, 1} /\ l \in {0, 1}
    BY <1>3, <1>4
  <1>8. clock + Causes + Doubts + Lacks <= 1 + 3 * faults
    BY DEF Budget
  <1>9. c + a + d + l <= 1 + 3 * faults
    BY <1>1, <1>2, <1>3, <1>5, <1>6, <1>7, <1>8
  <1>10. QED BY <1>4, <1>9 DEF Budget

(* What a fault breaks makes two keys at most.                              *)
LEMMA FaultSteps ==
    ASSUME TypeOK, Epochs, Calls, Budget, TypeOK', faults' = faults + 1,
           \/ OpenFails \/ Lost \/ SealRefused \/ SwitchOff \/ SenderRestarts \/ MakeKeyFails \/ MakeKeyUncommitted
           \/ SendOffFails \/ ReceiverLost \/ ReceiverRestarts \/ CheckDue \/ Retire \/ TenSeconds
    PROVE  Budget'
  <1>0. /\ queue \in Seq(Makes \cup {"off"}) /\ need \in BOOLEAN /\ need' \in BOOLEAN
        /\ clock \in Nat /\ faults \in Nat /\ sealing \in {"no", "yes", "late"}
    BY TypeParts, Zenon DEF TypeOK, Epochs
  <1>1. Cardinality(Asked(queue)) \in Nat /\ Causes \in Nat /\ Causes' \in Nat
    BY CausesIs, CausesNext
  <1>2. Causes = Cardinality(Asked(queue)) + One(need) + One(link = "off") + One(link = "retry" /\ epoch = 0)
                   + One(reply.op = "connect" /\ reply.e = 0) + One(sealing = "late")
    BY DEF Causes
  <1>3. Causes' = Cardinality(Asked(queue')) + One(need') + One(link' = "off") + One(link' = "retry" /\ epoch' = 0)
                    + One(reply'.op = "connect" /\ reply'.e = 0) + One(sealing' = "late")
    BY CausesNext
  <1>n. None.op = "none" /\ None.e = 0
    BY DEF None
  <1>q. ASSUME clock' = clock, Causes' <= Causes + 1 PROVE Budget'
    BY <1>0, <1>q, FaultPays, Zenon
  <1>4. CASE OpenFails
    <2>1. link' = "retry" /\ epoch # 0 /\ UNCHANGED <<clock, queue, need, epoch, reply, sealing>>
      BY <1>4, Zenon DEF OpenFails, room
    <2>2. Causes' <= Causes + 1
      BY <1>1, <1>2, <1>3, <2>1, SMTT(30) DEF One
    <2>3. QED BY <1>q, <2>1, <2>2
  <1>5. CASE Lost
    <2>1. link = "up" /\ link' = "retry" /\ need' = FALSE /\ UNCHANGED <<clock, queue, epoch, reply, sealing>>
      BY <1>5, Zenon DEF Lost
    <2>2. Causes' <= Causes + 1
      BY <1>1, <1>2, <1>3, <2>1, SMTT(30) DEF One
    <2>3. QED BY <1>q, <2>1, <2>2
  <1>6. CASE SealRefused
    <2>1. /\ sealing' = "no" /\ UNCHANGED <<clock, link, epoch, reply, need>>
          /\ \/ queue' = queue
             \/ \E x \in Makes : queue' = Append(queue, x)
      BY <1>6, Zenon DEF SealRefused, Rotate, room, Makes
    <2>2. Cardinality(Asked(queue')) \in {Cardinality(Asked(queue)), Cardinality(Asked(queue)) + 1}
      <3>1. ASSUME NEW x \in Makes, queue' = Append(queue, x)
            PROVE  Cardinality(Asked(queue')) = Cardinality(Asked(queue)) + 1
        <4>1. x \in Makes \cup {"off"} /\ One(x \in Makes) = 1
          BY <3>1, Zenon DEF One
        <4>2. QED BY <1>0, <3>1, <4>1, AskedAppend, Zenon
      <3>2. QED BY <2>1, <3>1
    <2>3. Causes' <= Causes + 1
      BY <1>1, <1>2, <1>3, <2>1, <2>2, SMTT(30) DEF One
    <2>4. QED BY <1>q, <2>1, <2>3
  <1>7. CASE SwitchOff
    <2>1. /\ link' = "off" /\ queue' = Append(Orphaned(queue), "off") /\ need' = FALSE /\ clock' = clock
          /\ reply' = IF reply = None THEN None ELSE [reply EXCEPT !.op = "orphan"]
          /\ sealing' = IF sealing = "yes" THEN "late" ELSE sealing
      BY <1>7, Zenon DEF SwitchOff, Stop
    <2>2. reply'.op # "connect"
      BY <1>n, <2>1, TypeParts
    <2>3. Cardinality(Asked(queue')) = Cardinality(Asked(queue))
      <3>1. Orphaned(queue) \in Seq(Makes \cup {"off"}) /\ Cardinality(Asked(Orphaned(queue))) = Cardinality(Asked(queue))
        BY <1>0, AskedOrphaned
      <3>2. "off" \notin Makes
        BY DEF Makes
      <3>3. QED BY <1>1, <2>1, <3>1, <3>2, AskedAppend DEF One
    <2>4. Causes' <= Causes + 2 /\ Causes' >= 1
      BY <1>1, <1>2, <1>3, <2>1, <2>2, <2>3, SMTT(30) DEF One
    <2>5. QED BY <1>0, <2>1, <2>4, FaultPays, Zenon
  <1>8. CASE SenderRestarts
    <2>1. /\ link' = "off" /\ epoch' = 0 /\ queue' = <<>> /\ reply' = None /\ sealing' = "no" /\ need' = FALSE
          /\ clock' = clock
      BY <1>8, Zenon DEF SenderRestarts
    <2>2. Cardinality(Asked(queue')) = 0
      BY <2>1, AskedNone
    <2>3. Causes' <= Causes + 1
      BY <1>1, <1>3, <1>n, <2>1, <2>2 DEF One
    <2>4. QED BY <1>q, <2>1, <2>3
  <1>9. CASE MakeKeyFails \/ MakeKeyUncommitted
    <2>1. /\ queue # <<>> /\ Head(queue) \in Makes /\ queue' = Tail(queue) /\ reply' = [op |-> Head(queue), e |-> 0]
          /\ reply = None /\ clock' \in {clock, clock + 1} /\ UNCHANGED <<link, epoch, sealing, need>>
      BY <1>9, Zenon DEF MakeKeyFails, MakeKeyUncommitted, Running, Return, room
    <2>2. Cardinality(Asked(queue)) = Cardinality(Asked(queue')) + 1 /\ Cardinality(Asked(queue')) \in Nat
      <3>1. Cardinality(Asked(queue)) = Cardinality(Asked(Tail(queue))) + One(Head(queue) \in Makes)
            /\ Tail(queue) \in Seq(Makes \cup {"off"})
        BY <1>0, <2>1, AskedTail
      <3>2. QED BY <2>1, <3>1, AskedIs DEF One
    <2>3. Causes' <= Causes
      BY <1>1, <1>2, <1>3, <2>1, <2>2, SMTT(30) DEF One
    <2>4. Causes' <= Causes + 1
      BY <1>1, <2>3
    <2>5. CASE clock' = clock
      BY <1>q, <2>4, <2>5, Zenon
    <2>6. CASE clock' = clock + 1
      BY <1>0, <2>3, <2>6, FaultPays, Zenon
    <2>7. QED BY <2>1, <2>5, <2>6
  <1>10. CASE SendOffFails
    <2>1. /\ queue # <<>> /\ Head(queue) = "off" /\ queue' = Tail(queue)
          /\ UNCHANGED <<clock, link, epoch, sealing, need, reply>>
      BY <1>10, Zenon DEF SendOffFails, Running, room
    <2>2. Cardinality(Asked(queue')) = Cardinality(Asked(queue))
      <3>1. Cardinality(Asked(queue)) = Cardinality(Asked(Tail(queue))) + One(Head(queue) \in Makes)
            /\ Tail(queue) \in Seq(Makes \cup {"off"})
        BY <1>0, <2>1, AskedTail
      <3>2. Head(queue) \notin Makes
        BY <2>1 DEF Makes
      <3>3. Cardinality(Asked(Tail(queue))) \in Nat
        BY <3>1, AskedIs
      <3>4. One(Head(queue) \in Makes) = 0
        BY <3>2, Zenon DEF One
      <3>5. QED BY <2>1, <3>1, <3>3, <3>4
    <2>3. Causes' <= Causes + 1
      BY <1>1, <1>2, <1>3, <2>1, <2>2
    <2>4. QED BY <1>q, <2>1, <2>3
  <1>11. CASE ReceiverLost \/ ReceiverRestarts \/ CheckDue \/ Retire \/ TenSeconds
    <2>1. UNCHANGED <<clock, queue, link, epoch, sealing, reply>>
      BY <1>11, Zenon DEF ReceiverLost, ReceiverRestarts, CheckDue, Retire, TenSeconds, sender
    <2>2. Causes' <= Causes + 1
      BY <1>0, <1>1, <1>2, <1>3, <2>1 DEF One
    <2>3. QED BY <1>q, <2>1, <2>2
  <1>12. QED BY <1>4, <1>5, <1>6, <1>7, <1>8, <1>9, <1>10, <1>11
-----------------------------------------------------------------------------
(* A step that makes no key and no call more leaves the doubts it does not  *)
(* touch as they were.                                                      *)
LEMMA Same ==
    ASSUME TypeOK, TypeOK', own' = own, Causes' <= Causes
    PROVE  /\ Causes' >= 1 => Causes >= 1
           /\ Causes' >= 2 => Causes >= 2
           /\ \A e : e # own' \/ Causes' >= 1 => Stale(e)
           /\ checking' \in {0, checking} => (InVain' => InVain)
           /\ keys' = keys /\ wire' = wire => (OnWire' => OnWire)
           /\ wire' = <<>> => ~OnWire'
           /\ keymail' = keymail /\ reply' \in {None, reply} => (Hurried' => Hurried)
           /\ keymail' = keymail /\ queue' = queue => (Off' => Off)
           /\ UNCHANGED <<announced, renewing>> /\ (listening => listening') /\ (link' = "up" => link = "up")
                => (Announces' => Announces)
           /\ epoch' = epoch /\ (link' \in {"wait", "retry"} => link \in {"wait", "retry"} \/ epoch = 0)
                => (Reopens' => Reopens)
           /\ UNCHANGED <<keymail, keys>> => Coming' = Coming
           /\ UNCHANGED <<keymail, keys>> => (Apart' => Apart)
  <1>1. Causes \in Nat /\ Causes' \in Nat
    BY CausesIs, CausesNext
  <1>2. (Causes' >= 1 => Causes >= 1) /\ (Causes' >= 2 => Causes >= 2)
    BY <1>1
  <1>3. \A e : e # own' \/ Causes' >= 1 => Stale(e)
    BY <1>2, Zenon DEF Stale
  <1>4. checking' \in {0, checking} => (InVain' => InVain)
    BY <1>3, Zenon DEF InVain, Stale
  <1>5. keys' = keys /\ wire' = wire => (OnWire' => OnWire)
    BY <1>3, Zenon DEF OnWire, Stale, Unreadable
  <1>6. wire' = <<>> => ~OnWire'
    <2>1. 1 .. Len(<<>>) = {}
      OBVIOUS
    <2>2. QED BY <2>1, Zenon DEF OnWire
  <1>7. keymail' = keymail /\ reply' \in {None, reply} => (Hurried' => Hurried)
    BY <1>2, Zenon DEF Hurried
  <1>8. keymail' = keymail /\ queue' = queue => (Off' => Off)
    BY Zenon DEF Off
  <1>9. UNCHANGED <<announced, renewing>> /\ (listening => listening') /\ (link' = "up" => link = "up")
          => (Announces' => Announces)
    BY <1>3, Zenon DEF Announces, Stale
  <1>10. epoch' = epoch /\ (link' \in {"wait", "retry"} => link \in {"wait", "retry"} \/ epoch = 0)
           => (Reopens' => Reopens)
    BY <1>3, Zenon DEF Reopens, Stale
  <1>11. UNCHANGED <<keymail, keys>> => Coming' = Coming
    BY Zenon DEF Coming, Newest
  <1>12. UNCHANGED <<keymail, keys>> => (Apart' => Apart)
    BY <1>11, Zenon DEF Apart
  <1>13. QED BY <1>2, <1>3, <1>4, <1>5, <1>6, <1>7, <1>8, <1>9, <1>10, <1>11, <1>12, Zenon

(* A frame is sent on, and doubts the receiver nothing that it is not       *)
(* doubted already.                                                         *)
LEMMA Forwards ==
    ASSUME TypeOK, TypeOK', own' = own, Causes' <= Causes, keys' = keys,
           NEW f \in [t : {"peer", "rekey", "pulse"}, e : Nat], Forward(f),
           Unreadable(f) /\ Stale(f.e) => Doubt \/ Apart
    PROVE  OnWire' => Doubt \/ Apart
  <1>1. CASE wire' = wire
    BY <1>1, Same, Zenon DEF Doubt
  <1>2. CASE wire' = Append(wire, f)
    <2>1. wire \in Seq([t : {"peer", "rekey", "pulse"}, e : Nat])
      BY TypeParts
    <2>2. /\ Len(wire') = Len(wire) + 1 /\ wire'[Len(wire) + 1] = f /\ Len(wire) \in Nat
          /\ \A i \in 1 .. Len(wire) : wire'[i] = wire[i]
      BY <1>2, <2>1, AppendIs
    <2>3. ASSUME NEW i \in 1 .. Len(wire'), wire'[i].t # "pulse" \/ wire'[i].e \notin keys, Stale(wire'[i].e)
          PROVE  Doubt \/ Apart
      <3>1. CASE i = Len(wire) + 1
        BY <2>2, <2>3, <3>1, Zenon DEF Unreadable
      <3>2. CASE i # Len(wire) + 1
        <4>1. i \in 1 .. Len(wire)
          BY <2>2, <3>2
        <4>2. QED BY <2>2, <2>3, <4>1, Zenon DEF Unreadable, OnWire, Doubt
      <3>3. QED BY <3>1, <3>2
    <2>4. QED BY <2>3, Same, Zenon DEF OnWire, Unreadable, Stale
  <1>3. QED BY <1>1, <1>2, Zenon DEF Forward

(* A call that is not an off event comes to the end of the queue, or leaves *)
(* its head.                                                                *)
LEMMA OffCalls ==
    ASSUME TypeOK
    PROVE  /\ \A x \in Makes : queue' = Append(queue, x) /\ keymail' = keymail => (Off' => Off)
           /\ queue # <<>> /\ queue' = Tail(queue) /\ keymail' = keymail => (Off' => Off)
  <1>0. queue \in Seq(Makes \cup {"off"}) /\ "off" \notin Makes
    BY TypeParts DEF Makes
  <1>1. ASSUME NEW x \in Makes, queue' = Append(queue, x), keymail' = keymail PROVE Off' => Off
    <2>1. /\ Len(queue') = Len(queue) + 1 /\ queue'[Len(queue) + 1] = x /\ Len(queue) \in Nat
          /\ \A i \in 1 .. Len(queue) : queue'[i] = queue[i]
      BY <1>0, <1>1, AppendIs
    <2>2. ASSUME NEW i \in 1 .. Len(queue'), queue'[i] = "off" PROVE i \in 1 .. Len(queue) /\ queue[i] = "off"
      <3>1. i # Len(queue) + 1
        BY <1>0, <2>1, <2>2, Zenon
      <3>2. i \in 1 .. Len(queue)
        BY <2>1, <3>1
      <3>3. QED BY <2>1, <2>2, <3>2
    <2>3. QED BY <1>1, <2>2, Zenon DEF Off
  <1>2. ASSUME queue # <<>>, queue' = Tail(queue), keymail' = keymail PROVE Off' => Off
    <2>1. /\ Len(queue') = Len(queue) - 1 /\ Len(queue) \in Nat \ {0}
          /\ \A i \in 1 .. Len(queue) - 1 : queue'[i] = queue[i + 1]
      BY <1>0, <1>2, TailIs
    <2>2. ASSUME NEW i \in 1 .. Len(queue'), queue'[i] = "off"
          PROVE  i + 1 \in 1 .. Len(queue) /\ queue[i + 1] = "off"
      <3>1. i \in 1 .. Len(queue) - 1 /\ i + 1 \in 1 .. Len(queue)
        BY <2>1
      <3>2. QED BY <2>1, <2>2, <3>1, Zenon
    <2>3. QED BY <1>2, <2>2, Zenon DEF Off
  <1>3. QED BY <1>1, <1>2, Zenon

(* The sum of the causes, before and after.                                 *)
LEMMA Sums ==
    ASSUME TypeOK, TypeOK'
    PROVE  /\ Cardinality(Asked(queue)) \in Nat /\ Cardinality(Asked(queue')) \in Nat
           /\ Causes \in Nat /\ Causes' \in Nat
           /\ Causes = Cardinality(Asked(queue)) + One(need) + One(link = "off") + One(link = "retry" /\ epoch = 0)
                         + One(reply.op = "connect" /\ reply.e = 0) + One(sealing = "late")
           /\ Causes' = Cardinality(Asked(queue')) + One(need') + One(link' = "off") + One(link' = "retry" /\ epoch' = 0)
                          + One(reply'.op = "connect" /\ reply'.e = 0) + One(sealing' = "late")
  <1>1. queue' \in Seq(Makes \cup {"off"})
    BY Zenon DEF TypeOK
  <1>2. QED BY <1>1, AskedIs, CausesIs, CausesNext DEF Causes

(* A call is added that makes a key.                                        *)
LEMMA Adds ==
    ASSUME TypeOK, NEW x \in Makes, queue' = Append(queue, x)
    PROVE  Cardinality(Asked(queue')) = Cardinality(Asked(queue)) + 1
  <1>1. queue \in Seq(Makes \cup {"off"}) /\ x \in Makes \cup {"off"}
    BY TypeParts
  <1>2. QED BY <1>1, AskedAppend, Zenon DEF One

(* The sender's channel, without a fault.                                   *)
LEMMA SenderSteps ==
    ASSUME TypeOK, Epochs, Calls, Budget, TypeOK', faults' = faults,
           \/ Start \/ Retry \/ Open \/ NeedArrives \/ Send \/ Sealed \/ SealRefused \/ SwitchOn
    PROVE  Budget'
  <1>0. /\ link \in {"off", "wait", "retry", "up"} /\ sealing \in {"no", "yes", "late"} /\ need \in BOOLEAN
        /\ epoch \in Nat /\ own \in Nat /\ faults \in Nat /\ clock \in Nat
    BY TypeParts, Zenon DEF TypeOK, Epochs
  <1>1. "connect" \in Makes /\ "rotate" \in Makes /\ "orphan" \in Makes
    BY DEF Makes
  <1>2. /\ link = "off" => epoch = 0
        /\ link = "up" => epoch # 0
        /\ sealing = "yes" => epoch # 0
        /\ epoch # 0 => own # 0
    BY Zenon DEF Calls
  <1>q. ASSUME clock' = clock, Causes' <= Causes, Doubt' => Doubt \/ Apart, Apart' => Apart PROVE Budget'
    BY <1>0, <1>q, QuietKeeps, Zenon
  <1>3. CASE Start
    <2>1. /\ link = "off" /\ link' = "wait" /\ queue' = Append(queue, "connect")
          /\ UNCHANGED <<clock, own, need, epoch, reply, sealing, keymail, keys, wire, announced, renewing, checking>>
          /\ listening' = listening
      BY <1>3, Zenon DEF Start, room, receiver
    <2>2. Cardinality(Asked(queue')) = Cardinality(Asked(queue)) + 1
      BY <1>1, <2>1, Adds
    <2>3. Causes' <= Causes
      BY <2>1, <2>2, Sums, SMTT(30) DEF One
    <2>4. Doubt' => Doubt \/ Apart
      <3>1. (InVain' => InVain) /\ (OnWire' => OnWire) /\ (Hurried' => Hurried) /\ (Announces' => Announces) /\ (Reopens' => Reopens)
        BY <1>2, <2>1, <2>3, Same
      <3>2. Off' => Off
        BY <1>1, <2>1, OffCalls
      <3>3. QED BY <3>1, <3>2, Zenon DEF Doubt
    <2>5. Apart' => Apart
      BY <2>1, <2>3, Same
    <2>6. QED BY <1>q, <2>1, <2>3, <2>4, <2>5
  <1>4. CASE Retry
    <2>1. /\ link = "retry" /\ link' = "wait" /\ queue' = IF epoch = 0 THEN Append(queue, "connect") ELSE queue
          /\ UNCHANGED <<clock, own, need, epoch, reply, sealing, keymail, keys, wire, announced, renewing, checking>>
          /\ listening' = listening
      BY <1>4, Zenon DEF Retry, room, receiver
    <2>2. epoch = 0 => Cardinality(Asked(queue')) = Cardinality(Asked(queue)) + 1
      BY <1>1, <2>1, Adds
    <2>3. Causes' <= Causes
      BY <2>1, <2>2, Sums, SMTT(30) DEF One
    <2>4. Doubt' => Doubt \/ Apart
      <3>1. (InVain' => InVain) /\ (OnWire' => OnWire) /\ (Hurried' => Hurried) /\ (Announces' => Announces) /\ (Reopens' => Reopens)
        BY <1>2, <2>1, <2>3, Same
      <3>2. Off' => Off
        BY <1>1, <2>1, <2>3, OffCalls, Same
      <3>3. QED BY <3>1, <3>2, Zenon DEF Doubt
    <2>5. Apart' => Apart
      BY <2>1, <2>3, Same
    <2>6. QED BY <1>q, <2>1, <2>3, <2>4, <2>5
  <1>5. CASE Open
    <2>1. /\ link = "wait" /\ epoch # 0 /\ link' = "up" /\ announced' = epoch /\ renewing' = 0 /\ need' = FALSE
          /\ Forward(Frame("peer", epoch))
          /\ UNCHANGED <<clock, own, queue, epoch, reply, sealing, keymail, keys, checking>> /\ listening' = listening
      BY <1>5, Zenon DEF Open, receiver
    <2>2. Causes' <= Causes
      BY <1>0, <2>1, Sums, SMTT(30) DEF One
    <2>3. Stale(epoch) => Doubt
      BY <2>1, Zenon DEF Reopens, Doubt
    <2>4. Doubt' => Doubt \/ Apart
      <3>1. (InVain' => InVain) /\ (Hurried' => Hurried) /\ (Off' => Off) /\ ~Reopens'
        BY <2>1, <2>2, Same DEF Reopens
      <3>2. OnWire' => Doubt \/ Apart
        <4>1. Frame("peer", epoch) \in [t : {"peer", "rekey", "pulse"}, e : Nat] /\ Frame("peer", epoch).e = epoch
          BY <1>0 DEF Frame
        <4>2. QED BY <2>1, <2>2, <2>3, <4>1, Forwards
      <3>3. Announces' => Doubt
        BY <2>1, <2>2, <2>3, Same, Zenon DEF Announces, Stale
      <3>4. QED BY <3>1, <3>2, <3>3, Zenon DEF Doubt
    <2>5. Apart' => Apart
      BY <2>1, <2>2, Same
    <2>6. QED BY <1>q, <2>1, <2>2, <2>4, <2>5
  <1>6. CASE NeedArrives \/ SealRefused
    <2>1. /\ UNCHANGED <<clock, own, epoch, reply, link, keymail, keys, wire, announced, renewing, checking>>
          /\ listening' = listening
          /\ queue' \in {queue, Append(queue, "rotate"), Append(queue, "orphan")}
      BY <1>6, Zenon DEF NeedArrives, SealRefused, Rotate, room, receiver
    <2>2. Cardinality(Asked(queue')) \in {Cardinality(Asked(queue)), Cardinality(Asked(queue)) + 1}
      BY <1>1, <2>1, Adds
    <2>3. Causes' <= Causes
      <3>1. CASE NeedArrives
        <4>1. need = TRUE /\ need' = FALSE /\ sealing' = sealing
          BY <1>0, <3>1 DEF NeedArrives
        <4>2. QED BY <2>1, <2>2, <4>1, Sums, SMTT(30) DEF One
      <3>2. CASE SealRefused
        <4>1. sealing # "no" /\ own = 0 /\ sealing' = "no" /\ need' = need
          <5>1. faults' # faults + 1
            BY <1>0
          <5>2. QED BY <3>2, <5>1, Zenon DEF SealRefused, Fault, room
        <4>2. sealing = "late"
          BY <1>0, <1>2, <4>1
        <4>3. QED BY <2>1, <2>2, <4>1, <4>2, Sums, SMTT(30) DEF One
      <3>3. QED BY <1>6, <3>1, <3>2
    <2>4. Doubt' => Doubt \/ Apart
      <3>1. (InVain' => InVain) /\ (OnWire' => OnWire) /\ (Hurried' => Hurried) /\ (Announces' => Announces) /\ (Reopens' => Reopens)
        BY <2>1, <2>3, Same
      <3>2. Off' => Off
        BY <1>1, <2>1, <2>3, OffCalls, Same
      <3>3. QED BY <3>1, <3>2, Zenon DEF Doubt
    <2>5. Apart' => Apart
      BY <2>1, <2>3, Same
    <2>6. QED BY <1>q, <2>1, <2>3, <2>4, <2>5
  <1>7. CASE Send \/ SwitchOn
    <2>1. /\ UNCHANGED <<clock, own, need, epoch, reply, link, queue, keymail, keys, wire, announced, renewing, checking>>
          /\ listening' = listening /\ (sealing' = "late" => sealing = "late")
      <3>1. "yes" # "late"
        OBVIOUS
      <3>2. QED BY <1>7, <3>1, Zenon DEF Send, SwitchOn, room, receiver
    <2>2. Causes' <= Causes
      BY <2>1, Sums, SMTT(30) DEF One
    <2>3. Doubt' => Doubt \/ Apart
      BY <2>1, <2>2, Same, Zenon DEF Doubt
    <2>4. Apart' => Apart
      BY <2>1, <2>2, Same
    <2>5. QED BY <1>q, <2>1, <2>2, <2>3, <2>4
  <1>8. CASE Sealed
    <2>1. /\ UNCHANGED <<clock, own, need, epoch, reply, link, queue, keymail, keys, announced, renewing, checking>>
          /\ listening' = listening /\ sealing' = "no"
          /\ wire' = wire \/ (link = "up" /\ Forward(Frame("pulse", own)))
      BY <1>8, Zenon DEF Sealed, receiver
    <2>2. Causes' <= Causes
      BY <2>1, Sums, SMTT(30) DEF One
    <2>3. OnWire' => Doubt \/ Apart
      <3>1. CASE wire' = wire
        BY <2>1, <2>2, <3>1, Same, Zenon DEF Doubt
      <3>2. CASE link = "up" /\ Forward(Frame("pulse", own))
        <4>1. /\ Frame("pulse", own) \in [t : {"peer", "rekey", "pulse"}, e : Nat]
              /\ Frame("pulse", own).e = own /\ Frame("pulse", own).t = "pulse"
          BY <1>0 DEF Frame
        <4>2. own # 0
          BY <1>2, <3>2
        <4>3. ASSUME own \notin keys, Stale(own) PROVE Doubt \/ Apart
          <5>1. Causes >= 1
            BY <4>3, Zenon DEF Stale
          <5>2. CASE keymail # <<>>
            BY <5>1, <5>2, Zenon DEF Hurried, Doubt
          <5>3. CASE keymail = <<>>
            <6>1. Coming = Newest /\ Newest \in keys \cup {0}
              BY <5>3, NewestIs, Zenon DEF Coming
            <6>2. Coming # own
              BY <4>2, <4>3, <6>1
            <6>3. QED BY <6>2, Zenon DEF Apart
          <5>4. QED BY <5>2, <5>3
        <4>4. Unreadable(Frame("pulse", own)) /\ Stale(Frame("pulse", own).e) => Doubt \/ Apart
          BY <4>1, <4>3, Zenon DEF Unreadable
        <4>5. QED BY <2>1, <2>2, <3>2, <4>1, <4>4, Forwards
      <3>3. QED BY <2>1, <3>1, <3>2
    <2>4. Doubt' => Doubt \/ Apart
      BY <2>1, <2>2, <2>3, Same, Zenon DEF Doubt
    <2>5. Apart' => Apart
      BY <2>1, <2>2, Same
    <2>6. QED BY <1>q, <2>1, <2>2, <2>4, <2>5
  <1>9. QED BY <1>3, <1>4, <1>5, <1>6, <1>7, <1>8

(* A call returns to the channel.                                           *)
LEMMA ReturnSteps ==
    ASSUME TypeOK, Epochs, Calls, Budget, TypeOK', faults' = faults,
           Connected \/ Rotated \/ Dropped
    PROVE  Budget'
  <1>0. /\ epoch \in Nat /\ own \in Nat /\ faults \in Nat /\ clock \in Nat /\ reply.e \in Nat
    BY TypeParts, Zenon DEF TypeOK, Epochs
  <1>1. /\ reply.op = "connect" => link = "wait" /\ epoch = 0
        /\ reply.e # 0 => reply.e = own
        /\ None.op = "none"
    BY Opcodes, Zenon DEF Calls, Epochs
  <1>q. ASSUME clock' = clock, Causes' <= Causes, Doubt' => Doubt \/ Apart, Apart' => Apart PROVE Budget'
    BY <1>0, <1>q, QuietKeeps, Zenon
  <1>2. /\ reply' = None /\ reply # None
        /\ UNCHANGED <<clock, own, need, queue, sealing, keymail, keys, checking, renewing>> /\ listening' = listening
    <2>1. reply.op # "none"
      <3>1. "connect" # "none" /\ "rotate" # "none" /\ "orphan" # "none"
        OBVIOUS
      <3>2. QED BY <3>1, Zenon DEF Connected, Rotated, Dropped
    <2>2. reply # None
      BY <1>1, <2>1, Zenon
    <2>3. QED BY <2>2, Zenon DEF Connected, Rotated, Dropped, room, receiver
  <1>3. ASSUME Causes >= 1 PROVE Doubt
    BY <1>2, <1>3, Zenon DEF Hurried, Doubt
  <1>4. Causes' <= Causes
    <2>1. CASE Connected
      <3>1. /\ link = "wait" /\ epoch = 0 /\ reply.op = "connect" /\ reply'.op = "none"
            /\ reply.e = 0 => link' = "retry"
            /\ reply.e # 0 => link' = link
        BY <1>1, <1>2, <2>1, Zenon DEF Connected
      <3>2. QED BY <1>2, <3>1, Sums, SMTT(30) DEF One
    <2>2. CASE Rotated \/ Dropped
      <3>1. link' = link /\ (epoch' = epoch \/ (epoch' = reply.e /\ reply.e # 0)) /\ reply'.op = "none"
        BY <1>1, <1>2, <2>2, Zenon DEF Rotated, Dropped
      <3>2. QED BY <1>2, <3>1, Sums, SMTT(30) DEF One
    <2>3. QED BY <2>1, <2>2
  <1>5. (InVain' => InVain) /\ (Hurried' => Hurried) /\ (Off' => Off) /\ (Apart' => Apart)
    BY <1>2, <1>4, Same
  <1>6. Stale(own) => Doubt
    BY <1>3, Zenon DEF Stale
  <1>7. CASE Connected
    <2>1. UNCHANGED <<wire, announced>> /\ (link' = "up" => link = "up")
      BY <1>1, <1>7, Zenon DEF Connected, room
    <2>2. (OnWire' => OnWire) /\ (Announces' => Announces)
      <3>1. "retry" # "up"
        OBVIOUS
      <3>2. QED BY <1>2, <1>4, <2>1, Same
    <2>3. Reopens' => Doubt
      <3>1. CASE reply.e = 0
        <4>1. epoch' = 0
          BY <1>1, <1>7, <3>1, Zenon DEF Connected
        <4>2. QED BY <4>1, Zenon DEF Reopens
      <3>2. CASE reply.e # 0
        <4>1. epoch' = own
          BY <1>1, <1>7, <3>2, Zenon DEF Connected
        <4>2. Stale(own)' => Stale(own)
          BY <1>2, <1>4, Same, Zenon DEF Stale
        <4>3. QED BY <1>2, <1>6, <4>1, <4>2, Zenon DEF Reopens, Stale
      <3>3. QED BY <3>1, <3>2
    <2>4. QED BY <1>2, <1>4, <1>5, <1>q, <2>2, <2>3, Zenon DEF Doubt
  <1>8. CASE Rotated
    <2>1. /\ epoch' = own /\ link' = link
          /\ \/ UNCHANGED <<announced, wire>>
             \/ announced' = own /\ Forward(Frame("rekey", own))
      BY <1>1, <1>8, Zenon DEF Rotated
    <2>2. Stale(own)' => Stale(own)
      BY <1>2, <1>4, Same, Zenon DEF Stale
    <2>3. Reopens' => Doubt
      BY <1>2, <1>6, <2>1, <2>2, Zenon DEF Reopens, Stale
    <2>4. OnWire' => Doubt \/ Apart
      <3>1. Frame("rekey", own) \in [t : {"peer", "rekey", "pulse"}, e : Nat] /\ Frame("rekey", own).e = own
        BY <1>0 DEF Frame
      <3>2. QED BY <1>2, <1>4, <1>6, <2>1, <3>1, Forwards, Same, Zenon DEF Doubt
    <2>5. Announces' => Doubt
      <3>1. CASE announced' = announced
        BY <1>2, <1>4, <2>1, <3>1, Same, Zenon DEF Doubt
      <3>2. CASE announced' = own
        BY <1>2, <1>4, <1>6, <2>1, <2>2, <3>2, Same, Zenon DEF Announces, Doubt, Stale
      <3>3. QED BY <2>1, <3>1, <3>2
    <2>6. QED BY <1>2, <1>4, <1>5, <1>q, <2>3, <2>4, <2>5, Zenon DEF Doubt
  <1>9. CASE Dropped
    <2>1. UNCHANGED <<wire, announced, link, epoch>>
      BY <1>9, Zenon DEF Dropped, room
    <2>2. (OnWire' => OnWire) /\ (Announces' => Announces) /\ (Reopens' => Reopens)
      BY <1>2, <1>4, <2>1, Same
    <2>3. QED BY <1>2, <1>4, <1>5, <1>q, <2>2, Zenon DEF Doubt
  <1>10. QED BY <1>7, <1>8, <1>9

(* The room, and what the receiver hears of it.                             *)
LEMMA RoomSteps ==
    ASSUME TypeOK, Epochs, Calls, Budget, TypeOK', faults' = faults,
           Renew \/ Renewed \/ Listen \/ Receive
    PROVE  Budget'
  <1>0. /\ announced \in Nat /\ own \in Nat /\ faults \in Nat /\ clock \in Nat
        /\ wire \in Seq([t : {"peer", "rekey", "pulse"}, e : Nat])
    BY TypeParts, Zenon DEF TypeOK, Epochs
  <1>q. ASSUME clock' = clock, Causes' <= Causes, Doubt' => Doubt \/ Apart, Apart' => Apart PROVE Budget'
    BY <1>0, <1>q, QuietKeeps, Zenon
  <1>1. UNCHANGED <<clock, own, need, queue, sealing, reply, link, epoch, keymail, keys>>
    BY Zenon DEF Renew, Renewed, Listen, Receive, sender, receiver
  <1>2. Causes' <= Causes
    BY <1>1, Sums, SMTT(30) DEF One
  <1>3. (Hurried' => Hurried) /\ (Off' => Off) /\ (Apart' => Apart) /\ (Reopens' => Reopens)
    BY <1>1, <1>2, Same
  <1>4. CASE Renew \/ Renewed
    <2>1. UNCHANGED <<checking, wire>> /\ listening' = listening
          /\ announced' \in {announced, renewing} /\ renewing' \in {announced, 0}
          /\ (announced' = renewing => announced' = announced \/ renewing # 0)
      BY <1>4, Zenon DEF Renew, Renewed, receiver
    <2>2. (InVain' => InVain) /\ (OnWire' => OnWire)
      BY <1>1, <1>2, <2>1, Same
    <2>3. Announces' => Announces
      <3>1. \A e : Stale(e)' => Stale(e)
        BY <1>1, <1>2, Same, Zenon DEF Stale
      <3>2. Stale(announced)' => Stale(announced) \/ (renewing # 0 /\ Stale(renewing))
        BY <1>1, <1>2, <2>1, Same, Zenon DEF Stale
      <3>3. renewing' # 0 /\ Stale(renewing)' => Stale(announced)
        BY <1>1, <1>2, <2>1, Same, Zenon DEF Stale
      <3>4. QED BY <1>1, <2>1, <3>2, <3>3, Zenon DEF Announces
    <2>4. QED BY <1>1, <1>2, <1>3, <1>q, <2>2, <2>3, Zenon DEF Doubt
  <1>5. CASE Listen
    <2>1. /\ checking' = checking /\ listening' /\ ~listening
          /\ wire' = IF link = "up" THEN <<Frame("peer", announced)>> ELSE <<>>
      BY <1>5, Zenon DEF Listen
    <2>2. (InVain' => InVain) /\ ~Announces'
      BY <1>1, <1>2, <2>1, Same, Zenon DEF Announces
    <2>3. OnWire' => Doubt
      <3>1. CASE link # "up"
        BY <1>1, <1>2, <2>1, <3>1, Same
      <3>2. CASE link = "up"
        <4>1. /\ Len(wire') = 1 /\ wire'[1].e = announced /\ 1 .. 1 = {1}
          BY <2>1, <3>2 DEF Frame
        <4>2. OnWire' => Stale(announced)
          <5>1. OnWire' => Stale(wire'[1].e)
            BY <1>1, <1>2, <4>1, Same, Zenon DEF OnWire, Stale
          <5>2. QED BY <4>1, <5>1, Zenon
        <4>3. QED BY <2>1, <3>2, <4>2, Zenon DEF Announces, Doubt
      <3>3. QED BY <3>1, <3>2
    <2>4. QED BY <1>1, <1>2, <1>3, <1>q, <2>2, <2>3, Zenon DEF Doubt
  <1>6. CASE Receive
    <2>1. /\ wire # <<>> /\ wire' = Tail(wire) /\ UNCHANGED <<announced, renewing>> /\ listening' = listening
          /\ \/ checking' = checking
             \/ ~(Head(wire).t = "pulse" /\ Head(wire).e \in keys) /\ checking' \in {checking, Head(wire).e}
      BY <1>6, Zenon DEF Receive, Check
    <2>2. /\ Len(wire') = Len(wire) - 1 /\ Len(wire) \in Nat \ {0} /\ Head(wire) = wire[1]
          /\ \A i \in 1 .. Len(wire) - 1 : wire'[i] = wire[i + 1]
      BY <1>0, <2>1, TailIs
    <2>3. OnWire' => OnWire
      <3>1. ASSUME NEW i \in 1 .. Len(wire') PROVE i + 1 \in 1 .. Len(wire) /\ wire'[i] = wire[i + 1]
        BY <2>2
      <3>2. QED BY <1>1, <1>2, <3>1, Same, Zenon DEF OnWire, Unreadable, Stale
    <2>4. InVain' => Doubt
      <3>1. CASE checking' = checking
        BY <1>1, <1>2, <3>1, Same, Zenon DEF Doubt
      <3>2. CASE ~(Head(wire).t = "pulse" /\ Head(wire).e \in keys) /\ checking' = Head(wire).e
        <4>1. 1 \in 1 .. Len(wire) /\ Unreadable(wire[1])
          <5>1. 1 \in 1 .. Len(wire)
            BY <2>2
          <5>2. QED BY <2>2, <3>2, <5>1, Zenon DEF Unreadable
        <4>2. InVain' => Stale(wire[1].e)
          BY <1>1, <1>2, <2>2, <3>2, Same, Zenon DEF InVain, Stale
        <4>3. QED BY <4>1, <4>2, Zenon DEF OnWire, Doubt
      <3>3. QED BY <2>1, <3>1, <3>2
    <2>5. Announces' => Announces
      BY <1>1, <1>2, <2>1, Same
    <2>6. QED BY <1>1, <1>2, <1>3, <1>q, <2>3, <2>4, <2>5, Zenon DEF Doubt
  <1>7. QED BY <1>4, <1>5, <1>6

(* A key is made, or an off event sent.                                     *)
LEMMA NativeSteps ==
    ASSUME TypeOK, Epochs, Calls, Budget, TypeOK', faults' = faults,
           MakeKey \/ SendOff
    PROVE  Budget'
  <1>0. /\ own \in Nat /\ faults \in Nat /\ clock \in Nat /\ keymail \in Seq(Nat) /\ own' \in Nat
        /\ queue \in Seq(Makes \cup {"off"})
    BY TypeParts, MailTypes, Zenon DEF TypeOK, Epochs, Next, Native
  <1>1. /\ queue # <<>> /\ queue' = Tail(queue) /\ Head(queue) = queue[1] /\ 1 \in 1 .. Len(queue)
        /\ keymail' = Append(keymail, own')
        /\ UNCHANGED <<link, epoch, sealing, need, announced, renewing, wire, keys, checking>>
        /\ listening' = listening
    <2>1. /\ queue # <<>> /\ queue' = Tail(queue) /\ UNCHANGED <<link, epoch, sealing, need, announced, renewing, wire>>
          /\ UNCHANGED <<keys, checking>> /\ listening' = listening /\ keymail' = Append(keymail, own')
      BY Zenon DEF MakeKey, SendOff, Running, Return, receiver
    <2>2. Head(queue) = queue[1] /\ 1 \in 1 .. Len(queue)
      BY <1>0, <2>1, TailIs
    <2>3. QED BY <2>1, <2>2
  <1>2. /\ Len(keymail') = Len(keymail) + 1 /\ keymail' # <<>> /\ keymail'[Len(keymail) + 1] = own'
        /\ \A i \in 1 .. Len(keymail) : keymail'[i] = keymail[i]
        /\ Len(keymail) \in Nat
    <2>1. PICK o \in Nat : o = own'
      BY <1>0, Zenon
    <2>2. keymail' = Append(keymail, o)
      BY <1>1, <2>1, Zenon
    <2>3. /\ Len(keymail') = Len(keymail) + 1 /\ keymail' # <<>> /\ keymail'[Len(keymail) + 1] = o
          /\ \A i \in 1 .. Len(keymail) : keymail'[i] = keymail[i]
          /\ Len(keymail) \in Nat
      BY <1>0, <2>2, AppendIs, SMTT(40)
    <2>4. QED BY <2>1, <2>3, Zenon
  <1>3. ~Apart'
    BY <1>2, Zenon DEF Apart, Coming
  <1>4. Cardinality(Asked(queue)) = Cardinality(Asked(queue')) + One(Head(queue) \in Makes)
    BY <1>0, <1>1, AskedTail
  <1>5. CASE MakeKey
    <2>1. /\ Head(queue) \in Makes /\ own' = clock + 1 /\ clock' = clock + 1 /\ reply = None /\ reply'.e = own'
      <3>1. reply' = [op |-> Head(queue), e |-> own'] /\ own' = FreshEpoch
        BY <1>5, Zenon DEF MakeKey, Return
      <3>2. reply'.e = own'
        BY <3>1
      <3>3. QED BY <1>5, <3>1, <3>2, FreshEpochIs, Zenon DEF MakeKey, Running
    <2>2. own' # 0 /\ None.op = "none" /\ None.e = 0
      BY <1>0, <2>1, Opcodes
    <2>3. Cardinality(Asked(queue)) = Cardinality(Asked(queue')) + 1
      BY <1>4, <2>1, Zenon DEF One
    <2>4. Causes' <= Causes - 1
      BY <1>1, <2>1, <2>2, <2>3, Sums, SMTT(30) DEF One
    <2>5. Causes >= 1 /\ (Causes' >= 1 => Causes >= 2)
      BY <2>4, Sums
    <2>6. \A e : Stale(e)
      BY <2>5, Zenon DEF Stale
    <2>7. InVain' => InVain
      BY <1>1, <2>6, Zenon DEF InVain
    <2>8. OnWire' => OnWire
      BY <1>1, <2>6, Zenon DEF OnWire, Unreadable
    <2>9. Hurried' => Hurried
      <3>1. Causes' >= 2 => Causes >= 2
        BY <2>4, Sums
      <3>2. QED BY <2>5, <3>1, Zenon DEF Hurried
    <2>10. Off' => Off
      <3>1. ASSUME NEW i \in 1 .. Len(keymail'), keymail'[i] = 0 PROVE i \in 1 .. Len(keymail) /\ keymail[i] = 0
        <4>1. i # Len(keymail) + 1
          BY <1>2, <2>2, <3>1, Zenon
        <4>2. i \in 1 .. Len(keymail)
          BY <1>2, <4>1
        <4>3. QED BY <1>2, <3>1, <4>2
      <3>2. /\ Len(queue') = Len(queue) - 1 /\ Len(queue) \in Nat \ {0}
            /\ \A i \in 1 .. Len(queue) - 1 : queue'[i] = queue[i + 1]
        BY <1>0, <1>1, TailIs
      <3>3. ASSUME NEW i \in 1 .. Len(queue') PROVE i + 1 \in 1 .. Len(queue) /\ queue'[i] = queue[i + 1]
        BY <3>2
      <3>4. QED BY <3>1, <3>3, Zenon DEF Off
    <2>11. (Announces' => Announces) /\ (Reopens' => Reopens)
      BY <1>1, <2>6, Zenon DEF Announces, Reopens
    <2>12. Doubt' => Doubt
      BY <2>7, <2>8, <2>9, <2>10, <2>11, Zenon DEF Doubt
    <2>13. QED BY <1>0, <1>3, <2>1, <2>4, <2>12, QuietKeeps, Zenon
  <1>6. CASE SendOff
    <2>1. Head(queue) = "off" /\ UNCHANGED <<clock, reply>>
      BY <1>6, Zenon DEF SendOff, Running
    <2>2. Doubt
      BY <1>1, <2>1, Zenon DEF Off, Doubt
    <2>3. Cardinality(Asked(queue')) = Cardinality(Asked(queue))
      <3>1. One(Head(queue) \in Makes) = 0
        BY <2>1, Opcodes, Zenon DEF One
      <3>2. QED BY <1>4, <3>1, Sums
    <2>4. Causes' <= Causes
      BY <1>1, <2>1, <2>3, Sums
    <2>5. QED BY <1>0, <1>3, <2>1, <2>2, <2>4, QuietKeeps, Zenon
  <1>7. QED BY <1>5, <1>6

(* The newest key, before and after.                                        *)
LEMMA NewestNext ==
    ASSUME NEW h \in keys', h \in Nat, \A k \in keys' : k \in Nat /\ k <= h
    PROVE  Newest' = h
  <1>1. keys' \in SUBSET Nat
    OBVIOUS
  <1>2. Max(keys' \cup {0}) \in keys' \cup {0} /\ \A k \in keys' : k <= Max(keys' \cup {0})
    BY <1>1, NewestOf
  <1>3. PICK m : m = Max(keys' \cup {0})
    OBVIOUS
  <1>4. m \in keys' \cup {0} /\ h <= m
    BY <1>2, <1>3, Zenon
  <1>5. m = h
    BY <1>4
  <1>6. QED BY <1>3, <1>5, Zenon DEF Newest

(* Without a key there is no newest.                                        *)
LEMMA NewestNone == keys' = {} => Newest' = 0
  <1>1. \A k \in {} : k <= 0
    OBVIOUS
  <1>2. Max({} \cup {0}) \in {} \cup {0}
    BY <1>1, NewestOf
  <1>3. Max({} \cup {0}) = 0
    BY <1>2
  <1>4. QED BY <1>3, Zenon DEF Newest

(* A key or an off event comes with the mail.                               *)
LEMMA SyncSteps ==
    ASSUME TypeOK, Epochs, Calls, Budget, TypeOK', faults' = faults, Sync
    PROVE  Budget'
  <1>0. /\ own \in Nat /\ faults \in Nat /\ clock \in Nat /\ keymail \in Seq(Nat) /\ keys \subseteq Nat \ {0}
        /\ keys' \subseteq Nat \ {0}
    BY TypeParts, Zenon DEF TypeOK, Epochs
  <1>1. /\ keymail # <<>> /\ keymail' = Tail(keymail) /\ keys' = Absorb(Head(keymail))
        /\ UNCHANGED <<clock, own, queue, reply, sealing, link, epoch, need, announced, renewing, wire, checking>>
        /\ listening' = listening
    BY Zenon DEF Sync, sender
  <1>2. /\ Len(keymail') = Len(keymail) - 1 /\ Len(keymail) \in Nat \ {0} /\ Head(keymail) = keymail[1]
        /\ Head(keymail) \in Nat /\ 1 \in 1 .. Len(keymail)
        /\ \A i \in 1 .. Len(keymail) - 1 : keymail'[i] = keymail[i + 1]
        /\ keymail' \in Seq(Nat)
    BY <1>0, <1>1, TailIs
  <1>3. Causes' <= Causes
    BY <1>1, Sums
  <1>4. Head(keymail) # 0 => keys' = keys \cup {Head(keymail)} /\ \A k \in keys : k < Head(keymail)
    <2>1. Head(keymail) # 0 => \A k \in keys : k < Head(keymail)
      BY <1>2, Zenon DEF Epochs
    <2>2. Head(keymail) # 0 => ~\E k \in keys : k >= Head(keymail)
      BY <1>0, <1>2, <2>1
    <2>3. QED BY <1>1, <2>1, <2>2, Zenon DEF Absorb
  <1>5. Coming' = Coming
    <2>1. CASE keymail' # <<>>
      <3>1. Len(keymail') # 0
        BY <1>2, <2>1
      <3>2. keymail'[Len(keymail')] = keymail[Len(keymail)]
        <4>1. Len(keymail) - 1 \in 1 .. Len(keymail) - 1 /\ Len(keymail) - 1 + 1 = Len(keymail)
          BY <1>2, <3>1
        <4>2. QED BY <1>2, <4>1
      <3>3. QED BY <1>1, <2>1, <3>2, Zenon DEF Coming
    <2>2. CASE keymail' = <<>>
      <3>1. Len(keymail) = 1
        BY <1>2, <2>2
      <3>2. Coming = Head(keymail)
        BY <1>1, <1>2, <3>1, Zenon DEF Coming
      <3>3. Newest' = Head(keymail)
        <4>1. CASE Head(keymail) = 0
          BY <1>1, <4>1, NewestNone, Zenon DEF Absorb
        <4>2. CASE Head(keymail) # 0
          <5>1. Head(keymail) \in keys' /\ \A k \in keys' : k \in Nat /\ k <= Head(keymail)
            BY <1>0, <1>2, <1>4, <4>2
          <5>2. QED BY <1>2, <5>1, NewestNext, Zenon
        <4>3. QED BY <4>1, <4>2
      <3>4. QED BY <2>2, <3>2, <3>3, Zenon DEF Coming
    <2>3. QED BY <2>1, <2>2
  <1>6. Apart' => Apart
    BY <1>1, <1>5, Zenon DEF Apart
  <1>7. Doubt' => Doubt
    <2>1. CASE Head(keymail) = 0
      BY <1>2, <2>1, Zenon DEF Off, Doubt
    <2>2. CASE Head(keymail) # 0
      <3>1. (InVain' => InVain) /\ (Announces' => Announces) /\ (Reopens' => Reopens)
        BY <1>1, <1>3, Same
      <3>2. OnWire' => OnWire
        BY <1>1, <1>3, <1>4, <2>2, Same, Zenon DEF OnWire, Unreadable, Stale
      <3>3. Hurried' => Hurried
        BY <1>1, <1>3, Same, Zenon DEF Hurried
      <3>4. Off' => Off
        <4>1. ASSUME NEW i \in 1 .. Len(keymail') PROVE i + 1 \in 1 .. Len(keymail) /\ keymail'[i] = keymail[i + 1]
          BY <1>2
        <4>2. QED BY <1>1, <4>1, Zenon DEF Off
      <3>5. QED BY <3>1, <3>2, <3>3, <3>4, Zenon DEF Doubt
    <2>3. QED BY <2>1, <2>2
  <1>8. QED BY <1>0, <1>1, <1>3, <1>6, <1>7, QuietKeeps, Zenon

(* The timers, when nothing else is under way.                              *)
LEMMA TimerSteps ==
    ASSUME TypeOK, Epochs, Calls, Budget, TypeOK', faults' = faults,
           CheckDue \/ Retire \/ TenSeconds
    PROVE  Budget'
  <1>0. /\ own \in Nat /\ faults \in Nat /\ clock \in Nat /\ need \in BOOLEAN /\ keys \subseteq Nat \ {0}
    BY TypeParts, Zenon DEF TypeOK, Epochs
  <1>1. /\ keymail = <<>> /\ wire = <<>> /\ ~need /\ queue = <<>> /\ reply = None /\ sealing = "no"
    <2>1. faults' # faults + 1
      BY <1>0
    <2>2. QED BY <2>1, Zenon DEF CheckDue, Retire, TenSeconds, Slow, Fault
  <1>2. /\ UNCHANGED <<clock, own, queue, reply, sealing, link, epoch, announced, renewing, wire, keymail>>
        /\ listening' = listening
    BY Zenon DEF CheckDue, Retire, TenSeconds, sender, room
  <1>q. ASSUME Causes' <= Causes, Doubt' => Doubt \/ Apart, Apart' => Apart PROVE Budget'
    BY <1>0, <1>2, <1>q, QuietKeeps, Zenon
  <1>3. CASE TenSeconds
    <2>1. UNCHANGED <<keys, checking, need>>
      BY <1>3, Zenon DEF TenSeconds, room
    <2>2. Causes' <= Causes
      BY <1>2, <2>1, Sums
    <2>3. QED BY <1>2, <1>q, <2>1, <2>2, Same, Zenon DEF Doubt
  <1>4. CASE Retire
    <2>1. UNCHANGED <<checking, need>> /\ keys # {} /\ keys' = {Newest}
      BY <1>4, Zenon DEF Retire, room
    <2>2. Causes' <= Causes
      BY <1>2, <2>1, Sums
    <2>3. Newest' = Newest
      <3>1. Newest \in Nat
        BY NewestIs
      <3>2. Newest \in keys' /\ \A k \in keys' : k \in Nat /\ k <= Newest
        BY <2>1, <3>1
      <3>3. QED BY <3>1, <3>2, NewestNext, Zenon
    <2>4. Apart' => Apart
      BY <1>2, <2>3, Zenon DEF Apart, Coming
    <2>5. ~OnWire'
      BY <1>1, <1>2, <2>2, Same, Zenon
    <2>6. Doubt' => Doubt
      BY <1>2, <2>1, <2>2, <2>5, Same, Zenon DEF Doubt
    <2>7. QED BY <1>q, <2>2, <2>4, <2>6
  <1>5. CASE CheckDue
    <2>1. /\ checking # 0 /\ checking' = 0 /\ keys' = keys
          /\ need' = need \/ (need' = TRUE /\ listening /\ link = "up" /\ Newest # checking)
      BY <1>5, Zenon DEF CheckDue, Missing
    <2>2. CASE need' = need
      <3>1. Causes' <= Causes
        BY <1>2, <2>2, Sums
      <3>2. QED BY <1>2, <1>q, <2>1, <3>1, Same, Zenon DEF Doubt
    <2>3. CASE need' = TRUE /\ listening /\ link = "up" /\ Newest # checking
      <3>1. Causes = 0 /\ Causes' = 1
        <4>1. Cardinality(Asked(queue)) = 0 /\ Cardinality(Asked(queue')) = 0 /\ None.op = "none"
          BY <1>1, <1>2, AskedNone, Opcodes
        <4>2. QED BY <1>0, <1>1, <1>2, <2>3, <4>1, Sums, SMTT(30) DEF One
      <3>2. Coming = Newest /\ Coming' = Coming
        BY <1>1, <1>2, <2>1, Zenon DEF Coming, Newest
      <3>3. Apart' <=> Apart
        BY <1>2, <3>2, Zenon DEF Apart
      <3>4. ~Apart => Doubt
        BY <2>1, <2>3, <3>2, Zenon DEF Apart, InVain, Stale, Doubt
      <3>5. ~Doubt'
        <4>1. ~InVain' /\ ~Announces'
          BY <1>2, <2>1, <2>3, Zenon DEF InVain, Announces
        <4>2. ~OnWire' /\ ~Off'
          <5>1. 1 .. Len(<<>>) = {}
            OBVIOUS
          <5>2. QED BY <1>1, <1>2, <5>1, Zenon DEF OnWire, Off
        <4>3. ~Reopens'
          <5>1. "up" \notin {"wait", "retry"}
            OBVIOUS
          <5>2. QED BY <1>2, <2>3, <5>1, Zenon DEF Reopens
        <4>4. ~Hurried'
          <5>1. ~(Causes' >= 2)
            BY <3>1
          <5>2. QED BY <1>1, <1>2, <5>1, Zenon DEF Hurried
        <4>5. QED BY <4>1, <4>2, <4>3, <4>4, Zenon DEF Doubt
      <3>6. Causes' # 0
        BY <3>1
      <3>7. \/ Doubts = 1 /\ Lacks = 1 /\ Doubts' = 1 /\ Lacks' = 0
            \/ Doubts = 1 /\ Lacks = 0 /\ Doubts' = 0 /\ Lacks' = 0
        BY <3>1, <3>3, <3>4, <3>5, <3>6, Ones, Zenon
      <3>8. PICK d \in Nat, l \in Nat : d = Doubts' /\ l = Lacks'
        BY <3>7
      <3>9. clock + 1 + d + l <= 1 + 3 * faults
        <4>1. clock + 0 + Doubts + Lacks <= 1 + 3 * faults
          BY <3>1, Zenon DEF Budget
        <4>2. \/ Doubts = 1 /\ Lacks = 1 /\ d = 1 /\ l = 0
              \/ Doubts = 1 /\ Lacks = 0 /\ d = 0 /\ l = 0
          BY <3>7, <3>8, Zenon
        <4>3. QED BY <1>0, <4>1, <4>2
      <3>10. QED BY <1>2, <3>1, <3>8, <3>9, Zenon DEF Budget
    <2>4. QED BY <2>1, <2>2, <2>3
  <1>6. QED BY <1>3, <1>4, <1>5

-----------------------------------------------------------------------------
(* The channel starts with one key to make: the budget is met.              *)
LEMMA TypingInit == Init => TypingInv
  <1> SUFFICES ASSUME Init PROVE TypingInv
    OBVIOUS
  <1>0. /\ clock = 0 /\ own = 0 /\ wanted = TRUE /\ link = "off" /\ epoch = 0 /\ queue = <<>> /\ reply = None
        /\ sealing = "no" /\ rotatable = TRUE /\ announced = 0 /\ renewing = 0 /\ need = FALSE
        /\ wire = <<>> /\ keymail = <<>> /\ listening = FALSE /\ keys = {} /\ checking = 0 /\ askable = TRUE
        /\ faults = 0
    BY Zenon DEF Init
  <1>e. \A S : <<>> \in Seq(S)
    OBVIOUS
  <1>n. 1 .. Len(<<>>) = {}
    OBVIOUS
  <1>1. TypeOK
    <2>1. reply \in [op : Makes \cup {"none"}, e : Nat]
      BY <1>0 DEF None
    <2>2. clock \in Nat /\ own \in Nat /\ epoch \in Nat /\ announced \in Nat /\ renewing \in Nat /\ checking \in Nat
      BY <1>0
    <2>3. link \in {"off", "wait", "retry", "up"} /\ sealing \in {"no", "yes", "late"}
      BY <1>0
    <2>4. keys \subseteq Nat \ {0} /\ wanted \in BOOLEAN /\ rotatable \in BOOLEAN /\ need \in BOOLEAN
          /\ listening \in BOOLEAN /\ askable \in BOOLEAN
      BY <1>0
    <2>5. QED BY <1>0, <1>e, <2>1, <2>2, <2>3, <2>4, TypeParts, Zenon
  <1>2. Epochs
    <2>1. own <= clock /\ faults \in Nat /\ reply.e = 0
      BY <1>0, Opcodes
    <2>2. \A k \in keys : FALSE
      BY <1>0
    <2>3. QED BY <1>0, <1>n, <2>1, <2>2, Zenon DEF Epochs
  <1>3. Calls
    <2>1. reply.op = "none" /\ "none" # "connect" /\ "none" # "rotate" /\ link # "up" /\ sealing # "yes"
      BY <1>0, Opcodes
    <2>2. QED BY <1>0, <1>n, <2>1, Zenon DEF Calls
  <1>4. Causes = 1
    BY <1>0, AskedNone, Opcodes DEF Causes, One
  <1>5. ~Apart
    <2>1. Newest = 0
      <3>1. \A k \in {} : k <= 0
        OBVIOUS
      <3>2. Max({} \cup {0}) \in {} \cup {0}
        BY <3>1, NewestOf
      <3>3. QED BY <1>0, <3>2 DEF Newest
    <2>2. QED BY <1>0, <2>1, Zenon DEF Apart, Coming
  <1>6. ~Doubt
    <2>1. ~(Causes >= 2) /\ link # "up"
      BY <1>0, <1>4
    <2>2. QED BY <1>0, <1>n, <2>1, Zenon DEF Doubt, InVain, OnWire, Hurried, Off, Announces, Reopens
  <1>7. Budget
    <2>1. Doubts = 0 /\ Lacks = 0
      BY <1>5, <1>6, Ones, Zenon
    <2>2. QED BY <1>0, <1>4, <2>1 DEF Budget
  <1>8. QED BY <1>1, <1>2, <1>3, <1>7, Zenon DEF TypingInv

(* Each step keeps the invariant.                                           *)
LEMMA TypingStep == TypingInv /\ [Next]_vars => TypingInv'
  <1> SUFFICES ASSUME TypingInv, [Next]_vars PROVE TypingInv'
    OBVIOUS
  <1>0. TypeOK /\ Epochs /\ Calls /\ Budget /\ faults \in Nat
    BY Zenon DEF TypingInv, Epochs
  <1>1. TypeOK' /\ Epochs' /\ Calls'
    BY <1>0, TypesStep, EpochsStep, CallsStep, Zenon
  <1>2. Budget'
    <2>1. CASE faults' = faults + 1
      <3>1. CASE \/ OpenFails \/ Lost \/ SealRefused \/ SwitchOff \/ SenderRestarts \/ MakeKeyFails \/ MakeKeyUncommitted
                 \/ SendOffFails \/ ReceiverLost \/ ReceiverRestarts \/ CheckDue \/ Retire \/ TenSeconds
        BY <1>0, <1>1, <2>1, <3>1, FaultSteps, Zenon
      <3>2. CASE \/ Start \/ Retry \/ Open \/ NeedArrives \/ Send \/ Sealed \/ SwitchOn \/ MakeKey \/ SendOff
                 \/ Connected \/ Rotated \/ Dropped \/ Renew \/ Renewed \/ Listen \/ Receive \/ Sync \/ UNCHANGED vars
        <4>1. faults' = faults
          BY <3>2, Zenon DEF Start, Retry, Open, NeedArrives, Send, Sealed, SwitchOn, MakeKey, SendOff,
             Connected, Rotated, Dropped, Renew, Renewed, Listen, Receive, Sync, vars
        <4>2. QED BY <1>0, <2>1, <4>1
      <3>3. QED BY <3>1, <3>2, Zenon DEF Next, Native, Continue
    <2>2. CASE faults' = faults
      <3>1. CASE Start \/ Retry \/ Open \/ NeedArrives \/ Send \/ Sealed \/ SealRefused \/ SwitchOn
        BY <1>0, <1>1, <2>2, <3>1, SenderSteps, Zenon
      <3>2. CASE Connected \/ Rotated \/ Dropped
        BY <1>0, <1>1, <2>2, <3>2, ReturnSteps, Zenon
      <3>3. CASE Renew \/ Renewed \/ Listen \/ Receive
        BY <1>0, <1>1, <2>2, <3>3, RoomSteps, Zenon
      <3>4. CASE MakeKey \/ SendOff
        BY <1>0, <1>1, <2>2, <3>4, NativeSteps, Zenon
      <3>5. CASE Sync
        BY <1>0, <1>1, <2>2, <3>5, SyncSteps, Zenon
      <3>6. CASE CheckDue \/ Retire \/ TenSeconds
        BY <1>0, <1>1, <2>2, <3>6, TimerSteps, Zenon
      <3>7. CASE UNCHANGED vars
        <4>1. /\ UNCHANGED <<clock, own, queue, reply, sealing, link, epoch, need, announced, renewing, wire>>
              /\ UNCHANGED <<checking, keys, keymail>> /\ listening' = listening
          BY <3>7, Zenon DEF vars, sender, room, receiver
        <4>2. Causes' <= Causes
          BY <1>0, <1>1, <4>1, Sums
        <4>3. (Doubt' => Doubt \/ Apart) /\ (Apart' => Apart)
          BY <1>0, <1>1, <4>1, <4>2, Same, Zenon DEF Doubt
        <4>4. QED BY <1>0, <1>1, <2>2, <4>1, <4>2, <4>3, QuietKeeps, Zenon
      <3>8. CASE OpenFails \/ Lost \/ SwitchOff \/ SenderRestarts \/ MakeKeyFails \/ MakeKeyUncommitted
                 \/ SendOffFails \/ ReceiverLost \/ ReceiverRestarts
        <4>1. faults' = faults + 1
          BY <3>8, Zenon DEF OpenFails, Lost, SwitchOff, SenderRestarts, MakeKeyFails, MakeKeyUncommitted,
             SendOffFails, ReceiverLost, ReceiverRestarts, Fault
        <4>2. QED BY <1>0, <2>2, <4>1
      <3>9. QED BY <3>1, <3>2, <3>3, <3>4, <3>5, <3>6, <3>7, <3>8, Zenon DEF Next, Native, Continue
    <2>3. faults' \in {faults, faults + 1}
      <3>1. CASE SealRefused
        BY <3>1, Zenon DEF SealRefused, Fault
      <3>2. CASE CheckDue \/ Retire \/ TenSeconds
        BY <3>2, Zenon DEF CheckDue, Retire, TenSeconds, Slow, Fault
      <3>3. CASE \/ OpenFails \/ Lost \/ SwitchOff \/ SenderRestarts \/ MakeKeyFails \/ MakeKeyUncommitted
                 \/ SendOffFails \/ ReceiverLost \/ ReceiverRestarts
        BY <3>3, Zenon DEF OpenFails, Lost, SwitchOff, SenderRestarts, MakeKeyFails, MakeKeyUncommitted,
             SendOffFails, ReceiverLost, ReceiverRestarts, Fault
      <3>4. CASE \/ Start \/ Retry \/ Open \/ NeedArrives \/ Send \/ Sealed \/ SwitchOn \/ MakeKey \/ SendOff
                 \/ Connected \/ Rotated \/ Dropped \/ Renew \/ Renewed \/ Listen \/ Receive \/ Sync \/ UNCHANGED vars
        BY <3>4, Zenon DEF Start, Retry, Open, NeedArrives, Send, Sealed, SwitchOn, MakeKey, SendOff,
           Connected, Rotated, Dropped, Renew, Renewed, Listen, Receive, Sync, vars
      <3>5. QED BY <3>1, <3>2, <3>3, <3>4, Zenon DEF Next, Native, Continue
    <2>4. QED BY <2>1, <2>2, <2>3, Zenon
  <1>3. QED BY <1>1, <1>2, Zenon DEF TypingInv

(* Rekey requests, announcements and rotations do not set one another off:  *)
(* the keys made are bounded by what went wrong, whatever the order of      *)
(* calls, frames and mail, for every number of faults and of frames.        *)
THEOREM FewKeys == Spec => []NoRekeyStorm
  <1>1. Init => TypingInv
    BY TypingInit
  <1>2. TypingInv /\ [Next]_vars => TypingInv'
    BY TypingStep
  <1>3. TypingInv => NoRekeyStorm
    <2> SUFFICES ASSUME TypingInv PROVE clock <= 1 + 3 * faults
      BY DEF NoRekeyStorm
    <2>1. TypeOK /\ Epochs /\ Budget
      BY DEF TypingInv
    <2>2. clock \in Nat /\ Causes \in Nat /\ faults \in Nat
      BY <2>1, TypeParts, CausesIs, Zenon DEF Epochs
    <2>3. Doubts \in {0, 1} /\ Lacks \in {0, 1}
      BY Ones, Zenon
    <2>4. QED BY <2>1, <2>2, <2>3 DEF Budget
  <1>4. QED BY <1>1, <1>2, <1>3, PTL DEF Spec
=============================================================================
