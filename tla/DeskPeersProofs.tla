-------------------------- MODULE DeskPeersProofs --------------------------
(***************************************************************************)
(* What TLAPS proves of the parts of the pets' window that follow another  *)
(* device: TA's presence, the cups the two apps send each other, the       *)
(* partner's days played back and the pulses of their paws; and of the     *)
(* statistics and the growth of the pup.  Each from an inductive invariant *)
(* of its own.                                                             *)
(***************************************************************************)
EXTENDS DeskProofs

(* Presence: what says "work" on its way to TA says so of no earlier moment *)
(* than that it has waited or travelled since.                              *)

(* All that is told to TA, and the work among it.                           *)
Wordings == {"work", "idle", "cream", "grey", "partner", "private"}
Tasks == [topic : TA!Topics, value : Wordings, current : BOOLEAN, waited : 0 .. Patience]
Letters == [topic : TA!Topics, value : Wordings, age : 0 .. TA!STALE + 1]

SaysWork(x) == x.topic = "activity" /\ x.value = "work"

(* When I last worked n ticks ago: a task that says so has waited as long,  *)
(* a letter that says so has travelled as long but for that wait.           *)
Waited(x, n) == SaysWork(x) => n <= x.waited
Travelled(x, n) == SaysWork(x) => n <= Patience + x.age
AllWaited(s, n) == \A i \in 1 .. Len(s) : Waited(s[i], n)
AllTravelled(s, n) == \A i \in 1 .. Len(s) : Travelled(s[i], n)

(* What waits to be sent, what is on its way, and what TA shows, by topic.  *)
MyWords ==
    /\ DOMAIN mine = TA!Topics /\ \A t \in TA!Topics : mine[t] \in Wordings
    /\ mine = [t \in TA!Topics |-> mine[t]]
    /\ queue \in Seq(Tasks) /\ mail \in Seq(Letters)
    /\ \A t \in TA!Topics : theirs[t] \in Wordings \cup {TA!None}
    /\ theirs = [t \in TA!Topics |-> theirs[t]]

(* The two clocks stop one tick past their limits.                          *)
TAClocks == age \in 0 .. TA!STALE + 1 /\ ago \in 0 .. TA!STALE + Patience + 1

(* Work that is said is of this moment; what waits, travels or is shown is  *)
(* no older than the time it has spent there.                               *)
Recency ==
    /\ running /\ mine["activity"] = "work" => ago = 0
    /\ AllWaited(queue, ago)
    /\ AllTravelled(mail, ago)
    /\ theirs["activity"] = "work" => ago <= Patience + age

(* Together.                                                                *)
PresenceInv == MyWords /\ TAClocks /\ Recency

(* A finite set is put in a sequence of its elements.                       *)
LEMMA SeqOfSet ==
    ASSUME NEW S, IsFiniteSet(S)
    PROVE  TA!SetToSeq(S) \in Seq(S)
  <1>1. Cardinality(S) \in Nat /\ ExistsBijection(1 .. Cardinality(S), S)
    BY FS_CardinalityType
  <1>2. \E f \in [1 .. Cardinality(S) -> S] : TA!IsInjective(f)
    BY <1>1, Zenon DEF ExistsBijection, Bijection, Injection, IsInjective, TA!IsInjective
  <1>3. (CHOOSE f \in [1 .. Cardinality(S) -> S] : TA!IsInjective(f)) \in [1 .. Cardinality(S) -> S]
    BY <1>2, Zenon
  <1>4. TA!Cardinality(S) = Cardinality(S)
    BY Zenon DEF TA!Cardinality, Cardinality
  <1>5. TA!SetToSeq(S) \in [1 .. Cardinality(S) -> S]
    BY <1>3, <1>4, Zenon DEF TA!SetToSeq
  <1>6. QED BY <1>1, <1>5

(* What is published are the values of these topics, and has not waited.    *)
LEMMA Published ==
    ASSUME NEW ts \in SUBSET TA!Topics, NEW values, \A t \in ts : values[t] \in Wordings, NEW n \in Nat,
           "activity" \in ts /\ values["activity"] = "work" => n = 0
    PROVE  TA!Publish(ts, values) \in Seq(Tasks) /\ AllWaited(TA!Publish(ts, values), n)
  <1> DEFINE S == {TA!Task(t, values[t]) : t \in ts}
             A == {TA!Task("activity", values["activity"]), TA!Task("skin", values["skin"]),
                   TA!Task("statistics", values["statistics"])}
  <1>1. IsFiniteSet(A)
    <2>1. IsFiniteSet({TA!Task("activity", values["activity"])})
      BY FS_Singleton, Zenon
    <2>2. IsFiniteSet({TA!Task("activity", values["activity"])} \cup {TA!Task("skin", values["skin"])})
      BY <2>1, FS_AddElement, Zenon
    <2>3. IsFiniteSet(({TA!Task("activity", values["activity"])} \cup {TA!Task("skin", values["skin"])})
                        \cup {TA!Task("statistics", values["statistics"])})
      BY <2>2, FS_AddElement, Zenon
    <2>4. A = ({TA!Task("activity", values["activity"])} \cup {TA!Task("skin", values["skin"])})
                        \cup {TA!Task("statistics", values["statistics"])}
      BY Zenon
    <2>5. QED BY <2>3, <2>4, Zenon
  <1>2. S \subseteq A
    BY Zenon DEF TA!Topics
  <1>3. IsFiniteSet(S)
    BY <1>1, <1>2, FS_Subset, Zenon
  <1>4. TA!Publish(ts, values) \in Seq(S)
    BY <1>3, SeqOfSet, Zenon DEF TA!Publish
  <1>5. \A t \in ts : TA!Task(t, values[t]) \in Tasks
    BY PresenceAssumption DEF TA!Task, Tasks
  <1>6. S \subseteq Tasks
    BY <1>5, Zenon
  <1>7. \A x \in S : Waited(x, n)
    <2> SUFFICES ASSUME NEW t \in ts, SaysWork(TA!Task(t, values[t]))
                 PROVE  n <= TA!Task(t, values[t]).waited
      BY Zenon DEF Waited
    <2>1. t = "activity" /\ values[t] = "work" /\ TA!Task(t, values[t]).waited = 0
      BY DEF SaysWork, TA!Task
    <2>2. n = 0
      BY <2>1
    <2>3. QED BY <2>1, <2>2
  <1> HIDE DEF S, A
  <1>8. TA!Publish(ts, values) \in Seq(Tasks)
    BY <1>4, <1>6
  <1>9. \A i \in 1 .. Len(TA!Publish(ts, values)) : TA!Publish(ts, values)[i] \in S
    BY <1>4
  <1>10. QED BY <1>7, <1>8, <1>9, Zenon DEF AllWaited

(* What is said of a queue is said of its head and of what follows;         *)
LEMMA QueueTail ==
    ASSUME NEW s \in Seq(Tasks), s # <<>>, NEW n \in Nat, AllWaited(s, n)
    PROVE  /\ Tail(s) \in Seq(Tasks) /\ Head(s) \in Tasks
           /\ AllWaited(Tail(s), n) /\ Waited(Head(s), n)
  <1>1. /\ Tail(s) \in Seq(Tasks) /\ Len(Tail(s)) = Len(s) - 1 /\ Len(s) \in Nat \ {0}
        /\ Head(s) = s[1] /\ Head(s) \in Tasks
        /\ \A i \in 1 .. Len(s) - 1 : Tail(s)[i] = s[i + 1]
    BY TailIs
  <1>2. ASSUME NEW i \in 1 .. Len(Tail(s)) PROVE Waited(Tail(s)[i], n)
    <2>1. i + 1 \in 1 .. Len(s) /\ Tail(s)[i] = s[i + 1]
      BY <1>1
    <2>2. QED BY <2>1, Zenon DEF AllWaited
  <1>3. Waited(Head(s), n)
    <2>1. 1 \in 1 .. Len(s)
      BY <1>1
    <2>2. QED BY <1>1, <2>1, Zenon DEF AllWaited
  <1>4. QED BY <1>1, <1>2, <1>3, Zenon DEF AllWaited

(* the same of the mail;                                                    *)
LEMMA MailTail ==
    ASSUME NEW s \in Seq(Letters), s # <<>>, NEW n \in Nat, AllTravelled(s, n)
    PROVE  /\ Tail(s) \in Seq(Letters) /\ Head(s) \in Letters
           /\ AllTravelled(Tail(s), n) /\ Travelled(Head(s), n)
  <1>1. /\ Tail(s) \in Seq(Letters) /\ Len(Tail(s)) = Len(s) - 1 /\ Len(s) \in Nat \ {0}
        /\ Head(s) = s[1] /\ Head(s) \in Letters
        /\ \A i \in 1 .. Len(s) - 1 : Tail(s)[i] = s[i + 1]
    BY TailIs
  <1>2. ASSUME NEW i \in 1 .. Len(Tail(s)) PROVE Travelled(Tail(s)[i], n)
    <2>1. i + 1 \in 1 .. Len(s) /\ Tail(s)[i] = s[i + 1]
      BY <1>1
    <2>2. QED BY <2>1, Zenon DEF AllTravelled
  <1>3. Travelled(Head(s), n)
    <2>1. 1 \in 1 .. Len(s)
      BY <1>1
    <2>2. QED BY <1>1, <2>1, Zenon DEF AllTravelled
  <1>4. QED BY <1>1, <1>2, <1>3, Zenon DEF AllTravelled

(* a letter is added to the mail,                                           *)
LEMMA MailAppend ==
    ASSUME NEW s \in Seq(Letters), NEW x \in Letters, NEW n \in Nat, AllTravelled(s, n), Travelled(x, n)
    PROVE  Append(s, x) \in Seq(Letters) /\ AllTravelled(Append(s, x), n)
  <1>1. /\ Append(s, x) \in Seq(Letters)
        /\ Len(Append(s, x)) = Len(s) + 1 /\ Append(s, x)[Len(s) + 1] = x /\ Len(s) \in Nat
        /\ \A i \in 1 .. Len(s) : Append(s, x)[i] = s[i]
    BY AppendIs
  <1>2. ASSUME NEW i \in 1 .. Len(s) + 1 PROVE Travelled(Append(s, x)[i], n)
    <2>1. CASE i \in 1 .. Len(s)
      BY <1>1, <2>1, Zenon DEF AllTravelled
    <2>2. CASE i = Len(s) + 1
      BY <1>1, <2>2
    <2>3. QED BY <1>1, <2>1, <2>2
  <1>3. QED BY <1>1, <1>2, Zenon DEF AllTravelled

(* and tasks to the queue.                                                  *)
LEMMA QueueConcat ==
    ASSUME NEW s \in Seq(Tasks), NEW u \in Seq(Tasks), NEW n \in Nat, AllWaited(s, n), AllWaited(u, n)
    PROVE  s \o u \in Seq(Tasks) /\ AllWaited(s \o u, n)
  <1>1. /\ s \o u \in Seq(Tasks) /\ Len(s \o u) = Len(s) + Len(u) /\ Len(s) \in Nat /\ Len(u) \in Nat
        /\ \A i \in 1 .. Len(s) + Len(u) : (s \o u)[i] = IF i <= Len(s) THEN s[i] ELSE u[i - Len(s)]
    OBVIOUS
  <1>2. ASSUME NEW i \in 1 .. Len(s) + Len(u) PROVE Waited((s \o u)[i], n)
    <2>1. CASE i <= Len(s)
      <3>1. i \in 1 .. Len(s) /\ (s \o u)[i] = s[i]
        BY <1>1, <2>1
      <3>2. QED BY <3>1, Zenon DEF AllWaited
    <2>2. CASE ~(i <= Len(s))
      <3>1. i - Len(s) \in 1 .. Len(u) /\ (s \o u)[i] = u[i - Len(s)]
        BY <1>1, <2>2
      <3>2. QED BY <3>1, Zenon DEF AllWaited
    <2>3. QED BY <2>1, <2>2
  <1>3. QED BY <1>1, <1>2, Zenon DEF AllWaited

(* A tick makes a task wait and a letter travel one tick longer, and the    *)
(* last work is one tick further away, at most.                             *)
LEMMA QueueWaits ==
    ASSUME NEW s \in Seq(Tasks), NEW n \in Nat, NEW m \in Nat, m <= n + 1, AllWaited(s, n),
           \A i \in DOMAIN s : s[i].waited < Patience
    PROVE  /\ [i \in DOMAIN s |-> TA!Waits(s[i])] \in Seq(Tasks)
           /\ AllWaited([i \in DOMAIN s |-> TA!Waits(s[i])], m)
  <1> DEFINE u == [i \in DOMAIN s |-> TA!Waits(s[i])]
  <1>1. DOMAIN s = 1 .. Len(s) /\ Len(s) \in Nat /\ \A i \in 1 .. Len(s) : s[i] \in Tasks
    OBVIOUS
  <1>2. ASSUME NEW task \in Tasks, task.waited < Patience
        PROVE  /\ TA!Waits(task) \in Tasks /\ (Waited(task, n) => Waited(TA!Waits(task), m))
    <2>1. TA!Waits(task) \in Tasks
      BY <1>2, PresenceAssumption DEF Tasks, TA!Waits
    <2>2. /\ TA!Waits(task).topic = task.topic /\ TA!Waits(task).value = task.value
          /\ TA!Waits(task).waited = task.waited + 1 /\ task.waited \in Nat
      BY PresenceAssumption DEF Tasks, TA!Waits
    <2>3. QED BY <2>1, <2>2 DEF Waited, SaysWork
  <1>3. \A i \in 1 .. Len(s) : u[i] \in Tasks /\ Waited(u[i], m)
    BY <1>1, <1>2, Zenon DEF AllWaited
  <1>4. u \in Seq(Tasks) /\ Len(u) = Len(s)
    BY <1>1, <1>3
  <1>5. QED BY <1>3, <1>4, Zenon DEF AllWaited

LEMMA MailAges ==
    ASSUME NEW s \in Seq(Letters), NEW n \in Nat, NEW m \in Nat, m <= n + 1, m <= TA!STALE + Patience + 1,
           AllTravelled(s, n)
    PROVE  /\ [i \in DOMAIN s |-> TA!Ages(s[i])] \in Seq(Letters)
           /\ AllTravelled([i \in DOMAIN s |-> TA!Ages(s[i])], m)
  <1> DEFINE u == [i \in DOMAIN s |-> TA!Ages(s[i])]
  <1>1. DOMAIN s = 1 .. Len(s) /\ Len(s) \in Nat /\ \A i \in 1 .. Len(s) : s[i] \in Letters
    OBVIOUS
  <1>2. ASSUME NEW x \in Letters
        PROVE  /\ TA!Ages(x) \in Letters /\ (Travelled(x, n) => Travelled(TA!Ages(x), m))
    <2>1. TA!Ages(x) \in Letters
      BY DEF Letters, TA!Ages, TA!Older, TA!STALE
    <2>2. /\ TA!Ages(x).topic = x.topic /\ TA!Ages(x).value = x.value
          /\ TA!Ages(x).age = TA!Older(x.age, TA!STALE) /\ x.age \in 0 .. 4
      BY DEF Letters, TA!Ages, TA!STALE
    <2>3. QED BY <2>1, <2>2, PresenceAssumption DEF Travelled, SaysWork, TA!Older, TA!STALE
  <1>3. \A i \in 1 .. Len(s) : u[i] \in Letters /\ Travelled(u[i], m)
    BY <1>1, <1>2, Zenon DEF AllTravelled
  <1>4. u \in Seq(Letters) /\ Len(u) = Len(s)
    BY <1>1, <1>3
  <1>5. QED BY <1>3, <1>4, Zenon DEF AllTravelled

(* Nothing waits or travels in an empty sequence, and work of this moment   *)
(* is the youngest there is.                                                *)
LEMMA NoWords ==
    /\ <<>> \in Seq(Tasks) /\ <<>> \in Seq(Letters)
    /\ \A n : AllWaited(<<>>, n) /\ AllTravelled(<<>>, n)
  BY DEF AllWaited, AllTravelled

LEMMA WordsOfNow ==
    /\ \A s \in Seq(Tasks) : AllWaited(s, 0)
    /\ \A s \in Seq(Letters) : AllTravelled(s, 0)
  <1>1. ASSUME NEW s \in Seq(Tasks), NEW i \in 1 .. Len(s) PROVE Waited(s[i], 0)
    <2>1. s[i] \in Tasks
      OBVIOUS
    <2>2. s[i].waited \in 0 .. Patience
      BY <2>1 DEF Tasks
    <2>3. QED BY <2>2, PresenceAssumption DEF Waited
  <1>2. ASSUME NEW s \in Seq(Letters), NEW i \in 1 .. Len(s) PROVE Travelled(s[i], 0)
    <2>1. s[i] \in Letters
      OBVIOUS
    <2>2. s[i].age \in 0 .. 4
      BY <2>1 DEF Letters, TA!STALE
    <2>3. QED BY <2>2, PresenceAssumption DEF Travelled
  <1>3. QED BY <1>1, <1>2, Zenon DEF AllWaited, AllTravelled

(* The start: nothing said, nothing on its way.                             *)
LEMMA PresenceInit == Init => PresenceInv
  <1> SUFFICES ASSUME TA!Init PROVE PresenceInv
    BY DEF Init
  <1>1. /\ mine = [activity |-> "idle", skin |-> "cream", statistics |-> "private"] /\ theirs = mine
        /\ queue = <<>> /\ mail = <<>> /\ age = 0 /\ ago = TA!STALE + Patience + 1
    BY DEF TA!Init
  <1>2. mine = [t \in TA!Topics |-> mine[t]] /\ \A t \in TA!Topics : mine[t] \in Wordings
    BY <1>1 DEF TA!Topics, Wordings
  <1>3. mine["activity"] # "work"
    BY <1>1
  <1>4. MyWords
    BY <1>1, <1>2, NoWords, Zenon DEF MyWords
  <1>5. TAClocks
    BY <1>1, PresenceAssumption DEF TAClocks, TA!STALE
  <1>6. Recency
    BY <1>1, <1>3, NoWords, Zenon DEF Recency
  <1>7. QED BY <1>4, <1>5, <1>6 DEF PresenceInv

(* Every step of the presence keeps the invariant.                          *)
LEMMA PresenceStep == PresenceInv /\ [TA!Next]_presenceVars => PresenceInv'
  <1> SUFFICES ASSUME PresenceInv, [TA!Next]_presenceVars PROVE PresenceInv'
    OBVIOUS
  <1>0. MyWords /\ TAClocks /\ Recency
    BY DEF PresenceInv
  <1>s. "activity" \in TA!Topics /\ "work" \in Wordings
    BY DEF TA!Topics, Wordings
  <1>n. ago \in Nat /\ age \in Nat /\ 0 \in Nat
    BY <1>0, PresenceAssumption DEF TAClocks, TA!STALE
  <1>1. ASSUME NEW t \in TA!Topics, TA!Change(t) PROVE PresenceInv'
    <2>1. PICK value \in TA!Values[t] \ {mine[t]} : mine' = [mine EXCEPT ![t] = value]
      BY <1>1, Zenon DEF TA!Change
    <2>2. value \in Wordings
      BY <2>1 DEF TA!Topics, TA!Values, Wordings
    <2>3. /\ mine' = [s \in TA!Topics |-> mine'[s]] /\ \A s \in TA!Topics : mine'[s] \in Wordings
          /\ DOMAIN mine' = TA!Topics
      BY <1>0, <2>1, <2>2 DEF MyWords
    <2>4. /\ running /\ running' = running /\ mail' = mail /\ theirs' = theirs /\ age' = age
          /\ ago' = IF mine'.activity = "work" THEN 0 ELSE ago
      BY <1>1, Zenon DEF TA!Change
    <2> DEFINE old == [i \in DOMAIN queue |-> IF queue[i].topic = t THEN [queue[i] EXCEPT !.current = FALSE]
                                              ELSE queue[i]]
               new == TA!Publish({t}, mine')
    <2>5. queue' = old \o new
      BY <1>1, Zenon DEF TA!Change
    <2>6. old \in Seq(Tasks) /\ AllWaited(old, ago)
      <3>1. queue \in Seq(Tasks) /\ DOMAIN queue = 1 .. Len(queue) /\ Len(queue) \in Nat
        BY <1>0 DEF MyWords
      <3>2. ASSUME NEW task \in Tasks
            PROVE  /\ [task EXCEPT !.current = FALSE] \in Tasks
                   /\ Waited(task, ago) => Waited([task EXCEPT !.current = FALSE], ago)
        BY DEF Tasks, Waited, SaysWork
      <3>3. \A i \in 1 .. Len(queue) : queue[i] \in Tasks /\ Waited(queue[i], ago)
        BY <1>0, <3>1 DEF Recency, AllWaited
      <3>4. \A i \in 1 .. Len(queue) : old[i] \in Tasks /\ Waited(old[i], ago)
        BY <3>1, <3>2, <3>3
      <3>5. old \in Seq(Tasks) /\ Len(old) = Len(queue)
        BY <3>1, <3>4
      <3>6. QED BY <3>4, <3>5, Zenon DEF AllWaited
    <2>7. ago' \in Nat /\ (ago' = 0 \/ ago' = ago) /\ (mine'["activity"] = "work" => ago' = 0)
      BY <1>n, <2>4
    <2>8. new \in Seq(Tasks) /\ AllWaited(new, ago')
      <3>1. {t} \in SUBSET TA!Topics /\ \A s \in {t} : mine'[s] \in Wordings
        BY <2>3
      <3>2. QED BY <2>7, <3>1, Published, Zenon
    <2> HIDE DEF old, new
    <2>9. AllWaited(old, ago') /\ AllTravelled(mail, ago')
      BY <1>0, <2>6, <2>7, WordsOfNow, Zenon DEF MyWords, Recency
    <2>10. queue' \in Seq(Tasks) /\ AllWaited(queue', ago')
      BY <2>5, <2>6, <2>7, <2>8, <2>9, QueueConcat, Zenon
    <2>11. MyWords'
      BY <1>0, <2>3, <2>4, <2>10 DEF MyWords
    <2>12. TAClocks'
      BY <1>0, <2>4, <2>7, PresenceAssumption DEF TAClocks, TA!STALE
    <2>13. theirs'["activity"] = "work" => ago' <= Patience + age'
      BY <1>0, <1>n, <2>4, <2>7, PresenceAssumption DEF Recency
    <2>14. Recency'
      BY <2>4, <2>7, <2>9, <2>10, <2>13, Zenon DEF Recency
    <2>15. QED BY <2>11, <2>12, <2>14 DEF PresenceInv
  <1>2. CASE TA!Stop
    <2>1. running' = FALSE /\ queue' = <<>> /\ UNCHANGED <<mine, mail, theirs, age, ago>>
      BY <1>2, Zenon DEF TA!Stop
    <2>2. MyWords' /\ TAClocks'
      BY <1>0, <2>1, NoWords DEF MyWords, TAClocks
    <2>3. Recency'
      BY <1>0, <2>1, NoWords, Zenon DEF Recency
    <2>4. QED BY <2>2, <2>3 DEF PresenceInv
  <1>3. CASE TA!Start
    <2>1. /\ mine' = [mine EXCEPT !.activity = "work"] /\ ago' = 0 /\ queue' = TA!Publish(TA!Topics, mine')
          /\ UNCHANGED <<mail, theirs, age>>
      BY <1>3, Zenon DEF TA!Start
    <2>2. /\ mine' = [s \in TA!Topics |-> mine'[s]] /\ \A s \in TA!Topics : mine'[s] \in Wordings
          /\ DOMAIN mine' = TA!Topics
      BY <1>0, <1>s, <2>1 DEF MyWords
    <2>3. queue' \in Seq(Tasks)
      BY <1>n, <2>1, <2>2, Published, Zenon
    <2>4. MyWords'
      BY <1>0, <2>1, <2>2, <2>3 DEF MyWords
    <2>5. TAClocks'
      BY <1>0, <2>1, PresenceAssumption DEF TAClocks, TA!STALE
    <2>6. AllWaited(queue', ago') /\ AllTravelled(mail', ago')
      <3>1. mail' \in Seq(Letters)
        BY <2>4 DEF MyWords
      <3>2. AllWaited(queue', 0) /\ AllTravelled(mail', 0)
        BY <2>3, <3>1, WordsOfNow, Zenon
      <3>3. ago' = 0
        BY <2>1
      <3>4. QED BY <3>2, <3>3
    <2>7. ago' <= Patience + age'
      BY <1>n, <2>1, PresenceAssumption
    <2>8. Recency'
      BY <2>1, <2>6, <2>7, Zenon DEF Recency
    <2>9. QED BY <2>4, <2>5, <2>8 DEF PresenceInv
  <1>4. CASE TA!Pair
    <2>1. /\ running /\ theirs' = [t \in TA!Topics |-> TA!None] /\ mail' = <<>>
          /\ queue' = TA!Publish(TA!Topics, mine)
          /\ UNCHANGED <<running, mine, age, ago>>
      BY <1>4, Zenon DEF TA!Pair
    <2>2. \A s \in TA!Topics : mine[s] \in Wordings
      BY <1>0 DEF MyWords
    <2>3. mine["activity"] = "work" => ago = 0
      BY <1>0, <2>1 DEF Recency
    <2>4. queue' \in Seq(Tasks) /\ AllWaited(queue', ago)
      BY <1>n, <2>1, <2>2, <2>3, Published, Zenon
    <2>5. theirs'["activity"] # "work"
      BY <1>s, <2>1 DEF TA!None
    <2>6. MyWords' /\ TAClocks'
      BY <1>0, <2>1, <2>4, NoWords DEF MyWords, TAClocks
    <2>7. Recency'
      BY <2>1, <2>3, <2>4, <2>5, NoWords, Zenon DEF Recency
    <2>8. QED BY <2>6, <2>7 DEF PresenceInv
  <1>5. CASE TA!Run
    <2>1. /\ queue # <<>> /\ queue' = Tail(queue)
          /\ mail' = Append(mail, TA!Event(Head(queue).topic, Head(queue).value)) \/ mail' = mail
          /\ UNCHANGED <<running, mine, theirs, age, ago>>
      BY <1>5, Zenon DEF TA!Run
    <2>2. queue \in Seq(Tasks) /\ mail \in Seq(Letters) /\ AllWaited(queue, ago) /\ AllTravelled(mail, ago)
      BY <1>0 DEF MyWords, Recency
    <2>3. /\ queue' \in Seq(Tasks) /\ Head(queue) \in Tasks
          /\ AllWaited(queue', ago) /\ Waited(Head(queue), ago)
      BY <1>n, <2>1, <2>2, QueueTail, Zenon
    <2>4. /\ TA!Event(Head(queue).topic, Head(queue).value) \in Letters
          /\ Travelled(TA!Event(Head(queue).topic, Head(queue).value), ago)
      BY <1>n, <2>3, PresenceAssumption DEF TA!Event, Tasks, Letters, Waited, Travelled, SaysWork, TA!STALE
    <2>5. mail' \in Seq(Letters) /\ AllTravelled(mail', ago)
      BY <1>n, <2>1, <2>2, <2>4, MailAppend, Zenon
    <2>6. MyWords' /\ TAClocks'
      BY <1>0, <2>1, <2>3, <2>5 DEF MyWords, TAClocks
    <2>7. Recency'
      BY <1>0, <2>1, <2>3, <2>5, Zenon DEF Recency
    <2>8. QED BY <2>6, <2>7 DEF PresenceInv
  <1>6. CASE TA!Deliver
    <2>1. /\ mail # <<>> /\ mail' = Tail(mail)
          /\ theirs' = [theirs EXCEPT ![Head(mail).topic] = Head(mail).value]
          /\ age' = IF Head(mail).topic = "activity" THEN Head(mail).age ELSE age
          /\ UNCHANGED <<running, mine, queue, ago>>
      BY <1>6, Zenon DEF TA!Deliver
    <2>2. mail \in Seq(Letters) /\ AllTravelled(mail, ago)
      BY <1>0 DEF MyWords, Recency
    <2>3. /\ mail' \in Seq(Letters) /\ Head(mail) \in Letters
          /\ AllTravelled(mail', ago) /\ Travelled(Head(mail), ago)
      BY <1>n, <2>1, <2>2, MailTail, Zenon
    <2>4. Head(mail).topic \in TA!Topics /\ Head(mail).value \in Wordings /\ Head(mail).age \in 0 .. 4
      BY <2>3 DEF Letters, TA!STALE
    <2>5. MyWords'
      BY <1>0, <2>1, <2>3, <2>4 DEF MyWords
    <2>6. theirs'["activity"] = "work" => ago <= Patience + age'
      <3>1. CASE Head(mail).topic = "activity"
        <4>1. theirs'["activity"] = Head(mail).value
          BY <1>0, <1>s, <2>1, <3>1 DEF MyWords
        <4>2. QED BY <2>1, <2>3, <3>1, <4>1 DEF SaysWork, Travelled
      <3>2. CASE Head(mail).topic # "activity"
        <4>1. theirs'["activity"] = theirs["activity"]
          BY <1>0, <1>s, <2>1, <3>2 DEF MyWords
        <4>2. QED BY <1>0, <2>1, <3>2, <4>1 DEF Recency
      <3>3. QED BY <3>1, <3>2
    <2>7. TAClocks'
      BY <1>0, <2>1, <2>4 DEF TAClocks, TA!STALE
    <2>8. Recency'
      BY <1>0, <2>1, <2>3, <2>6, Zenon DEF Recency
    <2>9. QED BY <2>5, <2>7, <2>8 DEF PresenceInv
  <1>7. CASE TA!Poll
    <2>1. UNCHANGED <<running, mine, queue, mail, theirs, age, ago>>
      BY <1>7, Zenon DEF TA!Poll
    <2>2. QED BY <1>0, <2>1 DEF PresenceInv, MyWords, TAClocks, Recency
  <1>8. CASE TA!Tick
    <2>1. /\ \A i \in DOMAIN queue : queue[i].waited < Patience
          /\ age' = TA!Older(age, TA!STALE)
          /\ ago' = IF running /\ mine.activity = "work" THEN 0 ELSE TA!Older(ago, TA!STALE + Patience)
          /\ UNCHANGED <<running, mine, theirs>>
      BY <1>8, Zenon DEF TA!Tick
    <2> DEFINE old == [i \in DOMAIN queue |-> TA!Waits(queue[i])]
               new == IF running THEN TA!Publish(TA!Retried, mine) ELSE <<>>
               older == [i \in DOMAIN mail |-> TA!Ages(mail[i])]
    <2>2. queue' = old \o new /\ mail' = older
      BY <1>8, Zenon DEF TA!Tick
    <2>3. /\ ago' \in 0 .. TA!STALE + Patience + 1 /\ ago' <= ago + 1
          /\ (running /\ mine["activity"] = "work" => ago' = 0)
      BY <1>0, <2>1, PresenceAssumption DEF TAClocks, TA!Older, TA!STALE
    <2>4. ago' \in Nat /\ ago' <= TA!STALE + Patience + 1
      BY <2>3, PresenceAssumption DEF TA!STALE
    <2>5. queue \in Seq(Tasks) /\ mail \in Seq(Letters) /\ AllWaited(queue, ago) /\ AllTravelled(mail, ago)
      BY <1>0 DEF MyWords, Recency
    <2>6. old \in Seq(Tasks) /\ AllWaited(old, ago')
      BY <1>n, <2>1, <2>3, <2>4, <2>5, QueueWaits, Zenon
    <2>7. older \in Seq(Letters) /\ AllTravelled(older, ago')
      BY <1>n, <2>3, <2>4, <2>5, MailAges, Zenon
    <2>8. new \in Seq(Tasks) /\ AllWaited(new, ago')
      <3>1. TA!Retried \in SUBSET TA!Topics /\ \A s \in TA!Retried : mine[s] \in Wordings
        <4>1. TA!Retried \subseteq TA!Topics
          BY Zenon DEF TA!Retried
        <4>2. QED BY <1>0, <4>1 DEF MyWords
      <3>2. CASE running
        <4>1. TA!Publish(TA!Retried, mine) \in Seq(Tasks) /\ AllWaited(TA!Publish(TA!Retried, mine), ago')
          BY <2>3, <2>4, <3>1, <3>2, Published, Zenon
        <4>2. QED BY <3>2, <4>1, Zenon
      <3>3. CASE ~running
        BY <3>3, NoWords, Zenon
      <3>4. QED BY <3>2, <3>3
    <2> HIDE DEF old, new, older
    <2>9. queue' \in Seq(Tasks) /\ AllWaited(queue', ago')
      BY <2>2, <2>4, <2>6, <2>8, QueueConcat, Zenon
    <2>10. mail' \in Seq(Letters) /\ AllTravelled(mail', ago')
      BY <2>2, <2>7, Zenon
    <2>11. MyWords'
      BY <1>0, <2>1, <2>9, <2>10 DEF MyWords
    <2>12. TAClocks'
      BY <1>0, <2>1, <2>3 DEF TAClocks, TA!Older, TA!STALE
    <2>13. theirs'["activity"] = "work" => ago' <= Patience + age'
      BY <1>0, <1>n, <2>1, <2>3, PresenceAssumption DEF Recency, TAClocks, TA!Older, TA!STALE
    <2>14. Recency'
      BY <2>1, <2>3, <2>9, <2>10, <2>13, Zenon DEF Recency
    <2>15. QED BY <2>11, <2>12, <2>14 DEF PresenceInv
  <1>9. ASSUME NEW t \in TA!Topics, TA!Prune(t) PROVE PresenceInv'
    <2>1. theirs' = [theirs EXCEPT ![t] = TA!None] /\ UNCHANGED <<running, mine, queue, mail, age, ago>>
      BY <1>9, Zenon DEF TA!Prune
    <2>2. theirs'["activity"] = theirs["activity"] \/ theirs'["activity"] = TA!None
      BY <1>0, <1>s, <2>1 DEF MyWords
    <2>3. TA!None # "work"
      BY DEF TA!None
    <2>4. MyWords' /\ TAClocks'
      BY <1>0, <2>1 DEF MyWords, TAClocks
    <2>5. Recency'
      BY <1>0, <2>1, <2>2, <2>3, Zenon DEF Recency
    <2>6. QED BY <2>4, <2>5 DEF PresenceInv
  <1>10. CASE UNCHANGED presenceVars
    <2>1. UNCHANGED <<running, mine, queue, mail, theirs, age, ago>>
      BY <1>10, Zenon DEF presenceVars
    <2>2. QED BY <1>0, <2>1 DEF PresenceInv, MyWords, TAClocks, Recency
  <1>11. QED BY <1>1, <1>2, <1>3, <1>4, <1>5, <1>6, <1>7, <1>8, <1>9, <1>10, Zenon DEF TA!Next

(* Work of longer ago is not what TA shows.                                 *)
LEMMA PresenceInvSafe == PresenceInv => TA!GoneIsIdle
  <1> SUFFICES ASSUME PresenceInv, TA!Shown = "work" PROVE ago <= TA!STALE + Patience
    BY DEF TA!GoneIsIdle
  <1>1. TA!Live /\ theirs.activity = "work"
    <2>1. "idle" # "work"
      OBVIOUS
    <2>2. QED BY <2>1, Zenon DEF TA!Shown
  <1>2. age <= TA!STALE
    BY <1>1, Zenon DEF TA!Live
  <1>3. QED BY <1>1, <1>2, PresenceAssumption DEF PresenceInv, Recency, TAClocks, TA!STALE

(* However heartbeats fail, wait in the session queue or travel, the app    *)
(* stops, TA's app forgets or a pair is made anew: work that has ended is   *)
(* not shown for longer than 90 s and the time a call waits in the queue    *)
(* (Presence).                                                              *)
THEOREM PresenceSafety == Spec => []GoneIsIdle
  <1>1. Init => (part = "presence" => PresenceInv)
    BY PresenceInit
  <1>2. (part = "presence" => PresenceInv) /\ [Next]_deskVars => (part = "presence" => PresenceInv)'
    BY PartSteps, PresenceStep
  <1>3. (part = "presence" => PresenceInv) => GoneIsIdle
    BY PresenceInvSafe DEF GoneIsIdle
  <1>4. QED BY <1>1, <1>2, <1>3, PTL DEF Spec
-----------------------------------------------------------------------------
(* Cups: how the cup an app shows on the other's desk (p), the cup on that  *)
(* desk (s), the water on its way there (w) and the word of a cup drunk on  *)
(* its way back (d) hang together, when n cups were sent and those of bs    *)
(* may differ.                                                              *)

Link(p, s, w, d, n, bs) ==
    /\ n \in Nat /\ p \in 0 .. n /\ s \in 0 .. n /\ w \subseteq 1 .. n /\ d \subseteq 1 .. n
    /\ p # 0 /\ p \notin bs => p \in w \/ s = p \/ p \in d
    /\ \A c \in w : c \notin bs => p = c \/ \E e \in w : e > c
    /\ s # 0 /\ s \notin bs => p = s \/ w # {}
    /\ \A c \in d : c # s /\ c \notin w
    /\ p # 0 => \A c \in w : c <= p
    /\ \A c \in w : c > s

(* The two kinds of mail about cups, in the order they were sent.           *)
CupEvents == [kind : {"water", "consumed"}, cup : Nat]
Waters(m) == {m[i].cup : i \in {j \in 1 .. Len(m) : m[j].kind = "water"}}
Tellings(m) == {m[i].cup : i \in {j \in 1 .. Len(m) : m[j].kind = "consumed"}}
Rising(m) ==
    \A i, j \in 1 .. Len(m) : i < j /\ m[i].kind = "water" /\ m[j].kind = "water" => m[i].cup < m[j].cup

(* The link from app a to the desk of the other.                            *)
LinkOf(a) ==
    Link(partner[a], self[Cup!Other(a)], Waters(cupMail[Cup!Other(a)]), Tellings(cupMail[a]), sent, broken)

(* The two apps, as functions.                                              *)
Desktops ==
    /\ sent \in Nat
    /\ self = [a \in {1, 2} |-> self[a]] /\ partner = [a \in {1, 2} |-> partner[a]]
    /\ cupMail \in [{1, 2} -> Seq(CupEvents)]

(* Both links hang together, and water travels in order.                    *)
CupsInv == Desktops /\ \A a \in {1, 2} : Rising(cupMail[a]) /\ LinkOf(a)

(* A cup is sent, in the place of one there.                                *)
LEMMA LinkSends ==
    ASSUME NEW p, NEW s, NEW w, NEW d, NEW n, NEW bs, Link(p, s, w, d, n, bs)
    PROVE  Link(n + 1, s, w \cup {n + 1}, d, n + 1, bs)
  <1>1. n + 1 \in Nat /\ n + 1 \in 0 .. n + 1 /\ s \in 0 .. n + 1
    BY DEF Link
  <1>2. w \cup {n + 1} \subseteq 1 .. n + 1 /\ d \subseteq 1 .. n + 1
    BY DEF Link
  <1>3. \A c \in w : n + 1 > c
    BY DEF Link
  <1>4. \A c \in d : c # s /\ c \notin w \cup {n + 1}
    BY DEF Link
  <1>5. \A c \in w \cup {n + 1} : c <= n + 1 /\ c > s
    BY DEF Link
  <1>6. QED BY <1>1, <1>2, <1>3, <1>4, <1>5, Zenon DEF Link

(* The other app sends one.                                                 *)
LEMMA LinkGrows ==
    ASSUME NEW p, NEW s, NEW w, NEW d, NEW n, NEW bs, Link(p, s, w, d, n, bs)
    PROVE  Link(p, s, w, d, n + 1, bs)
  <1>1. n + 1 \in Nat /\ p \in 0 .. n + 1 /\ s \in 0 .. n + 1 /\ w \subseteq 1 .. n + 1 /\ d \subseteq 1 .. n + 1
    BY DEF Link
  <1>2. QED BY <1>1, Zenon DEF Link

(* More cups may differ.                                                    *)
LEMMA LinkBreaks ==
    ASSUME NEW p, NEW s, NEW w, NEW d, NEW n, NEW bs, NEW cs, Link(p, s, w, d, n, bs)
    PROVE  Link(p, s, w, d, n, bs \cup cs)
  BY Zenon DEF Link

(* The cup on the desk is drunk, or lost.                                   *)
LEMMA LinkDrinks ==
    ASSUME NEW p, NEW s, NEW w, NEW d, NEW n, NEW bs, Link(p, s, w, d, n, bs)
    PROVE  /\ s # 0 => Link(p, 0, w, d \cup {s}, n, bs)
           /\ s \in bs => Link(p, 0, w, d, n, bs)
  <1>1. n \in Nat /\ 0 \in 0 .. n /\ (\A c \in w : c > 0) /\ (\A c \in d : c # 0)
    BY DEF Link
  <1>2. ASSUME s # 0 PROVE Link(p, 0, w, d \cup {s}, n, bs)
    <2>1. d \cup {s} \subseteq 1 .. n
      BY <1>2 DEF Link
    <2>2. s \notin w
      BY DEF Link
    <2>3. QED BY <1>1, <1>2, <2>1, <2>2, Zenon DEF Link
  <1>3. ASSUME s \in bs PROVE Link(p, 0, w, d, n, bs)
    BY <1>1, <1>3, Zenon DEF Link
  <1>4. QED BY <1>2, <1>3

(* The cup shown is drunk, or lost.                                         *)
LEMMA LinkForgets ==
    ASSUME NEW p, NEW s, NEW w, NEW d, NEW n, NEW bs, Link(p, s, w, d, n, bs), p \in bs
    PROVE  Link(0, s, w, d, n, bs)
  <1>1. n \in Nat /\ 0 \in 0 .. n
    BY DEF Link
  <1>2. QED BY <1>1, Zenon DEF Link

(* Water arrives: the oldest on its way.                                    *)
LEMMA LinkArrives ==
    ASSUME NEW p, NEW s, NEW w, NEW d, NEW n, NEW bs, NEW v, NEW c,
           Link(p, s, w, d, n, bs), w = v \cup {c}, \A e \in v : e > c
    PROVE  /\ Link(p, c, v, d, n, bs)
           /\ c \in bs /\ s \in bs => Link(p, s, v, d, n, bs)
  <1>1. c \in 1 .. n /\ c > s /\ s \in 0 .. n /\ n \in Nat /\ v \subseteq 1 .. n /\ (\A e \in v : e \in Int)
    BY DEF Link
  <1>2. c \in 0 .. n /\ c \notin v
    BY <1>1
  <1>3. \A e \in v : e \notin bs => p = e \/ \E f \in v : f > e
    <2> SUFFICES ASSUME NEW e \in v, e \notin bs, p # e PROVE \E f \in v : f > e
      BY Zenon
    <2>1. PICK f \in w : f > e
      BY Zenon DEF Link
    <2>2. f # c
      BY <1>1, <2>1
    <2>3. QED BY <2>1, <2>2, Zenon
  <1>4. ASSUME p # 0, p \notin bs PROVE p \in v \/ c = p \/ p \in d
    <2>1. CASE s = p
      <3>1. p \in 0 .. n /\ c <= p
        BY <1>4 DEF Link
      <3>2. QED BY <1>1, <2>1, <3>1
    <2>2. QED BY <1>4, <2>1, Zenon DEF Link
  <1>5. ASSUME c \notin bs PROVE p = c \/ v # {}
    <2>1. CASE \E e \in w : e > c
      <3>1. PICK e \in w : e > c
        BY <2>1
      <3>2. e # c
        BY <1>1, <3>1
      <3>3. QED BY <3>1, <3>2, Zenon
    <2>2. QED BY <1>5, <2>1, Zenon DEF Link
  <1>6. Link(p, c, v, d, n, bs)
    BY <1>1, <1>2, <1>3, <1>4, <1>5, Zenon DEF Link
  <1>7. ASSUME c \in bs, s \in bs PROVE Link(p, s, v, d, n, bs)
    BY <1>1, <1>3, <1>7, Zenon DEF Link
  <1>8. QED BY <1>6, <1>7

(* Word of a cup drunk arrives.                                             *)
LEMMA LinkTold ==
    ASSUME NEW p, NEW s, NEW w, NEW d, NEW n, NEW bs, NEW e, NEW c,
           Link(p, s, w, d, n, bs), d = e \cup {c}
    PROVE  /\ p = c => Link(0, s, w, e, n, bs)
           /\ p # c => Link(p, s, w, e, n, bs)
  <1>1. n \in Nat /\ 0 \in 0 .. n /\ e \subseteq 1 .. n /\ c # s /\ c \notin w
    BY DEF Link
  <1>2. QED BY <1>1, Zenon DEF Link

(* What is posted is on its way.                                            *)
LEMMA PostedCups ==
    ASSUME NEW m \in Seq(CupEvents), NEW e \in CupEvents
    PROVE  /\ Append(m, e) \in Seq(CupEvents)
           /\ e.kind = "water" => /\ Waters(Append(m, e)) = Waters(m) \cup {e.cup}
                                  /\ Tellings(Append(m, e)) = Tellings(m)
                                  /\ Rising(m) /\ (\A c \in Waters(m) : c < e.cup) => Rising(Append(m, e))
           /\ e.kind = "consumed" => /\ Waters(Append(m, e)) = Waters(m)
                                     /\ Tellings(Append(m, e)) = Tellings(m) \cup {e.cup}
                                     /\ Rising(m) => Rising(Append(m, e))
  <1> DEFINE a == Append(m, e)
  <1>1. /\ a \in Seq(CupEvents) /\ Len(a) = Len(m) + 1 /\ a[Len(m) + 1] = e /\ Len(m) \in Nat
        /\ \A i \in 1 .. Len(m) : a[i] = m[i]
    BY AppendIs
  <1> HIDE DEF a
  <1>2. 1 .. Len(a) = (1 .. Len(m)) \cup {Len(m) + 1}
    BY <1>1
  <1>8. ASSUME NEW k
        PROVE  {a[i].cup : i \in {j \in 1 .. Len(a) : a[j].kind = k}} =
               {m[i].cup : i \in {j \in 1 .. Len(m) : m[j].kind = k}} \cup (IF e.kind = k THEN {e.cup} ELSE {})
    <2>1. ASSUME NEW i \in 1 .. Len(m), m[i].kind = k
          PROVE  m[i].cup \in {a[l].cup : l \in {j \in 1 .. Len(a) : a[j].kind = k}}
      BY <1>1, <1>2, <2>1, Zenon
    <2>2. ASSUME NEW i \in 1 .. Len(a), a[i].kind = k
          PROVE  a[i].cup \in {m[l].cup : l \in {j \in 1 .. Len(m) : m[j].kind = k}} \/ (e.kind = k /\ a[i].cup = e.cup)
      BY <1>1, <1>2, <2>2, Zenon
    <2>3. e.kind = k => e.cup \in {a[l].cup : l \in {j \in 1 .. Len(a) : a[j].kind = k}}
      BY <1>1, <1>2, Zenon
    <2>4. QED BY <2>1, <2>2, <2>3, Zenon
  <1>9. "water" # "consumed"
    OBVIOUS
  <1>3. e.kind = "water" => Waters(a) = Waters(m) \cup {e.cup} /\ Tellings(a) = Tellings(m)
    BY <1>8, <1>9, ZenonT(40) DEF Waters, Tellings
  <1>4. e.kind = "consumed" => Waters(a) = Waters(m) /\ Tellings(a) = Tellings(m) \cup {e.cup}
    BY <1>8, <1>9, ZenonT(40) DEF Waters, Tellings
  <1>5. ASSUME Rising(m), e.kind = "water" => \A c \in Waters(m) : c < e.cup PROVE Rising(a)
    <2> SUFFICES ASSUME NEW i \in 1 .. Len(a), NEW j \in 1 .. Len(a), i < j,
                        a[i].kind = "water", a[j].kind = "water"
                 PROVE  a[i].cup < a[j].cup
      BY Zenon DEF Rising
    <2>1. i \in 1 .. Len(m) /\ a[i] = m[i]
      BY <1>1
    <2>2. CASE j \in 1 .. Len(m)
      BY <1>1, <1>5, <2>1, <2>2, Zenon DEF Rising
    <2>3. CASE j = Len(m) + 1
      <3>1. a[i].cup \in Waters(m)
        BY <2>1, Zenon DEF Waters
      <3>2. QED BY <1>1, <1>5, <2>3, <3>1, Zenon
    <2>4. QED BY <1>1, <2>2, <2>3
  <1>6. e.kind = "consumed" => e.kind # "water"
    OBVIOUS
  <1>7. QED BY <1>1, <1>3, <1>4, <1>5, <1>6, Zenon DEF a

(* What is received was first on its way.                                   *)
LEMMA ReceivedCups ==
    ASSUME NEW m \in Seq(CupEvents), m # <<>>
    PROVE  /\ Tail(m) \in Seq(CupEvents) /\ Head(m) \in CupEvents
           /\ Head(m).kind = "water" => /\ Waters(m) = Waters(Tail(m)) \cup {Head(m).cup}
                                        /\ Tellings(m) = Tellings(Tail(m))
                                        /\ Rising(m) => \A c \in Waters(Tail(m)) : Head(m).cup < c
           /\ Head(m).kind = "consumed" => /\ Waters(m) = Waters(Tail(m))
                                           /\ Tellings(m) = Tellings(Tail(m)) \cup {Head(m).cup}
           /\ Rising(m) => Rising(Tail(m))
  <1> DEFINE t == Tail(m)
             h == Head(m)
  <1>1. /\ t \in Seq(CupEvents) /\ Len(t) = Len(m) - 1 /\ Len(m) \in Nat \ {0}
        /\ h = m[1] /\ h \in CupEvents
        /\ \A i \in 1 .. Len(t) : t[i] = m[i + 1]
    BY TailIs
  <1> HIDE DEF t, h
  <1>2. /\ \A i \in 1 .. Len(t) : i + 1 \in 1 .. Len(m)
        /\ \A i \in 1 .. Len(m) : i = 1 \/ (i - 1 \in 1 .. Len(t) /\ m[i] = t[i - 1])
        /\ 1 \in 1 .. Len(m)
    BY <1>1
  <1>3. ASSUME NEW k
        PROVE  {m[i].cup : i \in {j \in 1 .. Len(m) : m[j].kind = k}} =
               {t[i].cup : i \in {j \in 1 .. Len(t) : t[j].kind = k}} \cup (IF h.kind = k THEN {h.cup} ELSE {})
    <2>1. ASSUME NEW i \in 1 .. Len(t), t[i].kind = k
          PROVE  t[i].cup \in {m[l].cup : l \in {j \in 1 .. Len(m) : m[j].kind = k}}
      BY <1>1, <1>2, <2>1, Zenon
    <2>2. ASSUME NEW i \in 1 .. Len(m), m[i].kind = k
          PROVE  m[i].cup \in {t[l].cup : l \in {j \in 1 .. Len(t) : t[j].kind = k}} \/ (h.kind = k /\ m[i].cup = h.cup)
      BY <1>1, <1>2, <2>2, Zenon
    <2>3. h.kind = k => h.cup \in {m[l].cup : l \in {j \in 1 .. Len(m) : m[j].kind = k}}
      BY <1>1, <1>2, Zenon
    <2>4. QED BY <2>1, <2>2, <2>3, Zenon
  <1>4. "water" # "consumed"
    OBVIOUS
  <1>5. h.kind = "water" => Waters(m) = Waters(t) \cup {h.cup} /\ Tellings(m) = Tellings(t)
    BY <1>3, <1>4, ZenonT(40) DEF Waters, Tellings
  <1>6. h.kind = "consumed" => Waters(m) = Waters(t) /\ Tellings(m) = Tellings(t) \cup {h.cup}
    BY <1>3, <1>4, ZenonT(40) DEF Waters, Tellings
  <1>7. Rising(m) => Rising(t)
    <2> SUFFICES ASSUME Rising(m), NEW i \in 1 .. Len(t), NEW j \in 1 .. Len(t), i < j,
                        t[i].kind = "water", t[j].kind = "water"
                 PROVE  t[i].cup < t[j].cup
      BY Zenon DEF Rising
    <2>1. i + 1 < j + 1 /\ i + 1 \in 1 .. Len(m) /\ j + 1 \in 1 .. Len(m)
      BY <1>1
    <2>2. QED BY <1>1, <2>1, Zenon DEF Rising
  <1>8. ASSUME Rising(m), h.kind = "water" PROVE \A c \in Waters(t) : h.cup < c
    <2> SUFFICES ASSUME NEW i \in 1 .. Len(t), t[i].kind = "water" PROVE h.cup < t[i].cup
      BY Zenon DEF Waters
    <2>1. 1 < i + 1 /\ i + 1 \in 1 .. Len(m) /\ 1 \in 1 .. Len(m)
      BY <1>1
    <2>2. QED BY <1>1, <1>8, <2>1, Zenon DEF Rising
  <1>9. QED BY <1>1, <1>5, <1>6, <1>7, <1>8, Zenon DEF t, h

(* Two apps.                                                                *)
LEMMA TwoApps ==
    /\ Cup!Apps = {1, 2}
    /\ \A a \in {1, 2} : Cup!Other(a) \in {1, 2} /\ Cup!Other(a) # a /\ Cup!Other(Cup!Other(a)) = a
    /\ \A a, b \in {1, 2} : b = a \/ b = Cup!Other(a)
  BY DEF Cup!Apps, Cup!Other

(* The start: no cups.                                                      *)
LEMMA CupsInit == Init => CupsInv
  <1> SUFFICES ASSUME Cup!Init PROVE CupsInv
    BY DEF Init
  <1>1. /\ sent = 0 /\ self = [a \in {1, 2} |-> 0] /\ partner = [a \in {1, 2} |-> 0]
        /\ cupMail = [a \in {1, 2} |-> <<>>] /\ broken = {}
    BY TwoApps DEF Cup!Init, Cup!None
  <1>2. /\ <<>> \in Seq(CupEvents) /\ Rising(<<>>) /\ Waters(<<>>) = {} /\ Tellings(<<>>) = {}
    BY DEF Rising, Waters, Tellings
  <1>3. Link(0, 0, {}, {}, 0, {})
    BY DEF Link
  <1>4. ASSUME NEW a \in {1, 2} PROVE Rising(cupMail[a]) /\ LinkOf(a)
    <2>1. /\ cupMail[a] = <<>> /\ cupMail[Cup!Other(a)] = <<>> /\ partner[a] = 0 /\ self[Cup!Other(a)] = 0
      BY <1>1, TwoApps
    <2>2. QED BY <1>1, <1>2, <1>3, <2>1, Zenon DEF LinkOf
  <1>5. Desktops
    BY <1>1, <1>2 DEF Desktops
  <1>6. QED BY <1>4, <1>5 DEF CupsInv

(* Every step of the two apps keeps the invariant.                          *)
LEMMA CupsStep == CupsInv /\ [Cup!Next]_cupsVars => CupsInv'
  <1> SUFFICES ASSUME CupsInv, [Cup!Next]_cupsVars PROVE CupsInv'
    OBVIOUS
  <1>0. Desktops /\ \A a \in {1, 2} : Rising(cupMail[a]) /\ LinkOf(a)
    BY DEF CupsInv
  <1>a. ASSUME NEW x \in {1, 2}
        PROVE  /\ Cup!Other(x) \in {1, 2} /\ Cup!Other(x) # x /\ Cup!Other(Cup!Other(x)) = x
               /\ \A b \in {1, 2} : b = x \/ b = Cup!Other(x)
               /\ cupMail[x] \in Seq(CupEvents) /\ cupMail[Cup!Other(x)] \in Seq(CupEvents)
               /\ Rising(cupMail[x]) /\ Rising(cupMail[Cup!Other(x)])
               /\ Link(partner[x], self[Cup!Other(x)], Waters(cupMail[Cup!Other(x)]), Tellings(cupMail[x]), sent, broken)
               /\ Link(partner[Cup!Other(x)], self[x], Waters(cupMail[x]), Tellings(cupMail[Cup!Other(x)]), sent, broken)
    <2>1. Cup!Other(x) \in {1, 2} /\ Cup!Other(x) # x /\ Cup!Other(Cup!Other(x)) = x
          /\ \A b \in {1, 2} : b = x \/ b = Cup!Other(x)
      BY TwoApps
    <2>2. cupMail[x] \in Seq(CupEvents) /\ cupMail[Cup!Other(x)] \in Seq(CupEvents)
      BY <1>0, <2>1 DEF Desktops
    <2>3. QED BY <1>0, <2>1, <2>2, Zenon DEF LinkOf
  <1>b. ASSUME NEW x \in {1, 2}, Desktops',
               Rising(cupMail'[x]), Rising(cupMail'[Cup!Other(x)]),
               Link(partner'[x], self'[Cup!Other(x)], Waters(cupMail'[Cup!Other(x)]), Tellings(cupMail'[x]), sent', broken'),
               Link(partner'[Cup!Other(x)], self'[x], Waters(cupMail'[x]), Tellings(cupMail'[Cup!Other(x)]), sent', broken')
        PROVE  CupsInv'
    <2>1. LinkOf(x)'
      BY <1>b, Zenon DEF LinkOf, Cup!Other
    <2>2. LinkOf(Cup!Other(x))'
      <3>1. Cup!Other(Cup!Other(x)) = x
        BY <1>a
      <3>2. QED BY <1>b, <3>1, Zenon DEF LinkOf, Cup!Other
    <2>3. \A b \in {1, 2} : Rising(cupMail'[b]) /\ LinkOf(b)'
      BY <1>a, <1>b, <2>1, <2>2, Zenon
    <2>4. QED BY <1>b, <2>3, Zenon DEF CupsInv
  <1>1. ASSUME NEW x \in {1, 2}, Cup!SendWater(x) PROVE CupsInv'
    <2> DEFINE y == Cup!Other(x)
               e == Cup!Event("water", sent')
    <2>1. /\ sent' = sent + 1 /\ partner' = [partner EXCEPT ![x] = sent']
          /\ cupMail' = [cupMail EXCEPT ![y] = Append(@, e)]
          /\ UNCHANGED <<self, broken>>
      BY <1>1, Zenon DEF Cup!SendWater, Cup!Post
    <2>2. e \in CupEvents /\ e.kind = "water" /\ e.cup = sent + 1
      BY <1>0, <2>1 DEF Cup!Event, CupEvents, Desktops
    <2>3. y \in {1, 2} /\ y # x /\ cupMail[y] \in Seq(CupEvents)
      BY <1>a, Zenon
    <2> HIDE DEF e, y
    <2>4. /\ Append(cupMail[y], e) \in Seq(CupEvents)
          /\ Waters(Append(cupMail[y], e)) = Waters(cupMail[y]) \cup {sent + 1}
          /\ Tellings(Append(cupMail[y], e)) = Tellings(cupMail[y])
          /\ (\A c \in Waters(cupMail[y]) : c < sent + 1) => Rising(Append(cupMail[y], e))
      <3>1. Rising(cupMail[y])
        BY <1>a, Zenon DEF y
      <3>2. QED BY <2>2, <2>3, <3>1, PostedCups, ZenonT(40)
    <2>5. /\ cupMail' \in [{1, 2} -> Seq(CupEvents)] /\ cupMail'[y] = Append(cupMail[y], e) /\ cupMail'[x] = cupMail[x]
          /\ partner' = [a \in {1, 2} |-> partner'[a]] /\ partner'[x] = sent + 1 /\ partner'[y] = partner[y]
      BY <1>0, <2>1, <2>3, <2>4 DEF Desktops
    <2>6. Desktops'
      BY <1>0, <2>1, <2>5 DEF Desktops
    <2>7. \A c \in Waters(cupMail[y]) : c < sent + 1
      <3>1. Waters(cupMail[y]) \subseteq 1 .. sent /\ sent \in Nat
        BY <1>a, Zenon DEF Link, y
      <3>2. QED BY <3>1
    <2>8. /\ Link(partner'[x], self'[y], Waters(cupMail'[y]), Tellings(cupMail'[x]), sent', broken')
      <3>1. Link(sent + 1, self[y], Waters(cupMail[y]) \cup {sent + 1}, Tellings(cupMail[x]), sent + 1, broken)
        BY <1>a, LinkSends, Zenon DEF y
      <3>2. QED BY <2>1, <2>4, <2>5, <3>1, Zenon
    <2>9. Link(partner'[y], self'[x], Waters(cupMail'[x]), Tellings(cupMail'[y]), sent', broken')
      <3>1. Link(partner[y], self[x], Waters(cupMail[x]), Tellings(cupMail[y]), sent + 1, broken)
        BY <1>a, LinkGrows, Zenon DEF y
      <3>2. QED BY <2>1, <2>4, <2>5, <3>1, Zenon
    <2>10. Rising(cupMail'[x]) /\ Rising(cupMail'[y])
      BY <1>a, <2>4, <2>5, <2>7, Zenon
    <2>11. QED BY <1>b, <2>6, <2>8, <2>9, <2>10, Zenon DEF y
  <1>2. ASSUME NEW x \in {1, 2}, Cup!DrinkOwn(x) PROVE CupsInv'
    <2> DEFINE y == Cup!Other(x)
               e == Cup!Event("consumed", self[x])
    <2>1. /\ self[x] # 0 /\ self' = [self EXCEPT ![x] = 0] /\ UNCHANGED <<sent, partner>>
          /\ \/ cupMail' = [cupMail EXCEPT ![y] = Append(@, e)] /\ UNCHANGED broken
             \/ broken' = broken \cup {self[x]} /\ UNCHANGED cupMail
      BY <1>2, Zenon DEF Cup!DrinkOwn, Cup!Post, Cup!None
    <2>2. y \in {1, 2} /\ y # x /\ cupMail[y] \in Seq(CupEvents)
      BY <1>a, Zenon
    <2>3. self[x] \in Nat
      <3>1. self[x] \in 0 .. sent /\ sent \in Nat
        BY <1>a, Zenon DEF Link
      <3>2. QED BY <3>1
    <2>4. e \in CupEvents /\ e.kind = "consumed" /\ e.cup = self[x]
      BY <2>3 DEF Cup!Event, CupEvents
    <2> HIDE DEF e, y
    <2>5. /\ self' = [a \in {1, 2} |-> self'[a]] /\ self'[x] = 0 /\ self'[y] = self[y]
      BY <1>0, <2>1, <2>2 DEF Desktops
    <2>6. CASE cupMail' = [cupMail EXCEPT ![y] = Append(@, e)] /\ UNCHANGED broken
      <3>1. /\ Append(cupMail[y], e) \in Seq(CupEvents)
            /\ Waters(Append(cupMail[y], e)) = Waters(cupMail[y])
            /\ Tellings(Append(cupMail[y], e)) = Tellings(cupMail[y]) \cup {self[x]}
            /\ Rising(Append(cupMail[y], e))
        <4>1. Rising(cupMail[y])
          BY <1>a, Zenon DEF y
        <4>2. QED BY <2>2, <2>4, <4>1, PostedCups, Zenon
      <3>2. cupMail' \in [{1, 2} -> Seq(CupEvents)] /\ cupMail'[y] = Append(cupMail[y], e) /\ cupMail'[x] = cupMail[x]
        BY <1>0, <2>2, <2>6, <3>1 DEF Desktops
      <3>3. Desktops'
        BY <1>0, <2>1, <2>5, <3>2 DEF Desktops
      <3>4. Link(partner'[x], self'[y], Waters(cupMail'[y]), Tellings(cupMail'[x]), sent', broken')
        BY <1>a, <2>1, <2>5, <2>6, <3>1, <3>2, Zenon DEF y
      <3>5. Link(partner'[y], self'[x], Waters(cupMail'[x]), Tellings(cupMail'[y]), sent', broken')
        <4>1. Link(partner[y], 0, Waters(cupMail[x]), Tellings(cupMail[y]) \cup {self[x]}, sent, broken)
          BY <1>a, <2>1, LinkDrinks, Zenon DEF y
        <4>2. QED BY <2>1, <2>5, <2>6, <3>1, <3>2, <4>1, Zenon
      <3>6. Rising(cupMail'[x]) /\ Rising(cupMail'[y])
        BY <1>a, <3>1, <3>2, Zenon
      <3>7. QED BY <1>b, <3>3, <3>4, <3>5, <3>6, Zenon DEF y
    <2>7. CASE broken' = broken \cup {self[x]} /\ UNCHANGED cupMail
      <3>1. Desktops'
        BY <1>0, <2>1, <2>5, <2>7 DEF Desktops
      <3>2. Link(partner'[x], self'[y], Waters(cupMail'[y]), Tellings(cupMail'[x]), sent', broken')
        <4>1. Link(partner[x], self[y], Waters(cupMail[y]), Tellings(cupMail[x]), sent, broken \cup {self[x]})
          BY <1>a, LinkBreaks, Zenon DEF y
        <4>2. QED BY <2>1, <2>5, <2>7, <4>1, Zenon
      <3>3. Link(partner'[y], self'[x], Waters(cupMail'[x]), Tellings(cupMail'[y]), sent', broken')
        <4>1. Link(partner[y], self[x], Waters(cupMail[x]), Tellings(cupMail[y]), sent, broken \cup {self[x]})
          BY <1>a, LinkBreaks, Zenon DEF y
        <4>2. Link(partner[y], 0, Waters(cupMail[x]), Tellings(cupMail[y]), sent, broken \cup {self[x]})
          BY <4>1, LinkDrinks, Zenon
        <4>3. QED BY <2>1, <2>5, <2>7, <4>2, Zenon
      <3>4. Rising(cupMail'[x]) /\ Rising(cupMail'[y])
        BY <1>a, <2>7, Zenon DEF y
      <3>5. QED BY <1>b, <3>1, <3>2, <3>3, <3>4, Zenon DEF y
    <2>8. QED BY <2>1, <2>6, <2>7, Zenon
  <1>3. ASSUME NEW x \in {1, 2}, Cup!DrinkTheirs(x) PROVE CupsInv'
    <2> DEFINE y == Cup!Other(x)
    <2>1. /\ partner' = [partner EXCEPT ![x] = 0] /\ broken' = broken \cup {partner[x]}
          /\ UNCHANGED <<sent, self, cupMail>>
      BY <1>3, Zenon DEF Cup!DrinkTheirs, Cup!None
    <2>2. y \in {1, 2} /\ y # x
      BY <1>a, Zenon
    <2> HIDE DEF y
    <2>3. /\ partner' = [a \in {1, 2} |-> partner'[a]] /\ partner'[x] = 0 /\ partner'[y] = partner[y]
      BY <1>0, <2>1, <2>2 DEF Desktops
    <2>4. Desktops'
      BY <1>0, <2>1, <2>3 DEF Desktops
    <2>5. Link(partner'[x], self'[y], Waters(cupMail'[y]), Tellings(cupMail'[x]), sent', broken')
      <3>1. Link(partner[x], self[y], Waters(cupMail[y]), Tellings(cupMail[x]), sent, broken \cup {partner[x]})
        BY <1>a, LinkBreaks, Zenon DEF y
      <3>2. Link(0, self[y], Waters(cupMail[y]), Tellings(cupMail[x]), sent, broken \cup {partner[x]})
        BY <3>1, LinkForgets, Zenon
      <3>3. QED BY <2>1, <2>3, <3>2, Zenon
    <2>6. Link(partner'[y], self'[x], Waters(cupMail'[x]), Tellings(cupMail'[y]), sent', broken')
      <3>1. Link(partner[y], self[x], Waters(cupMail[x]), Tellings(cupMail[y]), sent, broken \cup {partner[x]})
        BY <1>a, LinkBreaks, Zenon DEF y
      <3>2. QED BY <2>1, <2>3, <3>1, Zenon
    <2>7. Rising(cupMail'[x]) /\ Rising(cupMail'[y])
      BY <1>a, <2>1, Zenon DEF y
    <2>8. QED BY <1>b, <2>4, <2>5, <2>6, <2>7, Zenon DEF y
  <1>4. ASSUME NEW x \in {1, 2}, Cup!Receive(x) PROVE CupsInv'
    <2> DEFINE y == Cup!Other(x)
               e == Head(cupMail[x])
    <2>1. /\ cupMail[x] # <<>> /\ cupMail' = [cupMail EXCEPT ![x] = Tail(@)] /\ UNCHANGED sent
          /\ IF e.kind = "water" THEN Cup!Water(x, e.cup) /\ UNCHANGED partner
             ELSE Cup!Consumed(x, e.cup) /\ UNCHANGED <<self, broken>>
      BY <1>4, Zenon DEF Cup!Receive, Cup!Arrived
    <2>2. y \in {1, 2} /\ y # x /\ cupMail[x] \in Seq(CupEvents)
      BY <1>a, Zenon
    <2>3. /\ Tail(cupMail[x]) \in Seq(CupEvents) /\ e \in CupEvents
          /\ e.kind = "water" => /\ Waters(cupMail[x]) = Waters(Tail(cupMail[x])) \cup {e.cup}
                                 /\ Tellings(cupMail[x]) = Tellings(Tail(cupMail[x]))
                                 /\ \A c \in Waters(Tail(cupMail[x])) : e.cup < c
          /\ e.kind = "consumed" => /\ Waters(cupMail[x]) = Waters(Tail(cupMail[x]))
                                    /\ Tellings(cupMail[x]) = Tellings(Tail(cupMail[x])) \cup {e.cup}
          /\ Rising(Tail(cupMail[x]))
      BY <1>a, <2>1, <2>2, ReceivedCups, Zenon
    <2> HIDE DEF y, e
    <2>4. cupMail' \in [{1, 2} -> Seq(CupEvents)] /\ cupMail'[x] = Tail(cupMail[x]) /\ cupMail'[y] = cupMail[y]
      BY <1>0, <2>1, <2>2, <2>3 DEF Desktops
    <2>5. Rising(cupMail'[x]) /\ Rising(cupMail'[y])
      BY <1>a, <2>3, <2>4, Zenon DEF y
    <2>6. CASE e.kind = "water"
      <3>1. /\ UNCHANGED partner
            /\ \/ self' = [self EXCEPT ![x] = e.cup] /\ UNCHANGED broken
               \/ broken' = broken \cup {e.cup, self[x]} /\ UNCHANGED self
        BY <2>1, <2>6, Zenon DEF Cup!Water
      <3>2. \A c \in Waters(Tail(cupMail[x])) : c > e.cup
        <4>1. Waters(cupMail[x]) \subseteq 1 .. sent /\ sent \in Nat
          BY <1>a, Zenon DEF Link
        <4>2. e.cup \in Int /\ \A c \in Waters(Tail(cupMail[x])) : c \in Int /\ e.cup < c
          BY <2>3, <2>6, <4>1
        <4>3. QED BY <4>2
      <3>3. CASE self' = [self EXCEPT ![x] = e.cup] /\ UNCHANGED broken
        <4>1. self' = [a \in {1, 2} |-> self'[a]] /\ self'[x] = e.cup /\ self'[y] = self[y]
          BY <1>0, <2>2, <3>3 DEF Desktops
        <4>2. Desktops'
          BY <1>0, <2>1, <2>4, <3>1, <4>1 DEF Desktops
        <4>3. Link(partner'[x], self'[y], Waters(cupMail'[y]), Tellings(cupMail'[x]), sent', broken')
          BY <1>a, <2>1, <2>3, <2>4, <2>6, <3>1, <3>3, <4>1, Zenon DEF y
        <4>4. Link(partner'[y], self'[x], Waters(cupMail'[x]), Tellings(cupMail'[y]), sent', broken')
          <5>1. Link(partner[y], self[x], Waters(cupMail[x]), Tellings(cupMail[y]), sent, broken)
            BY <1>a, Zenon DEF y
          <5>2. Link(partner[y], e.cup, Waters(Tail(cupMail[x])), Tellings(cupMail[y]), sent, broken)
            BY <2>3, <2>6, <3>2, <5>1, LinkArrives, Zenon
          <5>3. QED BY <2>1, <2>4, <3>1, <3>3, <4>1, <5>2, Zenon
        <4>5. QED BY <1>b, <2>5, <4>2, <4>3, <4>4, Zenon DEF y
      <3>4. CASE broken' = broken \cup {e.cup, self[x]} /\ UNCHANGED self
        <4>1. Desktops'
          BY <1>0, <2>1, <2>4, <3>1, <3>4 DEF Desktops
        <4>2. Link(partner'[x], self'[y], Waters(cupMail'[y]), Tellings(cupMail'[x]), sent', broken')
          <5>1. Link(partner[x], self[y], Waters(cupMail[y]), Tellings(cupMail[x]), sent, broken \cup {e.cup, self[x]})
            BY <1>a, LinkBreaks, Zenon DEF y
          <5>2. QED BY <2>1, <2>3, <2>4, <2>6, <3>1, <3>4, <5>1, Zenon
        <4>3. Link(partner'[y], self'[x], Waters(cupMail'[x]), Tellings(cupMail'[y]), sent', broken')
          <5>1. Link(partner[y], self[x], Waters(cupMail[x]), Tellings(cupMail[y]), sent, broken \cup {e.cup, self[x]})
            BY <1>a, LinkBreaks, Zenon DEF y
          <5>2. Link(partner[y], self[x], Waters(Tail(cupMail[x])), Tellings(cupMail[y]), sent, broken \cup {e.cup, self[x]})
            <6> DEFINE bs == broken \cup {e.cup, self[x]}
            <6>1. e.cup \in bs /\ self[x] \in bs
              OBVIOUS
            <6> HIDE DEF bs
            <6>2. Link(partner[y], self[x], Waters(cupMail[x]), Tellings(cupMail[y]), sent, bs)
              BY <5>1, Zenon DEF bs
            <6>3. Link(partner[y], self[x], Waters(Tail(cupMail[x])), Tellings(cupMail[y]), sent, bs)
              BY <2>3, <2>6, <3>2, <6>1, <6>2, LinkArrives, Zenon
            <6>4. QED BY <6>3, Zenon DEF bs
          <5>3. QED BY <2>1, <2>4, <3>1, <3>4, <5>2, Zenon
        <4>4. QED BY <1>b, <2>5, <4>1, <4>2, <4>3, Zenon DEF y
      <3>5. QED BY <3>1, <3>3, <3>4, Zenon
    <2>7. CASE e.kind = "consumed"
      <3>1. UNCHANGED <<self, broken>> /\ Cup!Consumed(x, e.cup)
        <4>1. e.kind # "water"
          BY <2>7
        <4>2. QED BY <2>1, <4>1, Zenon
      <3>2. partner' = IF partner[x] = e.cup THEN [partner EXCEPT ![x] = 0] ELSE partner
        BY <3>1, Zenon DEF Cup!Consumed, Cup!None
      <3>3. /\ partner' = [a \in {1, 2} |-> partner'[a]] /\ partner'[y] = partner[y]
            /\ partner[x] = e.cup => partner'[x] = 0
            /\ partner[x] # e.cup => partner'[x] = partner[x]
        BY <1>0, <2>2, <3>2 DEF Desktops
      <3>4. Desktops'
        BY <1>0, <2>1, <2>4, <3>1, <3>3 DEF Desktops
      <3>5. Link(partner'[x], self'[y], Waters(cupMail'[y]), Tellings(cupMail'[x]), sent', broken')
        <4>1. Link(partner[x], self[y], Waters(cupMail[y]), Tellings(cupMail[x]), sent, broken)
          BY <1>a, Zenon DEF y
        <4>2. Link(partner'[x], self[y], Waters(cupMail[y]), Tellings(Tail(cupMail[x])), sent, broken)
          <5>1. Tellings(cupMail[x]) = Tellings(Tail(cupMail[x])) \cup {e.cup}
            BY <2>3, <2>7, Zenon
          <5>2. /\ partner[x] = e.cup => Link(0, self[y], Waters(cupMail[y]), Tellings(Tail(cupMail[x])), sent, broken)
                /\ partner[x] # e.cup => Link(partner[x], self[y], Waters(cupMail[y]), Tellings(Tail(cupMail[x])), sent, broken)
            <6> DEFINE w == Waters(cupMail[y])
                       d == Tellings(cupMail[x])
                       l == Tellings(Tail(cupMail[x]))
                       p == partner[x]
                       s == self[y]
                       c == e.cup
            <6>1. Link(p, s, w, d, sent, broken) /\ d = l \cup {c}
              BY <4>1, <5>1
            <6> HIDE DEF w, d, l, p, s, c
            <6>2. /\ p = c => Link(0, s, w, l, sent, broken)
                  /\ p # c => Link(p, s, w, l, sent, broken)
              BY <6>1, LinkTold
            <6>3. QED BY <6>2, Zenon DEF w, d, l, p, s, c
          <5>3. QED BY <3>3, <5>2, Zenon
        <4>3. QED BY <2>1, <2>4, <3>1, <4>2, Zenon
      <3>6. Link(partner'[y], self'[x], Waters(cupMail'[x]), Tellings(cupMail'[y]), sent', broken')
        BY <1>a, <2>1, <2>3, <2>4, <2>7, <3>1, <3>3, Zenon DEF y
      <3>7. QED BY <1>b, <2>5, <3>4, <3>5, <3>6, Zenon DEF y
    <2>8. e.kind = "water" \/ e.kind = "consumed"
      BY <2>3 DEF CupEvents
    <2>9. QED BY <2>6, <2>7, <2>8
  <1>5. ASSUME NEW x \in {1, 2}, Cup!Restart(x) PROVE CupsInv'
    <2> DEFINE y == Cup!Other(x)
    <2>1. /\ broken' = broken \cup {self[x], partner[x]}
          /\ self' = [self EXCEPT ![x] = 0] /\ partner' = [partner EXCEPT ![x] = 0]
          /\ UNCHANGED <<sent, cupMail>>
      BY <1>5, Zenon DEF Cup!Restart, Cup!None
    <2>2. y \in {1, 2} /\ y # x
      BY <1>a, Zenon
    <2> HIDE DEF y
    <2>3. /\ partner' = [a \in {1, 2} |-> partner'[a]] /\ partner'[x] = 0 /\ partner'[y] = partner[y]
          /\ self' = [a \in {1, 2} |-> self'[a]] /\ self'[x] = 0 /\ self'[y] = self[y]
      BY <1>0, <2>1, <2>2 DEF Desktops
    <2>4. Desktops'
      BY <1>0, <2>1, <2>3 DEF Desktops
    <2>5. Link(partner'[x], self'[y], Waters(cupMail'[y]), Tellings(cupMail'[x]), sent', broken')
      <3>1. Link(partner[x], self[y], Waters(cupMail[y]), Tellings(cupMail[x]), sent, broken \cup {self[x], partner[x]})
        BY <1>a, LinkBreaks, Zenon DEF y
      <3>2. Link(0, self[y], Waters(cupMail[y]), Tellings(cupMail[x]), sent, broken \cup {self[x], partner[x]})
        BY <3>1, LinkForgets, Zenon
      <3>3. QED BY <2>1, <2>3, <3>2, Zenon
    <2>6. Link(partner'[y], self'[x], Waters(cupMail'[x]), Tellings(cupMail'[y]), sent', broken')
      <3>1. Link(partner[y], self[x], Waters(cupMail[x]), Tellings(cupMail[y]), sent, broken \cup {self[x], partner[x]})
        BY <1>a, LinkBreaks, Zenon DEF y
      <3>2. Link(partner[y], 0, Waters(cupMail[x]), Tellings(cupMail[y]), sent, broken \cup {self[x], partner[x]})
        BY <3>1, LinkDrinks, Zenon
      <3>3. QED BY <2>1, <2>3, <3>2, Zenon
    <2>7. Rising(cupMail'[x]) /\ Rising(cupMail'[y])
      BY <1>a, <2>1, Zenon DEF y
    <2>8. QED BY <1>b, <2>4, <2>5, <2>6, <2>7, Zenon DEF y
  <1>6. ASSUME UNCHANGED <<sent, self, partner, cupMail, broken>> PROVE CupsInv'
    BY <1>0, <1>6, Zenon DEF CupsInv, Desktops, LinkOf, Cup!Other
  <1>7. CASE UNCHANGED cupsVars
    BY <1>6, <1>7, Zenon DEF cupsVars
  <1>8. ASSUME NEW x \in {1, 2}, Cup!Drunk(x) PROVE CupsInv'
    BY <1>6, <1>8, Zenon DEF Cup!Drunk
  <1>9. QED BY <1>1, <1>2, <1>3, <1>4, <1>5, <1>7, <1>8, TwoApps, Zenon DEF Cup!Next

(* With nothing on its way the two apps show the same cups.                 *)
LEMMA CupsInvSafe == CupsInv => Cup!CupsAgree
  <1> SUFFICES ASSUME CupsInv, \A a \in {1, 2} : cupMail[a] = <<>>,
                      NEW a \in {1, 2}, NEW cup \in 1 .. sent, cup \notin broken
               PROVE  partner[a] = cup <=> self[Cup!Other(a)] = cup
    BY TwoApps, Zenon DEF Cup!CupsAgree
  <1>1. cupMail[a] = <<>> /\ cupMail[Cup!Other(a)] = <<>>
    BY TwoApps, Zenon
  <1>2. Waters(<<>>) = {} /\ Tellings(<<>>) = {}
    BY DEF Waters, Tellings
  <1>3. Link(partner[a], self[Cup!Other(a)], {}, {}, sent, broken)
    BY <1>1, <1>2, Zenon DEF CupsInv, LinkOf
  <1>4. cup # 0
    OBVIOUS
  <1>5. partner[a] = cup => self[Cup!Other(a)] = cup
    BY <1>3, <1>4, Zenon DEF Link
  <1>6. self[Cup!Other(a)] = cup => partner[a] = cup
    BY <1>3, <1>4, Zenon DEF Link
  <1>7. QED BY <1>5, <1>6

(* Whatever crossed, once everything has arrived both apps show the same    *)
(* cups on the same desks (Cups).                                           *)
THEOREM CupsSafety == Spec => []CupsAgree
  <1>1. Init => (part = "cups" => CupsInv)
    BY CupsInit
  <1>2. (part = "cups" => CupsInv) /\ [Next]_deskVars => (part = "cups" => CupsInv)'
    BY PartSteps, CupsStep
  <1>3. (part = "cups" => CupsInv) => CupsAgree
    BY CupsInvSafe DEF CupsAgree
  <1>4. QED BY <1>1, <1>2, <1>3, PTL DEF Spec
-----------------------------------------------------------------------------
(* Replay: what a run has left is all of its day it may not have watched,  *)
(* of what the watermark does not cover.                                   *)

(* All of the day was watched, but for what is left.                        *)
Covered(day, rest, w) == \A x \in day : x \notin rest => x \in w

(* Watched, or covered by the watermark.                                    *)
Behind == watched \cup 1 .. watermark

(* What a run is made of.                                                   *)
Steps == {"open", "read", "rest", "walk", "show", "mark"}
RunRecords ==
    [token : Nat, request : {"unseen", "newest", "seek"}, all : SUBSET Nat, day : SUBSET Nat,
     left : SUBSET Nat, shown : Nat, pc : Steps]

(* A run, when the generation is g, those of k are known, and those of w    *)
(* are past.                                                                *)
RunSafe(r, g, k, w) ==
    /\ r.token \in 1 .. g /\ r.all # {} /\ r.all \subseteq k
    /\ r.day \subseteq r.all /\ r.left \subseteq r.day
    /\ r.request = "seek" => r.day # {}
    /\ r.day = {} => r.pc = "open"
    /\ r.pc = "rest" \/ r.pc = "walk" => r.left # {}
    /\ r.pc = "mark" => r.left = {}
    /\ Covered(r.day, r.left, w)

(* All runs, each with a token of its own.                                  *)
RunsSafe(rs, g, k, w) ==
    /\ rs \subseteq RunRecords
    /\ \A r \in rs : RunSafe(r, g, k, w)
    /\ \A r, s \in rs : r.token = s.token => r = s

(* Some run has the generation.                                             *)
Live(rs, g) == \E r \in rs : r.token = g

(* What is on the bar, and what was watched.                                *)
Screen ==
    /\ generation \in Nat /\ known \subseteq 1 .. Frames
    /\ watermark \in 0 .. Frames /\ display \in 0 .. Frames + 1
    /\ playingDay \subseteq known /\ watched \subseteq known

(* The session is on exactly while a run has the generation.                *)
ReplayInv ==
    /\ RunsSafe(runs, generation, known, Behind)
    /\ Screen
    /\ session \in BOOLEAN /\ (session <=> Live(runs, generation))

(* The bounds of a set of recordings.                                       *)
LEMMA DayMax ==
    ASSUME NEW S, NEW n \in Nat, S \subseteq 0 .. n, S # {}
    PROVE  Player!Max(S) \in S /\ \A y \in S : y <= Player!Max(S)
  <1>1. S \subseteq Nat /\ \A y \in S : y <= n
    OBVIOUS
  <1>2. \E x \in S : \A y \in S : x >= y
    BY <1>1, GreatestNatural, Zenon
  <1>3. Player!Max(S) \in S /\ \A y \in S : Player!Max(S) >= y
    BY <1>2, Zenon DEF Player!Max
  <1>4. QED BY <1>1, <1>3

(* The first of a set of recordings.                                        *)
LEMMA DayMin ==
    ASSUME NEW S, S \subseteq Nat, S # {}
    PROVE  Player!Min(S) \in S /\ \A y \in S : Player!Min(S) <= y
  <1>1. \E x \in S : \A y \in S : x <= y
    BY LeastNatural, Zenon
  <1>2. QED BY <1>1, Zenon DEF Player!Min

(* The days of some recordings.                                             *)
LEMMA DaysAre ==
    ASSUME NEW all, all # {}
    PROVE  /\ Player!Days(all) # {}
           /\ \A day \in Player!Days(all) : day # {} /\ day \subseteq all
  <1>1. PICK x \in all : TRUE
    BY Zenon
  <1> DEFINE day == {f \in all : CalendarDay[f] = CalendarDay[x]}
  <1>2. day \in Player!Days(all)
    BY <1>1, Zenon DEF Player!Days
  <1> HIDE DEF day
  <1>3. \A d \in Player!Days(all) : d # {} /\ d \subseteq all
    BY Zenon DEF Player!Days
  <1>4. QED BY <1>2, <1>3, Zenon

(* The first and the newest of some days are among them.                    *)
LEMMA FirstNewest ==
    ASSUME NEW days, days # {}, NEW n \in Nat, \A day \in days : day # {} /\ day \subseteq 1 .. n
    PROVE  Player!First(days) \in days /\ Player!Newest(days) \in days
  <1> DEFINE M == {Player!Min(day) : day \in days}
  <1>1. \A day \in days : Player!Min(day) \in 1 .. n
    <2> SUFFICES ASSUME NEW day \in days PROVE Player!Min(day) \in 1 .. n
      BY Zenon
    <2>1. day # {} /\ day \subseteq 1 .. n
      BY Zenon
    <2>2. day \subseteq Nat
      BY <2>1
    <2>3. Player!Min(day) \in day
      BY <2>1, <2>2, DayMin, Zenon
    <2>4. QED BY <2>1, <2>3, Zenon
  <1>2. M \subseteq Nat /\ M # {} /\ \A m \in M : m <= n
    <2>1. \A m \in M : m \in 1 .. n
      BY <1>1, Zenon
    <2>2. PICK day \in days : TRUE
      BY Zenon
    <2>3. Player!Min(day) \in M
      BY <2>2, Zenon
    <2> HIDE DEF M
    <2>4. QED BY <2>1, <2>3
  <1>3. \E m \in M : \A o \in M : m <= o
    BY <1>2, LeastNatural, Zenon
  <1>4. \E m \in M : \A o \in M : m >= o
    BY <1>2, GreatestNatural, Zenon
  <1>5. \E day \in days : \A other \in days : Player!Min(day) <= Player!Min(other)
    BY <1>3, Zenon
  <1>6. \E day \in days : \A other \in days : Player!Min(day) >= Player!Min(other)
    BY <1>4, Zenon
  <1>7. Player!First(days) \in days
    BY <1>5, Zenon DEF Player!First
  <1>8. Player!Newest(days) \in days
    BY <1>6, Zenon DEF Player!Newest
  <1>9. QED BY <1>7, <1>8

(* The day that a run chooses is one of its recordings.                     *)
LEMMA ChosenIs ==
    ASSUME NEW r, r.all # {}, r.all \subseteq 1 .. Frames
    PROVE  Player!Chosen(r) # {} /\ Player!Chosen(r) \subseteq r.all
  <1>1. /\ Player!Days(r.all) # {} /\ Player!Unseen(r.all) \subseteq Player!Days(r.all)
        /\ \A day \in Player!Days(r.all) : day # {} /\ day \subseteq r.all
    BY DaysAre, Zenon DEF Player!Unseen
  <1>2. /\ \A day \in Player!Days(r.all) : day # {} /\ day \subseteq 1 .. Frames
        /\ \A day \in Player!Unseen(r.all) : day # {} /\ day \subseteq 1 .. Frames
    BY <1>1, Zenon
  <1>3. Player!Newest(Player!Days(r.all)) \in Player!Days(r.all)
    BY <1>1, <1>2, FramesAssumption, FirstNewest, Zenon
  <1>4. Player!Unseen(r.all) # {} => Player!First(Player!Unseen(r.all)) \in Player!Days(r.all)
    BY <1>1, <1>2, FramesAssumption, FirstNewest, Zenon
  <1>5. Player!Chosen(r) \in Player!Days(r.all)
    BY <1>3, <1>4, Zenon DEF Player!Chosen
  <1>6. QED BY <1>1, <1>5, Zenon

(* Runs over time, as they go on, return and begin.                         *)
LEMMA RunsGrow ==
    ASSUME NEW rs, NEW g \in Nat, NEW k, NEW w, NEW h \in Nat, NEW l, NEW v,
           RunsSafe(rs, g, k, w), g <= h, k \subseteq l, w \subseteq v
    PROVE  RunsSafe(rs, h, l, v)
  <1>1. 1 .. g \subseteq 1 .. h
    OBVIOUS
  <1>2. ASSUME NEW r \in rs PROVE RunSafe(r, h, l, v)
    <2>1. RunSafe(r, g, k, w)
      BY Zenon DEF RunsSafe
    <2>2. QED BY <1>1, <2>1, Zenon DEF RunSafe, Covered
  <1>3. QED BY <1>2, Zenon DEF RunsSafe

(* A run that goes on,                                                      *)
LEMMA RunsBecome ==
    ASSUME NEW rs, NEW g, NEW k, NEW w, NEW r \in rs, NEW s \in RunRecords,
           RunsSafe(rs, g, k, w), RunSafe(s, g, k, w), s.token = r.token
    PROVE  /\ RunsSafe((rs \ {r}) \cup {s}, g, k, w)
           /\ Live((rs \ {r}) \cup {s}, g) <=> Live(rs, g)
  <1>1. RunsSafe((rs \ {r}) \cup {s}, g, k, w)
    BY Zenon DEF RunsSafe
  <1>2. Live((rs \ {r}) \cup {s}, g) <=> Live(rs, g)
    BY Zenon DEF Live
  <1>3. QED BY <1>1, <1>2, Zenon

(* one that returns,                                                        *)
LEMMA RunsReturn ==
    ASSUME NEW rs, NEW g \in Nat, NEW k, NEW w, NEW r \in rs, RunsSafe(rs, g, k, w)
    PROVE  /\ RunsSafe(rs \ {r}, g, k, w)
           /\ r.token # g => (Live(rs \ {r}, g) <=> Live(rs, g))
           /\ r.token = g => ~Live(rs \ {r}, g)
           /\ ~Live(rs, g + 1) /\ ~Live(rs \ {r}, g + 1)
  <1>1. RunsSafe(rs \ {r}, g, k, w)
    BY Zenon DEF RunsSafe
  <1>2. r.token # g => (Live(rs \ {r}, g) <=> Live(rs, g))
    BY Zenon DEF Live
  <1>3. r.token = g => ~Live(rs \ {r}, g)
    BY Zenon DEF Live, RunsSafe
  <1>4. \A s \in rs : s.token \in 1 .. g
    BY Zenon DEF RunsSafe, RunSafe
  <1>5. g + 1 \notin 1 .. g
    OBVIOUS
  <1>6. ~Live(rs, g + 1) /\ ~Live(rs \ {r}, g + 1)
    BY <1>4, <1>5, Zenon DEF Live
  <1>7. QED BY <1>1, <1>2, <1>3, <1>6, Zenon

(* one that begins with the next generation,                                *)
LEMMA RunsBegin ==
    ASSUME NEW rs, NEW g \in Nat, NEW k, NEW w, NEW v, w \subseteq v, NEW s \in RunRecords,
           RunsSafe(rs, g, k, w), RunSafe(s, g + 1, k, v), s.token = g + 1
    PROVE  RunsSafe(rs \cup {s}, g + 1, k, v) /\ Live(rs \cup {s}, g + 1)
  <1>1. \A r \in rs : r.token \in 1 .. g
    BY Zenon DEF RunsSafe, RunSafe
  <1>2. g + 1 \notin 1 .. g /\ g + 1 \in Nat /\ g <= g + 1 /\ k \subseteq k
    OBVIOUS
  <1>3. RunsSafe(rs, g + 1, k, v)
    BY <1>2, RunsGrow, Zenon
  <1>4. \A r \in rs : r.token # s.token
    BY <1>1, <1>2, Zenon
  <1>5. RunsSafe(rs \cup {s}, g + 1, k, v)
    BY <1>3, <1>4, Zenon DEF RunsSafe
  <1>6. Live(rs \cup {s}, g + 1)
    BY Zenon DEF Live
  <1>7. QED BY <1>5, <1>6, Zenon

(* and all of them when the generation moves past them.                     *)
LEMMA StoppedRuns ==
    ASSUME NEW rs, NEW g \in Nat, NEW k, NEW w, RunsSafe(rs, g, k, w)
    PROVE  RunsSafe(rs, g + 1, k, w) /\ ~Live(rs, g + 1)
  <1>1. g + 1 \in Nat /\ g <= g + 1 /\ k \subseteq k /\ w \subseteq w /\ g + 1 \notin 1 .. g
    OBVIOUS
  <1>2. \A s \in rs : s.token \in 1 .. g
    BY Zenon DEF RunsSafe, RunSafe
  <1>3. ~Live(rs, g + 1)
    BY <1>1, <1>2, Zenon DEF Live
  <1>4. RunsSafe(rs, g + 1, k, w)
    BY <1>1, RunsGrow, Zenon
  <1>5. QED BY <1>3, <1>4

(* The start: nothing recorded, nothing played.                             *)
LEMMA ReplayInit == Init => ReplayInv
  <1> SUFFICES ASSUME Player!Init PROVE ReplayInv
    BY DEF Init
  <1>1. /\ known = {} /\ generation = 0 /\ session = FALSE /\ playingDay = {} /\ display = 0 /\ watermark = 0
        /\ runs = {} /\ watched = {}
    BY DEF Player!Init, Player!Nothing
  <1>2. RunsSafe(runs, generation, known, Behind) /\ ~Live(runs, generation)
    BY <1>1, Zenon DEF RunsSafe, Live
  <1>3. Screen
    BY <1>1, FramesAssumption DEF Screen
  <1>4. QED BY <1>1, <1>2, <1>3, Zenon DEF ReplayInv

(* Every step of a playback keeps the invariant.                            *)
LEMMA ReplayStep == ReplayInv /\ [Player!Next]_replayVars => ReplayInv'
  <1> SUFFICES ASSUME ReplayInv, [Player!Next]_replayVars PROVE ReplayInv'
    OBVIOUS
  <1>0. RunsSafe(runs, generation, known, Behind) /\ Screen /\ session \in BOOLEAN
    BY Zenon DEF ReplayInv
  <1>s. session <=> Live(runs, generation)
    BY Zenon DEF ReplayInv
  <1>n. /\ generation \in Nat /\ generation + 1 \in Nat /\ generation <= generation /\ generation <= generation + 1
        /\ Frames \in Nat /\ known \subseteq known /\ Behind \subseteq Behind
        /\ known \subseteq 1 .. Frames /\ known \subseteq Nat
    BY <1>0, FramesAssumption DEF Screen
  <1>q. ASSUME RunsSafe(runs', generation', known', Behind'), Screen',
               session' \in BOOLEAN, session' <=> Live(runs', generation')
        PROVE  ReplayInv'
    BY <1>q, Zenon DEF ReplayInv
  <1>a. ASSUME UNCHANGED <<watched, watermark>> PROVE Behind' = Behind
    BY <1>a DEF Behind
  \* Leaving the screen as it is, or closing it.
  <1>c. ASSUME generation' \in Nat, UNCHANGED <<known, watermark, watched>>,
               display' \in 0 .. Frames + 1, playingDay' = {} \/ playingDay' = playingDay
        PROVE  Screen'
    BY <1>0, <1>c DEF Screen
  <1>1. CASE Player!Scan
    <2>1. PICK f \in (1 .. Frames) \ known : known' = known \cup {f}
      BY <1>1, Zenon DEF Player!Scan
    <2>2. UNCHANGED <<generation, session, playingDay, display, watermark, runs, watched>>
      BY <1>1, Zenon DEF Player!Scan
    <2>3. Screen' /\ known \subseteq known'
      BY <1>0, <1>n, <2>1, <2>2 DEF Screen
    <2>4. RunsSafe(runs', generation', known', Behind')
      BY <1>0, <1>a, <1>n, <2>2, <2>3, RunsGrow, Zenon
    <2>5. QED BY <1>0, <1>s, <1>q, <2>2, <2>3, <2>4, Zenon
  <1>2. CASE Player!Press
    <2>1. known # {} \/ session
      BY <1>2, Zenon DEF Player!Press
    <2>2. UNCHANGED <<known, display, watermark, watched>>
      BY <1>2, Zenon DEF Player!Press
    <2>3. CASE session
      <3>1. generation' = generation + 1 /\ session' = FALSE /\ playingDay' = {} /\ runs' = runs
        BY <1>2, <2>3, Zenon DEF Player!Press, Player!Stopped
      <3>2. Screen'
        BY <1>0, <1>c, <1>n, <2>2, <3>1 DEF Screen
      <3>3. RunsSafe(runs', generation', known', Behind') /\ ~Live(runs', generation')
        BY <1>0, <1>a, <1>n, <2>2, <3>1, StoppedRuns, Zenon
      <3>4. QED BY <1>q, <3>1, <3>2, <3>3, Zenon
    <2>4. CASE ~session
      <3>1. PICK request \in {"unseen", "newest"} : Player!Begin(request, {}, {})
        BY <1>2, <2>4, Zenon DEF Player!Press
      <3> DEFINE s == Player!Run(request, {}, {})
      <3>2. generation' = generation + 1 /\ session' = TRUE /\ playingDay' = playingDay /\ runs' = runs \cup {s}
        BY <1>2, <2>4, <3>1, Zenon DEF Player!Press, Player!Begin
      <3>3. s \in RunRecords /\ s.token = generation + 1 /\ RunSafe(s, generation + 1, known, Behind)
        <4>1. known # {}
          BY <2>1, <2>4
        <4>2. QED BY <1>n, <3>1, <4>1 DEF Player!Run, RunRecords, Steps, RunSafe, Covered, Player!Nothing
      <3> HIDE DEF s
      <3>4. Screen'
        BY <1>0, <1>c, <1>n, <2>2, <3>2 DEF Screen
      <3>5. RunsSafe(runs', generation', known', Behind') /\ Live(runs', generation')
        BY <1>0, <1>a, <1>n, <2>2, <3>2, <3>3, RunsBegin, Zenon
      <3>6. QED BY <1>q, <3>2, <3>4, <3>5, Zenon
    <2>5. QED BY <2>3, <2>4
  <1>3. CASE Player!Seek
    <2>1. PICK f \in playingDay \cup {Frames + 1} :
                   /\ Player!Begin("seek", playingDay, {g \in playingDay : g >= f})
                   /\ watched' = watched \cup {g \in playingDay : g < f}
      BY <1>3, Zenon DEF Player!Seek, Player!Resting
    <2> DEFINE l == {g \in playingDay : g >= f}
               s == Player!Run("seek", playingDay, l)
    <2>2. /\ UNCHANGED <<known, playingDay, display, watermark>> /\ playingDay # {}
          /\ generation' = generation + 1 /\ session' = TRUE /\ runs' = runs \cup {s}
      BY <1>3, <2>1, Zenon DEF Player!Seek, Player!Begin
    <2>3. playingDay \subseteq known /\ playingDay \subseteq Nat /\ l \subseteq playingDay /\ l \subseteq Nat /\ f \in Nat
      <3>1. playingDay \subseteq known /\ playingDay \subseteq Nat
        BY <1>0, <1>n DEF Screen
      <3>2. Frames + 1 \in Nat
        BY <1>n
      <3>3. f \in Nat
        BY <2>1, <3>1, <3>2, Zenon
      <3>4. QED BY <3>1, <3>3
    <2>4. Covered(playingDay, l, Behind')
      <3> SUFFICES ASSUME NEW x \in playingDay, x \notin l PROVE x \in watched'
        BY Zenon DEF Covered, Behind
      <3>1. x < f
        BY <2>3
      <3>2. QED BY <2>1, <3>1, Zenon
    <2> HIDE DEF l
    <2>5. /\ s \in RunRecords /\ s.token = generation + 1 /\ s.request = "seek" /\ s.all = known
          /\ s.day = playingDay /\ s.left = l /\ s.pc = "open"
      BY <1>n, <2>3 DEF Player!Run, RunRecords, Steps, Player!Nothing
    <2> HIDE DEF s
    <2>6. known # {}
      BY <2>2, <2>3
    <2>7. RunSafe(s, generation + 1, known, Behind')
      <3>1. generation + 1 \in 1 .. generation + 1
        BY <1>n
      <3>2. "open" # "rest" /\ "open" # "walk" /\ "open" # "mark"
        OBVIOUS
      <3>3. QED BY <2>2, <2>3, <2>4, <2>5, <2>6, <3>1, <3>2, Zenon DEF RunSafe
    <2>8. watched \subseteq watched' /\ watched' \subseteq known /\ Behind \subseteq Behind'
      BY <1>0, <2>1, <2>2, <2>3 DEF Screen, Behind
    <2>9. Screen'
      BY <1>0, <1>n, <2>2, <2>8 DEF Screen
    <2>10. RunsSafe(runs', generation', known', Behind') /\ Live(runs', generation')
      BY <1>0, <1>n, <2>2, <2>5, <2>7, <2>8, RunsBegin, Zenon
    <2>11. QED BY <1>q, <2>2, <2>9, <2>10, Zenon
  \* What a step of a run may do.
  <1>r. ASSUME NEW r \in runs PROVE r \in RunRecords /\ RunSafe(r, generation, known, Behind)
    BY <1>0, Zenon DEF RunsSafe
  <1>m. ASSUME NEW r \in runs, NEW p \in Steps, NEW n \in Nat
        PROVE  /\ [r EXCEPT !.pc = p] \in RunRecords /\ [r EXCEPT !.pc = p].pc = p
               /\ [r EXCEPT !.pc = p, !.shown = n] \in RunRecords /\ [r EXCEPT !.pc = p, !.shown = n].pc = p
               /\ \A s \in {[r EXCEPT !.pc = p], [r EXCEPT !.pc = p, !.shown = n]} :
                      s.token = r.token /\ s.request = r.request /\ s.all = r.all /\ s.day = r.day /\ s.left = r.left
    BY <1>r DEF RunRecords
  <1>u. ASSUME NEW r \in runs, NEW s \in RunRecords,
               s.token = r.token, s.request = r.request, s.all = r.all, s.day = r.day, s.left = r.left,
               s.pc \in {"read", "show"} \/ (s.pc \in {"rest", "walk"} /\ r.left # {}) \/ (s.pc = "mark" /\ r.left = {}),
               r.day # {}
        PROVE  RunSafe(s, generation, known, Behind)
    <2>1. RunSafe(r, generation, known, Behind)
      BY <1>r
    <2>2. s.pc = "read" \/ s.pc = "show" => s.pc # "rest" /\ s.pc # "walk" /\ s.pc # "mark"
      OBVIOUS
    <2>3. s.pc = "rest" \/ s.pc = "walk" => s.pc # "mark"
      OBVIOUS
    <2>4. s.pc = "mark" => s.pc # "rest" /\ s.pc # "walk"
      OBVIOUS
    <2>5. QED BY <1>u, <2>1, <2>2, <2>3, <2>4, Zenon DEF RunSafe
  <1>g. ASSUME UNCHANGED <<known, watermark, watched, generation, session, playingDay>>,
               display' \in 0 .. Frames + 1,
               NEW r \in runs, NEW s \in RunRecords, s.token = r.token,
               RunSafe(s, generation, known, Behind), runs' = (runs \ {r}) \cup {s}
        PROVE  ReplayInv'
    <2>1. Screen'
      BY <1>c, <1>g, <1>n, Zenon
    <2>2. /\ RunsSafe(runs', generation, known, Behind)
          /\ Live(runs', generation) <=> Live(runs, generation)
      BY <1>0, <1>g, RunsBecome, Zenon
    <2>3. QED BY <1>0, <1>a, <1>g, <1>q, <1>s, <2>1, <2>2, Zenon
  <1>l. ASSUME UNCHANGED <<known, watermark, watched, display>>, NEW r \in runs, runs' = runs \ {r},
               IF r.token = generation
               THEN generation' = generation + 1 /\ session' = FALSE /\ playingDay' = {}
               ELSE UNCHANGED <<generation, session, playingDay>>
        PROVE  ReplayInv'
    <2>1. display' \in 0 .. Frames + 1
      BY <1>0, <1>l DEF Screen
    <2>2. CASE r.token = generation
      <3>1. generation' = generation + 1 /\ session' = FALSE /\ playingDay' = {}
        BY <1>l, <2>2
      <3>2. Screen'
        BY <1>c, <1>l, <1>n, <2>1, <3>1, Zenon
      <3>3. RunsSafe(runs', generation, known, Behind)
        BY <1>0, <1>l, <1>n, RunsReturn, Zenon
      <3>4. RunsSafe(runs', generation', known', Behind') /\ ~Live(runs', generation')
        BY <1>a, <1>l, <1>n, <3>1, <3>3, StoppedRuns, Zenon
      <3>5. QED BY <1>q, <3>1, <3>2, <3>4, Zenon
    <2>3. CASE r.token # generation
      <3>1. UNCHANGED <<generation, session, playingDay>>
        BY <1>l, <2>3
      <3>2. Screen'
        BY <1>c, <1>l, <1>n, <2>1, <3>1, Zenon
      <3>3. RunsSafe(runs', generation, known, Behind) /\ (Live(runs', generation) <=> Live(runs, generation))
        BY <1>0, <1>l, <1>n, <2>3, RunsReturn, Zenon
      <3>4. QED BY <1>0, <1>a, <1>l, <1>q, <1>s, <3>1, <3>2, <3>3, Zenon
    <2>4. QED BY <2>2, <2>3
  <1>v. ASSUME NEW r \in runs PROVE Player!Valid(r) <=> r.token = generation
    BY Zenon DEF Player!Valid
  <1>d. display \in 0 .. Frames + 1 /\ Frames + 1 \in Nat /\ Frames + 1 \in 0 .. Frames + 1
    BY <1>0, <1>n DEF Screen
  <1>p. Steps = {"open", "read", "rest", "walk", "show", "mark"}
    BY Zenon DEF Steps
  \* The loop is left: marking what it has seen to its end, or returning.
  <1>o. ASSUME NEW r \in runs, Player!LeaveLoop(r), r.day # {},
               r.token = generation => r.left = {},
               UNCHANGED <<known, generation, session, playingDay, watermark, watched, display>>
        PROVE  ReplayInv'
    <2>1. CASE r.token = generation
      <3> DEFINE s == [r EXCEPT !.pc = "mark"]
      <3>1. runs' = (runs \ {r}) \cup {s}
        BY <1>o, <1>v, <2>1, Zenon DEF Player!LeaveLoop, Player!Ends, Player!Become
      <3>2. s \in RunRecords /\ s.pc = "mark" /\ s.token = r.token /\ s.request = r.request /\ s.all = r.all /\ s.day = r.day /\ s.left = r.left
        BY <1>m, <1>n, <1>p, ZenonT(40)
      <3> HIDE DEF s
      <3>3. RunSafe(s, generation, known, Behind)
        BY <1>o, <1>u, <2>1, <3>2, Zenon
      <3>4. QED BY <1>d, <1>g, <1>o, <3>1, <3>2, <3>3, Zenon
    <2>2. CASE r.token # generation
      <3>1. runs' = runs \ {r}
        BY <1>o, <1>v, <2>2, Zenon DEF Player!LeaveLoop, Player!Ends, Player!Return
      <3>2. QED BY <1>l, <1>o, <2>2, <3>1, Zenon
    <2>3. QED BY <2>1, <2>2
  <1>4. ASSUME NEW r \in runs, Player!Open(r) PROVE ReplayInv'
    <2>1. r.pc = "open" /\ UNCHANGED <<known, generation, session, display, watermark, watched>>
      BY <1>4, Zenon DEF Player!Open
    <2>2. CASE r.token # generation
      <3>1. runs' = runs \ {r} /\ playingDay' = playingDay
        BY <1>4, <1>v, <2>2, Zenon DEF Player!Open, Player!Return
      <3>2. QED BY <1>l, <2>1, <2>2, <3>1, Zenon
    <2>3. CASE r.token = generation
      <3> DEFINE day == IF r.request = "seek" THEN r.day ELSE Player!Chosen(r)
                 rest == IF r.request = "seek" THEN r.left
                         ELSE IF r.request = "unseen" /\ ~Player!AtEnd(day) THEN {f \in day : f > watermark} ELSE day
                 s == [r EXCEPT !.day = day, !.left = rest, !.pc = "read"]
      <3>1. playingDay' = day /\ runs' = (runs \ {r}) \cup {s}
        BY <1>4, <1>v, <2>3, Zenon DEF Player!Open, Player!Become
      <3>2. RunSafe(r, generation, known, Behind) /\ r \in RunRecords
        BY <1>r
      <3>3. r.all # {} /\ r.all \subseteq known /\ r.all \subseteq 1 .. Frames
        BY <1>n, <3>2, Zenon DEF RunSafe
      <3>4. watermark \in Nat
        BY <1>0, <1>n DEF Screen
      <3>5. day # {} /\ day \subseteq r.all /\ rest \subseteq day /\ Covered(day, rest, Behind)
        <4>1. CASE r.request = "seek"
          BY <3>2, <4>1, Zenon DEF RunSafe
        <4>2. CASE r.request # "seek"
          <5>1. day = Player!Chosen(r) /\ (rest = {f \in day : f > watermark} \/ rest = day)
            BY <4>2, Zenon
          <5> HIDE DEF day, rest
          <5>2. day # {} /\ day \subseteq r.all
            BY <3>3, <5>1, ChosenIs, Zenon
          <5>3. Covered(day, {f \in day : f > watermark}, Behind)
            <6> SUFFICES ASSUME NEW x \in day, ~(x > watermark) PROVE x \in 1 .. watermark
              BY Zenon DEF Covered, Behind
            <6>1. x \in 1 .. Frames
              BY <3>3, <5>2, Zenon
            <6>2. QED BY <1>n, <3>4, <6>1
          <5>4. Covered(day, day, Behind)
            BY Zenon DEF Covered
          <5>5. QED BY <5>1, <5>2, <5>3, <5>4, Zenon
        <4>3. QED BY <4>1, <4>2
      <3> HIDE DEF day, rest
      <3>6. day \subseteq Nat /\ rest \subseteq Nat /\ day \subseteq known
        BY <1>n, <3>3, <3>5
      <3>7. /\ s \in RunRecords /\ s.token = r.token /\ s.request = r.request /\ s.all = r.all /\ s.day = day /\ s.left = rest /\ s.pc = "read"
        BY <3>2, <3>6 DEF RunRecords, Steps
      <3> HIDE DEF s
      <3>8. RunSafe(s, generation, known, Behind)
        <4>1. "read" # "rest" /\ "read" # "walk" /\ "read" # "mark"
          OBVIOUS
        <4>2. QED BY <3>2, <3>5, <3>7, <4>1, Zenon DEF RunSafe
      <3>9. /\ RunsSafe(runs', generation, known, Behind)
            /\ Live(runs', generation) <=> Live(runs, generation)
        BY <1>0, <3>1, <3>7, <3>8, RunsBecome, Zenon
      <3>10. Screen'
        BY <1>0, <2>1, <3>1, <3>6, Zenon DEF Screen
      <3>11. QED BY <1>0, <1>a, <1>q, <1>s, <2>1, <3>9, <3>10, Zenon
    <2>4. QED BY <2>2, <2>3
  <1>5. ASSUME NEW r \in runs, Player!Read(r) PROVE ReplayInv'
    <2>1. /\ r.pc = "read" /\ r.left # {} /\ UNCHANGED <<known, generation, session, playingDay, watermark, watched>>
          /\ \/ display' = Frames + 1 /\ runs' = (runs \ {r}) \cup {[r EXCEPT !.pc = "rest", !.shown = Frames + 1]}
             \/ UNCHANGED display /\ runs' = (runs \ {r}) \cup {[r EXCEPT !.pc = "walk"]}
      BY <1>5, Zenon DEF Player!Read, Player!Become, Player!Resting
    <2>2. PICK s \in RunRecords : /\ runs' = (runs \ {r}) \cup {s} /\ s.pc \in {"rest", "walk"}
                                  /\ s.token = r.token /\ s.request = r.request /\ s.all = r.all /\ s.day = r.day /\ s.left = r.left
      <3>1. CASE runs' = (runs \ {r}) \cup {[r EXCEPT !.pc = "rest", !.shown = Frames + 1]}
        <4> DEFINE s == [r EXCEPT !.pc = "rest", !.shown = Frames + 1]
        <4>1. s \in RunRecords /\ s.pc = "rest" /\ s.token = r.token /\ s.request = r.request /\ s.all = r.all /\ s.day = r.day /\ s.left = r.left
          BY <1>d, <1>r DEF RunRecords, Steps
        <4>2. runs' = (runs \ {r}) \cup {s}
          BY <3>1
        <4> HIDE DEF s
        <4>3. QED BY <4>1, <4>2, Zenon
      <3>2. CASE runs' = (runs \ {r}) \cup {[r EXCEPT !.pc = "walk"]}
        <4> DEFINE s == [r EXCEPT !.pc = "walk"]
        <4>1. s \in RunRecords /\ s.pc = "walk" /\ s.token = r.token /\ s.request = r.request /\ s.all = r.all /\ s.day = r.day /\ s.left = r.left
          BY <1>d, <1>m, <1>p, ZenonT(40)
        <4>2. runs' = (runs \ {r}) \cup {s}
          BY <3>2
        <4> HIDE DEF s
        <4>3. QED BY <4>1, <4>2, Zenon
      <3>3. QED BY <2>1, <3>1, <3>2, Zenon
    <2>3. r.day # {}
      <3>1. r.left \subseteq r.day
        BY <1>r, Zenon DEF RunSafe
      <3>2. QED BY <2>1, <3>1
    <2>4. RunSafe(s, generation, known, Behind)
      BY <1>u, <2>1, <2>2, <2>3, Zenon
    <2>5. display' \in 0 .. Frames + 1
      BY <1>d, <2>1, Zenon
    <2>6. QED BY <1>g, <2>1, <2>2, <2>4, <2>5, Zenon
  <1>6. ASSUME NEW r \in runs, Player!ReadEnd(r) PROVE ReplayInv'
    <2>1. /\ r.pc = "read" /\ r.left = {} /\ Player!LeaveLoop(r)
          /\ UNCHANGED <<known, generation, session, playingDay, watermark, watched, display>>
      BY <1>6, Zenon DEF Player!ReadEnd
    <2>2. r.day # {}
      <3>1. "read" # "open"
        OBVIOUS
      <3>2. QED BY <1>r, <2>1, <3>1, Zenon DEF RunSafe
    <2>3. QED BY <1>o, <2>1, <2>2, Zenon
  <1>7. ASSUME NEW r \in runs, Player!Rested(r) \/ Player!Shown(r) PROVE ReplayInv'
    <2>1. /\ (r.pc = "rest" /\ r.left # {}) \/ r.pc = "show"
          /\ UNCHANGED <<known, generation, session, playingDay, watermark, watched, display>>
      BY <1>7, <1>r, Zenon DEF Player!Rested, Player!Shown, RunSafe
    <2>2. r.day # {}
      <3>1. r.pc = "rest" \/ r.pc = "show" => r.pc # "open"
        OBVIOUS
      <3>2. QED BY <1>r, <2>1, <3>1, Zenon DEF RunSafe
    <2>3. CASE r.token = generation
      <3>1. PICK s \in RunRecords : /\ runs' = (runs \ {r}) \cup {s}
                                    /\ (s.pc = "walk" /\ r.left # {}) \/ s.pc = "read"
                                    /\ s.token = r.token /\ s.request = r.request /\ s.all = r.all /\ s.day = r.day /\ s.left = r.left
        <4>1. CASE Player!Rested(r)
          <5>1. runs' = (runs \ {r}) \cup {[r EXCEPT !.pc = "walk"]} /\ r.left # {}
            BY <1>r, <1>v, <2>3, <4>1, Zenon DEF Player!Rested, Player!Become, RunSafe
          <5> DEFINE s == [r EXCEPT !.pc = "walk"]
          <5>2. s \in RunRecords /\ s.pc = "walk" /\ s.token = r.token /\ s.request = r.request /\ s.all = r.all /\ s.day = r.day /\ s.left = r.left
            BY <1>d, <1>m, <1>p, ZenonT(40)
          <5>3. runs' = (runs \ {r}) \cup {s}
            BY <5>1
          <5> HIDE DEF s
          <5>4. QED BY <5>1, <5>2, <5>3, Zenon
        <4>2. CASE Player!Shown(r)
          <5>1. runs' = (runs \ {r}) \cup {[r EXCEPT !.pc = "read"]}
            BY <1>v, <2>3, <4>2, Zenon DEF Player!Shown, Player!Become
          <5> DEFINE s == [r EXCEPT !.pc = "read"]
          <5>2. s \in RunRecords /\ s.pc = "read" /\ s.token = r.token /\ s.request = r.request /\ s.all = r.all /\ s.day = r.day /\ s.left = r.left
            BY <1>d, <1>m, <1>p, ZenonT(40)
          <5>3. runs' = (runs \ {r}) \cup {s}
            BY <5>1
          <5> HIDE DEF s
          <5>4. QED BY <5>2, <5>3, Zenon
        <4>3. QED BY <1>7, <4>1, <4>2, Zenon
      <3>2. RunSafe(s, generation, known, Behind)
        BY <1>u, <2>2, <3>1, Zenon
      <3>3. QED BY <1>d, <1>g, <2>1, <3>1, <3>2, Zenon
    <2>4. CASE r.token # generation
      <3>1. Player!LeaveLoop(r)
        BY <1>7, <1>v, <2>4, Zenon DEF Player!Rested, Player!Shown
      <3>2. QED BY <1>o, <2>1, <2>2, <2>4, <3>1, Zenon
    <2>5. QED BY <2>3, <2>4
  <1>8. ASSUME NEW r \in runs, Player!Walked(r) PROVE ReplayInv'
    <2>1. r.pc = "walk" /\ UNCHANGED <<known, generation, session, playingDay, watermark>>
      BY <1>8, Zenon DEF Player!Walked
    <2>2. r.day # {} /\ r.left # {} /\ r.left \subseteq r.day /\ r.day \subseteq r.all /\ r.all \subseteq known
      <3>1. "walk" # "open"
        OBVIOUS
      <3>2. QED BY <1>r, <2>1, <3>1, Zenon DEF RunSafe
    <2>3. CASE r.token # generation
      <3>1. Player!LeaveLoop(r) /\ UNCHANGED <<display, watched>>
        BY <1>8, <1>v, <2>3, Zenon DEF Player!Walked
      <3>2. QED BY <1>o, <2>1, <2>2, <2>3, <3>1, Zenon
    <2>4. CASE r.token = generation
      <3> DEFINE f == Player!Min(r.left)
                 s == [r EXCEPT !.shown = f, !.left = @ \ {f}, !.pc = "show"]
      <3>1. display' = f /\ watched' = watched \cup {f} /\ runs' = (runs \ {r}) \cup {s}
        BY <1>8, <1>v, <2>4, Zenon DEF Player!Walked, Player!Become
      <3>2. f \in r.left
        <4>1. r.left \subseteq Nat
          BY <1>n, <2>2
        <4>2. QED BY <2>2, <4>1, DayMin, Zenon
      <3> HIDE DEF f
      <3>3. f \in known /\ f \in 0 .. Frames + 1 /\ f \in Nat
        <4>1. f \in known
          BY <2>2, <3>2, Zenon
        <4>2. f \in 1 .. Frames
          BY <1>n, <4>1, Zenon
        <4>3. QED BY <1>n, <4>1, <4>2
      <3>4. /\ s \in RunRecords /\ s.token = r.token /\ s.request = r.request /\ s.all = r.all /\ s.day = r.day /\ s.left = r.left \ {f} /\ s.pc = "show"
        BY <1>r, <3>3 DEF RunRecords, Steps
      <3> HIDE DEF s
      <3>5. watched' \subseteq known /\ Behind \subseteq Behind' /\ f \in Behind'
        BY <1>0, <2>1, <3>1, <3>3 DEF Screen, Behind
      <3>6. RunsSafe(runs, generation, known, Behind')
        <4>1. generation <= generation
          BY <1>n
        <4>2. QED BY <1>0, <1>n, <3>5, <4>1, RunsGrow, Zenon
      <3>7. RunSafe(s, generation, known, Behind')
        <4>1. RunSafe(r, generation, known, Behind)
          BY <1>r
        <4>2. "show" # "open" /\ "show" # "rest" /\ "show" # "walk" /\ "show" # "mark"
          OBVIOUS
        <4>3. Covered(r.day, r.left \ {f}, Behind')
          BY <3>5, <4>1, Zenon DEF RunSafe, Covered
        <4>4. QED BY <2>2, <3>4, <4>1, <4>2, <4>3, Zenon DEF RunSafe
      <3>8. RunsSafe(runs', generation, known, Behind') /\ (Live(runs', generation) <=> Live(runs, generation))
        BY <3>1, <3>4, <3>6, <3>7, RunsBecome, Zenon
      <3>9. Screen'
        BY <1>0, <1>n, <2>1, <3>1, <3>3, <3>5, Zenon DEF Screen
      <3>10. QED BY <1>0, <1>q, <1>s, <2>1, <3>8, <3>9, Zenon
    <2>5. QED BY <2>3, <2>4
  <1>9. ASSUME NEW r \in runs, Player!Fails(r) PROVE ReplayInv'
    <2>1. /\ UNCHANGED <<known, display, watermark, watched>> /\ runs' = runs \ {r}
          /\ IF r.token = generation
             THEN generation' = generation + 1 /\ session' = FALSE /\ playingDay' = {}
             ELSE UNCHANGED <<generation, session, playingDay>>
      BY <1>9, <1>v, Zenon DEF Player!Fails, Player!Leave, Player!Return, Player!Stopped
    <2>2. QED BY <1>l, <2>1, Zenon
  <1>10. ASSUME NEW r \in runs, Player!Marked(r) PROVE ReplayInv'
    <2>1. /\ r.pc = "mark" /\ watermark' = Player!Max({watermark, Player!Max(r.day)})
          /\ UNCHANGED <<known, display, watched>> /\ runs' = runs \ {r}
          /\ IF r.token = generation
             THEN generation' = generation + 1 /\ session' = FALSE /\ playingDay' = {}
             ELSE UNCHANGED <<generation, session, playingDay>>
      BY <1>10, <1>v, Zenon DEF Player!Marked, Player!Leave, Player!Return, Player!Stopped
    <2>2. r.day # {} /\ r.day \subseteq 1 .. Frames
      <3>1. "mark" # "open"
        OBVIOUS
      <3>2. QED BY <1>n, <1>r, <2>1, <3>1, Zenon DEF RunSafe
    <2>3. watermark' \in 0 .. Frames /\ watermark <= watermark'
      <3> DEFINE top == Player!Max(r.day)
      <3>1. r.day \subseteq 0 .. Frames
        BY <1>n, <2>2
      <3>2. top \in r.day
        BY <1>n, <2>2, <3>1, DayMax, Zenon
      <3> HIDE DEF top
      <3>3. {watermark, top} \subseteq 0 .. Frames /\ {watermark, top} # {}
        BY <1>0, <1>n, <3>1, <3>2 DEF Screen
      <3>4. watermark' = Player!Max({watermark, top})
        BY <2>1, Zenon DEF top
      <3>5. QED BY <1>n, <3>3, <3>4, DayMax, Zenon
    <2>4. Behind \subseteq Behind'
      <3>1. watermark \in 0 .. Frames
        BY <1>0 DEF Screen
      <3>2. PICK top \in 0 .. Frames : top = watermark' /\ watermark <= top
        BY <2>3
      <3>3. 1 .. watermark \subseteq 1 .. top
        BY <1>n, <3>1, <3>2
      <3>4. QED BY <2>1, <3>2, <3>3, Zenon DEF Behind
    <2>5. RunsSafe(runs, generation, known, Behind')
      BY <1>0, <1>n, <2>4, RunsGrow, Zenon
    <2>7. CASE r.token = generation
      <3>1. generation' = generation + 1 /\ session' = FALSE /\ playingDay' = {}
        BY <2>1, <2>7
      <3>2. Screen'
        BY <1>0, <1>n, <2>1, <2>3, <3>1 DEF Screen
      <3>3. RunsSafe(runs', generation, known, Behind')
        BY <1>n, <2>1, <2>5, RunsReturn, Zenon
      <3>4. RunsSafe(runs', generation', known', Behind') /\ ~Live(runs', generation')
        BY <1>n, <2>1, <3>1, <3>3, StoppedRuns, Zenon
      <3>5. QED BY <1>q, <3>1, <3>2, <3>4, Zenon
    <2>8. CASE r.token # generation
      <3>1. UNCHANGED <<generation, session, playingDay>>
        BY <2>1, <2>8
      <3>2. Screen'
        BY <1>0, <1>n, <2>1, <2>3, <3>1 DEF Screen
      <3>3. RunsSafe(runs', generation, known, Behind') /\ (Live(runs', generation) <=> Live(runs, generation))
        BY <1>n, <2>1, <2>5, <2>8, RunsReturn, Zenon
      <3>4. QED BY <1>0, <1>q, <1>s, <2>1, <3>1, <3>2, <3>3, Zenon
    <2>9. QED BY <2>7, <2>8
  <1>11. CASE UNCHANGED replayVars
    <2>1. UNCHANGED <<known, generation, session, playingDay, display, watermark, runs, watched>>
      BY <1>11, Zenon DEF replayVars
    <2>2. Screen'
      BY <1>c, <1>d, <1>n, <2>1, Zenon
    <2>3. QED BY <1>0, <1>a, <1>q, <1>s, <2>1, <2>2, Zenon
  <1>12. ASSUME NEW r \in runs, Player!Step(r) \/ Player!Fails(r) PROVE ReplayInv'
    BY <1>12, <1>4, <1>5, <1>6, <1>7, <1>8, <1>9, <1>10, Zenon DEF Player!Step
  <1>13. QED BY <1>1, <1>2, <1>3, <1>11, <1>12, Zenon DEF Player!Next

(* What it says to the user: one playback, and only what it showed is seen. *)
LEMMA ReplayInvSafe ==
    ReplayInv => Player!TypeOK /\ Player!SessionIsLive /\ Player!SeenWasWatched
  <1> SUFFICES ASSUME ReplayInv PROVE Player!TypeOK /\ Player!SessionIsLive /\ Player!SeenWasWatched
    OBVIOUS
  <1>0. RunsSafe(runs, generation, known, Behind) /\ Screen /\ session \in BOOLEAN
    BY Zenon DEF ReplayInv
  <1>s. session <=> Live(runs, generation)
    BY Zenon DEF ReplayInv
  <1>1. Player!TypeOK
    BY <1>0, Zenon DEF RunsSafe, RunSafe, Screen, Player!TypeOK, Player!Resting
  <1>2. Player!SessionIsLive
    <2> DEFINE V == {r \in runs : Player!Valid(r)}
    <2>1. session <=> \E r \in runs : Player!Valid(r)
      BY <1>s, Zenon DEF Live, Player!Valid
    <2>2. V = {} \/ \E r : V = {r}
      <3>1. \A r, s \in V : r = s
        BY <1>0, Zenon DEF RunsSafe, Player!Valid
      <3> HIDE DEF V
      <3>2. ASSUME NEW r \in V PROVE V = {r}
        BY <3>1
      <3>3. QED BY <3>2
    <2>3. Player!Cardinality(V) = Cardinality(V)
      BY Zenon DEF Player!Cardinality, Cardinality
    <2> HIDE DEF V
    <2>4. Cardinality(V) <= 1
      <3>1. CASE V = {}
        <4>1. Cardinality(V) = 0
          BY <3>1, FS_EmptySet, Zenon
        <4>2. QED BY <4>1
      <3>2. CASE \E r : V = {r}
        <4>1. Cardinality(V) = 1
          BY <3>2, FS_Singleton, Zenon
        <4>2. QED BY <4>1
      <3>3. QED BY <2>2, <3>1, <3>2
    <2>5. Player!Cardinality(V) <= 1
      BY <2>3, <2>4, Zenon
    <2>6. QED BY <2>1, <2>5, Zenon DEF Player!SessionIsLive, V
  <1>3. Player!SeenWasWatched
    <2> SUFFICES ASSUME NEW r \in runs, r.pc = "mark", NEW f \in r.day, f > watermark PROVE f \in watched
      BY Zenon DEF Player!SeenWasWatched
    <2>1. RunSafe(r, generation, known, Behind)
      BY <1>0, Zenon DEF RunsSafe
    <2>2. f \in Behind
      BY <2>1, Zenon DEF RunSafe, Covered
    <2>3. f \notin 1 .. watermark
      BY <1>0 DEF Screen
    <2>4. QED BY <2>2, <2>3, Zenon DEF Behind
  <1>4. QED BY <1>1, <1>2, <1>3, Zenon

(* However starts, seeks, stops, failures and the ends of replaced runs     *)
(* follow one another, ReplayInv holds of every playback.                   *)
LEMMA ReplayInvariance == Spec => [](part = "replay" => ReplayInv)
  <1>1. Init => (part = "replay" => ReplayInv)
    BY ReplayInit
  <1>2. (part = "replay" => ReplayInv) /\ [Next]_deskVars => (part = "replay" => ReplayInv)'
    BY PartSteps, ReplayStep
  <1>3. QED BY <1>1, <1>2, PTL DEF Spec

(* At most one run plays, and one does exactly while a session is open,     *)
(* whatever the days of the recordings (Replay).                            *)
THEOREM OnePlayback == Spec => [](part = "replay" => Player!SessionIsLive)
  <1>1. (part = "replay" => ReplayInv) => (part = "replay" => Player!SessionIsLive)
    BY ReplayInvSafe
  <1>2. QED BY <1>1, ReplayInvariance, PTL

(* And in whatever order recordings arrive and days interleave, a run marks *)
(* its day seen only when it has shown, or a seek skipped, each recording   *)
(* of it that the watermark comes to cover (Replay).                        *)
THEOREM ReplaySafety == Spec => []ReplaySafe
  <1>1. (part = "replay" => ReplayInv) => ReplaySafe
    BY ReplayInvSafe DEF ReplaySafe, Player!ReplaySafe
  <1>2. QED BY <1>1, ReplayInvariance, PTL
-----------------------------------------------------------------------------
(* Playout: the offset gives way by 20 ms at most with a window of 250, so  *)
(* the time of the latest window grows with each.                           *)

(* The samples are a finite set of integers.                                *)
LEMMA SampleSet ==
    ASSUME NEW s \in Seq(Int), s # <<>>
    PROVE  /\ Paws!Range(s) \subseteq Int /\ Paws!Range(s) # {} /\ IsFiniteSet(Paws!Range(s))
           /\ IsFiniteSet(DOMAIN s) /\ Cardinality(DOMAIN s) = Len(s) /\ Len(s) \in Nat \ {0}
  <1> DEFINE R == {s[i] : i \in DOMAIN s}
             n == Len(s)
  <1>1. n \in Nat \ {0} /\ DOMAIN s = 1 .. n /\ \A i \in 1 .. n : s[i] \in Int
    OBVIOUS
  <1>2. n \in Int /\ 1 \in Int /\ ~(1 > n) /\ n - 1 + 1 = n
    BY <1>1
  <1> HIDE DEF n
  <1>3. IsFiniteSet(1 .. n) /\ Cardinality(1 .. n) = n
    BY <1>2, FS_Interval
  <1>4. R \subseteq Int /\ R # {}
    <2>1. 1 \in 1 .. n
      BY <1>1
    <2>2. QED BY <1>1, <2>1, Zenon
  <1>5. IsFiniteSet(R)
    <2> DEFINE f == [i \in DOMAIN s |-> s[i]]
    <2>1. f \in Surjection(DOMAIN s, R)
      BY Zenon DEF Surjection
    <2> HIDE DEF f, R
    <2>2. QED BY <1>1, <1>3, <2>1, FS_Surjection, Zenon
  <1>6. Paws!Range(s) = R
    BY Zenon DEF Paws!Range
  <1>7. QED BY <1>1, <1>3, <1>4, <1>5, <1>6, Zenon DEF n

(* So what the offset is computed from are integers.                        *)
LEMMA FastestIsInteger ==
    ASSUME NEW s \in Seq(Int), s # <<>>
    PROVE  Paws!Fastest(s) \in Int
  <1> DEFINE R == Paws!Range(s)
  <1>1. R \subseteq Int /\ R # {} /\ IsFiniteSet(R)
    BY SampleSet, Zenon
  <1> HIDE DEF R
  <1>2. \E x \in R : \A y \in R : x <= y
    BY <1>1, LeastInteger, Zenon
  <1>3. Paws!Min(R) \in R
    BY <1>2, Zenon DEF Paws!Min
  <1>4. QED BY <1>1, <1>3, Zenon DEF Paws!Fastest, R

(* The cardinality the instance speaks of.                                  *)
LEMMA SameCardinality == \A S : Paws!Cardinality(S) = Cardinality(S)
  BY Zenon DEF Paws!Cardinality, Cardinality

(* The median is defined: at least the greatest sample has more than half   *)
(* of them below it.                                                        *)
LEMMA MedianIsInteger ==
    ASSUME NEW s \in Seq(Int), s # <<>>
    PROVE  Paws!Median(s) \in Int
  <1> DEFINE R == Paws!Range(s)
             M == {x \in R : Paws!Cardinality({i \in DOMAIN s : s[i] <= x}) > Len(s) \div 2}
  <1>1. /\ R \subseteq Int /\ R # {} /\ IsFiniteSet(R)
        /\ Paws!Cardinality(DOMAIN s) = Len(s) /\ Len(s) \in Nat \ {0}
    BY SampleSet, SameCardinality, Zenon
  <1>2. PICK g \in R : \A y \in R : g >= y
    <2> HIDE DEF R
    <2>1. QED BY <1>1, GreatestInteger, Zenon
  <1>3. {i \in DOMAIN s : s[i] <= g} = DOMAIN s
    <2>1. ASSUME NEW i \in DOMAIN s PROVE s[i] <= g
      <3>1. s[i] \in R
        BY Zenon DEF Paws!Range
      <3>2. g >= s[i] /\ g \in Int /\ s[i] \in Int
        BY <1>1, <1>2, <3>1, Zenon
      <3>3. QED BY <3>2
    <2>2. QED BY <2>1, Zenon
  <1>4. Len(s) > Len(s) \div 2
    BY <1>1
  <1>5. g \in M
    BY <1>1, <1>3, <1>4, Zenon
  <1>6. M \subseteq Int /\ M # {} /\ IsFiniteSet(M)
    <2>1. M \in SUBSET R
      OBVIOUS
    <2> HIDE DEF M, R
    <2>2. QED BY <1>1, <1>5, <2>1, FS_Subset
  <1>7. Paws!Median(s) = Paws!Min(M)
    BY Zenon DEF Paws!Median
  <1> HIDE DEF M
  <1>8. \E x \in M : \A y \in M : x <= y
    BY <1>6, LeastInteger, Zenon
  <1>9. Paws!Min(M) \in M
    BY <1>8, Zenon DEF Paws!Min
  <1>10. QED BY <1>6, <1>7, <1>9, Zenon

(* The mean distance is a fold, so an integer by induction on the prefixes. *)
LEMMA DeviationIsInteger ==
    ASSUME NEW s \in Seq(Int), s # <<>>
    PROVE  Paws!Deviation(s) \in Int
  <1> DEFINE n == Len(s)
             med == Paws!Median(s)
             F == [p \in (1 .. n) \X Int |-> p[2] + Paws!Distance(s[p[1]], med)]
             Mx(t) == CHOOSE x \in t : \A y \in t : x >= y
             P(f) == f = [t \in SUBSET (DOMAIN s) |->
                            IF t = {} THEN 0 ELSE f[t \ {Mx(t)}] + Paws!Distance(s[Mx(t)], med)]
  <1>1. n \in Nat \ {0} /\ DOMAIN s = 1 .. n /\ \A i \in 1 .. n : s[i] \in Int
    OBVIOUS
  <1>2. med \in Int
    BY MedianIsInteger, Zenon
  <1> HIDE DEF n, med
  <1>3. \A i \in 1 .. n : Paws!Distance(s[i], med) \in Int
    BY <1>1, <1>2 DEF Paws!Distance, Paws!Greater
  <1>4. ASSUME NEW i \in 1 .. n, NEW v \in Int
        PROVE  F[<<i, v>>] = v + Paws!Distance(s[i], med) /\ v + Paws!Distance(s[i], med) \in Int
    BY <1>3
  <1>5. F \in [(1 .. n) \X Int -> Int]
    <2>1. \A p \in (1 .. n) \X Int : p[2] + Paws!Distance(s[p[1]], med) \in Int
      BY <1>3
    <2>2. QED BY <2>1, Zenon
  <1> HIDE DEF F
  <1>6. PICK g \in [SUBSET (1 .. n) -> Int] : \A t \in SUBSET (1 .. n) :
          g[t] = IF t = {} THEN 0 ELSE LET m == Mx(t) IN F[<<m, g[t \ {m}]>>]
    <2>1. 0 \in Int /\ n \in Nat
      BY <1>1
    <2>2. \E g \in [SUBSET (1 .. n) -> Int] : PrefixFold(g, n, 0, F)
      BY <1>5, <2>1, SeqFold, Zenon
    <2>3. QED BY <2>2, Zenon DEF PrefixFold
  <1>7. ASSUME NEW t \in SUBSET (1 .. n), t # {} PROVE Mx(t) \in t
    <2>1. t \subseteq Nat /\ \A x \in t : x <= n
      BY <1>1
    <2>2. \E x \in t : \A y \in t : x >= y
      BY <1>1, <1>7, <2>1, GreatestNatural, Zenon
    <2>3. QED BY <2>2, Zenon
  <1> HIDE DEF Mx
  <1>8. P(g)
    <2>1. ASSUME NEW t \in SUBSET (1 .. n), t # {}
          PROVE  g[t] = g[t \ {Mx(t)}] + Paws!Distance(s[Mx(t)], med)
      <3>1. Mx(t) \in 1 .. n /\ t \ {Mx(t)} \in SUBSET (1 .. n)
        BY <1>7, <2>1, Zenon
      <3>2. g[t \ {Mx(t)}] \in Int
        BY <3>1, Zenon
      <3>3. g[t] = F[<<Mx(t), g[t \ {Mx(t)}]>>]
        BY <1>6, <2>1, Zenon
      <3>4. QED BY <1>4, <3>1, <3>2, <3>3, Zenon
    <2>2. QED BY <1>1, <1>6, <2>1, Zenon
  <1>9. Paws!Deviation(s) = (CHOOSE f : P(f))[DOMAIN s] \div n
    BY Zenon DEF Paws!Deviation, Paws!FoldLeft, Paws!MapThenFoldSet, Paws!Max, Mx, med, n
  <1>10. PICK f : f = (CHOOSE h : P(h))
    OBVIOUS
  <1>11. P(f)
    BY <1>8, <1>10, Zenon
  <1>12. f[1 .. n] \in Int
    <2>1. f[1 .. 0] \in Int
      <3>1. 1 .. 0 = {} /\ 0 \in Int
        OBVIOUS
      <3>2. f[{}] = 0
        BY <1>11, Zenon
      <3>3. QED BY <3>1, <3>2, Zenon
    <2>2. ASSUME NEW i \in 1 .. n, f[1 .. i - 1] \in Int PROVE f[1 .. i] \in Int
      <3>1. i \in Nat \ {0} /\ 1 .. i \in SUBSET (1 .. n)
        BY <1>1
      <3>2. Mx(1 .. i) = i /\ 1 .. i # {} /\ (1 .. i) \ {i} = 1 .. i - 1
        BY <3>1, UptoIs, Zenon DEF Mx
      <3>3. \A t \in SUBSET (1 .. n) : t # {} => f[t] = f[t \ {Mx(t)}] + Paws!Distance(s[Mx(t)], med)
        BY <1>1, <1>11, Zenon
      <3>4. f[1 .. i] = f[1 .. i - 1] + Paws!Distance(s[i], med)
        BY <3>1, <3>2, <3>3, Zenon
      <3>5. QED BY <1>3, <2>2, <3>4
    <2>3. n \in Nat
      BY <1>1
    <2>4. QED BY <2>1, <2>2, <2>3, PrefixInduction, Zenon
  <1>13. QED BY <1>1, <1>9, <1>10, <1>12

LEMMA BufferedIsInteger ==
    ASSUME NEW s \in Seq(Int), s # <<>>
    PROVE  Paws!Buffered(s) \in Int
  <1>1. Paws!Fastest(s) \in Int /\ Paws!Median(s) \in Int /\ Paws!Deviation(s) \in Int
    BY FastestIsInteger, MedianIsInteger, DeviationIsInteger, Zenon
  <1>2. Paws!Target(s) \in Int
    BY <1>1 DEF Paws!Target
  <1>3. QED BY <1>1, <1>2 DEF Paws!Buffered, Paws!Between, Paws!Greater, Paws!Lesser

(* A window was played no later than the latest heard would be.             *)
PlayoutInv ==
    /\ samples \in Seq(Int) /\ heard \in Nat
    /\ \/ offset = <<>> /\ played = Paws!Nothing
       \/ \E o \in Int : offset = <<o>> /\
            (played # Paws!Nothing => played.at \in Int /\ played.at <= heard * 250 + o)

(* The offset yields 20 ms at most, a window is 250 ms later than the last. *)
LEMMA AcceptStep ==
    ASSUME PlayoutInv, NEW window \in 1 .. Windows, NEW arrival \in Int, window > heard, heard' = window,
           Paws!Accept(window, arrival)
    PROVE  PlayoutInv' /\ Paws!PlaysLater
  <1> DEFINE all == Append(samples, arrival - window * 250)
             kept1 == IF Len(all) > MaxSamples THEN Tail(all) ELSE all
             next == IF offset = <<>> THEN Paws!Buffered(kept1) ELSE Paws!Gently(offset[1], Paws!Buffered(kept1))
             at == window * 250 + next
  <1>1. /\ samples' = kept1 /\ offset' = <<next>>
        /\ \/ played' = [window |-> window, at |-> at, arrival |-> arrival]
           \/ played' = played
    BY Zenon DEF Paws!Accept, Paws!WINDOW_MS
  <1>2. window \in Nat /\ heard \in Nat /\ window >= heard + 1
    BY PlayoutAssumption DEF PlayoutInv
  <1>3. kept1 \in Seq(Int) /\ kept1 # <<>>
    <2>1. all \in Seq(Int) /\ Len(all) = Len(samples) + 1 /\ Len(samples) \in Nat
      <3>1. arrival - window * 250 \in Int /\ samples \in Seq(Int)
        BY <1>2 DEF PlayoutInv
      <3>2. QED BY <3>1, AppendIs
    <2> HIDE DEF all
    <2>2. CASE Len(all) > MaxSamples
      <3>1. Len(all) > 1 /\ all # <<>>
        BY <2>1, <2>2, PlayoutAssumption
      <3>2. Tail(all) \in Seq(Int) /\ Len(Tail(all)) = Len(all) - 1
        BY <2>1, <3>1, TailIs
      <3>3. Tail(all) # <<>>
        <4> DEFINE rest == Tail(all)
        <4>1. rest \in Seq(Int) /\ Len(rest) > 0
          BY <2>1, <3>1, <3>2
        <4> HIDE DEF rest
        <4>2. rest # <<>>
          BY <4>1
        <4>3. QED BY <4>2, Zenon DEF rest
      <3>4. QED BY <2>2, <3>2, <3>3, Zenon
    <2>3. CASE ~(Len(all) > MaxSamples)
      BY <2>1, <2>3
    <2>4. QED BY <2>2, <2>3
  <1> HIDE DEF all, kept1
  <1>4. Paws!Buffered(kept1) \in Int
    BY <1>3, BufferedIsInteger, Zenon
  <1> DEFINE b == Paws!Buffered(kept1)
  <1>5. next \in Int /\ \A o \in Int : offset = <<o>> => next >= o - 20
    <2>1. CASE offset = <<>>
      <3>1. \A o : <<>> # <<o>>
        OBVIOUS
      <3>2. QED BY <1>4, <2>1, <3>1, Zenon
    <2>2. ASSUME NEW o \in Int, offset = <<o>> PROVE next \in Int /\ next >= o - 20
      <3>1. offset # <<>> /\ offset[1] = o
        BY <2>2
      <3>2. next = Paws!Gently(o, b)
        BY <3>1, Zenon
      <3> HIDE DEF next, b
      <3>3. b \in Int
        BY <1>4, Zenon DEF b
      <3>4. QED BY <3>2, <3>3 DEF Paws!Gently, Paws!Between, Paws!Greater, Paws!Lesser
    <2> HIDE DEF next
    <2>3. \A o, u : <<o>> = <<u>> => o = u
      OBVIOUS
    <2>4. QED BY <2>1, <2>2, Zenon DEF PlayoutInv
  <1> HIDE DEF next
  <1>6. at \in Int
    BY <1>2, <1>5
  <1>7. played # Paws!Nothing => played.at \in Int /\ played.at < window * 250 + next
    <2>1. SUFFICES ASSUME played # Paws!Nothing PROVE played.at \in Int /\ played.at < window * 250 + next
      OBVIOUS
    <2>2. PICK o \in Int : offset = <<o>> /\ played.at \in Int /\ played.at <= heard * 250 + o
      BY <2>1, Zenon DEF PlayoutInv
    <2>3. next >= o - 20
      BY <1>5, <2>2, Zenon
    <2>4. QED BY <1>2, <1>5, <2>2, <2>3
  <1>8. played' # played => played'.at = at
    <2>1. played' = [window |-> window, at |-> at, arrival |-> arrival] => played'.at = at
      OBVIOUS
    <2>2. QED BY <1>1, <2>1, Zenon
  <1>9. played' # Paws!Nothing => played'.at \in Int /\ played'.at <= window * 250 + next
    <2>1. CASE played' = played
      BY <1>2, <1>5, <1>7, <2>1
    <2>2. CASE played' # played
      <3>1. at <= window * 250 + next
        BY <1>6
      <3>2. QED BY <1>6, <1>8, <2>2, <3>1, Zenon
    <2>3. QED BY <2>1, <2>2, Zenon
  <1>10. PlayoutInv'
    BY <1>1, <1>2, <1>3, <1>5, <1>9, Zenon DEF PlayoutInv
  <1>11. Paws!PlaysLater
    <2> SUFFICES ASSUME played # Paws!Nothing, played' # played PROVE played'.at > played.at
      BY Zenon DEF Paws!PlaysLater
    <2>1. played'.at = at
      BY <1>8, Zenon
    <2>2. QED BY <1>6, <1>7, <2>1
  <1>12. QED BY <1>10, <1>11, Zenon

LEMMA PlayoutStep == PlayoutInv /\ [Paws!Next]_playoutVars => PlayoutInv' /\ Paws!PlaysLater
  <1> SUFFICES ASSUME PlayoutInv, [Paws!Next]_playoutVars PROVE PlayoutInv' /\ Paws!PlaysLater
    OBVIOUS
  <1>1. CASE UNCHANGED <<samples, offset, heard, played>>
    <2>1. PlayoutInv'
      BY <1>1, Zenon DEF PlayoutInv
    <2>2. QED BY <1>1, <2>1, Zenon DEF Paws!PlaysLater
  <1>2. ASSUME NEW window \in 1 .. Windows, NEW transit \in Transits,
               window > heard, heard' = window, Paws!Accept(window, window * 250 + transit)
        PROVE  PlayoutInv' /\ Paws!PlaysLater
    <2>1. window * 250 + transit \in Int
      BY PlayoutAssumption
    <2>2. QED BY <1>2, <2>1, AcceptStep, Zenon
  <1>3. QED BY <1>1, <1>2, Zenon DEF Paws!Next, Paws!Arrives, Paws!WINDOW_MS, playoutVars

LEMMA PlayoutInit == Init => PlayoutInv
  <1> SUFFICES ASSUME Init PROVE PlayoutInv
    OBVIOUS
  <1>1. samples = <<>> /\ offset = <<>> /\ heard = 0 /\ played = Paws!Nothing
    BY Zenon DEF Init, Paws!Init
  <1>2. <<>> \in Seq(Int) /\ 0 \in Nat
    OBVIOUS
  <1>3. QED BY <1>1, <1>2, Zenon DEF PlayoutInv

(* Paws never move backwards in time: a later window plays later, however   *)
(* the delay falls and whatever is late (Playout).                          *)
THEOREM PawsForwards == Spec => [][part = "playout" => Paws!PlaysLater]_deskVars
  <1>1. Init => (part = "playout" => PlayoutInv)
    BY PlayoutInit
  <1>2. (part = "playout" => PlayoutInv) /\ [Next]_deskVars => (part = "playout" => PlayoutInv)'
    BY PartSteps, PlayoutStep
  <1>3. (part = "playout" => PlayoutInv) /\ [Next]_deskVars => [part = "playout" => Paws!PlaysLater]_deskVars
    BY PartSteps, PlayoutStep
  <1>4. QED BY <1>1, <1>2, <1>3, PTL DEF Spec

-----------------------------------------------------------------------------
(* Division and products of integers.                                       *)
LEMMA ProductGrows ==
    ASSUME NEW a \in Int, NEW b \in Int, NEW c \in Nat, a <= b
    PROVE  a * c \in Int /\ b * c \in Int /\ a * c <= b * c
  OBVIOUS

(* What the quotient by a positive number is.                               *)
LEMMA QuotientIs ==
    ASSUME NEW a \in Int, NEW d \in Nat \ {0}
    PROVE  a \div d \in Int /\ (a \div d) * d <= a /\ a < (a \div d) * d + d
  OBVIOUS

(* A quotient reaches q when the number reaches q times the divisor.        *)
LEMMA QuotientReaches ==
    ASSUME NEW a \in Int, NEW d \in Nat \ {0}, NEW q \in Int
    PROVE  q <= a \div d <=> q * d <= a
  <1> DEFINE p == a \div d
  <1>1. p \in Int /\ p * d <= a /\ a < p * d + d
    BY QuotientIs, Zenon
  <1> HIDE DEF p
  <1>2. ASSUME q <= p PROVE q * d <= a
    <2>1. q * d <= p * d
      BY <1>1, <1>2, ProductGrows
    <2>2. QED BY <1>1, <2>1
  <1>3. ASSUME ~(q <= p) PROVE ~(q * d <= a)
    <2>1. p + 1 \in Int /\ p + 1 <= q
      BY <1>1, <1>3
    <2>2. (p + 1) * d <= q * d
      BY <2>1, ProductGrows
    <2>3. (p + 1) * d = p * d + d
      BY <1>1
    <2>4. QED BY <1>1, <2>2, <2>3
  <1>4. QED BY <1>2, <1>3 DEF p

(* A quotient grows with the number.                                        *)
LEMMA QuotientGrows ==
    ASSUME NEW a \in Int, NEW b \in Int, NEW d \in Nat \ {0}, a <= b
    PROVE  a \div d <= b \div d
  <1> DEFINE p == a \div d
  <1>1. p \in Int /\ p * d <= a
    BY QuotientIs, Zenon
  <1> HIDE DEF p
  <1>2. p * d <= b
    BY <1>1
  <1>3. p <= b \div d
    BY <1>1, <1>2, QuotientReaches, Zenon
  <1>4. QED BY <1>3, Zenon DEF p

(* A quotient is q from q times the divisor on, for as many as the divisor. *)
LEMMA QuotientEquals ==
    ASSUME NEW a \in Int, NEW d \in Nat \ {0}, NEW q \in Int
    PROVE  a \div d = q <=> q * d <= a /\ a < q * d + d
  <1> DEFINE p == a \div d
  <1>1. p \in Int
    BY QuotientIs, Zenon
  <1>2. (q <= p <=> q * d <= a) /\ (q + 1 <= p <=> (q + 1) * d <= a)
    <2>1. q + 1 \in Int
      OBVIOUS
    <2> HIDE DEF p
    <2>2. QED BY <2>1, QuotientReaches, Zenon DEF p
  <1> HIDE DEF p
  <1>3. (q + 1) * d = q * d + d
    OBVIOUS
  <1>4. p = q <=> q <= p /\ ~(q + 1 <= p)
    BY <1>1
  <1>5. QED BY <1>2, <1>3, <1>4 DEF p

-----------------------------------------------------------------------------
(* Statistics: what the buckets count are the records, hour by hour, as far *)
(* back as they are kept, and what is on disk counts those that were        *)
(* written.                                                                 *)
Kinds == Stats!Kinds
Value(file, h, k) == IF h \in DOMAIN file THEN file[h][k] ELSE 0

(* What a sum over hours and kinds counts, and the records of some hours.   *)
Units(file, hours, kinds) ==
    {c \in hours \X kinds \X (1 .. MaxRecords) : c[3] <= Value(file, c[1], c[2])}
Of(records, hours, kind) == {r \in records : r.kind = kind /\ r.at \in hours}

\* The values of two files, and of one in which a kind of an hour is raised by one.
Same(f, g, hours, kinds) == \A h \in hours, k \in kinds : Value(g, h, k) = Value(f, h, k)
Raised(f, g, hours, kinds, t, kind) == \A h \in hours, k \in kinds :
    Value(g, h, k) = Value(f, h, k) + (IF h = t /\ k = kind THEN 1 ELSE 0)

Recent(hour) == {h \in Int : h >= hour - KeepDays * DayHours}

Entries(hour) == [n : Nat, at : 0 .. hour, kind : Kinds, safe : BOOLEAN]

(* Records that came to be until some hour, numbered in the order they came.*)
Book(records, hour) ==
    /\ IsFiniteSet(records)
    /\ records \subseteq Entries(hour)
    /\ \A r \in records : r.n <= Cardinality(records)
    /\ \A r, s \in records : r.n = s.n => r = s

(* The buckets of a file count some records.                                *)
Buckets(file, m, hour) ==
    /\ DOMAIN file \subseteq 0 .. hour /\ file = [h \in DOMAIN file |-> file[h]]
    /\ \A h \in DOMAIN file : file[h] \in [Kinds -> 0 .. m]
Counts(file, records, hour) ==
    /\ Buckets(file, Cardinality(records), hour)
    /\ \A hours \in SUBSET Recent(hour), k \in Kinds :
           Cardinality(Units(file, hours, {k})) = Cardinality(Of(records, hours, k))

Saved == {r \in noted : r.safe}
Clocks == clock \in 0 .. LastHour /\ zone \in Zones /\ flush \in BOOLEAN
FileTyped ==
    /\ disk.version \in 1 .. 3
    /\ \A h \in DOMAIN disk.buckets : disk.buckets[h] \in [Kinds -> 0 .. MaxRecords]

(* Together.                                                                *)
StatsInv ==
    /\ Clocks /\ FileTyped /\ Cardinality(noted) <= MaxRecords
    /\ Book(noted, clock) /\ Book(Saved, clock)
    /\ Counts(mem, noted, clock) /\ Counts(Stats!Load(disk), Saved, clock)
    /\ flush \/ mem = Stats!Load(disk)

(* The size of a set is what the statistics take it for.                    *)
LEMMA SizeIs == \A S : Stats!Cardinality(S) = Cardinality(S)
  BY Zenon DEF Stats!Cardinality, Cardinality

(* Triples of finite sets are finitely many.                                *)
LEMMA TriplesFinite ==
    ASSUME NEW A, NEW B, NEW C, IsFiniteSet(A), IsFiniteSet(B), IsFiniteSet(C)
    PROVE  IsFiniteSet(A \X B \X C)
  <1> DEFINE f == [p \in (A \X B) \X C |-> <<p[1][1], p[1][2], p[2]>>]
  <1>1. IsFiniteSet((A \X B) \X C)
    BY FS_Product
  <1>2. f \in Surjection((A \X B) \X C, A \X B \X C)
    <2>1. f \in [(A \X B) \X C -> A \X B \X C]
      OBVIOUS
    <2>2. ASSUME NEW c \in A \X B \X C PROVE \E p \in (A \X B) \X C : f[p] = c
      <3>1. <<<<c[1], c[2]>>, c[3]>> \in (A \X B) \X C
        OBVIOUS
      <3>2. f[<<<<c[1], c[2]>>, c[3]>>] = c
        BY <3>1
      <3>3. QED BY <3>1, <3>2, Zenon
    <2> HIDE DEF f
    <2>3. QED BY <2>1, <2>2, Zenon DEF Surjection
  <1> HIDE DEF f
  <1>3. QED BY <1>1, <1>2, FS_Surjection, Zenon

(* A sum over hours is the number of its units.                             *)
LEMMA UnitsAre ==
    ASSUME NEW file, NEW hours, NEW kinds
    PROVE  Units(file, hours, kinds) =
             {c \in (hours \cap DOMAIN file) \X kinds \X (1 .. MaxRecords) : c[3] <= file[c[1]][c[2]]}
  <1>1. \A i \in 1 .. MaxRecords : ~(i <= 0)
    OBVIOUS
  <1>2. QED BY <1>1 DEF Units, Value

(* A sum over what a file has is finite.                                    *)
LEMMA UnitsFinite ==
    ASSUME NEW file, NEW hours, NEW kinds, IsFiniteSet(DOMAIN file), IsFiniteSet(kinds)
    PROVE  IsFiniteSet(Units(file, hours, kinds)) /\ Cardinality(Units(file, hours, kinds)) \in Nat
  <1>1. IsFiniteSet(hours \cap DOMAIN file)
    BY FS_Subset
  <1>2. IsFiniteSet(1 .. MaxRecords)
    <2>1. 1 \in Int /\ MaxRecords \in Int
      BY StatisticsAssumption
    <2>2. QED BY <2>1, FS_Interval
  <1>3. IsFiniteSet((hours \cap DOMAIN file) \X kinds \X (1 .. MaxRecords))
    BY <1>1, <1>2, TriplesFinite, Zenon
  <1>4. Units(file, hours, kinds) \subseteq (hours \cap DOMAIN file) \X kinds \X (1 .. MaxRecords)
    BY UnitsAre, Zenon
  <1>5. QED BY <1>3, <1>4, FS_Subset, FS_CardinalityType

(* What is shown counts the units of the hours it is about.                 *)
LEMMA TotalIs ==
    ASSUME NEW hours, NEW kinds
    PROVE  Stats!Total(hours \cap DOMAIN mem, kinds) = Cardinality(Units(mem, hours, kinds))
  BY UnitsAre, SizeIs, Zenon DEF Stats!Total

(* What has the same values has the same units.                             *)
LEMMA UnitsSame ==
    ASSUME NEW f, NEW g, NEW hours, NEW kinds, Same(f, g, hours, kinds)
    PROVE  Units(g, hours, kinds) = Units(f, hours, kinds)
  BY DEF Units, Same

(* A value raised by one is one unit more.                                  *)
LEMMA UnitsRaised ==
    ASSUME NEW f, NEW g, NEW hours, NEW kinds, NEW t \in hours, NEW kind \in kinds, NEW m \in 0 .. MaxRecords - 1,
           Raised(f, g, hours, kinds, t, kind), \A h, k : k \in kinds => Value(f, h, k) \in 0 .. m
    PROVE  \E new : /\ Units(g, hours, kinds) = Units(f, hours, kinds) \cup {new}
                    /\ new \notin Units(f, hours, kinds)
  <1> DEFINE v == Value(f, t, kind)
             new == <<t, kind, v + 1>>
             T == hours \X kinds \X (1 .. MaxRecords)
  <1>1. v \in Nat /\ v < MaxRecords /\ Value(g, t, kind) = v + 1
    <2>1. Value(g, t, kind) = v + 1 /\ v \in 0 .. m
      BY Zenon DEF Raised
    <2> HIDE DEF v
    <2>2. QED BY <2>1, StatisticsAssumption
  <1>0. \A h \in hours, k \in kinds : ~(h = t /\ k = kind) => Value(g, h, k) = Value(f, h, k)
    <2> SUFFICES ASSUME NEW h \in hours, NEW k \in kinds, ~(h = t /\ k = kind)
        PROVE  Value(g, h, k) = Value(f, h, k)
      OBVIOUS
    <2>1. Value(g, h, k) = Value(f, h, k) + 0
      BY Zenon DEF Raised
    <2>2. Value(f, h, k) \in 0 .. m
      BY Zenon
    <2>3. QED BY <2>1, <2>2
  <1> HIDE DEF v
  <1>2. v + 1 \in 1 .. MaxRecords /\ new \in T
    BY <1>1, StatisticsAssumption
  <1>3. \A c \in T : c[1] \in hours /\ c[2] \in kinds /\ c[3] \in 1 .. MaxRecords /\ c = <<c[1], c[2], c[3]>>
    OBVIOUS
  <1>4. ASSUME NEW c \in T PROVE c[3] <= Value(g, c[1], c[2]) <=> c[3] <= Value(f, c[1], c[2]) \/ c = new
    <2>1. CASE c[1] = t /\ c[2] = kind
      <3>1. c[3] <= v + 1 <=> c[3] <= v \/ c[3] = v + 1
        BY <1>1, <1>3
      <3>2. c = new <=> c[3] = v + 1
        BY <1>3, <2>1
      <3>3. QED BY <1>1, <2>1, <3>1, <3>2, Zenon DEF v
    <2>2. CASE ~(c[1] = t /\ c[2] = kind)
      <3>1. c # new
        BY <2>2
      <3>2. Value(g, c[1], c[2]) = Value(f, c[1], c[2])
        BY <1>0, <1>3, <2>2, Zenon
      <3>3. QED BY <3>1, <3>2
    <2>3. QED BY <2>1, <2>2, Zenon
  <1>5. Units(g, hours, kinds) = Units(f, hours, kinds) \cup {new}
    <2>1. Units(g, hours, kinds) = {c \in T : c[3] <= Value(g, c[1], c[2])}
      BY Zenon DEF Units
    <2>2. Units(f, hours, kinds) = {c \in T : c[3] <= Value(f, c[1], c[2])}
      BY Zenon DEF Units
    <2> HIDE DEF T, new
    <2>3. QED BY <1>2, <1>4, <2>1, <2>2, Zenon
  <1>6. new \notin Units(f, hours, kinds)
    <2>1. new[1] = t /\ new[2] = kind /\ new[3] = v + 1
      OBVIOUS
    <2>2. ~(v + 1 <= v)
      BY <1>1
    <2> HIDE DEF new
    <2>3. QED BY <2>1, <2>2, Zenon DEF Units, v
  <1>7. QED BY <1>5, <1>6, Zenon

(* Records.  What is noted has the next number.                             *)
LEMMA BookNote ==
    ASSUME NEW hour \in Nat, NEW records, Book(records, hour), NEW r \in Entries(hour), r.n = Cardinality(records) + 1
    PROVE  /\ Book(records \cup {r}, hour) /\ Cardinality(records) \in Nat
           /\ r \notin records /\ Cardinality(records \cup {r}) = Cardinality(records) + 1
  <1> DEFINE m == Cardinality(records)
             R == Entries(hour)
  <1>1. m \in Nat /\ IsFiniteSet(records)
    BY FS_CardinalityType DEF Book
  <1> HIDE DEF m
  <1>2. r.n = m + 1 /\ r \in R
    BY Zenon DEF Entries, m
  <1>3. \A s \in records : s \in R /\ s.n \in Nat /\ s.n <= m
    <2>1. \A s \in records : s \in R /\ s.n <= m
      BY Zenon DEF Book, m
    <2>2. \A s \in R : s.n \in Nat
      BY DEF Entries
    <2>3. QED BY <2>1, <2>2, Zenon
  <1>4. \A s \in records : s.n # r.n /\ s.n <= m + 1
    BY <1>1, <1>2, <1>3
  <1>5. r \notin records
    BY <1>4, Zenon
  <1>6. IsFiniteSet(records \cup {r}) /\ Cardinality(records \cup {r}) = m + 1
    BY <1>1, <1>5, FS_AddElement DEF m
  <1>7. \A s \in records \cup {r} : s.n <= Cardinality(records \cup {r})
    <2>1. \A s \in records \cup {r} : s.n <= m + 1
      BY <1>1, <1>2, <1>4
    <2>2. QED BY <1>6, <2>1, Zenon
  <1>8. \A s, u \in records \cup {r} : s.n = u.n => s = u
    BY <1>4, Zenon DEF Book
  <1>9. records \cup {r} \subseteq R
    BY <1>2, <1>3, Zenon
  <1>10. Book(records \cup {r}, hour)
    BY <1>6, <1>7, <1>8, <1>9, Zenon DEF Book
  <1>11. QED BY <1>1, <1>5, <1>6, <1>10, Zenon DEF m

(* What is written keeps number, hour and kind.                             *)
LEMMA SafeKeeps ==
    ASSUME NEW hour, NEW records, Book(records, hour)
    PROVE  \A r \in records : LET s == [r EXCEPT !.safe = TRUE]
             IN  s.n = r.n /\ s.at = r.at /\ s.kind = r.kind /\ s.safe
                 /\ s \in Entries(hour)
  <1> TAKE r \in records
  <1>1. r \in Entries(hour)
    BY Zenon DEF Book
  <1>2. QED BY <1>1 DEF Entries

(* So it is as many records, of each hour and kind.                         *)
LEMMA SafeAsMany ==
    ASSUME NEW hour, NEW records, Book(records, hour), NEW part1 \in SUBSET records
    PROVE  Cardinality(Stats!AllSafe(part1)) = Cardinality(part1)
  <1> DEFINE f == [r \in part1 |-> [r EXCEPT !.safe = TRUE]]
             T == Stats!AllSafe(part1)
  <1>1. T = {f[r] : r \in part1}
    BY Zenon DEF Stats!AllSafe
  <1>2. IsFiniteSet(part1)
    BY FS_Subset, Zenon DEF Book
  <1>3. ASSUME NEW r \in part1, NEW s \in part1, f[r] = f[s] PROVE r = s
    <2>1. f[r] = [r EXCEPT !.safe = TRUE] /\ f[s] = [s EXCEPT !.safe = TRUE]
      OBVIOUS
    <2>2. f[r].n = r.n /\ f[s].n = s.n
      <3>1. r \in records /\ s \in records
        OBVIOUS
      <3>2. [r EXCEPT !.safe = TRUE].n = r.n /\ [s EXCEPT !.safe = TRUE].n = s.n
        BY <3>1, SafeKeeps
      <3>3. QED BY <2>1, <3>2, Zenon
    <2>3. r.n = s.n
      BY <1>3, <2>2, Zenon
    <2>4. QED BY <2>3, Zenon DEF Book
  <1>4. f \in [part1 -> T]
    BY <1>1, Zenon
  <1>5. f \in Bijection(part1, T)
    <2> DEFINE g == f
    <2>1. \A t \in T : \E r \in part1 : g[r] = t
      BY <1>1, Zenon
    <2>2. g \in [part1 -> T] /\ \A r, s \in part1 : g[r] = g[s] => r = s
      BY <1>3, <1>4, Zenon
    <2> HIDE DEF g, T
    <2>3. g \in Injection(part1, T) /\ g \in Surjection(part1, T)
      BY <2>1, <2>2, Zenon DEF Injection, IsInjective, Surjection
    <2>4. QED BY <2>3, Zenon DEF Bijection, g
  <1> HIDE DEF f, T
  <1>6. Cardinality(T) = Cardinality(part1)
    BY <1>2, <1>5, FS_Bijection, Zenon DEF ExistsBijection
  <1>7. QED BY <1>6, Zenon DEF T

(* Written records are as many, of every range of hours and every kind.     *)
LEMMA BookSafe ==
    ASSUME NEW hour, NEW records, Book(records, hour)
    PROVE  LET all == Stats!AllSafe(records)
           IN  /\ Book(all, hour) /\ Cardinality(all) = Cardinality(records)
               /\ {r \in all : r.safe} = all
               /\ \A hours, k : Cardinality(Of(all, hours, k)) = Cardinality(Of(records, hours, k))
  <1> DEFINE all == Stats!AllSafe(records)
             R == Entries(hour)
  <1>1. all = {[r EXCEPT !.safe = TRUE] : r \in records}
    BY Zenon DEF Stats!AllSafe
  <1>2. \A s \in all : \E r \in records : s = [r EXCEPT !.safe = TRUE] /\ s.n = r.n /\ s.at = r.at /\ s.kind = r.kind /\ s.safe
                                         /\ s \in R
    <2> SUFFICES ASSUME NEW r \in records, NEW s, s = [r EXCEPT !.safe = TRUE]
        PROVE  s.n = r.n /\ s.at = r.at /\ s.kind = r.kind /\ s.safe /\ s \in R
      BY <1>1, Zenon
    <2>1. QED BY SafeKeeps, Zenon
  <1>3. Cardinality(all) = Cardinality(records)
    BY SafeAsMany, Zenon
  <1>4. IsFiniteSet(all)
    <2> DEFINE f == [r \in records |-> [r EXCEPT !.safe = TRUE]]
    <2>1. f \in Surjection(records, all)
      BY <1>1, Zenon DEF Surjection
    <2> HIDE DEF f, all
    <2>2. QED BY <2>1, FS_Surjection, Zenon DEF Book
  <1>5. \A s, u \in all : s.n = u.n => s = u
    <2> SUFFICES ASSUME NEW s \in all, NEW u \in all, s.n = u.n PROVE s = u
      OBVIOUS
    <2> HIDE DEF all
    <2>1. PICK r \in records : s = [r EXCEPT !.safe = TRUE] /\ s.n = r.n
      BY <1>2, Zenon
    <2>2. PICK q \in records : u = [q EXCEPT !.safe = TRUE] /\ u.n = q.n
      BY <1>2, Zenon
    <2>3. r = q
      BY <2>1, <2>2, Zenon DEF Book
    <2>4. QED BY <2>1, <2>2, <2>3, Zenon
  <1>6. \A s \in all : s.n <= Cardinality(all)
    <2> HIDE DEF all
    <2>1. QED BY <1>2, <1>3, Zenon DEF Book
  <1>7. all \subseteq R /\ {r \in all : r.safe} = all
    <2> HIDE DEF all, R
    <2>1. QED BY <1>2, Zenon
  <1>8. Book(all, hour)
    <2> HIDE DEF all
    <2>1. QED BY <1>4, <1>5, <1>6, <1>7, Zenon DEF Book
  <1>9. ASSUME NEW hours, NEW k PROVE Cardinality(Of(all, hours, k)) = Cardinality(Of(records, hours, k))
    <2> DEFINE P == Of(records, hours, k)
    <2>1. Of(all, hours, k) = Stats!AllSafe(P)
      <3>1. ASSUME NEW s \in Of(all, hours, k) PROVE s \in Stats!AllSafe(P)
        <4>1. s \in all /\ s.kind = k /\ s.at \in hours
          BY Zenon DEF Of
        <4> HIDE DEF all
        <4>2. PICK r \in records : s = [r EXCEPT !.safe = TRUE] /\ s.at = r.at /\ s.kind = r.kind
          BY <1>2, <4>1, Zenon
        <4>3. r \in P
          BY <4>1, <4>2, Zenon DEF Of
        <4>4. QED BY <4>2, <4>3, Zenon DEF Stats!AllSafe
      <3>2. ASSUME NEW s \in Stats!AllSafe(P) PROVE s \in Of(all, hours, k)
        <4>1. PICK r \in P : s = [r EXCEPT !.safe = TRUE]
          BY <3>2, Zenon DEF Stats!AllSafe
        <4>2. r \in records /\ r.kind = k /\ r.at \in hours
          BY <4>1, Zenon DEF Of
        <4>3. s \in all
          BY <1>1, <4>1, <4>2, Zenon
        <4>4. s.at = r.at /\ s.kind = r.kind
          BY <4>1, <4>2, SafeKeeps, Zenon
        <4> HIDE DEF all
        <4>5. QED BY <4>2, <4>3, <4>4, Zenon DEF Of
      <3>3. QED BY <3>1, <3>2, Zenon
    <2>2. P \in SUBSET records
      BY Zenon DEF Of
    <2> HIDE DEF all, P
    <2>3. Cardinality(Stats!AllSafe(P)) = Cardinality(P)
      BY <2>2, SafeAsMany, Zenon
    <2>4. QED BY <2>1, <2>3, Zenon DEF P
  <1>10. QED BY <1>3, <1>7, <1>8, <1>9, Zenon

(* Buckets.  A record raises its hour by one of its kind, and what is       *)
(* trimmed was older than what is kept.                                     *)
LEMMA CountedIs ==
    ASSUME NEW m \in Nat, clock \in Nat, Buckets(mem, m, clock), NEW t \in 0 .. clock, NEW kind \in Kinds,
           NEW next, next = Stats!Counted(t, kind)
    PROVE  /\ Buckets(next, m + 1, clock)
           /\ Raised(mem, next, Recent(t), Kinds, t, kind)
  <1> DEFINE kept1 == Stats!Trim(mem, t)
             old == IF t \in DOMAIN kept1 THEN kept1[t] ELSE Stats!Empty
             raised == [old EXCEPT ![kind] = @ + 1]
  <1>1. next = [h \in DOMAIN kept1 \cup {t} |-> IF h = t THEN raised ELSE kept1[h]]
    BY Zenon DEF Stats!Counted
  <1>2. /\ DOMAIN mem \subseteq 0 .. clock /\ \A h \in DOMAIN mem : mem[h] \in [Kinds -> 0 .. m]
    BY Zenon DEF Buckets
  <1>3. /\ DOMAIN kept1 = {h \in DOMAIN mem : h >= t - KeepDays * DayHours}
        /\ \A h \in DOMAIN kept1 : kept1[h] = mem[h]
    BY Zenon DEF Stats!Trim, Stats!Restrict
  <1>4. t \in Int /\ t >= t - KeepDays * DayHours
    <2>1. KeepDays * DayHours \in Nat
      BY StatisticsAssumption
    <2> DEFINE span == KeepDays * DayHours
    <2> HIDE DEF span
    <2>2. span \in Nat
      BY <2>1, Zenon DEF span
    <2>3. t >= t - span
      BY <2>2
    <2>4. QED BY <2>3 DEF span
  <1>5. t \in DOMAIN kept1 <=> t \in DOMAIN mem
    BY <1>3, <1>4, Zenon
  <1>6. /\ old \in [Kinds -> 0 .. m] /\ \A k \in Kinds : old[k] = Value(mem, t, k)
    <2>1. CASE t \in DOMAIN mem
      <3>1. old = mem[t]
        BY <1>3, <1>5, <2>1, Zenon
      <3>2. QED BY <1>2, <2>1, <3>1, Zenon DEF Value
    <2>2. CASE t \notin DOMAIN mem
      <3>1. old = [k \in Kinds |-> 0]
        BY <1>5, <2>2, Zenon DEF Stats!Empty, Kinds
      <3>2. 0 \in 0 .. m
        OBVIOUS
      <3>3. QED BY <2>2, <3>1, <3>2, Zenon DEF Value
    <2>3. QED BY <2>1, <2>2, Zenon
  <1> HIDE DEF old
  <1>7. /\ raised \in [Kinds -> 0 .. m + 1]
        /\ \A k \in Kinds : raised[k] = old[k] + (IF k = kind THEN 1 ELSE 0)
    BY <1>6
  <1> HIDE DEF raised, kept1
  <1>8. DOMAIN next = DOMAIN kept1 \cup {t} /\ next[t] = raised /\ \A h \in DOMAIN kept1 : h # t => next[h] = mem[h]
    BY <1>1, <1>3, Zenon
  <1>9. \A f \in [Kinds -> 0 .. m] : f \in [Kinds -> 0 .. m + 1]
    OBVIOUS
  <1>10. Buckets(next, m + 1, clock)
    <2>1. DOMAIN next \subseteq 0 .. clock
      BY <1>2, <1>3, <1>8, Zenon
    <2>2. \A h \in DOMAIN next : next[h] \in [Kinds -> 0 .. m + 1]
      BY <1>2, <1>3, <1>7, <1>8, <1>9, Zenon
    <2>3. next = [h \in DOMAIN next |-> next[h]]
      BY <1>1, Zenon
    <2>4. QED BY <2>1, <2>2, <2>3, Zenon DEF Buckets
  <1>11. ASSUME NEW h \in Recent(t), NEW k \in Kinds
         PROVE  Value(next, h, k) = Value(mem, h, k) + (IF h = t /\ k = kind THEN 1 ELSE 0)
    <2>1. CASE h = t
      <3>1. Value(next, h, k) = raised[k]
        BY <1>8, <2>1, Zenon DEF Value
      <3>2. raised[k] = Value(mem, h, k) + (IF k = kind THEN 1 ELSE 0)
        BY <1>6, <1>7, <2>1, Zenon
      <3>3. QED BY <2>1, <3>1, <3>2, Zenon
    <2>2. CASE h # t
      <3>1. h \in DOMAIN next <=> h \in DOMAIN mem
        BY <1>3, <1>8, <2>2, Zenon DEF Recent
      <3>2. Value(next, h, k) = Value(mem, h, k)
        BY <1>3, <1>8, <2>2, <3>1, Zenon DEF Value
      <3>3. Value(mem, h, k) \in Int
        <4>1. CASE h \in DOMAIN mem
          BY <1>2, <4>1 DEF Value
        <4>2. CASE h \notin DOMAIN mem
          BY <4>2 DEF Value
        <4>3. QED BY <4>1, <4>2
      <3>4. QED BY <2>2, <3>2, <3>3
    <2>3. QED BY <2>1, <2>2, Zenon
  <1>12. QED BY <1>10, <1>11, Zenon DEF Raised

(* No value is larger than the bound of its file.                           *)
LEMMA ValueBound ==
    ASSUME NEW m \in Nat, NEW file, NEW hour, Buckets(file, m, hour), NEW h, NEW k \in Kinds
    PROVE  Value(file, h, k) \in 0 .. m
  <1>1. CASE h \in DOMAIN file
    <2>1. file[h] \in [Kinds -> 0 .. m]
      BY <1>1, Zenon DEF Buckets
    <2>2. QED BY <1>1, <2>1, Zenon DEF Value
  <1>2. CASE h \notin DOMAIN file
    <2>1. 0 \in 0 .. m
      OBVIOUS
    <2>2. QED BY <1>2, <2>1, Zenon DEF Value
  <1>3. QED BY <1>1, <1>2, Zenon

(* A file has finitely many hours.                                          *)
LEMMA BucketsFinite ==
    ASSUME NEW m, NEW file, NEW hour \in Nat, Buckets(file, m, hour)
    PROVE  IsFiniteSet(DOMAIN file)
  <1>1. 0 \in Int /\ hour \in Int
    OBVIOUS
  <1>2. IsFiniteSet(0 .. hour)
    BY <1>1, FS_Interval, Zenon
  <1>3. QED BY <1>2, FS_Subset, Zenon DEF Buckets

(* A record counts once, in every range of hours it belongs to.             *)
LEMMA CountsNote ==
    ASSUME clock \in Nat, Book(noted, clock), Counts(mem, noted, clock), Cardinality(noted) < MaxRecords,
           NEW t \in 0 .. clock, t \in Recent(clock), NEW kind \in Kinds,
           NEW next, next = Stats!Counted(t, kind), NEW r, r \notin noted, r.at = t, r.kind = kind,
           Cardinality(noted \cup {r}) = Cardinality(noted) + 1
    PROVE  Counts(next, noted \cup {r}, clock)
  <1> DEFINE m == Cardinality(noted)
             all == noted \cup {r}
  <1>1. m \in Nat /\ IsFiniteSet(noted) /\ m < MaxRecords
    BY FS_CardinalityType DEF Book
  <1>2. Buckets(mem, m, clock)
    BY Zenon DEF Counts
  <1>3. /\ Buckets(next, m + 1, clock)
        /\ Raised(mem, next, Recent(t), Kinds, t, kind)
    <2> HIDE DEF m
    <2>1. QED BY <1>1, <1>2, CountedIs, Zenon
  <1>4. Recent(clock) \subseteq Recent(t)
    <2> DEFINE span == KeepDays * DayHours
    <2>1. span \in Nat
      BY StatisticsAssumption
    <2> HIDE DEF span
    <2>2. \A h \in Int : h >= clock - span => h >= t - span
      BY <2>1
    <2>3. QED BY <2>2, Zenon DEF Recent, span
  <1>5. ASSUME NEW hours \in SUBSET Recent(clock), NEW k \in Kinds
        PROVE  Cardinality(Units(next, hours, {k})) = Cardinality(Of(all, hours, k))
    <2>1. Cardinality(Units(mem, hours, {k})) = Cardinality(Of(noted, hours, k))
      BY <1>5, Zenon DEF Counts
    <2>2. CASE t \in hours /\ k = kind
      <3> DEFINE U == Units(mem, hours, {k})
                 V == Units(next, hours, {k})
                 O == Of(noted, hours, k)
      <3>1. m \in 0 .. MaxRecords - 1
        <4> HIDE DEF m
        <4>1. QED BY <1>1, StatisticsAssumption
      <3>2. Raised(mem, next, hours, {k}, t, k)
        BY <1>3, <1>4, <2>2, Zenon DEF Raised
      <3>3. \A h, x : x \in {k} => Value(mem, h, x) \in 0 .. m
        <4> HIDE DEF m
        <4>1. QED BY <1>1, <1>2, ValueBound, Zenon
      <3>4. PICK new : V = U \cup {new} /\ new \notin U
        <4> DEFINE ks == {k}
        <4>1. k \in ks
          OBVIOUS
        <4> HIDE DEF m, ks
        <4>2. QED BY <2>2, <3>1, <3>2, <3>3, <4>1, UnitsRaised, Zenon DEF ks
      <3>5. IsFiniteSet(U) /\ Cardinality(U) \in Nat
        <4>1. IsFiniteSet(DOMAIN mem) /\ IsFiniteSet({k})
          BY <1>2, BucketsFinite, FS_Singleton, Zenon
        <4>2. QED BY <4>1, UnitsFinite, Zenon
      <3>6. Of(all, hours, k) = O \cup {r} /\ r \notin O
        BY <2>2, Zenon DEF Of
      <3>7. IsFiniteSet(O)
        <4>1. O \subseteq noted
          BY Zenon DEF Of
        <4> HIDE DEF O
        <4>2. QED BY <1>1, <4>1, FS_Subset, Zenon
      <3> HIDE DEF U, V, O, all
      <3>8. Cardinality(V) = Cardinality(U) + 1
        BY <3>4, <3>5, FS_AddElement, Zenon
      <3>9. Cardinality(Of(all, hours, k)) = Cardinality(O) + 1
        BY <3>6, <3>7, FS_AddElement, Zenon
      <3>10. QED BY <2>1, <3>8, <3>9, Zenon DEF U, V, O
    <2>3. CASE ~(t \in hours /\ k = kind)
      <3>1. Same(mem, next, hours, {k})
        <4> SUFFICES ASSUME NEW h \in hours PROVE Value(next, h, k) = Value(mem, h, k)
          BY Zenon DEF Same
        <4>1. Value(next, h, k) = Value(mem, h, k) + 0
          BY <1>3, <1>4, <2>3, Zenon DEF Raised
        <4>2. Value(mem, h, k) \in 0 .. m
          BY <1>1, <1>2, ValueBound, Zenon
        <4>3. QED BY <1>1, <4>1, <4>2
      <3>2. Units(next, hours, {k}) = Units(mem, hours, {k})
        <4> DEFINE ks == {k}
        <4>1. Same(mem, next, hours, ks)
          BY <3>1
        <4> HIDE DEF ks
        <4>2. Units(next, hours, ks) = Units(mem, hours, ks)
          BY <4>1, UnitsSame
        <4>3. QED BY <4>2, Zenon DEF ks
      <3>3. Of(all, hours, k) = Of(noted, hours, k)
        BY <2>3, Zenon DEF Of
      <3>4. QED BY <2>1, <3>2, <3>3, Zenon
    <2>4. QED BY <2>2, <2>3, Zenon
  <1>6. QED BY <1>3, <1>5, Zenon DEF Counts

(* An hour later the same holds, of less.                                   *)
LEMMA Later ==
    ASSUME NEW hour \in Nat, NEW records, Book(records, hour), NEW file, Counts(file, records, hour)
    PROVE  Book(records, hour + 1) /\ Counts(file, records, hour + 1)
  <1>1. 0 .. hour \subseteq 0 .. hour + 1
    OBVIOUS
  <1>2. Recent(hour + 1) \subseteq Recent(hour)
    <2> DEFINE span == KeepDays * DayHours
    <2>1. span \in Nat
      BY StatisticsAssumption
    <2> HIDE DEF span
    <2>2. \A h \in Int : h >= (hour + 1) - span => h >= hour - span
      BY <2>1
    <2>3. Recent(hour) = {h \in Int : h >= hour - span} /\ Recent(hour + 1) = {h \in Int : h >= (hour + 1) - span}
      BY Zenon DEF Recent, span
    <2>4. QED BY <2>2, <2>3, Zenon
  <1>3. Entries(hour) \subseteq Entries(hour + 1)
    BY <1>1 DEF Entries
  <1>4. Book(records, hour + 1)
    BY <1>3, Zenon DEF Book
  <1>5. Buckets(file, Cardinality(records), hour + 1)
    BY <1>1, Zenon DEF Counts, Buckets
  <1>6. Counts(file, records, hour + 1)
    BY <1>2, <1>5, Zenon DEF Counts
  <1>7. QED BY <1>4, <1>6

(* What is written counts as before.                                        *)
LEMMA CountsSafe ==
    ASSUME NEW hour, NEW records, Book(records, hour), NEW file, Counts(file, records, hour)
    PROVE  Counts(file, Stats!AllSafe(records), hour)
  <1> DEFINE all == Stats!AllSafe(records)
  <1>1. Cardinality(all) = Cardinality(records) /\ \A hours, k : Cardinality(Of(all, hours, k)) = Cardinality(Of(records, hours, k))
    BY BookSafe, Zenon
  <1> HIDE DEF all
  <1>2. Counts(file, all, hour)
    BY <1>1, Zenon DEF Counts
  <1>3. QED BY <1>2, Zenon DEF all

(* What is written is what is read.                                         *)
LEMMA LoadWritten ==
    ASSUME NEW file, file = [h \in DOMAIN file |-> file[h]]
    PROVE  Stats!Load(Stats!Written(file)) = file
  <1>1. Stats!Written(file).version = 3 /\ Stats!Written(file).buckets = file /\ 3 # 1
    BY DEF Stats!Written
  <1>2. QED BY <1>1, Zenon DEF Stats!Load

(* What is shown never ended before today began: a bar is of local days.    *)
LEMMA StartIs ==
    ASSUME Clocks, NEW day \in Int
    PROVE  /\ Stats!DayOf(clock) \in Int /\ Stats!StartOfDay(day) \in Int
           /\ Stats!StartOfDay(day) + zone = (Stats!DayOf(clock) - day) * DayHours
           /\ Stats!DayOf(Stats!StartOfDay(day)) = Stats!DayOf(clock) - day
           /\ \A h \in Int : Stats!DayOf(h) \in Int
                 /\ (h >= Stats!StartOfDay(day) <=> Stats!DayOf(h) >= Stats!DayOf(clock) - day)
  <1> DEFINE d == Stats!DayOf(clock) - day
             start == Stats!StartOfDay(day)
  <1>1. clock \in Int /\ zone \in Int /\ DayHours \in Nat \ {0}
    BY StatisticsAssumption DEF Clocks
  <1>2. \A h \in Int : Stats!DayOf(h) = (h + zone) \div DayHours /\ h + zone \in Int /\ Stats!DayOf(h) \in Int
    <2> SUFFICES ASSUME NEW h \in Int PROVE h + zone \in Int /\ (h + zone) \div DayHours \in Int
      BY Zenon DEF Stats!DayOf
    <2>1. h + zone \in Int
      BY <1>1
    <2>2. QED BY <1>1, <2>1, QuotientIs, Zenon
  <1>3. d \in Int
    <2>1. Stats!DayOf(clock) \in Int
      BY <1>1, <1>2, Zenon
    <2>2. QED BY <2>1
  <1>4. start = d * DayHours - zone
    BY Zenon DEF Stats!StartOfDay
  <1> HIDE DEF d, start
  <1>5. start \in Int /\ start + zone = d * DayHours /\ d * DayHours \in Int
    BY <1>1, <1>3, <1>4
  <1>6. Stats!DayOf(start) = d
    <2>1. d * DayHours <= start + zone /\ start + zone < d * DayHours + DayHours
      BY <1>1, <1>5
    <2>2. (start + zone) \div DayHours = d
      BY <1>1, <1>2, <1>3, <1>5, <2>1, QuotientEquals, Zenon
    <2>3. QED BY <1>2, <1>5, <2>2, Zenon
  <1>7. ASSUME NEW h \in Int PROVE h >= start <=> Stats!DayOf(h) >= d
    <2> DEFINE e == Stats!DayOf(h)
    <2>1. e \in Int /\ h + zone \in Int /\ e = (h + zone) \div DayHours
      BY <1>2, Zenon
    <2> HIDE DEF e
    <2>2. d <= e <=> d * DayHours <= h + zone
      BY <1>1, <1>3, <2>1, QuotientReaches, Zenon
    <2>3. d * DayHours <= h + zone <=> start <= h
      BY <1>1, <1>5
    <2>4. (h >= start <=> start <= h) /\ (e >= d <=> d <= e)
      BY <1>3, <1>5, <2>1
    <2>5. QED BY <2>2, <2>3, <2>4, Zenon DEF e
  <1>8. Stats!DayOf(clock) \in Int
    BY <1>1, <1>2, Zenon
  <1>9. QED BY <1>2, <1>5, <1>6, <1>7, <1>8, Zenon DEF d, start

(* A day that is shown is still kept.                                       *)
LEMMA ShownIsKept ==
    ASSUME Clocks, NEW day \in 0 .. KeepDays - 1, NEW h \in Int, h >= Stats!StartOfDay(day)
    PROVE  h \in Recent(clock)
  <1> DEFINE d == Stats!DayOf(clock)
             span == KeepDays * DayHours
  <1>1. clock \in Int /\ zone \in Int /\ DayHours \in Nat \ {0} /\ KeepDays \in Nat /\ day \in Int /\ clock + zone \in Int
    BY StatisticsAssumption DEF Clocks
  <1>2. d \in Int /\ clock + zone < d * DayHours + DayHours
    <2>1. d = (clock + zone) \div DayHours
      BY Zenon DEF Stats!DayOf
    <2> HIDE DEF d
    <2>2. QED BY <1>1, <2>1, QuotientIs, Zenon
  <1>3. Stats!StartOfDay(day) = (d - day) * DayHours - zone
    BY Zenon DEF Stats!StartOfDay
  <1> HIDE DEF d
  <1>4. (d - day) * DayHours = d * DayHours - day * DayHours
    BY <1>1, <1>2
  <1>5. (day + 1) * DayHours = day * DayHours + DayHours
    BY <1>1
  <1>6. (day + 1) * DayHours <= span
    <2>1. day + 1 \in Int /\ KeepDays \in Int /\ day + 1 <= KeepDays /\ DayHours \in Nat
      BY <1>1
    <2>2. QED BY <2>1, ProductGrows
  <1>7. span \in Int /\ day * DayHours \in Int /\ d * DayHours \in Int
    BY <1>1, <1>2
  <1> DEFINE p == d * DayHours
             q == day * DayHours
  <1> HIDE DEF span, p, q
  <1>8. h >= p - q - zone /\ clock + zone < p + DayHours /\ q + DayHours <= span /\ p \in Int /\ q \in Int /\ span \in Int
    BY <1>1, <1>2, <1>3, <1>4, <1>5, <1>6, <1>7 DEF p, q
  <1>9. h >= clock - span
    BY <1>1, <1>8
  <1>10. QED BY <1>9, Zenon DEF Recent, span

(* Every bar is what was recorded on its days.                              *)
LEMMA BarsAre ==
    ASSUME StatsInv
    PROVE  Stats!BarsAreDays
  <1> SUFFICES ASSUME NEW range \in {"week", "month"}, NEW kind \in Kinds, NEW width, NEW bars,
                      width = (IF range = "week" THEN 1 ELSE MonthStep),
                      NEW i \in 0 .. bars - 1
               PROVE  Stats!Bar(range, i, kind) = Stats!NotedIn(Stats!DayOf(Stats!Start(range)) + i * width, width, kind)
    BY Zenon DEF Stats!BarsAreDays, Kinds
  <1> DEFINE first1 == Stats!DayOf(Stats!Start(range))
             low == first1 + i * width
             hours == {h \in Int : h <= clock /\ Stats!DayOf(h) \in low .. (low + width - 1)}
  <1>1. Clocks /\ Book(noted, clock) /\ Counts(mem, noted, clock)
    BY Zenon DEF StatsInv
  <1>2. PICK day \in 0 .. KeepDays - 1 : Stats!Start(range) = Stats!StartOfDay(day)
    <2>1. WeekDays - 1 \in 0 .. KeepDays - 1 /\ MonthDays - 1 \in 0 .. KeepDays - 1
      BY StatisticsAssumption
    <2>2. "week" # "day" /\ "month" # "day" /\ "month" # "week"
      OBVIOUS
    <2>3. CASE range = "week"
      <3>1. Stats!Start(range) = Stats!StartOfDay(WeekDays - 1)
        BY <2>2, <2>3, Zenon DEF Stats!Start
      <3>2. QED BY <2>1, <3>1, Zenon
    <2>4. CASE range = "month"
      <3>1. Stats!Start(range) = Stats!StartOfDay(MonthDays - 1)
        BY <2>2, <2>4, Zenon DEF Stats!Start
      <3>2. QED BY <2>1, <3>1, Zenon
    <2>5. QED BY <2>3, <2>4, Zenon
  <1>3. /\ width \in Nat \ {0} /\ i \in Int /\ i >= 0 /\ i * width \in Int /\ i * width >= 0
    <2>1. width \in Nat \ {0} /\ i \in Nat
      BY StatisticsAssumption
    <2>2. 0 * width <= i * width /\ i * width \in Int
      BY <2>1, ProductGrows
    <2>3. QED BY <2>1, <2>2
  <1>4. /\ first1 \in Int
        /\ \A h \in Int : Stats!DayOf(h) \in Int /\ (h >= Stats!Start(range) <=> Stats!DayOf(h) >= first1)
    <2>1. day \in Int
      OBVIOUS
    <2>2. Stats!DayOf(clock) \in Int /\ first1 = Stats!DayOf(clock) - day
      BY <1>1, <1>2, <2>1, StartIs, Zenon
    <2>3. \A h \in Int : Stats!DayOf(h) \in Int /\ (h >= Stats!Start(range) <=> Stats!DayOf(h) >= Stats!DayOf(clock) - day)
      BY <1>1, <1>2, <2>1, StartIs, Zenon
    <2> HIDE DEF first1
    <2>4. first1 \in Int
      BY <2>1, <2>2
    <2>5. QED BY <2>2, <2>3, <2>4, Zenon
  <1>5. \A h \in Int : /\ Stats!DayOf(h) >= first1 /\ Stats!BarOf(range, h) = i
                         <=> Stats!DayOf(h) \in low .. (low + width - 1)
    <2> SUFFICES ASSUME NEW h \in Int
        PROVE  Stats!DayOf(h) >= first1 /\ Stats!BarOf(range, h) = i <=> Stats!DayOf(h) \in low .. (low + width - 1)
      OBVIOUS
    <2> DEFINE d == Stats!DayOf(h)
    <2>1. Stats!BarOf(range, h) = (d - first1) \div width
      BY Zenon DEF Stats!BarOf
    <2>2. d \in Int
      BY <1>4, Zenon
    <2> HIDE DEF d, first1
    <2>3. d - first1 \in Int /\ low \in Int
      BY <1>3, <1>4, <2>2
    <2>4. (d - first1) \div width = i <=> i * width <= d - first1 /\ d - first1 < i * width + width
      BY <1>3, <2>3, QuotientEquals, Zenon
    <2> DEFINE p == i * width
    <2> HIDE DEF p
    <2>5. p \in Int /\ p >= 0 /\ ((d - first1) \div width = i <=> p <= d - first1 /\ d - first1 < p + width) /\ low = first1 + p
      BY <1>3, <2>4 DEF p
    <2> HIDE DEF low
    <2>6. d >= first1 /\ p <= d - first1 /\ d - first1 < p + width <=> d \in low .. (low + width - 1)
      BY <1>3, <1>4, <2>2, <2>5
    <2>7. QED BY <2>1, <2>5, <2>6, Zenon DEF d
  <1>6. {h \in Stats!Shown(range) : Stats!BarOf(range, h) = i} = hours \cap DOMAIN mem
    <2>1. DOMAIN mem \subseteq 0 .. clock
      BY <1>1, Zenon DEF Counts, Buckets
    <2>2. clock \in Int
      BY <1>1 DEF Clocks
    <2>3. \A h \in DOMAIN mem : h \in Int /\ h <= clock /\ h < clock + 1
      BY <2>1, <2>2
    <2>4. Stats!Shown(range) = {h \in DOMAIN mem : h >= Stats!Start(range) /\ h < clock + 1}
      BY Zenon DEF Stats!Shown, Stats!Between
    <2> HIDE DEF low, first1
    <2>5. QED BY <1>4, <1>5, <2>3, <2>4, Zenon
  <1>7. hours \in SUBSET Recent(clock)
    <2> SUFFICES ASSUME NEW h \in hours PROVE h \in Recent(clock)
      BY Zenon
    <2> HIDE DEF low, first1
    <2>1. h \in Int /\ h >= Stats!Start(range)
      BY <1>4, <1>5, Zenon
    <2>2. QED BY <1>1, <1>2, <2>1, ShownIsKept, Zenon
  <1>8. Stats!Bar(range, i, kind) = Cardinality(Units(mem, hours, {kind}))
    <2> HIDE DEF hours
    <2>1. QED BY <1>6, TotalIs, Zenon DEF Stats!Bar
  <1>9. Cardinality(Units(mem, hours, {kind})) = Cardinality(Of(noted, hours, kind))
    <2> HIDE DEF hours
    <2>1. QED BY <1>1, <1>7, Zenon DEF Counts
  <1>10. Of(noted, hours, kind) = {r \in noted : r.kind = kind /\ Stats!DayOf(r.at) \in low .. (low + width - 1) /\ r.at <= clock}
    <2>1. \A r \in noted : r.at \in Int
      <3>1. noted \subseteq Entries(clock)
        BY <1>1, Zenon DEF Book
      <3>2. \A r \in Entries(clock) : r.at \in Int
        BY DEF Entries
      <3>3. QED BY <3>1, <3>2, Zenon
    <2> HIDE DEF low
    <2>2. QED BY <2>1, Zenon DEF Of
  <1> HIDE DEF hours, low
  <1>11. Stats!NotedIn(low, width, kind) = Cardinality(Of(noted, hours, kind))
    BY <1>10, SizeIs, Zenon DEF Stats!NotedIn
  <1>12. QED BY <1>8, <1>9, <1>11, Zenon DEF low

(* The invariant says what the run checks.                                  *)
LEMMA StatsInvSafe == StatsInv => Stats!StatisticsSafe
  <1> SUFFICES ASSUME StatsInv PROVE Stats!StatisticsSafe
    OBVIOUS
  <1>1. Clocks /\ FileTyped /\ Cardinality(noted) <= MaxRecords /\ Cardinality(noted) \in Nat
    BY FS_CardinalityType, Zenon DEF StatsInv, Book
  <1>2. \A h \in DOMAIN mem : mem[h] \in [Kinds -> 0 .. MaxRecords]
    <2>1. \A h \in DOMAIN mem : mem[h] \in [Kinds -> 0 .. Cardinality(noted)]
      BY Zenon DEF StatsInv, Counts, Buckets
    <2> DEFINE m == Cardinality(noted)
    <2>2. m <= MaxRecords /\ m \in Nat
      BY <1>1
    <2> HIDE DEF m
    <2>3. \A f \in [Kinds -> 0 .. m] : f \in [Kinds -> 0 .. MaxRecords]
      BY <2>2, StatisticsAssumption
    <2>4. QED BY <2>1, <2>3, Zenon DEF m
  <1>3. Stats!TypeOK
    BY <1>1, <1>2, Zenon DEF Stats!TypeOK, Clocks, FileTyped, Kinds
  <1>4. Stats!UnsavedIsScheduled
    BY Zenon DEF StatsInv, Stats!UnsavedIsScheduled
  <1>5. QED BY <1>3, <1>4, BarsAre, Zenon DEF Stats!StatisticsSafe

(* The first file has a click in its first hour, unless it is of the        *)
(* version that counted moves as clicks.                                    *)
LEMMA StatsInit == Init => StatsInv
  <1> SUFFICES ASSUME Init PROVE StatsInv
    OBVIOUS
  <1> DEFINE one == [Stats!Empty EXCEPT !["clicks"] = 1]
             r == [n |-> 0, at |-> 0, kind |-> "clicks", safe |-> TRUE]
  <1>1. PICK v \in 1 .. 3 :
          /\ clock = 0 /\ zone \in Zones /\ flush = FALSE
          /\ disk = [version |-> v, buckets |-> [h \in {0} |-> one]]
          /\ noted = IF v = 1 THEN {} ELSE {r}
          /\ mem = Stats!Load(disk)
    BY Zenon DEF Init, Stats!Init
  <1>2. /\ one \in [Kinds -> 0 .. 1] /\ one["clicks"] = 1 /\ "clicks" \in Kinds
        /\ \A k \in Kinds : k # "clicks" => one[k] = 0
    BY DEF Stats!Empty, Stats!Kinds, Kinds
  <1>3. disk.version = v /\ disk.buckets = [h \in {0} |-> one]
    BY <1>1
  <1>4. DOMAIN mem = {0} /\ mem[0] = IF v = 1 THEN [one EXCEPT !["clicks"] = 0] ELSE one
    BY <1>1, <1>3, Zenon DEF Stats!Load
  <1>5. mem = [h \in DOMAIN mem |-> mem[h]]
    BY <1>1, <1>3, Zenon DEF Stats!Load
  <1>6. Saved = noted
    <2>1. r.safe
      OBVIOUS
    <2>2. QED BY <1>1, <2>1, Zenon DEF Saved
  <1>7. Clocks
    <2>1. 0 \in 0 .. LastHour
      BY StatisticsAssumption
    <2>2. QED BY <1>1, <2>1, Zenon DEF Clocks
  <1>8. FileTyped
    <2>1. \A f \in [Kinds -> 0 .. 1] : f \in [Kinds -> 0 .. MaxRecords]
      BY StatisticsAssumption
    <2>2. QED BY <1>2, <1>3, <2>1, Zenon DEF FileTyped
  <1>9. Book(noted, clock) /\ Cardinality(noted) \in 0 .. MaxRecords
        /\ (v = 1 => Cardinality(noted) = 0) /\ (v # 1 => Cardinality(noted) = 1)
    <2>1. CASE v = 1
      <3>1. IsFiniteSet(noted) /\ Cardinality(noted) = 0
        BY <1>1, <2>1, FS_EmptySet
      <3>2. QED BY <1>1, <2>1, <3>1, StatisticsAssumption DEF Book
    <2>2. CASE v # 1
      <3>1. IsFiniteSet(noted) /\ Cardinality(noted) = 1
        BY <1>1, <2>2, FS_Singleton
      <3>2. r \in Entries(0) /\ r.n = 0
        BY <1>2 DEF Entries
      <3> HIDE DEF r
      <3>3. noted = {r}
        BY <1>1, <2>2, Zenon
      <3>4. Book(noted, 0)
        BY <3>1, <3>2, <3>3 DEF Book
      <3>5. QED BY <1>1, <2>2, <3>1, <3>4, StatisticsAssumption
    <2>3. QED BY <2>1, <2>2
  <1> DEFINE m == Cardinality(noted)
  <1>10. mem[0] \in [Kinds -> 0 .. m]
    <2>1. CASE v = 1
      <3>1. mem[0] = [one EXCEPT !["clicks"] = 0] /\ m = 0
        BY <1>4, <1>9, <2>1, Zenon
      <3> HIDE DEF one, m
      <3>2. [one EXCEPT !["clicks"] = 0] \in [Kinds -> 0 .. 0]
        BY <1>2
      <3>3. QED BY <3>1, <3>2, Zenon
    <2>2. CASE v # 1
      BY <1>2, <1>4, <1>9, <2>2, Zenon
    <2>3. QED BY <2>1, <2>2
  <1>11. Buckets(mem, m, clock)
    <2>1. {0} \subseteq 0 .. 0
      OBVIOUS
    <2> HIDE DEF m
    <2>2. QED BY <1>1, <1>4, <1>5, <1>10, <2>1, Zenon DEF Buckets
  <1>12. ASSUME NEW hours \in SUBSET Recent(clock), NEW k \in Kinds
         PROVE  Cardinality(Units(mem, hours, {k})) = Cardinality(Of(noted, hours, k))
    <2> DEFINE none == [h \in {} |-> 0]
    <2>1. Units(none, hours, {k}) = {}
      <3>1. \A h : Value(none, h, k) = 0
        BY Zenon DEF Value
      <3>2. \A i \in 1 .. MaxRecords : ~(i <= 0)
        OBVIOUS
      <3>3. QED BY <3>1, <3>2 DEF Units
    <2>2. Cardinality({}) = 0
      BY FS_EmptySet
    <2>3. CASE v # 1 /\ 0 \in hours /\ k = "clicks"
      <3>1. Of(noted, hours, k) = {r}
        <4>1. r.kind = "clicks" /\ r.at = 0
          OBVIOUS
        <4> HIDE DEF r
        <4>2. QED BY <1>1, <2>3, <4>1, Zenon DEF Of
      <3>2. 0 \in 0 .. MaxRecords - 1
        BY StatisticsAssumption
      <3>3. \A h, x : x \in {k} => Value(none, h, x) \in 0 .. 0
        <4>1. \A h, x : Value(none, h, x) = 0
          BY Zenon DEF Value
        <4>2. QED BY <4>1
      <3>4. Raised(none, mem, hours, {k}, 0, k)
        <4>1. \A h : Value(none, h, k) = 0
          BY Zenon DEF Value
        <4>2. \A h : Value(mem, h, k) = IF h = 0 THEN 1 ELSE 0
          BY <1>2, <1>4, <2>3, Zenon DEF Value
        <4> HIDE DEF none
        <4>3. QED BY <4>1, <4>2 DEF Raised
      <3>5. \E new : Units(mem, hours, {k}) = Units(none, hours, {k}) \cup {new}
        <4> DEFINE ks == {k}
        <4>1. k \in ks
          OBVIOUS
        <4>2. 0 \in hours /\ Raised(none, mem, hours, ks, 0, k) /\ \A h, x : x \in ks => Value(none, h, x) \in 0 .. 0
          BY <2>3, <3>3, <3>4, Zenon
        <4> HIDE DEF none, ks
        <4>3. \E new : Units(mem, hours, ks) = Units(none, hours, ks) \cup {new} /\ new \notin Units(none, hours, ks)
          BY <3>2, <4>1, <4>2, UnitsRaised, Zenon
        <4>4. QED BY <4>3, Zenon DEF ks
      <3>6. PICK new : Units(mem, hours, {k}) = {new}
        BY <2>1, <3>5, Zenon
      <3> HIDE DEF r
      <3>7. Cardinality({new}) = 1 /\ Cardinality({r}) = 1
        BY FS_Singleton, Zenon
      <3>8. QED BY <3>1, <3>6, <3>7, Zenon
    <2>4. CASE ~(v # 1 /\ 0 \in hours /\ k = "clicks")
      <3>1. Of(noted, hours, k) = {}
        <4>1. r.kind = "clicks" /\ r.at = 0
          OBVIOUS
        <4> HIDE DEF r
        <4>2. QED BY <1>1, <2>4, <4>1, Zenon DEF Of
      <3>2. \A h \in hours : Value(mem, h, k) = 0
        <4> SUFFICES ASSUME NEW h \in hours, h = 0 PROVE mem[0][k] = 0
          BY <1>4, Zenon DEF Value
        <4>1. CASE v = 1
          <5> HIDE DEF one
          <5>1. [one EXCEPT !["clicks"] = 0][k] = 0
            BY <1>2
          <5>2. QED BY <1>4, <4>1, <5>1, Zenon
        <4>2. CASE v # 1
          <5>1. k # "clicks"
            BY <2>4, <4>2, Zenon
          <5>2. one[k] = 0
            BY <1>2, <5>1, Zenon
          <5>3. QED BY <1>4, <4>2, <5>2, Zenon
        <4>3. QED BY <4>1, <4>2
      <3>3. Units(mem, hours, {k}) = {}
        <4>1. \A i \in 1 .. MaxRecords : ~(i <= 0)
          OBVIOUS
        <4>2. QED BY <3>2, <4>1 DEF Units
      <3>4. QED BY <3>1, <3>3
    <2>5. QED BY <2>3, <2>4, Zenon
  <1>13. Counts(mem, noted, clock)
    <2> HIDE DEF one, r
    <2>1. QED BY <1>11, <1>12, Zenon DEF Counts
  <1>14. Cardinality(noted) <= MaxRecords
    BY <1>9
  <1> HIDE DEF one, r, m
  <1>15. QED BY <1>1, <1>6, <1>7, <1>8, <1>9, <1>13, <1>14, Zenon DEF StatsInv

(* What is noted and not written yet.                                       *)
LEMMA RecordStep ==
    ASSUME StatsInv, NEW kind \in Kinds, Stats!Record(kind)
    PROVE  StatsInv'
  <1> DEFINE r == [n |-> Cardinality(noted) + 1, at |-> clock, kind |-> kind, safe |-> FALSE]
             next == Stats!Counted(clock, kind)
  <1>1. /\ Cardinality(noted) < MaxRecords /\ noted' = noted \cup {r} /\ mem' = next /\ flush' = TRUE
        /\ clock' = clock /\ zone' = zone /\ disk' = disk
    BY SizeIs, Zenon DEF Stats!Record, Stats!Note, Stats!ScheduleFlush
  <1>2. /\ Clocks /\ FileTyped /\ Book(noted, clock) /\ Book(Saved, clock)
        /\ Counts(mem, noted, clock) /\ Counts(Stats!Load(disk), Saved, clock)
    BY Zenon DEF StatsInv
  <1>3. clock \in Nat /\ clock \in 0 .. clock /\ FALSE \in BOOLEAN
    BY <1>2 DEF Clocks
  <1>4. /\ Book(noted \cup {r}, clock) /\ Cardinality(noted) \in Nat /\ r \notin noted
        /\ Cardinality(noted \cup {r}) = Cardinality(noted) + 1
    <2>1. r \in Entries(clock) /\ r.n = Cardinality(noted) + 1
      <3>1. Cardinality(noted) + 1 \in Nat
        BY <1>2, FS_CardinalityType DEF Book
      <3>2. QED BY <1>3, <3>1 DEF Entries
    <2> HIDE DEF r
    <2>2. QED BY <1>2, <1>3, <2>1, BookNote
  <1>5. r.at = clock /\ r.kind = kind /\ ~r.safe
    OBVIOUS
  <1>6. clock \in Recent(clock)
    <2> DEFINE span == KeepDays * DayHours
    <2>1. span \in Nat
      BY StatisticsAssumption
    <2> HIDE DEF span
    <2>2. clock \in Int /\ clock >= clock - span
      BY <1>3, <2>1
    <2>3. QED BY <2>2, Zenon DEF Recent, span
  <1> HIDE DEF r, next
  <1>7. Counts(next, noted \cup {r}, clock)
    BY <1>1, <1>2, <1>3, <1>4, <1>5, <1>6, CountsNote, Zenon DEF next
  <1>8. Saved' = Saved
    BY <1>1, <1>5, Zenon DEF Saved
  <1>9. Cardinality(noted \cup {r}) <= MaxRecords
    BY <1>1, <1>4, StatisticsAssumption
  <1>10. Clocks' /\ FileTyped'
    BY <1>1, <1>2, Zenon DEF Clocks, FileTyped
  <1>11. QED BY <1>1, <1>2, <1>4, <1>7, <1>8, <1>9, <1>10, Zenon DEF StatsInv

(* What is written says what is in memory.                                  *)
LEMMA WrittenTyped ==
    ASSUME NEW file, NEW m \in 0 .. MaxRecords, NEW hour, Buckets(file, m, hour)
    PROVE  LET w == Stats!Written(file)
           IN  w.version \in 1 .. 3 /\ \A h \in DOMAIN w.buckets : w.buckets[h] \in [Kinds -> 0 .. MaxRecords]
  <1>1. Stats!Written(file).version = 3 /\ Stats!Written(file).buckets = file /\ 3 \in 1 .. 3
    BY DEF Stats!Written
  <1>2. \A f \in [Kinds -> 0 .. m] : f \in [Kinds -> 0 .. MaxRecords]
    BY StatisticsAssumption
  <1>3. QED BY <1>1, <1>2, Zenon DEF Buckets

(* All records are written.                                                 *)
LEMMA WriteStep ==
    ASSUME StatsInv, NEW records, Book(records, clock), Cardinality(records) <= MaxRecords,
           Counts(mem', records, clock), noted' = Stats!AllSafe(records),
           disk' = Stats!Written(mem'), flush' = FALSE, clock' = clock, zone' = zone
    PROVE  StatsInv'
  <1>1. Clocks'
    BY Zenon DEF StatsInv, Clocks
  <1>2. /\ Book(noted', clock) /\ Cardinality(noted') = Cardinality(records) /\ Saved' = noted'
    <2> DEFINE all == Stats!AllSafe(records)
    <2>1. Book(all, clock) /\ Cardinality(all) = Cardinality(records) /\ {r \in all : r.safe} = all
      BY BookSafe, Zenon
    <2> HIDE DEF all
    <2>2. noted' = all
      BY Zenon DEF all
    <2>3. QED BY <2>1, <2>2, Zenon DEF Saved
  <1>3. Counts(mem', noted', clock)
    BY CountsSafe, Zenon
  <1>4. mem' = Stats!Load(disk') /\ FileTyped'
    <2> DEFINE m == Cardinality(records)
    <2>1. m \in 0 .. MaxRecords
      <3>1. m \in Nat /\ m <= MaxRecords
        BY FS_CardinalityType DEF Book
      <3> HIDE DEF m
      <3>2. QED BY <3>1, StatisticsAssumption
    <2>2. PICK next : next = mem'
      OBVIOUS
    <2>3. Buckets(next, m, clock)
      BY <2>2, Zenon DEF Counts
    <2>4. next = Stats!Load(Stats!Written(next))
      <3>1. next = [h \in DOMAIN next |-> next[h]]
        BY <2>3, Zenon DEF Buckets
      <3>2. QED BY <3>1, LoadWritten, Zenon
    <2> HIDE DEF m
    <2> DEFINE w == Stats!Written(next)
    <2>5. w.version \in 1 .. 3 /\ \A h \in DOMAIN w.buckets : w.buckets[h] \in [Kinds -> 0 .. MaxRecords]
      BY <2>1, <2>3, WrittenTyped, Zenon
    <2> HIDE DEF w
    <2>6. disk' = w
      BY <2>2, Zenon DEF w
    <2>7. FileTyped'
      BY <2>5, <2>6, Zenon DEF FileTyped
    <2>8. QED BY <2>2, <2>4, <2>6, <2>7, Zenon DEF w
  <1>5. QED BY <1>1, <1>2, <1>3, <1>4, Zenon DEF StatsInv

(* A pomodoro is written at once, of an hour that is still kept.            *)
LEMMA PomodoroNoted ==
    ASSUME StatsInv, NEW back \in {0, 1, DayHours}, Stats!RecordPomodoro(clock - back)
    PROVE  StatsInv'
  <1> DEFINE t == clock - back
             r == [n |-> Cardinality(noted) + 1, at |-> t, kind |-> "pomodoros", safe |-> TRUE]
             next == Stats!Counted(t, "pomodoros")
             records == noted \cup {r}
  <1>1. /\ Cardinality(noted) < MaxRecords /\ t \in 0 .. clock
        /\ noted' = Stats!AllSafe(records) /\ mem' = next /\ flush' = FALSE
        /\ clock' = clock /\ zone' = zone /\ disk' = Stats!Written(mem')
    BY SizeIs, Zenon DEF Stats!RecordPomodoro
  <1>2. Clocks /\ Book(noted, clock) /\ Counts(mem, noted, clock)
    BY Zenon DEF StatsInv
  <1>3. clock \in Nat /\ TRUE \in BOOLEAN /\ "pomodoros" \in Kinds
    BY <1>2 DEF Clocks, Kinds, Stats!Kinds
  <1>4. Book(records, clock) /\ Cardinality(noted) \in Nat /\ r \notin noted /\ Cardinality(records) = Cardinality(noted) + 1
    <2>1. r \in Entries(clock) /\ r.n = Cardinality(noted) + 1
      <3>1. Cardinality(noted) + 1 \in Nat
        BY <1>2, FS_CardinalityType DEF Book
      <3>2. QED BY <1>1, <1>3, <3>1 DEF Entries
    <2> HIDE DEF r, t
    <2>2. QED BY <1>1, <1>2, <1>3, <2>1, BookNote
  <1>5. r.at = t /\ r.kind = "pomodoros"
    OBVIOUS
  <1>6. t \in Recent(clock)
    <2> DEFINE span == KeepDays * DayHours
    <2>1. span \in Int /\ DayHours <= span
      <3>1. 1 * DayHours <= KeepDays * DayHours /\ KeepDays * DayHours \in Int
        <4>1. 1 \in Int /\ KeepDays \in Int /\ 1 <= KeepDays /\ DayHours \in Nat
          BY StatisticsAssumption
        <4>2. QED BY <4>1, ProductGrows
      <3>2. QED BY <3>1, StatisticsAssumption
    <2> HIDE DEF span
    <2>2. t \in Int /\ t >= clock - span
      BY <1>3, <2>1, StatisticsAssumption
    <2> HIDE DEF t
    <2>3. QED BY <2>2, Zenon DEF Recent, span
  <1> HIDE DEF r, next, t
  <1>7. Counts(next, records, clock)
    BY <1>1, <1>2, <1>3, <1>4, <1>5, <1>6, CountsNote, Zenon DEF next
  <1>8. Cardinality(records) <= MaxRecords
    BY <1>1, <1>4, StatisticsAssumption
  <1> HIDE DEF records
  <1>9. QED BY <1>1, <1>4, <1>7, <1>8, WriteStep, Zenon

(* What is noted is written by the timer.                                   *)
LEMMA FlushStep == StatsInv /\ Stats!Flush => StatsInv'
  <1> SUFFICES ASSUME StatsInv, Stats!Flush PROVE StatsInv'
    OBVIOUS
  <1>1. /\ noted' = Stats!AllSafe(noted) /\ mem' = mem /\ flush' = FALSE
        /\ clock' = clock /\ zone' = zone /\ disk' = Stats!Written(mem')
    BY Zenon DEF Stats!Flush
  <1>2. Book(noted, clock) /\ Counts(mem', noted, clock) /\ Cardinality(noted) <= MaxRecords
    BY <1>1, Zenon DEF StatsInv
  <1>3. QED BY <1>1, <1>2, WriteStep, Zenon

(* After a crash the records are those that were written.                   *)
LEMMA CrashStep == StatsInv /\ Stats!Crash => StatsInv'
  <1> SUFFICES ASSUME StatsInv, Stats!Crash PROVE StatsInv'
    OBVIOUS
  <1>1. /\ noted' = Saved /\ mem' = Stats!Load(disk) /\ flush' = FALSE
        /\ clock' = clock /\ zone' = zone /\ disk' = disk
    BY Zenon DEF Stats!Crash, Saved
  <1>2. /\ Clocks /\ FileTyped /\ Book(Saved, clock) /\ Counts(Stats!Load(disk), Saved, clock)
        /\ Book(noted, clock) /\ Cardinality(noted) <= MaxRecords
    BY Zenon DEF StatsInv
  <1>3. Cardinality(Saved) <= MaxRecords
    <2>1. IsFiniteSet(noted) /\ Saved \subseteq noted
      BY <1>2, Zenon DEF Book, Saved
    <2> DEFINE s == Saved
    <2> HIDE DEF s
    <2>2. s \subseteq noted
      BY <2>1, Zenon DEF s
    <2>3. Cardinality(s) <= Cardinality(noted) /\ Cardinality(s) \in Nat /\ Cardinality(noted) \in Nat
      BY <2>1, <2>2, FS_Subset, FS_CardinalityType
    <2>4. Cardinality(s) <= MaxRecords
      BY <1>2, <2>3, StatisticsAssumption
    <2>5. QED BY <2>4, Zenon DEF s
  <1>4. Saved' = Saved
    BY <1>1, Zenon DEF Saved
  <1>5. Clocks' /\ FileTyped'
    BY <1>1, <1>2, Zenon DEF Clocks, FileTyped
  <1>6. QED BY <1>1, <1>2, <1>3, <1>4, <1>5, Zenon DEF StatsInv

(* An hour passes.                                                          *)
LEMMA HourStep == StatsInv /\ Stats!Tick => StatsInv'
  <1> SUFFICES ASSUME StatsInv, Stats!Tick PROVE StatsInv'
    OBVIOUS
  <1>1. /\ clock < LastHour /\ clock' = clock + 1
        /\ noted' = noted /\ mem' = mem /\ flush' = flush /\ zone' = zone /\ disk' = disk
    BY Zenon DEF Stats!Tick
  <1>2. /\ Clocks /\ FileTyped /\ Book(Saved, clock) /\ Counts(Stats!Load(disk), Saved, clock)
        /\ Book(noted, clock) /\ Counts(mem, noted, clock)
        /\ Cardinality(noted) <= MaxRecords /\ (flush \/ mem = Stats!Load(disk))
    BY Zenon DEF StatsInv
  <1>3. clock \in Nat /\ clock + 1 \in 0 .. LastHour
    BY <1>1, <1>2, StatisticsAssumption DEF Clocks
  <1>4. /\ Book(noted, clock + 1) /\ Counts(mem, noted, clock + 1)
        /\ Book(Saved, clock + 1) /\ Counts(Stats!Load(disk), Saved, clock + 1)
    BY <1>2, <1>3, Later, Zenon
  <1>5. Saved' = Saved
    BY <1>1, Zenon DEF Saved
  <1>6. Clocks' /\ FileTyped'
    BY <1>1, <1>2, <1>3, Zenon DEF Clocks, FileTyped
  <1>7. QED BY <1>1, <1>2, <1>4, <1>5, <1>6, Zenon DEF StatsInv

(* Every step keeps the invariant.                                          *)
LEMMA StatsStep == StatsInv /\ [Stats!Next]_statsVars => StatsInv'
  <1> SUFFICES ASSUME StatsInv, [Stats!Next]_statsVars PROVE StatsInv'
    OBVIOUS
  <1>1. CASE UNCHANGED <<clock, disk, mem, flush, noted>> /\ zone' \in Zones
    <2>1. Saved' = Saved
      BY <1>1, Zenon DEF Saved
    <2>2. Clocks' /\ FileTyped'
      BY <1>1, Zenon DEF StatsInv, Clocks, FileTyped
    <2>3. QED BY <1>1, <2>1, <2>2, Zenon DEF StatsInv
  <1>2. UNCHANGED statsVars => UNCHANGED <<clock, disk, mem, flush, noted>> /\ zone' \in Zones
    BY Zenon DEF StatsInv, Clocks, statsVars
  <1>3. Stats!Travel => UNCHANGED <<clock, disk, mem, flush, noted>> /\ zone' \in Zones
    BY Zenon DEF Stats!Travel
  <1>4. ASSUME NEW kind \in Kinds \ {"pomodoros"}, Stats!Record(kind) PROVE StatsInv'
    BY <1>4, RecordStep, Zenon
  <1>5. QED BY <1>1, <1>2, <1>3, <1>4, PomodoroNoted, FlushStep, CrashStep, HourStep, Zenon DEF Stats!Next, Kinds

(* Every bar of the week and of the month is the sum of its local days,     *)
(* whatever was trimmed, restarted or crossed, and nothing recorded waits   *)
(* without a timer to write it (Statistics).                                *)
THEOREM StatisticsSafety == Spec => []StatisticsSafe
  <1>1. Init => (part = "stats" => StatsInv)
    BY StatsInit
  <1>2. (part = "stats" => StatsInv) /\ [Next]_deskVars => (part = "stats" => StatsInv)'
    BY PartSteps, StatsStep
  <1>3. (part = "stats" => StatsInv) => StatisticsSafe
    BY StatsInvSafe DEF StatisticsSafe
  <1>4. QED BY <1>1, <1>2, <1>3, PTL DEF Spec

-----------------------------------------------------------------------------
(* Growth: what is recorded today adds to today, and only to it.            *)
HoursOf(day, hour, z) ==
    LET today == (hour + z) \div DayHours
    IN  {h \in Int : h >= (today - day) * DayHours - z /\ h < (today - (day - 1)) * DayHours - z}
Days(file, hour, z, day, kinds) == Cardinality(Units(file, HoursOf(day, hour, z), kinds))

(* A day is counted by its hours.                                           *)
LEMMA DayIs ==
    StatsInv => \A day \in Int, kinds \in SUBSET Kinds :
        /\ Stats!Day(day, kinds) = Days(mem, clock, zone, day, kinds)
        /\ Days(mem, clock, zone, day, kinds) \in Nat
  <1> SUFFICES ASSUME StatsInv, NEW day \in Int, NEW kinds \in SUBSET Kinds
               PROVE  /\ Stats!Day(day, kinds) = Days(mem, clock, zone, day, kinds)
                      /\ Days(mem, clock, zone, day, kinds) \in Nat
    OBVIOUS
  <1> DEFINE hours == HoursOf(day, clock, zone)
  <1>1. clock \in Nat /\ Buckets(mem, Cardinality(noted), clock)
    BY DEF StatsInv, Clocks, Counts
  <1>2. DOMAIN mem \subseteq Int
    <2>1. 0 .. clock \subseteq Int
      OBVIOUS
    <2>2. QED BY <1>1, <2>1, Zenon DEF Buckets
  <1>3. Stats!Between(Stats!StartOfDay(day), Stats!StartOfDay(day - 1)) = hours \cap DOMAIN mem
    BY <1>2, Zenon DEF Stats!Between, Stats!StartOfDay, Stats!DayOf, HoursOf
  <1> HIDE DEF hours
  <1>4. Stats!Day(day, kinds) = Cardinality(Units(mem, hours, kinds))
    BY <1>3, TotalIs, Zenon DEF Stats!Day
  <1>5. IsFiniteSet(DOMAIN mem) /\ IsFiniteSet(kinds)
    <2>1. IsFiniteSet(Kinds)
      <3>1. Kinds = {"keys", "clicks"} \cup {"active"} \cup {"pomodoros"}
        BY DEF Kinds, Stats!Kinds
      <3>2. {"keys", "clicks"} = {"keys"} \cup {"clicks"}
        OBVIOUS
      <3>3. \A x : IsFiniteSet({x})
        BY FS_Singleton
      <3>4. QED BY <3>1, <3>2, <3>3, FS_Union
    <2>2. IsFiniteSet(kinds)
      BY <2>1, FS_Subset, Zenon
    <2>3. QED BY <1>1, <2>2, BucketsFinite, Zenon
  <1>6. Cardinality(Units(mem, hours, kinds)) \in Nat
    BY <1>5, UnitsFinite, Zenon
  <1>7. QED BY <1>4, <1>6, Zenon DEF Days, hours

(* Of a finite set of days, each number below its size is the rank of one.  *)
LEMMA MedianIs ==
    ASSUME NEW values \in [Stats!History -> Nat], NEW keys \in SUBSET Stats!History, keys # {}
    PROVE  Stats!Median2(values, keys) \in Nat
  <1> DEFINE n == Stats!Cardinality(keys)
             Precedes(e, d) == values[e] < values[d] \/ (values[e] = values[d] /\ e < d)
             before(d) == {e \in keys : Precedes(e, d)}
             rank == [d \in keys |-> Stats!Cardinality(before(d))]
             nth(i) == values[CHOOSE d \in keys : Stats!Cardinality(before(d)) = i]
  <1>1. HistoryDays \in Nat /\ keys \subseteq 1 .. HistoryDays /\ \A d \in keys : d \in Int /\ values[d] \in Nat
    BY StatisticsAssumption DEF Stats!History
  <1>2. IsFiniteSet(keys)
    <2>1. 1 \in Int /\ HistoryDays \in Int
      BY <1>1
    <2>2. IsFiniteSet(1 .. HistoryDays)
      BY <2>1, FS_Interval, Zenon
    <2>3. QED BY <1>1, <2>2, FS_Subset, Zenon
  <1>3. n \in Nat \ {0} /\ n = Cardinality(keys)
    <2>1. n = Cardinality(keys)
      BY SizeIs, Zenon
    <2> HIDE DEF n
    <2>2. QED BY <1>2, <2>1, FS_CardinalityType, FS_EmptySet
  <1>4. \A d, e, g \in keys : /\ ~Precedes(d, d)
                             /\ (d # e => Precedes(d, e) \/ Precedes(e, d))
                             /\ (Precedes(d, e) /\ Precedes(e, g) => Precedes(d, g))
    BY <1>1
  <1> HIDE DEF Precedes
  <1>5. ASSUME NEW d \in keys
        PROVE  IsFiniteSet(before(d)) /\ Stats!Cardinality(before(d)) = Cardinality(before(d)) /\ Cardinality(before(d)) \in 0 .. n - 1
    <2>1. before(d) \subseteq keys \ {d}
      BY <1>4, Zenon
    <2>2. IsFiniteSet(keys \ {d}) /\ Cardinality(keys \ {d}) = n - 1
      BY <1>2, <1>3, FS_RemoveElement
    <2> DEFINE b == before(d)
    <2> HIDE DEF b
    <2>3. b \subseteq keys \ {d}
      BY <2>1, Zenon DEF b
    <2>4. IsFiniteSet(b) /\ Cardinality(b) <= n - 1 /\ Cardinality(b) \in Nat
      BY <2>2, <2>3, FS_Subset, FS_CardinalityType
    <2> HIDE DEF n
    <2>5. Cardinality(b) \in 0 .. n - 1 /\ Stats!Cardinality(b) = Cardinality(b)
      BY <1>3, <2>4, SizeIs
    <2>6. QED BY <2>4, <2>5, Zenon DEF b
  <1>6. ASSUME NEW d \in keys, NEW e \in keys, Precedes(d, e) PROVE Cardinality(before(d)) < Cardinality(before(e))
    <2> DEFINE b == before(d)
               c == before(e)
    <2>1. b \subseteq c /\ d \in c /\ d \notin b
      BY <1>4, <1>6, Zenon
    <2>2. IsFiniteSet(b) /\ IsFiniteSet(c)
      BY <1>5, Zenon
    <2> HIDE DEF b, c
    <2>3. Cardinality(b \cup {d}) = Cardinality(b) + 1 /\ Cardinality(b) \in Nat /\ Cardinality(c) \in Nat
      BY <2>1, <2>2, FS_AddElement, FS_CardinalityType
    <2>4. b \cup {d} \subseteq c
      BY <2>1, Zenon
    <2>5. Cardinality(b \cup {d}) <= Cardinality(c)
      BY <2>2, <2>4, FS_Subset, Zenon
    <2>6. Cardinality(b) < Cardinality(c)
      BY <2>3, <2>5
    <2>7. QED BY <2>6, Zenon DEF b, c
  <1> HIDE DEF before, n
  <1>7. \A d \in keys : rank[d] = Cardinality(before(d)) /\ rank[d] \in 0 .. n - 1
    BY <1>5, Zenon
  <1>8. rank \in [keys -> 0 .. n - 1]
    BY <1>7, Zenon
  <1> HIDE DEF rank
  <1>9. \A d, e \in keys : rank[d] = rank[e] => d = e
    <2> SUFFICES ASSUME NEW d \in keys, NEW e \in keys, d # e PROVE rank[d] # rank[e]
      BY Zenon
    <2>1. rank[d] \in Int /\ rank[e] \in Int
      BY <1>7
    <2>2. Precedes(d, e) \/ Precedes(e, d)
      BY <1>4, Zenon
    <2>3. rank[d] = Cardinality(before(d)) /\ rank[e] = Cardinality(before(e))
      BY <1>7, Zenon
    <2>4. CASE Precedes(d, e)
      <3>1. rank[d] < rank[e]
        BY <1>6, <2>3, <2>4, Zenon
      <3>2. QED BY <2>1, <3>1
    <2>5. CASE Precedes(e, d)
      <3>1. rank[e] < rank[d]
        BY <1>6, <2>3, <2>5, Zenon
      <3>2. QED BY <2>1, <3>1
    <2>6. QED BY <2>2, <2>4, <2>5, Zenon
  <1> DEFINE ranks == {rank[d] : d \in keys}
  <1>10. rank \in Bijection(keys, ranks)
    <2>1. rank \in [keys -> ranks] /\ \A x \in ranks : \E d \in keys : rank[d] = x
      BY <1>8, Zenon
    <2> HIDE DEF ranks
    <2>2. rank \in Injection(keys, ranks) /\ rank \in Surjection(keys, ranks)
      BY <1>9, <2>1, Zenon DEF Injection, IsInjective, Surjection
    <2>3. QED BY <2>2, Zenon DEF Bijection
  <1>11. ranks \subseteq 0 .. n - 1
    BY <1>7, Zenon
  <1> HIDE DEF ranks
  <1>12. ranks = 0 .. n - 1
    <2>1. 0 \in Int /\ n - 1 \in Int /\ ~(0 > n - 1) /\ n - 1 - 0 + 1 = n
      BY <1>3
    <2>2. IsFiniteSet(0 .. n - 1) /\ Cardinality(0 .. n - 1) = n
      BY <2>1, FS_Interval
    <2>3. Cardinality(ranks) = n
      BY <1>2, <1>3, <1>10, FS_Bijection, Zenon DEF ExistsBijection
    <2>4. QED BY <1>11, <2>2, <2>3, FS_Subset
  <1>13. ASSUME NEW i \in 0 .. n - 1 PROVE nth(i) \in Nat
    <2>1. \E d \in keys : rank[d] = i
      BY <1>12, Zenon DEF ranks
    <2>2. \E d \in keys : Stats!Cardinality(before(d)) = i
      BY <2>1, Zenon DEF rank
    <2>3. (CHOOSE d \in keys : Stats!Cardinality(before(d)) = i) \in keys
      BY <2>2, Zenon
    <2>4. QED BY <1>1, <2>3, Zenon
  <1>14. Stats!Median2(values, keys) = nth((n - 1) \div 2) + nth(n \div 2)
    BY Zenon DEF Stats!Median2, n, before, Precedes
  <1>15. (n - 1) \div 2 \in 0 .. n - 1 /\ n \div 2 \in 0 .. n - 1
    BY <1>3
  <1>16. nth((n - 1) \div 2) \in Nat /\ nth(n \div 2) \in Nat
    BY <1>13, <1>15, Zenon
  <1> HIDE DEF nth
  <1>17. QED BY <1>14, <1>16

(* The lesser of two.                                                       *)
LEMMA LesserIs ==
    ASSUME NEW x \in Int, NEW y \in Int
    PROVE  Stats!Min({x, y}) = IF x <= y THEN x ELSE y
  <1>1. \E z \in {x, y} : \A w \in {x, y} : z <= w
    OBVIOUS
  <1>2. Stats!Min({x, y}) \in {x, y} /\ \A w \in {x, y} : Stats!Min({x, y}) <= w
    BY <1>1, Zenon DEF Stats!Min
  <1> DEFINE least == Stats!Min({x, y})
  <1> HIDE DEF least
  <1>3. least \in {x, y} /\ \A w \in {x, y} : least <= w
    BY <1>2, Zenon DEF least
  <1>4. least = IF x <= y THEN x ELSE y
    BY <1>3
  <1>5. QED BY <1>4, Zenon DEF least

(* Growth in twentieths, of a fraction of a usual day.                      *)
Twentieths(num, den) == Stats!Min({20, (80 * num + 3 * den) \div (6 * den)})

(* They grow with the fraction, from none to the most.                      *)
LEMMA TwentiethsGrow ==
    ASSUME NEW den \in Nat \ {0}, NEW low \in Nat, NEW high \in Nat, low <= high
    PROVE  /\ Twentieths(low, den) \in Int /\ Twentieths(high, den) \in Int
           /\ Twentieths(low, den) <= Twentieths(high, den)
           /\ Twentieths(0, den) = 0
  <1> DEFINE q(n) == (80 * n + 3 * den) \div (6 * den)
             d == 6 * den
  <1>1. d \in Nat \ {0} /\ \A n \in Nat : 80 * n + 3 * den \in Int
    OBVIOUS
  <1>2. 80 * low + 3 * den <= 80 * high + 3 * den
    OBVIOUS
  <1>3. 0 * d <= 3 * den /\ 3 * den < 0 * d + d /\ 3 * den \in Int /\ 80 * 0 + 3 * den = 3 * den
    OBVIOUS
  <1> HIDE DEF d
  <1>4. q(low) \in Int /\ q(high) \in Int /\ q(low) <= q(high)
    BY <1>1, <1>2, QuotientIs, QuotientGrows, Zenon DEF d
  <1>5. q(0) = 0
    <2>1. 0 \in Int /\ (3 * den) \div d = 0
      BY <1>1, <1>3, QuotientEquals
    <2>2. QED BY <1>3, <2>1, Zenon DEF d
  <1>6. Twentieths(low, den) = Stats!Min({20, q(low)}) /\ Twentieths(high, den) = Stats!Min({20, q(high)})
        /\ Twentieths(0, den) = Stats!Min({20, q(0)})
    BY Zenon DEF Twentieths
  <1> HIDE DEF q
  <1>7. /\ Twentieths(low, den) = IF 20 <= q(low) THEN 20 ELSE q(low)
        /\ Twentieths(high, den) = IF 20 <= q(high) THEN 20 ELSE q(high)
        /\ Twentieths(0, den) = IF 20 <= q(0) THEN 20 ELSE q(0)
    <2>1. 20 \in Int /\ 0 \in Int
      OBVIOUS
    <2>2. QED BY <1>4, <1>5, <1>6, <2>1, LesserIs, Zenon
  <1>8. QED BY <1>4, <1>5, <1>7

(* What a usual day is, and how much of it today is.                        *)
Usual(act) == {day \in Stats!History : act[day] >= UsualMin}
UsualTime(act) ==
    2 * PriorDays * UsualActive
        + (IF Stats!Cardinality(Usual(act)) = 0 THEN 0
           ELSE Stats!Cardinality(Usual(act)) * Stats!Median2(act, Usual(act)))
UsualInput(act, inp) ==
    IF Stats!Cardinality(Usual(act)) >= InputDays THEN Stats!Median2(inp, Usual(act)) ELSE 0
TimeToday(a, act) == 2 * (PriorDays + Stats!Cardinality(Usual(act))) * a

LevelOf(a, t, act, inp) ==
    IF UsualInput(act, inp) = 0 THEN Twentieths(TimeToday(a, act), UsualTime(act))
    ELSE Twentieths(3 * TimeToday(a, act) * UsualInput(act, inp) + 4 * t * UsualTime(act),
                    5 * UsualTime(act) * UsualInput(act, inp))

(* A usual day has some time, and time of today counts for something.       *)
LEMMA UsualIs ==
    ASSUME NEW act \in [Stats!History -> Nat], NEW inp \in [Stats!History -> Nat]
    PROVE  /\ Stats!Cardinality(Usual(act)) \in Nat /\ UsualTime(act) \in Nat \ {0} /\ UsualInput(act, inp) \in Nat
           /\ \A a \in Nat : TimeToday(a, act) \in Nat
           /\ \A a, b \in Nat : a <= b => TimeToday(a, act) <= TimeToday(b, act)
           /\ TimeToday(0, act) = 0
  <1> DEFINE n == Stats!Cardinality(Usual(act))
  <1>1. IsFiniteSet(Usual(act)) /\ Usual(act) \in SUBSET Stats!History
    <2>1. 1 \in Int /\ HistoryDays \in Int
      BY StatisticsAssumption
    <2>2. IsFiniteSet(Stats!History)
      BY <2>1, FS_Interval, Zenon DEF Stats!History
    <2>3. Usual(act) \subseteq Stats!History
      BY Zenon DEF Usual
    <2>4. QED BY <2>2, <2>3, FS_Subset, Zenon
  <1>2. n = Cardinality(Usual(act)) /\ n \in Nat /\ (n = 0 <=> Usual(act) = {})
    <2>1. n = Cardinality(Usual(act))
      BY SizeIs, Zenon
    <2> HIDE DEF n
    <2>2. QED BY <1>1, <2>1, FS_CardinalityType, FS_EmptySet
  <1> HIDE DEF n
  <1>3. Usual(act) # {} => Stats!Median2(act, Usual(act)) \in Nat /\ Stats!Median2(inp, Usual(act)) \in Nat
    BY <1>1, MedianIs, Zenon
  <1> DEFINE m == Stats!Median2(act, Usual(act))
             i == Stats!Median2(inp, Usual(act))
             base == 2 * PriorDays * UsualActive
  <1>4. base \in Nat \ {0}
    <2>1. PriorDays * UsualActive \in Nat \ {0}
      <3>1. PriorDays \in Nat \ {0} /\ UsualActive \in Nat \ {0}
        BY StatisticsAssumption
      <3>2. 1 * UsualActive <= PriorDays * UsualActive /\ PriorDays * UsualActive \in Int
        <4>1. 1 \in Int /\ PriorDays \in Int /\ 1 <= PriorDays /\ UsualActive \in Nat
          BY <3>1
        <4>2. QED BY <4>1, ProductGrows
      <3>3. QED BY <3>1, <3>2
    <2>2. 2 * PriorDays * UsualActive = 2 * (PriorDays * UsualActive)
      BY StatisticsAssumption
    <2>3. QED BY <2>1, <2>2
  <1>5. UsualTime(act) = base + (IF n = 0 THEN 0 ELSE n * m)
    BY Zenon DEF UsualTime, n
  <1>6. UsualInput(act, inp) = IF n >= InputDays THEN i ELSE 0
    BY Zenon DEF UsualInput, n
  <1>7. \A a : TimeToday(a, act) = 2 * (PriorDays + n) * a
    BY Zenon DEF TimeToday, n
  <1> HIDE DEF m, i, base
  <1>8. n # 0 => m \in Nat /\ i \in Nat
    BY <1>2, <1>3, Zenon DEF m, i
  <1>9. UsualTime(act) \in Nat \ {0}
    <2>1. CASE n = 0
      BY <1>4, <1>5, <2>1
    <2>2. CASE n # 0
      <3>1. n * m \in Nat
        BY <1>2, <1>8, <2>2
      <3>2. UsualTime(act) = base + n * m
        BY <1>5, <2>2, Zenon
      <3> DEFINE p == n * m
      <3> HIDE DEF p
      <3>3. p \in Nat /\ UsualTime(act) = base + p
        BY <3>1, <3>2, Zenon DEF p
      <3>4. QED BY <1>4, <3>3
    <2>3. QED BY <2>1, <2>2
  <1>10. UsualInput(act, inp) \in Nat
    <2>1. n >= InputDays => n # 0
      BY <1>2, StatisticsAssumption
    <2>2. 0 \in Nat
      OBVIOUS
    <2>3. QED BY <1>6, <1>8, <2>1, <2>2, Zenon
  <1> DEFINE c == 2 * (PriorDays + n)
  <1>11. c \in Nat
    BY <1>2, StatisticsAssumption
  <1>12. \A a : TimeToday(a, act) = c * a
    BY <1>7, Zenon
  <1> HIDE DEF c
  <1>13. \A a \in Nat : c * a \in Nat /\ c * a = a * c
    BY <1>11
  <1>14. \A a, b \in Nat : a <= b => c * a <= c * b
    <2> SUFFICES ASSUME NEW a \in Nat, NEW b \in Nat, a <= b PROVE c * a <= c * b
      OBVIOUS
    <2>1. a \in Int /\ b \in Int
      OBVIOUS
    <2>2. a * c <= b * c
      BY <1>11, <2>1, ProductGrows, Zenon
    <2>3. QED BY <1>13, <2>2, Zenon
  <1>15. c * 0 = 0
    BY <1>11
  <1>16. QED BY <1>2, <1>9, <1>10, <1>12, <1>13, <1>14, <1>15, Zenon DEF n

(* More time and more input today are no lower a level, and none are none.  *)
LEMMA LevelGrows ==
    ASSUME NEW act \in [Stats!History -> Nat], NEW inp \in [Stats!History -> Nat],
           NEW a \in Nat, NEW b \in Nat, NEW s \in Nat, NEW t \in Nat, a <= b, s <= t
    PROVE  /\ LevelOf(a, s, act, inp) \in Int /\ LevelOf(b, t, act, inp) \in Int
           /\ LevelOf(a, s, act, inp) <= LevelOf(b, t, act, inp)
           /\ LevelOf(0, 0, act, inp) = 0
  <1> DEFINE den == UsualTime(act)
             typed == UsualInput(act, inp)
             x == TimeToday(a, act)
             y == TimeToday(b, act)
             num(n, i) == 3 * n * typed + 4 * i * den
             all == 5 * den * typed
  <1>1. /\ den \in Nat \ {0} /\ typed \in Nat /\ x \in Nat /\ y \in Nat /\ x <= y /\ TimeToday(0, act) = 0
    BY UsualIs, Zenon
  <1>2. /\ LevelOf(a, s, act, inp) = IF typed = 0 THEN Twentieths(x, den) ELSE Twentieths(num(x, s), all)
        /\ LevelOf(b, t, act, inp) = IF typed = 0 THEN Twentieths(y, den) ELSE Twentieths(num(y, t), all)
        /\ LevelOf(0, 0, act, inp) = IF typed = 0 THEN Twentieths(0, den) ELSE Twentieths(num(0, 0), all)
    BY <1>1, Zenon DEF LevelOf
  <1> HIDE DEF den, typed, x, y
  <1>3. CASE typed = 0
    <2>1. /\ Twentieths(x, den) \in Int /\ Twentieths(y, den) \in Int
          /\ Twentieths(x, den) <= Twentieths(y, den) /\ Twentieths(0, den) = 0
      BY <1>1, TwentiethsGrow, Zenon
    <2>2. QED BY <1>2, <1>3, <2>1, Zenon
  <1>4. CASE typed # 0
    <2>1. typed \in Nat \ {0}
      BY <1>1, <1>4
    <2>2. x * typed <= y * typed /\ x * typed \in Nat /\ y * typed \in Nat
      <3>1. x \in Int /\ y \in Int
        BY <1>1
      <3>2. QED BY <1>1, <3>1, ProductGrows
    <2>3. s * den <= t * den /\ s * den \in Nat /\ t * den \in Nat
      <3>1. s \in Int /\ t \in Int /\ den \in Nat
        BY <1>1
      <3>2. QED BY <1>1, <3>1, ProductGrows
    <2>4. den * typed \in Nat \ {0}
      <3>1. 1 * typed <= den * typed /\ den * typed \in Int
        <4>1. 1 \in Int /\ den \in Int /\ 1 <= den
          BY <1>1
        <4>2. QED BY <1>1, <4>1, ProductGrows
      <3>2. QED BY <2>1, <3>1
    <2>5. /\ num(x, s) = 3 * (x * typed) + 4 * (s * den) /\ num(y, t) = 3 * (y * typed) + 4 * (t * den)
          /\ num(0, 0) = 0 /\ all = 5 * (den * typed)
      BY <1>1
    <2> DEFINE xt == x * typed
               yt == y * typed
               sd == s * den
               td == t * den
               dt == den * typed
    <2>6. /\ num(x, s) = 3 * xt + 4 * sd /\ num(y, t) = 3 * yt + 4 * td /\ all = 5 * dt
          /\ xt \in Nat /\ yt \in Nat /\ sd \in Nat /\ td \in Nat /\ dt \in Nat \ {0} /\ xt <= yt /\ sd <= td
      BY <2>2, <2>3, <2>4, <2>5, Zenon
    <2> HIDE DEF num, all, xt, yt, sd, td, dt
    <2>7. /\ num(x, s) \in Nat /\ num(y, t) \in Nat /\ num(x, s) <= num(y, t) /\ all \in Nat \ {0}
      BY <2>6
    <2>8. /\ Twentieths(num(x, s), all) \in Int /\ Twentieths(num(y, t), all) \in Int
          /\ Twentieths(num(x, s), all) <= Twentieths(num(y, t), all) /\ Twentieths(0, all) = 0
      BY <2>7, TwentiethsGrow, Zenon
    <2>9. QED BY <1>2, <1>4, <2>5, <2>8, Zenon
  <1>5. QED BY <1>3, <1>4

PastDays(file, hour, z, kinds) == [day \in Stats!History |-> Days(file, hour, z, day, kinds)]
LevelAt(file, hour, z) ==
    LevelOf(Days(file, hour, z, 0, Stats!Active), Days(file, hour, z, 0, Stats!Input),
            PastDays(file, hour, z, Stats!Active), PastDays(file, hour, z, Stats!Input))

DaysTyped(file, hour, z) ==
    \A kinds \in {Stats!Active, Stats!Input} :
        /\ Days(file, hour, z, 0, kinds) \in Nat
        /\ PastDays(file, hour, z, kinds) \in [Stats!History -> Nat]

(* The level is that of the days in memory, now and after a step.           *)
LEMMA LevelIs == StatsInv => Stats!GrowthLevel = LevelAt(mem, clock, zone) /\ DaysTyped(mem, clock, zone)
  <1> SUFFICES ASSUME StatsInv PROVE Stats!GrowthLevel = LevelAt(mem, clock, zone) /\ DaysTyped(mem, clock, zone)
    OBVIOUS
  <1> DEFINE act == PastDays(mem, clock, zone, Stats!Active)
             inp == PastDays(mem, clock, zone, Stats!Input)
             a == Days(mem, clock, zone, 0, Stats!Active)
             t == Days(mem, clock, zone, 0, Stats!Input)
  <1>1. Stats!Active \in SUBSET Kinds /\ Stats!Input \in SUBSET Kinds
    BY DEF Stats!Active, Stats!Input, Kinds, Stats!Kinds
  <1>2. Stats!History \subseteq Int /\ 0 \in Int
    BY DEF Stats!History
  <1>3. \A day \in Stats!History \cup {0}, kinds \in {Stats!Active, Stats!Input} :
            /\ Stats!Day(day, kinds) = Days(mem, clock, zone, day, kinds)
            /\ Days(mem, clock, zone, day, kinds) \in Nat
    BY <1>1, <1>2, DayIs, Zenon
  <1>4. DaysTyped(mem, clock, zone)
    BY <1>3, Zenon DEF DaysTyped, PastDays
  <1>5. /\ [day \in Stats!History |-> Stats!Day(day, Stats!Active)] = act
        /\ [day \in Stats!History |-> Stats!Day(day, Stats!Input)] = inp
        /\ Stats!Day(0, Stats!Active) = a /\ Stats!Day(0, Stats!Input) = t
    BY <1>3, Zenon DEF PastDays
  <1> HIDE DEF act, inp, a, t
  <1>6. Stats!Growth =
          IF UsualInput(act, inp) = 0 THEN [num |-> TimeToday(a, act), den |-> UsualTime(act)]
          ELSE [num |-> 3 * TimeToday(a, act) * UsualInput(act, inp) + 4 * t * UsualTime(act),
                den |-> 5 * UsualTime(act) * UsualInput(act, inp)]
    BY <1>5, Zenon DEF Stats!Growth, UsualInput, TimeToday, UsualTime, Usual
  <1>7. Stats!GrowthLevel = Twentieths(Stats!Growth.num, Stats!Growth.den)
    BY Zenon DEF Stats!GrowthLevel, Twentieths
  <1>8. LevelOf(a, t, act, inp) = LevelAt(mem, clock, zone)
    BY Zenon DEF LevelAt, act, inp, a, t
  <1>9. CASE UsualInput(act, inp) = 0
    <2> DEFINE g == [num |-> TimeToday(a, act), den |-> UsualTime(act)]
    <2>1. g.num = TimeToday(a, act) /\ g.den = UsualTime(act)
      OBVIOUS
    <2>2. Stats!Growth = g
      BY <1>6, <1>9, Zenon
    <2> HIDE DEF g
    <2>3. Stats!GrowthLevel = LevelOf(a, t, act, inp)
      BY <1>7, <1>9, <2>1, <2>2, Zenon DEF LevelOf
    <2>4. QED BY <1>4, <1>8, <2>3, Zenon
  <1>10. CASE UsualInput(act, inp) # 0
    <2> DEFINE n == 3 * TimeToday(a, act) * UsualInput(act, inp) + 4 * t * UsualTime(act)
               d == 5 * UsualTime(act) * UsualInput(act, inp)
               g == [num |-> n, den |-> d]
    <2>1. g.num = n /\ g.den = d
      OBVIOUS
    <2>2. Stats!Growth = g
      BY <1>6, <1>10, Zenon
    <2>3. LevelOf(a, t, act, inp) = Twentieths(n, d)
      BY <1>10, Zenon DEF LevelOf
    <2> HIDE DEF g, n, d
    <2>4. Stats!GrowthLevel = LevelOf(a, t, act, inp)
      BY <1>7, <2>1, <2>2, <2>3, Zenon
    <2>5. QED BY <1>4, <1>8, <2>4, Zenon
  <1>11. QED BY <1>9, <1>10, Zenon

LEMMA LevelIsNext ==
    StatsInv' => Stats!GrowthLevel' = LevelAt(mem', clock', zone') /\ DaysTyped(mem', clock', zone')
  <1>1. (StatsInv => Stats!GrowthLevel = LevelAt(mem, clock, zone) /\ DaysTyped(mem, clock, zone))'
    BY LevelIs, PTL
  <1>2. QED BY <1>1

(* What is counted in one hour raises its day, by its kind, and no other.   *)
LEMMA DaysRaised ==
    ASSUME StatsInv, NEW m \in Nat, NEW next, Buckets(next, m, clock), NEW t \in 0 .. clock, NEW kind \in Kinds,
           Raised(mem, next, Recent(t), Kinds, t, kind), NEW day \in 0 .. HistoryDays, NEW kinds \in SUBSET Kinds
    PROVE  /\ Days(mem, clock, zone, day, kinds) <= Days(next, clock, zone, day, kinds)
           /\ (kind \notin kinds \/ t \notin HoursOf(day, clock, zone)) =>
                  Days(next, clock, zone, day, kinds) = Days(mem, clock, zone, day, kinds)
  <1> DEFINE hours == HoursOf(day, clock, zone)
  <1>1. Clocks /\ clock \in Nat /\ Buckets(mem, Cardinality(noted), clock) /\ Cardinality(noted) \in Nat
    BY FS_CardinalityType DEF StatsInv, Clocks, Counts, Book
  <1>2. day \in 0 .. KeepDays - 1
    BY StatisticsAssumption
  <1>3. hours \subseteq Recent(t)
    <2> SUFFICES ASSUME NEW h \in hours PROVE h \in Recent(t)
      OBVIOUS
    <2>1. h \in Int /\ h >= Stats!StartOfDay(day)
      BY Zenon DEF HoursOf, Stats!StartOfDay, Stats!DayOf
    <2>2. h \in Recent(clock)
      BY <1>1, <1>2, <2>1, ShownIsKept, Zenon
    <2> DEFINE span == KeepDays * DayHours
    <2>3. span \in Nat
      BY StatisticsAssumption
    <2>4. h >= clock - span
      BY <2>2, Zenon DEF Recent
    <2> HIDE DEF span
    <2>5. h >= t - span
      BY <1>1, <2>1, <2>3, <2>4
    <2>6. QED BY <2>1, <2>5, Zenon DEF Recent, span
  <1> HIDE DEF hours
  <1>4. \A h, k : k \in Kinds => Value(mem, h, k) \in Nat
    <2> SUFFICES ASSUME NEW h, NEW k \in Kinds PROVE Value(mem, h, k) \in Nat
      OBVIOUS
    <2>1. Value(mem, h, k) \in 0 .. Cardinality(noted)
      BY <1>1, ValueBound, Zenon
    <2>2. QED BY <1>1, <2>1
  <1>5. \A h \in hours, k \in kinds :
            /\ Value(mem, h, k) \in Nat
            /\ Value(next, h, k) = Value(mem, h, k) + (IF h = t /\ k = kind THEN 1 ELSE 0)
    BY <1>3, <1>4, Zenon DEF Raised
  <1>6. Units(mem, hours, kinds) \subseteq Units(next, hours, kinds)
    <2>1. \A h \in hours, k \in kinds, i \in 1 .. MaxRecords : i <= Value(mem, h, k) => i <= Value(next, h, k)
      BY <1>5
    <2> SUFFICES ASSUME NEW c \in Units(mem, hours, kinds) PROVE c \in Units(next, hours, kinds)
      OBVIOUS
    <2>2. c \in hours \X kinds \X (1 .. MaxRecords) /\ c[3] <= Value(mem, c[1], c[2])
      BY Zenon DEF Units
    <2>3. c[1] \in hours /\ c[2] \in kinds /\ c[3] \in 1 .. MaxRecords
      BY <2>2
    <2>4. c[3] <= Value(next, c[1], c[2])
      BY <2>1, <2>2, <2>3, Zenon
    <2>5. QED BY <2>2, <2>4, Zenon DEF Units
  <1>7. IsFiniteSet(kinds)
    <2>1. Kinds = {"keys", "clicks"} \cup {"active"} \cup {"pomodoros"}
      BY DEF Kinds, Stats!Kinds
    <2>2. {"keys", "clicks"} = {"keys"} \cup {"clicks"}
      OBVIOUS
    <2>3. \A x : IsFiniteSet({x})
      BY FS_Singleton
    <2>4. IsFiniteSet(Kinds)
      BY <2>1, <2>2, <2>3, FS_Union
    <2>5. QED BY <2>4, FS_Subset, Zenon
  <1>8. IsFiniteSet(Units(next, hours, kinds))
    BY <1>1, <1>7, BucketsFinite, UnitsFinite, Zenon
  <1>9. Cardinality(Units(mem, hours, kinds)) <= Cardinality(Units(next, hours, kinds))
    BY <1>6, <1>8, FS_Subset, Zenon
  <1>10. ASSUME kind \notin kinds \/ t \notin hours PROVE Units(next, hours, kinds) = Units(mem, hours, kinds)
    <2>1. Same(mem, next, hours, kinds)
      <3> SUFFICES ASSUME NEW h \in hours, NEW k \in kinds PROVE Value(next, h, k) = Value(mem, h, k)
        BY Zenon DEF Same
      <3>1. ~(h = t /\ k = kind)
        BY <1>10, Zenon
      <3>2. QED BY <1>5, <3>1
    <2>2. QED BY <2>1, UnitsSame
  <1>11. QED BY <1>9, <1>10, Zenon DEF Days, hours

(* An hour of today is in no earlier day.                                   *)
LEMMA TodayIsLast ==
    ASSUME Clocks, NEW day \in 1 .. HistoryDays
    PROVE  clock \notin HoursOf(day, clock, zone)
  <1> DEFINE today == (clock + zone) \div DayHours
  <1>1. clock + zone \in Int /\ clock \in Int /\ zone \in Int /\ DayHours \in Nat \ {0} /\ day \in Int /\ day - 1 >= 0
    BY StatisticsAssumption DEF Clocks
  <1>2. today \in Int /\ today * DayHours <= clock + zone
    BY <1>1, QuotientIs, Zenon
  <1>3. clock \in HoursOf(day, clock, zone) => clock < (today - (day - 1)) * DayHours - zone
    BY Zenon DEF HoursOf
  <1> HIDE DEF today
  <1>4. (today - (day - 1)) * DayHours <= today * DayHours /\ (today - (day - 1)) * DayHours \in Int /\ today * DayHours \in Int
    <2>1. today - (day - 1) \in Int /\ today - (day - 1) <= today /\ DayHours \in Nat
      BY <1>1, <1>2
    <2>2. QED BY <1>2, <2>1, ProductGrows
  <1> DEFINE p == (today - (day - 1)) * DayHours
             q == today * DayHours
  <1> HIDE DEF p, q
  <1>5. p \in Int /\ q \in Int /\ p <= q /\ q <= clock + zone /\ (clock \in HoursOf(day, clock, zone) => clock < p - zone)
    BY <1>2, <1>3, <1>4, Zenon DEF p, q
  <1>6. QED BY <1>1, <1>5

(* When the day changes, what there is in memory is older.                  *)
LEMMA NewDay ==
    ASSUME Clocks, NEW m, Buckets(mem, m, clock), (clock + 1 + zone) \div DayHours # (clock + zone) \div DayHours,
           NEW kinds
    PROVE  Days(mem, clock + 1, zone, 0, kinds) = 0
  <1> DEFINE old == (clock + zone) \div DayHours
             today == (clock + 1 + zone) \div DayHours
             hours == HoursOf(0, clock + 1, zone)
  <1>1. /\ clock \in Int /\ zone \in Int /\ DayHours \in Nat \ {0}
        /\ clock + zone \in Int /\ clock + 1 + zone \in Int /\ clock + zone <= clock + 1 + zone
    BY StatisticsAssumption DEF Clocks
  <1>2. old \in Int /\ today \in Int /\ old <= today /\ clock + zone < old * DayHours + DayHours
    BY <1>1, QuotientIs, QuotientGrows, Zenon
  <1>3. \A h \in hours : h \in Int /\ h >= (today - 0) * DayHours - zone
    BY Zenon DEF HoursOf
  <1>4. old # today
    OBVIOUS
  <1> HIDE DEF old, today, hours
  <1>5. (old + 1) * DayHours <= today * DayHours /\ today * DayHours \in Int /\ (old + 1) * DayHours = old * DayHours + DayHours
    <2>1. old + 1 \in Int /\ old + 1 <= today /\ DayHours \in Nat /\ today - 0 = today
      BY <1>1, <1>2, <1>4
    <2>2. QED BY <1>1, <1>2, <2>1, ProductGrows
  <1> DEFINE p == old * DayHours
             q == today * DayHours
  <1>6. p \in Int /\ q \in Int /\ p + DayHours <= q /\ clock + zone < p + DayHours /\ \A h \in hours : h \in Int /\ h >= q - zone
    <2>1. p \in Int /\ (today - 0) * DayHours = q
      BY <1>1, <1>2
    <2>2. QED BY <1>2, <1>3, <1>5, <2>1
  <1> HIDE DEF p, q
  <1>7. \A h \in hours : ~(h \in 0 .. clock)
    BY <1>1, <1>6
  <1>8. \A h \in hours : h \notin DOMAIN mem
    BY <1>7, Zenon DEF Buckets
  <1>9. Units(mem, hours, kinds) = {}
    <2>1. \A h \in hours : \A k : Value(mem, h, k) = 0
      BY <1>8, Zenon DEF Value
    <2>2. \A i \in 1 .. MaxRecords : ~(i <= 0)
      OBVIOUS
    <2>3. QED BY <2>1, <2>2 DEF Units
  <1>10. Cardinality({}) = 0
    BY FS_EmptySet
  <1>11. QED BY <1>9, <1>10, Zenon DEF Days, hours

(* Of the same history, and of no less today, the level is no lower.        *)
Grown(f, hour, g, later, z) ==
    \A kinds \in {Stats!Active, Stats!Input} :
        /\ Days(f, hour, z, 0, kinds) <= Days(g, later, z, 0, kinds)
        /\ PastDays(g, later, z, kinds) = PastDays(f, hour, z, kinds)

(* So it is for a whole memory.                                             *)
LEMMA GrownLevel ==
    ASSUME NEW f, NEW hour, NEW g, NEW later, NEW z, DaysTyped(f, hour, z), DaysTyped(g, later, z),
           Grown(f, hour, g, later, z)
    PROVE  LevelAt(g, later, z) >= LevelAt(f, hour, z)
  <1> DEFINE act == PastDays(f, hour, z, Stats!Active)
             inp == PastDays(f, hour, z, Stats!Input)
             a == Days(f, hour, z, 0, Stats!Active)
             b == Days(g, later, z, 0, Stats!Active)
             s == Days(f, hour, z, 0, Stats!Input)
             t == Days(g, later, z, 0, Stats!Input)
  <1>1. /\ act \in [Stats!History -> Nat] /\ inp \in [Stats!History -> Nat]
        /\ a \in Nat /\ b \in Nat /\ s \in Nat /\ t \in Nat
    BY Zenon DEF DaysTyped
  <1>2. /\ a <= b /\ s <= t
        /\ PastDays(g, later, z, Stats!Active) = act /\ PastDays(g, later, z, Stats!Input) = inp
    BY Zenon DEF Grown
  <1>3. LevelAt(f, hour, z) = LevelOf(a, s, act, inp) /\ LevelAt(g, later, z) = LevelOf(b, t, act, inp)
    BY <1>2, Zenon DEF LevelAt
  <1> HIDE DEF act, inp, a, b, s, t
  <1>4. LevelOf(a, s, act, inp) \in Int /\ LevelOf(b, t, act, inp) \in Int /\ LevelOf(a, s, act, inp) <= LevelOf(b, t, act, inp)
    BY <1>1, <1>2, LevelGrows, Zenon
  <1>5. QED BY <1>3, <1>4

(* A step within a day after which no day has less.                         *)
LEMMA GrownInADay ==
    ASSUME StatsInv, StatsInv', zone' = zone, Stats!DayOf(clock)' = Stats!DayOf(clock),
           Grown(mem, clock, mem', clock', zone)
    PROVE  Stats!Grows
  <1>1. /\ Stats!GrowthLevel = LevelAt(mem, clock, zone) /\ DaysTyped(mem, clock, zone)
        /\ Stats!GrowthLevel' = LevelAt(mem', clock', zone') /\ DaysTyped(mem', clock', zone')
    BY LevelIs, LevelIsNext, Zenon
  <1>2. PICK next, later : next = mem' /\ later = clock'
    OBVIOUS
  <1>3. /\ DaysTyped(mem, clock, zone) /\ DaysTyped(next, later, zone) /\ Grown(mem, clock, next, later, zone)
        /\ Stats!GrowthLevel' = LevelAt(next, later, zone)
    BY <1>1, <1>2, Zenon
  <1>4. LevelAt(next, later, zone) >= LevelAt(mem, clock, zone)
    BY <1>3, GrownLevel, Zenon
  <1>5. Stats!GrowthLevel' >= Stats!GrowthLevel
    BY <1>1, <1>3, <1>4, Zenon
  <1>6. QED BY <1>5, Zenon DEF Stats!Grows

(* What is recorded now.                                                    *)
LEMMA CountedGrows ==
    ASSUME StatsInv, StatsInv', clock' = clock, zone' = zone, NEW t \in 0 .. clock, NEW kind \in Kinds,
           mem' = Stats!Counted(t, kind), t = clock \/ kind = "pomodoros"
    PROVE  Stats!Grows
  <1>1. PICK next : next = mem' /\ next = Stats!Counted(t, kind)
    OBVIOUS
  <1>2. Clocks /\ clock \in Nat /\ Buckets(mem, Cardinality(noted), clock) /\ Cardinality(noted) \in Nat
    BY FS_CardinalityType DEF StatsInv, Clocks, Counts, Book
  <1> DEFINE m == Cardinality(noted)
             n == m + 1
  <1>3. n \in Nat
    BY <1>2
  <1>4. Buckets(next, n, clock) /\ Raised(mem, next, Recent(t), Kinds, t, kind)
    <2>1. m \in Nat /\ Buckets(mem, m, clock)
      BY <1>2, Zenon
    <2> HIDE DEF m
    <2>2. QED BY <1>1, <1>2, <2>1, CountedIs, Zenon
  <1> HIDE DEF n
  <1>5. Stats!Active \in SUBSET Kinds /\ Stats!Input \in SUBSET Kinds /\ "pomodoros" \notin Stats!Active /\ "pomodoros" \notin Stats!Input
    BY DEF Stats!Active, Stats!Input, Kinds, Stats!Kinds
  <1>6. 0 \in 0 .. HistoryDays /\ Stats!History \subseteq 0 .. HistoryDays
    BY StatisticsAssumption DEF Stats!History
  <1>7. ASSUME NEW kinds \in {Stats!Active, Stats!Input}
        PROVE  /\ Days(mem, clock, zone, 0, kinds) <= Days(next, clock, zone, 0, kinds)
               /\ PastDays(next, clock, zone, kinds) = PastDays(mem, clock, zone, kinds)
    <2>1. kinds \in SUBSET Kinds /\ "pomodoros" \notin kinds
      BY <1>5, Zenon
    <2>2. Days(mem, clock, zone, 0, kinds) <= Days(next, clock, zone, 0, kinds)
      BY <1>3, <1>4, <1>6, <2>1, DaysRaised, Zenon
    <2>3. ASSUME NEW day \in Stats!History
          PROVE  Days(next, clock, zone, day, kinds) = Days(mem, clock, zone, day, kinds)
      <3>1. kind \notin kinds \/ t \notin HoursOf(day, clock, zone)
        BY <1>2, <2>1, TodayIsLast, Zenon DEF Stats!History
      <3>2. day \in 0 .. HistoryDays
        BY <1>6, Zenon
      <3>3. QED BY <1>3, <1>4, <2>1, <3>1, <3>2, DaysRaised
    <2>4. QED BY <2>2, <2>3, Zenon DEF PastDays
  <1>8. Grown(mem, clock, next, clock, zone)
    BY <1>7, Zenon DEF Grown
  <1>9. Grown(mem, clock, mem', clock', zone) /\ Stats!DayOf(clock)' = Stats!DayOf(clock)
    BY <1>1, <1>8, Zenon DEF Stats!DayOf
  <1>10. QED BY <1>9, GrownInADay, Zenon

(* Nothing but the hour changes, or not even it.                            *)
LEMMA SameGrows ==
    ASSUME StatsInv, StatsInv', mem' = mem, zone' = zone, clock' = clock \/ clock' = clock + 1
    PROVE  Stats!Grows
  <1>1. \A kinds \in {Stats!Active, Stats!Input} : Days(mem, clock, zone, 0, kinds) <= Days(mem, clock, zone, 0, kinds)
    <2> SUFFICES ASSUME NEW kinds \in {Stats!Active, Stats!Input}
                 PROVE  Days(mem, clock, zone, 0, kinds) <= Days(mem, clock, zone, 0, kinds)
      OBVIOUS
    <2>1. Days(mem, clock, zone, 0, kinds) \in Nat
      BY LevelIs, Zenon DEF DaysTyped
    <2>2. QED BY <2>1
  <1>2. Grown(mem, clock, mem, clock, zone)
    BY <1>1, Zenon DEF Grown
  <1>3. PICK later : later = clock' /\ (later = clock \/ later = clock + 1)
    OBVIOUS
  <1>4. Clocks /\ Buckets(mem, Cardinality(noted), clock)
    BY Zenon DEF StatsInv, Counts
  <1>5. CASE (later + zone) \div DayHours = (clock + zone) \div DayHours
    <2>1. \A day : HoursOf(day, later, zone) = HoursOf(day, clock, zone)
      BY <1>5, Zenon DEF HoursOf
    <2>2. Grown(mem, clock, mem, later, zone)
      BY <1>2, <2>1, Zenon DEF Grown, PastDays, Days
    <2>3. Grown(mem, clock, mem', clock', zone) /\ Stats!DayOf(clock)' = Stats!DayOf(clock)
      BY <1>3, <1>5, <2>2, Zenon DEF Stats!DayOf
    <2>4. QED BY <2>3, GrownInADay, Zenon
  <1>6. CASE (later + zone) \div DayHours # (clock + zone) \div DayHours
    <2>1. later = clock + 1
      BY <1>3, <1>6, Zenon
    <2>2. \A kinds : Days(mem, clock + 1, zone, 0, kinds) = 0
      BY <1>4, <1>6, <2>1, NewDay, Zenon
    <2> DEFINE act == PastDays(mem, later, zone, Stats!Active)
               inp == PastDays(mem, later, zone, Stats!Input)
    <2>3. LevelAt(mem, later, zone) = LevelOf(0, 0, act, inp)
      <3>1. Days(mem, later, zone, 0, Stats!Active) = 0 /\ Days(mem, later, zone, 0, Stats!Input) = 0
        BY <2>1, <2>2, Zenon
      <3>2. QED BY <3>1, Zenon DEF LevelAt
    <2>4. Stats!GrowthLevel' = LevelAt(mem, later, zone) /\ DaysTyped(mem, later, zone)
      BY <1>3, LevelIsNext, Zenon
    <2>5. act \in [Stats!History -> Nat] /\ inp \in [Stats!History -> Nat]
      BY <2>4, Zenon DEF DaysTyped
    <2> HIDE DEF act, inp
    <2>6. 0 \in Nat /\ 0 <= 0
      OBVIOUS
    <2>7. LevelOf(0, 0, act, inp) = 0
      BY <2>5, <2>6, LevelGrows, Zenon
    <2>8. Stats!DayOf(clock)' # Stats!DayOf(clock)
      BY <1>3, <1>6, Zenon DEF Stats!DayOf
    <2>9. QED BY <2>3, <2>4, <2>7, <2>8, Zenon DEF Stats!Grows
  <1>7. QED BY <1>5, <1>6, Zenon

(* Every step grows the pup, ends its day, or forgets what it lost.         *)
LEMMA GrowsStep == StatsInv /\ StatsInv' /\ [Stats!Next]_statsVars => Stats!Grows
  <1> SUFFICES ASSUME StatsInv, StatsInv', [Stats!Next]_statsVars PROVE Stats!Grows
    OBVIOUS
  <1>1. ASSUME NEW kind \in Kinds \ {"pomodoros"}, Stats!Record(kind) PROVE Stats!Grows
    <2>1. clock' = clock /\ zone' = zone /\ mem' = Stats!Counted(clock, kind)
      BY <1>1, Zenon DEF Stats!Record
    <2>2. clock \in 0 .. clock
      BY DEF StatsInv, Clocks
    <2>3. QED BY <2>1, <2>2, CountedGrows, Zenon
  <1>2. ASSUME NEW back \in {0, 1, DayHours}, Stats!RecordPomodoro(clock - back) PROVE Stats!Grows
    <2> DEFINE t == clock - back
    <2>1. t \in 0 .. clock /\ clock' = clock /\ zone' = zone /\ mem' = Stats!Counted(t, "pomodoros")
      BY <1>2, Zenon DEF Stats!RecordPomodoro
    <2>2. "pomodoros" \in Kinds
      BY DEF Kinds, Stats!Kinds
    <2> HIDE DEF t
    <2>3. QED BY <2>1, <2>2, CountedGrows, Zenon
  <1>3. CASE Stats!Flush
    BY <1>3, SameGrows, Zenon DEF Stats!Flush
  <1>4. CASE Stats!Crash
    <2>1. flush /\ mem' = Stats!Load(disk) /\ zone' = zone /\ clock' = clock
      BY <1>4, Zenon DEF Stats!Crash
    <2>2. CASE mem' # mem
      BY <2>1, <2>2, Zenon DEF Stats!Grows
    <2>3. CASE mem' = mem
      BY <2>1, <2>3, SameGrows, Zenon
    <2>4. QED BY <2>2, <2>3, Zenon
  <1>5. CASE Stats!Tick
    BY <1>5, SameGrows, Zenon DEF Stats!Tick
  <1>6. CASE Stats!Travel
    BY <1>6, Zenon DEF Stats!Travel, Stats!Grows
  <1>7. CASE UNCHANGED statsVars
    BY <1>7, SameGrows, Zenon DEF statsVars
  <1>8. QED BY <1>1, <1>2, <1>3, <1>4, <1>5, <1>6, <1>7, Zenon DEF Stats!Next, Kinds

(* During a day, at one place, a companion only grows, however the counts   *)
(* are trimmed and written, and it starts the next day at its normal size   *)
(* (growth.ts); what a crash loses it may lose.                             *)
THEOREM PupGrows == Spec => [][part = "stats" => Stats!Grows]_deskVars
  <1>1. Init => (part = "stats" => StatsInv)
    BY StatsInit
  <1>2. (part = "stats" => StatsInv) /\ [Next]_deskVars => (part = "stats" => StatsInv)'
    BY PartSteps, StatsStep
  <1>3. (part = "stats" => StatsInv) /\ (part = "stats" => StatsInv)' /\ [Next]_deskVars
            => [part = "stats" => Stats!Grows]_deskVars
    <2> SUFFICES ASSUME part = "stats", StatsInv, part' = "stats" => StatsInv', [Next]_deskVars PROVE Stats!Grows
      OBVIOUS
    <2>1. part' = part /\ [Stats!Next]_statsVars
      BY PartSteps
    <2>2. QED BY <2>1, GrowsStep
  <1>4. QED BY <1>1, <1>2, <1>3, PTL DEF Spec

-----------------------------------------------------------------------------
(* What no step may do, of all the parts the run checks it of: unlock what  *)
(* was not read back, shrink the pup during a day, pin the menu by a drag,  *)
(* play the paws backwards.                                                 *)
THEOREM StepsSafety == Spec => StepsSafe
  BY UnlockIsVerified, PupGrows, DragIsNoClick, PawsForwards, PTL DEF StepsSafe
=============================================================================
