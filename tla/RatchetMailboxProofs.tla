------------------------ MODULE RatchetMailboxProofs ------------------------
(***************************************************************************)
(* What TLAPS proves of RatchetMailbox, for any sizes of the queues and    *)
(* batches, any events, and any number of lost requests and interruptions: *)
(* mail stays in order, no message is lost, none is handed out twice, and  *)
(* together the parts implement EventChannel.                              *)
(*                                                                         *)
(* A sender's outbox is the end of what it sent; what is before it is at   *)
(* the relay, with one more message at most (SenderInv).  A receiver has   *)
(* decrypted the messages 1 .. u without a gap: the last of them are in    *)
(* its inbox, those before are stored, and neither its cursor nor a batch  *)
(* in hand is past u (Got).                                                *)
(***************************************************************************)
EXTENDS RatchetMailbox, TLAPS

(* The messages that have left p's outbox.                                  *)
Acked(p) == Len(sent[p]) - Len(outbox[p])

KindOf(p, i) == IF i > 1 THEN "event" ELSE IF p = Joiner THEN "hello" ELSE "ack"

(* What p has sent (s), its outbox (o), and the mailbox of the other (m).   *)
Line(p, s, o, m) ==
  /\ Len(o) <= Len(s)
  /\ \A i \in 1 .. Len(o) : o[i] = Len(s) - Len(o) + i
  /\ \A i \in 1 .. Len(s) : s[i].kind = KindOf(p, i)
  /\ \A i \in 1 .. Len(m) : m[i] = i
  /\ Len(m) >= Len(s) - Len(o) /\ Len(m) <= Len(s) - Len(o) + 1 /\ Len(m) <= Len(s)

(* What may still arrive there.                                             *)
Loose(s, o, l) == \A n \in l : n \in 1 .. Len(s) /\ n <= Len(s) - Len(o) + 1

SenderInv(p) ==
  /\ Line(p, sent[p], outbox[p], mailbox[Other(p)])
  /\ Loose(sent[p], outbox[p], limbo[Other(p)])
  /\ pc[p] \in {"posted", "reposted"} =>
       outbox[p] # <<>> /\ Len(mailbox[Other(p)]) = Acked(p) + 1

(* Who has sent what of the handshake.                                      *)
Greeting(p) ==
  /\ Len(sent[p]) > 1 => established[p]
  /\ IF p = Joiner THEN session[p] /\ Len(sent[p]) >= 1
                   ELSE (session[p] <=> established[p]) /\ (session[p] <=> Len(sent[p]) >= 1)

Got(p, u) ==
  /\ used[p] = 1 .. u /\ u <= Len(mailbox[p]) /\ cursor[p] <= u
  /\ established[p] <=> u >= 1
  /\ \A i \in 1 .. Len(receipts[p]) : receipts[p][i] \in 1 .. u
  /\ pc[p] \in {"receiving", "reflushing", "reposted", "saving"} =>
       /\ at[p] <= u /\ at[p] <= fetched[p] /\ fetched[p] <= Len(mailbox[p])
       /\ pc[p] # "receiving" => at[p] = fetched[p]
  /\ Len(inbox[p]) < u \/ inbox[p] = <<>>
  /\ \A i \in 1 .. Len(inbox[p]) : inbox[p][i] = u - Len(inbox[p]) + i
  /\ \/ stored[p] = 2 .. (u - Len(inbox[p])) /\ pc[p] # "handled"
     \/ stored[p] = 2 .. (u - Len(inbox[p]) + 1) /\ inbox[p] # <<>>
ReceiverInv(p) == \E u \in Nat : Got(p, u)

(* An event is in hand while it is recorded.                                *)
Recording(p) == pc[p] = "recording" => sending[p] \in Events

(* The types, by what changes together.                                     *)
Machines ==
  /\ sent \in [Peers -> Seq(Messages)]
  /\ outbox \in [Peers -> Seq(Nat)] /\ inbox \in [Peers -> Seq(Nat)] /\ receipts \in [Peers -> Seq(Nat)]
  /\ mailbox \in [Peers -> Seq(Nat)]
Flags == session \in [Peers -> BOOLEAN] /\ established \in [Peers -> BOOLEAN] /\ verified \in [Peers -> BOOLEAN]
Passes ==
  /\ used \in [Peers -> SUBSET Nat] /\ stored \in [Peers -> SUBSET Nat] /\ limbo \in [Peers -> SUBSET Nat]
  /\ cursor \in [Peers -> Nat] /\ fetched \in [Peers -> Nat] /\ at \in [Peers -> Nat]
  /\ pc \in [Peers -> Stages] /\ faults \in Nat
Ids == outgoing \in [Peers -> SUBSET Events] /\ sending \in [Peers -> Events \cup {NoEvent}]

IInv ==
  /\ Machines /\ Flags /\ Passes /\ Ids
  /\ \A p \in Peers : SenderInv(p) /\ Greeting(p) /\ ReceiverInv(p) /\ Recording(p)
-----------------------------------------------------------------------------
LEMMA PeerFacts ==
  /\ Peers = {Creator, Joiner} /\ Creator # Joiner
  /\ \A p \in Peers : Other(p) \in Peers /\ Other(p) # p /\ Other(Other(p)) = p
  /\ \A p, q \in Peers : q = p \/ q = Other(p)
BY MailboxAssumption DEF Peers, Other

(* Sequences that grow or shrink by one.                                    *)
LEMMA AppendTypes ==
  ASSUME NEW S, NEW s \in Seq(S), NEW x \in S
  PROVE  /\ Append(s, x) \in Seq(S) /\ Append(s, x) # <<>> /\ Len(s) \in Nat
         /\ Len(Append(s, x)) = Len(s) + 1
         /\ \A i \in 1 .. Len(s) : Append(s, x)[i] = s[i]
         /\ Append(s, x)[Len(s) + 1] = x
OBVIOUS

LEMMA TailTypes ==
  ASSUME NEW S, NEW s \in Seq(S), s # <<>>
  PROVE  /\ Tail(s) \in Seq(S) /\ Len(s) \in Nat \ {0} /\ Head(s) \in S /\ Head(s) = s[1]
         /\ Len(Tail(s)) = Len(s) - 1
         /\ \A i \in 1 .. Len(Tail(s)) : Tail(s)[i] = s[i + 1]
OBVIOUS

(* What a device, its user and the network may do.                           *)
Do(p) ==
  \/ Confirm(p) \/ (\E e \in Events : Send(p, e)) \/ Record(p) \/ Sync(p)
  \/ PostTimesOut(p) \/ LateArrival(p) \/ Interrupt(p)

LEMMA FlagsStep == ASSUME Flags, NEW p \in Peers, Do(p) PROVE Flags'
<1> USE DEF Do, Confirm, Send, Record, Sync, StartSync, Post, AckOutgoing, FlushDone, Fetch, Repeated,
        ReceiveHello, ReceiveAck, ReceiveEvent, ReceiveStopped, Skip, BatchReceived, SaveCursor,
        StoreEvent, AckIncoming, SyncDone, PostTimesOut, LateArrival, Interrupt, machine
<1>1. session' = session \/ session' = [session EXCEPT ![p] = TRUE]
  OBVIOUS
<1>2. established' = established \/ established' = [established EXCEPT ![p] = TRUE]
  OBVIOUS
<1>3. verified' = verified \/ verified' = [verified EXCEPT ![p] = TRUE]
  OBVIOUS
<1>4. QED BY <1>1, <1>2, <1>3 DEF Flags

LEMMA IdsStep == ASSUME Ids, NEW p \in Peers, Recording(p), Do(p) PROVE Ids'
<1> USE DEF Do, Confirm, Send, Record, Sync, StartSync, Post, AckOutgoing, FlushDone, Fetch, Repeated,
        ReceiveHello, ReceiveAck, ReceiveEvent, ReceiveStopped, Skip, BatchReceived, SaveCursor,
        StoreEvent, AckIncoming, SyncDone, PostTimesOut, LateArrival, Interrupt, Advance, machine, app, network
<1>1. sending' = sending \/ \E e \in Events \cup {NoEvent} : sending' = [sending EXCEPT ![p] = e]
  OBVIOUS
<1>2. outgoing' = outgoing \/ outgoing' = [outgoing EXCEPT ![p] = @ \cup {sending[p]}]
  OBVIOUS
<1>3. outgoing' = outgoing \/ sending[p] \in Events
  BY DEF Recording
<1>4. QED BY <1>1, <1>2, <1>3 DEF Ids

(* An event is in hand while it is recorded.                                *)
LEMMA RecordingStep ==
  ASSUME Ids, pc \in [Peers -> Stages], \A q \in Peers : Recording(q), NEW p \in Peers, Do(p)
  PROVE  \A q \in Peers : Recording(q)'
<1> USE DEF Do, Confirm, Send, Record, Sync, StartSync, Post, AckOutgoing, FlushDone, Fetch, Repeated,
        ReceiveHello, ReceiveAck, ReceiveEvent, ReceiveStopped, Skip, BatchReceived, SaveCursor,
        StoreEvent, AckIncoming, SyncDone, PostTimesOut, LateArrival, Interrupt, Advance, machine, app, network
<1>1. \/ UNCHANGED <<pc, sending>>
      \/ \E e \in Events : pc' = [pc EXCEPT ![p] = "recording"] /\ sending' = [sending EXCEPT ![p] = e]
      \/ \E s \in Stages \ {"recording"} : pc' = [pc EXCEPT ![p] = s] /\ sending' = sending
      \/ pc' = [pc EXCEPT ![p] = "idle"] /\ sending' = [sending EXCEPT ![p] = NoEvent]
  BY DEF Goto, Stages, Flushing
<1>2. QED BY <1>1 DEF Ids, Recording

(* The message the loop over a batch has come to.                           *)
LEMMA IncomingFacts ==
  ASSUME Machines, Passes, NEW p \in Peers, SenderInv(Other(p)), NEW u \in Nat, Got(p, u), More(p)
  PROVE  /\ Incoming(p) = at[p] + 1 /\ Incoming(p) \in Nat /\ Incoming(p) <= fetched[p]
         /\ Incoming(p) \in 1 .. Len(sent[Other(p)]) /\ Incoming(p) <= u + 1
         /\ Content(p).kind = KindOf(Other(p), Incoming(p))
<1>1. at[p] \in Nat /\ fetched[p] \in Nat /\ at[p] < fetched[p] /\ fetched[p] <= Len(mailbox[p]) /\ at[p] <= u
  BY DEF More, Got, Passes
<1>2. Len(mailbox[p]) \in Nat /\ Len(sent[Other(p)]) \in Nat /\ Other(Other(p)) = p
  BY PeerFacts DEF Machines
<1>3. /\ \A i \in 1 .. Len(mailbox[p]) : mailbox[p][i] = i
      /\ Len(mailbox[p]) <= Len(sent[Other(p)])
      /\ \A i \in 1 .. Len(sent[Other(p)]) : sent[Other(p)][i].kind = KindOf(Other(p), i)
  BY <1>2 DEF SenderInv, Line
<1>4. Incoming(p) = at[p] + 1
  BY <1>1, <1>2, <1>3 DEF Incoming
<1>5. QED BY <1>1, <1>2, <1>3, <1>4 DEF Content

(* The oldest message of the outbox.                                        *)
LEMMA HeadFacts ==
  ASSUME Machines, NEW p \in Peers, SenderInv(p), outbox[p] # <<>>
  PROVE  /\ Head(outbox[p]) = Acked(p) + 1 /\ Acked(p) \in Nat
         /\ Acked(p) + 1 \in 1 .. Len(sent[p])
<1>1. Len(sent[p]) \in Nat /\ Len(outbox[p]) \in Nat \ {0} /\ Head(outbox[p]) = outbox[p][1]
  BY DEF Machines
<1>2. 1 \in 1 .. Len(outbox[p]) /\ Acked(p) \in Nat /\ Len(outbox[p]) = Len(sent[p]) - Acked(p)
  BY <1>1 DEF SenderInv, Line, Acked
<1>3. outbox[p][1] = Acked(p) + 1
  BY <1>1, <1>2 DEF SenderInv, Line, Acked
<1>4. QED BY <1>1, <1>2, <1>3


(* What an action does to each variable of its device.                      *)
LEMMA MachineChanges ==
  ASSUME NEW p \in Peers, Do(p)
  PROVE  /\ sent' = sent \/ \E m \in Messages : sent' = [sent EXCEPT ![p] = Append(@, m)]
         /\ \/ outbox' = outbox
            \/ outbox' = [outbox EXCEPT ![p] = Append(@, Len(sent[p]) + 1)]
            \/ outbox' = [outbox EXCEPT ![p] = Tail(@)] /\ pc[p] \in {"posted", "reposted"}
         /\ \/ inbox' = inbox
            \/ inbox' = [inbox EXCEPT ![p] = Append(@, Incoming(p))] /\ More(p)
            \/ inbox' = [inbox EXCEPT ![p] = Tail(@)] /\ pc[p] = "handled"
         /\ receipts' = receipts \/ (More(p) /\ Receipt(p))
         /\ used' = used \/ (More(p) /\ Spend(p))
         /\ \/ mailbox' = mailbox
            \/ pc[p] \in Flushing /\ outbox[p] # <<>> /\ Accept(Other(p), Head(outbox[p]))
            \/ \E n \in limbo[p] : Accept(p, n)
<1> USE DEF Do, Confirm, Send, Record, Sync, StartSync, Post, AckOutgoing, FlushDone, Fetch, Repeated,
        ReceiveHello, ReceiveAck, ReceiveEvent, ReceiveStopped, Skip, BatchReceived, SaveCursor,
        StoreEvent, AckIncoming, SyncDone, PostTimesOut, LateArrival, Interrupt, Advance, machine, app, network, Encrypt, Messages, Kinds
<1>1. sent' = sent \/ \E m \in Messages : sent' = [sent EXCEPT ![p] = Append(@, m)]
  OBVIOUS
<1>2. \/ outbox' = outbox
      \/ outbox' = [outbox EXCEPT ![p] = Append(@, Len(sent[p]) + 1)]
      \/ outbox' = [outbox EXCEPT ![p] = Tail(@)] /\ pc[p] \in {"posted", "reposted"}
  OBVIOUS
<1>3. \/ inbox' = inbox
      \/ inbox' = [inbox EXCEPT ![p] = Append(@, Incoming(p))] /\ More(p)
      \/ inbox' = [inbox EXCEPT ![p] = Tail(@)] /\ pc[p] = "handled"
  OBVIOUS
<1>4. (receipts' = receipts \/ (More(p) /\ Receipt(p))) /\ (used' = used \/ (More(p) /\ Spend(p)))
  OBVIOUS
<1>5. \/ mailbox' = mailbox
      \/ pc[p] \in Flushing /\ outbox[p] # <<>> /\ Accept(Other(p), Head(outbox[p]))
      \/ \E n \in limbo[p] : Accept(p, n)
  OBVIOUS
<1>6. QED BY <1>1, <1>2, <1>3, <1>4, <1>5

LEMMA PassChanges ==
  ASSUME NEW p \in Peers, Do(p)
  PROVE  /\ stored' = stored \/ (stored' = [stored EXCEPT ![p] = @ \cup {Head(inbox[p])}] /\ Deliveries(p) # <<>>)
         /\ \/ limbo' = limbo \/ (\E n : limbo' = [limbo EXCEPT ![p] = @ \ {n}])
            \/ limbo' = [limbo EXCEPT ![Other(p)] = @ \cup {Head(outbox[p])}] /\ outbox[p] # <<>>
         /\ cursor' = cursor \/ cursor' = [cursor EXCEPT ![p] = fetched[p]]
         /\ \/ fetched' = fetched /\ at' = at
            \/ fetched' = fetched /\ at' = [at EXCEPT ![p] = @ + 1]
            \/ /\ \E n \in {Len(mailbox[p]), cursor[p] + Batch} : fetched' = [fetched EXCEPT ![p] = n]
               /\ at' = [at EXCEPT ![p] = cursor[p]]
         /\ pc' = pc \/ \E s \in Stages : pc' = [pc EXCEPT ![p] = s]
         /\ faults' = faults \/ faults' = faults + 1
<1> USE DEF Do, Confirm, Send, Record, Sync, StartSync, Post, AckOutgoing, FlushDone, Fetch, Repeated,
        ReceiveHello, ReceiveAck, ReceiveEvent, ReceiveStopped, Skip, BatchReceived, SaveCursor,
        StoreEvent, AckIncoming, SyncDone, PostTimesOut, LateArrival, Interrupt, Advance, machine, app, network
<1>2. stored' = stored \/ (stored' = [stored EXCEPT ![p] = @ \cup {Head(inbox[p])}] /\ Deliveries(p) # <<>>)
  OBVIOUS
<1>3. \/ limbo' = limbo \/ (\E n : limbo' = [limbo EXCEPT ![p] = @ \ {n}])
      \/ limbo' = [limbo EXCEPT ![Other(p)] = @ \cup {Head(outbox[p])}] /\ outbox[p] # <<>>
  OBVIOUS
<1>4. cursor' = cursor \/ cursor' = [cursor EXCEPT ![p] = fetched[p]]
  OBVIOUS
<1>5. \/ fetched' = fetched /\ at' = at
      \/ fetched' = fetched /\ at' = [at EXCEPT ![p] = @ + 1]
      \/ /\ \E n \in {Len(mailbox[p]), cursor[p] + Batch} : fetched' = [fetched EXCEPT ![p] = n]
         /\ at' = [at EXCEPT ![p] = cursor[p]]
  OBVIOUS
<1>6. pc' = pc \/ \E s \in Stages : pc' = [pc EXCEPT ![p] = s]
  BY DEF Goto, Stages, Flushing
<1>7. faults' = faults \/ faults' = faults + 1
  OBVIOUS
<1>8. QED BY <1>2, <1>3, <1>4, <1>5, <1>6, <1>7

LEMMA MachinesStep == ASSUME IInv, NEW p \in Peers, Do(p) PROVE Machines'
<1>0. Machines /\ Other(p) \in Peers /\ SenderInv(p) /\ (More(p) => Incoming(p) \in Nat)
  BY PeerFacts, IncomingFacts DEF IInv, ReceiverInv
<1>1. sent' \in [Peers -> Seq(Messages)]
  <2>1. sent \in [Peers -> Seq(Messages)] /\ \A m \in Messages : Append(sent[p], m) \in Seq(Messages)
    BY <1>0 DEF Machines
  <2>2. CASE sent' = sent
    BY <2>1, <2>2
  <2>3. CASE \E m \in Messages : sent' = [sent EXCEPT ![p] = Append(@, m)]
    BY <2>1, <2>3
  <2>4. QED BY <2>2, <2>3, MachineChanges
<1>2. outbox' \in [Peers -> Seq(Nat)]
  <2>1. outbox \in [Peers -> Seq(Nat)] /\ Len(sent[p]) + 1 \in Nat
    BY <1>0 DEF Machines
  <2>2. CASE outbox' = outbox
    BY <2>1, <2>2
  <2>3. CASE outbox' = [outbox EXCEPT ![p] = Append(@, Len(sent[p]) + 1)]
    BY <2>1, <2>3
  <2>4. CASE outbox' = [outbox EXCEPT ![p] = Tail(@)] /\ pc[p] \in {"posted", "reposted"}
    <3>1. outbox[p] # <<>>
      BY <1>0, <2>4 DEF SenderInv
    <3>2. Tail(outbox[p]) \in Seq(Nat)
      BY <2>1, <3>1, TailTypes
    <3>3. QED BY <2>1, <2>4, <3>2
  <2>5. QED BY <2>2, <2>3, <2>4, MachineChanges
<1>3. inbox' \in [Peers -> Seq(Nat)]
  <2>1. inbox \in [Peers -> Seq(Nat)] 
    BY <1>0 DEF Machines
  <2>2. CASE inbox' = inbox
    BY <2>1, <2>2
  <2>3. CASE inbox' = [inbox EXCEPT ![p] = Append(@, Incoming(p))] /\ More(p)
    BY <1>0, <2>1, <2>3
  <2>4. CASE inbox' = [inbox EXCEPT ![p] = Tail(@)] /\ pc[p] = "handled"
    <3>1. inbox[p] # <<>>
      BY <2>4 DEF IInv, ReceiverInv, Got
    <3>2. Tail(inbox[p]) \in Seq(Nat)
      BY <2>1, <3>1, TailTypes
    <3>3. QED BY <2>1, <2>4, <3>2
  <2>5. QED BY <2>2, <2>3, <2>4, MachineChanges
<1>4. receipts' \in [Peers -> Seq(Nat)]
  <2>1. receipts \in [Peers -> Seq(Nat)]
    BY <1>0 DEF Machines
  <2>2. CASE receipts' = receipts
    BY <2>1, <2>2
  <2>3. CASE More(p) /\ Receipt(p)
    <3> DEFINE longer == Append(receipts[p], Incoming(p))
    <3>1. longer \in Seq(Nat) /\ longer # <<>>
      BY <1>0, <2>1, <2>3, AppendTypes
    <3>2. Tail(longer) \in Seq(Nat)
      BY <3>1, TailTypes
    <3>3. receipts' = [receipts EXCEPT ![p] = IF Len(longer) > Receipts THEN Tail(longer) ELSE longer]
      BY <2>3 DEF Receipt
    <3> HIDE DEF longer
    <3>4. QED BY <2>1, <3>1, <3>2, <3>3
  <2>4. QED BY <2>2, <2>3, MachineChanges
<1>5. mailbox' \in [Peers -> Seq(Nat)]
  <2>1. mailbox \in [Peers -> Seq(Nat)]
    BY <1>0 DEF Machines
  <2>2. \A q \in Peers : \A n \in Nat : Accept(q, n) => mailbox' \in [Peers -> Seq(Nat)]
    BY <2>1 DEF Accept
  <2>3. outbox[p] # <<>> => Head(outbox[p]) \in Nat
    BY <1>0, TailTypes DEF Machines
  <2>4. limbo[p] \subseteq Nat
    BY DEF IInv, Passes
  <2>5. QED BY <1>0, <2>1, <2>2, <2>3, <2>4, MachineChanges
<1>6. QED BY <1>1, <1>2, <1>3, <1>4, <1>5 DEF Machines

LEMMA PassesStep == ASSUME IInv, NEW p \in Peers, Do(p) PROVE Passes'
<1>0. Passes /\ Machines /\ Other(p) \in Peers /\ (More(p) => Incoming(p) \in Nat)
  BY PeerFacts, IncomingFacts DEF IInv, ReceiverInv
<1>1. used' \in [Peers -> SUBSET Nat]
  <2>1. CASE used' = used
    BY <1>0, <2>1 DEF Passes
  <2>2. CASE More(p) /\ Spend(p)
    BY <1>0, <2>2 DEF Passes, Spend
  <2>3. QED BY <2>1, <2>2, MachineChanges
<1>2. stored' \in [Peers -> SUBSET Nat]
  <2>1. Deliveries(p) # <<>> => Head(inbox[p]) \in Nat
    BY <1>0, TailTypes DEF Deliveries, Machines
  <2>2. stored \in [Peers -> SUBSET Nat]
    BY <1>0 DEF Passes
  <2>3. CASE stored' = stored
    BY <2>2, <2>3
  <2>4. CASE stored' = [stored EXCEPT ![p] = @ \cup {Head(inbox[p])}] /\ Deliveries(p) # <<>>
    BY <2>1, <2>2, <2>4
  <2>5. QED BY <2>3, <2>4, PassChanges
<1>3. limbo' \in [Peers -> SUBSET Nat]
  <2>1. outbox[p] # <<>> => Head(outbox[p]) \in Nat
    BY <1>0, TailTypes DEF Machines
  <2>2. limbo \in [Peers -> SUBSET Nat]
    BY <1>0 DEF Passes
  <2>3. CASE limbo' = limbo
    BY <2>2, <2>3
  <2>4. CASE \E n : limbo' = [limbo EXCEPT ![p] = @ \ {n}]
    BY <2>2, <2>4
  <2>5. CASE limbo' = [limbo EXCEPT ![Other(p)] = @ \cup {Head(outbox[p])}] /\ outbox[p] # <<>>
    BY <1>0, <2>1, <2>2, <2>5
  <2>6. QED BY <2>3, <2>4, <2>5, PassChanges
<1>4. cursor' \in [Peers -> Nat] /\ fetched' \in [Peers -> Nat] /\ at' \in [Peers -> Nat]
  <2>1. Len(mailbox[p]) \in Nat /\ Batch \in Nat
    BY <1>0, MailboxAssumption DEF Machines
  <2>2. cursor' \in [Peers -> Nat]
    BY <1>0, PassChanges DEF Passes
  <2>3. cursor[p] + Batch \in Nat
    BY <1>0, <2>1 DEF Passes
  <2>4. fetched' \in [Peers -> Nat]
    <3>1. fetched \in [Peers -> Nat]
      BY <1>0 DEF Passes
    <3>2. fetched' = fetched \/ \E n \in Nat : fetched' = [fetched EXCEPT ![p] = n]
      BY <2>1, <2>3, PassChanges
    <3>3. QED BY <3>1, <3>2
  <2>5. at' \in [Peers -> Nat]
    BY <1>0, PassChanges DEF Passes
  <2>6. QED BY <2>2, <2>4, <2>5
<1>6. pc' \in [Peers -> Stages] /\ faults' \in Nat
  <2>1. pc \in [Peers -> Stages] /\ faults \in Nat
    BY <1>0 DEF Passes
  <2>2. pc' \in [Peers -> Stages]
    BY <2>1, PassChanges
  <2>3. faults' \in Nat
    BY <2>1, PassChanges
  <2>4. QED BY <2>2, <2>3
<1>7. QED BY <1>1, <1>2, <1>3, <1>4, <1>6 DEF Passes

-----------------------------------------------------------------------------
(* The way of a message from its sender to the relay.                       *)

(* It is encrypted.                                                         *)
LEMMA LineEncrypt ==
  ASSUME NEW p, NEW s \in Seq(Messages), NEW o \in Seq(Nat), NEW m \in Seq(Nat), Line(p, s, o, m),
         NEW x \in Messages, x.kind = KindOf(p, Len(s) + 1)
  PROVE  /\ Line(p, Append(s, x), Append(o, Len(s) + 1), m)
         /\ \A l : Loose(s, o, l) => Loose(Append(s, x), Append(o, Len(s) + 1), l)
<1> DEFINE t == Append(s, x)
           u == Append(o, Len(s) + 1)
<1>1. /\ Len(s) \in Nat /\ Len(o) \in Nat /\ Len(m) \in Nat
      /\ Len(t) = Len(s) + 1 /\ \A i \in 1 .. Len(t) : t[i] = IF i = Len(s) + 1 THEN x ELSE s[i]
  OBVIOUS
<1>2. /\ Len(u) = Len(o) + 1 /\ \A i \in 1 .. Len(u) : u[i] = IF i = Len(o) + 1 THEN Len(s) + 1 ELSE o[i]
  BY <1>1
<1> HIDE DEF t, u
<1>3. Len(o) <= Len(s) /\ Len(u) <= Len(t) /\ Len(t) - Len(u) = Len(s) - Len(o)
  BY <1>1, <1>2 DEF Line
<1>4. ASSUME NEW i \in 1 .. Len(u) PROVE u[i] = Len(t) - Len(u) + i
  <2>1. CASE i = Len(o) + 1
    BY <1>1, <1>2, <1>3, <2>1
  <2>2. CASE i # Len(o) + 1
    <3>1. i \in 1 .. Len(o) /\ u[i] = o[i]
      BY <1>1, <1>2, <2>2
    <3>2. o[i] = Len(s) - Len(o) + i
      BY <3>1 DEF Line
    <3>3. QED BY <1>3, <3>1, <3>2
  <2>3. QED BY <2>1, <2>2
<1>5. ASSUME NEW i \in 1 .. Len(t) PROVE t[i].kind = KindOf(p, i)
  <2>1. CASE i = Len(s) + 1
    BY <1>1, <2>1
  <2>2. CASE i # Len(s) + 1
    <3>1. i \in 1 .. Len(s) /\ t[i] = s[i]
      BY <1>1, <2>2
    <3>2. s[i].kind = KindOf(p, i)
      BY <3>1 DEF Line
    <3>3. QED BY <3>1, <3>2
  <2>3. QED BY <2>1, <2>2
<1>6. ASSUME NEW l, Loose(s, o, l) PROVE Loose(t, u, l)
  BY <1>1, <1>3, <1>6 DEF Loose
<1>7. Line(p, t, u, m)
  BY <1>1, <1>3, <1>4, <1>5 DEF Line
<1>8. QED BY <1>6, <1>7 DEF t, u

(* The relay keeps the first copy.                                          *)
Arrived(m, n) == IF n \in Elements(m) THEN m ELSE Append(m, n)

(* A copy of it arrives.                                                    *)
LEMMA LineArrives ==
  ASSUME NEW p, NEW s \in Seq(Messages), NEW o \in Seq(Nat), NEW m \in Seq(Nat), Line(p, s, o, m),
         NEW n \in 1 .. Len(s), n <= Len(s) - Len(o) + 1
  PROVE  /\ Line(p, s, o, Arrived(m, n))
         /\ n = Len(s) - Len(o) + 1 \/ Len(m) = Len(s) - Len(o) + 1
              => Len(Arrived(m, n)) = Len(s) - Len(o) + 1
<1> DEFINE k == Arrived(m, n)
<1>1. Len(s) \in Nat /\ Len(o) \in Nat /\ Len(m) \in Nat /\ n \in Nat
  OBVIOUS
<1>2. n \in Elements(m) <=> n <= Len(m)
  <2>1. \A i \in 1 .. Len(m) : m[i] = i
    BY DEF Line
  <2>2. Elements(m) = 1 .. Len(m)
    BY <2>1 DEF Elements
  <2>3. QED BY <1>1, <2>2
<1>9. Len(m) >= Len(s) - Len(o) /\ Len(m) <= Len(s) - Len(o) + 1 /\ Len(m) <= Len(s) /\ Len(o) <= Len(s)
  BY DEF Line
<1>3. CASE n \in Elements(m)
  <2>1. k = m
    BY <1>3 DEF Arrived
  <2> HIDE DEF k
  <2>2. n = Len(s) - Len(o) + 1 => Len(m) = Len(s) - Len(o) + 1
    <3>1. n <= Len(m)
      BY <1>2, <1>3
    <3>2. QED BY <1>1, <1>9, <3>1
  <2>3. QED BY <2>1, <2>2 DEF k
<1>4. CASE n \notin Elements(m)
  <2>1. k = Append(m, n)
    BY <1>4 DEF Arrived
  <2>2. n = Len(m) + 1
    <3>1. ~(n <= Len(m))
      BY <1>2, <1>4
    <3>2. QED BY <1>1, <1>9, <3>1
  <2> HIDE DEF k
  <2>3. /\ Len(k) = Len(m) + 1
        /\ \A i \in 1 .. Len(m) : k[i] = m[i]
        /\ k[Len(m) + 1] = n
    BY <2>1, AppendTypes
  <2>4. \A i \in 1 .. Len(k) : k[i] = i
    <3>1. \A i \in 1 .. Len(m) : m[i] = i
      BY DEF Line
    <3>2. SUFFICES ASSUME NEW i \in 1 .. Len(k) PROVE k[i] = i
      OBVIOUS
    <3>3. CASE i = Len(m) + 1
      BY <2>2, <2>3, <3>3
    <3>4. CASE i # Len(m) + 1
      <4>1. i \in 1 .. Len(m)
        BY <1>1, <2>3, <3>4
      <4>2. QED BY <2>3, <3>1, <4>1
    <3>5. QED BY <3>3, <3>4
  <2>5. /\ Len(k) >= Len(s) - Len(o) /\ Len(k) <= Len(s) - Len(o) + 1 /\ Len(k) <= Len(s)
        /\ Len(k) = Len(s) - Len(o) + 1
    <3>1. n <= Len(s)
      OBVIOUS
    <3>2. QED BY <1>1, <1>9, <2>2, <2>3, <3>1
  <2>6. Line(p, s, o, k)
    BY <2>4, <2>5 DEF Line
  <2>7. QED BY <2>5, <2>6 DEF k
<1>5. QED BY <1>3, <1>4

(* Its arrival is confirmed.                                                *)
LEMMA LineConfirmed ==
  ASSUME NEW p, NEW s \in Seq(Messages), NEW o \in Seq(Nat), NEW m \in Seq(Nat), Line(p, s, o, m),
         o # <<>>, Len(m) = Len(s) - Len(o) + 1
  PROVE  /\ Line(p, s, Tail(o), m)
         /\ \A l : Loose(s, o, l) => Loose(s, Tail(o), l)
<1> DEFINE t == Tail(o)
<1>1. /\ Len(s) \in Nat /\ Len(o) \in Nat \ {0} /\ Len(m) \in Nat
      /\ Len(t) = Len(o) - 1 /\ \A i \in 1 .. Len(t) : t[i] = o[i + 1]
  BY TailTypes
<1> HIDE DEF t
<1>2. Len(o) <= Len(s) /\ \A i \in 1 .. Len(o) : o[i] = Len(s) - Len(o) + i
  BY DEF Line
<1>3. Len(t) <= Len(s) /\ \A i \in 1 .. Len(t) : t[i] = Len(s) - Len(t) + i
  <2>1. Len(t) <= Len(s) /\ Len(s) - Len(t) = Len(s) - Len(o) + 1
    BY <1>1, <1>2
  <2>2. ASSUME NEW i \in 1 .. Len(t) PROVE t[i] = Len(s) - Len(t) + i
    <3>1. i + 1 \in 1 .. Len(o) /\ t[i] = o[i + 1]
      BY <1>1
    <3>2. o[i + 1] = Len(s) - Len(o) + (i + 1)
      BY <1>2, <3>1
    <3>3. QED BY <1>1, <2>1, <3>1, <3>2
  <2>3. QED BY <2>1, <2>2
<1>4. ASSUME NEW l, Loose(s, o, l) PROVE Loose(s, t, l)
  BY <1>1, <1>4 DEF Loose
<1>5. Line(p, s, t, m)
  BY <1>1, <1>3 DEF Line
<1>6. QED BY <1>4, <1>5 DEF t

Posted == {"posted", "reposted"}

(* The actions that move messages, and what the others leave alone.         *)
LEMMA SenderCases ==
  ASSUME IInv, NEW p \in Peers, Do(p)
  PROVE  \/ /\ UNCHANGED <<sent, outbox, mailbox, limbo>>
            /\ pc' = pc \/ \E s \in Stages \ Posted : pc' = [pc EXCEPT ![p] = s]
         \/ /\ \E x \in Messages :
                 /\ x.kind = KindOf(p, Len(sent[p]) + 1)
                 /\ sent' = [sent EXCEPT ![p] = Append(@, x)]
            /\ outbox' = [outbox EXCEPT ![p] = Append(@, Len(sent[p]) + 1)]
            /\ UNCHANGED <<mailbox, limbo>>
            /\ \E s \in Stages \ Posted : pc' = [pc EXCEPT ![p] = s]
         \/ Post(p) \/ AckOutgoing(p) \/ PostTimesOut(p) \/ LateArrival(p)
<1>1. CASE Confirm(p) \/ Record(p) \/ Interrupt(p)
  BY <1>1 DEF Confirm, Record, Interrupt, Goto, Stages, Posted, machine, app, network
<1>2. ASSUME NEW e \in Events, Send(p, e)
      PROVE  /\ \E x \in Messages :
                  /\ x.kind = KindOf(p, Len(sent[p]) + 1)
                  /\ sent' = [sent EXCEPT ![p] = Append(@, x)]
             /\ outbox' = [outbox EXCEPT ![p] = Append(@, Len(sent[p]) + 1)]
             /\ UNCHANGED <<mailbox, limbo>>
             /\ \E s \in Stages \ Posted : pc' = [pc EXCEPT ![p] = s]
  <2>1. Len(sent[p]) \in Nat /\ Len(sent[p]) >= 1
    <3>1. Len(sent[p]) \in Nat
      BY DEF IInv, Machines
    <3>2. established[p] /\ Greeting(p)
      BY <1>2 DEF Send, IInv
    <3>3. QED BY <3>1, <3>2 DEF Greeting
  <2>2. KindOf(p, Len(sent[p]) + 1) = "event"
    BY <2>1 DEF KindOf
  <2>3. [kind |-> "event", event |-> e] \in Messages
    BY DEF Messages, Kinds
  <2>4. QED BY <1>2, <2>2, <2>3 DEF Send, Encrypt, Goto, Stages, Posted, network
<1>3. ASSUME ReceiveHello(p)
      PROVE  /\ \E x \in Messages :
                  /\ x.kind = KindOf(p, Len(sent[p]) + 1)
                  /\ sent' = [sent EXCEPT ![p] = Append(@, x)]
             /\ outbox' = [outbox EXCEPT ![p] = Append(@, Len(sent[p]) + 1)]
             /\ UNCHANGED <<mailbox, limbo>>
             /\ \E s \in Stages \ Posted : pc' = [pc EXCEPT ![p] = s]
  <2>1. Len(sent[p]) \in Nat /\ ~session[p] /\ Greeting(p)
    BY <1>3 DEF ReceiveHello, IInv, Machines
  <2>2. p # Joiner /\ Len(sent[p]) = 0
    BY <2>1 DEF Greeting
  <2>3. KindOf(p, Len(sent[p]) + 1) = "ack"
    BY <2>2 DEF KindOf
  <2>4. [kind |-> "ack", event |-> NoEvent] \in Messages
    BY DEF Messages, Kinds
  <2>5. pc' = [pc EXCEPT ![p] = "receiving"]
    BY <1>3 DEF ReceiveHello, More, Advance, IInv, Passes
  <2>6. QED BY <1>3, <2>3, <2>4, <2>5 DEF ReceiveHello, Encrypt, Advance, network, Stages, Posted
<1>4. CASE StartSync(p) \/ FlushDone(p) \/ Fetch(p) \/ BatchReceived(p) \/ SaveCursor(p) \/ StoreEvent(p)
           \/ AckIncoming(p) \/ SyncDone(p)
  BY <1>4 DEF StartSync, FlushDone, Fetch, BatchReceived, SaveCursor, StoreEvent, AckIncoming, SyncDone,
       Goto, Stages, Posted, machine, app, network
<1>5. CASE Repeated(p) \/ ReceiveAck(p) \/ ReceiveEvent(p) \/ ReceiveStopped(p) \/ Skip(p)
  BY <1>5 DEF Repeated, ReceiveAck, ReceiveEvent, ReceiveStopped, Skip, Advance,
       Goto, Stages, Posted, machine, app, network
<1>6. QED BY <1>1, <1>2, <1>3, <1>4, <1>5 DEF Do, Sync
(* The parts of SenderInv, typed.                                           *)
LEMMA SenderTypes ==
  ASSUME Machines, Passes, NEW q \in Peers
  PROVE  /\ sent[q] \in Seq(Messages) /\ outbox[q] \in Seq(Nat) /\ mailbox[q] \in Seq(Nat)
         /\ pc[q] \in Stages /\ DOMAIN pc = Peers
         /\ DOMAIN sent = Peers /\ DOMAIN outbox = Peers /\ DOMAIN mailbox = Peers /\ DOMAIN limbo = Peers
BY DEF Machines, Passes

LEMMA SenderStep ==
  ASSUME IInv, NEW p \in Peers, Do(p), NEW q \in Peers
  PROVE  SenderInv(q)'
<1>0. /\ Machines /\ Passes /\ SenderInv(p) /\ SenderInv(q) /\ SenderInv(Other(p))
      /\ Other(p) \in Peers /\ Other(q) \in Peers /\ Other(p) # p /\ Other(q) # q
      /\ Other(Other(p)) = p /\ (q = p \/ q = Other(p))
  BY PeerFacts DEF IInv
<1>1. CASE /\ UNCHANGED <<sent, outbox, mailbox, limbo>>
           /\ pc' = pc \/ \E s \in Stages \ Posted : pc' = [pc EXCEPT ![p] = s]
  <2>1. pc'[q] \in Posted => pc[q] \in Posted
    BY <1>0, <1>1, SenderTypes
  <2>2. QED BY <1>0, <1>1, <2>1 DEF SenderInv, Posted, Acked
<1>2. CASE /\ \E x \in Messages :
                 /\ x.kind = KindOf(p, Len(sent[p]) + 1)
                 /\ sent' = [sent EXCEPT ![p] = Append(@, x)]
           /\ outbox' = [outbox EXCEPT ![p] = Append(@, Len(sent[p]) + 1)]
           /\ UNCHANGED <<mailbox, limbo>>
           /\ \E s \in Stages \ Posted : pc' = [pc EXCEPT ![p] = s]
  <2>1. CASE q = p
    <3>1. PICK x \in Messages : /\ x.kind = KindOf(p, Len(sent[p]) + 1)
                                /\ sent' = [sent EXCEPT ![p] = Append(@, x)]
      BY <1>2
    <3>2. /\ Line(p, Append(sent[p], x), Append(outbox[p], Len(sent[p]) + 1), mailbox[Other(p)])
          /\ Loose(Append(sent[p], x), Append(outbox[p], Len(sent[p]) + 1), limbo[Other(p)])
      BY <1>0, <3>1, SenderTypes, LineEncrypt DEF SenderInv
    <3>3. /\ sent'[p] = Append(sent[p], x) /\ outbox'[p] = Append(outbox[p], Len(sent[p]) + 1)
          /\ pc'[p] \notin Posted
      BY <1>2, <3>1, SenderTypes, <1>0
    <3>4. QED BY <1>2, <2>1, <3>2, <3>3 DEF SenderInv, Posted
  <2>2. CASE q = Other(p)
    <3>1. sent'[q] = sent[q] /\ outbox'[q] = outbox[q] /\ pc'[q] = pc[q] /\ UNCHANGED <<mailbox, limbo>>
      BY <1>0, <1>2, <2>2, SenderTypes
    <3>2. QED BY <1>0, <3>1 DEF SenderInv, Acked
  <2>3. QED BY <1>0, <2>1, <2>2
<1>3. CASE Post(p)
  <2> DEFINE n == Head(outbox[p])
  <2>1. outbox[p] # <<>> /\ n = Acked(p) + 1 /\ n \in 1 .. Len(sent[p]) /\ Acked(p) \in Nat
    BY <1>0, <1>3, HeadFacts DEF Post
  <2>2. /\ mailbox' = [mailbox EXCEPT ![Other(p)] = Arrived(@, n)]
        /\ UNCHANGED <<sent, outbox, limbo>>
        /\ \E s \in Stages : pc' = [pc EXCEPT ![p] = s]
    BY <1>3 DEF Post, Accept, Goto, Stages, machine, Arrived
  <2> HIDE DEF n
  <2>3. CASE q = p
    <3>1. mailbox'[Other(p)] = Arrived(mailbox[Other(p)], n)
      BY <1>0, <2>2, SenderTypes
    <3>2. /\ Line(p, sent[p], outbox[p], Arrived(mailbox[Other(p)], n))
          /\ Len(Arrived(mailbox[Other(p)], n)) = Acked(p) + 1
      <4> DEFINE s == sent[p]
                 o == outbox[p]
                 m == mailbox[Other(p)]
      <4>1. s \in Seq(Messages) /\ o \in Seq(Nat) /\ m \in Seq(Nat) /\ n \in 1 .. Len(s) /\ Line(p, s, o, m)
        BY <1>0, <2>1, SenderTypes DEF SenderInv
      <4>2. Acked(p) = Len(s) - Len(o)
        BY Zenon DEF Acked
      <4> HIDE DEF s, o, m
      <4>3. n <= Len(s) - Len(o) + 1 /\ n = Len(s) - Len(o) + 1
        BY <2>1, <4>2
      <4>4. /\ Line(p, s, o, Arrived(m, n))
            /\ n = Len(s) - Len(o) + 1 \/ Len(m) = Len(s) - Len(o) + 1
                 => Len(Arrived(m, n)) = Len(s) - Len(o) + 1
        BY <4>1, <4>3, LineArrives
      <4>5. Len(Arrived(m, n)) = Len(s) - Len(o) + 1
        BY <4>3, <4>4, Zenon
      <4>6. QED BY <4>2, <4>4, <4>5 DEF s, o, m
    <3>3. QED BY <1>0, <2>1, <2>2, <2>3, <3>1, <3>2 DEF SenderInv, Acked
  <2>4. CASE q = Other(p)
    <3>1. mailbox'[Other(q)] = mailbox[Other(q)] /\ pc'[q] = pc[q]
      BY <1>0, <2>2, <2>4, SenderTypes
    <3>2. QED BY <1>0, <2>2, <3>1 DEF SenderInv, Acked
  <2>5. QED BY <1>0, <2>3, <2>4
<1>4. CASE AckOutgoing(p)
  <2>1. /\ outbox' = [outbox EXCEPT ![p] = Tail(@)] /\ UNCHANGED <<sent, mailbox, limbo>>
        /\ \E s \in Stages \ Posted : pc' = [pc EXCEPT ![p] = s]
        /\ pc[p] \in {"posted", "reposted"}
    <3>1. outbox' = [outbox EXCEPT ![p] = Tail(@)] /\ UNCHANGED <<sent, mailbox, limbo>> /\ pc[p] \in {"posted", "reposted"}
      BY <1>4 DEF AckOutgoing, network
    <3>2. pc' = [pc EXCEPT ![p] = "flushing"] \/ pc' = [pc EXCEPT ![p] = "reflushing"]
      BY <1>4 DEF AckOutgoing, Goto
    <3>3. "flushing" \in Stages \ Posted /\ "reflushing" \in Stages \ Posted
      BY DEF Stages, Posted
    <3>4. QED BY <3>1, <3>2, <3>3
  <2>2. CASE q = p
    <3>1. outbox[p] # <<>> /\ Len(mailbox[Other(p)]) = Len(sent[p]) - Len(outbox[p]) + 1
      BY <1>0, <2>1 DEF SenderInv, Acked
    <3>2. Line(p, sent[p], Tail(outbox[p]), mailbox[Other(p)]) /\ Loose(sent[p], Tail(outbox[p]), limbo[Other(p)])
      BY <1>0, <3>1, SenderTypes, LineConfirmed DEF SenderInv
    <3>3. outbox'[p] = Tail(outbox[p]) /\ pc'[p] \notin Posted
      BY <2>1, SenderTypes, <1>0
    <3>4. QED BY <2>1, <2>2, <3>2, <3>3 DEF SenderInv, Posted
  <2>3. CASE q = Other(p)
    <3>1. outbox'[q] = outbox[q] /\ pc'[q] = pc[q]
      BY <1>0, <2>1, <2>3, SenderTypes
    <3>2. QED BY <1>0, <2>1, <3>1 DEF SenderInv, Acked
  <2>4. QED BY <1>0, <2>2, <2>3
<1>5. CASE PostTimesOut(p)
  <2> DEFINE n == Head(outbox[p])
  <2>1. outbox[p] # <<>> /\ n = Acked(p) + 1 /\ n \in 1 .. Len(sent[p]) /\ Acked(p) \in Nat
    BY <1>0, <1>5, HeadFacts DEF PostTimesOut
  <2>2. /\ limbo' = [limbo EXCEPT ![Other(p)] = @ \cup {n}]
        /\ UNCHANGED <<sent, outbox, mailbox>>
        /\ pc' = [pc EXCEPT ![p] = "idle"]
    BY <1>5 DEF PostTimesOut, Goto, machine
  <2> HIDE DEF n
  <2>3. CASE q = p
    <3>1. Loose(sent[p], outbox[p], limbo'[Other(p)])
      <4>1. Loose(sent[p], outbox[p], limbo[Other(p)])
        BY <1>0 DEF SenderInv
      <4>2. n \in 1 .. Len(sent[p]) /\ n <= Len(sent[p]) - Len(outbox[p]) + 1
        <5>1. n <= Acked(p) + 1
          BY <2>1
        <5>2. QED BY <2>1, <5>1, Zenon DEF Acked
      <4>3. limbo'[Other(p)] = limbo[Other(p)] \cup {n}
        BY <1>0, <2>2, SenderTypes
      <4>4. QED BY <4>1, <4>2, <4>3, Zenon DEF Loose
    <3>2. pc'[p] = "idle"
      BY <2>2, SenderTypes, <1>0
    <3>3. QED BY <1>0, <2>2, <2>3, <3>1, <3>2 DEF SenderInv
  <2>4. CASE q = Other(p)
    <3>1. limbo'[Other(q)] = limbo[Other(q)] /\ pc'[q] = pc[q]
      BY <1>0, <2>2, <2>4, SenderTypes
    <3>2. QED BY <1>0, <2>2, <3>1 DEF SenderInv, Acked
  <2>5. QED BY <1>0, <2>3, <2>4
<1>6. CASE LateArrival(p)
  <2>1. PICK n \in limbo[p] : /\ mailbox' = [mailbox EXCEPT ![p] = Arrived(@, n)]
                              /\ limbo' = [limbo EXCEPT ![p] = @ \ {n}]
                              /\ UNCHANGED <<sent, outbox, pc>>
    BY <1>6 DEF LateArrival, Accept, machine, app, Arrived
  <2>2. CASE q = p
    <3>1. mailbox'[Other(q)] = mailbox[Other(q)] /\ limbo'[Other(q)] = limbo[Other(q)]
      BY <1>0, <2>1, <2>2, SenderTypes
    <3>2. QED BY <1>0, <2>1, <3>1 DEF SenderInv, Acked
  <2>3. CASE q = Other(p)
    <3>1. Other(q) = p
      BY <1>0, <2>3
    <3>2. mailbox'[p] = Arrived(mailbox[p], n) /\ limbo'[p] = limbo[p] \ {n}
      BY <1>0, <2>1, SenderTypes
    <3>3. /\ Line(q, sent[q], outbox[q], Arrived(mailbox[p], n))
          /\ Len(mailbox[p]) = Acked(q) + 1 => Len(Arrived(mailbox[p], n)) = Acked(q) + 1
      <4> DEFINE s == sent[q]
                 o == outbox[q]
                 m == mailbox[p]
      <4>1. s \in Seq(Messages) /\ o \in Seq(Nat) /\ m \in Seq(Nat) /\ Line(q, s, o, m)
        BY <1>0, <3>1, SenderTypes DEF SenderInv
      <4>2. n \in 1 .. Len(s) /\ n <= Len(s) - Len(o) + 1
        BY <1>0, <2>1, <3>1, Zenon DEF SenderInv, Loose
      <4>3. Acked(q) = Len(s) - Len(o)
        BY Zenon DEF Acked
      <4> HIDE DEF s, o, m
      <4>4. /\ Line(q, s, o, Arrived(m, n))
            /\ Len(m) = Len(s) - Len(o) + 1 => Len(Arrived(m, n)) = Len(s) - Len(o) + 1
        BY <4>1, <4>2, LineArrives
      <4>5. QED BY <4>3, <4>4 DEF s, o, m
    <3>4. Loose(sent[q], outbox[q], limbo'[p])
      BY <1>0, <3>1, <3>2, Zenon DEF SenderInv, Loose
    <3>5. QED BY <1>0, <2>1, <3>1, <3>2, <3>3, <3>4 DEF SenderInv, Acked
  <2>4. QED BY <1>0, <2>2, <2>3
<1>7. QED BY <1>1, <1>2, <1>3, <1>4, <1>5, <1>6, SenderCases
(* The handshake: who sends what depends on what has been received.         *)
LEMMA GreetingStep ==
  ASSUME IInv, NEW p \in Peers, Do(p), NEW q \in Peers
  PROVE  Greeting(q)'
<1>0. /\ Flags /\ Machines /\ Greeting(p) /\ Greeting(q) /\ (q = p \/ q # p)
      /\ sent[p] \in Seq(Messages) /\ Len(sent[p]) \in Nat
  BY DEF IInv, Machines
<1>1. CASE UNCHANGED <<sent, session, established>>
  BY <1>0, <1>1 DEF Greeting
<1>2. ASSUME NEW x, sent' = [sent EXCEPT ![p] = Append(@, x)], x \in Messages
      PROVE  /\ Len(sent'[p]) = Len(sent[p]) + 1
             /\ q # p => sent'[q] = sent[q]
  BY <1>0, <1>2, AppendTypes DEF Machines
<1>3. ASSUME NEW e \in Events, Send(p, e) PROVE Greeting(q)'
  <2>1. [kind |-> "event", event |-> e] \in Messages
    BY DEF Messages, Kinds
  <2>2. /\ established[p] /\ UNCHANGED <<session, established>>
        /\ sent' = [sent EXCEPT ![p] = Append(@, [kind |-> "event", event |-> e])]
    BY <1>3 DEF Send, Encrypt
  <2>3. Len(sent'[p]) = Len(sent[p]) + 1 /\ (q # p => sent'[q] = sent[q])
    BY <1>2, <2>1, <2>2
  <2>4. Len(sent'[p]) >= 1 /\ (p # Joiner => session[p])
    BY <1>0, <2>2, <2>3 DEF Greeting
  <2>5. QED BY <1>0, <2>2, <2>3, <2>4 DEF Greeting
<1>4. CASE ReceiveHello(p)
  <2>1. [kind |-> "ack", event |-> NoEvent] \in Messages
    BY DEF Messages, Kinds
  <2>2. /\ ~session[p]
        /\ session' = [session EXCEPT ![p] = TRUE] /\ established' = [established EXCEPT ![p] = TRUE]
        /\ sent' = [sent EXCEPT ![p] = Append(@, [kind |-> "ack", event |-> NoEvent])]
    BY <1>4 DEF ReceiveHello, Encrypt
  <2>3. Len(sent'[p]) = Len(sent[p]) + 1 /\ (q # p => sent'[q] = sent[q])
    BY <1>2, <2>1, <2>2
  <2>4. session'[p] = TRUE /\ established'[p] = TRUE
        /\ (q # p => session'[q] = session[q] /\ established'[q] = established[q])
    BY <1>0, <2>2 DEF Flags
  <2>5. Len(sent'[p]) >= 1
    BY <1>0, <2>3
  <2>6. QED BY <1>0, <2>2, <2>3, <2>4, <2>5 DEF Greeting
<1>5. CASE ReceiveAck(p)
  <2>1. /\ session[p] /\ ~established[p] /\ UNCHANGED <<sent, session>>
        /\ established' = [established EXCEPT ![p] = TRUE]
    BY <1>5 DEF ReceiveAck, Decryptable
  <2>2. p = Joiner
    BY <1>0, <2>1 DEF Greeting
  <2>3. established'[p] = TRUE /\ (q # p => established'[q] = established[q])
    BY <1>0, <2>1 DEF Flags
  <2>4. QED BY <1>0, <2>1, <2>2, <2>3 DEF Greeting
<1>6. CASE Confirm(p) \/ Record(p) \/ Interrupt(p) \/ PostTimesOut(p) \/ LateArrival(p)
  BY <1>1, <1>6 DEF Confirm, Record, Interrupt, PostTimesOut, LateArrival, machine, app, network
<1>7. CASE StartSync(p) \/ Post(p) \/ AckOutgoing(p) \/ FlushDone(p) \/ Fetch(p) \/ BatchReceived(p) \/ SaveCursor(p) \/ StoreEvent(p)
           \/ AckIncoming(p) \/ SyncDone(p)
  BY <1>1, <1>7 DEF StartSync, Post, AckOutgoing, FlushDone, Fetch, BatchReceived, SaveCursor, StoreEvent,
       AckIncoming, SyncDone, machine
<1>8. CASE Repeated(p) \/ ReceiveEvent(p) \/ ReceiveStopped(p) \/ Skip(p)
  BY <1>1, <1>8 DEF Repeated, ReceiveEvent, ReceiveStopped, Skip, machine
<1>9. QED BY <1>3, <1>4, <1>5, <1>6, <1>7, <1>8 DEF Do, Sync

(* The mailbox of a device only grows.                                      *)
LEMMA MailGrows ==
  ASSUME Machines, NEW p \in Peers, Do(p), NEW q \in Peers
  PROVE  Len(mailbox[q]) \in Nat /\ Len(mailbox'[q]) \in Nat /\ Len(mailbox[q]) <= Len(mailbox'[q])
<1>1. /\ mailbox[q] \in Seq(Nat) /\ Len(mailbox[q]) \in Nat
      /\ \A r, n : mailbox' = [mailbox EXCEPT ![r] = IF n \in Elements(@) THEN @ ELSE Append(@, n)]
           => mailbox'[q] = mailbox[q] \/ mailbox'[q] = Append(mailbox[q], n)
  <2>1. mailbox \in [Peers -> Seq(Nat)]
    BY DEF Machines
  <2>2. mailbox[q] \in Seq(Nat) /\ Len(mailbox[q]) \in Nat
    BY <2>1
  <2>3. SUFFICES ASSUME NEW r, NEW n,
                        mailbox' = [mailbox EXCEPT ![r] = IF n \in Elements(@) THEN @ ELSE Append(@, n)]
                 PROVE  mailbox'[q] = mailbox[q] \/ mailbox'[q] = Append(mailbox[q], n)
    BY <2>2, Zenon
  <2>4. QED BY <2>1, <2>3
<1>2. ASSUME NEW n PROVE Len(Append(mailbox[q], n)) = Len(mailbox[q]) + 1
  BY <1>1
<1>3. mailbox'[q] = mailbox[q] \/ \E n : mailbox'[q] = Append(mailbox[q], n)
  <2>1. mailbox' = mailbox \/ \E r, n : Accept(r, n)
    BY MachineChanges, Zenon
  <2>2. ASSUME NEW r, NEW n, Accept(r, n)
        PROVE  mailbox'[q] = mailbox[q] \/ mailbox'[q] = Append(mailbox[q], n)
    BY <1>1, <2>2 DEF Accept
  <2>3. QED BY <2>1, <2>2
<1>4. QED BY <1>1, <1>2, <1>3
(* What is in hand of a batch, and what a device may have stored.           *)
InHand == {"receiving", "reflushing", "reposted", "saving"}

(* What a device has received, when nothing of it changes.                  *)
LEMMA GotKept ==
  ASSUME NEW q \in Peers, NEW u \in Nat, Got(q, u), fetched[q] \in Nat,
         used'[q] = used[q], cursor'[q] = cursor[q], established'[q] = established[q],
         receipts'[q] = receipts[q], inbox'[q] = inbox[q], stored'[q] = stored[q],
         fetched'[q] = fetched[q], at'[q] = at[q],
         Len(mailbox[q]) \in Nat, Len(mailbox'[q]) \in Nat, Len(mailbox[q]) <= Len(mailbox'[q]),
         pc'[q] = "handled" => pc[q] = "handled",
         pc'[q] \in InHand => pc[q] \in InHand /\ (pc'[q] # "receiving" => pc[q] # "receiving" \/ at[q] = fetched[q])
  PROVE  Got(q, u)'
<1> DEFINE m == Len(mailbox[q])
           k == Len(mailbox'[q])
<1>1. m \in Nat /\ k \in Nat /\ m <= k /\ u <= m
  BY DEF Got
<1>2. u <= k /\ (fetched[q] <= m => fetched[q] <= k)
  BY <1>1
<1>3. u <= Len(mailbox'[q]) /\ (fetched[q] <= Len(mailbox[q]) => fetched'[q] <= Len(mailbox'[q]))
  BY <1>2
<1> HIDE DEF m, k
<1>4. pc'[q] \in InHand =>
        /\ at'[q] <= u /\ at'[q] <= fetched'[q] /\ fetched'[q] <= Len(mailbox'[q])
        /\ pc'[q] # "receiving" => at'[q] = fetched'[q]
  BY <1>3 DEF Got, InHand
<1>5. QED BY <1>3, <1>4, Zenon DEF Got, InHand

(* The first message a device receives is the other's greeting.             *)
LEMMA FirstMessage ==
  ASSUME Machines, Flags, Passes, NEW p \in Peers, Greeting(p), SenderInv(Other(p)), NEW u \in Nat, Got(p, u), More(p),
         Incoming(p) \notin used[p]
  PROVE  /\ Incoming(p) = u + 1 /\ at[p] + 1 = u + 1
         /\ ~Rejected(p)
<1>1. /\ Incoming(p) = at[p] + 1 /\ Incoming(p) \in Nat /\ Incoming(p) <= u + 1
      /\ Content(p).kind = KindOf(Other(p), Incoming(p))
  BY IncomingFacts
<1>2. at[p] \in Nat /\ used[p] = 1 .. u
  BY DEF Passes, Got
<1>3. Incoming(p) = u + 1 /\ at[p] + 1 = u + 1
  BY <1>1, <1>2
<1>4. ~established[p] => Content(p).kind = IF p = Joiner THEN "ack" ELSE "hello"
  <2>1. SUFFICES ASSUME ~established[p] PROVE Content(p).kind = IF p = Joiner THEN "ack" ELSE "hello"
    OBVIOUS
  <2>2. u = 0
    BY <2>1 DEF Got
  <2>3. KindOf(Other(p), 1) = IF p = Joiner THEN "ack" ELSE "hello"
    BY MailboxAssumption DEF KindOf, Other, Peers
  <2>4. QED BY <1>1, <1>3, <2>2, <2>3
<1>5. established[p] => Content(p).kind = "event"
  <2>1. SUFFICES ASSUME established[p] PROVE Content(p).kind = "event"
    OBVIOUS
  <2>2. u >= 1
    BY <2>1 DEF Got
  <2>3. Incoming(p) > 1
    BY <1>3, <2>2
  <2>4. QED BY <1>1, <2>3 DEF KindOf
<1>6. /\ session[p] => p = Joiner \/ established[p]
      /\ ~session[p] => p # Joiner /\ ~established[p]
  BY DEF Greeting
<1>7. ~Rejected(p)
  BY <1>4, <1>5, <1>6 DEF Rejected, Decryptable
<1>8. QED BY <1>3, <1>7
(* The types of what a receiver holds.                                      *)
LEMMA GotTypes ==
  ASSUME IInv, NEW p \in Peers, Do(p), NEW q \in Peers
  PROVE  /\ fetched[q] \in Nat /\ at[q] \in Nat /\ cursor[q] \in Nat /\ pc[q] \in Stages
         /\ inbox[q] \in Seq(Nat) /\ receipts[q] \in Seq(Nat)
         /\ Len(mailbox[q]) \in Nat /\ Len(mailbox'[q]) \in Nat /\ Len(mailbox[q]) <= Len(mailbox'[q])
         /\ DOMAIN used = Peers /\ DOMAIN cursor = Peers /\ DOMAIN established = Peers /\ DOMAIN receipts = Peers
         /\ DOMAIN inbox = Peers /\ DOMAIN stored = Peers /\ DOMAIN fetched = Peers /\ DOMAIN at = Peers /\ DOMAIN pc = Peers
<1>1. Machines /\ Flags /\ Passes
  BY DEF IInv
<1>2. Len(mailbox[q]) \in Nat /\ Len(mailbox'[q]) \in Nat /\ Len(mailbox[q]) <= Len(mailbox'[q])
  BY <1>1, MailGrows
<1>3. QED BY <1>1, <1>2 DEF Machines, Flags, Passes

received == <<used, cursor, established, receipts, inbox, stored, fetched, at>>

(* The other device keeps what it has received.                             *)
LEMMA GotElsewhere ==
  ASSUME IInv, NEW p \in Peers, Do(p), NEW q \in Peers, q # p, NEW u \in Nat, Got(q, u)
  PROVE  Got(q, u)'
<1>1. used'[q] = used[q] /\ receipts'[q] = receipts[q] /\ inbox'[q] = inbox[q]
  <2>1. /\ used' = used \/ Spend(p)
        /\ receipts' = receipts \/ Receipt(p)
        /\ inbox' = inbox \/ \E v : inbox' = [inbox EXCEPT ![p] = v]
    BY MachineChanges, Zenon
  <2>2. QED BY <2>1, GotTypes DEF Spend, Receipt
<1>2. stored'[q] = stored[q] /\ cursor'[q] = cursor[q] /\ fetched'[q] = fetched[q] /\ at'[q] = at[q] /\ pc'[q] = pc[q]
  <2>1. /\ stored' = stored \/ \E v : stored' = [stored EXCEPT ![p] = v]
        /\ cursor' = cursor \/ \E v : cursor' = [cursor EXCEPT ![p] = v]
        /\ pc' = pc \/ \E v : pc' = [pc EXCEPT ![p] = v]
    BY PassChanges, Zenon
  <2>5. /\ fetched' = fetched \/ \E v : fetched' = [fetched EXCEPT ![p] = v]
        /\ at' = at \/ \E v : at' = [at EXCEPT ![p] = v]
    BY PassChanges, Zenon
  <2>2. stored'[q] = stored[q] /\ cursor'[q] = cursor[q] /\ pc'[q] = pc[q]
    BY <2>1, GotTypes
  <2>3. fetched'[q] = fetched[q] /\ at'[q] = at[q]
    BY <2>5, GotTypes
  <2>4. QED BY <2>2, <2>3
<1>3. established'[q] = established[q]
  <2>1. established' = established \/ \E v : established' = [established EXCEPT ![p] = v]
    BY DEF Do, Confirm, Send, Record, Sync, StartSync, Post, AckOutgoing, FlushDone, Fetch, Repeated,
        ReceiveHello, ReceiveAck, ReceiveEvent, ReceiveStopped, Skip, BatchReceived, SaveCursor,
        StoreEvent, AckIncoming, SyncDone, PostTimesOut, LateArrival, Interrupt, machine
  <2>2. QED BY <2>1, GotTypes
<1>4. QED BY <1>1, <1>2, <1>3, GotTypes, GotKept

(* The steps that receive nothing.                                          *)
Idle(p) ==
  /\ UNCHANGED received
  /\ \/ pc' = pc
     \/ \E s \in Stages \ (InHand \cup {"handled"}) : pc' = [pc EXCEPT ![p] = s]
     \/ pc[p] = "receiving" /\ at[p] = fetched[p] /\ pc' = [pc EXCEPT ![p] = "reflushing"]
     \/ pc[p] \in InHand \ {"receiving"} /\ \E s \in InHand : pc' = [pc EXCEPT ![p] = s]

LEMMA GotIdle ==
  ASSUME IInv, NEW p \in Peers, Do(p), Idle(p), NEW u \in Nat, Got(p, u)
  PROVE  Got(p, u)'
<1>1. /\ pc'[p] = "handled" => pc[p] = "handled"
      /\ pc'[p] \in InHand => pc[p] \in InHand /\ (pc'[p] # "receiving" => pc[p] # "receiving" \/ at[p] = fetched[p])
  BY GotTypes DEF Idle, InHand
<1>2. QED BY <1>1, GotTypes, GotKept DEF Idle, received

(* Every other step moves the batch or the inbox.                           *)
LEMMA ReceiverCases ==
  ASSUME IInv, NEW p \in Peers, Do(p)
  PROVE  \/ Idle(p) \/ Fetch(p) \/ Repeated(p) \/ Skip(p) \/ ReceiveHello(p) \/ ReceiveAck(p) \/ ReceiveEvent(p)
         \/ SaveCursor(p) \/ StoreEvent(p) \/ AckIncoming(p)
<1>1. CASE Confirm(p) \/ Record(p) \/ Interrupt(p) \/ PostTimesOut(p) \/ LateArrival(p)
  BY <1>1 DEF Confirm, Record, Interrupt, PostTimesOut, LateArrival, Goto, Stages, InHand, Idle, received, machine, app, network
<1>2. ASSUME NEW e \in Events, Send(p, e) PROVE Idle(p)
  BY <1>2 DEF Send, Encrypt, Goto, Stages, InHand, Idle, received, network
<1>3. CASE StartSync(p) \/ SyncDone(p) \/ ReceiveStopped(p)
  BY <1>3 DEF StartSync, SyncDone, ReceiveStopped, Goto, Stages, InHand, Idle, received, machine, network
<1>4. CASE Post(p) \/ AckOutgoing(p) \/ FlushDone(p)
  BY <1>4 DEF Post, AckOutgoing, FlushDone, Flushing, Goto, Stages, InHand, Idle, received, machine, network
<1>5. CASE BatchReceived(p)
  BY <1>5 DEF BatchReceived, Goto, Idle, received, machine, network
<1>6. QED BY <1>1, <1>2, <1>3, <1>4, <1>5 DEF Do, Sync
(* A batch is fetched, and its cursor saved.                                *)
LEMMA GotFetch ==
  ASSUME IInv, NEW p \in Peers, Do(p), NEW u \in Nat, Got(p, u), Fetch(p) \/ SaveCursor(p)
  PROVE  Got(p, u)'
<1>1. CASE Fetch(p)
  <2> DEFINE n == IF Len(mailbox[p]) <= cursor[p] + Batch THEN Len(mailbox[p]) ELSE cursor[p] + Batch
  <2>1. /\ UNCHANGED <<used, cursor, established, receipts, inbox, stored, mailbox>> /\ pc[p] = "fetching"
        /\ pc' = [pc EXCEPT ![p] = "receiving"] /\ at' = [at EXCEPT ![p] = cursor[p]]
        /\ fetched' = [fetched EXCEPT ![p] = n]
    BY <1>1 DEF Fetch, Goto, machine, network
  <2>2. cursor[p] <= n /\ n <= Len(mailbox[p])
    <3>1. cursor[p] <= u /\ u <= Len(mailbox[p]) /\ Batch \in Nat
      BY MailboxAssumption DEF Got
    <3>2. QED BY <3>1, GotTypes
  <2> HIDE DEF n
  <2>3. at'[p] = cursor[p] /\ fetched'[p] = n /\ pc'[p] = "receiving"
    BY <2>1, GotTypes
  <2>4. QED BY <2>1, <2>2, <2>3 DEF Got
<1>2. CASE SaveCursor(p)
  <2>1. /\ UNCHANGED <<used, established, receipts, inbox, stored, mailbox>> /\ pc[p] = "saving"
        /\ pc' = [pc EXCEPT ![p] = "storing"] /\ cursor' = [cursor EXCEPT ![p] = fetched[p]]
    BY <1>2 DEF SaveCursor, Goto, machine, network
  <2>2. fetched[p] <= u
    BY <2>1 DEF Got
  <2>3. cursor'[p] = fetched[p] /\ pc'[p] = "storing"
    BY <2>1, GotTypes
  <2>4. QED BY <2>1, <2>2, <2>3 DEF Got
<1>3. QED BY <1>1, <1>2

(* A message received before is passed over.                                *)
LEMMA GotAgain ==
  ASSUME IInv, NEW p \in Peers, Do(p), NEW u \in Nat, Got(p, u), Repeated(p) \/ Skip(p)
  PROVE  Got(p, u)'
<1>0. Machines /\ Flags /\ Passes /\ Greeting(p) /\ SenderInv(Other(p))
  BY PeerFacts DEF IInv
<1>1. /\ UNCHANGED <<used, cursor, established, receipts, inbox, stored, mailbox, pc, fetched>> /\ More(p)
      /\ at' = [at EXCEPT ![p] = @ + 1]
      /\ KnownReceipt(p) \/ Rejected(p)
  BY DEF Repeated, Skip, Advance, machine, network
<1>2. Incoming(p) \in 1 .. u
  <2>1. CASE KnownReceipt(p)
    BY <2>1 DEF KnownReceipt, Elements, Got
  <2>2. CASE Rejected(p)
    BY <1>0, <1>1, <2>2, FirstMessage DEF Got
  <2>3. QED BY <1>1, <2>1, <2>2
<1>3. Incoming(p) = at[p] + 1 /\ Incoming(p) <= fetched[p]
  BY <1>0, <1>1, IncomingFacts
<1>4. at'[p] <= u /\ at'[p] <= fetched[p]
  <2>1. at'[p] = at[p] + 1
    BY <1>1, GotTypes
  <2>2. Incoming(p) <= u
    BY <1>2
  <2>3. QED BY <1>3, <2>1, <2>2
<1>5. pc[p] = "receiving"
  BY <1>1 DEF More
<1>6. fetched[p] <= Len(mailbox[p])
  BY <1>5 DEF Got
<1>7. QED BY <1>1, <1>4, <1>5, <1>6 DEF Got

(* The last receipts are of messages received.                              *)
LEMMA ReceiptStep ==
  ASSUME NEW p \in Peers, receipts \in [Peers -> Seq(Nat)], NEW u \in Nat, Incoming(p) = u + 1, Receipt(p),
         \A i \in 1 .. Len(receipts[p]) : receipts[p][i] \in 1 .. u
  PROVE  \A i \in 1 .. Len(receipts'[p]) : receipts'[p][i] \in 1 .. (u + 1)
<1> DEFINE r == receipts[p]
           longer == Append(r, Incoming(p))
<1>0. r \in Seq(Nat) /\ Incoming(p) \in Nat
  OBVIOUS
<1> HIDE DEF r
<1>1. /\ r \in Seq(Nat) /\ Incoming(p) \in Nat
      /\ longer \in Seq(Nat) /\ longer # <<>> /\ Len(longer) = Len(r) + 1 /\ Len(r) \in Nat
      /\ \A i \in 1 .. Len(r) : longer[i] = r[i]
      /\ longer[Len(r) + 1] = u + 1
  BY <1>0, AppendTypes
<1>2. receipts'[p] = longer \/ receipts'[p] = Tail(longer)
  BY DEF Receipt, r
<1>6. \A i \in 1 .. Len(r) : r[i] \in 1 .. u
  BY DEF r
<1> HIDE DEF longer
<1>3. \A i \in 1 .. Len(longer) : longer[i] \in 1 .. (u + 1)
  <2>1. SUFFICES ASSUME NEW i \in 1 .. Len(longer) PROVE longer[i] \in 1 .. (u + 1)
    OBVIOUS
  <2>2. CASE i = Len(r) + 1
    BY <1>1, <2>2
  <2>3. CASE i # Len(r) + 1
    <3>1. i \in 1 .. Len(r)
      BY <1>1, <2>3
    <3>2. longer[i] = r[i] /\ r[i] \in 1 .. u
      BY <1>1, <1>6, <3>1
    <3>3. QED BY <3>2
  <2>4. QED BY <2>2, <2>3
<1>4. ASSUME NEW i \in 1 .. Len(Tail(longer)) PROVE Tail(longer)[i] \in 1 .. (u + 1)
  <2>1. Len(Tail(longer)) = Len(longer) - 1 /\ Tail(longer)[i] = longer[i + 1] /\ Len(longer) \in Nat
    BY <1>1, TailTypes
  <2>2. i + 1 \in 1 .. Len(longer)
    BY <2>1
  <2>3. QED BY <1>3, <2>1, <2>2
<1>5. QED BY <1>2, <1>3, <1>4

(* The next message is received.                                            *)
LEMMA GotNext ==
  ASSUME IInv, NEW p \in Peers, Do(p), NEW u \in Nat, Got(p, u),
         ReceiveHello(p) \/ ReceiveAck(p) \/ ReceiveEvent(p)
  PROVE  Got(p, u + 1)'
<1>0. Machines /\ Flags /\ Passes /\ Greeting(p) /\ SenderInv(Other(p))
  BY PeerFacts DEF IInv
<1>1. /\ UNCHANGED <<cursor, stored, mailbox, pc, fetched>> /\ More(p)
      /\ at' = [at EXCEPT ![p] = @ + 1]
      /\ Receipt(p) /\ Spend(p)
  BY DEF ReceiveHello, ReceiveAck, ReceiveEvent, Advance, network
<1>2. Incoming(p) \notin used[p]
  <2>1. CASE ReceiveHello(p)
    <3>1. ~session[p]
      BY <2>1 DEF ReceiveHello
    <3>2. used[p] = {}
      BY <1>0, <3>1 DEF Greeting, Got
    <3>3. QED BY <3>2
  <2>2. CASE ReceiveAck(p) \/ ReceiveEvent(p)
    BY <2>2 DEF ReceiveAck, ReceiveEvent, Decryptable
  <2>3. QED BY <2>1, <2>2
<1>3. Incoming(p) = u + 1 /\ at[p] + 1 = u + 1 /\ Incoming(p) <= fetched[p]
  BY <1>0, <1>1, <1>2, FirstMessage, IncomingFacts
<1>4. pc'[p] = "receiving" /\ fetched[p] <= Len(mailbox[p])
  BY <1>1 DEF More, Got
<1>5. at'[p] <= u + 1 /\ at'[p] <= fetched'[p] /\ fetched'[p] <= Len(mailbox'[p])
  <2>1. at'[p] = at[p] + 1
    BY <1>1, GotTypes
  <2>2. QED BY <1>1, <1>3, <1>4, <2>1
<1>6. used'[p] = 1 .. (u + 1)
  <2>1. used[p] = 1 .. u /\ used'[p] = used[p] \cup {u + 1}
    BY <1>1, <1>3, GotTypes DEF Got, Spend
  <2>2. QED BY <2>1
<1>7. u + 1 <= Len(mailbox'[p]) /\ cursor'[p] <= u + 1
  <2>1. cursor[p] <= u
    BY DEF Got
  <2>2. QED BY <1>1, <1>3, <1>4, <2>1, GotTypes
<1>8. established'[p] <=> u + 1 >= 1
  <2>1. established'[p] = TRUE
    <3>1. CASE ReceiveHello(p) \/ ReceiveAck(p)
      BY <3>1, GotTypes DEF ReceiveHello, ReceiveAck
    <3>2. CASE ReceiveEvent(p)
      BY <1>0, <3>2 DEF ReceiveEvent, Flags
    <3>3. QED BY <3>1, <3>2
  <2>2. QED BY <2>1
<1>9. \A i \in 1 .. Len(receipts'[p]) : receipts'[p][i] \in 1 .. (u + 1)
  BY <1>0, <1>1, <1>3, ReceiptStep DEF Got, Machines
<1>13. PICK w \in Nat : w = u + 1
  OBVIOUS
<1>10. /\ Len(inbox'[p]) < w \/ inbox'[p] = <<>>
       /\ \A i \in 1 .. Len(inbox'[p]) : inbox'[p][i] = w - Len(inbox'[p]) + i
       /\ \/ stored'[p] = 2 .. (w - Len(inbox'[p])) /\ pc'[p] # "handled"
          \/ stored'[p] = 2 .. (w - Len(inbox'[p]) + 1) /\ inbox'[p] # <<>>
  <2>0. pc[p] # "handled" /\ inbox[p] \in Seq(Nat) /\ Len(inbox[p]) \in Nat
    BY <1>1, GotTypes DEF More
  <2>1. CASE ReceiveHello(p) \/ ReceiveAck(p)
    <3>1. inbox' = inbox /\ ~established[p]
      <4>1. CASE ReceiveHello(p)
        BY <1>0, <4>1 DEF ReceiveHello, Greeting
      <4>2. CASE ReceiveAck(p)
        BY <4>2 DEF ReceiveAck
      <4>3. QED BY <2>1, <4>1, <4>2
    <3>2. u = 0
      BY <3>1 DEF Got
    <3>3. inbox[p] = <<>>
      BY <2>0, <3>2 DEF Got
    <3>4. stored[p] = {} /\ Len(inbox[p]) = 0
      BY <3>2, <3>3 DEF Got
    <3>5. QED BY <1>1, <1>4, <1>13, <3>1, <3>2, <3>3, <3>4
  <2>2. CASE ReceiveEvent(p)
    <3> DEFINE x == inbox[p]
               y == inbox'[p]
    <3>1. u >= 1
      BY <2>2 DEF ReceiveEvent, Got
    <3>2. y = Append(x, u + 1)
      <4>1. inbox' = [inbox EXCEPT ![p] = Append(@, Incoming(p))] /\ DOMAIN inbox = Peers
        BY <2>2, GotTypes DEF ReceiveEvent
      <4>2. Incoming(p) = u + 1
        BY <1>3
      <4>3. QED BY <4>1, <4>2
    <3>3. /\ y # <<>> /\ Len(y) = Len(x) + 1 /\ Len(x) \in Nat
          /\ \A i \in 1 .. Len(x) : y[i] = x[i]
          /\ y[Len(x) + 1] = u + 1
      <4>1. x \in Seq(Nat) /\ u + 1 \in Nat
        BY <2>0
      <4> HIDE DEF x, y
      <4>2. QED BY <3>2, <4>1, AppendTypes
    <3>4. /\ Len(x) < u \/ x = <<>>
          /\ \A i \in 1 .. Len(x) : x[i] = u - Len(x) + i
          /\ stored[p] = 2 .. (u - Len(x)) \/ (stored[p] = 2 .. (u - Len(x) + 1) /\ x # <<>>)
      BY DEF Got
    <3>5. Len(x) < u
      BY <3>1, <3>4
    <3> HIDE DEF x, y
    <3>6. w - Len(y) = u - Len(x) /\ Len(y) < w
      BY <1>13, <3>3, <3>5
    <3>7. ASSUME NEW i \in 1 .. Len(y) PROVE y[i] = w - Len(y) + i
      <4>1. CASE i = Len(x) + 1
        BY <1>13, <3>3, <3>6, <4>1
      <4>2. CASE i # Len(x) + 1
        <5>1. i \in 1 .. Len(x)
          BY <3>3, <4>2
        <5>2. QED BY <3>3, <3>4, <3>6, <5>1
      <4>3. QED BY <4>1, <4>2
    <3>8. stored'[p] = stored[p] /\ pc'[p] # "handled"
      BY <1>1, <1>4
    <3>9. \/ stored'[p] = 2 .. (w - Len(y)) /\ pc'[p] # "handled"
          \/ stored'[p] = 2 .. (w - Len(y) + 1) /\ y # <<>>
      BY <3>3, <3>4, <3>6, <3>8
    <3>10. QED BY <3>6, <3>7, <3>9 DEF y
  <2>3. QED BY <2>1, <2>2
<1>11. pc'[p] # "handled" /\ ~(pc'[p] # "receiving")
  BY <1>4
<1>12. pc'[p] \in {"receiving", "reflushing", "reposted", "saving"} =>
         /\ at'[p] <= u + 1 /\ at'[p] <= fetched'[p] /\ fetched'[p] <= Len(mailbox'[p])
         /\ pc'[p] # "receiving" => at'[p] = fetched'[p]
  BY <1>5, <1>11
<1>14. /\ used'[p] = 1 .. w /\ w <= Len(mailbox'[p]) /\ cursor'[p] <= w
       /\ established'[p] <=> w >= 1
       /\ \A i \in 1 .. Len(receipts'[p]) : receipts'[p][i] \in 1 .. w
  BY <1>6, <1>7, <1>8, <1>9, <1>13, Zenon
<1>15. pc'[p] \in {"receiving", "reflushing", "reposted", "saving"} =>
         /\ at'[p] <= w /\ at'[p] <= fetched'[p] /\ fetched'[p] <= Len(mailbox'[p])
         /\ pc'[p] # "receiving" => at'[p] = fetched'[p]
  BY <1>12, <1>13, Zenon
<1>17. Got(p, w)'
  BY <1>10, <1>14, <1>15, Zenon DEF Got
<1>18. QED BY <1>13, <1>17

(* The oldest message of the inbox is stored.                               *)
LEMMA GotStored ==
  ASSUME IInv, NEW p \in Peers, Do(p), NEW u \in Nat, Got(p, u), StoreEvent(p)
  PROVE  Got(p, u)'
<1> DEFINE x == inbox[p]
<1>1. /\ UNCHANGED <<used, established, cursor, receipts, inbox, mailbox>> /\ x # <<>>
      /\ pc' = [pc EXCEPT ![p] = "handled"] /\ stored' = [stored EXCEPT ![p] = @ \cup {Head(x)}]
  BY DEF StoreEvent, Deliveries, Goto, machine, network
<1>2. x \in Seq(Nat) /\ Len(x) \in Nat \ {0} /\ Head(x) = x[1]
  BY <1>1, GotTypes, TailTypes
<1>3. Len(x) < u /\ x[1] = u - Len(x) + 1
  <2>1. 1 \in 1 .. Len(x)
    BY <1>2
  <2>2. QED BY <1>1, <2>1 DEF Got
<1>4. pc'[p] = "handled" /\ stored'[p] = stored[p] \cup {u - Len(x) + 1}
  BY <1>1, <1>2, <1>3, GotTypes
<1>5. stored[p] = 2 .. (u - Len(x)) \/ stored[p] = 2 .. (u - Len(x) + 1)
  BY DEF Got
<1> HIDE DEF x
<1>6. stored'[p] = 2 .. (u - Len(x) + 1)
  BY <1>2, <1>3, <1>4, <1>5
<1>7. stored'[p] = 2 .. (u - Len(inbox'[p]) + 1) /\ inbox'[p] # <<>>
  BY <1>1, <1>6 DEF x
<1>8. used'[p] = used[p] /\ established'[p] = established[p] /\ cursor'[p] = cursor[p]
      /\ receipts'[p] = receipts[p] /\ inbox'[p] = inbox[p] /\ mailbox'[p] = mailbox[p]
  BY <1>1
<1>9. pc'[p] \notin {"receiving", "reflushing", "reposted", "saving"}
  BY <1>4
<1>10. QED BY <1>7, <1>8, <1>9, Zenon DEF Got

(* It is acknowledged.                                                      *)
LEMMA GotAcked ==
  ASSUME IInv, NEW p \in Peers, Do(p), NEW u \in Nat, Got(p, u), AckIncoming(p)
  PROVE  Got(p, u)'
<1> DEFINE x == inbox[p]
           y == inbox'[p]
<1>1. /\ UNCHANGED <<used, established, cursor, receipts, stored, mailbox>> /\ pc[p] = "handled"
      /\ pc' = [pc EXCEPT ![p] = "storing"] /\ inbox' = [inbox EXCEPT ![p] = Tail(@)]
  BY DEF AckIncoming, Goto, network
<1>2. x # <<>> /\ stored[p] = 2 .. (u - Len(x) + 1)
  BY <1>1 DEF Got
<1>3. y = Tail(x) /\ pc'[p] = "storing"
  BY <1>1, GotTypes
<1>4. /\ Len(x) \in Nat \ {0} /\ Len(y) = Len(x) - 1
      /\ \A i \in 1 .. Len(y) : y[i] = x[i + 1]
  BY <1>2, <1>3, GotTypes, TailTypes
<1>5. Len(x) < u /\ \A i \in 1 .. Len(x) : x[i] = u - Len(x) + i
  BY <1>2 DEF Got
<1> HIDE DEF x, y
<1>6. Len(y) < u /\ u - Len(y) = u - Len(x) + 1
  BY <1>4, <1>5
<1>7. ASSUME NEW i \in 1 .. Len(y) PROVE y[i] = u - Len(y) + i
  <2>1. i + 1 \in 1 .. Len(x) /\ y[i] = x[i + 1]
    BY <1>4
  <2>2. QED BY <1>4, <1>5, <1>6, <2>1
<1>8. stored'[p] = 2 .. (u - Len(y)) /\ pc'[p] # "handled"
  BY <1>1, <1>2, <1>3, <1>6
<1>9. used'[p] = used[p] /\ established'[p] = established[p] /\ cursor'[p] = cursor[p]
      /\ receipts'[p] = receipts[p] /\ mailbox'[p] = mailbox[p]
  BY <1>1
<1>10. pc'[p] \notin {"receiving", "reflushing", "reposted", "saving"}
  BY <1>3
<1>11. QED BY <1>6, <1>7, <1>8, <1>9, <1>10, Zenon DEF Got, y

LEMMA ReceiverStep ==
  ASSUME IInv, NEW p \in Peers, Do(p), NEW q \in Peers
  PROVE  ReceiverInv(q)'
<1>1. PICK u \in Nat : Got(q, u)
  BY DEF IInv, ReceiverInv
<1>2. u + 1 \in Nat
  OBVIOUS
<1>3. CASE q # p
  BY <1>1, <1>3, GotElsewhere DEF ReceiverInv
<1>4. CASE q = p
  <2>1. Got(p, u)' \/ Got(p, u + 1)'
    BY <1>1, <1>4, ReceiverCases, GotIdle, GotFetch, GotAgain, GotNext, GotStored, GotAcked
  <2>2. QED BY <1>2, <1>4, <2>1 DEF ReceiverInv
<1>5. QED BY <1>3, <1>4-----------------------------------------------------------------------------
(* The devices begin as the machine of a fresh pairing.                     *)
LEMMA InitInv == Init => IInv
<1> SUFFICES ASSUME Init PROVE IInv
  OBVIOUS
<1>0. Peers = {Creator, Joiner} /\ Creator # Joiner
  BY PeerFacts
<1>1. [kind |-> "hello", event |-> NoEvent] \in Messages
  BY DEF Messages, Kinds
<1>2. Machines
  BY <1>1 DEF Init, Machines
<1>3. Flags
  BY DEF Init, Flags
<1>4. Passes
  BY DEF Init, Passes, Stages, Flushing
<1>5. Ids
  BY DEF Init, Ids
<1>6. ASSUME NEW p \in Peers PROVE SenderInv(p)
  <2>1. mailbox[Other(p)] = <<>> /\ limbo[Other(p)] = {} /\ pc[p] = "idle"
    BY PeerFacts DEF Init
  <2>2. CASE p = Joiner
    <3>1. /\ sent[p] = <<[kind |-> "hello", event |-> NoEvent]>> /\ outbox[p] = <<1>>
      BY <2>2 DEF Init
    <3>2. Line(p, sent[p], outbox[p], <<>>)
      BY <2>2, <3>1 DEF Line, KindOf
    <3>3. QED BY <2>1, <3>2, Zenon DEF SenderInv, Loose
  <2>3. CASE p # Joiner
    <3>1. sent[p] = <<>> /\ outbox[p] = <<>>
      BY <2>3 DEF Init
    <3>2. Line(p, sent[p], outbox[p], <<>>)
      BY <3>1 DEF Line
    <3>3. QED BY <2>1, <3>2, Zenon DEF SenderInv, Loose
  <2>4. QED BY <2>2, <2>3
<1>7. ASSUME NEW p \in Peers PROVE Greeting(p)
  <2>1. session[p] = (p = Joiner) /\ ~established[p]
    BY DEF Init
  <2>2. CASE p = Joiner
    <3>1. Len(sent[p]) = 1
      BY <2>2 DEF Init
    <3>2. ~(Len(sent[p]) > 1) /\ Len(sent[p]) >= 1
      BY <3>1
    <3>3. QED BY <2>1, <2>2, <3>2, Zenon DEF Greeting
  <2>3. CASE p # Joiner
    <3>1. Len(sent[p]) = 0
      BY <2>3 DEF Init
    <3>2. ~(Len(sent[p]) > 1) /\ ~(Len(sent[p]) >= 1)
      BY <3>1
    <3>3. QED BY <2>1, <2>3, <3>2, Zenon DEF Greeting
  <2>4. QED BY <2>2, <2>3
<1>8. ASSUME NEW p \in Peers PROVE ReceiverInv(p)
  <2>1. Got(p, 0)
    BY DEF Init, Got
  <2>2. QED BY <2>1 DEF ReceiverInv
<1>9. ASSUME NEW p \in Peers PROVE Recording(p)
  BY DEF Init, Recording
<1>10. QED BY <1>2, <1>3, <1>4, <1>5, <1>6, <1>7, <1>8, <1>9 DEF IInv

LEMMA StepIsDone == Next => \E p \in Peers : Do(p)
BY DEF Next, Do

LEMMA NextInv == IInv /\ [Next]_vars => IInv'
<1> SUFFICES ASSUME IInv, [Next]_vars PROVE IInv'
  OBVIOUS
<1>1. CASE UNCHANGED vars
  BY <1>1 DEF vars, IInv, Machines, Flags, Passes, Ids, SenderInv, Greeting, ReceiverInv, Got, Recording, Acked
<1>2. CASE Next
  <2>1. PICK p \in Peers : Do(p)
    BY <1>2, StepIsDone
  <2>2. Machines' /\ Passes' /\ Flags' /\ Ids'
    BY <2>1, MachinesStep, PassesStep, FlagsStep, IdsStep DEF IInv
  <2>3. \A q \in Peers : SenderInv(q)' /\ Greeting(q)' /\ ReceiverInv(q)'
    BY <2>1, SenderStep, GreetingStep, ReceiverStep
  <2>4. \A q \in Peers : Recording(q)'
    BY <2>1, RecordingStep DEF IInv, Passes
  <2>5. QED BY <2>2, <2>3, <2>4 DEF IInv
<1>3. QED BY <1>1, <1>2

LEMMA MailboxInv == Spec => []IInv
BY InitInv, NextInv, PTL DEF Spec

(* Every variable keeps its type.                                           *)
THEOREM TypeCorrect == Spec => []TypeOK
<1>1. IInv => TypeOK
  BY DEF IInv, Machines, Flags, Passes, Ids, TypeOK
<1>2. QED BY <1>1, MailboxInv, PTL

(* Whatever is lost, late or retried, a mailbox holds an unbroken prefix of *)
(* what was sent.                                                           *)
THEOREM InOrder == Spec => []MailInOrder
<1>1. IInv => MailInOrder
  <2> SUFFICES ASSUME IInv, NEW p \in Peers PROVE \A i \in 1 .. Len(mailbox[p]) : mailbox[p][i] = i
    BY DEF MailInOrder
  <2>1. SenderInv(Other(p)) /\ Other(Other(p)) = p
    BY PeerFacts DEF IInv
  <2>2. QED BY <2>1 DEF SenderInv, Line
<1>2. QED BY <1>1, MailboxInv, PTL

(* Every message is on its way or settled: at the sender, at the relay past *)
(* the cursor, in the inbox, or handled.                                    *)
THEOREM NothingLost == Spec => []NeverLost
<1>1. IInv => NeverLost
  <2> SUFFICES ASSUME IInv, NEW p \in Peers, NEW n \in 1 .. Len(sent[p])
               PROVE  Waiting(p, n) \/ Settled(p, n)
    BY DEF NeverLost
  <2> DEFINE q == Other(p)
             o == outbox[p]
             s == sent[p]
             m == mailbox[q]
             x == inbox[q]
  <2>1. PICK u \in Nat : Got(q, u)
    BY PeerFacts DEF IInv, ReceiverInv
  <2>2. q \in Peers /\ Machines /\ Passes /\ SenderInv(p)
    BY PeerFacts DEF IInv
  <2>3. /\ Len(o) \in Nat /\ Len(s) \in Nat /\ Len(m) \in Nat /\ Len(x) \in Nat /\ cursor[q] \in Nat
        /\ n \in 1 .. Len(s) /\ n \in Nat
    <3>1. /\ sent \in [Peers -> Seq(Messages)] /\ outbox \in [Peers -> Seq(Nat)] /\ mailbox \in [Peers -> Seq(Nat)]
          /\ inbox \in [Peers -> Seq(Nat)] /\ cursor \in [Peers -> Nat]
      BY <2>2 DEF Machines, Passes
    <3>2. s \in Seq(Messages) /\ o \in Seq(Nat) /\ m \in Seq(Nat) /\ x \in Seq(Nat) /\ cursor[q] \in Nat
      BY <2>2, <3>1
    <3>3. n \in 1 .. Len(s)
      OBVIOUS
    <3> HIDE DEF s, o, m, x, q
    <3>4. QED BY <3>2, <3>3
  <2>4. /\ Len(o) <= Len(s) /\ Len(m) >= Len(s) - Len(o)
        /\ \A i \in 1 .. Len(o) : o[i] = Len(s) - Len(o) + i
        /\ \A i \in 1 .. Len(m) : m[i] = i
        /\ s[n].kind = KindOf(p, n)
    BY <2>2, <2>3 DEF SenderInv, Line
  <2>5. /\ cursor[q] <= u /\ (u >= 1 => established[q])
        /\ \A i \in 1 .. Len(x) : x[i] = u - Len(x) + i
        /\ stored[q] = 2 .. (u - Len(x)) \/ stored[q] = 2 .. (u - Len(x) + 1)
    BY <2>1 DEF Got
  <2> HIDE DEF q, o, s, m, x
  <2>6. CASE n > Len(s) - Len(o)
    <3>1. n - (Len(s) - Len(o)) \in 1 .. Len(o)
      BY <2>3, <2>4, <2>6
    <3>2. o[n - (Len(s) - Len(o))] = n
      BY <2>3, <2>4, <3>1
    <3>3. QED BY <3>1, <3>2, Zenon DEF Waiting, Elements, o
  <2>7. CASE n <= Len(s) - Len(o) /\ n > cursor[q]
    <3>1. n \in 1 .. Len(m)
      <4>1. n <= Len(m)
        BY <2>3, <2>4, <2>7
      <4>2. QED BY <2>3, <4>1
    <3>3. m[n] = n
      BY <2>4, <3>1
    <3>4. QED BY <2>7, <3>1, <3>3, Zenon DEF Waiting, m, q
  <2>8. CASE n <= cursor[q] /\ n > u - Len(x) /\ n > 1
    <3>1. n - (u - Len(x)) \in 1 .. Len(x)
      <4>1. n <= u
        BY <2>3, <2>5, <2>8
      <4>2. QED BY <2>3, <2>8, <4>1
    <3>2. x[n - (u - Len(x))] = n
      <4>1. \A i \in 1 .. Len(x) : x[i] = u - Len(x) + i
        BY <2>5
      <4>2. QED BY <2>3, <3>1, <4>1
    <3>3. QED BY <3>1, <3>2, Zenon DEF Waiting, Elements, x, q
  <2>9. CASE n <= u - Len(x) /\ n > 1
    <3>1. n \in stored[q]
      BY <2>3, <2>5, <2>9
    <3>2. s[n].kind = "event"
      BY <2>4, <2>9 DEF KindOf
    <3>3. QED BY <3>1, <3>2 DEF Settled, q, s
  <2>10. CASE n <= cursor[q] /\ ~(n > 1)
    <3>1. established[q]
      BY <2>3, <2>5, <2>10
    <3>2. s[n].kind # "event"
      BY <2>4, <2>10 DEF KindOf
    <3>3. QED BY <3>1, <3>2 DEF Settled, q, s
  <2>11. QED BY <2>3, <2>6, <2>7, <2>8, <2>9, <2>10
<1>2. QED BY <1>1, MailboxInv, PTL
(* What was stored and acknowledged is never handed out again, though       *)
(* batches are fetched again and receipts are forgotten.                    *)
THEOREM NoneTwice == Spec => NoRedelivery
<1>1. IInv /\ [Next]_vars =>
        [\A p \in Peers : \A n \in Elements(inbox'[p]) \ Elements(inbox[p]) : n \notin stored[p]]_vars
  <2> SUFFICES ASSUME IInv, Next, NEW q \in Peers, NEW n \in Elements(inbox'[q]) \ Elements(inbox[q])
               PROVE  n \notin stored[q]
    OBVIOUS
  <2>1. PICK p \in Peers : Do(p)
    BY StepIsDone
  <2>2. PICK u \in Nat : Got(q, u)
    BY DEF IInv, ReceiverInv
  <2>3. inbox[q] \in Seq(Nat) /\ DOMAIN inbox = Peers /\ inbox'[q] # inbox[q]
    BY <2>1, GotTypes
  <2>4. p = q /\ ReceiveEvent(q)
    <3>1. p = q
      <4>1. inbox' = inbox \/ \E v : inbox' = [inbox EXCEPT ![p] = v]
        BY <2>1, MachineChanges, Zenon
      <4>2. QED BY <2>3, <4>1
    <3>2. ~AckIncoming(q)
      <4>1. SUFFICES ASSUME AckIncoming(q) PROVE FALSE
        OBVIOUS
      <4>2. inbox'[q] = Tail(inbox[q]) /\ inbox[q] # <<>>
        BY <2>2, <2>3, <4>1 DEF AckIncoming, Got
      <4>3. \A i \in 1 .. Len(inbox'[q]) : inbox'[q][i] = inbox[q][i + 1] /\ i + 1 \in 1 .. Len(inbox[q])
        BY <2>3, <4>2, TailTypes
      <4>4. Elements(inbox'[q]) \subseteq Elements(inbox[q])
        BY <4>3 DEF Elements
      <4>5. QED BY <4>4
    <3>3. inbox' = inbox \/ AckIncoming(q) \/ ReceiveEvent(q)
      BY <2>1, <3>1 DEF Do, Confirm, Send, Encrypt, Record, Sync, StartSync, Post, AckOutgoing, FlushDone, Fetch, Repeated,
        ReceiveHello, ReceiveAck, ReceiveStopped, Skip, BatchReceived, SaveCursor,
        StoreEvent, SyncDone, PostTimesOut, LateArrival, Interrupt, machine
    <3>4. QED BY <2>3, <3>1, <3>2, <3>3
  <2>5. /\ inbox'[q] = Append(inbox[q], Incoming(q)) /\ Incoming(q) = u + 1
    <3>1. Machines /\ Flags /\ Passes /\ Greeting(q) /\ SenderInv(Other(q))
      BY PeerFacts DEF IInv
    <3>2. Incoming(q) = u + 1
      BY <2>2, <2>4, <3>1, FirstMessage DEF ReceiveEvent, Decryptable
    <3>3. QED BY <2>3, <2>4, <3>2 DEF ReceiveEvent
  <2>6. n = u + 1
    <3>1. /\ Len(inbox'[q]) = Len(inbox[q]) + 1 /\ inbox'[q][Len(inbox[q]) + 1] = u + 1
          /\ \A i \in 1 .. Len(inbox[q]) : inbox'[q][i] = inbox[q][i] /\ Len(inbox[q]) \in Nat
      BY <2>3, <2>5, AppendTypes
    <3>2. PICK i \in 1 .. Len(inbox'[q]) : n = inbox'[q][i]
      BY DEF Elements
    <3>3. i \notin 1 .. Len(inbox[q])
      BY <3>1, <3>2 DEF Elements
    <3>4. Len(inbox[q]) \in Nat
      BY <2>3
    <3>5. i = Len(inbox[q]) + 1
      BY <3>1, <3>2, <3>3, <3>4
    <3>6. QED BY <3>1, <3>2, <3>5
  <2>7. \A k \in stored[q] : k <= u
    <3>1. Len(inbox[q]) \in Nat /\ (inbox[q] # <<>> => Len(inbox[q]) >= 1)
      BY <2>3
    <3>2. stored[q] = 2 .. (u - Len(inbox[q])) \/ (stored[q] = 2 .. (u - Len(inbox[q]) + 1) /\ inbox[q] # <<>>)
      BY <2>2 DEF Got
    <3>3. CASE stored[q] = 2 .. (u - Len(inbox[q]))
      BY <3>1, <3>3
    <3>4. CASE stored[q] = 2 .. (u - Len(inbox[q]) + 1) /\ Len(inbox[q]) >= 1
      <4> DEFINE l == Len(inbox[q])
      <4>1. l \in Nat /\ l >= 1 /\ stored[q] = 2 .. (u - l + 1)
        BY <3>1, <3>4
      <4> HIDE DEF l
      <4>2. u - l + 1 <= u
        BY <4>1
      <4>3. QED BY <4>1, <4>2
    <3>5. stored[q] = 2 .. (u - Len(inbox[q])) \/ (stored[q] = 2 .. (u - Len(inbox[q]) + 1) /\ Len(inbox[q]) >= 1)
      BY <3>1, <3>2, Zenon
    <3>6. QED BY <3>3, <3>4, <3>5, Zenon
  <2>8. QED BY <2>6, <2>7
<1>2. QED BY <1>1, MailboxInv, PTL DEF Spec, NoRedelivery-----------------------------------------------------------------------------
(* The state of the channel.                                                *)
Handed == [p \in Peers |-> IF sent[p] = <<>> THEN 0 ELSE Len(sent[p]) - 1]
Seen == [p \in Peers |-> {n - 1 : n \in stored[p]}]

(* Storing shows the next event of the other, or one shown before.          *)
LEMMA ShownNext ==
  ASSUME IInv, NEW p \in Peers, Do(p), StoreEvent(p)
  PROVE  \/ Seen' = Seen
         \/ \E n \in 1 .. Handed[Other(p)] : Seen[p] = 1 .. (n - 1) /\ Seen' = [Seen EXCEPT ![p] = 1 .. n]
<1> DEFINE x == inbox[p]
           q == Other(p)
<1>1. PICK u \in Nat : Got(p, u)
  BY DEF IInv, ReceiverInv
<1>2. /\ x # <<>> /\ stored' = [stored EXCEPT ![p] = @ \cup {Head(x)}]
  BY DEF StoreEvent, Deliveries
<1>3. x \in Seq(Nat) /\ Len(x) \in Nat \ {0} /\ Head(x) = x[1]
  BY <1>2, GotTypes, TailTypes
<1>4. Len(x) < u /\ x[1] = u - Len(x) + 1
  <2>1. 1 \in 1 .. Len(x)
    BY <1>3
  <2>2. QED BY <1>1, <1>2, <2>1 DEF Got
<1>5. stored[p] = 2 .. (u - Len(x)) \/ stored[p] = 2 .. (u - Len(x) + 1)
  BY <1>1 DEF Got
<1> DEFINE n == u - Len(x)
<1>6. n \in Nat /\ n >= 1 /\ n < u
  BY <1>3, <1>4
<1>7. stored' = [stored EXCEPT ![p] = @ \cup {n + 1}] /\ DOMAIN stored = Peers
  BY <1>2, <1>3, <1>4, GotTypes
<1> HIDE DEF n, x
<1>8. n <= Handed[q] /\ Handed[q] \in Nat
  <2>1. SenderInv(q) /\ Other(q) = p /\ Machines /\ q \in Peers
    BY PeerFacts DEF IInv
  <2>2. /\ Len(mailbox[p]) <= Len(sent[q]) /\ Len(sent[q]) \in Nat /\ Len(mailbox[p]) \in Nat
        /\ u <= Len(mailbox[p]) /\ sent[q] \in Seq(Messages)
    <3>1. Len(mailbox[p]) <= Len(sent[q])
      BY <2>1, Zenon DEF SenderInv, Line
    <3>2. u <= Len(mailbox[p])
      BY <1>1 DEF Got
    <3>3. QED BY <2>1, <3>1, <3>2 DEF Machines
  <2>3. u <= Len(sent[q]) /\ sent[q] # <<>>
    BY <1>6, <2>2
  <2>4. Handed[q] = Len(sent[q]) - 1
    BY <2>1, <2>3 DEF Handed
  <2>5. QED BY <1>6, <2>2, <2>3, <2>4
<1>9. CASE stored[p] = 2 .. (n + 1)
  <2>1. stored[p] \cup {n + 1} = stored[p]
    <3>1. n + 1 \in 2 .. (n + 1)
      BY <1>6
    <3>2. QED BY <1>9, <3>1
  <2>2. stored' = stored
    <3>1. IInv => stored \in [Peers -> SUBSET Nat]
      BY DEF IInv, Passes
    <3>2. QED BY <1>7, <2>1, <3>1
  <2>3. QED BY <2>2 DEF Seen
<1>10. CASE stored[p] = 2 .. n
  <2>1. Seen[p] = 1 .. (n - 1)
    <3>1. Seen[p] = {k - 1 : k \in 2 .. n}
      BY <1>10 DEF Seen
    <3>2. ASSUME NEW k \in 1 .. (n - 1) PROVE k + 1 \in 2 .. n /\ k = (k + 1) - 1
      BY <1>6
    <3>3. ASSUME NEW k \in 2 .. n PROVE k - 1 \in 1 .. (n - 1)
      BY <1>6
    <3>4. QED BY <3>1, <3>2, <3>3
  <2>2. Seen' = [Seen EXCEPT ![p] = 1 .. n]
    <3>1. stored'[p] = 2 .. (n + 1)
      BY <1>6, <1>7, <1>10
    <3>2. \A r \in Peers \ {p} : stored'[r] = stored[r]
      BY <1>7
    <3>3. {k - 1 : k \in 2 .. (n + 1)} = 1 .. n
      <4>1. ASSUME NEW k \in 1 .. n PROVE k + 1 \in 2 .. (n + 1) /\ k = (k + 1) - 1
        BY <1>6
      <4>2. ASSUME NEW k \in 2 .. (n + 1) PROVE k - 1 \in 1 .. n
        BY <1>6
      <4>3. QED BY <4>1, <4>2
    <3>4. \A r \in Peers : {k - 1 : k \in stored'[r]} = IF r = p THEN 1 .. n ELSE {k - 1 : k \in stored[r]}
      BY <3>1, <3>2, <3>3
    <3>5. Seen' = [r \in Peers |-> {k - 1 : k \in stored'[r]}]
      BY DEF Seen
    <3>6. QED BY <3>4, <3>5 DEF Seen
  <2>3. n \in 1 .. Handed[q]
    BY <1>6, <1>8
  <2>4. QED BY <2>1, <2>2, <2>3 DEF q
<1>11. QED BY <1>5, <1>9, <1>10 DEF n

(* Sending hands an event over; the hello and the ack are not events.       *)
LEMMA HandedNext ==
  ASSUME IInv, NEW p \in Peers, NEW x \in Messages, sent' = [sent EXCEPT ![p] = Append(@, x)]
  PROVE  Handed' = IF sent[p] = <<>> THEN Handed ELSE [Handed EXCEPT ![p] = @ + 1]
<1>1. sent \in [Peers -> Seq(Messages)]
  BY DEF IInv, Machines
<1>2. /\ sent'[p] # <<>> /\ Len(sent'[p]) = Len(sent[p]) + 1 /\ Len(sent[p]) \in Nat
      /\ \A r \in Peers \ {p} : sent'[r] = sent[r]
  BY <1>1, AppendTypes
<1>3. sent[p] = <<>> => Len(sent[p]) = 0
  OBVIOUS
<1>4. Handed' = [r \in Peers |-> IF r = p THEN Len(sent[p]) ELSE Handed[r]]
  <2>1. Handed' = [r \in Peers |-> IF sent'[r] = <<>> THEN 0 ELSE Len(sent'[r]) - 1]
    BY DEF Handed
  <2>2. \A r \in Peers : (IF sent'[r] = <<>> THEN 0 ELSE Len(sent'[r]) - 1)
                          = IF r = p THEN Len(sent[p]) ELSE Handed[r]
    <3>1. SUFFICES ASSUME NEW r \in Peers
                   PROVE (IF sent'[r] = <<>> THEN 0 ELSE Len(sent'[r]) - 1) = IF r = p THEN Len(sent[p]) ELSE Handed[r]
      OBVIOUS
    <3>2. CASE r = p
      BY <1>2, <3>2
    <3>3. CASE r # p
      BY <1>2, <3>3 DEF Handed
    <3>4. QED BY <3>2, <3>3
  <2>3. QED BY <2>1, <2>2
<1>5. CASE sent[p] = <<>>
  <2>1. Handed[p] = Len(sent[p])
    BY <1>3, <1>5 DEF Handed
  <2>2. Handed = [r \in Peers |-> Handed[r]]
    BY DEF Handed
  <2>3. QED BY <1>4, <1>5, <2>1, <2>2
<1>6. CASE sent[p] # <<>>
  <2>1. Handed[p] + 1 = Len(sent[p])
    BY <1>2, <1>6 DEF Handed
  <2>2. DOMAIN Handed = Peers /\ Handed = [r \in Peers |-> Handed[r]]
    BY DEF Handed
  <2>3. QED BY <1>4, <1>6, <2>1, <2>2
<1>7. QED BY <1>5, <1>6
(* Every step is one of the channel, or none.                               *)
LEMMA ChannelStep ==
  ASSUME IInv, NEW p \in Peers, Do(p)
  PROVE  \/ UNCHANGED <<Handed, Seen, verified>>
         \/ verified' = [verified EXCEPT ![p] = TRUE] /\ UNCHANGED <<Handed, Seen>>
         \/ verified[p] /\ Handed' = [Handed EXCEPT ![p] = @ + 1] /\ UNCHANGED <<Seen, verified>>
         \/ /\ verified[p] /\ UNCHANGED <<Handed, verified>>
            /\ \E n \in 1 .. Handed[Other(p)] : Seen[p] = 1 .. (n - 1) /\ Seen' = [Seen EXCEPT ![p] = 1 .. n]
<1>1. CASE UNCHANGED <<sent, stored, verified>>
  BY <1>1 DEF Handed, Seen
<1>2. CASE Confirm(p)
  <2>1. verified' = [verified EXCEPT ![p] = TRUE] /\ UNCHANGED <<sent, stored>>
    BY <1>2 DEF Confirm, app
  <2>2. QED BY <2>1 DEF Handed, Seen
<1>3. ASSUME NEW e \in Events, Send(p, e)
      PROVE  verified[p] /\ Handed' = [Handed EXCEPT ![p] = @ + 1] /\ UNCHANGED <<Seen, verified>>
  <2>1. /\ established[p] /\ verified[p] /\ UNCHANGED <<stored, verified>>
        /\ sent' = [sent EXCEPT ![p] = Append(@, [kind |-> "event", event |-> e])]
    BY <1>3 DEF Send, Encrypt
  <2>2. [kind |-> "event", event |-> e] \in Messages
    BY DEF Messages, Kinds
  <2>3. Len(sent[p]) >= 1
    <3>1. Greeting(p)
      BY DEF IInv
    <3>2. QED BY <2>1, <3>1 DEF Greeting
  <2>4. sent[p] # <<>>
    <3>1. Len(<<>>) = 0
      OBVIOUS
    <3>2. QED BY <2>3, <3>1
  <2>5. Handed' = [Handed EXCEPT ![p] = @ + 1]
    BY <2>1, <2>2, <2>4, HandedNext
  <2>6. QED BY <2>1, <2>5 DEF Seen
<1>4. ASSUME ReceiveHello(p) PROVE UNCHANGED <<Handed, Seen, verified>>
  <2>1. /\ ~session[p] /\ UNCHANGED <<stored, verified>>
        /\ sent' = [sent EXCEPT ![p] = Append(@, [kind |-> "ack", event |-> NoEvent])]
    BY <1>4 DEF ReceiveHello, Encrypt, Advance
  <2>2. [kind |-> "ack", event |-> NoEvent] \in Messages
    BY DEF Messages, Kinds
  <2>3. sent[p] = <<>>
    <3>1. Greeting(p) /\ sent[p] \in Seq(Messages)
      BY DEF IInv, Machines
    <3>2. ~(Len(sent[p]) >= 1)
      BY <2>1, <3>1, Zenon DEF Greeting
    <3>3. QED BY <3>1, <3>2
  <2>4. Handed' = Handed
    BY <2>1, <2>2, <2>3, HandedNext
  <2>5. QED BY <2>1, <2>4 DEF Seen
<1>5. CASE StoreEvent(p)
  <2>1. UNCHANGED <<sent, verified>> /\ verified[p]
    BY <1>5 DEF StoreEvent, Deliveries, machine
  <2>2. Handed' = Handed
    BY <2>1 DEF Handed
  <2>3. QED BY <1>5, <2>1, <2>2, ShownNext
<1>6. CASE Record(p) \/ Interrupt(p) \/ PostTimesOut(p) \/ LateArrival(p)
  BY <1>1, <1>6 DEF Record, Interrupt, PostTimesOut, LateArrival, machine, app
<1>7. CASE StartSync(p) \/ Post(p) \/ AckOutgoing(p) \/ FlushDone(p) \/ Fetch(p) \/ BatchReceived(p) \/ SaveCursor(p)
           \/ AckIncoming(p) \/ SyncDone(p)
  BY <1>1, <1>7 DEF StartSync, Post, AckOutgoing, FlushDone, Fetch, BatchReceived, SaveCursor,
       AckIncoming, SyncDone, machine
<1>8. CASE Repeated(p) \/ ReceiveAck(p) \/ ReceiveEvent(p) \/ ReceiveStopped(p) \/ Skip(p)
  BY <1>1, <1>8 DEF Repeated, ReceiveAck, ReceiveEvent, ReceiveStopped, Skip, Advance, machine
<1>9. QED BY <1>2, <1>3, <1>4, <1>5, <1>6, <1>7, <1>8 DEF Do, Sync

(* Machine, commands, relay and sync pass together implement the channel:   *)
(* events appear in the other history one after the other, each once, none  *)
(* left out, and only to a user who has confirmed the safety number.        *)
THEOREM Implements == Spec => ImplementsChannel
<1>1. Init => Channel!Init
  <2> SUFFICES ASSUME Init PROVE Channel!Init
    OBVIOUS
  <2>1. \A p \in Peers : (IF sent[p] = <<>> THEN 0 ELSE Len(sent[p]) - 1) = 0
    BY DEF Init
  <2>2. \A p \in Peers : {n - 1 : n \in stored[p]} = {}
    BY DEF Init
  <2>3. verified = [p \in Peers |-> FALSE]
    BY DEF Init
  <2>4. QED BY <2>1, <2>2, <2>3 DEF Channel!Init
<1>2. IInv /\ [Next]_vars => [Channel!Next]_(Channel!vars)
  <2> SUFFICES ASSUME IInv, [Next]_vars PROVE Channel!Next \/ UNCHANGED Channel!vars
    OBVIOUS
  <2>1. CASE UNCHANGED vars
    BY <2>1 DEF vars, Channel!vars
  <2>2. CASE Next
    <3>1. PICK p \in Peers : Do(p)
      BY <2>2, StepIsDone
    <3>2. CASE UNCHANGED <<Handed, Seen, verified>>
      BY <3>2 DEF Handed, Seen, Channel!vars
    <3>3. CASE verified' = [verified EXCEPT ![p] = TRUE] /\ UNCHANGED <<Handed, Seen>>
      <4>1. Channel!Confirm(p)
        BY <3>3 DEF Handed, Seen, Channel!Confirm
      <4>2. QED BY <4>1 DEF Channel!Next
    <3>4. CASE verified[p] /\ Handed' = [Handed EXCEPT ![p] = @ + 1] /\ UNCHANGED <<Seen, verified>>
      <4>1. Channel!Send(p)
        BY <3>4 DEF Handed, Seen, Channel!Send
      <4>2. QED BY <4>1 DEF Channel!Next
    <3>5. CASE /\ verified[p] /\ UNCHANGED <<Handed, verified>>
               /\ \E n \in 1 .. Handed[Other(p)] : Seen[p] = 1 .. (n - 1) /\ Seen' = [Seen EXCEPT ![p] = 1 .. n]
      <4>1. Other(p) \in Peers \ {p}
        BY PeerFacts
      <4>2. Channel!Show(p, Other(p))
        BY <3>5 DEF Handed, Seen, Channel!Show
      <4>3. QED BY <4>1, <4>2 DEF Channel!Next
    <3>6. QED BY <3>1, <3>2, <3>3, <3>4, <3>5, ChannelStep
  <2>3. QED BY <2>1, <2>2
<1>3. QED BY <1>1, <1>2, MailboxInv, PTL DEF Spec, ImplementsChannel, Channel!Spec
=============================================================================
