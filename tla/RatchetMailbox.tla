--------------------------- MODULE RatchetMailbox ---------------------------
(***************************************************************************)
(* Two paired devices exchanging events: the ratchet machine each keeps in *)
(* the native store (src-tauri/src/ratchet/engine.rs), the commands that   *)
(* reach it (ratchet/mod.rs), the relay's mailboxes, and the sync pass of  *)
(* the app (src/services/relayTransport.ts, src/App.tsx).                  *)
(*                                                                         *)
(* A ratchet command is one step here: it either commits its state or      *)
(* leaves no trace, which is what SessionVault is proved to provide.  The  *)
(* app may still never hear of the commit: Interrupt ends a pass anywhere  *)
(* (an error thrown, the app closed or killed), keeping what is durable.   *)
(* Everything a device does runs in its serial session queue, so at most   *)
(* one pass or send is under way on each device.                           *)
(*                                                                         *)
(* An envelope is named by its sequence number: the exact ciphertext is    *)
(* kept for retries, so the number stands for the bytes and the receipt    *)
(* (a fingerprint of the bytes) too.  Olm is abstracted to what the code   *)
(* relies on: a session decrypts each message once, in any order.  Both    *)
(* devices hold the same session, so their safety numbers agree.           *)
(***************************************************************************)
EXTENDS Naturals, Sequences, FiniteSets

CONSTANTS
    Creator,      \* the device that created the pairing code
    Joiner,       \* the device that entered it
    Events,       \* ids of the events either user may cause
    NoEvent,      \* the event of a message that carries none
    OutboxLimit,  \* LIMIT of the outbox
    InboxLimit,   \* LIMIT of the inbox
    Receipts,     \* RECEIPTS kept against duplicates
    Batch,        \* messages the relay returns at once
    MaxSequence,  \* bound on the messages each device encrypts
    MaxFaults     \* bound on lost requests and interruptions

ASSUME MailboxAssumption ==
    /\ Creator # Joiner
    /\ NoEvent \notin Events
    /\ OutboxLimit \in Nat \ {0}
    /\ InboxLimit \in Nat \ {0}
    /\ Receipts \in Nat \ {0}
    /\ Batch \in Nat \ {0}
    /\ MaxSequence \in [{Creator, Joiner} -> Nat]
    /\ MaxFaults \in Nat

Peers == {Creator, Joiner}
Other(p) == IF p = Creator THEN Joiner ELSE Creator

VARIABLES
    \* The machine, durable in the native store.
    sent,         \* all messages each device ever encrypted, in order (history)
    session,      \* does the device have an Olm session
    established,  \* has it received the hello or the ack
    verified,     \* has its user confirmed the safety number
    outbox,       \* its messages not yet known to be at the relay
    inbox,        \* messages decrypted and not yet acknowledged by the app
    receipts,     \* the last messages accepted
    used,         \* messages whose one-time keys are spent
    \* The app.
    cursor,       \* relayCursor of the saved pairing state
    outgoing,     \* ids of its own events recorded in its history
    stored,       \* messages of the other whose event is in its history
    pc,           \* what the session queue is doing
    fetched,      \* relay position up to which the batch in hand was fetched
    at,           \* relay position of the batch already received
    sending,      \* the event being sent
    \* The relay and the network.
    mailbox,      \* the messages for each device, in the order they arrived
    limbo,        \* messages whose request timed out: they may arrive late
    faults

machine == <<sent, session, established, verified, outbox, inbox, receipts, used>>
app == <<cursor, outgoing, stored, pc, fetched, at, sending>>
network == <<mailbox, limbo, faults>>
vars == <<sent, session, established, verified, outbox, inbox, receipts, used,
          cursor, outgoing, stored, pc, fetched, at, sending,
          mailbox, limbo, faults>>

Kinds == {"hello", "ack", "event"}
Messages == [kind : Kinds, event : Events \cup {NoEvent}]
Stages == {"idle", "recording",
           "flushing", "posted", "fetching", "receiving", "reflushing", "reposted",
           "saving", "storing", "handled"}

Elements(seq) == {seq[i] : i \in 1..Len(seq)}

TypeOK ==
    /\ sent \in [Peers -> Seq(Messages)]
    /\ session \in [Peers -> BOOLEAN]
    /\ established \in [Peers -> BOOLEAN]
    /\ verified \in [Peers -> BOOLEAN]
    /\ outbox \in [Peers -> Seq(Nat)]
    /\ inbox \in [Peers -> Seq(Nat)]
    /\ receipts \in [Peers -> Seq(Nat)]
    /\ used \in [Peers -> SUBSET Nat]
    /\ cursor \in [Peers -> Nat]
    /\ outgoing \in [Peers -> SUBSET Events]
    /\ stored \in [Peers -> SUBSET Nat]
    /\ pc \in [Peers -> Stages]
    /\ fetched \in [Peers -> Nat]
    /\ at \in [Peers -> Nat]
    /\ sending \in [Peers -> Events \cup {NoEvent}]
    /\ mailbox \in [Peers -> Seq(Nat)]
    /\ limbo \in [Peers -> SUBSET Nat]
    /\ faults \in Nat

\* The joiner's machine starts with a session and its hello in the outbox.
Init ==
    /\ sent = [p \in Peers |->
                 IF p = Joiner THEN <<[kind |-> "hello", event |-> NoEvent]>> ELSE <<>>]
    /\ session = [p \in Peers |-> p = Joiner]
    /\ established = [p \in Peers |-> FALSE]
    /\ verified = [p \in Peers |-> FALSE]
    /\ outbox = [p \in Peers |-> IF p = Joiner THEN <<1>> ELSE <<>>]
    /\ inbox = [p \in Peers |-> <<>>]
    /\ receipts = [p \in Peers |-> <<>>]
    /\ used = [p \in Peers |-> {}]
    /\ cursor = [p \in Peers |-> 0]
    /\ outgoing = [p \in Peers |-> {}]
    /\ stored = [p \in Peers |-> {}]
    /\ pc = [p \in Peers |-> "idle"]
    /\ fetched = [p \in Peers |-> 0]
    /\ at = [p \in Peers |-> 0]
    /\ sending = [p \in Peers |-> NoEvent]
    /\ mailbox = [p \in Peers |-> <<>>]
    /\ limbo = [p \in Peers |-> {}]
    /\ faults = 0

Goto(p, stage) == pc' = [pc EXCEPT ![p] = stage]

-----------------------------------------------------------------------------
\* The user.

\* Machine::confirm, reached from the comparison of safety numbers.
Confirm(p) ==
    /\ pc[p] = "idle"
    /\ established[p]
    /\ ~verified[p]
    /\ verified' = [verified EXCEPT ![p] = TRUE]
    /\ UNCHANGED <<sent, session, established, outbox, inbox, receipts, used, app, network>>

\* Machine::encrypt: refused when the outbox is full.
CanEncrypt(p) == Len(outbox[p]) < OutboxLimit /\ Len(sent[p]) < MaxSequence[p]
Encrypt(p, kind, event) ==
    /\ CanEncrypt(p)
    /\ sent' = [sent EXCEPT ![p] = Append(@, [kind |-> kind, event |-> event])]
    /\ outbox' = [outbox EXCEPT ![p] = Append(@, Len(sent[p]) + 1)]

\* queueEncryptedEvent: nothing to do for an event the history already has,
\* otherwise Machine::send commits it to the outbox.  An event whose record
\* was never written may be sent again.
Send(p, e) ==
    /\ pc[p] = "idle"
    /\ established[p] /\ verified[p]
    /\ e \notin outgoing[p]
    /\ Encrypt(p, "event", e)
    /\ sending' = [sending EXCEPT ![p] = e]
    /\ Goto(p, "recording")
    /\ UNCHANGED <<session, established, verified, inbox, receipts, used,
                   cursor, outgoing, stored, fetched, at, network>>

\* Mutant of Record: the event in hand is cleared before it is recorded.
RecordAfterReset(p) ==
    /\ pc[p] = "recording"
    /\ sending' = [sending EXCEPT ![p] = NoEvent]
    /\ outgoing' = [outgoing EXCEPT ![p] = @ \cup {sending'[p]}]
    /\ Goto(p, "idle")
    /\ UNCHANGED <<machine, cursor, stored, fetched, at, network>>

\* The plaintext record of a queued event is written to the history.
Record(p) ==
    /\ pc[p] = "recording"
    /\ outgoing' = [outgoing EXCEPT ![p] = @ \cup {sending[p]}]
    /\ sending' = [sending EXCEPT ![p] = NoEvent]
    /\ Goto(p, "idle")
    /\ UNCHANGED <<machine, cursor, stored, fetched, at, network>>

-----------------------------------------------------------------------------
\* A sync pass: syncEncryptedEvents and the loop over what it returns.

\* Mutant of Deliveries: handed out whether or not the user has confirmed.
DeliveriesUnverified(p) == inbox[p]

\* Machine::deliveries: nothing is handed out before confirmation.
Deliveries(p) == IF verified[p] THEN inbox[p] ELSE <<>>

\* Mutant of StartSync: fetch first, deliveries last.
StartSyncWithoutDrain(p) ==
    /\ pc[p] = "idle"
    /\ Goto(p, "flushing")
    /\ UNCHANGED <<machine, cursor, outgoing, stored, fetched, at, sending, network>>

\* What an earlier pass left in the inbox is drained before anything else.
StartSync(p) ==
    /\ pc[p] = "idle"
    /\ Goto(p, IF Deliveries(p) # <<>> THEN "storing" ELSE "flushing")
    /\ UNCHANGED <<machine, cursor, outgoing, stored, fetched, at, sending, network>>

\* The relay keeps the first copy of a message and answers a repetition.
Accept(p, n) ==
    mailbox' = [mailbox EXCEPT ![p] = IF n \in Elements(@) THEN @ ELSE Append(@, n)]

\* flushRatchetOutbox posts the oldest message and waits for the answer ...
Flushing == {"flushing", "reflushing"}
Post(p) ==
    /\ pc[p] \in Flushing
    /\ outbox[p] # <<>>
    /\ Accept(Other(p), Head(outbox[p]))
    /\ Goto(p, IF pc[p] = "flushing" THEN "posted" ELSE "reposted")
    /\ UNCHANGED <<machine, cursor, outgoing, stored, fetched, at, sending, limbo, faults>>

\* Mutant of PostTimesOut: a request without an answer counts as delivered.
PostTimesOutIgnored(p) ==
    /\ pc[p] \in Flushing
    /\ outbox[p] # <<>>
    /\ faults < MaxFaults
    /\ faults' = faults + 1
    /\ limbo' = [limbo EXCEPT ![Other(p)] = @ \cup {Head(outbox[p])}]
    /\ Goto(p, "posted")
    /\ UNCHANGED <<machine, cursor, outgoing, stored, fetched, at, sending, mailbox>>

\* ... or loses it: the pass ends, and the request may yet arrive.
PostTimesOut(p) ==
    /\ pc[p] \in Flushing
    /\ outbox[p] # <<>>
    /\ faults < MaxFaults
    /\ faults' = faults + 1
    /\ limbo' = [limbo EXCEPT ![Other(p)] = @ \cup {Head(outbox[p])}]
    /\ Goto(p, "idle")
    /\ UNCHANGED <<machine, cursor, outgoing, stored, fetched, at, sending, mailbox>>

LateArrival(p) ==
    \E n \in limbo[p] :
        /\ Accept(p, n)
        /\ limbo' = [limbo EXCEPT ![p] = @ \ {n}]
        /\ UNCHANGED <<machine, app, faults>>

\* ack_outgoing: the message posted leaves the outbox.
AckOutgoing(p) ==
    /\ pc[p] \in {"posted", "reposted"}
    /\ outbox' = [outbox EXCEPT ![p] = Tail(@)]
    /\ Goto(p, IF pc[p] = "posted" THEN "flushing" ELSE "reflushing")
    /\ UNCHANGED <<sent, session, established, verified, inbox, receipts, used,
                   cursor, outgoing, stored, fetched, at, sending, network>>

\* The outbox is empty: the flush before the fetch, or the one after, is over.
FlushDone(p) ==
    /\ pc[p] \in Flushing
    /\ outbox[p] = <<>>
    /\ Goto(p, IF pc[p] = "flushing" THEN "fetching" ELSE "saving")
    /\ UNCHANGED <<machine, cursor, outgoing, stored, fetched, at, sending, network>>

\* Mutant of Fetch: the cursor is saved before the batch is received.
FetchSavesCursor(p) ==
    /\ pc[p] = "fetching"
    /\ fetched' = [fetched EXCEPT ![p] =
         IF Len(mailbox[p]) <= cursor[p] + Batch THEN Len(mailbox[p]) ELSE cursor[p] + Batch]
    /\ at' = [at EXCEPT ![p] = cursor[p]]
    /\ cursor' = [cursor EXCEPT ![p] = fetched'[p]]
    /\ Goto(p, "receiving")
    /\ UNCHANGED <<machine, outgoing, stored, sending, network>>

\* The relay returns what follows the cursor, as much as fits in a batch.
Fetch(p) ==
    /\ pc[p] = "fetching"
    /\ fetched' = [fetched EXCEPT ![p] =
         IF Len(mailbox[p]) <= cursor[p] + Batch THEN Len(mailbox[p]) ELSE cursor[p] + Batch]
    /\ at' = [at EXCEPT ![p] = cursor[p]]
    /\ Goto(p, "receiving")
    /\ UNCHANGED <<machine, cursor, outgoing, stored, sending, network>>

\* The message the loop over the batch has come to.
Incoming(p) == mailbox[p][at[p] + 1]
More(p) == pc[p] = "receiving" /\ at[p] < fetched[p]
Advance(p) ==
    /\ at' = [at EXCEPT ![p] = @ + 1]
    /\ UNCHANGED <<cursor, outgoing, stored, pc, fetched, sending, network>>

\* The receipts remember the message: receive answers Ok and changes nothing.
KnownReceipt(p) == Incoming(p) \in Elements(receipts[p])
Repeated(p) ==
    /\ More(p)
    /\ KnownReceipt(p)
    /\ Advance(p)
    /\ UNCHANGED machine

\* Mutant of Decryptable: only the receipts stand against duplicates.
DecryptableAgain(p) == session[p]

\* Olm gives up the key of a message once it has decrypted it.
Decryptable(p) == session[p] /\ Incoming(p) \notin used[p]
Content(p) == sent[Other(p)][Incoming(p)]

Receipt(p) ==
    LET longer == Append(receipts[p], Incoming(p))
    IN  receipts' = [receipts EXCEPT ![p] = IF Len(longer) > Receipts THEN Tail(longer) ELSE longer]
Spend(p) == used' = [used EXCEPT ![p] = @ \cup {Incoming(p)}]

\* The creator's first message: the hello makes the session, and is answered.
ReceiveHello(p) ==
    /\ More(p)
    /\ ~KnownReceipt(p)
    /\ ~session[p]
    /\ Content(p).kind = "hello"
    /\ session' = [session EXCEPT ![p] = TRUE]
    /\ established' = [established EXCEPT ![p] = TRUE]
    /\ Encrypt(p, "ack", NoEvent)
    /\ Receipt(p)
    /\ Spend(p)
    /\ Advance(p)
    /\ UNCHANGED <<verified, inbox>>

ReceiveAck(p) ==
    /\ More(p)
    /\ ~KnownReceipt(p)
    /\ Decryptable(p)
    /\ Content(p).kind = "ack"
    /\ ~established[p]
    /\ established' = [established EXCEPT ![p] = TRUE]
    /\ Receipt(p)
    /\ Spend(p)
    /\ Advance(p)
    /\ UNCHANGED <<sent, session, verified, outbox, inbox>>

InboxFull(p) == Len(inbox[p]) >= InboxLimit

ReceiveEvent(p) ==
    /\ More(p)
    /\ ~KnownReceipt(p)
    /\ Decryptable(p)
    /\ Content(p).kind = "event"
    /\ established[p]
    /\ ~InboxFull(p)
    /\ inbox' = [inbox EXCEPT ![p] = Append(@, Incoming(p))]
    /\ Receipt(p)
    /\ Spend(p)
    /\ Advance(p)
    /\ UNCHANGED <<sent, session, established, verified, outbox>>

\* inbox_full is not a fault of the message: the pass ends where it is.
ReceiveStopped(p) ==
    /\ More(p)
    /\ ~KnownReceipt(p)
    /\ Decryptable(p)
    /\ Content(p).kind = "event"
    /\ established[p]
    /\ InboxFull(p)
    /\ Goto(p, "idle")
    /\ UNCHANGED <<machine, cursor, outgoing, stored, fetched, at, sending, network>>

\* message_rejected, prekey_required, hello_required or invalid_message_kind:
\* the message is skipped and never looked at again.
Rejected(p) ==
    \/ session[p] /\ Incoming(p) \in used[p]
    \/ ~session[p] /\ Content(p).kind # "hello"
    \/ Decryptable(p) /\ Content(p).kind = "hello"
    \/ Decryptable(p) /\ Content(p).kind = "ack" /\ established[p]
    \/ Decryptable(p) /\ Content(p).kind = "event" /\ ~established[p]
Skip(p) ==
    /\ More(p)
    /\ ~KnownReceipt(p)
    /\ Rejected(p)
    /\ Advance(p)
    /\ UNCHANGED machine

\* The batch is received: what that put in the outbox is flushed at once.
BatchReceived(p) ==
    /\ pc[p] = "receiving"
    /\ at[p] = fetched[p]
    /\ Goto(p, "reflushing")
    /\ UNCHANGED <<machine, cursor, outgoing, stored, fetched, at, sending, network>>

\* persistPairing saves the new cursor; then the deliveries are gone through.
SaveCursor(p) ==
    /\ pc[p] = "saving"
    /\ cursor' = [cursor EXCEPT ![p] = fetched[p]]
    /\ Goto(p, "storing")
    /\ UNCHANGED <<machine, outgoing, stored, fetched, at, sending, network>>

\* putEvent: the plaintext becomes durable before it is acknowledged.
StoreEvent(p) ==
    /\ pc[p] = "storing"
    /\ Deliveries(p) # <<>>
    /\ stored' = [stored EXCEPT ![p] = @ \cup {Head(inbox[p])}]
    /\ Goto(p, "handled")
    /\ UNCHANGED <<machine, cursor, outgoing, fetched, at, sending, network>>

AckIncoming(p) ==
    /\ pc[p] = "handled"
    /\ inbox' = [inbox EXCEPT ![p] = Tail(@)]
    /\ Goto(p, "storing")
    /\ UNCHANGED <<sent, session, established, verified, outbox, receipts, used,
                   cursor, outgoing, stored, fetched, at, sending, network>>

SyncDone(p) ==
    /\ pc[p] = "storing"
    /\ Deliveries(p) = <<>>
    /\ Goto(p, "idle")
    /\ UNCHANGED <<machine, cursor, outgoing, stored, fetched, at, sending, network>>

\* Whatever is under way ends early; only what is durable remains.
Interrupt(p) ==
    /\ pc[p] # "idle"
    /\ faults < MaxFaults
    /\ faults' = faults + 1
    /\ sending' = [sending EXCEPT ![p] = NoEvent]
    /\ Goto(p, "idle")
    /\ UNCHANGED <<machine, cursor, outgoing, stored, fetched, at, mailbox, limbo>>

Sync(p) ==
    \/ StartSync(p) \/ Post(p) \/ AckOutgoing(p) \/ FlushDone(p) \/ Fetch(p)
    \/ Repeated(p) \/ ReceiveHello(p) \/ ReceiveAck(p) \/ ReceiveEvent(p)
    \/ ReceiveStopped(p) \/ Skip(p) \/ BatchReceived(p) \/ SaveCursor(p)
    \/ StoreEvent(p) \/ AckIncoming(p) \/ SyncDone(p)

Next ==
    \E p \in Peers :
        \/ Confirm(p)
        \/ \E e \in Events : Send(p, e)
        \/ Record(p)
        \/ Sync(p)
        \/ PostTimesOut(p)
        \/ LateArrival(p)
        \/ Interrupt(p)

Spec == Init /\ [][Next]_vars

\* The sync timer of each device keeps firing and its queue keeps moving.
\* Nothing is assumed of the users, and a lost request may stay lost.
FairSpec == Spec /\ \A p \in Peers : WF_vars(Sync(p)) /\ WF_vars(Record(p))

-----------------------------------------------------------------------------
\* Properties.

(* "The relay delivers in order" rests on the senders: whatever is lost,    *)
(* late or retried, the mailbox holds an unbroken prefix of what was sent.  *)
MailInOrder == \A p \in Peers : \A i \in 1..Len(mailbox[p]) : mailbox[p][i] = i

(* Each message is always somewhere on its way: at the sender, at the relay *)
(* beyond the receiver's cursor, in the receiver's inbox, or handled.  A    *)
(* message skipped or a cursor saved too early would break the chain.       *)
Waiting(p, n) ==
    \/ n \in Elements(outbox[p])
    \/ \E i \in 1..Len(mailbox[Other(p)]) : i > cursor[Other(p)] /\ mailbox[Other(p)][i] = n
    \/ n \in Elements(inbox[Other(p)])
Settled(p, n) ==
    IF sent[p][n].kind = "event" THEN n \in stored[Other(p)] ELSE established[Other(p)]
NeverLost == \A p \in Peers : \A n \in 1..Len(sent[p]) : Waiting(p, n) \/ Settled(p, n)

(* What the app has stored and acknowledged is never handed to it again,    *)
(* though batches are fetched again and receipts are forgotten: animations  *)
(* and cups would be played twice.                                          *)
NoRedelivery ==
    [][\A p \in Peers :
         \A n \in Elements(inbox'[p]) \ Elements(inbox[p]) : n \notin stored[p]]_vars

(* Together the parts are the channel the two people see.                   *)
Channel == INSTANCE EventChannel WITH
    count <- [p \in Peers |-> IF sent[p] = <<>> THEN 0 ELSE Len(sent[p]) - 1],
    shown <- [p \in Peers |-> {n - 1 : n \in stored[p]}],
    confirmed <- verified
ImplementsChannel == Channel!Spec

(* The handshake completes on both devices, however full the queues.        *)
PairingCompletes == \A p \in Peers : <>established[p]

(* An event in the sender's own history reaches the history of the other,   *)
(* once that other user has confirmed: even a full inbox drains.            *)
EventuallyShared ==
    \A p \in Peers : \A e \in Events :
        (e \in outgoing[p] /\ verified[Other(p)])
            ~> (\E n \in stored[Other(p)] : sent[p][n].event = e)
=============================================================================
