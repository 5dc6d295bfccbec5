----------------------------- MODULE LiveTyping -----------------------------
(***************************************************************************)
(* How the partner comes to hold the key of the pulses one device sends:   *)
(* src/live/liveChannel.ts on both sides, the native keys of               *)
(* src-tauri/src/live/rooms.rs, and the session queue that makes and sends *)
(* them.  The two directions are alike and share only the connection, so   *)
(* one is modelled: the sender's key, and the receiver who must open it.   *)
(*                                                                         *)
(* A key is its epoch.  Keys travel by the ratchet mailbox (keymail), which *)
(* neither loses nor reorders them (RatchetMailbox); frames travel through *)
(* the room, which drops them with a socket (LiveRoom).  Presence is exact *)
(* here.  The clock counts the keys that were made; it is not set back.     *)
(* A pulse is its epoch; its sequence and content are left out.            *)
(***************************************************************************)
EXTENDS Naturals, Sequences, FiniteSetsExt, SequencesExt

CONSTANTS
    MaxWire,   \* frames on their way to the receiver
    MaxFaults  \* restarts, lost sockets, failed calls, toggles, slow mail

ASSUME TypingAssumption ==
    MaxWire \in Nat \ {0} /\ MaxFaults \in Nat

VARIABLES
    \* The sender.
    clock, own,    \* wall clock, and the native key (0 for none)
    wanted,        \* the preference
    link, epoch,   \* the channel: off, wait, retry, up; LiveChannel.epoch
    queue, reply,  \* the session queue's calls, and a result on its way back
    sealing,       \* is a call of seal under way, and for a stopped channel
    rotatable,     \* have ten seconds passed since lastRotateAt
    \* The room.
    announced, renewing,  \* the sender's attachment, and a renewal's copy of it
    need,          \* a rekey request on its way to the sender
    wire,          \* frames on their way to the receiver
    keymail,       \* live.key events on their way; 0 is the off event
    \* The receiver.
    listening,     \* has it a ready socket
    keys,          \* PeerKeys, the greatest one not retired
    checking,      \* the epoch requestKeyIfMissing waits for, or 0
    askable,       \* have ten seconds passed since lastNeedAt
    faults

sender == <<clock, own, wanted, link, epoch, queue, reply, sealing, rotatable>>
room == <<announced, renewing, need, wire, keymail>>
receiver == <<listening, keys, checking, askable>>
vars == <<sender, room, receiver, faults>>

None == [op |-> "none", e |-> 0]
Init ==
    /\ clock = 0 /\ own = 0 /\ wanted = TRUE
    /\ link = "off" /\ epoch = 0
    /\ queue = <<>> /\ reply = None
    /\ sealing = "no" /\ rotatable = TRUE
    /\ announced = 0 /\ renewing = 0 /\ need = FALSE
    /\ wire = <<>> /\ keymail = <<>>
    /\ listening = FALSE /\ keys = {} /\ checking = 0 /\ askable = TRUE
    /\ faults = 0

Fault == faults < MaxFaults /\ faults' = faults + 1
Newest == Max(keys \cup {0})
Frame(t, e) == [t |-> t, e |-> e]
Forward(f) == wire' = IF listening THEN Append(wire, f) ELSE wire

-----------------------------------------------------------------------------
\* The sender's channel.

\* The effect of useLiveTyping makes a channel, which asks for a key first.
Start ==
    /\ wanted /\ link = "off"
    /\ link' = "wait"
    /\ queue' = Append(queue, "connect")
    /\ UNCHANGED <<clock, own, wanted, epoch, reply, sealing, rotatable, room, receiver, faults>>

\* connect, again.
Retry ==
    /\ link = "retry"
    /\ link' = "wait"
    /\ queue' = IF epoch = 0 THEN Append(queue, "connect") ELSE queue
    /\ UNCHANGED <<clock, own, wanted, epoch, reply, sealing, rotatable, room, receiver, faults>>

\* A ticket, the socket, onopen: the ready frame.
Open ==
    /\ link = "wait" /\ epoch # 0
    /\ link' = "up"
    /\ announced' = epoch /\ renewing' = 0 /\ need' = FALSE
    /\ Forward(Frame("peer", epoch))
    /\ UNCHANGED <<clock, own, wanted, epoch, queue, reply, sealing, rotatable>>
    /\ UNCHANGED <<keymail, receiver, faults>>
OpenFails ==
    /\ link = "wait" /\ epoch # 0 /\ Fault
    /\ link' = "retry"
    /\ UNCHANGED <<clock, own, wanted, epoch, queue, reply, sealing, rotatable, room, receiver>>

\* onclose.
Lost ==
    /\ link = "up" /\ Fault
    /\ link' = "retry"
    /\ renewing' = 0 /\ need' = FALSE
    /\ UNCHANGED <<clock, own, wanted, epoch, queue, reply, sealing, rotatable>>
    /\ UNCHANGED <<announced, wire, keymail, receiver>>

\* rotate, up to sendKey.
Rotate(op) ==
    IF rotatable THEN rotatable' = FALSE /\ queue' = Append(queue, op)
    ELSE UNCHANGED <<rotatable, queue>>

NeedArrives ==
    /\ link = "up" /\ need
    /\ need' = FALSE
    /\ Rotate("rotate")
    /\ UNCHANGED <<clock, own, wanted, link, epoch, reply, sealing>>
    /\ UNCHANGED <<announced, renewing, wire, keymail, receiver, faults>>

\* send, up to seal, and after it.
Send ==
    /\ link = "up" /\ listening /\ sealing = "no" /\ Len(wire) < MaxWire
    /\ sealing' = "yes"
    /\ UNCHANGED <<clock, own, wanted, link, epoch, queue, reply, rotatable, room, receiver, faults>>
Sealed ==
    /\ sealing # "no" /\ own # 0
    /\ sealing' = "no"
    /\ IF sealing = "yes" /\ link = "up" THEN Forward(Frame("pulse", own)) ELSE UNCHANGED wire
    /\ UNCHANGED <<clock, own, wanted, link, epoch, queue, reply, rotatable>>
    /\ UNCHANGED <<announced, renewing, need, keymail, receiver, faults>>
\* rekey_required (the key is a day old, or used up), or no_live_key.
SealRefused ==
    /\ sealing # "no"
    /\ IF own = 0 THEN UNCHANGED faults ELSE Fault
    /\ sealing' = "no"
    /\ Rotate(IF sealing = "yes" THEN "rotate" ELSE "orphan")
    /\ UNCHANGED <<clock, own, wanted, link, epoch, reply, room, receiver>>

\* The channel is stopped: what it still waits for is nobody's.
Orphaned(ops) == [i \in DOMAIN ops |-> IF ops[i] = "off" THEN "off" ELSE "orphan"]
Stop ==
    /\ link' = "off" /\ epoch' = 0
    /\ reply' = IF reply = None THEN None ELSE [reply EXCEPT !.op = "orphan"]
    /\ sealing' = IF sealing = "yes" THEN "late" ELSE sealing
    /\ rotatable' = TRUE
    /\ renewing' = 0 /\ need' = FALSE

\* The user switches live typing off, and on.
SwitchOff ==
    /\ wanted /\ Fault
    /\ wanted' = FALSE
    /\ Stop
    /\ queue' = Append(Orphaned(queue), "off")
    /\ UNCHANGED <<clock, own, announced, wire, keymail, receiver>>
SwitchOn ==
    /\ ~wanted
    /\ wanted' = TRUE
    /\ UNCHANGED <<clock, own, link, epoch, queue, reply, sealing, rotatable, room, receiver, faults>>

SenderRestarts ==
    /\ Fault
    /\ own' = 0 /\ link' = "off" /\ epoch' = 0 /\ queue' = <<>> /\ reply' = None
    /\ sealing' = "no" /\ rotatable' = TRUE
    /\ renewing' = 0 /\ need' = FALSE
    /\ UNCHANGED <<clock, wanted, announced, wire, keymail, receiver>>

-----------------------------------------------------------------------------
\* The native calls, one after the other.

Running(ops) == reply = None /\ queue # <<>> /\ Head(queue) \in ops
Makes == {"connect", "rotate", "orphan"}
Return(e) == reply' = [op |-> Head(queue), e |-> e] /\ queue' = Tail(queue)

\* prepare_own_key.
FreshEpoch == Max({clock + 1, own + 1})

\* send_live_key.
MakeKey ==
    /\ Running(Makes)
    /\ clock' = clock + 1
    /\ own' = FreshEpoch
    /\ keymail' = Append(keymail, own')
    /\ Return(own')
    /\ UNCHANGED <<wanted, link, epoch, sealing, rotatable>>
    /\ UNCHANGED <<announced, renewing, need, wire, receiver, faults>>
\* The outbox is full, or the pairing is blocked.
MakeKeyFails ==
    /\ Running(Makes) /\ Fault
    /\ Return(0)
    /\ UNCHANGED <<clock, own, wanted, link, epoch, sealing, rotatable, room, receiver>>
\* The key is installed, and the commit of the session fails.
MakeKeyUncommitted ==
    /\ Running(Makes) /\ Fault
    /\ clock' = clock + 1
    /\ own' = FreshEpoch
    /\ Return(0)
    /\ UNCHANGED <<wanted, link, epoch, sealing, rotatable, room, receiver>>

\* send_live_off; its failure is ignored.
SendOff ==
    /\ Running({"off"})
    /\ own' = 0
    /\ keymail' = Append(keymail, 0)
    /\ queue' = Tail(queue)
    /\ UNCHANGED <<clock, wanted, link, epoch, reply, sealing, rotatable>>
    /\ UNCHANGED <<announced, renewing, need, wire, receiver, faults>>
SendOffFails ==
    /\ Running({"off"}) /\ Fault
    /\ queue' = Tail(queue)
    /\ UNCHANGED <<clock, own, wanted, link, epoch, reply, sealing, rotatable, room, receiver>>

\* After sendKey, in connect and in rotate.
Connected ==
    /\ reply.op = "connect"
    /\ reply' = None
    /\ IF reply.e = 0 THEN link' = "retry" /\ UNCHANGED epoch
       ELSE epoch' = reply.e /\ UNCHANGED link
    /\ UNCHANGED <<clock, own, wanted, queue, sealing, rotatable, room, receiver, faults>>
Rotated ==
    /\ reply.op = "rotate" /\ reply.e # 0
    /\ reply' = None
    /\ epoch' = reply.e
    /\ IF link = "up" THEN announced' = reply.e /\ Forward(Frame("rekey", reply.e))
       ELSE UNCHANGED <<announced, wire>>
    /\ UNCHANGED <<clock, own, wanted, link, queue, sealing, rotatable>>
    /\ UNCHANGED <<renewing, need, keymail, receiver, faults>>
Dropped ==
    /\ reply.op = "orphan" \/ (reply.op = "rotate" /\ reply.e = 0)
    /\ reply' = None
    /\ UNCHANGED <<clock, own, wanted, link, epoch, queue, sealing, rotatable, room, receiver, faults>>

-----------------------------------------------------------------------------
\* The room: a renewal writes back the attachment it read before.

Renew ==
    /\ link = "up" /\ renewing = 0
    /\ renewing' = announced
    /\ UNCHANGED <<sender, announced, need, wire, keymail, receiver, faults>>
Renewed ==
    /\ renewing # 0
    /\ announced' = renewing /\ renewing' = 0
    /\ UNCHANGED <<sender, need, wire, keymail, receiver, faults>>

-----------------------------------------------------------------------------
\* The receiver.

Listen ==
    /\ ~listening
    /\ listening' = TRUE
    /\ wire' = IF link = "up" THEN <<Frame("peer", announced)>> ELSE <<>>
    /\ UNCHANGED <<sender, announced, renewing, need, keymail, keys, checking, askable, faults>>
ReceiverLost ==
    /\ listening /\ Fault
    /\ listening' = FALSE /\ wire' = <<>>
    /\ UNCHANGED <<sender, announced, renewing, need, keymail, keys, checking, askable>>
ReceiverRestarts ==
    /\ Fault
    /\ listening' = FALSE /\ wire' = <<>>
    /\ keys' = {} /\ checking' = 0 /\ askable' = TRUE
    /\ UNCHANGED <<sender, announced, renewing, need, keymail>>

\* Mutant: a key is asked for although it came with the mail.
MissingAlways(e) == TRUE

\* status.peerEpoch is not the epoch.
Missing(e) == Newest # e

\* Mutant: a key that is missing is not asked for.
CheckNever(e) == UNCHANGED checking

\* requestKeyIfMissing, up to the wait.
Check(e) == checking' = IF checking = 0 /\ Missing(e) THEN e ELSE checking

Receive ==
    /\ wire # <<>>
    /\ wire' = Tail(wire)
    /\ LET f == Head(wire)
       IN IF f.t = "pulse" /\ f.e \in keys THEN UNCHANGED checking ELSE Check(f.e)
    /\ UNCHANGED <<sender, announced, renewing, need, keymail, listening, keys, askable, faults>>

\* A call, a frame or mail that takes longer than a timer is a fault.
Slow ==
    IF keymail = <<>> /\ wire = <<>> /\ ~need /\ queue = <<>> /\ reply = None /\ sealing = "no"
    THEN UNCHANGED faults ELSE Fault

\* After KEY_WAIT_MS.
CheckDue ==
    /\ checking # 0
    /\ checking' = 0
    /\ Slow
    /\ IF listening /\ link = "up" /\ askable /\ Missing(checking)
       THEN need' = TRUE /\ askable' = FALSE
       ELSE UNCHANGED <<need, askable>>
    /\ UNCHANGED <<sender, announced, renewing, wire, keymail, listening, keys>>

\* Mutant: the epoch of the off event passes for a key.
AbsorbOff(e) == IF \E k \in keys : k >= e THEN keys ELSE keys \cup {e}

\* absorb: never roll back to an older epoch; the off event clears all.
Absorb(e) ==
    IF e = 0 THEN {}
    ELSE IF \E k \in keys : k >= e THEN keys
    ELSE keys \cup {e}

Sync ==
    /\ keymail # <<>>
    /\ keymail' = Tail(keymail)
    /\ keys' = Absorb(Head(keymail))
    /\ UNCHANGED <<sender, announced, renewing, need, wire, listening, checking, askable, faults>>

\* Retired keys go after RETIRE_AFTER.
Retire ==
    /\ keys # {} /\ keys # {Newest}
    /\ keys' = {Newest}
    /\ Slow
    /\ UNCHANGED <<sender, room, listening, checking, askable>>

\* Both throttles run out.
TenSeconds ==
    /\ ~rotatable \/ ~askable
    /\ Slow
    /\ rotatable' = TRUE /\ askable' = TRUE
    /\ UNCHANGED <<clock, own, wanted, link, epoch, queue, reply, sealing>>
    /\ UNCHANGED <<room, listening, keys, checking>>

-----------------------------------------------------------------------------
Native == MakeKey \/ MakeKeyFails \/ MakeKeyUncommitted \/ SendOff \/ SendOffFails
Continue == Connected \/ Rotated \/ Dropped
Next ==
    \/ Start \/ Retry \/ Open \/ OpenFails \/ Lost \/ NeedArrives
    \/ Send \/ Sealed \/ SealRefused \/ SwitchOff \/ SwitchOn \/ SenderRestarts
    \/ Native \/ Continue \/ Renew \/ Renewed
    \/ Listen \/ ReceiverLost \/ ReceiverRestarts \/ Receive \/ CheckDue \/ Sync \/ Retire
    \/ TenSeconds

Spec == Init /\ [][Next]_vars

\* The channels reconnect, calls return, frames and mail arrive, timers fire,
\* and the sender goes on typing.
FairSpec ==
    /\ Spec
    /\ WF_vars(Start) /\ WF_vars(Retry) /\ WF_vars(Open) /\ WF_vars(Listen)
    /\ WF_vars(Native) /\ WF_vars(Continue) /\ WF_vars(NeedArrives)
    /\ SF_vars(Send) /\ WF_vars(Sealed \/ SealRefused)
    /\ WF_vars(Receive) /\ SF_vars(CheckDue) /\ WF_vars(Sync)
    /\ SF_vars(TenSeconds) /\ WF_vars(Renewed)
-----------------------------------------------------------------------------
TypeOK ==
    /\ {clock, own, epoch, announced, renewing, checking} \subseteq Nat
    /\ link \in {"off", "wait", "retry", "up"}
    /\ queue \in Seq(Makes \cup {"off"})
    /\ reply \in [op : Makes \cup {"none"}, e : Nat]
    /\ sealing \in {"no", "yes", "late"}
    /\ wire \in Seq([t : {"peer", "rekey", "pulse"}, e : Nat])
    /\ keymail \in Seq(Nat) /\ keys \subseteq Nat \ {0}
    /\ {wanted, rotatable, need, listening, askable} \subseteq BOOLEAN

Heard == own # 0 /\ own \in keys

(* While both stay connected the receiver comes to hold the key the sender  *)
(* seals with, after any restart, toggle, failed call or stale announcement *)
(* on either side.                                                          *)
KeysAgree == <>[](link = "up" /\ listening) => <>[]Heard

(* Keys are not made without a cause: rekey requests, announcements and     *)
(* rotations do not set one another off.                                    *)
NoRekeyStorm == clock <= 1 + 3 * faults
=============================================================================
