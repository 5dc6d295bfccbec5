-------------------------- MODULE PairingLifecycle --------------------------
(***************************************************************************)
(* How one device gets into a relationship and out of it again: the saved  *)
(* pairing record (src/pairing/secureStore.ts), the operations of the app  *)
(* (src/App.tsx) that run one after the other in its session queue, the    *)
(* native ratchet session (src-tauri/src/ratchet/mod.rs) and the relay's   *)
(* entry for the relationship.                                             *)
(*                                                                         *)
(* Each step is one awaited call.  Clicks and timers are not in the queue: *)
(* they set flags while another operation is under way.  A write to the    *)
(* credential store may succeed, fail, or succeed and still be reported as *)
(* failed; so may a ratchet command and a request to the relay.  The app   *)
(* may be closed or killed at any moment.                                  *)
(***************************************************************************)
EXTENDS Naturals, Sequences, FiniteSets

CONSTANTS
    Own,        \* relationship ids this device generates
    Foreign,    \* ids of relationships other devices invite it into
    Old,        \* the relationship a pre-ratchet version left behind
    None,       \* no relationship
    Upgraded,   \* did an older version leave such a relationship
    MaxRetired, \* how many left relationships the native store remembers
    MaxFaults,  \* bound on failures and restarts
    MaxWaiting  \* bound on the operations waiting in the session queue

Rels == Own \cup Foreign \cup {Old}

ASSUME LifecycleAssumption ==
    /\ Own \cap Foreign = {}
    /\ Old \notin Own \cup Foreign
    /\ None \notin Rels
    /\ Upgraded \in BOOLEAN
    /\ MaxRetired \in Nat \ {0}
    /\ MaxFaults \in Nat
    /\ MaxWaiting \in Nat \ {0}

VARIABLES
    \* Durable on the device.
    disk,      \* the record in the credential store
    legacy,    \* the relationship in an older version's local storage
    native,    \* the relationship of the native session
    retired,   \* the relationships the native store refuses, the oldest first
    saved,     \* every relationship this device ever had (history)
    leaves,    \* the relationships it has left, in their order (history)
    \* In the memory of the app.
    memo,      \* SecurePairingStore.record
    ref,       \* pairingRef, the pairing state in use
    blocked,   \* pairingBlockedRef
    ready,     \* pairingReady
    pending,   \* revocationPending
    locked,    \* credentialLocked
    busy,      \* pairingBusyRef
    queue,     \* operations waiting in the session queue
    op,        \* the operation under way
    step,      \* its next call
    erased,    \* did finishRevocation erase the native session
    \* Elsewhere.
    relay,     \* the relay's entry for each relationship
    faults

durable == <<disk, legacy, native, retired, saved, leaves>>
flags == <<blocked, ready, pending, locked, busy>>
running == <<queue, op, step, erased>>
vars == <<disk, legacy, native, retired, saved, leaves, memo, ref, blocked, ready, pending,
          locked, busy, queue, op, step, erased, relay, faults>>

-----------------------------------------------------------------------------
\* Pairing states and records.

Registrations == {"create", "join", "done"}
Pairings == [rel : Rels, partner : BOOLEAN, ratchet : BOOLEAN, registration : Registrations]
NoPairing == [rel |-> None, partner |-> FALSE, ratchet |-> FALSE, registration |-> "done"]

Active(pairing) == [kind |-> "active", pairing |-> pairing]
\* Revoking keeps the ids only.
Revoking(rel) == [kind |-> "revoking", pairing |-> [NoPairing EXCEPT !.rel = rel]]
Empty == [kind |-> "empty", pairing |-> NoPairing]
NoRecord == [kind |-> "none", pairing |-> NoPairing]   \* never written, or not read yet

Records == {Active(pairing) : pairing \in Pairings} \cup {Revoking(rel) : rel \in Rels}
             \cup {Empty, NoRecord}

Operations == {"load", "create", "join", "disconnect", "retry", "sync"}
Steps == {"read", "begin", "forget", "revoke", "complete", "make", "invite",
          "init", "prepare", "register", "registered", "contact"}

TypeOK ==
    /\ disk \in Records /\ memo \in Records
    /\ legacy \in {Old, None}
    /\ native \in Rels \cup {None}
    /\ retired \in Seq(Rels) /\ Len(retired) <= MaxRetired
    /\ saved \subseteq Rels /\ leaves \in Seq(Rels)
    /\ ref \in Pairings \cup {NoPairing}
    /\ blocked \in BOOLEAN /\ ready \in BOOLEAN /\ pending \in BOOLEAN
    /\ locked \in BOOLEAN /\ busy \in BOOLEAN /\ erased \in BOOLEAN
    /\ queue \in Seq(Operations)
    /\ op \in Operations \cup {"none"}
    /\ step \in Steps \cup {"none"}
    /\ relay \in [Rels -> {"unknown", "open", "revoked"}]
    /\ faults \in Nat

Paired == ref # NoPairing

Init ==
    /\ disk = NoRecord
    /\ legacy = IF Upgraded THEN Old ELSE None
    /\ native = None
    /\ retired = <<>>
    /\ saved = {} /\ leaves = <<>>
    /\ memo = NoRecord
    /\ ref = NoPairing
    /\ blocked = TRUE
    /\ ready = FALSE /\ pending = FALSE /\ locked = FALSE /\ busy = FALSE
    /\ queue = <<"load">>
    /\ op = "none" /\ step = "none" /\ erased = FALSE
    /\ relay = [r \in Rels |-> IF r = Old /\ Upgraded THEN "open" ELSE "unknown"]
    /\ faults = 0

-----------------------------------------------------------------------------
\* The session queue, and what is done outside it.

Waiting(o) == op = o \/ \E i \in 1..Len(queue) : queue[i] = o
Enqueue(o) == Len(queue) < MaxWaiting /\ queue' = Append(queue, o)

\* Ids run out only here: Own is the bound on the pairings the user creates.
CreateClicked ==
    /\ ready /\ ~pending /\ ~busy /\ ~ref.partner
    /\ Own \ saved # {}
    /\ busy' = TRUE /\ blocked' = TRUE
    /\ Enqueue("create")
    /\ UNCHANGED <<durable, memo, ref, ready, pending, locked, op, step, erased, relay, faults>>

JoinClicked ==
    /\ ready /\ ~pending /\ ~busy /\ ~Paired
    /\ busy' = TRUE
    /\ Enqueue("join")
    /\ UNCHANGED <<durable, memo, ref, blocked, ready, pending, locked, op, step, erased,
                   relay, faults>>

DisconnectClicked ==
    /\ ready /\ ~busy
    /\ busy' = TRUE /\ blocked' = TRUE
    /\ Enqueue("disconnect")
    /\ UNCHANGED <<durable, memo, ref, ready, pending, locked, op, step, erased, relay, faults>>

\* The retry of a pending revocation: every 15 seconds and when back online.
RetryTick ==
    /\ ready /\ pending /\ ~Waiting("retry")
    /\ Enqueue("retry")
    /\ UNCHANGED <<durable, memo, ref, flags, op, step, erased, relay, faults>>

\* The sync timer of a pairing; at most one sync is in flight.
SyncTick ==
    /\ Paired /\ ~Waiting("sync")
    /\ Enqueue("sync")
    /\ UNCHANGED <<durable, memo, ref, flags, op, step, erased, relay, faults>>

\* The user lets the app use the credential store again, and it reloads.
Authorize ==
    /\ locked
    /\ locked' = FALSE
    /\ Enqueue("load")
    /\ UNCHANGED <<durable, memo, ref, blocked, ready, pending, busy, op, step, erased,
                   relay, faults>>

\* Mutant of RetryStep: goes ahead although the cancellation is finished.
RetryStepUnchecked == "forget"

RetryStep == IF memo.kind = "revoking" THEN "forget" ELSE "none"

FirstStep(o) ==
    CASE o = "load" -> "read"
      [] o = "create" -> IF Paired THEN "begin" ELSE "make"
      [] o = "join" -> "invite"
      [] o = "disconnect" -> IF Paired THEN "begin" ELSE "none"
      [] o = "retry" -> RetryStep
      [] o = "sync" -> IF blocked \/ ~Paired THEN "none"
                       ELSE IF ref.registration = "done" THEN "contact"
                       ELSE IF ref.ratchet THEN "init" ELSE "register"

Start ==
    /\ op = "none"
    /\ queue # <<>>
    /\ queue' = Tail(queue)
    /\ step' = FirstStep(Head(queue))
    /\ IF step' = "none"
         THEN op' = "none" /\ busy' = (busy /\ Head(queue) # "disconnect")
         ELSE op' = Head(queue) /\ busy' = busy
    /\ UNCHANGED <<durable, memo, ref, blocked, ready, pending, locked, erased, relay, faults>>

-----------------------------------------------------------------------------
\* How calls and operations end.

Goto(s) == step' = s /\ UNCHANGED <<queue, op>>
End == op' = "none" /\ step' = "none" /\ UNCHANGED queue
ClicksAgain == busy' = (busy /\ op \notin {"create", "join", "disconnect"})

Fault == faults < MaxFaults /\ faults' = faults + 1

\* SecurePairingStore.write: an unchanged record is not written again.
Written(record) == disk' = (IF memo = record THEN disk ELSE record) /\ memo' = record
WriteFailed(record) ==
    /\ memo # record
    /\ Fault
    /\ disk' \in {disk, record}
    /\ UNCHANGED memo

\* The credential store refused without asking the user: authorizationFailure.
Refused == blocked' = TRUE /\ ready' = FALSE /\ locked' = TRUE
\* createPairing and joinPairing go on with whatever pairing they have.
Resumed == blocked' = ~Paired /\ UNCHANGED <<ready, locked>>

\* The operation ends with an error that is not persistPairing's own.
Failed ==
    /\ CASE op \in {"create", "join"} -> Resumed \/ Refused
         [] op = "disconnect" -> UNCHANGED <<blocked, ready, locked>>
         [] OTHER -> UNCHANGED <<blocked, ready, locked>> \/ Refused
    /\ End
    /\ ClicksAgain

\* The same for an error that has nothing to do with the credential store.
RelayFailed ==
    /\ IF op \in {"create", "join"} THEN Resumed ELSE UNCHANGED <<blocked, ready, locked>>
    /\ End
    /\ ClicksAgain

\* persistPairing fails: the pairing is blocked until it is loaded again.
StorageFailed ==
    /\ blocked' = TRUE /\ ready' = FALSE
    /\ locked' \in {locked, TRUE}
    /\ End
    /\ ClicksAgain

\* persistPairing: save refuses while a revocation is pending.
Saved(pairing) ==
    /\ memo.kind \in {"active", "empty"}
    /\ Written(Active(pairing))
    /\ ref' = pairing
    /\ saved' = saved \cup {pairing.rel}
NotSaved(pairing) ==
    /\ \/ memo.kind \in {"active", "empty"} /\ WriteFailed(Active(pairing))
       \/ memo.kind \notin {"active", "empty"} /\ UNCHANGED <<disk, memo, faults>>
    /\ saved' = IF disk' = Active(pairing) THEN saved \cup {pairing.rel} ELSE saved
    /\ StorageFailed
    /\ UNCHANGED ref

-----------------------------------------------------------------------------
\* load

\* The record is read; one that was never written is made from what an older
\* version left, and only then is that copy removed.
Restored ==
    IF disk # NoRecord THEN disk
    ELSE IF legacy = None THEN Empty
    ELSE Active([rel |-> legacy, partner |-> TRUE, ratchet |-> FALSE, registration |-> "done"])
Reread == disk' = Restored /\ memo' = Restored

\* Mutant of Load: the cancellation on record is not taken up again.
LoadWithoutPending ==
    /\ step = "read"
    /\ Reread
    /\ legacy' = None
    /\ saved' = saved \cup ({Restored.pairing.rel} \ {None})
    /\ ref' = IF Restored.kind = "active" THEN Restored.pairing ELSE NoPairing
    /\ blocked' = ~(Restored.kind = "active" /\ Restored.pairing.ratchet)
    /\ ready' = TRUE /\ locked' = FALSE
    /\ End
    /\ UNCHANGED <<native, retired, leaves, pending, busy, erased, relay, faults>>

Load ==
    /\ step = "read"
    /\ Reread
    /\ legacy' = None
    /\ saved' = saved \cup ({Restored.pairing.rel} \ {None})
    /\ ref' = IF Restored.kind = "active" THEN Restored.pairing ELSE NoPairing
    /\ blocked' = ~(Restored.kind = "active" /\ Restored.pairing.ratchet)
    /\ pending' = (Restored.kind = "revoking")
    /\ ready' = TRUE /\ locked' = FALSE
    /\ End
    /\ UNCHANGED <<native, retired, leaves, busy, erased, relay, faults>>

LoadFails ==
    /\ step = "read"
    /\ Fault
    /\ disk' \in {disk, Restored}
    /\ saved' = IF disk' = disk THEN saved ELSE saved \cup ({Restored.pairing.rel} \ {None})
    /\ Failed
    /\ UNCHANGED <<legacy, native, retired, leaves, memo, ref, pending, erased, relay>>

-----------------------------------------------------------------------------
\* Leaving a relationship.

BeginRevocation ==
    /\ step = "begin"
    /\ memo.kind = "active" /\ memo.pairing.rel = ref.rel
    /\ Written(Revoking(ref.rel))
    /\ legacy' = None
    /\ ref' = NoPairing
    /\ pending' = TRUE
    /\ Goto("forget")
    /\ UNCHANGED <<native, retired, leaves, saved, blocked, ready, locked, busy, erased, relay,
                   faults>>

\* Mutant of BeginRevocationFails: disconnectPairing goes on as createPairing does.
BeginRevocationFailsOpen ==
    /\ step = "begin"
    /\ \/ WriteFailed(Revoking(ref.rel))
       \/ ~(memo.kind = "active" /\ memo.pairing.rel = ref.rel) /\ UNCHANGED <<disk, memo, faults>>
    /\ IF op = "sync" THEN StorageFailed ELSE Resumed /\ End /\ ClicksAgain
    /\ UNCHANGED <<legacy, native, retired, leaves, saved, ref, pending, erased, relay>>

\* disconnectPairing and forgetRevokedPair stop the app from going on; the
\* failure of createPairing falls through to Failed.
BeginRevocationFails ==
    /\ step = "begin"
    /\ \/ WriteFailed(Revoking(ref.rel))
       \/ ~(memo.kind = "active" /\ memo.pairing.rel = ref.rel) /\ UNCHANGED <<disk, memo, faults>>
    /\ IF op = "create" THEN Failed ELSE StorageFailed
    /\ UNCHANGED <<legacy, native, retired, leaves, saved, ref, pending, erased, relay>>

\* The relationships "create" and "join" refuse ("relationship_retired").
Remembered == {retired[i] : i \in DOMAIN retired}
\* One more; the oldest goes when there are too many.
Retire(rel) ==
    IF rel \in Remembered THEN UNCHANGED <<retired, leaves>>
    ELSE /\ leaves' = Append(leaves, rel)
         /\ retired' = IF Len(retired) < MaxRetired THEN Append(retired, rel)
                       ELSE Tail(Append(retired, rel))

\* Mutant of Forgotten: the id is refused from now on, the session stays.
ForgottenKept ==
    /\ native' = native
    /\ Retire(memo.pairing.rel)

\* The "forget" command.
Forgotten ==
    /\ native' = IF native = memo.pairing.rel THEN None ELSE native
    /\ Retire(memo.pairing.rel)
Forget ==
    /\ step = "forget"
    /\ Forgotten
    /\ erased' = TRUE
    /\ Goto(IF op = "sync" THEN "complete" ELSE "revoke")
    /\ UNCHANGED <<disk, legacy, saved, memo, ref, flags, relay, faults>>

\* finishRevocation remembers the error and cancels at the relay all the same;
\* forgetRevokedPair, whose relationship the relay has cancelled, gives up.
ForgetFails ==
    /\ step = "forget"
    /\ Fault
    /\ Forgotten \/ UNCHANGED <<native, retired, leaves>>
    /\ erased' = FALSE
    /\ \/ op = "sync" /\ Failed
       \/ op # "sync" /\ Goto("revoke") /\ UNCHANGED <<blocked, ready, locked, busy>>
    /\ UNCHANGED <<disk, legacy, saved, memo, ref, pending, relay>>

RevokeAtRelay == relay' = [relay EXCEPT ![memo.pairing.rel] = "revoked"]

\* Mutant of Revoke: the error of the native store is forgotten.
RevokeUnerased ==
    /\ step = "revoke"
    /\ RevokeAtRelay
    /\ Goto("complete")
    /\ UNCHANGED <<durable, memo, ref, flags, erased, faults>>

Revoke ==
    /\ step = "revoke"
    /\ RevokeAtRelay
    /\ \/ erased /\ Goto("complete") /\ UNCHANGED <<blocked, ready, locked, busy>>
       \/ ~erased /\ Failed
    /\ UNCHANGED <<durable, memo, ref, pending, erased, faults>>

\* Mutant of RevokeFails: an unreachable relay does not stop the cancellation.
RevokeFailsIgnored ==
    /\ step = "revoke"
    /\ Fault
    /\ RevokeAtRelay \/ UNCHANGED relay
    /\ Goto("complete")
    /\ UNCHANGED <<durable, memo, ref, flags, erased>>

RevokeFails ==
    /\ step = "revoke"
    /\ Fault
    /\ RevokeAtRelay \/ UNCHANGED relay
    /\ RelayFailed
    /\ UNCHANGED <<durable, memo, ref, pending, erased>>

CompleteRevocation ==
    /\ step = "complete"
    /\ Written(Empty)
    /\ pending' = FALSE
    /\ \/ op = "create" /\ Goto("make") /\ UNCHANGED busy
       \/ op # "create" /\ End /\ ClicksAgain
    /\ UNCHANGED <<legacy, native, retired, leaves, saved, ref, blocked, ready, locked, erased,
                   relay, faults>>

CompleteRevocationFails ==
    /\ step = "complete"
    /\ WriteFailed(Empty)
    /\ Failed
    /\ UNCHANGED <<legacy, native, retired, leaves, saved, ref, pending, erased, relay>>

-----------------------------------------------------------------------------
\* Entering a relationship.

\* createPairing: a fresh id, saved before anybody else hears of it.
Fresh(r) ==
    IF step = "make"
      THEN r \in Own \ saved
      ELSE step = "invite" /\ r \in Foreign \ saved /\ relay[r] # "unknown"
NewPairing(r) ==
    IF step = "make"
      THEN [rel |-> r, partner |-> FALSE, ratchet |-> FALSE, registration |-> "create"]
      ELSE [rel |-> r, partner |-> TRUE, ratchet |-> TRUE, registration |-> "join"]
SaveNew(r) ==
    /\ step \in {"make", "invite"}
    /\ Fresh(r)
    /\ Saved(NewPairing(r))
    /\ Goto("init")
    /\ UNCHANGED <<legacy, native, retired, leaves, flags, erased, relay, faults>>
SaveNewFails(r) ==
    /\ step \in {"make", "invite"}
    /\ Fresh(r)
    /\ NotSaved(NewPairing(r))
    /\ UNCHANGED <<legacy, native, retired, leaves, pending, erased, relay>>

\* joinWithPairingCode gives up: a wrong code, or nobody answers.
NoInvite ==
    /\ step = "invite"
    /\ RelayFailed
    /\ UNCHANGED <<durable, memo, ref, pending, erased, relay, faults>>

\* initializeRatchet: the "create" and "join" commands return the session there is.
InitRatchet ==
    /\ step = "init"
    /\ ref.rel \notin Remembered
    /\ native \in {None, ref.rel}
    /\ native' = ref.rel
    /\ Goto(IF op = "sync" THEN "register" ELSE "prepare")
    /\ UNCHANGED <<disk, legacy, retired, leaves, saved, memo, ref, flags, erased, relay, faults>>

InitRatchetFails ==
    /\ step = "init"
    /\ \/ Fault /\ native' \in {native, IF native = None THEN ref.rel ELSE native}
       \/ (ref.rel \in Remembered \/ native \notin {None, ref.rel}) /\ UNCHANGED <<native, faults>>
    /\ Failed
    /\ UNCHANGED <<disk, legacy, retired, leaves, saved, memo, ref, pending, erased, relay>>

Prepared == [ref EXCEPT !.ratchet = TRUE]
SavePrepared ==
    /\ step = "prepare"
    /\ Saved(Prepared)
    /\ Goto("register")
    /\ UNCHANGED <<legacy, native, retired, leaves, flags, erased, relay, faults>>
SavePreparedFails ==
    /\ step = "prepare"
    /\ NotSaved(Prepared)
    /\ UNCHANGED <<legacy, native, retired, leaves, pending, erased, relay>>

\* registerPairCreator and registerPairJoiner; a cancelled id stays reserved.
Register ==
    /\ step = "register"
    /\ relay[ref.rel] # "revoked"
    /\ relay' = [relay EXCEPT ![ref.rel] = "open"]
    /\ Goto("registered")
    /\ UNCHANGED <<durable, memo, ref, flags, erased, faults>>
RegisterFails ==
    /\ step = "register"
    /\ relay[ref.rel] # "revoked"
    /\ Fault
    /\ relay' \in {relay, [relay EXCEPT ![ref.rel] = "open"]}
    /\ RelayFailed
    /\ UNCHANGED <<durable, memo, ref, pending, erased>>
RegisterRefused ==
    /\ step = "register"
    /\ relay[ref.rel] = "revoked"
    /\ \/ op = "sync" /\ Goto("begin") /\ blocked' = TRUE /\ UNCHANGED <<ready, locked, busy>>
       \/ op # "sync" /\ RelayFailed
    /\ UNCHANGED <<durable, memo, ref, pending, erased, relay, faults>>

Joined == [ref EXCEPT !.registration = "done"]
SaveRegistered ==
    /\ step = "registered"
    /\ Saved(Joined)
    /\ \/ op = "sync" /\ Goto("contact") /\ UNCHANGED <<blocked, busy>>
       \/ op # "sync" /\ End /\ ClicksAgain /\ blocked' = FALSE
    /\ UNCHANGED <<legacy, native, retired, leaves, ready, pending, locked, erased, relay, faults>>
SaveRegisteredFails ==
    /\ step = "registered"
    /\ NotSaved(Joined)
    /\ UNCHANGED <<legacy, native, retired, leaves, pending, erased, relay>>

-----------------------------------------------------------------------------
\* The sync of a registered pairing, as far as it changes the relationship.

\* An answer of the relay may bring the partner; it is dropped if the user has
\* asked for something else meanwhile.
Contact ==
    /\ step = "contact"
    /\ relay[ref.rel] = "open"
    /\ \/ ~blocked /\ \E partner \in {ref.partner, TRUE} : Saved([ref EXCEPT !.partner = partner])
       \/ blocked /\ UNCHANGED <<disk, memo, ref, saved>>
    /\ End
    /\ UNCHANGED <<legacy, native, retired, leaves, flags, erased, relay, faults>>
ContactNotSaved ==
    /\ step = "contact"
    /\ relay[ref.rel] = "open"
    /\ ~blocked /\ ~ref.partner
    /\ NotSaved([ref EXCEPT !.partner = TRUE])
    /\ UNCHANGED <<legacy, native, retired, leaves, pending, erased, relay>>
ContactFails ==
    /\ step = "contact"
    /\ Fault
    /\ Failed
    /\ UNCHANGED <<durable, memo, ref, pending, erased, relay>>
\* 410: forgetRevokedPair.
ContactRefused ==
    /\ step = "contact"
    /\ relay[ref.rel] = "revoked"
    /\ blocked' = TRUE
    /\ Goto("begin")
    /\ UNCHANGED <<durable, memo, ref, ready, pending, locked, busy, erased, relay, faults>>

-----------------------------------------------------------------------------
\* The rest of the world.

\* Another device opens a relationship and invites this one.
PartnerInvites ==
    /\ \E r \in Foreign : relay[r] = "unknown" /\ relay' = [relay EXCEPT ![r] = "open"]
    /\ UNCHANGED <<durable, memo, ref, flags, running, faults>>

\* The partner leaves.
PartnerRevokes ==
    /\ \E r \in Rels : relay[r] = "open" /\ relay' = [relay EXCEPT ![r] = "revoked"]
    /\ UNCHANGED <<durable, memo, ref, flags, running, faults>>

\* The app dies or is closed, and is started again.
Restart ==
    /\ Fault
    /\ memo' = NoRecord
    /\ ref' = NoPairing
    /\ blocked' = TRUE
    /\ ready' = FALSE /\ pending' = FALSE /\ locked' = FALSE /\ busy' = FALSE
    /\ queue' = <<"load">>
    /\ op' = "none" /\ step' = "none" /\ erased' = FALSE
    /\ UNCHANGED <<durable, relay>>

Clicks == CreateClicked \/ JoinClicked \/ DisconnectClicked
Leaving ==
    \/ BeginRevocation \/ BeginRevocationFails \/ Forget \/ ForgetFails
    \/ Revoke \/ RevokeFails \/ CompleteRevocation \/ CompleteRevocationFails
Entering ==
    \/ \E r \in Rels : SaveNew(r) \/ SaveNewFails(r)
    \/ NoInvite \/ InitRatchet \/ InitRatchetFails \/ SavePrepared \/ SavePreparedFails
    \/ Register \/ RegisterFails \/ RegisterRefused \/ SaveRegistered \/ SaveRegisteredFails
Syncing == Contact \/ ContactNotSaved \/ ContactFails \/ ContactRefused
Queue == Start \/ Load \/ LoadFails \/ Leaving \/ Entering \/ Syncing

Next == Clicks \/ RetryTick \/ SyncTick \/ Authorize \/ Queue
          \/ PartnerInvites \/ PartnerRevokes \/ Restart

Spec == Init /\ [][Next]_vars

\* The event loop runs what is in the queue, and the retry timer fires.
FairSpec == Spec /\ WF_vars(Queue) /\ SF_vars(RetryTick)

-----------------------------------------------------------------------------
\* Properties.

(* A relationship this device has left is gone everywhere, whatever failed  *)
(* on the way: cancelled at the relay, erased from the native session, and  *)
(* refused by it for as long as fewer than MaxRetired others were left      *)
(* after it.  An "empty" record, or one that names another relationship, is *)
(* written only after that.                                                 *)
LeftIsGone ==
    \A r \in saved : disk.pairing.rel # r =>
        /\ relay[r] = "revoked" /\ native # r
        /\ \E i \in DOMAIN leaves : leaves[i] = r /\ (i + MaxRetired > Len(leaves) => r \in Remembered)

(* A native session never stands in the way of a new pairing                *)
(* ("active_session_exists", "relationship_retired"): it always belongs to  *)
(* the relationship on record.                                              *)
SessionOnRecord ==
    /\ native # None => disk.pairing.rel = native
    /\ step = "init" => ref.rel \notin Remembered /\ native \in {None, ref.rel}

(* The relay never keeps a relationship of this device that is not on its   *)
(* record: there is always a credential to cancel it with.                  *)
NoOrphanAtRelay ==
    \A r \in Own : relay[r] = "open" => disk.pairing.rel = r

(* The cancellation of a pair the device joined, once on disk, is never     *)
(* undone by a save from a pairing still in memory, even when the write was *)
(* reported as failed: the app stays blocked until it has read it again.    *)
NeverResurrected ==
    [][disk.kind = "revoking" /\ disk.pairing.rel \notin Own
          => disk' = disk \/ disk' = Empty]_vars

(* A pairing without a ratchet is paused: it is neither registered nor      *)
(* synced ("the new app pauses old v1 connections").                        *)
LegacyPaused == step \in {"register", "contact"} => ref.ratchet

(* A cancellation the app knows of reaches the relay and is cleared from    *)
(* the record, through restarts and failures of every call, as long as the  *)
(* app may use its credential store.                                        *)
RevocationCompletes ==
    (memo.kind = "revoking" /\ ready) ~> (memo.kind # "revoking" \/ ~ready)
=============================================================================
