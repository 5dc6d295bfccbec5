# Verification of mewlink

mewlink puts two desktop companions on two machines: each shows what the other
person is doing, plays back what was missed, and forwards small interactions.
The program is a Tauri application (React in `src/src`, Rust in
`src/src-tauri/src`) and a Cloudflare Worker (`src/live-worker`); a relay
service, which is not in this repository, stores encrypted messages until they
are fetched. This directory holds TLA+ models of the parts whose correctness
depends on order, failure and concurrency, the TLC runs that check them, and
TLAPS proofs about most of them.

## 1. Inventory

| Part | State it keeps | Operations | Talks to |
|---|---|---|---|
| Ratchet store, `ratchet/store.rs` | `ratchet.bin`, `ratchet.pending`, the anchor in the credential store, a lock file | open, load, commit | ratchet machine |
| Ratchet machine, `ratchet/engine.rs`, `ratchet/mod.rs` | Olm session, next sequence, outbox, inbox, receipts | create, join, confirm, send, receive, outbox, ack_outbox, deliveries, ack_incoming, forget | store, relay transport, live rooms |
| Relay transport, `services/relayTransport.ts` | cursor in the pairing state | register, join, sync, post, revoke | relay, machine, event database |
| Relay (external) | relationship: unknown, open, revoked; mailbox per device | create_pair, join, sync, messages, revoke | both devices |
| Pairing lifecycle, `App.tsx`, `pairing/secureStore.ts`, `pairing/sessionQueue.ts` | record active/revoking/empty, in-memory pairing, flags, queue of operations | load, create, join, sync, disconnect, finish revocation, credential retry | credential store, machine, relay |
| Credential gate, `credentials.rs`, `secure_storage.rs` | prompted, paused | read, write, authorize | operating system |
| Live room, `live-worker/src/index.ts` | sockets with attachments, `revoked`, alarm | fetch, message, close, alarm, revoke | both live channels |
| Live channel, `live/*.ts`, `live/rooms.rs` | socket, ticket, own and peer key epochs, throttles, playout of windows | start, stop, send, connect, receive, renew, rotate | live room, machine (key exchange) |
| History recorder, `history/useOperationHistory.ts`, `history/operations.ts`, `history/outbox.ts`, `storage/events.ts` | points being collected, one draft, the write chain, event database | push, flush, checkpoint, emit, recover, prune | machine (send) |
| Playback, `history/useOperationHistory.ts`, `history/playback.ts`, `history/days.ts` | generation, session, day on the bar, seen mark | start, seek, stop, finish, mark seen | event database |
| Activity and scenes, `platform/activity.ts`, `pet/activityPlayback.ts`, `pet/tucked.ts`, `pet/away.ts` | classified activity, displayed scene, transition, what a hug left | sample, settle, complete, hug, restart | sprite cache |
| Sprite cache, `pet/bitmapCache.ts`, `pet/spriteAssets.ts` | entries, leases, bytes | acquire, release, decode, evict, constrain | scenes |
| Cups and visits, `pet/pendingCups.ts`, `pet/hugVisit.ts` | a cup per desk, a visit's phase | send, drink, expire; start, meet, return | relay events |
| Pomodoro, `pomodoro/*.ts` | start instant, stored timer | start, ring, finish while away, stop | statistics, relay events |
| Statistics and growth, `statistics/*.ts`, `pet/growth.ts` | counters per UTC hour | record, flush, bars of a day, week, month, grow | local storage |
| Updates and news, `services/update.ts`, `whatsNew.ts` | handle of the updater, busy flag, version seen | check, install, dismiss | network |
| Presence and profile, `services/companionState.ts`, `services/profile.ts` | last delivered value per topic, partner's state | heartbeat, deliver, poll | session queue |
| Pointer, drag, pet window, `pointer.rs`, `platform/*Pointer*.ts`, `platform/petDrag.ts`, `window_layout.rs` | flags of the pointer policy, drag, place and frame of the window | hold, sample, drag, resize, open and close a panel, restore | window system |
| Preferences, `settings/preferences.ts` | stored settings | read, clamp, save | everything |
| Native shell, `lib.rs`, `audio.rs`, ... | tray, hooks | operating-system calls | everything |
| Rendering, `components/*`, `pet/*` | sprite frames, panels | drawing | the state above |

`PROJECT.json` lists the same parts with what of each is modelled.

What is hard about it:

* **Crash and partial failure.** A commit of the session touches a file, the
  credential store and a directory; a pairing touches the record, the native
  session and the relay. Each write may fail, or succeed and be reported as
  failed.
* **Concurrency.** The React side is one thread, but every `await` lets clicks,
  timers and the effects of a re-render in; two processes of the application
  may share a store; sockets of a room open, close and are replaced while a
  handler awaits a signature check; commands of the page reach the main thread
  of the native side in another order than they were given.
* **Unreliable delivery.** The answer to a post may be lost, so it is repeated;
  messages are fetched again after a crash; frames of the live room are dropped
  with their socket.
* **Clocks.** Recorded hours are shown in local days; a timer ends while the
  application is closed or the computer sleeps; pulses play against the clock
  of another machine.
* **Bounds.** Outbox, inbox, receipts, the relay's mailbox and its page of
  messages, ticket lifetimes, the byte budget of decoded sheets.

What makes each part correct, in a sentence:

* *Store*: what was released is durable, no two commits continue from the same
  state, an old snapshot is never used, and an anchored store can be opened.
* *Mailbox*: each event of one device is recorded once by the other, in order,
  or waits in exactly one place; nothing is decrypted twice.
* *Lifecycle*: what was left is gone at the relay and on disk; no relationship
  is open at the relay without a record to cancel it with; a cancellation is
  never undone and completes.
* *Credential gate*: only an action of the settings attempts an access that may
  open dialogs, once for each item at most; an unlock was read back.
* *Live room*: at most two devices, one socket each; nothing passes a socket
  before its ready frame or after a revocation; each device knows whether the
  other is there; silent and expired sockets are closed.
* *Live channel*: after any loss of keys the receiver comes to hold the key in
  use, and asking for keys does not feed on itself; windows play forwards and
  not before they arrive.
* *History recorder*: an input that was saved is sent, none is sent twice, and
  a copy of a batch exists until it is sealed.
* *Playback*: one run plays at a time, what is shown belongs to it, and no run
  marks its day as seen that was not watched to the end.
* *Scenes and sheets*: the scene wanted comes to be shown although a sheet loads
  late or never; a leased sheet stays and no bitmap leaks.
* *Cups, pomodoro, statistics*: both apps show the same cups; a pomodoro counts
  once; bars are sums of hours, none doubled or lost by a change of time zone.
* *Updates*: one handle at a time, closed once; news are told once.
* *Presence*: work that has ended is not shown for ever, however late its
  heartbeats; the last choice of what to share reaches the partner.
* *Pointer and window*: clicks reach what the flags say, a drag neither pins the
  menu nor keeps the pointer, and the desks stand where they were left, as far
  as the frame on them fits the screen.

## 2. Modules

| Module | Models | Composes or implements |
|---|---|---|
| `DurableRegister` | what the store promises: a register with one owner at a time | |
| `SessionVault` | `ratchet/store.rs` and the `ratchet_command` that uses it | implements `DurableRegister` |
| `EventChannel` | what the mailbox promises: two ordered channels | |
| `RatchetMailbox` | two machines, their sync loops and the relay's mailbox | implements `EventChannel` |
| `PairingLifecycle` | one device's pairing record, queue, native session and the relay's entry | |
| `AccessGate` | the gate before the credential store and the settings page that asks | |
| `LiveRoom` | the room of `live-worker/src/index.ts`, with its sockets | |
| `LiveTyping` | the keys of live typing: a sender, the session queue, the room, the key mail and a receiver | |
| `Playout` | when a received window plays (`live/protocol.ts`) | |
| `HistoryRecorder` | the effect of `useOperationHistory.ts`, the draft and the way of a batch through `outbox.ts` | |
| `Replay` | start, seek, stop and the seen mark of a playback, run by run | |
| `Scene` | the scene a pup shows and the transitions between scenes | |
| `SpriteCache` | the cache of decoded sheets, with its leases | |
| `Cups` | the cups of water on both desks, over both apps | |
| `Pomodoro` | the timer, over restarts and sleep | |
| `Statistics` | the hourly counters, their bars, and growth | |
| `Updates` | checks, installations, automatic ones, and the news | |
| `Presence` | heartbeat, skin and statistics on their way to the partner | |
| `Pointer` | who gets a click: flags, commands, main thread, sampling | |
| `PetDrag` | a drag by a pet and the click the system makes of it | |
| `PetWindow` | the frame of the window, its tray, and the stored place | |
| `Desk` | the thirteen parts of the pets' window (`AccessGate`, `Playout` and the modules from `Replay` to `PetWindow`), and what is asked of each | instantiates them |
| `*Proofs` | theorems about the module they are named for; `DeskPeersProofs` those about the parts of `Desk` that follow another device | extend it |
| `MC*` | values of constants, symmetry sets | extend the module they are named for |

The header of each module says how its state corresponds to the code and what
is left out; `PROJECT.json` maps each definition to its lines.

### SessionVault

One process holds the lock and runs a command: `Open`, one of the `Load*`
actions, then either `ReturnClean` (the command changed nothing) or the steps
of `commit`: `WritePending`, `SyncPending`, `WriteAnchor`, `VerifyAnchor`,
`PublishRename`, `FinishCommit`. `Abort` is the error return of any step, and
also the death of the process, since both leave the disk as it is and close the
lock file. The disk distinguishes what is written from what is synced: a
`PowerLoss` takes back any unsynced contents and any unsynced rename
independently. `WriteAnchorUncertain` is a credential write that reports an
error and may or may not have happened (the test `Faulty` backend in store.rs).
A snapshot is its version; encryption and the digest are abstracted to "the
anchor names exactly this snapshot". `DirSyncs` says whether `sync_directory`
does anything (it does nothing on Windows, store.rs:92-105); `BackupRestores`
allows an older `ratchet.bin` to come back.

### RatchetMailbox

Each device has a machine (session established, outbox, inbox, receipts,
sequence), a database of recorded events, a saved relay cursor and a sync loop.
A sync posts the outbox, fetches one batch, gives each message to the machine,
drains the outbox again, asks for deliveries, saves the cursor and records and
acknowledges each delivery. Olm is abstracted to what the code relies on: a
message decrypts iff it was not decrypted before. `PostTimesOut` is a request
the relay may have carried out although no answer came. A crash clears
everything but the machine, the cursor and the database. A machine commits
atomically here, which is what `SessionVault` establishes.

### PairingLifecycle

Operations wait in `queue` and run one after the other (`op`, `step`), as
`sessionQueue` does; clicks and the retry timer only add to the queue or set
flags between two steps. Each step is one awaited call, with its failing twin
(`SaveNewFails`, `ForgetFails`, ...). A failing write of the record may or may
not have changed the disk (`NotSaved`), since `SecurePairingStore` reads back
and compares. `Restart` clears the memory and keeps the disk. The relay has one
entry per relationship; the partner opens, accepts and revokes at any time.
`Retire` keeps the last `MaxRetired` ids that were left, in their order, and
forgets the oldest (64 in ratchet/mod.rs:75-78).

### LiveRoom

A socket is `new`, `open`, `closing` (the room has closed it, its close event
has not been handled) or `closed`. Its attachment holds owner, ready flag, and
what is left of the ticket and of the ready limit; the code stores instants,
the model counts down with `Tick`, and `Alarm` runs when its own count is zero,
at once or any number of ticks later. Each handler is one action (`Connect` is
`fetch`, `Ready` and `Forward` are branches of `webSocketMessage`, `Closed` is
`webSocketClose`, `Revoke` the relay's notice), because the runtime holds back
events while storage is awaited. A renewal awaits a signature check, which is
not storage, so it is two actions: `Renew`, then `Renewed` or `RenewRefused`,
with anything in between; `renewing` counts the ticks since `now` was read.
`lingers` says whether `getWebSockets` lists a socket that the room has closed:
that is the runtime's choice, so both kinds are checked. Any frame may find the
rate limit exceeded or be malformed (`FrameRefused`).

### LiveTyping

One direction of live typing: the sender's channel and native key, the calls it
puts into the session queue, the announcement in its socket's attachment, the
key mail, and the receiver that must open what is sealed. A key is its epoch.
The native call that makes a key queues the key's mail and changes the key in
memory before its commit, so a failing commit leaves a key nobody was sent;
that, a restart, a lost socket, a toggle of the setting, late mail and a
renewal that writes an old announcement back are the faults, at most
`MaxFaults` of them. The receiver waits for mail before it asks (`CheckDue`), a
question is a frame that makes the sender rotate, and both sides are throttled
by ten seconds (`rotatable`, `askable`). The mail is ordered and lossless here,
which is what `RatchetMailbox` shows.

### HistoryRecorder

Inputs are numbered; a batch is the set of its points, and since its id is a
digest of its content, the batch is its own id. The React effect may run
several times (`Runs`): each run has its own chain of writes, which the code
never cancels, so the chain of a stopped run goes on beside that of the next.
A step of a chain is one awaited write: `SaveDraft`, `Send` (the ciphertext is
sealed into the native outbox), `Put` (the plaintext into the database),
`ClearDraft`; `SentBefore` is the early return of `outbox.ts` for an event the
database has. `JobFails` is the catch of `persist` at any of them. There is one
draft. `Crash` clears memory and the next `Start` recovers the draft; the
application is assumed to be started again within the retention time. `Stop` is
the cleanup of the effect when the user switches recording off.

### The parts of the pets' window

They share the window and the session queue, but no state a property speaks of,
so each has a module of its own, and `Desk` puts them beside one another: a
behaviour chooses a part at the start and is a behaviour of that part alone.
Each action is the code between two awaits, or one event handler. What crosses
a part's border is nondeterministic at it: what the credential store, the
window system, the updater and the decoder answer, when a message of the
partner comes (in order and once, which is what `RatchetMailbox` shows), what
the user does, and when a timer fires. Calls that may fail do so at most
`MaxFaults` times, or at any time where that does not enlarge the state
(`AccessGate`, `Scene`, `Updates`, `SpriteCache`).

## 3. Runs

| Run | Question | Result |
|---|---|---|
| `vault` | two processes, 4 commits, power loss, process death, a restored backup: is everything released durable, is an old state refused, is the store a register, can it always be opened (until a backup is restored) | holds, 35,290 states |
| `mailbox` | two devices, two events one way and one the other, an outbox of 2, an inbox of 1, pages of 2, two faults | holds, 525,934 states |
| `mailbox_progress` | does the pair come to exchange its keys, and is every event recorded that can be | holds, 168,900 states |
| `pairing` | two own invites, one foreign one, a pairing of an older version, two faults, two waiting operations, two ids remembered: is what was left gone, and does every cancellation complete | holds, 102,577 states |
| `pairing_legacy` | is a pairing without a ratchet always paused | violated, see findings |
| `live_room` | three devices, three sockets, both kinds of runtime: two devices, one socket each, silence before ready and after a revocation, one alarm early enough for all, and devices that know of each other | holds, 714,688 states |
| `live_departure` | does a device that is gone become offline for its peer | violated, see findings |
| `typing` | two faults of any kind: does the receiver come to hold the key in use, and does a request not set off the next | holds, 90,843 states |
| `history` | switching off and on, one crash, one refused write: is an input sent twice, is there always a copy while nothing is refused, is what was saved sent, is every input sent | holds, 68,805 states |
| `history_refused` | is there always a copy when a send is refused, while recording is never switched off | violated, see findings |
| `desk` | the thirteen parts of the pets' window, one at a time: the invariants of each, what no step of it may do (`StepsSafe`), what must come in the end (`Settles`) | holds, 370,667 states |
| `news_fresh_install` | does a first start show no news | violated, see findings |

What `desk` asks of each part:

| Part | Invariant | Step or liveness property | Instance |
|---|---|---|---|
| `AccessGate` | `GateSafe`: attempts that may open dialogs only in an action, one for each item at most | `UnlockVerified` | 2 settings actions |
| `Statistics` | `StatisticsSafe`: bars are sums of their local days, what was recorded is written or will be | `Grows`: the pup does not shrink during a day | days of 2 hours, weeks of 2 days, months of 4, two zones, 12 hours |
| `Pomodoro` | `PomodoroSafe`: each counts once, and one that ended counts unless the computer slept through its ring | | 2 timers of length 2, 7 instants |
| `Updates` | `UpdatesSafe`: handles are not lost, news not repeated | `ComesFree`: a check ends | 3 versions, 2 with news |
| `Scene` | | `ShowsIt`: the scene wanted shows in the end | 4 scenes |
| `SpriteCache` | `CacheSafe`: leased sheets stay, nothing leaks, the budget holds | | 2 sheets of which one fills the budget, 3 loads |
| `Cups` | `CupsAgree`: both apps show the same cups | | 3 cups, 2 faults |
| `Pointer` | `PolicyApplied`: the window takes clicks as the flags say | `NoShield`: a click passes in the end | 1 fault, 1 closure waiting |
| `PetDrag` | `HoldEnds`: a drag that ended does not hold the pointer (in `WindowSafe`) | `NoPin`: a drag does not pin the menu | 3 queued calls |
| `PetWindow` | `WindowSafe`: the desks stand where they were left, on screen and on disk, as far as the frame fits there | | a work area of 80, two heights, 2 drags to five places, of which three reach past an edge |
| `Presence` | `GoneIsIdle`: ended work is not shown for longer than 90 s and the wait in the session queue | `ComesThrough`: the last choice arrives | 2 changes, 1 fault, 1 event under way, calls that wait 30 s |
| `Playout` | | `PlaysLater`: windows play forwards | transits of 0, 100 and 700 ms, 5 windows |
| `Replay` | `ReplaySafe`: one run plays, and marks only a day it has shown | `PlaybackEnds` | 3 recordings of 2 days that interleave, arriving in any order, one after a rest; 2 starts |

**Bounds.** Two processes are enough for the lock, because a third would wait
for the same one; four commits let one snapshot be current, one pending, one be
taken back and one be left over. In the mailbox, an inbox of one and an outbox
of two are at their limit in most states, a page of two leaves messages behind,
and two faults allow a lost answer followed by a crash. In the lifecycle, two
own ids allow a second pairing while the first is being revoked, and two faults
allow a failed write followed by a restart. The counters are bounded in the
guards of the actions that raise them (`MaxCommits`, `MaxSequence`,
`MaxFaults`, `MaxWaiting`).

Three devices and three sockets let a third device find a full room and a
device replace its socket while the other is present. `ReadyLimit` and `Sweep`
are one tick and a ticket lives one or two, so the deadlines coincide or come in
either order; an alarm that is never late (`AlarmCovers`) closes every silent and
every expired socket, which is why no run checks that as liveness. `PairLearns`
is about the two devices of a relationship: the late close of a third one, which
the relay does not give a ticket, would be taken for the departure of the second.
In the recorder, three points make batches that may overlap; `MaxJobs` bounds the
chain of a run, and `Flush` waits while it is at that bound. `NoPointTwice` is
about a recorder that is not switched off: a run that starts while the old one
still writes reads a checkpoint of a batch that the old one is about to send, and
both are sent. The window is two database writes; it is listed as a hazard. In
`typing`, one frame in flight is enough, because a second is handled like the
first; two faults make the key of one recovery lost in the next. In `desk`, days
of two hours and months of four days let a change of the zone move an hour over
the border of each kind of bar; two sheets and a budget for one make every
acquisition an eviction; two starts make a run outlive another. The places of a
drag in `PetWindow` cut the frame at the top, the tray at the bottom and the desks
below it. In `Presence` an event may be under way for any time, older than a
heartbeat lives; the time in the session queue must have a bound, because a call
is dated when it runs and says what was true when it was queued.

**Deadlock** is checked in the vault, mailbox and room runs. The others switch
the check off because the system really stops there: relationships, inputs,
faults and changes are used up and nobody clicks. What must not wait for ever in
them is a liveness property.

**Fairness.** `RatchetMailbox!FairSpec` is weakly fair for a sync and for the
recording of a delivery: `App.tsx:819` runs a sync every 2.5 seconds and after
every event, and a loop of awaited calls continues until it ends. Requests fail
at most `MaxFaults` times, so this says that the network eventually works.
`PairingLifecycle!FairSpec` is weakly fair for the queue (a promise chain) and
strongly fair for the retry timer (App.tsx:456-475): the timer is only disabled
while an operation it would wait for is queued. `HistoryRecorder!FairSpec` is
weakly fair for the start of the effect, for its reading of the draft and for the
awaited writes, and strongly fair for `Flush`: its timer runs every 10 seconds,
while in the model a full chain can disable it. `LiveTyping!FairSpec`: a channel
reconnects (its timer is rescheduled by every failure), native calls return,
frames that were not dropped and mail arrive, timers fire, and a sender that has
typed goes on typing; typing, the check for a missing key and the end of a
throttle are strongly fair, because a lost connection or the next request
disables them for a while. The fairness of `Desk` is that requests of the
updater end, sheets load or fail, loops of a scene reach their boundary,
commands and closures are carried out in some order, the pointer is sampled, the
session queue and the heartbeat run, mail arrives, and the timers of a playback
fire. The user is never assumed to do anything.

## 4. Proofs

All theorems are checked by TLAPS for every value of the constants; the
assumptions used are the named ones of the modules (that the constants are what
they are named for; in the live room, that there are finitely many devices).

**The store** (`SessionVaultProofs`).

* `CommitOrder`: `Spec => []CommitInv`. It is what the lock alone gives, whatever
  becomes of the files: a command in progress holds the lock and no other is in
  progress; until it writes the anchor, what it loaded is the state the anchor
  names and what it stages is newer; from then on what it staged is the one the
  anchor names; and what was released is no newer than the anchor. Each part
  exists because a step of `commit` or `load` would otherwise lose the next.
* `Released` and `NeverForked` follow from it: an output is released only by
  the step that ends a commit, whose snapshot the anchor names by then, and a
  commit continues from a loaded state, which the anchor named under the lock.
* `StoreIsRegister`: the refinement, every step is a step of the register or a
  stutter.
* `FilesStand`: the anchor and the two files, where directories can be synced and
  until a backup is restored. `FileInv` is about every state of the two files that
  a power loss may leave: one of them holds the state the anchor names, `ratchet.bin`
  is never torn, and before the anchor is written the current file is the anchored
  one and the staged one is the pending file, synced by the time the anchor names it.
  `AlwaysRecoverable` is its consequence.

**The live room** (`LiveRoomProofs`). `Typed`, `TwoAtMost` and `AlarmInTime` are
inductive beside one another; `ReadyFirst` needs `Fresh`, that a socket that
never came is not ready. That the alarm is the least of the deadlines needs that
every set of naturals has a least member (`MinIsLeast`), from the library's
theorem that finite sets are well-founded. `PairIsTold` proves `PairLearns`, by
what each step that connects, replaces or closes a socket tells the others. It
needs that a socket has an owner exactly once it came (`Owned`): then, of two
devices that came, any socket is one of theirs (`OneOfTwo`), and the departure a
close reports is that of the peer.

**The lifecycle** (`PairingLifecycleProofs`). `LeftIsGone`
and its two companions hold only because of how the record on disk may differ
from the one in memory after a write that was reported as failed; `IInv` says how
(`RecordInv`), what each step of an operation may rely on (`StepFits`), that of
the operations a click starts one waits at most (`OneClick`), and that it finds a
record that was read (`Usable`). `Invariance` proves it, with one step per
action, beside `Ledger`: the ids the native store remembers are the last of those
that were left, all of them while there are fewer than `MaxRetired`. `Left`,
`NoOrphan` and `OnRecord` follow; `Left` says for how long an id is refused, since
past `MaxRetired` others it is not. `NotResurrected` adds
what a cancellation half written implies (`Stuck`: the app is blocked until it
reads the record again) and that `createPairing`, whose writes do not block,
replaces only pairings of this device.

**The recorder** (`HistoryRecorderProofs`). `SentOnce` needs that in a chain of
writes nothing that follows a batch to be sent shares a point with it, and no
checkpoint a point with what was sent (`Clean`), and, across a crash, that the
draft is the batch that was being sent (`Sending`). `CopyKept` adds that a batch
begun and not sealed is both the draft and the first thing the only run writes
(`Alone`, `Copied`). Both are about recording that is never switched off, the
condition the properties state.

**The mailbox** (`RatchetMailboxProofs`). The inductive invariant `IInv` has two
halves. Of a sender, `SenderInv`: its outbox is the end of what it sent, and the
mailbox at the relay holds what is before that, with at most one message more,
the one whose answer was lost; a copy still under way is of a message no later
than the oldest of the outbox. Of a receiver, `Got`: it has decrypted the
messages 1 to u and no other; the last of them are in its inbox, those before
are stored (while one is handled, or after an interruption there, the oldest of
the inbox is stored too), and neither the cursor nor the part of a batch already
gone through is past u. `Greeting` says who has sent what of the handshake, and
with it that the next message of the other is never one that `receive` rejects
(`FirstMessage`), so that no step over a message can lose it. `InOrder` and
`NothingLost` follow from the state, `NoneTwice` from a step, and `Implements`
maps each step to one of `EventChannel` or a stutter: `Send` hands an event over,
`StoreEvent` shows the next one or one shown before, the rest is not seen. The
assumptions are that the sizes are positive and the devices two.


**Live typing** (`LiveTypingProofs`). `FewKeys` proves `NoRekeyStorm`: the keys
made are at most one, and three for each fault. The invariant is a budget. Beside
the keys already made it counts the causes that will make one each (a call that
waits, a request of the receiver, a first connection, a seal of a stopped
channel) and up to two that the receiver may still ask for: one while something
can mislead it (`Doubt`: it waits for an epoch that is out of date, such an
announcement or a pulse it cannot open is under way, two keys are made in a
hurry, a key is taken away), one while it lacks the sender's key (`Apart`) and
none is being made. A fault adds three at most; a key that is made takes its
cause, a request takes the doubt that led to it, and no other step adds anything.
`Epochs` (epochs grow with the clock, along the mail, and toward the receiver) and
`Calls` (what a call that is out, or its answer, says of the channel) are what
the budget rests on.

**The pets' window** (`DeskProofs`, `DeskPeersProofs`). A step of one part leaves
the variables of the others (`PartSteps`), so each part is proved for its own
initial states and its own steps, from an inductive invariant of its own:

* `GateSafety`: an action has attempted an item only when it has prompted for it,
  and outside of an action nothing is attempted. `UnlockIsVerified`: the items read in silence since their
  last dialog are all of them when the gate unlocks.
* `UpdatesSafety`: whether there is a handle follows from the request under way
  (`Requests`); what was told is not past the version stored as seen, and news
  that are shown are (`SeenBounds`).
* `PomodoroSafety`: a timer that has left storage was counted, ended or slept
  through, one that is stored is none of these (`Ledger`), and the timer shown
  is the stored one, its end not yet read (`Rings`).
* `PointerSafety`: when nothing is on its way between the three callers and the
  window (`Quiet`), the window captures as the flags say; the tracker, having
  lost track, counts as something on its way.
* `DragIsNoClick`: the click of a drag comes while it is suppressed, and no press
  is under way when a click waits (`DragInv`, of which `HoldEnds` is a part).
* `WindowSafety`: where the frame, the tray and the stored place are relative to
  the desks, from the loading of the page to an open panel (`Panes`, `Places`).
  Where the frame on the desks fits the work area, fitting moves the frame and not
  the desks; where it does not, they come no further than `Kept` says: up until
  the tray they were left with is on the screen, down until the tallest frame is.
* `CacheSafety`: an entry belongs to the load that made it, and one that was
  decoded is of its sheet (`CacheTable`); what is leased is an entry, and the
  leases are counted where they are held (`CacheLeases`). The bytes of the cache
  are the library's fold over a set, and `trim` is one over the sheets in the order
  they were touched. `FoldDefined` says that such a fold has the value its recursion
  gives it, and `TrimLeaves` what the loop leaves: every leased entry, and of the
  others as many as fit.
* `PresenceSafety`: a call that says "at work" was true when it was queued, its
  wait ago; the event it becomes is dated by then, and so is what the partner
  shows, however long it travelled (`Waited`, `Travelled`).
* `CupsSafety`: for each direction, how the cup one app shows, the cup on the
  desk, the water on its way there and the word of a cup drunk on its way back
  hang together, but for the cups on which the apps differ for a known reason,
  `broken` (`Link`; `LinkSends` to `LinkTold` are one lemma for each way it
  changes).
* `OnePlayback` and `ReplaySafety`: runs have tokens of their own, the session
  is open exactly while one has the generation, and each recording of a run's day
  is watched, marked already, or left to play. Days may interleave and recordings
  arrive in any order. The theorem is about the run's own day as it was read: the
  one mark serves all days, so recordings of another day, or such as arrive later
  with an earlier time, may be covered by it unwatched.
* `PawsForwards`: the offset gives way by 20 ms at most with each pulse, and the
  next window begins 250 ms later (`PlayoutInv`). That the offset is a number at
  all needs that the samples have a least member and a median, and that their mean
  distance is a fold over prefixes (`DeviationIsInteger`).
* `StatisticsSafety`: what a sum over hours counts are pairs of an hour and a
  count, its `Units`. For every set of hours that are kept, not only for the days
  shown, they are as many as the records of those hours (`Counts`): in memory of all
  records, on disk of those that were written, which is what a crash leaves
  (`StatsInv`). A record adds one unit and one record (`UnitsRaised`, `BookNote`),
  a trim takes none of an hour that is kept, and writing changes only a record's
  mark, so they stay as many (`BookSafe`). What is shown is kept (`ShownIsKept`),
  and a bar begins and ends with local days because a quotient reaches a number
  exactly when the dividend reaches its product (`QuotientReaches`, `BarsAre`).
* `PupGrows`: the level is a function of today's sums and of the sums of the days
  before (`LevelIs`) that never falls when the former grow (`LevelGrows`); the
  median of any days is defined because their ranks are a bijection (`MedianIs`).
  What is counted now is in no earlier day, a pomodoro counts for none
  (`DaysRaised`, `TodayIsLast`), and when the hour passes midnight nothing in
  memory is of the new day (`NewDay`).
* `StepsSafety` gathers what no step may do: `UnlockIsVerified`, `PupGrows`,
  `DragIsNoClick` and `PawsForwards`.

The assumptions on the constants are those of `Desk`: a pomodoro takes time,
versions are numbered from 0, the highest frame and the panel fit the work area,
a pulse takes milliseconds and some sample is kept, buckets are kept for as many
days as the panel shows and for more than growth looks back (35 against 30 and 28
in the code), a usual day without history takes time, and the bounds are numbers.

Only model-checked, and why:

* liveness everywhere (`PairingCompletes`, `EventuallyShared`, `RevocationCompletes`,
  `KeysAgree`, `PointsSurvive`, `EverySent`, `Settles`): it rests on
  fairness, and ENABLED is beyond the prover.

Every invariant and every action property of a passing run is a theorem for all
values of the constants.

## 5. Findings

1. **A pairing whose ratchet failed to initialise is registered unratcheted**
   (`pairing_legacy`). The catch of `createPairing` unblocks the in-memory
   pairing (App.tsx:1048) unless a write failed; the next sync registers it with
   protocol version 1. SECURITY-HARDENING.md:64-65 says such connections are
   paused.
2. **A device that left may stay online** (`live_departure`). A ready socket
   that is replaced is not reported, because the new one is listed; if the new
   one ends before its ready frame it is not reported either, because it was not
   ready (index.ts:198). The peer keeps `online: true`; the test
   live-worker/test/run.mjs:219 says it is told.
3. **A refused batch loses its recovery copy** (`history_refused`). There is one
   draft. If sealing fails, as it does when the native outbox is full,
   `persist` drops the job and the next write of the draft, of the next batch (as
   in the run, where recording is never switched off) or a checkpoint, overwrites
   it, against the comment at useOperationHistory.ts:75.
4. **A first start may show the news of an update** (`news_fresh_install`). Whether
   the installation ran before is read from the stored preferences after the
   version was awaited; by then the first start has stored its own
   (App.tsx:310-316, :941; whatsNew.ts:88-98).

Other statements of the code or its documents that the models refute have a
definition, with a comment, but no run of their own:

* `SessionVault!FirstCommitCanBeRetried`: a first commit that stops between its
  pending file and its first anchor leaves a file without an anchor, which every
  later load refuses, that of `forget` too (store.rs:129-134).
* `LiveRoom!PeersLearn`: where the runtime lists a socket the room has closed,
  `peerOf` may choose it over the present one (index.ts:232).
* `Scene!GoneOnceUp` and `Scene!KeptOverRestart`: a hug that ends in a transition
  keeps what the scene it comes from left, and a restart forgets what should be
  kept (tucked.ts:4-5, away.ts:22, App.tsx:1403-1427).
* `Playout!KeptInBand`: the buffer leaves its band of 250 ms to 1 s when the
  fastest sample changes, and returns by steps (protocol.ts:59-60).

Differences met on the way that no model decides: the epoch of a live key is
compared with the one in memory only, so a clock that is set back over a restart
makes keys the peer ignores until it catches up (rooms.rs:179-184); the desks are
moved where the frame on them does not fit the work area (enlarged near the top,
or fitted by a menu or a closed panel after a drag past an edge), although the
comment at window_layout.rs:288-289 says never; one mark of what was seen serves
all days, so it may pass over recordings of an interleaving day, over a day with
less than a minute unseen, or over recordings that arrive late
(useOperationHistory.ts:200, :296); a partner's app that has forgotten the skin with
its history shows the usual one again, and the skin is not sent twice
(companionState.ts:39-40, App.tsx:644-653); an automatic installation offered
while a check runs is forgotten; a pomodoro that would ring while the computer sleeps
is not counted when it wakes; a failing `set_ignore_cursor_events` is not retried
until the next change; and a zone of half an hour shares the bucket of an hour
between two days.

## 6. What is abstracted or left out

* Cryptography: a message, key or snapshot is its identity, and only its
  addressee can read it. Invites and safety numbers always agree.
* The v1 event path in `history/outbox.ts`, unreachable for ratchet pairings,
  except for finding 1.
* The `stopped` flag of effect closures in `App.tsx`: a re-render while an
  operation waits only skips a state update of React.
* The sizes that close a batch of inputs, condensing points into frames, pruning
  and the schema upgrades of the database: the properties speak of which points
  are in which batch, not of how many.
* The token bucket of the room (any frame may be refused), reconnect delays, the
  codec of a frame and the replay window of a live key.
* In presence, a clock that is behind the sender's by more than a minute, and the
  five minutes between repeated statistics, which are one tick here; in a playback
  the end of the retention, pausing and the length of a wait; in the statistics
  summer time, which moves a zone as a journey does, and zones of half an hour; the
  reset of the playout when the room reconnects; the posting of a hold or of
  click-through, which cannot fail here.
* The choreography of a hug (a pure function of time), which application counts
  as which activity, audio, meals, several displays, and window calls that fail.

Not modelled at all, with the reason, are: invite codes and the format of
invites, legacy event encryption and the clamps of preferences (no state between
two calls; what they compute is cryptographic or textual), the tray, input hooks,
audio, autostart and language (operating-system calls with no state a second
call reads), rendering and panels (a function of the state the other modules
hold), and release, asset and preview scripts (sequential, run once).

## 7. Plan

Done, in this order: the store, the mailbox, the lifecycle, the room, the
recorder; then live typing, the credential gate, playback, and the parts of the
pets' window; the proofs of store, room, lifecycle, recorder and
mailbox;
then those of live typing and of the parts of the window.

What is left, by what it would add:

1. `RatchetMailbox` over `DurableRegister`, a machine whose commits are the
   register's, and `HistoryRecorder` feeding a mailbox of limited size: each rests
   on the abstract promise of the other in words only.
2. `LiveTyping` with a clock that may be set back over a restart, and with the
   receiver's own direction sharing the connection.
