-------------------------- MODULE HistoryRecorder --------------------------
(***************************************************************************)
(* Recording one's own operations for the partner's replay: the effect of  *)
(* src/history/useOperationHistory.ts that owns an OperationRecorder, its  *)
(* chain of writes, the one draft in the database, and the way a batch     *)
(* takes through src/history/outbox.ts into the native outbox.             *)
(*                                                                         *)
(* Points are numbered in the order of input and a batch is the set of its *)
(* points, which is also its id (a digest of its content).  Each run of    *)
(* the effect has a chain of its own, and a chain goes on after its run    *)
(* was stopped.  A step of a chain is one awaited write.  There is one     *)
(* relationship, and the application is never down for longer than the     *)
(* retention of the history.                                               *)
(***************************************************************************)
EXTENDS Naturals, Sequences, FiniteSets

CONSTANTS
    MaxPoints,    \* inputs there ever are
    MaxRuns,      \* runs of the effect there ever are
    MaxJobs,      \* longest chain of writes
    MaxCrashes,   \* times the application dies
    MaxRefusals   \* writes, sends and reads that fail

ASSUME RecorderAssumption ==
    {MaxPoints, MaxRuns, MaxJobs, MaxCrashes, MaxRefusals} \subseteq Nat

VARIABLES
    points,    \* inputs so far
    state,     \* of each run of the effect
    rec,       \* the points of the recorder
    chain,     \* the writes of each run that are not done
    stage,     \* how far the first of them is
    draft,     \* durable: the recovery copy, no points if there is none
    native,    \* durable: the batches sealed into the native outbox
    stored,    \* durable: the batches in the history of the database
    begun,     \* the batches a recovery copy was made of to send them (history)
    crashes, refusals

run == <<state, rec, chain, stage>>
durable == <<draft, native, stored>>
vars == <<points, run, durable, begun, crashes, refusals>>

Runs == 1 .. MaxRuns
Batches == SUBSET (1 .. MaxPoints)
Emit(b) == [kind |-> "emit", batch |-> b]
Checkpoint(b) == [kind |-> "checkpoint", batch |-> b]

Init ==
    /\ points = 0
    /\ state = [k \in Runs |-> "none"]
    /\ rec = {}
    /\ chain = [k \in Runs |-> <<>>]
    /\ stage = [k \in Runs |-> "draft"]
    /\ draft = {} /\ native = {} /\ stored = {}
    /\ begun = {}
    /\ crashes = 0 /\ refusals = 0

Active(k) == state[k] \in {"starting", "running", "failed"}
Refused == refusals < MaxRefusals /\ refusals' = refusals + 1

-----------------------------------------------------------------------------
\* The effect.

Start(k) ==
    /\ state[k] = "none"
    /\ \A i \in Runs : ~Active(i) /\ (i < k => state[i] # "none")
    /\ state' = [state EXCEPT ![k] = "starting"]
    /\ UNCHANGED <<points, rec, chain, stage, durable, begun, crashes, refusals>>

\* Mutant: the draft of an earlier run is not looked for.
LoadDraftIgnored(k) ==
    /\ state[k] = "starting"
    /\ state' = [state EXCEPT ![k] = "running"]
    /\ UNCHANGED <<points, rec, chain, stage, durable, begun, crashes, refusals>>

\* start: a draft that is found is sent first; the recorder begins with a point.
LoadDraft(k) ==
    /\ state[k] = "starting"
    /\ state' = [state EXCEPT ![k] = "running"]
    /\ chain' = [chain EXCEPT ![k] = IF draft = {} THEN @ ELSE Append(@, Emit(draft))]
    /\ \/ points < MaxPoints /\ points' = points + 1 /\ rec' = {points'}
       \/ points = MaxPoints /\ UNCHANGED <<points, rec>>
    /\ UNCHANGED <<stage, durable, begun, crashes, refusals>>
LoadDraftFails(k) ==
    /\ state[k] = "starting"
    /\ Refused
    /\ state' = [state EXCEPT ![k] = "failed"]
    /\ UNCHANGED <<points, rec, chain, stage, durable, begun, crashes>>

Input(k) ==
    /\ state[k] = "running" /\ points < MaxPoints
    /\ points' = points + 1
    /\ rec' = rec \cup {points'}
    /\ UNCHANGED <<state, chain, stage, durable, begun, crashes, refusals>>

\* Mutant: the recorder keeps the points it has emitted.
FlushKept(k) ==
    /\ state[k] = "running" /\ rec # {} /\ Len(chain[k]) < MaxJobs
    /\ chain' = [chain EXCEPT ![k] = Append(@, Emit(rec))]
    /\ UNCHANGED <<points, state, rec, stage, durable, begun, crashes, refusals>>

\* flush: by its timer, or because the batch is full.
Flush(k) ==
    /\ state[k] = "running" /\ rec # {} /\ Len(chain[k]) < MaxJobs
    /\ chain' = [chain EXCEPT ![k] = Append(@, Emit(rec))]
    /\ rec' = {}
    /\ UNCHANGED <<points, state, stage, durable, begun, crashes, refusals>>
\* checkpoint, once a second.
CheckpointTick(k) ==
    /\ state[k] = "running" /\ rec # {} /\ Len(chain[k]) < MaxJobs
    /\ chain' = [chain EXCEPT ![k] = Append(@, Checkpoint(rec))]
    /\ UNCHANGED <<points, state, rec, stage, durable, begun, crashes, refusals>>

\* Mutant: the cleanup does not flush.
StopUnflushed(k) ==
    /\ Active(k)
    /\ state' = [state EXCEPT ![k] = "stopped"]
    /\ rec' = {}
    /\ UNCHANGED <<points, chain, stage, durable, begun, crashes, refusals>>

\* The cleanup of the effect: the user switches recording off.
Stop(k) ==
    /\ Active(k)
    /\ state' = [state EXCEPT ![k] = "stopped"]
    /\ chain' = [chain EXCEPT ![k] = IF rec = {} THEN @ ELSE Append(@, Emit(rec))]
    /\ rec' = {}
    /\ UNCHANGED <<points, stage, durable, begun, crashes, refusals>>

-----------------------------------------------------------------------------
\* The chain of writes.

At(k, s) == chain[k] # <<>> /\ stage[k] = s
Batch(k) == Head(chain[k]).batch
Goto(k, s) == stage' = [stage EXCEPT ![k] = s] /\ UNCHANGED <<points, state, rec, chain, crashes>>
Done(k) ==
    /\ chain' = [chain EXCEPT ![k] = Tail(@)]
    /\ stage' = [stage EXCEPT ![k] = "draft"]
    /\ UNCHANGED <<points, state, rec, crashes>>

SaveCheckpoint(k) ==
    /\ At(k, "draft") /\ Head(chain[k]).kind = "checkpoint"
    /\ draft' = Batch(k)
    /\ Done(k)
    /\ UNCHANGED <<native, stored, begun, refusals>>
SaveDraft(k) ==
    /\ At(k, "draft") /\ Head(chain[k]).kind = "emit"
    /\ draft' = Batch(k)
    /\ begun' = begun \cup {Batch(k)}
    /\ Goto(k, "send")
    /\ UNCHANGED <<native, stored, refusals>>

\* Mutants: the plaintext is stored before the ciphertext is sealed, and a batch
\* is taken for sent without a look at the database.
SendStoresFirst(k) ==
    /\ At(k, "send") /\ Batch(k) \notin stored
    /\ stored' = stored \cup {Batch(k)}
    /\ Goto(k, "put")
    /\ UNCHANGED <<draft, native, begun, refusals>>
SentBeforeUnchecked(k) ==
    /\ At(k, "send")
    /\ Goto(k, "clear")
    /\ UNCHANGED <<durable, begun, refusals>>

\* queueEncryptedEvent: what is stored already is not sealed again.
Send(k) ==
    /\ At(k, "send") /\ Batch(k) \notin stored
    /\ native' = native \cup {Batch(k)}
    /\ Goto(k, "put")
    /\ UNCHANGED <<draft, stored, begun, refusals>>
SentBefore(k) ==
    /\ At(k, "send") /\ Batch(k) \in stored
    /\ Goto(k, "clear")
    /\ UNCHANGED <<durable, begun, refusals>>
Put(k) ==
    /\ At(k, "put")
    /\ stored' = stored \cup {Batch(k)}
    /\ Goto(k, "clear")
    /\ UNCHANGED <<draft, native, begun, refusals>>
ClearDraft(k) ==
    /\ At(k, "clear")
    /\ draft' = {}
    /\ Done(k)
    /\ UNCHANGED <<native, stored, begun, refusals>>

\* persist: a step that fails (a full database or outbox, a pairing that cannot
\* be used) ends its job; the next job is tried as usual.
JobFails(k) ==
    /\ chain[k] # <<>>
    /\ Refused
    /\ Done(k)
    /\ UNCHANGED <<durable, begun>>

Crash ==
    /\ crashes < MaxCrashes
    /\ crashes' = crashes + 1
    /\ state' = [k \in Runs |-> IF Active(k) THEN "dead" ELSE state[k]]
    /\ rec' = {}
    /\ chain' = [k \in Runs |-> <<>>]
    /\ stage' = [k \in Runs |-> "draft"]
    /\ UNCHANGED <<points, durable, begun, refusals>>

Writes(k) ==
    \/ SaveCheckpoint(k) \/ SaveDraft(k)
    \/ Send(k) \/ SentBefore(k) \/ Put(k) \/ ClearDraft(k)

Next ==
    \/ \E k \in Runs :
        \/ Start(k) \/ LoadDraft(k) \/ LoadDraftFails(k) \/ Stop(k)
        \/ Input(k) \/ Flush(k) \/ CheckpointTick(k)
        \/ Writes(k) \/ JobFails(k)
    \/ Crash

Spec == Init /\ [][Next]_vars

\* The application is started again, its timers fire, and its writes end.
FairSpec ==
    Spec /\ \A k \in Runs : WF_vars(Start(k)) /\ WF_vars(LoadDraft(k))
                              /\ SF_vars(Flush(k)) /\ WF_vars(Writes(k))

-----------------------------------------------------------------------------
TypeOK ==
    /\ points \in 0 .. MaxPoints
    /\ state \in [Runs -> {"none", "starting", "running", "failed", "stopped", "dead"}]
    /\ rec \in Batches /\ draft \in Batches
    /\ \A k \in Runs : Len(chain[k]) <= MaxJobs + 1
    /\ stage \in [Runs -> {"draft", "send", "put", "clear"}]
    /\ native \subseteq Batches /\ stored \subseteq native

Sent(p) == \E b \in native : p \in b
NeverStopped == \A k \in Runs : state[k] # "stopped"

(* "Keep a recovery copy until ciphertext has been committed locally"       *)
(* (useOperationHistory.ts:75), while recording is not switched off.        *)
KeepsRecoveryCopy == NeverStopped => \A b \in begun : b \in native \/ draft = b

(* The same while nothing is refused, whatever the application dies in.     *)
SteadyKeepsRecoveryCopy == refusals = 0 => KeepsRecoveryCopy

(* While recording is not switched off, no input is sent in two batches     *)
(* that differ, which the partner would play twice: neither a checkpoint of *)
(* a batch that was sent, nor a batch recovered while the recorder goes on. *)
NoPointTwice == NeverStopped => \A a, b \in native : a # b => a \cap b = {}

(* An input that reached the recovery copy is sent, through any crash.      *)
PointsSurvive ==
    \A p \in 1 .. MaxPoints :
        p \in draft ~> Sent(p) \/ refusals > 0 \/ ~NeverStopped

(* Where nothing fails, every input is sent, however often recording is     *)
(* switched off and on while writes are waiting.                            *)
EverySent ==
    \A p \in 1 .. MaxPoints : p <= points ~> Sent(p) \/ refusals > 0 \/ crashes > 0
=============================================================================
