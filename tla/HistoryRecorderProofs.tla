------------------------ MODULE HistoryRecorderProofs ------------------------
(***************************************************************************)
(* What TLAPS proves of HistoryRecorder, for any number of inputs, runs,   *)
(* crashes and refused writes: while recording is not switched off no      *)
(* input is sent in two different batches, and while nothing is refused    *)
(* either there is always a copy of a batch until it is sealed.            *)
(*                                                                         *)
(* The invariant orders a chain of writes (Clean): what follows a batch    *)
(* that is to be sent shares no point with it, a checkpoint shares none    *)
(* with what was sent.  Only one run writes (Alone), so the draft is the   *)
(* batch being sent (Sending), and a batch that was begun and not sealed   *)
(* is the draft and the first thing the run writes (Copied).               *)
(***************************************************************************)
EXTENDS HistoryRecorder, TLAPS

Jobs == [kind : {"emit", "checkpoint"}, batch : SUBSET Nat]

(* A chain of writes c, with the points r recorded since, the batches n     *)
(* sealed so far, and p points in all.                                      *)
Clean(c, r, n, p) ==
  /\ \A i \in 1 .. Len(c) : c[i].batch \subseteq 1 .. p /\ c[i].batch # {}
  /\ \A i \in 1 .. Len(c) : c[i].kind = "emit" => c[i].batch \cap r = {}
  /\ \A i, j \in 1 .. Len(c) : i < j /\ c[i].kind = "emit" => c[i].batch \cap c[j].batch = {}
  /\ \A i \in 1 .. Len(c) : \A b \in n :
       (c[i].kind = "emit" /\ c[i].batch = b) \/ c[i].batch \cap b = {}

Parts ==
  /\ points \in Nat
  /\ rec \subseteq 1 .. points /\ draft \subseteq 1 .. points
  /\ \A b \in native : b \subseteq 1 .. points
  /\ chain \in [Runs -> Seq(Jobs)]
  /\ stage \in [Runs -> {"draft", "send", "put", "clear"}]
  /\ state \in [Runs -> {"none", "starting", "running", "failed", "stopped", "dead"}]
  /\ stored \subseteq native

Alone ==
  /\ \A i, j \in Runs : Active(i) /\ Active(j) => i = j
  /\ \A k \in Runs : chain[k] # <<>> => state[k] = "running"
  /\ rec # {} => \E k \in Runs : state[k] = "running"

Ordered ==
  /\ \A k \in Runs : Clean(chain[k], rec, native, points)
  /\ \A b \in native : rec \cap b = {} /\ (draft = b \/ draft \cap b = {})
  /\ \A a, b \in native : a # b => a \cap b = {}

Sending ==
  \A k \in Runs : stage[k] # "draft" =>
    /\ chain[k] # <<>> /\ Head(chain[k]).kind = "emit" /\ draft = Head(chain[k]).batch
    /\ stage[k] \in {"put", "clear"} => Head(chain[k]).batch \in native

Copied ==
  refusals = 0 =>
    \A b \in begun \ native :
      /\ b # {} /\ draft = b
      /\ \A k \in Runs : state[k] = "running" => chain[k] # <<>> /\ Head(chain[k]) = Emit(b)

Steady == Parts /\ Alone /\ Ordered /\ Sending /\ Copied

RunStates == {"none", "starting", "running", "failed", "stopped", "dead"}
IInv == refusals \in Nat /\ state \in [Runs -> RunStates] /\ (NeverStopped => Steady)

-----------------------------------------------------------------------------
(* What is written is a batch, under its kind.                              *)
LEMMA JobParts ==
  ASSUME NEW r \in SUBSET Nat
  PROVE  /\ Emit(r) \in Jobs /\ Emit(r).batch = r /\ Emit(r).kind = "emit"
         /\ Checkpoint(r) \in Jobs /\ Checkpoint(r).batch = r /\ Checkpoint(r).kind = "checkpoint"
BY DEF Emit, Checkpoint, Jobs

(* Chains.                                                                  *)
LEMMA AppendParts ==
  ASSUME NEW c \in Seq(Jobs), NEW job \in Jobs
  PROVE  /\ Append(c, job) \in Seq(Jobs) /\ Append(c, job) # <<>>
         /\ Len(Append(c, job)) = Len(c) + 1 /\ Len(c) \in Nat
         /\ \A i \in 1 .. Len(c) : Append(c, job)[i] = c[i]
         /\ Append(c, job)[Len(c) + 1] = job
         /\ c # <<>> => Head(Append(c, job)) = Head(c)
<1>1. /\ Append(c, job) \in Seq(Jobs) /\ Append(c, job) # <<>>
      /\ Len(Append(c, job)) = Len(c) + 1 /\ Len(c) \in Nat
      /\ \A i \in 1 .. Len(c) : Append(c, job)[i] = c[i]
      /\ Append(c, job)[Len(c) + 1] = job
  OBVIOUS
<1>2. c # <<>> => 1 \in 1 .. Len(c) /\ Head(c) = c[1]
  OBVIOUS
<1>3. Head(Append(c, job)) = Append(c, job)[1]
  BY <1>1
<1>4. QED BY <1>1, <1>2, <1>3

(* A chain without its first write.                                        *)
LEMMA TailParts ==
  ASSUME NEW c \in Seq(Jobs), c # <<>>
  PROVE  /\ Tail(c) \in Seq(Jobs) /\ Len(c) \in Nat \ {0} /\ Head(c) = c[1] /\ 1 \in 1 .. Len(c)
         /\ Len(Tail(c)) = Len(c) - 1
         /\ \A i \in 1 .. Len(Tail(c)) : Tail(c)[i] = c[i + 1] /\ i + 1 \in 1 .. Len(c)
OBVIOUS

(* A chain stays clean when a batch of the recorder joins it.               *)
LEMMA CleanAppend ==
  ASSUME NEW c \in Seq(Jobs), NEW r, NEW n, NEW p, Clean(c, r, n, p), r \subseteq 1 .. p,
         p \in Nat, r # {}, \A b \in n : r \cap b = {}, NEW job \in {Emit(r), Checkpoint(r)},
         NEW s, s \subseteq r, job = Emit(r) => s = {}
  PROVE  Append(c, job) \in Seq(Jobs) /\ Clean(Append(c, job), s, n, p)
<1>1. job.batch = r /\ job \in Jobs
  <2>1. r \in SUBSET Nat
    OBVIOUS
  <2>2. QED BY <2>1, JobParts
<1>2. job.kind = "emit" => s = {}
  <2>1. r \in SUBSET Nat
    OBVIOUS
  <2>2. QED BY <2>1, JobParts
<1> DEFINE d == Append(c, job)
<1>3. /\ d \in Seq(Jobs) /\ Len(d) = Len(c) + 1 /\ Len(c) \in Nat
      /\ \A i \in 1 .. Len(c) : d[i] = c[i]
      /\ d[Len(c) + 1] = job
  BY <1>1, AppendParts
<1> HIDE DEF d
<1>4. \A i \in 1 .. Len(d) : (i \in 1 .. Len(c) /\ d[i] = c[i]) \/ (i = Len(c) + 1 /\ d[i] = job)
  BY <1>3
<1>5. \A i \in 1 .. Len(d) : d[i].batch \subseteq 1 .. p /\ d[i].batch # {}
  BY <1>1, <1>4 DEF Clean
<1>6. \A i \in 1 .. Len(d) : d[i].kind = "emit" => d[i].batch \cap s = {}
  BY <1>2, <1>4 DEF Clean
<1>7. ASSUME NEW i \in 1 .. Len(d), NEW j \in 1 .. Len(d), i < j, d[i].kind = "emit"
      PROVE  d[i].batch \cap d[j].batch = {}
  <2>1. i \in 1 .. Len(c) /\ d[i] = c[i]
    BY <1>3, <1>4, <1>7
  <2>2. CASE j \in 1 .. Len(c) /\ d[j] = c[j]
    BY <1>7, <2>1, <2>2 DEF Clean
  <2>3. CASE d[j] = job
    BY <1>1, <1>7, <2>1, <2>3 DEF Clean
  <2>4. QED BY <1>4, <2>2, <2>3
<1>8. \A i \in 1 .. Len(d) : \A b \in n :
        (d[i].kind = "emit" /\ d[i].batch = b) \/ d[i].batch \cap b = {}
  BY <1>1, <1>4 DEF Clean
<1>9. Clean(d, s, n, p)
  BY <1>5, <1>6, <1>7, <1>8 DEF Clean
<1>10. QED BY <1>3, <1>9 DEF d

(* It stays clean when its first write is done.                             *)
LEMMA CleanTail ==
  ASSUME NEW c \in Seq(Jobs), c # <<>>, NEW r, NEW n, NEW p, Clean(c, r, n, p)
  PROVE  Tail(c) \in Seq(Jobs) /\ Clean(Tail(c), r, n, p)
<1> DEFINE d == Tail(c)
<1>1. /\ d \in Seq(Jobs) /\ Len(c) \in Nat \ {0} /\ Len(d) = Len(c) - 1
      /\ \A i \in 1 .. Len(d) : d[i] = c[i + 1] /\ i + 1 \in 1 .. Len(c)
  BY TailParts
<1> HIDE DEF d
<1>3. \A i, j \in 1 .. Len(d) : i < j /\ d[i].kind = "emit" => d[i].batch \cap d[j].batch = {}
  <2> SUFFICES ASSUME NEW i \in 1 .. Len(d), NEW j \in 1 .. Len(d), i < j, d[i].kind = "emit"
               PROVE  d[i].batch \cap d[j].batch = {}
    OBVIOUS
  <2>1. d[i] = c[i + 1] /\ d[j] = c[j + 1] /\ i + 1 < j + 1
    BY <1>1
  <2>2. i + 1 \in 1 .. Len(c) /\ j + 1 \in 1 .. Len(c)
    BY <1>1
  <2>3. \A k, l \in 1 .. Len(c) : k < l /\ c[k].kind = "emit" => c[k].batch \cap c[l].batch = {}
    BY DEF Clean
  <2>4. c[i + 1].kind = "emit" => c[i + 1].batch \cap c[j + 1].batch = {}
    BY <2>1, <2>2, <2>3
  <2>5. QED BY <2>1, <2>4
<1>4. /\ \A i \in 1 .. Len(d) : d[i].batch \subseteq 1 .. p /\ d[i].batch # {}
      /\ \A i \in 1 .. Len(d) : d[i].kind = "emit" => d[i].batch \cap r = {}
  BY <1>1 DEF Clean
<1>5. ASSUME NEW i \in 1 .. Len(d), NEW b \in n
      PROVE  (d[i].kind = "emit" /\ d[i].batch = b) \/ d[i].batch \cap b = {}
  <2>1. d[i] = c[i + 1] /\ i + 1 \in 1 .. Len(c)
    BY <1>1
  <2>2. \A k \in 1 .. Len(c) : (c[k].kind = "emit" /\ c[k].batch = b) \/ c[k].batch \cap b = {}
    BY DEF Clean
  <2>3. QED BY <2>1, <2>2
<1>6. Clean(d, r, n, p)
  BY <1>3, <1>4, <1>5 DEF Clean
<1>7. QED BY <1>1, <1>6 DEF d

(* An empty chain is clean.                                                *)
LEMMA CleanEmpty == \A r, n, p : Clean(<<>>, r, n, p)
BY DEF Clean

(* It stays clean when there are more points, and one of them is recorded.  *)
LEMMA CleanInput ==
  ASSUME NEW p \in Nat, NEW c \in Seq(Jobs), NEW r, NEW n, Clean(c, r, n, p)
  PROVE  Clean(c, r \cup {p + 1}, n, p + 1)
<1>1. 1 .. p \subseteq 1 .. (p + 1) /\ p + 1 \notin 1 .. p
  OBVIOUS
<1>2. QED BY <1>1 DEF Clean

-----------------------------------------------------------------------------
(* Only one run is active, and only its chain holds writes.                 *)
LEMMA OneRun ==
  ASSUME Parts, Alone, NEW k \in Runs, Active(k)
  PROVE  /\ \A j \in Runs \ {k} : chain[j] = <<>> /\ state[j] # "running"
         /\ rec # {} \/ chain[k] # <<>> => state[k] = "running"
BY DEF Alone, Active

(* The first write of the run that writes.                                  *)
LEMMA FirstWrite ==
  ASSUME Steady, NEW k \in Runs, chain[k] # <<>>
  PROVE  /\ Active(k) /\ chain[k] \in Seq(Jobs) /\ Head(chain[k]) \in Jobs
         /\ Batch(k) \subseteq 1 .. points /\ Batch(k) # {}
         /\ \A b \in native :
              (Head(chain[k]).kind = "emit" /\ Batch(k) = b) \/ Batch(k) \cap b = {}
         /\ Head(chain[k]).kind = "emit" =>
              /\ Head(chain[k]) = Emit(Batch(k)) /\ Batch(k) \cap rec = {}
              /\ \A i \in 1 .. Len(chain[k]) : i > 1 => Batch(k) \cap chain[k][i].batch = {}
<1>1. chain[k] \in Seq(Jobs) /\ Clean(chain[k], rec, native, points)
  BY DEF Steady, Parts, Ordered
<1>2. Head(chain[k]) = chain[k][1] /\ 1 \in 1 .. Len(chain[k])
  BY <1>1, TailParts
<1>3. chain[k][1] \in Jobs
  BY <1>1, <1>2
<1>4. chain[k][1].kind = "emit" => chain[k][1] = Emit(chain[k][1].batch)
  BY <1>3 DEF Jobs, Emit
<1>5. Active(k)
  BY DEF Steady, Alone, Active
<1>6. \A i \in 1 .. Len(chain[k]) : i > 1 /\ chain[k][1].kind = "emit" =>
        chain[k][1].batch \cap chain[k][i].batch = {}
  BY <1>1, <1>2 DEF Clean
<1>7. QED BY <1>1, <1>2, <1>3, <1>4, <1>5, <1>6 DEF Clean, Batch

-----------------------------------------------------------------------------
(* The effect starts; no write of an earlier run is waiting.               *)
LEMMA StartSteady == ASSUME Steady, NEW k \in Runs, Start(k) PROVE Steady'
<1>1. /\ \A i \in Runs : ~Active(i)
      /\ state' = [state EXCEPT ![k] = "starting"]
      /\ UNCHANGED <<points, rec, chain, stage, draft, native, stored, begun, refusals>>
  BY DEF Start, durable
<1>2. Parts'
  BY <1>1 DEF Steady, Parts
<1>3. \A i \in Runs : state'[i] = IF i = k THEN "starting" ELSE state[i]
  BY <1>1 DEF Steady, Parts
<1>4. \A i \in Runs : chain[i] = <<>> /\ state'[i] # "running" /\ rec = {}
  BY <1>1, <1>3 DEF Steady, Alone, Active
<1>5. Alone'
  BY <1>1, <1>3, <1>4 DEF Alone, Active
<1>6. Ordered' /\ Sending'
  BY <1>1 DEF Steady, Ordered, Sending
<1>7. Copied'
  BY <1>1, <1>4 DEF Steady, Copied
<1>8. QED BY <1>2, <1>5, <1>6, <1>7 DEF Steady

(* The draft cannot be read.                                               *)
LEMMA LoadFailsSteady == ASSUME Steady, refusals \in Nat, NEW k \in Runs, LoadDraftFails(k) PROVE Steady'
<1>1. /\ state[k] = "starting" /\ refusals' # 0
      /\ state' = [state EXCEPT ![k] = "failed"]
      /\ UNCHANGED <<points, rec, chain, stage, draft, native, stored>>
  BY DEF LoadDraftFails, Refused, durable
<1>2. Parts'
  BY <1>1 DEF Steady, Parts
<1>3. \A i \in Runs : state'[i] = IF i = k THEN "failed" ELSE state[i]
  BY <1>1 DEF Steady, Parts
<1>4. \A i \in Runs : chain[i] = <<>> /\ rec = {}
  BY <1>1, OneRun DEF Steady, Active, Alone
<1>5. Alone'
  BY <1>1, <1>3, <1>4 DEF Steady, Alone, Active
<1>6. Ordered' /\ Sending' /\ Copied'
  BY <1>1 DEF Steady, Ordered, Sending, Copied
<1>7. QED BY <1>2, <1>5, <1>6 DEF Steady

(* A draft that is found becomes the first batch to send.                  *)
LEMMA LoadSteady == ASSUME Steady, NEW k \in Runs, LoadDraft(k) PROVE Steady'
<1>1. /\ state[k] = "starting"
      /\ state' = [state EXCEPT ![k] = "running"]
      /\ chain' = [chain EXCEPT ![k] = IF draft = {} THEN @ ELSE Append(@, Emit(draft))]
      /\ UNCHANGED <<stage, draft, native, stored, begun, refusals>>
  BY DEF LoadDraft, durable
<1>2. \A i \in Runs : chain[i] = <<>> /\ rec = {} /\ (i # k => state[i] # "running" /\ ~Active(i))
  BY <1>1, OneRun DEF Steady, Active, Alone
<1>3. points' \in Nat /\ points <= points' /\ rec' \subseteq 1 .. points' /\ rec' \cap (1 .. points) = {}
  <2>1. \/ points' = points + 1 /\ rec' = {points + 1}
        \/ points' = points /\ rec' = {}
    BY <1>2 DEF LoadDraft
  <2>2. points \in Nat /\ points + 1 \notin 1 .. points /\ points + 1 \in 1 .. (points + 1)
    BY DEF Steady, Parts
  <2>3. QED BY <2>1, <2>2
<1>4. 1 .. points \subseteq 1 .. points'
  BY <1>3 DEF Steady, Parts
<1>5. \A i \in Runs : state'[i] = IF i = k THEN "running" ELSE state[i]
  BY <1>1 DEF Steady, Parts
<1>6. Emit(draft) \in Jobs
  BY DEF Steady, Parts, Jobs, Emit
<1>7. Append(<<>>, Emit(draft)) = <<Emit(draft)>> /\ <<Emit(draft)>> \in Seq(Jobs) /\ <<>> \in Seq(Jobs)
  BY <1>6
<1>8. \A i \in Runs : chain'[i] = IF i = k /\ draft # {} THEN <<Emit(draft)>> ELSE <<>>
  BY <1>1, <1>2, <1>7 DEF Steady, Parts
<1>9. Parts'
  <2>1. chain' \in [Runs -> Seq(Jobs)]
    BY <1>1, <1>2, <1>7 DEF Steady, Parts
  <2>2. QED BY <1>1, <1>3, <1>4, <2>1 DEF Steady, Parts
<1>10. Alone'
  BY <1>2, <1>5, <1>8 DEF Alone, Active
<1>11. draft # {} => Clean(<<Emit(draft)>>, rec', native, points')
  <2> SUFFICES ASSUME draft # {} PROVE Clean(<<Emit(draft)>>, rec', native, points')
    OBVIOUS
  <2> DEFINE c == <<Emit(draft)>>
  <2>1. Len(c) = 1 /\ c[1].kind = "emit" /\ c[1].batch = draft
    BY DEF Emit
  <2>2. draft \subseteq 1 .. points' /\ draft \cap rec' = {} /\ \A b \in native : draft = b \/ draft \cap b = {}
    BY <1>3, <1>4 DEF Steady, Parts, Ordered
  <2>3. \A i \in 1 .. Len(c) : i = 1
    BY <2>1
  <2> HIDE DEF c
  <2>4. \A i, j \in 1 .. Len(c) : ~(i < j)
    BY <2>3
  <2>5. Clean(c, rec', native, points')
    BY <2>1, <2>2, <2>3, <2>4 DEF Clean
  <2>6. QED BY <2>5 DEF c
<1>12. Ordered'
  <2>1. \A i \in Runs : Clean(chain'[i], rec', native, points')
    BY <1>8, <1>11, CleanEmpty
  <2>2. \A b \in native : rec' \cap b = {}
    BY <1>3 DEF Steady, Parts
  <2>3. QED BY <1>1, <2>1, <2>2 DEF Steady, Ordered
<1>13. Sending'
  BY <1>1, <1>2 DEF Steady, Sending
<1>14. Copied'
  <2>1. Head(<<Emit(draft)>>) = Emit(draft)
    BY <1>7
  <2>2. ASSUME refusals = 0, NEW b \in begun \ native
        PROVE  b # {} /\ draft = b
    BY <2>2 DEF Steady, Copied
  <2>3. ASSUME refusals = 0, NEW b \in begun \ native, NEW i \in Runs, state'[i] = "running"
        PROVE  chain'[i] # <<>> /\ Head(chain'[i]) = Emit(b)
    <3>1. i = k /\ draft = b /\ draft # {}
      BY <1>2, <1>5, <2>2, <2>3
    <3>2. chain'[i] = <<Emit(draft)>>
      BY <1>8, <3>1
    <3>3. QED BY <1>7, <2>1, <3>1, <3>2
  <2>4. QED BY <1>1, <2>2, <2>3 DEF Copied
<1>15. QED BY <1>9, <1>10, <1>12, <1>13, <1>14 DEF Steady

(* A new point is in no batch.                                             *)
LEMMA InputSteady == ASSUME Steady, NEW k \in Runs, Input(k) PROVE Steady'
<1>1. /\ points' = points + 1 /\ rec' = rec \cup {points + 1} /\ state[k] = "running"
      /\ UNCHANGED <<state, chain, stage, draft, native, stored, begun, refusals>>
  BY DEF Input, durable
<1>2. 1 .. points \subseteq 1 .. points' /\ points + 1 \in 1 .. points' /\ points + 1 \notin 1 .. points /\ points' \in Nat
  BY <1>1 DEF Steady, Parts
<1>3. Parts'
  BY <1>1, <1>2 DEF Steady, Parts
<1>4. Ordered'
  <2>1. \A i \in Runs : Clean(chain[i], rec', native, points')
    BY <1>1, CleanInput DEF Steady, Parts, Ordered
  <2>2. \A b \in native : rec' \cap b = {}
    BY <1>1, <1>2 DEF Steady, Parts, Ordered
  <2>3. QED BY <1>1, <2>1, <2>2 DEF Steady, Ordered
<1>5. Alone' /\ Sending' /\ Copied'
  BY <1>1 DEF Steady, Alone, Active, Sending, Copied
<1>6. QED BY <1>3, <1>4, <1>5 DEF Steady

(* The timers put a batch, or a checkpoint, at the end of the chain.        *)
LEMMA TimerSteady == ASSUME Steady, NEW k \in Runs, Flush(k) \/ CheckpointTick(k) PROVE Steady'
<1>1. PICK job \in {Emit(rec), Checkpoint(rec)} :
        /\ chain' = [chain EXCEPT ![k] = Append(@, job)]
        /\ rec' \subseteq rec /\ (job = Emit(rec) => rec' = {})
  BY DEF Flush, CheckpointTick, Emit, Checkpoint
<1>2. /\ state[k] = "running" /\ rec # {}
      /\ UNCHANGED <<points, state, stage, draft, native, stored, begun, refusals>>
  BY DEF Flush, CheckpointTick, durable
<1>3. /\ Append(chain[k], job) \in Seq(Jobs)
      /\ Clean(Append(chain[k], job), rec', native, points)
  BY <1>1, <1>2, CleanAppend DEF Steady, Parts, Ordered
<1>4. \A i \in Runs : chain'[i] = IF i = k THEN Append(chain[k], job) ELSE chain[i]
  BY <1>1 DEF Steady, Parts
<1>5. \A i \in Runs : i # k => chain[i] = <<>> /\ state[i] # "running"
  BY <1>2, OneRun DEF Steady, Active
<1>6. Parts'
  <2>1. chain' \in [Runs -> Seq(Jobs)]
    BY <1>1, <1>3 DEF Steady, Parts
  <2>2. QED BY <1>1, <1>2, <2>1 DEF Steady, Parts
<1>7. Alone'
  BY <1>1, <1>2, <1>4, <1>5 DEF Steady, Alone, Active
<1>8. Ordered'
  <2>1. \A i \in Runs : Clean(chain'[i], rec', native, points)
    BY <1>3, <1>4, <1>5, CleanEmpty
  <2>2. QED BY <1>1, <1>2, <2>1 DEF Steady, Ordered
<1>9. chain[k] # <<>> => chain'[k] # <<>> /\ Head(chain'[k]) = Head(chain[k])
  <2>1. job \in Jobs
    <3>1. rec \in SUBSET Nat
      BY DEF Steady, Parts
    <3>2. QED BY <3>1, JobParts
  <2>2. chain[k] \in Seq(Jobs)
    BY DEF Steady, Parts
  <2>3. chain'[k] = Append(chain[k], job)
    BY <1>4
  <2>4. QED BY <2>1, <2>2, <2>3, AppendParts
<1>10. Sending'
  BY <1>2, <1>4, <1>9 DEF Steady, Sending
<1>11. Copied'
  BY <1>2, <1>4, <1>5, <1>9 DEF Steady, Copied
<1>12. QED BY <1>6, <1>7, <1>8, <1>10, <1>11 DEF Steady

-----------------------------------------------------------------------------
(* The chain of writes.                                                     *)

(* A write that leaves the chain: Alone and the order stay.                 *)
LEMMA DoneKeeps ==
  ASSUME Steady, NEW k \in Runs, chain[k] # <<>>, Done(k), UNCHANGED <<native, stored>>,
         draft' \in {{}, draft, Batch(k)},
         \A b \in native : draft' = b \/ draft' \cap b = {}
  PROVE  Parts' /\ Alone' /\ Ordered' /\ Sending'
<1>1. /\ chain' = [chain EXCEPT ![k] = Tail(chain[k])] /\ stage' = [stage EXCEPT ![k] = "draft"]
      /\ UNCHANGED <<points, state, rec, native, stored>>
  BY DEF Done
<1>2. chain[k] \in Seq(Jobs) /\ Active(k) /\ Batch(k) \subseteq 1 .. points
  BY FirstWrite
<1>3. Tail(chain[k]) \in Seq(Jobs) /\ Clean(Tail(chain[k]), rec, native, points)
  BY <1>2, CleanTail DEF Steady, Ordered
<1>4. \A i \in Runs : chain'[i] = IF i = k THEN Tail(chain[k]) ELSE chain[i]
  BY <1>1 DEF Steady, Parts
<1>5. Parts'
  <2>1. chain' \in [Runs -> Seq(Jobs)]
    BY <1>1, <1>3 DEF Steady, Parts
  <2>2. stage' \in [Runs -> {"draft", "send", "put", "clear"}]
    BY <1>1 DEF Steady, Parts
  <2>3. draft' \subseteq 1 .. points'
    BY <1>1, <1>2 DEF Steady, Parts
  <2>4. QED BY <1>1, <2>1, <2>2, <2>3 DEF Steady, Parts
<1>6. Alone'
  BY <1>1, <1>4 DEF Steady, Alone, Active
<1>7. Ordered'
  <2>1. \A i \in Runs : Clean(chain'[i], rec, native, points)
    BY <1>3, <1>4 DEF Steady, Ordered
  <2>2. QED BY <1>1, <2>1 DEF Steady, Ordered
<1>8. Sending'
  <2>1. \A i \in Runs : stage'[i] = IF i = k THEN "draft" ELSE stage[i]
    BY <1>1 DEF Steady, Parts
  <2>2. \A i \in Runs \ {k} : stage[i] = "draft"
    BY <1>2, OneRun DEF Steady, Sending
  <2>3. QED BY <2>1, <2>2 DEF Sending
<1>9. QED BY <1>5, <1>6, <1>7, <1>8

(* A checkpoint replaces a draft that was sent, or never begun.            *)
LEMMA SaveCheckpointSteady == ASSUME Steady, NEW k \in Runs, SaveCheckpoint(k) PROVE Steady'
<1>1. /\ chain[k] # <<>> /\ Head(chain[k]).kind = "checkpoint" /\ draft' = Batch(k)
      /\ Done(k) /\ UNCHANGED <<native, stored, begun, refusals>>
  BY DEF SaveCheckpoint, At
<1>2. \A b \in native : Batch(k) \cap b = {}
  BY <1>1, FirstWrite
<1>3. Parts' /\ Alone' /\ Ordered' /\ Sending'
  BY <1>1, <1>2, DoneKeeps
<1>4. refusals = 0 => begun \ native = {}
  <2>1. Active(k) /\ state[k] = "running"
    BY <1>1 DEF Steady, Alone, Active
  <2>2. \A b : Emit(b).kind = "emit"
    BY DEF Emit
  <2>3. QED BY <1>1, <2>1, <2>2 DEF Steady, Copied
<1>5. Copied'
  BY <1>1, <1>4 DEF Copied
<1>6. QED BY <1>3, <1>5 DEF Steady

(* The draft goes once its batch is sealed.                                *)
LEMMA ClearSteady == ASSUME Steady, NEW k \in Runs, ClearDraft(k) PROVE Steady'
<1>1. /\ chain[k] # <<>> /\ stage[k] = "clear" /\ draft' = {}
      /\ Done(k) /\ UNCHANGED <<native, stored, begun, refusals>>
  BY DEF ClearDraft, At
<1>2. Parts' /\ Alone' /\ Ordered' /\ Sending'
  BY <1>1, DoneKeeps
<1>3. refusals = 0 => begun \ native = {}
  <2>1. state[k] = "running" /\ Head(chain[k]).batch \in native
    BY <1>1 DEF Steady, Alone, Sending
  <2>2. \A b : Emit(b).batch = b
    BY DEF Emit
  <2>3. QED BY <1>1, <2>1, <2>2 DEF Steady, Copied
<1>4. Copied'
  BY <1>1, <1>3 DEF Copied
<1>5. QED BY <1>2, <1>4 DEF Steady

(* A job that fails leaves the draft as it is.                             *)
LEMMA FailsSteady == ASSUME Steady, refusals \in Nat, NEW k \in Runs, JobFails(k) PROVE Steady'
<1>1. /\ chain[k] # <<>> /\ refusals' # 0 /\ Done(k) /\ UNCHANGED <<draft, native, stored, begun>>
  BY DEF JobFails, Refused, durable
<1>2. \A b \in native : draft = b \/ draft \cap b = {}
  BY DEF Steady, Ordered
<1>3. Parts' /\ Alone' /\ Ordered' /\ Sending'
  BY <1>1, <1>2, DoneKeeps
<1>4. Copied'
  BY <1>1 DEF Copied
<1>5. QED BY <1>3, <1>4 DEF Steady

(* A write that goes on to the next one.                                    *)
LEMMA GoesOn ==
  ASSUME Steady, NEW k \in Runs, chain[k] # <<>>, Head(chain[k]).kind = "emit",
         NEW s \in {"send", "put", "clear"}, Goto(k, s),
         draft' = Batch(k), native' \in {native, native \cup {Batch(k)}},
         s # "send" => Batch(k) \in native',
         stored' \in {stored, stored \cup {Batch(k)}}, stored' \subseteq native'
  PROVE  Parts' /\ Alone' /\ Ordered' /\ Sending'
<1>1. stage' = [stage EXCEPT ![k] = s] /\ UNCHANGED <<points, state, rec, chain>>
  BY DEF Goto
<1>2. /\ Active(k) /\ chain[k] \in Seq(Jobs) /\ Batch(k) \subseteq 1 .. points
      /\ \A b \in native : Batch(k) = b \/ Batch(k) \cap b = {}
      /\ Batch(k) \cap rec = {}
      /\ \A i \in 1 .. Len(chain[k]) : i > 1 => Batch(k) \cap chain[k][i].batch = {}
  BY FirstWrite
<1>3. \A i \in Runs \ {k} : chain[i] = <<>> /\ stage[i] = "draft"
  BY <1>2, OneRun DEF Steady, Sending
<1>4. Parts'
  <2>1. stage' \in [Runs -> {"draft", "send", "put", "clear"}]
    BY <1>1 DEF Steady, Parts
  <2>2. draft' \subseteq 1 .. points
    BY <1>2
  <2>3. \A b \in native \cup {Batch(k)} : b \subseteq 1 .. points
    BY <1>2 DEF Steady, Parts
  <2>4. QED BY <1>1, <2>1, <2>2, <2>3 DEF Steady, Parts
<1>5. Alone'
  BY <1>1 DEF Steady, Alone, Active
<1>6. Ordered'
  <2>1. Head(chain[k]) = chain[k][1] /\ Batch(k) = chain[k][1].batch
    BY <1>2, TailParts DEF Batch
  <2>2. ASSUME NEW i \in 1 .. Len(chain[k]), NEW b \in native'
        PROVE  (chain[k][i].kind = "emit" /\ chain[k][i].batch = b) \/ chain[k][i].batch \cap b = {}
    <3>1. CASE b \in native
      BY <3>1 DEF Steady, Ordered, Clean
    <3>2. CASE b = Batch(k) /\ i = 1
      BY <2>1, <3>2
    <3>3. CASE b = Batch(k) /\ i # 1
      BY <1>2, <3>3
    <3>4. QED BY <3>1, <3>2, <3>3
  <2>3. Clean(chain[k], rec, native', points)
    BY <2>2 DEF Steady, Ordered, Clean
  <2>4. \A i \in Runs : Clean(chain[i], rec, native', points)
    BY <1>3, <2>3, CleanEmpty
  <2>5. \A b \in native' : rec \cap b = {} /\ (Batch(k) = b \/ Batch(k) \cap b = {})
    BY <1>2 DEF Steady, Ordered
  <2>6. \A a, b \in native' : a # b => a \cap b = {}
    BY <1>2 DEF Steady, Ordered
  <2>7. QED BY <1>1, <2>4, <2>5, <2>6 DEF Ordered
<1>7. Sending'
  <2>1. \A i \in Runs : stage'[i] = IF i = k THEN s ELSE stage[i]
    BY <1>1 DEF Steady, Parts
  <2>2. QED BY <1>1, <1>3, <2>1 DEF Sending, Batch
<1>8. QED BY <1>4, <1>5, <1>6, <1>7

(* The batch to send becomes the draft.                                    *)
LEMMA SaveDraftSteady == ASSUME Steady, NEW k \in Runs, SaveDraft(k) PROVE Steady'
<1>1. /\ chain[k] # <<>> /\ Head(chain[k]).kind = "emit" /\ draft' = Batch(k)
      /\ begun' = begun \cup {Batch(k)}
      /\ Goto(k, "send") /\ UNCHANGED <<native, stored, refusals>>
  BY DEF SaveDraft, At
<1>2. Parts' /\ Alone' /\ Ordered' /\ Sending'
  BY <1>1, GoesOn DEF Steady, Parts
<1>3. /\ Active(k) /\ Batch(k) # {} /\ Head(chain[k]) = Emit(Batch(k))
  BY <1>1, FirstWrite
<1>4. /\ UNCHANGED <<state, chain>> /\ state[k] = "running"
      /\ \A i \in Runs \ {k} : state[i] # "running"
  BY <1>1, <1>3, OneRun DEF Steady, Goto
<1>5. refusals = 0 => \A b \in begun \ native : b = Batch(k)
  <2>1. \A b : Emit(b).batch = b
    BY DEF Emit
  <2>2. QED BY <1>3, <1>4, <2>1 DEF Steady, Copied
<1>6. Copied'
  BY <1>1, <1>3, <1>4, <1>5 DEF Copied
<1>7. QED BY <1>2, <1>6 DEF Steady

(* Sealing, storing, or finding that it was sent before.                    *)
LEMMA SendSteady == ASSUME Steady, NEW k \in Runs, Send(k) \/ SentBefore(k) \/ Put(k) PROVE Steady'
<1>1. /\ chain[k] # <<>> /\ stage[k] \in {"send", "put"}
      /\ UNCHANGED <<draft, begun, refusals>>
      /\ native' \in {native, native \cup {Batch(k)}}
      /\ stored' \in {stored, stored \cup {Batch(k)}}
  BY DEF Send, SentBefore, Put, At, durable
<1>2. Head(chain[k]).kind = "emit" /\ draft' = Batch(k) /\ (stage[k] = "put" => Batch(k) \in native)
  BY <1>1 DEF Steady, Sending, Batch
<1>3. stored' \subseteq native' /\ Batch(k) \in native'
  BY <1>2 DEF Send, SentBefore, Put, At, durable, Steady, Parts
<1>4. Goto(k, "put") \/ Goto(k, "clear")
  BY DEF Send, SentBefore, Put
<1>5. Parts' /\ Alone' /\ Ordered' /\ Sending'
  BY <1>1, <1>2, <1>3, <1>4, GoesOn
<1>6. native \subseteq native' /\ UNCHANGED <<state, chain>>
  BY <1>1, <1>4 DEF Goto
<1>7. Copied'
  BY <1>1, <1>6 DEF Steady, Copied
<1>8. QED BY <1>5, <1>7 DEF Steady

(* A crash keeps the draft and forgets the writes.                         *)
LEMMA CrashSteady == ASSUME Steady, Crash PROVE Steady'
<1>1. /\ state' = [k \in Runs |-> IF Active(k) THEN "dead" ELSE state[k]]
      /\ rec' = {} /\ chain' = [k \in Runs |-> <<>>] /\ stage' = [k \in Runs |-> "draft"]
      /\ UNCHANGED <<points, draft, native, stored, begun, refusals>>
  BY DEF Crash, durable
<1>2. \A k \in Runs : state'[k] \notin {"starting", "running", "failed"} /\ chain'[k] = <<>> /\ stage'[k] = "draft"
  BY <1>1 DEF Active
<1>3. <<>> \in Seq(Jobs)
  OBVIOUS
<1>4. Parts'
  BY <1>1, <1>3 DEF Steady, Parts
<1>5. Alone' /\ Sending' /\ Copied'
  BY <1>1, <1>2 DEF Steady, Alone, Active, Sending, Copied
<1>6. Ordered'
  BY <1>1, <1>2, CleanEmpty DEF Steady, Ordered
<1>7. QED BY <1>4, <1>5, <1>6 DEF Steady

-----------------------------------------------------------------------------
(* The invariant holds at first.                                           *)
LEMMA InitIInv == Init => IInv
<1> SUFFICES ASSUME Init PROVE IInv
  OBVIOUS
<1>1. <<>> \in Seq(Jobs) /\ \A k \in Runs : chain[k] = <<>> /\ state[k] = "none" /\ stage[k] = "draft"
  BY DEF Init
<1>2. Parts
  BY <1>1 DEF Init, Parts
<1>3. Alone /\ Sending /\ Copied
  BY <1>1 DEF Init, Alone, Active, Sending, Copied
<1>4. Ordered
  BY <1>1, CleanEmpty DEF Init, Ordered
<1>5. QED BY <1>2, <1>3, <1>4 DEF Init, IInv, Steady, RunStates

(* A run that was stopped stays so.                                         *)
LEMMA StoppedStays ==
  ASSUME refusals \in Nat, state \in [Runs -> RunStates], Next
  PROVE  /\ refusals' \in Nat /\ state' \in [Runs -> RunStates]
         /\ NeverStopped' => NeverStopped /\ \A k \in Runs : ~Stop(k)
<1>1. refusals' \in Nat
  BY DEF Next, Start, LoadDraft, LoadDraftFails, Stop, Input, Flush, CheckpointTick, Writes, SaveCheckpoint,
         SaveDraft, Send, SentBefore, Put, ClearDraft, JobFails, Crash, Refused
<1>2. ASSUME NEW k \in Runs, Stop(k)
      PROVE  state' \in [Runs -> RunStates] /\ ~NeverStopped'
  BY <1>2 DEF Stop, NeverStopped, RunStates
<1>3. ASSUME NEW k \in Runs, Start(k) \/ LoadDraft(k) \/ LoadDraftFails(k)
      PROVE  state' \in [Runs -> RunStates] /\ (NeverStopped' => NeverStopped)
  BY <1>3 DEF Start, LoadDraft, LoadDraftFails, NeverStopped, RunStates
<1>4. ASSUME Crash PROVE state' \in [Runs -> RunStates] /\ (NeverStopped' => NeverStopped)
  BY <1>4 DEF Crash, Active, NeverStopped, RunStates
<1>5. ASSUME NEW k \in Runs, Input(k) \/ Flush(k) \/ CheckpointTick(k) \/ Writes(k) \/ JobFails(k)
      PROVE  state' = state
  BY <1>5 DEF Input, Flush, CheckpointTick, Writes, SaveCheckpoint, SaveDraft, Send, SentBefore, Put,
              ClearDraft, JobFails, Goto, Done
<1>6. state' \in [Runs -> RunStates] /\ (NeverStopped' => NeverStopped)
  BY <1>2, <1>3, <1>4, <1>5 DEF Next, NeverStopped
<1>7. QED BY <1>1, <1>2, <1>6

(* Every step keeps the invariant.                                          *)
LEMMA NextIInv == IInv /\ [Next]_vars => IInv'
<1> SUFFICES ASSUME IInv, [Next]_vars PROVE IInv'
  OBVIOUS
<1>1. CASE UNCHANGED vars
  BY <1>1
  DEF vars, run, durable, IInv, NeverStopped, Steady, Parts, Alone, Active, Ordered, Sending, Copied
<1>2. CASE Next
  <2>1. /\ refusals' \in Nat /\ state' \in [Runs -> RunStates]
        /\ NeverStopped' => NeverStopped /\ \A k \in Runs : ~Stop(k)
    BY <1>2, StoppedStays DEF IInv
  <2>2. ASSUME NeverStopped' PROVE Steady'
    <3>1. Steady /\ refusals \in Nat /\ \A k \in Runs : ~Stop(k)
      BY <2>1, <2>2 DEF IInv
    <3>2. CASE Crash
      BY <3>1, <3>2, CrashSteady
    <3>3. ASSUME NEW k \in Runs,
                 \/ Start(k) \/ LoadDraft(k) \/ LoadDraftFails(k)
                 \/ Input(k) \/ Flush(k) \/ CheckpointTick(k)
          PROVE  Steady'
      BY <3>1, <3>3, StartSteady, LoadSteady, LoadFailsSteady, InputSteady, TimerSteady
    <3>4. ASSUME NEW k \in Runs, Writes(k) \/ JobFails(k) PROVE Steady'
      BY <3>1, <3>4, SaveCheckpointSteady, SaveDraftSteady, SendSteady, ClearSteady, FailsSteady DEF Writes
    <3>5. QED BY <1>2, <3>1, <3>2, <3>3, <3>4 DEF Next
  <2>3. QED BY <2>1, <2>2 DEF IInv
<1>3. QED BY <1>1, <1>2

(* The invariant always holds.                                             *)
LEMMA Inductive == Spec => []IInv
<1>1. Init => IInv
  BY InitIInv
<1>2. IInv /\ [Next]_vars => IInv'
  BY NextIInv
<1>3. QED BY <1>1, <1>2, PTL DEF Spec

(* While recording is not switched off, no input is sent in two batches     *)
(* that differ, whatever fails and however often the application dies.      *)
THEOREM SentOnce == Spec => []NoPointTwice
<1>1. IInv => NoPointTwice
  BY DEF IInv, Steady, Ordered, NoPointTwice
<1>2. QED BY <1>1, Inductive, PTL

(* While nothing is refused either, a batch that was begun is sealed or the *)
(* draft, whatever the application dies in.                                 *)
THEOREM CopyKept == Spec => []SteadyKeepsRecoveryCopy
<1>1. IInv => SteadyKeepsRecoveryCopy
  BY DEF IInv, Steady, Copied, SteadyKeepsRecoveryCopy, KeepsRecoveryCopy
<1>2. QED BY <1>1, Inductive, PTL
=============================================================================
