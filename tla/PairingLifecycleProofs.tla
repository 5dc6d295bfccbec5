----------------------- MODULE PairingLifecycleProofs -----------------------
(***************************************************************************)
(* What TLAPS proves of PairingLifecycle, for any relationships, any       *)
(* number of failures and restarts and any length of the session queue:    *)
(* what was left is gone, a native session belongs to the record, and the  *)
(* relay keeps no relationship without one.                                *)
(*                                                                         *)
(* The invariant says how the record on disk may differ from the one in    *)
(* memory after a write that failed (Agrees), what each step of an         *)
(* operation may rely on (StepFits), and that an operation the user asked  *)
(* for finds a record that was read (OneClick, Usable).                    *)
(***************************************************************************)
EXTENDS PairingLifecycle, SequenceTheorems, TLAPS

AnyPairing == [rel : Rels \cup {None}, partner : BOOLEAN, ratchet : BOOLEAN, registration : Registrations]

Shape ==
  /\ disk.pairing \in AnyPairing /\ memo.pairing \in AnyPairing /\ ref \in AnyPairing
  /\ saved \subseteq Rels
  /\ relay \in [Rels -> {"unknown", "open", "revoked"}]
  /\ legacy \in {Old, None}

(* The relationships that were left; of these the native store remembers    *)
(* the last, as many as it has room for.                                    *)
Ever == {leaves[i] : i \in DOMAIN leaves}

Ledger ==
  /\ retired \in Seq(Rels \cup {None}) /\ leaves \in Seq(Rels \cup {None})
  /\ Len(retired) <= Len(leaves) /\ Len(retired) <= MaxRetired
  /\ Len(retired) < MaxRetired => Len(retired) = Len(leaves)
  /\ \A k \in 1 .. Len(retired) : retired[k] = leaves[(Len(leaves) - Len(retired)) + k]

(* The record on disk: of a relationship this device has had, and still has. *)
Known ==
  /\ Ever \subseteq saved
  /\ disk \in {Empty, NoRecord} \/ (disk.kind \in {"active", "revoking"} /\ disk.pairing.rel \in saved)
  /\ disk = NoRecord => saved = {} /\ native = None
  /\ disk.kind = "active" => disk.pairing.rel \notin Ever

(* The record in memory, against the pairing in use and the record on disk. *)
Agrees ==
  /\ memo.kind = "active" \/ ref = NoPairing
  /\ memo \in {Empty, NoRecord} \/ memo.kind \in {"active", "revoking"}
  /\ memo.kind = "active" =>
       /\ memo.pairing = ref /\ ref.rel \in saved \ Ever
       /\ disk.kind \in {"active", "revoking"} /\ disk.pairing.rel = ref.rel
  /\ memo.kind = "revoking" =>
       /\ memo.pairing.rel \in saved
       /\ disk = Empty \/ (disk.kind = "revoking" /\ disk.pairing.rel = memo.pairing.rel)
  /\ memo.kind = "empty" => disk # NoRecord /\ disk.kind # "revoking"

Session == native # None => disk.pairing.rel = native

Gone(r) == relay[r] = "revoked" /\ native # r /\ r \in Ever

Erased == \A r \in saved : disk.pairing.rel # r => Gone(r)

RecordInv == Shape /\ Known /\ Agrees /\ Session /\ Erased /\ NoOrphanAtRelay

StepFits ==
  /\ step \in {"begin", "init", "prepare", "register", "registered", "contact"} => memo.kind = "active"
  /\ step \in {"forget", "revoke", "complete"} => memo.kind = "revoking"
  /\ op = "sync" /\ step = "begin" => relay[ref.rel] = "revoked"
  /\ op = "sync" /\ step = "forget" => relay[memo.pairing.rel] = "revoked"
  /\ step = "revoke" /\ erased => native # memo.pairing.rel /\ memo.pairing.rel \in Ever
  /\ step = "complete" => Gone(memo.pairing.rel)
  /\ step = "make" => op = "create" /\ memo.kind # "active"
  /\ step = "invite" => op = "join"

ClickOps == {"create", "join", "disconnect"}
Queued(o) == \E i \in 1 .. Len(queue) : queue[i] = o
Clicked == \E o \in ClickOps : Queued(o)

(* One click at a time, from the click to the end of its operation.         *)
OneClick ==
  /\ queue \in Seq(Operations)
  /\ \A i, j \in 1 .. Len(queue) : queue[i] \in ClickOps /\ queue[j] \in ClickOps => i = j
  /\ Clicked => busy /\ op \notin ClickOps
  /\ op \in ClickOps => busy

Usable ==
  /\ ready => memo.kind # "none"
  /\ ready \/ Clicked \/ step \in {"make", "invite"} => memo.kind # "empty" \/ disk = Empty
  /\ Queued("join") \/ step = "invite" => memo.kind \in {"empty", "revoking"}

IInv == RecordInv /\ StepFits /\ OneClick /\ Usable

-----------------------------------------------------------------------------
(* Records by their parts.                                                  *)
LEMMA RecordParts ==
  /\ \A p : Active(p).kind = "active" /\ Active(p).pairing = p
  /\ \A r : Revoking(r).kind = "revoking" /\ Revoking(r).pairing.rel = r
  /\ Empty.kind = "empty" /\ Empty.pairing = NoPairing
  /\ NoRecord.kind = "none" /\ NoRecord.pairing = NoPairing
  /\ NoPairing.rel = None
BY DEF Active, Revoking, Empty, NoRecord, NoPairing

(* Relationships are kept apart.                                            *)
LEMMA RelFacts == None \notin Rels /\ Old \in Rels /\ Old \notin Own /\ Own \subseteq Rels /\ Foreign \subseteq Rels
                  /\ Own \cap Foreign = {}
BY LifecycleAssumption DEF Rels

(* Records hold pairings.                                                   *)
LEMMA PairingTypes ==
  /\ NoPairing \in AnyPairing
  /\ \A r \in Rels : Revoking(r).pairing \in AnyPairing
<1>1. FALSE \in BOOLEAN /\ "done" \in Registrations
  BY DEF Registrations
<1>2. ASSUME NEW r \in Rels \cup {None}
      PROVE  [rel |-> r, partner |-> FALSE, ratchet |-> FALSE, registration |-> "done"] \in AnyPairing
  BY <1>1, Zenon DEF AnyPairing
<1>3. \A r : Revoking(r).pairing = [rel |-> r, partner |-> FALSE, ratchet |-> FALSE, registration |-> "done"]
  BY DEF Revoking, NoPairing
<1>4. QED BY <1>2, <1>3 DEF NoPairing

(* The pairings that are saved: a new one, or the one in use with a change. *)
LEMMA SavedPairings ==
  ASSUME Shape
  PROVE  /\ \A r \in Rels : NewPairing(r) \in AnyPairing /\ NewPairing(r).rel = r
         /\ Prepared \in AnyPairing /\ Prepared.rel = ref.rel
         /\ Joined \in AnyPairing /\ Joined.rel = ref.rel
         /\ \A partner \in {ref.partner, TRUE} :
              [ref EXCEPT !.partner = partner] \in AnyPairing /\ [ref EXCEPT !.partner = partner].rel = ref.rel
<1>0. TRUE \in BOOLEAN /\ FALSE \in BOOLEAN /\ {"create", "join", "done"} \subseteq Registrations
  BY DEF Registrations
<1>1. \A r \in Rels : NewPairing(r) \in AnyPairing
  BY <1>0, Zenon DEF NewPairing, AnyPairing
<1>2. \A r \in Rels : NewPairing(r).rel = r
  BY DEF NewPairing
<1>3. Prepared \in AnyPairing
  BY <1>0, Zenon DEF Prepared, Shape, AnyPairing
<1>4. Joined \in AnyPairing
  BY <1>0, Zenon DEF Joined, Shape, AnyPairing
<1>5. Prepared.rel = ref.rel /\ Joined.rel = ref.rel
  BY DEF Prepared, Joined, Shape, AnyPairing
<1>6. ASSUME NEW partner \in {ref.partner, TRUE}
      PROVE  [ref EXCEPT !.partner = partner] \in AnyPairing
  <2>1. ref.partner \in BOOLEAN
    BY DEF Shape, AnyPairing
  <2>2. partner \in BOOLEAN
    BY <1>0, <2>1
  <2>3. QED BY <2>2, Zenon DEF Shape, AnyPairing
<1>7. \A partner : [ref EXCEPT !.partner = partner].rel = ref.rel
  BY DEF Shape, AnyPairing
<1>8. QED BY <1>1, <1>2, <1>3, <1>4, <1>5, <1>6, <1>7

(* What a load finds.                                                       *)
LEMMA RestoredFacts ==
  ASSUME Shape
  PROVE  /\ Restored.pairing \in AnyPairing
         /\ disk # NoRecord => Restored = disk
         /\ disk = NoRecord => Restored = Empty \/ (Restored.kind = "active" /\ Restored.pairing.rel = Old)
<1> DEFINE p == [rel |-> legacy, partner |-> TRUE, ratchet |-> FALSE, registration |-> "done"]
<1>1. TRUE \in BOOLEAN /\ FALSE \in BOOLEAN /\ "done" \in Registrations /\ legacy \in Rels \cup {None}
  BY RelFacts DEF Registrations, Shape
<1>2. p \in AnyPairing /\ p.rel = legacy
  <2>1. p \in AnyPairing
    BY <1>1, Zenon DEF AnyPairing
  <2>2. p.rel = legacy
    OBVIOUS
  <2>3. QED BY <2>1, <2>2
<1>3. Restored = IF disk # NoRecord THEN disk ELSE IF legacy = None THEN Empty ELSE Active(p)
  BY DEF Restored
<1> HIDE DEF p
<1>4. QED BY <1>2, <1>3, RecordParts, PairingTypes DEF Shape

(* What a write leaves.                                                     *)
LEMMA WriteFacts ==
  ASSUME NEW record
  PROVE  /\ Written(record) => memo' = record /\ (disk' = record \/ (memo = record /\ disk' = disk))
         /\ WriteFailed(record) => memo' = memo /\ disk' \in {disk, record}
BY DEF Written, WriteFailed
-----------------------------------------------------------------------------
(* What the calls do to the record and to the relationship.                 *)

(* Nothing of it changes.                                                   *)
LEMMA Quiet ==
  ASSUME RecordInv, UNCHANGED <<disk, memo, ref, saved, retired, leaves, native, legacy, relay>>
  PROVE  RecordInv'
BY DEF RecordInv, Shape, Known, Agrees, Session, Erased, NoOrphanAtRelay, Ever, Gone

(* Only the relay changes: what was cancelled there stays so, and nothing   *)
(* of this device is opened but the relationship on record.                 *)
LEMMA AtRelay ==
  ASSUME RecordInv, UNCHANGED <<disk, memo, ref, saved, retired, leaves, native, legacy>>,
         relay' \in [Rels -> {"unknown", "open", "revoked"}],
         \A r \in Rels : relay[r] = "revoked" => relay'[r] = "revoked",
         \A r \in Own : relay'[r] = "open" => relay[r] = "open" \/ disk.pairing.rel = r
  PROVE  RecordInv'
<1>1. Shape' /\ Known' /\ Agrees' /\ Session'
  BY DEF RecordInv, Shape, Known, Agrees, Session, Ever
<1>2. Erased'
  BY DEF RecordInv, Shape, Erased, Ever, Gone
<1>3. NoOrphanAtRelay'
  BY DEF RecordInv, NoOrphanAtRelay
<1>4. QED BY <1>1, <1>2, <1>3 DEF RecordInv

(* The pairing in use is saved again, with a change or without.             *)
LEMMA SavedAgain ==
  ASSUME RecordInv, memo.kind = "active", NEW p \in AnyPairing, p.rel = ref.rel,
         memo' = Active(p), ref' = p, disk' \in {disk, Active(p)}, saved' = saved \cup {p.rel},
         UNCHANGED <<retired, leaves, native, legacy, relay>>
  PROVE  RecordInv'
<1>1. saved' = saved /\ ref.rel \in saved \ Ever /\ disk.pairing.rel = ref.rel
  BY DEF RecordInv, Agrees
<1>2. /\ disk' = disk \/ (disk'.kind = "active" /\ disk'.pairing = p)
      /\ disk'.pairing.rel = ref.rel /\ disk'.kind \in {"active", "revoking"}
      /\ memo'.kind = "active" /\ memo'.pairing = p
  BY <1>1, RecordParts DEF RecordInv, Agrees
<1>3. Shape'
  BY <1>1, <1>2 DEF RecordInv, Shape
<1>4. Known'
  BY <1>1, <1>2, RecordParts DEF RecordInv, Known, Ever
<1>5. Agrees'
  BY <1>1, <1>2, RecordParts DEF RecordInv, Agrees, Ever
<1>6. Session' /\ Erased' /\ NoOrphanAtRelay'
  BY <1>1, <1>2 DEF RecordInv, Session, Erased, NoOrphanAtRelay, Ever, Gone
<1>7. QED BY <1>3, <1>4, <1>5, <1>6 DEF RecordInv

(* Or the save fails, and the disk may have the change all the same.        *)
LEMMA NotSavedAgain ==
  ASSUME RecordInv, memo.kind = "active", NEW p \in AnyPairing, p.rel = ref.rel,
         memo' = memo, ref' = ref, disk' \in {disk, Active(p)}, saved' \in {saved, saved \cup {p.rel}},
         UNCHANGED <<retired, leaves, native, legacy, relay>>
  PROVE  RecordInv'
<1>1. saved' = saved /\ ref.rel \in saved \ Ever /\ disk.pairing.rel = ref.rel
  BY DEF RecordInv, Agrees
<1>2. /\ disk' = disk \/ (disk'.kind = "active" /\ disk'.pairing = p)
      /\ disk'.pairing.rel = ref.rel /\ disk'.kind \in {"active", "revoking"}
  BY <1>1, RecordParts DEF RecordInv, Agrees
<1>3. Shape'
  BY <1>1, <1>2 DEF RecordInv, Shape
<1>4. Known'
  BY <1>1, <1>2, RecordParts DEF RecordInv, Known, Ever
<1>5. Agrees'
  BY <1>1, <1>2, RecordParts DEF RecordInv, Agrees, Ever
<1>6. Session' /\ Erased' /\ NoOrphanAtRelay'
  BY <1>1, <1>2 DEF RecordInv, Session, Erased, NoOrphanAtRelay, Ever, Gone
<1>7. QED BY <1>3, <1>4, <1>5, <1>6 DEF RecordInv

(* A new relationship is put on an empty record.                            *)
LEMMA SavedNew ==
  ASSUME RecordInv, memo.kind = "empty", disk = Empty, NEW p \in AnyPairing, p.rel \in Rels \ saved,
         \/ memo' = Active(p) /\ ref' = p /\ disk' = Active(p) /\ saved' = saved \cup {p.rel}
         \/ /\ memo' = memo /\ ref' = ref
            /\ \/ disk' = disk /\ saved' = saved
               \/ disk' = Active(p) /\ saved' = saved \cup {p.rel},
         UNCHANGED <<retired, leaves, native, legacy, relay>>
  PROVE  RecordInv'
<1>1. disk.pairing.rel = None /\ native = None /\ p.rel \notin Ever
  BY RecordParts, RelFacts DEF RecordInv, Session, Shape, Known
<1>2. memo = Empty /\ ref = NoPairing
  BY RecordParts DEF RecordInv, Agrees
<1>3. Active(p).kind = "active" /\ Active(p).pairing = p /\ Active(p) # NoRecord /\ Active(p) # Empty
  BY RecordParts
<1>4. Shape'
  BY <1>3 DEF RecordInv, Shape
<1>5. Known'
  BY <1>1, <1>3 DEF RecordInv, Known, Ever
<1>6. Agrees'
  BY <1>1, <1>2, <1>3, RecordParts DEF RecordInv, Agrees, Ever
<1>7. Session'
  BY <1>1 DEF Session
<1>8. Erased'
  <2>1. \A r \in saved : r # None
    BY RelFacts DEF RecordInv, Shape
  <2>2. QED BY <1>1, <1>3, <2>1 DEF RecordInv, Erased, Ever, Gone
<1>9. NoOrphanAtRelay'
  <2>1. \A r \in Own : r # None
    BY RelFacts
  <2>2. QED BY <1>1, <2>1 DEF RecordInv, NoOrphanAtRelay
<1>10. QED BY <1>4, <1>5, <1>6, <1>7, <1>8, <1>9 DEF RecordInv
(* A load, which may have written the record although it failed.            *)
LEMMA LoadRecord ==
  ASSUME RecordInv, UNCHANGED <<retired, leaves, native, relay>>, legacy' \in {legacy, None},
         \/ /\ disk' = Restored /\ memo' = Restored /\ saved' = saved \cup ({Restored.pairing.rel} \ {None})
            /\ ref' = IF Restored.kind = "active" THEN Restored.pairing ELSE NoPairing
         \/ /\ memo' = memo /\ ref' = ref /\ disk' \in {disk, Restored}
            /\ saved' = IF disk' = disk THEN saved ELSE saved \cup ({Restored.pairing.rel} \ {None})
  PROVE  RecordInv'
<1>1. CASE disk = NoRecord
  <2>1. Restored = Empty \/ (Restored.kind = "active" /\ Restored.pairing.rel = Old)
    BY <1>1, RestoredFacts DEF RecordInv
  <2>2. saved = {} /\ native = None /\ Ever = {} /\ memo = NoRecord /\ ref = NoPairing
    BY <1>1, RecordParts DEF RecordInv, Known, Agrees
  <2>3. saved' \subseteq {Old} /\ Restored.pairing \in AnyPairing
    BY <2>1, <2>2, RecordParts, RestoredFacts DEF RecordInv
  <2>4. Restored.kind = "active" => disk' = disk \/ Old \in saved'
    BY <1>1, <2>1, <2>2, RecordParts, RelFacts
  <2>5. Shape'
    BY <2>3, RelFacts, PairingTypes DEF RecordInv, Shape
  <2>6. Known'
    BY <1>1, <2>1, <2>2, <2>3, <2>4, RecordParts, RelFacts DEF RecordInv, Known, Ever
  <2>7. Agrees'
    BY <1>1, <2>1, <2>2, <2>3, <2>4, RecordParts, RelFacts DEF RecordInv, Agrees, Ever
  <2>8. Session'
    BY <2>2 DEF Session
  <2>9. Erased'
    <3>1. disk' = disk => saved' = {}
      BY <1>1, <2>1, <2>2, RecordParts, RelFacts
    <3>2. disk' # disk => disk' = Restored
      OBVIOUS
    <3>3. Restored = Empty => saved' = {}
      BY <2>2, RecordParts
    <3>4. QED BY <2>1, <2>3, <3>1, <3>2, <3>3 DEF Erased, Gone
  <2>10. NoOrphanAtRelay'
    <3>1. \A r \in Own : relay[r] # "open"
      BY <1>1, RecordParts, RelFacts DEF RecordInv, NoOrphanAtRelay
    <3>2. QED BY <3>1 DEF NoOrphanAtRelay
  <2>11. QED BY <2>5, <2>6, <2>7, <2>8, <2>9, <2>10 DEF RecordInv
<1>2. CASE disk # NoRecord
  <2>1. Restored = disk
    BY <1>2, RestoredFacts DEF RecordInv
  <2>2. disk' = disk /\ saved' = saved
    BY <2>1, RecordParts DEF RecordInv, Known
  <2>3. Shape'
    BY <2>1, <2>2, PairingTypes DEF RecordInv, Shape
  <2>4. Known' /\ Session' /\ Erased' /\ NoOrphanAtRelay'
    BY <2>2 DEF RecordInv, Known, Session, Erased, NoOrphanAtRelay, Ever, Gone
  <2>5. Agrees'
    BY <1>2, <2>1, <2>2, RecordParts DEF RecordInv, Agrees, Known, Ever
  <2>6. QED BY <2>3, <2>4, <2>5 DEF RecordInv
<1>3. QED BY <1>1, <1>2

(* A cancellation begins, or its write fails and may have happened.         *)
LEMMA BeginRecord ==
  ASSUME RecordInv, memo.kind = "active", UNCHANGED <<saved, retired, leaves, native, relay>>,
         legacy' \in {legacy, None}, disk' \in {disk, Revoking(ref.rel)},
         \/ memo' = Revoking(ref.rel) /\ disk' = Revoking(ref.rel) /\ ref' = NoPairing
         \/ memo' = memo /\ ref' = ref
  PROVE  RecordInv'
<1>1. ref.rel \in saved \ Ever /\ disk.pairing.rel = ref.rel /\ disk.kind \in {"active", "revoking"}
  BY DEF RecordInv, Agrees
<1>2. ref.rel \in Rels
  BY <1>1 DEF RecordInv, Shape
<1>3. /\ Revoking(ref.rel).kind = "revoking" /\ Revoking(ref.rel).pairing.rel = ref.rel
      /\ Revoking(ref.rel).pairing \in AnyPairing
  BY <1>2, RecordParts, PairingTypes
<1>4. disk'.pairing.rel = ref.rel /\ disk'.kind \in {"active", "revoking"}
      /\ (disk'.kind = "active" => disk' = disk)
  BY <1>1, <1>3
<1>5. Shape'
  BY <1>3, PairingTypes DEF RecordInv, Shape
<1>6. Known'
  BY <1>1, <1>4, RecordParts DEF RecordInv, Known, Ever
<1>7. Agrees'
  BY <1>1, <1>3, <1>4, RecordParts DEF RecordInv, Agrees, Ever
<1>8. Session' /\ Erased' /\ NoOrphanAtRelay'
  BY <1>1, <1>4 DEF RecordInv, Session, Erased, NoOrphanAtRelay, Ever, Gone
<1>9. QED BY <1>5, <1>6, <1>7, <1>8 DEF RecordInv

(* What is remembered was left; and what is left is remembered, for a while. *)
LEMMA RememberedLeft == ASSUME Ledger PROVE Remembered \subseteq Ever
<1>1. retired \in Seq(Rels \cup {None}) /\ leaves \in Seq(Rels \cup {None}) /\ Len(retired) <= Len(leaves)
  BY DEF Ledger
<1>2. /\ DOMAIN retired = 1 .. Len(retired) /\ DOMAIN leaves = 1 .. Len(leaves)
      /\ Len(retired) \in Nat /\ Len(leaves) \in Nat
  BY <1>1
<1>3. ASSUME NEW k \in DOMAIN retired PROVE retired[k] \in Ever
  <2>1. retired[k] = leaves[(Len(leaves) - Len(retired)) + k]
    BY <1>2, <1>3, Zenon DEF Ledger
  <2>2. (Len(leaves) - Len(retired)) + k \in DOMAIN leaves
    BY <1>1, <1>2, <1>3
  <2>3. QED BY <2>1, <2>2, Zenon DEF Ever
<1>4. QED BY <1>3, Zenon DEF Remembered

LEMMA LeftRemembered ==
  ASSUME Ledger, NEW r \in Ever
  PROVE  \E i \in DOMAIN leaves : leaves[i] = r /\ (i + MaxRetired > Len(leaves) => r \in Remembered)
<1>1. /\ retired \in Seq(Rels \cup {None}) /\ leaves \in Seq(Rels \cup {None})
      /\ Len(retired) <= Len(leaves) /\ Len(retired) <= MaxRetired
      /\ Len(retired) < MaxRetired => Len(retired) = Len(leaves)
  BY DEF Ledger
<1>2. /\ DOMAIN retired = 1 .. Len(retired) /\ DOMAIN leaves = 1 .. Len(leaves)
      /\ Len(retired) \in Nat /\ Len(leaves) \in Nat /\ MaxRetired \in Nat
  BY <1>1, LifecycleAssumption
<1>3. PICK i \in DOMAIN leaves : leaves[i] = r
  BY Zenon DEF Ever
<1>4. ASSUME i + MaxRetired > Len(leaves) PROVE r \in Remembered
  <2>0. PICK p, q \in Nat : p = Len(retired) /\ q = Len(leaves)
    BY <1>2
  <2>bounds. /\ i \in 1 .. q /\ p <= q /\ p <= MaxRetired /\ (p < MaxRetired => p = q)
         /\ i + MaxRetired > q /\ p \in Nat /\ q \in Nat /\ i \in Nat /\ MaxRetired \in Nat
    <3>1. Len(retired) <= Len(leaves) /\ Len(retired) <= MaxRetired /\ MaxRetired \in Nat
          /\ (Len(retired) < MaxRetired => Len(retired) = Len(leaves))
          /\ i + MaxRetired > Len(leaves) /\ i \in 1 .. Len(leaves)
      BY <1>1, <1>2, <1>3, <1>4, Zenon
    <3>2. i \in 1 .. q /\ p <= q /\ p <= MaxRetired /\ MaxRetired \in Nat
          /\ (p < MaxRetired => p = q) /\ i + MaxRetired > q
      BY <2>0, <3>1, Zenon
    <3>3. QED BY <3>2
  <2> DEFINE k == i - (q - p)
  <2>1. k \in 1 .. Len(retired) /\ (Len(leaves) - Len(retired)) + k = i
    <3>1. k \in 1 .. p /\ (q - p) + k = i
      BY <2>bounds
    <3>2. QED BY <2>0, <3>1
  <2>2. retired[k] = leaves[i]
    BY <2>1, Zenon DEF Ledger
  <2>3. QED BY <1>2, <1>3, <2>1, <2>2, Zenon DEF Remembered
<1>5. QED BY <1>3, <1>4, Zenon

(* A relationship is added to those that were left.                         *)
LEMMA Retires ==
  ASSUME Ledger, NEW rel \in Rels \cup {None}, Retire(rel)
  PROVE  Ledger' /\ Ever' = Ever \cup {rel}
<1>1. CASE rel \in Remembered
  <2>1. UNCHANGED <<retired, leaves>>
    BY <1>1, Zenon DEF Retire
  <2>2. rel \in Ever
    BY <1>1, RememberedLeft, Zenon
  <2>3. QED BY <2>1, <2>2 DEF Ledger, Ever
<1>2. CASE rel \notin Remembered
  <2> DEFINE S == Rels \cup {None}
  <2>0. PICK m, n \in Nat : m = Len(retired) /\ n = Len(leaves)
    BY DEF Ledger
  <2>1. /\ leaves' = Append(leaves, rel)
        /\ retired' = IF m < MaxRetired THEN Append(retired, rel) ELSE Tail(Append(retired, rel))
    BY <1>2, <2>0, Zenon DEF Retire
  <2>2. /\ retired \in Seq(S) /\ leaves \in Seq(S) /\ m <= n /\ m <= MaxRetired
        /\ (m < MaxRetired => m = n) /\ m \in Nat /\ n \in Nat /\ MaxRetired \in Nat
        /\ \A k \in 1 .. m : retired[k] = leaves[(n - m) + k]
    BY <2>0, LifecycleAssumption DEF Ledger
  <2> HIDE DEF S
  <2>3. /\ leaves' \in Seq(S) /\ Len(leaves') = n + 1 /\ leaves'[n + 1] = rel
        /\ \A k \in 1 .. n : leaves'[k] = leaves[k]
    <3>1. rel \in S
      BY DEF S
    <3>2. QED BY <2>0, <2>1, <2>2, <3>1
  <2> DEFINE long == Append(retired, rel)
  <2>4. /\ long \in Seq(S) /\ Len(long) = m + 1 /\ long[m + 1] = rel /\ long # <<>>
        /\ \A k \in 1 .. m : long[k] = retired[k]
    <3>1. rel \in S /\ retired \in Seq(S)
      BY <2>2 DEF S
    <3>2. /\ Append(retired, rel) \in Seq(S) /\ Append(retired, rel) # <<>>
          /\ Len(Append(retired, rel)) = Len(retired) + 1
          /\ \A k \in 1 .. Len(retired) : Append(retired, rel)[k] = retired[k]
          /\ Append(retired, rel)[Len(retired) + 1] = rel
      <4>1. Append(retired, rel) \in Seq(S) /\ Append(retired, rel) # <<>>
        BY <3>1, AppendProperties
      <4>2. Len(Append(retired, rel)) = Len(retired) + 1
        BY <3>1, AppendProperties
      <4>3. \A k \in 1 .. Len(retired) : Append(retired, rel)[k] = retired[k]
        BY <3>1, AppendProperties
      <4>4. Append(retired, rel)[Len(retired) + 1] = rel
        BY <3>1, AppendProperties
      <4>5. QED BY <4>1, <4>2, <4>3, <4>4
    <3>3. QED BY <2>0, <3>2, Zenon DEF long
  <2> HIDE DEF long
  <2>5. \A k \in 1 .. m + 1 : long[k] = leaves'[(n - m) + k]
    <3> SUFFICES ASSUME NEW k \in 1 .. m + 1 PROVE long[k] = leaves'[(n - m) + k]
      OBVIOUS
    <3>1. CASE k = m + 1
      <4>1. (n - m) + k = n + 1
        BY <2>2, <3>1
      <4>2. QED BY <2>3, <2>4, <3>1, <4>1
    <3>2. CASE k # m + 1
      <4>1. k \in 1 .. m /\ (n - m) + k \in 1 .. n
        BY <2>2, <3>2
      <4>2. QED BY <2>2, <2>3, <2>4, <4>1, Zenon
    <3>3. QED BY <3>1, <3>2
  <2>ledger. ASSUME NEW p \in Nat, NEW q \in Nat, Len(retired') = p, Len(leaves') = q,
                retired' \in Seq(S), leaves' \in Seq(S), p <= q, p <= MaxRetired,
                p < MaxRetired => p = q,
                \A k \in 1 .. p : retired'[k] = leaves'[(q - p) + k]
         PROVE  Ledger'
    BY <2>ledger DEF Ledger, S
  <2>6. ASSUME m < MaxRetired PROVE Ledger'
    <3>1. retired' = long
      BY <2>1, <2>6 DEF long
    <3>2. Len(retired') = m + 1 /\ retired' \in Seq(S)
      BY <2>4, <3>1
    <3>3. ASSUME NEW k \in 1 .. m + 1 PROVE retired'[k] = leaves'[((n + 1) - (m + 1)) + k]
      <4>1. (n - m) + k = ((n + 1) - (m + 1)) + k
        BY <2>2
      <4>2. QED BY <2>5, <3>1, <4>1, Zenon
    <3>4. m + 1 \in Nat /\ n + 1 \in Nat /\ m + 1 <= n + 1 /\ m + 1 <= MaxRetired
          /\ (m + 1 < MaxRetired => m + 1 = n + 1)
      BY <2>2, <2>6
    <3>5. PICK p, q \in Nat : p = m + 1 /\ q = n + 1
      BY <3>4
    <3>6. /\ Len(retired') = p /\ Len(leaves') = q /\ p <= q /\ p <= MaxRetired
          /\ (p < MaxRetired => p = q) /\ retired' \in Seq(S) /\ leaves' \in Seq(S)
      BY <2>3, <3>2, <3>4, <3>5
    <3>7. \A k \in 1 .. p : retired'[k] = leaves'[(q - p) + k]
      BY <3>3, <3>5, Zenon
    <3>8. QED BY <2>ledger, <3>6, <3>7, Zenon
  <2>7. ASSUME ~(m < MaxRetired) PROVE Ledger'
    <3>1. retired' = Tail(long)
      BY <2>1, <2>7 DEF long
    <3>2. /\ retired' \in Seq(S) /\ Len(retired') = m
          /\ \A k \in 1 .. m : retired'[k] = long[k + 1]
      BY <2>2, <2>4, <3>1
    <3>3. ASSUME NEW k \in 1 .. m PROVE retired'[k] = leaves'[((n + 1) - m) + k]
      <4>1. k + 1 \in 1 .. m + 1 /\ (n - m) + (k + 1) = ((n + 1) - m) + k
        BY <2>2
      <4>2. QED BY <2>5, <3>2, <4>1, Zenon
    <3>4. n + 1 \in Nat /\ m <= n + 1 /\ m <= MaxRetired /\ (m < MaxRetired => m = n + 1)
      BY <2>2, <2>7
    <3>5. PICK q \in Nat : q = n + 1
      BY <3>4
    <3>6. /\ Len(retired') = m /\ Len(leaves') = q /\ m <= q /\ m <= MaxRetired /\ m \in Nat
          /\ (m < MaxRetired => m = q) /\ retired' \in Seq(S) /\ leaves' \in Seq(S)
      BY <2>2, <2>3, <3>2, <3>4, <3>5, Zenon
    <3>7. \A k \in 1 .. m : retired'[k] = leaves'[(q - m) + k]
      BY <3>3, <3>5, Zenon
    <3>8. QED BY <2>ledger, <3>6, <3>7, Zenon
  <2>8. Ever' = Ever \cup {rel}
    <3>1. DOMAIN leaves = 1 .. n /\ DOMAIN leaves' = 1 .. n + 1
      BY <2>0, <2>2, <2>3
    <3>2. QED BY <2>2, <2>3, <3>1 DEF Ever
  <2>9. QED BY <2>6, <2>7, <2>8
<1>3. QED BY <1>1, <1>2

(* The native session of the relationship that is left is erased.           *)
LEMMA ForgetRecord ==
  ASSUME RecordInv, Ledger, memo.kind = "revoking", Forgotten, UNCHANGED <<disk, memo, ref, saved, legacy, relay>>
  PROVE  /\ RecordInv' /\ native' # memo.pairing.rel /\ memo.pairing.rel \in Ever'
<1>1. memo.pairing.rel \in saved /\ memo.pairing.rel # None
  BY RelFacts DEF RecordInv, Agrees, Shape
<1>2. /\ native' = IF native = memo.pairing.rel THEN None ELSE native
      /\ Ever' = Ever \cup {memo.pairing.rel}
  <2>1. memo.pairing.rel \in Rels \cup {None}
    BY DEF RecordInv, Shape, AnyPairing
  <2>2. QED BY <2>1, Retires DEF Forgotten
<1>3. disk.kind # "active"
  BY RecordParts DEF RecordInv, Agrees
<1>4. Shape' /\ Known'
  BY <1>1, <1>2, <1>3 DEF RecordInv, Shape, Known
<1>5. Agrees'
  BY <1>2 DEF RecordInv, Agrees
<1>6. Session' /\ NoOrphanAtRelay'
  BY <1>2 DEF RecordInv, Session, NoOrphanAtRelay
<1>7. Erased'
  <2>1. \A r \in saved : r # None
    BY RelFacts DEF RecordInv, Shape
  <2>2. QED BY <1>2, <2>1 DEF RecordInv, Erased, Gone
<1>8. QED BY <1>1, <1>2, <1>4, <1>5, <1>6, <1>7 DEF RecordInv

(* The record is cleared when everything is gone.                           *)
LEMMA CompleteRecord ==
  ASSUME RecordInv, memo.kind = "revoking", Gone(memo.pairing.rel),
         UNCHANGED <<ref, saved, retired, leaves, native, legacy, relay>>, disk' \in {disk, Empty},
         memo' = memo \/ (memo' = Empty /\ disk' = Empty)
  PROVE  RecordInv'
<1>1. /\ memo.pairing.rel \in saved /\ ref = NoPairing
      /\ disk = Empty \/ (disk.kind = "revoking" /\ disk.pairing.rel = memo.pairing.rel)
  BY DEF RecordInv, Agrees
<1>2. Shape'
  BY RecordParts, PairingTypes DEF RecordInv, Shape
<1>3. Known'
  BY RecordParts DEF RecordInv, Known, Ever
<1>4. Agrees'
  BY <1>1, RecordParts DEF RecordInv, Agrees
<1>5. Session'
  BY <1>1, RecordParts DEF RecordInv, Session, Gone
<1>6. Erased'
  BY <1>1 DEF RecordInv, Erased, Gone, Ever
<1>7. NoOrphanAtRelay'
  BY <1>1 DEF RecordInv, NoOrphanAtRelay, Gone
<1>8. QED BY <1>2, <1>3, <1>4, <1>5, <1>6, <1>7 DEF RecordInv

(* The native session of the pairing in use is made.                        *)
LEMMA InitRecord ==
  ASSUME RecordInv, memo.kind = "active", native' \in {native, ref.rel},
         UNCHANGED <<disk, memo, ref, saved, retired, leaves, legacy, relay>>
  PROVE  RecordInv'
<1>1. ref.rel \in saved \ Ever /\ disk.pairing.rel = ref.rel /\ disk.kind \in {"active", "revoking"}
  BY DEF RecordInv, Agrees
<1>2. Shape' /\ Known' /\ Agrees'
  BY <1>1, RecordParts DEF RecordInv, Shape, Known, Agrees, Ever
<1>3. Session' /\ Erased' /\ NoOrphanAtRelay'
  BY <1>1 DEF RecordInv, Session, Erased, NoOrphanAtRelay, Ever, Gone
<1>4. QED BY <1>2, <1>3 DEF RecordInv

(* A restart forgets what was in memory.                                    *)
LEMMA RestartRecord ==
  ASSUME RecordInv, memo' = NoRecord, ref' = NoPairing,
         UNCHANGED <<disk, saved, retired, leaves, native, legacy, relay>>
  PROVE  RecordInv'
<1>1. Shape'
  BY RecordParts, PairingTypes DEF RecordInv, Shape
<1>2. Agrees'
  BY RecordParts DEF Agrees
<1>3. Known' /\ Session' /\ Erased' /\ NoOrphanAtRelay'
  BY DEF RecordInv, Known, Session, Erased, NoOrphanAtRelay, Ever, Gone
<1>4. QED BY <1>1, <1>2, <1>3 DEF RecordInv
-----------------------------------------------------------------------------
(* What calls and clicks do to the queue and the flags.                     *)

QueueKept == op' = op /\ queue' = queue /\ busy' = busy
Ends ==
  /\ op' = "none" /\ step' = "none" /\ queue' = queue
  /\ busy' => busy /\ op \notin ClickOps
  /\ busy /\ op \notin ClickOps => busy'

(* However an operation ends, the next may begin; none makes the app ready. *)
LEMMA EndsFacts ==
  /\ End /\ ClicksAgain => Ends
  /\ Failed \/ RelayFailed \/ StorageFailed => Ends /\ (ready' => ready)
<1>1. End /\ ClicksAgain => Ends
  BY Zenon DEF End, ClicksAgain, Ends, ClickOps
<1>2. Resumed \/ Refused => (ready' => ready)
  BY DEF Resumed, Refused
<1>3. Failed => End /\ ClicksAgain /\ (ready' => ready)
  BY <1>2, Zenon DEF Failed
<1>4. RelayFailed => End /\ ClicksAgain /\ (ready' => ready)
  BY <1>2, Zenon DEF RelayFailed
<1>5. StorageFailed => End /\ ClicksAgain /\ (ready' => ready)
  BY Zenon DEF StorageFailed
<1>6. QED BY <1>1, <1>3, <1>4, <1>5

(* A call within an operation leaves the queue alone.                       *)
LEMMA OneClickKept == ASSUME OneClick, QueueKept PROVE OneClick' /\ (Clicked' => Clicked)
BY DEF OneClick, QueueKept, Clicked, Queued

(* The end of an operation lets the user click again.                       *)
LEMMA OneClickEnds == ASSUME OneClick, Ends PROVE OneClick' /\ (Clicked' => Clicked)
<1>1. queue' = queue /\ op' = "none" /\ (busy /\ op \notin ClickOps => busy')
  BY DEF Ends
<1>2. Clicked' <=> Clicked
  BY <1>1 DEF Clicked, Queued
<1>3. op' \notin ClickOps
  BY <1>1 DEF ClickOps
<1>4. QED BY <1>1, <1>2, <1>3 DEF OneClick

(* What is added to the queue is the only click, or none.                   *)
LEMMA OneClickAdded ==
  ASSUME OneClick, NEW o \in Operations, queue' = Append(queue, o), op' = op,
         \/ o \notin ClickOps /\ busy' = busy
         \/ o \in ClickOps /\ ~busy /\ busy'
  PROVE  OneClick' /\ \A x : Queued(x)' => Queued(x) \/ x = o
<1>1. queue \in Seq(Operations) /\ queue' \in Seq(Operations) /\ Len(queue') = Len(queue) + 1
      /\ Len(queue) \in Nat
  BY DEF OneClick
<1>2. \A i \in 1 .. Len(queue) : queue'[i] = queue[i]
  BY <1>1
<1>3. queue'[Len(queue) + 1] = o
  BY <1>1
<1>4. \A i \in 1 .. Len(queue') : i \in 1 .. Len(queue) \/ i = Len(queue) + 1
  BY <1>1
<1>5. \A x : Queued(x)' => Queued(x) \/ x = o
  BY <1>2, <1>3, <1>4 DEF Queued
<1>6. ASSUME o \notin ClickOps, busy' = busy PROVE OneClick'
  <2>1. \A i \in 1 .. Len(queue') : queue'[i] \in ClickOps => i \in 1 .. Len(queue) /\ queue[i] \in ClickOps
    BY <1>2, <1>3, <1>4, <1>6
  <2>2. \A i, j \in 1 .. Len(queue') : queue'[i] \in ClickOps /\ queue'[j] \in ClickOps => i = j
    BY <2>1 DEF OneClick
  <2>3. Clicked' => Clicked
    BY <1>5, <1>6 DEF Clicked
  <2>4. QED BY <1>1, <1>6, <2>2, <2>3 DEF OneClick
<1>7. ASSUME o \in ClickOps, ~busy, busy' PROVE OneClick'
  <2>1. ~Clicked /\ op \notin ClickOps
    BY <1>7 DEF OneClick
  <2>2. \A i \in 1 .. Len(queue) : queue[i] \notin ClickOps
    BY <2>1 DEF Clicked, Queued
  <2>3. \A i \in 1 .. Len(queue') : queue'[i] \in ClickOps => i = Len(queue) + 1
    BY <1>2, <1>4, <2>2
  <2>4. \A i, j \in 1 .. Len(queue') : queue'[i] \in ClickOps /\ queue'[j] \in ClickOps => i = j
    BY <2>3
  <2>5. QED BY <1>1, <1>7, <2>1, <2>4 DEF OneClick
<1>8. QED BY <1>5, <1>6, <1>7

(* What is taken off the queue may be the click, which stays the only one.  *)
LEMMA OneClickStarts ==
  ASSUME OneClick, op = "none", queue # <<>>, queue' = Tail(queue),
         \/ op' = Head(queue) /\ busy' = busy
         \/ op' = "none" /\ (busy /\ Head(queue) # "disconnect" => busy') /\ Head(queue) \notin {"create", "join"}
  PROVE  /\ OneClick' /\ Queued(Head(queue)) /\ \A x : Queued(x)' => Queued(x)
         /\ Head(queue) \in Operations
<1>1. queue \in Seq(Operations) /\ queue' \in Seq(Operations) /\ Len(queue) \in Nat \ {0}
      /\ Len(queue') = Len(queue) - 1 /\ Head(queue) = queue[1] /\ Head(queue) \in Operations
  BY DEF OneClick
<1>2. \A i \in 1 .. Len(queue') : i + 1 \in 1 .. Len(queue) /\ queue'[i] = queue[i + 1]
  BY <1>1
<1>3. Queued(Head(queue))
  BY <1>1 DEF Queued
<1>4. \A x : Queued(x)' => Queued(x)
  BY <1>2 DEF Queued
<1>5. Clicked' => Clicked
  BY <1>4 DEF Clicked
<1>6. \A i, j \in 1 .. Len(queue') : queue'[i] \in ClickOps /\ queue'[j] \in ClickOps => i = j
  <2> SUFFICES ASSUME NEW i \in 1 .. Len(queue'), NEW j \in 1 .. Len(queue'),
                      queue'[i] \in ClickOps, queue'[j] \in ClickOps
               PROVE  i = j
    OBVIOUS
  <2>1. i + 1 = j + 1
    BY <1>2 DEF OneClick
  <2>2. QED BY <1>1, <2>1
<1>7. Head(queue) \in ClickOps => ~Clicked' /\ busy
  <2>1. ASSUME Head(queue) \in ClickOps, NEW i \in 1 .. Len(queue'), queue'[i] \in ClickOps PROVE FALSE
    <3>1. i + 1 = 1
      BY <1>1, <1>2, <2>1 DEF OneClick
    <3>2. QED BY <1>1, <3>1
  <2>2. Head(queue) \in ClickOps => Clicked
    BY <1>3 DEF Clicked
  <2>3. QED BY <2>1, <2>2 DEF Clicked, Queued, OneClick
<1>8. Clicked' => busy' /\ op' \notin ClickOps
  BY <1>5, <1>7 DEF OneClick, ClickOps
<1>9. op' \in ClickOps => busy'
  BY <1>7 DEF ClickOps
<1>10. QED BY <1>1, <1>3, <1>4, <1>6, <1>8, <1>9 DEF OneClick
-----------------------------------------------------------------------------
(* An operation that ends, with its record or without it.                   *)
LEMMA Ended ==
  ASSUME IInv, Ends, ready' => ready, memo' = memo, disk' = disk \/ memo.kind # "empty"
  PROVE  StepFits' /\ OneClick' /\ Usable'
<1>1. OneClick' /\ (Clicked' => Clicked)
  BY OneClickEnds DEF IInv
<1>2. step' = "none" /\ queue' = queue
  BY DEF Ends
<1>3. StepFits'
  BY <1>2 DEF StepFits
<1>4. Queued("join")' => Queued("join")
  BY <1>2 DEF Queued
<1>5. Usable'
  BY <1>1, <1>2, <1>4 DEF IInv, Usable
<1>6. QED BY <1>1, <1>3, <1>5

(* A call after which the operation goes on.                                *)
LEMMA GoesOn ==
  ASSUME IInv, QueueKept, ready' => ready, step' \notin {"make", "invite"}, memo'.kind # "none",
         memo.kind # "empty" \/ step \in {"make", "invite"}, memo'.kind # "empty" \/ disk' = Empty,
         Queued("join") => memo'.kind \in {"empty", "revoking"}
  PROVE  OneClick' /\ Usable'
<1>1. OneClick' /\ (Clicked' => Clicked)
  BY OneClickKept DEF IInv
<1>2. Queued("join")' => Queued("join")
  BY DEF QueueKept, Queued
<1>3. Usable'
  BY <1>1, <1>2 DEF Usable
<1>4. QED BY <1>1, <1>3

(* Only while no pairing is in use is a join waiting.                       *)
LEMMA NoJoin == ASSUME IInv, memo.kind = "active" PROVE ~Queued("join")
BY DEF IInv, Usable

(* A step that changes nothing of this.                                     *)
LEMMA StandsStill ==
  ASSUME IInv, UNCHANGED <<disk, memo, ref, saved, retired, leaves, native, legacy, relay>>,
         UNCHANGED <<op, step, erased, queue, busy, ready>>
  PROVE  IInv'
<1>1. RecordInv'
  BY Quiet DEF IInv
<1>2. StepFits'
  BY DEF IInv, StepFits, Gone, Ever
<1>3. OneClick' /\ Usable'
  BY OneClickKept DEF IInv, QueueKept, Usable, Clicked, Queued
<1>4. QED BY <1>1, <1>2, <1>3 DEF IInv

-----------------------------------------------------------------------------
(* One lemma for each action.                                               *)

(* Clicks wait in the queue, a join only while nothing is paired.           *)
LEMMA ClickSteps == ASSUME IInv, Clicks PROVE IInv'
<1>1. UNCHANGED <<disk, memo, ref, saved, retired, leaves, native, legacy, relay>> /\ UNCHANGED <<op, step, erased, ready>>
  BY DEF Clicks, CreateClicked, JoinClicked, DisconnectClicked, durable
<1>2. RecordInv'
  BY <1>1, Quiet DEF IInv
<1>3. StepFits'
  BY <1>1 DEF IInv, StepFits, Gone, Ever
<1>4. ready /\ ~busy /\ busy'
  BY DEF Clicks, CreateClicked, JoinClicked, DisconnectClicked
<1>5. PICK o \in ClickOps : queue' = Append(queue, o) /\ (o = "join" => ~Paired)
  BY DEF Clicks, CreateClicked, JoinClicked, DisconnectClicked, Enqueue, ClickOps
<1>6. o \in Operations
  BY DEF ClickOps, Operations
<1>7. OneClick' /\ \A x : Queued(x)' => Queued(x) \/ x = o
  BY <1>1, <1>4, <1>5, <1>6, OneClickAdded DEF IInv
<1>8. o = "join" => memo.kind \in {"empty", "revoking"}
  <2>1. memo.kind # "none" /\ (memo.kind = "active" => ref # NoPairing)
    <3>1. memo.kind = "active" => ref.rel \in Rels
      BY DEF IInv, RecordInv, Agrees, Shape
    <3>2. QED BY <1>4, <3>1, RecordParts, RelFacts DEF IInv, Usable
  <2>2. o = "join" => memo.kind # "active"
    BY <1>5, <2>1 DEF Paired
  <2>3. QED BY <2>1, <2>2, RecordParts DEF IInv, RecordInv, Agrees
<1>9. Usable'
  BY <1>1, <1>4, <1>7, <1>8 DEF IInv, Usable
<1>10. QED BY <1>2, <1>3, <1>7, <1>9 DEF IInv

(* Timers and the reload add to the queue what the user did not click.      *)
LEMMA TimerSteps == ASSUME IInv, RetryTick \/ SyncTick \/ Authorize PROVE IInv'
<1>1. /\ UNCHANGED <<disk, memo, ref, saved, retired, leaves, native, legacy, relay>>
      /\ UNCHANGED <<op, step, erased, ready, busy>>
  BY DEF RetryTick, SyncTick, Authorize, durable, flags
<1>2. RecordInv'
  BY <1>1, Quiet DEF IInv
<1>3. StepFits'
  BY <1>1 DEF IInv, StepFits, Gone, Ever
<1>4. PICK o \in {"retry", "sync", "load"} : queue' = Append(queue, o)
  BY DEF RetryTick, SyncTick, Authorize, Enqueue
<1>5. o \in Operations /\ o \notin ClickOps
  BY DEF ClickOps, Operations
<1>6. OneClick' /\ \A x : Queued(x)' => Queued(x) \/ x = o
  BY <1>1, <1>4, <1>5, OneClickAdded DEF IInv
<1>7. Clicked' => Clicked
  BY <1>5, <1>6 DEF Clicked
<1>8. Usable'
  BY <1>1, <1>6, <1>7 DEF IInv, Usable
<1>9. QED BY <1>2, <1>3, <1>6, <1>8 DEF IInv

(* An operation starts with what its first step relies on.                  *)
LEMMA StartStep == ASSUME IInv, Start PROVE IInv'
<1>1. UNCHANGED <<disk, memo, ref, saved, retired, leaves, native, legacy, relay>> /\ UNCHANGED <<erased, ready>>
  BY DEF Start, durable
<1>2. RecordInv'
  BY <1>1, Quiet DEF IInv
<1> DEFINE o == Head(queue)
<1>3. /\ op = "none" /\ queue # <<>> /\ queue' = Tail(queue) /\ step' = FirstStep(o)
      /\ \/ step' = "none" /\ op' = "none" /\ (busy /\ o # "disconnect" => busy')
         \/ step' # "none" /\ op' = o /\ busy' = busy
  BY DEF Start
<1>4. /\ o = "load" => step' = "read"
      /\ o = "create" => step' = IF Paired THEN "begin" ELSE "make"
      /\ o = "join" => step' = "invite"
      /\ o = "disconnect" => step' = IF Paired THEN "begin" ELSE "none"
      /\ o = "retry" => step' = IF memo.kind = "revoking" THEN "forget" ELSE "none"
      /\ o = "sync" => step' \in (IF Paired THEN {"contact", "init", "register", "none"} ELSE {"none"})
  BY <1>3 DEF FirstStep, RetryStep
<1>5. /\ OneClick' /\ Queued(o) /\ \A x : Queued(x)' => Queued(x)
      /\ o \in Operations
  <2>1. step' = "none" => o \notin {"create", "join"}
    BY <1>4
  <2>2. QED BY <1>3, <2>1, OneClickStarts DEF IInv
<1> HIDE DEF o
<1>6. Paired => memo.kind = "active"
  BY DEF Paired, IInv, RecordInv, Agrees
<1>7. ~Paired => memo.kind # "active"
  <2>1. memo.kind = "active" => ref.rel \in Rels
    BY DEF IInv, RecordInv, Agrees, Shape
  <2>2. QED BY <2>1, RecordParts, RelFacts DEF Paired
<1>8. o \in {"load", "create", "join", "disconnect", "retry", "sync"}
  BY <1>5 DEF Operations
<1>9. StepFits'
  BY <1>1, <1>3, <1>4, <1>6, <1>7, <1>8 DEF StepFits
<1>10. /\ step' \in {"make", "invite"} => o \in ClickOps
       /\ step' = "invite" => o = "join"
  BY <1>4, <1>8 DEF ClickOps
<1>11. Clicked' => Clicked
  BY <1>5 DEF Clicked
<1>12. o \in ClickOps => Clicked
  BY <1>5 DEF Clicked
<1>13. Usable'
  BY <1>1, <1>5, <1>10, <1>11, <1>12 DEF IInv, Usable
<1>14. QED BY <1>2, <1>5, <1>9, <1>13 DEF IInv
(* A load, which finds no pairing while a join is waiting.                  *)
LEMMA LoadSteps == ASSUME IInv, Load \/ LoadFails PROVE IInv'
<1>1. CASE Load
  <2>1. /\ disk' = Restored /\ memo' = Restored /\ saved' = saved \cup ({Restored.pairing.rel} \ {None})
        /\ ref' = IF Restored.kind = "active" THEN Restored.pairing ELSE NoPairing
        /\ legacy' = None /\ UNCHANGED <<retired, leaves, native, relay>>
    BY <1>1 DEF Load, Reread
  <2>2. RecordInv'
    BY <2>1, LoadRecord DEF IInv
  <2>3. step = "read" /\ End /\ busy' = busy
    BY <1>1 DEF Load
  <2>4. step' = "none" /\ op' = "none" /\ queue' = queue
    BY <2>3 DEF End
  <2>5. StepFits'
    BY <2>4 DEF StepFits
  <2>6. Clicked' <=> Clicked
    BY <2>4 DEF Clicked, Queued
  <2>7. OneClick'
    BY <2>3, <2>4, <2>6 DEF IInv, OneClick, ClickOps
  <2>8. Restored.kind # "none" /\ (Restored.kind = "empty" => Restored = Empty)
    BY RestoredFacts, RecordParts DEF IInv, RecordInv, Known
  <2>9. Queued("join") => Restored.kind \in {"empty", "revoking"}
    <3>1. Queued("join") => memo.kind \in {"empty", "revoking"} /\ Clicked
      BY DEF IInv, Usable, Clicked, ClickOps
    <3>2. Queued("join") => disk.kind \in {"empty", "revoking"}
      BY <3>1, RecordParts DEF IInv, Usable, RecordInv, Agrees
    <3>3. QED BY <3>2, RestoredFacts, RecordParts DEF IInv, RecordInv
  <2>10. Queued("join")' => Queued("join")
    BY <2>4 DEF Queued
  <2>11. Usable'
    BY <2>1, <2>4, <2>8, <2>9, <2>10 DEF Usable
  <2>12. QED BY <2>2, <2>5, <2>7, <2>11 DEF IInv
<1>2. CASE LoadFails
  <2>1. /\ disk' \in {disk, Restored} /\ memo' = memo /\ ref' = ref
        /\ saved' = IF disk' = disk THEN saved ELSE saved \cup ({Restored.pairing.rel} \ {None})
        /\ UNCHANGED <<legacy, retired, leaves, native, relay>> /\ Failed
    BY <1>2 DEF LoadFails
  <2>2. RecordInv'
    BY <2>1, LoadRecord DEF IInv
  <2>3. Ends /\ (ready' => ready)
    BY <2>1, EndsFacts
  <2>4. disk' = disk \/ memo.kind # "empty"
    <3>1. disk # NoRecord => Restored = disk
      BY RestoredFacts DEF IInv, RecordInv
    <3>2. QED BY <2>1, <3>1 DEF IInv, RecordInv, Agrees
  <2>5. QED BY <2>1, <2>2, <2>3, <2>4, Ended DEF IInv
<1>3. QED BY <1>1, <1>2

(* Leaving: the record is marked, or the app stops.                         *)
LEMMA BeginSteps == ASSUME IInv, BeginRevocation \/ BeginRevocationFails PROVE IInv'
<1>1. memo.kind = "active" /\ memo.pairing = ref /\ step = "begin" /\ memo # Revoking(ref.rel)
  <2>1. step = "begin"
    BY DEF BeginRevocation, BeginRevocationFails
  <2>2. QED BY <2>1, RecordParts DEF IInv, StepFits, RecordInv, Agrees
<1>2. CASE BeginRevocation
  <2>1. /\ memo' = Revoking(ref.rel) /\ disk' = Revoking(ref.rel) /\ ref' = NoPairing /\ legacy' = None
        /\ UNCHANGED <<saved, retired, leaves, native, relay>> /\ Goto("forget") /\ busy' = busy /\ ready' = ready
    BY <1>1, <1>2, WriteFacts DEF BeginRevocation
  <2>2. RecordInv'
    BY <1>1, <2>1, BeginRecord DEF IInv
  <2>3. step' = "forget" /\ QueueKept
    BY <2>1 DEF Goto, QueueKept
  <2>4. StepFits'
    BY <1>1, <2>1, <2>3, RecordParts DEF IInv, StepFits, QueueKept
  <2>5. OneClick' /\ Usable'
    BY <1>1, <2>1, <2>3, NoJoin, GoesOn, RecordParts
  <2>6. QED BY <2>2, <2>4, <2>5 DEF IInv
<1>3. CASE BeginRevocationFails
  <2>1. /\ memo' = memo /\ disk' \in {disk, Revoking(ref.rel)} /\ ref' = ref
        /\ UNCHANGED <<saved, retired, leaves, native, legacy, relay>> /\ (Failed \/ StorageFailed)
    BY <1>1, <1>3, WriteFacts DEF BeginRevocationFails
  <2>2. RecordInv'
    BY <1>1, <2>1, BeginRecord DEF IInv
  <2>3. Ends /\ (ready' => ready)
    BY <2>1, EndsFacts
  <2>4. QED BY <1>1, <2>1, <2>2, <2>3, Ended DEF IInv
<1>4. QED BY <1>2, <1>3

(* The native session is erased, or it may be.                              *)
LEMMA ForgetSteps == ASSUME IInv, Ledger, Forget \/ ForgetFails PROVE IInv'
<1>1. step = "forget" /\ memo.kind = "revoking"
  <2>1. step = "forget"
    BY DEF Forget, ForgetFails
  <2>2. QED BY <2>1 DEF IInv, StepFits
<1>2. UNCHANGED <<disk, memo, ref, saved, legacy, relay>>
  BY DEF Forget, ForgetFails
<1>3. CASE Forget
  <2>1. RecordInv' /\ native' # memo.pairing.rel /\ memo.pairing.rel \in Ever'
    BY <1>1, <1>2, <1>3, ForgetRecord DEF IInv, Forget
  <2>2. step' = (IF op = "sync" THEN "complete" ELSE "revoke") /\ QueueKept /\ ready' = ready
    BY <1>3 DEF Forget, Goto, QueueKept, flags
  <2>3. StepFits'
    BY <1>1, <1>2, <2>1, <2>2 DEF IInv, StepFits, QueueKept, Gone
  <2>4. Queued("join") => memo'.kind \in {"empty", "revoking"}
    BY <1>1, <1>2
  <2>5. OneClick' /\ Usable'
    BY <1>1, <1>2, <2>2, <2>4, GoesOn
  <2>6. QED BY <2>1, <2>3, <2>5 DEF IInv
<1>4. CASE ForgetFails
  <2>1. RecordInv'
    <3>1. CASE Forgotten
      BY <1>1, <1>2, <3>1, ForgetRecord DEF IInv
    <3>2. CASE UNCHANGED <<native, retired, leaves>>
      BY <1>2, <3>2, Quiet DEF IInv
    <3>3. QED BY <1>4, <3>1, <3>2 DEF ForgetFails
  <2>2. CASE Failed
    <3>1. Ends /\ (ready' => ready)
      BY <2>2, EndsFacts
    <3>2. QED BY <1>2, <2>1, <3>1, Ended DEF IInv
  <2>3. CASE Goto("revoke") /\ UNCHANGED <<blocked, ready, locked, busy>>
    <3>1. step' = "revoke" /\ QueueKept /\ ready' = ready
      BY <2>3 DEF Goto, QueueKept
    <3>2. ~erased'
      BY <1>4 DEF ForgetFails
    <3>3. StepFits'
      BY <1>1, <1>2, <3>1, <3>2 DEF StepFits
    <3>4. OneClick' /\ Usable'
      BY <1>1, <1>2, <3>1, GoesOn
    <3>5. QED BY <2>1, <3>3, <3>4 DEF IInv
  <2>4. QED BY <1>4, <2>2, <2>3 DEF ForgetFails
<1>5. QED BY <1>3, <1>4

(* The relay is told, or may have been.                                     *)
LEMMA RevokeSteps == ASSUME IInv, Revoke \/ RevokeFails PROVE IInv'
<1>1. step = "revoke" /\ memo.kind = "revoking" /\ memo.pairing.rel \in Rels
  <2>1. step = "revoke"
    BY DEF Revoke, RevokeFails
  <2>2. memo.kind = "revoking"
    BY <2>1 DEF IInv, StepFits
  <2>3. QED BY <2>1, <2>2 DEF IInv, RecordInv, Agrees, Shape
<1>2. UNCHANGED <<disk, memo, ref, saved, retired, leaves, native, legacy>>
  BY DEF Revoke, RevokeFails, durable
<1>3. RevokeAtRelay \/ relay' = relay
  BY DEF Revoke, RevokeFails
<1>4. RecordInv'
  <2>1. relay' \in [Rels -> {"unknown", "open", "revoked"}]
    BY <1>1, <1>3 DEF RevokeAtRelay, IInv, RecordInv, Shape
  <2>2. \A r \in Rels : relay'[r] = relay[r] \/ relay'[r] = "revoked"
    BY <1>1, <1>3 DEF RevokeAtRelay, IInv, RecordInv, Shape
  <2>3. QED BY <1>2, <2>1, <2>2, RelFacts, AtRelay DEF IInv
<1>5. CASE Failed \/ RelayFailed
  <2>1. Ends /\ (ready' => ready)
    BY <1>5, EndsFacts
  <2>2. QED BY <1>2, <1>4, <2>1, Ended DEF IInv
<1>6. CASE Revoke /\ erased /\ Goto("complete") /\ UNCHANGED <<blocked, ready, locked, busy>>
  <2>1. step' = "complete" /\ QueueKept /\ ready' = ready
    BY <1>6 DEF Goto, QueueKept
  <2>2. relay'[memo.pairing.rel] = "revoked"
    BY <1>1, <1>6 DEF Revoke, RevokeAtRelay, IInv, RecordInv, Shape
  <2>3. StepFits'
    BY <1>1, <1>2, <1>6, <2>1, <2>2 DEF IInv, StepFits, Gone, QueueKept, Ever
  <2>4. OneClick' /\ Usable'
    BY <1>1, <1>2, <2>1, GoesOn
  <2>5. QED BY <1>4, <2>3, <2>4 DEF IInv
<1>7. QED BY <1>5, <1>6 DEF Revoke, RevokeFails

(* The record is cleared, or may have been.                                 *)
LEMMA CompleteSteps == ASSUME IInv, CompleteRevocation \/ CompleteRevocationFails PROVE IInv'
<1>1. step = "complete" /\ memo.kind = "revoking" /\ Gone(memo.pairing.rel) /\ memo # Empty
  <2>1. step = "complete"
    BY DEF CompleteRevocation, CompleteRevocationFails
  <2>2. QED BY <2>1, RecordParts DEF IInv, StepFits
<1>2. UNCHANGED <<ref, saved, retired, leaves, native, legacy, relay>>
  BY DEF CompleteRevocation, CompleteRevocationFails
<1>3. CASE CompleteRevocation
  <2>1. memo' = Empty /\ disk' = Empty /\ ready' = ready
    BY <1>1, <1>3, WriteFacts DEF CompleteRevocation
  <2>2. RecordInv'
    BY <1>1, <1>2, <2>1, CompleteRecord DEF IInv
  <2>3. memo'.kind = "empty"
    BY <2>1, RecordParts
  <2>4. \/ op = "create" /\ step' = "make" /\ QueueKept
        \/ Ends
    BY <1>3, EndsFacts DEF CompleteRevocation, Goto, QueueKept
  <2>5. OneClick' /\ (Clicked' => Clicked) /\ queue' = queue
    BY <2>4, OneClickKept, OneClickEnds DEF IInv, QueueKept, Ends
  <2>6. StepFits'
    BY <2>3, <2>4 DEF StepFits, QueueKept, Ends
  <2>7. Usable'
    BY <2>1, <2>3, <2>4 DEF Usable, Ends
  <2>8. QED BY <2>2, <2>5, <2>6, <2>7 DEF IInv
<1>4. CASE CompleteRevocationFails
  <2>1. memo' = memo /\ disk' \in {disk, Empty} /\ Failed
    BY <1>4, WriteFacts DEF CompleteRevocationFails
  <2>2. RecordInv'
    BY <1>1, <1>2, <2>1, CompleteRecord DEF IInv
  <2>3. Ends /\ (ready' => ready)
    BY <2>1, EndsFacts
  <2>4. QED BY <1>1, <2>1, <2>2, <2>3, Ended DEF IInv
<1>5. QED BY <1>3, <1>4
(* A new relationship is saved, or may have been.                           *)
LEMMA SaveNewSteps == ASSUME IInv, NEW r \in Rels, SaveNew(r) \/ SaveNewFails(r) PROVE IInv'
<1>1. step \in {"make", "invite"} /\ r \notin saved /\ op \in ClickOps
  BY DEF SaveNew, SaveNewFails, Fresh, IInv, StepFits, ClickOps
<1>2. /\ NewPairing(r) \in AnyPairing /\ NewPairing(r).rel = r
      /\ UNCHANGED <<retired, leaves, native, legacy, relay>>
  BY SavedPairings DEF IInv, RecordInv, SaveNew, SaveNewFails
<1>3. memo.kind \notin {"active"}
  BY <1>1 DEF IInv, StepFits, Usable
<1>4. ~Clicked /\ ~Queued("join")
  BY <1>1 DEF IInv, OneClick, Clicked, ClickOps
<1>5. CASE SaveNew(r)
  <2>1. memo.kind = "empty" /\ disk = Empty
    BY <1>1, <1>3, <1>5 DEF SaveNew, Saved, IInv, Usable
  <2>2. memo # Active(NewPairing(r))
    BY <2>1, RecordParts
  <2>3. /\ memo' = Active(NewPairing(r)) /\ disk' = Active(NewPairing(r)) /\ ref' = NewPairing(r)
        /\ saved' = saved \cup {NewPairing(r).rel}
    BY <1>5, <2>2, WriteFacts DEF SaveNew, Saved
  <2>4. RecordInv'
    BY <1>1, <1>2, <2>1, <2>3, SavedNew DEF IInv
  <2>5. step' = "init" /\ QueueKept /\ ready' = ready
    BY <1>5 DEF SaveNew, Goto, QueueKept, flags
  <2>6. memo'.kind = "active"
    BY <2>3, RecordParts
  <2>7. StepFits'
    BY <2>5, <2>6 DEF StepFits
  <2>8. OneClick' /\ Usable'
    BY <1>1, <1>4, <2>5, <2>6, GoesOn
  <2>9. QED BY <2>4, <2>7, <2>8 DEF IInv
<1>6. CASE SaveNewFails(r)
  <2>1. /\ memo' = memo /\ ref' = ref /\ StorageFailed
        /\ \/ disk' = disk
           \/ memo.kind = "empty" /\ disk' = Active(NewPairing(r))
        /\ saved' = IF disk' = Active(NewPairing(r)) THEN saved \cup {NewPairing(r).rel} ELSE saved
    BY <1>3, <1>6, WriteFacts DEF SaveNewFails, NotSaved
  <2>2. disk # Active(NewPairing(r))
    BY <1>1, <1>2, RecordParts DEF IInv, RecordInv, Known
  <2>3. memo.kind = "empty" => disk = Empty
    BY <1>1 DEF IInv, Usable
  <2>4. RecordInv'
    <3>1. CASE disk' = disk
      BY <1>2, <2>1, <2>2, <3>1, Quiet DEF IInv
    <3>2. CASE disk' # disk
      BY <1>1, <1>2, <2>1, <2>3, <3>2, SavedNew DEF IInv
    <3>3. QED BY <3>1, <3>2
  <2>5. Ends /\ ~ready'
    BY <2>1, EndsFacts DEF StorageFailed
  <2>6. OneClick' /\ ~Clicked' /\ queue' = queue /\ step' = "none"
    BY <1>4, <2>5, OneClickEnds DEF IInv, Ends
  <2>7. StepFits'
    BY <2>6 DEF StepFits
  <2>8. Usable'
    BY <1>4, <2>5, <2>6 DEF Usable, Queued
  <2>9. QED BY <2>4, <2>6, <2>7, <2>8 DEF IInv
<1>7. QED BY <1>5, <1>6

(* The pairing in use is saved with a change, and the operation goes on.    *)
LEMMA SavedGoesOn ==
  ASSUME IInv, memo.kind = "active", NEW p \in AnyPairing, p.rel = ref.rel, Saved(p),
         UNCHANGED <<retired, leaves, native, legacy, relay>>, ready' => ready,
         \/ QueueKept /\ step' \in {"register", "contact"}
         \/ Ends
  PROVE  IInv'
<1>1. /\ memo' = Active(p) /\ ref' = p /\ disk' \in {disk, Active(p)} /\ saved' = saved \cup {p.rel}
  BY WriteFacts DEF Saved
<1>2. RecordInv'
  BY <1>1, SavedAgain DEF IInv
<1>3. memo'.kind = "active" /\ ~Queued("join")
  BY <1>1, NoJoin, RecordParts
<1>4. OneClick' /\ (Clicked' => Clicked) /\ queue' = queue
  BY OneClickKept, OneClickEnds DEF IInv, QueueKept, Ends
<1>5. step' \in {"register", "contact", "none"}
  BY DEF Ends
<1>6. StepFits'
  BY <1>3, <1>5 DEF StepFits
<1>7. Usable'
  BY <1>3, <1>4, <1>5 DEF Usable, Queued
<1>8. QED BY <1>2, <1>4, <1>6, <1>7 DEF IInv

(* Or the save fails and ends the operation.                                *)
LEMMA NotSavedEnds ==
  ASSUME IInv, memo.kind = "active", NEW p \in AnyPairing, p.rel = ref.rel, NotSaved(p),
         UNCHANGED <<retired, leaves, native, legacy, relay>>
  PROVE  IInv'
<1>1. /\ memo' = memo /\ ref' = ref /\ disk' \in {disk, Active(p)} /\ StorageFailed
      /\ saved' \in {saved, saved \cup {p.rel}}
  BY WriteFacts DEF NotSaved
<1>2. RecordInv'
  BY <1>1, NotSavedAgain DEF IInv
<1>3. Ends /\ (ready' => ready)
  BY <1>1, EndsFacts
<1>4. QED BY <1>1, <1>2, <1>3, Ended DEF IInv

(* The saves of the pairing in use, in every operation that has one.        *)
LEMMA SaveAgainSteps ==
  ASSUME IInv, SavePrepared \/ SavePreparedFails \/ SaveRegistered \/ SaveRegisteredFails \/ ContactNotSaved
  PROVE  IInv'
<1>1. memo.kind = "active" /\ UNCHANGED <<retired, leaves, native, legacy, relay>>
  BY DEF SavePrepared, SavePreparedFails, SaveRegistered, SaveRegisteredFails, ContactNotSaved,
         IInv, StepFits
<1>2. /\ Prepared \in AnyPairing /\ Prepared.rel = ref.rel
      /\ Joined \in AnyPairing /\ Joined.rel = ref.rel
      /\ [ref EXCEPT !.partner = TRUE] \in AnyPairing /\ [ref EXCEPT !.partner = TRUE].rel = ref.rel
  BY SavedPairings DEF IInv, RecordInv
<1>3. CASE SavePrepared
  BY <1>1, <1>2, <1>3, SavedGoesOn DEF SavePrepared, Goto, QueueKept, flags
<1>4. CASE SaveRegistered
  <2>1. Saved(Joined) /\ ready' = ready
    BY <1>4 DEF SaveRegistered
  <2>2. \/ QueueKept /\ step' \in {"register", "contact"}
        \/ Ends
    BY <1>4, EndsFacts DEF SaveRegistered, Goto, QueueKept
  <2>3. QED BY <1>1, <1>2, <2>1, <2>2, SavedGoesOn
<1>5. CASE SavePreparedFails
  BY <1>1, <1>2, <1>5, NotSavedEnds DEF SavePreparedFails
<1>6. CASE SaveRegisteredFails
  BY <1>1, <1>2, <1>6, NotSavedEnds DEF SaveRegisteredFails
<1>7. CASE ContactNotSaved
  BY <1>1, <1>2, <1>7, NotSavedEnds DEF ContactNotSaved
<1>8. QED BY <1>3, <1>4, <1>5, <1>6, <1>7

(* The native session is made, or may have been.                            *)
LEMMA InitSteps == ASSUME IInv, InitRatchet \/ InitRatchetFails PROVE IInv'
<1>1. memo.kind = "active" /\ UNCHANGED <<disk, memo, ref, saved, retired, leaves, legacy, relay>>
      /\ native' \in {native, ref.rel}
  BY DEF InitRatchet, InitRatchetFails, IInv, StepFits
<1>2. RecordInv'
  BY <1>1, InitRecord DEF IInv
<1>3. CASE InitRatchet
  <2>1. step' \in {"register", "prepare"} /\ QueueKept /\ ready' = ready
    BY <1>3 DEF InitRatchet, Goto, QueueKept, flags
  <2>2. StepFits'
    BY <1>1, <2>1 DEF StepFits
  <2>3. OneClick' /\ Usable'
    BY <1>1, <2>1, NoJoin, GoesOn
  <2>4. QED BY <1>2, <2>2, <2>3 DEF IInv
<1>4. CASE InitRatchetFails
  <2>1. Ends /\ (ready' => ready)
    BY <1>4, EndsFacts DEF InitRatchetFails
  <2>2. QED BY <1>1, <1>2, <2>1, Ended DEF IInv
<1>5. QED BY <1>3, <1>4

(* The relay is asked to register the relationship on record.               *)
LEMMA RegisterSteps == ASSUME IInv, Register \/ RegisterFails \/ RegisterRefused PROVE IInv'
<1>1. memo.kind = "active" /\ UNCHANGED <<disk, memo, ref, saved, retired, leaves, native, legacy>>
  BY DEF Register, RegisterFails, RegisterRefused, durable, IInv, StepFits
<1>2. ref.rel \in Rels /\ disk.pairing.rel = ref.rel
  BY <1>1 DEF IInv, RecordInv, Agrees, Shape
<1>3. relay' = relay \/ (relay[ref.rel] # "revoked" /\ relay' = [relay EXCEPT ![ref.rel] = "open"])
  BY DEF Register, RegisterFails, RegisterRefused
<1>4. RecordInv'
  <2>1. relay' \in [Rels -> {"unknown", "open", "revoked"}]
    BY <1>3 DEF IInv, RecordInv, Shape
  <2>2. \A r \in Rels : relay[r] = "revoked" => relay'[r] = "revoked"
    BY <1>3 DEF IInv, RecordInv, Shape
  <2>3. \A r \in Own : relay'[r] = "open" => relay[r] = "open" \/ disk.pairing.rel = r
    BY <1>2, <1>3, RelFacts DEF IInv, RecordInv, Shape
  <2>4. QED BY <1>1, <2>1, <2>2, <2>3, AtRelay DEF IInv
<1>5. CASE RelayFailed
  <2>1. Ends /\ (ready' => ready)
    BY <1>5, EndsFacts
  <2>2. QED BY <1>1, <1>4, <2>1, Ended DEF IInv
<1>6. CASE Register
  <2>1. step' = "registered" /\ QueueKept /\ ready' = ready
    BY <1>6 DEF Register, Goto, QueueKept, flags
  <2>2. StepFits'
    BY <1>1, <2>1 DEF StepFits
  <2>3. OneClick' /\ Usable'
    BY <1>1, <2>1, NoJoin, GoesOn
  <2>4. QED BY <1>4, <2>2, <2>3 DEF IInv
<1>7. CASE RegisterRefused /\ op = "sync" /\ Goto("begin") /\ UNCHANGED <<ready, locked, busy>>
  <2>1. step' = "begin" /\ QueueKept /\ ready' = ready
    BY <1>7 DEF Goto, QueueKept
  <2>2. relay'[ref'.rel] = "revoked"
    BY <1>1, <1>7 DEF RegisterRefused
  <2>3. StepFits'
    BY <1>1, <2>1, <2>2 DEF StepFits
  <2>4. OneClick' /\ Usable'
    BY <1>1, <2>1, NoJoin, GoesOn
  <2>5. QED BY <1>4, <2>3, <2>4 DEF IInv
<1>8. QED BY <1>5, <1>6, <1>7 DEF Register, RegisterFails, RegisterRefused

(* A sync of the relationship, but for a save that fails.                   *)
LEMMA ContactSteps == ASSUME IInv, Contact \/ ContactFails \/ ContactRefused PROVE IInv'
<1>1. memo.kind = "active" /\ step = "contact"
  BY DEF Contact, ContactFails, ContactRefused, IInv, StepFits
<1>2. CASE Contact
  <2>1. UNCHANGED <<retired, leaves, native, legacy, relay>> /\ ready' = ready /\ busy' = busy /\ End
    BY <1>2 DEF Contact, flags
  <2>2. step' = "none" /\ op' = "none" /\ queue' = queue
    BY <2>1 DEF End
  <2>3. op \notin ClickOps => Ends
    BY <2>1, <2>2 DEF Ends
  <2>4. OneClick' /\ (Clicked' => Clicked)
    BY <2>1, <2>2 DEF IInv, OneClick, Clicked, Queued, ClickOps
  <2>5. RecordInv' /\ memo'.kind = "active"
    <3>1. ASSUME NEW partner \in {ref.partner, TRUE}, Saved([ref EXCEPT !.partner = partner])
          PROVE  RecordInv' /\ memo'.kind = "active"
      <4> DEFINE p == [ref EXCEPT !.partner = partner]
      <4>1. p \in AnyPairing /\ p.rel = ref.rel
        BY SavedPairings DEF IInv, RecordInv
      <4> HIDE DEF p
      <4>2. Saved(p)
        BY <3>1 DEF p
      <4>3. memo' = Active(p) /\ ref' = p /\ disk' \in {disk, Active(p)} /\ saved' = saved \cup {p.rel}
        BY <4>2, WriteFacts DEF Saved
      <4>4. RecordInv'
        BY <1>1, <2>1, <4>1, <4>3, SavedAgain DEF IInv
      <4>5. QED BY <4>3, <4>4, RecordParts
    <3>2. CASE UNCHANGED <<disk, memo, ref, saved>>
      BY <1>1, <2>1, <3>2, Quiet DEF IInv
    <3>3. QED BY <1>2, <3>1, <3>2 DEF Contact
  <2>6. StepFits' /\ ~Queued("join")'
    BY <1>1, <2>2, NoJoin DEF StepFits, Queued
  <2>7. Usable'
    BY <2>2, <2>5, <2>6 DEF Usable
  <2>8. QED BY <2>4, <2>5, <2>6, <2>7 DEF IInv
<1>3. CASE ContactFails
  <2>1. UNCHANGED <<disk, memo, ref, saved, retired, leaves, native, legacy, relay>> /\ Failed
    BY <1>3 DEF ContactFails, durable
  <2>2. RecordInv' /\ Ends /\ (ready' => ready)
    BY <2>1, Quiet, EndsFacts DEF IInv
  <2>3. QED BY <2>1, <2>2, Ended DEF IInv
<1>4. CASE ContactRefused
  <2>1. UNCHANGED <<disk, memo, ref, saved, retired, leaves, native, legacy, relay>> /\ relay[ref.rel] = "revoked"
    BY <1>4 DEF ContactRefused, durable
  <2>2. step' = "begin" /\ QueueKept /\ ready' = ready
    BY <1>4 DEF ContactRefused, Goto, QueueKept
  <2>3. RecordInv' /\ StepFits'
    BY <1>1, <2>1, <2>2, Quiet DEF IInv, StepFits
  <2>4. OneClick' /\ Usable'
    BY <1>1, <2>1, <2>2, NoJoin, GoesOn
  <2>5. QED BY <2>3, <2>4 DEF IInv
<1>5. QED BY <1>2, <1>3, <1>4

(* Nobody answers, or the code was wrong.                                   *)
LEMMA NoInviteStep == ASSUME IInv, NoInvite PROVE IInv'
<1>1. UNCHANGED <<disk, memo, ref, saved, retired, leaves, native, legacy, relay>> /\ RelayFailed
  BY DEF NoInvite, durable
<1>2. RecordInv' /\ Ends /\ (ready' => ready)
  BY <1>1, Quiet, EndsFacts DEF IInv
<1>3. QED BY <1>1, <1>2, Ended DEF IInv

(* Another device opens a relationship, or leaves one.                      *)
LEMMA PartnerSteps == ASSUME IInv, PartnerInvites \/ PartnerRevokes PROVE IInv'
<1>1. /\ UNCHANGED <<disk, memo, ref, saved, retired, leaves, native, legacy>>
      /\ UNCHANGED <<op, step, erased, queue, busy, ready>>
  BY DEF PartnerInvites, PartnerRevokes, durable, flags, running
<1>2. PICK r \in Rels, to \in {"open", "revoked"} :
        /\ relay' = [relay EXCEPT ![r] = to] /\ relay[r] # "revoked"
        /\ to = "open" => r \in Foreign
  BY RelFacts DEF PartnerInvites, PartnerRevokes
<1>3. relay' \in [Rels -> {"unknown", "open", "revoked"}]
  BY <1>2 DEF IInv, RecordInv, Shape
<1>4. \A x \in Rels : relay[x] = "revoked" => relay'[x] = "revoked"
  BY <1>2 DEF IInv, RecordInv, Shape
<1>5. \A x \in Own : relay'[x] = "open" => relay[x] = "open" \/ disk.pairing.rel = x
  BY <1>2, RelFacts DEF IInv, RecordInv, Shape
<1>6. RecordInv'
  BY <1>1, <1>3, <1>4, <1>5, AtRelay DEF IInv
<1>7. memo.kind = "active" => ref.rel \in Rels
  BY DEF IInv, RecordInv, Agrees, Shape
<1>8. memo.kind = "revoking" => memo.pairing.rel \in Rels
  BY DEF IInv, RecordInv, Agrees, Shape
<1>9. StepFits'
  BY <1>1, <1>4, <1>7, <1>8 DEF IInv, StepFits, Gone, Ever
<1>10. OneClick' /\ Usable'
  BY <1>1, OneClickKept DEF IInv, QueueKept, Usable, Clicked, Queued
<1>11. QED BY <1>6, <1>9, <1>10 DEF IInv

(* A restart empties the queue.                                             *)
LEMMA RestartStep == ASSUME IInv, Restart PROVE IInv'
<1>1. memo' = NoRecord /\ ref' = NoPairing /\ UNCHANGED <<disk, saved, retired, leaves, native, legacy, relay>>
  BY DEF Restart, durable
<1>2. RecordInv'
  BY <1>1, RestartRecord DEF IInv
<1>3. queue' = <<"load">> /\ op' = "none" /\ step' = "none" /\ ~ready'
  BY DEF Restart
<1>4. StepFits'
  BY <1>3 DEF StepFits
<1>5. \A x \in ClickOps : ~Queued(x)'
  BY <1>3 DEF ClickOps, Queued
<1>6. OneClick'
  <2>1. queue' \in Seq(Operations) /\ \A i, j \in 1 .. Len(queue') : i = j
    BY <1>3 DEF Operations
  <2>2. QED BY <1>3, <1>5, <2>1 DEF OneClick, Clicked, ClickOps
<1>7. Usable'
  BY <1>3, <1>5 DEF Usable, Clicked, ClickOps
<1>8. QED BY <1>2, <1>4, <1>6, <1>7 DEF IInv

-----------------------------------------------------------------------------
(* The invariant holds at first, and every step keeps it.                   *)
LEMMA InitIInv == Init => IInv
<1> SUFFICES ASSUME Init PROVE IInv
  OBVIOUS
<1>1. /\ disk = NoRecord /\ memo = NoRecord /\ ref = NoPairing /\ native = None /\ saved = {}
      /\ legacy \in {Old, None} /\ queue = <<"load">> /\ op = "none" /\ step = "none" /\ ~ready
      /\ relay = [r \in Rels |-> IF r = Old /\ Upgraded THEN "open" ELSE "unknown"]
      /\ Ever = {}
  BY DEF Init, Ever
<1>2. Shape
  BY <1>1, RecordParts, PairingTypes DEF Shape
<1>3. Known /\ Agrees /\ Session /\ Erased
  BY <1>1, RecordParts DEF Known, Agrees, Session, Erased
<1>4. NoOrphanAtRelay
  BY <1>1, RelFacts DEF NoOrphanAtRelay
<1>5. StepFits
  BY <1>1 DEF StepFits
<1>6. \A x \in ClickOps : ~Queued(x)
  BY <1>1 DEF ClickOps, Queued
<1>7. OneClick
  <2>1. queue \in Seq(Operations) /\ \A i, j \in 1 .. Len(queue) : i = j
    BY <1>1 DEF Operations
  <2>2. QED BY <1>1, <1>6, <2>1 DEF OneClick, Clicked, ClickOps
<1>8. Usable
  BY <1>1, <1>6 DEF Usable, Clicked, ClickOps
<1>9. QED BY <1>2, <1>3, <1>4, <1>5, <1>7, <1>8 DEF IInv, RecordInv

(* One case for each part of Next.                                          *)
LEMMA NextIInv == IInv /\ Ledger /\ [Next]_vars => IInv'
<1> SUFFICES ASSUME IInv, Ledger, [Next]_vars PROVE IInv'
  OBVIOUS
<1>1. CASE Clicks
  BY <1>1, ClickSteps
<1>2. CASE RetryTick \/ SyncTick \/ Authorize
  BY <1>2, TimerSteps
<1>3. CASE Start \/ Load \/ LoadFails
  BY <1>3, StartStep, LoadSteps
<1>4. CASE Leaving
  BY <1>4, BeginSteps, ForgetSteps, RevokeSteps, CompleteSteps DEF Leaving
<1>5. CASE Entering
  BY <1>5, SaveNewSteps, NoInviteStep, InitSteps, SaveAgainSteps, RegisterSteps DEF Entering
<1>6. CASE Syncing
  BY <1>6, ContactSteps, SaveAgainSteps DEF Syncing
<1>7. CASE PartnerInvites \/ PartnerRevokes \/ Restart
  BY <1>7, PartnerSteps, RestartStep
<1>8. CASE UNCHANGED vars
  BY <1>8, StandsStill DEF vars
<1>9. QED
  BY <1>1, <1>2, <1>3, <1>4, <1>5, <1>6, <1>7, <1>8 DEF Next, Queue

(* What was left is remembered in order, over every step.                   *)
LEMMA InitLedger == Init => Ledger
<1> SUFFICES ASSUME Init PROVE Ledger
  OBVIOUS
<1>1. retired = <<>> /\ leaves = <<>>
  BY DEF Init
<1>2. QED BY <1>1, LifecycleAssumption DEF Ledger

LEMMA NextLedger == IInv /\ Ledger /\ [Next]_vars => Ledger'
<1> SUFFICES ASSUME IInv, Ledger, [Next]_vars PROVE Ledger'
  OBVIOUS
<1>1. memo.pairing.rel \in Rels \cup {None}
  BY DEF IInv, RecordInv, Shape, AnyPairing
<1>2. CASE Retire(memo.pairing.rel)
  BY <1>1, <1>2, Retires
<1>3. CASE UNCHANGED <<retired, leaves>>
  BY <1>3 DEF Ledger
<1>4. UNCHANGED <<retired, leaves>> \/ Retire(memo.pairing.rel)
  <2>1. CASE Clicks \/ RetryTick \/ SyncTick \/ Authorize \/ Start \/ Load \/ LoadFails
    BY <2>1, Zenon
    DEF Clicks, CreateClicked, JoinClicked, DisconnectClicked, RetryTick, SyncTick, Authorize, Start, Load,
        LoadFails, durable
  <2>2. CASE Leaving
    BY <2>2, Zenon
    DEF Leaving, BeginRevocation, BeginRevocationFails, Forget, ForgetFails, Forgotten, Revoke, RevokeFails,
        CompleteRevocation, CompleteRevocationFails, durable
  <2>3. CASE Entering
    BY <2>3, Zenon
    DEF Entering, SaveNew, SaveNewFails, NoInvite, InitRatchet, InitRatchetFails, SavePrepared,
        SavePreparedFails, Register, RegisterFails, RegisterRefused, SaveRegistered, SaveRegisteredFails, durable
  <2>4. CASE Syncing
    BY <2>4, Zenon DEF Syncing, Contact, ContactNotSaved, ContactFails, ContactRefused, durable
  <2>5. CASE PartnerInvites \/ PartnerRevokes \/ Restart \/ UNCHANGED vars
    BY <2>5, Zenon DEF PartnerInvites, PartnerRevokes, Restart, durable, vars
  <2>6. QED BY <2>1, <2>2, <2>3, <2>4, <2>5, Zenon DEF Next, Queue
<1>5. QED BY <1>2, <1>3, <1>4

(* The invariant of the record, the steps and the queue, and of what was    *)
(* left, as one theorem.                                                    *)
THEOREM Invariance == Spec => [](IInv /\ Ledger)
<1>1. Init => IInv /\ Ledger
  BY InitIInv, InitLedger
<1>2. IInv /\ Ledger /\ [Next]_vars => (IInv /\ Ledger)'
  BY NextIInv, NextLedger
<1>3. QED BY <1>1, <1>2, PTL DEF Spec

(* Whatever fails on the way and however often the app is restarted, a      *)
(* relationship that is no longer on record is cancelled at the relay,      *)
(* erased from the native session, and refused for as long as fewer than    *)
(* MaxRetired others were left after it.                                    *)
THEOREM Left == Spec => []LeftIsGone
<1>1. IInv /\ Ledger => LeftIsGone
  <2> SUFFICES ASSUME IInv, Ledger, NEW r \in saved, disk.pairing.rel # r
               PROVE  /\ relay[r] = "revoked" /\ native # r
                      /\ \E i \in DOMAIN leaves :
                            leaves[i] = r /\ (i + MaxRetired > Len(leaves) => r \in Remembered)
    BY Zenon DEF LeftIsGone
  <2>1. Gone(r)
    BY Zenon DEF IInv, RecordInv, Erased
  <2>2. QED BY <2>1, LeftRemembered, Zenon DEF Gone
<1>2. QED BY <1>1, Invariance, PTL

(* The relay never keeps a relationship of this device without a record.    *)
THEOREM NoOrphan == Spec => []NoOrphanAtRelay
<1>1. IInv => NoOrphanAtRelay
  BY DEF IInv, RecordInv
<1>2. QED BY <1>1, Invariance, PTL

(* A native session belongs to the relationship on record, and none stands  *)
(* in the way of a new pairing.                                             *)
THEOREM OnRecord == Spec => []SessionOnRecord
<1>1. IInv /\ Ledger => SessionOnRecord
  <2> SUFFICES ASSUME IInv, Ledger PROVE SessionOnRecord
    OBVIOUS
  <2>1. native # None => disk.pairing.rel = native
    BY DEF IInv, RecordInv, Session
  <2>2. step = "init" => ref.rel \in saved \ Ever /\ disk.pairing.rel = ref.rel
    BY DEF IInv, StepFits, RecordInv, Agrees
  <2>3. QED BY <2>1, <2>2, RememberedLeft DEF SessionOnRecord
<1>2. QED BY <1>1, Invariance, PTL

-----------------------------------------------------------------------------
(* Cancellations.  Once one is on disk for a pair this device joined, no    *)
(* save from a pairing still in memory undoes it.  The write of it may be   *)
(* reported as failed and have happened: the app is then blocked until it   *)
(* reads the record again (Stuck), unless the write was that of             *)
(* createPairing, which replaces only pairings of its own (CreatesOwn,      *)
(* Mine).                                                                   *)

(* A pair this device joined has its partner from the first.               *)
Mine ==
  /\ disk.kind = "active" /\ disk.pairing.rel \notin Own => disk.pairing.partner
  /\ memo.kind = "active" /\ ref.rel \notin Own => ref.partner
  /\ disk.kind = "revoking" => disk = Revoking(disk.pairing.rel)

(* The cancellation was written, and reported as failed.                   *)
Halfway == memo.kind = "active" /\ disk.kind = "revoking" /\ ref.rel \notin Own

Stuck == Halfway => blocked /\ ~ready /\ step \in {"none", "read", "begin"}

CreatesOwn ==
  /\ Queued("create") => memo.kind # "none"
  /\ memo.kind = "active" /\ (Queued("create") \/ (op = "create" /\ step = "begin")) => ref.rel \in Own
  /\ step = "read" => op = "load"
  /\ step = "contact" => op = "sync"

JInv == IInv /\ Mine /\ Stuck /\ CreatesOwn
-----------------------------------------------------------------------------
(* Where the three records stay, Mine does.                                *)
LEMMA MineKept == ASSUME Mine, UNCHANGED <<disk, memo, ref>> PROVE Mine'
BY DEF Mine

(* The pairings that are saved bring a partner, or are of this device.     *)
LEMMA SavedMine ==
  ASSUME IInv
  PROVE  /\ \A r \in Rels : Fresh(r) => r \in Own \/ NewPairing(r).partner
         /\ Prepared.partner = ref.partner /\ Joined.partner = ref.partner
         /\ \A partner \in {ref.partner, TRUE} :
              ref.partner => [ref EXCEPT !.partner = partner].partner
<1>1. \A r \in Rels : Fresh(r) => r \in Own \/ NewPairing(r).partner
  BY DEF Fresh, NewPairing
<1>2. ref \in AnyPairing
  BY DEF IInv, RecordInv, Shape
<1>3. Prepared.partner = ref.partner /\ Joined.partner = ref.partner
  BY <1>2 DEF Prepared, Joined, AnyPairing
<1>4. \A partner : [ref EXCEPT !.partner = partner].partner = partner
  BY <1>2 DEF AnyPairing
<1>5. \A partner \in {ref.partner, TRUE} : ref.partner => [ref EXCEPT !.partner = partner].partner
  <2> SUFFICES ASSUME NEW partner \in {ref.partner, TRUE}, ref.partner
               PROVE  [ref EXCEPT !.partner = partner].partner
    OBVIOUS
  <2>1. [ref EXCEPT !.partner = partner].partner = partner
    BY <1>4
  <2>2. CASE partner = ref.partner
    BY <2>1, <2>2
  <2>3. CASE partner = TRUE
    BY <2>1, <2>3
  <2>4. QED BY <2>2, <2>3
<1>6. QED BY <1>1, <1>3, <1>5

(* The clauses about waiting operations, where none is added.              *)
LEMMA CreatesKept ==
  ASSUME CreatesOwn, queue' = queue, op' = op \/ op' = "none",
         memo'.kind = "none" => memo.kind = "none",
         memo'.kind = "active" => memo.kind = "active" /\ ref'.rel = ref.rel,
         step' = "begin" => step = "contact" \/ op = "sync" \/ (step = "begin" /\ op' = op),
         step' = "read" => step = "read" /\ op' = op,
         step' = "contact" => op' = "sync"
  PROVE  CreatesOwn'
<1>1. Queued("create")' <=> Queued("create")
  BY DEF Queued
<1>2. QED BY <1>1 DEF CreatesOwn

Undone == disk.kind = "revoking" /\ disk.pairing.rel \notin Own => disk' = disk \/ disk' = Empty

-----------------------------------------------------------------------------
(* One lemma for each kind of action.                                      *)

(* Calls that leave the three records alone and are no part of Stuck.      *)
LEMMA CallSteps ==
  ASSUME JInv, IInv',
         \/ Forget \/ ForgetFails \/ Revoke \/ RevokeFails \/ NoInvite \/ InitRatchet \/ InitRatchetFails
         \/ Register \/ RegisterFails \/ RegisterRefused \/ ContactFails \/ ContactRefused
  PROVE  JInv' /\ Undone
<1>1. /\ UNCHANGED <<disk, memo, ref>>
      /\ step \in {"forget", "revoke", "invite", "init", "register", "contact"}
  BY DEF Forget, ForgetFails, Revoke, RevokeFails, NoInvite, InitRatchet, InitRatchetFails, Register,
         RegisterFails, RegisterRefused, ContactFails, ContactRefused, durable
<1>2. ~Halfway'
  BY <1>1 DEF JInv, Stuck, Halfway
<1>3. Mine'
  BY <1>1, MineKept DEF JInv
<1>4. \/ Ends
      \/ /\ op' = op /\ queue' = queue /\ step' \notin {"read", "contact"}
         /\ step' = "begin" => step = "contact" \/ op = "sync"
  BY EndsFacts
  DEF Forget, ForgetFails, Revoke, RevokeFails, NoInvite, InitRatchet, InitRatchetFails, Register,
      RegisterFails, RegisterRefused, ContactFails, ContactRefused, Goto
<1>5. CreatesOwn'
  BY <1>1, <1>4, CreatesKept DEF JInv, Ends
<1>6. QED BY <1>1, <1>2, <1>3, <1>5 DEF JInv, Stuck, Undone

(* Clicks, timers, and what others do at the relay.                        *)
LEMMA OutsideSteps ==
  ASSUME JInv, IInv',
         \/ Clicks \/ RetryTick \/ SyncTick \/ Authorize \/ PartnerInvites \/ PartnerRevokes
         \/ UNCHANGED vars
  PROVE  JInv' /\ Undone
<1>1. UNCHANGED <<disk, memo, ref, op, step, ready>>
  BY DEF Clicks, CreateClicked, JoinClicked, DisconnectClicked, RetryTick, SyncTick, Authorize,
         PartnerInvites, PartnerRevokes, durable, flags, running, vars
<1>2. Mine'
  BY <1>1, MineKept DEF JInv
<1>3. blocked' = blocked \/ blocked'
  BY DEF Clicks, CreateClicked, JoinClicked, DisconnectClicked, RetryTick, SyncTick, Authorize,
         PartnerInvites, PartnerRevokes, flags, vars
<1>4. Stuck'
  BY <1>1, <1>3 DEF JInv, Stuck, Halfway
<1>5. ASSUME Queued("create")', ~Queued("create") PROVE ready /\ ~ref.partner
  <2>1. CASE CreateClicked
    BY <2>1 DEF CreateClicked
  <2>2. CASE JoinClicked \/ DisconnectClicked \/ RetryTick \/ SyncTick \/ Authorize
    <3>1. PICK o \in {"join", "disconnect", "retry", "sync", "load"} : queue' = Append(queue, o)
      BY <2>2 DEF JoinClicked, DisconnectClicked, RetryTick, SyncTick, Authorize, Enqueue
    <3>2. queue \in Seq(Operations) /\ o \in Operations
      BY DEF JInv, IInv, OneClick, Operations
    <3>3. \A i \in 1 .. Len(queue') : queue'[i] = o \/ (i \in 1 .. Len(queue) /\ queue'[i] = queue[i])
      BY <3>1, <3>2
    <3>4. QED BY <1>5, <3>3 DEF Queued
  <2>3. CASE queue' = queue
    BY <1>5, <2>3 DEF Queued
  <2>4. QED BY <2>1, <2>2, <2>3 DEF Clicks, PartnerInvites, PartnerRevokes, running, vars
<1>6. CreatesOwn'
  BY <1>1, <1>5 DEF JInv, IInv, Usable, Mine, CreatesOwn
<1>7. QED BY <1>1, <1>2, <1>4, <1>6 DEF JInv, Undone

(* The next operation begins; a blocked app begins none but a load or a    *)
(* cancellation.                                                           *)
LEMMA StartSteps == ASSUME JInv, IInv', Start PROVE JInv' /\ Undone
<1>1. UNCHANGED <<disk, memo, ref>>
  BY DEF Start, durable
<1>0. (blocked => blocked') /\ (ready' => ready)
  BY DEF Start
<1> DEFINE o == Head(queue)
<1>2. /\ op = "none" /\ queue # <<>> /\ queue' = Tail(queue) /\ step' = FirstStep(o)
      /\ \/ step' = "none" /\ op' = "none"
         \/ step' # "none" /\ op' = o
  BY DEF Start
<1>3. queue \in Seq(Operations) /\ o \in Operations /\ Len(queue) \in Nat \ {0} /\ o = queue[1]
  BY <1>2 DEF JInv, IInv, OneClick
<1>4. Queued(o)
  BY <1>3 DEF Queued
<1>5. Queued("create")' => Queued("create")
  <2>1. \A i \in 1 .. Len(queue') : i + 1 \in 1 .. Len(queue) /\ queue'[i] = queue[i + 1]
    BY <1>2, <1>3
  <2>2. QED BY <2>1 DEF Queued
<1> HIDE DEF o
<1>6. /\ o = "load" => step' = "read"
      /\ o = "create" => step' = IF Paired THEN "begin" ELSE "make"
      /\ o = "join" => step' = "invite"
      /\ o = "disconnect" => step' = IF Paired THEN "begin" ELSE "none"
      /\ o = "retry" => step' = IF memo.kind = "revoking" THEN "forget" ELSE "none"
      /\ o = "sync" => /\ step' \in {"contact", "init", "register", "none"}
                       /\ blocked => step' = "none"
  BY <1>2 DEF FirstStep, RetryStep
<1>7. o \in {"load", "create", "join", "disconnect", "retry", "sync"}
  BY <1>3 DEF Operations
<1>8. Mine'
  BY <1>1, MineKept DEF JInv
<1>9. Stuck'
  <2> SUFFICES ASSUME Halfway PROVE blocked' /\ ~ready' /\ step' \in {"none", "read", "begin"}
    BY <1>1 DEF Stuck, Halfway
  <2>1. blocked /\ ~ready /\ memo.kind = "active"
    BY DEF JInv, Stuck, Halfway
  <2>2. o # "join"
    BY <1>4, <2>1, NoJoin DEF JInv
  <2>3. ref.rel \in Rels
    BY <2>1 DEF JInv, IInv, RecordInv, Agrees, Shape
  <2>4. Paired
    BY <2>3, RecordParts, RelFacts DEF Paired
  <2>5. QED BY <1>0, <1>6, <1>7, <2>1, <2>2, <2>4
<1>10. CreatesOwn'
  <2>1. step' = "begin" /\ op' = "create" => Queued("create")
    BY <1>2, <1>4
  <2>2. step' = "read" => op' = "load"
    BY <1>2, <1>6, <1>7
  <2>3. step' = "contact" => op' = "sync"
    BY <1>2, <1>6, <1>7
  <2>4. QED BY <1>1, <1>5, <2>1, <2>2, <2>3 DEF JInv, CreatesOwn
<1>11. QED BY <1>1, <1>8, <1>9, <1>10 DEF JInv, Undone

(* A load reads what is on disk, or leaves the app as it was.              *)
LEMMA LoadsSteps == ASSUME JInv, IInv', Load \/ LoadFails PROVE JInv' /\ Undone
<1>0. step = "read" /\ op = "load"
  BY DEF Load, LoadFails, JInv, CreatesOwn
<1>1. disk # NoRecord => Restored = disk
  BY RestoredFacts DEF JInv, IInv, RecordInv
<1>2. disk = NoRecord => Restored = Empty \/ (Restored.kind = "active" /\ Restored.pairing.partner)
  <2>1. Active([rel |-> legacy, partner |-> TRUE, ratchet |-> FALSE, registration |-> "done"]).pairing.partner
    BY RecordParts
  <2>2. QED BY <2>1, RecordParts DEF Restored
<1>3. Restored.kind = "active" /\ Restored.pairing.rel \notin Own => Restored.pairing.partner
  BY <1>1, <1>2, RecordParts DEF JInv, Mine
<1>4. Restored.kind = "revoking" => Restored = Revoking(Restored.pairing.rel)
  BY <1>1, <1>2, RecordParts DEF JInv, Mine
<1>5. disk' \in {disk, Restored}
  BY DEF Load, LoadFails, Reread
<1>6. Undone
  BY <1>1, <1>5, RecordParts DEF Undone
<1>7. CASE Load
  <2>1. /\ memo' = Restored /\ disk' = Restored
        /\ ref' = (IF Restored.kind = "active" THEN Restored.pairing ELSE NoPairing)
        /\ step' = "none" /\ queue' = queue
    BY <1>7 DEF Load, Reread, End
  <2>2. Mine'
    BY <1>3, <1>4, <2>1 DEF Mine
  <2>3. Stuck'
    BY <2>1 DEF Stuck, Halfway
  <2>4. Queued("create")' => Queued("create") /\ Clicked
    BY <2>1 DEF Queued, Clicked, ClickOps
  <2>5. Restored.kind # "none"
    BY <1>1, <1>2, RecordParts DEF JInv, IInv, RecordInv, Known
  <2>6. Queued("create") /\ Clicked /\ Restored.kind = "active" => Restored.pairing.rel \in Own
    <3> SUFFICES ASSUME Queued("create"), Clicked, Restored.kind = "active" PROVE Restored.pairing.rel \in Own
      OBVIOUS
    <3>1. memo.kind # "none" /\ (memo.kind = "empty" => disk = Empty)
      BY DEF JInv, CreatesOwn, IInv, Usable
    <3>2. disk # NoRecord
      BY <3>1, RecordParts DEF JInv, IInv, RecordInv, Agrees
    <3>3. disk.kind = "active"
      BY <1>1, <3>2
    <3>4. memo.kind = "active"
      BY <3>1, <3>3, RecordParts DEF JInv, IInv, RecordInv, Agrees
    <3>5. disk.pairing.rel = ref.rel /\ ref.rel \in Own
      BY <3>4 DEF JInv, IInv, RecordInv, Agrees, CreatesOwn
    <3>6. QED BY <1>1, <3>2, <3>5
  <2>7. CreatesOwn'
    BY <2>1, <2>4, <2>5, <2>6 DEF CreatesOwn
  <2>8. QED BY <1>6, <2>2, <2>3, <2>7 DEF JInv
<1>8. CASE LoadFails
  <2>1. memo' = memo /\ ref' = ref /\ Failed
    BY <1>8 DEF LoadFails
  <2>2. Ends /\ (ready' => ready)
    BY <2>1, EndsFacts
  <2>3. Mine'
    BY <1>3, <1>4, <1>5, <2>1 DEF JInv, Mine
  <2>4. CreatesOwn'
    BY <2>1, <2>2, CreatesKept DEF JInv, Ends
  <2>5. Stuck'
    <3> SUFFICES ASSUME Halfway' PROVE blocked' /\ ~ready' /\ step' \in {"none", "read", "begin"}
      BY DEF Stuck
    <3>1. disk # NoRecord
      BY <2>1, RecordParts DEF Halfway, JInv, IInv, RecordInv, Agrees
    <3>2. Halfway
      BY <1>1, <1>5, <2>1, <3>1 DEF Halfway
    <3>3. blocked /\ ~ready
      BY <3>2 DEF JInv, Stuck
    <3>4. blocked'
      BY <1>0, <2>1, <3>3 DEF Failed, Refused
    <3>5. QED BY <2>2, <3>3, <3>4 DEF Ends
  <2>6. QED BY <1>6, <2>3, <2>4, <2>5 DEF JInv
<1>9. QED BY <1>7, <1>8

(* The write of a cancellation: if it fails the app stops, unless the pair *)
(* is of this device.                                                      *)
LEMMA BeginsSteps == ASSUME JInv, IInv', BeginRevocation \/ BeginRevocationFails PROVE JInv' /\ Undone
<1>1. memo.kind = "active" /\ memo.pairing = ref /\ step = "begin" /\ memo # Revoking(ref.rel)
      /\ disk.pairing.rel = ref.rel
  <2>1. step = "begin"
    BY DEF BeginRevocation, BeginRevocationFails
  <2>2. QED BY <2>1, RecordParts DEF JInv, IInv, StepFits, RecordInv, Agrees
<1>2. disk' \in {disk, Revoking(ref.rel)}
  BY <1>1, WriteFacts DEF BeginRevocation, BeginRevocationFails
<1>3. Undone
  BY <1>1, <1>2 DEF Undone, JInv, Mine
<1>4. disk'.kind = "revoking" => disk' = Revoking(disk'.pairing.rel)
  BY <1>1, <1>2, RecordParts DEF JInv, Mine
<1>5. CASE BeginRevocation
  <2>1. memo' = Revoking(ref.rel) /\ disk' = Revoking(ref.rel) /\ step' = "forget" /\ queue' = queue /\ op' = op
    BY <1>1, <1>5, WriteFacts DEF BeginRevocation, Goto
  <2>2. memo'.kind = "revoking" /\ disk'.kind = "revoking"
    BY <2>1, RecordParts
  <2>3. Mine' /\ Stuck'
    BY <1>4, <2>2 DEF Mine, Stuck, Halfway
  <2>4. CreatesOwn'
    BY <2>1, <2>2, CreatesKept DEF JInv
  <2>5. QED BY <1>3, <2>3, <2>4 DEF JInv
<1>6. CASE BeginRevocationFails
  <2>1. memo' = memo /\ ref' = ref /\ (Failed \/ StorageFailed)
    BY <1>1, <1>6, WriteFacts DEF BeginRevocationFails
  <2>2. Ends
    BY <2>1, EndsFacts
  <2>3. Mine'
    BY <1>2, <1>4, <2>1, RecordParts DEF JInv, Mine
  <2>4. CreatesOwn'
    BY <2>1, <2>2, CreatesKept DEF JInv, Ends
  <2>5. Stuck'
    <3> SUFFICES ASSUME ref.rel \notin Own PROVE blocked' /\ ~ready' /\ step' = "none"
      BY <2>1 DEF Stuck, Halfway
    <3>1. op # "create"
      BY <1>1 DEF JInv, CreatesOwn
    <3>2. StorageFailed
      BY <1>6, <3>1 DEF BeginRevocationFails
    <3>3. QED BY <2>2, <3>2 DEF StorageFailed, Ends
  <2>6. QED BY <1>3, <2>3, <2>4, <2>5 DEF JInv
<1>7. QED BY <1>5, <1>6

(* The cancellation is finished, and nothing is on record.                 *)
LEMMA CompletesSteps ==
  ASSUME JInv, IInv', CompleteRevocation \/ CompleteRevocationFails
  PROVE  JInv' /\ Undone
<1>1. memo.kind = "revoking" /\ memo # Empty
  <2>1. step = "complete"
    BY DEF CompleteRevocation, CompleteRevocationFails
  <2>2. QED BY <2>1, RecordParts DEF JInv, IInv, StepFits
<1>2. disk' \in {disk, Empty} /\ memo' \in {memo, Empty}
  BY <1>1, WriteFacts DEF CompleteRevocation, CompleteRevocationFails
<1>3. memo'.kind \in {"revoking", "empty"}
  BY <1>1, <1>2, RecordParts
<1>4. Mine' /\ Stuck' /\ Undone
  BY <1>2, <1>3, RecordParts DEF JInv, Mine, Stuck, Halfway, Undone
<1>5. Ends \/ (queue' = queue /\ op' = op /\ step' = "make")
  BY EndsFacts DEF CompleteRevocation, CompleteRevocationFails, Goto
<1>6. CreatesOwn'
  BY <1>3, <1>5, CreatesKept DEF JInv, Ends
<1>7. QED BY <1>4, <1>6 DEF JInv

(* A new relationship is saved where nothing is on record.                 *)
LEMMA SaveNewsSteps == ASSUME JInv, IInv', NEW r \in Rels, SaveNew(r) \/ SaveNewFails(r) PROVE JInv' /\ Undone
<1>1. step \in {"make", "invite"} /\ op \in {"create", "join"}
  BY DEF SaveNew, SaveNewFails, Fresh, JInv, IInv, StepFits
<1>2. memo.kind # "active" /\ ~Clicked
  BY <1>1 DEF JInv, IInv, StepFits, Usable, OneClick, ClickOps
<1> DEFINE p == NewPairing(r)
<1>3. p.rel \in Own \/ p.partner
  <2>1. Fresh(r)
    BY DEF SaveNew, SaveNewFails
  <2>2. p.rel = r
    BY SavedPairings DEF JInv, IInv, RecordInv
  <2>3. QED BY <2>1, <2>2, SavedMine DEF JInv
<1> HIDE DEF p
<1>4. memo.kind = "empty" => disk = Empty
  BY <1>1 DEF JInv, IInv, Usable
<1>5. /\ \/ memo' = memo /\ ref' = ref
         \/ memo.kind = "empty" /\ memo' = Active(p) /\ ref' = p
      /\ disk' = disk \/ (memo.kind = "empty" /\ disk' = Active(p))
  BY <1>2, WriteFacts DEF SaveNew, SaveNewFails, Saved, NotSaved, p
<1>6. memo'.kind = "active" => memo' = Active(p) /\ disk'.kind # "revoking" /\ ref' = p
  BY <1>2, <1>4, <1>5, RecordParts
<1>7. Mine'
  BY <1>3, <1>5, <1>6, RecordParts DEF JInv, Mine
<1>8. Stuck'
  BY <1>6 DEF Stuck, Halfway
<1>9. Undone
  BY <1>4, <1>5, RecordParts DEF Undone
<1>10. Ends \/ (queue' = queue /\ op' = op /\ step' = "init")
  BY EndsFacts DEF SaveNew, SaveNewFails, NotSaved, Goto
<1>11. ~Queued("create")'
  BY <1>2, <1>10 DEF Queued, Clicked, ClickOps, Ends
<1>12. CreatesOwn'
  BY <1>10, <1>11 DEF CreatesOwn, Ends
<1>13. QED BY <1>7, <1>8, <1>9, <1>12 DEF JInv

(* The pairing in use is saved again, which Stuck excludes.                *)
LEMMA SaveAgainsSteps ==
  ASSUME JInv, IInv',
         \/ SavePrepared \/ SavePreparedFails \/ SaveRegistered \/ SaveRegisteredFails
         \/ Contact \/ ContactNotSaved
  PROVE  JInv' /\ Undone
<1>1. step \in {"prepare", "registered", "contact"} /\ memo.kind = "active"
  BY DEF SavePrepared, SavePreparedFails, SaveRegistered, SaveRegisteredFails, Contact, ContactNotSaved,
         JInv, IInv, StepFits
<1>2. /\ memo.pairing = ref /\ disk.pairing.rel = ref.rel /\ ~Halfway
      /\ disk.kind \in {"active", "revoking"}
  BY <1>1 DEF JInv, IInv, RecordInv, Agrees, Stuck, Halfway
<1>3. \/ UNCHANGED <<disk, memo, ref>>
      \/ \E p : /\ p.rel = ref.rel /\ (ref.partner => p.partner)
                /\ disk' \in {disk, Active(p)}
                /\ \/ memo' = Active(p) /\ ref' = p
                   \/ memo' = memo /\ ref' = ref
  <2>1. ASSUME NEW p, Saved(p) \/ NotSaved(p)
        PROVE  /\ disk' \in {disk, Active(p)}
               /\ \/ memo' = Active(p) /\ ref' = p
                  \/ memo' = memo /\ ref' = ref
    BY <2>1, WriteFacts DEF Saved, NotSaved
  <2>2. /\ Prepared.rel = ref.rel /\ (ref.partner => Prepared.partner)
        /\ Joined.rel = ref.rel /\ (ref.partner => Joined.partner)
        /\ \A partner \in {ref.partner, TRUE} :
             /\ [ref EXCEPT !.partner = partner].rel = ref.rel
             /\ ref.partner => [ref EXCEPT !.partner = partner].partner
    BY SavedPairings, SavedMine DEF JInv, IInv, RecordInv
  <2>3. CASE SavePrepared \/ SavePreparedFails
    BY <2>1, <2>2, <2>3 DEF SavePrepared, SavePreparedFails
  <2>4. CASE SaveRegistered \/ SaveRegisteredFails
    BY <2>1, <2>2, <2>4 DEF SaveRegistered, SaveRegisteredFails
  <2>5. CASE ContactNotSaved
    BY <2>1, <2>2, <2>5 DEF ContactNotSaved
  <2>6. CASE Contact
    <3>1. ASSUME NEW partner \in {ref.partner, TRUE}, Saved([ref EXCEPT !.partner = partner])
          PROVE  \E p : /\ p.rel = ref.rel /\ (ref.partner => p.partner)
                        /\ disk' \in {disk, Active(p)}
                        /\ \/ memo' = Active(p) /\ ref' = p
                           \/ memo' = memo /\ ref' = ref
      BY <2>1, <2>2, <3>1
    <3>2. QED BY <2>6, <3>1 DEF Contact
  <2>7. QED BY <2>3, <2>4, <2>5, <2>6
<1>4. /\ memo'.kind = "active" /\ ref'.rel = ref.rel /\ disk'.pairing.rel = ref.rel
      /\ disk' = disk \/ disk'.kind = "active"
  BY <1>1, <1>2, <1>3, RecordParts
<1>5. Mine'
  BY <1>1, <1>2, <1>3, RecordParts DEF JInv, Mine
<1>6. ~Halfway'
  BY <1>1, <1>2, <1>4 DEF Halfway
<1>7. Undone
  BY <1>1, <1>2 DEF Undone, Halfway
<1>8. /\ queue' = queue /\ op' \in {op, "none"} /\ step' \in {"none", "register", "contact"}
      /\ step' = "contact" => op' = "sync"
  BY EndsFacts
  DEF SavePrepared, SavePreparedFails, SaveRegistered, SaveRegisteredFails, Contact, ContactNotSaved,
      NotSaved, Goto, End, Ends
<1>9. CreatesOwn'
  BY <1>1, <1>4, <1>8, CreatesKept DEF JInv
<1>10. QED BY <1>5, <1>6, <1>7, <1>9 DEF JInv, Stuck

(* A restart keeps the disk and waits for a load.                          *)
LEMMA RestartsStep == ASSUME JInv, IInv', Restart PROVE JInv' /\ Undone
<1>1. memo' = NoRecord /\ ref' = NoPairing /\ disk' = disk /\ queue' = <<"load">> /\ step' = "none"
  BY DEF Restart, durable
<1>2. Mine' /\ Stuck' /\ Undone
  BY <1>1, RecordParts DEF JInv, Mine, Stuck, Halfway, Undone
<1>3. ~Queued("create")'
  BY <1>1 DEF Queued
<1>4. CreatesOwn'
  BY <1>1, <1>3 DEF CreatesOwn
<1>5. QED BY <1>2, <1>4 DEF JInv

-----------------------------------------------------------------------------
(* The invariant holds at first.                                           *)
LEMMA InitJInv == Init => JInv
<1> SUFFICES ASSUME Init PROVE JInv
  OBVIOUS
<1>1. disk = NoRecord /\ memo = NoRecord /\ queue = <<"load">> /\ step = "none"
  BY DEF Init
<1>2. ~Queued("create")
  BY <1>1 DEF Queued
<1>3. QED BY <1>1, <1>2, InitIInv, RecordParts DEF JInv, Mine, Stuck, Halfway, CreatesOwn

(* Every step keeps the invariant, and none undoes a cancellation.         *)
LEMMA NextJInv == JInv /\ Ledger /\ [Next]_vars => JInv' /\ Undone
<1> SUFFICES ASSUME JInv, Ledger, [Next]_vars PROVE JInv' /\ Undone
  OBVIOUS
<1>0. IInv'
  BY NextIInv DEF JInv
<1>1. CASE Clicks \/ RetryTick \/ SyncTick \/ Authorize \/ PartnerInvites \/ PartnerRevokes \/ UNCHANGED vars
  BY <1>0, <1>1, OutsideSteps
<1>2. CASE Start \/ Load \/ LoadFails
  BY <1>0, <1>2, StartSteps, LoadsSteps
<1>3. CASE Leaving
  BY <1>0, <1>3, BeginsSteps, CallSteps, CompletesSteps DEF Leaving
<1>4. CASE Entering
  BY <1>0, <1>4, SaveNewsSteps, CallSteps, SaveAgainsSteps DEF Entering
<1>5. CASE Syncing
  BY <1>0, <1>5, CallSteps, SaveAgainsSteps DEF Syncing
<1>6. CASE Restart
  BY <1>0, <1>6, RestartsStep
<1>7. QED
  BY <1>1, <1>2, <1>3, <1>4, <1>5, <1>6 DEF Next, Queue

(* The cancellation of a pair this device joined, once on disk, is never   *)
(* undone by a save from a pairing still in memory.                        *)
THEOREM NotResurrected == Spec => NeverResurrected
<1>1. Init => JInv /\ Ledger
  BY InitJInv, InitLedger
<1>2. JInv /\ Ledger /\ [Next]_vars => (JInv /\ Ledger)'
  BY NextJInv, NextLedger DEF JInv
<1>3. JInv /\ Ledger /\ [Next]_vars =>
        [disk.kind = "revoking" /\ disk.pairing.rel \notin Own => disk' = disk \/ disk' = Empty]_vars
  BY NextJInv DEF Undone
<1>4. QED BY <1>1, <1>2, <1>3, PTL DEF Spec, NeverResurrected
=============================================================================
