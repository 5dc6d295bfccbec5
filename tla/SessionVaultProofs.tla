------------------------- MODULE SessionVaultProofs -------------------------
(***************************************************************************)
(* What TLAPS proves of SessionVault, for any number of commands and       *)
(* commits.  The lock alone gives the commit order (CommitInv): no fork,   *)
(* nothing released is rolled back, and the store implements the durable   *)
(* register, all of it even if directories are never synced and old files  *)
(* come back.  That the vouched snapshot is always on disk (FileInv) also  *)
(* needs directory syncs that work, and ends with a restore.               *)
(***************************************************************************)
EXTENDS SessionVault, TLAPS

USE VaultAssumption

-----------------------------------------------------------------------------
\* The commit order.

LEMMA CommitInvInit == Init => CommitInv
  <1> SUFFICES ASSUME Init PROVE CommitInv
    OBVIOUS
  <1> USE DEF Init
  <1>1. restored \in BOOLEAN
    OBVIOUS
  <1>2. TypeOK
    BY <1>1 DEF TypeOK, Contents, Snapshots, Stages
  <1>3. QED BY <1>2 DEF CommitInv, LockHeld, InHand

LEMMA PutPendingTyped ==
  ASSUME TypeOK, NEW content \in Snapshots \cup {Torn}, PutPending(content)
  PROVE  cur' \in Contents /\ pend' \in Contents /\ views' \in SUBSET (Contents \X Contents)
  BY DEF TypeOK, PutPending, Contents

LEMMA RenamePendingTyped ==
  ASSUME TypeOK, RenamePending
  PROVE  cur' \in Contents /\ pend' \in Contents /\ views' \in SUBSET (Contents \X Contents)
  BY DEF TypeOK, RenamePending, Contents

LEMMA SyncDirectoryTyped ==
  ASSUME TypeOK, SyncDirectory
  PROVE  views' \in SUBSET (Contents \X Contents)
  BY DEF TypeOK, SyncDirectory

LEMMA CommitInvStep == CommitInv /\ [Next]_vars => CommitInv'
  <1> SUFFICES ASSUME CommitInv, [Next]_vars PROVE CommitInv'
    OBVIOUS
  <1> USE DEF CommitInv, TypeOK, LockHeld, InHand, Stages, Goto, Leave, files
  <1>1. ASSUME NEW p \in Procs, Open(p) PROVE CommitInv'
    BY <1>1 DEF Open
  <1>2. ASSUME NEW p \in Procs, LoadFresh(p) PROVE CommitInv'
    BY <1>2 DEF LoadFresh
  <1>3. ASSUME NEW p \in Procs, LoadCurrent(p) PROVE CommitInv'
    BY <1>3 DEF LoadCurrent
  <1>4. ASSUME NEW p \in Procs, LoadPending(p) PROVE CommitInv'
    <2>1. cur' \in Contents /\ pend' \in Contents /\ views' \in SUBSET (Contents \X Contents)
      BY <1>4, RenamePendingTyped DEF LoadPending
    <2>2. QED BY <1>4, <2>1 DEF LoadPending
  <1>5. ASSUME NEW p \in Procs, FinishLoadPending(p) PROVE CommitInv'
    <2>1. views' \in SUBSET (Contents \X Contents)
      BY <1>5, SyncDirectoryTyped DEF FinishLoadPending
    <2>2. QED BY <1>5, <2>1 DEF FinishLoadPending
  <1>6. ASSUME NEW p \in Procs, LoadRefused(p) PROVE CommitInv'
    BY <1>6 DEF LoadRefused
  <1>7. ASSUME NEW p \in Procs, ReturnClean(p) PROVE CommitInv'
    BY <1>7 DEF ReturnClean
  <1>8. ASSUME NEW p \in Procs, WritePending(p) PROVE CommitInv'
    <2>1. cur' \in Contents /\ pend' \in Contents /\ views' \in SUBSET (Contents \X Contents)
      <3>1. made + 1 \in Snapshots /\ PutPending(made + 1)
        BY <1>8 DEF WritePending, Snapshots
      <3>2. QED BY <3>1, PutPendingTyped
    <2>2. QED BY <1>8, <2>1 DEF WritePending
  <1>9. ASSUME NEW p \in Procs, WriteTorn(p) PROVE CommitInv'
    <2>1. cur' \in Contents /\ pend' \in Contents /\ views' \in SUBSET (Contents \X Contents)
      BY <1>9, PutPendingTyped DEF WriteTorn
    <2>2. QED BY <1>9, <2>1 DEF WriteTorn
  <1>10. ASSUME NEW p \in Procs, SyncPending(p) PROVE CommitInv'
    <2>1. views' \in SUBSET (Contents \X Contents)
      BY <1>10, SyncDirectoryTyped DEF SyncPending
    <2>2. QED BY <1>10, <2>1 DEF SyncPending
  <1>11. ASSUME NEW p \in Procs, WriteAnchor(p) PROVE CommitInv'
    BY <1>11 DEF WriteAnchor
  <1>12. ASSUME NEW p \in Procs, WriteAnchorUncertain(p) PROVE CommitInv'
    BY <1>12 DEF WriteAnchorUncertain
  <1>13. ASSUME NEW p \in Procs, VerifyAnchor(p) PROVE CommitInv'
    BY <1>13 DEF VerifyAnchor
  <1>14. ASSUME NEW p \in Procs, PublishRename(p) PROVE CommitInv'
    <2>1. cur' \in Contents /\ pend' \in Contents /\ views' \in SUBSET (Contents \X Contents)
      BY <1>14, RenamePendingTyped DEF PublishRename
    <2>2. QED BY <1>14, <2>1 DEF PublishRename
  <1>15. ASSUME NEW p \in Procs, FinishCommit(p) PROVE CommitInv'
    <2>1. views' \in SUBSET (Contents \X Contents)
      BY <1>15, SyncDirectoryTyped DEF FinishCommit
    <2>2. QED BY <1>15, <2>1 DEF FinishCommit
  <1>16. ASSUME NEW p \in Procs, Abort(p) PROVE CommitInv'
    BY <1>16 DEF Abort
  <1>17. ASSUME PowerLoss PROVE CommitInv'
    BY <1>17 DEF PowerLoss
  <1>18. ASSUME RestoreBackup PROVE CommitInv'
    BY <1>18 DEF RestoreBackup, Contents, Snapshots
  <1>19. CASE UNCHANGED vars
    BY <1>19 DEF vars
  <1>20. QED
    BY <1>1, <1>2, <1>3, <1>4, <1>5, <1>6, <1>7, <1>8, <1>9, <1>10, <1>11, <1>12,
       <1>13, <1>14, <1>15, <1>16, <1>17, <1>18, <1>19 DEF Next, Command

(* Whatever becomes of the files, a command in progress holds the lock      *)
(* alone, loaded what the anchor names and stages what is newer, until it   *)
(* writes the anchor; and nothing released is newer than the anchor.        *)
THEOREM CommitOrder == Spec => []CommitInv
  BY CommitInvInit, CommitInvStep, PTL DEF Spec

(* Nothing whose commit was reported as done is ever rolled back.           *)
THEOREM Released == Spec => []ReleasedIsDurable
  <1>1. CommitInv => ReleasedIsDurable
    BY DEF CommitInv, ReleasedIsDurable
  <1>2. QED BY <1>1, CommitOrder, PTL

(* The only steps that move the credential are the two that write it, and   *)
(* they write a newer snapshot made from the one it named.                  *)
LEMMA AnchorMoves ==
  ASSUME CommitInv, [Next]_vars, anchor' # anchor
  PROVE  \E p \in Procs : pc[p] = "staged" /\ anchor' = staged[p]
  BY DEF Next, Command, vars, files, Open, LoadFresh, LoadCurrent, LoadPending, FinishLoadPending,
         LoadRefused, ReturnClean, WritePending, WriteTorn, SyncPending, WriteAnchor,
         WriteAnchorUncertain, VerifyAnchor, PublishRename, FinishCommit, Abort,
         PowerLoss, RestoreBackup

(* No two commits succeed the same snapshot: the ratchet is never forked.   *)
THEOREM NeverForked == Spec => NoFork
  <1>1. CommitInv /\ [Next]_vars =>
          [anchor' # anchor => \E p \in Procs : base[p] = anchor /\ staged[p] = anchor']_vars
    BY AnchorMoves DEF CommitInv, InHand
  <1>2. QED BY <1>1, CommitOrder, PTL DEF Spec, NoFork

(* The store implements DurableRegister: its callers may forget files,      *)
(* credentials, crashes and each other.                                     *)
THEOREM StoreIsRegister == Spec => ImplementsRegister
  <1>1. Init => Register!Init
    BY DEF Init, Register!Init
  <1>2. CommitInv /\ [Next]_vars => [Register!Next]_(Register!vars)
    <2> SUFFICES ASSUME CommitInv, [Next]_vars PROVE [Register!Next]_(Register!vars)
      OBVIOUS
    <2>1. CASE anchor' # anchor
      <3>1. PICK p \in Procs : pc[p] = "staged" /\ anchor' = staged[p]
        BY <2>1, AnchorMoves
      <3>2. anchor' \in Nat /\ anchor' > anchor
        BY <3>1 DEF CommitInv, InHand, TypeOK
      <3>3. released' = released
        BY <2>1 DEF Next, Command, vars, files, Open, LoadFresh, LoadCurrent, LoadPending,
             FinishLoadPending, LoadRefused, ReturnClean, WritePending, WriteTorn, SyncPending,
             WriteAnchor, WriteAnchorUncertain, VerifyAnchor, PublishRename, FinishCommit,
             Abort, PowerLoss, RestoreBackup
      <3>4. QED BY <3>2, <3>3 DEF Register!Next, Register!Advance
    <2>2. CASE anchor' = anchor /\ released' # released
      <3>1. PICK p \in Procs : FinishCommit(p)
        BY <2>2 DEF Next, Command, vars, files, Open, LoadFresh, LoadCurrent, LoadPending,
             FinishLoadPending, LoadRefused, ReturnClean, WritePending, WriteTorn, SyncPending,
             WriteAnchor, WriteAnchorUncertain, VerifyAnchor, PublishRename,
             Abort, PowerLoss, RestoreBackup
      <3>2. released' = anchor
        BY <3>1 DEF FinishCommit, CommitInv, InHand
      <3>3. QED BY <2>2, <3>2 DEF Register!Next, Register!Acknowledge
    <2>3. CASE anchor' = anchor /\ released' = released
      BY <2>3 DEF Register!vars
    <2>4. QED BY <2>1, <2>2, <2>3
  <1>3. QED BY <1>1, <1>2, CommitOrder, PTL DEF Spec, ImplementsRegister, Register!Spec

-----------------------------------------------------------------------------
\* The vouched snapshot is always on disk.

LEMMA FileInvInit == Init => FileInv
  BY CommitInvInit DEF Init, FileInv, FilesAgree, VouchedOnDisk, Intact, FilesReady

(* Writing ratchet.pending, whole or torn, disturbs no directory's vouched  *)
(* snapshot while ratchet.bin holds it.                                     *)
LEMMA PutPendingFiles ==
  ASSUME CommitInv, FilesAgree, NEW content \in Snapshots \cup {Torn}, PutPending(content),
         anchor = 0 \/ cur = anchor, anchor' = anchor, made' \in Nat, made' >= made,
         content \in Nat => content = made' /\ content > made
  PROVE  /\ VouchedOnDisk'
         /\ <<cur, pend>>' \in views'
         /\ \A v \in views' : Intact(v)'
         /\ cur' = cur /\ pend' = content
  <1> USE DEF Contents, Snapshots
  <1>1. <<cur, pend>> \in views /\ (\A v \in views : Intact(v)) /\ TypeOK /\ VouchedOnDisk
    BY DEF FilesAgree, CommitInv
  <1>2. cur' = cur /\ pend' = content /\ <<cur, pend>>' \in views'
    BY DEF PutPending
  <1>3. Intact(<<cur, pend>>)
    BY <1>1
  <1>4. ASSUME NEW w \in views' PROVE Intact(w)' /\ (anchor # 0 => w[1] = anchor \/ w[2] = anchor)
    <2>1. CASE w = <<cur, content>>
      BY <1>1, <1>3, <2>1 DEF Intact, TypeOK
    <2>2. CASE w # <<cur, content>>
      <3>1. PICK v \in views : w = IF pend # Absent /\ v[2] = pend THEN <<v[1], content>> ELSE v
        BY <2>2 DEF PutPending
      <3>2. Intact(v) /\ (anchor # 0 => v[1] = anchor \/ v[2] = anchor)
        BY <1>1 DEF VouchedOnDisk
      <3>3. v[1] \in Contents /\ v[2] \in Contents
        BY <1>1 DEF TypeOK
      <3>4. CASE pend # Absent /\ v[2] = pend
        <4>1. w[1] = v[1] /\ w[2] = content
          BY <3>1, <3>4
        <4>2. Intact(w)'
          BY <1>1, <3>2, <3>3, <4>1 DEF Intact, TypeOK
        <4>3. ASSUME anchor # 0 PROVE v[2] # anchor
          BY <1>1, <1>3, <3>4, <4>3 DEF Intact, TypeOK
        <4>4. QED BY <3>2, <4>1, <4>2, <4>3
      <3>5. CASE ~(pend # Absent /\ v[2] = pend)
        BY <1>1, <3>1, <3>2, <3>3, <3>5 DEF Intact, TypeOK
      <3>6. QED BY <3>4, <3>5
    <2>3. QED BY <2>1, <2>2
  <1>5. VouchedOnDisk'
    BY <1>4 DEF VouchedOnDisk
  <1>6. QED BY <1>2, <1>4, <1>5

(* Renaming the vouched ratchet.pending over ratchet.bin leaves the vouched *)
(* snapshot in the new directory.                                           *)
LEMMA RenamePendingFiles ==
  ASSUME CommitInv, FilesAgree, RenamePending, pend = anchor, UNCHANGED <<anchor, made>>
  PROVE  /\ VouchedOnDisk'
         /\ <<cur, pend>>' \in views'
         /\ \A v \in views' : Intact(v)'
         /\ cur' = anchor
  <1>1. TypeOK /\ <<cur, pend>> \in views /\ (\A v \in views : Intact(v)) /\ VouchedOnDisk
    BY DEF FilesAgree, CommitInv
  <1>2. cur' = anchor /\ pend' = Absent /\ views' = views \cup {<<anchor, Absent>>}
    BY DEF RenamePending
  <1>3. Intact(<<cur, pend>>)
    BY <1>1
  <1>4. Intact(<<anchor, Absent>>)'
    BY <1>1, <1>3 DEF Intact, TypeOK
  <1>5. ASSUME NEW v \in views PROVE Intact(v)'
    BY <1>1 DEF Intact
  <1>6. QED BY <1>1, <1>2, <1>4, <1>5 DEF VouchedOnDisk

(* A directory sync forgets older directories and touches nothing else.     *)
LEMMA SyncDirectoryFiles ==
  ASSUME CommitInv, FilesAgree, SyncDirectory, DirSyncs, UNCHANGED <<cur, pend, anchor, made>>
  PROVE  /\ VouchedOnDisk'
         /\ <<cur, pend>>' \in views'
         /\ \A v \in views' : Intact(v)'
         /\ views' = {<<cur, pend>>}'
  BY DEF FilesAgree, SyncDirectory, VouchedOnDisk, Intact

LEMMA FilesAgreeStep ==
  ASSUME DirSyncs, CommitInv, FilesAgree, [Next]_vars, ~RestoreBackup
  PROVE  FilesAgree'
  <1>0. CommitInv'
    BY CommitInvStep
  <1>a. TypeOK /\ LockHeld /\ (\A p \in Procs : InHand(p)) /\ (\A p \in Procs : FilesReady(p))
    BY DEF FilesAgree, CommitInv
  <1> DEFINE Disk == VouchedOnDisk /\ <<cur, pend>> \in views /\ \A v \in views : Intact(v)
  <1>b. Disk
    BY DEF FilesAgree
  <1>c. SUFFICES Disk' /\ \A q \in Procs : FilesReady(q)'
    BY DEF FilesAgree
  <1>d. ASSUME UNCHANGED <<files, anchor, made>> PROVE Disk'
    BY <1>b, <1>d DEF files, VouchedOnDisk, Intact
  <1> HIDE DEF Disk
  <1> USE DEF TypeOK, LockHeld, FilesReady, Stages, Goto, Leave
  <1>1. ASSUME NEW p \in Procs, Open(p) PROVE Disk' /\ \A q \in Procs : FilesReady(q)'
    BY <1>1, <1>a, <1>d DEF Open, files
  <1>2. ASSUME NEW p \in Procs, LoadFresh(p) PROVE Disk' /\ \A q \in Procs : FilesReady(q)'
    BY <1>2, <1>a, <1>d DEF LoadFresh, files
  <1>3. ASSUME NEW p \in Procs, LoadCurrent(p) PROVE Disk' /\ \A q \in Procs : FilesReady(q)'
    BY <1>3, <1>a, <1>d DEF LoadCurrent, files
  <1>4. ASSUME NEW p \in Procs, LoadPending(p) PROVE Disk' /\ \A q \in Procs : FilesReady(q)'
    <2>1. Disk' /\ cur' = anchor
      BY <1>4, RenamePendingFiles DEF LoadPending, Disk
    <2>2. QED BY <1>4, <1>a, <2>1 DEF LoadPending
  <1>5. ASSUME NEW p \in Procs, FinishLoadPending(p) PROVE Disk' /\ \A q \in Procs : FilesReady(q)'
    <2>1. Disk'
      BY <1>5, SyncDirectoryFiles DEF FinishLoadPending, Disk
    <2>2. QED BY <1>5, <1>a, <2>1 DEF FinishLoadPending
  <1>6. ASSUME NEW p \in Procs, LoadRefused(p) PROVE Disk' /\ \A q \in Procs : FilesReady(q)'
    BY <1>6, <1>a, <1>d DEF LoadRefused, files
  <1>7. ASSUME NEW p \in Procs, ReturnClean(p) PROVE Disk' /\ \A q \in Procs : FilesReady(q)'
    BY <1>7, <1>a, <1>d DEF ReturnClean, files
  <1>8. ASSUME NEW p \in Procs, WritePending(p) PROVE Disk' /\ \A q \in Procs : FilesReady(q)'
    <2>1. Disk' /\ cur' = cur /\ pend' = made + 1
      BY <1>8, <1>a, PutPendingFiles DEF WritePending, Disk, Snapshots
    <2>2. QED BY <1>8, <1>a, <2>1 DEF WritePending
  <1>9. ASSUME NEW p \in Procs, WriteTorn(p) PROVE Disk' /\ \A q \in Procs : FilesReady(q)'
    <2>1. Disk'
      BY <1>9, <1>a, PutPendingFiles DEF WriteTorn, Disk
    <2>2. QED BY <1>9, <1>a, <2>1 DEF WriteTorn
  <1>10. ASSUME NEW p \in Procs, SyncPending(p) PROVE Disk' /\ \A q \in Procs : FilesReady(q)'
    <2>1. Disk' /\ views' = {<<cur, pend>>}'
      BY <1>10, SyncDirectoryFiles DEF SyncPending, Disk
    <2>2. QED BY <1>10, <1>a, <2>1 DEF SyncPending
  <1>e. ASSUME NEW p \in Procs, pc[p] = "staged", anchor' = staged[p], UNCHANGED <<files, made>>
        PROVE  Disk'
    BY <1>a, <1>b, <1>e DEF files, Disk, VouchedOnDisk, Intact
  <1>11. ASSUME NEW p \in Procs, WriteAnchor(p) PROVE Disk' /\ \A q \in Procs : FilesReady(q)'
    BY <1>11, <1>a, <1>e DEF WriteAnchor, files
  <1>12. ASSUME NEW p \in Procs, WriteAnchorUncertain(p)
         PROVE  Disk' /\ \A q \in Procs : FilesReady(q)'
    BY <1>12, <1>a, <1>e DEF WriteAnchorUncertain, files
  <1>13. ASSUME NEW p \in Procs, VerifyAnchor(p) PROVE Disk' /\ \A q \in Procs : FilesReady(q)'
    BY <1>13, <1>a, <1>d DEF VerifyAnchor, files
  <1>14. ASSUME NEW p \in Procs, PublishRename(p) PROVE Disk' /\ \A q \in Procs : FilesReady(q)'
    <2>1. pend = anchor
      BY <1>14, <1>a DEF PublishRename, InHand
    <2>2. Disk'
      BY <1>14, <2>1, RenamePendingFiles DEF PublishRename, Disk
    <2>3. QED BY <1>14, <1>a, <2>2 DEF PublishRename
  <1>15. ASSUME NEW p \in Procs, FinishCommit(p) PROVE Disk' /\ \A q \in Procs : FilesReady(q)'
    <2>1. Disk'
      BY <1>15, SyncDirectoryFiles DEF FinishCommit, Disk
    <2>2. QED BY <1>15, <1>a, <2>1 DEF FinishCommit
  <1>16. ASSUME NEW p \in Procs, Abort(p) PROVE Disk' /\ \A q \in Procs : FilesReady(q)'
    BY <1>16, <1>a, <1>d DEF Abort, files
  <1>17. ASSUME PowerLoss PROVE Disk' /\ \A q \in Procs : FilesReady(q)'
    <2>1. Disk'
      BY <1>17, <1>a, <1>b DEF PowerLoss, Disk, VouchedOnDisk, Intact
    <2>2. QED BY <1>17, <2>1 DEF PowerLoss
  <1>18. CASE UNCHANGED vars
    BY <1>18, <1>a, <1>d DEF vars, files
  <1>19. QED
    BY <1>1, <1>2, <1>3, <1>4, <1>5, <1>6, <1>7, <1>8, <1>9, <1>10, <1>11, <1>12,
       <1>13, <1>14, <1>15, <1>16, <1>17, <1>18 DEF Next, Command

(* Only a restored backup is remembered as one.                             *)
LEMMA RestoredMoves ==
  ASSUME [Next]_vars
  PROVE  IF RestoreBackup THEN restored' ELSE restored' = restored
  BY DEF Next, Command, vars, Open, LoadFresh, LoadCurrent, LoadPending, FinishLoadPending,
         LoadRefused, ReturnClean, WritePending, WriteTorn, SyncPending, WriteAnchor,
         WriteAnchorUncertain, VerifyAnchor, PublishRename, FinishCommit, Abort,
         PowerLoss, RestoreBackup

LEMMA FileInvStep ==
  ASSUME DirSyncs
  PROVE  FileInv /\ [Next]_vars => FileInv'
  <1> SUFFICES ASSUME FileInv, [Next]_vars PROVE FileInv'
    OBVIOUS
  <1>1. CommitInv'
    BY CommitInvStep DEF FileInv
  <1>2. CASE RestoreBackup \/ restored
    BY <1>1, <1>2, RestoredMoves DEF FileInv
  <1>3. CASE ~RestoreBackup /\ ~restored
    <2>1. FilesAgree'
      BY <1>3, FilesAgreeStep DEF FileInv
    <2>2. QED BY <1>1, <2>1 DEF FileInv
  <1>4. QED BY <1>2, <1>3

(* Where directory syncs reach the disk, the files stand as the commits     *)
(* left them until a backup is restored.                                    *)
THEOREM FilesStand ==
  ASSUME DirSyncs
  PROVE  Spec => []FileInv
  BY FileInvInit, FileInvStep, PTL DEF Spec

(* There the store never bricks a session it committed, whatever dies when; *)
(* only a restored backup does.                                             *)
THEOREM AlwaysRecoverable ==
  ASSUME DirSyncs
  PROVE  Spec => []Recoverable
  <1>1. FileInv => Recoverable
    BY DEF FileInv, FilesAgree, Recoverable
  <1>2. QED BY <1>1, FilesStand, PTL
=============================================================================
