---------------------------- MODULE SessionVault ----------------------------
(***************************************************************************)
(* The native session store (src-tauri/src/ratchet/store.rs) as every      *)
(* ratchet command uses it (src-tauri/src/ratchet/mod.rs): take the        *)
(* cross-process lock, load the snapshot the OS credential vouches for,    *)
(* and, if the command changed it, commit a successor:                     *)
(*                                                                         *)
(*   write and sync ratchet.pending, sync the directory, write and read    *)
(*   back the OS credential, rename to ratchet.bin, sync the directory.    *)
(*                                                                         *)
(* A snapshot is a number: each commit encrypts under a fresh key and      *)
(* nonce, so no two have the same bytes and a digest names exactly one.    *)
(* The encryption itself is abstracted away.  The credential is the number *)
(* of the snapshot whose digest (and key) it holds, 0 when there is none.  *)
(*                                                                         *)
(* The file system keeps a directory in memory (cur, pend) and, until the  *)
(* directory is synced, a set of older directories a power loss may leave  *)
(* behind (views).  Directory operations reach the disk in order; the data *)
(* of a file is on disk once sync_all returned.                            *)
(***************************************************************************)
EXTENDS Naturals

CONSTANTS
    Procs,           \* threads and processes that run a ratchet command
    MaxCommits,      \* bound on the snapshots ever made
    DirSyncs,        \* does sync_directory do anything (Unix) or not (elsewhere)
    BackupRestores,  \* may a file backup replace ratchet.bin between commands
    NoOne,           \* nobody holds ratchet.lock
    Absent,          \* content of a file that does not exist
    Torn             \* content of a file whose writing was cut short

ASSUME VaultAssumption ==
    /\ MaxCommits \in Nat
    /\ DirSyncs \in BOOLEAN
    /\ BackupRestores \in BOOLEAN
    /\ NoOne \notin Procs
    /\ Absent \notin Nat
    /\ Torn \notin Nat
    /\ Absent # Torn

VARIABLES
    cur,       \* content of ratchet.bin
    pend,      \* content of ratchet.pending
    views,     \* the <<ratchet.bin, ratchet.pending>> pairs a power loss may leave
    anchor,    \* snapshot the OS credential vouches for, 0 for no credential
    lock,      \* holder of ratchet.lock
    pc,        \* how far each command has got
    base,      \* the snapshot each command loaded
    staged,    \* the snapshot each command is committing
    made,      \* number of snapshots made so far
    released,  \* last snapshot whose commit returned success to its caller
    restored   \* history: a backup has been restored

files == <<cur, pend, views>>
vars == <<files, anchor, lock, pc, base, staged, made, released, restored>>

Stages == {"idle", "opened", "recovering", "ready", "written", "staged",
           "anchored", "verified", "renamed"}
Snapshots == Nat \ {0}
Contents == Snapshots \cup {Absent, Torn}

TypeOK ==
    /\ cur \in Contents
    /\ pend \in Contents
    /\ views \in SUBSET (Contents \X Contents)
    /\ anchor \in Nat
    /\ lock \in Procs \cup {NoOne}
    /\ pc \in [Procs -> Stages]
    /\ base \in [Procs -> Nat]
    /\ staged \in [Procs -> Nat]
    /\ made \in Nat
    /\ released \in Nat
    /\ restored \in BOOLEAN

Init ==
    /\ cur = Absent
    /\ pend = Absent
    /\ views = {<<Absent, Absent>>}
    /\ anchor = 0
    /\ lock = NoOne
    /\ pc = [p \in Procs |-> "idle"]
    /\ base = [p \in Procs |-> 0]
    /\ staged = [p \in Procs |-> 0]
    /\ made = 0
    /\ released = 0
    /\ restored = FALSE

-----------------------------------------------------------------------------
\* Steps of a command.

Goto(p, stage) == pc' = [pc EXCEPT ![p] = stage]

\* The command ends and its Vault is dropped, which closes the lock file.
Leave(p) == Goto(p, "idle") /\ lock' = NoOne

\* sync_directory: what the directory says now is what a power loss leaves.
SyncDirectory == views' = IF DirSyncs THEN {<<cur, pend>>} ELSE views

\* Opening ratchet.pending truncates an existing file in place, so an older
\* directory that still names that file loses its content as well.
PutPending(content) ==
    /\ pend' = content
    /\ cur' = cur
    /\ views' = {IF pend # Absent /\ v[2] = pend THEN <<v[1], content>> ELSE v : v \in views}
                  \cup {<<cur, content>>}

\* Mutant of RenamePending: a copy, which leaves ratchet.pending behind.
CopyPending ==
    /\ cur' = pend
    /\ pend' = pend
    /\ views' = views \cup {<<pend, pend>>}

\* fs::rename(ratchet.pending, ratchet.bin)
RenamePending ==
    /\ cur' = pend
    /\ pend' = Absent
    /\ views' = views \cup {<<pend, Absent>>}

\* Mutant of Open: the lock is taken over instead of waited for.
OpenUnlocked(p) ==
    /\ pc[p] = "idle"
    /\ lock' = p
    /\ Goto(p, "opened")
    /\ UNCHANGED <<files, anchor, base, staged, made, released, restored>>

\* Vault::open: blocks until the lock file is free.
Open(p) ==
    /\ pc[p] = "idle"
    /\ lock = NoOne
    /\ lock' = p
    /\ Goto(p, "opened")
    /\ UNCHANGED <<files, anchor, base, staged, made, released, restored>>

\* load with no credential and no files: a store that was never used.
LoadFresh(p) ==
    /\ pc[p] = "opened"
    /\ anchor = 0
    /\ cur = Absent /\ pend = Absent
    /\ base' = [base EXCEPT ![p] = 0]
    /\ Goto(p, "ready")
    /\ UNCHANGED <<files, anchor, lock, staged, made, released, restored>>

\* Mutant of LoadCurrent: whatever ratchet.bin holds is loaded.
LoadCurrentUnchecked(p) ==
    /\ pc[p] = "opened"
    /\ anchor # 0
    /\ cur \in Snapshots
    /\ base' = [base EXCEPT ![p] = cur]
    /\ Goto(p, "ready")
    /\ UNCHANGED <<files, anchor, lock, staged, made, released, restored>>

\* load finds the vouched snapshot in ratchet.bin, which it tries first.
LoadCurrent(p) ==
    /\ pc[p] = "opened"
    /\ anchor # 0
    /\ cur = anchor
    /\ base' = [base EXCEPT ![p] = anchor]
    /\ Goto(p, "ready")
    /\ UNCHANGED <<files, anchor, lock, staged, made, released, restored>>

\* load finds it in ratchet.pending: a crash hit between the credential and
\* the rename, which load now finishes.
LoadPending(p) ==
    /\ pc[p] = "opened"
    /\ anchor # 0
    /\ cur # anchor
    /\ pend = anchor
    /\ RenamePending
    /\ base' = [base EXCEPT ![p] = anchor]
    /\ Goto(p, "recovering")
    /\ UNCHANGED <<anchor, lock, staged, made, released, restored>>

FinishLoadPending(p) ==
    /\ pc[p] = "recovering"
    /\ SyncDirectory
    /\ Goto(p, "ready")
    /\ UNCHANGED <<cur, pend, anchor, lock, base, staged, made, released, restored>>

\* Mutant of LoadRefused: a store that fails validation starts over.
LoadRefusedResets(p) ==
    /\ pc[p] = "opened"
    /\ anchor # 0 /\ cur # anchor /\ pend # anchor
    /\ anchor' = 0
    /\ Leave(p)
    /\ UNCHANGED <<files, base, staged, made, released, restored>>

\* load refuses: files without a credential, or no file the credential
\* vouches for.  The command returns the error and changes nothing.
LoadRefused(p) ==
    /\ pc[p] = "opened"
    /\ \/ anchor = 0 /\ (cur # Absent \/ pend # Absent)
       \/ anchor # 0 /\ cur # anchor /\ pend # anchor
    /\ Leave(p)
    /\ UNCHANGED <<files, anchor, base, staged, made, released, restored>>

\* The command read the state only, or refused its input: nothing to commit.
ReturnClean(p) ==
    /\ pc[p] = "ready"
    /\ Leave(p)
    /\ UNCHANGED <<files, anchor, base, staged, made, released, restored>>

\* commit: ratchet.pending is written and its data synced.
WritePending(p) ==
    /\ pc[p] = "ready"
    /\ made < MaxCommits
    /\ made' = made + 1
    /\ staged' = [staged EXCEPT ![p] = made + 1]
    /\ PutPending(made + 1)
    /\ Goto(p, "written")
    /\ UNCHANGED <<anchor, lock, base, released, restored>>

\* The disk fills up, or the process dies, while ratchet.pending is written.
WriteTorn(p) ==
    /\ pc[p] = "ready"
    /\ made < MaxCommits
    /\ PutPending(Torn)
    /\ Leave(p)
    /\ UNCHANGED <<anchor, base, staged, made, released, restored>>

\* Mutant of SyncPending: the directory entry of ratchet.pending is not synced.
SyncPendingSkipped(p) ==
    /\ pc[p] = "written"
    /\ Goto(p, "staged")
    /\ UNCHANGED <<files, anchor, lock, base, staged, made, released, restored>>

\* Mutant of SyncPending: success is reported once the pending file is safe.
SyncPendingReleases(p) ==
    /\ pc[p] = "written"
    /\ SyncDirectory
    /\ released' = staged[p]
    /\ Goto(p, "staged")
    /\ UNCHANGED <<cur, pend, anchor, lock, base, staged, made, restored>>

SyncPending(p) ==
    /\ pc[p] = "written"
    /\ SyncDirectory
    /\ Goto(p, "staged")
    /\ UNCHANGED <<cur, pend, anchor, lock, base, staged, made, released, restored>>

WriteAnchor(p) ==
    /\ pc[p] = "staged"
    /\ anchor' = staged[p]
    /\ Goto(p, "anchored")
    /\ UNCHANGED <<files, lock, base, staged, made, released, restored>>

\* The credential store takes the new record and still reports an error, or
\* the process dies before it hears the answer.
WriteAnchorUncertain(p) ==
    /\ pc[p] = "staged"
    /\ anchor' = staged[p]
    /\ Leave(p)
    /\ UNCHANGED <<files, base, staged, made, released, restored>>

VerifyAnchor(p) ==
    /\ pc[p] = "anchored"
    /\ anchor = staged[p]
    /\ Goto(p, "verified")
    /\ UNCHANGED <<files, anchor, lock, base, staged, made, released, restored>>

PublishRename(p) ==
    /\ pc[p] = "verified"
    /\ RenamePending
    /\ Goto(p, "renamed")
    /\ UNCHANGED <<anchor, lock, base, staged, made, released, restored>>

\* The directory is synced and commit returns success: only now may the
\* caller release ciphertext or plaintext.
FinishCommit(p) ==
    /\ pc[p] = "renamed"
    /\ SyncDirectory
    /\ released' = staged[p]
    /\ Leave(p)
    /\ UNCHANGED <<cur, pend, anchor, base, staged, made, restored>>

\* Any other failure: an I/O or credential error returned with `?`, or the
\* death of the process (the operating system drops its lock).
Abort(p) ==
    /\ pc[p] # "idle"
    /\ Leave(p)
    /\ UNCHANGED <<files, anchor, base, staged, made, released, restored>>

-----------------------------------------------------------------------------
\* The machine and its owner.

\* Power is lost: every command dies, and the disk keeps one of the
\* directories not yet known to be overwritten.
PowerLoss ==
    /\ \E v \in views :
         /\ cur' = v[1]
         /\ pend' = v[2]
         /\ views' = {v}
    /\ lock' = NoOne
    /\ pc' = [p \in Procs |-> "idle"]
    /\ UNCHANGED <<anchor, base, staged, made, released, restored>>

\* A file backup puts an older snapshot back in place of ratchet.bin while
\* no command runs.  The credential is not part of it.
RestoreBackup ==
    /\ BackupRestores
    /\ lock = NoOne
    /\ \E old \in 1..made :
         /\ old # cur
         /\ cur' = old
         /\ views' = {<<old, pend>>}
    /\ restored' = TRUE
    /\ UNCHANGED <<pend, anchor, lock, pc, base, staged, made, released>>

Command(p) ==
    \/ Open(p)
    \/ LoadFresh(p)
    \/ LoadCurrent(p)
    \/ LoadPending(p)
    \/ FinishLoadPending(p)
    \/ LoadRefused(p)
    \/ ReturnClean(p)
    \/ WritePending(p)
    \/ WriteTorn(p)
    \/ SyncPending(p)
    \/ WriteAnchor(p)
    \/ WriteAnchorUncertain(p)
    \/ VerifyAnchor(p)
    \/ PublishRename(p)
    \/ FinishCommit(p)
    \/ Abort(p)

Next == (\E p \in Procs : Command(p)) \/ PowerLoss \/ RestoreBackup

Spec == Init /\ [][Next]_vars

-----------------------------------------------------------------------------
\* Properties.

VouchedOnDisk == anchor # 0 => \A v \in views : v[1] = anchor \/ v[2] = anchor

(* A crash or failure at any point, a power loss included, leaves a file    *)
(* that the credential vouches for: a session that was ever committed is    *)
(* never bricked by the store's own doing, but only by a restored backup    *)
(* (Vault::load's "ratchet_rollback_or_corruption").                        *)
Recoverable == restored \/ VouchedOnDisk

(* Two commands never commit successors of the same snapshot, and no        *)
(* command commits one of a snapshot that is no longer the vouched one:     *)
(* a forked ratchet would reuse message keys.                               *)
NoFork == [][anchor' # anchor =>
                \E p \in Procs : base[p] = anchor /\ staged[p] = anchor']_vars

(* What a commit returned success for is never rolled back, whatever dies   *)
(* and whichever older file comes back.                                     *)
ReleasedIsDurable == released <= anchor

(* The store implements the register its callers think they use.            *)
Register == INSTANCE DurableRegister WITH state <- anchor, acked <- released
ImplementsRegister == Register!Spec

(* A store without a credential is still usable: whatever failed in a first *)
(* commit, the next command can start over.  The code does not keep this: a *)
(* commit that stops between the pending file and the first anchor leaves a *)
(* file without an anchor, which every later load refuses (store.rs:131).   *)
FirstCommitCanBeRetried == anchor = 0 /\ lock = NoOne => cur = Absent /\ pend = Absent
-----------------------------------------------------------------------------
\* Why it works: the invariants the proofs in SessionVaultProofs rest on.

(* A command in progress is the holder of the lock, and there is one.       *)
LockHeld == \A p \in Procs : pc[p] # "idle" <=> lock = p

(* What a command holds in its hand: until it writes the credential, what   *)
(* it loaded is still the vouched snapshot and what it stages is newer;     *)
(* afterwards what it staged is the vouched one.                            *)
InHand(p) ==
    /\ pc[p] \in {"recovering", "ready", "written", "staged"} => base[p] = anchor
    /\ pc[p] \in {"written", "staged"} => staged[p] > anchor /\ staged[p] <= made
    /\ pc[p] \in {"anchored", "verified", "renamed"} => staged[p] = anchor

(* The lock alone carries these: they need no file to be where it should.   *)
CommitInv ==
    /\ TypeOK
    /\ LockHeld
    /\ released <= anchor
    /\ anchor <= made
    /\ \A p \in Procs : InHand(p)

(* Each snapshot is in one file of a directory, no older than the last one  *)
(* made, and ratchet.bin is never torn.                                     *)
Intact(v) ==
    /\ v[1] = v[2] => v[1] = Absent
    /\ v[1] # Torn
    /\ \A i \in {1, 2} : v[i] \in Nat => v[i] <= made

(* The files a command relies on at each stage.                             *)
FilesReady(p) ==
    /\ pc[p] \in {"recovering", "ready", "written", "staged"} => anchor = 0 \/ cur = anchor
    /\ pc[p] \in {"written", "staged", "anchored", "verified"} => pend = staged[p]
    /\ pc[p] = "staged" => views = {<<cur, pend>>}

FilesAgree ==
    /\ VouchedOnDisk
    /\ <<cur, pend>> \in views
    /\ \A v \in views : Intact(v)
    /\ \A p \in Procs : FilesReady(p)

(* Until a backup is restored the files stand as the commits left them.     *)
FileInv == CommitInv /\ (restored \/ FilesAgree)
=============================================================================
