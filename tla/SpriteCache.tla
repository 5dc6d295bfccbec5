----------------------------- MODULE SpriteCache -----------------------------
(***************************************************************************)
(* The cache of decoded sprite sheets (pet/bitmapCache.ts), shared by the  *)
(* canvases, the transitions and the preloads: leases are counted, sheets  *)
(* nobody holds are evicted from the longest untouched on, and while the   *)
(* pets are hidden everything unused goes.  Images decode in any order, or *)
(* not at all (spriteAssets.ts).                                           *)
(***************************************************************************)
EXTENDS Naturals, Sequences, FiniteSets, Functions, FiniteSetsExt, SequencesExt

CONSTANTS
    Sheets, Bytes,  \* names, and the decoded size of each
    Budget,
    MaxLoads, MaxHeld  \* bounds: loads, and leases of one entry

VARIABLES
    entries,      \* name :> [id, references, loaded]; each load has an id of its own
    touched,      \* the names, the longest untouched first
    loading,      \* ids whose image is still being decoded
    nameOf,       \* the name of each id
    held,         \* the leases not released, by id
    resolved,     \* ids whose leases got their sheet
    live,         \* ids whose bitmap was made and not disposed of
    constrained

vars == <<entries, touched, loading, nameOf, held, resolved, live, constrained>>

Init ==
    /\ entries = <<>> /\ touched = <<>> /\ loading = {} /\ nameOf = <<>> /\ held = <<>>
    /\ resolved = {} /\ live = {} /\ constrained = FALSE

Loaded(table) == {k \in DOMAIN table : table[k].loaded}
BytesOf(table) == MapThenSumSet(LAMBDA k : Bytes[k], Loaded(table))
Without(table, k) == Restrict(table, DOMAIN table \ {k})

ClearUnused(table) == Restrict(table, {k \in DOMAIN table : table[k].references > 0})

\* Mutant: leases do not protect a sheet.
EvictedHeld(table, k) == BytesOf(table) > Budget /\ table[k].loaded

Evicted(table, k) == BytesOf(table) > Budget /\ table[k].references = 0 /\ table[k].loaded

\* trim; the names are in the order of their last touch.
Trim(table) ==
    IF constrained THEN ClearUnused(table)
    ELSE FoldLeft(LAMBDA t, k : IF k \in DOMAIN t /\ Evicted(t, k) THEN Without(t, k) ELSE t,
                  table, touched)

\* A value that left the table was disposed of.
Keep(table, bitmaps) ==
    /\ entries' = table
    /\ live' = {id \in bitmaps : \E k \in Loaded(table) : table[k].id = id}

Touch(k) == touched' = Append(RemoveFirst(touched, k), k)

Acquire(k) ==
    LET new == Len(nameOf) + 1
        known == k \in DOMAIN entries
        id == IF known THEN entries[k].id ELSE new
    IN /\ IF known THEN held[id] < MaxHeld ELSE new <= MaxLoads
       /\ entries' = IF known THEN [entries EXCEPT ![k].references = @ + 1]
                     ELSE [x \in DOMAIN entries \cup {k} |->
                             IF x = k THEN [id |-> id, references |-> 1, loaded |-> FALSE] ELSE entries[x]]
       /\ nameOf' = IF known THEN nameOf ELSE Append(nameOf, k)
       /\ held' = IF known THEN [held EXCEPT ![id] = @ + 1] ELSE Append(held, 1)
       /\ loading' = IF known THEN loading ELSE loading \cup {id}
       /\ Touch(k)
       /\ UNCHANGED <<resolved, live, constrained>>

IsEntry(id) == nameOf[id] \in DOMAIN entries /\ entries[nameOf[id]].id = id

\* Mutant: a load that was given up is only forgotten.
GivenUpOpen(id) == live' = live \cup {id}

\* The entry was removed while its image was decoded: the value is disposed of.
GivenUp(id) == UNCHANGED live

Decoded(id) ==
    /\ id \in loading
    /\ loading' = loading \ {id}
    /\ IF IsEntry(id)
       THEN /\ resolved' = resolved \cup {id}
            /\ Keep(Trim([entries EXCEPT ![nameOf[id]].loaded = TRUE]), live \cup {id})
       ELSE GivenUp(id) /\ UNCHANGED <<entries, resolved>>
    /\ UNCHANGED <<touched, nameOf, held, constrained>>

LoadFails(id) ==
    /\ id \in loading
    /\ loading' = loading \ {id}
    /\ entries' = IF IsEntry(id) THEN Without(entries, nameOf[id]) ELSE entries
    /\ UNCHANGED <<touched, nameOf, held, resolved, live, constrained>>

\* Mutant: only a new sheet makes room.
ReleasedUntrimmed(table) == table

\* What a release leaves in the table.
Released(table) == Trim(table)

\* A lease is released once, also when its entry was replaced meanwhile.
Release(id) ==
    /\ id \in DOMAIN held /\ held[id] > 0
    /\ held' = [held EXCEPT ![id] = @ - 1]
    /\ LET left == IF IsEntry(id) THEN [entries EXCEPT ![nameOf[id]].references = @ - 1] ELSE entries
       IN Keep(Released(left), live)
    /\ UNCHANGED <<touched, loading, nameOf, resolved, constrained>>

\* useRenderBudget.
SetConstrained ==
    /\ constrained' = ~constrained
    /\ IF constrained' THEN Keep(ClearUnused(entries), live) ELSE UNCHANGED <<entries, live>>
    /\ UNCHANGED <<touched, loading, nameOf, held, resolved>>

Next ==
    \/ \E k \in Sheets : Acquire(k)
    \/ \E id \in DOMAIN nameOf : Decoded(id) \/ LoadFails(id) \/ Release(id)
    \/ SetConstrained
Spec == Init /\ [][Next]_vars
-----------------------------------------------------------------------------
TypeOK ==
    /\ DOMAIN entries \subseteq Sheets /\ live \subseteq DOMAIN nameOf
    /\ loading \subseteq DOMAIN nameOf /\ resolved \cap loading = {}
    /\ \A k \in DOMAIN entries : entries[k].references = held[entries[k].id]

(* A canvas that got its sheet can draw it for as long as it holds its      *)
(* lease: no eviction, no second load of the same name and no hiding of the *)
(* window closes a bitmap in use (bitmapCache.ts:4).                        *)
LeasedStays == \A id \in resolved : held[id] > 0 => id \in live

(* Every bitmap ever decoded is in the table, where it can be reused and    *)
(* evicted, or was disposed of, also when its load was given up while it    *)
(* was decoded (bitmapCache.ts:5, :17).                                     *)
NothingLeaks == live = {entries[k].id : k \in Loaded(entries)}

(* The budget is exceeded only by what is in use, and hidden pets hold      *)
(* nothing that is not (bitmapCache.ts:4-5).                                *)
WithinBudget ==
    /\ BytesOf(entries) > Budget => \A k \in Loaded(entries) : entries[k].references > 0
    /\ constrained => \A k \in DOMAIN entries : entries[k].references > 0

(* The invariant of the runs: no sheet in use is closed, none is lost, none *)
(* is kept without need.                                                    *)
CacheSafe == TypeOK /\ LeasedStays /\ NothingLeaks /\ WithinBudget
=============================================================================
