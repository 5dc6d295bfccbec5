-------------------------------- MODULE Scene --------------------------------
(***************************************************************************)
(* What a pup shows (pet/activityPlayback.ts): the scene of its activity,  *)
(* changed only through a transition whose sheet must be loaded first, and *)
(* what a hug leaves behind (tucked.ts, away.ts, App.tsx:1404-1427).       *)
(* A render and the effects it causes are one step.  The pictures on the   *)
(* screen of a working pup, and its partner's copy, are left out.          *)
(***************************************************************************)
EXTENDS Naturals

CONSTANT Scenes  \* "work", "rest", "idle", ...

VARIABLES
    desired,     \* the scene of the activity last sampled
    displayed, transition,  \* useActivityPlayback; a transition is <<from, to>>
    sheet,       \* of the transition acquired: none, loading, ready, failed
    typing,      \* the paws are on the keyboard: ~workHandsSettled
    paused,      \* renderPaused: hidden or locked
    kept         \* the scenes of tucked and pawed that left something, as saved

vars == <<desired, displayed, transition, sheet, typing, paused, kept>>

None == <<>>
Keepsakes == {"rest", "idle"}  \* the blanket, the paw print

\* selfAsleep, selfAway.
In(scene) == displayed = scene /\ transition = None

Init ==
    /\ desired = "work" /\ displayed = "work" /\ transition = None /\ sheet = "none"
    /\ typing = FALSE /\ paused = FALSE /\ kept = {}

\* stillTucked, stillPawed: an effect of selfAsleep and selfAway, not of a hug.
Forget == kept' = {s \in kept : In(s)' \/ ~In(s)}

\* The sheet the first effect asks for, and whether it is there at once.
Acquire(from, to) == sheet' \in (IF from = to THEN {"none"} ELSE {"loading", "ready"})

\* beginTransition: the lease is taken anew, and the memory budget may have
\* evicted the sheet in between.
Begin(from, to) ==
    /\ transition' = <<from, to>> /\ UNCHANGED displayed
    /\ sheet' \in {"loading", "ready"}

\* The effects after a render without a transition: a sheet that is there is
\* played at once from the desk, when the paws are settled.
Settled(from, to, busy) ==
    /\ displayed' = from
    /\ \/ /\ Acquire(from, to)
          /\ transition' = None
          /\ (from = "work" /\ ~busy => sheet' # "ready")
       \/ from = "work" /\ to # from /\ ~busy
          /\ transition' = <<from, to>> /\ sheet' \in {"loading", "ready"}

\* Paused, nothing is asked for.
Held(from) == displayed' = from /\ transition' = None /\ sheet' = "none"

\* nextActivity has come to another activity.
Sample ==
    /\ desired' \in Scenes \ {desired}
    /\ IF paused THEN UNCHANGED <<displayed, transition, sheet>>
       ELSE IF transition # None THEN UNCHANGED <<displayed, transition>> /\ sheet' \in {"loading", "ready"}
       ELSE Settled(displayed, desired', typing)
    /\ Forget
    /\ UNCHANGED <<typing, paused>>

Type == ~typing /\ typing' = TRUE /\ UNCHANGED <<desired, displayed, transition, sheet, paused, kept>>

Settle ==
    /\ typing
    /\ typing' = FALSE
    /\ IF sheet = "ready" /\ transition = None /\ displayed = "work" /\ ~paused
       THEN Begin(displayed, desired)
       ELSE UNCHANGED <<displayed, transition, sheet>>
    /\ Forget
    /\ UNCHANGED <<desired, paused>>

\* assetRevision.
Loaded ==
    /\ sheet = "loading"
    /\ IF transition = None /\ displayed = "work" /\ ~typing THEN Begin(displayed, desired)
       ELSE sheet' = "ready" /\ UNCHANGED <<displayed, transition>>
    /\ Forget
    /\ UNCHANGED <<desired, typing, paused>>

\* Mutant: a missing sheet is waited for.
FailureIgnored == sheet' = "failed" /\ UNCHANGED <<displayed, transition>>

\* The catch handler: without its transition the pup is where it should be.
Failed ==
    IF transition # None THEN sheet' = "failed" /\ UNCHANGED <<displayed, transition>>
    ELSE displayed' = desired /\ sheet' = "none" /\ UNCHANGED transition

LoadFails ==
    /\ sheet = "loading"
    /\ Failed
    /\ Forget
    /\ UNCHANGED <<desired, typing, paused>>

\* handleLoopBoundary, of a scene that plays in a loop.
LoopBoundary ==
    /\ ~paused /\ displayed # "work" /\ transition = None /\ displayed # desired
    /\ sheet = "ready"
    /\ Begin(displayed, desired)
    /\ Forget
    /\ UNCHANGED <<desired, typing, paused>>

\* completeTransition, at the end of the animation or by its timer.
Complete ==
    /\ transition # None /\ ~paused
    /\ Settled(transition[2], desired, typing)
    /\ Forget
    /\ UNCHANGED <<desired, typing, paused>>

Pause ==
    /\ ~paused
    /\ paused' = TRUE /\ sheet' = "none"
    /\ UNCHANGED <<desired, displayed, transition, typing, kept>>

Resume ==
    /\ paused
    /\ paused' = FALSE
    /\ IF transition # None THEN sheet' \in {"loading", "ready"} /\ UNCHANGED <<displayed, transition>>
       ELSE Settled(displayed, desired, typing)
    /\ Forget
    /\ UNCHANGED <<desired, typing>>

\* onHugMoment: the hug is over, and the pup is still drawn in its scene.
Tuck ==
    /\ displayed \in Keepsakes
    /\ kept' = kept \cup {displayed}
    /\ UNCHANGED <<desired, displayed, transition, sheet, typing, paused>>

\* The App starts at its desk; what was kept is loaded, then the effects run.
Restart ==
    /\ desired' = "work" /\ displayed' = "work" /\ transition' = None /\ sheet' = "none"
    /\ typing' = FALSE /\ paused' = FALSE
    /\ kept' = {s \in kept : In(s)'}

Next ==
    \/ Sample \/ Type \/ Settle \/ Loaded \/ LoadFails \/ LoopBoundary \/ Complete
    \/ Pause \/ Resume \/ Tuck \/ Restart

\* Loops and transitions end, sheets load or fail, and paws come to rest.
Fairness ==
    WF_vars(Settle) /\ WF_vars(Loaded \/ LoadFails) /\ WF_vars(LoopBoundary) /\ WF_vars(Complete)
Spec == Init /\ [][Next]_vars
FairSpec == Spec /\ Fairness
-----------------------------------------------------------------------------
TypeOK ==
    /\ {desired, displayed} \subseteq Scenes
    /\ transition \in {None} \cup (Scenes \X Scenes)
    /\ sheet \in {"none", "loading", "ready", "failed"}
    /\ typing \in BOOLEAN /\ paused \in BOOLEAN /\ kept \subseteq Keepsakes
    /\ sheet = "failed" => transition # None

(* Once the activity stays and the pets are drawn, the pup comes to show    *)
(* it, whatever was in progress and whichever sheets are missing            *)
(* (activityPlayback.ts:99: "A missing transition must not leave a          *)
(* connected pet idle forever").                                            *)
ShowsIt == \A s \in Scenes : <>[](desired = s /\ ~paused) => <>[](displayed = s /\ transition = None)

(* A blanket and a paw print are gone once the pup is up or back            *)
(* (tucked.ts:4-5, App.tsx:1403).  The code keeps this only up to the next  *)
(* effect: a hug that ends in a transition keeps what the scene it comes    *)
(* from left, until forgetting is triggered again (App.tsx:1422-1427).      *)
GoneOnceUp == \A s \in kept : displayed = s

(* What a hug left is kept across a restart of the app (tucked.ts:5,        *)
(* away.ts:22).  The code does not keep this: the App starts with a working *)
(* pup, and its effect forgets what a sleeping one kept (App.tsx:1422).     *)
KeptOverRestart == [][Restart => kept' = kept]_vars
=============================================================================
