------------------------------ MODULE Updates -------------------------------
(***************************************************************************)
(* Looking for a newer version, installing it, and saying once what it     *)
(* brings (App.tsx, services/update.ts, whatsNew.ts).  A check or an       *)
(* installation is one request that may fail; the updater and its handles  *)
(* are external.  Progress reports, the manifest of a browser and the      *)
(* panels that put an automatic installation off are left out.             *)
(***************************************************************************)
EXTENDS Naturals

CONSTANTS
    Last,  \* the last version published; versions are 0 .. Last
    News   \* those with something to say

VARIABLES
    published, installed,
    first,       \* history: the version of the first start on record
    ran,         \* has an earlier run left its data (EARLIER_RUN_KEYS)
    seen,        \* mewlink.whatsNew.seen, or None
    news,        \* whatsNew: the version whose news are shown, or None
    told,        \* history: versions whose news were closed
    starting,    \* the version is being asked for after the start
    busy,        \* updateBusyRef: none, or what runs
    pending,     \* pendingUpdateRef: the version of the handle, or None
    handles,     \* open handles of the updater
    autoInstall, \* autoInstallVersion is set
    quiet        \* quietMoment

vars == <<published, installed, first, ran, seen, news, told, starting, busy, pending, handles,
          autoInstall, quiet>>
updater == <<busy, pending, handles, autoInstall>>
cloud == <<ran, seen, news, told, starting>>

None == Last + 1
Versions == 0 .. Last
Idle == [step |-> "none", install |-> FALSE, automatic |-> FALSE]

\* The installation is fresh, or an earlier version that recorded no version ran before.
Init ==
    /\ published = 0 /\ installed = 0 /\ ran \in BOOLEAN
    /\ first = (IF ran THEN None ELSE 0)
    /\ seen = None /\ news = None /\ told = {} /\ starting = TRUE
    /\ busy = Idle /\ pending = None /\ handles = 0 /\ autoInstall = FALSE /\ quiet = TRUE

Publish ==
    /\ published < Last
    /\ published' = published + 1
    /\ UNCHANGED <<installed, first, quiet, updater, cloud>>

StepAway ==
    /\ quiet' = ~quiet
    /\ UNCHANGED <<published, installed, first, updater, cloud>>

\* The effects of the first render: the preferences are saved before the
\* version has been asked for (App.tsx:941).
SavePreferences ==
    /\ ~ran
    /\ ran' = TRUE
    /\ UNCHANGED <<published, installed, first, seen, news, told, starting, quiet, updater>>

\* whatsNewToShow.
ShowNews ==
    /\ starting /\ ran
    /\ starting' = FALSE
    /\ LET updated == IF seen # None THEN installed > seen ELSE ran
       IN IF updated /\ installed \in News
          THEN news' = installed /\ UNCHANGED seen
          ELSE /\ seen' = IF seen = None \/ installed > seen THEN installed ELSE seen
               /\ UNCHANGED news
    /\ UNCHANGED <<published, installed, first, ran, told, quiet, updater>>

\* Mutant: the cloud is closed for this start only.
CloseUnmarked == UNCHANGED seen

\* markWhatsNewSeen.
Mark == seen' = news

CloseNews ==
    /\ news # None
    /\ Mark
    /\ news' = None /\ told' = told \cup {news}
    /\ UNCHANGED <<published, installed, first, ran, starting, quiet, updater>>

\* runUpdateCheck, by a timer or from the settings; the old handle is closed first.
Check(install, automatic) ==
    /\ busy = Idle
    /\ busy' = [step |-> "check", install |-> install, automatic |-> automatic]
    /\ handles' = IF pending = None THEN handles ELSE handles - 1
    /\ pending' = None
    /\ UNCHANGED autoInstall

CheckNow ==
    /\ \/ Check(FALSE, TRUE) \/ Check(FALSE, FALSE)
       \* installPendingUpdate without a handle, by a click.
       \/ pending = None /\ Check(TRUE, FALSE)
    /\ UNCHANGED <<published, installed, first, quiet, cloud>>

\* The native check has answered.
Checked ==
    /\ busy.step = "check"
    /\ IF published > installed
       THEN /\ pending' = published /\ handles' = handles + 1
            /\ busy' = IF busy.install THEN [busy EXCEPT !.step = "install"] ELSE Idle
            /\ autoInstall' = (autoInstall \/ (busy.automatic /\ ~busy.install))
       ELSE busy' = Idle /\ UNCHANGED <<pending, handles, autoInstall>>
    /\ UNCHANGED <<published, installed, first, quiet, cloud>>

\* Mutant: a failure leaves the updater busy.
FreedOnSuccess == UNCHANGED busy

\* The finally blocks.
Freed == busy' = Idle

\* Both native attempts and the manifest fail.
CheckFails ==
    /\ busy.step = "check"
    /\ Freed
    /\ UNCHANGED <<pending, handles, autoInstall, published, installed, first, quiet, cloud>>

\* installPendingUpdate: a click, or the effect of a quiet moment.
Install ==
    IF busy # Idle THEN UNCHANGED <<busy, pending, handles>>
    ELSE IF pending = None
    THEN /\ busy' = [step |-> "check", install |-> TRUE, automatic |-> FALSE]
         /\ UNCHANGED <<pending, handles>>
    ELSE busy' = [Idle EXCEPT !.step = "install"] /\ UNCHANGED <<pending, handles>>

InstallClicked ==
    /\ pending # None
    /\ Install
    /\ UNCHANGED <<autoInstall, published, installed, first, quiet, cloud>>

InstallQuietly ==
    /\ autoInstall /\ quiet
    /\ autoInstall' = FALSE
    /\ Install
    /\ UNCHANGED <<published, installed, first, quiet, cloud>>

\* The download or the installation fails: only installPendingUpdate gives the handle back.
InstallFails ==
    /\ busy.step = "install"
    /\ Freed
    /\ IF busy.install THEN UNCHANGED <<pending, handles>>
       ELSE pending' = None /\ handles' = handles - 1
    /\ UNCHANGED <<autoInstall, published, installed, first, quiet, cloud>>

\* The App starts anew: what it knew of the updater is gone.
Started(version) ==
    /\ installed' = version
    /\ busy' = Idle /\ pending' = None /\ handles' = 0 /\ autoInstall' = FALSE
    /\ news' = None /\ starting' = TRUE /\ quiet' = TRUE
    /\ UNCHANGED <<published, first, ran, seen, told>>

Installed == busy.step = "install" /\ Started(pending)
Restart == Started(installed)

Next ==
    \/ Publish \/ StepAway \/ SavePreferences \/ ShowNews \/ CloseNews
    \/ CheckNow \/ Checked \/ CheckFails
    \/ InstallClicked \/ InstallQuietly \/ InstallFails \/ Installed \/ Restart

\* Every request ends, one way or the other.
Fairness == WF_vars(Checked \/ CheckFails) /\ WF_vars(Installed \/ InstallFails)
Spec == Init /\ [][Next]_vars
FairSpec == Spec /\ Fairness
-----------------------------------------------------------------------------
TypeOK ==
    /\ {published, installed} \subseteq Versions /\ {first, seen, news, pending} \subseteq 0 .. None
    /\ ran \in BOOLEAN /\ starting \in BOOLEAN /\ autoInstall \in BOOLEAN /\ quiet \in BOOLEAN
    /\ told \subseteq Versions /\ handles \in Nat
    /\ busy.step \in {"none", "check", "install"}

(* The updater's resources follow the one reference: no check, click, quiet *)
(* moment or failure leaves a handle open that nothing can close            *)
(* (App.tsx:332, 363).                                                      *)
OneHandle == handles = IF pending = None THEN 0 ELSE 1

(* News that were closed never come back (whatsNew.ts:97-98).               *)
ToldOnce == news \notin told

(* Only an update brings news, never a fresh installation                   *)
(* (whatsNew.ts:97; whatsNew.test.ts:12 "never on a fresh install").        *)
NoNewsOnFreshInstall == news # None => installed # first

(* The updater answers again after every check and installation, also those *)
(* that fail half way (App.tsx:344-346, 364-366).                           *)
ComesFree == busy # Idle ~> busy = Idle

(* The invariant of the runs: the handles and the news are kept in order.   *)
UpdatesSafe == TypeOK /\ OneHandle /\ ToldOnce
=============================================================================
