------------------------------- MODULE Playout -------------------------------
(***************************************************************************)
(* When a window of live typing plays (Playout, live/protocol.ts:57-100).  *)
(* A pulse is its window and its arrival.  The room forwards pulses in the *)
(* order they were sent, each once, late or not at all; a sender whose     *)
(* clock was set back sends windows again that have played.  Times are     *)
(* milliseconds, and the mean of the deviation is rounded down.            *)
(***************************************************************************)
EXTENDS Integers, Sequences, FiniteSets, Functions, SequencesExt

CONSTANTS Transits,  \* what a pulse may take
          Windows,   \* how many windows are sent
          Warm,      \* samples before the median counts: 10
          History    \* samples kept: 40

VARIABLES
    samples, offset, lastWindow,  \* of the Playout; no offset before the first pulse
    arrived, heard,               \* when the latest pulse came, and its window
    played                        \* what it plays: window, time, arrival; or nothing

playoutVars == <<samples, offset, lastWindow, arrived, heard, played>>

WINDOW_MS == 250
Nothing == [window |-> 0, at |-> 0, arrival |-> 0]
Lesser(a, b) == IF a < b THEN a ELSE b
Greater(a, b) == IF a > b THEN a ELSE b
Between(low, x, high) == Greater(low, Lesser(high, x))
Distance(a, b) == Greater(a - b, b - a)

Init ==
    /\ samples = <<>> /\ offset = <<>> /\ lastWindow = 0
    /\ arrived = 0 /\ heard = 0 /\ played = Nothing

Fastest(s) == Min(Range(s))
\* sorted[Math.floor(sorted.length / 2)]: the least that more than half of them do not exceed.
Median(s) == Min({x \in Range(s) : Cardinality({i \in DOMAIN s : s[i] <= x}) > Len(s) \div 2})
Deviation(s) == FoldLeft(LAMBDA sum, x : sum + Distance(x, Median(s)), 0, s) \div Len(s)

\* The next offset: initial, minimal and maximal buffer are 400, 250 and 1000 ms.
Target(s) == IF Len(s) < Warm THEN Fastest(s) + 400 ELSE Median(s) + 2 * Deviation(s)
Buffered(s) == Fastest(s) + Between(250, Target(s) - Fastest(s), 1000)

\* Mutant: the offset jumps to where it should be.
GentlyAtOnce(old, next) == next

\* Math.max(-20, Math.min(40, ...)).
Gently(old, next) == old + Between(-20, next - old, 40)

\* Mutant: a late window plays all the same.
InTimeAlways(at, arrival) == TRUE

\* A window that should have played already does not play.
InTime(at, arrival) == at >= arrival

\* accept.
Accept(window, arrival) ==
    LET transit == arrival - window * WINDOW_MS
        all == Append(samples, transit)
        kept == IF Len(all) > History THEN Tail(all) ELSE all
        next == IF offset = <<>> THEN Buffered(kept) ELSE Gently(offset[1], Buffered(kept))
        at == window * WINDOW_MS + next
    IN  /\ samples' = kept /\ offset' = <<next>>
        /\ IF InTime(at, arrival)
           THEN lastWindow' = window /\ played' = [window |-> window, at |-> at, arrival |-> arrival]
           ELSE UNCHANGED <<lastWindow, played>>

Arrives ==
    \E window \in 1 .. Windows, transit \in Transits :
        LET arrival == window * WINDOW_MS + transit
        IN  /\ arrival >= arrived /\ arrived' = arrival
            /\ \/ window > heard /\ heard' = window /\ Accept(window, arrival)
               \/ window <= lastWindow /\ UNCHANGED <<samples, offset, lastWindow, heard, played>>

Next == Arrives
Spec == Init /\ [][Next]_playoutVars
-----------------------------------------------------------------------------
TypeOK ==
    /\ Len(samples) <= History /\ Len(offset) <= 1
    /\ heard \in 0 .. Windows /\ lastWindow \in 0 .. heard

(* Paws never move backwards in time, however the delay falls: a later      *)
(* window plays later (protocol.ts:91), and none before it has come.        *)
PlaysLater == played # Nothing /\ played' # played => played'.at > played.at
PlaysInOrder == [][PlaysLater]_playoutVars
PlaysAfterArrival == played # Nothing => played.at >= played.arrival

(* "kept between 250 ms and 1 s above the fastest packet"                   *)
(* (protocol.ts:59-60).  The code does not keep this: the fastest sample    *)
(* changes at once, the offset by 20 ms or 40 ms with each pulse.           *)
KeptInBand ==
    offset # <<>> => offset[1] - Fastest(samples) \in 250 .. 1000
=============================================================================
