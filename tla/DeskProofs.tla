----------------------------- MODULE DeskProofs -----------------------------
(***************************************************************************)
(* What TLAPS proves of the parts of the pets' window, for any constants:  *)
(* the safety invariants the run of MCDesk checks of the credential gate,  *)
(* the updater, the pomodoro, the pointer, a drag, the window and the      *)
(* cache of sheets, each from an inductive invariant of its own.           *)
(*                                                                         *)
(* A step of one part leaves the variables of the others (PartSteps), so   *)
(* each part is proved for its own initial states and its own steps.       *)
(***************************************************************************)
EXTENDS Desk, Sequences, TLAPS, FiniteSetTheorems, NaturalsInduction, WellFoundedInduction

(* What a step of the window is for its part.                               *)
LEMMA PartSteps ==
    [Next]_deskVars =>
        /\ part' = part
        /\ part = "gate" => [Gate!Next]_gateVars
        /\ part = "stats" => [Stats!Next]_statsVars
        /\ part = "pomodoro" => [Timer!Next]_pomodoroVars
        /\ part = "updates" => [Updater!Next]_updatesVars
        /\ part = "cache" => [Sprites!Next]_cacheVars
        /\ part = "cups" => [Cup!Next]_cupsVars
        /\ part = "pointer" => [Mouse!Next]_pointerVars
        /\ part = "drag" => [Dragging!Next]_dragVars
        /\ part = "window" => [Window!Next]_windowVars
        /\ part = "presence" => [TA!Next]_presenceVars
        /\ part = "playout" => [Paws!Next]_playoutVars
        /\ part = "replay" => [Player!Next]_replayVars
  BY DEF Next, Others, deskVars

-----------------------------------------------------------------------------
(* Sequences.                                                               *)

(* An element comes to the end of a sequence.                               *)
LEMMA AppendIs ==
    ASSUME NEW S, NEW s \in Seq(S), NEW x \in S
    PROVE  /\ Append(s, x) \in Seq(S) /\ Len(Append(s, x)) = Len(s) + 1
           /\ Append(s, x) # <<>> /\ Append(s, x)[Len(s) + 1] = x
           /\ \A i \in 1 .. Len(s) : Append(s, x)[i] = s[i]
  OBVIOUS

(* The first element leaves a sequence.                                     *)
LEMMA TailIs ==
    ASSUME NEW S, NEW s \in Seq(S), s # <<>>
    PROVE  /\ Tail(s) \in Seq(S) /\ Len(Tail(s)) = Len(s) - 1 /\ Len(s) \in Nat \ {0}
           /\ Head(s) = s[1] /\ Head(s) \in S
           /\ \A i \in 1 .. Len(s) - 1 : Tail(s)[i] = s[i + 1]
  OBVIOUS

-----------------------------------------------------------------------------
(* Naturals.                                                                *)

(* A set of naturals has a least element.                                   *)
LEMMA LeastNatural ==
    ASSUME NEW S, S \subseteq Nat, S # {}
    PROVE  \E x \in S : \A y \in S : x <= y
  <1>1. PICK x \in S : \A y \in S : ~(<<y, x>> \in OpToRel(<, Nat))
    BY NatLessThanWellFounded, WFMin, Zenon
  <1>2. ASSUME NEW y \in S PROVE x <= y
    <2>1. x \in Nat /\ y \in Nat
      OBVIOUS
    <2>2. ~(y < x)
      BY <1>1, <2>1, Zenon DEF OpToRel
    <2>3. QED BY <2>1, <2>2
  <1>3. QED BY <1>2, Zenon

(* A bounded one has a greatest.                                            *)
LEMMA GreatestNatural ==
    ASSUME NEW S, S \subseteq Nat, S # {}, NEW n \in Nat, \A y \in S : y <= n
    PROVE  \E x \in S : \A y \in S : x >= y
  <1> DEFINE T == {n - x : x \in S}
  <1>1. T \subseteq Nat /\ T # {}
    <2>1. \A x \in S : x \in Nat /\ n - x \in Nat
      OBVIOUS
    <2>2. QED BY <2>1, Zenon
  <1> HIDE DEF T
  <1>2. PICK t \in T : \A u \in T : t <= u
    BY <1>1, LeastNatural, Zenon
  <1>3. PICK x \in S : t = n - x
    BY <1>2, Zenon DEF T
  <1>4. ASSUME NEW y \in S PROVE x >= y
    <2>1. n - y \in T
      BY Zenon DEF T
    <2>2. n - x <= n - y
      BY <1>2, <1>3, <2>1, Zenon
    <2>3. QED BY <2>2
  <1>5. QED BY <1>4, Zenon

(* A finite set of integers has a least member.                             *)
LEMMA LeastInteger ==
    ASSUME NEW S, S \subseteq Int, S # {}, IsFiniteSet(S)
    PROVE  \E x \in S : \A y \in S : x <= y
  <1> DEFINE Sizes == {n \in Nat : \E T \in SUBSET S : /\ T # {} /\ Cardinality(T) = n
                                                       /\ ~ \E x \in T : \A y \in T : x <= y}
  <1>1. \A T \in SUBSET S : IsFiniteSet(T) /\ Cardinality(T) \in Nat
    BY FS_Subset, FS_CardinalityType
  <1> SUFFICES ASSUME Sizes # {} PROVE FALSE
    BY <1>1
  <1>2. PICK n \in Sizes : \A m \in Sizes : n <= m
    <2>1. Sizes \subseteq Nat
      OBVIOUS
    <2> HIDE DEF Sizes
    <2>2. QED BY <2>1, LeastNatural, Zenon
  <1>3. PICK T \in SUBSET S : T # {} /\ Cardinality(T) = n /\ ~ \E x \in T : \A y \in T : x <= y
    BY <1>2, Zenon
  <1>4. PICK a \in T : TRUE
    BY <1>3
  <1> DEFINE U == T \ {a}
  <1>5. U \in SUBSET S /\ Cardinality(U) = n - 1 /\ n \in Nat /\ Cardinality(U) \in Nat
    BY <1>1, <1>2, <1>3, <1>4, FS_RemoveElement
  <1>6. U # {}
    BY <1>3
  <1>7. n - 1 \notin Sizes
    BY <1>2, <1>5
  <1>8. PICK x \in U : \A y \in U : x <= y
    BY <1>5, <1>6, <1>7
  <1>9. a \in Int /\ x \in Int /\ T \subseteq Int
    BY <1>3
  <1>10. \E z \in T : \A y \in T : z <= y
    <2>1. CASE a <= x
      <3>1. \A y \in T : a <= y
        BY <1>8, <1>9, <2>1
      <3>2. QED BY <3>1
    <2>2. CASE ~(a <= x)
      <3>1. \A y \in T : x <= y
        BY <1>8, <1>9, <2>2
      <3>2. QED BY <3>1
    <2>3. QED BY <2>1, <2>2
  <1>11. QED BY <1>3, <1>10

(* And a greatest one.                                                      *)
LEMMA GreatestInteger ==
    ASSUME NEW S, S \subseteq Int, S # {}, IsFiniteSet(S)
    PROVE  \E x \in S : \A y \in S : x >= y
  <1> DEFINE T == {0 - x : x \in S}
             f == [x \in S |-> 0 - x]
  <1>1. T \subseteq Int /\ T # {}
    <2>1. \A x \in S : 0 - x \in Int
      OBVIOUS
    <2>2. QED BY <2>1, Zenon
  <1>2. IsFiniteSet(T)
    <2>1. f \in Surjection(S, T)
      BY Zenon DEF Surjection
    <2>2. QED BY <2>1, FS_Surjection, Zenon
  <1> HIDE DEF T, f
  <1>3. PICK t \in T : \A u \in T : t <= u
    BY <1>1, <1>2, LeastInteger, Zenon
  <1>4. PICK x \in S : t = 0 - x
    BY <1>3, Zenon DEF T
  <1>5. ASSUME NEW y \in S PROVE x >= y
    <2>1. 0 - x <= 0 - y
      BY <1>3, <1>4, Zenon DEF T
    <2>2. x \in Int /\ y \in Int
      OBVIOUS
    <2>3. QED BY <2>1, <2>2
  <1>6. QED BY <1>5, Zenon

-----------------------------------------------------------------------------
(* Folds.                                                                   *)

(* What a fold over D with the choice C computes, on every subset.          *)
FoldOf(g, D, base, C, F) ==
    \A s \in SUBSET D : g[s] = IF s = {} THEN base ELSE F[<<C[s], g[s \ {C[s]}]>>]

(* What a fold of the library computes is defined: there is a function on   *)
(* the subsets of D that applies F to the member C chooses and to the value *)
(* of the rest.  By the least size of sets that has none.                   *)
LEMMA FoldDefined ==
    ASSUME NEW D, IsFiniteSet(D), NEW V, NEW base \in V,
           NEW C \in [(SUBSET D) \ {{}} -> D], \A s \in (SUBSET D) \ {{}} : C[s] \in s,
           NEW F \in [D \X V -> V]
    PROVE  \E g \in [SUBSET D -> V] : FoldOf(g, D, base, C, F)
  <1> DEFINE Upto(m) == {s \in SUBSET D : Cardinality(s) <= m}
             Good(m) == \E g \in [Upto(m) -> V] :
                \A s \in Upto(m) : g[s] = IF s = {} THEN base ELSE F[<<C[s], g[s \ {C[s]}]>>]
             Bad == {m \in Nat : ~Good(m)}
  <1>0. (\A s \in SUBSET D : s # {} => C[s] \in s) /\ \A x \in D, v \in V : F[<<x, v>>] \in V
    OBVIOUS
  <1>1. \A s \in SUBSET D : IsFiniteSet(s) /\ Cardinality(s) \in Nat /\ (Cardinality(s) = 0 <=> s = {})
    BY FS_Subset, FS_CardinalityType, FS_EmptySet
  <1>2. ASSUME NEW s \in SUBSET D, s # {}
        PROVE  /\ C[s] \in D /\ s \ {C[s]} \in SUBSET D
               /\ Cardinality(s \ {C[s]}) = Cardinality(s) - 1
    BY <1>0, <1>1, <1>2, FS_RemoveElement
  <1>3. Good(0)
    <2> DEFINE g == [s \in Upto(0) |-> base]
    <2>1. \A s \in Upto(0) : s = {}
      BY <1>1
    <2>2. g \in [Upto(0) -> V] /\ \A s \in Upto(0) : g[s] = base
      OBVIOUS
    <2> HIDE DEF g
    <2>3. QED BY <2>1, <2>2
  <1>4. ASSUME NEW m \in Nat, Good(m) PROVE Good(m + 1)
    <2>1. PICK g \in [Upto(m) -> V] :
            \A s \in Upto(m) : g[s] = IF s = {} THEN base ELSE F[<<C[s], g[s \ {C[s]}]>>]
      BY <1>4
    <2>2. \A s \in Upto(m + 1) : s # {} => C[s] \in D /\ s \ {C[s]} \in Upto(m)
      <3> SUFFICES ASSUME NEW s \in Upto(m + 1), s # {} PROVE C[s] \in D /\ s \ {C[s]} \in Upto(m)
        OBVIOUS
      <3>1. Cardinality(s) \in Nat /\ Cardinality(s) <= m + 1
        BY <1>1
      <3>2. QED BY <1>2, <3>1
    <2>3. Upto(m) \subseteq Upto(m + 1)
      BY <1>1
    <2> DEFINE h == [s \in Upto(m + 1) |-> IF s = {} THEN base ELSE F[<<C[s], g[s \ {C[s]}]>>]]
    <2> HIDE DEF Upto
    <2>4. \A s \in Upto(m + 1) : h[s] = IF s = {} THEN base ELSE F[<<C[s], g[s \ {C[s]}]>>]
      BY Zenon
    <2>5. h \in [Upto(m + 1) -> V]
      <3>1. \A s \in Upto(m + 1) : h[s] \in V
        <4> SUFFICES ASSUME NEW s \in Upto(m + 1), s # {} PROVE F[<<C[s], g[s \ {C[s]}]>>] \in V
          BY <2>4, Zenon
        <4>1. C[s] \in D /\ g[s \ {C[s]}] \in V
          BY <2>1, <2>2, Zenon
        <4>2. QED BY <1>0, <4>1, Zenon
      <3>2. QED BY <3>1, Zenon
    <2> HIDE DEF h
    <2>6. \A s \in Upto(m) : h[s] = g[s]
      BY <2>1, <2>3, <2>4, Zenon
    <2>7. \A s \in Upto(m + 1) : h[s] = IF s = {} THEN base ELSE F[<<C[s], h[s \ {C[s]}]>>]
      BY <2>2, <2>4, <2>6, Zenon
    <2>8. QED BY <2>5, <2>7, Zenon
  <1>5. Bad = {}
    <2> HIDE DEF Good
    <2> SUFFICES ASSUME Bad # {} PROVE FALSE
      OBVIOUS
    <2>1. PICK m \in Bad : \A k \in Bad : m <= k
      <3>1. Bad \subseteq Nat
        OBVIOUS
      <3> HIDE DEF Bad
      <3>2. QED BY <3>1, LeastNatural, Zenon
    <2>2. m \in Nat /\ ~Good(m) /\ m # 0
      BY <1>3, <2>1
    <2>3. m - 1 \in Nat /\ m - 1 \notin Bad /\ (m - 1) + 1 = m
      BY <2>1, <2>2
    <2>4. Good(m - 1)
      BY <2>3
    <2>5. Good((m - 1) + 1)
      BY <1>4, <2>3, <2>4, Zenon
    <2>6. QED BY <2>2, <2>3, <2>5, Zenon
  <1>6. Cardinality(D) \in Nat /\ Upto(Cardinality(D)) = SUBSET D
    BY <1>1, FS_Subset
  <1>7. Good(Cardinality(D))
    <2> HIDE DEF Good
    <2>1. QED BY <1>5, <1>6
  <1> HIDE DEF Upto
  <1>8. QED BY <1>6, <1>7, Zenon DEF FoldOf

(* Over positions it takes the greatest each time.                          *)
PrefixFold(g, n, base, F) == \A t \in SUBSET (1 .. n) :
    g[t] = IF t = {} THEN base
           ELSE LET m == CHOOSE x \in t : \A y \in t : x >= y IN F[<<m, g[t \ {m}]>>]

LEMMA SeqFold ==
    ASSUME NEW n \in Nat, NEW V, NEW base \in V, NEW F \in [(1 .. n) \X V -> V]
    PROVE  \E g \in [SUBSET (1 .. n) -> V] : PrefixFold(g, n, base, F)
  <1> DEFINE D == 1 .. n
             C == [t \in (SUBSET D) \ {{}} |-> CHOOSE x \in t : \A y \in t : x >= y]
  <1>1. IsFiniteSet(D)
    <2>1. n \in Int /\ 1 \in Int
      OBVIOUS
    <2>2. QED BY <2>1, FS_Interval, Zenon
  <1>2. ASSUME NEW t \in (SUBSET D) \ {{}} PROVE C[t] \in t
    <2>1. t \subseteq Nat /\ t # {} /\ \A x \in t : x <= n
      OBVIOUS
    <2>2. \E x \in t : \A y \in t : x >= y
      BY <2>1, GreatestNatural, Zenon
    <2>3. QED BY <2>2, Zenon
  <1>3. C \in [(SUBSET D) \ {{}} -> D] /\ \A t \in (SUBSET D) \ {{}} : C[t] \in t
    BY <1>2, Zenon
  <1>4. PICK g \in [SUBSET D -> V] : FoldOf(g, D, base, C, F)
    <2> HIDE DEF D, C
    <2>1. F \in [D \X V -> V]
      BY Zenon DEF D
    <2>2. QED BY <1>1, <1>3, <2>1, FoldDefined
  <1>5. \A t \in SUBSET D : g[t] = IF t = {} THEN base ELSE F[<<C[t], g[t \ {C[t]}]>>]
    BY <1>4, Zenon DEF FoldOf
  <1>6. QED BY <1>5, Zenon DEF PrefixFold

(* What such a function has of the first i positions.                       *)
LEMMA UptoIs ==
    ASSUME NEW i \in Nat \ {0}
    PROVE  LET m == CHOOSE x \in 1 .. i : \A y \in 1 .. i : x >= y
           IN  m = i /\ 1 .. i # {} /\ (1 .. i) \ {m} = 1 .. i - 1
  <1>1. i \in 1 .. i /\ \A y \in 1 .. i : i >= y
    OBVIOUS
  <1>2. \A m \in 1 .. i : (\A y \in 1 .. i : m >= y) => m = i
    OBVIOUS
  <1>3. (CHOOSE x \in 1 .. i : \A y \in 1 .. i : x >= y) = i
    BY <1>1, <1>2, Zenon
  <1>4. (1 .. i) \ {i} = 1 .. i - 1
    OBVIOUS
  <1>5. QED BY <1>1, <1>3, <1>4, Zenon

(* What holds of no position and passes from each to the next holds of all. *)
LEMMA PrefixInduction ==
    ASSUME NEW n \in Nat, NEW V, NEW f, f[1 .. 0] \in V,
           \A i \in 1 .. n : f[1 .. i - 1] \in V => f[1 .. i] \in V
    PROVE  f[1 .. n] \in V
  <1> DEFINE Bad == {i \in 0 .. n : f[1 .. i] \notin V}
  <1> SUFFICES ASSUME Bad # {} PROVE FALSE
    <2>1. n \in 0 .. n
      OBVIOUS
    <2>2. QED BY <2>1, Zenon
  <1>1. PICK i \in Bad : \A j \in Bad : i <= j
    <2>1. Bad \subseteq Nat
      OBVIOUS
    <2> HIDE DEF Bad
    <2>2. QED BY <2>1, LeastNatural, Zenon
  <1>2. i \in 0 .. n /\ f[1 .. i] \notin V /\ i # 0
    BY <1>1
  <1>3. i \in 1 .. n /\ i - 1 \in 0 .. n /\ i - 1 \notin Bad
    BY <1>1, <1>2
  <1>4. f[1 .. i - 1] \in V
    BY <1>3, Zenon
  <1>5. QED BY <1>2, <1>3, <1>4, Zenon

-----------------------------------------------------------------------------
(* AccessGate: an attempt at an item is made in an action that has not      *)
(* prompted for it yet.                                                     *)

(* The parts of the type invariant that no other invariant needs.           *)
GateFlags ==
    /\ silent \in [Gate!Items -> BOOLEAN]
    /\ prompted \in [Gate!Items -> BOOLEAN]
    /\ interaction \in BOOLEAN /\ denied \in BOOLEAN /\ locked \in BOOLEAN

(* How far the action is, and how many attempts there were.                 *)
GateCounts ==
    /\ step \in 0 .. 4 /\ dialog \in 0 .. 2 /\ checked \subseteq Gate!Items
    /\ actions \in Nat /\ attempts \in [Gate!Items -> Nat] /\ unasked \in Nat

(* What GateSafe says, in parts of one kind each.                           *)
LEMMA GateParts == Gate!GateSafe <=> GateFlags /\ GateCounts /\ Gate!AskedOnlyOnRequest /\ Gate!Bookkeeping
  BY DEF Gate!GateSafe, Gate!TypeOK, GateFlags, GateCounts

(* At the start nothing was asked, and nothing prompted.                    *)
LEMMA GateSafeInit == Init => Gate!GateSafe
  <1> SUFFICES ASSUME Gate!Init PROVE GateFlags /\ GateCounts /\ Gate!AskedOnlyOnRequest /\ Gate!Bookkeeping
    BY GateParts DEF Init
  <1> USE DEF Gate!Init, Gate!Items, Gate!Pairing, Gate!Ratchet
  <1>1. GateFlags
    <2>1. silent \in [Gate!Items -> BOOLEAN] /\ prompted \in [Gate!Items -> BOOLEAN]
      OBVIOUS
    <2>2. interaction \in BOOLEAN /\ denied \in BOOLEAN /\ locked \in BOOLEAN
      OBVIOUS
    <2>3. QED BY <2>1, <2>2 DEF GateFlags
  <1>2. GateCounts /\ Gate!AskedOnlyOnRequest /\ Gate!Bookkeeping
    BY DEF GateCounts, Gate!AskedOnlyOnRequest, Gate!Bookkeeping
  <1>3. QED BY <1>1, <1>2

(* Each step keeps the flags of the items.                                  *)
LEMMA GateFlagsStep == Gate!GateSafe /\ [Gate!Next]_gateVars => GateFlags'
  <1> SUFFICES ASSUME Gate!GateSafe, [Gate!Next]_gateVars PROVE GateFlags'
    OBVIOUS
  <1>1. (silent \in [Gate!Items -> BOOLEAN])'
    <2>1. silent \in [Gate!Items -> BOOLEAN]
      BY DEF Gate!GateSafe, Gate!TypeOK
    <2>2. \/ silent' = silent \/ \E i \in Gate!Items : silent' = [silent EXCEPT ![i] = ~@]
          \/ \E g \in BOOLEAN : silent' = [silent EXCEPT ![dialog] = g]
      BY DEF Gate!Next, gateVars, Gate!gate, Gate!StoreChanges, Gate!Begin, Gate!Authorize, Gate!Answer, Gate!ReadBack, Gate!Access, Gate!Denied, Gate!Unavailable, Gate!Attempt, Gate!NoAttempt, Gate!Allowed
    <2>3. QED BY <2>1, <2>2
  <1> USE DEF Gate!GateSafe, Gate!TypeOK, Gate!Items, Gate!Pairing, Gate!Ratchet, Gate!Next, gateVars, Gate!gate, Gate!StoreChanges, Gate!Begin,
              Gate!Authorize, Gate!Answer, Gate!ReadBack, Gate!Access, Gate!Denied, Gate!Unavailable, Gate!Attempt, Gate!NoAttempt, Gate!Allowed, Gate!Refused, Gate!NoAttempt, Gate!ItemAt
  <1>2. (prompted \in [Gate!Items -> BOOLEAN])'
    OBVIOUS
  <1>3. (interaction \in BOOLEAN /\ denied \in BOOLEAN /\ locked \in BOOLEAN)'
    OBVIOUS
  <1>4. QED BY <1>1, <1>2, <1>3 DEF GateFlags

(* Each step keeps how far the action is.                                   *)
LEMMA GateCountsStep == GateCounts /\ [Gate!Next]_gateVars => GateCounts'
  <1> SUFFICES ASSUME GateCounts, [Gate!Next]_gateVars PROVE GateCounts'
    OBVIOUS
  <1> USE DEF GateCounts, Gate!Items, Gate!Pairing, Gate!Ratchet
  <1>1. ASSUME Gate!StoreChanges PROVE GateCounts'
    BY <1>1 DEF Gate!StoreChanges, Gate!gate
  <1>2. ASSUME Gate!Begin PROVE GateCounts'
    BY <1>2 DEF Gate!Begin, Gate!NoAttempt
  <1>3. ASSUME Gate!Authorize PROVE GateCounts'
    <2>1. step' \in 0 .. 4
      BY <1>3 DEF Gate!Authorize, Gate!ItemAt, Gate!Denied, Gate!Refused, Gate!Unavailable, Gate!Attempt, Gate!NoAttempt
    <2>2. dialog' \in 0 .. 2
      BY <1>3 DEF Gate!Authorize, Gate!ItemAt, Gate!Denied, Gate!Refused, Gate!Unavailable, Gate!Attempt, Gate!NoAttempt
    <2>3. checked' \subseteq Gate!Items
      BY <1>3 DEF Gate!Authorize, Gate!ItemAt, Gate!Denied, Gate!Refused, Gate!Unavailable, Gate!Attempt, Gate!NoAttempt
    <2>4. actions' \in Nat /\ attempts' \in [Gate!Items -> Nat] /\ unasked' \in Nat
      BY <1>3 DEF Gate!Authorize, Gate!ItemAt, Gate!Denied, Gate!Refused, Gate!Unavailable, Gate!Attempt, Gate!NoAttempt
    <2>5. QED BY <2>1, <2>2, <2>3, <2>4
  <1>4. ASSUME Gate!Answer PROVE GateCounts'
    BY <1>4 DEF Gate!Answer, Gate!Allowed, Gate!Denied, Gate!Unavailable, Gate!Attempt, Gate!NoAttempt
  <1>5. ASSUME Gate!ReadBack PROVE GateCounts'
    <2>1. step' \in 0 .. 4 /\ dialog' \in 0 .. 2
      BY <1>5 DEF Gate!ReadBack, Gate!ItemAt, Gate!Denied, Gate!Refused, Gate!Unavailable, Gate!Attempt, Gate!NoAttempt
    <2>2. checked' \subseteq Gate!Items
      BY <1>5 DEF Gate!ReadBack, Gate!ItemAt, Gate!Denied, Gate!Refused, Gate!Unavailable, Gate!Attempt, Gate!NoAttempt
    <2>3. actions' \in Nat /\ attempts' \in [Gate!Items -> Nat] /\ unasked' \in Nat
      BY <1>5 DEF Gate!ReadBack, Gate!ItemAt, Gate!Denied, Gate!Refused, Gate!Unavailable, Gate!Attempt, Gate!NoAttempt
    <2>4. QED BY <2>1, <2>2, <2>3
  <1>6. ASSUME NEW i \in Gate!Items, Gate!Access(i) PROVE GateCounts'
    BY <1>6 DEF Gate!Access, Gate!Refused, Gate!NoAttempt
  <1>7. CASE UNCHANGED gateVars
    BY <1>7 DEF gateVars
  <1>8. QED BY <1>1, <1>2, <1>3, <1>4, <1>5, <1>6, <1>7 DEF Gate!Next

(* An attempt is made when its item is marked as prompted.                  *)
LEMMA AttemptsStep == Gate!GateSafe /\ [Gate!Next]_gateVars => (Gate!AskedOnlyOnRequest /\ Gate!Bookkeeping)'
  <1> SUFFICES ASSUME Gate!GateSafe, [Gate!Next]_gateVars PROVE (Gate!AskedOnlyOnRequest /\ Gate!Bookkeeping)'
    OBVIOUS
  <1> USE DEF Gate!GateSafe, Gate!TypeOK, Gate!AskedOnlyOnRequest, Gate!Bookkeeping, Gate!Items, Gate!Pairing, Gate!Ratchet
  <1>1. ASSUME Gate!StoreChanges PROVE (Gate!AskedOnlyOnRequest /\ Gate!Bookkeeping)'
    BY <1>1 DEF Gate!StoreChanges, Gate!gate
  <1>2. ASSUME Gate!Begin PROVE (Gate!AskedOnlyOnRequest /\ Gate!Bookkeeping)'
    BY <1>2 DEF Gate!Begin, Gate!NoAttempt
  <1>3. ASSUME Gate!Authorize PROVE (Gate!AskedOnlyOnRequest /\ Gate!Bookkeeping)'
    BY <1>3 DEF Gate!Authorize, Gate!ItemAt, Gate!Denied, Gate!Refused, Gate!Unavailable, Gate!Attempt, Gate!NoAttempt
  <1>4. ASSUME Gate!Answer PROVE (Gate!AskedOnlyOnRequest /\ Gate!Bookkeeping)'
    BY <1>4 DEF Gate!Answer, Gate!Allowed, Gate!Denied, Gate!Unavailable, Gate!Attempt, Gate!NoAttempt
  <1>5. ASSUME Gate!ReadBack PROVE (Gate!AskedOnlyOnRequest /\ Gate!Bookkeeping)'
    BY <1>5 DEF Gate!ReadBack, Gate!ItemAt, Gate!Denied, Gate!Refused, Gate!Unavailable, Gate!Attempt, Gate!NoAttempt
  <1>6. ASSUME NEW i \in Gate!Items, Gate!Access(i) PROVE (Gate!AskedOnlyOnRequest /\ Gate!Bookkeeping)'
    BY <1>6 DEF Gate!Access, Gate!Refused, Gate!NoAttempt
  <1>7. CASE UNCHANGED gateVars
    BY <1>7 DEF gateVars
  <1>8. QED BY <1>1, <1>2, <1>3, <1>4, <1>5, <1>6, <1>7 DEF Gate!Next

(* GateSafe is inductive as it stands.                                      *)
LEMMA GateSafeStep == Gate!GateSafe /\ [Gate!Next]_gateVars => Gate!GateSafe'
  <1> SUFFICES ASSUME Gate!GateSafe, [Gate!Next]_gateVars PROVE Gate!GateSafe'
    OBVIOUS
  <1>1. GateFlags' /\ GateCounts' /\ (Gate!AskedOnlyOnRequest /\ Gate!Bookkeeping)'
    BY GateFlagsStep, GateCountsStep, AttemptsStep, GateParts
  <1>2. QED BY <1>1 DEF Gate!GateSafe, Gate!TypeOK, GateFlags, GateCounts

(* Attempts that may show dialogs of the credential store are made only in  *)
(* a Settings action, one for each item at most in each, over any sequence  *)
(* of background failures.                                                  *)
THEOREM GateSafety == Spec => []GateSafe
  <1>1. Init => (part = "gate" => Gate!GateSafe)
    BY GateSafeInit
  <1>2. (part = "gate" => Gate!GateSafe) /\ [Next]_deskVars => (part = "gate" => Gate!GateSafe)'
    BY PartSteps, GateSafeStep
  <1>3. QED BY <1>1, <1>2, PTL DEF Spec, GateSafe

(* The App is told that the store is unlocked only after both items were    *)
(* read back in silence.                                                    *)
THEOREM UnlockIsVerified == Spec => [][part = "gate" => Gate!UnlockVerified]_deskVars
  <1>1. Gate!GateSafe /\ [Gate!Next]_gateVars => [Gate!UnlockVerified]_gateVars
    <2> SUFFICES ASSUME Gate!GateSafe, [Gate!Next]_gateVars, locked, ~locked' PROVE checked' = Gate!Items
      BY DEF Gate!UnlockVerified
    <2>1. Gate!ReadBack
      <3>1. ~Gate!StoreChanges /\ ~Gate!Begin /\ ~Gate!Authorize /\ ~UNCHANGED gateVars
        BY DEF Gate!StoreChanges, Gate!gate, Gate!Begin, Gate!Authorize, Gate!Denied, Gate!Unavailable, Gate!Attempt, Gate!NoAttempt, gateVars
      <3>2. ~Gate!Answer
        <4> SUFFICES ASSUME Gate!Answer PROVE FALSE
          OBVIOUS
        <4>1. dialog \in Nat
          BY DEF Gate!GateSafe, Gate!TypeOK
        <4>2. step' = dialog + 1 /\ locked' = (locked /\ step' # 0)
          BY DEF Gate!Answer, Gate!Allowed, Gate!Denied, Gate!Unavailable, Gate!Attempt, Gate!NoAttempt
        <4>3. step' # 0
          BY <4>1, <4>2
        <4>4. QED BY <4>2, <4>3, Zenon
      <3>3. \A i \in Gate!Items : ~Gate!Access(i)
        BY DEF Gate!Access
      <3>4. QED BY <3>1, <3>2, <3>3 DEF Gate!Next
    <2>2. step = 4 /\ checked' = checked \cup {Gate!Ratchet}
      <3>1. step = 4
        BY <2>1 DEF Gate!ReadBack, Gate!Unavailable
      <3>2. ~Gate!Unavailable /\ locked' # TRUE
        BY Zenon DEF Gate!Unavailable
      <3>3. checked' = checked \cup {Gate!ItemAt(4)}
        BY <2>1, <3>1, <3>2, Zenon DEF Gate!ReadBack
      <3>4. QED BY <3>1, <3>3 DEF Gate!ItemAt
    <2>3. QED BY <2>2 DEF Gate!GateSafe, Gate!TypeOK, Gate!Bookkeeping, Gate!Items
  <1>2. GateSafe /\ [Next]_deskVars => [part = "gate" => Gate!UnlockVerified]_deskVars
    <2>1. CASE part = "gate" /\ UNCHANGED gateVars
      BY <2>1, Zenon DEF Gate!UnlockVerified, gateVars
    <2>2. QED BY <1>1, <2>1, PartSteps DEF GateSafe
  <1>3. QED BY <1>2, GateSafety, PTL DEF Spec
-----------------------------------------------------------------------------
(* Updates: the handle follows the reference through every step of a check  *)
(* and of an installation, and news lie above what was seen.                *)

(* The versions the updater speaks of.                                      *)
VersionsOf ==
    /\ published \in Updater!Versions /\ installed \in Updater!Versions
    /\ first \in 0 .. Updater!None /\ seen \in 0 .. Updater!None
    /\ news \in 0 .. Updater!None /\ pending \in 0 .. Updater!None
    /\ told \subseteq Updater!Versions /\ handles \in Nat

(* What a request in flight says of the handle it left behind.              *)
Requests ==
    /\ busy.step \in {"none", "check", "install"}
    /\ busy.step = "check" => pending = Updater!None
    /\ busy.step = "install" => pending # Updater!None
    /\ busy.step = "none" <=> busy = Updater!Idle
    /\ busy \in [step : {"none", "check", "install"}, install : BOOLEAN, automatic : BOOLEAN]

(* Whatever was told is no newer than what is stored as seen.               *)
SeenBounds ==
    /\ told # {} => seen # Updater!None
    /\ \A v \in told : v <= seen
    /\ news # Updater!None => ~starting /\ (seen = Updater!None \/ news > seen)

(* The switches of Settings.                                                *)
Switches ==
    /\ ran \in BOOLEAN /\ starting \in BOOLEAN /\ autoInstall \in BOOLEAN /\ quiet \in BOOLEAN

(* Together, and one handle at most (OneHandle).                            *)
UpdatesInv == VersionsOf /\ Requests /\ SeenBounds /\ Switches /\ Updater!OneHandle

(* The start, with or without a version that ran before.                    *)
LEMMA UpdatesInit == Init => UpdatesInv
  <1> SUFFICES ASSUME Updater!Init PROVE UpdatesInv
    BY DEF Init
  <1> USE LastAssumption DEF Updater!Init, Updater!None, Updater!Versions, Updater!Idle
  <1>1. VersionsOf
    BY DEF VersionsOf
  <1>2. Requests
    BY DEF Requests
  <1>3. SeenBounds /\ Updater!OneHandle
    BY DEF SeenBounds, Updater!OneHandle
  <1>4. Switches
    BY DEF Switches
  <1>5. QED BY <1>1, <1>2, <1>3, <1>4 DEF UpdatesInv

(* No step makes a switch anything else.                                    *)
LEMMA UpdatesSwitches == Switches /\ [Updater!Next]_updatesVars => Switches'
  <1> SUFFICES ASSUME Switches, [Updater!Next]_updatesVars PROVE Switches'
    OBVIOUS
  <1> USE DEF Switches
  <1>1. CASE Updater!CheckNow
    BY <1>1, Zenon DEF Updater!CheckNow, Updater!Check, Updater!cloud
  <1>2. CASE Updater!Checked
    BY <1>2, Zenon DEF Updater!Checked, Updater!cloud
  <1>3. CASE Updater!Installed \/ Updater!Restart
    BY <1>3, Zenon DEF Updater!Installed, Updater!Restart, Updater!Started
  <1>4. CASE Updater!Publish \/ Updater!StepAway \/ Updater!SavePreferences
    BY <1>4, Zenon DEF Updater!Publish, Updater!StepAway, Updater!SavePreferences, Updater!cloud, Updater!updater
  <1>5. CASE Updater!ShowNews \/ Updater!CloseNews
    BY <1>5, Zenon DEF Updater!ShowNews, Updater!CloseNews, Updater!updater
  <1>6. CASE Updater!CheckFails \/ Updater!InstallClicked \/ Updater!InstallQuietly \/ Updater!InstallFails
    BY <1>6, Zenon DEF Updater!CheckFails, Updater!InstallClicked, Updater!InstallQuietly, Updater!InstallFails,
       Updater!cloud
  <1>7. CASE UNCHANGED updatesVars
    BY <1>7, Zenon DEF updatesVars
  <1>8. QED BY <1>1, <1>2, <1>3, <1>4, <1>5, <1>6, <1>7, Zenon DEF Updater!Next

(* An installation keeps the order of handle and reference.                 *)
LEMMA InstallSteps ==
    ASSUME VersionsOf, Requests, SeenBounds, Updater!OneHandle, Updater!Install,
           UNCHANGED <<published, installed, first, ran, seen, news, told, starting>>
    PROVE  VersionsOf' /\ Requests' /\ SeenBounds' /\ Updater!OneHandle'
  <1> USE LastAssumption DEF Updater!None, Updater!Versions, Updater!Idle
  <1>1. UNCHANGED <<pending, handles>>
    BY Zenon DEF Updater!Install
  <1>2. VersionsOf' /\ SeenBounds' /\ Updater!OneHandle'
    BY <1>1 DEF VersionsOf, SeenBounds, Updater!OneHandle
  <1>3. Requests'
    <2>1. CASE busy # Updater!Idle
      BY <1>1, <2>1 DEF Updater!Install, Requests
    <2>2. CASE busy = Updater!Idle /\ pending = Updater!None
      <3>1. busy' = [step |-> "check", install |-> TRUE, automatic |-> FALSE]
        BY <2>2, Zenon DEF Updater!Install
      <3>2. busy'.step = "check" /\ busy' # Updater!Idle
        BY <3>1
      <3>3. busy' \in [step : {"none", "check", "install"}, install : BOOLEAN, automatic : BOOLEAN]
        BY <3>1
      <3>4. QED BY <1>1, <2>2, <3>2, <3>3 DEF Requests
    <2>3. CASE busy = Updater!Idle /\ pending # Updater!None
      BY <1>1, <2>3 DEF Updater!Install, Requests
    <2>4. QED BY <2>1, <2>2, <2>3
  <1>4. QED BY <1>2, <1>3

(* Every step of the updater keeps the invariant.                           *)
LEMMA UpdatesStep == UpdatesInv /\ [Updater!Next]_updatesVars => UpdatesInv'
  <1> SUFFICES ASSUME UpdatesInv, [Updater!Next]_updatesVars
               PROVE  VersionsOf' /\ Requests' /\ SeenBounds' /\ Updater!OneHandle'
    BY UpdatesSwitches DEF UpdatesInv
  <1> USE LastAssumption DEF UpdatesInv, VersionsOf, Requests, SeenBounds, Updater!OneHandle,
          Updater!None, Updater!Versions, Updater!Idle
  <1>1. CASE Updater!Publish
    BY <1>1 DEF Updater!Publish, Updater!cloud, Updater!updater
  <1>2. CASE Updater!StepAway
    BY <1>2 DEF Updater!StepAway, Updater!cloud, Updater!updater
  <1>3. CASE Updater!SavePreferences
    BY <1>3 DEF Updater!SavePreferences, Updater!updater
  <1>4. CASE Updater!ShowNews
    BY <1>4 DEF Updater!ShowNews, Updater!updater
  <1>5. CASE Updater!CloseNews
    <2>1. /\ news # Last + 1 /\ seen' = news /\ news' = Last + 1 /\ told' = told \cup {news}
          /\ UNCHANGED <<published, installed, first, starting, busy, pending, handles>>
      BY <1>5 DEF Updater!CloseNews, Updater!Mark, Updater!updater
    <2>2. VersionsOf' /\ Updater!OneHandle' /\ Requests'
      BY <2>1
    <2>3. \A v \in told : v <= news
      <3>1. ASSUME NEW v \in told PROVE v <= news
        <4>1. v \in 0 .. Last /\ v <= seen /\ seen # Last + 1
          OBVIOUS
        <4>2. news > seen
          BY <2>1, <4>1
        <4>3. QED BY <4>1, <4>2
      <3>2. QED BY <3>1
    <2>4. SeenBounds'
      BY <2>1, <2>3
    <2>5. QED BY <2>2, <2>4
  <1>6. CASE Updater!CheckNow
    <2>1. ASSUME NEW i \in BOOLEAN, NEW a \in BOOLEAN, Updater!Check(i, a),
                 UNCHANGED <<published, installed, first, ran, seen, news, told, starting>>
          PROVE  VersionsOf' /\ Requests' /\ SeenBounds' /\ Updater!OneHandle'
      BY <2>1 DEF Updater!Check
    <2>2. UNCHANGED <<published, installed, first, ran, seen, news, told, starting>>
      BY <1>6, Zenon DEF Updater!CheckNow, Updater!cloud
    <2>3. \E i \in BOOLEAN, a \in BOOLEAN : Updater!Check(i, a)
      BY <1>6, Zenon DEF Updater!CheckNow
    <2>4. QED BY <2>1, <2>2, <2>3, Zenon
  <1>7. CASE Updater!Checked
    <2>1. /\ busy.step = "check" /\ pending = Updater!None /\ handles = 0
          /\ UNCHANGED <<published, installed, first, ran, seen, news, told, starting>>
      BY <1>7 DEF Updater!Checked, Updater!cloud
    <2>2. CASE ~(published > installed)
      <3>1. busy' = Updater!Idle /\ UNCHANGED <<pending, handles>>
        BY <1>7, <2>2, Zenon DEF Updater!Checked
      <3>2. QED BY <2>1, <3>1
    <2>3. CASE published > installed
      <3>1. /\ pending' = published /\ handles' = handles + 1
            /\ busy' = IF busy.install THEN [busy EXCEPT !.step = "install"] ELSE Updater!Idle
        BY <1>7, <2>3, Zenon DEF Updater!Checked
      <3>2. pending' # Updater!None /\ pending' \in 0 .. Updater!None /\ handles' = 1
        BY <2>1, <3>1
      <3>3. VersionsOf' /\ SeenBounds' /\ Updater!OneHandle'
        BY <2>1, <3>2
      <3>4. Requests'
        <4>1. CASE busy.install
          <5>1. busy' = [busy EXCEPT !.step = "install"]
            BY <3>1, <4>1
          <5>2. busy'.step = "install" /\ busy' # Updater!Idle
            BY <5>1
          <5>3. busy' \in [step : {"none", "check", "install"}, install : BOOLEAN, automatic : BOOLEAN]
            BY <5>1
          <5>4. QED BY <3>2, <5>2, <5>3
        <4>2. CASE ~busy.install
          BY <3>1, <3>2, <4>2
        <4>3. QED BY <4>1, <4>2
      <3>5. QED BY <3>3, <3>4
    <2>4. QED BY <2>2, <2>3
  <1>8. CASE Updater!CheckFails
    BY <1>8 DEF Updater!CheckFails, Updater!Freed, Updater!cloud
  <1>9. CASE Updater!InstallClicked
    <2>1. Updater!Install
      BY <1>9, Zenon DEF Updater!InstallClicked
    <2>2. UNCHANGED <<published, installed, first, ran, seen, news, told, starting>>
      BY <1>9, Zenon DEF Updater!InstallClicked, Updater!cloud
    <2>3. QED BY <2>1, <2>2, InstallSteps, Zenon DEF UpdatesInv
  <1>10. CASE Updater!InstallQuietly
    <2>1. Updater!Install
      BY <1>10, Zenon DEF Updater!InstallQuietly
    <2>2. UNCHANGED <<published, installed, first, ran, seen, news, told, starting>>
      BY <1>10, Zenon DEF Updater!InstallQuietly, Updater!cloud
    <2>3. QED BY <2>1, <2>2, InstallSteps, Zenon DEF UpdatesInv
  <1>11. CASE Updater!InstallFails
    BY <1>11 DEF Updater!InstallFails, Updater!Freed, Updater!cloud
  <1>12. CASE Updater!Installed
    BY <1>12 DEF Updater!Installed, Updater!Started
  <1>13. CASE Updater!Restart
    BY <1>13 DEF Updater!Restart, Updater!Started
  <1>14. CASE UNCHANGED updatesVars
    BY <1>14 DEF updatesVars
  <1>15. QED BY <1>1, <1>2, <1>3, <1>4, <1>5, <1>6, <1>7, <1>8, <1>9, <1>10, <1>11, <1>12, <1>13, <1>14
         DEF Updater!Next

(* The invariant contains what the run checks.                              *)
LEMMA UpdatesInvSafe == UpdatesInv => Updater!UpdatesSafe
  <1> SUFFICES ASSUME UpdatesInv PROVE Updater!TypeOK /\ Updater!ToldOnce
    BY DEF UpdatesInv, Updater!UpdatesSafe
  <1> USE LastAssumption DEF UpdatesInv, VersionsOf, Requests, SeenBounds, Updater!None, Updater!Versions
  <1>1. Updater!ToldOnce
    BY DEF Updater!ToldOnce
  <1>2. {published, installed} \subseteq Updater!Versions /\ {first, seen, news, pending} \subseteq 0 .. Updater!None
    OBVIOUS
  <1>3. QED BY <1>1, <1>2, Zenon DEF Updater!TypeOK, Switches

(* However checks, installations, failures, restarts and updates follow one *)
(* another, the updater leaves no handle behind, and news that were closed  *)
(* never come back (Updates).                                               *)
THEOREM UpdatesSafety == Spec => []UpdatesSafe
  <1>1. Init => (part = "updates" => UpdatesInv)
    BY UpdatesInit
  <1>2. (part = "updates" => UpdatesInv) /\ [Next]_deskVars => (part = "updates" => UpdatesInv)'
    BY PartSteps, UpdatesStep
  <1>3. (part = "updates" => UpdatesInv) => UpdatesSafe
    BY UpdatesInvSafe DEF UpdatesSafe
  <1>4. QED BY <1>1, <1>2, <1>3, PTL DEF Spec
-----------------------------------------------------------------------------
(* Pomodoro: what is still in storage was neither counted nor ended, and    *)
(* what has left it was counted, ended, or slept through.                   *)

(* Where the clock is, and what was started by then.                        *)
Instants ==
    /\ now \in 0 .. MaxTime /\ read \in 0 .. now
    /\ started \in Seq(Nat) /\ Len(started) <= MaxTimers
    /\ \A t \in 1 .. Len(started) : started[t] \in 0 .. now
    /\ timer \in 0 .. Len(started) /\ stored \in 0 .. Len(started)

(* A timer that is no longer stored was counted, ended or missed; one that  *)
(* is stored was neither counted nor ended.                                 *)
Ledger ==
    /\ counts \in [Timer!Timers -> Nat] /\ ended \subseteq Timer!Timers /\ missed \subseteq Timer!Timers
    /\ Timer!CountedOnce
    /\ \A t \in Timer!Timers : t > Len(started) => counts[t] = 0 /\ t \notin ended
    /\ stored # 0 => counts[stored] = 0 /\ stored \notin ended
    /\ \A t \in 1 .. Len(started) : t # stored => counts[t] >= 1 \/ t \in ended \cup missed

(* Of the timer shown: it is the stored one, it has not been read at its    *)
(* end, and an end that has passed was slept through.                       *)
Rings ==
    /\ up /\ stored # 0 => stored = timer
    /\ ~up => timer = 0
    /\ timer # 0 /\ stored = timer /\ started[timer] + Length < now => timer \in missed
    /\ timer # 0 /\ stored = timer => started[timer] + Length # read

(* Together.                                                                *)
PomodoroInv == Instants /\ Ledger /\ Rings /\ up \in BOOLEAN /\ asleep \in BOOLEAN

(* The start: no timer, nothing counted.                                    *)
LEMMA PomodoroInit == Init => PomodoroInv
  <1> SUFFICES ASSUME Timer!Init PROVE PomodoroInv
    BY DEF Init
  <1> USE PomodoroAssumption DEF Timer!Init, Timer!None, Timer!Timers
  <1>1. Instants
    BY DEF Instants
  <1>2. Ledger
    BY DEF Ledger, Timer!CountedOnce
  <1>3. Rings
    BY DEF Rings
  <1>4. QED BY <1>1, <1>2, <1>3 DEF PomodoroInv

(* What a ring counts is not in storage any more.                           *)
LEMMA CountSteps ==
    ASSUME Instants, Ledger, stored # 0, Timer!Count(stored),
           UNCHANGED <<started, ended, missed>>
    PROVE  Ledger' /\ stored' = 0
  <1> USE PomodoroAssumption DEF Timer!Count, Timer!None, Timer!Timers
  <1>1. /\ stored \in 1 .. Len(started) /\ stored \in 1 .. MaxTimers /\ Len(started) \in Nat
        /\ stored' = 0 /\ counts' = [counts EXCEPT ![stored] = @ + 1]
    BY DEF Instants
  <1>2. counts' \in [1 .. MaxTimers -> Nat] /\ counts'[stored] = 1
    BY <1>1 DEF Ledger
  <1>3. \A t \in 1 .. MaxTimers : t # stored => counts'[t] = counts[t]
    BY <1>1 DEF Ledger
  <1>4. stored \notin ended
    BY DEF Ledger
  <1>5. Timer!CountedOnce'
    BY <1>1, <1>2, <1>3, <1>4 DEF Ledger, Timer!CountedOnce
  <1>6. \A t \in 1 .. MaxTimers : t > Len(started) => counts'[t] = 0 /\ t \notin ended
    BY <1>1, <1>3 DEF Ledger
  <1>7. \A t \in 1 .. Len(started) : t # stored' => counts'[t] >= 1 \/ t \in ended \cup missed
    <2> SUFFICES ASSUME NEW t \in 1 .. Len(started) PROVE counts'[t] >= 1 \/ t \in ended \cup missed
      OBVIOUS
    <2>1. t \in 1 .. MaxTimers
      BY <1>1 DEF Instants
    <2>2. QED BY <1>2, <1>3, <2>1 DEF Ledger
  <1>8. QED BY <1>1, <1>2, <1>5, <1>6, <1>7 DEF Ledger

(* A ring keeps the ledger, and at the end of a timer it takes it from      *)
(* storage.                                                                 *)
LEMMA RingSteps ==
    ASSUME Instants, Ledger, NEW t \in 0 .. Len(started), Timer!Ring(t, now),
           UNCHANGED <<started, ended, missed>>
    PROVE  Ledger' /\ stored' \in {0, stored}
           /\ (t # 0 /\ started[t] + Length = now => stored' # t)
  <1> USE PomodoroAssumption
  <1>0. t # 0 /\ started[t] + Length = now => Timer!Phase(t, now) = "ringing"
    <2>1. ASSUME t # 0 PROVE started[t] \in Nat /\ now \in Nat
      BY <2>1 DEF Instants
    <2>2. QED BY <2>1 DEF Timer!Phase, Timer!End, Timer!None
  <1>1. CASE Timer!Phase(t, now) = "ringing" /\ stored = t
    <2>1. t # 0
      BY <1>1 DEF Timer!Phase, Timer!None
    <2>2. Timer!Count(stored)
      BY <1>1 DEF Timer!Ring
    <2>3. Ledger' /\ stored' = 0
      BY <1>1, <2>1, <2>2, CountSteps
    <2>4. QED BY <2>1, <2>3
  <1>2. CASE ~(Timer!Phase(t, now) = "ringing" /\ stored = t)
    <2>1. UNCHANGED <<stored, counts>>
      BY <1>2, Zenon DEF Timer!Ring
    <2>2. QED BY <1>0, <1>2, <2>1 DEF Ledger, Timer!CountedOnce
  <1>3. QED BY <1>1, <1>2

(* Every step of the timer keeps the invariant.                             *)
LEMMA PomodoroStep == PomodoroInv /\ [Timer!Next]_pomodoroVars => PomodoroInv'
  <1> SUFFICES ASSUME PomodoroInv, [Timer!Next]_pomodoroVars PROVE PomodoroInv'
    OBVIOUS
  <1> USE PomodoroAssumption DEF Timer!None, Timer!Timers
  <1>t. /\ Instants /\ Ledger /\ Rings /\ Len(started) \in Nat /\ now \in Nat /\ read \in Nat
        /\ \A t \in 1 .. Len(started) : started[t] \in Nat
    BY DEF PomodoroInv, Instants
  <1>b. up' \in BOOLEAN /\ asleep' \in BOOLEAN
    BY Zenon DEF PomodoroInv, pomodoroVars, Timer!Next, Timer!Reread, Timer!Click, Timer!Quit, Timer!Start,
       Timer!Doze, Timer!Tick
  <1>1. CASE Timer!Reread
    <2>1. /\ up /\ ~asleep /\ timer # 0 /\ read' = now /\ Timer!Ring(timer, now)
          /\ UNCHANGED <<now, up, asleep, started, timer, ended, missed>>
      BY <1>1 DEF Timer!Reread, Timer!Running
    <2>2. /\ Ledger' /\ stored' \in {0, stored}
          /\ (started[timer] + Length = now => stored' # timer)
      BY <1>t, <2>1, RingSteps DEF Instants
    <2>3. Instants'
      BY <1>t, <2>1, <2>2 DEF Instants
    <2>4. Rings'
      BY <1>t, <2>1, <2>2 DEF Rings
    <2>5. QED BY <1>b, <2>2, <2>3, <2>4 DEF PomodoroInv
  <1>2. CASE Timer!Click
    <2>1. up /\ UNCHANGED <<now, up, asleep, counts, missed>>
      BY <1>2 DEF Timer!Click, Timer!Running
    <2>2. CASE Timer!Phase(timer, read) # "over"
      <3>1. /\ timer # 0 /\ timer' = 0 /\ stored' = 0 /\ UNCHANGED <<started, read>>
            /\ ended' = IF counts[timer] = 0 THEN ended \cup {timer} ELSE ended
        BY <1>2, <2>2 DEF Timer!Click, Timer!Phase
      <3>2. timer \in 1 .. Len(started) /\ timer \in 1 .. MaxTimers
        BY <1>t, <3>1 DEF Instants
      <3>3. Instants' /\ Rings'
        BY <1>t, <2>1, <3>1 DEF Instants, Rings
      <3>4. Ledger'
        <4>1. ended' \subseteq 1 .. MaxTimers /\ counts \in [1 .. MaxTimers -> Nat]
          BY <1>t, <3>1, <3>2 DEF Ledger
        <4>2. Timer!CountedOnce'
          BY <1>t, <2>1, <3>1, <3>2, <4>1 DEF Ledger, Timer!CountedOnce
        <4>3. \A t \in 1 .. MaxTimers : t > Len(started) => counts[t] = 0 /\ t \notin ended'
          BY <1>t, <3>1, <3>2 DEF Ledger
        <4>4. ASSUME NEW t \in 1 .. Len(started) PROVE counts[t] >= 1 \/ t \in ended' \cup missed
          <5>0. t \in 1 .. MaxTimers /\ counts[t] \in Nat
            BY <1>t, <4>1 DEF Instants
          <5>1. CASE t # stored
            BY <1>t, <3>1, <5>1 DEF Ledger
          <5>2. CASE t = stored
            <6>1. t = timer
              BY <1>t, <2>1, <5>2 DEF Rings
            <6>2. QED BY <3>1, <5>0, <6>1
          <5>3. QED BY <5>1, <5>2
        <4>5. QED BY <1>t, <2>1, <3>1, <4>1, <4>2, <4>3, <4>4 DEF Ledger
      <3>5. QED BY <1>b, <3>3, <3>4 DEF PomodoroInv
    <2>3. CASE Timer!Phase(timer, read) = "over"
      <3>1. /\ Len(started) < MaxTimers /\ started' = Append(started, now)
            /\ timer' = Len(started') /\ stored' = Len(started') /\ read' = now /\ UNCHANGED ended
        BY <1>2, <2>3, Zenon DEF Timer!Click
      <3>2. /\ started' \in Seq(Nat) /\ Len(started') = Len(started) + 1
            /\ started'[Len(started) + 1] = now
            /\ \A t \in 1 .. Len(started) : started'[t] = started[t]
        <4>1. started \in Seq(Nat) /\ now \in Nat
          BY <1>t DEF Instants
        <4>2. QED BY <3>1, <4>1, AppendIs
      <3>3. Instants'
        BY <1>t, <2>1, <3>1, <3>2 DEF Instants
      <3>4. timer # 0 /\ stored = timer => timer \in missed
        <4>1. SUFFICES ASSUME timer # 0, stored = timer PROVE timer \in missed
          OBVIOUS
        <4>2. timer \in 1 .. Len(started)
          BY <1>t, <4>1 DEF Instants
        <4>3. started[timer] + Length < read
          BY <1>t, <2>3, <4>1, <4>2 DEF Timer!Phase, Timer!End, Rings
        <4>4. QED BY <1>t, <4>1, <4>2, <4>3 DEF Rings, Instants
      <3>5. Rings'
        BY <1>t, <2>1, <3>1, <3>2 DEF Rings
      <3>6. \A t \in 1 .. Len(started) : counts[t] >= 1 \/ t \in ended \cup missed
        <4> SUFFICES ASSUME NEW t \in 1 .. Len(started) PROVE counts[t] >= 1 \/ t \in ended \cup missed
          OBVIOUS
        <4>1. CASE t # stored
          BY <1>t, <4>1 DEF Ledger
        <4>2. CASE t = stored
          <5>1. t = timer /\ timer # 0
            BY <1>t, <2>1, <4>2 DEF Rings
          <5>2. QED BY <3>4, <4>2, <5>1
        <4>3. QED BY <4>1, <4>2
      <3>7. Ledger'
        BY <1>t, <2>1, <3>1, <3>2, <3>6 DEF Ledger, Timer!CountedOnce
      <3>8. QED BY <1>b, <3>3, <3>5, <3>7 DEF PomodoroInv
    <2>4. QED BY <2>2, <2>3
  <1>3. CASE Timer!Quit
    <2>1. /\ up' = FALSE /\ timer' = 0
          /\ UNCHANGED <<now, asleep, started, stored, read, counts, ended, missed>>
      BY <1>3, Zenon DEF Timer!Quit
    <2>2. Instants' /\ Ledger' /\ Rings'
      <3>1. Instants'
        BY <1>t, <2>1 DEF Instants
      <3>2. Ledger'
        BY <1>t, <2>1, Zenon DEF Ledger, Timer!CountedOnce
      <3>3. Rings'
        BY <1>t, <2>1 DEF Rings
      <3>4. QED BY <3>1, <3>2, <3>3
    <2>3. QED BY <1>b, <2>2 DEF PomodoroInv
  <1>4. CASE Timer!Start
    <2>1. /\ ~up /\ up' = TRUE /\ read' = now
          /\ timer' = (IF Timer!Phase(stored, now) = "over" THEN 0 ELSE stored)
          /\ Timer!Away /\ UNCHANGED <<now, asleep, started, ended, missed>>
      BY <1>4, Zenon DEF Timer!Start
    <2>2. CASE stored # 0 /\ Timer!Phase(stored, now) = "over"
      <3>1. Ledger' /\ stored' = 0 /\ timer' = 0
        BY <1>t, <2>1, <2>2, CountSteps DEF Timer!Away
      <3>2. Instants' /\ Rings'
        BY <1>t, <2>1, <3>1 DEF Instants, Rings
      <3>3. QED BY <1>b, <3>1, <3>2 DEF PomodoroInv
    <2>3. CASE ~(stored # 0 /\ Timer!Phase(stored, now) = "over")
      <3>1. Timer!Ring(stored, now)
        BY <2>1, <2>3 DEF Timer!Away
      <3>2. stored \in 0 .. Len(started) /\ timer' = stored
        BY <1>t, <2>1, <2>3 DEF Instants, Timer!Phase
      <3>3. /\ Ledger' /\ stored' \in {0, stored}
            /\ (stored # 0 /\ started[stored] + Length = now => stored' # stored)
        BY <1>t, <2>1, <3>1, <3>2, RingSteps
      <3>4. stored # 0 => started[stored] + Length >= now
        <4>1. SUFFICES ASSUME stored # 0 PROVE started[stored] + Length >= now
          OBVIOUS
        <4>2. stored \in 1 .. Len(started)
          BY <1>t, <3>2, <4>1
        <4>3. QED BY <1>t, <2>3, <4>1, <4>2 DEF Timer!Phase, Timer!End
      <3>5. Instants'
        BY <1>t, <2>1, <3>2, <3>3 DEF Instants
      <3>6. Rings'
        <4>1. timer' # 0 /\ stored' = timer' => started[stored] + Length # now /\ started[stored] + Length >= now
          BY <3>2, <3>3, <3>4
        <4>2. ASSUME timer' # 0 PROVE started[stored] \in Nat
          BY <1>t, <3>2, <4>2
        <4>3. QED BY <1>t, <2>1, <3>2, <3>3, <4>1, <4>2 DEF Rings
      <3>7. QED BY <1>b, <3>3, <3>5, <3>6 DEF PomodoroInv
    <2>4. QED BY <2>2, <2>3
  <1>5. CASE Timer!Doze
    <2>1. UNCHANGED <<now, up, started, timer, stored, read, counts, ended, missed>>
      BY <1>5, Zenon DEF Timer!Doze
    <2>2. Instants' /\ Ledger' /\ Rings'
      <3>1. Instants'
        BY <1>t, <2>1 DEF Instants
      <3>2. Ledger'
        BY <1>t, <2>1, Zenon DEF Ledger, Timer!CountedOnce
      <3>3. Rings'
        BY <1>t, <2>1 DEF Rings
      <3>4. QED BY <3>1, <3>2, <3>3
    <2>3. QED BY <1>b, <2>2 DEF PomodoroInv
  <1>6. CASE Timer!Tick
    <2>1. /\ now < MaxTime /\ now' = now + 1
          /\ up /\ ~asleep /\ timer # 0 => read = now
          /\ missed' = (IF asleep THEN missed \cup {t \in 1 .. Len(started) : Timer!End(t) = now} ELSE missed)
          /\ UNCHANGED <<up, asleep, started, timer, stored, read, counts, ended>>
      BY <1>6 DEF Timer!Tick, Timer!Running
    <2>2. Instants'
      BY <1>t, <2>1 DEF Instants
    <2>3. missed \subseteq missed' /\ missed' \subseteq 1 .. MaxTimers
      <3>1. {t \in 1 .. Len(started) : Timer!End(t) = now} \subseteq 1 .. MaxTimers
        BY <1>t DEF Instants
      <3>2. missed \subseteq 1 .. MaxTimers
        BY <1>t DEF Ledger
      <3>3. QED BY <2>1, <3>1, <3>2, Zenon
    <2>4. Ledger'
      BY <1>t, <2>1, <2>3 DEF Ledger, Timer!CountedOnce
    <2>5. Rings'
      <3>1. timer # 0 /\ stored = timer /\ started[timer] + Length < now + 1 => timer \in missed'
        <4>1. SUFFICES ASSUME timer # 0, stored = timer, started[timer] + Length < now + 1 PROVE timer \in missed'
          OBVIOUS
        <4>2. timer \in 1 .. Len(started) /\ started[timer] \in Nat /\ up
          BY <1>t, <4>1 DEF Instants, Rings
        <4>3. CASE started[timer] + Length < now
          BY <1>t, <2>3, <4>1, <4>3 DEF Rings
        <4>4. CASE started[timer] + Length = now
          <5>1. asleep
            BY <1>t, <2>1, <4>1, <4>2, <4>4 DEF Rings
          <5>2. QED BY <2>1, <4>2, <4>4, <5>1 DEF Timer!End
        <4>5. QED BY <1>t, <4>1, <4>2, <4>3, <4>4
      <3>2. QED BY <1>t, <2>1, <3>1 DEF Rings
    <2>6. QED BY <1>b, <2>2, <2>4, <2>5 DEF PomodoroInv
  <1>7. CASE UNCHANGED pomodoroVars
    <2>1. UNCHANGED <<now, up, started, timer, stored, read, counts, ended, missed>>
      BY <1>7, Zenon DEF pomodoroVars
    <2>2. Instants' /\ Ledger' /\ Rings'
      <3>1. Instants'
        BY <1>t, <2>1 DEF Instants
      <3>2. Ledger'
        BY <1>t, <2>1, Zenon DEF Ledger, Timer!CountedOnce
      <3>3. Rings'
        BY <1>t, <2>1 DEF Rings
      <3>4. QED BY <3>1, <3>2, <3>3
    <2>3. QED BY <1>b, <2>2 DEF PomodoroInv
  <1>8. QED BY <1>1, <1>2, <1>3, <1>4, <1>5, <1>6, <1>7, Zenon DEF Timer!Next

(* A timer whose end is past has left the storage, or was missed.           *)
LEMMA PomodoroInvSafe == PomodoroInv => Timer!PomodoroSafe
  <1> SUFFICES ASSUME PomodoroInv PROVE Timer!TypeOK /\ Timer!CountedOnce /\ Timer!EveryEndCounts
    BY DEF Timer!PomodoroSafe
  <1>1. Instants /\ Ledger
    BY DEF PomodoroInv
  <1>2. Timer!TypeOK
    <2>1. /\ now \in 0 .. MaxTime /\ read \in 0 .. now /\ Len(started) <= MaxTimers
          /\ \A t \in 1 .. Len(started) : started[t] \in 0 .. now
          /\ {timer, stored} \subseteq 0 .. Len(started)
          /\ counts \in [Timer!Timers -> Nat] /\ ended \cup missed \subseteq Timer!Timers
      BY <1>1 DEF Instants, Ledger
    <2>2. QED BY <2>1, Zenon DEF Timer!TypeOK, PomodoroInv
  <1>3. Timer!CountedOnce
    BY <1>1 DEF Ledger
  <1>4. Timer!EveryEndCounts
    BY <1>1 DEF Ledger, Timer!EveryEndCounts
  <1>5. QED BY <1>2, <1>3, <1>4

(* Whatever clicks, restarts, sleep and closed windows come in between, a   *)
(* pomodoro is counted once, never after it was ended, and each that ended  *)
(* is counted or will be (Pomodoro).                                        *)
THEOREM PomodoroSafety == Spec => []PomodoroSafe
  <1>1. Init => (part = "pomodoro" => PomodoroInv)
    BY PomodoroInit
  <1>2. (part = "pomodoro" => PomodoroInv) /\ [Next]_deskVars => (part = "pomodoro" => PomodoroInv)'
    BY PartSteps, PomodoroStep
  <1>3. (part = "pomodoro" => PomodoroInv) => PomodoroSafe
    BY PomodoroInvSafe DEF PomodoroSafe
  <1>4. QED BY <1>1, <1>2, <1>3, PTL DEF Spec
-----------------------------------------------------------------------------
(* Pointer: what is applied is what the flags say, unless a closure waits,  *)
(* a command is between its halves, or the tracker has lost track.          *)

(* How far the three callers are, each between its store and its post.      *)
Calls ==
    /\ calls = [c \in Mouse!Callers |-> [at |-> calls[c].at, value |-> calls[c].value]]
    /\ calls["pixel"].at \in {"none", "store", "post", "answered", "failed"}
    /\ \A c \in {"held", "through"} : calls[c].at \in {"none", "store", "post"}

(* Nothing is on its way but, maybe, an answer for the tracker.             *)
Quiet ==
    /\ posted = <<>> /\ \A c \in {"held", "through"} : calls[c].at = "none"
    /\ \/ calls["pixel"].at = "answered"
       \/ calls["pixel"].at = "none" /\ tracker.captured # Mouse!Unknown

(* The tracker is a record of its fields.                                   *)
Tracks ==
    tracker = [on |-> tracker.on, captured |-> tracker.captured, awaits |-> tracker.awaits]

(* When nothing is on its way the window captures as the flags say.         *)
PointerInv ==
    /\ Calls /\ Tracks /\ posted \in Seq(BOOLEAN)
    /\ Quiet => applied = Mouse!Captures(native)

(* Each step keeps the calls and the tracker of their kinds.                *)
LEMMA PointerTypes ==
    ASSUME PointerInv, [Mouse!Next]_pointerVars
    PROVE  Calls' /\ Tracks'
  <1> USE DEF Mouse!Callers
  <1>0. Calls /\ Tracks
    BY DEF PointerInv
  <1>1. CASE UNCHANGED <<calls, tracker>>
    BY <1>0, <1>1 DEF Calls, Tracks
  <1>4. ASSUME NEW c \in Mouse!Callers, Mouse!Store(c) PROVE Calls' /\ Tracks'
    <2>1. calls' = [calls EXCEPT ![c] = [at |-> "post", value |-> FALSE]] /\ tracker' = tracker
      BY <1>4, Zenon DEF Mouse!Store, Mouse!page
    <2>2. QED BY <1>0, <2>1 DEF Calls, Tracks
  <1>5. ASSUME NEW c \in Mouse!Callers, Mouse!Post(c) PROVE Calls' /\ Tracks'
    <2>1. /\ tracker' = tracker
          /\ \/ c = "pixel" /\ calls' = [calls EXCEPT ![c].at = "answered"]
             \/ c # "pixel" /\ calls' = [calls EXCEPT ![c] = Mouse!NoCall]
             \/ c = "pixel" /\ calls' = [calls EXCEPT ![c].at = "failed"]
      BY <1>5, Zenon DEF Mouse!Post, Mouse!page
    <2>2. QED BY <1>0, <2>1 DEF Calls, Tracks, Mouse!NoCall
  <1>7. CASE Mouse!Probe
    BY <1>0, <1>7 DEF Mouse!Probe, Mouse!Call, Calls, Tracks
  <1>8. ASSUME Mouse!Recover PROVE Calls' /\ Tracks'
    BY <1>0, <1>8 DEF Mouse!Recover, Mouse!Call, Calls, Tracks
  <1>9. CASE Mouse!Captured
    <2>1. ASSUME calls' = [calls EXCEPT !["pixel"] = Mouse!NoCall],
                 \E a, k : tracker' = [tracker EXCEPT !.awaits = a, !.captured = k]
          PROVE  Calls' /\ Tracks'
      BY <1>0, <2>1 DEF Calls, Tracks, Mouse!NoCall
    <2>2. CASE Mouse!Recover
      BY <1>8, <2>2
    <2>3. CASE calls["pixel"].at = "answered" /\ ~Mouse!Recover
      BY <1>9, <2>1, <2>3, Zenon DEF Mouse!Captured
    <2>4. CASE ~Mouse!Recover /\ calls["pixel"].at # "answered"
      BY <1>9, <2>1, <2>4, Zenon DEF Mouse!Captured
    <2>5. QED BY <2>2, <2>3, <2>4
  <1>10. CASE Mouse!Held
    BY <1>0, <1>10 DEF Mouse!Held, Mouse!Call, Calls, Tracks
  <1>12. CASE Mouse!ClickThrough
    BY <1>0, <1>12 DEF Mouse!ClickThrough, Mouse!Call, Calls, Tracks
  <1>13. CASE Mouse!Reopen
    BY <1>0, <1>13 DEF Mouse!Reopen, Mouse!Call, Calls, Tracks
  <1>14. QED BY <1>1, <1>4, <1>5, <1>7, <1>8, <1>9, <1>10, <1>12, <1>13, Zenon
         DEF Mouse!Next, pointerVars, Mouse!Moves, Mouse!Press, Mouse!Release, Mouse!page, Mouse!Apply,
             Mouse!ProbeFails, Mouse!Panel

(* Only answers of the policy are posted to the main thread.                *)
LEMMA PostedTypes ==
    ASSUME posted \in Seq(BOOLEAN), [Mouse!Next]_pointerVars
    PROVE  posted' \in Seq(BOOLEAN)
  <1>c. \A p : Mouse!Captures(p) \in BOOLEAN
    BY Zenon DEF Mouse!Captures
  <1>1. ASSUME NEW p, posted' = Append(posted, Mouse!Captures(p)) PROVE posted' \in Seq(BOOLEAN)
    <2>1. Mouse!Captures(p) \in BOOLEAN
      BY <1>c
    <2>2. QED BY <1>1, <2>1, AppendIs, Zenon
  <1>2. ASSUME posted # <<>>, posted' = Tail(posted) PROVE posted' \in Seq(BOOLEAN)
    BY <1>2, TailIs, Zenon
  <1>3. QED BY <1>1, <1>2, Zenon
        DEF Mouse!Next, pointerVars, Mouse!Moves, Mouse!Press, Mouse!Release, Mouse!page, Mouse!Apply,
            Mouse!ProbeFails, Mouse!Panel, Mouse!Store, Mouse!Post, Mouse!Probe, Mouse!Captured, Mouse!Held,
            Mouse!ClickThrough, Mouse!Reopen

(* Every step of the pointer keeps the invariant.                           *)
LEMMA PointerStep == PointerInv /\ [Mouse!Next]_pointerVars => PointerInv'
  <1> SUFFICES ASSUME PointerInv, [Mouse!Next]_pointerVars, Quiet'
               PROVE  applied' = Mouse!Captures(native')
    BY PointerTypes, PostedTypes, Zenon DEF PointerInv
  <1>0. /\ Calls /\ Tracks /\ posted \in Seq(BOOLEAN)
        /\ Quiet => applied = Mouse!Captures(native)
    BY DEF PointerInv
  <1> USE DEF Quiet, Mouse!Callers
  <1>1. CASE UNCHANGED <<native, applied, posted, calls, tracker>>
    BY <1>0, <1>1, Zenon
  <1>4. ASSUME NEW c \in Mouse!Callers, Mouse!Store(c) PROVE FALSE
    <2>1. calls' = [calls EXCEPT ![c] = [at |-> "post", value |-> FALSE]]
      BY <1>4, Zenon DEF Mouse!Store
    <2>2. calls'[c].at = "post"
      BY <1>0, <2>1 DEF Calls
    <2>3. QED BY <2>2
  <1>5. ASSUME NEW c \in Mouse!Callers, Mouse!Post(c) PROVE FALSE
    <2>0. Append(posted, Mouse!Captures(native)) # <<>>
      BY <1>0
    <2>1. posted' # <<>> \/ (c = "pixel" /\ calls' = [calls EXCEPT ![c].at = "failed"])
      BY <1>5, <2>0, Zenon DEF Mouse!Post
    <2>2. CASE c = "pixel" /\ calls' = [calls EXCEPT ![c].at = "failed"]
      BY <1>0, <2>2 DEF Calls
    <2>3. QED BY <2>1, <2>2
  <1>6. CASE Mouse!Apply
    BY <1>6, Zenon DEF Mouse!Apply, Mouse!Decision
  <1>7. CASE Mouse!Probe
    <2>1. CASE UNCHANGED <<tracker, calls>>
      BY <1>1, <1>7, <2>1, Zenon DEF Mouse!Probe
    <2>2. CASE calls' = [calls EXCEPT !["pixel"] = Mouse!Call(over)]
      BY <1>0, <2>2 DEF Calls, Mouse!Call
    <2>3. QED BY <1>7, <2>1, <2>2, Zenon DEF Mouse!Probe
  <1>8. CASE Mouse!ProbeFails
    BY <1>0, <1>8 DEF Mouse!ProbeFails, Mouse!Recover, Mouse!Call, Calls
  <1>9. CASE Mouse!Captured
    <2>0. UNCHANGED <<native, applied, posted>>
      BY <1>9, Zenon DEF Mouse!Captured
    <2>1. CASE calls["pixel"].at = "answered" /\ calls' = [calls EXCEPT !["pixel"] = Mouse!NoCall]
      <3>1. \A c \in {"held", "through"} : calls[c].at = calls'[c].at
        BY <1>0, <2>1 DEF Calls
      <3>2. QED BY <1>0, <2>0, <2>1, <3>1
    <2>2. CASE calls' = [calls EXCEPT !["pixel"] = Mouse!Call(FALSE)]
      BY <1>0, <2>2 DEF Calls, Mouse!Call
    <2>3. CASE /\ tracker' = [tracker EXCEPT !.awaits = "none", !.captured = Mouse!Unknown]
               /\ calls' = [calls EXCEPT !["pixel"] = Mouse!NoCall]
      BY <1>0, <2>3 DEF Calls, Tracks, Mouse!NoCall
    <2>4. QED BY <1>9, <2>1, <2>2, <2>3, Zenon DEF Mouse!Captured, Mouse!Recover
  <1>10. CASE Mouse!Held
    BY <1>0, <1>10 DEF Mouse!Held, Mouse!Call, Calls
  <1>11. CASE Mouse!Panel
    BY <1>11, Zenon DEF Mouse!Panel
  <1>12. CASE Mouse!ClickThrough
    BY <1>0, <1>12 DEF Mouse!ClickThrough, Mouse!Call, Calls
  <1>13. CASE Mouse!Reopen
    <2>1. Append(posted, Mouse!Captures(native')) # <<>>
      BY <1>0
    <2>2. QED BY <1>13, <2>1, Zenon DEF Mouse!Reopen
  <1>14. QED BY <1>1, <1>4, <1>5, <1>6, <1>7, <1>8, <1>9, <1>10, <1>11, <1>12, <1>13, Zenon
         DEF Mouse!Next, pointerVars, Mouse!Moves, Mouse!Press, Mouse!Release, Mouse!page

(* The start: the window captures, as the flags say.                        *)
LEMMA PointerInit == Init => PointerInv
  <1> SUFFICES ASSUME Mouse!Init PROVE PointerInv
    BY DEF Init
  <1> USE DEF Mouse!Init, Mouse!Callers, Mouse!Flags, Mouse!NoCall, Mouse!Unknown
  <1>1. Calls
    BY DEF Calls
  <1>2. ~Quiet
    BY DEF Quiet
  <1>3. posted \in Seq(BOOLEAN) /\ Tracks
    BY DEF Tracks
  <1>4. QED BY <1>1, <1>2, <1>3 DEF PointerInv

(* What the run checks is the invariant where Quiet holds.                  *)
LEMMA PointerInvSafe == PointerInv => Mouse!PolicyApplied
  <1> SUFFICES ASSUME PointerInv, posted = <<>>, tracker.captured # Mouse!Unknown,
                      \A c \in Mouse!Callers : calls[c].at \in {"none", "answered"}
               PROVE  applied = Mouse!Captures(native)
    BY DEF Mouse!PolicyApplied
  <1>1. Calls /\ (Quiet => applied = Mouse!Captures(native))
    BY DEF PointerInv
  <1>2. Quiet
    BY <1>1 DEF Quiet, Calls, Mouse!Callers
  <1>3. QED BY <1>1, <1>2

(* However the commands of the tracker, the drag and the menu overtake one  *)
(* another or fail, and in whatever order their closures run, the window    *)
(* takes clicks exactly when the flags say so once nothing is under way     *)
(* (Pointer).                                                               *)
THEOREM PointerSafety == Spec => []PolicyApplied
  <1>1. Init => (part = "pointer" => PointerInv)
    BY PointerInit
  <1>2. (part = "pointer" => PointerInv) /\ [Next]_deskVars => (part = "pointer" => PointerInv)'
    BY PartSteps, PointerStep
  <1>3. (part = "pointer" => PointerInv) => PolicyApplied
    BY PointerInvSafe DEF PolicyApplied
  <1>4. QED BY <1>1, <1>2, <1>3, PTL DEF Spec
-----------------------------------------------------------------------------
(* PetDrag: the suppression lasts as long as a drag's click may come.       *)

(* The click of a drag comes while it is suppressed, and no press is under  *)
(* way when a click waits.                                                  *)
DragInv ==
    /\ pressed \in BOOLEAN /\ suppress \in BOOLEAN
    /\ drag \in {"none", "pressed", "dragging"}
    /\ clicks \in {<<>>, <<"click">>, <<"drag">>}
    /\ holds \in Seq(BOOLEAN)
    /\ pressed => clicks = <<>>
    /\ clicks = <<"drag">> => suppress \/ drag = "dragging"
    /\ drag = "dragging" => suppress
    /\ Dragging!HoldEnds

(* The last element of a sequence that has grown.                           *)
LEMMA HoldLast ==
    ASSUME NEW s \in Seq(BOOLEAN), NEW x \in BOOLEAN
    PROVE  /\ Append(s, x) \in Seq(BOOLEAN) /\ Append(s, x) # <<>>
           /\ Append(s, x)[Len(Append(s, x))] = x
  <1>1. /\ Append(s, x) \in Seq(BOOLEAN) /\ Append(s, x) # <<>>
        /\ Len(Append(s, x)) = Len(s) + 1 /\ Append(s, x)[Len(s) + 1] = x
    BY AppendIs
  <1>2. QED BY <1>1

(* The last element stays when the first goes.                              *)
LEMMA TailLast ==
    ASSUME NEW s \in Seq(BOOLEAN), Len(s) > 1
    PROVE  /\ Tail(s) \in Seq(BOOLEAN) /\ s # <<>>
           /\ Tail(s)[Len(Tail(s))] = s[Len(s)]
  <1>1. s # <<>> /\ Len(s) \in Nat
    OBVIOUS
  <1>2. /\ Tail(s) \in Seq(BOOLEAN) /\ Len(Tail(s)) = Len(s) - 1
        /\ \A i \in 1 .. Len(s) - 1 : Tail(s)[i] = s[i + 1]
    BY <1>1, TailIs
  <1>3. Len(s) - 1 \in 1 .. Len(s) - 1 /\ (Len(s) - 1) + 1 = Len(s)
    BY <1>1
  <1>4. QED BY <1>1, <1>2, <1>3

(* A sequence of one element has no tail.                                   *)
LEMMA TailOfOne == \A x : Tail(<<x>>) = <<>>
  <1> SUFFICES ASSUME NEW x PROVE Tail(<<x>>) = <<>>
    OBVIOUS
  <1>1. <<x>> \in Seq({x}) /\ <<x>> # <<>> /\ Len(<<x>>) = 1
    OBVIOUS
  <1>2. Tail(<<x>>) \in Seq({x}) /\ Len(Tail(<<x>>)) = 0
    BY <1>1, TailIs
  <1>3. QED BY <1>2

(* Three different queues of clicks.                                        *)
LEMMA ClicksDiffer == <<>> # <<"drag">> /\ <<"click">> # <<"drag">>
  <1>1. <<"click">>[1] # <<"drag">>[1]
    OBVIOUS
  <1>2. QED BY <1>1

(* Every step of a drag keeps the invariant.                                *)
LEMMA DragStep == DragInv /\ [Dragging!Next]_dragVars => DragInv'
  <1> SUFFICES ASSUME DragInv, [Dragging!Next]_dragVars PROVE DragInv'
    OBVIOUS
  <1> USE DEF DragInv, Dragging!HoldEnds
  <1>h. holds \in Seq(BOOLEAN) /\ TRUE \in BOOLEAN /\ FALSE \in BOOLEAN
    OBVIOUS
  <1>1. CASE Dragging!Press
    BY <1>1, <1>h, HoldLast, Zenon DEF Dragging!Press
  <1>2. CASE Dragging!Moves
    BY <1>2, Zenon DEF Dragging!Moves
  <1>3. CASE Dragging!LetGo
    <2>1. CASE drag = "dragging"
      <3>1. /\ drag' = drag /\ suppress' = suppress /\ holds' = holds /\ pressed' = FALSE
            /\ clicks' \in {<<>>, <<"drag">>}
        BY <1>3, <2>1, Zenon DEF Dragging!LetGo
      <3>2. QED BY <2>1, <3>1, Zenon
    <2>2. CASE drag # "dragging"
      <3>1. /\ drag' = "none" /\ suppress' = suppress /\ pressed' = FALSE
            /\ holds' = Append(holds, FALSE) /\ clicks' \in {<<>>, <<"click">>}
        BY <1>3, <2>2, Zenon DEF Dragging!LetGo
      <3>2. holds' \in Seq(BOOLEAN) /\ ~holds'[Len(holds')]
        BY <3>1, <1>h, HoldLast, Zenon
      <3>3. clicks' # <<"drag">>
        BY <3>1, ClicksDiffer, Zenon
      <3>4. QED BY <3>1, <3>2, <3>3, Zenon
    <2>3. QED BY <2>1, <2>2
  <1>4. CASE Dragging!DragEnds
    BY <1>4, <1>h, HoldLast, Zenon DEF Dragging!DragEnds, Dragging!Finish
  <1>5. CASE Dragging!Click
    <2>1. clicks' = <<>>
      <3>1. clicks # <<>> /\ clicks' = Tail(clicks) /\ clicks \in {<<>>, <<"click">>, <<"drag">>}
        BY <1>5, Zenon DEF Dragging!Click
      <3>2. QED BY <3>1, TailOfOne, Zenon
    <2>2. UNCHANGED <<pressed, drag, suppress, holds>>
      BY <1>5, Zenon DEF Dragging!Click
    <2>3. <<>> # <<"drag">>
      OBVIOUS
    <2>4. QED BY <2>1, <2>2, <2>3, Zenon
  <1>6. CASE Dragging!Held
    BY <1>6, <1>h, TailLast, Zenon DEF Dragging!Held
  <1>7. CASE UNCHANGED dragVars
    BY <1>7, Zenon DEF dragVars
  <1>8. QED BY <1>1, <1>2, <1>3, <1>4, <1>5, <1>6, <1>7 DEF Dragging!Next

(* The start: no press, no click.                                           *)
LEMMA DragInit == Init => DragInv
  <1>1. Init => /\ pressed = FALSE /\ drag = "none" /\ clicks = <<>>
                /\ suppress = FALSE /\ holds = <<>>
    BY DEF Init, Dragging!Init
  <1>2. <<>> \in Seq(BOOLEAN) /\ <<>> # <<"drag">>
    OBVIOUS
  <1>3. ASSUME Init PROVE DragInv
    <2> USE <1>1, <1>2, <1>3
    <2>1. /\ pressed \in BOOLEAN /\ suppress \in BOOLEAN
          /\ drag \in {"none", "pressed", "dragging"}
      BY Zenon
    <2>2. clicks \in {<<>>, <<"click">>, <<"drag">>} /\ holds \in Seq(BOOLEAN)
      BY Zenon
    <2>3. clicks = <<>> /\ clicks # <<"drag">> /\ drag # "dragging" /\ holds = <<>>
      BY Zenon
    <2>4. QED BY <2>1, <2>2, <2>3, Zenon DEF DragInv, Dragging!HoldEnds
  <1>4. QED BY <1>3

(* A window that is not held by a press or a drag is let go of natively     *)
(* (PetDrag), after any number of presses and drags.                        *)
THEOREM DragSafety == Spec => [](part = "drag" => DragInv)
  <1>1. Init => (part = "drag" => DragInv)
    BY DragInit
  <1>2. (part = "drag" => DragInv) /\ [Next]_deskVars => (part = "drag" => DragInv)'
    BY PartSteps, DragStep
  <1>3. QED BY <1>1, <1>2, PTL DEF Spec

(* A drag never pins the menu, however late its click comes.                *)
THEOREM DragIsNoClick == Spec => [][part = "drag" => Dragging!NoPin]_deskVars
  <1>1. (part = "drag" => DragInv) /\ [Next]_deskVars => [part = "drag" => Dragging!NoPin]_deskVars
    <2> SUFFICES ASSUME part = "drag", DragInv, [Dragging!Next]_dragVars
                 PROVE  Dragging!NoPin
      BY PartSteps
    <2>1. SUFFICES ASSUME clicks = <<"drag">>, clicks' = <<>>, pinned' PROVE pinned
      BY Zenon DEF Dragging!NoPin
    <2>2. <<>> # <<"drag">>
      OBVIOUS
    <2>3. CASE Dragging!Click
      BY <2>1, <2>3, Zenon DEF Dragging!Click, DragInv
    <2>4. CASE Dragging!LetGo
      BY <2>1, <2>2, <2>4, Zenon DEF Dragging!LetGo, DragInv
    <2>5. CASE UNCHANGED clicks
      BY <2>1, <2>2, <2>5, Zenon
    <2>6. QED BY <2>3, <2>4, <2>5, Zenon DEF Dragging!Next, dragVars, Dragging!Press, Dragging!Moves,
                 Dragging!DragEnds, Dragging!Held
  <1>2. QED BY <1>1, DragSafety, PTL DEF Spec
-----------------------------------------------------------------------------
(* PetWindow: the desks, wherever the frame that holds them is.             *)

(* A frame of the pets, and one that lies in the work area.                 *)
Framed(r) == r = [y |-> r.y, h |-> r.h] /\ r.y \in Int /\ r.h \in Heights \cup {Window!DEFAULT}
Inside(r) == 0 <= r.y /\ r.y + r.h <= Bottom

(* Kept, of desks that were left at l with a tray of t.                     *)
Near(d, l, t) ==
    /\ d >= l \/ d >= Bottom - t
    /\ d <= l \/ d <= Window!Tallest - t

(* The window as it is, and the frame it goes back to from the panel, with  *)
(* the tray it was left with unless it was fitted since.                    *)
Panes ==
    /\ tray \in 0 .. 5 /\ page \in {"starting", "sized", "ready"}
    /\ win.y \in Tops \cup 0 .. Bottom
    /\ win = [y |-> win.y, h |-> win.h]
    /\ IF frame = Window!No THEN Framed(win) /\ (Inside(win) \/ (page = "ready" /\ tray = left.tray))
       ELSE /\ page = "ready" /\ win.h = Window!PANEL
            /\ Framed(frame) /\ (Inside(frame) \/ tray = left.tray)

(* The desks stand where they were left, once the page is ready; before,    *)
(* where they will be put is known.                                         *)
Places ==
    /\ left.desks \in Int /\ left.tray \in 0 .. 5
    /\ place \in Int /\ Window!Desks \in Int
    /\ page = "ready" \/ place = Window!NoPlace => Near(Window!Desks, left.desks, left.tray)
    /\ page # "ready" /\ place # Window!NoPlace => Near(place + 32, left.desks, left.tray)

(* A move that is not stored yet is the last one.                           *)
Answers ==
    /\ moved \in BOOLEAN /\ moves \in 0 .. Drags
    /\ moved => page = "ready"
    /\ page = "ready" /\ ~moved /\ place # Window!NoPlace => Near(place + 32, left.desks, left.tray)

(* Together.                                                                *)
WindowInv == Panes /\ Places /\ Answers

(* Some frame is the tallest, and the one without a menu is not taller.     *)
LEMMA TallestIs ==
    /\ Window!Tallest \in Int /\ Window!Tallest <= Bottom
    /\ Bottom \in Nat /\ Bottom >= 58
    /\ \A h \in Heights \cup {Window!DEFAULT} : h \in Int /\ 0 < h /\ h <= Window!Tallest
  <1>1. PICK h \in Heights : h >= 33 /\ \A g \in Heights : g <= h
    BY WindowAssumption
  <1>2. Window!Tallest \in Heights /\ \A g \in Heights : g <= Window!Tallest
    BY <1>1, Zenon DEF Window!Tallest
  <1>3. QED BY <1>1, <1>2, WindowAssumption DEF Window!DEFAULT

(* A frame that is fitted keeps its height and lies in the work area.       *)
LEMMA FitIs ==
    ASSUME NEW r, Framed(r)
    PROVE  /\ Window!Fit(r, 0) = [y |-> Window!Clamp(r.y, 0, Bottom - r.h), h |-> r.h]
           /\ Window!Fit(r, 0).y = Window!Clamp(r.y, 0, Bottom - r.h) /\ Window!Fit(r, 0).h = r.h
           /\ Framed(Window!Fit(r, 0)) /\ Inside(Window!Fit(r, 0))
           /\ Window!Fit(r, 0).y \in 0 .. Bottom
           /\ r # Window!No
  <1>1. r.y \in Int /\ r.h \in Int /\ 0 < r.h /\ r.h <= Bottom /\ Bottom \in Nat
    BY TallestIs DEF Framed
  <1> DEFINE y == Window!Clamp(r.y, 0, Bottom - r.h)
  <1>2. Window!Fit(r, 0) = [y |-> y, h |-> r.h]
    BY <1>1 DEF Window!Fit, Window!Clamp
  <1>3. y \in Int /\ 0 <= y /\ y + r.h <= Bottom
    BY <1>1 DEF Window!Clamp
  <1> HIDE DEF y
  <1>4. Window!Fit(r, 0).y = y /\ Window!Fit(r, 0).h = r.h
    BY <1>2
  <1>5. Framed(Window!Fit(r, 0)) /\ Inside(Window!Fit(r, 0)) /\ Window!Fit(r, 0).y \in 0 .. Bottom
    BY <1>1, <1>2, <1>3, <1>4 DEF Framed, Inside
  <1>6. r # Window!No
    BY <1>1 DEF Window!No
  <1>7. QED BY <1>2, <1>4, <1>5, <1>6 DEF y

(* A frame of any height with a whole tray, placed on desks at d, takes the *)
(* tray and then the desks back to the work area, and no further.           *)
LEMMA PlacedIs ==
    ASSUME NEW d \in Int, NEW h \in Heights \cup {Window!DEFAULT},
           NEW r, r = [y |-> d + 5 - h, h |-> h]
    PROVE  /\ Framed(Window!Fit(r, 0)) /\ Inside(Window!Fit(r, 0)) /\ Window!Fit(r, 0).h = h
           /\ Window!Fit(r, 0).y \in 0 .. Bottom
           /\ Window!FittedTray(r) \in 0 .. 5
           /\ Window!Foot(Window!Fit(r, 0)) - Window!FittedTray(r) = Window!Clamp(d, h - 5, Bottom)
           /\ Window!Fit(r, 0) # Window!No
  <1>1. h \in Int /\ 0 < h /\ h <= Bottom /\ Bottom \in Nat /\ Bottom >= 58
    BY TallestIs
  <1>2. r.y = d + 5 - h /\ r.h = h /\ Framed(r)
    BY <1>1 DEF Framed
  <1> DEFINE y == Window!Clamp(d + 5 - h, 0, Bottom - h)
  <1>3. /\ Window!Fit(r, 0).y = y /\ Window!Fit(r, 0).h = h
        /\ Framed(Window!Fit(r, 0)) /\ Inside(Window!Fit(r, 0)) /\ Window!Fit(r, 0).y \in 0 .. Bottom
    BY <1>2, FitIs
  <1>4. Window!FittedTray(r) = Window!Clamp(5 - ((d + 5 - h) - y), 0, 5)
    BY <1>2, <1>3, Zenon DEF Window!FittedTray, Window!TRAY
  <1>5. Window!FittedTray(r) \in 0 .. 5
    BY <1>1, <1>4 DEF Window!Clamp
  <1>6. (y + h) - Window!FittedTray(r) = Window!Clamp(d, h - 5, Bottom)
    BY <1>1, <1>4 DEF Window!Clamp
  <1>7. Window!Foot(Window!Fit(r, 0)) - Window!FittedTray(r) = Window!Clamp(d, h - 5, Bottom)
    <2>1. Window!Foot(Window!Fit(r, 0)) = y + h
      BY <1>3, Zenon DEF Window!Foot
    <2> HIDE DEF y
    <2>2. QED BY <1>6, <2>1, Zenon
  <1>8. Window!Fit(r, 0) # Window!No
    BY <1>3, FitIs
  <1>9. QED BY <1>3, <1>5, <1>7, <1>8

(* To be placed takes desks back to the work area, not away from where they *)
(* were left.                                                               *)
LEMMA NearPlaced ==
    ASSUME NEW d \in Int, NEW l \in Int, NEW t \in 0 .. 5, Near(d, l, t),
           NEW h \in Heights \cup {Window!DEFAULT}
    PROVE  Near(Window!Clamp(d, h - 5, Bottom), l, t) /\ Window!Clamp(d, h - 5, Bottom) \in Int
  <1>1. h \in Int /\ h <= Window!Tallest /\ Window!Tallest \in Int /\ Window!Tallest <= Bottom /\ Bottom \in Nat
    BY TallestIs
  <1>2. QED BY <1>1 DEF Near, Window!Clamp

(* So does a frame with the tray it was left with.                          *)
LEMMA NearLifted ==
    ASSUME NEW y \in Int, NEW l \in Int, NEW t \in 0 .. 5, NEW h \in Heights \cup {Window!DEFAULT},
           Near((y + h) - t, l, t)
    PROVE  Near((Window!Clamp(y, 0, Bottom - h) + h) - t, l, t)
  <1>1. h \in Int /\ h <= Window!Tallest /\ Window!Tallest \in Int /\ Window!Tallest <= Bottom /\ Bottom \in Nat
    BY TallestIs
  <1>2. QED BY <1>1 DEF Near, Window!Clamp

(* The desks of the frame that holds them.                                  *)
LEMMA DesksAre ==
    /\ frame = Window!No => Window!Desks = (win.y + win.h) - tray
    /\ frame # Window!No => Window!Desks = (frame.y + frame.h) - tray
  <1> DEFINE foot == IF frame = Window!No THEN Window!Foot(win) ELSE Window!Foot(frame)
  <1>1. frame = Window!No => foot = win.y + win.h
    BY Zenon DEF Window!Foot
  <1>2. frame # Window!No => foot = frame.y + frame.h
    BY Zenon DEF Window!Foot
  <1>3. Window!Desks = foot - tray
    BY Zenon DEF Window!Desks
  <1> HIDE DEF foot
  <1>4. QED BY <1>1, <1>2, <1>3

(* The desks of the next state, in terms of its frames.                     *)
LEMMA DesksBecome ==
    /\ frame' = Window!No => Window!Desks' = (win'.y + win'.h) - tray'
    /\ frame' # Window!No => Window!Desks' = (frame'.y + frame'.h) - tray'
  <1> DEFINE foot == IF frame' = Window!No THEN Window!Foot(win') ELSE Window!Foot(frame')
  <1>1. frame' = Window!No => foot = win'.y + win'.h
    BY Zenon DEF Window!Foot
  <1>2. frame' # Window!No => foot = frame'.y + frame'.h
    BY Zenon DEF Window!Foot
  <1>3. Window!Desks' = foot - tray'
    BY Zenon DEF Window!Desks, Window!Foot, Window!No, Window!NoPlace
  <1> HIDE DEF foot
  <1>4. QED BY <1>1, <1>2, <1>3

(* A place that is used as it is.                                           *)
LEMMA StoodAtIs ==
    ASSUME NEW d \in Int
    PROVE  /\ Window!StoodAt(d).desks = d /\ Window!StoodAt(d).tray \in 0 .. 5
           /\ Near(d, Window!StoodAt(d).desks, Window!StoodAt(d).tray)
  <1>1. Bottom \in Nat
    BY WindowAssumption
  <1> DEFINE t == Window!Clamp(Bottom - d, 0, Window!TRAY)
  <1>2. t \in 0 .. 5
    BY <1>1 DEF Window!Clamp, Window!TRAY
  <1>3. Window!StoodAt(d) = [desks |-> d, tray |-> t]
    BY Zenon DEF Window!StoodAt, Window!Stood
  <1> HIDE DEF t
  <1>4. QED BY <1>2, <1>3 DEF Near

(* The window before the page loads.                                        *)
LEMMA InitialIs ==
    LET r == Window!Initial
    IN  /\ Framed(Window!Fit(r, 0)) /\ Inside(Window!Fit(r, 0)) /\ Window!Fit(r, 0).y \in 0 .. Bottom
        /\ Window!FittedTray(r) \in 0 .. 5
        /\ Window!InitialDesks \in Int
        /\ (Window!Fit(r, 0).y + Window!Fit(r, 0).h) - Window!FittedTray(r) = Window!InitialDesks
  <1>1. Bottom \in Nat /\ Bottom >= 58
    BY WindowAssumption
  <1>2. Window!Initial = [y |-> (Bottom - 2) + 5 - 33, h |-> 33] /\ Window!InitialDesks = Bottom - 2
    BY <1>1 DEF Window!Initial, Window!InitialDesks, Window!DEFAULT, Window!TRAY, Window!Foot
  <1>3. Bottom - 2 \in Int /\ 33 \in Heights \cup {Window!DEFAULT}
    BY <1>1 DEF Window!DEFAULT
  <1>4. Window!Clamp(Bottom - 2, 33 - 5, Bottom) = Bottom - 2
    BY <1>1 DEF Window!Clamp
  <1> DEFINE r == Window!Initial
  <1>5. /\ Framed(Window!Fit(r, 0)) /\ Inside(Window!Fit(r, 0)) /\ Window!Fit(r, 0).y \in 0 .. Bottom
        /\ Window!FittedTray(r) \in 0 .. 5
        /\ Window!Foot(Window!Fit(r, 0)) - Window!FittedTray(r) = Bottom - 2
    <2>1. r = [y |-> (Bottom - 2) + 5 - 33, h |-> 33]
      BY <1>2
    <2> HIDE DEF r
    <2>2. QED BY <1>3, <1>4, <2>1, PlacedIs
  <1>6. QED BY <1>2, <1>3, <1>5, Zenon DEF Window!Foot

(* The start, before anything is stored.                                    *)
LEMMA WindowInit == Init => WindowInv
  <1> SUFFICES ASSUME Window!Init PROVE WindowInv
    BY DEF Init
  <1>1. /\ win = Window!Fit(Window!Initial, 0) /\ tray = Window!FittedTray(Window!Initial)
        /\ frame = Window!No /\ place = Window!NoPlace /\ moved = FALSE /\ page = "starting"
        /\ left = Window!StoodAt(Window!InitialDesks) /\ moves = 0
    BY DEF Window!Init
  <1>2. /\ Framed(win) /\ Inside(win) /\ win.y \in 0 .. Bottom /\ tray \in 0 .. 5
        /\ Window!InitialDesks \in Int /\ (win.y + win.h) - tray = Window!InitialDesks
    BY <1>1, InitialIs, Zenon
  <1>3. Window!Desks = Window!InitialDesks
    BY <1>1, <1>2, DesksAre
  <1>4. /\ left.desks \in Int /\ left.tray \in 0 .. 5
        /\ Near(Window!Desks, left.desks, left.tray)
    BY <1>1, <1>2, <1>3, StoodAtIs
  <1>5. place \in Int /\ Drags \in Nat
    BY <1>1, WindowAssumption DEF Window!NoPlace
  <1>6. Panes
    BY <1>1, <1>2 DEF Panes, Framed
  <1>7. Places
    BY <1>1, <1>2, <1>3, <1>4, <1>5 DEF Places
  <1>8. Answers
    <2>1. moved \in BOOLEAN /\ ~moved /\ page # "ready"
      BY <1>1, Zenon
    <2>2. moves \in 0 .. Drags
      BY <1>1, <1>5
    <2>3. QED BY <2>1, <2>2, Zenon DEF Answers
  <1>9. QED BY <1>6, <1>7, <1>8 DEF WindowInv

(* A new frame on the same desks.                                           *)
LEMMA Reframed ==
    ASSUME WindowInv, NEW h \in Heights,
           NEW r, r = IF frame = Window!No THEN win ELSE frame
    PROVE  LET next == Window!Resized(r, h, tray)
           IN  /\ Framed(Window!Fit(next, 0)) /\ Inside(Window!Fit(next, 0))
               /\ Window!Fit(next, 0).y \in 0 .. Bottom
               /\ Window!FittedTray(next) \in 0 .. 5
               /\ Window!Foot(Window!Fit(next, 0)) - Window!FittedTray(next) = Window!Clamp(Window!Desks, h - 5, Bottom)
               /\ Window!Fit(next, 0) # Window!No
  <1>1. Framed(r) /\ tray \in 0 .. 5 /\ Window!Desks \in Int /\ h \in Heights \cup {Window!DEFAULT}
    BY DEF WindowInv, Panes, Places
  <1>2. Window!Desks = (r.y + r.h) - tray
    BY DesksAre
  <1>3. h \in Int /\ r.y \in Int /\ r.h \in Int
    BY <1>1, TallestIs DEF Framed
  <1>4. Window!Resized(r, h, tray) = [y |-> Window!Desks + 5 - h, h |-> h]
    <2>1. (r.y + r.h) - (32 + tray) + 37 - h = Window!Desks + 5 - h
      BY <1>1, <1>2, <1>3
    <2>2. QED BY <2>1, Zenon DEF Window!Resized, Window!Anchor, Window!Foot
  <1> DEFINE next == Window!Resized(r, h, tray)
  <1>5. next = [y |-> Window!Desks + 5 - h, h |-> h]
    BY <1>4
  <1> HIDE DEF next
  <1>6. /\ Framed(Window!Fit(next, 0)) /\ Inside(Window!Fit(next, 0))
        /\ Window!Fit(next, 0).y \in 0 .. Bottom
        /\ Window!FittedTray(next) \in 0 .. 5
        /\ Window!Foot(Window!Fit(next, 0)) - Window!FittedTray(next) = Window!Clamp(Window!Desks, h - 5, Bottom)
        /\ Window!Fit(next, 0) # Window!No
    BY <1>1, <1>5, PlacedIs
  <1>7. QED BY <1>6, Zenon DEF next

(* Every step of the window keeps the invariant.                            *)
LEMMA WindowStep == WindowInv /\ [Window!Next]_windowVars => WindowInv'
  <1> SUFFICES ASSUME WindowInv, [Window!Next]_windowVars PROVE WindowInv'
    OBVIOUS
  <1>0. Panes /\ Places /\ Answers
    BY DEF WindowInv
  <1>b. Bottom \in Nat /\ Bottom >= 58 /\ Drags \in Nat /\ Tops \subseteq Int
    BY WindowAssumption
  <1>c. /\ frame = Window!No => Framed(win)
        /\ frame # Window!No => Framed(frame) /\ page = "ready"
        /\ tray \in 0 .. 5 /\ left.desks \in Int /\ left.tray \in 0 .. 5
        /\ Window!Desks \in Int /\ place \in Int
    BY <1>0 DEF Panes, Places
  <1>d. UNCHANGED Window!NoPlace /\ UNCHANGED Window!No /\ UNCHANGED Window!Tallest
    BY DEF Window!NoPlace, Window!No, Window!Tallest
  <1>1. ASSUME NEW h \in Heights, NEW widths, Window!SetPetSize(h, widths) PROVE WindowInv'
    <2> DEFINE r == IF frame = Window!No THEN win ELSE frame
               next == Window!Resized(r, h, tray)
    <2>1. /\ page' = IF page = "starting" THEN "sized" ELSE page
          /\ UNCHANGED <<place, left, moves>>
      BY <1>1, Zenon DEF Window!SetPetSize
    <2>2. \/ UNCHANGED <<win, frame, tray, moved>>
          \/ /\ frame = Window!No /\ win' = Window!Fit(next, 0) /\ tray' = Window!FittedTray(next)
             /\ Window!Moved(win'.y) /\ UNCHANGED frame
          \/ /\ frame # Window!No /\ frame' = Window!Fit(next, 0) /\ tray' = Window!FittedTray(next)
             /\ UNCHANGED <<win, moved>>
      BY <1>1, Zenon DEF Window!SetPetSize, Window!Placed
    <2>3. /\ Framed(Window!Fit(next, 0)) /\ Inside(Window!Fit(next, 0))
          /\ Window!Fit(next, 0).y \in 0 .. Bottom
          /\ Window!FittedTray(next) \in 0 .. 5
          /\ Window!Foot(Window!Fit(next, 0)) - Window!FittedTray(next) = Window!Clamp(Window!Desks, h - 5, Bottom)
          /\ Window!Fit(next, 0) # Window!No
      BY Reframed, Zenon
    <2> HIDE DEF next
    <2>4. Window!Desks' = Window!Desks \/ Window!Desks' = Window!Clamp(Window!Desks, h - 5, Bottom)
      <3>1. CASE UNCHANGED <<win, frame, tray>>
        BY DesksAre, DesksBecome, <3>1
      <3>2. CASE frame = Window!No /\ UNCHANGED frame /\ win' = Window!Fit(next, 0) /\ tray' = Window!FittedTray(next)
        <4>1. Window!Desks' = (win'.y + win'.h) - tray'
          BY DesksBecome, <3>2
        <4>2. QED BY <2>3, <3>2, <4>1, Zenon DEF Window!Foot
      <3>3. CASE frame' = Window!Fit(next, 0) /\ tray' = Window!FittedTray(next)
        <4>1. Window!Desks' = (frame'.y + frame'.h) - tray'
          BY DesksBecome, <2>3, <3>3
        <4>2. QED BY <2>3, <3>3, <4>1, Zenon DEF Window!Foot
      <3>4. QED BY <2>2, <3>1, <3>2, <3>3, Zenon
    <2>5. /\ Window!Desks' \in Int
          /\ Near(Window!Desks, left.desks, left.tray) => Near(Window!Desks', left.desks, left.tray)
      <3>1. h \in Heights \cup {Window!DEFAULT} /\ h \in Int
        BY TallestIs
      <3>2. Window!Clamp(Window!Desks, h - 5, Bottom) \in Int
        BY <1>b, <1>c, <3>1 DEF Window!Clamp
      <3>3. ASSUME Near(Window!Desks, left.desks, left.tray)
            PROVE  Near(Window!Clamp(Window!Desks, h - 5, Bottom), left.desks, left.tray)
        BY <1>c, <3>1, <3>3, NearPlaced
      <3>4. QED BY <1>c, <2>4, <3>2, <3>3, Zenon
    <2>6. /\ page' \in {"starting", "sized", "ready"}
          /\ (page = "ready" => page' = "ready") /\ (page' = "ready" => page = "ready")
      BY <1>0, <2>1 DEF Panes
    <2>7. Panes'
      <3>1. CASE UNCHANGED <<win, frame, tray>>
        BY <1>0, <1>d, <2>1, <2>6, <3>1 DEF Panes, Framed, Inside, Window!DEFAULT, Window!PANEL
      <3>2. CASE frame = Window!No /\ UNCHANGED frame /\ win' = Window!Fit(next, 0) /\ tray' = Window!FittedTray(next)
        BY <1>d, <2>3, <2>6, <3>2 DEF Panes, Framed, Inside, Window!DEFAULT
      <3>3. CASE frame # Window!No /\ frame' = Window!Fit(next, 0) /\ tray' = Window!FittedTray(next) /\ UNCHANGED win
        BY <1>0, <1>d, <2>3, <2>6, <3>3 DEF Panes, Framed, Inside, Window!DEFAULT, Window!PANEL
      <3>4. QED BY <2>2, <3>1, <3>2, <3>3, Zenon
    <2>8. Places'
      <3>1. page' = "ready" \/ place = Window!NoPlace => Near(Window!Desks', left.desks, left.tray)
        BY <1>0, <2>5, <2>6, Zenon DEF Places
      <3>2. page' # "ready" /\ place # Window!NoPlace => Near(place + 32, left.desks, left.tray)
        BY <1>0, <2>6, Zenon DEF Places
      <3>3. QED BY <1>c, <1>d, <2>1, <2>5, <3>1, <3>2 DEF Places, Near
    <2>9. moved' \in BOOLEAN /\ (moved => moved') /\ (moved' => moved \/ page = "ready")
      <3>1. moved \in BOOLEAN
        BY <1>0, Zenon DEF Answers
      <3>2. CASE UNCHANGED moved
        BY <3>1, <3>2, Zenon
      <3>3. CASE Window!Moved(win'.y)
        BY <3>3, Zenon DEF Window!Moved
      <3>4. QED BY <2>2, <3>2, <3>3, Zenon
    <2>10. Answers'
      <3>1. page' = "ready" /\ ~moved' /\ place # Window!NoPlace => Near(place + 32, left.desks, left.tray)
        BY <1>0, <2>6, <2>9, Zenon DEF Answers
      <3>2. (moved' => page' = "ready") /\ moves \in 0 .. Drags
        BY <1>0, <2>6, <2>9, Zenon DEF Answers
      <3>3. QED BY <1>d, <2>1, <2>9, <3>1, <3>2, Zenon DEF Answers, Near
    <2>11. QED BY <2>7, <2>8, <2>10 DEF WindowInv
  <1>2. ASSUME NEW y \in Tops, Window!Drag(y) PROVE WindowInv'
    <2>1. /\ page = "ready" /\ moves < Drags /\ moves' = moves + 1 /\ y # win.y
          /\ win' = [win EXCEPT !.y = y] /\ Window!Moved(y)
          /\ left' = IF frame = Window!No THEN Window!Stood(Window!Foot(win') - tray, tray) ELSE left
          /\ UNCHANGED <<frame, tray, place, page>>
      BY <1>2, Zenon DEF Window!Drag
    <2>2. win' = [y |-> y, h |-> win.h] /\ win'.y = y /\ win'.h = win.h /\ y \in Int
      BY <1>0, <1>b, <2>1 DEF Panes
    <2>3. moved'
      BY <2>1, Zenon DEF Window!Moved
    <2>4. CASE frame = Window!No
      <3>1. /\ win.h \in Heights \cup {Window!DEFAULT} /\ win.h \in Int
        BY <1>c, <2>4, TallestIs DEF Framed
      <3>2. left' = [desks |-> (y + win.h) - tray, tray |-> tray]
        BY <2>1, <2>2, <2>4, Zenon DEF Window!Stood, Window!Foot
      <3>3. left'.desks = (y + win.h) - tray /\ left'.tray = tray /\ left'.desks \in Int
        BY <1>c, <2>2, <3>1, <3>2
      <3>4. Window!Desks' = left'.desks
        BY DesksBecome, <1>d, <2>1, <2>2, <2>4, <3>3
      <3>5. Panes'
        BY <1>0, <1>d, <2>1, <2>2, <2>4, <3>1, <3>3 DEF Panes, Framed, Window!DEFAULT
      <3>6. Near(Window!Desks', left'.desks, left'.tray)
        BY <3>3, <3>4 DEF Near
      <3>7. Places'
        BY <1>c, <1>d, <2>1, <3>3, <3>4, <3>6 DEF Places, Near
      <3>8. QED BY <1>0, <1>b, <2>1, <2>3, <3>5, <3>7 DEF Answers, WindowInv
    <2>5. CASE frame # Window!No
      <3>1. left' = left /\ Window!Desks' = Window!Desks
        BY DesksAre, DesksBecome, <1>d, <2>1, <2>5
      <3>2. Panes'
        BY <1>0, <1>d, <2>1, <2>2, <2>5, <3>1 DEF Panes, Framed, Inside, Window!DEFAULT, Window!PANEL
      <3>3. Places'
        BY <1>0, <1>c, <1>d, <2>1, <3>1 DEF Places, Near
      <3>4. QED BY <1>0, <1>b, <2>1, <2>3, <3>2, <3>3 DEF Answers, WindowInv
    <2>6. QED BY <2>4, <2>5
  <1>3. CASE Window!Restore
    <2> DEFINE rect == [y |-> place + 37 - win.h, h |-> win.h]
    <2>1. /\ page = "sized" /\ page' = "ready" /\ UNCHANGED <<frame, place, moved, left, moves>>
          /\ IF place = Window!NoPlace \/ frame # Window!No THEN UNCHANGED <<win, tray>>
             ELSE win' = Window!Fit(rect, 0) /\ tray' = Window!FittedTray(rect)
      BY <1>3, Zenon DEF Window!Restore, Window!Placed
    <2>2. "sized" # "ready"
      OBVIOUS
    <2>3. frame = Window!No /\ Framed(win) /\ Inside(win) /\ moved = FALSE /\ page # "ready"
      BY <1>0, <1>c, <2>1, <2>2, Zenon DEF Panes, Answers
    <2>4. CASE place = Window!NoPlace
      <3>1. UNCHANGED <<win, tray>> /\ Window!Desks' = Window!Desks
        BY DesksAre, DesksBecome, <1>d, <2>1, <2>3, <2>4
      <3>2. Near(Window!Desks, left.desks, left.tray)
        BY <1>0, <2>4, Zenon DEF Places
      <3>3. Panes'
        BY <1>0, <1>d, <2>1, <2>3, <3>1 DEF Panes, Framed, Inside, Window!DEFAULT
      <3>4. Places'
        BY <1>c, <1>d, <2>1, <3>1, <3>2 DEF Places, Near
      <3>5. Answers'
        BY <1>0, <1>d, <2>1, <2>3, <2>4, Zenon DEF Answers
      <3>6. QED BY <3>3, <3>4, <3>5 DEF WindowInv
    <2>5. CASE place # Window!NoPlace
      <3>1. win' = Window!Fit(rect, 0) /\ tray' = Window!FittedTray(rect)
        BY <2>1, <2>3, <2>5, Zenon
      <3>2. win.h \in Heights \cup {Window!DEFAULT} /\ win.h \in Int /\ place + 32 \in Int
        BY <1>c, <2>3, TallestIs DEF Framed
      <3>3. rect = [y |-> (place + 32) + 5 - win.h, h |-> win.h]
        BY <1>c, <3>2
      <3> HIDE DEF rect
      <3>4. /\ Framed(win') /\ Inside(win') /\ win'.y \in 0 .. Bottom /\ tray' \in 0 .. 5
            /\ Window!Foot(win') - tray' = Window!Clamp(place + 32, win.h - 5, Bottom)
        <4>1. /\ Framed(Window!Fit(rect, 0)) /\ Inside(Window!Fit(rect, 0)) /\ Window!Fit(rect, 0).y \in 0 .. Bottom
              /\ Window!FittedTray(rect) \in 0 .. 5
              /\ Window!Foot(Window!Fit(rect, 0)) - Window!FittedTray(rect) = Window!Clamp(place + 32, win.h - 5, Bottom)
          BY <3>2, <3>3, PlacedIs
        <4>2. QED BY <3>1, <4>1, Zenon
      <3>5. Window!Desks' = Window!Clamp(place + 32, win.h - 5, Bottom)
        BY DesksBecome, <1>d, <2>1, <2>3, <3>4, Zenon DEF Window!Foot
      <3>6. Near(place + 32, left.desks, left.tray)
        BY <1>0, <2>3, <2>5, Zenon DEF Places
      <3>7. Near(Window!Desks', left.desks, left.tray) /\ Window!Desks' \in Int
        BY <1>c, <3>2, <3>5, <3>6, NearPlaced
      <3>8. Panes'
        BY <1>d, <2>1, <2>3, <3>4 DEF Panes, Framed, Inside, Window!DEFAULT
      <3>9. Places'
        BY <1>c, <1>d, <2>1, <3>7 DEF Places, Near
      <3>10. Answers'
        BY <1>0, <1>d, <2>1, <2>3, <3>6, Zenon DEF Answers, Near
      <3>11. QED BY <3>8, <3>9, <3>10 DEF WindowInv
    <2>6. QED BY <2>4, <2>5
  <1>4. CASE Window!Save
    <2>1. /\ moved /\ moved' = FALSE /\ UNCHANGED <<win, frame, tray, page, left, moves>>
          /\ place' = Window!Anchor(IF frame = Window!No THEN win ELSE frame, tray)
      BY <1>4, Zenon DEF Window!Save
    <2>2. page = "ready" /\ Near(Window!Desks, left.desks, left.tray)
      BY <1>0, <2>1, Zenon DEF Answers, Places
    <2>3. place' = Window!Desks - 32
      <3>1. place' = IF frame = Window!No THEN (win.y + win.h) - (32 + tray) ELSE (frame.y + frame.h) - (32 + tray)
        BY <2>1, Zenon DEF Window!Anchor, Window!Foot
      <3>2. frame = Window!No => win.y \in Int /\ win.h \in Int
        BY <1>c, TallestIs DEF Framed
      <3>3. frame # Window!No => frame.y \in Int /\ frame.h \in Int
        BY <1>c, TallestIs DEF Framed
      <3>4. QED BY <1>c, DesksAre, <3>1, <3>2, <3>3
    <2>4. Window!Desks' = Window!Desks
      BY DesksAre, DesksBecome, <1>d, <2>1
    <2>5. Panes'
      BY <1>0, <1>d, <2>1 DEF Panes, Framed, Inside, Window!DEFAULT, Window!PANEL
    <2>6. place' \in Int /\ place' + 32 = Window!Desks
      BY <1>c, <2>3
    <2>7. Places'
      BY <1>c, <1>d, <2>1, <2>2, <2>4, <2>6 DEF Places, Near
    <2>8. Answers'
      <3>1. moved' \in BOOLEAN /\ ~moved' /\ moves' \in 0 .. Drags
        BY <1>0, <2>1, Zenon DEF Answers
      <3>2. Near(place' + 32, left'.desks, left'.tray)
        BY <2>1, <2>2, <2>6, Zenon
      <3>3. QED BY <1>d, <3>1, <3>2, Zenon DEF Answers, Near
    <2>9. QED BY <2>5, <2>7, <2>8 DEF WindowInv
  <1>5. CASE Window!OpenPanel
    <2>1. /\ frame = Window!No /\ page = "ready" /\ frame' = win
          /\ win' = Window!Fit([win EXCEPT !.h = Window!PANEL], 1) /\ Window!Moved(win'.y)
          /\ UNCHANGED <<tray, place, page, left, moves>>
      BY <1>5, Zenon DEF Window!OpenPanel
    <2>2. Framed(win) /\ win # Window!No /\ win.y \in Int
      BY <1>c, <2>1, FitIs DEF Framed
    <2>3. [win EXCEPT !.h = Window!PANEL] = [y |-> win.y, h |-> 56]
      BY <2>2 DEF Framed, Window!PANEL
    <2>4. win' = [y |-> win'.y, h |-> win'.h] /\ win'.y \in 0 .. Bottom /\ win'.h = 56
      <3>1. win' = [y |-> Window!Clamp(win.y, 1, Bottom - 1 - 56), h |-> 56]
        BY <1>b, <2>1, <2>3 DEF Window!Fit
      <3>2. Window!Clamp(win.y, 1, Bottom - 1 - 56) \in 0 .. Bottom
        BY <1>b, <2>2 DEF Window!Clamp
      <3>3. QED BY <3>1, <3>2
    <2>5. Window!Desks' = Window!Desks
      BY DesksAre, DesksBecome, <1>d, <2>1, <2>2
    <2>6. Panes'
      BY <1>0, <1>d, <2>1, <2>2, <2>4 DEF Panes, Framed, Inside, Window!DEFAULT, Window!PANEL
    <2>7. Places'
      BY <1>0, <1>c, <1>d, <2>1, <2>5 DEF Places, Near
    <2>8. moved' \in BOOLEAN /\ (moved => moved')
      BY <1>0, <2>1, Zenon DEF Window!Moved, Answers
    <2>9. Answers'
      BY <1>0, <1>d, <2>1, <2>8, Zenon DEF Answers, Near
    <2>10. QED BY <2>6, <2>7, <2>9 DEF WindowInv
  <1>6. CASE Window!ClosePanel
    <2>1. /\ frame # Window!No /\ frame' = Window!No /\ win' = Window!Fit(frame, 0) /\ Window!Moved(win'.y)
          /\ UNCHANGED <<tray, place, page, left, moves>>
      BY <1>6, Zenon DEF Window!ClosePanel
    <2>2. Framed(frame) /\ page = "ready" /\ (Inside(frame) \/ tray = left.tray)
      BY <1>0, <2>1 DEF Panes
    <2>3. frame.y \in Int /\ frame.h \in Heights \cup {Window!DEFAULT} /\ frame.h \in Int
      BY <2>2, TallestIs DEF Framed
    <2>4. /\ Framed(win') /\ Inside(win') /\ win'.y \in 0 .. Bottom
          /\ win'.y = Window!Clamp(frame.y, 0, Bottom - frame.h) /\ win'.h = frame.h
      BY <2>1, <2>2, FitIs, Zenon
    <2>5. Window!Desks = (frame.y + frame.h) - tray /\ Window!Desks' = (win'.y + frame.h) - tray
      BY DesksAre, DesksBecome, <1>d, <2>1, <2>4
    <2>6. Near(Window!Desks, left.desks, left.tray)
      BY <1>0, <2>2, Zenon DEF Places
    <2>7. Near(Window!Desks', left.desks, left.tray)
      <3>1. CASE Inside(frame)
        <4>1. win'.y = frame.y
          BY <1>b, <2>3, <2>4, <3>1 DEF Inside, Window!Clamp
        <4>2. QED BY <2>5, <2>6, <4>1, Zenon
      <3>2. CASE tray = left.tray
        <4>1. Near((frame.y + frame.h) - left.tray, left.desks, left.tray)
          BY <2>5, <2>6, <3>2
        <4>2. Near((Window!Clamp(frame.y, 0, Bottom - frame.h) + frame.h) - left.tray, left.desks, left.tray)
          BY <1>c, <2>3, <4>1, NearLifted
        <4>3. Window!Desks' = (Window!Clamp(frame.y, 0, Bottom - frame.h) + frame.h) - left.tray
          BY <2>4, <2>5, <3>2
        <4>4. QED BY <4>2, <4>3, Zenon
      <3>3. QED BY <2>2, <3>1, <3>2
    <2>8. Window!Desks' \in Int
      BY <1>c, <2>3, <2>4, <2>5
    <2>9. Panes'
      BY <1>0, <1>d, <2>1, <2>2, <2>4 DEF Panes, Framed, Inside, Window!DEFAULT
    <2>10. Places'
      BY <1>c, <1>d, <2>1, <2>2, <2>7, <2>8 DEF Places, Near
    <2>11. moved' \in BOOLEAN /\ (moved => moved')
      BY <1>0, <2>1, Zenon DEF Window!Moved, Answers
    <2>12. Answers'
      BY <1>0, <1>d, <2>1, <2>2, <2>11, Zenon DEF Answers, Near
    <2>13. QED BY <2>9, <2>10, <2>12 DEF WindowInv
  <1>7. CASE Window!Restart
    <2>1. /\ page = "ready"
          /\ win' = Window!Fit(Window!Initial, 0) /\ tray' = Window!FittedTray(Window!Initial)
          /\ frame' = Window!No /\ moved' = FALSE /\ page' = "starting"
          /\ left' = IF place = Window!NoPlace THEN Window!StoodAt(Window!InitialDesks)
                     ELSE IF moved THEN Window!StoodAt(place + 32) ELSE left
          /\ UNCHANGED <<place, moves>>
      BY <1>7, Zenon DEF Window!Restart
    <2>2. /\ Framed(win') /\ Inside(win') /\ win'.y \in 0 .. Bottom /\ tray' \in 0 .. 5
          /\ Window!InitialDesks \in Int
          /\ (win'.y + win'.h) - tray' = Window!InitialDesks
      BY <2>1, InitialIs, Zenon
    <2>3. Window!Desks' = Window!InitialDesks
      BY DesksBecome, <1>d, <2>1, <2>2
    <2>4. /\ left'.desks \in Int /\ left'.tray \in 0 .. 5
          /\ place = Window!NoPlace => Near(Window!Desks', left'.desks, left'.tray)
          /\ place # Window!NoPlace => Near(place + 32, left'.desks, left'.tray)
      <3>1. CASE place = Window!NoPlace
        <4>1. left' = Window!StoodAt(Window!InitialDesks)
          BY <2>1, <3>1, Zenon
        <4>2. QED BY <2>2, <2>3, <3>1, <4>1, StoodAtIs
      <3>2. CASE place # Window!NoPlace /\ moved
        <4>1. left' = Window!StoodAt(place + 32) /\ place + 32 \in Int
          BY <1>c, <2>1, <3>2
        <4>2. QED BY <3>2, <4>1, StoodAtIs
      <3>3. CASE place # Window!NoPlace /\ ~moved
        <4>1. left' = left /\ Near(place + 32, left.desks, left.tray)
          BY <1>0, <2>1, <3>3, Zenon DEF Answers
        <4>2. QED BY <1>c, <3>3, <4>1, Zenon
      <3>4. QED BY <3>1, <3>2, <3>3
    <2>5. Panes'
      BY <1>d, <2>1, <2>2 DEF Panes, Framed, Inside, Window!DEFAULT
    <2>6. Places'
      BY <1>c, <1>d, <2>1, <2>2, <2>3, <2>4 DEF Places, Near
    <2>7. Answers'
      BY <1>0, <2>1 DEF Answers
    <2>8. QED BY <2>5, <2>6, <2>7 DEF WindowInv
  <1>8. CASE UNCHANGED windowVars
    <2>1. UNCHANGED <<win, frame, tray, place, moved, page, left, moves>>
      BY <1>8, Zenon DEF windowVars
    <2>2. Window!Desks' = Window!Desks
      BY DesksAre, DesksBecome, <1>d, <2>1
    <2>3. Panes'
      BY <1>0, <1>d, <2>1 DEF Panes, Framed, Inside, Window!DEFAULT, Window!PANEL
    <2>4. Places'
      BY <1>0, <1>c, <1>d, <2>1, <2>2 DEF Places, Near
    <2>5. Answers'
      BY <1>0, <1>d, <2>1, Zenon DEF Answers, Near
    <2>6. QED BY <2>3, <2>4, <2>5 DEF WindowInv
  <1>9. QED BY <1>1, <1>2, <1>3, <1>4, <1>5, <1>6, <1>7, <1>8, Zenon DEF Window!Next

(* The invariant contains what the run checks.                              *)
LEMMA WindowInvSafe == WindowInv => Window!WindowSafe
  <1> SUFFICES ASSUME WindowInv PROVE Window!WindowSafe
    OBVIOUS
  <1>1. Window!TypeOK
    <2>1. win.y \in Tops \cup 0 .. Bottom /\ tray \in 0 .. Window!TRAY
      BY DEF WindowInv, Panes, Window!TRAY
    <2>2. win.h \in Heights \cup {Window!PANEL, Window!DEFAULT}
      BY DEF WindowInv, Panes, Framed
    <2>3. page \in {"starting", "sized", "ready"} /\ moved \in BOOLEAN /\ moves \in 0 .. Drags
      BY Zenon DEF WindowInv, Panes, Answers
    <2>4. QED BY <2>1, <2>2, <2>3, Zenon DEF Window!TypeOK
  <1>2. Window!DesksStay /\ Window!PlaceIsStored
    BY Zenon DEF WindowInv, Places, Answers, Near, Window!Kept, Window!DesksStay, Window!PlaceIsStored
  <1>3. QED BY <1>1, <1>2, Zenon DEF Window!WindowSafe

(* Over any sequence of wrapped menus, panels, drags to anywhere, loadings  *)
(* of the page and restarts the desks stand where the person left them, or  *)
(* as near to it as the work area allows, and so does their place on disk   *)
(* (PetWindow); a drag that ended does not hold the pointer (PetDrag).      *)
THEOREM WindowSafety == Spec => []WindowSafe
  <1>1. Init => (part = "window" => WindowInv)
    BY WindowInit
  <1>2. (part = "window" => WindowInv) /\ [Next]_deskVars => (part = "window" => WindowInv)'
    BY PartSteps, WindowStep
  <1>3. (part = "window" => WindowInv) => (part = "window" => Window!WindowSafe)
    BY WindowInvSafe
  <1>4. Spec => [](part = "window" => Window!WindowSafe)
    BY <1>1, <1>2, <1>3, PTL DEF Spec
  <1>5. (part = "drag" => DragInv) => (part = "drag" => Dragging!HoldEnds)
    BY DEF DragInv
  <1>6. Spec => [](part = "drag" => Dragging!HoldEnds)
    BY <1>5, DragSafety, PTL
  <1>7. (part = "window" => Window!WindowSafe) /\ (part = "drag" => Dragging!HoldEnds) => WindowSafe
    BY DEF WindowSafe
  <1>8. QED BY <1>4, <1>6, <1>7, PTL
-----------------------------------------------------------------------------
(* The sheet cache: every entry belongs to the load that made it, and what  *)
(* eviction leaves out of the table nobody holds.                           *)

(* The loads, what came of them, and the order of the last touches.         *)
CacheLoads ==
    /\ nameOf \in Seq(Sheets) /\ held \in Seq(Nat) /\ Len(held) = Len(nameOf)
    /\ loading \subseteq DOMAIN nameOf /\ resolved \subseteq DOMAIN nameOf /\ loading \cap resolved = {}
    /\ touched \in Seq(Sheets) /\ constrained \in BOOLEAN

(* An entry is that of the last load of its name: it counts the leases of   *)
(* that load, has its image once it was decoded, and was touched.           *)
Fits(table, names, leases, decoding) ==
    /\ table \in [DOMAIN table -> [id : Nat, references : Nat, loaded : BOOLEAN]]
    /\ \A k \in DOMAIN table :
         /\ k \in Sheets
         /\ table[k].id \in DOMAIN names /\ names[table[k].id] = k
         /\ table[k].references = leases[table[k].id]
         /\ table[k].loaded <=> table[k].id \notin decoding

(* Its names have a place in the order of eviction.                         *)
Kept(table) == \A k \in DOMAIN table : \E i \in DOMAIN touched : touched[i] = k

CacheTable == Fits(entries, nameOf, held, loading) /\ Kept(entries)

(* Who got a sheet and holds it still has the entry of that sheet.          *)
CacheLeases == \A id \in resolved : held[id] > 0 => Sprites!IsEntry(id)

CacheInv == CacheLoads /\ CacheTable /\ CacheLeases /\ Sprites!NothingLeaks /\ Sprites!WithinBudget

(* What a turn of the loop of trim leaves of a table.                       *)
Stays(t, k) == IF k \in DOMAIN t /\ Sprites!Evicted(t, k) THEN Sprites!Without(t, k) ELSE t

(* The loop of trim: a function on the sets of positions that were passed.  *)
LEMMA TrimFolds ==
    ASSUME NEW table, table = [k \in DOMAIN table |-> table[k]],
           touched \in Seq(Sheets), ~constrained
    PROVE  \E f :
             /\ f = [s \in SUBSET (DOMAIN touched) |->
                        IF s = {} THEN table
                        ELSE Stays(f[s \ {Sprites!Max(s)}], touched[Sprites!Max(s)])]
             /\ Sprites!Trim(table) = f[DOMAIN touched]
  <1> DEFINE D == DOMAIN touched
             V == {Sprites!Restrict(table, S) : S \in SUBSET DOMAIN table}
             C == [s \in (SUBSET D) \ {{}} |-> Sprites!Max(s)]
             F == [p \in D \X V |-> Stays(p[2], touched[p[1]])]
             P(f) == f = [s \in SUBSET D |->
                        IF s = {} THEN table
                        ELSE Stays(f[s \ {Sprites!Max(s)}], touched[Sprites!Max(s)])]
  <1>1. IsFiniteSet(D) /\ D = 1 .. Len(touched) /\ Len(touched) \in Nat
    <2>1. D = 1 .. Len(touched) /\ Len(touched) \in Nat /\ 1 \in Int
      OBVIOUS
    <2>2. IsFiniteSet(1 .. Len(touched))
      <3> DEFINE n == Len(touched)
      <3>1. n \in Int /\ 1 \in Int
        OBVIOUS
      <3> HIDE DEF n
      <3>2. IsFiniteSet(1 .. n)
        BY <3>1, FS_Interval, Zenon
      <3>3. QED BY <3>2, Zenon DEF n
    <2>3. QED BY <2>1, <2>2, Zenon
  <1>2. table \in V
    <2>1. table = Sprites!Restrict(table, DOMAIN table)
      BY DEF Sprites!Restrict
    <2>2. QED BY <2>1, Zenon
  <1>3. ASSUME NEW s \in SUBSET D, s # {} PROVE Sprites!Max(s) \in s
    <2>1. s \subseteq Nat /\ \A x \in s : x <= Len(touched)
      BY <1>1
    <2>2. \E x \in s : \A y \in s : x >= y
      BY <1>1, <1>3, <2>1, GreatestNatural, Zenon
    <2>3. QED BY <2>2, Zenon DEF Sprites!Max
  <1>4. ASSUME NEW t \in V, NEW k PROVE Stays(t, k) \in V
    <2>1. PICK S \in SUBSET DOMAIN table : t = Sprites!Restrict(table, S)
      OBVIOUS
    <2>2. Sprites!Without(t, k) = Sprites!Restrict(table, S \ {k}) /\ S \ {k} \in SUBSET DOMAIN table
      BY <2>1 DEF Sprites!Without, Sprites!Restrict
    <2>3. QED BY <2>2, Zenon DEF Stays
  <1>5. \A x \in D, v \in V : F[<<x, v>>] = Stays(v, touched[x]) /\ F[<<x, v>>] \in V
    <2> HIDE DEF V
    <2>1. \A x \in D, v \in V : F[<<x, v>>] = Stays(v, touched[x])
      OBVIOUS
    <2>2. QED BY <1>4, <2>1, Zenon
  <1>6. \A s \in SUBSET D : s # {} => C[s] = Sprites!Max(s) /\ C[s] \in s
    BY <1>3, Zenon
  <1> HIDE DEF V, C, F
  <1>7. PICK g \in [SUBSET D -> V] :
          \A s \in SUBSET D : g[s] = IF s = {} THEN table ELSE F[<<C[s], g[s \ {C[s]}]>>]
    <2>1. C \in [(SUBSET D) \ {{}} -> D] /\ \A s \in (SUBSET D) \ {{}} : C[s] \in s
      BY <1>6, Zenon DEF C
    <2>2. F \in [D \X V -> V]
      <3>1. \A p \in D \X V : p[1] \in D /\ p[2] \in V
        OBVIOUS
      <3>2. QED BY <1>4, <3>1, Zenon DEF F
    <2>3. IsFiniteSet(D) /\ table \in V
      BY <1>1, <1>2, Zenon
    <2>4. \E g \in [SUBSET D -> V] : FoldOf(g, D, table, C, F)
      <3> HIDE DEF D
      <3>1. QED BY <2>1, <2>2, <2>3, FoldDefined
    <2>5. QED BY <2>4, Zenon DEF FoldOf
  <1>8. P(g)
    <2>1. ASSUME NEW s \in SUBSET D, s # {}
          PROVE  F[<<C[s], g[s \ {C[s]}]>>] = Stays(g[s \ {Sprites!Max(s)}], touched[Sprites!Max(s)])
      <3>1. C[s] \in D /\ s \ {C[s]} \in SUBSET D /\ C[s] = Sprites!Max(s)
        BY <1>6, <2>1, Zenon
      <3>2. g[s \ {C[s]}] \in V
        BY <1>7, <3>1, Zenon
      <3>3. QED BY <1>5, <3>1, <3>2, Zenon
    <2>2. QED BY <1>7, <2>1, Zenon
  <1>9. Sprites!Trim(table) = (CHOOSE f : P(f))[D]
    BY Zenon DEF Sprites!Trim, Sprites!FoldLeft, Sprites!MapThenFoldSet, Stays
  <1>10. PICK f : f = (CHOOSE h : P(h))
    OBVIOUS
  <1>11. P(f)
    BY <1>8, <1>10, Zenon
  <1>12. Sprites!Trim(table) = f[D]
    BY <1>9, <1>10, Zenon
  <1>13. QED BY <1>11, <1>12, Zenon

(* What trim leaves: the entries are as they were, what went was not in     *)
(* use, and nothing that is not in use stays above the budget.              *)
LEMMA TrimLeaves ==
    ASSUME NEW table, table = [k \in DOMAIN table |-> table[k]],
           \A k \in DOMAIN table : table[k].references \in Nat,
           touched \in Seq(Sheets), \A k \in DOMAIN table : \E i \in DOMAIN touched : touched[i] = k
    PROVE  \E S \in SUBSET DOMAIN table :
             /\ Sprites!Trim(table) = Sprites!Restrict(table, S)
             /\ \A k \in DOMAIN table \ S : table[k].references = 0
             /\ constrained => \A k \in S : table[k].references > 0
             /\ Sprites!BytesOf(Sprites!Trim(table)) > Budget =>
                  \A k \in S : table[k].loaded => table[k].references > 0
  <1>1. CASE constrained
    <2> DEFINE S == {k \in DOMAIN table : table[k].references > 0}
    <2>1. Sprites!Trim(table) = Sprites!Restrict(table, S)
      BY <1>1, Zenon DEF Sprites!Trim, Sprites!ClearUnused
    <2>2. \A k \in DOMAIN table \ S : table[k].references = 0
      OBVIOUS
    <2>3. S \in SUBSET DOMAIN table /\ \A k \in S : table[k].references > 0
      OBVIOUS
    <2> HIDE DEF S
    <2>4. QED BY <2>1, <2>2, <2>3, Zenon
  <1>2. CASE ~constrained
    <2> DEFINE n == Len(touched)
    <2>1. n \in Nat /\ DOMAIN touched = 1 .. n
      OBVIOUS
    <2>2. PICK f :
            /\ f = [s \in SUBSET (DOMAIN touched) |->
                       IF s = {} THEN table
                       ELSE Stays(f[s \ {Sprites!Max(s)}], touched[Sprites!Max(s)])]
            /\ Sprites!Trim(table) = f[DOMAIN touched]
      BY <1>2, TrimFolds, Zenon
    <2> HIDE DEF n
    <2>3. f[1 .. 0] = table
      <3>1. 1 .. 0 = {}
        OBVIOUS
      <3>2. QED BY <2>2, <3>1, Zenon
    <2>4. ASSUME NEW i \in 1 .. n PROVE f[1 .. i] = Stays(f[1 .. i - 1], touched[i])
      <3>1. /\ 1 .. i \in SUBSET (1 .. n) /\ 1 .. i # {} /\ (1 .. i) \ {i} = 1 .. i - 1
            /\ i \in 1 .. i /\ \A j \in 1 .. i : i >= j
        BY <2>1
      <3>2. \A m \in 1 .. i : (\A j \in 1 .. i : m >= j) => m = i
        BY <2>1
      <3>3. Sprites!Max(1 .. i) = i
        BY <3>1, <3>2, Zenon DEF Sprites!Max
      <3>4. \A s \in SUBSET (1 .. n) : s # {} =>
              f[s] = Stays(f[s \ {Sprites!Max(s)}], touched[Sprites!Max(s)])
        BY <2>1, <2>2, Zenon
      <3>5. f[1 .. i] = Stays(f[(1 .. i) \ {i}], touched[i])
        BY <3>1, <3>3, <3>4, Zenon
      <3>6. QED BY <3>1, <3>5, Zenon
    (* Up to the i-th name, what could go above the budget is gone.           *)
    <2> DEFINE Unused(k) == table[k].references = 0 /\ table[k].loaded
               Past(i) == \E S \in SUBSET DOMAIN table :
                 /\ f[1 .. i] = Sprites!Restrict(table, S)
                 /\ \A k \in DOMAIN table \ S : table[k].references = 0
                 /\ Sprites!BytesOf(f[1 .. i]) > Budget => \A j \in 1 .. i : touched[j] \in S => ~Unused(touched[j])
               Ahead == {i \in 0 .. n : ~Past(i)}
    <2>5. Past(0)
      <3> DEFINE S == DOMAIN table
      <3>1. f[1 .. 0] = Sprites!Restrict(table, S)
        BY <2>3 DEF Sprites!Restrict
      <3>2. \A j \in 1 .. 0 : FALSE
        OBVIOUS
      <3>3. QED BY <3>1, <3>2, Zenon
    <2>6. ASSUME NEW i \in 1 .. n, Past(i - 1) PROVE Past(i)
      <3>1. PICK S \in SUBSET DOMAIN table :
              /\ f[1 .. i - 1] = Sprites!Restrict(table, S)
              /\ \A k \in DOMAIN table \ S : table[k].references = 0
              /\ Sprites!BytesOf(f[1 .. i - 1]) > Budget =>
                   \A j \in 1 .. i - 1 : touched[j] \in S => ~Unused(touched[j])
        BY <2>6, Zenon
      <3> DEFINE t == f[1 .. i - 1]
                 k == touched[i]
      <3>2. DOMAIN t = S /\ \A x \in S : t[x] = table[x]
        BY <3>1, Zenon DEF Sprites!Restrict
      <3>3. f[1 .. i] = Stays(t, k)
        BY <2>4, Zenon
      <3>4. \A j \in 1 .. i : j = i \/ j \in 1 .. i - 1
        BY <2>1
      <3> HIDE DEF t, k
      <3>5. CASE k \in S /\ Sprites!Evicted(t, k)
        <4>1. Sprites!BytesOf(t) > Budget /\ Unused(k)
          BY <3>2, <3>5, Zenon DEF Sprites!Evicted
        <4>2. f[1 .. i] = Sprites!Restrict(table, S \ {k})
          <5>1. f[1 .. i] = Sprites!Restrict(t, S \ {k})
            BY <3>2, <3>3, <3>5, Zenon DEF Stays, Sprites!Without
          <5>2. Sprites!Restrict(t, S \ {k}) = Sprites!Restrict(table, S \ {k})
            BY <3>2 DEF Sprites!Restrict
          <5>3. QED BY <5>1, <5>2, Zenon
        <4>3. \A x \in DOMAIN table \ (S \ {k}) : table[x].references = 0
          BY <3>1, <4>1, Zenon
        <4>4. \A j \in 1 .. i : touched[j] \in S \ {k} => ~Unused(touched[j])
          BY <3>1, <3>4, <4>1, Zenon DEF t, k
        <4>5. S \ {k} \in SUBSET DOMAIN table
          OBVIOUS
        <4> HIDE DEF Unused
        <4> DEFINE R == S \ {k}
        <4> HIDE DEF R
        <4>6. R \in SUBSET DOMAIN table /\ f[1 .. i] = Sprites!Restrict(table, R)
              /\ (\A x \in DOMAIN table \ R : table[x].references = 0)
              /\ \A j \in 1 .. i : touched[j] \in R => ~Unused(touched[j])
          BY <4>2, <4>3, <4>4, <4>5, Zenon DEF R
        <4>7. QED BY <4>6, Zenon
      <3>6. CASE ~(k \in S /\ Sprites!Evicted(t, k))
        <4>1. f[1 .. i] = t
          BY <3>2, <3>3, <3>6, Zenon DEF Stays
        <4>2. ASSUME Sprites!BytesOf(t) > Budget, k \in S PROVE ~Unused(k)
          BY <3>2, <3>6, <4>2, Zenon DEF Sprites!Evicted
        <4>3. Sprites!BytesOf(f[1 .. i]) > Budget => \A j \in 1 .. i : touched[j] \in S => ~Unused(touched[j])
          BY <3>1, <3>4, <4>1, <4>2, Zenon DEF t, k
        <4>4. f[1 .. i] = Sprites!Restrict(table, S)
          BY <3>1, <4>1, Zenon DEF t
        <4> HIDE DEF Unused
        <4>5. QED BY <3>1, <4>3, <4>4, Zenon
      <3>7. QED BY <3>5, <3>6, Zenon
    <2>7. Ahead = {}
      <3> HIDE DEF Past
      <3> SUFFICES ASSUME Ahead # {} PROVE FALSE
        OBVIOUS
      <3>1. PICK i \in Ahead : \A j \in Ahead : i <= j
        <4>1. Ahead \subseteq Nat
          BY <2>1
        <4> HIDE DEF Ahead
        <4>2. QED BY <4>1, LeastNatural, Zenon
      <3>2. i \in 0 .. n /\ ~Past(i) /\ i # 0
        BY <2>5, <3>1
      <3>3. i \in 1 .. n /\ i - 1 \in 0 .. n /\ i - 1 \notin Ahead
        BY <2>1, <3>1, <3>2
      <3>4. QED BY <2>6, <3>2, <3>3, Zenon
    <2>8. Past(n)
      <3>1. n \in 0 .. n
        BY <2>1
      <3> HIDE DEF Past
      <3>2. QED BY <2>7, <3>1, Zenon
    <2>9. PICK S \in SUBSET DOMAIN table :
            /\ f[1 .. n] = Sprites!Restrict(table, S)
            /\ \A k \in DOMAIN table \ S : table[k].references = 0
            /\ Sprites!BytesOf(f[1 .. n]) > Budget => \A j \in 1 .. n : touched[j] \in S => ~Unused(touched[j])
      BY <2>8, Zenon
    <2>10. Sprites!Trim(table) = f[1 .. n]
      BY <2>1, <2>2, Zenon
    <2>11. ASSUME Sprites!BytesOf(f[1 .. n]) > Budget, NEW k \in S, table[k].loaded
           PROVE  table[k].references > 0
      <3>1. table[k].references # 0
        BY <2>1, <2>9, <2>11, Zenon
      <3>2. QED BY <3>1
    <2>12. QED BY <1>2, <2>9, <2>10, <2>11, Zenon
  <1>3. QED BY <1>1, <1>2, Zenon

(* Tables that have the same sheets loaded are of the same size.            *)
LEMMA BytesSame ==
    ASSUME NEW t, NEW u, Sprites!Loaded(t) = Sprites!Loaded(u)
    PROVE  Sprites!BytesOf(t) = Sprites!BytesOf(u)
  BY Zenon DEF Sprites!BytesOf

(* Where a sheet comes to the end of the order, no other leaves it.         *)
LEMMA TouchKeeps ==
    ASSUME touched \in Seq(Sheets), NEW k \in Sheets, Sprites!Touch(k)
    PROVE  /\ touched' \in Seq(Sheets) /\ \E i \in DOMAIN touched' : touched'[i] = k
           /\ \A i \in DOMAIN touched : \E j \in DOMAIN touched' : touched'[j] = touched[i]
  <1> DEFINE r == Sprites!RemoveFirst(touched, k)
  <1>1. /\ r \in Seq(Sheets)
        /\ \A i \in DOMAIN touched : touched[i] = k \/ \E j \in DOMAIN r : r[j] = touched[i]
    <2>1. CASE \E i \in 1 .. Len(touched) : touched[i] = k
      <3> DEFINE I == {i \in 1 .. Len(touched) : touched[i] = k}
      <3>1. I # {} /\ I \subseteq Nat
        BY <2>1
      <3>2. \E m \in I : \A i \in I : m <= i
        <4> HIDE DEF I
        <4>1. QED BY <3>1, LeastNatural, Zenon
      <3>3. PICK m : m = Sprites!Min(I)
        OBVIOUS
      <3>4. m \in I
        BY <3>2, <3>3, Zenon DEF Sprites!Min
      <3>5. r = SubSeq(touched, 1, m - 1) \o SubSeq(touched, m + 1, Len(touched))
        BY <2>1, <3>1, <3>3, Zenon DEF Sprites!RemoveFirst, Sprites!RemoveAt, Sprites!SelectInSeq
      <3>6. m \in 1 .. Len(touched) /\ touched[m] = k
        BY <3>4
      <3> DEFINE a == SubSeq(touched, 1, m - 1)
                 b == SubSeq(touched, m + 1, Len(touched))
      <3>7. /\ a \in Seq(Sheets) /\ Len(a) = m - 1 /\ \A i \in 1 .. m - 1 : a[i] = touched[i]
        BY <3>6
      <3>8. /\ b \in Seq(Sheets) /\ Len(b) = Len(touched) - m
            /\ \A i \in 1 .. Len(touched) - m : b[i] = touched[m + i]
        BY <3>6
      <3> HIDE DEF a, b
      <3>9. /\ a \o b \in Seq(Sheets) /\ Len(a \o b) = Len(a) + Len(b)
            /\ \A i \in 1 .. Len(a) + Len(b) : (a \o b)[i] = IF i <= Len(a) THEN a[i] ELSE b[i - Len(a)]
        <4>1. a \in Seq(Sheets) /\ b \in Seq(Sheets)
          BY <3>7, <3>8, Zenon
        <4>2. QED BY <4>1
      <3>10. r = a \o b
        BY <3>5, Zenon DEF a, b
      <3>11. ASSUME NEW i \in DOMAIN touched, touched[i] # k PROVE \E j \in DOMAIN r : r[j] = touched[i]
        <4>1. i \in 1 .. Len(touched) /\ i # m /\ Len(touched) \in Nat
          BY <3>6, <3>11
        <4>2. CASE i < m
          <5>1. i \in 1 .. Len(a) + Len(b) /\ i <= Len(a) /\ i \in 1 .. m - 1
            BY <3>6, <3>7, <3>8, <4>1, <4>2
          <5>2. (a \o b)[i] = touched[i] /\ i \in DOMAIN (a \o b)
            BY <3>7, <3>9, <5>1
          <5>3. QED BY <3>10, <5>2, Zenon
        <4>3. CASE i > m
          <5> DEFINE j == i - 1
          <5>1. /\ j \in 1 .. Len(a) + Len(b) /\ ~(j <= Len(a))
                /\ i - m \in 1 .. Len(touched) - m /\ j - Len(a) = i - m /\ m + (i - m) = i
            <6>1. /\ m \in Int /\ i \in Int /\ Len(touched) \in Int /\ 1 <= m /\ m < i /\ i <= Len(touched)
              BY <3>6, <4>1, <4>3
            <6>2. Len(a) = m - 1 /\ Len(b) = Len(touched) - m
              BY <3>7, <3>8, Zenon
            <6>3. QED BY <6>1, <6>2
          <5> HIDE DEF j
          <5>2. (a \o b)[j] = b[i - m] /\ j \in DOMAIN (a \o b)
            BY <3>9, <5>1
          <5>3. b[i - m] = touched[i]
            BY <3>8, <5>1, Zenon
          <5>4. QED BY <3>10, <5>2, <5>3, Zenon
        <4>4. QED BY <3>6, <4>1, <4>2, <4>3
      <3>12. QED BY <3>9, <3>10, <3>11, Zenon
    <2>2. CASE ~ \E i \in 1 .. Len(touched) : touched[i] = k
      BY <2>2, Zenon DEF Sprites!RemoveFirst
    <2>3. QED BY <2>1, <2>2, Zenon
  <1>2. touched' = Append(r, k)
    BY Zenon DEF Sprites!Touch
  <1> HIDE DEF r
  <1>3. /\ touched' \in Seq(Sheets) /\ Len(r) + 1 \in DOMAIN touched' /\ touched'[Len(r) + 1] = k
        /\ \A j \in DOMAIN r : j \in DOMAIN touched' /\ touched'[j] = r[j]
    BY <1>1, <1>2
  <1>4. QED BY <1>1, <1>3, Zenon

(* A step that keeps part of a table that fits the loads: what it leaves    *)
(* out nobody holds, so whoever got a sheet and holds it still has it.      *)
LEMMA KeepStep ==
    ASSUME NEW table, NEW S \in SUBSET DOMAIN table, NEW bitmaps,
           Fits(table, nameOf', held', loading'), Kept(table), CacheLoads', UNCHANGED touched,
           \A id \in resolved' : held'[id] > 0 => nameOf'[id] \in DOMAIN table /\ table[nameOf'[id]].id = id,
           \A k \in DOMAIN table : table[k].loaded => table[k].id \in bitmaps,
           \A k \in DOMAIN table \ S : table[k].references = 0,
           constrained' => \A k \in S : table[k].references > 0,
           Sprites!BytesOf(Sprites!Restrict(table, S)) > Budget =>
             \A k \in S : table[k].loaded => table[k].references > 0,
           Sprites!Keep(Sprites!Restrict(table, S), bitmaps)
    PROVE  CacheInv'
  <1>1. /\ entries' = Sprites!Restrict(table, S)
        /\ live' = {id \in bitmaps : \E k \in Sprites!Loaded(entries') : entries'[k].id = id}
    BY Zenon DEF Sprites!Keep
  <1>2. entries' = [k \in S |-> table[k]] /\ DOMAIN entries' = S /\ \A k \in S : entries'[k] = table[k]
    BY <1>1, Zenon DEF Sprites!Restrict
  <1>3. Fits(entries', nameOf', held', loading')
    <2>1. entries' \in [S -> [id : Nat, references : Nat, loaded : BOOLEAN]]
      BY <1>2, Zenon DEF Fits
    <2>2. QED BY <1>2, <2>1, Zenon DEF Fits
  <1>4. Kept(entries)'
    BY <1>2, Zenon DEF Kept
  <1>5. CacheLeases'
    <2> SUFFICES ASSUME NEW id \in resolved', held'[id] > 0 PROVE Sprites!IsEntry(id)'
      BY Zenon DEF CacheLeases
    <2> DEFINE k == nameOf'[id]
    <2>1. k \in DOMAIN table /\ table[k].id = id /\ table[k].references = held'[id]
      BY Zenon DEF Fits
    <2>2. table[k].references # 0
      BY <2>1
    <2>3. k \in S
      BY <2>1, <2>2, Zenon
    <2>4. QED BY <1>2, <2>1, <2>3, Zenon DEF Sprites!IsEntry
  <1>6. Sprites!NothingLeaks'
    <2>1. \A k \in Sprites!Loaded(entries') : k \in S /\ entries'[k].id \in bitmaps
      BY <1>2, Zenon DEF Sprites!Loaded
    <2>2. QED BY <1>1, <2>1 DEF Sprites!NothingLeaks
  <1>7. Sprites!WithinBudget'
    <2>1. Sprites!BytesOf(entries') > Budget => \A k \in Sprites!Loaded(entries') : entries'[k].references > 0
      BY <1>1, <1>2, Zenon DEF Sprites!Loaded
    <2>2. constrained' => \A k \in DOMAIN entries' : entries'[k].references > 0
      BY <1>2, Zenon
    <2>3. QED BY <2>1, <2>2, Zenon DEF Sprites!WithinBudget
  <1>8. QED BY <1>3, <1>4, <1>5, <1>6, <1>7, Zenon DEF CacheInv, CacheTable

(* An empty cache.                                                          *)
LEMMA CacheInit == Init => CacheInv
  <1> SUFFICES ASSUME Init PROVE CacheInv
    OBVIOUS
  <1>1. /\ entries = <<>> /\ touched = <<>> /\ loading = {} /\ nameOf = <<>> /\ held = <<>>
        /\ resolved = {} /\ live = {} /\ constrained = FALSE
    BY Zenon DEF Init, Sprites!Init
  <1>2. DOMAIN entries = {} /\ entries = [k \in {} |-> k]
    BY <1>1
  <1>3. CacheLoads
    <2>1. <<>> \in Seq(Sheets) /\ <<>> \in Seq(Nat) /\ Len(<<>>) = Len(<<>>)
      OBVIOUS
    <2>2. QED BY <1>1, <2>1, Zenon DEF CacheLoads
  <1>4. CacheTable
    <2>1. entries \in [DOMAIN entries -> [id : Nat, references : Nat, loaded : BOOLEAN]]
      BY <1>2
    <2>2. QED BY <1>2, <2>1, Zenon DEF CacheTable, Fits, Kept
  <1>5. CacheLeases
    BY <1>1, Zenon DEF CacheLeases
  <1>6. Sprites!Loaded(entries) = {}
    BY <1>2, Zenon DEF Sprites!Loaded
  <1>7. Sprites!NothingLeaks
    BY <1>1, <1>6 DEF Sprites!NothingLeaks
  <1>8. Sprites!WithinBudget
    BY <1>1, <1>6, Zenon DEF Sprites!WithinBudget
  <1>9. QED BY <1>3, <1>4, <1>5, <1>7, <1>8, Zenon DEF CacheInv

(* A canvas asks for a sheet that is in the table.                          *)
LEMMA AcquireKnown ==
    ASSUME CacheInv, NEW k \in Sheets, Sprites!Acquire(k), k \in DOMAIN entries
    PROVE  CacheInv'
  <1> DEFINE id == entries[k].id
  <1>1. /\ entries' = [entries EXCEPT ![k].references = @ + 1] /\ nameOf' = nameOf
        /\ held' = [held EXCEPT ![id] = @ + 1] /\ loading' = loading
        /\ Sprites!Touch(k) /\ UNCHANGED <<resolved, live, constrained>>
    BY Zenon DEF Sprites!Acquire
  <1>2. CacheLoads /\ Fits(entries, nameOf, held, loading) /\ Kept(entries)
    BY Zenon DEF CacheInv, CacheTable
  <1>3. id \in DOMAIN nameOf /\ DOMAIN held = DOMAIN nameOf /\ nameOf[id] = k
    <2>1. id \in DOMAIN nameOf /\ nameOf[id] = k
      BY <1>2, Zenon DEF Fits
    <2>2. DOMAIN held = 1 .. Len(held) /\ DOMAIN nameOf = 1 .. Len(nameOf) /\ Len(held) = Len(nameOf)
      BY <1>2 DEF CacheLoads
    <2>3. QED BY <2>1, <2>2
  <1> HIDE DEF id
  <1>4. /\ touched' \in Seq(Sheets) /\ \E i \in DOMAIN touched' : touched'[i] = k
        /\ \A i \in DOMAIN touched : \E j \in DOMAIN touched' : touched'[j] = touched[i]
    BY <1>1, <1>2, TouchKeeps, Zenon DEF CacheLoads
  <1>5. CacheLoads'
    <2>1. held \in Seq(Nat) /\ held[id] + 1 \in Nat
      BY <1>2, <1>3 DEF CacheLoads
    <2>2. held' \in Seq(Nat) /\ Len(held') = Len(held)
      BY <1>1, <1>3, <2>1
    <2>3. QED BY <1>1, <1>2, <1>4, <2>2, Zenon DEF CacheLoads
  <1>6. /\ DOMAIN entries' = DOMAIN entries
        /\ \A x \in DOMAIN entries : entries'[x].id = entries[x].id /\ entries'[x].loaded = entries[x].loaded
        /\ entries'[k].references = entries[k].references + 1
        /\ \A x \in DOMAIN entries : x # k => entries'[x] = entries[x]
        /\ entries' \in [DOMAIN entries' -> [id : Nat, references : Nat, loaded : BOOLEAN]]
    BY <1>1, <1>2 DEF Fits
  <1>7. Fits(entries', nameOf', held', loading')
    <2>1. \A x \in DOMAIN entries : entries'[x].references = held'[entries'[x].id]
      <3>1. entries'[k].references = held'[id]
        BY <1>1, <1>2, <1>3, <1>6 DEF Fits, id
      <3>2. ASSUME NEW x \in DOMAIN entries, x # k PROVE entries'[x].references = held'[entries'[x].id]
        <4>1. nameOf[entries[x].id] = x /\ entries[x].references = held[entries[x].id]
              /\ entries[x].id \in DOMAIN held
          BY <1>2, <1>3, Zenon DEF Fits
        <4>2. entries[x].id # id
          BY <1>3, <3>2, <4>1, Zenon
        <4>3. held'[entries[x].id] = held[entries[x].id]
          BY <1>1, <4>1, <4>2, Zenon
        <4>4. QED BY <1>6, <3>2, <4>1, <4>3, Zenon
      <3>3. entries'[k].references = held'[entries'[k].id]
        BY <1>6, <3>1, Zenon DEF id
      <3>4. ASSUME NEW x \in DOMAIN entries PROVE entries'[x].references = held'[entries'[x].id]
        BY <3>2, <3>3, Zenon
      <3>5. QED BY <3>4, Zenon
    <2>2. \A x \in DOMAIN entries : entries'[x].loaded <=> entries'[x].id \notin loading'
      BY <1>1, <1>2, <1>6 DEF Fits
    <2>3. \A x \in DOMAIN entries :
            x \in Sheets /\ entries'[x].id \in DOMAIN nameOf' /\ nameOf'[entries'[x].id] = x
      <3>1. \A x \in DOMAIN entries : x \in Sheets /\ entries[x].id \in DOMAIN nameOf /\ nameOf[entries[x].id] = x
        BY <1>2, Zenon DEF Fits
      <3>2. nameOf' = nameOf
        BY <1>1, Zenon
      <3>3. QED BY <1>6, <3>1, <3>2, Zenon
    <2>4. QED BY <1>6, <2>1, <2>2, <2>3, Zenon DEF Fits
  <1>8. Kept(entries)'
    <2>1. \A x \in DOMAIN entries : \E i \in DOMAIN touched : touched[i] = x
      BY <1>2, Zenon DEF Kept
    <2>2. DOMAIN entries' = DOMAIN entries
      BY <1>6, Zenon
    <2>3. QED BY <1>4, <2>1, <2>2, Zenon DEF Kept
  <1>9. CacheLeases'
    <2> SUFFICES ASSUME NEW i \in resolved, held'[i] > 0 PROVE Sprites!IsEntry(i)'
      BY <1>1, Zenon DEF CacheLeases
    <2>1. i \in DOMAIN nameOf
      BY <1>2, Zenon DEF CacheLoads
    <2>2. CASE i = id
      BY <1>1, <1>3, <1>6, <2>2, Zenon DEF Sprites!IsEntry, id
    <2>3. CASE i # id
      <3>1. held[i] > 0
        BY <1>1, <1>3, <2>1, <2>3, Zenon
      <3>2. Sprites!IsEntry(i)
        BY <3>1, Zenon DEF CacheInv, CacheLeases
      <3>3. QED BY <1>1, <1>6, <3>2, Zenon DEF Sprites!IsEntry
    <2>4. QED BY <2>2, <2>3, Zenon
  <1>10. Sprites!Loaded(entries') = Sprites!Loaded(entries)
    BY <1>6 DEF Sprites!Loaded
  <1>11. Sprites!NothingLeaks'
    BY <1>1, <1>6, <1>10 DEF CacheInv, Sprites!NothingLeaks, Sprites!Loaded
  <1>12. Sprites!WithinBudget'
    <2>1. Sprites!BytesOf(entries') = Sprites!BytesOf(entries)
      BY <1>10, BytesSame, Zenon
    <2>2. ASSUME NEW x \in DOMAIN entries, entries[x].references > 0 PROVE entries'[x].references > 0
      <3>1. entries[k].references \in Nat
        BY <1>2 DEF Fits
      <3>2. entries'[k].references > 0
        BY <1>6, <3>1
      <3>3. QED BY <1>6, <2>2, <3>2, Zenon
    <2>3. Sprites!WithinBudget /\ \A x \in Sprites!Loaded(entries) : x \in DOMAIN entries
      BY Zenon DEF CacheInv, Sprites!Loaded
    <2>4. QED BY <1>1, <1>6, <1>10, <2>1, <2>2, <2>3, Zenon DEF Sprites!WithinBudget
  <1>13. QED BY <1>5, <1>7, <1>8, <1>9, <1>11, <1>12, Zenon DEF CacheInv, CacheTable

(* A canvas asks for one that is not: a load begins.                        *)
LEMMA AcquireNew ==
    ASSUME CacheInv, NEW k \in Sheets, Sprites!Acquire(k), k \notin DOMAIN entries
    PROVE  CacheInv'
  <1> DEFINE id == Len(nameOf) + 1
             fresh == [id |-> id, references |-> 1, loaded |-> FALSE]
  <1>1. /\ entries' = [x \in DOMAIN entries \cup {k} |-> IF x = k THEN fresh ELSE entries[x]]
        /\ nameOf' = Append(nameOf, k) /\ held' = Append(held, 1) /\ loading' = loading \cup {id}
        /\ Sprites!Touch(k) /\ UNCHANGED <<resolved, live, constrained>>
    BY Zenon DEF Sprites!Acquire
  <1>2. CacheLoads /\ Fits(entries, nameOf, held, loading) /\ Kept(entries)
    BY Zenon DEF CacheInv, CacheTable
  <1>3. /\ nameOf' \in Seq(Sheets) /\ held' \in Seq(Nat) /\ Len(held') = Len(nameOf')
        /\ DOMAIN nameOf \subseteq DOMAIN nameOf' /\ id \in DOMAIN nameOf' /\ id \notin DOMAIN nameOf
        /\ nameOf'[id] = k /\ held'[id] = 1 /\ id \in Nat
        /\ \A i \in DOMAIN nameOf : nameOf'[i] = nameOf[i] /\ held'[i] = held[i]
    BY <1>1, <1>2 DEF CacheLoads
  <1>4. /\ touched' \in Seq(Sheets) /\ \E i \in DOMAIN touched' : touched'[i] = k
        /\ \A i \in DOMAIN touched : \E j \in DOMAIN touched' : touched'[j] = touched[i]
    BY <1>1, <1>2, TouchKeeps, Zenon DEF CacheLoads
  <1>5. fresh \in [id : Nat, references : Nat, loaded : BOOLEAN]
        /\ fresh.id = id /\ fresh.references = 1 /\ fresh.loaded = FALSE
    BY <1>3
  <1> HIDE DEF id, fresh
  <1>6. CacheLoads'
    BY <1>1, <1>2, <1>3, <1>4, Zenon DEF CacheLoads
  <1>7. /\ DOMAIN entries' = DOMAIN entries \cup {k} /\ entries'[k] = fresh
        /\ \A x \in DOMAIN entries : x # k /\ entries'[x] = entries[x]
    BY <1>1, Zenon
  <1>8. \A x \in DOMAIN entries : entries[x].id \in DOMAIN nameOf /\ entries[x].id # id
    <2>1. \A x \in DOMAIN entries : entries[x].id \in DOMAIN nameOf
      BY <1>2, Zenon DEF Fits
    <2>2. id \notin DOMAIN nameOf
      BY <1>3, Zenon
    <2>3. QED BY <2>1, <2>2, Zenon
  <1>9. Fits(entries', nameOf', held', loading')
    <2>1. entries' \in [DOMAIN entries' -> [id : Nat, references : Nat, loaded : BOOLEAN]]
      <3>1. \A x \in DOMAIN entries' : entries'[x] \in [id : Nat, references : Nat, loaded : BOOLEAN]
        <4>1. \A x \in DOMAIN entries : entries[x] \in [id : Nat, references : Nat, loaded : BOOLEAN]
          BY <1>2, Zenon DEF Fits
        <4>2. QED BY <1>5, <1>7, <4>1, Zenon
      <3>2. QED BY <1>1, <1>7, <3>1, Zenon
    <2>2. ASSUME NEW x \in DOMAIN entries
          PROVE  /\ x \in Sheets /\ entries'[x].id \in DOMAIN nameOf' /\ nameOf'[entries'[x].id] = x
                 /\ entries'[x].references = held'[entries'[x].id]
                 /\ entries'[x].loaded <=> entries'[x].id \notin loading'
      <3>1. /\ x \in Sheets /\ entries[x].id \in DOMAIN nameOf /\ nameOf[entries[x].id] = x
            /\ entries[x].references = held[entries[x].id]
        BY <1>2, Zenon DEF Fits
      <3>2. entries[x].loaded <=> entries[x].id \notin loading
        BY <1>2 DEF Fits
      <3>3. entries'[x] = entries[x] /\ (entries[x].id \in loading' <=> entries[x].id \in loading)
        BY <1>1, <1>7, <1>8, Zenon
      <3>4. entries'[x].loaded <=> entries'[x].id \notin loading'
        BY <3>2, <3>3
      <3>5. QED BY <1>3, <3>1, <3>3, <3>4, Zenon
    <2>3. /\ k \in Sheets /\ entries'[k].id \in DOMAIN nameOf' /\ nameOf'[entries'[k].id] = k
          /\ entries'[k].references = held'[entries'[k].id]
          /\ entries'[k].loaded <=> entries'[k].id \notin loading'
      BY <1>1, <1>3, <1>5, <1>7, Zenon
    <2>4. QED BY <1>7, <2>1, <2>2, <2>3, Zenon DEF Fits
  <1>10. Kept(entries)'
    BY <1>2, <1>4, <1>7, Zenon DEF Kept
  <1>11. CacheLeases'
    <2> SUFFICES ASSUME NEW i \in resolved, held'[i] > 0 PROVE Sprites!IsEntry(i)'
      BY <1>1, Zenon DEF CacheLeases
    <2>1. i \in DOMAIN nameOf
      BY <1>2, Zenon DEF CacheLoads
    <2>2. Sprites!IsEntry(i)
      BY <1>3, <2>1, Zenon DEF CacheInv, CacheLeases
    <2>3. QED BY <1>3, <1>7, <2>1, <2>2, Zenon DEF Sprites!IsEntry
  <1>12. Sprites!Loaded(entries') = Sprites!Loaded(entries)
    BY <1>5, <1>7, Zenon DEF Sprites!Loaded
  <1>13. \A x \in Sprites!Loaded(entries) : entries'[x] = entries[x]
    BY <1>7, Zenon DEF Sprites!Loaded
  <1>14. Sprites!NothingLeaks'
    BY <1>1, <1>12, <1>13 DEF CacheInv, Sprites!NothingLeaks
  <1>15. Sprites!WithinBudget'
    <2>1. Sprites!BytesOf(entries') = Sprites!BytesOf(entries)
      BY <1>12, BytesSame, Zenon
    <2>2. 1 > 0
      OBVIOUS
    <2>3. QED BY <1>1, <1>5, <1>7, <1>12, <1>13, <2>1, <2>2, Zenon DEF CacheInv, Sprites!WithinBudget
  <1>16. QED BY <1>6, <1>9, <1>10, <1>11, <1>14, <1>15, Zenon DEF CacheInv, CacheTable

(* An image is decoded, of an entry that is still in the table.             *)
LEMMA DecodedKept ==
    ASSUME CacheInv, NEW id \in DOMAIN nameOf, Sprites!Decoded(id), Sprites!IsEntry(id)
    PROVE  CacheInv'
  <1> DEFINE n == nameOf[id]
             table == [entries EXCEPT ![n].loaded = TRUE]
  <1>1. /\ id \in loading /\ loading' = loading \ {id} /\ resolved' = resolved \cup {id}
        /\ Sprites!Keep(Sprites!Trim(table), live \cup {id})
        /\ UNCHANGED <<touched, nameOf, held, constrained>>
    BY Zenon DEF Sprites!Decoded
  <1>2. CacheLoads /\ Fits(entries, nameOf, held, loading) /\ Kept(entries)
    BY Zenon DEF CacheInv, CacheTable
  <1>3. n \in DOMAIN entries /\ entries[n].id = id
    BY Zenon DEF Sprites!IsEntry
  <1>4. /\ DOMAIN table = DOMAIN entries /\ table = [k \in DOMAIN table |-> table[k]]
        /\ table \in [DOMAIN table -> [id : Nat, references : Nat, loaded : BOOLEAN]]
        /\ table[n].id = id /\ table[n].references = entries[n].references /\ table[n].loaded = TRUE
        /\ \A k \in DOMAIN entries : k # n => table[k] = entries[k]
    <2> DEFINE R == [id : Nat, references : Nat, loaded : BOOLEAN]
               r == [entries[n] EXCEPT !.loaded = TRUE]
    <2>1. entries \in [DOMAIN entries -> R] /\ entries[n] \in R
      BY <1>2, <1>3, Zenon DEF Fits
    <2>2. r \in R /\ r.id = entries[n].id /\ r.references = entries[n].references /\ r.loaded = TRUE
      BY <2>1
    <2>3. table = [entries EXCEPT ![n] = r]
      BY Zenon
    <2> HIDE DEF R, r, table, n
    <2>4. /\ DOMAIN table = DOMAIN entries /\ table \in [DOMAIN entries -> R] /\ table[n] = r
          /\ \A k \in DOMAIN entries : k # n => table[k] = entries[k]
      BY <1>3, <2>1, <2>2, <2>3
    <2>5. QED BY <1>3, <2>2, <2>4, Zenon DEF R
  <1> HIDE DEF n, table
  <1>5. CacheLoads'
    BY <1>1, <1>2, Zenon DEF CacheLoads
  <1>6. \A k \in DOMAIN entries : k # n => entries[k].id # id
    BY <1>2, Zenon DEF Fits, n
  <1>7. Fits(table, nameOf', held', loading')
    <2>1. ASSUME NEW k \in DOMAIN entries, k # n
          PROVE  /\ k \in Sheets /\ table[k].id \in DOMAIN nameOf /\ nameOf[table[k].id] = k
                 /\ table[k].references = held[table[k].id]
                 /\ table[k].loaded <=> table[k].id \notin loading'
      <3>1. /\ k \in Sheets /\ entries[k].id \in DOMAIN nameOf /\ nameOf[entries[k].id] = k
            /\ entries[k].references = held[entries[k].id]
        BY <1>2, Zenon DEF Fits
      <3>2. entries[k].loaded <=> entries[k].id \notin loading
        BY <1>2 DEF Fits
      <3>3. table[k] = entries[k] /\ (entries[k].id \in loading' <=> entries[k].id \in loading)
        BY <1>1, <1>4, <1>6, <2>1, Zenon
      <3>4. table[k].loaded <=> table[k].id \notin loading'
        BY <3>2, <3>3
      <3>5. QED BY <3>1, <3>3, <3>4, Zenon
    <2>2. /\ n \in Sheets /\ table[n].id \in DOMAIN nameOf /\ nameOf[table[n].id] = n
          /\ table[n].references = held[table[n].id]
          /\ table[n].loaded <=> table[n].id \notin loading'
      <3>1. table[n].loaded <=> table[n].id \notin loading'
        BY <1>1, <1>4
      <3>2. n \in Sheets /\ id \in DOMAIN nameOf /\ nameOf[id] = n /\ entries[n].references = held[id]
        BY <1>2, <1>3, Zenon DEF Fits
      <3>3. QED BY <1>4, <3>1, <3>2, Zenon
    <2>3. QED BY <1>1, <1>4, <2>1, <2>2, Zenon DEF Fits
  <1>8. Kept(table)
    BY <1>2, <1>4, Zenon DEF Kept
  <1>9. \A k \in DOMAIN table : table[k].references \in Nat
    BY <1>4
  <1>10. PICK S \in SUBSET DOMAIN table :
           /\ Sprites!Trim(table) = Sprites!Restrict(table, S)
           /\ \A k \in DOMAIN table \ S : table[k].references = 0
           /\ constrained => \A k \in S : table[k].references > 0
           /\ Sprites!BytesOf(Sprites!Trim(table)) > Budget =>
                \A k \in S : table[k].loaded => table[k].references > 0
    BY <1>2, <1>4, <1>8, <1>9, TrimLeaves, Zenon DEF CacheLoads, Kept
  <1>11. ASSUME NEW i \in resolved', held'[i] > 0
         PROVE  nameOf'[i] \in DOMAIN table /\ table[nameOf'[i]].id = i
    <2>1. CASE i = id
      BY <1>1, <1>3, <1>4, <2>1, Zenon DEF n
    <2>2. CASE i # id
      <3>1. Sprites!IsEntry(i)
        BY <1>1, <1>11, <2>2, Zenon DEF CacheInv, CacheLeases
      <3>2. nameOf[i] # n
        BY <1>3, <2>2, <3>1, Zenon DEF Sprites!IsEntry
      <3>3. QED BY <1>1, <1>4, <3>1, <3>2, Zenon DEF Sprites!IsEntry
    <2>3. QED BY <2>1, <2>2, Zenon
  <1>12. \A k \in DOMAIN table : table[k].loaded => table[k].id \in live \cup {id}
    <2>1. ASSUME NEW k \in DOMAIN entries, entries[k].loaded PROVE entries[k].id \in live
      BY <2>1 DEF CacheInv, Sprites!NothingLeaks, Sprites!Loaded
    <2>2. QED BY <1>4, <2>1, Zenon
  <1>13. /\ Sprites!Keep(Sprites!Restrict(table, S), live \cup {id})
         /\ Sprites!BytesOf(Sprites!Restrict(table, S)) > Budget =>
              \A k \in S : table[k].loaded => table[k].references > 0
         /\ constrained' => \A k \in S : table[k].references > 0
    BY <1>1, <1>10, Zenon
  <1>14. UNCHANGED touched /\ \A k \in DOMAIN table \ S : table[k].references = 0
    BY <1>1, <1>10, Zenon
  <1>15. QED BY <1>5, <1>7, <1>8, <1>11, <1>12, <1>13, <1>14, KeepStep

(* A load comes to nothing: it fails, or its entry went meanwhile.          *)
LEMMA LoadLost ==
    ASSUME CacheInv, NEW id \in DOMAIN nameOf, Sprites!LoadFails(id) \/ (Sprites!Decoded(id) /\ ~Sprites!IsEntry(id))
    PROVE  CacheInv'
  <1>1. id \in loading /\ loading' = loading \ {id} /\ UNCHANGED <<touched, nameOf, held, resolved, live, constrained>>
    BY Zenon DEF Sprites!LoadFails, Sprites!Decoded, Sprites!GivenUp
  <1>2. CacheLoads /\ Fits(entries, nameOf, held, loading) /\ Kept(entries)
    BY Zenon DEF CacheInv, CacheTable
  <1> DEFINE S == {k \in DOMAIN entries : entries[k].id # id}
  <1>3. DOMAIN entries' = S /\ entries' \in [S -> [id : Nat, references : Nat, loaded : BOOLEAN]]
        /\ \A k \in S : entries'[k] = entries[k]
    <2>1. entries \in [DOMAIN entries -> [id : Nat, references : Nat, loaded : BOOLEAN]]
          /\ \A k \in DOMAIN entries : nameOf[entries[k].id] = k
      BY <1>2, Zenon DEF Fits
    <2>2. CASE Sprites!IsEntry(id)
      <3>1. entries' = [k \in DOMAIN entries \ {nameOf[id]} |-> entries[k]]
        BY <2>2, Zenon DEF Sprites!LoadFails, Sprites!Without, Sprites!Restrict
      <3>2. S = DOMAIN entries \ {nameOf[id]}
        BY <2>1, <2>2 DEF Sprites!IsEntry
      <3> HIDE DEF S
      <3>3. S \subseteq DOMAIN entries /\ entries' = [k \in S |-> entries[k]]
        BY <3>1, <3>2, Zenon
      <3>4. QED BY <2>1, <3>3, Zenon
    <2>3. CASE ~Sprites!IsEntry(id)
      <3>1. entries' = entries
        BY <2>3, Zenon DEF Sprites!LoadFails, Sprites!Decoded
      <3>2. S = DOMAIN entries
        BY <2>1, <2>3 DEF Sprites!IsEntry
      <3>3. QED BY <2>1, <3>1, <3>2, Zenon
    <2>4. QED BY <2>2, <2>3, Zenon
  <1>4. S \subseteq DOMAIN entries /\ \A k \in DOMAIN entries : k \in S <=> entries[k].id # id
    OBVIOUS
  <1> HIDE DEF S
  <1>5. CacheLoads'
    BY <1>1, <1>2, Zenon DEF CacheLoads
  <1>6. Fits(entries', nameOf', held', loading')
    <2>1. \A k \in S : /\ k \in Sheets /\ entries[k].id \in DOMAIN nameOf /\ nameOf[entries[k].id] = k
                       /\ entries[k].references = held[entries[k].id]
      BY <1>2, <1>4, Zenon DEF Fits
    <2>2. \A k \in S : entries'[k].loaded <=> entries'[k].id \notin loading'
      BY <1>1, <1>2, <1>3, <1>4 DEF Fits
    <2>3. nameOf' = nameOf /\ held' = held
      BY <1>1, Zenon
    <2>4. QED BY <1>3, <2>1, <2>2, <2>3, Zenon DEF Fits
  <1>7. Kept(entries)'
    BY <1>1, <1>2, <1>3, <1>4, Zenon DEF Kept
  <1>8. CacheLeases'
    <2> SUFFICES ASSUME NEW i \in resolved, held[i] > 0 PROVE Sprites!IsEntry(i)'
      BY <1>1, Zenon DEF CacheLeases
    <2>1. Sprites!IsEntry(i) /\ i # id
      BY <1>1, <1>2 DEF CacheInv, CacheLeases, CacheLoads
    <2>2. nameOf[i] \in S
      BY <1>4, <2>1, Zenon DEF Sprites!IsEntry
    <2>3. QED BY <1>1, <1>3, <2>1, <2>2, Zenon DEF Sprites!IsEntry
  <1>9. Sprites!Loaded(entries') = Sprites!Loaded(entries)
    <2>1. \A k \in DOMAIN entries : entries[k].loaded => k \in S
      BY <1>1, <1>2, <1>4 DEF Fits
    <2>2. QED BY <1>3, <1>4, <2>1, Zenon DEF Sprites!Loaded
  <1>10. \A k \in Sprites!Loaded(entries) : entries'[k] = entries[k]
    BY <1>3, <1>9, Zenon DEF Sprites!Loaded
  <1>11. Sprites!NothingLeaks'
    BY <1>1, <1>9, <1>10 DEF CacheInv, Sprites!NothingLeaks
  <1>12. Sprites!WithinBudget'
    <2>1. Sprites!BytesOf(entries') = Sprites!BytesOf(entries)
      BY <1>9, BytesSame, Zenon
    <2>2. Sprites!WithinBudget
      BY Zenon DEF CacheInv
    <2>3. QED BY <1>1, <1>3, <1>4, <1>9, <1>10, <2>1, <2>2, Zenon DEF Sprites!WithinBudget
  <1>13. QED BY <1>5, <1>6, <1>7, <1>8, <1>11, <1>12, Zenon DEF CacheInv, CacheTable

(* A lease is given back.                                                   *)
LEMMA ReleaseStep ==
    ASSUME CacheInv, NEW id \in DOMAIN nameOf, Sprites!Release(id)
    PROVE  CacheInv'
  <1> DEFINE n == nameOf[id]
             table == IF Sprites!IsEntry(id) THEN [entries EXCEPT ![n].references = @ - 1] ELSE entries
  <1>1. /\ id \in DOMAIN held /\ held[id] > 0 /\ held' = [held EXCEPT ![id] = @ - 1]
        /\ Sprites!Keep(Sprites!Trim(table), live)
        /\ UNCHANGED <<touched, loading, nameOf, resolved, constrained>>
    BY Zenon DEF Sprites!Release, Sprites!Released
  <1>2. CacheLoads /\ Fits(entries, nameOf, held, loading) /\ Kept(entries)
    BY Zenon DEF CacheInv, CacheTable
  <1>3. /\ held \in Seq(Nat) /\ held[id] \in Nat /\ held[id] - 1 \in Nat
        /\ held'[id] = held[id] - 1 /\ \A i \in DOMAIN held : i # id => held'[i] = held[i]
    <2>1. held \in Seq(Nat)
      BY <1>2, Zenon DEF CacheLoads
    <2>2. QED BY <1>1, <2>1
  <1>4. CacheLoads'
    <2>1. held' \in Seq(Nat) /\ Len(held') = Len(held)
      BY <1>1, <1>3
    <2>2. QED BY <1>1, <1>2, <2>1, Zenon DEF CacheLoads
  <1>5. /\ DOMAIN table = DOMAIN entries /\ table = [k \in DOMAIN table |-> table[k]]
        /\ table \in [DOMAIN table -> [id : Nat, references : Nat, loaded : BOOLEAN]]
        /\ \A k \in DOMAIN entries : table[k].id = entries[k].id /\ table[k].loaded = entries[k].loaded
        /\ \A k \in DOMAIN entries : entries[k].id # id => table[k] = entries[k]
        /\ \A k \in DOMAIN entries : entries[k].id = id => table[k].references = entries[k].references - 1
    <2> DEFINE R == [id : Nat, references : Nat, loaded : BOOLEAN]
               r == [entries[n] EXCEPT !.references = @ - 1]
    <2>1. entries \in [DOMAIN entries -> R] /\ \A k \in DOMAIN entries : nameOf[entries[k].id] = k
      BY <1>2, Zenon DEF Fits
    <2>2. CASE Sprites!IsEntry(id)
      <3>1. n \in DOMAIN entries /\ entries[n].id = id /\ entries[n] \in R /\ entries[n].references = held[id]
        BY <1>2, <2>1, <2>2, Zenon DEF Sprites!IsEntry, Fits
      <3>2. /\ r \in R /\ r.id = entries[n].id /\ r.references = entries[n].references - 1
            /\ r.loaded = entries[n].loaded
        BY <1>3, <3>1
      <3>3. table = [entries EXCEPT ![n] = r]
        BY <2>2, Zenon
      <3> HIDE DEF R, r, table, n
      <3>4. /\ DOMAIN table = DOMAIN entries /\ table \in [DOMAIN entries -> R] /\ table[n] = r
            /\ \A k \in DOMAIN entries : k # n => table[k] = entries[k]
        BY <2>1, <3>1, <3>2, <3>3
      <3>5. \A k \in DOMAIN entries : k # n => entries[k].id # id
        BY <2>1, Zenon DEF n
      <3>6. \A k \in DOMAIN entries : table[k].id = entries[k].id /\ table[k].loaded = entries[k].loaded
        BY <3>2, <3>4, Zenon
      <3>7. \A k \in DOMAIN entries : entries[k].id = id => table[k].references = entries[k].references - 1
        BY <3>2, <3>4, <3>5, Zenon
      <3>8. QED BY <3>1, <3>4, <3>6, <3>7, Zenon DEF R
    <2>3. CASE ~Sprites!IsEntry(id)
      <3>1. \A k \in DOMAIN entries : entries[k].id # id
        BY <2>1, <2>3, Zenon DEF Sprites!IsEntry
      <3>2. table = entries
        BY <2>3, Zenon
      <3> HIDE DEF table
      <3>3. QED BY <2>1, <3>1, <3>2, Zenon
    <2>4. QED BY <2>2, <2>3, Zenon
  <1> HIDE DEF n, table
  <1>6. Fits(table, nameOf', held', loading')
    <2>1. ASSUME NEW k \in DOMAIN entries PROVE table[k].references = held'[table[k].id]
      <3>1. entries[k].references = held[entries[k].id] /\ entries[k].id \in DOMAIN nameOf
        BY <1>2, Zenon DEF Fits
      <3>2. entries[k].id \in DOMAIN held
        BY <1>2, <3>1 DEF CacheLoads
      <3>3. CASE entries[k].id = id
        BY <1>3, <1>5, <3>1, <3>3, Zenon
      <3>4. CASE entries[k].id # id
        BY <1>3, <1>5, <3>1, <3>2, <3>4, Zenon
      <3>5. QED BY <3>3, <3>4, Zenon
    <2>2. \A k \in DOMAIN entries : table[k].loaded <=> table[k].id \notin loading'
      <3>1. \A k \in DOMAIN entries : entries[k].loaded <=> entries[k].id \notin loading
        BY <1>2 DEF Fits
      <3>2. QED BY <1>1, <1>5, <3>1
    <2>3. \A k \in DOMAIN entries : k \in Sheets /\ table[k].id \in DOMAIN nameOf' /\ nameOf'[table[k].id] = k
      <3>1. \A k \in DOMAIN entries : k \in Sheets /\ entries[k].id \in DOMAIN nameOf /\ nameOf[entries[k].id] = k
        BY <1>2, Zenon DEF Fits
      <3>2. nameOf' = nameOf
        BY <1>1, Zenon
      <3>3. QED BY <1>5, <3>1, <3>2, Zenon
    <2>4. QED BY <1>5, <2>1, <2>2, <2>3, Zenon DEF Fits
  <1>7. Kept(table)
    BY <1>2, <1>5, Zenon DEF Kept
  <1>8. \A k \in DOMAIN table : table[k].references \in Nat
    BY <1>5
  <1>9. PICK S \in SUBSET DOMAIN table :
           /\ Sprites!Trim(table) = Sprites!Restrict(table, S)
           /\ \A k \in DOMAIN table \ S : table[k].references = 0
           /\ constrained => \A k \in S : table[k].references > 0
           /\ Sprites!BytesOf(Sprites!Trim(table)) > Budget =>
                \A k \in S : table[k].loaded => table[k].references > 0
    BY <1>2, <1>5, <1>7, <1>8, TrimLeaves, Zenon DEF CacheLoads, Kept
  <1>10. ASSUME NEW i \in resolved', held'[i] > 0
         PROVE  nameOf'[i] \in DOMAIN table /\ table[nameOf'[i]].id = i
    <2>1. i \in resolved /\ i \in DOMAIN held
      BY <1>1, <1>2 DEF CacheLoads
    <2>2. held[i] > 0
      BY <1>1, <1>3, <1>10, <2>1, Zenon
    <2>3. Sprites!IsEntry(i)
      BY <2>1, <2>2, Zenon DEF CacheInv, CacheLeases
    <2>4. QED BY <1>1, <1>5, <2>3, Zenon DEF Sprites!IsEntry
  <1>11. \A k \in DOMAIN table : table[k].loaded => table[k].id \in live
    <2>1. ASSUME NEW k \in DOMAIN entries, entries[k].loaded PROVE entries[k].id \in live
      BY <2>1 DEF CacheInv, Sprites!NothingLeaks, Sprites!Loaded
    <2>2. QED BY <1>5, <2>1, Zenon
  <1>12. /\ Sprites!Keep(Sprites!Restrict(table, S), live)
         /\ Sprites!BytesOf(Sprites!Restrict(table, S)) > Budget =>
              \A k \in S : table[k].loaded => table[k].references > 0
         /\ constrained' => \A k \in S : table[k].references > 0
    BY <1>1, <1>9, Zenon
  <1>13. UNCHANGED touched /\ \A k \in DOMAIN table \ S : table[k].references = 0
    BY <1>1, <1>9, Zenon
  <1>14. QED BY <1>4, <1>6, <1>7, <1>10, <1>11, <1>12, <1>13, KeepStep

(* The pets are hidden, or shown again.                                     *)
LEMMA ConstrainStep ==
    ASSUME CacheInv, Sprites!SetConstrained
    PROVE  CacheInv'
  <1>1. /\ constrained' = ~constrained /\ UNCHANGED <<touched, loading, nameOf, held, resolved>>
        /\ constrained' => Sprites!Keep(Sprites!ClearUnused(entries), live)
        /\ ~constrained' => UNCHANGED <<entries, live>>
    BY Zenon DEF Sprites!SetConstrained
  <1>2. CacheLoads /\ Fits(entries, nameOf, held, loading) /\ Kept(entries)
    BY Zenon DEF CacheInv, CacheTable
  <1>3. CacheLoads'
    BY <1>1, <1>2, Zenon DEF CacheLoads
  <1>4. Fits(entries, nameOf', held', loading')
    BY <1>1, <1>2, Zenon
  <1>5. CASE constrained'
    <2> DEFINE S == {k \in DOMAIN entries : entries[k].references > 0}
    <2>1. \A k \in DOMAIN entries : entries[k].references \in Nat
      BY <1>2 DEF Fits
    <2>2. S \in SUBSET DOMAIN entries /\ (\A k \in S : entries[k].references > 0)
          /\ \A k \in DOMAIN entries \ S : entries[k].references = 0
      BY <2>1
    <2>3. Sprites!Keep(Sprites!Restrict(entries, S), live)
      BY <1>1, <1>5, Zenon DEF Sprites!ClearUnused
    <2> HIDE DEF S
    <2>4. \A i \in resolved' : held'[i] > 0 => nameOf'[i] \in DOMAIN entries /\ entries[nameOf'[i]].id = i
      BY <1>1, Zenon DEF CacheInv, CacheLeases, Sprites!IsEntry
    <2>5. \A k \in DOMAIN entries : entries[k].loaded => entries[k].id \in live
      BY DEF CacheInv, Sprites!NothingLeaks, Sprites!Loaded
    <2>6. UNCHANGED touched
      BY <1>1, Zenon
    <2>7. QED BY <1>2, <1>3, <1>4, <2>2, <2>3, <2>4, <2>5, <2>6, KeepStep
  <1>6. CASE ~constrained'
    <2>1. entries' = entries /\ live' = live /\ constrained
      BY <1>1, <1>6
    <2>2. Kept(entries)'
      BY <1>1, <1>2, <2>1, Zenon DEF Kept
    <2>3. CacheLeases'
      BY <1>1, <2>1, Zenon DEF CacheInv, CacheLeases, Sprites!IsEntry
    <2>4. Sprites!NothingLeaks'
      BY <2>1, Zenon DEF CacheInv, Sprites!NothingLeaks
    <2>5. Sprites!WithinBudget'
      BY <1>6, <2>1, Zenon DEF CacheInv, Sprites!WithinBudget
    <2>6. Fits(entries', nameOf', held', loading')
      BY <1>4, <2>1, Zenon
    <2>7. QED BY <1>3, <2>2, <2>3, <2>4, <2>5, <2>6, Zenon DEF CacheInv, CacheTable
  <1>7. QED BY <1>5, <1>6, Zenon

LEMMA CacheStep == CacheInv /\ [Sprites!Next]_cacheVars => CacheInv'
  <1> SUFFICES ASSUME CacheInv, [Sprites!Next]_cacheVars PROVE CacheInv'
    OBVIOUS
  <1>1. CASE UNCHANGED cacheVars
    <2>1. UNCHANGED <<entries, touched, loading, nameOf, held, resolved, live, constrained>>
      BY <1>1, Zenon DEF cacheVars
    <2>2. CacheLoads' /\ CacheTable'
      BY <2>1, Zenon DEF CacheInv, CacheLoads, CacheTable, Kept
    <2>3. CacheLeases' /\ Sprites!NothingLeaks' /\ Sprites!WithinBudget'
      BY <2>1, Zenon DEF CacheInv, CacheLeases, Sprites!IsEntry, Sprites!NothingLeaks, Sprites!WithinBudget
    <2>4. QED BY <2>2, <2>3, Zenon DEF CacheInv
  <1>2. ASSUME NEW k \in Sheets, Sprites!Acquire(k) PROVE CacheInv'
    BY <1>2, AcquireKnown, AcquireNew, Zenon
  <1>3. ASSUME NEW id \in DOMAIN nameOf, Sprites!Decoded(id) \/ Sprites!LoadFails(id) \/ Sprites!Release(id)
        PROVE  CacheInv'
    BY <1>3, DecodedKept, LoadLost, ReleaseStep, Zenon
  <1>4. CASE Sprites!SetConstrained
    BY <1>4, ConstrainStep, Zenon
  <1>5. QED BY <1>1, <1>2, <1>3, <1>4, Zenon DEF Sprites!Next

LEMMA CacheInvSafe == CacheInv => Sprites!CacheSafe
  <1> SUFFICES ASSUME CacheInv PROVE Sprites!CacheSafe
    OBVIOUS
  <1>1. CacheLoads /\ Fits(entries, nameOf, held, loading)
    BY Zenon DEF CacheInv, CacheTable
  <1>2. \A k \in Sprites!Loaded(entries) : entries[k].id \in DOMAIN nameOf
    BY <1>1, Zenon DEF Fits, Sprites!Loaded
  <1>3. live \subseteq DOMAIN nameOf
    BY <1>2 DEF CacheInv, Sprites!NothingLeaks
  <1>4. Sprites!TypeOK
    <2>1. resolved \cap loading = {} /\ loading \subseteq DOMAIN nameOf
      BY <1>1 DEF CacheLoads
    <2>2. QED BY <1>1, <1>3, <2>1, Zenon DEF Fits, Sprites!TypeOK
  <1>5. Sprites!LeasedStays
    <2> SUFFICES ASSUME NEW id \in resolved, held[id] > 0 PROVE id \in live
      BY Zenon DEF Sprites!LeasedStays
    <2> DEFINE k == nameOf[id]
    <2>1. k \in DOMAIN entries /\ entries[k].id = id
      BY Zenon DEF CacheInv, CacheLeases, Sprites!IsEntry
    <2>2. id \notin loading
      BY <1>1 DEF CacheLoads
    <2>3. entries[k].loaded
      BY <1>1, <2>1, <2>2 DEF Fits
    <2>4. QED BY <2>1, <2>3 DEF CacheInv, Sprites!NothingLeaks, Sprites!Loaded
  <1>6. QED BY <1>4, <1>5, Zenon DEF CacheInv, Sprites!CacheSafe

(* Whoever got a sheet and holds it can draw it, however loads fail, are    *)
(* given up and are repeated; no bitmap is lost, and the budget is exceeded *)
(* by what is in use only (SpriteCache).                                    *)
THEOREM CacheSafety == Spec => []CacheSafe
  <1>1. Init => (part = "cache" => CacheInv)
    BY CacheInit
  <1>2. (part = "cache" => CacheInv) /\ [Next]_deskVars => (part = "cache" => CacheInv)'
    BY PartSteps, CacheStep
  <1>3. (part = "cache" => CacheInv) => CacheSafe
    BY CacheInvSafe DEF CacheSafe
  <1>4. QED BY <1>1, <1>2, <1>3, PTL DEF Spec
=============================================================================
