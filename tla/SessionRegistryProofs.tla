----------------------- MODULE SessionRegistryProofs -----------------------
(***************************************************************************)
(* Proofs about SessionRegistry, for any codecs, slot count, counter width *)
(* and number of sessions below it.                                        *)
(***************************************************************************)
EXTENDS SessionRegistry, FiniteSetTheorems, WellFoundedInduction, TLAPS

\* No codec has more sessions open than were ever opened: what keeps a counter
\* from wrapping.
OpenBounded == \A c \in Codecs : open[c] <= opens

IInv == TypeOK /\ CountsMatchSessions /\ OpenBounded

-----------------------------------------------------------------------------
\* A codec that has a slot has the slot of its own bit position, inside the array.
LEMMA SlotOfBit ==
    ASSUME NEW c \in Codecs
    PROVE  /\ SlotOf({c}) = IF 2 ^ c >= SlotCount THEN NoSlot ELSE c
           /\ SlotOf({c}) # NoSlot => SlotOf({c}) = c /\ c \in Slots
  <1>1. Cardinality({c}) = 1
    BY FS_Singleton
  <1>2. (CHOOSE x \in {c} : TRUE) = c
    OBVIOUS
  <1>3. SlotOf({c}) = IF 2 ^ c >= SlotCount THEN NoSlot ELSE c
    BY <1>1, <1>2 DEF SlotOf, Value
  <1>4. c \in Nat /\ 2 ^ c \in Nat /\ c < 2 ^ c /\ SlotCount \in Nat /\ NoSlot \notin Nat
    BY RegistryAssumption, PowerAssumption
  <1>5. 2 ^ c < SlotCount => c \in 0 .. SlotCount - 1
    BY <1>4
  <1>6. QED BY <1>3, <1>4, <1>5 DEF Slots

\* slot_of of any mask is a slot of the array or nothing.
LEMMA SlotOfType ==
    ASSUME NEW mask \in SUBSET Codecs, SlotOf(mask) # NoSlot
    PROVE  SlotOf(mask) \in Slots
  <1>1. Cardinality(mask) = 1
    BY DEF SlotOf
  <1>2. PICK c : mask = {c}
    <2>1. IsFiniteSet(mask)
      BY RegistryAssumption, FS_Subset
    <2>2. QED BY <1>1, <2>1, FS_Singleton
  <1>3. QED BY <1>2, SlotOfBit

\* A value below the word is left alone by the width.
LEMMA InWord ==
    ASSUME NEW n \in Nat, n < Word
    PROVE  n % Word = n
  BY RegistryAssumption

LEMMA WordRange ==
    ASSUME NEW n \in Int
    PROVE  n % Word \in 0 .. Word - 1
  <1>1. Word \in Nat \ {0}
    BY RegistryAssumption
  <1>2. QED BY <1>1

-----------------------------------------------------------------------------
LEMMA InitIInv == Init => IInv
  <1> SUFFICES ASSUME Init PROVE IInv
    OBVIOUS
  <1>1. 0 \in 0 .. Word - 1 /\ 0 \in 0 .. MaxOpens
    BY RegistryAssumption
  <1>2. TypeOK
    BY <1>1 DEF Init, TypeOK
  <1>3. CountsMatchSessions
    BY SlotOfBit DEF Init, CountsMatchSessions, Slotted
  <1>4. OpenBounded
    BY DEF Init, OpenBounded
  <1>5. QED BY <1>2, <1>3, <1>4 DEF IInv

\* One session of c more or less: the counters follow, and no other codec's moves.
LEMMA BumpCounts ==
    ASSUME IInv, NEW c \in Codecs, NEW delta \in {1, -1},
           Bump(c, delta), open' = [open EXCEPT ![c] = @ + delta],
           open[c] + delta \in 0 .. MaxOpens
    PROVE  /\ counts' \in [Slots -> 0 .. Word - 1]
           /\ CountsMatchSessions'
  <1>1. counts \in [Slots -> 0 .. Word - 1] /\ open \in [Codecs -> 0 .. MaxOpens]
    BY DEF IInv, TypeOK
  <1>2. CASE SlotOf({c}) = NoSlot
    <2>1. counts' = counts
      BY <1>2 DEF Bump
    <2>2. \A d \in Slotted : d # c
      BY <1>2 DEF Slotted
    <2>3. \A d \in Slotted : d \in Codecs /\ open'[d] = open[d]
      BY <1>1, <2>2 DEF Slotted
    <2>4. CountsMatchSessions'
      BY <2>1, <2>3 DEF IInv, CountsMatchSessions
    <2>5. QED BY <1>1, <2>1, <2>4
  <1>3. CASE SlotOf({c}) # NoSlot
    <2>1. SlotOf({c}) = c /\ c \in Slots /\ c \in Slotted
      BY <1>3, SlotOfBit DEF Slotted
    <2>2. counts[c] = open[c]
      BY <2>1 DEF IInv, CountsMatchSessions
    <2>3. counts' = [counts EXCEPT ![c] = (@ + delta) % Word]
      BY <1>3, <2>1 DEF Bump
    <2>4. open[c] + delta \in Nat /\ open[c] + delta < Word
      BY RegistryAssumption
    <2>5. (counts[c] + delta) % Word = open[c] + delta
      BY <2>2, <2>4, InWord
    <2>6. open[c] + delta \in 0 .. Word - 1
      BY <2>4, RegistryAssumption
    <2>7. counts' \in [Slots -> 0 .. Word - 1]
      BY <1>1, <2>1, <2>3, <2>5, <2>6
    <2>8. \A d \in Slotted : SlotOf({d}) = d /\ d \in Slots /\ d \in Codecs
      BY SlotOfBit DEF Slotted
    <2>9. \A d \in Slotted : counts'[d] = open'[d]
      <3>1. SUFFICES ASSUME NEW d \in Slotted PROVE counts'[d] = open'[d]
        OBVIOUS
      <3>2. CASE d = c
        BY <1>1, <2>1, <2>3, <2>5, <3>2
      <3>3. CASE d # c
        <4>1. counts[d] = open[d]
          BY <2>8 DEF IInv, CountsMatchSessions
        <4>2. QED BY <1>1, <2>3, <2>8, <3>3, <4>1
      <3>4. QED BY <3>2, <3>3
    <2>10. QED BY <2>7, <2>8, <2>9 DEF CountsMatchSessions
  <1>4. QED BY <1>2, <1>3

LEMMA NextIInv == IInv /\ [Next]_vars => IInv'
  <1> SUFFICES ASSUME IInv, [Next]_vars PROVE IInv'
    OBVIOUS
  <1>0. TypeOK /\ CountsMatchSessions /\ OpenBounded
    BY DEF IInv
  <1>1. ASSUME NEW c \in Codecs, Acquire(c) PROVE IInv'
    <2>1. open[c] + 1 \in 0 .. MaxOpens
      BY <1>0, <1>1, RegistryAssumption DEF Acquire, TypeOK, OpenBounded
    <2>2. counts' \in [Slots -> 0 .. Word - 1] /\ CountsMatchSessions'
      BY <1>1, <2>1, BumpCounts DEF Acquire
    <2>3. TypeOK'
      BY <1>0, <1>1, <2>1, <2>2, RegistryAssumption DEF Acquire, TypeOK
    <2>4. OpenBounded'
      BY <1>0, <1>1 DEF Acquire, TypeOK, OpenBounded
    <2>5. QED BY <2>2, <2>3, <2>4 DEF IInv
  <1>2. ASSUME NEW c \in Codecs, Release(c) PROVE IInv'
    <2>1. open[c] + (-1) \in 0 .. MaxOpens /\ open[c] - 1 = open[c] + (-1)
      BY <1>0, <1>2, RegistryAssumption DEF Release, TypeOK
    <2>2. open' = [open EXCEPT ![c] = @ + (-1)]
      BY <1>0, <1>2, <2>1 DEF Release, TypeOK
    <2>3. counts' \in [Slots -> 0 .. Word - 1] /\ CountsMatchSessions'
      BY <1>2, <2>1, <2>2, BumpCounts DEF Release
    <2>4. TypeOK'
      BY <1>0, <1>2, <2>1, <2>3 DEF Release, TypeOK
    <2>5. OpenBounded'
      BY <1>0, <1>2 DEF Release, TypeOK, OpenBounded
    <2>6. QED BY <2>3, <2>4, <2>5 DEF IInv
  <1>3. ASSUME UNCHANGED <<counts, open, opens>>, TypeOK' PROVE IInv'
    BY <1>0, <1>3 DEF IInv, CountsMatchSessions, OpenBounded
  <1>4. ASSUME NEW t \in Threads, NEW mask \in Questions, Ask(t, mask) PROVE IInv'
    <2>1. mask \in SUBSET Codecs /\ 0 \in 0 .. Word - 1
      BY RegistryAssumption
    <2>2. open \in [Codecs -> Int] /\ open \in [Codecs -> Nat]
      BY <1>0 DEF TypeOK
    <2>3. TypeOK'
      BY <1>0, <1>4, <2>1, <2>2 DEF Ask, TypeOK
    <2>4. QED BY <1>3, <1>4, <2>3 DEF Ask
  <1>5. ASSUME NEW t \in Threads, LoadSlot(t) PROVE IInv'
    <2>1. SlotOf(question[t]) \in Slots
      BY <1>0, <1>5, SlotOfType DEF LoadSlot, TypeOK
    <2>2. TypeOK'
      BY <1>0, <1>5, <2>1 DEF LoadSlot, TypeOK
    <2>3. QED BY <1>3, <1>5, <2>2 DEF LoadSlot
  <1>6. ASSUME NEW t \in Threads, ScanCounter(t) PROVE IInv'
    <2>1. PICK s \in unread[t] :
             /\ total' = [total EXCEPT ![t] = (@ + counts[s]) % Word]
             /\ unread' = [unread EXCEPT ![t] = @ \ {s}]
      BY <1>6 DEF ScanCounter
    <2>2. total[t] + counts[s] \in Int
      BY <1>0, <2>1 DEF TypeOK
    <2>3. (total[t] + counts[s]) % Word \in 0 .. Word - 1
      BY <2>2, WordRange
    <2>4. TypeOK'
      BY <1>0, <1>6, <2>1, <2>3 DEF ScanCounter, TypeOK
    <2>5. QED BY <1>3, <1>6, <2>4 DEF ScanCounter
  <1>7. ASSUME NEW t \in Threads, ScanEnds(t) PROVE IInv'
    <2>1. TypeOK'
      BY <1>0, <1>7 DEF ScanEnds, TypeOK
    <2>2. QED BY <1>3, <1>7, <2>1 DEF ScanEnds
  <1>8. ASSUME NEW t \in Threads, Finish(t) PROVE IInv'
    <2>1. TypeOK'
      BY <1>0, <1>8 DEF Finish, TypeOK
    <2>2. QED BY <1>3, <1>8, <2>1 DEF Finish
  <1>9. CASE UNCHANGED vars
    <2>1. TypeOK'
      BY <1>0, <1>9 DEF vars, TypeOK
    <2>2. QED BY <1>3, <1>9, <2>1 DEF vars
  <1> QED
    BY <1>1, <1>2, <1>4, <1>5, <1>6, <1>7, <1>8, <1>9 DEF Next

\* Every counter is its codec's sessions, and none has come near the word.
THEOREM RegistryInvariant == Spec => []IInv
  BY InitIInv, NextIInv, PTL DEF Spec

\* Counters and sums stay within the counters' width, no matter how queries and
\* encoders overlap.
THEOREM RegistryTypes == Spec => []TypeOK
  <1>1. IInv => TypeOK
    BY DEF IInv
  <1>2. QED BY <1>1, RegistryInvariant, PTL

\* Every codec that has a slot is counted in it exactly, whatever encoders come
\* and go on whatever threads: the counters neither collide nor wrap.
THEOREM CountersExact == Spec => [](TypeOK /\ CountsMatchSessions)
  <1>1. IInv => TypeOK /\ CountsMatchSessions
    BY DEF IInv
  <1>2. QED BY <1>1, RegistryInvariant, PTL

\* The codecs that have a slot are those whose mask VALUE is below slot_count,
\* not those whose bit position is: with eight slots, bits 0, 1 and 2.
LEMMA SlottedByValue == Slotted = {c \in Codecs : 2 ^ c < SlotCount}
  <1>1. \A c \in Codecs : SlotOf({c}) # NoSlot <=> 2 ^ c < SlotCount
    <2>1. SUFFICES ASSUME NEW c \in Codecs
                   PROVE  SlotOf({c}) # NoSlot <=> 2 ^ c < SlotCount
      OBVIOUS
    <2>2. c \in Nat /\ 2 ^ c \in Nat /\ SlotCount \in Nat /\ NoSlot \notin Nat
      BY RegistryAssumption, PowerAssumption
    <2>3. QED BY <2>2, SlotOfBit
  <1>2. QED BY <1>1 DEF Slotted

-----------------------------------------------------------------------------
(* Sums over finite sets.  MapThenSumSet is a recursive function over the  *)
(* subsets of its set; that it exists, and that it does not depend on the  *)
(* order its CHOOSE takes the elements in, is by induction, here in the    *)
(* form of a set of subsets that holds a set as soon as it holds all its   *)
(* proper parts.                                                           *)

LEMMA LeastElement ==
    ASSUME NEW S \in SUBSET Nat, S # {}
    PROVE  \E n \in S : \A m \in S : n <= m
  <1> DEFINE R == OpToRel(<, Nat)
  <1>1. \E n \in S : \A m \in S : ~(<<m, n>> \in R)
    <2>1. IsWellFoundedOn(R, Nat)
      BY NatLessThanWellFounded
    <2> HIDE DEF R
    <2>2. QED BY <2>1, WFMin
  <1>2. \A m, n \in Nat : m < n => <<m, n>> \in R
    BY DEF OpToRel
  <1> HIDE DEF R
  <1>3. PICK n \in S : \A m \in S : ~(<<m, n>> \in R)
    BY <1>1
  <1>4. ASSUME NEW m \in S PROVE n <= m
    <2>1. ~(m < n)
      BY <1>2, <1>3
    <2>2. QED BY <2>1
  <1>5. QED BY <1>4

\* A set of subsets that holds each subset whose proper parts it holds, holds them all.
LEMMA SubsetInduction ==
    ASSUME NEW S, IsFiniteSet(S), NEW Good \in SUBSET (SUBSET S),
           \A T \in SUBSET S : (\A U \in SUBSET T : U # T => U \in Good) => T \in Good
    PROVE  S \in Good
  <1> DEFINE Bad == {T \in SUBSET S : T \notin Good}
             Sizes == {Cardinality(T) : T \in Bad}
  <1>1. SUFFICES ASSUME S \notin Good PROVE FALSE
    OBVIOUS
  <1>2. \A T \in SUBSET S : IsFiniteSet(T) /\ Cardinality(T) \in Nat
    BY FS_Subset, FS_CardinalityType
  <1>3. Sizes \in SUBSET Nat /\ Sizes # {}
    BY <1>1, <1>2
  <1>4. PICK n \in Sizes : \A m \in Sizes : n <= m
    <2> HIDE DEF Sizes
    <2> QED BY <1>3, LeastElement
  <1>5. PICK T \in Bad : Cardinality(T) = n
    OBVIOUS
  <1>6. ASSUME NEW U \in SUBSET T, U # T PROVE U \in Good
    <2>1. Cardinality(U) < Cardinality(T)
      <3>1. Cardinality(U) <= Cardinality(T) /\ Cardinality(U) # Cardinality(T)
        BY <1>2, <1>5, <1>6, FS_Subset
      <3>2. U \in SUBSET S
        BY <1>5, <1>6
      <3>3. QED BY <1>2, <1>5, <3>1, <3>2
    <2>2. U \in SUBSET S /\ Cardinality(U) \in Nat /\ n \in Nat
      BY <1>2, <1>3, <1>5, <1>6
    <2>3. Cardinality(U) \notin Sizes
      <3> HIDE DEF Sizes
      <3> QED BY <1>4, <1>5, <2>1, <2>2
    <2>4. QED BY <2>2, <2>3
  <1>7. QED BY <1>5, <1>6

Any(s) == CHOOSE x \in s : TRUE

\* What the recursion makes of s, given what it made of the parts of s.
Step(f, sums, s) == IF s = {} THEN 0 ELSE f[Any(s)] + sums[s \ {Any(s)}]

\* sums has the sum of f over each subset of S.
Sums(f, S, sums) ==
    /\ sums = [T \in SUBSET S |-> sums[T]]
    /\ \A T \in SUBSET S : sums[T] = Step(f, sums, T)

\* A sum over a set of codecs.
SumOf(f, S) == MapThenSumSet(LAMBDA c : f[c], S)

LEMMA SumOfIsChosen ==
    ASSUME NEW f, NEW S
    PROVE SumOf(f, S) = (CHOOSE sums : sums = [T \in SUBSET S |-> Step(f, sums, T)])[S]
  BY DEF SumOf, MapThenSumSet, MapThenFoldSet, Step, Any

\* Sums of functions that agree, agree.
LEMMA SumsAgree ==
    ASSUME NEW S, IsFiniteSet(S), NEW A, NEW B, S \subseteq A, S \subseteq B,
           NEW f, NEW g, \A x \in S : f[x] = g[x],
           NEW sums, Sums(f, A, sums), NEW others, Sums(g, B, others)
    PROVE  sums[S] = others[S]
  <1> DEFINE Good == {T \in SUBSET S : sums[T] = others[T]}
  <1>1. ASSUME NEW T \in SUBSET S, \A U \in SUBSET T : U # T => U \in Good
        PROVE  T \in Good
    <2>1. T \in SUBSET A /\ T \in SUBSET B
      OBVIOUS
    <2>2. sums[T] = Step(f, sums, T) /\ others[T] = Step(g, others, T)
      BY <2>1 DEF Sums
    <2>3. CASE T = {}
      BY <2>2, <2>3 DEF Step
    <2>4. CASE T # {}
      <3>1. Any(T) \in T
        BY <2>4 DEF Any
      <3>2. T \ {Any(T)} \in Good
        BY <1>1, <3>1
      <3>3. f[Any(T)] = g[Any(T)]
        BY <3>1
      <3>4. QED BY <2>2, <2>4, <3>2, <3>3 DEF Step
    <2>5. QED BY <2>3, <2>4
  <1>2. S \in Good
    <2>1. Good \in SUBSET (SUBSET S)
      OBVIOUS
    <2> HIDE DEF Good
    <2> QED BY <1>1, <2>1, SubsetInduction
  <1>3. QED BY <1>2

\* A set that has sums has them for its parts.
LEMMA SumsOfParts ==
    ASSUME NEW S, NEW T \in SUBSET S, NEW f, NEW sums, Sums(f, S, sums)
    PROVE  Sums(f, T, [U \in SUBSET T |-> sums[U]])
  <1> DEFINE parts == [U \in SUBSET T |-> sums[U]]
  <1>1. ASSUME NEW U \in SUBSET T PROVE parts[U] = Step(f, parts, U)
    <2>1. parts[U] = sums[U] /\ sums[U] = Step(f, sums, U)
      BY DEF Sums
    <2>2. U \ {Any(U)} \in SUBSET T
      OBVIOUS
    <2>3. parts[U \ {Any(U)}] = sums[U \ {Any(U)}]
      BY <2>2
    <2> HIDE DEF parts
    <2>4. QED BY <2>1, <2>3 DEF Step
  <1>2. QED BY <1>1 DEF Sums

\* Every finite set has sums.
LEMMA SumsExist ==
    ASSUME NEW S, IsFiniteSet(S), NEW f
    PROVE  \E sums : Sums(f, S, sums)
  <1> DEFINE Good == {T \in SUBSET S : \E sums : Sums(f, T, sums)}
             TheSums(T) == CHOOSE sums : Sums(f, T, sums)
  <1>1. ASSUME NEW T \in SUBSET S, \A U \in SUBSET T : U # T => U \in Good
        PROVE  T \in Good
    <2> DEFINE all == [U \in SUBSET T |->
                          IF U # T THEN TheSums(U)[U]
                          ELSE IF U = {} THEN 0
                          ELSE f[Any(U)] + TheSums(U \ {Any(U)})[U \ {Any(U)}]]
    <2>1. ASSUME NEW U \in SUBSET T, U # T PROVE Sums(f, U, TheSums(U))
      BY <1>1, <2>1
    <2>2. ASSUME NEW U \in SUBSET T, U # {}
          PROVE  /\ Any(U) \in U /\ U \ {Any(U)} \in SUBSET T /\ U \ {Any(U)} # T
                 /\ U \ {Any(U)} \in SUBSET U
      BY <2>2 DEF Any
    <2>3. ASSUME NEW U \in SUBSET T, U # T, NEW V \in SUBSET U
          PROVE  TheSums(U)[V] = TheSums(V)[V]
      <3>1. Sums(f, U, TheSums(U)) /\ Sums(f, V, TheSums(V))
        BY <2>1, <2>3
      <3>2. IsFiniteSet(V)
        <4>1. V \in SUBSET S
          OBVIOUS
        <4> QED BY <4>1, FS_Subset
      <3> HIDE DEF TheSums
      <3>3. QED BY <3>1, <3>2, SumsAgree
    <2>4. ASSUME NEW U \in SUBSET T PROVE all[U] = Step(f, all, U)
      <3>1. CASE U = T
        <4>1. CASE U = {}
          BY <3>1, <4>1 DEF Step
        <4>2. CASE U # {}
          <5>1. all[U \ {Any(U)}] = TheSums(U \ {Any(U)})[U \ {Any(U)}]
            BY <2>2, <4>2
          <5>2. all[U] = f[Any(U)] + TheSums(U \ {Any(U)})[U \ {Any(U)}]
            BY <3>1, <4>2
          <5> HIDE DEF all, TheSums
          <5>3. QED BY <4>2, <5>1, <5>2 DEF Step
        <4>3. QED BY <4>1, <4>2
      <3>2. CASE U # T
        <4>1. all[U] = TheSums(U)[U] /\ TheSums(U)[U] = Step(f, TheSums(U), U)
          BY <2>1, <3>2 DEF Sums
        <4>2. CASE U = {}
          BY <4>1, <4>2 DEF Step
        <4>3. CASE U # {}
          <5>1. all[U \ {Any(U)}] = TheSums(U \ {Any(U)})[U \ {Any(U)}]
            BY <2>2, <4>3
          <5>2. TheSums(U)[U \ {Any(U)}] = TheSums(U \ {Any(U)})[U \ {Any(U)}]
            BY <2>2, <2>3, <3>2, <4>3
          <5> HIDE DEF all, TheSums
          <5>3. QED BY <4>1, <4>3, <5>1, <5>2 DEF Step
        <4>4. QED BY <4>2, <4>3
      <3>3. QED BY <3>1, <3>2
    <2>5. all = [U \in SUBSET T |-> all[U]]
      OBVIOUS
    <2> HIDE DEF all
    <2>6. Sums(f, T, all)
      BY <2>4, <2>5 DEF Sums
    <2>7. QED BY <2>6
  <1>2. S \in Good
    <2>1. Good \in SUBSET (SUBSET S)
      OBVIOUS
    <2> HIDE DEF Good
    <2> QED BY <1>1, <2>1, SubsetInduction
  <1>3. QED BY <1>2

\* MapThenSumSet is such a sum.
LEMMA SumOfIsSum ==
    ASSUME NEW S, IsFiniteSet(S), NEW f, NEW A, S \subseteq A, NEW sums, Sums(f, A, sums)
    PROVE  SumOf(f, S) = sums[S]
  <1> DEFINE chosen == CHOOSE g : g = [T \in SUBSET S |-> Step(f, g, T)]
  <1>1. \A g : Sums(f, S, g) <=> g = [T \in SUBSET S |-> Step(f, g, T)]
    BY DEF Sums
  <1>2. Sums(f, S, chosen)
    <2>1. PICK g : Sums(f, S, g)
      BY SumsExist
    <2>2. \E h : h = [T \in SUBSET S |-> Step(f, h, T)]
      BY <1>1, <2>1
    <2>3. chosen = [T \in SUBSET S |-> Step(f, chosen, T)]
      BY <2>2
    <2> HIDE DEF chosen
    <2>4. QED BY <1>1, <2>3
  <1>3. SumOf(f, S) = chosen[S]
    BY SumOfIsChosen
  <1> HIDE DEF chosen
  <1>4. QED BY <1>2, <1>3, SumsAgree

\* Functions that agree on a set have the same sum over it.
LEMMA SumsEqual ==
    ASSUME NEW S, IsFiniteSet(S), NEW f, NEW g, \A x \in S : f[x] = g[x]
    PROVE  SumOf(f, S) = SumOf(g, S)
  <1>1. PICK sums : Sums(f, S, sums)
    BY SumsExist
  <1>2. PICK others : Sums(g, S, others)
    BY SumsExist
  <1>3. sums[S] = others[S]
    BY <1>1, <1>2, SumsAgree
  <1>4. QED BY <1>1, <1>2, <1>3, SumOfIsSum

\* A sum is an element and the sum of the rest, whichever element that is.
LEMMA SumSplit ==
    ASSUME NEW S, IsFiniteSet(S), NEW f, \A x \in S : f[x] \in Int
    PROVE  /\ SumOf(f, S) \in Int
           /\ SumOf(f, {}) = 0
           /\ \A x \in S : SumOf(f, S) = f[x] + SumOf(f, S \ {x})
  <1>1. PICK sums : Sums(f, S, sums)
    BY SumsExist
  <1>2. ASSUME NEW T \in SUBSET S PROVE SumOf(f, T) = sums[T]
    <2>1. IsFiniteSet(T)
      BY FS_Subset
    <2>2. QED BY <1>1, <2>1, SumOfIsSum
  <1> DEFINE Good == {T \in SUBSET S : /\ sums[T] \in Int
                                      /\ \A x \in T : sums[T] = f[x] + sums[T \ {x}]}
  <1>3. sums[{}] = 0
    BY <1>1 DEF Sums, Step
  <1>4. ASSUME NEW T \in SUBSET S, \A U \in SUBSET T : U # T => U \in Good
        PROVE  T \in Good
    <2>1. CASE T = {}
      BY <1>3, <2>1
    <2>2. CASE T # {}
      <3> DEFINE a == Any(T)
      <3>1. a \in T
        BY <2>2 DEF Any
      <3> HIDE DEF a
      <3>2. sums[T] = f[a] + sums[T \ {a}]
        BY <1>1, <2>2 DEF Sums, Step, a
      <3>3. f[a] \in Int /\ sums[T \ {a}] \in Int
        BY <1>4, <3>1
      <3>4. ASSUME NEW x \in T, x # a PROVE sums[T] = f[x] + sums[T \ {x}]
        <4>1. T \ {a} \in Good /\ T \ {x} \in Good /\ (T \ {a}) \ {x} \in Good
          BY <1>4, <3>1, <3>4
        <4>2. x \in T \ {a} /\ a \in T \ {x} /\ (T \ {a}) \ {x} = (T \ {x}) \ {a}
          BY <3>1, <3>4
        <4>3. sums[T \ {a}] = f[x] + sums[(T \ {a}) \ {x}]
          BY <4>1, <4>2
        <4>4. sums[T \ {x}] = f[a] + sums[(T \ {a}) \ {x}]
          BY <4>1, <4>2
        <4>5. f[x] \in Int /\ sums[(T \ {a}) \ {x}] \in Int
          BY <4>1
        <4>6. QED BY <3>2, <3>3, <4>3, <4>4, <4>5
      <3>5. sums[T] \in Int
        BY <3>2, <3>3
      <3>6. \A x \in T : sums[T] = f[x] + sums[T \ {x}]
        BY <3>2, <3>4
      <3>7. QED BY <3>5, <3>6
    <2>3. QED BY <2>1, <2>2
  <1>5. S \in Good
    <2>1. Good \in SUBSET (SUBSET S)
      OBVIOUS
    <2> HIDE DEF Good
    <2> QED BY <1>4, <2>1, SubsetInduction
  <1>6. SumOf(f, S) = sums[S] /\ SumOf(f, {}) = sums[{}]
    BY <1>2
  <1>7. \A x \in S : SumOf(f, S \ {x}) = sums[S \ {x}]
    BY <1>2
  <1>8. QED BY <1>3, <1>5, <1>6, <1>7

\* Greater terms, greater sum.
LEMMA SumMonotone ==
    ASSUME NEW S, IsFiniteSet(S), NEW f, NEW g,
           \A x \in S : f[x] \in Int /\ g[x] \in Int /\ f[x] <= g[x]
    PROVE  SumOf(f, S) <= SumOf(g, S)
  <1> DEFINE Good == {T \in SUBSET S : SumOf(f, T) <= SumOf(g, T)}
  <1>1. ASSUME NEW T \in SUBSET S, \A U \in SUBSET T : U # T => U \in Good
        PROVE  T \in Good
    <2>1. IsFiniteSet(T) /\ (\A x \in T : f[x] \in Int) /\ (\A x \in T : g[x] \in Int)
      BY FS_Subset
    <2>2. CASE T = {}
      <3>1. SumOf(f, T) = 0 /\ SumOf(g, T) = 0
        BY <2>1, <2>2, SumSplit
      <3>2. QED BY <3>1
    <2>3. CASE T # {}
      <3>1. PICK x : x \in T
        BY <2>3
      <3>2. IsFiniteSet(T \ {x}) /\ T \ {x} \in Good
        BY <1>1, <2>1, <3>1, FS_Subset
      <3>3. SumOf(f, T) = f[x] + SumOf(f, T \ {x}) /\ SumOf(g, T) = g[x] + SumOf(g, T \ {x})
        BY <2>1, <3>1, SumSplit
      <3>4. SumOf(f, T \ {x}) \in Int /\ SumOf(g, T \ {x}) \in Int
        <4>1. (\A y \in T \ {x} : f[y] \in Int) /\ (\A y \in T \ {x} : g[y] \in Int)
          BY <2>1
        <4>2. QED BY <3>2, <4>1, SumSplit
      <3>5. f[x] \in Int /\ g[x] \in Int /\ f[x] <= g[x]
        BY <3>1
      <3>6. SumOf(f, T \ {x}) <= SumOf(g, T \ {x})
        BY <3>2
      <3>7. SumOf(f, T) <= SumOf(g, T)
        BY <3>3, <3>4, <3>5, <3>6
      <3>8. QED BY <3>7
    <2>4. QED BY <2>2, <2>3
  <1>2. S \in Good
    <2>1. Good \in SUBSET (SUBSET S)
      OBVIOUS
    <2> HIDE DEF Good
    <2> QED BY <1>1, <2>1, SubsetInduction
  <1>3. QED BY <1>2

\* A change of one term is a change of the sum.
LEMMA SumBump ==
    ASSUME NEW S, IsFiniteSet(S), NEW c \in S, NEW d \in Int, NEW f, NEW g,
           \A x \in S : f[x] \in Int, g[c] = f[c] + d, \A x \in S \ {c} : g[x] = f[x]
    PROVE  SumOf(g, S) = SumOf(f, S) + d
  <1>1. IsFiniteSet(S \ {c}) /\ \A x \in S \ {c} : f[x] \in Int
    BY FS_Subset
  <1>2. \A x \in S : g[x] \in Int
    <2>1. ASSUME NEW x \in S PROVE g[x] \in Int
      <3>1. CASE x = c
        BY <3>1
      <3>2. CASE x # c
        BY <3>2
      <3>3. QED BY <3>1, <3>2
    <2>2. QED BY <2>1
  <1>3. SumOf(g, S \ {c}) = SumOf(f, S \ {c})
    BY <1>1, SumsEqual
  <1>4. SumOf(f, S \ {c}) \in Int
    BY <1>1, SumSplit
  <1>5. SumOf(f, S) = f[c] + SumOf(f, S \ {c})
    BY SumSplit
  <1>6. SumOf(g, S) = g[c] + SumOf(g, S \ {c})
    BY <1>2, SumSplit
  <1>7. f[c] \in Int
    OBVIOUS
  <1>8. QED BY <1>3, <1>4, <1>5, <1>6, <1>7

\* A part has no greater a sum than the whole, when no term is negative.
LEMMA SumOfPart ==
    ASSUME NEW S, IsFiniteSet(S), NEW f, \A x \in S : f[x] \in Nat, NEW U \in SUBSET S
    PROVE  SumOf(f, U) <= SumOf(f, S)
  <1> DEFINE Good == {T \in SUBSET S : \A V \in SUBSET T : SumOf(f, V) <= SumOf(f, T)}
  <1>0. ASSUME NEW T \in SUBSET S
        PROVE  /\ SumOf(f, T) \in Int
               /\ \A x \in T : SumOf(f, T) = f[x] + SumOf(f, T \ {x})
    <2>1. IsFiniteSet(T) /\ \A x \in T : f[x] \in Int
      BY FS_Subset
    <2>2. QED BY <2>1, SumSplit
  <1>1. ASSUME NEW T \in SUBSET S, \A V \in SUBSET T : V # T => V \in Good
        PROVE  T \in Good
    <2>1. ASSUME NEW V \in SUBSET T PROVE SumOf(f, V) <= SumOf(f, T)
      <3>1. CASE V = T
        BY <1>0, <3>1
      <3>2. CASE V # T
        <4>1. PICK x : x \in T /\ x \notin V
          BY <3>2
        <4>2. T \ {x} \in Good /\ V \in SUBSET (T \ {x})
          BY <1>1, <4>1
        <4>3. SumOf(f, V) <= SumOf(f, T \ {x})
          BY <4>2
        <4>4. SumOf(f, T) = f[x] + SumOf(f, T \ {x}) /\ f[x] \in Nat
          BY <1>0, <4>1
        <4>5. V \in SUBSET S /\ T \ {x} \in SUBSET S
          BY <4>1
        <4>6. SumOf(f, V) \in Int /\ SumOf(f, T \ {x}) \in Int
          BY <1>0, <4>5
        <4>7. QED BY <4>3, <4>4, <4>6
      <3>3. QED BY <3>1, <3>2
    <2>2. QED BY <2>1
  <1>2. S \in Good
    <2>1. Good \in SUBSET (SUBSET S)
      OBVIOUS
    <2> HIDE DEF Good
    <2> QED BY <1>1, <2>1, SubsetInduction
  <1>3. QED BY <1>2

\* A set of one has the sum of its term.
LEMMA SumOfOne ==
    ASSUME NEW f, NEW x, f[x] \in Int
    PROVE  SumOf(f, {x}) = f[x]
  <1>1. IsFiniteSet({x}) /\ \A y \in {x} : f[y] \in Int
    BY FS_Singleton
  <1>2. SumOf(f, {x}) = f[x] + SumOf(f, {x} \ {x}) /\ SumOf(f, {}) = 0
    BY <1>1, SumSplit
  <1>3. {x} \ {x} = {}
    OBVIOUS
  <1>4. SumOf(f, {x}) = f[x] + 0
    BY <1>2, <1>3
  <1>5. QED BY <1>4

\* Noughts sum to nought.
LEMMA SumOfNoughts ==
    ASSUME NEW S, IsFiniteSet(S), NEW f, \A x \in S : f[x] = 0
    PROVE  SumOf(f, S) = 0
  <1> DEFINE Good == {T \in SUBSET S : SumOf(f, T) = 0}
  <1>1. ASSUME NEW T \in SUBSET S, \A U \in SUBSET T : U # T => U \in Good
        PROVE  T \in Good
    <2>1. IsFiniteSet(T) /\ \A x \in T : f[x] \in Int
      BY FS_Subset
    <2>2. CASE T = {}
      BY <2>1, <2>2, SumSplit
    <2>3. CASE T # {}
      <3>1. PICK x : x \in T
        BY <2>3
      <3>2. SumOf(f, T) = f[x] + SumOf(f, T \ {x}) /\ f[x] = 0
        BY <2>1, <3>1, SumSplit
      <3>3. SumOf(f, T \ {x}) = 0
        BY <1>1, <3>1
      <3>4. SumOf(f, T) = 0
        BY <3>2, <3>3
      <3>5. QED BY <3>4
    <2>4. QED BY <2>2, <2>3
  <1>2. S \in Good
    <2>1. Good \in SUBSET (SUBSET S)
      OBVIOUS
    <2> HIDE DEF Good
    <2> QED BY <1>1, <2>1, SubsetInduction
  <1>3. QED BY <1>2

-----------------------------------------------------------------------------
(* A query's answer.  What a query has loaded of a codec's counter was the *)
(* codec's number of sessions at some moment of the query, so it lies in   *)
(* the codec's window; the windows widen as sessions come and go, and the  *)
(* sum stays in the sum of the windows of the codecs loaded so far.  It    *)
(* never wraps, because the windows never take in more sessions than were  *)
(* ever opened.                                                            *)

\* The sessions each codec may be counted with, as a query sees them.
Windows ==
    \A t \in Threads, c \in Codecs : low[t][c] <= open[c] /\ open[c] <= high[t][c]

\* No query's windows take in more sessions than were ever opened.
SumsBounded ==
    /\ SumOf(open, Codecs) <= opens
    /\ \A t \in Threads : SumOf(high[t], Codecs) <= opens

\* A counter without a codec is never touched.
SpareSlots == \A s \in Slots \ Slotted : counts[s] = 0

\* The codecs whose counters t's scan has loaded.
Loaded(t) == Slotted \ unread[t]

\* InWindow, of sums named by an operator.
Inside(t, codecs, n) == SumOf(low[t], codecs) <= n /\ n <= SumOf(high[t], codecs)

\* The codecs that t's query counts.
Asked(t) == IF SlotOf(question[t]) # NoSlot THEN question[t] ELSE Slotted

\* A scan has what the counters it has loaded may have held.
ScanInside(t) ==
    pc[t] = "active" /\ SlotOf(question[t]) = NoSlot => Inside(t, Loaded(t), total[t])

\* An answer is what the counters of the codecs it counts may have held.
AnswerInside(t) == pc[t] = "answered" => Inside(t, Asked(t), total[t])

WindowInv ==
    /\ Windows
    /\ SumsBounded
    /\ SpareSlots
    /\ \A t \in Threads : ScanInside(t) /\ AnswerInside(t)

LEMMA SlottedCodecs ==
    /\ Slotted \subseteq Codecs
    /\ Slotted \subseteq Slots
    /\ IsFiniteSet(Slotted)
    /\ \A c \in Slotted : SlotOf({c}) = c
  <1>1. Slotted \subseteq Codecs
    BY DEF Slotted
  <1>2. IsFiniteSet(Slotted)
    BY <1>1, RegistryAssumption, FS_Subset
  <1>3. \A c \in Slotted : SlotOf({c}) = c /\ c \in Slots
    BY SlotOfBit DEF Slotted
  <1>4. QED BY <1>1, <1>2, <1>3

\* A mask that has a slot is one slotted codec, and the slot is the codec's.
LEMMA SlotOfMask ==
    ASSUME NEW mask \in SUBSET Codecs, SlotOf(mask) # NoSlot
    PROVE  \E c \in Slotted : mask = {c} /\ SlotOf(mask) = c
  <1>1. Cardinality(mask) = 1
    BY DEF SlotOf
  <1>2. PICK c : mask = {c}
    <2>1. IsFiniteSet(mask)
      BY RegistryAssumption, FS_Subset
    <2>2. QED BY <1>1, <2>1, FS_Singleton
  <1>3. c \in Slotted /\ SlotOf(mask) = c
    BY <1>2, SlotOfBit DEF Slotted
  <1>4. QED BY <1>2, <1>3

LEMMA InWindowIsInside ==
    ASSUME NEW t, NEW codecs, NEW n
    PROVE  InWindow(t, codecs, n) <=> Inside(t, codecs, n)
  BY DEF InWindow, Inside, SumOf

\* A wider window holds what a narrower one does.
LEMMA WindowWidens ==
    ASSUME NEW lo, NEW hi, NEW lower, NEW higher, NEW codecs, IsFiniteSet(codecs), NEW n \in Int,
           \A c \in codecs : lo[c] \in Int /\ lower[c] \in Int /\ lower[c] <= lo[c],
           \A c \in codecs : hi[c] \in Int /\ higher[c] \in Int /\ hi[c] <= higher[c],
           SumOf(lo, codecs) <= n, n <= SumOf(hi, codecs)
    PROVE  SumOf(lower, codecs) <= n /\ n <= SumOf(higher, codecs)
  <1>1. SumOf(lower, codecs) <= SumOf(lo, codecs)
    BY SumMonotone
  <1>2. SumOf(hi, codecs) <= SumOf(higher, codecs)
    BY SumMonotone
  <1>3. SumOf(lo, codecs) \in Int /\ SumOf(lower, codecs) \in Int
    BY SumSplit
  <1>4. SumOf(hi, codecs) \in Int /\ SumOf(higher, codecs) \in Int
    BY SumSplit
  <1>5. QED BY <1>1, <1>2, <1>3, <1>4

LEMMA InitWindow == Init => WindowInv
  <1> SUFFICES ASSUME Init PROVE WindowInv
    OBVIOUS
  <1>1. \A c \in Codecs : open[c] = 0 /\ open[c] \in Int
    BY DEF Init
  <1>2. SumOf(open, Codecs) <= 0
    <2>1. SumOf(open, Codecs) = 0
      BY <1>1, RegistryAssumption, SumOfNoughts
    <2>2. QED BY <2>1
  <1>3. opens = 0 /\ \A t \in Threads : high[t] = open /\ low[t] = open
    BY DEF Init
  <1>4. SumsBounded
    BY <1>2, <1>3 DEF SumsBounded
  <1>5. Windows
    BY <1>1, <1>3 DEF Windows
  <1>6. SpareSlots /\ \A t \in Threads : ScanInside(t) /\ AnswerInside(t)
    BY DEF Init, SpareSlots, ScanInside, AnswerInside
  <1>7. QED BY <1>4, <1>5, <1>6 DEF WindowInv

\* A step that leaves a thread's query where it was, and at most widens its windows,
\* leaves its scan and its answer in them.
LEMMA QueryKept ==
    ASSUME TypeOK, TypeOK', NEW t \in Threads, ScanInside(t), AnswerInside(t),
           pc'[t] = pc[t], question'[t] = question[t], unread'[t] = unread[t],
           total'[t] = total[t],
           \A c \in Codecs : low'[t][c] <= low[t][c] /\ high[t][c] <= high'[t][c]
    PROVE  ScanInside(t)' /\ AnswerInside(t)'
  <1>1. ASSUME NEW codecs \in SUBSET Codecs, Inside(t, codecs, total[t])
        PROVE  SumOf(low'[t], codecs) <= total'[t] /\ total'[t] <= SumOf(high'[t], codecs)
    <2>1. IsFiniteSet(codecs)
      BY RegistryAssumption, FS_Subset
    <2>2. \A c \in codecs : low[t][c] \in Int /\ low'[t][c] \in Int
      BY DEF TypeOK
    <2>3. \A c \in codecs : high[t][c] \in Int /\ high'[t][c] \in Int
      BY DEF TypeOK
    <2>4. total[t] \in Int
      BY DEF TypeOK
    <2>5. SumOf(low[t], codecs) <= total[t] /\ total[t] <= SumOf(high[t], codecs)
      BY <1>1 DEF Inside
    <2>6. /\ \A c \in codecs : low'[t][c] <= low[t][c]
          /\ \A c \in codecs : high[t][c] <= high'[t][c]
      OBVIOUS
    <2>7. SumOf(low'[t], codecs) <= total[t] /\ total[t] <= SumOf(high'[t], codecs)
      BY <2>1, <2>2, <2>3, <2>4, <2>5, <2>6, WindowWidens
    <2>8. QED BY <2>7
  <1>2. question[t] \in SUBSET Codecs /\ Slotted \in SUBSET Codecs
    BY SlottedCodecs DEF TypeOK
  <1>3. Loaded(t) \in SUBSET Codecs /\ Loaded(t)' = Loaded(t)
    BY <1>2 DEF Loaded, Slotted
  <1>4. Asked(t) \in SUBSET Codecs /\ Asked(t)' = Asked(t)
    BY <1>2 DEF Asked, Slotted
  <1>5. ScanInside(t)'
    BY <1>1, <1>3 DEF ScanInside, Inside
  <1>6. AnswerInside(t)'
    BY <1>1, <1>4 DEF AnswerInside, Inside
  <1>7. QED BY <1>5, <1>6

\* Codecs are finitely many, and their windows sum.
LEMMA SumsType ==
    ASSUME TypeOK, NEW codecs \in SUBSET Codecs
    PROVE  /\ IsFiniteSet(codecs)
           /\ SumOf(open, codecs) \in Int
           /\ \A t \in Threads : SumOf(low[t], codecs) \in Int /\ SumOf(high[t], codecs) \in Int
  <1>1. IsFiniteSet(codecs)
    BY RegistryAssumption, FS_Subset
  <1>2. SumOf(open, codecs) \in Int
    <2>1. \A c \in codecs : open[c] \in Int
      BY DEF TypeOK
    <2>2. QED BY <1>1, <2>1, SumSplit
  <1>3. ASSUME NEW t \in Threads
        PROVE  SumOf(low[t], codecs) \in Int /\ SumOf(high[t], codecs) \in Int
    <2>1. (\A c \in codecs : low[t][c] \in Int) /\ (\A c \in codecs : high[t][c] \in Int)
      BY DEF TypeOK
    <2>2. QED BY <1>1, <2>1, SumSplit
  <1>4. QED BY <1>1, <1>2, <1>3

\* The counter of a codec that has none is not there to be bumped.
LEMMA BumpSpares ==
    ASSUME IInv, SpareSlots, NEW c \in Codecs, NEW delta \in Int, Bump(c, delta)
    PROVE  SpareSlots'
  <1>1. counts \in [Slots -> 0 .. Word - 1]
    BY DEF IInv, TypeOK
  <1>2. CASE SlotOf({c}) = NoSlot
    BY <1>2 DEF Bump, SpareSlots, Slots, Slotted
  <1>3. CASE SlotOf({c}) # NoSlot
    <2>1. c \in Slotted /\ SlotOf({c}) = c
      BY <1>3, SlotOfBit DEF Slotted
    <2>2. counts' = [counts EXCEPT ![c] = (@ + delta) % Word]
      BY <1>3, <2>1 DEF Bump
    <2>3. \A s \in Slots \ Slotted : counts'[s] = counts[s]
      BY <1>1, <2>1, <2>2
    <2>4. QED BY <2>3 DEF SpareSlots, Slots, Slotted
  <1>4. QED BY <1>2, <1>3

LEMMA AcquireWindow ==
    ASSUME IInv, IInv', WindowInv, NEW c \in Codecs, Acquire(c)
    PROVE  WindowInv'
  <1>0. TypeOK /\ TypeOK' /\ opens \in Int /\ opens' = opens + 1 /\ IsFiniteSet(Codecs)
    BY RegistryAssumption DEF IInv, TypeOK, Acquire
  <1>1. /\ \A d \in Codecs : open[d] \in Int
        /\ open'[c] = open[c] + 1
        /\ \A d \in Codecs \ {c} : open'[d] = open[d]
    BY <1>0 DEF Acquire, TypeOK
  <1>2. ASSUME NEW t \in Threads
        PROVE  /\ \A d \in Codecs : high[t][d] \in Int /\ low[t][d] \in Int
               /\ high'[t][c] = high[t][c] + 1
               /\ \A d \in Codecs \ {c} : high'[t][d] = high[t][d]
               /\ low'[t] = low[t]
    BY <1>0 DEF Acquire, TypeOK
  <1>3. Windows'
    <2>1. SUFFICES ASSUME NEW t \in Threads, NEW d \in Codecs
                   PROVE  low'[t][d] <= open'[d] /\ open'[d] <= high'[t][d]
      BY DEF Windows
    <2>2. low[t][d] <= open[d] /\ open[d] <= high[t][d]
      BY DEF WindowInv, Windows
    <2>3. CASE d = c
      BY <1>1, <1>2, <2>2, <2>3
    <2>4. CASE d # c
      BY <1>1, <1>2, <2>2, <2>4
    <2>5. QED BY <2>3, <2>4
  <1>4. SumsBounded'
    <2>0. 1 \in Int /\ IsFiniteSet(Codecs)
      BY <1>0
    <2>1. SumOf(open', Codecs) = SumOf(open, Codecs) + 1
      <3> DEFINE before == open
                 after  == open'
      <3>1. /\ \A d \in Codecs : before[d] \in Int
            /\ after[c] = before[c] + 1
            /\ \A d \in Codecs \ {c} : after[d] = before[d]
        BY <1>1
      <3> HIDE DEF before, after
      <3>2. SumOf(after, Codecs) = SumOf(before, Codecs) + 1
        BY <2>0, <3>1, SumBump
      <3>3. QED BY <3>2 DEF before, after
    <2>2. SumOf(open, Codecs) \in Int /\ SumOf(open, Codecs) <= opens
      BY <1>0, SumsType DEF WindowInv, SumsBounded
    <2>3. ASSUME NEW t \in Threads PROVE SumOf(high'[t], Codecs) <= opens'
      <3> DEFINE before == high[t]
                 after  == high'[t]
      <3>0. /\ \A d \in Codecs : before[d] \in Int
            /\ after[c] = before[c] + 1
            /\ \A d \in Codecs \ {c} : after[d] = before[d]
        BY <1>2
      <3>1. SumOf(after, Codecs) = SumOf(before, Codecs) + 1
        <4> HIDE DEF before, after
        <4> QED BY <2>0, <3>0, SumBump
      <3>2. SumOf(high[t], Codecs) \in Int /\ SumOf(high[t], Codecs) <= opens
        BY <1>0, SumsType DEF WindowInv, SumsBounded
      <3>3. QED BY <1>0, <3>1, <3>2
    <2>4. SumOf(open', Codecs) <= opens'
      BY <1>0, <2>1, <2>2
    <2>5. QED BY <2>3, <2>4 DEF SumsBounded
  <1>5. SpareSlots'
    BY BumpSpares DEF Acquire, WindowInv
  <1>6. ASSUME NEW t \in Threads PROVE ScanInside(t)' /\ AnswerInside(t)'
    <2>1. /\ pc'[t] = pc[t] /\ question'[t] = question[t]
          /\ unread'[t] = unread[t] /\ total'[t] = total[t]
      BY DEF Acquire
    <2>2. \A d \in Codecs : low'[t][d] <= low[t][d] /\ high[t][d] <= high'[t][d]
      <3>1. SUFFICES ASSUME NEW d \in Codecs
                     PROVE  low'[t][d] <= low[t][d] /\ high[t][d] <= high'[t][d]
        OBVIOUS
      <3>2. CASE d = c
        BY <1>2, <3>2
      <3>3. CASE d # c
        BY <1>2, <3>3
      <3>4. QED BY <3>2, <3>3
    <2>3. QED BY <1>0, <2>1, <2>2, QueryKept DEF WindowInv
  <1>7. QED BY <1>3, <1>4, <1>5, <1>6 DEF WindowInv

LEMMA ReleaseWindow ==
    ASSUME IInv, IInv', WindowInv, NEW c \in Codecs, Release(c)
    PROVE  WindowInv'
  <1>0. TypeOK /\ TypeOK' /\ opens \in Int /\ opens' = opens /\ IsFiniteSet(Codecs)
    BY RegistryAssumption DEF IInv, TypeOK, Release
  <1>1. /\ \A d \in Codecs : open[d] \in Int
        /\ open'[c] = open[c] + (-1)
        /\ \A d \in Codecs \ {c} : open'[d] = open[d]
    BY <1>0 DEF Release, TypeOK
  <1>2. ASSUME NEW t \in Threads
        PROVE  /\ \A d \in Codecs : high[t][d] \in Int /\ low[t][d] \in Int
               /\ low'[t][c] = low[t][c] - 1
               /\ \A d \in Codecs \ {c} : low'[t][d] = low[t][d]
               /\ high'[t] = high[t]
    BY <1>0 DEF Release, TypeOK
  <1>3. Windows'
    <2>1. SUFFICES ASSUME NEW t \in Threads, NEW d \in Codecs
                   PROVE  low'[t][d] <= open'[d] /\ open'[d] <= high'[t][d]
      BY DEF Windows
    <2>2. low[t][d] <= open[d] /\ open[d] <= high[t][d]
      BY DEF WindowInv, Windows
    <2>3. CASE d = c
      BY <1>1, <1>2, <2>2, <2>3
    <2>4. CASE d # c
      BY <1>1, <1>2, <2>2, <2>4
    <2>5. QED BY <2>3, <2>4
  <1>4. SumsBounded'
    <2>0. (-1) \in Int /\ IsFiniteSet(Codecs)
      BY <1>0
    <2>1. SumOf(open', Codecs) = SumOf(open, Codecs) + (-1)
      <3> DEFINE before == open
                 after  == open'
      <3>1. /\ \A d \in Codecs : before[d] \in Int
            /\ after[c] = before[c] + (-1)
            /\ \A d \in Codecs \ {c} : after[d] = before[d]
        BY <1>1
      <3> HIDE DEF before, after
      <3>2. SumOf(after, Codecs) = SumOf(before, Codecs) + (-1)
        BY <2>0, <3>1, SumBump
      <3>3. QED BY <3>2 DEF before, after
    <2>2. SumOf(open, Codecs) \in Int /\ SumOf(open, Codecs) <= opens
      BY <1>0, SumsType DEF WindowInv, SumsBounded
    <2>3. SumOf(open', Codecs) <= opens'
      BY <1>0, <2>1, <2>2
    <2>4. \A t \in Threads : SumOf(high'[t], Codecs) <= opens'
      BY <1>0, <1>2 DEF WindowInv, SumsBounded
    <2>5. QED BY <2>3, <2>4 DEF SumsBounded
  <1>5. SpareSlots'
    BY BumpSpares DEF Release, WindowInv
  <1>6. ASSUME NEW t \in Threads PROVE ScanInside(t)' /\ AnswerInside(t)'
    <2>1. /\ pc'[t] = pc[t] /\ question'[t] = question[t]
          /\ unread'[t] = unread[t] /\ total'[t] = total[t]
      BY DEF Release
    <2>2. \A d \in Codecs : low'[t][d] <= low[t][d] /\ high[t][d] <= high'[t][d]
      <3>1. SUFFICES ASSUME NEW d \in Codecs
                     PROVE  low'[t][d] <= low[t][d] /\ high[t][d] <= high'[t][d]
        OBVIOUS
      <3>2. CASE d = c
        BY <1>2, <3>2
      <3>3. CASE d # c
        BY <1>2, <3>3
      <3>4. QED BY <3>2, <3>3
    <2>3. QED BY <1>0, <2>1, <2>2, QueryKept DEF WindowInv
  <1>7. QED BY <1>3, <1>4, <1>5, <1>6 DEF WindowInv

\* A query starts with nothing loaded, and with windows that are exact.
LEMMA AskWindow ==
    ASSUME IInv, IInv', WindowInv, NEW t \in Threads, NEW mask \in Questions, Ask(t, mask)
    PROVE  WindowInv'
  <1>0. TypeOK /\ TypeOK' /\ mask \in SUBSET Codecs
    BY RegistryAssumption DEF IInv
  <1>1. counts' = counts /\ open' = open /\ opens' = opens
    BY DEF Ask
  <1>2. /\ low'[t] = open /\ high'[t] = open /\ unread'[t] = Slots /\ total'[t] = 0
        /\ pc'[t] \in {"refused", "active"}
    BY <1>0 DEF Ask, TypeOK
  <1>3. ASSUME NEW u \in Threads \ {t}
        PROVE  /\ pc'[u] = pc[u] /\ question'[u] = question[u]
               /\ unread'[u] = unread[u] /\ total'[u] = total[u]
               /\ low'[u] = low[u] /\ high'[u] = high[u]
    BY <1>0 DEF Ask, TypeOK
  <1>4. Windows'
    <2>1. \A c \in Codecs : open[c] <= open[c]
      BY <1>0 DEF TypeOK
    <2>2. QED BY <1>1, <1>2, <1>3, <2>1 DEF Windows, WindowInv
  <1>5. SumsBounded'
    BY <1>1, <1>2, <1>3 DEF WindowInv, SumsBounded
  <1>6. SpareSlots'
    BY <1>1 DEF WindowInv, SpareSlots, Slots, Slotted
  <1>7. ScanInside(t)' /\ AnswerInside(t)'
    <2>1. Slotted \ Slots = {}
      BY SlottedCodecs
    <2>2. Loaded(t)' = {}
      BY <1>2, <2>1 DEF Loaded, Slotted, Slots
    <2>3. SumOf(open, {}) = 0
      BY FS_EmptySet, SumOfNoughts
    <2>4. Inside(t, Loaded(t), total[t])'
      BY <1>2, <2>2, <2>3 DEF Inside
    <2>5. QED BY <1>2, <2>4 DEF ScanInside, AnswerInside
  <1>8. ASSUME NEW u \in Threads \ {t} PROVE ScanInside(u)' /\ AnswerInside(u)'
    <2>1. \A c \in Codecs : low'[u][c] <= low[u][c] /\ high[u][c] <= high'[u][c]
      BY <1>0, <1>3 DEF TypeOK
    <2>2. QED BY <1>0, <1>3, <2>1, QueryKept DEF WindowInv
  <1>9. QED BY <1>4, <1>5, <1>6, <1>7, <1>8 DEF WindowInv

\* A step of t's query: the sessions and the windows stay, and so do the other queries.
LEMMA QueryStep ==
    ASSUME IInv, IInv', WindowInv, NEW t \in Threads,
           UNCHANGED <<counts, open, opens, low, high, question>>,
           \A u \in Threads \ {t} :
               pc'[u] = pc[u] /\ unread'[u] = unread[u] /\ total'[u] = total[u],
           ScanInside(t)', AnswerInside(t)'
    PROVE  WindowInv'
  <1>0. TypeOK /\ TypeOK'
    BY DEF IInv
  <1>1. Windows' /\ SumsBounded'
    BY DEF WindowInv, Windows, SumsBounded
  <1>2. SpareSlots'
    BY DEF WindowInv, SpareSlots, Slots, Slotted
  <1>3. ASSUME NEW u \in Threads \ {t} PROVE ScanInside(u)' /\ AnswerInside(u)'
    <2>1. \A c \in Codecs : low'[u][c] <= low[u][c] /\ high[u][c] <= high'[u][c]
      BY <1>0 DEF TypeOK
    <2>2. QED BY <1>0, <2>1, QueryKept DEF WindowInv
  <1>4. QED BY <1>1, <1>2, <1>3 DEF WindowInv

\* One counter is loaded, and it is the number of its codec's sessions.
LEMMA LoadSlotWindow ==
    ASSUME IInv, IInv', WindowInv, NEW t \in Threads, LoadSlot(t)
    PROVE  WindowInv'
  <1>0. TypeOK /\ CountsMatchSessions /\ question[t] \in SUBSET Codecs
    BY DEF IInv, TypeOK
  <1>1. PICK c \in Slotted : question[t] = {c} /\ SlotOf(question[t]) = c
    BY <1>0, SlotOfMask DEF LoadSlot
  <1>2. total'[t] = counts[c] /\ pc'[t] = "answered" /\ low' = low /\ high' = high
    BY <1>0, <1>1 DEF LoadSlot, TypeOK
  <1>3. c \in Codecs /\ counts[c] = open[c]
    BY <1>0, <1>1, SlottedCodecs DEF CountsMatchSessions
  <1>4. low[t][c] <= open[c] /\ open[c] <= high[t][c]
    BY <1>3 DEF WindowInv, Windows
  <1>5. SumOf(low[t], {c}) = low[t][c] /\ SumOf(high[t], {c}) = high[t][c]
    <2>1. low[t][c] \in Int /\ high[t][c] \in Int
      BY <1>0, <1>3 DEF TypeOK
    <2>2. QED BY <2>1, SumOfOne
  <1>6. Asked(t)' = {c}
    <2>1. SlotOf(question[t]) # NoSlot /\ question' = question
      BY DEF LoadSlot
    <2>2. QED BY <1>1, <2>1 DEF Asked
  <1>7. Inside(t, Asked(t), total[t])'
    BY <1>2, <1>3, <1>4, <1>5, <1>6 DEF Inside
  <1>8. ScanInside(t)' /\ AnswerInside(t)'
    BY <1>2, <1>7 DEF ScanInside, AnswerInside
  <1>9. \A u \in Threads \ {t} :
            pc'[u] = pc[u] /\ unread'[u] = unread[u] /\ total'[u] = total[u]
    BY <1>0 DEF LoadSlot, TypeOK
  <1>10. QED BY <1>8, <1>9, QueryStep DEF LoadSlot

\* A counter more is loaded and added.  What it adds lies in the codec's window, and
\* the sum stays below the word.
LEMMA ScanCounterWindow ==
    ASSUME IInv, IInv', WindowInv, NEW t \in Threads, ScanCounter(t)
    PROVE  WindowInv'
  <1>0. TypeOK /\ CountsMatchSessions
    BY DEF IInv
  <1>1. PICK s \in unread[t] :
           /\ total' = [total EXCEPT ![t] = (@ + counts[s]) % Word]
           /\ unread' = [unread EXCEPT ![t] = @ \ {s}]
    BY DEF ScanCounter
  <1>2. /\ total[t] \in Nat /\ s \in Slots /\ counts[s] \in Nat
        /\ total'[t] = (total[t] + counts[s]) % Word
        /\ unread'[t] = unread[t] \ {s}
        /\ pc' = pc /\ question' = question /\ low' = low /\ high' = high
    BY <1>0, <1>1 DEF TypeOK, ScanCounter
  <1>3. Inside(t, Loaded(t), total[t])
    BY DEF ScanCounter, WindowInv, ScanInside
  <1>4. Loaded(t) \in SUBSET Codecs /\ Loaded(t)' \in SUBSET Codecs
    BY SlottedCodecs DEF Loaded, Slotted
  <1>5. /\ SumOf(low[t], Loaded(t)') <= total[t] + counts[s]
        /\ total[t] + counts[s] <= SumOf(high[t], Loaded(t)')
    <2>1. CASE s \in Slotted
      <3>1. s \in Codecs /\ counts[s] = open[s] /\ SlotOf({s}) = s
        BY <1>0, <2>1, SlottedCodecs DEF CountsMatchSessions
      <3>2. low[t][s] <= counts[s] /\ counts[s] <= high[t][s]
        BY <3>1 DEF WindowInv, Windows
      <3>3. s \in Loaded(t)' /\ Loaded(t)' \ {s} = Loaded(t)
        BY <1>1, <1>2, <2>1 DEF Loaded, Slotted
      <3>4. IsFiniteSet(Loaded(t)')
        BY <1>0, <1>4, SumsType
      <3>5. /\ \A c \in Loaded(t)' : low[t][c] \in Int
            /\ \A c \in Loaded(t)' : high[t][c] \in Int
        BY <1>0, <1>4 DEF TypeOK
      <3>6. SumOf(low[t], Loaded(t)') = low[t][s] + SumOf(low[t], Loaded(t))
        BY <3>3, <3>4, <3>5, SumSplit
      <3>7. SumOf(high[t], Loaded(t)') = high[t][s] + SumOf(high[t], Loaded(t))
        BY <3>3, <3>4, <3>5, SumSplit
      <3>8. SumOf(low[t], Loaded(t)) \in Int /\ SumOf(high[t], Loaded(t)) \in Int
        BY <1>0, <1>4, SumsType
      <3>9. low[t][s] \in Int /\ high[t][s] \in Int
        BY <1>0, <3>1 DEF TypeOK
      <3>10. QED BY <1>2, <1>3, <3>2, <3>6, <3>7, <3>8, <3>9 DEF Inside
    <2>2. CASE s \notin Slotted
      <3>1. counts[s] = 0
        BY <1>2, <2>2 DEF WindowInv, SpareSlots
      <3>2. Loaded(t)' = Loaded(t)
        BY <1>2, <2>2 DEF Loaded, Slotted
      <3>3. QED BY <1>2, <1>3, <3>1, <3>2 DEF Inside
    <2>3. QED BY <2>1, <2>2
  <1>6. total[t] + counts[s] < Word
    <2>1. \A c \in Codecs : high[t][c] \in Nat
      BY <1>0 DEF TypeOK
    <2>2. SumOf(high[t], Loaded(t)') <= SumOf(high[t], Codecs)
      BY <1>4, <2>1, RegistryAssumption, SumOfPart
    <2>3. SumOf(high[t], Codecs) <= opens
      BY DEF WindowInv, SumsBounded
    <2>4. opens \in Nat /\ opens <= MaxOpens /\ MaxOpens \in Nat /\ Word \in Nat /\ MaxOpens < Word
      BY <1>0, RegistryAssumption DEF TypeOK
    <2>5. SumOf(high[t], Loaded(t)') \in Int
      BY <1>0, <1>4, SumsType
    <2>6. SumOf(high[t], Codecs) \in Int
      BY <1>0, SumsType
    <2>7. QED BY <1>2, <1>5, <2>2, <2>3, <2>4, <2>5, <2>6
  <1>7. total'[t] = total[t] + counts[s]
    BY <1>2, <1>6, InWord
  <1>8. Inside(t, Loaded(t), total[t])'
    BY <1>2, <1>5, <1>7 DEF Inside
  <1>9. ScanInside(t)' /\ AnswerInside(t)'
    <2>1. pc'[t] = "active"
      BY <1>2 DEF ScanCounter
    <2>2. QED BY <1>8, <2>1 DEF ScanInside, AnswerInside
  <1>10. \A u \in Threads \ {t} :
            pc'[u] = pc[u] /\ unread'[u] = unread[u] /\ total'[u] = total[u]
    BY <1>0, <1>1, <1>2 DEF TypeOK
  <1>11. QED BY <1>9, <1>10, QueryStep DEF ScanCounter

\* A scan that has no counter left to load has loaded them all.
LEMMA ScanEndsWindow ==
    ASSUME IInv, IInv', WindowInv, NEW t \in Threads, ScanEnds(t)
    PROVE  WindowInv'
  <1>0. TypeOK
    BY DEF IInv
  <1>1. Inside(t, Loaded(t), total[t])
    BY DEF ScanEnds, WindowInv, ScanInside
  <1>2. Loaded(t) = Slotted /\ Asked(t)' = Slotted
    BY DEF ScanEnds, Loaded, Asked, Slotted
  <1>3. Inside(t, Asked(t), total[t])'
    BY <1>1, <1>2 DEF ScanEnds, Inside
  <1>4. pc'[t] = "answered"
    BY <1>0 DEF ScanEnds, TypeOK
  <1>5. ScanInside(t)' /\ AnswerInside(t)'
    BY <1>3, <1>4 DEF ScanInside, AnswerInside
  <1>6. \A u \in Threads \ {t} :
            pc'[u] = pc[u] /\ unread'[u] = unread[u] /\ total'[u] = total[u]
    BY <1>0 DEF ScanEnds, TypeOK
  <1>7. QED BY <1>5, <1>6, QueryStep DEF ScanEnds

LEMMA FinishWindow ==
    ASSUME IInv, IInv', WindowInv, NEW t \in Threads, Finish(t)
    PROVE  WindowInv'
  <1>0. TypeOK
    BY DEF IInv
  <1>1. pc'[t] = "idle"
    BY <1>0 DEF Finish, TypeOK
  <1>2. ScanInside(t)' /\ AnswerInside(t)'
    BY <1>1 DEF ScanInside, AnswerInside
  <1>3. \A u \in Threads \ {t} :
            pc'[u] = pc[u] /\ unread'[u] = unread[u] /\ total'[u] = total[u]
    BY <1>0 DEF Finish, TypeOK
  <1>4. QED BY <1>2, <1>3, QueryStep DEF Finish

LEMMA NextWindow == IInv /\ IInv' /\ WindowInv /\ [Next]_vars => WindowInv'
  <1> SUFFICES ASSUME IInv, IInv', WindowInv, [Next]_vars PROVE WindowInv'
    OBVIOUS
  <1>1. CASE \E c \in Codecs : Acquire(c) \/ Release(c)
    BY <1>1, AcquireWindow, ReleaseWindow
  <1>2. CASE \E t \in Threads : \E mask \in Questions : Ask(t, mask)
    BY <1>2, AskWindow
  <1>3. CASE \E t \in Threads : LoadSlot(t) \/ ScanCounter(t) \/ ScanEnds(t) \/ Finish(t)
    BY <1>3, LoadSlotWindow, ScanCounterWindow, ScanEndsWindow, FinishWindow
  <1>4. CASE UNCHANGED vars
    <2>1. TypeOK /\ TypeOK'
      BY DEF IInv
    <2>2. Windows' /\ SumsBounded'
      BY <1>4 DEF vars, WindowInv, Windows, SumsBounded
    <2>3. SpareSlots'
      BY <1>4 DEF vars, WindowInv, SpareSlots, Slots, Slotted
    <2>4. ASSUME NEW t \in Threads PROVE ScanInside(t)' /\ AnswerInside(t)'
      <3>1. \A c \in Codecs : low'[t][c] <= low[t][c] /\ high[t][c] <= high'[t][c]
        BY <1>4, <2>1 DEF vars, TypeOK
      <3>2. QED BY <1>4, <2>1, <3>1, QueryKept DEF vars, WindowInv
    <2>5. QED BY <2>2, <2>3, <2>4 DEF WindowInv
  <1>5. QED BY <1>1, <1>2, <1>3, <1>4 DEF Next

\* However a query overlaps with encoders that come and go, each codec it counts is
\* counted with a number of sessions the codec had at some moment of the query, and
\* the sum does not wrap.
THEOREM AnswersInWindow == Spec => []AnswerInWindow
  <1>1. WindowInv => AnswerInWindow
    <2>1. SUFFICES ASSUME WindowInv, NEW t \in Threads, pc[t] = "answered"
                   PROVE  InWindow(t, Asked(t), total[t])
      BY DEF AnswerInWindow, Asked
    <2>2. Inside(t, Asked(t), total[t])
      BY <2>1 DEF WindowInv, AnswerInside
    <2>3. QED BY <2>2, InWindowIsInside
  <1>2. QED BY <1>1, InitWindow, NextWindow, RegistryInvariant, PTL DEF Spec

\* What a query without a counter of its own is told: the sessions of all codecs
\* whose value is below slot_count, and of no other, whichever it asked about.
CountsAllCounters ==
    \A t \in Threads :
        pc[t] = "answered" /\ SlotOf(question[t]) = NoSlot =>
            InWindow(t, {c \in Codecs : 2 ^ c < SlotCount}, total[t])

\* However encoders come and go during it, a query of a mask, or of a codec past the
\* counters, is answered with all codecs that have a counter; sessions of a codec
\* whose value is slot_count or more are in no such answer, though it may be the codec
\* asked about (slot_of, and the loop of session_registry::active).
THEOREM UnslottedCountsAll == Spec => []CountsAllCounters
  <1>1. AnswerInWindow => CountsAllCounters
    <2>1. SUFFICES ASSUME AnswerInWindow, NEW t \in Threads,
                          pc[t] = "answered", SlotOf(question[t]) = NoSlot
                   PROVE  InWindow(t, {c \in Codecs : 2 ^ c < SlotCount}, total[t])
      BY DEF CountsAllCounters
    <2>2. InWindow(t, Slotted, total[t])
      BY <2>1 DEF AnswerInWindow
    <2>3. QED BY <2>2, SlottedByValue
  <1>2. QED BY <1>1, AnswersInWindow, PTL

\* A query that is under way, or answered, is of a mask that was asked.
QuestionsAsked == \A t \in Threads : pc[t] \in {"active", "answered"} => question[t] \in Questions

\* A client that asks about one codec at a time, and only about codecs that have a
\* counter, is told the sessions of the codec it asked about: what the run that
\* refutes CountsWhatIsAsked needs is a mask, or a codec past the counters
\* (session_registry::active, and slot_of).
THEOREM OneCodecQueries ==
    ASSUME \A mask \in Questions : \E c \in Slotted : mask = {c}
    PROVE  Spec => []CountsWhatIsAsked
  <1>1. Init => QuestionsAsked
    BY DEF Init, QuestionsAsked
  <1>2. IInv /\ QuestionsAsked /\ [Next]_vars => QuestionsAsked'
    <2> SUFFICES ASSUME IInv, QuestionsAsked, [Next]_vars PROVE QuestionsAsked'
      OBVIOUS
    <2>1. TypeOK
      BY DEF IInv
    <2>2. CASE UNCHANGED <<pc, question>>
      BY <2>2 DEF QuestionsAsked
    <2>3. ASSUME NEW t \in Threads, NEW mask \in Questions, Ask(t, mask) PROVE QuestionsAsked'
      BY <2>1, <2>3 DEF Ask, TypeOK, QuestionsAsked
    <2>4. ASSUME NEW t \in Threads, LoadSlot(t) \/ ScanEnds(t) \/ Finish(t)
          PROVE  QuestionsAsked'
      BY <2>1, <2>4 DEF LoadSlot, ScanEnds, Finish, TypeOK, QuestionsAsked
    <2>5. QED BY <2>2, <2>3, <2>4 DEF Next, Acquire, Release, ScanCounter, vars
  <1>3. QuestionsAsked /\ AnswerInWindow => CountsWhatIsAsked
    <2>1. SUFFICES ASSUME QuestionsAsked, AnswerInWindow, NEW t \in Threads,
                          pc[t] = "answered"
                   PROVE  InWindow(t, question[t], total[t])
      BY DEF CountsWhatIsAsked
    <2>2. PICK c \in Slotted : question[t] = {c}
      BY <2>1 DEF QuestionsAsked
    <2>3. SlotOf(question[t]) # NoSlot
      BY <2>2 DEF Slotted
    <2>4. QED BY <2>1, <2>3 DEF AnswerInWindow
  <1>4. QED BY <1>1, <1>2, <1>3, RegistryInvariant, AnswersInWindow, PTL DEF Spec
=============================================================================
