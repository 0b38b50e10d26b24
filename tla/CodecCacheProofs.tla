-------------------------- MODULE CodecCacheProofs --------------------------
(***************************************************************************)
(* Proofs about CodecCache, for any threads, codecs, capabilities and      *)
(* number of calls.  The inductive invariant adds to the properties what   *)
(* the mutex gives the code between find_if and push_back: the thread that *)
(* searches or probes is the holder, and the codec it probes for is still  *)
(* not in the vector.                                                      *)
(***************************************************************************)
EXTENDS CodecCache, TLAPS

Looking == {"find", "probe", "unlock"}
Holding == {"unlock", "read", "profiles"}

\* The threads between the guard's constructor and destructor are the holder.
HolderOnly == \A t \in Threads : pc[t] \in Looking => cache_mutex = t

\* What find_if missed is still missing when the probe is over.
MissStands == \A t \in Threads : pc[t] = "probe" => Cached(t) = {}

\* A thread has no pointer before its lookup is decided.
NoEarlyPointer ==
    \A t \in Threads : pc[t] \in {"lock", "find", "probe"} => details[t] = NoDetails

\* Only a lookup that found or filled an entry gets as far as a dereference.
ReadersPoint == \A t \in Threads : pc[t] \in {"read", "profiles"} => details[t].slot # 0

IInv ==
    /\ TypeOK
    /\ HolderOnly
    /\ MissStands
    /\ NoEarlyPointer
    /\ ReadersPoint
    /\ OneEntryPerCodec
    /\ PointerNamesCodec
    /\ NewestEntryLive

-----------------------------------------------------------------------------
\* Appending keeps the entries and puts the new one at the end.
LEMMA AppendEntry ==
    ASSUME NEW S, NEW s \in Seq(S), NEW e \in S
    PROVE  /\ Append(s, e) \in Seq(S)
           /\ Len(Append(s, e)) = Len(s) + 1
           /\ DOMAIN Append(s, e) = 1 .. Len(s) + 1
           /\ DOMAIN s = 1 .. Len(s)
           /\ Len(s) \in Nat
           /\ \A i \in DOMAIN s : Append(s, e)[i] = s[i]
           /\ Append(s, e)[Len(s) + 1] = e
  OBVIOUS

\* The variables keep their types: initially, and in every step.
LEMMA InitTypeOK == Init => TypeOK
  BY CacheAssumption DEF Init, TypeOK, Places, Queries, Pointers, Seen, NoDetails

LEMMA GrowType ==
    ASSUME TypeOK, Grow
    PROVE  buffer' \in Nat /\ capacity' \in Nat
  <1>1. CASE Len(cache) < capacity
    BY <1>1 DEF Grow, TypeOK
  <1>2. CASE ~(Len(cache) < capacity)
    BY <1>2 DEF Grow, TypeOK
  <1>3. QED BY <1>1, <1>2

\* A dereference after a successful lookup yields capabilities or garbage.
LEMMA ObservedType ==
    ASSUME TypeOK, PointerNamesCodec, ReadersPoint,
           NEW t \in Threads, pc[t] = "read"
    PROVE  Observed(t) \subseteq Seen
  <1>1. details[t].slot \in DOMAIN cache
    BY DEF PointerNamesCodec, ReadersPoint
  <1>2. cache[details[t].slot] \in Entries
    BY <1>1 DEF TypeOK
  <1>3. cache[details[t].slot].capabilities \in Capabilities
    BY <1>2 DEF Entries
  <1>4. QED BY <1>3 DEF Observed, Seen

LEMMA NextTypeOK == IInv /\ [Next]_vars => TypeOK'
  <1> SUFFICES ASSUME IInv, [Next]_vars PROVE TypeOK'
    OBVIOUS
  <1>0. TypeOK /\ PointerNamesCodec /\ ReadersPoint
    BY DEF IInv
  <1> USE <1>0 DEF TypeOK, Places, Queries, Pointers, NoDetails
  <1>1. ASSUME NEW t \in Threads, Call(t) PROVE TypeOK'
    BY <1>1, CacheAssumption DEF Call, Seen
  <1>2. ASSUME NEW t \in Threads, Lock(t) PROVE TypeOK'
    BY <1>2 DEF Lock
  <1>3. ASSUME NEW t \in Threads, FindHit(t) PROVE TypeOK'
    <2>1. \A i \in DOMAIN cache : i \in Nat
      OBVIOUS
    <2>2. QED BY <1>3, <2>1 DEF FindHit, Cached
  <1>4. ASSUME NEW t \in Threads, FindMiss(t) PROVE TypeOK'
    BY <1>4 DEF FindMiss
  <1>5. ASSUME NEW t \in Threads, ProbeFails(t) PROVE TypeOK'
    BY <1>5 DEF ProbeFails
  <1>6. ASSUME NEW t \in Threads, ProbeFills(t) PROVE TypeOK'
    <2>1. PICK found \in Capabilities :
             cache' = Append(cache, [codec |-> request[t].codec, capabilities |-> found])
      BY <1>6 DEF ProbeFills
    <2>2. [codec |-> request[t].codec, capabilities |-> found] \in Entries
      BY DEF Entries
    <2>3. cache' \in Seq(Entries) /\ Len(cache) + 1 \in Nat
      BY <2>1, <2>2, AppendEntry
    <2>4. buffer' \in Nat /\ capacity' \in Nat
      BY <1>6, GrowType DEF ProbeFills
    <2>5. QED BY <1>6, <2>3, <2>4 DEF ProbeFills
  <1>7. ASSUME NEW t \in Threads, ReturnError(t) PROVE TypeOK'
    BY <1>7 DEF ReturnError
  <1>8. ASSUME NEW t \in Threads, Unlock(t) PROVE TypeOK'
    BY <1>8 DEF Unlock
  <1>9. ASSUME NEW t \in Threads, CopyCapabilities(t) PROVE TypeOK'
    <2>1. Observed(t) \subseteq Seen
      BY <1>9, ObservedType DEF CopyCapabilities
    <2>2. QED BY <1>9, <2>1 DEF CopyCapabilities
  <1>10. ASSUME NEW t \in Threads, FormatUnknown(t) PROVE TypeOK'
    BY <1>10 DEF FormatUnknown
  <1>11. ASSUME NEW t \in Threads, ReadProfiles(t) PROVE TypeOK'
    <2>1. Observed(t) \subseteq Seen
      BY <1>11, ObservedType DEF ReadProfiles
    <2>2. QED BY <1>11, <2>1 DEF ReadProfiles
  <1>12. ASSUME NEW t \in Threads, FormatAnswered(t) PROVE TypeOK'
    BY <1>12 DEF FormatAnswered
  <1>13. ASSUME NEW t \in Threads, FormatUnsupported(t) PROVE TypeOK'
    BY <1>13 DEF FormatUnsupported
  <1>14. CASE UNCHANGED vars
    BY <1>14 DEF vars
  <1> QED
    BY <1>1, <1>2, <1>3, <1>4, <1>5, <1>6, <1>7, <1>8, <1>9, <1>10, <1>11, <1>12,
       <1>13, <1>14
       DEF Next, Step, Details, Use

\* The mutex: between constructor and destructor of the guard, one thread.
LEMMA NextHolderOnly == IInv /\ [Next]_vars => HolderOnly'
  <1> SUFFICES ASSUME IInv, [Next]_vars PROVE HolderOnly'
    OBVIOUS
  <1> USE DEF IInv, TypeOK, HolderOnly, Looking
  <1>0. \A t \in Threads : cache_mutex = NoThread => pc[t] \notin Looking
    BY CacheAssumption
  <1>1. ASSUME NEW t \in Threads, Lock(t) PROVE HolderOnly'
    BY <1>0, <1>1 DEF Lock
  <1>2. ASSUME NEW t \in Threads, ReturnError(t) \/ Unlock(t) PROVE HolderOnly'
    <2>1. \A u \in Threads : u # t => pc[u] \notin Looking
      BY <1>2 DEF ReturnError, Unlock
    <2>2. \A u \in Threads : u # t => pc'[u] = pc[u]
      BY <1>2 DEF ReturnError, Unlock
    <2>3. pc'[t] \notin Looking
      BY <1>2 DEF ReturnError, Unlock
    <2>4. QED BY <2>1, <2>2, <2>3
  <1>3. ASSUME NEW t \in Threads,
               FindHit(t) \/ FindMiss(t) \/ ProbeFails(t) \/ ProbeFills(t)
        PROVE HolderOnly'
    BY <1>3 DEF FindHit, FindMiss, ProbeFails, ProbeFills
  <1>4. ASSUME NEW t \in Threads, Call(t) \/ Use(t) PROVE HolderOnly'
    BY <1>4 DEF Call, Use, CopyCapabilities, FormatUnknown, ReadProfiles,
                FormatAnswered, FormatUnsupported
  <1>5. CASE UNCHANGED vars
    BY <1>5 DEF vars
  <1> QED
    BY <1>1, <1>2, <1>3, <1>4, <1>5 DEF Next, Step, Details

\* Only the holder appends, so what find_if missed cannot appear meanwhile.
LEMMA NextMissStands == IInv /\ [Next]_vars => MissStands'
  <1> SUFFICES ASSUME IInv, [Next]_vars PROVE MissStands'
    OBVIOUS
  <1> USE DEF IInv, TypeOK, MissStands, Cached
  <1>1. ASSUME NEW t \in Threads, Call(t) PROVE MissStands'
    BY <1>1 DEF Call
  <1>2. ASSUME NEW t \in Threads, FindMiss(t) PROVE MissStands'
    BY <1>2 DEF FindMiss
  <1>3. ASSUME NEW t \in Threads, ProbeFills(t) PROVE MissStands'
    <2>1. \A u \in Threads : pc[u] = "probe" => u = t
      BY <1>3 DEF HolderOnly, Looking, ProbeFills
    <2>2. \A u \in Threads : pc'[u] # "probe"
      BY <1>3, <2>1 DEF ProbeFills
    <2>3. QED BY <2>2
  <1>4. ASSUME NEW t \in Threads,
               Lock(t) \/ FindHit(t) \/ ProbeFails(t) \/ ReturnError(t) \/ Unlock(t) \/ Use(t)
        PROVE MissStands'
    BY <1>4 DEF Lock, FindHit, ProbeFails, ReturnError, Unlock, Use, CopyCapabilities,
                FormatUnknown, ReadProfiles, FormatAnswered, FormatUnsupported
  <1>5. CASE UNCHANGED vars
    BY <1>5 DEF vars
  <1> QED
    BY <1>1, <1>2, <1>3, <1>4, <1>5 DEF Next, Step, Details

\* The pointer is null until the lookup is decided, and is not null in a reader.
LEMMA NextPointerPhases == IInv /\ [Next]_vars => NoEarlyPointer' /\ ReadersPoint'
  <1> SUFFICES ASSUME IInv, [Next]_vars PROVE NoEarlyPointer' /\ ReadersPoint'
    OBVIOUS
  <1> USE DEF IInv, TypeOK, NoEarlyPointer, ReadersPoint, NoDetails
  <1>1. ASSUME NEW t \in Threads, Call(t) PROVE NoEarlyPointer' /\ ReadersPoint'
    BY <1>1 DEF Call
  <1>2. ASSUME NEW t \in Threads, Details(t) PROVE NoEarlyPointer' /\ ReadersPoint'
    BY <1>2 DEF Details, FindHit, FindMiss, ProbeFails, ProbeFills, ReturnError, Unlock
  <1>3. ASSUME NEW t \in Threads, Lock(t) \/ Use(t) PROVE NoEarlyPointer' /\ ReadersPoint'
    BY <1>3 DEF Lock, Use, CopyCapabilities, FormatUnknown, ReadProfiles,
                FormatAnswered, FormatUnsupported
  <1>4. CASE UNCHANGED vars
    BY <1>4 DEF vars
  <1> QED
    BY <1>1, <1>2, <1>3, <1>4 DEF Next, Step

\* Every step leaves the entries the vector has where they are; one step appends
\* one entry, of a codec that has none.
LEMMA CacheStep ==
    ASSUME IInv, [Next]_vars
    PROVE  \/ UNCHANGED <<cache, buffer, capacity>>
           \/ \E t \in Threads, e \in Entries :
                 /\ ProbeFills(t)
                 /\ e.codec = request[t].codec
                 /\ cache' = Append(cache, e)
                 /\ Cached(t) = {}
  <1>1. ASSUME NEW t \in Threads, ProbeFills(t)
        PROVE \E e \in Entries :
                 /\ e.codec = request[t].codec
                 /\ cache' = Append(cache, e)
                 /\ Cached(t) = {}
    <2>1. PICK found \in Capabilities :
             cache' = Append(cache, [codec |-> request[t].codec, capabilities |-> found])
      BY <1>1 DEF ProbeFills
    <2>2. [codec |-> request[t].codec, capabilities |-> found] \in Entries
      BY DEF Entries, IInv, TypeOK
    <2>3. Cached(t) = {}
      BY <1>1 DEF ProbeFills, IInv, MissStands
    <2>4. QED BY <2>1, <2>2, <2>3
  <1>2. ASSUME NEW t \in Threads, Call(t) \/ Lock(t) \/ Use(t)
        PROVE UNCHANGED <<cache, buffer, capacity>>
    BY <1>2 DEF Call, Lock, Use, CopyCapabilities, FormatUnknown, ReadProfiles,
                FormatAnswered, FormatUnsupported
  <1>3. ASSUME NEW t \in Threads,
               FindHit(t) \/ FindMiss(t) \/ ProbeFails(t) \/ ReturnError(t) \/ Unlock(t)
        PROVE UNCHANGED <<cache, buffer, capacity>>
    BY <1>3 DEF FindHit, FindMiss, ProbeFails, ReturnError, Unlock
  <1>4. CASE UNCHANGED vars
    BY <1>4 DEF vars
  <1> QED
    BY <1>1, <1>2, <1>3, <1>4 DEF Next, Step, Details

LEMMA EntriesStay ==
    ASSUME IInv, [Next]_vars
    PROVE  \A i \in DOMAIN cache : i \in DOMAIN cache' /\ cache'[i] = cache[i]
  <1>1. CASE UNCHANGED <<cache, buffer, capacity>>
    BY <1>1
  <1>2. ASSUME NEW e \in Entries, cache' = Append(cache, e)
        PROVE \A i \in DOMAIN cache : i \in DOMAIN cache' /\ cache'[i] = cache[i]
    <2>1. cache \in Seq(Entries)
      BY DEF IInv, TypeOK
    <2>2. DOMAIN cache' = 1 .. Len(cache) + 1 /\ DOMAIN cache = 1 .. Len(cache) /\ Len(cache) \in Nat
      BY <1>2, <2>1, AppendEntry
    <2>3. \A i \in DOMAIN cache : cache'[i] = cache[i]
      BY <1>2, <2>1, AppendEntry
    <2>4. QED BY <2>2, <2>3
  <1> QED
    BY <1>1, <1>2, CacheStep

\* Two misses on one codec cannot both append: the second finds the first's entry.
LEMMA NextOneEntry == IInv /\ [Next]_vars => OneEntryPerCodec'
  <1> SUFFICES ASSUME IInv, [Next]_vars PROVE OneEntryPerCodec'
    OBVIOUS
  <1>1. CASE UNCHANGED <<cache, buffer, capacity>>
    BY <1>1 DEF IInv, OneEntryPerCodec
  <1>2. ASSUME NEW t \in Threads, NEW e \in Entries,
               e.codec = request[t].codec, cache' = Append(cache, e), Cached(t) = {}
        PROVE OneEntryPerCodec'
    <2>1. /\ DOMAIN cache' = 1 .. Len(cache) + 1
          /\ DOMAIN cache = 1 .. Len(cache)
          /\ Len(cache) \in Nat
          /\ \A i \in DOMAIN cache : cache'[i] = cache[i]
          /\ cache'[Len(cache) + 1] = e
      BY <1>2, AppendEntry DEF IInv, TypeOK
    <2>2. \A i \in DOMAIN cache : cache[i].codec # e.codec
      BY <1>2 DEF Cached
    <2>3. SUFFICES ASSUME NEW i \in DOMAIN cache', NEW j \in DOMAIN cache',
                          cache'[i].codec = cache'[j].codec
                   PROVE i = j
      BY DEF OneEntryPerCodec
    <2>4. CASE i \in DOMAIN cache /\ j \in DOMAIN cache
      BY <2>1, <2>3, <2>4 DEF IInv, OneEntryPerCodec
    <2>5. CASE i \notin DOMAIN cache \/ j \notin DOMAIN cache
      <3>1. i = Len(cache) + 1 \/ j = Len(cache) + 1
        BY <2>1, <2>5
      <3>2. QED BY <2>1, <2>2, <2>3, <3>1
    <2>6. QED BY <2>4, <2>5
  <1> QED
    BY <1>1, <1>2, CacheStep

\* A pointer keeps naming its codec's entry, since entries stay where they are.
LEMMA NextPointerNames == IInv /\ [Next]_vars => PointerNamesCodec'
  <1> SUFFICES ASSUME IInv, [Next]_vars PROVE PointerNamesCodec'
    OBVIOUS
  <1>0. \A i \in DOMAIN cache : i \in DOMAIN cache' /\ cache'[i] = cache[i]
    BY EntriesStay
  <1> USE DEF IInv, TypeOK, PointerNamesCodec, NoEarlyPointer, NoDetails
  <1>1. ASSUME NEW t \in Threads, Call(t) PROVE PointerNamesCodec'
    BY <1>1 DEF Call
  <1>2. ASSUME NEW t \in Threads, FindHit(t) PROVE PointerNamesCodec'
    BY <1>2 DEF FindHit, Cached
  <1>3. ASSUME NEW t \in Threads, ProbeFills(t) PROVE PointerNamesCodec'
    <2>1. PICK found \in Capabilities :
             cache' = Append(cache, [codec |-> request[t].codec, capabilities |-> found])
      BY <1>3 DEF ProbeFills
    <2>2. [codec |-> request[t].codec, capabilities |-> found] \in Entries
      BY DEF Entries
    <2>3. /\ Len(cache) + 1 \in DOMAIN cache'
          /\ cache'[Len(cache) + 1].codec = request[t].codec
      BY <2>1, <2>2, AppendEntry
    <2>4. QED BY <1>0, <1>3, <2>3 DEF ProbeFills
  <1>4. ASSUME NEW t \in Threads,
               FindMiss(t) \/ ProbeFails(t) \/ ReturnError(t) \/ Unlock(t) \/ Lock(t)
        PROVE PointerNamesCodec'
    BY <1>4 DEF FindMiss, ProbeFails, ReturnError, Unlock, Lock
  <1>5. ASSUME NEW t \in Threads, Use(t) PROVE PointerNamesCodec'
    BY <1>5 DEF Use, CopyCapabilities, FormatUnknown, ReadProfiles,
                FormatAnswered, FormatUnsupported
  <1>6. CASE UNCHANGED vars
    BY <1>6 DEF vars
  <1> QED
    BY <1>1, <1>2, <1>3, <1>4, <1>5, <1>6 DEF Next, Step, Details

\* An append may free the buffer, but then no older pointer is to the newest entry.
LEMMA NextNewestLive == IInv /\ [Next]_vars => NewestEntryLive'
  <1> SUFFICES ASSUME IInv, [Next]_vars PROVE NewestEntryLive'
    OBVIOUS
  <1> USE DEF IInv, TypeOK, NewestEntryLive, NoEarlyPointer, NoDetails, Live
  <1>1. ASSUME NEW t \in Threads, Call(t) PROVE NewestEntryLive'
    BY <1>1 DEF Call
  <1>2. ASSUME NEW t \in Threads, FindHit(t) PROVE NewestEntryLive'
    BY <1>2 DEF FindHit
  <1>3. ASSUME NEW t \in Threads, ProbeFills(t) PROVE NewestEntryLive'
    <2>1. Len(cache') = Len(cache) + 1 /\ Len(cache) \in Nat /\ DOMAIN cache = 1 .. Len(cache)
      BY <1>3 DEF ProbeFills
    <2>2. SUFFICES ASSUME NEW u \in Threads,
                          pc'[u] \in Holding, details'[u].slot # 0,
                          details'[u].slot = Len(cache')
                   PROVE details'[u].buffer = buffer'
      BY DEF Holding
    <2>3. CASE u = t
      BY <1>3, <2>3 DEF ProbeFills
    <2>4. CASE u # t
      <3>1. details'[u] = details[u] /\ pc'[u] = pc[u]
        BY <1>3, <2>4 DEF ProbeFills
      <3>2. details[u].slot \in DOMAIN cache
        BY <2>2, <3>1 DEF PointerNamesCodec, Holding
      <3>3. QED BY <2>1, <2>2, <3>1, <3>2
    <2>5. QED BY <2>3, <2>4
  <1>4. ASSUME NEW t \in Threads,
               FindMiss(t) \/ ProbeFails(t) \/ ReturnError(t) \/ Unlock(t) \/ Lock(t)
        PROVE NewestEntryLive'
    <2>1. UNCHANGED <<details, cache, buffer>>
      BY <1>4 DEF FindMiss, ProbeFails, ReturnError, Unlock, Lock
    <2>2. \A u \in Threads : pc'[u] \in Holding /\ details[u].slot # 0 => pc[u] \in Holding
      BY <1>4 DEF FindMiss, ProbeFails, ReturnError, Unlock, Lock, Holding
    <2>3. QED BY <2>1, <2>2 DEF Holding
  <1>5. ASSUME NEW t \in Threads, Use(t) PROVE NewestEntryLive'
    BY <1>5 DEF Use, CopyCapabilities, FormatUnknown, ReadProfiles,
                FormatAnswered, FormatUnsupported
  <1>6. CASE UNCHANGED vars
    BY <1>6 DEF vars
  <1> QED
    BY <1>1, <1>2, <1>3, <1>4, <1>5, <1>6 DEF Next, Step, Details

-----------------------------------------------------------------------------
LEMMA InitIInv == Init => IInv
  <1> SUFFICES ASSUME Init PROVE IInv
    OBVIOUS
  <1>1. TypeOK
    BY InitTypeOK
  <1>2. DOMAIN cache = {}
    BY DEF Init
  <1>3. OneEntryPerCodec
    BY <1>2 DEF OneEntryPerCodec
  <1>4. HolderOnly /\ MissStands /\ NoEarlyPointer /\ ReadersPoint
    BY DEF Init, HolderOnly, MissStands, NoEarlyPointer, ReadersPoint, Looking
  <1>5. PointerNamesCodec /\ NewestEntryLive
    BY DEF Init, PointerNamesCodec, NewestEntryLive
  <1>6. QED BY <1>1, <1>3, <1>4, <1>5 DEF IInv

LEMMA NextIInv == IInv /\ [Next]_vars => IInv'
  <1> SUFFICES ASSUME IInv, [Next]_vars PROVE IInv'
    OBVIOUS
  <1>1. TypeOK'
    BY NextTypeOK
  <1>2. HolderOnly' /\ MissStands'
    BY NextHolderOnly, NextMissStands
  <1>3. NoEarlyPointer' /\ ReadersPoint'
    BY NextPointerPhases
  <1>4. OneEntryPerCodec' /\ PointerNamesCodec' /\ NewestEntryLive'
    BY NextOneEntry, NextPointerNames, NextNewestLive
  <1>5. QED BY <1>1, <1>2, <1>3, <1>4 DEF IInv

\* Who holds the mutex, and what the search found, in every reachable state.
THEOREM CacheInvariant == Spec => []IInv
  BY InitIInv, NextIInv, PTL DEF Spec

\* The variables keep their types in every reachable state.
THEOREM TypeCorrect == Spec => []TypeOK
  <1>1. IInv => TypeOK
    BY DEF IInv
  <1>2. QED BY <1>1, CacheInvariant, PTL

\* codec_details probes a codec that answers once, whatever threads race for it.
THEOREM EachCodecCachedOnce == Spec => []OneEntryPerCodec
  <1>1. IInv => OneEntryPerCodec
    BY DEF IInv
  <1>2. QED BY <1>1, CacheInvariant, PTL

\* A pointer codec_details handed out names the codec asked about for as long as
\* it is used, and it is live as long as no entry has been appended after its own.
THEOREM PointersNameTheirCodec == Spec => [](PointerNamesCodec /\ NewestEntryLive)
  <1>1. IInv => PointerNamesCodec /\ NewestEntryLive
    BY DEF IInv
  <1>2. QED BY <1>1, CacheInvariant, PTL

\* No query changes, moves or drops an entry that is in the vector.
THEOREM CacheOnlyGrows == Spec => EntriesKept
  <1>1. IInv /\ [Next]_vars =>
          [\A i \in DOMAIN cache : i \in DOMAIN cache' /\ cache'[i] = cache[i]]_vars
    BY EntriesStay
  <1>2. QED BY <1>1, CacheInvariant, PTL DEF Spec, EntriesKept

-----------------------------------------------------------------------------
(***************************************************************************)
(* Where AnswersAreCached does hold: a run in which every dereference is   *)
(* of a live pointer.  Clients of one codec and clients of one thread have *)
(* only such runs; a client of two threads and two codecs does not.        *)
(***************************************************************************)
ReadsLive == \A t \in Threads : pc[t] = "read" => Live(t)

\* The vector holds capabilities v for codec c.
Knows(vector, c, v) ==
    \E i \in DOMAIN vector : vector[i].codec = c /\ vector[i].capabilities = v

\* What a thread returned, or goes by in query_format, is cached for its codec.
Truthful(place, ask, result, read, vector) ==
    /\ place = "idle" /\ result \notin {NoAnswer, Failed} => Knows(vector, ask.codec, result)
    /\ place = "profiles" => Knows(vector, ask.codec, read)

AllTruthful ==
    \A t \in Threads : Truthful(pc[t], request[t], answer[t], reading[t], cache)

LEMMA TruthfulAnswers == AllTruthful => AnswersAreCached
  BY DEF AllTruthful, Truthful, Knows, AnswersAreCached, Cached

\* What a live dereference yields is cached for the codec asked about.
LEMMA LiveObserved ==
    ASSUME IInv, ReadsLive, NEW t \in Threads, pc[t] = "read", NEW seen \in Observed(t)
    PROVE  Knows(cache, request[t].codec, seen)
  <1>1. seen = cache[details[t].slot].capabilities
    BY DEF ReadsLive, Observed
  <1>2. /\ details[t].slot \in DOMAIN cache
        /\ cache[details[t].slot].codec = request[t].codec
    BY DEF IInv, PointerNamesCodec, ReadersPoint
  <1>3. QED BY <1>1, <1>2 DEF Knows

\* A step that leaves a thread's query and results alone leaves them truthful.
LEMMA TruthfulKept ==
    ASSUME IInv, [Next]_vars, AllTruthful, NEW t \in Threads,
           pc'[t] \notin {"idle", "profiles"} \/ pc'[t] = pc[t],
           request'[t] = request[t] \/ pc'[t] \notin {"idle", "profiles"},
           answer'[t] = answer[t] \/ pc'[t] # "idle",
           reading'[t] = reading[t] \/ pc'[t] # "profiles"
    PROVE  Truthful(pc'[t], request'[t], answer'[t], reading'[t], cache')
  <1>1. \A c, v : Knows(cache, c, v) => Knows(cache', c, v)
    BY EntriesStay DEF Knows
  <1>2. Truthful(pc[t], request[t], answer[t], reading[t], cache)
    BY DEF AllTruthful
  <1>3. QED BY <1>1, <1>2 DEF Truthful

LEMMA NextAnswers ==
    ASSUME IInv, ReadsLive, AllTruthful, [Next]_vars
    PROVE  AllTruthful'
  <1>1. SUFFICES ASSUME NEW t \in Threads
                 PROVE  Truthful(pc'[t], request'[t], answer'[t], reading'[t], cache')
    BY DEF AllTruthful
  <1> DEFINE Goal == Truthful(pc'[t], request'[t], answer'[t], reading'[t], cache')
  <1>2. Truthful(pc[t], request[t], answer[t], reading[t], cache)
    BY DEF AllTruthful
  <1>3. TypeOK
    BY DEF IInv
  <1>4. ASSUME NEW u \in Threads, CopyCapabilities(u) PROVE Goal
    <2>1. CASE u = t
      <3>1. PICK seen \in Observed(t) : answer' = [answer EXCEPT ![t] = seen]
        BY <1>4, <2>1 DEF CopyCapabilities
      <3>2. Knows(cache, request[t].codec, seen)
        BY <1>4, <2>1, LiveObserved DEF CopyCapabilities
      <3>3. /\ pc'[t] = "idle" /\ answer'[t] = seen
            /\ request' = request /\ cache' = cache
        BY <1>3, <1>4, <2>1, <3>1 DEF CopyCapabilities, TypeOK
      <3>4. QED BY <3>2, <3>3 DEF Truthful
    <2>2. CASE u # t
      BY <1>3, <1>4, <2>2, TruthfulKept DEF CopyCapabilities, TypeOK
    <2>3. QED BY <2>1, <2>2
  <1>5. ASSUME NEW u \in Threads, ReadProfiles(u) PROVE Goal
    <2>1. CASE u = t
      <3>1. PICK seen \in Observed(t) : reading' = [reading EXCEPT ![t] = seen]
        BY <1>5, <2>1 DEF ReadProfiles
      <3>2. Knows(cache, request[t].codec, seen)
        BY <1>5, <2>1, LiveObserved DEF ReadProfiles
      <3>3. /\ pc'[t] = "profiles" /\ reading'[t] = seen
            /\ request' = request /\ cache' = cache
        BY <1>3, <1>5, <2>1, <3>1 DEF ReadProfiles, TypeOK
      <3>4. QED BY <3>2, <3>3 DEF Truthful
    <2>2. CASE u # t
      BY <1>3, <1>5, <2>2, TruthfulKept DEF ReadProfiles, TypeOK
    <2>3. QED BY <2>1, <2>2
  <1>6. ASSUME NEW u \in Threads, FormatAnswered(u) PROVE Goal
    <2>1. CASE u = t
      BY <1>2, <1>3, <1>6, <2>1 DEF FormatAnswered, TypeOK, Truthful
    <2>2. CASE u # t
      BY <1>3, <1>6, <2>2, TruthfulKept DEF FormatAnswered, TypeOK
    <2>3. QED BY <2>1, <2>2
  <1>7. ASSUME NEW u \in Threads,
               FormatUnknown(u) \/ FormatUnsupported(u) \/ ReturnError(u)
        PROVE Goal
    <2>1. CASE u = t
      BY <1>3, <1>7, <2>1 DEF FormatUnknown, FormatUnsupported, ReturnError, TypeOK, Truthful
    <2>2. CASE u # t
      BY <1>3, <1>7, <2>2, TruthfulKept
         DEF FormatUnknown, FormatUnsupported, ReturnError, TypeOK
    <2>3. QED BY <2>1, <2>2
  <1>8. ASSUME NEW u \in Threads,
               Call(u) \/ Lock(u) \/ FindHit(u) \/ FindMiss(u) \/ ProbeFails(u)
        PROVE Goal
    BY <1>3, <1>8, TruthfulKept DEF Call, Lock, FindHit, FindMiss, ProbeFails, TypeOK
  <1>9. ASSUME NEW u \in Threads, ProbeFills(u) \/ Unlock(u) PROVE Goal
    BY <1>3, <1>9, TruthfulKept DEF ProbeFills, Unlock, TypeOK
  <1>10. CASE UNCHANGED vars
    BY <1>10, TruthfulKept DEF vars
  <1> QED
    BY <1>4, <1>5, <1>6, <1>7, <1>8, <1>9, <1>10 DEF Next, Step, Details, Use

LEMMA InitAnswers == Init => AllTruthful
  BY DEF Init, AllTruthful, Truthful

\* With one codec the vector has at most one entry and never moves under a reader.
LEMMA OneCodecReadsLive ==
    ASSUME IInv, \A c, d \in Codecs : c = d
    PROVE  ReadsLive
  <1>1. SUFFICES ASSUME NEW t \in Threads, pc[t] = "read" PROVE Live(t)
    BY DEF ReadsLive
  <1>2. details[t].slot \in DOMAIN cache
    BY <1>1 DEF IInv, PointerNamesCodec, ReadersPoint
  <1>3. \A i, j \in DOMAIN cache : i = j
    <2>0. \A i \in DOMAIN cache : cache[i] \in Entries
      BY DEF IInv, TypeOK
    <2>1. \A i \in DOMAIN cache : cache[i].codec \in Codecs
      BY <2>0 DEF Entries
    <2>2. QED BY <2>1 DEF IInv, OneEntryPerCodec
  <1>4. Len(cache) \in DOMAIN cache
    BY <1>2 DEF IInv, TypeOK
  <1>5. details[t].slot = Len(cache)
    BY <1>2, <1>3, <1>4
  <1>6. QED BY <1>1, <1>5 DEF IInv, NewestEntryLive, ReadersPoint

\* A client that asks about one codec only, from any number of threads, gets the
\* cached capabilities every time: the unlocked dereference is harmless to it.
THEOREM OneCodecClient ==
    ASSUME \A c, d \in Codecs : c = d
    PROVE  Spec => []AnswersAreCached
  <1> DEFINE Good == AllTruthful
  <1>1. Init => Good
    BY InitAnswers
  <1>2. IInv /\ Good /\ [Next]_vars => Good'
    BY NextAnswers, OneCodecReadsLive
  <1>3. Good => AnswersAreCached
    BY TruthfulAnswers
  <1> HIDE DEF Good
  <1>4. QED BY <1>1, <1>2, <1>3, CacheInvariant, PTL DEF Spec

\* A thread alone is never between its lookup and its read while another appends.
SoloLive ==
    \A t \in Threads : pc[t] \in {"unlock", "read"} /\ details[t].slot # 0 => Live(t)

LEMMA NextSoloLive ==
    ASSUME \A t, u \in Threads : t = u, IInv, SoloLive, [Next]_vars
    PROVE  SoloLive'
  <1> USE DEF IInv, TypeOK, SoloLive, NoEarlyPointer, NoDetails, Live
  <1>1. ASSUME NEW t \in Threads, Call(t) \/ Lock(t) \/ Use(t) PROVE SoloLive'
    BY <1>1 DEF Call, Lock, Use, CopyCapabilities, FormatUnknown, ReadProfiles,
                FormatAnswered, FormatUnsupported
  <1>2. ASSUME NEW t \in Threads, FindHit(t) PROVE SoloLive'
    BY <1>2 DEF FindHit
  <1>3. ASSUME NEW t \in Threads, ProbeFills(t) PROVE SoloLive'
    BY <1>3 DEF ProbeFills
  <1>4. ASSUME NEW t \in Threads, FindMiss(t) \/ ProbeFails(t) \/ ReturnError(t) \/ Unlock(t)
        PROVE SoloLive'
    BY <1>4 DEF FindMiss, ProbeFails, ReturnError, Unlock
  <1>5. CASE UNCHANGED vars
    BY <1>5 DEF vars
  <1> QED
    BY <1>1, <1>2, <1>3, <1>4, <1>5 DEF Next, Step, Details

\* A client that queries from one thread gets the cached capabilities every time,
\* whatever codecs it asks about: no sequential test can meet the dead pointer.
THEOREM OneThreadClient ==
    ASSUME \A t, u \in Threads : t = u
    PROVE  Spec => []AnswersAreCached
  <1> DEFINE Good == SoloLive /\ AllTruthful
  <1>1. Init => Good
    BY InitAnswers DEF Init, SoloLive
  <1>2. IInv /\ Good /\ [Next]_vars => Good'
    <2>1. IInv /\ SoloLive => ReadsLive
      BY DEF IInv, SoloLive, ReadersPoint, ReadsLive
    <2>2. QED BY <2>1, NextSoloLive, NextAnswers
  <1>3. Good => AnswersAreCached
    BY TruthfulAnswers
  <1> HIDE DEF Good
  <1>4. QED BY <1>1, <1>2, <1>3, CacheInvariant, PTL DEF Spec

-----------------------------------------------------------------------------
(***************************************************************************)
(* CodecCache implements MemoCells: a step of codec_details is a step of   *)
(* the memo cell it decides, and every other step is a stutter or the      *)
(* return of the query.                                                    *)
(***************************************************************************)
CellsFollowEntries ==
    \A i \in DOMAIN cache : CellOf(cache[i].codec) = cache[i].capabilities

LEMMA CellOfEntry == OneEntryPerCodec => CellsFollowEntries
  <1> SUFFICES ASSUME OneEntryPerCodec, NEW i \in DOMAIN cache
               PROVE  CellOf(cache[i].codec) = cache[i].capabilities
    BY DEF CellsFollowEntries
  <1> DEFINE j == CHOOSE k \in DOMAIN cache : cache[k].codec = cache[i].codec
  <1>1. j \in DOMAIN cache /\ cache[j].codec = cache[i].codec
    OBVIOUS
  <1>2. j = i
    BY <1>1 DEF OneEntryPerCodec
  <1>3. CellOf(cache[i].codec) = cache[j].capabilities
    BY DEF CellOf
  <1>4. QED BY <1>2, <1>3

LEMMA CellOfMissing ==
    ASSUME NEW c, \A i \in DOMAIN cache : cache[i].codec # c
    PROVE  CellOf(c) = NoAnswer
  BY DEF CellOf

LEMMA InitRefines == Init => Memo!MemoInit
  <1> SUFFICES ASSUME Init PROVE Memo!MemoInit
    OBVIOUS
  <1>1. \A c \in Codecs : CellOf(c) = NoAnswer
    BY CellOfMissing DEF Init
  <1>2. \A t \in Threads : request[t].codec \in Codecs
    BY DEF Init
  <1>3. \A t \in Threads : HandedTo(t) = NoAnswer
    BY DEF Init, HandedTo
  <1>4. QED BY <1>1, <1>2, <1>3 DEF Memo!MemoInit, Cells, Asked, Handed

\* A step that leaves the vector alone leaves the cells alone.
LEMMA CellsKept ==
    ASSUME cache' = cache
    PROVE  Cells' = Cells
  BY DEF Cells, CellOf

\* A thread whose lookup has an entry has been handed capabilities.
LEMMA HandedEntry ==
    ASSUME IInv, NEW t \in Threads, pc[t] \in {"unlock", "read"}
    PROVE  HandedTo(t) # NoAnswer
  <1>1. CASE details[t].slot = 0
    BY <1>1, CacheAssumption DEF HandedTo
  <1>2. CASE details[t].slot # 0
    <2>1. details[t].slot \in DOMAIN cache
      BY <1>2 DEF IInv, PointerNamesCodec
    <2>2. cache[details[t].slot] \in Entries
      BY <2>1 DEF IInv, TypeOK
    <2>3. cache[details[t].slot].capabilities # NoAnswer
      BY <2>2, CacheAssumption DEF Entries
    <2>4. QED BY <1>2, <2>3 DEF HandedTo
  <1>3. QED BY <1>1, <1>2

\* What the other threads have been handed does not change when one thread moves.
LEMMA OthersHanded ==
    ASSUME IInv, [Next]_vars, NEW u \in Threads,
           pc'[u] = pc[u], details'[u] = details[u]
    PROVE  HandedTo(u)' = HandedTo(u)
  <1>1. CASE pc[u] \in {"unlock", "read"} /\ details[u].slot # 0
    <2>1. details[u].slot \in DOMAIN cache
      BY <1>1 DEF IInv, PointerNamesCodec
    <2>2. cache'[details[u].slot] = cache[details[u].slot]
      BY <2>1, EntriesStay
    <2>3. QED BY <2>2 DEF HandedTo
  <1>2. CASE ~(pc[u] \in {"unlock", "read"} /\ details[u].slot # 0)
    BY <1>2 DEF HandedTo
  <1>3. QED BY <1>1, <1>2

\* One thread moves: only its own hand changes.
LEMMA HandedStep ==
    ASSUME IInv, [Next]_vars, NEW t \in Threads,
           \A u \in Threads : u # t => pc'[u] = pc[u] /\ details'[u] = details[u]
    PROVE  Handed' = [Handed EXCEPT ![t] = HandedTo(t)']
  BY OthersHanded DEF Handed

LEMMA NextRefines ==
    ASSUME IInv, [Next]_vars
    PROVE  [Memo!MemoNext]_<<Cells, Asked, Handed>>
  <1> DEFINE mapped == <<Cells, Asked, Handed>>
  <1>0. TypeOK
    BY DEF IInv
  <1>1. ASSUME NEW t \in Threads, Call(t) PROVE \E c \in Codecs : Memo!Ask(t, c)
    <2>1. PICK q \in Queries, c \in Codecs :
             request' = [request EXCEPT ![t] = [query |-> q, codec |-> c]]
      BY <1>1 DEF Call
    <2>2. Asked' = [Asked EXCEPT ![t] = c]
      BY <1>0, <2>1 DEF Asked, TypeOK
    <2>3. HandedTo(t) = NoAnswer /\ HandedTo(t)' = NoAnswer
      BY <1>0, <1>1 DEF Call, HandedTo, TypeOK
    <2>4. \A u \in Threads : u # t => pc'[u] = pc[u] /\ details'[u] = details[u]
      BY <1>0, <1>1 DEF Call, TypeOK
    <2>5. Handed' = [Handed EXCEPT ![t] = HandedTo(t)']
      BY <2>4, HandedStep
    <2>6. Handed' = Handed /\ Handed[t] = NoAnswer
      BY <2>3, <2>5 DEF Handed
    <2>7. Cells' = Cells
      BY <1>1, CellsKept DEF Call
    <2>8. QED BY <2>2, <2>6, <2>7 DEF Memo!Ask
  <1>2. ASSUME NEW t \in Threads, FindHit(t) PROVE Memo!Hit(t)
    <2>1. PICK i \in Cached(t) :
             details' = [details EXCEPT ![t] = [buffer |-> buffer, slot |-> i]]
      BY <1>2 DEF FindHit
    <2>2. i \in DOMAIN cache /\ cache[i].codec = request[t].codec /\ i # 0
      BY <1>0, <2>1 DEF Cached, TypeOK
    <2>3. CellOf(request[t].codec) = cache[i].capabilities
      BY <2>2, CellOfEntry DEF IInv, CellsFollowEntries
    <2>4. cache[i].capabilities # NoAnswer /\ request[t].codec \in Codecs
      <3>1. cache[i] \in Entries
        BY <1>0, <2>2 DEF TypeOK
      <3>2. QED BY <1>0, <3>1, CacheAssumption DEF Entries, TypeOK
    <2>5. HandedTo(t) = NoAnswer /\ HandedTo(t)' = cache[i].capabilities
      BY <1>0, <1>2, <2>1, <2>2 DEF FindHit, HandedTo, TypeOK
    <2>6. \A u \in Threads : u # t => pc'[u] = pc[u] /\ details'[u] = details[u]
      BY <1>0, <1>2, <2>1 DEF FindHit, TypeOK
    <2>7. Handed' = [Handed EXCEPT ![t] = HandedTo(t)']
      BY <2>6, HandedStep
    <2>8. Cells' = Cells /\ Asked' = Asked
      BY <1>2, CellsKept DEF FindHit, Asked
    <2>9. Cells[Asked[t]] = cache[i].capabilities /\ Handed[t] = NoAnswer
      BY <2>3, <2>4, <2>5 DEF Cells, Asked, Handed
    <2>10. QED BY <2>4, <2>5, <2>7, <2>8, <2>9 DEF Memo!Hit
  <1>3. ASSUME NEW t \in Threads, ProbeFails(t) PROVE Memo!Miss(t)
    <2>1. HandedTo(t) = NoAnswer /\ HandedTo(t)' = Failed
      BY <1>0, <1>3 DEF ProbeFails, HandedTo, TypeOK, IInv, NoEarlyPointer, NoDetails
    <2>2. \A u \in Threads : u # t => pc'[u] = pc[u] /\ details'[u] = details[u]
      BY <1>0, <1>3 DEF ProbeFails, TypeOK
    <2>3. Handed' = [Handed EXCEPT ![t] = HandedTo(t)']
      BY <2>2, HandedStep
    <2>4. CellOf(request[t].codec) = NoAnswer /\ request[t].codec \in Codecs
      BY <1>0, <1>3, CellOfMissing DEF ProbeFails, IInv, MissStands, Cached, TypeOK
    <2>5. Cells' = Cells /\ Asked' = Asked
      BY <1>3, CellsKept DEF ProbeFails, Asked
    <2>6. Cells[Asked[t]] = NoAnswer /\ Handed[t] = NoAnswer
      BY <2>1, <2>4 DEF Cells, Asked, Handed
    <2>7. QED BY <2>1, <2>3, <2>5, <2>6 DEF Memo!Miss
  <1>4. ASSUME NEW t \in Threads, ProbeFills(t) PROVE Memo!Fill(t)
    <2> DEFINE codec == request[t].codec
    <2>1. PICK found \in Capabilities :
             cache' = Append(cache, [codec |-> codec, capabilities |-> found])
      BY <1>4 DEF ProbeFills
    <2>2. [codec |-> codec, capabilities |-> found] \in Entries /\ codec \in Codecs
      BY <1>0 DEF Entries, TypeOK
    <2>3. /\ DOMAIN cache' = 1 .. Len(cache) + 1
          /\ DOMAIN cache = 1 .. Len(cache)
          /\ Len(cache) \in Nat
          /\ \A i \in DOMAIN cache : cache'[i] = cache[i]
          /\ cache'[Len(cache) + 1] = [codec |-> codec, capabilities |-> found]
      BY <1>0, <2>1, <2>2, AppendEntry DEF TypeOK
    <2>4. \A i \in DOMAIN cache : cache[i].codec # codec
      BY <1>4 DEF ProbeFills, IInv, MissStands, Cached
    <2>5. OneEntryPerCodec'
      BY NextOneEntry
    <2>6. CellOf(codec) = NoAnswer
      BY <2>4, CellOfMissing
    <2>7. CellsFollowEntries'
      <3>1. (OneEntryPerCodec => CellsFollowEntries)'
        BY CellOfEntry, PTL
      <3>2. QED BY <2>5, <3>1
    <2>8. Cells' = [Cells EXCEPT ![codec] = found]
      <3>1. SUFFICES ASSUME NEW c \in Codecs
                     PROVE  CellOf(c)' = IF c = codec THEN found ELSE CellOf(c)
        BY DEF Cells
      <3>2. CASE c = codec
        <4>1. Len(cache) + 1 \in DOMAIN cache'
          BY <2>3
        <4>2. cache'[Len(cache) + 1].codec = c /\ cache'[Len(cache) + 1].capabilities = found
          BY <2>3, <3>2
        <4>3. CellOf(c)' = found
          BY <2>7, <4>1, <4>2 DEF CellsFollowEntries
        <4>4. QED BY <3>2, <4>3
      <3>3. CASE c # codec /\ \E i \in DOMAIN cache : cache[i].codec = c
        <4>1. PICK i \in DOMAIN cache : cache[i].codec = c
          BY <3>3
        <4>2. CellOf(c) = cache[i].capabilities
          BY <4>1, CellOfEntry DEF IInv, CellsFollowEntries
        <4>3. i \in DOMAIN cache' /\ cache'[i] = cache[i]
          BY <2>3
        <4>4. CellOf(c)' = cache[i].capabilities
          BY <2>7, <4>1, <4>3 DEF CellsFollowEntries
        <4>5. QED BY <3>3, <4>2, <4>4
      <3>4. CASE c # codec /\ \A i \in DOMAIN cache : cache[i].codec # c
        <4>1. \A i \in DOMAIN cache' : cache'[i].codec # c
          BY <2>3, <3>4
        <4>2. CellOf(c)' = NoAnswer
          BY <4>1 DEF CellOf
        <4>3. QED BY <3>4, <4>2, CellOfMissing
      <3>5. QED BY <3>2, <3>3, <3>4
    <2>9. HandedTo(t) = NoAnswer /\ HandedTo(t)' = found
      <3>1. details'[t].slot = Len(cache) + 1 /\ pc'[t] = "unlock" /\ pc[t] = "probe"
        BY <1>0, <1>4 DEF ProbeFills, TypeOK
      <3>2. Len(cache) + 1 # 0
        BY <2>3
      <3>3. QED BY <2>3, <3>1, <3>2 DEF HandedTo
    <2>10. \A u \in Threads : u # t => pc'[u] = pc[u] /\ details'[u] = details[u]
      BY <1>0, <1>4 DEF ProbeFills, TypeOK
    <2>11. Handed' = [Handed EXCEPT ![t] = HandedTo(t)']
      BY <2>10, HandedStep
    <2>12. Asked' = Asked /\ Asked[t] = codec
      BY <1>4 DEF ProbeFills, Asked
    <2>13. Cells[codec] = NoAnswer /\ Handed[t] = NoAnswer
      BY <2>2, <2>6, <2>9 DEF Cells, Handed
    <2>14. QED BY <2>8, <2>9, <2>11, <2>12, <2>13 DEF Memo!Fill
  <1>5. ASSUME NEW t \in Threads,
               ReturnError(t) \/ CopyCapabilities(t) \/ FormatUnknown(t) \/ ReadProfiles(t)
        PROVE Memo!Return(t)
    <2>1. pc[t] \in {"unlock", "read"} /\ pc'[t] \notin {"unlock", "read"}
      BY <1>0, <1>5 DEF ReturnError, CopyCapabilities, FormatUnknown, ReadProfiles, TypeOK
    <2>2. HandedTo(t) # NoAnswer /\ HandedTo(t)' = NoAnswer
      BY <2>1, HandedEntry DEF HandedTo
    <2>3. \A u \in Threads : u # t => pc'[u] = pc[u] /\ details'[u] = details[u]
      BY <1>0, <1>5 DEF ReturnError, CopyCapabilities, FormatUnknown, ReadProfiles, TypeOK
    <2>4. Handed' = [Handed EXCEPT ![t] = HandedTo(t)']
      BY <2>3, HandedStep
    <2>5. Cells' = Cells /\ Asked' = Asked
      BY <1>5, CellsKept
         DEF ReturnError, CopyCapabilities, FormatUnknown, ReadProfiles, Asked
    <2>6. QED BY <2>2, <2>4, <2>5 DEF Memo!Return, Handed
  <1>6. ASSUME NEW t \in Threads,
               Lock(t) \/ FindMiss(t) \/ Unlock(t) \/ FormatAnswered(t) \/ FormatUnsupported(t)
        PROVE UNCHANGED mapped
    <2>1. UNCHANGED <<cache, details, request>>
      BY <1>6 DEF Lock, FindMiss, Unlock, FormatAnswered, FormatUnsupported
    <2>2. \A u \in Threads : pc[u] \in {"unlock", "read"} <=> pc'[u] \in {"unlock", "read"}
      BY <1>0, <1>6 DEF Lock, FindMiss, Unlock, FormatAnswered, FormatUnsupported, TypeOK
    <2>3. \A u \in Threads : HandedTo(u)' = HandedTo(u)
      BY <2>1, <2>2 DEF HandedTo
    <2>4. QED BY <2>1, <2>3, CellsKept DEF Handed, Asked
  <1>7. CASE UNCHANGED vars
    BY <1>7, CellsKept DEF vars, Handed, HandedTo, Asked
  <1> QED
    BY <1>1, <1>2, <1>3, <1>4, <1>5, <1>6, <1>7
       DEF Next, Step, Details, Use, Memo!MemoNext

\* codec_details, for any threads and codecs, behaves as one memo cell per codec
\* that is filled once and handed out unchanged.
THEOREM CacheImplementsMemo == Spec => ImplementsMemo
  <1>1. IInv /\ [Next]_vars => [Memo!MemoNext]_Memo!memoVars
    BY NextRefines DEF Memo!memoVars
  <1>2. QED BY <1>1, InitRefines, CacheInvariant, PTL DEF Spec, ImplementsMemo, Memo!MemoSpec
=============================================================================
