----------------------------- MODULE CodecCache -----------------------------
(***************************************************************************)
(* The codec cache of a Vulkan device (device/vulkan/device.cpp): several  *)
(* application threads query one device_base.  codec_details looks a codec *)
(* up in a std::vector under cache_mutex, probes the driver and appends on *)
(* a miss, and returns a POINTER into the vector.  query_capabilities and  *)
(* query_format dereference that pointer after the lock is gone.           *)
(*                                                                         *)
(* The vector's storage is the pair (buffer, capacity): an append to a     *)
(* full vector moves the entries to a new buffer and frees the old one, so *)
(* a pointer is live exactly when its buffer is still the current one.     *)
(***************************************************************************)
EXTENDS Naturals, Sequences

CONSTANTS
    Threads,        \* application threads that query the device
    Codecs,         \* the codecs they ask about
    Capabilities,   \* what the driver may answer about a codec
    MaxCalls,       \* bound: queries each thread makes
    NoThread,       \* cache_mutex is free
    NoAnswer,       \* the query has not returned
    Failed,         \* the query returned an error
    Garbage         \* whatever bytes freed memory holds

ASSUME CacheAssumption ==
    /\ MaxCalls \in Nat
    /\ NoThread \notin Threads
    /\ NoAnswer \notin Capabilities
    /\ Failed \notin Capabilities
    /\ Garbage \notin Capabilities
    /\ NoAnswer # Failed
    /\ NoAnswer # Garbage
    /\ Failed # Garbage

VARIABLES
    pc,             \* where each thread is
    request,        \* the query each thread makes: [query, codec]
    calls,          \* queries each thread may still start
    cache_mutex,    \* the thread that holds the mutex, or NoThread
    cache,          \* the vector: a sequence of [codec, capabilities]
    buffer,         \* which allocation the vector lives in now
    capacity,       \* entries that allocation has room for
    details,        \* what codec_details gave each thread: [buffer, slot]
    reading,        \* what query_format read of its entry
    answer          \* what the last query of each thread returned

vars == <<pc, request, calls, cache_mutex, cache, buffer, capacity, details,
          reading, answer>>

Queries == {"capabilities", "format"}
Places  == {"idle", "lock", "find", "probe", "unlock", "read", "profiles"}

\* std::unexpected(...): codec_details returned no pointer.  Entries count from 1.
NoDetails == [buffer |-> 0, slot |-> 0]

Init ==
    /\ pc = [t \in Threads |-> "idle"]
    /\ request \in [Threads -> [query : {"capabilities"}, codec : Codecs]]
    /\ calls = [t \in Threads |-> MaxCalls]
    /\ cache_mutex = NoThread
    /\ cache = <<>>
    /\ buffer = 0
    /\ capacity = 0
    /\ details = [t \in Threads |-> NoDetails]
    /\ reading = [t \in Threads |-> NoAnswer]
    /\ answer = [t \in Threads |-> NoAnswer]

-----------------------------------------------------------------------------
(* codec_details *)

\* The entry of the thread's codec, if the vector has one.
Cached(t) == {i \in DOMAIN cache : cache[i].codec = request[t].codec}

\* A thread calls query_capabilities or query_format.
Call(t) ==
    /\ pc[t] = "idle"
    /\ calls[t] > 0
    /\ \E q \in Queries, c \in Codecs :
          request' = [request EXCEPT ![t] = [query |-> q, codec |-> c]]
    /\ calls' = [calls EXCEPT ![t] = @ - 1]
    /\ answer' = [answer EXCEPT ![t] = NoAnswer]
    /\ details' = [details EXCEPT ![t] = NoDetails]
    /\ reading' = [reading EXCEPT ![t] = NoAnswer]
    /\ pc' = [pc EXCEPT ![t] = "lock"]
    /\ UNCHANGED <<cache_mutex, cache, buffer, capacity>>

\* std::scoped_lock guard(cache_mutex).
Lock(t) ==
    /\ pc[t] = "lock"
    /\ cache_mutex = NoThread
    /\ cache_mutex' = t
    /\ pc' = [pc EXCEPT ![t] = "find"]
    /\ UNCHANGED <<request, calls, cache, buffer, capacity, details, reading, answer>>

\* find_if finds the codec: a pointer to the entry where it is now.
FindHit(t) ==
    /\ pc[t] = "find"
    /\ \E i \in Cached(t) :
          /\ \A j \in Cached(t) : i <= j
          /\ details' = [details EXCEPT ![t] = [buffer |-> buffer, slot |-> i]]
    /\ pc' = [pc EXCEPT ![t] = "unlock"]
    /\ UNCHANGED <<request, calls, cache_mutex, cache, buffer, capacity, reading, answer>>

\* A bug the lock prevents: the guard is dropped around the slow probe.
FindMissUnlocked(t) ==
    /\ pc[t] = "find"
    /\ Cached(t) = {}
    /\ cache_mutex' = NoThread
    /\ pc' = [pc EXCEPT ![t] = "probe"]
    /\ UNCHANGED <<request, calls, cache, buffer, capacity, details, reading, answer>>

\* The codec is not cached: the driver is probed, the mutex still held.
FindMiss(t) ==
    /\ pc[t] = "find"
    /\ Cached(t) = {}
    /\ pc' = [pc EXCEPT ![t] = "probe"]
    /\ UNCHANGED <<request, calls, cache_mutex, cache, buffer, capacity, details,
                   reading, answer>>

\* push_back: a full vector doubles into a new allocation and frees the old one.
Grow ==
    IF Len(cache) < capacity
    THEN UNCHANGED <<buffer, capacity>>
    ELSE /\ buffer' = buffer + 1
         /\ capacity' = IF capacity = 0 THEN 1 ELSE 2 * capacity

\* A bug: the failure is cached like an answer.
ProbeFailsCached(t) ==
    /\ pc[t] = "probe"
    /\ cache' = Append(cache, [codec |-> request[t].codec, capabilities |-> Failed])
    /\ Grow
    /\ pc' = [pc EXCEPT ![t] = "unlock"]
    /\ UNCHANGED <<request, calls, cache_mutex, details, reading, answer>>

\* query_codec_capabilities returns an error: it is passed on and not cached.
ProbeFails(t) ==
    /\ pc[t] = "probe"
    /\ pc' = [pc EXCEPT ![t] = "unlock"]
    /\ UNCHANGED <<request, calls, cache_mutex, cache, buffer, capacity, details,
                   reading, answer>>

\* A bug: new entries go to the front, and the others change places.
ProbeFillsAtFront(t) ==
    /\ pc[t] = "probe"
    /\ \E found \in Capabilities :
          cache' = <<[codec |-> request[t].codec, capabilities |-> found]>> \o cache
    /\ Grow
    /\ details' = [details EXCEPT ![t] = [buffer |-> buffer', slot |-> 1]]
    /\ pc' = [pc EXCEPT ![t] = "unlock"]
    /\ UNCHANGED <<request, calls, cache_mutex, reading, answer>>

\* The probe succeeds: push_back, and a pointer to cache.back().
ProbeFills(t) ==
    /\ pc[t] = "probe"
    /\ \E found \in Capabilities :
          cache' = Append(cache, [codec |-> request[t].codec, capabilities |-> found])
    /\ Grow
    /\ details' = [details EXCEPT ![t] = [buffer |-> buffer', slot |-> Len(cache) + 1]]
    /\ pc' = [pc EXCEPT ![t] = "unlock"]
    /\ UNCHANGED <<request, calls, cache_mutex, reading, answer>>

\* A bug: the error path leaves with the mutex held.
ReturnErrorLocked(t) ==
    /\ pc[t] = "unlock"
    /\ details[t].slot = 0
    /\ answer' = [answer EXCEPT ![t] = Failed]
    /\ pc' = [pc EXCEPT ![t] = "idle"]
    /\ UNCHANGED <<request, calls, cache_mutex, cache, buffer, capacity, details, reading>>

\* codec_details returns an error: the guard goes, the query fails with it.
ReturnError(t) ==
    /\ pc[t] = "unlock"
    /\ details[t].slot = 0
    /\ cache_mutex' = NoThread
    /\ answer' = [answer EXCEPT ![t] = Failed]
    /\ pc' = [pc EXCEPT ![t] = "idle"]
    /\ UNCHANGED <<request, calls, cache, buffer, capacity, details, reading>>

\* codec_details returns a pointer: the guard goes, the pointer stays.
Unlock(t) ==
    /\ pc[t] = "unlock"
    /\ details[t].slot # 0
    /\ cache_mutex' = NoThread
    /\ pc' = [pc EXCEPT ![t] = "read"]
    /\ UNCHANGED <<request, calls, cache, buffer, capacity, details, reading, answer>>

-----------------------------------------------------------------------------
(* The uses of the pointer, with no lock held *)

\* The thread's pointer still points into the vector.
Live(t) == details[t].buffer = buffer

\* What a dereference yields: the entry, or anything once the buffer is freed.
Observed(t) ==
    IF Live(t)
    THEN {cache[details[t].slot].capabilities}
    ELSE Capabilities \cup {Garbage}

\* query_capabilities: return (*details)->capabilities.
CopyCapabilities(t) ==
    /\ pc[t] = "read"
    /\ request[t].query = "capabilities"
    /\ \E seen \in Observed(t) : answer' = [answer EXCEPT ![t] = seen]
    /\ pc' = [pc EXCEPT ![t] = "idle"]
    /\ UNCHANGED <<request, calls, cache_mutex, cache, buffer, capacity, details, reading>>

\* query_format of a format Vulkan has no equivalent of: the entry is not read.
FormatUnknown(t) ==
    /\ pc[t] = "read"
    /\ request[t].query = "format"
    /\ answer' = [answer EXCEPT ![t] = Failed]
    /\ pc' = [pc EXCEPT ![t] = "idle"]
    /\ UNCHANGED <<request, calls, cache_mutex, cache, buffer, capacity, details, reading>>

\* query_format_tier takes the entry's profile list, and asks the driver about each.
ReadProfiles(t) ==
    /\ pc[t] = "read"
    /\ request[t].query = "format"
    /\ \E seen \in Observed(t) : reading' = [reading EXCEPT ![t] = seen]
    /\ pc' = [pc EXCEPT ![t] = "profiles"]
    /\ UNCHANGED <<request, calls, cache_mutex, cache, buffer, capacity, details, answer>>

\* Some profile takes the format, or the compute queue converts it.
FormatAnswered(t) ==
    /\ pc[t] = "profiles"
    /\ answer' = [answer EXCEPT ![t] = reading[t]]
    /\ pc' = [pc EXCEPT ![t] = "idle"]
    /\ UNCHANGED <<request, calls, cache_mutex, cache, buffer, capacity, details, reading>>

\* No profile takes it.  The error's text reads the entry's codec once more.
FormatUnsupported(t) ==
    /\ pc[t] = "profiles"
    /\ answer' = [answer EXCEPT ![t] = Failed]
    /\ pc' = [pc EXCEPT ![t] = "idle"]
    /\ UNCHANGED <<request, calls, cache_mutex, cache, buffer, capacity, details, reading>>

-----------------------------------------------------------------------------
Details(t) ==
    \/ FindHit(t) \/ FindMiss(t)
    \/ ProbeFails(t) \/ ProbeFills(t)
    \/ ReturnError(t) \/ Unlock(t)

Use(t) ==
    \/ CopyCapabilities(t)
    \/ FormatUnknown(t) \/ ReadProfiles(t)
    \/ FormatAnswered(t) \/ FormatUnsupported(t)

\* A thread inside a query; whether it starts another is the application's choice.
Step(t) == Lock(t) \/ Details(t) \/ Use(t)

Next == \E t \in Threads : Call(t) \/ Step(t)

\* The operating system runs every thread that can run.  Nothing is assumed of
\* the order in which a std::mutex admits the threads that wait for it.
Fairness == \A t \in Threads : WF_vars(Step(t))

Spec == Init /\ [][Next]_vars /\ Fairness

-----------------------------------------------------------------------------
(* Properties *)

Entries  == [codec : Codecs, capabilities : Capabilities]
Pointers == [buffer : Nat, slot : Nat]
Seen     == Capabilities \cup {NoAnswer, Garbage}

TypeOK ==
    /\ pc \in [Threads -> Places]
    /\ request \in [Threads -> [query : Queries, codec : Codecs]]
    /\ calls \in [Threads -> 0 .. MaxCalls]
    /\ cache_mutex \in Threads \cup {NoThread}
    /\ cache \in Seq(Entries)
    /\ buffer \in Nat
    /\ capacity \in Nat
    /\ details \in [Threads -> Pointers]
    /\ reading \in [Threads -> Seen]
    /\ answer \in [Threads -> Seen \cup {Failed}]

\* The driver is probed once per codec that answers: however many threads miss
\* on a codec together, the vector gets one entry for it.
OneEntryPerCodec ==
    \A i, j \in DOMAIN cache : cache[i].codec = cache[j].codec => i = j

\* The pointer a thread took under the lock still points at the entry of the
\* codec it asked about, wherever the vector has moved to since: it never
\* names another codec's entry.
PointerNamesCodec ==
    \A t \in Threads :
        pc[t] \in {"unlock", "read", "profiles"} /\ details[t].slot # 0 =>
            /\ details[t].slot \in DOMAIN cache
            /\ cache[details[t].slot].codec = request[t].codec

\* Only an append after it can free the buffer under a pointer: a pointer to
\* the newest entry is live, with or without the lock.
NewestEntryLive ==
    \A t \in Threads :
        /\ pc[t] \in {"unlock", "read", "profiles"}
        /\ details[t].slot # 0
        /\ details[t].slot = Len(cache)
        => Live(t)

\* A codec's answer, once cached, is never changed, moved or dropped by later
\* queries of the same or another codec.
EntriesKept ==
    [][\A i \in DOMAIN cache : i \in DOMAIN cache' /\ cache'[i] = cache[i]]_vars

\* Every query returns, failed probes included, although threads wait for each
\* other on the mutex while one of them probes the driver.
QueriesReturn == \A t \in Threads : pc[t] # "idle" ~> pc[t] = "idle"

\* A query that succeeded returned the capabilities the device cached for its
\* codec.  This is what the uses of codec_details assume and what a client of
\* two codecs is not given: the vector may have moved before the dereference.
AnswersAreCached ==
    \A t \in Threads :
        pc[t] = "idle" /\ answer[t] \notin {NoAnswer, Failed} =>
            \E i \in Cached(t) : cache[i].capabilities = answer[t]

-----------------------------------------------------------------------------
(* The cells of MemoCells, read off the vector and the pointers *)

CellOf(c) ==
    IF \E i \in DOMAIN cache : cache[i].codec = c
    THEN cache[CHOOSE i \in DOMAIN cache : cache[i].codec = c].capabilities
    ELSE NoAnswer

HandedTo(t) ==
    IF pc[t] \notin {"unlock", "read"} THEN NoAnswer
    ELSE IF details[t].slot = 0 THEN Failed
    ELSE cache[details[t].slot].capabilities

Cells  == [c \in Codecs |-> CellOf(c)]
Asked  == [t \in Threads |-> request[t].codec]
Handed == [t \in Threads |-> HandedTo(t)]

Memo == INSTANCE MemoCells WITH
    Keys <- Codecs, Answers <- Capabilities,
    memo <- Cells, asked <- Asked, handed <- Handed

\* codec_details, the vector and the mutex implement one memo cell per codec.
\* What is handed out is the entry pointed at, not what a later dereference
\* through a dead pointer yields.
ImplementsMemo == Memo!MemoSpec
=============================================================================
