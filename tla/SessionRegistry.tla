-------------------------- MODULE SessionRegistry --------------------------
(***************************************************************************)
(* session_registry (session.cpp) and the two queries that read it         *)
(* (enc_instance_query_concurrency and enc_device_query_concurrency in     *)
(* capabilities.cpp).  The registry is an array of relaxed atomic counters, *)
(* one per codec bit; encoders on any thread raise and lower them while    *)
(* queries read them, a mask's query one counter at a time, in no set order. *)
(*                                                                         *)
(* An enc_codec is a bit, and a mask is the set of its bits.               *)
(***************************************************************************)
EXTENDS Integers, FiniteSets, FiniteSetsExt

CONSTANTS
    Threads,        \* threads that query
    Codecs,         \* the codec bits: H264 0, HEVC 1, AV1 2, PRORES 3, MJPEG 4
    SlotCount,      \* slot_count, the length of the array
    Word,           \* 2^width of a counter
    DeviceCodecs,   \* the codecs the queried device encodes
    Questions,      \* the masks the threads ask about
    MaxOpens,       \* bound: sessions opened in a run
    NoSlot          \* slot_of has no answer

ASSUME RegistryAssumption ==
    /\ Codecs \subseteq Nat
    /\ IsFiniteSet(Codecs)
    /\ SlotCount \in Nat
    /\ MaxOpens \in Nat
    /\ Word \in Nat
    /\ MaxOpens < Word
    /\ NoSlot \notin Nat
    /\ DeviceCodecs \subseteq Codecs
    /\ Questions \subseteq SUBSET Codecs

\* 2^c exceeds c: TLC evaluates it for the codecs of a run.
ASSUME PowerAssumption == \A c \in Codecs : 2 ^ c \in Nat /\ c < 2 ^ c

VARIABLES
    counts,         \* the counters
    open,           \* the sessions encoders have open, per codec
    opens,          \* sessions opened so far
    pc,             \* where each query is
    question,       \* the mask each query asks about
    unread,         \* the counters a mask's query has still to load
    total,          \* what it has added up, or the query's answer
    low, high       \* least and most sessions per codec, as of the query's start,
                    \* less those closed since and with those opened since

vars == <<counts, open, opens, pc, question, unread, total, low, high>>

Slots == 0 .. SlotCount - 1

\* The value of a mask with one bit.
Value(c) == 2 ^ c

\* A bug: a codec past the end is given the last slot.
SlotOfClamped(mask) ==
    IF Cardinality(mask) # 1 THEN NoSlot
    ELSE LET c == CHOOSE x \in mask : TRUE
         IN IF Value(c) >= SlotCount THEN SlotCount - 1 ELSE c

\* slot_of: one bit, and the VALUE (not the position) below slot_count.
SlotOf(mask) ==
    IF Cardinality(mask) # 1 THEN NoSlot
    ELSE LET c == CHOOSE x \in mask : TRUE
         IN IF Value(c) >= SlotCount THEN NoSlot ELSE c

\* The codecs that have a counter.
Slotted == {c \in Codecs : SlotOf({c}) # NoSlot}

Init ==
    /\ counts = [s \in Slots |-> 0]
    /\ open = [c \in Codecs |-> 0]
    /\ opens = 0
    /\ pc = [t \in Threads |-> "idle"]
    /\ question = [t \in Threads |-> {}]
    /\ unread = [t \in Threads |-> {}]
    /\ total = [t \in Threads |-> 0]
    /\ low = [t \in Threads |-> open]
    /\ high = [t \in Threads |-> open]

-----------------------------------------------------------------------------
(* acquire and release, called as encoders come and go *)

\* fetch_add and fetch_sub on the codec's counter, if it has one.
Bump(c, delta) ==
    LET s == SlotOf({c})
    IN IF s = NoSlot THEN UNCHANGED counts
       ELSE counts' = [counts EXCEPT ![s] = (@ + delta) % Word]

\* acquire(codec)
Acquire(c) ==
    /\ opens < MaxOpens
    /\ Bump(c, 1)
    /\ open' = [open EXCEPT ![c] = @ + 1]
    /\ opens' = opens + 1
    /\ high' = [t \in Threads |-> [high[t] EXCEPT ![c] = @ + 1]]
    /\ UNCHANGED <<pc, question, unread, total, low>>

\* release(codec), of a session that is open
Release(c) ==
    /\ open[c] > 0
    /\ Bump(c, -1)
    /\ open' = [open EXCEPT ![c] = @ - 1]
    /\ low' = [t \in Threads |-> [low[t] EXCEPT ![c] = @ - 1]]
    /\ UNCHANGED <<opens, pc, question, unread, total, high>>

-----------------------------------------------------------------------------
(* The queries *)

\* A bug: the loop over the counters goes one past the last.
AskPastEnd(t, mask) ==
    /\ pc[t] = "idle"
    /\ question' = [question EXCEPT ![t] = mask]
    /\ low' = [low EXCEPT ![t] = open]
    /\ high' = [high EXCEPT ![t] = open]
    /\ unread' = [unread EXCEPT ![t] = 0 .. SlotCount]
    /\ total' = [total EXCEPT ![t] = 0]
    /\ pc' = [pc EXCEPT ![t] =
          IF mask \cap DeviceCodecs = {} THEN "refused" ELSE "active"]
    /\ UNCHANGED <<counts, open, opens>>

\* A query of a mask: the device refuses one it shares no codec with.
Ask(t, mask) ==
    /\ pc[t] = "idle"
    /\ question' = [question EXCEPT ![t] = mask]
    /\ low' = [low EXCEPT ![t] = open]
    /\ high' = [high EXCEPT ![t] = open]
    /\ unread' = [unread EXCEPT ![t] = Slots]
    /\ total' = [total EXCEPT ![t] = 0]
    /\ pc' = [pc EXCEPT ![t] =
          IF mask \cap DeviceCodecs = {} THEN "refused" ELSE "active"]
    /\ UNCHANGED <<counts, open, opens>>

\* A codec with a slot: one relaxed load.
LoadSlot(t) ==
    /\ pc[t] = "active"
    /\ SlotOf(question[t]) # NoSlot
    /\ total' = [total EXCEPT ![t] = counts[SlotOf(question[t])]]
    /\ pc' = [pc EXCEPT ![t] = "answered"]
    /\ UNCHANGED <<counts, open, opens, question, unread, low, high>>

\* A bug: each load replaces the sum.
ScanCounterReplaces(t) ==
    /\ pc[t] = "active"
    /\ SlotOf(question[t]) = NoSlot
    /\ \E s \in unread[t] :
          /\ total' = [total EXCEPT ![t] = counts[s]]
          /\ unread' = [unread EXCEPT ![t] = @ \ {s}]
    /\ UNCHANGED <<counts, open, opens, pc, question, low, high>>

\* Anything else: every counter is loaded and added.  The loads are relaxed, so
\* the loop's order is not the order in which they take place.
ScanCounter(t) ==
    /\ pc[t] = "active"
    /\ SlotOf(question[t]) = NoSlot
    /\ \E s \in unread[t] :
          /\ total' = [total EXCEPT ![t] = (@ + counts[s]) % Word]
          /\ unread' = [unread EXCEPT ![t] = @ \ {s}]
    /\ UNCHANGED <<counts, open, opens, pc, question, low, high>>

ScanEnds(t) ==
    /\ pc[t] = "active"
    /\ SlotOf(question[t]) = NoSlot
    /\ unread[t] = {}
    /\ pc' = [pc EXCEPT ![t] = "answered"]
    /\ UNCHANGED <<counts, open, opens, question, unread, total, low, high>>

\* The query returns to the application.
Finish(t) ==
    /\ pc[t] \in {"answered", "refused"}
    /\ pc' = [pc EXCEPT ![t] = "idle"]
    /\ UNCHANGED <<counts, open, opens, question, unread, total, low, high>>

Next ==
    \/ \E c \in Codecs : Acquire(c) \/ Release(c)
    \/ \E t \in Threads :
          \/ \E mask \in Questions : Ask(t, mask)
          \/ LoadSlot(t) \/ ScanCounter(t) \/ ScanEnds(t)
          \/ Finish(t)

Spec == Init /\ [][Next]_vars

-----------------------------------------------------------------------------
(* Properties *)

TypeOK ==
    /\ counts \in [Slots -> 0 .. Word - 1]
    /\ open \in [Codecs -> 0 .. MaxOpens]
    /\ opens \in 0 .. MaxOpens
    /\ pc \in [Threads -> {"idle", "active", "answered", "refused"}]
    /\ question \in [Threads -> SUBSET Codecs]
    /\ unread \in [Threads -> SUBSET Slots]
    /\ total \in [Threads -> 0 .. Word - 1]
    /\ low \in [Threads -> [Codecs -> Int]]
    /\ high \in [Threads -> [Codecs -> Nat]]

\* However encoders on different threads come and go, the counter of a codec
\* is the number of its sessions open: no two codecs share a counter, and a
\* counter never wraps below zero.
CountsMatchSessions ==
    \A c \in Slotted : counts[SlotOf({c})] = open[c]

\* n is a number of sessions the codecs may have had open during t's query,
\* counting each codec at a moment of its own.
InWindow(t, codecs, n) ==
    /\ MapThenSumSet(LAMBDA c : low[t][c], codecs) <= n
    /\ n <= MapThenSumSet(LAMBDA c : high[t][c], codecs)

\* A query that races with encoders neither invents nor loses sessions: its
\* answer is off by at most the sessions opened and closed while it ran.  (A
\* mask's answer counts every codec that has a counter, whatever the mask.)
AnswerInWindow ==
    \A t \in Threads :
        pc[t] = "answered" =>
            InWindow(t, IF SlotOf(question[t]) # NoSlot THEN question[t] ELSE Slotted, total[t])

\* session.cpp: "A mask asks 'how many across these codecs?'", and session.hpp:
\* counters are "Indexed by the bit position of a single-bit enc_codec".  A query
\* counts the sessions of the codecs it asks about, one or several.
CountsWhatIsAsked ==
    \A t \in Threads :
        pc[t] = "answered" => InWindow(t, question[t], total[t])
=============================================================================
