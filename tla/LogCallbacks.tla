---------------------------- MODULE LogCallbacks ----------------------------
(***************************************************************************)
(* The locks of the library together, and the one way back into it.  A     *)
(* query takes the instance's query_mutex to find its device and, that     *)
(* released, the device's cache_mutex for as long as a probe lasts.  The   *)
(* probe writes to the log, and the logger (logger.cpp) calls the          *)
(* application's function there and then, on the same thread, with         *)
(* cache_mutex held.  That function may call the library again: calls      *)
(* nest, and frames[t] is the stack of those thread t is in.               *)
(*                                                                         *)
(* What the queries answer is the subject of Instance.tla, CodecCache.tla  *)
(* and CapabilityProbe.tla; here they wait, hold and return.  The probe's  *)
(* only message above DEBUG is about a truncated list, which is never      *)
(* written: see ProbeList in CapabilityProbeProofs.tla.  A std::mutex      *)
(* locked twice by one thread blocks it for good, as the platforms' do.    *)
(***************************************************************************)
EXTENDS Naturals, Sequences, FiniteSets

CONSTANTS
    Threads,        \* application threads
    QueryDevices,   \* devices of the instance, opened by the first query
    AdoptedDevices, \* devices the application adopts
    Codecs,         \* codecs it asks about
    Loggers,        \* the log callback and level an instance may be given
    Habits,         \* what log callbacks may do: see allowed
    MaxCalls,       \* bound: calls each thread makes, nested ones included
    MaxDepth,       \* bound: calls nested in each other
    MaxMessages,    \* bound: messages one probe writes
    NoThread        \* a mutex is free

Devices == QueryDevices \cup AdoptedDevices

\* enum enc_log_level
OFF   == 0
DEBUG == 2
INFO  == 3
WARN  == 4
ERROR == 5

ASSUME LocksAssumption ==
    /\ IsFiniteSet(Devices)
    /\ QueryDevices \cap AdoptedDevices = {}
    /\ Loggers \subseteq [sink : BOOLEAN, threshold : OFF .. ERROR]
    /\ Habits \subseteq [Devices -> SUBSET Devices]
    /\ MaxCalls \in [Threads -> Nat] /\ MaxDepth \in Nat /\ MaxMessages \in Nat
    /\ NoThread \notin Threads

VARIABLES
    logger,         \* the instance's logger: [sink, threshold]
    allowed,        \* the devices a callback queries while a device is probed
    frames,         \* the calls each thread is in, innermost last
    calls,          \* calls each thread may still make
    query_mutex,    \* the thread that holds the instance's mutex, or NoThread
    cache_mutex,    \* the same for the mutex of each device
    opened,         \* devices that are there to be queried
    cached          \* the codecs each device has cached

vars == <<logger, allowed, frames, calls, query_mutex, cache_mutex, opened, cached>>

\* A call: where it is, where it goes on when a log callback returns, and the
\* messages it has written.
Frames ==
    [call : {"details", "concurrency", "adopt"}, device : Devices, codec : Codecs,
     at : {"table", "open", "cache", "find", "probe", "adopt", "adopted", "log"},
     next : {"probe", "adopt", "adopted"}, messages : 0 .. MaxMessages + 2]

Init ==
    /\ logger \in Loggers
    /\ allowed \in Habits
    /\ frames = [t \in Threads |-> <<>>]
    /\ calls = MaxCalls
    /\ query_mutex = NoThread
    /\ cache_mutex = [d \in Devices |-> NoThread]
    /\ opened = {}
    /\ cached = [d \in Devices |-> {}]

-----------------------------------------------------------------------------
(* The stack of a thread *)

Inside(t) == frames[t] # <<>>
Top(t)    == frames[t][Len(frames[t])]
At(t, place) == Inside(t) /\ Top(t).at = place

Goes(t, place) == frames' = [frames EXCEPT ![t][Len(frames[t])].at = place]
Returns(t)     == frames' = [frames EXCEPT ![t] = SubSeq(@, 1, Len(@) - 1)]

\* The call is in the probe, or in a callback the probe has made.
Probing(f) == f.at = "probe" \/ (f.at = "log" /\ f.next = "probe")

\* logger::enabled
Enabled(level) ==
    /\ logger.sink
    /\ level >= logger.threshold
    /\ logger.threshold # OFF

\* logger::log and logger::write: the callback runs before the call goes on, which
\* it does at next.
Writes(t, level, next) ==
    /\ Enabled(level)
    /\ frames' = [frames EXCEPT ![t][Len(frames[t])] =
                     [Top(t) EXCEPT !.at = "log", !.next = next, !.messages = @ + 1]]

-----------------------------------------------------------------------------
(* Calls, from the application or from its log callback *)

\* A callback keeps to what it may query under each probe it runs in.
MayQuery(t, d) ==
    \A i \in 1 .. Len(frames[t]) :
        Probing(frames[t][i]) => d \in allowed[frames[t][i].device]

BeingAdopted ==
    {d \in AdoptedDevices : \E t \in Threads : \E i \in 1 .. Len(frames[t]) :
        frames[t][i].call = "adopt" /\ frames[t][i].device = d}

\* Where a call begins: query devices are looked up, adopted ones are at hand.
Entry(call, d) ==
    IF call = "adopt" THEN "adopt"
    ELSE IF d \in QueryDevices THEN "table" ELSE "cache"

Call(t) ==
    /\ Inside(t) => Top(t).at = "log"
    /\ calls[t] > 0
    /\ Len(frames[t]) < MaxDepth
    /\ \E call \in {"details", "concurrency", "adopt"}, d \in Devices, c \in Codecs :
          /\ CASE call = "details" -> d \in QueryDevices \cup opened /\ MayQuery(t, d)
               [] call = "concurrency" -> d \in QueryDevices
               [] call = "adopt" -> d \in AdoptedDevices \ (opened \cup BeingAdopted)
          /\ frames' = [frames EXCEPT ![t] = Append(@,
                 [call |-> call, device |-> d, codec |-> c, at |-> Entry(call, d),
                  next |-> "probe", messages |-> 0])]
    /\ calls' = [calls EXCEPT ![t] = @ - 1]
    /\ UNCHANGED <<logger, allowed, query_mutex, cache_mutex, opened, cached>>

\* The application's function returns to the logger, and the logger to the call.
CallbackReturns(t) ==
    /\ At(t, "log")
    /\ Goes(t, Top(t).next)
    /\ UNCHANGED <<logger, allowed, calls, query_mutex, cache_mutex, opened, cached>>

-----------------------------------------------------------------------------
(* enc_instance::query_device *)

LockTable(t) ==
    /\ At(t, "table")
    /\ query_mutex = NoThread
    /\ query_mutex' = t
    /\ Goes(t, "open")
    /\ UNCHANGED <<logger, allowed, calls, cache_mutex, opened, cached>>

\* A bug: one lock for everything, kept until the device has answered.
LeavesTableLocked(t) ==
    /\ UNCHANGED query_mutex
    /\ IF Top(t).call = "details" THEN Goes(t, "cache") ELSE Returns(t)

\* The device is found and the mutex released.  query_concurrency answers from the
\* device's record with no lock; the other queries go on to its cache.
LeavesTable(t) ==
    /\ query_mutex' = NoThread
    /\ IF Top(t).call = "details" THEN Goes(t, "cache") ELSE Returns(t)

FindOpened(t) ==
    /\ At(t, "open")
    /\ Top(t).device \in opened
    /\ LeavesTable(t)
    /\ UNCHANGED <<logger, allowed, calls, cache_mutex, opened, cached>>

Opens(t) ==
    /\ At(t, "open")
    /\ Top(t).device \notin opened
    /\ opened' = opened \cup {Top(t).device}
    /\ LeavesTable(t)
    /\ UNCHANGED <<logger, allowed, calls, cache_mutex, cached>>

\* A bug: the result of open is not looked at.
OpenFailsUnnoticed(t) ==
    /\ At(t, "open")
    /\ Top(t).device \notin opened
    /\ LeavesTable(t)
    /\ UNCHANGED <<logger, allowed, calls, cache_mutex, opened, cached>>

OpenFails(t) ==
    /\ At(t, "open")
    /\ Top(t).device \notin opened
    /\ query_mutex' = NoThread
    /\ Returns(t)
    /\ UNCHANGED <<logger, allowed, calls, cache_mutex, opened, cached>>

-----------------------------------------------------------------------------
(* device_base::codec_details *)

\* A bug: a recursive mutex, so that a callback may query the device it is about.
LockCacheRecursive(t) ==
    /\ At(t, "cache")
    /\ cache_mutex[Top(t).device] \in {NoThread, t}
    /\ cache_mutex' = [cache_mutex EXCEPT ![Top(t).device] = t]
    /\ Goes(t, "find")
    /\ UNCHANGED <<logger, allowed, calls, query_mutex, opened, cached>>

LockCache(t) ==
    /\ At(t, "cache")
    /\ cache_mutex[Top(t).device] = NoThread
    /\ cache_mutex' = [cache_mutex EXCEPT ![Top(t).device] = t]
    /\ Goes(t, "find")
    /\ UNCHANGED <<logger, allowed, calls, query_mutex, opened, cached>>

Unlocks(t) ==
    /\ cache_mutex' = [cache_mutex EXCEPT ![Top(t).device] = NoThread]
    /\ Returns(t)

FindHit(t) ==
    /\ At(t, "find")
    /\ Top(t).codec \in cached[Top(t).device]
    /\ Unlocks(t)
    /\ UNCHANGED <<logger, allowed, calls, query_mutex, opened, cached>>

FindMiss(t) ==
    /\ At(t, "find")
    /\ Top(t).codec \notin cached[Top(t).device]
    /\ Goes(t, "probe")
    /\ UNCHANGED <<logger, allowed, calls, query_mutex, cache_mutex, opened, cached>>

\* A cell that fails, a format without a name, or the summary.
ProbeWrites(t) ==
    /\ At(t, "probe")
    /\ Top(t).messages < MaxMessages
    /\ Writes(t, DEBUG, "probe")
    /\ UNCHANGED <<logger, allowed, calls, query_mutex, cache_mutex, opened, cached>>

\* A bug: the error path returns without its guard.
ProbeFailsLocked(t) ==
    /\ At(t, "probe")
    /\ Returns(t)
    /\ UNCHANGED <<logger, allowed, calls, query_mutex, cache_mutex, opened, cached>>

ProbeFails(t) ==
    /\ At(t, "probe")
    /\ Unlocks(t)
    /\ UNCHANGED <<logger, allowed, calls, query_mutex, opened, cached>>

ProbeFills(t) ==
    /\ At(t, "probe")
    /\ cached' = [cached EXCEPT ![Top(t).device] = @ \cup {Top(t).codec}]
    /\ Unlocks(t)
    /\ UNCHANGED <<logger, allowed, calls, query_mutex, opened>>

-----------------------------------------------------------------------------
(* driver::adopt, with no lock *)

\* No feature chain was supplied: a warning, before the last check.
AdoptWarns(t) ==
    /\ At(t, "adopt")
    /\ Top(t).messages = 0
    /\ Writes(t, WARN, "adopt")
    /\ UNCHANGED <<logger, allowed, calls, query_mutex, cache_mutex, opened, cached>>

AdoptRefused(t) ==
    /\ At(t, "adopt")
    /\ Returns(t)
    /\ UNCHANGED <<logger, allowed, calls, query_mutex, cache_mutex, opened, cached>>

\* The checks pass and the record is made: INFO, if the logger takes it.
AdoptPasses(t) ==
    /\ At(t, "adopt")
    /\ \/ Writes(t, INFO, "adopted")
       \/ ~Enabled(INFO) /\ Goes(t, "adopted")
    /\ UNCHANGED <<logger, allowed, calls, query_mutex, cache_mutex, opened, cached>>

\* The application has its enc_device.
AdoptReturns(t) ==
    /\ At(t, "adopted")
    /\ opened' = opened \cup {Top(t).device}
    /\ Returns(t)
    /\ UNCHANGED <<logger, allowed, calls, query_mutex, cache_mutex, cached>>

-----------------------------------------------------------------------------
FindDevice(t) == LockTable(t) \/ FindOpened(t) \/ Opens(t) \/ OpenFails(t)

Details(t) ==
    \/ LockCache(t) \/ FindHit(t) \/ FindMiss(t)
    \/ ProbeWrites(t) \/ ProbeFails(t) \/ ProbeFills(t)

Adopt(t) == AdoptWarns(t) \/ AdoptRefused(t) \/ AdoptPasses(t) \/ AdoptReturns(t)

Step(t) == CallbackReturns(t) \/ FindDevice(t) \/ Details(t) \/ Adopt(t)

Next == \E t \in Threads : Call(t) \/ Step(t)

\* The scheduler runs every thread that can go on, and callbacks return; no thread
\* has to make another call.
Spec == Init /\ [][Next]_vars /\ \A t \in Threads : WF_vars(Step(t))

-----------------------------------------------------------------------------
(* What the locks promise *)

\* Types; a thread's outer calls are all in their callbacks; devices that have
\* answered are there.
TypeOK ==
    /\ logger \in Loggers /\ allowed \in Habits
    /\ frames \in [Threads -> Seq(Frames)]
    /\ calls \in [Threads -> Nat] /\ \A t \in Threads : calls[t] <= MaxCalls[t]
    /\ query_mutex \in Threads \cup {NoThread}
    /\ cache_mutex \in [Devices -> Threads \cup {NoThread}]
    /\ cached \in [Devices -> SUBSET Codecs]
    /\ \A t \in Threads : \A i \in 1 .. Len(frames[t]) - 1 : frames[t][i].at = "log"
    /\ {d \in Devices : cached[d] # {}} \subseteq opened
    /\ opened \subseteq Devices

\* The mutex t waits for is held by u.
WaitsFor(t, u) ==
    /\ Inside(t)
    /\ \/ Top(t).at = "table" /\ query_mutex = u
       \/ Top(t).at = "cache" /\ cache_mutex[Top(t).device] = u

\* Threads none of which will ever go on.
CircularWait ==
    \E S \in (SUBSET Threads) \ {{}} : \A t \in S : \E u \in S : WaitsFor(t, u)

\* The devices can be ranked so that callbacks only query devices of lower rank
\* than those being probed.
Ordered ==
    \E rank \in [Devices -> 0 .. Cardinality(Devices)] :
        \A d \in Devices : \A e \in allowed[d] : rank[e] < rank[d]

\* A device is probed by one call at a time, of all threads and of all calls nested
\* in one thread: its messages come from one probe, and a callback never runs inside
\* a probe of the device it has itself made.  (cache_mutex, held by a thread and not
\* counted.)
ProbesDoNotNest ==
    \A t, u \in Threads :
        \A i \in 1 .. Len(frames[t]), j \in 1 .. Len(frames[u]) :
            /\ Probing(frames[t][i]) /\ Probing(frames[u][j])
            /\ frames[t][i].device = frames[u][j].device
            => t = u /\ i = j

\* The instance's mutex is always about to be released: its holder neither waits
\* for another mutex nor runs a callback, however calls nest.
TableNeverWaits ==
    \A t \in Threads : query_mutex = t => At(t, "open")

\* Threads wait for each other in a circle only if the probe's messages are
\* delivered and callbacks query devices in no order: below INFO, with callbacks
\* that query one device from the other and back, or a device from itself.  (Then
\* they do: the code has that deadlock, and no document rules such callbacks out.)
NoCircularWait == ~Enabled(DEBUG) \/ Ordered => ~CircularWait

\* Under the same condition every call returns, also those made by callbacks.
CallsReturn ==
    \A t \in Threads :
        (~Enabled(DEBUG) \/ Ordered) /\ Inside(t) ~> ~Inside(t)
=============================================================================
