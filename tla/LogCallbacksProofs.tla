------------------------- MODULE LogCallbacksProofs -------------------------
(***************************************************************************)
(* Proofs about LogCallbacks, for any threads, devices and codecs, any     *)
(* habits of the log callbacks and any depth of calls in calls.  Who holds *)
(* which mutex can be read off the stacks: query_mutex is held by the      *)
(* thread whose innermost call opens a device, a device's cache_mutex by   *)
(* the one call, of all threads and depths, that searches or probes it.    *)
(* The inductive invariant says so, and that what is above a probe on a    *)
(* stack was allowed under it.                                             *)
(***************************************************************************)
EXTENDS LogCallbacks, FiniteSetTheorems, TLAPS

Calls(t) == 1 .. Len(frames[t])

\* The call is between the lock and the unlock of its device's cache_mutex.
Holds(f) == f.at = "find" \/ Probing(f)

\* Where a call can be: at the table only for devices of the instance, at a cache
\* only of a device that is there; and an adoption warns at most once.
Sane(f, there) ==
    /\ f.at \in {"table", "open"} => f.device \in QueryDevices
    /\ f.at = "cache" \/ Holds(f) => f.call = "details" /\ f.device \in there
    /\ f.at = "adopt" \/ (f.at = "log" /\ f.next = "adopt") => f.messages <= 1

FramesSane == \A t \in Threads : \A i \in Calls(t) : Sane(frames[t][i], opened)

\* The thread that opens a device holds query_mutex, and it only.
TableHolder == \A t \in Threads : query_mutex = t <=> At(t, "open")

\* A call that searches or probes has its thread hold the device's mutex ...
CacheHolders ==
    \A t \in Threads : \A i \in Calls(t) :
        Holds(frames[t][i]) => cache_mutex[frames[t][i].device] = t

\* ... which a thread holds for one of its calls only ...
HeldOnce ==
    \A t \in Threads : \A i, j \in Calls(t) :
        /\ Holds(frames[t][i]) /\ Holds(frames[t][j])
        /\ frames[t][i].device = frames[t][j].device
        => i = j

\* ... and for none that is over.
HoldersHold ==
    \A t \in Threads, d \in Devices :
        cache_mutex[d] = t =>
            \E i \in Calls(t) : Holds(frames[t][i]) /\ frames[t][i].device = d

\* The queries made under a probe are those its callback is allowed.
HabitsKept ==
    \A t \in Threads : \A i, j \in Calls(t) :
        i < j /\ Probing(frames[t][i]) /\ frames[t][j].call = "details" =>
            frames[t][j].device \in allowed[frames[t][i].device]

\* No probe is in the log unless the logger takes what probes write.
LogsEnabled ==
    \A t \in Threads : \A i \in Calls(t) :
        frames[t][i].at = "log" /\ frames[t][i].next = "probe" => Enabled(DEBUG)

IInv ==
    /\ TypeOK
    /\ FramesSane
    /\ TableHolder
    /\ CacheHolders
    /\ HeldOnce
    /\ HoldersHold
    /\ HabitsKept
    /\ LogsEnabled

-----------------------------------------------------------------------------
(* What a step does to the stacks *)

Places == {"table", "open", "cache", "find", "probe", "adopt", "adopted", "log"}

Others(t) == \A u \in Threads \ {t} : frames'[u] = frames[u]

\* The innermost call of t has become f.
Becomes(t, f) ==
    /\ frames[t] # <<>>
    /\ Len(frames'[t]) = Len(frames[t])
    /\ frames'[t][Len(frames[t])] = f
    /\ \A i \in 1 .. Len(frames[t]) - 1 : frames'[t][i] = frames[t][i]
    /\ Others(t)

\* A call f has begun inside the others.
Begins(t, f) ==
    /\ Len(frames'[t]) = Len(frames[t]) + 1
    /\ frames'[t][Len(frames[t]) + 1] = f
    /\ \A i \in Calls(t) : frames'[t][i] = frames[t][i]
    /\ Others(t)

\* The innermost call of t is over.
Ends(t) ==
    /\ frames[t] # <<>>
    /\ Len(frames'[t]) = Len(frames[t]) - 1
    /\ \A i \in 1 .. Len(frames[t]) - 1 : frames'[t][i] = frames[t][i]
    /\ Others(t)

Stacks == frames \in [Threads -> Seq(Frames)]

LEMMA TopFrame ==
    ASSUME Stacks, NEW t \in Threads, Inside(t)
    PROVE  /\ Len(frames[t]) \in Nat \ {0}
           /\ Len(frames[t]) \in Calls(t)
           /\ Top(t) \in Frames
  <1>1. frames[t] \in Seq(Frames) /\ frames[t] # <<>>
    BY DEF Stacks, Inside
  <1>2. Len(frames[t]) \in Nat \ {0}
    BY <1>1
  <1>3. QED BY <1>1, <1>2 DEF Calls, Top

LEMMA FrameTypes ==
    ASSUME Stacks, NEW t \in Threads, NEW i \in 1 .. Len(frames[t])
    PROVE  frames[t][i] \in Frames /\ frames[t][i].device \in Devices
  <1>1. frames[t] \in Seq(Frames)
    BY DEF Stacks
  <1>2. frames[t][i] \in Frames
    BY <1>1
  <1>3. QED BY <1>2 DEF Frames

LEMMA SetTop ==
    ASSUME Stacks, NEW t \in Threads, Inside(t), NEW f \in Frames,
           frames' = [frames EXCEPT ![t] = [frames[t] EXCEPT ![Len(frames[t])] = f]]
    PROVE  Stacks' /\ Becomes(t, f)
  <1>1. frames[t] \in Seq(Frames) /\ frames[t] # <<>> /\ Len(frames[t]) \in 1 .. Len(frames[t])
    BY TopFrame DEF Stacks, Inside, Calls
  <1> DEFINE s == [frames[t] EXCEPT ![Len(frames[t])] = f]
  <1>2. /\ s \in Seq(Frames)
        /\ Len(s) = Len(frames[t])
        /\ s[Len(frames[t])] = f
        /\ \A i \in 1 .. Len(frames[t]) - 1 : s[i] = frames[t][i]
    BY <1>1
  <1> HIDE DEF s
  <1>3. frames' = [frames EXCEPT ![t] = s]
    BY DEF s
  <1>4. QED BY <1>1, <1>2, <1>3 DEF Stacks, Becomes, Others

LEMMA GoesBecomes ==
    ASSUME Stacks, NEW t \in Threads, Inside(t), NEW place \in Places, Goes(t, place)
    PROVE  Stacks' /\ Becomes(t, [Top(t) EXCEPT !.at = place])
  <1>1. [Top(t) EXCEPT !.at = place] \in Frames
    BY TopFrame DEF Frames, Places
  <1>2. frames' = [frames EXCEPT ![t] = [frames[t] EXCEPT ![Len(frames[t])] = [Top(t) EXCEPT !.at = place]]]
    BY DEF Goes, Top
  <1>3. QED BY <1>1, <1>2, SetTop

LEMMA WritesBecomes ==
    ASSUME Stacks, NEW t \in Threads, Inside(t), NEW level,
           NEW next \in {"probe", "adopt", "adopted"}, Writes(t, level, next),
           Top(t).messages + 1 \in 0 .. MaxMessages + 2
    PROVE  /\ Stacks'
           /\ Becomes(t, [Top(t) EXCEPT !.at = "log", !.next = next, !.messages = @ + 1])
  <1> DEFINE f == [Top(t) EXCEPT !.at = "log", !.next = next, !.messages = @ + 1]
  <1>1. f \in Frames
    BY TopFrame DEF Frames
  <1>2. frames' = [frames EXCEPT ![t] = [frames[t] EXCEPT ![Len(frames[t])] = f]]
    BY DEF Writes, Top
  <1> HIDE DEF f
  <1>3. Stacks' /\ Becomes(t, f)
    BY <1>1, <1>2, SetTop
  <1>4. QED BY <1>3 DEF f

LEMMA ReturnsEnds ==
    ASSUME Stacks, NEW t \in Threads, Inside(t), Returns(t)
    PROVE  Stacks' /\ Ends(t)
  <1>1. frames[t] \in Seq(Frames) /\ frames[t] # <<>> /\ Len(frames[t]) \in Nat \ {0}
    BY TopFrame DEF Stacks, Inside
  <1> DEFINE s == SubSeq(frames[t], 1, Len(frames[t]) - 1)
  <1>2. /\ s \in Seq(Frames)
        /\ Len(s) = Len(frames[t]) - 1
        /\ \A i \in 1 .. Len(frames[t]) - 1 : s[i] = frames[t][i]
    BY <1>1
  <1> HIDE DEF s
  <1>3. frames' = [frames EXCEPT ![t] = s]
    BY DEF Returns, s
  <1>4. QED BY <1>1, <1>2, <1>3 DEF Stacks, Ends, Others

LEMMA CallBegins ==
    ASSUME Stacks, NEW t \in Threads, NEW f \in Frames,
           frames' = [frames EXCEPT ![t] = Append(@, f)]
    PROVE  Stacks' /\ Begins(t, f)
  <1>1. frames[t] \in Seq(Frames)
    BY DEF Stacks
  <1> DEFINE s == Append(frames[t], f)
  <1>2. /\ s \in Seq(Frames)
        /\ Len(s) = Len(frames[t]) + 1
        /\ s[Len(frames[t]) + 1] = f
        /\ \A i \in 1 .. Len(frames[t]) : s[i] = frames[t][i]
    BY <1>1
  <1> HIDE DEF s
  <1>3. frames' = [frames EXCEPT ![t] = s]
    BY DEF s
  <1>4. QED BY <1>1, <1>2, <1>3 DEF Stacks, Begins, Others, Calls

\* The calls there are after such a step.
LEMMA AfterBegins ==
    ASSUME Stacks, NEW t \in Threads, NEW f, Begins(t, f)
    PROVE  \A u \in Threads : \A i \in 1 .. Len(frames'[u]) :
              \/ u = t /\ i = Len(frames[t]) + 1 /\ frames'[u][i] = f
              \/ i \in 1 .. Len(frames[u]) /\ frames'[u][i] = frames[u][i]
  <1>1. Len(frames[t]) \in Nat
    BY DEF Stacks
  <1>2. QED BY <1>1 DEF Begins, Others, Calls

LEMMA AfterEnds ==
    ASSUME Stacks, NEW t \in Threads, Ends(t)
    PROVE  \A u \in Threads : \A i \in 1 .. Len(frames'[u]) :
              i \in 1 .. Len(frames[u]) /\ frames'[u][i] = frames[u][i]
  <1>1. Len(frames[t]) \in Nat
    BY DEF Stacks
  <1>2. QED BY <1>1 DEF Ends, Others

-----------------------------------------------------------------------------
(* What such a step leaves true, part by part *)

Quiet == UNCHANGED <<logger, allowed>> /\ opened \subseteq opened'

\* Where the calls are and what was allowed, whatever happens to the mutexes.
Sound == FramesSane /\ HabitsKept /\ LogsEnabled

Locked == CacheHolders /\ HeldOnce /\ HoldersHold

LEMMA SaneGrows ==
    ASSUME NEW f, NEW S, NEW T, Sane(f, S), S \subseteq T
    PROVE  Sane(f, T)
  BY DEF Sane

LEMMA SoundBegins ==
    ASSUME Stacks, Sound, Quiet, NEW t \in Threads, NEW f \in Frames, Begins(t, f),
           f.at # "log", Sane(f, opened'), f.call = "details" => MayQuery(t, f.device)
    PROVE  Sound'
  <1> USE DEF Sound, Quiet, Calls
  <1>0. Len(frames[t]) \in Nat /\ Threads = Threads
    BY DEF Stacks
  <1>1. FramesSane'
    BY <1>0, SaneGrows DEF FramesSane, Begins, Others
  <1>2. HabitsKept'
    <2>1. SUFFICES ASSUME NEW u \in Threads, NEW i \in 1 .. Len(frames'[u]),
                          NEW j \in 1 .. Len(frames'[u]), i < j,
                          Probing(frames'[u][i]), frames'[u][j].call = "details"
                   PROVE  frames'[u][j].device \in allowed[frames'[u][i].device]
      BY DEF HabitsKept
    <2>2. i \in 1 .. Len(frames[u]) /\ frames'[u][i] = frames[u][i]
      BY <1>0, <2>1, AfterBegins DEF Begins
    <2>3. CASE j \in 1 .. Len(frames[u]) /\ frames'[u][j] = frames[u][j]
      BY <2>1, <2>2, <2>3 DEF HabitsKept
    <2>4. CASE u = t /\ frames'[u][j] = f
      BY <2>1, <2>2, <2>4 DEF MayQuery
    <2>5. QED BY <2>3, <2>4, AfterBegins
  <1>3. LogsEnabled'
    BY AfterBegins DEF LogsEnabled, Enabled
  <1>4. QED BY <1>1, <1>2, <1>3

LEMMA SoundBecomes ==
    ASSUME Stacks, Sound, Quiet, NEW t \in Threads, NEW f \in Frames, Becomes(t, f),
           Sane(f, opened'), f.call = Top(t).call, f.device = Top(t).device,
           f.at = "log" /\ f.next = "probe" => Enabled(DEBUG)
    PROVE  Sound'
  <1> USE DEF Sound, Quiet, Calls
  <1>0. Len(frames[t]) \in Nat \ {0}
    BY TopFrame DEF Becomes, Inside
  <1>1. FramesSane'
    BY <1>0, SaneGrows DEF FramesSane, Becomes, Others
  <1>2. HabitsKept'
    BY <1>0 DEF HabitsKept, Becomes, Others, Top
  <1>3. LogsEnabled'
    BY <1>0 DEF LogsEnabled, Becomes, Others, Enabled
  <1>4. QED BY <1>1, <1>2, <1>3

LEMMA SoundEnds ==
    ASSUME Stacks, Sound, Quiet, NEW t \in Threads, Ends(t)
    PROVE  Sound'
  <1> USE DEF Sound, Quiet, Calls
  <1>0. Len(frames[t]) \in Nat \ {0}
    BY TopFrame DEF Ends, Inside
  <1>1. FramesSane'
    BY <1>0, SaneGrows DEF FramesSane, Ends, Others
  <1>2. HabitsKept'
    BY <1>0 DEF HabitsKept, Ends, Others
  <1>3. LogsEnabled'
    BY <1>0 DEF LogsEnabled, Ends, Others, Enabled
  <1>4. QED BY <1>1, <1>2, <1>3

\* The mutexes of the devices, in steps that leave them alone.
LEMMA LockedBegins ==
    ASSUME Stacks, Locked, UNCHANGED cache_mutex, NEW t \in Threads, NEW f \in Frames,
           Begins(t, f), ~Holds(f)
    PROVE  Locked'
  <1> USE DEF Locked, Calls
  <1>0. \A u \in Threads : Len(frames[u]) \in Nat
    BY DEF Stacks
  <1>1. CacheHolders'
    BY <1>0 DEF CacheHolders, Begins, Others
  <1>2. HeldOnce'
    <2>1. \A u \in Threads : \A i \in 1 .. Len(frames'[u]) :
             Holds(frames'[u][i]) =>
                i \in 1 .. Len(frames[u]) /\ frames'[u][i] = frames[u][i]
      BY AfterBegins
    <2>2. QED BY <2>1 DEF HeldOnce
  <1>3. HoldersHold'
    <2>1. \A u \in Threads : \A i \in 1 .. Len(frames[u]) :
             i \in 1 .. Len(frames'[u]) /\ frames'[u][i] = frames[u][i]
      BY <1>0 DEF Begins, Others
    <2>2. QED BY <2>1 DEF HoldersHold
  <1>4. QED BY <1>1, <1>2, <1>3

LEMMA LockedBecomes ==
    ASSUME Stacks, Locked, UNCHANGED cache_mutex, NEW t \in Threads, NEW f \in Frames,
           Becomes(t, f), f.device = Top(t).device, Holds(f) <=> Holds(Top(t))
    PROVE  Locked'
  <1> USE DEF Locked, Calls
  <1>0. Len(frames[t]) \in Nat \ {0}
    BY TopFrame DEF Becomes, Inside
  <1>1. ASSUME NEW u \in Threads
        PROVE  /\ Len(frames'[u]) = Len(frames[u])
               /\ \A i \in 1 .. Len(frames[u]) :
                     /\ Holds(frames'[u][i]) <=> Holds(frames[u][i])
                     /\ frames'[u][i].device = frames[u][i].device
    <2>1. CASE u # t
      BY <2>1 DEF Becomes, Others
    <2>2. CASE u = t
      <3>1. SUFFICES ASSUME NEW i \in 1 .. Len(frames[t])
                     PROVE  /\ Holds(frames'[t][i]) <=> Holds(frames[t][i])
                            /\ frames'[t][i].device = frames[t][i].device
        BY <2>2 DEF Becomes
      <3>2. CASE i = Len(frames[t])
        BY <3>2 DEF Becomes, Top
      <3>3. CASE i # Len(frames[t])
        <4>1. i \in 1 .. Len(frames[t]) - 1
          BY <1>0, <3>1, <3>3
        <4>2. QED BY <4>1 DEF Becomes
      <3>4. QED BY <3>2, <3>3
    <2>3. QED BY <2>1, <2>2
  <1>2. CacheHolders'
    BY <1>1 DEF CacheHolders
  <1>3. HeldOnce'
    BY <1>1 DEF HeldOnce
  <1>4. HoldersHold'
    BY <1>1 DEF HoldersHold
  <1>5. QED BY <1>2, <1>3, <1>4

LEMMA LockedEnds ==
    ASSUME Stacks, Locked, UNCHANGED cache_mutex, NEW t \in Threads, Ends(t), ~Holds(Top(t))
    PROVE  Locked'
  <1> USE DEF Locked, Calls
  <1>0. Len(frames[t]) \in Nat \ {0}
    BY TopFrame DEF Ends, Inside
  <1>1. CacheHolders'
    BY AfterEnds DEF CacheHolders
  <1>2. HeldOnce'
    BY AfterEnds DEF HeldOnce
  <1>3. HoldersHold'
    <2>1. SUFFICES ASSUME NEW u \in Threads, NEW d \in Devices, cache_mutex[d] = u
                   PROVE  \E i \in 1 .. Len(frames'[u]) :
                              Holds(frames'[u][i]) /\ frames'[u][i].device = d
      BY DEF HoldersHold
    <2>2. PICK i \in 1 .. Len(frames[u]) : Holds(frames[u][i]) /\ frames[u][i].device = d
      BY <2>1 DEF HoldersHold
    <2>3. CASE u = t
      <3>1. i # Len(frames[t])
        BY <2>2, <2>3 DEF Top
      <3>2. i \in 1 .. Len(frames[t]) - 1
        BY <1>0, <2>2, <2>3, <3>1
      <3>3. QED BY <1>0, <2>2, <2>3, <3>2 DEF Ends
    <2>4. CASE u # t
      BY <2>2, <2>4 DEF Ends, Others
    <2>5. QED BY <2>3, <2>4
  <1>4. QED BY <1>1, <1>2, <1>3

\* query_mutex: a step that leaves it alone opens nothing and leaves no opening.
LEMMA TableKept ==
    ASSUME TableHolder, UNCHANGED query_mutex, NEW t \in Threads, Others(t),
           ~At(t, "open"), ~At(t, "open")'
    PROVE  TableHolder'
  <1>1. SUFFICES ASSUME NEW u \in Threads PROVE query_mutex = u <=> At(u, "open")'
    BY DEF TableHolder
  <1>2. CASE u = t
    BY <1>2 DEF TableHolder
  <1>3. CASE u # t
    BY <1>3 DEF TableHolder, Others, At, Top, Inside
  <1>4. QED BY <1>2, <1>3

\* The holder lets go of it.
LEMMA TableReleased ==
    ASSUME TypeOK, TableHolder, query_mutex' = NoThread, NEW t \in Threads, Others(t),
           At(t, "open"), ~At(t, "open")'
    PROVE  TableHolder'
  <1>1. SUFFICES ASSUME NEW u \in Threads PROVE ~At(u, "open")'
    BY LocksAssumption DEF TableHolder
  <1>2. CASE u = t
    BY <1>2
  <1>3. CASE u # t
    BY <1>3 DEF TableHolder, Others, At, Top, Inside
  <1>4. QED BY <1>2, <1>3

\* A device's mutex is taken for the innermost call ...
LEMMA LockedTaken ==
    ASSUME Stacks, Locked, NEW t \in Threads, NEW f \in Frames, Becomes(t, f), Holds(f),
           ~Holds(Top(t)), cache_mutex[f.device] = NoThread,
           cache_mutex \in [Devices -> Threads \cup {NoThread}],
           cache_mutex' = [cache_mutex EXCEPT ![f.device] = t]
    PROVE  Locked'
  <1> USE DEF Locked, Calls
  <1>0. Len(frames[t]) \in Nat \ {0} /\ f.device \in Devices /\ NoThread \notin Threads
    BY TopFrame, LocksAssumption DEF Becomes, Inside, Frames
  <1>1. \A u \in Threads : \A i \in 1 .. Len(frames[u]) :
           Holds(frames[u][i]) => frames[u][i].device # f.device
    BY <1>0 DEF CacheHolders
  <1>2. \A u \in Threads : \A i \in 1 .. Len(frames'[u]) :
           \/ u = t /\ i = Len(frames[t]) /\ frames'[u][i] = f
           \/ i \in 1 .. Len(frames[u]) /\ frames'[u][i] = frames[u][i]
    BY <1>0 DEF Becomes, Others
  <1>3. \A u \in Threads : \A i \in 1 .. Len(frames[u]) :
           Holds(frames[u][i]) => i \in 1 .. Len(frames'[u]) /\ frames'[u][i] = frames[u][i]
    BY <1>0 DEF Becomes, Others, Top
  <1>4. \A u \in Threads : \A i \in 1 .. Len(frames[u]) :
           Holds(frames[u][i]) => frames[u][i].device \in Devices
    BY FrameTypes
  <1>5. CacheHolders'
    BY <1>0, <1>1, <1>2, <1>4 DEF CacheHolders
  <1>6. HeldOnce'
    BY <1>1, <1>2 DEF HeldOnce
  <1>7. HoldersHold'
    <2>1. SUFFICES ASSUME NEW u \in Threads, NEW d \in Devices, cache_mutex'[d] = u
                   PROVE  \E i \in 1 .. Len(frames'[u]) :
                              Holds(frames'[u][i]) /\ frames'[u][i].device = d
      BY DEF HoldersHold
    <2>2. CASE d = f.device
      <3>1. u = t
        BY <1>0, <2>1, <2>2
      <3>2. Len(frames[t]) \in 1 .. Len(frames'[t]) /\ frames'[t][Len(frames[t])] = f
        BY <1>0 DEF Becomes
      <3>3. QED BY <2>2, <3>1, <3>2
    <2>3. CASE d # f.device
      <3>1. cache_mutex[d] = u
        BY <1>0, <2>1, <2>3
      <3>2. QED BY <1>3, <3>1 DEF HoldersHold
    <2>4. QED BY <2>2, <2>3
  <1>8. QED BY <1>5, <1>6, <1>7

\* ... and given back when it returns.
LEMMA LockedGiven ==
    ASSUME Stacks, Locked, NEW t \in Threads, Ends(t), Holds(Top(t)),
           cache_mutex \in [Devices -> Threads \cup {NoThread}],
           cache_mutex' = [cache_mutex EXCEPT ![Top(t).device] = NoThread]
    PROVE  Locked'
  <1> USE DEF Locked, Calls
  <1>0. /\ Len(frames[t]) \in Nat \ {0}
        /\ Len(frames[t]) \in 1 .. Len(frames[t])
        /\ Top(t).device \in Devices /\ NoThread \notin Threads
    BY TopFrame, LocksAssumption DEF Ends, Inside, Frames
  <1>1. cache_mutex[Top(t).device] = t
    BY <1>0 DEF CacheHolders, Top
  <1>2. \A u \in Threads : \A i \in 1 .. Len(frames'[u]) :
           /\ i \in 1 .. Len(frames[u]) /\ frames'[u][i] = frames[u][i]
           /\ u = t => i # Len(frames[t])
    BY <1>0, AfterEnds DEF Ends
  <1>3. \A u \in Threads : \A i \in 1 .. Len(frames'[u]) :
           Holds(frames'[u][i]) => frames'[u][i].device # Top(t).device
    <2>1. SUFFICES ASSUME NEW u \in Threads, NEW i \in 1 .. Len(frames'[u]),
                          Holds(frames'[u][i]), frames'[u][i].device = Top(t).device
                   PROVE  FALSE
      OBVIOUS
    <2>2. Holds(frames[u][i]) /\ i \in 1 .. Len(frames[u]) /\ frames[u][i].device = Top(t).device
      BY <1>2, <2>1
    <2>3. u = t
      BY <1>1, <2>2 DEF CacheHolders
    <2>4. i = Len(frames[t])
      BY <1>0, <2>2, <2>3 DEF HeldOnce, Top
    <2>5. QED BY <1>2, <2>1, <2>3, <2>4
  <1>4. \A u \in Threads : \A i \in 1 .. Len(frames'[u]) : frames'[u][i].device \in Devices
    BY <1>2, FrameTypes
  <1>5. CacheHolders'
    BY <1>0, <1>2, <1>3, <1>4 DEF CacheHolders
  <1>6. HeldOnce'
    BY <1>2 DEF HeldOnce
  <1>7. HoldersHold'
    <2>1. SUFFICES ASSUME NEW u \in Threads, NEW d \in Devices, cache_mutex'[d] = u
                   PROVE  \E i \in 1 .. Len(frames'[u]) :
                              Holds(frames'[u][i]) /\ frames'[u][i].device = d
      BY DEF HoldersHold
    <2>2. d # Top(t).device /\ cache_mutex[d] = u
      BY <1>0, <2>1
    <2>3. PICK i \in 1 .. Len(frames[u]) : Holds(frames[u][i]) /\ frames[u][i].device = d
      BY <2>2 DEF HoldersHold
    <2>4. u = t => i # Len(frames[t])
      BY <2>2, <2>3 DEF Top
    <2>5. i \in 1 .. Len(frames'[u]) /\ frames'[u][i] = frames[u][i]
      BY <1>0, <2>3, <2>4 DEF Ends, Others
    <2>6. QED BY <2>3, <2>5
  <1>8. QED BY <1>5, <1>6, <1>7

-----------------------------------------------------------------------------
(* Every step preserves the invariant *)

LEMMA SplitIInv == IInv <=> TypeOK /\ Sound /\ TableHolder /\ Locked
  BY DEF IInv, Sound, Locked

LEMMA InitIInv == Init => IInv
  <1> SUFFICES ASSUME Init PROVE IInv
    OBVIOUS
  <1>1. \A t \in Threads : frames[t] = <<>> /\ Len(frames[t]) = 0
    BY DEF Init
  <1>2. TypeOK
    <2>1. frames \in [Threads -> Seq(Frames)]
      BY DEF Init
    <2>2. calls \in [Threads -> Nat] /\ \A t \in Threads : calls[t] <= MaxCalls[t]
      BY LocksAssumption DEF Init
    <2>3. \A t \in Threads : \A i \in 1 .. Len(frames[t]) - 1 : frames[t][i].at = "log"
      BY <1>1
    <2>4. /\ logger \in Loggers /\ allowed \in Habits
          /\ query_mutex \in Threads \cup {NoThread}
          /\ cache_mutex \in [Devices -> Threads \cup {NoThread}]
          /\ cached \in [Devices -> SUBSET Codecs]
          /\ {d \in Devices : cached[d] # {}} \subseteq opened
          /\ opened \subseteq Devices
      BY DEF Init
    <2>5. QED BY <2>1, <2>2, <2>3, <2>4 DEF TypeOK
  <1>3. Sound
    BY <1>1 DEF Sound, FramesSane, HabitsKept, LogsEnabled, Calls
  <1>4. TableHolder
    BY <1>1, LocksAssumption DEF Init, TableHolder, At, Inside
  <1>5. Locked
    BY <1>1, LocksAssumption DEF Init, Locked, CacheHolders, HeldOnce, HoldersHold, Calls
  <1>6. QED BY <1>2, <1>3, <1>4, <1>5, SplitIInv

\* The types, once the stacks have theirs and outer calls are in their callbacks.
OuterLog == \A t \in Threads : \A i \in 1 .. Len(frames[t]) - 1 : frames[t][i].at = "log"

LEMMA OuterBegins ==
    ASSUME Stacks, OuterLog, NEW t \in Threads, NEW f, Begins(t, f),
           Inside(t) => Top(t).at = "log"
    PROVE  OuterLog'
  <1>1. \A u \in Threads : Len(frames[u]) \in Nat /\ frames[u] \in Seq(Frames)
    BY DEF Stacks
  <1>2. \A i \in 1 .. Len(frames[t]) : frames[t][i].at = "log"
    <2>1. CASE frames[t] = <<>>
      BY <2>1
    <2>2. CASE frames[t] # <<>>
      BY <1>1, <2>2 DEF OuterLog, Top, Inside
    <2>3. QED BY <2>1, <2>2
  <1>3. QED BY <1>1, <1>2 DEF OuterLog, Begins, Others, Calls

LEMMA OuterBecomes ==
    ASSUME Stacks, OuterLog, NEW t \in Threads, NEW f, Becomes(t, f) \/ Ends(t)
    PROVE  OuterLog'
  <1>1. \A u \in Threads : Len(frames[u]) \in Nat
    BY DEF Stacks
  <1>2. QED BY <1>1 DEF OuterLog, Becomes, Ends, Others

\* A thread that has returned from a call is in a callback or out of the library.
LEMMA EndsOutside ==
    ASSUME Stacks, OuterLog, NEW t \in Threads, Ends(t), Stacks'
    PROVE  \A place \in Places \ {"log"} : ~At(t, place)'
  <1>1. /\ Len(frames[t]) \in Nat \ {0}
        /\ Len(frames'[t]) = Len(frames[t]) - 1
        /\ frames'[t] \in Seq(Frames)
    BY TopFrame DEF Ends, Inside, Stacks
  <1>2. CASE frames'[t] = <<>>
    BY <1>2 DEF At, Inside
  <1>3. CASE frames'[t] # <<>>
    <2>1. Len(frames'[t]) \in 1 .. Len(frames[t]) - 1
      BY <1>1, <1>3
    <2>2. frames'[t][Len(frames'[t])].at = "log"
      BY <2>1 DEF Ends, OuterLog
    <2>3. QED BY <2>2 DEF At, Top
  <1>4. QED BY <1>2, <1>3

\* Where the innermost call is after it has moved.
LEMMA BecomesAt ==
    ASSUME Stacks, NEW t \in Threads, NEW f \in Frames, Becomes(t, f), NEW place
    PROVE  /\ At(t, place)' <=> f.at = place
           /\ At(t, place) <=> Top(t).at = place
  <1>1. Len(frames[t]) \in Nat \ {0}
    BY TopFrame DEF Becomes, Inside
  <1>2. frames'[t] # <<>>
    BY <1>1 DEF Becomes
  <1>3. QED BY <1>2 DEF Becomes, At, Top, Inside

LEMMA BeginsAt ==
    ASSUME Stacks, NEW t \in Threads, NEW f \in Frames, Begins(t, f), NEW place
    PROVE  At(t, place)' <=> f.at = place
  <1>1. Len(frames[t]) \in Nat
    BY DEF Stacks
  <1>2. frames'[t] # <<>>
    BY <1>1 DEF Begins
  <1>3. QED BY <1>2 DEF Begins, At, Top, Inside

\* A call goes on to another place and touches no mutex.
LEMMA Moves ==
    ASSUME IInv, NEW t \in Threads, NEW f \in Frames, Stacks', Becomes(t, f),
           f.call = Top(t).call, f.device = Top(t).device, Sane(f, opened),
           f.at = "log" /\ f.next = "probe" => Enabled(DEBUG),
           Top(t).at # "open", f.at # "open", Holds(f) <=> Holds(Top(t)),
           UNCHANGED <<logger, allowed, calls, query_mutex, cache_mutex, opened, cached>>
    PROVE  IInv'
  <1>0. TypeOK /\ Sound /\ TableHolder /\ Locked /\ Stacks /\ OuterLog
    BY SplitIInv DEF TypeOK, Stacks, OuterLog
  <1>1. Sound'
    BY <1>0, SoundBecomes DEF Quiet
  <1>2. TableHolder'
    BY <1>0, TableKept, BecomesAt DEF Becomes
  <1>3. Locked'
    BY <1>0, LockedBecomes
  <1>4. TypeOK'
    <2>1. OuterLog'
      BY <1>0, OuterBecomes
    <2>2. QED BY <1>0, <2>1 DEF TypeOK, Stacks, OuterLog
  <1>5. QED BY <1>1, <1>2, <1>3, <1>4 DEF IInv, Sound, Locked

\* A call that holds nothing is over; a device may be there now.
LEMMA Leaves ==
    ASSUME IInv, NEW t \in Threads, Stacks', Ends(t), Top(t).at # "open", ~Holds(Top(t)),
           opened \subseteq opened', opened' \subseteq Devices,
           UNCHANGED <<logger, allowed, calls, query_mutex, cache_mutex, cached>>
    PROVE  IInv'
  <1>0. TypeOK /\ Sound /\ TableHolder /\ Locked /\ Stacks /\ OuterLog
    BY SplitIInv DEF TypeOK, Stacks, OuterLog
  <1>1. Sound'
    BY <1>0, SoundEnds DEF Quiet
  <1>2. TableHolder'
    BY <1>0, TableKept, EndsOutside DEF Ends, At, Places
  <1>3. Locked'
    BY <1>0, LockedEnds
  <1>4. TypeOK'
    <2>1. OuterLog'
      BY <1>0, OuterBecomes
    <2>2. QED BY <1>0, <2>1 DEF TypeOK, Stacks, OuterLog
  <1>5. QED BY <1>1, <1>2, <1>3, <1>4 DEF IInv, Sound, Locked

\* A device was opened, or not: query_mutex is free, and the call goes on to the
\* cache of a device that is there, or is over.
LEMMA LeavesOpen ==
    ASSUME IInv, NEW t \in Threads, At(t, "open"), query_mutex' = NoThread,
           opened \subseteq opened', opened' \subseteq Devices,
           \/ Goes(t, "cache") /\ Top(t).call = "details" /\ Top(t).device \in opened'
           \/ Returns(t),
           UNCHANGED <<logger, allowed, calls, cache_mutex, cached>>
    PROVE  IInv'
  <1>0. TypeOK /\ Sound /\ TableHolder /\ Locked /\ Stacks /\ OuterLog /\ Inside(t)
    BY SplitIInv DEF TypeOK, Stacks, OuterLog, At
  <1>1. Top(t).at = "open" /\ ~Holds(Top(t))
    BY DEF At, Holds, Probing
  <1>2. CASE Goes(t, "cache") /\ Top(t).call = "details" /\ Top(t).device \in opened'
    <2> DEFINE f == [Top(t) EXCEPT !.at = "cache"]
    <2>1. Stacks' /\ Becomes(t, f)
      BY <1>0, <1>2, GoesBecomes DEF Places
    <2>2. /\ f \in Frames /\ f.at = "cache" /\ f.call = Top(t).call /\ f.device = Top(t).device
      BY <1>0, TopFrame DEF Frames
    <2> HIDE DEF f
    <2>3. Sane(f, opened') /\ ~Holds(f)
      BY <1>2, <2>2 DEF Sane, Holds, Probing
    <2>4. Sound'
      BY <1>0, <2>1, <2>2, <2>3, SoundBecomes DEF Quiet
    <2>5. TableHolder'
      BY <1>0, <1>1, <2>1, <2>2, TableReleased, BecomesAt DEF Becomes
    <2>6. Locked'
      BY <1>0, <1>1, <2>1, <2>2, <2>3, LockedBecomes
    <2>7. TypeOK'
      BY <1>0, <2>1, OuterBecomes DEF TypeOK, Stacks, OuterLog
    <2>8. QED BY <2>4, <2>5, <2>6, <2>7 DEF IInv, Sound, Locked
  <1>3. CASE Returns(t)
    <2>1. Stacks' /\ Ends(t)
      BY <1>0, <1>3, ReturnsEnds
    <2>2. Sound'
      BY <1>0, <2>1, SoundEnds DEF Quiet
    <2>3. TableHolder'
      BY <1>0, <2>1, TableReleased, EndsOutside DEF Ends, Places
    <2>4. Locked'
      BY <1>0, <1>1, <2>1, LockedEnds
    <2>5. TypeOK'
      BY <1>0, <2>1, OuterBecomes DEF TypeOK, Stacks, OuterLog
    <2>6. QED BY <2>2, <2>3, <2>4, <2>5 DEF IInv, Sound, Locked
  <1>4. QED BY <1>2, <1>3

\* A search or probe is over and its mutex is free; a codec may be cached now.
LEMMA UnlockKeeps ==
    ASSUME IInv, NEW t \in Threads, Inside(t), Holds(Top(t)), Unlocks(t),
           cached' \in [Devices -> SUBSET Codecs],
           {d \in Devices : cached'[d] # {}} \subseteq opened,
           UNCHANGED <<logger, allowed, calls, query_mutex, opened>>
    PROVE  IInv'
  <1>0. TypeOK /\ Sound /\ TableHolder /\ Locked /\ Stacks /\ OuterLog
    BY SplitIInv DEF TypeOK, Stacks, OuterLog
  <1>1. Stacks' /\ Ends(t)
    BY <1>0, ReturnsEnds DEF Unlocks
  <1>2. Top(t).at # "open"
    BY DEF Holds, Probing
  <1>3. Sound'
    BY <1>0, <1>1, SoundEnds DEF Quiet
  <1>4. TableHolder'
    BY <1>0, <1>1, <1>2, TableKept, EndsOutside DEF Ends, At, Places
  <1>5. Locked'
    BY <1>0, <1>1, LockedGiven DEF Unlocks, TypeOK
  <1>6. TypeOK'
    <2>1. OuterLog'
      BY <1>0, <1>1, OuterBecomes
    <2>2. cache_mutex' \in [Devices -> Threads \cup {NoThread}]
      BY <1>0 DEF Unlocks, TypeOK
    <2>3. QED BY <1>0, <1>1, <2>1, <2>2 DEF TypeOK, Stacks, OuterLog
  <1>7. QED BY <1>3, <1>4, <1>5, <1>6 DEF IInv, Sound, Locked

\* A call begins, from outside the library or from a callback.
LEMMA CallKeeps ==
    ASSUME IInv, NEW t \in Threads, Call(t)
    PROVE  IInv'
  <1>0. TypeOK /\ Sound /\ TableHolder /\ Locked /\ Stacks /\ OuterLog
    BY SplitIInv DEF TypeOK, Stacks, OuterLog
  <1>1. PICK call \in {"details", "concurrency", "adopt"}, d \in Devices, c \in Codecs :
          /\ CASE call = "details" -> d \in QueryDevices \cup opened /\ MayQuery(t, d)
               [] call = "concurrency" -> d \in QueryDevices
               [] call = "adopt" -> d \in AdoptedDevices \ (opened \cup BeingAdopted)
          /\ frames' = [frames EXCEPT ![t] = Append(@,
                 [call |-> call, device |-> d, codec |-> c, at |-> Entry(call, d),
                  next |-> "probe", messages |-> 0])]
    BY DEF Call
  <1> DEFINE f == [call |-> call, device |-> d, codec |-> c, at |-> Entry(call, d),
                   next |-> "probe", messages |-> 0]
  <1>2. Entry(call, d) \in {"adopt", "table", "cache"}
    BY DEF Entry
  <1>3. f \in Frames
    BY <1>2, LocksAssumption DEF Frames
  <1>4. /\ f.call = call /\ f.device = d /\ f.at = Entry(call, d)
        /\ f.messages = 0
    OBVIOUS
  <1>5. frames' = [frames EXCEPT ![t] = Append(@, f)]
    BY <1>1
  <1> HIDE DEF f
  <1>6. Stacks' /\ Begins(t, f)
    BY <1>0, <1>3, <1>5, CallBegins
  <1>7. /\ UNCHANGED <<logger, allowed, query_mutex, cache_mutex, opened, cached>>
        /\ Inside(t) => Top(t).at = "log"
        /\ calls[t] > 0 /\ calls' = [calls EXCEPT ![t] = @ - 1]
    BY DEF Call
  <1>8. /\ f.call = "details" => d \in QueryDevices \cup opened /\ MayQuery(t, d)
        /\ f.call = "concurrency" => d \in QueryDevices
    BY <1>1, <1>4
  <1>9. f.at \in {"adopt", "table", "cache"} /\ ~Holds(f)
    BY <1>2, <1>4 DEF Holds, Probing
  <1>10. Sane(f, opened)
    BY <1>4, <1>8, <1>9 DEF Sane, Entry
  <1>11. Sound'
    BY <1>0, <1>3, <1>4, <1>6, <1>7, <1>8, <1>9, <1>10, SoundBegins DEF Quiet
  <1>12. TableHolder'
    <2>1. ~At(t, "open")
      BY <1>7 DEF At
    <2>2. ~At(t, "open")'
      BY <1>0, <1>3, <1>6, <1>9, BeginsAt
    <2>3. QED BY <1>0, <1>6, <1>7, <2>1, <2>2, TableKept DEF Begins
  <1>13. Locked'
    BY <1>0, <1>3, <1>6, <1>7, <1>9, LockedBegins
  <1>14. TypeOK'
    <2>1. OuterLog'
      BY <1>0, <1>6, <1>7, OuterBegins
    <2>2. calls' \in [Threads -> Nat] /\ \A u \in Threads : calls'[u] <= MaxCalls[u]
      <3>1. /\ calls \in [Threads -> Nat] /\ \A u \in Threads : calls[u] <= MaxCalls[u]
            /\ \A u \in Threads : MaxCalls[u] \in Nat
        BY <1>0, LocksAssumption DEF TypeOK
      <3>2. calls[t] - 1 \in Nat
        BY <1>7, <3>1
      <3>3. calls' \in [Threads -> Nat]
        BY <1>7, <3>1, <3>2
      <3>4. \A u \in Threads : calls'[u] <= calls[u]
        BY <1>7, <3>1
      <3>5. QED BY <3>1, <3>3, <3>4
    <2>3. QED BY <1>0, <1>6, <1>7, <2>1, <2>2 DEF TypeOK, Stacks, OuterLog
  <1>15. QED BY <1>11, <1>12, <1>13, <1>14 DEF IInv, Sound, Locked

\* The instance's mutex is taken.
LEMMA LockTableKeeps ==
    ASSUME IInv, NEW t \in Threads, LockTable(t)
    PROVE  IInv'
  <1>0. TypeOK /\ Sound /\ TableHolder /\ Locked /\ Stacks /\ OuterLog /\ Inside(t)
    BY SplitIInv DEF TypeOK, Stacks, OuterLog, LockTable, At
  <1>1. /\ Top(t).at = "table" /\ ~Holds(Top(t)) /\ Top(t).device \in QueryDevices
        /\ query_mutex = NoThread /\ query_mutex' = t /\ Goes(t, "open")
        /\ UNCHANGED <<logger, allowed, calls, cache_mutex, opened, cached>>
    BY <1>0, TopFrame DEF LockTable, At, Holds, Probing, Sound, FramesSane, Sane, Calls, Top
  <1> DEFINE f == [Top(t) EXCEPT !.at = "open"]
  <1>2. Stacks' /\ Becomes(t, f)
    BY <1>0, <1>1, GoesBecomes DEF Places
  <1>3. /\ f \in Frames /\ f.at = "open" /\ f.call = Top(t).call /\ f.device = Top(t).device
    BY <1>0, TopFrame DEF Frames
  <1> HIDE DEF f
  <1>4. Sane(f, opened) /\ ~Holds(f)
    BY <1>1, <1>3 DEF Sane, Holds, Probing
  <1>5. Sound'
    BY <1>0, <1>1, <1>2, <1>3, <1>4, SoundBecomes DEF Quiet
  <1>6. TableHolder'
    <2>1. SUFFICES ASSUME NEW u \in Threads PROVE query_mutex' = u <=> At(u, "open")'
      BY DEF TableHolder
    <2>2. CASE u = t
      BY <1>0, <1>1, <1>2, <1>3, <2>2, BecomesAt
    <2>3. CASE u # t
      <3>1. ~At(u, "open")
        BY <1>0, <1>1, LocksAssumption DEF TableHolder
      <3>2. QED BY <1>1, <1>2, <2>3, <3>1 DEF Becomes, Others, At, Top, Inside
    <2>4. QED BY <2>2, <2>3
  <1>7. Locked'
    BY <1>0, <1>1, <1>2, <1>3, <1>4, LockedBecomes
  <1>8. TypeOK'
    BY <1>0, <1>1, <1>2, OuterBecomes DEF TypeOK, Stacks, OuterLog
  <1>9. QED BY <1>5, <1>6, <1>7, <1>8 DEF IInv, Sound, Locked

\* A device's mutex is taken.
LEMMA LockCacheKeeps ==
    ASSUME IInv, NEW t \in Threads, LockCache(t)
    PROVE  IInv'
  <1>0. TypeOK /\ Sound /\ TableHolder /\ Locked /\ Stacks /\ OuterLog /\ Inside(t)
    BY SplitIInv DEF TypeOK, Stacks, OuterLog, LockCache, At
  <1>1. /\ Top(t).at = "cache" /\ ~Holds(Top(t))
        /\ Top(t).call = "details" /\ Top(t).device \in opened
        /\ cache_mutex[Top(t).device] = NoThread
        /\ cache_mutex' = [cache_mutex EXCEPT ![Top(t).device] = t] /\ Goes(t, "find")
        /\ UNCHANGED <<logger, allowed, calls, query_mutex, opened, cached>>
    BY <1>0, TopFrame DEF LockCache, At, Holds, Probing, Sound, FramesSane, Sane, Calls, Top
  <1> DEFINE f == [Top(t) EXCEPT !.at = "find"]
  <1>2. Stacks' /\ Becomes(t, f)
    BY <1>0, <1>1, GoesBecomes DEF Places
  <1>3. /\ f \in Frames /\ f.at = "find" /\ f.call = Top(t).call /\ f.device = Top(t).device
    BY <1>0, TopFrame DEF Frames
  <1> HIDE DEF f
  <1>4. Sane(f, opened) /\ Holds(f)
    BY <1>1, <1>3 DEF Sane, Holds
  <1>5. Sound'
    BY <1>0, <1>1, <1>2, <1>3, <1>4, SoundBecomes DEF Quiet
  <1>6. TableHolder'
    BY <1>0, <1>1, <1>2, <1>3, TableKept, BecomesAt DEF Becomes
  <1>7. cache_mutex \in [Devices -> Threads \cup {NoThread}]
    BY <1>0 DEF TypeOK
  <1>8. Locked'
    BY <1>0, <1>1, <1>2, <1>3, <1>4, <1>7, LockedTaken
  <1>9. TypeOK'
    <2>1. OuterLog'
      BY <1>0, <1>2, OuterBecomes
    <2>2. cache_mutex' \in [Devices -> Threads \cup {NoThread}]
      BY <1>1, <1>7
    <2>3. QED BY <1>0, <1>1, <1>2, <2>1, <2>2 DEF TypeOK, Stacks, OuterLog
  <1>10. QED BY <1>5, <1>6, <1>8, <1>9 DEF IInv, Sound, Locked

\* What the invariant says of the innermost call of a thread.
LEMMA TopKnown ==
    ASSUME IInv, NEW t \in Threads, Inside(t)
    PROVE  /\ Stacks /\ Top(t) \in Frames /\ Sane(Top(t), opened)
           /\ Top(t).at = "log" /\ Top(t).next = "probe" => Enabled(DEBUG)
  <1>1. Stacks /\ FramesSane /\ LogsEnabled
    BY DEF IInv, TypeOK, Stacks
  <1>2. Len(frames[t]) \in Calls(t) /\ Top(t) \in Frames
    BY <1>1, TopFrame
  <1>3. QED BY <1>1, <1>2 DEF FramesSane, LogsEnabled, Top

\* A call that goes on to another place, with what it then is.
LEMMA GoesKeeps ==
    ASSUME IInv, NEW t \in Threads, Inside(t), NEW place \in Places \ {"open", "log"},
           Goes(t, place), Top(t).at # "open",
           Sane([Top(t) EXCEPT !.at = place], opened),
           Holds([Top(t) EXCEPT !.at = place]) <=> Holds(Top(t)),
           UNCHANGED <<logger, allowed, calls, query_mutex, cache_mutex, opened, cached>>
    PROVE  IInv'
  <1> DEFINE f == [Top(t) EXCEPT !.at = place]
  <1>0. Stacks /\ Top(t) \in Frames
    BY TopKnown
  <1>1. Stacks' /\ Becomes(t, f)
    BY <1>0, GoesBecomes
  <1>2. /\ f \in Frames /\ f.at = place /\ f.call = Top(t).call /\ f.device = Top(t).device
    BY <1>0 DEF Frames, Places
  <1>3. Sane(f, opened) /\ (Holds(f) <=> Holds(Top(t)))
    OBVIOUS
  <1> HIDE DEF f
  <1>4. QED BY <1>1, <1>2, <1>3, Moves

\* A call that writes to the log.
LEMMA WritesKeeps ==
    ASSUME IInv, NEW t \in Threads, Inside(t), NEW level,
           NEW next \in {"probe", "adopt", "adopted"}, Writes(t, level, next),
           Top(t).messages + 1 \in 0 .. MaxMessages + 2,
           next = "adopt" => Top(t).messages = 0,
           next = "probe" <=> Top(t).at = "probe", next = "probe" => level = DEBUG,
           Top(t).at \in {"probe", "adopt"},
           UNCHANGED <<logger, allowed, calls, query_mutex, cache_mutex, opened, cached>>
    PROVE  IInv'
  <1> DEFINE f == [Top(t) EXCEPT !.at = "log", !.next = next, !.messages = @ + 1]
  <1>0. Stacks /\ Top(t) \in Frames /\ Sane(Top(t), opened)
    BY TopKnown
  <1>1. Stacks' /\ Becomes(t, f)
    BY <1>0, WritesBecomes
  <1>2. /\ f \in Frames /\ f.at = "log" /\ f.next = next
        /\ f.call = Top(t).call /\ f.device = Top(t).device
        /\ f.messages = Top(t).messages + 1
    BY <1>0 DEF Frames
  <1>3. f.next = "probe" => Enabled(DEBUG)
    BY <1>2 DEF Writes
  <1> HIDE DEF f
  <1>4. Holds(f) <=> Holds(Top(t))
    BY <1>2 DEF Holds, Probing
  <1>5. Sane(f, opened)
    BY <1>0, <1>2 DEF Sane, Holds, Probing
  <1>6. QED BY <1>1, <1>2, <1>3, <1>4, <1>5, Moves

LEMMA CallbackReturnsKeeps ==
    ASSUME IInv, NEW t \in Threads, CallbackReturns(t)
    PROVE  IInv'
  <1>1. /\ Inside(t) /\ Top(t).at = "log" /\ Goes(t, Top(t).next)
        /\ UNCHANGED <<logger, allowed, calls, query_mutex, cache_mutex, opened, cached>>
    BY DEF CallbackReturns, At
  <1>2. Top(t) \in Frames /\ Sane(Top(t), opened)
    BY <1>1, TopKnown
  <1>3. Top(t).next \in {"probe", "adopt", "adopted"}
    BY <1>2 DEF Frames
  <1> DEFINE f == [Top(t) EXCEPT !.at = Top(t).next]
  <1>4. f.at = Top(t).next /\ f.next = Top(t).next /\ f.call = Top(t).call
        /\ f.device = Top(t).device /\ f.messages = Top(t).messages
    BY <1>2 DEF Frames
  <1> HIDE DEF f
  <1>5. Sane(f, opened) /\ (Holds(f) <=> Holds(Top(t)))
    BY <1>1, <1>2, <1>3, <1>4 DEF Sane, Holds, Probing
  <1>6. QED BY <1>1, <1>3, <1>5, GoesKeeps DEF f, Places

LEMMA FindMissKeeps ==
    ASSUME IInv, NEW t \in Threads, FindMiss(t)
    PROVE  IInv'
  <1>1. /\ Inside(t) /\ Top(t).at = "find" /\ Goes(t, "probe")
        /\ UNCHANGED <<logger, allowed, calls, query_mutex, cache_mutex, opened, cached>>
    BY DEF FindMiss, At
  <1>2. Top(t) \in Frames /\ Sane(Top(t), opened)
    BY <1>1, TopKnown
  <1> DEFINE f == [Top(t) EXCEPT !.at = "probe"]
  <1>3. f.at = "probe" /\ f.call = Top(t).call /\ f.device = Top(t).device
    BY <1>2 DEF Frames
  <1> HIDE DEF f
  <1>4. Sane(f, opened) /\ (Holds(f) <=> Holds(Top(t)))
    BY <1>1, <1>2, <1>3 DEF Sane, Holds, Probing
  <1>5. QED BY <1>1, <1>4, GoesKeeps DEF f, Places

LEMMA ProbeKeeps ==
    ASSUME IInv, NEW t \in Threads,
           FindHit(t) \/ ProbeWrites(t) \/ ProbeFails(t) \/ ProbeFills(t)
    PROVE  IInv'
  <1>1. Inside(t) /\ Holds(Top(t))
    BY DEF FindHit, ProbeWrites, ProbeFails, ProbeFills, At, Holds, Probing
  <1>2. /\ Top(t) \in Frames /\ Sane(Top(t), opened)
        /\ Top(t).device \in Devices /\ Top(t).codec \in Codecs
        /\ Top(t).messages \in Nat /\ MaxMessages \in Nat /\ Top(t).device \in opened
    BY <1>1, TopKnown, LocksAssumption DEF Frames, Sane
  <1>3. /\ cached \in [Devices -> SUBSET Codecs]
        /\ {d \in Devices : cached[d] # {}} \subseteq opened
    BY DEF IInv, TypeOK
  <1>4. CASE FindHit(t)
    BY <1>1, <1>3, <1>4, UnlockKeeps DEF FindHit
  <1>5. CASE ProbeFails(t)
    BY <1>1, <1>3, <1>5, UnlockKeeps DEF ProbeFails
  <1>6. CASE ProbeFills(t)
    <2>1. /\ cached' = [cached EXCEPT ![Top(t).device] = @ \cup {Top(t).codec}]
          /\ Unlocks(t) /\ UNCHANGED <<logger, allowed, calls, query_mutex, opened>>
      BY <1>6 DEF ProbeFills
    <2>2. cached' \in [Devices -> SUBSET Codecs]
      BY <1>2, <1>3, <2>1
    <2>3. {d \in Devices : cached'[d] # {}} \subseteq opened
      BY <1>2, <1>3, <2>1
    <2>4. QED BY <1>1, <2>1, <2>2, <2>3, UnlockKeeps
  <1>7. CASE ProbeWrites(t)
    <2>1. /\ Top(t).at = "probe" /\ Top(t).messages < MaxMessages /\ Writes(t, DEBUG, "probe")
          /\ UNCHANGED <<logger, allowed, calls, query_mutex, cache_mutex, opened, cached>>
      BY <1>7 DEF ProbeWrites, At
    <2>2. Top(t).messages + 1 \in 0 .. MaxMessages + 2
      BY <1>2, <2>1
    <2>3. QED BY <1>1, <2>1, <2>2, WritesKeeps
  <1>8. QED BY <1>4, <1>5, <1>6, <1>7

LEMMA OpenKeeps ==
    ASSUME IInv, NEW t \in Threads, FindOpened(t) \/ Opens(t) \/ OpenFails(t)
    PROVE  IInv'
  <1>1. At(t, "open") /\ Inside(t)
    BY DEF FindOpened, Opens, OpenFails, At
  <1>2. Top(t).device \in Devices /\ opened \subseteq Devices
    BY <1>1, TopKnown DEF Frames, IInv, TypeOK
  <1>3. CASE FindOpened(t)
    BY <1>1, <1>2, <1>3, LeavesOpen DEF FindOpened, LeavesTable
  <1>4. CASE Opens(t)
    BY <1>1, <1>2, <1>4, LeavesOpen DEF Opens, LeavesTable
  <1>5. CASE OpenFails(t)
    BY <1>1, <1>2, <1>5, LeavesOpen DEF OpenFails
  <1>6. QED BY <1>3, <1>4, <1>5

LEMMA AdoptKeeps ==
    ASSUME IInv, NEW t \in Threads, Adopt(t)
    PROVE  IInv'
  <1>1. Inside(t) /\ Top(t).at \in {"adopt", "adopted"}
    BY DEF Adopt, AdoptWarns, AdoptRefused, AdoptPasses, AdoptReturns, At
  <1>0. /\ Stacks /\ Top(t) \in Frames /\ Sane(Top(t), opened) /\ MaxMessages \in Nat
        /\ opened \subseteq Devices
    BY <1>1, TopKnown, LocksAssumption DEF IInv, TypeOK
  <1>2. /\ Stacks /\ Top(t) \in Frames /\ Sane(Top(t), opened) /\ ~Holds(Top(t))
        /\ Top(t).device \in Devices /\ opened \subseteq Devices
        /\ Top(t).messages \in Nat /\ MaxMessages \in Nat
    BY <1>0, <1>1 DEF Frames, Holds, Probing
  <1>3. CASE AdoptWarns(t)
    <2>1. /\ Top(t).at = "adopt" /\ Top(t).messages = 0 /\ Writes(t, WARN, "adopt")
          /\ UNCHANGED <<logger, allowed, calls, query_mutex, cache_mutex, opened, cached>>
      BY <1>3 DEF AdoptWarns, At
    <2>2. Top(t).messages + 1 \in 0 .. MaxMessages + 2
      BY <1>2, <2>1
    <2>3. QED BY <1>1, <2>1, <2>2, WritesKeeps
  <1>4. CASE AdoptRefused(t)
    BY <1>1, <1>2, <1>4, ReturnsEnds, Leaves DEF AdoptRefused
  <1>5. CASE AdoptPasses(t)
    <2>0. /\ Top(t).at = "adopt"
          /\ UNCHANGED <<logger, allowed, calls, query_mutex, cache_mutex, opened, cached>>
      BY <1>5 DEF AdoptPasses, At
    <2>1. CASE Writes(t, INFO, "adopted")
      <3>1. Top(t).messages + 1 \in 0 .. MaxMessages + 2
        BY <1>2, <2>0 DEF Sane
      <3>2. QED BY <1>1, <2>0, <2>1, <3>1, WritesKeeps
    <2>2. CASE Goes(t, "adopted")
      <3> DEFINE f == [Top(t) EXCEPT !.at = "adopted"]
      <3>1. f.at = "adopted"
        BY <1>2 DEF Frames
      <3> HIDE DEF f
      <3>2. Sane(f, opened) /\ (Holds(f) <=> Holds(Top(t)))
        BY <1>2, <3>1 DEF Sane, Holds, Probing
      <3>3. QED BY <1>1, <2>0, <2>2, <3>2, GoesKeeps DEF f, Places
    <2>3. QED BY <1>5, <2>1, <2>2 DEF AdoptPasses
  <1>6. CASE AdoptReturns(t)
    <2>1. /\ opened' = opened \cup {Top(t).device} /\ Returns(t)
          /\ UNCHANGED <<logger, allowed, calls, query_mutex, cache_mutex, cached>>
      BY <1>6 DEF AdoptReturns
    <2>2. QED BY <1>1, <1>2, <2>1, ReturnsEnds, Leaves
  <1>7. QED BY <1>3, <1>4, <1>5, <1>6, <1>1 DEF Adopt

LEMMA NextIInv == IInv /\ [Next]_vars => IInv'
  <1> SUFFICES ASSUME IInv, [Next]_vars PROVE IInv'
    OBVIOUS
  <1>1. ASSUME NEW t \in Threads, Call(t) PROVE IInv'
    BY <1>1, CallKeeps
  <1>2. ASSUME NEW t \in Threads, CallbackReturns(t) PROVE IInv'
    BY <1>2, CallbackReturnsKeeps
  <1>3. ASSUME NEW t \in Threads, FindDevice(t) PROVE IInv'
    BY <1>3, LockTableKeeps, OpenKeeps DEF FindDevice
  <1>4. ASSUME NEW t \in Threads, Details(t) PROVE IInv'
    BY <1>4, LockCacheKeeps, FindMissKeeps, ProbeKeeps DEF Details
  <1>5. ASSUME NEW t \in Threads, Adopt(t) PROVE IInv'
    BY <1>5, AdoptKeeps
  <1>6. CASE UNCHANGED vars
    <2>1. UNCHANGED <<logger, allowed, frames, calls, query_mutex, cache_mutex, opened, cached>>
      BY <1>6 DEF vars
    <2>2. QED
      BY <2>1 DEF IInv, TypeOK, FramesSane, TableHolder, CacheHolders, HeldOnce,
                  HoldersHold, HabitsKept, LogsEnabled, Calls, At, Top, Inside, Enabled
  <1>7. QED BY <1>1, <1>2, <1>3, <1>4, <1>5, <1>6 DEF Next, Step

\* The stacks tell who holds which mutex, in every reachable state.
THEOREM LocksInvariant == Spec => []IInv
  <1>1. Init => IInv
    BY InitIInv
  <1>2. IInv /\ [Next]_vars => IInv'
    BY NextIInv
  <1>3. QED BY <1>1, <1>2, PTL DEF Spec

-----------------------------------------------------------------------------
(* What follows from it *)

\* Types: outer calls are in their callbacks, and a device that has answered is there.
THEOREM LockTypes == Spec => []TypeOK
  <1>1. IInv => TypeOK
    BY DEF IInv
  <1>2. QED BY <1>1, LocksInvariant, PTL

\* cache_mutex is taken by a thread, and still a device is probed by one call at a
\* time: not by two threads, and not by a call inside a callback of the other's probe.
THEOREM ProbesApart == Spec => []ProbesDoNotNest
  <1>1. IInv => ProbesDoNotNest
    <2>1. SUFFICES ASSUME IInv, NEW t \in Threads, NEW u \in Threads,
                          NEW i \in Calls(t), NEW j \in Calls(u),
                          Probing(frames[t][i]), Probing(frames[u][j]),
                          frames[t][i].device = frames[u][j].device
                   PROVE  t = u /\ i = j
      BY DEF ProbesDoNotNest, Calls
    <2>2. Holds(frames[t][i]) /\ Holds(frames[u][j])
      BY <2>1 DEF Holds
    <2>3. t = u
      BY <2>1, <2>2 DEF IInv, CacheHolders
    <2>4. QED BY <2>1, <2>2, <2>3 DEF IInv, HeldOnce
  <1>2. QED BY <1>1, LocksInvariant, PTL

\* Whoever holds query_mutex is opening a device, so it is about to let go of it.
THEOREM TableIsFreed == Spec => []TableNeverWaits
  <1>1. IInv => TableNeverWaits
    BY DEF IInv, TableHolder, TableNeverWaits
  <1>2. QED BY <1>1, LocksInvariant, PTL

LEMMA LeastElement ==
    ASSUME NEW S \in SUBSET Nat, S # {}
    PROVE  \E n \in S : \A m \in S : n <= m
  <1> DEFINE R == OpToRel(<, Nat)
  <1>1. \E n \in S : \A m \in S : ~(<<m, n>> \in R)
    <2>1. IsWellFoundedOn(R, Nat)
      BY NatLessThanWellFounded
    <2> HIDE DEF R
    <2>2. QED BY <2>1, WFMin
  <1>2. \A m, n \in Nat : m < n => <<m, n>> \in R
    BY DEF OpToRel
  <1> HIDE DEF R
  <1>3. PICK n \in S : \A m \in S : ~(<<m, n>> \in R)
    BY <1>1
  <1>4. ASSUME NEW m \in S PROVE n <= m
    <2>1. ~(m < n)
      BY <1>2, <1>3
    <2>2. QED BY <2>1
  <1>5. QED BY <1>4

\* In a circle every thread waits for a device's cache, whose holder has come to its
\* own wait through a callback of its probe: it waits for a device allowed there.
LEMMA CircleFollowsHabits ==
    ASSUME IInv, NEW S \in SUBSET Threads, NEW t \in S,
           \A v \in S : \E u \in S : WaitsFor(v, u)
    PROVE  \E u \in S : /\ Enabled(DEBUG)
                        /\ Top(t).device \in Devices
                        /\ Top(u).device \in allowed[Top(t).device]
  <1>1. \A v \in S : Inside(v) /\ Top(v).at \in {"table", "cache"}
    BY DEF WaitsFor
  <1>2. \A v \in S : Top(v).at # "table"
    BY <1>1 DEF IInv, TableHolder, At, WaitsFor
  <1>3. \A v \in S : Stacks /\ Top(v) \in Frames /\ Sane(Top(v), opened)
    BY <1>1, TopKnown
  <1>4. PICK u \in S : cache_mutex[Top(t).device] = u
    BY <1>1, <1>2 DEF WaitsFor
  <1>5. Top(t).device \in Devices
    BY <1>3 DEF Frames
  <1>6. PICK i \in Calls(u) : Holds(frames[u][i]) /\ frames[u][i].device = Top(t).device
    BY <1>4, <1>5 DEF IInv, HoldersHold
  <1>7. Len(frames[u]) \in Nat \ {0} /\ Len(frames[u]) \in Calls(u)
    BY <1>1, <1>3, TopFrame
  <1>8. Top(u).at = "cache" /\ Top(u).call = "details" /\ ~Holds(Top(u))
    BY <1>1, <1>2, <1>3 DEF Sane, Holds, Probing
  <1>9. i < Len(frames[u]) /\ i \in 1 .. Len(frames[u]) - 1
    BY <1>6, <1>7, <1>8 DEF Calls, Top
  <1>10. frames[u][i].at = "log"
    BY <1>9 DEF IInv, TypeOK
  <1>11. Probing(frames[u][i]) /\ frames[u][i].next = "probe"
    BY <1>6, <1>10 DEF Holds, Probing
  <1>12. Enabled(DEBUG)
    BY <1>10, <1>11 DEF IInv, LogsEnabled
  <1>13. Top(u).device \in allowed[Top(t).device]
    BY <1>6, <1>7, <1>8, <1>9, <1>11 DEF IInv, HabitsKept, Top
  <1>14. QED BY <1>5, <1>12, <1>13

\* No set of threads waits for each other for good, unless the logger takes what
\* probes write and the callbacks query devices in no order.
THEOREM NoDeadlock == Spec => []NoCircularWait
  <1>1. IInv => NoCircularWait
    <2>1. SUFFICES ASSUME IInv, ~Enabled(DEBUG) \/ Ordered,
                          NEW S \in (SUBSET Threads) \ {{}},
                          \A v \in S : \E u \in S : WaitsFor(v, u)
                   PROVE  FALSE
      BY DEF NoCircularWait, CircularWait
    <2>2. \A t \in S : \E u \in S : /\ Enabled(DEBUG)
                                    /\ Top(t).device \in Devices
                                    /\ Top(u).device \in allowed[Top(t).device]
      BY <2>1, CircleFollowsHabits
    <2>3. PICK rank \in [Devices -> 0 .. Cardinality(Devices)] :
              \A d \in Devices : \A e \in allowed[d] : rank[e] < rank[d]
      <3>1. Enabled(DEBUG)
        BY <2>1, <2>2
      <3>2. QED BY <2>1, <3>1 DEF Ordered
    <2>4. Cardinality(Devices) \in Nat
      BY LocksAssumption, FS_CardinalityType
    <2> DEFINE ranks == {rank[Top(t).device] : t \in S}
    <2>5. ranks \in SUBSET Nat /\ ranks # {}
      <3>1. \A t \in S : rank[Top(t).device] \in Nat
        BY <2>2, <2>3, <2>4
      <3>2. QED BY <2>1, <3>1
    <2>6. PICK t \in S : \A u \in S : rank[Top(t).device] <= rank[Top(u).device]
      <3>1. \E n \in ranks : \A m \in ranks : n <= m
        <4> HIDE DEF ranks
        <4>1. QED BY <2>5, LeastElement
      <3>2. QED BY <3>1
    <2>7. PICK u \in S : /\ Top(t).device \in Devices
                         /\ Top(u).device \in allowed[Top(t).device]
      BY <2>2
    <2>8. rank[Top(u).device] < rank[Top(t).device]
      BY <2>3, <2>7
    <2>9. /\ rank[Top(u).device] \in Nat /\ rank[Top(t).device] \in Nat
          /\ rank[Top(t).device] <= rank[Top(u).device]
      <3>1. \A v \in S : rank[Top(v).device] \in Nat
        BY <2>2, <2>3, <2>4
      <3>2. QED BY <2>6, <3>1
    <2>10. QED BY <2>8, <2>9
  <1>2. QED BY <1>1, LocksInvariant, PTL
=============================================================================
