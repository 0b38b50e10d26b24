--------------------------- MODULE InstanceProofs ---------------------------
(***************************************************************************)
(* Proofs about Instance, for any threads, any registered drivers and any  *)
(* number of devices each finds.  The inductive invariant follows the      *)
(* device list from the building of the instance to its destruction, and   *)
(* ties where a thread is to the mutex and to the device of its slot: that *)
(* is what makes the lookup, whose result is used with no lock, a table of *)
(* cells each filled once (MemoCells).                                     *)
(***************************************************************************)
EXTENDS Instance, FiniteSetTheorems, SequenceTheorems, TLAPS

\* The device list in driver order; every device of every driver is on it.
Ordered ==
    \A i, j \in DOMAIN device_slots :
        i < j => \/ device_slots[i].owner < device_slots[j].owner
                 \/ /\ device_slots[i].owner = device_slots[j].owner
                    /\ device_slots[i].local < device_slots[j].local

Owned ==
    \A i \in DOMAIN device_slots :
        /\ device_slots[i].owner \in DOMAIN drivers
        /\ device_slots[i].local \in 1 .. drivers[device_slots[i].owner].devices

Found ==
    \A d \in DOMAIN drivers : \A n \in 1 .. drivers[d].devices :
        \E i \in DOMAIN device_slots : device_slots[i] = [owner |-> d, local |-> n]

\* No more drivers than registrations tried, nor devices than they may have.
Sizes ==
    /\ Len(drivers) <= registered
    /\ Len(device_slots) <= registered * MaxDevices

\* An instance is built by one thread, and queried only once it is ready.
Phases ==
    /\ phase = "none" => drivers = <<>> /\ registered = 0
    /\ phase \in {"none", "building"} => query_devices = <<>>
    /\ \A t \in Threads : pc[t] = "building" => phase = "building"
    /\ \A t \in Threads : pc[t] \in {"lock", "find", "open", "use"} => phase = "ready"
    /\ \A t, u \in Threads : pc[t] = "building" /\ pc[u] = "building" => t = u

\* The query devices are the first to go.
Deaths == QueryDevices \in alive => DOMAIN drivers \subseteq alive

\* The mutex is held by the one thread in query_device.
Guarded == \A t \in Threads : query_mutex = t <=> pc[t] \in {"find", "open"}

\* The vector has a pointer for each slot, from the first lookup on.
Resized ==
    /\ query_devices = <<>> \/ Len(query_devices) = Len(device_slots)
    /\ \A t \in Threads : pc[t] \in {"find", "open", "use"} =>
          Len(query_devices) = Len(device_slots)
    /\ \A t \in Threads : pc[t] \in {"lock", "find", "open", "use"} =>
          slot[t] \in DOMAIN device_slots

\* A thread has a device only while it uses it, and that is its slot's, not to be
\* replaced; a thread that opens one found none there.
Handed ==
    /\ \A t \in Threads : pc[t] # "use" => got[t] = NoDevice
    /\ \A t \in Threads : pc[t] = "use" =>
          got[t] = query_devices[slot[t]] /\ got[t] # NoDevice
    /\ \A t \in Threads : pc[t] = "open" => query_devices[slot[t]] = NoDevice

\* An open device is the one its slot names, and every opening filled a slot.
OpenSlots == {i \in DOMAIN query_devices : query_devices[i] # NoDevice}

Filled ==
    /\ \A i \in OpenSlots :
          /\ i \in DOMAIN device_slots
          /\ query_devices[i].owner = device_slots[i].owner
          /\ query_devices[i].local = device_slots[i].local
    /\ opens = Cardinality(OpenSlots)

Listing == Owned /\ Ordered /\ Found /\ Sizes
Lookup  == Guarded /\ Resized /\ Handed /\ Filled

IInv == TypeOK /\ Listing /\ Phases /\ Deaths /\ Lookup

-----------------------------------------------------------------------------
(* Numbers and sequences *)

LEMMA ConstantTypes ==
    /\ Len(Registrations) \in Nat /\ MaxDevices \in Nat /\ MaxCalls \in Nat
    /\ MaxAdopted \in Nat /\ MaxSlots \in Nat /\ MaxSlots > 0
    /\ MaxSlots = Len(Registrations) * MaxDevices
    /\ NoThread \notin Threads /\ NoDevice \notin Devices
    /\ \A i \in 1 .. Len(Registrations) : Registrations[i] \in Kinds
  <1>1. Len(Registrations) \in Nat /\ MaxDevices \in Nat
    BY InstanceAssumption
  <1>2. Len(Registrations) * MaxDevices \in Nat
    BY <1>1
  <1>3. QED BY <1>1, <1>2, InstanceAssumption DEF MaxSlots, Kinds

LEMMA Product ==
    ASSUME NEW a \in Nat, NEW b \in Nat, NEW m \in Nat, a <= b
    PROVE  /\ a * m \in Nat /\ b * m \in Nat
           /\ a * m <= b * m
           /\ (a + 1) * m = a * m + m
  <1>1. a * m \in Nat /\ b * m \in Nat /\ (b - a) * m \in Nat
    OBVIOUS
  <1>2. b * m = a * m + (b - a) * m
    OBVIOUS
  <1>3. (a + 1) * m = a * m + m
    OBVIOUS
  <1>4. QED BY <1>1, <1>2, <1>3

LEMMA CounterTypes ==
    ASSUME TypeOK
    PROVE  /\ registered \in Nat /\ registered <= Len(Registrations)
           /\ opens \in Nat /\ opens <= MaxSlots
           /\ calls \in [Threads -> 0 .. MaxCalls]
  <1>1. /\ registered \in 0 .. Len(Registrations) /\ opens \in 0 .. MaxSlots
        /\ calls \in [Threads -> 0 .. MaxCalls]
    BY DEF TypeOK
  <1>2. QED BY <1>1, ConstantTypes

LEMMA OneCallLess ==
    ASSUME TypeOK, NEW t \in Threads, calls[t] > 0, calls' = [calls EXCEPT ![t] = @ - 1]
    PROVE  calls' \in [Threads -> 0 .. MaxCalls]
  <1>1. calls \in [Threads -> 0 .. MaxCalls]
    BY DEF TypeOK
  <1>2. calls[t] - 1 \in 0 .. MaxCalls
    BY <1>1, ConstantTypes
  <1>3. QED BY <1>1, <1>2

\* The device list fits the slots there can be.
LEMMA SlotsFit ==
    ASSUME TypeOK, Sizes
    PROVE  /\ Len(device_slots) \in Nat /\ Len(device_slots) <= MaxSlots
           /\ DOMAIN device_slots = 1 .. Len(device_slots)
           /\ DOMAIN device_slots \subseteq 1 .. MaxSlots
           /\ Len(drivers) \in Nat /\ DOMAIN drivers = 1 .. Len(drivers)
           /\ Len(query_devices) \in Nat /\ DOMAIN query_devices = 1 .. Len(query_devices)
  <1>1. /\ Len(device_slots) \in Nat /\ DOMAIN device_slots = 1 .. Len(device_slots)
        /\ Len(drivers) \in Nat /\ DOMAIN drivers = 1 .. Len(drivers)
        /\ Len(query_devices) \in Nat /\ DOMAIN query_devices = 1 .. Len(query_devices)
        /\ registered \in Nat /\ registered <= Len(Registrations)
    <2>1. /\ device_slots \in Seq([owner : 1 .. Len(Registrations), local : 1 .. MaxDevices])
          /\ drivers \in Seq([kind : Kinds, devices : 0 .. MaxDevices])
          /\ query_devices \in Seq(Devices \cup {NoDevice})
          /\ registered \in 0 .. Len(Registrations)
      BY DEF TypeOK
    <2>2. QED BY <2>1, ConstantTypes
  <1>2. /\ registered * MaxDevices <= MaxSlots
        /\ registered * MaxDevices \in Nat
    BY <1>1, ConstantTypes, Product
  <1>3. Len(device_slots) <= MaxSlots
    BY <1>1, <1>2, ConstantTypes DEF Sizes
  <1>4. QED BY <1>1, <1>3, ConstantTypes

-----------------------------------------------------------------------------
(* The invariant holds at first *)

LEMMA InitIInv == Init => IInv
  <1> SUFFICES ASSUME Init PROVE IInv
    OBVIOUS
  <1>1. /\ 0 \in 0 .. Len(Registrations) /\ 0 \in 0 .. MaxSlots /\ 0 \in 0 .. MaxAdopted
        /\ MaxCalls \in 0 .. MaxCalls /\ 1 \in 1 .. MaxSlots
    BY ConstantTypes
  <1>2. \A S : <<>> \in Seq(S)
    OBVIOUS
  <1>3. TypeOK
    BY <1>1, <1>2 DEF Init, TypeOK, Codes
  <1>4. Len(<<>>) = 0 /\ DOMAIN <<>> = {} /\ 0 * MaxDevices = 0
    BY ConstantTypes
  <1>5. Listing
    <2>1. Owned /\ Ordered /\ Found
      BY <1>4 DEF Init, Owned, Ordered, Found
    <2>2. Sizes
      <3>1. Len(drivers) = 0 /\ Len(device_slots) = 0 /\ registered = 0
        BY DEF Init
      <3>2. registered * MaxDevices = 0
        BY <1>4, <3>1
      <3>3. QED BY <3>1, <3>2 DEF Sizes
    <2>3. QED BY <2>1, <2>2 DEF Listing
  <1>6. Phases /\ Deaths
    BY <1>4 DEF Init, Phases, Deaths
  <1>7. OpenSlots = {} /\ Cardinality(OpenSlots) = 0
    BY <1>4, FS_EmptySet DEF Init, OpenSlots
  <1>8. Lookup
    BY <1>4, <1>7, ConstantTypes DEF Init, Lookup, Guarded, Resized, Handed, Filled
  <1>9. QED BY <1>3, <1>5, <1>6, <1>8 DEF IInv

-----------------------------------------------------------------------------
(* Calls that touch neither the device list nor the lookup *)

\* What a call returns, and the text it leaves, are of the codes there are.
LEMMA ReturnsCodes ==
    ASSUME TypeOK, NEW t \in Threads, NEW code \in Codes, Returns(t, code)
    PROVE  /\ result' \in [Threads -> Codes]
           /\ context' \in [Threads -> Failures \cup {""}]
  <1>1. result \in [Threads -> Codes] /\ context \in [Threads -> Failures \cup {""}]
    BY DEF TypeOK
  <1>2. QED BY <1>1 DEF Returns

\* The parts of the invariant, where what they are about stays.
LEMMA ListingKept ==
    ASSUME Listing, UNCHANGED <<registered, drivers, device_slots>>
    PROVE  Listing'
  BY DEF Listing, Owned, Ordered, Found, Sizes

LEMMA LookupKept ==
    ASSUME Lookup, UNCHANGED <<device_slots, query_devices, query_mutex, opens, pc, slot, got>>
    PROVE  Lookup'
  BY DEF Lookup, Guarded, Resized, Handed, Filled, OpenSlots

\* A call that is over at once, or the deletion of an adopted device.
LEMMA QuietKeeps ==
    ASSUME IInv, UNCHANGED <<building, lookup, alive, pc, slot, got>>,
           adopted' \in 0 .. MaxAdopted,
           calls' \in [Threads -> 0 .. MaxCalls],
           result' \in [Threads -> Codes],
           context' \in [Threads -> Failures \cup {""}]
    PROVE  IInv'
  <1>0. TypeOK /\ Listing /\ Phases /\ Deaths /\ Lookup
    BY DEF IInv
  <1>1. /\ UNCHANGED <<phase, registered, drivers, device_slots, available_backends>>
        /\ UNCHANGED <<query_devices, query_mutex, opens, alive, pc, slot, got>>
    BY DEF building, lookup
  <1>2. TypeOK'
    BY <1>0, <1>1 DEF TypeOK
  <1>3. Listing' /\ Lookup'
    BY <1>0, <1>1, ListingKept, LookupKept
  <1>4. Phases' /\ Deaths'
    BY <1>0, <1>1 DEF Phases, Deaths
  <1>5. QED BY <1>2, <1>3, <1>4 DEF IInv

LEMMA CallReturnsKeeps ==
    ASSUME IInv, NEW t \in Threads, NEW code \in Codes, CallReturns(t, code),
           UNCHANGED <<building, lookup, alive, pc, slot, got>>,
           adopted' \in 0 .. MaxAdopted
    PROVE  IInv'
  <1>0. TypeOK
    BY DEF IInv
  <1>1. /\ result' \in [Threads -> Codes]
        /\ context' \in [Threads -> Failures \cup {""}]
    BY <1>0, ReturnsCodes DEF CallReturns
  <1>2. calls' \in [Threads -> 0 .. MaxCalls]
    BY <1>0, OneCallLess DEF CallReturns
  <1>3. QED BY <1>1, <1>2, QuietKeeps

LEMMA OutcomesAreCodes ==
    ASSUME NEW q \in Queries
    PROVE  Outcomes(q) \subseteq Codes
  BY DEF Outcomes, Codes, Failures

LEMMA ShortCallsKeep ==
    ASSUME IInv, NEW t \in Threads,
           \/ NullArgument(t) \/ RefuseNew(t) \/ Enumerate(t) \/ IndexOutOfRange(t)
           \/ Adopt(t) \/ QueryAdopted(t) \/ DeleteDevice(t)
    PROVE  IInv'
  <1>0. /\ adopted \in 0 .. MaxAdopted /\ MaxAdopted \in Nat
        /\ {"NULL_ARGUMENT", "INVALID_ARGUMENT", "INVALID_STRUCT_SIZE",
            "INVALID_STRUCT_VERSION", "VERSION_MISMATCH", "INCOMPLETE", "SUCCESS",
            "NO_DEVICE", "DEVICE_ERROR", "NO_BACKEND"} \subseteq Codes
    BY ConstantTypes DEF IInv, TypeOK, Codes, Failures
  <1>1. CASE NullArgument(t)
    BY <1>0, <1>1, CallReturnsKeeps DEF NullArgument, ends
  <1>2. CASE RefuseNew(t)
    BY <1>0, <1>2, CallReturnsKeeps DEF RefuseNew, StructRefusals, ends
  <1>3. CASE Enumerate(t)
    BY <1>0, <1>3, CallReturnsKeeps DEF Enumerate, ends
  <1>4. CASE IndexOutOfRange(t)
    BY <1>0, <1>4, CallReturnsKeeps DEF IndexOutOfRange, ends
  <1>5. CASE Adopt(t)
    <2>1. PICK code \in Codes : CallReturns(t, code)
      BY <1>0, <1>5 DEF Adopt
    <2>2. adopted' \in 0 .. MaxAdopted
      BY <1>0, <1>5 DEF Adopt
    <2>3. UNCHANGED <<building, lookup, alive, pc, slot, got>>
      BY <1>5 DEF Adopt
    <2>4. QED BY <2>1, <2>2, <2>3, CallReturnsKeeps
  <1>6. CASE QueryAdopted(t)
    <2>1. PICK code \in Codes : CallReturns(t, code)
      BY <1>6, OutcomesAreCodes DEF QueryAdopted
    <2>2. QED BY <1>0, <1>6, <2>1, CallReturnsKeeps DEF QueryAdopted, ends
  <1>7. CASE DeleteDevice(t)
    <2>1. /\ adopted' \in 0 .. MaxAdopted
          /\ UNCHANGED <<building, lookup, alive, pc, calls, slot, got, result, context>>
      BY <1>0, <1>7 DEF DeleteDevice, callers
    <2>2. QED BY <2>1, QuietKeeps DEF IInv, TypeOK
  <1>8. QED BY <1>1, <1>2, <1>3, <1>4, <1>5, <1>6, <1>7

-----------------------------------------------------------------------------
(* Building the instance *)

Looking == {"lock", "find", "open", "use"}

\* As long as nobody looks anything up, the lookup is as it was at first.
LEMMA LookupUnused ==
    ASSUME TypeOK, Lookup, query_devices = <<>>,
           UNCHANGED <<query_devices, query_mutex, opens, got>>,
           \A u \in Threads : pc[u] \notin Looking /\ pc'[u] \notin Looking
    PROVE  Lookup'
  <1>0. Guarded /\ Resized /\ Handed /\ Filled
    BY DEF Lookup
  <1>1. Guarded' /\ Resized'
    BY <1>0 DEF Guarded, Resized, Looking
  <1>2. Handed'
    BY <1>0 DEF Handed, Looking
  <1>3. OpenSlots = {} /\ OpenSlots' = {}
    BY DEF OpenSlots
  <1>4. Filled'
    BY <1>0, <1>3 DEF Filled
  <1>5. QED BY <1>1, <1>2, <1>4 DEF Lookup

\* Nobody does before the instance is ready.
LEMMA NobodyLooks ==
    ASSUME Phases, phase # "ready"
    PROVE  \A u \in Threads : pc[u] \notin Looking
  BY DEF Phases, Looking

LEMMA StartBuildKeeps ==
    ASSUME IInv, NEW t \in Threads, StartBuild(t)
    PROVE  IInv'
  <1>0. TypeOK /\ Listing /\ Phases /\ Deaths /\ Lookup
    BY DEF IInv
  <1>1. /\ UNCHANGED <<registered, drivers, device_slots, available_backends>>
        /\ UNCHANGED <<query_devices, query_mutex, opens, alive, adopted, slot, got>>
        /\ UNCHANGED <<result, context>>
        /\ phase = "none" /\ phase' = "building"
        /\ calls[t] > 0 /\ calls' = [calls EXCEPT ![t] = @ - 1]
        /\ pc' = [pc EXCEPT ![t] = "building"]
    BY DEF StartBuild, lookup, ends
  <1>2. pc \in [Threads -> {"idle", "building", "lock", "find", "open", "use"}]
    BY <1>0 DEF TypeOK
  <1>3. \A u \in Threads : pc[u] \notin Looking /\ pc'[u] \notin Looking
    BY <1>0, <1>1, <1>2, NobodyLooks DEF Looking
  <1>4. TypeOK'
    <2>1. calls' \in [Threads -> 0 .. MaxCalls]
      BY <1>0, <1>1, OneCallLess
    <2>2. QED BY <1>0, <1>1, <2>1 DEF TypeOK
  <1>5. Listing'
    BY <1>0, <1>1, ListingKept
  <1>6. Lookup'
    BY <1>0, <1>1, <1>3, LookupUnused DEF Phases
  <1>7. Phases' /\ Deaths'
    BY <1>0, <1>1, <1>2, <1>3 DEF Phases, Deaths, Looking
  <1>8. QED BY <1>4, <1>5, <1>6, <1>7 DEF IInv

LEMMA DriverUnavailableKeeps ==
    ASSUME IInv, NEW t \in Threads, DriverUnavailable(t)
    PROVE  IInv'
  <1>0. TypeOK /\ Listing /\ Phases /\ Deaths /\ Lookup
    BY DEF IInv
  <1>1. /\ UNCHANGED <<phase, drivers, device_slots, available_backends>>
        /\ UNCHANGED <<query_devices, query_mutex, opens, alive, adopted, pc, calls, slot, got>>
        /\ UNCHANGED <<result, context>>
        /\ pc[t] = "building" /\ registered < Len(Registrations) /\ registered' = registered + 1
    BY DEF DriverUnavailable, lookup, ends, callers
  <1>2. registered \in Nat /\ registered + 1 \in 0 .. Len(Registrations)
    BY <1>0, <1>1, CounterTypes, ConstantTypes
  <1>3. TypeOK'
    BY <1>0, <1>1, <1>2 DEF TypeOK
  <1>4. Sizes'
    <2>1. /\ registered * MaxDevices <= (registered + 1) * MaxDevices
          /\ registered * MaxDevices \in Nat /\ (registered + 1) * MaxDevices \in Nat
      BY <1>2, ConstantTypes, Product
    <2>2. Len(drivers) \in Nat /\ Len(device_slots) \in Nat
      BY <1>0, SlotsFit DEF Listing
    <2>3. QED BY <1>0, <1>1, <1>2, <2>1, <2>2 DEF Listing, Sizes
  <1>5. Listing'
    BY <1>0, <1>1, <1>4 DEF Listing, Owned, Ordered, Found
  <1>6. Phases' /\ Deaths'
    BY <1>0, <1>1 DEF Phases, Deaths
  <1>7. Lookup'
    BY <1>0, <1>1, LookupKept
  <1>8. QED BY <1>3, <1>5, <1>6, <1>7 DEF IInv

\* The slots of a driver's devices.
SlotsOf(d, n) == [i \in 1 .. n |-> [owner |-> d, local |-> i]]

LEMMA DriverReadyKeeps ==
    ASSUME IInv, NEW t \in Threads, DriverReady(t)
    PROVE  IInv'
  <1> DEFINE Slots == [owner : 1 .. Len(Registrations), local : 1 .. MaxDevices]
             Drivers == [kind : Kinds, devices : 0 .. MaxDevices]
             L == Len(device_slots)
             k == Len(drivers) + 1
  <1>0. TypeOK /\ Listing /\ Phases /\ Deaths /\ Lookup
    BY DEF IInv
  <1>1. /\ UNCHANGED <<phase, available_backends>>
        /\ UNCHANGED <<query_devices, query_mutex, opens, adopted, pc, calls, slot, got>>
        /\ UNCHANGED <<result, context>>
        /\ pc[t] = "building" /\ registered < Len(Registrations) /\ registered' = registered + 1
        /\ alive' = alive \cup {k}
    BY DEF DriverReady, lookup, callers
  <1>2. PICK n \in 0 .. MaxDevices :
           /\ device_slots' = device_slots \o SlotsOf(k, n)
           /\ drivers' = Append(drivers, [kind |-> Registrations[registered + 1], devices |-> n])
    BY DEF DriverReady, SlotsOf
  <1>3. /\ registered \in Nat /\ registered + 1 \in 1 .. Len(Registrations)
        /\ L \in Nat /\ DOMAIN device_slots = 1 .. L
        /\ Len(drivers) \in Nat /\ DOMAIN drivers = 1 .. Len(drivers)
        /\ k \in 1 .. Len(Registrations) /\ n \in Nat
    <2>1. /\ registered \in Nat /\ registered + 1 \in 1 .. Len(Registrations)
      BY <1>0, <1>1, CounterTypes, ConstantTypes
    <2>2. /\ L \in Nat /\ DOMAIN device_slots = 1 .. L
          /\ Len(drivers) \in Nat /\ DOMAIN drivers = 1 .. Len(drivers)
      BY <1>0, SlotsFit DEF Listing
    <2>3. Len(drivers) <= registered
      BY <1>0 DEF Listing, Sizes
    <2>4. QED BY <2>1, <2>2, <2>3, ConstantTypes
  <1>4. /\ SlotsOf(k, n) \in Seq(Slots) /\ Len(SlotsOf(k, n)) = n
        /\ \A i \in 1 .. n : SlotsOf(k, n)[i] = [owner |-> k, local |-> i]
    <2>1. SlotsOf(k, n) \in [1 .. n -> Slots]
      BY <1>3, ConstantTypes DEF SlotsOf
    <2>2. QED BY <1>3, <2>1 DEF SlotsOf
  <1>5. /\ device_slots' \in Seq(Slots)
        /\ Len(device_slots') = L + n /\ DOMAIN device_slots' = 1 .. L + n
        /\ \A i \in 1 .. L : device_slots'[i] = device_slots[i]
        /\ \A i \in L + 1 .. L + n : /\ device_slots'[i] = [owner |-> k, local |-> i - L]
                                     /\ device_slots'[i].owner = k
                                     /\ device_slots'[i].local = i - L
    <2> DEFINE new == SlotsOf(k, n)
    <2>1. device_slots \in Seq(Slots)
      BY <1>0 DEF TypeOK
    <2>2. L = Len(device_slots)
      OBVIOUS
    <2>3. /\ new \in Seq(Slots) /\ Len(new) = n
          /\ \A i \in 1 .. n : new[i] = [owner |-> k, local |-> i]
          /\ device_slots' = device_slots \o new
      BY <1>2, <1>4
    <2> HIDE DEF new, Slots, L, k
    <2>4. /\ device_slots' \in Seq(Slots)
          /\ Len(device_slots') = L + n
          /\ \A i \in 1 .. L + n : device_slots'[i] =
                 IF i <= L THEN device_slots[i] ELSE new[i - L]
      BY <2>1, <2>2, <2>3, ConcatProperties
    <2>5. DOMAIN device_slots' = 1 .. L + n
      BY <1>3, <2>4
    <2>6. \A i \in 1 .. L : device_slots'[i] = device_slots[i]
      BY <1>3, <2>4
    <2>7. ASSUME NEW i \in L + 1 .. L + n
          PROVE  device_slots'[i] = [owner |-> k, local |-> i - L]
      <3>1. i \in 1 .. L + n /\ ~(i <= L) /\ i - L \in 1 .. n
        BY <1>3
      <3>2. QED BY <2>3, <2>4, <3>1
    <2>8. QED BY <2>4, <2>5, <2>6, <2>7
  <1>6. /\ drivers' \in Seq(Drivers)
        /\ Len(drivers') = k /\ DOMAIN drivers' = 1 .. k
        /\ \A d \in 1 .. Len(drivers) : drivers'[d] = drivers[d]
        /\ drivers'[k].devices = n
    <2>1. drivers \in Seq(Drivers)
      BY <1>0 DEF TypeOK
    <2>2. [kind |-> Registrations[registered + 1], devices |-> n] \in Drivers
      BY <1>3, ConstantTypes
    <2>3. QED BY <1>2, <1>3, <2>1, <2>2
  <1> HIDE DEF Slots, Drivers, L, k
  <1>7. TypeOK'
    <2>1. registered' \in 0 .. Len(Registrations)
      BY <1>1, <1>3
    <2>2. alive' \subseteq {QueryDevices} \cup DOMAIN drivers'
      <3>1. alive \subseteq {QueryDevices} \cup DOMAIN drivers
        BY <1>0 DEF TypeOK
      <3>2. DOMAIN drivers \subseteq 1 .. k /\ k \in 1 .. k
        BY <1>3 DEF k
      <3>3. QED BY <1>1, <1>6, <3>1, <3>2
    <2>3. QED BY <1>0, <1>1, <1>5, <1>6, <2>1, <2>2 DEF TypeOK, Slots, Drivers
  <1>8. Owned'
    <2>1. SUFFICES ASSUME NEW i \in 1 .. L + n
                   PROVE  /\ device_slots'[i].owner \in 1 .. k
                          /\ device_slots'[i].local \in
                                1 .. drivers'[device_slots'[i].owner].devices
      BY <1>5, <1>6 DEF Owned
    <2>2. CASE i \in 1 .. L
      <3>1. /\ device_slots[i].owner \in 1 .. Len(drivers)
            /\ device_slots[i].local \in 1 .. drivers[device_slots[i].owner].devices
        BY <1>0, <1>3, <2>2 DEF Listing, Owned
      <3>2. device_slots[i].owner \in 1 .. k
        BY <1>3, <3>1 DEF k
      <3>3. QED BY <1>5, <1>6, <2>2, <3>1, <3>2
    <2>3. CASE i \in L + 1 .. L + n
      <3>1. i - L \in 1 .. n /\ k \in 1 .. k
        BY <1>3, <2>3
      <3>2. QED BY <1>5, <1>6, <2>3, <3>1
    <2>4. QED BY <1>3, <2>1, <2>2, <2>3
  <1>9. Ordered'
    <2>1. SUFFICES ASSUME NEW i \in 1 .. L + n, NEW j \in 1 .. L + n, i < j
                   PROVE  \/ device_slots'[i].owner < device_slots'[j].owner
                          \/ /\ device_slots'[i].owner = device_slots'[j].owner
                             /\ device_slots'[i].local < device_slots'[j].local
      BY <1>5 DEF Ordered
    <2>2. CASE j \in 1 .. L
      <3>1. i \in 1 .. L
        BY <1>3, <2>1, <2>2
      <3>2. \/ device_slots[i].owner < device_slots[j].owner
            \/ /\ device_slots[i].owner = device_slots[j].owner
               /\ device_slots[i].local < device_slots[j].local
        BY <1>0, <1>3, <2>1, <2>2, <3>1 DEF Listing, Ordered
      <3>3. QED BY <1>5, <2>2, <3>1, <3>2
    <2>3. CASE i \in 1 .. L /\ j \in L + 1 .. L + n
      <3>1. device_slots[i].owner \in 1 .. Len(drivers)
        BY <1>0, <1>3, <2>3 DEF Listing, Owned
      <3>2. device_slots[i].owner < k
        BY <1>3, <3>1 DEF k
      <3>3. QED BY <1>5, <2>3, <3>2
    <2>4. CASE i \in L + 1 .. L + n /\ j \in L + 1 .. L + n
      <3>1. i - L < j - L
        BY <1>3, <2>1
      <3>2. QED BY <1>5, <2>4, <3>1
    <2>5. QED BY <1>3, <2>1, <2>2, <2>3, <2>4
  <1>10. Found'
    <2>1. SUFFICES ASSUME NEW d \in 1 .. k, NEW m \in 1 .. drivers'[d].devices
                   PROVE  \E i \in 1 .. L + n : device_slots'[i] = [owner |-> d, local |-> m]
      <3>1. DOMAIN drivers' = 1 .. k /\ DOMAIN device_slots' = 1 .. L + n
        BY <1>5, <1>6
      <3>2. QED BY <3>1 DEF Found
    <2>2. CASE d \in 1 .. Len(drivers)
      <3>1. PICK i \in 1 .. L : device_slots[i] = [owner |-> d, local |-> m]
        BY <1>0, <1>3, <1>6, <2>1, <2>2 DEF Listing, Found
      <3>2. i \in 1 .. L + n
        BY <1>3
      <3>3. QED BY <1>5, <3>1, <3>2
    <2>3. CASE d = k
      <3>1. m \in 1 .. n
        BY <1>6, <2>1, <2>3
      <3>2. L + m \in L + 1 .. L + n /\ L + m \in 1 .. L + n /\ (L + m) - L = m
        BY <1>3, <3>1
      <3>3. QED BY <1>5, <2>3, <3>2
    <2>4. QED BY <1>3, <2>1, <2>2, <2>3 DEF k
  <1>11. Sizes'
    <2>1. (registered + 1) * MaxDevices = registered * MaxDevices + MaxDevices
          /\ registered * MaxDevices \in Nat
      BY <1>3, ConstantTypes, Product
    <2>2. L <= registered * MaxDevices /\ Len(drivers) <= registered
      BY <1>0 DEF Listing, Sizes, L
    <2>3. n <= MaxDevices
      BY ConstantTypes
    <2>4. L + n <= (registered + 1) * MaxDevices
      BY <1>3, <2>1, <2>2, <2>3, ConstantTypes
    <2>5. k <= registered + 1
      BY <1>3, <2>2 DEF k
    <2>6. QED BY <1>1, <1>5, <1>6, <2>4, <2>5 DEF Sizes
  <1>12. phase # "ready" /\ phase # "none" /\ query_devices = <<>>
    BY <1>0, <1>1 DEF Phases
  <1>13. Phases' /\ Deaths'
    <2>1. Phases'
      BY <1>0, <1>1, <1>12 DEF Phases
    <2>2. Deaths'
      <3>1. QueryDevices # k
        BY <1>3 DEF QueryDevices, k
      <3>2. 1 .. k = (DOMAIN drivers) \cup {k}
        BY <1>3 DEF k
      <3>3. QED BY <1>0, <1>1, <1>6, <3>1, <3>2 DEF Deaths
    <2>3. QED BY <2>1, <2>2
  <1>14. Lookup'
    BY <1>0, <1>1, <1>12, NobodyLooks, LookupUnused
  <1>15. QED BY <1>7, <1>8, <1>9, <1>10, <1>11, <1>13, <1>14 DEF IInv, Listing

LEMMA FinishBuildKeeps ==
    ASSUME IInv, NEW t \in Threads, FinishBuild(t)
    PROVE  IInv'
  <1>0. TypeOK /\ Listing /\ Phases /\ Deaths /\ Lookup
    BY DEF IInv
  <1>1. /\ UNCHANGED <<drivers, device_slots>>
        /\ UNCHANGED <<query_devices, query_mutex, opens, alive, adopted, calls, slot>>
        /\ pc[t] = "building" /\ registered = Len(Registrations)
        /\ Finishes(t, "SUCCESS") \/ Finishes(t, "NO_BACKEND")
        /\ \/ phase' = "ready" /\ registered' = registered
           \/ phase' = "none" /\ registered' = 0 /\ drivers = <<>>
    BY DEF FinishBuild, lookup, ends
  <1>2. /\ pc' = [pc EXCEPT ![t] = "idle"] /\ got' = [got EXCEPT ![t] = NoDevice]
        /\ result' \in [Threads -> Codes]
        /\ context' \in [Threads -> Failures \cup {""}]
    BY <1>0, <1>1, ReturnsCodes DEF Finishes, Codes, Failures
  <1>3. /\ pc \in [Threads -> {"idle", "building", "lock", "find", "open", "use"}]
        /\ got \in [Threads -> Devices \cup {NoDevice}]
    BY <1>0 DEF TypeOK
  <1>4. /\ phase = "building" /\ query_devices = <<>>
        /\ \A u \in Threads : pc[u] \notin Looking /\ pc'[u] \notin Looking
    BY <1>0, <1>1, <1>2, <1>3, NobodyLooks DEF Phases, Looking
  <1>5. got' = got
    <2>1. got[t] = NoDevice
      BY <1>0, <1>1 DEF Lookup, Handed
    <2>2. QED BY <1>2, <1>3, <2>1
  <1>6. available_backends' \subseteq Kinds
    <2>1. CASE available_backends' = available_backends
      BY <1>0, <2>1 DEF TypeOK
    <2>2. CASE available_backends' =
                  {drivers[device_slots[i].owner].kind : i \in DOMAIN device_slots}
      <3>1. \A d \in DOMAIN drivers : drivers[d].kind \in Kinds
        <4>1. drivers \in Seq([kind : Kinds, devices : 0 .. MaxDevices])
          BY <1>0 DEF TypeOK
        <4>2. \A S : drivers \in Seq(S) => \A d \in DOMAIN drivers : drivers[d] \in S
          OBVIOUS
        <4>3. \A d \in DOMAIN drivers : drivers[d] \in [kind : Kinds, devices : 0 .. MaxDevices]
          BY <4>1, <4>2
        <4>4. QED BY <4>3
      <3>2. QED BY <1>0, <2>2, <3>1 DEF Listing, Owned
    <2>3. QED BY <2>1, <2>2 DEF FinishBuild
  <1>7. TypeOK'
    <2>1. registered' \in 0 .. Len(Registrations)
      BY <1>0, <1>1, CounterTypes, ConstantTypes
    <2>2. QED BY <1>0, <1>1, <1>2, <1>5, <1>6, <2>1 DEF TypeOK
  <1>8. Listing'
    <2>1. CASE registered' = registered
      BY <1>0, <1>1, <2>1, ListingKept
    <2>2. CASE registered' = 0 /\ drivers = <<>>
      <3>1. Len(drivers) = 0 /\ DOMAIN drivers = {}
        BY <2>2
      <3>2. DOMAIN device_slots = {}
        BY <1>0, <3>1 DEF Listing, Owned
      <3>3. Len(device_slots) = 0
        BY <1>0, <3>2, SlotsFit DEF Listing
      <3>4. 0 * MaxDevices = 0
        BY ConstantTypes
      <3>5. Sizes'
        BY <1>1, <2>2, <3>1, <3>3, <3>4 DEF Sizes
      <3>6. QED BY <1>1, <3>1, <3>2, <3>5 DEF Listing, Owned, Ordered, Found
    <2>3. QED BY <1>1, <2>1, <2>2
  <1>9. Lookup'
    BY <1>0, <1>1, <1>4, <1>5, LookupUnused
  <1>10. Phases' /\ Deaths'
    <2>1. \A u \in Threads : pc'[u] # "building"
      BY <1>0, <1>1, <1>2, <1>3 DEF Phases
    <2>2. QED BY <1>0, <1>1, <1>4, <2>1 DEF Phases, Deaths, Looking
  <1>11. QED BY <1>2, <1>7, <1>8, <1>9, <1>10 DEF IInv

-----------------------------------------------------------------------------
(* Looking a device up, and using it *)

\* Steps of a thread in query_device leave the rest of the instance alone.
Unbuilt == UNCHANGED <<phase, registered, drivers, device_slots, available_backends,
                       alive, adopted>>

LEMMA LookupStep ==
    ASSUME IInv, NEW t \in Threads, Unbuilt, phase = "ready", TypeOK', Lookup',
           \A u \in Threads \ {t} : pc'[u] = pc[u], pc'[t] # "building"
    PROVE  IInv'
  <1>0. Listing /\ Phases /\ Deaths
    BY DEF IInv
  <1>1. Listing'
    BY <1>0, ListingKept DEF Unbuilt
  <1>2. Phases' /\ Deaths'
    BY <1>0 DEF Phases, Deaths, Unbuilt
  <1>3. QED BY <1>1, <1>2 DEF IInv

\* What is known of a thread in query_device, or after it.
LEMMA LookingKnown ==
    ASSUME IInv, NEW t \in Threads, pc[t] \in Looking
    PROVE  /\ TypeOK /\ Lookup /\ Guarded /\ Resized /\ Handed /\ Filled
           /\ phase = "ready" /\ pc[t] # "building"
           /\ pc \in [Threads -> {"idle", "building", "lock", "find", "open", "use"}]
           /\ got \in [Threads -> Devices \cup {NoDevice}]
           /\ slot[t] \in DOMAIN device_slots
           /\ DOMAIN device_slots = 1 .. Len(device_slots) /\ Len(device_slots) \in Nat
           /\ Len(query_devices) \in Nat /\ DOMAIN query_devices = 1 .. Len(query_devices)
           /\ pc[t] # "lock" => DOMAIN query_devices = DOMAIN device_slots
           /\ \A i \in DOMAIN query_devices : query_devices[i] \in Devices \cup {NoDevice}
  <1>1. TypeOK /\ Lookup /\ Guarded /\ Resized /\ Handed /\ Filled /\ Phases /\ Sizes
    BY DEF IInv, Lookup, Listing
  <1>2. /\ pc \in [Threads -> {"idle", "building", "lock", "find", "open", "use"}]
        /\ got \in [Threads -> Devices \cup {NoDevice}]
        /\ query_devices \in Seq(Devices \cup {NoDevice})
    BY <1>1 DEF TypeOK
  <1>3. phase = "ready" /\ pc[t] # "building" /\ slot[t] \in DOMAIN device_slots
    BY <1>1 DEF Phases, Resized, Looking
  <1>4. /\ DOMAIN device_slots = 1 .. Len(device_slots) /\ Len(device_slots) \in Nat
        /\ Len(query_devices) \in Nat /\ DOMAIN query_devices = 1 .. Len(query_devices)
    BY <1>1, SlotsFit
  <1>5. \A i \in DOMAIN query_devices : query_devices[i] \in Devices \cup {NoDevice}
    BY <1>2
  <1>6. pc[t] # "lock" => DOMAIN query_devices = DOMAIN device_slots
    BY <1>1, <1>4 DEF Resized, Looking
  <1>7. QED BY <1>1, <1>2, <1>3, <1>4, <1>5, <1>6

LEMMA QueryKeeps ==
    ASSUME IInv, NEW t \in Threads, Query(t)
    PROVE  IInv'
  <1>0. TypeOK /\ Listing /\ Lookup /\ Guarded /\ Resized /\ Handed /\ Filled
    BY DEF IInv, Lookup
  <1>1. PICK i \in DOMAIN device_slots : slot' = [slot EXCEPT ![t] = i]
    BY DEF Query
  <1>2. /\ UNCHANGED <<query_devices, query_mutex, opens, got, result, context>> /\ Unbuilt
        /\ phase = "ready" /\ pc[t] = "idle" /\ pc' = [pc EXCEPT ![t] = "lock"]
        /\ calls[t] > 0 /\ calls' = [calls EXCEPT ![t] = @ - 1]
    BY DEF Query, building, lookup, ends, Unbuilt
  <1>3. /\ pc \in [Threads -> {"idle", "building", "lock", "find", "open", "use"}]
        /\ slot \in [Threads -> 1 .. MaxSlots]
    BY <1>0 DEF TypeOK
  <1>4. i \in 1 .. MaxSlots
    BY <1>0, SlotsFit DEF Listing
  <1>5. TypeOK'
    <2>1. calls' \in [Threads -> 0 .. MaxCalls]
      BY <1>0, <1>2, OneCallLess
    <2>2. QED BY <1>0, <1>1, <1>2, <1>4, <2>1 DEF TypeOK, Unbuilt
  <1>6. Lookup'
    <2>1. Guarded'
      BY <1>0, <1>2, <1>3 DEF Guarded
    <2>2. Resized'
      BY <1>0, <1>1, <1>2, <1>3 DEF Resized, Unbuilt
    <2>3. Handed'
      BY <1>0, <1>1, <1>2, <1>3 DEF Handed
    <2>4. Filled'
      BY <1>0, <1>2 DEF Filled, OpenSlots, Unbuilt
    <2>5. QED BY <2>1, <2>2, <2>3, <2>4 DEF Lookup
  <1>7. QED BY <1>2, <1>3, <1>5, <1>6, LookupStep

LEMMA LockKeeps ==
    ASSUME IInv, NEW t \in Threads, Lock(t)
    PROVE  IInv'
  <1>1. /\ UNCHANGED <<opens, calls, slot, got, result, context>> /\ Unbuilt
        /\ pc[t] = "lock" /\ pc[t] \in Looking /\ pc' = [pc EXCEPT ![t] = "find"]
        /\ query_mutex = NoThread /\ query_mutex' = t
        /\ query_devices' = [i \in DOMAIN device_slots |->
              IF i \in DOMAIN query_devices THEN query_devices[i] ELSE NoDevice]
    BY DEF Lock, building, ends, Unbuilt, Looking
  <1>2. /\ TypeOK /\ Lookup /\ Guarded /\ Resized /\ Handed /\ Filled
        /\ phase = "ready"
        /\ pc \in [Threads -> {"idle", "building", "lock", "find", "open", "use"}]
        /\ slot[t] \in DOMAIN device_slots
        /\ DOMAIN device_slots = 1 .. Len(device_slots) /\ Len(device_slots) \in Nat
        /\ Len(query_devices) \in Nat /\ DOMAIN query_devices = 1 .. Len(query_devices)
        /\ \A i \in DOMAIN query_devices : query_devices[i] \in Devices \cup {NoDevice}
    BY <1>1, LookingKnown
  <1>3. /\ query_devices' \in [1 .. Len(device_slots) -> Devices \cup {NoDevice}]
        /\ query_devices' \in Seq(Devices \cup {NoDevice})
        /\ Len(query_devices') = Len(device_slots)
    <2>1. query_devices' \in [1 .. Len(device_slots) -> Devices \cup {NoDevice}]
      BY <1>1, <1>2
    <2>2. QED BY <1>2, <2>1
  <1>4. DOMAIN query_devices \subseteq DOMAIN device_slots
    <2>1. CASE query_devices = <<>>
      BY <2>1
    <2>2. CASE Len(query_devices) = Len(device_slots)
      BY <1>2, <2>2
    <2>3. QED BY <1>2, <2>1, <2>2 DEF Resized
  <1>5. \A i \in DOMAIN query_devices :
           i \in DOMAIN query_devices' /\ query_devices'[i] = query_devices[i]
    BY <1>1, <1>4
  <1>6. \A u \in Threads : query_mutex # u
    BY <1>1, ConstantTypes
  <1>7. Lookup'
    <2>1. Guarded'
      BY <1>1, <1>2, <1>6 DEF Guarded
    <2>2. Resized'
      BY <1>1, <1>2, <1>3 DEF Resized, Unbuilt
    <2>3. Handed'
      <3>1. \A u \in Threads : pc[u] = "use" => slot[u] \in DOMAIN query_devices
        BY <1>2 DEF Resized
      <3>2. \A u \in Threads : pc[u] # "open"
        BY <1>2, <1>6 DEF Guarded
      <3>3. QED BY <1>1, <1>2, <1>5, <3>1, <3>2 DEF Handed
    <2>4. Filled'
      <3>1. OpenSlots' = OpenSlots
        BY <1>1, <1>4, <1>5 DEF OpenSlots
      <3>2. \A i \in OpenSlots : query_devices'[i] = query_devices[i]
        BY <1>5 DEF OpenSlots
      <3>3. QED BY <1>1, <1>2, <3>1, <3>2 DEF Filled, Unbuilt
    <2>5. QED BY <2>1, <2>2, <2>3, <2>4 DEF Lookup
  <1>8. TypeOK'
    BY <1>1, <1>2, <1>3 DEF TypeOK, Unbuilt
  <1>9. QED BY <1>1, <1>2, <1>7, <1>8, LookupStep

\* The vector stays: a device was found, or none, or is not needed any more.
LEMMA FindKeeps ==
    ASSUME IInv, NEW t \in Threads, FindOpened(t) \/ FindClosed(t)
    PROVE  IInv'
  <1>1. /\ UNCHANGED <<query_devices, opens, calls, slot, result, context>> /\ Unbuilt
        /\ pc[t] = "find" /\ pc[t] \in Looking
        /\ \/ /\ query_devices[slot[t]] # NoDevice
              /\ got' = [got EXCEPT ![t] = query_devices[slot[t]]]
              /\ query_mutex' = NoThread /\ pc' = [pc EXCEPT ![t] = "use"]
           \/ /\ query_devices[slot[t]] = NoDevice
              /\ UNCHANGED <<got, query_mutex>> /\ pc' = [pc EXCEPT ![t] = "open"]
    BY DEF FindOpened, FindClosed, building, lookup, ends, Unbuilt, Looking
  <1>2. /\ TypeOK /\ Guarded /\ Resized /\ Handed /\ Filled
        /\ phase = "ready"
        /\ pc \in [Threads -> {"idle", "building", "lock", "find", "open", "use"}]
        /\ got \in [Threads -> Devices \cup {NoDevice}]
        /\ slot[t] \in DOMAIN query_devices
        /\ query_devices[slot[t]] \in Devices \cup {NoDevice}
    BY <1>1, LookingKnown
  <1>3. query_mutex = t /\ \A u \in Threads \ {t} : pc[u] \notin {"find", "open"}
    BY <1>1, <1>2 DEF Guarded
  <1>4. /\ got' \in [Threads -> Devices \cup {NoDevice}]
        /\ query_mutex' \in Threads \cup {NoThread}
        /\ pc' \in [Threads -> {"idle", "building", "lock", "find", "open", "use"}]
        /\ \A u \in Threads \ {t} : pc'[u] = pc[u] /\ got'[u] = got[u]
        /\ pc'[t] # "building"
    BY <1>1, <1>2, <1>3
  <1>5. Lookup'
    <2>1. Guarded'
      BY <1>1, <1>2, <1>3, ConstantTypes DEF Guarded
    <2>2. Resized'
      BY <1>1, <1>2 DEF Resized, Unbuilt
    <2>3. Handed'
      BY <1>1, <1>2, <1>4 DEF Handed
    <2>4. Filled'
      BY <1>1, <1>2 DEF Filled, OpenSlots, Unbuilt
    <2>5. QED BY <2>1, <2>2, <2>3, <2>4 DEF Lookup
  <1>6. TypeOK'
    BY <1>1, <1>2, <1>4 DEF TypeOK, Unbuilt
  <1>7. QED BY <1>1, <1>2, <1>4, <1>5, <1>6, LookupStep

\* A call that ends: the open failed, or the device answered.
LEMMA EndKeeps ==
    ASSUME IInv, NEW t \in Threads, OpenFails(t) \/ Use(t)
    PROVE  IInv'
  <1>1. PICK code \in Codes : Finishes(t, code)
    <2>1. "DEVICE_ERROR" \in Codes
      BY DEF Codes, Failures
    <2>2. QED BY <2>1, OutcomesAreCodes DEF OpenFails, Use
  <1>2. /\ UNCHANGED <<query_devices, opens, calls, slot>> /\ Unbuilt
        /\ \/ pc[t] = "open" /\ query_mutex' = NoThread
           \/ pc[t] = "use" /\ query_mutex' = query_mutex
        /\ pc[t] \in Looking
        /\ pc' = [pc EXCEPT ![t] = "idle"] /\ got' = [got EXCEPT ![t] = NoDevice]
        /\ Returns(t, code)
    BY <1>1 DEF OpenFails, Use, building, lookup, ends, Unbuilt, Looking, Finishes
  <1>3. /\ TypeOK /\ Guarded /\ Resized /\ Handed /\ Filled
        /\ phase = "ready"
        /\ pc \in [Threads -> {"idle", "building", "lock", "find", "open", "use"}]
        /\ got \in [Threads -> Devices \cup {NoDevice}]
    BY <1>2, LookingKnown
  <1>4. /\ result' \in [Threads -> Codes] /\ context' \in [Threads -> Failures \cup {""}]
    BY <1>2, <1>3, ReturnsCodes
  <1>5. Lookup'
    <2>1. Guarded'
      BY <1>2, <1>3, ConstantTypes DEF Guarded
    <2>2. Resized'
      BY <1>2, <1>3 DEF Resized, Unbuilt
    <2>3. Handed'
      BY <1>2, <1>3 DEF Handed
    <2>4. Filled'
      BY <1>2, <1>3 DEF Filled, OpenSlots, Unbuilt
    <2>5. QED BY <2>1, <2>2, <2>3, <2>4 DEF Lookup
  <1>6. TypeOK'
    BY <1>2, <1>3, <1>4 DEF TypeOK, Unbuilt
  <1>7. QED BY <1>2, <1>3, <1>4, <1>5, <1>6, LookupStep

\* A device is opened: the slot it fills was empty, so the openings are counted.
LEMMA OpensKeeps ==
    ASSUME IInv, NEW t \in Threads, Opens(t)
    PROVE  IInv'
  <1> DEFINE s == slot[t]
             device == [owner |-> device_slots[s].owner, local |-> device_slots[s].local,
                        serial |-> opens + 1]
  <1>1. /\ UNCHANGED <<calls, slot, result, context>> /\ Unbuilt
        /\ pc[t] = "open" /\ pc[t] \in Looking
        /\ query_devices' = [query_devices EXCEPT ![s] = device]
        /\ got' = [got EXCEPT ![t] = device]
        /\ opens' = opens + 1 /\ query_mutex' = NoThread /\ pc' = [pc EXCEPT ![t] = "use"]
    BY DEF Opens, building, ends, Unbuilt, Looking
  <1>2. /\ TypeOK /\ Guarded /\ Resized /\ Handed /\ Filled
        /\ phase = "ready"
        /\ pc \in [Threads -> {"idle", "building", "lock", "find", "open", "use"}]
        /\ got \in [Threads -> Devices \cup {NoDevice}]
        /\ s \in DOMAIN query_devices /\ DOMAIN query_devices = DOMAIN device_slots
        /\ DOMAIN query_devices = 1 .. Len(query_devices) /\ Len(query_devices) \in Nat
        /\ DOMAIN device_slots = 1 .. Len(device_slots) /\ Len(device_slots) \in Nat
        /\ \A i \in DOMAIN query_devices : query_devices[i] \in Devices \cup {NoDevice}
    BY <1>1, LookingKnown
  <1>3. query_devices[s] = NoDevice /\ s \notin OpenSlots
    BY <1>1, <1>2 DEF Handed, OpenSlots
  <1>4. Len(device_slots) <= MaxSlots /\ opens \in Nat
    BY <1>2, SlotsFit, CounterTypes DEF IInv, Listing
  \* The slots there are bound the openings.
  <1>5. /\ opens + 1 \in 1 .. MaxSlots
        /\ Cardinality(OpenSlots \cup {s}) = opens + 1
    <2>1. IsFiniteSet(DOMAIN device_slots) /\ Cardinality(DOMAIN device_slots) <= MaxSlots
      <3>1. \A n \in Nat : IsFiniteSet(1 .. n) /\ Cardinality(1 .. n) = n
        <4>1. SUFFICES ASSUME NEW n \in Nat
                       PROVE  IsFiniteSet(1 .. n) /\ Cardinality(1 .. n) = n
          OBVIOUS
        <4>2. 1 \in Int /\ n \in Int
          OBVIOUS
        <4>3. /\ IsFiniteSet(1 .. n)
              /\ Cardinality(1 .. n) = IF 1 > n THEN 0 ELSE n - 1 + 1
          BY <4>2, FS_Interval
        <4>4. QED BY <4>3
      <3>2. QED BY <1>2, <1>4, <3>1
    <2>2. OpenSlots \cup {s} \in SUBSET DOMAIN device_slots
      BY <1>2 DEF OpenSlots
    <2>3. /\ IsFiniteSet(OpenSlots)
          /\ Cardinality(OpenSlots \cup {s}) <= Cardinality(DOMAIN device_slots)
      BY <2>1, <2>2, FS_Subset
    <2>4. Cardinality(OpenSlots \cup {s}) = opens + 1
      BY <1>2, <1>3, <2>3, FS_AddElement DEF Filled
    <2>5. Cardinality(DOMAIN device_slots) \in Nat
      BY <2>1, FS_CardinalityType
    <2>6. QED BY <1>4, <2>1, <2>3, <2>4, <2>5, ConstantTypes
  <1>6. device \in Devices /\ device # NoDevice
    <2>1. device_slots[s] \in [owner : 1 .. Len(Registrations), local : 1 .. MaxDevices]
      <3>1. device_slots \in Seq([owner : 1 .. Len(Registrations), local : 1 .. MaxDevices])
        BY <1>2 DEF TypeOK
      <3>2. s \in 1 .. Len(device_slots)
        BY <1>2
      <3>3. \A S : device_slots \in Seq(S) =>
               \A i \in 1 .. Len(device_slots) : device_slots[i] \in S
        OBVIOUS
      <3>4. QED BY <3>1, <3>2, <3>3
    <2>2. device \in Devices
      BY <1>5, <2>1 DEF Devices
    <2>3. QED BY <2>2, ConstantTypes
  <1>7. device.owner = device_slots[s].owner /\ device.local = device_slots[s].local
    OBVIOUS
  <1> HIDE DEF device, s
  <1>8. /\ query_devices' \in Seq(Devices \cup {NoDevice})
        /\ Len(query_devices') = Len(query_devices)
        /\ DOMAIN query_devices' = DOMAIN query_devices
        /\ query_devices'[s] = device
        /\ \A i \in DOMAIN query_devices : i # s => query_devices'[i] = query_devices[i]
    <2>1. query_devices \in Seq(Devices \cup {NoDevice})
      BY <1>2 DEF TypeOK
    <2>2. QED BY <1>1, <1>2, <1>6, <2>1
  <1>9. OpenSlots' = OpenSlots \cup {s}
    BY <1>2, <1>6, <1>8 DEF OpenSlots
  <1>10. query_mutex = t /\ \A u \in Threads \ {t} : pc[u] \notin {"find", "open"}
    BY <1>1, <1>2 DEF Guarded
  <1>11. /\ got' \in [Threads -> Devices \cup {NoDevice}] /\ got'[t] = device
         /\ pc' \in [Threads -> {"idle", "building", "lock", "find", "open", "use"}]
         /\ pc'[t] = "use"
         /\ \A u \in Threads \ {t} : pc'[u] = pc[u] /\ got'[u] = got[u]
    BY <1>1, <1>2, <1>6
  <1>12. Lookup'
    <2>1. Guarded'
      BY <1>1, <1>10, <1>11, ConstantTypes DEF Guarded
    <2>2. Resized'
      <3>1. Len(query_devices') = Len(device_slots)
        BY <1>1, <1>2, <1>8 DEF Resized
      <3>2. QED BY <1>1, <1>2, <1>11, <3>1 DEF Resized, Unbuilt, s
    <2>3. Handed'
      <3>1. \A u \in Threads \ {t} :
               pc[u] = "use" => slot[u] # s /\ slot[u] \in DOMAIN query_devices
        BY <1>2, <1>3 DEF Handed, Resized
      <3>2. QED BY <1>1, <1>2, <1>6, <1>8, <1>10, <1>11, <3>1 DEF Handed, s
    <2>4. Filled'
      <3>1. opens' = Cardinality(OpenSlots')
        BY <1>1, <1>5, <1>9
      <3>2. ASSUME NEW i \in OpenSlots'
            PROVE  /\ i \in DOMAIN device_slots
                   /\ query_devices'[i].owner = device_slots[i].owner
                   /\ query_devices'[i].local = device_slots[i].local
        <4>1. CASE i = s
          BY <1>2, <1>7, <1>8, <4>1
        <4>2. CASE i # s
          <5>1. i \in OpenSlots /\ i \in DOMAIN query_devices
            BY <1>9, <4>2 DEF OpenSlots
          <5>2. QED BY <1>2, <1>8, <4>2, <5>1 DEF Filled
        <4>3. QED BY <4>1, <4>2
      <3>3. QED BY <1>1, <3>1, <3>2 DEF Filled, Unbuilt
    <2>5. QED BY <2>1, <2>2, <2>3, <2>4 DEF Lookup
  <1>13. TypeOK'
    <2>1. opens' \in 0 .. MaxSlots
      BY <1>1, <1>5
    <2>2. QED BY <1>1, <1>2, <1>8, <1>11, <2>1 DEF TypeOK, Unbuilt
  <1>14. QED BY <1>1, <1>2, <1>11, <1>12, <1>13, LookupStep

-----------------------------------------------------------------------------
(* The end of the instance, and every step *)

LEMMA DeathKeeps ==
    ASSUME IInv, DeleteInstance \/ DestroyMember \/ InstanceGone
    PROVE  IInv'
  <1>0. TypeOK /\ Listing /\ Phases /\ Deaths /\ Lookup
    BY DEF IInv
  <1>1. /\ UNCHANGED <<registered, drivers, device_slots, available_backends>>
        /\ UNCHANGED <<query_devices, query_mutex, opens, adopted>>
        /\ UNCHANGED <<pc, calls, slot, got, result, context>>
    BY DEF DeleteInstance, DestroyMember, InstanceGone, building, lookup, ends, callers
  <1>2. /\ phase' \in {"dying", "gone"} /\ phase \in {"ready", "dying"}
        /\ alive' \subseteq alive
        /\ alive' = alive \/ alive' = alive \ NextMember
        /\ phase = "ready" => \A u \in Threads : pc[u] = "idle"
    BY DEF DeleteInstance, DestroyMember, InstanceGone, building, ends
  <1>3. TypeOK'
    BY <1>0, <1>1, <1>2 DEF TypeOK
  <1>4. Phases'
    BY <1>0, <1>1, <1>2 DEF Phases
  <1>5. Deaths'
    <2>1. QueryDevices \in alive' => alive' = alive
      BY <1>2 DEF NextMember
    <2>2. QED BY <1>0, <1>1, <2>1 DEF Deaths
  <1>6. Listing' /\ Lookup'
    BY <1>0, <1>1, ListingKept, LookupKept
  <1>7. QED BY <1>3, <1>4, <1>5, <1>6 DEF IInv

LEMMA NextIInv == IInv /\ [Next]_vars => IInv'
  <1> SUFFICES ASSUME IInv, [Next]_vars PROVE IInv'
    OBVIOUS
  <1>1. ASSUME NEW t \in Threads, Start(t) PROVE IInv'
    BY <1>1, ShortCallsKeep, StartBuildKeeps, QueryKeeps DEF Start
  <1>2. ASSUME NEW t \in Threads, Build(t) PROVE IInv'
    BY <1>2, DriverUnavailableKeeps, DriverReadyKeeps, FinishBuildKeeps DEF Build
  <1>3. ASSUME NEW t \in Threads, Lock(t) \/ Locate(t) \/ Use(t) PROVE IInv'
    BY <1>3, LockKeeps, FindKeeps, OpensKeeps, EndKeeps DEF Locate
  <1>4. CASE DeleteInstance \/ DestroyMember \/ InstanceGone
    BY <1>4, DeathKeeps
  <1>5. CASE UNCHANGED vars
    <2>1. /\ UNCHANGED <<building, lookup, alive, adopted, pc, calls, slot, got, result, context>>
      BY <1>5 DEF vars, ends, callers
    <2>2. QED BY <2>1, QuietKeeps DEF IInv, TypeOK
  <1>6. QED BY <1>1, <1>2, <1>3, <1>4, <1>5 DEF Next, Step

\* The device list, the phases and the lookup, in every reachable state.
THEOREM InstanceInvariant == Spec => []IInv
  BY InitIInv, NextIInv, PTL DEF Spec

-----------------------------------------------------------------------------
(* What follows from it *)

\* Types: the vectors stay within the slots there can be, and devices are opened no
\* more often than there are slots.
THEOREM InstanceTypes == Spec => []TypeOK
  <1>1. IInv => TypeOK
    BY DEF IInv
  <1>2. QED BY <1>1, InstanceInvariant, PTL

\* The device list numbers every device of every driver that came up exactly once,
\* in driver order, whichever registrations failed.
THEOREM ListNumbersDevices == Spec => []SlotsNumberDevices
  <1>1. IInv => SlotsNumberDevices
    <2>1. SUFFICES ASSUME IInv PROVE SlotsNumberDevices
      OBVIOUS
    <2>2. TypeOK /\ Owned /\ Ordered /\ Found /\ Sizes
      BY <2>1 DEF IInv, Listing
    <2>3. ASSUME NEW d \in DOMAIN drivers, NEW n \in 1 .. drivers[d].devices
          PROVE  Cardinality({i \in DOMAIN device_slots :
                                 device_slots[i] = [owner |-> d, local |-> n]}) = 1
      <3>1. PICK i \in DOMAIN device_slots : device_slots[i] = [owner |-> d, local |-> n]
        BY <2>2 DEF Found
      <3>2. \A j \in DOMAIN device_slots :
               device_slots[j] = [owner |-> d, local |-> n] => j = i
        <4>1. SUFFICES ASSUME NEW j \in DOMAIN device_slots,
                              device_slots[j] = [owner |-> d, local |-> n], j # i
                       PROVE  FALSE
          OBVIOUS
        <4>2. i \in Nat /\ j \in Nat /\ d \in Nat /\ n \in Nat
          BY <2>2, SlotsFit
        <4>3. i < j \/ j < i
          BY <4>1, <4>2
        <4>4. d < d \/ n < n
          BY <2>2, <3>1, <4>1, <4>3 DEF Ordered
        <4>5. QED BY <4>2, <4>4
      <3>3. {k \in DOMAIN device_slots : device_slots[k] = [owner |-> d, local |-> n]} = {i}
        BY <3>1, <3>2
      <3>4. QED BY <3>3, FS_Singleton
    <2>4. QED BY <2>2, <2>3 DEF SlotsNumberDevices, Owned, Ordered
  <1>2. QED BY <1>1, InstanceInvariant, PTL

\* The device a query uses, with no lock held, is still the instance's, and the one
\* its index lists.
THEOREM UsedIsListed == Spec => []UsedDeviceIsListed
  <1>1. IInv => UsedDeviceIsListed
    <2>1. SUFFICES ASSUME IInv, NEW t \in Threads, pc[t] = "use"
                   PROVE  /\ got[t] = query_devices[slot[t]]
                          /\ got[t].owner = device_slots[slot[t]].owner
                          /\ got[t].local = device_slots[slot[t]].local
      BY DEF UsedDeviceIsListed
    <2>2. /\ Handed /\ Filled /\ slot[t] \in DOMAIN query_devices
      BY <2>1, LookingKnown DEF Looking
    <2>3. got[t] = query_devices[slot[t]] /\ slot[t] \in OpenSlots
      BY <2>1, <2>2 DEF Handed, OpenSlots
    <2>4. QED BY <2>2, <2>3 DEF Filled
  <1>2. QED BY <1>1, InstanceInvariant, PTL

\* A query device never outlives the driver it refers to.
THEOREM DriversOutliveDevices == Spec => []DevicesHaveDrivers
  <1>1. IInv => DevicesHaveDrivers
    BY DEF IInv, Listing, Lookup, Owned, Filled, OpenSlots, Deaths, DevicesHaveDrivers
  <1>2. QED BY <1>1, InstanceInvariant, PTL

-----------------------------------------------------------------------------
(* The lookup implements a table of cells *)

CellsFixed == UNCHANGED <<Cells, slot, got>>

\* A step that leaves the vector alone leaves the cells alone.
LEMMA CellsKept ==
    ASSUME UNCHANGED query_devices
    PROVE  Cells' = Cells
  BY DEF Cells

LEMMA CellOf ==
    ASSUME IInv, NEW t \in Threads, pc[t] \in Looking, pc[t] # "lock"
    PROVE  slot[t] \in 1 .. MaxSlots /\ Cells[slot[t]] = query_devices[slot[t]]
  <1>1. slot[t] \in DOMAIN query_devices /\ slot[t] \in DOMAIN device_slots
    BY LookingKnown
  <1>2. DOMAIN device_slots \subseteq 1 .. MaxSlots
    BY SlotsFit DEF IInv, Listing
  <1>3. QED BY <1>1, <1>2 DEF Cells

LEMMA InitRefines == Init => Opened!MemoInit
  <1> SUFFICES ASSUME Init PROVE Opened!MemoInit
    OBVIOUS
  <1>1. DOMAIN query_devices = {}
    <2>1. query_devices = <<>>
      BY DEF Init
    <2>2. QED BY <2>1
  <1>2. Cells = [k \in 1 .. MaxSlots |-> NoDevice]
    BY <1>1 DEF Cells
  <1>3. 1 \in 1 .. MaxSlots
    BY ConstantTypes
  <1>4. QED BY <1>2, <1>3 DEF Init, Opened!MemoInit

\* The lookup's steps are those of the table.
LEMMA LookupRefines ==
    ASSUME IInv, NEW t \in Threads, Lock(t) \/ Locate(t) \/ Use(t)
    PROVE  \/ CellsFixed
           \/ Opened!Hit(t) \/ Opened!Fill(t) \/ Opened!Return(t)
  <1>0. /\ pc[t] \in Looking /\ UNCHANGED slot
    BY DEF Lock, Locate, FindOpened, FindClosed, OpenFails, Opens, Use, Looking, building, lookup
  <1>1. /\ TypeOK /\ Resized /\ Handed
        /\ got \in [Threads -> Devices \cup {NoDevice}]
        /\ DOMAIN query_devices = 1 .. Len(query_devices)
        /\ \A i \in DOMAIN query_devices : query_devices[i] \in Devices \cup {NoDevice}
        /\ slot[t] \in DOMAIN device_slots
        /\ DOMAIN device_slots = 1 .. Len(device_slots)
        /\ pc[t] # "lock" => DOMAIN query_devices = DOMAIN device_slots
    BY <1>0, LookingKnown
  <1>2. pc[t] # "use" => got[t] = NoDevice
    BY <1>1 DEF Handed
  <1>3. CASE Lock(t)
    <2>1. query_devices' = [i \in DOMAIN device_slots |->
              IF i \in DOMAIN query_devices THEN query_devices[i] ELSE NoDevice]
      BY <1>3 DEF Lock
    <2>2. DOMAIN query_devices \subseteq DOMAIN device_slots
      <3>1. CASE query_devices = <<>>
        BY <3>1
      <3>2. CASE Len(query_devices) = Len(device_slots)
        BY <1>1, <3>2
      <3>3. QED BY <1>1, <3>1, <3>2 DEF Resized
    <2>3. Cells' = Cells
      BY <2>1, <2>2 DEF Cells
    <2>4. QED BY <1>0, <1>3, <2>3 DEF Lock, CellsFixed
  <1>4. CASE FindOpened(t)
    <2>1. /\ pc[t] = "find" /\ query_devices[slot[t]] # NoDevice
          /\ got' = [got EXCEPT ![t] = query_devices[slot[t]]] /\ UNCHANGED query_devices
      BY <1>4 DEF FindOpened
    <2>2. Cells[slot[t]] = query_devices[slot[t]] /\ Cells' = Cells
      BY <1>0, <2>1, CellOf, CellsKept
    <2>3. QED BY <1>0, <1>2, <2>1, <2>2 DEF Opened!Hit
  <1>5. CASE FindClosed(t)
    <2>1. UNCHANGED <<query_devices, got>>
      BY <1>5 DEF FindClosed, lookup
    <2>2. QED BY <1>0, <2>1, CellsKept DEF CellsFixed
  <1>6. CASE OpenFails(t)
    <2>1. /\ pc[t] = "open" /\ UNCHANGED query_devices /\ got' = [got EXCEPT ![t] = NoDevice]
      BY <1>6 DEF OpenFails, Finishes
    <2>2. got' = got
      BY <1>1, <1>2, <2>1
    <2>3. QED BY <1>0, <2>1, <2>2, CellsKept DEF CellsFixed
  <1>7. CASE Use(t)
    <2>1. /\ pc[t] = "use" /\ UNCHANGED query_devices /\ got' = [got EXCEPT ![t] = NoDevice]
      BY <1>7 DEF Use, Finishes, lookup
    <2>2. got[t] # NoDevice
      BY <1>1, <2>1 DEF Handed
    <2>3. QED BY <1>0, <2>1, <2>2, CellsKept DEF Opened!Return
  <1>8. CASE Opens(t)
    <2> DEFINE s == slot[t]
               device == [owner |-> device_slots[s].owner, local |-> device_slots[s].local,
                          serial |-> opens + 1]
    <2>1. /\ pc[t] = "open" /\ query_devices' = [query_devices EXCEPT ![s] = device]
          /\ got' = [got EXCEPT ![t] = device]
      BY <1>8 DEF Opens
    <2>2. query_devices[s] = NoDevice
      BY <1>1, <2>1 DEF Handed
    <2>3. /\ s \in 1 .. MaxSlots /\ Cells[s] = NoDevice
          /\ s \in DOMAIN query_devices /\ DOMAIN query_devices = DOMAIN device_slots
      BY <1>0, <1>1, <2>1, <2>2, CellOf
    <2>4. device \in Devices
      <3>1. IInv'
        BY <1>8, OpensKeeps
      <3>2. got' \in [Threads -> Devices \cup {NoDevice}] /\ pc'[t] = "use" /\ Handed'
        <4>1. pc \in [Threads -> {"idle", "building", "lock", "find", "open", "use"}]
          BY <1>1 DEF TypeOK
        <4>2. pc' = [pc EXCEPT ![t] = "use"]
          BY <1>8 DEF Opens
        <4>3. QED BY <3>1, <4>1, <4>2 DEF IInv, TypeOK, Lookup
      <3>3. got'[t] = device /\ got'[t] # NoDevice
        BY <1>1, <2>1, <3>2 DEF Handed
      <3>4. QED BY <3>2, <3>3
    <2> HIDE DEF device, s
    <2>5. Cells' = [Cells EXCEPT ![s] = device]
      <3>1. DOMAIN query_devices' = DOMAIN query_devices
        BY <2>1
      <3>2. QED BY <2>1, <2>3, <3>1 DEF Cells
    <2>6. QED BY <1>0, <1>2, <2>1, <2>3, <2>4, <2>5 DEF Opened!Fill, s
  <1>9. QED BY <1>3, <1>4, <1>5, <1>6, <1>7, <1>8 DEF Locate

LEMMA NextRefines ==
    ASSUME IInv, [Next]_vars
    PROVE  [Opened!MemoNext]_<<Cells, slot, got>>
  <1>1. ASSUME NEW t \in Threads, Query(t)
        PROVE  \E k \in 1 .. MaxSlots : Opened!Ask(t, k)
    <2>1. PICK i \in DOMAIN device_slots : slot' = [slot EXCEPT ![t] = i]
      BY <1>1 DEF Query
    <2>2. i \in 1 .. MaxSlots
      BY SlotsFit DEF IInv, Listing
    <2>3. pc[t] = "idle" /\ UNCHANGED <<query_devices, got>>
      BY <1>1 DEF Query, lookup
    <2>4. got[t] = NoDevice /\ Cells' = Cells
      BY <2>3, CellsKept DEF IInv, Lookup, Handed
    <2>5. Opened!Ask(t, i)
      BY <2>1, <2>3, <2>4 DEF Opened!Ask
    <2>6. QED BY <2>2, <2>5
  <1>2. ASSUME NEW t \in Threads, Start(t), ~Query(t)
        PROVE  CellsFixed
    <2>1. UNCHANGED <<query_devices, slot, got>>
      BY <1>2 DEF Start, NullArgument, RefuseNew, StartBuild, Enumerate, IndexOutOfRange,
                  Adopt, QueryAdopted, DeleteDevice, lookup, callers
    <2>2. QED BY <2>1, CellsKept DEF CellsFixed
  <1>3. ASSUME NEW t \in Threads, Build(t)
        PROVE  CellsFixed
    <2>1. UNCHANGED <<query_devices, slot>>
      BY <1>3 DEF Build, DriverUnavailable, DriverReady, FinishBuild, lookup, callers
    <2>2. got' = got
      <3>1. CASE FinishBuild(t)
        <4>1. pc[t] = "building" /\ got' = [got EXCEPT ![t] = NoDevice]
          BY <3>1 DEF FinishBuild, Finishes
        <4>2. got[t] = NoDevice /\ got \in [Threads -> Devices \cup {NoDevice}]
          BY <4>1 DEF IInv, TypeOK, Lookup, Handed
        <4>3. QED BY <4>1, <4>2
      <3>2. CASE ~FinishBuild(t)
        BY <1>3, <3>2 DEF Build, DriverUnavailable, DriverReady, callers
      <3>3. QED BY <3>1, <3>2
    <2>3. QED BY <2>1, <2>2, CellsKept DEF CellsFixed
  <1>4. ASSUME NEW t \in Threads, Lock(t) \/ Locate(t) \/ Use(t)
        PROVE  CellsFixed \/ Opened!Hit(t) \/ Opened!Fill(t) \/ Opened!Return(t)
    BY <1>4, LookupRefines
  <1>5. CASE DeleteInstance \/ DestroyMember \/ InstanceGone \/ UNCHANGED vars
    <2>1. UNCHANGED <<query_devices, slot, got>>
      BY <1>5 DEF DeleteInstance, DestroyMember, InstanceGone, vars, lookup, callers
    <2>2. CellsFixed
      BY <2>1, CellsKept DEF CellsFixed
    <2>3. QED BY <2>2 DEF CellsFixed
  <1>6. QED
    BY <1>1, <1>2, <1>3, <1>4, <1>5 DEF Next, Step, CellsFixed, Opened!MemoNext

\* Whatever threads do meanwhile, each index is a cell filled by one successful open
\* and handed out unchanged to every query of it.
THEOREM LookupImplementsCells == Spec => OpensOnce
  <1>1. IInv /\ [Next]_vars => [Opened!MemoNext]_Opened!memoVars
    BY NextRefines DEF Opened!memoVars
  <1>2. QED BY <1>1, InitRefines, InstanceInvariant, PTL DEF Spec, OpensOnce, Opened!MemoSpec
=============================================================================
