------------------------------ MODULE Instance ------------------------------
(***************************************************************************)
(* enc_instance (instance.cpp, native.cpp) and the calls of the public API *)
(* that go through it: building it from the registered drivers, opening    *)
(* query devices lazily under query_mutex, adopting devices, and           *)
(* destroying its members; with the thread_local error context (error.cpp) *)
(* every call leaves behind.                                               *)
(*                                                                         *)
(* What a device answers once it is found is CodecCache's subject: here it *)
(* succeeds or fails.  Sequences count from 1, so index i of the code is   *)
(* i + 1.                                                                  *)
(***************************************************************************)
EXTENDS Naturals, Sequences, FiniteSets

CONSTANTS
    Threads,        \* application threads
    Registrations,  \* registered_drivers(): the kind of each, in order
    MaxDevices,     \* bound: devices a driver finds
    MaxCalls,       \* bound: calls each thread makes
    MaxAdopted,     \* bound: adopted devices alive at once
    NoThread,       \* query_mutex is free
    NoDevice        \* a null pointer

\* The member query_devices, beside the drivers 1, 2, ...
QueryDevices == 0

MaxSlots == Len(Registrations) * MaxDevices

\* A device a driver opens: the driver, which of its devices, and the opening.
Devices ==
    [owner : 1 .. Len(Registrations), local : 1 .. MaxDevices, serial : 1 .. MaxSlots]

ASSUME InstanceAssumption ==
    /\ Registrations \in Seq(STRING)
    /\ MaxDevices \in Nat
    /\ MaxCalls \in Nat
    /\ MaxAdopted \in Nat
    /\ NoThread \notin Threads
    /\ NoDevice \notin Devices
    /\ MaxSlots > 0

VARIABLES
    phase,          \* "none", "building", "ready", "dying", "gone"
    registered,     \* registrations tried so far
    drivers,        \* the drivers vector: [kind, devices]
    device_slots,   \* the device list: [owner, local]
    available_backends,
    query_devices,  \* the lazily opened devices, one per slot once resized
    query_mutex,    \* the thread that holds the mutex, or NoThread
    opens,          \* devices opened so far: names the next one
    alive,          \* the members not yet destroyed: QueryDevices, and driver numbers
    adopted,        \* enc_devices the application holds
    pc, calls,      \* where each thread is, and the calls it may still make
    slot,           \* the slot it looks up
    got,            \* the device query_device gave it
    result,         \* the code its last call returned
    context         \* its thread_local error text: the code it is about, or ""

building == <<phase, registered, drivers, device_slots, available_backends>>
lookup   == <<query_devices, query_mutex, opens>>
ends     == <<alive, adopted>>
callers  == <<pc, calls, slot, got>>
vars     == <<building, lookup, ends, callers, result, context>>

-----------------------------------------------------------------------------
(* Results: set_error_result *)

Failures ==
    {"INVALID_ARGUMENT", "INVALID_STRUCT_SIZE", "INVALID_STRUCT_VERSION",
     "VERSION_MISMATCH", "NO_BACKEND", "NO_DEVICE", "BACKEND_MISMATCH",
     "DEVICE_ERROR"}

\* NULL_ARGUMENT stands for INVALID_ARGUMENT where a pointer is null: that error
\* comes without a text.
Codes == Failures \cup {"SUCCESS", "INCOMPLETE", "NULL_ARGUMENT"}

\* The call returns code: an error stores its text, a code without one clears it.
Returns(t, code) ==
    /\ result' = [result EXCEPT ![t] = code]
    /\ context' = [context EXCEPT ![t] = IF code \in Failures THEN code ELSE ""]

\* A call that starts and returns in one step.
CallReturns(t, code) ==
    /\ pc[t] = "idle"
    /\ calls[t] > 0
    /\ calls' = [calls EXCEPT ![t] = @ - 1]
    /\ Returns(t, code)

\* A call in progress returns.
Finishes(t, code) ==
    /\ pc' = [pc EXCEPT ![t] = "idle"]
    /\ got' = [got EXCEPT ![t] = NoDevice]
    /\ Returns(t, code)

-----------------------------------------------------------------------------
(* What the application asks for *)

\* enc_instance_query_capabilities, _format, _concurrency: whether the codec is
\* one bit, and whether the backend is any, the device's, or another.
Queries ==
    [query : {"capabilities", "format", "concurrency"},
     codec : {"single", "mask"},
     backend : {"none", "own", "foreign", "several"}]

Kinds == {Registrations[i] : i \in DOMAIN Registrations}

Init ==
    /\ phase = "none"
    /\ registered = 0
    /\ drivers = <<>>
    /\ device_slots = <<>>
    /\ available_backends = {}
    /\ query_devices = <<>>
    /\ query_mutex = NoThread
    /\ opens = 0
    /\ alive = {QueryDevices}
    /\ adopted = 0
    /\ pc = [t \in Threads |-> "idle"]
    /\ calls = [t \in Threads |-> MaxCalls]
    /\ slot = [t \in Threads |-> 1]
    /\ got = [t \in Threads |-> NoDevice]
    /\ result = [t \in Threads |-> "SUCCESS"]
    /\ context = [t \in Threads |-> ""]

-----------------------------------------------------------------------------
\* Any of the calls, with a null instance, device or output.
NullArgument(t) ==
    /\ CallReturns(t, "NULL_ARGUMENT")
    /\ UNCHANGED <<building, lookup, ends, pc, slot, got>>

(* enc_instance_new *)

\* What check_struct refuses a struct for: null, of no known size, too new.
StructRefusals == {"INVALID_ARGUMENT", "INVALID_STRUCT_SIZE", "INVALID_STRUCT_VERSION"}

\* check_struct or the version check refuses the caller's struct.
RefuseNew(t) ==
    /\ phase = "none"
    /\ \E code \in StructRefusals \cup {"VERSION_MISMATCH"} : CallReturns(t, code)
    /\ UNCHANGED <<building, lookup, ends, pc, slot, got>>

\* build_instance begins.
StartBuild(t) ==
    /\ phase = "none"
    /\ pc[t] = "idle"
    /\ calls[t] > 0
    /\ calls' = [calls EXCEPT ![t] = @ - 1]
    /\ pc' = [pc EXCEPT ![t] = "building"]
    /\ phase' = "building"
    /\ UNCHANGED <<registered, drivers, device_slots, available_backends, lookup,
                   ends, slot, got, result, context>>

\* registration.create fails: it is logged and passed over.
DriverUnavailable(t) ==
    /\ pc[t] = "building"
    /\ registered < Len(Registrations)
    /\ registered' = registered + 1
    /\ UNCHANGED <<phase, drivers, device_slots, available_backends, lookup, ends,
                   callers, result, context>>

\* A bug: slots carry the number of the registration, not of the driver.
DriverReadyByRegistration(t) ==
    /\ pc[t] = "building"
    /\ registered < Len(Registrations)
    /\ registered' = registered + 1
    /\ \E n \in 0 .. MaxDevices :
          /\ device_slots' = device_slots \o
                [i \in 1 .. n |-> [owner |-> registered + 1, local |-> i]]
          /\ drivers' = Append(drivers, [kind |-> Registrations[registered + 1], devices |-> n])
    /\ alive' = alive \cup {Len(drivers) + 1}
    /\ UNCHANGED <<phase, available_backends, lookup, adopted, callers, result, context>>

\* The driver is ready: one slot per device it found, then the driver itself.
DriverReady(t) ==
    /\ pc[t] = "building"
    /\ registered < Len(Registrations)
    /\ registered' = registered + 1
    /\ \E n \in 0 .. MaxDevices :
          /\ device_slots' = device_slots \o
                [i \in 1 .. n |-> [owner |-> Len(drivers) + 1, local |-> i]]
          /\ drivers' = Append(drivers, [kind |-> Registrations[registered + 1], devices |-> n])
    /\ alive' = alive \cup {Len(drivers) + 1}
    /\ UNCHANGED <<phase, available_backends, lookup, adopted, callers, result, context>>

\* All registrations tried.  No driver: the instance is dropped again.
FinishBuild(t) ==
    /\ pc[t] = "building"
    /\ registered = Len(Registrations)
    /\ \/ /\ drivers # <<>>
          /\ phase' = "ready"
          /\ available_backends' =
                {drivers[device_slots[i].owner].kind : i \in DOMAIN device_slots}
          /\ Finishes(t, "SUCCESS")
          /\ UNCHANGED registered
       \/ /\ drivers = <<>>
          /\ phase' = "none"
          /\ registered' = 0
          /\ Finishes(t, "NO_BACKEND")
          /\ UNCHANGED available_backends
    /\ UNCHANGED <<drivers, device_slots, lookup, ends, calls, slot>>

-----------------------------------------------------------------------------
(* enc_enumerate_devices and the query functions *)

\* enc_enumerate_devices with an array too small, and with one that is not (or none).
Enumerate(t) ==
    /\ phase = "ready"
    /\ \E count \in 0 .. MaxSlots :
          CallReturns(t, IF count < Len(device_slots) THEN "INCOMPLETE" ELSE "SUCCESS")
    /\ UNCHANGED <<building, lookup, ends, pc, slot, got>>

\* A query of an index past the device list.
IndexOutOfRange(t) ==
    /\ phase = "ready"
    /\ Len(device_slots) < MaxSlots
    /\ CallReturns(t, "NO_DEVICE")
    /\ UNCHANGED <<building, lookup, ends, pc, slot, got>>

\* A query of a device in the list: on to query_device's lock.
Query(t) ==
    /\ phase = "ready"
    /\ pc[t] = "idle"
    /\ calls[t] > 0
    /\ calls' = [calls EXCEPT ![t] = @ - 1]
    /\ \E i \in DOMAIN device_slots : slot' = [slot EXCEPT ![t] = i]
    /\ pc' = [pc EXCEPT ![t] = "lock"]
    /\ UNCHANGED <<building, lookup, ends, got, result, context>>

\* scoped_lock guard(query_mutex), and the resize to one pointer per slot.
Lock(t) ==
    /\ pc[t] = "lock"
    /\ query_mutex = NoThread
    /\ query_mutex' = t
    /\ query_devices' = [i \in DOMAIN device_slots |->
          IF i \in DOMAIN query_devices THEN query_devices[i] ELSE NoDevice]
    /\ pc' = [pc EXCEPT ![t] = "find"]
    /\ UNCHANGED <<building, opens, ends, calls, slot, got, result, context>>

\* The device is open: its pointer is returned and the mutex released.
FindOpened(t) ==
    /\ pc[t] = "find"
    /\ query_devices[slot[t]] # NoDevice
    /\ got' = [got EXCEPT ![t] = query_devices[slot[t]]]
    /\ query_mutex' = NoThread
    /\ pc' = [pc EXCEPT ![t] = "use"]
    /\ UNCHANGED <<building, query_devices, opens, ends, calls, slot, result, context>>

\* A bug: the mutex is not held while the driver opens the device.
FindClosedUnlocked(t) ==
    /\ pc[t] = "find"
    /\ query_devices[slot[t]] = NoDevice
    /\ query_mutex' = NoThread
    /\ pc' = [pc EXCEPT ![t] = "open"]
    /\ UNCHANGED <<building, query_devices, opens, ends, calls, slot, got,
                   result, context>>

\* It is not: the driver is asked to open it, the mutex still held.
FindClosed(t) ==
    /\ pc[t] = "find"
    /\ query_devices[slot[t]] = NoDevice
    /\ pc' = [pc EXCEPT ![t] = "open"]
    /\ UNCHANGED <<building, lookup, ends, calls, slot, got, result, context>>

\* A bug: the error path leaves with the mutex held.
OpenFailsLocked(t) ==
    /\ pc[t] = "open"
    /\ Finishes(t, "DEVICE_ERROR")
    /\ UNCHANGED <<building, lookup, ends, calls, slot>>

\* driver->open fails: passed on, nothing kept.
OpenFails(t) ==
    /\ pc[t] = "open"
    /\ query_mutex' = NoThread
    /\ Finishes(t, "DEVICE_ERROR")
    /\ UNCHANGED <<building, query_devices, opens, ends, calls, slot>>

\* A bug: the driver is asked for the slot's number, not its own device's.
OpensByIndex(t) ==
    /\ pc[t] = "open"
    /\ LET device == [owner |-> device_slots[slot[t]].owner, local |-> slot[t],
                      serial |-> opens + 1]
       IN /\ query_devices' = [query_devices EXCEPT ![slot[t]] = device]
          /\ got' = [got EXCEPT ![t] = device]
    /\ opens' = opens + 1
    /\ query_mutex' = NoThread
    /\ pc' = [pc EXCEPT ![t] = "use"]
    /\ UNCHANGED <<building, ends, calls, slot, result, context>>

\* drivers[owner]->open(local) succeeds: the device is kept and returned.  It
\* replaces, and so destroys, whatever the slot held.
Opens(t) ==
    /\ pc[t] = "open"
    /\ LET device == [owner |-> device_slots[slot[t]].owner,
                      local |-> device_slots[slot[t]].local,
                      serial |-> opens + 1]
       IN /\ query_devices' = [query_devices EXCEPT ![slot[t]] = device]
          /\ got' = [got EXCEPT ![t] = device]
    /\ opens' = opens + 1
    /\ query_mutex' = NoThread
    /\ pc' = [pc EXCEPT ![t] = "use"]
    /\ UNCHANGED <<building, ends, calls, slot, result, context>>

\* check_codec, then check_backend, and only then the device: a concurrency
\* query makes neither check.
Outcomes(q) ==
    IF q.query # "concurrency" /\ (q.codec = "mask" \/ q.backend = "several")
    THEN {"INVALID_ARGUMENT"}
    ELSE IF q.query # "concurrency" /\ q.backend = "foreign"
    THEN {"BACKEND_MISMATCH"}
    ELSE {"SUCCESS", "DEVICE_ERROR"}

\* The pointer is used with no lock held: the checks, or the device, answer.
Use(t) ==
    /\ pc[t] = "use"
    /\ \E q \in Queries : \E code \in Outcomes(q) : Finishes(t, code)
    /\ UNCHANGED <<building, lookup, ends, calls, slot>>

-----------------------------------------------------------------------------
(* enc_device_new_from_native, enc_device_delete *)

\* The first driver of the kind adopts the device or refuses it; without one,
\* no backend.
Adopt(t) ==
    /\ phase = "ready"
    /\ \E kind \in Kinds :
          \/ /\ \E i \in DOMAIN drivers : drivers[i].kind = kind
             /\ \/ adopted < MaxAdopted /\ adopted' = adopted + 1 /\ CallReturns(t, "SUCCESS")
                \/ UNCHANGED adopted /\ CallReturns(t, "DEVICE_ERROR")
          \/ /\ \A i \in DOMAIN drivers : drivers[i].kind # kind
             /\ UNCHANGED adopted
             /\ CallReturns(t, "NO_BACKEND")
    /\ UNCHANGED <<building, lookup, alive, pc, slot, got>>

\* enc_device_query_capabilities, enc_device_query_concurrency and
\* enc_device_get_info: no lookup, the same checks, then the device.
QueryAdopted(t) ==
    /\ adopted > 0
    /\ \E q \in {x \in Queries : x.query # "format"} :
          \E code \in Outcomes(q) : CallReturns(t, code)
    /\ UNCHANGED <<building, lookup, ends, pc, slot, got>>

DeleteDevice(t) ==
    /\ pc[t] = "idle"
    /\ adopted > 0
    /\ adopted' = adopted - 1
    /\ UNCHANGED <<building, lookup, alive, callers, result, context>>

-----------------------------------------------------------------------------
(* enc_instance_delete.  The application calls it when no other call is in  *)
(* progress and every adopted device is deleted, as both test programs do.  *)

DeleteInstance ==
    /\ phase = "ready"
    /\ adopted = 0
    /\ \A t \in Threads : pc[t] = "idle"
    /\ phase' = "dying"
    /\ UNCHANGED <<registered, drivers, device_slots, available_backends, lookup,
                   ends, callers, result, context>>

\* A bug: `query_devices` declared before `drivers`, so destroyed after it.
NextMemberDriversFirst ==
    IF \E i \in DOMAIN drivers : i \in alive
    THEN {CHOOSE i \in DOMAIN drivers : i \in alive}
    ELSE alive \cap {QueryDevices}

\* Members die in the reverse of their declaration: query_devices, then drivers
\* one by one.
NextMember ==
    IF QueryDevices \in alive THEN {QueryDevices}
    ELSE {i \in DOMAIN drivers : i \in alive /\ \A j \in DOMAIN drivers : j \in alive => i <= j}

DestroyMember ==
    /\ phase = "dying"
    /\ NextMember # {}
    /\ alive' = alive \ NextMember
    /\ UNCHANGED <<building, lookup, adopted, callers, result, context>>

InstanceGone ==
    /\ phase = "dying"
    /\ NextMember = {}
    /\ phase' = "gone"
    /\ UNCHANGED <<registered, drivers, device_slots, available_backends, lookup,
                   ends, callers, result, context>>

-----------------------------------------------------------------------------
Build(t) == DriverUnavailable(t) \/ DriverReady(t) \/ FinishBuild(t)

Locate(t) == FindOpened(t) \/ FindClosed(t) \/ OpenFails(t) \/ Opens(t)

\* A thread inside a call.
Step(t) == Build(t) \/ Lock(t) \/ Locate(t) \/ Use(t)

\* A thread that starts one: the application's choice.
Start(t) ==
    \/ NullArgument(t) \/ RefuseNew(t) \/ StartBuild(t)
    \/ Enumerate(t) \/ IndexOutOfRange(t) \/ Query(t)
    \/ Adopt(t) \/ QueryAdopted(t) \/ DeleteDevice(t)

Next ==
    \/ \E t \in Threads : Start(t) \/ Step(t)
    \/ DeleteInstance \/ DestroyMember \/ InstanceGone

\* The operating system runs every thread that can run.
Fairness == \A t \in Threads : WF_vars(Step(t))

Spec == Init /\ [][Next]_vars /\ Fairness

-----------------------------------------------------------------------------
(* Properties *)

TypeOK ==
    /\ phase \in {"none", "building", "ready", "dying", "gone"}
    /\ registered \in 0 .. Len(Registrations)
    /\ drivers \in Seq([kind : Kinds, devices : 0 .. MaxDevices])
    /\ device_slots \in Seq([owner : 1 .. Len(Registrations), local : 1 .. MaxDevices])
    /\ available_backends \subseteq Kinds
    /\ query_devices \in Seq(Devices \cup {NoDevice})
    /\ query_mutex \in Threads \cup {NoThread}
    /\ opens \in 0 .. MaxSlots
    /\ alive \subseteq {QueryDevices} \cup DOMAIN drivers
    /\ adopted \in 0 .. MaxAdopted
    /\ pc \in [Threads -> {"idle", "building", "lock", "find", "open", "use"}]
    /\ calls \in [Threads -> 0 .. MaxCalls]
    /\ slot \in [Threads -> 1 .. MaxSlots]
    /\ got \in [Threads -> Devices \cup {NoDevice}]
    /\ result \in [Threads -> Codes]
    /\ context \in [Threads -> Failures \cup {""}]

\* The flat device list is a numbering of every device of every driver that came
\* up, in driver order, whichever registrations failed in between.
SlotsNumberDevices ==
    /\ \A i \in DOMAIN device_slots :
          /\ device_slots[i].owner \in DOMAIN drivers
          /\ device_slots[i].local \in 1 .. drivers[device_slots[i].owner].devices
    /\ \A d \in DOMAIN drivers : \A n \in 1 .. drivers[d].devices :
          Cardinality({i \in DOMAIN device_slots :
                          device_slots[i] = [owner |-> d, local |-> n]}) = 1
    /\ \A i, j \in DOMAIN device_slots :
          i < j => \/ device_slots[i].owner < device_slots[j].owner
                   \/ /\ device_slots[i].owner = device_slots[j].owner
                      /\ device_slots[i].local < device_slots[j].local

\* The device a query reaches is the one enc_enumerate_devices lists at that
\* index, and it is still the instance's own when it is used without the lock:
\* no other thread has replaced it, although the vector was shared meanwhile.
UsedDeviceIsListed ==
    \A t \in Threads :
        pc[t] = "use" =>
            /\ got[t] = query_devices[slot[t]]
            /\ got[t].owner = device_slots[slot[t]].owner
            /\ got[t].local = device_slots[slot[t]].local

\* instance.hpp: "Query-only devices. Declared after `drivers` so they are
\* destroyed first."  A query device refers into its driver: while one exists,
\* its driver does.
DevicesHaveDrivers ==
    QueryDevices \in alive =>
        \A i \in DOMAIN query_devices :
            query_devices[i] # NoDevice => query_devices[i].owner \in alive

\* Every query returns, although one thread's slow open keeps the others waiting.
QueriesReturn == \A t \in Threads : pc[t] # "idle" ~> pc[t] = "idle"

\* encorder.h of enc_last_error_context: "Valid until the next failing call on
\* the same thread."  The text changes only with a call that fails.
ContextKeptUntilFailure ==
    [][\A t \in Threads :
         context'[t] # context[t] => result'[t] \in Failures \cup {"NULL_ARGUMENT"}]_vars

-----------------------------------------------------------------------------
(* The cells of MemoCells: a device per slot, opened once *)

Cells ==
    [i \in 1 .. MaxSlots |->
        IF i \in DOMAIN query_devices THEN query_devices[i] ELSE NoDevice]

Opened == INSTANCE MemoCells WITH
    Keys <- 1 .. MaxSlots, Answers <- Devices, NoAnswer <- NoDevice, Failed <- "failed",
    memo <- Cells, asked <- slot, handed <- got

\* query_device implements one cell per index: a device is opened once, by one
\* thread, and every query of the index is handed that device.
OpensOnce == Opened!MemoSpec
=============================================================================
