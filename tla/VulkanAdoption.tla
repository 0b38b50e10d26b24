--------------------------- MODULE VulkanAdoption ---------------------------
(***************************************************************************)
(* Adopting a host renderer's VkDevice (device/vulkan/adopt.cpp), and what *)
(* the adopted device then answers (device/vulkan/device.cpp).  driver::   *)
(* adopt checks the host's descriptor against what the driver found out    *)
(* for itself, and refuses it for the first thing wrong; else the device   *)
(* answers from a record that is the driver's own, overwritten in part     *)
(* with what the host lends.  The two are told apart for ever after only   *)
(* by that record.                                                         *)
(*                                                                         *)
(* VulkanDriver.tla finds the physical devices.  Queue families count from *)
(* 1, so family i of the code is i + 1 and the 0 of an unwritten field is  *)
(* 1; queues in a family count from 0.                                     *)
(***************************************************************************)
EXTENDS Naturals, Sequences, FiniteSets

CONSTANTS
    PhysicalDevices,    \* the driver's physical_devices, in order
    Descriptors,        \* what hosts describe
    Codecs,             \* the codecs of codec_mappings, which also name their extensions
    NoFamily,           \* ENC_VULKAN_QUEUE_NONE, std::nullopt
    NoDevice            \* no device is adopted

Extensions == {"video_queue", "encode_queue"} \cup Codecs
Uuids      == {PhysicalDevices[i].uuid : i \in DOMAIN PhysicalDevices}

IsSequence(s) == Len(s) \in Nat /\ DOMAIN s = 1 .. Len(s)

\* What inspect makes of a device: see InspectFamilies in VulkanDriver.tla.
Found(d) ==
    /\ {"uuid", "encode_codecs", "encode_family", "compute_family", "families"} \subseteq DOMAIN d
    /\ IsSequence(d.families)
    /\ \A i \in DOMAIN d.families : d.families[i].queue_count \in Nat
    /\ d.encode_codecs # {} /\ d.encode_codecs \subseteq Codecs
    /\ d.encode_family \in DOMAIN d.families /\ d.families[d.encode_family].encode
    /\ \A i \in 1 .. d.encode_family - 1 : ~d.families[i].encode
    /\ \A c \in d.encode_codecs : \E i \in DOMAIN d.families :
          d.families[i].encode /\ c \in d.families[i].operations
    /\ d.compute_family \in (DOMAIN d.families) \cup {NoFamily}

\* What a host fills in, as far as its types go.
Described(info) ==
    /\ {"struct", "null", "api_version", "queue_lock", "queue_unlock", "missing", "uuid", "enabled",
        "encode_family", "encode_index", "compute_family", "transfer_family", "features", "size"}
           \subseteq DOMAIN info
    /\ info.size \in Nat /\ info.encode_index \in Nat
    /\ {info.null, info.queue_lock, info.queue_unlock} \subseteq BOOLEAN

ASSUME AdoptionAssumption ==
    /\ IsSequence(PhysicalDevices)
    /\ \A i \in DOMAIN PhysicalDevices : Found(PhysicalDevices[i])
    /\ \A i, j \in DOMAIN PhysicalDevices :
          PhysicalDevices[i].uuid = PhysicalDevices[j].uuid => i = j
    /\ \A info \in Descriptors : Described(info)
    /\ NoFamily \notin Nat /\ NoDevice \notin Descriptors

VARIABLES
    device,         \* the adopted_device: [context, record], or NoDevice
    lent,           \* the descriptor it was adopted with, as the host holds it
    code,           \* what the last adopt returned
    queried,        \* the codec of the last query_concurrency
    engines         \* what it returned: [code, count]

vars == <<device, lent, code, queried, engines>>

Unasked == [code |-> "none", count |-> 0]

Init ==
    /\ device = NoDevice
    /\ lent = NoDevice
    /\ code = "none"
    /\ queried \in Codecs
    /\ engines = Unasked

-----------------------------------------------------------------------------
(* read_struct: a host built against an older header writes fewer fields *)

\* A bug: the spare queues come after the fields a host cannot do without.
LayoutSparesLast ==
    << {"null"}, {"api_version"}, {"encode_family", "encode_index"}, {"enabled"},
       {"features"}, {"queue_lock"}, {"queue_unlock"}, {"compute_family"}, {"transfer_family"} >>

\* The fields of enc_vulkan_device_info in order; "null" is the first four, which
\* must not be null, and an array goes with its count.
Layout ==
    << {"null"}, {"api_version"}, {"encode_family", "encode_index"}, {"compute_family"},
       {"transfer_family"}, {"enabled"}, {"features"}, {"queue_lock"}, {"queue_unlock"} >>

\* The fields that struct_size takes in.
Written(info) == UNION {Layout[i] : i \in {j \in DOMAIN Layout : j <= info.size}}

\* The target before it is copied over: zeros.
Zero(info) ==
    [info EXCEPT !.null = TRUE, !.api_version = 0, !.encode_family = 1, !.encode_index = 0,
                 !.compute_family = 1, !.transfer_family = 1, !.enabled = {},
                 !.features = "unsaid", !.queue_lock = FALSE, !.queue_unlock = FALSE]

read_struct(info) ==
    [field \in DOMAIN info |->
        IF field \in (UNION {Layout[i] : i \in DOMAIN Layout}) \ Written(info)
        THEN Zero(info)[field] ELSE info[field]]

-----------------------------------------------------------------------------
(* The checks of driver::adopt *)

\* The first physical device with the UUID of the host's.
Matches(info) == {i \in DOMAIN PhysicalDevices : PhysicalDevices[i].uuid = info.uuid}

Match(info) == PhysicalDevices[CHOOSE i \in Matches(info) : \A j \in Matches(info) : i <= j]

\* A bug: codecs are taken from the device, enabled or not.
SupportedCodecs(info) == Match(info).encode_codecs

\* "Only do enabled codecs, not all supported"
EnabledCodecs(info) == Match(info).encode_codecs \cap info.enabled

\* The family the encode queue is in, once it is in range.
EncodeFamily(info) == Match(info).families[info.encode_family]

Matched(info)  == Matches(info) # {}
InRange(info)  == Matched(info) /\ info.encode_family \in DOMAIN Match(info).families

\* A bug: a family the device does not have is not noticed.
FamilyUnchecked(info) == FALSE

FamilyOutOfRange(info) == Matched(info) /\ ~InRange(info)

\* The host's loader lacks a function of the table.
Missing(info, table) == info.missing = table

\* A feature chain is there and nothing in it enables synchronization2.
WithoutSynchronization2(info) == info.features = "without"

\* What is wrong with a descriptor.  A check that needs an earlier one to have
\* passed finds nothing wrong where it did not.
Wrong(info) ==
    { check \in {"struct", "null", "api_version", "queue_lock", "instance_functions",
                 "uuid", "extensions", "codecs", "encode_family", "encode_flag",
                 "encode_index", "synchronization2", "device_functions"} :
        CASE check = "struct" -> info.struct # "SUCCESS"
          [] check = "null" -> info.null
          [] check = "api_version" -> info.api_version < 13
          [] check = "queue_lock" -> info.queue_lock # info.queue_unlock
          [] check = "instance_functions" -> Missing(info, "instance")
          [] check = "uuid" -> ~Matched(info)
          [] check = "extensions" -> ~({"video_queue", "encode_queue"} \subseteq info.enabled)
          [] check = "codecs" -> Matched(info) /\ EnabledCodecs(info) = {}
          [] check = "encode_family" -> FamilyOutOfRange(info)
          [] check = "encode_flag" -> InRange(info) /\ ~EncodeFamily(info).encode
          [] check = "encode_index" -> InRange(info) /\ info.encode_index >= EncodeFamily(info).queue_count
          [] check = "synchronization2" -> WithoutSynchronization2(info)
          [] check = "device_functions" -> Missing(info, "device") }

\* The checks in the order they are made, and what each returns.
Checks(info) ==
    << <<"struct", info.struct>>,
       <<"null", "INVALID_ARGUMENT">>,
       <<"api_version", "VERSION_MISMATCH">>,
       <<"queue_lock", "INVALID_ARGUMENT">>,
       <<"instance_functions", "INITIALIZATION_FAILED">>,
       <<"uuid", "DEVICE_UUID_MISMATCH">>,
       <<"extensions", "IMPORT_MISMATCH">>,
       <<"codecs", "CODEC_UNSUPPORTED">>,
       <<"encode_family", "INVALID_ARGUMENT">>,
       <<"encode_flag", "IMPORT_MISMATCH">>,
       <<"encode_index", "INVALID_ARGUMENT">>,
       <<"synchronization2", "IMPORT_MISMATCH">>,
       <<"device_functions", "INITIALIZATION_FAILED">> >>

\* The code of the first check that finds something wrong.
Refusal(info) ==
    LET failed == {i \in DOMAIN Checks(info) : Checks(info)[i][1] \in Wrong(info)}
    IN Checks(info)[CHOOSE i \in failed : \A j \in failed : i <= j][2]

-----------------------------------------------------------------------------
(* adopt, delete, query *)

Refuse ==
    /\ device = NoDevice
    /\ \E info \in Descriptors :
          Wrong(read_struct(info)) # {} /\ code' = Refusal(read_struct(info))
    /\ UNCHANGED <<device, lent, queried, engines>>

\* imported_context
Context(info) ==
    [encode_family |-> info.encode_family, encode_index |-> info.encode_index,
     compute_family |-> info.compute_family, transfer_family |-> info.transfer_family,
     submits |-> info.queue_lock /\ info.queue_unlock]

\* A bug: the record keeps the family the driver came across first.
RecordKeepsFamily(info) ==
    [Match(info) EXCEPT
        !.encode_codecs = EnabledCodecs(info),
        !.compute_family = IF info.compute_family # NoFamily THEN info.compute_family ELSE @]

\* The driver's record, with the codecs and queue families the host lends; a
\* compute family only if it lends one.
RecordOf(info) ==
    [Match(info) EXCEPT
        !.encode_codecs = EnabledCodecs(info),
        !.encode_family = info.encode_family,
        !.compute_family = IF info.compute_family # NoFamily THEN info.compute_family ELSE @]

AdoptedDevice(info) == [context |-> Context(info), record |-> RecordOf(info)]

\* NoDevice, a null pointer, is none of the devices.
ASSUME NoDeviceAssumption ==
    \A info \in Descriptors :
        Wrong(read_struct(info)) = {} => NoDevice # AdoptedDevice(read_struct(info))

Adopt ==
    /\ device = NoDevice
    /\ \E info \in Descriptors :
          /\ Wrong(read_struct(info)) = {}
          /\ device' = AdoptedDevice(read_struct(info))
          /\ lent' = info
    /\ code' = "SUCCESS"
    /\ UNCHANGED <<queried, engines>>

Delete ==
    /\ device # NoDevice
    /\ device' = NoDevice
    /\ lent' = NoDevice
    /\ engines' = Unasked
    /\ UNCHANGED <<code, queried>>

\* The queues of the record's encode family, if the device has that family.
QueueCount(record) ==
    IF record.encode_family \in DOMAIN record.families
    THEN record.families[record.encode_family].queue_count
    ELSE 0

\* query_concurrency
QueryConcurrency ==
    /\ device # NoDevice
    /\ queried' \in Codecs
    /\ engines' = IF queried' \in device.record.encode_codecs
                  THEN [code |-> "SUCCESS", count |-> QueueCount(device.record)]
                  ELSE [code |-> "CODEC_UNSUPPORTED", count |-> 0]
    /\ UNCHANGED <<device, lent, code>>

Next == Refuse \/ Adopt \/ Delete \/ QueryConcurrency

Spec == Init /\ [][Next]_vars

-----------------------------------------------------------------------------
(* Properties *)

Adopted == device # NoDevice

TypeOK ==
    /\ Adopted <=> lent # NoDevice
    /\ Adopted =>
          /\ lent \in Descriptors
          /\ device.context.encode_index \in Nat
          /\ device.context.submits \in BOOLEAN
          /\ device.record.uuid \in Uuids
          /\ device.record.encode_codecs \subseteq Codecs
          /\ device.record.encode_family \in DOMAIN device.record.families
          /\ device.context.encode_family = device.record.encode_family
    /\ queried \in Codecs
    /\ engines \in [code : {"none", "SUCCESS", "CODEC_UNSUPPORTED"}, count : Nat]

\* An adopted device has a queue to encode on: the family it was lent encodes
\* video and has that many queues, whichever family the driver would have taken,
\* and it answers for no codec the host left disabled or the device lacks.
AdoptedHasQueue ==
    Adopted =>
        LET family == device.record.families[device.context.encode_family]
            own    == PhysicalDevices[CHOOSE i \in DOMAIN PhysicalDevices :
                                         PhysicalDevices[i].uuid = lent.uuid]
        IN /\ family.encode
           /\ device.context.encode_index < family.queue_count
           /\ {"video_queue", "encode_queue"} \subseteq lent.enabled
           /\ device.record.encode_codecs # {}
           /\ device.record.encode_codecs \subseteq lent.enabled \cap own.encode_codecs

\* Where the device has one encode family only, the queue it was lent takes every
\* codec it answers for.  (With more, the code does not compare the codecs of the
\* lent family with those it reports.)
OneFamilyTakesAll ==
    Adopted /\ Cardinality({i \in DOMAIN device.record.families :
                               device.record.families[i].encode}) = 1 =>
        device.record.encode_codecs \subseteq
            device.record.families[device.context.encode_family].operations

\* The engines a query reports are those of the family the host lent, also when
\* the driver's own record names another.
EnginesAreLent ==
    Adopted /\ engines.code = "SUCCESS" =>
        engines.count = device.record.families[lent.encode_family].queue_count

\* The device answers for what it was lent, not for what the driver came across.
ReportsLent == OneFamilyTakesAll /\ EnginesAreLent

\* Family 0 is a family like any other, and it is what a descriptor too short to
\* name its queues reads as.  No device is adopted on such a 0: each family it works
\* with is one its host wrote, or stands for none, for the struct cannot be cut
\* before the queues and still have the extensions that come after them.
FamiliesWereWritten ==
    Adopted =>
        /\ device.context.encode_family = lent.encode_family
        /\ \A family \in {"encode_family", "compute_family", "transfer_family"} :
              family \in Written(lent) /\ device.context[family] = lent[family]
=============================================================================
