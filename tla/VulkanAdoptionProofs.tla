------------------------ MODULE VulkanAdoptionProofs ------------------------
(***************************************************************************)
(* Proofs that a device adopted from a host is what the host lent, for     *)
(* every driver and every descriptor.                                      *)
(*                                                                         *)
(* The device is made from the descriptor as read_struct copies it, so the *)
(* inductive invariant keeps that copy's innocence, Wrong(...) = {}, for   *)
(* as long as the device lives: what the host left out of it reads as 0,   *)
(* and only the checks the copy has passed say that it left out nothing.   *)
(***************************************************************************)
EXTENDS VulkanAdoption, FiniteSetTheorems, TLAPS

\* The device is what driver::adopt makes of a descriptor with nothing wrong.
Lent ==
    /\ device # NoDevice <=> lent # NoDevice
    /\ device # NoDevice =>
          /\ lent \in Descriptors
          /\ Wrong(read_struct(lent)) = {}
          /\ device = AdoptedDevice(read_struct(lent))

\* The last answer is the present device's, or none.
Asked ==
    /\ queried \in Codecs
    /\ engines \in [code : {"none", "SUCCESS", "CODEC_UNSUPPORTED"}, count : Nat]
    /\ engines.code = "SUCCESS" =>
          device # NoDevice /\ engines.count = QueueCount(device.record)

IInv == Lent /\ Asked

-----------------------------------------------------------------------------
(* read_struct *)

\* The fields before one that was written were written.
LEMMA WrittenBefore ==
    ASSUME NEW info, info.size \in Nat
    PROVE  /\ "enabled" \in Written(info) =>
                {"null", "api_version", "encode_family", "encode_index", "compute_family",
                 "transfer_family"} \subseteq Written(info)
<1> DEFINE Taken == {j \in DOMAIN Layout : j <= info.size}
<1>1. DOMAIN Layout = 1 .. 9
  BY DEF Layout
<1>2. /\ Layout[1] = {"null"} /\ Layout[2] = {"api_version"}
      /\ Layout[3] = {"encode_family", "encode_index"} /\ Layout[4] = {"compute_family"}
      /\ Layout[5] = {"transfer_family"} /\ Layout[6] = {"enabled"}
      /\ Layout[7] = {"features"} /\ Layout[8] = {"queue_lock"} /\ Layout[9] = {"queue_unlock"}
  BY DEF Layout
<1> SUFFICES ASSUME "enabled" \in Written(info)
             PROVE  {"null", "api_version", "encode_family", "encode_index", "compute_family",
                     "transfer_family"} \subseteq Written(info)
  OBVIOUS
<1>3. PICK i \in Taken : "enabled" \in Layout[i]
  BY DEF Written
<1>4. i = 6
  BY <1>1, <1>2, <1>3
<1>5. 1 .. 6 \subseteq Taken
  BY <1>1, <1>3, <1>4
<1>6. \A k \in Taken : Layout[k] \subseteq Written(info)
  BY DEF Written
<1> QED
  BY <1>2, <1>5, <1>6

\* read_struct keeps the fields that were written, and those it does not know,
\* and clears the others.
LEMMA ReadFields ==
    ASSUME NEW info, NEW field \in DOMAIN info
    PROVE  /\ field \in Written(info) => read_struct(info)[field] = info[field]
           /\ field \notin UNION {Layout[i] : i \in DOMAIN Layout} =>
                read_struct(info)[field] = info[field]
           /\ field \in UNION {Layout[i] : i \in DOMAIN Layout} /\ field \notin Written(info) =>
                read_struct(info)[field] = Zero(info)[field]
  BY DEF read_struct

\* The fields of Layout.
LEMMA LayoutFields ==
    UNION {Layout[i] : i \in DOMAIN Layout} =
        {"null", "api_version", "encode_family", "encode_index", "compute_family",
         "transfer_family", "enabled", "features", "queue_lock", "queue_unlock"}
<1>1. DOMAIN Layout = 1 .. 9
  BY DEF Layout
<1>2. /\ Layout[1] = {"null"} /\ Layout[2] = {"api_version"}
      /\ Layout[3] = {"encode_family", "encode_index"} /\ Layout[4] = {"compute_family"}
      /\ Layout[5] = {"transfer_family"} /\ Layout[6] = {"enabled"}
      /\ Layout[7] = {"features"} /\ Layout[8] = {"queue_lock"} /\ Layout[9] = {"queue_unlock"}
  BY DEF Layout
<1>3. UNION {Layout[i] : i \in DOMAIN Layout} = UNION {Layout[i] : i \in {1,2,3,4,5,6,7,8,9}}
  BY <1>1
<1> QED
  BY <1>2, <1>3

\* What a check that finds nothing wrong has seen.
LEMMA Innocent ==
    ASSUME NEW info, Wrong(info) = {}
    PROVE  /\ ~info.null
           /\ Matched(info)
           /\ {"video_queue", "encode_queue"} \subseteq info.enabled
           /\ EnabledCodecs(info) # {}
           /\ info.encode_family \in DOMAIN Match(info).families
           /\ EncodeFamily(info).encode
           /\ ~(info.encode_index >= EncodeFamily(info).queue_count)
<1>1. "null" \notin Wrong(info) /\ "uuid" \notin Wrong(info) /\ "extensions" \notin Wrong(info)
      /\ "codecs" \notin Wrong(info) /\ "encode_family" \notin Wrong(info)
      /\ "encode_flag" \notin Wrong(info) /\ "encode_index" \notin Wrong(info)
  OBVIOUS
<1>2. ~info.null
  BY <1>1 DEF Wrong
<1>3. Matched(info)
  BY <1>1 DEF Wrong
<1>4. {"video_queue", "encode_queue"} \subseteq info.enabled
  BY <1>1 DEF Wrong
<1>5. EnabledCodecs(info) # {}
  BY <1>1, <1>3 DEF Wrong
<1>6. ~FamilyOutOfRange(info)
  BY <1>1 DEF Wrong
<1>7. InRange(info)
  BY <1>3, <1>6 DEF FamilyOutOfRange
<1>8. EncodeFamily(info).encode
  BY <1>1, <1>7 DEF Wrong
<1>9. ~(info.encode_index >= EncodeFamily(info).queue_count)
  BY <1>1, <1>7 DEF Wrong
<1> QED
  BY <1>2, <1>3, <1>4, <1>5, <1>7, <1>8, <1>9 DEF InRange

\* A UUID that matches is that of one physical device, the driver's record of it.
LEMMA MatchIsFound ==
    ASSUME NEW info, Matched(info)
    PROVE  \E i \in DOMAIN PhysicalDevices :
              /\ PhysicalDevices[i].uuid = info.uuid
              /\ Match(info) = PhysicalDevices[i]
              /\ Found(PhysicalDevices[i])
              /\ \A j \in DOMAIN PhysicalDevices :
                    PhysicalDevices[j].uuid = info.uuid => j = i
<1>1. PICK i \in Matches(info) : TRUE
  BY DEF Matched
<1>2. i \in DOMAIN PhysicalDevices /\ PhysicalDevices[i].uuid = info.uuid
  BY <1>1 DEF Matches
<1>3. \A j \in Matches(info) : j = i
  BY <1>2, AdoptionAssumption DEF Matches
<1>4. i \in Nat
  BY <1>2, AdoptionAssumption DEF IsSequence
<1>5. \A j \in Matches(info) : i <= j
  BY <1>3, <1>4
<1>6. (CHOOSE k \in Matches(info) : \A j \in Matches(info) : k <= j) \in Matches(info)
  BY <1>1, <1>5
<1>7. (CHOOSE k \in Matches(info) : \A j \in Matches(info) : k <= j) = i
  BY <1>3, <1>6
<1>8. \A j \in DOMAIN PhysicalDevices : PhysicalDevices[j].uuid = info.uuid => j = i
  BY <1>2, AdoptionAssumption
<1>9. Match(info) = PhysicalDevices[i]
  BY <1>7 DEF Match
<1> QED
  BY <1>2, <1>8, <1>9, AdoptionAssumption

\* What RecordOf overwrites and what it keeps.
LEMMA RecordFields ==
    ASSUME NEW info, Matched(info)
    PROVE  /\ RecordOf(info).uuid = info.uuid
           /\ RecordOf(info).families = Match(info).families
           /\ RecordOf(info).encode_family = info.encode_family
           /\ RecordOf(info).encode_codecs = EnabledCodecs(info)
<1>1. PICK i \in DOMAIN PhysicalDevices : PhysicalDevices[i].uuid = info.uuid
              /\ Match(info) = PhysicalDevices[i] /\ Found(PhysicalDevices[i])
  BY MatchIsFound
<1>2. {"uuid", "encode_codecs", "encode_family", "compute_family", "families"}
        \subseteq DOMAIN Match(info)
  BY <1>1 DEF Found
<1> QED
  BY <1>1, <1>2 DEF RecordOf

\* What a descriptor with nothing wrong has, as the host wrote it.
LEMMA AsLent ==
    ASSUME NEW info \in Descriptors, Wrong(read_struct(info)) = {}
    PROVE  /\ {"null", "api_version", "encode_family", "encode_index", "compute_family",
               "transfer_family", "enabled"} \subseteq Written(info)
           /\ read_struct(info).uuid = info.uuid
           /\ read_struct(info).enabled = info.enabled
           /\ read_struct(info).encode_family = info.encode_family
           /\ read_struct(info).encode_index = info.encode_index
           /\ read_struct(info).compute_family = info.compute_family
           /\ read_struct(info).transfer_family = info.transfer_family
           /\ read_struct(info).queue_lock \in BOOLEAN
           /\ read_struct(info).queue_unlock \in BOOLEAN
<1>1. Described(info)
  BY AdoptionAssumption
<1>2. {"struct", "null", "api_version", "queue_lock", "queue_unlock", "missing", "uuid", "enabled",
       "encode_family", "encode_index", "compute_family", "transfer_family", "features", "size"}
           \subseteq DOMAIN info
  BY <1>1 DEF Described
<1>3. "enabled" \in Written(info)
  <2>1. SUFFICES ASSUME "enabled" \notin Written(info) PROVE FALSE
    OBVIOUS
  <2>2. read_struct(info).enabled = Zero(info).enabled
    BY <1>2, <2>1, LayoutFields, ReadFields
  <2>3. Zero(info).enabled = {}
    BY <1>2 DEF Zero
  <2> QED
    BY <2>2, <2>3, Innocent
<1>4. {"null", "api_version", "encode_family", "encode_index", "compute_family",
       "transfer_family", "enabled"} \subseteq Written(info)
  BY <1>1, <1>3, WrittenBefore DEF Described
<1>5. read_struct(info).uuid = info.uuid
  BY <1>2, LayoutFields, ReadFields
<1>6. \A field \in {"encode_family", "encode_index", "compute_family", "transfer_family", "enabled"} :
         read_struct(info)[field] = info[field]
  BY <1>2, <1>4, ReadFields
<1>7. read_struct(info).queue_lock \in BOOLEAN
  <2>1. CASE "queue_lock" \in Written(info)
    <3>1. read_struct(info).queue_lock = info.queue_lock
      BY <1>2, <2>1, ReadFields
    <3> QED
      BY <1>1, <3>1 DEF Described
  <2>2. CASE "queue_lock" \notin Written(info)
    <3>1. read_struct(info).queue_lock = Zero(info).queue_lock
      BY <1>2, <2>2, LayoutFields, ReadFields
    <3>2. Zero(info).queue_lock = FALSE
      BY <1>2 DEF Zero
    <3> QED
      BY <3>1, <3>2
  <2> QED
    BY <2>1, <2>2
<1>8. read_struct(info).queue_unlock \in BOOLEAN
  <2>1. CASE "queue_unlock" \in Written(info)
    <3>1. read_struct(info).queue_unlock = info.queue_unlock
      BY <1>2, <2>1, ReadFields
    <3> QED
      BY <1>1, <3>1 DEF Described
  <2>2. CASE "queue_unlock" \notin Written(info)
    <3>1. read_struct(info).queue_unlock = Zero(info).queue_unlock
      BY <1>2, <2>2, LayoutFields, ReadFields
    <3>2. Zero(info).queue_unlock = FALSE
      BY <1>2 DEF Zero
    <3> QED
      BY <3>1, <3>2
  <2> QED
    BY <2>1, <2>2
<1> QED
  BY <1>4, <1>5, <1>6, <1>7, <1>8

-----------------------------------------------------------------------------
(* The inductive invariant *)

\* A device is told from no device.
LEMMA IsADevice ==
    ASSUME NEW info \in Descriptors, Wrong(read_struct(info)) = {}
    PROVE  AdoptedDevice(read_struct(info)) # NoDevice /\ info # NoDevice
  BY NoDeviceAssumption, AdoptionAssumption

\* A query counts queues.
LEMMA QueuesAreCounted ==
    ASSUME NEW info \in Descriptors, Wrong(read_struct(info)) = {}
    PROVE  QueueCount(RecordOf(read_struct(info))) \in Nat
<1> DEFINE read == read_struct(info)
           record == RecordOf(read)
<1>1. Matched(read)
  BY Innocent
<1>2. PICK i \in DOMAIN PhysicalDevices :
         Match(read) = PhysicalDevices[i] /\ Found(PhysicalDevices[i])
  BY <1>1, MatchIsFound
<1>3. record.families = PhysicalDevices[i].families
  BY <1>1, <1>2, RecordFields
<1>4. \A f \in DOMAIN record.families : record.families[f].queue_count \in Nat
  BY <1>2, <1>3 DEF Found
<1> HIDE DEF record
<1>5. QueueCount(record) \in Nat
  BY <1>4 DEF QueueCount
<1> QED
  BY <1>5 DEF record

\* Before anything happens nothing is lent.
LEMMA InitIInv == Init => IInv
  BY DEF Init, IInv, Lent, Asked, Unasked

\* A refusal changes nothing but the code.
LEMMA RefuseIInv == IInv /\ Refuse => IInv'
  BY DEF IInv, Lent, Asked, Refuse

\* An adoption makes the device from what it has just checked.  What was answered
\* before it, the deletion of the device before has wiped.
LEMMA AdoptIInv == IInv /\ Adopt => IInv'
<1> SUFFICES ASSUME IInv, Adopt PROVE IInv'
  OBVIOUS
<1>1. PICK info \in Descriptors :
         /\ Wrong(read_struct(info)) = {}
         /\ device' = AdoptedDevice(read_struct(info))
         /\ lent' = info
  BY DEF Adopt
<1>2. device' # NoDevice /\ lent' # NoDevice
  BY <1>1, IsADevice
<1>3. Lent'
  BY <1>1, <1>2 DEF Lent
<1>4. Asked'
  BY DEF IInv, Asked, Adopt
<1> QED
  BY <1>3, <1>4 DEF IInv

\* Deleting the device takes what was lent and what was answered with it.
LEMMA DeleteIInv == IInv /\ Delete => IInv'
  BY DEF IInv, Lent, Asked, Delete, Unasked

\* A query answers from the record.
LEMMA QueryIInv == IInv /\ QueryConcurrency => IInv'
<1> SUFFICES ASSUME IInv, QueryConcurrency PROVE IInv'
  OBVIOUS
<1>1. Lent'
  BY DEF IInv, Lent, QueryConcurrency
<1>2. device # NoDevice /\ device' = device
  BY DEF QueryConcurrency
<1>3. device.record = RecordOf(read_struct(lent)) /\ lent \in Descriptors
      /\ Wrong(read_struct(lent)) = {}
  BY <1>2 DEF IInv, Lent, AdoptedDevice
<1>4. QueueCount(device.record) \in Nat
  BY <1>3, QueuesAreCounted
<1>5. queried' \in Codecs
  BY DEF QueryConcurrency
<1>6. \/ engines' = [code |-> "SUCCESS", count |-> QueueCount(device.record)]
      \/ engines' = [code |-> "CODEC_UNSUPPORTED", count |-> 0]
  BY DEF QueryConcurrency
<1>7. Asked'
  BY <1>2, <1>4, <1>5, <1>6 DEF Asked
<1> QED
  BY <1>1, <1>7 DEF IInv

\* The adopted device is, as long as it lives, what driver::adopt made of a
\* descriptor it found nothing wrong with, and the last answer is that device's.
THEOREM AdoptionInvariant == Spec => []IInv
<1>1. IInv /\ [Next]_vars => IInv'
  <2> SUFFICES ASSUME IInv, [Next]_vars PROVE IInv'
    OBVIOUS
  <2>1. CASE Refuse
    BY <2>1, RefuseIInv
  <2>2. CASE Adopt
    BY <2>2, AdoptIInv
  <2>3. CASE Delete
    BY <2>3, DeleteIInv
  <2>4. CASE QueryConcurrency
    BY <2>4, QueryIInv
  <2>5. CASE UNCHANGED vars
    BY <2>5 DEF IInv, Lent, Asked, vars
  <2> QED
    BY <2>1, <2>2, <2>3, <2>4, <2>5 DEF Next
<1> QED
  BY InitIInv, <1>1, PTL DEF Spec

-----------------------------------------------------------------------------
(* What follows of an adopted device *)

\* The device, spelt out.
LEMMA AdoptedFields ==
    ASSUME Lent, Adopted
    PROVE  /\ lent \in Descriptors
           /\ Wrong(read_struct(lent)) = {}
           /\ Matched(read_struct(lent))
           /\ device.context = Context(read_struct(lent))
           /\ device.record = RecordOf(read_struct(lent))
           /\ device.record.uuid = lent.uuid
           /\ device.record.families = Match(read_struct(lent)).families
           /\ device.record.encode_family = lent.encode_family
           /\ device.record.encode_codecs = EnabledCodecs(read_struct(lent))
           /\ device.context.encode_family = lent.encode_family
           /\ device.context.encode_index = lent.encode_index
           /\ device.context.compute_family = lent.compute_family
           /\ device.context.transfer_family = lent.transfer_family
<1>1. lent \in Descriptors /\ Wrong(read_struct(lent)) = {}
      /\ device = AdoptedDevice(read_struct(lent))
  BY DEF Lent, Adopted
<1>2. Matched(read_struct(lent))
  BY <1>1, Innocent
<1>3. device.context = Context(read_struct(lent)) /\ device.record = RecordOf(read_struct(lent))
  BY <1>1 DEF AdoptedDevice
<1>4. /\ device.context.encode_family = read_struct(lent).encode_family
      /\ device.context.encode_index = read_struct(lent).encode_index
      /\ device.context.compute_family = read_struct(lent).compute_family
      /\ device.context.transfer_family = read_struct(lent).transfer_family
  BY <1>3 DEF Context
<1>5. /\ read_struct(lent).uuid = lent.uuid
      /\ read_struct(lent).encode_family = lent.encode_family
      /\ read_struct(lent).encode_index = lent.encode_index
      /\ read_struct(lent).compute_family = lent.compute_family
      /\ read_struct(lent).transfer_family = lent.transfer_family
  BY <1>1, AsLent
<1>6. /\ device.record.uuid = lent.uuid
      /\ device.record.families = Match(read_struct(lent)).families
      /\ device.record.encode_family = lent.encode_family
      /\ device.record.encode_codecs = EnabledCodecs(read_struct(lent))
  BY <1>2, <1>3, <1>5, RecordFields
<1> QED
  BY <1>1, <1>2, <1>3, <1>4, <1>5, <1>6

\* Types: of the variables, and of the parts of the device that are used as
\* indices and sets.
THEOREM AdoptionTypes == Spec => []TypeOK
<1>1. IInv => TypeOK
  <2> SUFFICES ASSUME IInv PROVE TypeOK
    OBVIOUS
  <2>1. Adopted <=> lent # NoDevice
    BY DEF IInv, Lent, Adopted
  <2>2. queried \in Codecs
        /\ engines \in [code : {"none", "SUCCESS", "CODEC_UNSUPPORTED"}, count : Nat]
    BY DEF IInv, Asked
  <2>3. ASSUME Adopted
        PROVE  /\ lent \in Descriptors
               /\ device.context.encode_index \in Nat
               /\ device.context.submits \in BOOLEAN
               /\ device.record.uuid \in Uuids
               /\ device.record.encode_codecs \subseteq Codecs
               /\ device.record.encode_family \in DOMAIN device.record.families
               /\ device.context.encode_family = device.record.encode_family
    <3> DEFINE read == read_struct(lent)
    <3>1. lent \in Descriptors /\ Wrong(read) = {} /\ Matched(read)
      BY <2>3, AdoptedFields DEF IInv
    <3>2. device.context.encode_index \in Nat
      BY <2>3, <3>1, AdoptedFields, AdoptionAssumption DEF IInv, Described
    <3>3. device.context.submits \in BOOLEAN
      <4>1. device.context.submits = (read.queue_lock /\ read.queue_unlock)
        BY <2>3, AdoptedFields DEF IInv, Context
      <4> QED
        BY <4>1
    <3>4. PICK i \in DOMAIN PhysicalDevices :
             PhysicalDevices[i].uuid = read.uuid /\ Match(read) = PhysicalDevices[i]
             /\ Found(PhysicalDevices[i])
      BY <3>1, MatchIsFound
    <3>5. device.record.uuid = PhysicalDevices[i].uuid
      BY <2>3, <3>1, <3>4, AdoptedFields, AsLent DEF IInv
    <3>6. device.record.uuid \in Uuids
      BY <3>5 DEF Uuids
    <3>7. device.record.encode_codecs \subseteq Codecs
      <4>1. device.record.encode_codecs = EnabledCodecs(read)
        BY <2>3, AdoptedFields DEF IInv
      <4> QED
        BY <3>4, <4>1 DEF EnabledCodecs, Found
    <3>8. device.record.encode_family \in DOMAIN device.record.families
      <4>1. read.encode_family \in DOMAIN Match(read).families
        BY <3>1, Innocent
      <4> QED
        BY <2>3, <3>1, <4>1, AdoptedFields, AsLent DEF IInv
    <3>9. device.context.encode_family = device.record.encode_family
      BY <2>3, AdoptedFields DEF IInv
    <3> QED
      BY <3>1, <3>2, <3>3, <3>6, <3>7, <3>8, <3>9
  <2> QED
    BY <2>1, <2>2, <2>3 DEF TypeOK
<1> QED
  BY AdoptionInvariant, <1>1, PTL

\* An adopted device has a queue to encode on, in a family that encodes video,
\* and answers for no codec that the host left disabled or its own physical
\* device lacks (the checks of driver::adopt, and the record they end in).
THEOREM AdoptedHasItsQueue == Spec => []AdoptedHasQueue
<1>1. IInv => AdoptedHasQueue
  <2>1. SUFFICES ASSUME IInv, Adopted
                 PROVE  LET family == device.record.families[device.context.encode_family]
                            own    == PhysicalDevices[CHOOSE i \in DOMAIN PhysicalDevices :
                                                         PhysicalDevices[i].uuid = lent.uuid]
                        IN /\ family.encode
                           /\ device.context.encode_index < family.queue_count
                           /\ {"video_queue", "encode_queue"} \subseteq lent.enabled
                           /\ device.record.encode_codecs # {}
                           /\ device.record.encode_codecs \subseteq lent.enabled \cap own.encode_codecs
    BY DEF AdoptedHasQueue
  <2> DEFINE read   == read_struct(lent)
             family == device.record.families[device.context.encode_family]
             i0     == CHOOSE i \in DOMAIN PhysicalDevices : PhysicalDevices[i].uuid = lent.uuid
  <2>2. Lent /\ lent \in Descriptors /\ Wrong(read) = {} /\ Matched(read)
    BY <2>1, AdoptedFields DEF IInv
  <2>3. read.uuid = lent.uuid /\ read.enabled = lent.enabled
        /\ read.encode_family = lent.encode_family /\ read.encode_index = lent.encode_index
    BY <2>2, AsLent
  <2>4. PICK i \in DOMAIN PhysicalDevices :
           /\ PhysicalDevices[i].uuid = read.uuid
           /\ Match(read) = PhysicalDevices[i]
           /\ Found(PhysicalDevices[i])
           /\ \A j \in DOMAIN PhysicalDevices : PhysicalDevices[j].uuid = read.uuid => j = i
    BY <2>2, MatchIsFound
  <2>5. i0 = i
    BY <2>3, <2>4
  <2>6. family = EncodeFamily(read)
    BY <2>1, <2>2, <2>3, AdoptedFields DEF EncodeFamily
  <2>7. family.encode /\ ~(lent.encode_index >= family.queue_count)
    BY <2>2, <2>3, <2>6, Innocent
  <2>8. device.context.encode_index < family.queue_count
    <3>1. lent.encode_index \in Nat
      BY <2>2, AdoptionAssumption DEF Described
    <3>2. read.encode_family \in DOMAIN PhysicalDevices[i].families
      BY <2>2, <2>4, Innocent
    <3>3. family.queue_count \in Nat
      BY <2>4, <2>6, <3>2 DEF EncodeFamily, Found
    <3>4. device.context.encode_index = lent.encode_index
      BY <2>1, <2>2, AdoptedFields
    <3> QED
      BY <2>7, <3>1, <3>3, <3>4
  <2>9. {"video_queue", "encode_queue"} \subseteq lent.enabled
    BY <2>2, <2>3, Innocent
  <2>10. device.record.encode_codecs = EnabledCodecs(read)
    BY <2>1, <2>2, AdoptedFields
  <2>11. EnabledCodecs(read) # {}
    BY <2>2, Innocent
  <2>12. EnabledCodecs(read) = PhysicalDevices[i].encode_codecs \cap lent.enabled
    BY <2>3, <2>4 DEF EnabledCodecs
  <2> HIDE DEF family, i0, read
  <2>13. device.record.encode_codecs \subseteq lent.enabled \cap PhysicalDevices[i0].encode_codecs
    BY <2>5, <2>10, <2>12
  <2> QED
    BY <2>7, <2>8, <2>9, <2>10, <2>11, <2>13 DEF family, i0
<1> QED
  BY AdoptionInvariant, <1>1, PTL

\* Where the device has one family that encodes, that is the family it was lent,
\* and it takes every codec reported; and the engines a query reports are those of
\* the family lent (the record adopt makes, and query_concurrency, which reads it).
THEOREM AdoptedReportsLent == Spec => []ReportsLent
<1>1. IInv => OneFamilyTakesAll
  <2> DEFINE Encoders == {i \in DOMAIN device.record.families : device.record.families[i].encode}
  <2>1. SUFFICES ASSUME IInv, Adopted, Cardinality(Encoders) = 1,
                        NEW c \in device.record.encode_codecs
                 PROVE  c \in device.record.families[device.context.encode_family].operations
    BY DEF OneFamilyTakesAll
  <2> DEFINE read == read_struct(lent)
  <2>2. Lent /\ lent \in Descriptors /\ Wrong(read) = {} /\ Matched(read)
    BY <2>1, AdoptedFields DEF IInv
  <2>3. PICK d \in DOMAIN PhysicalDevices :
           Match(read) = PhysicalDevices[d] /\ Found(PhysicalDevices[d])
    BY <2>2, MatchIsFound
  <2>4. device.record.families = PhysicalDevices[d].families
    BY <2>1, <2>2, <2>3, AdoptedFields
  <2>5. IsFiniteSet(Encoders)
    <3>1. DOMAIN device.record.families = 1 .. Len(device.record.families)
          /\ Len(device.record.families) \in Nat
      BY <2>3, <2>4 DEF Found, IsSequence
    <3>2. \A n \in Nat : IsFiniteSet(1 .. n)
      BY FS_Interval
    <3>3. Encoders \subseteq 1 .. Len(device.record.families)
      BY <3>1
    <3> QED
      BY <3>1, <3>2, <3>3, FS_Subset
  <2>6. PICK e : Encoders = {e}
    <3> HIDE DEF Encoders
    <3> QED
      BY <2>1, <2>5, FS_Singleton
  <2>7. device.context.encode_family = e
    <3>1. device.context.encode_family = lent.encode_family
      BY <2>1, <2>2, AdoptedFields
    <3>2. lent.encode_family = read.encode_family
      BY <2>2, AsLent
    <3>3. /\ read.encode_family \in DOMAIN device.record.families
          /\ device.record.families[read.encode_family].encode
      BY <2>2, <2>3, <2>4, Innocent DEF EncodeFamily
    <3>4. read.encode_family \in Encoders
      BY <3>3
    <3> QED
      BY <2>6, <3>1, <3>2, <3>4
  <2>8. c \in PhysicalDevices[d].encode_codecs
    <3>1. device.record.encode_codecs = EnabledCodecs(read)
      BY <2>1, <2>2, AdoptedFields
    <3> QED
      BY <2>1, <2>3, <3>1 DEF EnabledCodecs
  <2>9. PICK i \in DOMAIN device.record.families :
           device.record.families[i].encode /\ c \in device.record.families[i].operations
    BY <2>3, <2>4, <2>8 DEF Found
  <2>10. i = e
    BY <2>6, <2>9
  <2> QED
    BY <2>7, <2>9, <2>10
<1>2. IInv => EnginesAreLent
  <2>1. SUFFICES ASSUME IInv, Adopted, engines.code = "SUCCESS"
                 PROVE  engines.count = device.record.families[lent.encode_family].queue_count
    BY DEF EnginesAreLent
  <2>2. engines.count = QueueCount(device.record)
    BY <2>1 DEF IInv, Asked
  <2>3. lent \in Descriptors /\ Wrong(read_struct(lent)) = {}
        /\ device.record.families = Match(read_struct(lent)).families
        /\ device.record.encode_family = lent.encode_family
    BY <2>1, AdoptedFields DEF IInv
  <2>4. lent.encode_family \in DOMAIN device.record.families
    BY <2>3, Innocent, AsLent
  <2> QED
    BY <2>2, <2>3, <2>4 DEF QueueCount
<1> QED
  BY AdoptionInvariant, <1>1, <1>2, PTL DEF ReportsLent

\* No adopted device works with a family 0 that its host did not write: the
\* extensions come after the queues in enc_vulkan_device_info, and without them
\* there is no adoption (read_struct, and the checks of driver::adopt).
THEOREM AdoptedFamiliesWritten == Spec => []FamiliesWereWritten
<1>1. IInv => FamiliesWereWritten
  <2>1. SUFFICES ASSUME IInv, Adopted
                 PROVE  /\ device.context.encode_family = lent.encode_family
                        /\ \A family \in {"encode_family", "compute_family", "transfer_family"} :
                              /\ family \in Written(lent)
                              /\ device.context[family] = lent[family]
    BY DEF FamiliesWereWritten
  <2>2. lent \in Descriptors /\ Wrong(read_struct(lent)) = {}
    BY <2>1, AdoptedFields DEF IInv
  <2>3. {"encode_family", "compute_family", "transfer_family"} \subseteq Written(lent)
    BY <2>2, AsLent
  <2>4. /\ device.context.encode_family = lent.encode_family
        /\ device.context.compute_family = lent.compute_family
        /\ device.context.transfer_family = lent.transfer_family
    BY <2>1, AdoptedFields DEF IInv
  <2> QED
    BY <2>3, <2>4
<1> QED
  BY AdoptionInvariant, <1>1, PTL
=============================================================================
