-------------------------- MODULE MCVulkanAdoption --------------------------
(* Instances of VulkanAdoption for TLC. *)
EXTENDS VulkanAdoption

MCCodecs == {"h264", "av1"}

Graphics == [encode |-> FALSE, queue_count |-> 1, operations |-> {}]
Video(operations, n) == [encode |-> TRUE, queue_count |-> n, operations |-> operations]

\* One encode family for both codecs, one for each, and one for h264 alone.
MCPhysicalDevices ==
    << [uuid |-> "one", encode_codecs |-> {"h264", "av1"}, encode_family |-> 2,
        compute_family |-> 1, families |-> <<Graphics, Video({"h264", "av1"}, 2)>>],
       [uuid |-> "two", encode_codecs |-> {"h264", "av1"}, encode_family |-> 1,
        compute_family |-> NoFamily, families |-> <<Video({"h264"}, 2), Graphics, Video({"av1"}, 1)>>],
       [uuid |-> "three", encode_codecs |-> {"h264"}, encode_family |-> 3,
        compute_family |-> 1, families |-> <<Graphics, Graphics, Video({"h264"}, 1)>>] >>

\* A descriptor as the import test fills it in.
Good ==
    [struct |-> "SUCCESS", null |-> FALSE, api_version |-> 13, queue_lock |-> FALSE,
     queue_unlock |-> FALSE, missing |-> "none", uuid |-> "one",
     enabled |-> Extensions, encode_family |-> 2, encode_index |-> 0,
     compute_family |-> NoFamily, transfer_family |-> NoFamily, features |-> "with",
     size |-> Len(Layout)]

\* What the driver can only judge against its own records, in all combinations;
\* and the rest, one or two at a time.
MCDescriptors ==
    { [Good EXCEPT !.uuid = uuid, !.enabled = enabled, !.encode_family = family,
                   !.encode_index = index, !.compute_family = compute] :
        uuid \in {"one", "two", "three", "other"},
        enabled \in {{}, {"h264"}, {"video_queue", "encode_queue"},
                     {"video_queue", "encode_queue", "av1"}, Extensions},
        family \in {1, 2, 3, 4, NoFamily}, index \in 0 .. 2,
        compute \in {1, 2, NoFamily} }
    \cup
    { [Good EXCEPT !.struct = struct, !.null = null, !.api_version = version] :
        struct \in {"SUCCESS", "INVALID_ARGUMENT", "INVALID_STRUCT_SIZE", "INVALID_STRUCT_VERSION"},
        null \in BOOLEAN, version \in {12, 13} }
    \cup
    { [Good EXCEPT !.queue_lock = lock, !.queue_unlock = unlock, !.missing = missing,
                   !.features = features] :
        lock \in BOOLEAN, unlock \in BOOLEAN, missing \in {"none", "instance", "device"},
        features \in {"unsaid", "with", "without"} }
    \cup
    { [Good EXCEPT !.size = size, !.compute_family = compute, !.transfer_family = transfer,
                   !.queue_lock = locks, !.queue_unlock = locks] :
        size \in 0 .. Len(Layout), compute \in {2, NoFamily}, transfer \in {2, NoFamily},
        locks \in BOOLEAN }
=============================================================================
