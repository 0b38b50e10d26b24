------------------------- MODULE MCSessionRegistry -------------------------
(* Instances of SessionRegistry for TLC, with the code's bits and slot count. *)
EXTENDS SessionRegistry
CONSTANT t1

MCThreads == {t1}

\* H264, HEVC, AV1, PRORES, MJPEG
MCCodecs == 0 .. 4

\* A Vulkan device with all its codecs.
MCVulkanCodecs == {0, 1, 2}

\* One codec with a slot, one without, two masks and one the device refuses.
MCQuestions == {{0}, {2}, {0, 3}, {1, 2}, {4}}

\* A codec without a slot, and two that have one, on a device that encodes all three.
MCSlotless == {{3}, {1, 2}}
MCProResCodecs == {0, 1, 2, 3}
=============================================================================
