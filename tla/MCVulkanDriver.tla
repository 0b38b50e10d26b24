--------------------------- MODULE MCVulkanDriver ---------------------------
(* Instances of VulkanDriver for TLC. *)
EXTENDS VulkanDriver

MCCandidates == <<"libvulkan.so.1", "libvulkan.so">>
MCCodecs == {"h264", "av1"}

Graphics == [compute |-> TRUE, encode |-> FALSE, operations |-> {}]
Video(operations) == [compute |-> FALSE, encode |-> TRUE, operations |-> operations]

\* A device that encodes both codecs in a family of each, one whose extensions
\* leave out a codec its family does, and one without video.
Encoder == [extensions |-> Extensions, families |-> <<Graphics, Video({"h264"}), Video({"av1"})>>]
Partial == [extensions |-> Extensions \ {"av1"}, families |-> <<Video({"h264", "av1"}), Graphics>>]
Plain   == [extensions |-> {}, families |-> <<Graphics>>]

MCSystems == {<<Encoder>>, <<Plain, Partial>>, <<Encoder, Partial>>, <<Plain>>}
=============================================================================
