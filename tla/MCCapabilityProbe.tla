------------------------- MODULE MCCapabilityProbe -------------------------
(* Instances of CapabilityProbe for TLC. *)
EXTENDS CapabilityProbe

\* Two formats clients know, and one they do not.
MCVkFormats  == {"vk_nv12", "vk_p010", "vk_g12x4"}
MCFormatMap  == [f \in {"vk_nv12", "vk_p010"} |-> IF f = "vk_nv12" THEN "NV12" ELSE "P010"]
MCEncFormats == {"NV12", "P010", "AYUV"}

Split(f) == [format |-> f, usage |-> {"ENCODE_SRC"}]
Fused(f) == [format |-> f, usage |-> {"ENCODE_SRC", "STORAGE"}]
Stray(f) == [format |-> f, usage |-> {"STORAGE"}]

\* Nothing, one format, the same format in two tilings, two formats, one that is
\* not an encode source at all, one clients do not know.
MCReports ==
    { <<>>,
      <<Split("vk_nv12")>>,
      <<Split("vk_nv12"), Fused("vk_nv12")>>,
      <<Split("vk_p010"), Fused("vk_nv12")>>,
      <<Stray("vk_p010")>>,
      <<Fused("vk_g12x4"), Split("vk_p010")>> }

=============================================================================
