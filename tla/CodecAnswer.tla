---------------------------- MODULE CodecAnswer ----------------------------
(***************************************************************************)
(* What the numbers and names in a codec's enc_capabilities say of the     *)
(* driver they were computed from (device/vulkan/capabilities.cpp, with    *)
(* the tables of profile.cpp, formats.cpp and format.cpp).                 *)
(* CapabilityProbe.tla has the calls, their order and their failures, over *)
(* cells and formats without meaning; here the calls succeed and the cells *)
(* are chromas and depths, the formats formats, the limits numbers.        *)
(*                                                                         *)
(* Widths and heights are computed alike: the model has widths.            *)
(***************************************************************************)
EXTENDS StdProfiles, FormatTables, Integers, FiniteSets, FiniteSetsExt

CONSTANTS
    Drivers,        \* what drivers say of a codec
    Word,           \* 2^32
    NoAnswer        \* nothing was asked yet

\* std::size(input_formats)
MaxInputs == 16

\* VkVideoEncodeRateControlModeFlagBitsKHR
Modes == {"DISABLED", "CBR", "VBR"}

ASSUME AnswerAssumption ==
    /\ Word \in Nat \ {0}
    /\ \A d \in Drivers :
          /\ d.codec \in Codecs
          /\ d.profiles \subseteq Profiles(d.codec)         \* standard profiles taken
          /\ d.cells \subseteq Matrix                       \* cells the hardware encodes
          /\ d.formats \subseteq (DOMAIN Native) \cup {"other"}  \* encode sources
          \* VkVideoCapabilitiesKHR, VkVideoEncodeCapabilitiesKHR
          /\ {d.active, d.rate_layers, d.quality_levels, d.picture, d.input} \subseteq 0 .. Word - 1
          /\ d.modes \subseteq Modes /\ d.delta_map \in BOOLEAN
          \* The codec's own: P and B pictures' references; for AV1 p is
          \* maxSingleReferenceCount and l1 maxBidirectionalCompoundReferenceCount.
          /\ {d.p, d.b, d.l1, d.layers} \subseteq 0 .. Word - 1
          /\ d.min_q \in Int /\ d.max_q \in Int
          /\ d.codec = "av1" => d.min_q >= 0 /\ d.max_q >= 0

VARIABLES driver, answer

vars == <<driver, answer>>

Init == driver \in Drivers /\ answer = NoAnswer

-----------------------------------------------------------------------------
(* limits_of, rate_modes_of *)

\* A bug: the sign is lost before it is looked at.
QuantizerUnclamped(codec, q) == q % Word

\* static_cast<uint32_t>(max(q, 0)); AV1's indices are unsigned already.
Quantizer(codec, q) == IF codec = "av1" THEN q ELSE Max({q, 0})

limits_of(d) ==
    [max_references      |-> (d.p + d.l1) % Word,
     max_temporal_layers |-> d.layers,
     quantizer_min       |-> Quantizer(d.codec, d.min_q),
     quantizer_max       |-> Quantizer(d.codec, d.max_q),
     b_frames            |-> d.l1 > 0 \/ (d.codec # "av1" /\ d.b > 0)]

rate_modes_of(d) ==
    { mode \in {"CONSTANT_QUANTISER", "CONSTANT_BITRATE", "AVERAGE_BITRATE", "CONSTANT_QUALITY"} :
        CASE mode = "CONSTANT_QUANTISER" -> "DISABLED" \in d.modes
          [] mode = "CONSTANT_BITRATE" -> "CBR" \in d.modes
          [] mode = "AVERAGE_BITRATE" -> "VBR" \in d.modes
          [] mode = "CONSTANT_QUALITY" -> "VBR" \in d.modes /\ d.quality_levels > 1 }

-----------------------------------------------------------------------------
(* query_codec_capabilities *)

\* The driver takes the profile asked for, and the profile has the cell.
Supported(d) ==
    {cell \in d.cells : /\ ProfileOf(d.codec, cell) \in d.profiles
                        /\ cell \in Admits(d.codec, ProfileOf(d.codec, cell))}

\* input_formats, whose order does not matter here.
Inputs(d) == {to_enc_format(f) : f \in d.formats} \ {UNDEFINED}

TemporalLayers(d) ==
    Min({Max({d.rate_layers, 1}), Max({limits_of(d).max_temporal_layers, 1})})

Features(d) ==
    { feature \in {"B_FRAMES", "TEMPORAL_LAYERS", "DYNAMIC_BITRATE", "ROI_QP"} :
        CASE feature = "B_FRAMES" -> limits_of(d).b_frames
          [] feature = "TEMPORAL_LAYERS" -> TemporalLayers(d) > 1
          [] feature = "DYNAMIC_BITRATE" -> d.modes # {}
          [] feature = "ROI_QP" -> d.delta_map }

Capabilities(d) ==
    [code                 |-> "SUCCESS",
     supported            |-> Supported(d),
     chroma_formats       |-> {cell.chroma : cell \in Supported(d)},
     bit_depths           |-> {bit_depth_flag(cell.luma_depth) : cell \in Supported(d)},
     input_formats        |-> Inputs(d),
     width_align          |-> Max({d.picture, d.input}),
     max_reference_frames |-> Min({d.active, limits_of(d).max_references}),
     max_temporal_layers  |-> TemporalLayers(d),
     quantizer_min        |-> limits_of(d).quantizer_min,
     quantizer_max        |-> limits_of(d).quantizer_max,
     rate_modes           |-> rate_modes_of(d),
     features             |-> Features(d)]

Asks == answer = NoAnswer /\ UNCHANGED driver

\* No cell of the matrix is taken.
NoCell ==
    /\ Asks
    /\ Supported(driver) = {}
    /\ answer' = [code |-> "CODEC_UNSUPPORTED"]

\* Nothing the driver reads has an enc_format.
NoInput ==
    /\ Asks
    /\ Supported(driver) # {} /\ Inputs(driver) = {}
    /\ answer' = [code |-> "FORMAT_UNSUPPORTED"]

Answer ==
    /\ Asks
    /\ Supported(driver) # {} /\ Inputs(driver) # {}
    /\ answer' = Capabilities(driver)

Next == NoCell \/ NoInput \/ Answer

Spec == Init /\ [][Next]_vars

-----------------------------------------------------------------------------
(* Properties *)

Answered == answer # NoAnswer /\ answer.code = "SUCCESS"

\* What an encoder could be made for: some profile of the driver has the cell.
Encodable(d) == {cell \in d.cells : \E p \in d.profiles : cell \in Admits(d.codec, p)}

\* Cells the driver has under a larger profile only: the one they are asked for under
\* has them and is included in the larger one, but the driver does not take it.
OnlyInLarger(d) ==
    {cell \in d.cells :
        LET small == ProfileOf(d.codec, cell)
        IN /\ small \notin d.profiles
           /\ cell \in Admits(d.codec, small)
           /\ \E p \in d.profiles :
                 small \in Includes(d.codec, p) /\ cell \in Admits(d.codec, p)}

\* Whatever profiles a driver takes, asking under one per cell finds every cell it
\* encodes, less three kinds: a handful asked for under a profile that has no such
\* cell (12-bit H.264, 8 and 10-bit monochrome HEVC, 12-bit 4:4:4 AV1), two asked
\* for under a larger profile than they need (monochrome H.264), and those a driver
\* takes under a larger profile without taking the smaller one it includes.
MissesAreNamed ==
    answer # NoAnswer =>
        LET found == IF answer.code = "CODEC_UNSUPPORTED" THEN {} ELSE Supported(driver)
        IN Encodable(driver) \ found \subseteq
              Misplaced(driver.codec) \cup Overplaced(driver.codec) \cup OnlyInLarger(driver)

\* The two tables of formats, written by hand in two files, agree: what an
\* application is told of a listed format is what the driver reads, asking about a
\* format asks about the VkFormat that is listed as that format, and no list can
\* outgrow its array.
FormatsDescribed ==
    Answered =>
        LET known == {f \in driver.formats : to_enc_format(f) # UNDEFINED}
        IN /\ \A f \in known : /\ LayoutOf(to_enc_format(f)) = Native[f]
                              /\ to_vulkan_format(to_enc_format(f)) = f
           /\ \A format \in DOMAIN format_table : to_vulkan_format(format) # UNDEFINED =>
                 to_enc_format(to_vulkan_format(format)) = format
           /\ Cardinality(answer.input_formats) = Cardinality(known)
           /\ Cardinality(known) <= MaxInputs

\* A frame may keep what is reported, and that is no less than a P picture uses
\* of what can be active, unless the sum wraps: then it is less, never more.
ReferencesKept ==
    /\ answer.max_reference_frames <= driver.active
    /\ driver.p + driver.l1 < Word => answer.max_reference_frames >= Min({driver.p, driver.active})

\* Every quantizer in the range reported is one the driver takes, and no
\* non-negative one is left out.
QuantizersTaken ==
    driver.max_q >= 0 =>
        answer.quantizer_min .. answer.quantizer_max = {q \in driver.min_q .. driver.max_q : q >= 0}

\* Where one granularity divides the other, as powers of two do, a width aligned as
\* reported suits both.
SizesAligned ==
    LET g == driver.picture
        h == driver.input
    IN g > 0 /\ h > 0 /\ (g % h = 0 \/ h % g = 0) =>
          answer.width_align % g = 0 /\ answer.width_align % h = 0

\* Layers are offered only if the rate control and the codec both have several,
\* and there is always one; bitrates are only offered with rate control.
LayersBacked ==
    /\ answer.max_temporal_layers >= 1
    /\ "TEMPORAL_LAYERS" \in answer.features =>
          answer.max_temporal_layers <= driver.layers /\ answer.max_temporal_layers <= driver.rate_layers
    /\ answer.rate_modes \cap {"CONSTANT_BITRATE", "AVERAGE_BITRATE", "CONSTANT_QUALITY"} # {} =>
          driver.modes \ {"DISABLED"} # {} /\ "DYNAMIC_BITRATE" \in answer.features

\* The limits reported are limits the driver keeps.
LimitsHold == Answered => ReferencesKept /\ QuantizersTaken /\ SizesAligned /\ LayersBacked
=============================================================================
