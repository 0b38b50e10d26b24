----------------------------- MODULE StdProfiles -----------------------------
(***************************************************************************)
(* The profile a probe asks the driver for (device/vulkan/profile.cpp).    *)
(* Vulkan names what to encode by a codec operation, a standard profile of *)
(* the codec, a chroma subsampling and bit depths; the code has the codec  *)
(* and one cell of the chroma and depth matrix, and picks the standard     *)
(* profile from them.                                                      *)
(*                                                                         *)
(* Admits and Includes are not of the code: they are what the codecs' own  *)
(* documents say a profile contains (H.264 and H.265 Annex A, AV1 Annex A), *)
(* for the subsamplings and depths probed.                                 *)
(***************************************************************************)
EXTENDS Naturals

Codecs  == {"h264", "hevc", "av1"}
Chromas == {"monochrome", "420", "422", "444"}
Depths  == {8, 10, 12}

\* VK_VIDEO_COMPONENT_BIT_DEPTH_INVALID_KHR
INVALID == 0

\* profile_key, less the codec.
Cell(chroma, depth) ==
    [chroma |-> chroma, luma_depth |-> depth,
     chroma_depth |-> IF chroma = "monochrome" THEN INVALID ELSE depth]

\* The matrix a probe walks.
Matrix == {Cell(chroma, depth) : chroma \in Chromas, depth \in Depths}

-----------------------------------------------------------------------------
(* h264_profile, h265_profile, av1_profile *)

\* A bug: the depth is looked at first.
H264ProfileDepthFirst(cell) ==
    CASE cell.luma_depth # 8 -> "HIGH_10"
      [] cell.luma_depth = 8 /\ cell.chroma \in {"444", "monochrome"} -> "HIGH_444_PREDICTIVE"
      [] cell.luma_depth = 8 /\ cell.chroma = "422" -> "HIGH_422"
      [] cell.luma_depth = 8 /\ cell.chroma = "420" -> "HIGH"

H264Profile(cell) ==
    CASE cell.chroma \in {"444", "monochrome"} -> "HIGH_444_PREDICTIVE"
      [] cell.chroma = "422" -> "HIGH_422"
      [] cell.chroma = "420" /\ cell.luma_depth # 8 -> "HIGH_10"
      [] cell.chroma = "420" /\ cell.luma_depth = 8 -> "HIGH"

H265Profile(cell) ==
    CASE cell.chroma \in {"422", "444"} -> "FORMAT_RANGE_EXTENSIONS"
      [] cell.chroma \notin {"422", "444"} /\ cell.luma_depth = 8 -> "MAIN"
      [] cell.chroma \notin {"422", "444"} /\ cell.luma_depth = 10 -> "MAIN_10"
      [] cell.chroma \notin {"422", "444"} /\ cell.luma_depth = 12 -> "FORMAT_RANGE_EXTENSIONS"

AV1Profile(cell) ==
    CASE cell.chroma = "444" -> "HIGH"
      [] cell.chroma = "422" -> "PROFESSIONAL"
      [] cell.chroma \notin {"422", "444"} ->
            IF cell.luma_depth = 12 THEN "PROFESSIONAL" ELSE "MAIN"

\* profile_chain: the codec's own structure, with its profile, for its operation.
ProfileOf(codec, cell) ==
    CASE codec = "h264" -> H264Profile(cell)
      [] codec = "hevc" -> H265Profile(cell)
      [] codec = "av1"  -> AV1Profile(cell)

-----------------------------------------------------------------------------
(* The codecs' documents *)

Profiles(codec) ==
    CASE codec = "h264" -> {"HIGH", "HIGH_10", "HIGH_422", "HIGH_444_PREDICTIVE"}
      [] codec = "hevc" -> {"MAIN", "MAIN_10", "FORMAT_RANGE_EXTENSIONS"}
      [] codec = "av1"  -> {"MAIN", "HIGH", "PROFESSIONAL"}

UpTo(depth, chromas) ==
    {cell \in Matrix : cell.luma_depth <= depth /\ cell.chroma \in chromas}

\* The cells a profile of a codec contains.
Admits(codec, profile) ==
    CASE codec = "h264" /\ profile = "HIGH" -> UpTo(8, {"monochrome", "420"})
      [] codec = "h264" /\ profile = "HIGH_10" -> UpTo(10, {"monochrome", "420"})
      [] codec = "h264" /\ profile = "HIGH_422" -> UpTo(10, {"monochrome", "420", "422"})
      [] codec = "h264" /\ profile = "HIGH_444_PREDICTIVE" -> Matrix
      [] codec = "hevc" /\ profile = "MAIN" -> UpTo(8, {"420"})
      [] codec = "hevc" /\ profile = "MAIN_10" -> UpTo(10, {"420"})
      [] codec = "hevc" /\ profile = "FORMAT_RANGE_EXTENSIONS" -> Matrix
      [] codec = "av1" /\ profile = "MAIN" -> UpTo(10, {"monochrome", "420"})
      [] codec = "av1" /\ profile = "HIGH" -> UpTo(10, {"444"})
      [] codec = "av1" /\ profile = "PROFESSIONAL" ->
            UpTo(10, {"422"}) \cup {cell \in Matrix : cell.luma_depth = 12}

\* A profile and the smaller ones whose streams its decoders handle as well.  Of what
\* a driver takes that says nothing: Vulkan has it name each profile by itself.
Includes(codec, profile) ==
    CASE codec = "h264" /\ profile = "HIGH" -> {"HIGH"}
      [] codec = "h264" /\ profile = "HIGH_10" -> {"HIGH", "HIGH_10"}
      [] codec = "h264" /\ profile = "HIGH_422" -> {"HIGH", "HIGH_10", "HIGH_422"}
      [] codec = "h264" /\ profile = "HIGH_444_PREDICTIVE" -> Profiles("h264")
      [] codec = "hevc" /\ profile = "MAIN" -> {"MAIN"}
      [] codec = "hevc" /\ profile = "MAIN_10" -> {"MAIN", "MAIN_10"}
      [] codec = "hevc" /\ profile = "FORMAT_RANGE_EXTENSIONS" -> Profiles("hevc")
      [] codec = "av1" /\ profile = "MAIN" -> {"MAIN"}
      [] codec = "av1" /\ profile = "HIGH" -> {"MAIN", "HIGH"}
      [] codec = "av1" /\ profile = "PROFESSIONAL" -> Profiles("av1")

-----------------------------------------------------------------------------
(* Where the code's choice and the documents differ *)

\* Cells it asks for under a profile that does not contain them.
Misplaced(codec) ==
    CASE codec = "h264" -> {Cell("420", 12), Cell("422", 12)}
      [] codec = "hevc" -> {Cell("monochrome", 8), Cell("monochrome", 10)}
      [] codec = "av1"  -> {Cell("444", 12)}

\* Cells it asks for under a larger profile than they need.
Overplaced(codec) ==
    IF codec = "h264" THEN {Cell("monochrome", 8), Cell("monochrome", 10)} ELSE {}
=============================================================================
