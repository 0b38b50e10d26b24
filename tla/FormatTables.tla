---------------------------- MODULE FormatTables ----------------------------
(***************************************************************************)
(* The two hand-written tables of formats: format_table says what an       *)
(* enc_format looks like (core/format.hpp, answered by core/format.cpp),   *)
(* format_map which VkFormat it is (device/vulkan/formats.cpp, searched by *)
(* core/format_map.hpp).  An application draws by the first what a driver  *)
(* reads by the second.                                                    *)
(*                                                                         *)
(* A layout is <<chroma, bit depth, planes, rgb>>.  Native is not of the   *)
(* code: it is what Vulkan says of the VkFormats in the map, and of some   *)
(* that are not in it.                                                     *)
(***************************************************************************)
EXTENDS Naturals, Sequences

\* ENC_FORMAT_UNDEFINED, ENC_CHROMA_NONE
UNDEFINED == "undefined"
NONE      == "none"

format_table ==
    [NV12    |-> <<"420",  8, 2, FALSE>>,  P010 |-> <<"420", 10, 2, FALSE>>,
     P012    |-> <<"420", 12, 2, FALSE>>,  P016 |-> <<"420", 16, 2, FALSE>>,
     NV16    |-> <<"422",  8, 2, FALSE>>,  P210 |-> <<"422", 10, 2, FALSE>>,
     P216    |-> <<"422", 16, 2, FALSE>>,  Y210 |-> <<"422", 10, 1, FALSE>>,
     NV24    |-> <<"444",  8, 2, FALSE>>,  P410 |-> <<"444", 10, 2, FALSE>>,
     P416    |-> <<"444", 16, 2, FALSE>>,  AYUV |-> <<"444",  8, 1, FALSE>>,
     Y410    |-> <<"444", 10, 1, FALSE>>,  Y416 |-> <<"444", 16, 1, FALSE>>,
     RGBA8   |-> <<"444",  8, 1, TRUE>>,   BGRA8   |-> <<"444",  8, 1, TRUE>>,
     RGB10A2 |-> <<"444", 10, 1, TRUE>>,   RGBA16F |-> <<"444", 16, 1, TRUE>>]

\* enc_format_chroma, _bit_depth, _plane_count and _is_rgb, through find_format.
LayoutOf(format) ==
    IF format \in DOMAIN format_table THEN format_table[format] ELSE <<NONE, 0, 0, FALSE>>

\* bit_depth_flag, the flag by its number; 0 is ENC_BIT_DEPTH_NONE.
bit_depth_flag(bits) == IF bits \in {8, 10, 12, 16} THEN bits ELSE 0

-----------------------------------------------------------------------------
(* The VkFormats *)

\* A bug: two lines are filled in from the wrong neighbour.
FormatMapSwapped ==
    << <<"NV12", "G8_2PLANE_420">>, <<"P010", "G10X6_2PLANE_420">>,
       <<"P012", "G16_2PLANE_420">>, <<"P016", "G12X4_2PLANE_420">> >>

format_map ==
    << <<"NV12", "G8_2PLANE_420">>,    <<"P010", "G10X6_2PLANE_420">>,
       <<"P012", "G12X4_2PLANE_420">>, <<"P016", "G16_2PLANE_420">>,
       <<"NV16", "G8_2PLANE_422">>,    <<"P210", "G10X6_2PLANE_422">>,
       <<"P216", "G16_2PLANE_422">>,   <<"Y210", "G10X6_PACKED_422">>,
       <<"NV24", "G8_2PLANE_444">>,    <<"P410", "G10X6_2PLANE_444">>,
       <<"P416", "G16_2PLANE_444">>,   <<"RGBA8", "R8G8B8A8">>,
       <<"BGRA8", "B8G8R8A8">>,        <<"RGB10A2", "A2B10G10R10">>,
       <<"RGBA16F", "R16G16B16A16_SFLOAT">> >>

\* std::ranges::find: the first line of those that match.
FirstLine(lines) == format_map[CHOOSE i \in lines : \A j \in lines : i <= j]

\* native_format_map::from_native
to_enc_format(native) ==
    LET lines == {i \in DOMAIN format_map : format_map[i][2] = native}
    IN IF lines = {} THEN UNDEFINED ELSE FirstLine(lines)[1]

\* native_format_map::to_native; std::nullopt is "undefined" here as well.
to_vulkan_format(format) ==
    LET lines == {i \in DOMAIN format_map : format_map[i][1] = format}
    IN IF lines = {} THEN UNDEFINED ELSE FirstLine(lines)[2]

Native ==
    [G8_2PLANE_420    |-> <<"420", 8, 2, FALSE>>,  G10X6_2PLANE_420 |-> <<"420", 10, 2, FALSE>>,
     G12X4_2PLANE_420 |-> <<"420", 12, 2, FALSE>>, G16_2PLANE_420   |-> <<"420", 16, 2, FALSE>>,
     G8_2PLANE_422    |-> <<"422", 8, 2, FALSE>>,  G10X6_2PLANE_422 |-> <<"422", 10, 2, FALSE>>,
     G12X4_2PLANE_422 |-> <<"422", 12, 2, FALSE>>, G16_2PLANE_422   |-> <<"422", 16, 2, FALSE>>,
     G10X6_PACKED_422 |-> <<"422", 10, 1, FALSE>>,
     G8_2PLANE_444    |-> <<"444", 8, 2, FALSE>>,  G10X6_2PLANE_444 |-> <<"444", 10, 2, FALSE>>,
     G12X4_2PLANE_444 |-> <<"444", 12, 2, FALSE>>, G16_2PLANE_444   |-> <<"444", 16, 2, FALSE>>,
     R8G8B8A8         |-> <<"444", 8, 1, TRUE>>,   B8G8R8A8         |-> <<"444", 8, 1, TRUE>>,
     A2B10G10R10      |-> <<"444", 10, 1, TRUE>>,
     R16G16B16A16_SFLOAT |-> <<"444", 16, 1, TRUE>>]
=============================================================================
