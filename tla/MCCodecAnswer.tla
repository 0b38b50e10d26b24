--------------------------- MODULE MCCodecAnswer ---------------------------
(* Instances of CodecAnswer for TLC. *)
EXTENDS CodecAnswer

\* A driver of plain numbers, that takes every cell under every profile.
Plain(codec) ==
    [codec |-> codec, profiles |-> Profiles(codec), cells |-> Matrix,
     formats |-> {"G8_2PLANE_420", "R8G8B8A8"}, active |-> 4, rate_layers |-> 1,
     quality_levels |-> 1, picture |-> 2, input |-> 1, modes |-> Modes, delta_map |-> FALSE,
     p |-> 2, b |-> 2, l1 |-> 1, layers |-> 1, min_q |-> 0, max_q |-> 51]

\* Every set of profiles, with all cells, one, or none.
OfProfiles ==
    UNION {{[Plain(codec) EXCEPT !.profiles = profiles, !.cells = cells] :
               profiles \in SUBSET Profiles(codec),
               cells \in {{}, Matrix} \cup {{cell} : cell \in Matrix}} : codec \in Codecs}

\* No format, one, all, and one the table lacks beside each.
OfFormats ==
    {[Plain("h264") EXCEPT !.formats = fs \cup other] :
        fs \in {{}, DOMAIN Native} \cup {{f} : f \in DOMAIN Native}, other \in {{}, {"other"}}}

\* The codecs' counts and the common ones, around zero and at the word's end.
OfReferences ==
    {[Plain(codec) EXCEPT !.p = p, !.b = b, !.l1 = l1, !.active = active] :
        codec \in Codecs, p \in {0, 1, 3, Word - 1}, b \in {0, 1}, l1 \in {0, 1, Word - 1},
        active \in {0, 2, Word - 1}}

OfQuantizers ==
    {[Plain(codec) EXCEPT !.min_q = lo, !.max_q = hi] :
        codec \in {"h264", "hevc"}, lo \in -3 .. 3, hi \in -1 .. 4}
    \cup {[Plain("av1") EXCEPT !.min_q = lo, !.max_q = hi] : lo \in 0 .. 3, hi \in 0 .. 4}

OfControl ==
    {[Plain("hevc") EXCEPT !.rate_layers = rates, !.layers = layers, !.modes = modes,
                           !.quality_levels = levels, !.delta_map = map] :
        rates \in 0 .. 3, layers \in 0 .. 3, modes \in SUBSET Modes, levels \in 0 .. 2,
        map \in BOOLEAN}

OfSizes ==
    {[Plain("h264") EXCEPT !.picture = g, !.input = h] : g \in 0 .. 17, h \in 0 .. 17}

MCDrivers == OfProfiles \cup OfFormats \cup OfReferences \cup OfQuantizers \cup OfControl \cup OfSizes
=============================================================================
