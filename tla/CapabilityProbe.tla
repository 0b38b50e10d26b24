-------------------------- MODULE CapabilityProbe --------------------------
(***************************************************************************)
(* What a Vulkan device says of a codec (device/vulkan/capabilities.cpp):  *)
(* query_codec_capabilities probes every chroma and depth, measures one of *)
(* them, and walks the encode source formats of all that are supported;    *)
(* query_format_tier later asks the same driver, again, about one format.  *)
(* The driver is asked in many separate calls, any of which may fail for a *)
(* reason that passes (out of memory): a lapse.  The code skips some of    *)
(* those failures and returns others.                                      *)
(*                                                                         *)
(* One client at a time: CodecCache.tla has the threads.                   *)
(***************************************************************************)
EXTENDS Naturals, Sequences, FiniteSets

CONSTANTS
    Chromas, Depths,    \* lengths of probe_chromas and probe_depths
    FirstChoice,        \* the cell of 4:2:0 and 8 bits
    VkFormats,          \* formats a driver may report
    FormatMap,          \* format_map: VkFormat -> enc_format
    EncFormats,         \* the formats clients know
    MaxInputs,          \* std::size(input_formats)
    Reports,            \* format lists a driver may answer with
    MaxLapses,          \* bound: driver calls that fail in passing
    Undefined           \* ENC_FORMAT_UNDEFINED, VK_FORMAT_UNDEFINED

\* The chroma and depth matrix, in probing order: depths vary fastest.
Cells  == 1 .. Chromas * Depths
NoCell == 0

ChromaOf(cell) == ((cell - 1) \div Depths) + 1
DepthOf(cell)  == ((cell - 1) % Depths) + 1

Usages  == {"ENCODE_SRC", "ATTACHMENT", "STORAGE"}
Entries == [format : VkFormats, usage : SUBSET Usages]

ASSUME ProbeAssumption ==
    /\ Chromas \in Nat \ {0} /\ Depths \in Nat \ {0}
    /\ FirstChoice \in Cells
    /\ IsFiniteSet(VkFormats)
    /\ DOMAIN FormatMap \subseteq VkFormats
    /\ FormatMap \in [DOMAIN FormatMap -> EncFormats]
    /\ MaxInputs \in Nat
    /\ Reports \subseteq Seq(Entries)
    /\ MaxLapses \in Nat
    /\ Undefined \notin EncFormats \cup VkFormats

\* format_map: no format twice on either side, and fewer than input_formats holds.
ASSUME MapAssumption ==
    /\ \A f, g \in DOMAIN FormatMap : FormatMap[f] = FormatMap[g] => f = g
    /\ Cardinality(DOMAIN FormatMap) <= MaxInputs

VARIABLES
    driver,         \* the cells the driver supports, each with its source formats
    compute_family, \* the device has a compute queue
    refusal,        \* why the device refuses the codec unasked, or "none"
    lapses,         \* driver calls that failed in passing
    phase,          \* where the client's call is
    cell,           \* the cell, or supported profile, the loop is at
    entries,        \* what is left of the format list the loop is in
    supported,      \* `supported`, then the cached entry's profiles
    primary,        \* the cell the limits are measured on
    chromas, depths,
    input_formats, surface_tiers, preferred_input_format,
    best_tier,      \* the tier of preferred_input_format
    truncated,
    picture_format, reference_format,
    outcome,        \* how the last query_codec_capabilities ended
    asked, best, answer     \* query_format_tier: its format, `best`, its result

device  == <<driver, compute_family, refusal>>
matrix  == <<supported, primary, chromas, depths>>
listing == <<input_formats, surface_tiers, preferred_input_format, best_tier, truncated>>
picture == <<picture_format, reference_format>>
tiering == <<asked, best, answer>>
vars    == <<device, lapses, phase, cell, entries, matrix, listing, picture,
             outcome, tiering>>

Places == {"idle", "probe", "measure", "cells", "entries", "sources", "references",
           "done", "tiers"}

-----------------------------------------------------------------------------
(* Conversions *)

to_enc_format(f) == IF f \in DOMAIN FormatMap THEN FormatMap[f] ELSE Undefined

\* to_vulkan_format: the formats, at most one, that f is mapped from.
to_vulkan_format(f) == {g \in DOMAIN FormatMap : FormatMap[g] = f}

tier_of(usage) ==
    IF "ENCODE_SRC" \notin usage THEN "NONE"
    ELSE IF usage \cap {"ATTACHMENT", "STORAGE"} # {} THEN "FUSED"
    ELSE "SPLIT"

-----------------------------------------------------------------------------
Init ==
    /\ \E takes \in SUBSET Cells : driver \in [takes -> Reports]
    /\ compute_family \in BOOLEAN
    /\ refusal \in {"none", "UNSUPPORTED", "CODEC_UNSUPPORTED"}
    /\ lapses = 0
    /\ phase = "idle"
    /\ cell = 1
    /\ entries = <<>>
    /\ supported = <<>> /\ primary = NoCell
    /\ chromas = {} /\ depths = {}
    /\ input_formats = <<>> /\ surface_tiers = {}
    /\ preferred_input_format = Undefined /\ best_tier = "NONE"
    /\ truncated = FALSE
    /\ picture_format = Undefined /\ reference_format = Undefined
    /\ outcome = "none"
    /\ asked = Undefined /\ best = "NONE" /\ answer = "none"

\* The driver call fails, though it might not the next time.
Lapse ==
    /\ lapses < MaxLapses
    /\ lapses' = lapses + 1

\* query_codec_capabilities returns.
Ends(code) ==
    /\ phase' = "done"
    /\ outcome' = code

\* The loop goes on to the next cell.
NextCell == cell' = cell + 1

-----------------------------------------------------------------------------
(* query_codec_capabilities: the matrix *)

\* Nothing is cached: the client's call gets as far as the driver.  An error is
\* not cached, so the call after it starts over.
Asks == phase = "idle" \/ (phase = "done" /\ outcome # "SUCCESS")

\* A device without the video queries, or that does not encode the codec.
Refuse ==
    /\ Asks
    /\ refusal # "none"
    /\ Ends(refusal)
    /\ UNCHANGED <<device, lapses, cell, entries, matrix, listing, picture, tiering>>

\* `capabilities`, `supported` and the rest as declared: all empty.
Start ==
    /\ Asks
    /\ refusal = "none"
    /\ phase' = "probe"
    /\ cell' = 1
    /\ entries' = <<>>
    /\ supported' = <<>> /\ primary' = NoCell
    /\ chromas' = {} /\ depths' = {}
    /\ input_formats' = <<>> /\ surface_tiers' = {}
    /\ preferred_input_format' = Undefined /\ best_tier' = "NONE"
    /\ truncated' = FALSE
    /\ picture_format' = Undefined /\ reference_format' = Undefined
    /\ UNCHANGED <<device, lapses, outcome, tiering>>

\* A bug: the last depth of the first choice's chroma wins.
ChooseAnyDepth(c) ==
    IF primary = NoCell \/ ChromaOf(c) = ChromaOf(FirstChoice) THEN c ELSE primary

\* The first supported cell, unless the first choice turns up.
Choose(c) == IF primary = NoCell \/ c = FirstChoice THEN c ELSE primary

\* capability_probe::run, when nothing fails in passing: the driver takes the profile.
Takes(c) == c \in DOMAIN driver

\* A bug: the cell enters the list before the probe's status is looked at.
ProbeAlways ==
    /\ phase = "probe"
    /\ cell \in Cells
    /\ supported' = Append(supported, cell)
    /\ chromas' = chromas \cup {ChromaOf(cell)}
    /\ depths' = depths \cup {DepthOf(cell)}
    /\ primary' = Choose(cell)
    /\ NextCell
    /\ UNCHANGED <<device, lapses, phase, entries, listing, picture, outcome, tiering>>

ProbeTakes ==
    /\ phase = "probe"
    /\ Takes(cell)
    /\ supported' = Append(supported, cell)
    /\ chromas' = chromas \cup {ChromaOf(cell)}
    /\ depths' = depths \cup {DepthOf(cell)}
    /\ primary' = Choose(cell)
    /\ NextCell
    /\ UNCHANGED <<device, lapses, phase, entries, listing, picture, outcome, tiering>>

\* The driver refuses the profile, or fails: either way the cell is passed over.
ProbeRefuses ==
    /\ phase = "probe"
    /\ cell \in Cells
    /\ \/ ~Takes(cell) /\ UNCHANGED lapses
       \/ Takes(cell) /\ Lapse
    /\ NextCell
    /\ UNCHANGED <<device, phase, entries, matrix, listing, picture, outcome, tiering>>

ProbeEnds ==
    /\ phase = "probe"
    /\ cell \notin Cells
    /\ \/ primary = NoCell /\ Ends("CODEC_UNSUPPORTED")
       \/ primary # NoCell /\ phase' = "measure" /\ UNCHANGED outcome
    /\ UNCHANGED <<device, lapses, cell, entries, matrix, listing, picture, tiering>>

\* The primary cell is probed once more, for the limits.
Measure ==
    /\ phase = "measure"
    /\ \/ phase' = "cells" /\ cell' = 1 /\ UNCHANGED <<lapses, outcome>>
       \/ Lapse /\ Ends("CODEC_UNSUPPORTED") /\ UNCHANGED cell
    /\ UNCHANGED <<device, entries, matrix, listing, picture, tiering>>

-----------------------------------------------------------------------------
(* query_codec_capabilities: the source formats *)

\* query_video_formats of a supported profile; a failure passes it over.
ListCell ==
    /\ phase = "cells"
    /\ cell \in DOMAIN supported
    /\ \/ /\ entries' = driver[supported[cell]]
          /\ phase' = "entries"
          /\ UNCHANGED <<lapses, cell>>
       \/ Lapse /\ NextCell /\ UNCHANGED <<entries, phase>>
    /\ UNCHANGED <<device, matrix, listing, picture, outcome, tiering>>

Mapped == to_enc_format(Head(entries).format)
Tier   == tier_of(Head(entries).usage)
Listed == {input_formats[i] : i \in DOMAIN input_formats}

\* The entry at the head is dealt with; its tier counts whatever its format.
TakesEntry ==
    /\ phase = "entries"
    /\ entries # <<>>
    /\ entries' = Tail(entries)
    /\ surface_tiers' = surface_tiers \cup ({Tier} \ {"NONE"})
    /\ UNCHANGED <<device, lapses, phase, cell, matrix, picture, outcome, tiering>>

\* A format no client knows, or one that is in the list already.
PassEntry ==
    /\ TakesEntry
    /\ Mapped = Undefined \/ Mapped \in Listed
    /\ UNCHANGED <<input_formats, preferred_input_format, best_tier, truncated>>

\* The first format is preferred until a fused one comes.
PreferEntry ==
    IF preferred_input_format = Undefined \/ (Tier = "FUSED" /\ best_tier # "FUSED")
    THEN preferred_input_format' = Mapped /\ best_tier' = Tier
    ELSE UNCHANGED <<preferred_input_format, best_tier>>

\* A bug: formats already listed are listed again.
AddEntryAgain ==
    /\ TakesEntry
    /\ Mapped # Undefined
    /\ \/ /\ Len(input_formats) < MaxInputs
          /\ input_formats' = Append(input_formats, Mapped)
          /\ UNCHANGED truncated
       \/ /\ Len(input_formats) >= MaxInputs
          /\ truncated' = TRUE
          /\ UNCHANGED input_formats
    /\ PreferEntry

\* A bug: a format no client knows is logged and then listed all the same.
AddEntryUnmapped ==
    /\ TakesEntry
    /\ Mapped \notin Listed
    /\ IF Len(input_formats) < MaxInputs
       THEN input_formats' = Append(input_formats, Mapped) /\ UNCHANGED truncated
       ELSE truncated' = TRUE /\ UNCHANGED input_formats
    /\ PreferEntry

AddEntry ==
    /\ TakesEntry
    /\ Mapped # Undefined /\ Mapped \notin Listed
    /\ IF Len(input_formats) < MaxInputs
       THEN input_formats' = Append(input_formats, Mapped) /\ UNCHANGED truncated
       ELSE truncated' = TRUE /\ UNCHANGED input_formats
    /\ PreferEntry

CellListed ==
    /\ phase = "entries"
    /\ entries = <<>>
    /\ phase' = "cells"
    /\ NextCell
    /\ UNCHANGED <<device, lapses, entries, matrix, listing, picture, outcome, tiering>>

CellsEnd ==
    /\ phase = "cells"
    /\ cell \notin DOMAIN supported
    /\ \/ input_formats = <<>> /\ Ends("FORMAT_UNSUPPORTED")
       \/ input_formats # <<>> /\ phase' = "sources" /\ UNCHANGED outcome
    /\ UNCHANGED <<device, lapses, cell, entries, matrix, listing, picture, tiering>>

\* The primary cell's sources are queried again; now a failure is returned.
Sources ==
    /\ phase = "sources"
    /\ \/ entries' = driver[primary] /\ phase' = "references" /\ UNCHANGED <<lapses, outcome>>
       \/ Lapse /\ Ends("FORMAT_UNSUPPORTED") /\ UNCHANGED entries
    /\ UNCHANGED <<device, cell, matrix, listing, picture, tiering>>

\* The primary cell's DPB formats fail, or there was no source to go with them.
ReferencesFail ==
    /\ phase = "references"
    /\ \/ Lapse
       \/ entries = <<>> /\ UNCHANGED lapses
    /\ Ends("FORMAT_UNSUPPORTED")
    /\ UNCHANGED <<device, cell, entries, matrix, listing, picture, tiering>>

\* A bug: a primary cell without sources is not refused.
ReferencesAlways ==
    /\ phase = "references"
    /\ picture_format' = IF entries = <<>> THEN Undefined ELSE Head(entries).format
    /\ reference_format' \in VkFormats
    /\ surface_tiers' = surface_tiers \cup (IF compute_family THEN {"CONVERT"} ELSE {})
    /\ Ends("SUCCESS")
    /\ UNCHANGED <<device, lapses, cell, entries, matrix, input_formats,
                   preferred_input_format, best_tier, truncated, tiering>>

\* The picture format is the first source; the reference format the first of the
\* DPB formats, or the picture's when there is none.
References ==
    /\ phase = "references"
    /\ entries # <<>>
    /\ picture_format' = Head(entries).format
    /\ reference_format' \in VkFormats
    /\ surface_tiers' = surface_tiers \cup (IF compute_family THEN {"CONVERT"} ELSE {})
    /\ Ends("SUCCESS")
    /\ UNCHANGED <<device, lapses, cell, entries, matrix, input_formats,
                   preferred_input_format, best_tier, truncated, tiering>>

-----------------------------------------------------------------------------
(* query_format_tier, of the entry that was cached *)

Cached == phase = "done" /\ outcome = "SUCCESS"

\* A format with no Vulkan equivalent is refused at once.
AskFormat ==
    /\ Cached
    /\ \E f \in EncFormats :
          /\ asked' = f
          /\ IF to_vulkan_format(f) = {}
             THEN answer' = "FORMAT_UNSUPPORTED" /\ UNCHANGED phase
             ELSE answer' = "none" /\ phase' = "tiers"
    /\ best' = "NONE"
    /\ cell' = 1
    /\ UNCHANGED <<device, lapses, entries, matrix, listing, picture, outcome>>

\* The tiers the current profile lists the format with.
TiersHere ==
    LET sources == driver[supported[cell]]
    IN {tier_of(sources[i].usage) :
            i \in {j \in DOMAIN sources : sources[j].format \in to_vulkan_format(asked)}}

Answers(tier) == answer' = tier /\ phase' = "done"

\* A bug: the first profile that takes the format at all decides.
TierOfCellFirst ==
    /\ phase = "tiers"
    /\ cell \in DOMAIN supported
    /\ IF TiersHere \ {"NONE"} # {}
       THEN Answers(CHOOSE tier \in TiersHere \ {"NONE"} : TRUE) /\ UNCHANGED <<cell, best>>
       ELSE NextCell /\ UNCHANGED <<best, answer, phase>>
    /\ UNCHANGED <<device, lapses, entries, matrix, listing, picture, outcome, asked>>

\* One profile: fused ends the search, split is remembered.
TierOfCell ==
    /\ phase = "tiers"
    /\ cell \in DOMAIN supported
    /\ IF "FUSED" \in TiersHere
       THEN Answers("FUSED") /\ UNCHANGED <<cell, best>>
       ELSE /\ best' = IF "SPLIT" \in TiersHere THEN "SPLIT" ELSE best
            /\ NextCell
            /\ UNCHANGED <<answer, phase>>
    /\ UNCHANGED <<device, lapses, entries, matrix, listing, picture, outcome, asked>>

\* A profile whose formats cannot be had is passed over.
TierLapses ==
    /\ phase = "tiers"
    /\ cell \in DOMAIN supported
    /\ Lapse
    /\ NextCell
    /\ UNCHANGED <<device, phase, entries, matrix, listing, picture, outcome, tiering>>

TierEnds ==
    /\ phase = "tiers"
    /\ cell \notin DOMAIN supported
    /\ Answers(IF best # "NONE" THEN best
               ELSE IF compute_family THEN "CONVERT" ELSE "FORMAT_UNSUPPORTED")
    /\ UNCHANGED <<device, lapses, cell, entries, matrix, listing, picture, outcome,
                   asked, best>>

-----------------------------------------------------------------------------
Matrix  == Refuse \/ Start \/ ProbeTakes \/ ProbeRefuses \/ ProbeEnds \/ Measure
Formats == ListCell \/ PassEntry \/ AddEntry \/ CellListed \/ CellsEnd
Finish  == Sources \/ ReferencesFail \/ References
Ask     == AskFormat \/ TierOfCell \/ TierLapses \/ TierEnds

Next == Matrix \/ Formats \/ Finish \/ Ask

Spec == Init /\ [][Next]_vars

-----------------------------------------------------------------------------
(* Properties *)

EntryTiers == {"FUSED", "SPLIT"}
Outcomes   == {"none", "SUCCESS", "UNSUPPORTED", "CODEC_UNSUPPORTED", "FORMAT_UNSUPPORTED"}

TypeOK ==
    /\ driver \in [DOMAIN driver -> Reports] /\ DOMAIN driver \subseteq Cells
    /\ compute_family \in BOOLEAN
    /\ refusal \in {"none", "UNSUPPORTED", "CODEC_UNSUPPORTED"}
    /\ lapses \in 0 .. MaxLapses
    /\ phase \in Places
    /\ cell \in 1 .. Chromas * Depths + 1
    /\ entries \in Seq(Entries)
    /\ supported \in Seq(Cells)
    /\ primary \in Cells \cup {NoCell}
    /\ chromas \subseteq {ChromaOf(c) : c \in Cells} /\ depths \subseteq {DepthOf(c) : c \in Cells}
    /\ input_formats \in Seq(EncFormats)
    /\ surface_tiers \subseteq EntryTiers \cup {"CONVERT"}
    /\ preferred_input_format \in EncFormats \cup {Undefined}
    /\ best_tier \in EntryTiers \cup {"NONE"}
    /\ truncated \in BOOLEAN
    /\ picture_format \in VkFormats \cup {Undefined}
    /\ reference_format \in VkFormats \cup {Undefined}
    /\ outcome \in Outcomes
    /\ asked \in EncFormats \cup {Undefined}
    /\ best \in {"SPLIT", "NONE"}
    /\ answer \in EntryTiers \cup {"none", "CONVERT", "FORMAT_UNSUPPORTED"}

\* The cell the limits are measured on is 4:2:0 at 8 bits if the device took it,
\* and otherwise the first it took: later cells never push it out.
PrimaryIsFirstChoice ==
    LET taken == {supported[i] : i \in DOMAIN supported}
    IN IF FirstChoice \in taken THEN primary = FirstChoice
       ELSE IF supported = <<>> THEN primary = NoCell
       ELSE primary = Head(supported)

\* Over all profiles the client's list names a format once, so it never runs out
\* of its 16 places, and the preferred format is one of the list.
ListIsSound ==
    /\ \A i, j \in DOMAIN input_formats : input_formats[i] = input_formats[j] => i = j
    /\ ~truncated
    /\ preferred_input_format # Undefined <=> input_formats # <<>>
    /\ preferred_input_format \in Listed \cup {Undefined}

\* What the driver reports of its supported cells.
Reported == UNION {{driver[c][i] : i \in DOMAIN driver[c]} : c \in DOMAIN driver}

\* Whichever calls lapse, the answer only leaves things out: every profile is one
\* the driver takes, every format, tier, chroma and depth one it reports there.
NothingInvented ==
    /\ \A i \in DOMAIN supported : supported[i] \in DOMAIN driver
    /\ Listed \subseteq {to_enc_format(e.format) : e \in Reported}
    /\ surface_tiers \ {"CONVERT"} \subseteq {tier_of(e.usage) : e \in Reported}
    /\ chromas \subseteq {ChromaOf(c) : c \in DOMAIN driver}
    /\ depths \subseteq {DepthOf(c) : c \in DOMAIN driver}

\* An answer that is kept is one an encoder can be built from: limits of a cell
\* the driver takes, a format to render into, a format for the pictures that the
\* driver reports at that very cell.
KeptAnswerUsable ==
    Cached =>
        /\ primary \in DOMAIN driver
        /\ input_formats # <<>>
        /\ \E i \in DOMAIN driver[primary] : driver[primary][i].format = picture_format

\* The driver lists as encode sources only formats it can encode from, which
\* Vulkan has it do.
Conforms == \A e \in Reported : "ENCODE_SRC" \in e.usage

\* The two queries walk the driver's formats apart, with loops that end on
\* different terms, and agree: with no lapses a format is in the cached list just
\* when it is answered with fused or split, the tier answered is one of
\* surface_tiers, and it is fused if any profile lists the format so.
QueriesAgree ==
    lapses = 0 /\ Conforms /\ Cached /\ answer # "none" =>
        /\ answer \in EntryTiers <=> asked \in Listed
        /\ answer # "FORMAT_UNSUPPORTED" => answer \in surface_tiers
        /\ (\E e \in Reported : to_enc_format(e.format) = asked /\ tier_of(e.usage) = "FUSED")
           => answer = "FUSED"

\* encorder.h of preferred_input_format: "The input format the encoder consumes
\* with no conversion and no copy.  Render into this and enc_instance_query_format
\* reports ENC_SURFACE_TIER_FUSED.  ENC_FORMAT_UNDEFINED if none is preferable."
PreferredIsFused ==
    lapses = 0 /\ Conforms /\ Cached /\ asked = preferred_input_format /\ answer # "none" =>
        answer = "FUSED"
=============================================================================
