----------------------- MODULE CapabilityProbeProofs -----------------------
(***************************************************************************)
(* Proofs about CapabilityProbe, for any drivers, formats and number of    *)
(* calls that fail in passing.  The inductive invariant adds to the        *)
(* properties where each loop is: the cells tried bound the cells listed,  *)
(* the entries in hand are the driver's, and a phase is reached only with  *)
(* what it needs.                                                          *)
(***************************************************************************)
EXTENDS CapabilityProbe, FiniteSetTheorems, TLAPS

\* A cell is listed at most once, for it is tried once: the list is never longer
\* than the cells tried, and never than the matrix.
ListFits ==
    /\ phase = "probe" => Len(supported) < cell
    /\ Len(supported) <= Chromas * Depths

\* The cell whose entries are in hand is one of the list.
CellAtHand == phase = "entries" => cell \in DOMAIN supported

\* The entries the format walk has in hand are the driver's.
EntriesReported == phase = "entries" => \A i \in DOMAIN entries : entries[i] \in Reported

\* The sources the pictures are taken from are the primary cell's.
SourcesOfPrimary == phase = "references" => entries = driver[primary]

\* Beyond the matrix there is a cell to measure, beyond the walk a format.
PhasesReached ==
    /\ phase \in {"measure", "cells", "entries", "sources", "references"} => primary # NoCell
    /\ phase \in {"sources", "references"} => input_formats # <<>>
    /\ phase = "tiers" => outcome = "SUCCESS"

\* A successful outcome stands while its entry is cached.
CachedUsable ==
    phase = "tiers" =>
        /\ primary \in DOMAIN driver
        /\ input_formats # <<>>
        /\ \E i \in DOMAIN driver[primary] : driver[primary][i].format = picture_format

IInv ==
    /\ TypeOK
    /\ ListFits
    /\ CellAtHand
    /\ EntriesReported
    /\ SourcesOfPrimary
    /\ PhasesReached
    /\ CachedUsable
    /\ PrimaryIsFirstChoice
    /\ ListIsSound
    /\ NothingInvented
    /\ KeptAnswerUsable

-----------------------------------------------------------------------------
(* Facts about the constants and the operators *)

CellCount == Chromas * Depths

LEMMA CellsAre == CellCount \in Nat \ {0} /\ Cells = 1 .. CellCount
BY ProbeAssumption DEF CellCount, Cells

LEMMA TierOfType == ASSUME NEW usage PROVE tier_of(usage) \in EntryTiers \cup {"NONE"}
BY DEF tier_of, EntryTiers

\* A format the map knows is one of the clients' formats, any other is undefined.
LEMMA MappedType ==
    ASSUME NEW f
    PROVE  /\ to_enc_format(f) \in EncFormats \cup {Undefined}
           /\ to_enc_format(f) # Undefined =>
                 f \in DOMAIN FormatMap /\ to_enc_format(f) = FormatMap[f]
BY ProbeAssumption DEF to_enc_format

\* The device is what it was, and each part of the answer has few writers.
LEMMA Writers ==
    ASSUME [Next]_vars
    PROVE  /\ UNCHANGED device
           /\ UNCHANGED matrix \/ Start \/ ProbeTakes
           /\ UNCHANGED listing \/ Start \/ PassEntry \/ AddEntry \/ References
           /\ UNCHANGED picture \/ Start \/ References
<1>1. CASE Matrix
  BY <1>1 DEF Matrix, Refuse, ProbeRefuses, ProbeEnds, Measure, Start, ProbeTakes, device, matrix,
     listing, picture
<1>2. CASE Formats
  BY <1>2 DEF Formats, ListCell, PassEntry, AddEntry, TakesEntry, CellListed, CellsEnd, device,
     matrix, picture
<1>3. CASE Finish
  BY <1>3 DEF Finish, Sources, ReferencesFail, References, device
<1>4. CASE Ask
  BY <1>4 DEF Ask, AskFormat, TierOfCell, TierLapses, TierEnds
<1>5. CASE UNCHANGED vars
  BY <1>5 DEF vars
<1> QED BY <1>1, <1>2, <1>3, <1>4, <1>5 DEF Next

\* Reported is the device's.
LEMMA ReportedStays == ASSUME UNCHANGED device PROVE Reported' = Reported
BY DEF device, Reported

LEMMA InitIInv == Init => IInv
<1> SUFFICES ASSUME Init PROVE IInv OBVIOUS
<1>1. TypeOK
  <2>1. driver \in [DOMAIN driver -> Reports] /\ DOMAIN driver \subseteq Cells
    <3>1. PICK takes \in SUBSET Cells : driver \in [takes -> Reports]
      BY DEF Init
    <3> QED BY <3>1
  <2>2. 1 \in 1 .. Chromas * Depths + 1
    BY CellsAre DEF CellCount
  <2>3. 0 \in 0 .. MaxLapses
    BY ProbeAssumption
  <2>4. phase \in Places /\ outcome \in Outcomes
    BY DEF Init, Places, Outcomes
  <2>5. entries \in Seq(Entries) /\ supported \in Seq(Cells) /\ input_formats \in Seq(EncFormats)
    BY DEF Init
  <2>6. /\ compute_family \in BOOLEAN
        /\ refusal \in {"none", "UNSUPPORTED", "CODEC_UNSUPPORTED"}
        /\ primary \in Cells \cup {NoCell}
        /\ truncated \in BOOLEAN
        /\ chromas = {} /\ depths = {} /\ surface_tiers = {}
    BY DEF Init
  <2>7. /\ preferred_input_format \in EncFormats \cup {Undefined}
        /\ best_tier \in EntryTiers \cup {"NONE"}
        /\ picture_format \in VkFormats \cup {Undefined}
        /\ reference_format \in VkFormats \cup {Undefined}
        /\ asked \in EncFormats \cup {Undefined}
        /\ best \in {"SPLIT", "NONE"}
        /\ answer \in EntryTiers \cup {"none", "CONVERT", "FORMAT_UNSUPPORTED"}
    BY DEF Init
  <2>8. lapses \in 0 .. MaxLapses /\ cell \in 1 .. Chromas * Depths + 1
    BY <2>2, <2>3 DEF Init
  <2> QED BY <2>1, <2>4, <2>5, <2>6, <2>7, <2>8 DEF TypeOK
<1>2. ListFits
  BY CellsAre DEF Init, ListFits, CellCount
<1>3. PrimaryIsFirstChoice /\ ListIsSound /\ NothingInvented
  BY DEF Init, PrimaryIsFirstChoice, ListIsSound, NothingInvented, Listed
<1> QED
  BY <1>1, <1>2, <1>3 DEF Init, IInv, CellAtHand, EntriesReported, SourcesOfPrimary, PhasesReached,
     CachedUsable, KeptAnswerUsable, Cached

-----------------------------------------------------------------------------
(* Each part of IInv is preserved *)

\* The matrix: what ProbeTakes does to it, and that nothing else does more than
\* empty it.
LEMMA PrimaryStays ==
    ASSUME IInv, [Next]_vars
    PROVE  PrimaryIsFirstChoice'
<1>1. CASE UNCHANGED matrix
  BY <1>1 DEF IInv, PrimaryIsFirstChoice, matrix
<1>2. CASE Start
  BY <1>2 DEF Start, PrimaryIsFirstChoice
<1>3. CASE ProbeTakes
  <2>1. /\ cell \in Cells
        /\ supported \in Seq(Cells)
        /\ supported' = Append(supported, cell)
        /\ primary' = Choose(cell)
        /\ PrimaryIsFirstChoice
    BY <1>3 DEF IInv, TypeOK, ProbeTakes, Takes
  <2> DEFINE Taken(s) == {s[i] : i \in DOMAIN s}
  <2>2. Taken(supported') = Taken(supported) \cup {cell}
    BY <2>1
  <2>3. CASE supported = <<>>
    <3>1. primary = NoCell /\ primary' = cell /\ supported' = <<cell>> /\ Taken(supported') = {cell}
      BY <2>1, <2>2, <2>3 DEF PrimaryIsFirstChoice, Choose
    <3> QED BY <3>1 DEF PrimaryIsFirstChoice
  <2>4. CASE supported # <<>>
    <3>1. supported' # <<>> /\ Head(supported') = Head(supported)
      BY <2>1, <2>4
    <3>2. primary # NoCell
      <4>1. Head(supported) \in Cells
        BY <2>1, <2>4
      <4> QED BY <2>1, <2>4, <4>1, CellsAre, ProbeAssumption DEF PrimaryIsFirstChoice, NoCell
    <3>3. primary' = IF cell = FirstChoice THEN cell ELSE primary
      BY <2>1, <3>2 DEF Choose
    <3> QED BY <2>1, <2>2, <2>4, <3>1, <3>3 DEF PrimaryIsFirstChoice
  <2> QED BY <2>3, <2>4
<1> QED BY <1>1, <1>2, <1>3, Writers

\* The probe tries a cell and moves on, so the list lags behind it.
LEMMA ListFitsStays ==
    ASSUME IInv, [Next]_vars
    PROVE  ListFits'
<1>0. /\ CellCount \in Nat \ {0} /\ Chromas * Depths = CellCount
      /\ cell \in 1 .. CellCount + 1
      /\ supported \in Seq(Cells)
      /\ phase = "probe" => Len(supported) < cell
      /\ Len(supported) <= CellCount
      /\ Cells = 1 .. CellCount
  BY CellsAre DEF IInv, TypeOK, ListFits, CellCount
<1>1. CASE Start
  BY <1>1, <1>0 DEF Start, ListFits
<1>2. CASE ProbeTakes
  <2>1. cell \in Cells /\ cell' = cell + 1 /\ supported' = Append(supported, cell)
    BY <1>2 DEF ProbeTakes, Takes, NextCell, IInv, TypeOK
  <2>2. phase = "probe"
    BY <1>2 DEF ProbeTakes
  <2>3. Len(supported') = Len(supported) + 1 /\ Len(supported) \in Nat
    BY <2>1, <1>0
  <2>4. Len(supported') < cell' /\ Len(supported') <= CellCount
    BY <2>1, <2>2, <2>3, <1>0
  <2> QED BY <2>4, <1>0 DEF ListFits
<1>3. CASE ProbeRefuses
  <2>1. supported' = supported /\ phase = "probe" /\ cell' = cell + 1
    BY <1>3 DEF ProbeRefuses, matrix, NextCell
  <2>2. Len(supported) \in Nat /\ Len(supported) < cell'
    BY <2>1, <1>0
  <2> QED BY <2>1, <2>2, <1>0 DEF ListFits
<1>4. CASE UNCHANGED matrix /\ phase' # "probe"
  BY <1>4, <1>0 DEF ListFits, matrix
<1>5. CASE UNCHANGED <<matrix, phase, cell>>
  BY <1>5, <1>0 DEF ListFits, matrix
<1>6. Start \/ ProbeTakes \/ ProbeRefuses \/ (UNCHANGED matrix /\ phase' # "probe")
        \/ UNCHANGED <<matrix, phase, cell>>
  <2>1. CASE Matrix
    BY <2>1 DEF Matrix, Refuse, ProbeEnds, Measure, Ends
  <2>2. CASE Formats
    BY <2>2 DEF Formats, ListCell, PassEntry, AddEntry, TakesEntry, CellListed, CellsEnd, Ends
  <2>3. CASE Finish
    BY <2>3 DEF Finish, Sources, ReferencesFail, References, Ends
  <2>4. CASE Ask
    BY <2>4 DEF Ask, AskFormat, TierOfCell, TierLapses, TierEnds, Answers, Cached
  <2>5. CASE UNCHANGED vars
    BY <2>5 DEF vars
  <2> QED BY <2>1, <2>2, <2>3, <2>4, <2>5 DEF Next
<1> QED BY <1>1, <1>2, <1>3, <1>4, <1>5, <1>6

\* The list the client gets: a format enters once, and as no two of the driver's
\* formats are mapped to one, the list and the format at hand are no more than the
\* map holds.
LEMMA ListStays ==
    ASSUME IInv, [Next]_vars
    PROVE  ListIsSound'
<1>0. ListIsSound /\ input_formats \in Seq(EncFormats)
  BY DEF IInv, TypeOK
<1>1. CASE UNCHANGED listing
  BY <1>0, <1>1 DEF ListIsSound, Listed, listing
<1>2. CASE Start
  BY <1>2 DEF Start, ListIsSound, Listed
<1>3. CASE PassEntry
  BY <1>0, <1>3 DEF PassEntry, ListIsSound, Listed
<1>4. CASE References
  BY <1>0, <1>4 DEF References, ListIsSound, Listed
<1>5. CASE AddEntry
  <2>1. /\ Mapped # Undefined /\ Mapped \notin Listed
        /\ Mapped \in EncFormats
    BY <1>5, MappedType DEF AddEntry, Mapped
  <2>2. Len(input_formats) < MaxInputs
    <3> DEFINE Places1 == 1 .. Len(input_formats) + 1
               list == [i \in Places1 |-> IF i = Len(input_formats) + 1 THEN Mapped
                                          ELSE input_formats[i]]
               Inv(f) == CHOOSE g \in DOMAIN FormatMap : FormatMap[g] = f
    <3>1. Len(input_formats) \in Nat /\ DOMAIN input_formats = 1 .. Len(input_formats)
      BY <1>0
    <3>2. \A i \in Places1 : list[i] \in {FormatMap[g] : g \in DOMAIN FormatMap}
      <4>1. Mapped \in {FormatMap[g] : g \in DOMAIN FormatMap}
        BY <2>1, MappedType DEF Mapped
      <4>2. \A i \in DOMAIN input_formats :
                input_formats[i] \in {FormatMap[g] : g \in DOMAIN FormatMap}
        <5> SUFFICES ASSUME NEW i \in DOMAIN input_formats
                     PROVE  input_formats[i] \in {FormatMap[g] : g \in DOMAIN FormatMap}
          OBVIOUS
        <5>1. PICK e \in Reported : input_formats[i] = to_enc_format(e.format)
          BY DEF IInv, NothingInvented, Listed
        <5>2. input_formats[i] # Undefined
          BY <1>0, ProbeAssumption
        <5> QED BY <5>1, <5>2, MappedType
      <4> QED BY <3>1, <4>1, <4>2
    <3>3. \A i, j \in Places1 : list[i] = list[j] => i = j
      BY <1>0, <2>1, <3>1 DEF ListIsSound, Listed
    <3> DEFINE back == [i \in Places1 |-> Inv(list[i])]
    <3>4. \A i \in Places1 : back[i] \in DOMAIN FormatMap /\ FormatMap[back[i]] = list[i]
      BY <3>2
    <3>5. back \in Injection(Places1, DOMAIN FormatMap)
      <4> HIDE DEF list
      <4> QED BY <3>3, <3>4 DEF Injection, IsInjective
    <3>6. IsFiniteSet(DOMAIN FormatMap)
      BY ProbeAssumption, FS_Subset
    <3>7. Cardinality(Places1) <= Cardinality(DOMAIN FormatMap)
      <4> HIDE DEF back, Places1
      <4> QED BY <3>5, <3>6, FS_Injection
    <3>8. Cardinality(Places1) = Len(input_formats) + 1
      BY <3>1, FS_Interval
    <3> QED
      BY <3>1, <3>6, <3>7, <3>8, FS_CardinalityType, MapAssumption, ProbeAssumption
  <2>3. input_formats' = Append(input_formats, Mapped) /\ UNCHANGED truncated
    BY <1>5, <2>2 DEF AddEntry
  <2>4. \A i, j \in DOMAIN input_formats' : input_formats'[i] = input_formats'[j] => i = j
    BY <1>0, <2>1, <2>3 DEF ListIsSound, Listed
  <2>5. Listed' = Listed \cup {Mapped} /\ input_formats' # <<>>
    BY <1>0, <2>1, <2>3 DEF Listed
  <2>6. preferred_input_format' \in {preferred_input_format, Mapped} \ {Undefined}
    BY <1>5, <2>1 DEF AddEntry, PreferEntry
  <2> QED BY <1>0, <2>1, <2>3, <2>4, <2>5, <2>6 DEF ListIsSound
<1> QED BY <1>1, <1>2, <1>3, <1>4, <1>5, Writers

\* The entries in hand come from the device, whose reports do not change.
LEMMA EntriesStay ==
    ASSUME IInv, [Next]_vars
    PROVE  EntriesReported' /\ SourcesOfPrimary'
<1>0. /\ Reported' = Reported /\ driver' = driver
      /\ entries \in Seq(Entries) /\ EntriesReported /\ SourcesOfPrimary
  BY Writers, ReportedStays DEF IInv, TypeOK, device
<1>1. CASE ListCell
  <2>1. CASE phase' = "entries"
    <3>1. entries' = driver[supported[cell]] /\ supported[cell] \in DOMAIN driver
      BY <1>1, <2>1 DEF ListCell, IInv, NothingInvented
    <3>2. \A i \in DOMAIN entries' : entries'[i] \in Reported
      BY <3>1 DEF Reported
    <3> QED BY <1>0, <2>1, <3>2 DEF EntriesReported, SourcesOfPrimary
  <2>2. CASE phase' # "entries"
    BY <1>1, <2>2 DEF ListCell, EntriesReported, SourcesOfPrimary
  <2> QED BY <2>1, <2>2
<1>2. CASE PassEntry \/ AddEntry
  <2>1. phase = "entries" /\ phase' = phase /\ entries # <<>> /\ entries' = Tail(entries)
    BY <1>2 DEF PassEntry, AddEntry, TakesEntry
  <2>2. \A i \in DOMAIN entries' : entries'[i] = entries[i + 1] /\ i + 1 \in DOMAIN entries
    BY <1>0, <2>1
  <2> QED BY <1>0, <2>1, <2>2 DEF EntriesReported, SourcesOfPrimary
<1>3. CASE Sources
  BY <1>3, <1>0 DEF Sources, EntriesReported, SourcesOfPrimary, matrix, Ends
<1>4. CASE phase' \notin {"entries", "references"}
  BY <1>4 DEF EntriesReported, SourcesOfPrimary
<1>5. CASE UNCHANGED vars
  BY <1>0, <1>5 DEF EntriesReported, SourcesOfPrimary, vars, matrix
<1>6. ListCell \/ PassEntry \/ AddEntry \/ Sources \/ phase' \notin {"entries", "references"}
        \/ UNCHANGED vars
  <2>1. CASE Matrix
    BY <2>1 DEF Matrix, Refuse, Start, ProbeTakes, ProbeRefuses, ProbeEnds, Measure, Ends
  <2>2. CASE CellListed \/ CellsEnd
    BY <2>2 DEF CellListed, CellsEnd, Ends
  <2>3. CASE ReferencesFail \/ References
    BY <2>3 DEF ReferencesFail, References, Ends
  <2>4. CASE Ask
    BY <2>4 DEF Ask, AskFormat, TierOfCell, TierLapses, TierEnds, Answers, Cached
  <2> QED BY <2>1, <2>2, <2>3, <2>4 DEF Next, Formats, Finish
<1> QED BY <1>1, <1>2, <1>3, <1>4, <1>5, <1>6

\* Once there is a primary cell it is one the driver takes.
LEMMA PrimaryTaken == IInv /\ primary # NoCell => primary \in DOMAIN driver
<1> SUFFICES ASSUME IInv, primary # NoCell PROVE primary \in DOMAIN driver OBVIOUS
<1>1. supported \in Seq(Cells) /\ supported # <<>>
  BY CellsAre, ProbeAssumption DEF IInv, TypeOK, PrimaryIsFirstChoice, NoCell
<1>2. \E i \in DOMAIN supported : primary = supported[i]
  <2>1. 1 \in DOMAIN supported /\ Head(supported) = supported[1]
    BY <1>1
  <2> QED BY <1>1, <2>1 DEF IInv, PrimaryIsFirstChoice
<1> QED BY <1>2 DEF IInv, NothingInvented

\* The code moves between phases only with what the next one needs, and what that
\* is stays as it is until the answer is built.
LEMMA PhasesStay ==
    ASSUME IInv, [Next]_vars
    PROVE  PhasesReached'
<1>0. PhasesReached
  BY DEF IInv
<1>1. CASE Matrix
  <2>1. CASE ProbeEnds \/ Measure
    BY <1>0, <2>1 DEF ProbeEnds, Measure, PhasesReached, matrix, listing, Ends
  <2>2. CASE Refuse \/ Start \/ ProbeTakes \/ ProbeRefuses
    BY <2>2 DEF Refuse, Start, ProbeTakes, ProbeRefuses, PhasesReached, Ends
  <2> QED BY <1>1, <2>1, <2>2 DEF Matrix
<1>2. CASE Formats
  <2>1. CASE PassEntry \/ AddEntry
    BY <1>0, <2>1 DEF PassEntry, AddEntry, TakesEntry, PhasesReached, matrix
  <2>2. CASE ListCell \/ CellListed \/ CellsEnd
    BY <1>0, <2>2 DEF ListCell, CellListed, CellsEnd, PhasesReached, matrix, listing, Ends
  <2> QED BY <1>2, <2>1, <2>2 DEF Formats
<1>3. CASE Finish
  BY <1>0, <1>3 DEF Finish, Sources, ReferencesFail, References, PhasesReached, matrix, listing,
     Ends
<1>4. CASE Ask
  BY <1>0, <1>4 DEF Ask, AskFormat, TierOfCell, TierLapses, TierEnds, Answers, Cached,
     PhasesReached, matrix, listing
<1>5. CASE UNCHANGED vars
  BY <1>0, <1>5 DEF vars, PhasesReached, matrix, listing
<1> QED BY <1>1, <1>2, <1>3, <1>4, <1>5 DEF Next

\* The answer is usable where it is built, and is left alone while it is asked.
LEMMA UsableStays ==
    ASSUME IInv, [Next]_vars
    PROVE  KeptAnswerUsable' /\ CachedUsable'
<1> DEFINE Usable == /\ primary \in DOMAIN driver
                     /\ input_formats # <<>>
                     /\ \E i \in DOMAIN driver[primary] :
                           driver[primary][i].format = picture_format
<1>0. driver' = driver /\ entries \in Seq(Entries)
  BY Writers DEF device, IInv, TypeOK
<1>1. CASE References
  <2>1. primary \in DOMAIN driver /\ input_formats # <<>> /\ entries = driver[primary]
    BY <1>1, PrimaryTaken DEF References, IInv, PhasesReached, SourcesOfPrimary
  <2>2. primary' = primary /\ input_formats' = input_formats
    BY <1>1 DEF References, matrix
  <2>3. 1 \in DOMAIN driver[primary] /\ driver[primary][1].format = picture_format'
    BY <1>0, <1>1, <2>1 DEF References
  <2> QED BY <1>0, <2>1, <2>2, <2>3 DEF KeptAnswerUsable, CachedUsable
<1>2. CASE phase' \notin {"done", "tiers"} \/ (phase' = "done" /\ outcome' # "SUCCESS")
  BY <1>2 DEF KeptAnswerUsable, CachedUsable, Cached
<1>3. CASE /\ UNCHANGED <<matrix, listing, picture>>
           /\ Cached \/ phase = "tiers"
  <2>1. Usable
    BY <1>3 DEF IInv, KeptAnswerUsable, CachedUsable
  <2>2. Usable'
    BY <1>0, <1>3, <2>1 DEF matrix, listing, picture
  <2> QED BY <2>2 DEF KeptAnswerUsable, CachedUsable
<1>4. \/ References
      \/ phase' \notin {"done", "tiers"} \/ (phase' = "done" /\ outcome' # "SUCCESS")
      \/ UNCHANGED <<matrix, listing, picture>> /\ (Cached \/ phase = "tiers")
  <2>1. CASE Matrix
    BY <2>1, ProbeAssumption DEF IInv, TypeOK, Matrix, Refuse, Start, ProbeTakes, ProbeRefuses,
       ProbeEnds, Measure, Ends
  <2>2. CASE Formats
    BY <2>2 DEF Formats, ListCell, PassEntry, AddEntry, TakesEntry, CellListed, CellsEnd, Ends
  <2>3. CASE Sources \/ ReferencesFail
    BY <2>3 DEF Sources, ReferencesFail, Ends
  <2>4. CASE Ask
    BY <2>4 DEF Ask, AskFormat, TierOfCell, TierLapses, TierEnds, Cached
  <2>5. CASE UNCHANGED vars
    BY <2>5 DEF vars, Cached, IInv, TypeOK, Places
  <2> QED BY <2>1, <2>2, <2>3, <2>4, <2>5 DEF Next, Finish
<1> QED BY <1>1, <1>2, <1>3, <1>4

\* Everything in the answer is taken from a report of the driver.
LEMMA NothingInventedStays ==
    ASSUME IInv, [Next]_vars
    PROVE  NothingInvented'
<1>0. /\ driver' = driver /\ Reported' = Reported
      /\ NothingInvented /\ supported \in Seq(Cells) /\ input_formats \in Seq(EncFormats)
  BY Writers, ReportedStays DEF device, IInv, TypeOK
<1> DEFINE MatrixTrue == /\ \A i \in DOMAIN supported : supported[i] \in DOMAIN driver
                         /\ chromas \subseteq {ChromaOf(c) : c \in DOMAIN driver}
                         /\ depths \subseteq {DepthOf(c) : c \in DOMAIN driver}
           ListTrue ==
              /\ Listed \subseteq {to_enc_format(e.format) : e \in Reported}
              /\ surface_tiers \ {"CONVERT"} \subseteq {tier_of(e.usage) : e \in Reported}
<1>1. MatrixTrue'
  <2>1. CASE UNCHANGED matrix
    BY <1>0, <2>1 DEF NothingInvented, matrix
  <2>2. CASE Start
    BY <2>2 DEF Start
  <2>3. CASE ProbeTakes
    <3>1. /\ cell \in DOMAIN driver /\ cell \in Cells
          /\ supported' = Append(supported, cell)
          /\ chromas' = chromas \cup {ChromaOf(cell)}
          /\ depths' = depths \cup {DepthOf(cell)}
      BY <2>3 DEF ProbeTakes, Takes, IInv, TypeOK
    <3> QED BY <1>0, <3>1 DEF NothingInvented
  <2> QED BY <2>1, <2>2, <2>3, Writers
<1>2. ListTrue'
  <2>1. CASE UNCHANGED listing
    BY <1>0, <2>1 DEF NothingInvented, Listed, listing
  <2>2. CASE Start
    BY <2>2 DEF Start, Listed
  <2>3. CASE References
    BY <1>0, <2>3 DEF References, NothingInvented, Listed
  <2>4. CASE PassEntry \/ AddEntry
    <3>1. Head(entries) \in Reported
      BY <2>4 DEF PassEntry, AddEntry, TakesEntry, IInv, TypeOK, EntriesReported
    <3>2. surface_tiers' \ {"CONVERT"} \subseteq {tier_of(e.usage) : e \in Reported}
      BY <1>0, <2>4, <3>1 DEF PassEntry, AddEntry, TakesEntry, Tier, NothingInvented
    <3>3. Listed' \subseteq Listed \cup {Mapped}
      BY <1>0, <2>4 DEF PassEntry, AddEntry, TakesEntry, Listed
    <3> QED BY <1>0, <3>1, <3>2, <3>3 DEF NothingInvented, Mapped
  <2> QED BY <2>1, <2>2, <2>3, <2>4, Writers
<1> QED BY <1>1, <1>2 DEF NothingInvented

\* What the type invariant needs to hear of arithmetic: the cell runs over the
\* matrix and stops one past it, or one past the list.
LEMMA CellStays ==
    ASSUME IInv, [Next]_vars
    PROVE  cell' \in 1 .. Chromas * Depths + 1 /\ lapses' \in 0 .. MaxLapses
<1>0. /\ CellCount \in Nat \ {0} /\ Chromas * Depths = CellCount
      /\ cell \in 1 .. CellCount + 1 /\ lapses \in 0 .. MaxLapses
      /\ supported \in Seq(Cells) /\ Len(supported) <= CellCount
      /\ Cells = 1 .. CellCount /\ DOMAIN driver \subseteq Cells
      /\ MaxLapses \in Nat
  BY CellsAre, ProbeAssumption DEF IInv, TypeOK, ListFits, CellCount
<1>1. DOMAIN supported \subseteq Cells
  <2>1. DOMAIN supported = 1 .. Len(supported) /\ Len(supported) \in Nat
    BY <1>0
  <2> QED BY <1>0, <2>1
<1>2. \/ cell' = cell \/ cell' = 1
      \/ cell' = cell + 1 /\ (cell \in Cells \/ phase = "entries")
  <2>1. CASE Matrix
    BY <1>0, <2>1 DEF Matrix, Refuse, Start, ProbeTakes, ProbeRefuses, ProbeEnds, Measure,
       NextCell, Takes
  <2>2. CASE Formats
    BY <1>1, <2>2 DEF Formats, ListCell, PassEntry, AddEntry, TakesEntry, CellListed, CellsEnd,
       NextCell
  <2>3. CASE Finish
    BY <2>3 DEF Finish, Sources, ReferencesFail, References
  <2>4. CASE Ask
    BY <1>1, <2>4 DEF Ask, AskFormat, TierOfCell, TierLapses, TierEnds, NextCell
  <2>5. CASE UNCHANGED vars
    BY <2>5 DEF vars
  <2> QED BY <2>1, <2>2, <2>3, <2>4, <2>5 DEF Next
<1>3. phase = "entries" => cell \in Cells
  BY <1>1 DEF IInv, CellAtHand
<1>4. cell' \in 1 .. CellCount + 1
  BY <1>0, <1>2, <1>3
<1>5. lapses' = lapses \/ Lapse
  <2>1. CASE Matrix
    BY <2>1 DEF Matrix, Refuse, Start, ProbeTakes, ProbeRefuses, ProbeEnds, Measure
  <2>2. CASE Formats
    BY <2>2 DEF Formats, ListCell, PassEntry, AddEntry, TakesEntry, CellListed, CellsEnd
  <2>3. CASE Finish
    BY <2>3 DEF Finish, Sources, ReferencesFail, References
  <2>4. CASE Ask
    BY <2>4 DEF Ask, AskFormat, TierOfCell, TierLapses, TierEnds
  <2>5. CASE UNCHANGED vars
    BY <2>5 DEF vars
  <2> QED BY <2>1, <2>2, <2>3, <2>4, <2>5 DEF Next
<1>6. lapses' \in 0 .. MaxLapses
  BY <1>0, <1>5 DEF Lapse
<1> QED BY <1>0, <1>4, <1>6

LEMMA CellAtHandStays ==
    ASSUME IInv, [Next]_vars
    PROVE  CellAtHand'
<1>1. CASE ListCell
  BY <1>1 DEF ListCell, CellAtHand, matrix, NextCell
<1>2. CASE PassEntry \/ AddEntry
  BY <1>2 DEF PassEntry, AddEntry, TakesEntry, CellAtHand, IInv, matrix
<1>3. CASE UNCHANGED vars
  BY <1>3 DEF vars, CellAtHand, IInv, matrix
<1>4. ListCell \/ PassEntry \/ AddEntry \/ UNCHANGED vars \/ phase' # "entries"
  <2>1. CASE Matrix
    BY <2>1 DEF Matrix, Refuse, Start, ProbeTakes, ProbeRefuses, ProbeEnds, Measure, Ends
  <2>2. CASE Formats
    BY <2>2 DEF Formats, CellListed, CellsEnd, Ends
  <2>3. CASE Finish
    BY <2>3 DEF Finish, Sources, ReferencesFail, References, Ends
  <2>4. CASE Ask
    BY <2>4 DEF Ask, AskFormat, TierOfCell, TierLapses, TierEnds, Answers, Cached
  <2> QED BY <2>1, <2>2, <2>3, <2>4 DEF Next
<1> QED BY <1>1, <1>2, <1>3, <1>4 DEF CellAtHand

\* The matrix and the list keep their types.
LEMMA AnswerTypes ==
    ASSUME IInv, [Next]_vars
    PROVE  /\ supported' \in Seq(Cells) /\ primary' \in Cells \cup {NoCell}
           /\ chromas' \subseteq {ChromaOf(c) : c \in Cells}
           /\ depths' \subseteq {DepthOf(c) : c \in Cells}
           /\ input_formats' \in Seq(EncFormats)
           /\ surface_tiers' \subseteq EntryTiers \cup {"CONVERT"}
           /\ preferred_input_format' \in EncFormats \cup {Undefined}
           /\ best_tier' \in EntryTiers \cup {"NONE"}
           /\ truncated' \in BOOLEAN
           /\ picture_format' \in VkFormats \cup {Undefined}
           /\ reference_format' \in VkFormats \cup {Undefined}
<1>1. /\ supported' \in Seq(Cells) /\ primary' \in Cells \cup {NoCell}
      /\ chromas' \subseteq {ChromaOf(c) : c \in Cells}
      /\ depths' \subseteq {DepthOf(c) : c \in Cells}
  <2>1. CASE UNCHANGED matrix
    BY <2>1 DEF matrix, IInv, TypeOK
  <2>2. CASE Start
    BY <2>2 DEF Start
  <2>3. CASE ProbeTakes
    <3>1. cell \in Cells
      BY <2>3 DEF ProbeTakes, Takes, IInv, TypeOK
    <3>2. supported' \in Seq(Cells) /\ primary' \in Cells \cup {NoCell}
      BY <2>3, <3>1 DEF ProbeTakes, Choose, IInv, TypeOK
    <3> QED BY <2>3, <3>1, <3>2 DEF ProbeTakes, IInv, TypeOK
  <2> QED BY <2>1, <2>2, <2>3, Writers
<1>2. /\ input_formats' \in Seq(EncFormats)
      /\ surface_tiers' \subseteq EntryTiers \cup {"CONVERT"}
      /\ preferred_input_format' \in EncFormats \cup {Undefined}
      /\ best_tier' \in EntryTiers \cup {"NONE"}
      /\ truncated' \in BOOLEAN
  <2>1. CASE UNCHANGED listing
    BY <2>1 DEF listing, IInv, TypeOK
  <2>2. CASE Start
    <3>1. input_formats' = <<>> /\ <<>> \in Seq(EncFormats)
      BY <2>2 DEF Start
    <3>2. surface_tiers' = {} /\ preferred_input_format' = Undefined /\ best_tier' = "NONE"
      BY <2>2 DEF Start
    <3>3. truncated' = FALSE
      BY <2>2 DEF Start
    <3> QED BY <3>1, <3>2, <3>3
  <2>3. CASE References
    BY <2>3 DEF References, IInv, TypeOK
  <2>4. CASE PassEntry
    BY <2>4, TierOfType DEF PassEntry, TakesEntry, Tier, IInv, TypeOK
  <2>5. CASE AddEntry
    <3>1. Mapped \in EncFormats /\ Tier \in EntryTiers \cup {"NONE"}
      BY <2>5, MappedType, TierOfType DEF AddEntry, Mapped, Tier
    <3>2. surface_tiers' \subseteq EntryTiers \cup {"CONVERT"}
      BY <2>5, <3>1 DEF AddEntry, TakesEntry, IInv, TypeOK
    <3>3. input_formats' \in Seq(EncFormats) /\ truncated' \in BOOLEAN
      <4>1. input_formats \in Seq(EncFormats) /\ truncated \in BOOLEAN
        BY DEF IInv, TypeOK
      <4>2. input_formats' \in {input_formats, Append(input_formats, Mapped)}
        BY <2>5 DEF AddEntry
      <4>3. truncated' = truncated \/ truncated' = TRUE
        BY <2>5 DEF AddEntry
      <4>4. input_formats' \in Seq(EncFormats)
        BY <3>1, <4>1, <4>2
      <4>5. truncated' \in BOOLEAN
        BY <4>1, <4>3, Zenon
      <4> QED BY <4>4, <4>5
    <3>4. /\ preferred_input_format' \in EncFormats \cup {Undefined}
          /\ best_tier' \in EntryTiers \cup {"NONE"}
      BY <2>5, <3>1 DEF AddEntry, PreferEntry, IInv, TypeOK
    <3> QED BY <3>2, <3>3, <3>4
  <2> QED BY <2>1, <2>2, <2>3, <2>4, <2>5, Writers
<1>3. picture_format' \in VkFormats \cup {Undefined} /\ reference_format' \in VkFormats \cup {Undefined}
  <2>1. CASE UNCHANGED picture
    BY <2>1 DEF picture, IInv, TypeOK
  <2>2. CASE Start
    BY <2>2 DEF Start
  <2>3. CASE References
    <3>1. Head(entries) \in Entries
      BY <2>3 DEF References, IInv, TypeOK
    <3> QED BY <2>3, <3>1 DEF References, Entries
  <2> QED BY <2>1, <2>2, <2>3, Writers
<1> QED BY <1>1, <1>2, <1>3

\* Where the calls are keeps its type.
LEMMA CallTypes ==
    ASSUME IInv, [Next]_vars
    PROVE  /\ phase' \in Places
           /\ outcome' \in Outcomes
           /\ asked' \in EncFormats \cup {Undefined}
           /\ best' \in {"SPLIT", "NONE"}
           /\ answer' \in EntryTiers \cup {"none", "CONVERT", "FORMAT_UNSUPPORTED"}
<1>1. CASE Matrix
  BY <1>1 DEF Matrix, Refuse, Start, ProbeTakes, ProbeRefuses, ProbeEnds, Measure, Ends, tiering,
     IInv, TypeOK, Places, Outcomes
<1>2. CASE Formats
  BY <1>2 DEF Formats, ListCell, PassEntry, AddEntry, TakesEntry, CellListed, CellsEnd, Ends,
     tiering, IInv, TypeOK, Places, Outcomes
<1>3. CASE Finish
  BY <1>3 DEF Finish, Sources, ReferencesFail, References, Ends, tiering, IInv, TypeOK, Places,
     Outcomes
<1>4. CASE Ask
  BY <1>4 DEF Ask, AskFormat, TierOfCell, TierLapses, TierEnds, Answers, tiering, IInv, TypeOK,
     Places, Outcomes, EntryTiers
<1>5. CASE UNCHANGED vars
  BY <1>5 DEF vars, tiering, IInv, TypeOK
<1> QED BY <1>1, <1>2, <1>3, <1>4, <1>5 DEF Next

\* The entries in hand are entries.
LEMMA EntriesType ==
    ASSUME IInv, [Next]_vars
    PROVE  entries' \in Seq(Entries)
<1>0. /\ entries \in Seq(Entries)
      /\ \A c \in DOMAIN driver : driver[c] \in Seq(Entries)
  BY ProbeAssumption DEF IInv, TypeOK
<1>1. CASE ListCell
  BY <1>0, <1>1 DEF ListCell, IInv, NothingInvented
<1>2. CASE Sources
  BY <1>0, <1>2, PrimaryTaken DEF Sources, IInv, PhasesReached
<1>3. CASE PassEntry \/ AddEntry
  <2>1. entries # <<>> /\ entries' = Tail(entries)
    BY <1>3 DEF PassEntry, AddEntry, TakesEntry
  <2>2. Tail(entries) \in Seq(Entries)
    <3> DEFINE E == Entries
    <3>1. entries \in Seq(E)
      BY <1>0
    <3> HIDE DEF E
    <3>2. Tail(entries) \in Seq(E)
      BY <2>1, <3>1
    <3> QED BY <3>2 DEF E
  <2> QED BY <2>1, <2>2
<1>4. CASE entries' \in {entries, <<>>}
  <2>1. <<>> \in Seq(Entries)
    OBVIOUS
  <2> QED BY <1>0, <1>4, <2>1
<1>5. ListCell \/ Sources \/ PassEntry \/ AddEntry \/ entries' \in {entries, <<>>}
  <2>1. CASE Matrix
    BY <2>1 DEF Matrix, Refuse, Start, ProbeTakes, ProbeRefuses, ProbeEnds, Measure
  <2>2. CASE Formats
    BY <2>2 DEF Formats, CellListed, CellsEnd
  <2>3. CASE Finish
    BY <2>3 DEF Finish, ReferencesFail, References
  <2>4. CASE Ask
    BY <2>4 DEF Ask, AskFormat, TierOfCell, TierLapses, TierEnds
  <2>5. CASE UNCHANGED vars
    BY <2>5 DEF vars
  <2> QED BY <2>1, <2>2, <2>3, <2>4, <2>5 DEF Next
<1> QED BY <1>1, <1>2, <1>3, <1>4, <1>5

LEMMA TypeStays ==
    ASSUME IInv, [Next]_vars
    PROVE  TypeOK'
<1>1. /\ driver' \in [DOMAIN driver' -> Reports] /\ DOMAIN driver' \subseteq Cells
      /\ compute_family' \in BOOLEAN
      /\ refusal' \in {"none", "UNSUPPORTED", "CODEC_UNSUPPORTED"}
  BY Writers DEF device, IInv, TypeOK
<1> QED
  BY <1>1, CellStays, AnswerTypes, CallTypes, EntriesType DEF TypeOK

LEMMA NextIInv == IInv /\ [Next]_vars => IInv'
BY TypeStays, ListFitsStays, CellAtHandStays, EntriesStay, PhasesStay, UsableStays, PrimaryStays,
   ListStays, NothingInventedStays DEF IInv

-----------------------------------------------------------------------------
(* Theorems *)

\* The inductive invariant holds of every behaviour of query_codec_capabilities
\* and query_format_tier, whatever driver answers and whichever calls lapse.
THEOREM ProbeInvariant == Spec => []IInv
BY InitIInv, NextIInv, PTL DEF Spec

\* Type correctness.
THEOREM ProbeTypes == Spec => []TypeOK
<1>1. IInv => TypeOK
  BY DEF IInv
<1> QED BY <1>1, ProbeInvariant, PTL

\* The limits are measured on 4:2:0 at 8 bits, or else on the first cell taken,
\* however large the matrix and in whatever order the drivers accept it.
THEOREM ProbePrimary == Spec => []PrimaryIsFirstChoice
<1>1. IInv => PrimaryIsFirstChoice
  BY DEF IInv
<1> QED BY <1>1, ProbeInvariant, PTL

\* input_formats never overflows and never repeats a format, and the preferred
\* format is in it: it is enough that format_map is injective and no longer than
\* the array.
THEOREM ProbeList == Spec => []ListIsSound
<1>1. IInv => ListIsSound
  BY DEF IInv
<1> QED BY <1>1, ProbeInvariant, PTL

\* A driver call that fails in passing only leaves things out of the answer.
THEOREM ProbeTruth == Spec => []NothingInvented
<1>1. IInv => NothingInvented
  BY DEF IInv
<1> QED BY <1>1, ProbeInvariant, PTL

\* An answer that enters the cache, to stay, is one to build an encoder from.
THEOREM ProbeUsable == Spec => []KeptAnswerUsable
<1>1. IInv => KeptAnswerUsable
  BY DEF IInv
<1> QED BY <1>1, ProbeInvariant, PTL

-----------------------------------------------------------------------------
(* QueriesAgree: when nothing lapses, nothing is left out *)

\* What the matrix walk leaves out is what lapsed: with no lapses every cell tried
\* that the driver takes is listed.
TakenCells  == {supported[i] : i \in DOMAIN supported}
EntriesOf(c) == {driver[c][i] : i \in DOMAIN driver[c]}
InHand      == {entries[i] : i \in DOMAIN entries}

Complete == phase \in {"sources", "references", "tiers"} \/ Cached

MatrixWhole ==
    lapses = 0 =>
        /\ phase = "probe" => \A c \in DOMAIN driver : c < cell => c \in TakenCells
        /\ phase \in {"measure", "cells", "entries"} \/ Complete => DOMAIN driver \subseteq TakenCells

\* What the list and the tiers say of an entry.
Covered(e) ==
    /\ to_enc_format(e.format) \in Listed \cup {Undefined}
    /\ tier_of(e.usage) \in surface_tiers \cup {"NONE"}

\* So it is with the entries of the cells walked, and of the cell at hand those
\* that are not still in hand.
WalkWhole ==
    lapses = 0 =>
        /\ phase \in {"cells", "entries"} =>
              \A i \in DOMAIN supported : i < cell => \A e \in EntriesOf(supported[i]) : Covered(e)
        /\ phase = "entries" => \A e \in EntriesOf(supported[cell]) : Covered(e) \/ e \in InHand
        /\ Complete => \A e \in Reported : Covered(e)

ConvertTold == (Cached \/ phase = "tiers") /\ compute_family => "CONVERT" \in surface_tiers

\* An answer is the cached entry's.
AnswerOfEntry ==
    /\ ~Cached => answer = "none"
    /\ phase = "tiers" \/ answer # "none" => asked \in EncFormats

\* The entry is one of the format asked about, with this tier.
Lists(e, tier) == to_enc_format(e.format) = asked /\ tier_of(e.usage) = tier

\* Of the profiles gone through none lists the format with fused, and split is
\* remembered just when one lists it so.
SearchSoFar ==
    lapses = 0 /\ phase = "tiers" =>
        /\ \A i \in DOMAIN supported : i < cell =>
              \A e \in EntriesOf(supported[i]) :
                  /\ ~Lists(e, "FUSED")
                  /\ Lists(e, "SPLIT") => best = "SPLIT"
        /\ best = "SPLIT" => \E e \in Reported : Lists(e, "SPLIT")

\* What was answered is what all that is reported gives.
SearchDone ==
    lapses = 0 /\ Cached /\ answer # "none" =>
        /\ answer = "FUSED" <=> \E e \in Reported : Lists(e, "FUSED")
        /\ answer = "SPLIT" => \E e \in Reported : Lists(e, "SPLIT")
        /\ answer \notin EntryTiers => \A e \in Reported : ~Lists(e, "SPLIT")
        /\ answer = "CONVERT" => compute_family

WholeInv ==
    /\ MatrixWhole
    /\ WalkWhole
    /\ ConvertTold
    /\ AnswerOfEntry
    /\ SearchSoFar
    /\ SearchDone

\* A state without lapses comes of one without.
LEMMA NoLapse ==
    ASSUME IInv, [Next]_vars, lapses' = 0
    PROVE  lapses = 0 /\ ~Lapse
<1>1. lapses' = lapses \/ Lapse
  <2>1. CASE Matrix
    BY <2>1 DEF Matrix, Refuse, Start, ProbeTakes, ProbeRefuses, ProbeEnds, Measure
  <2>2. CASE Formats
    BY <2>2 DEF Formats, ListCell, PassEntry, AddEntry, TakesEntry, CellListed, CellsEnd
  <2>3. CASE Finish
    BY <2>3 DEF Finish, Sources, ReferencesFail, References
  <2>4. CASE Ask
    BY <2>4 DEF Ask, AskFormat, TierOfCell, TierLapses, TierEnds
  <2>5. CASE UNCHANGED vars
    BY <2>5 DEF vars
  <2> QED BY <2>1, <2>2, <2>3, <2>4, <2>5 DEF Next
<1>2. lapses \in Nat
  BY ProbeAssumption DEF IInv, TypeOK
<1> QED BY <1>1, <1>2 DEF Lapse

\* The numbers the walks count with.
LEMMA Counting ==
    ASSUME IInv
    PROVE  /\ CellCount \in Nat \ {0} /\ Cells = 1 .. CellCount
           /\ cell \in 1 .. CellCount + 1 /\ DOMAIN driver \subseteq Cells
           /\ DOMAIN supported = 1 .. Len(supported) /\ Len(supported) \in Nat
           /\ \A i \in DOMAIN supported : supported[i] \in DOMAIN driver
  BY CellsAre DEF IInv, TypeOK, NothingInvented, CellCount

\* With no lapses the matrix walk lists every cell the driver takes.
LEMMA MatrixWholeStays ==
    ASSUME IInv, WholeInv, [Next]_vars
    PROVE  MatrixWhole'
<1> SUFFICES ASSUME lapses' = 0
             PROVE  /\ phase' = "probe" =>
                          \A c \in DOMAIN driver' : c < cell' => c \in TakenCells'
                    /\ phase' \in {"measure", "cells", "entries"} \/ Complete' =>
                          DOMAIN driver' \subseteq TakenCells'
  BY DEF MatrixWhole
<1>0. lapses = 0 /\ ~Lapse /\ driver' = driver /\ MatrixWhole
  BY NoLapse, Writers DEF WholeInv, device
<1>1. CASE Start
  BY <1>0, <1>1, Counting DEF Start, Complete, Cached
<1>2. CASE ProbeTakes
  <2>1. /\ phase = "probe" /\ phase' = "probe" /\ cell' = cell + 1
        /\ supported' = Append(supported, cell)
    BY <1>2 DEF ProbeTakes, NextCell
  <2>2. supported \in Seq(Cells) /\ cell \in Cells
    BY <1>2 DEF ProbeTakes, Takes, IInv, TypeOK
  <2>3. TakenCells' = TakenCells \cup {cell}
    BY <2>1, <2>2 DEF TakenCells
  <2>4. \A c \in DOMAIN driver : c < cell + 1 => c < cell \/ c = cell
    BY <2>2, Counting
  <2> QED BY <1>0, <2>1, <2>3, <2>4 DEF MatrixWhole, Complete, Cached
<1>3. CASE ProbeRefuses
  <2>1. /\ phase = "probe" /\ phase' = "probe" /\ cell' = cell + 1
        /\ supported' = supported /\ cell \in Cells /\ cell \notin DOMAIN driver
    BY <1>0, <1>3 DEF ProbeRefuses, NextCell, matrix, Takes
  <2>2. \A c \in DOMAIN driver : c < cell + 1 => c < cell
    BY <2>1, Counting
  <2> QED BY <1>0, <2>1, <2>2 DEF MatrixWhole, Complete, Cached, TakenCells
<1>4. CASE ProbeEnds
  <2>1. phase = "probe" /\ supported' = supported /\ cell \notin Cells /\ phase' # "probe"
    BY <1>4 DEF ProbeEnds, matrix, Ends
  <2>2. \A c \in DOMAIN driver : c < cell
    BY <2>1, Counting
  <2> QED BY <1>0, <2>1, <2>2 DEF MatrixWhole, TakenCells
<1>5. CASE UNCHANGED <<matrix, phase, cell, outcome>>
  BY <1>0, <1>5 DEF MatrixWhole, matrix, Complete, Cached, TakenCells
<1>6. CASE /\ UNCHANGED matrix /\ phase' # "probe"
           /\ \/ phase \in {"measure", "cells", "entries"} \/ Complete
              \/ phase' = "done" /\ outcome' # "SUCCESS"
  BY <1>0, <1>6 DEF MatrixWhole, matrix, Complete, Cached, TakenCells
<1>7. \/ Start \/ ProbeTakes \/ ProbeRefuses \/ ProbeEnds
      \/ UNCHANGED <<matrix, phase, cell, outcome>>
      \/ /\ UNCHANGED matrix /\ phase' # "probe"
         /\ \/ phase \in {"measure", "cells", "entries"} \/ Complete
            \/ phase' = "done" /\ outcome' # "SUCCESS"
  <2>1. CASE Matrix
    BY <2>1 DEF Matrix, Refuse, Measure, Ends, IInv, TypeOK
  <2>2. CASE Formats
    BY <2>2 DEF Formats, ListCell, PassEntry, AddEntry, TakesEntry, CellListed, CellsEnd, Ends
  <2>3. CASE Finish
    BY <2>3 DEF Finish, Sources, ReferencesFail, References, Ends, Complete
  <2>4. CASE Ask
    BY <2>4 DEF Ask, AskFormat, TierOfCell, TierLapses, TierEnds, Answers, Complete, Cached
  <2>5. CASE UNCHANGED vars
    BY <2>5 DEF vars
  <2> QED BY <2>1, <2>2, <2>3, <2>4, <2>5 DEF Next
<1> QED BY <1>1, <1>2, <1>3, <1>4, <1>5, <1>6, <1>7

\* The list and the tiers only grow under the format walk, so what they say of an
\* entry they go on saying.
LEMMA CoveredStays ==
    ASSUME IInv, [Next]_vars, ~Start
    PROVE  \A e : Covered(e) => Covered(e)'
<1>0. input_formats \in Seq(EncFormats)
  BY DEF IInv, TypeOK
<1>1. Listed \subseteq Listed' /\ surface_tiers \subseteq surface_tiers'
  <2>1. CASE UNCHANGED listing
    BY <2>1 DEF listing, Listed
  <2>2. CASE PassEntry \/ AddEntry
    BY <1>0, <2>2 DEF PassEntry, AddEntry, TakesEntry, Listed
  <2>3. CASE References
    BY <2>3 DEF References, Listed
  <2> QED BY <2>1, <2>2, <2>3, Writers
<1> QED BY <1>1 DEF Covered

\* The entry at the head is covered once it is dealt with: the list does not run out
\* of places.
LEMMA HeadCovered ==
    ASSUME IInv, [Next]_vars, PassEntry \/ AddEntry
    PROVE  \A e : e = Head(entries) => Covered(e)'
<1>0. input_formats \in Seq(EncFormats) /\ ListIsSound /\ ListIsSound'
  BY ListStays DEF IInv, TypeOK
<1>1. tier_of(Head(entries).usage) \in surface_tiers' \cup {"NONE"}
  BY DEF PassEntry, AddEntry, TakesEntry, Tier
<1>2. Mapped \in Listed' \cup {Undefined}
  <2>1. CASE PassEntry
    BY <2>1 DEF PassEntry, Listed
  <2>2. CASE AddEntry
    <3>1. input_formats' = Append(input_formats, Mapped)
      BY <1>0, <2>2 DEF AddEntry, ListIsSound
    <3> QED BY <1>0, <3>1 DEF Listed
  <2> QED BY <2>1, <2>2
<1> QED BY <1>1, <1>2 DEF Mapped, Covered

\* What the walk has in hand: the entry at the head and the rest.
LEMMA HandShrinks ==
    ASSUME IInv, PassEntry \/ AddEntry
    PROVE  InHand \subseteq {Head(entries)} \cup InHand'
<1>1. entries' = Tail(entries) /\ entries # <<>> /\ entries \in Seq(Entries)
  BY DEF PassEntry, AddEntry, TakesEntry, IInv, TypeOK
<1>2. ASSUME NEW i \in DOMAIN entries
      PROVE  entries[i] = Head(entries) \/ \E j \in DOMAIN Tail(entries) : Tail(entries)[j] = entries[i]
  <2>1. CASE i = 1
    BY <1>1, <2>1
  <2>2. CASE i # 1
    <3>1. i - 1 \in DOMAIN Tail(entries) /\ Tail(entries)[i - 1] = entries[i]
      BY <1>1, <1>2, <2>2
    <3> QED BY <3>1
  <2> QED BY <2>1, <2>2
<1> QED BY <1>1, <1>2 DEF InHand

\* With no lapses the format walk covers every entry of the cells it has walked.
LEMMA WalkWholeStays ==
    ASSUME IInv, WholeInv, [Next]_vars
    PROVE  WalkWhole'
<1> SUFFICES ASSUME lapses' = 0
             PROVE  /\ phase' \in {"cells", "entries"} =>
                          \A i \in DOMAIN supported' :
                              i < cell' => \A e \in EntriesOf(supported[i])' : Covered(e)'
                    /\ phase' = "entries" =>
                          \A e \in EntriesOf(supported[cell])' : Covered(e)' \/ e \in InHand'
                    /\ Complete' => \A e \in Reported' : Covered(e)'
  BY DEF WalkWhole, EntriesOf
<1>0. /\ lapses = 0 /\ ~Lapse /\ driver' = driver /\ Reported' = Reported
      /\ MatrixWhole /\ WalkWhole
  BY NoLapse, Writers, ReportedStays DEF WholeInv, device
<1>1. \A c : EntriesOf(c)' = EntriesOf(c)
  BY <1>0 DEF EntriesOf
<1>2. CASE Measure
  <2>1. cell' = 1 /\ supported' = supported /\ phase' = "cells"
    BY <1>0, <1>2 DEF Measure, matrix
  <2>2. \A i \in DOMAIN supported : ~(i < 1)
    BY Counting
  <2> QED BY <2>1, <2>2 DEF Complete, Cached
<1>3. CASE ListCell
  <2>1. /\ entries' = driver[supported[cell]] /\ phase' = "entries" /\ phase = "cells"
        /\ cell' = cell /\ supported' = supported /\ UNCHANGED listing
    BY <1>0, <1>3 DEF ListCell, matrix
  <2>2. InHand' = EntriesOf(supported[cell])
    BY <2>1 DEF InHand, EntriesOf
  <2>3. \A e : Covered(e)' <=> Covered(e)
    BY <2>1 DEF Covered, Listed, listing
  <2> QED BY <1>0, <1>1, <2>1, <2>2, <2>3 DEF WalkWhole, Complete, Cached
<1>4. CASE PassEntry \/ AddEntry
  <2>1. /\ phase = "entries" /\ phase' = "entries" /\ cell' = cell /\ supported' = supported
    BY <1>4 DEF PassEntry, AddEntry, TakesEntry, matrix
  <2>2. \A e : Covered(e) => Covered(e)'
    <3>1. ~Start
      BY <2>1 DEF Start
    <3> QED BY <3>1, CoveredStays
  <2>3. \A e \in InHand : Covered(e)' \/ e \in InHand'
    BY <1>4, HeadCovered, HandShrinks
  <2>4. \A e \in EntriesOf(supported[cell]) : Covered(e)' \/ e \in InHand'
    BY <1>0, <2>1, <2>2, <2>3 DEF WalkWhole
  <2>5. \A i \in DOMAIN supported : i < cell => \A e \in EntriesOf(supported[i]) : Covered(e)'
    BY <1>0, <2>1, <2>2 DEF WalkWhole
  <2> QED BY <1>1, <2>1, <2>4, <2>5 DEF Complete, Cached
<1>5. CASE CellListed
  <2>1. /\ phase = "entries" /\ phase' = "cells" /\ entries = <<>> /\ cell' = cell + 1
        /\ supported' = supported /\ UNCHANGED listing
    BY <1>5 DEF CellListed, NextCell, matrix
  <2>2. \A e : Covered(e)' <=> Covered(e)
    BY <2>1 DEF Covered, Listed, listing
  <2>3. InHand = {}
    BY <2>1 DEF InHand
  <2>4. \A i \in DOMAIN supported : i < cell + 1 => i < cell \/ i = cell
    BY Counting
  <2> QED BY <1>0, <1>1, <2>1, <2>2, <2>3, <2>4 DEF WalkWhole, Complete, Cached
<1>6. CASE CellsEnd
  <2>1. /\ phase = "cells" /\ cell \notin DOMAIN supported /\ phase' \in {"done", "sources"}
        /\ UNCHANGED listing
    BY <1>6 DEF CellsEnd, Ends
  <2>2. \A i \in DOMAIN supported : i < cell
    BY <2>1, Counting
  <2>3. \A e : Covered(e)' <=> Covered(e)
    BY <2>1 DEF Covered, Listed, listing
  <2>4. DOMAIN driver \subseteq TakenCells
    BY <1>0, <2>1 DEF MatrixWhole
  <2>5. \A e \in Reported : Covered(e)
    <3>1. SUFFICES ASSUME NEW c \in DOMAIN driver, NEW e \in EntriesOf(c) PROVE Covered(e)
      BY DEF Reported, EntriesOf
    <3>2. PICK i \in DOMAIN supported : supported[i] = c
      BY <2>4, <3>1 DEF TakenCells
    <3> QED BY <1>0, <2>1, <2>2, <3>1, <3>2 DEF WalkWhole
  <2> QED BY <1>0, <2>1, <2>3, <2>5
<1>7. CASE /\ Complete /\ phase' \notin {"cells", "entries"} /\ ~Start
  <2>1. \A e \in Reported : Covered(e)'
    BY <1>0, <1>7, CoveredStays DEF WalkWhole
  <2> QED BY <1>0, <1>7, <2>1
<1>8. CASE phase' \notin {"cells", "entries"} /\ ~Complete'
  BY <1>8
<1>9. CASE UNCHANGED vars
  <2>1. \A e : Covered(e)' <=> Covered(e)
    BY <1>9 DEF vars, Covered, Listed, listing
  <2>2. /\ phase' = phase /\ cell' = cell /\ supported' = supported /\ InHand' = InHand
        /\ (Complete' <=> Complete)
    BY <1>9 DEF vars, matrix, InHand, Complete, Cached
  <2> QED BY <1>0, <1>1, <2>1, <2>2 DEF WalkWhole
<1>10. \/ Measure /\ phase' = "cells"
       \/ ListCell \/ PassEntry \/ AddEntry \/ CellListed \/ CellsEnd
       \/ Complete /\ phase' \notin {"cells", "entries"} /\ ~Start
       \/ phase' \notin {"cells", "entries"} /\ ~Complete'
       \/ UNCHANGED vars
  <2>1. CASE Matrix
    BY <1>0, <2>1 DEF Matrix, Refuse, Start, ProbeTakes, ProbeRefuses, ProbeEnds, Measure, Ends,
       Complete, Cached, IInv, TypeOK
  <2>2. CASE Formats
    BY <2>2 DEF Formats
  <2>3. CASE Finish
    BY <2>3 DEF Finish, Sources, ReferencesFail, References, Ends, Complete, Start, Asks
  <2>4. CASE Ask
    BY <2>4 DEF Ask, AskFormat, TierOfCell, TierLapses, TierEnds, Answers, Complete, Cached, Start,
       Asks
  <2> QED BY <2>1, <2>2, <2>3, <2>4 DEF Next
<1> QED BY <1>2, <1>3, <1>4, <1>5, <1>6, <1>7, <1>8, <1>9, <1>10

\* Each answer to a format is given while the entry is cached, and is dropped before
\* the next is looked for.
LEMMA AnswerOfEntryStays ==
    ASSUME IInv, WholeInv, [Next]_vars
    PROVE  ConvertTold' /\ AnswerOfEntry'
<1>0. ConvertTold /\ AnswerOfEntry /\ compute_family' = compute_family
      /\ (phase = "tiers" => outcome = "SUCCESS")
  BY Writers DEF WholeInv, device, IInv, PhasesReached
<1>1. CASE Matrix
  BY <1>0, <1>1, ProbeAssumption DEF Matrix, Refuse, Start, ProbeTakes, ProbeRefuses, ProbeEnds, Measure,
     Ends, ConvertTold, AnswerOfEntry, Cached, Asks, tiering, IInv, TypeOK
<1>2. CASE Formats
  BY <1>0, <1>2 DEF Formats, ListCell, PassEntry, AddEntry, TakesEntry, CellListed, CellsEnd, Ends,
     ConvertTold, AnswerOfEntry, Cached, tiering
<1>3. CASE Finish
  BY <1>0, <1>3 DEF Finish, Sources, ReferencesFail, References, Ends, ConvertTold, AnswerOfEntry,
     Cached, tiering
<1>4. CASE Ask
  BY <1>0, <1>4 DEF Ask, AskFormat, TierOfCell, TierLapses, TierEnds, Answers, ConvertTold,
     AnswerOfEntry, Cached, tiering, listing
<1>5. CASE UNCHANGED vars
  BY <1>0, <1>5 DEF vars, ConvertTold, AnswerOfEntry, Cached, tiering, listing
<1> QED BY <1>1, <1>2, <1>3, <1>4, <1>5 DEF Next

\* The two conversions are each other's inverse.
LEMMA FromAndTo ==
    ASSUME NEW f \in EncFormats, NEW g
    PROVE  g \in to_vulkan_format(f) <=> to_enc_format(g) = f
  BY ProbeAssumption DEF to_vulkan_format, to_enc_format

\* The tiers a profile lists the format with, and the entries that say so.
LEMMA TiersOfEntries ==
    ASSUME asked \in EncFormats, NEW tier
    PROVE  tier \in TiersHere <=> \E e \in EntriesOf(supported[cell]) : Lists(e, tier)
<1> DEFINE sources == driver[supported[cell]]
<1>1. tier \in TiersHere <=>
        \E i \in DOMAIN sources :
            sources[i].format \in to_vulkan_format(asked) /\ tier_of(sources[i].usage) = tier
  BY DEF TiersHere
<1>2. \A i \in DOMAIN sources : sources[i].format \in to_vulkan_format(asked) <=>
                                to_enc_format(sources[i].format) = asked
  BY FromAndTo
<1> QED BY <1>1, <1>2 DEF EntriesOf, Lists

\* While the format and the device stay, so does what lists it.
LEMMA ListsStay ==
    ASSUME UNCHANGED <<device, matrix, asked>>
    PROVE  /\ \A c : EntriesOf(c)' = EntriesOf(c)
           /\ \A e, tier : Lists(e, tier)' <=> Lists(e, tier)
           /\ Reported' = Reported /\ supported' = supported
  BY DEF device, matrix, EntriesOf, Lists, Reported

\* Gone through all profiles, the search has seen every entry reported.
LEMMA SearchedAll ==
    ASSUME IInv, WholeInv, lapses = 0, phase = "tiers", cell \notin DOMAIN supported
    PROVE  /\ \A e \in Reported : ~Lists(e, "FUSED")
           /\ (\E e \in Reported : Lists(e, "SPLIT")) <=> best = "SPLIT"
<1>1. DOMAIN driver \subseteq TakenCells /\ SearchSoFar
  BY DEF WholeInv, MatrixWhole, Complete
<1>2. \A i \in DOMAIN supported : i < cell
  BY Counting
<1>3. ASSUME NEW e \in Reported
      PROVE  ~Lists(e, "FUSED") /\ (Lists(e, "SPLIT") => best = "SPLIT")
  <2>1. PICK c \in DOMAIN driver : e \in EntriesOf(c)
    BY DEF Reported, EntriesOf
  <2>2. PICK i \in DOMAIN supported : supported[i] = c
    BY <1>1, <2>1 DEF TakenCells
  <2> QED BY <1>1, <1>2, <2>1, <2>2 DEF SearchSoFar
<1> QED BY <1>1, <1>3 DEF SearchSoFar

\* A tier once found is of the entries reported.
LEMMA EntriesAreReported ==
    ASSUME IInv, NEW i \in DOMAIN supported, NEW e \in EntriesOf(supported[i])
    PROVE  e \in Reported
  BY Counting DEF EntriesOf, Reported

\* The search keeps count of what it has seen.
LEMMA SearchSoFarStays ==
    ASSUME IInv, WholeInv, [Next]_vars
    PROVE  SearchSoFar'
<1> SUFFICES ASSUME lapses' = 0, phase' = "tiers"
             PROVE  /\ \A i \in DOMAIN supported' : i < cell' =>
                          \A e \in EntriesOf(supported[i])' :
                              ~Lists(e, "FUSED")' /\ (Lists(e, "SPLIT")' => best' = "SPLIT")
                    /\ best' = "SPLIT" => \E e \in Reported' : Lists(e, "SPLIT")'
  BY DEF SearchSoFar
<1>0. lapses = 0 /\ ~Lapse /\ SearchSoFar /\ AnswerOfEntry
  BY NoLapse DEF WholeInv
<1>1. CASE AskFormat
  <2>1. cell' = 1 /\ best' = "NONE" /\ supported' = supported
    BY <1>1 DEF AskFormat, matrix
  <2>2. \A i \in DOMAIN supported : ~(i < 1)
    BY Counting
  <2> QED BY <2>1, <2>2
<1>2. CASE TierOfCell
  <2>1. /\ phase = "tiers" /\ cell \in DOMAIN supported
        /\ "FUSED" \notin TiersHere
        /\ best' = IF "SPLIT" \in TiersHere THEN "SPLIT" ELSE best
        /\ cell' = cell + 1
        /\ UNCHANGED <<device, matrix, asked>>
    BY <1>2 DEF TierOfCell, Answers, NextCell
  <2>2. asked \in EncFormats
    BY <1>0, <2>1 DEF AnswerOfEntry
  <2>3. /\ "FUSED" \in TiersHere <=> \E e \in EntriesOf(supported[cell]) : Lists(e, "FUSED")
        /\ "SPLIT" \in TiersHere <=> \E e \in EntriesOf(supported[cell]) : Lists(e, "SPLIT")
    BY <2>2, TiersOfEntries
  <2>4. /\ \A i \in DOMAIN supported : i < cell =>
              \A e \in EntriesOf(supported[i]) :
                  ~Lists(e, "FUSED") /\ (Lists(e, "SPLIT") => best = "SPLIT")
        /\ best = "SPLIT" => \E e \in Reported : Lists(e, "SPLIT")
    BY <1>0, <2>1 DEF SearchSoFar
  <2>5. \A i \in DOMAIN supported : i < cell + 1 => i < cell \/ i = cell
    BY Counting
  <2>6. \A i \in DOMAIN supported : i < cell + 1 =>
           \A e \in EntriesOf(supported[i]) :
               ~Lists(e, "FUSED") /\ (Lists(e, "SPLIT") => best' = "SPLIT")
    BY <2>1, <2>3, <2>4, <2>5
  <2>7. best' = "SPLIT" => \E e \in Reported : Lists(e, "SPLIT")
    BY <2>1, <2>3, <2>4, EntriesAreReported
  <2> QED BY <2>1, <2>6, <2>7, ListsStay
<1>3. CASE TierLapses
  BY <1>0, <1>3 DEF TierLapses
<1>4. CASE UNCHANGED vars
  <2>1. UNCHANGED <<device, matrix, asked>> /\ phase = "tiers" /\ best' = best /\ cell' = cell
    BY <1>4 DEF vars, tiering
  <2> QED BY <1>0, <2>1, ListsStay DEF SearchSoFar
<1>5. AskFormat \/ TierOfCell \/ TierLapses \/ UNCHANGED vars
  <2>1. CASE Matrix
    BY <2>1 DEF Matrix, Refuse, Start, ProbeTakes, ProbeRefuses, ProbeEnds, Measure, Ends
  <2>2. CASE Formats
    BY <2>2 DEF Formats, ListCell, PassEntry, AddEntry, TakesEntry, CellListed, CellsEnd, Ends
  <2>3. CASE Finish
    BY <2>3 DEF Finish, Sources, ReferencesFail, References, Ends
  <2>4. CASE Ask
    BY <2>4 DEF Ask, TierEnds, Answers
  <2> QED BY <2>1, <2>2, <2>3, <2>4 DEF Next
<1> QED BY <1>1, <1>2, <1>3, <1>4, <1>5

\* The answer is what all that is reported gives.
LEMMA SearchDoneStays ==
    ASSUME IInv, WholeInv, [Next]_vars
    PROVE  SearchDone'
<1> SUFFICES ASSUME lapses' = 0, Cached', answer' # "none"
             PROVE  /\ answer' = "FUSED" <=> \E e \in Reported' : Lists(e, "FUSED")'
                    /\ answer' = "SPLIT" => \E e \in Reported' : Lists(e, "SPLIT")'
                    /\ answer' \notin EntryTiers => \A e \in Reported' : ~Lists(e, "SPLIT")'
                    /\ answer' = "CONVERT" => compute_family'
  BY DEF SearchDone
<1>0. /\ lapses = 0 /\ ~Lapse /\ SearchSoFar /\ AnswerOfEntry /\ SearchDone
      /\ answer \in EntryTiers \cup {"none", "CONVERT", "FORMAT_UNSUPPORTED"}
      /\ best \in {"SPLIT", "NONE"}
  BY NoLapse DEF WholeInv, IInv, TypeOK
<1>1. CASE AskFormat
  <2>1. PICK f \in EncFormats :
           asked' = f /\ to_vulkan_format(f) = {} /\ answer' = "FORMAT_UNSUPPORTED"
    BY <1>1 DEF AskFormat
  <2>2. \A e, tier : ~Lists(e, tier)'
    BY <2>1, FromAndTo DEF Lists
  <2> QED BY <2>1, <2>2
<1>2. CASE TierOfCell
  <2>1. /\ phase = "tiers" /\ cell \in DOMAIN supported /\ UNCHANGED <<device, matrix, asked>>
        /\ "FUSED" \in TiersHere /\ answer' = "FUSED"
    BY <1>2 DEF TierOfCell, Answers, Cached
  <2>2. \E e \in Reported : Lists(e, "FUSED")
    BY <1>0, <2>1, TiersOfEntries, EntriesAreReported DEF AnswerOfEntry
  <2> QED BY <2>1, <2>2, ListsStay DEF EntryTiers
<1>3. CASE TierEnds
  <2>1. /\ phase = "tiers" /\ cell \notin DOMAIN supported /\ UNCHANGED <<device, matrix, asked>>
        /\ answer' = IF best # "NONE" THEN best
                     ELSE IF compute_family THEN "CONVERT" ELSE "FORMAT_UNSUPPORTED"
    BY <1>3 DEF TierEnds, Answers
  <2>2. compute_family' = compute_family
    BY <2>1 DEF device
  <2> QED BY <1>0, <2>1, <2>2, ListsStay, SearchedAll DEF EntryTiers
<1>4. CASE /\ UNCHANGED <<device, matrix, asked, answer>> /\ Cached
  <2>1. compute_family' = compute_family
    BY <1>4 DEF device
  <2> QED BY <1>0, <1>4, <2>1, ListsStay DEF SearchDone
<1>5. \/ AskFormat \/ TierOfCell \/ TierEnds
      \/ UNCHANGED <<device, matrix, asked, answer>> /\ Cached
  <2>1. CASE Matrix
    BY <2>1 DEF Matrix, Refuse, Start, ProbeTakes, ProbeRefuses, ProbeEnds, Measure, Ends, Cached,
       IInv, TypeOK
  <2>2. CASE Formats
    BY <2>2 DEF Formats, ListCell, PassEntry, AddEntry, TakesEntry, CellListed, CellsEnd, Ends,
       Cached
  <2>3. CASE Finish
    BY <1>0, <2>3 DEF Finish, Sources, ReferencesFail, References, Ends, Cached, tiering,
       AnswerOfEntry
  <2>4. CASE Ask
    BY <2>4 DEF Ask, TierLapses, Cached
  <2>5. CASE UNCHANGED vars
    BY <2>5 DEF vars, Cached, tiering
  <2> QED BY <2>1, <2>2, <2>3, <2>4, <2>5 DEF Next
<1> QED BY <1>1, <1>2, <1>3, <1>4, <1>5

\* Whatever driver answers, as long as no call lapses both queries see all of it.
THEOREM ProbeWhole == Spec => []WholeInv
<1>1. Init => WholeInv
  BY DEF Init, WholeInv, MatrixWhole, WalkWhole, ConvertTold, AnswerOfEntry, SearchSoFar, SearchDone,
     Complete, Cached
<1>2. IInv /\ WholeInv /\ [Next]_vars => WholeInv'
  BY MatrixWholeStays, WalkWholeStays, AnswerOfEntryStays, SearchSoFarStays, SearchDoneStays
  DEF WholeInv
<1> QED BY <1>1, <1>2, ProbeInvariant, PTL DEF Spec

\* The two queries agree about every format, for all drivers that conform
\* (query_codec_capabilities and query_format_tier, whose loops over the driver's
\* formats end on different terms).
THEOREM ProbeQueriesAgree == Spec => []QueriesAgree
<1>1. IInv /\ WholeInv => QueriesAgree
  <2>1. SUFFICES ASSUME IInv, WholeInv, lapses = 0, Conforms, Cached, answer # "none"
                 PROVE  /\ answer \in EntryTiers <=> asked \in Listed
                        /\ answer # "FORMAT_UNSUPPORTED" => answer \in surface_tiers
                        /\ (\E e \in Reported : to_enc_format(e.format) = asked
                                                /\ tier_of(e.usage) = "FUSED")
                           => answer = "FUSED"
    BY DEF QueriesAgree
  <2>2. /\ \A e \in Reported : Covered(e)
        /\ asked \in EncFormats /\ asked # Undefined
        /\ SearchDone /\ ConvertTold
        /\ Listed \subseteq {to_enc_format(e.format) : e \in Reported}
        /\ answer \in EntryTiers \cup {"none", "CONVERT", "FORMAT_UNSUPPORTED"}
    BY <2>1, ProbeAssumption DEF WholeInv, WalkWhole, Complete, AnswerOfEntry, IInv, NothingInvented,
       TypeOK
  <2>3. \A e \in Reported : tier_of(e.usage) \in EntryTiers
    BY <2>1 DEF Conforms, tier_of, EntryTiers
  <2>4. answer \in EntryTiers <=> \E e \in Reported : to_enc_format(e.format) = asked
    BY <2>1, <2>2, <2>3 DEF SearchDone, Lists, EntryTiers
  <2>5. asked \in Listed <=> \E e \in Reported : to_enc_format(e.format) = asked
    BY <2>2 DEF Covered
  <2>6. answer \in EntryTiers => answer \in surface_tiers
    BY <2>1, <2>2 DEF SearchDone, Lists, EntryTiers, Covered
  <2>7. answer = "CONVERT" => answer \in surface_tiers
    BY <2>1, <2>2 DEF SearchDone, ConvertTold
  <2>8. (\E e \in Reported : to_enc_format(e.format) = asked /\ tier_of(e.usage) = "FUSED")
          => answer = "FUSED"
    BY <2>1, <2>2 DEF SearchDone, Lists
  <2> QED BY <2>1, <2>2, <2>4, <2>5, <2>6, <2>7, <2>8
<1> QED BY <1>1, ProbeInvariant, ProbeWhole, PTL

-----------------------------------------------------------------------------
(* The preferred format, where the header's word for it is kept.           *)

Fuses(e) == tier_of(e.usage) = "FUSED"

\* A format is preferred as fused only where the driver lists it so.
PreferredReported ==
    best_tier = "FUSED" =>
        /\ preferred_input_format # Undefined
        /\ \E e \in Reported : to_enc_format(e.format) = preferred_input_format /\ Fuses(e)

\* The driver lists each format a client knows with one tier, whatever the profile
\* and the tiling.
OneTierEach ==
    \A e, d \in Reported :
        to_enc_format(e.format) # Undefined /\ to_enc_format(e.format) = to_enc_format(d.format)
        => tier_of(e.usage) = tier_of(d.usage)

\* A fused format is noticed when it is listed, if that is how it is listed first.
FusedNoticed ==
    OneTierEach =>
        \A e \in Reported : to_enc_format(e.format) \in Listed /\ Fuses(e) => best_tier = "FUSED"

PreferenceInv == PreferredReported /\ FusedNoticed

\* The driver lists some format a client knows as fused, and none with two tiers.
OffersFused ==
    OneTierEach /\ \E e \in Reported : to_enc_format(e.format) # Undefined /\ Fuses(e)

\* An entry is added: it is one of the driver's, and there is room for it.
LEMMA AddedEntry ==
    ASSUME IInv, IInv', AddEntry
    PROVE  /\ Head(entries) \in Reported
           /\ Listed' = Listed \cup {Mapped}
           /\ Mapped # Undefined
<1>1. phase = "entries" /\ entries # <<>> /\ entries \in Seq(Entries)
  BY DEF AddEntry, TakesEntry, IInv, TypeOK
<1>2. 1 \in DOMAIN entries /\ Head(entries) = entries[1]
  BY <1>1
<1>3. input_formats' = Append(input_formats, Mapped)
  BY DEF AddEntry, IInv, ListIsSound
<1>4. input_formats \in Seq(EncFormats)
  BY DEF IInv, TypeOK
<1>5. Listed' = Listed \cup {Mapped}
  BY <1>3, <1>4 DEF Listed
<1> QED BY <1>1, <1>2, <1>5 DEF AddEntry, IInv, EntriesReported

LEMMA PreferenceStays ==
    ASSUME IInv, IInv', PreferenceInv, [Next]_vars
    PROVE  PreferenceInv'
<1>0. Reported' = Reported
  BY Writers, ReportedStays
<1>1. CASE AddEntry
  <2>1. /\ Head(entries) \in Reported /\ Listed' = Listed \cup {Mapped} /\ Mapped # Undefined
        /\ PreferEntry
    BY <1>1, AddedEntry DEF AddEntry
  <2>2. PreferredReported'
    BY <1>0, <2>1 DEF PreferEntry, PreferenceInv, PreferredReported, Mapped, Tier, Fuses
  <2>3. Tier = "FUSED" => best_tier' = "FUSED"
    BY <2>1 DEF PreferEntry
  <2>4. best_tier = "FUSED" => best_tier' = "FUSED"
    <3>1. best_tier = "FUSED" => preferred_input_format # Undefined
      BY DEF PreferenceInv, PreferredReported
    <3> QED BY <2>1, <3>1 DEF PreferEntry
  <2>5. FusedNoticed'
    <3>1. SUFFICES ASSUME OneTierEach, NEW e \in Reported,
                          to_enc_format(e.format) \in Listed \cup {Mapped}, Fuses(e)
                   PROVE  best_tier' = "FUSED"
      BY <1>0, <2>1 DEF FusedNoticed, OneTierEach
    <3>2. CASE to_enc_format(e.format) \in Listed
      BY <2>4, <3>1, <3>2 DEF PreferenceInv, FusedNoticed
    <3>3. CASE to_enc_format(e.format) = Mapped
      BY <2>1, <2>3, <3>1, <3>3 DEF OneTierEach, Mapped, Tier, Fuses
    <3> QED BY <3>1, <3>2, <3>3
  <2> QED BY <2>2, <2>5 DEF PreferenceInv
<1>2. CASE Start
  <2>1. best_tier' = "NONE" /\ Listed' = {}
    BY <1>2 DEF Start, Listed
  <2> QED BY <2>1 DEF PreferenceInv, PreferredReported, FusedNoticed
<1>3. CASE UNCHANGED <<input_formats, preferred_input_format, best_tier>>
  BY <1>0, <1>3 DEF PreferenceInv, PreferredReported, FusedNoticed, OneTierEach, Listed
<1>4. AddEntry \/ Start \/ UNCHANGED <<input_formats, preferred_input_format, best_tier>>
  BY Writers DEF PassEntry, References, listing
<1> QED BY <1>1, <1>2, <1>3, <1>4

\* What encorder.h says of preferred_input_format is so of every device that offers a
\* fused format, if no format comes with two tiers: the divergence that a run shows
\* needs a device without one, or one that lists a format first as split and then
\* as fused (query_codec_capabilities, which passes over formats it has listed).
THEOREM PreferredIsFusedIfAnyIs == Spec => [](OffersFused => PreferredIsFused)
<1>1. Init => PreferenceInv
  BY DEF Init, PreferenceInv, PreferredReported, FusedNoticed, Listed
<1>2. IInv /\ IInv' /\ PreferenceInv /\ [Next]_vars => PreferenceInv'
  BY PreferenceStays
<1>3. WholeInv /\ PreferenceInv /\ QueriesAgree => (OffersFused => PreferredIsFused)
  <2>1. SUFFICES ASSUME WholeInv, PreferenceInv, QueriesAgree, OffersFused,
                        lapses = 0, Conforms, Cached, asked = preferred_input_format,
                        answer # "none"
                 PROVE  answer = "FUSED"
    BY DEF PreferredIsFused
  <2>2. PICK e \in Reported : to_enc_format(e.format) # Undefined /\ Fuses(e)
    BY <2>1 DEF OffersFused
  <2>3. to_enc_format(e.format) \in Listed
    BY <2>1, <2>2 DEF WholeInv, WalkWhole, Complete, Covered
  <2>4. best_tier = "FUSED"
    BY <2>1, <2>2, <2>3 DEF PreferenceInv, FusedNoticed, OffersFused
  <2>5. \E d \in Reported : to_enc_format(d.format) = asked /\ tier_of(d.usage) = "FUSED"
    BY <2>1, <2>4 DEF PreferenceInv, PreferredReported, Fuses
  <2> QED BY <2>1, <2>5 DEF QueriesAgree
<1> QED BY <1>1, <1>2, <1>3, ProbeInvariant, ProbeWhole, ProbeQueriesAgree, PTL DEF Spec
=============================================================================
