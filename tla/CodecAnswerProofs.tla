------------------------- MODULE CodecAnswerProofs -------------------------
(***************************************************************************)
(* Proofs that what a codec's enc_capabilities say is so, for every driver *)
(* and every width of the machine's words.                                 *)
(*                                                                         *)
(* An answer is a function of the driver it was computed from, and that is *)
(* the inductive invariant; the rest is about the functions.  Two of the   *)
(* tables are small enough to be gone through line by line: format_map,    *)
(* and the standard profiles of the three codecs.                          *)
(***************************************************************************)
EXTENDS CodecAnswer, FiniteSetTheorems, TLAPS

\* The answer is the one the code gives for this driver.
IInv ==
    /\ driver \in Drivers
    /\ \/ answer = NoAnswer
       \/ Supported(driver) = {} /\ answer = [code |-> "CODEC_UNSUPPORTED"]
       \/ Supported(driver) # {} /\ Inputs(driver) = {}
              /\ answer = [code |-> "FORMAT_UNSUPPORTED"]
       \/ Supported(driver) # {} /\ Inputs(driver) # {} /\ answer = Capabilities(driver)

\* Each answer is what the code makes of the driver, which does not change.
THEOREM AnswerInvariant == Spec => []IInv
<1>1. Init => IInv
  BY DEF Init, IInv
<1>2. IInv /\ [Next]_vars => IInv'
  <2> SUFFICES ASSUME IInv, [Next]_vars PROVE IInv'
    OBVIOUS
  <2>1. CASE NoCell
    BY <2>1 DEF IInv, NoCell, Asks
  <2>2. CASE NoInput
    BY <2>2 DEF IInv, NoInput, Asks
  <2>3. CASE Answer
    BY <2>3 DEF IInv, Answer, Asks
  <2>4. CASE UNCHANGED vars
    BY <2>4 DEF IInv, vars
  <2> QED
    BY <2>1, <2>2, <2>3, <2>4 DEF Next
<1> QED
  BY <1>1, <1>2, PTL DEF Spec

-----------------------------------------------------------------------------
(* Numbers *)

\* The larger and the smaller of two numbers.
LEMMA MaxOfTwo ==
    ASSUME NEW a \in Int, NEW b \in Int
    PROVE  /\ Max({a, b}) \in {a, b} /\ Max({a, b}) >= a /\ Max({a, b}) >= b
           /\ Max({a, b}) = IF a >= b THEN a ELSE b
<1>1. \E x \in {a, b} : \A y \in {a, b} : x >= y
  <2>1. CASE a >= b
    BY <2>1
  <2>2. CASE b >= a
    BY <2>2
  <2> QED
    BY <2>1, <2>2
<1>2. Max({a, b}) \in {a, b} /\ \A y \in {a, b} : Max({a, b}) >= y
  BY <1>1 DEF Max
<1> QED
  BY <1>2

\* The same of the smaller.
LEMMA MinOfTwo ==
    ASSUME NEW a \in Int, NEW b \in Int
    PROVE  /\ Min({a, b}) \in {a, b} /\ Min({a, b}) <= a /\ Min({a, b}) <= b
           /\ Min({a, b}) = IF a <= b THEN a ELSE b
<1>1. \E x \in {a, b} : \A y \in {a, b} : x <= y
  <2>1. CASE a <= b
    BY <2>1
  <2>2. CASE b <= a
    BY <2>2
  <2> QED
    BY <2>1, <2>2
<1>2. Min({a, b}) \in {a, b} /\ \A y \in {a, b} : Min({a, b}) <= y
  BY <1>1 DEF Min
<1> QED
  BY <1>2

\* Remainders: a sum that does not wrap is itself, and a number divides itself.
LEMMA Remainders ==
    ASSUME NEW w \in Nat, w > 0
    PROVE  /\ \A a \in Nat : a % w \in 0 .. w - 1
           /\ \A a \in Nat : a < w => a % w = a
           /\ w % w = 0
  OBVIOUS

\* What the assumption says of one driver.
LEMMA DriverTypes ==
    ASSUME NEW d \in Drivers
    PROVE  /\ d.codec \in Codecs
           /\ d.profiles \subseteq Profiles(d.codec)
           /\ d.cells \subseteq Matrix
           /\ d.formats \subseteq (DOMAIN Native) \cup {"other"}
           /\ d.active \in Nat /\ d.rate_layers \in Nat /\ d.quality_levels \in Nat
           /\ d.picture \in Nat /\ d.input \in Nat
           /\ d.p \in Nat /\ d.b \in Nat /\ d.l1 \in Nat /\ d.layers \in Nat
           /\ d.modes \subseteq Modes
           /\ d.min_q \in Int /\ d.max_q \in Int
           /\ d.codec = "av1" => d.min_q >= 0 /\ d.max_q >= 0
           /\ Word \in Nat /\ Word > 0
<1>1. 0 .. Word - 1 \subseteq Nat
  BY AnswerAssumption
<1> QED
  BY <1>1, AnswerAssumption

-----------------------------------------------------------------------------
(* LimitsHold *)

\* What an answer that succeeded is.
LEMMA AnsweredIs ==
    ASSUME IInv, Answered
    PROVE  driver \in Drivers /\ answer = Capabilities(driver)
  BY DEF IInv, Answered

\* A frame keeps what is reported, though the sum may wrap.
LEMMA References == ASSUME IInv, Answered PROVE ReferencesKept
<1> DEFINE sum == (driver.p + driver.l1) % Word
<1>1. driver \in Drivers /\ answer.max_reference_frames = Min({driver.active, sum})
  BY AnsweredIs DEF Capabilities, limits_of
<1>2. driver.active \in Nat /\ driver.p \in Nat /\ driver.l1 \in Nat /\ Word \in Nat /\ Word > 0
  BY <1>1, DriverTypes
<1>3. driver.p + driver.l1 \in Nat
  BY <1>2
<1>4. sum \in Nat
  BY <1>2, <1>3, Remainders
<1>5. driver.p + driver.l1 < Word => sum = driver.p + driver.l1
  BY <1>2, <1>3, Remainders
<1> HIDE DEF sum
<1> DEFINE active == driver.active
           p == driver.p
<1>6. active \in Int /\ sum \in Int /\ p \in Int
  BY <1>2, <1>4
<1>7. answer.max_reference_frames = Min({active, sum})
  BY <1>1
<1> HIDE DEF active, p
<1>8. /\ Min({active, sum}) = IF active <= sum THEN active ELSE sum
      /\ Min({p, active}) = IF p <= active THEN p ELSE active
  BY <1>6, MinOfTwo
<1>9. answer.max_reference_frames <= driver.active
  BY <1>6, <1>7, <1>8 DEF active
<1>10. ASSUME driver.p + driver.l1 < Word
       PROVE  answer.max_reference_frames >= Min({driver.p, driver.active})
  <2>1. sum >= p
    BY <1>2, <1>5, <1>10 DEF p
  <2>2. answer.max_reference_frames >= Min({p, active})
    BY <1>6, <1>7, <1>8, <2>1
  <2> QED
    BY <2>2 DEF p, active
<1> QED
  BY <1>9, <1>10 DEF ReferencesKept

\* The range reported is the part of the driver's that is not negative.
LEMMA Quantizers == ASSUME IInv, Answered PROVE QuantizersTaken
<1>1. driver \in Drivers
      /\ answer.quantizer_min = Quantizer(driver.codec, driver.min_q)
      /\ answer.quantizer_max = Quantizer(driver.codec, driver.max_q)
  BY AnsweredIs DEF Capabilities, limits_of
<1>2. driver.min_q \in Int /\ driver.max_q \in Int
      /\ (driver.codec = "av1" => driver.min_q >= 0 /\ driver.max_q >= 0)
  BY <1>1, DriverTypes
<1>3. answer.quantizer_min = IF driver.min_q >= 0 THEN driver.min_q ELSE 0
  BY <1>1, <1>2, MaxOfTwo, 0 \in Int DEF Quantizer
<1>4. answer.quantizer_max = IF driver.max_q >= 0 THEN driver.max_q ELSE 0
  BY <1>1, <1>2, MaxOfTwo, 0 \in Int DEF Quantizer
<1> QED
  BY <1>2, <1>3, <1>4 DEF QuantizersTaken

\* The larger of two granularities, where one divides the other, is a multiple of both.
LEMMA Sizes == ASSUME IInv, Answered PROVE SizesAligned
<1> DEFINE g == driver.picture
           h == driver.input
<1>1. driver \in Drivers /\ answer.width_align = Max({g, h})
  BY AnsweredIs DEF Capabilities
<1>2. g \in Nat /\ h \in Nat
  BY <1>1, DriverTypes
<1> HIDE DEF g, h
<1>3. g \in Int /\ h \in Int
  BY <1>2
<1>4. answer.width_align = IF g >= h THEN g ELSE h
  BY <1>1, <1>3, MaxOfTwo
<1>5. SUFFICES ASSUME g > 0, h > 0, g % h = 0 \/ h % g = 0
               PROVE  answer.width_align % g = 0 /\ answer.width_align % h = 0
  BY DEF SizesAligned, g, h
<1>6. g % g = 0 /\ h % h = 0
  BY <1>2, <1>5, Remainders
<1>7. /\ g < h => g % h = g
      /\ h < g => h % g = h
  BY <1>2, <1>5, Remainders
<1>8. CASE g = h
  BY <1>4, <1>6, <1>8
<1>9. CASE g < h
  <2>1. h % g = 0
    BY <1>2, <1>5, <1>7, <1>9
  <2> QED
    BY <1>2, <1>4, <1>6, <1>9, <2>1
<1>10. CASE h < g
  <2>1. g % h = 0
    BY <1>2, <1>5, <1>7, <1>10
  <2> QED
    BY <1>2, <1>4, <1>6, <1>10, <2>1
<1> QED
  BY <1>2, <1>8, <1>9, <1>10

\* Layers and bitrates are offered with something behind them.
LEMMA Layers == ASSUME IInv, Answered PROVE LayersBacked
<1>1. /\ driver \in Drivers
      /\ answer.max_temporal_layers = TemporalLayers(driver)
      /\ answer.features = Features(driver)
      /\ answer.rate_modes = rate_modes_of(driver)
  BY AnsweredIs DEF Capabilities
<1>2. driver.rate_layers \in Nat /\ driver.layers \in Nat
  BY <1>1, DriverTypes
<1> DEFINE rates  == driver.rate_layers
           layers == driver.layers
           a == Max({rates, 1})
           b == Max({layers, 1})
<1>3. answer.max_temporal_layers = Min({a, b})
  BY <1>1 DEF TemporalLayers, limits_of
<1>4. rates \in Int /\ layers \in Int /\ 1 \in Int
  BY <1>2
<1>5. rates = driver.rate_layers /\ layers = driver.layers
  OBVIOUS
<1> HIDE DEF rates, layers
<1>6. /\ a = IF rates >= 1 THEN rates ELSE 1
      /\ b = IF layers >= 1 THEN layers ELSE 1
  BY <1>4, MaxOfTwo
<1> HIDE DEF a, b
<1>7. a \in Int /\ b \in Int /\ a >= 1 /\ b >= 1
  BY <1>4, <1>6
<1>8. answer.max_temporal_layers = IF a <= b THEN a ELSE b
  BY <1>3, <1>7, MinOfTwo
<1>9. answer.max_temporal_layers >= 1
  BY <1>7, <1>8
<1>10. ASSUME "TEMPORAL_LAYERS" \in answer.features
       PROVE  answer.max_temporal_layers <= driver.layers
              /\ answer.max_temporal_layers <= driver.rate_layers
  <2>1. answer.max_temporal_layers > 1
    BY <1>1, <1>10 DEF Features
  <2> QED
    BY <1>4, <1>5, <1>6, <1>7, <1>8, <2>1
<1>11. ASSUME answer.rate_modes \cap {"CONSTANT_BITRATE", "AVERAGE_BITRATE", "CONSTANT_QUALITY"} # {}
       PROVE  driver.modes \ {"DISABLED"} # {} /\ "DYNAMIC_BITRATE" \in answer.features
  <2>1. PICK mode \in {"CONSTANT_BITRATE", "AVERAGE_BITRATE", "CONSTANT_QUALITY"} :
           mode \in rate_modes_of(driver)
    BY <1>1, <1>11
  <2>2. "CBR" \in driver.modes \/ "VBR" \in driver.modes
    <3>1. CASE mode = "CONSTANT_BITRATE"
      BY <2>1, <3>1 DEF rate_modes_of
    <3>2. CASE mode = "AVERAGE_BITRATE"
      BY <2>1, <3>2 DEF rate_modes_of
    <3>3. CASE mode = "CONSTANT_QUALITY"
      BY <2>1, <3>3 DEF rate_modes_of
    <3> QED
      BY <2>1, <3>1, <3>2, <3>3
  <2>3. driver.modes # {}
    BY <2>2
  <2>4. "DYNAMIC_BITRATE" \in Features(driver)
    BY <2>3 DEF Features
  <2> QED
    BY <1>1, <2>2, <2>4
<1> QED
  BY <1>9, <1>10, <1>11 DEF LayersBacked

\* The limits reported are limits the driver keeps: references, quantizers,
\* alignment, layers and bitrates (limits_of, rate_modes_of and what
\* query_codec_capabilities combines from them).
THEOREM LimitsAreKept == Spec => []LimitsHold
<1>1. IInv => LimitsHold
  BY References, Quantizers, Sizes, Layers DEF LimitsHold
<1> QED
  BY AnswerInvariant, <1>1, PTL

-----------------------------------------------------------------------------
(* MissesAreNamed *)

\* The cells, one by one.
LEMMA MatrixCells ==
    ASSUME NEW cell \in Matrix
    PROVE  /\ cell.chroma \in Chromas /\ cell.luma_depth \in Depths
           /\ cell = Cell(cell.chroma, cell.luma_depth)
<1>1. PICK chroma \in Chromas, depth \in Depths : cell = Cell(chroma, depth)
  BY DEF Matrix
<1>2. cell.chroma = chroma /\ cell.luma_depth = depth
  BY <1>1 DEF Cell
<1> QED
  BY <1>1, <1>2

\* A cell that a standard profile of H.264 contains is asked for under a profile
\* that contains it and that the first includes, or is a misfit.
LEMMA H264Placed ==
    ASSUME NEW cell \in Matrix, NEW p \in Profiles("h264"), cell \in Admits("h264", p)
    PROVE  \/ /\ ProfileOf("h264", cell) \in Includes("h264", p)
              /\ cell \in Admits("h264", ProfileOf("h264", cell))
           \/ cell \in Misplaced("h264") \cup Overplaced("h264")
<1>1. cell.chroma \in Chromas /\ cell.luma_depth \in Depths
      /\ cell = Cell(cell.chroma, cell.luma_depth)
  BY MatrixCells
<1>2. ProfileOf("h264", cell) = H264Profile(cell)
  BY DEF ProfileOf
<1>3. CASE cell.chroma \in {"444", "monochrome"}
  <2>1. ProfileOf("h264", cell) = "HIGH_444_PREDICTIVE"
    BY <1>2, <1>3 DEF H264Profile
  <2>2. cell \in Admits("h264", "HIGH_444_PREDICTIVE")
    BY DEF Admits
  <2>3. CASE cell.chroma = "444"
    <3>1. p = "HIGH_444_PREDICTIVE"
      BY <2>3 DEF Admits, UpTo, Profiles
    <3>2. ProfileOf("h264", cell) \in Includes("h264", p)
      BY <2>1, <3>1 DEF Includes, Profiles
    <3> QED
      BY <2>1, <2>2, <3>2
  <2>4. CASE cell.chroma = "monochrome" /\ cell.luma_depth = 12
    <3>1. p = "HIGH_444_PREDICTIVE"
      BY <2>4 DEF Admits, UpTo, Profiles
    <3>2. ProfileOf("h264", cell) \in Includes("h264", p)
      BY <2>1, <3>1 DEF Includes, Profiles
    <3> QED
      BY <2>1, <2>2, <3>2
  <2>5. CASE cell.chroma = "monochrome" /\ cell.luma_depth # 12
    BY <1>1, <2>5 DEF Overplaced, Depths
  <2> QED
    BY <1>3, <2>3, <2>4, <2>5
<1>4. CASE cell.chroma = "422"
  <2>1. ProfileOf("h264", cell) = "HIGH_422"
    BY <1>2, <1>4 DEF H264Profile
  <2>2. CASE cell.luma_depth = 12
    BY <1>1, <1>4, <2>2 DEF Misplaced
  <2>3. CASE cell.luma_depth # 12
    <3>1. cell \in Admits("h264", "HIGH_422")
      BY <1>1, <1>4, <2>3 DEF Admits, UpTo, Depths
    <3>2. p \in {"HIGH_422", "HIGH_444_PREDICTIVE"}
      BY <1>4 DEF Admits, UpTo, Profiles
    <3>3. "HIGH_422" \in Includes("h264", p)
      BY <3>2 DEF Includes, Profiles
    <3> QED
      BY <2>1, <3>1, <3>3
  <2> QED
    BY <2>2, <2>3
<1>5. CASE cell.chroma = "420"
  <2>1. CASE cell.luma_depth = 12
    BY <1>1, <1>5, <2>1 DEF Misplaced
  <2>2. CASE cell.luma_depth = 10
    <3>1. ProfileOf("h264", cell) = "HIGH_10"
      BY <1>2, <1>5, <2>2 DEF H264Profile
    <3>2. cell \in Admits("h264", "HIGH_10")
      BY <1>5, <2>2 DEF Admits, UpTo
    <3>3. p # "HIGH"
      BY <2>2 DEF Admits, UpTo
    <3>4. "HIGH_10" \in Includes("h264", p)
      BY <3>3 DEF Includes, Profiles
    <3> QED
      BY <3>1, <3>2, <3>4
  <2>3. CASE cell.luma_depth = 8
    <3>1. ProfileOf("h264", cell) = "HIGH"
      BY <1>2, <1>5, <2>3 DEF H264Profile
    <3>2. cell \in Admits("h264", "HIGH")
      BY <1>5, <2>3 DEF Admits, UpTo
    <3>3. "HIGH" \in Includes("h264", p)
      BY DEF Includes, Profiles
    <3> QED
      BY <3>1, <3>2, <3>3
  <2> QED
    BY <1>1, <2>1, <2>2, <2>3 DEF Depths
<1> QED
  BY <1>1, <1>3, <1>4, <1>5 DEF Chromas

\* The same of HEVC.
LEMMA HevcPlaced ==
    ASSUME NEW cell \in Matrix, NEW p \in Profiles("hevc"), cell \in Admits("hevc", p)
    PROVE  \/ /\ ProfileOf("hevc", cell) \in Includes("hevc", p)
              /\ cell \in Admits("hevc", ProfileOf("hevc", cell))
           \/ cell \in Misplaced("hevc") \cup Overplaced("hevc")
<1>1. cell.chroma \in Chromas /\ cell.luma_depth \in Depths
      /\ cell = Cell(cell.chroma, cell.luma_depth)
  BY MatrixCells
<1>2. ProfileOf("hevc", cell) = H265Profile(cell)
  BY DEF ProfileOf
<1>3. CASE cell.chroma \in {"422", "444"} \/ cell.luma_depth = 12
  <2>1. ProfileOf("hevc", cell) = "FORMAT_RANGE_EXTENSIONS"
    BY <1>2, <1>3 DEF H265Profile
  <2>2. cell \in Admits("hevc", "FORMAT_RANGE_EXTENSIONS")
    BY DEF Admits
  <2>3. p = "FORMAT_RANGE_EXTENSIONS"
    BY <1>3 DEF Admits, UpTo, Profiles
  <2>4. ProfileOf("hevc", cell) \in Includes("hevc", p)
    BY <2>1, <2>3 DEF Includes, Profiles
  <2> QED
    BY <2>1, <2>2, <2>4
<1>4. CASE cell.chroma = "monochrome" /\ cell.luma_depth # 12
  BY <1>1, <1>4 DEF Misplaced, Depths
<1>5. CASE cell.chroma = "420" /\ cell.luma_depth = 8
  <2>1. ProfileOf("hevc", cell) = "MAIN"
    BY <1>2, <1>5 DEF H265Profile
  <2>2. cell \in Admits("hevc", "MAIN")
    BY <1>5 DEF Admits, UpTo
  <2>3. "MAIN" \in Includes("hevc", p)
    BY DEF Includes, Profiles
  <2> QED
    BY <2>1, <2>2, <2>3
<1>6. CASE cell.chroma = "420" /\ cell.luma_depth = 10
  <2>1. ProfileOf("hevc", cell) = "MAIN_10"
    BY <1>2, <1>6 DEF H265Profile
  <2>2. cell \in Admits("hevc", "MAIN_10")
    BY <1>6 DEF Admits, UpTo
  <2>3. p # "MAIN"
    BY <1>6 DEF Admits, UpTo
  <2>4. "MAIN_10" \in Includes("hevc", p)
    BY <2>3 DEF Includes, Profiles
  <2> QED
    BY <2>1, <2>2, <2>4
<1> QED
  BY <1>1, <1>3, <1>4, <1>5, <1>6 DEF Chromas, Depths

\* The same of AV1.
LEMMA AV1Placed ==
    ASSUME NEW cell \in Matrix, NEW p \in Profiles("av1"), cell \in Admits("av1", p)
    PROVE  \/ /\ ProfileOf("av1", cell) \in Includes("av1", p)
              /\ cell \in Admits("av1", ProfileOf("av1", cell))
           \/ cell \in Misplaced("av1") \cup Overplaced("av1")
<1>1. cell.chroma \in Chromas /\ cell.luma_depth \in Depths
      /\ cell = Cell(cell.chroma, cell.luma_depth)
  BY MatrixCells
<1>2. ProfileOf("av1", cell) = AV1Profile(cell)
  BY DEF ProfileOf
<1>3. CASE cell.chroma = "444"
  <2>1. ProfileOf("av1", cell) = "HIGH"
    BY <1>2, <1>3 DEF AV1Profile
  <2>2. CASE cell.luma_depth = 12
    BY <1>1, <1>3, <2>2 DEF Misplaced
  <2>3. CASE cell.luma_depth # 12
    <3>1. cell \in Admits("av1", "HIGH")
      BY <1>1, <1>3, <2>3 DEF Admits, UpTo, Depths
    <3>2. p = "HIGH"
      BY <1>3, <2>3 DEF Admits, UpTo, Profiles
    <3>3. "HIGH" \in Includes("av1", p)
      BY <3>2 DEF Includes
    <3> QED
      BY <2>1, <3>1, <3>3
  <2> QED
    BY <2>2, <2>3
<1>4. CASE cell.chroma = "422" \/ (cell.luma_depth = 12 /\ cell.chroma # "444")
  <2>1. ProfileOf("av1", cell) = "PROFESSIONAL"
    BY <1>2, <1>4 DEF AV1Profile
  <2>2. cell \in Admits("av1", "PROFESSIONAL")
    BY <1>1, <1>4 DEF Admits, UpTo, Depths
  <2>3. p = "PROFESSIONAL"
    BY <1>4 DEF Admits, UpTo, Profiles
  <2>4. "PROFESSIONAL" \in Includes("av1", p)
    BY <2>3 DEF Includes, Profiles
  <2> QED
    BY <2>1, <2>2, <2>4
<1>5. CASE cell.chroma \in {"monochrome", "420"} /\ cell.luma_depth # 12
  <2>1. ProfileOf("av1", cell) = "MAIN"
    BY <1>2, <1>5 DEF AV1Profile
  <2>2. cell \in Admits("av1", "MAIN")
    BY <1>1, <1>5 DEF Admits, UpTo, Depths
  <2>3. "MAIN" \in Includes("av1", p)
    BY DEF Includes, Profiles
  <2> QED
    BY <2>1, <2>2, <2>3
<1> QED
  BY <1>1, <1>3, <1>4, <1>5 DEF Chromas, Depths

\* Whatever profiles and cells a driver has, asking under one profile per cell misses,
\* of what some profile of the driver's has, only the cells asked for under a profile
\* that does not contain them, or a larger one than they need, and those the driver
\* has under a larger profile whose smaller one it does not take (profile_chain, and
\* the walk over the matrix).
THEOREM MissesNamed == Spec => []MissesAreNamed
<1>1. ASSUME NEW d \in Drivers, NEW cell \in Encodable(d), cell \notin Supported(d)
      PROVE  cell \in Misplaced(d.codec) \cup Overplaced(d.codec) \cup OnlyInLarger(d)
  <2>1. cell \in d.cells
    BY <1>1 DEF Encodable
  <2>2. PICK p \in d.profiles : cell \in Admits(d.codec, p)
    BY <1>1 DEF Encodable
  <2>3. cell \in Matrix /\ p \in Profiles(d.codec) /\ d.codec \in Codecs
    BY <2>1, <2>2, DriverTypes
  <2>4. ~(/\ ProfileOf(d.codec, cell) \in d.profiles
          /\ cell \in Admits(d.codec, ProfileOf(d.codec, cell)))
    BY <1>1, <2>1 DEF Supported
  <2>5. \/ /\ ProfileOf(d.codec, cell) \in Includes(d.codec, p)
           /\ cell \in Admits(d.codec, ProfileOf(d.codec, cell))
        \/ cell \in Misplaced(d.codec) \cup Overplaced(d.codec)
    <3>1. CASE d.codec = "h264"
      BY <2>2, <2>3, <3>1, H264Placed
    <3>2. CASE d.codec = "hevc"
      BY <2>2, <2>3, <3>2, HevcPlaced
    <3>3. CASE d.codec = "av1"
      BY <2>2, <2>3, <3>3, AV1Placed
    <3> QED
      BY <2>3, <3>1, <3>2, <3>3 DEF Codecs
  <2>6. CASE /\ ProfileOf(d.codec, cell) \in Includes(d.codec, p)
             /\ cell \in Admits(d.codec, ProfileOf(d.codec, cell))
    <3>1. ProfileOf(d.codec, cell) \notin d.profiles
      BY <2>4, <2>6
    <3>2. cell \in OnlyInLarger(d)
      BY <2>1, <2>2, <2>6, <3>1 DEF OnlyInLarger
    <3> QED
      BY <3>2
  <2> QED
    BY <2>5, <2>6
<1>2. IInv => MissesAreNamed
  <2>1. ASSUME IInv, answer # NoAnswer
        PROVE  driver \in Drivers /\ (answer.code = "CODEC_UNSUPPORTED" => Supported(driver) = {})
    BY <2>1 DEF IInv, Capabilities
  <2> QED
    BY <1>1, <2>1 DEF MissesAreNamed
<1> QED
  BY AnswerInvariant, <1>2, PTL

-----------------------------------------------------------------------------
(* FormatsDescribed *)

Lines == 1 .. 15

\* format_map, line by line.
LEMMA FormatLines ==
    /\ DOMAIN format_map = Lines
    /\ format_map[1] = <<"NV12", "G8_2PLANE_420">>
    /\ format_map[2] = <<"P010", "G10X6_2PLANE_420">>
    /\ format_map[3] = <<"P012", "G12X4_2PLANE_420">>
    /\ format_map[4] = <<"P016", "G16_2PLANE_420">>
    /\ format_map[5] = <<"NV16", "G8_2PLANE_422">>
    /\ format_map[6] = <<"P210", "G10X6_2PLANE_422">>
    /\ format_map[7] = <<"P216", "G16_2PLANE_422">>
    /\ format_map[8] = <<"Y210", "G10X6_PACKED_422">>
    /\ format_map[9] = <<"NV24", "G8_2PLANE_444">>
    /\ format_map[10] = <<"P410", "G10X6_2PLANE_444">>
    /\ format_map[11] = <<"P416", "G16_2PLANE_444">>
    /\ format_map[12] = <<"RGBA8", "R8G8B8A8">>
    /\ format_map[13] = <<"BGRA8", "B8G8R8A8">>
    /\ format_map[14] = <<"RGB10A2", "A2B10G10R10">>
    /\ format_map[15] = <<"RGBA16F", "R16G16B16A16_SFLOAT">>
  BY DEF format_map, Lines

\* No format and no VkFormat is on two lines.
LEMMA LinesApart ==
    ASSUME NEW i \in Lines, NEW j \in Lines,
           format_map[i][1] = format_map[j][1] \/ format_map[i][2] = format_map[j][2]
    PROVE  i = j
  BY FormatLines DEF Lines

\* The format and the VkFormat of a line look alike.
LEMMA TablesAgree ==
    /\ Native["G8_2PLANE_420"] = format_table["NV12"]
    /\ Native["G10X6_2PLANE_420"] = format_table["P010"]
    /\ Native["G12X4_2PLANE_420"] = format_table["P012"]
    /\ Native["G16_2PLANE_420"] = format_table["P016"]
    /\ Native["G8_2PLANE_422"] = format_table["NV16"]
    /\ Native["G10X6_2PLANE_422"] = format_table["P210"]
    /\ Native["G16_2PLANE_422"] = format_table["P216"]
    /\ Native["G10X6_PACKED_422"] = format_table["Y210"]
    /\ Native["G8_2PLANE_444"] = format_table["NV24"]
    /\ Native["G10X6_2PLANE_444"] = format_table["P410"]
    /\ Native["G16_2PLANE_444"] = format_table["P416"]
    /\ Native["R8G8B8A8"] = format_table["RGBA8"]
    /\ Native["B8G8R8A8"] = format_table["BGRA8"]
    /\ Native["A2B10G10R10"] = format_table["RGB10A2"]
    /\ Native["R16G16B16A16_SFLOAT"] = format_table["RGBA16F"]
  BY DEF format_table, Native

\* What a line calls a format looks in the one table as Vulkan has it in the other.
LEMMA LineLayouts ==
    ASSUME NEW i \in Lines
    PROVE  /\ format_map[i][1] \in DOMAIN format_table /\ format_map[i][1] # UNDEFINED
           /\ format_map[i][2] # UNDEFINED
           /\ Native[format_map[i][2]] = format_table[format_map[i][1]]
<1>1. DOMAIN format_table =
        {"NV12", "P010", "P012", "P016", "NV16", "P210", "P216", "Y210", "NV24", "P410", "P416",
         "AYUV", "Y410", "Y416", "RGBA8", "BGRA8", "RGB10A2", "RGBA16F"}
  BY DEF format_table
<1>2. format_map[i][1] \in DOMAIN format_table
  BY <1>1, FormatLines DEF Lines
<1>3. format_map[i][1] # UNDEFINED /\ format_map[i][2] # UNDEFINED
  BY FormatLines DEF Lines, UNDEFINED
<1>4. Native[format_map[i][2]] = format_table[format_map[i][1]]
  BY FormatLines, TablesAgree DEF Lines
<1> QED
  BY <1>2, <1>3, <1>4

\* Searching one line's VkFormat finds its format, and the reverse.
LEMMA LineIsFound ==
    ASSUME NEW i \in Lines
    PROVE  /\ to_enc_format(format_map[i][2]) = format_map[i][1]
           /\ to_vulkan_format(format_map[i][1]) = format_map[i][2]
<1>1. DOMAIN format_map = Lines /\ i \in Int
  BY FormatLines DEF Lines
<1>2. {j \in DOMAIN format_map : format_map[j][2] = format_map[i][2]} = {i}
  BY <1>1, LinesApart
<1>3. {j \in DOMAIN format_map : format_map[j][1] = format_map[i][1]} = {i}
  BY <1>1, LinesApart
<1>4. FirstLine({i}) = format_map[i]
  <2>1. (CHOOSE k \in {i} : \A j \in {i} : k <= j) = i
    BY <1>1
  <2> QED
    BY <2>1 DEF FirstLine
<1> QED
  BY <1>2, <1>3, <1>4 DEF to_enc_format, to_vulkan_format

\* Whatever is found is on a line.
LEMMA FoundOnALine ==
    ASSUME NEW name
    PROVE  /\ to_enc_format(name) # UNDEFINED => \E i \in Lines : name = format_map[i][2]
           /\ to_vulkan_format(name) # UNDEFINED => \E i \in Lines : name = format_map[i][1]
<1>1. DOMAIN format_map = Lines
  BY FormatLines
<1>2. to_enc_format(name) # UNDEFINED =>
        {j \in DOMAIN format_map : format_map[j][2] = name} # {}
  BY DEF to_enc_format
<1>3. to_vulkan_format(name) # UNDEFINED =>
        {j \in DOMAIN format_map : format_map[j][1] = name} # {}
  BY DEF to_vulkan_format
<1> QED
  BY <1>1, <1>2, <1>3

\* The tables agree about every format a driver lists: its layout, and the way from
\* one name to the other and back; no format is listed twice, and all of them fit
\* (format_table of core/format.hpp, format_map of device/vulkan/formats.cpp, and
\* the array of enc_capabilities).
THEOREM FormatsAreDescribed == Spec => []FormatsDescribed
<1> DEFINE Known(d) == {f \in d.formats : to_enc_format(f) # UNDEFINED}
<1>1. ASSUME NEW d \in Drivers, NEW f \in Known(d)
      PROVE  /\ LayoutOf(to_enc_format(f)) = Native[f]
             /\ to_vulkan_format(to_enc_format(f)) = f
  <2>1. PICK i \in Lines : f = format_map[i][2]
    BY FoundOnALine
  <2>2. to_enc_format(f) = format_map[i][1]
    BY <2>1, LineIsFound
  <2> QED
    BY <2>1, <2>2, LineIsFound, LineLayouts DEF LayoutOf
<1>2. ASSUME NEW format \in DOMAIN format_table, to_vulkan_format(format) # UNDEFINED
      PROVE  to_enc_format(to_vulkan_format(format)) = format
  <2>1. PICK i \in Lines : format = format_map[i][1]
    BY <1>2, FoundOnALine
  <2> QED
    BY <2>1, LineIsFound
<1>3. ASSUME NEW d \in Drivers
      PROVE  /\ IsFiniteSet(Known(d))
             /\ Cardinality(Known(d)) <= 15
  <2>1. IsFiniteSet(Lines) /\ Cardinality(Lines) = 15
    <3>1. 1 \in Int /\ 15 \in Int /\ ~(1 > 15) /\ 15 - 1 + 1 = 15
      OBVIOUS
    <3> QED
      BY <3>1, FS_Interval DEF Lines
  <2> DEFINE row == [i \in Lines |-> format_map[i][2]]
             Rows == {format_map[i][2] : i \in Lines}
  <2>2. row \in Surjection(Lines, Rows)
    BY DEF Surjection
  <2>3. IsFiniteSet(Rows) /\ Cardinality(Rows) <= 15
    <3> HIDE DEF row, Rows
    <3> QED
      BY <2>1, <2>2, FS_Surjection
  <2>4. Known(d) \subseteq Rows
    BY FoundOnALine
  <2>5. /\ IsFiniteSet(Known(d)) /\ Cardinality(Known(d)) <= Cardinality(Rows)
        /\ Cardinality(Known(d)) \in Nat /\ Cardinality(Rows) \in Nat
    <3> HIDE DEF Known, Rows
    <3> QED
      BY <2>3, <2>4, FS_Subset, FS_CardinalityType
  <2> HIDE DEF Known, Rows
  <2> QED
    BY <2>3, <2>5
<1>4. ASSUME NEW d \in Drivers
      PROVE  Cardinality(Inputs(d)) = Cardinality(Known(d))
  <2> DEFINE name == [f \in Known(d) |-> to_enc_format(f)]
  <2>1. Inputs(d) = {to_enc_format(f) : f \in Known(d)}
    BY DEF Inputs
  <2>2. name \in Surjection(Known(d), Inputs(d))
    BY <2>1 DEF Surjection
  <2>3. \A f, g \in Known(d) : name[f] = name[g] => f = g
    BY <1>1
  <2>4. name \in Injection(Known(d), Inputs(d))
    <3>1. name \in [Known(d) -> Inputs(d)] /\ DOMAIN name = Known(d)
      BY <2>1
    <3> HIDE DEF name, Known
    <3> QED
      BY <2>3, <3>1 DEF Injection, IsInjective
  <2> HIDE DEF name, Known
  <2> QED
    BY <1>3, <2>2, <2>4, FS_Surjection
<1> HIDE DEF Known
<1>5. IInv => FormatsDescribed
  <2>1. SUFFICES ASSUME IInv, Answered
                 PROVE  /\ \A f \in Known(driver) : /\ LayoutOf(to_enc_format(f)) = Native[f]
                                                   /\ to_vulkan_format(to_enc_format(f)) = f
                        /\ \A format \in DOMAIN format_table : to_vulkan_format(format) # UNDEFINED =>
                              to_enc_format(to_vulkan_format(format)) = format
                        /\ Cardinality(answer.input_formats) = Cardinality(Known(driver))
                        /\ Cardinality(Known(driver)) <= MaxInputs
    BY DEF FormatsDescribed, Known
  <2>2. driver \in Drivers /\ answer.input_formats = Inputs(driver)
    BY <2>1, AnsweredIs DEF Capabilities
  <2>3. Cardinality(Known(driver)) <= MaxInputs
    <3>1. Cardinality(Known(driver)) \in Nat /\ Cardinality(Known(driver)) <= 15
      BY <1>3, <2>2, FS_CardinalityType
    <3> QED
      BY <3>1 DEF MaxInputs
  <2> QED
    BY <1>1, <1>2, <1>4, <2>2, <2>3
<1> QED
  BY AnswerInvariant, <1>5, PTL
=============================================================================
