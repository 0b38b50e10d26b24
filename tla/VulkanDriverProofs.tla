------------------------- MODULE VulkanDriverProofs -------------------------
(***************************************************************************)
(* Proofs about VulkanDriver, for any machine, any list of candidates, any *)
(* number of rounds of the extension loop and any faults.  The inductive   *)
(* invariant has two halves: what each phase of make_driver has made and   *)
(* not yet destroyed, and how far the listing of the devices has come.     *)
(***************************************************************************)
EXTENDS VulkanDriver, WellFoundedInduction, TLAPS

\* What there is to destroy in each phase.
Lifetimes ==
    /\ phase \in {"library", "symbols", "create"} => vk_instance = "none"
    /\ phase \in {"symbols", "create", "count", "inspect", "families", "undefined", "ready"}
          => library = "open"
    /\ phase = "destroy" /\ vk_instance = "live" => library = "open"
    /\ phase \in {"members", "gone"} /\ vk_instance = "live" => ~destroyable
    /\ phase = "gone" => library = "closed"

\* Before the devices are counted nothing is known of them; afterwards, nothing
\* is left to inspect.
Bounds ==
    /\ phase \in {"library", "symbols", "create", "count"} =>
          /\ handles = <<>> /\ physical_devices = <<>>
          /\ extensions = {} /\ attempt = 0 /\ ~sized
    /\ phase = "families" => handles # <<>> /\ Head(handles) # Null
    /\ phase = "ready" => handles = <<>>

\* The handles go up to the first null one, and above those already listed.
Ascending ==
    /\ \A i, j \in DOMAIN handles :
          i < j /\ handles[j] # Null => handles[i] # Null /\ handles[i] < handles[j]
    /\ \A i \in DOMAIN physical_devices, j \in DOMAIN handles :
          handles[j] # Null => physical_devices[i].handle < handles[j]
    /\ \A i, j \in DOMAIN physical_devices :
          i < j => physical_devices[i].handle < physical_devices[j].handle

\* The extensions read are the device's, and all of them unless a call failed or
\* the rounds are used up.
Reading ==
    /\ phase \in {"inspect", "families"} /\ handles # <<>> /\ Head(handles) # Null =>
          extensions \subseteq Inspected.extensions
    /\ phase = "families" =>
          \/ extensions = Inspected.extensions
          \/ extensions = {} /\ faults > 0
          \/ attempt = MaxAttempts /\ Head(handles) \in spent

\* A listed device encodes, in the family it is listed with, what it is listed with.
Encodes(r) ==
    /\ r.handle \in DOMAIN system
    /\ r.encode_codecs # {}
    /\ r.encode_codecs \subseteq TrueCodecs(system[r.handle])
    /\ r.encode_family # Null
    /\ system[r.handle].families[r.encode_family].encode

Listed == \A i \in DOMAIN physical_devices : Encodes(physical_devices[i])

\* Without a fault no device that encodes has been passed over.
Complete ==
    phase \in {"inspect", "families", "ready"} /\ faults = 0 =>
        \A h \in DOMAIN system : TrueCodecs(system[h]) # {} =>
            \/ h \in spent
            \/ \E i \in DOMAIN physical_devices : physical_devices[i].handle = h
            \/ \E i \in DOMAIN handles : handles[i] = h

IInv == TypeOK /\ Lifetimes /\ Bounds /\ Ascending /\ Reading /\ Listed /\ Complete

-----------------------------------------------------------------------------
(* The operators of inspect *)

LEMMA LeastElement ==
    ASSUME NEW S \in SUBSET Nat, S # {}
    PROVE  \E n \in S : \A m \in S : n <= m
  <1> DEFINE R == OpToRel(<, Nat)
  <1>1. \E n \in S : \A m \in S : ~(<<m, n>> \in R)
    <2>1. IsWellFoundedOn(R, Nat)
      BY NatLessThanWellFounded
    <2> HIDE DEF R
    <2>2. QED BY <2>1, WFMin
  <1>2. \A m, n \in Nat : m < n => <<m, n>> \in R
    BY DEF OpToRel
  <1> HIDE DEF R
  <1>3. PICK n \in S : \A m \in S : ~(<<m, n>> \in R)
    BY <1>1
  <1>4. ASSUME NEW m \in S PROVE n <= m
    <2>1. ~(m < n)
      BY <1>2, <1>3
    <2>2. QED BY <2>1
  <1>5. QED BY <1>4

\* The first of a set of families is one of them, or there is none.
LEMMA FirstChosen ==
    ASSUME NEW indices \in SUBSET Nat
    PROVE  /\ First(indices) \in Nat \cup {Null}
           /\ indices # {} => First(indices) \in indices
  <1>1. CASE indices = {}
    BY <1>1 DEF First
  <1>2. CASE indices # {}
    <2>1. \E i \in indices : \A j \in indices : i <= j
      BY <1>2, LeastElement
    <2>2. First(indices) \in indices
      BY <1>2, <2>1 DEF First
    <2>3. QED BY <2>2
  <1>3. QED BY <1>1, <1>2

\* The machine's devices are what Systems says of them.
LEMMA SystemTypes ==
    ASSUME system \in Systems
    PROVE  /\ system \in Seq(Hardware) /\ system # <<>>
           /\ Len(system) \in Nat \ {0} /\ DOMAIN system = 1 .. Len(system)
           /\ \A h \in DOMAIN system :
                 /\ system[h].extensions \subseteq Extensions
                 /\ system[h].families \in Seq(Families)
  <1>1. system \in Seq(Hardware) /\ system # <<>>
    BY DriverAssumption
  <1>2. Len(system) \in Nat \ {0} /\ DOMAIN system = 1 .. Len(system)
    BY <1>1
  <1>3. \A h \in DOMAIN system : system[h] \in Hardware
    BY <1>1
  <1>4. QED BY <1>1, <1>2, <1>3 DEF Hardware

\* A device recorded with a part of its extensions encodes what its record says;
\* recorded with all of them, it is recorded with all it encodes.
LEMMA RecordTypes ==
    ASSUME system \in Systems, NEW h \in DOMAIN system,
           NEW seen \in SUBSET system[h].extensions
    PROVE  /\ Record(h, seen) \in Records
           /\ Record(h, seen).handle = h
           /\ Record(h, seen).encode_codecs # {} => Encodes(Record(h, seen))
           /\ seen = system[h].extensions =>
                 Record(h, seen).encode_codecs = TrueCodecs(system[h])
  <1> DEFINE d == system[h]
             encoders == Encoders(d, seen)
             computing == {i \in DOMAIN d.families : d.families[i].compute}
  <1>1. /\ d.extensions \subseteq Extensions /\ d.families \in Seq(Families)
        /\ h \in Nat
    BY SystemTypes
  <1>2. /\ DOMAIN d.families \subseteq Nat
        /\ \A i \in DOMAIN d.families : d.families[i].operations \subseteq Codecs
    <2>1. \A i \in DOMAIN d.families : i \in Nat /\ d.families[i] \in Families
      BY <1>1
    <2>2. QED BY <2>1 DEF Families
  <1>3. encoders \in SUBSET Nat /\ computing \in SUBSET Nat
    BY <1>2 DEF Encoders
  <1>4. /\ Record(h, seen).handle = h
        /\ Record(h, seen).encode_codecs = EncodeCodecs(d, seen)
        /\ Record(h, seen).encode_family = First(encoders)
        /\ Record(h, seen).compute_family = First(computing)
    BY DEF Record
  <1>5. EncodeCodecs(d, seen) \subseteq TrueCodecs(d)
    BY <1>2 DEF EncodeCodecs, Encoders, TrueCodecs
  <1>6. seen = d.extensions => TrueCodecs(d) \subseteq EncodeCodecs(d, seen)
    BY DEF EncodeCodecs, Encoders, TrueCodecs
  <1>7. Record(h, seen) \in Records
    <2>1. EncodeCodecs(d, seen) \in SUBSET Codecs
      BY <1>5 DEF TrueCodecs
    <2>2. First(encoders) \in Nat \cup {Null} /\ First(computing) \in Nat \cup {Null}
      BY <1>3, FirstChosen
    <2>3. QED BY <1>1, <2>1, <2>2 DEF Record, Records
  <1>8. ASSUME EncodeCodecs(d, seen) # {} PROVE Encodes(Record(h, seen))
    <2>1. encoders # {}
      BY <1>8 DEF EncodeCodecs
    <2>2. First(encoders) \in encoders
      BY <1>3, <2>1, FirstChosen
    <2>3. First(encoders) # Null
      BY <1>3, <2>2, DriverAssumption
    <2>4. d.families[First(encoders)].encode
      BY <2>2 DEF Encoders
    <2>5. QED BY <1>4, <1>5, <1>8, <2>3, <2>4 DEF Encodes
  <1>9. QED BY <1>4, <1>5, <1>6, <1>7, <1>8

-----------------------------------------------------------------------------
(* The invariant holds at first and is kept, part by part *)

LEMMA InitIInv == Init => IInv
  <1> SUFFICES ASSUME Init PROVE IInv
    OBVIOUS
  <1>1. /\ Candidates \in Seq(STRING) /\ Candidates # <<>> /\ MaxAttempts \in Nat
        /\ MaxFaults \in Nat
    BY DriverAssumption
  <1>2. TypeOK
    <2>1. 1 \in 1 .. Len(Candidates) + 1 /\ 0 \in 0 .. MaxAttempts /\ 0 \in 0 .. MaxFaults
      BY <1>1
    <2>2. \A S : <<>> \in Seq(S)
      OBVIOUS
    <2>3. QED BY <2>1, <2>2 DEF Init, TypeOK
  <1>3. Lifetimes /\ Bounds
    BY DEF Init, Lifetimes, Bounds
  <1>4. Ascending /\ Reading /\ Listed /\ Complete
    BY DEF Init, Ascending, Reading, Listed, Complete
  <1>5. QED BY <1>2, <1>3, <1>4 DEF IInv

\* What every part of the proof may use.
LEMMA Known ==
    ASSUME IInv
    PROVE  /\ TypeOK /\ Lifetimes /\ Bounds /\ Ascending /\ Reading /\ Listed /\ Complete
           /\ system \in Systems /\ handles \in Seq((DOMAIN system) \cup {Null})
           /\ Null \notin Nat
           /\ handles # <<>> =>
                 /\ Len(handles) \in Nat \ {0} /\ Head(handles) = handles[1]
                 /\ Head(handles) \in (DOMAIN system) \cup {Null}
           /\ handles # <<>> /\ Head(handles) # Null => Head(handles) \in DOMAIN system
  <1>1. /\ TypeOK /\ Lifetimes /\ Bounds /\ Ascending /\ Reading /\ Listed /\ Complete
        /\ system \in Systems /\ handles \in Seq((DOMAIN system) \cup {Null})
        /\ Null \notin Nat
    BY DriverAssumption DEF IInv, TypeOK
  <1>2. ASSUME handles # <<>>
        PROVE  /\ Len(handles) \in Nat \ {0} /\ Head(handles) = handles[1]
               /\ Head(handles) \in (DOMAIN system) \cup {Null}
    BY <1>1, <1>2
  <1>3. QED BY <1>1, <1>2

\* The phases and what there is to destroy, in every step.
LEMMA NextLifetimes == IInv /\ [Next]_vars => Lifetimes'
  <1> SUFFICES ASSUME IInv, [Next]_vars PROVE Lifetimes'
    OBVIOUS
  <1>0. Lifetimes /\ Bounds
    BY Known
  <1>1. CASE Load
    BY <1>0, <1>1 DEF Load, OpenLibrary, NoLibrary, LoadLoader, NoInstance, CreateInstance,
                      Fails, loading, Lifetimes
  <1>2. CASE Enumerate
    BY <1>0, <1>2 DEF Enumerate, NoDevices, ListHandles, InspectNull, EnumerateEnds,
                      Fails, loading, Lifetimes
  <1>3. CASE Inspect
    BY <1>0, <1>3 DEF Inspect, SizeExtensions, ExtensionsFail, ExtensionsGrew, ExtensionsRead,
                      AttemptsSpent, InspectFamilies, Inspecting, ReadFamilies,
                      loading, Lifetimes
  <1>4. CASE Delete
    BY <1>0, <1>4 DEF Delete, loading, Lifetimes
  <1>5. CASE Destroy
    BY <1>0, <1>5 DEF Destroy, DestroyInstance, CloseLibrary, loading, Lifetimes
  <1>6. CASE UNCHANGED vars
    BY <1>0, <1>6 DEF vars, loading, Lifetimes
  <1>7. QED BY <1>1, <1>2, <1>3, <1>4, <1>5, <1>6 DEF Next, Initialise

LEMMA FaultTypes ==
    ASSUME TypeOK, Fault
    PROVE  faults' \in 0 .. MaxFaults /\ faults' > 0 /\ system' = system
  BY DriverAssumption DEF TypeOK, Fault

\* The steps that load the library and make the VkInstance know of no device.
LEMMA LoadKeeps == IInv /\ Load => IInv'
  <1> SUFFICES ASSUME IInv, Load PROVE IInv'
    OBVIOUS
  <1>0. /\ TypeOK /\ Lifetimes' /\ Listed
        /\ phase \in {"library", "symbols", "create"}
        /\ handles = <<>> /\ physical_devices = <<>>
        /\ extensions = {} /\ attempt = 0 /\ ~sized
    BY Known, NextLifetimes DEF Next, Initialise, Load, Bounds, OpenLibrary, NoLibrary,
                                LoadLoader, NoInstance, CreateInstance
  <1>1. /\ UNCHANGED <<handles, physical_devices, attempt, sized, extensions, spent, system>>
        /\ phase' \in {"library", "symbols", "create", "count", "destroy"}
        /\ faults' \in 0 .. MaxFaults
    BY <1>0, FaultTypes DEF Load, OpenLibrary, NoLibrary, LoadLoader, NoInstance,
            CreateInstance, Fails, inspecting, external, TypeOK
  <1>2. TypeOK'
    <2>1. /\ candidate' \in 1 .. Len(Candidates) + 1
          /\ library' \in {"open", "closed"}
      <3>1. CASE OpenLibrary
        <4>1. Len(Candidates) \in Nat /\ DOMAIN Candidates = 1 .. Len(Candidates)
          BY DriverAssumption
        <4>2. QED BY <1>0, <3>1, <4>1 DEF OpenLibrary, TypeOK
      <3>2. CASE ~OpenLibrary
        BY <1>0, <3>2 DEF Load, NoLibrary, LoadLoader, NoInstance, CreateInstance,
                          loading, TypeOK
      <3>3. QED BY <3>1, <3>2
    <2>2. /\ vk_instance' \in {"none", "live", "destroyed"}
          /\ destroyable' \in BOOLEAN
          /\ code' \in {"none", "SUCCESS", "INITIALIZATION_FAILED", "UNSUPPORTED", "NO_DEVICE"}
      BY <1>0 DEF Load, OpenLibrary, NoLibrary, LoadLoader, NoInstance, CreateInstance,
              Fails, loading, TypeOK
    <2>3. QED BY <1>0, <1>1, <2>1, <2>2 DEF TypeOK
  <1>3. Bounds' /\ Ascending' /\ Reading' /\ Listed' /\ Complete'
    BY <1>0, <1>1 DEF Bounds, Ascending, Reading, Listed, Complete
  <1>4. QED BY <1>0, <1>2, <1>3 DEF IInv

\* The handles vector, when the second call has filled so many of it.
FilledUpTo(n) == [i \in DOMAIN system |-> IF i <= n THEN i ELSE Null]

\* The devices are counted and listed, up to a null handle or all of them.
LEMMA EnumerateKeeps == IInv /\ Enumerate => IInv'
  <1> SUFFICES ASSUME IInv, Enumerate PROVE IInv'
    OBVIOUS
  <1>0. TypeOK /\ Lifetimes' /\ Bounds /\ Ascending /\ Reading /\ Listed /\ Complete
    BY Known, NextLifetimes DEF Next, Initialise
  <1>1. /\ UNCHANGED <<loading, inspecting, physical_devices>>
        /\ UNCHANGED <<candidate, library, vk_instance, destroyable>>
        /\ UNCHANGED <<attempt, sized, extensions, spent>>
        /\ system' = system
    BY <1>0, FaultTypes DEF Enumerate, NoDevices, ListHandles, InspectNull, EnumerateEnds,
           loading, inspecting, external
  <1>2. CASE NoDevices \/ InspectNull \/ EnumerateEnds
    <2>1. /\ handles' = handles /\ faults' \in 0 .. MaxFaults
          /\ phase' \in {"destroy", "undefined", "ready"}
          /\ phase' = "ready" => handles = <<>> /\ faults' = faults /\ phase = "inspect"
          /\ code' \in {"none", "SUCCESS", "INITIALIZATION_FAILED", "UNSUPPORTED", "NO_DEVICE"}
      BY <1>0, <1>2, FaultTypes DEF NoDevices, InspectNull, EnumerateEnds, Fails, external, TypeOK
    <2>2. TypeOK'
      BY <1>0, <1>1, <2>1 DEF TypeOK
    <2>3. Bounds' /\ Ascending' /\ Reading' /\ Listed'
      BY <1>0, <1>1, <2>1 DEF Bounds, Ascending, Reading, Listed, Encodes
    <2>4. Complete'
      BY <1>0, <1>1, <2>1 DEF Complete
    <2>5. QED BY <1>0, <2>2, <2>3, <2>4 DEF IInv
  <1>3. CASE ListHandles
    <2>0. /\ phase = "count" /\ phase' = "inspect" /\ code' = code
          /\ handles = <<>> /\ physical_devices = <<>> /\ extensions = {} /\ ~sized /\ attempt = 0
      BY <1>0, <1>3 DEF ListHandles, Bounds
    <2>1. /\ system \in Seq(Hardware) /\ Len(system) \in Nat \ {0}
          /\ DOMAIN system = 1 .. Len(system)
      BY SystemTypes, <1>0 DEF TypeOK
    <2>2. PICK filled \in 0 .. Len(system) :
             /\ handles' = FilledUpTo(filled)
             /\ filled = Len(system) \/ faults' > 0
             /\ faults' \in 0 .. MaxFaults
      <3>1. CASE handles' = [i \in DOMAIN system |-> i] /\ UNCHANGED external
        <4>1. handles' = FilledUpTo(Len(system))
          BY <2>1, <3>1 DEF FilledUpTo
        <4>2. faults' \in 0 .. MaxFaults
          BY <1>0, <3>1 DEF external, TypeOK
        <4>3. Len(system) \in 0 .. Len(system)
          BY <2>1
        <4>4. QED BY <4>1, <4>2, <4>3
      <3>2. CASE Fault /\ \E f \in 0 .. Len(system) - 1 :
                handles' = [i \in DOMAIN system |-> IF i <= f THEN i ELSE Null]
        <4>1. PICK f \in 0 .. Len(system) - 1 : handles' = FilledUpTo(f)
          BY <3>2 DEF FilledUpTo
        <4>2. f \in 0 .. Len(system)
          BY <2>1
        <4>3. QED BY <1>0, <3>2, <4>1, <4>2, FaultTypes
      <3>3. QED BY <1>3, <3>1, <3>2 DEF ListHandles
    <2>3. /\ handles' \in Seq((DOMAIN system) \cup {Null})
          /\ DOMAIN handles' = 1 .. Len(system)
          /\ \A i \in 1 .. Len(system) : handles'[i] = IF i <= filled THEN i ELSE Null
      <3>1. handles' \in [1 .. Len(system) -> (DOMAIN system) \cup {Null}]
        BY <2>1, <2>2 DEF FilledUpTo
      <3>2. handles' \in Seq((DOMAIN system) \cup {Null})
        BY <2>1, <3>1
      <3>3. QED BY <2>1, <2>2, <3>1, <3>2 DEF FilledUpTo
    <2>4. TypeOK'
      BY <1>0, <1>1, <2>0, <2>2, <2>3 DEF TypeOK
    <2>5. Bounds' /\ Reading' /\ Listed'
      BY <1>1, <2>0 DEF Bounds, Reading, Listed
    <2>6. Ascending'
      <3>1. ASSUME NEW i \in 1 .. Len(system), NEW j \in 1 .. Len(system),
                   i < j, handles'[j] # Null
            PROVE  handles'[i] # Null /\ handles'[i] < handles'[j]
        <4>1. i \in Nat /\ j \in Nat /\ filled \in Nat /\ Null \notin Nat
          BY <2>1, DriverAssumption
        <4>2. handles'[j] = j /\ j <= filled
          BY <2>3, <3>1
        <4>3. handles'[i] = i
          BY <2>3, <3>1, <4>1, <4>2
        <4>4. QED BY <3>1, <4>1, <4>2, <4>3
      <3>2. DOMAIN physical_devices' = {}
        BY <1>1, <2>0
      <3>3. QED BY <2>3, <3>1, <3>2 DEF Ascending
    <2>7. Complete'
      BY <1>1, <2>0, <2>1, <2>2, <2>3 DEF Complete
    <2>8. QED BY <1>0, <2>4, <2>5, <2>6, <2>7 DEF IInv
  <1>4. QED BY <1>2, <1>3 DEF Enumerate

\* The loop over the extensions of the device at the head of the list.
LEMMA ExtensionsKeep ==
    ASSUME IInv,
           \/ SizeExtensions \/ ExtensionsFail \/ ExtensionsGrew \/ ExtensionsRead
           \/ AttemptsSpent
    PROVE  IInv'
  <1>0. TypeOK /\ Lifetimes' /\ Bounds /\ Ascending /\ Reading /\ Listed /\ Complete
    BY Known, NextLifetimes DEF Next, Initialise, Inspect
  <1>1. /\ UNCHANGED <<candidate, library, vk_instance, destroyable>>
        /\ UNCHANGED <<handles, physical_devices, code, system>>
        /\ phase = "inspect" /\ handles # <<>> /\ Head(handles) # Null
        /\ phase' \in {"inspect", "families"}
    BY <1>0, FaultTypes DEF SizeExtensions, ExtensionsFail, ExtensionsGrew, ExtensionsRead,
           AttemptsSpent, Inspecting, ReadFamilies, loading, external
  <1>2. Head(handles) \in DOMAIN system /\ Inspected.extensions \subseteq Extensions
    BY <1>0, <1>1, Known, SystemTypes DEF Inspected
  <1>3. /\ faults' \in 0 .. MaxFaults /\ faults' >= faults
        /\ attempt' \in 0 .. MaxAttempts /\ sized' \in BOOLEAN
        /\ extensions' \subseteq Inspected.extensions
        /\ spent' \subseteq DOMAIN system /\ spent \subseteq spent'
        /\ phase' = "families" =>
              \/ extensions' = Inspected.extensions
              \/ extensions' = {} /\ faults' > 0
              \/ attempt' = MaxAttempts /\ Head(handles) \in spent'
    <2>0. /\ faults \in 0 .. MaxFaults /\ attempt \in 0 .. MaxAttempts /\ sized \in BOOLEAN
          /\ extensions \subseteq Inspected.extensions /\ spent \subseteq DOMAIN system
          /\ MaxAttempts \in Nat /\ MaxFaults \in Nat
      BY <1>0, <1>1, DriverAssumption DEF TypeOK, Reading
    <2>1. CASE SizeExtensions
      BY <1>1, <2>0, <2>1 DEF SizeExtensions, external
    <2>2. CASE ExtensionsFail
      BY <1>0, <2>0, <2>2, FaultTypes DEF ExtensionsFail, Fault
    <2>3. CASE ExtensionsGrew
      <3>1. /\ attempt < MaxAttempts /\ attempt' = attempt + 1 /\ sized' = FALSE
            /\ extensions' \subseteq Inspected.extensions
            /\ spent' = spent /\ faults' = faults /\ phase' = "inspect"
        BY <1>1, <2>3 DEF ExtensionsGrew, Inspecting, external
      <3>2. attempt + 1 \in 0 .. MaxAttempts /\ faults >= faults
        BY <2>0, <3>1
      <3>3. QED BY <2>0, <3>1, <3>2
    <2>4. CASE ExtensionsRead
      BY <2>0, <2>4 DEF ExtensionsRead, external
    <2>5. CASE AttemptsSpent
      BY <1>2, <2>0, <2>5 DEF AttemptsSpent, Inspecting, external
    <2>6. QED BY <2>1, <2>2, <2>3, <2>4, <2>5
  <1>4. TypeOK'
    BY <1>0, <1>1, <1>2, <1>3 DEF TypeOK
  <1>5. Bounds' /\ Ascending' /\ Listed'
    BY <1>0, <1>1 DEF Bounds, Ascending, Listed, Encodes
  <1>6. Reading'
    BY <1>1, <1>3 DEF Reading, Inspected
  <1>7. Complete'
    <2>1. faults' = 0 => faults = 0
      BY <1>0, <1>3 DEF TypeOK
    <2>2. QED BY <1>0, <1>1, <1>3, <2>1 DEF Complete
  <1>8. QED BY <1>0, <1>4, <1>5, <1>6, <1>7 DEF IInv

\* The head of the list is done with, and recorded if it encodes.
LEMMA InspectKeeps == IInv /\ InspectFamilies => IInv'
  <1> SUFFICES ASSUME IInv, InspectFamilies PROVE IInv'
    OBVIOUS
  <1> DEFINE h == Head(handles)
             record == Record(h, extensions)
             rest == Tail(handles)
             more == Append(physical_devices, record)
  <1>0. TypeOK /\ Lifetimes' /\ Bounds /\ Ascending /\ Reading /\ Listed /\ Complete
    BY Known, NextLifetimes DEF Next, Initialise, Inspect
  <1>1. /\ UNCHANGED <<candidate, library, vk_instance, destroyable>>
        /\ UNCHANGED <<code, system, faults, spent>>
        /\ phase = "families" /\ phase' = "inspect"
        /\ attempt' = 0 /\ sized' = FALSE /\ extensions' = {}
        /\ handles' = rest
        /\ \/ physical_devices' = physical_devices /\ record.encode_codecs = {}
           \/ physical_devices' = more /\ record.encode_codecs # {}
    BY DEF InspectFamilies, loading, external
  <1>2. /\ handles # <<>> /\ h # Null /\ h \in DOMAIN system /\ h = handles[1]
        /\ extensions \subseteq system[h].extensions
        /\ \/ extensions = system[h].extensions
           \/ faults > 0
           \/ h \in spent
    BY <1>0, <1>1, Known DEF Bounds, Reading, Inspected
  <1>3. /\ record \in Records /\ record.handle = h
        /\ record.encode_codecs # {} => Encodes(record)
        /\ extensions = system[h].extensions => record.encode_codecs = TrueCodecs(system[h])
    BY <1>0, <1>2, RecordTypes DEF TypeOK
  <1>4. /\ Len(handles) \in Nat \ {0} /\ DOMAIN handles = 1 .. Len(handles)
        /\ rest \in Seq((DOMAIN system) \cup {Null})
        /\ DOMAIN rest = 1 .. Len(handles) - 1
        /\ \A i \in DOMAIN rest : rest[i] = handles[i + 1] /\ i + 1 \in DOMAIN handles
    BY <1>0, <1>2 DEF TypeOK
  <1>5. /\ physical_devices \in Seq(Records) /\ Len(physical_devices) \in Nat
        /\ DOMAIN physical_devices = 1 .. Len(physical_devices)
    BY <1>0 DEF TypeOK
  <1>6. /\ more \in Seq(Records)
        /\ DOMAIN more = 1 .. Len(physical_devices) + 1
        /\ \A i \in DOMAIN physical_devices : more[i] = physical_devices[i]
        /\ more[Len(physical_devices) + 1] = record
    BY <1>3, <1>5
  <1> HIDE DEF h, record, rest, more
  <1>7. TypeOK'
    <2>1. 0 \in 0 .. MaxAttempts
      BY DriverAssumption
    <2>2. QED BY <1>0, <1>1, <1>4, <1>6, <2>1 DEF TypeOK
  <1>8. Bounds' /\ Reading'
    BY <1>1 DEF Bounds, Reading
  <1>9. \A i \in DOMAIN physical_devices' :
           \/ i \in DOMAIN physical_devices /\ physical_devices'[i] = physical_devices[i]
           \/ /\ i = Len(physical_devices) + 1 /\ physical_devices'[i] = record
              /\ record.encode_codecs # {}
    BY <1>1, <1>5, <1>6
  <1>10. Listed'
    BY <1>0, <1>1, <1>3, <1>9 DEF Listed, Encodes
  <1>11. Ascending'
    <2>1. \A i, j \in DOMAIN rest :
             i < j /\ rest[j] # Null => rest[i] # Null /\ rest[i] < rest[j]
      <3>1. SUFFICES ASSUME NEW i \in DOMAIN rest, NEW j \in DOMAIN rest, i < j, rest[j] # Null
                     PROVE  rest[i] # Null /\ rest[i] < rest[j]
        OBVIOUS
      <3>2. i + 1 < j + 1
        BY <1>4, <3>1
      <3>3. QED BY <1>0, <1>4, <3>1, <3>2 DEF Ascending
    <2>2. \A j \in DOMAIN rest : rest[j] # Null => h < rest[j]
      <3>1. SUFFICES ASSUME NEW j \in DOMAIN rest, rest[j] # Null PROVE h < rest[j]
        OBVIOUS
      <3>2. 1 \in DOMAIN handles /\ j + 1 \in DOMAIN handles /\ 1 < j + 1
        BY <1>4
      <3>3. handles[1] < handles[j + 1]
        BY <1>0, <1>4, <3>1, <3>2 DEF Ascending
      <3>4. QED BY <1>2, <1>4, <3>3
    <2>3. \A i \in DOMAIN physical_devices : physical_devices[i].handle < h
      <3>1. 1 \in DOMAIN handles
        BY <1>4
      <3>2. QED BY <1>0, <1>2, <3>1 DEF Ascending
    <2>4. \A i \in DOMAIN physical_devices', j \in DOMAIN handles' :
             handles'[j] # Null => physical_devices'[i].handle < handles'[j]
      <3>1. SUFFICES ASSUME NEW i \in DOMAIN physical_devices', NEW j \in DOMAIN rest,
                            rest[j] # Null
                     PROVE  physical_devices'[i].handle < rest[j]
        BY <1>1
      <3>2. CASE i \in DOMAIN physical_devices /\ physical_devices'[i] = physical_devices[i]
        BY <1>0, <1>4, <3>1, <3>2 DEF Ascending
      <3>3. CASE physical_devices'[i] = record
        BY <1>3, <2>2, <3>1, <3>3
      <3>4. QED BY <1>9, <3>2, <3>3
    <2>5. \A i, j \in DOMAIN physical_devices' :
             i < j => physical_devices'[i].handle < physical_devices'[j].handle
      <3>1. SUFFICES ASSUME NEW i \in DOMAIN physical_devices',
                            NEW j \in DOMAIN physical_devices', i < j
                     PROVE  physical_devices'[i].handle < physical_devices'[j].handle
        OBVIOUS
      <3>2. i \in DOMAIN physical_devices /\ physical_devices'[i] = physical_devices[i]
        <4>1. i # Len(physical_devices) + 1
          BY <1>5, <1>9, <3>1
        <4>2. QED BY <1>9, <4>1
      <3>3. CASE j \in DOMAIN physical_devices /\ physical_devices'[j] = physical_devices[j]
        BY <1>0, <3>1, <3>2, <3>3 DEF Ascending
      <3>4. CASE physical_devices'[j] = record
        BY <1>3, <2>3, <3>2, <3>4
      <3>5. QED BY <1>9, <3>3, <3>4
    <2>6. QED BY <1>1, <2>1, <2>4, <2>5 DEF Ascending
  <1>12. Complete'
    <2>1. SUFFICES ASSUME faults = 0, NEW k \in DOMAIN system, TrueCodecs(system[k]) # {},
                          k \notin spent
                   PROVE  \/ \E i \in DOMAIN physical_devices' : physical_devices'[i].handle = k
                          \/ \E i \in DOMAIN handles' : handles'[i] = k
      BY <1>1 DEF Complete
    <2>2. \A i \in DOMAIN physical_devices :
             i \in DOMAIN physical_devices' /\ physical_devices'[i] = physical_devices[i]
      BY <1>1, <1>5, <1>6
    <2>3. CASE \E i \in DOMAIN physical_devices : physical_devices[i].handle = k
      BY <2>2, <2>3
    <2>4. CASE k = h
      <3>1. record.encode_codecs # {}
        BY <1>2, <1>3, <2>1, <2>4
      <3>2. physical_devices' = more /\ Len(physical_devices) + 1 \in DOMAIN more
        BY <1>1, <1>5, <1>6, <3>1
      <3>3. QED BY <1>3, <1>6, <2>4, <3>2
    <2>5. CASE k # h /\ \E i \in DOMAIN handles : handles[i] = k
      <3>1. PICK i \in DOMAIN handles : handles[i] = k
        BY <2>5
      <3>2. i - 1 \in DOMAIN rest /\ (i - 1) + 1 = i
        BY <1>2, <1>4, <2>5, <3>1
      <3>3. rest[i - 1] = k
        BY <1>4, <3>1, <3>2
      <3>4. QED BY <1>1, <3>2, <3>3
    <2>6. QED BY <1>0, <1>1, <2>1, <2>3, <2>4, <2>5 DEF Complete
  <1>13. QED BY <1>0, <1>7, <1>8, <1>10, <1>11, <1>12 DEF IInv

LEMMA NextIInv == IInv /\ [Next]_vars => IInv'
  <1> SUFFICES ASSUME IInv, [Next]_vars PROVE IInv'
    OBVIOUS
  <1>0. /\ TypeOK /\ Lifetimes' /\ Bounds /\ Ascending /\ Reading /\ Listed /\ Complete
    BY Known, NextLifetimes
  <1>1. CASE Load
    BY <1>1, LoadKeeps
  <1>2. CASE Enumerate
    BY <1>2, EnumerateKeeps
  <1>3. CASE Inspect
    BY <1>3, ExtensionsKeep, InspectKeeps DEF Inspect
  <1>4. CASE Delete \/ Destroy
    <2>1. /\ UNCHANGED <<handles, physical_devices, attempt, sized, extensions, spent>>
          /\ UNCHANGED <<system, faults, candidate, destroyable, code>>
          /\ phase' \in {"destroy", "members", "gone"}
          /\ vk_instance' \in {vk_instance, "destroyed"} /\ library' \in {library, "closed"}
      BY <1>4 DEF Delete, Destroy, DestroyInstance, CloseLibrary, loading, inspecting, external
    <2>2. TypeOK'
      BY <1>0, <2>1 DEF TypeOK
    <2>3. Bounds' /\ Ascending' /\ Reading' /\ Listed' /\ Complete'
      BY <1>0, <2>1 DEF Bounds, Ascending, Reading, Listed, Encodes, Complete
    <2>4. QED BY <1>0, <2>2, <2>3 DEF IInv
  <1>5. CASE UNCHANGED vars
    <2>1. /\ UNCHANGED <<handles, physical_devices, attempt, sized, extensions, spent>>
          /\ UNCHANGED <<system, faults, phase, candidate, library, vk_instance, destroyable, code>>
      BY <1>5 DEF vars, loading, inspecting, external
    <2>2. TypeOK'
      BY <1>0, <2>1 DEF TypeOK
    <2>3. Bounds' /\ Ascending' /\ Reading' /\ Listed' /\ Complete'
      BY <1>0, <2>1 DEF Bounds, Ascending, Reading, Listed, Encodes, Complete, Inspected
    <2>4. QED BY <1>0, <2>2, <2>3 DEF IInv
  <1>6. QED BY <1>1, <1>2, <1>3, <1>4, <1>5 DEF Next, Initialise

\* What each phase has made and how far the list has come, in every reachable state.
THEOREM DriverInvariant == Spec => []IInv
  BY InitIInv, NextIInv, PTL DEF Spec

-----------------------------------------------------------------------------
(* What follows from it *)

\* Types: no candidate past the end is tried, the rounds stay below their bound, and
\* what is listed is made of devices and families there are.
THEOREM DriverTypes == Spec => []TypeOK
  <1>1. IInv => TypeOK
    BY DEF IInv
  <1>2. QED BY <1>1, DriverInvariant, PTL

\* Wherever initialise fails, no call is made into a library that is closed: the
\* VkInstance goes first.
THEOREM LibraryGoesLast == Spec => []LibraryOutlivesInstance
  <1>1. IInv => LibraryOutlivesInstance
    BY DEF IInv, TypeOK, Lifetimes, LibraryOutlivesInstance
  <1>2. QED BY <1>1, DriverInvariant, PTL

\* A driver that is gone has cleaned up, whichever step of initialise failed.
THEOREM DriverCleansUp == Spec => []NothingLeftBehind
  <1>1. IInv => NothingLeftBehind
    BY DEF IInv, Lifetimes, NothingLeftBehind
  <1>2. QED BY <1>1, DriverInvariant, PTL

\* The list of devices is in the system's order without repetition, every device on
\* it encodes what it is listed with, and without faults only a device that used up
\* every round is missing from it.
THEOREM ListIsTrue == Spec => []ListedDevicesEncode
  <1>1. IInv => ListedDevicesEncode
    <2>1. SUFFICES ASSUME IInv PROVE ListedDevicesEncode
      OBVIOUS
    <2>2. Bounds /\ Ascending /\ Listed /\ Complete
      BY <2>1 DEF IInv
    <2>3. \A i, j \in DOMAIN physical_devices :
             i < j => physical_devices[i].handle < physical_devices[j].handle
      BY <2>2 DEF Ascending
    <2>4. \A i \in DOMAIN physical_devices :
             LET r == physical_devices[i]
                 d == system[r.handle]
             IN /\ r.encode_codecs # {}
                /\ r.encode_codecs \subseteq TrueCodecs(d)
                /\ r.encode_family # Null /\ d.families[r.encode_family].encode
      BY <2>2 DEF Listed, Encodes
    <2>5. ASSUME phase = "ready", faults = 0
          PROVE  {h \in DOMAIN system : TrueCodecs(system[h]) # {}} \ spent \subseteq
                     {physical_devices[i].handle : i \in DOMAIN physical_devices}
      <3>1. DOMAIN handles = {}
        BY <2>2, <2>5 DEF Bounds
      <3>2. QED BY <2>2, <2>5, <3>1 DEF Complete
    <2>6. QED BY <2>3, <2>4, <2>5 DEF ListedDevicesEncode
  <1>2. QED BY <1>1, DriverInvariant, PTL

\* A part of a device's extensions is never taken for all of them while a round is left.
THEOREM WholeListUnlessSpent == Spec => []PartialOnlyWhenSpent
  <1>1. IInv => PartialOnlyWhenSpent
    BY DEF IInv, Reading, PartialOnlyWhenSpent
  <1>2. QED BY <1>1, DriverInvariant, PTL
=============================================================================
