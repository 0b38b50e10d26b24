---------------------------- MODULE VulkanDriver ----------------------------
(***************************************************************************)
(* The Vulkan driver of an instance (device/vulkan/driver.cpp): make_driver *)
(* opens a loader library, creates a VkInstance, lists the physical devices *)
(* and inspects each, with a bounded retry where the list of a device's    *)
(* extensions changes under it.  A failure anywhere destroys what was made *)
(* so far, as deleting the driver does later.                              *)
(*                                                                         *)
(* The system is external: any of its calls may fail, and the calls that   *)
(* fill a list sized by an earlier call may find the list changed.         *)
(***************************************************************************)
EXTENDS Naturals, Sequences, FiniteSets

CONSTANTS
    Candidates,     \* library_candidates
    Systems,        \* what a machine may hold: a sequence of devices,
                    \* [extensions, families]
    Codecs,         \* the codecs of codec_mappings, which also name their extensions
    MaxAttempts,    \* rounds of the extension loop: 4
    MaxFaults,      \* bound: calls that fail or come up short
    Null            \* VK_NULL_HANDLE, no family

Extensions == {"video_queue", "encode_queue"} \cup Codecs
Families   == [compute : BOOLEAN, encode : BOOLEAN, operations : SUBSET Codecs]
Hardware   == [extensions : SUBSET Extensions, families : Seq(Families)]

ASSUME DriverAssumption ==
    /\ Candidates \in Seq(STRING) /\ Candidates # <<>>
    /\ Systems \subseteq Seq(Hardware)
    /\ \A s \in Systems : s # <<>>
    /\ MaxAttempts \in Nat \ {0}
    /\ MaxFaults \in Nat
    /\ Null \notin Nat

VARIABLES
    system,         \* the machine's devices
    faults,
    phase,
    candidate,      \* the library name to try next
    library,        \* the handle: "open" or "closed"
    vk_instance,    \* "none", "live", "destroyed"
    destroyable,    \* functions.vkDestroyInstance was found
    handles,        \* the handles vector: device numbers, or Null
    attempt,        \* rounds of the extension loop spent on the first of them
    sized,          \* extension_properties has been sized this round
    extensions,     \* extension_properties
    spent,          \* the devices that used up every round
    physical_devices,
    code            \* what make_driver returns, or "none"

external == <<system, faults>>
loading  == <<candidate, library, vk_instance, destroyable>>
inspecting == <<attempt, sized, extensions, spent>>
vars == <<external, phase, loading, handles, inspecting, physical_devices, code>>

Init ==
    /\ system \in Systems
    /\ faults = 0
    /\ phase = "library"
    /\ candidate = 1
    /\ library = "closed"
    /\ vk_instance = "none"
    /\ destroyable = FALSE
    /\ handles = <<>>
    /\ attempt = 0
    /\ sized = FALSE
    /\ extensions = {}
    /\ spent = {}
    /\ physical_devices = <<>>
    /\ code = "none"

\* A call to the system fails or comes up short.
Fault ==
    /\ faults < MaxFaults
    /\ faults' = faults + 1
    /\ UNCHANGED system

\* initialise returns an error: make_driver drops the driver.
Fails(error) ==
    /\ phase' = "destroy"
    /\ code' = error

-----------------------------------------------------------------------------
(* load_library, create_instance *)

\* A bug: one name past the end is tried.
OpenLibraryPastEnd ==
    /\ phase = "library"
    /\ candidate <= Len(Candidates) + 1
    /\ \/ library' = "open" /\ phase' = "symbols" /\ UNCHANGED <<candidate, external>>
       \/ Fault /\ candidate' = candidate + 1 /\ UNCHANGED <<library, phase>>
    /\ UNCHANGED <<vk_instance, destroyable, handles, inspecting, physical_devices, code>>

\* dlopen of the next candidate.
OpenLibrary ==
    /\ phase = "library"
    /\ candidate \in DOMAIN Candidates
    /\ \/ library' = "open" /\ phase' = "symbols" /\ UNCHANGED <<candidate, external>>
       \/ Fault /\ candidate' = candidate + 1 /\ UNCHANGED <<library, phase>>
    /\ UNCHANGED <<vk_instance, destroyable, handles, inspecting, physical_devices, code>>

NoLibrary ==
    /\ phase = "library"
    /\ candidate \notin DOMAIN Candidates
    /\ Fails("INITIALIZATION_FAILED")
    /\ UNCHANGED <<external, loading, handles, inspecting, physical_devices>>

\* vkGetInstanceProcAddr and vkCreateInstance; either may be missing.
LoadLoader ==
    /\ phase = "symbols"
    /\ \/ phase' = "create" /\ UNCHANGED <<external, code>>
       \/ Fault /\ Fails("INITIALIZATION_FAILED")
    /\ UNCHANGED <<loading, handles, inspecting, physical_devices>>

\* A loader older than 1.3, or vkCreateInstance fails: no instance.
NoInstance ==
    /\ phase = "create"
    /\ Fault
    /\ \E error \in {"UNSUPPORTED", "INITIALIZATION_FAILED"} : Fails(error)
    /\ UNCHANGED <<loading, handles, inspecting, physical_devices>>

\* vkCreateInstance succeeds, and its functions are looked up: all found, or
\* some missing, vkDestroyInstance maybe among them.
CreateInstance ==
    /\ phase = "create"
    /\ vk_instance' = "live"
    /\ \/ destroyable' = TRUE /\ phase' = "count" /\ UNCHANGED <<external, code>>
       \/ destroyable' \in BOOLEAN /\ Fault /\ Fails("INITIALIZATION_FAILED")
    /\ UNCHANGED <<candidate, library, handles, inspecting, physical_devices>>

-----------------------------------------------------------------------------
(* enumerate *)

\* The first vkEnumeratePhysicalDevices fails, or counts none.
NoDevices ==
    /\ phase = "count"
    /\ Fault
    /\ Fails("NO_DEVICE")
    /\ UNCHANGED <<loading, handles, inspecting, physical_devices>>

\* It counts the devices, and the second call fills the vector.  Its status is
\* not looked at: handles it did not fill stay null.
ListHandles ==
    /\ phase = "count"
    /\ \/ handles' = [i \in DOMAIN system |-> i] /\ UNCHANGED external
       \/ /\ Fault
          /\ \E filled \in 0 .. Len(system) - 1 :
                handles' = [i \in DOMAIN system |-> IF i <= filled THEN i ELSE Null]
    /\ phase' = "inspect"
    /\ UNCHANGED <<loading, inspecting, physical_devices, code>>

\* vkGetPhysicalDeviceProperties2 of a null handle: the rest is undefined.
InspectNull ==
    /\ phase = "inspect"
    /\ handles # <<>> /\ Head(handles) = Null
    /\ phase' = "undefined"
    /\ UNCHANGED <<external, loading, handles, inspecting, physical_devices, code>>

-----------------------------------------------------------------------------
(* inspect *)

Inspected == system[Head(handles)]

Inspecting(step) ==
    /\ phase = "inspect"
    /\ handles # <<>> /\ Head(handles) # Null
    /\ step

\* The extensions are read as far as they ever will be.
ReadFamilies == phase' = "families"

\* One round: the sizing call, and a list of that size.
SizeExtensions ==
    /\ Inspecting(attempt < MaxAttempts /\ ~sized)
    /\ sized' = TRUE
    /\ UNCHANGED <<external, phase, loading, handles, attempt, extensions, spent,
                   physical_devices, code>>

\* The sizing call or the filling call fails: no extensions, and no more rounds.
ExtensionsFail ==
    /\ Inspecting(attempt < MaxAttempts)
    /\ Fault
    /\ extensions' = {}
    /\ ReadFamilies
    /\ UNCHANGED <<loading, handles, attempt, sized, spent, physical_devices, code>>

\* A bug: the round is not counted.
ExtensionsGrewUncounted ==
    /\ Inspecting(attempt < MaxAttempts /\ sized)
    /\ extensions' \in SUBSET Inspected.extensions
    /\ sized' = FALSE
    /\ UNCHANGED <<external, attempt, spent, phase, loading, handles,
                   physical_devices, code>>

\* A bug: an incomplete list is taken for the whole of it.
ExtensionsGrewAccepted ==
    /\ Inspecting(attempt < MaxAttempts /\ sized)
    /\ extensions' \in SUBSET Inspected.extensions
    /\ ReadFamilies
    /\ UNCHANGED <<external, attempt, sized, spent, loading, handles,
                   physical_devices, code>>

\* The filling call has more than it was given room for: VK_INCOMPLETE, the next
\* round; the part it wrote stays.
ExtensionsGrew ==
    /\ Inspecting(attempt < MaxAttempts /\ sized)
    /\ extensions' \in SUBSET Inspected.extensions
    /\ sized' = FALSE
    /\ attempt' = attempt + 1
    /\ UNCHANGED <<external, spent, phase, loading, handles, physical_devices, code>>

\* The filling call succeeds.
ExtensionsRead ==
    /\ Inspecting(attempt < MaxAttempts /\ sized)
    /\ extensions' = Inspected.extensions
    /\ ReadFamilies
    /\ UNCHANGED <<external, attempt, sized, spent, loading, handles,
                   physical_devices, code>>

\* The rounds are used up: on with what the last one left.
AttemptsSpent ==
    /\ Inspecting(attempt = MaxAttempts)
    /\ spent' = spent \cup {Head(handles)}
    /\ ReadFamilies
    /\ UNCHANGED <<external, loading, handles, attempt, sized, extensions,
                   physical_devices, code>>

-----------------------------------------------------------------------------
(* The queue families *)

First(indices) == IF indices = {} THEN Null
                  ELSE CHOOSE i \in indices : \A j \in indices : i <= j

\* The families that encode video, if the device has the encode queue.
Encoders(d, seen) ==
    {i \in DOMAIN d.families : "encode_queue" \in seen /\ d.families[i].encode}

\* A bug: a codec's own extension is not asked for.
EncodeCodecsAnyExtension(d, seen) ==
    UNION {d.families[i].operations : i \in Encoders(d, seen)}

\* Their codecs, of those whose extension the device has.  Without the video
\* queue the driver reports no operations.
EncodeCodecs(d, seen) ==
    IF "video_queue" \notin seen THEN {}
    ELSE seen \cap UNION {d.families[i].operations : i \in Encoders(d, seen)}

Record(h, seen) ==
    [handle |-> h,
     encode_codecs  |-> EncodeCodecs(system[h], seen),
     encode_family  |-> First(Encoders(system[h], seen)),
     compute_family |-> First({i \in DOMAIN system[h].families : system[h].families[i].compute})]

\* The families are read, and a device that encodes joins physical_devices (and
\* its info device_infos); on to the next handle.
InspectFamilies ==
    /\ phase = "families"
    /\ LET record == Record(Head(handles), extensions)
       IN physical_devices' = IF record.encode_codecs = {} THEN physical_devices
                              ELSE Append(physical_devices, record)
    /\ handles' = Tail(handles)
    /\ attempt' = 0 /\ sized' = FALSE /\ extensions' = {}
    /\ phase' = "inspect"
    /\ UNCHANGED <<external, spent, loading, code>>

EnumerateEnds ==
    /\ phase = "inspect"
    /\ handles = <<>>
    /\ \/ physical_devices = <<>> /\ Fails("NO_DEVICE")
       \/ physical_devices # <<>> /\ phase' = "ready" /\ code' = "SUCCESS"
    /\ UNCHANGED <<external, loading, handles, inspecting, physical_devices>>

-----------------------------------------------------------------------------
(* ~driver, then the members: of those only the library matters *)

\* The instance deletes a driver that came up.
Delete ==
    /\ phase = "ready"
    /\ phase' = "destroy"
    /\ UNCHANGED <<external, loading, handles, inspecting, physical_devices, code>>

\* A bug: only a driver that came up destroys its VkInstance.
DestroyReadyInstance ==
    /\ phase = "destroy"
    /\ vk_instance' = IF code = "SUCCESS" THEN "destroyed" ELSE vk_instance
    /\ phase' = "members"
    /\ UNCHANGED <<external, candidate, library, destroyable, handles, inspecting,
                   physical_devices, code>>

\* A bug: the library is declared after what uses it, and goes first.
CloseLibraryFirst ==
    /\ phase = "destroy"
    /\ library' = "closed"
    /\ phase' = "members"
    /\ UNCHANGED <<external, candidate, vk_instance, destroyable, handles, inspecting,
                   physical_devices, code>>

DestroyInstance ==
    /\ phase = "destroy"
    /\ vk_instance' = IF vk_instance = "live" /\ destroyable THEN "destroyed" ELSE vk_instance
    /\ phase' = "members"
    /\ UNCHANGED <<external, candidate, library, destroyable, handles, inspecting,
                   physical_devices, code>>

\* ~shared_library closes the handle if there is one.
CloseLibrary ==
    /\ phase = "members"
    /\ library' = "closed"
    /\ phase' = "gone"
    /\ UNCHANGED <<external, candidate, vk_instance, destroyable, handles, inspecting,
                   physical_devices, code>>

-----------------------------------------------------------------------------
Load       == OpenLibrary \/ NoLibrary \/ LoadLoader \/ NoInstance \/ CreateInstance
Enumerate  == NoDevices \/ ListHandles \/ InspectNull \/ EnumerateEnds
Inspect    == \/ SizeExtensions \/ ExtensionsFail \/ ExtensionsGrew \/ ExtensionsRead
              \/ AttemptsSpent \/ InspectFamilies
Initialise == Load \/ Enumerate \/ Inspect
Destroy    == DestroyInstance \/ CloseLibrary

Next == Initialise \/ Delete \/ Destroy

\* make_driver runs on the caller's thread, which goes on running.  The driver is
\* deleted when the application says so, or never.
Spec == Init /\ [][Next]_vars /\ WF_vars(Initialise) /\ WF_vars(Destroy)

-----------------------------------------------------------------------------
(* Properties *)

Records ==
    [handle : Nat, encode_codecs : SUBSET Codecs,
     encode_family : Nat \cup {Null}, compute_family : Nat \cup {Null}]

TypeOK ==
    /\ system \in Systems
    /\ faults \in 0 .. MaxFaults
    /\ phase \in {"library", "symbols", "create", "count", "inspect", "families",
                  "undefined", "ready", "destroy", "members", "gone"}
    /\ candidate \in 1 .. Len(Candidates) + 1
    /\ library \in {"open", "closed"}
    /\ vk_instance \in {"none", "live", "destroyed"}
    /\ destroyable \in BOOLEAN
    /\ handles \in Seq((DOMAIN system) \cup {Null})
    /\ attempt \in 0 .. MaxAttempts
    /\ sized \in BOOLEAN
    /\ extensions \subseteq Extensions
    /\ spent \subseteq DOMAIN system
    /\ physical_devices \in Seq(Records)
    /\ code \in {"none", "SUCCESS", "INITIALIZATION_FAILED", "UNSUPPORTED", "NO_DEVICE"}

\* Wherever initialise fails, the loader's library stays open as long as the
\* VkInstance made through it lives, and is closed after it.
LibraryOutlivesInstance == vk_instance = "live" /\ destroyable => library = "open"

\* A driver that is gone, whether it came up or not, leaves neither library nor
\* VkInstance behind, unless the loader could not say how to destroy it.
NothingLeftBehind ==
    phase = "gone" =>
        /\ library = "closed"
        /\ vk_instance = "live" => ~destroyable

\* What a device can encode, were its extensions read to the end.
TrueCodecs(d) ==
    {c \in Codecs :
        /\ {"video_queue", "encode_queue", c} \subseteq d.extensions
        /\ \E i \in DOMAIN d.families : d.families[i].encode /\ c \in d.families[i].operations}

\* However its extensions came to be read, a device is listed once, in the
\* system's order, with an encode family and no codec it cannot encode; and with
\* no fault one that encodes is missing only if it used up every round.
ListedDevicesEncode ==
    /\ \A i, j \in DOMAIN physical_devices :
          i < j => physical_devices[i].handle < physical_devices[j].handle
    /\ \A i \in DOMAIN physical_devices :
          LET r == physical_devices[i]
              d == system[r.handle]
          IN /\ r.encode_codecs # {}
             /\ r.encode_codecs \subseteq TrueCodecs(d)
             /\ r.encode_family # Null /\ d.families[r.encode_family].encode
    /\ phase = "ready" /\ faults = 0 =>
          {h \in DOMAIN system : TrueCodecs(system[h]) # {}} \ spent \subseteq
              {physical_devices[i].handle : i \in DOMAIN physical_devices}

\* The families are never read with a part of the extensions while a round is
\* left: the list is whole, or empty because a call failed, or all rounds went by.
PartialOnlyWhenSpent ==
    phase = "families" =>
        \/ extensions = Inspected.extensions
        \/ extensions = {} /\ faults > 0
        \/ attempt = MaxAttempts

\* make_driver returns, though the extension list keeps changing and calls fail: with
\* a driver, or with what was made undone.  (Of the deletion of a driver it returned
\* the property says nothing.)
InitialiseEnds == <>(phase \in {"ready", "gone", "undefined"})
=============================================================================
