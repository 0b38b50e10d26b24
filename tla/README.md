# A TLA+ model of libencorder

libencorder is a C++ library that finds video encoders (today: Vulkan Video)
and tells an application what they can do. Encoding itself is only declared so
far. The modules in this directory model what the library does between its
public C functions and the Vulkan driver, check it with TLC and prove parts of
it with TLAPS. Paths below are relative to the repository; `vulkan/` stands for
`core/device/vulkan/`.

## 1. The system

| part | code | state | operations |
|---|---|---|---|
| instance | `core/instance.cpp`, `native.cpp` | drivers, flat device list, lazily opened query devices under `query_mutex` | new, enumerate, `query_device`, adopt, delete |
| public queries | `core/capabilities.cpp` | none | check codec, check backend, delegate to a device, add active sessions |
| error context | `core/error.cpp` | a `thread_local` text | set or cleared as every call returns |
| session registry | `core/session.cpp` | one relaxed atomic counter per codec slot | `acquire`, `release`, `active` |
| Vulkan driver | `vulkan/driver.cpp`, `platform/*/library.cpp`, `vulkan/functions.cpp` | library handle, `VkInstance`, physical devices | load, create, enumerate, inspect, open, destroy |
| Vulkan device | `vulkan/device.cpp` | codec cache (`std::vector`) under `cache_mutex` | `codec_details` and the queries on top of it |
| capability probe | `vulkan/capabilities.cpp`, `vulkan/formats.cpp` | locals, then one cache entry | `query_codec_capabilities`, `query_format_tier` |
| adoption | `vulkan/adopt.cpp` | context and record of an adopted device | thirteen checks, then a device |
| tables | `core/format.hpp`, `vulkan/formats.cpp`, `vulkan/profile.cpp`, `names.cpp` | none | lookups |
| logger | `core/logger.cpp` | immutable | calls the application's callback on the logging thread |

How they interact: an application thread calls a public function. It finds a
device through the instance (`query_mutex`, opened on first use), checks the
arguments, and asks the device; the device looks in its cache (`cache_mutex`)
and on a miss asks the Vulkan driver some dozens of questions. Concurrency
queries add what the session registry counts. Every function leaves a code and
a per-thread text. There are no threads of the library's own, no messages and no
persistence: all concurrency is the application's threads, all failure is that
of the driver and the loader. The one way back into the library is the log callback,
which a probe calls with `cache_mutex` held.

What is hard here: two locks with slow driver calls inside them, one of them also
held around a callback; a pointer used after the lock it was found under; a list read counter by counter while it
changes; initialisation that can fail at any call and must undo what it did; a
retry loop against a list that keeps changing; two independent walks of the same
driver data that must agree; hand-written tables that must agree with each other
and with documents outside the code; and a host's descriptor that partly overrides
what the driver found and may be shorter than the library's. The hazards, each with its line, are in `PROJECT.json`.

What makes each part correct, in a line: the cache is a memo per codec; the
instance is a memo per device; an error's text is there until the next failing call;
the counters are the open sessions; a driver that goes leaves nothing, one that stays lists
encoders only; a kept answer can be encoded with and agrees with later queries;
an adopted device answers for what it was lent; what an answer says in formats and
numbers the driver meant; nobody waits for ever.

## 2. The modules

| module | models | checked by |
|---|---|---|
| `MemoCells` | what a lazily filled table promises: a cell is filled once, by the call that asked, and never changes | (abstract) |
| `CodecCache` | the threads in `device.cpp` | `codec_cache`, `codec_cache_two_codecs` |
| `CodecCacheProofs` | theorems about it | TLAPS |
| `SessionRegistry` | `session.cpp` and its readers | `session_registry`, `session_slots` |
| `SessionRegistryProofs` | theorems about it | TLAPS |
| `Instance` | `instance.cpp`, `native.cpp`, `error.cpp`, checks of `capabilities.cpp` | `instance`, `instance_context` |
| `InstanceProofs` | theorems about it | TLAPS |
| `CapabilityProbe` | `vulkan/capabilities.cpp` | `capability_probe`, `probe_preferred` |
| `CapabilityProbeProofs` | theorems about it | TLAPS |
| `VulkanDriver` | `vulkan/driver.cpp`, `library.cpp` | `vulkan_driver` |
| `VulkanDriverProofs` | theorems about it | TLAPS |
| `VulkanAdoption` | `read_struct`, `vulkan/adopt.cpp`, `query_concurrency` | `vulkan_adoption` |
| `VulkanAdoptionProofs` | theorems about it | TLAPS |
| `LogCallbacks` | `logger.cpp` with the locks of `instance.cpp` and `device.cpp`: nested calls | `log_callbacks` |
| `LogCallbacksProofs` | theorems about it | TLAPS |
| `StdProfiles` | `vulkan/profile.cpp`, and the codecs' profiles (operators only) | `codec_answer` |
| `FormatTables` | `core/format.hpp`, `vulkan/formats.cpp` (operators only) | `codec_answer` |
| `CodecAnswer` | the data of `vulkan/capabilities.cpp`: limits, modes, features, formats | `codec_answer` |
| `CodecAnswerProofs` | theorems about it and the two before it | TLAPS |

`MC*.tla` give the constants of each module values for TLC. Definitions whose
comment starts with "A bug:" are not part of any specification: each is a
plausible mistake in the code it stands beside, and replaces the definition
after it to show that a property notices.

`MemoCells` is used twice: `CodecCache!ImplementsMemo` maps a cell to the cached
entry of a codec, `Instance!OpensOnce` to the open device of a slot.

### CodecCache

`pc[t]` is where a thread is in `query_capabilities` or `query_format`. One
action is what happens between two places where another thread can matter: the
lock, the search, the end of the probe (with the append), the unlock on return,
and each use of the pointer after it. The vector's storage is the pair
`buffer`, `capacity`; an append to a full vector moves to a new buffer and the old
one is freed, so a pointer `[buffer, slot]` is live while its buffer is current.
Reading through a dead pointer yields anything (undefined behaviour). The vector
doubles when full (libstdc++ and libc++; another growth factor moves it at other
lengths, and the properties do not depend on it). What the driver answers is any
member of `Capabilities`, or a failure.

### SessionRegistry

A codec is the position of its bit, a mask is a set. `SlotOf` compares the
*value* `2^c` with `slot_count`, as the code does. The loads of a mask's query
are relaxed and are taken in any order, one per step. `low` and `high` are history
variables: how few and how many sessions of each codec there can have been since
the query began.

### Instance

The phases of `enc_instance` are explicit; every public call either returns in one
step (`CallReturns`) or goes through `query_device`. `Lock` includes the `resize`,
as the code does it right after. `got[t]` is the pointer a thread took from the
table, used after `query_mutex` is gone. A device carries a serial number so that
opening it again would make another device. `NULL_ARGUMENT` is
`ENC_RESULT_ERROR_INVALID_ARGUMENT` where a null pointer is refused without a text.
The context is modelled by the code it is about, one per thread: that no other
thread's error shows in it is what `thread_local` means, and is not a property here.
What is checked of it is how long the text lasts (`instance_context`). The application deletes an
instance when no call is in progress and its adopted devices are gone.

### CapabilityProbe

The driver is a function from supported chroma and depth cells to the list of
formats it reports, chosen in `Init` and fixed. Each step is one driver call or one
turn of a loop. `Lapse` is a call that fails though it might not the next time;
the code skips such failures in the matrix and in the format walk, and returns
them elsewhere, and so does the model. `Measure` is the call that
fetches the limits, and its failure; what is made of them is in `CodecAnswer`.

### VulkanDriver

`make_driver` from `dlopen` to the list of devices, then destruction in member
order. `Fault` lets any call fail. The extension loop is one step per call: sizing,
then a fill that succeeds, fails, or is incomplete because the list grew
(`ExtensionsGrew`, not bounded by `MaxFaults`: only the code's four rounds end it). `InitialiseEnds` is about `make_driver`: it says nothing of the deletion of a
driver that came up. A null handle from the unchecked second enumeration ends in the phase
`undefined`, of which nothing is claimed but that it is the end.

### VulkanAdoption

A descriptor is a record of what the checks look at. `Wrong` says what each check
objects to, `Checks` in what order and with what code; `Refusal` is the first. The
adopted record is the driver's record with three fields overwritten, as in the code.
The checks see `read_struct(info)`: a host built against an older header has a
smaller `struct_size`, and the fields after it are zero. `size` counts fields in the
order of the header; a size that ends inside a field, or between an array and its
count, is of no version of the header and is left out.

### LogCallbacks

`CodecCache` and `Instance` have one lock each. Here both are taken, in the order
of the code, by calls that nest: `logger::write` calls the application's function
on the spot, and that may call the library again, on the same thread and with
`cache_mutex` held if a probe is logging. `frames[t]` is the stack of calls thread
`t` is in; only the innermost moves. The data of the two modules is left out: a
device is opened or not, a codec cached or not. `allowed` says which devices
callbacks query while a device is probed; nothing in the header restricts them, so
the runs have callbacks that keep an order of the devices and callbacks that do
anything. `NoCircularWait` and `CallsReturn` are conditional: DEBUG messages are off,
or callbacks keep an order. Outside that condition the code does deadlock, when a
callback queries the device being probed, or two threads each other's: the model has
those states, the properties say nothing of them, and there is no line of
documentation for a run to refute. `query_concurrency` of an adopted device takes no lock and is left out.

### CodecAnswer, StdProfiles, FormatTables

Here the driver calls succeed, in one step, and the data has its meaning: cells
are a chroma and a depth, profiles are the codecs' profiles, limits are numbers
(signed or modulo `Word`, as declared). `StdProfiles` puts the code's choice of one
profile per cell beside what H.264, H.265 and AV1 say their profiles contain. A
driver takes any set of profiles: that one profile's decoders handle another's
streams (`Includes`) obliges no driver to list both, so a cell it has under the larger
one only is missed (`OnlyInLarger`);
`FormatTables` puts the two tables beside what Vulkan says of the `VkFormat`s.
Those two sides (`Admits`, `Includes`, `Native`) are not of the code. A layout has
no order of components: that RGBA8 is not `B8G8R8A8` is beyond these tables.
`LimitsHold` takes the code's arithmetic as it is where a sum of reference counts wraps
and where neither granularity divides the other; what is then reported, too few
references or an alignment for one side only, is a hazard without a property.

## 3. What is checked

Passing runs (all states, TLC):

| run | bounds | what it shows |
|---|---|---|
| `codec_cache` | 2 threads, 3 codecs, 2 answers, 2 calls each | one entry per codec; pointers name their codec; entries kept; every query returns; implements `MemoCells` |
| `session_registry` | the 5 codecs and 8 slots of the code, 1 querying thread, 3 opens | counters are the open sessions; an answer lies in the window of its query |
| `instance` | 2 threads, 2 drivers with 0 to 2 devices, 2 calls each | slots number devices; devices used are those listed; opened once; destroyed before drivers; queries return |
| `capability_probe` | 4 cells, 6 format lists per cell, 1 lapse | first choice kept; list sound; nothing invented; a kept answer is usable; both queries agree |
| `vulkan_driver` | 4 machines, 4 rounds, 3 faults | library outlives `VkInstance`; nothing left behind; listed devices encode; partial lists only when rounds are spent; it ends |
| `vulkan_adoption` | 3 devices, over 1000 descriptors, cut off after each field | the device has a queue of an encoding family; codecs are enabled and supported; it answers for the lent family; no unwritten field is taken for a family |
| `codec_answer` | 1896 drivers: every set of profiles with all cells, each one or none; each format; limits at the edges; `Word` = 256 | only the named misfits are missed, and cells of a larger profile whose smaller one is not taken; formats are described as the driver reads them; limits are kept |
| `log_callbacks` | 2 threads, 3 devices, 1 codec, 3 calls of one thread and 2 of the other, nested 3 deep, 1 message per probe | probes do not nest; `query_mutex` is never held while waiting; no circular wait and every call returns, if DEBUG is off or callbacks keep an order |

Why the bounds are enough: two threads meet in every critical section and
outside it; three codecs make the vector grow twice, so a pointer can be left
behind by one move and by two. The session run uses the code's own constants;
three sessions can open and close on either side of a load. Queries share nothing but the
counters, so one is enough. Two drivers, of which either may fail, with two devices distinguish all
ways to number slots. Four cells hold a first choice with cells before and after
it; the six lists hold every tier, a repeated format, an unknown one and none. Four
rounds are the code's. The descriptors combine freely all fields that are compared
with device data; fields checked alone vary a few at a time. Two threads and two
query devices are what a circle of waits takes, and the third call in a stack is
one from a callback of a callback; one codec is enough as codecs share the mutex.
In `codec_answer` the parts of an answer are computed apart, so each part's inputs
vary freely while the others stay put.

Runs that find a property violated: each states a line of the repository's own
documentation and shows what the code does instead (`findings` in `PROJECT.json`):

| run | statement | what happens |
|---|---|---|
| `codec_cache_two_codecs` | a query that succeeds returns the cached capabilities | the pointer is used after the unlock; the vector has moved |
| `session_slots` | counters are indexed by bit position, and a mask asks "how many across these codecs?" | ProRes and MJPEG have no slot, as their value is compared; what has no slot is answered with the sum of all counters |
| `instance_context` | the context is valid until the next failing call | a call that succeeds clears it |
| `probe_preferred` | the preferred format is fused, or undefined | a split one is offered |

Deadlock: off where the system may stop, that is where threads have made all
their calls (`codec_cache`, `instance`, `log_callbacks`), the driver is gone
(`vulkan_driver`) or the one answer is given (`codec_answer`); on elsewhere. In
`log_callbacks` threads may also wait for each other, which `NoCircularWait` is
about.

Fairness: `CodecCache`, `Instance` and `LogCallbacks` assume that a thread inside a call that can
take a step eventually does (the operating system's scheduler), separately for
each thread, and nothing about whether an application starts another call or in
what order a mutex admits threads. Calls per thread are finite, so nobody is
starved by endless traffic; with endless traffic an unfair mutex could do so and
the code relies on the platform's. In `LogCallbacks` the same fairness has callbacks
return, which the code needs and cannot enforce. `VulkanDriver` assumes that the calling thread
goes on.

## 4. What is proved

Every invariant, the one action property and both refinements that the passing runs
check are also proved, for all values of the constants, by TLAPS. Each proof module
states an inductive invariant (`IInv`), shows that it holds initially and that every
action keeps it, and derives the properties from it. The invariants that are not
made of checked properties were checked with TLC before they were proved.

* `CodecCacheProofs`: `IInv` is type correctness, the mutex (who is between lock
  and unlock holds it), one entry per codec, "a thread about to append asks about
  a codec that is not there", and who has a pointer when, with pointers within the
  vector that name their codec. The mutex part is what makes
  "not there" survive other threads' steps, and that in turn gives one entry per
  codec. From it follow `TypeCorrect`, `EachCodecCachedOnce`,
  `PointersNameTheirCodec`, `CacheOnlyGrows`, and by a step simulation with the
  mapping of `CodecCache` the refinement `CacheImplementsMemo`.
  `OneCodecClient` and `OneThreadClient` say when the dangling pointer cannot bite:
  with one codec, or one thread, `AnswersAreCached` holds. Together with the
  violating run this pins the fault to two threads and two codecs.
* `SessionRegistryProofs`: `IInv` adds to the types that the open sessions of a
  codec never exceed the opens so far, which with `MaxOpens < Word` keeps a counter
  from wrapping; a lemma gives every codec with a slot its own bit position.
  `RegistryTypes` and `CountersExact` follow. `AnswersInWindow`
  needs a second invariant, `WindowInv`: every codec's sessions lie in its window,
  a scan's sum lies in the sum of the windows of the codecs it has loaded, counters
  without a codec stay zero, and no window's sum exceeds the opens so far, which is
  what keeps a sum from wrapping. Adding up over sets is a recursive function, so the
  module first proves a small theory of `MapThenSumSet`: induction over the parts of
  a finite set (`SubsetInduction`, from well-founded induction, stated of a *set* of
  subsets so that no operator is needed), that such a function exists (`SumsExist`),
  and from it that a sum is any element plus the sum of the rest (`SumSplit`),
  grows with its terms and with its set. `UnslottedCountsAll` says what
  everybody else is told: the codecs whose value is below `slot_count`, all of them and
  no other, whichever were asked about. `OneCodecQueries` is the other side of
  `session_slots`: who asks about single codecs that have a counter is told right.
* `InstanceProofs`: `IInv` joins the types, what the device list numbers (`Listing`),
    what each phase has made and unmade, and in which order (`Phases`, `Deaths`), and
  the lookup under `query_mutex` and what a thread has from it (`Lookup`). An opened device is never replaced while the instance lives: that
  makes the pointer safe to use after the mutex is gone, unlike the one of the codec
  cache. `LookupImplementsCells` is the refinement of `MemoCells`.
* `LogCallbacksProofs`: `IInv` says that the stacks of calls tell who holds what: the
  holder of `query_mutex` is the one thread opening a device, and a `cache_mutex` is
  held by exactly the one frame that probes. `ProbesApart` and `TableIsFreed` are
  consequences. For `NoDeadlock`, suppose a set of threads waits in a circle. They
  wait for caches, as `query_mutex` is never waited on for long; take the waiting
  thread whose device has the least rank. The holder of that device waits itself,
  in a callback of the probe, for a device its callbacks may query from there, which
  has a lesser rank still. If DEBUG is off nobody waits inside a probe at all.
* `VulkanDriverProofs`: `IInv` has the lifetimes of library and `VkInstance` in each
  phase, the bounds of the counters, the order of the list, and what is known of the
  extensions being read (`Reading`) and of the devices listed (`Listed`,
  `Complete`). A part of the extensions is kept only by a device in `spent`.
* `VulkanAdoptionProofs`: the invariant is that the adopted device is what
  `driver::adopt` made of a descriptor with nothing wrong (`Lent`) and that the last
  answer is that device's (`Asked`); the rest is about `Wrong`, where the proofs
  show which check protects which index of the ones after it.
* `CapabilityProbeProofs`: for a matrix of any size, any drivers, formats and number
  of lapses. `IInv` joins the checked invariants with what ties each phase to the one
  before it: the cells tried bound the cells listed, the entries in hand are the
  driver's, the sources the pictures come from are the primary cell's, there is a
  primary cell beyond the matrix and a format beyond the walk. `ProbeList` is a
  pigeonhole argument: were `input_formats` full, the formats in it and the one at
  hand would be more than `format_map` maps to, so `truncated` is never set; it
  needs only that the map is injective and no longer than the array
  (`MapAssumption`). `ProbePrimary`, `ProbeTruth` and `ProbeUsable` say that the
  first choice is kept, that failures in passing only leave things out, and that an
  answer that is cached for good can be built from. `ProbeQueriesAgree` needs a
  second invariant, `WholeInv`, of the progress of both walks: which cells the first
  has tried and which entries it has covered, and which profiles the second has
  searched. `PreferredIsFusedIfAnyIs` is the other side of `probe_preferred`: the
  header's word is kept for a driver that lists a format as fused and none with two
  tiers. The second condition is needed: a format listed first as split is passed
  over when it turns up as fused, and an earlier split one stays preferred.
* `CodecAnswerProofs`: an answer is a function of the driver, so the invariant is
  short and the work is about the functions: the arithmetic of the limits for every
  `Word`, with a quantizer's clamp and the wrap of sums of references
  (`LimitsAreKept`); the standard profiles of the three codecs, cell by cell,
  for any set of them a driver takes (`MissesNamed`); and `format_map`, line by line, with a count of it for the
  room in `input_formats` (`FormatsAreDescribed`).

Assumptions: those named in the modules (`CacheAssumption`, `RegistryAssumption`,
`PowerAssumption`, ...), which TLC evaluates for every run. They say what the
constants are (sequences, finite sets, disjoint model values), what a Vulkan driver
may report (fields in range, devices with different UUIDs), and what the tables of
the code satisfy. Of clients nothing is assumed but that the fields of a descriptor
have their types, and the bounds on how much they do; the theorems about the other
side of a violation say in their statements what they ask for.

Only model-checked: liveness (`QueriesReturn` of both modules, `InitialiseEnds`,
`CallsReturn`), which is beyond the prover; and the four violations, which are runs
by nature.

## 5. What is not modelled

* `names.cpp`: wording. Function tables: symbol lookups; a missing one is an
  outcome in `VulkanDriver` and `VulkanAdoption`.
* The compute family of an adopted device, beyond that it is recorded: a host that
  lends no compute queue still gets CONVERT among its tiers, as the record keeps the
  driver's own (`adopt.cpp:232`). Nothing converts yet.
* What an exception out of a log callback would do: it is a C function pointer.
* `enc_config_new` and the other initialisers: nothing reads the result yet.
* `platform/windows/library.cpp`: same steps as the unix file.
* VideoToolbox: a build file without sources.
* Encoders, pools, frames, tickets: declared only.
* Objects used after the application deleted what they depend on: the header
  gives no order for instance and devices, the tests delete the instance last.

## 6. Plan

Done in this order: codec cache, sessions, instance, probe, driver, adoption, then
the locks with log callbacks, the answers' data with the tables they come from, and
short structs; then the proofs, for every safety property of every module. Next:

1. The other side of `instance_context`, as there is one of the other three
   violations: the clients that do find the text the header promises.
2. A refinement between modules: that `LogCallbacks` with one device and no
   callbacks takes and releases its mutexes as `Instance` and `CodecCache` do.
3. The hazards without a property, as far as they can be stated of what is modelled.
