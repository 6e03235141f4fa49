# A TLA+ model of libgbm for Qualcomm displays

This directory specifies the DRM and framebuffer backends of this repository's
`libgbm`: the buffer objects that share ION descriptors, the per-process registry
that counts them, the surfaces whose buffers go round between renderer and
compositor, the metadata page that processes share with each buffer, the sizes and
layouts they compute for it, and the process-wide singletons behind the devices. TLC
checks the specifications on small instances; TLAPS proves their safety properties, and
three refinements, for every value of the constants.

Line numbers are those of the sources this directory was written against.
`PROJECT.json` maps every definition to its lines.

## 1. The system

### Components

| Component | Files | State | Operations |
|---|---|---|---|
| Buffer registry ("mapper") | `src/msmgbm_mapper.cpp`, `inc/msmgbm_mapper.h` | `gbm_buf_map_`: fd → metadata fd, two CPU addresses, `ref_count` | register, search, update, increment, decrement-and-erase |
| Buffer objects, DRM | `src/msmgbm.c` | `struct msmgbm_bo`; open descriptors, CPU mappings, GEM handles | create, import (fd, fd with modifier, `gbm_buf`, Wayland buffer), import by name, map, write, dump, metadata refresh, destroy |
| Buffer objects, FB | `src/msmgbm_fb.c` | the same without GEM handles | the same without fds with a modifier |
| Surfaces, DRM | `src/msmgbm.c` | `current_state` of the `NUM_BACK_BUFFERS` buffers | create, destroy, `get_free_bo`, `set_front_bo`, `lock_front_buffer`, `release_buffer`, `has_free_buffers` |
| Surfaces, FB | `src/msmgbm_fb.c` | as above, and `surface_mutex` | as above |
| Devices | `src/gbm.c`, `src/msmgbm.c`, `src/msmgbm_platform_wrapper.cpp` | two instance counts and singletons, `mutex_obj`, the `/dev/ion` descriptor | create, destroy |
| Metadata access | both backends | a `meta_data_t` in a page every process with the metadata descriptor maps; in each `msmgbm_bo` a metadata fd and an address, filled in at different times | set, get, `gbm_perform` queries |
| Formats, alignment, sizes | `src/msmgbm_common.c`, `src/msmgbm_camera.c`, `src/msmgbm_video.c`, the platform wrapper, Adreno helpers | none of their own; the results are kept in each `msmgbm_bo`, and two facts about them in the shared metadata | format choice, compression, alignment, size, planes, ION flags and heaps |
| Public API | `src/gbm.c` | user data | dispatch through the backend's table |

### How they interact

A buffer is a dma-buf known by a data descriptor and, usually, a metadata
descriptor. Several buffer objects of a process may be on one data descriptor.
Each object holds *copies* of what belongs to all of them: the metadata descriptor,
both addresses, the GEM handles. Only the registry knows how many objects there
are. `bo_destroy` asks it (`decr_refcnt`), and when it was the last it unmaps and
closes, out of its **own** fields, what all of them used. So every import must
leave each object with fields that make it a proper last one.

The registry is protected by the backend's `mutex_obj` while entries are added and
counts go up, by nothing while counts go down, and by nothing in some of the
lookups. `mutex_obj` itself is initialised by each device creation and destroyed
by each device destruction. The FB surface calls have a mutex of their own; the
DRM ones have none.

### What is hard

* Order: which object goes last, which import came first, what it found registered.
* Partial failure: many error paths return in the middle of a protocol.
* Interleaving: search, map, register and count are separate steps; decrements are
  unlocked; surface scans test and set without a lock.
* Stale copies: addresses, descriptors and handles live on in other objects.
* Shared memory: sets and gets of several processes touch the metadata page one word
  at a time, and no lock spans processes.
* Recomputation: an importer derives stride, size and planes again, from its own usage
  flags and whatever the metadata says; nothing of the allocator's result travels.
* Boundaries: descriptor 0, lengths of linear and compressed layouts.

`PROJECT.json` lists these as hazards, each at its line, with the property that
watches it.

### What makes each component correct

* Registry and objects: a live object's descriptors, mappings and handles are there
  and belong to its buffer; the last destroy gives everything back; counts equal
  the number of objects; a mapping is unmapped once and in full.
* Surfaces: a buffer is in one thread's hands; what was obtained can be submitted;
  a promised free buffer is obtained; calls return. (`lock_front_buffer` returns the
  lowest slot with a frame, not the oldest frame; the model has no frame order.)
* Formats: every party that computes a buffer's layout computes the same one; planes
  and pixels lie inside it; the two layout queries agree; protected content is not
  mapped and has the heap it needs.
* Metadata: a get answers what the last set meant, in whichever process and through
  whichever object; when it answers nothing, there was no way to the metadata.
* Devices: the singletons exist whenever a call uses them and are gone with the
  last device; the mutex excludes.

## 2. Modules

```
GbmMapper --+-- GbmBo --- GbmFb
            |     |
            |     +-------- GbmSharing     (abstract; GbmBo and GbmConcurrent
            |     |                         both implement it)
            +-- GbmConcurrent
            +-- GbmMetadata
GbmDevice
GbmSurface ---------------- GbmSwapChain   (abstract; GbmSurface implements it)
GbmFormats

GbmMapper_proofs <- GbmBo_proofs <- GbmFb_proofs
GbmConcurrent_proofs, GbmDevice_proofs, GbmSurface_proofs, GbmFormats_proofs,
GbmMetadata_proofs
MCGbmBo, MCGbmFb, MCGbmConcurrent, MCGbmMetadata, MCGbmDevice, MCGbmSurface,
MCGbmFormats                                constants and symmetry for TLC
```

**GbmMapper** has the registry as a function from fds to entries and one operator per
method. `Register` is `unordered_map::emplace`, which keeps an existing entry;
`Update` overwrites everything but the count; `DecRef` erases at zero; an fd that is
not registered counts as a last reference, as in `del_map_entry`.

**GbmBo** is the DRM buffer-object life cycle, one action per API call as a
single-threaded client sees it. `fdt`, `maps` and `gem` are the kernel's side:
which descriptor is open on which file, which address maps what and how long, which
GEM handles are open. `bos` holds the `msmgbm_bo` structures, `reg` the registry,
`offers` the descriptors the client received and still owns, and `segv` records that
a metadata address was read that is not mapped. Descriptors and addresses are
allocated lowest first, so that a stale number is soon used again. `f` in an action
is the allocation that fails in this call.

| Action | Code |
|---|---|
| `BoCreate` | `msmgbm_bo_create` |
| `ImportFd`, `ImportFdBadFormat` | `msmgbm_bo_import_fd` |
| `ImportGbmBuf` | `msmgbm_bo_import_gbm_buf` |
| `ImportWlBuffer` | `msmgbm_bo_import_wl_buffer`, from the resource's user data on |
| `ImportFdModifier`, `ImportFdModifierNoInfo` | `msmgbm_bo_import_fd_modifier` |
| `ImportFromName`, `ImportFromNameNoInfo` | `msmgbm_bo_import_from_name` |
| `BoCpuMap` | `msmgbm_bo_cpu_map` |
| `BoWriteMapping` | `msmgbm_bo_write`, `msmgbm_bo_dump` on an object not mapped yet |
| `RefreshMetaFd` | `GBM_PERFORM_GET_METADATA_ION_FD`, `msmgbm_get_metadata` |
| `BoDestroy` | `msmgbm_bo_destroy` |
| `Receive`, `ReceiveMeta`, `CloseOffer` | the client |

`GBM_PERFORM_CPU_UNMAP_FOR_BO` does nothing in this backend (`msmgbm.c:2537-2546`)
and so has no action. `HasGem` says whether there are GEM handles (DRM) or not (FB).

**GbmFb** is the FB backend's life cycle. Its handlers repeat the DRM ones step by step
without the PRIME ioctls, so each action is `GbmBo`'s with `HasGem = FALSE`, named
after the handler in `msmgbm_fb.c` that makes it. Calls here may fail at any allocation
and be tried again, buffers may be delivered twice, with metadata or without. Two
history variables record the harm: `lost` counts the references that a failed call
took and nobody will give back, `torn` collects the metadata addresses that a
`bo_write` took down. No action reads them; the invariants are stated relative to them.

**GbmConcurrent** is the same protocol with several threads, one access to shared
memory or to the kernel per step, for `bo_create`, `import_gbm_buf`, `import_fd` and
`bo_destroy`. `IncRead`/`IncWrite` and `DecRead`/`DecWrite` are the two halves of
`++` and `--` on a plain `int`. `Beside` and `FirstRace` say what the client's threads
do at the same time: which calls on its descriptor a destroy may run beside, imports or
other destroys, and whether the first imports of a received descriptor may race.

**GbmMetadata** is the metadata page of one buffer (`page`), what the registry of each
process knows of it (`known`), the objects on it (`objs`) and what each process is
doing (`call`). `want` is a history variable: the page as the sets that returned mean
it. One step reads or writes one word of the page; `data->operation |= ...` is a read
(`SetCall`) and a write (`SetMask`), and every word of the value is stored (`Store`) and
read (`Read`) on its own. What an object knows depends on how it came about: its metadata fd
and its address are separate fields, and calls test one, the other or both.

| Action | Code |
|---|---|
| `ImportWithMeta` | `import_gbm_buf`, `import_wl_buffer` with a metadata fd |
| `ImportBare` | `import_fd`, `import_fd_modifier`, `import_wl_buffer` without, `import_from_name` |
| `BoDestroy` | `msmgbm_bo_destroy` |
| `SetCall`, `SetMask`, `Store` | `msmgbm_set_metadata` |
| `GetCall`, `Read` | `msmgbm_get_metadata`, and the queries that end in it |
| `GetMetaFd` | `GBM_PERFORM_GET_METADATA_ION_FD` |

Keys are represented by what the code does with them: `COLOR_SPACE` (derived from the
colour metadata when it was not set), `COLOR_METADATA` (several words), `PLAIN` for every
key with one word of its own, `UNKNOWN` for those without a case, which still get their
bit in the mask. `Fb` chooses the FB backend's reset, `Overlap` lets sets overlap. The
client keeps what it imported by name (`named`): such an object takes no reference but gives
one back (`msmgbm.c:2404`, `:288`), and `GbmBo` is where that is looked at.

**GbmSharing** is what GbmBo and GbmConcurrent promise, with no registry in it: a descriptor is open
while an object is on it, and the object that leaves last closes it.

**GbmSurface** has a surface's slots and the five calls, each a scan: look at a slot,
and if its `current_state` is the wanted one overwrite it and return. Looking and
overwriting are two steps. `Guarded` puts the scan under `surface_mutex` (FB) or not
(DRM). `mine` is what the client's threads hold, `promised` the renderers
that were told there is a free buffer.

**GbmSwapChain** is what a surface promises: each buffer goes round pool → renderer
→ front → compositor → pool, always in one pair of hands.

**GbmDevice** has device creation and destruction step by step, and a call on a
device reduced to a query to the platform wrapper followed by an access to the
registry under `mutex_obj`.

**GbmFormats** has the arithmetic as operators, one per function of the library:
`GetImplDefinedFormat`, `IsUbwcEnabled`, `AlignedDims`, `UbwcSize` and `LinearSize`,
`Planes` (`msmgbm_yuv_plane_info`), `BufLayout` (`msmgbm_get_buf_lyout`), `RgbDataOffset`, `GetIonAllocFlags`, `GetIonHeapId`. `Describe` is the pair of
calls, `qry_aligned_wdth_hght` and `qry_size`, by which everybody learns a buffer's
layout. Around them is a small state machine: `BoCreate` allocates a buffer and leaves
two facts in its metadata (protected, compressed), `BoImport` describes it again from
what an importer has: the same format and dimensions, its own flags or a modifier, and
the metadata or not. The `VENUS_*` macros and `libadreno_utils.so` are external.

## 3. What TLC checks

### Buffer objects (`MCGbmBo`)

Two or three buffers, three objects (two in `bo_refs`), a descriptor table of five or
seven, three to eight mapping addresses. Three objects are what it takes for a first, a
middle and a last user of a descriptor; descriptors and addresses are allocated lowest
first, so a number given back is soon another buffer's. `MaxFd`, `MaxAddr` and `MaxRef` bound the
descriptor table, the address space and the count: at a bound the calls that would
pass it are not made, so a full table is never taken for a failure.

| Run | Client | Shows |
|---|---|---|
| `bo_pairs` | hands over data and metadata descriptors together, to `import_gbm_buf` or, for linear buffers, `import_wl_buffer` | counts exact, objects usable, nothing leaks, unmapping exact, `GbmSharing` implemented |
| `bo_refs` | makes every import and call there is, with imports that fail after the increment, mappings that fail and are retried, writes that unmap; keeps what it imported by name (two objects, `MaxFd = 4`, `MaxAddr = MaxRef = 3`: the failures multiply the states) | the count never drops below the number of objects |
| `bo_write_unmaps` | writes to a buffer that is not mapped | violation of `MappingsUsable` |

`MaxRef` is reached in `bo_refs` only, where failed imports leave references behind. With
`"prime"` among its `Faults` it passes as well, in five minutes and 893 418 states.

### Buffer objects of the FB backend (`MCGbmFb`)

`fb_mixed`: every call in any order with failures at every allocation, one buffer of this
process and one received, in a descriptor table of four; no call fails any more once a
descriptor has lost a reference (`MaxLost = 1`). Without failures counts are exact and
objects usable as in `bo_pairs`; this run says what remains of that otherwise:

* `RefsAccounted`: a descriptor's count is its objects and the lost references, no more
  and no less;
* `FbUsable`: an object on a descriptor without lost references has its descriptors, and its
  mappings but for those that a write took down;
* `SegvOnlyTorn`: a bad metadata address is read only after such a write.

### Threads (`MCGbmConcurrent`)

`conc_shared` has three threads, a buffer of this process, a received one and three
objects, and says what the code does guarantee. Its client lets no destroy run beside
another call on the same descriptor (`Beside = {}`), and lets the first import of
a received descriptor run alone (`FirstRace = FALSE`). Then imports may interleave
with each other in every way, and with destroys on other descriptors: the locked
counts are exact, nothing leaks, and `GbmSharing` is implemented step by step.
`conc_destroy_races` lets a destroy run beside an import (`Beside = {"import"}`); two
threads and one descriptor are enough. The destroy reads the count, 2; the import makes it
3 and returns its object; the destroy writes 1. Two objects are left on a count of 1, and
whichever goes first closes the descriptors and unmaps under the other. No client here
destroys the last object on a descriptor while it is importing that descriptor: that would
be the client's error.

### Metadata (`MCGbmMetadata`)

`meta_shared`: two processes, three objects, every kind of import, a protected buffer,
every key that has a behaviour of its own except `PLAIN` (like `COLOR_METADATA` with
one word). The colour metadata implies colour space 2 and the one that is set is 3, so a
wrong source shows. `Overlap = FALSE`: one set at a time in all processes, gets at any time.

* `ReadBack`: a get that no set overlapped answers what the sets before it mean.
* `PageExact`: between sets the page is exactly what the sets that returned mean,
  refused ones, unsupported ones and resets included.
* `SilentOnlyUnknown`: a get that reports success and answers nothing, or that calls the
  protected buffer open, happens only in a process that has no way to the page.

### Devices (`MCGbmDevice`)

`dev_many`: three threads, up to two devices out of three. The singletons are there for every call and gone at the end. `dev_second`: a
second device beside a thread that holds the mutex.

### Surfaces (`MCGbmSurface`)

`NumBack = 3`, the value in the build modelled. `surface_drm`: one renderer and one
compositor, no lock; every property holds, `CallReturns` with them. A renderer that has
a buffer submits it before it asks for another or whether there is one (`mine[r] = {}` in
`GetFree` and `HasFree`); nothing in the library asks for that. `surface_fb`: two
of each under the mutex, none of which releases what it did not lock
(`Careless = FALSE`; section 5 has what happens otherwise).

### Formats (`MCGbmFormats`)

`formats`: every format a client can ask for and every set of at most three
(`MaxFlags`) of eleven usage flags; no decision in the code looks at more than three
at once. Dimensions are one pixel, a size that is aligned for some formats and not for
others, an odd height, and 2000 x 1088, where every plane has several pages; all are
far below `MaxDim`, up to which no size wraps around. The GPU reads some of the
compressed formats and not others, so both answers of `is_ubwc_supported_gpu` occur.

* `ImportersAgree` has two provisos, and the code needs both. The importer must be told
  that the buffer is compressed, by a modifier or the metadata (`Informed`), and the GPU
  must read the format (`GpuReads`): importers are made to ask it by
  `GBM_BO_USAGE_HW_RENDERING_QTI`, which the allocator may not have set.
* `PlanesFit` leaves out the buffers of `Overrun`. TLC shows that they do overrun when
  the conjunct `~Overrun(b)` is removed: the chroma plane of
  `YCbCr_420_P010_VENUS` begins inside luma, because the layout counts one byte for a
  sample of two (`msmgbm.c:3202`, against `msmgbm_platform_wrapper.cpp:628`), and a
  4:2:0 buffer of an odd number of rows is short of half a row of chroma
  (`msmgbm_platform_wrapper.cpp:430`, `:471`).
* `LayoutsAgree`: `msmgbm_yuv_plane_info` and `msmgbm_get_buf_lyout` put luma and chroma
  in the same places, for the allocator and for importers. Compressed NV12 and RGB
  buffers are left out: the second never asks for compression and describes them as
  linear.
* `RgbDataFits` compares the size of the metadata computed from raw dimensions at
  allocation with that computed from aligned ones when pixels are looked for.
* `ProtectedHidden` and `FlagsMatchHeaps` relate decisions taken twice: mapping by ION
  flags and by metadata, protection flags and heaps in parallel if-chains.

### Fairness

Only the surface runs with a liveness property use fairness: `FairSpec` adds weak
fairness of each thread's own step inside a call. A thread inside a call that can go
on is run by the scheduler at some time; nothing is assumed about which calls clients
make, nor that a mutex is granted in turn. That is why `CallReturns` is checked where
there is no lock, and under the lock only `MutexReleased`, which does not need a
waiting thread ever to win.

`CHECK_DEADLOCK FALSE` appears in `bo_refs` and `fb_mixed`, where what leaks leaves the
client without descriptors, addresses or references for another call, in `meta_shared`,
where a client may destroy its last object and nothing is left to do, and in violation
runs.

## 4. What is proved

All theorems hold for every value of the constants that the modules' own assumptions
allow. Where a theorem has a further premise it is given here, and it is a condition on
the client, on the process's environment, or that a set is finite.

**GbmBo** (`GbmBo_proofs`, on `GbmMapper_proofs`)

* **TypeCorrect**: `TypeOK`. `TypeOK` is not inductive; `TypeInv` adds that a registered
  count is positive (or a decrement could reach -1) and that no object's file is standard
  input (or the buffer behind an imported descriptor would not exist). One lemma per
  action, and under the imports a common shape: an import prepares the registry, takes
  one reference and adds at most one object.
* **ReferencesCover**: `RefsCover`, for a client that never destroys what it imported by
  name (`NamesKept`; section 5 has the constants that refute it without). No destroy takes
  itself for the last one while another object counts on the descriptor. The imports that
  fail after the increment are covered: they make the count too high, never too low.
* **ReferencesExact**: `RefsExact`, where moreover no call fails once it has counted
  (`Reliable`). `ExactInv` has the equality on every descriptor, registered or not.
* **ObjectsUsable** (`LiveUsable`), **NeverSegv** (`NoSegv`), **UnmapsExactly** (`UnmapExact`)
  and **SharingImplemented** (the refinement of `GbmSharing`), for a client that hands
  descriptors on in pairs and whose allocations and mappings succeed (`Paired`: it may
  import fds with and without a modifier, import by name what it keeps, map, write, dump and
  refresh, and the PRIME ioctl may fail; descriptor 0 is taken). Section 5 shows what a failing
  mapping, a compressed Wayland import or a second delivery of a buffer does to them.
  `LifeInv` adds to the counts that what an entry names is open and mapped in full, and its
  buffer's (`Sound`), that a buffer has one descriptor, registered or on offer
  (`TableInv`), that live objects have their entry's addresses, and its metadata fd or none
  (`Agrees`), and that an offer shares nothing with an entry (`OffersInv`). No conjunct is
  inductive alone: that a number the kernel gives out again is nobody's any more follows
  from all of them.
* **NothingLeaks** (`NoLeak`), where moreover nothing fails and nobody imports an fd without
  its metadata (`Complete`; by `import_fd` a handle does leak, section 5). `LeftInv`: every
  descriptor, mapping and handle belongs to a registered descriptor or is on offer, and every
  object has all its fields, so that the last one can give everything back.

**GbmFb** (`GbmFb_proofs`)

* **FbIsBo**: `FbSpec => Spec`; hence **FbTypeCorrect** and **FbReferencesCover**.
* **FbCountsExplained**: `RefsAccounted` with every failure there is, for `NamesKept`.
  `AccountInv` joins it to `RefsInv`; a step moves count, objects and `lost` together.
* **FbObjectsUsable** (`FbUsable`) and **FbSegvNeedsWrite** (`SegvOnlyTorn`), for `NamesKept`,
  with every call of the backend and every failure but that of the metadata mapping, in a
  process whose descriptor 0 is taken (`FbPremise`; section 5 has `Inherited = {}`; when that one fails, `import_fd` reads through the NULL in the entry, as
  section 5 shows for DRM). A lost reference leaves the entry of an fd behind when the fd is long
  closed, and the next buffer that gets its number finds it. So `FbInv` is about what is
  claimed under an fd, by its objects and by its entry together: addresses are
  mapped in full and claimed under one fd each, but for those in `torn` (`ClaimsInv`); and a
  claim to a metadata fd holds good only while no reference was lost, or while the entry left
  behind names none (`Firm`, `HeldInv`). A state that a lost reference has spoiled may spoil
  others only through the numbers it names, and those two conjuncts say which it does not.

**GbmConcurrent** (`GbmConcurrent_proofs`), for any number of threads

The premises are about the client, and the code does nothing to enforce them: `Orderly`, no
destroy runs beside an import on its descriptor (and threads and objects are finitely many);
`Serial`, nor beside another destroy; `Ordered`, `Orderly` and the first import of a
received descriptor runs alone. `conc_destroy_races` refutes `LiveUsable` without the first.

* **TypeCorrect**, under `Orderly`.
* **CountsExact** (`RefsExact`) and **SharingImplemented** (the refinement of
  `GbmSharing`), under `Serial`. The invariant
  `ExactInv` says whom a count counts at every step: the objects nobody has
  counted out, and the imports that are counted in and have no object yet
  (`CountInv`); that a thread in the middle of `++` or `--` still has the current value
  (`AloneInv`, `HasInv`); and which entries and descriptors exist (`EntryInv`, `OpenInv`).
* **ObjectsUsable** (`LiveUsable`), under `Ordered`: destroys may race each other, which
  can leave a count too high and never too low (two may read the same value, none writes
  less than the objects that stay). **NothingLeaks** (`NoLeak`), under `Serial` and
  `Ordered`: after such a race nobody is last. `UseInv`: an entry is of an
  open buffer (`RegInv`, `MetaInv`), an import in the middle carries the addresses that the entry has
  or will have (`CarryInv`), and objects on a descriptor have its entry's (`SharedInv`).
  `LeftInv`: whatever is open or mapped is offered, registered, or in somebody's hands.

**GbmSurface** (`GbmSurface_proofs`), for any number of slots

* **TypeCorrect**: `TypeOK`, for any client.
* **HandsExclusive** (`Exclusive`), **SubmitNeverRefused** (`SubmitAccepted`) and
  **ScansRefine** (the refinement of `GbmSwapChain`), where clients submit and release
  only what they hold, and either calls take `surface_mutex` or there is one
  renderer and one compositor (`Served`). `HandsInv`: a slot in a thread's hands has the
  state of that hand, a scan about to overwrite a slot still finds it as it was
  (`Taking`), and the scanner has the mutex if there is one.
* **PromiseKept** (`FreeKept`), with a single renderer (`OneRenderer`). `KeptInv`: there is a
  free slot at or ahead of where the renderer that was told so is scanning.

**GbmFormats** (`GbmFormats_proofs`), for every size up to 8192 x 8192

* **TypeCorrect** (`TypeOK`), **PlanesAlwaysFit** (`PlanesFit`) and **RgbDataAlwaysFits**
  (`RgbDataFits`), for all. Planes are laid out from aligned dimensions and sizes
  computed from raw ones, so the proofs rest on `VenusTwice` and `SameRgbMeta`: aligning twice is
  aligning once, for strides, lines and for the columns and rows of tiles, because the
  unit of a row is four tiles wide and the columns of tiles are padded to a multiple of four.
* **ImportersAlwaysAgree** (`ImportersAgree`) and **LayoutsAlwaysAgree** (`LayoutsAgree`),
  for importers that ask neither for compression nor for CPU writes of their own accord
  (`PlainImporters`); **ProtectedAlwaysHidden** and **FlagsAlwaysMatch**, for all.
  `FormatsInv`: what is recorded of a buffer is what the operators compute from its usage, and
  what of a view, from the importer's; there is one of each. The lemma that carries the weight is `SameCompression`:
  the usage an importer ends up with enables compression exactly where the allocator's did.

**GbmMetadata** (`GbmMetadata_proofs`)

* **TypeCorrect**: `TypeOK`, in both backends. `CallsInv`: a call in the middle has the parts its next
  step needs.
* **SilentMeansPathless**: `SilentOnlyUnknown`, for any number of processes and objects,
  both backends, overlapping sets and crashes, for clients that keep what they imported by
  name: a destroy of it erases the entry under the others. `SilentInv`: an object with
  an address is in a process whose registry has the page (`PathInv`), a get under way has
  seen only words of the page (`SeenInv`), and an answer that says nothing was given where
  there was no way to it.
* **PageMeansTheSets** (`PageExact`), for sets that do not overlap, and **ReadsBack** (`ReadBack`),
  for the DRM backend moreover; section 5 has the constants that refute both otherwise. `SetsInv`
  says what the page is in the middle of a set: the mask with the new bit, and the words
  that are already stored (`Stored`); and that a get no set has overlapped has
  seen the words as the sets before it mean them.

**GbmDevice** (`GbmDevice_proofs`), for any number of threads and finitely many devices

* **TypeCorrect** and **SingletonsAlive** (`SingletonsThere`), whatever fails;
  **EverythingReturned** (`NothingLeft`), where no `ion_open` fails and the process has
  its standard input (section 5 has the constants that refute it otherwise). `DeviceInv`:
  a thread that creates or destroys a device is alone with it (`AloneInv`); each instance count
  is at least, and without failures exactly, the number of devices between the two steps that
  count (`Covers`); the ion descriptors are the devices', each its own (`IonInv`).

Every invariant that a run checks is proved. Only model-checked are `CallReturns` and
`MutexReleased`, which are liveness under fairness and, like `ENABLED`, out of the prover's
reach; and what holds beyond the premises above, as the calls and failures that `bo_refs` has and
`Paired` has not. Induction over data is not needed: none of the modules proved
about has a recursive operator.

## 5. Findings

Each is a run that TLC refutes; `PROJECT.json` quotes the text the code disagrees with.

| Run | What the code does |
|---|---|
| `bo_write_unmaps` | `gbm_bo_write` through a temporary mapping also unmaps the metadata that the registry and other objects refer to |
| `conc_destroy_races` | the count is decremented without the lock; an increment between its read and its write is lost, and a later destroy closes the descriptor under an object in use |
| `dev_second` | creating a device re-initialises a mutex that another thread holds |

These further behaviours are not runs of their own; TLC shows each with the
constants given, starting from the configuration of a listed run and checking only
the property named.

| From | Change | Refutes | What the code does |
|---|---|---|---|
| `bo_write_unmaps` | `Calls = {"name"}` | `FdsUsable` | an object imported by name takes no reference but gives one back and, as the last one, closes the descriptor under the object it was named after, and descriptor 0 as its metadata (`msmgbm.c:2404`), although `gbm.c:612` calls its life-time independent |
| `bo_write_unmaps` | `Calls = {"fd"}` | `NoLeak` | `import_fd` never learns the metadata GEM handle; its object, destroyed last, leaves it open (`msmgbm.c:1127`) |
| `bo_write_unmaps` | `Calls = {"badfd"}` | `NoLeak` | `import_fd` counts its reference before it rejects the format (`msmgbm.c:1061`) |
| `bo_pairs` | `Calls = {"gbm", "wl", "receive"}` | `NoLeak` | `import_wl_buffer` of a compressed buffer unmaps it with the linear length (`msmgbm.c:1228`) |
| `bo_refs` | `Calls = {"gbm", "receive"}`, `MaxAddr = 6` | `MappingsUsable` | an `import_gbm_buf` whose `calloc` fails leaves an entry whose addresses outlive its descriptor (`msmgbm.c:1666`) |
| `bo_pairs` | `Calls = {"gbm", "receive", "redeliver"}` | `HandlesUsable` | one buffer behind two descriptors has one GEM handle, closed with the first (`msmgbm.c:320`) |
| `bo_pairs` | `Calls = {"fd", "gbm", "receive"}`, `Faults = {"mt_mmap"}` | `NoSegv` | `import_fd` reads metadata through a registered NULL (`msmgbm.c:1088`) |
| `conc_shared` | `Beside = {"destroy"}` | `RefsExact`, `NoLeak` | two decrements read the same count; nobody is last (`msmgbm_mapper.h:74`) |
| `conc_shared` | `FirstRace = TRUE` | `NoLeak` | two first imports both map the buffer; one mapping is forgotten (`msmgbm.c:1556`) |
| `dev_many` | `IonFails = TRUE` | `NothingLeft` | a device creation that fails at `ion_open` keeps its two instance counts (`msmgbm.c:2024`) |
| `dev_many` | `StdinOpen = FALSE` | `NothingLeft` | an ion descriptor 0 is accepted and never closed (`msmgbm.c:1983`) |
| `surface_fb` | `Careless = TRUE` | `MutexReleased` | the FB `release_buffer` of a buffer that is not locked returns with `surface_mutex` held (`msmgbm_fb.c:1334`) |
| `surface_drm` | `Renderers = {r1, r2}` | `SubmitAccepted` | two renderers get one buffer; the second submission is refused (`msmgbm.c:2134`) |
| `formats` | `ImportFlags = {"WRITE"}` | `ImportersAgree` | an importer that means to write computes the linear size of a compressed buffer, and maps and unmaps that (`msmgbm.c:1610`) |
| `formats` | `GpuReads(b)` left out of `ImportersAgree` | `ImportersAgree` | the allocator compresses without asking the GPU, the importer asks (`msmgbm_platform_wrapper.cpp:734`) |
| `fb_mixed` | `Inherited = {}` | `SegvOnlyTorn` | with descriptor 0 free it may become a metadata fd; an import registers it without mapping it, and `import_fd` reads through the NULL since it is not -1 (`msmgbm_fb.c:803`) |
| `fb_mixed` | `Faults = {}`, `Calls = {"badfd", "gbm", "receive"}` | `RefsExact` | the FB `import_fd` counts before it rejects the format, too |
| `meta_shared` | `Overlap = TRUE` | `PageExact`, `ReadBack` | two sets of different keys read one operation mask; one of the bits is lost (`msmgbm.c:2917`) |
| `meta_shared` | `Fb = TRUE`, `Imports` without `"fdmod"` | `ReadBack` | the FB reset clears the key's bit, sets it again and reads the value from NULL: the caller crashes and the page says a value was set (`msmgbm_fb.c:2434-2444`) |

What the model of the metadata calls shows besides, and the properties allow for:

* An object imported without metadata takes over a metadata fd registered later, but not
  the address registered with it: from then on its sets and gets fail with a bad handle
  (`msmgbm.c:3004`). A set on an `fdmod` object is refused until a get has refreshed it.
* A reset (`set` of NULL) returns `GBM_ERROR_BAD_VALUE`, and no getter but that of the
  colour space looks at the bit it clears; the comment at `msmgbm.c:2911` promises more.
* `msmgbm_get_buf_lyout` reports success for formats the library does not support
  (`msmgbm.c:3303` returns `NULL` as an `int`); a supported format without a case is an
  error (`msmgbm.c:3340`).

`RGBA8888` and `RGBX8888` can be compressed (`is_ubwc_support_enbld`) but have no
compressed size (`get_ubwc_size`): 0 bytes are asked for and the allocation fails.

## 6. Abstractions

* In `GbmBo` widths, heights and formats are left out. A size is 1 (linear) or 2 (compressed), in
  units of the linear size: what the properties tell apart.
* A lookup in the `unordered_map` is one step, although some run without the lock: the
  undefined behaviour of a concurrent rehash is not modelled, only the stale result.
* What a `munmap` beyond the end of a mapping would hit is not modelled, and a freed C
  structure is gone: heap memory is not tracked.
* `pthread_mutex_lock` on a destroyed mutex fails, as glibc does; the code only logs.
* The platform wrapper is always there: `platform_wrap::init` returns true whatever it
  finds (`msmgbm_platform_wrapper.cpp:227-244`), so the branch for its failure (`:67-72`) is
  dead.
* `surface_create` succeeds; the leak of the structure when it does not is memory only.
* The build modelled is the one of `Makefile.am`: surface buffers allocated with the
  surface, current ION ABI, no legacy handles.

* In `GbmFormats` dimensions stay where 32-bit sizes do not wrap around (the code has
  no upper bound on them); formats `IsFormatSupported` refuses are left out, and so are
  the heaps and flags no property tells apart. What `libadreno_utils.so` answers is an
  assumption (`AdrenoDims`: 64 columns, 16 rows when compressed), and the `VENUS_*`
  macros are those of the kernel's `msm_media_info.h`. The MIMAS and HEIF variants are
  not built.

* In `GbmMetadata` the page outlives the calls on it (`GbmBo` and `GbmConcurrent` are
  about that), and the words of a value are stored in any order: the compiler may choose.
  Keys are OR-ed into `operation` as bit patterns (`msmgbm.c:2917`), so an unsupported key of
  several bits would set the bits of others; every supported one has a single bit, and
  `UNKNOWN` stands for an unsupported one with a single bit that is no other key's.
* The FB copies of the layout queries differ from the modelled ones in the formats they
  know and in strides they leave out.

Not modelled: the printing of maps and metadata, user data and getters, `gbm_perform`
queries without effect on state, wire-level Wayland (`import_wl_buffer` begins at the
resource's user data), the EGL stub, the test program. ASTC formats, the heaps of other
processors and the cached flag touch no property.

## 7. Plan

What is left, in order of what the system depends on:

1. Objects and devices together: destruction of objects after their device
   (`msmgbm.c:320`), and one buffer's objects on several devices, each with GEM handles of
   its own although the count is the process's (`msmgbm.c:318`).
2. `GbmConcurrent` with `import_wl_buffer` and the metadata calls as further threads;
   their lookups without the lock (`msmgbm.c:1022`).
3. Surfaces with the buffers' own life cycle: failing creation (`msmgbm.c:1939`), and
   the order of queued frames (`msmgbm.c:1791`).
4. Sizes modulo 2^32 for dimensions without bound (`msmgbm.c:676`).
5. Proofs: `FbInv` with metadata mappings that fail, for the calls that do not read
   through them; `LifeInv` for allocations and mappings that fail, with the lost references of
   `GbmFb_proofs`; `NoLeak` for clients of `import_fd` up to the handle it leaks.
