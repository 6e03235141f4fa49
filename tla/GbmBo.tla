--------------------------------- MODULE GbmBo ---------------------------------
(***************************************************************************)
(* The life of buffer objects in the DRM backend (msmgbm.c) and the three  *)
(* kernel resources they pin: file descriptors, CPU mappings and GEM       *)
(* handles.  Every API call is one action, as a single-threaded client     *)
(* sees it; GbmConcurrent splits the calls.  The build modelled is the one *)
(* Makefile.am and configure.ac produce for the current ION ABI.  GbmFb    *)
(* extends this module with the calls of the FB backend, which has no GEM. *)
(*                                                                         *)
(* Many buffer objects may share one ION fd.  Only the registry of         *)
(* GbmMapper knows how many, and the object destroyed last gives back, out *)
(* of its OWN fields, what all of them used.                               *)
(***************************************************************************)
EXTENDS GbmMapper, FiniteSets

CONSTANTS
  Local,    \* buffers bo_create may allocate
  Foreign,  \* buffers of other processes, received as file descriptors
  Ubwc,     \* the buffers allocated with the (larger) compressed layout
  Secure,   \* the buffers allocated for protected content: never CPU mapped
  BoIds,    \* what calloc may return for a buffer object
  MaxFd,    \* bound: the descriptor table is 0 .. MaxFd
  MaxAddr,  \* bound: CPU mappings live at 1 .. MaxAddr
  MaxRef,   \* bound: no import of an fd counted MaxRef times
  HasGem,   \* the DRM backend: buffers get GEM handles; FALSE in the FB backend
  Inherited,\* {0} when the process starts with stdin open, {} when it does not
  Calls,    \* what this client does beyond creating and destroying
  Faults    \* the allocations that may fail

Bufs == Local \cup Foreign
Fds  == 0 .. MaxFd
Addrs == 1 .. MaxAddr

AllCalls == {"fd", "badfd", "fdmod", "gbm", "wl", "linearwl", "name", "keepname",
             "map", "write", "refresh", "receive", "bare", "redeliver", "latemeta"}
AllFaults == {"mmap", "mt_ion", "mt_mmap", "prime", "calloc"}

ASSUME BoAssumption ==
  /\ IsFiniteSet(BoIds)
  /\ Local \cap Foreign = {}
  /\ Ubwc \subseteq Bufs
  /\ Secure \subseteq Bufs
  /\ MaxFd \in Nat
  /\ MaxAddr \in Nat
  /\ MaxRef \in Nat
  /\ HasGem \in BOOLEAN
  /\ Inherited \subseteq {0}
  /\ Calls \subseteq AllCalls
  /\ Faults \subseteq AllFaults

VARIABLES
  fdt,    \* the process's descriptor table: fd -> file
  maps,   \* CPU mappings: address -> [file, len, whole]
  gem,    \* files with an open GEM handle on the device
  reg,    \* the registry of GbmMapper
  bos,    \* live buffer objects: id -> struct msmgbm_bo
  offers, \* <<fd, metadata fd>> pairs the client received and still owns
  segv    \* the process dereferenced a bad metadata address

vars == <<fdt, maps, gem, reg, bos, offers, segv>>

-----------------------------------------------------------------------------
(* Kernel objects.  A file is <<b, "data">> or <<b, "meta">> for a buffer b *)
(* or Stdin; a GEM handle is the file it stands for (one handle per device *)
(* and dma-buf), NoHandle being the handle 0.                              *)

Data(b) == <<b, "data">>
Meta(b) == <<b, "meta">>
Stdin == <<>>
NoHandle == <<>>
BufFiles == Bufs \X {"data", "meta"}

\* Sizes in units of the linear size.  A metadata buffer has one size only.
SizeOf(b) == IF b \in Ubwc THEN 2 ELSE 1
LinearLen == 1
MetaLen == 1

\* POSIX: the lowest descriptor not in use (nor in S).
NextFd(S) ==
  LET free == Fds \ (DOMAIN fdt \cup S)
  IN  {n \in free : \A k \in free : n <= k}

\* mmap returns the lowest unused address.  At the bound there is none, and the
\* calls that may need one are not made: mappings fail by Faults alone.
NextAddr(S) ==
  LET free == Addrs \ (DOMAIN maps \cup S)
  IN  {a \in free : \A k \in free : a <= k}

\* The file behind fd, none when fd is not open.
FileOf(fd) == IF fd \in DOMAIN fdt THEN fdt[fd] ELSE NoHandle

\* DRM_IOCTL_PRIME_FD_TO_HANDLE: the handle of a file, 0 when there is no file or
\* the ioctl fails.  The FB backend leaves the handles 0.
HandleOf(file, f) == IF HasGem /\ f # "prime" THEN file ELSE NoHandle

Mapping(file, len) == [file |-> file, len |-> len, whole |-> TRUE]

\* munmap(a, len): a shorter length leaves the tail of the mapping behind.
\* What lies beyond a mapping is not modelled.
Munmap(m, a, len) ==
  IF a \notin DOMAIN m THEN m
  ELSE IF m[a].len <= len THEN Drop(m, {a})
  ELSE [m EXCEPT ![a].whole = FALSE]

\* The structure behind a metadata address can be read.
Readable(m, mt) == mt \in DOMAIN m /\ m[mt].whole

Fresh(b) ==
  /\ \A fd \in DOMAIN fdt : fdt[fd] \notin {Data(b), Meta(b)}
  /\ \A a \in DOMAIN maps : maps[a].file \notin {Data(b), Meta(b)}
  /\ gem \cap {Data(b), Meta(b)} = {}
  /\ \A id \in DOMAIN bos : bos[id].buf # b

Outcomes == {"none"} \cup Faults

\* The objects that took a reference on fd when they were built.
Counted(fd) == {id \in DOMAIN bos : bos[id].fd = fd /\ ~bos[id].named}
-----------------------------------------------------------------------------
Init ==
  /\ fdt = [fd \in Inherited |-> Stdin]
  /\ maps = EmptyMap
  /\ gem = {}
  /\ reg = EmptyMap
  /\ bos = EmptyMap
  /\ offers = {}
  /\ segv = FALSE

\* How far msmgbm_bo_create gets: 1 data fd allocated, 2 data mapped, 3 GEM
\* handle of the data, 4 metadata fd allocated, 5 metadata mapped and the
\* buffer registered, 6 object returned.  The test data_fd > 0 before the PRIME
\* ioctl rejects fd 0.
CreateReaches(b, d, f) ==
  IF f = "mmap" /\ b \notin Secure THEN 1
  ELSE IF HasGem /\ d = 0 THEN 2
  ELSE CASE f = "mt_ion"  -> 3
         [] f = "mt_mmap" -> 4
         [] f = "calloc"  -> 5
         [] OTHER         -> 6

\* msmgbm_bo_create with the fds, addresses and object it is given.  No error
\* path gives back what the steps before it took.
CreateWith(b, f, d, m, mt, c, id) ==
  LET step == CreateReaches(b, d, f)
      cpu == IF b \in Secure THEN NULL ELSE c
      handled == IF step < 3 THEN {} ELSE IF step < 5 THEN {Data(b)} ELSE {Data(b), Meta(b)}
      fdt1 == Put(fdt, d, Data(b))
      maps1 == IF cpu = NULL THEN maps ELSE Put(maps, cpu, Mapping(Data(b), SizeOf(b)))
  IN /\ fdt' = IF step < 4 THEN fdt1 ELSE Put(fdt1, m, Meta(b))
     /\ maps' = IF step < 2 THEN maps
                ELSE IF step < 5 THEN maps1
                ELSE Put(maps1, mt, Mapping(Meta(b), MetaLen))
     /\ gem' = gem \cup ({HandleOf(file, f) : file \in handled} \ {NoHandle})
     /\ reg' = IF step < 5 THEN reg
               ELSE IncRef(Register(reg, d, m, cpu, mt), d)
     /\ bos' = IF step < 6 THEN bos
               ELSE Put(bos, id,
                     [fd |-> d, mfd |-> m, handle |-> HandleOf(Data(b), f),
                      mhandle |-> HandleOf(Meta(b), f), cpu |-> cpu, mt |-> mt,
                      size |-> SizeOf(b), named |-> FALSE, buf |-> b])
     /\ UNCHANGED <<offers, segv>>

BoCreate(b, f) ==
  \E d \in NextFd({}) : \E m \in NextFd({d}) :
  \E mt \in NextAddr({}) : \E c \in NextAddr({mt}) :
  \E id \in BoIds \ DOMAIN bos :
    b \in Local /\ Fresh(b) /\ CreateWith(b, f, d, m, mt, c, id)

\* Mutants of UnmapBoth: the metadata is forgotten, or the sizes are swapped.
UnmapDataOnly(m, bo) == Munmap(m, bo.cpu, bo.size)
UnmapSwapped(m, bo) == Munmap(Munmap(m, bo.cpu, MetaLen), bo.mt, bo.size)

\* msmgbm_bo_cpu_unmap: both addresses, whoever mapped them.
UnmapBoth(m, bo) == Munmap(Munmap(m, bo.cpu, bo.size), bo.mt, MetaLen)

\* gbm_bo_destroy and msmgbm_bo_destroy.
BoDestroy(id) ==
  LET bo == bos[id]
      last == LastRef(reg, bo.fd)
  IN /\ reg' = DecRef(reg, bo.fd)
     /\ maps' = IF last THEN UnmapBoth(maps, bo) ELSE maps
     /\ fdt' = IF last THEN Drop(fdt, {bo.fd, bo.mfd}) ELSE fdt
     /\ gem' = IF last THEN gem \ {bo.handle, bo.mhandle} ELSE gem
     /\ bos' = Drop(bos, {id})
     /\ UNCHANGED <<offers, segv>>
-----------------------------------------------------------------------------
(* Imports.  mfd is NoFd in the calls that carry no metadata descriptor.   *)

\* The client imports what it received, or the descriptors of an object it did
\* not import by name; what it passes as data fd is open and is a buffer.
IsDataFd(fd) == fd \in DOMAIN fdt /\ \E b \in Bufs : fdt[fd] = Data(b)

Offered(fd, mfd) ==
  /\ IsDataFd(fd)
  /\ \/ <<fd, mfd>> \in offers
     \/ \E id \in Counted(fd) : bos[id].mfd = mfd

OfferedFd(fd) == IsDataFd(fd) /\ (<<fd, NoFd>> \in offers \/ Counted(fd) # {})

\* What every import does once it has its addresses: count the reference, open
\* the GEM handles, and build the object unless calloc fails.
ImportTail(fd, mfd, given, registry, cpu, mt, len, f) ==
  \E id \in BoIds \ DOMAIN bos :
    LET h == HandleOf(fdt[fd], f)
        mh == HandleOf(FileOf(given), f)
    IN /\ RefOf(registry, fd) < MaxRef
       /\ reg' = IncRef(registry, fd)
       /\ gem' = (gem \cup {h, mh}) \ {NoHandle}
       /\ bos' = IF f = "calloc" THEN bos
                 ELSE Put(bos, id,
                       [fd |-> fd, mfd |-> mfd, handle |-> h, mhandle |-> mh,
                        cpu |-> cpu, mt |-> mt, size |-> len, named |-> FALSE,
                        buf |-> fdt[fd][1]])
       /\ offers' = IF f = "calloc" THEN offers ELSE offers \ {<<fd, given>>}

Segv == segv' = TRUE /\ UNCHANGED <<fdt, maps, gem, reg, bos, offers>>

\* msmgbm_bo_import_fd.  An unsupported format is noticed after the reference
\* has been taken; the metadata address is trusted when there is a metadata fd.
ImportFd(fd, f) ==
  LET e == Lookup(reg, fd)
      found == e.mfd # NoFd
      registry == Register(reg, fd, NoFd, NULL, NULL)
  IN /\ OfferedFd(fd)
     /\ IF found /\ ~Readable(maps, e.mt) THEN Segv
        ELSE /\ ImportTail(fd, e.mfd, NoFd, registry, e.cpu, e.mt,
                           IF found THEN SizeOf(maps[e.mt].file[1]) ELSE LinearLen, f)
             /\ UNCHANGED <<fdt, maps, segv>>

ImportFdBadFormat(fd) ==
  /\ OfferedFd(fd)
  /\ RefOf(reg, fd) < MaxRef
  /\ reg' = IncRef(Register(reg, fd, NoFd, NULL, NULL), fd)
  /\ UNCHANGED <<fdt, maps, gem, bos, offers, segv>>

\* The metadata address an import works with: the registered one, else a new
\* mapping of the caller's metadata fd (the code asks for > 0, not >= 0).
MetaAddr(e, mfd, a, f) ==
  IF e.mt = NULL /\ mfd > 0 /\ mfd \in DOMAIN fdt /\ f # "mt_mmap" THEN a ELSE e.mt

MapMeta(e, mfd, mt) ==
  IF mt = e.mt THEN maps ELSE Put(maps, mt, Mapping(fdt[mfd], MetaLen))

\* Mutant of DataAddr: MAP_FAILED is handed on as an address.
DataAddrMapFailed(e, m, mt, c, f) ==
  IF e.cpu = NULL /\ f = "mmap" THEN -1 ELSE e.cpu

\* msmgbm_cpu_map_ionfd, when nothing is registered and the metadata can say
\* that the buffer is not secure.
DataAddr(e, m, mt, c, f) ==
  IF e.cpu = NULL /\ mt # NULL /\ m[mt].file[1] \notin Secure /\ f # "mmap"
  THEN c ELSE e.cpu

MapData(e, m, fd, cpu, len) ==
  IF cpu = e.cpu THEN m ELSE Put(m, cpu, Mapping(fdt[fd], len))

UbwcLen(m, mt) == IF mt = NULL THEN LinearLen ELSE SizeOf(m[mt].file[1])

\* msmgbm_bo_import_gbm_buf: an entry without metadata fd is overwritten.
ImportGbmBuf(fd, mfd, f) ==
  LET e == Lookup(reg, fd)
  IN /\ Offered(fd, mfd)
     /\ IF e.mt # NULL /\ ~Readable(maps, e.mt) THEN Segv
        ELSE \E a \in NextAddr({}) : \E c \in NextAddr({a}) :
          LET mt == MetaAddr(e, mfd, a, f)
              m == MapMeta(e, mfd, mt)
              len == UbwcLen(m, mt)
              cpu == DataAddr(e, m, mt, c, f)
              registry == IF Registered(reg, fd) /\ e.mfd >= 0 THEN reg
                          ELSE Update(Register(reg, fd, mfd, cpu, mt), fd, mfd, cpu, mt)
          IN /\ ImportTail(fd, mfd, mfd, registry, cpu, mt, len, f)
             /\ maps' = MapData(e, m, fd, cpu, len)
             /\ UNCHANGED <<fdt, segv>>

\* msmgbm_bo_import_wl_buffer: the size never accounts for compression, and an
\* entry with another metadata fd is overwritten.
ImportWlBuffer(fd, mfd, f) ==
  LET e == Lookup(reg, fd)
  IN /\ Offered(fd, mfd)
     /\ IF e.cpu = NULL /\ e.mt # NULL /\ ~Readable(maps, e.mt) THEN Segv
        ELSE \E a \in NextAddr({}) : \E c \in NextAddr({a}) :
          LET mt == MetaAddr(e, mfd, a, f)
              m == MapMeta(e, mfd, mt)
              cpu == DataAddr(e, m, mt, c, f)
              registry == IF mfd > 0 /\ mfd # e.mfd
                          THEN Update(Register(reg, fd, mfd, cpu, mt), fd, mfd, cpu, mt)
                          ELSE Register(reg, fd, mfd, cpu, mt)
          IN /\ ImportTail(fd, mfd, mfd, registry, cpu, mt, LinearLen, f)
             /\ maps' = MapData(e, m, fd, cpu, LinearLen)
             /\ UNCHANGED <<fdt, segv>>

\* msmgbm_bo_import_fd_modifier.  The modifier the client passes describes the
\* buffer's layout; the object never learns the metadata fd.
ImportFdModifier(fd, f) ==
  LET e == Lookup(reg, fd)
  IN /\ OfferedFd(fd)
     /\ IF e.mt # NULL /\ ~Readable(maps, e.mt) THEN Segv
        ELSE \E c \in NextAddr({}) :
          LET len == SizeOf(fdt[fd][1])
              cpu == DataAddr(e, maps, e.mt, c, f)
              registry == IF Registered(reg, fd) /\ e.mfd >= 0 THEN reg
                          ELSE Update(Register(reg, fd, NoFd, cpu, e.mt), fd, NoFd, cpu, e.mt)
          IN /\ ImportTail(fd, NoFd, NoFd, registry, cpu, e.mt, len, f)
             /\ maps' = MapData(e, maps, fd, cpu, len)
             /\ UNCHANGED <<fdt, segv>>

\* ... when the record it means to register cannot be allocated: the data buffer
\* stays mapped, and nothing says so.
ImportFdModifierNoInfo(fd) ==
  LET e == Lookup(reg, fd)
  IN /\ "calloc" \in Faults
     /\ OfferedFd(fd)
     /\ e.mt # NULL => Readable(maps, e.mt)
     /\ \E c \in NextAddr({}) :
          maps' = MapData(e, maps, fd, DataAddr(e, maps, e.mt, c, "none"), SizeOf(fdt[fd][1]))
     /\ UNCHANGED <<fdt, gem, reg, bos, offers, segv>>

\* msmgbm_bo_import_from_name: the name is the fd.  No reference is taken,
\* ion_metadata_fd stays what calloc made it: 0, and a failing PRIME call is only
\* logged.
ImportFromName(id, new, f) ==
  LET h == HandleOf(fdt[bos[id].fd], f)
  IN /\ ~bos[id].named /\ IsDataFd(bos[id].fd)
     /\ new \notin DOMAIN bos
     /\ f # "calloc"
     /\ gem' = (gem \cup {h}) \ {NoHandle}
     /\ bos' = Put(bos, new,
                [fd |-> bos[id].fd, mfd |-> 0, handle |-> h, mhandle |-> NoHandle,
                 cpu |-> NULL, mt |-> NULL, size |-> 0, named |-> TRUE,
                 buf |-> fdt[bos[id].fd][1]])
     /\ UNCHANGED <<fdt, maps, reg, offers, segv>>

\* ... when the object cannot be allocated: the handle stays open.
ImportFromNameNoInfo(id) ==
  /\ "calloc" \in Faults
  /\ ~bos[id].named /\ IsDataFd(bos[id].fd)
  /\ gem' = (gem \cup {HandleOf(fdt[bos[id].fd], "none")}) \ {NoHandle}
  /\ UNCHANGED <<fdt, maps, reg, bos, offers, segv>>
-----------------------------------------------------------------------------
(* Calls on one buffer object.                                             *)

\* msmgbm_cpu_map_ionfd from bo_cpu_map: only if the metadata says it may.
BadMeta(bo) == bo.cpu = NULL /\ bo.mt # NULL /\ ~Readable(maps, bo.mt)

CanMap(bo, f) ==
  /\ bo.cpu = NULL
  /\ bo.mt # NULL
  /\ bo.fd \in DOMAIN fdt
  /\ maps[bo.mt].file[1] \notin Secure
  /\ f # "mmap"

\* GBM_PERFORM_CPU_MAP_FOR_BO: the address goes into the object, not into the
\* registry.
BoCpuMap(id, f) ==
  LET bo == bos[id]
  IN IF BadMeta(bo) THEN Segv
     ELSE \E c \in NextAddr({}) :
       /\ CanMap(bo, f)
       /\ maps' = Put(maps, c, Mapping(fdt[bo.fd], bo.size))
       /\ bos' = [bos EXCEPT ![id].cpu = c]
       /\ UNCHANGED <<fdt, gem, reg, offers, segv>>

\* msmgbm_bo_write and msmgbm_bo_dump on an object without a CPU address: map,
\* copy, and bo_cpu_unmap, which takes the metadata mapping down as well.
BoWriteMapping(id, f) ==
  LET bo == bos[id]
  IN IF BadMeta(bo) THEN Segv
     ELSE /\ CanMap(bo, f)
          /\ maps' = Munmap(maps, bo.mt, MetaLen)
          /\ bos' = [bos EXCEPT ![id].cpu = NULL, ![id].mt = NULL]
          /\ UNCHANGED <<fdt, gem, reg, offers, segv>>

\* GBM_PERFORM_GET_METADATA_ION_FD, get_metadata: an object without metadata fd
\* takes over the one registered since.
RefreshMetaFd(id) ==
  LET e == Lookup(reg, bos[id].fd)
  IN /\ bos[id].mfd <= 0
     /\ e.mfd > 0
     /\ bos' = [bos EXCEPT ![id].mfd = e.mfd]
     /\ UNCHANGED <<fdt, maps, gem, reg, offers, segv>>
-----------------------------------------------------------------------------
(* The client's side: descriptors arriving from other processes.           *)

Known(b) ==
  \/ \E id \in DOMAIN bos : bos[id].buf = b
  \/ \E o \in offers : o[1] \in DOMAIN fdt /\ fdt[o[1]] = Data(b)

Receive(b) ==
  \E d \in NextFd({}) : \E m \in NextFd({d}) :
    /\ "redeliver" \in Calls \/ ~Known(b)
    /\ offers = {}
    /\ \/ /\ "receive" \in Calls
          /\ fdt' = Put(Put(fdt, d, Data(b)), m, Meta(b))
          /\ offers' = {<<d, m>>}
       \/ /\ "bare" \in Calls
          /\ fdt' = Put(fdt, d, Data(b))
          /\ offers' = {<<d, NoFd>>}
    /\ UNCHANGED <<maps, gem, reg, bos, segv>>

\* The metadata descriptor of a buffer imported without one arrives late.
ReceiveMeta(id) ==
  \E m \in NextFd({}) :
    /\ "latemeta" \in Calls
    /\ offers = {}
    /\ ~bos[id].named /\ bos[id].buf \in Foreign
    /\ \A k \in Counted(bos[id].fd) : bos[k].mfd = NoFd
    /\ fdt' = Put(fdt, m, Meta(bos[id].buf))
    /\ offers' = {<<bos[id].fd, m>>}
    /\ UNCHANGED <<maps, gem, reg, bos, segv>>

\* The client gives up on an offer and closes what it owns of it.
CloseOffer(o) ==
  /\ fdt' = Drop(fdt, (IF Counted(o[1]) = {} THEN {o[1]} ELSE {}) \cup {o[2]})
  /\ offers' = offers \ {o}
  /\ UNCHANGED <<maps, gem, reg, bos, segv>>
-----------------------------------------------------------------------------
\* A client with metadata in hand for an fd keeps an object on that fd, and a
\* careful one never destroys an object it imported by name.
MayDestroy(id) ==
  /\ \A o \in offers : o[1] = bos[id].fd => Counted(o[1]) # {id}
  /\ bos[id].named => "keepname" \notin Calls

\* A compositor that takes linear Wayland buffers only, or any.
MayImportWl(fd) ==
  \/ "wl" \in Calls
  \/ "linearwl" \in Calls /\ IsDataFd(fd) /\ fdt[fd][1] \notin Ubwc

ImportStep ==
  \E fd \in Fds, f \in Outcomes :
    \/ "fd" \in Calls /\ ImportFd(fd, f)
    \/ "badfd" \in Calls /\ ImportFdBadFormat(fd)
    \/ "fdmod" \in Calls /\ (ImportFdModifier(fd, f) \/ ImportFdModifierNoInfo(fd))
    \/ \E mfd \in Fds \cup {NoFd} :
         \/ "gbm" \in Calls /\ ImportGbmBuf(fd, mfd, f)
         \/ MayImportWl(fd) /\ ImportWlBuffer(fd, mfd, f)

BoStep ==
  \E id \in DOMAIN bos :
    \/ MayDestroy(id) /\ BoDestroy(id)
    \/ "refresh" \in Calls /\ RefreshMetaFd(id)
    \/ "name" \in Calls /\ ImportFromNameNoInfo(id)
    \/ \E f \in Outcomes :
         \/ "name" \in Calls /\ \E new \in BoIds : ImportFromName(id, new, f)
         \/ "map" \in Calls /\ BoCpuMap(id, f)
         \/ "write" \in Calls /\ BoWriteMapping(id, f)

ClientStep ==
  \/ \E b \in Foreign : Receive(b)
  \/ \E id \in DOMAIN bos : ReceiveMeta(id)
  \/ \E o \in offers : CloseOffer(o)

Next ==
  /\ ~segv
  /\ \/ \E b \in Local, f \in Outcomes : BoCreate(b, f)
     \/ ImportStep
     \/ BoStep
     \/ ClientStep

Spec == Init /\ [][Next]_vars

-----------------------------------------------------------------------------
Files == BufFiles \cup {Stdin}
FdOrNone == Fds \cup {NoFd}
AddrOrNull == Addrs \cup {NULL}

Entry == [mfd : FdOrNone, cpu : AddrOrNull, mt : AddrOrNull, ref : Nat]
BoFields == [fd : Fds, mfd : FdOrNone, handle : BufFiles \cup {NoHandle},
             mhandle : BufFiles \cup {NoHandle}, cpu : AddrOrNull, mt : AddrOrNull,
             size : 0 .. 2, named : BOOLEAN, buf : Bufs]

\* An object with a metadata address knows its size.
Bo == {bo \in BoFields : bo.mt # NULL => bo.size > 0}

\* Every variable holds what its C counterpart may hold.
TypeOK ==
  /\ MapsTo(fdt, Fds, Files)
  /\ MapsTo(maps, Addrs, [file : BufFiles, len : 1 .. 2, whole : BOOLEAN])
  /\ gem \subseteq BufFiles
  /\ MapsTo(reg, Fds, Entry)
  /\ MapsTo(bos, BoIds, Bo)
  /\ offers \subseteq Fds \X FdOrNone
  /\ segv \in BOOLEAN

\* The registry counts at least the live objects of every fd, whatever fails
\* on the way: no destroy can take itself for the last one too early.
RefsCover == \A fd \in Fds : Cardinality(Counted(fd)) <= RefOf(reg, fd)

\* It counts exactly them: the last destroy notices that it is the last, and
\* an fd nobody uses any more is not registered.
RefsExact ==
  /\ \A fd \in Fds : Cardinality(Counted(fd)) = RefOf(reg, fd)
  /\ \A fd \in DOMAIN reg : Counted(fd) # {}

\* What a live object refers to is there and belongs to its buffer: its
\* descriptors are open, its addresses mapped in full, its handles valid.
FdsUsable ==
  \A id \in DOMAIN bos : LET bo == bos[id] IN
    ~bo.named => /\ bo.fd \in DOMAIN fdt /\ fdt[bo.fd] = Data(bo.buf)
                 /\ bo.mfd # NoFd => bo.mfd \in DOMAIN fdt /\ fdt[bo.mfd] = Meta(bo.buf)

Mapped(a, file) == Readable(maps, a) /\ maps[a].file = file

MappingsUsable ==
  \A id \in DOMAIN bos : LET bo == bos[id] IN
    ~bo.named => /\ bo.cpu # NULL => Mapped(bo.cpu, Data(bo.buf))
                 /\ bo.mt # NULL => Mapped(bo.mt, Meta(bo.buf))

HandlesUsable ==
  \A id \in DOMAIN bos : LET bo == bos[id] IN
    ~bo.named => {bo.handle, bo.mhandle} \ {NoHandle} \subseteq gem

LiveUsable == FdsUsable /\ MappingsUsable /\ HandlesUsable

\* "Destroys the given buffer object and frees all resources associated with
\* it" (gbm.c, gbm_bo_destroy): once every object is destroyed and every offer
\* given up, nothing is left but what the process started with.
NoLeak ==
  (\A id \in DOMAIN bos : bos[id].named) /\ offers = {}
    => /\ DOMAIN fdt = Inherited
       /\ maps = EmptyMap
       /\ (DOMAIN bos = {} => gem = {})
       /\ reg = EmptyMap

\* A mapping disappears as a whole, in a call on an object that holds its
\* address, and the length the object gives munmap is the length it has.
UnmapExact ==
  [][\A a \in DOMAIN maps :
       \/ a \in DOMAIN maps' /\ maps'[a] = maps[a]
       \/ /\ a \notin DOMAIN maps'
          /\ \E id \in DOMAIN bos :
               /\ id \in DOMAIN bos' => bos'[id] # bos[id]
               /\ \/ bos[id].cpu = a /\ bos[id].size = maps[a].len
                  \/ bos[id].mt = a /\ MetaLen = maps[a].len]_vars

\* A metadata address is dereferenced only while it is mapped.
NoSegv == ~segv

\* Call by call, the library does what GbmSharing promises: a buffer's descriptor
\* is open while an object counts on it and closed by the last one that leaves.
Sharing == INSTANCE GbmSharing WITH
  Ids <- BoIds,
  pinned <- {fd \in Fds : IsDataFd(fd)},
  users <- [fd \in Fds |-> Counted(fd)]

ImplementsSharing == Sharing!Spec
=============================================================================
