----------------------------- MODULE GbmBo_proofs -----------------------------
(***************************************************************************)
(* Proofs about GbmBo, for any sets of buffers and objects.  Types and the *)
(* lower bound of the counts hold for any client and any failure; the rest *)
(* is about clients that give an object's two descriptors together: exact  *)
(* counts (Reliable), usable objects, exact unmapping and the refinement   *)
(* of GbmSharing (Paired, where PRIME may fail), and no leaks (Complete).  *)
(***************************************************************************)
EXTENDS GbmBo, GbmMapper_proofs, FiniteSetTheorems

\* An entry that is registered holds a reference: del_map_entry never counts
\* below zero.
PositiveRefs == \A fd \in DOMAIN reg : reg[fd].ref > 0

\* Only fd 0 can be something that is not a buffer, and no object is on it then.
FilesApart ==
  /\ \A fd \in DOMAIN fdt : fd # 0 => fdt[fd] \in BufFiles
  /\ \A id \in DOMAIN bos : bos[id].fd \in DOMAIN fdt => fdt[bos[id].fd] \in BufFiles

TypeInv == TypeOK /\ PositiveRefs /\ FilesApart

-----------------------------------------------------------------------------
(* The registry an import works on: reg with fd registered.                *)

Prepared(r, fd) ==
  /\ MapsTo(r, Fds, Entry)
  /\ \A k : k \in DOMAIN r <=> k \in DOMAIN reg \/ k = fd
  /\ \A k : RefOf(r, k) = RefOf(reg, k)

\* Entries over this process's fds and addresses, in the form GbmMapper_proofs uses.
LEMMA EntryIs == Entry = EntryOf(FdOrNone, AddrOrNull)
BY DEF Entry, EntryOf

\* The registry an import finds its fd in is prepared as it stands.
LEMMA PreparedAsIs ==
  ASSUME TypeOK, NEW fd, Registered(reg, fd)
  PROVE  Prepared(reg, fd)
BY DEF Prepared, TypeOK, Registered

\* register_to_map prepares it: the fd is entered, no count changes.
LEMMA PreparedRegister ==
  ASSUME TypeOK, NEW fd \in Fds, NEW mfd \in FdOrNone,
         NEW cpu \in AddrOrNull, NEW mt \in AddrOrNull
  PROVE  Prepared(Register(reg, fd, mfd, cpu, mt), fd)
<1>1. MapsTo(reg, Fds, EntryOf(FdOrNone, AddrOrNull))
  BY EntryIs DEF TypeOK
<1>2. /\ MapsTo(Register(reg, fd, mfd, cpu, mt), Fds, EntryOf(FdOrNone, AddrOrNull))
      /\ \A k : k \in DOMAIN Register(reg, fd, mfd, cpu, mt) <=> k \in DOMAIN reg \/ k = fd
      /\ \A k : RefOf(Register(reg, fd, mfd, cpu, mt), k) = RefOf(reg, k)
  BY <1>1, RegisterMapsTo
<1>. QED  BY <1>2, EntryIs DEF Prepared

\* So does update_map after it, the overwrite of import_gbm_buf and its kin.
LEMMA PreparedUpdate ==
  ASSUME TypeOK, NEW fd \in Fds, NEW mfd \in FdOrNone,
         NEW cpu \in AddrOrNull, NEW mt \in AddrOrNull
  PROVE  Prepared(Update(Register(reg, fd, mfd, cpu, mt), fd, mfd, cpu, mt), fd)
<1> DEFINE r == Register(reg, fd, mfd, cpu, mt)
<1>1. Prepared(r, fd)
  BY PreparedRegister
<1>2. MapsTo(r, Fds, EntryOf(FdOrNone, AddrOrNull))
  BY <1>1, EntryIs DEF Prepared
<1>3. /\ MapsTo(Update(r, fd, mfd, cpu, mt), Fds, EntryOf(FdOrNone, AddrOrNull))
      /\ DOMAIN Update(r, fd, mfd, cpu, mt) = DOMAIN r
      /\ \A k : RefOf(Update(r, fd, mfd, cpu, mt), k) = RefOf(r, k)
  BY <1>2, UpdateMapsTo
<1> HIDE DEF r
<1>4. Prepared(Update(r, fd, mfd, cpu, mt), fd)
  BY <1>1, <1>3, EntryIs DEF Prepared
<1>. QED  BY <1>4 DEF r

\* Counting the reference on it keeps every count positive, and changes no other.
LEMMA ReferenceTaken ==
  ASSUME TypeOK, PositiveRefs, NEW fd \in Fds, NEW r, Prepared(r, fd)
  PROVE  /\ MapsTo(IncRef(r, fd), Fds, Entry)
         /\ \A k \in DOMAIN IncRef(r, fd) : IncRef(r, fd)[k].ref > 0
         /\ RefOf(IncRef(r, fd), fd) = RefOf(reg, fd) + 1
         /\ \A k : k # fd => RefOf(IncRef(r, fd), k) = RefOf(reg, k)
<1>1. MapsTo(r, Fds, EntryOf(FdOrNone, AddrOrNull)) /\ Registered(r, fd)
  BY EntryIs DEF Prepared, Registered
<1>2. /\ MapsTo(IncRef(r, fd), Fds, EntryOf(FdOrNone, AddrOrNull))
      /\ DOMAIN IncRef(r, fd) = DOMAIN r
      /\ RefOf(IncRef(r, fd), fd) = RefOf(r, fd) + 1
      /\ \A k : k # fd => RefOf(IncRef(r, fd), k) = RefOf(r, k)
  BY <1>1, IncRefMapsTo
<1>3. RefOf(IncRef(r, fd), fd) = RefOf(reg, fd) + 1
  BY <1>2 DEF Prepared
<1>4. \A k : k # fd => RefOf(IncRef(r, fd), k) = RefOf(reg, k)
  BY <1>2 DEF Prepared
<1>5. ASSUME NEW k \in DOMAIN IncRef(r, fd)
      PROVE  IncRef(r, fd)[k].ref > 0
  <2>1. RefOf(IncRef(r, fd), k) = IncRef(r, fd)[k].ref
    BY DEF RefOf, Lookup, Registered
  <2>2. CASE k = fd
    <3>1. RefOf(reg, fd) \in Nat
      BY DEF RefOf, Lookup, Registered, TypeOK, MapsTo, Entry
    <3>. QED  BY <2>1, <2>2, <1>3, <3>1
  <2>3. CASE k # fd
    <3>1. k \in DOMAIN reg
      BY <1>2, <2>3 DEF Prepared
    <3>2. RefOf(reg, k) = reg[k].ref
      BY <3>1 DEF RefOf, Lookup, Registered
    <3>. QED  BY <2>1, <2>3, <1>4, <3>1, <3>2 DEF PositiveRefs
  <2>. QED  BY <2>2, <2>3
<1>. QED  BY <1>2, <1>3, <1>4, <1>5, EntryIs

-----------------------------------------------------------------------------
(* Types of the expressions the actions are built from.                    *)

\* A caller that looks an fd up holds values of an entry's type.
LEMMA EntryFound ==
  ASSUME TypeOK, NEW fd
  PROVE  /\ Lookup(reg, fd).mfd \in FdOrNone
         /\ Lookup(reg, fd).cpu \in AddrOrNull
         /\ Lookup(reg, fd).mt \in AddrOrNull
<1>1. MapsTo(reg, Fds, EntryOf(FdOrNone, AddrOrNull))
  BY EntryIs DEF TypeOK
<1>2. NoFd \in FdOrNone /\ NULL \in AddrOrNull
  BY DEF FdOrNone, AddrOrNull
<1>3. Lookup(reg, fd) \in EntryOf(FdOrNone, AddrOrNull)
  BY <1>1, <1>2, LookupType
<1>. QED  BY <1>3 DEF EntryOf

\* A mapping, as the mmap and munmap of the model leave it.
MapRec == [file : BufFiles, len : 1 .. 2, whole : BOOLEAN]

\* Whatever munmap is given, mappings stay mappings.
LEMMA MunmapType ==
  ASSUME NEW m, MapsTo(m, Addrs, MapRec), NEW a, NEW len
  PROVE  MapsTo(Munmap(m, a, len), Addrs, MapRec)
<1>1. CASE a \notin DOMAIN m
  BY <1>1 DEF Munmap
<1>2. CASE a \in DOMAIN m /\ m[a].len <= len
  <2>1. Munmap(m, a, len) = Drop(m, {a})
    BY <1>2 DEF Munmap
  <2>. QED  BY <2>1, DropMapsTo
<1>3. CASE a \in DOMAIN m /\ ~(m[a].len <= len)
  <2>1. Munmap(m, a, len) = [m EXCEPT ![a].whole = FALSE]
    BY <1>3 DEF Munmap
  <2>. QED  BY <1>3, <2>1 DEF MapsTo, MapRec
<1>. QED  BY <1>1, <1>2, <1>3

\* A new mapping of a buffer's file is one, too.
LEMMA MappingAdded ==
  ASSUME NEW m, MapsTo(m, Addrs, MapRec), NEW a \in Addrs,
         NEW file \in BufFiles, NEW len \in 1 .. 2
  PROVE  MapsTo(Put(m, a, Mapping(file, len)), Addrs, MapRec)
<1>1. Mapping(file, len) \in MapRec
  BY DEF Mapping, MapRec
<1>. QED  BY <1>1, PutMapsTo

\* Both layouts have a length.
LEMMA LenType == \A b : SizeOf(b) \in 1 .. 2
BY DEF SizeOf

\* An address or fd picked as the lowest one free is an address or fd.
LEMMA NextType ==
  /\ \A S : NextFd(S) \subseteq Fds
  /\ \A S : NextAddr(S) \subseteq Addrs
BY DEF NextFd, NextAddr

\* The metadata address an import settles on, and the mapping behind it.
LEMMA MetaTypes ==
  ASSUME TypeInv, NEW fd, NEW mfd, NEW a \in Addrs, NEW f
  PROVE  LET e == Lookup(reg, fd)
             mt == MetaAddr(e, mfd, a, f)
         IN /\ mt \in AddrOrNull
            /\ MapsTo(MapMeta(e, mfd, mt), Addrs, MapRec)
<1> DEFINE e == Lookup(reg, fd)
           mt == MetaAddr(e, mfd, a, f)
<1>1. e.mt \in AddrOrNull /\ MapsTo(maps, Addrs, MapRec)
  BY EntryFound DEF TypeInv, TypeOK, MapRec
<1>2. CASE mt = e.mt
  BY <1>1, <1>2 DEF MapMeta
<1>3. CASE mt # e.mt
  <2>1. mt = a /\ mfd > 0 /\ mfd \in DOMAIN fdt
    BY <1>3 DEF MetaAddr
  <2>2. fdt[mfd] \in BufFiles
    BY <2>1 DEF TypeInv, FilesApart
  <2>3. MapsTo(Put(maps, a, Mapping(fdt[mfd], MetaLen)), Addrs, MapRec)
    BY <1>1, <2>2, MappingAdded DEF MetaLen
  <2>. QED  BY <1>3, <2>1, <2>3 DEF MapMeta, AddrOrNull
<1>. QED  BY <1>2, <1>3

\* The data address, and the mapping behind it.
LEMMA DataTypes ==
  ASSUME TypeInv, NEW fd, NEW m, MapsTo(m, Addrs, MapRec), NEW mt,
         NEW c \in Addrs, NEW f, NEW g, g \in DOMAIN fdt, fdt[g] \in BufFiles,
         NEW len \in 1 .. 2
  PROVE  LET e == Lookup(reg, fd)
             cpu == DataAddr(e, m, mt, c, f)
         IN /\ cpu \in AddrOrNull
            /\ MapsTo(MapData(e, m, g, cpu, len), Addrs, MapRec)
<1> DEFINE e == Lookup(reg, fd)
           cpu == DataAddr(e, m, mt, c, f)
<1>1. e.cpu \in AddrOrNull
  BY EntryFound DEF TypeInv
<1>2. CASE cpu = e.cpu
  BY <1>1, <1>2 DEF MapData
<1>3. CASE cpu # e.cpu
  <2>1. cpu = c
    BY <1>3 DEF DataAddr
  <2>2. MapsTo(Put(m, c, Mapping(fdt[g], len)), Addrs, MapRec)
    BY MappingAdded
  <2>. QED  BY <1>3, <2>1, <2>2 DEF MapData, AddrOrNull
<1>. QED  BY <1>2, <1>3

-----------------------------------------------------------------------------
(* Every action keeps TypeInv.                                             *)

\* What is behind a descriptor is a buffer, or has no handle.
LEMMA FileType ==
  ASSUME TypeInv, NEW fd
  PROVE  FileOf(fd) \in BufFiles \cup {NoHandle}
BY DEF FileOf, TypeInv, TypeOK, MapsTo, Files, NoHandle, Stdin

\* The handle of such a file is the file's or 0.
LEMMA HandleType ==
  ASSUME NEW file \in BufFiles \cup {NoHandle}, NEW f
  PROVE  HandleOf(file, f) \in BufFiles \cup {NoHandle}
BY DEF HandleOf

\* What a client may pass as data fd is open and belongs to a buffer.
LEMMA DataFdType ==
  ASSUME NEW fd, IsDataFd(fd)
  PROVE  fd \in DOMAIN fdt /\ fdt[fd] \in BufFiles /\ fdt[fd][1] \in Bufs
BY DEF IsDataFd, Data, BufFiles

\* The common tail of the imports: reference, handles, object, offer.
LEMMA ImportTailType ==
  ASSUME TypeInv, NEW fd \in Fds, IsDataFd(fd), NEW mfd \in FdOrNone, NEW given,
         NEW registry, Prepared(registry, fd), NEW cpu \in AddrOrNull,
         NEW mt \in AddrOrNull, NEW len \in 1 .. 2, NEW f,
         ImportTail(fd, mfd, given, registry, cpu, mt, len, f),
         fdt' = fdt, segv' = segv, MapsTo(maps', Addrs, MapRec)
  PROVE  TypeInv'
<1>1. PICK id \in BoIds \ DOMAIN bos :
        LET h == HandleOf(fdt[fd], f)
            mh == HandleOf(FileOf(given), f)
        IN /\ reg' = IncRef(registry, fd)
           /\ gem' = (gem \cup {h, mh}) \ {NoHandle}
           /\ bos' = IF f = "calloc" THEN bos
                     ELSE Put(bos, id,
                           [fd |-> fd, mfd |-> mfd, handle |-> h,
                            mhandle |-> mh, cpu |-> cpu, mt |-> mt, size |-> len,
                            named |-> FALSE, buf |-> fdt[fd][1]])
           /\ offers' = IF f = "calloc" THEN offers ELSE offers \ {<<fd, given>>}
  BY DEF ImportTail
<1> DEFINE h == HandleOf(fdt[fd], f)
           mh == HandleOf(FileOf(given), f)
           bo == [fd |-> fd, mfd |-> mfd, handle |-> h, mhandle |-> mh,
                  cpu |-> cpu, mt |-> mt, size |-> len, named |-> FALSE,
                  buf |-> fdt[fd][1]]
<1>2. fd \in DOMAIN fdt /\ fdt[fd] \in BufFiles /\ fdt[fd][1] \in Bufs
  BY DataFdType
<1>3. {h, mh} \subseteq BufFiles \cup {NoHandle}
  BY <1>2, FileType, HandleType
<1>4. bo \in Bo
  BY <1>2, <1>3 DEF Bo, BoFields
<1>5. MapsTo(bos', BoIds, Bo)
  <2>1. MapsTo(bos, BoIds, Bo)
    BY DEF TypeInv, TypeOK
  <2>2. MapsTo(Put(bos, id, bo), BoIds, Bo)
    BY <1>4, <2>1, PutMapsTo
  <2>. QED  BY <1>1, <2>1, <2>2
<1>6. MapsTo(reg', Fds, Entry) /\ PositiveRefs'
  BY <1>1, ReferenceTaken DEF TypeInv, PositiveRefs
<1>7. gem' \subseteq BufFiles
  BY <1>1, <1>3 DEF TypeInv, TypeOK
<1>8. FilesApart'
  <2>1. \A k \in DOMAIN bos' :
          \/ bos'[k].fd = fd
          \/ k \in DOMAIN bos /\ bos'[k] = bos[k]
    BY <1>1 DEF Put
  <2>. QED  BY <1>2, <2>1 DEF TypeInv, FilesApart
<1>9. offers' \subseteq Fds \X FdOrNone
  BY <1>1 DEF TypeInv, TypeOK
<1>. QED  BY <1>5, <1>6, <1>7, <1>8, <1>9 DEF TypeInv, TypeOK, MapRec

\* The shape of every import that reaches its end.
Imported(fd, f) ==
  /\ IsDataFd(fd)
  /\ fdt' = fdt
  /\ segv' = segv
  /\ MapsTo(maps', Addrs, MapRec)
  /\ \E mfd \in FdOrNone, cpu \in AddrOrNull, mt \in AddrOrNull, len \in 1 .. 2 :
       \E given, registry :
         Prepared(registry, fd) /\ ImportTail(fd, mfd, given, registry, cpu, mt, len, f)

\* An import that ends in the common tail has that shape.
LEMMA ImportedIs ==
  ASSUME NEW fd, IsDataFd(fd), NEW mfd \in FdOrNone, NEW given,
         NEW registry, Prepared(registry, fd), NEW cpu \in AddrOrNull,
         NEW mt \in AddrOrNull, NEW len \in 1 .. 2, NEW f,
         ImportTail(fd, mfd, given, registry, cpu, mt, len, f),
         fdt' = fdt, segv' = segv, MapsTo(maps', Addrs, MapRec)
  PROVE  Imported(fd, f)
BY DEF Imported

\* Whichever import it is, TypeInv survives it.
LEMMA ImportedType ==
  ASSUME TypeInv, NEW fd \in Fds, NEW f, Imported(fd, f)
  PROVE  TypeInv'
<1>1. PICK mfd \in FdOrNone, cpu \in AddrOrNull, mt \in AddrOrNull, len \in 1 .. 2 :
        \E given, registry :
          Prepared(registry, fd) /\ ImportTail(fd, mfd, given, registry, cpu, mt, len, f)
  BY DEF Imported
<1>2. PICK given, registry :
        Prepared(registry, fd) /\ ImportTail(fd, mfd, given, registry, cpu, mt, len, f)
  BY <1>1
<1>. QED  BY <1>2, ImportTailType DEF Imported

\* A step that crashes on a metadata address changes nothing else.
LEMMA SegvType == TypeInv /\ Segv => TypeInv'
BY DEF Segv, TypeInv, TypeOK, PositiveRefs, FilesApart

\* msmgbm_bo_import_fd crashes or ends in the common tail.
LEMMA ImportFdShape ==
  ASSUME TypeInv, NEW fd \in Fds, NEW f, ImportFd(fd, f)
  PROVE  Segv \/ Imported(fd, f)
<1> DEFINE e == Lookup(reg, fd)
           found == e.mfd # NoFd
           registry == Register(reg, fd, NoFd, NULL, NULL)
           len == IF found THEN SizeOf(maps[e.mt].file[1]) ELSE LinearLen
<1>1. CASE Segv
  BY <1>1
<1>2. CASE ~Segv
  <2>1. /\ ImportTail(fd, e.mfd, NoFd, registry, e.cpu, e.mt, len, f)
        /\ UNCHANGED <<fdt, maps, segv>>
    BY <1>2 DEF ImportFd
  <2>2. IsDataFd(fd)
    BY DEF ImportFd, OfferedFd
  <2>3. Prepared(registry, fd)
    BY PreparedRegister DEF TypeInv, FdOrNone, AddrOrNull
  <2>4. e.mfd \in FdOrNone /\ e.cpu \in AddrOrNull /\ e.mt \in AddrOrNull
    BY EntryFound DEF TypeInv
  <2>5. len \in 1 .. 2
    BY LenType DEF LinearLen
  <2>6. MapsTo(maps', Addrs, MapRec)
    BY <2>1 DEF TypeInv, TypeOK, MapRec
  <2> HIDE DEF e, registry, len
  <2>. QED  BY <2>1, <2>2, <2>3, <2>4, <2>5, <2>6, ImportedIs
<1>. QED  BY <1>1, <1>2

\* The early return of msmgbm_bo_import_fd leaves a reference, and types, in place.
LEMMA ImportFdBadFormatType ==
  ASSUME TypeInv, NEW fd \in Fds, ImportFdBadFormat(fd)
  PROVE  TypeInv'
<1> DEFINE registry == Register(reg, fd, NoFd, NULL, NULL)
<1>1. Prepared(registry, fd)
  BY PreparedRegister DEF TypeInv, FdOrNone, AddrOrNull
<1>2. reg' = IncRef(registry, fd) /\ UNCHANGED <<fdt, maps, gem, bos, offers, segv>>
  BY DEF ImportFdBadFormat
<1> HIDE DEF registry
<1>3. MapsTo(reg', Fds, Entry) /\ PositiveRefs'
  BY <1>1, <1>2, ReferenceTaken DEF TypeInv, PositiveRefs
<1>. QED  BY <1>2, <1>3 DEF TypeInv, TypeOK, FilesApart

\* msmgbm_bo_import_gbm_buf crashes or ends in the common tail.
LEMMA ImportGbmBufShape ==
  ASSUME TypeInv, NEW fd \in Fds, NEW mfd \in FdOrNone, NEW f,
         ImportGbmBuf(fd, mfd, f)
  PROVE  Segv \/ Imported(fd, f)
<1> DEFINE e == Lookup(reg, fd)
<1>1. CASE Segv
  BY <1>1
<1>2. CASE ~Segv
  <2>1. PICK a \in NextAddr({}) : \E c \in NextAddr({a}) :
          LET mt == MetaAddr(e, mfd, a, f)
              m == MapMeta(e, mfd, mt)
              len == UbwcLen(m, mt)
              cpu == DataAddr(e, m, mt, c, f)
              registry == IF Registered(reg, fd) /\ e.mfd >= 0 THEN reg
                          ELSE Update(Register(reg, fd, mfd, cpu, mt), fd, mfd, cpu, mt)
          IN /\ ImportTail(fd, mfd, mfd, registry, cpu, mt, len, f)
             /\ maps' = MapData(e, m, fd, cpu, len)
             /\ UNCHANGED <<fdt, segv>>
    BY <1>2 DEF ImportGbmBuf
  <2>2. PICK c \in NextAddr({a}) :
          LET mt == MetaAddr(e, mfd, a, f)
              m == MapMeta(e, mfd, mt)
              len == UbwcLen(m, mt)
              cpu == DataAddr(e, m, mt, c, f)
              registry == IF Registered(reg, fd) /\ e.mfd >= 0 THEN reg
                          ELSE Update(Register(reg, fd, mfd, cpu, mt), fd, mfd, cpu, mt)
          IN /\ ImportTail(fd, mfd, mfd, registry, cpu, mt, len, f)
             /\ maps' = MapData(e, m, fd, cpu, len)
             /\ UNCHANGED <<fdt, segv>>
    BY <2>1
  <2> DEFINE mt == MetaAddr(e, mfd, a, f)
             m == MapMeta(e, mfd, mt)
             len == UbwcLen(m, mt)
             cpu == DataAddr(e, m, mt, c, f)
             registry == IF Registered(reg, fd) /\ e.mfd >= 0 THEN reg
                         ELSE Update(Register(reg, fd, mfd, cpu, mt), fd, mfd, cpu, mt)
  <2>3. a \in Addrs /\ c \in Addrs
    BY NextType
  <2>4. mt \in AddrOrNull /\ MapsTo(m, Addrs, MapRec)
    BY <2>3, MetaTypes
  <2>5. len \in 1 .. 2
    BY LenType DEF UbwcLen, LinearLen
  <2>6. IsDataFd(fd) /\ fd \in DOMAIN fdt /\ fdt[fd] \in BufFiles
    BY DataFdType DEF ImportGbmBuf, Offered
  <2>7. cpu \in AddrOrNull /\ MapsTo(MapData(e, m, fd, cpu, len), Addrs, MapRec)
    <3> HIDE DEF m, mt, len
    <3>. QED  BY <2>3, <2>4, <2>5, <2>6, DataTypes
  <2>8. Prepared(registry, fd)
    <3> HIDE DEF cpu, mt
    <3>. QED  BY <2>4, <2>7, PreparedUpdate, PreparedAsIs DEF TypeInv
  <2>9. /\ ImportTail(fd, mfd, mfd, registry, cpu, mt, len, f)
        /\ maps' = MapData(e, m, fd, cpu, len)
        /\ fdt' = fdt /\ segv' = segv
    BY <2>2
  <2> HIDE DEF e, mt, m, len, cpu, registry
  <2>. QED  BY <2>4, <2>5, <2>6, <2>7, <2>8, <2>9, ImportedIs
<1>. QED  BY <1>1, <1>2

\* msmgbm_bo_import_wl_buffer crashes or ends in the common tail.
LEMMA ImportWlBufferShape ==
  ASSUME TypeInv, NEW fd \in Fds, NEW mfd \in FdOrNone, NEW f,
         ImportWlBuffer(fd, mfd, f)
  PROVE  Segv \/ Imported(fd, f)
<1> DEFINE e == Lookup(reg, fd)
<1>1. CASE Segv
  BY <1>1
<1>2. CASE ~Segv
  <2>1. PICK a \in NextAddr({}) : \E c \in NextAddr({a}) :
          LET mt == MetaAddr(e, mfd, a, f)
              m == MapMeta(e, mfd, mt)
              cpu == DataAddr(e, m, mt, c, f)
              registry == IF mfd > 0 /\ mfd # e.mfd
                          THEN Update(Register(reg, fd, mfd, cpu, mt), fd, mfd, cpu, mt)
                          ELSE Register(reg, fd, mfd, cpu, mt)
          IN /\ ImportTail(fd, mfd, mfd, registry, cpu, mt, LinearLen, f)
             /\ maps' = MapData(e, m, fd, cpu, LinearLen)
             /\ UNCHANGED <<fdt, segv>>
    BY <1>2 DEF ImportWlBuffer
  <2>2. PICK c \in NextAddr({a}) :
          LET mt == MetaAddr(e, mfd, a, f)
              m == MapMeta(e, mfd, mt)
              cpu == DataAddr(e, m, mt, c, f)
              registry == IF mfd > 0 /\ mfd # e.mfd
                          THEN Update(Register(reg, fd, mfd, cpu, mt), fd, mfd, cpu, mt)
                          ELSE Register(reg, fd, mfd, cpu, mt)
          IN /\ ImportTail(fd, mfd, mfd, registry, cpu, mt, LinearLen, f)
             /\ maps' = MapData(e, m, fd, cpu, LinearLen)
             /\ UNCHANGED <<fdt, segv>>
    BY <2>1
  <2> DEFINE mt == MetaAddr(e, mfd, a, f)
             m == MapMeta(e, mfd, mt)
             cpu == DataAddr(e, m, mt, c, f)
             registry == IF mfd > 0 /\ mfd # e.mfd
                         THEN Update(Register(reg, fd, mfd, cpu, mt), fd, mfd, cpu, mt)
                         ELSE Register(reg, fd, mfd, cpu, mt)
  <2>3. a \in Addrs /\ c \in Addrs
    BY NextType
  <2>4. mt \in AddrOrNull /\ MapsTo(m, Addrs, MapRec)
    BY <2>3, MetaTypes
  <2>5. LinearLen \in 1 .. 2
    BY DEF LinearLen
  <2>6. IsDataFd(fd) /\ fd \in DOMAIN fdt /\ fdt[fd] \in BufFiles
    BY DataFdType DEF ImportWlBuffer, Offered
  <2>7. cpu \in AddrOrNull /\ MapsTo(MapData(e, m, fd, cpu, LinearLen), Addrs, MapRec)
    <3> HIDE DEF m, mt
    <3>. QED  BY <2>3, <2>4, <2>5, <2>6, DataTypes
  <2>8. Prepared(registry, fd)
    <3> HIDE DEF cpu, mt
    <3>. QED  BY <2>4, <2>7, PreparedUpdate, PreparedRegister DEF TypeInv
  <2>9. /\ ImportTail(fd, mfd, mfd, registry, cpu, mt, LinearLen, f)
        /\ maps' = MapData(e, m, fd, cpu, LinearLen)
        /\ fdt' = fdt /\ segv' = segv
    BY <2>2
  <2> HIDE DEF e, mt, m, cpu, registry
  <2>. QED  BY <2>4, <2>5, <2>6, <2>7, <2>8, <2>9, ImportedIs
<1>. QED  BY <1>1, <1>2

\* msmgbm_bo_import_fd_modifier crashes or ends in the common tail.
LEMMA ImportFdModifierShape ==
  ASSUME TypeInv, NEW fd \in Fds, NEW f, ImportFdModifier(fd, f)
  PROVE  Segv \/ Imported(fd, f)
<1> DEFINE e == Lookup(reg, fd)
           len == SizeOf(fdt[fd][1])
<1>1. CASE Segv
  BY <1>1
<1>2. CASE ~Segv
  <2>1. PICK c \in NextAddr({}) :
          LET cpu == DataAddr(e, maps, e.mt, c, f)
              registry == IF Registered(reg, fd) /\ e.mfd >= 0 THEN reg
                          ELSE Update(Register(reg, fd, NoFd, cpu, e.mt), fd, NoFd, cpu, e.mt)
          IN /\ ImportTail(fd, NoFd, NoFd, registry, cpu, e.mt, len, f)
             /\ maps' = MapData(e, maps, fd, cpu, len)
             /\ UNCHANGED <<fdt, segv>>
    BY <1>2 DEF ImportFdModifier
  <2> DEFINE cpu == DataAddr(e, maps, e.mt, c, f)
             registry == IF Registered(reg, fd) /\ e.mfd >= 0 THEN reg
                         ELSE Update(Register(reg, fd, NoFd, cpu, e.mt), fd, NoFd, cpu, e.mt)
  <2>2. c \in Addrs /\ NoFd \in FdOrNone /\ len \in 1 .. 2
    BY NextType, LenType DEF FdOrNone
  <2>3. e.mt \in AddrOrNull /\ MapsTo(maps, Addrs, MapRec)
    BY EntryFound DEF TypeInv, TypeOK, MapRec
  <2>4. IsDataFd(fd) /\ fd \in DOMAIN fdt /\ fdt[fd] \in BufFiles
    BY DataFdType DEF ImportFdModifier, OfferedFd
  <2>5. cpu \in AddrOrNull /\ MapsTo(MapData(e, maps, fd, cpu, len), Addrs, MapRec)
    <3> HIDE DEF len
    <3>. QED  BY <2>2, <2>3, <2>4, DataTypes
  <2>6. Prepared(registry, fd)
    <3> HIDE DEF cpu
    <3>. QED  BY <2>2, <2>3, <2>5, PreparedUpdate, PreparedAsIs DEF TypeInv
  <2>7. /\ ImportTail(fd, NoFd, NoFd, registry, cpu, e.mt, len, f)
        /\ maps' = MapData(e, maps, fd, cpu, len)
        /\ fdt' = fdt /\ segv' = segv
    BY <2>1
  <2> HIDE DEF e, len, cpu, registry
  <2>. QED  BY <2>2, <2>3, <2>4, <2>5, <2>6, <2>7, ImportedIs
<1>. QED  BY <1>1, <1>2

\* Without its record it leaves at most a mapping.
LEMMA ImportFdModifierNoInfoType ==
  ASSUME TypeInv, NEW fd \in Fds, ImportFdModifierNoInfo(fd)
  PROVE  TypeInv'
<1> DEFINE e == Lookup(reg, fd)
           len == SizeOf(fdt[fd][1])
<1>1. PICK c \in NextAddr({}) :
        maps' = MapData(e, maps, fd, DataAddr(e, maps, e.mt, c, "none"), len)
  BY DEF ImportFdModifierNoInfo
<1>2. fd \in DOMAIN fdt /\ fdt[fd] \in BufFiles
  BY DataFdType DEF ImportFdModifierNoInfo, OfferedFd
<1>3. c \in Addrs /\ len \in 1 .. 2 /\ MapsTo(maps, Addrs, MapRec)
  BY NextType, LenType DEF TypeInv, TypeOK, MapRec
<1>4. UNCHANGED <<fdt, gem, reg, bos, offers, segv>>
  BY DEF ImportFdModifierNoInfo
<1>5. MapsTo(maps', Addrs, MapRec)
  <2> HIDE DEF len
  <2>. QED  BY <1>1, <1>2, <1>3, DataTypes
<1>. QED  BY <1>4, <1>5 DEF TypeInv, TypeOK, PositiveRefs, FilesApart, MapRec

\* A descriptor table whose entries are old ones or buffers keeps stdin apart
\* from objects on old descriptors, and on new ones that are buffers.
TableFrom(t) ==
  /\ MapsTo(t, Fds, Files)
  /\ \A k \in DOMAIN t : t[k] \in BufFiles \/ (k \in DOMAIN fdt /\ t[k] = fdt[k])

\* The table of the current state is one of these, ...
LEMMA TableAsIs == TypeInv => TableFrom(fdt)
BY DEF TypeInv, TypeOK, TableFrom

\* ... and stays one when a buffer's descriptor is added ...
LEMMA TablePut ==
  ASSUME NEW t, TableFrom(t), NEW d \in Fds, NEW file \in BufFiles
  PROVE  TableFrom(Put(t, d, file))
<1>1. MapsTo(Put(t, d, file), Fds, Files)
  BY PutMapsTo DEF TableFrom, Files
<1>. QED  BY <1>1 DEF TableFrom, Put

\* ... or descriptors are closed.
LEMMA TableDrop ==
  ASSUME NEW t, TableFrom(t), NEW K
  PROVE  TableFrom(Drop(t, K))
<1>1. MapsTo(Drop(t, K), Fds, Files)
  BY DropMapsTo DEF TableFrom
<1>. QED  BY <1>1 DEF TableFrom, Drop

\* Such a table keeps FilesApart when every object is on the fd of an old one
\* or on a buffer's.
LEMMA TableApart ==
  ASSUME TypeInv, TableFrom(fdt'),
         \A k \in DOMAIN bos' :
           \/ \E i \in DOMAIN bos : bos'[k].fd = bos[i].fd
           \/ bos'[k].fd \in DOMAIN fdt' => fdt'[bos'[k].fd] \in BufFiles
  PROVE  FilesApart'
BY DEF TableFrom, TypeInv, FilesApart

\* A buffer's data and metadata are buffer files.
LEMMA BufFileType == \A b \in Bufs : Data(b) \in BufFiles /\ Meta(b) \in BufFiles
BY DEF Data, Meta, BufFiles

\* msmgbm_bo_create, wherever it stops, keeps TypeInv.
LEMMA BoCreateType ==
  ASSUME TypeInv, NEW b \in Local, NEW f, BoCreate(b, f)
  PROVE  TypeInv'
<1> DEFINE step(d) == CreateReaches(b, d, f)
           cpu(c) == IF b \in Secure THEN NULL ELSE c
           maps1(c) == IF cpu(c) = NULL THEN maps
                       ELSE Put(maps, cpu(c), Mapping(Data(b), SizeOf(b)))
           fdt1(d) == Put(fdt, d, Data(b))
           bo(d, m, mt, c) ==
             [fd |-> d, mfd |-> m, handle |-> HandleOf(Data(b), f),
              mhandle |-> HandleOf(Meta(b), f), cpu |-> cpu(c), mt |-> mt,
              size |-> SizeOf(b), named |-> FALSE, buf |-> b]
<1>1. PICK d \in NextFd({}) : \E m \in NextFd({d}) :
        \E mt \in NextAddr({}) : \E c \in NextAddr({mt}) :
        \E id \in BoIds \ DOMAIN bos : CreateWith(b, f, d, m, mt, c, id)
  BY DEF BoCreate
<1>2. PICK m \in NextFd({d}) : \E mt \in NextAddr({}) : \E c \in NextAddr({mt}) :
        \E id \in BoIds \ DOMAIN bos : CreateWith(b, f, d, m, mt, c, id)
  BY <1>1
<1>3. PICK mt \in NextAddr({}) : \E c \in NextAddr({mt}) :
        \E id \in BoIds \ DOMAIN bos : CreateWith(b, f, d, m, mt, c, id)
  BY <1>2
<1>4. PICK c \in NextAddr({mt}), id \in BoIds \ DOMAIN bos :
        CreateWith(b, f, d, m, mt, c, id)
  BY <1>3
<1>5. d \in Fds /\ m \in Fds /\ mt \in Addrs /\ c \in Addrs
  BY NextType
<1>6. b \in Bufs /\ Data(b) \in BufFiles /\ Meta(b) \in BufFiles
  BY BufFileType DEF Bufs
<1>7. cpu(c) \in AddrOrNull /\ mt \in AddrOrNull /\ m \in FdOrNone
  BY <1>5 DEF AddrOrNull, FdOrNone
<1> HIDE DEF step
<1>8. TableFrom(fdt1(d)) /\ TableFrom(Put(fdt1(d), m, Meta(b)))
  BY <1>5, <1>6, TableAsIs, TablePut
<1>9. TableFrom(fdt')
  BY <1>4, <1>8 DEF CreateWith
<1>10. MapsTo(maps', Addrs, MapRec)
  <2>1. MapsTo(maps, Addrs, MapRec)
    BY DEF TypeInv, TypeOK, MapRec
  <2>2. MapsTo(maps1(c), Addrs, MapRec)
    BY <1>5, <1>6, <2>1, MappingAdded, LenType
  <2>3. MapsTo(Put(maps1(c), mt, Mapping(Meta(b), MetaLen)), Addrs, MapRec)
    BY <1>5, <1>6, <2>2, MappingAdded DEF MetaLen
  <2>4. maps' \in {maps, maps1(c), Put(maps1(c), mt, Mapping(Meta(b), MetaLen))}
    BY <1>4 DEF CreateWith
  <2> HIDE DEF maps1
  <2>. QED  BY <2>1, <2>2, <2>3, <2>4
<1>11. gem' \subseteq BufFiles
  <2>1. \E handled \in SUBSET {Data(b), Meta(b)} :
          gem' = gem \cup ({HandleOf(file, f) : file \in handled} \ {NoHandle})
    BY <1>4 DEF CreateWith
  <2>2. \A file \in {Data(b), Meta(b)} : HandleOf(file, f) \in BufFiles \cup {NoHandle}
    BY <1>6, HandleType
  <2>. QED  BY <2>1, <2>2 DEF TypeInv, TypeOK
<1>12. MapsTo(reg', Fds, Entry) /\ PositiveRefs'
  <2> DEFINE registry == Register(reg, d, m, cpu(c), mt)
  <2> HIDE DEF cpu
  <2>1. Prepared(registry, d)
    BY <1>5, <1>7, PreparedRegister DEF TypeInv
  <2> HIDE DEF registry
  <2>2. /\ MapsTo(IncRef(registry, d), Fds, Entry)
        /\ \A k \in DOMAIN IncRef(registry, d) : IncRef(registry, d)[k].ref > 0
    BY <1>5, <2>1, ReferenceTaken DEF TypeInv
  <2>3. reg' = reg \/ reg' = IncRef(registry, d)
    BY <1>4 DEF registry, cpu, CreateWith
  <2>. QED  BY <2>2, <2>3 DEF TypeInv, TypeOK, PositiveRefs
<1>13. MapsTo(bos', BoIds, Bo)
  <2>1. bo(d, m, mt, c) \in Bo
    BY <1>5, <1>6, <1>7, LenType, HandleType DEF Bo, BoFields
  <2>2. MapsTo(bos, BoIds, Bo)
    BY DEF TypeInv, TypeOK
  <2>3. MapsTo(Put(bos, id, bo(d, m, mt, c)), BoIds, Bo)
    BY <2>1, <2>2, PutMapsTo
  <2>4. bos' \in {bos, Put(bos, id, bo(d, m, mt, c))}
    BY <1>4 DEF CreateWith
  <2> HIDE DEF bo
  <2>. QED  BY <2>2, <2>3, <2>4
<1>14. FilesApart'
  <2>1. d # m /\ fdt'[d] = Data(b)
    BY <1>4, <1>5 DEF Put, NextFd, CreateWith
  <2>2. \A k \in DOMAIN bos' : bos'[k].fd = d \/ (k \in DOMAIN bos /\ bos'[k] = bos[k])
    BY <1>4 DEF Put, CreateWith
  <2>. QED  BY <1>6, <1>9, <2>1, <2>2, TableApart
<1>15. UNCHANGED <<offers, segv>>
  BY <1>4 DEF CreateWith
<1>. QED
  BY <1>9, <1>10, <1>11, <1>12, <1>13, <1>14, <1>15
  DEF TypeInv, TypeOK, TableFrom, MapRec

\* msmgbm_bo_destroy, last one or not, keeps TypeInv.
LEMMA BoDestroyType ==
  ASSUME TypeInv, NEW id \in DOMAIN bos, BoDestroy(id)
  PROVE  TypeInv'
<1> DEFINE bo == bos[id]
<1>1. MapsTo(reg', Fds, Entry) /\ PositiveRefs'
  <2>1. MapsTo(reg, Fds, EntryOf(FdOrNone, AddrOrNull)) /\ PositiveRefs
    BY EntryIs DEF TypeInv, TypeOK
  <2>2. /\ MapsTo(DecRef(reg, bo.fd), Fds, EntryOf(FdOrNone, AddrOrNull))
        /\ \A k \in DOMAIN DecRef(reg, bo.fd) : DecRef(reg, bo.fd)[k].ref > 0
    BY <2>1, DecRefMapsTo DEF PositiveRefs
  <2>3. reg' = DecRef(reg, bo.fd)
    BY DEF BoDestroy
  <2>. QED  BY <2>2, <2>3, EntryIs DEF PositiveRefs
<1>2. MapsTo(maps', Addrs, MapRec)
  <2>1. MapsTo(maps, Addrs, MapRec)
    BY DEF TypeInv, TypeOK, MapRec
  <2>2. MapsTo(Munmap(maps, bo.cpu, bo.size), Addrs, MapRec)
    BY <2>1, MunmapType
  <2>3. MapsTo(UnmapBoth(maps, bo), Addrs, MapRec)
    BY <2>2, MunmapType DEF UnmapBoth
  <2>. QED  BY <2>1, <2>3 DEF BoDestroy
<1>3. MapsTo(bos', BoIds, Bo)
  BY DropMapsTo DEF BoDestroy, TypeInv, TypeOK
<1>4. TableFrom(fdt')
  BY TableAsIs, TableDrop DEF BoDestroy
<1>5. FilesApart'
  <2>1. \A k \in DOMAIN bos' : k \in DOMAIN bos /\ bos'[k] = bos[k]
    BY DEF BoDestroy, Drop
  <2>. QED  BY <1>4, <2>1, TableApart
<1>6. gem' \subseteq BufFiles /\ UNCHANGED <<offers, segv>>
  BY DEF BoDestroy, TypeInv, TypeOK
<1>. QED
  BY <1>1, <1>2, <1>3, <1>4, <1>5, <1>6 DEF TypeInv, TypeOK, TableFrom, MapRec

\* Without its object it leaves at most a handle.
LEMMA ImportFromNameNoInfoType ==
  ASSUME TypeInv, NEW id \in DOMAIN bos, ImportFromNameNoInfo(id)
  PROVE  TypeInv'
<1> PICK h : h = HandleOf(fdt[bos[id].fd], "none")
  OBVIOUS
<1>1. /\ gem' = (gem \cup {h}) \ {NoHandle} /\ IsDataFd(bos[id].fd)
      /\ UNCHANGED <<fdt, maps, reg, bos, offers, segv>>
  BY DEF ImportFromNameNoInfo
<1>2. h \in BufFiles \cup {NoHandle}
  BY <1>1, DataFdType, HandleType
<1>. QED  BY <1>1, <1>2 DEF TypeInv, TypeOK, PositiveRefs, FilesApart

\* msmgbm_bo_import_from_name keeps TypeInv.
LEMMA ImportFromNameType ==
  ASSUME TypeInv, NEW id \in DOMAIN bos, NEW new \in BoIds, NEW f,
         ImportFromName(id, new, f)
  PROVE  TypeInv'
<1> DEFINE fd == bos[id].fd
           h == HandleOf(fdt[fd], f)
           bo == [fd |-> fd, mfd |-> 0, handle |-> h, mhandle |-> NoHandle,
                  cpu |-> NULL, mt |-> NULL, size |-> 0, named |-> TRUE,
                  buf |-> fdt[fd][1]]
<1>1. fd \in Fds /\ fd \in DOMAIN fdt /\ fdt[fd] \in BufFiles /\ fdt[fd][1] \in Bufs
  <2>1. fd \in Fds
    BY DEF TypeInv, TypeOK, MapsTo, Bo, BoFields
  <2>2. IsDataFd(fd)
    BY DEF ImportFromName
  <2>. QED  BY <2>1, <2>2, DataFdType
<1>2. 0 \in FdOrNone /\ NULL \in AddrOrNull
  BY BoAssumption DEF FdOrNone, Fds, AddrOrNull
<1>3. h \in BufFiles \cup {NoHandle} /\ bo \in Bo
  BY <1>1, <1>2, HandleType DEF Bo, BoFields
<1>4. bos' = Put(bos, new, bo) /\ gem' = (gem \cup {h}) \ {NoHandle}
      /\ UNCHANGED <<fdt, maps, reg, offers, segv>>
  BY DEF ImportFromName
<1>5. MapsTo(bos', BoIds, Bo)
  BY <1>3, <1>4, PutMapsTo DEF TypeInv, TypeOK
<1>6. \A k \in DOMAIN bos' : bos'[k].fd = fd \/ (k \in DOMAIN bos /\ bos'[k] = bos[k])
  BY <1>4 DEF Put
<1>7. FilesApart'
  BY <1>1, <1>4, <1>6 DEF TypeInv, FilesApart
<1>. QED  BY <1>1, <1>3, <1>4, <1>5, <1>7 DEF TypeInv, TypeOK, PositiveRefs

\* Mapping an object keeps TypeInv.
LEMMA BoCpuMapType ==
  ASSUME TypeInv, NEW id \in DOMAIN bos, NEW f, BoCpuMap(id, f)
  PROVE  TypeInv'
<1> DEFINE bo == bos[id]
<1>1. CASE Segv
  BY <1>1, SegvType
<1>2. CASE ~Segv
  <2>1. PICK c \in NextAddr({}) :
          /\ CanMap(bo, f)
          /\ maps' = Put(maps, c, Mapping(fdt[bo.fd], bo.size))
          /\ bos' = [bos EXCEPT ![id].cpu = c]
          /\ UNCHANGED <<fdt, gem, reg, offers, segv>>
    BY <1>2 DEF BoCpuMap
  <2>2. c \in Addrs
    BY NextType
  <2>3. bos[id] \in Bo
    BY DEF TypeInv, TypeOK, MapsTo
  <2>4. fdt[bo.fd] \in BufFiles
    BY <2>1 DEF CanMap, TypeInv, FilesApart
  <2>5. MapsTo(maps', Addrs, MapRec)
    <3>1. bo.size \in 1 .. 2
      BY <2>1, <2>3 DEF CanMap, Bo, BoFields
    <3>2. MapsTo(maps, Addrs, MapRec)
      BY DEF TypeInv, TypeOK, MapRec
    <3>. QED  BY <2>1, <2>2, <2>4, <3>1, <3>2, MappingAdded
  <2>6. MapsTo(bos', BoIds, Bo)
    BY <2>1, <2>2, <2>3 DEF TypeInv, TypeOK, MapsTo, Bo, BoFields, AddrOrNull
  <2>7. FilesApart'
    BY <2>1 DEF TypeInv, FilesApart
  <2>. QED  BY <2>1, <2>5, <2>6, <2>7 DEF TypeInv, TypeOK, PositiveRefs, MapRec
<1>. QED  BY <1>1, <1>2

\* msmgbm_bo_write and its unmap of both addresses keep TypeInv.
LEMMA BoWriteMappingType ==
  ASSUME TypeInv, NEW id \in DOMAIN bos, NEW f, BoWriteMapping(id, f)
  PROVE  TypeInv'
<1>1. CASE Segv
  BY <1>1, SegvType
<1>2. CASE ~Segv
  <2>1. /\ maps' = Munmap(maps, bos[id].mt, MetaLen)
        /\ bos' = [bos EXCEPT ![id].cpu = NULL, ![id].mt = NULL]
        /\ UNCHANGED <<fdt, gem, reg, offers, segv>>
    BY <1>2 DEF BoWriteMapping
  <2>2. MapsTo(maps', Addrs, MapRec)
    BY <2>1, MunmapType DEF TypeInv, TypeOK, MapRec
  <2>3. MapsTo(bos', BoIds, Bo)
    BY <2>1 DEF TypeInv, TypeOK, MapsTo, Bo, BoFields, AddrOrNull
  <2>4. FilesApart'
    BY <2>1 DEF TypeInv, FilesApart
  <2>. QED  BY <2>1, <2>2, <2>3, <2>4 DEF TypeInv, TypeOK, PositiveRefs, MapRec
<1>. QED  BY <1>1, <1>2

\* Taking the metadata fd over from the registry keeps TypeInv.
LEMMA RefreshMetaFdType ==
  ASSUME TypeInv, NEW id \in DOMAIN bos, RefreshMetaFd(id)
  PROVE  TypeInv'
<1> DEFINE e == Lookup(reg, bos[id].fd)
<1>1. bos' = [bos EXCEPT ![id].mfd = e.mfd] /\ UNCHANGED <<fdt, maps, gem, reg, offers, segv>>
  BY DEF RefreshMetaFd
<1>2. e.mfd \in FdOrNone
  BY EntryFound DEF TypeInv
<1>3. MapsTo(bos', BoIds, Bo)
  BY <1>1, <1>2 DEF TypeInv, TypeOK, MapsTo, Bo, BoFields
<1>4. FilesApart'
  BY <1>1 DEF TypeInv, FilesApart
<1>. QED  BY <1>1, <1>3, <1>4 DEF TypeInv, TypeOK, PositiveRefs

\* Descriptors received from another process keep TypeInv.
LEMMA ReceiveType ==
  ASSUME TypeInv, NEW b \in Foreign, Receive(b)
  PROVE  TypeInv'
<1>1. PICK d \in NextFd({}) : \E m \in NextFd({d}) :
        /\ \/ /\ fdt' = Put(Put(fdt, d, Data(b)), m, Meta(b))
              /\ offers' = {<<d, m>>}
           \/ /\ fdt' = Put(fdt, d, Data(b))
              /\ offers' = {<<d, NoFd>>}
        /\ UNCHANGED <<maps, gem, reg, bos, segv>>
  BY DEF Receive
<1>2. PICK m \in NextFd({d}) :
        /\ \/ /\ fdt' = Put(Put(fdt, d, Data(b)), m, Meta(b))
              /\ offers' = {<<d, m>>}
           \/ /\ fdt' = Put(fdt, d, Data(b))
              /\ offers' = {<<d, NoFd>>}
        /\ UNCHANGED <<maps, gem, reg, bos, segv>>
  BY <1>1
<1>3. d \in Fds /\ m \in Fds /\ b \in Bufs
  BY NextType DEF Bufs
<1>4. TableFrom(Put(fdt, d, Data(b))) /\ TableFrom(Put(Put(fdt, d, Data(b)), m, Meta(b)))
  BY <1>3, BufFileType, TableAsIs, TablePut
<1>5. TableFrom(fdt')
  BY <1>2, <1>4
<1>6. FilesApart'
  BY <1>2, <1>5, TableApart
<1>7. offers' \subseteq Fds \X FdOrNone
  BY <1>2, <1>3 DEF FdOrNone
<1>. QED  BY <1>2, <1>5, <1>6, <1>7 DEF TypeInv, TypeOK, TableFrom, PositiveRefs

\* So does a metadata descriptor that arrives late.
LEMMA ReceiveMetaType ==
  ASSUME TypeInv, NEW id \in DOMAIN bos, ReceiveMeta(id)
  PROVE  TypeInv'
<1>1. PICK m \in NextFd({}) :
        /\ bos[id].buf \in Foreign
        /\ fdt' = Put(fdt, m, Meta(bos[id].buf))
        /\ offers' = {<<bos[id].fd, m>>}
        /\ UNCHANGED <<maps, gem, reg, bos, segv>>
  BY DEF ReceiveMeta
<1>2. m \in Fds /\ bos[id].fd \in Fds /\ bos[id].buf \in Bufs
  BY <1>1, NextType DEF Bufs, TypeInv, TypeOK, MapsTo, Bo, BoFields
<1>3. TableFrom(fdt')
  BY <1>1, <1>2, BufFileType, TableAsIs, TablePut
<1>4. FilesApart'
  BY <1>1, <1>3, TableApart
<1>5. offers' \subseteq Fds \X FdOrNone
  BY <1>1, <1>2 DEF FdOrNone
<1>. QED  BY <1>1, <1>3, <1>4, <1>5 DEF TypeInv, TypeOK, TableFrom, PositiveRefs

\* So does giving an offer up.
LEMMA CloseOfferType ==
  ASSUME TypeInv, NEW o \in offers, CloseOffer(o)
  PROVE  TypeInv'
<1>1. TableFrom(fdt')
  BY TableAsIs, TableDrop DEF CloseOffer
<1>2. FilesApart'
  BY <1>1, TableApart DEF CloseOffer
<1>. QED  BY <1>1, <1>2 DEF CloseOffer, TypeInv, TypeOK, TableFrom, PositiveRefs

-----------------------------------------------------------------------------
\* TypeInv holds at the start ...
LEMMA InitType == Init => TypeInv
<1> SUFFICES ASSUME Init PROVE TypeInv
  OBVIOUS
<1>1. MapsTo(fdt, Fds, Files)
  BY BoAssumption DEF Init, MapsTo, Files, Fds
<1>2. \A S, T : MapsTo(EmptyMap, S, T)
  BY DEF MapsTo, EmptyMap
<1>3. TypeOK
  BY <1>1, <1>2 DEF Init, TypeOK
<1>. QED
  BY <1>3, BoAssumption DEF Init, TypeInv, PositiveRefs, FilesApart, EmptyMap

\* ... and every call of the API, failing or not, keeps it.
LEMMA NextKeepsType == TypeInv /\ [Next]_vars => TypeInv'
<1> SUFFICES ASSUME TypeInv, [Next]_vars PROVE TypeInv'
  OBVIOUS
<1>1. CASE UNCHANGED vars
  BY <1>1 DEF vars, TypeInv, TypeOK, PositiveRefs, FilesApart
<1>2. ASSUME NEW b \in Local, NEW f, BoCreate(b, f) PROVE TypeInv'
  BY <1>2, BoCreateType
<1>3. CASE ImportStep
  <2>1. PICK fd \in Fds, f \in Outcomes :
          \/ ImportFd(fd, f) \/ ImportFdBadFormat(fd) \/ ImportFdModifier(fd, f)
          \/ ImportFdModifierNoInfo(fd)
          \/ \E mfd \in FdOrNone : ImportGbmBuf(fd, mfd, f) \/ ImportWlBuffer(fd, mfd, f)
    BY <1>3 DEF ImportStep, FdOrNone
  <2>2. \/ Segv \/ Imported(fd, f)
        \/ ImportFdBadFormat(fd) \/ ImportFdModifierNoInfo(fd)
    BY <2>1, ImportFdShape, ImportFdModifierShape, ImportGbmBufShape, ImportWlBufferShape
  <2>. QED
    BY <2>2, SegvType, ImportedType, ImportFdBadFormatType, ImportFdModifierNoInfoType
<1>4. CASE BoStep
  <2>1. PICK id \in DOMAIN bos :
          \/ BoDestroy(id) \/ RefreshMetaFd(id) \/ ImportFromNameNoInfo(id)
          \/ \E new \in BoIds : \E f : ImportFromName(id, new, f)
          \/ \E f \in Outcomes : BoCpuMap(id, f) \/ BoWriteMapping(id, f)
    BY <1>4 DEF BoStep
  <2>. QED
    BY <2>1, BoDestroyType, RefreshMetaFdType, ImportFromNameType, ImportFromNameNoInfoType,
       BoCpuMapType, BoWriteMappingType
<1>5. CASE ClientStep
  BY <1>5, ReceiveType, ReceiveMetaType, CloseOfferType DEF ClientStep
<1>. QED  BY <1>1, <1>2, <1>3, <1>4, <1>5 DEF Next

\* Whatever the client calls and whatever fails, every variable holds what its C
\* counterpart may hold.  TypeInv is what makes it inductive: a registered count
\* is never zero, and no object is on stdin.
THEOREM TypeCorrect == Spec => []TypeOK
<1>1. Spec => []TypeInv
  BY InitType, NextKeepsType, PTL DEF Spec
<1>. QED  BY <1>1, PTL DEF TypeInv

-----------------------------------------------------------------------------
(* The reference counts.  The count of an fd covers the objects that took a *)
(* reference on it, as long as no object that took none is destroyed.      *)

\* A client that imports by name never destroys what it got.
NamesKept == "name" \in Calls => "keepname" \in Calls

\* The inductive invariant: the counts cover the objects, and only a client that
\* imports by name has objects that took no reference.
RefsInv ==
  /\ TypeInv
  /\ RefsCover
  /\ "name" \notin Calls => \A id \in DOMAIN bos : ~bos[id].named

\* Counts are natural numbers, and so are the numbers of objects.
LEMMA CountType ==
  ASSUME TypeOK, NEW fd
  PROVE  /\ RefOf(reg, fd) \in Nat
         /\ IsFiniteSet(Counted(fd)) /\ Cardinality(Counted(fd)) \in Nat
<1>1. RefOf(reg, fd) \in Nat
  BY DEF RefOf, Lookup, Registered, TypeOK, MapsTo, Entry
<1>2. Counted(fd) \subseteq BoIds
  BY DEF Counted, TypeOK, MapsTo
<1>3. IsFiniteSet(Counted(fd))
  BY <1>2, BoAssumption, FS_Subset
<1>. QED  BY <1>1, <1>3, FS_CardinalityType

\* The client takes one object more on an fd that counts one reference more.
LEMMA ObjectAdded ==
  ASSUME RefsInv, NEW fd \in Fds, NEW id \in BoIds \ DOMAIN bos, NEW bo,
         bo.fd = fd, bo.named = FALSE, bos' = Put(bos, id, bo),
         RefOf(reg', fd) = RefOf(reg, fd) + 1,
         \A k : k # fd => RefOf(reg', k) = RefOf(reg, k)
  PROVE  RefsCover'
<1>1. Counted(fd)' = Counted(fd) \cup {id}
  BY DEF Counted, Put
<1>2. \A k : k # fd => Counted(k)' = Counted(k)
  BY DEF Counted, Put
<1>3. id \notin Counted(fd)
  BY DEF Counted
<1>4. Cardinality(Counted(fd) \cup {id}) = Cardinality(Counted(fd)) + 1
  BY <1>3, CountType, FS_AddElement DEF RefsInv, TypeInv
<1>5. ASSUME NEW k \in Fds
      PROVE  Cardinality(Counted(k)') <= RefOf(reg', k)
  <2>1. /\ Cardinality(Counted(k)) <= RefOf(reg, k)
        /\ RefOf(reg, k) \in Nat /\ Cardinality(Counted(k)) \in Nat
    BY CountType DEF RefsInv, RefsCover, TypeInv
  <2>2. CASE k = fd
    BY <1>1, <1>4, <2>1, <2>2
  <2>3. CASE k # fd
    BY <1>2, <2>1, <2>3
  <2>. QED  BY <2>2, <2>3
<1>. QED  BY <1>5 DEF RefsCover

\* A step that leaves the objects' fds alone and takes no reference away.
LEMMA ObjectsSame ==
  ASSUME RefsInv, \A k : Counted(k)' = Counted(k),
         \A k : RefOf(reg', k) = RefOf(reg, k) \/ RefOf(reg', k) = RefOf(reg, k) + 1
  PROVE  RefsCover'
<1>1. ASSUME NEW k \in Fds
      PROVE  Cardinality(Counted(k)') <= RefOf(reg', k)
  <2>1. /\ Cardinality(Counted(k)) <= RefOf(reg, k)
        /\ RefOf(reg, k) \in Nat /\ Cardinality(Counted(k)) \in Nat
    BY CountType DEF RefsInv, RefsCover, TypeInv
  <2>. QED  BY <2>1
<1>. QED  BY <1>1 DEF RefsCover

\* An import counts its reference whether or not it gets as far as the object.
LEMMA ImportTailRefs ==
  ASSUME RefsInv, NEW fd \in Fds, NEW mfd, NEW given, NEW registry,
         Prepared(registry, fd), NEW cpu, NEW mt, NEW len, NEW f,
         ImportTail(fd, mfd, given, registry, cpu, mt, len, f)
  PROVE  /\ RefsCover'
         /\ "name" \notin Calls => \A id \in DOMAIN bos' : ~bos'[id].named
<1> DEFINE bo == [fd |-> fd, mfd |-> mfd, handle |-> HandleOf(fdt[fd], f),
                  mhandle |-> HandleOf(FileOf(given), f), cpu |-> cpu, mt |-> mt,
                  size |-> len, named |-> FALSE, buf |-> fdt[fd][1]]
<1>1. PICK id \in BoIds \ DOMAIN bos :
        /\ reg' = IncRef(registry, fd)
        /\ bos' = IF f = "calloc" THEN bos ELSE Put(bos, id, bo)
  BY DEF ImportTail
<1>2. /\ RefOf(reg', fd) = RefOf(reg, fd) + 1
      /\ \A k : k # fd => RefOf(reg', k) = RefOf(reg, k)
  BY <1>1, ReferenceTaken DEF RefsInv, TypeInv
<1>3. bo.fd = fd /\ bo.named = FALSE
  OBVIOUS
<1> HIDE DEF bo
<1>4. CASE f = "calloc"
  <2>1. \A k : Counted(k)' = Counted(k)
    BY <1>1, <1>4 DEF Counted
  <2>. QED  BY <1>1, <1>2, <1>4, <2>1, ObjectsSame DEF RefsInv
<1>5. CASE f # "calloc"
  <2>1. bos' = Put(bos, id, bo)
    BY <1>1, <1>5
  <2>2. RefsCover'
    BY <1>2, <1>3, <2>1, ObjectAdded
  <2>. QED  BY <1>3, <2>1, <2>2 DEF RefsInv, Put
<1>. QED  BY <1>4, <1>5

\* Steps that neither make nor destroy an object: fds and names stay.
LEMMA FieldsOnly ==
  ASSUME RefsInv, TypeInv', reg' = reg, DOMAIN bos' = DOMAIN bos,
         \A k \in DOMAIN bos : bos'[k].fd = bos[k].fd /\ bos'[k].named = bos[k].named
  PROVE  RefsInv'
<1>1. \A k : Counted(k)' = Counted(k)
  BY DEF Counted
<1>2. RefsCover'
  BY <1>1, ObjectsSame
<1>. QED  BY <1>2 DEF RefsInv

\* Every import keeps the counts above the objects, the failing ones too.
LEMMA ImportStepRefs ==
  ASSUME RefsInv, ImportStep
  PROVE  RefsInv'
<1>1. PICK fd \in Fds, f \in Outcomes :
        \/ ImportFd(fd, f) \/ ImportFdBadFormat(fd) \/ ImportFdModifier(fd, f)
        \/ ImportFdModifierNoInfo(fd)
        \/ \E mfd \in FdOrNone : ImportGbmBuf(fd, mfd, f) \/ ImportWlBuffer(fd, mfd, f)
  BY DEF ImportStep, FdOrNone
<1>2. Segv \/ Imported(fd, f) \/ ImportFdBadFormat(fd) \/ ImportFdModifierNoInfo(fd)
  BY <1>1, ImportFdShape, ImportFdModifierShape, ImportGbmBufShape, ImportWlBufferShape
  DEF RefsInv
<1>3. CASE Segv
  BY <1>3, SegvType DEF RefsInv, RefsCover, Counted, Segv
<1>4. CASE Imported(fd, f)
  <2>1. TypeInv'
    BY <1>4, ImportedType DEF RefsInv
  <2>2. PICK mfd \in FdOrNone, cpu \in AddrOrNull, mt \in AddrOrNull, len \in 1 .. 2 :
          \E given, registry :
            Prepared(registry, fd) /\ ImportTail(fd, mfd, given, registry, cpu, mt, len, f)
    BY <1>4 DEF Imported
  <2>3. PICK given, registry :
          Prepared(registry, fd) /\ ImportTail(fd, mfd, given, registry, cpu, mt, len, f)
    BY <2>2
  <2>. QED  BY <2>1, <2>3, ImportTailRefs DEF RefsInv
<1>5. CASE ImportFdBadFormat(fd)
  <2>1. TypeInv'
    BY <1>5, ImportFdBadFormatType DEF RefsInv
  <2> DEFINE registry == Register(reg, fd, NoFd, NULL, NULL)
  <2>2. Prepared(registry, fd)
    BY PreparedRegister DEF RefsInv, TypeInv, FdOrNone, AddrOrNull
  <2>3. reg' = IncRef(registry, fd) /\ bos' = bos
    BY <1>5 DEF ImportFdBadFormat
  <2> HIDE DEF registry
  <2>4. /\ RefOf(reg', fd) = RefOf(reg, fd) + 1
        /\ \A k : k # fd => RefOf(reg', k) = RefOf(reg, k)
    BY <2>2, <2>3, ReferenceTaken DEF RefsInv, TypeInv
  <2>5. \A k : Counted(k)' = Counted(k)
    BY <2>3 DEF Counted
  <2>6. RefsCover'
    BY <2>4, <2>5, ObjectsSame
  <2>. QED  BY <2>1, <2>3, <2>6 DEF RefsInv
<1>6. CASE ImportFdModifierNoInfo(fd)
  <2>1. TypeInv'
    BY <1>6, ImportFdModifierNoInfoType DEF RefsInv
  <2>2. reg' = reg /\ bos' = bos
    BY <1>6 DEF ImportFdModifierNoInfo
  <2>. QED  BY <2>1, <2>2, FieldsOnly
<1>. QED  BY <1>2, <1>3, <1>4, <1>5, <1>6

\* Creation stops before it is registered, after it has counted its reference, or
\* with the object.
LEMMA ReachesType == \A b, d, f : CreateReaches(b, d, f) \in {1, 2, 3, 4, 5, 6}
BY Zenon DEF CreateReaches

\* So does creating an object, wherever it stops.
LEMMA BoCreateRefs ==
  ASSUME RefsInv, NEW b \in Local, NEW f, BoCreate(b, f)
  PROVE  RefsInv'
<1>1. TypeInv'
  BY BoCreateType DEF RefsInv
<1> DEFINE cpu(c) == IF b \in Secure THEN NULL ELSE c
           bo(d, m, mt, c) ==
             [fd |-> d, mfd |-> m, handle |-> HandleOf(Data(b), f),
              mhandle |-> HandleOf(Meta(b), f), cpu |-> cpu(c), mt |-> mt,
              size |-> SizeOf(b), named |-> FALSE, buf |-> b]
<1>2. PICK d \in NextFd({}) : \E m \in NextFd({d}) :
        \E mt \in NextAddr({}) : \E c \in NextAddr({mt}) :
        \E id \in BoIds \ DOMAIN bos : CreateWith(b, f, d, m, mt, c, id)
  BY DEF BoCreate
<1>3. PICK m \in NextFd({d}) : \E mt \in NextAddr({}) : \E c \in NextAddr({mt}) :
        \E id \in BoIds \ DOMAIN bos : CreateWith(b, f, d, m, mt, c, id)
  BY <1>2
<1>4. PICK mt \in NextAddr({}) : \E c \in NextAddr({mt}) :
        \E id \in BoIds \ DOMAIN bos : CreateWith(b, f, d, m, mt, c, id)
  BY <1>3
<1>5. PICK c \in NextAddr({mt}), id \in BoIds \ DOMAIN bos :
        CreateWith(b, f, d, m, mt, c, id)
  BY <1>4
<1> DEFINE registry == Register(reg, d, m, cpu(c), mt)
           step == CreateReaches(b, d, f)
<1>6. /\ reg' = IF step < 5 THEN reg ELSE IncRef(registry, d)
      /\ bos' = IF step < 6 THEN bos ELSE Put(bos, id, bo(d, m, mt, c))
  BY <1>5 DEF CreateWith
<1>7. step \in {1, 2, 3, 4, 5, 6}
  BY ReachesType
<1>8. d \in Fds /\ m \in FdOrNone /\ cpu(c) \in AddrOrNull /\ mt \in AddrOrNull
  BY NextType DEF FdOrNone, AddrOrNull
<1>9. Prepared(registry, d)
  <2> HIDE DEF cpu
  <2>. QED  BY <1>8, PreparedRegister DEF RefsInv, TypeInv
<1>10. bo(d, m, mt, c).fd = d /\ bo(d, m, mt, c).named = FALSE
  OBVIOUS
<1> HIDE DEF registry, bo, step
<1>11. /\ RefOf(IncRef(registry, d), d) = RefOf(reg, d) + 1
       /\ \A k : k # d => RefOf(IncRef(registry, d), k) = RefOf(reg, k)
  BY <1>8, <1>9, ReferenceTaken DEF RefsInv, TypeInv
<1>12. CASE step < 6
  <2>1. bos' = bos /\ (reg' = reg \/ reg' = IncRef(registry, d))
    BY <1>6, <1>12
  <2>2. \A k : Counted(k)' = Counted(k)
    BY <2>1 DEF Counted
  <2>3. RefsCover'
    BY <1>11, <2>1, <2>2, ObjectsSame
  <2>. QED  BY <1>1, <2>1, <2>3 DEF RefsInv
<1>13. CASE step = 6
  <2>1. bos' = Put(bos, id, bo(d, m, mt, c)) /\ reg' = IncRef(registry, d)
    BY <1>6, <1>13
  <2>2. RefsCover'
    BY <1>8, <1>10, <1>11, <2>1, ObjectAdded
  <2>. QED  BY <1>1, <1>10, <2>1, <2>2 DEF RefsInv, Put
<1>. QED  BY <1>7, <1>12, <1>13

\* Destroying an object takes away the reference it was counted with.
LEMMA BoDestroyRefs ==
  ASSUME NamesKept, RefsInv, NEW id \in DOMAIN bos, MayDestroy(id), BoDestroy(id)
  PROVE  RefsInv'
<1> PICK fd \in Fds : fd = bos[id].fd
  BY DEF RefsInv, TypeInv, TypeOK, MapsTo, Bo, BoFields
<1>1. TypeInv'
  BY BoDestroyType DEF RefsInv
<1>2. ~bos[id].named
  BY DEF NamesKept, RefsInv, MayDestroy
<1>3. reg' = DecRef(reg, fd) /\ bos' = Drop(bos, {id})
  BY DEF BoDestroy
<1>4. Counted(fd)' = Counted(fd) \ {id} /\ id \in Counted(fd)
  BY <1>2, <1>3 DEF Counted, Drop
<1>5. \A k : k # fd => Counted(k)' = Counted(k)
  BY <1>3 DEF Counted, Drop
<1>6. \A k \in Fds : /\ Cardinality(Counted(k)) <= RefOf(reg, k)
                     /\ RefOf(reg, k) \in Nat /\ Cardinality(Counted(k)) \in Nat
  BY CountType DEF RefsInv, RefsCover, TypeInv
<1>7. Cardinality(Counted(fd) \ {id}) = Cardinality(Counted(fd)) - 1
  BY <1>4, CountType, FS_RemoveElement DEF RefsInv, TypeInv
<1>8. Cardinality(Counted(fd) \ {id}) \in Nat
  BY CountType, FS_RemoveElement, FS_CardinalityType DEF RefsInv, TypeInv
<1>9. Registered(reg, fd)
  <2>1. RefOf(reg, fd) > 0
    BY <1>2, <1>6, <1>7, <1>8
  <2>. QED  BY <2>1 DEF RefOf, Lookup
<1>10. /\ RefOf(reg', fd) = RefOf(reg, fd) - 1
       /\ \A k : k # fd => RefOf(reg', k) = RefOf(reg, k)
  <2>1. MapsTo(reg, Fds, EntryOf(FdOrNone, AddrOrNull)) /\ PositiveRefs
    BY EntryIs DEF RefsInv, TypeInv, TypeOK
  <2>2. /\ Registered(reg, fd) => RefOf(DecRef(reg, fd), fd) = RefOf(reg, fd) - 1
        /\ \A k : k # fd => RefOf(DecRef(reg, fd), k) = RefOf(reg, k)
    BY <2>1, DecRefMapsTo DEF PositiveRefs
  <2>. QED  BY <1>3, <1>9, <2>2
<1>11. ASSUME NEW k \in Fds
       PROVE  Cardinality(Counted(k)') <= RefOf(reg', k)
  <2>1. CASE k = fd
    <3>1. Cardinality(Counted(fd)') = Cardinality(Counted(fd)) - 1
      BY <1>4, <1>7
    <3>2. Cardinality(Counted(fd)') <= RefOf(reg', fd)
      BY <1>6, <1>10, <3>1
    <3>. QED  BY <2>1, <3>2
  <2>2. CASE k # fd
    BY <1>5, <1>6, <1>10, <2>2
  <2>. QED  BY <2>1, <2>2
<1>. QED  BY <1>1, <1>3, <1>11 DEF RefsInv, RefsCover, Drop

\* An object imported by name is not counted and takes no reference.
LEMMA ImportFromNameRefs ==
  ASSUME RefsInv, "name" \in Calls, NEW id \in DOMAIN bos, NEW new \in BoIds, NEW f,
         ImportFromName(id, new, f)
  PROVE  RefsInv'
<1>1. TypeInv'
  BY ImportFromNameType DEF RefsInv
<1>2. reg' = reg /\ \A k : Counted(k)' = Counted(k)
  BY DEF ImportFromName, Counted, Put
<1>3. RefsCover'
  BY <1>2, ObjectsSame
<1>. QED  BY <1>1, <1>3 DEF RefsInv

\* So does every other step of a client that keeps what it imported by name.
LEMMA NextKeepsRefs == NamesKept /\ RefsInv /\ [Next]_vars => RefsInv'
<1> SUFFICES ASSUME NamesKept, RefsInv, [Next]_vars PROVE RefsInv'
  OBVIOUS
<1>1. CASE UNCHANGED vars
  <2>1. TypeInv'
    BY <1>1, NextKeepsType DEF RefsInv
  <2>. QED  BY <1>1, <2>1, FieldsOnly DEF vars
<1>2. ASSUME NEW b \in Local, NEW f, BoCreate(b, f) PROVE RefsInv'
  BY <1>2, BoCreateRefs
<1>3. CASE ImportStep
  BY <1>3, ImportStepRefs
<1>4. CASE BoStep
  <2>1. PICK id \in DOMAIN bos :
          \/ MayDestroy(id) /\ BoDestroy(id)
          \/ RefreshMetaFd(id) \/ ImportFromNameNoInfo(id)
          \/ "name" \in Calls /\ \E new \in BoIds : \E f : ImportFromName(id, new, f)
          \/ \E f \in Outcomes : BoCpuMap(id, f) \/ BoWriteMapping(id, f)
    BY <1>4 DEF BoStep
  <2>2. CASE RefreshMetaFd(id)
    <3>1. TypeInv'
      BY <2>2, RefreshMetaFdType DEF RefsInv
    <3>2. reg' = reg /\ bos' = [bos EXCEPT ![id].mfd = Lookup(reg, bos[id].fd).mfd]
      BY <2>2 DEF RefreshMetaFd
    <3>. QED  BY <3>1, <3>2, FieldsOnly DEF RefsInv, TypeInv, TypeOK, MapsTo, Bo, BoFields
  <2>3. ASSUME NEW f, BoCpuMap(id, f) PROVE RefsInv'
    <3>1. TypeInv'
      BY <2>3, BoCpuMapType DEF RefsInv
    <3>2. reg' = reg /\ (bos' = bos \/ \E c : bos' = [bos EXCEPT ![id].cpu = c])
      BY <2>3 DEF BoCpuMap, Segv
    <3>. QED  BY <3>1, <3>2, FieldsOnly DEF RefsInv, TypeInv, TypeOK, MapsTo, Bo, BoFields
  <2>4. ASSUME NEW f, BoWriteMapping(id, f) PROVE RefsInv'
    <3>1. TypeInv'
      BY <2>4, BoWriteMappingType DEF RefsInv
    <3>2. reg' = reg /\ (bos' = bos \/ bos' = [bos EXCEPT ![id].cpu = NULL, ![id].mt = NULL])
      BY <2>4 DEF BoWriteMapping, Segv
    <3>. QED  BY <3>1, <3>2, FieldsOnly DEF RefsInv, TypeInv, TypeOK, MapsTo, Bo, BoFields
  <2>5. CASE ImportFromNameNoInfo(id)
    <3>1. TypeInv'
      BY <2>5, ImportFromNameNoInfoType DEF RefsInv
    <3>2. reg' = reg /\ bos' = bos
      BY <2>5 DEF ImportFromNameNoInfo
    <3>. QED  BY <3>1, <3>2, FieldsOnly
  <2>. QED  BY <2>1, <2>2, <2>3, <2>4, <2>5, BoDestroyRefs, ImportFromNameRefs
<1>5. CASE ClientStep
  <2>1. TypeInv'
    BY <1>5, ReceiveType, ReceiveMetaType, CloseOfferType DEF ClientStep, RefsInv
  <2>2. reg' = reg /\ bos' = bos
    BY <1>5 DEF ClientStep, Receive, ReceiveMeta, CloseOffer
  <2>. QED  BY <2>1, <2>2, FieldsOnly
<1>. QED  BY <1>2, <1>3, <1>4, <1>5, <1>1 DEF Next

\* Nothing is counted and there is no object at the start.
LEMMA InitRefs == Init => RefsInv
<1> SUFFICES ASSUME Init PROVE RefsInv
  OBVIOUS
<1>1. TypeInv
  BY InitType
<1>2. \A fd : Counted(fd) = {}
  BY DEF Init, Counted, EmptyMap
<1>3. \A fd : RefOf(reg, fd) = 0
  BY DEF Init, RefOf, Lookup, Registered, EmptyMap
<1>4. RefsCover
  BY <1>2, <1>3, FS_EmptySet DEF RefsCover
<1>5. DOMAIN bos = {}
  BY DEF Init, EmptyMap
<1>. QED  BY <1>1, <1>4, <1>5 DEF RefsInv

\* No destroy takes itself for the last one while another object still counts on
\* the fd, whatever the client imports and whatever fails on the way, as long as
\* it never destroys an object it imported by name.
THEOREM ReferencesCover ==
  ASSUME NamesKept
  PROVE  Spec => []RefsCover
<1>1. RefsInv /\ [Next]_vars => RefsInv'
  BY NextKeepsRefs
<1>2. RefsInv => RefsCover
  BY DEF RefsInv
<1>. QED  BY InitRefs, <1>1, <1>2, PTL DEF Spec

-----------------------------------------------------------------------------
(* The counts are exact where no call fails once it has counted.           *)

Reliable == NamesKept /\ "badfd" \notin Calls /\ "calloc" \notin Faults

ExactInv == RefsInv /\ \A fd \in Fds : Cardinality(Counted(fd)) = RefOf(reg, fd)

\* One object more on fd.
LEMMA OneMore ==
  ASSUME TypeOK, NEW fd \in Fds, NEW id \in BoIds \ DOMAIN bos, NEW bo,
         bo.fd = fd, bo.named = FALSE, bos' = Put(bos, id, bo)
  PROVE  /\ Cardinality(Counted(fd)') = Cardinality(Counted(fd)) + 1
         /\ \A k \in Fds \ {fd} : Counted(k)' = Counted(k)
<1>1. Counted(fd)' = Counted(fd) \cup {id} /\ id \notin Counted(fd)
  BY DEF Counted, Put
<1>2. \A k \in Fds \ {fd} : Counted(k)' = Counted(k)
  BY DEF Counted, Put
<1>3. Cardinality(Counted(fd) \cup {id}) = Cardinality(Counted(fd)) + 1
  BY <1>1, CountType, FS_AddElement
<1>. QED  BY <1>1, <1>2, <1>3

\* A creation that stops after it has counted lacked the object.
LEMMA CreateStops ==
  ASSUME NEW b, NEW d, NEW f
  PROVE  /\ CreateReaches(b, d, f) = 5 => f = "calloc"
         /\ CreateReaches(b, d, f) = 6 => f # "calloc"
<1>1. CASE f = "calloc"
  <2>1. CreateReaches(b, d, f) \in {2, 5}
    BY <1>1, Zenon DEF CreateReaches
  <2>. QED  BY <1>1, <2>1
<1>2. CASE f # "calloc"
  <2>1. CreateReaches(b, d, f) \in {1, 2, 3, 4, 6}
    BY <1>2, Zenon DEF CreateReaches
  <2>. QED  BY <1>2, <2>1
<1>. QED  BY <1>1, <1>2

\* A step that takes one reference on fd and returns one object for it.
LEMMA ExactMore ==
  ASSUME ExactInv, NEW fd \in Fds, NEW id \in BoIds \ DOMAIN bos, NEW bo,
         bo.fd = fd, bo.named = FALSE, bos' = Put(bos, id, bo),
         NEW registry, Prepared(registry, fd), reg' = IncRef(registry, fd)
  PROVE  \A k \in Fds : Cardinality(Counted(k)') = RefOf(reg', k)
<1>1. /\ Cardinality(Counted(fd)') = Cardinality(Counted(fd)) + 1
      /\ \A k \in Fds \ {fd} : Counted(k)' = Counted(k)
  BY OneMore DEF ExactInv, RefsInv, TypeInv
<1>2. /\ RefOf(reg', fd) = RefOf(reg, fd) + 1
      /\ \A k : k # fd => RefOf(reg', k) = RefOf(reg, k)
  BY ReferenceTaken DEF ExactInv, RefsInv, TypeInv
<1>. QED  BY <1>1, <1>2 DEF ExactInv

\* A step that moves neither.
LEMMA ExactSame ==
  ASSUME ExactInv, reg' = reg, \A k \in Fds : Counted(k)' = Counted(k)
  PROVE  \A k \in Fds : Cardinality(Counted(k)') = RefOf(reg', k)
BY DEF ExactInv

LEMMA CreateExact ==
  ASSUME Reliable, ExactInv, NEW b \in Local, NEW f \in Outcomes, BoCreate(b, f)
  PROVE  \A k \in Fds : Cardinality(Counted(k)') = RefOf(reg', k)
<1> USE DEF ExactInv
<1>1. PICK d \in Fds, id \in BoIds \ DOMAIN bos, m \in FdOrNone, mt \in AddrOrNull,
           c \in AddrOrNull : CreateWith(b, f, d, m, mt, c, id)
  BY NextType DEF BoCreate, FdOrNone, AddrOrNull
<1> DEFINE cpu == IF b \in Secure THEN NULL ELSE c
           bo == [fd |-> d, mfd |-> m, handle |-> HandleOf(Data(b), f),
                  mhandle |-> HandleOf(Meta(b), f), cpu |-> cpu, mt |-> mt,
                  size |-> SizeOf(b), named |-> FALSE, buf |-> b]
           registry == Register(reg, d, m, cpu, mt)
           step == CreateReaches(b, d, f)
<1>2. /\ reg' = IF step < 5 THEN reg ELSE IncRef(registry, d)
      /\ bos' = IF step < 6 THEN bos ELSE Put(bos, id, bo)
  BY <1>1 DEF CreateWith
<1>3. bo.fd = d /\ bo.named = FALSE /\ cpu \in AddrOrNull
  BY DEF AddrOrNull
<1>4. step \in {1, 2, 3, 4, 6}
  <2>1. f # "calloc"
    BY DEF Reliable, Outcomes
  <2>. QED  BY <2>1, CreateStops, ReachesType
<1> HIDE DEF bo, step, cpu
<1>5. Prepared(registry, d)
  BY <1>3, PreparedRegister DEF RefsInv, TypeInv
<1> HIDE DEF registry
<1>6. CASE step < 5
  <2>1. reg' = reg /\ bos' = bos
    BY <1>2, <1>4, <1>6
  <2>. QED  BY <2>1, ExactSame DEF Counted
<1>7. CASE step = 6
  <2>1. reg' = IncRef(registry, d) /\ bos' = Put(bos, id, bo)
    BY <1>2, <1>7
  <2>. QED  BY <1>3, <1>5, <2>1, ExactMore
<1>. QED  BY <1>4, <1>6, <1>7

LEMMA ImportExact ==
  ASSUME Reliable, ExactInv, ImportStep
  PROVE  \A k \in Fds : Cardinality(Counted(k)') = RefOf(reg', k)
<1> USE DEF ExactInv
<1>1. PICK fd \in Fds, f \in Outcomes :
        \/ ImportFd(fd, f) \/ ImportFdModifier(fd, f) \/ ImportFdModifierNoInfo(fd)
        \/ \E mfd \in FdOrNone : ImportGbmBuf(fd, mfd, f) \/ ImportWlBuffer(fd, mfd, f)
  BY DEF ImportStep, FdOrNone, Reliable
<1>2. Segv \/ Imported(fd, f) \/ ImportFdModifierNoInfo(fd)
  BY <1>1, ImportFdShape, ImportFdModifierShape, ImportGbmBufShape, ImportWlBufferShape
  DEF RefsInv
<1>3. CASE Segv \/ ImportFdModifierNoInfo(fd)
  <2>1. reg' = reg /\ bos' = bos
    BY <1>3 DEF Segv, ImportFdModifierNoInfo
  <2>. QED  BY <2>1, ExactSame DEF Counted
<1>4. CASE Imported(fd, f)
  <2>1. PICK mfd \in FdOrNone, cpu \in AddrOrNull, mt \in AddrOrNull, len \in 1 .. 2 :
          \E given, registry :
            Prepared(registry, fd) /\ ImportTail(fd, mfd, given, registry, cpu, mt, len, f)
    BY <1>4 DEF Imported
  <2>2. PICK given, registry :
          Prepared(registry, fd) /\ ImportTail(fd, mfd, given, registry, cpu, mt, len, f)
    BY <2>1
  <2>3. f # "calloc"
    BY DEF Reliable, Outcomes
  <2> DEFINE bo == [fd |-> fd, mfd |-> mfd, handle |-> HandleOf(fdt[fd], f),
                    mhandle |-> HandleOf(FileOf(given), f), cpu |-> cpu, mt |-> mt,
                    size |-> len, named |-> FALSE, buf |-> fdt[fd][1]]
  <2>4. PICK id \in BoIds \ DOMAIN bos : reg' = IncRef(registry, fd) /\ bos' = Put(bos, id, bo)
    BY <2>2, <2>3 DEF ImportTail
  <2>5. bo.fd = fd /\ bo.named = FALSE
    OBVIOUS
  <2> HIDE DEF bo
  <2>. QED  BY <2>2, <2>4, <2>5, ExactMore
<1>. QED  BY <1>2, <1>3, <1>4

LEMMA DestroyExact ==
  ASSUME Reliable, ExactInv, NEW id \in DOMAIN bos, MayDestroy(id), BoDestroy(id)
  PROVE  \A k \in Fds : Cardinality(Counted(k)') = RefOf(reg', k)
<1> USE DEF ExactInv
<1> PICK fd \in Fds : fd = bos[id].fd
  BY DEF RefsInv, TypeInv, TypeOK, MapsTo, Bo, BoFields
<1>1. ~bos[id].named
  BY DEF Reliable, NamesKept, RefsInv, MayDestroy
<1>2. reg' = DecRef(reg, fd) /\ bos' = Drop(bos, {id})
  BY DEF BoDestroy
<1>3. /\ Counted(fd)' = Counted(fd) \ {id} /\ id \in Counted(fd)
      /\ \A k : k # fd => Counted(k)' = Counted(k)
  BY <1>1, <1>2 DEF Counted, Drop
<1>4. Cardinality(Counted(fd)') = Cardinality(Counted(fd)) - 1
  BY <1>3, CountType, FS_RemoveElement DEF RefsInv, TypeInv
<1>5. Registered(reg, fd)
  <2>1. Cardinality(Counted(fd) \ {id}) \in Nat
    BY CountType, FS_RemoveElement, FS_CardinalityType DEF RefsInv, TypeInv
  <2>2. RefOf(reg, fd) # 0
    BY <1>3, <1>4, <2>1, CountType DEF RefsInv, TypeInv
  <2>. QED  BY <2>2 DEF RefOf, Lookup
<1>6. /\ RefOf(reg', fd) = RefOf(reg, fd) - 1
      /\ \A k : k # fd => RefOf(reg', k) = RefOf(reg, k)
  <2>1. MapsTo(reg, Fds, EntryOf(FdOrNone, AddrOrNull)) /\ PositiveRefs
    BY EntryIs DEF RefsInv, TypeInv, TypeOK
  <2>2. /\ Registered(reg, fd) => RefOf(DecRef(reg, fd), fd) = RefOf(reg, fd) - 1
        /\ \A k : k # fd => RefOf(DecRef(reg, fd), k) = RefOf(reg, k)
    BY <2>1, DecRefMapsTo DEF PositiveRefs
  <2>. QED  BY <1>2, <1>5, <2>2
<1>. QED  BY <1>3, <1>4, <1>6

LEMMA OtherExact ==
  ASSUME ExactInv,
         \/ ClientStep
         \/ \E id \in DOMAIN bos :
              \/ RefreshMetaFd(id)
              \/ \E new \in BoIds : \E f : ImportFromName(id, new, f)
              \/ \E f : BoCpuMap(id, f) \/ BoWriteMapping(id, f)
  PROVE  \A k \in Fds : Cardinality(Counted(k)') = RefOf(reg', k)
<1>1. reg' = reg /\ \A k : Counted(k)' = Counted(k)
  <2>1. CASE ClientStep
    BY <2>1 DEF ClientStep, Receive, ReceiveMeta, CloseOffer, Counted
  <2>2. ASSUME NEW id \in DOMAIN bos, NEW new \in BoIds, NEW f,
               ImportFromName(id, new, f)
        PROVE  reg' = reg /\ \A k : Counted(k)' = Counted(k)
    BY <2>2 DEF ImportFromName, Counted, Put
  <2>3. ASSUME NEW id \in DOMAIN bos,
               RefreshMetaFd(id) \/ \E f : BoCpuMap(id, f) \/ BoWriteMapping(id, f)
        PROVE  reg' = reg /\ \A k : Counted(k)' = Counted(k)
    <3>1. /\ reg' = reg
          /\ \/ bos' = bos
             \/ \E m : bos' = [bos EXCEPT ![id].mfd = m]
             \/ \E c : bos' = [bos EXCEPT ![id].cpu = c]
             \/ bos' = [bos EXCEPT ![id].cpu = NULL, ![id].mt = NULL]
      BY <2>3 DEF RefreshMetaFd, BoCpuMap, BoWriteMapping, Segv
    <3>2. /\ DOMAIN bos' = DOMAIN bos
          /\ \A k \in DOMAIN bos : bos'[k].fd = bos[k].fd /\ bos'[k].named = bos[k].named
      BY <3>1 DEF ExactInv, RefsInv, TypeInv, TypeOK, MapsTo, Bo, BoFields
    <3>. QED  BY <3>1, <3>2 DEF Counted
  <2>. QED  BY <2>1, <2>2, <2>3
<1>. QED  BY <1>1, ExactSame

LEMMA NextExact == Reliable /\ ExactInv /\ [Next]_vars => ExactInv'
<1> SUFFICES ASSUME Reliable, ExactInv, [Next]_vars PROVE ExactInv'
  OBVIOUS
<1>1. RefsInv'
  BY NextKeepsRefs DEF ExactInv, Reliable
<1>2. CASE UNCHANGED vars
  BY <1>2, ExactSame, <1>1 DEF vars, Counted, ExactInv
<1>3. CASE BoStep
  BY <1>1, <1>3, DestroyExact, OtherExact DEF BoStep, ExactInv, ImportFromNameNoInfo, Reliable
<1>. QED
  BY <1>1, <1>2, <1>3, CreateExact, ImportExact, OtherExact DEF Next, ExactInv

\* The registry counts exactly the live objects, and knows no fd without one: the
\* last destroy is the one that closes.
THEOREM ReferencesExact == ASSUME Reliable PROVE Spec => []RefsExact
<1>1. Init => ExactInv
  <2> SUFFICES ASSUME Init PROVE ExactInv
    OBVIOUS
  <2>1. RefsInv
    BY InitRefs
  <2>2. \A fd \in Fds : Counted(fd) = {} /\ RefOf(reg, fd) = 0
    BY DEF Init, Counted, EmptyMap, RefOf, Lookup, Registered
  <2>. QED  BY <2>1, <2>2, FS_EmptySet DEF ExactInv
<1>2. ExactInv /\ [Next]_vars => ExactInv'
  BY NextExact
<1>3. ExactInv => RefsExact
  <2> SUFFICES ASSUME ExactInv, NEW fd \in DOMAIN reg PROVE Counted(fd) # {}
    BY DEF ExactInv, RefsExact
  <2>1. fd \in Fds /\ RefOf(reg, fd) > 0
    BY DEF ExactInv, RefsInv, TypeInv, TypeOK, PositiveRefs, MapsTo, RefOf, Lookup, Registered
  <2>. QED  BY <2>1, FS_EmptySet DEF ExactInv
<1>. QED  BY <1>1, <1>2, <1>3, PTL DEF Spec

-----------------------------------------------------------------------------
(* A client that never separates the two descriptors of a buffer: what the *)
(* registry, the objects and the kernel have to do with each other then.   *)

\* It imports data and metadata descriptor together (GBM_BO_IMPORT_GBM_BUF_TYPE, or a
\* linear Wayland buffer), or what it already has an object of; keeps objects it
\* imported by name; and only PRIME may fail it.
Paired ==
  /\ Calls \subseteq {"gbm", "linearwl", "fd", "fdmod", "receive",
                      "map", "write", "refresh", "name", "keepname"}
  /\ NamesKept
  /\ Faults \subseteq {"prime"}
  /\ Inherited = {0}

BufOf(fd) == fdt[fd][1]

\* What the registry knows of buffer b is there, in full.
Sound(e, b) ==
  /\ e.mfd \in DOMAIN fdt /\ e.mfd > 0 /\ fdt[e.mfd] = Meta(b)
  /\ e.mt \in DOMAIN maps /\ maps[e.mt] = Mapping(Meta(b), MetaLen)
  /\ IF b \in Secure THEN e.cpu = NULL
     ELSE e.cpu \in DOMAIN maps /\ maps[e.cpu] = Mapping(Data(b), SizeOf(b))

\* An object has its addresses and its length from the entry of its fd.
Agrees(bo) ==
  /\ bo.fd \in DOMAIN reg
  /\ fdt[bo.fd] = Data(bo.buf)
  /\ bo.mfd \in {NoFd, reg[bo.fd].mfd}
  /\ bo.cpu = reg[bo.fd].cpu /\ bo.mt = reg[bo.fd].mt
  /\ bo.size = SizeOf(bo.buf)
  /\ bo.handle \in {NoHandle, Data(bo.buf)} /\ bo.mhandle \in {NoHandle, Meta(bo.buf)}
  /\ {bo.handle, bo.mhandle} \ {NoHandle} \subseteq gem

TableInv ==
  /\ 0 \in DOMAIN fdt /\ fdt[0] = Stdin
  /\ \A fd \in Fds : IsDataFd(fd) => fd \in DOMAIN reg \/ \E o \in offers : o[1] = fd
  /\ \A fd, fe \in Fds : IsDataFd(fd) /\ IsDataFd(fe) /\ fdt[fd] = fdt[fe] => fd = fe

OffersInv ==
  /\ \A o \in offers : /\ IsDataFd(o[1]) /\ o[1] \notin DOMAIN reg
                       /\ o[2] \in DOMAIN fdt /\ o[2] > 0 /\ fdt[o[2]] = Meta(BufOf(o[1]))
  /\ \A o, p \in offers : o = p

UseInv ==
  /\ ~segv
  /\ TableInv
  /\ OffersInv
  /\ \A fd \in DOMAIN reg : IsDataFd(fd) /\ Sound(reg[fd], BufOf(fd))
  /\ \A id \in DOMAIN bos : ~bos[id].named => Agrees(bos[id])

\* It imports metadata with every object, and PRIME does not fail it either.
Complete == Paired /\ "fd" \notin Calls /\ "fdmod" \notin Calls /\ Faults = {}

Fcn(f) == f = [x \in DOMAIN f |-> f[x]]

\* What is open, mapped or held as a handle belongs to a registered fd, or is on offer.
TablesLeft ==
  /\ Fcn(reg) /\ Fcn(maps)
  /\ ~HasGem => gem = {}
  /\ \A fd \in DOMAIN fdt : fd # 0 =>
       \/ IsDataFd(fd)
       \/ \E k \in DOMAIN reg : reg[k].mfd = fd
       \/ \E o \in offers : o[2] = fd
  /\ \A a \in DOMAIN maps : \E k \in DOMAIN reg : reg[k].cpu = a \/ reg[k].mt = a
  /\ \A h \in gem : \E k \in DOMAIN reg : h \in {Data(BufOf(k)), Meta(BufOf(k))}

\* An object carries the metadata fd of its entry, and both handles.
FullBo(bo) ==
  /\ bo.mfd = reg[bo.fd].mfd
  /\ bo.handle = HandleOf(Data(bo.buf), "none")
  /\ bo.mhandle = HandleOf(Meta(bo.buf), "none")

LeftInv == TablesLeft /\ \A id \in DOMAIN bos : ~bos[id].named => FullBo(bos[id])

LEMMA FileNames ==
  /\ \A b, c : Data(b) = Data(c) => b = c
  /\ \A b, c : Meta(b) = Meta(c) => b = c
  /\ \A b, c : Data(b) # Meta(c) /\ Data(b) # NoHandle /\ Meta(b) # NoHandle
  /\ \A b : Data(b)[1] = b /\ Meta(b)[1] = b
  /\ NoHandle = Stdin
BY DEF Data, Meta, NoHandle, Stdin

LEMMA DataFdIs ==
  ASSUME NEW fd, IsDataFd(fd)
  PROVE  fd \in DOMAIN fdt /\ BufOf(fd) \in Bufs /\ fdt[fd] = Data(BufOf(fd))
BY FileNames DEF IsDataFd, BufOf

LEMMA PairedReliable == Paired => Reliable
BY DEF Paired, Reliable

LEMMA PairedOutcomes == Paired => \A f \in Outcomes : f \in {"none", "prime"}
BY DEF Paired, Outcomes

\* An fd that is registered has objects, and the other way round.
LEMMA RegisteredCounted ==
  ASSUME ExactInv
  PROVE  \A fd \in Fds : fd \in DOMAIN reg <=> Counted(fd) # {}
<1> SUFFICES ASSUME NEW fd \in Fds PROVE fd \in DOMAIN reg <=> Counted(fd) # {}
  OBVIOUS
<1>1. /\ Cardinality(Counted(fd)) = RefOf(reg, fd) /\ IsFiniteSet(Counted(fd))
      /\ fd \in DOMAIN reg => RefOf(reg, fd) > 0
      /\ fd \notin DOMAIN reg => RefOf(reg, fd) = 0
  BY CountType DEF ExactInv, RefsInv, TypeInv, PositiveRefs, RefOf, Lookup, Registered
<1>2. Counted(fd) = {} <=> Cardinality(Counted(fd)) = 0
  BY <1>1, FS_EmptySet
<1>. QED  BY <1>1, <1>2

\* The object that destroys the last reference is the last one.
LEMMA LastIsLast ==
  ASSUME ExactInv, NEW fd \in Fds, NEW id \in Counted(fd)
  PROVE  LastRef(reg, fd) <=> Counted(fd) = {id}
<1>1. /\ Cardinality(Counted(fd)) = RefOf(reg, fd) /\ IsFiniteSet(Counted(fd))
      /\ fd \in DOMAIN reg
  BY CountType, RegisteredCounted DEF ExactInv, RefsInv, TypeInv
<1>2. LastRef(reg, fd) <=> RefOf(reg, fd) = 1
  BY <1>1 DEF LastRef, RefOf, Lookup, Registered
<1>3. Cardinality(Counted(fd)) = 1 <=> \E m : Counted(fd) = {m}
  BY <1>1, FS_Singleton
<1>. QED  BY <1>1, <1>2, <1>3

\* Under UseInv, an fd the client may import an object of is registered, or on offer.
LEMMA OfferedIs ==
  ASSUME ExactInv, UseInv, NEW fd \in Fds, NEW mfd
  PROVE  /\ OfferedFd(fd) => fd \in DOMAIN reg
         /\ Offered(fd, mfd) =>
              \/ /\ fd \in DOMAIN reg /\ mfd \in {NoFd, reg[fd].mfd}
                 /\ \E id \in Counted(fd) : bos[id].mfd = mfd
              \/ fd \notin DOMAIN reg /\ <<fd, mfd>> \in offers
<1>1. <<fd, NoFd>> \notin offers
  BY DEF UseInv, OffersInv, NoFd
<1>2. ASSUME NEW id \in Counted(fd)
      PROVE  fd \in DOMAIN reg /\ bos[id].mfd \in {NoFd, reg[fd].mfd}
  BY <1>2 DEF Counted, UseInv, Agrees
<1>3. <<fd, mfd>> \in offers => fd \notin DOMAIN reg
  BY DEF UseInv, OffersInv
<1>. QED  BY <1>1, <1>2, <1>3 DEF OfferedFd, Offered

-----------------------------------------------------------------------------
(* The shapes the calls of such a client have.                             *)

NewBo(fd, e, b, mfd, h, mh) ==
  [fd |-> fd, mfd |-> mfd, handle |-> h, mhandle |-> mh, cpu |-> e.cpu, mt |-> e.mt,
   size |-> SizeOf(b), named |-> FALSE, buf |-> b]

\* An object joins those of its fd.
Joins(fd, mfd, h, mh) ==
  /\ fd \in DOMAIN reg
  /\ mfd \in {NoFd, reg[fd].mfd}
  /\ h \in {NoHandle, Data(BufOf(fd))} /\ mh \in {NoHandle, Meta(BufOf(fd))}
  /\ reg' = IncRef(reg, fd)
  /\ gem' = (gem \cup {h, mh}) \ {NoHandle}
  /\ \E id \in BoIds \ DOMAIN bos : bos' = Put(bos, id, NewBo(fd, reg[fd], BufOf(fd), mfd, h, mh))
  /\ UNCHANGED <<fdt, maps, offers, segv>>

\* The first object of a buffer brings its mappings and its registry entry, and the
\* descriptors unless they are there.
Starts(fd, b, mfd, cpu, mt, f) ==
  /\ fd \in Fds /\ fd \notin DOMAIN reg /\ b \in Bufs
  /\ \A k \in Fds : IsDataFd(k) /\ fdt[k] = Data(b) => k = fd
  /\ mfd # fd /\ mfd > 0 /\ fd # 0
  /\ fd \in DOMAIN fdt => fdt[fd] = Data(b)
  /\ mfd \in DOMAIN fdt => fdt[mfd] = Meta(b)
  /\ DOMAIN fdt' = DOMAIN fdt \cup {fd, mfd} /\ fdt'[fd] = Data(b) /\ fdt'[mfd] = Meta(b)
  /\ \A k \in DOMAIN fdt \ {fd, mfd} : fdt'[k] = fdt[k]
  /\ mt \in Addrs \ DOMAIN maps /\ cpu # mt
  /\ IF b \in Secure
     THEN cpu = NULL /\ maps' = Put(maps, mt, Mapping(Meta(b), MetaLen))
     ELSE /\ cpu \in Addrs \ DOMAIN maps
          /\ maps' = Put(Put(maps, cpu, Mapping(Data(b), SizeOf(b))), mt, Mapping(Meta(b), MetaLen))
  /\ reg' = Put(reg, fd, [mfd |-> mfd, cpu |-> cpu, mt |-> mt, ref |-> 1])
  /\ gem' = (gem \cup {HandleOf(Data(b), f), HandleOf(Meta(b), f)}) \ {NoHandle}
  /\ \E id \in BoIds \ DOMAIN bos :
       bos' = Put(bos, id, NewBo(fd, [cpu |-> cpu, mt |-> mt], b, mfd,
                                 HandleOf(Data(b), f), HandleOf(Meta(b), f)))
  /\ offers' = {o \in offers : o[1] # fd} /\ \A o \in offers : o[1] = fd => o[2] = mfd
  /\ segv' = segv

\* Where nothing is registered, entering an fd and counting it make its first entry.
LEMMA FirstEntry ==
  ASSUME NEW fd, fd \notin DOMAIN reg, NEW mfd, NEW cpu, NEW mt
  PROVE  /\ IncRef(Register(reg, fd, mfd, cpu, mt), fd)
              = Put(reg, fd, [mfd |-> mfd, cpu |-> cpu, mt |-> mt, ref |-> 1])
         /\ Update(Register(reg, fd, mfd, cpu, mt), fd, mfd, cpu, mt)
              = Register(reg, fd, mfd, cpu, mt)
<1> DEFINE e == [mfd |-> mfd, cpu |-> cpu, mt |-> mt, ref |-> 0]
           r == Put(reg, fd, e)
<1>1. Register(reg, fd, mfd, cpu, mt) = r
  BY DEF Register, Registered
<1>2. fd \in DOMAIN r /\ r[fd] = e /\ r[fd].ref = 0
  BY DEF Put
<1>3. [r EXCEPT ![fd].ref = @ + 1] = Put(reg, fd, [mfd |-> mfd, cpu |-> cpu, mt |-> mt, ref |-> 1])
  <2>1. [e EXCEPT !.ref = @ + 1] = [mfd |-> mfd, cpu |-> cpu, mt |-> mt, ref |-> 1]
    OBVIOUS
  <2>2. [r EXCEPT ![fd].ref = @ + 1] = [r EXCEPT ![fd] = [e EXCEPT !.ref = @ + 1]]
    BY <1>2
  <2> HIDE DEF e
  <2>. QED  BY <1>2, <2>1, <2>2 DEF Put
<1>4. Put(r, fd, e) = r
  BY DEF Put
<1>5. IncRef(r, fd) = [r EXCEPT ![fd].ref = @ + 1]
  BY <1>2 DEF IncRef, Registered
<1>6. Update(r, fd, mfd, cpu, mt) = Put(r, fd, e)
  BY <1>2 DEF Update, Registered
<1>. QED  BY <1>1, <1>3, <1>4, <1>5, <1>6

\* What an entry that is sound says to an import.
LEMMA SoundIs ==
  ASSUME ExactInv, UseInv, NEW fd \in DOMAIN reg
  PROVE  LET e == Lookup(reg, fd)
         IN /\ e = reg[fd] /\ Registered(reg, fd)
            /\ e.mfd > 0 /\ e.mfd # NoFd /\ e.mfd \in DOMAIN fdt /\ fdt[e.mfd] = Meta(BufOf(fd))
            /\ e.mt # NULL /\ Readable(maps, e.mt) /\ maps[e.mt].file[1] = BufOf(fd)
            /\ e.cpu = NULL => BufOf(fd) \in Secure
            /\ IsDataFd(fd) /\ fd \in DOMAIN fdt /\ fdt[fd] = Data(BufOf(fd))
<1>1. Lookup(reg, fd) = reg[fd] /\ Sound(reg[fd], BufOf(fd)) /\ IsDataFd(fd) /\ Registered(reg, fd)
  BY DEF UseInv, Lookup, Registered
<1>2. NULL \notin DOMAIN maps
  BY DEF NULL, ExactInv, RefsInv, TypeInv, TypeOK, MapsTo, Addrs
<1>. QED  BY <1>1, <1>2, DataFdIs, FileNames DEF Sound, Readable, Mapping, NoFd

LEMMA TailJoins ==
  ASSUME Paired, ExactInv, UseInv, NEW fd \in DOMAIN reg, NEW f \in Outcomes,
         NEW mfd \in {NoFd, reg[fd].mfd}, NEW given \in {NoFd, mfd},
         ImportTail(fd, mfd, given, reg, reg[fd].cpu, reg[fd].mt, SizeOf(BufOf(fd)), f),
         UNCHANGED <<fdt, maps, segv>>
  PROVE  Joins(fd, mfd, HandleOf(Data(BufOf(fd)), f), HandleOf(FileOf(given), f))
<1>1. fdt[fd] = Data(BufOf(fd)) /\ fdt[fd][1] = BufOf(fd)
  BY SoundIs DEF BufOf
<1>2. f # "calloc"
  BY PairedOutcomes
<1>3. offers \ {<<fd, given>>} = offers
  BY DEF UseInv, OffersInv
<1>4. HandleOf(Data(BufOf(fd)), f) \in {NoHandle, Data(BufOf(fd))}
  BY DEF HandleOf
<1>5. FileOf(given) \in {NoHandle, Meta(BufOf(fd))}
  <2>1. NoFd \notin DOMAIN fdt
    BY DEF ExactInv, RefsInv, TypeInv, TypeOK, MapsTo, Fds, NoFd
  <2>. QED  BY <2>1, SoundIs DEF FileOf
<1>6. HandleOf(FileOf(given), f) \in {NoHandle, Meta(BufOf(fd))}
  BY <1>5 DEF HandleOf
<1>. QED  BY <1>1, <1>2, <1>3, <1>4, <1>6 DEF ImportTail, Joins, NewBo

LEMMA ImportFdJoins ==
  ASSUME Paired, ExactInv, UseInv, NEW fd \in Fds, NEW f \in Outcomes, ImportFd(fd, f)
  PROVE  Joins(fd, reg[fd].mfd, HandleOf(Data(BufOf(fd)), f), HandleOf(FileOf(NoFd), f))
<1>1. fd \in DOMAIN reg
  BY OfferedIs DEF ImportFd
<1>2. Lookup(reg, fd) = reg[fd] /\ reg[fd].mfd # NoFd /\ Readable(maps, reg[fd].mt)
      /\ maps[reg[fd].mt].file[1] = BufOf(fd) /\ Registered(reg, fd)
  BY <1>1, SoundIs
<1>3. Register(reg, fd, NoFd, NULL, NULL) = reg
  BY <1>2 DEF Register
<1>4. /\ ImportTail(fd, reg[fd].mfd, NoFd, reg, reg[fd].cpu, reg[fd].mt, SizeOf(BufOf(fd)), f)
      /\ UNCHANGED <<fdt, maps, segv>>
  BY <1>2, <1>3 DEF ImportFd
<1>. QED  BY <1>1, <1>4, TailJoins

LEMMA ImportFdModifierJoins ==
  ASSUME Paired, ExactInv, UseInv, NEW fd \in Fds, NEW f \in Outcomes, ImportFdModifier(fd, f)
  PROVE  Joins(fd, NoFd, HandleOf(Data(BufOf(fd)), f), HandleOf(FileOf(NoFd), f))
<1>1. fd \in DOMAIN reg
  BY OfferedIs DEF ImportFdModifier
<1> PICK e : e = reg[fd]
  OBVIOUS
<1>2. Lookup(reg, fd) = e /\ e.mfd > 0 /\ Readable(maps, e.mt) /\ e.mt # NULL
      /\ maps[e.mt].file[1] = BufOf(fd) /\ Registered(reg, fd)
      /\ (e.cpu = NULL => BufOf(fd) \in Secure)
  BY <1>1, SoundIs
<1>3. \A c : DataAddr(e, maps, e.mt, c, f) = e.cpu
  BY <1>2 DEF DataAddr
<1>4. /\ ImportTail(fd, NoFd, NoFd, reg, e.cpu, e.mt, SizeOf(BufOf(fd)), f)
      /\ UNCHANGED <<fdt, maps, segv>>
  <2>1. PICK c \in NextAddr({}) :
          LET cpu == DataAddr(e, maps, e.mt, c, f)
              registry == IF Registered(reg, fd) /\ e.mfd >= 0 THEN reg
                          ELSE Update(Register(reg, fd, NoFd, cpu, e.mt), fd, NoFd, cpu, e.mt)
          IN /\ ImportTail(fd, NoFd, NoFd, registry, cpu, e.mt, SizeOf(fdt[fd][1]), f)
             /\ maps' = MapData(e, maps, fd, cpu, SizeOf(fdt[fd][1]))
             /\ UNCHANGED <<fdt, segv>>
    BY <1>2 DEF ImportFdModifier
  <2>2. e.mfd >= 0
    BY <1>2, EntryFound DEF ExactInv, RefsInv, TypeInv, FdOrNone, Fds, NoFd
  <2>. QED  BY <1>2, <1>3, <2>1, <2>2 DEF MapData, BufOf
<1>. QED  BY <1>1, <1>4, TailJoins

LEMMA PutCommutes ==
  ASSUME NEW m, NEW a, NEW c, a # c, NEW x, NEW y
  PROVE  Put(Put(m, a, x), c, y) = Put(Put(m, c, y), a, x)
BY DEF Put

\* The two addresses an import is given are free, and not the same.
LEMMA AddrsFree ==
  ASSUME NEW a \in NextAddr({}), NEW c \in NextAddr({a})
  PROVE  a \in Addrs \ DOMAIN maps /\ c \in Addrs \ DOMAIN maps /\ a # c
         /\ a # NULL /\ c # NULL
BY DEF NextAddr, Addrs, NULL

\* What an import brings with it that is the first on an offered fd.
LEMMA FirstAddrs ==
  ASSUME Paired, NEW b, NEW f \in Outcomes,
         NEW mfd, mfd > 0, mfd \in DOMAIN fdt, fdt[mfd] = Meta(b),
         NEW a \in NextAddr({}), NEW c \in NextAddr({a}),
         NEW e, e.mfd = NoFd, e.cpu = NULL, e.mt = NULL
  PROVE  LET mt == MetaAddr(e, mfd, a, f)
             m == MapMeta(e, mfd, mt)
             cpu == DataAddr(e, m, mt, c, f)
         IN /\ mt = a /\ m = Put(maps, a, Mapping(Meta(b), MetaLen))
            /\ cpu = IF b \in Secure THEN NULL ELSE c
            /\ UbwcLen(m, mt) = SizeOf(b)
<1>1. f # "mmap" /\ f # "mt_mmap"
  BY PairedOutcomes
<1>2. a # NULL /\ c # NULL
  BY AddrsFree
<1>3. MetaAddr(e, mfd, a, f) = a
  BY <1>1 DEF MetaAddr
<1> DEFINE m == Put(maps, a, Mapping(Meta(b), MetaLen))
<1>4. MapMeta(e, mfd, a) = m
  BY <1>2 DEF MapMeta
<1>5. m[a].file = Meta(b) /\ m[a].file[1] = b
  BY FileNames DEF Put, Mapping
<1> HIDE DEF m
<1>6. DataAddr(e, m, a, c, f) = IF b \in Secure THEN NULL ELSE c
  BY <1>1, <1>2, <1>5 DEF DataAddr
<1>7. UbwcLen(m, a) = SizeOf(b)
  BY <1>2, <1>5 DEF UbwcLen
<1>. QED  BY <1>3, <1>4, <1>6, <1>7 DEF m

LEMMA TailStarts ==
  ASSUME Paired, ExactInv, UseInv, NEW fd \in Fds, fd \notin DOMAIN reg, NEW mfd,
         <<fd, mfd>> \in offers, NEW f \in Outcomes,
         NEW a \in NextAddr({}), NEW c \in NextAddr({a}), NEW cpu, NEW b, b = BufOf(fd),
         cpu = IF b \in Secure THEN NULL ELSE c,
         ImportTail(fd, mfd, mfd, Register(reg, fd, mfd, cpu, a), cpu, a, SizeOf(b), f),
         maps' = IF b \in Secure THEN Put(maps, a, Mapping(Meta(b), MetaLen))
                 ELSE Put(Put(maps, a, Mapping(Meta(b), MetaLen)), c, Mapping(fdt[fd], SizeOf(b))),
         UNCHANGED <<fdt, segv>>
  PROVE  Starts(fd, b, mfd, cpu, a, f)
<1>1. /\ IsDataFd(fd) /\ fd \in DOMAIN fdt /\ fdt[fd] = Data(b) /\ fdt[fd][1] = b /\ b \in Bufs
      /\ mfd \in DOMAIN fdt /\ mfd > 0 /\ fdt[mfd] = Meta(b)
  <2>1. IsDataFd(fd) /\ mfd \in DOMAIN fdt /\ mfd > 0 /\ fdt[mfd] = Meta(b)
    BY DEF UseInv, OffersInv
  <2>. QED  BY <2>1, DataFdIs DEF BufOf
<1>2. \A k \in Fds : IsDataFd(k) /\ fdt[k] = Data(b) => k = fd
  BY <1>1 DEF UseInv, TableInv
<1>3. mfd # fd /\ fd # 0
  BY <1>1, FileNames DEF UseInv, TableInv
<1>4. a \in Addrs \ DOMAIN maps /\ c \in Addrs \ DOMAIN maps /\ a # c /\ a # NULL /\ c # NULL
  BY AddrsFree
<1>5. IF b \in Secure
      THEN cpu = NULL /\ maps' = Put(maps, a, Mapping(Meta(b), MetaLen))
      ELSE /\ cpu \in Addrs \ DOMAIN maps
           /\ maps' = Put(Put(maps, cpu, Mapping(Data(b), SizeOf(b))), a, Mapping(Meta(b), MetaLen))
  BY <1>1, <1>4, PutCommutes
<1>6. cpu # a
  BY <1>4
<1>7. f # "calloc"
  BY PairedOutcomes
<1>8. FileOf(mfd) = Meta(b)
  BY <1>1 DEF FileOf
<1>9. IncRef(Register(reg, fd, mfd, cpu, a), fd)
        = Put(reg, fd, [mfd |-> mfd, cpu |-> cpu, mt |-> a, ref |-> 1])
  BY FirstEntry
<1>10. /\ offers \ {<<fd, mfd>>} = {o \in offers : o[1] # fd}
       /\ \A o \in offers : o[1] = fd => o[2] = mfd
  BY DEF UseInv, OffersInv
<1>11. /\ reg' = Put(reg, fd, [mfd |-> mfd, cpu |-> cpu, mt |-> a, ref |-> 1])
       /\ gem' = (gem \cup {HandleOf(Data(b), f), HandleOf(Meta(b), f)}) \ {NoHandle}
       /\ offers' = {o \in offers : o[1] # fd}
  BY <1>1, <1>7, <1>8, <1>9, <1>10 DEF ImportTail
<1>12. \E id \in BoIds \ DOMAIN bos :
         bos' = Put(bos, id, NewBo(fd, [cpu |-> cpu, mt |-> a], b, mfd,
                                   HandleOf(Data(b), f), HandleOf(Meta(b), f)))
  BY <1>1, <1>7, <1>8 DEF ImportTail, NewBo
<1>. QED  BY <1>1, <1>2, <1>3, <1>4, <1>5, <1>6, <1>10, <1>11, <1>12 DEF Starts

\* An import of both descriptors joins the objects of its fd, or starts them.
LEMMA ImportGbmBufShaped ==
  ASSUME Paired, ExactInv, UseInv, NEW fd \in Fds, NEW mfd, NEW f \in Outcomes,
         ImportGbmBuf(fd, mfd, f)
  PROVE  \/ /\ Joins(fd, mfd, HandleOf(Data(BufOf(fd)), f), HandleOf(FileOf(mfd), f))
            /\ \E id \in Counted(fd) : bos[id].mfd = mfd
         \/ \E b, cpu, mt : Starts(fd, b, mfd, cpu, mt, f)
<1> PICK e : e = Lookup(reg, fd)
  OBVIOUS
<1>1. Offered(fd, mfd)
  BY DEF ImportGbmBuf
<1>2. CASE fd \in DOMAIN reg
  <2>1. mfd \in {NoFd, reg[fd].mfd} /\ \E id \in Counted(fd) : bos[id].mfd = mfd
    BY <1>1, <1>2, OfferedIs
  <2>2. e = reg[fd] /\ e.mfd > 0 /\ Readable(maps, e.mt) /\ e.mt # NULL
        /\ maps[e.mt].file[1] = BufOf(fd) /\ Registered(reg, fd)
        /\ (e.cpu = NULL => BufOf(fd) \in Secure)
    BY <1>2, SoundIs
  <2>3. \A a : MetaAddr(e, mfd, a, f) = e.mt
    BY <2>2 DEF MetaAddr
  <2>4. MapMeta(e, mfd, e.mt) = maps
    BY DEF MapMeta
  <2>5. UbwcLen(maps, e.mt) = SizeOf(BufOf(fd))
    BY <2>2 DEF UbwcLen
  <2>6. \A c : DataAddr(e, maps, e.mt, c, f) = e.cpu
    BY <2>2 DEF DataAddr
  <2>7. \A len : MapData(e, maps, fd, e.cpu, len) = maps
    BY DEF MapData
  <2>8. e.mfd >= 0
    <3>1. e.mfd \in FdOrNone /\ e.mfd > 0
      BY <2>2, EntryFound DEF ExactInv, RefsInv, TypeInv
    <3>. QED  BY <3>1 DEF FdOrNone, Fds, NoFd
  <2>9. /\ ImportTail(fd, mfd, mfd, reg, e.cpu, e.mt, SizeOf(BufOf(fd)), f)
        /\ UNCHANGED <<fdt, maps, segv>>
    <3>1. PICK a \in NextAddr({}) : \E c \in NextAddr({a}) :
            LET mt == MetaAddr(e, mfd, a, f)
                m == MapMeta(e, mfd, mt)
                len == UbwcLen(m, mt)
                cpu == DataAddr(e, m, mt, c, f)
                registry == IF Registered(reg, fd) /\ e.mfd >= 0 THEN reg
                            ELSE Update(Register(reg, fd, mfd, cpu, mt), fd, mfd, cpu, mt)
            IN /\ ImportTail(fd, mfd, mfd, registry, cpu, mt, len, f)
               /\ maps' = MapData(e, m, fd, cpu, len)
               /\ UNCHANGED <<fdt, segv>>
      BY <2>2 DEF ImportGbmBuf
    <3>. QED  BY <2>2, <2>3, <2>4, <2>5, <2>6, <2>7, <2>8, <3>1
  <2>10. mfd \in {NoFd, mfd}
    OBVIOUS
  <2>. QED  BY <1>2, <2>1, <2>2, <2>9, <2>10, TailJoins
<1>3. CASE fd \notin DOMAIN reg
  <2>1. <<fd, mfd>> \in offers
    BY <1>1, <1>3, OfferedIs
  <2> PICK b : b = BufOf(fd)
    OBVIOUS
  <2>2. IsDataFd(fd) /\ mfd > 0 /\ mfd \in DOMAIN fdt /\ fdt[mfd] = Meta(b)
    BY <2>1 DEF UseInv, OffersInv
  <2>3. e.mfd = NoFd /\ e.cpu = NULL /\ e.mt = NULL /\ ~Registered(reg, fd)
    BY <1>3 DEF Lookup, Registered
  <2>4. PICK a \in NextAddr({}) : \E c \in NextAddr({a}) :
          LET mt == MetaAddr(e, mfd, a, f)
              m == MapMeta(e, mfd, mt)
              len == UbwcLen(m, mt)
              cpu == DataAddr(e, m, mt, c, f)
              registry == IF Registered(reg, fd) /\ e.mfd >= 0 THEN reg
                          ELSE Update(Register(reg, fd, mfd, cpu, mt), fd, mfd, cpu, mt)
          IN /\ ImportTail(fd, mfd, mfd, registry, cpu, mt, len, f)
             /\ maps' = MapData(e, m, fd, cpu, len)
             /\ UNCHANGED <<fdt, segv>>
    BY <2>3 DEF ImportGbmBuf
  <2>5. PICK c \in NextAddr({a}) :
          LET mt == MetaAddr(e, mfd, a, f)
              m == MapMeta(e, mfd, mt)
              len == UbwcLen(m, mt)
              cpu == DataAddr(e, m, mt, c, f)
              registry == IF Registered(reg, fd) /\ e.mfd >= 0 THEN reg
                          ELSE Update(Register(reg, fd, mfd, cpu, mt), fd, mfd, cpu, mt)
          IN /\ ImportTail(fd, mfd, mfd, registry, cpu, mt, len, f)
             /\ maps' = MapData(e, m, fd, cpu, len)
             /\ UNCHANGED <<fdt, segv>>
    BY <2>4
  <2> PICK m : m = Put(maps, a, Mapping(Meta(b), MetaLen))
    OBVIOUS
  <2> PICK cpu : cpu = IF b \in Secure THEN NULL ELSE c
    OBVIOUS
  <2>6. /\ MetaAddr(e, mfd, a, f) = a /\ MapMeta(e, mfd, a) = m
        /\ DataAddr(e, m, a, c, f) = cpu /\ UbwcLen(m, a) = SizeOf(b)
    BY <2>2, <2>3, FirstAddrs
  <2>7. /\ ImportTail(fd, mfd, mfd, Update(Register(reg, fd, mfd, cpu, a), fd, mfd, cpu, a),
                      cpu, a, SizeOf(b), f)
        /\ maps' = MapData(e, m, fd, cpu, SizeOf(b)) /\ UNCHANGED <<fdt, segv>>
    BY <2>3, <2>5, <2>6
  <2>8. ImportTail(fd, mfd, mfd, Register(reg, fd, mfd, cpu, a), cpu, a, SizeOf(b), f)
    BY <1>3, <2>7, FirstEntry
  <2>9. maps' = IF b \in Secure THEN Put(maps, a, Mapping(Meta(b), MetaLen))
                ELSE Put(Put(maps, a, Mapping(Meta(b), MetaLen)), c, Mapping(fdt[fd], SizeOf(b)))
    BY <2>3, <2>7, AddrsFree DEF MapData
  <2>. QED  BY <1>3, <2>1, <2>7, <2>8, <2>9, TailStarts
<1>. QED  BY <1>2, <1>3

LEMMA ImportWlBufferShaped ==
  ASSUME Paired, ExactInv, UseInv, NEW fd \in Fds, NEW mfd, NEW f \in Outcomes,
         MayImportWl(fd), ImportWlBuffer(fd, mfd, f)
  PROVE  \/ /\ Joins(fd, mfd, HandleOf(Data(BufOf(fd)), f), HandleOf(FileOf(mfd), f))
            /\ \E id \in Counted(fd) : bos[id].mfd = mfd
         \/ \E b, cpu, mt : Starts(fd, b, mfd, cpu, mt, f)
<1> PICK e : e = Lookup(reg, fd)
  OBVIOUS
<1>1. Offered(fd, mfd)
  BY DEF ImportWlBuffer
<1>2. SizeOf(BufOf(fd)) = LinearLen
  BY DEF MayImportWl, Paired, SizeOf, LinearLen, BufOf
<1>3. CASE fd \in DOMAIN reg
  <2>1. mfd \in {NoFd, reg[fd].mfd} /\ \E id \in Counted(fd) : bos[id].mfd = mfd
    BY <1>1, <1>3, OfferedIs
  <2>2. e = reg[fd] /\ e.mfd > 0 /\ Readable(maps, e.mt) /\ e.mt # NULL
        /\ maps[e.mt].file[1] = BufOf(fd) /\ Registered(reg, fd)
        /\ (e.cpu = NULL => BufOf(fd) \in Secure)
    BY <1>3, SoundIs
  <2>3. \A a : MetaAddr(e, mfd, a, f) = e.mt
    BY <2>2 DEF MetaAddr
  <2>4. MapMeta(e, mfd, e.mt) = maps
    BY DEF MapMeta
  <2>5. \A c : DataAddr(e, maps, e.mt, c, f) = e.cpu
    BY <2>2 DEF DataAddr
  <2>6. \A len : MapData(e, maps, fd, e.cpu, len) = maps
    BY DEF MapData
  <2>7. ~(mfd > 0 /\ mfd # e.mfd)
    BY <2>1, <2>2 DEF NoFd
  <2>8. \A x, y : Register(reg, fd, mfd, x, y) = reg
    BY <2>2 DEF Register
  <2>9. /\ ImportTail(fd, mfd, mfd, reg, e.cpu, e.mt, SizeOf(BufOf(fd)), f)
        /\ UNCHANGED <<fdt, maps, segv>>
    <3>1. PICK a \in NextAddr({}) : \E c \in NextAddr({a}) :
            LET mt == MetaAddr(e, mfd, a, f)
                m == MapMeta(e, mfd, mt)
                cpu == DataAddr(e, m, mt, c, f)
                registry == IF mfd > 0 /\ mfd # e.mfd
                            THEN Update(Register(reg, fd, mfd, cpu, mt), fd, mfd, cpu, mt)
                            ELSE Register(reg, fd, mfd, cpu, mt)
            IN /\ ImportTail(fd, mfd, mfd, registry, cpu, mt, LinearLen, f)
               /\ maps' = MapData(e, m, fd, cpu, LinearLen)
               /\ UNCHANGED <<fdt, segv>>
      BY <2>2 DEF ImportWlBuffer
    <3>. QED  BY <1>2, <2>3, <2>4, <2>5, <2>6, <2>7, <2>8, <3>1
  <2>10. mfd \in {NoFd, mfd}
    OBVIOUS
  <2>. QED  BY <1>3, <2>1, <2>2, <2>9, <2>10, TailJoins
<1>4. CASE fd \notin DOMAIN reg
  <2>1. <<fd, mfd>> \in offers
    BY <1>1, <1>4, OfferedIs
  <2> PICK b : b = BufOf(fd)
    OBVIOUS
  <2>2. IsDataFd(fd) /\ mfd > 0 /\ mfd \in DOMAIN fdt /\ fdt[mfd] = Meta(b)
    BY <2>1 DEF UseInv, OffersInv
  <2>3. e.mfd = NoFd /\ e.cpu = NULL /\ e.mt = NULL /\ ~Registered(reg, fd)
    BY <1>4 DEF Lookup, Registered
  <2>4. PICK a \in NextAddr({}) : \E c \in NextAddr({a}) :
          LET mt == MetaAddr(e, mfd, a, f)
              m == MapMeta(e, mfd, mt)
              cpu == DataAddr(e, m, mt, c, f)
              registry == IF mfd > 0 /\ mfd # e.mfd
                          THEN Update(Register(reg, fd, mfd, cpu, mt), fd, mfd, cpu, mt)
                          ELSE Register(reg, fd, mfd, cpu, mt)
          IN /\ ImportTail(fd, mfd, mfd, registry, cpu, mt, LinearLen, f)
             /\ maps' = MapData(e, m, fd, cpu, LinearLen)
             /\ UNCHANGED <<fdt, segv>>
    BY <2>3 DEF ImportWlBuffer
  <2>5. PICK c \in NextAddr({a}) :
          LET mt == MetaAddr(e, mfd, a, f)
              m == MapMeta(e, mfd, mt)
              cpu == DataAddr(e, m, mt, c, f)
              registry == IF mfd > 0 /\ mfd # e.mfd
                          THEN Update(Register(reg, fd, mfd, cpu, mt), fd, mfd, cpu, mt)
                          ELSE Register(reg, fd, mfd, cpu, mt)
          IN /\ ImportTail(fd, mfd, mfd, registry, cpu, mt, LinearLen, f)
             /\ maps' = MapData(e, m, fd, cpu, LinearLen)
             /\ UNCHANGED <<fdt, segv>>
    BY <2>4
  <2> PICK m : m = Put(maps, a, Mapping(Meta(b), MetaLen))
    OBVIOUS
  <2> PICK cpu : cpu = IF b \in Secure THEN NULL ELSE c
    OBVIOUS
  <2>6. /\ MetaAddr(e, mfd, a, f) = a /\ MapMeta(e, mfd, a) = m
        /\ DataAddr(e, m, a, c, f) = cpu
    BY <2>2, <2>3, FirstAddrs
  <2>7. Update(Register(reg, fd, mfd, cpu, a), fd, mfd, cpu, a) = Register(reg, fd, mfd, cpu, a)
    BY <1>4, FirstEntry
  <2>8. /\ ImportTail(fd, mfd, mfd, Register(reg, fd, mfd, cpu, a), cpu, a, SizeOf(b), f)
        /\ maps' = MapData(e, m, fd, cpu, SizeOf(b)) /\ UNCHANGED <<fdt, segv>>
    BY <1>2, <2>5, <2>6, <2>7
  <2>9. maps' = IF b \in Secure THEN Put(maps, a, Mapping(Meta(b), MetaLen))
                ELSE Put(Put(maps, a, Mapping(Meta(b), MetaLen)), c, Mapping(fdt[fd], SizeOf(b)))
    BY <2>3, <2>8, AddrsFree DEF MapData
  <2>. QED  BY <1>4, <2>1, <2>8, <2>9, TailStarts
<1>. QED  BY <1>3, <1>4

\* bo_create starts the objects of its fd.
LEMMA BoCreateStarts ==
  ASSUME Paired, ExactInv, UseInv, NEW b \in Local, NEW f \in Outcomes, BoCreate(b, f)
  PROVE  \E fd \in Fds : \E mfd, cpu, mt : Starts(fd, b, mfd, cpu, mt, f)
<1>1. PICK d \in NextFd({}) : \E m \in NextFd({d}) :
        \E mt \in NextAddr({}) : \E c \in NextAddr({mt}) :
        \E id \in BoIds \ DOMAIN bos :
          b \in Local /\ Fresh(b) /\ CreateWith(b, f, d, m, mt, c, id)
  BY DEF BoCreate
<1>2. PICK m \in NextFd({d}) :
        \E mt \in NextAddr({}) : \E c \in NextAddr({mt}) :
        \E id \in BoIds \ DOMAIN bos : Fresh(b) /\ CreateWith(b, f, d, m, mt, c, id)
  BY <1>1
<1>3. PICK mt \in NextAddr({}) : \E c \in NextAddr({mt}) :
        \E id \in BoIds \ DOMAIN bos : Fresh(b) /\ CreateWith(b, f, d, m, mt, c, id)
  BY <1>2
<1>4. PICK c \in NextAddr({mt}), id \in BoIds \ DOMAIN bos :
        Fresh(b) /\ CreateWith(b, f, d, m, mt, c, id)
  BY <1>3
<1>5. /\ d \in Fds \ DOMAIN fdt /\ m \in Fds \ DOMAIN fdt /\ d # m
      /\ d > 0 /\ m > 0
  BY DEF NextFd, UseInv, TableInv, Fds
<1>6. mt \in Addrs \ DOMAIN maps /\ c \in Addrs \ DOMAIN maps /\ mt # c /\ mt # NULL /\ c # NULL
  BY AddrsFree
<1>7. b \in Bufs /\ d \notin DOMAIN reg
  BY <1>5 DEF Bufs, UseInv, IsDataFd
<1>8. \A k \in Fds : ~(IsDataFd(k) /\ fdt[k] = Data(b))
  BY <1>4 DEF Fresh, IsDataFd
<1>9. CreateReaches(b, d, f) = 6
  <2>1. f \in {"none", "prime"} /\ d # 0
    BY <1>5, PairedOutcomes
  <2>. QED  BY <2>1 DEF CreateReaches
<1> PICK cpu : cpu = IF b \in Secure THEN NULL ELSE c
  OBVIOUS
<1>10. /\ fdt' = Put(Put(fdt, d, Data(b)), m, Meta(b))
       /\ maps' = Put(IF cpu = NULL THEN maps ELSE Put(maps, cpu, Mapping(Data(b), SizeOf(b))),
                      mt, Mapping(Meta(b), MetaLen))
       /\ gem' = gem \cup ({HandleOf(file, f) : file \in {Data(b), Meta(b)}} \ {NoHandle})
       /\ reg' = IncRef(Register(reg, d, m, cpu, mt), d)
       /\ bos' = Put(bos, id, NewBo(d, [cpu |-> cpu, mt |-> mt], b, m,
                                    HandleOf(Data(b), f), HandleOf(Meta(b), f)))
       /\ offers' = offers /\ segv' = segv
  BY <1>4, <1>9 DEF CreateWith, NewBo
<1>11. gem' = (gem \cup {HandleOf(Data(b), f), HandleOf(Meta(b), f)}) \ {NoHandle}
  <2>1. NoHandle \notin gem
    BY FileNames DEF ExactInv, RefsInv, TypeInv, TypeOK, BufFiles, NoHandle
  <2>2. {HandleOf(file, f) : file \in {Data(b), Meta(b)}}
          = {HandleOf(Data(b), f), HandleOf(Meta(b), f)}
    OBVIOUS
  <2>. QED  BY <1>10, <2>1, <2>2
<1>12. offers' = {o \in offers : o[1] # d} /\ \A o \in offers : o[1] # d
  BY <1>5, <1>10 DEF UseInv, OffersInv, IsDataFd
<1>13. reg' = Put(reg, d, [mfd |-> m, cpu |-> cpu, mt |-> mt, ref |-> 1])
  BY <1>7, <1>10, FirstEntry
<1>14. /\ DOMAIN fdt' = DOMAIN fdt \cup {d, m} /\ fdt'[d] = Data(b) /\ fdt'[m] = Meta(b)
       /\ \A k \in DOMAIN fdt \ {d, m} : fdt'[k] = fdt[k]
  BY <1>5, <1>10 DEF Put
<1>15. IF b \in Secure
       THEN cpu = NULL /\ maps' = Put(maps, mt, Mapping(Meta(b), MetaLen))
       ELSE /\ cpu \in Addrs \ DOMAIN maps
            /\ maps' = Put(Put(maps, cpu, Mapping(Data(b), SizeOf(b))), mt, Mapping(Meta(b), MetaLen))
  BY <1>6, <1>10
<1>16. Starts(d, b, m, cpu, mt, f)
  <2>1. cpu # mt
    BY <1>6
  <2>. QED  BY <1>5, <1>6, <1>7, <1>8, <1>10, <1>11, <1>12, <1>13, <1>14, <1>15, <2>1 DEF Starts
<1>. QED  BY <1>5, <1>16

\* What such a client can import joins or starts; it starts only with the metadata.
LEMMA ImportShaped ==
  ASSUME Paired, ExactInv, UseInv, ImportStep
  PROVE  \E fd \in Fds, f \in Outcomes :
           \/ \E mfd, h, mh : Joins(fd, mfd, h, mh)
           \/ \E b, mfd, cpu, mt : Starts(fd, b, mfd, cpu, mt, f)
<1>1. PICK fd \in Fds, f \in Outcomes :
        \/ ImportFd(fd, f) \/ ImportFdModifier(fd, f)
        \/ \E mfd \in Fds \cup {NoFd} :
             \/ ImportGbmBuf(fd, mfd, f)
             \/ MayImportWl(fd) /\ ImportWlBuffer(fd, mfd, f)
  BY DEF ImportStep, Paired, ImportFdModifierNoInfo
<1>2. CASE ImportFd(fd, f)
  BY <1>2, ImportFdJoins
<1>3. CASE ImportFdModifier(fd, f)
  BY <1>3, ImportFdModifierJoins
<1>4. ASSUME NEW mfd, ImportGbmBuf(fd, mfd, f)
      PROVE  \/ \E m, h, mh : Joins(fd, m, h, mh)
             \/ \E b, m, cpu, mt : Starts(fd, b, m, cpu, mt, f)
  BY <1>4, ImportGbmBufShaped
<1>5. ASSUME NEW mfd, MayImportWl(fd), ImportWlBuffer(fd, mfd, f)
      PROVE  \/ \E m, h, mh : Joins(fd, m, h, mh)
             \/ \E b, m, cpu, mt : Starts(fd, b, m, cpu, mt, f)
  BY <1>5, ImportWlBufferShaped
<1>. QED  BY <1>1, <1>2, <1>3, <1>4, <1>5

-----------------------------------------------------------------------------
(* No step of such a client takes from an object what it stands on.        *)

\* What is open stays open, what is mapped stays mapped.
Kept ==
  /\ \A k \in DOMAIN fdt : k \in DOMAIN fdt' /\ fdt'[k] = fdt[k]
  /\ \A a \in DOMAIN maps : a \in DOMAIN maps' /\ maps'[a] = maps[a]

\* Where they do, what was sound stays it, and data descriptors stay what they are.
LEMMA KeptSound ==
  ASSUME ExactInv, UseInv, Kept, NEW k \in DOMAIN reg, NEW e,
         e.mfd = reg[k].mfd, e.cpu = reg[k].cpu, e.mt = reg[k].mt
  PROVE  /\ IsDataFd(k)' /\ BufOf(k)' = BufOf(k)
         /\ Sound(e, BufOf(k))'
<1>1. IsDataFd(k) /\ Sound(e, BufOf(k))
  BY DEF UseInv, Sound
<1>2. BufOf(k)' = BufOf(k) /\ IsDataFd(k)'
  BY <1>1 DEF IsDataFd, BufOf, Kept
<1> PICK b : b = BufOf(k)
  OBVIOUS
<1>3. Sound(e, b)'
  BY <1>1 DEF Sound, Kept
<1>. QED  BY <1>2, <1>3 DEF Sound

\* ... and an object that agreed with its entry still does, if the entry is the same.
LEMMA KeptAgrees ==
  ASSUME ExactInv, UseInv, Kept, NEW id \in DOMAIN bos, ~bos[id].named,
         id \in DOMAIN bos', bos'[id] = bos[id], gem \subseteq gem',
         bos[id].fd \in DOMAIN reg', reg'[bos[id].fd].mfd = reg[bos[id].fd].mfd,
         reg'[bos[id].fd].cpu = reg[bos[id].fd].cpu, reg'[bos[id].fd].mt = reg[bos[id].fd].mt
  PROVE  Agrees(bos[id])'
<1> PICK bo : bo = bos[id]
  OBVIOUS
<1>1. Agrees(bo) /\ bo.fd \in DOMAIN reg
  BY DEF UseInv, Agrees
<1>2. bo.fd \in DOMAIN fdt /\ fdt'[bo.fd] = fdt[bo.fd]
  BY <1>1, SoundIs DEF Kept
<1>3. Agrees(bo)'
  BY <1>1, <1>2 DEF Agrees
<1>. QED  BY <1>3 DEF Agrees

\* A handle is no null handle, so opening more of them loses none.
LEMMA HandlesGrow ==
  ASSUME TypeOK, NEW h, NEW mh, gem' = (gem \cup {h, mh}) \ {NoHandle}
  PROVE  gem \subseteq gem' /\ {h, mh} \ {NoHandle} \subseteq gem'
<1>1. NoHandle \notin gem
  BY DEF TypeOK, BufFiles, NoHandle
<1>. QED  BY <1>1

LEMMA JoinsUse ==
  ASSUME Paired, ExactInv, UseInv, NEW fd \in Fds, NEW mfd, NEW h, NEW mh,
         Joins(fd, mfd, h, mh)
  PROVE  UseInv'
<1>1. Kept /\ UNCHANGED <<fdt, maps, offers, segv>>
  BY DEF Joins, Kept
<1>2. /\ DOMAIN reg' = DOMAIN reg
      /\ \A k \in DOMAIN reg : /\ reg'[k].mfd = reg[k].mfd
                               /\ reg'[k].cpu = reg[k].cpu /\ reg'[k].mt = reg[k].mt
  <2>1. reg' = [reg EXCEPT ![fd].ref = @ + 1]
    BY DEF Joins, IncRef, Registered
  <2>2. \A k \in DOMAIN reg : reg[k] \in Entry
    BY DEF ExactInv, RefsInv, TypeInv, TypeOK, MapsTo
  <2>. QED  BY <2>1, <2>2 DEF Entry
<1>3. ~segv' /\ TableInv' /\ OffersInv'
  BY <1>1, <1>2 DEF UseInv, TableInv, OffersInv, IsDataFd, BufOf
<1>4. ASSUME NEW k \in DOMAIN reg'
      PROVE  IsDataFd(k)' /\ Sound(reg[k], BufOf(k))'
  <2> PICK e : e = reg'[k]
    OBVIOUS
  <2>1. IsDataFd(k)' /\ Sound(e, BufOf(k))'
    BY <1>1, <1>2, <1>4, KeptSound
  <2>. QED  BY <2>1 DEF Sound
<1>5. gem \subseteq gem' /\ {h, mh} \ {NoHandle} \subseteq gem'
  BY HandlesGrow DEF Joins, ExactInv, RefsInv, TypeInv
<1>6. PICK id \in BoIds \ DOMAIN bos :
        bos' = Put(bos, id, NewBo(fd, reg[fd], BufOf(fd), mfd, h, mh))
  BY DEF Joins
<1>7. ASSUME NEW k \in DOMAIN bos', ~bos'[k].named
      PROVE  Agrees(bos[k])'
  <2>1. CASE k = id
    <3> PICK bo : bo = NewBo(fd, reg[fd], BufOf(fd), mfd, h, mh)
      OBVIOUS
    <3>1. fd \in DOMAIN reg /\ fdt[fd] = Data(BufOf(fd))
      BY SoundIs DEF Joins
    <3>2. Agrees(bo)'
      BY <1>1, <1>2, <1>5, <3>1 DEF Agrees, NewBo, Joins
    <3>3. bos'[k] = bo
      BY <1>6, <2>1 DEF Put
    <3>. QED  BY <3>2, <3>3 DEF Agrees
  <2>2. CASE k # id
    <3>1. k \in DOMAIN bos /\ bos'[k] = bos[k]
      BY <1>6, <1>7, <2>2 DEF Put
    <3>2. bos[k].fd \in DOMAIN reg
      BY <1>7, <3>1 DEF UseInv, Agrees
    <3>. QED  BY <1>1, <1>2, <1>5, <1>7, <3>1, <3>2, KeptAgrees
  <2>. QED  BY <2>1, <2>2
<1>. QED  BY <1>3, <1>4, <1>7 DEF UseInv

LEMMA StartsKeeps ==
  ASSUME NEW fd, NEW b, NEW mfd, NEW cpu, NEW mt, NEW f, Starts(fd, b, mfd, cpu, mt, f)
  PROVE  /\ Kept
         /\ \A k \in DOMAIN reg : k # fd /\ k \in DOMAIN reg' /\ reg'[k] = reg[k]
         /\ mt \in DOMAIN maps' /\ maps'[mt] = Mapping(Meta(b), MetaLen)
         /\ IF b \in Secure THEN cpu = NULL
            ELSE cpu \in DOMAIN maps' /\ maps'[cpu] = Mapping(Data(b), SizeOf(b))
<1>1. \A k \in DOMAIN fdt : k \in DOMAIN fdt' /\ fdt'[k] = fdt[k]
  BY DEF Starts
<1>2. \A k \in DOMAIN reg : k # fd /\ k \in DOMAIN reg' /\ reg'[k] = reg[k]
  BY DEF Starts, Put
<1>3. CASE b \in Secure
  <2>1. cpu = NULL /\ mt \notin DOMAIN maps /\ maps' = Put(maps, mt, Mapping(Meta(b), MetaLen))
    BY <1>3 DEF Starts
  <2>. QED  BY <1>1, <1>2, <1>3, <2>1 DEF Put, Kept
<1>4. CASE b \notin Secure
  <2>1. /\ mt \notin DOMAIN maps /\ cpu \notin DOMAIN maps /\ cpu # mt
        /\ maps' = Put(Put(maps, cpu, Mapping(Data(b), SizeOf(b))), mt, Mapping(Meta(b), MetaLen))
    BY <1>4 DEF Starts
  <2>2. /\ \A a \in DOMAIN maps : a \in DOMAIN maps' /\ maps'[a] = maps[a]
        /\ mt \in DOMAIN maps' /\ maps'[mt] = Mapping(Meta(b), MetaLen)
        /\ cpu \in DOMAIN maps' /\ maps'[cpu] = Mapping(Data(b), SizeOf(b))
    BY <2>1 DEF Put
  <2>. QED  BY <1>1, <1>2, <1>4, <2>2 DEF Kept
<1>. QED  BY <1>3, <1>4

LEMMA StartsUse ==
  ASSUME Paired, ExactInv, UseInv, NEW fd, NEW b, NEW mfd, NEW cpu, NEW mt,
         NEW f \in Outcomes, Starts(fd, b, mfd, cpu, mt, f)
  PROVE  UseInv'
<1>1. /\ Kept
      /\ \A k \in DOMAIN reg : k # fd /\ k \in DOMAIN reg' /\ reg'[k] = reg[k]
  BY StartsKeeps
<1>2. /\ fd \in DOMAIN fdt' /\ fdt'[fd] = Data(b) /\ mfd \in DOMAIN fdt' /\ fdt'[mfd] = Meta(b)
      /\ DOMAIN fdt' = DOMAIN fdt \cup {fd, mfd} /\ b \in Bufs /\ fd \in Fds /\ mfd # fd /\ mfd > 0
      /\ offers' = {o \in offers : o[1] # fd} /\ segv' = segv
  BY DEF Starts
<1>3. /\ DOMAIN reg' = DOMAIN reg \cup {fd}
      /\ reg'[fd] = [mfd |-> mfd, cpu |-> cpu, mt |-> mt, ref |-> 1]
  BY DEF Starts, Put
<1>4. IsDataFd(fd)' /\ BufOf(fd)' = b
  BY <1>2, FileNames DEF IsDataFd, BufOf
<1>5. ASSUME NEW k \in Fds, IsDataFd(k)', k # fd
      PROVE  IsDataFd(k) /\ fdt'[k] = fdt[k] /\ fdt[k] # Data(b)
  <2>1. k # mfd
    BY <1>2, <1>5, FileNames DEF IsDataFd
  <2>2. k \in DOMAIN fdt /\ fdt'[k] = fdt[k]
    BY <1>1, <1>2, <1>5, <2>1 DEF IsDataFd, Kept
  <2>3. IsDataFd(k)
    BY <1>5, <2>2 DEF IsDataFd
  <2>. QED  BY <1>5, <2>2, <2>3 DEF Starts
<1>6. TableInv'
  <2>1. 0 \in DOMAIN fdt' /\ fdt'[0] = Stdin
    BY <1>1 DEF UseInv, TableInv, Kept
  <2>2. ASSUME NEW k \in Fds, IsDataFd(k)'
        PROVE  k \in DOMAIN reg' \/ \E o \in offers' : o[1] = k
    <3>1. CASE k = fd
      BY <1>3, <3>1
    <3>2. CASE k # fd
      <4>1. k \in DOMAIN reg \/ \E o \in offers : o[1] = k
        BY <1>5, <2>2, <3>2 DEF UseInv, TableInv
      <4>. QED  BY <1>2, <1>3, <3>2, <4>1
    <3>. QED  BY <3>1, <3>2
  <2>3. ASSUME NEW k \in Fds, NEW l \in Fds, IsDataFd(k)', IsDataFd(l)', fdt'[k] = fdt'[l]
        PROVE  k = l
    <3>1. CASE k # fd /\ l # fd
      BY <1>5, <2>3, <3>1 DEF UseInv, TableInv
    <3>2. CASE k = fd \/ l = fd
      BY <1>2, <1>5, <2>3, <3>2
    <3>. QED  BY <3>1, <3>2
  <2>. QED  BY <2>1, <2>2, <2>3 DEF TableInv
<1>7. OffersInv'
  <2>1. ASSUME NEW o \in offers'
        PROVE  /\ IsDataFd(o[1])' /\ o[1] \notin DOMAIN reg'
               /\ o[2] \in DOMAIN fdt' /\ o[2] > 0 /\ fdt'[o[2]] = Meta(fdt'[o[1]][1])
    <3>1. o \in offers /\ o[1] # fd
      BY <1>2, <2>1
    <3>2. /\ IsDataFd(o[1]) /\ o[1] \notin DOMAIN reg
          /\ o[2] \in DOMAIN fdt /\ o[2] > 0 /\ fdt[o[2]] = Meta(fdt[o[1]][1])
      BY <3>1 DEF UseInv, OffersInv, BufOf
    <3>3. fdt'[o[1]] = fdt[o[1]] /\ fdt'[o[2]] = fdt[o[2]] /\ o[1] \in DOMAIN fdt' /\ o[2] \in DOMAIN fdt'
      BY <1>1, <3>2 DEF Kept, IsDataFd
    <3>4. IsDataFd(o[1])'
      BY <3>2, <3>3 DEF IsDataFd
    <3>. QED  BY <1>3, <3>1, <3>2, <3>3, <3>4
  <2>2. \A o, p \in offers' : o = p
    BY <1>2 DEF UseInv, OffersInv
  <2>. QED  BY <2>1, <2>2 DEF OffersInv, BufOf
<1>8. ASSUME NEW k \in DOMAIN reg'
      PROVE  IsDataFd(k)' /\ Sound(reg[k], BufOf(k))'
  <2> PICK e : e = reg'[k]
    OBVIOUS
  <2>1. CASE k = fd
    <3>1. e.mfd = mfd /\ e.cpu = cpu /\ e.mt = mt
      BY <1>3, <2>1
    <3>2. Sound(e, b)'
      BY <1>2, <3>1, StartsKeeps DEF Sound
    <3>. QED  BY <1>4, <2>1, <3>2 DEF Sound
  <2>2. CASE k # fd
    <3>1. k \in DOMAIN reg /\ e = reg[k]
      BY <1>1, <1>3, <2>2
    <3>2. IsDataFd(k)' /\ Sound(e, BufOf(k))'
      BY <1>1, <3>1, KeptSound
    <3>. QED  BY <3>2 DEF Sound
  <2>. QED  BY <2>1, <2>2
<1> PICK h, mh : h = HandleOf(Data(b), f) /\ mh = HandleOf(Meta(b), f)
  OBVIOUS
<1>9. gem \subseteq gem' /\ {h, mh} \ {NoHandle} \subseteq gem'
  BY HandlesGrow DEF Starts, ExactInv, RefsInv, TypeInv
<1>10. h \in {NoHandle, Data(b)} /\ mh \in {NoHandle, Meta(b)}
  BY DEF HandleOf
<1>11. PICK id \in BoIds \ DOMAIN bos :
         bos' = Put(bos, id, NewBo(fd, [cpu |-> cpu, mt |-> mt], b, mfd, h, mh))
  BY DEF Starts
<1>12. ASSUME NEW k \in DOMAIN bos', ~bos'[k].named
       PROVE  Agrees(bos[k])'
  <2>1. CASE k = id
    <3> PICK bo : bo = NewBo(fd, [cpu |-> cpu, mt |-> mt], b, mfd, h, mh)
      OBVIOUS
    <3>1. Agrees(bo)'
      BY <1>2, <1>3, <1>9, <1>10 DEF Agrees, NewBo
    <3>2. bos'[k] = bo
      BY <1>11, <2>1 DEF Put
    <3>. QED  BY <3>1, <3>2 DEF Agrees
  <2>2. CASE k # id
    <3>1. k \in DOMAIN bos /\ bos'[k] = bos[k]
      BY <1>11, <1>12, <2>2 DEF Put
    <3>2. bos[k].fd \in DOMAIN reg
      BY <1>12, <3>1 DEF UseInv, Agrees
    <3>. QED  BY <1>1, <1>9, <1>12, <3>1, <3>2, KeptAgrees
  <2>. QED  BY <2>1, <2>2
<1>. QED  BY <1>2, <1>6, <1>7, <1>8, <1>12 DEF UseInv

\* An object's munmap takes both its mappings down, and nothing else.
LEMMA UnmapIs ==
  ASSUME ExactInv, UseInv, NEW id \in DOMAIN bos, ~bos[id].named
  PROVE  LET m == UnmapBoth(maps, bos[id])
         IN /\ DOMAIN m = DOMAIN maps \ {bos[id].cpu, bos[id].mt}
            /\ \A a \in DOMAIN m : m[a] = maps[a]
<1> PICK bo : bo = bos[id]
  OBVIOUS
<1> PICK b : b = BufOf(bo.fd)
  OBVIOUS
<1>1. bo.fd \in DOMAIN reg /\ bo.buf = b /\ Sound(reg[bo.fd], b) /\ Agrees(bo)
  BY FileNames DEF UseInv, Agrees, BufOf
<1>2. /\ bo.mt \in DOMAIN maps /\ maps[bo.mt] = Mapping(Meta(b), MetaLen)
      /\ IF b \in Secure THEN bo.cpu = NULL
         ELSE bo.cpu \in DOMAIN maps /\ maps[bo.cpu] = Mapping(Data(b), SizeOf(b))
      /\ bo.size = SizeOf(b)
  BY <1>1 DEF Sound, Agrees
<1>3. NULL \notin DOMAIN maps
  BY DEF NULL, ExactInv, RefsInv, TypeInv, TypeOK, MapsTo, Addrs
<1>4. MetaLen \in Nat /\ SizeOf(b) \in Nat
  BY DEF MetaLen, SizeOf
<1> PICK m1 : m1 = Munmap(maps, bo.cpu, bo.size)
  OBVIOUS
<1>5. bo.size \in Nat /\ (bo.cpu \in DOMAIN maps => maps[bo.cpu].len = bo.size)
  BY <1>2, <1>3, <1>4 DEF Mapping
<1>6. /\ DOMAIN m1 = DOMAIN maps \ {bo.cpu}
      /\ \A x \in DOMAIN maps \ {bo.cpu} : m1[x] = maps[x]
  BY <1>5 DEF Munmap, Drop
<1>7. bo.mt \in DOMAIN m1 => m1[bo.mt].len = MetaLen
  BY <1>2, <1>6 DEF Mapping
<1>8. /\ DOMAIN Munmap(m1, bo.mt, MetaLen) = DOMAIN m1 \ {bo.mt}
      /\ \A x \in DOMAIN m1 \ {bo.mt} : Munmap(m1, bo.mt, MetaLen)[x] = m1[x]
  BY <1>4, <1>7 DEF Munmap, Drop
<1>. QED  BY <1>6, <1>8 DEF UnmapBoth

\* A destroy is one of many, or the last: then all its fd stands for goes.
Parts(id) ==
  LET bo == bos[id] IN
  /\ Counted(bo.fd) # {id}
  /\ reg' = [reg EXCEPT ![bo.fd].ref = @ - 1]
  /\ UNCHANGED <<fdt, maps, gem>>

Ends(id) ==
  LET bo == bos[id] IN
  /\ Counted(bo.fd) = {id}
  /\ DOMAIN reg' = DOMAIN reg \ {bo.fd} /\ \A k \in DOMAIN reg' : reg'[k] = reg[k]
  /\ DOMAIN fdt' = DOMAIN fdt \ {bo.fd, bo.mfd} /\ \A k \in DOMAIN fdt' : fdt'[k] = fdt[k]
  /\ DOMAIN maps' = DOMAIN maps \ {bo.cpu, bo.mt} /\ \A a \in DOMAIN maps' : maps'[a] = maps[a]
  /\ gem' = gem \ {bo.handle, bo.mhandle}

LEMMA DestroyShaped ==
  ASSUME Paired, ExactInv, UseInv, NEW id \in DOMAIN bos, MayDestroy(id), BoDestroy(id)
  PROVE  /\ ~bos[id].named /\ bos[id].fd \in DOMAIN reg
         /\ DOMAIN bos' = DOMAIN bos \ {id} /\ \A k \in DOMAIN bos' : bos'[k] = bos[k]
         /\ UNCHANGED <<offers, segv>>
         /\ Parts(id) \/ Ends(id)
<1> PICK fd : fd = bos[id].fd
  OBVIOUS
<1>1. ~bos[id].named
  BY DEF Paired, NamesKept, ExactInv, RefsInv, MayDestroy
<1>2. fd \in DOMAIN reg /\ fd \in Fds /\ id \in Counted(fd)
  BY <1>1 DEF UseInv, Agrees, Counted, ExactInv, RefsInv, TypeInv, TypeOK, MapsTo
<1>3. LastRef(reg, fd) <=> Counted(fd) = {id}
  BY <1>2, LastIsLast
<1>4. /\ DOMAIN bos' = DOMAIN bos \ {id} /\ \A k \in DOMAIN bos' : bos'[k] = bos[k]
      /\ UNCHANGED <<offers, segv>>
  BY DEF BoDestroy, Drop
<1>5. CASE LastRef(reg, fd)
  <2>1. reg' = Drop(reg, {fd})
    BY <1>2, <1>5 DEF BoDestroy, DecRef, Registered
  <2>2. /\ fdt' = Drop(fdt, {fd, bos[id].mfd}) /\ maps' = UnmapBoth(maps, bos[id])
        /\ gem' = gem \ {bos[id].handle, bos[id].mhandle}
    BY <1>5 DEF BoDestroy
  <2>3. Ends(id)
    BY <1>1, <1>3, <1>5, <2>1, <2>2, UnmapIs DEF Ends, Drop
  <2>. QED  BY <1>1, <1>2, <1>4, <2>3
<1>6. CASE ~LastRef(reg, fd)
  <2>1. Parts(id)
    BY <1>2, <1>3, <1>6 DEF BoDestroy, DecRef, Registered, Parts
  <2>. QED  BY <1>1, <1>2, <1>4, <2>1
<1>. QED  BY <1>5, <1>6

\* Two fds of buffers share neither descriptor nor mapping nor handle.
LEMMA Apart ==
  ASSUME ExactInv, UseInv, NEW fd \in DOMAIN reg, NEW k \in Fds, IsDataFd(k), k # fd
  PROVE  /\ BufOf(k) # BufOf(fd)
         /\ k \notin {fd, reg[fd].mfd, NoFd}
         /\ k \in DOMAIN reg =>
              /\ reg[k].mfd \notin {fd, reg[fd].mfd, NoFd}
              /\ {reg[k].cpu, reg[k].mt} \cap {reg[fd].cpu, reg[fd].mt} \subseteq {NULL}
              /\ reg[k].mt # NULL
<1>1. /\ IsDataFd(fd) /\ fd \in Fds
      /\ fdt[fd] = Data(BufOf(fd)) /\ fdt[k] = Data(BufOf(k))
  BY DataFdIs DEF UseInv, ExactInv, RefsInv, TypeInv, TypeOK, MapsTo
<1>2. BufOf(k) # BufOf(fd)
  BY <1>1 DEF UseInv, TableInv
<1>3. Sound(reg[fd], BufOf(fd)) /\ (k \in DOMAIN reg => Sound(reg[k], BufOf(k)))
  BY DEF UseInv
<1>4. k \notin {fd, reg[fd].mfd, NoFd}
  <2>1. fdt[k] # fdt[reg[fd].mfd]
    BY <1>1, <1>3, FileNames DEF Sound
  <2>. QED  BY <2>1 DEF Fds, NoFd
<1>5. ASSUME k \in DOMAIN reg
      PROVE  /\ reg[k].mfd \notin {fd, reg[fd].mfd, NoFd}
             /\ {reg[k].cpu, reg[k].mt} \cap {reg[fd].cpu, reg[fd].mt} \subseteq {NULL}
             /\ reg[k].mt # NULL
  <2>1. reg[k].mfd > 0 /\ fdt[reg[k].mfd] = Meta(BufOf(k)) /\ fdt[reg[fd].mfd] = Meta(BufOf(fd))
    BY <1>3, <1>5 DEF Sound
  <2>2. reg[k].mfd \notin {fd, reg[fd].mfd}
    BY <1>1, <1>2, <2>1, FileNames
  <2>3. ASSUME NEW b, NEW e, Sound(e, b), NEW a \in {e.cpu, e.mt}
        PROVE  a = NULL \/ maps[a].file \in {Data(b), Meta(b)}
    BY <2>3 DEF Sound, Mapping
  <2>4. {Data(BufOf(k)), Meta(BufOf(k))} \cap {Data(BufOf(fd)), Meta(BufOf(fd))} = {}
    BY <1>2, FileNames
  <2>5. ASSUME NEW a \in {reg[k].cpu, reg[k].mt}, a \in {reg[fd].cpu, reg[fd].mt}
        PROVE  a = NULL
    <3>1. a = NULL \/ maps[a].file \in {Data(BufOf(k)), Meta(BufOf(k))}
      BY <1>3, <1>5, <2>3, <2>5
    <3>2. a = NULL \/ maps[a].file \in {Data(BufOf(fd)), Meta(BufOf(fd))}
      BY <1>3, <2>3, <2>5
    <3>. QED  BY <2>4, <3>1, <3>2
  <2>6. reg[k].mt # NULL
    BY <1>5, SoundIs
  <2>7. reg[k].mfd # NoFd
    BY <1>5, SoundIs
  <2>. QED  BY <2>2, <2>5, <2>6, <2>7
<1>. QED  BY <1>2, <1>4, <1>5

\* What the last object takes with it, no other fd stands on.
LEMMA EndsSpares ==
  ASSUME ExactInv, UseInv, NEW id \in DOMAIN bos, ~bos[id].named,
         bos[id].fd \in DOMAIN reg, Ends(id),
         NEW k \in Fds, IsDataFd(k), k # bos[id].fd
  PROVE  /\ IsDataFd(k)' /\ k \in DOMAIN fdt' /\ fdt'[k] = fdt[k]
         /\ \A m \in DOMAIN fdt : fdt[m] = Meta(BufOf(k)) => m \in DOMAIN fdt' /\ fdt'[m] = fdt[m]
         /\ k \in DOMAIN reg => /\ k \in DOMAIN reg' /\ reg'[k] = reg[k]
                                /\ Sound(reg[k], BufOf(k))'
<1> PICK bo : bo = bos[id]
  OBVIOUS
<1>1. /\ bo.mfd \in {NoFd, reg[bo.fd].mfd} /\ bo.cpu = reg[bo.fd].cpu /\ bo.mt = reg[bo.fd].mt
      /\ bo.fd \in DOMAIN reg
  BY DEF UseInv, Agrees
<1>2. /\ BufOf(k) # BufOf(bo.fd)
      /\ k \notin {bo.fd, bo.mfd}
      /\ k \in DOMAIN reg =>
           /\ reg[k].mfd \notin {bo.fd, bo.mfd}
           /\ {reg[k].cpu, reg[k].mt} \cap {bo.cpu, bo.mt} \subseteq {NULL}
           /\ reg[k].mt # NULL
  BY <1>1, Apart
<1>3. k \in DOMAIN fdt' /\ fdt'[k] = fdt[k] /\ IsDataFd(k)'
  BY <1>2 DEF Ends, IsDataFd
<1>4. /\ fdt[bo.fd] = Data(BufOf(bo.fd))
      /\ bo.mfd \in DOMAIN fdt => fdt[bo.mfd] = Meta(BufOf(bo.fd))
  <2>1. NoFd \notin DOMAIN fdt
    BY DEF ExactInv, RefsInv, TypeInv, TypeOK, MapsTo, Fds, NoFd
  <2>. QED  BY <1>1, <2>1, SoundIs
<1>5. \A m \in DOMAIN fdt : fdt[m] = Meta(BufOf(k)) => m \in DOMAIN fdt' /\ fdt'[m] = fdt[m]
  BY <1>2, <1>4, FileNames DEF Ends
<1>6. ASSUME k \in DOMAIN reg
      PROVE  k \in DOMAIN reg' /\ reg'[k] = reg[k] /\ Sound(reg[k], BufOf(k))'
  <2>1. k \in DOMAIN reg' /\ reg'[k] = reg[k]
    BY <1>6 DEF Ends
  <2> PICK e : e = reg[k]
    OBVIOUS
  <2> PICK b : b = BufOf(k)
    OBVIOUS
  <2>2. Sound(e, b)
    BY <1>6 DEF UseInv
  <2>3. NULL \notin DOMAIN maps
    BY DEF NULL, ExactInv, RefsInv, TypeInv, TypeOK, MapsTo, Addrs
  <2>4. \A a \in {e.cpu, e.mt} : a \in DOMAIN maps => a \in DOMAIN maps' /\ maps'[a] = maps[a]
    <3>1. /\ DOMAIN maps' = DOMAIN maps \ {bo.cpu, bo.mt}
          /\ \A a \in DOMAIN maps' : maps'[a] = maps[a]
      BY DEF Ends
    <3>2. \A a \in {e.cpu, e.mt} : a \in {bo.cpu, bo.mt} => a = NULL
      BY <1>2, <1>6
    <3>. QED  BY <2>3, <3>1, <3>2
  <2>5. e.mfd \in DOMAIN fdt' /\ fdt'[e.mfd] = fdt[e.mfd]
    BY <1>5, <2>2 DEF Sound
  <2>6. Sound(e, b)'
    BY <2>2, <2>4, <2>5 DEF Sound
  <2>. QED  BY <1>3, <2>1, <2>6 DEF Sound, BufOf
<1>. QED  BY <1>3, <1>5, <1>6

LEMMA DestroyUse ==
  ASSUME Paired, ExactInv, UseInv, NEW id \in DOMAIN bos, MayDestroy(id), BoDestroy(id)
  PROVE  UseInv'
<1> PICK fd : fd = bos[id].fd
  OBVIOUS
<1>1. /\ ~bos[id].named /\ fd \in DOMAIN reg
      /\ DOMAIN bos' = DOMAIN bos \ {id} /\ \A k \in DOMAIN bos' : bos'[k] = bos[k]
      /\ UNCHANGED <<offers, segv>>
      /\ Parts(id) \/ Ends(id)
  BY DestroyShaped
<1>2. CASE Parts(id)
  <2>1. Kept /\ UNCHANGED <<fdt, maps, gem, offers, segv>>
    BY <1>1, <1>2 DEF Parts, Kept
  <2>2. /\ DOMAIN reg' = DOMAIN reg
        /\ \A k \in DOMAIN reg : /\ reg'[k].mfd = reg[k].mfd
                                 /\ reg'[k].cpu = reg[k].cpu /\ reg'[k].mt = reg[k].mt
    <3>1. \A k \in DOMAIN reg : reg[k] \in Entry
      BY DEF ExactInv, RefsInv, TypeInv, TypeOK, MapsTo
    <3>. QED  BY <1>2, <3>1 DEF Entry, Parts
  <2>3. ~segv' /\ TableInv' /\ OffersInv'
    BY <2>1, <2>2 DEF UseInv, TableInv, OffersInv, IsDataFd, BufOf
  <2>4. ASSUME NEW k \in DOMAIN reg'
        PROVE  IsDataFd(k)' /\ Sound(reg[k], BufOf(k))'
    <3> PICK e : e = reg'[k]
      OBVIOUS
    <3>1. IsDataFd(k)' /\ Sound(e, BufOf(k))'
      BY <2>1, <2>2, <2>4, KeptSound
    <3>. QED  BY <3>1 DEF Sound
  <2>5. ASSUME NEW k \in DOMAIN bos', ~bos'[k].named
        PROVE  Agrees(bos[k])'
    <3>1. k \in DOMAIN bos /\ bos'[k] = bos[k]
      BY <1>1, <2>5
    <3>2. bos[k].fd \in DOMAIN reg
      BY <2>5, <3>1 DEF UseInv, Agrees
    <3>. QED  BY <2>1, <2>2, <2>5, <3>1, <3>2, KeptAgrees
  <2>. QED  BY <2>3, <2>4, <2>5 DEF UseInv
<1>3. CASE Ends(id)
  <2>1. /\ DOMAIN fdt' = DOMAIN fdt \ {fd, bos[id].mfd} /\ \A k \in DOMAIN fdt' : fdt'[k] = fdt[k]
        /\ DOMAIN reg' = DOMAIN reg \ {fd} /\ \A k \in DOMAIN reg' : reg'[k] = reg[k]
        /\ Counted(fd) = {id} /\ gem' = gem \ {bos[id].handle, bos[id].mhandle}
    BY <1>3 DEF Ends
  <2>2. fd \in Fds /\ fd \in DOMAIN fdt /\ fdt[fd] = Data(BufOf(fd)) /\ IsDataFd(fd)
    BY <1>1, SoundIs DEF ExactInv, RefsInv, TypeInv, TypeOK, MapsTo
  <2>3. bos[id].mfd = NoFd \/ (bos[id].mfd > 0 /\ fdt[bos[id].mfd] = Meta(BufOf(fd)))
    BY <1>1, SoundIs DEF UseInv, Agrees
  <2>4. ASSUME NEW k \in Fds, IsDataFd(k)'
        PROVE  IsDataFd(k) /\ k # fd
    BY <2>1, <2>4 DEF IsDataFd
  <2>5. ASSUME NEW k \in Fds, IsDataFd(k), k # fd
        PROVE  /\ IsDataFd(k)' /\ k \in DOMAIN fdt' /\ fdt'[k] = fdt[k] /\ BufOf(k)' = BufOf(k)
               /\ \A m \in DOMAIN fdt : fdt[m] = Meta(BufOf(k)) => m \in DOMAIN fdt' /\ fdt'[m] = fdt[m]
               /\ k \in DOMAIN reg => /\ k \in DOMAIN reg' /\ reg'[k] = reg[k]
                                      /\ Sound(reg[k], BufOf(k))'
    BY <1>1, <1>3, <2>5, EndsSpares DEF BufOf
  <2>6. TableInv'
    <3>1. 0 \in DOMAIN fdt' /\ fdt'[0] = Stdin
      <4>1. 0 \in DOMAIN fdt /\ fdt[0] = Stdin /\ fdt[fd] # Stdin /\ bos[id].mfd # 0
        BY <2>2, <2>3, FileNames DEF UseInv, TableInv, NoFd
      <4>. QED  BY <2>1, <4>1
    <3>2. ASSUME NEW k \in Fds, IsDataFd(k)'
          PROVE  k \in DOMAIN reg' \/ \E o \in offers' : o[1] = k
      BY <1>1, <2>1, <2>4, <3>2 DEF UseInv, TableInv
    <3>3. ASSUME NEW k \in Fds, NEW l \in Fds, IsDataFd(k)', IsDataFd(l)', fdt'[k] = fdt'[l]
          PROVE  k = l
      BY <2>4, <2>5, <3>3 DEF UseInv, TableInv
    <3>. QED  BY <3>1, <3>2, <3>3 DEF TableInv
  <2>7. OffersInv'
    <3>1. ASSUME NEW o \in offers'
          PROVE  /\ IsDataFd(o[1])' /\ o[1] \notin DOMAIN reg'
                 /\ o[2] \in DOMAIN fdt' /\ o[2] > 0 /\ fdt'[o[2]] = Meta(fdt'[o[1]][1])
      <4>1. /\ IsDataFd(o[1]) /\ o[1] \notin DOMAIN reg /\ o[1] \in Fds
            /\ o[2] \in DOMAIN fdt /\ o[2] > 0 /\ fdt[o[2]] = Meta(BufOf(o[1]))
        BY <1>1, <3>1 DEF UseInv, OffersInv, ExactInv, RefsInv, TypeInv, TypeOK
      <4>2. o[1] # fd
        BY <1>1, <4>1
      <4>. QED  BY <2>1, <2>5, <4>1, <4>2 DEF BufOf
    <3>2. \A o, p \in offers' : o = p
      BY <1>1 DEF UseInv, OffersInv
    <3>. QED  BY <3>1, <3>2 DEF OffersInv, BufOf
  <2>8. ASSUME NEW k \in DOMAIN reg'
        PROVE  IsDataFd(k)' /\ Sound(reg[k], BufOf(k))'
    <3>1. k \in Fds /\ k \in DOMAIN reg /\ k # fd /\ IsDataFd(k)
      BY <2>1, <2>8 DEF UseInv, ExactInv, RefsInv, TypeInv, TypeOK, MapsTo
    <3> PICK e : e = reg[k]
      OBVIOUS
    <3>2. IsDataFd(k)' /\ reg'[k] = e /\ Sound(e, BufOf(k))'
      BY <2>5, <3>1 DEF Sound
    <3>. QED  BY <3>2 DEF Sound
  <2>9. ASSUME NEW k \in DOMAIN bos', ~bos'[k].named
        PROVE  Agrees(bos[k])'
    <3> PICK bo : bo = bos[k]
      OBVIOUS
    <3>1. k \in DOMAIN bos /\ bos'[k] = bo /\ k # id /\ Agrees(bo)
      BY <1>1, <2>9 DEF UseInv
    <3>2. bo.fd # fd
      BY <2>1, <2>9, <3>1 DEF Counted
    <3>3. bo.fd \in DOMAIN reg /\ bo.fd \in Fds /\ IsDataFd(bo.fd) /\ bo.buf = BufOf(bo.fd)
      BY <3>1, FileNames DEF Agrees, BufOf, UseInv, ExactInv, RefsInv, TypeInv, TypeOK, MapsTo
    <3>4. bo.fd \in DOMAIN reg' /\ reg'[bo.fd] = reg[bo.fd] /\ fdt'[bo.fd] = fdt[bo.fd]
      BY <2>5, <3>2, <3>3
    <3>5. bo.buf # bos[id].buf
      <4>1. bos[id].buf = BufOf(fd)
        BY <1>1, FileNames DEF UseInv, Agrees, BufOf
      <4>. QED  BY <1>1, <3>2, <3>3, <4>1, Apart
    <3>6. {bo.handle, bo.mhandle} \ {NoHandle} \subseteq gem'
      <4>1. bos[id].handle \in {NoHandle, Data(bos[id].buf)} /\ bos[id].mhandle \in {NoHandle, Meta(bos[id].buf)}
        BY <1>1 DEF UseInv, Agrees
      <4>2. {Data(bo.buf), Meta(bo.buf)} \cap {Data(bos[id].buf), Meta(bos[id].buf)} = {}
        BY <3>5, FileNames
      <4>3. ASSUME NEW h \in {bo.handle, bo.mhandle}, h # NoHandle PROVE h \in gem'
        <5>1. h \in {Data(bo.buf), Meta(bo.buf)} /\ h \in gem
          BY <3>1, <4>3 DEF Agrees
        <5>2. h \notin {bos[id].handle, bos[id].mhandle}
          <6> SUFFICES ASSUME h \in {bos[id].handle, bos[id].mhandle} PROVE FALSE
            OBVIOUS
          <6>1. h \in {Data(bos[id].buf), Meta(bos[id].buf)}
            BY <4>1, <4>3
          <6>2. h \in {Data(bo.buf), Meta(bo.buf)} \cap {Data(bos[id].buf), Meta(bos[id].buf)}
            BY <5>1, <6>1
          <6>. QED  BY <4>2, <6>2
        <5>. QED  BY <2>1, <5>1, <5>2
      <4>. QED  BY <4>3
    <3>7. Agrees(bo)'
      BY <3>1, <3>4, <3>6 DEF Agrees
    <3>. QED  BY <3>1, <3>7 DEF Agrees
  <2>. QED  BY <1>1, <2>6, <2>7, <2>8, <2>9 DEF UseInv
<1>. QED  BY <1>1, <1>2, <1>3

\* Receiving and giving up: the two descriptors come and go together.
LEMMA ReceiveShaped ==
  ASSUME Paired, ExactInv, UseInv, NEW b \in Foreign, Receive(b)
  PROVE  \E d, m \in Fds \ DOMAIN fdt :
           /\ d # m /\ d > 0 /\ m > 0 /\ b \in Bufs
           /\ offers = {} /\ offers' = {<<d, m>>}
           /\ DOMAIN fdt' = DOMAIN fdt \cup {d, m}
           /\ fdt'[d] = Data(b) /\ fdt'[m] = Meta(b) /\ \A k \in DOMAIN fdt : fdt'[k] = fdt[k]
           /\ \A k \in Fds : ~(IsDataFd(k) /\ fdt[k] = Data(b))
           /\ UNCHANGED <<maps, gem, reg, bos, segv>>
<1>1. PICK d \in NextFd({}) : \E m \in NextFd({d}) :
        /\ ~Known(b) /\ offers = {}
        /\ fdt' = Put(Put(fdt, d, Data(b)), m, Meta(b))
        /\ offers' = {<<d, m>>}
        /\ UNCHANGED <<maps, gem, reg, bos, segv>>
  BY DEF Receive, Paired
<1>2. PICK m \in NextFd({d}) :
        /\ ~Known(b) /\ offers = {}
        /\ fdt' = Put(Put(fdt, d, Data(b)), m, Meta(b))
        /\ offers' = {<<d, m>>}
        /\ UNCHANGED <<maps, gem, reg, bos, segv>>
  BY <1>1
<1>3. /\ d \in Fds \ DOMAIN fdt /\ m \in Fds \ DOMAIN fdt /\ d # m
      /\ d > 0 /\ m > 0
  BY DEF NextFd, UseInv, TableInv, Fds
<1>4. /\ DOMAIN fdt' = DOMAIN fdt \cup {d, m}
      /\ fdt'[d] = Data(b) /\ fdt'[m] = Meta(b) /\ \A k \in DOMAIN fdt : fdt'[k] = fdt[k]
  BY <1>2, <1>3 DEF Put
<1>5. ASSUME NEW k \in Fds, IsDataFd(k), fdt[k] = Data(b)
      PROVE  FALSE
  <2>1. k \in DOMAIN reg
    BY <1>2, <1>5 DEF UseInv, TableInv
  <2>2. PICK id : id \in Counted(k)
    BY <2>1, RegisteredCounted
  <2>3. id \in DOMAIN bos /\ bos[id].buf = b
    BY <1>5, <2>2, FileNames DEF Counted, UseInv, Agrees
  <2>. QED  BY <1>2, <2>3 DEF Known
<1>6. b \in Bufs
  BY DEF Bufs
<1>. QED  BY <1>2, <1>3, <1>4, <1>5, <1>6

LEMMA ReceiveUse ==
  ASSUME Paired, ExactInv, UseInv, NEW b \in Foreign, Receive(b)
  PROVE  UseInv'
<1>1. PICK d \in Fds \ DOMAIN fdt : \E m \in Fds \ DOMAIN fdt :
           /\ d # m /\ d > 0 /\ m > 0 /\ b \in Bufs
           /\ offers = {} /\ offers' = {<<d, m>>}
           /\ DOMAIN fdt' = DOMAIN fdt \cup {d, m}
           /\ fdt'[d] = Data(b) /\ fdt'[m] = Meta(b) /\ \A k \in DOMAIN fdt : fdt'[k] = fdt[k]
           /\ \A k \in Fds : ~(IsDataFd(k) /\ fdt[k] = Data(b))
           /\ UNCHANGED <<maps, gem, reg, bos, segv>>
  BY ReceiveShaped
<1>2. PICK m \in Fds \ DOMAIN fdt :
           /\ d # m /\ d > 0 /\ m > 0 /\ b \in Bufs
           /\ offers = {} /\ offers' = {<<d, m>>}
           /\ DOMAIN fdt' = DOMAIN fdt \cup {d, m}
           /\ fdt'[d] = Data(b) /\ fdt'[m] = Meta(b) /\ \A k \in DOMAIN fdt : fdt'[k] = fdt[k]
           /\ \A k \in Fds : ~(IsDataFd(k) /\ fdt[k] = Data(b))
           /\ UNCHANGED <<maps, gem, reg, bos, segv>>
  BY <1>1
<1>3. Kept
  BY <1>2 DEF Kept
<1>4. IsDataFd(d)' /\ d \notin DOMAIN reg
  BY <1>2 DEF IsDataFd, UseInv
<1>5. ASSUME NEW k \in Fds, IsDataFd(k)', k # d
      PROVE  IsDataFd(k) /\ fdt'[k] = fdt[k] /\ fdt[k] # Data(b)
  <2>1. k # m
    BY <1>2, <1>5, FileNames DEF IsDataFd
  <2>2. k \in DOMAIN fdt /\ fdt'[k] = fdt[k]
    BY <1>2, <1>5, <2>1 DEF IsDataFd
  <2>3. IsDataFd(k)
    BY <1>5, <2>2 DEF IsDataFd
  <2>. QED  BY <1>2, <2>2, <2>3
<1>6. TableInv'
  <2>1. 0 \in DOMAIN fdt' /\ fdt'[0] = Stdin
    BY <1>2 DEF UseInv, TableInv
  <2>2. ASSUME NEW k \in Fds, IsDataFd(k)'
        PROVE  k \in DOMAIN reg' \/ \E o \in offers' : o[1] = k
    <3>1. CASE k = d
      BY <1>2, <3>1
    <3>2. CASE k # d
      BY <1>2, <1>5, <2>2, <3>2 DEF UseInv, TableInv
    <3>. QED  BY <3>1, <3>2
  <2>3. ASSUME NEW k \in Fds, NEW l \in Fds, IsDataFd(k)', IsDataFd(l)', fdt'[k] = fdt'[l]
        PROVE  k = l
    <3>1. CASE k # d /\ l # d
      BY <1>5, <2>3, <3>1 DEF UseInv, TableInv
    <3>2. CASE k = d \/ l = d
      BY <1>2, <1>5, <2>3, <3>2
    <3>. QED  BY <3>1, <3>2
  <2>. QED  BY <2>1, <2>2, <2>3 DEF TableInv
<1>7. OffersInv'
  <2>1. fdt'[m] = Meta(fdt'[d][1])
    BY <1>2, FileNames
  <2>. QED  BY <1>2, <1>4, <2>1 DEF OffersInv, BufOf
<1>8. ASSUME NEW k \in DOMAIN reg'
      PROVE  IsDataFd(k)' /\ Sound(reg[k], BufOf(k))'
  <2> PICK e : e = reg'[k]
    OBVIOUS
  <2>1. IsDataFd(k)' /\ Sound(e, BufOf(k))'
    BY <1>2, <1>3, <1>8, KeptSound
  <2>. QED  BY <2>1 DEF Sound
<1>9. ASSUME NEW k \in DOMAIN bos', ~bos'[k].named
      PROVE  Agrees(bos[k])'
  <2>1. bos[k].fd \in DOMAIN reg
    BY <1>2, <1>9 DEF UseInv, Agrees
  <2>. QED  BY <1>2, <1>3, <1>9, <2>1, KeptAgrees
<1>. QED  BY <1>2, <1>6, <1>7, <1>8, <1>9 DEF UseInv

LEMMA CloseOfferShaped ==
  ASSUME Paired, ExactInv, UseInv, NEW o \in offers, CloseOffer(o)
  PROVE  /\ IsDataFd(o[1]) /\ o[1] \in Fds /\ o[1] \notin DOMAIN reg /\ Counted(o[1]) = {}
         /\ o[2] \in DOMAIN fdt /\ o[2] > 0 /\ fdt[o[2]] = Meta(BufOf(o[1]))
         /\ offers = {o} /\ offers' = {}
         /\ DOMAIN fdt' = DOMAIN fdt \ {o[1], o[2]}
         /\ \A k \in DOMAIN fdt' : fdt'[k] = fdt[k]
         /\ UNCHANGED <<maps, gem, reg, bos, segv>>
<1>1. /\ IsDataFd(o[1]) /\ o[1] \in Fds /\ o[1] \notin DOMAIN reg
      /\ o[2] \in DOMAIN fdt /\ o[2] > 0 /\ fdt[o[2]] = Meta(BufOf(o[1]))
      /\ offers = {o}
  BY DEF UseInv, OffersInv, ExactInv, RefsInv, TypeInv, TypeOK
<1>2. Counted(o[1]) = {}
  BY <1>1, RegisteredCounted
<1>. QED  BY <1>1, <1>2 DEF CloseOffer, Drop

LEMMA CloseOfferUse ==
  ASSUME Paired, ExactInv, UseInv, NEW o \in offers, CloseOffer(o)
  PROVE  UseInv'
<1>1. /\ IsDataFd(o[1]) /\ o[1] \in Fds /\ o[1] \notin DOMAIN reg
      /\ o[2] \in DOMAIN fdt /\ o[2] > 0 /\ fdt[o[2]] = Meta(BufOf(o[1]))
      /\ offers = {o} /\ offers' = {}
      /\ DOMAIN fdt' = DOMAIN fdt \ {o[1], o[2]}
      /\ \A k \in DOMAIN fdt' : fdt'[k] = fdt[k]
      /\ UNCHANGED <<maps, gem, reg, bos, segv>>
  BY CloseOfferShaped
<1>2. fdt[o[1]] = Data(BufOf(o[1]))
  BY <1>1, DataFdIs
<1>3. ASSUME NEW k \in Fds, IsDataFd(k)'
      PROVE  IsDataFd(k) /\ fdt'[k] = fdt[k] /\ k # o[1]
  BY <1>1, <1>3 DEF IsDataFd
<1>4. TableInv'
  <2>1. 0 \in DOMAIN fdt' /\ fdt'[0] = Stdin
    BY <1>1, <1>2, FileNames DEF UseInv, TableInv
  <2>2. ASSUME NEW k \in Fds, IsDataFd(k)'
        PROVE  k \in DOMAIN reg'
    BY <1>1, <1>3, <2>2 DEF UseInv, TableInv
  <2>3. ASSUME NEW k \in Fds, NEW l \in Fds, IsDataFd(k)', IsDataFd(l)', fdt'[k] = fdt'[l]
        PROVE  k = l
    BY <1>3, <2>3 DEF UseInv, TableInv
  <2>. QED  BY <2>1, <2>2, <2>3 DEF TableInv
<1>5. ASSUME NEW k \in DOMAIN reg
      PROVE  /\ k \in DOMAIN fdt' /\ fdt'[k] = fdt[k] /\ IsDataFd(k)'
             /\ reg[k].mfd \in DOMAIN fdt' /\ fdt'[reg[k].mfd] = fdt[reg[k].mfd]
  <2>1. /\ k \in Fds /\ k # o[1] /\ IsDataFd(k) /\ k \in DOMAIN fdt /\ fdt[k] = Data(BufOf(k))
        /\ reg[k].mfd \in DOMAIN fdt /\ fdt[reg[k].mfd] = Meta(BufOf(k))
    BY <1>1, <1>5, SoundIs DEF ExactInv, RefsInv, TypeInv, TypeOK, MapsTo
  <2>2. BufOf(k) # BufOf(o[1])
    BY <1>1, <1>2, <2>1 DEF UseInv, TableInv
  <2>3. k \notin {o[1], o[2]} /\ reg[k].mfd \notin {o[1], o[2]}
    BY <1>1, <1>2, <2>1, <2>2, FileNames
  <2>4. k \in DOMAIN fdt' /\ fdt'[k] = fdt[k]
    BY <1>1, <2>1, <2>3
  <2>. QED  BY <1>1, <2>1, <2>3, <2>4 DEF IsDataFd
<1>6. ASSUME NEW k \in DOMAIN reg'
      PROVE  IsDataFd(k)' /\ Sound(reg[k], BufOf(k))'
  <2> PICK e : e = reg[k]
    OBVIOUS
  <2> PICK b : b = BufOf(k)
    OBVIOUS
  <2>1. Sound(e, b) /\ e.mfd \in DOMAIN fdt' /\ fdt'[e.mfd] = fdt[e.mfd]
    BY <1>1, <1>5, <1>6 DEF UseInv
  <2>2. Sound(e, b)' /\ IsDataFd(k)'
    BY <1>1, <1>5, <1>6, <2>1 DEF Sound
  <2>3. BufOf(k)' = b
    BY <1>1, <1>5, <1>6 DEF BufOf
  <2>. QED  BY <1>1, <2>2, <2>3 DEF Sound
<1>7. ASSUME NEW k \in DOMAIN bos', ~bos'[k].named
      PROVE  Agrees(bos[k])'
  <2> PICK bo : bo = bos[k]
    OBVIOUS
  <2>1. bos'[k] = bo /\ Agrees(bo)
    BY <1>1, <1>7 DEF UseInv
  <2>2. bo.fd \in DOMAIN reg /\ fdt'[bo.fd] = fdt[bo.fd]
    BY <1>5, <2>1 DEF Agrees
  <2>3. Agrees(bo)'
    BY <1>1, <2>1, <2>2 DEF Agrees
  <2>. QED  BY <2>1, <2>3 DEF Agrees
<1>8. OffersInv' /\ ~segv'
  BY <1>1 DEF OffersInv, UseInv
<1>. QED  BY <1>4, <1>6, <1>7, <1>8 DEF UseInv

\* An object imported by name has no addresses of its own to map or write through.
NamesBare == \A id \in DOMAIN bos : bos[id].named => bos[id].mt = NULL

LifeInv == ExactInv /\ UseInv /\ NamesBare

\* Where the tables stay, so does what was sound: the objects alone have to agree.
LEMMA TablesStay ==
  ASSUME ExactInv, UseInv, UNCHANGED <<fdt, maps, reg, offers, segv>>,
         \A id \in DOMAIN bos' : ~bos'[id].named => Agrees(bos[id])'
  PROVE  UseInv'
<1>1. ~segv' /\ TableInv' /\ OffersInv'
  BY DEF UseInv, TableInv, OffersInv, IsDataFd, BufOf
<1>2. Kept
  BY DEF Kept
<1>3. ASSUME NEW k \in DOMAIN reg'
      PROVE  IsDataFd(k)' /\ Sound(reg[k], BufOf(k))'
  <2> PICK e : e = reg'[k]
    OBVIOUS
  <2>1. IsDataFd(k)' /\ Sound(e, BufOf(k))'
    BY <1>2, <1>3, KeptSound
  <2>. QED  BY <2>1 DEF Sound
<1>. QED  BY <1>1, <1>3 DEF UseInv

\* Importing by name opens a handle, if any, and builds an object no one counts on.
LEMMA ImportFromNameUse ==
  ASSUME ExactInv, UseInv, NEW id \in DOMAIN bos, NEW new \in BoIds, NEW f,
         ImportFromName(id, new, f)
  PROVE  UseInv'
<1>1. /\ UNCHANGED <<fdt, maps, reg, offers, segv>>
      /\ new \notin DOMAIN bos
      /\ DOMAIN bos' = DOMAIN bos \cup {new} /\ bos'[new].named
      /\ \A k \in DOMAIN bos : bos'[k] = bos[k]
  BY DEF ImportFromName, Put
<1>2. gem \subseteq gem'
  <2> PICK h : h = HandleOf(fdt[bos[id].fd], f)
    OBVIOUS
  <2>1. gem' = (gem \cup {h}) \ {NoHandle}
    BY DEF ImportFromName
  <2>2. NoHandle \notin gem
    BY DEF ExactInv, RefsInv, TypeInv, TypeOK, BufFiles, NoHandle
  <2>. QED  BY <2>1, <2>2
<1>3. Kept
  BY <1>1 DEF Kept
<1>4. ASSUME NEW k \in DOMAIN bos', ~bos'[k].named
      PROVE  Agrees(bos[k])'
  <2>1. k \in DOMAIN bos /\ bos'[k] = bos[k]
    BY <1>1, <1>4
  <2>2. bos[k].fd \in DOMAIN reg
    BY <1>4, <2>1 DEF UseInv, Agrees
  <2>. QED  BY <1>1, <1>2, <1>3, <1>4, <2>1, <2>2, KeptAgrees
<1>. QED  BY <1>1, <1>4, TablesStay

\* An object takes over the metadata fd its entry has.
LEMMA RefreshMetaFdUse ==
  ASSUME ExactInv, UseInv, NEW id \in DOMAIN bos, RefreshMetaFd(id)
  PROVE  UseInv'
<1> PICK e : e = Lookup(reg, bos[id].fd)
  OBVIOUS
<1>1. UNCHANGED <<fdt, maps, gem, reg, offers, segv>> /\ bos' = [bos EXCEPT ![id].mfd = e.mfd]
  BY DEF RefreshMetaFd
<1>2. Kept /\ gem \subseteq gem'
  BY <1>1 DEF Kept
<1>3. bos[id] \in BoFields
  BY DEF ExactInv, RefsInv, TypeInv, TypeOK, MapsTo, Bo
<1>4. ASSUME NEW k \in DOMAIN bos', ~bos'[k].named
      PROVE  Agrees(bos[k])'
  <2>1. CASE k = id
    <3> PICK bo : bo = bos'[id]
      OBVIOUS
    <3>1. /\ bo.fd = bos[id].fd /\ bo.mfd = e.mfd /\ bo.cpu = bos[id].cpu /\ bo.mt = bos[id].mt
          /\ bo.handle = bos[id].handle /\ bo.mhandle = bos[id].mhandle
          /\ bo.size = bos[id].size /\ bo.buf = bos[id].buf /\ bo.named = bos[id].named
      BY <1>1, <1>3 DEF BoFields
    <3>2. Agrees(bos[id]) /\ ~bos[id].named
      BY <1>4, <2>1, <3>1 DEF UseInv
    <3>3. e.mfd = reg[bo.fd].mfd
      BY <3>1, <3>2 DEF Agrees, Lookup, Registered
    <3>4. Agrees(bo)'
      BY <1>1, <3>1, <3>2, <3>3 DEF Agrees
    <3>. QED  BY <2>1, <3>4 DEF Agrees
  <2>2. CASE k # id
    <3>1. k \in DOMAIN bos /\ bos'[k] = bos[k]
      BY <1>1, <1>4, <2>2
    <3>2. bos[k].fd \in DOMAIN reg
      BY <1>4, <3>1 DEF UseInv, Agrees
    <3>. QED  BY <1>1, <1>2, <1>4, <3>1, <3>2, KeptAgrees
  <2>. QED  BY <2>1, <2>2
<1>. QED  BY <1>1, <1>4, TablesStay

\* What such an object lacks a CPU address for is secure: no call maps it, or writes
\* through a mapping of its own.
LEMMA NothingToMap ==
  ASSUME LifeInv, NEW id \in DOMAIN bos, NEW f
  PROVE  ~BoCpuMap(id, f) /\ ~BoWriteMapping(id, f)
<1> PICK bo : bo = bos[id]
  OBVIOUS
<1>1. CASE bo.named
  <2>1. bo.mt = NULL
    BY <1>1 DEF LifeInv, NamesBare
  <2>. QED  BY <2>1 DEF BoCpuMap, BoWriteMapping, BadMeta, CanMap
<1>2. CASE ~bo.named
  <2>1. bo.fd \in DOMAIN reg /\ bo.cpu = reg[bo.fd].cpu /\ bo.mt = reg[bo.fd].mt
    BY <1>2 DEF LifeInv, UseInv, Agrees
  <2>2. /\ Readable(maps, bo.mt) /\ maps[bo.mt].file[1] = BufOf(bo.fd)
        /\ bo.cpu = NULL => BufOf(bo.fd) \in Secure
    BY <2>1, SoundIs DEF LifeInv
  <2>. QED  BY <2>2 DEF BoCpuMap, BoWriteMapping, BadMeta, CanMap
<1>. QED  BY <1>1, <1>2

\* What a step of such a client is.
LEMMA StepIs ==
  ASSUME Paired, LifeInv, Next
  PROVE  \/ \E fd \in Fds, f \in Outcomes :
              \/ \E mfd, h, mh : Joins(fd, mfd, h, mh)
              \/ \E b, mfd, cpu, mt : Starts(fd, b, mfd, cpu, mt, f)
         \/ \E id \in DOMAIN bos :
              \/ MayDestroy(id) /\ BoDestroy(id)
              \/ RefreshMetaFd(id)
              \/ \E new \in BoIds : \E f : ImportFromName(id, new, f)
         \/ \E b \in Foreign : Receive(b)
         \/ \E o \in offers : CloseOffer(o)
<1>1. CASE \E b \in Local, f \in Outcomes : BoCreate(b, f)
  BY <1>1, BoCreateStarts DEF LifeInv
<1>2. CASE ImportStep
  BY <1>2, ImportShaped DEF LifeInv
<1>3. CASE BoStep
  BY <1>3, NothingToMap DEF BoStep, ImportFromNameNoInfo, Paired
<1>4. CASE ClientStep
  BY <1>4 DEF ClientStep, ReceiveMeta, Paired
<1>. QED  BY <1>1, <1>2, <1>3, <1>4 DEF Next

LEMMA NextKeepsNamesBare ==
  ASSUME Paired, LifeInv, Next
  PROVE  NamesBare'
<1>1. ASSUME NEW id \in BoIds \ DOMAIN bos, NEW bo, bos' = Put(bos, id, bo), bo.named => bo.mt = NULL
      PROVE  NamesBare'
  BY <1>1 DEF NamesBare, LifeInv, Put
<1>2. ASSUME DOMAIN bos' \subseteq DOMAIN bos,
             \A id \in DOMAIN bos' : bos'[id].named = bos[id].named /\ bos'[id].mt = bos[id].mt
      PROVE  NamesBare'
  BY <1>2 DEF NamesBare, LifeInv
<1>3. ASSUME NEW fd, NEW mfd, NEW h, NEW mh, Joins(fd, mfd, h, mh)
      PROVE  NamesBare'
  <2>1. PICK id \in BoIds \ DOMAIN bos : bos' = Put(bos, id, NewBo(fd, reg[fd], BufOf(fd), mfd, h, mh))
    BY <1>3 DEF Joins
  <2>. QED  BY <1>1, <2>1 DEF NewBo
<1>4. ASSUME NEW fd, NEW b, NEW mfd, NEW cpu, NEW mt, NEW f, Starts(fd, b, mfd, cpu, mt, f)
      PROVE  NamesBare'
  <2>1. PICK id \in BoIds \ DOMAIN bos :
          bos' = Put(bos, id, NewBo(fd, [cpu |-> cpu, mt |-> mt], b, mfd,
                                    HandleOf(Data(b), f), HandleOf(Meta(b), f)))
    BY <1>4 DEF Starts
  <2>. QED  BY <1>1, <2>1 DEF NewBo
<1>5. ASSUME NEW id \in DOMAIN bos, BoDestroy(id)
      PROVE  NamesBare'
  BY <1>2, <1>5 DEF BoDestroy, Drop
<1>6. ASSUME NEW id \in DOMAIN bos, RefreshMetaFd(id)
      PROVE  NamesBare'
  <2>1. \E m : bos' = [bos EXCEPT ![id].mfd = m]
    BY <1>6 DEF RefreshMetaFd
  <2>2. bos[id] \in BoFields
    BY DEF LifeInv, ExactInv, RefsInv, TypeInv, TypeOK, MapsTo, Bo
  <2>. QED  BY <1>2, <2>1, <2>2 DEF BoFields
<1>7. ASSUME NEW id \in DOMAIN bos, NEW new \in BoIds, NEW f,
             ImportFromName(id, new, f)
      PROVE  NamesBare'
  BY <1>7 DEF ImportFromName, Put, NamesBare, LifeInv
<1>8. CASE bos' = bos
  BY <1>2, <1>8
<1>. QED  BY <1>3, <1>4, <1>5, <1>6, <1>7, <1>8, StepIs DEF Receive, CloseOffer

LEMMA NextKeepsLife == Paired /\ LifeInv /\ [Next]_vars => LifeInv'
<1> SUFFICES ASSUME Paired, LifeInv, [Next]_vars PROVE LifeInv'
  OBVIOUS
<1>1. ExactInv'
  BY NextExact, PairedReliable DEF LifeInv
<1>2. CASE UNCHANGED vars
  <2>1. \A id \in DOMAIN bos' : ~bos'[id].named => Agrees(bos[id])'
    BY <1>2 DEF vars, LifeInv, UseInv, Agrees
  <2>2. UseInv'
    BY <1>2, <2>1, TablesStay DEF vars, LifeInv
  <2>. QED  BY <1>1, <1>2, <2>2 DEF vars, LifeInv, NamesBare
<1>3. CASE Next
  <2>1. UseInv'
    BY <1>3, StepIs, JoinsUse, StartsUse, DestroyUse, RefreshMetaFdUse, ImportFromNameUse,
       ReceiveUse, CloseOfferUse DEF LifeInv
  <2>. QED  BY <1>1, <1>3, <2>1, NextKeepsNamesBare DEF LifeInv
<1>. QED  BY <1>2, <1>3

LEMMA InitLife == ASSUME Paired PROVE Init => LifeInv
<1> SUFFICES ASSUME Init PROVE LifeInv
  OBVIOUS
<1>1. ExactInv
  <2>1. \A fd \in Fds : Counted(fd) = {} /\ RefOf(reg, fd) = 0
    BY DEF Init, Counted, EmptyMap, RefOf, Lookup, Registered
  <2>. QED  BY <2>1, InitRefs, FS_EmptySet DEF ExactInv
<1>2. DOMAIN reg = {} /\ DOMAIN bos = {} /\ offers = {} /\ ~segv /\ fdt = [fd \in {0} |-> Stdin]
  BY DEF Init, EmptyMap, Paired
<1>3. \A fd : ~IsDataFd(fd)
  BY <1>2, FileNames DEF IsDataFd
<1>4. UseInv /\ NamesBare
  BY <1>2, <1>3 DEF UseInv, NamesBare, TableInv, OffersInv
<1>. QED  BY <1>1, <1>4 DEF LifeInv

\* What a live object refers to is there and belongs to its buffer, whatever else
\* the client and PRIME do, as long as descriptors come in pairs.
THEOREM ObjectsUsable == ASSUME Paired PROVE Spec => []LiveUsable
<1>1. LifeInv => LiveUsable
  <2> SUFFICES ASSUME LifeInv PROVE LiveUsable
    OBVIOUS
  <2>1. ASSUME NEW id \in DOMAIN bos, ~bos[id].named
        PROVE  /\ bos[id].fd \in DOMAIN fdt /\ fdt[bos[id].fd] = Data(bos[id].buf)
               /\ bos[id].mfd # NoFd =>
                    bos[id].mfd \in DOMAIN fdt /\ fdt[bos[id].mfd] = Meta(bos[id].buf)
               /\ bos[id].cpu # NULL => Mapped(bos[id].cpu, Data(bos[id].buf))
               /\ bos[id].mt # NULL => Mapped(bos[id].mt, Meta(bos[id].buf))
               /\ {bos[id].handle, bos[id].mhandle} \ {NoHandle} \subseteq gem
    <3> PICK bo : bo = bos[id]
      OBVIOUS
    <3> PICK e : e = reg[bo.fd]
      OBVIOUS
    <3>1. /\ bo.fd \in DOMAIN reg /\ bo.mfd \in {NoFd, e.mfd} /\ bo.cpu = e.cpu /\ bo.mt = e.mt
          /\ bo.buf = BufOf(bo.fd)
          /\ {bo.handle, bo.mhandle} \ {NoHandle} \subseteq gem
      BY <2>1, FileNames DEF LifeInv, UseInv, Agrees, BufOf
    <3>2. Sound(e, bo.buf) /\ bo.fd \in DOMAIN fdt /\ fdt[bo.fd] = Data(bo.buf)
      BY <3>1, SoundIs DEF LifeInv, UseInv
    <3>. QED  BY <3>1, <3>2 DEF Sound, Mapped, Readable, Mapping
  <2>. QED  BY <2>1 DEF LiveUsable, FdsUsable, MappingsUsable, HandlesUsable
<1>. QED  BY <1>1, InitLife, NextKeepsLife, PTL DEF Spec

\* No such client makes the process follow a metadata address that is not mapped.
THEOREM NeverSegv == ASSUME Paired PROVE Spec => []NoSegv
<1>1. LifeInv => NoSegv
  BY DEF LifeInv, UseInv, NoSegv
<1>. QED  BY <1>1, InitLife, NextKeepsLife, PTL DEF Spec

\* The length an object gives munmap is the length of the mapping, and a mapping goes
\* only with an object that holds its address.
THEOREM UnmapsExactly == ASSUME Paired PROVE Spec => UnmapExact
<1> DEFINE P == \A a \in DOMAIN maps :
       \/ a \in DOMAIN maps' /\ maps'[a] = maps[a]
       \/ /\ a \notin DOMAIN maps'
          /\ \E id \in DOMAIN bos :
               /\ id \in DOMAIN bos' => bos'[id] # bos[id]
               /\ \/ bos[id].cpu = a /\ bos[id].size = maps[a].len
                  \/ bos[id].mt = a /\ MetaLen = maps[a].len
<1>1. LifeInv /\ [Next]_vars => [P]_vars
  <2> SUFFICES ASSUME LifeInv, Next PROVE P
    OBVIOUS
  <2>1. CASE \A a \in DOMAIN maps : a \in DOMAIN maps' /\ maps'[a] = maps[a]
    BY <2>1
  <2>2. ASSUME NEW id \in DOMAIN bos, MayDestroy(id), BoDestroy(id)
        PROVE  P
    <3>1. /\ ~bos[id].named /\ bos[id].fd \in DOMAIN reg /\ id \notin DOMAIN bos'
          /\ Parts(id) \/ Ends(id)
      BY <2>2, DestroyShaped DEF LifeInv
    <3>2. CASE Parts(id)
      BY <2>1, <3>2 DEF Parts
    <3>3. CASE Ends(id)
      <4> PICK bo : bo = bos[id]
        OBVIOUS
      <4>1. Agrees(bo) /\ Sound(reg[bo.fd], bo.buf)
        BY <3>1, FileNames DEF LifeInv, UseInv, Agrees, BufOf
      <4>2. /\ bo.cpu \in DOMAIN maps => maps[bo.cpu].len = bo.size
            /\ maps[bo.mt].len = MetaLen
        <5>1. NULL \notin DOMAIN maps
          BY DEF NULL, LifeInv, ExactInv, RefsInv, TypeInv, TypeOK, MapsTo, Addrs
        <5>. QED  BY <4>1, <5>1 DEF Agrees, Sound, Mapping
      <4>3. DOMAIN maps' = DOMAIN maps \ {bo.cpu, bo.mt} /\ \A a \in DOMAIN maps' : maps'[a] = maps[a]
        BY <3>3 DEF Ends
      <4>. QED  BY <3>1, <4>2, <4>3
    <3>. QED  BY <3>1, <3>2, <3>3
  <2>3. ASSUME NEW fd, NEW b, NEW mfd, NEW cpu, NEW mt, NEW f, Starts(fd, b, mfd, cpu, mt, f)
        PROVE  P
    BY <2>1, <2>3, StartsKeeps DEF Kept
  <2>4. maps' = maps => P
    BY <2>1
  <2> HIDE DEF P
  <2>. QED
    BY <2>2, <2>3, <2>4, StepIs DEF Joins, RefreshMetaFd, ImportFromName, Receive, CloseOffer
<1>. QED  BY <1>1, InitLife, NextKeepsLife, PTL DEF Spec, UnmapExact

-----------------------------------------------------------------------------
(* The sharing promise, call by call.                                      *)

Users == [fd \in Fds |-> Counted(fd)]
Pinned == {fd \in Fds : IsDataFd(fd)}

LEMMA InitShares == ASSUME Init PROVE Sharing!Init
<1>1. \A fd : Counted(fd) = {}
  BY DEF Init, Counted, EmptyMap
<1>. QED  BY <1>1 DEF Sharing!Init

\* Nothing that GbmSharing tells of moves.
LEMMA Stutters ==
  ASSUME fdt' = fdt, \A fd : Counted(fd)' = Counted(fd)
  PROVE  UNCHANGED Sharing!vars
BY DEF Sharing!vars, IsDataFd

\* A new object counts on a descriptor that is open, or on which no object was.
LEMMA Uses ==
  ASSUME NEW fd \in Fds, NEW id \in BoIds \ DOMAIN bos, NEW bo, bo.fd = fd, ~bo.named,
         bos' = Put(bos, id, bo), IsDataFd(fd) \/ Counted(fd) = {},
         Pinned' = Pinned \cup {fd}
  PROVE  Sharing!Next
<1>1. Counted(fd)' = Counted(fd) \cup {id} /\ \A k : k # fd => Counted(k)' = Counted(k)
  BY DEF Counted, Put
<1>2. Users' = [Users EXCEPT ![fd] = @ \cup {id}]
  BY <1>1 DEF Users
<1>3. id \notin Sharing!Used
  BY DEF Sharing!Used, Counted
<1>4. Sharing!Use(fd, id)
  BY <1>2, <1>3 DEF Sharing!Use, Users, Pinned
<1>. QED  BY <1>4 DEF Sharing!Next

LEMMA JoinsShares ==
  ASSUME Paired, LifeInv, NEW fd \in Fds, NEW mfd, NEW h, NEW mh, Joins(fd, mfd, h, mh)
  PROVE  Sharing!Next
<1> PICK bo : bo = NewBo(fd, reg[fd], BufOf(fd), mfd, h, mh)
  OBVIOUS
<1>1. PICK id \in BoIds \ DOMAIN bos : bos' = Put(bos, id, bo)
  BY DEF Joins
<1>2. bo.fd = fd /\ ~bo.named
  BY DEF NewBo
<1>3. IsDataFd(fd) /\ fdt' = fdt
  BY DEF Joins, LifeInv, UseInv
<1>4. Pinned' = Pinned \cup {fd}
  BY <1>3 DEF Pinned, IsDataFd
<1>. QED  BY <1>1, <1>2, <1>3, <1>4, Uses

LEMMA StartsShares ==
  ASSUME Paired, LifeInv, NEW fd, NEW b, NEW mfd, NEW cpu, NEW mt, NEW f,
         Starts(fd, b, mfd, cpu, mt, f)
  PROVE  Sharing!Next
<1> PICK bo : bo = NewBo(fd, [cpu |-> cpu, mt |-> mt], b, mfd,
                         HandleOf(Data(b), f), HandleOf(Meta(b), f))
  OBVIOUS
<1>1. PICK id \in BoIds \ DOMAIN bos : bos' = Put(bos, id, bo)
  BY DEF Starts
<1>2. bo.fd = fd /\ ~bo.named
  BY DEF NewBo
<1>3. /\ fd \in Fds /\ fd \notin DOMAIN reg /\ b \in Bufs /\ mfd # fd
      /\ fd \in DOMAIN fdt => fdt[fd] = Data(b)
      /\ mfd \in DOMAIN fdt => fdt[mfd] = Meta(b)
      /\ DOMAIN fdt' = DOMAIN fdt \cup {fd, mfd} /\ fdt'[fd] = Data(b) /\ fdt'[mfd] = Meta(b)
      /\ \A k \in DOMAIN fdt \ {fd, mfd} : fdt'[k] = fdt[k]
  BY DEF Starts
<1>4. Counted(fd) = {}
  BY <1>3, RegisteredCounted DEF LifeInv
<1>5. ASSUME NEW k \in Fds
      PROVE  IsDataFd(k)' <=> IsDataFd(k) \/ k = fd
  <2>1. CASE k = fd
    BY <1>3, <2>1 DEF IsDataFd
  <2>2. CASE k = mfd
    BY <1>3, <2>2, FileNames DEF IsDataFd
  <2>3. CASE k \notin {fd, mfd}
    BY <1>3, <2>3 DEF IsDataFd
  <2>. QED  BY <2>1, <2>2, <2>3
<1>6. Pinned' = Pinned \cup {fd}
  BY <1>3, <1>5 DEF Pinned
<1>. QED  BY <1>1, <1>2, <1>3, <1>4, <1>6, Uses

LEMMA DestroyShares ==
  ASSUME Paired, LifeInv, NEW id \in DOMAIN bos, MayDestroy(id), BoDestroy(id)
  PROVE  Sharing!Next
<1> PICK fd : fd = bos[id].fd
  OBVIOUS
<1>1. /\ ~bos[id].named /\ fd \in DOMAIN reg
      /\ DOMAIN bos' = DOMAIN bos \ {id} /\ \A k \in DOMAIN bos' : bos'[k] = bos[k]
      /\ Parts(id) \/ Ends(id)
  BY DestroyShaped DEF LifeInv
<1>2. fd \in Fds /\ id \in BoIds /\ id \in Counted(fd)
  BY <1>1 DEF LifeInv, ExactInv, RefsInv, TypeInv, TypeOK, MapsTo, Counted
<1>3. Counted(fd)' = Counted(fd) \ {id} /\ \A k : k # fd => Counted(k)' = Counted(k)
  BY <1>1 DEF Counted
<1>4. Users' = [Users EXCEPT ![fd] = @ \ {id}]
  BY <1>3 DEF Users
<1>5. Pinned' = IF Counted(fd) = {id} THEN Pinned \ {fd} ELSE Pinned
  <2>1. CASE Parts(id)
    BY <2>1 DEF Parts, Pinned, IsDataFd
  <2>2. CASE Ends(id)
    <3>1. Counted(fd) = {id} /\ fd \notin DOMAIN fdt' /\ DOMAIN fdt' \subseteq DOMAIN fdt
          /\ \A k \in DOMAIN fdt' : fdt'[k] = fdt[k]
      BY <2>2 DEF Ends
    <3>2. ASSUME NEW k \in Fds, IsDataFd(k), k # fd PROVE IsDataFd(k)'
      BY <1>1, <2>2, <3>2, EndsSpares DEF LifeInv
    <3>3. ASSUME NEW k \in Fds, IsDataFd(k)' PROVE IsDataFd(k) /\ k # fd
      BY <3>1, <3>3 DEF IsDataFd
    <3>. QED  BY <3>1, <3>2, <3>3 DEF Pinned
  <2>. QED  BY <1>1, <2>1, <2>2
<1>6. Sharing!Leave(fd, id)
  BY <1>2, <1>4, <1>5 DEF Sharing!Leave, Users, Pinned
<1>. QED  BY <1>2, <1>6 DEF Sharing!Next

LEMMA ReceiveShares ==
  ASSUME Paired, LifeInv, NEW b \in Foreign, Receive(b)
  PROVE  Sharing!Next
<1>1. PICK d \in Fds \ DOMAIN fdt : \E m \in Fds \ DOMAIN fdt :
           /\ d # m /\ b \in Bufs
           /\ DOMAIN fdt' = DOMAIN fdt \cup {d, m}
           /\ fdt'[d] = Data(b) /\ fdt'[m] = Meta(b) /\ \A k \in DOMAIN fdt : fdt'[k] = fdt[k]
           /\ bos' = bos
  BY ReceiveShaped DEF LifeInv
<1>2. PICK m \in Fds \ DOMAIN fdt :
           /\ d # m /\ b \in Bufs
           /\ DOMAIN fdt' = DOMAIN fdt \cup {d, m}
           /\ fdt'[d] = Data(b) /\ fdt'[m] = Meta(b) /\ \A k \in DOMAIN fdt : fdt'[k] = fdt[k]
           /\ bos' = bos
  BY <1>1
<1>3. ASSUME NEW k \in Fds
      PROVE  IsDataFd(k)' <=> IsDataFd(k) \/ k = d
  <2>1. CASE k = d
    BY <1>2, <2>1 DEF IsDataFd
  <2>2. CASE k = m
    BY <1>2, <2>2, FileNames DEF IsDataFd
  <2>3. CASE k \notin {d, m}
    BY <1>2, <2>3 DEF IsDataFd
  <2>. QED  BY <2>1, <2>2, <2>3
<1>4. Pinned' = Pinned \cup {d} /\ d \notin Pinned
  BY <1>2, <1>3 DEF Pinned, IsDataFd
<1>5. Users' = Users
  BY <1>2 DEF Users, Counted
<1>6. Sharing!Arrive(d)
  BY <1>4, <1>5 DEF Sharing!Arrive, Users, Pinned
<1>. QED  BY <1>6 DEF Sharing!Next

LEMMA CloseOfferShares ==
  ASSUME Paired, LifeInv, NEW o \in offers, CloseOffer(o)
  PROVE  Sharing!Next
<1> PICK fd, mfd : fd = o[1] /\ mfd = o[2]
  OBVIOUS
<1>1. /\ fd \in Fds /\ Counted(fd) = {} /\ fdt[mfd] = Meta(BufOf(fd))
      /\ DOMAIN fdt' = DOMAIN fdt \ {fd, mfd}
      /\ \A k \in DOMAIN fdt' : fdt'[k] = fdt[k]
      /\ bos' = bos
  BY CloseOfferShaped DEF LifeInv
<1>2. ASSUME NEW k \in Fds
      PROVE  IsDataFd(k)' <=> IsDataFd(k) /\ k # fd
  <2>1. ~IsDataFd(mfd)
    BY <1>1, FileNames DEF IsDataFd
  <2>. QED  BY <1>1, <2>1 DEF IsDataFd
<1>3. Pinned' = Pinned \ {fd} /\ Users' = Users
  BY <1>1, <1>2 DEF Pinned, Users, Counted
<1>4. Sharing!Close(fd)
  BY <1>1, <1>3 DEF Sharing!Close, Users, Pinned
<1>. QED  BY <1>1, <1>4 DEF Sharing!Next

LEMMA NextShares ==
  ASSUME Paired, LifeInv, [Next]_vars
  PROVE  [Sharing!Next]_(Sharing!vars)
<1>1. CASE UNCHANGED vars
  BY <1>1, Stutters DEF vars, Counted
<1>2. ASSUME NEW id \in DOMAIN bos, RefreshMetaFd(id)
      PROVE  UNCHANGED Sharing!vars
  <2>1. fdt' = fdt /\ \E m : bos' = [bos EXCEPT ![id].mfd = m]
    BY <1>2 DEF RefreshMetaFd
  <2>2. bos[id] \in BoFields
    BY DEF LifeInv, ExactInv, RefsInv, TypeInv, TypeOK, MapsTo, Bo
  <2>3. /\ DOMAIN bos' = DOMAIN bos
        /\ \A k \in DOMAIN bos : bos'[k].fd = bos[k].fd /\ bos'[k].named = bos[k].named
    BY <2>1, <2>2 DEF BoFields
  <2>. QED  BY <2>1, <2>3, Stutters DEF Counted
<1>3. ASSUME NEW id \in DOMAIN bos, NEW new \in BoIds, NEW f,
             ImportFromName(id, new, f)
      PROVE  UNCHANGED Sharing!vars
  <2>1. fdt' = fdt /\ \A k : Counted(k)' = Counted(k)
    BY <1>3 DEF ImportFromName, Counted, Put
  <2>. QED  BY <2>1, Stutters
<1>. QED
  BY <1>1, <1>2, <1>3, StepIs, JoinsShares, StartsShares, DestroyShares, ReceiveShares,
     CloseOfferShares

\* "The gbm bo shares the underlying pixels but its life-time is independent of the
\* foreign object" (gbm_bo_import), call by call: a buffer's descriptor stays open
\* while an object counts on it, and the object destroyed last closes it.
THEOREM SharingImplemented == ASSUME Paired PROVE Spec => ImplementsSharing
<1>1. LifeInv /\ [Next]_vars => [Sharing!Next]_(Sharing!vars)
  BY NextShares
<1>. QED
  BY <1>1, InitLife, NextKeepsLife, InitShares, PTL DEF Spec, ImplementsSharing, Sharing!Spec

-----------------------------------------------------------------------------
(* Nothing is left over, where every object knows what it stands on.       *)

LEMMA CompletePaired == Complete => Paired /\ \A f \in Outcomes : f = "none"
BY DEF Complete, Outcomes

\* The objects a complete client builds carry both descriptors and both handles.
LEMMA CompleteStepIs ==
  ASSUME Complete, LifeInv, LeftInv, Next
  PROVE  \/ \E fd \in Fds :
              \/ Joins(fd, reg[fd].mfd, HandleOf(Data(BufOf(fd)), "none"),
                       HandleOf(Meta(BufOf(fd)), "none"))
              \/ \E b, mfd, cpu, mt : Starts(fd, b, mfd, cpu, mt, "none")
         \/ \E id \in DOMAIN bos :
              \/ MayDestroy(id) /\ BoDestroy(id)
              \/ RefreshMetaFd(id)
              \/ \E new \in BoIds : \E f : ImportFromName(id, new, f)
         \/ \E b \in Foreign : Receive(b)
         \/ \E o \in offers : CloseOffer(o)
<1>1. CASE ~ImportStep
  <2>1. CASE \E b \in Local, f \in Outcomes : BoCreate(b, f)
    BY <2>1, BoCreateStarts, CompletePaired DEF LifeInv
  <2>2. CASE BoStep
    BY <2>2, NothingToMap DEF BoStep, ImportFromNameNoInfo, Complete, Paired
  <2>3. CASE ClientStep
    BY <2>3, CompletePaired DEF ClientStep, ReceiveMeta, Paired
  <2>. QED  BY <1>1, <2>1, <2>2, <2>3 DEF Next
<1>2. CASE ImportStep
  <2>1. PICK fd \in Fds, f \in Outcomes, mfd \in Fds \cup {NoFd} :
          ImportGbmBuf(fd, mfd, f) \/ (MayImportWl(fd) /\ ImportWlBuffer(fd, mfd, f))
    BY <1>2 DEF ImportStep, Complete, Paired
  <2>2. f = "none"
    BY CompletePaired
  <2>3. \/ /\ Joins(fd, mfd, HandleOf(Data(BufOf(fd)), f), HandleOf(FileOf(mfd), f))
           /\ \E id \in Counted(fd) : bos[id].mfd = mfd
        \/ \E b, cpu, mt : Starts(fd, b, mfd, cpu, mt, f)
    BY <2>1, CompletePaired, ImportGbmBufShaped, ImportWlBufferShaped DEF LifeInv
  <2>4. ASSUME Joins(fd, mfd, HandleOf(Data(BufOf(fd)), f), HandleOf(FileOf(mfd), f)),
               NEW id \in Counted(fd), bos[id].mfd = mfd
        PROVE  mfd = reg[fd].mfd /\ FileOf(mfd) = Meta(BufOf(fd))
    <3>1. mfd = reg[fd].mfd
      BY <2>4 DEF LeftInv, FullBo, Counted
    <3>2. fd \in DOMAIN reg
      BY <2>4 DEF Joins
    <3>. QED  BY <3>1, <3>2, SoundIs DEF FileOf, LifeInv
  <2>. QED  BY <2>2, <2>3, <2>4
<1>. QED  BY <1>1, <1>2

\* Handles of buffer b, opened where there is GEM, are handles of a registered fd.
LEMMA GemCovered ==
  ASSUME TablesLeft, NEW fd \in DOMAIN reg, fd \in DOMAIN reg',
         NEW h, NEW mh, gem' = (gem \cup {h, mh}) \ {NoHandle},
         h \in {NoHandle, HandleOf(Data(BufOf(fd)), "none")},
         mh \in {NoHandle, HandleOf(Meta(BufOf(fd)), "none")}
  PROVE  /\ ~HasGem => gem' = {}
         /\ \A x \in gem' : \E k \in DOMAIN reg : x \in {Data(BufOf(k)), Meta(BufOf(k))}
<1>1. CASE HasGem
  <2>1. ASSUME NEW x \in gem'
        PROVE  \E k \in DOMAIN reg : x \in {Data(BufOf(k)), Meta(BufOf(k))}
    <3>1. CASE x \in gem
      BY <3>1 DEF TablesLeft
    <3>2. CASE x \notin gem
      <4>1. x \in {Data(BufOf(fd)), Meta(BufOf(fd))}
        BY <1>1, <2>1, <3>2 DEF HandleOf
      <4>. QED  BY <4>1
    <3>. QED  BY <3>1, <3>2
  <2>. QED  BY <1>1, <2>1
<1>2. CASE ~HasGem
  BY <1>2 DEF TablesLeft, HandleOf
<1>. QED  BY <1>1, <1>2

LEMMA JoinsLeft ==
  ASSUME Complete, LifeInv, LeftInv, NEW fd \in Fds,
         Joins(fd, reg[fd].mfd, HandleOf(Data(BufOf(fd)), "none"), HandleOf(Meta(BufOf(fd)), "none"))
  PROVE  LeftInv'
<1> PICK h, mh : h = HandleOf(Data(BufOf(fd)), "none") /\ mh = HandleOf(Meta(BufOf(fd)), "none")
  OBVIOUS
<1> PICK e : e = reg[fd]
  OBVIOUS
<1> PICK b : b = BufOf(fd)
  OBVIOUS
<1>1. fd \in DOMAIN reg /\ UNCHANGED <<fdt, maps, offers>> /\ gem' = (gem \cup {h, mh}) \ {NoHandle}
  BY DEF Joins
<1>2. /\ DOMAIN reg' = DOMAIN reg /\ Fcn(reg)'
      /\ \A k \in DOMAIN reg : /\ reg'[k].mfd = reg[k].mfd
                               /\ reg'[k].cpu = reg[k].cpu /\ reg'[k].mt = reg[k].mt
  <2>1. reg' = [reg EXCEPT ![fd].ref = @ + 1]
    BY DEF Joins, IncRef, Registered
  <2>2. \A k \in DOMAIN reg : reg[k] \in Entry
    BY DEF LifeInv, ExactInv, RefsInv, TypeInv, TypeOK, MapsTo
  <2>3. Fcn(reg)'
    BY <2>1 DEF Fcn
  <2>. QED  BY <2>1, <2>2, <2>3 DEF Entry
<1>3. TablesLeft
  BY DEF LeftInv
<1>4. /\ ~HasGem => gem' = {}
      /\ \A x \in gem' : \E k \in DOMAIN reg : x \in {Data(BufOf(k)), Meta(BufOf(k))}
  BY <1>1, <1>2, <1>3, GemCovered
<1>5. TablesLeft'
  <2>1. \A k : IsDataFd(k)' <=> IsDataFd(k)
    BY <1>1 DEF IsDataFd
  <2>2. \A k : BufOf(k)' = BufOf(k)
    BY <1>1 DEF BufOf
  <2>3. \A x \in DOMAIN fdt' : x # 0 => \/ IsDataFd(x)'
                                        \/ \E k \in DOMAIN reg' : reg'[k].mfd = x
                                        \/ \E o \in offers' : o[2] = x
    BY <1>1, <1>2, <1>3, <2>1 DEF TablesLeft
  <2>4. \A a \in DOMAIN maps' : \E k \in DOMAIN reg' : reg'[k].cpu = a \/ reg'[k].mt = a
    BY <1>1, <1>2, <1>3 DEF TablesLeft
  <2>5. \A x \in gem' : \E k \in DOMAIN reg' : x \in {Data(BufOf(k)'), Meta(BufOf(k)')}
    BY <1>2, <1>4, <2>2
  <2>6. Fcn(maps)'
    BY <1>1, <1>3 DEF TablesLeft, Fcn
  <2>. QED  BY <1>2, <1>4, <2>3, <2>4, <2>5, <2>6 DEF TablesLeft
<1>6. PICK id \in BoIds \ DOMAIN bos : bos' = Put(bos, id, NewBo(fd, e, b, e.mfd, h, mh))
  BY DEF Joins
<1>7. ASSUME NEW k \in DOMAIN bos', ~bos'[k].named
      PROVE  FullBo(bos[k])'
  <2>1. CASE k = id
    BY <1>1, <1>2, <1>6, <2>1 DEF Put, FullBo, NewBo
  <2>2. CASE k # id
    <3>1. k \in DOMAIN bos /\ bos'[k] = bos[k]
      BY <1>6, <1>7, <2>2 DEF Put
    <3>2. bos[k].fd \in DOMAIN reg /\ FullBo(bos[k])
      BY <1>7, <3>1 DEF LeftInv, LifeInv, UseInv, Agrees
    <3>. QED  BY <1>2, <3>1, <3>2 DEF FullBo
  <2>. QED  BY <2>1, <2>2
<1>. QED  BY <1>5, <1>7 DEF LeftInv

LEMMA StartsLeft ==
  ASSUME Complete, LifeInv, LeftInv, NEW fd, NEW b, NEW mfd, NEW cpu, NEW mt,
         Starts(fd, b, mfd, cpu, mt, "none")
  PROVE  LeftInv'
<1> PICK h, mh : h = HandleOf(Data(b), "none") /\ mh = HandleOf(Meta(b), "none")
  OBVIOUS
<1>1. /\ fd \notin DOMAIN reg /\ b \in Bufs
      /\ DOMAIN fdt' = DOMAIN fdt \cup {fd, mfd} /\ fdt'[fd] = Data(b)
      /\ gem' = (gem \cup {h, mh}) \ {NoHandle}
      /\ offers' = {o \in offers : o[1] # fd} /\ \A o \in offers : o[1] = fd => o[2] = mfd
  BY DEF Starts
<1>2. /\ DOMAIN reg' = DOMAIN reg \cup {fd} /\ Fcn(reg)'
      /\ reg'[fd] = [mfd |-> mfd, cpu |-> cpu, mt |-> mt, ref |-> 1]
      /\ \A k \in DOMAIN reg : reg'[k] = reg[k]
  BY DEF Starts, Put, Fcn
<1>3. TablesLeft /\ Kept
  BY StartsKeeps DEF LeftInv
<1>4. /\ Fcn(maps)'
      /\ DOMAIN maps' \subseteq DOMAIN maps \cup {cpu, mt}
  <2>1. CASE b \in Secure
    BY <2>1 DEF Starts, Put, Fcn
  <2>2. CASE b \notin Secure
    BY <2>2 DEF Starts, Put, Fcn
  <2>. QED  BY <2>1, <2>2
<1>5. IsDataFd(fd)' /\ BufOf(fd)' = b
  BY <1>1, FileNames DEF IsDataFd, BufOf
<1>6. \A k \in DOMAIN fdt : IsDataFd(k) => IsDataFd(k)'
  BY <1>3 DEF Kept, IsDataFd
<1>7. \A k \in DOMAIN reg : BufOf(k)' = BufOf(k)
  BY <1>3, KeptSound DEF LifeInv, UseInv, Kept, IsDataFd, BufOf
<1>8. TablesLeft'
  <2>1. ASSUME NEW x \in DOMAIN fdt', x # 0
        PROVE  \/ IsDataFd(x)'
               \/ \E k \in DOMAIN reg' : reg'[k].mfd = x
               \/ \E o \in offers' : o[2] = x
    <3>1. CASE x = fd
      BY <1>5, <3>1
    <3>2. CASE x = mfd
      BY <1>2, <3>2
    <3>3. CASE x \notin {fd, mfd}
      <4>1. x \in DOMAIN fdt
        BY <1>1, <2>1, <3>3
      <4>. QED  BY <1>1, <1>2, <1>3, <1>6, <2>1, <3>3, <4>1 DEF TablesLeft
    <3>. QED  BY <3>1, <3>2, <3>3
  <2>2. \A a \in DOMAIN maps' : \E k \in DOMAIN reg' : reg'[k].cpu = a \/ reg'[k].mt = a
    BY <1>2, <1>3, <1>4 DEF TablesLeft
  <2>3. CASE HasGem
    <3>1. ASSUME NEW x \in gem'
          PROVE  \E k \in DOMAIN reg' : x \in {Data(BufOf(k)'), Meta(BufOf(k)')}
      <4>1. CASE x \in gem
        <5>1. PICK k \in DOMAIN reg : x \in {Data(BufOf(k)), Meta(BufOf(k))}
          BY <1>3, <4>1 DEF TablesLeft
        <5>. QED  BY <1>2, <1>7, <5>1
      <4>2. CASE x \notin gem
        <5>1. x \in {Data(b), Meta(b)}
          BY <1>1, <2>3, <3>1, <4>2 DEF HandleOf
        <5>. QED  BY <1>2, <1>5, <5>1
      <4>. QED  BY <4>1, <4>2
    <3>. QED  BY <1>2, <1>4, <2>1, <2>2, <2>3, <3>1 DEF TablesLeft
  <2>4. CASE ~HasGem
    <3>1. gem' = {}
      BY <1>1, <1>3, <2>4 DEF TablesLeft, HandleOf
    <3>. QED  BY <1>2, <1>4, <2>1, <2>2, <3>1 DEF TablesLeft
  <2>. QED  BY <2>3, <2>4
<1>9. PICK id \in BoIds \ DOMAIN bos :
        bos' = Put(bos, id, NewBo(fd, [cpu |-> cpu, mt |-> mt], b, mfd, h, mh))
  BY DEF Starts
<1>10. ASSUME NEW k \in DOMAIN bos', ~bos'[k].named
       PROVE  FullBo(bos[k])'
  <2>1. CASE k = id
    BY <1>2, <1>9, <2>1 DEF Put, FullBo, NewBo
  <2>2. CASE k # id
    <3>1. k \in DOMAIN bos /\ bos'[k] = bos[k]
      BY <1>9, <1>10, <2>2 DEF Put
    <3>2. bos[k].fd \in DOMAIN reg /\ FullBo(bos[k])
      BY <1>10, <3>1 DEF LeftInv, LifeInv, UseInv, Agrees
    <3>. QED  BY <1>2, <3>1, <3>2 DEF FullBo
  <2>. QED  BY <2>1, <2>2
<1>. QED  BY <1>8, <1>10 DEF LeftInv

\* The last object knows all its fd stands for, so all of it goes.
LEMMA EndsLeft ==
  ASSUME Complete, LifeInv, LeftInv, NEW id \in DOMAIN bos, ~bos[id].named,
         bos[id].fd \in DOMAIN reg, Ends(id), UNCHANGED offers, Fcn(reg)', Fcn(maps)'
  PROVE  TablesLeft'
<1> PICK bo : bo = bos[id]
  OBVIOUS
<1> PICK fd : fd = bo.fd
  OBVIOUS
<1>1. /\ fd \in DOMAIN reg /\ bo.mfd = reg[fd].mfd /\ bo.cpu = reg[fd].cpu /\ bo.mt = reg[fd].mt
      /\ bo.buf = BufOf(fd) /\ bo.handle = HandleOf(Data(bo.buf), "none")
      /\ bo.mhandle = HandleOf(Meta(bo.buf), "none")
  BY FileNames DEF LifeInv, UseInv, Agrees, LeftInv, FullBo, BufOf
<1>2. /\ DOMAIN reg' = DOMAIN reg \ {fd} /\ \A k \in DOMAIN reg' : reg'[k] = reg[k]
      /\ DOMAIN fdt' = DOMAIN fdt \ {fd, bo.mfd} /\ \A k \in DOMAIN fdt' : fdt'[k] = fdt[k]
      /\ DOMAIN maps' = DOMAIN maps \ {bo.cpu, bo.mt}
      /\ gem' = gem \ {bo.handle, bo.mhandle}
  BY DEF Ends
<1>3. TablesLeft
  BY DEF LeftInv
<1>4. ASSUME NEW k \in Fds, IsDataFd(k), k # fd
      PROVE  IsDataFd(k)' /\ BufOf(k)' = BufOf(k)
  BY <1>1, <1>4, EndsSpares DEF LifeInv, BufOf
<1>5. \A x \in DOMAIN fdt : x \in Fds
  BY DEF LifeInv, ExactInv, RefsInv, TypeInv, TypeOK, MapsTo
<1>6. ASSUME NEW x \in DOMAIN fdt', x # 0
      PROVE  \/ IsDataFd(x)'
             \/ \E k \in DOMAIN reg' : reg'[k].mfd = x
             \/ \E o \in offers' : o[2] = x
  <2>1. x \in DOMAIN fdt /\ x \notin {fd, reg[fd].mfd}
    BY <1>1, <1>2, <1>6
  <2>2. CASE IsDataFd(x)
    BY <1>4, <1>5, <2>1, <2>2
  <2>3. ASSUME NEW k \in DOMAIN reg, reg[k].mfd = x
        PROVE  \E l \in DOMAIN reg' : reg'[l].mfd = x
    BY <1>2, <2>1, <2>3
  <2>. QED  BY <1>3, <1>6, <2>1, <2>2, <2>3 DEF TablesLeft
<1>7. ASSUME NEW a \in DOMAIN maps'
      PROVE  \E k \in DOMAIN reg' : reg'[k].cpu = a \/ reg'[k].mt = a
  <2>1. a \in DOMAIN maps /\ a \notin {reg[fd].cpu, reg[fd].mt}
    BY <1>1, <1>2, <1>7
  <2>2. PICK k \in DOMAIN reg : reg[k].cpu = a \/ reg[k].mt = a
    BY <1>3, <2>1 DEF TablesLeft
  <2>. QED  BY <1>2, <2>1, <2>2
<1>8. ASSUME NEW h \in gem'
      PROVE  \E k \in DOMAIN reg' : h \in {Data(BufOf(k)'), Meta(BufOf(k)')}
  <2>1. h \in gem /\ HasGem
    BY <1>2, <1>3, <1>8 DEF TablesLeft
  <2>2. h \notin {Data(BufOf(fd)), Meta(BufOf(fd))}
    <3>1. bo.handle = Data(BufOf(fd)) /\ bo.mhandle = Meta(BufOf(fd))
      BY <1>1, <2>1 DEF HandleOf
    <3>. QED  BY <1>2, <1>8, <3>1
  <2>3. PICK k \in DOMAIN reg : h \in {Data(BufOf(k)), Meta(BufOf(k))}
    BY <1>3, <2>1 DEF TablesLeft
  <2>4. k # fd
    BY <2>2, <2>3
  <2>5. k \in Fds /\ IsDataFd(k)
    BY DEF LifeInv, UseInv, ExactInv, RefsInv, TypeInv, TypeOK, MapsTo
  <2>6. BufOf(k)' = BufOf(k) /\ k \in DOMAIN reg'
    BY <1>2, <1>4, <2>4, <2>5
  <2>. QED  BY <2>3, <2>6
<1>9. ~HasGem => gem' = {}
  BY <1>2, <1>3 DEF TablesLeft
<1>. QED  BY <1>6, <1>7, <1>8, <1>9 DEF TablesLeft

LEMMA DestroyLeft ==
  ASSUME Complete, LifeInv, LeftInv, NEW id \in DOMAIN bos, MayDestroy(id), BoDestroy(id)
  PROVE  LeftInv'
<1> PICK fd : fd = bos[id].fd
  OBVIOUS
<1>1. /\ ~bos[id].named /\ fd \in DOMAIN reg
      /\ DOMAIN bos' = DOMAIN bos \ {id} /\ \A k \in DOMAIN bos' : bos'[k] = bos[k]
      /\ UNCHANGED <<offers, segv>>
      /\ Parts(id) \/ Ends(id)
  BY DestroyShaped, CompletePaired DEF LifeInv
<1>2. TablesLeft
  BY DEF LeftInv
<1>3. Fcn(reg)' /\ Fcn(maps)'
  <2>1. reg' = DecRef(reg, fd) /\ (maps' = maps \/ maps' = UnmapBoth(maps, bos[id]))
    BY DEF BoDestroy
  <2>2. Fcn(reg)'
    BY <1>2, <2>1 DEF DecRef, Drop, Fcn, TablesLeft
  <2>3. ASSUME NEW m, Fcn(m), NEW a, NEW len PROVE Fcn(Munmap(m, a, len))
    BY <2>3 DEF Fcn, Munmap, Drop
  <2>4. Fcn(UnmapBoth(maps, bos[id]))
    BY <1>2, <2>3 DEF UnmapBoth, TablesLeft
  <2> PICK m : m = UnmapBoth(maps, bos[id])
    OBVIOUS
  <2>5. maps' = m \/ maps' = maps
    BY <2>1
  <2>6. Fcn(m) /\ Fcn(maps)
    BY <1>2, <2>4 DEF TablesLeft
  <2>. QED  BY <2>2, <2>5, <2>6 DEF Fcn
<1>4. CASE Parts(id)
  <2>1. UNCHANGED <<fdt, maps, gem, offers>> /\ reg' = [reg EXCEPT ![fd].ref = @ - 1]
    BY <1>1, <1>4 DEF Parts
  <2>2. /\ DOMAIN reg' = DOMAIN reg
        /\ \A k \in DOMAIN reg : /\ reg'[k].mfd = reg[k].mfd
                                 /\ reg'[k].cpu = reg[k].cpu /\ reg'[k].mt = reg[k].mt
    <3>1. \A k \in DOMAIN reg : reg[k] \in Entry
      BY DEF LifeInv, ExactInv, RefsInv, TypeInv, TypeOK, MapsTo
    <3>. QED  BY <2>1, <3>1 DEF Entry
  <2>3. \A k : (IsDataFd(k)' <=> IsDataFd(k)) /\ BufOf(k)' = BufOf(k)
    BY <2>1 DEF IsDataFd, BufOf
  <2>4. TablesLeft'
    BY <1>2, <1>3, <2>1, <2>2, <2>3 DEF TablesLeft
  <2>5. ASSUME NEW k \in DOMAIN bos', ~bos'[k].named
        PROVE  FullBo(bos[k])'
    <3>1. k \in DOMAIN bos /\ bos'[k] = bos[k] /\ bos[k].fd \in DOMAIN reg /\ FullBo(bos[k])
      BY <1>1, <2>5 DEF LeftInv, LifeInv, UseInv, Agrees
    <3>. QED  BY <2>2, <3>1 DEF FullBo
  <2>. QED  BY <2>4, <2>5 DEF LeftInv
<1>5. CASE Ends(id)
  <2>1. TablesLeft'
    BY <1>1, <1>3, <1>5, EndsLeft
  <2>2. ASSUME NEW k \in DOMAIN bos', ~bos'[k].named
        PROVE  FullBo(bos[k])'
    <3>1. k \in DOMAIN bos /\ k # id /\ bos'[k] = bos[k] /\ bos[k].fd \in DOMAIN reg /\ FullBo(bos[k])
      BY <1>1, <2>2 DEF LeftInv, LifeInv, UseInv, Agrees
    <3>2. bos[k].fd # fd
      BY <1>5, <2>2, <3>1 DEF Ends, Counted
    <3>3. reg'[bos[k].fd] = reg[bos[k].fd]
      BY <1>5, <3>1, <3>2 DEF Ends
    <3>. QED  BY <3>1, <3>3 DEF FullBo
  <2>. QED  BY <2>1, <2>2 DEF LeftInv
<1>. QED  BY <1>1, <1>4, <1>5

LEMMA ImportFromNameLeft ==
  ASSUME Complete, LifeInv, LeftInv, NEW id \in DOMAIN bos, NEW new \in BoIds, NEW f,
         ImportFromName(id, new, f)
  PROVE  LeftInv'
<1> PICK fd : fd = bos[id].fd
  OBVIOUS
<1> PICK h : h = HandleOf(Data(BufOf(fd)), f)
  OBVIOUS
<1>1. /\ ~bos[id].named /\ IsDataFd(fd)
      /\ UNCHANGED <<fdt, maps, reg, offers>>
      /\ bos'[new].named /\ DOMAIN bos' = DOMAIN bos \cup {new}
      /\ \A k \in DOMAIN bos : bos'[k] = bos[k]
  BY DEF ImportFromName, Put
<1>2. fd \in DOMAIN reg
  BY <1>1 DEF LifeInv, UseInv, Agrees
<1>3. gem' = (gem \cup {h, NoHandle}) \ {NoHandle}
  <2>1. gem' = (gem \cup {HandleOf(fdt[fd], f)}) \ {NoHandle}
    BY DEF ImportFromName
  <2>2. fdt[fd] = Data(BufOf(fd))
    BY <1>1, DataFdIs
  <2>. QED  BY <2>1, <2>2
<1>4. TablesLeft
  BY DEF LeftInv
<1>5. /\ ~HasGem => gem' = {}
      /\ \A x \in gem' : \E k \in DOMAIN reg : x \in {Data(BufOf(k)), Meta(BufOf(k))}
  <2>1. h \in {NoHandle, HandleOf(Data(BufOf(fd)), "none")}
    BY DEF HandleOf
  <2>. QED  BY <1>1, <1>2, <1>3, <1>4, <2>1, GemCovered
<1>6. TablesLeft'
  BY <1>1, <1>4, <1>5 DEF TablesLeft, Fcn, IsDataFd, BufOf
<1>7. ASSUME NEW k \in DOMAIN bos', ~bos'[k].named
      PROVE  FullBo(bos[k])'
  <2>1. k \in DOMAIN bos /\ bos'[k] = bos[k] /\ FullBo(bos[k])
    BY <1>1, <1>7 DEF LeftInv
  <2>. QED  BY <1>1, <2>1 DEF FullBo
<1>. QED  BY <1>6, <1>7 DEF LeftInv

\* Only an object imported by name has no metadata fd to begin with.
LEMMA RefreshMetaFdLeft ==
  ASSUME Complete, LifeInv, LeftInv, NEW id \in DOMAIN bos, RefreshMetaFd(id)
  PROVE  LeftInv'
<1>1. UNCHANGED <<fdt, maps, gem, reg, offers>> /\ bos[id].mfd <= 0 /\ Lookup(reg, bos[id].fd).mfd > 0
      /\ \E m : bos' = [bos EXCEPT ![id].mfd = m]
  BY DEF RefreshMetaFd
<1>2. bos[id].named
  <2> SUFFICES ASSUME ~bos[id].named PROVE FALSE
    OBVIOUS
  <2>1. bos[id].fd \in DOMAIN reg /\ bos[id].mfd = reg[bos[id].fd].mfd
    BY DEF LifeInv, UseInv, Agrees, LeftInv, FullBo
  <2>. QED  BY <1>1, <2>1 DEF Lookup, Registered, LifeInv, ExactInv, RefsInv, TypeInv, TypeOK, MapsTo, Entry, FdOrNone, Fds, NoFd
<1>3. bos[id] \in BoFields
  BY DEF LifeInv, ExactInv, RefsInv, TypeInv, TypeOK, MapsTo, Bo
<1>4. /\ DOMAIN bos' = DOMAIN bos /\ bos'[id].named
      /\ \A k \in DOMAIN bos \ {id} : bos'[k] = bos[k]
  BY <1>1, <1>2, <1>3 DEF BoFields
<1>5. TablesLeft'
  BY <1>1 DEF LeftInv, TablesLeft, Fcn, IsDataFd, BufOf
<1>6. ASSUME NEW k \in DOMAIN bos', ~bos'[k].named
      PROVE  FullBo(bos[k])'
  <2>1. k \in DOMAIN bos /\ bos'[k] = bos[k] /\ FullBo(bos[k])
    BY <1>4, <1>6 DEF LeftInv
  <2>. QED  BY <1>1, <2>1 DEF FullBo
<1>. QED  BY <1>5, <1>6 DEF LeftInv

\* Where only descriptors and offers move, those that are open have to be accounted for.
LEMMA DescriptorsLeft ==
  ASSUME LifeInv, UseInv', LeftInv, UNCHANGED <<maps, gem, reg, bos>>,
         \A k \in DOMAIN reg : k \in DOMAIN fdt' => fdt'[k] = fdt[k],
         \A x \in DOMAIN fdt' : x # 0 =>
            \/ IsDataFd(x)'
            \/ \E k \in DOMAIN reg : reg[k].mfd = x
            \/ \E o \in offers' : o[2] = x
  PROVE  LeftInv'
<1>1. ASSUME NEW k \in DOMAIN reg PROVE BufOf(k)' = BufOf(k)
  <2>1. k \in DOMAIN fdt'
    BY <1>1 DEF UseInv, IsDataFd
  <2>. QED  BY <1>1, <2>1 DEF BufOf
<1>2. \A x \in gem' : \E k \in DOMAIN reg' : x \in {Data(BufOf(k)'), Meta(BufOf(k)')}
  <2>1. \A x \in gem : \E k \in DOMAIN reg : x \in {Data(BufOf(k)), Meta(BufOf(k))}
    BY DEF LeftInv, TablesLeft
  <2>. QED  BY <1>1, <2>1
<1>3. Fcn(reg)' /\ Fcn(maps)' /\ (~HasGem => gem' = {})
      /\ \A a \in DOMAIN maps' : \E k \in DOMAIN reg' : reg'[k].cpu = a \/ reg'[k].mt = a
  BY DEF LeftInv, TablesLeft, Fcn
<1>4. TablesLeft'
  BY <1>2, <1>3 DEF TablesLeft
<1>5. ASSUME NEW k \in DOMAIN bos', ~bos'[k].named
      PROVE  FullBo(bos[k])'
  BY <1>5 DEF LeftInv, FullBo
<1>. QED  BY <1>4, <1>5 DEF LeftInv

LEMMA ReceiveLeft ==
  ASSUME Complete, LifeInv, LeftInv, NEW b \in Foreign, Receive(b)
  PROVE  LeftInv'
<1>1. PICK d \in Fds \ DOMAIN fdt : \E m \in Fds \ DOMAIN fdt :
           /\ d # m /\ b \in Bufs /\ offers = {} /\ offers' = {<<d, m>>}
           /\ DOMAIN fdt' = DOMAIN fdt \cup {d, m}
           /\ fdt'[d] = Data(b) /\ \A k \in DOMAIN fdt : fdt'[k] = fdt[k]
           /\ UNCHANGED <<maps, gem, reg, bos>>
  BY ReceiveShaped, CompletePaired DEF LifeInv
<1>2. PICK m \in Fds \ DOMAIN fdt :
           /\ d # m /\ b \in Bufs /\ offers = {} /\ offers' = {<<d, m>>}
           /\ DOMAIN fdt' = DOMAIN fdt \cup {d, m}
           /\ fdt'[d] = Data(b) /\ \A k \in DOMAIN fdt : fdt'[k] = fdt[k]
           /\ UNCHANGED <<maps, gem, reg, bos>>
  BY <1>1
<1>3. UseInv'
  BY ReceiveUse, CompletePaired DEF LifeInv
<1>4. ASSUME NEW x \in DOMAIN fdt', x # 0
      PROVE  \/ IsDataFd(x)'
             \/ \E k \in DOMAIN reg : reg[k].mfd = x
             \/ \E o \in offers' : o[2] = x
  <2>1. CASE x = d
    BY <1>2, <2>1 DEF IsDataFd
  <2>2. CASE x = m
    BY <1>2, <2>2
  <2>3. CASE x \in DOMAIN fdt
    BY <1>2, <1>4, <2>3 DEF LeftInv, TablesLeft, IsDataFd
  <2>. QED  BY <1>2, <2>1, <2>2, <2>3
<1>5. \A k \in DOMAIN reg : k \in DOMAIN fdt' => fdt'[k] = fdt[k]
  BY <1>2 DEF LifeInv, UseInv, IsDataFd
<1>. QED  BY <1>2, <1>3, <1>4, <1>5, DescriptorsLeft

LEMMA CloseOfferLeft ==
  ASSUME Complete, LifeInv, LeftInv, NEW o \in offers, CloseOffer(o)
  PROVE  LeftInv'
<1>1. /\ offers = {o} /\ offers' = {}
      /\ DOMAIN fdt' = DOMAIN fdt \ {o[1], o[2]}
      /\ \A k \in DOMAIN fdt' : fdt'[k] = fdt[k]
      /\ UNCHANGED <<maps, gem, reg, bos>>
  BY CloseOfferShaped, CompletePaired DEF LifeInv
<1>2. UseInv'
  BY CloseOfferUse, CompletePaired DEF LifeInv
<1>3. ASSUME NEW x \in DOMAIN fdt', x # 0
      PROVE  IsDataFd(x)' \/ \E k \in DOMAIN reg : reg[k].mfd = x
  BY <1>1, <1>3 DEF LeftInv, TablesLeft, IsDataFd
<1>. QED  BY <1>1, <1>2, <1>3, DescriptorsLeft

LEMMA NextKeepsLeft == Complete /\ LifeInv /\ LeftInv /\ [Next]_vars => LeftInv'
<1> SUFFICES ASSUME Complete, LifeInv, LeftInv, [Next]_vars PROVE LeftInv'
  OBVIOUS
<1>1. CASE UNCHANGED vars
  BY <1>1 DEF vars, LeftInv, TablesLeft, FullBo, Fcn, IsDataFd, BufOf
<1>2. CASE Next
  BY <1>2, CompleteStepIs, JoinsLeft, StartsLeft, DestroyLeft, RefreshMetaFdLeft,
     ImportFromNameLeft, ReceiveLeft, CloseOfferLeft
<1>. QED  BY <1>1, <1>2

LEMMA InitLeft == ASSUME Complete PROVE Init => LeftInv
<1> SUFFICES ASSUME Init PROVE LeftInv
  OBVIOUS
<1>1. DOMAIN reg = {} /\ DOMAIN bos = {} /\ DOMAIN maps = {} /\ gem = {} /\ DOMAIN fdt = {0}
  BY DEF Init, EmptyMap, Complete, Paired
<1>2. Fcn(reg) /\ Fcn(maps)
  BY DEF Fcn, Init, EmptyMap
<1>. QED  BY <1>1, <1>2 DEF LeftInv, TablesLeft

\* "Destroys the given buffer object and frees all resources associated with it"
\* (gbm_bo_destroy): once every object that counts is destroyed and every offer given
\* up, nothing is open, mapped, held or registered but what there was at the start.
THEOREM NothingLeaks == ASSUME Complete PROVE Spec => []NoLeak
<1>1. LifeInv /\ LeftInv => NoLeak
  <2> SUFFICES ASSUME LifeInv, LeftInv, \A id \in DOMAIN bos : bos[id].named, offers = {}
               PROVE  DOMAIN fdt = Inherited /\ maps = EmptyMap /\ gem = {} /\ reg = EmptyMap
    BY DEF NoLeak
  <2>1. \A fd : Counted(fd) = {}
    BY DEF Counted
  <2>2. DOMAIN reg = {}
    BY <2>1, RegisteredCounted DEF LifeInv, ExactInv, RefsInv, TypeInv, TypeOK, MapsTo
  <2>3. ASSUME NEW x \in DOMAIN fdt, x # 0 PROVE FALSE
    <3>1. IsDataFd(x) /\ x \in Fds
      BY <2>2, <2>3 DEF LeftInv, TablesLeft, LifeInv, ExactInv, RefsInv, TypeInv, TypeOK, MapsTo
    <3>. QED  BY <2>2, <3>1 DEF LifeInv, UseInv, TableInv
  <2>4. DOMAIN fdt = {0} /\ Inherited = {0}
    BY <2>3, CompletePaired DEF LifeInv, UseInv, TableInv, Paired
  <2>5. DOMAIN maps = {} /\ gem = {} /\ Fcn(reg) /\ Fcn(maps)
    BY <2>2 DEF LeftInv, TablesLeft
  <2>6. maps = EmptyMap /\ reg = EmptyMap
    BY <2>2, <2>5 DEF Fcn, EmptyMap
  <2>. QED  BY <2>4, <2>5, <2>6
<1>2. LifeInv /\ LeftInv /\ [Next]_vars => (LifeInv /\ LeftInv)'
  BY NextKeepsLife, NextKeepsLeft, CompletePaired
<1>3. Init => LifeInv /\ LeftInv
  BY InitLife, InitLeft, CompletePaired
<1>. QED  BY <1>1, <1>2, <1>3, PTL DEF Spec
=============================================================================
