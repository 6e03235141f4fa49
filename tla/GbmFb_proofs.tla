----------------------------- MODULE GbmFb_proofs -----------------------------
(***************************************************************************)
(* Proofs about GbmFb: the FB backend's buffer objects do what GbmBo says, *)
(* so that what GbmBo_proofs proves holds of them, too; every count is     *)
(* accounted for, whatever fails; objects on a descriptor that lost no     *)
(* reference stay usable; and only a write makes an address go stale.      *)
(***************************************************************************)
EXTENDS GbmFb, GbmBo_proofs

\* Every handler of the FB backend is one of GbmBo's.
LEMMA FbStepIsBoStep == [FbNext]_fbvars => [Next]_vars
<1> SUFFICES ASSUME [FbNext]_fbvars PROVE [Next]_vars
  OBVIOUS
<1>1. CASE UNCHANGED fbvars
  BY <1>1 DEF fbvars
<1>2. ASSUME ~segv, NEW b \in Local, NEW f \in Outcomes, FbBoCreate(b, f) PROVE Next
  BY <1>2 DEF FbBoCreate, Next
<1>3. ASSUME ~segv, NEW fd \in Fds, NEW f \in Outcomes, FbImport(fd, f) PROVE Next
  <2>1. ImportStep
    BY <1>3 DEF FbImport, FbImportFd, FbImportFdBadFormat, FbImportWlBuffer,
                FbImportGbmBuf, ImportStep
  <2>. QED  BY <1>3, <2>1 DEF Next
<1>4. ASSUME ~segv, NEW id \in DOMAIN bos, FbBoStep(id) PROVE Next
  <2>1. ASSUME NEW new \in BoIds, FbImportFromName(id, new) PROVE BoStep
    <3>1. "none" \in Outcomes
      BY DEF Outcomes
    <3>. QED  BY <2>1, <3>1 DEF FbImportFromName, BoStep
  <2>2. ASSUME FbBoDestroy(id) PROVE BoStep
    BY <2>2 DEF FbBoDestroy, BoStep
  <2>3. ASSUME FbRefreshMetaFd(id) PROVE BoStep
    BY <2>3 DEF FbRefreshMetaFd, BoStep
  <2>4. ASSUME NEW f \in Outcomes, FbBoCpuMap(id, f) \/ FbBoWriteMapping(id, f) PROVE BoStep
    BY <2>4 DEF FbBoCpuMap, FbBoWriteMapping, BoStep
  <2>5. BoStep
    BY <1>4, <2>1, <2>2, <2>3, <2>4 DEF FbBoStep
  <2>. QED  BY <1>4, <2>5 DEF Next
<1>5. CASE ~segv /\ ClientStep
  BY <1>5 DEF Next
<1>. QED  BY <1>1, <1>2, <1>3, <1>4, <1>5 DEF FbNext

\* The FB backend's buffer objects are GbmBo's, without GEM handles.
THEOREM FbIsBo == FbSpec => Spec
<1>1. FbInit => Init
  BY DEF FbInit
<1>. QED  BY <1>1, FbStepIsBoStep, PTL DEF FbSpec, Spec

\* So its variables are well typed, ...
THEOREM FbTypeCorrect == FbSpec => []TypeOK
BY FbIsBo, TypeCorrect, PTL

\* ... and none of its destroys takes itself for the last one too early.
THEOREM FbReferencesCover == ASSUME NamesKept PROVE FbSpec => []RefsCover
BY FbIsBo, ReferencesCover, PTL

-----------------------------------------------------------------------------
(* The counts, exactly.  Where RefsCover bounds each from below, lost says *)
(* how much too high it is: every step moves the count, the objects and    *)
(* lost together.                                                          *)

AccountInv == RefsInv /\ RefsAccounted /\ lost \in [Fds -> Nat]

\* A call that counted one reference more on fd returned an object for it, or lost
\* the reference.
LEMMA Balanced ==
  ASSUME AccountInv, ~segv', NEW fd \in Fds, NEW failed \in BOOLEAN, Account(fd, failed),
         RefOf(reg', fd) = RefOf(reg, fd) + 1,
         \A k \in Fds \ {fd} : RefOf(reg', k) = RefOf(reg, k),
         \A k \in Fds \ {fd} : Counted(k)' = Counted(k),
         IF failed THEN Counted(fd)' = Counted(fd)
         ELSE Cardinality(Counted(fd)') = Cardinality(Counted(fd)) + 1
  PROVE  RefsAccounted' /\ lost' \in [Fds -> Nat]
<1>1. \A k \in Fds : /\ RefOf(reg, k) = Cardinality(Counted(k)) + lost[k]
                     /\ lost[k] \in Nat /\ Cardinality(Counted(k)) \in Nat
  BY CountType DEF AccountInv, RefsInv, TypeInv, RefsAccounted
<1>2. /\ lost'[fd] = IF failed THEN lost[fd] + 1 ELSE lost[fd]
      /\ \A k \in Fds \ {fd} : lost'[k] = lost[k]
      /\ lost' \in [Fds -> Nat]
  BY <1>1 DEF Account, AccountInv
<1>3. RefOf(reg', fd) = Cardinality(Counted(fd)') + lost'[fd]
  BY <1>1, <1>2
<1>4. \A k \in Fds \ {fd} : RefOf(reg', k) = Cardinality(Counted(k)') + lost'[k]
  BY <1>1, <1>2
<1>. QED  BY <1>2, <1>3, <1>4 DEF RefsAccounted

\* A step that moves none of the three.
LEMMA Unmoved ==
  ASSUME AccountInv, reg' = reg, lost' = lost, \A k \in Fds : Counted(k)' = Counted(k)
  PROVE  RefsAccounted' /\ lost' \in [Fds -> Nat]
BY DEF AccountInv, RefsAccounted

LEMMA CreateAccounted ==
  ASSUME AccountInv, ~segv, NEW b \in Local, NEW f, FbBoCreate(b, f)
  PROVE  RefsAccounted' /\ lost' \in [Fds -> Nat]
<1> USE DEF AccountInv
<1>1. PICK d \in Fds, id \in BoIds \ DOMAIN bos, m \in FdOrNone, mt \in AddrOrNull,
           c \in AddrOrNull : CreateWith(b, f, d, m, mt, c, id)
  BY NextType DEF FbBoCreate, BoCreate, FdOrNone, AddrOrNull
<1> DEFINE cpu == IF b \in Secure THEN NULL ELSE c
           bo == [fd |-> d, mfd |-> m, handle |-> HandleOf(Data(b), f),
                  mhandle |-> HandleOf(Meta(b), f), cpu |-> cpu, mt |-> mt,
                  size |-> SizeOf(b), named |-> FALSE, buf |-> b]
           registry == Register(reg, d, m, cpu, mt)
           step == CreateReaches(b, d, f)
<1>2. /\ reg' = IF step < 5 THEN reg ELSE IncRef(registry, d)
      /\ bos' = IF step < 6 THEN bos ELSE Put(bos, id, bo)
      /\ segv' = segv
  BY <1>1 DEF CreateWith
<1>3. bo.fd = d /\ bo.named = FALSE /\ cpu \in AddrOrNull
  BY DEF AddrOrNull
<1>4. step \in {1, 2, 3, 4, 5, 6} /\ (step = 5 => f = "calloc") /\ (step = 6 => f # "calloc")
  BY CreateStops, ReachesType
<1> HIDE DEF bo, step, cpu
<1>5. Prepared(registry, d)
  BY <1>3, PreparedRegister DEF RefsInv, TypeInv
<1> HIDE DEF registry
<1>6. CASE step < 5
  <2>1. reg' = reg /\ bos' = bos /\ lost' = lost
    BY <1>2, <1>4, <1>6 DEF FbBoCreate
  <2>. QED  BY <2>1, Unmoved DEF Counted
<1>7. CASE step \in {5, 6}
  <2>1. reg' = IncRef(registry, d)
    BY <1>2, <1>7
  <2>2. /\ RefOf(reg', d) = RefOf(reg, d) + 1
        /\ \A k : k # d => RefOf(reg', k) = RefOf(reg, k)
    BY <1>5, <2>1, ReferenceTaken DEF RefsInv, TypeInv
  <2>3. RefOf(reg, d) \in Nat
    BY CountType DEF RefsInv, TypeInv
  <2>4. Account(d, f = "calloc")
    BY <2>2, <2>3 DEF FbBoCreate
  <2>5. CASE step = 5
    <3>1. \A k : Counted(k)' = Counted(k)
      BY <1>2, <2>5 DEF Counted
    <3>. QED  BY <1>2, <1>4, <2>2, <2>4, <2>5, <3>1, Balanced
  <2>6. CASE step = 6
    <3>1. bos' = Put(bos, id, bo)
      BY <1>2, <2>6
    <3>2. /\ Cardinality(Counted(d)') = Cardinality(Counted(d)) + 1
          /\ \A k \in Fds \ {d} : Counted(k)' = Counted(k)
      BY <1>3, <3>1, OneMore DEF RefsInv, TypeInv
    <3>. QED  BY <1>2, <1>4, <2>2, <2>4, <2>6, <3>2, Balanced
  <2>. QED  BY <1>7, <2>5, <2>6
<1>. QED  BY <1>4, <1>6, <1>7

\* The common tail of the imports.
LEMMA ImportedAccounted ==
  ASSUME AccountInv, ~segv, NEW fd \in Fds, NEW f, Imported(fd, f),
         Account(fd, f = "calloc")
  PROVE  RefsAccounted' /\ lost' \in [Fds -> Nat]
<1> USE DEF AccountInv
<1>1. PICK mfd \in FdOrNone, cpu \in AddrOrNull, mt \in AddrOrNull, len \in 1 .. 2 :
        \E given, registry :
          Prepared(registry, fd) /\ ImportTail(fd, mfd, given, registry, cpu, mt, len, f)
  BY DEF Imported
<1>2. PICK given, registry :
        Prepared(registry, fd) /\ ImportTail(fd, mfd, given, registry, cpu, mt, len, f)
  BY <1>1
<1> DEFINE bo == [fd |-> fd, mfd |-> mfd, handle |-> HandleOf(fdt[fd], f),
                  mhandle |-> HandleOf(FileOf(given), f), cpu |-> cpu, mt |-> mt,
                  size |-> len, named |-> FALSE, buf |-> fdt[fd][1]]
<1>3. PICK id \in BoIds \ DOMAIN bos :
        /\ reg' = IncRef(registry, fd)
        /\ bos' = IF f = "calloc" THEN bos ELSE Put(bos, id, bo)
  BY <1>2 DEF ImportTail
<1>4. bo.fd = fd /\ bo.named = FALSE
  OBVIOUS
<1> HIDE DEF bo
<1>5. /\ RefOf(reg', fd) = RefOf(reg, fd) + 1
      /\ \A k : k # fd => RefOf(reg', k) = RefOf(reg, k)
  BY <1>2, <1>3, ReferenceTaken DEF RefsInv, TypeInv
<1>6. ~segv'
  BY DEF Imported
<1>7. CASE f = "calloc"
  <2>1. \A k : Counted(k)' = Counted(k)
    BY <1>3, <1>7 DEF Counted
  <2>. QED  BY <1>5, <1>6, <1>7, <2>1, Balanced
<1>8. CASE f # "calloc"
  <2>1. bos' = Put(bos, id, bo)
    BY <1>3, <1>8
  <2>2. /\ Cardinality(Counted(fd)') = Cardinality(Counted(fd)) + 1
        /\ \A k \in Fds \ {fd} : Counted(k)' = Counted(k)
    BY <1>4, <2>1, OneMore DEF RefsInv, TypeInv
  <2>. QED  BY <1>5, <1>6, <1>8, <2>2, Balanced
<1>. QED  BY <1>7, <1>8

LEMMA ImportAccounted ==
  ASSUME AccountInv, ~segv, NEW fd \in Fds, NEW f, FbImport(fd, f)
  PROVE  RefsAccounted' /\ lost' \in [Fds -> Nat]
<1> USE DEF AccountInv
<1>1. CASE FbImportFdBadFormat(fd)
  <2>1. ImportFdBadFormat(fd) /\ Account(fd, TRUE)
    BY <1>1 DEF FbImportFdBadFormat
  <2> DEFINE registry == Register(reg, fd, NoFd, NULL, NULL)
  <2>2. Prepared(registry, fd)
    BY PreparedRegister DEF RefsInv, TypeInv, FdOrNone, AddrOrNull
  <2>3. reg' = IncRef(registry, fd) /\ bos' = bos /\ segv' = segv
    BY <2>1 DEF ImportFdBadFormat
  <2> HIDE DEF registry
  <2>4. /\ RefOf(reg', fd) = RefOf(reg, fd) + 1
        /\ \A k : k # fd => RefOf(reg', k) = RefOf(reg, k)
    BY <2>2, <2>3, ReferenceTaken DEF RefsInv, TypeInv
  <2>5. \A k : Counted(k)' = Counted(k)
    BY <2>3 DEF Counted
  <2>. QED  BY <2>1, <2>3, <2>4, <2>5, Balanced
<1>2. ASSUME Segv \/ Imported(fd, f), Account(fd, f = "calloc")
      PROVE  RefsAccounted' /\ lost' \in [Fds -> Nat]
  <2>1. CASE Segv
    <3>1. reg' = reg /\ bos' = bos /\ segv' = TRUE
      BY <2>1 DEF Segv
    <3>2. lost' = lost
      BY <1>2, <3>1 DEF Account
    <3>. QED  BY <3>1, <3>2, Unmoved DEF Counted
  <2>2. CASE Imported(fd, f)
    BY <1>2, <2>2, ImportedAccounted
  <2>. QED  BY <1>2, <2>1, <2>2
<1>3. CASE FbImportFd(fd, f)
  BY <1>2, <1>3, ImportFdShape DEF FbImportFd, RefsInv
<1>4. ASSUME NEW mfd \in FdOrNone, FbImportWlBuffer(fd, mfd, f) \/ FbImportGbmBuf(fd, mfd, f)
      PROVE  RefsAccounted' /\ lost' \in [Fds -> Nat]
  BY <1>2, <1>4, ImportWlBufferShape, ImportGbmBufShape
     DEF FbImportWlBuffer, FbImportGbmBuf, RefsInv
<1>. QED  BY <1>1, <1>3, <1>4 DEF FbImport, FdOrNone

\* Destroying an object gives its reference back, and no other.
LEMMA DestroyAccounted ==
  ASSUME NamesKept, AccountInv, NEW id \in DOMAIN bos, FbBoDestroy(id)
  PROVE  RefsAccounted' /\ lost' \in [Fds -> Nat]
<1> USE DEF AccountInv
<1> PICK fd \in Fds : fd = bos[id].fd
  BY DEF RefsInv, TypeInv, TypeOK, MapsTo, Bo, BoFields
<1>1. ~bos[id].named
  BY DEF NamesKept, RefsInv, FbBoDestroy, MayDestroy
<1>2. reg' = DecRef(reg, fd) /\ bos' = Drop(bos, {id}) /\ lost' = lost
  BY DEF FbBoDestroy, BoDestroy
<1>3. Counted(fd)' = Counted(fd) \ {id} /\ id \in Counted(fd)
  BY <1>1, <1>2 DEF Counted, Drop
<1>4. \A k : k # fd => Counted(k)' = Counted(k)
  BY <1>2 DEF Counted, Drop
<1>5. Cardinality(Counted(fd) \ {id}) = Cardinality(Counted(fd)) - 1
  BY <1>3, CountType, FS_RemoveElement DEF RefsInv, TypeInv
<1>6. Cardinality(Counted(fd) \ {id}) \in Nat
  BY CountType, FS_RemoveElement, FS_CardinalityType DEF RefsInv, TypeInv
<1>7. \A k \in Fds : /\ RefOf(reg, k) = Cardinality(Counted(k)) + lost[k]
                     /\ lost[k] \in Nat /\ Cardinality(Counted(k)) \in Nat
  BY CountType DEF RefsInv, TypeInv, RefsAccounted
<1>8. Registered(reg, fd)
  <2>1. RefOf(reg, fd) > 0
    BY <1>5, <1>6, <1>7
  <2>. QED  BY <2>1 DEF RefOf, Lookup
<1>9. /\ RefOf(reg', fd) = RefOf(reg, fd) - 1
      /\ \A k : k # fd => RefOf(reg', k) = RefOf(reg, k)
  <2>1. MapsTo(reg, Fds, EntryOf(FdOrNone, AddrOrNull)) /\ PositiveRefs
    BY EntryIs DEF RefsInv, TypeInv, TypeOK
  <2>2. /\ Registered(reg, fd) => RefOf(DecRef(reg, fd), fd) = RefOf(reg, fd) - 1
        /\ \A k : k # fd => RefOf(DecRef(reg, fd), k) = RefOf(reg, k)
    BY <2>1, DecRefMapsTo DEF PositiveRefs
  <2>. QED  BY <1>2, <1>8, <2>2
<1>10. Cardinality(Counted(fd)') = Cardinality(Counted(fd)) - 1
  BY <1>3, <1>5
<1>11. RefOf(reg', fd) = Cardinality(Counted(fd)') + lost'[fd]
  BY <1>2, <1>7, <1>9, <1>10
<1>12. \A k \in Fds \ {fd} : RefOf(reg', k) = Cardinality(Counted(k)') + lost'[k]
  BY <1>2, <1>4, <1>7, <1>9
<1>. QED  BY <1>2, <1>11, <1>12 DEF RefsAccounted

\* What neither makes nor destroys a counted object.
LEMMA OtherAccounted ==
  ASSUME AccountInv, lost' = lost,
         \/ ClientStep
         \/ \E id \in DOMAIN bos :
              \/ RefreshMetaFd(id)
              \/ \E new \in BoIds : \E f : ImportFromName(id, new, f)
              \/ \E f : BoCpuMap(id, f) \/ BoWriteMapping(id, f)
  PROVE  RefsAccounted' /\ lost' \in [Fds -> Nat]
<1> USE DEF AccountInv
<1>1. CASE ClientStep
  <2>1. reg' = reg /\ bos' = bos
    BY <1>1 DEF ClientStep, Receive, ReceiveMeta, CloseOffer
  <2>. QED  BY <2>1, Unmoved DEF Counted
<1>2. ASSUME NEW id \in DOMAIN bos, NEW new \in BoIds, NEW f,
             ImportFromName(id, new, f)
      PROVE  RefsAccounted' /\ lost' \in [Fds -> Nat]
  <2>1. reg' = reg /\ \A k : Counted(k)' = Counted(k)
    BY <1>2 DEF ImportFromName, Counted, Put
  <2>. QED  BY <2>1, Unmoved
<1>3. ASSUME NEW id \in DOMAIN bos,
             RefreshMetaFd(id) \/ \E f : BoCpuMap(id, f) \/ BoWriteMapping(id, f)
      PROVE  RefsAccounted' /\ lost' \in [Fds -> Nat]
  <2>1. /\ reg' = reg
        /\ \/ bos' = bos
           \/ \E m : bos' = [bos EXCEPT ![id].mfd = m]
           \/ \E c : bos' = [bos EXCEPT ![id].cpu = c]
           \/ bos' = [bos EXCEPT ![id].cpu = NULL, ![id].mt = NULL]
    BY <1>3 DEF RefreshMetaFd, BoCpuMap, BoWriteMapping, Segv
  <2>2. /\ DOMAIN bos' = DOMAIN bos
        /\ \A k \in DOMAIN bos : bos'[k].fd = bos[k].fd /\ bos'[k].named = bos[k].named
    BY <2>1 DEF RefsInv, TypeInv, TypeOK, MapsTo, Bo, BoFields
  <2>. QED  BY <2>1, <2>2, Unmoved DEF Counted
<1>. QED  BY <1>1, <1>2, <1>3

LEMMA NextAccounted == NamesKept /\ AccountInv /\ [FbNext]_fbvars => AccountInv'
<1> SUFFICES ASSUME NamesKept, AccountInv, [FbNext]_fbvars PROVE AccountInv'
  OBVIOUS
<1>1. RefsInv'
  BY FbStepIsBoStep, NextKeepsRefs DEF AccountInv
<1>2. RefsAccounted' /\ lost' \in [Fds -> Nat]
  <2>1. CASE UNCHANGED fbvars
    BY <2>1, Unmoved DEF fbvars, vars, Counted
  <2>2. ASSUME NEW id \in DOMAIN bos, FbBoStep(id)
        PROVE  RefsAccounted' /\ lost' \in [Fds -> Nat]
    BY <2>2, DestroyAccounted, OtherAccounted
       DEF FbBoStep, FbRefreshMetaFd, FbImportFromName, FbBoCpuMap, FbBoWriteMapping
  <2>3. CASE ClientStep /\ UNCHANGED <<lost, torn>>
    BY <2>3, OtherAccounted
  <2>. QED  BY <2>1, <2>2, <2>3, CreateAccounted, ImportAccounted DEF FbNext
<1>. QED  BY <1>1, <1>2 DEF AccountInv

LEMMA InitAccounted == FbInit => AccountInv
<1> SUFFICES ASSUME FbInit PROVE AccountInv
  OBVIOUS
<1>1. RefsInv
  BY InitRefs DEF FbInit
<1>2. \A fd \in Fds : Counted(fd) = {} /\ RefOf(reg, fd) = 0 /\ lost[fd] = 0
  BY DEF FbInit, Init, Counted, EmptyMap, RefOf, Lookup, Registered
<1>3. lost \in [Fds -> Nat]
  BY DEF FbInit
<1>4. \A fd \in Fds : Cardinality(Counted(fd)) = 0
  BY <1>2, FS_EmptySet
<1>5. RefsAccounted
  BY <1>2, <1>4 DEF RefsAccounted
<1>. QED  BY <1>1, <1>3, <1>5 DEF AccountInv

\* Whatever fails, a descriptor's count is its live objects and the references that
\* failed calls lost on it.
THEOREM FbCountsExplained == ASSUME NamesKept PROVE FbSpec => []RefsAccounted
<1>1. FbInit => AccountInv
  BY InitAccounted
<1>2. AccountInv /\ [FbNext]_fbvars => AccountInv'
  BY NextAccounted
<1>3. AccountInv => RefsAccounted
  BY DEF AccountInv
<1>. QED  BY <1>1, <1>2, <1>3, PTL DEF FbSpec

-----------------------------------------------------------------------------
(* What objects refer to, after failures.  A reference that was lost keeps *)
(* the entry of an fd when the fd is long closed, and the next buffer that *)
(* gets its number finds it.  So this is about what is claimed under an    *)
(* fd, by its live objects and by its entry together: the entry's claims   *)
(* are what its next importers get.                                        *)

Cpus(fd) == {bos[id].cpu : id \in Counted(fd)} \cup {reg[k].cpu : k \in DOMAIN reg \cap {fd}}
Mts(fd)  == {bos[id].mt : id \in Counted(fd)} \cup {reg[k].mt : k \in DOMAIN reg \cap {fd}}
Mfds(fd) == {bos[id].mfd : id \in Counted(fd)} \cup {reg[k].mfd : k \in DOMAIN reg \cap {fd}}
Claimed(fd) == Cpus(fd) \cup Mts(fd)
Used(fd) == Counted(fd) # {} \/ fd \in DOMAIN reg

\* The addresses of which nothing is said.
Gone == torn \cup {NULL}

\* Claims to a metadata fd mean something only while no reference was lost, or
\* while the entry left behind names none.
Firm(fd) == lost[fd] = 0 \/ (fd \in DOMAIN reg /\ reg[fd].mfd = NoFd)

IsMetaFd(m) == m \in DOMAIN fdt /\ \E b \in Bufs : fdt[m] = Meta(b)

\* Claimed addresses are mapped in full, each under one fd, and, where no reference
\* was lost, to the files of its buffer.
ClaimsInv ==
  /\ \A fd \in Fds : \A a \in Claimed(fd) : a \in Gone \/ Readable(maps, a)
  /\ \A fd, k \in Fds : fd # k => Claimed(fd) \cap Claimed(k) \subseteq Gone
  /\ \A fd \in Fds : lost[fd] = 0 =>
       /\ \A a \in Cpus(fd) : a \in Gone \/ maps[a].file = Data(BufOf(fd))
       /\ \A a \in Mts(fd) : a \in Gone \/ maps[a].file = Meta(BufOf(fd))

\* The same of metadata fds.  None is 0, which the code would not take for one.
HeldInv ==
  /\ \A fd \in Fds : 0 \notin Mfds(fd)
  /\ \A fd \in Fds : Firm(fd) => \A m \in Mfds(fd) \ {NoFd} : IsMetaFd(m)
  /\ \A fd, k \in Fds : fd # k /\ Firm(fd) /\ Firm(k) => Mfds(fd) \cap Mfds(k) \subseteq {NoFd}
  /\ \A fd \in Fds : lost[fd] = 0 => \A m \in Mfds(fd) \ {NoFd} : fdt[m] = Meta(BufOf(fd))

\* The client's one offer is open, and nobody's yet.
OfferInv ==
  /\ \A o \in offers :
       /\ IsDataFd(o[1])
       /\ o[2] # NoFd =>
            /\ o[2] \in DOMAIN fdt /\ fdt[o[2]] = Meta(BufOf(o[1]))
            /\ \A fd \in Fds : Firm(fd) => o[2] \notin Mfds(fd)
  /\ \A o, p \in offers : o = p

\* Descriptor 0 is not a buffer's; an entry with a metadata fd has its address;
\* objects that count are on an open fd of their buffer, the others have no address.
OpenInv ==
  /\ 0 \in DOMAIN fdt /\ fdt[0] = Stdin
  /\ \A fd \in DOMAIN reg : reg[fd].mfd # NoFd => reg[fd].mt # NULL
  /\ \A id \in DOMAIN bos :
       IF bos[id].named THEN bos[id].mt = NULL /\ bos[id].cpu = NULL
       ELSE bos[id].fd \in DOMAIN fdt /\ fdt[bos[id].fd] = Data(bos[id].buf)

FbInv == AccountInv /\ ClaimsInv /\ HeldInv /\ OfferInv /\ OpenInv /\ SegvOnlyTorn

\* The metadata mapping does not fail (mt_mmap), and descriptor 0 is taken.
FbPremise == NamesKept /\ "mt_mmap" \notin Faults /\ Inherited = {0}

\* An fd without lost references that is used has an object, and is open.
LEMMA UsedOpen ==
  ASSUME FbInv, NEW fd \in Fds, lost[fd] = 0, Used(fd)
  PROVE  Counted(fd) # {} /\ IsDataFd(fd)
<1>1. RefOf(reg, fd) = Cardinality(Counted(fd))
  <2>1. RefOf(reg, fd) \in Nat
    BY CountType DEF FbInv, AccountInv, RefsInv, TypeInv
  <2>2. Cardinality(Counted(fd)) \in Nat
    BY CountType DEF FbInv, AccountInv, RefsInv, TypeInv
  <2>. QED  BY <2>1, <2>2 DEF FbInv, AccountInv, RefsAccounted
<1>2. fd \in DOMAIN reg => RefOf(reg, fd) > 0
  BY DEF FbInv, AccountInv, RefsInv, TypeInv, PositiveRefs, RefOf, Lookup, Registered
<1>3. Counted(fd) # {}
  BY <1>1, <1>2, FS_EmptySet DEF Used
<1>4. PICK id \in Counted(fd) : TRUE
  BY <1>3
<1>5. fd \in DOMAIN fdt /\ fdt[fd] = Data(bos[id].buf) /\ bos[id].buf \in Bufs
  BY <1>4 DEF Counted, FbInv, OpenInv, AccountInv, RefsInv, TypeInv, TypeOK, MapsTo, Bo, BoFields
<1>. QED  BY <1>3, <1>5 DEF IsDataFd

\* Where references were lost, the entry is still there.
LEMMA LostRegistered ==
  ASSUME FbInv, NEW fd \in Fds, lost[fd] # 0
  PROVE  fd \in DOMAIN reg
<1>1. /\ RefOf(reg, fd) = Cardinality(Counted(fd)) + lost[fd]
      /\ Cardinality(Counted(fd)) \in Nat /\ lost[fd] \in Nat
  BY CountType DEF FbInv, AccountInv, RefsInv, TypeInv, RefsAccounted
<1>2. RefOf(reg, fd) # 0
  BY <1>1
<1>. QED  BY <1>2 DEF RefOf, Lookup, Registered

-----------------------------------------------------------------------------
(* How a step moves the claims.  Under one fd it may add claims, to an     *)
(* address or fd that is new, or to the metadata fd of the offer it takes. *)
(* Everywhere else, claims go, or what is claimed stays as it was.         *)

Intact(a) == a \in DOMAIN maps /\ a \in DOMAIN maps' /\ maps'[a] = maps[a]
Stays(x) == x \in DOMAIN fdt /\ x \in DOMAIN fdt' /\ fdt'[x] = fdt[x]

\* Address a is new and maps what is fd's.
NewAddr(fd, a, file) ==
  a \notin DOMAIN maps /\ Readable(maps', a) /\ (lost'[fd] = 0 => maps'[a].file = file)

\* Descriptor m is new and the metadata of what is on fd.
NewMeta(fd, m) ==
  /\ m \notin DOMAIN fdt /\ m \in DOMAIN fdt'
  /\ fdt'[m] = Meta(BufOf(fd)') /\ BufOf(fd)' \in Bufs

\* The offer's, which is taken.
TakesOffer(fd, m) == <<fd, m>> \in offers /\ offers' = {} /\ Stays(m) /\ Stays(fd)

MovesAddresses(fd) ==
  \A k \in Fds :
    /\ \A a \in Cpus(k)' : \/ a \in Gone'
                           \/ a \in Cpus(k) /\ Intact(a)
                           \/ k = fd /\ NewAddr(fd, a, Data(BufOf(fd)'))
    /\ \A a \in Mts(k)'  : \/ a \in Gone'
                           \/ a \in Mts(k) /\ Intact(a)
                           \/ k = fd /\ NewAddr(fd, a, Meta(BufOf(fd)'))

MovesMetaFds(fd) ==
  \A k \in Fds :
    /\ 0 \notin Mfds(k)'
    /\ Firm(k)' => /\ Firm(k)
                   /\ \A m \in Mfds(k)' \ {NoFd} :
                        \/ m \in Mfds(k) /\ Stays(m)
                        \/ k = fd /\ offers' \subseteq offers /\ NewMeta(fd, m)
                        \/ k = fd /\ TakesOffer(fd, m)

MovesOffers ==
  /\ \A o \in offers' :
       /\ IsDataFd(o[1])'
       /\ o[2] # NoFd =>
            \/ o \in offers /\ Stays(o[1]) /\ Stays(o[2])
            \/ NewMeta(o[1], o[2]) /\ reg' = reg /\ bos' = bos
  /\ \A o, p \in offers' : o = p

Moves(fd) ==
  /\ torn \subseteq torn'
  /\ \A k \in Fds : lost'[k] = 0 => lost[k] = 0
  /\ \A k \in Fds : lost'[k] = 0 /\ Used(k) /\ Used(k)' => Stays(k)
  /\ MovesAddresses(fd) /\ MovesMetaFds(fd) /\ MovesOffers

LEMMA AddressesKept ==
  ASSUME FbInv, NEW fd \in Fds, Moves(fd)
  PROVE  ClaimsInv'
<1> DEFINE Old(k, a) == a \in Claimed(k) /\ Intact(a)
           New(k, a) == k = fd /\ a \notin DOMAIN maps /\ Readable(maps', a)
<1>1. ASSUME NEW k \in Fds, NEW a \in Claimed(k)', a \notin Gone'
      PROVE  Old(k, a) \/ New(k, a)
  <2>1. a \in Cpus(k)' \/ a \in Mts(k)'
    BY <1>1 DEF Claimed
  <2>2. CASE a \in Cpus(k)'
    BY <1>1, <2>2 DEF Moves, MovesAddresses, NewAddr, Claimed
  <2>3. CASE a \in Mts(k)'
    BY <1>1, <2>3 DEF Moves, MovesAddresses, NewAddr, Claimed
  <2>. QED  BY <2>1, <2>2, <2>3
<1>2. ASSUME NEW a, a \notin Gone' PROVE a \notin Gone
  BY <1>2 DEF Moves, Gone
<1>3. ASSUME NEW k \in Fds, NEW a \in Claimed(k)', a \notin Gone'
      PROVE  Readable(maps', a)
  <2>1. CASE Old(k, a)
    BY <1>2, <1>3, <2>1 DEF FbInv, ClaimsInv, Readable, Intact
  <2>. QED  BY <1>1, <1>3, <2>1
<1>4. ASSUME NEW k \in Fds, NEW j \in Fds, k # j, NEW a \in Claimed(k)', a \in Claimed(j)',
             a \notin Gone'
      PROVE  FALSE
  <2>1. Old(k, a) \/ New(k, a)
    BY <1>1, <1>4
  <2>2. Old(j, a) \/ New(j, a)
    BY <1>1, <1>4
  <2>3. ~(Old(k, a) /\ Old(j, a))
    BY <1>2, <1>4 DEF FbInv, ClaimsInv
  <2>. QED  BY <1>4, <2>1, <2>2, <2>3 DEF Intact
<1>5. ASSUME NEW k \in Fds, lost'[k] = 0, NEW a \in Cpus(k)', a \notin Gone'
      PROVE  maps'[a].file = Data(BufOf(k)')
  <2>1. CASE a \in Cpus(k) /\ Intact(a)
    <3>1. Used(k) /\ Used(k)'
      BY <1>5, <2>1 DEF Used, Cpus
    <3>2. BufOf(k)' = BufOf(k) /\ lost[k] = 0
      BY <1>5, <3>1 DEF Moves, Stays, BufOf
    <3>. QED  BY <1>2, <1>5, <2>1, <3>2 DEF FbInv, ClaimsInv, Intact
  <2>2. CASE k = fd /\ NewAddr(fd, a, Data(BufOf(fd)'))
    BY <1>5, <2>2 DEF NewAddr
  <2>. QED  BY <1>5, <2>1, <2>2 DEF Moves, MovesAddresses
<1>6. ASSUME NEW k \in Fds, lost'[k] = 0, NEW a \in Mts(k)', a \notin Gone'
      PROVE  maps'[a].file = Meta(BufOf(k)')
  <2>1. CASE a \in Mts(k) /\ Intact(a)
    <3>1. Used(k) /\ Used(k)'
      BY <1>6, <2>1 DEF Used, Mts
    <3>2. BufOf(k)' = BufOf(k) /\ lost[k] = 0
      BY <1>6, <3>1 DEF Moves, Stays, BufOf
    <3>. QED  BY <1>2, <1>6, <2>1, <3>2 DEF FbInv, ClaimsInv, Intact
  <2>2. CASE k = fd /\ NewAddr(fd, a, Meta(BufOf(fd)'))
    BY <1>6, <2>2 DEF NewAddr
  <2>. QED  BY <1>6, <2>1, <2>2 DEF Moves, MovesAddresses
<1> HIDE DEF Old, New
<1>7. \A k \in Fds : \A a \in Claimed(k)' : a \in Gone' \/ Readable(maps', a)
  BY <1>3
<1>8. \A k, j \in Fds : k # j => Claimed(k)' \cap Claimed(j)' \subseteq Gone'
  BY <1>4
<1>9. \A k \in Fds : lost'[k] = 0 =>
        /\ \A a \in Cpus(k)' : a \in Gone' \/ maps'[a].file = Data(BufOf(k)')
        /\ \A a \in Mts(k)' : a \in Gone' \/ maps'[a].file = Meta(BufOf(k)')
  BY <1>5, <1>6
<1>. QED  BY <1>7, <1>8, <1>9 DEF ClaimsInv

LEMMA MetaFdsKept ==
  ASSUME FbInv, NEW fd \in Fds, Moves(fd)
  PROVE  HeldInv' /\ OfferInv'
<1> DEFINE Old(k, m) == Firm(k) /\ m \in Mfds(k) /\ Stays(m)
           New(k, m) == k = fd /\ offers' \subseteq offers /\ NewMeta(fd, m)
           Taken(k, m) == k = fd /\ TakesOffer(fd, m)
<1>1. ASSUME NEW k \in Fds, Firm(k)', NEW m \in Mfds(k)', m # NoFd
      PROVE  Old(k, m) \/ New(k, m) \/ Taken(k, m)
  BY <1>1 DEF Moves, MovesMetaFds
<1>2. ASSUME NEW k \in Fds, NEW m, Old(k, m), m # NoFd
      PROVE  IsMetaFd(m)'
  BY <1>2 DEF FbInv, HeldInv, IsMetaFd, Stays
<1>3. ASSUME NEW k, NEW m, New(k, m)
      PROVE  IsMetaFd(m)'
  BY <1>3 DEF NewMeta, IsMetaFd
<1>4. ASSUME NEW k, NEW m, Taken(k, m), m # NoFd
      PROVE  fdt'[m] = Meta(BufOf(k)') /\ IsMetaFd(m)' /\ \A j \in Fds : ~Old(j, m)
  <2>1. <<fd, m>>[1] = fd /\ <<fd, m>>[2] = m /\ <<fd, m>> \in offers /\ k = fd
    BY <1>4 DEF TakesOffer
  <2>2. IsDataFd(fd) /\ fdt[m] = Meta(BufOf(fd)) /\ \A j \in Fds : Firm(j) => m \notin Mfds(j)
    BY <1>4, <2>1 DEF FbInv, OfferInv
  <2>3. BufOf(fd) \in Bufs /\ BufOf(fd)' = BufOf(fd)
    BY <1>4, <2>2, DataFdIs DEF TakesOffer, Stays, BufOf
  <2>. QED  BY <1>4, <2>1, <2>2, <2>3 DEF TakesOffer, Stays, IsMetaFd
<1>5. ASSUME NEW k \in Fds, Firm(k)', NEW m \in Mfds(k)', m # NoFd
      PROVE  IsMetaFd(m)'
  BY <1>1, <1>2, <1>3, <1>4, <1>5
<1>6. ASSUME NEW k \in Fds, NEW j \in Fds, k # j, Firm(k)', Firm(j)',
             NEW m \in Mfds(k)', m \in Mfds(j)', m # NoFd
      PROVE  FALSE
  <2>1. Old(k, m) \/ New(k, m) \/ Taken(k, m)
    BY <1>1, <1>6
  <2>2. Old(j, m) \/ New(j, m) \/ Taken(j, m)
    BY <1>1, <1>6
  <2>3. ~(Old(k, m) /\ Old(j, m))
    BY <1>6 DEF FbInv, HeldInv
  <2>4. ~(New(k, m) /\ Old(j, m)) /\ ~(Old(k, m) /\ New(j, m))
    BY DEF NewMeta, Stays
  <2>5. ~(Taken(k, m) /\ Old(j, m)) /\ ~(Old(k, m) /\ Taken(j, m))
    <3> HIDE DEF Old, Taken
    <3>. QED  BY <1>4, <1>6
  <2>6. ~(k = fd /\ j = fd)
    BY <1>6
  <2>. QED  BY <2>1, <2>2, <2>3, <2>4, <2>5, <2>6
<1>7. ASSUME NEW k \in Fds, lost'[k] = 0, NEW m \in Mfds(k)', m # NoFd
      PROVE  fdt'[m] = Meta(BufOf(k)')
  <2>1. Firm(k)'
    BY <1>7 DEF Firm
  <2>2. CASE Old(k, m)
    <3>1. Used(k) /\ Used(k)'
      BY <1>7, <2>2 DEF Used, Mfds
    <3>2. BufOf(k)' = BufOf(k) /\ lost[k] = 0
      BY <1>7, <3>1 DEF Moves, Stays, BufOf
    <3>. QED  BY <1>7, <2>2, <3>2 DEF FbInv, HeldInv, Stays
  <2>3. CASE New(k, m)
    BY <2>3 DEF NewMeta
  <2>4. CASE Taken(k, m)
    <3> HIDE DEF Taken
    <3>. QED  BY <1>4, <1>7, <2>4
  <2> HIDE DEF Old, New, Taken
  <2>. QED  BY <1>1, <1>7, <2>1, <2>2, <2>3, <2>4
<1>8. ASSUME NEW o \in offers', o[2] # NoFd
      PROVE  /\ o[2] \in DOMAIN fdt' /\ fdt'[o[2]] = Meta(BufOf(o[1])')
             /\ \A k \in Fds : Firm(k)' => o[2] \notin Mfds(k)'
  <2>1. CASE o \in offers /\ Stays(o[1]) /\ Stays(o[2])
    <3>1. /\ fdt[o[2]] = Meta(BufOf(o[1]))
          /\ \A k \in Fds : Firm(k) => o[2] \notin Mfds(k)
      BY <1>8, <2>1 DEF FbInv, OfferInv
    <3>2. BufOf(o[1])' = BufOf(o[1])
      <4>1. PICK x : x = o[1]
        OBVIOUS
      <4>2. BufOf(x)' = BufOf(x)
        BY <2>1, <4>1 DEF Stays, BufOf
      <4>. QED  BY <4>1, <4>2
    <3>3. ASSUME NEW k \in Fds, Firm(k)', o[2] \in Mfds(k)' PROVE FALSE
      <4>1. Old(k, o[2]) \/ New(k, o[2]) \/ Taken(k, o[2])
        BY <1>1, <1>8, <3>3
      <4>2. ~Old(k, o[2])
        BY <3>1
      <4>3. ~New(k, o[2])
        BY <2>1 DEF NewMeta, Stays
      <4>4. ~Taken(k, o[2])
        BY <1>8 DEF TakesOffer
      <4>. QED  BY <4>1, <4>2, <4>3, <4>4
    <3>. QED  BY <2>1, <3>1, <3>2, <3>3 DEF Stays
  <2>2. CASE NewMeta(o[1], o[2]) /\ reg' = reg /\ bos' = bos
    <3>1. ASSUME NEW k \in Fds, Firm(k)', o[2] \in Mfds(k)' PROVE FALSE
      <4>1. Mfds(k)' = Mfds(k) /\ Firm(k)
        BY <2>2, <3>1 DEF Mfds, Counted, Moves, MovesMetaFds
      <4>2. IsMetaFd(o[2])
        BY <1>8, <3>1, <4>1 DEF FbInv, HeldInv
      <4>. QED  BY <2>2, <4>2 DEF NewMeta, IsMetaFd
    <3>. QED  BY <2>2, <3>1 DEF NewMeta
  <2>. QED  BY <1>8, <2>1, <2>2 DEF Moves, MovesOffers
<1> HIDE DEF Old, New, Taken
<1>9. HeldInv'
  <2>1. \A k \in Fds : 0 \notin Mfds(k)'
    BY DEF Moves, MovesMetaFds
  <2>2. \A k \in Fds : Firm(k)' => \A m \in Mfds(k)' \ {NoFd} : IsMetaFd(m)'
    BY <1>5
  <2>3. \A k, j \in Fds : k # j /\ Firm(k)' /\ Firm(j)' => Mfds(k)' \cap Mfds(j)' \subseteq {NoFd}
    BY <1>6
  <2>4. \A k \in Fds : lost'[k] = 0 => \A m \in Mfds(k)' \ {NoFd} : fdt'[m] = Meta(BufOf(k)')
    BY <1>7
  <2>. QED  BY <2>1, <2>2, <2>3, <2>4 DEF HeldInv
<1>10. OfferInv'
  <2>1. \A o \in offers' : IsDataFd(o[1])'
    BY DEF Moves, MovesOffers
  <2>2. \A o, p \in offers' : o = p
    BY DEF Moves, MovesOffers
  <2>. QED  BY <1>8, <2>1, <2>2 DEF OfferInv
<1>. QED  BY <1>9, <1>10

\* A call that takes nothing away moves claims if those it adds under fd do.
LEMMA GrowthMoves ==
  ASSUME FbInv, NEW fd \in Fds, torn' = torn, offers' \subseteq offers,
         \A x \in DOMAIN fdt : Stays(x),
         \A a \in DOMAIN maps : Intact(a),
         \A k \in Fds : lost'[k] = 0 => lost[k] = 0,
         \A k \in Fds \ {fd} : /\ Cpus(k)' \subseteq Cpus(k)
                               /\ Mts(k)' \subseteq Mts(k)
                               /\ Mfds(k)' \subseteq Mfds(k)
                               /\ Firm(k)' => Firm(k),
         \A a \in Cpus(fd)' : a \in Cpus(fd) \cup {NULL} \/ NewAddr(fd, a, Data(BufOf(fd)')),
         \A a \in Mts(fd)' : a \in Mts(fd) \cup {NULL} \/ NewAddr(fd, a, Meta(BufOf(fd)')),
         0 \notin Mfds(fd)',
         Firm(fd)' => /\ Firm(fd)
                      /\ \A m \in Mfds(fd)' \ {NoFd} :
                           m \in Mfds(fd) \/ NewMeta(fd, m) \/ TakesOffer(fd, m)
  PROVE  Moves(fd)
<1>1. \A k \in Fds : lost'[k] = 0 /\ Used(k) /\ Used(k)' => Stays(k)
  BY UsedOpen DEF IsDataFd
<1>2. \A k \in Fds : \A a \in Claimed(k) : a \in Gone' \/ Intact(a)
  BY DEF FbInv, ClaimsInv, Readable, Gone
<1>3. MovesAddresses(fd)
  <2>1. ASSUME NEW k \in Fds, NEW a \in Cpus(k)'
        PROVE  \/ a \in Gone'
               \/ a \in Cpus(k) /\ Intact(a)
               \/ k = fd /\ NewAddr(fd, a, Data(BufOf(fd)'))
    BY <1>2, <2>1 DEF Claimed, Gone
  <2>2. ASSUME NEW k \in Fds, NEW a \in Mts(k)'
        PROVE  \/ a \in Gone'
               \/ a \in Mts(k) /\ Intact(a)
               \/ k = fd /\ NewAddr(fd, a, Meta(BufOf(fd)'))
    BY <1>2, <2>2 DEF Claimed, Gone
  <2>. QED  BY <2>1, <2>2 DEF MovesAddresses
<1>4. MovesMetaFds(fd)
  <2>1. \A k \in Fds : Firm(k) => \A m \in Mfds(k) \ {NoFd} : Stays(m)
    BY DEF FbInv, HeldInv, IsMetaFd
  <2>2. \A k \in Fds : 0 \notin Mfds(k)'
    BY DEF FbInv, HeldInv
  <2>. QED  BY <2>1, <2>2 DEF MovesMetaFds
<1>5. MovesOffers
  <2>1. ASSUME NEW o \in offers'
        PROVE  IsDataFd(o[1])' /\ Stays(o[1]) /\ (o[2] # NoFd => Stays(o[2]))
    BY <2>1 DEF FbInv, OfferInv, IsDataFd, Stays
  <2>. QED  BY <2>1 DEF MovesOffers, FbInv, OfferInv
<1>. QED  BY <1>1, <1>3, <1>4, <1>5 DEF Moves

\* The reference an import counts, and whether it is lost.
LEMMA Counts ==
  ASSUME FbInv, NEW fd \in Fds, NEW failed \in BOOLEAN, Account(fd, failed), ~segv'
  PROVE  /\ torn' = torn
         /\ \A k \in Fds : lost'[k] = 0 => lost[k] = 0
         /\ \A k \in Fds \ {fd} : lost'[k] = lost[k]
         /\ failed => lost'[fd] # 0
BY DEF Account, FbInv, AccountInv

\* The claims after the common tail of an import: other fds have theirs, fd also
\* those of its entry and, if there is one, of the new object.
LEMMA ImportClaims ==
  ASSUME FbInv, NEW fd \in Fds, NEW mfd, NEW given, NEW registry, NEW cpu, NEW mt,
         NEW len, NEW f, ImportTail(fd, mfd, given, registry, cpu, mt, len, f),
         Prepared(registry, fd), \A k \in DOMAIN reg \ {fd} : registry[k] = reg[k]
  PROVE  /\ \A k \in Fds \ {fd} :
              Cpus(k)' = Cpus(k) /\ Mts(k)' = Mts(k) /\ Mfds(k)' = Mfds(k)
         /\ DOMAIN reg' = DOMAIN registry
         /\ \A k \in DOMAIN reg \ {fd} : reg'[k] = reg[k]
         /\ reg'[fd].mfd = registry[fd].mfd /\ reg'[fd].mt = registry[fd].mt
         /\ Cpus(fd)' \subseteq Cpus(fd) \cup {registry[fd].cpu, cpu}
         /\ Mts(fd)' \subseteq Mts(fd) \cup {registry[fd].mt, mt}
         /\ Mfds(fd)' \subseteq Mfds(fd) \cup {registry[fd].mfd, mfd}
         /\ f = "calloc" => Mfds(fd)' \subseteq Mfds(fd) \cup {registry[fd].mfd}
         /\ offers' = IF f = "calloc" THEN offers ELSE offers \ {<<fd, given>>}
         /\ \A id \in DOMAIN bos' :
              \/ id \in DOMAIN bos /\ bos'[id] = bos[id]
              \/ ~bos'[id].named /\ bos'[id].fd = fd /\ bos'[id].buf = fdt[fd][1]
<1> DEFINE bo == [fd |-> fd, mfd |-> mfd, handle |-> HandleOf(fdt[fd], f),
                  mhandle |-> HandleOf(FileOf(given), f), cpu |-> cpu, mt |-> mt,
                  size |-> len, named |-> FALSE, buf |-> fdt[fd][1]]
<1>1. PICK id \in BoIds \ DOMAIN bos :
        /\ reg' = IncRef(registry, fd)
        /\ bos' = IF f = "calloc" THEN bos ELSE Put(bos, id, bo)
        /\ offers' = IF f = "calloc" THEN offers ELSE offers \ {<<fd, given>>}
  BY DEF ImportTail
<1>2. /\ bo.fd = fd /\ bo.mfd = mfd /\ bo.cpu = cpu /\ bo.mt = mt /\ ~bo.named
      /\ bo.buf = fdt[fd][1]
  OBVIOUS
<1> HIDE DEF bo
<1>3. /\ fd \in DOMAIN registry
      /\ registry[fd] \in Entry
      /\ \A k \in DOMAIN reg : k \in DOMAIN registry
      /\ \A k \in DOMAIN registry : k = fd \/ k \in DOMAIN reg
  BY DEF Prepared, MapsTo
<1>4. /\ DOMAIN reg' = DOMAIN registry
      /\ \A k \in DOMAIN reg \ {fd} : reg'[k] = reg[k]
      /\ reg'[fd].mfd = registry[fd].mfd /\ reg'[fd].mt = registry[fd].mt
      /\ reg'[fd].cpu = registry[fd].cpu
  BY <1>1, <1>3 DEF IncRef, Registered, Entry
<1>5. \A j \in DOMAIN bos : j \in DOMAIN bos' /\ bos'[j] = bos[j]
  BY <1>1 DEF Put
<1>6. \A j \in DOMAIN bos' :
        \/ j \in DOMAIN bos /\ bos'[j] = bos[j]
        \/ f # "calloc" /\ bos'[j] = bo
  BY <1>1 DEF Put
<1>7. \A k \in Fds \ {fd} : Counted(k)' = Counted(k)
  BY <1>2, <1>5, <1>6 DEF Counted
<1>8. ASSUME NEW k \in Fds \ {fd}
      PROVE  Cpus(k)' = Cpus(k) /\ Mts(k)' = Mts(k) /\ Mfds(k)' = Mfds(k)
  <2>1. \A j \in Counted(k) : bos'[j] = bos[j]
    BY <1>5 DEF Counted
  <2>2. DOMAIN reg' \cap {k} = DOMAIN reg \cap {k}
    BY <1>3, <1>4
  <2>3. \A j \in DOMAIN reg \cap {k} : reg'[j] = reg[j]
    BY <1>4
  <2>. QED  BY <1>7, <2>1, <2>2, <2>3 DEF Cpus, Mts, Mfds
<1>9. \A j \in Counted(fd)' :
        \/ j \in Counted(fd) /\ bos'[j] = bos[j]
        \/ f # "calloc" /\ bos'[j] = bo
  BY <1>6 DEF Counted
<1>10. DOMAIN reg' \cap {fd} = {fd}
  BY <1>3, <1>4
<1>11. Cpus(fd)' \subseteq Cpus(fd) \cup {registry[fd].cpu, cpu}
  BY <1>2, <1>4, <1>9, <1>10 DEF Cpus
<1>12. Mts(fd)' \subseteq Mts(fd) \cup {registry[fd].mt, mt}
  BY <1>2, <1>4, <1>9, <1>10 DEF Mts
<1>13. /\ Mfds(fd)' \subseteq Mfds(fd) \cup {registry[fd].mfd, mfd}
       /\ f = "calloc" => Mfds(fd)' \subseteq Mfds(fd) \cup {registry[fd].mfd}
  BY <1>2, <1>4, <1>9, <1>10 DEF Mfds
<1>14. \A j \in DOMAIN bos' :
         \/ j \in DOMAIN bos /\ bos'[j] = bos[j]
         \/ ~bos'[j].named /\ bos'[j].fd = fd /\ bos'[j].buf = fdt[fd][1]
  BY <1>2, <1>6
<1>. QED  BY <1>1, <1>4, <1>8, <1>11, <1>12, <1>13, <1>14

\* What the caller of search_map holds is claimed under fd, or nothing.
LEMMA FoundClaimed ==
  \A fd : /\ Lookup(reg, fd).cpu \in Cpus(fd) \cup {NULL}
          /\ Lookup(reg, fd).mt \in Mts(fd) \cup {NULL}
          /\ Lookup(reg, fd).mfd \in Mfds(fd) \cup {NoFd}
          /\ fd \notin DOMAIN reg => Lookup(reg, fd).mfd = NoFd
          /\ fd \in DOMAIN reg => Lookup(reg, fd) = reg[fd]
BY DEF Lookup, Registered, Cpus, Mts, Mfds

\* A metadata fd offered for fd is claimed under it, or open and the buffer's.
LEMMA OfferedMeta ==
  ASSUME FbInv, NEW fd \in Fds, NEW mfd, Offered(fd, mfd), mfd # NoFd
  PROVE  /\ mfd # 0
         /\ mfd \in Mfds(fd) \/ <<fd, mfd>> \in offers
         /\ Firm(fd) => IsMetaFd(mfd)
         /\ lost[fd] = 0 => fdt[mfd] = Meta(BufOf(fd))
<1>1. mfd \in Mfds(fd) \/ <<fd, mfd>> \in offers
  BY DEF Offered, Mfds
<1>2. CASE mfd \in Mfds(fd)
  BY <1>2 DEF FbInv, HeldInv
<1>3. CASE <<fd, mfd>> \in offers
  <2>1. <<fd, mfd>>[1] = fd /\ <<fd, mfd>>[2] = mfd
    OBVIOUS
  <2>2. /\ IsDataFd(fd)
        /\ mfd \in DOMAIN fdt /\ fdt[mfd] = Meta(BufOf(fd))
    BY <1>3, <2>1 DEF FbInv, OfferInv
  <2>3. BufOf(fd) \in Bufs /\ mfd # 0
    BY <2>2, DataFdIs, FileNames DEF FbInv, OpenInv
  <2>. QED  BY <1>1, <2>2, <2>3 DEF IsMetaFd
<1>. QED  BY <1>1, <1>2, <1>3

\* What the actions are shown to keep, with the counts (NextAccounted).
Rest == ClaimsInv /\ HeldInv /\ OfferInv /\ OpenInv

\* An import that reaches its end keeps it, if it gives object and entry what it
\* found, or new mappings of the buffer's files, or the metadata fd it was passed.
LEMMA ImportKeeps ==
  ASSUME FbInv, NEW fd \in Fds, IsDataFd(fd), NEW mfd, NEW given,
         NEW registry, NEW cpu, NEW mt, NEW len, NEW f,
         ImportTail(fd, mfd, given, registry, cpu, mt, len, f),
         Prepared(registry, fd), \A k \in DOMAIN reg \ {fd} : registry[k] = reg[k],
         Account(fd, f = "calloc"), ~segv', fdt' = fdt, \A a \in DOMAIN maps : Intact(a),
         NEW e, e = Lookup(reg, fd),
         registry[fd].cpu \in {e.cpu, cpu}, registry[fd].mt \in {e.mt, mt},
         registry[fd].mfd \in {e.mfd, mfd},
         registry[fd].mfd = NoFd => e.mfd = NoFd,
         registry[fd].mfd # NoFd => registry[fd].mt # NULL,
         cpu = e.cpu \/ NewAddr(fd, cpu, Data(BufOf(fd))),
         mt = e.mt \/ NewAddr(fd, mt, Meta(BufOf(fd))),
         mfd = e.mfd \/ (mfd = given /\ Offered(fd, mfd))
  PROVE  Rest'
<1>1. /\ \A k \in Fds \ {fd} :
           Cpus(k)' = Cpus(k) /\ Mts(k)' = Mts(k) /\ Mfds(k)' = Mfds(k)
      /\ DOMAIN reg' = DOMAIN registry
      /\ \A k \in DOMAIN reg \ {fd} : reg'[k] = reg[k]
      /\ reg'[fd].mfd = registry[fd].mfd /\ reg'[fd].mt = registry[fd].mt
      /\ Cpus(fd)' \subseteq Cpus(fd) \cup {registry[fd].cpu, cpu}
      /\ Mts(fd)' \subseteq Mts(fd) \cup {registry[fd].mt, mt}
      /\ Mfds(fd)' \subseteq Mfds(fd) \cup {registry[fd].mfd, mfd}
      /\ f = "calloc" => Mfds(fd)' \subseteq Mfds(fd) \cup {registry[fd].mfd}
      /\ offers' = IF f = "calloc" THEN offers ELSE offers \ {<<fd, given>>}
      /\ \A id \in DOMAIN bos' :
           \/ id \in DOMAIN bos /\ bos'[id] = bos[id]
           \/ ~bos'[id].named /\ bos'[id].fd = fd /\ bos'[id].buf = fdt[fd][1]
  BY ImportClaims
<1>2. \A k : k \in DOMAIN registry <=> k \in DOMAIN reg \/ k = fd
  BY DEF Prepared
<1>3. /\ torn' = torn
      /\ \A k \in Fds : lost'[k] = 0 => lost[k] = 0
      /\ \A k \in Fds \ {fd} : lost'[k] = lost[k]
      /\ f = "calloc" => lost'[fd] # 0
  BY Counts
<1>4. BufOf(fd)' = BufOf(fd) /\ fdt[fd] = Data(BufOf(fd)) /\ fd \in DOMAIN fdt
  BY DataFdIs DEF BufOf
<1>5. /\ e.cpu \in Cpus(fd) \cup {NULL}
      /\ e.mt \in Mts(fd) \cup {NULL}
      /\ e.mfd \in Mfds(fd) \cup {NoFd}
      /\ fd \in DOMAIN reg => e = reg[fd]
  BY FoundClaimed
<1>6. \A x \in DOMAIN fdt : Stays(x)
  BY DEF Stays
<1>7. \A k \in Fds \ {fd} : Firm(k)' => Firm(k)
  BY <1>1, <1>2, <1>3 DEF Firm
<1>8. \A a \in Cpus(fd)' : a \in Cpus(fd) \cup {NULL} \/ NewAddr(fd, a, Data(BufOf(fd)'))
  BY <1>1, <1>4, <1>5
<1>9. \A a \in Mts(fd)' : a \in Mts(fd) \cup {NULL} \/ NewAddr(fd, a, Meta(BufOf(fd)'))
  BY <1>1, <1>4, <1>5
<1>10. mfd \in Mfds(fd) \cup {NoFd} \/ (mfd = given /\ mfd # 0 /\ <<fd, mfd>> \in offers)
  BY <1>5, OfferedMeta
<1>11. 0 \notin Mfds(fd)'
  BY <1>1, <1>5, <1>10 DEF FbInv, HeldInv, NoFd
<1>12. Firm(fd)' => Firm(fd)
  <2>1. CASE lost[fd] = 0
    BY <2>1 DEF Firm
  <2>2. CASE lost[fd] # 0
    BY <1>1, <1>3, <1>5, <2>2, LostRegistered DEF Firm
  <2>. QED  BY <2>1, <2>2
<1>13. ASSUME Firm(fd)', NEW m \in Mfds(fd)' \ {NoFd}
       PROVE  m \in Mfds(fd) \/ TakesOffer(fd, m)
  <2>1. CASE f = "calloc"
    <3>1. registry[fd].mfd = NoFd
      BY <1>1, <1>3, <1>13, <2>1 DEF Firm
    <3>. QED  BY <1>1, <1>13, <2>1, <3>1
  <2>2. CASE f # "calloc"
    <3>1. m \in Mfds(fd) \/ m = mfd
      BY <1>1, <1>5, <1>13
    <3>2. CASE m = mfd /\ mfd = given /\ <<fd, mfd>> \in offers
      <4>1. offers' = {}
        BY <1>1, <2>2, <3>2 DEF FbInv, OfferInv
      <4>2. Stays(m)
        <5>1. <<fd, m>>[2] = m
          OBVIOUS
        <5>. QED  BY <1>6, <1>13, <3>2, <5>1 DEF FbInv, OfferInv
      <4>. QED  BY <1>4, <1>6, <3>2, <4>1, <4>2 DEF TakesOffer
    <3>. QED  BY <1>10, <1>13, <3>1, <3>2
  <2>. QED  BY <2>1, <2>2
<1>14. offers' \subseteq offers
  BY <1>1
<1>15. Moves(fd)
  BY <1>1, <1>3, <1>6, <1>7, <1>8, <1>9, <1>11, <1>12, <1>13, <1>14, GrowthMoves
<1>16. OpenInv'
  <2>1. 0 \in DOMAIN fdt' /\ fdt'[0] = Stdin
    BY DEF FbInv, OpenInv
  <2>2. \A k \in DOMAIN reg' : reg'[k].mfd # NoFd => reg'[k].mt # NULL
    BY <1>1, <1>2 DEF FbInv, OpenInv
  <2>3. \A id \in DOMAIN bos' :
          IF bos'[id].named THEN bos'[id].mt = NULL /\ bos'[id].cpu = NULL
          ELSE bos'[id].fd \in DOMAIN fdt' /\ fdt'[bos'[id].fd] = Data(bos'[id].buf)
    BY <1>1, <1>4 DEF FbInv, OpenInv, BufOf
  <2>. QED  BY <2>1, <2>2, <2>3 DEF OpenInv
<1>. QED  BY <1>15, <1>16, AddressesKept, MetaFdsKept DEF Rest

\* A crash on a metadata address is on one that a write took down.
LEMMA SegvKeeps ==
  ASSUME FbInv, Segv, lost' = lost, torn' = torn, NEW fd \in Fds, NEW a \in Mts(fd),
         a # NULL, ~Readable(maps, a)
  PROVE  Rest' /\ SegvOnlyTorn'
<1>1. torn # {}
  BY DEF FbInv, ClaimsInv, Claimed, Gone
<1>2. UNCHANGED <<fdt, maps, reg, bos, offers, lost, torn>>
  BY DEF Segv
<1>3. \A k : /\ Cpus(k)' = Cpus(k) /\ Mts(k)' = Mts(k) /\ Mfds(k)' = Mfds(k)
             /\ Firm(k)' = Firm(k) /\ BufOf(k)' = BufOf(k)
             /\ IsMetaFd(k)' = IsMetaFd(k) /\ IsDataFd(k)' = IsDataFd(k)
  BY <1>2 DEF Cpus, Mts, Mfds, Counted, Firm, BufOf, IsMetaFd, IsDataFd
<1>4. ClaimsInv'
  BY <1>2, <1>3 DEF FbInv, ClaimsInv, Claimed, Gone
<1>5. HeldInv'
  BY <1>2, <1>3 DEF FbInv, HeldInv
<1>6. OfferInv'
  <2>1. \A o \in offers : IsDataFd(o[1])' = IsDataFd(o[1]) /\ BufOf(o[1])' = BufOf(o[1])
    BY <1>2 DEF IsDataFd, BufOf
  <2>. QED  BY <1>2, <1>3, <2>1 DEF FbInv, OfferInv
<1>7. OpenInv'
  BY <1>2 DEF FbInv, OpenInv
<1>. QED  BY <1>1, <1>2, <1>4, <1>5, <1>6, <1>7 DEF Rest, SegvOnlyTorn

\* The addresses import_gbm_buf and import_wl_buffer settle on are what is registered
\* or new mappings of the buffer's files; a new metadata fd gets its address.
LEMMA NewMappings ==
  ASSUME FbPremise, FbInv, NEW fd \in Fds, IsDataFd(fd), NEW mfd \in FdOrNone,
         Offered(fd, mfd), NEW f \in Outcomes, NEW a \in NextAddr({}), NEW c \in NextAddr({a}),
         NEW e, e = Lookup(reg, fd), NEW mt, mt = MetaAddr(e, mfd, a, f),
         NEW m, m = MapMeta(e, mfd, mt), NEW cpu, cpu = DataAddr(e, m, mt, c, f),
         NEW len, maps' = MapData(e, m, fd, cpu, len), lost'[fd] = 0 => lost[fd] = 0
  PROVE  /\ \A x \in DOMAIN maps : Intact(x)
         /\ cpu = e.cpu \/ NewAddr(fd, cpu, Data(BufOf(fd)))
         /\ mt = e.mt \/ NewAddr(fd, mt, Meta(BufOf(fd)))
         /\ e.mt # NULL => mt = e.mt
         /\ e.mfd = NoFd /\ mfd # NoFd => mt # NULL
<1>1. a \notin DOMAIN maps /\ c \notin DOMAIN maps /\ a # c /\ a # NULL
  BY DEF NextAddr, Addrs, NULL
<1>2. /\ mt # e.mt => mt = a /\ mfd > 0 /\ mfd \in DOMAIN fdt
      /\ e.mt # NULL => mt = e.mt
  BY DEF MetaAddr
<1>3. cpu # e.cpu => cpu = c
  BY DEF DataAddr
<1>4. m = IF mt = e.mt THEN maps ELSE Put(maps, a, Mapping(fdt[mfd], MetaLen))
  BY <1>2 DEF MapMeta
<1>5. maps' = IF cpu = e.cpu THEN m ELSE Put(m, c, Mapping(fdt[fd], len))
  BY <1>3 DEF MapData
<1>6. /\ \A x \in DOMAIN maps : x \in DOMAIN m /\ m[x] = maps[x]
      /\ c \notin DOMAIN m
      /\ mt # e.mt => a \in DOMAIN m /\ m[a] = Mapping(fdt[mfd], MetaLen)
  BY <1>1, <1>4 DEF Put
<1>7. /\ \A x \in DOMAIN m : x \in DOMAIN maps' /\ maps'[x] = m[x]
      /\ cpu # e.cpu => c \in DOMAIN maps' /\ maps'[c] = Mapping(fdt[fd], len)
  BY <1>5, <1>6 DEF Put
<1>8. \A x \in DOMAIN maps : Intact(x)
  BY <1>6, <1>7 DEF Intact
<1>9. ASSUME cpu # e.cpu PROVE NewAddr(fd, cpu, Data(BufOf(fd)))
  <2>1. fdt[fd] = Data(BufOf(fd))
    BY DataFdIs
  <2>2. maps'[c].file = fdt[fd] /\ maps'[c].whole
    BY <1>7, <1>9 DEF Mapping
  <2>. QED  BY <1>1, <1>3, <1>7, <1>9, <2>1, <2>2 DEF NewAddr, Readable
<1>10. ASSUME mt # e.mt PROVE NewAddr(fd, mt, Meta(BufOf(fd)))
  <2>1. mt = a /\ mfd # NoFd
    BY <1>2, <1>10 DEF NoFd
  <2>2. lost[fd] = 0 => fdt[mfd] = Meta(BufOf(fd))
    BY <2>1, OfferedMeta
  <2>3. a \in DOMAIN maps' /\ maps'[a] = Mapping(fdt[mfd], MetaLen)
    BY <1>6, <1>7, <1>10
  <2>4. maps'[a].file = fdt[mfd] /\ maps'[a].whole
    BY <2>3 DEF Mapping
  <2>. QED  BY <1>1, <2>1, <2>2, <2>3, <2>4 DEF NewAddr, Readable
<1>11. ASSUME e.mfd = NoFd, mfd # NoFd PROVE mt # NULL
  <2>1. Firm(fd)
    BY <1>11, FoundClaimed, LostRegistered DEF Firm
  <2>2. mfd > 0 /\ mfd \in DOMAIN fdt
    <3>1. mfd # 0 /\ mfd \in DOMAIN fdt
      BY <1>11, <2>1, OfferedMeta DEF IsMetaFd
    <3>2. mfd \in Nat
      BY <1>11, BoAssumption DEF FdOrNone, Fds
    <3>. QED  BY <3>1, <3>2
  <2>3. f # "mt_mmap"
    BY DEF FbPremise, Outcomes
  <2>4. CASE e.mt = NULL
    BY <1>1, <2>2, <2>3, <2>4 DEF MetaAddr
  <2>. QED  BY <1>2, <2>4
<1>. QED  BY <1>2, <1>8, <1>9, <1>10, <1>11

\* What an entry holds once it is registered, or registered and overwritten.
LEMMA EntryMade ==
  ASSUME NEW fd, NEW mfd, NEW cpu, NEW mt, NEW r, r = Register(reg, fd, mfd, cpu, mt)
  PROVE  /\ \A k \in DOMAIN reg \ {fd} : r[k] = reg[k] /\ Update(r, fd, mfd, cpu, mt)[k] = reg[k]
         /\ fd \in DOMAIN reg => r = reg
         /\ fd \notin DOMAIN reg => r[fd].mfd = mfd /\ r[fd].cpu = cpu /\ r[fd].mt = mt
         /\ LET u == Update(r, fd, mfd, cpu, mt)[fd]
            IN  u.mfd = mfd /\ u.cpu = cpu /\ u.mt = mt
BY DEF Register, Update, Registered, Put

\* A step that leaves the process alive says nothing new about crashes.
LEMMA NoCrash == ASSUME FbInv, ~segv' PROVE SegvOnlyTorn'
BY DEF SegvOnlyTorn

LEMMA ImportFdKeeps ==
  ASSUME FbPremise, FbInv, ~segv, NEW fd \in Fds, NEW f \in Outcomes, FbImportFd(fd, f)
  PROVE  Rest' /\ SegvOnlyTorn'
<1> PICK e : e = Lookup(reg, fd)
  OBVIOUS
<1> PICK registry : registry = Register(reg, fd, NoFd, NULL, NULL)
  OBVIOUS
<1>1. ImportFd(fd, f) /\ Account(fd, f = "calloc") /\ IsDataFd(fd)
  BY DEF FbImportFd, ImportFd, OfferedFd
<1>2. /\ e.mt \in Mts(fd) \cup {NULL}
      /\ e.mfd # NoFd => e.mt # NULL
      /\ e.mfd # NoFd => fd \in DOMAIN reg
      /\ fd \in DOMAIN reg => e = reg[fd]
      /\ fd \notin DOMAIN reg => e.mfd = NoFd /\ e.cpu = NULL /\ e.mt = NULL
  BY FoundClaimed DEF FbInv, OpenInv, Lookup, Registered
<1>3. CASE e.mfd # NoFd /\ ~Readable(maps, e.mt)
  <2>1. Segv
    BY <1>1, <1>3 DEF ImportFd
  <2>2. lost' = lost /\ torn' = torn
    BY <1>1, <2>1 DEF Account, Segv, FbInv, AccountInv
  <2>. QED  BY <1>2, <1>3, <2>1, <2>2, SegvKeeps
<1>4. CASE ~(e.mfd # NoFd /\ ~Readable(maps, e.mt))
  <2>1. PICK len : /\ ImportTail(fd, e.mfd, NoFd, registry, e.cpu, e.mt, len, f)
                   /\ UNCHANGED <<fdt, maps, segv>>
    BY <1>1, <1>4 DEF ImportFd
  <2>2. Prepared(registry, fd)
    BY PreparedRegister DEF FbInv, AccountInv, RefsInv, TypeInv, FdOrNone, AddrOrNull
  <2>3. /\ \A k \in DOMAIN reg \ {fd} : registry[k] = reg[k]
        /\ registry[fd].cpu = e.cpu /\ registry[fd].mt = e.mt /\ registry[fd].mfd = e.mfd
    BY <1>2, EntryMade
  <2>4. \A a \in DOMAIN maps : Intact(a)
    BY <2>1 DEF Intact
  <2>. QED  BY <1>1, <1>2, <2>1, <2>2, <2>3, <2>4, ImportKeeps, NoCrash
<1>. QED  BY <1>3, <1>4

LEMMA ImportGbmBufKeeps ==
  ASSUME FbPremise, FbInv, ~segv, NEW fd \in Fds, NEW mfd \in FdOrNone, NEW f \in Outcomes,
         FbImportGbmBuf(fd, mfd, f)
  PROVE  Rest' /\ SegvOnlyTorn'
<1> PICK e : e = Lookup(reg, fd)
  OBVIOUS
<1>1. ImportGbmBuf(fd, mfd, f) /\ Account(fd, f = "calloc") /\ Offered(fd, mfd) /\ IsDataFd(fd)
  BY DEF FbImportGbmBuf, ImportGbmBuf, Offered
<1>2. /\ e.mt \in Mts(fd) \cup {NULL}
      /\ e.mfd # NoFd => e.mt # NULL
      /\ fd \in DOMAIN reg => e = reg[fd]
      /\ fd \notin DOMAIN reg => e.mfd = NoFd
      /\ e.mfd \in FdOrNone
  BY FoundClaimed, EntryFound
     DEF FbInv, OpenInv, Lookup, Registered, AccountInv, RefsInv, TypeInv
<1>3. CASE e.mt # NULL /\ ~Readable(maps, e.mt)
  <2>1. Segv
    BY <1>1, <1>3 DEF ImportGbmBuf
  <2>2. lost' = lost /\ torn' = torn
    BY <1>1, <2>1 DEF Account, Segv, FbInv, AccountInv
  <2>. QED  BY <1>2, <1>3, <2>1, <2>2, SegvKeeps
<1>4. CASE ~(e.mt # NULL /\ ~Readable(maps, e.mt))
  <2>1. PICK a \in NextAddr({}) : \E c \in NextAddr({a}) :
          LET mt == MetaAddr(e, mfd, a, f)
              m == MapMeta(e, mfd, mt)
              len == UbwcLen(m, mt)
              cpu == DataAddr(e, m, mt, c, f)
              registry == IF Registered(reg, fd) /\ e.mfd >= 0 THEN reg
                          ELSE Update(Register(reg, fd, mfd, cpu, mt), fd, mfd, cpu, mt)
          IN /\ ImportTail(fd, mfd, mfd, registry, cpu, mt, len, f)
             /\ maps' = MapData(e, m, fd, cpu, len)
             /\ UNCHANGED <<fdt, segv>>
    BY <1>1, <1>4 DEF ImportGbmBuf
  <2>2. PICK c \in NextAddr({a}) :
          LET mt == MetaAddr(e, mfd, a, f)
              m == MapMeta(e, mfd, mt)
              len == UbwcLen(m, mt)
              cpu == DataAddr(e, m, mt, c, f)
              registry == IF Registered(reg, fd) /\ e.mfd >= 0 THEN reg
                          ELSE Update(Register(reg, fd, mfd, cpu, mt), fd, mfd, cpu, mt)
          IN /\ ImportTail(fd, mfd, mfd, registry, cpu, mt, len, f)
             /\ maps' = MapData(e, m, fd, cpu, len)
             /\ UNCHANGED <<fdt, segv>>
    BY <2>1
  <2> PICK mt : mt = MetaAddr(e, mfd, a, f)
    OBVIOUS
  <2> PICK m : m = MapMeta(e, mfd, mt)
    OBVIOUS
  <2> PICK len : len = UbwcLen(m, mt)
    OBVIOUS
  <2> PICK cpu : cpu = DataAddr(e, m, mt, c, f)
    OBVIOUS
  <2> PICK r : r = Register(reg, fd, mfd, cpu, mt)
    OBVIOUS
  <2> PICK registry : registry = IF Registered(reg, fd) /\ e.mfd >= 0 THEN reg
                                 ELSE Update(r, fd, mfd, cpu, mt)
    OBVIOUS
  <2>3. /\ ImportTail(fd, mfd, mfd, registry, cpu, mt, len, f)
        /\ maps' = MapData(e, m, fd, cpu, len)
        /\ fdt' = fdt /\ segv' = segv
    BY <2>2
  <2>4. lost'[fd] = 0 => lost[fd] = 0
    BY <1>1, <2>3, Counts
  <2>5. /\ \A x \in DOMAIN maps : Intact(x)
        /\ cpu = e.cpu \/ NewAddr(fd, cpu, Data(BufOf(fd)))
        /\ mt = e.mt \/ NewAddr(fd, mt, Meta(BufOf(fd)))
        /\ e.mt # NULL => mt = e.mt
        /\ e.mfd = NoFd /\ mfd # NoFd => mt # NULL
    BY <1>1, <2>3, <2>4, NewMappings
  <2>6. mt \in AddrOrNull /\ cpu \in AddrOrNull
    <3>1. TypeInv /\ a \in Addrs /\ c \in Addrs
      BY NextType DEF FbInv, AccountInv, RefsInv
    <3>2. mt \in AddrOrNull
      BY <3>1, MetaTypes
    <3>3. e.cpu \in AddrOrNull
      BY <3>1, EntryFound DEF TypeInv
    <3>. QED  BY <3>1, <3>2, <3>3 DEF DataAddr, AddrOrNull
  <2>7. Prepared(registry, fd)
    BY <2>6, PreparedUpdate, PreparedAsIs DEF FbInv, AccountInv, RefsInv, TypeInv
  <2>8. /\ \A k \in DOMAIN reg \ {fd} : registry[k] = reg[k]
        /\ \/ registry[fd].cpu = e.cpu /\ registry[fd].mt = e.mt /\ registry[fd].mfd = e.mfd
           \/ /\ registry[fd].cpu = cpu /\ registry[fd].mt = mt /\ registry[fd].mfd = mfd
              /\ e.mfd = NoFd
    <3>1. CASE Registered(reg, fd) /\ e.mfd >= 0
      BY <1>2, <3>1 DEF Registered
    <3>2. CASE ~(Registered(reg, fd) /\ e.mfd >= 0)
      <4>1. e.mfd = NoFd
        BY <1>2, <3>2 DEF Registered, FdOrNone, Fds, NoFd
      <4>. QED  BY <3>2, <4>1, EntryMade
    <3>. QED  BY <3>1, <3>2
  <2>. QED  BY <1>1, <1>2, <2>3, <2>5, <2>7, <2>8, ImportKeeps, NoCrash
<1>. QED  BY <1>3, <1>4

LEMMA ImportWlBufferKeeps ==
  ASSUME FbPremise, FbInv, ~segv, NEW fd \in Fds, NEW mfd \in FdOrNone, NEW f \in Outcomes,
         FbImportWlBuffer(fd, mfd, f)
  PROVE  Rest' /\ SegvOnlyTorn'
<1> PICK e : e = Lookup(reg, fd)
  OBVIOUS
<1>1. ImportWlBuffer(fd, mfd, f) /\ Account(fd, f = "calloc") /\ Offered(fd, mfd) /\ IsDataFd(fd)
  BY DEF FbImportWlBuffer, ImportWlBuffer, Offered
<1>2. /\ e.mt \in Mts(fd) \cup {NULL}
      /\ e.mfd # NoFd => e.mt # NULL
      /\ fd \in DOMAIN reg => e = reg[fd]
      /\ fd \notin DOMAIN reg => e.mfd = NoFd
      /\ e.mfd \in FdOrNone
  BY FoundClaimed, EntryFound
     DEF FbInv, OpenInv, Lookup, Registered, AccountInv, RefsInv, TypeInv
<1>3. CASE e.cpu = NULL /\ e.mt # NULL /\ ~Readable(maps, e.mt)
  <2>1. Segv
    BY <1>1, <1>3 DEF ImportWlBuffer
  <2>2. lost' = lost /\ torn' = torn
    BY <1>1, <2>1 DEF Account, Segv, FbInv, AccountInv
  <2>. QED  BY <1>2, <1>3, <2>1, <2>2, SegvKeeps
<1>4. CASE ~(e.cpu = NULL /\ e.mt # NULL /\ ~Readable(maps, e.mt))
  <2>1. PICK a \in NextAddr({}) : \E c \in NextAddr({a}) :
          LET mt == MetaAddr(e, mfd, a, f)
              m == MapMeta(e, mfd, mt)
              cpu == DataAddr(e, m, mt, c, f)
              registry == IF mfd > 0 /\ mfd # e.mfd
                          THEN Update(Register(reg, fd, mfd, cpu, mt), fd, mfd, cpu, mt)
                          ELSE Register(reg, fd, mfd, cpu, mt)
          IN /\ ImportTail(fd, mfd, mfd, registry, cpu, mt, LinearLen, f)
             /\ maps' = MapData(e, m, fd, cpu, LinearLen)
             /\ UNCHANGED <<fdt, segv>>
    BY <1>1, <1>4 DEF ImportWlBuffer
  <2>2. PICK c \in NextAddr({a}) :
          LET mt == MetaAddr(e, mfd, a, f)
              m == MapMeta(e, mfd, mt)
              cpu == DataAddr(e, m, mt, c, f)
              registry == IF mfd > 0 /\ mfd # e.mfd
                          THEN Update(Register(reg, fd, mfd, cpu, mt), fd, mfd, cpu, mt)
                          ELSE Register(reg, fd, mfd, cpu, mt)
          IN /\ ImportTail(fd, mfd, mfd, registry, cpu, mt, LinearLen, f)
             /\ maps' = MapData(e, m, fd, cpu, LinearLen)
             /\ UNCHANGED <<fdt, segv>>
    BY <2>1
  <2> PICK mt : mt = MetaAddr(e, mfd, a, f)
    OBVIOUS
  <2> PICK m : m = MapMeta(e, mfd, mt)
    OBVIOUS
  <2> PICK cpu : cpu = DataAddr(e, m, mt, c, f)
    OBVIOUS
  <2> PICK r : r = Register(reg, fd, mfd, cpu, mt)
    OBVIOUS
  <2> PICK registry : registry = IF mfd > 0 /\ mfd # e.mfd THEN Update(r, fd, mfd, cpu, mt)
                                 ELSE r
    OBVIOUS
  <2>3. /\ ImportTail(fd, mfd, mfd, registry, cpu, mt, LinearLen, f)
        /\ maps' = MapData(e, m, fd, cpu, LinearLen)
        /\ fdt' = fdt /\ segv' = segv
    BY <2>2
  <2>4. lost'[fd] = 0 => lost[fd] = 0
    BY <1>1, <2>3, Counts
  <2>5. /\ \A x \in DOMAIN maps : Intact(x)
        /\ cpu = e.cpu \/ NewAddr(fd, cpu, Data(BufOf(fd)))
        /\ mt = e.mt \/ NewAddr(fd, mt, Meta(BufOf(fd)))
        /\ e.mt # NULL => mt = e.mt
        /\ e.mfd = NoFd /\ mfd # NoFd => mt # NULL
    BY <1>1, <2>3, <2>4, NewMappings
  <2>6. mt \in AddrOrNull /\ cpu \in AddrOrNull
    <3>1. TypeInv /\ a \in Addrs /\ c \in Addrs
      BY NextType DEF FbInv, AccountInv, RefsInv
    <3>2. mt \in AddrOrNull
      BY <3>1, MetaTypes
    <3>3. e.cpu \in AddrOrNull
      BY <3>1, EntryFound DEF TypeInv
    <3>. QED  BY <3>1, <3>2, <3>3 DEF DataAddr, AddrOrNull
  <2>7. Prepared(registry, fd)
    BY <2>6, PreparedUpdate, PreparedRegister DEF FbInv, AccountInv, RefsInv, TypeInv
  <2>8. /\ \A k \in DOMAIN reg \ {fd} : registry[k] = reg[k]
        /\ \/ registry[fd].cpu = e.cpu /\ registry[fd].mt = e.mt /\ registry[fd].mfd = e.mfd
           \/ /\ registry[fd].cpu = cpu /\ registry[fd].mt = mt /\ registry[fd].mfd = mfd
              /\ mfd # NoFd \/ e.mfd = NoFd
    <3>1. CASE mfd > 0 /\ mfd # e.mfd
      BY <3>1, EntryMade DEF NoFd
    <3>2. CASE ~(mfd > 0 /\ mfd # e.mfd)
      BY <1>2, <3>2, EntryMade
    <3>. QED  BY <3>1, <3>2
  <2>. QED  BY <1>1, <1>2, <2>3, <2>5, <2>7, <2>8, ImportKeeps, NoCrash
<1>. QED  BY <1>3, <1>4

\* The import that fails on its format counts, and at most registers, nothing.
LEMMA ImportFdBadFormatKeeps ==
  ASSUME FbInv, ~segv, NEW fd \in Fds, FbImportFdBadFormat(fd)
  PROVE  Rest' /\ SegvOnlyTorn'
<1> PICK registry : registry = Register(reg, fd, NoFd, NULL, NULL)
  OBVIOUS
<1>1. /\ OfferedFd(fd) /\ reg' = IncRef(registry, fd) /\ Account(fd, TRUE)
      /\ UNCHANGED <<fdt, maps, gem, bos, offers, segv>>
  BY DEF FbImportFdBadFormat, ImportFdBadFormat
<1>2. Prepared(registry, fd)
  BY PreparedRegister DEF FbInv, AccountInv, RefsInv, TypeInv, FdOrNone, AddrOrNull
<1>3. /\ \A k \in DOMAIN reg \ {fd} : registry[k] = reg[k]
      /\ fd \in DOMAIN reg => registry = reg
      /\ fd \notin DOMAIN reg => registry[fd].mfd = NoFd /\ registry[fd].cpu = NULL /\ registry[fd].mt = NULL
  BY EntryMade
<1>4. /\ fd \in DOMAIN registry
      /\ registry[fd] \in Entry
      /\ \A k : k \in DOMAIN registry <=> k = fd \/ k \in DOMAIN reg
  BY <1>2 DEF Prepared, MapsTo
<1>5. /\ DOMAIN reg' = DOMAIN registry
      /\ \A k \in DOMAIN reg \ {fd} : reg'[k] = reg[k]
      /\ reg'[fd].mfd = registry[fd].mfd /\ reg'[fd].mt = registry[fd].mt
      /\ reg'[fd].cpu = registry[fd].cpu
  BY <1>1, <1>3, <1>4 DEF IncRef, Registered, Entry
<1>6. \A k : Counted(k)' = Counted(k)
  BY <1>1 DEF Counted
<1>7. ASSUME NEW k \in Fds \ {fd}
      PROVE  Cpus(k)' = Cpus(k) /\ Mts(k)' = Mts(k) /\ Mfds(k)' = Mfds(k)
  <2>1. DOMAIN reg' \cap {k} = DOMAIN reg \cap {k}
    BY <1>4, <1>5
  <2>2. \A j \in DOMAIN reg \cap {k} : reg'[j] = reg[j]
    BY <1>5
  <2>. QED  BY <1>1, <1>6, <2>1, <2>2 DEF Cpus, Mts, Mfds
<1>8. /\ Cpus(fd)' \subseteq Cpus(fd) \cup {NULL}
      /\ Mts(fd)' \subseteq Mts(fd) \cup {NULL}
      /\ Mfds(fd)' \subseteq Mfds(fd) \cup {NoFd}
  BY <1>1, <1>3, <1>5, <1>6 DEF Cpus, Mts, Mfds
<1>9. /\ torn' = torn
      /\ \A k \in Fds : lost'[k] = 0 => lost[k] = 0
      /\ \A k \in Fds \ {fd} : lost'[k] = lost[k]
      /\ lost'[fd] # 0
  BY <1>1, Counts
<1>10. \A k \in Fds : Firm(k)' => Firm(k)
  <2>1. \A k \in Fds \ {fd} : Firm(k)' => Firm(k)
    BY <1>4, <1>5, <1>9 DEF Firm
  <2>2. Firm(fd)' => Firm(fd)
    BY <1>3, <1>5, <1>9, LostRegistered DEF Firm
  <2>. QED  BY <2>1, <2>2
<1>11. (\A x \in DOMAIN fdt : Stays(x)) /\ (\A a \in DOMAIN maps : Intact(a))
  BY <1>1 DEF Stays, Intact
<1>12. 0 \notin Mfds(fd)'
  BY <1>8 DEF FbInv, HeldInv, NoFd
<1>13. Moves(fd)
  BY <1>1, <1>7, <1>8, <1>9, <1>10, <1>11, <1>12, GrowthMoves
<1>14. OpenInv'
  BY <1>1, <1>3, <1>4, <1>5 DEF FbInv, OpenInv
<1>. QED  BY <1>1, <1>13, <1>14, AddressesKept, MetaFdsKept, NoCrash DEF Rest

\* A create, wherever it stops, works on descriptors and addresses that are new; the
\* entry a lost reference left under the number it gets stays as it is.
LEMMA CreateKeeps ==
  ASSUME FbInv, AccountInv', ~segv, NEW b \in Local, NEW f \in Outcomes, FbBoCreate(b, f)
  PROVE  Rest' /\ SegvOnlyTorn'
<1>1. PICK d \in Fds, m \in Fds, mt \in Addrs, c \in Addrs, id \in BoIds \ DOMAIN bos :
        /\ CreateWith(b, f, d, m, mt, c, id)
        /\ d \in NextFd({}) /\ m \in NextFd({d}) /\ mt \in NextAddr({}) /\ c \in NextAddr({mt})
  BY NextType DEF FbBoCreate, BoCreate
<1> PICK cpu : cpu = IF b \in Secure THEN NULL ELSE c
  OBVIOUS
<1> PICK bo : bo = [fd |-> d, mfd |-> m, handle |-> HandleOf(Data(b), f),
                    mhandle |-> HandleOf(Meta(b), f), cpu |-> cpu, mt |-> mt,
                    size |-> SizeOf(b), named |-> FALSE, buf |-> b]
  OBVIOUS
<1> PICK registry : registry = Register(reg, d, m, cpu, mt)
  OBVIOUS
<1> PICK step : step = CreateReaches(b, d, f)
  OBVIOUS
<1> PICK fdt1 : fdt1 = Put(fdt, d, Data(b))
  OBVIOUS
<1> PICK maps1 : maps1 = IF cpu = NULL THEN maps ELSE Put(maps, cpu, Mapping(Data(b), SizeOf(b)))
  OBVIOUS
<1>2. /\ fdt' = IF step < 4 THEN fdt1 ELSE Put(fdt1, m, Meta(b))
      /\ maps' = IF step < 2 THEN maps
                 ELSE IF step < 5 THEN maps1
                 ELSE Put(maps1, mt, Mapping(Meta(b), MetaLen))
      /\ reg' = IF step < 5 THEN reg ELSE IncRef(registry, d)
      /\ bos' = IF step < 6 THEN bos ELSE Put(bos, id, bo)
      /\ offers' = offers /\ segv' = segv
  BY <1>1 DEF CreateWith
<1>3. step \in 1 .. 6
  BY ReachesType
<1>4. /\ d \in Fds /\ m \in Fds /\ d \notin DOMAIN fdt /\ m \notin DOMAIN fdt /\ m # d
      /\ mt \in Addrs /\ c \in Addrs /\ mt \notin DOMAIN maps /\ c \notin DOMAIN maps /\ c # mt
      /\ mt # NULL /\ c # NULL /\ b \in Bufs
  BY <1>1 DEF NextFd, NextAddr, Addrs, NULL, Bufs
<1>5. /\ \A x \in DOMAIN fdt : Stays(x)
      /\ d \in DOMAIN fdt' /\ fdt'[d] = Data(b)
      /\ step > 3 => m \in DOMAIN fdt' /\ fdt'[m] = Meta(b)
  <2>1. /\ \A x \in DOMAIN fdt : x \in DOMAIN fdt1 /\ fdt1[x] = fdt[x]
        /\ d \in DOMAIN fdt1 /\ fdt1[d] = Data(b)
    BY <1>4 DEF Put
  <2>2. CASE step < 4
    BY <1>2, <1>3, <2>1, <2>2 DEF Stays
  <2>3. CASE ~(step < 4)
    <3>1. fdt' = Put(fdt1, m, Meta(b))
      BY <1>2, <2>3
    <3>. QED  BY <1>4, <2>1, <3>1 DEF Put, Stays
  <2>. QED  BY <2>2, <2>3, <1>3
<1>6. /\ \A a \in DOMAIN maps : Intact(a)
      /\ step > 4 => /\ mt \in DOMAIN maps' /\ maps'[mt] = Mapping(Meta(b), MetaLen)
                     /\ cpu # NULL => /\ cpu \in DOMAIN maps' /\ cpu \notin DOMAIN maps
                                      /\ maps'[cpu] = Mapping(Data(b), SizeOf(b))
  <2>1. /\ \A a \in DOMAIN maps : a \in DOMAIN maps1 /\ maps1[a] = maps[a]
        /\ cpu # NULL => /\ cpu \in DOMAIN maps1 /\ maps1[cpu] = Mapping(Data(b), SizeOf(b))
                         /\ cpu \notin DOMAIN maps /\ cpu # mt
    BY <1>4 DEF Put
  <2>2. CASE step < 5
    BY <1>2, <1>3, <2>1, <2>2 DEF Intact
  <2>3. CASE ~(step < 5)
    <3>1. maps' = Put(maps1, mt, Mapping(Meta(b), MetaLen))
      BY <1>2, <1>3, <2>3
    <3>. QED  BY <1>4, <2>1, <3>1 DEF Put, Intact
  <2>. QED  BY <2>2, <2>3, <1>3
<1>7. /\ torn' = torn
      /\ \A k \in Fds : lost'[k] = 0 => lost[k] = 0
  <2>1. CASE reg' = reg
    BY <2>1 DEF FbBoCreate
  <2>2. CASE reg' # reg
    <3>1. PICK k \in DOMAIN reg' : Account(k, f = "calloc")
      BY <2>2 DEF FbBoCreate
    <3>2. k \in Fds
      BY <3>1 DEF AccountInv, RefsInv, TypeInv, TypeOK, MapsTo
    <3>. QED  BY <1>2, <3>1, <3>2, Counts
  <2>. QED  BY <2>1, <2>2
<1>8. BufOf(d)' = b
  BY <1>5, FileNames DEF BufOf
<1>9. step > 4 =>
        /\ NewAddr(d, mt, Meta(BufOf(d)'))
        /\ cpu # NULL => NewAddr(d, cpu, Data(BufOf(d)'))
        /\ NewMeta(d, m)
  <2> SUFFICES ASSUME step > 4
               PROVE  /\ NewAddr(d, mt, Meta(BufOf(d)'))
                      /\ cpu # NULL => NewAddr(d, cpu, Data(BufOf(d)'))
                      /\ NewMeta(d, m)
    OBVIOUS
  <2>1. NewAddr(d, mt, Meta(BufOf(d)'))
    BY <1>4, <1>6, <1>8 DEF NewAddr, Readable, Mapping
  <2>2. cpu # NULL => NewAddr(d, cpu, Data(BufOf(d)'))
    BY <1>6, <1>8 DEF NewAddr, Readable, Mapping
  <2>3. NewMeta(d, m)
    BY <1>3, <1>4, <1>5, <1>8 DEF NewMeta
  <2>. QED  BY <2>1, <2>2, <2>3
<1>10. /\ d \in DOMAIN reg' => d \in DOMAIN reg \/ step > 4
       /\ \A k \in DOMAIN reg : k \in DOMAIN reg' /\ reg'[k].mfd = reg[k].mfd
                                /\ reg'[k].mt = reg[k].mt /\ reg'[k].cpu = reg[k].cpu
       /\ \A k \in DOMAIN reg' : k \in DOMAIN reg \/ k = d
       /\ d \in DOMAIN reg' /\ d \notin DOMAIN reg =>
            reg'[d].mfd = m /\ reg'[d].mt = mt /\ reg'[d].cpu = cpu
  <2>1. CASE step < 5
    BY <1>2, <2>1
  <2>2. CASE ~(step < 5)
    <3>1. reg' = IncRef(registry, d)
      BY <1>2, <2>2
    <3>2. Prepared(registry, d)
      BY <1>4, PreparedRegister DEF FbInv, AccountInv, RefsInv, TypeInv, FdOrNone, AddrOrNull
    <3>3. /\ \A k \in DOMAIN registry : registry[k] \in Entry
          /\ d \in DOMAIN registry
          /\ \A k : k \in DOMAIN registry <=> k \in DOMAIN reg \/ k = d
      BY <3>2 DEF Prepared, MapsTo
    <3>4. /\ DOMAIN reg' = DOMAIN registry
          /\ \A k \in DOMAIN registry : /\ reg'[k].mfd = registry[k].mfd
                                        /\ reg'[k].mt = registry[k].mt
                                        /\ reg'[k].cpu = registry[k].cpu
      BY <3>1, <3>3 DEF IncRef, Registered, Entry
    <3>5. /\ \A k \in DOMAIN reg \ {d} : registry[k] = reg[k]
          /\ d \in DOMAIN reg => registry = reg
          /\ d \notin DOMAIN reg => registry[d].mfd = m /\ registry[d].cpu = cpu /\ registry[d].mt = mt
      BY EntryMade
    <3>. QED  BY <1>3, <2>2, <3>3, <3>4, <3>5
  <2>. QED  BY <2>1, <2>2
<1>11. /\ bo.fd = d /\ bo.mfd = m /\ bo.cpu = cpu /\ bo.mt = mt /\ bo.named = FALSE /\ bo.buf = b
  OBVIOUS
<1>12. \A j \in DOMAIN bos' :
         \/ j \in DOMAIN bos /\ bos'[j] = bos[j]
         \/ step > 4 /\ bos'[j] = bo
  BY <1>2, <1>3 DEF Put
<1>13. ASSUME NEW k \in Fds
       PROVE  \A j \in Counted(k)' :
                \/ j \in Counted(k) /\ bos'[j] = bos[j]
                \/ k = d /\ step > 4 /\ bos'[j] = bo
  BY <1>11, <1>12 DEF Counted
<1>14. ASSUME NEW k \in Fds
       PROVE  \A j \in DOMAIN reg' \cap {k} :
                \/ /\ j \in DOMAIN reg \cap {k} /\ reg'[j].mfd = reg[j].mfd
                   /\ reg'[j].mt = reg[j].mt /\ reg'[j].cpu = reg[j].cpu
                \/ k = d /\ step > 4 /\ reg'[j].mfd = m /\ reg'[j].mt = mt /\ reg'[j].cpu = cpu
  BY <1>10
<1>15. ASSUME NEW k \in Fds
       PROVE  /\ \A a \in Cpus(k)' : a \in Cpus(k) \/ (k = d /\ step > 4 /\ a = cpu)
              /\ \A a \in Mts(k)' : a \in Mts(k) \/ (k = d /\ step > 4 /\ a = mt)
              /\ \A x \in Mfds(k)' : x \in Mfds(k) \/ (k = d /\ step > 4 /\ x = m)
  <2>1. \A a \in Cpus(k)' : a \in Cpus(k) \/ (k = d /\ step > 4 /\ a = cpu)
    BY <1>11, <1>13, <1>14 DEF Cpus
  <2>2. \A a \in Mts(k)' : a \in Mts(k) \/ (k = d /\ step > 4 /\ a = mt)
    BY <1>11, <1>13, <1>14 DEF Mts
  <2>3. \A x \in Mfds(k)' : x \in Mfds(k) \/ (k = d /\ step > 4 /\ x = m)
    BY <1>11, <1>13, <1>14 DEF Mfds
  <2>. QED  BY <2>1, <2>2, <2>3
<1>16. \A k \in Fds : Firm(k)' => Firm(k)
  BY <1>7, <1>10, LostRegistered DEF Firm
<1>17. m # 0
  BY <1>4 DEF FbInv, OpenInv
<1>18. 0 \notin Mfds(d)'
  BY <1>4, <1>15, <1>17 DEF FbInv, HeldInv
<1>19. Moves(d)
  <2>1. \A a \in Cpus(d)' : a \in Cpus(d) \cup {NULL} \/ NewAddr(d, a, Data(BufOf(d)'))
    BY <1>4, <1>9, <1>15
  <2>2. \A a \in Mts(d)' : a \in Mts(d) \cup {NULL} \/ NewAddr(d, a, Meta(BufOf(d)'))
    BY <1>4, <1>9, <1>15
  <2>3. \A x \in Mfds(d)' : x \in Mfds(d) \/ NewMeta(d, x)
    BY <1>4, <1>9, <1>15
  <2>. QED  BY <1>2, <1>4, <1>5, <1>6, <1>7, <1>15, <1>16, <1>18, <2>1, <2>2, <2>3, GrowthMoves
<1>20. OpenInv'
  <2>1. 0 \in DOMAIN fdt' /\ fdt'[0] = Stdin
    BY <1>5 DEF FbInv, OpenInv, Stays
  <2>2. \A k \in DOMAIN reg' : reg'[k].mfd # NoFd => reg'[k].mt # NULL
    BY <1>4, <1>10 DEF FbInv, OpenInv
  <2>3. \A j \in DOMAIN bos' :
          IF bos'[j].named THEN bos'[j].mt = NULL /\ bos'[j].cpu = NULL
          ELSE bos'[j].fd \in DOMAIN fdt' /\ fdt'[bos'[j].fd] = Data(bos'[j].buf)
    BY <1>5, <1>11, <1>12 DEF FbInv, OpenInv, Stays
  <2>. QED  BY <2>1, <2>2, <2>3 DEF OpenInv
<1>. QED  BY <1>2, <1>4, <1>19, <1>20, AddressesKept, MetaFdsKept, NoCrash DEF Rest

\* A call that adds no claim moves them if what is still claimed is still there.
LEMMA LeavingMoves ==
  ASSUME FbInv, lost' = lost, torn \subseteq torn',
         \A k \in Fds : /\ Cpus(k)' \subseteq Cpus(k) \cup {NULL}
                        /\ Mts(k)' \subseteq Mts(k) \cup {NULL}
                        /\ Mfds(k)' \subseteq Mfds(k)
                        /\ Firm(k)' => Firm(k),
         \A k \in Fds : \A a \in Claimed(k)' : a \in Gone' \/ Intact(a),
         \A k \in Fds : Firm(k)' => \A m \in Mfds(k)' \ {NoFd} : Stays(m),
         \A k \in Fds : lost[k] = 0 /\ Used(k) /\ Used(k)' => Stays(k),
         MovesOffers
  PROVE  ClaimsInv' /\ HeldInv' /\ OfferInv'
<1>1. 0 \in Fds
  BY BoAssumption DEF Fds
<1>2. MovesAddresses(0)
  <2>1. \A k \in Fds : \A a \in Cpus(k)' : a \in Gone' \/ (a \in Cpus(k) /\ Intact(a))
    BY DEF Claimed, Gone
  <2>2. \A k \in Fds : \A a \in Mts(k)' : a \in Gone' \/ (a \in Mts(k) /\ Intact(a))
    BY DEF Claimed, Gone
  <2>. QED  BY <2>1, <2>2 DEF MovesAddresses
<1>3. MovesMetaFds(0)
  BY DEF MovesMetaFds, FbInv, HeldInv
<1>4. Moves(0)
  BY <1>2, <1>3 DEF Moves
<1>. QED  BY <1>1, <1>4, AddressesKept, MetaFdsKept

\* munmap touches one mapping.
LEMMA MunmapOthers ==
  \A mm, x, len, a : a \in DOMAIN mm /\ a # x =>
    a \in DOMAIN Munmap(mm, x, len) /\ Munmap(mm, x, len)[a] = mm[a]
BY DEF Munmap, Drop

\* What is claimed and not gone is mapped; what is firmly held is open.
LEMMA ClaimsThere ==
  ASSUME FbInv
  PROVE  /\ \A k \in Fds : \A a \in Claimed(k) : a \in Gone \/ a \in DOMAIN maps
         /\ \A k \in Fds : Firm(k) => \A m \in Mfds(k) \ {NoFd} : m \in DOMAIN fdt /\ ~IsDataFd(m)
         /\ \A o \in offers : /\ IsDataFd(o[1])
                              /\ o[2] # NoFd => o[2] \in DOMAIN fdt /\ ~IsDataFd(o[2])
<1>1. \A m : IsMetaFd(m) => m \in DOMAIN fdt /\ ~IsDataFd(m)
  BY FileNames DEF IsMetaFd, IsDataFd
<1>2. \A k \in Fds : Firm(k) => \A m \in Mfds(k) \ {NoFd} : m \in DOMAIN fdt /\ ~IsDataFd(m)
  BY <1>1 DEF FbInv, HeldInv
<1>3. ASSUME NEW o \in offers
      PROVE  IsDataFd(o[1]) /\ (o[2] # NoFd => o[2] \in DOMAIN fdt /\ ~IsDataFd(o[2]))
  BY <1>3, FileNames DEF FbInv, OfferInv, IsDataFd
<1>. QED  BY <1>2, <1>3 DEF FbInv, ClaimsInv, Readable

\* The destroy that closes is of the last object, and no reference was lost.
LEMMA LastIsAlone ==
  ASSUME FbInv, NEW fd \in Fds, NEW id \in Counted(fd), LastRef(reg, fd)
  PROVE  Counted(fd) = {id} /\ lost[fd] = 0 /\ fd \in DOMAIN reg
<1>1. /\ RefOf(reg, fd) = Cardinality(Counted(fd)) + lost[fd]
      /\ IsFiniteSet(Counted(fd)) /\ Cardinality(Counted(fd)) \in Nat /\ lost[fd] \in Nat
  BY CountType DEF FbInv, AccountInv, RefsInv, TypeInv, RefsAccounted
<1>2. Cardinality(Counted(fd)) # 0
  BY <1>1, FS_EmptySet
<1>3. fd \in DOMAIN reg
  BY <1>1, <1>2 DEF RefOf, Lookup, Registered
<1>4. RefOf(reg, fd) = 1
  BY <1>3 DEF LastRef, RefOf, Lookup, Registered
<1>5. Cardinality(Counted(fd)) = 1 /\ lost[fd] = 0
  BY <1>1, <1>2, <1>4
<1>6. PICK x : Counted(fd) = {x}
  BY <1>1, <1>5, FS_Singleton
<1>. QED  BY <1>3, <1>5, <1>6

\* Destroying an object takes its claims away, and the last one nothing that is
\* claimed under another fd or offered.
LEMMA DestroyKeeps ==
  ASSUME FbPremise, FbInv, ~segv, NEW id \in DOMAIN bos, FbBoDestroy(id)
  PROVE  Rest' /\ SegvOnlyTorn'
<1> PICK bo : bo = bos[id]
  OBVIOUS
<1> PICK fd \in Fds : fd = bo.fd
  BY DEF FbInv, AccountInv, RefsInv, TypeInv, TypeOK, MapsTo, Bo, BoFields
<1> PICK last \in BOOLEAN : last = LastRef(reg, fd)
  BY DEF LastRef
<1>1. /\ reg' = DecRef(reg, fd)
      /\ maps' = IF last THEN UnmapBoth(maps, bo) ELSE maps
      /\ fdt' = IF last THEN Drop(fdt, {fd, bo.mfd}) ELSE fdt
      /\ bos' = Drop(bos, {id})
      /\ offers' = offers /\ segv' = segv /\ lost' = lost /\ torn' = torn
      /\ MayDestroy(id)
  BY DEF FbBoDestroy, BoDestroy
<1>2. ~bo.named /\ id \in Counted(fd)
  BY <1>1 DEF MayDestroy, FbPremise, NamesKept, FbInv, AccountInv, RefsInv, Counted
<1>3. /\ \A k \in DOMAIN reg' : /\ k \in DOMAIN reg /\ reg'[k].mfd = reg[k].mfd
                                /\ reg'[k].mt = reg[k].mt /\ reg'[k].cpu = reg[k].cpu
      /\ last => fd \notin DOMAIN reg'
  <2>1. \A k \in DOMAIN reg : reg[k] \in Entry
    BY DEF FbInv, AccountInv, RefsInv, TypeInv, TypeOK, MapsTo
  <2>. QED  BY <1>1, <2>1 DEF DecRef, Registered, Drop, Entry
<1>4. \A j \in DOMAIN bos' : j \in DOMAIN bos /\ j # id /\ bos'[j] = bos[j]
  BY <1>1 DEF Drop
<1>5. \A k \in Fds : \A j \in Counted(k)' : j \in Counted(k) /\ j # id /\ bos'[j] = bos[j]
  BY <1>4 DEF Counted
<1>6. ASSUME NEW k \in Fds
      PROVE  /\ Cpus(k)' \subseteq Cpus(k) /\ Mts(k)' \subseteq Mts(k) /\ Mfds(k)' \subseteq Mfds(k)
             /\ Firm(k)' => Firm(k)
             /\ Used(k)' => Used(k)
  <2>1. Cpus(k)' \subseteq Cpus(k)
    BY <1>3, <1>5 DEF Cpus
  <2>2. Mts(k)' \subseteq Mts(k)
    BY <1>3, <1>5 DEF Mts
  <2>3. Mfds(k)' \subseteq Mfds(k)
    BY <1>3, <1>5 DEF Mfds
  <2>4. Firm(k)' => Firm(k)
    BY <1>1, <1>3 DEF Firm
  <2>5. Used(k)' => Used(k)
    BY <1>3, <1>5 DEF Used
  <2>. QED  BY <2>1, <2>2, <2>3, <2>4, <2>5
<1>7. /\ bo.cpu \in Claimed(fd) /\ bo.mt \in Claimed(fd) /\ bo.mfd \in Mfds(fd)
      /\ IsDataFd(fd)
  <2>1. fd \in DOMAIN fdt /\ fdt[fd] = Data(bo.buf) /\ bo.buf \in Bufs
    BY <1>2 DEF FbInv, OpenInv, AccountInv, RefsInv, TypeInv, TypeOK, MapsTo, Bo, BoFields
  <2>. QED  BY <1>2, <2>1 DEF Claimed, Cpus, Mts, Mfds, IsDataFd
<1>8. CASE ~last
  <2>1. fdt' = fdt /\ maps' = maps
    BY <1>1, <1>8
  <2>2. (\A x \in DOMAIN fdt : Stays(x)) /\ (\A a \in DOMAIN maps : Intact(a))
    BY <2>1 DEF Stays, Intact
  <2>3. \A k \in Fds : \A a \in Claimed(k)' : a \in Gone' \/ Intact(a)
    BY <1>1, <1>6, <2>2, ClaimsThere DEF Claimed, Gone
  <2>4. \A k \in Fds : Firm(k)' => \A m \in Mfds(k)' \ {NoFd} : Stays(m)
    BY <1>6, <2>2, ClaimsThere
  <2>5. \A k \in Fds : lost[k] = 0 /\ Used(k) /\ Used(k)' => Stays(k)
    BY <2>2, UsedOpen DEF IsDataFd
  <2>6. MovesOffers
    <3>1. \A o \in offers : IsDataFd(o[1])' /\ Stays(o[1]) /\ (o[2] # NoFd => Stays(o[2]))
      BY <2>1, <2>2, ClaimsThere DEF IsDataFd
    <3>. QED  BY <1>1, <3>1 DEF MovesOffers, FbInv, OfferInv
  <2>7. ClaimsInv' /\ HeldInv' /\ OfferInv'
    BY <1>1, <1>6, <2>3, <2>4, <2>5, <2>6, LeavingMoves
  <2>8. OpenInv'
    BY <1>3, <1>4, <2>1 DEF FbInv, OpenInv
  <2>. QED  BY <1>1, <2>7, <2>8, NoCrash DEF Rest
<1>9. CASE last
  <2>1. Counted(fd) = {id} /\ lost[fd] = 0 /\ Firm(fd)
    BY <1>2, <1>9, LastIsAlone DEF Firm
  <2>2. \A x \in DOMAIN fdt \ {fd, bo.mfd} : Stays(x)
    BY <1>1, <1>9 DEF Drop, Stays
  <2>3. \A a \in DOMAIN maps \ {bo.cpu, bo.mt} : Intact(a)
    BY <1>1, <1>9, MunmapOthers DEF UnmapBoth, Intact
  <2>4. Counted(fd)' = {} /\ ~Used(fd)'
    BY <1>3, <1>5, <1>9, <2>1 DEF Used
  <2>5. Claimed(fd)' = {} /\ Mfds(fd)' = {}
    BY <1>3, <1>9, <2>4 DEF Claimed, Cpus, Mts, Mfds
  <2>6. ASSUME NEW x, IsDataFd(x), x # fd PROVE Stays(x)
    BY <1>7, <2>1, <2>2, <2>6, ClaimsThere DEF IsDataFd, FbInv, HeldInv, AccountInv, RefsInv, TypeInv, TypeOK, MapsTo, Fds, NoFd
  <2>7. ASSUME NEW k \in Fds, NEW a \in Claimed(k)' PROVE a \in Gone' \/ Intact(a)
    <3>1. k # fd /\ a \in Claimed(k)
      BY <1>6, <2>5, <2>7 DEF Claimed
    <3>2. a \in {bo.cpu, bo.mt} => a \in Gone
      BY <1>7, <3>1 DEF FbInv, ClaimsInv
    <3>. QED  BY <1>1, <2>3, <3>1, <3>2, ClaimsThere DEF Gone
  <2>8. ASSUME NEW k \in Fds, Firm(k)', NEW m \in Mfds(k)' \ {NoFd} PROVE Stays(m)
    <3>1. k # fd /\ Firm(k) /\ m \in Mfds(k)
      BY <1>6, <2>5, <2>8
    <3>2. m # bo.mfd
      BY <1>7, <2>1, <2>8, <3>1 DEF FbInv, HeldInv
    <3>. QED  BY <1>7, <2>2, <2>8, <3>1, <3>2, ClaimsThere
  <2>9. ASSUME NEW k \in Fds, lost[k] = 0, Used(k), Used(k)' PROVE Stays(k)
    BY <2>4, <2>6, <2>9, UsedOpen
  <2>10. ASSUME NEW o \in offers
         PROVE  IsDataFd(o[1])' /\ Stays(o[1]) /\ (o[2] # NoFd => Stays(o[2]))
    <3>1. o[1] # fd
      BY <1>1, <2>1 DEF MayDestroy
    <3>2. Stays(o[1]) /\ IsDataFd(o[1])'
      BY <2>6, <3>1, ClaimsThere DEF IsDataFd, Stays
    <3>3. ASSUME o[2] # NoFd PROVE Stays(o[2])
      <4>1. o[2] \notin Mfds(fd) /\ o[2] \in DOMAIN fdt /\ o[2] # fd
        BY <1>7, <2>1, <3>3, ClaimsThere DEF FbInv, OfferInv
      <4>. QED  BY <1>7, <2>2, <4>1
    <3>. QED  BY <3>2, <3>3
  <2>11. MovesOffers
    BY <1>1, <2>10 DEF MovesOffers, FbInv, OfferInv
  <2>12. ClaimsInv' /\ HeldInv' /\ OfferInv'
    BY <1>1, <1>6, <2>7, <2>8, <2>9, <2>11, LeavingMoves
  <2>13. OpenInv'
    <3>1. 0 \in DOMAIN fdt' /\ fdt'[0] = Stdin
      <4>1. fd # 0 /\ bo.mfd # 0
        BY <1>7, FileNames DEF FbInv, OpenInv, HeldInv, IsDataFd
      <4>. QED  BY <2>2, <4>1 DEF FbInv, OpenInv, Stays
    <3>2. \A k \in DOMAIN reg' : reg'[k].mfd # NoFd => reg'[k].mt # NULL
      BY <1>3 DEF FbInv, OpenInv
    <3>3. ASSUME NEW j \in DOMAIN bos', ~bos'[j].named
          PROVE  bos'[j].fd \in DOMAIN fdt' /\ fdt'[bos'[j].fd] = Data(bos'[j].buf)
      <4>1. j \in DOMAIN bos /\ j # id /\ bos'[j] = bos[j]
        BY <1>4, <3>3
      <4>2. bos[j].fd # fd
        BY <2>1, <3>3, <4>1 DEF Counted
      <4>3. /\ bos[j].fd \in DOMAIN fdt /\ fdt[bos[j].fd] = Data(bos[j].buf)
            /\ bos[j].buf \in Bufs
        BY <3>3, <4>1 DEF FbInv, OpenInv, AccountInv, RefsInv, TypeInv, TypeOK, MapsTo, Bo, BoFields
      <4>4. Stays(bos[j].fd)
        BY <2>6, <4>2, <4>3 DEF IsDataFd
      <4>. QED  BY <4>1, <4>3, <4>4 DEF Stays
    <3>4. \A j \in DOMAIN bos' : bos'[j].named => bos'[j].mt = NULL /\ bos'[j].cpu = NULL
      BY <1>4 DEF FbInv, OpenInv
    <3>. QED  BY <3>1, <3>2, <3>3, <3>4 DEF OpenInv
  <2>. QED  BY <1>1, <2>12, <2>13, NoCrash DEF Rest
<1>. QED  BY <1>8, <1>9

\* While objects change only in their addresses and metadata fd, or an object is added
\* that does not count, the entry's claims and the other objects' stay.
LEMMA FieldsMoved ==
  ASSUME FbInv, reg' = reg, lost' = lost, NEW id \in DOMAIN bos, DOMAIN bos' = DOMAIN bos,
         \A j \in DOMAIN bos \ {id} : bos'[j] = bos[j],
         bos'[id].fd = bos[id].fd, bos'[id].named = bos[id].named
  PROVE  /\ \A k \in Fds : Firm(k)' = Firm(k) /\ Used(k)' = Used(k)
         /\ \A k \in Fds :
              /\ Cpus(k)' \subseteq Cpus(k) \cup (IF id \in Counted(k) THEN {bos'[id].cpu} ELSE {})
              /\ Mts(k)' \subseteq Mts(k) \cup (IF id \in Counted(k) THEN {bos'[id].mt} ELSE {})
              /\ Mfds(k)' \subseteq Mfds(k) \cup (IF id \in Counted(k) THEN {bos'[id].mfd} ELSE {})
<1>1. \A k \in Fds : Counted(k)' = Counted(k)
  BY DEF Counted
<1>2. \A k \in Fds : Firm(k)' = Firm(k) /\ Used(k)' = Used(k)
  BY <1>1 DEF Firm, Used
<1>3. \A k \in Fds : Cpus(k)' \subseteq Cpus(k) \cup (IF id \in Counted(k) THEN {bos'[id].cpu} ELSE {})
  BY <1>1 DEF Cpus, Counted
<1>4. \A k \in Fds : Mts(k)' \subseteq Mts(k) \cup (IF id \in Counted(k) THEN {bos'[id].mt} ELSE {})
  BY <1>1 DEF Mts, Counted
<1>5. \A k \in Fds : Mfds(k)' \subseteq Mfds(k) \cup (IF id \in Counted(k) THEN {bos'[id].mfd} ELSE {})
  BY <1>1 DEF Mfds, Counted
<1>. QED  BY <1>2, <1>3, <1>4, <1>5

\* An object whose metadata is read has a metadata address, so it counts.
LEMMA MetaReader ==
  ASSUME FbInv, NEW id \in DOMAIN bos, bos[id].mt # NULL
  PROVE  /\ ~bos[id].named /\ bos[id].fd \in Fds /\ id \in Counted(bos[id].fd)
         /\ bos[id].mt \in Mts(bos[id].fd)
         /\ IsDataFd(bos[id].fd)
<1>1. ~bos[id].named
  BY DEF FbInv, OpenInv
<1>2. bos[id] \in BoFields
  BY DEF FbInv, AccountInv, RefsInv, TypeInv, TypeOK, MapsTo, Bo
<1>3. bos[id].fd \in DOMAIN fdt /\ fdt[bos[id].fd] = Data(bos[id].buf)
  BY <1>1 DEF FbInv, OpenInv
<1>. QED  BY <1>1, <1>2, <1>3 DEF BoFields, Counted, Mts, IsDataFd

\* When nothing is closed, what was offered and used is still open.
LEMMA NothingClosed ==
  ASSUME FbInv, fdt' = fdt, offers' \subseteq offers, lost' = lost,
         \A k \in Fds : Firm(k)' => Firm(k),
         \A k \in Fds : Mfds(k)' \subseteq Mfds(k)
  PROVE  /\ \A k \in Fds : Firm(k)' => \A m \in Mfds(k)' \ {NoFd} : Stays(m)
         /\ \A k \in Fds : lost[k] = 0 /\ Used(k) /\ Used(k)' => Stays(k)
         /\ MovesOffers
<1>1. \A x \in DOMAIN fdt : Stays(x)
  BY DEF Stays
<1>2. \A k \in Fds : Firm(k)' => \A m \in Mfds(k)' \ {NoFd} : Stays(m)
  BY <1>1, ClaimsThere
<1>3. \A k \in Fds : lost[k] = 0 /\ Used(k) /\ Used(k)' => Stays(k)
  BY <1>1, UsedOpen DEF IsDataFd
<1>4. \A o \in offers : IsDataFd(o[1])' /\ Stays(o[1]) /\ (o[2] # NoFd => Stays(o[2]))
  BY <1>1, ClaimsThere DEF IsDataFd
<1>. QED  BY <1>2, <1>3, <1>4 DEF MovesOffers, FbInv, OfferInv

LEMMA BadMetaKeeps ==
  ASSUME FbInv, NEW id \in DOMAIN bos, BadMeta(bos[id]), Segv, lost' = lost, torn' = torn
  PROVE  Rest' /\ SegvOnlyTorn'
BY MetaReader, SegvKeeps DEF BadMeta

\* Mapping an object's data adds one address, of its buffer's data.
LEMMA BoCpuMapKeeps ==
  ASSUME FbInv, ~segv, NEW id \in DOMAIN bos, NEW f \in Outcomes, FbBoCpuMap(id, f)
  PROVE  Rest' /\ SegvOnlyTorn'
<1>1. BoCpuMap(id, f) /\ lost' = lost /\ torn' = torn
  BY DEF FbBoCpuMap
<1>2. CASE BadMeta(bos[id])
  BY <1>1, <1>2, BadMetaKeeps DEF BoCpuMap
<1>3. CASE ~BadMeta(bos[id])
  <2>1. PICK c \in NextAddr({}) :
          /\ CanMap(bos[id], f)
          /\ maps' = Put(maps, c, Mapping(fdt[bos[id].fd], bos[id].size))
          /\ bos' = [bos EXCEPT ![id].cpu = c]
          /\ UNCHANGED <<fdt, gem, reg, offers, segv>>
    BY <1>1, <1>3 DEF BoCpuMap
  <2> PICK fd \in Fds : fd = bos[id].fd
    BY <2>1, MetaReader DEF CanMap
  <2>2. id \in Counted(fd) /\ IsDataFd(fd) /\ bos[id].mt \in Mts(fd) /\ ~bos[id].named
    BY <2>1, MetaReader DEF CanMap
  <2>3. bos[id] \in BoFields
    BY DEF FbInv, AccountInv, RefsInv, TypeInv, TypeOK, MapsTo, Bo
  <2>4. /\ DOMAIN bos' = DOMAIN bos
        /\ \A j \in DOMAIN bos \ {id} : bos'[j] = bos[j]
        /\ bos'[id].fd = bos[id].fd /\ bos'[id].named = bos[id].named
        /\ bos'[id].cpu = c /\ bos'[id].mt = bos[id].mt /\ bos'[id].mfd = bos[id].mfd
        /\ bos'[id].buf = bos[id].buf
    BY <2>1, <2>3 DEF BoFields
  <2>5. /\ \A k \in Fds : Firm(k)' = Firm(k) /\ Used(k)' = Used(k)
        /\ \A k \in Fds :
             /\ Cpus(k)' \subseteq Cpus(k) \cup (IF id \in Counted(k) THEN {bos'[id].cpu} ELSE {})
             /\ Mts(k)' \subseteq Mts(k) \cup (IF id \in Counted(k) THEN {bos'[id].mt} ELSE {})
             /\ Mfds(k)' \subseteq Mfds(k) \cup (IF id \in Counted(k) THEN {bos'[id].mfd} ELSE {})
    BY <1>1, <2>1, <2>4, FieldsMoved
  <2>6. /\ c \notin DOMAIN maps
        /\ c \in DOMAIN maps' /\ maps'[c] = Mapping(fdt[fd], bos[id].size)
        /\ \A a \in DOMAIN maps : Intact(a)
    BY <2>1 DEF NextAddr, Put, Intact
  <2>7. NewAddr(fd, c, Data(BufOf(fd)'))
    <3>1. fdt[fd] = Data(BufOf(fd)) /\ BufOf(fd)' = BufOf(fd)
      BY <2>1, <2>2, DataFdIs DEF BufOf
    <3>. QED  BY <2>6, <3>1 DEF NewAddr, Readable, Mapping
  <2>8. \A k \in Fds \ {fd} : id \notin Counted(k)
    BY DEF Counted
  <2>9. bos[id].mt \in Mts(fd) /\ bos[id].mfd \in Mfds(fd)
    BY <2>2 DEF Mts, Mfds
  <2>10. \A x \in DOMAIN fdt : Stays(x)
    BY <2>1 DEF Stays
  <2>11. 0 \notin Mfds(fd)'
    BY <2>2, <2>4, <2>5, <2>9 DEF FbInv, HeldInv
  <2>12. Moves(fd)
    <3>1. \A a \in Cpus(fd)' : a \in Cpus(fd) \/ a = c
      BY <2>4, <2>5
    <3>2. Mts(fd)' \subseteq Mts(fd) /\ Mfds(fd)' \subseteq Mfds(fd)
      BY <2>2, <2>4, <2>5, <2>9
    <3>3. \A k \in Fds \ {fd} : /\ Cpus(k)' \subseteq Cpus(k)
                                /\ Mts(k)' \subseteq Mts(k)
                                /\ Mfds(k)' \subseteq Mfds(k)
                                /\ Firm(k)' => Firm(k)
      BY <2>5, <2>8
    <3>. QED  BY <1>1, <2>1, <2>5, <2>6, <2>7, <2>10, <2>11, <3>1, <3>2, <3>3, GrowthMoves
  <2>13. OpenInv'
    BY <2>1, <2>2, <2>4 DEF FbInv, OpenInv
  <2>. QED  BY <2>1, <2>12, <2>13, AddressesKept, MetaFdsKept, NoCrash DEF Rest
<1>. QED  BY <1>2, <1>3

\* bo_write takes the metadata mapping down under everybody, and says which.
LEMMA BoWriteMappingKeeps ==
  ASSUME FbInv, ~segv, NEW id \in DOMAIN bos, NEW f \in Outcomes, FbBoWriteMapping(id, f)
  PROVE  Rest' /\ SegvOnlyTorn'
<1>1. /\ BoWriteMapping(id, f) /\ lost' = lost
      /\ torn' = IF segv' THEN torn ELSE torn \cup {bos[id].mt}
  BY DEF FbBoWriteMapping
<1>2. CASE BadMeta(bos[id])
  <2>1. Segv
    BY <1>1, <1>2 DEF BoWriteMapping
  <2>. QED  BY <1>1, <1>2, <2>1, BadMetaKeeps DEF Segv
<1>3. CASE ~BadMeta(bos[id])
  <2>1. /\ bos[id].mt # NULL
        /\ maps' = Munmap(maps, bos[id].mt, MetaLen)
        /\ bos' = [bos EXCEPT ![id].cpu = NULL, ![id].mt = NULL]
        /\ UNCHANGED <<fdt, gem, reg, offers, segv>>
    BY <1>1, <1>3 DEF BoWriteMapping, CanMap
  <2>2. torn' = torn \cup {bos[id].mt}
    BY <1>1, <2>1
  <2>3. bos[id] \in BoFields
    BY DEF FbInv, AccountInv, RefsInv, TypeInv, TypeOK, MapsTo, Bo
  <2>4. /\ DOMAIN bos' = DOMAIN bos
        /\ \A j \in DOMAIN bos \ {id} : bos'[j] = bos[j]
        /\ bos'[id].fd = bos[id].fd /\ bos'[id].named = bos[id].named
        /\ bos'[id].cpu = NULL /\ bos'[id].mt = NULL /\ bos'[id].mfd = bos[id].mfd
        /\ bos'[id].buf = bos[id].buf
    BY <2>1, <2>3 DEF BoFields
  <2>5. /\ \A k \in Fds : Firm(k)' = Firm(k) /\ Used(k)' = Used(k)
        /\ \A k \in Fds :
             /\ Cpus(k)' \subseteq Cpus(k) \cup (IF id \in Counted(k) THEN {bos'[id].cpu} ELSE {})
             /\ Mts(k)' \subseteq Mts(k) \cup (IF id \in Counted(k) THEN {bos'[id].mt} ELSE {})
             /\ Mfds(k)' \subseteq Mfds(k) \cup (IF id \in Counted(k) THEN {bos'[id].mfd} ELSE {})
    BY <1>1, <2>1, <2>4, FieldsMoved
  <2>6. \A k \in Fds : id \in Counted(k) => bos[id].mfd \in Mfds(k)
    BY DEF Mfds
  <2>7. ASSUME NEW k \in Fds
        PROVE  /\ Cpus(k)' \subseteq Cpus(k) \cup {NULL}
               /\ Mts(k)' \subseteq Mts(k) \cup {NULL}
               /\ Mfds(k)' \subseteq Mfds(k)
               /\ Firm(k)' => Firm(k)
    BY <2>4, <2>5, <2>6
  <2>8. \A a \in DOMAIN maps : a = bos[id].mt \/ Intact(a)
    BY <2>1, MunmapOthers DEF Intact
  <2>9. \A k \in Fds : \A a \in Claimed(k)' : a \in Gone' \/ Intact(a)
    BY <2>2, <2>7, <2>8, ClaimsThere DEF Claimed, Gone
  <2>10. ClaimsInv' /\ HeldInv' /\ OfferInv'
    BY <1>1, <2>1, <2>2, <2>7, <2>9, NothingClosed, LeavingMoves
  <2>11. OpenInv'
    BY <2>1, <2>4 DEF FbInv, OpenInv
  <2>. QED  BY <2>1, <2>10, <2>11, NoCrash DEF Rest
<1>. QED  BY <1>2, <1>3

\* The metadata fd an object takes over is its entry's.
LEMMA RefreshMetaFdKeeps ==
  ASSUME FbInv, ~segv, NEW id \in DOMAIN bos, FbRefreshMetaFd(id)
  PROVE  Rest' /\ SegvOnlyTorn'
<1> PICK fd \in Fds : fd = bos[id].fd
  BY DEF FbInv, AccountInv, RefsInv, TypeInv, TypeOK, MapsTo, Bo, BoFields
<1> PICK e : e = Lookup(reg, fd)
  OBVIOUS
<1>1. /\ bos' = [bos EXCEPT ![id].mfd = e.mfd] /\ e.mfd > 0
      /\ UNCHANGED <<fdt, maps, gem, reg, offers, segv, lost, torn>>
  BY DEF FbRefreshMetaFd, RefreshMetaFd
<1>2. e.mfd \in Mfds(fd)
  BY <1>1, FoundClaimed DEF NoFd
<1>3. bos[id] \in BoFields
  BY DEF FbInv, AccountInv, RefsInv, TypeInv, TypeOK, MapsTo, Bo
<1>4. /\ DOMAIN bos' = DOMAIN bos
      /\ \A j \in DOMAIN bos \ {id} : bos'[j] = bos[j]
      /\ bos'[id].fd = bos[id].fd /\ bos'[id].named = bos[id].named
      /\ bos'[id].cpu = bos[id].cpu /\ bos'[id].mt = bos[id].mt /\ bos'[id].mfd = e.mfd
      /\ bos'[id].buf = bos[id].buf
  BY <1>1, <1>3 DEF BoFields
<1>5. /\ \A k \in Fds : Firm(k)' = Firm(k) /\ Used(k)' = Used(k)
      /\ \A k \in Fds :
           /\ Cpus(k)' \subseteq Cpus(k) \cup (IF id \in Counted(k) THEN {bos'[id].cpu} ELSE {})
           /\ Mts(k)' \subseteq Mts(k) \cup (IF id \in Counted(k) THEN {bos'[id].mt} ELSE {})
           /\ Mfds(k)' \subseteq Mfds(k) \cup (IF id \in Counted(k) THEN {bos'[id].mfd} ELSE {})
  BY <1>1, <1>4, FieldsMoved
<1>6. \A k \in Fds : id \in Counted(k) =>
        k = fd /\ bos[id].cpu \in Cpus(k) /\ bos[id].mt \in Mts(k)
  BY DEF Cpus, Mts, Counted
<1>7. ASSUME NEW k \in Fds
      PROVE  /\ Cpus(k)' \subseteq Cpus(k)
             /\ Mts(k)' \subseteq Mts(k)
             /\ Mfds(k)' \subseteq Mfds(k)
             /\ Firm(k)' => Firm(k)
  BY <1>2, <1>4, <1>5, <1>6
<1>8. \A k \in Fds : \A a \in Claimed(k)' : a \in Gone' \/ Intact(a)
  BY <1>1, <1>7, ClaimsThere DEF Claimed, Gone, Intact
<1>9. ClaimsInv' /\ HeldInv' /\ OfferInv'
  BY <1>1, <1>7, <1>8, NothingClosed, LeavingMoves
<1>10. OpenInv'
  BY <1>1, <1>4 DEF FbInv, OpenInv
<1>. QED  BY <1>1, <1>9, <1>10, NoCrash DEF Rest

\* Claims do not move while the registry and the objects that count stay.
LEMMA ClaimsSame ==
  ASSUME reg' = reg, lost' = lost, \A k : Counted(k)' = Counted(k),
         \A j \in DOMAIN bos : j \in DOMAIN bos' /\ bos'[j] = bos[j]
  PROVE  \A k \in Fds : /\ Cpus(k)' = Cpus(k) /\ Mts(k)' = Mts(k) /\ Mfds(k)' = Mfds(k)
                        /\ Claimed(k)' = Claimed(k)
                        /\ Firm(k)' = Firm(k) /\ Used(k)' = Used(k)
<1> SUFFICES ASSUME NEW k \in Fds
             PROVE  /\ Cpus(k)' = Cpus(k) /\ Mts(k)' = Mts(k) /\ Mfds(k)' = Mfds(k)
                    /\ Claimed(k)' = Claimed(k)
                    /\ Firm(k)' = Firm(k) /\ Used(k)' = Used(k)
  OBVIOUS
<1>1. \A j \in Counted(k) : bos'[j] = bos[j]
  BY DEF Counted
<1>2. Cpus(k)' = Cpus(k) /\ Mts(k)' = Mts(k) /\ Mfds(k)' = Mfds(k)
  BY <1>1 DEF Cpus, Mts, Mfds
<1>. QED  BY <1>2 DEF Claimed, Firm, Used

LEMMA ImportFromNameKeeps ==
  ASSUME FbInv, ~segv, NEW id \in DOMAIN bos, NEW new \in BoIds, FbImportFromName(id, new)
  PROVE  Rest' /\ SegvOnlyTorn'
<1> PICK bo : bo = [fd |-> bos[id].fd, mfd |-> 0, handle |-> HandleOf(fdt[bos[id].fd], "none"),
                    mhandle |-> NoHandle, cpu |-> NULL, mt |-> NULL, size |-> 0,
                    named |-> TRUE, buf |-> fdt[bos[id].fd][1]]
  OBVIOUS
<1>1. /\ new \notin DOMAIN bos /\ bos' = Put(bos, new, bo)
      /\ UNCHANGED <<fdt, maps, reg, offers, segv, lost, torn>>
  BY DEF FbImportFromName, ImportFromName
<1>2. bo.named = TRUE /\ bo.mt = NULL /\ bo.cpu = NULL
  OBVIOUS
<1>3. /\ \A j \in DOMAIN bos : j \in DOMAIN bos' /\ bos'[j] = bos[j]
      /\ \A j \in DOMAIN bos' : (j \in DOMAIN bos /\ bos'[j] = bos[j]) \/ bos'[j] = bo
  BY <1>1 DEF Put
<1>4. \A k : Counted(k)' = Counted(k)
  BY <1>2, <1>3 DEF Counted
<1>5. \A k \in Fds : /\ Cpus(k)' = Cpus(k) /\ Mts(k)' = Mts(k) /\ Mfds(k)' = Mfds(k)
                     /\ Claimed(k)' = Claimed(k)
                     /\ Firm(k)' = Firm(k) /\ Used(k)' = Used(k)
  BY <1>1, <1>3, <1>4, ClaimsSame
<1>6. \A k \in Fds : \A a \in Claimed(k)' : a \in Gone' \/ Intact(a)
  BY <1>1, <1>5, ClaimsThere DEF Gone, Intact
<1>7. ClaimsInv' /\ HeldInv' /\ OfferInv'
  <2>1. \A k \in Fds : /\ Cpus(k)' \subseteq Cpus(k) \cup {NULL}
                       /\ Mts(k)' \subseteq Mts(k) \cup {NULL}
                       /\ Mfds(k)' \subseteq Mfds(k)
                       /\ Firm(k)' => Firm(k)
    BY <1>5
  <2>. QED  BY <1>1, <1>6, <2>1, NothingClosed, LeavingMoves
<1>8. OpenInv'
  <2>1. fdt' = fdt /\ reg' = reg
    BY <1>1
  <2>2. ASSUME NEW j \in DOMAIN bos'
        PROVE  IF bos'[j].named THEN bos'[j].mt = NULL /\ bos'[j].cpu = NULL
               ELSE bos'[j].fd \in DOMAIN fdt' /\ fdt'[bos'[j].fd] = Data(bos'[j].buf)
    <3>1. CASE j \in DOMAIN bos /\ bos'[j] = bos[j]
      BY <2>1, <3>1 DEF FbInv, OpenInv
    <3>2. CASE bos'[j] = bo
      BY <1>2, <3>2
    <3>. QED  BY <1>3, <3>1, <3>2
  <2>. QED  BY <2>1, <2>2 DEF FbInv, OpenInv
<1>. QED  BY <1>1, <1>7, <1>8, NoCrash DEF Rest

\* The client's side opens new descriptors, or closes those of its offer.
LEMMA ClientKeeps ==
  ASSUME FbInv, ~segv, UNCHANGED <<maps, reg, bos, segv, lost, torn>>,
         \A k \in Fds : lost[k] = 0 /\ Used(k) => Stays(k),
         \A k \in Fds : Firm(k) => \A m \in Mfds(k) \ {NoFd} : Stays(m),
         \A id \in DOMAIN bos : ~bos[id].named => Stays(bos[id].fd),
         Stays(0), MovesOffers
  PROVE  Rest' /\ SegvOnlyTorn'
<1>1. \A k : Counted(k)' = Counted(k)
  BY DEF Counted
<1>2. \A k \in Fds : /\ Cpus(k)' = Cpus(k) /\ Mts(k)' = Mts(k) /\ Mfds(k)' = Mfds(k)
                     /\ Claimed(k)' = Claimed(k)
                     /\ Firm(k)' = Firm(k) /\ Used(k)' = Used(k)
  BY <1>1, ClaimsSame
<1>3. \A k \in Fds : \A a \in Claimed(k)' : a \in Gone' \/ Intact(a)
  BY <1>2, ClaimsThere DEF Gone, Intact
<1>4. ClaimsInv' /\ HeldInv' /\ OfferInv'
  <2>1. \A k \in Fds : /\ Cpus(k)' \subseteq Cpus(k) \cup {NULL}
                       /\ Mts(k)' \subseteq Mts(k) \cup {NULL}
                       /\ Mfds(k)' \subseteq Mfds(k)
                       /\ Firm(k)' => Firm(k)
    BY <1>2
  <2>2. \A k \in Fds : Firm(k)' => \A m \in Mfds(k)' \ {NoFd} : Stays(m)
    BY <1>2
  <2>. QED  BY <1>3, <2>1, <2>2, LeavingMoves
<1>5. OpenInv'
  BY DEF FbInv, OpenInv, Stays
<1>. QED  BY <1>4, <1>5, NoCrash DEF Rest

LEMMA ReceiveKeeps ==
  ASSUME FbInv, ~segv, UNCHANGED <<lost, torn>>,
         (\E b \in Foreign : Receive(b)) \/ \E id \in DOMAIN bos : ReceiveMeta(id)
  PROVE  Rest' /\ SegvOnlyTorn'
<1>1. ASSUME \A x \in DOMAIN fdt : Stays(x), MovesOffers, UNCHANGED <<maps, reg, bos, segv>>
      PROVE  Rest' /\ SegvOnlyTorn'
  <2>1. \A k \in Fds : lost[k] = 0 /\ Used(k) => Stays(k)
    BY <1>1, UsedOpen DEF IsDataFd
  <2>2. \A k \in Fds : Firm(k) => \A m \in Mfds(k) \ {NoFd} : Stays(m)
    BY <1>1, ClaimsThere
  <2>3. Stays(0) /\ \A id \in DOMAIN bos : ~bos[id].named => Stays(bos[id].fd)
    BY <1>1 DEF FbInv, OpenInv
  <2>. QED  BY <1>1, <2>1, <2>2, <2>3, ClientKeeps
<1>2. ASSUME NEW b \in Foreign, Receive(b)
      PROVE  Rest' /\ SegvOnlyTorn'
  <2>1. PICK d \in Fds, m \in Fds :
          /\ d \in NextFd({}) /\ m \in NextFd({d})
          /\ \/ fdt' = Put(Put(fdt, d, Data(b)), m, Meta(b)) /\ offers' = {<<d, m>>}
             \/ fdt' = Put(fdt, d, Data(b)) /\ offers' = {<<d, NoFd>>}
          /\ UNCHANGED <<maps, gem, reg, bos, segv>>
    BY <1>2, NextType DEF Receive
  <2>2. d \notin DOMAIN fdt /\ m \notin DOMAIN fdt /\ m # d /\ b \in Bufs
    BY <2>1 DEF NextFd, Bufs
  <2>3. /\ \A x \in DOMAIN fdt : Stays(x)
        /\ d \in DOMAIN fdt' /\ fdt'[d] = Data(b)
    <3>1. CASE fdt' = Put(Put(fdt, d, Data(b)), m, Meta(b))
      BY <2>2, <3>1 DEF Put, Stays
    <3>2. CASE fdt' = Put(fdt, d, Data(b))
      BY <2>2, <3>2 DEF Put, Stays
    <3>. QED  BY <2>1, <3>1, <3>2
  <2>4. IsDataFd(d)' /\ BufOf(d)' = b
    BY <2>2, <2>3, FileNames DEF IsDataFd, BufOf
  <2>5. CASE fdt' = Put(Put(fdt, d, Data(b)), m, Meta(b)) /\ offers' = {<<d, m>>}
    <3>1. NewMeta(d, m)
      BY <2>2, <2>4, <2>5 DEF NewMeta, Put
    <3>2. <<d, m>>[1] = d /\ <<d, m>>[2] = m
      OBVIOUS
    <3>3. MovesOffers
      BY <2>1, <2>4, <2>5, <3>1, <3>2 DEF MovesOffers
    <3>. QED  BY <1>1, <2>1, <2>3, <3>3
  <2>6. CASE offers' = {<<d, NoFd>>}
    <3>1. <<d, NoFd>>[1] = d /\ <<d, NoFd>>[2] = NoFd
      OBVIOUS
    <3>2. MovesOffers
      BY <2>4, <2>6, <3>1 DEF MovesOffers
    <3>. QED  BY <1>1, <2>1, <2>3, <3>2
  <2>. QED  BY <2>1, <2>5, <2>6
<1>3. ASSUME NEW id \in DOMAIN bos, ReceiveMeta(id)
      PROVE  Rest' /\ SegvOnlyTorn'
  <2> PICK fd : fd = bos[id].fd
    OBVIOUS
  <2> PICK b : b = bos[id].buf
    OBVIOUS
  <2>1. PICK m \in NextFd({}) :
          /\ ~bos[id].named
          /\ fdt' = Put(fdt, m, Meta(b)) /\ offers' = {<<fd, m>>}
          /\ UNCHANGED <<maps, gem, reg, bos, segv>>
    BY <1>3 DEF ReceiveMeta
  <2>2. m \notin DOMAIN fdt /\ fd \in DOMAIN fdt /\ fdt[fd] = Data(b) /\ b \in Bufs
    BY <2>1 DEF NextFd, FbInv, OpenInv, AccountInv, RefsInv, TypeInv, TypeOK, MapsTo, Bo, BoFields
  <2>3. /\ \A x \in DOMAIN fdt : Stays(x)
        /\ fd \in DOMAIN fdt' /\ fdt'[fd] = Data(b)
        /\ m \in DOMAIN fdt' /\ fdt'[m] = Meta(b)
    BY <2>1, <2>2 DEF Put, Stays
  <2>4. IsDataFd(fd)' /\ BufOf(fd)' = b
    BY <2>2, <2>3, FileNames DEF IsDataFd, BufOf
  <2>5. NewMeta(fd, m)
    BY <2>2, <2>3, <2>4 DEF NewMeta
  <2>6. <<fd, m>>[1] = fd /\ <<fd, m>>[2] = m
    OBVIOUS
  <2>7. MovesOffers
    BY <2>1, <2>4, <2>5, <2>6 DEF MovesOffers
  <2>. QED  BY <1>1, <2>1, <2>3, <2>7
<1>. QED  BY <1>2, <1>3

LEMMA CloseOfferKeeps ==
  ASSUME FbInv, ~segv, UNCHANGED <<lost, torn>>, NEW o \in offers, CloseOffer(o)
  PROVE  Rest' /\ SegvOnlyTorn'
<1>1. /\ fdt' = Drop(fdt, (IF Counted(o[1]) = {} THEN {o[1]} ELSE {}) \cup {o[2]})
      /\ offers' = offers \ {o}
      /\ UNCHANGED <<maps, reg, bos, segv>>
  BY DEF CloseOffer
<1>2. offers' = {}
  BY <1>1 DEF FbInv, OfferInv
<1>3. IsDataFd(o[1]) /\ (o[2] # NoFd => o[2] \in DOMAIN fdt /\ ~IsDataFd(o[2]))
  BY ClaimsThere
<1>4. ASSUME NEW x \in DOMAIN fdt, x # o[2], x # o[1] \/ Counted(x) # {}
      PROVE  Stays(x)
  BY <1>1, <1>4 DEF Drop, Stays
<1>5. \A fd : IsDataFd(fd) => fd \in DOMAIN fdt /\ fd \in Fds /\ fd # NoFd
  BY DEF IsDataFd, FbInv, AccountInv, RefsInv, TypeInv, TypeOK, MapsTo, Fds, NoFd
<1>6. ASSUME NEW fd, IsDataFd(fd), Counted(fd) # {}
      PROVE  Stays(fd)
  BY <1>3, <1>4, <1>5, <1>6
<1>7. \A k \in Fds : lost[k] = 0 /\ Used(k) => Stays(k)
  BY <1>6, UsedOpen
<1>8. ASSUME NEW k \in Fds, Firm(k), NEW m \in Mfds(k) \ {NoFd}
      PROVE  Stays(m)
  <2>1. m \in DOMAIN fdt /\ ~IsDataFd(m)
    BY <1>8, ClaimsThere
  <2>2. m # o[2]
    BY <1>8 DEF FbInv, OfferInv
  <2>. QED  BY <1>3, <1>4, <2>1, <2>2
<1>9. ASSUME NEW id \in DOMAIN bos, ~bos[id].named
      PROVE  Stays(bos[id].fd)
  <2>1. /\ bos[id].fd \in DOMAIN fdt /\ fdt[bos[id].fd] = Data(bos[id].buf)
        /\ bos[id].buf \in Bufs
    BY <1>9 DEF FbInv, OpenInv, AccountInv, RefsInv, TypeInv, TypeOK, MapsTo, Bo, BoFields
  <2>2. IsDataFd(bos[id].fd) /\ Counted(bos[id].fd) # {}
    BY <1>9, <2>1 DEF IsDataFd, Counted
  <2>. QED  BY <1>6, <2>2
<1>10. Stays(0)
  <2>1. 0 \in DOMAIN fdt /\ fdt[0] = Stdin
    BY DEF FbInv, OpenInv
  <2>2. o[1] # 0
    BY <1>3, <2>1, FileNames DEF IsDataFd
  <2>3. o[2] # 0
    <3>1. o[2] # NoFd => fdt[o[2]] = Meta(BufOf(o[1]))
      BY DEF FbInv, OfferInv
    <3>. QED  BY <2>1, <3>1, FileNames DEF NoFd
  <2>. QED  BY <1>4, <2>1, <2>2, <2>3
<1>11. MovesOffers
  BY <1>2 DEF MovesOffers
<1>. QED  BY <1>1, <1>7, <1>8, <1>9, <1>10, <1>11, ClientKeeps

LEMMA NextKeepsFb == FbPremise /\ FbInv /\ [FbNext]_fbvars => FbInv'
<1> SUFFICES ASSUME FbPremise, FbInv, [FbNext]_fbvars PROVE FbInv'
  OBVIOUS
<1>1. AccountInv'
  BY NextAccounted DEF FbPremise, FbInv
<1>2. CASE UNCHANGED fbvars
  <2>1. UNCHANGED <<fdt, maps, reg, bos, offers, segv, lost, torn>>
    BY <1>2 DEF fbvars, vars
  <2>2. \A k : Cpus(k)' = Cpus(k) /\ Mts(k)' = Mts(k) /\ Mfds(k)' = Mfds(k) /\ Firm(k)' = Firm(k)
               /\ BufOf(k)' = BufOf(k) /\ IsMetaFd(k)' = IsMetaFd(k) /\ IsDataFd(k)' = IsDataFd(k)
    BY <2>1 DEF Cpus, Mts, Mfds, Counted, Firm, BufOf, IsMetaFd, IsDataFd
  <2>3. ClaimsInv' /\ HeldInv' /\ OpenInv' /\ SegvOnlyTorn'
    BY <2>1, <2>2 DEF FbInv, ClaimsInv, HeldInv, OpenInv, SegvOnlyTorn, Claimed, Gone
  <2>4. OfferInv'
    <3>1. \A o \in offers : IsDataFd(o[1])' = IsDataFd(o[1]) /\ BufOf(o[1])' = BufOf(o[1])
      BY <2>1 DEF IsDataFd, BufOf
    <3>. QED  BY <2>1, <2>2, <3>1 DEF FbInv, OfferInv
  <2>. QED  BY <1>1, <2>3, <2>4 DEF FbInv
<1>3. CASE FbNext
  <2>1. ASSUME NEW b \in Local, NEW f \in Outcomes, FbBoCreate(b, f), ~segv
        PROVE  Rest' /\ SegvOnlyTorn'
    BY <1>1, <2>1, CreateKeeps
  <2>2. ASSUME NEW fd \in Fds, NEW f \in Outcomes, FbImport(fd, f), ~segv
        PROVE  Rest' /\ SegvOnlyTorn'
    BY <2>2, ImportFdKeeps, ImportFdBadFormatKeeps, ImportWlBufferKeeps, ImportGbmBufKeeps
       DEF FbImport, FdOrNone
  <2>3. ASSUME NEW id \in DOMAIN bos, FbBoStep(id), ~segv
        PROVE  Rest' /\ SegvOnlyTorn'
    BY <2>3, DestroyKeeps, RefreshMetaFdKeeps, ImportFromNameKeeps, BoCpuMapKeeps,
       BoWriteMappingKeeps DEF FbBoStep
  <2>4. ASSUME ClientStep, UNCHANGED <<lost, torn>>, ~segv
        PROVE  Rest' /\ SegvOnlyTorn'
    BY <2>4, ReceiveKeeps, CloseOfferKeeps DEF ClientStep
  <2>5. Rest' /\ SegvOnlyTorn'
    BY <1>3, <2>1, <2>2, <2>3, <2>4 DEF FbNext
  <2>. QED  BY <1>1, <2>5 DEF FbInv, Rest
<1>. QED  BY <1>2, <1>3

LEMMA InitFb == FbPremise /\ FbInit => FbInv
<1> SUFFICES ASSUME FbPremise, FbInit PROVE FbInv
  OBVIOUS
<1>1. AccountInv
  BY InitAccounted
<1>2. DOMAIN reg = {} /\ DOMAIN bos = {} /\ offers = {} /\ segv = FALSE
  BY DEF FbInit, Init, EmptyMap
<1>3. \A k : Cpus(k) = {} /\ Mts(k) = {} /\ Mfds(k) = {}
  BY <1>2 DEF Cpus, Mts, Mfds, Counted
<1>4. 0 \in DOMAIN fdt /\ fdt[0] = Stdin
  BY DEF FbPremise, FbInit, Init
<1>. QED  BY <1>1, <1>2, <1>3, <1>4
          DEF FbInv, ClaimsInv, HeldInv, OfferInv, OpenInv, SegvOnlyTorn, Claimed

\* Where no reference was lost, what a live object refers to is open and its buffer's,
\* and mapped in full unless a bo_write took it down: whatever fails but the mapping of
\* metadata, and although lost references leave entries for other buffers to inherit.
THEOREM FbObjectsUsable == ASSUME FbPremise PROVE FbSpec => []FbUsable
<1>1. FbInv => FbUsable
  <2> SUFFICES ASSUME FbInv, NEW id \in DOMAIN bos, ~bos[id].named, lost[bos[id].fd] = 0
               PROVE  LET bo == bos[id] IN
                 /\ bo.fd \in DOMAIN fdt /\ fdt[bo.fd] = Data(bo.buf)
                 /\ bo.mfd # NoFd => bo.mfd \in DOMAIN fdt /\ fdt[bo.mfd] = Meta(bo.buf)
                 /\ bo.cpu # NULL => Mapped(bo.cpu, Data(bo.buf)) \/ bo.cpu \in torn
                 /\ bo.mt # NULL => Mapped(bo.mt, Meta(bo.buf)) \/ bo.mt \in torn
    BY DEF FbUsable
  <2> PICK bo : bo = bos[id]
    OBVIOUS
  <2> PICK fd \in Fds : fd = bo.fd
    BY DEF FbInv, AccountInv, RefsInv, TypeInv, TypeOK, MapsTo, Bo, BoFields
  <2>1. fd \in DOMAIN fdt /\ fdt[fd] = Data(bo.buf) /\ BufOf(fd) = bo.buf
    BY FileNames DEF FbInv, OpenInv, BufOf
  <2>2. bo.cpu \in Cpus(fd) /\ bo.mt \in Mts(fd) /\ bo.mfd \in Mfds(fd)
    BY DEF Cpus, Mts, Mfds, Counted
  <2>3. Firm(fd) /\ lost[fd] = 0
    BY DEF Firm
  <2>4. bo.mfd # NoFd => bo.mfd \in DOMAIN fdt /\ fdt[bo.mfd] = Meta(bo.buf)
    BY <2>1, <2>2, <2>3 DEF FbInv, HeldInv, IsMetaFd
  <2>5. bo.cpu # NULL => Mapped(bo.cpu, Data(bo.buf)) \/ bo.cpu \in torn
    BY <2>1, <2>2, <2>3 DEF FbInv, ClaimsInv, Claimed, Gone, Mapped
  <2>6. bo.mt # NULL => Mapped(bo.mt, Meta(bo.buf)) \/ bo.mt \in torn
    BY <2>1, <2>2, <2>3 DEF FbInv, ClaimsInv, Claimed, Gone, Mapped
  <2>. QED  BY <2>1, <2>4, <2>5, <2>6
<1>. QED  BY <1>1, InitFb, NextKeepsFb, PTL DEF FbSpec

\* The process follows a bad metadata address only after a bo_write took one down.
THEOREM FbSegvNeedsWrite == ASSUME FbPremise PROVE FbSpec => []SegvOnlyTorn
<1>1. FbInv => SegvOnlyTorn
  BY DEF FbInv
<1>. QED  BY <1>1, InitFb, NextKeepsFb, PTL DEF FbSpec
=============================================================================
