--------------------------------- MODULE GbmFb ---------------------------------
(***************************************************************************)
(* Buffer objects in the FB backend (msmgbm_fb.c).  Its handlers repeat    *)
(* the DRM backend's step by step, without the GEM handles (HasGem is      *)
(* FALSE) and so without the ways to fail and the refusal of descriptor 0  *)
(* that come with the PRIME ioctls; bo_import has no case for fds with a   *)
(* modifier.  Each action below names the handler that makes it.           *)
(*                                                                         *)
(* Calls here may fail at any allocation and be tried again.  Two history  *)
(* variables record the harm the code does then, so that the invariants    *)
(* say exactly what remains true: lost counts the imports that took a      *)
(* reference and returned no object, torn collects the metadata addresses  *)
(* a bo_write unmapped.  No handler reads them.                            *)
(***************************************************************************)
EXTENDS GbmBo

CONSTANT MaxLost  \* bound: once a descriptor lost so many references, no call fails

ASSUME FbAssumption ==
  /\ MaxLost \in Nat
  /\ ~HasGem
  /\ "prime" \notin Faults
  /\ "fdmod" \notin Calls

VARIABLES
  lost,  \* fd -> the references no object will ever give back
  torn   \* the metadata addresses a write took down

fbvars == <<vars, lost, torn>>

FbInit == Init /\ lost = [fd \in Fds |-> 0] /\ torn = {}

\* The call on fd counted a reference and returned an object for it, or not.
Account(fd, failed) ==
  /\ failed => \A k \in Fds : lost[k] < MaxLost
  /\ lost' = [lost EXCEPT ![fd] = IF failed /\ ~segv' THEN @ + 1 ELSE @]
  /\ UNCHANGED torn

\* msmgbm_bo_create: the data is mapped unless the heap is secure, the metadata
\* mapped and cleared, the descriptor registered and counted; what fails returns
\* NULL and gives nothing back.
FbBoCreate(b, f) ==
  /\ BoCreate(b, f)
  /\ IF reg' = reg THEN UNCHANGED <<lost, torn>>
     ELSE \E fd \in DOMAIN reg' : RefOf(reg', fd) # RefOf(reg, fd) /\ Account(fd, f = "calloc")

\* msmgbm_bo_destroy: decr_refcnt, and on its word unmap both and close both.
FbBoDestroy(id) == MayDestroy(id) /\ BoDestroy(id) /\ UNCHANGED <<lost, torn>>

\* msmgbm_bo_import_fd: counts first, then looks at the format, then at the
\* metadata when there is a metadata fd.
FbImportFd(fd, f) ==
  /\ "fd" \in Calls
  /\ ImportFd(fd, f)
  /\ Account(fd, f = "calloc")

FbImportFdBadFormat(fd) ==
  /\ "badfd" \in Calls
  /\ ImportFdBadFormat(fd)
  /\ Account(fd, TRUE)

\* msmgbm_bo_import_wl_buffer.
FbImportWlBuffer(fd, mfd, f) ==
  /\ MayImportWl(fd)
  /\ ImportWlBuffer(fd, mfd, f)
  /\ Account(fd, f = "calloc")

\* msmgbm_bo_import_gbm_buf.
FbImportGbmBuf(fd, mfd, f) ==
  /\ "gbm" \in Calls
  /\ ImportGbmBuf(fd, mfd, f)
  /\ Account(fd, f = "calloc")

\* msmgbm_bo_import: the switch over the import types.
FbImport(fd, f) ==
  \/ FbImportFd(fd, f)
  \/ FbImportFdBadFormat(fd)
  \/ \E mfd \in Fds \cup {NoFd} : FbImportWlBuffer(fd, mfd, f) \/ FbImportGbmBuf(fd, mfd, f)

\* msmgbm_bo_import_from_name: nothing is asked of the kernel, nothing counted.
FbImportFromName(id, new) ==
  /\ "name" \in Calls
  /\ ImportFromName(id, new, "none")
  /\ UNCHANGED <<lost, torn>>

\* GBM_PERFORM_CPU_MAP_FOR_BO.
FbBoCpuMap(id, f) == "map" \in Calls /\ BoCpuMap(id, f) /\ UNCHANGED <<lost, torn>>

\* msmgbm_bo_write and msmgbm_bo_dump, when they map for themselves.
FbBoWriteMapping(id, f) ==
  /\ "write" \in Calls
  /\ BoWriteMapping(id, f)
  /\ torn' = IF segv' THEN torn ELSE torn \cup {bos[id].mt}
  /\ UNCHANGED lost

\* GBM_PERFORM_GET_METADATA_ION_FD.
FbRefreshMetaFd(id) == "refresh" \in Calls /\ RefreshMetaFd(id) /\ UNCHANGED <<lost, torn>>

FbBoStep(id) ==
  \/ FbBoDestroy(id)
  \/ FbRefreshMetaFd(id)
  \/ \E new \in BoIds : FbImportFromName(id, new)
  \/ \E f \in Outcomes : FbBoCpuMap(id, f) \/ FbBoWriteMapping(id, f)

FbNext ==
  /\ ~segv
  /\ \/ \E b \in Local, f \in Outcomes : FbBoCreate(b, f)
     \/ \E fd \in Fds, f \in Outcomes : FbImport(fd, f)
     \/ \E id \in DOMAIN bos : FbBoStep(id)
     \/ ClientStep /\ UNCHANGED <<lost, torn>>

FbSpec == FbInit /\ [][FbNext]_fbvars

-----------------------------------------------------------------------------
\* Every descriptor's count is the number of its live objects and of the imports
\* and creates that failed after they had counted: nothing else is ever lost, and
\* what is lost keeps a descriptor open for good but never closes one early.
RefsAccounted ==
  \A fd \in Fds : RefOf(reg, fd) = Cardinality(Counted(fd)) + lost[fd]

\* Where no reference was lost, the descriptors of live objects are open and
\* theirs; their addresses are mapped in full, but for those a write took down.
\* (After a lost one the registry outlives the descriptor, and a new buffer that
\* the kernel gives the same number inherits the entry of the old one.)
FbUsable ==
  \A id \in DOMAIN bos : LET bo == bos[id] IN
    ~bo.named /\ lost[bo.fd] = 0 =>
      /\ bo.fd \in DOMAIN fdt /\ fdt[bo.fd] = Data(bo.buf)
      /\ bo.mfd # NoFd => bo.mfd \in DOMAIN fdt /\ fdt[bo.mfd] = Meta(bo.buf)
      /\ bo.cpu # NULL => Mapped(bo.cpu, Data(bo.buf)) \/ bo.cpu \in torn
      /\ bo.mt # NULL => Mapped(bo.mt, Meta(bo.buf)) \/ bo.mt \in torn

\* A bad metadata address is dereferenced only after a write took one down.
SegvOnlyTorn == segv => torn # {}
=============================================================================
