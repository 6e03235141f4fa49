------------------------------ MODULE GbmMetadata ------------------------------
(***************************************************************************)
(* The metadata page of one buffer: a struct meta_data_t that every        *)
(* process with the metadata descriptor maps, and that set_metadata and    *)
(* get_metadata read and write without a lock, one word of it per step.    *)
(*                                                                         *)
(* What a buffer object knows of the page depends on how it was imported:  *)
(* its metadata fd and its address are two fields, filled in at different  *)
(* times and tested by different calls.  The page itself stays while an    *)
(* object is on it (GbmBo is about that).                                  *)
(***************************************************************************)
EXTENDS GbmMapper, FiniteSets

CONSTANTS
  Procs,     \* processes, each making one call at a time
  Creator,   \* the process whose bo_create made the buffer
  Ids,       \* buffer objects, of any process
  Imports,   \* how other objects come about
  Overlap,   \* may two sets run at a time?
  Fb,        \* the FB backend
  Keys,      \* the keys used
  Colours,   \* the colour metadata used: <<primaries, range>>
  Spaces,    \* the colour spaces used
  Secure     \* the buffer is protected, and its page says so

AllImports == {"gbm", "wl", "fd", "fdmod", "name"}

\* PLAIN stands for the keys whose getter reads one word and nothing else
\* (interlaced, refresh rate, timestamp, ...), UNKNOWN for those set_metadata does
\* not support.
AllKeys == {"COLOR_SPACE", "COLOR_METADATA", "PLAIN", "UNKNOWN"}

ASSUME MetadataAssumption ==
  /\ Creator \in Procs
  /\ Imports \subseteq AllImports
  /\ "fdmod" \in Imports => ~Fb
  /\ Overlap \in BOOLEAN
  /\ Fb \in BOOLEAN
  /\ Keys \subseteq AllKeys
  /\ Secure \in BOOLEAN
  /\ Colours \subseteq STRING \X {0, 1}
  /\ Spaces \subseteq 1 .. 5

-----------------------------------------------------------------------------
(* The page.                                                               *)

SetKeys == Keys
GetKeys == Keys \cup {"SECURE_BUF_STAT"}

\* What a set of key may store: the words it writes, with their values.
Params(key) ==
  CASE key = "COLOR_SPACE"    -> [{"color_space"} -> Spaces]
    [] key = "COLOR_METADATA" -> {[primaries |-> c[1], range |-> c[2]] : c \in Colours}
    [] key = "PLAIN"          -> [{"plain"} -> {1}]
    [] key = "UNKNOWN"        -> {EmptyMap}

\* memset of the new page, and the two fields bo_create fills in.
NewPage == [operation |-> {}, color_space |-> 0, primaries |-> "none", range |-> 0,
            plain |-> 0, secure |-> Secure]

\* GBM_METADATA_COLOR_SPACE_*, as the getter derives it from the colour metadata.
Derived(primaries, range) ==
  CASE primaries = "BT709_5"     -> 3
    [] primaries = "BT601_6_525" -> 1 + range
    [] primaries = "BT2020"      -> 4 + range
    [] OTHER                     -> 0

\* The words a getter still has to read, having seen some.
Needs(key, seen) ==
  LET need ==
    CASE key = "PLAIN"           -> {"plain"}
      [] key = "SECURE_BUF_STAT" -> {"secure"}
      [] key = "COLOR_METADATA"  -> {"primaries", "range"}
      [] key = "UNKNOWN"         -> {}
      [] key = "COLOR_SPACE"     ->
           IF "operation" \notin DOMAIN seen THEN {"operation"}
           ELSE IF "COLOR_SPACE" \in seen.operation THEN {"color_space"}
           ELSE IF "COLOR_METADATA" \in seen.operation THEN {"primaries", "range"}
           ELSE {}
  IN need \ DOMAIN seen

\* What it makes of them.
Answer(key, seen) ==
  CASE key = "COLOR_SPACE" ->
         IF "COLOR_SPACE" \in seen.operation THEN <<seen.color_space>>
         ELSE IF "COLOR_METADATA" \in seen.operation
         THEN <<Derived(seen.primaries, seen.range)>> ELSE <<0>>
    [] key = "COLOR_METADATA"  -> <<seen.primaries, seen.range>>
    [] key = "PLAIN"           -> <<seen.plain>>
    [] key = "SECURE_BUF_STAT" -> <<seen.secure>>

-----------------------------------------------------------------------------
VARIABLES
  page,  \* the metadata page
  known, \* the registry entry of the buffer in each process
  objs,  \* live objects
  call,  \* what each process is doing, and the last answer given
  want   \* history: the page as the sets that returned success mean it

vars == <<page, known, objs, call, want>>

Mfd == 1          \* the metadata fd, whatever its number is in a process
Addr == 1         \* the address of the page in a process that mapped it
Idle == [pc |-> "idle"]
Nothing == [mfd |-> NoFd, mt |-> NULL]
Everything == [mfd |-> Mfd, mt |-> Addr]

Init ==
  /\ page = NewPage
  /\ known = [p \in Procs |-> IF p = Creator THEN Everything ELSE Nothing]
  /\ \E id \in Ids : objs =
       Put(EmptyMap, id, [proc |-> Creator, mfd |-> Mfd, mt |-> Addr, named |-> FALSE])
  /\ call = [p \in Procs |-> Idle]
  /\ want = NewPage

-----------------------------------------------------------------------------
(* Objects come and go.                                                    *)

Of(p) == {id \in DOMAIN objs : objs[id].proc = p}

\* The objects that took a reference, which is what the process's registry entry
\* counts: import_from_name takes none.
Counted(p) == {id \in Of(p) : ~objs[id].named}
Free(p) == call[p].pc \in {"idle", "answered"}

\* p goes on to c, and no process keeps an answer it was given before.
Goto(p, c) ==
  call' = [q \in Procs |-> IF q = p THEN c ELSE IF Free(q) THEN Idle ELSE call[q]]

\* What import_fd, import_fd_modifier, import_wl_buffer without a metadata fd and
\* import_from_name put into the object; the registry learns nothing from them.
View(how, e) ==
  CASE how = "fd"    -> e
    [] how = "fdmod" -> [mfd |-> NoFd, mt |-> e.mt]
    [] how = "wl"    -> [mfd |-> NoFd, mt |-> e.mt]
    [] how = "name"  -> [mfd |-> 0, mt |-> NULL]

Add(p, id, v, named) ==
  objs' = Put(objs, id, [proc |-> p, mfd |-> v.mfd, mt |-> v.mt, named |-> named])

ImportBare(p, how, id) ==
  /\ Free(p)
  /\ id \notin DOMAIN objs
  /\ how \in Imports \ {"gbm"}
  /\ how = "name" => Counted(p) # {}
  /\ objs # EmptyMap
  /\ Add(p, id, View(how, known[p]), how = "name")
  /\ Goto(p, Idle)
  /\ UNCHANGED <<page, known, want>>

\* import_gbm_buf and import_wl_buffer, given a metadata fd by a process that has
\* it: the page is mapped and the registry told.
ImportWithMeta(p, id) ==
  /\ Free(p)
  /\ id \notin DOMAIN objs
  /\ {"gbm", "wl"} \cap Imports # {}
  /\ \E other \in DOMAIN objs : objs[other].mfd = Mfd
  /\ known' = [known EXCEPT ![p] = Everything]
  /\ Add(p, id, Everything, FALSE)
  /\ Goto(p, Idle)
  /\ UNCHANGED <<page, want>>

\* bo_destroy; the last reference of the process takes the registry entry with it.
\* An object imported by name would give back a reference it never took: the client
\* keeps it, and a counted one with it, also when a get has filled in its metadata fd.
BoDestroy(p, id) ==
  /\ Free(p)
  /\ id \in Counted(p)
  /\ Counted(p) = {id} => Of(p) = {id}
  /\ objs' = Drop(objs, {id})
  /\ known' = IF Of(p) = {id} THEN [known EXCEPT ![p] = Nothing] ELSE known
  /\ Goto(p, Idle)
  /\ UNCHANGED <<page, want>>

-----------------------------------------------------------------------------
Setting == {p \in Procs : call[p].pc \in {"mask", "store"}}

SetAnswered(p, key, res) ==
  Goto(p, [pc |-> "answered", op |-> "set", key |-> key, res |-> res])

GetAnswered(p, key, res, value, clean) ==
  Goto(p, [pc |-> "answered", op |-> "get", key |-> key, res |-> res,
           value |-> value, clean |-> clean])

NoValue == <<>>

(* msmgbm_set_metadata.                                                    *)

\* Refused before the page is looked at; the metadata fd is not looked for.
Refused(id) == objs[id].mfd <= 0 \/ objs[id].mt = NULL

\* A set begins: the gets under way overlap it.
Begin(p, c) ==
  call' = [q \in Procs |->
            IF q = p THEN c
            ELSE IF call[q].pc = "read" THEN [call[q] EXCEPT !.clean = FALSE]
            ELSE IF Free(q) THEN Idle ELSE call[q]]

\* The check, and the read half of data->operation |= paramType (&= without param).
SetCall(p, id, key, param, null) ==
  /\ Free(p)
  /\ IF Refused(id)
     THEN SetAnswered(p, key, "bad_handle")
     ELSE /\ Overlap \/ Setting = {}
          /\ Begin(p, [pc |-> "mask", key |-> key, null |-> null, todo |-> param,
                       param |-> param, mask |-> page.operation])
  /\ UNCHANGED <<page, known, objs, want>>

\* Mutants of NewMask: the other keys' bits are lost, or a reset clears all.
NewMaskCleared(mask, key, null) == IF null THEN {} ELSE mask \cup {key}
NewMaskAssigned(mask, key, null) == IF null THEN mask \ {key} ELSE {key}

\* The operation mask a set writes back.  FB falls through to the |= after a reset.
\* Keys are or-ed in as bit patterns: every key of gbm_priv.h is one bit, and so is the
\* UNKNOWN one here (a pattern of several bits would set those of other keys).
NewMask(mask, key, null) == IF null /\ ~Fb THEN mask \ {key} ELSE mask \cup {key}

\* Mutant of Supported: every key is taken for one with a field.
SupportedAlways(key) == TRUE

\* The switch over paramType has a case for the key.
Supported(key) == key # "UNKNOWN"

\* The write half.  A reset ends here in DRM, and FB goes on to read *NULL.
SetMask(p) ==
  LET c == call[p]
  IN /\ c.pc = "mask"
     /\ page' = [page EXCEPT !.operation = NewMask(c.mask, c.key, c.null)]
     /\ \/ /\ c.null
           /\ IF Fb /\ Supported(c.key)
              THEN Goto(p, [pc |-> "crashed"]) /\ UNCHANGED want
              ELSE /\ SetAnswered(p, c.key, IF Fb THEN "unsupported" ELSE "bad_value")
                   /\ want' = [want EXCEPT !.operation =
                                IF Fb THEN @ \cup {c.key} ELSE @ \ {c.key}]
        \/ /\ ~c.null
           /\ IF ~Supported(c.key)
              THEN /\ SetAnswered(p, c.key, "unsupported")
                   /\ want' = [want EXCEPT !.operation = @ \cup {c.key}]
              ELSE Goto(p, [c EXCEPT !.pc = "store"]) /\ UNCHANGED want
     /\ UNCHANGED <<known, objs>>

\* One word of the value; after the last, the set returns.
Store(p, w) ==
  LET c == call[p]
      done == DOMAIN c.todo = {w}
  IN /\ c.pc = "store"
     /\ w \in DOMAIN c.todo
     /\ page' = [page EXCEPT ![w] = c.todo[w]]
     /\ IF done
        THEN /\ SetAnswered(p, c.key, "none")
             /\ want' = [x \in DOMAIN want |->
                          IF x \in DOMAIN c.param THEN c.param[x]
                          ELSE IF x = "operation" THEN want.operation \cup {c.key}
                          ELSE want[x]]
        ELSE Goto(p, [c EXCEPT !.todo = Drop(@, {w})]) /\ UNCHANGED want
     /\ UNCHANGED <<known, objs>>

(* msmgbm_get_metadata, and the perform queries that end in it.            *)

\* Mutant of Refreshed: the object never learns a metadata fd that came later.
RefreshedNever(mfd, e) == mfd

\* An object without metadata fd takes over the one registered since: the fd, not
\* the address next to it.
Refreshed(mfd, e) == IF mfd <= 0 /\ e.mfd > 0 THEN e.mfd ELSE mfd

\* GBM_PERFORM_GET_SECURE_BUFFER_STATUS clears the answer before it asks.
Untouched(key) == IF key = "SECURE_BUF_STAT" THEN <<FALSE>> ELSE NoValue

GetCall(p, id, key) ==
  LET mfd == Refreshed(objs[id].mfd, known[p])
  IN /\ Free(p)
     /\ objs' = [objs EXCEPT ![id].mfd = mfd]
     /\ IF mfd <= 0
        THEN GetAnswered(p, key, "none", Untouched(key), FALSE)
        ELSE IF objs[id].mt = NULL
        THEN GetAnswered(p, key, "bad_handle", Untouched(key), FALSE)
        ELSE IF ~Supported(key)
        THEN GetAnswered(p, key, "unsupported", NoValue, FALSE)
        ELSE Goto(p, [pc |-> "read", key |-> key, seen |-> EmptyMap, clean |-> Setting = {}])
     /\ UNCHANGED <<page, known, want>>

\* GBM_PERFORM_GET_METADATA_ION_FD takes it over too, but not into an object by name.
GetMetaFd(p, id) ==
  /\ Free(p)
  /\ objs[id].mfd < 0
  /\ objs' = [objs EXCEPT ![id].mfd = Refreshed(@, known[p])]
  /\ Goto(p, Idle)
  /\ UNCHANGED <<page, known, want>>

Read(p, w) ==
  LET c == call[p]
      seen == Put(c.seen, w, page[w])
  IN /\ c.pc = "read"
     /\ w \in Needs(c.key, c.seen)
     /\ IF Needs(c.key, seen) = {}
        THEN GetAnswered(p, c.key, "none", Answer(c.key, seen), c.clean)
        ELSE Goto(p, [c EXCEPT !.seen = seen])
     /\ UNCHANGED <<page, known, objs, want>>

-----------------------------------------------------------------------------
Words == DOMAIN NewPage

Next ==
  \E p \in Procs :
    \/ \E id \in Ids : ImportWithMeta(p, id) \/ BoDestroy(p, id)
    \/ \E id \in Ids, how \in Imports : ImportBare(p, how, id)
    \/ \E id \in Of(p), key \in SetKeys, null \in BOOLEAN :
         \E param \in Params(key) : SetCall(p, id, key, param, null)
    \/ \E id \in Of(p), key \in GetKeys : GetCall(p, id, key)
    \/ \E id \in Of(p) : GetMetaFd(p, id)
    \/ SetMask(p)
    \/ \E w \in Words : Store(p, w) \/ Read(p, w)

Spec == Init /\ [][Next]_vars

-----------------------------------------------------------------------------
Ranges == {0, 1}
Results == {"none", "bad_handle", "bad_value", "unsupported"}

\* Every variable holds what its C counterpart may hold, and a set under way has
\* something left to do.
TypeOK ==
  /\ page.operation \subseteq SetKeys /\ want.operation \subseteq SetKeys
  /\ \A x \in {page, want} :
       /\ x.color_space \in Spaces \cup {0}
       /\ x.primaries \in {c[1] : c \in Colours} \cup {"none"}
       /\ x.range \in Ranges
       /\ x.plain \in {0, 1}
       /\ x.secure = Secure
  /\ known \in [Procs -> {Nothing, Everything}]
  /\ MapsTo(objs, Ids, [proc : Procs, mfd : {NoFd, 0, Mfd}, mt : {NULL, Addr}, named : BOOLEAN])
  /\ \A p \in Procs :
       /\ call[p].pc \in {"idle", "answered", "mask", "store", "read", "crashed"}
       /\ call[p].pc = "answered" => call[p].res \in Results
       /\ call[p].pc = "store" => call[p].todo # EmptyMap
       /\ call[p].pc = "read" => Needs(call[p].key, call[p].seen) # {}

\* "Metdata-validate, set-get Matched" (gbmtest.c), in every process: a get that
\* no set overlapped answers what the sets before it mean, through whatever object
\* and in whatever process they were made: the colour space that was set, failing
\* that the one the colour metadata implies.
ReadBack ==
  \A p \in Procs : LET c == call[p] IN
    /\ c.pc = "answered" /\ c.op = "get" /\ c.clean
    => c.value = Answer(c.key, want)

\* Between sets the page holds exactly what the sets that returned mean, refused
\* and unsupported ones and resets included.
PageExact ==
  Setting = {} /\ (\A p \in Procs : call[p].pc # "crashed") => page = want

\* A get that answers nothing and reports success ("We will make a graceful exit")
\* does so only in a process that has no way to the page through any object: so
\* a protected buffer passes for an open one only where its metadata never came.
SilentOnlyUnknown ==
  \A p \in Procs : LET c == call[p] IN
    /\ c.pc = "answered" /\ c.op = "get" /\ c.res = "none"
    /\ c.value = NoValue \/ (c.key = "SECURE_BUF_STAT" /\ c.value # <<Secure>>)
    => /\ known[p] = Nothing
       /\ \A id \in Of(p) : objs[id].mt = NULL
=============================================================================
