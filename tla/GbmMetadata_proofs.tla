-------------------------- MODULE GbmMetadata_proofs --------------------------
(***************************************************************************)
(* Proofs about GbmMetadata, for any number of processes and objects.  In  *)
(* both backends, whether or not sets overlap: a get that reports success  *)
(* and answers nothing, or a wrong protection, comes from a process that   *)
(* has no way to the page; and all state is well typed.  Where sets do not *)
(* overlap: the page holds what the sets that returned mean, and in the    *)
(* DRM backend every get that no set overlaps answers so.                  *)
(***************************************************************************)
EXTENDS GbmMetadata, TLAPS

\* A set under way writes the words of its key; a get has read what it saw.
CallOk(c) ==
  /\ c.pc \in {"mask", "store"} =>
       {"pc", "todo"} \subseteq DOMAIN c /\ "secure" \notin DOMAIN c.todo
  /\ c.pc = "read" =>
       /\ {"pc", "key", "seen"} \subseteq DOMAIN c
       /\ c.key \in {"COLOR_SPACE", "COLOR_METADATA", "PLAIN", "SECURE_BUF_STAT"}
       /\ "secure" \in DOMAIN c.seen => c.seen.secure = Secure

\* The property, of one call c of process p.
Silent(c) ==
  /\ c.pc = "answered" /\ c.op = "get" /\ c.res = "none"
  /\ c.value = NoValue \/ (c.key = "SECURE_BUF_STAT" /\ c.value # <<Secure>>)

Pathless(p) == known[p] = Nothing /\ \A id \in Of(p) : objs[id].mt = NULL

\* The inductive invariant: the registry of a process knows the page as long as an
\* object of it has its address, and nothing overwrites the protection.
PathInv ==
  /\ known \in [Procs -> {Nothing, Everything}]
  /\ MapsTo(objs, Ids, [proc : Procs, mfd : {NoFd, 0, Mfd}, mt : {NULL, Addr}, named : BOOLEAN])
  /\ \A id \in DOMAIN objs : objs[id].mt # NULL => known[objs[id].proc] = Everything

SeenInv ==
  /\ DOMAIN page = Words
  /\ page.secure = Secure
  /\ DOMAIN call = Procs
  /\ \A p \in Procs : CallOk(call[p])

SilentInv == PathInv /\ SeenInv /\ \A p \in Procs : Silent(call[p]) => Pathless(p)

LEMMA IdleOk == CallOk(Idle) /\ ~Silent(Idle)
BY DEF CallOk, Silent, Idle

\* The others' answers are forgotten; what they are in the middle of goes on.
LEMMA OthersGoOn ==
  ASSUME SilentInv, NEW p \in Procs, NEW c, CallOk(c), Goto(p, c) \/ Begin(p, c)
  PROVE  /\ DOMAIN call' = Procs
         /\ call'[p] = c
         /\ \A q \in Procs : CallOk(call'[q])
         /\ \A q \in Procs : q # p => ~Silent(call'[q])
<1>1. DOMAIN call' = Procs /\ call'[p] = c
  BY DEF Goto, Begin
<1>2. ASSUME NEW q \in Procs, q # p PROVE CallOk(call'[q]) /\ ~Silent(call'[q])
  <2>1. CallOk(call[q])
    BY DEF SilentInv, SeenInv
  <2>2. CASE call'[q] = Idle
    BY <2>2, IdleOk
  <2>3. CASE call'[q] = call[q] /\ ~Free(q)
    BY <2>1, <2>3 DEF Free, Silent
  <2>4. CASE call[q].pc = "read" /\ call'[q] = [call[q] EXCEPT !.clean = FALSE]
    <3>1. call'[q].pc = "read" /\ call'[q].key = call[q].key /\ call'[q].seen = call[q].seen
          /\ DOMAIN call'[q] = DOMAIN call[q]
      BY <2>1, <2>4 DEF CallOk
    <3>. QED  BY <2>1, <2>4, <3>1 DEF CallOk, Silent
  <2>. QED  BY <1>2, <2>2, <2>3, <2>4 DEF Goto, Begin
<1>. QED  BY <1>1, <1>2

\* A step of p that leaves the registry and the objects' addresses as they are.
LEMMA PathSame ==
  ASSUME PathInv, known' = known, DOMAIN objs' = DOMAIN objs,
         \A id \in DOMAIN objs :
           /\ objs'[id] \in [proc : Procs, mfd : {NoFd, 0, Mfd}, mt : {NULL, Addr}, named : BOOLEAN]
           /\ objs'[id].proc = objs[id].proc /\ objs'[id].mt = objs[id].mt
  PROVE  PathInv'
BY DEF PathInv, MapsTo

\* A step that ends with p idle, or otherwise not silent.
LEMMA Quiet ==
  ASSUME SilentInv, PathInv', NEW p \in Procs, NEW c, CallOk(c), ~Silent(c),
         Goto(p, c) \/ Begin(p, c), DOMAIN page' = Words, page'.secure = Secure
  PROVE  SilentInv'
BY OthersGoOn DEF SilentInv, SeenInv

LEMMA Start == ASSUME Init PROVE SilentInv
<1>1. PathInv
  <2>. DEFINE obj == [proc |-> Creator, mfd |-> Mfd, mt |-> Addr, named |-> FALSE]
  <2>1. PICK id \in Ids : objs = Put(EmptyMap, id, obj)
    BY DEF Init
  <2>2. DOMAIN objs = {id} /\ objs[id] = obj
    BY <2>1 DEF Put, EmptyMap
  <2>3. known[Creator] = Everything /\ known \in [Procs -> {Nothing, Everything}]
    BY MetadataAssumption DEF Init
  <2>4. /\ obj \in [proc : Procs, mfd : {NoFd, 0, Mfd}, mt : {NULL, Addr}, named : BOOLEAN]
        /\ obj.proc = Creator
    BY MetadataAssumption
  <2>. HIDE DEF obj
  <2>. QED  BY <2>2, <2>3, <2>4 DEF PathInv, MapsTo
<1>2. SeenInv
  BY IdleOk DEF Init, SeenInv, NewPage, Words
<1>3. \A p \in Procs : ~Silent(call[p])
  BY IdleOk DEF Init
<1>. QED  BY <1>1, <1>2, <1>3 DEF SilentInv

\* What an import puts into an object has an address only where the registry does.
LEMMA ViewOk ==
  ASSUME NEW how \in Imports \ {"gbm"}, NEW e \in {Nothing, Everything}
  PROVE  /\ View(how, e).mfd \in {NoFd, 0, Mfd} /\ View(how, e).mt \in {NULL, Addr}
         /\ View(how, e).mt # NULL => e = Everything
<1>1. how \in {"fd", "fdmod", "wl", "name"}
  BY MetadataAssumption DEF AllImports
<1>. QED  BY <1>1 DEF View, Nothing, Everything

LEMMA AddKeepsPath ==
  ASSUME PathInv, NEW p \in Procs, NEW id \in Ids, NEW v, NEW named \in BOOLEAN,
         Add(p, id, v, named), id \notin DOMAIN objs,
         v.mfd \in {NoFd, 0, Mfd}, v.mt \in {NULL, Addr},
         known' \in [Procs -> {Nothing, Everything}],
         \A q \in Procs : known[q] = Everything => known'[q] = Everything,
         v.mt # NULL => known'[p] = Everything
  PROVE  PathInv'
<1>1. /\ DOMAIN objs' = DOMAIN objs \cup {id}
      /\ objs'[id] = [proc |-> p, mfd |-> v.mfd, mt |-> v.mt, named |-> named]
      /\ \A x \in DOMAIN objs : objs'[x] = objs[x]
  BY DEF Add, Put
<1>. QED  BY <1>1 DEF PathInv, MapsTo

LEMMA ImportBareOk ==
  ASSUME SilentInv, NEW p \in Procs, NEW how \in Imports, NEW id \in Ids, ImportBare(p, how, id)
  PROVE  SilentInv'
<1>1. known[p] \in {Nothing, Everything} /\ known' = known
  BY DEF ImportBare, SilentInv, PathInv
<1>2. PathInv'
  BY <1>1, ViewOk, AddKeepsPath DEF ImportBare, SilentInv, PathInv
<1>. QED  BY <1>2, IdleOk, Quiet DEF ImportBare, SilentInv, SeenInv

LEMMA ImportWithMetaOk ==
  ASSUME SilentInv, NEW p \in Procs, NEW id \in Ids, ImportWithMeta(p, id)
  PROVE  SilentInv'
<1>1. /\ known' \in [Procs -> {Nothing, Everything}]
      /\ known'[p] = Everything
      /\ \A q \in Procs : known[q] = Everything => known'[q] = Everything
  BY DEF ImportWithMeta, SilentInv, PathInv
<1>2. Everything.mfd = Mfd /\ Everything.mt = Addr
  BY DEF Everything
<1>3. PathInv'
  BY <1>1, <1>2, AddKeepsPath DEF ImportWithMeta, SilentInv
<1>. QED  BY <1>3, IdleOk, Quiet DEF ImportWithMeta, SilentInv, SeenInv

LEMMA BoDestroyOk ==
  ASSUME SilentInv, NEW p \in Procs, NEW id \in Ids, BoDestroy(p, id)
  PROVE  SilentInv'
<1>1. /\ DOMAIN objs' = DOMAIN objs \ {id}
      /\ \A x \in DOMAIN objs' : objs'[x] = objs[x]
  BY DEF BoDestroy, Drop
<1>2. /\ known' \in [Procs -> {Nothing, Everything}]
      /\ \A q \in Procs : q # p => known'[q] = known[q]
      /\ Of(p) # {id} => known' = known
  BY DEF BoDestroy, SilentInv, PathInv
<1>3. ASSUME NEW x \in DOMAIN objs', objs'[x].mt # NULL PROVE known'[objs'[x].proc] = Everything
  <2>1. x \in DOMAIN objs /\ x # id /\ known[objs[x].proc] = Everything /\ objs[x].proc \in Procs
    BY <1>1, <1>3 DEF SilentInv, PathInv, MapsTo
  <2>2. CASE objs[x].proc = p
    BY <1>1, <1>2, <2>1, <2>2 DEF Of
  <2>. QED  BY <1>1, <1>2, <2>1, <2>2
<1>4. PathInv'
  BY <1>1, <1>2, <1>3 DEF SilentInv, PathInv, MapsTo
<1>. QED  BY <1>4, IdleOk, Quiet DEF BoDestroy, SilentInv, SeenInv

LEMMA SetCallOk ==
  ASSUME SilentInv, NEW p \in Procs, NEW id \in Of(p), NEW key \in SetKeys, NEW null \in BOOLEAN,
         NEW param \in Params(key), SetCall(p, id, key, param, null)
  PROVE  SilentInv'
<1>1. PathInv' /\ page' = page
  BY DEF SetCall, SilentInv, PathInv
<1>2. "secure" \notin DOMAIN param
  <2>1. key \in {"COLOR_SPACE", "COLOR_METADATA", "PLAIN", "UNKNOWN"}
    BY MetadataAssumption DEF SetKeys, AllKeys
  <2>. QED  BY <2>1 DEF Params, EmptyMap
<1>3. CASE Refused(id)
  <2>. DEFINE c == [pc |-> "answered", op |-> "set", key |-> key, res |-> "bad_handle"]
  <2>1. CallOk(c) /\ ~Silent(c)
    BY DEF CallOk, Silent
  <2>2. Goto(p, c)
    BY <1>3 DEF SetCall, SetAnswered
  <2>. QED  BY <1>1, <2>1, <2>2, Quiet DEF SilentInv, SeenInv
<1>4. CASE ~Refused(id)
  <2>. DEFINE c == [pc |-> "mask", key |-> key, null |-> null, todo |-> param,
                    param |-> param, mask |-> page.operation]
  <2>1. CallOk(c) /\ ~Silent(c)
    BY <1>2 DEF CallOk, Silent
  <2>2. Begin(p, c)
    BY <1>4 DEF SetCall
  <2>. QED  BY <1>1, <2>1, <2>2, Quiet DEF SilentInv, SeenInv
<1>. QED  BY <1>3, <1>4

LEMMA SetMaskOk ==
  ASSUME SilentInv, NEW p \in Procs, SetMask(p)
  PROVE  SilentInv'
<1>. DEFINE c == call[p]
<1>1. PathInv' /\ DOMAIN page' = Words /\ page'.secure = Secure
  BY DEF SetMask, SilentInv, PathInv, SeenInv
<1>2. c.pc = "mask" /\ CallOk(c)
  BY DEF SetMask, SilentInv, SeenInv
<1>3. CASE Goto(p, [pc |-> "crashed"])
  <2>1. CallOk([pc |-> "crashed"]) /\ ~Silent([pc |-> "crashed"])
    BY DEF CallOk, Silent
  <2>. QED  BY <1>1, <1>3, <2>1, Quiet
<1>4. ASSUME NEW res, SetAnswered(p, c.key, res) PROVE SilentInv'
  <2>. DEFINE d == [pc |-> "answered", op |-> "set", key |-> c.key, res |-> res]
  <2>1. CallOk(d) /\ ~Silent(d)
    BY DEF CallOk, Silent
  <2>2. Goto(p, d)
    BY <1>4 DEF SetAnswered
  <2>. QED  BY <1>1, <2>1, <2>2, Quiet
<1>5. CASE Goto(p, [c EXCEPT !.pc = "store"])
  <2>1. CallOk([c EXCEPT !.pc = "store"]) /\ ~Silent([c EXCEPT !.pc = "store"])
    BY <1>2 DEF CallOk, Silent
  <2>. QED  BY <1>1, <1>5, <2>1, Quiet
<1>. QED  BY <1>3, <1>4, <1>5 DEF SetMask

LEMMA StoreOk ==
  ASSUME SilentInv, NEW p \in Procs, NEW w \in Words, Store(p, w)
  PROVE  SilentInv'
<1>. DEFINE c == call[p]
<1>1. c.pc = "store" /\ CallOk(c) /\ w \in DOMAIN c.todo /\ w # "secure"
  BY DEF Store, SilentInv, SeenInv, CallOk
<1>2. PathInv' /\ DOMAIN page' = Words /\ page'.secure = Secure
  BY <1>1 DEF Store, SilentInv, PathInv, SeenInv
<1>3. CASE SetAnswered(p, c.key, "none")
  <2>. DEFINE d == [pc |-> "answered", op |-> "set", key |-> c.key, res |-> "none"]
  <2>1. CallOk(d) /\ ~Silent(d)
    BY DEF CallOk, Silent
  <2>2. Goto(p, d)
    BY <1>3 DEF SetAnswered
  <2>. QED  BY <1>2, <2>1, <2>2, Quiet
<1>4. CASE Goto(p, [c EXCEPT !.todo = Drop(@, {w})])
  <2>. DEFINE d == [c EXCEPT !.todo = Drop(@, {w})]
  <2>1. d.pc = "store" /\ DOMAIN d = DOMAIN c /\ d.todo = Drop(c.todo, {w})
    BY <1>1 DEF CallOk
  <2>2. CallOk(d) /\ ~Silent(d)
    BY <1>1, <2>1 DEF CallOk, Silent, Drop
  <2>. QED  BY <1>2, <1>4, <2>2, Quiet
<1>. QED  BY <1>3, <1>4 DEF Store

LEMMA RefreshedOk ==
  ASSUME NEW mfd \in {NoFd, 0, Mfd}, NEW e \in {Nothing, Everything}
  PROVE  /\ Refreshed(mfd, e) \in {NoFd, 0, Mfd}
         /\ Refreshed(mfd, e) <= 0 => e = Nothing
BY DEF Refreshed, Nothing, Everything, NoFd, Mfd

LEMMA RefreshKeepsPath ==
  ASSUME PathInv, NEW p \in Procs, NEW id \in Of(p), known' = known,
         objs' = [objs EXCEPT ![id].mfd = Refreshed(objs[id].mfd, known[p])]
  PROVE  PathInv'
<1>1. id \in DOMAIN objs /\ known[p] \in {Nothing, Everything}
      /\ objs[id] \in [proc : Procs, mfd : {NoFd, 0, Mfd}, mt : {NULL, Addr}, named : BOOLEAN]
  BY DEF Of, PathInv, MapsTo
<1>2. Refreshed(objs[id].mfd, known[p]) \in {NoFd, 0, Mfd}
  BY <1>1, RefreshedOk
<1>3. /\ objs'[id] \in [proc : Procs, mfd : {NoFd, 0, Mfd}, mt : {NULL, Addr}, named : BOOLEAN]
      /\ objs'[id].proc = objs[id].proc /\ objs'[id].mt = objs[id].mt
  BY <1>1, <1>2
<1>. QED  BY <1>1, <1>3, PathSame DEF PathInv, MapsTo

\* The answer of a get that looked at the page, or that p ends otherwise.
LEMMA AnsweredOk ==
  ASSUME SilentInv, PathInv', NEW p \in Procs, NEW key, NEW res, NEW value, NEW clean,
         GetAnswered(p, key, res, value, clean), page' = page,
         (res = "none" /\ (value = NoValue \/ (key = "SECURE_BUF_STAT" /\ value # <<Secure>>)))
           => Pathless(p)'
  PROVE  SilentInv'
<1>. DEFINE d == [pc |-> "answered", op |-> "get", key |-> key, res |-> res,
                  value |-> value, clean |-> clean]
<1>1. CallOk(d)
  BY DEF CallOk
<1>2. Goto(p, d)
  BY DEF GetAnswered
<1>3. /\ DOMAIN call' = Procs
      /\ call'[p] = d
      /\ \A q \in Procs : CallOk(call'[q])
      /\ \A q \in Procs : q # p => ~Silent(call'[q])
  BY <1>1, <1>2, OthersGoOn
<1>4. Silent(call'[p]) => Pathless(p)'
  BY <1>3 DEF Silent
<1>5. SeenInv'
  BY <1>3 DEF SilentInv, SeenInv
<1>. QED  BY <1>3, <1>4, <1>5 DEF SilentInv

\* The object and the registry entry know no descriptor only if there is no
\* address anywhere in the process.
LEMMA GetCallOk ==
  ASSUME SilentInv, NEW p \in Procs, NEW id \in Of(p), NEW key \in GetKeys, GetCall(p, id, key)
  PROVE  SilentInv'
<1>. DEFINE mfd == Refreshed(objs[id].mfd, known[p])
<1>1. known' = known /\ page' = page /\ PathInv'
  BY RefreshKeepsPath DEF GetCall, SilentInv
<1>2. id \in DOMAIN objs /\ objs[id].mfd \in {NoFd, 0, Mfd} /\ known[p] \in {Nothing, Everything}
  BY DEF Of, SilentInv, PathInv, MapsTo
<1>3. CASE mfd <= 0
  <2>1. known'[p] = Nothing
    BY <1>1, <1>2, <1>3, RefreshedOk
  <2>2. Nothing # Everything
    BY DEF Nothing, Everything, Mfd, NoFd
  <2>3. Pathless(p)'
    BY <1>1, <2>1, <2>2 DEF Pathless, PathInv, Of
  <2>4. GetAnswered(p, key, "none", Untouched(key), FALSE)
    BY <1>3 DEF GetCall
  <2>. QED  BY <1>1, <2>3, <2>4, AnsweredOk
<1>4. CASE GetAnswered(p, key, "bad_handle", Untouched(key), FALSE)
  BY <1>1, <1>4, AnsweredOk
<1>5. CASE GetAnswered(p, key, "unsupported", NoValue, FALSE)
  BY <1>1, <1>5, AnsweredOk
<1>6. CASE /\ Supported(key)
           /\ Goto(p, [pc |-> "read", key |-> key, seen |-> EmptyMap, clean |-> Setting = {}])
  <2>. DEFINE c == [pc |-> "read", key |-> key, seen |-> EmptyMap, clean |-> Setting = {}]
  <2>1. key \in {"COLOR_SPACE", "COLOR_METADATA", "PLAIN", "SECURE_BUF_STAT"}
    BY <1>6, MetadataAssumption DEF GetKeys, AllKeys, Supported
  <2>2. CallOk(c) /\ ~Silent(c)
    BY <2>1 DEF CallOk, Silent, EmptyMap
  <2>. QED  BY <1>1, <1>6, <2>2, Quiet DEF SilentInv, SeenInv
<1>. QED  BY <1>3, <1>4, <1>5, <1>6 DEF GetCall

LEMMA GetMetaFdOk ==
  ASSUME SilentInv, NEW p \in Procs, NEW id \in Of(p), GetMetaFd(p, id)
  PROVE  SilentInv'
<1>1. PathInv'
  BY RefreshKeepsPath DEF GetMetaFd, SilentInv
<1>. QED  BY <1>1, IdleOk, Quiet DEF GetMetaFd, SilentInv, SeenInv

\* A get that reads the page answers with something, and with the protection it has.
LEMMA ReadOk ==
  ASSUME SilentInv, NEW p \in Procs, NEW w \in Words, Read(p, w)
  PROVE  SilentInv'
<1>. DEFINE c == call[p]
            seen == Put(c.seen, w, page[w])
<1>1. c.pc = "read" /\ CallOk(c) /\ w \in Needs(c.key, c.seen)
  BY DEF Read, SilentInv, SeenInv
<1>2. PathInv' /\ page' = page
  BY DEF Read, SilentInv, PathInv
<1>3. "secure" \in DOMAIN seen => seen.secure = Secure
  BY <1>1 DEF CallOk, Put, SilentInv, SeenInv
<1>4. CASE GetAnswered(p, c.key, "none", Answer(c.key, seen), c.clean) /\ Needs(c.key, seen) = {}
  <2>1. c.key \in {"COLOR_SPACE", "COLOR_METADATA", "PLAIN", "SECURE_BUF_STAT"}
    BY <1>1 DEF CallOk
  <2>2. Answer(c.key, seen) # NoValue
    BY <2>1 DEF Answer, NoValue
  <2>3. c.key = "SECURE_BUF_STAT" => Answer(c.key, seen) = <<Secure>>
    <3>1. c.key = "SECURE_BUF_STAT" => "secure" \in DOMAIN seen
      BY <1>1 DEF Needs, Put
    <3>. QED  BY <1>3, <3>1 DEF Answer
  <2>. QED  BY <1>2, <1>4, <2>2, <2>3, AnsweredOk
<1>5. CASE Goto(p, [c EXCEPT !.seen = seen])
  <2>. DEFINE d == [c EXCEPT !.seen = seen]
  <2>1. d.pc = "read" /\ d.key = c.key /\ d.seen = seen /\ DOMAIN d = DOMAIN c
    BY <1>1 DEF CallOk
  <2>2. CallOk(d) /\ ~Silent(d)
    BY <1>1, <1>3, <2>1 DEF CallOk, Silent
  <2>. QED  BY <1>2, <1>5, <2>2, Quiet DEF SilentInv, SeenInv
<1>. QED  BY <1>4, <1>5 DEF Read

LEMMA StepSilent == ASSUME SilentInv, [Next]_vars PROVE SilentInv'
<1>1. CASE UNCHANGED vars
  BY <1>1 DEF vars, SilentInv, PathInv, SeenInv, Pathless, Of
<1>2. ASSUME NEW p \in Procs, NEW id \in Ids, ImportWithMeta(p, id) \/ BoDestroy(p, id)
      PROVE  SilentInv'
  BY <1>2, ImportWithMetaOk, BoDestroyOk
<1>3. ASSUME NEW p \in Procs, NEW id \in Ids, NEW how \in Imports, ImportBare(p, how, id)
      PROVE  SilentInv'
  BY <1>3, ImportBareOk
<1>4. ASSUME NEW p \in Procs, NEW id \in Of(p), NEW key \in SetKeys, NEW null \in BOOLEAN,
             NEW param \in Params(key), SetCall(p, id, key, param, null)
      PROVE  SilentInv'
  BY <1>4, SetCallOk
<1>5. ASSUME NEW p \in Procs, NEW id \in Of(p), NEW key \in GetKeys, GetCall(p, id, key)
      PROVE  SilentInv'
  BY <1>5, GetCallOk
<1>6. ASSUME NEW p \in Procs, NEW id \in Of(p), GetMetaFd(p, id)
      PROVE  SilentInv'
  BY <1>6, GetMetaFdOk
<1>7. ASSUME NEW p \in Procs, SetMask(p) PROVE SilentInv'
  BY <1>7, SetMaskOk
<1>8. ASSUME NEW p \in Procs, NEW w \in Words, Store(p, w) \/ Read(p, w)
      PROVE  SilentInv'
  BY <1>8, StoreOk, ReadOk
<1>. QED  BY <1>1, <1>2, <1>3, <1>4, <1>5, <1>6, <1>7, <1>8 DEF Next

\* A get that reports success without an answer (msmgbm.c:3009, "We will make a
\* graceful exit"), or says that a protected buffer is open, does so only in a
\* process that has no way to the page through any object: for any number of
\* processes and objects, in both backends, with sets that overlap or crash, and for
\* clients that keep what they imported by name (BoDestroy).
THEOREM SilentMeansPathless == Spec => []SilentOnlyUnknown
<1>1. SilentInv => SilentOnlyUnknown
  BY DEF SilentInv, SilentOnlyUnknown, Silent, Pathless
<1>. QED  BY <1>1, Start, StepSilent, PTL DEF Spec

-----------------------------------------------------------------------------
(* Types, and what a set under way has left to do.                         *)

PageOk(x) ==
  /\ DOMAIN x = Words
  /\ x.operation \subseteq SetKeys
  /\ x.color_space \in Spaces \cup {0}
  /\ x.primaries \in {c[1] : c \in Colours} \cup {"none"}
  /\ x.range \in Ranges
  /\ x.plain \in {0, 1}
  /\ x.secure = Secure

CallTyped(c) ==
  /\ c.pc \in {"idle", "answered", "mask", "store", "read", "crashed"}
  /\ c.pc = "answered" => c.res \in Results
  /\ c.pc \in {"mask", "store"} =>
       /\ {"pc", "key", "null", "todo", "param", "mask"} \subseteq DOMAIN c
       /\ c.key \in SetKeys /\ c.null \in BOOLEAN
       /\ c.param \in Params(c.key) /\ c.mask \subseteq SetKeys
       /\ DOMAIN c.todo \subseteq DOMAIN c.param
       /\ \A w \in DOMAIN c.todo : c.todo[w] = c.param[w]
  /\ c.pc = "mask" => DOMAIN c.todo = DOMAIN c.param
  /\ c.pc = "store" => c.null = FALSE /\ Supported(c.key) /\ DOMAIN c.todo # {}
  /\ c.pc = "read" =>
       /\ {"pc", "key", "seen", "clean"} \subseteq DOMAIN c
       /\ c.key \in GetKeys \ {"UNKNOWN"} /\ c.clean \in BOOLEAN
       /\ Needs(c.key, c.seen) # {}

CallsInv == PageOk(page) /\ PageOk(want) /\ \A p \in Procs : CallTyped(call[p])

LEMMA KeysAre == AllKeys = {"COLOR_SPACE", "COLOR_METADATA", "PLAIN", "UNKNOWN"} /\ SetKeys \subseteq AllKeys
BY MetadataAssumption DEF AllKeys, SetKeys

LEMMA WordsAre ==
  Words = {"operation", "color_space", "primaries", "range", "plain", "secure"}
BY DEF Words, NewPage

\* A set writes words of the page, each with a value it may hold.
LEMMA ParamWords ==
  ASSUME NEW key \in SetKeys, NEW param \in Params(key)
  PROVE  /\ DOMAIN param \subseteq {"color_space", "primaries", "range", "plain"}
         /\ Supported(key) => DOMAIN param # {}
         /\ "color_space" \in DOMAIN param => param["color_space"] \in Spaces
         /\ "primaries" \in DOMAIN param => param["primaries"] \in {c[1] : c \in Colours}
         /\ "range" \in DOMAIN param => param["range"] \in Ranges
         /\ "plain" \in DOMAIN param => param["plain"] = 1
<1>1. CASE key = "COLOR_SPACE"
  BY <1>1 DEF Params
<1>2. CASE key = "COLOR_METADATA"
  <2>1. PICK c \in Colours : param = [primaries |-> c[1], range |-> c[2]]
    BY <1>2 DEF Params
  <2>2. c[2] \in {0, 1}
    BY MetadataAssumption
  <2>. QED  BY <2>1, <2>2 DEF Ranges
<1>3. CASE key = "PLAIN"
  BY <1>3 DEF Params
<1>4. CASE key = "UNKNOWN"
  BY <1>4 DEF Params, EmptyMap, Supported
<1>. QED  BY <1>1, <1>2, <1>3, <1>4, KeysAre

\* Writing one word of a set leaves a page that is one.
LEMMA WordWritten ==
  ASSUME NEW x, PageOk(x), NEW key \in SetKeys, NEW param \in Params(key),
         NEW w \in DOMAIN param
  PROVE  PageOk([x EXCEPT ![w] = param[w]])
<1>1. w \in {"color_space", "primaries", "range", "plain"}
  BY ParamWords
<1>2. CASE w = "color_space"
  BY <1>2, ParamWords, WordsAre DEF PageOk
<1>3. CASE w = "primaries"
  BY <1>3, ParamWords, WordsAre DEF PageOk
<1>4. CASE w = "range"
  BY <1>4, ParamWords, WordsAre DEF PageOk
<1>5. CASE w = "plain"
  BY <1>5, ParamWords, WordsAre DEF PageOk
<1>. QED  BY <1>1, <1>2, <1>3, <1>4, <1>5

LEMMA MaskWritten ==
  ASSUME NEW x, PageOk(x), NEW mask, mask \subseteq SetKeys
  PROVE  PageOk([x EXCEPT !.operation = mask])
BY WordsAre DEF PageOk

LEMMA NewMaskOk ==
  ASSUME NEW mask, mask \subseteq SetKeys, NEW key \in SetKeys, NEW null
  PROVE  NewMask(mask, key, null) \subseteq SetKeys
BY DEF NewMask

\* A set that returns: its words and its key's bit are part of what the page means.
Meant(c) ==
  [x \in Words |-> IF x \in DOMAIN c.param THEN c.param[x]
                   ELSE IF x = "operation" THEN want.operation \cup {c.key}
                   ELSE want[x]]

LEMMA MeantOk ==
  ASSUME PageOk(want), NEW c, c.key \in SetKeys, c.param \in Params(c.key)
  PROVE  PageOk(Meant(c))
BY ParamWords, WordsAre DEF PageOk, Meant

LEMMA IdleTyped == CallTyped(Idle)
BY DEF CallTyped, Idle

\* Where p goes on to c, and the pages stay pages.
LEMMA GoesOnTyped ==
  ASSUME CallsInv, NEW p \in Procs, NEW c, CallTyped(c), Goto(p, c) \/ Begin(p, c),
         PageOk(page'), PageOk(want')
  PROVE  CallsInv'
<1>1. ASSUME NEW q \in Procs PROVE CallTyped(call'[q])
  <2>1. CallTyped(call[q])
    BY DEF CallsInv
  <2>2. CASE call[q].pc = "read" /\ call'[q] = [call[q] EXCEPT !.clean = FALSE]
    <3>1. /\ call'[q].pc = "read" /\ call'[q].key = call[q].key
          /\ call'[q].seen = call[q].seen /\ call'[q].clean = FALSE
          /\ DOMAIN call'[q] = DOMAIN call[q]
      BY <2>1, <2>2 DEF CallTyped
    <3>. QED  BY <2>1, <2>2, <3>1 DEF CallTyped
  <2>. QED  BY <2>1, <2>2, IdleTyped DEF Goto, Begin
<1>. QED  BY <1>1 DEF CallsInv, PageOk

LEMMA AnsweredTyped ==
  ASSUME NEW d, d.pc = "answered", d.res \in Results
  PROVE  CallTyped(d)
BY DEF CallTyped

LEMMA StartTyped == ASSUME Init PROVE CallsInv
<1>1. PageOk(NewPage)
  BY WordsAre DEF PageOk, NewPage, Ranges
<1>. QED  BY <1>1, IdleTyped DEF CallsInv, Init

\* The calls that do not look at the page.
LEMMA ObjectsTyped ==
  ASSUME CallsInv, NEW p \in Procs, Goto(p, Idle), UNCHANGED <<page, want>>
  PROVE  CallsInv'
BY IdleTyped, GoesOnTyped DEF CallsInv

LEMMA SetCallTyped ==
  ASSUME CallsInv, NEW p \in Procs, NEW id, NEW key \in SetKeys, NEW null \in BOOLEAN,
         NEW param \in Params(key), SetCall(p, id, key, param, null)
  PROVE  CallsInv'
<1>1. page' = page /\ want' = want
  BY DEF SetCall
<1>2. CASE Refused(id)
  <2>. DEFINE d == [pc |-> "answered", op |-> "set", key |-> key, res |-> "bad_handle"]
  <2>1. CallTyped(d)
    BY AnsweredTyped DEF Results
  <2>. QED  BY <1>1, <1>2, <2>1, GoesOnTyped DEF SetCall, SetAnswered, CallsInv
<1>3. CASE ~Refused(id)
  <2>. DEFINE c == [pc |-> "mask", key |-> key, null |-> null, todo |-> param,
                    param |-> param, mask |-> page.operation]
  <2>1. CallTyped(c)
    BY DEF CallTyped, CallsInv, PageOk
  <2>. QED  BY <1>1, <1>3, <2>1, GoesOnTyped DEF SetCall, CallsInv
<1>. QED  BY <1>2, <1>3

LEMMA SetMaskTyped ==
  ASSUME CallsInv, NEW p \in Procs, SetMask(p)
  PROVE  CallsInv'
<1>. DEFINE c == call[p]
<1>1. c.pc = "mask" /\ CallTyped(c)
  BY DEF SetMask, CallsInv
<1>2. PageOk(page')
  BY <1>1, NewMaskOk, MaskWritten DEF SetMask, CallTyped, CallsInv
<1>3. PageOk(want')
  <2>1. CASE want' = want
    BY <2>1 DEF CallsInv
  <2>2. ASSUME NEW mask, mask \subseteq SetKeys, want' = [want EXCEPT !.operation = mask]
        PROVE  PageOk(want')
    BY <2>2, MaskWritten DEF CallsInv
  <2>3. want.operation \cup {c.key} \subseteq SetKeys /\ want.operation \ {c.key} \subseteq SetKeys
    BY <1>1 DEF CallTyped, CallsInv, PageOk
  <2>. QED  BY <2>1, <2>2, <2>3 DEF SetMask
<1>4. CASE Goto(p, [pc |-> "crashed"])
  <2>1. CallTyped([pc |-> "crashed"])
    BY DEF CallTyped
  <2>. QED  BY <1>2, <1>3, <1>4, <2>1, GoesOnTyped
<1>5. ASSUME NEW res \in Results, SetAnswered(p, c.key, res) PROVE CallsInv'
  <2>. DEFINE d == [pc |-> "answered", op |-> "set", key |-> c.key, res |-> res]
  <2>1. CallTyped(d)
    BY AnsweredTyped
  <2>. QED  BY <1>2, <1>3, <1>5, <2>1, GoesOnTyped DEF SetAnswered
<1>6. CASE Goto(p, [c EXCEPT !.pc = "store"]) /\ ~c.null /\ Supported(c.key)
  <2>. DEFINE d == [c EXCEPT !.pc = "store"]
  <2>1. /\ d.pc = "store" /\ d.key = c.key /\ d.null = c.null /\ d.todo = c.todo
        /\ d.param = c.param /\ d.mask = c.mask /\ DOMAIN d = DOMAIN c
    BY <1>1 DEF CallTyped
  <2>2. DOMAIN c.todo # {} /\ c.null = FALSE
    BY <1>1, <1>6, ParamWords DEF CallTyped
  <2>3. CallTyped(d)
    BY <1>1, <1>6, <2>1, <2>2 DEF CallTyped
  <2>. QED  BY <1>2, <1>3, <1>6, <2>3, GoesOnTyped
<1>. QED  BY <1>4, <1>5, <1>6 DEF SetMask, Results

LEMMA StoreTyped ==
  ASSUME CallsInv, NEW p \in Procs, NEW w \in Words, Store(p, w)
  PROVE  CallsInv'
<1>. DEFINE c == call[p]
<1>1. c.pc = "store" /\ CallTyped(c) /\ w \in DOMAIN c.todo
  BY DEF Store, CallsInv
<1>2. PageOk(page')
  <2>1. /\ c.key \in SetKeys /\ c.param \in Params(c.key) /\ w \in DOMAIN c.param
        /\ c.todo[w] = c.param[w]
    BY <1>1 DEF CallTyped
  <2>2. page' = [page EXCEPT ![w] = c.param[w]]
    BY <2>1 DEF Store
  <2>. QED  BY <2>1, <2>2, WordWritten DEF CallsInv
<1>3. CASE SetAnswered(p, c.key, "none") /\ want' = Meant(c)
  <2>. DEFINE d == [pc |-> "answered", op |-> "set", key |-> c.key, res |-> "none"]
  <2>1. CallTyped(d)
    BY AnsweredTyped DEF Results
  <2>2. PageOk(want')
    BY <1>1, <1>3, MeantOk DEF CallTyped, CallsInv
  <2>. QED  BY <1>2, <1>3, <2>1, <2>2, GoesOnTyped DEF SetAnswered
<1>4. CASE Goto(p, [c EXCEPT !.todo = Drop(@, {w})]) /\ want' = want /\ DOMAIN c.todo # {w}
  <2>. DEFINE d == [c EXCEPT !.todo = Drop(@, {w})]
  <2>1. /\ d.pc = "store" /\ d.key = c.key /\ d.null = c.null /\ d.todo = Drop(c.todo, {w})
        /\ d.param = c.param /\ d.mask = c.mask /\ DOMAIN d = DOMAIN c
    BY <1>1 DEF CallTyped
  <2>2. /\ DOMAIN d.todo = DOMAIN c.todo \ {w}
        /\ \A x \in DOMAIN d.todo : d.todo[x] = c.todo[x]
    BY <2>1 DEF Drop
  <2>3. CallTyped(d)
    BY <1>1, <1>4, <2>1, <2>2 DEF CallTyped
  <2>4. PageOk(want')
    BY <1>4 DEF CallsInv
  <2>. QED  BY <1>2, <1>4, <2>3, <2>4, GoesOnTyped
<1>5. DOMAIN want = Words
  BY DEF CallsInv, PageOk
<1>. QED  BY <1>3, <1>4, <1>5 DEF Store, Meant

LEMMA GetCallTyped ==
  ASSUME CallsInv, NEW p \in Procs, NEW id, NEW key \in GetKeys, GetCall(p, id, key)
  PROVE  CallsInv'
<1>1. page' = page /\ want' = want
  BY DEF GetCall
<1>2. ASSUME NEW res \in Results, NEW value, NEW clean, GetAnswered(p, key, res, value, clean)
      PROVE  CallsInv'
  <2>. DEFINE d == [pc |-> "answered", op |-> "get", key |-> key, res |-> res,
                    value |-> value, clean |-> clean]
  <2>1. CallTyped(d)
    BY AnsweredTyped
  <2>. QED  BY <1>1, <1>2, <2>1, GoesOnTyped DEF GetAnswered, CallsInv
<1>3. CASE /\ Supported(key)
           /\ Goto(p, [pc |-> "read", key |-> key, seen |-> EmptyMap, clean |-> Setting = {}])
  <2>. DEFINE c == [pc |-> "read", key |-> key, seen |-> EmptyMap, clean |-> Setting = {}]
  <2>1. key \in {"COLOR_SPACE", "COLOR_METADATA", "PLAIN", "SECURE_BUF_STAT"}
    BY <1>3, KeysAre DEF GetKeys, SetKeys, Supported
  <2>2. Needs(key, EmptyMap) # {}
    BY <2>1 DEF Needs, EmptyMap
  <2>3. CallTyped(c)
    BY <2>1, <2>2 DEF CallTyped
  <2>. QED  BY <1>1, <1>3, <2>3, GoesOnTyped DEF CallsInv
<1>. QED  BY <1>2, <1>3 DEF GetCall, Results

LEMMA ReadTyped ==
  ASSUME CallsInv, NEW p \in Procs, NEW w \in Words, Read(p, w)
  PROVE  CallsInv'
<1>. DEFINE c == call[p]
            seen == Put(c.seen, w, page[w])
<1>1. c.pc = "read" /\ CallTyped(c) /\ page' = page /\ want' = want
  BY DEF Read, CallsInv
<1>2. CASE GetAnswered(p, c.key, "none", Answer(c.key, seen), c.clean)
  <2>. DEFINE d == [pc |-> "answered", op |-> "get", key |-> c.key, res |-> "none",
                    value |-> Answer(c.key, seen), clean |-> c.clean]
  <2>1. CallTyped(d)
    BY AnsweredTyped DEF Results
  <2>. QED  BY <1>1, <1>2, <2>1, GoesOnTyped DEF GetAnswered, CallsInv
<1>3. CASE Goto(p, [c EXCEPT !.seen = seen]) /\ Needs(c.key, seen) # {}
  <2>. DEFINE d == [c EXCEPT !.seen = seen]
  <2>1. d.pc = "read" /\ d.key = c.key /\ d.seen = seen /\ d.clean = c.clean
        /\ DOMAIN d = DOMAIN c
    BY <1>1 DEF CallTyped
  <2>2. CallTyped(d)
    BY <1>1, <1>3, <2>1 DEF CallTyped
  <2>. QED  BY <1>1, <1>3, <2>2, GoesOnTyped DEF CallsInv
<1>. QED  BY <1>2, <1>3 DEF Read

LEMMA StepTyped == ASSUME CallsInv, [Next]_vars PROVE CallsInv'
<1>1. CASE UNCHANGED vars
  BY <1>1 DEF vars, CallsInv
<1>2. ASSUME NEW p \in Procs, NEW id \in Ids,
             ImportWithMeta(p, id) \/ BoDestroy(p, id) \/ GetMetaFd(p, id)
      PROVE  CallsInv'
  BY <1>2, ObjectsTyped DEF ImportWithMeta, BoDestroy, GetMetaFd
<1>3. ASSUME NEW p \in Procs, NEW id \in Ids, NEW how \in Imports, ImportBare(p, how, id)
      PROVE  CallsInv'
  BY <1>3, ObjectsTyped DEF ImportBare
<1>4. ASSUME NEW p \in Procs, NEW id \in Of(p), NEW key \in SetKeys, NEW null \in BOOLEAN,
             NEW param \in Params(key), SetCall(p, id, key, param, null)
      PROVE  CallsInv'
  BY <1>4, SetCallTyped
<1>5. ASSUME NEW p \in Procs, NEW id \in Of(p), NEW key \in GetKeys, GetCall(p, id, key)
      PROVE  CallsInv'
  BY <1>5, GetCallTyped
<1>6. ASSUME NEW p \in Procs, NEW id \in Of(p), GetMetaFd(p, id)
      PROVE  CallsInv'
  BY <1>6, ObjectsTyped DEF GetMetaFd
<1>7. ASSUME NEW p \in Procs, SetMask(p) PROVE CallsInv'
  BY <1>7, SetMaskTyped
<1>8. ASSUME NEW p \in Procs, NEW w \in Words, Store(p, w) \/ Read(p, w)
      PROVE  CallsInv'
  BY <1>8, StoreTyped, ReadTyped
<1>. QED  BY <1>1, <1>2, <1>3, <1>4, <1>5, <1>6, <1>7, <1>8 DEF Next

\* Every word of the page and every field of an object holds a value of its kind, and
\* no set or get hangs with nothing left to do: both backends, sets overlapping or not.
THEOREM TypeCorrect == Spec => []TypeOK
<1>1. SilentInv /\ CallsInv => TypeOK
  <2>1. ASSUME NEW c, c.todo = EmptyMap PROVE DOMAIN c.todo = {}
    BY <2>1 DEF EmptyMap
  <2>. QED  BY <2>1 DEF SilentInv, PathInv, CallsInv, PageOk, CallTyped, TypeOK
<1>. QED  BY <1>1, Start, StartTyped, StepSilent, StepTyped, PTL DEF Spec

-----------------------------------------------------------------------------
(* Sets that do not overlap.                                               *)

Crashed == \E p \in Procs : call[p].pc = "crashed"

\* The page in the middle of the set c: the operation mask is written, and the
\* words that are no longer to do.
Stored(c) ==
  [x \in Words |-> IF x \in DOMAIN c.param \ DOMAIN c.todo THEN c.param[x]
                   ELSE IF x = "operation" THEN want.operation \cup {c.key}
                   ELSE want[x]]

\* What the page and want are to a call under way, or just answered.
ExactCall(c) ==
  /\ c.pc = "mask" => c.mask = want.operation /\ page = want
  /\ c.pc = "store" => page = Stored(c)
  /\ c.pc = "read" /\ c.clean =>
       Setting = {} /\ \A w \in DOMAIN c.seen : c.seen[w] = want[w]
  /\ c.pc = "answered" /\ c.op = "get" /\ c.clean => c.value = Answer(c.key, want)

SetsInv ==
  /\ \A p, q \in Setting : p = q
  /\ ~Crashed =>
       /\ Setting = {} => page = want
       /\ \A p \in Procs : ExactCall(call[p])

\* Others q of a process that goes on from p.
LEMMA OthersStay ==
  ASSUME SilentInv, NEW p \in Procs, NEW c, Goto(p, c)
  PROVE  /\ DOMAIN call' = Procs
         /\ call'[p] = c
         /\ \A q \in Procs : q # p /\ Free(q) => call'[q] = Idle
         /\ \A q \in Procs : q # p /\ ~Free(q) => call'[q] = call[q]
BY DEF Goto

LEMMA IdleExact == Idle.pc = "idle"
BY DEF Idle

\* A call that is no set, going on with the page as it was.
LEMMA NoSetExact ==
  ASSUME SilentInv, CallsInv, SetsInv, NEW p \in Procs, NEW c, Goto(p, c),
         page' = page, want' = want,
         Free(p) \/ call[p].pc = "read", c.pc \in {"idle", "answered", "read"},
         ~Crashed => ExactCall(c)
  PROVE  SetsInv'
<1>1. /\ DOMAIN call' = Procs /\ call'[p] = c
      /\ \A q \in Procs : q # p /\ Free(q) => call'[q] = Idle
      /\ \A q \in Procs : q # p /\ ~Free(q) => call'[q] = call[q]
  BY OthersStay
<1>2. \A q \in Procs : call'[q].pc \in {"mask", "store", "crashed"} => q # p /\ call'[q] = call[q]
  BY <1>1, IdleExact
<1>3. \A q \in Procs : call[q].pc \in {"mask", "store", "crashed"} => call'[q] = call[q]
  BY <1>1 DEF Free
<1>4. Setting' = Setting /\ (Crashed' <=> Crashed)
  BY <1>2, <1>3 DEF Setting, Crashed
<1>5. ASSUME ~Crashed', NEW q \in Procs PROVE ExactCall(call[q])'
  <2>1. ExactCall(c) /\ ExactCall(call[q])
    BY <1>4, <1>5 DEF SetsInv
  <2>2. CASE q = p
    BY <1>1, <1>4, <2>1, <2>2 DEF ExactCall, Stored
  <2>3. CASE q # p /\ call'[q] = call[q]
    BY <1>4, <2>1, <2>3 DEF ExactCall, Stored
  <2>4. CASE call'[q] = Idle
    BY <2>4, IdleExact DEF ExactCall
  <2>. QED  BY <1>1, <2>2, <2>3, <2>4
<1>. QED  BY <1>4, <1>5 DEF SetsInv

\* The one process that sets goes on; the gets under way overlapped it.
LEMMA SetterExact ==
  ASSUME SilentInv, CallsInv, SetsInv, NEW p \in Setting, NEW d, Goto(p, d), d.pc # "read"
  PROVE  /\ call'[p] = d
         /\ Setting' = IF d.pc \in {"mask", "store"} THEN {p} ELSE {}
         /\ Crashed' <=> Crashed \/ d.pc = "crashed"
         /\ ~Crashed => \A q \in Procs : q # p => ExactCall(call[q])'
<1>1. p \in Procs /\ Setting = {p} /\ call[p].pc \in {"mask", "store"}
  BY DEF Setting, SetsInv
<1>2. /\ DOMAIN call' = Procs /\ call'[p] = d
      /\ \A q \in Procs : q # p /\ Free(q) => call'[q] = Idle
      /\ \A q \in Procs : q # p /\ ~Free(q) => call'[q] = call[q]
  BY <1>1, OthersStay
<1>3. \A q \in Procs : q # p => call[q].pc \notin {"mask", "store"}
  BY <1>1 DEF Setting
<1>4. Setting' = IF d.pc \in {"mask", "store"} THEN {p} ELSE {}
  BY <1>1, <1>2, <1>3, IdleExact DEF Setting
<1>5. Crashed' <=> Crashed \/ d.pc = "crashed"
  BY <1>1, <1>2, IdleExact DEF Crashed, Free
<1>6. ASSUME ~Crashed, NEW q \in Procs, q # p PROVE ExactCall(call[q])'
  <2>1. ExactCall(call[q]) /\ CallTyped(call[q]) /\ call[q].pc # "crashed"
    BY <1>6 DEF SetsInv, CallsInv, Crashed
  <2>2. CASE call'[q] = Idle
    BY <2>2, IdleExact DEF ExactCall
  <2>3. CASE ~Free(q) /\ call'[q] = call[q]
    <3>1. call[q].pc = "read" /\ ~call[q].clean
      BY <1>1, <1>3, <1>6, <2>1, <2>3 DEF Free, CallTyped, ExactCall
    <3>. QED  BY <2>3, <3>1 DEF ExactCall
  <2>. QED  BY <1>2, <1>6, <2>2, <2>3
<1>. QED  BY <1>2, <1>4, <1>5, <1>6

\* A set that returns: the page is what want has become.
LEMMA SetReturns ==
  ASSUME SilentInv, CallsInv, SetsInv, NEW p \in Setting, NEW key, NEW res,
         SetAnswered(p, key, res), ~Crashed => page' = want'
  PROVE  SetsInv'
<1>. DEFINE d == [pc |-> "answered", op |-> "set", key |-> key, res |-> res]
<1>1. Goto(p, d) /\ d.pc = "answered" /\ d.op = "set"
  BY DEF SetAnswered
<1>2. /\ call'[p] = d /\ Setting' = {} /\ (Crashed' <=> Crashed)
      /\ ~Crashed => \A q \in Procs : q # p => ExactCall(call[q])'
  BY <1>1, SetterExact
<1>3. ExactCall(call[p])'
  BY <1>1, <1>2 DEF ExactCall
<1>. QED  BY <1>2, <1>3 DEF SetsInv

LEMMA StartExact == ASSUME Init PROVE SetsInv
<1>1. \A p \in Procs : call[p].pc = "idle"
  BY IdleExact DEF Init
<1>2. Setting = {}
  BY <1>1 DEF Setting
<1>. QED  BY <1>1, <1>2 DEF SetsInv, ExactCall, Init

LEMMA SetCallExact ==
  ASSUME ~Overlap, SilentInv, CallsInv, SetsInv,
         NEW p \in Procs, NEW id, NEW key \in SetKeys, NEW null \in BOOLEAN,
         NEW param \in Params(key), SetCall(p, id, key, param, null)
  PROVE  SetsInv'
<1>1. page' = page /\ want' = want /\ Free(p)
  BY DEF SetCall
<1>2. CASE Refused(id)
  <2>. DEFINE d == [pc |-> "answered", op |-> "set", key |-> key, res |-> "bad_handle"]
  <2>1. Goto(p, d) /\ d.pc = "answered" /\ d.op = "set"
    BY <1>2 DEF SetCall, SetAnswered
  <2>2. ExactCall(d)
    BY <2>1 DEF ExactCall
  <2>. QED  BY <1>1, <2>1, <2>2, NoSetExact
<1>3. CASE ~Refused(id)
  <2>. PICK c : c = [pc |-> "mask", key |-> key, null |-> null, todo |-> param,
                     param |-> param, mask |-> page.operation]
    OBVIOUS
  <2>1. Setting = {} /\ Begin(p, c) /\ c.pc = "mask"
    BY <1>3 DEF SetCall
  <2>2. DOMAIN call' = Procs /\ call'[p] = c
    BY <2>1 DEF Begin
  <2>3. ASSUME NEW q \in Procs, q # p
        PROVE  /\ call'[q].pc \in {"idle", "read", "crashed"}
               /\ call'[q].pc = "read" => call'[q].clean = FALSE
               /\ call'[q].pc = "crashed" <=> call[q].pc = "crashed"
    <3>1. CallTyped(call[q]) /\ call[q].pc \notin {"mask", "store"}
      BY <2>1 DEF CallsInv, Setting
    <3>2. CASE call[q].pc = "read"
      <4>1. call'[q] = [call[q] EXCEPT !.clean = FALSE]
        BY <2>1, <2>3, <3>2 DEF Begin
      <4>. QED  BY <3>1, <3>2, <4>1 DEF CallTyped
    <3>3. CASE Free(q)
      BY <2>1, <2>3, <3>3, IdleExact DEF Begin, Free
    <3>4. CASE call[q].pc = "crashed"
      BY <2>1, <2>3, <3>4 DEF Begin, Free
    <3>. QED  BY <3>1, <3>2, <3>3, <3>4 DEF CallTyped, Free
  <2>4. Setting' = {p}
    BY <2>1, <2>2, <2>3 DEF Setting
  <2>5. Crashed' <=> Crashed
    BY <1>1, <2>1, <2>2, <2>3 DEF Crashed, Free
  <2>6. ASSUME ~Crashed', NEW q \in Procs PROVE ExactCall(call[q])'
    <3>1. CASE q = p
      <4>1. page = want
        BY <2>1, <2>5, <2>6 DEF SetsInv
      <4>. QED  BY <1>1, <2>2, <3>1, <4>1 DEF ExactCall
    <3>2. CASE q # p
      BY <2>3, <2>6, <3>2 DEF ExactCall, Crashed
    <3>. QED  BY <3>1, <3>2
  <2>. QED  BY <2>4, <2>6 DEF SetsInv
<1>. QED  BY <1>2, <1>3

LEMMA SetMaskExact ==
  ASSUME SilentInv, CallsInv, SetsInv, NEW p \in Procs, SetMask(p)
  PROVE  SetsInv'
<1>. DEFINE c == call[p]
<1>1. p \in Setting /\ c.pc = "mask" /\ CallTyped(c)
  BY DEF SetMask, CallsInv, Setting
<1>2. ~Crashed => page = want /\ c.mask = want.operation
  BY <1>1 DEF SetsInv, ExactCall
<1>3. DOMAIN page = Words /\ DOMAIN want = Words
  BY DEF CallsInv, PageOk
<1>4. page' = [page EXCEPT !.operation = NewMask(c.mask, c.key, c.null)]
  BY DEF SetMask
<1>5. CASE Goto(p, [pc |-> "crashed"])
  <2>1. Crashed' /\ Setting' = {}
    BY <1>1, <1>5, SetterExact
  <2>. QED  BY <2>1 DEF SetsInv
<1>6. ASSUME NEW res, SetAnswered(p, c.key, res),
             want' = [want EXCEPT !.operation = NewMask(want.operation, c.key, c.null)]
      PROVE  SetsInv'
  <2>1. ~Crashed => page' = want'
    BY <1>2, <1>4, <1>6
  <2>. QED  BY <1>1, <1>6, <2>1, SetReturns
<1>7. CASE Goto(p, [c EXCEPT !.pc = "store"]) /\ ~c.null /\ Supported(c.key) /\ want' = want
  <2>. PICK d : d = [c EXCEPT !.pc = "store"]
    OBVIOUS
  <2>1. d.pc = "store" /\ d.key = c.key /\ d.todo = c.todo /\ d.param = c.param
    BY <1>1 DEF CallTyped
  <2>2. /\ call'[p] = d /\ Setting' = {p} /\ (Crashed' <=> Crashed)
        /\ ~Crashed => \A q \in Procs : q # p => ExactCall(call[q])'
    BY <1>1, <1>7, <2>1, SetterExact
  <2>3. ASSUME ~Crashed PROVE page' = Stored(d)'
    <3>1. page' = [want EXCEPT !.operation = want.operation \cup {c.key}]
      BY <1>2, <1>4, <1>7, <2>3 DEF NewMask
    <3>2. DOMAIN d.param \ DOMAIN d.todo = {}
      BY <1>1, <2>1 DEF CallTyped
    <3>3. Stored(d)' = [x \in Words |-> IF x = "operation" THEN want.operation \cup {c.key}
                                        ELSE want[x]]
      BY <1>7, <2>1, <3>2 DEF Stored
    <3>. QED  BY <1>3, <3>1, <3>3, WordsAre
  <2>4. ~Crashed => ExactCall(call[p])'
    BY <2>1, <2>2, <2>3 DEF ExactCall, Stored
  <2>. QED  BY <2>2, <2>4 DEF SetsInv
<1>8. /\ c.null /\ Fb => NewMask(want.operation, c.key, c.null) = want.operation \cup {c.key}
      /\ c.null /\ ~Fb => NewMask(want.operation, c.key, c.null) = want.operation \ {c.key}
      /\ ~c.null => NewMask(want.operation, c.key, c.null) = want.operation \cup {c.key}
  BY DEF NewMask
<1>9. CASE c.null
  BY <1>5, <1>6, <1>8, <1>9 DEF SetMask
<1>10. CASE ~c.null
  BY <1>6, <1>7, <1>8, <1>10 DEF SetMask
<1>. QED  BY <1>9, <1>10

LEMMA StoreExact ==
  ASSUME SilentInv, CallsInv, SetsInv, NEW p \in Procs, NEW w \in Words, Store(p, w)
  PROVE  SetsInv'
<1>. DEFINE c == call[p]
<1>1. p \in Setting /\ c.pc = "store" /\ CallTyped(c) /\ w \in DOMAIN c.todo
  BY DEF Store, CallsInv, Setting
<1>2. /\ w \in DOMAIN c.param /\ c.todo[w] = c.param[w] /\ DOMAIN c.todo \subseteq DOMAIN c.param
      /\ DOMAIN c.param \subseteq {"color_space", "primaries", "range", "plain"}
  BY <1>1, ParamWords DEF CallTyped
<1>3. DOMAIN want = Words /\ page' = [page EXCEPT ![w] = c.param[w]]
  BY <1>1, <1>2 DEF CallsInv, PageOk, Store
<1>4. ~Crashed => page = Stored(c)
  BY <1>1 DEF SetsInv, ExactCall
<1>5. CASE SetAnswered(p, c.key, "none") /\ want' = Meant(c) /\ DOMAIN c.todo = {w}
  <2>1. ~Crashed => page' = want'
    BY <1>2, <1>3, <1>4, <1>5 DEF Stored, Meant
  <2>. QED  BY <1>1, <1>5, <2>1, SetReturns
<1>6. CASE Goto(p, [c EXCEPT !.todo = Drop(@, {w})]) /\ want' = want
  <2>. PICK d : d = [c EXCEPT !.todo = Drop(@, {w})]
    OBVIOUS
  <2>1. d.pc = "store" /\ d.key = c.key /\ d.todo = Drop(c.todo, {w}) /\ d.param = c.param
    BY <1>1 DEF CallTyped
  <2>2. DOMAIN d.todo = DOMAIN c.todo \ {w}
    BY <2>1 DEF Drop
  <2>3. /\ call'[p] = d /\ Setting' = {p} /\ (Crashed' <=> Crashed)
        /\ ~Crashed => \A q \in Procs : q # p => ExactCall(call[q])'
    BY <1>1, <1>6, <2>1, SetterExact
  <2>4. ~Crashed => page' = Stored(d)'
    <3>1. Stored(d)' = [x \in Words |-> IF x \in DOMAIN d.param \ DOMAIN d.todo THEN d.param[x]
                                        ELSE IF x = "operation" THEN want.operation \cup {d.key}
                                        ELSE want[x]]
      BY <1>6 DEF Stored
    <3>. SUFFICES ASSUME ~Crashed PROVE page' = Stored(d)'
      OBVIOUS
    <3>2. DOMAIN page = Words /\ \A x \in Words : page[x] =
            IF x \in DOMAIN c.param \ DOMAIN c.todo THEN c.param[x]
            ELSE IF x = "operation" THEN want.operation \cup {c.key} ELSE want[x]
      BY <1>4 DEF Stored
    <3>3. \A x \in Words : x \in DOMAIN d.param \ DOMAIN d.todo
                             <=> x \in DOMAIN c.param \ DOMAIN c.todo \/ x = w
      BY <1>2, <2>1, <2>2
    <3>4. w # "operation" /\ w \in DOMAIN page
      BY <1>2, <3>2
    <3>5. ASSUME NEW x \in Words PROVE page'[x] = Stored(d)'[x]
      <4>1. CASE x = w
        BY <1>2, <1>3, <2>1, <3>1, <3>3, <3>4, <4>1
      <4>2. CASE x # w
        <5>1. page'[x] = page[x]
          BY <1>3, <4>2
        <5>2. x \in DOMAIN d.param \ DOMAIN d.todo <=> x \in DOMAIN c.param \ DOMAIN c.todo
          BY <3>3, <4>2
        <5>3. Stored(d)'[x] = IF x \in DOMAIN d.param \ DOMAIN d.todo THEN d.param[x]
                              ELSE IF x = "operation" THEN want.operation \cup {d.key}
                              ELSE want[x]
          BY <3>1
        <5>. HIDE DEF c
        <5>. QED  BY <2>1, <3>2, <5>1, <5>2, <5>3
      <4>. QED  BY <4>1, <4>2
    <3>6. DOMAIN page' = Words
      BY <1>3, <3>2
    <3>. QED  BY <1>3, <3>1, <3>5, <3>6
  <2>5. ~Crashed => ExactCall(call[p])'
    BY <2>1, <2>3, <2>4 DEF ExactCall, Stored
  <2>. QED  BY <2>3, <2>5 DEF SetsInv
<1>. QED  BY <1>3, <1>5, <1>6 DEF Store, Meant

LEMMA GetCallExact ==
  ASSUME SilentInv, CallsInv, SetsInv, NEW p \in Procs, NEW id, NEW key, GetCall(p, id, key)
  PROVE  SetsInv'
<1>1. page' = page /\ want' = want /\ Free(p)
  BY DEF GetCall
<1>2. ASSUME NEW res, NEW value, GetAnswered(p, key, res, value, FALSE)
      PROVE  SetsInv'
  <2>. DEFINE d == [pc |-> "answered", op |-> "get", key |-> key, res |-> res,
                    value |-> value, clean |-> FALSE]
  <2>1. Goto(p, d) /\ d.pc = "answered" /\ d.clean = FALSE
    BY <1>2 DEF GetAnswered
  <2>2. ExactCall(d)
    BY <2>1 DEF ExactCall
  <2>. QED  BY <1>1, <2>1, <2>2, NoSetExact
<1>3. CASE Goto(p, [pc |-> "read", key |-> key, seen |-> EmptyMap, clean |-> Setting = {}])
  <2>. DEFINE c == [pc |-> "read", key |-> key, seen |-> EmptyMap, clean |-> Setting = {}]
  <2>1. c.pc = "read" /\ (c.clean <=> Setting = {}) /\ DOMAIN c.seen = {}
    BY DEF EmptyMap
  <2>2. ExactCall(c)
    BY <2>1 DEF ExactCall
  <2>. QED  BY <1>1, <1>3, <2>1, <2>2, NoSetExact
<1>. QED  BY <1>2, <1>3 DEF GetCall

\* Words that agree with want, and all of those a getter needs, give its answer.
LEMMA SameAnswer ==
  ASSUME NEW key \in {"COLOR_SPACE", "COLOR_METADATA", "PLAIN", "SECURE_BUF_STAT"},
         NEW seen, Needs(key, seen) = {}, \A w \in DOMAIN seen : seen[w] = want[w]
  PROVE  Answer(key, seen) = Answer(key, want)
BY DEF Needs, Answer

LEMMA ReadExact ==
  ASSUME SilentInv, CallsInv, SetsInv, NEW p \in Procs, NEW w \in Words, Read(p, w)
  PROVE  SetsInv'
<1>. DEFINE c == call[p]
            seen == Put(c.seen, w, page[w])
<1>1. c.pc = "read" /\ CallTyped(c) /\ page' = page /\ want' = want
  BY DEF Read, CallsInv
<1>2. c.key \in {"COLOR_SPACE", "COLOR_METADATA", "PLAIN", "SECURE_BUF_STAT"}
  BY <1>1, KeysAre DEF CallTyped, GetKeys, SetKeys
<1>3. ~Crashed /\ c.clean => Setting = {} /\ \A x \in DOMAIN seen : seen[x] = want[x]
  BY <1>1 DEF SetsInv, ExactCall, Put
<1>4. CASE GetAnswered(p, c.key, "none", Answer(c.key, seen), c.clean) /\ Needs(c.key, seen) = {}
  <2>. DEFINE d == [pc |-> "answered", op |-> "get", key |-> c.key, res |-> "none",
                    value |-> Answer(c.key, seen), clean |-> c.clean]
  <2>1. /\ Goto(p, d) /\ d.pc = "answered" /\ d.clean = c.clean
        /\ d.value = Answer(c.key, seen) /\ d.key = c.key
    BY <1>4 DEF GetAnswered
  <2>2. ~Crashed => ExactCall(d)
    BY <1>2, <1>3, <1>4, <2>1, SameAnswer DEF ExactCall
  <2>. QED  BY <1>1, <2>1, <2>2, NoSetExact
<1>5. CASE Goto(p, [c EXCEPT !.seen = seen])
  <2>. DEFINE d == [c EXCEPT !.seen = seen]
  <2>1. d.pc = "read" /\ d.seen = seen /\ d.clean = c.clean
    BY <1>1 DEF CallTyped
  <2>2. ~Crashed => ExactCall(d)
    BY <1>3, <2>1 DEF ExactCall
  <2>. QED  BY <1>1, <1>5, <2>1, <2>2, NoSetExact
<1>. QED  BY <1>4, <1>5 DEF Read

\* Imports, destroys and queries of the descriptor.
LEMMA ObjectsExact ==
  ASSUME SilentInv, CallsInv, SetsInv, NEW p \in Procs, Free(p), Goto(p, Idle),
         UNCHANGED <<page, want>>
  PROVE  SetsInv'
BY IdleExact, NoSetExact DEF ExactCall

LEMMA StepExact ==
  ASSUME ~Overlap, SilentInv, CallsInv, SetsInv, [Next]_vars
  PROVE  SetsInv'
<1>1. CASE UNCHANGED vars
  BY <1>1 DEF vars, SetsInv, Setting, Crashed, ExactCall, Stored
<1>2. ASSUME NEW p \in Procs, NEW id \in Ids, ImportWithMeta(p, id) \/ BoDestroy(p, id)
      PROVE  SetsInv'
  BY <1>2, ObjectsExact DEF ImportWithMeta, BoDestroy
<1>3. ASSUME NEW p \in Procs, NEW id \in Ids, NEW how \in Imports, ImportBare(p, how, id)
      PROVE  SetsInv'
  BY <1>3, ObjectsExact DEF ImportBare
<1>4. ASSUME NEW p \in Procs, NEW id \in Of(p), NEW key \in SetKeys, NEW null \in BOOLEAN,
             NEW param \in Params(key), SetCall(p, id, key, param, null)
      PROVE  SetsInv'
  BY <1>4, SetCallExact
<1>5. ASSUME NEW p \in Procs, NEW id \in Of(p), NEW key \in GetKeys, GetCall(p, id, key)
      PROVE  SetsInv'
  BY <1>5, GetCallExact
<1>6. ASSUME NEW p \in Procs, NEW id \in Of(p), GetMetaFd(p, id)
      PROVE  SetsInv'
  BY <1>6, ObjectsExact DEF GetMetaFd
<1>7. ASSUME NEW p \in Procs, SetMask(p) PROVE SetsInv'
  BY <1>7, SetMaskExact
<1>8. ASSUME NEW p \in Procs, NEW w \in Words, Store(p, w) \/ Read(p, w)
      PROVE  SetsInv'
  BY <1>8, StoreExact, ReadExact
<1>. QED  BY <1>1, <1>2, <1>3, <1>4, <1>5, <1>6, <1>7, <1>8 DEF Next

\* Between sets that do not overlap the page holds what the sets that returned mean:
\* set_metadata writes the mask back once and the words after it (msmgbm.c:2636), so
\* one set at a time loses nothing, resets and unsupported keys included, and as long
\* as no FB reset has crashed.
THEOREM PageMeansTheSets == ASSUME ~Overlap PROVE Spec => []PageExact
<1>1. SetsInv => PageExact
  BY DEF SetsInv, PageExact, Crashed
<1>. QED  BY <1>1, Start, StartTyped, StartExact, StepSilent, StepTyped, StepExact, PTL DEF Spec

\* In DRM no set crashes.
NoCrash == ~Fb => ~Crashed

LEMMA GoesOnAlive ==
  ASSUME SilentInv, CallsInv, NoCrash, NEW p \in Procs, NEW c, Goto(p, c) \/ Begin(p, c),
         c.pc # "crashed" \/ Fb
  PROVE  NoCrash'
<1>1. ASSUME ~Fb, NEW q \in Procs PROVE call'[q].pc # "crashed"
  <2>1. CallTyped(call[q]) /\ call[q].pc # "crashed"
    BY <1>1 DEF NoCrash, Crashed, CallsInv
  <2>2. CASE call[q].pc = "read" /\ call'[q] = [call[q] EXCEPT !.clean = FALSE]
    BY <2>1, <2>2 DEF CallTyped
  <2>. QED  BY <1>1, <2>1, <2>2, IdleExact DEF Goto, Begin
<1>. QED  BY <1>1 DEF NoCrash, Crashed

LEMMA StepNoCrash == ASSUME SilentInv, CallsInv, NoCrash, [Next]_vars PROVE NoCrash'
<1>1. CASE UNCHANGED vars
  BY <1>1 DEF vars, NoCrash, Crashed
<1>2. ASSUME NEW p \in Procs, Goto(p, Idle) PROVE NoCrash'
  BY <1>2, IdleExact, GoesOnAlive
<1>3. ASSUME NEW p \in Procs, NEW key, NEW res, SetAnswered(p, key, res) PROVE NoCrash'
  BY <1>3, GoesOnAlive DEF SetAnswered
<1>4. ASSUME NEW p \in Procs, NEW key, NEW res, NEW value, NEW clean,
             GetAnswered(p, key, res, value, clean)
      PROVE  NoCrash'
  BY <1>4, GoesOnAlive DEF GetAnswered
<1>5. ASSUME NEW p \in Procs, NEW id \in Ids, ImportWithMeta(p, id) \/ BoDestroy(p, id)
      PROVE  NoCrash'
  BY <1>2, <1>5 DEF ImportWithMeta, BoDestroy
<1>6. ASSUME NEW p \in Procs, NEW id \in Ids, NEW how \in Imports, ImportBare(p, how, id)
      PROVE  NoCrash'
  BY <1>2, <1>6 DEF ImportBare
<1>7. ASSUME NEW p \in Procs, NEW id \in Of(p), GetMetaFd(p, id) PROVE NoCrash'
  BY <1>2, <1>7 DEF GetMetaFd
<1>8. ASSUME NEW p \in Procs, NEW id \in Of(p), NEW key \in SetKeys, NEW null \in BOOLEAN,
             NEW param \in Params(key), SetCall(p, id, key, param, null)
      PROVE  NoCrash'
  BY <1>3, <1>8, GoesOnAlive DEF SetCall
<1>9. ASSUME NEW p \in Procs, NEW id \in Of(p), NEW key \in GetKeys, GetCall(p, id, key)
      PROVE  NoCrash'
  BY <1>4, <1>9, GoesOnAlive DEF GetCall
<1>10. ASSUME NEW p \in Procs, SetMask(p) PROVE NoCrash'
  <2>1. [call[p] EXCEPT !.pc = "store"].pc = "store"
    BY <1>10 DEF SetMask, CallsInv, CallTyped
  <2>. QED  BY <1>3, <1>10, <2>1, GoesOnAlive DEF SetMask
<1>11. ASSUME NEW p \in Procs, NEW w \in Words, Store(p, w) PROVE NoCrash'
  <2>1. [call[p] EXCEPT !.todo = Drop(@, {w})].pc = "store"
    BY <1>11 DEF Store, CallsInv, CallTyped
  <2>. QED  BY <1>3, <1>11, <2>1, GoesOnAlive DEF Store
<1>12. ASSUME NEW p \in Procs, NEW w \in Words, Read(p, w) PROVE NoCrash'
  <2>1. [call[p] EXCEPT !.seen = Put(@, w, page[w])].pc = "read"
    BY <1>12 DEF Read, CallsInv, CallTyped
  <2>. QED  BY <1>4, <1>12, <2>1, GoesOnAlive DEF Read
<1>. QED  BY <1>1, <1>5, <1>6, <1>7, <1>8, <1>9, <1>10, <1>11, <1>12 DEF Next

\* A get that no set overlapped answers, through any object of any process, what the
\* sets before it mean (gbmtest.c, "Metdata-validate, set-get Matched"), in DRM.
THEOREM ReadsBack == ASSUME ~Overlap, ~Fb PROVE Spec => []ReadBack
<1>1. Init => NoCrash
  BY IdleExact DEF Init, NoCrash, Crashed
<1>2. SetsInv /\ NoCrash => ReadBack
  BY DEF SetsInv, NoCrash, ReadBack, ExactCall
<1>. QED  BY <1>1, <1>2, Start, StartTyped, StartExact, StepSilent, StepTyped, StepExact,
             StepNoCrash, PTL DEF Spec
=============================================================================
