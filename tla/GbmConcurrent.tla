----------------------------- MODULE GbmConcurrent -----------------------------
(***************************************************************************)
(* Several threads importing and destroying objects on descriptors they    *)
(* share, one access to shared memory or to the kernel per step.  Imports  *)
(* touch the registry under mutex_obj, except that import_fd looks the fd  *)
(* up without it; destroying never takes it.  The counts are plain ints:   *)
(* ++ and -- read in one step and write in a later one.                    *)
(*                                                                         *)
(* A data descriptor fd travels with one metadata descriptor, MetaFd(fd);  *)
(* every buffer is linear, may be mapped, and has the sizes its objects    *)
(* think it has (GbmBo is about those).                                    *)
(***************************************************************************)
EXTENDS GbmMapper, FiniteSets

CONSTANTS
  Threads,
  Fds,       \* the data descriptors
  Ids,       \* what calloc may return for an object
  Ops,       \* the imports made
  MaxAddr,   \* bound: CPU mappings live at 1 .. MaxAddr
  Offered,   \* descriptors the client received and has not imported yet
  Beside,    \* the calls on its fd that a destroy may run beside
  FirstRace, \* may two calls import an fd that no object is on?
  Free       \* mutex_obj is not held

MetaFd(fd) == fd + 1
Addrs == 1 .. MaxAddr

ASSUME ConcurrentAssumption ==
  /\ Fds \subseteq Nat \ {0}
  /\ \A fd \in Fds : MetaFd(fd) \notin Fds
  /\ Ops \subseteq {"gbm", "fd"}
  /\ MaxAddr \in Nat
  /\ Offered \subseteq Fds
  /\ Beside \subseteq {"import", "destroy"}
  /\ FirstRace \in BOOLEAN
  /\ Free \notin Threads

VARIABLES
  reg,     \* the registry
  mutex,   \* mutex_obj
  open,    \* the open descriptors
  maps,    \* CPU mappings: address -> the descriptor that was mapped
  objs,    \* live objects: id -> struct msmgbm_bo
  call,    \* what each thread is doing
  offered  \* received descriptors the client may still import

vars == <<reg, mutex, open, maps, objs, call, offered>>

Idle == [pc |-> "idle"]

Init ==
  /\ reg = EmptyMap
  /\ mutex = Free
  /\ open = Offered \cup {MetaFd(fd) : fd \in Offered}
  /\ maps = EmptyMap
  /\ objs = EmptyMap
  /\ call = [t \in Threads |-> Idle]
  /\ offered = Offered

-----------------------------------------------------------------------------
Busy(fd) == {t \in Threads : call[t].pc # "idle" /\ call[t].fd = fd}
Destroying == {t \in Threads : call[t].pc \in {"dec", "decwrite", "unmap", "close", "closemeta"}}
Claimed == {call[t].id : t \in {t \in Destroying : call[t].pc # "closemeta"}}
On(fd) == {id \in DOMAIN objs : objs[id].fd = fd}

\* A client imports what it received, with its metadata, or shares an object it
\* keeps meanwhile.
MayImport(op, fd) ==
  /\ fd \in open
  /\ op = "fd" => On(fd) # {}
  /\ fd \in offered \/ On(fd) \ Claimed # {}
  /\ "import" \in Beside \/ Busy(fd) \cap Destroying = {}
  /\ FirstRace \/ On(fd) # {} \/ Busy(fd) = {}

\* It destroys an object once, and not the last one on an fd that it is importing.
MayDestroy(id) ==
  LET fd == objs[id].fd
      imports == Busy(fd) \ Destroying
  IN /\ id \notin Claimed
     /\ fd \notin offered
     /\ imports # {} => "import" \in Beside /\ On(fd) \ (Claimed \cup {id}) # {}
     /\ Busy(fd) \cap Destroying # {} => "destroy" \in Beside

\* Bound: an object is left for every import under way.
Room == Cardinality(DOMAIN objs)
          + Cardinality({t \in Threads : call[t].pc # "idle"} \ Destroying) < Cardinality(Ids)

At(t, pc) == call[t].pc = pc
Goto(t, pc) == call' = [call EXCEPT ![t].pc = pc]
Return(t) == call' = [call EXCEPT ![t] = Idle]

NextAddr(S) ==
  LET free == Addrs \ (DOMAIN maps \cup S)
  IN  {a \in free : \A k \in free : a <= k}

-----------------------------------------------------------------------------
\* Mutant of MayLock: nobody waits.
MayLockAlways == TRUE

\* lock() and unlock(): mutex_obj is held by one thread at a time.
MayLock == mutex = Free

\* Mutant of Unlock: a return path without unlock().
UnlockForgotten == UNCHANGED mutex

Unlock == mutex' = Free

\* msmgbm_bo_create: nobody else knows the new descriptors yet.
BoCreate(t, fd) ==
  \E id \in Ids \ DOMAIN objs : \E mt \in NextAddr({}) : \E c \in NextAddr({mt}) :
    /\ At(t, "idle")
    /\ Room
    /\ MayLock
    /\ {fd, MetaFd(fd)} \cap open = {}
    /\ open' = open \cup {fd, MetaFd(fd)}
    /\ maps' = Put(Put(maps, mt, MetaFd(fd)), c, fd)
    /\ reg' = IncRef(Register(reg, fd, MetaFd(fd), c, mt), fd)
    /\ objs' = Put(objs, id, [fd |-> fd, mfd |-> MetaFd(fd), cpu |-> c, mt |-> mt])
    /\ UNCHANGED <<mutex, call, offered>>

ImportCall(t, op, fd) ==
  /\ At(t, "idle")
  /\ MayImport(op, fd)
  /\ Room
  /\ call' = [call EXCEPT ![t] = [pc |-> "search", op |-> op, fd |-> fd]]
  /\ UNCHANGED <<reg, mutex, open, maps, objs, offered>>

\* search_hashmap: import_gbm_buf holds the mutex for it, import_fd does not.
Search(t) ==
  LET c == call[t]
      e == Lookup(reg, c.fd)
  IN /\ At(t, "search")
     /\ c.op = "gbm" => MayLock
     /\ call' = [call EXCEPT ![t] =
                  [pc |-> IF c.op = "gbm" THEN "map" ELSE "lock",
                   op |-> c.op, fd |-> c.fd, found |-> Registered(reg, c.fd),
                   mfd |-> IF c.op = "gbm" THEN MetaFd(c.fd) ELSE e.mfd,
                   known |-> e.mfd, cpu |-> e.cpu, mt |-> e.mt]]
     /\ UNCHANGED <<reg, mutex, open, maps, objs, offered>>

\* import_gbm_buf maps what it did not find; a closed descriptor cannot be mapped.
MapMissing(t) ==
  LET c == call[t]
  IN /\ At(t, "map")
     /\ \E a \in NextAddr({}) : \E d \in NextAddr({a}) :
          LET mt == IF c.mt = NULL /\ MetaFd(c.fd) \in open THEN a ELSE c.mt
              cpu == IF c.cpu = NULL /\ mt # NULL /\ c.fd \in open THEN d ELSE c.cpu
              m == IF mt = c.mt THEN maps ELSE Put(maps, mt, MetaFd(c.fd))
          IN /\ maps' = IF cpu = c.cpu THEN m ELSE Put(m, cpu, c.fd)
             /\ call' = [call EXCEPT ![t].pc = "lock", ![t].mt = mt, ![t].cpu = cpu]
     /\ UNCHANGED <<reg, mutex, open, objs, offered>>

\* What the import makes of the registry, going by what it found before.
Enter(t) ==
  LET c == call[t]
  IN IF ~c.found THEN Register(reg, c.fd, c.mfd, c.cpu, c.mt)
     ELSE IF c.op = "gbm" /\ c.known < 0 THEN Update(reg, c.fd, c.mfd, c.cpu, c.mt)
     ELSE reg

LockAndEnter(t) ==
  /\ At(t, "lock")
  /\ MayLock
  /\ mutex' = t
  /\ reg' = Enter(t)
  /\ Goto(t, "inc")
  /\ UNCHANGED <<open, maps, objs, offered>>

\* incr_refcnt: the entry is looked for again; without one nothing is counted.
IncRead(t) ==
  LET c == call[t]
  IN /\ At(t, "inc")
     /\ IF Registered(reg, c.fd)
        THEN /\ call' = [call EXCEPT ![t] =
                          [pc |-> "incwrite", fd |-> c.fd, mfd |-> c.mfd, cpu |-> c.cpu,
                           mt |-> c.mt, n |-> reg[c.fd].ref]]
             /\ UNCHANGED mutex
        ELSE Goto(t, "alloc") /\ Unlock
     /\ UNCHANGED <<reg, open, maps, objs, offered>>

IncWrite(t) ==
  LET c == call[t]
  IN /\ At(t, "incwrite")
     /\ IF Registered(reg, c.fd)
        THEN reg' = [reg EXCEPT ![c.fd].ref = c.n + 1]
        ELSE UNCHANGED reg
     /\ Unlock
     /\ Goto(t, "alloc")
     /\ UNCHANGED <<open, maps, objs, offered>>

Alloc(t) ==
  LET c == call[t]
  IN \E id \in Ids \ DOMAIN objs :
       /\ At(t, "alloc")
       /\ objs' = Put(objs, id, [fd |-> c.fd, mfd |-> c.mfd, cpu |-> c.cpu, mt |-> c.mt])
       /\ Return(t)
       /\ UNCHANGED <<reg, mutex, open, maps, offered>>

-----------------------------------------------------------------------------
(* msmgbm_bo_destroy.                                                      *)

DestroyCall(t, id) ==
  /\ At(t, "idle")
  /\ MayDestroy(id)
  /\ call' = [call EXCEPT ![t] = [pc |-> "dec", fd |-> objs[id].fd, id |-> id]]
  /\ UNCHANGED <<reg, mutex, open, maps, objs, offered>>

\* del_map_entry without the mutex; an fd that is not registered is torn down.
DecRead(t) ==
  LET c == call[t]
  IN /\ At(t, "dec")
     /\ call' = [call EXCEPT ![t] =
                  IF Registered(reg, c.fd)
                  THEN [pc |-> "decwrite", fd |-> c.fd, id |-> c.id, n |-> reg[c.fd].ref]
                  ELSE [c EXCEPT !.pc = "unmap"]]
     /\ UNCHANGED <<reg, mutex, open, maps, objs, offered>>

\* Mutant of IsLast: the count is compared before it is decremented.
IsLastTooEarly(n) == n <= 2

IsLast(n) == n - 1 = 0

DecWrite(t) ==
  LET c == call[t]
  IN /\ At(t, "decwrite")
     /\ IF IsLast(c.n)
        THEN reg' = Drop(reg, {c.fd}) /\ Goto(t, "unmap") /\ UNCHANGED objs
        ELSE /\ reg' = IF Registered(reg, c.fd)
                       THEN [reg EXCEPT ![c.fd].ref = c.n - 1] ELSE reg
             /\ objs' = Drop(objs, {c.id})
             /\ Return(t)
     /\ UNCHANGED <<mutex, open, maps, offered>>

\* Mutant of UnmapOwn: the metadata mapping is forgotten.
UnmapOwnData(o) == Drop(maps, {o.cpu})

UnmapOwn(o) == Drop(maps, {o.cpu, o.mt})

Unmap(t) ==
  /\ At(t, "unmap")
  /\ maps' = UnmapOwn(objs[call[t].id])
  /\ Goto(t, "close")
  /\ UNCHANGED <<reg, mutex, open, objs, offered>>

CloseData(t) ==
  LET c == call[t]
  IN /\ At(t, "close")
     /\ open' = open \ {c.fd}
     /\ objs' = Drop(objs, {c.id})
     /\ call' = [call EXCEPT ![t] =
                  [pc |-> "closemeta", fd |-> c.fd, id |-> c.id, mfd |-> objs[c.id].mfd]]
     /\ UNCHANGED <<reg, mutex, maps, offered>>

CloseMeta(t) ==
  /\ At(t, "closemeta")
  /\ open' = open \ {call[t].mfd}
  /\ Return(t)
  /\ UNCHANGED <<reg, mutex, maps, objs, offered>>

\* The client is done importing a received descriptor; unused, it closes it.
Withdraw(fd) ==
  /\ fd \in offered
  /\ Busy(fd) = {}
  /\ offered' = offered \ {fd}
  /\ open' = IF On(fd) = {} THEN open \ {fd, MetaFd(fd)} ELSE open
  /\ UNCHANGED <<reg, mutex, maps, objs, call>>

-----------------------------------------------------------------------------
ImportStep(t) ==
  \/ \E op \in Ops, fd \in Fds : ImportCall(t, op, fd)
  \/ Search(t) \/ MapMissing(t) \/ LockAndEnter(t)
  \/ IncRead(t) \/ IncWrite(t) \/ Alloc(t)

DestroyStep(t) ==
  \/ \E id \in DOMAIN objs : DestroyCall(t, id)
  \/ DecRead(t) \/ DecWrite(t) \/ Unmap(t) \/ CloseData(t) \/ CloseMeta(t)

Next ==
  \/ \E t \in Threads, fd \in Fds : BoCreate(t, fd)
  \/ \E t \in Threads : ImportStep(t) \/ DestroyStep(t)
  \/ \E fd \in Fds : Withdraw(fd)

Spec == Init /\ [][Next]_vars

-----------------------------------------------------------------------------
Pcs == {"idle", "search", "map", "lock", "inc", "incwrite", "alloc",
        "dec", "decwrite", "unmap", "close", "closemeta"}
AllFds == Fds \cup {MetaFd(fd) : fd \in Fds}

\* Every variable holds what its C counterpart may hold, and the mutex is held
\* exactly by a thread between its lock and its unlock.
TypeOK ==
  /\ MapsTo(reg, Fds, [mfd : AllFds \cup {NoFd}, cpu : Addrs \cup {NULL},
                       mt : Addrs \cup {NULL}, ref : Int])
  /\ MapsTo(maps, Addrs, AllFds)
  /\ MapsTo(objs, Ids, [fd : Fds, mfd : AllFds \cup {NoFd}, cpu : Addrs \cup {NULL},
                        mt : Addrs \cup {NULL}])
  /\ open \subseteq AllFds
  /\ offered \subseteq Fds
  /\ \A t \in Threads : call[t].pc \in Pcs
  /\ \A t \in Threads : mutex = t <=> call[t].pc \in {"inc", "incwrite"}

\* Objects a thread is giving back are exempt from what holds of live ones.
Leaving == {call[t].id : t \in {t \in Threads : call[t].pc \in {"unmap", "close"}}}

\* A live object's descriptors are open and its addresses mapped to its buffer,
\* while other threads import its fd, destroy the objects next to it, or reuse the
\* numbers of what they closed and unmapped.
LiveUsable ==
  \A id \in DOMAIN objs \ Leaving : LET o == objs[id] IN
    /\ o.fd \in open
    /\ o.mfd # NoFd => o.mfd \in open
    /\ o.cpu # NULL => o.cpu \in DOMAIN maps /\ maps[o.cpu] = o.fd
    /\ o.mt # NULL => o.mt \in DOMAIN maps /\ maps[o.mt] = MetaFd(o.fd)

\* Between calls on an fd its count is the number of its objects.
RefsExact ==
  \A fd \in Fds : Busy(fd) = {} => RefOf(reg, fd) = Cardinality(On(fd))

\* Once every object is destroyed and nothing offered, nothing is left.
NoLeak ==
  objs = EmptyMap /\ offered = {} /\ (\A t \in Threads : At(t, "idle"))
    => open = {} /\ maps = EmptyMap /\ reg = EmptyMap

\* Step by step, the registry does what GbmSharing promises: a descriptor is open
\* while an object is on it and closed by the last one that leaves.
Sharing == INSTANCE GbmSharing WITH
  pinned <- open \cap Fds, users <- [fd \in Fds |-> On(fd)]

ImplementsSharing == Sharing!Spec
=============================================================================
