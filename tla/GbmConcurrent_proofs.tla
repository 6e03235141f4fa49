------------------------- MODULE GbmConcurrent_proofs -------------------------
(***************************************************************************)
(* Proofs about GbmConcurrent, for any number of threads, descriptors and  *)
(* objects.  What they need of the client is named by their premises:      *)
(*                                                                         *)
(*  Orderly    no destroy runs beside an import on its fd; destroys may    *)
(*             run beside each other.  A count is then never less than the *)
(*             number of objects it stands for.                            *)
(*  Serial     nor beside another destroy.  The counts are then exact, and *)
(*             every step is a step of GbmSharing.                         *)
(*  ~FirstRace the first import of a received fd runs alone.  With Orderly,*)
(*             objects stay usable; with Serial, nothing is left when the  *)
(*             last one is gone.                                           *)
(***************************************************************************)
EXTENDS GbmConcurrent, FiniteSetTheorems, TLAPS

Mfds == {MetaFd(fd) : fd \in Fds} \cup {NoFd}
AddrOrNull == Addrs \cup {NULL}
Entries == [mfd : Mfds, cpu : AddrOrNull, mt : AddrOrNull, ref : Int]
Objects == [fd : Fds, mfd : Mfds, cpu : AddrOrNull, mt : AddrOrNull]

Found == {"map", "lock"}
Carrying == {"map", "lock", "inc", "incwrite", "alloc"}
Importing == {"search"} \cup Carrying
Holding == {"dec", "decwrite", "unmap", "close"}

\* What a thread knows at each place.
CallOk(c) ==
  /\ c.pc \in Pcs
  /\ c.pc # "idle" => {"pc", "fd"} \subseteq DOMAIN c /\ c.fd \in Fds
  /\ c.pc \in {"search"} \cup Found => "op" \in DOMAIN c /\ c.op \in {"gbm", "fd"}
  /\ c.pc \in Found =>
       {"found", "known"} \subseteq DOMAIN c /\ c.found \in BOOLEAN /\ c.known \in Mfds
  /\ c.pc \in Carrying =>
       /\ {"mfd", "cpu", "mt"} \subseteq DOMAIN c
       /\ c.mfd \in Mfds /\ c.cpu \in AddrOrNull /\ c.mt \in AddrOrNull
  /\ c.pc \in {"incwrite", "decwrite"} => "n" \in DOMAIN c /\ c.n \in Int
  /\ c.pc \in Holding \cup {"closemeta"} => "id" \in DOMAIN c /\ c.id \in Ids
  /\ c.pc = "closemeta" => c.mfd \in Mfds

CallsInv == DOMAIN call = Threads /\ \A t \in Threads : CallOk(call[t])

MutexInv == \A t \in Threads : mutex = t <=> call[t].pc \in {"inc", "incwrite"}

\* The type invariant, with what the threads carry.
TypeInv ==
  /\ MapsTo(reg, Fds, Entries)
  /\ MapsTo(maps, Addrs, AllFds)
  /\ MapsTo(objs, Ids, Objects)
  /\ open \subseteq AllFds
  /\ offered \subseteq Fds
  /\ CallsInv
  /\ MutexInv

LEMMA TypeEnough == ASSUME TypeInv PROVE TypeOK
<1>1. Mfds \subseteq AllFds \cup {NoFd}
  BY DEF Mfds, AllFds
<1>2. \A e \in Entries : e \in [mfd : AllFds \cup {NoFd}, cpu : Addrs \cup {NULL},
                                mt : Addrs \cup {NULL}, ref : Int]
  BY <1>1 DEF Entries, AddrOrNull
<1>3. \A o \in Objects : o \in [fd : Fds, mfd : AllFds \cup {NoFd}, cpu : Addrs \cup {NULL},
                                mt : Addrs \cup {NULL}]
  BY <1>1 DEF Objects, AddrOrNull
<1>. QED  BY <1>2, <1>3 DEF TypeInv, TypeOK, MapsTo, CallsInv, CallOk, MutexInv

LEMMA InitType == ASSUME Init PROVE TypeInv
BY ConcurrentAssumption
   DEF Init, TypeInv, MapsTo, EmptyMap, AllFds, CallsInv, CallOk, MutexInv, Idle, Pcs,
       Found, Carrying, Holding

LEMMA CallStep ==
  ASSUME TypeInv, NEW t \in Threads, NEW c, CallOk(c), call' = [call EXCEPT ![t] = c]
  PROVE  /\ CallsInv'
         /\ call'[t] = c
         /\ \A s \in Threads : s # t => call'[s] = call[s]
BY DEF TypeInv, CallsInv

LEMMA GotoStep ==
  ASSUME TypeInv, NEW t \in Threads, NEW pc, Goto(t, pc),
         CallOk([call[t] EXCEPT !.pc = pc]), call[t].pc # "idle"
  PROVE  /\ CallsInv'
         /\ \A s \in Threads : s # t => call'[s] = call[s]
         /\ call'[t].pc = pc
         /\ call'[t] = [call[t] EXCEPT !.pc = pc]
<1>1. call' = [call EXCEPT ![t] = [call[t] EXCEPT !.pc = pc]]
  BY DEF TypeInv, CallsInv, Goto
<1>2. [call[t] EXCEPT !.pc = pc].pc = pc
  BY DEF TypeInv, CallsInv, CallOk
<1>. QED  BY <1>1, <1>2, CallStep

LEMMA IdleOk == CallOk(Idle)
BY DEF CallOk, Idle, Pcs, Found, Carrying, Holding

\* A thread that was not inside and does not come in.
LEMMA MutexSame ==
  ASSUME MutexInv, NEW t \in Threads, mutex' = mutex,
         \A s \in Threads : s # t => call'[s] = call[s],
         call[t].pc \notin {"inc", "incwrite"}, call'[t].pc \notin {"inc", "incwrite"}
  PROVE  MutexInv'
BY DEF MutexInv

LEMMA MutexLeft ==
  ASSUME MutexInv, NEW t \in Threads, mutex' = Free,
         \A s \in Threads : s # t => call'[s] = call[s],
         call[t].pc \in {"inc", "incwrite"}, call'[t].pc \notin {"inc", "incwrite"}
  PROVE  MutexInv'
BY ConcurrentAssumption DEF MutexInv

LEMMA LookupType ==
  ASSUME MapsTo(reg, Fds, Entries), NEW fd
  PROVE  /\ Lookup(reg, fd) \in Entries
         /\ Registered(reg, fd) => Lookup(reg, fd) = reg[fd]
BY DEF MapsTo, Lookup, Registered, Entries, Mfds, AddrOrNull, NULL, NoFd

LEMMA RegisterType ==
  ASSUME MapsTo(reg, Fds, Entries), NEW fd \in Fds, NEW mfd \in Mfds,
         NEW cpu \in AddrOrNull, NEW mt \in AddrOrNull
  PROVE  /\ MapsTo(Register(reg, fd, mfd, cpu, mt), Fds, Entries)
         /\ MapsTo(Update(reg, fd, mfd, cpu, mt), Fds, Entries)
BY DEF MapsTo, Register, Update, Put, Registered, Entries

LEMMA CountType ==
  ASSUME NEW r, MapsTo(r, Fds, Entries), NEW fd
  PROVE  /\ \A n \in Int : Registered(r, fd) => MapsTo([r EXCEPT ![fd].ref = n], Fds, Entries)
         /\ MapsTo(IncRef(r, fd), Fds, Entries)
         /\ MapsTo(Drop(r, {fd}), Fds, Entries)
BY DEF MapsTo, Drop, IncRef, Registered, Entries

LEMMA NextAddrType == \A S : NextAddr(S) \subseteq Addrs \ (DOMAIN maps \cup S)
BY DEF NextAddr

-----------------------------------------------------------------------------
(* Type correctness, action by action.                                     *)

LEMMA MapTwo ==
  ASSUME MapsTo(maps, Addrs, AllFds), NEW a \in Addrs, NEW x \in AllFds
  PROVE  /\ MapsTo(Put(maps, a, x), Addrs, AllFds)
         /\ \A b \in Addrs, y \in AllFds : MapsTo(Put(Put(maps, a, x), b, y), Addrs, AllFds)
BY DEF MapsTo, Put

LEMMA CreateType ==
  ASSUME TypeInv, NEW t \in Threads, NEW fd \in Fds, BoCreate(t, fd)
  PROVE  TypeInv'
<1>1. PICK id \in Ids \ DOMAIN objs, mt \in Addrs, c \in Addrs :
        /\ maps' = Put(Put(maps, mt, MetaFd(fd)), c, fd)
        /\ reg' = IncRef(Register(reg, fd, MetaFd(fd), c, mt), fd)
        /\ objs' = Put(objs, id, [fd |-> fd, mfd |-> MetaFd(fd), cpu |-> c, mt |-> mt])
  BY NextAddrType DEF BoCreate
<1>3. fd \in AllFds /\ MetaFd(fd) \in AllFds /\ MetaFd(fd) \in Mfds
  BY DEF AllFds, Mfds
<1>4. MapsTo(maps', Addrs, AllFds)
  BY <1>1, <1>3, MapTwo DEF TypeInv
<1>5. MapsTo(reg', Fds, Entries)
  <2>1. MapsTo(Register(reg, fd, MetaFd(fd), c, mt), Fds, Entries)
    BY <1>3, RegisterType DEF TypeInv, AddrOrNull
  <2>. QED  BY <1>1, <2>1, CountType
<1>6. MapsTo(objs', Ids, Objects)
  BY <1>1, <1>3 DEF TypeInv, MapsTo, Put, Objects, AddrOrNull
<1>. QED  BY <1>3, <1>4, <1>5, <1>6 DEF BoCreate, TypeInv, CallsInv, MutexInv

LEMMA ImportCallType ==
  ASSUME TypeInv, NEW t \in Threads, NEW op \in Ops, NEW fd \in Fds, ImportCall(t, op, fd)
  PROVE  TypeInv'
<1>. DEFINE d == [pc |-> "search", op |-> op, fd |-> fd]
<1>1. d.pc = "search" /\ CallOk(d) /\ call' = [call EXCEPT ![t] = d]
  BY ConcurrentAssumption DEF ImportCall, CallOk, Pcs, Found, Carrying, Holding
<1>. HIDE DEF d
<1>2. /\ CallsInv'
      /\ call'[t].pc = "search"
      /\ \A s \in Threads : s # t => call'[s] = call[s]
  BY <1>1, CallStep
<1>3. MutexInv'
  BY <1>2, MutexSame DEF ImportCall, At, TypeInv
<1>. QED  BY <1>2, <1>3 DEF ImportCall, TypeInv

LEMMA SearchType == ASSUME TypeInv, NEW t \in Threads, Search(t) PROVE TypeInv'
<1>. DEFINE c == call[t]
            e == Lookup(reg, c.fd)
            d == [pc |-> IF c.op = "gbm" THEN "map" ELSE "lock",
                  op |-> c.op, fd |-> c.fd, found |-> Registered(reg, c.fd),
                  mfd |-> IF c.op = "gbm" THEN MetaFd(c.fd) ELSE e.mfd,
                  known |-> e.mfd, cpu |-> e.cpu, mt |-> e.mt]
<1>1. c.pc = "search" /\ CallOk(c)
  BY DEF Search, At, TypeInv, CallsInv
<1>2. e \in Entries
  BY LookupType DEF TypeInv
<1>3. e.mfd \in Mfds /\ e.cpu \in AddrOrNull /\ e.mt \in AddrOrNull
  BY <1>2 DEF Entries
<1>4. c.fd \in Fds /\ c.op \in {"gbm", "fd"} /\ MetaFd(c.fd) \in Mfds
  BY <1>1 DEF CallOk, Mfds
<1>5. Registered(reg, c.fd) \in BOOLEAN
  BY DEF Registered
<1>6. call' = [call EXCEPT ![t] = d]
  BY DEF Search
<1>. HIDE DEF e
<1>7. d.pc \in {"map", "lock"} /\ CallOk(d)
  BY <1>3, <1>4, <1>5 DEF CallOk, Pcs, Found, Carrying, Holding
<1>. HIDE DEF d
<1>8. /\ CallsInv'
      /\ call'[t].pc \in {"map", "lock"}
      /\ \A s \in Threads : s # t => call'[s] = call[s]
  BY <1>6, <1>7, CallStep
<1>9. MutexInv'
  BY <1>1, <1>8, MutexSame DEF Search, TypeInv
<1>. QED  BY <1>8, <1>9 DEF Search, TypeInv

LEMMA MapMissingType == ASSUME TypeInv, NEW t \in Threads, MapMissing(t) PROVE TypeInv'
<1>. DEFINE c == call[t]
<1>1. c.pc = "map" /\ CallOk(c)
  BY DEF MapMissing, At, TypeInv, CallsInv
<1>2. PICK a \in Addrs, d \in Addrs :
        LET mt == IF c.mt = NULL /\ MetaFd(c.fd) \in open THEN a ELSE c.mt
            cpu == IF c.cpu = NULL /\ mt # NULL /\ c.fd \in open THEN d ELSE c.cpu
            m == IF mt = c.mt THEN maps ELSE Put(maps, mt, MetaFd(c.fd))
        IN /\ maps' = IF cpu = c.cpu THEN m ELSE Put(m, cpu, c.fd)
           /\ call' = [call EXCEPT ![t].pc = "lock", ![t].mt = mt, ![t].cpu = cpu]
  BY NextAddrType DEF MapMissing
<1>. DEFINE mt == IF c.mt = NULL /\ MetaFd(c.fd) \in open THEN a ELSE c.mt
            cpu == IF c.cpu = NULL /\ mt # NULL /\ c.fd \in open THEN d ELSE c.cpu
            m == IF mt = c.mt THEN maps ELSE Put(maps, mt, MetaFd(c.fd))
            x == [c EXCEPT !.pc = "lock", !.mt = mt, !.cpu = cpu]
<1>4. /\ mt \in AddrOrNull /\ (mt # c.mt => mt \in Addrs)
      /\ cpu \in AddrOrNull /\ (cpu # c.cpu => cpu \in Addrs)
  BY <1>1 DEF CallOk, AddrOrNull, Carrying
<1>5. c.fd \in AllFds /\ MetaFd(c.fd) \in AllFds
  BY <1>1 DEF CallOk, AllFds
<1>6. maps' = (IF cpu = c.cpu THEN m ELSE Put(m, cpu, c.fd))
      /\ call' = [call EXCEPT ![t].pc = "lock", ![t].mt = mt, ![t].cpu = cpu]
  BY <1>2
<1>7. call' = [call EXCEPT ![t] = x]
  BY <1>1, <1>6 DEF TypeInv, CallsInv, CallOk, Carrying
<1>. HIDE DEF mt, cpu
<1>8. MapsTo(m, Addrs, AllFds) /\ MapsTo(maps', Addrs, AllFds)
  BY <1>4, <1>5, <1>6 DEF TypeInv, MapsTo, Put
<1>9. x.pc = "lock" /\ CallOk(x)
  BY <1>1, <1>4 DEF CallOk, Pcs, Found, Carrying, Holding
<1>10. /\ CallsInv'
       /\ call'[t].pc = "lock"
       /\ \A s \in Threads : s # t => call'[s] = call[s]
  BY <1>7, <1>9, CallStep
<1>11. MutexInv'
  BY <1>1, <1>10, MutexSame DEF MapMissing, TypeInv
<1>. QED  BY <1>8, <1>10, <1>11 DEF MapMissing, TypeInv

LEMMA LockType == ASSUME TypeInv, NEW t \in Threads, LockAndEnter(t) PROVE TypeInv'
<1>. DEFINE c == call[t]
<1>1. c.pc = "lock" /\ CallOk(c)
  BY DEF LockAndEnter, At, TypeInv, CallsInv
<1>2. c.fd \in Fds /\ c.mfd \in Mfds /\ c.cpu \in AddrOrNull /\ c.mt \in AddrOrNull
  BY <1>1 DEF CallOk, Carrying
<1>3. MapsTo(reg', Fds, Entries)
  BY <1>2, RegisterType DEF LockAndEnter, Enter, TypeInv
<1>4. CallOk([c EXCEPT !.pc = "inc"])
  BY <1>1 DEF CallOk, Pcs, Found, Carrying, Holding
<1>5. /\ CallsInv'
      /\ call'[t].pc = "inc"
      /\ \A s \in Threads : s # t => call'[s] = call[s]
  BY <1>1, <1>4, GotoStep DEF LockAndEnter
<1>6. MutexInv'
  BY <1>1, <1>5, ConcurrentAssumption DEF LockAndEnter, MayLock, TypeInv, MutexInv
<1>. QED  BY <1>3, <1>5, <1>6 DEF LockAndEnter, TypeInv

LEMMA IncReadType == ASSUME TypeInv, NEW t \in Threads, IncRead(t) PROVE TypeInv'
<1>. DEFINE c == call[t]
            d == [pc |-> "incwrite", fd |-> c.fd, mfd |-> c.mfd, cpu |-> c.cpu,
                  mt |-> c.mt, n |-> reg[c.fd].ref]
<1>1. c.pc = "inc" /\ CallOk(c)
  BY DEF IncRead, At, TypeInv, CallsInv
<1>2. CASE Registered(reg, c.fd)
  <2>1. reg[c.fd].ref \in Int
    BY <1>2 DEF Registered, TypeInv, MapsTo, Entries
  <2>2. d.pc = "incwrite" /\ CallOk(d)
    BY <1>1, <2>1 DEF CallOk, Pcs, Found, Carrying, Holding
  <2>3. call' = [call EXCEPT ![t] = d] /\ mutex' = mutex
    BY <1>2 DEF IncRead
  <2>. HIDE DEF d
  <2>4. /\ CallsInv'
        /\ call'[t].pc = "incwrite"
        /\ \A s \in Threads : s # t => call'[s] = call[s]
    BY <2>2, <2>3, CallStep
  <2>5. MutexInv'
    BY <1>1, <2>3, <2>4 DEF TypeInv, MutexInv
  <2>. QED  BY <2>4, <2>5 DEF IncRead, TypeInv
<1>3. CASE ~Registered(reg, c.fd)
  <2>1. CallOk([c EXCEPT !.pc = "alloc"])
    BY <1>1 DEF CallOk, Pcs, Found, Carrying, Holding
  <2>2. Goto(t, "alloc") /\ mutex' = Free
    BY <1>3 DEF IncRead, Unlock
  <2>3. /\ CallsInv'
        /\ call'[t].pc = "alloc"
        /\ \A s \in Threads : s # t => call'[s] = call[s]
    BY <1>1, <2>1, <2>2, GotoStep
  <2>4. MutexInv'
    BY <1>1, <2>2, <2>3, MutexLeft DEF TypeInv
  <2>. QED  BY <2>3, <2>4 DEF IncRead, TypeInv
<1>. QED  BY <1>2, <1>3

LEMMA IncWriteType == ASSUME TypeInv, NEW t \in Threads, IncWrite(t) PROVE TypeInv'
<1>. DEFINE c == call[t]
<1>1. c.pc = "incwrite" /\ CallOk(c)
  BY DEF IncWrite, At, TypeInv, CallsInv
<1>2. c.n + 1 \in Int
  BY <1>1 DEF CallOk
<1>3. MapsTo(reg', Fds, Entries)
  <2>1. MapsTo([reg EXCEPT ![c.fd].ref = c.n + 1], Fds, Entries) \/ ~Registered(reg, c.fd)
    BY <1>2, CountType DEF TypeInv
  <2>. QED  BY <2>1 DEF IncWrite, TypeInv
<1>4. CallOk([c EXCEPT !.pc = "alloc"])
  BY <1>1 DEF CallOk, Pcs, Found, Carrying, Holding
<1>5. /\ CallsInv'
      /\ call'[t].pc = "alloc"
      /\ \A s \in Threads : s # t => call'[s] = call[s]
  BY <1>1, <1>4, GotoStep DEF IncWrite
<1>6. MutexInv'
  BY <1>1, <1>5, MutexLeft DEF IncWrite, Unlock, TypeInv
<1>. QED  BY <1>3, <1>5, <1>6 DEF IncWrite, TypeInv

LEMMA AllocType == ASSUME TypeInv, NEW t \in Threads, Alloc(t) PROVE TypeInv'
<1>. DEFINE c == call[t]
<1>1. c.pc = "alloc" /\ CallOk(c)
  BY DEF Alloc, At, TypeInv, CallsInv
<1>2. [fd |-> c.fd, mfd |-> c.mfd, cpu |-> c.cpu, mt |-> c.mt] \in Objects
  BY <1>1 DEF CallOk, Carrying, Objects
<1>3. MapsTo(objs', Ids, Objects)
  BY <1>2 DEF Alloc, TypeInv, MapsTo, Put
<1>4. /\ CallsInv'
      /\ call'[t] = Idle
      /\ \A s \in Threads : s # t => call'[s] = call[s]
  BY IdleOk, CallStep DEF Alloc, Return
<1>5. MutexInv'
  BY <1>1, <1>4, MutexSame DEF Alloc, TypeInv, Idle
<1>. QED  BY <1>3, <1>4, <1>5 DEF Alloc, TypeInv

LEMMA DestroyCallType ==
  ASSUME TypeInv, NEW t \in Threads, NEW id \in DOMAIN objs, DestroyCall(t, id)
  PROVE  TypeInv'
<1>. DEFINE d == [pc |-> "dec", fd |-> objs[id].fd, id |-> id]
<1>1. d.pc = "dec" /\ CallOk(d) /\ call' = [call EXCEPT ![t] = d]
  BY DEF DestroyCall, TypeInv, MapsTo, Objects, CallOk, Pcs, Found, Carrying, Holding
<1>. HIDE DEF d
<1>2. /\ CallsInv'
      /\ call'[t].pc = "dec"
      /\ \A s \in Threads : s # t => call'[s] = call[s]
  BY <1>1, CallStep
<1>3. MutexInv'
  BY <1>2, MutexSame DEF DestroyCall, At, TypeInv
<1>. QED  BY <1>2, <1>3 DEF DestroyCall, TypeInv

LEMMA DecReadType == ASSUME TypeInv, NEW t \in Threads, DecRead(t) PROVE TypeInv'
<1>. DEFINE c == call[t]
            d == IF Registered(reg, c.fd)
                 THEN [pc |-> "decwrite", fd |-> c.fd, id |-> c.id, n |-> reg[c.fd].ref]
                 ELSE [c EXCEPT !.pc = "unmap"]
<1>1. c.pc = "dec" /\ CallOk(c)
  BY DEF DecRead, At, TypeInv, CallsInv
<1>2. d.pc \in {"decwrite", "unmap"} /\ CallOk(d)
  <2>1. CASE Registered(reg, c.fd)
    <3>1. reg[c.fd].ref \in Int
      BY <2>1 DEF Registered, TypeInv, MapsTo, Entries
    <3>. QED  BY <1>1, <2>1, <3>1 DEF CallOk, Pcs, Found, Carrying, Holding
  <2>2. CASE ~Registered(reg, c.fd)
    <3>1. d = [c EXCEPT !.pc = "unmap"]
      BY <2>2
    <3>. HIDE DEF d
    <3>2. d.pc = "unmap" /\ DOMAIN d = DOMAIN c /\ d.fd = c.fd /\ d.id = c.id
      BY <1>1, <3>1 DEF CallOk, Holding
    <3>. QED  BY <1>1, <3>2 DEF CallOk, Pcs, Found, Carrying, Holding
  <2>. QED  BY <2>1, <2>2
<1>3. call' = [call EXCEPT ![t] = d]
  BY DEF DecRead
<1>. HIDE DEF d
<1>4. /\ CallsInv'
      /\ call'[t].pc \in {"decwrite", "unmap"}
      /\ \A s \in Threads : s # t => call'[s] = call[s]
  BY <1>2, <1>3, CallStep
<1>5. MutexInv'
  BY <1>1, <1>4, MutexSame DEF DecRead, TypeInv
<1>. QED  BY <1>4, <1>5 DEF DecRead, TypeInv

LEMMA DecWriteType == ASSUME TypeInv, NEW t \in Threads, DecWrite(t) PROVE TypeInv'
<1>. DEFINE c == call[t]
<1>1. c.pc = "decwrite" /\ CallOk(c)
  BY DEF DecWrite, At, TypeInv, CallsInv
<1>2. CASE IsLast(c.n)
  <2>1. CallOk([c EXCEPT !.pc = "unmap"])
    BY <1>1 DEF CallOk, Pcs, Found, Carrying, Holding
  <2>2. /\ CallsInv'
        /\ call'[t].pc = "unmap"
        /\ \A s \in Threads : s # t => call'[s] = call[s]
    BY <1>1, <1>2, <2>1, GotoStep DEF DecWrite
  <2>3. MutexInv'
    BY <1>1, <2>2, MutexSame DEF DecWrite, TypeInv
  <2>4. MapsTo(reg', Fds, Entries) /\ objs' = objs
    BY <1>2, CountType DEF DecWrite, TypeInv
  <2>. QED  BY <2>2, <2>3, <2>4 DEF DecWrite, TypeInv
<1>3. CASE ~IsLast(c.n)
  <2>1. c.n - 1 \in Int
    BY <1>1 DEF CallOk
  <2>2. MapsTo([reg EXCEPT ![c.fd].ref = c.n - 1], Fds, Entries) \/ ~Registered(reg, c.fd)
    BY <2>1, CountType DEF TypeInv
  <2>3. MapsTo(reg', Fds, Entries)
    BY <1>3, <2>2 DEF DecWrite, TypeInv
  <2>4. MapsTo(objs', Ids, Objects)
    BY <1>3 DEF DecWrite, TypeInv, MapsTo, Drop
  <2>5. /\ CallsInv'
        /\ call'[t] = Idle
        /\ \A s \in Threads : s # t => call'[s] = call[s]
    BY <1>3, IdleOk, CallStep DEF DecWrite, Return
  <2>6. MutexInv'
    BY <1>1, <2>5, MutexSame DEF DecWrite, TypeInv, Idle
  <2>. QED  BY <2>3, <2>4, <2>5, <2>6 DEF DecWrite, TypeInv
<1>. QED  BY <1>2, <1>3

LEMMA UnmapType == ASSUME TypeInv, NEW t \in Threads, Unmap(t) PROVE TypeInv'
<1>. DEFINE c == call[t]
<1>1. c.pc = "unmap" /\ CallOk(c)
  BY DEF Unmap, At, TypeInv, CallsInv
<1>2. CallOk([c EXCEPT !.pc = "close"])
  BY <1>1 DEF CallOk, Pcs, Found, Carrying, Holding
<1>3. /\ CallsInv'
      /\ call'[t].pc = "close"
      /\ \A s \in Threads : s # t => call'[s] = call[s]
  BY <1>1, <1>2, GotoStep DEF Unmap
<1>4. MutexInv'
  BY <1>1, <1>3, MutexSame DEF Unmap, TypeInv
<1>5. MapsTo(maps', Addrs, AllFds)
  BY DEF Unmap, UnmapOwn, TypeInv, MapsTo, Drop
<1>. QED  BY <1>3, <1>4, <1>5 DEF Unmap, TypeInv

\* A thread that gives an object back has it.
HasInv ==
  \A t \in Threads : call[t].pc \in Holding =>
    call[t].id \in DOMAIN objs /\ objs[call[t].id].fd = call[t].fd

LEMMA CloseDataType ==
  ASSUME TypeInv, HasInv, NEW t \in Threads, CloseData(t)
  PROVE  TypeInv'
<1>. DEFINE c == call[t]
            d == [pc |-> "closemeta", fd |-> c.fd, id |-> c.id, mfd |-> objs[c.id].mfd]
<1>1. c.pc = "close" /\ CallOk(c)
  BY DEF CloseData, At, TypeInv, CallsInv
<1>2. objs[c.id].mfd \in Mfds
  BY <1>1 DEF HasInv, Holding, TypeInv, MapsTo, Objects
<1>3. d.pc = "closemeta" /\ CallOk(d) /\ call' = [call EXCEPT ![t] = d]
  BY <1>1, <1>2 DEF CloseData, CallOk, Pcs, Found, Carrying, Holding
<1>. HIDE DEF d
<1>4. /\ CallsInv'
      /\ call'[t].pc = "closemeta"
      /\ \A s \in Threads : s # t => call'[s] = call[s]
  BY <1>3, CallStep
<1>5. MutexInv'
  BY <1>1, <1>4, MutexSame DEF CloseData, TypeInv
<1>6. MapsTo(objs', Ids, Objects) /\ open' \subseteq AllFds
  BY DEF CloseData, TypeInv, MapsTo, Drop
<1>. QED  BY <1>4, <1>5, <1>6 DEF CloseData, TypeInv

LEMMA CloseMetaType == ASSUME TypeInv, NEW t \in Threads, CloseMeta(t) PROVE TypeInv'
<1>1. /\ CallsInv'
      /\ call'[t] = Idle
      /\ \A s \in Threads : s # t => call'[s] = call[s]
  BY IdleOk, CallStep DEF CloseMeta, Return
<1>2. MutexInv'
  BY <1>1, MutexSame DEF CloseMeta, At, TypeInv, Idle
<1>3. open' \subseteq AllFds
  BY DEF CloseMeta, TypeInv
<1>. QED  BY <1>1, <1>2, <1>3 DEF CloseMeta, TypeInv

LEMMA WithdrawType == ASSUME TypeInv, NEW fd \in Fds, Withdraw(fd) PROVE TypeInv'
<1>1. offered' \subseteq Fds /\ open' \subseteq AllFds
  BY DEF Withdraw, TypeInv
<1>. QED  BY <1>1 DEF Withdraw, TypeInv, CallsInv, MutexInv

-----------------------------------------------------------------------------
(* The counts.                                                             *)

\* The premise: the client keeps destroys and imports on an fd apart.  (Sets of live
\* threads and objects are finite, or counting them means nothing.)
Orderly == "import" \notin Beside /\ IsFiniteSet(Threads) /\ IsFiniteSet(Ids)

\* Moreover, a destroy runs alone on its fd.
Serial == Orderly /\ Beside = {}

\* The objects on fd that nobody has counted out, and the imports that are counted
\* in and have no object yet.
Staying(fd) == On(fd) \ Leaving
Counted(fd) == {t \in Threads : call[t].pc = "alloc" /\ call[t].fd = fd}

\* No count is too small, and none is too large either while no two destroys may have
\* read the same one; nor did a destroyer read one that is too small.
CountInv ==
  /\ \A fd \in Fds :
       /\ RefOf(reg, fd) >= Cardinality(Staying(fd)) + Cardinality(Counted(fd))
       /\ Beside = {} \/ fd \in offered =>
            RefOf(reg, fd) = Cardinality(Staying(fd)) + Cardinality(Counted(fd))
  /\ \A t \in Threads : call[t].pc = "decwrite" =>
       call[t].n >= Cardinality(Staying(call[t].fd))

Closing == {"unmap", "close"}

\* On a destroyer's fd there is nobody, or other destroyers, of other objects; one of
\* them tears down.
AloneInv ==
  /\ \A s, t \in Threads :
       s # t /\ s \in Destroying /\ call[t].pc # "idle" /\ call[t].fd = call[s].fd =>
         t \in Destroying /\ "destroy" \in Beside
  /\ \A s, t \in Threads :
       s # t /\ call[s].pc \in Holding /\ call[t].pc \in Holding => call[s].id # call[t].id
  /\ \A s, t \in Threads :
       s # t /\ call[s].pc \in Closing /\ call[t].pc \in Closing => call[s].fd # call[t].fd
  /\ \A t \in Destroying : call[t].fd \notin offered

\* What a thread read of the registry is still so, for a destroyer if it is alone.
EntryOk(c) ==
  /\ c.pc \in Found /\ c.found => Registered(reg, c.fd)
  /\ c.pc \in {"inc", "incwrite", "alloc", "decwrite"} => Registered(reg, c.fd)
  /\ c.pc \in {"unmap", "close"} => ~Registered(reg, c.fd)
  /\ c.pc = "incwrite" \/ (c.pc = "decwrite" /\ Beside = {}) => c.n = RefOf(reg, c.fd)

EntryInv == \A t \in Threads : EntryOk(call[t])

OpenInv ==
  /\ \A id \in DOMAIN objs : objs[id].fd \in open
  /\ \A t \in Threads : call[t].pc \in Importing => call[t].fd \in open

\* The inductive invariant.
ExactInv == TypeInv /\ HasInv /\ CountInv /\ AloneInv /\ EntryInv /\ OpenInv

LEMMA RefOfType == ASSUME TypeInv, NEW fd PROVE RefOf(reg, fd) \in Int
BY LookupType DEF RefOf, TypeInv, Entries

LEMMA FiniteParts ==
  ASSUME Orderly, TypeInv, NEW fd
  PROVE  /\ IsFiniteSet(Staying(fd)) /\ IsFiniteSet(Counted(fd))
         /\ Cardinality(Staying(fd)) \in Nat /\ Cardinality(Counted(fd)) \in Nat
<1>1. Staying(fd) \subseteq Ids /\ Counted(fd) \subseteq Threads
  BY DEF Staying, Counted, On, TypeInv, MapsTo
<1>. QED  BY <1>1, FS_Subset, FS_CardinalityType DEF Orderly

LEMMA AloneSame ==
  ASSUME AloneInv, NEW t \in Threads, offered' \subseteq offered,
         \A s \in Threads : s # t => call'[s] = call[s],
         \/ call'[t].pc = "idle"
         \/ /\ call[t].pc # "idle" /\ call'[t].fd = call[t].fd
            /\ t \in Destroying' <=> t \in Destroying
            /\ call'[t].pc \in Holding => call[t].pc \in Holding /\ call'[t].id = call[t].id
            /\ call'[t].pc \in Closing => call[t].pc \in Closing
  PROVE  AloneInv'
<1>1. ASSUME NEW s \in Threads
      PROVE  /\ s \in Destroying' => s \in Destroying /\ call'[s].fd = call[s].fd
             /\ call'[s].pc # "idle" => call[s].pc # "idle" /\ call'[s].fd = call[s].fd
             /\ call'[s].pc # "idle" /\ s \in Destroying => s \in Destroying'
             /\ call'[s].pc \in Holding => call[s].pc \in Holding /\ call'[s].id = call[s].id
             /\ call'[s].pc \in Closing => call[s].pc \in Closing /\ call'[s].fd = call[s].fd
  BY DEF Destroying, Holding, Closing
<1>2. ASSUME NEW r \in Threads, NEW s \in Threads, r # s, r \in Destroying',
             call'[s].pc # "idle", call'[s].fd = call'[r].fd
      PROVE  s \in Destroying' /\ "destroy" \in Beside
  <2>1. s \in Destroying /\ "destroy" \in Beside /\ call[s].pc # "idle"
    BY <1>1, <1>2 DEF AloneInv
  <2>. QED  BY <1>1, <1>2, <2>1
<1>3. ASSUME NEW r \in Threads, NEW s \in Threads, r # s
      PROVE  /\ call'[r].pc \in Holding /\ call'[s].pc \in Holding => call'[r].id # call'[s].id
             /\ call'[r].pc \in Closing /\ call'[s].pc \in Closing => call'[r].fd # call'[s].fd
  BY <1>1, <1>3 DEF AloneInv
<1>4. \A s \in Destroying' : call'[s].fd \notin offered'
  <2>1. Destroying' \subseteq Threads
    BY DEF Destroying
  <2>. QED  BY <1>1, <2>1 DEF AloneInv
<1>. QED  BY <1>2, <1>3, <1>4 DEF AloneInv

\* No import is on the fd of a destroyer.
LEMMA AloneOn ==
  ASSUME AloneInv, NEW t \in Threads, t \in Destroying,
         NEW s \in Threads, call[s].pc # "idle", s \notin Destroying
  PROVE  call[s].fd # call[t].fd
BY DEF AloneInv

\* A step that moves no object and no thread in or out of the counts.
LEMMA CountSame ==
  ASSUME Orderly, TypeInv, CountInv, NEW t \in Threads, reg' = reg, objs' = objs,
         offered' \subseteq offered,
         \A s \in Threads : s # t => call'[s] = call[s],
         call[t].pc \notin {"alloc", "unmap", "close"},
         call'[t].pc \notin {"alloc", "unmap", "close"},
         call'[t].pc = "decwrite" =>
           call'[t].fd \in Fds /\ call'[t].n = RefOf(reg, call'[t].fd)
  PROVE  CountInv'
<1>1. Leaving' = Leaving
  BY DEF Leaving
<1>2. \A fd : Staying(fd)' = Staying(fd) /\ Counted(fd)' = Counted(fd)
  BY <1>1 DEF Staying, Counted, On
<1>3. \A fd \in Fds : RefOf(reg, fd) >= Cardinality(Staying(fd))
  BY FiniteParts, RefOfType DEF CountInv
<1>4. ASSUME NEW s \in Threads, call'[s].pc = "decwrite"
      PROVE  (call[s].n >= Cardinality(Staying(call[s].fd)))'
  <2>1. CASE s = t
    BY <1>2, <1>3, <1>4, <2>1
  <2>2. CASE s # t
    BY <1>2, <1>4, <2>2 DEF CountInv
  <2>. QED  BY <2>1, <2>2
<1>. QED  BY <1>2, <1>4 DEF CountInv

\* The counts of other buffers.
LEMMA CountOthers ==
  ASSUME CountInv, NEW fd \in Fds, offered' \subseteq offered,
         \A k \in Fds : k # fd =>
           /\ RefOf(reg', k) = RefOf(reg, k)
           /\ Staying(k)' = Staying(k) /\ Counted(k)' = Counted(k),
         RefOf(reg', fd) >= Cardinality(Staying(fd)') + Cardinality(Counted(fd)'),
         Beside = {} \/ fd \in offered =>
           RefOf(reg', fd) = Cardinality(Staying(fd)') + Cardinality(Counted(fd)'),
         \A s \in Threads : call'[s].pc = "decwrite" =>
           /\ call'[s] = call[s] /\ call[s].fd \in Fds
           /\ call[s].fd = fd => call[s].n >= Cardinality(Staying(fd)')
  PROVE  CountInv'
<1>1. ASSUME NEW k \in Fds
      PROVE  /\ RefOf(reg', k) >= Cardinality(Staying(k)') + Cardinality(Counted(k)')
             /\ Beside = {} \/ k \in offered' =>
                  RefOf(reg', k) = Cardinality(Staying(k)') + Cardinality(Counted(k)')
  <2>1. CASE k = fd
    BY <2>1
  <2>2. CASE k # fd
    BY <2>2 DEF CountInv
  <2>. QED  BY <2>1, <2>2
<1>2. ASSUME NEW s \in Threads, call'[s].pc = "decwrite"
      PROVE  (call[s].n >= Cardinality(Staying(call[s].fd)))'
  <2>1. PICK k \in Fds : k = call[s].fd
    BY <1>2
  <2>2. call'[s] = call[s] /\ call[s].n >= Cardinality(Staying(k))
    BY <1>2, <2>1 DEF CountInv
  <2>3. CASE k = fd
    BY <1>2, <2>1, <2>2, <2>3
  <2>4. CASE k # fd
    BY <2>1, <2>2, <2>4
  <2>. QED  BY <2>3, <2>4
<1>. QED  BY <1>1, <1>2 DEF CountInv

LEMMA EntrySame ==
  ASSUME EntryInv, NEW t \in Threads, reg' = reg,
         \A s \in Threads : s # t => call'[s] = call[s], EntryOk(call[t])'
  PROVE  EntryInv'
BY DEF EntryInv, EntryOk

LEMMA HasSame ==
  ASSUME HasInv, NEW t \in Threads, objs' = objs,
         \A s \in Threads : s # t => call'[s] = call[s],
         call'[t].pc \in Holding =>
           call[t].pc \in Holding /\ call'[t].id = call[t].id /\ call'[t].fd = call[t].fd
  PROVE  HasInv'
BY DEF HasInv

\* A step of an import, or of a thread that does not import, with no fd closed.
LEMMA OpenSame ==
  ASSUME OpenInv, NEW t \in Threads, objs' = objs, open \subseteq open',
         \A s \in Threads : s # t => call'[s] = call[s],
         call'[t].pc \in Importing => call'[t].fd \in open
  PROVE  OpenInv'
BY DEF OpenInv

LEMMA InitExact == ASSUME Init, Orderly PROVE ExactInv
<1>1. \A fd : /\ RefOf(reg, fd) = 0
             /\ Cardinality(Staying(fd)) = 0 /\ Cardinality(Counted(fd)) = 0
  <2>1. \A fd : Staying(fd) = {} /\ Counted(fd) = {} /\ RefOf(reg, fd) = 0
    BY DEF Init, Staying, Counted, On, EmptyMap, Idle, RefOf, Lookup, Registered
  <2>. QED  BY <2>1, FS_EmptySet
<1>2. CountInv
  <2>1. \A t \in Threads : call[t].pc # "decwrite"
    BY DEF Init, Idle
  <2>. QED  BY <1>1, <2>1 DEF CountInv
<1>3. HasInv /\ AloneInv /\ EntryInv /\ OpenInv
  BY DEF Init, Idle, EmptyMap, HasInv, AloneInv, Destroying, EntryInv, EntryOk, OpenInv,
         Found, Importing, Carrying, Holding, Closing
<1>. QED  BY <1>2, <1>3, InitType DEF ExactInv

\* The steps of an import that only look: what they leave alone.
LEMMA LooksExact ==
  ASSUME Orderly, ExactInv, TypeInv', NEW t \in Threads, reg' = reg, objs' = objs,
         open' = open, offered' = offered,
         \A s \in Threads : s # t => call'[s] = call[s],
         call[t].pc \notin {"alloc", "unmap", "close"},
         call'[t].pc \in Importing \ {"alloc"}, call'[t].fd \in open,
         EntryOk(call[t])', AloneInv'
  PROVE  ExactInv'
<1>1. CountInv'
  BY CountSame DEF ExactInv, Importing, Carrying
<1>2. HasInv'
  BY HasSame DEF ExactInv, Importing, Carrying, Holding
<1>3. EntryInv'
  BY EntrySame DEF ExactInv
<1>4. OpenInv'
  BY OpenSame DEF ExactInv
<1>. QED  BY <1>1, <1>2, <1>3, <1>4 DEF ExactInv

LEMMA ImportCallExact ==
  ASSUME Orderly, ExactInv, NEW t \in Threads, NEW op \in Ops, NEW fd \in Fds,
         ImportCall(t, op, fd)
  PROVE  ExactInv'
<1>. DEFINE d == [pc |-> "search", op |-> op, fd |-> fd]
<1>1. TypeInv'
  BY ImportCallType DEF ExactInv
<1>2. call' = [call EXCEPT ![t] = d] /\ d.pc = "search" /\ d.fd = fd /\ EntryOk(d)'
  BY DEF ImportCall, EntryOk, Found
<1>. HIDE DEF d
<1>3. call'[t] = d /\ \A s \in Threads : s # t => call'[s] = call[s]
  BY <1>2 DEF ExactInv, TypeInv, CallsInv
<1>4. fd \in open /\ Busy(fd) \cap Destroying = {}
  BY DEF ImportCall, MayImport, Orderly
<1>5. AloneInv'
  <2>1. /\ t \notin Destroying' /\ call'[t].pc \notin Holding \cup Closing
        /\ \A s \in Threads : s \in Destroying' <=> s \in Destroying
    BY <1>2, <1>3 DEF ImportCall, At, Destroying, Holding, Closing
  <2>2. \A s \in Threads : s \in Destroying => call[s].fd # fd
    BY <1>4 DEF Busy, Destroying
  <2>3. ASSUME NEW r \in Threads, NEW s \in Threads, r # s, r \in Destroying',
               call'[s].pc # "idle", call'[s].fd = call'[r].fd
        PROVE  s \in Destroying' /\ "destroy" \in Beside
    <3>1. r # t /\ s # t
      BY <1>2, <1>3, <2>1, <2>2, <2>3
    <3>. QED  BY <1>3, <2>1, <2>3, <3>1 DEF ExactInv, AloneInv
  <2>4. ASSUME NEW r \in Threads, NEW s \in Threads, r # s
        PROVE  /\ call'[r].pc \in Holding /\ call'[s].pc \in Holding =>
                    call'[r].id # call'[s].id
               /\ call'[r].pc \in Closing /\ call'[s].pc \in Closing =>
                    call'[r].fd # call'[s].fd
    BY <1>3, <2>1, <2>4 DEF ExactInv, AloneInv
  <2>5. \A s \in Destroying' : call'[s].fd \notin offered'
    <3>1. Destroying' \subseteq Threads
      BY DEF Destroying
    <3>. QED  BY <1>3, <2>1, <3>1 DEF ImportCall, ExactInv, AloneInv
  <2>. QED  BY <2>3, <2>4, <2>5 DEF AloneInv
<1>. QED
  BY <1>1, <1>2, <1>3, <1>4, <1>5, LooksExact DEF ImportCall, At, Importing, Carrying

LEMMA SearchExact ==
  ASSUME Orderly, ExactInv, NEW t \in Threads, Search(t)
  PROVE  ExactInv'
<1>. DEFINE c == call[t]
            e == Lookup(reg, c.fd)
            d == [pc |-> IF c.op = "gbm" THEN "map" ELSE "lock",
                  op |-> c.op, fd |-> c.fd, found |-> Registered(reg, c.fd),
                  mfd |-> IF c.op = "gbm" THEN MetaFd(c.fd) ELSE e.mfd,
                  known |-> e.mfd, cpu |-> e.cpu, mt |-> e.mt]
<1>1. TypeInv'
  BY SearchType DEF ExactInv
<1>2. call' = [call EXCEPT ![t] = d] /\ reg' = reg
  BY DEF Search
<1>3. d.pc \in {"map", "lock"} /\ d.fd = c.fd /\ d.found = Registered(reg, c.fd)
  OBVIOUS
<1>. HIDE DEF d
<1>4. call'[t] = d /\ \A s \in Threads : s # t => call'[s] = call[s]
  BY <1>2 DEF ExactInv, TypeInv, CallsInv
<1>5. EntryOk(call[t])'
  BY <1>2, <1>3, <1>4 DEF EntryOk
<1>6. c.pc = "search" /\ c.fd \in open
  BY DEF Search, At, ExactInv, OpenInv, Importing
<1>7. AloneInv'
  BY <1>3, <1>4, <1>6, AloneSame DEF Search, ExactInv, Destroying, Holding, Closing
<1>. QED
  BY <1>1, <1>3, <1>4, <1>5, <1>6, <1>7, LooksExact DEF Search, Importing, Carrying

LEMMA MapMissingExact ==
  ASSUME Orderly, ExactInv, NEW t \in Threads, MapMissing(t)
  PROVE  ExactInv'
<1>. DEFINE c == call[t]
<1>1. TypeInv'
  BY MapMissingType DEF ExactInv
<1>2. c.pc = "map" /\ c.fd \in open /\ CallOk(c)
  BY DEF MapMissing, At, ExactInv, OpenInv, Importing, Carrying, TypeInv, CallsInv
<1>3. PICK mt, cpu : call' = [call EXCEPT ![t].pc = "lock", ![t].mt = mt, ![t].cpu = cpu]
  BY DEF MapMissing
<1>4. /\ call'[t].pc = "lock" /\ call'[t].fd = c.fd /\ call'[t].found = c.found
      /\ \A s \in Threads : s # t => call'[s] = call[s]
  BY <1>2, <1>3 DEF ExactInv, TypeInv, CallsInv, CallOk, Found, Carrying
<1>5. EntryOk(call[t])'
  BY <1>2, <1>4 DEF MapMissing, EntryOk, ExactInv, EntryInv, Found
<1>6. AloneInv'
  BY <1>2, <1>4, AloneSame DEF MapMissing, ExactInv, Destroying, Holding, Closing
<1>. QED
  BY <1>1, <1>2, <1>4, <1>5, <1>6, LooksExact DEF MapMissing, Importing, Carrying

\* The counts of no fd change, and none is forgotten.
LEMMA EnterKeeps ==
  ASSUME ExactInv, NEW t \in Threads, call[t].pc = "lock"
  PROVE  /\ Registered(Enter(t), call[t].fd)
         /\ \A k : Registered(reg, k) => Registered(Enter(t), k)
         /\ \A k : k # call[t].fd /\ Registered(Enter(t), k) => Registered(reg, k)
         /\ \A k : RefOf(Enter(t), k) = RefOf(reg, k)
<1>1. call[t].found => Registered(reg, call[t].fd)
  BY DEF ExactInv, EntryInv, EntryOk, Found
<1>. QED  BY <1>1 DEF Enter, Register, Update, Registered, RefOf, Lookup, Put

LEMMA LockExact ==
  ASSUME Orderly, ExactInv, NEW t \in Threads, LockAndEnter(t)
  PROVE  ExactInv'
<1>. DEFINE c == call[t]
<1>1. TypeInv'
  BY LockType DEF ExactInv
<1>2. c.pc = "lock" /\ CallOk(c) /\ c.fd \in open
  BY DEF LockAndEnter, At, ExactInv, TypeInv, CallsInv, OpenInv, Importing, Carrying
<1>3. /\ call'[t].pc = "inc" /\ call'[t].fd = c.fd
      /\ \A s \in Threads : s # t => call'[s] = call[s]
  BY <1>2 DEF LockAndEnter, Goto, ExactInv, TypeInv, CallsInv, CallOk
<1>4. /\ Registered(reg', c.fd)
      /\ \A k : Registered(reg, k) => Registered(reg', k)
      /\ \A k : k # c.fd /\ Registered(reg', k) => Registered(reg, k)
      /\ \A k : RefOf(reg', k) = RefOf(reg, k)
  BY <1>2, EnterKeeps DEF LockAndEnter
<1>5. AloneInv'
  BY <1>2, <1>3, AloneSame DEF LockAndEnter, ExactInv, Destroying, Holding, Closing
<1>6. HasInv'
  BY <1>3, HasSame DEF LockAndEnter, ExactInv, Holding
<1>7. OpenInv'
  BY <1>2, <1>3, OpenSame DEF LockAndEnter, ExactInv
<1>8. CountInv'
  <2>1. Leaving' = Leaving
    BY <1>2, <1>3 DEF Leaving
  <2>2. \A fd : Staying(fd)' = Staying(fd) /\ Counted(fd)' = Counted(fd)
    BY <1>2, <1>3, <2>1 DEF LockAndEnter, Staying, Counted, On
  <2>3. \A s \in Threads : call'[s].pc = "decwrite" => call'[s] = call[s]
    BY <1>3
  <2>4. offered' = offered
    BY DEF LockAndEnter
  <2>. QED  BY <1>4, <2>2, <2>3, <2>4 DEF ExactInv, CountInv
<1>9. ASSUME NEW s \in Threads PROVE EntryOk(call[s])'
  <2>1. CASE s = t
    BY <1>3, <1>4, <2>1 DEF EntryOk, Found
  <2>2. CASE s # t /\ call[s].pc \in {"unmap", "close"}
    <3>1. call[s].fd # c.fd
      BY <1>2, <2>2, AloneOn DEF ExactInv, Destroying
    <3>. QED  BY <1>3, <1>4, <2>2, <3>1 DEF ExactInv, EntryInv, EntryOk, Found
  <2>3. CASE s # t /\ call[s].pc \notin {"unmap", "close"}
    BY <1>3, <1>4, <2>3 DEF ExactInv, EntryInv, EntryOk, Found
  <2>. QED  BY <2>1, <2>2, <2>3
<1>. QED  BY <1>1, <1>5, <1>6, <1>7, <1>8, <1>9 DEF ExactInv, EntryInv

LEMMA IncReadExact ==
  ASSUME Orderly, ExactInv, NEW t \in Threads, IncRead(t)
  PROVE  ExactInv'
<1>. DEFINE c == call[t]
            d == [pc |-> "incwrite", fd |-> c.fd, mfd |-> c.mfd, cpu |-> c.cpu,
                  mt |-> c.mt, n |-> reg[c.fd].ref]
<1>1. TypeInv'
  BY IncReadType DEF ExactInv
<1>2. c.pc = "inc" /\ c.fd \in open /\ Registered(reg, c.fd)
  BY DEF IncRead, At, ExactInv, OpenInv, Importing, Carrying, EntryInv, EntryOk
<1>3. call' = [call EXCEPT ![t] = d] /\ reg' = reg
  BY <1>2 DEF IncRead
<1>4. d.pc = "incwrite" /\ d.fd = c.fd /\ d.n = RefOf(reg, c.fd)
  BY <1>2 DEF RefOf, Lookup
<1>. HIDE DEF d
<1>5. call'[t] = d /\ \A s \in Threads : s # t => call'[s] = call[s]
  BY <1>3 DEF ExactInv, TypeInv, CallsInv
<1>6. EntryOk(call[t])'
  BY <1>2, <1>3, <1>4, <1>5 DEF EntryOk, Found
<1>7. AloneInv'
  BY <1>2, <1>4, <1>5, AloneSame DEF IncRead, ExactInv, Destroying, Holding, Closing
<1>. QED
  BY <1>1, <1>2, <1>4, <1>5, <1>6, <1>7, LooksExact DEF IncRead, Importing, Carrying

LEMMA Adds ==
  ASSUME NEW S, NEW x, IsFiniteSet(S)
  PROVE  /\ x \notin S => Cardinality(S \cup {x}) = Cardinality(S) + 1
         /\ x \in S => Cardinality(S \ {x}) = Cardinality(S) - 1
BY FS_AddElement, FS_RemoveElement

LEMMA IncWriteExact ==
  ASSUME Orderly, ExactInv, NEW t \in Threads, IncWrite(t)
  PROVE  ExactInv'
<1>. DEFINE c == call[t]
<1>1. TypeInv'
  BY IncWriteType DEF ExactInv
<1>2. /\ c.pc = "incwrite" /\ CallOk(c) /\ c.fd \in open /\ c.fd \in Fds
      /\ Registered(reg, c.fd) /\ c.n = RefOf(reg, c.fd)
  BY DEF IncWrite, At, ExactInv, TypeInv, CallsInv, OpenInv, Importing, Carrying, EntryInv,
         EntryOk, CallOk
<1>3. /\ call'[t].pc = "alloc" /\ call'[t].fd = c.fd
      /\ \A s \in Threads : s # t => call'[s] = call[s]
  BY <1>2 DEF IncWrite, Goto, ExactInv, TypeInv, CallsInv, CallOk
<1>4. reg' = [reg EXCEPT ![c.fd].ref = c.n + 1]
  BY <1>2 DEF IncWrite
<1>5. /\ \A k : Registered(reg, k) <=> Registered(reg', k)
      /\ \A k : k # c.fd => RefOf(reg', k) = RefOf(reg, k)
      /\ RefOf(reg', c.fd) = RefOf(reg, c.fd) + 1
  <2>1. "ref" \in DOMAIN reg[c.fd]
    BY <1>2 DEF ExactInv, TypeInv, MapsTo, Registered, Entries
  <2>. QED  BY <1>2, <1>4, <2>1 DEF Registered, RefOf, Lookup
<1>6. AloneInv'
  BY <1>2, <1>3, AloneSame DEF IncWrite, ExactInv, Destroying, Holding, Closing
<1>7. HasInv'
  BY <1>3, HasSame DEF IncWrite, ExactInv, Holding
<1>8. OpenInv'
  BY <1>2, <1>3, OpenSame DEF IncWrite, ExactInv
<1>9. CountInv'
  <2>. PICK fd \in Fds : fd = c.fd
    BY <1>2
  <2>1. Leaving' = Leaving
    BY <1>2, <1>3 DEF Leaving
  <2>2. \A k : Staying(k)' = Staying(k)
    BY <2>1 DEF IncWrite, Staying, On
  <2>3. /\ t \notin Counted(fd) /\ Counted(fd)' = Counted(fd) \cup {t}
        /\ \A k : k # fd => Counted(k)' = Counted(k)
    BY <1>2, <1>3 DEF Counted
  <2>4. Cardinality(Counted(fd)') = Cardinality(Counted(fd)) + 1
    BY <2>3, FiniteParts, Adds DEF ExactInv
  <2>5. /\ RefOf(reg', fd) >= Cardinality(Staying(fd)') + Cardinality(Counted(fd)')
        /\ Beside = {} \/ fd \in offered =>
             RefOf(reg', fd) = Cardinality(Staying(fd)') + Cardinality(Counted(fd)')
    BY <1>2, <1>5, <2>2, <2>4, FiniteParts, RefOfType DEF ExactInv, CountInv
  <2>6. ASSUME NEW s \in Threads, call'[s].pc = "decwrite"
        PROVE  call'[s] = call[s] /\ call[s].fd \in Fds /\ call[s].fd # fd
    <3>1. call'[s] = call[s]
      BY <1>3, <2>6
    <3>. QED  BY <1>2, <2>6, <3>1, AloneOn DEF ExactInv, TypeInv, CallsInv, CallOk, Destroying
  <2>7. offered' = offered
    BY DEF IncWrite
  <2>. QED  BY <1>5, <2>2, <2>3, <2>5, <2>6, <2>7, CountOthers DEF ExactInv
<1>10. ASSUME NEW s \in Threads PROVE EntryOk(call[s])'
  <2>1. CASE s = t
    BY <1>2, <1>3, <1>5, <2>1 DEF EntryOk, Found
  <2>2. CASE s # t /\ call[s].pc \in {"incwrite", "decwrite"}
    <3>1. call[s].pc # "incwrite"
      BY <1>2, <2>2 DEF ExactInv, TypeInv, MutexInv
    <3>2. call[s].fd # c.fd
      BY <1>2, <2>2, <3>1, AloneOn DEF ExactInv, Destroying
    <3>. QED  BY <1>3, <1>5, <2>2, <3>2 DEF ExactInv, EntryInv, EntryOk, Found
  <2>3. CASE s # t /\ call[s].pc \notin {"incwrite", "decwrite"}
    BY <1>3, <1>5, <2>3 DEF ExactInv, EntryInv, EntryOk, Found
  <2>. QED  BY <2>1, <2>2, <2>3
<1>. QED  BY <1>1, <1>6, <1>7, <1>8, <1>9, <1>10 DEF ExactInv, EntryInv

\* An object added on an open descriptor.
LEMMA ObjectAdded ==
  ASSUME ExactInv, NEW id \in Ids \ DOMAIN objs, NEW o, o.fd \in Fds, objs' = Put(objs, id, o)
  PROVE  /\ id \notin Leaving
         /\ \A x \in DOMAIN objs : x \in DOMAIN objs' /\ objs'[x] = objs[x]
         /\ DOMAIN objs' = DOMAIN objs \cup {id} /\ objs'[id] = o
         /\ Leaving' = Leaving => /\ id \notin Staying(o.fd)
                                  /\ Staying(o.fd)' = Staying(o.fd) \cup {id}
                                  /\ \A k : k # o.fd => Staying(k)' = Staying(k)
<1>1. id \notin Leaving
  BY DEF ExactInv, HasInv, Leaving, Holding
<1>2. /\ \A x \in DOMAIN objs : x \in DOMAIN objs' /\ objs'[x] = objs[x]
      /\ DOMAIN objs' = DOMAIN objs \cup {id} /\ objs'[id] = o
  BY DEF Put
<1>. QED  BY <1>1, <1>2 DEF Staying, On

LEMMA AllocExact ==
  ASSUME Orderly, ExactInv, NEW t \in Threads, Alloc(t)
  PROVE  ExactInv'
<1>. DEFINE c == call[t]
            o == [fd |-> c.fd, mfd |-> c.mfd, cpu |-> c.cpu, mt |-> c.mt]
<1>1. TypeInv'
  BY AllocType DEF ExactInv
<1>2. c.pc = "alloc" /\ c.fd \in open /\ c.fd \in Fds
  BY DEF Alloc, At, ExactInv, TypeInv, CallsInv, CallOk, OpenInv, Importing, Carrying
<1>. PICK fd \in Fds : fd = c.fd
  BY <1>2
<1>3. call'[t] = Idle /\ \A s \in Threads : s # t => call'[s] = call[s]
  BY DEF Alloc, Return, ExactInv, TypeInv, CallsInv
<1>4. PICK id \in Ids \ DOMAIN objs : objs' = Put(objs, id, o)
  BY DEF Alloc
<1>5. o.fd = fd
  OBVIOUS
<1>. HIDE DEF o
<1>6. Leaving' = Leaving
  BY <1>2, <1>3 DEF Leaving, Idle
<1>7. /\ id \notin Staying(fd) /\ Staying(fd)' = Staying(fd) \cup {id}
      /\ \A k : k # fd => Staying(k)' = Staying(k)
  BY <1>2, <1>4, <1>5, <1>6, ObjectAdded
<1>8. /\ t \in Counted(fd) /\ Counted(fd)' = Counted(fd) \ {t}
      /\ \A k : k # fd => Counted(k)' = Counted(k)
  BY <1>2, <1>3 DEF Counted, Idle
<1>9. CountInv'
  <2>1. Cardinality(Staying(fd)') = Cardinality(Staying(fd)) + 1
    BY <1>7, FiniteParts, Adds DEF ExactInv
  <2>2. Cardinality(Counted(fd)') = Cardinality(Counted(fd)) - 1
    BY <1>8, FiniteParts, Adds DEF ExactInv
  <2>3. /\ RefOf(reg', fd) >= Cardinality(Staying(fd)') + Cardinality(Counted(fd)')
        /\ Beside = {} \/ fd \in offered =>
             RefOf(reg', fd) = Cardinality(Staying(fd)') + Cardinality(Counted(fd)')
    BY <1>2, <2>1, <2>2, FiniteParts, RefOfType DEF Alloc, ExactInv, CountInv
  <2>4. ASSUME NEW s \in Threads, call'[s].pc = "decwrite"
        PROVE  call'[s] = call[s] /\ call[s].fd \in Fds /\ call[s].fd # fd
    <3>1. call'[s] = call[s]
      BY <1>3, <2>4 DEF Idle
    <3>. QED  BY <1>2, <2>4, <3>1, AloneOn DEF ExactInv, TypeInv, CallsInv, CallOk, Destroying
  <2>5. offered' = offered /\ reg' = reg
    BY DEF Alloc
  <2>. QED  BY <1>7, <1>8, <2>3, <2>4, <2>5, CountOthers DEF ExactInv
<1>10. AloneInv'
  BY <1>3, AloneSame DEF Alloc, ExactInv, Idle
<1>11. EntryInv'
  <2>1. EntryOk(call[t])'
    BY <1>3 DEF EntryOk, Idle, Found
  <2>. QED  BY <1>3, <2>1, EntrySame DEF Alloc, ExactInv
<1>12. HasInv' /\ OpenInv'
  <2>1. /\ \A x \in DOMAIN objs : x \in DOMAIN objs' /\ objs'[x] = objs[x]
        /\ DOMAIN objs' = DOMAIN objs \cup {id} /\ objs'[id] = o
    BY <1>2, <1>4, <1>5, ObjectAdded
  <2>2. \A s \in Threads : call'[s].pc # "idle" => call'[s] = call[s]
    BY <1>3 DEF Idle
  <2>3. HasInv'
    BY <2>1, <2>2 DEF ExactInv, HasInv, Holding
  <2>4. OpenInv'
    BY <1>2, <1>5, <2>1, <2>2 DEF Alloc, ExactInv, OpenInv, Importing, Carrying
  <2>. QED  BY <2>3, <2>4
<1>. QED  BY <1>1, <1>9, <1>10, <1>11, <1>12 DEF ExactInv

LEMMA BoCreateExact ==
  ASSUME Orderly, ExactInv, NEW t \in Threads, NEW fd \in Fds, BoCreate(t, fd)
  PROVE  ExactInv'
<1>1. TypeInv'
  BY CreateType DEF ExactInv
<1>2. PICK id \in Ids \ DOMAIN objs, mt \in Addrs, c \in Addrs :
        /\ reg' = IncRef(Register(reg, fd, MetaFd(fd), c, mt), fd)
        /\ objs' = Put(objs, id, [fd |-> fd, mfd |-> MetaFd(fd), cpu |-> c, mt |-> mt])
  BY NextAddrType DEF BoCreate
<1>. DEFINE o == [fd |-> fd, mfd |-> MetaFd(fd), cpu |-> c, mt |-> mt]
<1>3. o.fd = fd /\ objs' = Put(objs, id, o)
  BY <1>2
<1>. HIDE DEF o
<1>4. fd \notin open /\ fd \in open' /\ open \subseteq open' /\ call' = call /\ mutex = Free
  BY DEF BoCreate, MayLock
<1>5. /\ \A k : k # fd => (Registered(reg', k) <=> Registered(reg, k))
      /\ \A k : k # fd => RefOf(reg', k) = RefOf(reg, k)
      /\ RefOf(reg', fd) = RefOf(reg, fd) + 1
  <2>. DEFINE r == Register(reg, fd, MetaFd(fd), c, mt)
  <2>1. /\ Registered(r, fd) /\ RefOf(r, fd) = RefOf(reg, fd) /\ "ref" \in DOMAIN r[fd]
        /\ \A k : k # fd => (Registered(r, k) <=> Registered(reg, k))
        /\ \A k : k # fd => RefOf(r, k) = RefOf(reg, k)
    BY DEF Register, Registered, RefOf, Lookup, Put, ExactInv, TypeInv, MapsTo, Entries
  <2>2. reg' = IncRef(r, fd)
    BY <1>2
  <2>. HIDE DEF r
  <2>. QED  BY <2>1, <2>2 DEF IncRef, Registered, RefOf, Lookup
<1>6. \A s \in Threads : call[s].pc \notin {"idle", "closemeta"} => call[s].fd # fd
  <2>. SUFFICES ASSUME NEW s \in Threads, call[s].pc \notin {"idle", "closemeta"}
                PROVE  call[s].fd \in open
    BY <1>4
  <2>1. call[s].pc \in Importing \cup Holding
    BY DEF ExactInv, TypeInv, CallsInv, CallOk, Pcs, Importing, Carrying, Holding
  <2>. QED  BY <2>1 DEF ExactInv, OpenInv, HasInv
<1>7. Leaving' = Leaving
  BY <1>4 DEF Leaving
<1>8. /\ id \notin Staying(fd) /\ Staying(fd)' = Staying(fd) \cup {id}
      /\ \A k : k # fd => Staying(k)' = Staying(k)
      /\ \A x \in DOMAIN objs : x \in DOMAIN objs' /\ objs'[x] = objs[x]
      /\ DOMAIN objs' = DOMAIN objs \cup {id} /\ objs'[id] = o
  BY <1>3, <1>7, ObjectAdded
<1>9. CountInv'
  <2>1. Cardinality(Staying(fd)') = Cardinality(Staying(fd)) + 1
    BY <1>8, FiniteParts, Adds DEF ExactInv
  <2>2. \A k : Counted(k)' = Counted(k)
    BY <1>4 DEF Counted
  <2>3. /\ RefOf(reg', fd) >= Cardinality(Staying(fd)') + Cardinality(Counted(fd)')
        /\ Beside = {} \/ fd \in offered =>
             RefOf(reg', fd) = Cardinality(Staying(fd)') + Cardinality(Counted(fd)')
    BY <1>5, <2>1, <2>2, FiniteParts, RefOfType DEF ExactInv, CountInv
  <2>4. \A s \in Threads : call'[s].pc = "decwrite" =>
          call'[s] = call[s] /\ call[s].fd \in Fds /\ call[s].fd # fd
    BY <1>4, <1>6 DEF ExactInv, TypeInv, CallsInv, CallOk
  <2>5. offered' = offered
    BY DEF BoCreate
  <2>. QED  BY <1>5, <1>8, <2>2, <2>3, <2>4, <2>5, CountOthers DEF ExactInv
<1>10. AloneInv'
  BY <1>4 DEF BoCreate, ExactInv, AloneInv, Destroying
<1>11. EntryInv'
  BY <1>4, <1>5, <1>6 DEF ExactInv, EntryInv, EntryOk, Found
<1>12. HasInv' /\ OpenInv'
  BY <1>3, <1>4, <1>8 DEF ExactInv, HasInv, OpenInv
<1>. QED  BY <1>1, <1>9, <1>10, <1>11, <1>12 DEF ExactInv

LEMMA DestroyCallExact ==
  ASSUME Orderly, ExactInv, NEW t \in Threads, NEW id \in DOMAIN objs, DestroyCall(t, id)
  PROVE  ExactInv'
<1>. DEFINE d == [pc |-> "dec", fd |-> objs[id].fd, id |-> id]
<1>1. TypeInv'
  BY DestroyCallType DEF ExactInv
<1>2. /\ call' = [call EXCEPT ![t] = d]
      /\ d.pc = "dec" /\ d.fd = objs[id].fd /\ d.id = id
  BY DEF DestroyCall
<1>. HIDE DEF d
<1>3. call[t].pc = "idle" /\ call'[t] = d /\ \A s \in Threads : s # t => call'[s] = call[s]
  BY <1>2 DEF DestroyCall, At, ExactInv, TypeInv, CallsInv
<1>4. /\ Busy(d.fd) \subseteq Destroying
      /\ Busy(d.fd) # {} => "destroy" \in Beside
      /\ id \notin Claimed /\ d.fd \notin offered
  BY <1>2 DEF DestroyCall, MayDestroy, Orderly
<1>5. AloneInv'
  <2>1. \A s \in Threads : s # t => (s \in Destroying' <=> s \in Destroying)
    BY <1>3 DEF Destroying
  <2>2. ASSUME NEW r \in Threads, NEW s \in Threads, r # s, r \in Destroying',
               call'[s].pc # "idle", call'[s].fd = call'[r].fd
        PROVE  s \in Destroying' /\ "destroy" \in Beside
    <3>1. CASE r = t
      <4>1. s \in Busy(d.fd)
        BY <1>3, <2>2, <3>1 DEF Busy
      <4>. QED  BY <1>4, <2>1, <2>2, <3>1, <4>1
    <3>2. CASE s = t
      <4>1. r \in Busy(d.fd)
        BY <1>3, <2>1, <2>2, <3>2 DEF Busy, Destroying
      <4>2. t \in Destroying'
        BY <1>2, <1>3 DEF Destroying
      <4>. QED  BY <1>4, <3>2, <4>1, <4>2
    <3>3. CASE r # t /\ s # t
      BY <1>3, <2>1, <2>2, <3>3 DEF ExactInv, AloneInv
    <3>. QED  BY <3>1, <3>2, <3>3
  <2>3. \A s \in Threads : s # t /\ call[s].pc \in Holding => call[s].id # d.id
    BY <1>2, <1>4 DEF Claimed, Destroying, Holding
  <2>4. call'[t].pc \notin Closing
    BY <1>2, <1>3 DEF Closing
  <2>5. \A r \in Destroying' : call'[r].fd \notin offered'
    BY <1>3, <1>4, <2>1 DEF DestroyCall, ExactInv, AloneInv, Destroying
  <2>6. \A r, s \in Threads :
          r # s /\ call'[r].pc \in Holding /\ call'[s].pc \in Holding => call'[r].id # call'[s].id
    BY <1>3, <2>3 DEF ExactInv, AloneInv
  <2>7. \A r, s \in Threads :
          r # s /\ call'[r].pc \in Closing /\ call'[s].pc \in Closing => call'[r].fd # call'[s].fd
    BY <1>3, <2>4 DEF ExactInv, AloneInv
  <2>. QED  BY <2>2, <2>5, <2>6, <2>7 DEF AloneInv
<1>6. CountInv'
  BY <1>2, <1>3, CountSame DEF DestroyCall, ExactInv
<1>7. EntryInv'
  <2>1. EntryOk(call[t])'
    BY <1>2, <1>3 DEF EntryOk, Found
  <2>. QED  BY <1>3, <2>1, EntrySame DEF DestroyCall, ExactInv
<1>8. HasInv'
  BY <1>2, <1>3 DEF DestroyCall, ExactInv, HasInv
<1>9. OpenInv'
  BY <1>2, <1>3, OpenSame DEF DestroyCall, ExactInv, Importing, Carrying
<1>. QED  BY <1>1, <1>5, <1>6, <1>7, <1>8, <1>9 DEF ExactInv

\* The object that a destroyer has not counted out yet is registered.
LEMMA StillCounted ==
  ASSUME Orderly, ExactInv, NEW t \in Threads, call[t].pc \in {"dec", "decwrite"}
  PROVE  /\ call[t].id \in Staying(call[t].fd)
         /\ Registered(reg, call[t].fd)
         /\ RefOf(reg, call[t].fd) >= 1
<1>1. /\ call[t].id \in DOMAIN objs /\ objs[call[t].id].fd = call[t].fd /\ call[t].fd \in Fds
  BY DEF ExactInv, HasInv, Holding, TypeInv, CallsInv, CallOk
<1>2. call[t].id \notin Leaving
  BY DEF Leaving, ExactInv, AloneInv, Holding
<1>3. call[t].id \in Staying(call[t].fd)
  BY <1>1, <1>2 DEF Staying, On
<1>4. Cardinality(Staying(call[t].fd)) # 0
  BY <1>3, FiniteParts, FS_EmptySet DEF ExactInv
<1>5. RefOf(reg, call[t].fd) >= 1
  BY <1>1, <1>4, FiniteParts, RefOfType DEF ExactInv, CountInv
<1>. QED  BY <1>3, <1>5 DEF RefOf, Lookup

LEMMA DecReadExact ==
  ASSUME Orderly, ExactInv, NEW t \in Threads, DecRead(t)
  PROVE  ExactInv'
<1>. DEFINE c == call[t]
            d == [pc |-> "decwrite", fd |-> c.fd, id |-> c.id, n |-> reg[c.fd].ref]
<1>1. TypeInv'
  BY DecReadType DEF ExactInv
<1>2. c.pc = "dec" /\ Registered(reg, c.fd)
  BY StillCounted DEF DecRead, At
<1>3. /\ call' = [call EXCEPT ![t] = d]
      /\ d.pc = "decwrite" /\ d.fd = c.fd /\ d.id = c.id /\ d.n = RefOf(reg, c.fd)
  BY <1>2 DEF DecRead, RefOf, Lookup
<1>. HIDE DEF d
<1>4. call'[t] = d /\ \A s \in Threads : s # t => call'[s] = call[s]
  BY <1>3 DEF ExactInv, TypeInv, CallsInv
<1>5. AloneInv'
  BY <1>2, <1>3, <1>4, AloneSame DEF DecRead, ExactInv, Destroying, Holding, Closing
<1>6. CountInv'
  <2>1. c.fd \in Fds
    BY <1>2 DEF ExactInv, TypeInv, CallsInv, CallOk
  <2>. QED  BY <1>2, <1>3, <1>4, <2>1, CountSame DEF DecRead, ExactInv
<1>7. EntryInv'
  <2>1. EntryOk(call[t])'
    BY <1>2, <1>3, <1>4 DEF DecRead, EntryOk, Found
  <2>. QED  BY <1>4, <2>1, EntrySame DEF DecRead, ExactInv
<1>8. HasInv'
  BY <1>2, <1>3, <1>4, HasSame DEF DecRead, ExactInv, Holding
<1>9. OpenInv'
  BY <1>3, <1>4, OpenSame DEF DecRead, ExactInv, Importing, Carrying
<1>. QED  BY <1>1, <1>5, <1>6, <1>7, <1>8, <1>9 DEF ExactInv

\* The one object on fd that a destroyer t takes, or has taken, out of the count.
LEMMA HoldsAlone ==
  ASSUME ExactInv, NEW t \in Threads, call[t].pc \in Holding,
         NEW s \in Threads, s # t, call[s].pc \in Holding
  PROVE  call[s].id # call[t].id
BY DEF ExactInv, AloneInv

\* What a destroyer read counts its own object, and any other that stays.
LEMMA ReadEnough ==
  ASSUME Orderly, ExactInv, NEW t \in Threads, call[t].pc = "decwrite"
  PROVE  /\ call[t].id \in Staying(call[t].fd) /\ Registered(reg, call[t].fd)
         /\ call[t].n >= Cardinality(Staying(call[t].fd)) /\ call[t].n >= 1
<1>1. call[t].id \in Staying(call[t].fd) /\ Registered(reg, call[t].fd)
  BY StillCounted
<1>2. call[t].n >= Cardinality(Staying(call[t].fd)) /\ call[t].n \in Int
  BY DEF ExactInv, CountInv, TypeInv, CallsInv, CallOk
<1>3. Cardinality(Staying(call[t].fd)) # 0
  BY <1>1, FiniteParts, FS_EmptySet DEF ExactInv
<1>. QED  BY <1>1, <1>2, <1>3, FiniteParts DEF ExactInv

LEMMA TwoStay ==
  ASSUME Orderly, ExactInv, NEW fd, NEW n \in Int, n >= Cardinality(Staying(fd)),
         NEW x \in Staying(fd), NEW y \in Staying(fd), x # y
  PROVE  n # 1
<1>1. Cardinality(Staying(fd) \ {x}) = Cardinality(Staying(fd)) - 1
  BY FiniteParts, Adds DEF ExactInv
<1>2. IsFiniteSet(Staying(fd) \ {x})
  BY FiniteParts, FS_Subset DEF ExactInv
<1>3. Cardinality(Staying(fd) \ {x}) # 0
  BY <1>2, FS_EmptySet
<1>4. Cardinality(Staying(fd) \ {x}) \in Nat
  BY <1>2, FS_CardinalityType
<1>. QED  BY <1>1, <1>3, <1>4, FiniteParts DEF ExactInv

LEMMA DecWriteExact ==
  ASSUME Orderly, ExactInv, NEW t \in Threads, DecWrite(t)
  PROVE  ExactInv'
<1>. DEFINE c == call[t]
<1>1. TypeInv'
  BY DecWriteType DEF ExactInv
<1>2. /\ c.pc = "decwrite" /\ CallOk(c) /\ c.fd \in Fds /\ c.id \in Staying(c.fd)
      /\ Registered(reg, c.fd) /\ c.n >= 1 /\ c.n \in Int
      /\ c.n >= Cardinality(Staying(c.fd)) /\ (Beside = {} => c.n = RefOf(reg, c.fd))
      /\ c.id \in DOMAIN objs /\ objs[c.id].fd = c.fd /\ c.fd \notin offered
  BY ReadEnough DEF DecWrite, At, ExactInv, TypeInv, CallsInv, CallOk, EntryInv, EntryOk,
                    HasInv, Holding, AloneInv, Destroying
<1>. PICK fd \in Fds, id \in {c.id} : fd = c.fd /\ id = c.id
  BY <1>2
<1>3. /\ \A s \in Threads : s # t => call'[s] = call[s]
      /\ \/ call'[t].pc = "unmap" /\ call'[t].fd = fd /\ call'[t].id = id
         \/ call'[t] = Idle
  BY <1>2 DEF DecWrite, Goto, Return, ExactInv, TypeInv, CallsInv, CallOk, Holding
<1>4. AloneInv'
  <2>1. CASE call'[t] = Idle
    BY <1>3, <2>1, AloneSame DEF DecWrite, ExactInv, Idle
  <2>2. CASE call'[t].pc = "unmap" /\ call'[t].fd = fd /\ call'[t].id = id
    <3>1. \A s \in Threads : call[s].pc \in Closing => call[s].fd # fd
      BY <1>2 DEF ExactInv, EntryInv, EntryOk, Closing
    <3>2. Destroying' = Destroying /\ t \in Destroying
      BY <1>2, <1>3, <2>2 DEF Destroying
    <3>3. \A s \in Threads : /\ call'[s].pc \in Holding <=> call[s].pc \in Holding
                             /\ call[s].pc \in Holding => call'[s].id = call[s].id
      BY <1>2, <1>3, <2>2 DEF Holding
    <3>4. \A s \in Threads : /\ call'[s].pc # "idle" <=> call[s].pc # "idle"
                             /\ call[s].pc # "idle" => call'[s].fd = call[s].fd
      BY <1>2, <1>3, <2>2
    <3>5. \A s \in Threads : s # t => (call'[s].pc \in Closing <=> call[s].pc \in Closing)
      BY <1>3
    <3>6. \A r, s \in Threads :
            r # s /\ call'[r].pc \in Closing /\ call'[s].pc \in Closing => call'[r].fd # call'[s].fd
      BY <1>3, <2>2, <3>1, <3>5 DEF ExactInv, AloneInv
    <3>7. \A s \in Destroying : call'[s].fd = call[s].fd /\ call[s].pc # "idle" /\ s \in Threads
      BY <3>4 DEF Destroying
    <3>8. offered' = offered
      BY DEF DecWrite
    <3>9. \A r, s \in Threads :
            r # s /\ r \in Destroying /\ call'[s].pc # "idle" /\ call'[s].fd = call'[r].fd =>
              s \in Destroying /\ "destroy" \in Beside
      BY <3>4, <3>7 DEF ExactInv, AloneInv
    <3>. QED  BY <3>2, <3>3, <3>6, <3>7, <3>8, <3>9 DEF ExactInv, AloneInv
  <2>. QED  BY <1>2, <1>3, <2>1, <2>2
<1>5. /\ \A s \in Threads : call[s].pc = "alloc" => call[s].fd # fd
      /\ Beside = {} =>
           \A s \in Threads : s # t /\ call[s].pc # "idle" => call[s].fd # fd
  BY <1>2, AloneOn DEF ExactInv, AloneInv, Destroying
<1>6. /\ Staying(fd)' = Staying(fd) \ {id}
      /\ \A k : k # fd => Staying(k)' = Staying(k)
      /\ \A x \in DOMAIN objs : x # id => x \in DOMAIN objs' /\ objs'[x] = objs[x]
      /\ DOMAIN objs' \subseteq DOMAIN objs
      /\ call'[t].pc = "unmap" => objs' = objs
  <2>1. CASE IsLast(c.n)
    <3>1. objs' = objs /\ call'[t].pc = "unmap"
      BY <1>2, <2>1 DEF DecWrite, Goto, ExactInv, TypeInv, CallsInv, CallOk
    <3>2. Leaving' = Leaving \cup {id}
      BY <1>2, <1>3, <3>1 DEF Leaving, Idle
    <3>. QED  BY <1>2, <3>1, <3>2 DEF Staying, On
  <2>2. CASE ~IsLast(c.n)
    <3>1. objs' = Drop(objs, {id}) /\ call'[t] = Idle
      BY <2>2 DEF DecWrite, Return, ExactInv, TypeInv, CallsInv
    <3>2. Leaving' = Leaving
      BY <1>2, <1>3, <3>1 DEF Leaving, Idle
    <3>. QED  BY <1>2, <3>1, <3>2 DEF Staying, On, Drop, Idle
  <2>. QED  BY <2>1, <2>2
<1>7. /\ \A k : k # fd => (Registered(reg', k) <=> Registered(reg, k))
      /\ \A k : k # fd => RefOf(reg', k) = RefOf(reg, k)
      /\ RefOf(reg', fd) = c.n - 1
      /\ call'[t].pc = "unmap" => ~Registered(reg', fd)
      /\ ~Registered(reg', fd) => c.n = 1
  <2>1. CASE IsLast(c.n)
    <3>1. reg' = Drop(reg, {fd})
      BY <2>1 DEF DecWrite
    <3>. QED  BY <1>2, <2>1, <3>1 DEF Drop, Registered, RefOf, Lookup, IsLast
  <2>2. CASE ~IsLast(c.n)
    <3>1. reg' = [reg EXCEPT ![fd].ref = c.n - 1] /\ call'[t] = Idle
      BY <1>2, <2>2 DEF DecWrite, Return, ExactInv, TypeInv, CallsInv
    <3>2. "ref" \in DOMAIN reg[fd]
      BY <1>2 DEF ExactInv, TypeInv, MapsTo, Registered, Entries
    <3>. QED  BY <1>2, <3>1, <3>2 DEF Registered, RefOf, Lookup, Idle
  <2>. QED  BY <2>1, <2>2
<1>8. CountInv'
  <2>1. (\A k : Counted(k)' = Counted(k)) /\ Cardinality(Counted(fd)) = 0
    <3>1. \A s \in Threads : /\ call'[s].pc = "alloc" <=> call[s].pc = "alloc"
                             /\ call[s].pc = "alloc" => call'[s] = call[s]
      BY <1>2, <1>3 DEF Idle
    <3>2. \A k : Counted(k)' = Counted(k)
      BY <3>1 DEF Counted
    <3>3. Counted(fd) = {}
      BY <1>5 DEF Counted
    <3>. QED  BY <3>2, <3>3, FS_EmptySet
  <2>2. Cardinality(Staying(fd)') = Cardinality(Staying(fd)) - 1
    BY <1>2, <1>6, FiniteParts, Adds DEF ExactInv
  <2>3. /\ RefOf(reg', fd) >= Cardinality(Staying(fd)') + Cardinality(Counted(fd)')
        /\ Beside = {} =>
             RefOf(reg', fd) = Cardinality(Staying(fd)') + Cardinality(Counted(fd)')
    <3>1. Cardinality(Counted(fd)') = 0
      BY <2>1
    <3>2. Cardinality(Staying(fd)) \in Nat /\ RefOf(reg, fd) \in Int
      BY FiniteParts, RefOfType DEF ExactInv
    <3>3. Beside = {} => RefOf(reg, fd) = Cardinality(Staying(fd))
      BY <1>2, <2>1, <3>2 DEF ExactInv, CountInv
    <3>. QED  BY <1>2, <1>7, <2>2, <3>1, <3>2, <3>3
  <2>4. ASSUME NEW s \in Threads, call'[s].pc = "decwrite"
        PROVE  /\ call'[s] = call[s] /\ call[s].fd \in Fds
               /\ call[s].fd = fd => call[s].n >= Cardinality(Staying(fd)')
    <3>1. call'[s] = call[s] /\ call[s].pc = "decwrite"
      BY <1>3, <2>4 DEF Idle
    <3>2. call[s].fd \in Fds /\ call[s].n \in Int
      BY <3>1 DEF ExactInv, TypeInv, CallsInv, CallOk
    <3>3. call[s].fd = fd => call[s].n >= Cardinality(Staying(fd))
      BY <3>1 DEF ExactInv, CountInv
    <3>. QED  BY <2>2, <3>1, <3>2, <3>3, FiniteParts DEF ExactInv
  <2>5. offered' = offered
    BY DEF DecWrite
  <2>6. \A k \in Fds : k # fd =>
          /\ RefOf(reg', k) = RefOf(reg, k)
          /\ Staying(k)' = Staying(k) /\ Counted(k)' = Counted(k)
    BY <1>6, <1>7, <2>1
  <2>7. fd \in Fds /\ fd \notin offered /\ CountInv /\ offered' \subseteq offered
    BY <1>2, <2>5 DEF ExactInv
  <2>. QED  BY <2>3, <2>4, <2>6, <2>7, CountOthers
<1>9. EntryInv'
  <2>1. EntryOk(call[t])'
    BY <1>3, <1>7 DEF EntryOk, Idle, Found
  <2>2. ASSUME NEW s \in Threads, s # t PROVE EntryOk(call[s])'
    <3>1. CASE call[s].pc \in {"idle", "dec", "closemeta"}
      BY <1>3, <2>2, <3>1 DEF EntryOk, Found
    <3>2. CASE call[s].pc = "decwrite" /\ call[s].fd = fd
      <4>1. Registered(reg', fd)
        <5>1. call[s].id # id /\ call[s].id \in Staying(fd)
          BY <1>2, <2>2, <3>2, StillCounted, HoldsAlone DEF Holding
        <5>2. c.n # 1
          BY <1>2, <5>1, TwoStay
        <5>. QED  BY <1>7, <5>2
      <4>2. Beside # {}
        BY <1>5, <2>2, <3>2
      <4>. QED  BY <1>3, <2>2, <3>2, <4>1, <4>2 DEF EntryOk, Found
    <3>3. CASE call[s].pc \notin {"idle", "dec", "closemeta"} /\ call[s].fd # fd
      BY <1>3, <1>7, <2>2, <3>3 DEF ExactInv, EntryInv, EntryOk, Found
    <3>4. CASE call[s].pc \in {"unmap", "close"}
      BY <1>2, <1>3, <1>7, <2>2, <3>3, <3>4 DEF ExactInv, EntryInv, EntryOk
    <3>5. CASE call[s].pc \in Importing
      BY <1>2, <3>3, <3>5, AloneOn DEF ExactInv, Destroying, Importing, Carrying
    <3>6. call[s].pc \in Pcs
      BY DEF ExactInv, TypeInv, CallsInv, CallOk
    <3>. QED
      BY <3>1, <3>2, <3>3, <3>4, <3>5, <3>6 DEF Pcs, Importing, Carrying
  <2>. QED  BY <2>1, <2>2 DEF EntryInv
<1>10. HasInv'
  <2>1. ASSUME NEW s \in Threads, s # t, call'[s].pc \in Holding
        PROVE  call'[s].id \in DOMAIN objs' /\ objs'[call'[s].id].fd = call'[s].fd
    <3>1. call[s].id # id
      BY <1>2, <1>3, <2>1, HoldsAlone DEF Holding
    <3>. QED  BY <1>3, <1>6, <2>1, <3>1 DEF ExactInv, HasInv
  <2>. QED  BY <1>2, <1>3, <1>6, <2>1 DEF HasInv, Idle, Holding
<1>11. OpenInv'
  <2>1. open' = open /\ call'[t].pc \notin Importing
    BY <1>3 DEF DecWrite, Idle, Importing, Carrying
  <2>2. \A x \in DOMAIN objs' : x \in DOMAIN objs /\ objs'[x] = objs[x]
    BY <1>6 DEF DecWrite, Drop
  <2>. QED  BY <1>3, <2>1, <2>2 DEF ExactInv, OpenInv
<1>. QED  BY <1>1, <1>4, <1>8, <1>9, <1>10, <1>11 DEF ExactInv

LEMMA UnmapExactly ==
  ASSUME Orderly, ExactInv, NEW t \in Threads, Unmap(t)
  PROVE  ExactInv'
<1>. DEFINE c == call[t]
<1>1. TypeInv'
  BY UnmapType DEF ExactInv
<1>2. c.pc = "unmap" /\ CallOk(c)
  BY DEF Unmap, At, ExactInv, TypeInv, CallsInv
<1>3. /\ call'[t].pc = "close" /\ call'[t].fd = c.fd /\ call'[t].id = c.id
      /\ \A s \in Threads : s # t => call'[s] = call[s]
  BY <1>2 DEF Unmap, Goto, ExactInv, TypeInv, CallsInv, CallOk, Holding
<1>4. AloneInv'
  BY <1>2, <1>3, AloneSame DEF Unmap, ExactInv, Destroying, Holding, Closing
<1>5. CountInv'
  <2>1. Leaving' = Leaving
    BY <1>2, <1>3 DEF Leaving
  <2>2. \A k : Staying(k)' = Staying(k) /\ Counted(k)' = Counted(k)
    BY <1>2, <1>3, <2>1 DEF Unmap, Staying, Counted, On
  <2>3. \A s \in Threads : call'[s].pc = "decwrite" => call'[s] = call[s]
    BY <1>3
  <2>. QED  BY <2>2, <2>3 DEF Unmap, ExactInv, CountInv
<1>6. EntryInv'
  <2>1. EntryOk(call[t])'
    BY <1>2, <1>3 DEF Unmap, ExactInv, EntryInv, EntryOk, Found
  <2>. QED  BY <1>3, <2>1, EntrySame DEF Unmap, ExactInv
<1>7. HasInv'
  BY <1>2, <1>3, HasSame DEF Unmap, ExactInv, Holding
<1>8. OpenInv'
  BY <1>3, OpenSame DEF Unmap, ExactInv, Importing, Carrying
<1>. QED  BY <1>1, <1>4, <1>5, <1>6, <1>7, <1>8 DEF ExactInv

\* When the last object closes its descriptor, nothing else is on it.
LEMMA ClosedAlone ==
  ASSUME Orderly, ExactInv, NEW t \in Threads, call[t].pc \in {"unmap", "close"}
  PROVE  On(call[t].fd) = {call[t].id}
<1>. DEFINE c == call[t]
<1>1. c.id \in DOMAIN objs /\ objs[c.id].fd = c.fd /\ c.fd \in Fds /\ ~Registered(reg, c.fd)
  BY DEF ExactInv, HasInv, Holding, TypeInv, CallsInv, CallOk, EntryInv, EntryOk
<1>2. Cardinality(Staying(c.fd)) = 0
  <2>1. 0 >= Cardinality(Staying(c.fd)) + Cardinality(Counted(c.fd))
    BY <1>1 DEF ExactInv, CountInv, RefOf, Lookup
  <2>. QED  BY <2>1, FiniteParts DEF ExactInv
<1>3. Staying(c.fd) = {}
  BY <1>2, FiniteParts, FS_EmptySet DEF ExactInv
<1>4. ASSUME NEW x \in On(c.fd) PROVE x = c.id
  <2>1. PICK s \in Threads : call[s].pc \in {"unmap", "close"} /\ x = call[s].id
    BY <1>3 DEF Staying, Leaving
  <2>2. call[s].fd = c.fd
    BY <2>1 DEF On, ExactInv, HasInv, Holding
  <2>. QED  BY <2>1, <2>2 DEF ExactInv, AloneInv, Closing
<1>. QED  BY <1>1, <1>4 DEF On

LEMMA CloseDataExact ==
  ASSUME Orderly, ExactInv, NEW t \in Threads, CloseData(t)
  PROVE  ExactInv'
<1>. DEFINE c == call[t]
            d == [pc |-> "closemeta", fd |-> c.fd, id |-> c.id, mfd |-> objs[c.id].mfd]
<1>1. TypeInv'
  BY CloseDataType DEF ExactInv
<1>2. c.pc = "close" /\ c.fd \in Fds /\ On(c.fd) = {c.id}
  BY ClosedAlone DEF CloseData, At, ExactInv, TypeInv, CallsInv, CallOk
<1>3. /\ call' = [call EXCEPT ![t] = d] /\ d.pc = "closemeta" /\ d.fd = c.fd
      /\ objs' = Drop(objs, {c.id}) /\ open' = open \ {c.fd} /\ reg' = reg
  BY DEF CloseData
<1>. HIDE DEF d
<1>. PICK fd \in Fds, id \in {c.id} : fd = c.fd /\ id = c.id
  BY <1>2
<1>4. call'[t] = d /\ \A s \in Threads : s # t => call'[s] = call[s]
  BY <1>3 DEF ExactInv, TypeInv, CallsInv
<1>5. AloneInv'
  BY <1>2, <1>3, <1>4, AloneSame DEF CloseData, ExactInv, Destroying, Holding, Closing
<1>6. /\ DOMAIN objs' = DOMAIN objs \ {id}
      /\ \A x \in DOMAIN objs' : objs'[x] = objs[x] /\ objs[x].fd # fd
  BY <1>2, <1>3 DEF Drop, On
<1>7. \A s \in Threads : call[s].pc \in Importing => call[s].fd # fd
  BY <1>2, AloneOn DEF ExactInv, Destroying, Importing, Carrying
<1>8. CountInv'
  <2>1. id \in Leaving /\ Leaving \ {id} \subseteq Leaving' /\ Leaving' \subseteq Leaving
    BY <1>2, <1>3, <1>4 DEF Leaving
  <2>2. \A k : Staying(k)' = Staying(k)
    BY <1>6, <2>1 DEF Staying, On
  <2>3. \A k : Counted(k)' = Counted(k)
    BY <1>2, <1>3, <1>4 DEF Counted
  <2>4. \A s \in Threads : call'[s].pc = "decwrite" => call'[s] = call[s]
    BY <1>3, <1>4
  <2>. QED  BY <1>3, <2>2, <2>3, <2>4 DEF CloseData, ExactInv, CountInv
<1>9. EntryInv'
  <2>1. EntryOk(call[t])'
    BY <1>3, <1>4 DEF EntryOk, Found
  <2>. QED  BY <1>3, <1>4, <2>1, EntrySame DEF ExactInv
<1>10. HasInv'
  <2>1. ASSUME NEW s \in Threads, s # t, call'[s].pc \in Holding
        PROVE  call'[s].id \in DOMAIN objs' /\ objs'[call'[s].id].fd = call'[s].fd
    <3>1. call[s].id # id
      BY <1>2, <1>4, <2>1, HoldsAlone DEF Holding
    <3>. QED  BY <1>4, <1>6, <2>1, <3>1 DEF ExactInv, HasInv
  <2>. QED  BY <1>3, <1>4, <2>1 DEF HasInv, Holding
<1>11. OpenInv'
  <2>1. \A x \in DOMAIN objs' : objs'[x].fd \in open'
    BY <1>3, <1>6 DEF ExactInv, OpenInv
  <2>2. \A s \in Threads : call'[s].pc \in Importing => call'[s] = call[s]
    BY <1>3, <1>4 DEF Importing, Carrying
  <2>3. \A s \in Threads : call'[s].pc \in Importing => call'[s].fd \in open'
    BY <1>3, <1>7, <2>2 DEF ExactInv, OpenInv
  <2>. QED  BY <2>1, <2>3 DEF OpenInv
<1>. QED  BY <1>1, <1>5, <1>8, <1>9, <1>10, <1>11 DEF ExactInv

LEMMA NoMetaIsData == \A mfd \in Mfds : mfd \notin Fds
BY ConcurrentAssumption DEF Mfds, NoFd

LEMMA CloseMetaExact ==
  ASSUME Orderly, ExactInv, NEW t \in Threads, CloseMeta(t)
  PROVE  ExactInv'
<1>1. TypeInv'
  BY CloseMetaType DEF ExactInv
<1>2. call[t].pc = "closemeta" /\ call[t].mfd \notin Fds
  BY NoMetaIsData DEF CloseMeta, At, ExactInv, TypeInv, CallsInv, CallOk
<1>3. call'[t] = Idle /\ \A s \in Threads : s # t => call'[s] = call[s]
  BY DEF CloseMeta, Return, ExactInv, TypeInv, CallsInv
<1>4. AloneInv'
  BY <1>3, AloneSame DEF CloseMeta, ExactInv, Idle
<1>5. CountInv'
  BY <1>2, <1>3, CountSame DEF CloseMeta, ExactInv, Idle
<1>6. EntryInv'
  <2>1. EntryOk(call[t])'
    BY <1>3 DEF EntryOk, Idle, Found
  <2>. QED  BY <1>3, <2>1, EntrySame DEF CloseMeta, ExactInv
<1>7. HasInv'
  BY <1>3, HasSame DEF CloseMeta, ExactInv, Idle, Holding
<1>8. OpenInv'
  <2>1. \A k \in Fds : k \in open => k \in open'
    BY <1>2 DEF CloseMeta
  <2>2. \A s \in Threads : call'[s].pc \in Importing => call'[s] = call[s] /\ call[s].fd \in Fds
    BY <1>3 DEF Idle, Importing, Carrying, ExactInv, TypeInv, CallsInv, CallOk
  <2>3. \A x \in DOMAIN objs : objs[x].fd \in Fds
    BY DEF ExactInv, TypeInv, MapsTo, Objects
  <2>. QED  BY <2>1, <2>2, <2>3 DEF CloseMeta, ExactInv, OpenInv
<1>. QED  BY <1>1, <1>4, <1>5, <1>6, <1>7, <1>8 DEF ExactInv

LEMMA WithdrawExact ==
  ASSUME Orderly, ExactInv, NEW fd \in Fds, Withdraw(fd)
  PROVE  ExactInv'
<1>1. TypeInv'
  BY WithdrawType DEF ExactInv
<1>2. reg' = reg /\ objs' = objs /\ call' = call /\ Busy(fd) = {}
      /\ offered' \subseteq offered
      /\ open' = IF On(fd) = {} THEN open \ {fd, MetaFd(fd)} ELSE open
  BY DEF Withdraw
<1>3. MetaFd(fd) \notin Fds
  BY ConcurrentAssumption
<1>4. OpenInv'
  <2>1. ASSUME NEW x \in DOMAIN objs PROVE objs[x].fd \in open'
    <3>1. objs[x].fd \in Fds /\ objs[x].fd \in open
      BY DEF ExactInv, TypeInv, MapsTo, Objects, OpenInv
    <3>. QED  BY <1>2, <1>3, <3>1 DEF On
  <2>2. ASSUME NEW s \in Threads, call[s].pc \in Importing PROVE call[s].fd \in open'
    <3>1. call[s].fd \in Fds /\ call[s].fd \in open /\ call[s].fd # fd
      BY <1>2, <2>2
         DEF ExactInv, TypeInv, CallsInv, CallOk, OpenInv, Importing, Carrying, Busy
    <3>. QED  BY <1>2, <1>3, <3>1
  <2>. QED  BY <1>2, <2>1, <2>2 DEF OpenInv
<1>5. \A k : Staying(k)' = Staying(k) /\ Counted(k)' = Counted(k)
  BY <1>2 DEF Staying, Counted, On, Leaving
<1>6. CountInv' /\ HasInv' /\ AloneInv' /\ EntryInv'
  BY <1>2, <1>5 DEF ExactInv, CountInv, HasInv, AloneInv, Destroying, EntryInv, EntryOk
<1>. QED  BY <1>1, <1>4, <1>6 DEF ExactInv

LEMMA StepExact == ASSUME Orderly, ExactInv, [Next]_vars PROVE ExactInv'
<1>1. CASE UNCHANGED vars
  <2>1. \A k : Staying(k)' = Staying(k) /\ Counted(k)' = Counted(k)
    BY <1>1 DEF vars, Staying, Counted, On, Leaving
  <2>. QED  BY <1>1, <2>1 DEF vars, ExactInv, TypeInv, CallsInv, MutexInv, CountInv, HasInv, AloneInv,
                     Destroying, EntryInv, EntryOk, OpenInv
<1>2. ASSUME NEW t \in Threads, NEW fd \in Fds, BoCreate(t, fd) PROVE ExactInv'
  BY <1>2, BoCreateExact
<1>3. ASSUME NEW t \in Threads, ImportStep(t) PROVE ExactInv'
  BY <1>3, ImportCallExact, SearchExact, MapMissingExact, LockExact, IncReadExact,
     IncWriteExact, AllocExact DEF ImportStep
<1>4. ASSUME NEW t \in Threads, DestroyStep(t) PROVE ExactInv'
  BY <1>4, DestroyCallExact, DecReadExact, DecWriteExact, UnmapExactly, CloseDataExact,
     CloseMetaExact DEF DestroyStep
<1>5. ASSUME NEW fd \in Fds, Withdraw(fd) PROVE ExactInv'
  BY <1>5, WithdrawExact
<1>. QED  BY <1>1, <1>2, <1>3, <1>4, <1>5 DEF Next

\* Every thread's steps leave all state well typed, and mutex_obj is held exactly
\* by a thread between its lock and its unlock, for any number of threads of a
\* client that destroys nothing beside an import on the same fd.
THEOREM TypeCorrect == ASSUME Orderly PROVE Spec => []TypeOK
<1>1. ExactInv => TypeOK
  BY TypeEnough DEF ExactInv
<1>. QED  BY <1>1, InitExact, StepExact, PTL DEF Spec

LEMMA ExactEnough == ASSUME Serial, ExactInv PROVE RefsExact
<1>1. ASSUME NEW fd \in Fds, Busy(fd) = {} PROVE RefOf(reg, fd) = Cardinality(On(fd))
  <2>1. Counted(fd) = {}
    BY <1>1 DEF Counted, Busy
  <2>2. ASSUME NEW x \in On(fd), x \in Leaving PROVE FALSE
    <3>1. PICK s \in Threads : call[s].pc \in {"unmap", "close"} /\ x = call[s].id
      BY <2>2 DEF Leaving
    <3>. QED  BY <1>1, <3>1 DEF On, Busy, ExactInv, HasInv, Holding
  <2>3. Staying(fd) = On(fd)
    BY <2>2 DEF Staying
  <2>4. RefOf(reg, fd) = Cardinality(Staying(fd)) + Cardinality(Counted(fd))
    BY DEF Serial, ExactInv, CountInv
  <2>. QED  BY <2>1, <2>3, <2>4, FiniteParts, FS_EmptySet DEF Serial, ExactInv
<1>. QED  BY <1>1 DEF RefsExact

\* ++ and -- of ref_count read in one step and write in a later one
\* (msmgbm_mapper.h:73), imports under mutex_obj and destroys without it: between
\* calls on an fd its count is still the number of its objects, if the client lets a
\* destroy run alone on its fd.
THEOREM CountsExact == ASSUME Serial PROVE Spec => []RefsExact
<1>1. ExactInv => RefsExact
  BY ExactEnough
<1>2. Init => ExactInv
  BY InitExact DEF Serial
<1>3. ExactInv /\ [Next]_vars => ExactInv'
  BY StepExact DEF Serial
<1>. QED  BY <1>1, <1>2, <1>3, PTL DEF Spec

-----------------------------------------------------------------------------
(* The sharing promise.                                                    *)

Users == [fd \in Fds |-> On(fd)]
Pinned == open \cap Fds

LEMMA InitShares == ASSUME Init PROVE Sharing!Init
BY DEF Init, Sharing!Init, On, EmptyMap

\* Nothing that GbmSharing tells of moves.
LEMMA Stutters ==
  ASSUME objs' = objs, Pinned' = Pinned
  PROVE  UNCHANGED Sharing!vars
BY DEF Sharing!vars, On, Pinned

\* A new object on a descriptor that is open, or on which no object was.
LEMMA Uses ==
  ASSUME NEW fd \in Fds, NEW id \in Ids \ DOMAIN objs, NEW o, o.fd = fd,
         objs' = Put(objs, id, o), fd \in open \/ On(fd) = {}, Pinned' = Pinned \cup {fd}
  PROVE  Sharing!Next
<1>1. On(fd)' = On(fd) \cup {id} /\ \A k : k # fd => On(k)' = On(k)
  BY DEF On, Put
<1>2. Users' = [Users EXCEPT ![fd] = @ \cup {id}]
  BY <1>1 DEF Users
<1>3. id \notin Sharing!Used
  BY DEF Sharing!Used, On
<1>4. Sharing!Use(fd, id)
  BY <1>2, <1>3 DEF Sharing!Use, Users, Pinned
<1>. QED  BY <1>4 DEF Sharing!Next

\* An object goes; with the last one the descriptor is closed.
LEMMA Leaves ==
  ASSUME TypeInv, NEW fd \in Fds, NEW id \in On(fd), objs' = Drop(objs, {id}),
         IF On(fd) = {id} THEN Pinned' = Pinned \ {fd} ELSE Pinned' = Pinned
  PROVE  Sharing!Next
<1>1. On(fd)' = On(fd) \ {id} /\ \A k : k # fd => On(k)' = On(k)
  BY DEF On, Drop
<1>2. Users' = [Users EXCEPT ![fd] = @ \ {id}]
  BY <1>1 DEF Users
<1>3. id \in Ids
  BY DEF On, TypeInv, MapsTo
<1>4. Sharing!Leave(fd, id)
  BY <1>2 DEF Sharing!Leave, Users, Pinned
<1>. QED  BY <1>3, <1>4 DEF Sharing!Next

LEMMA BoCreateShares ==
  ASSUME Orderly, ExactInv, NEW t \in Threads, NEW fd \in Fds, BoCreate(t, fd)
  PROVE  Sharing!Next
<1>1. PICK id \in Ids \ DOMAIN objs, mt \in Addrs, c \in Addrs :
        objs' = Put(objs, id, [fd |-> fd, mfd |-> MetaFd(fd), cpu |-> c, mt |-> mt])
  BY NextAddrType DEF BoCreate
<1>. DEFINE o == [fd |-> fd, mfd |-> MetaFd(fd), cpu |-> c, mt |-> mt]
<1>2. o.fd = fd /\ objs' = Put(objs, id, o)
  BY <1>1
<1>. HIDE DEF o
<1>3. On(fd) = {}
  BY DEF BoCreate, ExactInv, OpenInv, On
<1>4. Pinned' = Pinned \cup {fd}
  BY ConcurrentAssumption DEF BoCreate, Pinned
<1>. QED  BY <1>2, <1>3, <1>4, Uses

LEMMA AllocShares ==
  ASSUME Orderly, ExactInv, NEW t \in Threads, Alloc(t)
  PROVE  Sharing!Next
<1>. DEFINE c == call[t]
<1>1. c.pc = "alloc" /\ c.fd \in open /\ c.fd \in Fds
  BY DEF Alloc, At, ExactInv, TypeInv, CallsInv, CallOk, OpenInv, Importing, Carrying
<1>. PICK fd \in Fds : fd = c.fd
  BY <1>1
<1>2. PICK id \in Ids \ DOMAIN objs :
        objs' = Put(objs, id, [fd |-> fd, mfd |-> c.mfd, cpu |-> c.cpu, mt |-> c.mt])
  BY DEF Alloc
<1>3. PICK o : o.fd = fd /\ objs' = Put(objs, id, o)
  <2>. DEFINE o == [fd |-> fd, mfd |-> c.mfd, cpu |-> c.cpu, mt |-> c.mt]
  <2>1. o.fd = fd /\ objs' = Put(objs, id, o)
    BY <1>2
  <2>. QED  BY <2>1
<1>4. Pinned' = Pinned \cup {fd}
  BY <1>1 DEF Alloc, Pinned
<1>. QED  BY <1>1, <1>3, <1>4, Uses

LEMMA DecWriteShares ==
  ASSUME Serial, ExactInv, NEW t \in Threads, DecWrite(t)
  PROVE  Sharing!Next \/ UNCHANGED Sharing!vars
<1>. DEFINE c == call[t]
<1>1. Pinned' = Pinned
  BY DEF DecWrite, Pinned
<1>2. CASE IsLast(c.n)
  BY <1>1, <1>2, Stutters DEF DecWrite
<1>3. CASE ~IsLast(c.n)
  <2>1. /\ c.pc = "decwrite" /\ c.fd \in Fds /\ c.id \in Staying(c.fd)
        /\ c.n = RefOf(reg, c.fd) /\ c.n >= 1 /\ c.n \in Int
    BY ReadEnough DEF DecWrite, At, Serial, ExactInv, TypeInv, CallsInv, CallOk, EntryInv, EntryOk
  <2>2. Counted(c.fd) = {}
    BY <2>1, AloneOn DEF Counted, ExactInv, Destroying
  <2>3. c.n = Cardinality(Staying(c.fd))
    BY <2>1, <2>2, FiniteParts, FS_EmptySet DEF Serial, ExactInv, CountInv
  <2>4. On(c.fd) # {c.id}
    <3>1. SUFFICES ASSUME On(c.fd) = {c.id} PROVE FALSE
      OBVIOUS
    <3>2. Staying(c.fd) = {c.id}
      BY <2>1, <3>1 DEF Staying
    <3>3. Cardinality({c.id}) = 1
      BY FS_Singleton
    <3>4. c.n = 1
      BY <2>3, <3>2, <3>3
    <3>. QED  BY <1>3, <3>4 DEF IsLast
  <2>. PICK fd \in Fds, id \in {c.id} : fd = c.fd /\ id = c.id
    BY <2>1
  <2>5. id \in On(fd) /\ objs' = Drop(objs, {id})
    BY <1>3, <2>1 DEF DecWrite, Staying
  <2>. QED  BY <1>1, <2>4, <2>5, Leaves DEF ExactInv
<1>. QED  BY <1>2, <1>3

LEMMA CloseDataShares ==
  ASSUME Orderly, ExactInv, NEW t \in Threads, CloseData(t)
  PROVE  Sharing!Next
<1>. DEFINE c == call[t]
<1>1. c.fd \in Fds /\ On(c.fd) = {c.id}
  BY ClosedAlone DEF CloseData, At, ExactInv, TypeInv, CallsInv, CallOk
<1>. PICK fd \in Fds, id \in {c.id} : fd = c.fd /\ id = c.id
  BY <1>1
<1>2. objs' = Drop(objs, {id}) /\ Pinned' = Pinned \ {fd}
  BY DEF CloseData, Pinned
<1>. QED  BY <1>1, <1>2, Leaves DEF ExactInv

LEMMA CloseMetaShares ==
  ASSUME Orderly, ExactInv, NEW t \in Threads, CloseMeta(t)
  PROVE  UNCHANGED Sharing!vars
<1>1. call[t].mfd \notin Fds
  BY NoMetaIsData DEF CloseMeta, At, ExactInv, TypeInv, CallsInv, CallOk
<1>. QED  BY <1>1, Stutters DEF CloseMeta, Pinned

LEMMA WithdrawShares ==
  ASSUME Orderly, ExactInv, NEW fd \in Fds, Withdraw(fd)
  PROVE  Sharing!Next \/ UNCHANGED Sharing!vars
<1>1. CASE On(fd) # {}
  BY <1>1, Stutters DEF Withdraw, Pinned
<1>2. CASE On(fd) = {}
  <2>1. Pinned' = Pinned \ {fd}
    BY <1>2, ConcurrentAssumption DEF Withdraw, Pinned
  <2>2. Users' = Users
    BY DEF Withdraw, Users, On
  <2>3. Sharing!Close(fd)
    BY <1>2, <2>1, <2>2 DEF Sharing!Close, Pinned, Users
  <2>. QED  BY <2>3 DEF Sharing!Next
<1>. QED  BY <1>1, <1>2

LEMMA StepShares ==
  ASSUME Serial, ExactInv, [Next]_vars
  PROVE  [Sharing!Next]_(Sharing!vars)
<1>1. CASE UNCHANGED vars
  BY <1>1, Stutters DEF vars, Pinned
<1>2. ASSUME NEW t \in Threads, NEW fd \in Fds, BoCreate(t, fd) PROVE Sharing!Next
  BY <1>2, BoCreateShares DEF Serial
<1>3. ASSUME NEW t \in Threads, ImportStep(t) PROVE Sharing!Next \/ UNCHANGED Sharing!vars
  <2>1. CASE Alloc(t)
    BY <2>1, AllocShares DEF Serial
  <2>2. CASE ~Alloc(t)
    <3>1. objs' = objs /\ open' = open
      BY <1>3, <2>2 DEF ImportStep, ImportCall, Search, MapMissing, LockAndEnter, IncRead, IncWrite
    <3>. QED  BY <3>1, Stutters DEF Pinned
  <2>. QED  BY <2>1, <2>2
<1>4. ASSUME NEW t \in Threads, DestroyStep(t) PROVE Sharing!Next \/ UNCHANGED Sharing!vars
  <2>1. CASE (\E id \in DOMAIN objs : DestroyCall(t, id)) \/ DecRead(t) \/ Unmap(t)
    <3>1. objs' = objs /\ open' = open
      BY <2>1 DEF DestroyCall, DecRead, Unmap
    <3>. QED  BY <3>1, Stutters DEF Pinned
  <2>2. CASE DecWrite(t) \/ CloseData(t) \/ CloseMeta(t)
    BY <2>2, DecWriteShares, CloseDataShares, CloseMetaShares DEF Serial
  <2>. QED  BY <1>4, <2>1, <2>2 DEF DestroyStep
<1>5. ASSUME NEW fd \in Fds, Withdraw(fd) PROVE Sharing!Next \/ UNCHANGED Sharing!vars
  BY <1>5, WithdrawShares DEF Serial
<1>. QED  BY <1>1, <1>2, <1>3, <1>4, <1>5 DEF Next

\* "The gbm bo shares the underlying pixels but its life-time is independent of the
\* foreign object" (gbm_bo_import), step by step and for any number of threads of a
\* client that lets a destroy run alone on its fd: a descriptor is open while an
\* object is on it, and the object that leaves last closes it.
THEOREM SharingImplemented == ASSUME Serial PROVE Spec => ImplementsSharing
<1>1. ExactInv /\ [Next]_vars => [Sharing!Next]_(Sharing!vars)
  BY StepShares
<1>2. ExactInv /\ [Next]_vars => ExactInv'
  BY StepExact DEF Serial
<1>3. Init => ExactInv
  BY InitExact DEF Serial
<1>. QED
  BY <1>1, <1>2, <1>3, InitShares, PTL DEF Spec, ImplementsSharing, Sharing!Spec

-----------------------------------------------------------------------------
(* What an object holds.                                                   *)

\* The premise: moreover, no two calls import an fd that no object is on.
Ordered == Orderly /\ ~FirstRace

Usable(fd, cpu, mt) ==
  /\ cpu \in DOMAIN maps /\ maps[cpu] = fd
  /\ mt \in DOMAIN maps /\ maps[mt] = MetaFd(fd)

\* An entry is of an open buffer, and somebody counts on it.
RegInv ==
  \A fd \in DOMAIN reg :
    /\ fd \in open
    /\ reg[fd].mfd = MetaFd(fd)
    /\ Usable(fd, reg[fd].cpu, reg[fd].mt)
    /\ RefOf(reg, fd) >= 1
       \/ \E t \in Threads : call[t].pc \in {"inc", "incwrite"} /\ call[t].fd = fd

\* The metadata descriptor is open as long as the data descriptor is used.
MetaInv ==
  /\ \A id \in DOMAIN objs :
       objs[id].mfd = MetaFd(objs[id].fd) /\ MetaFd(objs[id].fd) \in open
  /\ \A fd \in offered : fd \in open /\ MetaFd(fd) \in open
  /\ \A t \in Threads :
       /\ call[t].pc \in Importing => MetaFd(call[t].fd) \in open
       /\ t \in Destroying => call[t].fd \notin offered
       /\ call[t].pc = "closemeta" =>
            /\ call[t].fd \notin open /\ MetaFd(call[t].fd) \in open
            /\ call[t].mfd = MetaFd(call[t].fd)
  /\ \A s, t \in Threads :
       s # t /\ call[s].pc = "closemeta" /\ call[t].pc = "closemeta" => call[s].fd # call[t].fd

\* Where a thread needs nothing of what others may map, register or destroy.
Quiet == {"idle", "dec", "decwrite", "close", "closemeta"}

\* An import of an fd nobody has registered is alone with it; what a thread carries
\* is what the registry says, or what it has just mapped.
CarryOk(t) ==
  /\ call[t].pc \in {"search"} \cup Found =>
       \/ Registered(reg, call[t].fd)
       \/ call[t].op = "gbm" /\ On(call[t].fd) = {} /\ Busy(call[t].fd) \subseteq {t}
  /\ call[t].pc \in Found => (call[t].found <=> Registered(reg, call[t].fd))
  /\ call[t].pc \in Found /\ call[t].found => call[t].known = MetaFd(call[t].fd)
  /\ call[t].pc \in Carrying => call[t].mfd = MetaFd(call[t].fd)
  /\ call[t].pc \in Carrying /\ Registered(reg, call[t].fd) =>
       call[t].cpu = reg[call[t].fd].cpu /\ call[t].mt = reg[call[t].fd].mt
  /\ call[t].pc = "map" /\ ~Registered(reg, call[t].fd) =>
       call[t].cpu = NULL /\ call[t].mt = NULL
  /\ call[t].pc = "lock" /\ ~Registered(reg, call[t].fd) =>
       Usable(call[t].fd, call[t].cpu, call[t].mt)
  /\ call[t].pc = "unmap" =>
       Usable(call[t].fd, objs[call[t].id].cpu, objs[call[t].id].mt)

CarryInv == \A t \in Threads : CarryOk(t)

\* Objects that are not being given back share the registry's addresses.
SharedInv ==
  \A id \in DOMAIN objs \ Leaving :
    objs[id].cpu = reg[objs[id].fd].cpu /\ objs[id].mt = reg[objs[id].fd].mt

UseInv == RegInv /\ MetaInv /\ CarryInv /\ SharedInv

LEMMA InitUse == ASSUME Init PROVE UseInv
BY ConcurrentAssumption
   DEF Init, UseInv, RegInv, MetaInv, CarryInv, CarryOk, SharedInv, EmptyMap, Idle, Destroying,
       Found, Importing, Carrying

\* An object that stays is registered.
LEMMA StayingRegistered ==
  ASSUME Orderly, ExactInv, NEW id \in DOMAIN objs \ Leaving
  PROVE  Registered(reg, objs[id].fd) /\ RefOf(reg, objs[id].fd) >= 1 /\ objs[id].fd \in Fds
<1>1. objs[id].fd \in Fds /\ id \in Staying(objs[id].fd)
  BY DEF ExactInv, TypeInv, MapsTo, Objects, Staying, On
<1>2. Cardinality(Staying(objs[id].fd)) # 0
  BY <1>1, FiniteParts, FS_EmptySet DEF ExactInv
<1>3. RefOf(reg, objs[id].fd) >= 1
  BY <1>1, <1>2, FiniteParts, RefOfType DEF ExactInv, CountInv
<1>. QED  BY <1>1, <1>3 DEF RefOf, Lookup

LEMMA UseEnough == ASSUME Orderly, ExactInv, UseInv PROVE LiveUsable
<1>. SUFFICES ASSUME NEW id \in DOMAIN objs \ Leaving
              PROVE  /\ objs[id].fd \in open
                     /\ objs[id].mfd \in open
                     /\ Usable(objs[id].fd, objs[id].cpu, objs[id].mt)
  BY DEF LiveUsable, Usable
<1>1. objs[id].fd \in DOMAIN reg
  BY StayingRegistered DEF Registered
<1>. QED  BY <1>1 DEF UseInv, RegInv, MetaInv, SharedInv

\* Mappings of fd that stay.
MapsKept(fd) ==
  \A a \in DOMAIN maps : maps[a] \in {fd, MetaFd(fd)} => a \in DOMAIN maps' /\ maps'[a] = maps[a]

LEMMA UsableKept ==
  ASSUME NEW fd, NEW cpu, NEW mt, Usable(fd, cpu, mt), MapsKept(fd)
  PROVE  Usable(fd, cpu, mt)'
BY DEF Usable, MapsKept

\* A thread that a step does not concern.
LEMMA CarryOthers ==
  ASSUME CarryInv, NEW s \in Threads, call'[s] = call[s],
         call[s].pc \notin Quiet =>
           /\ Registered(reg', call[s].fd) <=> Registered(reg, call[s].fd)
           /\ Registered(reg, call[s].fd) =>
                /\ reg'[call[s].fd].cpu = reg[call[s].fd].cpu
                /\ reg'[call[s].fd].mt = reg[call[s].fd].mt
           /\ MapsKept(call[s].fd)
           /\ ~Registered(reg, call[s].fd) =>
                /\ On(call[s].fd) = {} => On(call[s].fd)' = {}
                /\ Busy(call[s].fd)' \subseteq Busy(call[s].fd)
           /\ call[s].pc = "unmap" => objs'[call[s].id] = objs[call[s].id]
  PROVE  CarryOk(s)'
<1>1. PICK c : c = call[s]
  OBVIOUS
<1>2. call'[s] = c
  BY <1>1
<1>3. CASE c.pc \in Quiet
  BY <1>2, <1>3 DEF CarryOk, Found, Carrying, Quiet
<1>4. CASE c.pc \notin Quiet
  <2>1. c.pc = "lock" /\ ~Registered(reg, c.fd) => Usable(c.fd, c.cpu, c.mt)'
    BY <1>1, <1>4, UsableKept DEF CarryInv, CarryOk
  <2>2. c.pc = "unmap" => Usable(c.fd, objs[c.id].cpu, objs[c.id].mt)'
    BY <1>1, <1>4, UsableKept DEF CarryInv, CarryOk
  <2>3. /\ Registered(reg', c.fd) <=> Registered(reg, c.fd)
        /\ Registered(reg, c.fd) => reg'[c.fd].cpu = reg[c.fd].cpu /\ reg'[c.fd].mt = reg[c.fd].mt
        /\ ~Registered(reg, c.fd) => /\ On(c.fd) = {} => On(c.fd)' = {}
                                     /\ Busy(c.fd)' \subseteq Busy(c.fd)
    BY <1>1, <1>4
  <2>. QED  BY <1>1, <1>2, <2>1, <2>2, <2>3 DEF CarryInv, CarryOk
<1>. QED  BY <1>3, <1>4

\* The steps of an import that only look, or map something.
LEMMA LooksUse ==
  ASSUME ExactInv, UseInv, NEW t \in Threads, reg' = reg, objs' = objs, open' = open,
         offered' = offered,
         \A a \in DOMAIN maps : a \in DOMAIN maps' /\ maps'[a] = maps[a],
         \A s \in Threads : s # t => call'[s] = call[s],
         call[t].pc \notin {"alloc", "unmap", "close"},
         call'[t].pc \in Importing \ {"alloc"},
         call[t].pc \in {"inc", "incwrite"} =>
           call'[t].pc \in {"inc", "incwrite"},
         MetaFd(call'[t].fd) \in open,
         \/ call[t].pc # "idle" /\ call'[t].fd = call[t].fd
         \/ call[t].pc = "idle" /\ (Registered(reg, call'[t].fd) \/ Busy(call'[t].fd) = {}),
         CarryOk(t)'
  PROVE  UseInv'
<1>1. \A fd : MapsKept(fd)
  BY DEF MapsKept
<1>2. RegInv'
  <2>. SUFFICES ASSUME NEW fd \in DOMAIN reg
                PROVE  /\ fd \in open' /\ reg'[fd].mfd = MetaFd(fd)
                       /\ Usable(fd, reg[fd].cpu, reg[fd].mt)'
                       /\ RefOf(reg', fd) >= 1
                          \/ \E s \in Threads : call'[s].pc \in {"inc", "incwrite"}
                                                /\ call'[s].fd = fd
    BY DEF RegInv
  <2>1. /\ fd \in open /\ reg[fd].mfd = MetaFd(fd) /\ Usable(fd, reg[fd].cpu, reg[fd].mt)
        /\ RefOf(reg, fd) >= 1
           \/ \E s \in Threads : call[s].pc \in {"inc", "incwrite"} /\ call[s].fd = fd
    BY DEF UseInv, RegInv
  <2>2. Usable(fd, reg[fd].cpu, reg[fd].mt)'
    BY <1>1, <2>1, UsableKept
  <2>. QED  BY <2>1, <2>2
<1>3. MetaInv'
  BY DEF UseInv, MetaInv, Destroying, Importing, Carrying
<1>4. CarryInv'
  <2>. SUFFICES ASSUME NEW s \in Threads, s # t PROVE CarryOk(s)'
    BY DEF CarryInv
  <2>1. PICK fd : fd = call[s].fd
    OBVIOUS
  <2>2. call[s].pc # "idle" /\ ~Registered(reg, fd) => Busy(fd)' \subseteq Busy(fd)
    BY <2>1 DEF Busy
  <2>3. On(fd)' = On(fd) /\ MapsKept(fd)
    BY <1>1 DEF On
  <2>4. call'[s] = call[s]
    OBVIOUS
  <2>. QED  BY <2>1, <2>2, <2>3, <2>4, CarryOthers DEF UseInv, Quiet
<1>5. SharedInv'
  <2>1. Leaving' = Leaving
    BY DEF Leaving, Importing, Carrying
  <2>. QED  BY <2>1 DEF UseInv, SharedInv
<1>. QED  BY <1>2, <1>3, <1>4, <1>5 DEF UseInv

LEMMA ImportCallUse ==
  ASSUME Ordered, ExactInv, UseInv, NEW t \in Threads, NEW op \in Ops, NEW fd \in Fds,
         ImportCall(t, op, fd)
  PROVE  UseInv'
<1>. DEFINE d == [pc |-> "search", op |-> op, fd |-> fd]
<1>1. call' = [call EXCEPT ![t] = d] /\ d.pc = "search" /\ d.fd = fd /\ d.op = op
  BY DEF ImportCall
<1>. HIDE DEF d
<1>2. call[t].pc = "idle" /\ call'[t] = d /\ \A s \in Threads : s # t => call'[s] = call[s]
  BY <1>1 DEF ImportCall, At, ExactInv, TypeInv, CallsInv
<1>3. /\ fd \in open /\ Busy(fd) \cap Destroying = {}
      /\ fd \in offered \/ On(fd) # {}
      /\ On(fd) # {} \/ Busy(fd) = {}
      /\ op = "fd" => On(fd) # {}
  BY DEF ImportCall, MayImport, Ordered, Orderly
<1>4. On(fd) # {} => Registered(reg, fd)
  <2>. SUFFICES ASSUME NEW id \in On(fd) PROVE Registered(reg, fd)
    OBVIOUS
  <2>1. id \notin Leaving
    BY <1>3 DEF Leaving, On, ExactInv, HasInv, Holding, Busy, Destroying
  <2>. QED  BY <2>1, StayingRegistered DEF On, Ordered
<1>5. MetaFd(fd) \in open
  BY <1>3 DEF UseInv, MetaInv, On
<1>6. op \in {"gbm", "fd"}
  BY ConcurrentAssumption
<1>7. ~Registered(reg, fd) => op = "gbm" /\ On(fd) = {} /\ Busy(fd) = {}
  BY <1>3, <1>4, <1>6
<1>8. CarryOk(t)'
  <2>1. ~Registered(reg, fd) => On(fd)' = {} /\ Busy(fd)' \subseteq {t}
    BY <1>2, <1>7 DEF ImportCall, On, Busy
  <2>2. reg' = reg
    BY DEF ImportCall
  <2>. QED  BY <1>1, <1>2, <1>7, <2>1, <2>2 DEF CarryOk, Found, Carrying
<1>9. /\ reg' = reg /\ objs' = objs /\ open' = open /\ offered' = offered /\ maps' = maps
      /\ call'[t].pc \in Importing \ {"alloc"}
      /\ call'[t].fd = fd
  BY <1>1, <1>2 DEF ImportCall, Importing, Carrying
<1>10. \/ call[t].pc # "idle" /\ call'[t].fd = call[t].fd
       \/ call[t].pc = "idle" /\ (Registered(reg, call'[t].fd) \/ Busy(call'[t].fd) = {})
  BY <1>2, <1>7, <1>9
<1>. QED  BY <1>2, <1>5, <1>8, <1>9, <1>10, LooksUse

LEMMA SearchUse ==
  ASSUME Ordered, ExactInv, UseInv, NEW t \in Threads, Search(t)
  PROVE  UseInv'
<1>. DEFINE c == call[t]
            e == Lookup(reg, c.fd)
            d == [pc |-> IF c.op = "gbm" THEN "map" ELSE "lock",
                  op |-> c.op, fd |-> c.fd, found |-> Registered(reg, c.fd),
                  mfd |-> IF c.op = "gbm" THEN MetaFd(c.fd) ELSE e.mfd,
                  known |-> e.mfd, cpu |-> e.cpu, mt |-> e.mt]
<1>1. call' = [call EXCEPT ![t] = d] /\ reg' = reg
  BY DEF Search
<1>2. PICK fd \in Fds : fd = c.fd /\ MetaFd(fd) \in open
  BY DEF Search, At, ExactInv, TypeInv, CallsInv, CallOk, Importing, UseInv, MetaInv
<1>3. /\ call[t].pc = "search" /\ c.op \in {"gbm", "fd"}
      /\ Registered(reg, fd) \/ (c.op = "gbm" /\ On(fd) = {} /\ Busy(fd) \subseteq {t})
  BY <1>2 DEF Search, At, ExactInv, TypeInv, CallsInv, CallOk, UseInv, CarryInv, CarryOk
<1>4. /\ Registered(reg, fd) => e = reg[fd] /\ e.mfd = MetaFd(fd)
      /\ ~Registered(reg, fd) => e.cpu = NULL /\ e.mt = NULL
  BY <1>2 DEF Lookup, Registered, UseInv, RegInv
<1>5. /\ d.pc = (IF c.op = "gbm" THEN "map" ELSE "lock") /\ d.op = c.op /\ d.fd = fd
      /\ d.found = Registered(reg, fd) /\ d.known = e.mfd /\ d.cpu = e.cpu /\ d.mt = e.mt
      /\ d.mfd = IF c.op = "gbm" THEN MetaFd(fd) ELSE e.mfd
  BY <1>2
<1>. HIDE DEF d, e
<1>6. call'[t] = d /\ \A s \in Threads : s # t => call'[s] = call[s]
  BY <1>1 DEF ExactInv, TypeInv, CallsInv
<1>7. d.pc \in {"map", "lock"} /\ d.mfd = MetaFd(fd) /\ (~Registered(reg, fd) => d.pc = "map")
  BY <1>3, <1>4, <1>5
<1>8. CarryOk(t)'
  <2>1. ~Registered(reg, fd) => On(fd)' = {} /\ Busy(fd)' \subseteq {t}
    BY <1>2, <1>3, <1>6, <1>7 DEF Search, On, Busy
  <2>. QED  BY <1>1, <1>3, <1>4, <1>5, <1>6, <1>7, <2>1 DEF CarryOk, Found, Carrying
<1>9. /\ reg' = reg /\ objs' = objs /\ open' = open /\ offered' = offered /\ maps' = maps
      /\ call'[t].pc \in Importing \ {"alloc"}
      /\ call'[t].fd = fd /\ call[t].fd = fd
  BY <1>2, <1>5, <1>6, <1>7 DEF Search, Importing, Carrying
<1>. QED  BY <1>2, <1>3, <1>6, <1>8, <1>9, LooksUse

LEMMA MapMissingUse ==
  ASSUME Ordered, ExactInv, UseInv, NEW t \in Threads, MapMissing(t)
  PROVE  UseInv'
<1>. DEFINE c == call[t]
<1>1. PICK fd \in Fds : fd = c.fd /\ fd \in open /\ MetaFd(fd) \in open
  BY DEF MapMissing, At, ExactInv, TypeInv, CallsInv, CallOk, OpenInv, Importing, Carrying,
         UseInv, MetaInv
<1>. PICK a \in NextAddr({}) : \E b \in NextAddr({a}) :
       LET mt == IF c.mt = NULL /\ MetaFd(c.fd) \in open THEN a ELSE c.mt
           cpu == IF c.cpu = NULL /\ mt # NULL /\ c.fd \in open THEN b ELSE c.cpu
           m == IF mt = c.mt THEN maps ELSE Put(maps, mt, MetaFd(c.fd))
       IN /\ maps' = IF cpu = c.cpu THEN m ELSE Put(m, cpu, c.fd)
          /\ call' = [call EXCEPT ![t].pc = "lock", ![t].mt = mt, ![t].cpu = cpu]
  BY DEF MapMissing
<1>2. PICK b \in NextAddr({a}) :
       LET mt == IF c.mt = NULL /\ MetaFd(c.fd) \in open THEN a ELSE c.mt
           cpu == IF c.cpu = NULL /\ mt # NULL /\ c.fd \in open THEN b ELSE c.cpu
           m == IF mt = c.mt THEN maps ELSE Put(maps, mt, MetaFd(c.fd))
       IN /\ maps' = IF cpu = c.cpu THEN m ELSE Put(m, cpu, c.fd)
          /\ call' = [call EXCEPT ![t].pc = "lock", ![t].mt = mt, ![t].cpu = cpu]
  OBVIOUS
<1>3. c.pc = "map" /\ CallOk(c) /\ CarryOk(t)
  BY DEF MapMissing, At, ExactInv, TypeInv, CallsInv, UseInv, CarryInv
<1>4. a \notin DOMAIN maps /\ b \notin DOMAIN maps /\ a # b /\ a # 0 /\ b # 0
  BY NextAddrType, ConcurrentAssumption DEF Addrs
<1>5. Registered(reg, fd) =>
        /\ c.cpu # NULL /\ c.mt # NULL
        /\ c.cpu = reg[fd].cpu /\ c.mt = reg[fd].mt
  <2>. SUFFICES ASSUME Registered(reg, fd) PROVE c.cpu # NULL /\ c.mt # NULL
                       /\ c.cpu = reg[fd].cpu /\ c.mt = reg[fd].mt
    OBVIOUS
  <2>1. Usable(fd, reg[fd].cpu, reg[fd].mt)
    BY DEF UseInv, RegInv, Registered
  <2>2. 0 \notin DOMAIN maps
    BY ConcurrentAssumption DEF ExactInv, TypeInv, MapsTo, Addrs
  <2>. QED  BY <1>1, <1>3, <2>1, <2>2 DEF CarryOk, Carrying, Usable, NULL
<1>6. PICK mt, cpu :
        /\ call' = [call EXCEPT ![t].pc = "lock", ![t].mt = mt, ![t].cpu = cpu]
        /\ Registered(reg, fd) => maps' = maps /\ mt = c.mt /\ cpu = c.cpu
        /\ ~Registered(reg, fd) =>
             mt = a /\ cpu = b /\ maps' = Put(Put(maps, a, MetaFd(fd)), b, fd)
  <2>1. CASE Registered(reg, fd)
    BY <1>1, <1>2, <1>5, <2>1
  <2>2. CASE ~Registered(reg, fd)
    <3>1. c.mt = NULL /\ c.cpu = NULL
      BY <1>1, <1>3, <2>2 DEF CarryOk
    <3>. QED  BY <1>1, <1>2, <1>4, <2>2, <3>1 DEF NULL
  <2>. QED  BY <2>1, <2>2
<1>. DEFINE d == [c EXCEPT !.pc = "lock", !.mt = mt, !.cpu = cpu]
<1>7. /\ call' = [call EXCEPT ![t] = d]
      /\ d.pc = "lock" /\ d.fd = fd /\ d.mt = mt /\ d.cpu = cpu /\ d.op = c.op
      /\ d.found = c.found /\ d.known = c.known /\ d.mfd = c.mfd
  BY <1>1, <1>3, <1>6 DEF ExactInv, TypeInv, CallsInv, CallOk, Found, Carrying
<1>. HIDE DEF d
<1>8. call'[t] = d /\ \A s \in Threads : s # t => call'[s] = call[s]
  BY <1>7 DEF ExactInv, TypeInv, CallsInv
<1>9. ~Registered(reg, fd) => Usable(fd, cpu, mt)'
  <2>1. ~Registered(reg, fd) => /\ cpu \in DOMAIN maps' /\ maps'[cpu] = fd
                                /\ mt \in DOMAIN maps' /\ maps'[mt] = MetaFd(fd)
    BY <1>4, <1>6 DEF Put
  <2>. QED  BY <2>1 DEF Usable
<1>10. \A x \in DOMAIN maps : x \in DOMAIN maps' /\ maps'[x] = maps[x]
  <2>1. CASE Registered(reg, fd)
    BY <1>6, <2>1
  <2>2. CASE ~Registered(reg, fd)
    <3>1. maps' = Put(Put(maps, a, MetaFd(fd)), b, fd)
      BY <1>6, <2>2
    <3>. QED  BY <1>4, <3>1 DEF Put
  <2>. QED  BY <2>1, <2>2
<1>11. CarryOk(t)'
  <2>1. ~Registered(reg, fd) => On(fd)' = {} /\ Busy(fd)' \subseteq {t}
    <3>1. ~Registered(reg, fd) => On(fd) = {} /\ Busy(fd) \subseteq {t}
      BY <1>1, <1>3 DEF CarryOk, Found
    <3>2. On(fd)' = On(fd) /\ Busy(fd)' \subseteq Busy(fd) \cup {t}
      BY <1>8 DEF MapMissing, On, Busy
    <3>. QED  BY <3>1, <3>2
  <2>2. reg' = reg /\ call'[t].pc = "lock"
    BY <1>7, <1>8 DEF MapMissing
  <2>3. /\ c.found <=> Registered(reg, fd)
        /\ c.found => c.known = MetaFd(fd)
        /\ c.mfd = MetaFd(fd)
        /\ ~Registered(reg, fd) => c.op = "gbm"
    BY <1>1, <1>3 DEF CarryOk, Found, Carrying
  <2>. QED  BY <1>5, <1>6, <1>7, <1>8, <1>9, <2>1, <2>2, <2>3 DEF CarryOk, Found, Carrying
<1>12. /\ reg' = reg /\ objs' = objs /\ open' = open /\ offered' = offered
       /\ call'[t].pc \in Importing \ {"alloc"}
       /\ call'[t].fd = fd /\ call[t].fd = fd
  BY <1>1, <1>7, <1>8 DEF MapMissing, Importing, Carrying
<1>. QED  BY <1>1, <1>3, <1>8, <1>10, <1>11, <1>12, LooksUse

\* What a step leaves of the entries of other buffers.
LEMMA RegOthers ==
  ASSUME RegInv, NEW k \in DOMAIN reg, k \in DOMAIN reg', reg'[k] = reg[k], k \in open',
         MapsKept(k),
         \A s \in Threads : call[s].pc \in {"inc", "incwrite"} /\ call[s].fd = k =>
           call'[s].pc \in {"inc", "incwrite"} /\ call'[s].fd = k
  PROVE  /\ reg'[k].mfd = MetaFd(k)
         /\ Usable(k, reg[k].cpu, reg[k].mt)'
         /\ RefOf(reg', k) >= 1
            \/ \E s \in Threads : call'[s].pc \in {"inc", "incwrite"} /\ call'[s].fd = k
<1>1. PICK e : e = reg[k] /\ e = reg'[k]
  OBVIOUS
<1>2. Usable(k, e.cpu, e.mt)'
  BY <1>1, UsableKept DEF RegInv
<1>3. RefOf(reg', k) = RefOf(reg, k)
  BY DEF RefOf, Lookup, Registered
<1>. QED  BY <1>1, <1>2, <1>3 DEF RegInv, Usable

\* After an import entered its fd, the registry says what the import carries.
LEMMA Entered ==
  ASSUME Ordered, ExactInv, UseInv, NEW t \in Threads, LockAndEnter(t),
         NEW fd \in Fds, fd = call[t].fd
  PROVE  /\ fd \in DOMAIN reg' /\ reg'[fd].mfd = MetaFd(fd)
         /\ reg'[fd].cpu = call[t].cpu /\ reg'[fd].mt = call[t].mt
         /\ \A k : k # fd => (k \in DOMAIN reg' <=> k \in DOMAIN reg)
         /\ \A k \in DOMAIN reg : k \in DOMAIN reg' /\ reg'[k] = reg[k]
<1>. DEFINE c == call[t]
<1>1. c.pc = "lock" /\ CallOk(c) /\ CarryOk(t)
  BY DEF LockAndEnter, At, ExactInv, TypeInv, CallsInv, UseInv, CarryInv
<1>2. /\ c.found <=> Registered(reg, fd)
      /\ c.found => c.known = MetaFd(fd)
      /\ c.mfd = MetaFd(fd)
      /\ Registered(reg, fd) => c.cpu = reg[fd].cpu /\ c.mt = reg[fd].mt
  BY <1>1 DEF CarryOk, Found, Carrying
<1>3. /\ Registered(reg, fd) => reg' = reg
      /\ ~Registered(reg, fd) =>
           reg' = Put(reg, fd, [mfd |-> MetaFd(fd), cpu |-> c.cpu, mt |-> c.mt, ref |-> 0])
  <2>1. reg' = Enter(t)
    BY DEF LockAndEnter
  <2>2. ~(MetaFd(fd) < 0)
    BY ConcurrentAssumption DEF MetaFd
  <2>. QED  BY <1>2, <2>1, <2>2 DEF Enter, Register
<1>. QED
  <2>1. CASE Registered(reg, fd)
    BY <1>2, <1>3, <2>1 DEF Registered, UseInv, RegInv
  <2>2. CASE ~Registered(reg, fd)
    <3>. DEFINE e == [mfd |-> MetaFd(fd), cpu |-> c.cpu, mt |-> c.mt, ref |-> 0]
    <3>1. e.mfd = MetaFd(fd) /\ e.cpu = c.cpu /\ e.mt = c.mt /\ reg' = Put(reg, fd, e)
      BY <1>3, <2>2
    <3>. HIDE DEF e
    <3>. QED  BY <2>2, <3>1 DEF Put, Registered
  <2>. QED  BY <2>1, <2>2

LEMMA LockUse ==
  ASSUME Ordered, ExactInv, UseInv, NEW t \in Threads, LockAndEnter(t)
  PROVE  UseInv'
<1>. DEFINE c == call[t]
<1>1. PICK fd \in Fds : fd = c.fd /\ fd \in open /\ MetaFd(fd) \in open
  BY DEF LockAndEnter, At, ExactInv, TypeInv, CallsInv, CallOk, OpenInv, Importing, Carrying,
         UseInv, MetaInv
<1>2. c.pc = "lock" /\ CallOk(c) /\ CarryOk(t) /\ maps' = maps /\ objs' = objs
  BY DEF LockAndEnter, At, ExactInv, TypeInv, CallsInv, UseInv, CarryInv
<1>3. /\ call'[t].pc = "inc" /\ call'[t].fd = fd
      /\ call'[t].cpu = c.cpu /\ call'[t].mt = c.mt /\ call'[t].mfd = c.mfd
      /\ \A s \in Threads : s # t => call'[s] = call[s]
  BY <1>1, <1>2 DEF LockAndEnter, Goto, ExactInv, TypeInv, CallsInv, CallOk, Carrying
<1>4. /\ c.found <=> Registered(reg, fd)
      /\ c.found => c.known = MetaFd(fd)
      /\ c.mfd = MetaFd(fd)
      /\ Registered(reg, fd) => c.cpu = reg[fd].cpu /\ c.mt = reg[fd].mt
      /\ ~Registered(reg, fd) => /\ Usable(fd, c.cpu, c.mt)
                                 /\ On(fd) = {} /\ Busy(fd) \subseteq {t}
  BY <1>1, <1>2 DEF CarryOk, Found, Carrying
<1>5. /\ fd \in DOMAIN reg' /\ reg'[fd].mfd = MetaFd(fd)
      /\ reg'[fd].cpu = c.cpu /\ reg'[fd].mt = c.mt
      /\ \A k : k # fd => (k \in DOMAIN reg' <=> k \in DOMAIN reg)
      /\ \A k \in DOMAIN reg : k \in DOMAIN reg' /\ reg'[k] = reg[k]
  BY <1>1, Entered
<1>7. \A k : MapsKept(k)
  BY <1>2 DEF MapsKept
<1>8. Usable(fd, c.cpu, c.mt)
  BY <1>4 DEF Registered, UseInv, RegInv
<1>9. RegInv'
  <2>1. ASSUME NEW k \in DOMAIN reg', k # fd
        PROVE  /\ k \in open'
               /\ reg'[k].mfd = MetaFd(k)
               /\ Usable(k, reg[k].cpu, reg[k].mt)'
               /\ RefOf(reg', k) >= 1
                  \/ \E s \in Threads : call'[s].pc \in {"inc", "incwrite"} /\ call'[s].fd = k
    <3>1. k \in DOMAIN reg /\ reg'[k] = reg[k] /\ k \in open'
      BY <1>5, <2>1 DEF LockAndEnter, UseInv, RegInv
    <3>2. \A s \in Threads : call[s].pc \in {"inc", "incwrite"} /\ call[s].fd = k =>
            call'[s].pc \in {"inc", "incwrite"} /\ call'[s].fd = k
      BY <1>2, <1>3
    <3>. QED  BY <1>7, <3>1, <3>2, RegOthers DEF UseInv
  <2>2. fd \in open' /\ Usable(fd, reg[fd].cpu, reg[fd].mt)'
    BY <1>1, <1>2, <1>5, <1>8 DEF LockAndEnter, Usable
  <2>. QED  BY <1>3, <1>5, <2>1, <2>2 DEF RegInv
<1>10. MetaInv'
  <2>1. open' = open /\ offered' = offered
    BY DEF LockAndEnter
  <2>. QED  BY <1>1, <1>2, <1>3, <2>1 DEF UseInv, MetaInv, Destroying, Importing, Carrying
<1>11. CarryInv'
  <2>1. CarryOk(t)'
    BY <1>3, <1>4, <1>5 DEF CarryOk, Found, Carrying
  <2>2. ASSUME NEW s \in Threads, s # t PROVE CarryOk(s)'
    <3>1. PICK k : k = call[s].fd
      OBVIOUS
    <3>2. CASE call[s].pc = "idle"
      BY <1>3, <2>2, <3>2, CarryOthers DEF UseInv, Quiet
    <3>3. CASE call[s].pc # "idle"
      <4>1. k = fd => Registered(reg, fd)
        BY <1>4, <2>2, <3>1, <3>3 DEF Busy
      <4>2. /\ Registered(reg', k) <=> Registered(reg, k)
            /\ Registered(reg, k) => reg'[k] = reg[k]
        BY <1>5, <4>1 DEF Registered
      <4>3. On(k)' = On(k) /\ Busy(k)' \subseteq Busy(k)
        BY <1>1, <1>2, <1>3 DEF On, Busy
      <4>4. call'[s] = call[s] /\ objs'[call[s].id] = objs[call[s].id]
        BY <1>2, <1>3, <2>2
      <4>. QED  BY <1>7, <3>1, <4>2, <4>3, <4>4, CarryOthers DEF UseInv
    <3>. QED  BY <3>2, <3>3
  <2>. QED  BY <2>1, <2>2 DEF CarryInv
<1>12. SharedInv'
  <2>1. Leaving' = Leaving
    BY <1>2, <1>3 DEF Leaving
  <2>2. \A id \in DOMAIN objs \ Leaving : reg'[objs[id].fd] = reg[objs[id].fd]
    BY <1>5, StayingRegistered DEF Ordered, Registered
  <2>. QED  BY <1>2, <2>1, <2>2 DEF UseInv, SharedInv
<1>. QED  BY <1>9, <1>10, <1>11, <1>12 DEF UseInv

LEMMA IncReadUse ==
  ASSUME Ordered, ExactInv, UseInv, NEW t \in Threads, IncRead(t)
  PROVE  UseInv'
<1>. DEFINE c == call[t]
            d == [pc |-> "incwrite", fd |-> c.fd, mfd |-> c.mfd, cpu |-> c.cpu,
                  mt |-> c.mt, n |-> reg[c.fd].ref]
<1>1. PICK fd \in Fds : fd = c.fd /\ Registered(reg, fd) /\ MetaFd(fd) \in open
  BY DEF IncRead, At, ExactInv, TypeInv, CallsInv, CallOk, EntryInv, EntryOk, Importing, Carrying,
         UseInv, MetaInv
<1>2. c.pc = "inc" /\ CarryOk(t)
  BY DEF IncRead, At, UseInv, CarryInv
<1>3. call' = [call EXCEPT ![t] = d] /\ reg' = reg
  BY <1>1 DEF IncRead
<1>4. d.pc = "incwrite" /\ d.fd = fd /\ d.mfd = c.mfd /\ d.cpu = c.cpu /\ d.mt = c.mt
  BY <1>1
<1>. HIDE DEF d
<1>5. call'[t] = d /\ \A s \in Threads : s # t => call'[s] = call[s]
  BY <1>3 DEF ExactInv, TypeInv, CallsInv
<1>6. CarryOk(t)'
  <2>1. /\ c.mfd = MetaFd(fd)
        /\ c.cpu = reg[fd].cpu /\ c.mt = reg[fd].mt
    BY <1>1, <1>2 DEF CarryOk, Carrying
  <2>. QED  BY <1>1, <1>3, <1>4, <1>5, <2>1 DEF CarryOk, Found, Carrying
<1>7. /\ reg' = reg /\ objs' = objs /\ open' = open /\ offered' = offered /\ maps' = maps
      /\ call'[t].pc \in Importing \ {"alloc"} /\ call'[t].pc \in {"inc", "incwrite"}
      /\ call'[t].fd = fd /\ call[t].fd = fd
  BY <1>1, <1>4, <1>5 DEF IncRead, Importing, Carrying
<1>. QED  BY <1>1, <1>2, <1>5, <1>6, <1>7, LooksUse

LEMMA IncWriteUse ==
  ASSUME Ordered, ExactInv, UseInv, ExactInv', NEW t \in Threads, IncWrite(t)
  PROVE  UseInv'
<1>. DEFINE c == call[t]
<1>1. PICK fd \in Fds : /\ fd = c.fd /\ fd \in DOMAIN reg /\ fd \in open /\ MetaFd(fd) \in open
                        /\ c.n = RefOf(reg, fd)
  BY DEF IncWrite, At, ExactInv, TypeInv, CallsInv, CallOk, OpenInv, Importing, Carrying,
         EntryInv, EntryOk, Registered, UseInv, MetaInv
<1>2. c.pc = "incwrite" /\ CallOk(c) /\ CarryOk(t) /\ maps' = maps /\ objs' = objs
      /\ open' = open /\ offered' = offered
  BY DEF IncWrite, At, ExactInv, TypeInv, CallsInv, UseInv, CarryInv
<1>3. /\ call'[t].pc = "alloc" /\ call'[t].fd = fd
      /\ call'[t].cpu = c.cpu /\ call'[t].mt = c.mt /\ call'[t].mfd = c.mfd
      /\ \A s \in Threads : s # t => call'[s] = call[s]
  BY <1>1, <1>2 DEF IncWrite, Goto, ExactInv, TypeInv, CallsInv, CallOk, Carrying
<1>4. reg' = [reg EXCEPT ![fd].ref = c.n + 1]
  BY <1>1 DEF IncWrite, Registered
<1>5. /\ DOMAIN reg' = DOMAIN reg
      /\ \A k \in DOMAIN reg : k # fd => reg'[k] = reg[k]
      /\ reg'[fd].mfd = reg[fd].mfd /\ reg'[fd].cpu = reg[fd].cpu /\ reg'[fd].mt = reg[fd].mt
      /\ reg'[fd].ref = c.n + 1
  BY <1>1, <1>4 DEF ExactInv, TypeInv, MapsTo, Entries
<1>6. \A k : MapsKept(k)
  BY <1>2 DEF MapsKept
<1>7. c.n \in Int /\ c.n >= 0
  BY <1>1, FiniteParts, RefOfType DEF ExactInv, CountInv, Ordered
<1>8. RegInv'
  <2>1. ASSUME NEW k \in DOMAIN reg', k # fd
        PROVE  /\ k \in open'
               /\ reg'[k].mfd = MetaFd(k)
               /\ Usable(k, reg[k].cpu, reg[k].mt)'
               /\ RefOf(reg', k) >= 1
                  \/ \E s \in Threads : call'[s].pc \in {"inc", "incwrite"} /\ call'[s].fd = k
    <3>1. k \in DOMAIN reg /\ reg'[k] = reg[k] /\ k \in open'
      BY <1>2, <1>5, <2>1 DEF UseInv, RegInv
    <3>2. \A s \in Threads : call[s].pc \in {"inc", "incwrite"} /\ call[s].fd = k =>
            call'[s].pc \in {"inc", "incwrite"} /\ call'[s].fd = k
      BY <1>1, <1>3, <2>1
    <3>. QED  BY <1>6, <2>1, <3>1, <3>2, RegOthers DEF UseInv
  <2>2. Usable(fd, reg[fd].cpu, reg[fd].mt)'
    BY <1>1, <1>2, <1>5 DEF UseInv, RegInv, Usable
  <2>3. reg'[fd].mfd = MetaFd(fd) /\ fd \in open' /\ RefOf(reg', fd) >= 1
    BY <1>1, <1>2, <1>5, <1>7 DEF UseInv, RegInv, RefOf, Lookup, Registered
  <2>. QED  BY <2>1, <2>2, <2>3 DEF RegInv
<1>9. MetaInv'
  BY <1>1, <1>2, <1>3 DEF UseInv, MetaInv, Destroying, Importing, Carrying
<1>10. \A k : /\ Registered(reg', k) <=> Registered(reg, k)
              /\ Registered(reg, k) => reg'[k].cpu = reg[k].cpu /\ reg'[k].mt = reg[k].mt
  BY <1>1, <1>5 DEF Registered
<1>11. CarryInv'
  <2>1. CarryOk(t)'
    <3>1. /\ Registered(reg, fd) /\ c.mfd = MetaFd(fd)
          /\ c.cpu = reg[fd].cpu /\ c.mt = reg[fd].mt
      BY <1>1, <1>2 DEF CarryOk, Carrying, Registered
    <3>. QED  BY <1>3, <1>10, <3>1 DEF CarryOk, Found, Carrying
  <2>2. ASSUME NEW s \in Threads, s # t PROVE CarryOk(s)'
    <3>1. PICK k : k = call[s].fd
      OBVIOUS
    <3>2. On(k)' = On(k) /\ Busy(k)' \subseteq Busy(k)
      BY <1>1, <1>2, <1>3 DEF On, Busy
    <3>3. call'[s] = call[s] /\ objs'[call[s].id] = objs[call[s].id]
      BY <1>2, <1>3, <2>2
    <3>. QED  BY <1>6, <1>10, <3>1, <3>2, <3>3, CarryOthers DEF UseInv
  <2>. QED  BY <2>1, <2>2 DEF CarryInv
<1>12. SharedInv'
  <2>1. Leaving' = Leaving
    BY <1>2, <1>3 DEF Leaving
  <2>2. \A id \in DOMAIN objs \ Leaving : Registered(reg, objs[id].fd)
    BY StayingRegistered DEF Ordered
  <2>. QED  BY <1>2, <1>10, <2>1, <2>2 DEF UseInv, SharedInv
<1>. QED  BY <1>8, <1>9, <1>11, <1>12 DEF UseInv

LEMMA AllocUse ==
  ASSUME Ordered, ExactInv, UseInv, NEW t \in Threads, Alloc(t)
  PROVE  UseInv'
<1>. DEFINE c == call[t]
            o == [fd |-> c.fd, mfd |-> c.mfd, cpu |-> c.cpu, mt |-> c.mt]
<1>1. PICK fd \in Fds : fd = c.fd /\ fd \in DOMAIN reg /\ fd \in open /\ MetaFd(fd) \in open
  BY DEF Alloc, At, ExactInv, TypeInv, CallsInv, CallOk, OpenInv, Importing, Carrying,
         EntryInv, EntryOk, Registered, UseInv, MetaInv
<1>2. c.pc = "alloc" /\ CarryOk(t) /\ maps' = maps /\ reg' = reg
      /\ open' = open /\ offered' = offered
  BY DEF Alloc, At, UseInv, CarryInv
<1>3. call'[t] = Idle /\ \A s \in Threads : s # t => call'[s] = call[s]
  BY DEF Alloc, Return, ExactInv, TypeInv, CallsInv
<1>4. PICK id \in Ids \ DOMAIN objs : objs' = Put(objs, id, o)
  BY DEF Alloc
<1>5. o.fd = fd /\ o.mfd = MetaFd(fd) /\ o.cpu = reg[fd].cpu /\ o.mt = reg[fd].mt
  BY <1>1, <1>2 DEF CarryOk, Carrying, Registered
<1>. HIDE DEF o
<1>6. /\ id \notin Leaving
      /\ \A x \in DOMAIN objs : x \in DOMAIN objs' /\ objs'[x] = objs[x]
      /\ DOMAIN objs' = DOMAIN objs \cup {id} /\ objs'[id] = o
  BY <1>4, <1>5, ObjectAdded
<1>7. \A k : MapsKept(k)
  BY <1>2 DEF MapsKept
<1>8. RegInv'
  <2>1. ASSUME NEW k \in DOMAIN reg
        PROVE  /\ k \in open'
               /\ reg'[k].mfd = MetaFd(k)
               /\ Usable(k, reg[k].cpu, reg[k].mt)'
               /\ RefOf(reg', k) >= 1
                  \/ \E s \in Threads : call'[s].pc \in {"inc", "incwrite"} /\ call'[s].fd = k
    <3>1. \A s \in Threads : call[s].pc \in {"inc", "incwrite"} /\ call[s].fd = k =>
            call'[s].pc \in {"inc", "incwrite"} /\ call'[s].fd = k
      BY <1>2, <1>3
    <3>2. k \in open'
      BY <1>2 DEF UseInv, RegInv
    <3>. QED  BY <1>2, <1>7, <3>1, <3>2, RegOthers DEF UseInv
  <2>. QED  BY <1>2, <2>1 DEF RegInv
<1>9. MetaInv'
  <2>1. \A x \in DOMAIN objs' : objs'[x].mfd = MetaFd(objs'[x].fd) /\ MetaFd(objs'[x].fd) \in open
    BY <1>1, <1>5, <1>6 DEF UseInv, MetaInv
  <2>. QED  BY <1>2, <1>3, <2>1 DEF UseInv, MetaInv, Destroying, Importing, Carrying, Idle
<1>10. CarryInv'
  <2>1. CarryOk(t)'
    BY <1>3 DEF CarryOk, Found, Carrying, Idle
  <2>2. ASSUME NEW s \in Threads, s # t PROVE CarryOk(s)'
    <3>1. PICK k : k = call[s].fd
      OBVIOUS
    <3>2. ~Registered(reg, k) => k # fd /\ On(k)' = On(k) /\ Busy(k)' \subseteq Busy(k)
      BY <1>1, <1>3, <1>5, <1>6 DEF Registered, On, Busy, Idle
    <3>3. call[s].pc = "unmap" => objs'[call[s].id] = objs[call[s].id]
      BY <1>6 DEF ExactInv, HasInv, Holding
    <3>4. call'[s] = call[s]
      BY <1>3, <2>2
    <3>. QED  BY <1>2, <1>7, <3>1, <3>2, <3>3, <3>4, CarryOthers DEF UseInv
  <2>. QED  BY <2>1, <2>2 DEF CarryInv
<1>11. SharedInv'
  <2>1. Leaving' = Leaving
    BY <1>2, <1>3 DEF Leaving, Idle
  <2>. QED  BY <1>2, <1>5, <1>6, <2>1 DEF UseInv, SharedInv
<1>. QED  BY <1>8, <1>9, <1>10, <1>11 DEF UseInv

LEMMA BoCreateUse ==
  ASSUME Ordered, ExactInv, UseInv, NEW t \in Threads, NEW fd \in Fds, BoCreate(t, fd)
  PROVE  UseInv'
<1>1. PICK id \in Ids \ DOMAIN objs : \E mt \in NextAddr({}) : \E c \in NextAddr({mt}) :
        /\ maps' = Put(Put(maps, mt, MetaFd(fd)), c, fd)
        /\ reg' = IncRef(Register(reg, fd, MetaFd(fd), c, mt), fd)
        /\ objs' = Put(objs, id, [fd |-> fd, mfd |-> MetaFd(fd), cpu |-> c, mt |-> mt])
  BY DEF BoCreate
<1>. PICK mt \in NextAddr({}) : \E c \in NextAddr({mt}) :
        /\ maps' = Put(Put(maps, mt, MetaFd(fd)), c, fd)
        /\ reg' = IncRef(Register(reg, fd, MetaFd(fd), c, mt), fd)
        /\ objs' = Put(objs, id, [fd |-> fd, mfd |-> MetaFd(fd), cpu |-> c, mt |-> mt])
  BY <1>1
<1>2. PICK c \in NextAddr({mt}) :
        /\ maps' = Put(Put(maps, mt, MetaFd(fd)), c, fd)
        /\ reg' = IncRef(Register(reg, fd, MetaFd(fd), c, mt), fd)
        /\ objs' = Put(objs, id, [fd |-> fd, mfd |-> MetaFd(fd), cpu |-> c, mt |-> mt])
  OBVIOUS
<1>3. mt \notin DOMAIN maps /\ c \notin DOMAIN maps /\ mt # c
  BY NextAddrType
<1>4. /\ call' = call /\ offered' = offered /\ open' = open \cup {fd, MetaFd(fd)}
      /\ fd \notin open /\ MetaFd(fd) \notin open
  BY DEF BoCreate
<1>5. fd \notin DOMAIN reg
  BY <1>4 DEF UseInv, RegInv
<1>6. /\ DOMAIN reg' = DOMAIN reg \cup {fd}
      /\ \A k \in DOMAIN reg : reg'[k] = reg[k]
      /\ reg'[fd].mfd = MetaFd(fd) /\ reg'[fd].cpu = c /\ reg'[fd].mt = mt /\ reg'[fd].ref = 1
  BY <1>2, <1>5 DEF IncRef, Register, Registered, Put
<1>7. /\ DOMAIN maps' = DOMAIN maps \cup {mt, c}
      /\ \A a \in DOMAIN maps : maps'[a] = maps[a]
      /\ maps'[c] = fd /\ maps'[mt] = MetaFd(fd)
  BY <1>2, <1>3 DEF Put
<1>8. \A k : MapsKept(k)
  BY <1>7 DEF MapsKept
<1>. DEFINE o == [fd |-> fd, mfd |-> MetaFd(fd), cpu |-> c, mt |-> mt]
<1>9. o.fd = fd /\ o.mfd = MetaFd(fd) /\ o.cpu = c /\ o.mt = mt /\ objs' = Put(objs, id, o)
  BY <1>2
<1>. HIDE DEF o
<1>10. /\ id \notin Leaving
       /\ \A x \in DOMAIN objs : x \in DOMAIN objs' /\ objs'[x] = objs[x]
       /\ DOMAIN objs' = DOMAIN objs \cup {id} /\ objs'[id] = o
  BY <1>9, ObjectAdded
<1>11. \A s \in Threads : call[s].pc \notin {"idle", "closemeta"} => call[s].fd # fd
  <2>. SUFFICES ASSUME NEW s \in Threads, call[s].pc \notin {"idle", "closemeta"}
                PROVE  call[s].fd \in open
    BY <1>4
  <2>1. call[s].pc \in Importing \cup Holding
    BY DEF ExactInv, TypeInv, CallsInv, CallOk, Pcs, Importing, Carrying, Holding
  <2>. QED  BY <2>1 DEF ExactInv, OpenInv, HasInv
<1>12. RegInv'
  <2>1. ASSUME NEW k \in DOMAIN reg
        PROVE  /\ k \in open'
               /\ reg'[k].mfd = MetaFd(k)
               /\ Usable(k, reg[k].cpu, reg[k].mt)'
               /\ RefOf(reg', k) >= 1
                  \/ \E s \in Threads : call'[s].pc \in {"inc", "incwrite"} /\ call'[s].fd = k
    <3>1. k \in DOMAIN reg' /\ reg'[k] = reg[k] /\ k \in open'
      BY <1>4, <1>6 DEF UseInv, RegInv
    <3>. QED  BY <1>4, <1>8, <3>1, RegOthers DEF UseInv
  <2>2. Usable(fd, reg[fd].cpu, reg[fd].mt)' /\ RefOf(reg', fd) >= 1
    BY <1>6, <1>7 DEF Usable, RefOf, Lookup, Registered
  <2>. QED  BY <1>4, <1>6, <2>1, <2>2 DEF RegInv
<1>13. MetaInv'
  <2>1. \A x \in DOMAIN objs' : objs'[x].mfd = MetaFd(objs'[x].fd) /\ MetaFd(objs'[x].fd) \in open'
    <3>1. \A x \in DOMAIN objs : objs[x].mfd = MetaFd(objs[x].fd) /\ MetaFd(objs[x].fd) \in open
      BY DEF UseInv, MetaInv
    <3>. QED  BY <1>4, <1>9, <1>10, <3>1
  <2>2. ASSUME NEW s \in Threads, call[s].pc = "closemeta" PROVE call[s].fd \notin open'
    <3>1. call[s].fd \notin open /\ MetaFd(call[s].fd) \in open /\ call[s].fd \in Fds
      BY <2>2 DEF UseInv, MetaInv, ExactInv, TypeInv, CallsInv, CallOk
    <3>. QED  BY <1>4, <3>1, ConcurrentAssumption
  <2>3. \A r, s \in Threads :
          r # s /\ call[r].pc = "closemeta" /\ call[s].pc = "closemeta" => call[r].fd # call[s].fd
    BY DEF UseInv, MetaInv
  <2>4. ASSUME NEW s \in Threads
        PROVE  /\ call[s].pc \in Importing => MetaFd(call[s].fd) \in open'
               /\ s \in Destroying => call[s].fd \notin offered'
               /\ call[s].pc = "closemeta" =>
                    /\ call[s].fd \notin open' /\ MetaFd(call[s].fd) \in open'
                    /\ call[s].mfd = MetaFd(call[s].fd)
    BY <1>4, <2>2 DEF UseInv, MetaInv
  <2>5. \A k \in offered' : k \in open' /\ MetaFd(k) \in open'
    BY <1>4 DEF UseInv, MetaInv
  <2>6. Destroying' = Destroying /\ call' = call
    BY <1>4 DEF Destroying
  <2>. QED  BY <2>1, <2>3, <2>4, <2>5, <2>6 DEF MetaInv
<1>14. CarryInv'
  <2>. SUFFICES ASSUME NEW s \in Threads PROVE CarryOk(s)'
    BY DEF CarryInv
  <2>1. PICK k : k = call[s].fd
    OBVIOUS
  <2>2. call[s].pc \notin {"idle", "closemeta"} =>
          /\ k # fd
          /\ Registered(reg', k) <=> Registered(reg, k)
          /\ Registered(reg, k) => reg'[k] = reg[k]
          /\ On(k)' = On(k) /\ Busy(k)' = Busy(k)
    <3>. SUFFICES ASSUME call[s].pc \notin {"idle", "closemeta"}
                  PROVE  /\ k # fd
                         /\ Registered(reg', k) <=> Registered(reg, k)
                         /\ Registered(reg, k) => reg'[k] = reg[k]
                         /\ On(k)' = On(k) /\ Busy(k)' = Busy(k)
      OBVIOUS
    <3>1. k # fd
      BY <1>11, <2>1
    <3>2. Registered(reg', k) <=> Registered(reg, k)
      BY <1>6, <3>1 DEF Registered
    <3>3. Registered(reg, k) => reg'[k] = reg[k]
      BY <1>6 DEF Registered
    <3>4. On(k)' = On(k)
      BY <1>9, <1>10, <3>1 DEF On
    <3>5. Busy(k)' = Busy(k)
      BY <1>4 DEF Busy
    <3>. QED  BY <3>1, <3>2, <3>3, <3>4, <3>5
  <2>3. call[s].pc = "unmap" => objs'[call[s].id] = objs[call[s].id]
    BY <1>10 DEF ExactInv, HasInv, Holding
  <2>4. call'[s] = call[s]
    BY <1>4
  <2>. QED  BY <1>8, <2>1, <2>2, <2>3, <2>4, CarryOthers DEF UseInv, Quiet
<1>15. SharedInv'
  <2>1. Leaving' = Leaving
    BY <1>4 DEF Leaving
  <2>2. \A x \in DOMAIN objs \ Leaving : reg'[objs[x].fd] = reg[objs[x].fd]
    BY <1>6, StayingRegistered DEF Ordered, Registered
  <2>. SUFFICES ASSUME NEW x \in DOMAIN objs', x \notin Leaving
                PROVE  /\ objs'[x].cpu = reg'[objs'[x].fd].cpu
                       /\ objs'[x].mt = reg'[objs'[x].fd].mt
    BY <2>1 DEF SharedInv
  <2>3. CASE x = id
    BY <1>6, <1>9, <1>10, <2>3
  <2>4. CASE x # id
    BY <1>10, <2>2, <2>4 DEF UseInv, SharedInv
  <2>. QED  BY <2>3, <2>4
<1>. QED  BY <1>12, <1>13, <1>14, <1>15 DEF UseInv

-----------------------------------------------------------------------------
(* Giving an object back, and what the last one does.                      *)

LEMMA CountingDownUse ==
  ASSUME ExactInv, UseInv, NEW t \in Threads, reg' = reg, objs' = objs, open' = open,
         offered' = offered, maps' = maps,
         \A s \in Threads : s # t => call'[s] = call[s],
         call[t].pc \in {"idle", "dec"}, call'[t].pc \in {"dec", "decwrite"},
         call'[t].fd \notin offered, Registered(reg, call'[t].fd)
  PROVE  UseInv'
<1>1. RegInv'
  <2>. SUFFICES ASSUME NEW k \in DOMAIN reg
                PROVE  /\ k \in open'
                       /\ reg'[k].mfd = MetaFd(k)
                       /\ Usable(k, reg[k].cpu, reg[k].mt)'
                       /\ RefOf(reg', k) >= 1
                          \/ \E s \in Threads : call'[s].pc \in {"inc", "incwrite"}
                                                /\ call'[s].fd = k
    BY DEF RegInv
  <2>1. \A s \in Threads : call[s].pc \in {"inc", "incwrite"} /\ call[s].fd = k =>
          call'[s].pc \in {"inc", "incwrite"} /\ call'[s].fd = k
    OBVIOUS
  <2>2. MapsKept(k) /\ k \in open'
    BY DEF MapsKept, UseInv, RegInv
  <2>. QED  BY <2>1, <2>2, RegOthers DEF UseInv
<1>2. MetaInv'
  BY DEF UseInv, MetaInv, Destroying, Importing, Carrying
<1>3. CarryInv'
  <2>1. CarryOk(t)'
    BY DEF CarryOk, Found, Carrying
  <2>2. ASSUME NEW s \in Threads, s # t PROVE CarryOk(s)'
    <3>1. PICK k : k = call[s].fd
      OBVIOUS
    <3>2. ~Registered(reg, k) => Busy(k)' \subseteq Busy(k)
      BY DEF Busy
    <3>3. On(k)' = On(k) /\ MapsKept(k)
      BY DEF On, MapsKept
    <3>4. call'[s] = call[s]
      BY <2>2
    <3>. QED  BY <3>1, <3>2, <3>3, <3>4, CarryOthers DEF UseInv
  <2>. QED  BY <2>1, <2>2 DEF CarryInv
<1>4. SharedInv'
  <2>1. Leaving' = Leaving
    BY DEF Leaving
  <2>. QED  BY <2>1 DEF UseInv, SharedInv
<1>. QED  BY <1>1, <1>2, <1>3, <1>4 DEF UseInv

LEMMA DestroyCallUse ==
  ASSUME Ordered, ExactInv, UseInv, NEW t \in Threads, NEW id \in DOMAIN objs,
         DestroyCall(t, id)
  PROVE  UseInv'
<1>. DEFINE d == [pc |-> "dec", fd |-> objs[id].fd, id |-> id]
<1>1. call' = [call EXCEPT ![t] = d] /\ d.pc = "dec" /\ d.fd = objs[id].fd
  BY DEF DestroyCall
<1>. HIDE DEF d
<1>2. call[t].pc = "idle" /\ call'[t] = d /\ \A s \in Threads : s # t => call'[s] = call[s]
  BY <1>1 DEF DestroyCall, At, ExactInv, TypeInv, CallsInv
<1>3. objs[id].fd \notin offered /\ id \notin Claimed
  BY DEF DestroyCall, MayDestroy
<1>4. id \notin Leaving
  BY <1>3 DEF Leaving, Claimed, Destroying
<1>5. Registered(reg, objs[id].fd)
  BY <1>4, StayingRegistered DEF Ordered
<1>6. /\ reg' = reg /\ objs' = objs /\ open' = open /\ offered' = offered /\ maps' = maps
      /\ call[t].pc \in {"idle", "dec"} /\ call'[t].pc \in {"dec", "decwrite"}
      /\ call'[t].fd \notin offered /\ Registered(reg, call'[t].fd)
  BY <1>1, <1>2, <1>3, <1>5 DEF DestroyCall
<1>. QED  BY <1>2, <1>6, CountingDownUse

LEMMA DecReadUse ==
  ASSUME Ordered, ExactInv, UseInv, NEW t \in Threads, DecRead(t)
  PROVE  UseInv'
<1>. DEFINE c == call[t]
            d == [pc |-> "decwrite", fd |-> c.fd, id |-> c.id, n |-> reg[c.fd].ref]
<1>1. c.pc = "dec" /\ Registered(reg, c.fd) /\ c.fd \notin offered
  BY StillCounted DEF DecRead, At, Ordered, UseInv, MetaInv, Destroying
<1>2. call' = [call EXCEPT ![t] = d] /\ d.pc = "decwrite" /\ d.fd = c.fd
  BY <1>1 DEF DecRead
<1>. HIDE DEF d
<1>3. call'[t] = d /\ \A s \in Threads : s # t => call'[s] = call[s]
  BY <1>2 DEF ExactInv, TypeInv, CallsInv
<1>4. /\ reg' = reg /\ objs' = objs /\ open' = open /\ offered' = offered /\ maps' = maps
      /\ call[t].pc \in {"idle", "dec"} /\ call'[t].pc \in {"dec", "decwrite"}
      /\ call'[t].fd \notin offered /\ Registered(reg, call'[t].fd)
  BY <1>1, <1>2, <1>3 DEF DecRead
<1>. QED  BY <1>3, <1>4, CountingDownUse

LEMMA DecWriteUse ==
  ASSUME Ordered, ExactInv, UseInv, NEW t \in Threads, DecWrite(t)
  PROVE  UseInv'
<1>. DEFINE c == call[t]
<1>1. /\ c.pc = "decwrite" /\ CallOk(c) /\ c.fd \in Fds /\ c.id \in Staying(c.fd)
      /\ Registered(reg, c.fd) /\ c.n >= Cardinality(Staying(c.fd)) /\ c.n >= 1 /\ c.n \in Int
      /\ c.fd \notin offered
  BY ReadEnough
     DEF DecWrite, At, ExactInv, TypeInv, CallsInv, CallOk, Ordered, UseInv, MetaInv, Destroying
<1>. PICK fd \in Fds, id \in {c.id} : fd = c.fd /\ id = c.id
  BY <1>1
<1>2. /\ \A s \in Threads : s # t => call'[s] = call[s]
      /\ maps' = maps /\ open' = open /\ offered' = offered
  BY DEF DecWrite, Goto, Return, ExactInv, TypeInv, CallsInv
<1>3. ASSUME NEW s \in Threads, s # t, call[s].pc \notin Quiet PROVE call[s].fd # fd
  <2>1. CASE call[s].pc = "unmap"
    BY <1>1, <2>1 DEF ExactInv, EntryInv, EntryOk
  <2>2. CASE call[s].pc # "unmap"
    <3>1. s \notin Destroying /\ call[s].pc # "idle" /\ t \in Destroying
      BY <1>1, <1>3, <2>2 DEF Quiet, Destroying
    <3>. QED  BY <3>1, AloneOn DEF ExactInv
  <2>. QED  BY <2>1, <2>2
<1>4. /\ fd \in DOMAIN reg /\ Usable(fd, reg[fd].cpu, reg[fd].mt)
      /\ id \in DOMAIN objs \ Leaving /\ objs[id].fd = fd
      /\ objs[id].cpu = reg[fd].cpu /\ objs[id].mt = reg[fd].mt
  BY <1>1 DEF Registered, Staying, On, UseInv, RegInv, SharedInv
<1>5. \/ /\ reg' = Drop(reg, {fd}) /\ objs' = objs /\ c.n = 1
         /\ call'[t].pc = "unmap" /\ call'[t].fd = fd /\ call'[t].id = id
      \/ /\ reg' = [reg EXCEPT ![fd].ref = c.n - 1] /\ c.n - 1 >= 1
         /\ objs' = Drop(objs, {id}) /\ call'[t] = Idle
  <2>1. CASE IsLast(c.n)
    BY <1>1, <2>1 DEF DecWrite, Goto, ExactInv, TypeInv, CallsInv, CallOk, Holding, IsLast
  <2>2. CASE ~IsLast(c.n)
    BY <1>1, <2>2 DEF DecWrite, Return, ExactInv, TypeInv, CallsInv, IsLast
  <2>. QED  BY <2>1, <2>2
<1>6. /\ \A k : k # fd => (k \in DOMAIN reg' <=> k \in DOMAIN reg)
      /\ \A k \in DOMAIN reg : k # fd => k \in DOMAIN reg' /\ reg'[k] = reg[k]
      /\ fd \in DOMAIN reg' =>
           /\ reg'[fd].mfd = reg[fd].mfd /\ reg'[fd].cpu = reg[fd].cpu
           /\ reg'[fd].mt = reg[fd].mt /\ reg'[fd].ref = c.n - 1 /\ c.n - 1 >= 1
           /\ call'[t] = Idle
  <2>1. CASE reg' = Drop(reg, {fd})
    BY <2>1 DEF Drop
  <2>2. CASE reg' = [reg EXCEPT ![fd].ref = c.n - 1] /\ c.n - 1 >= 1 /\ call'[t] = Idle
    <3>1. reg[fd] \in Entries
      BY <1>4 DEF ExactInv, TypeInv, MapsTo
    <3>. QED  BY <1>4, <2>2, <3>1 DEF Entries
  <2>. QED  BY <1>5, <2>1, <2>2
<1>7. \A k : MapsKept(k)
  BY <1>2 DEF MapsKept
<1>8. RegInv'
  <2>1. ASSUME NEW k \in DOMAIN reg', k # fd
        PROVE  /\ k \in open'
               /\ reg'[k].mfd = MetaFd(k)
               /\ Usable(k, reg[k].cpu, reg[k].mt)'
               /\ RefOf(reg', k) >= 1
                  \/ \E s \in Threads : call'[s].pc \in {"inc", "incwrite"} /\ call'[s].fd = k
    <3>1. k \in DOMAIN reg /\ reg'[k] = reg[k] /\ k \in open'
      BY <1>2, <1>6, <2>1 DEF UseInv, RegInv
    <3>2. \A s \in Threads : call[s].pc \in {"inc", "incwrite"} /\ call[s].fd = k =>
            call'[s].pc \in {"inc", "incwrite"} /\ call'[s].fd = k
      BY <1>1, <1>2
    <3>. QED  BY <1>7, <2>1, <3>1, <3>2, RegOthers DEF UseInv
  <2>2. fd \in DOMAIN reg' => /\ fd \in open' /\ reg'[fd].mfd = MetaFd(fd)
                              /\ Usable(fd, reg[fd].cpu, reg[fd].mt)'
                              /\ RefOf(reg', fd) >= 1
    BY <1>2, <1>4, <1>6 DEF UseInv, RegInv, Usable, RefOf, Lookup, Registered
  <2>. QED  BY <2>1, <2>2 DEF RegInv
<1>9. \A x \in DOMAIN objs' : x \in DOMAIN objs /\ objs'[x] = objs[x]
  BY <1>5 DEF Drop
<1>10. MetaInv'
  <2>1. call'[t].pc \in {"idle", "unmap"}
        /\ (call'[t].pc = "unmap" => call'[t].fd \notin offered)
    BY <1>1, <1>5 DEF Idle
  <2>. QED  BY <1>2, <1>9, <2>1 DEF UseInv, MetaInv, Destroying, Importing, Carrying
<1>11. CarryInv'
  <2>1. CarryOk(t)'
    <3>1. CASE call'[t] = Idle
      BY <3>1 DEF CarryOk, Found, Carrying, Idle
    <3>2. CASE objs' = objs /\ call'[t].pc = "unmap" /\ call'[t].fd = fd /\ call'[t].id = id
      <4>1. Usable(fd, objs[id].cpu, objs[id].mt)'
        BY <1>2, <1>4, <3>2 DEF Usable
      <4>. QED  BY <3>2, <4>1 DEF CarryOk, Found, Carrying
    <3>. QED  BY <1>5, <3>1, <3>2
  <2>2. ASSUME NEW s \in Threads, s # t PROVE CarryOk(s)'
    <3>1. PICK k : k = call[s].fd
      OBVIOUS
    <3>2. call[s].pc \notin Quiet => k # fd
      BY <1>3, <2>2, <3>1
    <3>3. call[s].pc \notin Quiet =>
            /\ Registered(reg', k) <=> Registered(reg, k)
            /\ Registered(reg, k) => reg'[k] = reg[k]
      BY <1>6, <3>2 DEF Registered
    <3>4. On(k) = {} => On(k)' = {}
      BY <1>9 DEF On
    <3>5. call[s].pc # "idle" => Busy(k)' \subseteq Busy(k)
      BY <1>1, <1>2, <1>5 DEF Busy, Idle
    <3>6. call[s].pc = "unmap" => objs'[call[s].id] = objs[call[s].id]
      <4>. SUFFICES ASSUME call[s].pc = "unmap" PROVE objs'[call[s].id] = objs[call[s].id]
        OBVIOUS
      <4>1. call[s].id # id /\ call[s].id \in DOMAIN objs
        BY <1>1, <2>2, HoldsAlone DEF Holding, ExactInv, HasInv
      <4>. QED  BY <1>5, <4>1 DEF Drop
    <3>7. call'[s] = call[s]
      BY <1>2, <2>2
    <3>. QED  BY <1>7, <3>1, <3>3, <3>4, <3>5, <3>6, <3>7, CarryOthers DEF UseInv, Quiet
  <2>. QED  BY <2>1, <2>2 DEF CarryInv
<1>12. SharedInv'
  <2>1. Leaving \subseteq Leaving'
    BY <1>1, <1>2 DEF Leaving
  <2>2. \A x \in DOMAIN objs \ Leaving : Registered(reg, objs[x].fd)
    BY StayingRegistered DEF Ordered
  <2>3. ASSUME NEW x \in DOMAIN objs', x \notin Leaving'
        PROVE  objs'[x].cpu = reg'[objs'[x].fd].cpu /\ objs'[x].mt = reg'[objs'[x].fd].mt
    <3>1. /\ x \in DOMAIN objs \ Leaving /\ objs'[x] = objs[x]
          /\ objs[x].fd \in DOMAIN reg
          /\ objs[x].cpu = reg[objs[x].fd].cpu /\ objs[x].mt = reg[objs[x].fd].mt
      BY <1>9, <2>1, <2>2, <2>3 DEF Registered, UseInv, SharedInv
    <3>2. objs[x].fd = fd => fd \in DOMAIN reg'
      <4>1. CASE reg' = Drop(reg, {fd}) /\ c.n = 1 /\ call'[t].pc = "unmap"
                  /\ call'[t].id = id
        <5>. SUFFICES ASSUME objs[x].fd = fd PROVE FALSE
          OBVIOUS
        <5>1. x # id
          BY <2>3, <4>1 DEF Leaving
        <5>2. x \in Staying(fd) /\ id \in Staying(fd)
          BY <1>1, <3>1 DEF Staying, On
        <5>. QED  BY <1>1, <4>1, <5>1, <5>2, TwoStay DEF Ordered
      <4>2. CASE reg' = [reg EXCEPT ![fd].ref = c.n - 1]
        BY <1>4, <4>2
      <4>. QED  BY <1>5, <4>1, <4>2
    <3>. QED  BY <1>6, <3>1, <3>2
  <2>. QED  BY <2>3 DEF SharedInv
<1>. QED  BY <1>8, <1>10, <1>11, <1>12 DEF UseInv

\* Descriptors of different buffers are different.
LEMMA OtherFds ==
  ASSUME NEW k \in Fds, NEW fd \in Fds
  PROVE  MetaFd(k) # fd /\ (k # fd => MetaFd(k) # MetaFd(fd))
BY ConcurrentAssumption DEF MetaFd

LEMMA UnmapUse ==
  ASSUME Ordered, ExactInv, UseInv, NEW t \in Threads, Unmap(t)
  PROVE  UseInv'
<1>. DEFINE c == call[t]
            o == objs[c.id]
<1>1. /\ c.pc = "unmap" /\ CallOk(c) /\ c.fd \in Fds /\ ~Registered(reg, c.fd)
      /\ c.fd \notin offered /\ Usable(c.fd, o.cpu, o.mt)
  BY DEF Unmap, At, ExactInv, TypeInv, CallsInv, CallOk, EntryInv, EntryOk, Holding,
         UseInv, MetaInv, Destroying, CarryInv, CarryOk
<1>. PICK fd \in Fds : fd = c.fd
  BY <1>1
<1>2. /\ call'[t].pc = "close" /\ call'[t].fd = fd
      /\ \A s \in Threads : s # t => call'[s] = call[s]
  BY <1>1 DEF Unmap, Goto, ExactInv, TypeInv, CallsInv, CallOk
<1>3. /\ reg' = reg /\ objs' = objs /\ open' = open /\ offered' = offered
      /\ maps' = Drop(maps, {o.cpu, o.mt})
  BY DEF Unmap, UnmapOwn
<1>4. ASSUME NEW s \in Threads, s # t, call[s].pc \notin Quiet PROVE call[s].fd # fd
  <2>1. CASE call[s].pc = "unmap"
    BY <1>1, <1>4, <2>1 DEF ExactInv, AloneInv, Closing
  <2>2. CASE call[s].pc # "unmap"
    <3>1. s \notin Destroying /\ call[s].pc # "idle" /\ t \in Destroying
      BY <1>1, <1>4, <2>2 DEF Quiet, Destroying
    <3>. QED  BY <3>1, AloneOn DEF ExactInv
  <2>. QED  BY <2>1, <2>2
<1>5. ASSUME NEW k \in Fds, k # fd PROVE MapsKept(k)
  <2>1. \A a \in DOMAIN maps : maps[a] \in {k, MetaFd(k)} => a \notin {o.cpu, o.mt}
    BY <1>1, <1>5, OtherFds DEF Usable
  <2>. QED  BY <1>3, <2>1 DEF MapsKept, Drop
<1>6. RegInv'
  <2>. SUFFICES ASSUME NEW k \in DOMAIN reg
                PROVE  /\ k \in open'
                       /\ reg'[k].mfd = MetaFd(k)
                       /\ Usable(k, reg[k].cpu, reg[k].mt)'
                       /\ RefOf(reg', k) >= 1
                          \/ \E s \in Threads : call'[s].pc \in {"inc", "incwrite"}
                                                /\ call'[s].fd = k
    BY <1>3 DEF RegInv
  <2>1. k \in Fds /\ k # fd
    BY <1>1 DEF Registered, ExactInv, TypeInv, MapsTo
  <2>2. \A s \in Threads : call[s].pc \in {"inc", "incwrite"} /\ call[s].fd = k =>
          call'[s].pc \in {"inc", "incwrite"} /\ call'[s].fd = k
    BY <1>1, <1>2
  <2>3. MapsKept(k) /\ k \in open'
    BY <1>3, <1>5, <2>1 DEF UseInv, RegInv
  <2>. QED  BY <1>3, <2>2, <2>3, RegOthers DEF UseInv
<1>7. MetaInv'
  BY <1>1, <1>2, <1>3 DEF UseInv, MetaInv, Destroying, Importing, Carrying
<1>8. CarryInv'
  <2>1. CarryOk(t)'
    BY <1>2 DEF CarryOk, Found, Carrying
  <2>2. ASSUME NEW s \in Threads, s # t PROVE CarryOk(s)'
    <3>1. PICK k : k = call[s].fd
      OBVIOUS
    <3>2. call[s].pc \notin Quiet => k \in Fds /\ k # fd
      BY <1>4, <2>2, <3>1 DEF ExactInv, TypeInv, CallsInv, CallOk, Quiet
    <3>3. call[s].pc \notin Quiet => MapsKept(k)
      BY <1>5, <3>2
    <3>4. On(k)' = On(k) /\ Busy(k)' \subseteq Busy(k)
      BY <1>1, <1>2, <1>3 DEF On, Busy
    <3>5. call'[s] = call[s]
      BY <1>2, <2>2
    <3>. QED  BY <1>3, <3>1, <3>3, <3>4, <3>5, CarryOthers DEF UseInv
  <2>. QED  BY <2>1, <2>2 DEF CarryInv
<1>9. SharedInv'
  <2>1. Leaving' = Leaving
    <3>1. call'[t].id = call[t].id
      BY <1>1 DEF Unmap, Goto, ExactInv, TypeInv, CallsInv, CallOk, Holding
    <3>. QED  BY <1>1, <1>2, <3>1 DEF Leaving
  <2>. QED  BY <1>3, <2>1 DEF UseInv, SharedInv
<1>. QED  BY <1>6, <1>7, <1>8, <1>9 DEF UseInv

\* A step that closes descriptors nobody uses and touches nothing else.
LEMMA RegClosing ==
  ASSUME RegInv, reg' = reg, maps' = maps, \A k \in DOMAIN reg : k \in open',
         \A s \in Threads : call[s].pc \in {"inc", "incwrite"} => call'[s] = call[s]
  PROVE  RegInv'
<1>. SUFFICES ASSUME NEW k \in DOMAIN reg
              PROVE  /\ k \in open'
                     /\ reg'[k].mfd = MetaFd(k)
                     /\ Usable(k, reg[k].cpu, reg[k].mt)'
                     /\ RefOf(reg', k) >= 1
                        \/ \E s \in Threads : call'[s].pc \in {"inc", "incwrite"}
                                              /\ call'[s].fd = k
  BY DEF RegInv
<1>1. MapsKept(k)
  BY DEF MapsKept
<1>2. \A s \in Threads : call[s].pc \in {"inc", "incwrite"} /\ call[s].fd = k =>
        call'[s].pc \in {"inc", "incwrite"} /\ call'[s].fd = k
  OBVIOUS
<1>. QED  BY <1>1, <1>2, RegOthers

LEMMA CloseDataUse ==
  ASSUME Ordered, ExactInv, UseInv, NEW t \in Threads, CloseData(t)
  PROVE  UseInv'
<1>. DEFINE c == call[t]
            d == [pc |-> "closemeta", fd |-> c.fd, id |-> c.id, mfd |-> objs[c.id].mfd]
<1>1. /\ c.pc = "close" /\ c.fd \in Fds /\ c.fd \notin offered /\ ~Registered(reg, c.fd)
      /\ c.id \in DOMAIN objs /\ objs[c.id].fd = c.fd /\ objs[c.id].mfd = MetaFd(c.fd)
      /\ MetaFd(c.fd) \in open
  BY DEF CloseData, At, ExactInv, TypeInv, CallsInv, CallOk, EntryInv, EntryOk, HasInv, Holding,
         UseInv, MetaInv, Destroying
<1>. PICK fd \in Fds, id \in {c.id} : fd = c.fd /\ id = c.id
  BY <1>1
<1>2. /\ call' = [call EXCEPT ![t] = d] /\ d.pc = "closemeta" /\ d.fd = fd /\ d.id = id
      /\ d.mfd = MetaFd(fd)
      /\ objs' = Drop(objs, {id}) /\ open' = open \ {fd}
      /\ reg' = reg /\ maps' = maps /\ offered' = offered
  BY <1>1 DEF CloseData
<1>. HIDE DEF d
<1>3. call'[t] = d /\ \A s \in Threads : s # t => call'[s] = call[s]
  BY <1>2 DEF ExactInv, TypeInv, CallsInv
<1>4. \A s \in Threads : call[s].pc # "idle" => call[s].fd \in Fds
  BY DEF ExactInv, TypeInv, CallsInv, CallOk
<1>5. \A x \in DOMAIN objs' : x \in DOMAIN objs /\ objs'[x] = objs[x] /\ objs[x].fd \in Fds
  BY <1>2 DEF Drop, ExactInv, TypeInv, MapsTo, Objects
<1>6. \A k \in Fds : MetaFd(k) \in open' <=> MetaFd(k) \in open
  BY <1>2, OtherFds
<1>7. RegInv'
  <2>1. \A k \in DOMAIN reg : k \in open'
    BY <1>1, <1>2 DEF Registered, UseInv, RegInv
  <2>2. \A s \in Threads : call[s].pc \in {"inc", "incwrite"} => call'[s] = call[s]
    BY <1>1, <1>3
  <2>. QED  BY <1>2, <2>1, <2>2, RegClosing DEF UseInv
<1>8. MetaInv'
  <2>1. \A x \in DOMAIN objs' : objs'[x].mfd = MetaFd(objs'[x].fd)
                                /\ MetaFd(objs'[x].fd) \in open'
    BY <1>5, <1>6 DEF UseInv, MetaInv
  <2>2. \A k \in offered : k \in open' /\ MetaFd(k) \in open'
    <3>1. offered \subseteq Fds
      BY DEF ExactInv, TypeInv
    <3>. QED  BY <1>1, <1>2, <1>6, <3>1 DEF UseInv, MetaInv
  <2>3. /\ fd \notin open' /\ MetaFd(fd) \in open'
        /\ call'[t].pc = "closemeta" /\ call'[t].fd = fd /\ call'[t].mfd = MetaFd(fd)
    BY <1>1, <1>2, <1>3, <1>6
  <2>4. ASSUME NEW s \in Threads, s # t
        PROVE  /\ call'[s].pc \in Importing => MetaFd(call'[s].fd) \in open'
               /\ s \in Destroying' => call'[s].fd \notin offered
               /\ call'[s].pc = "closemeta" =>
                    /\ call'[s].fd \notin open' /\ MetaFd(call'[s].fd) \in open'
                    /\ call'[s].mfd = MetaFd(call'[s].fd)
    <3>1. call'[s] = call[s] /\ (call[s].pc # "idle" => call[s].fd \in Fds)
      BY <1>3, <1>4, <2>4
    <3>2. call[s].pc # "idle" => (MetaFd(call[s].fd) \in open' <=> MetaFd(call[s].fd) \in open)
      BY <1>6, <3>1
    <3>. QED  BY <1>2, <3>1, <3>2 DEF UseInv, MetaInv, Importing, Carrying, Destroying
  <2>5. /\ call'[t].pc \in Importing => MetaFd(call'[t].fd) \in open'
        /\ t \in Destroying' => call'[t].fd \notin offered
        /\ call'[t].pc = "closemeta" =>
             /\ call'[t].fd \notin open' /\ MetaFd(call'[t].fd) \in open'
             /\ call'[t].mfd = MetaFd(call'[t].fd)
    BY <1>1, <2>3 DEF Importing, Carrying
  <2>6. offered' = offered
    BY <1>2
  <2>7. \A s \in Threads : s # t /\ call'[s].pc = "closemeta" => call'[s].fd # fd
    <3>1. fd \in open
      BY <1>1 DEF ExactInv, OpenInv
    <3>. QED  BY <1>3, <3>1 DEF UseInv, MetaInv
  <2>8. \A r, s \in Threads :
          r # s /\ call'[r].pc = "closemeta" /\ call'[s].pc = "closemeta" =>
            call'[r].fd # call'[s].fd
    BY <1>3, <2>3, <2>7 DEF UseInv, MetaInv
  <2>. QED  BY <2>1, <2>2, <2>4, <2>5, <2>6, <2>8 DEF MetaInv
<1>9. CarryInv'
  <2>1. CarryOk(t)'
    BY <1>2, <1>3 DEF CarryOk, Found, Carrying
  <2>2. ASSUME NEW s \in Threads, s # t PROVE CarryOk(s)'
    <3>1. PICK k : k = call[s].fd
      OBVIOUS
    <3>2. MapsKept(k) /\ (On(k) = {} => On(k)' = {}) /\ Busy(k)' \subseteq Busy(k)
      BY <1>1, <1>2, <1>3, <1>5 DEF MapsKept, On, Busy
    <3>3. call[s].pc = "unmap" => objs'[call[s].id] = objs[call[s].id]
      <4>. SUFFICES ASSUME call[s].pc = "unmap" PROVE objs'[call[s].id] = objs[call[s].id]
        OBVIOUS
      <4>1. call[s].id # id /\ call[s].id \in DOMAIN objs
        BY <1>1, <2>2, HoldsAlone DEF Holding, ExactInv, HasInv
      <4>. QED  BY <1>2, <4>1 DEF Drop
    <3>4. call'[s] = call[s]
      BY <1>3, <2>2
    <3>. QED  BY <1>2, <3>1, <3>2, <3>3, <3>4, CarryOthers DEF UseInv
  <2>. QED  BY <2>1, <2>2 DEF CarryInv
<1>10. SharedInv'
  <2>1. Leaving \ {id} \subseteq Leaving' /\ id \notin DOMAIN objs'
    BY <1>2, <1>3 DEF Leaving, Drop
  <2>. SUFFICES ASSUME NEW x \in DOMAIN objs', x \notin Leaving'
                PROVE  /\ objs'[x].cpu = reg'[objs'[x].fd].cpu
                       /\ objs'[x].mt = reg'[objs'[x].fd].mt
    BY DEF SharedInv
  <2>2. x \in DOMAIN objs \ Leaving /\ objs'[x] = objs[x]
    BY <1>5, <2>1
  <2>. QED  BY <1>2, <2>2 DEF UseInv, SharedInv
<1>. QED  BY <1>7, <1>8, <1>9, <1>10 DEF UseInv

LEMMA CloseMetaUse ==
  ASSUME Ordered, ExactInv, UseInv, NEW t \in Threads, CloseMeta(t)
  PROVE  UseInv'
<1>1. /\ call[t].pc = "closemeta" /\ call[t].fd \in Fds
      /\ call[t].fd \notin open /\ call[t].mfd = MetaFd(call[t].fd)
  BY DEF CloseMeta, At, ExactInv, TypeInv, CallsInv, CallOk, UseInv, MetaInv
<1>. PICK fd \in Fds : fd = call[t].fd
  BY <1>1
<1>2. /\ call'[t] = Idle /\ open' = open \ {MetaFd(fd)}
      /\ \A s \in Threads : s # t => call'[s] = call[s]
      /\ reg' = reg /\ maps' = maps /\ objs' = objs /\ offered' = offered
  BY <1>1 DEF CloseMeta, Return, ExactInv, TypeInv, CallsInv
<1>3. \A k \in Fds : /\ k \in open' <=> k \in open
                     /\ k # fd => (MetaFd(k) \in open' <=> MetaFd(k) \in open)
  BY <1>2, OtherFds
<1>4. RegInv'
  <2>1. \A k \in DOMAIN reg : k \in open'
    BY <1>3 DEF UseInv, RegInv, ExactInv, TypeInv, MapsTo
  <2>2. \A s \in Threads : call[s].pc \in {"inc", "incwrite"} => call'[s] = call[s]
    BY <1>1, <1>2
  <2>. QED  BY <1>2, <2>1, <2>2, RegClosing DEF UseInv
<1>5. MetaInv'
  <2>1. \A x \in DOMAIN objs : objs[x].mfd = MetaFd(objs[x].fd) /\ MetaFd(objs[x].fd) \in open'
    <3>. SUFFICES ASSUME NEW x \in DOMAIN objs
                  PROVE  objs[x].mfd = MetaFd(objs[x].fd) /\ MetaFd(objs[x].fd) \in open'
      OBVIOUS
    <3>1. objs[x].fd \in Fds /\ objs[x].fd # fd
      BY <1>1 DEF ExactInv, TypeInv, MapsTo, Objects, OpenInv
    <3>. QED  BY <1>3, <3>1 DEF UseInv, MetaInv
  <2>2. \A k \in offered : k \in open' /\ MetaFd(k) \in open'
    <3>1. \A k \in offered : k \in Fds /\ k # fd
      BY <1>1 DEF UseInv, MetaInv, ExactInv, TypeInv
    <3>. QED  BY <1>3, <3>1 DEF UseInv, MetaInv
  <2>3. ASSUME NEW s \in Threads, s # t
        PROVE  /\ call[s].pc \in Importing => MetaFd(call[s].fd) \in open'
               /\ s \in Destroying => call[s].fd \notin offered
               /\ call[s].pc = "closemeta" =>
                    /\ call[s].fd \notin open' /\ MetaFd(call[s].fd) \in open'
                    /\ call[s].mfd = MetaFd(call[s].fd)
    <3>1. call[s].pc # "idle" => call[s].fd \in Fds
      BY DEF ExactInv, TypeInv, CallsInv, CallOk
    <3>2. call[s].pc \in Importing \cup {"closemeta"} => call[s].fd # fd
      BY <1>1, <2>3 DEF ExactInv, OpenInv, UseInv, MetaInv
    <3>. QED  BY <1>3, <3>1, <3>2 DEF UseInv, MetaInv, Importing, Carrying, Destroying
  <2>4. \A r, s \in Threads :
          r # s /\ call'[r].pc = "closemeta" /\ call'[s].pc = "closemeta" =>
            call'[r].fd # call'[s].fd
    BY <1>2 DEF UseInv, MetaInv, Idle
  <2>5. ASSUME NEW s \in Threads
        PROVE  /\ call'[s].pc \in Importing => MetaFd(call'[s].fd) \in open'
               /\ s \in Destroying' => call'[s].fd \notin offered'
               /\ call'[s].pc = "closemeta" =>
                    /\ call'[s].fd \notin open' /\ MetaFd(call'[s].fd) \in open'
                    /\ call'[s].mfd = MetaFd(call'[s].fd)
    <3>1. CASE s = t
      BY <1>2, <3>1 DEF Importing, Carrying, Destroying, Idle
    <3>2. CASE s # t
      BY <1>2, <2>3, <3>2 DEF Destroying
    <3>. QED  BY <3>1, <3>2
  <2>. QED  BY <1>2, <2>1, <2>2, <2>4, <2>5 DEF MetaInv
<1>6. CarryInv'
  <2>1. CarryOk(t)'
    BY <1>2 DEF CarryOk, Found, Carrying, Idle
  <2>2. ASSUME NEW s \in Threads, s # t PROVE CarryOk(s)'
    <3>1. PICK k : k = call[s].fd
      OBVIOUS
    <3>2. MapsKept(k) /\ On(k)' = On(k) /\ Busy(k)' \subseteq Busy(k)
      BY <1>1, <1>2 DEF MapsKept, On, Busy, Idle
    <3>3. call'[s] = call[s] /\ objs'[call[s].id] = objs[call[s].id]
      BY <1>2, <2>2
    <3>. QED  BY <1>2, <3>1, <3>2, <3>3, CarryOthers DEF UseInv
  <2>. QED  BY <2>1, <2>2 DEF CarryInv
<1>7. SharedInv'
  <2>1. Leaving' = Leaving
    BY <1>1, <1>2 DEF Leaving, Idle
  <2>. QED  BY <1>2, <2>1 DEF UseInv, SharedInv
<1>. QED  BY <1>4, <1>5, <1>6, <1>7 DEF UseInv

LEMMA WithdrawUse ==
  ASSUME Ordered, ExactInv, UseInv, NEW fd \in Fds, Withdraw(fd)
  PROVE  UseInv'
<1>1. /\ reg' = reg /\ maps' = maps /\ objs' = objs /\ call' = call
      /\ Busy(fd) = {} /\ offered' = offered \ {fd}
      /\ open' = IF On(fd) = {} THEN open \ {fd, MetaFd(fd)} ELSE open
  BY DEF Withdraw
<1>2. \A k \in Fds : k # fd \/ On(fd) # {} =>
        /\ k \in open' <=> k \in open
        /\ MetaFd(k) \in open' <=> MetaFd(k) \in open
  BY <1>1, OtherFds
<1>3. On(fd) = {} => ~Registered(reg, fd)
  <2>. SUFFICES ASSUME On(fd) = {} PROVE ~Registered(reg, fd)
    OBVIOUS
  <2>1. Staying(fd) = {} /\ Counted(fd) = {} /\ fd \in offered
    BY <1>1 DEF Withdraw, Staying, Counted, Busy
  <2>2. RefOf(reg, fd) = 0
    <3>1. RefOf(reg, fd) = Cardinality(Staying(fd)) + Cardinality(Counted(fd))
      BY <2>1 DEF ExactInv, CountInv
    <3>. QED  BY <2>1, <3>1, FS_EmptySet
  <2>3. \A s \in Threads : ~(call[s].pc \in {"inc", "incwrite"} /\ call[s].fd = fd)
    BY <1>1 DEF Busy
  <2>. QED  BY <2>2, <2>3 DEF UseInv, RegInv, Registered
<1>4. RegInv'
  <2>1. \A k \in DOMAIN reg : k \in open'
    BY <1>2, <1>3 DEF Registered, UseInv, RegInv, ExactInv, TypeInv, MapsTo
  <2>. QED  BY <1>1, <2>1, RegClosing DEF UseInv
<1>5. MetaInv'
  <2>1. ASSUME NEW x \in DOMAIN objs
        PROVE  objs[x].mfd = MetaFd(objs[x].fd) /\ MetaFd(objs[x].fd) \in open'
    <3>1. objs[x].fd \in Fds /\ (objs[x].fd # fd \/ On(fd) # {})
      BY DEF ExactInv, TypeInv, MapsTo, Objects, On
    <3>. QED  BY <1>2, <3>1 DEF UseInv, MetaInv
  <2>2. \A k \in offered' : k \in open' /\ MetaFd(k) \in open'
    BY <1>1, <1>2 DEF UseInv, MetaInv, ExactInv, TypeInv
  <2>3. ASSUME NEW s \in Threads
        PROVE  /\ call[s].pc \in Importing => MetaFd(call[s].fd) \in open'
               /\ s \in Destroying => call[s].fd \notin offered'
               /\ call[s].pc = "closemeta" =>
                    /\ call[s].fd \notin open' /\ MetaFd(call[s].fd) \in open'
                    /\ call[s].mfd = MetaFd(call[s].fd)
    <3>1. call[s].pc # "idle" => call[s].fd \in Fds /\ call[s].fd # fd
      BY <1>1 DEF Busy, ExactInv, TypeInv, CallsInv, CallOk
    <3>. QED  BY <1>1, <1>2, <3>1 DEF UseInv, MetaInv, Importing, Carrying, Destroying
  <2>4. Destroying' = Destroying
    BY <1>1 DEF Destroying
  <2>5. \A r, s \in Threads :
          r # s /\ call[r].pc = "closemeta" /\ call[s].pc = "closemeta" => call[r].fd # call[s].fd
    BY DEF UseInv, MetaInv
  <2>. QED  BY <1>1, <2>1, <2>2, <2>3, <2>4, <2>5 DEF MetaInv
<1>6. CarryInv' /\ SharedInv'
  <2>1. \A k : On(k)' = On(k) /\ Busy(k)' = Busy(k)
    BY <1>1 DEF On, Busy
  <2>2. Leaving' = Leaving
    BY <1>1 DEF Leaving
  <2>3. ASSUME NEW s \in Threads PROVE CarryOk(s)'
    <3>1. PICK k : k = call[s].fd
      OBVIOUS
    <3>2. MapsKept(k) /\ On(k)' = On(k) /\ Busy(k)' = Busy(k)
      BY <1>1, <2>1 DEF MapsKept
    <3>3. call'[s] = call[s] /\ objs'[call[s].id] = objs[call[s].id]
      BY <1>1
    <3>. QED  BY <1>1, <3>1, <3>2, <3>3, CarryOthers DEF UseInv
  <2>. QED  BY <1>1, <2>2, <2>3 DEF UseInv, CarryInv, SharedInv
<1>. QED  BY <1>4, <1>5, <1>6 DEF UseInv

LEMMA StepUse == ASSUME Ordered, ExactInv, UseInv, ExactInv', [Next]_vars PROVE UseInv'
<1>1. CASE UNCHANGED vars
  <2>1. /\ reg' = reg /\ maps' = maps /\ objs' = objs /\ call' = call
        /\ open' = open /\ offered' = offered
    BY <1>1 DEF vars
  <2>2. RegInv' /\ MetaInv'
    BY <2>1, RegClosing DEF UseInv, RegInv, MetaInv, Destroying
  <2>3. \A k : On(k)' = On(k) /\ Busy(k)' = Busy(k)
    BY <2>1 DEF On, Busy
  <2>4. ASSUME NEW s \in Threads PROVE CarryOk(s)'
    <3>1. PICK k : k = call[s].fd
      OBVIOUS
    <3>2. MapsKept(k) /\ On(k)' = On(k) /\ Busy(k)' = Busy(k)
      BY <2>1, <2>3 DEF MapsKept
    <3>3. call'[s] = call[s] /\ objs'[call[s].id] = objs[call[s].id]
      BY <2>1
    <3>. QED  BY <2>1, <3>1, <3>2, <3>3, CarryOthers DEF UseInv
  <2>5. Leaving' = Leaving
    BY <2>1 DEF Leaving
  <2>. QED  BY <2>1, <2>2, <2>4, <2>5 DEF UseInv, CarryInv, SharedInv
<1>2. ASSUME NEW t \in Threads, NEW fd \in Fds, BoCreate(t, fd) PROVE UseInv'
  BY <1>2, BoCreateUse
<1>3. ASSUME NEW t \in Threads, ImportStep(t) PROVE UseInv'
  <2>1. CASE \E op \in Ops, fd \in Fds : ImportCall(t, op, fd)
    BY <2>1, ImportCallUse
  <2>2. CASE Search(t) \/ MapMissing(t) \/ LockAndEnter(t)
    BY <2>2, SearchUse, MapMissingUse, LockUse
  <2>3. CASE IncRead(t) \/ IncWrite(t) \/ Alloc(t)
    BY <2>3, IncReadUse, IncWriteUse, AllocUse
  <2>. QED  BY <1>3, <2>1, <2>2, <2>3 DEF ImportStep
<1>4. ASSUME NEW t \in Threads, DestroyStep(t) PROVE UseInv'
  <2>1. CASE \E id \in DOMAIN objs : DestroyCall(t, id)
    BY <2>1, DestroyCallUse
  <2>2. CASE DecRead(t) \/ DecWrite(t)
    BY <2>2, DecReadUse, DecWriteUse
  <2>3. CASE Unmap(t) \/ CloseData(t) \/ CloseMeta(t)
    BY <2>3, UnmapUse, CloseDataUse, CloseMetaUse
  <2>. QED  BY <1>4, <2>1, <2>2, <2>3 DEF DestroyStep
<1>5. ASSUME NEW fd \in Fds, Withdraw(fd) PROVE UseInv'
  BY <1>5, WithdrawUse
<1>. QED  BY <1>1, <1>2, <1>3, <1>4, <1>5 DEF Next

\* If the client lets no destroy run beside an import on its fd, and the first import
\* of a received fd run alone, the descriptors of an object that is not being given
\* back stay open and its addresses stay mapped to its buffer, while its fd is
\* imported by several threads at once, or objects next to it are destroyed by
\* several at once: destroys that race on a count (msmgbm_mapper.h:74) may leave it
\* too high, never too low.
THEOREM ObjectsUsable == ASSUME Ordered PROVE Spec => []LiveUsable
<1>1. Init => ExactInv /\ UseInv
  BY InitExact, InitUse DEF Ordered
<1>2. ExactInv /\ UseInv /\ [Next]_vars => (ExactInv /\ UseInv)'
  BY StepExact, StepUse DEF Ordered
<1>3. ExactInv /\ UseInv => LiveUsable
  BY UseEnough DEF Ordered
<1>. QED  BY <1>1, <1>2, <1>3, PTL DEF Spec

-----------------------------------------------------------------------------
(* What is left behind.                                                    *)

\* Every open descriptor is an object's, an offered one's or about to be closed.
OpenedInv ==
  \A fd \in Fds :
    /\ fd \in open => On(fd) # {} \/ fd \in offered
    /\ MetaFd(fd) \in open =>
         fd \in open \/ \E t \in Threads : call[t].pc = "closemeta" /\ call[t].fd = fd

\* Every mapping is an entry's, an import's that is about to register it, or a
\* destroyer's that is about to unmap it.
Carried(t) ==
  CASE call[t].pc = "lock" -> {call[t].cpu, call[t].mt}
    [] call[t].pc = "unmap" -> {objs[call[t].id].cpu, objs[call[t].id].mt}
    [] OTHER -> {}
Owned(a) ==
  \/ \E fd \in DOMAIN reg : a \in {reg[fd].cpu, reg[fd].mt}
  \/ \E t \in Threads : a \in Carried(t)

OwnedInv == \A a \in DOMAIN maps : Owned(a)

LeftInv == OpenedInv /\ OwnedInv

LEMMA InitLeft == ASSUME Init PROVE LeftInv
<1>1. OwnedInv
  BY DEF Init, OwnedInv, EmptyMap
<1>2. ASSUME NEW fd \in Fds
      PROVE  /\ fd \in open => fd \in offered
             /\ MetaFd(fd) \in open => fd \in open
  <2>1. Offered \subseteq Fds
    BY ConcurrentAssumption
  <2>. QED  BY <2>1, OtherFds DEF Init
<1>. QED  BY <1>1, <1>2 DEF LeftInv, OpenedInv

LEMMA LeftEnough == ASSUME Orderly, ExactInv, UseInv, LeftInv PROVE NoLeak
<1>. SUFFICES ASSUME objs = EmptyMap, offered = {}, \A t \in Threads : At(t, "idle")
              PROVE  open = {} /\ maps = EmptyMap /\ reg = EmptyMap
  BY DEF NoLeak
<1>1. \A fd \in Fds : On(fd) = {} /\ fd \notin open
  BY DEF On, EmptyMap, LeftInv, OpenedInv
<1>2. \A fd \in Fds : MetaFd(fd) \notin open
  BY <1>1 DEF LeftInv, OpenedInv, At
<1>3. open = {}
  BY <1>1, <1>2 DEF ExactInv, TypeInv, AllFds
<1>4. DOMAIN reg = {}
  BY <1>3 DEF UseInv, RegInv
<1>5. DOMAIN maps = {}
  BY <1>4 DEF LeftInv, OwnedInv, Owned, Carried, At
<1>. QED  BY <1>3, <1>4, <1>5 DEF EmptyMap, ExactInv, TypeInv, MapsTo

\* A step that opens and closes nothing and takes the last object of no descriptor.
LEMMA OpenedSame ==
  ASSUME OpenedInv, open' = open, offered' = offered,
         \A fd \in Fds : On(fd) # {} => On(fd)' # {},
         \A t \in Threads : call[t].pc = "closemeta" => call'[t] = call[t]
  PROVE  OpenedInv'
BY DEF OpenedInv

\* A step that maps nothing, drops no entry and is not of a thread that owns mappings.
LEMMA OwnedSame ==
  ASSUME OwnedInv, DOMAIN maps' \subseteq DOMAIN maps,
         \A k \in DOMAIN reg : /\ k \in DOMAIN reg'
                               /\ reg'[k].cpu = reg[k].cpu /\ reg'[k].mt = reg[k].mt,
         \A t \in Threads : Carried(t) \subseteq Carried(t)'
  PROVE  OwnedInv'
<1>. SUFFICES ASSUME NEW a \in DOMAIN maps PROVE Owned(a)'
  BY DEF OwnedInv
<1>1. CASE \E fd \in DOMAIN reg : a \in {reg[fd].cpu, reg[fd].mt}
  BY <1>1 DEF Owned
<1>2. CASE \E t \in Threads : a \in Carried(t)
  BY <1>2 DEF Owned
<1>. QED  BY <1>1, <1>2 DEF OwnedInv, Owned

LEMMA CarriedSame ==
  ASSUME NEW s \in Threads, call'[s] = call[s],
         call[s].pc = "unmap" => objs'[call[s].id] = objs[call[s].id]
  PROVE  Carried(s)' = Carried(s)
BY DEF Carried

\* The steps of an import or of a destroy that own no mapping and close nothing.
LEMMA PassingLeft ==
  ASSUME ExactInv, LeftInv, NEW t \in Threads, open' = open, offered' = offered,
         DOMAIN maps' \subseteq DOMAIN maps,
         \A s \in Threads : s # t => call'[s] = call[s],
         call[t].pc \notin {"lock", "unmap", "closemeta"},
         \A x \in DOMAIN objs : x \in DOMAIN objs' /\ objs'[x] = objs[x],
         \A k \in DOMAIN reg : /\ k \in DOMAIN reg'
                               /\ reg'[k].cpu = reg[k].cpu /\ reg'[k].mt = reg[k].mt
  PROVE  LeftInv'
<1>1. OpenedInv'
  <2>1. \A fd \in Fds : On(fd) # {} => On(fd)' # {}
    BY DEF On
  <2>2. \A s \in Threads : call[s].pc = "closemeta" => call'[s] = call[s]
    OBVIOUS
  <2>. QED  BY <2>1, <2>2, OpenedSame DEF LeftInv
<1>2. OwnedInv'
  <2>1. ASSUME NEW s \in Threads PROVE Carried(s) \subseteq Carried(s)'
    <3>1. CASE s = t
      BY <3>1 DEF Carried
    <3>2. CASE s # t
      <4>1. call[s].pc = "unmap" => objs'[call[s].id] = objs[call[s].id]
        BY DEF ExactInv, HasInv, Holding
      <4>. QED  BY <3>2, <4>1, CarriedSame
    <3>. QED  BY <3>1, <3>2
  <2>. QED  BY <2>1, OwnedSame DEF LeftInv
<1>. QED  BY <1>1, <1>2 DEF LeftInv

LEMMA LooksLeft ==
  ASSUME ExactInv, LeftInv, NEW t \in Threads,
         \/ \E op \in Ops, fd \in Fds : ImportCall(t, op, fd)
         \/ Search(t) \/ IncRead(t)
         \/ \E id \in DOMAIN objs : DestroyCall(t, id)
         \/ DecRead(t)
  PROVE  LeftInv'
<1>1. /\ reg' = reg /\ maps' = maps /\ objs' = objs /\ open' = open /\ offered' = offered
      /\ call[t].pc \notin {"lock", "unmap", "closemeta"}
  BY DEF ImportCall, Search, IncRead, DestroyCall, DecRead, At
<1>2. \A s \in Threads : s # t => call'[s] = call[s]
  BY DEF ImportCall, Search, IncRead, DestroyCall, DecRead, Goto, ExactInv, TypeInv, CallsInv
<1>. QED  BY <1>1, <1>2, PassingLeft

LEMMA IncWriteLeft ==
  ASSUME Orderly, ExactInv, LeftInv, NEW t \in Threads, IncWrite(t)
  PROVE  LeftInv'
<1>1. /\ maps' = maps /\ objs' = objs /\ open' = open /\ offered' = offered
      /\ call[t].pc = "incwrite" /\ Registered(reg, call[t].fd)
      /\ \A s \in Threads : s # t => call'[s] = call[s]
  BY DEF IncWrite, At, Goto, ExactInv, TypeInv, CallsInv, EntryInv, EntryOk
<1>2. reg' = [reg EXCEPT ![call[t].fd].ref = call[t].n + 1]
  BY <1>1 DEF IncWrite
<1>3. \A k \in DOMAIN reg : /\ k \in DOMAIN reg'
                            /\ reg'[k].cpu = reg[k].cpu /\ reg'[k].mt = reg[k].mt
  BY <1>2 DEF ExactInv, TypeInv, MapsTo, Entries
<1>. QED  BY <1>1, <1>3, PassingLeft

LEMMA AllocLeft ==
  ASSUME ExactInv, LeftInv, NEW t \in Threads, Alloc(t)
  PROVE  LeftInv'
<1>1. /\ maps' = maps /\ reg' = reg /\ open' = open /\ offered' = offered
      /\ call[t].pc = "alloc"
      /\ \A s \in Threads : s # t => call'[s] = call[s]
  BY DEF Alloc, At, Return, ExactInv, TypeInv, CallsInv
<1>2. \A x \in DOMAIN objs : x \in DOMAIN objs' /\ objs'[x] = objs[x]
  BY DEF Alloc, Put
<1>. QED  BY <1>1, <1>2, PassingLeft

LEMMA BoCreateLeft ==
  ASSUME Ordered, ExactInv, UseInv, LeftInv, NEW t \in Threads, NEW fd \in Fds, BoCreate(t, fd)
  PROVE  LeftInv'
<1>1. PICK id \in Ids \ DOMAIN objs : \E mt \in NextAddr({}) : \E c \in NextAddr({mt}) :
        /\ maps' = Put(Put(maps, mt, MetaFd(fd)), c, fd)
        /\ reg' = IncRef(Register(reg, fd, MetaFd(fd), c, mt), fd)
        /\ objs' = Put(objs, id, [fd |-> fd, mfd |-> MetaFd(fd), cpu |-> c, mt |-> mt])
  BY DEF BoCreate
<1>. PICK mt \in NextAddr({}) : \E c \in NextAddr({mt}) :
        /\ maps' = Put(Put(maps, mt, MetaFd(fd)), c, fd)
        /\ reg' = IncRef(Register(reg, fd, MetaFd(fd), c, mt), fd)
        /\ objs' = Put(objs, id, [fd |-> fd, mfd |-> MetaFd(fd), cpu |-> c, mt |-> mt])
  BY <1>1
<1>2. PICK c \in NextAddr({mt}) :
        /\ maps' = Put(Put(maps, mt, MetaFd(fd)), c, fd)
        /\ reg' = IncRef(Register(reg, fd, MetaFd(fd), c, mt), fd)
        /\ objs' = Put(objs, id, [fd |-> fd, mfd |-> MetaFd(fd), cpu |-> c, mt |-> mt])
  OBVIOUS
<1>3. /\ call' = call /\ offered' = offered /\ open' = open \cup {fd, MetaFd(fd)}
      /\ fd \notin DOMAIN reg
  BY DEF BoCreate, UseInv, RegInv
<1>4. /\ \A k \in DOMAIN reg : k \in DOMAIN reg' /\ reg'[k] = reg[k]
      /\ fd \in DOMAIN reg' /\ reg'[fd].cpu = c /\ reg'[fd].mt = mt
  BY <1>2, <1>3 DEF IncRef, Register, Registered, Put
<1>5. DOMAIN maps' = DOMAIN maps \cup {mt, c}
  BY <1>2 DEF Put
<1>6. /\ \A x \in DOMAIN objs : x \in DOMAIN objs' /\ objs'[x] = objs[x]
      /\ id \in DOMAIN objs' /\ objs'[id].fd = fd
  BY <1>2 DEF Put
<1>7. OpenedInv'
  <2>1. ASSUME NEW k \in Fds, k # fd PROVE On(k) # {} => On(k)' # {}
    BY <1>6 DEF On
  <2>2. On(fd)' # {}
    BY <1>6 DEF On
  <2>3. \A k \in Fds : k # fd => /\ k \in open' <=> k \in open
                                 /\ MetaFd(k) \in open' <=> MetaFd(k) \in open
    BY <1>3, OtherFds
  <2>4. fd \in open'
    BY <1>3
  <2>5. ASSUME NEW k \in Fds
        PROVE  /\ k \in open' => On(k)' # {} \/ k \in offered'
               /\ MetaFd(k) \in open' =>
                    k \in open' \/ \E s \in Threads : call'[s].pc = "closemeta" /\ call'[s].fd = k
    <3>1. CASE k = fd
      BY <2>2, <2>4, <3>1
    <3>2. CASE k # fd
      BY <1>3, <2>1, <2>3, <3>2 DEF LeftInv, OpenedInv
    <3>. QED  BY <3>1, <3>2
  <2>. QED  BY <2>5 DEF OpenedInv
<1>8. OwnedInv'
  <2>. SUFFICES ASSUME NEW a \in DOMAIN maps' PROVE Owned(a)'
    BY DEF OwnedInv
  <2>1. CASE a \in {mt, c}
    BY <1>4, <2>1 DEF Owned
  <2>2. CASE a \in DOMAIN maps
    <3>1. CASE \E k \in DOMAIN reg : a \in {reg[k].cpu, reg[k].mt}
      BY <1>4, <3>1 DEF Owned
    <3>2. CASE \E s \in Threads : a \in Carried(s)
      <4>1. PICK s \in Threads : a \in Carried(s)
        BY <3>2
      <4>2. call'[s] = call[s] /\ (call[s].pc = "unmap" => objs'[call[s].id] = objs[call[s].id])
        BY <1>3, <1>6 DEF ExactInv, HasInv, Holding
      <4>. QED  BY <4>1, <4>2, CarriedSame DEF Owned
    <3>. QED  BY <2>2, <3>1, <3>2 DEF LeftInv, OwnedInv, Owned
  <2>. QED  BY <1>5, <2>1, <2>2
<1>. QED  BY <1>7, <1>8 DEF LeftInv

\* A thread whose mappings have become an entry, or are gone, and the others.
LEMMA MovedLeft ==
  ASSUME ExactInv, OwnedInv, NEW t \in Threads,
         \A s \in Threads : s # t => call'[s] = call[s],
         \A s \in Threads : s # t /\ call[s].pc = "unmap" =>
           objs'[call[s].id] = objs[call[s].id],
         \A k \in DOMAIN reg : \A a \in DOMAIN maps' :
           a \in {reg[k].cpu, reg[k].mt} => Owned(a)',
         \A a \in DOMAIN maps' : a \in Carried(t) => Owned(a)',
         \A a \in DOMAIN maps' : a \notin DOMAIN maps => Owned(a)'
  PROVE  OwnedInv'
<1>. SUFFICES ASSUME NEW a \in DOMAIN maps', a \in DOMAIN maps PROVE Owned(a)'
  BY DEF OwnedInv
<1>1. CASE \E k \in DOMAIN reg : a \in {reg[k].cpu, reg[k].mt}
  BY <1>1
<1>2. CASE \E s \in Threads : a \in Carried(s)
  <2>1. PICK s \in Threads : a \in Carried(s)
    BY <1>2
  <2>2. CASE s = t
    BY <2>1, <2>2
  <2>3. CASE s # t
    BY <2>1, <2>3, CarriedSame DEF Owned
  <2>. QED  BY <2>2, <2>3
<1>. QED  BY <1>1, <1>2 DEF OwnedInv, Owned

LEMMA MapMissingLeft ==
  ASSUME Ordered, ExactInv, UseInv, LeftInv, NEW t \in Threads, MapMissing(t)
  PROVE  LeftInv'
<1>. DEFINE c == call[t]
<1>. PICK a \in NextAddr({}) : \E b \in NextAddr({a}) :
       LET mt == IF c.mt = NULL /\ MetaFd(c.fd) \in open THEN a ELSE c.mt
           cpu == IF c.cpu = NULL /\ mt # NULL /\ c.fd \in open THEN b ELSE c.cpu
           m == IF mt = c.mt THEN maps ELSE Put(maps, mt, MetaFd(c.fd))
       IN /\ maps' = IF cpu = c.cpu THEN m ELSE Put(m, cpu, c.fd)
          /\ call' = [call EXCEPT ![t].pc = "lock", ![t].mt = mt, ![t].cpu = cpu]
  BY DEF MapMissing
<1>1. PICK b \in NextAddr({a}) :
       LET mt == IF c.mt = NULL /\ MetaFd(c.fd) \in open THEN a ELSE c.mt
           cpu == IF c.cpu = NULL /\ mt # NULL /\ c.fd \in open THEN b ELSE c.cpu
           m == IF mt = c.mt THEN maps ELSE Put(maps, mt, MetaFd(c.fd))
       IN /\ maps' = IF cpu = c.cpu THEN m ELSE Put(m, cpu, c.fd)
          /\ call' = [call EXCEPT ![t].pc = "lock", ![t].mt = mt, ![t].cpu = cpu]
  OBVIOUS
<1>2. PICK mt, cpu :
        /\ maps' = (IF cpu = c.cpu THEN IF mt = c.mt THEN maps ELSE Put(maps, mt, MetaFd(c.fd))
                    ELSE Put(IF mt = c.mt THEN maps ELSE Put(maps, mt, MetaFd(c.fd)), cpu, c.fd))
        /\ call' = [call EXCEPT ![t].pc = "lock", ![t].mt = mt, ![t].cpu = cpu]
  BY <1>1
<1>3. \A x \in DOMAIN maps' : x \in DOMAIN maps \cup {cpu, mt}
  <2>1. DOMAIN Put(maps, mt, MetaFd(c.fd)) = DOMAIN maps \cup {mt}
    BY DEF Put
  <2>2. DOMAIN Put(maps, cpu, c.fd) = DOMAIN maps \cup {cpu}
    BY DEF Put
  <2>3. DOMAIN Put(Put(maps, mt, MetaFd(c.fd)), cpu, c.fd) = DOMAIN maps \cup {cpu, mt}
    BY DEF Put
  <2>. QED  BY <1>2, <2>1, <2>2, <2>3
<1>4. c.pc = "map" /\ CallOk(c)
  BY DEF MapMissing, At, ExactInv, TypeInv, CallsInv
<1>5. /\ call'[t].pc = "lock" /\ call'[t].cpu = cpu /\ call'[t].mt = mt
      /\ \A s \in Threads : s # t => call'[s] = call[s]
  BY <1>2, <1>4 DEF ExactInv, TypeInv, CallsInv, CallOk, Found, Carrying
<1>6. reg' = reg /\ objs' = objs /\ open' = open /\ offered' = offered
  BY DEF MapMissing
<1>7. OpenedInv'
  <2>1. \A fd : On(fd)' = On(fd)
    BY <1>6 DEF On
  <2>2. \A s \in Threads : call[s].pc = "closemeta" => call'[s] = call[s]
    BY <1>4, <1>5
  <2>. QED  BY <1>6, <2>1, <2>2, OpenedSame DEF LeftInv
<1>8. OwnedInv'
  <2>1. \A x \in DOMAIN maps' : x \notin DOMAIN maps => Owned(x)'
    <3>1. Carried(t)' = {cpu, mt}
      BY <1>5 DEF Carried
    <3>. QED  BY <1>3, <3>1 DEF Owned
  <2>2. \A x : x \notin Carried(t)
    BY <1>4 DEF Carried
  <2>3. \A k \in DOMAIN reg : \A x \in DOMAIN maps' : x \in {reg[k].cpu, reg[k].mt} => Owned(x)'
    BY <1>6 DEF Owned
  <2>. QED  BY <1>5, <1>6, <2>1, <2>2, <2>3, MovedLeft DEF LeftInv
<1>. QED  BY <1>7, <1>8 DEF LeftInv

LEMMA LockLeft ==
  ASSUME Ordered, ExactInv, UseInv, LeftInv, NEW t \in Threads, LockAndEnter(t)
  PROVE  LeftInv'
<1>1. PICK fd \in Fds : fd = call[t].fd
  BY DEF LockAndEnter, At, ExactInv, TypeInv, CallsInv, CallOk
<1>2. /\ call[t].pc = "lock" /\ maps' = maps /\ objs' = objs /\ open' = open
      /\ offered' = offered
      /\ \A s \in Threads : s # t => call'[s] = call[s]
  BY DEF LockAndEnter, At, Goto, ExactInv, TypeInv, CallsInv
<1>3. /\ fd \in DOMAIN reg' /\ reg'[fd].cpu = call[t].cpu /\ reg'[fd].mt = call[t].mt
      /\ \A k \in DOMAIN reg : k \in DOMAIN reg' /\ reg'[k] = reg[k]
  BY <1>1, Entered
<1>4. OpenedInv'
  <2>1. \A k : On(k)' = On(k)
    BY <1>2 DEF On
  <2>2. \A s \in Threads : call[s].pc = "closemeta" => call'[s] = call[s]
    BY <1>2
  <2>. QED  BY <1>2, <2>1, <2>2, OpenedSame DEF LeftInv
<1>5. OwnedInv'
  <2>1. Carried(t) = {reg'[fd].cpu, reg'[fd].mt}
    BY <1>2, <1>3 DEF Carried
  <2>2. \A a : a \in Carried(t) => Owned(a)'
    BY <1>3, <2>1 DEF Owned
  <2>3. \A k \in DOMAIN reg : \A a : a \in {reg[k].cpu, reg[k].mt} => Owned(a)'
    BY <1>3 DEF Owned
  <2>. QED  BY <1>2, <2>2, <2>3, MovedLeft DEF LeftInv
<1>. QED  BY <1>4, <1>5 DEF LeftInv

LEMMA UnmapLeft ==
  ASSUME Ordered, ExactInv, UseInv, LeftInv, NEW t \in Threads, Unmap(t)
  PROVE  LeftInv'
<1>1. /\ call[t].pc = "unmap" /\ reg' = reg /\ objs' = objs /\ open' = open
      /\ offered' = offered
      /\ \A s \in Threads : s # t => call'[s] = call[s]
  BY DEF Unmap, At, Goto, ExactInv, TypeInv, CallsInv
<1>2. OpenedInv'
  <2>1. \A k : On(k)' = On(k)
    BY <1>1 DEF On
  <2>2. \A s \in Threads : call[s].pc = "closemeta" => call'[s] = call[s]
    BY <1>1
  <2>. QED  BY <1>1, <2>1, <2>2, OpenedSame DEF LeftInv
<1>3. OwnedInv'
  <2>1. DOMAIN maps' = DOMAIN maps \ Carried(t)
    BY <1>1 DEF Unmap, UnmapOwn, Drop, Carried
  <2>2. \A k \in DOMAIN reg : \A a : a \in {reg[k].cpu, reg[k].mt} => Owned(a)'
    BY <1>1 DEF Owned
  <2>. QED  BY <1>1, <2>1, <2>2, MovedLeft DEF LeftInv
<1>. QED  BY <1>2, <1>3 DEF LeftInv

\* When a destroyer was not the last, an object stays.
LEMMA NotLastLeaves ==
  ASSUME Serial, ExactInv, ExactInv', NEW t \in Threads, DecWrite(t), ~IsLast(call[t].n),
         NEW fd \in Fds, fd = call[t].fd
  PROVE  On(fd)' # {}
<1>1. /\ call[t].pc = "decwrite" /\ Registered(reg, fd) /\ call[t].n >= 1 /\ call[t].n \in Int
      /\ reg' = [reg EXCEPT ![fd].ref = call[t].n - 1]
      /\ call'[t] = Idle /\ \A s \in Threads : s # t => call'[s] = call[s]
  BY ReadEnough DEF DecWrite, At, Return, ExactInv, TypeInv, CallsInv, CallOk, Serial
<1>2. RefOf(reg', fd) # 0
  <2>1. fd \in DOMAIN reg /\ reg[fd] \in Entries
    BY <1>1 DEF Registered, ExactInv, TypeInv, MapsTo
  <2>. QED  BY <1>1, <2>1 DEF RefOf, Lookup, Registered, Entries, IsLast
<1>3. Counted(fd)' = {}
  <2>1. \A s \in Threads : s # t /\ call[s].pc # "idle" => call[s].fd # fd
    BY <1>1 DEF ExactInv, AloneInv, Destroying, Serial
  <2>. QED  BY <1>1, <2>1 DEF Counted, Idle
<1>4. Staying(fd)' # {}
  <2>1. RefOf(reg', fd) = Cardinality(Staying(fd)') + Cardinality(Counted(fd)')
    BY DEF ExactInv, CountInv, Serial
  <2>. QED  BY <1>2, <1>3, <2>1, FS_EmptySet
<1>. QED  BY <1>4 DEF Staying

LEMMA DecWriteLeft ==
  ASSUME Serial, ExactInv, UseInv, LeftInv, ExactInv', NEW t \in Threads, DecWrite(t)
  PROVE  LeftInv'
<1>. DEFINE c == call[t]
<1>1. /\ c.pc = "decwrite" /\ CallOk(c) /\ c.fd \in Fds /\ c.id \in Staying(c.fd)
      /\ Registered(reg, c.fd)
  BY ReadEnough DEF DecWrite, At, ExactInv, TypeInv, CallsInv, CallOk, Serial
<1>. PICK fd \in Fds, id \in {c.id} : fd = c.fd /\ id = c.id
  BY <1>1
<1>2. /\ fd \in DOMAIN reg /\ id \in DOMAIN objs /\ objs[id].fd = fd
      /\ objs[id].cpu = reg[fd].cpu /\ objs[id].mt = reg[fd].mt
  BY <1>1 DEF Registered, Staying, On, UseInv, SharedInv
<1>3. /\ \A s \in Threads : s # t => call'[s] = call[s]
      /\ maps' = maps /\ open' = open /\ offered' = offered
  BY DEF DecWrite, Goto, Return, ExactInv, TypeInv, CallsInv
<1>4. \A s \in Threads : call[s].pc = "closemeta" => call'[s] = call[s]
  BY <1>1, <1>3
<1>5. \A x : x \notin Carried(t)
  BY <1>1 DEF Carried
<1>6. CASE IsLast(c.n)
  <2>1. /\ reg' = Drop(reg, {fd}) /\ objs' = objs
        /\ call'[t].pc = "unmap" /\ call'[t].id = id
    BY <1>1, <1>6 DEF DecWrite, Goto, ExactInv, TypeInv, CallsInv, CallOk, Holding
  <2>2. \A k : On(k)' = On(k)
    BY <2>1 DEF On
  <2>3. OpenedInv'
    BY <1>3, <1>4, <2>2, OpenedSame DEF LeftInv
  <2>4. Carried(t)' = {reg[fd].cpu, reg[fd].mt}
    BY <1>2, <2>1 DEF Carried
  <2>5. \A k \in DOMAIN reg : \A a : a \in {reg[k].cpu, reg[k].mt} => Owned(a)'
    <3>. SUFFICES ASSUME NEW k \in DOMAIN reg, NEW a, a \in {reg[k].cpu, reg[k].mt}
                  PROVE  Owned(a)'
      OBVIOUS
    <3>1. CASE k = fd
      BY <2>4, <3>1 DEF Owned
    <3>2. CASE k # fd
      BY <2>1, <3>2 DEF Owned, Drop
    <3>. QED  BY <3>1, <3>2
  <2>6. OwnedInv'
    BY <1>3, <1>5, <2>1, <2>5, MovedLeft DEF LeftInv
  <2>. QED  BY <2>3, <2>6 DEF LeftInv
<1>7. CASE ~IsLast(c.n)
  <2>1. reg' = [reg EXCEPT ![fd].ref = c.n - 1] /\ objs' = Drop(objs, {id})
    BY <1>1, <1>7 DEF DecWrite
  <2>2. \A k \in Fds : On(k) # {} => On(k)' # {}
    <3>1. On(fd)' # {}
      BY <1>7, NotLastLeaves
    <3>2. \A k \in Fds : k # fd => On(k) \subseteq On(k)'
      BY <1>2, <2>1 DEF On, Drop
    <3>. QED  BY <3>1, <3>2
  <2>3. OpenedInv'
    BY <1>3, <1>4, <2>2, OpenedSame DEF LeftInv
  <2>4. \A k \in DOMAIN reg : /\ k \in DOMAIN reg'
                              /\ reg'[k].cpu = reg[k].cpu /\ reg'[k].mt = reg[k].mt
    BY <2>1 DEF ExactInv, TypeInv, MapsTo, Entries
  <2>5. \A k \in DOMAIN reg : \A a : a \in {reg[k].cpu, reg[k].mt} => Owned(a)'
    BY <2>4 DEF Owned
  <2>6. \A s \in Threads : s # t /\ call[s].pc = "unmap" => objs'[call[s].id] = objs[call[s].id]
    <3>1. \A s \in Threads : s # t /\ call[s].pc = "unmap" =>
            call[s].id # id /\ call[s].id \in DOMAIN objs
      BY <1>1, HoldsAlone DEF Holding, ExactInv, HasInv
    <3>. QED  BY <2>1, <3>1 DEF Drop
  <2>7. OwnedInv'
    BY <1>3, <1>5, <2>5, <2>6, MovedLeft DEF LeftInv
  <2>. QED  BY <2>3, <2>7 DEF LeftInv
<1>. QED  BY <1>6, <1>7

LEMMA CloseDataLeft ==
  ASSUME Ordered, ExactInv, UseInv, LeftInv, NEW t \in Threads, CloseData(t)
  PROVE  LeftInv'
<1>. DEFINE c == call[t]
            d == [pc |-> "closemeta", fd |-> c.fd, id |-> c.id, mfd |-> objs[c.id].mfd]
<1>1. c.pc = "close" /\ c.fd \in Fds /\ c.id \in DOMAIN objs /\ objs[c.id].fd = c.fd
  BY DEF CloseData, At, ExactInv, TypeInv, CallsInv, CallOk, HasInv, Holding
<1>. PICK fd \in Fds, id \in {c.id} : fd = c.fd /\ id = c.id
  BY <1>1
<1>2. /\ call' = [call EXCEPT ![t] = d] /\ d.pc = "closemeta" /\ d.fd = fd
      /\ objs' = Drop(objs, {id}) /\ open' = open \ {fd}
      /\ reg' = reg /\ maps' = maps /\ offered' = offered
  BY DEF CloseData
<1>. HIDE DEF d
<1>3. /\ call'[t].pc = "closemeta" /\ call'[t].fd = fd
      /\ \A s \in Threads : s # t => call'[s] = call[s]
  BY <1>2 DEF ExactInv, TypeInv, CallsInv
<1>4. OpenedInv'
  <2>. SUFFICES ASSUME NEW k \in Fds
                PROVE  /\ k \in open' => On(k)' # {} \/ k \in offered'
                       /\ MetaFd(k) \in open' =>
                            k \in open'
                            \/ \E s \in Threads : call'[s].pc = "closemeta" /\ call'[s].fd = k
    BY DEF OpenedInv
  <2>1. CASE k = fd
    BY <1>2, <1>3, <2>1
  <2>2. CASE k # fd
    <3>1. On(k) \subseteq On(k)'
      BY <1>1, <1>2, <2>2 DEF On, Drop
    <3>2. /\ k \in open' <=> k \in open
          /\ MetaFd(k) \in open' <=> MetaFd(k) \in open
      BY <1>2, <2>2, OtherFds
    <3>3. \A s \in Threads : call[s].pc = "closemeta" => call'[s] = call[s]
      BY <1>1, <1>3
    <3>. QED  BY <1>2, <3>1, <3>2, <3>3 DEF LeftInv, OpenedInv
  <2>. QED  BY <2>1, <2>2
<1>5. OwnedInv'
  <2>1. \A s \in Threads : s # t /\ call[s].pc = "unmap" => objs'[call[s].id] = objs[call[s].id]
    <3>1. \A s \in Threads : s # t /\ call[s].pc = "unmap" =>
            call[s].id # id /\ call[s].id \in DOMAIN objs
      BY <1>1, HoldsAlone DEF Holding, ExactInv, HasInv
    <3>. QED  BY <1>2, <3>1 DEF Drop
  <2>2. ASSUME NEW s \in Threads PROVE Carried(s) \subseteq Carried(s)'
    <3>1. CASE s = t
      BY <1>1, <3>1 DEF Carried
    <3>2. CASE s # t
      BY <1>3, <2>1, <3>2, CarriedSame
    <3>. QED  BY <3>1, <3>2
  <2>. QED  BY <1>2, <2>2, OwnedSame DEF LeftInv
<1>. QED  BY <1>4, <1>5 DEF LeftInv

LEMMA CloseMetaLeft ==
  ASSUME Ordered, ExactInv, UseInv, LeftInv, NEW t \in Threads, CloseMeta(t)
  PROVE  LeftInv'
<1>1. PICK fd \in Fds : fd = call[t].fd
  BY DEF CloseMeta, At, ExactInv, TypeInv, CallsInv, CallOk
<1>2. /\ call[t].pc = "closemeta" /\ open' = open \ {MetaFd(fd)}
      /\ \A s \in Threads : s # t => call'[s] = call[s]
      /\ reg' = reg /\ maps' = maps /\ objs' = objs /\ offered' = offered
  BY <1>1 DEF CloseMeta, At, Return, ExactInv, TypeInv, CallsInv, UseInv, MetaInv
<1>3. OpenedInv'
  <2>. SUFFICES ASSUME NEW k \in Fds
                PROVE  /\ k \in open' => On(k)' # {} \/ k \in offered'
                       /\ MetaFd(k) \in open' =>
                            k \in open'
                            \/ \E s \in Threads : call'[s].pc = "closemeta" /\ call'[s].fd = k
    BY DEF OpenedInv
  <2>1. On(k)' = On(k)
    BY <1>2 DEF On
  <2>2. k \in open' => k \in open
    BY <1>2
  <2>3. MetaFd(k) \in open' => k # fd /\ MetaFd(k) \in open
    BY <1>2
  <2>4. k \in open => k \in open'
    BY <1>2, OtherFds
  <2>5. \A s \in Threads : call[s].pc = "closemeta" /\ call[s].fd = k /\ k # fd =>
          call'[s] = call[s]
    BY <1>1, <1>2
  <2>. QED  BY <1>2, <2>1, <2>2, <2>3, <2>4, <2>5 DEF LeftInv, OpenedInv
<1>4. OwnedInv'
  <2>1. ASSUME NEW s \in Threads PROVE Carried(s) \subseteq Carried(s)'
    <3>1. CASE s = t
      BY <1>2, <3>1 DEF Carried
    <3>2. CASE s # t
      BY <1>2, <3>2, CarriedSame
    <3>. QED  BY <3>1, <3>2
  <2>. QED  BY <1>2, <2>1, OwnedSame DEF LeftInv
<1>. QED  BY <1>3, <1>4 DEF LeftInv

LEMMA WithdrawLeft ==
  ASSUME ExactInv, LeftInv, NEW fd \in Fds, Withdraw(fd)
  PROVE  LeftInv'
<1>1. /\ reg' = reg /\ maps' = maps /\ objs' = objs /\ call' = call
      /\ offered' = offered \ {fd}
      /\ open' = IF On(fd) = {} THEN open \ {fd, MetaFd(fd)} ELSE open
  BY DEF Withdraw
<1>2. OpenedInv'
  <2>. SUFFICES ASSUME NEW k \in Fds
                PROVE  /\ k \in open' => On(k)' # {} \/ k \in offered'
                       /\ MetaFd(k) \in open' =>
                            k \in open'
                            \/ \E s \in Threads : call'[s].pc = "closemeta" /\ call'[s].fd = k
    BY DEF OpenedInv
  <2>1. On(k)' = On(k)
    BY <1>1 DEF On
  <2>2. CASE k = fd /\ On(fd) = {}
    BY <1>1, <2>2
  <2>3. CASE k # fd \/ On(fd) # {}
    <3>1. /\ k \in open' <=> k \in open
          /\ MetaFd(k) \in open' <=> MetaFd(k) \in open
      BY <1>1, <2>3, OtherFds
    <3>. QED  BY <1>1, <2>1, <2>3, <3>1 DEF LeftInv, OpenedInv
  <2>. QED  BY <2>2, <2>3
<1>3. OwnedInv'
  <2>1. ASSUME NEW s \in Threads PROVE Carried(s) \subseteq Carried(s)'
    BY <1>1, CarriedSame
  <2>. QED  BY <1>1, <2>1, OwnedSame DEF LeftInv
<1>. QED  BY <1>2, <1>3 DEF LeftInv

LEMMA StepLeft ==
  ASSUME Serial, Ordered, ExactInv, UseInv, LeftInv, ExactInv', [Next]_vars
  PROVE  LeftInv'
<1>1. CASE UNCHANGED vars
  <2>1. /\ reg' = reg /\ maps' = maps /\ objs' = objs /\ call' = call
        /\ open' = open /\ offered' = offered
    BY <1>1 DEF vars
  <2>2. OpenedInv'
    <3>1. \A k : On(k)' = On(k)
      BY <2>1 DEF On
    <3>. QED  BY <2>1, <3>1, OpenedSame DEF LeftInv
  <2>3. OwnedInv'
    <3>1. \A s \in Threads : Carried(s)' = Carried(s)
      BY <2>1 DEF Carried
    <3>. QED  BY <2>1, <3>1, OwnedSame DEF LeftInv
  <2>. QED  BY <2>2, <2>3 DEF LeftInv
<1>2. ASSUME NEW t \in Threads, NEW fd \in Fds, BoCreate(t, fd) PROVE LeftInv'
  BY <1>2, BoCreateLeft
<1>3. ASSUME NEW t \in Threads, ImportStep(t) PROVE LeftInv'
  <2>1. CASE (\E op \in Ops, fd \in Fds : ImportCall(t, op, fd)) \/ Search(t) \/ IncRead(t)
    BY <2>1, LooksLeft
  <2>2. CASE MapMissing(t) \/ LockAndEnter(t)
    BY <2>2, MapMissingLeft, LockLeft
  <2>3. CASE IncWrite(t) \/ Alloc(t)
    BY <2>3, IncWriteLeft, AllocLeft DEF Ordered
  <2>. QED  BY <1>3, <2>1, <2>2, <2>3 DEF ImportStep
<1>4. ASSUME NEW t \in Threads, DestroyStep(t) PROVE LeftInv'
  <2>1. CASE (\E id \in DOMAIN objs : DestroyCall(t, id)) \/ DecRead(t)
    BY <2>1, LooksLeft
  <2>2. CASE DecWrite(t) \/ Unmap(t)
    BY <2>2, DecWriteLeft, UnmapLeft
  <2>3. CASE CloseData(t) \/ CloseMeta(t)
    BY <2>3, CloseDataLeft, CloseMetaLeft
  <2>. QED  BY <1>4, <2>1, <2>2, <2>3 DEF DestroyStep
<1>5. ASSUME NEW fd \in Fds, Withdraw(fd) PROVE LeftInv'
  BY <1>5, WithdrawLeft
<1>. QED  BY <1>1, <1>2, <1>3, <1>4, <1>5 DEF Next

\* If moreover a destroy runs alone on its fd, then once every object is destroyed, by
\* whichever threads, no descriptor is open, no buffer is mapped and nothing is
\* registered.
THEOREM NothingLeaks == ASSUME Serial, Ordered PROVE Spec => []NoLeak
<1>1. Init => ExactInv /\ UseInv /\ LeftInv
  BY InitExact, InitUse, InitLeft DEF Ordered
<1>2. ExactInv /\ UseInv /\ LeftInv /\ [Next]_vars => (ExactInv /\ UseInv /\ LeftInv)'
  BY StepExact, StepUse, StepLeft DEF Ordered
<1>3. ExactInv /\ UseInv /\ LeftInv => NoLeak
  BY LeftEnough DEF Ordered
<1>. QED  BY <1>1, <1>2, <1>3, PTL DEF Spec
=============================================================================
