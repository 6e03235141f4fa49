--------------------------- MODULE GbmDevice_proofs ---------------------------
(***************************************************************************)
(* Proofs about GbmDevice, for any number of threads and devices: the two  *)
(* instance counts cover the devices that count on them, so the singletons *)
(* are there for every call; and where no device creation fails half-way,  *)
(* nothing is left after the last device.                                  *)
(***************************************************************************)
EXTENDS GbmDevice, FiniteSetTheorems, WellFoundedInduction, TLAPS

Using == {"query", "lock", "access"}
Destroys == {"unwrap", "unmap", "lockdestroy", "release"}
Creates == {"wrap", "map", "lockinit", "ion"}
Pcs == Using \cup Destroys \cup Creates

CallOk(c) ==
  \/ c = Idle
  \/ {"pc", "dev"} \subseteq DOMAIN c /\ c.pc \in Pcs /\ c.dev \in Devices

CallsInv == DOMAIN call = Threads /\ \A t \in Threads : CallOk(call[t])

\* Who is creating or destroying a device is alone with it.
AloneInv ==
  \A t \in Threads :
    /\ call[t].pc \in Creates => devs[call[t].dev] = NoFd
    /\ call[t].pc \in Using \cup Destroys => devs[call[t].dev] # NoFd
    /\ \A s \in Threads :
         call[t].pc \in Creates \cup Destroys /\ call[s].pc # "idle"
           /\ call[s].dev = call[t].dev => s = t

\* A device counts on an instance from one step of its creation to one of its
\* destruction.
In(pcs, d) == \E t \in Threads : call[t].pc \in pcs /\ call[t].dev = d
Counting(entered, left) == {d \in Devices : In(entered, d) \/ (devs[d] # NoFd /\ ~In(left, d))}

Wrapped == Counting({"map", "lockinit", "ion"}, {"unmap", "lockdestroy", "release"})
Mapped == Counting({"lockinit", "ion"}, {"lockdestroy", "release"})

\* The count covers them, and says whether the instance is alive.
Covers(i, U) ==
  /\ i \in Singleton
  /\ Cardinality(U) <= i.count
  /\ ~IonFails => i.count = Cardinality(U)
  /\ i.alive <=> i.count # 0

\* The descriptors of /dev/ion are the devices', each its own; 0 may be left.
IonInv ==
  /\ devs \in [Devices -> Fds \cup {NoFd}]
  /\ ion \subseteq Fds
  /\ \A d \in Live : devs[d] \in ion
  /\ \A n \in ion : n = 0 \/ \E d \in Live : devs[d] = n
  /\ StdinOpen => 0 \notin ion
  /\ \A d, e \in Live : devs[d] = devs[e] => d = e

MutexInv == mutex \in [ready : BOOLEAN, owner : Threads \cup {Free}]

DeviceInv ==
  /\ CallsInv /\ AloneInv /\ IonInv /\ MutexInv
  /\ Covers(wrapper, Wrapped) /\ Covers(mapper, Mapped)

-----------------------------------------------------------------------------
(* Lemmas on sets.                                                         *)

LEMMA Least == ASSUME NEW S, S \subseteq Nat, S # {} PROVE \E n \in S : \A k \in S : n <= k
<1>. DEFINE R == OpToRel(<, Nat)
<1>1. IsWellFoundedOn(R, Nat)
  BY NatLessThanWellFounded
<1>2. \A x, y \in Nat : y < x => <<y, x>> \in R
  BY DEF OpToRel
<1>. HIDE DEF R
<1>3. PICK n \in S : \A k \in S : ~(<<k, n>> \in R)
  <2>1. \E n \in S : \A k \in S : ~(<<k, n>> \in R)
    BY <1>1, WFMin
  <2>. QED  BY <2>1
<1>4. ASSUME NEW k \in S PROVE n <= k
  <2>1. n \in Nat /\ k \in Nat /\ ~(<<k, n>> \in R)
    BY <1>3
  <2>2. ~(k < n)
    BY <1>2, <2>1, Zenon
  <2>. QED  BY <2>1, <2>2
<1>. QED  BY <1>4

\* The premise of everything that counts.
Finite == IsFiniteSet(Devices)

LEMMA FiniteCount ==
  ASSUME Finite, NEW U, U \subseteq Devices
  PROVE  /\ IsFiniteSet(U) /\ Cardinality(U) \in Nat
         /\ Cardinality(U) <= Cardinality(Devices)
         /\ \A d \in Devices : d \notin U => Cardinality(U \cup {d}) = Cardinality(U) + 1
         /\ \A d \in U : Cardinality(U \ {d}) = Cardinality(U) - 1
BY FS_Subset, FS_CardinalityType, FS_AddElement, FS_RemoveElement DEF Finite

LEMMA CountingType == Wrapped \subseteq Devices /\ Mapped \subseteq Devices
BY DEF Wrapped, Mapped, Counting

LEMMA CountUp ==
  ASSUME Finite, NEW i, NEW U, U \subseteq Devices, Covers(i, U),
         NEW d \in Devices, d \notin U
  PROVE  Covers(Instance(i), U \cup {d})
<1>1. Cardinality(U \cup {d}) = Cardinality(U) + 1 /\ Cardinality(U) \in Nat
  BY FiniteCount
<1>. QED  BY <1>1 DEF Covers, Instance, Singleton

LEMMA CountDown ==
  ASSUME Finite, NEW i, NEW U, U \subseteq Devices, Covers(i, U), NEW d \in U
  PROVE  Covers(Deinstance(i), U \ {d})
<1>1. Cardinality(U \ {d}) = Cardinality(U) - 1 /\ Cardinality(U) \in Nat
      /\ Cardinality(U \ {d}) \in Nat
  BY FiniteCount
<1>2. i.count \in Nat /\ i.alive \in BOOLEAN /\ i.count >= 1 /\ i.alive
  BY <1>1 DEF Covers, Singleton
<1>3. PICK n, b : n = i.count - 1 /\ b = (i.alive /\ i.count - 1 # 0)
  OBVIOUS
<1>4. Deinstance(i) = [count |-> n, alive |-> b] /\ b \in BOOLEAN /\ n \in Nat
      /\ (b <=> n # 0)
  <2>1. b \in BOOLEAN
    BY <1>3
  <2>2. b <=> n # 0
    BY <1>2, <1>3
  <2>3. n \in Nat
    BY <1>2, <1>3
  <2>. QED  BY <1>3, <2>1, <2>2, <2>3 DEF Deinstance
<1>5. Deinstance(i) \in Singleton /\ Deinstance(i).count = n /\ Deinstance(i).alive = b
  BY <1>4 DEF Singleton
<1>. QED  BY <1>1, <1>2, <1>3, <1>4, <1>5 DEF Covers

LEMMA CountLost ==
  ASSUME Finite, NEW i, NEW U, U \subseteq Devices, Covers(i, U), NEW d \in U, IonFails
  PROVE  Covers(i, U \ {d})
<1>1. Cardinality(U \ {d}) = Cardinality(U) - 1 /\ Cardinality(U) \in Nat
  BY FiniteCount
<1>. QED  BY <1>1 DEF Covers, Singleton

\* While a device is being created, ion_open finds a number that no other device has.
LEMMA FreeFd ==
  ASSUME Finite, IonInv, NEW d \in Devices, devs[d] = NoFd
  PROVE  /\ LowestFd \in Fds /\ LowestFd \notin ion /\ LowestFd # NoFd
         /\ StdinOpen => LowestFd # 0
<1>. DEFINE used == ion \cup (IF StdinOpen THEN {0} ELSE {})
            free == Fds \ used
            fds == {devs[e] : e \in Live}
<1>1. Live \subseteq Devices \ {d}
  BY DEF Live
<1>2. IsFiniteSet(Live) /\ Cardinality(Live) <= Cardinality(Devices) - 1
      /\ Cardinality(Devices) \in Nat /\ Cardinality(Live) \in Nat
  <2>1. /\ Cardinality(Devices \ {d}) = Cardinality(Devices) - 1
        /\ Cardinality(Devices) \in Nat /\ IsFiniteSet(Devices \ {d})
    BY FiniteCount DEF Finite
  <2>. QED  BY <1>1, <2>1, FS_Subset, FS_CardinalityType
<1>3. IsFiniteSet(fds) /\ Cardinality(fds) <= Cardinality(Live) /\ Cardinality(fds) \in Nat
  <2>. DEFINE f == [e \in Live |-> devs[e]]
  <2>1. f \in Surjection(Live, fds)
    BY DEF Surjection
  <2>2. IsFiniteSet(fds) /\ Cardinality(fds) <= Cardinality(Live)
    BY <1>2, <2>1, FS_Surjection
  <2>. QED  BY <2>2, FS_CardinalityType
<1>4. used \subseteq fds \cup {0}
  BY DEF IonInv
<1>. HIDE DEF fds
<1>5. IsFiniteSet(fds \cup {0}) /\ Cardinality(fds \cup {0}) <= Cardinality(fds) + 1
      /\ Cardinality(fds \cup {0}) \in Nat
  <2>1. CASE 0 \in fds
    <3>1. fds \cup {0} = fds
      BY <2>1
    <3>. QED  BY <1>3, <3>1
  <2>2. CASE 0 \notin fds
    <3>1. IsFiniteSet(fds \cup {0}) /\ Cardinality(fds \cup {0}) = Cardinality(fds) + 1
      BY <1>3, <2>2, FS_AddElement
    <3>. QED  BY <1>3, <3>1
  <2>. QED  BY <2>1, <2>2
<1>6. Cardinality(Fds) = Cardinality(Devices) + 1
  BY <1>2, FS_Interval DEF Fds
<1>7. free # {}
  <2>1. SUFFICES ASSUME Fds \subseteq fds \cup {0} PROVE FALSE
    BY <1>4
  <2>2. Cardinality(Fds) <= Cardinality(fds \cup {0})
    BY <1>5, <2>1, FS_Subset
  <2>. QED  BY <1>2, <1>3, <1>5, <1>6, <2>2
<1>8. free \subseteq Nat
  BY <1>2 DEF Fds
<1>9. \E n \in free : \A k \in free : n <= k
  BY <1>7, <1>8, Least
<1>10. LowestFd \in free
  BY <1>9 DEF LowestFd
<1>. QED  BY <1>8, <1>10 DEF NoFd

-----------------------------------------------------------------------------
(* What a step of thread t does to the calls and to the two sets.          *)

Others(t) == \A s \in Threads \ {t} : call'[s] = call[s]

LEMMA Moved ==
  ASSUME CallsInv, NEW t \in Threads, call[t].pc # "idle", NEW p \in Pcs, Goto(t, p)
  PROVE  /\ CallsInv' /\ Others(t)
         /\ call[t].dev \in Devices /\ call[t].pc \in Pcs
         /\ call'[t].pc = p /\ call'[t].dev = call[t].dev
<1>1. {"pc", "dev"} \subseteq DOMAIN call[t] /\ call[t].pc \in Pcs /\ call[t].dev \in Devices
  BY DEF CallsInv, CallOk, Idle
<1>2. Others(t) /\ DOMAIN call' = Threads /\ call'[t] = [call[t] EXCEPT !.pc = p]
  BY DEF Goto, CallsInv, Others
<1>3. {"pc", "dev"} \subseteq DOMAIN call'[t] /\ call'[t].pc = p
      /\ call'[t].dev = call[t].dev
  BY <1>1, <1>2
<1>. QED  BY <1>1, <1>2, <1>3 DEF CallsInv, CallOk, Others

LEMMA Left ==
  ASSUME CallsInv, NEW t \in Threads, Return(t)
  PROVE  CallsInv' /\ Others(t) /\ call'[t].pc = "idle"
BY DEF CallsInv, CallOk, Return, Others, Idle

LEMMA Begun ==
  ASSUME CallsInv, NEW t \in Threads, NEW p \in Pcs, NEW d \in Devices, Begin(t, p, d)
  PROVE  /\ CallsInv' /\ Others(t)
         /\ call[t].pc = "idle" /\ call'[t].pc = p /\ call'[t].dev = d
BY DEF CallsInv, CallOk, Begin, At, Others

\* A thread at a step of device management is alone with its device, before and after.
LEMMA InOwn ==
  ASSUME NEW t \in Threads, NEW d, NEW pcs, "idle" \notin pcs, Others(t),
         \A s \in Threads \ {t} : call[s].pc # "idle" => call[s].dev # d
  PROVE  /\ In(pcs, d) <=> call[t].pc \in pcs /\ call[t].dev = d
         /\ In(pcs, d)' <=> call'[t].pc \in pcs /\ call'[t].dev = d
BY DEF In, Others

LEMMA InElse ==
  ASSUME NEW t \in Threads, NEW d, NEW pcs, "idle" \notin pcs, Others(t),
         call[t].pc \in pcs => call[t].dev # d, call'[t].pc \in pcs => call'[t].dev # d
  PROVE  In(pcs, d)' <=> In(pcs, d)
BY DEF In, Others

WrapIn == {"map", "lockinit", "ion"}
WrapOut == {"unmap", "lockdestroy", "release"}
MapIn == {"lockinit", "ion"}
MapOut == {"lockdestroy", "release"}

LEMMA WrappedIs ==
  ASSUME NEW d \in Devices
  PROVE  /\ d \in Wrapped <=> In(WrapIn, d) \/ (devs[d] # NoFd /\ ~In(WrapOut, d))
         /\ d \in Wrapped' <=> In(WrapIn, d)' \/ (devs'[d] # NoFd /\ ~In(WrapOut, d)')
         /\ d \in Mapped <=> In(MapIn, d) \/ (devs[d] # NoFd /\ ~In(MapOut, d))
         /\ d \in Mapped' <=> In(MapIn, d)' \/ (devs'[d] # NoFd /\ ~In(MapOut, d)')
BY DEF Wrapped, Mapped, Counting, WrapIn, WrapOut, MapIn, MapOut

\* Steps that neither enter nor leave those sets of program counters.
LEMMA OutSets ==
  ASSUME NEW t \in Threads, Others(t), UNCHANGED devs,
         call[t].pc \notin WrapIn \cup WrapOut, call'[t].pc \notin WrapIn \cup WrapOut
  PROVE  Wrapped' = Wrapped /\ Mapped' = Mapped
<1>1. ASSUME NEW d \in Devices
      PROVE  (d \in Wrapped' <=> d \in Wrapped) /\ (d \in Mapped' <=> d \in Mapped)
  <2>1. ASSUME NEW pcs, pcs \subseteq WrapIn \cup WrapOut
        PROVE  In(pcs, d)' <=> In(pcs, d)
    <3>1. "idle" \notin pcs
      BY <2>1 DEF WrapIn, WrapOut
    <3>. QED  BY <2>1, <3>1, InElse
  <2>2. WrapIn \subseteq WrapIn \cup WrapOut /\ WrapOut \subseteq WrapIn \cup WrapOut
        /\ MapIn \subseteq WrapIn \cup WrapOut /\ MapOut \subseteq WrapIn \cup WrapOut
    BY DEF WrapIn, WrapOut, MapIn, MapOut
  <2>3. /\ In(WrapIn, d)' <=> In(WrapIn, d)
        /\ In(WrapOut, d)' <=> In(WrapOut, d)
        /\ In(MapIn, d)' <=> In(MapIn, d)
        /\ In(MapOut, d)' <=> In(MapOut, d)
    BY <2>1, <2>2
  <2>. QED  BY <2>3, WrappedIs
<1>2. Wrapped \subseteq Devices /\ Mapped \subseteq Devices
      /\ Wrapped' \subseteq Devices /\ Mapped' \subseteq Devices
  BY DEF Wrapped, Mapped, Counting
<1>. QED  BY <1>1, <1>2

\* Steps of the thread that creates or destroys device d.
LEMMA OwnSets ==
  ASSUME CallsInv, AloneInv, NEW t \in Threads, NEW d \in Devices, Others(t),
         call[t].pc \in Creates \cup Destroys, call[t].dev = d,
         call'[t].pc # "idle" => call'[t].dev = d,
         \A e \in Devices \ {d} : devs'[e] = devs[e]
  PROVE  /\ \A e \in Devices \ {d} : (e \in Wrapped' <=> e \in Wrapped)
                                     /\ (e \in Mapped' <=> e \in Mapped)
         /\ d \in Wrapped <=> call[t].pc \in WrapIn \/ (devs[d] # NoFd /\ call[t].pc \notin WrapOut)
         /\ d \in Wrapped' <=>
              call'[t].pc \in WrapIn \/ (devs'[d] # NoFd /\ call'[t].pc \notin WrapOut)
         /\ d \in Mapped <=> call[t].pc \in MapIn \/ (devs[d] # NoFd /\ call[t].pc \notin MapOut)
         /\ d \in Mapped' <=>
              call'[t].pc \in MapIn \/ (devs'[d] # NoFd /\ call'[t].pc \notin MapOut)
         /\ Wrapped' \subseteq Devices /\ Mapped' \subseteq Devices
<1>1. "idle" \notin WrapIn /\ "idle" \notin WrapOut /\ "idle" \notin MapIn /\ "idle" \notin MapOut
  BY DEF WrapIn, WrapOut, MapIn, MapOut
<1>2. ASSUME NEW e \in Devices \ {d}
      PROVE  (e \in Wrapped' <=> e \in Wrapped) /\ (e \in Mapped' <=> e \in Mapped)
  <2>1. ASSUME NEW pcs, "idle" \notin pcs
        PROVE  In(pcs, e)' <=> In(pcs, e)
    <3>1. (call[t].pc \in pcs => call[t].dev # e) /\ (call'[t].pc \in pcs => call'[t].dev # e)
      BY <1>2, <2>1
    <3>. QED  BY <2>1, <3>1, InElse
  <2>2. /\ In(WrapIn, e)' <=> In(WrapIn, e)
        /\ In(WrapOut, e)' <=> In(WrapOut, e)
        /\ In(MapIn, e)' <=> In(MapIn, e)
        /\ In(MapOut, e)' <=> In(MapOut, e)
    BY <1>1, <2>1
  <2>. QED  BY <2>2, WrappedIs
<1>3. \A s \in Threads \ {t} : call[s].pc # "idle" => call[s].dev # d
  BY DEF AloneInv
<1>4. ASSUME NEW pcs, "idle" \notin pcs
      PROVE  (In(pcs, d) <=> call[t].pc \in pcs) /\ (In(pcs, d)' <=> call'[t].pc \in pcs)
  <2>1. /\ In(pcs, d) <=> call[t].pc \in pcs /\ call[t].dev = d
        /\ In(pcs, d)' <=> call'[t].pc \in pcs /\ call'[t].dev = d
    BY <1>3, <1>4, InOwn
  <2>. QED  BY <1>4, <2>1
<1>5. /\ (In(WrapIn, d) <=> call[t].pc \in WrapIn) /\ (In(WrapIn, d)' <=> call'[t].pc \in WrapIn)
      /\ (In(WrapOut, d) <=> call[t].pc \in WrapOut) /\ (In(WrapOut, d)' <=> call'[t].pc \in WrapOut)
      /\ (In(MapIn, d) <=> call[t].pc \in MapIn) /\ (In(MapIn, d)' <=> call'[t].pc \in MapIn)
      /\ (In(MapOut, d) <=> call[t].pc \in MapOut) /\ (In(MapOut, d)' <=> call'[t].pc \in MapOut)
  BY <1>1, <1>4
<1>6. Wrapped' \subseteq Devices /\ Mapped' \subseteq Devices
  BY DEF Wrapped, Mapped, Counting
<1>. QED  BY <1>2, <1>5, <1>6, WrappedIs

-----------------------------------------------------------------------------
(* The conjuncts of the invariant that the steps of a call share.          *)

LEMMA AloneMove ==
  ASSUME CallsInv, AloneInv, NEW t \in Threads, NEW p \in Pcs, Goto(t, p), UNCHANGED devs,
         \/ call[t].pc \in Creates /\ p \in Creates
         \/ call[t].pc \in Destroys /\ p \in Destroys
         \/ call[t].pc \in Using /\ p \in Using
  PROVE  AloneInv'
<1>1. call[t].pc # "idle" /\ call[t].pc \in Pcs
  BY DEF Creates, Destroys, Using, Pcs
<1>2. Others(t) /\ call'[t].pc = p /\ call'[t].dev = call[t].dev
  BY <1>1, Moved
<1>3. \A s \in Threads : /\ call'[s].dev = call[s].dev
                         /\ call'[s].pc \in Creates <=> call[s].pc \in Creates
                         /\ call'[s].pc \in Destroys <=> call[s].pc \in Destroys
                         /\ call'[s].pc \in Using <=> call[s].pc \in Using
                         /\ call'[s].pc = "idle" <=> call[s].pc = "idle"
  BY <1>1, <1>2 DEF Others, Creates, Destroys, Using
<1>. QED  BY <1>3 DEF AloneInv

LEMMA AloneLeft ==
  ASSUME CallsInv, AloneInv, NEW t \in Threads, Return(t),
         \/ UNCHANGED devs
         \/ /\ call[t].pc \in Creates \cup Destroys
            /\ \A e \in Devices \ {call[t].dev} : devs'[e] = devs[e]
  PROVE  AloneInv'
<1>1. Others(t) /\ call'[t].pc = "idle"
  BY Left
<1>2. SUFFICES ASSUME NEW s \in Threads, call'[s].pc # "idle"
      PROVE  /\ call'[s].pc \in Creates => devs'[call'[s].dev] = NoFd
             /\ call'[s].pc \in Using \cup Destroys => devs'[call'[s].dev] # NoFd
             /\ \A r \in Threads :
                  call'[s].pc \in Creates \cup Destroys /\ call'[r].pc # "idle"
                    /\ call'[r].dev = call'[s].dev => r = s
  BY DEF AloneInv, Creates, Destroys, Using
<1>3. s # t /\ call'[s] = call[s] /\ call[s].pc # "idle"
  BY <1>1, <1>2 DEF Others
<1>4. call[s].dev \in Devices
  BY <1>3 DEF CallsInv, CallOk, Idle
<1>5. devs'[call[s].dev] = devs[call[s].dev]
  BY <1>3, <1>4 DEF AloneInv
<1>6. \A r \in Threads : call'[r].pc # "idle" => call'[r] = call[r]
  BY <1>1 DEF Others
<1>. QED  BY <1>3, <1>5, <1>6 DEF AloneInv

LEMMA AloneBegun ==
  ASSUME CallsInv, AloneInv, NEW t \in Threads, NEW p \in Pcs, NEW d \in Devices,
         Begin(t, p, d), UNCHANGED devs,
         \/ p \in Creates /\ devs[d] = NoFd /\ On(d) = {}
         \/ p \in Destroys /\ devs[d] # NoFd /\ On(d) = {}
         \/ p \in Using /\ devs[d] # NoFd /\ On(d) \cap Managing = {}
  PROVE  AloneInv'
<1>1. Others(t) /\ call[t].pc = "idle" /\ call'[t].pc = p /\ call'[t].dev = d
  BY Begun
<1>2. \A s \in Threads : call[s].pc # "idle" /\ call[s].dev = d => s \in On(d)
  BY DEF On, Busy, At
<1>3. \A s \in Threads : call[s].pc \in Creates \cup Destroys => call[s].pc # "idle" /\ s \in Managing
  BY DEF Creates, Destroys, Managing, Creating
<1>4. \A s \in Threads : s # t /\ call[s].pc \in Creates \cup Destroys => call[s].dev # d
  BY <1>2, <1>3
<1>5. p \in Creates \cup Destroys =>
        \A s \in Threads : s # t /\ call[s].pc # "idle" => call[s].dev # d
  BY <1>2 DEF Creates, Destroys, Using
<1>6. SUFFICES ASSUME NEW s \in Threads
      PROVE  /\ call'[s].pc \in Creates => devs'[call'[s].dev] = NoFd
             /\ call'[s].pc \in Using \cup Destroys => devs'[call'[s].dev] # NoFd
             /\ \A r \in Threads :
                  call'[s].pc \in Creates \cup Destroys /\ call'[r].pc # "idle"
                    /\ call'[r].dev = call'[s].dev => r = s
  BY DEF AloneInv
<1>7. CASE s = t
  <2>1. /\ p \in Creates => devs[d] = NoFd
        /\ p \in Using \cup Destroys => devs[d] # NoFd
    BY DEF Creates, Destroys, Using
  <2>. QED  BY <1>1, <1>5, <1>7, <2>1 DEF Others
<1>8. CASE s # t
  <2>1. call'[s] = call[s]
    BY <1>1, <1>8 DEF Others
  <2>2. ASSUME NEW r \in Threads, call[s].pc \in Creates \cup Destroys,
               call'[r].pc # "idle", call'[r].dev = call[s].dev
        PROVE  r = s
    <3>1. r # t
      BY <1>1, <1>4, <1>8, <2>2
    <3>. QED  BY <1>1, <2>2, <3>1 DEF Others, AloneInv
  <2>. QED  BY <2>1, <2>2 DEF AloneInv
<1>. QED  BY <1>7, <1>8

LEMMA IonSame == ASSUME IonInv, UNCHANGED <<ion, devs>> PROVE IonInv'
BY DEF IonInv, Live

\* A step in which no device starts or stops counting.
LEMMA Uncounted ==
  ASSUME DeviceInv, NEW t \in Threads, Others(t), CallsInv', AloneInv', MutexInv',
         UNCHANGED <<wrapper, mapper, ion, devs>>,
         call[t].pc \notin WrapIn \cup WrapOut, call'[t].pc \notin WrapIn \cup WrapOut
  PROVE  DeviceInv'
<1>1. Wrapped' = Wrapped /\ Mapped' = Mapped
  BY OutSets
<1>2. IonInv'
  BY IonSame DEF DeviceInv
<1>3. Covers(wrapper, Wrapped)' /\ Covers(mapper, Mapped)'
  BY <1>1 DEF DeviceInv, Covers
<1>. QED  BY <1>2, <1>3 DEF DeviceInv

-----------------------------------------------------------------------------
(* Every action preserves the invariant.                                   *)

LEMMA BeginSafe ==
  ASSUME DeviceInv, NEW t \in Threads, NEW d \in Devices,
         CreateCall(t, d) \/ DestroyCall(t, d) \/ UseCall(t, d)
  PROVE  DeviceInv'
<1>. USE DEF DeviceInv
<1>1. PICK p \in {"wrap", "unwrap", "query"} :
        /\ Begin(t, p, d) /\ UNCHANGED <<wrapper, mapper, mutex, ion, devs>>
        /\ \/ p = "wrap" /\ devs[d] = NoFd /\ On(d) = {}
           \/ p = "unwrap" /\ devs[d] # NoFd /\ On(d) = {}
           \/ p = "query" /\ devs[d] # NoFd /\ On(d) \cap Managing = {}
  BY DEF CreateCall, DestroyCall, UseCall, Live
<1>2. p \in Pcs
  BY DEF Pcs, Using, Creates, Destroys
<1>3. AloneInv'
  BY <1>1, <1>2, AloneBegun DEF Using, Creates, Destroys
<1>4. CallsInv' /\ Others(t) /\ call[t].pc = "idle" /\ call'[t].pc = p
  BY <1>1, <1>2, Begun
<1>5. MutexInv'
  BY <1>1 DEF MutexInv
<1>6. call[t].pc \notin WrapIn \cup WrapOut /\ call'[t].pc \notin WrapIn \cup WrapOut
  BY <1>4 DEF WrapIn, WrapOut
<1>. QED  BY <1>1, <1>3, <1>4, <1>5, <1>6, Uncounted

LEMMA UseSafe ==
  ASSUME DeviceInv, NEW t \in Threads, UseQuery(t) \/ UseLock(t) \/ UseAccess(t)
  PROVE  DeviceInv'
<1>. USE DEF DeviceInv
<1>1. MutexInv' /\ UNCHANGED <<wrapper, mapper, ion, devs>>
  BY DEF UseQuery, UseLock, UseAccess, MutexInv
<1>2. call[t].pc \in Using
  BY DEF UseQuery, UseLock, UseAccess, At, Using
<1>3. CASE Return(t)
  <2>1. CallsInv' /\ Others(t) /\ call'[t].pc = "idle" /\ AloneInv'
    BY <1>1, <1>3, Left, AloneLeft
  <2>2. call[t].pc \notin WrapIn \cup WrapOut /\ call'[t].pc \notin WrapIn \cup WrapOut
    BY <1>2, <2>1 DEF WrapIn, WrapOut, Using
  <2>. QED  BY <1>1, <2>1, <2>2, Uncounted
<1>4. CASE \E p \in {"lock", "access"} : Goto(t, p)
  <2>1. PICK p \in {"lock", "access"} : Goto(t, p)
    BY <1>4
  <2>2. p \in Using /\ p \in Pcs /\ call[t].pc # "idle"
    BY <1>2 DEF Pcs, Using
  <2>3. CallsInv' /\ Others(t) /\ call'[t].pc = p
    BY <2>1, <2>2, Moved
  <2>4. AloneInv'
    BY <1>1, <1>2, <2>1, <2>2, AloneMove
  <2>5. call[t].pc \notin WrapIn \cup WrapOut /\ call'[t].pc \notin WrapIn \cup WrapOut
    BY <1>2, <2>2, <2>3 DEF WrapIn, WrapOut, Using
  <2>. QED  BY <1>1, <2>3, <2>4, <2>5, Uncounted
<1>. QED  BY <1>3, <1>4 DEF UseQuery, UseLock, UseAccess

\* A step of device management from one program counter to the next.
LEMMA ManageMoves ==
  ASSUME DeviceInv, NEW t \in Threads, NEW p, Goto(t, p), UNCHANGED <<ion, devs>>,
         (call[t].pc \in Creates /\ p \in Creates) \/ (call[t].pc \in Destroys /\ p \in Destroys)
  PROVE  /\ CallsInv' /\ AloneInv' /\ IonInv'
         /\ \E d \in Devices :
              /\ call[t].dev = d
              /\ devs[d] = NoFd <=> call[t].pc \in Creates
              /\ \A e \in Devices \ {d} : (e \in Wrapped' <=> e \in Wrapped)
                                          /\ (e \in Mapped' <=> e \in Mapped)
              /\ d \in Wrapped <=> call[t].pc \in WrapIn \/ (devs[d] # NoFd /\ call[t].pc \notin WrapOut)
              /\ d \in Wrapped' <=> p \in WrapIn \/ (devs[d] # NoFd /\ p \notin WrapOut)
              /\ d \in Mapped <=> call[t].pc \in MapIn \/ (devs[d] # NoFd /\ call[t].pc \notin MapOut)
              /\ d \in Mapped' <=> p \in MapIn \/ (devs[d] # NoFd /\ p \notin MapOut)
              /\ Wrapped \subseteq Devices /\ Mapped \subseteq Devices
              /\ Wrapped' \subseteq Devices /\ Mapped' \subseteq Devices
<1>. USE DEF DeviceInv
<1>1. p \in Pcs /\ call[t].pc # "idle" /\ call[t].pc \in Creates \cup Destroys
  BY DEF Pcs, Creates, Destroys
<1>2. /\ CallsInv' /\ Others(t) /\ call[t].dev \in Devices
      /\ call'[t].pc = p /\ call'[t].dev = call[t].dev
  BY <1>1, Moved
<1>3. AloneInv' /\ IonInv'
  BY <1>1, AloneMove, IonSame
<1>4. PICK d \in Devices : call[t].dev = d
  BY <1>2
<1>5. devs[d] = NoFd <=> call[t].pc \in Creates
  BY <1>1, <1>4 DEF AloneInv
<1>6. \A e \in Devices \ {d} : devs'[e] = devs[e]
  OBVIOUS
<1>7. call'[t].pc # "idle" => call'[t].dev = d
  BY <1>2, <1>4
<1>8. /\ \A e \in Devices \ {d} : (e \in Wrapped' <=> e \in Wrapped)
                                  /\ (e \in Mapped' <=> e \in Mapped)
      /\ d \in Wrapped <=> call[t].pc \in WrapIn \/ (devs[d] # NoFd /\ call[t].pc \notin WrapOut)
      /\ d \in Wrapped' <=>
           call'[t].pc \in WrapIn \/ (devs'[d] # NoFd /\ call'[t].pc \notin WrapOut)
      /\ d \in Mapped <=> call[t].pc \in MapIn \/ (devs[d] # NoFd /\ call[t].pc \notin MapOut)
      /\ d \in Mapped' <=>
           call'[t].pc \in MapIn \/ (devs'[d] # NoFd /\ call'[t].pc \notin MapOut)
      /\ Wrapped' \subseteq Devices /\ Mapped' \subseteq Devices
  BY <1>1, <1>2, <1>4, <1>6, <1>7, OwnSets
<1>9. devs'[d] = devs[d]
  OBVIOUS
<1>. QED  BY <1>2, <1>3, <1>4, <1>5, <1>8, <1>9, CountingType

LEMMA MoveSafe ==
  ASSUME Finite, DeviceInv, NEW t \in Threads,
         \/ CreateWrap(t) \/ CreateMap(t) \/ CreateLockInit(t)
         \/ DestroyWrap(t) \/ DestroyMap(t) \/ DestroyLock(t)
  PROVE  DeviceInv'
<1>1. PICK p : /\ Goto(t, p) /\ UNCHANGED <<ion, devs>>
               /\ \/ /\ call[t].pc = "wrap" /\ p = "map"
                     /\ wrapper' = Instance(wrapper) /\ mapper' = mapper
                  \/ /\ call[t].pc = "map" /\ p = "lockinit"
                     /\ wrapper' = wrapper /\ mapper' = Instance(mapper)
                  \/ /\ call[t].pc = "lockinit" /\ p = "ion"
                     /\ wrapper' = wrapper /\ mapper' = mapper
                  \/ /\ call[t].pc = "unwrap" /\ p = "unmap"
                     /\ wrapper' = Deinstance(wrapper) /\ mapper' = mapper
                  \/ /\ call[t].pc = "unmap" /\ p = "lockdestroy"
                     /\ wrapper' = wrapper /\ mapper' = Deinstance(mapper)
                  \/ /\ call[t].pc = "lockdestroy" /\ p = "release"
                     /\ wrapper' = wrapper /\ mapper' = mapper
  BY DEF CreateMap, CreateLockInit, CreateWrap, DestroyWrap, DestroyMap, DestroyLock, At
<1>2. MutexInv'
  <2>1. mutex \in [ready : BOOLEAN, owner : Threads \cup {Free}]
    BY DEF DeviceInv, MutexInv
  <2>2. CASE CreateLockInit(t)
    BY <2>2 DEF CreateLockInit, MutexInv
  <2>3. CASE DestroyLock(t)
    BY <2>1, <2>3 DEF DestroyLock, MutexInv
  <2>4. CASE CreateMap(t) \/ CreateWrap(t) \/ DestroyWrap(t) \/ DestroyMap(t)
    <3>1. mutex' = mutex
      BY <2>4 DEF CreateMap, CreateWrap, DestroyWrap, DestroyMap
    <3>. QED  BY <2>1, <3>1 DEF MutexInv
  <2>. QED  BY <2>2, <2>3, <2>4
<1>3. (call[t].pc \in Creates /\ p \in Creates) \/ (call[t].pc \in Destroys /\ p \in Destroys)
  BY <1>1 DEF Creates, Destroys
<1>4. CallsInv' /\ AloneInv' /\ IonInv'
  BY <1>1, <1>3, ManageMoves
<1>5. PICK d \in Devices :
        /\ call[t].dev = d
        /\ devs[d] = NoFd <=> call[t].pc \in Creates
        /\ \A e \in Devices \ {d} : (e \in Wrapped' <=> e \in Wrapped)
                                    /\ (e \in Mapped' <=> e \in Mapped)
        /\ d \in Wrapped <=> call[t].pc \in WrapIn \/ (devs[d] # NoFd /\ call[t].pc \notin WrapOut)
        /\ d \in Wrapped' <=> p \in WrapIn \/ (devs[d] # NoFd /\ p \notin WrapOut)
        /\ d \in Mapped <=> call[t].pc \in MapIn \/ (devs[d] # NoFd /\ call[t].pc \notin MapOut)
        /\ d \in Mapped' <=> p \in MapIn \/ (devs[d] # NoFd /\ p \notin MapOut)
        /\ Wrapped \subseteq Devices /\ Mapped \subseteq Devices
        /\ Wrapped' \subseteq Devices /\ Mapped' \subseteq Devices
  BY <1>1, <1>3, ManageMoves
<1>6. Covers(wrapper, Wrapped) /\ Covers(mapper, Mapped)
  BY DEF DeviceInv
<1>7. Covers(wrapper, Wrapped)'
  <2>1. CASE call[t].pc = "wrap"
    <3>1. d \notin Wrapped /\ Wrapped' = Wrapped \cup {d}
      BY <1>1, <1>5, <2>1 DEF Creates, WrapIn, WrapOut
    <3>2. wrapper' = Instance(wrapper)
      BY <1>1, <2>1
    <3>3. Covers(Instance(wrapper), Wrapped \cup {d})
      BY <1>5, <1>6, <3>1, CountUp
    <3>. QED  BY <3>1, <3>2, <3>3 DEF Covers
  <2>2. CASE call[t].pc = "unwrap"
    <3>1. d \in Wrapped /\ Wrapped' = Wrapped \ {d}
      BY <1>1, <1>5, <2>2 DEF Creates, WrapIn, WrapOut
    <3>2. wrapper' = Deinstance(wrapper)
      BY <1>1, <2>2
    <3>3. Covers(Deinstance(wrapper), Wrapped \ {d})
      BY <1>5, <1>6, <3>1, CountDown
    <3>. QED  BY <3>1, <3>2, <3>3 DEF Covers
  <2>3. CASE call[t].pc \notin {"wrap", "unwrap"}
    <3>1. Wrapped' = Wrapped /\ wrapper' = wrapper
      BY <1>1, <1>5, <2>3 DEF Creates, WrapIn, WrapOut
    <3>. QED  BY <1>6, <3>1 DEF Covers
  <2>. QED  BY <2>1, <2>2, <2>3
<1>8. Covers(mapper, Mapped)'
  <2>1. CASE call[t].pc = "map"
    <3>1. d \notin Mapped /\ Mapped' = Mapped \cup {d}
      BY <1>1, <1>5, <2>1 DEF Creates, MapIn, MapOut
    <3>2. mapper' = Instance(mapper)
      BY <1>1, <2>1
    <3>3. Covers(Instance(mapper), Mapped \cup {d})
      BY <1>5, <1>6, <3>1, CountUp
    <3>. QED  BY <3>1, <3>2, <3>3 DEF Covers
  <2>2. CASE call[t].pc = "unmap"
    <3>1. d \in Mapped /\ Mapped' = Mapped \ {d}
      BY <1>1, <1>5, <2>2 DEF Creates, MapIn, MapOut
    <3>2. mapper' = Deinstance(mapper)
      BY <1>1, <2>2
    <3>3. Covers(Deinstance(mapper), Mapped \ {d})
      BY <1>5, <1>6, <3>1, CountDown
    <3>. QED  BY <3>1, <3>2, <3>3 DEF Covers
  <2>3. CASE call[t].pc \notin {"map", "unmap"}
    <3>1. Mapped' = Mapped /\ mapper' = mapper
      BY <1>1, <1>5, <2>3 DEF Creates, MapIn, MapOut
    <3>. QED  BY <1>6, <3>1 DEF Covers
  <2>. QED  BY <2>1, <2>2, <2>3
<1>. QED  BY <1>2, <1>4, <1>7, <1>8 DEF DeviceInv

\* What a step that ends device management does to the calls and the two sets.
LEMMA ManageEnds ==
  ASSUME DeviceInv, NEW t \in Threads, Return(t), UNCHANGED <<wrapper, mapper, mutex>>,
         call[t].pc \in {"ion", "release"},
         \A e \in Devices \ {call[t].dev} : devs'[e] = devs[e]
  PROVE  /\ CallsInv' /\ AloneInv' /\ MutexInv'
         /\ \E d \in Devices :
              /\ call[t].dev = d
              /\ devs[d] = NoFd <=> call[t].pc = "ion"
              /\ d \in Wrapped <=> call[t].pc = "ion"
              /\ d \in Mapped <=> call[t].pc = "ion"
              /\ d \in Wrapped' <=> devs'[d] # NoFd
              /\ d \in Mapped' <=> devs'[d] # NoFd
              /\ \A e \in Devices \ {d} : (e \in Wrapped' <=> e \in Wrapped)
                                          /\ (e \in Mapped' <=> e \in Mapped)
              /\ Wrapped \subseteq Devices /\ Mapped \subseteq Devices
              /\ Wrapped' \subseteq Devices /\ Mapped' \subseteq Devices
<1>. USE DEF DeviceInv
<1>1. call[t].pc \in Creates \cup Destroys
  BY DEF Creates, Destroys
<1>2. CallsInv' /\ Others(t) /\ call'[t].pc = "idle"
  BY Left
<1>3. AloneInv'
  BY <1>1, AloneLeft
<1>4. MutexInv'
  BY DEF MutexInv
<1>5. PICK d \in Devices : call[t].dev = d
  BY DEF CallsInv, CallOk, Idle
<1>6. devs[d] = NoFd <=> call[t].pc = "ion"
  BY <1>5 DEF AloneInv, Creates, Destroys
<1>7. /\ \A e \in Devices \ {d} : (e \in Wrapped' <=> e \in Wrapped)
                                  /\ (e \in Mapped' <=> e \in Mapped)
      /\ d \in Wrapped <=> call[t].pc \in WrapIn \/ (devs[d] # NoFd /\ call[t].pc \notin WrapOut)
      /\ d \in Wrapped' <=>
           call'[t].pc \in WrapIn \/ (devs'[d] # NoFd /\ call'[t].pc \notin WrapOut)
      /\ d \in Mapped <=> call[t].pc \in MapIn \/ (devs[d] # NoFd /\ call[t].pc \notin MapOut)
      /\ d \in Mapped' <=>
           call'[t].pc \in MapIn \/ (devs'[d] # NoFd /\ call'[t].pc \notin MapOut)
      /\ Wrapped' \subseteq Devices /\ Mapped' \subseteq Devices
  BY <1>1, <1>2, <1>5, OwnSets
<1>8. /\ d \in Wrapped <=> call[t].pc = "ion"
      /\ d \in Mapped <=> call[t].pc = "ion"
      /\ d \in Wrapped' <=> devs'[d] # NoFd
      /\ d \in Mapped' <=> devs'[d] # NoFd
  BY <1>2, <1>6, <1>7 DEF WrapIn, WrapOut, MapIn, MapOut
<1>. QED  BY <1>2, <1>3, <1>4, <1>5, <1>6, <1>7, <1>8, CountingType

LEMMA CreateIonSafe ==
  ASSUME Finite, DeviceInv, NEW t \in Threads, CreateIon(t)
  PROVE  DeviceInv'
<1>. USE DEF DeviceInv
<1>1. call[t].pc = "ion" /\ Return(t) /\ UNCHANGED <<wrapper, mapper, mutex>>
  BY DEF CreateIon, At
<1>2. \A e \in Devices \ {call[t].dev} : devs'[e] = devs[e]
  BY DEF CreateIon, IonInv
<1>3. CallsInv' /\ AloneInv' /\ MutexInv'
  BY <1>1, <1>2, ManageEnds
<1>4. PICK d \in Devices :
        /\ call[t].dev = d /\ devs[d] = NoFd
        /\ d \in Wrapped /\ d \in Mapped
        /\ d \in Wrapped' <=> devs'[d] # NoFd
        /\ d \in Mapped' <=> devs'[d] # NoFd
        /\ \A e \in Devices \ {d} : (e \in Wrapped' <=> e \in Wrapped)
                                    /\ (e \in Mapped' <=> e \in Mapped)
        /\ Wrapped \subseteq Devices /\ Mapped \subseteq Devices
        /\ Wrapped' \subseteq Devices /\ Mapped' \subseteq Devices
  BY <1>1, <1>2, ManageEnds
<1>5. Covers(wrapper, Wrapped) /\ Covers(mapper, Mapped)
  OBVIOUS
<1>6. CASE UNCHANGED <<ion, devs>>
  <2>1. Wrapped' = Wrapped \ {d} /\ Mapped' = Mapped \ {d}
    BY <1>4, <1>6
  <2>2. IonInv'
    BY <1>6, IonSame
  <2>3. IonFails
    <3>1. CASE ~IonFails
      <4>1. devs' = [devs EXCEPT ![d] = LowestFd]
        BY <1>4, <3>1 DEF CreateIon
      <4>2. devs'[d] = LowestFd /\ LowestFd # NoFd
        BY <1>4, <4>1, FreeFd DEF IonInv
      <4>. QED  BY <1>4, <1>6, <4>2
    <3>. QED  BY <3>1
  <2>4. Covers(wrapper, Wrapped \ {d}) /\ Covers(mapper, Mapped \ {d})
    BY <1>4, <1>5, <2>3, CountLost
  <2>. QED  BY <1>1, <1>3, <2>1, <2>2, <2>4 DEF Covers
<1>7. CASE ion' = ion \cup {LowestFd} /\ devs' = [devs EXCEPT ![d] = LowestFd]
  <2>1. PICK n \in Fds : n = LowestFd
    BY <1>4, FreeFd
  <2>2. n \notin ion /\ n # NoFd /\ (StdinOpen => n # 0)
    BY <1>4, <2>1, FreeFd
  <2>3. ion' = ion \cup {n} /\ devs' = [devs EXCEPT ![d] = n]
    BY <1>7, <2>1
  <2>4. devs'[d] = n /\ \A e \in Devices \ {d} : devs'[e] = devs[e]
    BY <2>3 DEF IonInv
  <2>5. Wrapped' = Wrapped /\ Mapped' = Mapped
    BY <1>4, <2>2, <2>4
  <2>6. Live' = Live \cup {d} /\ d \notin Live
    BY <1>4, <2>2, <2>4 DEF Live
  <2>7. IonInv'
    <3>1. devs' \in [Devices -> Fds \cup {NoFd}] /\ ion' \subseteq Fds
      BY <2>3 DEF IonInv
    <3>2. \A e \in Live' : devs'[e] \in ion'
      BY <2>3, <2>4, <2>6 DEF IonInv, Live
    <3>3. \A m \in ion' : m = 0 \/ \E e \in Live' : devs'[e] = m
      <4>1. ASSUME NEW m \in ion, m # 0
            PROVE  \E e \in Live' : devs'[e] = m
        <5>1. PICK e \in Live : devs[e] = m
          BY <4>1 DEF IonInv
        <5>. QED  BY <2>4, <2>6, <5>1 DEF Live
      <4>. QED  BY <2>3, <2>4, <2>6, <4>1
    <3>4. StdinOpen => 0 \notin ion'
      BY <2>2, <2>3 DEF IonInv
    <3>5. \A e, f \in Live' : devs'[e] = devs'[f] => e = f
      <4>1. \A e \in Live : devs[e] \in ion /\ devs'[e] = devs[e]
        BY <2>4, <2>6 DEF IonInv, Live
      <4>2. \A e, f \in Live : devs[e] = devs[f] => e = f
        BY DEF IonInv
      <4>. QED  BY <2>2, <2>4, <2>6, <4>1, <4>2
    <3>. QED  BY <3>1, <3>2, <3>3, <3>4, <3>5 DEF IonInv
  <2>. QED  BY <1>1, <1>3, <1>5, <2>5, <2>7 DEF Covers
<1>. QED  BY <1>4, <1>6, <1>7 DEF CreateIon

LEMMA DestroyReleaseSafe ==
  ASSUME DeviceInv, NEW t \in Threads, DestroyRelease(t)
  PROVE  DeviceInv'
<1>. USE DEF DeviceInv
<1>1. /\ call[t].pc = "release" /\ Return(t) /\ UNCHANGED <<wrapper, mapper, mutex>>
      /\ ion' = Closed(ion, devs[call[t].dev])
      /\ devs' = [devs EXCEPT ![call[t].dev] = NoFd]
  BY DEF DestroyRelease, At
<1>2. \A e \in Devices \ {call[t].dev} : devs'[e] = devs[e]
  BY <1>1 DEF IonInv
<1>3. CallsInv' /\ AloneInv' /\ MutexInv'
  BY <1>1, <1>2, ManageEnds
<1>4. PICK d \in Devices :
        /\ call[t].dev = d /\ devs[d] # NoFd
        /\ d \notin Wrapped /\ d \notin Mapped
        /\ d \in Wrapped' <=> devs'[d] # NoFd
        /\ d \in Mapped' <=> devs'[d] # NoFd
        /\ \A e \in Devices \ {d} : (e \in Wrapped' <=> e \in Wrapped)
                                    /\ (e \in Mapped' <=> e \in Mapped)
        /\ Wrapped \subseteq Devices /\ Mapped \subseteq Devices
        /\ Wrapped' \subseteq Devices /\ Mapped' \subseteq Devices
  BY <1>1, <1>2, ManageEnds
<1>5. devs'[d] = NoFd
  BY <1>1, <1>4 DEF IonInv
<1>6. Wrapped' = Wrapped /\ Mapped' = Mapped
  BY <1>4, <1>5
<1>7. Covers(wrapper, Wrapped)' /\ Covers(mapper, Mapped)'
  BY <1>1, <1>6 DEF Covers
<1>8. PICK n : n = devs[d]
  OBVIOUS
<1>9. n \in Fds /\ n \in ion /\ Live' = Live \ {d} /\ d \in Live
      /\ \A e \in Live' : e # d /\ devs'[e] = devs[e] /\ devs[e] # n /\ e \in Live
  <2>1. d \in Live /\ n \in Fds /\ n \in ion
    BY <1>4, <1>8 DEF IonInv, Live
  <2>2. Live' = Live \ {d}
    BY <1>2, <1>4, <1>5 DEF Live
  <2>3. \A e \in Live' : e # d /\ devs'[e] = devs[e] /\ e \in Live
    BY <1>2, <1>4, <2>2 DEF Live
  <2>4. \A e \in Live' : devs[e] # n
    BY <1>8, <2>1, <2>2 DEF IonInv
  <2>. QED  BY <2>1, <2>2, <2>3, <2>4
<1>10. ion' = (IF n > 0 THEN ion \ {n} ELSE ion)
  BY <1>1, <1>4, <1>8 DEF Closed
<1>11. n > 0 \/ n = 0
  BY <1>9, \A c : c \in Fds => c > 0 \/ c = 0 DEF Fds
<1>12. IonInv'
  <2>1. devs' \in [Devices -> Fds \cup {NoFd}] /\ ion' \subseteq Fds
    BY <1>1, <1>10 DEF IonInv
  <2>2. \A e \in Live' : devs'[e] \in ion'
    BY <1>9, <1>10 DEF IonInv
  <2>3. \A m \in ion' : m = 0 \/ \E e \in Live' : devs'[e] = m
    <3>1. ASSUME NEW m \in ion', m # 0
          PROVE  \E e \in Live' : devs'[e] = m
      <4>1. m \in ion /\ m # n
        BY <1>10, <1>11, <3>1
      <4>2. PICK e \in Live : devs[e] = m
        BY <3>1, <4>1 DEF IonInv
      <4>3. e \in Live'
        BY <1>8, <1>9, <4>1, <4>2
      <4>. QED  BY <1>9, <4>2, <4>3
    <3>. QED  BY <3>1
  <2>4. StdinOpen => 0 \notin ion'
    BY <1>10 DEF IonInv
  <2>5. \A e, f \in Live' : devs'[e] = devs'[f] => e = f
    BY <1>9 DEF IonInv
  <2>. QED  BY <2>1, <2>2, <2>3, <2>4, <2>5 DEF IonInv
<1>. QED  BY <1>3, <1>7, <1>12

-----------------------------------------------------------------------------
LEMMA NoneCount == Cardinality({}) = 0 /\ 0 \in Nat
BY FS_EmptySet

LEMMA InitDevice == Init => DeviceInv
<1>. SUFFICES ASSUME Init PROVE DeviceInv
  OBVIOUS
<1>. USE DEF Init
<1>1. CallsInv /\ MutexInv
  BY DEF CallsInv, CallOk, MutexInv
<1>2. \A t \in Threads : call[t].pc = "idle"
  BY DEF Idle
<1>3. AloneInv
  BY <1>2 DEF AloneInv, Creates, Destroys, Using
<1>4. Live = {}
  BY DEF Live
<1>5. IonInv
  BY <1>4 DEF IonInv
<1>6. Wrapped = {} /\ Mapped = {}
  BY <1>2 DEF Wrapped, Mapped, Counting, In
<1>7. Covers(wrapper, {}) /\ Covers(mapper, {})
  <2>1. wrapper \in Singleton /\ mapper \in Singleton
    BY DEF Singleton
  <2>. QED  BY <2>1, NoneCount DEF Covers
<1>. QED  BY <1>1, <1>3, <1>5, <1>6, <1>7 DEF DeviceInv

LEMMA NextDevice == ASSUME Finite, DeviceInv, [Next]_vars PROVE DeviceInv'
<1>1. CASE UNCHANGED vars
  <2>1. Wrapped' = Wrapped /\ Mapped' = Mapped
    BY <1>1 DEF vars, Wrapped, Mapped, Counting, In
  <2>2. IonInv'
    BY <1>1, IonSame DEF vars, DeviceInv
  <2>3. CallsInv' /\ AloneInv' /\ MutexInv'
    BY <1>1 DEF vars, DeviceInv, CallsInv, AloneInv, MutexInv
  <2>4. Covers(wrapper, Wrapped)' /\ Covers(mapper, Mapped)'
    BY <1>1, <2>1 DEF vars, DeviceInv, Covers
  <2>. QED  BY <2>2, <2>3, <2>4 DEF DeviceInv
<1>2. ASSUME NEW t \in Threads, NEW d \in Devices,
             CreateCall(t, d) \/ DestroyCall(t, d) \/ UseCall(t, d)
      PROVE  DeviceInv'
  BY <1>2, BeginSafe
<1>3. ASSUME NEW t \in Threads, UseQuery(t) \/ UseLock(t) \/ UseAccess(t)
      PROVE  DeviceInv'
  BY <1>3, UseSafe
<1>4. ASSUME NEW t \in Threads, Manage(t)
      PROVE  DeviceInv'
  <2>1. CASE CreateIon(t)
    BY <2>1, CreateIonSafe
  <2>2. CASE DestroyRelease(t)
    BY <2>2, DestroyReleaseSafe
  <2>. QED  BY <1>4, <2>1, <2>2, MoveSafe DEF Manage
<1>. QED  BY <1>1, <1>2, <1>3, <1>4 DEF Next

LEMMA AlwaysDevice == ASSUME Finite PROVE Spec => []DeviceInv
<1>1. DeviceInv /\ [Next]_vars => DeviceInv'
  BY NextDevice
<1>. QED  BY <1>1, InitDevice, PTL DEF Spec

\* Whatever devices are created, used and destroyed by whatever threads, the shared
\* instances, the mutex and the descriptors keep their types.
THEOREM TypeCorrect == ASSUME Finite PROVE Spec => []TypeOK
<1>1. DeviceInv => TypeOK
  BY DEF DeviceInv, TypeOK, Covers, IonInv, MutexInv
<1>. QED  BY <1>1, AlwaysDevice, PTL

\* platform_wrap_deinstnce and msmgbm_mapper_deinstnce never delete an instance that a
\* device, and so a call on it, still counts on.
THEOREM SingletonsAlive == ASSUME Finite PROVE Spec => []SingletonsThere
<1>1. ASSUME NEW i, NEW U, U \subseteq Devices, Covers(i, U), U # {}
      PROVE  i.alive
  <2>1. PICK d \in U : TRUE
    BY <1>1
  <2>2. Cardinality(U \ {d}) = Cardinality(U) - 1 /\ Cardinality(U) \in Nat
        /\ Cardinality(U \ {d}) \in Nat
    BY <1>1, FiniteCount
  <2>. QED  BY <1>1, <2>2 DEF Covers, Singleton
<1>2. ASSUME DeviceInv, NEW t \in Threads, call[t].pc \in Using
      PROVE  Wrapped # {} /\ Mapped # {}
  <2>1. PICK d \in Devices : d = call[t].dev
    BY <1>2 DEF DeviceInv, CallsInv, CallOk, Idle, Using
  <2>2. devs[d] # NoFd
    BY <1>2, <2>1 DEF DeviceInv, AloneInv
  <2>3. call[t].pc # "idle" /\ call[t].pc \notin Destroys
    BY <1>2 DEF Using, Destroys
  <2>4. \A s \in Threads : call[s].pc \in Destroys => call[s].dev # d
    BY <1>2, <2>1, <2>3 DEF DeviceInv, AloneInv
  <2>5. ~In(WrapOut, d) /\ ~In(MapOut, d)
    BY <2>4 DEF In, WrapOut, MapOut, Destroys
  <2>. QED  BY <2>2, <2>5, WrappedIs
<1>3. DeviceInv => SingletonsThere
  <2>. SUFFICES ASSUME DeviceInv, NEW t \in Threads
       PROVE  /\ At(t, "query") => wrapper.alive
              /\ At(t, "access") => mapper.alive
    BY DEF SingletonsThere
  <2>1. call[t].pc \in Using => wrapper.alive /\ mapper.alive
    BY <1>1, <1>2, CountingType DEF DeviceInv
  <2>. QED  BY <2>1 DEF At, Using
<1>. QED  BY <1>3, AlwaysDevice, PTL

\* When no ion_open fails and the process has its standard input, the client that has
\* destroyed its devices has left nothing of them behind.
THEOREM EverythingReturned ==
  ASSUME Finite, ~IonFails, StdinOpen PROVE Spec => []NothingLeft
<1>1. DeviceInv => NothingLeft
  <2>. SUFFICES ASSUME DeviceInv, Live = {}, Busy = {}
       PROVE  ~wrapper.alive /\ ~mapper.alive /\ ion = {}
    BY DEF NothingLeft
  <2>1. \A t \in Threads : call[t].pc = "idle"
    BY DEF Busy, At
  <2>2. Wrapped = {} /\ Mapped = {}
    BY <2>1 DEF Wrapped, Mapped, Counting, In, Live
  <2>3. ~wrapper.alive /\ ~mapper.alive
    BY <2>2, NoneCount DEF DeviceInv, Covers
  <2>4. ion = {}
    BY DEF DeviceInv, IonInv
  <2>. QED  BY <2>3, <2>4
<1>. QED  BY <1>1, AlwaysDevice, PTL
=============================================================================
