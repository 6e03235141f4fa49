------------------------------- MODULE GbmDevice -------------------------------
(***************************************************************************)
(* The life of devices, and what a device shares with the others of its    *)
(* process: the platform wrapper and the mapper, each behind an instance   *)
(* count with a mutex of its own, and mutex_obj, which every device        *)
(* creation initialises and every device destruction destroys.             *)
(*                                                                         *)
(* A call on a device is reduced to what it needs of these: a query to the *)
(* wrapper, then an access to the mapper between lock() and unlock().      *)
(***************************************************************************)
EXTENDS Integers, FiniteSets

CONSTANTS
  Threads,
  Devices,    \* what calloc may return for a device
  IonFails,   \* may ion_open fail?
  StdinOpen,  \* does the process start with fd 0 in use?
  Alone,      \* are devices created and destroyed with no other call under way?
  MaxDevices, \* how many devices the client has at once
  Free        \* mutex_obj is not held

ASSUME DeviceAssumption ==
  /\ IonFails \in BOOLEAN
  /\ StdinOpen \in BOOLEAN
  /\ Alone \in BOOLEAN
  /\ MaxDevices \in Nat
  /\ Free \notin Threads

VARIABLES
  wrapper,   \* [count, alive]: platform_inst_count_, platform_wrap_ # NULL
  mapper,    \* [count, alive]: msmgbm_inst_count_, msmgbm_mapper_ # NULL
  mutex,     \* [ready, owner]: mutex_obj; ready until it is destroyed
  ion,       \* open descriptors of /dev/ion
  devs,      \* devices the client holds: device -> its iondev_fd
  call       \* what each thread is doing

vars == <<wrapper, mapper, mutex, ion, devs, call>>

NoFd == -1
Fds == 0 .. Cardinality(Devices)
Idle == [pc |-> "idle"]

Init ==
  /\ wrapper = [count |-> 0, alive |-> FALSE]
  /\ mapper = [count |-> 0, alive |-> FALSE]
  /\ mutex = [ready |-> TRUE, owner |-> Free]
  /\ ion = {}
  /\ devs = [d \in Devices |-> NoFd]
  /\ call = [t \in Threads |-> Idle]

-----------------------------------------------------------------------------
At(t, pc) == call[t].pc = pc
Goto(t, pc) == call' = [call EXCEPT ![t].pc = pc]
Return(t) == call' = [call EXCEPT ![t] = Idle]
Begin(t, pc, d) == At(t, "idle") /\ call' = [call EXCEPT ![t] = [pc |-> pc, dev |-> d]]

Live == {d \in Devices : devs[d] # NoFd}
Busy == {t \in Threads : ~At(t, "idle")}
On(d) == {t \in Busy : call[t].dev = d}
Creating == {t \in Threads : call[t].pc \in {"wrap", "map", "lockinit", "ion"}}
Managing == Creating \cup
  {t \in Threads : call[t].pc \in {"unwrap", "unmap", "lockdestroy", "release"}}

\* Mutant of Instance: only the one that makes it counts.
InstanceOnce(i) == IF i.alive THEN i ELSE [count |-> i.count + 1, alive |-> TRUE]

\* platform_wrap_instnce and msmgbm_mapper_instnce: made by the first one, ...
Instance(i) == [count |-> i.count + 1, alive |-> TRUE]

\* Mutant of Deinstance: deleted while others still count on it.
DeinstanceEager(i) == [count |-> i.count - 1, alive |-> FALSE]

\* ... deleted by the last one.
Deinstance(i) == [count |-> i.count - 1, alive |-> i.alive /\ i.count - 1 # 0]

-----------------------------------------------------------------------------
(* gbm_create_device.                                                      *)

CreateCall(t, d) ==
  /\ devs[d] = NoFd /\ On(d) = {}
  /\ Cardinality(Live) + Cardinality(Managing) < MaxDevices
  /\ Alone => Busy = {}
  /\ Begin(t, "wrap", d)
  /\ UNCHANGED <<wrapper, mapper, mutex, ion, devs>>

\* platform_wrap::init always succeeds: without libadreno_utils.so the wrapper does
\* without its Adreno helper.
CreateWrap(t) ==
  /\ At(t, "wrap")
  /\ wrapper' = Instance(wrapper)
  /\ Goto(t, "map")
  /\ UNCHANGED <<mapper, mutex, ion, devs>>

CreateMap(t) ==
  /\ At(t, "map")
  /\ mapper' = Instance(mapper)
  /\ Goto(t, "lockinit")
  /\ UNCHANGED <<wrapper, mutex, ion, devs>>

\* lock_init: whatever state mutex_obj is in, it is unlocked after it.
CreateLockInit(t) ==
  /\ At(t, "lockinit")
  /\ mutex' = [ready |-> TRUE, owner |-> Free]
  /\ Goto(t, "ion")
  /\ UNCHANGED <<wrapper, mapper, ion, devs>>

LowestFd ==
  LET used == ion \cup (IF StdinOpen THEN {0} ELSE {})
      free == Fds \ used
  IN  CHOOSE n \in free : \A k \in free : n <= k

\* ion_open; when it fails nothing that was done is undone.
CreateIon(t) ==
  /\ At(t, "ion")
  /\ \/ /\ ion' = ion \cup {LowestFd}
        /\ devs' = [devs EXCEPT ![call[t].dev] = LowestFd]
     \/ IonFails /\ UNCHANGED <<ion, devs>>
  /\ Return(t)
  /\ UNCHANGED <<wrapper, mapper, mutex>>

-----------------------------------------------------------------------------
(* gbm_device_destroy: the client is done with the device's objects.       *)

DestroyCall(t, d) ==
  /\ d \in Live /\ On(d) = {}
  /\ Alone => Busy = {}
  /\ Begin(t, "unwrap", d)
  /\ UNCHANGED <<wrapper, mapper, mutex, ion, devs>>

DestroyWrap(t) ==
  /\ At(t, "unwrap")
  /\ wrapper' = Deinstance(wrapper)
  /\ Goto(t, "unmap")
  /\ UNCHANGED <<mapper, mutex, ion, devs>>

DestroyMap(t) ==
  /\ At(t, "unmap")
  /\ mapper' = Deinstance(mapper)
  /\ Goto(t, "lockdestroy")
  /\ UNCHANGED <<wrapper, mutex, ion, devs>>

\* lock_destroy: EBUSY while a thread holds it.
DestroyLock(t) ==
  /\ At(t, "lockdestroy")
  /\ mutex' = IF mutex.owner = Free THEN [mutex EXCEPT !.ready = FALSE] ELSE mutex
  /\ Goto(t, "release")
  /\ UNCHANGED <<wrapper, mapper, ion, devs>>

\* Mutant of Closed: the descriptor is not closed.
ClosedNever(fds, n) == fds

\* The ion descriptor is closed if it is > 0.
Closed(fds, n) == IF n > 0 THEN fds \ {n} ELSE fds

DestroyRelease(t) ==
  LET d == call[t].dev
  IN /\ At(t, "release")
     /\ ion' = Closed(ion, devs[d])
     /\ devs' = [devs EXCEPT ![d] = NoFd]
     /\ Return(t)
     /\ UNCHANGED <<wrapper, mapper, mutex>>

-----------------------------------------------------------------------------
(* A call on a live device.                                                *)

UseCall(t, d) ==
  /\ d \in Live /\ On(d) \cap Managing = {}
  /\ Alone => Managing = {}
  /\ Begin(t, "query", d)
  /\ UNCHANGED <<wrapper, mapper, mutex, ion, devs>>

\* qry_size and the like.
UseQuery(t) ==
  /\ At(t, "query")
  /\ Goto(t, "lock")
  /\ UNCHANGED <<wrapper, mapper, mutex, ion, devs>>

MayLock == mutex.owner = Free

\* lock(): pthread_mutex_lock on a destroyed mutex fails, which is only logged.
UseLock(t) ==
  /\ At(t, "lock")
  /\ \/ mutex.ready /\ MayLock /\ mutex' = [mutex EXCEPT !.owner = t]
     \/ ~mutex.ready /\ UNCHANGED mutex
  /\ Goto(t, "access")
  /\ UNCHANGED <<wrapper, mapper, ion, devs>>

\* register_to_hashmap, incr_refcnt and the like, then unlock().
UseAccess(t) ==
  /\ At(t, "access")
  /\ mutex' = IF mutex.ready THEN [mutex EXCEPT !.owner = Free] ELSE mutex
  /\ Return(t)
  /\ UNCHANGED <<wrapper, mapper, ion, devs>>

-----------------------------------------------------------------------------
Manage(t) ==
  \/ CreateWrap(t) \/ CreateMap(t) \/ CreateLockInit(t) \/ CreateIon(t)
  \/ DestroyWrap(t) \/ DestroyMap(t) \/ DestroyLock(t) \/ DestroyRelease(t)

Next ==
  \E t \in Threads :
    \/ \E d \in Devices : CreateCall(t, d) \/ DestroyCall(t, d) \/ UseCall(t, d)
    \/ Manage(t)
    \/ UseQuery(t) \/ UseLock(t) \/ UseAccess(t)

Spec == Init /\ [][Next]_vars

-----------------------------------------------------------------------------
Singleton == [count : Nat, alive : BOOLEAN]

\* Every variable holds what its C counterpart may hold.
TypeOK ==
  /\ wrapper \in Singleton
  /\ mapper \in Singleton
  /\ mutex \in [ready : BOOLEAN, owner : Threads \cup {Free}]
  /\ ion \subseteq Fds
  /\ devs \in [Devices -> Fds \cup {NoFd}]

\* No call finds the wrapper or the mapper deleted: a query runs with the wrapper
\* alive, an access with the mapper alive, however devices come and go.
SingletonsThere ==
  \A t \in Threads :
    /\ At(t, "query") => wrapper.alive
    /\ At(t, "access") => mapper.alive

\* lock() and unlock() around the registry let one thread in at a time.
Exclusive ==
  \A s, t \in Threads : At(s, "access") /\ At(t, "access") => s = t

\* "Destroy the gbm device and free all resources associated with it" (gbm.c,
\* gbm_device_destroy): with no device and no call left, none is held.
NothingLeft ==
  Live = {} /\ Busy = {} => ~wrapper.alive /\ ~mapper.alive /\ ion = {}
=============================================================================
