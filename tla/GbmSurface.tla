------------------------------ MODULE GbmSurface ------------------------------
(***************************************************************************)
(* A surface and its NUM_BACK_BUFFERS buffers, as the threads that render  *)
(* into it and the threads that show it use it, in the build that          *)
(* allocates the buffers with the surface.                                 *)
(*                                                                         *)
(* Every call is a scan of the slots: look at a buffer's current_state,    *)
(* and if it is the one the call wants, overwrite it and return.  The DRM  *)
(* backend (msmgbm.c) does so without a lock, so looking and overwriting   *)
(* are two steps; the FB backend (msmgbm_fb.c) runs the same scans under   *)
(* the global surface_mutex.                                               *)
(***************************************************************************)
EXTENDS Integers

CONSTANTS
  NumBack,      \* NUM_BACK_BUFFERS
  Renderers,    \* threads that draw: get_free_bo, set_front_bo, has_free_buffers
  Compositors,  \* threads that show: lock_front_buffer, release_buffer
  Nobody,       \* the owner of a free mutex
  Guarded,      \* TRUE: the FB backend; FALSE: the DRM backend
  Careless      \* TRUE: buffers a thread does not hold are passed, too

Slots == 0 .. NumBack - 1
Threads == Renderers \cup Compositors

ASSUME SurfaceAssumption ==
  /\ NumBack \in Nat \ {0}
  /\ Renderers \cap Compositors = {}
  /\ Nobody \notin Threads
  /\ {Guarded, Careless} \subseteq BOOLEAN

VARIABLES
  state,    \* slot -> current_state of its buffer, NONE without a surface
  mutex,    \* the owner of surface_mutex
  call,     \* thread -> the call it is in: which, how far, at which slot
  mine,     \* thread -> the buffers it was handed and has not handed back
  promised  \* renderers whose last word from the surface was "has free buffers"

vars == <<state, mutex, call, mine, promised>>

\* GBM_BO_STATE_*, and NONE for a surface that does not exist.
FREE == "FREE"
INUSE_BY_GPU == "GPU"
NEW_FRONT_BUFFER == "FRONT"
INUSE_BY_COMPOSITOR == "COMPOSITOR"
NONE == "NONE"

Exists == \A i \in Slots : state[i] # NONE

Idle == [op |-> "none", at |-> "out", slot |-> 0]

Init ==
  /\ state = [i \in Slots |-> NONE]
  /\ mutex = Nobody
  /\ call = [t \in Threads |-> Idle]
  /\ mine = [t \in Threads |-> {}]
  /\ promised = {}
-----------------------------------------------------------------------------
(* The calls.  set_front_bo and release_buffer compare every slot with the *)
(* buffer they were passed, so only its own slot can match; the others     *)
(* take the lowest slot that does.                                         *)

\* Mutants of Wanted: lock_front_buffer shows what is still drawn on, or
\* set_front_bo expects the buffer to be free.
WantedDrawn(op) ==
  CASE op \in {"get_free", "has_free"}    -> FREE
    [] op \in {"set_front", "lock_front"} -> INUSE_BY_GPU
    [] op = "release"                     -> INUSE_BY_COMPOSITOR

WantedUndrawn(op) ==
  CASE op \in {"get_free", "has_free", "set_front"} -> FREE
    [] op = "lock_front"                            -> NEW_FRONT_BUFFER
    [] op = "release"                               -> INUSE_BY_COMPOSITOR

Wanted(op) ==
  CASE op \in {"get_free", "has_free"} -> FREE
    [] op = "set_front"                -> INUSE_BY_GPU
    [] op = "lock_front"               -> NEW_FRONT_BUFFER
    [] op = "release"                  -> INUSE_BY_COMPOSITOR

\* Mutant of Becomes: a released buffer is queued again.
BecomesQueued(op) ==
  CASE op = "get_free"                -> INUSE_BY_GPU
    [] op \in {"set_front", "release"} -> NEW_FRONT_BUFFER
    [] op = "lock_front"              -> INUSE_BY_COMPOSITOR

Becomes(op) ==
  CASE op = "get_free"   -> INUSE_BY_GPU
    [] op = "set_front"  -> NEW_FRONT_BUFFER
    [] op = "lock_front" -> INUSE_BY_COMPOSITOR
    [] op = "release"    -> FREE

\* Mutants of LastSlot: the loop runs one slot too far, or get_free_bo's one too
\* short.
LastSlotTooFar(op, slot) ==
  IF op \in {"set_front", "release"} THEN slot ELSE NumBack

LastSlotTooShort(op, slot) ==
  CASE op \in {"set_front", "release"} -> slot
    [] op = "get_free"                 -> NumBack - 2
    [] OTHER                           -> NumBack - 1

LastSlot(op, slot) == IF op \in {"set_front", "release"} THEN slot ELSE NumBack - 1

\* Entering a call: surface_lock() comes first where there is one.
Call(t, op, slot) ==
  /\ Exists
  /\ call[t] = Idle
  /\ call' = [call EXCEPT ![t] =
                [op |-> op, at |-> IF Guarded THEN "lock" ELSE "look", slot |-> slot]]

\* Mutant of Lock: nobody waits.
LockIgnored(t) ==
  /\ call[t].at = "lock"
  /\ mutex' = t
  /\ call' = [call EXCEPT ![t].at = "look"]
  /\ UNCHANGED <<state, mine, promised>>

Lock(t) ==
  /\ call[t].at = "lock"
  /\ mutex = Nobody
  /\ mutex' = t
  /\ call' = [call EXCEPT ![t].at = "look"]
  /\ UNCHANGED <<state, mine, promised>>

\* surface_unlock() and return.
Leave(t) ==
  /\ mutex' = IF mutex = t THEN Nobody ELSE mutex
  /\ call' = [call EXCEPT ![t] = Idle]

\* The FB release_buffer returns from its "BO is not locked" path with
\* surface_mutex held.
Unlocks(op) == ~(Guarded /\ op = "release")

LookHit(t) ==
  LET c == call[t]
  IN /\ c.at = "look"
     /\ state[c.slot] = Wanted(c.op)
     /\ IF c.op = "has_free"
        THEN Leave(t) /\ promised' = promised \cup {t}
        ELSE /\ call' = [call EXCEPT ![t].at = "take"]
             /\ UNCHANGED <<mutex, promised>>
     /\ UNCHANGED <<state, mine>>

\* Mutant of LookOn: the loop variable is not advanced.
LookOnStays(t) ==
  LET c == call[t]
  IN /\ c.at = "look"
     /\ state[c.slot] # Wanted(c.op)
     /\ c.slot < LastSlot(c.op, c.slot)
     /\ UNCHANGED vars

LookOn(t) ==
  LET c == call[t]
  IN /\ c.at = "look"
     /\ state[c.slot] # Wanted(c.op)
     /\ c.slot < LastSlot(c.op, c.slot)
     /\ call' = [call EXCEPT ![t].slot = @ + 1]
     /\ UNCHANGED <<state, mutex, mine, promised>>

LookFails(t) ==
  LET c == call[t]
  IN /\ c.at = "look"
     /\ state[c.slot] # Wanted(c.op)
     /\ c.slot = LastSlot(c.op, c.slot)
     /\ IF Unlocks(c.op) THEN Leave(t)
        ELSE call' = [call EXCEPT ![t] = Idle] /\ UNCHANGED mutex
     /\ promised' = IF c.op \in {"get_free", "has_free"} THEN promised \ {t} ELSE promised
     /\ UNCHANGED <<state, mine>>

\* The buffer changes state, and hands with it.
Take(t) ==
  LET c == call[t]
  IN /\ c.at = "take"
     /\ state' = [state EXCEPT ![c.slot] = Becomes(c.op)]
     /\ mine' = [mine EXCEPT ![t] =
                   IF c.op \in {"get_free", "lock_front"}
                   THEN @ \cup {c.slot} ELSE @ \ {c.slot}]
     /\ promised' = IF c.op = "get_free" THEN promised \ {t} ELSE promised
     /\ Leave(t)

Step(t) == Lock(t) \/ LookHit(t) \/ LookOn(t) \/ LookFails(t) \/ Take(t)
-----------------------------------------------------------------------------
(* The threads' side.                                                      *)

\* The client: a renderer gives up its buffer before it asks for another one.
GetFree(r) == mine[r] = {} /\ Call(r, "get_free", 0)

HasFree(r) == mine[r] = {} /\ Call(r, "has_free", 0)

SetFront(r) == \E i \in (IF Careless THEN Slots ELSE mine[r]) : Call(r, "set_front", i)

LockFront(c) == Call(c, "lock_front", 0)

Release(c) == \E i \in (IF Careless THEN Slots ELSE mine[c]) : Call(c, "release", i)

\* msmgbm_surface_create, when no buffer allocation fails.
SurfaceCreate ==
  /\ \A i \in Slots : state[i] = NONE
  /\ state' = [i \in Slots |-> FREE]
  /\ UNCHANGED <<mutex, call, mine, promised>>

\* msmgbm_surface_destroy, by a client that has handed everything back.
SurfaceDestroy ==
  /\ Exists
  /\ \A t \in Threads : call[t] = Idle /\ mine[t] = {}
  /\ state' = [i \in Slots |-> NONE]
  /\ promised' = {}
  /\ UNCHANGED <<mutex, call, mine>>

Enter ==
  /\ \/ \E r \in Renderers : GetFree(r) \/ HasFree(r) \/ SetFront(r)
     \/ \E c \in Compositors : LockFront(c) \/ Release(c)
  /\ UNCHANGED <<state, mutex, mine, promised>>

Next ==
  \/ SurfaceCreate
  \/ SurfaceDestroy
  \/ Enter
  \/ \E t \in Threads : Step(t)

Spec == Init /\ [][Next]_vars

\* The scheduler runs every thread that can run.
FairSpec == Spec /\ \A t \in Threads : WF_vars(Step(t))
-----------------------------------------------------------------------------
Ops == {"none", "get_free", "has_free", "set_front", "lock_front", "release"}

\* Every variable holds what its C counterpart may hold.
TypeOK ==
  /\ state \in [Slots -> {FREE, INUSE_BY_GPU, NEW_FRONT_BUFFER, INUSE_BY_COMPOSITOR, NONE}]
  /\ mutex \in Threads \cup {Nobody}
  /\ call \in [Threads -> [op : Ops, at : {"out", "lock", "look", "take"}, slot : Slots]]
  /\ mine \in [Threads -> SUBSET Slots]
  /\ promised \subseteq Renderers

\* No buffer is in two threads' hands: nobody draws on what is being shown.
Exclusive == \A t, u \in Threads : t # u => mine[t] \cap mine[u] = {}

\* The message of set_front_bo's error path, "Passed BO was not obtained using
\* msmgbm_surface_get_free_bo": a buffer that was obtained so is accepted.
SubmitAccepted ==
  [][\A r \in Renderers :
       call[r].op = "set_front" /\ call[r].slot \in mine[r] /\ call'[r] = Idle
         => call[r].slot \notin mine'[r]]_vars

\* gbm.c, gbm_surface_has_free_buffers: a renderer that was told there is a free
\* buffer gets one.
FreeKept ==
  [][\A r \in promised :
       call[r].op = "get_free" /\ call'[r] = Idle => mine'[r] # {}]_vars

\* Every call comes back, whatever the other threads do.
CallReturns == \A t \in Threads : call[t] # Idle ~> call[t] = Idle

\* The surface mutex, once taken, is given back.
MutexReleased == (mutex # Nobody) ~> (mutex = Nobody)

\* The ownership the surface promises, as the buffers' states and hands show it.
Owner(i) ==
  IF \E t \in Threads : i \in mine[t] THEN CHOOSE t \in Threads : i \in mine[t]
  ELSE CASE state[i] = NONE -> "none"
         [] state[i] = NEW_FRONT_BUFFER -> "front"
         [] OTHER           -> "pool"

SwapChain == INSTANCE GbmSwapChain WITH owner <- [i \in Slots |-> Owner(i)]

\* Every scan, however it interleaves with the others, moves one buffer one
\* place round the cycle, out of the right hands.
Refines == SwapChain!Spec
=============================================================================
