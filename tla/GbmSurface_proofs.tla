--------------------------- MODULE GbmSurface_proofs ---------------------------
(***************************************************************************)
(* Proofs about GbmSurface, for any number of buffers: that its variables  *)
(* are well typed whatever the threads do, and, where the scans exclude    *)
(* each other or there is one thread on each side, that a buffer is in one *)
(* thread's hands and goes round as GbmSwapChain says.                     *)
(***************************************************************************)
EXTENDS GbmSurface, TLAPS

-----------------------------------------------------------------------------
(* Types.                                                                  *)

\* What a thread's role lets it call, and what it is in the middle of.
Calling ==
  \A t \in Threads : LET c == call[t] IN
    /\ c.op = "none" <=> c.at = "out"
    /\ c.op \in {"get_free", "has_free", "set_front"} => t \in Renderers
    /\ c.op \in {"lock_front", "release"} => t \in Compositors
    /\ c.at = "take" => c.op # "has_free"

TypeInv == TypeOK /\ Calling

\* A scan that is not over looks at a slot, and so does the next step of it.
LEMMA NextSlot ==
  ASSUME NEW i \in Slots, NEW op, i < LastSlot(op, i)
  PROVE  i + 1 \in Slots
BY SurfaceAssumption DEF Slots, LastSlot

LEMMA InitType == Init => TypeInv
BY SurfaceAssumption DEF Init, TypeInv, TypeOK, Calling, Idle, Ops, Slots, NONE

\* Entering a call.
LEMMA CallType ==
  ASSUME TypeInv, NEW t \in Threads, NEW op \in Ops \ {"none"}, NEW slot \in Slots,
         op \in {"get_free", "has_free", "set_front"} => t \in Renderers,
         op \in {"lock_front", "release"} => t \in Compositors,
         Call(t, op, slot), UNCHANGED <<state, mutex, mine, promised>>
  PROVE  TypeInv'
BY DEF TypeInv, TypeOK, Calling, Call, Ops

LEMMA EnterType == TypeInv /\ Enter => TypeInv'
<1> SUFFICES ASSUME TypeInv, Enter PROVE TypeInv'
  OBVIOUS
<1>1. 0 \in Slots
  BY SurfaceAssumption DEF Slots
<1>2. \A t \in Threads : mine[t] \subseteq Slots
  BY DEF TypeInv, TypeOK
<1>3. ASSUME NEW r \in Renderers, GetFree(r) \/ HasFree(r) \/ SetFront(r) PROVE TypeInv'
  <2>1. r \in Threads
    BY DEF Threads
  <2>2. PICK op \in {"get_free", "has_free", "set_front"}, slot \in Slots : Call(r, op, slot)
    BY <1>1, <1>2, <1>3, <2>1 DEF GetFree, HasFree, SetFront
  <2>. QED  BY <2>1, <2>2, CallType DEF Enter, Ops
<1>4. ASSUME NEW c \in Compositors, LockFront(c) \/ Release(c) PROVE TypeInv'
  <2>1. c \in Threads
    BY DEF Threads
  <2>2. PICK op \in {"lock_front", "release"}, slot \in Slots : Call(c, op, slot)
    BY <1>1, <1>2, <1>4, <2>1 DEF LockFront, Release
  <2>. QED  BY <2>1, <2>2, CallType DEF Enter, Ops
<1>. QED  BY <1>3, <1>4 DEF Enter

\* Every step inside a call.
LEMMA StepType == ASSUME TypeInv, NEW t \in Threads, Step(t) PROVE TypeInv'
<1>1. 0 \in Slots
  BY SurfaceAssumption DEF Slots
<1>2. call[t] \in [op : Ops, at : {"out", "lock", "look", "take"}, slot : Slots]
  BY DEF TypeInv, TypeOK
<1>3. CASE Lock(t)
  BY <1>3 DEF Lock, TypeInv, TypeOK, Calling
<1>4. CASE LookHit(t)
  BY <1>1, <1>4 DEF LookHit, Leave, Idle, TypeInv, TypeOK, Calling, Threads, Ops
<1>5. CASE LookOn(t)
  <2>1. call[t].slot + 1 \in Slots
    BY <1>2, <1>5, NextSlot DEF LookOn
  <2>. QED  BY <1>5, <2>1 DEF LookOn, TypeInv, TypeOK, Calling
<1>6. CASE LookFails(t)
  BY <1>1, <1>6 DEF LookFails, Leave, Idle, TypeInv, TypeOK, Calling, Ops
<1>7. CASE Take(t)
  <2>1. Becomes(call[t].op) \in {FREE, INUSE_BY_GPU, NEW_FRONT_BUFFER, INUSE_BY_COMPOSITOR}
    BY <1>2, <1>7 DEF Take, Becomes, TypeInv, Calling, Ops
  <2>. QED  BY <1>1, <1>2, <1>7, <2>1 DEF Take, Leave, Idle, TypeInv, TypeOK, Calling, Ops
<1>. QED  BY <1>3, <1>4, <1>5, <1>6, <1>7 DEF Step

LEMMA NextType == TypeInv /\ [Next]_vars => TypeInv'
<1> SUFFICES ASSUME TypeInv, [Next]_vars PROVE TypeInv'
  OBVIOUS
<1>1. CASE SurfaceCreate
  BY <1>1 DEF SurfaceCreate, TypeInv, TypeOK, Calling
<1>2. CASE SurfaceDestroy
  BY <1>2 DEF SurfaceDestroy, TypeInv, TypeOK, Calling
<1>3. CASE UNCHANGED vars
  BY <1>3 DEF vars, TypeInv, TypeOK, Calling
<1>. QED  BY <1>1, <1>2, <1>3, EnterType, StepType DEF Next

\* Whatever the threads call, careful or not, under a lock or not, every slot
\* index lies within the surface and every state is one of the five.
THEOREM TypeCorrect == Spec => []TypeOK
<1>1. TypeInv => TypeOK
  BY DEF TypeInv
<1>. QED  BY InitType, NextType, <1>1, PTL DEF Spec

-----------------------------------------------------------------------------
(* Hands.  The premises: threads pass only buffers they hold, and either a *)
(* scan excludes the others or each side is one thread.                    *)

OneEachSide ==
  /\ \A r, s \in Renderers : r = s
  /\ \A c, d \in Compositors : c = d

Served == ~Careless /\ (Guarded \/ OneEachSide)

\* A buffer in a thread's hands is in the state that thread gave it, ...
Held ==
  \A t \in Threads : \A i \in mine[t] :
    state[i] = IF t \in Renderers THEN INUSE_BY_GPU ELSE INUSE_BY_COMPOSITOR

\* ... what a thread passes is in its hands, ...
Passed ==
  \A t \in Threads :
    call[t].op \in {"set_front", "release"} => call[t].slot \in mine[t]

\* ... what it is about to take is still there, ...
Taking ==
  \A t \in Threads : call[t].at = "take" => state[call[t].slot] = Wanted(call[t].op)

\* ... and the scanning thread holds the mutex, if there is one.
Locked ==
  Guarded => \A t \in Threads : call[t].at \in {"look", "take"} => mutex = t

HandsInv == TypeInv /\ Held /\ Passed /\ Taking /\ Locked /\ Exclusive

\* Renderers and compositors want buffers in different states.
LEMMA WantedApart ==
  ASSUME Served, HandsInv, NEW t \in Threads, NEW u \in Threads, t # u,
         call[t].at = "take", call[u].at = "take"
  PROVE  call[t].slot # call[u].slot
<1>1. ~Guarded
  BY DEF HandsInv, Locked
<1>2. /\ Wanted(call[t].op) = state[call[t].slot]
      /\ Wanted(call[u].op) = state[call[u].slot]
  BY DEF HandsInv, Taking
<1>3. /\ call[t].op \in {"get_free", "set_front", "lock_front", "release"}
      /\ call[u].op \in {"get_free", "set_front", "lock_front", "release"}
  BY DEF HandsInv, TypeInv, TypeOK, Calling, Ops
<1>4. \/ t \in Renderers /\ u \in Compositors
      \/ t \in Compositors /\ u \in Renderers
  BY <1>1 DEF Served, OneEachSide, Threads
<1>5. \A v \in Threads :
        /\ call[v].op \in {"get_free", "set_front"} => v \notin Compositors
        /\ call[v].op \in {"lock_front", "release"} => v \notin Renderers
  BY SurfaceAssumption DEF HandsInv, TypeInv, Calling
<1>6. \/ Wanted(call[t].op) \in {FREE, INUSE_BY_GPU}
         /\ Wanted(call[u].op) \in {NEW_FRONT_BUFFER, INUSE_BY_COMPOSITOR}
      \/ Wanted(call[u].op) \in {FREE, INUSE_BY_GPU}
         /\ Wanted(call[t].op) \in {NEW_FRONT_BUFFER, INUSE_BY_COMPOSITOR}
  BY <1>3, <1>4, <1>5 DEF Wanted
<1>. QED  BY <1>2, <1>6 DEF FREE, INUSE_BY_GPU, NEW_FRONT_BUFFER, INUSE_BY_COMPOSITOR

\* A buffer that is free or queued is in nobody's hands.
LEMMA Unheld ==
  ASSUME HandsInv, NEW i \in Slots, state[i] \in {FREE, NEW_FRONT_BUFFER, NONE}
  PROVE  \A t \in Threads : i \notin mine[t]
BY DEF HandsInv, Held, FREE, NEW_FRONT_BUFFER, NONE, INUSE_BY_GPU, INUSE_BY_COMPOSITOR

LEMMA InitHands == Init => HandsInv
<1> SUFFICES ASSUME Init PROVE HandsInv
  OBVIOUS
<1>1. TypeInv
  BY InitType
<1>2. \A t \in Threads : mine[t] = {} /\ call[t] = Idle
  BY DEF Init
<1>. QED
  BY <1>1, <1>2 DEF HandsInv, Held, Passed, Taking, Locked, Exclusive, Idle

\* Beginning a call changes nobody's hands.
LEMMA EnterHands == Served /\ HandsInv /\ Enter => HandsInv'
<1> SUFFICES ASSUME Served, HandsInv, Enter PROVE HandsInv'
  OBVIOUS
<1>1. TypeInv'
  BY EnterType DEF HandsInv
<1>2. UNCHANGED <<state, mutex, mine>>
  BY DEF Enter
<1>3. Held' /\ Exclusive'
  BY <1>2 DEF HandsInv, Held, Exclusive
<1>4. PICK t \in Threads, op \in Ops, slot \in Slots :
        /\ Call(t, op, slot)
        /\ op \in {"set_front", "release"} => slot \in mine[t]
  <2>1. 0 \in Slots
    BY SurfaceAssumption DEF Slots
  <2>2. \A u \in Threads : mine[u] \subseteq Slots
    BY DEF HandsInv, TypeInv, TypeOK
  <2>. QED
    BY <2>1, <2>2 DEF Enter, GetFree, HasFree, SetFront, LockFront, Release, Served, Threads, Ops
<1>5. \A u \in Threads :
        IF u = t THEN call'[u] = [op |-> op, at |-> IF Guarded THEN "lock" ELSE "look",
                                  slot |-> slot]
        ELSE call'[u] = call[u]
  BY <1>4 DEF Call, HandsInv, TypeInv, TypeOK
<1>6. Passed'
  BY <1>2, <1>4, <1>5 DEF HandsInv, Passed
<1>7. Taking'
  BY <1>2, <1>5 DEF HandsInv, Taking
<1>8. Locked'
  BY <1>2, <1>5 DEF HandsInv, Locked
<1>. QED  BY <1>1, <1>3, <1>6, <1>7, <1>8 DEF HandsInv

\* The five steps inside a call, one by one.
LEMMA LockHands == ASSUME HandsInv, NEW t \in Threads, Lock(t) PROVE HandsInv'
<1>1. TypeInv'
  BY StepType DEF HandsInv, Step
<1>2. \A u \in Threads :
        IF u = t THEN call'[u].op = call[u].op /\ call'[u].slot = call[u].slot
                      /\ call'[u].at = "look"
        ELSE call'[u] = call[u]
  BY DEF Lock, HandsInv, TypeInv, TypeOK
<1>3. Locked'
  BY <1>2, SurfaceAssumption DEF HandsInv, Lock, Locked
<1>4. Held' /\ Exclusive' /\ Passed' /\ Taking'
  BY <1>2 DEF HandsInv, Lock, Held, Exclusive, Passed, Taking
<1>. QED  BY <1>1, <1>3, <1>4 DEF HandsInv

LEMMA LookHands ==
  ASSUME HandsInv, NEW t \in Threads, LookHit(t) \/ LookOn(t) \/ LookFails(t)
  PROVE  HandsInv'
<1>1. TypeInv'
  BY StepType DEF HandsInv, Step
<1>2. UNCHANGED <<state, mine>> /\ call[t].at = "look"
  BY DEF LookHit, LookOn, LookFails
<1>3. \A u \in Threads : u # t => call'[u] = call[u]
  BY DEF LookHit, LookOn, LookFails, Leave, HandsInv, TypeInv, TypeOK
<1>4. \/ call'[t] = Idle
      \/ /\ call'[t].op = call[t].op /\ mutex' = mutex
         /\ \/ call'[t].at = "look"
               /\ (call'[t].slot = call[t].slot \/ call'[t].slot = call[t].slot + 1)
               /\ call[t].slot < LastSlot(call[t].op, call[t].slot)
            \/ call'[t].at = "take" /\ call'[t].slot = call[t].slot
               /\ state[call[t].slot] = Wanted(call[t].op)
  BY DEF LookHit, LookOn, LookFails, Leave, HandsInv, TypeInv, TypeOK
<1>5. Held' /\ Exclusive'
  BY <1>2 DEF HandsInv, Held, Exclusive
<1>6. Passed'
  BY <1>2, <1>3, <1>4 DEF HandsInv, Passed, TypeInv, TypeOK, LastSlot, Slots, Idle
<1>7. Taking'
  BY <1>2, <1>3, <1>4 DEF HandsInv, Taking, Idle
<1>8. Locked'
  <2> SUFFICES ASSUME Guarded, NEW u \in Threads, call'[u].at \in {"look", "take"}
               PROVE  mutex' = u
    BY DEF Locked
  <2>1. mutex = t
    BY <1>2 DEF HandsInv, Locked
  <2>2. u = t
    BY <1>3, <2>1 DEF HandsInv, Locked
  <2>. QED  BY <1>4, <2>1, <2>2 DEF Idle
<1>. QED  BY <1>1, <1>5, <1>6, <1>7, <1>8 DEF HandsInv

\* Taking a buffer, the only step that moves one.
LEMMA TakeHands == ASSUME Served, HandsInv, NEW t \in Threads, Take(t) PROVE HandsInv'
<1> DEFINE c == call[t]
<1>1. TypeInv /\ TypeInv'
  BY StepType DEF HandsInv, Step
<1>2. /\ c.op \in {"get_free", "set_front", "lock_front", "release"}
      /\ c.slot \in Slots
      /\ c.op \in {"get_free", "set_front"} => t \in Renderers
      /\ c.op \in {"lock_front", "release"} => t \in Compositors /\ t \notin Renderers
  BY <1>1, SurfaceAssumption DEF Take, TypeInv, TypeOK, Calling, Ops
<1>3. state[c.slot] = Wanted(c.op)
  BY DEF HandsInv, Taking, Take
<1>4. /\ state'[c.slot] = Becomes(c.op)
      /\ \A j \in Slots : j # c.slot => state'[j] = state[j]
  BY <1>1, <1>2 DEF Take, TypeInv, TypeOK
<1>5. /\ mine'[t] = IF c.op \in {"get_free", "lock_front"}
                    THEN mine[t] \cup {c.slot} ELSE mine[t] \ {c.slot}
      /\ \A u \in Threads : u # t => mine'[u] = mine[u] /\ call'[u] = call[u]
      /\ call'[t] = Idle
  BY <1>1 DEF Take, Leave, TypeInv, TypeOK
<1>6. \A u \in Threads : mine[u] \subseteq Slots
  BY <1>1 DEF TypeInv, TypeOK
<1>7. \A u \in Threads : u # t => c.slot \notin mine[u]
  <2>1. CASE c.op \in {"get_free", "lock_front"}
    BY <1>2, <1>3, <2>1, Unheld DEF Wanted
  <2>2. CASE c.op \in {"set_front", "release"}
    BY <2>2 DEF HandsInv, Passed, Exclusive
  <2>. QED  BY <1>2, <2>1, <2>2
<1>8. Held'
  <2>1. c.slot \in mine'[t] =>
          state'[c.slot] = IF t \in Renderers THEN INUSE_BY_GPU ELSE INUSE_BY_COMPOSITOR
    BY <1>2, <1>4, <1>5 DEF Becomes
  <2>2. \A u \in Threads : \A j \in mine'[u] : j # c.slot => j \in mine[u]
    BY <1>5
  <2>3. \A u \in Threads : u # t => c.slot \notin mine'[u]
    BY <1>5, <1>7
  <2>. QED  BY <1>4, <1>6, <2>1, <2>2, <2>3 DEF HandsInv, Held
<1>9. Exclusive'
  BY <1>5, <1>7 DEF HandsInv, Exclusive
<1>10. Passed'
  BY <1>5 DEF HandsInv, Passed, Idle
<1>11. Taking'
  <2> SUFFICES ASSUME NEW u \in Threads, call'[u].at = "take"
               PROVE  state'[call'[u].slot] = Wanted(call'[u].op)
    BY DEF Taking
  <2>1. u # t /\ call'[u] = call[u]
    BY <1>5 DEF Idle
  <2>2. call[u].slot # c.slot
    BY <2>1, WantedApart DEF Take
  <2>3. call[u].slot \in Slots
    BY <1>1 DEF TypeInv, TypeOK
  <2>. QED  BY <1>4, <2>1, <2>2, <2>3 DEF HandsInv, Taking
<1>12. Locked'
  BY <1>5 DEF HandsInv, Locked, Take, Idle
<1>. QED  BY <1>1, <1>8, <1>9, <1>10, <1>11, <1>12 DEF HandsInv

LEMMA NextHands == Served /\ HandsInv /\ [Next]_vars => HandsInv'
<1> SUFFICES ASSUME Served, HandsInv, [Next]_vars PROVE HandsInv'
  OBVIOUS
<1>1. TypeInv'
  BY NextType DEF HandsInv
<1>2. ASSUME UNCHANGED <<mutex, call, mine>>, \A t \in Threads : mine[t] = {},
             \A t \in Threads : call[t] = Idle
      PROVE  HandsInv'
  BY <1>1, <1>2 DEF HandsInv, Held, Passed, Taking, Locked, Exclusive, Idle
<1>3. CASE SurfaceCreate
  <2>1. \A t \in Threads : mine[t] = {}
    BY <1>3, Unheld DEF SurfaceCreate, HandsInv, TypeInv, TypeOK
  <2>2. Taking'
    BY <1>3 DEF SurfaceCreate, HandsInv, Taking, Wanted, TypeInv, TypeOK, Calling, Ops,
                NONE, FREE, INUSE_BY_GPU, NEW_FRONT_BUFFER, INUSE_BY_COMPOSITOR
  <2>. QED
    BY <1>1, <1>3, <2>1, <2>2 DEF SurfaceCreate, HandsInv, Held, Passed, Locked, Exclusive
<1>4. CASE SurfaceDestroy
  BY <1>2, <1>4 DEF SurfaceDestroy
<1>5. CASE Enter
  BY <1>5, EnterHands
<1>6. ASSUME NEW t \in Threads, Step(t) PROVE HandsInv'
  BY <1>6, LockHands, LookHands, TakeHands DEF Step
<1>7. CASE UNCHANGED vars
  BY <1>1, <1>7 DEF vars, HandsInv, Held, Passed, Taking, Locked, Exclusive
<1>. QED  BY <1>3, <1>4, <1>5, <1>6, <1>7 DEF Next

LEMMA HandsAlways == ASSUME Served PROVE Spec => []HandsInv
<1>1. Init => HandsInv
  BY InitHands
<1>2. HandsInv /\ [Next]_vars => HandsInv'
  BY NextHands
<1>. QED  BY <1>1, <1>2, PTL DEF Spec

\* With surface_mutex, or with one renderer and one compositor, no buffer is in
\* two threads' hands, however their scans interleave.
THEOREM HandsExclusive == ASSUME Served PROVE Spec => []Exclusive
<1>1. HandsInv => Exclusive
  BY DEF HandsInv
<1>. QED  BY <1>1, HandsAlways, PTL

\* A call to set_front_bo that ends moves the buffer it was passed.
LEMMA SubmitStep ==
  ASSUME HandsInv, [Next]_vars, NEW r \in Renderers,
         call[r].op = "set_front", call[r].slot \in mine[r], call'[r] = Idle
  PROVE  call[r].slot \notin mine'[r]
<1>1. r \in Threads /\ TypeInv /\ call[r].slot \in Slots
  BY DEF Threads, HandsInv, TypeInv, TypeOK
<1>2. call[r] # Idle
  BY DEF Idle
<1>3. state[call[r].slot] = Wanted(call[r].op)
  BY <1>1 DEF HandsInv, Held, Wanted
<1>4. PICK t \in Threads : Step(t)
  BY <1>1, <1>2 DEF Next, SurfaceCreate, SurfaceDestroy, Enter, GetFree, HasFree,
            SetFront, LockFront, Release, Call, vars, TypeInv, TypeOK
<1>5. t = r
  BY <1>1, <1>2, <1>4 DEF Step, Lock, LookHit, LookOn, LookFails, Take, Leave,
                          TypeInv, TypeOK
<1>6. Take(r)
  BY <1>1, <1>3, <1>4, <1>5 DEF Step, Lock, LookHit, LookOn, LookFails, Idle,
                                TypeInv, TypeOK
<1>. QED  BY <1>1, <1>6 DEF Take, TypeInv, TypeOK

\* ... and set_front_bo never refuses a buffer that get_free_bo gave the thread.
THEOREM SubmitNeverRefused == ASSUME Served PROVE Spec => SubmitAccepted
<1>1. HandsInv /\ [Next]_vars =>
        [\A r \in Renderers :
           call[r].op = "set_front" /\ call[r].slot \in mine[r] /\ call'[r] = Idle
             => call[r].slot \notin mine'[r]]_vars
  BY SubmitStep
<1>. QED  BY <1>1, HandsAlways, PTL DEF Spec, SubmitAccepted

-----------------------------------------------------------------------------
(* The refinement.                                                         *)

\* What Owner says of a buffer that a thread holds, and of one that none does.
Lying(s) ==
  CASE s = NONE             -> "none"
    [] s = NEW_FRONT_BUFFER -> "front"
    [] OTHER                -> "pool"

LEMMA LyingIs ==
  Lying(NONE) = "none" /\ Lying(FREE) = "pool" /\ Lying(NEW_FRONT_BUFFER) = "front"
BY DEF Lying, NONE, FREE, NEW_FRONT_BUFFER

LEMMA OwnerIs ==
  ASSUME Exclusive, NEW i \in Slots
  PROVE  /\ \A t \in Threads : i \in mine[t] => Owner(i) = t
         /\ (\A t \in Threads : i \notin mine[t]) => Owner(i) = Lying(state[i])
BY DEF Exclusive, Owner, Lying

LEMMA OwnerBecomes ==
  ASSUME Exclusive', NEW i \in Slots
  PROVE  /\ \A t \in Threads : i \in mine'[t] => Owner(i)' = t
         /\ (\A t \in Threads : i \notin mine'[t]) => Owner(i)' = Lying(state'[i])
BY DEF Exclusive, Owner, Lying

\* A taken buffer moves one place round the cycle; the others stay.
LEMMA TakeMoves ==
  ASSUME Served, HandsInv, HandsInv', NEW t \in Threads, Take(t),
         NEW i, i = call[t].slot, NEW op, op = call[t].op
  PROVE  SwapChain!Next
<1>1. TypeInv /\ Exclusive /\ Exclusive'
  BY DEF HandsInv
<1>2. /\ i \in Slots
      /\ \/ op \in {"get_free", "set_front"} /\ t \in Renderers
         \/ op \in {"lock_front", "release"} /\ t \in Compositors
  <2>1. i \in Slots /\ op \in Ops /\ call[t].at = "take"
    BY <1>1 DEF Take, TypeInv, TypeOK
  <2>2. op \notin {"none", "has_free"}
    BY <1>1, <2>1 DEF TypeInv, Calling
  <2>. QED  BY <1>1, <2>1, <2>2 DEF TypeInv, Calling, Ops
<1>3. /\ state[i] = Wanted(op)
      /\ state'[i] = Becomes(op)
      /\ \A j \in Slots : j # i => state'[j] = state[j]
  BY <1>1, <1>2 DEF HandsInv, Taking, Take, TypeInv, TypeOK
<1>4. /\ mine'[t] = IF op \in {"get_free", "lock_front"}
                    THEN mine[t] \cup {i} ELSE mine[t] \ {i}
      /\ \A u \in Threads : u # t => mine'[u] = mine[u]
  BY <1>1 DEF Take, TypeInv, TypeOK
<1>5. \A j \in Slots : j # i => Owner(j)' = Owner(j)
  <2> SUFFICES ASSUME NEW j \in Slots, j # i PROVE Owner(j)' = Owner(j)
    OBVIOUS
  <2>1. \A u \in Threads : j \in mine'[u] <=> j \in mine[u]
    BY <1>4
  <2>2. state'[j] = state[j]
    BY <1>3
  <2>. QED  BY <1>1, <2>1, <2>2, OwnerIs, OwnerBecomes
<1>6. ASSUME NEW from, NEW to, Owner(i) = from, Owner(i)' = to
      PROVE  SwapChain!Move(i, from, to)
  BY <1>2, <1>5, <1>6 DEF SwapChain!Move
<1>7. CASE op = "get_free"
  <2>1. Owner(i) = "pool"
    BY <1>1, <1>2, <1>3, <1>7, Unheld, OwnerIs
       DEF Wanted, Lying, FREE, NONE, NEW_FRONT_BUFFER
  <2>2. Owner(i)' = t
    BY <1>1, <1>2, <1>4, <1>7, OwnerBecomes
  <2>. QED
    BY <1>2, <1>6, <1>7, <2>1, <2>2 DEF SwapChain!Next, SwapChain!Acquire, SwapChain!Pool
<1>8. CASE op = "lock_front"
  <2>1. Owner(i) = "front"
    BY <1>1, <1>2, <1>3, <1>8, Unheld, OwnerIs
       DEF Wanted, Lying, NONE, NEW_FRONT_BUFFER
  <2>2. Owner(i)' = t
    BY <1>1, <1>2, <1>4, <1>8, OwnerBecomes
  <2>. QED
    BY <1>2, <1>6, <1>8, <2>1, <2>2 DEF SwapChain!Next, SwapChain!Show, SwapChain!Front
<1>9. ASSUME op \in {"set_front", "release"}
      PROVE  Owner(i) = t /\ Owner(i)' = Lying(Becomes(op))
  <2>1. i \in mine[t]
    BY <1>9 DEF HandsInv, Passed
  <2>2. \A u \in Threads : i \notin mine'[u]
    BY <1>1, <1>4, <1>9, <2>1 DEF Exclusive
  <2>. QED  BY <1>1, <1>2, <1>3, <2>1, <2>2, OwnerIs, OwnerBecomes
<1>10. CASE op = "set_front"
  <2>1. Lying(Becomes(op)) = "front"
    BY <1>10 DEF Lying, Becomes, NONE, NEW_FRONT_BUFFER
  <2>. QED
    BY <1>2, <1>6, <1>9, <1>10, <2>1 DEF SwapChain!Next, SwapChain!Submit, SwapChain!Front
<1>11. CASE op = "release"
  <2>1. Lying(Becomes(op)) = "pool"
    BY <1>11 DEF Lying, Becomes, FREE, NONE, NEW_FRONT_BUFFER
  <2>. QED
    BY <1>2, <1>6, <1>9, <1>11, <2>1 DEF SwapChain!Next, SwapChain!Return, SwapChain!Pool
<1>. QED  BY <1>2, <1>7, <1>8, <1>10, <1>11

LEMMA InitRefines == Init => SwapChain!Init
<1> SUFFICES ASSUME Init PROVE SwapChain!Init
  OBVIOUS
<1>1. \A i \in Slots : Owner(i) = "none"
  <2>1. Exclusive
    BY InitHands DEF HandsInv
  <2>. QED  BY <2>1, OwnerIs, LyingIs DEF Init
<1>. QED  BY <1>1 DEF SwapChain!Init, SwapChain!None

LEMMA NextRefines ==
  ASSUME Served, HandsInv, HandsInv', [Next]_vars
  PROVE  [SwapChain!Next]_[i \in Slots |-> Owner(i)]
<1>1. Exclusive /\ Exclusive'
  BY DEF HandsInv
<1>2. ASSUME UNCHANGED <<state, mine>> PROVE \A i \in Slots : Owner(i)' = Owner(i)
  BY <1>2 DEF Owner
<1>3. CASE SurfaceCreate
  <2>1. \A t \in Threads : \A i \in Slots : i \notin mine[t] /\ i \notin mine'[t]
    BY <1>3, Unheld DEF SurfaceCreate
  <2>2. \A i \in Slots : Owner(i) = "none"
    BY <1>1, <1>3, <2>1, OwnerIs, LyingIs DEF SurfaceCreate
  <2>3. \A i \in Slots : Owner(i)' = "pool"
    BY <1>1, <1>3, <2>1, OwnerBecomes, LyingIs DEF SurfaceCreate
  <2>. QED
    BY <2>2, <2>3 DEF SwapChain!Next, SwapChain!Create, SwapChain!None, SwapChain!Pool
<1>4. CASE SurfaceDestroy
  <2>1. \A t \in Threads : mine[t] = {} /\ mine'[t] = {}
    BY <1>4 DEF SurfaceDestroy
  <2>2. \A i \in Slots : Owner(i) \in {"pool", "front"}
    BY <1>1, <1>4, <2>1, OwnerIs DEF SurfaceDestroy, Exists, Lying
  <2>3. \A i \in Slots : Owner(i)' = "none"
    BY <1>1, <1>4, <2>1, OwnerBecomes, LyingIs DEF SurfaceDestroy
  <2>. QED
    BY <2>2, <2>3 DEF SwapChain!Next, SwapChain!Destroy, SwapChain!None, SwapChain!Pool,
                      SwapChain!Front
<1>5. CASE Enter
  BY <1>2, <1>5 DEF Enter
<1>6. ASSUME NEW t \in Threads, Step(t)
      PROVE  [SwapChain!Next]_[i \in Slots |-> Owner(i)]
  <2>1. CASE Take(t)
    BY <2>1, TakeMoves
  <2>2. CASE Lock(t) \/ LookHit(t) \/ LookOn(t) \/ LookFails(t)
    BY <1>2, <2>2 DEF Lock, LookHit, LookOn, LookFails
  <2>. QED  BY <1>6, <2>1, <2>2 DEF Step
<1>7. CASE UNCHANGED vars
  BY <1>2, <1>7 DEF vars
<1>. QED  BY <1>3, <1>4, <1>5, <1>6, <1>7 DEF Next

\* The scans of msmgbm.c and msmgbm_fb.c implement the swap chain: each moves at
\* most one buffer, one place round, out of the right hands.
THEOREM ScansRefine == ASSUME Served PROVE Spec => Refines
<1>1. HandsInv /\ HandsInv' /\ [Next]_vars =>
        [SwapChain!Next]_[i \in Slots |-> Owner(i)]
  BY NextRefines
<1>. QED  BY <1>1, InitRefines, HandsAlways, PTL DEF Spec, Refines, SwapChain!Spec

-----------------------------------------------------------------------------
(* The answer of gbm_surface_has_free_buffers.                             *)

\* A renderer alone, once told of a free buffer, has one ahead of its scan.
OneRenderer == \A r, s \in Renderers : r = s

Ahead(r) ==
  \E i \in Slots : state[i] = FREE /\ (call[r].op = "get_free" => call[r].slot <= i)

KeptInv == HandsInv /\ \A r \in promised : Ahead(r)

\* Only the renderer itself takes a free buffer away.
LEMMA TakeKeeps ==
  ASSUME Served, OneRenderer, KeptInv, NEW t \in Threads, Take(t),
         NEW r \in promised'
  PROVE  Ahead(r)'
<1>1. TypeInv /\ call[t].at = "take" /\ call[t].op \in Ops /\ call[t].slot \in Slots
  BY DEF KeptInv, HandsInv, TypeInv, TypeOK, Take
<1>2. r \in promised /\ r \in Renderers
  BY <1>1 DEF Take, TypeInv, TypeOK
<1>3. call[t].op \notin {"get_free", "has_free", "none"}
  BY <1>1, <1>2 DEF Take, TypeInv, Calling, OneRenderer
<1>4. state[call[t].slot] # FREE
  BY <1>1, <1>3 DEF KeptInv, HandsInv, Taking, Wanted, Ops,
                    FREE, INUSE_BY_GPU, NEW_FRONT_BUFFER, INUSE_BY_COMPOSITOR
<1>5. PICK i \in Slots : state[i] = FREE /\ (call[r].op = "get_free" => call[r].slot <= i)
  BY <1>2 DEF KeptInv, Ahead
<1>6. state'[i] = FREE
  BY <1>1, <1>4, <1>5 DEF Take, TypeInv, TypeOK
<1>7. call'[r].op = "get_free" => call'[r] = call[r]
  BY <1>1, <1>2 DEF Take, Leave, Idle, Threads, TypeInv, TypeOK
<1>. QED  BY <1>5, <1>6, <1>7 DEF Ahead

LEMMA LookKeeps ==
  ASSUME OneRenderer, KeptInv, NEW t \in Threads,
         Lock(t) \/ LookHit(t) \/ LookOn(t) \/ LookFails(t), NEW r \in promised'
  PROVE  Ahead(r)'
<1>1. TypeInv /\ state' = state /\ call[t].slot \in Slots
  BY DEF KeptInv, HandsInv, TypeInv, TypeOK, Lock, LookHit, LookOn, LookFails
<1>2. promised \subseteq Renderers /\ Slots \subseteq Int
  BY <1>1 DEF TypeInv, TypeOK, Slots
<1>3. CASE r \notin promised
  <2>1. state[call[t].slot] = FREE /\ call'[t] = Idle /\ r = t
    BY <1>1, <1>3 DEF Lock, LookHit, LookOn, LookFails, Leave, Wanted, TypeInv, TypeOK
  <2>. QED  BY <1>1, <2>1 DEF Ahead, Idle
<1>4. CASE r \in promised
  <2>1. PICK i \in Slots : state[i] = FREE /\ (call[r].op = "get_free" => call[r].slot <= i)
    BY <1>4 DEF KeptInv, Ahead
  <2>2. ASSUME call'[r].op = "get_free"
        PROVE  /\ call[r].op = "get_free"
               /\ \/ call'[r].slot = call[r].slot
                  \/ call'[r].slot = call[r].slot + 1 /\ state[call[r].slot] # FREE
    BY <1>1, <1>2, <1>4, <2>2 DEF Lock, LookHit, LookOn, LookFails, Leave, Idle, Wanted,
                                  Threads, TypeInv, TypeOK
  <2>3. call[r].slot \in Slots
    BY <1>1, <1>2, <1>4 DEF Threads, TypeInv, TypeOK
  <2>4. call'[r].op = "get_free" => call'[r].slot <= i
    BY <1>2, <2>1, <2>2, <2>3
  <2>. QED  BY <1>1, <2>1, <2>4 DEF Ahead
<1>. QED  BY <1>3, <1>4

LEMMA NextKeeps == Served /\ OneRenderer /\ KeptInv /\ [Next]_vars => KeptInv'
<1> SUFFICES ASSUME Served, OneRenderer, KeptInv, [Next]_vars, NEW r \in promised'
             PROVE  Ahead(r)'
  BY NextHands DEF KeptInv
<1>1. /\ TypeInv
      /\ \A u \in Renderers : u \in Threads /\ call[u].slot \in Slots
  BY DEF KeptInv, HandsInv, TypeInv, TypeOK, Threads
<1>2. Slots \subseteq Int /\ \A i \in Slots : 0 <= i /\ i <= i
  BY DEF Slots
<1>3. CASE SurfaceCreate
  <2>1. r \in Renderers
    BY <1>1, <1>3 DEF SurfaceCreate, TypeInv, TypeOK
  <2>2. call[r].slot \in Slots /\ call[r].slot <= call[r].slot
    BY <1>1, <1>2, <2>1
  <2>3. call' = call /\ state'[call[r].slot] = FREE
    BY <1>3, <2>2 DEF SurfaceCreate
  <2>. QED  BY <2>2, <2>3 DEF Ahead
<1>4. CASE SurfaceDestroy
  BY <1>4 DEF SurfaceDestroy
<1>5. CASE Enter
  <2>1. r \in promised /\ r \in Renderers /\ state' = state
    BY <1>1, <1>5 DEF Enter, TypeInv, TypeOK
  <2>2. call'[r].op = "get_free" => call'[r] = call[r] \/ call'[r].slot = 0
    BY <1>1, <1>5, <2>1 DEF Enter, GetFree, HasFree, SetFront, LockFront, Release, Call,
                            TypeInv, TypeOK
  <2>. QED  BY <1>2, <2>1, <2>2 DEF KeptInv, Ahead
<1>6. ASSUME NEW t \in Threads, Step(t) PROVE Ahead(r)'
  BY <1>6, TakeKeeps, LookKeeps DEF Step
<1>7. CASE UNCHANGED vars
  BY <1>7 DEF vars, KeptInv, Ahead
<1>. QED  BY <1>3, <1>4, <1>5, <1>6, <1>7 DEF Next

\* A get_free_bo that returns NULL has scanned every slot.
LEMMA FreeStep ==
  ASSUME KeptInv, [Next]_vars, NEW r \in promised, call[r].op = "get_free",
         call'[r] = Idle
  PROVE  mine'[r] # {}
<1>1. r \in Threads /\ TypeInv /\ call[r].slot \in Slots
  BY DEF KeptInv, Threads, HandsInv, TypeInv, TypeOK
<1>2. call[r] # Idle
  BY DEF Idle
<1>3. PICK t \in Threads : Step(t)
  BY <1>1, <1>2 DEF Next, SurfaceCreate, SurfaceDestroy, Enter, GetFree, HasFree,
            SetFront, LockFront, Release, Call, vars, TypeInv, TypeOK
<1>4. t = r
  BY <1>1, <1>2, <1>3 DEF Step, Lock, LookHit, LookOn, LookFails, Take, Leave,
                          TypeInv, TypeOK
<1>5. ~LookFails(r)
  BY <1>1 DEF KeptInv, Ahead, LookFails, LastSlot, Wanted, Slots
<1>6. Take(r)
  BY <1>1, <1>3, <1>4, <1>5 DEF Step, Lock, LookHit, LookOn, Idle, TypeInv, TypeOK
<1>. QED  BY <1>1, <1>6 DEF Take, TypeInv, TypeOK

\* A lone renderer that gbm_surface_has_free_buffers told of a free buffer gets
\* one from get_free_bo, whatever the compositors do between the two calls.
THEOREM PromiseKept == ASSUME Served, OneRenderer PROVE Spec => FreeKept
<1>1. Init => KeptInv
  BY InitHands DEF Init, KeptInv
<1>2. KeptInv /\ [Next]_vars => KeptInv'
  BY NextKeeps
<1>3. KeptInv /\ [Next]_vars =>
        [\A r \in promised :
           call[r].op = "get_free" /\ call'[r] = Idle => mine'[r] # {}]_vars
  BY FreeStep
<1>. QED  BY <1>1, <1>2, <1>3, PTL DEF Spec, FreeKept
=============================================================================
