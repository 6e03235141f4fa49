----------------------------- MODULE GbmSwapChain -----------------------------
(***************************************************************************)
(* What a surface promises (gbm.c): each of its buffers is in exactly one  *)
(* pair of hands.  It waits in the pool, is drawn on by one renderer, is   *)
(* the new front buffer, or is shown by one compositor, and goes round in  *)
(* that order.                                                             *)
(***************************************************************************)
EXTENDS Integers

CONSTANTS Slots, Renderers, Compositors

VARIABLE owner  \* slot -> None, Pool, Front, or the thread holding the buffer

None == "none"    \* the surface does not exist
Pool == "pool"
Front == "front"

Init == owner = [i \in Slots |-> None]

Move(i, from, to) == owner[i] = from /\ owner' = [owner EXCEPT ![i] = to]

Create ==
  /\ \A i \in Slots : owner[i] = None
  /\ owner' = [i \in Slots |-> Pool]

\* "All buffers locked ... should be released prior to calling this function."
Destroy ==
  /\ \A i \in Slots : owner[i] \in {Pool, Front}
  /\ owner' = [i \in Slots |-> None]

Acquire(r, i) == Move(i, Pool, r)
Submit(r, i)  == Move(i, r, Front)
Show(c, i)    == Move(i, Front, c)
Return(c, i)  == Move(i, c, Pool)

Next ==
  \/ Create
  \/ Destroy
  \/ \E i \in Slots :
       \/ \E r \in Renderers : Acquire(r, i) \/ Submit(r, i)
       \/ \E c \in Compositors : Show(c, i) \/ Return(c, i)

Spec == Init /\ [][Next]_owner
=============================================================================
