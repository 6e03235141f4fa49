------------------------------- MODULE GbmSharing -------------------------------
(***************************************************************************)
(* What the buffer registry is for, with no registry in it: a descriptor   *)
(* of a buffer stays open as long as some buffer object uses it, and the   *)
(* object that leaves last closes it in the same step.  "The gbm bo shares *)
(* the underlying pixels but its life-time is independent of the foreign   *)
(* object" (gbm_bo_import).  GbmBo implements it call by call,             *)
(* GbmConcurrent step by step.                                             *)
(***************************************************************************)
CONSTANTS Fds, Ids

VARIABLES
  pinned,  \* the open descriptors of buffers
  users    \* who uses a descriptor: fd -> set of objects

vars == <<pinned, users>>

Used == UNION {users[fd] : fd \in Fds}

Init ==
  /\ pinned \subseteq Fds
  /\ users \in [Fds -> SUBSET Ids]
  /\ \A fd \in Fds : users[fd] # {} => fd \in pinned

\* A descriptor arrives, or its last owner outside the library closes it.
Arrive(fd) == fd \notin pinned /\ pinned' = pinned \cup {fd} /\ UNCHANGED users
Close(fd)  == users[fd] = {} /\ pinned' = pinned \ {fd} /\ UNCHANGED users

\* An object is created on a new descriptor, or imported on an open one.
Use(fd, id) ==
  /\ id \notin Used
  /\ fd \notin pinned => users[fd] = {}
  /\ pinned' = pinned \cup {fd}
  /\ users' = [users EXCEPT ![fd] = @ \cup {id}]

\* An object is destroyed; the descriptor goes with the last one, not before.
Leave(fd, id) ==
  /\ id \in users[fd]
  /\ users' = [users EXCEPT ![fd] = @ \ {id}]
  /\ pinned' = IF users[fd] = {id} THEN pinned \ {fd} ELSE pinned

Next ==
  \E fd \in Fds :
    \/ Arrive(fd) \/ Close(fd)
    \/ \E id \in Ids : Use(fd, id) \/ Leave(fd, id)

Spec == Init /\ [][Next]_vars
=============================================================================
