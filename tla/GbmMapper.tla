------------------------------- MODULE GbmMapper -------------------------------
(***************************************************************************)
(* The per-process buffer registry of msmgbm_mapper.cpp: gbm_buf_map_, a   *)
(* map from an ION fd to what the process knows of the buffer behind it    *)
(* and to the number of buffer objects that share it.  The registry is a   *)
(* function whose domain is the set of registered fds; the operators below *)
(* are the class's methods.  Width, height and format of an entry are only *)
(* ever printed, so an entry here is its metadata fd, its two CPU          *)
(* addresses and its reference count.                                      *)
(***************************************************************************)
EXTENDS Integers

NoFd == -1      \* the -1 the callers store for "no metadata fd"
NULL == 0       \* the null CPU address

\* A finite map with key k added or overwritten, and with the keys in S removed.
Put(f, k, v) == [x \in DOMAIN f \cup {k} |-> IF x = k THEN v ELSE f[x]]
Drop(f, S)   == [x \in DOMAIN f \ S |-> f[x]]

EmptyMap == [x \in {} |-> x]

\* f maps some of the keys in S to members of T.
MapsTo(f, S, T) == DOMAIN f \subseteq S /\ \A x \in DOMAIN f : f[x] \in T

Registered(reg, fd) == fd \in DOMAIN reg

\* What a caller holds after search_map: the entry, or the values its locals
\* had before the call ({NULL, NULL} addresses; no metadata fd).
Lookup(reg, fd) ==
  IF Registered(reg, fd)
  THEN reg[fd]
  ELSE [mfd |-> NoFd, cpu |-> NULL, mt |-> NULL, ref |-> 0]

\* std::unordered_map::emplace: an existing entry is left as it is.
Register(reg, fd, mfd, cpu, mt) ==
  IF Registered(reg, fd)
  THEN reg
  ELSE Put(reg, fd, [mfd |-> mfd, cpu |-> cpu, mt |-> mt, ref |-> 0])

\* Mutant of Update: the count starts again.
UpdateResetsRef(reg, fd, mfd, cpu, mt) ==
  IF Registered(reg, fd)
  THEN Put(reg, fd, [mfd |-> mfd, cpu |-> cpu, mt |-> mt, ref |-> 0])
  ELSE reg

\* update_map overwrites everything but the count.
Update(reg, fd, mfd, cpu, mt) ==
  IF Registered(reg, fd)
  THEN Put(reg, fd, [mfd |-> mfd, cpu |-> cpu, mt |-> mt, ref |-> reg[fd].ref])
  ELSE reg

\* Mutant of IncRef: registering is taken for the first reference, which is
\* never counted.
IncRefForgotten(reg, fd) == reg

IncRef(reg, fd) ==
  IF Registered(reg, fd)
  THEN [reg EXCEPT ![fd].ref = @ + 1]
  ELSE reg

\* Mutant of LastRef: the count is compared before it is decremented.
LastRefTooEarly(reg, fd) == Registered(reg, fd) => reg[fd].ref <= 2

\* del_map_entry returns 1: the count reaches zero, or nothing is registered.
LastRef(reg, fd) == Registered(reg, fd) => reg[fd].ref = 1

\* Mutant of DecRef: the entry is never erased.
DecRefKeepsEntry(reg, fd) ==
  IF Registered(reg, fd) THEN [reg EXCEPT ![fd].ref = @ - 1] ELSE reg

\* The registry del_map_entry leaves behind.
DecRef(reg, fd) ==
  IF ~Registered(reg, fd) THEN reg
  ELSE IF LastRef(reg, fd) THEN Drop(reg, {fd})
  ELSE [reg EXCEPT ![fd].ref = @ - 1]

RefOf(reg, fd) == Lookup(reg, fd).ref
=============================================================================
