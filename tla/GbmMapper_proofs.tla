--------------------------- MODULE GbmMapper_proofs ---------------------------
(***************************************************************************)
(* What the registry's methods do to an entry's count, and that they keep  *)
(* the registry a map from fds to entries.                                 *)
(***************************************************************************)
EXTENDS GbmMapper, TLAPS

\* Adding or overwriting a key keeps a map within its sets.
LEMMA PutMapsTo ==
  ASSUME NEW f, NEW S, NEW T, MapsTo(f, S, T), NEW k \in S, NEW v \in T
  PROVE  MapsTo(Put(f, k, v), S, T)
BY DEF MapsTo, Put

\* So does removing keys.
LEMMA DropMapsTo ==
  ASSUME NEW f, NEW S, NEW T, MapsTo(f, S, T), NEW K
  PROVE  MapsTo(Drop(f, K), S, T)
BY DEF MapsTo, Drop

\* What an entry is made of, for any set of metadata fds M and of addresses A.
EntryOf(M, A) == [mfd : M, cpu : A, mt : A, ref : Nat]

\* A caller that looks an fd up holds metadata fd and addresses of an entry.
LEMMA LookupType ==
  ASSUME NEW r, NEW S, NEW M, NEW A, MapsTo(r, S, EntryOf(M, A)),
         NoFd \in M, NULL \in A, NEW fd
  PROVE  Lookup(r, fd) \in EntryOf(M, A)
BY DEF Lookup, Registered, MapsTo, EntryOf

\* register_to_map adds an entry with no reference, or changes nothing.
LEMMA RegisterMapsTo ==
  ASSUME NEW r, NEW S, NEW M, NEW A, MapsTo(r, S, EntryOf(M, A)),
         NEW fd \in S, NEW mfd \in M, NEW cpu \in A, NEW mt \in A
  PROVE  /\ MapsTo(Register(r, fd, mfd, cpu, mt), S, EntryOf(M, A))
         /\ \A k : k \in DOMAIN Register(r, fd, mfd, cpu, mt) <=> k \in DOMAIN r \/ k = fd
         /\ \A k : RefOf(Register(r, fd, mfd, cpu, mt), k) = RefOf(r, k)
<1>1. CASE Registered(r, fd)
  BY <1>1 DEF Register, Registered
<1>2. CASE ~Registered(r, fd)
  <2> DEFINE e == [mfd |-> mfd, cpu |-> cpu, mt |-> mt, ref |-> 0]
  <2>1. Register(r, fd, mfd, cpu, mt) = Put(r, fd, e)
    BY <1>2 DEF Register
  <2>2. e \in EntryOf(M, A)
    BY DEF EntryOf
  <2>3. MapsTo(Put(r, fd, e), S, EntryOf(M, A))
    BY <2>2, PutMapsTo
  <2>4. \A k : RefOf(Put(r, fd, e), k) = RefOf(r, k)
    BY <1>2 DEF RefOf, Lookup, Registered, Put
  <2>. QED  BY <2>1, <2>3, <2>4 DEF Put
<1>. QED  BY <1>1, <1>2

\* update_map keeps every count.
LEMMA UpdateMapsTo ==
  ASSUME NEW r, NEW S, NEW M, NEW A, MapsTo(r, S, EntryOf(M, A)),
         NEW fd \in S, NEW mfd \in M, NEW cpu \in A, NEW mt \in A
  PROVE  /\ MapsTo(Update(r, fd, mfd, cpu, mt), S, EntryOf(M, A))
         /\ DOMAIN Update(r, fd, mfd, cpu, mt) = DOMAIN r
         /\ \A k : RefOf(Update(r, fd, mfd, cpu, mt), k) = RefOf(r, k)
<1>1. CASE ~Registered(r, fd)
  BY <1>1 DEF Update
<1>2. CASE Registered(r, fd)
  <2> DEFINE e == [mfd |-> mfd, cpu |-> cpu, mt |-> mt, ref |-> r[fd].ref]
  <2>1. Update(r, fd, mfd, cpu, mt) = Put(r, fd, e)
    BY <1>2 DEF Update
  <2>2. e \in EntryOf(M, A)
    BY <1>2 DEF EntryOf, MapsTo, Registered
  <2>3. MapsTo(Put(r, fd, e), S, EntryOf(M, A))
    BY <2>2, PutMapsTo
  <2>4. /\ DOMAIN Put(r, fd, e) = DOMAIN r
        /\ \A k : RefOf(Put(r, fd, e), k) = RefOf(r, k)
    BY <1>2 DEF RefOf, Lookup, Registered, Put
  <2>. QED  BY <2>1, <2>3, <2>4
<1>. QED  BY <1>1, <1>2

\* add_map_entry counts one more reference on a registered fd.
LEMMA IncRefMapsTo ==
  ASSUME NEW r, NEW S, NEW M, NEW A, MapsTo(r, S, EntryOf(M, A)),
         NEW fd, Registered(r, fd)
  PROVE  /\ MapsTo(IncRef(r, fd), S, EntryOf(M, A))
         /\ DOMAIN IncRef(r, fd) = DOMAIN r
         /\ RefOf(IncRef(r, fd), fd) = RefOf(r, fd) + 1
         /\ \A k : k # fd => RefOf(IncRef(r, fd), k) = RefOf(r, k)
BY DEF IncRef, Registered, MapsTo, EntryOf, RefOf, Lookup

\* del_map_entry takes one reference off a registered fd, and the entry away
\* with the last one.
LEMMA DecRefMapsTo ==
  ASSUME NEW r, NEW S, NEW M, NEW A, MapsTo(r, S, EntryOf(M, A)), NEW fd,
         \A k \in DOMAIN r : r[k].ref > 0
  PROVE  /\ MapsTo(DecRef(r, fd), S, EntryOf(M, A))
         /\ \A k \in DOMAIN DecRef(r, fd) : DecRef(r, fd)[k].ref > 0
         /\ Registered(r, fd) => RefOf(DecRef(r, fd), fd) = RefOf(r, fd) - 1
         /\ \A k : k # fd => RefOf(DecRef(r, fd), k) = RefOf(r, k)
<1>1. CASE ~Registered(r, fd)
  BY <1>1 DEF DecRef
<1>2. CASE Registered(r, fd) /\ r[fd].ref = 1
  <2>1. DecRef(r, fd) = Drop(r, {fd})
    BY <1>2 DEF DecRef, LastRef
  <2>2. MapsTo(Drop(r, {fd}), S, EntryOf(M, A))
    BY DropMapsTo
  <2>3. RefOf(Drop(r, {fd}), fd) = 0 /\ RefOf(r, fd) = 1
    BY <1>2 DEF Drop, RefOf, Lookup, Registered
  <2>4. \A k : k # fd => RefOf(Drop(r, {fd}), k) = RefOf(r, k)
    BY DEF Drop, RefOf, Lookup, Registered
  <2>5. \A k \in DOMAIN Drop(r, {fd}) : Drop(r, {fd})[k].ref > 0
    BY DEF Drop
  <2>. QED  BY <2>1, <2>2, <2>3, <2>4, <2>5
<1>3. CASE Registered(r, fd) /\ r[fd].ref # 1
  <2>1. DecRef(r, fd) = [r EXCEPT ![fd].ref = @ - 1]
    BY <1>3 DEF DecRef, LastRef
  <2>2. r[fd] \in EntryOf(M, A) /\ r[fd].ref - 1 \in Nat \ {0}
    BY <1>3 DEF MapsTo, Registered, EntryOf
  <2>. QED  BY <1>3, <2>1, <2>2 DEF MapsTo, EntryOf, RefOf, Lookup, Registered
<1>. QED  BY <1>1, <1>2, <1>3
=============================================================================
