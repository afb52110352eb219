------------------------ MODULE WorkspacePool_proofs ------------------------
(***************************************************************************)
(* Proofs about WorkspacePool: it is bounded and it leaks no handle, for   *)
(* any number of users and callers.                                        *)
(***************************************************************************)
EXTENDS WorkspacePool, FiniteSetTheorems, TLAPS

USE CallerAssumption, SizeAssumption, PoolBoundAssumption
  DEF CallerAssumption, SizeAssumption, PoolBoundAssumption

\* An open is in flight only for the caller that holds its user's lock, and
\* its user is not cached meanwhile; a cached handle was opened for its user.
LockInv ==
  /\ \A c \in Callers :
       pc[c] = "opening" => /\ locks[UserOf[c]] = c
                            /\ entries[UserOf[c]] = None
                            /\ c \notin open
  /\ \A u \in Users : entries[u] # None => UserOf[entries[u]] = u
  /\ \A c \in Callers : pc[c] = "idle" => c \notin open

PoolInv == TypeOK /\ LockInv /\ OpenIsCached /\ PoolIsBounded

LEMMA CachedFinite == IsFiniteSet(Cached) /\ Cardinality(Cached) \in Nat
  BY FS_Subset, FS_CardinalityType DEF Cached

LEMMA InitPool == Init => PoolInv
<1> SUFFICES ASSUME Init PROVE PoolInv
  OBVIOUS
<1> USE DEF Init
<1>1. TypeOK
  BY DEF TypeOK, Pcs
<1>2. Cached = {}
  BY DEF Cached
<1>3. PoolIsBounded
  BY <1>2, FS_EmptySet DEF PoolIsBounded
<1> QED BY <1>1, <1>2, <1>3 DEF PoolInv, LockInv, OpenIsCached

\* Only OpenDone and Restart touch the map and the open handles.
LEMMA SameEntries ==
  ASSUME UNCHANGED <<entries, open>>, OpenIsCached, PoolIsBounded
  PROVE  OpenIsCached' /\ PoolIsBounded'
  BY DEF OpenIsCached, PoolIsBounded, Cached

\* One entry more, and one less when the pool was full.
LEMMA RoomIsMade ==
  ASSUME NEW u \in Users, u \notin Cached, PoolIsBounded,
         NEW E \in SUBSET Cached,
         \/ IsFull /\ \E e \in Cached : E = {e}
         \/ ~IsFull /\ E = {}
  PROVE  Cardinality((Cached \ E) \cup {u}) <= MaxHandles
<1>1. CASE ~IsFull /\ E = {}
  <2>1. (Cached \ E) \cup {u} = Cached \cup {u}
    BY <1>1
  <2>2. Cardinality(Cached \cup {u}) = Cardinality(Cached) + 1
    BY CachedFinite, FS_AddElement
  <2> QED BY <1>1, <2>1, <2>2, CachedFinite DEF IsFull
<1>2. CASE IsFull /\ \E e \in Cached : E = {e}
  <2>1. PICK e \in Cached : E = {e}
    BY <1>2
  <2>2. /\ IsFiniteSet(Cached \ {e})
        /\ Cardinality(Cached \ {e}) = Cardinality(Cached) - 1
    BY CachedFinite, FS_RemoveElement
  <2>3. Cardinality((Cached \ {e}) \cup {u}) = Cardinality(Cached \ {e}) + 1
    BY <2>2, FS_AddElement
  <2> QED BY <2>1, <2>2, <2>3, CachedFinite DEF PoolIsBounded
<1> QED BY <1>1, <1>2

LEMMA OpenDoneStep ==
  ASSUME PoolInv, NEW c \in Callers, OpenDone(c)
  PROVE  PoolInv'
<1> USE DEF PoolInv
<1> DEFINE u == UserOf[c]
<1>1. PICK E \in SUBSET Cached :
        /\ \/ IsFull /\ \E e \in Cached : E = {e}
           \/ ~IsFull /\ E = {}
        /\ Opened(c, E)
  BY DEF OpenDone, IsOldest
<1>2. u \in Users /\ entries[u] = None /\ c \notin open /\ locks[u] = c /\ pc[c] = "opening"
  BY DEF OpenDone, LockInv
<1>3. /\ entries' = [v \in Users |-> IF v = u THEN c ELSE IF v \in E THEN None ELSE entries[v]]
      /\ open' = (open \ {entries[v] : v \in E}) \cup {c}
  BY <1>1 DEF Opened
<1>4. Cached' = (Cached \ E) \cup {u}
  BY <1>2, <1>3 DEF Cached, TypeOK
<1>5. PoolIsBounded'
  BY <1>1, <1>2, <1>4, RoomIsMade DEF PoolIsBounded, Cached
<1>6. TypeOK'
  <2>1. open' \subseteq Callers /\ entries' \in [Users -> Callers \cup {None}]
    BY <1>3 DEF TypeOK
  <2>2. pc' = [s \in Callers |-> IF s = c \/ s \in Sharers(c) THEN "holding" ELSE pc[s]]
    BY DEF OpenDone
  <2>3. pc' \in [Callers -> Pcs]
    BY <2>2 DEF TypeOK, Pcs
  <2>4. held' \in [Callers -> Callers \cup {None}]
    BY DEF OpenDone, TypeOK
  <2>5. keyed' \subseteq Callers /\ now' \in Nat
    BY DEF OpenDone, TypeOK
  <2> QED BY <2>1, <2>3, <2>4, <2>5 DEF OpenDone, TypeOK, world
<1>7. OpenIsCached'
  <2>1. \A v, w \in Cached : entries[v] = entries[w] => v = w
    BY DEF LockInv, Cached
  <2>2. \A v \in Cached' :
          \/ v = u /\ entries'[v] = c
          \/ v \in Cached \ E /\ v # u /\ entries'[v] = entries[v]
    BY <1>2, <1>3, <1>4 DEF Cached
  <2>3. \A h \in open' : h \in {entries'[v] : v \in Cached'}
    <3> SUFFICES ASSUME NEW h \in open' PROVE \E v \in Cached' : h = entries'[v]
      OBVIOUS
    <3>1. CASE h = c
      BY <3>1, <1>3, <1>4, <1>2 DEF TypeOK
    <3>2. CASE h \in open \ {entries[v] : v \in E}
      <4>1. PICK v \in Cached : h = entries[v]
        BY <3>2 DEF OpenIsCached
      <4>2. v \in Cached \ E /\ v # u
        BY <3>2, <4>1, <1>2 DEF Cached
      <4> QED BY <4>1, <4>2, <1>3, <1>4 DEF Cached
    <3> QED BY <3>1, <3>2, <1>3
  <2>4. \A v \in Cached' : entries'[v] \in open'
    <3> SUFFICES ASSUME NEW v \in Cached' PROVE entries'[v] \in open'
      OBVIOUS
    <3>1. CASE v = u /\ entries'[v] = c
      BY <3>1, <1>3
    <3>2. CASE v \in Cached \ E /\ v # u /\ entries'[v] = entries[v]
      <4>1. entries[v] \in open
        BY <3>2 DEF OpenIsCached
      <4>2. entries[v] \notin {entries[w] : w \in E}
        BY <3>2, <2>1
      <4> QED BY <4>1, <4>2, <3>2, <1>3
    <3> QED BY <3>1, <3>2, <2>2
  <2> QED BY <2>3, <2>4 DEF OpenIsCached
<1>8. LockInv'
  <2>1. \A d \in Callers : pc'[d] = "opening" => d # c /\ pc[d] = "opening" /\ UserOf[d] # u
    BY <1>2 DEF OpenDone, LockInv, TypeOK
  <2>2. \A v \in Users \ {u} : locks'[v] = locks[v]
    BY DEF OpenDone, TypeOK
  <2>3. \A d \in Callers : pc'[d] = "opening" => /\ locks'[UserOf[d]] = d
                                                /\ entries'[UserOf[d]] = None
                                                /\ d \notin open'
    BY <2>1, <2>2, <1>3 DEF LockInv
  <2>4. \A v \in Users : entries'[v] # None => UserOf[entries'[v]] = v
    BY <1>3 DEF LockInv
  <2>5. \A d \in Callers : pc'[d] = "idle" => d # c /\ pc[d] = "idle"
    BY DEF OpenDone, TypeOK
  <2>6. \A d \in Callers : pc'[d] = "idle" => d \notin open'
    BY <2>5, <1>3 DEF LockInv
  <2> QED BY <2>3, <2>4, <2>6 DEF LockInv
<1> QED BY <1>5, <1>6, <1>7, <1>8

LEMMA PoolStep == PoolInv /\ [Next]_vars => PoolInv'
<1> SUFFICES ASSUME PoolInv, [Next]_vars PROVE PoolInv'
  OBVIOUS
<1> USE DEF PoolInv
<1>1. CASE UNCHANGED vars
  <2>1. TypeOK' /\ LockInv'
    BY <1>1 DEF vars, pool, callers, world, TypeOK, LockInv
  <2> QED BY <1>1, <2>1, SameEntries DEF vars, pool
<1>2. ASSUME NEW c \in Callers, GetCached(c) PROVE PoolInv'
  <2>1. TypeOK' /\ LockInv'
    BY <1>2 DEF GetCached, world, TypeOK, LockInv, Pcs
  <2> QED BY <1>2, <2>1, SameEntries DEF GetCached
<1>3. ASSUME NEW c \in Callers, GetInFlight(c) PROVE PoolInv'
  <2>1. TypeOK' /\ LockInv'
    BY <1>3 DEF GetInFlight, pool, world, TypeOK, LockInv, Pcs
  <2> QED BY <1>3, <2>1, SameEntries DEF GetInFlight, pool
<1>4. ASSUME NEW c \in Callers, GetMissing(c) PROVE PoolInv'
  <2>1. TypeOK'
    BY <1>4 DEF GetMissing, world, TypeOK, Pcs
  <2>2. \A d \in Callers : pc[d] = "opening" => UserOf[d] # UserOf[c]
    BY <1>4 DEF GetMissing, LockInv
  <2>3. LockInv'
    BY <1>4, <2>2 DEF GetMissing, TypeOK, LockInv, Cached
  <2> QED BY <1>4, <2>1, <2>3, SameEntries DEF GetMissing
<1>5. ASSUME NEW c \in Callers, OpenDone(c) PROVE PoolInv'
  BY <1>5, OpenDoneStep
<1>6. ASSUME NEW c \in Callers, OpenFails(c) PROVE PoolInv'
  <2>1. TypeOK'
    BY <1>6 DEF OpenFails, world, TypeOK, Pcs
  <2>2. \A d \in Callers \ {c} : pc[d] = "opening" => UserOf[d] # UserOf[c]
    BY <1>6 DEF OpenFails, LockInv
  <2>3. \A d \in Callers : /\ pc'[d] = "opening" => d # c /\ pc[d] = "opening"
                           /\ pc'[d] = "idle" => pc[d] = "idle"
    BY <1>6 DEF OpenFails, TypeOK
  <2>4. LockInv'
    BY <1>6, <2>2, <2>3 DEF OpenFails, TypeOK, LockInv
  <2> QED BY <1>6, <2>1, <2>4, SameEntries DEF OpenFails
<1>7. ASSUME NEW c \in Callers, Use(c) PROVE PoolInv'
  <2>1. UNCHANGED <<pool, held, vault, restarts>>
    BY <1>7 DEF Use, RunJob, WriteSettings, ReadSettings, UseClosed, world
  <2>2. \E s \in {"done", "missing", "error"} : pc' = [pc EXCEPT ![c] = s]
    BY <1>7 DEF Use, RunJob, WriteSettings, ReadSettings, UseClosed
  <2>3. stored' \in {"nothing", "plaintext", "ciphertext"}
    BY <1>7 DEF Use, RunJob, WriteSettings, ReadSettings, UseClosed, world, TypeOK
  <2>4. PICK s \in {"done", "missing", "error"} : pc' = [pc EXCEPT ![c] = s]
    BY <2>2
  <2>5. TypeOK'
    BY <2>1, <2>3, <2>4 DEF pool, TypeOK, Pcs
  <2>6. \A d \in Callers : pc'[d] \in {"opening", "idle"} => pc'[d] = pc[d]
    BY <2>4 DEF TypeOK
  <2>7. LockInv'
    BY <2>1, <2>6 DEF pool, LockInv
  <2> QED BY <2>1, <2>5, <2>7, SameEntries DEF pool
<1>8. CASE Restart
  <2>0. \A d \in Callers : pc'[d] \in Pcs \ {"opening"}
    BY <1>8 DEF Restart, TypeOK, Pcs
  <2>1. TypeOK'
    <3>1. pc' \in [Callers -> Pcs]
      BY <1>8 DEF Restart, TypeOK, Pcs
    <3>2. restarts' \in 0 .. MaxRestarts
      BY <1>8 DEF Restart, TypeOK
    <3>3. entries' \in [Users -> Callers \cup {None}] /\ locks' \in [Users -> Callers \cup {None}]
      BY <1>8 DEF Restart
    <3>4. open' \subseteq Callers /\ vault' \in BOOLEAN
      BY <1>8 DEF Restart
    <3> QED BY <3>1, <3>2, <3>3, <3>4, <1>8 DEF Restart, TypeOK
  <2>2. Cached' = {} /\ open' = {}
    BY <1>8 DEF Restart, Cached
  <2>3. LockInv'
    BY <1>8, <2>2 DEF Restart, TypeOK, LockInv
  <2>4. PoolIsBounded'
    BY <2>2, FS_EmptySet DEF PoolIsBounded
  <2> QED BY <2>1, <2>2, <2>3, <2>4 DEF OpenIsCached
<1> QED BY <1>1, <1>2, <1>3, <1>4, <1>5, <1>6, <1>7, <1>8 DEF Next, Get

LEMMA PoolInvCorrect == Spec => []PoolInv
  BY InitPool, PoolStep, PTL DEF Spec

\* The pool never caches more than maxHandles handles.
THEOREM PoolIsBoundedCorrect == Spec => []PoolIsBounded
  BY PoolInvCorrect, PTL DEF PoolInv

\* No handle is left open outside the pool and none in it is closed.
THEOREM OpenIsCachedCorrect == Spec => []OpenIsCached
  BY PoolInvCorrect, PTL DEF PoolInv
=============================================================================
