---------------------------- MODULE Server_proofs ----------------------------
(***************************************************************************)
(* Proofs about the server around its documents and the command line       *)
(* beside it: that the job queues keep their jobs (JobQueues), who makes a *)
(* grant (AccessLists), what the processes of a workspace make of its      *)
(* settings and passphrase (Startup), what gets past the middlewares and   *)
(* what health and the error middleware answer (RequestGate), who          *)
(* subscribes and who rates (WorkspaceRecords), what commands leave in     *)
(* their files (CommandLine), that accounts can be used by those who       *)
(* registered them and by no password but the last (Accounts), how much    *)
(* the rate limiter lets pass (RateLimit), and that all of this holds of   *)
(* the server they make up (MCServer).                                     *)
(***************************************************************************)
EXTENDS MCServer, FiniteSetTheorems, WellFoundedInduction, TLAPS

-----------------------------------------------------------------------------
(* JobQueues                                                               *)

\* Every set of numbers that is not empty has a least one.
LEMMA LeastNat == ASSUME NEW T, T \subseteq Nat, T # {} PROVE \E n \in T : \A m \in T : n <= m
<1>1. IsWellFoundedOn(OpToRel(<, Nat), Nat)
  BY NatLessThanWellFounded
<1>2. OpToRel(<, Nat) = {p \in Nat \X Nat : p[1] < p[2]}
  BY Zenon DEF OpToRel
<1>3. IsWellFoundedOn({p \in Nat \X Nat : p[1] < p[2]}, Nat)
  BY <1>1, <1>2, Zenon
<1> DEFINE R == {p \in Nat \X Nat : p[1] < p[2]}
<1> HIDE DEF R
<1>4. IsWellFoundedOn(R, Nat)
  BY <1>3 DEF R
<1>5. \E n \in T : \A m \in T : <<m, n>> \notin R
  BY <1>4, WFMin, Zenon
<1>6. \A m, n \in T : <<m, n>> \notin R => n <= m
  BY DEF R
<1> QED BY <1>5, <1>6


\* Every finite set of numbers can be listed in order.
LEMMA OrderExists ==
  ASSUME NEW S, S \subseteq Nat, IsFiniteSet(S)
  PROVE  \E q \in Bijection(1 .. Cardinality(S), S) : \A i, k \in DOMAIN q : i < k => q[i] < q[k]
<1> DEFINE Ordered(q) == \A i, k \in DOMAIN q : i < k => q[i] < q[k]
           T == {n \in Nat : \E X \in SUBSET Nat : /\ IsFiniteSet(X) /\ Cardinality(X) = n
                                                   /\ ~ \E q \in Bijection(1 .. n, X) : Ordered(q)}
<1>1. SUFFICES T = {}
  <2>1. Cardinality(S) \in Nat
    BY FS_CardinalityType
  <2> QED BY <2>1
<1>2. SUFFICES ASSUME T # {} PROVE FALSE
  OBVIOUS
<1>3. PICK n \in T : \A m \in T : n <= m
  BY <1>2, LeastNat
<1>4. PICK X \in SUBSET Nat : /\ IsFiniteSet(X) /\ Cardinality(X) = n
                              /\ ~ \E q \in Bijection(1 .. n, X) : Ordered(q)
  OBVIOUS
<1>5. n \in Nat /\ n - 1 \notin T
  BY <1>3
<1> HIDE DEF T
<1>6. CASE X = {}
  <2>1. n = 0
    BY <1>4, <1>6, FS_EmptySet
  <2>2. 1 .. 0 = {}
    OBVIOUS
  <2> DEFINE e == [i \in {} |-> i]
  <2>3. e \in [{} -> {}] /\ DOMAIN e = {}
    OBVIOUS
  <2>4. e \in Bijection({}, {}) /\ Ordered(e)
    BY <2>3 DEF Bijection, Injection, Surjection, IsInjective
  <2> HIDE DEF e, Ordered
  <2>5. Bijection(1 .. n, X) = Bijection({}, {})
    BY <1>6, <2>1, <2>2
  <2> QED BY <1>4, <2>4, <2>5, Zenon
<1>7. CASE X # {}
  <2>1. PICK x \in X : \A y \in X : x <= y
    BY <1>7, LeastNat
  <2>2. IsFiniteSet(X \ {x}) /\ Cardinality(X \ {x}) = n - 1 /\ n - 1 \in Nat
    <3>1. IsFiniteSet(X \ {x}) /\ Cardinality(X \ {x}) = Cardinality(X) - 1
      BY <1>4, FS_RemoveElement
    <3>2. Cardinality(X \ {x}) \in Nat
      BY <3>1, FS_CardinalityType
    <3> QED BY <1>4, <3>1, <3>2
  <2>3. PICK q \in Bijection(1 .. n - 1, X \ {x}) : Ordered(q)
    <3>1. X \ {x} \in SUBSET Nat
      OBVIOUS
    <3> QED BY <1>5, <2>2, <3>1 DEF T
  <2> DEFINE r == [i \in 1 .. n |-> IF i = 1 THEN x ELSE q[i - 1]]
  <2>4. /\ q \in [1 .. n - 1 -> X \ {x}]
        /\ \A a, b \in 1 .. n - 1 : q[a] = q[b] => a = b
        /\ \A y \in X \ {x} : \E a \in 1 .. n - 1 : q[a] = y
        /\ \A a, b \in 1 .. n - 1 : a < b => q[a] < q[b]
    BY <2>3 DEF Bijection, Injection, Surjection, IsInjective
  <2>5. /\ \A i \in 1 .. n : r[i] \in X /\ (i # 1 => r[i] \in X \ {x} /\ i - 1 \in 1 .. n - 1 /\ r[i] = q[i - 1])
        /\ (1 \in 1 .. n => r[1] = x)
    BY <1>5, <2>4
  <2>6. r \in [1 .. n -> X] /\ DOMAIN r = 1 .. n
    BY <2>5
  <2> HIDE DEF r
  <2>7. ASSUME NEW i \in 1 .. n, NEW k \in 1 .. n, i < k PROVE r[i] < r[k]
    <3>1. k # 1 /\ r[k] = q[k - 1] /\ k - 1 \in 1 .. n - 1 /\ r[k] \in X \ {x}
      BY <1>5, <2>5, <2>7
    <3>2. CASE i = 1
      <4>1. r[i] = x /\ r[k] \in Nat /\ x \in Nat /\ x <= r[k] /\ r[k] # x
        BY <2>1, <2>5, <3>1, <3>2
      <4> QED BY <4>1
    <3>3. CASE i # 1
      <4>1. r[i] = q[i - 1] /\ i - 1 \in 1 .. n - 1 /\ i - 1 < k - 1
        BY <1>5, <2>5, <2>7, <3>3
      <4> QED BY <2>4, <3>1, <4>1
    <3> QED BY <3>2, <3>3
  <2>8. \A i, k \in 1 .. n : r[i] = r[k] => i = k
    <3>1. \A i \in 1 .. n : r[i] \in Nat
      BY <2>6
    <3>2. \A i, k \in 1 .. n : i < k \/ k < i \/ i = k
      BY <1>5
    <3> QED BY <2>7, <3>1, <3>2
  <2>9. \A y \in X : \E i \in 1 .. n : r[i] = y
    <3>1. ASSUME NEW y \in X PROVE \E i \in 1 .. n : r[i] = y
      <4>1. 1 \in 1 .. n
        BY <1>5, <2>2
      <4>2. CASE y = x
        BY <4>1, <4>2, <2>5
      <4>3. CASE y # x
        <5>1. PICK a \in 1 .. n - 1 : q[a] = y
          BY <2>4, <4>3
        <5>2. a + 1 \in 1 .. n /\ a + 1 # 1 /\ (a + 1) - 1 = a
          BY <1>5
        <5>3. r[a + 1] = q[a]
          BY <2>5, <5>2
        <5> QED BY <5>1, <5>2, <5>3
      <4> QED BY <4>2, <4>3
    <3> QED BY <3>1
  <2>10. r \in Bijection(1 .. n, X)
    BY <2>6, <2>8, <2>9 DEF Bijection, Injection, Surjection, IsInjective
  <2>11. Ordered(r)
    BY <2>6, <2>7
  <2> QED BY <1>4, <2>10, <2>11
<1> QED BY <1>6, <1>7

LEMMA InOrderLists ==
  ASSUME NEW S, S \subseteq Nat, IsFiniteSet(S)
  PROVE  InOrder(S) \in Bijection(1 .. Cardinality(S), S)
<1> DEFINE Ordered(q) == \A i, k \in DOMAIN q : i < k => q[i] < q[k]
           B == Bijection(1 .. Cardinality(S), S)
<1>1. \E q \in B : Ordered(q)
  BY OrderExists
<1>2. InOrder(S) = CHOOSE q \in B : Ordered(q)
  BY DEF InOrder
<1> HIDE DEF Ordered, B
<1>3. (CHOOSE q \in B : Ordered(q)) \in B
  BY <1>1, Zenon
<1> QED BY <1>2, <1>3 DEF B

-----------------------------------------------------------------------------
\* How often a job stands in a list.
Entries(q, j) == {i \in DOMAIN q : q[i] = j}
Times(q, j) == Cardinality(Entries(q, j))

LEMMA CountIsNat ==
  ASSUME NEW A, NEW q \in Seq(A), NEW j
  PROVE  IsFiniteSet(Entries(q, j)) /\ Times(q, j) \in Nat
<1>1. DOMAIN q = 1 .. Len(q) /\ Len(q) \in Nat
  OBVIOUS
<1>2. IsFiniteSet(1 .. Len(q))
  BY <1>1, FS_Interval
<1> QED BY <1>1, <1>2, FS_Subset, FS_CardinalityType DEF Entries, Times

LEMMA CountAppend ==
  ASSUME NEW A, NEW q \in Seq(A), NEW a \in A, NEW j
  PROVE  Times(Append(q, a), j) = IF j = a THEN Times(q, j) + 1 ELSE Times(q, j)
<1> DEFINE n == Len(q)
<1>1. n \in Nat /\ DOMAIN q = 1 .. n /\ DOMAIN Append(q, a) = 1 .. n + 1 /\ Append(q, a)[n + 1] = a
      /\ \A i \in 1 .. n : Append(q, a)[i] = q[i]
  OBVIOUS
<1>0. IsFiniteSet(Entries(q, j))
  BY CountIsNat
<1>2. n + 1 \notin Entries(q, j)
  BY <1>1 DEF Entries
<1>3. CASE j = a
  <2>1. Entries(Append(q, a), j) = Entries(q, j) \cup {n + 1}
    BY <1>1, <1>3 DEF Entries
  <2> QED BY <1>0, <1>2, <1>3, <2>1, FS_AddElement DEF Times
<1>4. CASE j # a
  <2>1. Entries(Append(q, a), j) = Entries(q, j)
    BY <1>1, <1>4 DEF Entries
  <2> QED BY <1>4, <2>1 DEF Times
<1> QED BY <1>3, <1>4

LEMMA CountTail ==
  ASSUME NEW A, NEW q \in Seq(A), q # <<>>, NEW j
  PROVE  Times(Tail(q), j) = IF j = Head(q) THEN Times(q, j) - 1 ELSE Times(q, j)
<1> DEFINE n == Len(q)
           U == Entries(Tail(q), j)
           W == Entries(q, j) \ {1}
           f == [i \in U |-> i + 1]
<1>1. n \in Nat \ {0} /\ DOMAIN q = 1 .. n /\ DOMAIN Tail(q) = 1 .. n - 1 /\ Head(q) = q[1]
      /\ \A i \in 1 .. n - 1 : Tail(q)[i] = q[i + 1]
  OBVIOUS
<1>2. U = {i \in 1 .. n - 1 : q[i + 1] = j} /\ W = {i \in 2 .. n : q[i] = j}
  BY <1>1 DEF Entries
<1>3. \A i \in U : i + 1 \in W
  BY <1>1, <1>2
<1>4. \A k \in W : k - 1 \in U /\ (k - 1) + 1 = k
  BY <1>1, <1>2
<1>5. \A a, b \in U : a + 1 = b + 1 => a = b
  BY <1>1, <1>2
<1>6. IsFiniteSet(U) /\ IsFiniteSet(Entries(q, j)) /\ Times(q, j) \in Nat
  <2>1. Tail(q) \in Seq(A)
    OBVIOUS
  <2> QED BY <2>1, CountIsNat
<1> HIDE DEF U, W
<1>7. f \in Bijection(U, W)
  <2>1. f \in [U -> W]
    BY <1>3
  <2>2. \A a, b \in U : f[a] = f[b] => a = b
    BY <1>5
  <2>3. \A k \in W : \E a \in U : f[a] = k
    BY <1>4
  <2> QED BY <2>1, <2>2, <2>3 DEF Bijection, Injection, Surjection, IsInjective
<1>8. Cardinality(W) = Cardinality(U)
  BY <1>6, <1>7, FS_Bijection DEF ExistsBijection
<1>9. Cardinality(W) = IF 1 \in Entries(q, j) THEN Times(q, j) - 1 ELSE Times(q, j)
  BY <1>6, FS_RemoveElement DEF W, Times
<1>10. 1 \in Entries(q, j) <=> j = Head(q)
  BY <1>1 DEF Entries
<1> QED BY <1>8, <1>9, <1>10 DEF U, Times

\* What a list with another after it holds where.
Continues(c, q, m, r) ==
  /\ DOMAIN q = 1 .. Len(q) /\ Len(q) \in Nat /\ DOMAIN c = 1 .. Len(q) + m
  /\ \A i \in 1 .. Len(q) : c[i] = q[i]
  /\ \A i \in 1 .. m : Len(q) + i \in 1 .. Len(q) + m /\ c[Len(q) + i] = r[i]

LEMMA ListContinues ==
  ASSUME NEW A, NEW q \in Seq(A), NEW m \in Nat, NEW X, X \subseteq A, NEW r \in [1 .. m -> X]
  PROVE  Continues(q \o r, q, m, r)
<1>1. r \in Seq(A) /\ Len(r) = m
  OBVIOUS
<1> QED BY <1>1 DEF Continues

\* A list is continued by one in which every job stands at most once.
LEMMA CountConcat ==
  ASSUME NEW A, NEW q \in Seq(A), NEW m \in Nat, NEW X, X \subseteq A, NEW r \in Injection(1 .. m, X), NEW j
  PROVE  q \o r \in Seq(A) /\ Times(q \o r, j) <= IF j \in X THEN Times(q, j) + 1 ELSE Times(q, j)
<1> DEFINE n == Len(q)
           c == q \o r
<1>1. r \in Seq(A) /\ Len(r) = m /\ n \in Nat /\ DOMAIN q = 1 .. n
  BY DEF Injection
<1>2. /\ c \in Seq(A) /\ Len(c) = n + m /\ DOMAIN c = 1 .. n + m
      /\ \A i \in 1 .. n : c[i] = q[i]
      /\ \A i \in n + 1 .. n + m : c[i] = r[i - n] /\ i - n \in 1 .. m
  BY <1>1
<1>3. \A a, b \in 1 .. m : r[a] = r[b] => a = b
  BY DEF Injection, IsInjective
<1> HIDE DEF c
<1>4. CASE \E a \in n + 1 .. n + m : c[a] = j
  <2>1. PICK a \in n + 1 .. n + m : c[a] = j
    BY <1>4
  <2>2. \A b \in n + 1 .. n + m : c[b] = j => b = a
    <3>1. ASSUME NEW b \in n + 1 .. n + m, c[b] = j PROVE b = a
      <4>1. r[a - n] = r[b - n] /\ a - n \in 1 .. m /\ b - n \in 1 .. m
        BY <1>2, <2>1, <3>1
      <4>2. a - n = b - n
        BY <1>3, <4>1
      <4> QED BY <1>1, <4>2
    <3> QED BY <3>1
  <2>3. Entries(c, j) = Entries(q, j) \cup {a}
    <3>1. Entries(c, j) = {i \in 1 .. n + m : c[i] = j} /\ Entries(q, j) = {i \in 1 .. n : q[i] = j}
      BY <1>1, <1>2 DEF Entries
    <3>2. \A i \in 1 .. n + m : i \in 1 .. n \/ i \in n + 1 .. n + m
      BY <1>1
    <3>3. \A i \in 1 .. n : i \in 1 .. n + m
      BY <1>1
    <3>4. a \in 1 .. n + m
      BY <1>1
    <3> QED BY <1>2, <2>1, <2>2, <3>1, <3>2, <3>3, <3>4
  <2>4. Times(c, j) <= Times(q, j) + 1
    <3>1. IsFiniteSet(Entries(q, j)) /\ Cardinality(Entries(q, j)) \in Nat
      BY CountIsNat DEF Times
    <3>2. Cardinality(Entries(q, j) \cup {a}) = IF a \in Entries(q, j) THEN Cardinality(Entries(q, j))
                                                ELSE Cardinality(Entries(q, j)) + 1
      BY <3>1, FS_AddElement
    <3>3. Cardinality(Entries(c, j)) <= Cardinality(Entries(q, j)) + 1
      BY <2>3, <3>1, <3>2
    <3> QED BY <3>3 DEF Times
  <2>5. j \in X
    BY <1>2, <2>1 DEF Injection
  <2> QED BY <1>2, <2>4, <2>5 DEF c
<1>5. CASE ~ \E a \in n + 1 .. n + m : c[a] = j
  <2>1. Entries(c, j) = Entries(q, j)
    <3>1. Entries(c, j) = {i \in 1 .. n + m : c[i] = j} /\ Entries(q, j) = {i \in 1 .. n : q[i] = j}
      BY <1>1, <1>2 DEF Entries
    <3>2. \A i \in 1 .. n + m : i \in 1 .. n \/ i \in n + 1 .. n + m
      BY <1>1
    <3>3. \A i \in 1 .. n : i \in 1 .. n + m
      BY <1>1
    <3> QED BY <1>2, <1>5, <3>1, <3>2, <3>3
  <2>2. Times(c, j) = Times(q, j) /\ Times(q, j) \in Nat
    BY <2>1, CountIsNat DEF Times
  <2> QED BY <1>2, <2>2 DEF c
<1> QED BY <1>4, <1>5

-----------------------------------------------------------------------------
\* What is pending waits, what waits has a record, and no job is handed out more
\* often than it was begun anew.
MemoryInv ==
  /\ pending \in Seq(QueueJobs) /\ all \in [QueueJobs -> JobStatus]
  /\ handed \in [QueueJobs -> Nat] /\ resets \in [QueueJobs -> Nat]
  /\ \A j \in QueueJobs :
       /\ all[j] = "pending" => Times(pending, j) > 0
       /\ all[j] = "none" => Times(pending, j) = 0
       /\ handed[j] + Times(pending, j) <= 1 + resets[j]

LEMMA MemoryInit == QueuesInit => MemoryInv
<1> SUFFICES ASSUME QueuesInit PROVE MemoryInv
  OBVIOUS
<1>1. pending = <<>> /\ all = [j \in QueueJobs |-> "none"] /\ handed = [j \in QueueJobs |-> 0]
      /\ resets = [j \in QueueJobs |-> 0]
  BY DEF QueuesInit
<1>2. \A j : Times(<<>>, j) = 0
  BY FS_EmptySet DEF Entries, Times
<1> QED BY <1>1, <1>2 DEF MemoryInv, JobStatus

LEMMA MemoryStep == MemoryInv /\ [QueuesNext]_queueVars => MemoryInv'
<1> SUFFICES ASSUME MemoryInv, [QueuesNext]_queueVars PROVE MemoryInv'
  OBVIOUS
<1>0. /\ pending \in Seq(QueueJobs) /\ all \in [QueueJobs -> JobStatus]
      /\ handed \in [QueueJobs -> Nat] /\ resets \in [QueueJobs -> Nat]
      /\ \A k \in QueueJobs : Times(pending, k) \in Nat /\ handed[k] \in Nat /\ resets[k] \in Nat
  BY CountIsNat DEF MemoryInv
<1>1. CASE UNCHANGED <<pending, all, handed, resets>>
  BY <1>1 DEF MemoryInv, Entries, Times
<1>2. ASSUME NEW j \in QueueJobs, EnqueueMemory(j) PROVE MemoryInv'
  <2>1. /\ all[j] = "none" /\ handed[j] = 0 /\ handed' = handed /\ resets' = resets
        /\ pending' = Append(pending, j) /\ all' = [all EXCEPT ![j] = "pending"]
    BY <1>2, Zenon DEF EnqueueMemory
  <2>2. \A k \in QueueJobs : Times(pending', k) = IF k = j THEN Times(pending, k) + 1 ELSE Times(pending, k)
    BY <1>0, <2>1, CountAppend
  <2>3. pending' \in Seq(QueueJobs) /\ all' \in [QueueJobs -> JobStatus]
    BY <1>0, <2>1 DEF JobStatus
  <2>4. ASSUME NEW k \in QueueJobs
        PROVE  /\ all'[k] = "pending" => Times(pending', k) > 0
               /\ all'[k] = "none" => Times(pending', k) = 0
               /\ handed'[k] + Times(pending', k) <= 1 + resets'[k]
    <3>1. CASE k = j
      <4>1. Times(pending, k) = 0 /\ all'[k] = "pending" /\ Times(pending', k) = Times(pending, k) + 1
        BY <1>0, <2>1, <2>2, <3>1 DEF MemoryInv
      <4> QED BY <1>0, <2>1, <3>1, <4>1
    <3>2. CASE k # j
      <4>1. all'[k] = all[k] /\ Times(pending', k) = Times(pending, k) /\ handed'[k] = handed[k] /\ resets'[k] = resets[k]
        BY <1>0, <2>1, <2>2, <3>2
      <4> QED BY <4>1 DEF MemoryInv
    <3> QED BY <3>1, <3>2
  <2>5. handed' \in [QueueJobs -> Nat] /\ resets' \in [QueueJobs -> Nat]
    BY <1>0, <2>1
  <2> QED BY <2>3, <2>4, <2>5 DEF MemoryInv
<1>3. ASSUME NEW w \in QueueWorkers, Dequeue(w) PROVE MemoryInv'
  <2> DEFINE j == Head(pending)
  <2>1. /\ pending # <<>> /\ pending' = Tail(pending) /\ all' = [all EXCEPT ![j] = "running"]
        /\ handed' = [handed EXCEPT ![j] = @ + 1] /\ resets' = resets
    BY <1>3, Zenon DEF Dequeue
  <2>2. \A k \in QueueJobs : Times(pending', k) = IF k = j THEN Times(pending, k) - 1 ELSE Times(pending, k)
    BY <1>0, <2>1, CountTail
  <2>8. pending' \in Seq(QueueJobs) /\ j \in QueueJobs
    BY <1>0, <2>1
  <2> HIDE DEF j
  <2>3. all' \in [QueueJobs -> JobStatus] /\ pending' \in Seq(QueueJobs) /\ j \in QueueJobs
    BY <1>0, <2>1, <2>8 DEF JobStatus
  <2>4. handed' \in [QueueJobs -> Nat] /\ \A k \in QueueJobs : handed'[k] = IF k = j THEN handed[k] + 1 ELSE handed[k]
    <3>1. handed[j] + 1 \in Nat
      BY <1>0, <2>3
    <3> QED BY <1>0, <2>1, <2>3, <3>1
  <2>5. \A k \in QueueJobs : all'[k] = IF k = j THEN "running" ELSE all[k]
    BY <1>0, <2>1, <2>3
  <2>6. ASSUME NEW k \in QueueJobs
        PROVE  /\ all'[k] = "pending" => Times(pending', k) > 0
               /\ all'[k] = "none" => Times(pending', k) = 0
               /\ handed'[k] + Times(pending', k) <= 1 + resets'[k]
    <3>1. CASE k = j
      <4>1. /\ all'[k] = "running" /\ Times(pending', k) = Times(pending, k) - 1 /\ handed'[k] = handed[k] + 1
            /\ resets'[k] = resets[k] /\ handed[k] + Times(pending, k) <= 1 + resets[k]
        BY <2>1, <2>2, <2>4, <2>5, <3>1 DEF MemoryInv
      <4> QED BY <1>0, <4>1
    <3>2. CASE k # j
      <4>1. all'[k] = all[k] /\ Times(pending', k) = Times(pending, k) /\ handed'[k] = handed[k] /\ resets'[k] = resets[k]
        BY <2>1, <2>2, <2>4, <2>5, <3>2
      <4> QED BY <4>1 DEF MemoryInv
    <3> QED BY <3>1, <3>2
  <2>7. resets' \in [QueueJobs -> Nat]
    BY <1>0, <2>1
  <2> QED BY <2>3, <2>4, <2>6, <2>7 DEF MemoryInv
<1>4. ASSUME NEW w \in QueueWorkers, NEW j \in QueueJobs, NEW s \in Outcome \cup {"running"}, Mark(w, j, s)
      PROVE  MemoryInv'
  <2>1. UNCHANGED <<pending, handed, resets>> /\ all' = [all EXCEPT ![j] = IF @ = "none" THEN @ ELSE s]
    BY <1>4, Zenon DEF Mark
  <2>2. all' \in [QueueJobs -> JobStatus]
        /\ \A k \in QueueJobs : /\ all'[k] = "pending" => all[k] = "pending"
                                /\ all'[k] = "none" => all[k] = "none"
    BY <1>0, <2>1 DEF JobStatus, Outcome
  <2>3. \A k : Times(pending', k) = Times(pending, k)
    BY <2>1 DEF Times, Entries
  <2> QED BY <1>0, <2>1, <2>2, <2>3 DEF MemoryInv
<1>5. CASE ResetStuckJobs
  <2> DEFINE r == InOrder(Stuck)
             m == Cardinality(Stuck)
  <2>1. /\ all' = [j \in QueueJobs |-> IF j \in Stuck THEN "pending" ELSE all[j]]
        /\ pending' = pending \o r /\ handed' = handed
        /\ resets' = [j \in QueueJobs |-> IF j \in Stuck THEN resets[j] + 1 ELSE resets[j]]
    BY <1>5, Zenon DEF ResetStuckJobs, Requeued
  <2>2. Stuck \subseteq QueueJobs /\ QueueJobs \subseteq Nat /\ IsFiniteSet(Stuck) /\ m \in Nat
    BY QueueAssumption, FS_Subset, FS_CardinalityType DEF Stuck
  <2>3. r \in Bijection(1 .. m, Stuck)
    BY <2>2, InOrderLists
  <2>4. r \in Injection(1 .. m, Stuck) /\ r \in [1 .. m -> Stuck] /\ \A j \in Stuck : \E i \in 1 .. m : r[i] = j
    BY <2>3 DEF Bijection, Injection, Surjection
  <2> HIDE DEF r, m
  <2>5. pending' \in Seq(QueueJobs)
        /\ \A j : Times(pending', j) <= IF j \in Stuck THEN Times(pending, j) + 1 ELSE Times(pending, j)
    BY <1>0, <2>1, <2>2, <2>4, CountConcat
  <2>6. ASSUME NEW j \in QueueJobs, all'[j] = "pending" PROVE Times(pending', j) > 0
    <3>2. DOMAIN pending = 1 .. Len(pending) /\ Len(pending) \in Nat /\ DOMAIN pending' = 1 .. Len(pending) + m
          /\ (\A i \in 1 .. Len(pending) : pending'[i] = pending[i])
          /\ \A i \in 1 .. m : Len(pending) + i \in 1 .. Len(pending) + m /\ pending'[Len(pending) + i] = r[i]
      <4>1. Continues(pending \o r, pending, m, r)
        BY <1>0, <2>2, <2>4, ListContinues
      <4>2. Continues(pending', pending, m, r)
        BY <2>1, <4>1
      <4> QED BY <4>2 DEF Continues
    <3>3. \E i \in DOMAIN pending' : pending'[i] = j
      <4>1. CASE j \in Stuck
        BY <2>4, <3>2, <4>1
      <4>2. CASE j \notin Stuck
        <5>1. Times(pending, j) > 0
          BY <2>1, <2>6, <4>2 DEF MemoryInv
        <5>2. Entries(pending, j) # {}
          BY <5>1, FS_EmptySet DEF Times
        <5>3. PICK i \in DOMAIN pending : pending[i] = j
          BY <5>2 DEF Entries
        <5> QED BY <2>2, <3>2, <5>3
      <4> QED BY <4>1, <4>2
    <3>4. Entries(pending', j) # {} /\ IsFiniteSet(Entries(pending', j)) /\ Times(pending', j) \in Nat
      BY <2>5, <3>3, CountIsNat DEF Entries
    <3> QED BY <3>4, FS_EmptySet DEF Times
  <2>7. \A j \in QueueJobs : all'[j] = "none" => j \notin Stuck /\ all[j] = "none"
    BY <2>1
  <2>8. \A j \in QueueJobs : Times(pending', j) \in Nat
    BY <2>5, CountIsNat
  <2>9. all' \in [QueueJobs -> JobStatus] /\ resets' \in [QueueJobs -> Nat]
        /\ \A j \in QueueJobs : resets'[j] = IF j \in Stuck THEN resets[j] + 1 ELSE resets[j]
    BY <1>0, <2>1 DEF JobStatus
  <2>10. ASSUME NEW j \in QueueJobs PROVE handed'[j] + Times(pending', j) <= 1 + resets'[j]
    <3>1. handed[j] + Times(pending, j) <= 1 + resets[j]
      BY DEF MemoryInv
    <3>2. handed'[j] = handed[j] /\ resets'[j] = (IF j \in Stuck THEN resets[j] + 1 ELSE resets[j])
          /\ Times(pending', j) <= IF j \in Stuck THEN Times(pending, j) + 1 ELSE Times(pending, j)
      BY <2>1, <2>5, <2>9
    <3> QED BY <1>0, <2>8, <3>1, <3>2
  <2>11. ASSUME NEW j \in QueueJobs, all'[j] = "none" PROVE Times(pending', j) = 0
    <3>1. Times(pending', j) <= Times(pending, j) /\ Times(pending, j) = 0
      BY <2>5, <2>7, <2>11 DEF MemoryInv
    <3> QED BY <2>8, <3>1
  <2> QED BY <1>0, <2>1, <2>5, <2>6, <2>9, <2>10, <2>11 DEF MemoryInv
<1>6. CASE CloseMemory
  <2>1. pending' = <<>> /\ all' = [j \in QueueJobs |-> "none"] /\ handed' = handed /\ resets' = resets
    BY <1>6, Zenon DEF CloseMemory
  <2>2. \A j : Times(pending', j) = 0
    BY <2>1, FS_EmptySet DEF Entries, Times
  <2>3. \A j \in QueueJobs : handed[j] <= 1 + resets[j]
    BY <1>0 DEF MemoryInv
  <2> QED BY <1>0, <2>1, <2>2, <2>3 DEF MemoryInv, JobStatus
<1>7. CASE TableQueueNext
  BY <1>1, <1>7, Zenon DEF TableQueueNext, InsertRow, SelectPending, UpdateClaimed, Conclude, memoryQueueVars
<1>8. ASSUME NEW n \in Adapters, NEW w \in QueueWorkers, RegisterAdapter(n, w) PROVE MemoryInv'
  BY <1>1, <1>8, Zenon DEF RegisterAdapter, memoryQueueVars
<1> QED BY <1>1, <1>2, <1>3, <1>4, <1>5, <1>6, <1>7, <1>8, Zenon
      DEF QueuesNext, MemoryQueueNext, queueVars, memoryQueueVars

-----------------------------------------------------------------------------
\* With transactions a worker's claim that is still up to date names a row nobody
\* has taken, and nothing was attempted twice.
ClaimInv ==
  /\ claimRow \in [QueueJobs -> [status : JobStatus, attempts : Nat]] /\ wal \in Nat
  /\ claims \in [QueueWorkers -> SUBSET (QueueJobs \X Nat)]
  /\ taken \in [QueueWorkers -> SUBSET QueueJobs]
  /\ driver =>
       /\ \A w \in QueueWorkers : \A c \in claims[w] :
            c[2] <= wal /\ (c[2] = wal => claimRow[c[1]].status = "pending")
       /\ \A j \in QueueJobs :
            /\ claimRow[j].attempts <= 1
            /\ claimRow[j].status \in {"none", "pending"} =>
                 claimRow[j].attempts = 0 /\ \A w \in QueueWorkers : j \notin taken[w]
       /\ \A j \in QueueJobs, v, w \in QueueWorkers : j \in taken[v] /\ j \in taken[w] => v = w

LEMMA ClaimInit == QueuesInit => ClaimInv
<1> SUFFICES ASSUME QueuesInit PROVE ClaimInv
  OBVIOUS
<1>1. claimRow = [j \in QueueJobs |-> [status |-> "none", attempts |-> 0]] /\ wal = 0
      /\ claims = [w \in QueueWorkers |-> {}] /\ taken = [w \in QueueWorkers |-> {}]
  BY DEF QueuesInit
<1> QED BY <1>1 DEF ClaimInv, JobStatus

LEMMA ClaimStep == ClaimInv /\ [QueuesNext]_queueVars => ClaimInv'
<1> SUFFICES ASSUME ClaimInv, [QueuesNext]_queueVars PROVE ClaimInv'
  OBVIOUS
<1>0. /\ claimRow \in [QueueJobs -> [status : JobStatus, attempts : Nat]] /\ wal \in Nat
      /\ claims \in [QueueWorkers -> SUBSET (QueueJobs \X Nat)]
      /\ taken \in [QueueWorkers -> SUBSET QueueJobs]
  BY DEF ClaimInv
<1>1. CASE UNCHANGED tableQueueVars
  BY <1>1, Zenon DEF ClaimInv, tableQueueVars
<1>2. ASSUME NEW j \in QueueJobs, InsertRow(j) PROVE ClaimInv'
  <2>1. /\ claimRow[j].status = "none" /\ UNCHANGED <<claims, taken, driver>>
        /\ claimRow' = [claimRow EXCEPT ![j].status = "pending"] /\ wal' = wal + 1
    BY <1>2, Zenon DEF InsertRow
  <2>2. /\ claimRow' \in [QueueJobs -> [status : JobStatus, attempts : Nat]] /\ wal' \in Nat
        /\ claimRow'[j].status = "pending" /\ claimRow'[j].attempts = claimRow[j].attempts
        /\ \A k \in QueueJobs : k # j => claimRow'[k] = claimRow[k]
    BY <1>0, <2>1 DEF JobStatus
  <2>3. driver => \A w \in QueueWorkers : \A c \in claims[w] : c[2] <= wal' /\ c[2] # wal'
    BY <1>0, <2>1 DEF ClaimInv
  <2> QED BY <1>0, <2>1, <2>2, <2>3 DEF ClaimInv
<1>3. ASSUME NEW w \in QueueWorkers, SelectPending(w) PROVE ClaimInv'
  <2>1. UNCHANGED <<claimRow, wal, taken, driver>>
    BY <1>3, Zenon DEF SelectPending
  <2>2. PICK j \in QueueJobs : claimRow[j].status = "pending" /\ claims' = [claims EXCEPT ![w] = {<<j, wal>>}]
    BY <1>3, Zenon DEF SelectPending
  <2>3. claims' \in [QueueWorkers -> SUBSET (QueueJobs \X Nat)]
    BY <1>0, <2>2
  <2>4. ASSUME driver, NEW v \in QueueWorkers, NEW c \in claims'[v]
        PROVE  c[2] <= wal /\ (c[2] = wal => claimRow[c[1]].status = "pending")
    <3>1. CASE v = w
      <4>1. c = <<j, wal>>
        BY <1>0, <2>2, <2>4, <3>1
      <4> QED BY <1>0, <2>2, <4>1
    <3>2. CASE v # w
      BY <1>0, <2>2, <2>4, <3>2 DEF ClaimInv
    <3> QED BY <3>1, <3>2
  <2> QED BY <1>0, <2>1, <2>3, <2>4 DEF ClaimInv
<1>4. ASSUME NEW w \in QueueWorkers, UpdateClaimed(w) PROVE ClaimInv'
  <2>1. PICK c \in claims[w] :
          /\ claims' = [claims EXCEPT ![w] = {}] /\ driver' = driver
          /\ IF MayUpdate(c[2])
             THEN /\ claimRow' = [claimRow EXCEPT ![c[1]] = [status |-> "running", attempts |-> @.attempts + 1]]
                  /\ wal' = wal + 1 /\ taken' = [taken EXCEPT ![w] = @ \cup {c[1]}]
             ELSE UNCHANGED <<claimRow, wal, taken>>
    BY <1>4, Zenon DEF UpdateClaimed
  <2>2. /\ claims' \in [QueueWorkers -> SUBSET (QueueJobs \X Nat)]
        /\ \A v \in QueueWorkers : claims'[v] \subseteq claims[v]
    BY <1>0, <2>1
  <2>3. c[1] \in QueueJobs /\ c[2] \in Nat
    BY <1>0
  <2>4. CASE ~MayUpdate(c[2])
    BY <1>0, <2>1, <2>2, <2>4 DEF ClaimInv
  <2>5. CASE MayUpdate(c[2])
    <3> DEFINE j == c[1]
    <3>1. driver => /\ claimRow[j].status = "pending" /\ claimRow[j].attempts = 0
                    /\ \A v \in QueueWorkers : j \notin taken[v]
      BY <2>3, <2>5 DEF MayUpdate, ClaimInv
    <3> HIDE DEF j
    <3>2. j \in QueueJobs /\ wal' = wal + 1 /\ taken' = [taken EXCEPT ![w] = @ \cup {j}]
          /\ claimRow' = [claimRow EXCEPT ![j] = [status |-> "running", attempts |-> claimRow[j].attempts + 1]]
      BY <2>1, <2>3, <2>5 DEF j
    <3>3. /\ claimRow' \in [QueueJobs -> [status : JobStatus, attempts : Nat]] /\ wal' \in Nat
          /\ claimRow'[j] = [status |-> "running", attempts |-> claimRow[j].attempts + 1]
          /\ \A k \in QueueJobs : k # j => claimRow'[k] = claimRow[k]
      BY <1>0, <3>2 DEF JobStatus
    <3>4. /\ taken' \in [QueueWorkers -> SUBSET QueueJobs] /\ taken'[w] = taken[w] \cup {j}
          /\ \A v \in QueueWorkers : v # w => taken'[v] = taken[v]
      BY <1>0, <3>2
    <3>5. driver => \A v \in QueueWorkers : \A d \in claims'[v] : d[2] <= wal' /\ d[2] # wal'
      BY <1>0, <2>2, <3>2 DEF ClaimInv
    <3>6. ASSUME driver, NEW k \in QueueJobs
          PROVE  /\ claimRow'[k].attempts <= 1
                 /\ claimRow'[k].status \in {"none", "pending"} =>
                      claimRow'[k].attempts = 0 /\ \A v \in QueueWorkers : k \notin taken'[v]
      <4>1. CASE k = j
        BY <3>1, <3>3, <3>6, <4>1
      <4>2. CASE k # j
        <5>1. claimRow'[k] = claimRow[k] /\ \A v \in QueueWorkers : k \notin taken[v] => k \notin taken'[v]
          BY <3>3, <3>4, <4>2
        <5> QED BY <3>6, <5>1 DEF ClaimInv
      <4> QED BY <4>1, <4>2
    <3>7. ASSUME driver, NEW k \in QueueJobs, NEW u \in QueueWorkers, NEW v \in QueueWorkers,
                 k \in taken'[u], k \in taken'[v]
          PROVE  u = v
      BY <3>1, <3>4, <3>7 DEF ClaimInv
    <3> QED BY <2>1, <2>2, <3>3, <3>4, <3>5, <3>6, <3>7 DEF ClaimInv
  <2> QED BY <2>4, <2>5
<1>5. ASSUME NEW w \in QueueWorkers, NEW j \in QueueJobs, NEW s \in Outcome, Conclude(w, j, s) PROVE ClaimInv'
  <2>1. /\ UNCHANGED <<claims, driver>> /\ wal' = wal + 1
        /\ claimRow' = [claimRow EXCEPT ![j].status = s] /\ taken' = [taken EXCEPT ![w] = @ \ {j}]
    BY <1>5, Zenon DEF Conclude
  <2>2. /\ claimRow' \in [QueueJobs -> [status : JobStatus, attempts : Nat]] /\ wal' \in Nat
        /\ claimRow'[j].status = s /\ claimRow'[j].attempts = claimRow[j].attempts
        /\ \A k \in QueueJobs : k # j => claimRow'[k] = claimRow[k]
    BY <1>0, <2>1 DEF JobStatus, Outcome
  <2>3. /\ taken' \in [QueueWorkers -> SUBSET QueueJobs] /\ \A v \in QueueWorkers : taken'[v] \subseteq taken[v]
    BY <1>0, <2>1
  <2>4. driver => \A v \in QueueWorkers : \A c \in claims[v] : c[2] <= wal' /\ c[2] # wal'
    BY <1>0, <2>1 DEF ClaimInv
  <2>5. s \notin {"none", "pending"}
    BY DEF Outcome
  <2> QED BY <1>0, <2>1, <2>2, <2>3, <2>4, <2>5 DEF ClaimInv
<1>6. CASE MemoryQueueNext
  BY <1>1, <1>6, Zenon DEF MemoryQueueNext, EnqueueMemory, Dequeue, Mark, ResetStuckJobs, CloseMemory
<1>7. ASSUME NEW n \in Adapters, NEW w \in QueueWorkers, RegisterAdapter(n, w) PROVE ClaimInv'
  BY <1>1, <1>7, Zenon DEF RegisterAdapter
<1> QED BY <1>1, <1>2, <1>3, <1>4, <1>5, <1>6, <1>7, Zenon DEF QueuesNext, TableQueueNext, queueVars

\* (Theorem) No queue loses a job or hands it out too often: what is shown as pending
\* waits, a job is handed out once and once more per reset that found it running,
\* and with transactions two processes never claim one row (core/src/jobs.ts,
\* storage/jobs.ts).
THEOREM QueuesKeepJobsCorrect == QueuesSpec => []QueuesKeepJobs
<1>1. MemoryInv => PendingIsQueued
  <2> SUFFICES ASSUME MemoryInv, NEW j \in QueueJobs, all[j] = "pending" PROVE j \in ToSet(pending)
    BY DEF PendingIsQueued
  <2>1. Entries(pending, j) # {}
    <3>1. Times(pending, j) > 0
      BY DEF MemoryInv
    <3>2. Cardinality({}) = 0
      BY FS_EmptySet
    <3> QED BY <3>1, <3>2 DEF Times
  <2> QED BY <2>1 DEF Entries, ToSet
<1>2. MemoryInv => HandedOncePerReset
  BY Zenon DEF MemoryInv, HandedOncePerReset, Times, Entries
<1>3. ClaimInv => ClaimedOnce
  <2> SUFFICES ASSUME ClaimInv, driver, NEW j \in QueueJobs
               PROVE  claimRow[j].attempts <= 1 /\ Cardinality({w \in QueueWorkers : j \in taken[w]}) <= 1
    BY DEF ClaimedOnce
  <2> DEFINE H == {w \in QueueWorkers : j \in taken[w]}
  <2>1. \A v, w \in H : v = w
    BY DEF ClaimInv
  <2>2. H = {} \/ \E w : H = {w}
    BY <2>1
  <2> HIDE DEF H
  <2>3. Cardinality(H) = 0 \/ Cardinality(H) = 1
    BY <2>2, FS_EmptySet, FS_Singleton
  <2>4. Cardinality(H) <= 1
    BY <2>3
  <2>5. claimRow[j].attempts <= 1
    BY DEF ClaimInv
  <2> QED BY <2>4, <2>5 DEF H
<1>4. MemoryInv /\ ClaimInv => QueuesKeepJobs
  BY <1>1, <1>2, <1>3 DEF QueuesKeepJobs
<1> QED BY <1>4, MemoryInit, MemoryStep, ClaimInit, ClaimStep, PTL DEF QueuesSpec

-----------------------------------------------------------------------------
(* AccessLists: the check of a request and its write are several steps, so   *)
(* a request remembers in `held` whether its user could manage the list.     *)

AclRecords ==
  [at : {"idle", "found", "allowed", "applied", "done", "refused"},
   op : {"grant", "revoke", "list"}, by : Members \cup {NoOne}, doc : Documents \cup {NoOne},
   who : Principals \cup {NoOne}, permission : Permissions \cup {"read"}, held : BOOLEAN]

AclStages == {"allowed", "applied", "done", "refused"}

\* A request whose user manages the workspace now has held it, and so has one that
\* passed the checks.
AclInv ==
  /\ acl \in [AclRequests -> AclRecords]
  /\ DOMAIN memberRole = Members
  /\ \A r \in AclRequests :
       /\ acl[r].at = "found" =>
            acl[r].by \in Members /\ (CanManage(memberRole[acl[r].by]) => acl[r].held)
       /\ acl[r].at = "allowed" => acl[r].held

LEMMA InitAcl == AclInit => AclInv
<1> SUFFICES ASSUME AclInit PROVE AclInv
  OBVIOUS
<1>1. AclIdle \in AclRecords /\ AclIdle.at = "idle"
  BY DEF AclIdle, AclRecords
<1>2. acl \in [AclRequests -> AclRecords] /\ \A r \in AclRequests : acl[r].at = "idle"
  BY <1>1 DEF AclInit
<1> QED BY <1>2 DEF AclInit, AclInv

LEMMA AclInvStep == AclInv /\ [AclNext]_aclVars => AclInv'
<1> SUFFICES ASSUME AclInv, [AclNext]_aclVars PROVE AclInv'
  OBVIOUS
<1> USE DEF AclInv
<1>1. CASE UNCHANGED <<acl, memberRole>>
  BY <1>1
<1>2. CASE UNCHANGED aclVars
  BY <1>1, <1>2 DEF aclVars
<1>3. ASSUME NEW u \in Members, NEW d \in Documents, Upload(u, d) \/ Ingest(u, d) \/ Delete(u, d)
      PROVE  AclInv'
  BY <1>1, <1>3 DEF Upload, Ingest, Delete
<1>4. ASSUME NEW u \in Members, NEW role, SetRole(u, role) PROVE AclInv'
  <2>1. memberRole' = [memberRole EXCEPT ![u] = role]
    BY <1>4 DEF SetRole
  <2>2. ASSUME NEW r \in AclRequests
        PROVE  /\ acl'[r] \in AclRecords
               /\ acl'[r].at = acl[r].at /\ acl'[r].by = acl[r].by
               /\ acl'[r].held = (acl[r].held \/ (acl[r].by = u /\ CanManage(role)))
    <3>1. acl'[r] =
            [acl[r] EXCEPT !.held = acl[r].held \/ (acl[r].by = u /\ CanManage(role))]
      BY <1>4 DEF SetRole
    <3>2. acl[r] \in AclRecords
      OBVIOUS
    <3> QED BY <3>1, <3>2 DEF AclRecords
  <2>3. acl' \in [AclRequests -> AclRecords]
    <3>1. DOMAIN acl' = AclRequests
          /\ acl' = [r \in AclRequests |->
                      [acl[r] EXCEPT !.held = @ \/ (acl[r].by = u /\ CanManage(role))]]
      BY <1>4 DEF SetRole
    <3> QED BY <2>2, <3>1
  <2>4. ASSUME NEW r \in AclRequests, acl[r].at = "found"
        PROVE  /\ acl'[r].by \in Members
               /\ CanManage(memberRole'[acl'[r].by]) => acl'[r].held
    BY <2>1, <2>2, <2>4
  <2> QED BY <2>1, <2>2, <2>3, <2>4
<1>5. CASE MembershipStep
  BY <1>1, <1>5 DEF MembershipStep
<1>6. ASSUME NEW r \in AclRequests, NEW op \in {"grant", "revoke", "list"}, NEW u \in Members,
             NEW d \in Documents, NEW who \in Principals \cup {NoOne},
             NEW permission \in Permissions \cup {"read"},
             FindDocument(r, op, u, d, who, permission)
      PROVE  AclInv'
  <2> DEFINE q == [at |-> IF owner[d] = u THEN "allowed" ELSE "found", op |-> op, by |-> u,
                   doc |-> d, who |-> who, permission |-> permission, held |-> Governs(u, d)]
  <2>1. acl' = [acl EXCEPT ![r] = q] /\ UNCHANGED memberRole
    BY <1>6 DEF FindDocument
  <2>2. Governs(u, d) \in BOOLEAN
    BY DEF Governs
  <2>3. q \in AclRecords
    BY <2>2 DEF AclRecords
  <2>4. /\ q.by = u /\ (q.at = "allowed" => q.held)
        /\ CanManage(memberRole[u]) => q.held
    BY DEF Governs
  <2> HIDE DEF q
  <2> QED BY <2>1, <2>3, <2>4
<1>7. ASSUME NEW r \in AclRequests, NEW at \in AclStages,
             AclStep(r, at), at = "allowed" => acl[r].held
      PROVE  AclInv'
  <2> DEFINE q == [IF at \in {"done", "refused"} THEN AclIdle ELSE acl[r] EXCEPT !.at = at]
  <2>1. acl' = [acl EXCEPT ![r] = q] /\ UNCHANGED memberRole
    BY <1>7 DEF AclStep
  <2>2. AclIdle \in AclRecords
    BY DEF AclIdle, AclRecords
  <2>3. q \in AclRecords /\ q.at = at /\ (at = "allowed" => q.held = acl[r].held)
    BY <2>2 DEF AclRecords, AclStages
  <2>4. at # "found"
    BY DEF AclStages
  <2> HIDE DEF q
  <2> QED BY <1>7, <2>1, <2>3, <2>4
<1>8. ASSUME NEW r \in AclRequests, CheckRole(r) PROVE AclInv'
  BY <1>7, <1>8 DEF CheckRole, MayChange, AclStages
<1>9. ASSUME NEW r \in AclRequests, RefuseBody(r) \/ ApplyAcl(r) \/ AuditAcl(r) PROVE AclInv'
  <2>1. AclStep(r, "refused") \/ AclStep(r, "applied") \/ AclStep(r, "done")
    BY <1>9, Zenon DEF RefuseBody, ApplyAcl, AuditAcl
  <2> QED BY <1>7, <2>1 DEF AclStages
<1>10. ASSUME NEW r \in AclRequests, NEW u \in Members, NEW d \in Documents,
              ListPrincipals(r, u, d) \/ GrantPrincipal(r, u, d) \/ RevokePrincipal(r, u, d)
       PROVE  AclInv'
  <2>1. CASE ListPrincipals(r, u, d)
    BY <1>6, <2>1 DEF ListPrincipals
  <2>2. CASE GrantPrincipal(r, u, d)
    <3>1. PICK who \in Principals, permission \in Permissions :
            FindDocument(r, "grant", u, d, who, permission)
      BY <2>2, Zenon DEF GrantPrincipal
    <3> QED BY <1>6, <3>1
  <2>3. CASE RevokePrincipal(r, u, d)
    <3>1. PICK who \in Principals, permission \in Permissions :
            FindDocument(r, "revoke", u, d, who, permission)
      BY <2>3, Zenon DEF RevokePrincipal
    <3> QED BY <1>6, <3>1
  <2> QED BY <1>10, <2>1, <2>2, <2>3
<1> QED BY <1>2, <1>3, <1>4, <1>5, <1>8, <1>9, <1>10 DEF AclNext

\* Nothing but a request that is carried out reads a list for its user or changes it.
NothingApplied ==
  /\ grants' = grants
  /\ \A r \in AclRequests : acl'[r].at = "applied" => acl[r].at = "applied"

LEMMA OnlyRequestsApply ==
  ASSUME AclInv, [AclNext]_aclVars, ~\E r \in AclRequests : ApplyAcl(r)
  PROVE  NothingApplied
<1> USE DEF AclInv
<1>1. CASE UNCHANGED <<grants, acl>>
  BY <1>1 DEF NothingApplied
<1>2. ASSUME NEW u \in Members, NEW d \in Documents, Upload(u, d) \/ Ingest(u, d) \/ Delete(u, d)
      PROVE  NothingApplied
  BY <1>1, <1>2 DEF Upload, Ingest, Delete, Elsewhere
<1>3. ASSUME NEW u \in Members, NEW role, SetRole(u, role) PROVE NothingApplied
  <2>1. ASSUME NEW r \in AclRequests PROVE acl'[r].at = acl[r].at
    <3>1. acl'[r] =
            [acl[r] EXCEPT !.held = acl[r].held \/ (acl[r].by = u /\ CanManage(role))]
      BY <1>3 DEF SetRole
    <3>2. acl[r] \in AclRecords
      OBVIOUS
    <3> QED BY <3>1, <3>2 DEF AclRecords
  <2> QED BY <1>3, <2>1 DEF SetRole, Elsewhere, NothingApplied
<1>4. CASE MembershipStep
  BY <1>1, <1>4 DEF MembershipStep, Elsewhere
<1>5. ASSUME NEW r \in AclRequests, NEW q, q.at # "applied", acl' = [acl EXCEPT ![r] = q],
             grants' = grants
      PROVE  NothingApplied
  BY <1>5 DEF NothingApplied
<1>6. ASSUME NEW r \in AclRequests, NEW at \in AclStages \ {"applied"}, AclStep(r, at),
             grants' = grants
      PROVE  NothingApplied
  <2> DEFINE q == [IF at \in {"done", "refused"} THEN AclIdle ELSE acl[r] EXCEPT !.at = at]
  <2>1. acl' = [acl EXCEPT ![r] = q]
    BY <1>6 DEF AclStep
  <2>2. AclIdle \in AclRecords
    BY DEF AclIdle, AclRecords
  <2>3. q.at = at
    BY <2>2 DEF AclRecords
  <2> HIDE DEF q
  <2> QED BY <1>5, <1>6, <2>1, <2>3
<1>7. ASSUME NEW r \in AclRequests, CheckRole(r) \/ RefuseBody(r) \/ AuditAcl(r)
      PROVE  NothingApplied
  <2>1. \/ AclStep(r, "allowed") \/ AclStep(r, "refused") \/ AclStep(r, "done")
    BY <1>7 DEF CheckRole, RefuseBody, AuditAcl
  <2>2. grants' = grants
    BY <1>7, Zenon DEF CheckRole, RefuseBody, AuditAcl
  <2> QED BY <1>6, <2>1, <2>2 DEF AclStages
<1>8. ASSUME NEW r \in AclRequests, NEW op, NEW u, NEW d, NEW who, NEW permission,
             FindDocument(r, op, u, d, who, permission)
      PROVE  NothingApplied
  <2> DEFINE q == [at |-> IF owner[d] = u THEN "allowed" ELSE "found", op |-> op, by |-> u,
                   doc |-> d, who |-> who, permission |-> permission, held |-> Governs(u, d)]
  <2>1. acl' = [acl EXCEPT ![r] = q] /\ grants' = grants
    BY <1>8 DEF FindDocument
  <2>2. q.at # "applied"
    OBVIOUS
  <2> HIDE DEF q
  <2> QED BY <1>5, <2>1, <2>2
<1>9. ASSUME NEW r \in AclRequests, NEW u \in Members, NEW d \in Documents,
             ListPrincipals(r, u, d) \/ GrantPrincipal(r, u, d) \/ RevokePrincipal(r, u, d)
      PROVE  NothingApplied
  BY <1>8, <1>9, Zenon DEF ListPrincipals, GrantPrincipal, RevokePrincipal
<1>10. CASE UNCHANGED aclVars
  BY <1>1, <1>10 DEF aclVars
<1> QED BY <1>2, <1>3, <1>4, <1>7, <1>9, <1>10 DEF AclNext

\* What a request changes is the row it names.
LEMMA AppliedRow ==
  ASSUME NEW r \in AclRequests, ApplyAcl(r)
  PROVE  /\ \A g \in (grants \ grants') \cup (grants' \ grants) : Same(g, acl[r])
         /\ \A g \in grants' \ grants : g.by = acl[r].by
<1> DEFINE new == [doc |-> acl[r].doc, who |-> acl[r].who,
                   permission |-> acl[r].permission, by |-> acl[r].by]
<1>1. Same(new, acl[r]) /\ new.by = acl[r].by
  BY DEF Same
<1>2. Granted(acl[r]) = grants \/ Granted(acl[r]) = grants \cup {new}
  BY Zenon DEF Granted
<1> HIDE DEF new
<1>3. grants' = Granted(acl[r]) \/ grants' = Revoked(acl[r]) \/ grants' = grants
  BY Zenon DEF ApplyAcl
<1>4. CASE grants' = Revoked(acl[r])
  BY <1>4 DEF Revoked
<1> QED BY <1>1, <1>2, <1>3, <1>4

\* What a request reads or changes of a list, its user could manage at a moment since
\* the request came, for any number of users, documents and requests.
THEOREM OnlyGovernorsGrantCorrect == AclSpec => OnlyGovernorsGrant
<1> DEFINE Act ==
      /\ \A r \in AclRequests :
           acl[r].at # "applied" /\ acl'[r].at = "applied" => acl[r].held
      /\ grants' # grants =>
           \E r \in AclRequests :
             /\ acl[r].at # "applied" /\ acl'[r].at = "applied"
             /\ \A g \in (grants \ grants') \cup (grants' \ grants) : Same(g, acl[r])
             /\ \A g \in grants' \ grants : g.by = acl[r].by
<1>1. AclInv /\ [AclNext]_aclVars => Act
  <2> SUFFICES ASSUME AclInv, [AclNext]_aclVars PROVE Act
    OBVIOUS
  <2>1. CASE ~\E r \in AclRequests : ApplyAcl(r)
    <3>1. NothingApplied
      BY <2>1, OnlyRequestsApply
    <3> QED BY <3>1 DEF NothingApplied
  <2>2. ASSUME NEW r \in AclRequests, ApplyAcl(r) PROVE Act
    <3>1. acl[r].at = "allowed" /\ acl[r].held
      BY <2>2 DEF ApplyAcl, AclInv
    <3>2. acl' = [acl EXCEPT ![r] = [acl[r] EXCEPT !.at = "applied"]]
      BY <2>2 DEF ApplyAcl, AclStep
    <3>3. acl'[r].at = "applied" /\ \A q \in AclRequests \ {r} : acl'[q] = acl[q]
      BY <3>2 DEF AclInv, AclRecords
    <3> QED BY <2>2, <3>1, <3>3, AppliedRow
  <2> QED BY <2>1, <2>2
<1> QED BY <1>1, InitAcl, AclInvStep, PTL DEF AclSpec, OnlyGovernorsGrant

-----------------------------------------------------------------------------
(* Startup                                                                 *)

\* Before two processes have found a workspace without a key check, at most one is
\* making a key, and only while there is none; whoever holds a key holds that of the
\* verifier; and a row is readable with that key, with none, or there is no row.
PassphraseInv ==
  /\ keycheck \in KeyType /\ rows \in [SettingKeys -> SUBSET KeyType] /\ raced \in BOOLEAN
  /\ openers \in [Openers -> [at : {"closed", "deriving", "open"}, key : KeyType]]
  /\ vaultKey \in Passphrases \cup {""}
  /\ ~raced =>
       /\ \A o \in Openers : openers[o].at = "deriving" =>
            /\ keycheck = NoKey
            /\ \A q \in Openers : openers[q].at = "deriving" => q = o
       /\ \A o \in Openers : openers[o].at = "open" => openers[o].key \in {NoKey, keycheck}
       /\ \A k \in SettingKeys : rows[k] \in {{}, {NoKey}, {keycheck}}

\* Once made, the verifier stays, which is what keeps the rows readable.
LEMMA PassphraseInvInit == StartupInit => PassphraseInv
<1> SUFFICES ASSUME StartupInit PROVE PassphraseInv
  OBVIOUS
<1>1. NoKey \in KeyType /\ {} \in SUBSET KeyType
  BY DEF NoKey, KeyType
<1>2. keycheck = NoKey /\ vaultKey = "" /\ raced = FALSE /\ rows = [k \in SettingKeys |-> {}]
      /\ openers = [o \in Openers |-> [at |-> "closed", key |-> NoKey]]
  BY Zenon DEF StartupInit
<1>3. openers \in [Openers -> [at : {"closed", "deriving", "open"}, key : KeyType]]
  BY <1>1, <1>2
<1>4. \A o \in Openers : openers[o].at = "closed"
  BY <1>2
<1> QED BY <1>1, <1>2, <1>3, <1>4 DEF PassphraseInv

LEMMA PassphraseInvNext == PassphraseInv /\ [StartupNext]_startupVars => PassphraseInv'
<1> SUFFICES ASSUME PassphraseInv, [StartupNext]_startupVars PROVE PassphraseInv'
  OBVIOUS
<1> USE DEF PassphraseInv
<1>1. ASSUME UNCHANGED keyVars PROVE PassphraseInv'
  BY <1>1 DEF keyVars
<1>2. CASE UNCHANGED startupVars
  BY <1>1, <1>2 DEF startupVars
<1>3. CASE LoadSettings
  BY <1>1, <1>3 DEF LoadSettings
<1>4. CASE ReadLine
  BY <1>1, <1>4 DEF ReadLine
<1>5. CASE RegistryNext
  BY <1>1, <1>5 DEF RegistryNext, RegisterPlugin, RegisterBuiltIns, ClearRegistry
<1>6. CASE TelemetryNext
  BY <1>1, <1>6 DEF TelemetryNext, SetAttribute, Emit
<1>7. ASSUME NEW p \in Passphrases, VaultPut(p) PROVE PassphraseInv'
  BY <1>7 DEF VaultPut
<1>8. CASE VaultRemove
  BY <1>8 DEF VaultRemove
<1>9. ASSUME NEW o \in Openers, ReadKeycheck(o) PROVE PassphraseInv'
  <2> PICK p \in Passphrases \cup {vaultKey} :
        LET fresh == Fresh(p)
            key == IF p = "" THEN NoKey ELSE [pass |-> p, salt |-> keycheck.salt]
        IN  /\ openers' = [openers EXCEPT ![o] =
                  [at |-> IF fresh THEN "deriving"
                          ELSE IF key \in {NoKey, keycheck} THEN "open" ELSE "closed",
                   key |-> IF fresh THEN [pass |-> p, salt |-> o] ELSE key]]
            /\ raced' = (raced \/ (fresh /\ \E q \in Openers \ {o} : openers[q].at = "deriving"))
    BY <1>9, Zenon DEF ReadKeycheck
  <2>1. openers[o].at = "closed" /\ UNCHANGED <<vaultKey, keycheck, rows>>
    BY <1>9 DEF ReadKeycheck
  <2> DEFINE key == IF p = "" THEN NoKey ELSE [pass |-> p, salt |-> keycheck.salt]
             given == IF Fresh(p) THEN [pass |-> p, salt |-> o] ELSE key
             at == IF Fresh(p) THEN "deriving" ELSE IF key \in {NoKey, keycheck} THEN "open" ELSE "closed"
  <2>2. openers' = [openers EXCEPT ![o] = [at |-> at, key |-> given]]
    OBVIOUS
  <2>3. given \in KeyType
    BY DEF KeyType, NoKey
  <2>4. at \in {"closed", "deriving", "open"} /\ (at = "deriving" => Fresh(p)) /\ (at = "open" => given \in {NoKey, keycheck})
    OBVIOUS
  <2>5. raced' \in BOOLEAN /\ (~raced' => ~raced /\ (Fresh(p) => \A q \in Openers \ {o} : openers[q].at # "deriving"))
    BY Zenon
  <2>6. Fresh(p) => keycheck = NoKey
    BY DEF Fresh
  <2> HIDE DEF at, given
  <2>7. openers' \in [Openers -> [at : {"closed", "deriving", "open"}, key : KeyType]]
    <3> DEFINE H == [at : {"closed", "deriving", "open"}, key : KeyType]
    <3>1. [at |-> at, key |-> given] \in H
      BY <2>3, <2>4
    <3>2. openers \in [Openers -> H]
      BY Zenon
    <3> HIDE DEF H
    <3>3. openers' \in [Openers -> H]
      BY <2>2, <3>1, <3>2, Zenon
    <3> QED BY <3>3 DEF H
  <2>8. \A q \in Openers : openers'[q] = IF q = o THEN [at |-> at, key |-> given] ELSE openers[q]
    BY <2>2
  <2>9. ASSUME ~raced' PROVE \A q \in Openers : openers'[q].at = "deriving" =>
            /\ keycheck' = NoKey
            /\ \A r \in Openers : openers'[r].at = "deriving" => r = q
    BY <2>1, <2>4, <2>5, <2>6, <2>8, <2>9
  <2>10. ASSUME ~raced' PROVE \A q \in Openers : openers'[q].at = "open" => openers'[q].key \in {NoKey, keycheck'}
    BY <2>1, <2>4, <2>5, <2>8, <2>10
  <2>11. ~raced' => \A k \in SettingKeys : rows'[k] \in {{}, {NoKey}, {keycheck'}}
    BY <2>1, <2>5
  <2>12. keycheck' \in KeyType /\ rows' \in [SettingKeys -> SUBSET KeyType] /\ vaultKey' \in Passphrases \cup {""}
    BY <2>1
  <2> QED BY <2>5, <2>7, <2>9, <2>10, <2>11, <2>12, Zenon
<1>10. ASSUME NEW o \in Openers, WriteKeycheck(o) PROVE PassphraseInv'
  BY <1>10 DEF WriteKeycheck
<1>11. ASSUME NEW o \in Openers, CloseHandle(o) PROVE PassphraseInv'
  BY <1>11 DEF CloseHandle, NoKey, KeyType
<1>12. ASSUME NEW o \in Openers, NEW k \in SettingKeys, SetSetting(o, k) PROVE PassphraseInv'
  <2>1. UNCHANGED <<vaultKey, keycheck, openers, raced>> /\ openers[o].at = "open"
        /\ (rows' = [rows EXCEPT ![k] = {openers[o].key}] \/ rows' = [rows EXCEPT ![k] = {}])
    BY <1>12 DEF SetSetting
  <2>2. openers[o].key \in KeyType /\ (~raced => openers[o].key \in {NoKey, keycheck})
    BY <2>1
  <2>3. rows' \in [SettingKeys -> SUBSET KeyType]
    <3> DEFINE S == SUBSET KeyType
    <3>1. {openers[o].key} \in S /\ {} \in S /\ rows \in [SettingKeys -> S]
      BY <2>2
    <3> HIDE DEF S
    <3>2. rows' \in [SettingKeys -> S]
      BY <2>1, <3>1, Zenon
    <3> QED BY <3>2 DEF S
  <2>4. ~raced => {openers[o].key} \in {{}, {NoKey}, {keycheck}}
    BY <2>2
  <2>5. \A j \in SettingKeys : rows'[j] \in {rows[j], {}, {openers[o].key}}
    BY <2>1
  <2>6. ~raced' => \A j \in SettingKeys : rows'[j] \in {{}, {NoKey}, {keycheck'}}
    <3> SUFFICES ASSUME ~raced, NEW j \in SettingKeys PROVE rows'[j] \in {{}, {NoKey}, {keycheck}}
      BY <2>1
    <3>1. rows[j] \in {{}, {NoKey}, {keycheck}}
      OBVIOUS
    <3> QED BY <2>4, <2>5, <3>1, Zenon
  <2>7. (~raced' => /\ \A q \in Openers : openers'[q].at = "deriving" =>
                         /\ keycheck' = NoKey
                         /\ \A r \in Openers : openers'[r].at = "deriving" => r = q
                    /\ \A q \in Openers : openers'[q].at = "open" => openers'[q].key \in {NoKey, keycheck'})
    BY <2>1
  <2>8. keycheck' \in KeyType /\ raced' \in BOOLEAN /\ vaultKey' \in Passphrases \cup {""}
        /\ openers' \in [Openers -> [at : {"closed", "deriving", "open"}, key : KeyType]]
    BY <2>1
  <2> QED BY <2>3, <2>6, <2>7, <2>8
<1> QED
  BY <1>2, <1>3, <1>4, <1>5, <1>6, <1>7, <1>8, <1>9, <1>10, <1>11, <1>12 DEF StartupNext, KeyNext

\* For any passphrases, processes and settings: unless two processes found the
\* workspace without a key check at once, every handle has the key of its verifier
\* and reads every row that a handle with a passphrase wrote before.
THEOREM OnePassphraseCorrect == StartupSpec => []OnePassphrase
<1>1. PassphraseInv => OnePassphrase
  BY DEF PassphraseInv, OnePassphrase, GetSetting, KeyType
<1> QED BY <1>1, PassphraseInvInit, PassphraseInvNext, PTL DEF StartupSpec

\* For any plugins, also under the names of the built-in ones: registered once, the
\* built-in ones stay what their names stand for until the group is cleared.
THEOREM BuiltInsStayCorrect == StartupSpec => []BuiltInsStay
<1> DEFINE Slots == entries \in [Plugins \cup ToSet(BuiltIns) -> {"none", "plugin", "builtin"}]
           Names3 == {BuiltIns[i] : i \in DOMAIN BuiltIns}
           Inv == Slots /\ registered \in BOOLEAN /\ cleared \in BOOLEAN /\ BuiltInsStay
<1>1. ToSet(BuiltIns) = Names3
  BY DEF ToSet
<1>2. StartupInit => Inv
  BY DEF StartupInit, BuiltInsStay
<1>3. ASSUME Inv, [StartupNext]_startupVars PROVE Inv'
  <2>1. CASE UNCHANGED registryVars
    BY <1>3, <2>1 DEF registryVars, BuiltInsStay
  <2>2. ASSUME NEW n \in Plugins \cup ToSet(BuiltIns), RegisterPlugin(n) PROVE Inv'
    <3>1. entries[n] = "none" /\ entries' = [entries EXCEPT ![n] = "plugin"]
          /\ UNCHANGED <<registered, cleared>>
      BY <2>2 DEF RegisterPlugin, Free
    <3>2. ASSUME registered, ~cleared, NEW i \in DOMAIN BuiltIns PROVE entries'[BuiltIns[i]] = "builtin"
      <4>1. entries[BuiltIns[i]] = "builtin" /\ BuiltIns[i] \in Names3
        BY <1>3, <3>2 DEF BuiltInsStay
      <4> QED BY <1>1, <1>3, <3>1, <4>1
    <3> QED BY <1>3, <3>1, <3>2 DEF BuiltInsStay
  <2>3. CASE RegisterBuiltIns
    <3> DEFINE clashing == {i \in DOMAIN BuiltIns : ~Free(BuiltIns[i])}
               upTo == IF clashing = {} THEN Len(BuiltIns) ELSE Min(clashing) - 1
    <3>1. /\ entries' = [n \in DOMAIN entries |->
                           IF \E i \in 1 .. upTo : BuiltIns[i] = n THEN "builtin" ELSE entries[n]]
          /\ registered' = (clashing = {}) /\ cleared' = (cleared /\ clashing # {})
      BY <2>3 DEF RegisterBuiltIns
    <3>2. entries' \in [Plugins \cup ToSet(BuiltIns) -> {"none", "plugin", "builtin"}]
      BY <1>3, <3>1
    <3>3. registered' \in BOOLEAN /\ cleared' \in BOOLEAN
      BY <1>3, <3>1
    <3>4. ASSUME registered', NEW i \in DOMAIN BuiltIns PROVE entries'[BuiltIns[i]] = "builtin"
      <4>1. upTo = Len(BuiltIns)
        BY <3>1, <3>4, Zenon
      <4>2. i \in 1 .. upTo /\ BuiltIns[i] \in Names3
        BY <4>1 DEF BuiltIns
      <4> HIDE DEF upTo
      <4> QED BY <1>1, <1>3, <3>1, <4>2
    <3> QED BY <3>2, <3>3, <3>4 DEF BuiltInsStay
  <2>4. CASE ClearRegistry
    BY <1>3, <2>4 DEF ClearRegistry, BuiltInsStay
  <2> QED
    BY <1>3, <2>1, <2>2, <2>3, <2>4
    DEF StartupNext, RegistryNext, LoadSettings, ReadLine, KeyNext, VaultPut, VaultRemove, ReadKeycheck,
        WriteKeycheck, CloseHandle, SetSetting, TelemetryNext, SetAttribute, Emit, startupVars
<1> QED BY <1>2, <1>3, PTL DEF StartupSpec

\* For any attributes and names of secrets: what is forwarded with a secret was in an
\* array or was set on a span later.
THEOREM SecretsAreMaskedCorrect == StartupSpec => []SecretsAreMasked
<1>1. StartupInit => SecretsAreMasked
  BY DEF StartupInit, SecretsAreMasked
<1>2. ASSUME SecretsAreMasked, [StartupNext]_startupVars PROVE SecretsAreMasked'
  <2>1. CASE leaked' = leaked
    BY <1>2, <2>1 DEF SecretsAreMasked
  <2>2. ASSUME NEW k \in Attributes, SetAttribute(k) PROVE SecretsAreMasked'
    BY <1>2, <2>2 DEF SetAttribute, SecretsAreMasked
  <2>3. ASSUME NEW k \in Attributes, NEW u \in {"top", "object", "array"}, Emit(k, u)
        PROVE  SecretsAreMasked'
    BY <1>2, <2>3 DEF Emit, Masked, SecretsAreMasked
  <2>4. TelemetryNext \/ leaked' = leaked
    BY <1>2 DEF StartupNext, LoadSettings, ReadLine, RegistryNext, RegisterPlugin, RegisterBuiltIns,
                ClearRegistry, KeyNext, VaultPut, VaultRemove, ReadKeycheck, WriteKeycheck, CloseHandle,
                SetSetting, startupVars
  <2> QED BY <2>1, <2>2, <2>3, <2>4 DEF TelemetryNext
<1> QED BY <1>1, <1>2, PTL DEF StartupSpec

\* Settings that were returned are the parsed ones of one environment, none invalid.
SettingsInv ==
  settings.values # <<>> =>
    \E env \in [Kinds -> Raw], shared \in BOOLEAN :
      LET parsed == [k \in Kinds |-> Parsed(k, env[k], shared)]
      IN  /\ settings.env[1] = env /\ settings.values[1] = parsed
          /\ \A k \in Kinds : parsed[k] # "invalid"

\* For any environment: a value out of its range never gets through, and one that its
\* schema takes is never replaced by the default.
THEOREM SettingsAreHeardCorrect == StartupSpec => []SettingsAreHeard
<1>1. StartupInit => SettingsInv
  <2>1. StartupInit => settings.values = <<>>
    <3>1. StartupInit => settings = [env |-> <<>>, values |-> <<>>]
      BY Zenon DEF StartupInit
    <3> QED BY <3>1
  <2> QED BY <2>1, Zenon DEF SettingsInv
<1>2. ASSUME SettingsInv, [StartupNext]_startupVars PROVE SettingsInv'
  <2>1. CASE LoadSettings
    <3>1. PICK env \in Environments, shared \in BOOLEAN :
            LET parsed == [k \in Kinds |-> Parsed(k, env[k], shared)]
            IN  settings' = [env |-> <<env>>,
                  values |-> IF \E k \in Kinds : parsed[k] = "invalid" THEN <<>> ELSE <<parsed>>]
      BY <2>1, Zenon DEF LoadSettings
    <3> DEFINE parsed == [k \in Kinds |-> Parsed(k, env[k], shared)]
    <3>2. env \in [Kinds -> Raw]
      BY DEF Environments
    <3>3. settings'.env = <<env>>
      BY <3>1
    <3>4. settings'.values = IF \E k \in Kinds : parsed[k] = "invalid" THEN <<>> ELSE <<parsed>>
      BY <3>1
    <3> HIDE DEF parsed
    <3>5. ASSUME settings'.values # <<>>
          PROVE  /\ settings'.env[1] = env /\ settings'.values[1] = parsed
                 /\ \A k \in Kinds : parsed[k] # "invalid"
      BY <3>3, <3>4, <3>5
    <3> QED BY <3>2, <3>5, Zenon DEF SettingsInv, parsed
  <2>2. CASE UNCHANGED settings
    BY <1>2, <2>2, Zenon DEF SettingsInv
  <2>3. RegistryNext \/ KeyNext \/ TelemetryNext => UNCHANGED settingsVars
    BY DEF RegistryNext, RegisterPlugin, RegisterBuiltIns, ClearRegistry, KeyNext, VaultPut, VaultRemove,
           ReadKeycheck, WriteKeycheck, CloseHandle, SetSetting, TelemetryNext, SetAttribute, Emit
  <2> QED BY <1>2, <2>1, <2>2, <2>3 DEF StartupNext, ReadLine, settingsVars, startupVars
<1>3. SettingsInv => SettingsAreHeard
  <2> SUFFICES ASSUME SettingsInv, settings.values # <<>>, NEW k \in Kinds
               PROVE  /\ settings.env[1][k] = "good" => settings.values[1][k] = "good"
                      /\ settings.env[1][k] = "range" =>
                           settings.values[1][k] \in {"good", "off"} /\ k \notin {"number", "choice", "secret"}
    BY DEF SettingsAreHeard
  <2>1. PICK env \in [Kinds -> Raw], shared \in BOOLEAN :
          /\ settings.env[1] = env /\ settings.values[1] = [j \in Kinds |-> Parsed(j, env[j], shared)]
          /\ \A j \in Kinds : [i \in Kinds |-> Parsed(i, env[i], shared)][j] # "invalid"
    BY Zenon DEF SettingsInv
  <2>2. settings.values[1][k] = Parsed(k, env[k], shared) /\ Parsed(k, env[k], shared) # "invalid"
    BY <2>1
  <2>3. ASSUME env[k] = "good" PROVE Parsed(k, env[k], shared) = "good"
    BY <2>3 DEF Parsed, Kinds
  <2>4. ASSUME env[k] = "range"
        PROVE  Parsed(k, env[k], shared) \in {"good", "off", "invalid"}
               /\ (k \in {"number", "choice", "secret"} => Parsed(k, env[k], shared) = "invalid")
    BY <2>4 DEF Parsed, Kinds
  <2> QED BY <2>1, <2>2, <2>3, <2>4
<1> QED BY <1>1, <1>2, <1>3, PTL DEF StartupSpec

-----------------------------------------------------------------------------
(* RequestGate                                                             *)

GateStages ==
  {"new", "received", "limiting", "routing", "verifying", "handling", "probing", "answered"}

GateRequest ==
  [method : Methods, path : Paths, origin : Origins, token : Tokens, expires : Nat,
   cookie : Cookies, family : Families, peer : Nat, forwarded : BOOLEAN]

GateRecord ==
  [at : GateStages, req : GateRequest, checked : Int, from : {"none", "peer", "forwarded"},
   handled : BOOLEAN, answer : [status : Nat, body : {"none", "text", "json"}]]

\* A request past the check of its origin has one of ours if it changes anything, one
\* that was handled behind the token was checked in time, and one that is answered
\* without a handler has something the matter.
GateRules(g) ==
  /\ g.at \notin {"handling", "answered"} => ~g.handled
  /\ g.at = "handling" => g.handled
  /\ g.at = "limiting" => g.req.path \notin Probes
  /\ g.at = "probing" => g.req.method = "GET" /\ g.req.path \in Probes
  /\ g.handled => g.req.path \in {"login", "guarded"}
  /\ g.at \in {"limiting", "routing", "verifying", "probing", "handling"} \/ g.handled =>
       (OriginMatters(g.req) => g.req.origin \in {"own", "listed"})
  /\ g.handled /\ g.req.path = "guarded" =>
       g.req.token = "signed" /\ g.checked \in 0 .. g.req.expires - 1
  /\ g.at # "answered" => g.answer.status = 0
  /\ g.at = "answered" /\ ~g.handled => Matter(g.req, g.answer.status)

GateInv ==
  /\ gateTime \in Nat
  /\ gate \in [GateRequests -> GateRecord]
  /\ \A q \in GateRequests : GateRules(gate[q])

LEMMA GateInvInit == GateInit => GateInv
<1> SUFFICES ASSUME GateInit PROVE GateInv
  OBVIOUS
<1> DEFINE g == [at |-> "new", req |-> Nothing, checked |-> -1, from |-> "none",
                 handled |-> FALSE, answer |-> NoAnswer]
<1>1. gate = [q \in GateRequests |-> g] /\ gateTime = 0
  BY DEF GateInit
<1>3. Nothing \in GateRequest
  BY DEF Nothing, GateRequest, Methods, Paths, Origins, Tokens, Cookies, Families
<1>4. g \in GateRecord
  BY <1>3 DEF GateRecord, GateStages, NoAnswer
<1>5. GateRules(g)
  BY DEF GateRules, NoAnswer, Probes
<1> HIDE DEF g
<1> QED BY <1>1, <1>4, <1>5 DEF GateInv

\* One request moves on: it is enough that what it has become keeps the rules.
LEMMA GateMove ==
  ASSUME GateInv, NEW q \in GateRequests, NEW g \in GateRecord, GateRules(g),
         gate' = [gate EXCEPT ![q] = g], UNCHANGED <<gateTime, trusted>>
  PROVE  GateInv'
<1>1. gate' \in [GateRequests -> GateRecord]
  BY DEF GateInv
<1>2. \A p \in GateRequests : gate'[p] = IF p = q THEN g ELSE gate[p]
  BY DEF GateInv
<1>3. \A p \in GateRequests : GateRules(gate'[p])
  BY <1>2, Zenon DEF GateInv
<1>4. \A p \in GateRequests : GateRules(gate[p])'
  <2> SUFFICES ASSUME NEW p \in GateRequests PROVE GateRules(gate[p])'
    OBVIOUS
  <2> QED BY <1>3 DEF GateRules, Matter, OriginMatters
<1> QED BY <1>1, <1>4, Zenon DEF GateInv

\* The answers of a stage: those that tell what is the matter, and any of a handler.
LEMMA GateRespond ==
  ASSUME GateInv, NEW q \in GateRequests, NEW status \in Nat, NEW body \in {"none", "text", "json"},
         gate[q].handled \/ Matter(gate[q].req, status),
         Respond(q, status, body), UNCHANGED <<gateTime, trusted>>
  PROVE  GateInv'
<1> DEFINE g == [gate[q] EXCEPT !.at = "answered", !.answer = [status |-> status, body |-> body]]
<1>1. gate[q] \in GateRecord /\ GateRules(gate[q])
  BY Zenon DEF GateInv
<1>2. gate' = [gate EXCEPT ![q] = g]
  BY <1>1 DEF Respond, GateInv
<1>3. g \in GateRecord
  BY <1>1 DEF GateRecord, GateStages
<1>4. /\ g.at = "answered" /\ g.answer.status = status /\ g.req = gate[q].req
      /\ g.handled = gate[q].handled /\ g.checked = gate[q].checked
  BY <1>1 DEF GateRecord
<1>5. GateRules(g)
  <2> HIDE DEF g
  <2> QED BY <1>1, <1>4 DEF GateRules
<1> QED BY <1>2, <1>3, <1>5, GateMove, Zenon

\* A request goes on to a stage where nothing has been handled yet.
LEMMA GateAdvance ==
  ASSUME GateInv, NEW q \in GateRequests, NEW at \in {"limiting", "routing", "verifying", "probing"},
         NEW from \in {"none", "peer", "forwarded"},
         ~gate[q].handled, gate[q].answer.status = 0,
         at = "limiting" => gate[q].req.path \notin Probes,
         at = "probing" => gate[q].req.method = "GET" /\ gate[q].req.path \in Probes,
         OriginMatters(gate[q].req) => gate[q].req.origin \in {"own", "listed"},
         gate' = [gate EXCEPT ![q] = [gate[q] EXCEPT !.at = at, !.from = from]],
         UNCHANGED <<gateTime, trusted>>
  PROVE  GateInv'
<1> DEFINE g == [gate[q] EXCEPT !.at = at, !.from = from]
<1>1. gate[q] \in GateRecord
  BY Zenon DEF GateInv
<1>2. g \in GateRecord
  BY <1>1 DEF GateRecord, GateStages
<1>3. g.at = at /\ g.answer = gate[q].answer /\ g.req = gate[q].req /\ g.handled = gate[q].handled
  BY <1>1 DEF GateRecord
<1>4. GateRules(g)
  <2> HIDE DEF g
  <2> QED BY <1>1, <1>3 DEF GateRules
<1> QED BY <1>2, <1>4, GateMove, Zenon

\* What throws under a handler is answered with 500 or 401.
LEMMA CaughtAnswers ==
  ASSUME NEW q, NEW thrown, Caught(q, thrown)
  PROVE  \E status \in {401, 500}, body \in {"text", "json"} : Respond(q, status, body)
  BY DEF Caught

LEMMA CaughtError == ASSUME NEW q, Caught(q, "error") PROVE Respond(q, 500, "text")
  BY DEF Caught

LEMMA GateInvNext == GateInv /\ [GateNext]_gateVars => GateInv'
<1> SUFFICES ASSUME GateInv, [GateNext]_gateVars PROVE GateInv'
  OBVIOUS
<1> DEFINE Fits(q) == gate[q] \in GateRecord /\ GateRules(gate[q])
<1>0. \A q \in GateRequests : Fits(q)
  BY Zenon DEF GateInv
<1>1. ASSUME UNCHANGED gateRequestVars PROVE GateInv'
  <2>1. gate' = gate /\ gateTime' = gateTime /\ trusted' = trusted
    BY <1>1 DEF gateRequestVars
  <2>2. ASSUME NEW q \in GateRequests PROVE GateRules(gate[q])'
    BY <1>0, <2>1 DEF GateRules, Matter, OriginMatters
  <2> QED BY <2>1, <2>2, Zenon DEF GateInv
<1>2. ASSUME NEW q \in GateRequests, Receive(q) PROVE GateInv'
  <2>1. PICK r \in [method : Methods, path : Paths, origin : Origins, token : Tokens,
                    expires : {gateTime + TokenLife}, cookie : Cookies, family : Families,
                    peer : Address, forwarded : BOOLEAN] :
          gate' = [gate EXCEPT ![q].at = "received", ![q].req = r]
    BY <1>2, Zenon DEF Receive
  <2> DEFINE g == [gate[q] EXCEPT !.at = "received", !.req = r]
  <2>2. gate[q].at = "new" /\ UNCHANGED <<gateTime, trusted>>
    BY <1>2 DEF Receive
  <2>3. gateTime + TokenLife \in Nat
    BY GateAssumption DEF GateInv
  <2>4. r \in GateRequest
    BY <2>3 DEF GateRequest, Address
  <2>5. gate' = [gate EXCEPT ![q] = g]
    BY <1>0, <2>1 DEF GateInv
  <2>6. g \in GateRecord
    <3>1. "received" \in GateStages
      BY DEF GateStages
    <3> QED BY <1>0, <2>4, <3>1 DEF GateRecord
  <2>7. g.at = "received" /\ g.answer = gate[q].answer /\ g.handled = gate[q].handled
    BY <1>0 DEF GateRecord
  <2>8. GateRules(g)
    <3> HIDE DEF g
    <3> QED BY <1>0, <2>2, <2>7 DEF GateRules
  <2> QED BY <2>2, <2>5, <2>6, <2>8, GateMove, Zenon
<1>3. ASSUME NEW q \in GateRequests, Screen(q) PROVE GateInv'
  <2>1. gate[q].at = "received" /\ UNCHANGED <<gateTime, trusted>>
    BY <1>3 DEF Screen
  <2>2. ~gate[q].handled /\ gate[q].answer.status = 0
    BY <1>0, <2>1 DEF GateRules
  <2>3. CASE \E status \in {204, 403, 429, 500}, body \in {"none", "text", "json"} :
               Respond(q, status, body) /\ Matter(gate[q].req, status)
    BY <2>1, <2>2, <2>3, GateRespond
  <2>4. CASE /\ OriginMatters(gate[q].req) => gate[q].req.origin \in {"own", "listed"}
             /\ \E at \in {"routing", "limiting"}, from \in {"none", "peer", "forwarded"} :
                  /\ gate' = [gate EXCEPT ![q].from = from, ![q].at = at]
                  /\ at = "limiting" => gate[q].req.path \notin Probes
    <3>1. PICK at \in {"routing", "limiting"}, from \in {"none", "peer", "forwarded"} :
            /\ gate' = [gate EXCEPT ![q].from = from, ![q].at = at]
            /\ at = "limiting" => gate[q].req.path \notin Probes
      BY <2>4
    <3>2. gate' = [gate EXCEPT ![q] = [gate[q] EXCEPT !.at = at, !.from = from]]
      BY <1>0, <3>1 DEF GateInv, GateRecord
    <3> QED BY <2>1, <2>2, <2>4, <3>1, <3>2, GateAdvance
  <2>5. \A text, range : Source(gate[q].req, text, range) \in {"peer", "forwarded", "thrown"}
    BY DEF Source
  <2>6. Caught(q, "error") => Respond(q, 500, "text")
    BY CaughtError
  <2>7. PICK text \in Spellings(gate[q].req.peer), range \in Spellings(trusted.base) :
          LET r == gate[q].req
              from == IF r.path \in Probes THEN "none" ELSE Source(r, text, range)
          IN  \/ r.method = "OPTIONS" /\ Respond(q, 204, "none")
              \/ /\ r.method # "OPTIONS" /\ OriginMatters(r) /\ r.origin \notin {"own", "listed"}
                 /\ Respond(q, 403, "json")
              \/ /\ r.method # "OPTIONS" /\ (OriginMatters(r) => r.origin \in {"own", "listed"})
                 /\ \/ from = "thrown" /\ Caught(q, "error")
                    \/ from \in {"peer", "forwarded"} /\ Respond(q, 429, "json")
                    \/ /\ from # "thrown"
                       /\ gate' = [gate EXCEPT ![q].from = from,
                            ![q].at = IF r.path \in Probes \/ r.token = "none" THEN "routing" ELSE "limiting"]
    BY <1>3, Zenon DEF Screen
  <2> DEFINE r == gate[q].req
             from == IF r.path \in Probes THEN "none" ELSE Source(r, text, range)
  <2>8. CASE r.method = "OPTIONS" /\ Respond(q, 204, "none")
    BY <2>3, <2>8 DEF Matter
  <2>9. CASE /\ r.method # "OPTIONS" /\ OriginMatters(r) /\ r.origin \notin {"own", "listed"}
             /\ Respond(q, 403, "json")
    BY <2>3, <2>9 DEF Matter, OriginMatters
  <2>10. CASE from = "thrown" /\ Caught(q, "error")
    BY <2>3, <2>6, <2>10 DEF Matter, Source
  <2>11. CASE from \in {"peer", "forwarded"} /\ Respond(q, 429, "json")
    BY <2>3, <2>11 DEF Matter
  <2>12. CASE /\ OriginMatters(r) => r.origin \in {"own", "listed"}
              /\ from # "thrown"
              /\ gate' = [gate EXCEPT ![q].from = from,
                   ![q].at = IF r.path \in Probes \/ r.token = "none" THEN "routing" ELSE "limiting"]
    <3> DEFINE at == IF r.path \in Probes \/ r.token = "none" THEN "routing" ELSE "limiting"
    <3>1. /\ at \in {"routing", "limiting"} /\ from \in {"none", "peer", "forwarded"}
          /\ at = "limiting" => r.path \notin Probes
      BY <2>5, <2>12
    <3> QED BY <2>4, <2>12, <3>1
  <2> QED BY <2>7, <2>8, <2>9, <2>10, <2>11, <2>12
<1>4. ASSUME NEW q \in GateRequests, LimitWorkspace(q) PROVE GateInv'
  <2>1. gate[q].at = "limiting" /\ UNCHANGED <<gateTime, trusted>> /\ (Respond(q, 429, "json") \/ Advance(q, "routing"))
    BY <1>4 DEF LimitWorkspace
  <2>2. ~gate[q].handled /\ gate[q].answer.status = 0
        /\ (OriginMatters(gate[q].req) => gate[q].req.origin \in {"own", "listed"})
        /\ gate[q].req.path \notin Probes
    BY <1>0, <2>1 DEF GateRules
  <2>3. CASE Respond(q, 429, "json")
    BY <2>1, <2>2, <2>3, GateRespond DEF Matter
  <2>4. CASE Advance(q, "routing")
    <3>1. gate' = [gate EXCEPT ![q] = [gate[q] EXCEPT !.at = "routing", !.from = gate[q].from]]
      BY <1>0, <2>4 DEF Advance, GateInv, GateRecord
    <3>2. gate[q].from \in {"none", "peer", "forwarded"}
      BY <1>0 DEF GateRecord
    <3> QED BY <2>1, <2>2, <3>1, <3>2, GateAdvance
  <2> QED BY <2>1, <2>3, <2>4
<1>5. ASSUME NEW q \in GateRequests, Route(q) PROVE GateInv'
  <2>1. gate[q].at = "routing" /\ UNCHANGED <<gateTime, trusted>>
    BY <1>5 DEF Route
  <2>2. ~gate[q].handled /\ gate[q].answer.status = 0
        /\ (OriginMatters(gate[q].req) => gate[q].req.origin \in {"own", "listed"})
    BY <1>0, <2>1 DEF GateRules
  <2>3. CASE gate[q].req.token = "none" /\ Respond(q, 401, "json")
    BY <2>1, <2>2, <2>3, GateRespond DEF Matter
  <2>4. CASE \E at \in {"probing", "verifying"} :
               /\ Advance(q, at)
               /\ at = "probing" => gate[q].req.method = "GET" /\ gate[q].req.path \in Probes
    <3>1. PICK at \in {"probing", "verifying"} :
            /\ Advance(q, at)
            /\ at = "probing" => gate[q].req.method = "GET" /\ gate[q].req.path \in Probes
      BY <2>4
    <3>2. gate' = [gate EXCEPT ![q] = [gate[q] EXCEPT !.at = at, !.from = gate[q].from]]
      BY <1>0, <3>1 DEF Advance, GateInv, GateRecord
    <3>3. gate[q].from \in {"none", "peer", "forwarded"}
      BY <1>0 DEF GateRecord
    <3> QED BY <2>1, <2>2, <3>1, <3>2, <3>3, GateAdvance
  <2>5. CASE /\ gate[q].req.path = "login"
             /\ gate' = [gate EXCEPT ![q].at = "handling", ![q].handled = TRUE]
    <3> DEFINE g == [gate[q] EXCEPT !.at = "handling", !.handled = TRUE]
    <3>1. gate' = [gate EXCEPT ![q] = g]
      BY <1>0, <2>5 DEF GateInv
    <3>2. g \in GateRecord
      BY <1>0 DEF GateRecord, GateStages
    <3>3. g.at = "handling" /\ g.handled = TRUE /\ g.answer = gate[q].answer /\ g.req = gate[q].req
      BY <1>0 DEF GateRecord
    <3>4. GateRules(g)
      <4> HIDE DEF g
      <4> QED BY <2>2, <2>5, <3>2, <3>3 DEF GateRules
    <3> QED BY <2>1, <3>1, <3>2, <3>4, GateMove, Zenon
  <2> QED BY <1>5, <2>3, <2>4, <2>5 DEF Route
<1>6. ASSUME NEW q \in GateRequests, Authenticate(q) PROVE GateInv'
  <2>1. gate[q].at = "verifying" /\ UNCHANGED <<gateTime, trusted>>
    BY <1>6 DEF Authenticate
  <2>2. ~gate[q].handled /\ gate[q].answer.status = 0
        /\ (OriginMatters(gate[q].req) => gate[q].req.origin \in {"own", "listed"})
    BY <1>0, <2>1 DEF GateRules
  <2>3. CASE /\ ~TokenHolds(q) \/ gate[q].req.cookie = "broken"
             /\ Respond(q, 401, "json")
    <3>1. gate[q].req.expires \in Nat /\ gateTime \in Nat
      BY <1>0 DEF GateRecord, GateRequest, GateInv
    <3>2. Matter(gate[q].req, 401)
      BY <2>3, <3>1 DEF Matter, TokenHolds, GateVerified
    <3> QED BY <2>1, <2>2, <2>3, <3>2, GateRespond
  <2>5. CASE /\ TokenHolds(q) /\ gate[q].req.path # "guarded"
             /\ Respond(q, 404, "text")
    BY <2>1, <2>2, <2>5, GateRespond DEF Matter, TokenHolds, GateVerified
  <2>4. CASE /\ TokenHolds(q) /\ gate[q].req.path = "guarded"
             /\ gate' = [gate EXCEPT ![q].at = "handling", ![q].handled = TRUE, ![q].checked = gateTime]
    <3> DEFINE g == [gate[q] EXCEPT !.at = "handling", !.handled = TRUE, !.checked = gateTime]
    <3>1. gate' = [gate EXCEPT ![q] = g]
      BY <1>0, <2>4 DEF GateInv
    <3>2. g \in GateRecord
      <4>1. gateTime \in Int
        BY DEF GateInv
      <4> QED BY <1>0, <4>1 DEF GateRecord, GateStages
    <3>3. g.at = "handling" /\ g.handled = TRUE /\ g.answer = gate[q].answer /\ g.req = gate[q].req /\ g.checked = gateTime
      BY <1>0 DEF GateRecord
    <3>4. gate[q].req.token = "signed" /\ gateTime \in 0 .. gate[q].req.expires - 1
      BY <1>0, <2>4 DEF TokenHolds, GateVerified, GateInv, GateRecord, GateRequest
    <3>5. GateRules(g)
      <4> HIDE DEF g
      <4> QED BY <2>2, <2>4, <3>2, <3>3, <3>4 DEF GateRules
    <3> QED BY <2>1, <3>1, <3>2, <3>5, GateMove, Zenon
  <2> QED BY <1>6, <2>3, <2>4, <2>5 DEF Authenticate
<1>7. ASSUME NEW q \in GateRequests, Handle(q) PROVE GateInv'
  <2>1. gate[q].at = "handling" /\ UNCHANGED <<gateTime, trusted>>
    BY <1>7 DEF Handle
  <2>2. gate[q].handled
    BY <1>0, <2>1 DEF GateRules
  <2>3. \E status \in Nat, body \in {"text", "json"} : Respond(q, status, body)
    BY <1>7, CaughtAnswers DEF Handle, Answers
  <2> QED BY <2>1, <2>2, <2>3, GateRespond
<1>8. ASSUME NEW q \in GateRequests, AnswerProbe(q) PROVE GateInv'
  <2>1. gate[q].at = "probing" /\ UNCHANGED <<gateTime, trusted>>
    BY <1>8 DEF AnswerProbe
  <2>2. ~gate[q].handled /\ gate[q].req.method = "GET" /\ gate[q].req.path \in Probes
    BY <1>0, <2>1 DEF GateRules
  <2>3. \E status \in {200, 503} : Respond(q, status, "json")
    BY <1>8 DEF AnswerProbe
  <2> QED BY <2>1, <2>2, <2>3, GateRespond DEF Matter
<1>9. CASE GateTick
  <2>1. gate' = gate /\ gateTime' = gateTime + 1 /\ trusted' = trusted
    BY <1>9 DEF GateTick
  <2>2. gateTime' \in Nat
    BY <2>1 DEF GateInv
  <2>3. ASSUME NEW q \in GateRequests PROVE GateRules(gate[q])'
    <3>1. gate[q].req.expires \in Nat /\ gateTime \in Nat
      BY <1>0 DEF GateRecord, GateRequest, GateInv
    <3>2. gate[q].req.expires <= gateTime => gate[q].req.expires <= gateTime + 1
      BY <3>1
    <3> QED BY <1>0, <2>1, <3>2 DEF GateRules, Matter, OriginMatters
  <2> QED BY <2>1, <2>2, <2>3, Zenon DEF GateInv
<1>10. CASE HealthNext \/ ShutdownNext
  BY <1>1, <1>10
  DEF HealthNext, ShutdownNext, BeginProbe, ProbeNext, Flap, RunHandler, Exit, Signal
<1>11. CASE UNCHANGED gateVars
  BY <1>1, <1>11 DEF gateVars
<1> QED
  BY <1>2, <1>3, <1>4, <1>5, <1>6, <1>7, <1>8, <1>9, <1>10, <1>11 DEF GateNext, GateRequestNext

\* For any requests and lifetime of tokens: what reaches a handler behind the token was
\* verified while the token was valid, and a change came from a page of ours.
THEOREM AdmittedByRulesCorrect == GateSpec => []AdmittedByRules
<1>1. GateInv => AdmittedByRules
  BY DEF GateInv, GateRules, AdmittedByRules, OriginMatters, Probes
<1> QED BY <1>1, GateInvInit, GateInvNext, PTL DEF GateSpec

\* For the same constants, and any ranges of proxies: a request that is answered before
\* it has a handler has something the matter, or hit a limit.
THEOREM RefusedForAReasonCorrect == GateSpec => []RefusedForAReason
<1>1. GateInv => RefusedForAReason
  BY DEF GateInv, GateRules, RefusedForAReason
<1> QED BY <1>1, GateInvInit, GateInvNext, PTL DEF GateSpec

\* The requests, the probe and the shutdown share no state.
LEMMA RequestsApart ==
  ASSUME GateRequestNext PROVE UNCHANGED healthVars /\ UNCHANGED shutdownVars
<1>1. ASSUME NEW q \in GateRequests, Screen(q) PROVE UNCHANGED healthVars /\ UNCHANGED shutdownVars
  BY <1>1, Zenon DEF Screen
<1>2. ASSUME NEW q \in GateRequests, Receive(q) \/ LimitWorkspace(q) \/ Route(q) \/ Authenticate(q)
                                     \/ Handle(q) \/ AnswerProbe(q)
      PROVE  UNCHANGED healthVars /\ UNCHANGED shutdownVars
  BY <1>2, Zenon DEF Receive, LimitWorkspace, Route, Authenticate, Handle, AnswerProbe
<1>3. ASSUME GateTick PROVE UNCHANGED healthVars /\ UNCHANGED shutdownVars
  BY <1>3 DEF GateTick
<1> QED BY <1>1, <1>2, <1>3, Zenon DEF GateRequestNext

\* What a probe has seen, if nothing changed under it: of those it has asked, the ones
\* that are down.
ProbeInv ==
  /\ probe.next \in 0 .. Len(Collaborators) + 1 /\ probe.seen \subseteq ToSet(Collaborators)
  /\ probe \in [next : Int, seen : SUBSET ToSet(Collaborators), steady : BOOLEAN]
  /\ collabUp \in [ToSet(Collaborators) -> BOOLEAN]
  /\ probe.steady =>
       \A c \in ToSet(Collaborators) :
         c \in probe.seen <=> ~collabUp[c] /\ \E i \in 1 .. probe.next - 1 : Collaborators[i] = c

\* For any collaborators, changing at any time: a probe nothing changed under says down
\* exactly when something is down.
THEOREM ReportIsTrueCorrect == GateSpec => []ReportIsTrue
<1> DEFINE All == ToSet(Collaborators)
<1>0. /\ Len(Collaborators) \in Nat /\ \A i \in 1 .. Len(Collaborators) : Collaborators[i] \in All
      /\ \A c \in All : \E i \in 1 .. Len(Collaborators) : Collaborators[i] = c
  BY GateAssumption DEF ToSet
<1> HIDE DEF All
<1>1. GateInit => ProbeInv
  BY <1>0 DEF GateInit, ProbeInv, All
<1>2. ASSUME ProbeInv, [GateNext]_gateVars PROVE ProbeInv'
  <2>1. CASE UNCHANGED healthVars
    BY <1>2, <2>1 DEF healthVars, ProbeInv
  <2>2. CASE BeginProbe
    BY <1>0, <1>2, <2>2 DEF BeginProbe, ProbeInv, All
  <2>3. CASE ProbeNext
    <3> DEFINE c == Collaborators[probe.next]
               seen == IF collabUp[c] THEN probe.seen ELSE probe.seen \cup {c}
    <3>1. probe.next \in 1 .. Len(Collaborators) /\ collabUp' = collabUp
          /\ probe' = [probe EXCEPT !.next = @ + 1, !.seen = seen]
      BY <2>3 DEF ProbeNext
    <3>2. c \in All
      BY <1>0, <3>1
    <3>a. probe \in [next : Int, seen : SUBSET All, steady : BOOLEAN] /\ seen \in SUBSET All
      BY <1>2, <3>2 DEF ProbeInv, All
    <3>3. probe'.next = probe.next + 1 /\ probe'.seen = seen /\ probe'.steady = probe.steady
          /\ probe' \in [next : Int, seen : SUBSET All, steady : BOOLEAN]
      <4> HIDE DEF seen
      <4>1. probe'.next = probe.next + 1 /\ probe'.seen = seen /\ probe'.steady = probe.steady
        BY <3>1, <3>a
      <4>2. probe' = [next |-> probe.next + 1, seen |-> seen, steady |-> probe.steady]
        BY <3>1, <3>a
      <4>3. probe.next + 1 \in Int /\ probe.steady \in BOOLEAN
        BY <3>a
      <4> QED BY <3>a, <4>1, <4>2, <4>3
    <3>4. ASSUME probe.steady, NEW d \in All
          PROVE  d \in seen <=> ~collabUp[d] /\ \E i \in 1 .. probe.next : Collaborators[i] = d
      <4>1. d \in probe.seen <=> ~collabUp[d] /\ \E i \in 1 .. probe.next - 1 : Collaborators[i] = d
        BY <1>2, <3>4 DEF ProbeInv, All
      <4>2. (\E i \in 1 .. probe.next : Collaborators[i] = d)
              <=> d = c \/ \E i \in 1 .. probe.next - 1 : Collaborators[i] = d
        BY <3>1, <1>0
      <4>3. d \in seen <=> d \in probe.seen \/ (d = c /\ ~collabUp[c])
        OBVIOUS
      <4> QED BY <4>1, <4>2, <4>3
    <3> HIDE DEF seen, c
    <3>5. probe'.next - 1 = probe.next /\ probe'.next \in 0 .. Len(Collaborators) + 1
      BY <1>0, <3>1, <3>3
    <3>6. collabUp' \in [All -> BOOLEAN] /\ probe'.seen \subseteq All
      BY <1>2, <3>1, <3>3 DEF ProbeInv, All
    <3>7. probe'.steady => \A d \in All :
            d \in probe'.seen <=> ~collabUp'[d] /\ \E i \in 1 .. probe'.next - 1 : Collaborators[i] = d
      BY <3>1, <3>3, <3>4, <3>5
    <3> QED BY <3>3, <3>5, <3>6, <3>7 DEF ProbeInv, All
  <2>4. ASSUME NEW c \in All, Flap(c) PROVE ProbeInv'
    BY <1>2, <2>4 DEF Flap, ProbeInv, All
  <2>5. ASSUME GateRequestNext \/ ShutdownNext \/ UNCHANGED gateVars PROVE UNCHANGED healthVars
    BY <2>5, RequestsApart DEF ShutdownNext, RunHandler, Exit, Signal, gateVars
  <2> QED BY <1>2, <2>1, <2>2, <2>3, <2>4, <2>5 DEF GateNext, HealthNext, All
<1>3. ProbeInv => ReportIsTrue
  <2> SUFFICES ASSUME ProbeInv, probe.next = Len(Collaborators) + 1, probe.steady
               PROVE  Report(probe.seen) = IF \E c \in All : ~collabUp[c] THEN "down" ELSE "ok"
    BY DEF ReportIsTrue, All
  <2>1. \A c \in All : c \in probe.seen <=> ~collabUp[c]
    BY <1>0 DEF ProbeInv, All
  <2>2. probe.seen \subseteq All
    BY DEF ProbeInv, All
  <2> QED BY <2>1, <2>2 DEF Report, All
<1> QED BY <1>1, <1>2, <1>3, PTL DEF GateSpec

\* The handlers run so far are the first ones, in order; a process that is gone ran all
\* of them or got both signals.
CleanupInv ==
  /\ cleanup \in [invoked : BOOLEAN, next : 1 .. CleanupCount + 1, exited : BOOLEAN]
  /\ signals \subseteq {"SIGTERM", "SIGINT"} /\ (cleanup.invoked <=> signals # {})
  /\ ran \in Seq(Int) /\ Len(ran) = cleanup.next - 1 /\ \A i \in 1 .. Len(ran) : ran[i] = i
  /\ cleanup.exited => cleanup.next = CleanupCount + 1 \/ signals = {"SIGTERM", "SIGINT"}

\* For any number of handlers, whichever throw: a process that got one signal runs
\* every handler once and in order before it exits.
THEOREM CleanupIsWholeCorrect == GateSpec => []CleanupIsWhole
<1>0. CleanupCount \in Nat
  BY GateAssumption
<1>1. GateInit => CleanupInv
  BY <1>0 DEF GateInit, CleanupInv
<1>2. ASSUME CleanupInv, [GateNext]_gateVars PROVE CleanupInv'
  <2>1. CASE UNCHANGED shutdownVars
    BY <1>2, <2>1 DEF shutdownVars, CleanupInv
  <2>2. ASSUME NEW s \in {"SIGTERM", "SIGINT"}, Signal(s) PROVE CleanupInv'
    <3>1. CASE cleanup.invoked
      BY <1>2, <2>2, <3>1 DEF Signal, CleanupInv
    <3>2. CASE ~cleanup.invoked
      BY <1>2, <2>2, <3>2 DEF Signal, CleanupInv
    <3> QED BY <3>1, <3>2
  <2>3. CASE RunHandler
    <3>1. /\ cleanup.next <= CleanupCount /\ cleanup.invoked /\ ~cleanup.exited /\ signals' = signals
          /\ cleanup' = [cleanup EXCEPT !.next = cleanup.next + 1] /\ ran' = Append(ran, cleanup.next)
      BY <2>3 DEF RunHandler, NextHandler
    <3>2. cleanup.next \in 1 .. CleanupCount + 1 /\ ran \in Seq(Int) /\ Len(ran) = cleanup.next - 1
          /\ \A i \in 1 .. Len(ran) : ran[i] = i
      BY <1>2 DEF CleanupInv
    <3>3. ran' \in Seq(Int) /\ Len(ran') = cleanup.next /\ \A i \in 1 .. Len(ran') : ran'[i] = i
      BY <3>1, <3>2
    <3>4. PICK n \in Int : n = cleanup.next + 1
      BY <3>2
    <3>a. n \in 1 .. CleanupCount + 1 /\ n - 1 = cleanup.next
      BY <1>0, <3>1, <3>2, <3>4
    <3>5. cleanup' = [invoked |-> TRUE, next |-> n, exited |-> FALSE]
      BY <1>2, <3>1, <3>4 DEF CleanupInv
    <3>6. signals' \subseteq {"SIGTERM", "SIGINT"} /\ signals' # {}
      BY <1>2, <3>1 DEF CleanupInv
    <3>7. cleanup' \in [invoked : BOOLEAN, next : 1 .. CleanupCount + 1, exited : BOOLEAN]
          /\ cleanup'.invoked = TRUE /\ cleanup'.exited = FALSE /\ cleanup'.next - 1 = cleanup.next
      BY <3>5, <3>a
    <3> QED BY <3>3, <3>6, <3>7 DEF CleanupInv
  <2>4. CASE Exit
    <3>0. /\ cleanup' = [cleanup EXCEPT !.exited = TRUE] /\ cleanup.invoked /\ cleanup.next > CleanupCount
          /\ UNCHANGED <<signals, ran>>
      BY <2>4 DEF Exit
    <3>a. cleanup \in [invoked : BOOLEAN, next : 1 .. CleanupCount + 1, exited : BOOLEAN]
      BY <1>2 DEF CleanupInv
    <3>b. cleanup.next = CleanupCount + 1
      BY <1>0, <3>0, <3>a
    <3>1. cleanup' = [invoked |-> TRUE, next |-> CleanupCount + 1, exited |-> TRUE]
          /\ UNCHANGED <<signals, ran>> /\ cleanup.invoked /\ cleanup.next = CleanupCount + 1
      BY <3>0, <3>a, <3>b
    <3>2. CleanupCount + 1 \in 1 .. CleanupCount + 1
      BY <1>0
    <3>3. cleanup' \in [invoked : BOOLEAN, next : 1 .. CleanupCount + 1, exited : BOOLEAN]
      BY <3>1, <3>2
    <3> QED BY <1>2, <3>1, <3>3 DEF CleanupInv
  <2>5. ASSUME GateRequestNext \/ HealthNext \/ UNCHANGED gateVars PROVE UNCHANGED shutdownVars
    BY <2>5, RequestsApart DEF HealthNext, BeginProbe, ProbeNext, Flap, gateVars
  <2> QED BY <1>2, <2>1, <2>2, <2>3, <2>4, <2>5 DEF GateNext, ShutdownNext
<1>3. CleanupInv => CleanupIsWhole
  <2> SUFFICES ASSUME CleanupInv PROVE CleanupIsWhole
    OBVIOUS
  <2>1. Cardinality({"SIGTERM", "SIGINT"}) = 2
    <3>1. Cardinality({"SIGTERM"}) = 1 /\ IsFiniteSet({"SIGTERM"})
      BY FS_Singleton
    <3>2. Cardinality({"SIGTERM"} \cup {"SIGINT"}) = Cardinality({"SIGTERM"}) + 1
      BY <3>1, FS_AddElement
    <3>3. {"SIGTERM"} \cup {"SIGINT"} = {"SIGTERM", "SIGINT"}
      OBVIOUS
    <3> QED BY <3>1, <3>2, <3>3
  <2>2. ASSUME cleanup.next = CleanupCount + 1 PROVE ran = [i \in 1 .. CleanupCount |-> i]
    <3>1. ran \in Seq(Int) /\ Len(ran) = CleanupCount /\ \A i \in 1 .. Len(ran) : ran[i] = i
      BY <1>0, <2>2 DEF CleanupInv
    <3>2. ran = [i \in 1 .. Len(ran) |-> ran[i]]
      BY <3>1
    <3> QED BY <3>1, <3>2
  <2>3. ASSUME cleanup.exited, Cardinality(signals) = 1 PROVE cleanup.next = CleanupCount + 1
    <3>1. signals # {"SIGTERM", "SIGINT"}
      BY <2>1, <2>3
    <3> QED BY <2>3, <3>1 DEF CleanupInv
  <2>4. \A i \in DOMAIN ran : ran[i] = i
    BY DEF CleanupInv
  <2> QED BY <2>2, <2>3, <2>4 DEF CleanupIsWhole
<1> QED BY <1>1, <1>2, <1>3, PTL DEF GateSpec

-----------------------------------------------------------------------------
(* WorkspaceRecords                                                        *)

CallRecord ==
  [at : CallsAt, by : People \cup {CHOOSE u \in People : TRUE}, op : Ops, of : RecordCalls \cup {0},
   asAdmin : BOOLEAN]

\* The requests that have been begun, and what they and the member store look like.
CallsInv ==
  /\ bootRoom \in Rooms \cup {"none"} /\ roleOf \in [People -> {"admin", "member", "none"}]
  /\ calls \in [RecordCalls -> CallRecord]
  /\ \A q \in RecordCalls :
       /\ calls[q].at # "new" => calls[q].by \in People
       /\ calls[q].at = "new" => calls[q].op = "rate"
  /\ \A u \in People : roleOf[u] # "none" => RoomOf[u] = bootRoom

\* A subscription is changed by one who was an admin while the request was checked.
AdminInv ==
  bootRoom # "none" =>
    \A q \in RecordCalls :
      /\ calls[q].at = "checking" /\ roleOf[calls[q].by] = "admin" => calls[q].asAdmin
      /\ calls[q].op \in {"webhook", "unhook"} /\ calls[q].at \in {"passed", "written", "answered"} =>
           calls[q].asAdmin /\ Room(q) = bootRoom

\* The log holds what was written and nothing else.
LogInv ==
  /\ auditLog \in [Rooms -> Seq({"created", "deleted"} \X Nat)]
  /\ \A q \in RecordCalls :
       /\ calls[q].op = "webhook" /\ calls[q].at \in {"written", "answered"} =>
            <<"created", q>> \in ToSet(auditLog[Room(q)])
       /\ calls[q].op = "unhook" /\ calls[q].at \in {"written", "answered"} =>
            <<"deleted", calls[q].of>> \in ToSet(auditLog[Room(q)])
  /\ \A r \in Rooms : \A n \in Nat :
       <<"deleted", n>> \in ToSet(auditLog[r]) =>
         \E p \in RecordCalls : calls[p].at # "new" /\ calls[p].op = "unhook" /\ calls[p].of = n
                                /\ Room(p) = r

\* The ratings are those that were written and not named by a removal.
RatingInv ==
  /\ feedbackRows \in [Rooms -> SUBSET RecordCalls]
  /\ \A r \in Rooms : \A q \in feedbackRows[r] :
       calls[q].at # "new" /\ calls[q].op = "rate" /\ Room(q) = r
  /\ \A q \in RecordCalls :
       calls[q].op = "rate" /\ calls[q].at \in {"written", "answered"}
         /\ (\A p \in RecordCalls : calls[p].op = "unrate" => calls[p].of # q) =>
         q \in feedbackRows[Room(q)]

LEMMA ToSetAppend ==
  ASSUME NEW S, NEW s \in Seq(S), NEW e \in S
  PROVE  Append(s, e) \in Seq(S) /\ ToSet(Append(s, e)) = ToSet(s) \cup {e}
<1>1. Len(Append(s, e)) = Len(s) + 1 /\ Len(s) \in Nat /\ Append(s, e) \in Seq(S)
  OBVIOUS
<1>2. \A i \in 1 .. Len(s) : Append(s, e)[i] = s[i]
  OBVIOUS
<1>3. Append(s, e)[Len(s) + 1] = e
  OBVIOUS
<1> QED BY <1>1, <1>2, <1>3 DEF ToSet

\* A call that has begun is there, and one step changes one of them at most.
Advances(q, at) ==
  /\ calls' = [calls EXCEPT ![q] = [calls[q] EXCEPT !.at = at]] /\ calls[q].at # "new"
  /\ UNCHANGED <<bootRoom, roleOf>>

LEMMA CallsAdvance ==
  ASSUME CallsInv, NEW q \in RecordCalls, NEW at \in CallsAt \ {"new"}, Advances(q, at)
  PROVE  /\ CallsInv'
         /\ \A p \in RecordCalls :
              /\ calls'[p].op = calls[p].op /\ calls'[p].of = calls[p].of /\ calls'[p].by = calls[p].by
              /\ calls'[p].asAdmin = calls[p].asAdmin /\ Room(p)' = Room(p)
              /\ calls'[p].at = IF p = q THEN at ELSE calls[p].at
<1> DEFINE g == [calls[q] EXCEPT !.at = at]
<1>1. calls \in [RecordCalls -> CallRecord] /\ calls' = [calls EXCEPT ![q] = g]
  BY DEF CallsInv, Advances
<1>2. g \in CallRecord /\ g.op = calls[q].op /\ g.of = calls[q].of /\ g.by = calls[q].by
      /\ g.asAdmin = calls[q].asAdmin /\ g.at = at
  BY <1>1 DEF CallRecord
<1> HIDE DEF g
<1>3. \A p \in RecordCalls : calls'[p] = IF p = q THEN g ELSE calls[p]
  BY <1>1
<1>4. calls' \in [RecordCalls -> CallRecord]
  BY <1>1, <1>2
<1>5. \A p \in RecordCalls :
        /\ calls'[p].op = calls[p].op /\ calls'[p].of = calls[p].of /\ calls'[p].by = calls[p].by
        /\ calls'[p].asAdmin = calls[p].asAdmin /\ calls'[p].at = IF p = q THEN at ELSE calls[p].at
  BY <1>2, <1>3
<1>6. UNCHANGED <<bootRoom, roleOf>> /\ calls[q].at # "new"
  BY DEF Advances
<1>7. CallsInv'
  <2>1. \A p \in RecordCalls :
          /\ calls'[p].at # "new" => calls'[p].by \in People
          /\ calls'[p].at = "new" => calls'[p].op = "rate"
    BY <1>5, <1>6 DEF CallsInv
  <2> QED BY <1>4, <1>6, <2>1 DEF CallsInv
<1> QED BY <1>5, <1>7 DEF Room

LEMMA RoomIsRoom == ASSUME CallsInv, NEW q \in RecordCalls, calls[q].at # "new" PROVE Room(q) \in Rooms
  BY DEF CallsInv, Room, Rooms

\* A request that moves on without writing: it has written only if it had before.
LEMMA RecordsWait ==
  ASSUME CallsInv, AdminInv, LogInv, RatingInv, NEW q \in RecordCalls, NEW at \in CallsAt \ {"new", "checking"},
         Advances(q, at), UNCHANGED <<auditLog, feedbackRows>>,
         at \in {"written", "answered"} =>
           calls[q].at \in {"written", "answered"} \/ calls[q].op \in {"strategy", "logout"},
         calls[q].op \in {"webhook", "unhook"} /\ at \in {"passed", "written", "answered"} /\ bootRoom # "none" =>
           calls[q].asAdmin /\ Room(q) = bootRoom
  PROVE  CallsInv' /\ AdminInv' /\ LogInv' /\ RatingInv'
<1>1. /\ CallsInv'
      /\ \A p \in RecordCalls :
           /\ calls'[p].op = calls[p].op /\ calls'[p].of = calls[p].of /\ calls'[p].by = calls[p].by
           /\ calls'[p].asAdmin = calls[p].asAdmin /\ Room(p)' = Room(p)
           /\ calls'[p].at = IF p = q THEN at ELSE calls[p].at
  BY CallsAdvance
<1>2. UNCHANGED <<bootRoom, roleOf>> /\ calls[q].at # "new"
  BY DEF Advances
<1>3. AdminInv'
  BY <1>1, <1>2 DEF AdminInv
<1>4. LogInv'
  <2>1. \A p \in RecordCalls :
          /\ calls'[p].op = "webhook" /\ calls'[p].at \in {"written", "answered"} =>
               <<"created", p>> \in ToSet(auditLog[Room(p)'])
          /\ calls'[p].op = "unhook" /\ calls'[p].at \in {"written", "answered"} =>
               <<"deleted", calls'[p].of>> \in ToSet(auditLog[Room(p)'])
    <3>1. ASSUME NEW p \in RecordCalls, calls'[p].op \in {"webhook", "unhook"},
                 calls'[p].at \in {"written", "answered"}
          PROVE  calls[p].at \in {"written", "answered"}
      <4>1. calls[p].op \notin {"strategy", "logout"}
        BY <1>1, <3>1
      <4> QED BY <1>1, <3>1, <4>1
    <3>2. ASSUME NEW p \in RecordCalls, calls'[p].op = "webhook", calls'[p].at \in {"written", "answered"}
          PROVE  <<"created", p>> \in ToSet(auditLog[Room(p)'])
      <4>1. calls[p].op = "webhook" /\ calls[p].at \in {"written", "answered"} /\ Room(p)' = Room(p)
        BY <1>1, <3>1, <3>2
      <4> QED BY <4>1 DEF LogInv
    <3>3. ASSUME NEW p \in RecordCalls, calls'[p].op = "unhook", calls'[p].at \in {"written", "answered"}
          PROVE  <<"deleted", calls'[p].of>> \in ToSet(auditLog[Room(p)'])
      <4>1. calls[p].op = "unhook" /\ calls[p].at \in {"written", "answered"} /\ Room(p)' = Room(p)
            /\ calls'[p].of = calls[p].of
        BY <1>1, <3>1, <3>3
      <4> QED BY <4>1 DEF LogInv
    <3> QED BY <3>2, <3>3
  <2>2. \A r \in Rooms : \A n \in Nat :
          <<"deleted", n>> \in ToSet(auditLog[r]) =>
            \E p \in RecordCalls : calls'[p].at # "new" /\ calls'[p].op = "unhook" /\ calls'[p].of = n
                                   /\ Room(p)' = r
    BY <1>1, <1>2 DEF LogInv
  <2> QED BY <2>1, <2>2 DEF LogInv
<1>5. RatingInv'
  BY <1>1, <1>2 DEF RatingInv
<1> QED BY <1>1, <1>3, <1>4, <1>5

LEMMA RecordsBegin ==
  ASSUME CallsInv, AdminInv, LogInv, RatingInv, NEW q \in RecordCalls, BeginCall(q)
  PROVE  CallsInv' /\ AdminInv' /\ LogInv' /\ RatingInv'
<1>1. PICK u \in People, op \in Ops, of \in RecordCalls \cup {0} :
        calls' = [calls EXCEPT ![q] = [at |-> "checking", by |-> u, op |-> op, of |-> of,
                                       asAdmin |-> roleOf[u] = "admin"]]
  BY Zenon DEF BeginCall
<1> DEFINE g == [at |-> "checking", by |-> u, op |-> op, of |-> of, asAdmin |-> roleOf[u] = "admin"]
<1>2. calls[q].at = "new" /\ calls[q].op = "rate" /\ UNCHANGED <<bootRoom, roleOf, auditLog, feedbackRows>>
  BY DEF BeginCall, CallsInv
<1>3. g \in CallRecord /\ g.at = "checking" /\ g.by = u /\ (g.asAdmin <=> roleOf[u] = "admin") /\ g.op = op
  BY DEF CallRecord, CallsAt
<1>4. calls' = [calls EXCEPT ![q] = g]
  BY <1>1
<1> HIDE DEF g
<1>5. calls' \in [RecordCalls -> CallRecord] /\ \A p \in RecordCalls : calls'[p] = IF p = q THEN g ELSE calls[p]
  BY <1>3, <1>4 DEF CallsInv
<1>6. \A p \in RecordCalls \ {q} : calls'[p] = calls[p] /\ Room(p)' = Room(p)
  BY <1>5 DEF Room
<1>7. CallsInv'
  BY <1>2, <1>3, <1>5 DEF CallsInv
<1>8. AdminInv'
  BY <1>2, <1>3, <1>5, <1>6 DEF AdminInv
<1>9. LogInv'
  <2>1. ASSUME NEW p \in RecordCalls
        PROVE  /\ calls'[p].op = "webhook" /\ calls'[p].at \in {"written", "answered"} =>
                    <<"created", p>> \in ToSet(auditLog[Room(p)'])
               /\ calls'[p].op = "unhook" /\ calls'[p].at \in {"written", "answered"} =>
                    <<"deleted", calls'[p].of>> \in ToSet(auditLog[Room(p)'])
    <3>1. CASE p = q
      <4>1. calls'[p].at \notin {"written", "answered"}
        BY <1>3, <1>5, <3>1
      <4> QED BY <4>1, Zenon
    <3>2. CASE p # q
      <4>1. calls'[p] = calls[p] /\ Room(p)' = Room(p)
        BY <1>6, <3>2
      <4> QED BY <4>1, Zenon DEF LogInv
    <3> QED BY <3>1, <3>2
  <2>2. ASSUME NEW r \in Rooms, NEW n \in Nat, <<"deleted", n>> \in ToSet(auditLog[r])
        PROVE  \E p \in RecordCalls : calls'[p].at # "new" /\ calls'[p].op = "unhook"
                                      /\ calls'[p].of = n /\ Room(p)' = r
    <3>1. PICK p \in RecordCalls :
            calls[p].at # "new" /\ calls[p].op = "unhook" /\ calls[p].of = n /\ Room(p) = r
      BY <2>2, Zenon DEF LogInv
    <3>2. p # q
      BY <1>2, <3>1
    <3> QED BY <1>6, <3>1, <3>2
  <2> QED BY <1>2, <2>1, <2>2 DEF LogInv
<1>10. RatingInv'
  <2>1. \A r \in Rooms : \A p \in feedbackRows[r] :
          calls'[p].at # "new" /\ calls'[p].op = "rate" /\ Room(p)' = r
    BY <1>2, <1>6 DEF RatingInv
  <2>2. ASSUME NEW p \in RecordCalls, calls'[p].op = "rate", calls'[p].at \in {"written", "answered"},
               \A x \in RecordCalls : calls'[x].op = "unrate" => calls'[x].of # p
        PROVE  p \in feedbackRows[Room(p)']
    <3>1. p # q
      BY <1>3, <1>5, <2>2
    <3>2. \A x \in RecordCalls : calls[x].op = "unrate" => calls[x].of # p
      BY <1>2, <1>6, <2>2
    <3> QED BY <1>6, <2>2, <3>1, <3>2 DEF RatingInv
  <2> QED BY <1>2, <2>1, <2>2 DEF RatingInv
<1> QED BY <1>7, <1>8, <1>9, <1>10

LEMMA RecordsReassign ==
  ASSUME CallsInv, AdminInv, LogInv, RatingInv, NEW u \in People, Reassign(u)
  PROVE  CallsInv' /\ AdminInv' /\ LogInv' /\ RatingInv'
<1> DEFINE g(q) == [calls[q] EXCEPT !.asAdmin = calls[q].asAdmin \/ (calls[q].at = "checking" /\ calls[q].by = u
                                                                     /\ roleOf'[u] = "admin")]
<1>1. PICK role \in {"admin", "member", "none"} : roleOf' = [roleOf EXCEPT ![u] = role]
  BY Zenon DEF Reassign
<1>2. calls' = [q \in RecordCalls |-> g(q)] /\ RoomOf[u] = bootRoom
      /\ UNCHANGED <<bootRoom, auditLog, feedbackRows>>
  BY DEF Reassign
<1>3. ASSUME NEW q \in RecordCalls
      PROVE  /\ g(q) \in CallRecord /\ g(q).at = calls[q].at /\ g(q).by = calls[q].by
             /\ g(q).op = calls[q].op /\ g(q).of = calls[q].of
             /\ (g(q).asAdmin <=> calls[q].asAdmin \/ (calls[q].at = "checking" /\ calls[q].by = u
                                                       /\ roleOf'[u] = "admin"))
  BY DEF CallsInv, CallRecord
<1> HIDE DEF g
<1>4. roleOf' \in [People -> {"admin", "member", "none"}]
      /\ \A v \in People : roleOf'[v] = IF v = u THEN role ELSE roleOf[v]
  BY <1>1 DEF CallsInv
<1>5. /\ calls' \in [RecordCalls -> CallRecord]
      /\ \A q \in RecordCalls :
           /\ calls'[q].at = calls[q].at /\ calls'[q].by = calls[q].by /\ Room(q)' = Room(q)
           /\ calls'[q].op = calls[q].op /\ calls'[q].of = calls[q].of
           /\ (calls'[q].asAdmin <=> calls[q].asAdmin \/ (calls[q].at = "checking" /\ calls[q].by = u
                                                          /\ roleOf'[u] = "admin"))
  BY <1>2, <1>3 DEF Room
<1>6. CallsInv'
  BY <1>2, <1>4, <1>5 DEF CallsInv
<1>7. AdminInv'
  <2> SUFFICES ASSUME bootRoom # "none", NEW q \in RecordCalls
               PROVE  /\ calls'[q].at = "checking" /\ roleOf'[calls'[q].by] = "admin" => calls'[q].asAdmin
                      /\ calls'[q].op \in {"webhook", "unhook"}
                           /\ calls'[q].at \in {"passed", "written", "answered"} =>
                           calls'[q].asAdmin /\ Room(q)' = bootRoom
    BY <1>2 DEF AdminInv
  <2>1. calls[q].at = "checking" => calls[q].by \in People
    BY DEF CallsInv
  <2> QED BY <1>4, <1>5, <2>1 DEF AdminInv
<1>8. LogInv'
  <2>1. ASSUME NEW p \in RecordCalls
        PROVE  /\ calls'[p].op = "webhook" /\ calls'[p].at \in {"written", "answered"} =>
                    <<"created", p>> \in ToSet(auditLog[Room(p)'])
               /\ calls'[p].op = "unhook" /\ calls'[p].at \in {"written", "answered"} =>
                    <<"deleted", calls'[p].of>> \in ToSet(auditLog[Room(p)'])
    <3>1. /\ calls'[p].at = calls[p].at /\ Room(p)' = Room(p)
          /\ calls'[p].op = calls[p].op /\ calls'[p].of = calls[p].of
      BY <1>5, Zenon
    <3>2. /\ calls[p].op = "webhook" /\ calls[p].at \in {"written", "answered"} =>
               <<"created", p>> \in ToSet(auditLog[Room(p)])
          /\ calls[p].op = "unhook" /\ calls[p].at \in {"written", "answered"} =>
               <<"deleted", calls[p].of>> \in ToSet(auditLog[Room(p)])
      BY Zenon DEF LogInv
    <3> QED BY <3>1, <3>2, Zenon
  <2>2. ASSUME NEW r \in Rooms, NEW n \in Nat, <<"deleted", n>> \in ToSet(auditLog[r])
        PROVE  \E p \in RecordCalls : calls'[p].at # "new" /\ calls'[p].op = "unhook"
                                      /\ calls'[p].of = n /\ Room(p)' = r
    <3>1. PICK p \in RecordCalls :
            calls[p].at # "new" /\ calls[p].op = "unhook" /\ calls[p].of = n /\ Room(p) = r
      BY <2>2, Zenon DEF LogInv
    <3> QED BY <1>5, <3>1, Zenon
  <2> QED BY <1>2, <2>1, <2>2 DEF LogInv
<1>9. RatingInv'
  BY <1>2, <1>5 DEF RatingInv
<1> QED BY <1>6, <1>7, <1>8, <1>9

LEMMA MoveAdvances ==
  ASSUME CallsInv, NEW q \in RecordCalls, NEW at, Move(q, at), calls[q].at # "new",
         UNCHANGED <<bootRoom, roleOf>>
  PROVE  Advances(q, at)
  BY DEF CallsInv, Move, Advances

LEMMA RecordsCheck ==
  ASSUME CallsInv, AdminInv, LogInv, RatingInv, NEW q \in RecordCalls, Check(q)
  PROVE  CallsInv' /\ AdminInv' /\ LogInv' /\ RatingInv'
<1> DEFINE ok == LET u == calls[q].by
                     op == calls[q].op
                 IN  CASE op \in {"webhook", "unhook"} -> IsAdmin(u)
                       [] op = "unrate" -> CanRead(u)
                       [] op = "rate" -> TRUE
                       [] OTHER -> bootRoom # "none"
           at == IF ok THEN "passed" ELSE "refused"
<1>1. calls[q].at = "checking" /\ Move(q, at) /\ UNCHANGED <<bootRoom, roleOf, auditLog, feedbackRows>>
  BY DEF Check
<1>2. calls[q].op \in {"webhook", "unhook"} => (ok <=> IsAdmin(calls[q].by))
  <2>1. CASE calls[q].op \in {"webhook", "unhook"}
    <3>1. calls[q].op # "unrate" /\ calls[q].op # "rate"
      BY <2>1
    <3> QED BY <2>1, <3>1
  <2> QED BY <2>1
<1> HIDE DEF ok
<1>3. at \in CallsAt \ {"new", "checking"} /\ at \notin {"written", "answered"} /\ (at = "passed" <=> ok)
  BY DEF CallsAt
<1> HIDE DEF at
<1>4. Advances(q, at)
  BY <1>1, MoveAdvances
<1>5. ASSUME calls[q].op \in {"webhook", "unhook"}, at = "passed", bootRoom # "none"
      PROVE  calls[q].asAdmin /\ Room(q) = bootRoom
  <2>1. IsAdmin(calls[q].by) /\ calls[q].by \in People
    BY <1>1, <1>2, <1>3, <1>5 DEF CallsInv
  <2>2. roleOf[calls[q].by] = "admin"
    BY <1>5, <2>1 DEF IsAdmin
  <2> QED BY <1>1, <1>5, <2>1, <2>2 DEF AdminInv, CallsInv, Room
<1> QED BY <1>1, <1>3, <1>4, <1>5, RecordsWait

LEMMA RecordsRecord ==
  ASSUME CallsInv, AdminInv, LogInv, RatingInv, NEW q \in RecordCalls, Record(q)
  PROVE  CallsInv' /\ AdminInv' /\ LogInv' /\ RatingInv'
<1>1. /\ calls[q].at = "passed" /\ calls[q].op \in {"webhook", "unhook"} /\ Move(q, "written")
      /\ auditLog' = [auditLog EXCEPT ![Room(q)] = Append(auditLog[Room(q)], Entry(q))]
      /\ UNCHANGED <<bootRoom, roleOf, feedbackRows>>
  BY DEF Record, Does
<1>2. Advances(q, "written")
  BY <1>1, MoveAdvances
<1>3. "written" \in CallsAt \ {"new"}
  BY DEF CallsAt
<1>4. /\ CallsInv'
      /\ \A p \in RecordCalls :
           /\ calls'[p].op = calls[p].op /\ calls'[p].of = calls[p].of /\ calls'[p].by = calls[p].by
           /\ calls'[p].asAdmin = calls[p].asAdmin /\ Room(p)' = Room(p)
           /\ calls'[p].at = IF p = q THEN "written" ELSE calls[p].at
  BY <1>2, <1>3, CallsAdvance
<1>5. AdminInv'
  BY <1>1, <1>4 DEF AdminInv
<1>6. RatingInv'
  BY <1>1, <1>4 DEF RatingInv
<1>7. LogInv'
  <2> DEFINE S == {"created", "deleted"} \X Nat
  <2>1. Room(q) \in Rooms
    BY <1>1, RoomIsRoom
  <2>2. Entry(q) \in S
    <3>1. q \in Nat /\ calls[q].of \in Nat
      <4>1. calls[q].of \in RecordCalls \cup {0}
        BY DEF CallsInv, CallRecord
      <4>2. \A n \in RecordCalls : n \in Nat
        BY RecordsAssumption
      <4>3. CASE calls[q].of = 0
        BY <4>2, <4>3
      <4> QED BY <4>1, <4>2, <4>3
    <3> QED BY <3>1 DEF Entry
  <2> HIDE DEF S
  <2>3. auditLog \in [Rooms -> Seq(S)]
    BY DEF LogInv, S
  <2>4. auditLog[Room(q)] \in Seq(S)
    BY <2>1, <2>3
  <2>5. Append(auditLog[Room(q)], Entry(q)) \in Seq(S)
        /\ ToSet(Append(auditLog[Room(q)], Entry(q))) = ToSet(auditLog[Room(q)]) \cup {Entry(q)}
    BY <2>2, <2>4, ToSetAppend
  <2>6. auditLog' \in [Rooms -> Seq(S)]
    BY <1>1, <2>3, <2>5
  <2>7. \A r \in Rooms :
          ToSet(auditLog'[r]) = IF r = Room(q) THEN ToSet(auditLog[r]) \cup {Entry(q)} ELSE ToSet(auditLog[r])
    BY <1>1, <2>1, <2>3, <2>5
  <2>8. ASSUME NEW p \in RecordCalls, calls'[p].at \in {"written", "answered"},
               calls'[p].op \in {"webhook", "unhook"}
        PROVE  Entry(p) \in ToSet(auditLog'[Room(p)'])
    <3>1. CASE p = q
      BY <1>4, <2>1, <2>7, <3>1
    <3>2. CASE p # q
      <4>1. calls[p].at \in {"written", "answered"} /\ calls[p].op \in {"webhook", "unhook"}
        BY <1>4, <2>8, <3>2
      <4>2. Entry(p) \in ToSet(auditLog[Room(p)])
        BY <4>1 DEF LogInv, Entry
      <4>3. Room(p) \in Rooms
        BY <4>1, RoomIsRoom
      <4> QED BY <1>4, <2>7, <4>2, <4>3
    <3> QED BY <3>1, <3>2
  <2>9. \A p \in RecordCalls :
          /\ calls'[p].op = "webhook" /\ calls'[p].at \in {"written", "answered"} =>
               <<"created", p>> \in ToSet(auditLog'[Room(p)'])
          /\ calls'[p].op = "unhook" /\ calls'[p].at \in {"written", "answered"} =>
               <<"deleted", calls'[p].of>> \in ToSet(auditLog'[Room(p)'])
    BY <1>4, <2>8 DEF Entry
  <2>10. ASSUME NEW r \in Rooms, NEW n \in Nat, <<"deleted", n>> \in ToSet(auditLog'[r])
         PROVE  \E p \in RecordCalls : calls'[p].at # "new" /\ calls'[p].op = "unhook"
                                       /\ calls'[p].of = n /\ Room(p)' = r
    <3>1. CASE <<"deleted", n>> \in ToSet(auditLog[r])
      <4>1. PICK p \in RecordCalls : calls[p].at # "new" /\ calls[p].op = "unhook" /\ calls[p].of = n
                                     /\ Room(p) = r
        BY <3>1 DEF LogInv
      <4> QED BY <1>4, <4>1
    <3>2. CASE <<"deleted", n>> \notin ToSet(auditLog[r])
      <4>1. r = Room(q) /\ Entry(q) = <<"deleted", n>>
        BY <2>7, <2>10, <3>2
      <4>2. calls[q].op = "unhook" /\ calls[q].of = n
        BY <1>1, <4>1 DEF Entry
      <4> QED BY <1>4, <4>1, <4>2
    <3> QED BY <3>1, <3>2
  <2> QED BY <2>6, <2>9, <2>10 DEF LogInv, S
<1> QED BY <1>4, <1>5, <1>6, <1>7

LEMMA RecordsRate ==
  ASSUME CallsInv, AdminInv, LogInv, RatingInv, NEW q \in RecordCalls, Rate(q)
  PROVE  CallsInv' /\ AdminInv' /\ LogInv' /\ RatingInv'
<1>1. /\ calls[q].at = "passed" /\ calls[q].op \in {"rate", "unrate"} /\ Move(q, "written")
      /\ feedbackRows' = [feedbackRows EXCEPT ![Room(q)] =
                            IF calls[q].op = "rate" THEN feedbackRows[Room(q)] \cup {q}
                            ELSE feedbackRows[Room(q)] \ {calls[q].of}]
      /\ UNCHANGED <<bootRoom, roleOf, auditLog>>
  BY DEF Rate, Does
<1>2. Advances(q, "written")
  BY <1>1, MoveAdvances
<1>3. "written" \in CallsAt \ {"new"}
  BY DEF CallsAt
<1>4. /\ CallsInv'
      /\ \A p \in RecordCalls :
           /\ calls'[p].op = calls[p].op /\ calls'[p].of = calls[p].of /\ calls'[p].by = calls[p].by
           /\ calls'[p].asAdmin = calls[p].asAdmin /\ Room(p)' = Room(p)
           /\ calls'[p].at = IF p = q THEN "written" ELSE calls[p].at
  BY <1>2, <1>3, CallsAdvance
<1>5. AdminInv'
  BY <1>1, <1>4 DEF AdminInv
<1>6. LogInv'
  <2>1. \A p \in RecordCalls :
          /\ calls'[p].op = "webhook" /\ calls'[p].at \in {"written", "answered"} =>
               <<"created", p>> \in ToSet(auditLog[Room(p)'])
          /\ calls'[p].op = "unhook" /\ calls'[p].at \in {"written", "answered"} =>
               <<"deleted", calls'[p].of>> \in ToSet(auditLog[Room(p)'])
    BY <1>1, <1>4 DEF LogInv
  <2>2. ASSUME NEW r \in Rooms, NEW n \in Nat, <<"deleted", n>> \in ToSet(auditLog[r])
        PROVE  \E p \in RecordCalls : calls'[p].at # "new" /\ calls'[p].op = "unhook" /\ calls'[p].of = n
                                      /\ Room(p)' = r
    <3>1. PICK p \in RecordCalls : calls[p].at # "new" /\ calls[p].op = "unhook" /\ calls[p].of = n
                                   /\ Room(p) = r
      BY <2>2 DEF LogInv
    <3> QED BY <1>4, <3>1
  <2> QED BY <1>1, <2>1, <2>2 DEF LogInv
<1>7. RatingInv'
  <2>1. Room(q) \in Rooms /\ calls[q].of \in RecordCalls \cup {0}
    BY <1>1, RoomIsRoom DEF CallsInv, CallRecord
  <2> DEFINE rated == IF calls[q].op = "rate" THEN feedbackRows[Room(q)] \cup {q}
                      ELSE feedbackRows[Room(q)] \ {calls[q].of}
  <2>2. feedbackRows' = [feedbackRows EXCEPT ![Room(q)] = rated] /\ feedbackRows \in [Rooms -> SUBSET RecordCalls]
    BY <1>1 DEF RatingInv
  <2>3. rated \in SUBSET RecordCalls
    BY <2>1, <2>2
  <2>4. \A p : p \in rated <=> \/ calls[q].op = "rate" /\ (p = q \/ p \in feedbackRows[Room(q)])
                               \/ calls[q].op # "rate" /\ p \in feedbackRows[Room(q)] /\ p # calls[q].of
    <3>1. CASE calls[q].op = "rate"
      BY <3>1
    <3>2. CASE calls[q].op # "rate"
      <4>1. rated = feedbackRows[Room(q)] \ {calls[q].of}
        BY <3>2, Zenon
      <4> HIDE DEF rated
      <4> QED BY <3>2, <4>1
    <3> QED BY <3>1, <3>2
  <2> HIDE DEF rated
  <2>5. feedbackRows' \in [Rooms -> SUBSET RecordCalls]
        /\ \A r \in Rooms : feedbackRows'[r] = IF r = Room(q) THEN rated ELSE feedbackRows[r]
    BY <2>1, <2>2, <2>3
  <2>6. ASSUME NEW r \in Rooms, NEW p \in feedbackRows'[r]
        PROVE  calls'[p].at # "new" /\ calls'[p].op = "rate" /\ Room(p)' = r
    <3>1. CASE p \in feedbackRows[r]
      <4>1. p \in RecordCalls
        BY <2>2, <3>1
      <4> QED BY <1>4, <3>1, <4>1 DEF RatingInv
    <3>2. CASE p \notin feedbackRows[r]
      <4>1. r = Room(q) /\ p = q /\ calls[q].op = "rate"
        BY <2>4, <2>5, <2>6, <3>2
      <4> QED BY <1>4, <4>1
    <3> QED BY <3>1, <3>2
  <2>7. ASSUME NEW p \in RecordCalls, calls'[p].op = "rate", calls'[p].at \in {"written", "answered"},
               \A x \in RecordCalls : calls'[x].op = "unrate" => calls'[x].of # p
        PROVE  p \in feedbackRows'[Room(p)']
    <3>1. CASE p = q
      <4>1. calls[q].op = "rate" /\ Room(p)' = Room(q)
        BY <1>4, <2>7, <3>1
      <4>2. q \in rated
        BY <2>4, <4>1
      <4> QED BY <2>1, <2>5, <3>1, <4>1, <4>2
    <3>2. CASE p # q
      <4>1. /\ calls[p].op = "rate" /\ calls[p].at \in {"written", "answered"}
            /\ \A x \in RecordCalls : calls[x].op = "unrate" => calls[x].of # p
        BY <1>4, <2>7, <3>2
      <4>2. p \in feedbackRows[Room(p)]
        BY <4>1 DEF RatingInv
      <4>3. Room(p) \in Rooms
        BY <4>1, RoomIsRoom
      <4>4. calls[q].op # "rate" => calls[q].of # p
        BY <1>1, <4>1
      <4>5. CASE Room(p) = Room(q)
        <5>1. p \in rated
          BY <2>4, <4>2, <4>4, <4>5
        <5> QED BY <1>4, <2>1, <2>5, <4>5, <5>1
      <4>6. CASE Room(p) # Room(q)
        BY <1>4, <2>5, <4>2, <4>3, <4>6
      <4> QED BY <4>5, <4>6
    <3> QED BY <3>1, <3>2
  <2> QED BY <2>5, <2>6, <2>7 DEF RatingInv
<1> QED BY <1>4, <1>5, <1>6, <1>7

\* The four parts hold together.
SmallTablesInv == CallsInv /\ AdminInv /\ LogInv /\ RatingInv

LEMMA SmallTablesInit == RecordsInit => SmallTablesInv
<1> SUFFICES ASSUME RecordsInit PROVE SmallTablesInv
  OBVIOUS
<1>1. /\ bootRoom \in Rooms \cup {"none"} /\ roleOf \in [People -> {"admin", "member", "none"}]
      /\ \A u \in People : roleOf[u] = "none" <=> RoomOf[u] # bootRoom
      /\ calls = [q \in RecordCalls |-> NoCall]
      /\ auditLog = [r \in Rooms |-> <<>>] /\ feedbackRows = [r \in Rooms |-> {}]
  BY Zenon DEF RecordsInit
<1>2. NoCall \in CallRecord /\ NoCall.at = "new" /\ NoCall.op = "rate"
  BY DEF NoCall, CallRecord, CallsAt, Ops
<1>3. \A q \in RecordCalls : calls[q].at = "new" /\ calls[q].op = "rate"
  BY <1>1, <1>2
<1>4. calls \in [RecordCalls -> CallRecord]
  BY <1>1, <1>2
<1>5. CallsInv
  BY <1>1, <1>3, <1>4 DEF CallsInv
<1>6. AdminInv
  BY <1>3 DEF AdminInv
<1>7. LogInv
  <2>1. ToSet(<<>>) = {} /\ <<>> \in Seq({"created", "deleted"} \X Nat)
    BY DEF ToSet
  <2>2. \A r \in Rooms : auditLog[r] = <<>>
    BY <1>1
  <2>3. auditLog \in [Rooms -> Seq({"created", "deleted"} \X Nat)]
    BY <1>1, <2>1
  <2>4. \A r \in Rooms : ToSet(auditLog[r]) = {}
    BY <2>1, <2>2
  <2> QED BY <1>3, <2>3, <2>4 DEF LogInv
<1>8. RatingInv
  BY <1>1, <1>3 DEF RatingInv
<1> QED BY <1>5, <1>6, <1>7, <1>8 DEF SmallTablesInv

LEMMA SmallTablesNext == SmallTablesInv /\ [RecordsNext]_recordVars => SmallTablesInv'
<1> SUFFICES ASSUME CallsInv, AdminInv, LogInv, RatingInv, [RecordsNext]_recordVars
             PROVE  CallsInv' /\ AdminInv' /\ LogInv' /\ RatingInv'
  BY DEF SmallTablesInv
<1>1. ASSUME UNCHANGED <<bootRoom, roleOf, calls, auditLog, feedbackRows>>
      PROVE  CallsInv' /\ AdminInv' /\ LogInv' /\ RatingInv'
  <2>1. CallsInv' /\ AdminInv'
    BY <1>1 DEF CallsInv, AdminInv, Room
  <2>2. LogInv'
    BY <1>1 DEF LogInv, Room
  <2>3. RatingInv'
    BY <1>1 DEF RatingInv, Room
  <2> QED BY <2>1, <2>2, <2>3
<1>2. ASSUME NEW q \in RecordCalls, ReadSession(q) \/ UpsertSession(q) \/ Logout(q)
      PROVE  CallsInv' /\ AdminInv' /\ LogInv' /\ RatingInv'
  <2>1. PICK at \in {"read", "written"} : Move(q, at)
    BY <1>2 DEF ReadSession, UpsertSession, Logout
  <2>2. /\ calls[q].op \in {"strategy", "logout"} /\ calls[q].at # "new"
        /\ UNCHANGED <<bootRoom, roleOf, auditLog, feedbackRows>>
    BY <1>2 DEF ReadSession, UpsertSession, Logout, Does
  <2>3. Advances(q, at)
    BY <2>1, <2>2, MoveAdvances
  <2>4. at \in CallsAt \ {"new", "checking"} /\ calls[q].op \notin {"webhook", "unhook"}
    BY <2>2 DEF CallsAt
  <2> QED BY <2>2, <2>3, <2>4, RecordsWait
<1>3. ASSUME NEW q \in RecordCalls, Answer(q) PROVE CallsInv' /\ AdminInv' /\ LogInv' /\ RatingInv'
  <2>1. CASE calls[q].at = "written" /\ calls' = [calls EXCEPT ![q].at = "answered"]
    <3>1. Move(q, "answered") /\ UNCHANGED <<bootRoom, roleOf, auditLog, feedbackRows>>
      BY <1>3, <2>1 DEF Answer, Move
    <3>2. Advances(q, "answered") /\ "answered" \in CallsAt \ {"new", "checking"}
      BY <2>1, <3>1, MoveAdvances DEF CallsAt
    <3>3. ASSUME calls[q].op \in {"webhook", "unhook"}, bootRoom # "none"
          PROVE  calls[q].asAdmin /\ Room(q) = bootRoom
      BY <2>1, <3>3 DEF AdminInv
    <3> QED BY <2>1, <3>1, <3>2, <3>3, RecordsWait
  <2>2. CASE /\ calls[q].at \in {"passed", "read", "written"}
             /\ calls' = [calls EXCEPT ![q].at = "failed"]
    <3>1. Move(q, "failed") /\ UNCHANGED <<bootRoom, roleOf, auditLog, feedbackRows>>
      BY <1>3, <2>2 DEF Answer, Move
    <3>2. Advances(q, "failed") /\ "failed" \in CallsAt \ {"new", "checking"}
      BY <2>2, <3>1, MoveAdvances DEF CallsAt
    <3>3. "failed" \notin {"passed", "written", "answered"}
      OBVIOUS
    <3> QED BY <3>1, <3>2, <3>3, RecordsWait
  <2> QED BY <1>3, <2>1, <2>2 DEF Answer
<1>4. ASSUME FactNext \/ TurnNext \/ UNCHANGED recordVars
      PROVE  UNCHANGED <<bootRoom, roleOf, calls, auditLog, feedbackRows>>
  BY <1>4 DEF FactNext, TurnNext, Forget, Remember, AppendTurn, ClearTurns, recordVars
<1> QED
  BY <1>1, <1>2, <1>3, <1>4, RecordsBegin, RecordsCheck, RecordsRecord, RecordsRate, RecordsReassign
  DEF RecordsNext, RouteNext

\* For any people, workspaces and requests: nobody who was no admin while his request
\* was being checked changes the subscriptions, unless no member store is bound, and one
\* who is no member of the bound workspace never does.
THEOREM OnlyAdminsSubscribeCorrect == RecordsSpec => []OnlyAdminsSubscribe
<1>1. SmallTablesInv => OnlyAdminsSubscribe
  BY DEF SmallTablesInv, AdminInv, OnlyAdminsSubscribe
<1> QED BY <1>1, SmallTablesInit, SmallTablesNext, PTL DEF RecordsSpec

\* For the same constants, the log of a workspace tells which subscriptions stand.
THEOREM LogTellsSubscriptionsCorrect == RecordsSpec => []LogTellsSubscriptions
<1>1. ASSUME SmallTablesInv PROVE LogTellsSubscriptions
  <2> DEFINE Removals(q) == {p \in RecordCalls : calls[p].op = "unhook" /\ calls[p].of = q
                                                 /\ calls[p].at # "new" /\ Room(p) = Room(q)}
  <2> SUFFICES ASSUME NEW q \in RecordCalls, calls[q].op = "webhook"
               PROVE  /\ calls[q].at = "answered" => <<"created", q>> \in ToSet(auditLog[Room(q)])
                      /\ Removals(q) = {} => <<"deleted", q>> \notin ToSet(auditLog[Room(q)])
                      /\ (\E p \in Removals(q) : calls[p].at = "answered") =>
                           <<"deleted", q>> \in ToSet(auditLog[Room(q)])
    BY DEF LogTellsSubscriptions
  <2>1. calls[q].at # "new" /\ Room(q) \in Rooms /\ q \in Nat
    <3>1. calls[q].at # "new"
      BY <1>1 DEF SmallTablesInv, CallsInv
    <3>2. \A n \in RecordCalls : n \in Nat
      BY RecordsAssumption
    <3> QED BY <1>1, <3>1, <3>2, RoomIsRoom DEF SmallTablesInv
  <2>2. calls[q].at = "answered" => <<"created", q>> \in ToSet(auditLog[Room(q)])
    BY <1>1 DEF SmallTablesInv, LogInv
  <2>3. ASSUME <<"deleted", q>> \in ToSet(auditLog[Room(q)]) PROVE Removals(q) # {}
    <3>1. \E p \in RecordCalls : calls[p].at # "new" /\ calls[p].op = "unhook" /\ calls[p].of = q
                                 /\ Room(p) = Room(q)
      BY <1>1, <2>1, <2>3 DEF SmallTablesInv, LogInv
    <3> QED BY <3>1
  <2>4. ASSUME NEW p \in Removals(q), calls[p].at = "answered"
        PROVE  <<"deleted", q>> \in ToSet(auditLog[Room(q)])
    <3>1. p \in RecordCalls /\ calls[p].op = "unhook" /\ calls[p].of = q /\ Room(p) = Room(q)
      OBVIOUS
    <3>2. <<"deleted", calls[p].of>> \in ToSet(auditLog[Room(p)])
      BY <1>1, <2>4, <3>1 DEF SmallTablesInv, LogInv
    <3> QED BY <3>1, <3>2
  <2> QED BY <2>2, <2>3, <2>4
<1> QED BY <1>1, SmallTablesInit, SmallTablesNext, PTL DEF RecordsSpec

\* For the same constants, a rating that was answered and that no request has named since
\* is found by whoever may read the workspace and by nobody of another.
THEOREM RatingsAreFoundCorrect == RecordsSpec => []RatingsAreFound
<1>1. ASSUME SmallTablesInv PROVE RatingsAreFound
  <2>1. ASSUME NEW u \in People, NEW q
        PROVE  GetFeedback(u, q) = "found" <=> CanRead(u) /\ q \in feedbackRows[RoomOf[u]]
    <3>1. CASE CanRead(u)
      BY <3>1 DEF GetFeedback
    <3>2. CASE ~CanRead(u)
      BY <3>2 DEF GetFeedback
    <3> QED BY <3>1, <3>2
  <2>2. ASSUME NEW u \in People PROVE RoomOf[u] \in Rooms
    BY DEF Rooms
  <2>3. RatingInv
    BY <1>1 DEF SmallTablesInv
  <2> QED BY <2>1, <2>2, <2>3 DEF RatingsAreFound, RatingInv
<1> QED BY <1>1, SmallTablesInit, SmallTablesNext, PTL DEF RecordsSpec

-----------------------------------------------------------------------------
(* CommandLine                                                             *)

ManifestOf(n) == <<SlugOf[n], "manifest">>
ConfigOf(n) == <<SlugOf[n], "config">>
IsTenantCommand(c) == c.op \in {"create", "delete"}

\* What a command has still to write.
CommandShape(c) ==
  /\ c \in [at : {c.at}, op : {c.op}, on : {c.on}, due : {c.due}, exit : {c.exit}]
  /\ c.at \in {"opening", "writing"} <=> c.due # <<>>
  /\ c.op = "init" =>
       /\ c.on \in SpaceNames
       /\ c.due \in {<<>>, <<<<ManifestOf(c.on), <<c.on>>>>>>, <<<<ConfigOf(c.on), <<c.on>>>>>>,
                     <<<<ManifestOf(c.on), <<c.on>>>>, <<ConfigOf(c.on), <<c.on>>>>>>}
  /\ IsTenantCommand(c) => c.due = <<>> \/ \E ids : c.due = <<<<RegistryFile, ids>>>>
  /\ c.op = "backup" => c.due = <<>> \/ (c.on \in Tenants /\ c.due = <<<<Archive(c.on), <<>>>>>>)
  /\ c.op \notin {"init", "create", "delete", "backup"} => c.due = <<>>
  /\ c.at = "reading" => c.op \in {"list", "create", "delete"}
  /\ c.at = "posting" => c.op \notin {"init", "create", "delete", "backup"}

TextShape(x) == x \in [text : {"absent", "torn", "whole"}, holds : {x.holds}]

ShellInv ==
  /\ shell = [s \in Shells |-> shell[s]] /\ files = [f \in CliFiles |-> files[f]]
  /\ \A s \in Shells : CommandShape(shell[s])
  /\ \A f \in CliFiles : TextShape(files[f])

\* The files of a command that is not done are files of the program, told apart by
\* what they are.
LEMMA FilesApart ==
  /\ RegistryFile \in CliFiles /\ \A id \in Tenants : Archive(id) \in CliFiles
  /\ \A n \in SpaceNames : ManifestOf(n) \in CliFiles /\ ConfigOf(n) \in CliFiles
  /\ \A n, m \in SpaceNames : /\ ManifestOf(n) # ConfigOf(m)
                              /\ ManifestOf(n) = ManifestOf(m) => SlugOf[n] = SlugOf[m]
                              /\ ConfigOf(n) = ConfigOf(m) => SlugOf[n] = SlugOf[m]
  /\ \A n \in SpaceNames : ManifestOf(n) # RegistryFile /\ ConfigOf(n) # RegistryFile
  /\ \A id \in Tenants :
       /\ Archive(id) # RegistryFile
       /\ \A n \in SpaceNames : Archive(id) # ManifestOf(n) /\ Archive(id) # ConfigOf(n)
<1>1. RegistryFile \in CliFiles /\ \A id \in Tenants : Archive(id) \in CliFiles
  <2>1. RegistryFile \in CliFiles
    BY Zenon DEF CliFiles
  <2>2. ASSUME NEW id \in Tenants PROVE Archive(id) \in CliFiles
    <3>1. Archive(id) \in {Archive(i) : i \in Tenants}
      OBVIOUS
    <3> HIDE DEF Archive
    <3> QED BY <3>1, SMT DEF CliFiles
  <2> QED BY <2>1, <2>2
<1>2. ASSUME NEW n \in SpaceNames PROVE ManifestOf(n) \in CliFiles /\ ConfigOf(n) \in CliFiles
  <2>1. ManifestOf(n) \in FilesOf(SlugOf[n]) /\ ConfigOf(n) \in FilesOf(SlugOf[n])
    BY DEF FilesOf, ManifestOf, ConfigOf
  <2>2. FilesOf(SlugOf[n]) \subseteq CliFiles
    BY Zenon DEF CliFiles
  <2> QED BY <2>1, <2>2
<1>3. "manifest" # "config" /\ "manifest" # "registry" /\ "config" # "registry" /\ "archive" # "registry"
      /\ "archive" # "manifest" /\ "archive" # "config"
  OBVIOUS
<1> QED BY <1>1, <1>2, <1>3 DEF ManifestOf, ConfigOf, RegistryFile, Archive

LEMMA CommandChanged ==
  ASSUME NEW c, c \in [at : {c.at}, op : {c.op}, on : {c.on}, due : {c.due}, exit : {c.exit}],
         NEW at, NEW due
  PROVE  /\ [c EXCEPT !.at = at, !.due = due]
              \in [at : {at}, op : {c.op}, on : {c.on}, due : {due}, exit : {c.exit}]
         /\ [c EXCEPT !.at = at]
              \in [at : {at}, op : {c.op}, on : {c.on}, due : {c.due}, exit : {c.exit}]
         /\ \A exit : [c EXCEPT !.at = at, !.due = due, !.exit = exit]
              \in [at : {at}, op : {c.op}, on : {c.on}, due : {due}, exit : {exit}]
  OBVIOUS

LEMMA OneDue == ASSUME NEW a PROVE Head(<<a>>) = a /\ Tail(<<a>>) = <<>> /\ <<a>> # <<>>
  OBVIOUS

LEMMA TwoDue == ASSUME NEW a, NEW b PROVE Head(<<a, b>>) = a /\ Tail(<<a, b>>) = <<b>> /\ <<a, b>> # <<>>
  OBVIOUS

\* The first write of a command, and what is left after it.
LEMMA FirstDue ==
  ASSUME NEW c, CommandShape(c), c.due # <<>>
  PROVE  /\ Head(c.due)[1] \in CliFiles
         /\ IsTenantCommand(c) => Head(c.due)[1] = RegistryFile /\ Tail(c.due) = <<>>
         /\ Head(c.due)[1] = RegistryFile => IsTenantCommand(c)
         /\ \A n \in SpaceNames :
              /\ Head(c.due)[1] = ManifestOf(n) =>
                   c.op = "init" /\ SlugOf[c.on] = SlugOf[n] /\ Head(c.due)[2] = <<c.on>>
              /\ Head(c.due)[1] = ConfigOf(n) =>
                   c.op = "init" /\ SlugOf[c.on] = SlugOf[n] /\ Head(c.due)[2] = <<c.on>>
         /\ CommandShape([c EXCEPT !.at = "opening", !.due = Tail(c.due)]) \/ Tail(c.due) = <<>>
         /\ c.op = "init" =>
              \/ Head(c.due)[1] = ManifestOf(c.on)
              \/ c.due = <<<<ConfigOf(c.on), <<c.on>>>>>>
<1>1. c.op \in {"init", "create", "delete", "backup"}
  BY DEF CommandShape
<1>2. CASE c.op \in {"create", "delete"}
  <2>1. PICK ids : c.due = <<<<RegistryFile, ids>>>>
    BY <1>2 DEF CommandShape, IsTenantCommand
  <2>2. Head(c.due) = <<RegistryFile, ids>> /\ Tail(c.due) = <<>>
    BY <2>1, OneDue
  <2> QED BY <1>2, <2>2, FilesApart DEF IsTenantCommand
<1>3. CASE c.op = "backup"
  <2>1. c.on \in Tenants /\ c.due = <<<<Archive(c.on), <<>>>>>>
    BY <1>3 DEF CommandShape
  <2>2. Head(c.due) = <<Archive(c.on), <<>>>> /\ Tail(c.due) = <<>>
    BY <2>1, OneDue
  <2>3. Head(c.due)[1] = Archive(c.on)
    BY <2>2
  <2>4. Archive(c.on) \in CliFiles /\ Archive(c.on) # RegistryFile
        /\ \A n \in SpaceNames : Archive(c.on) # ManifestOf(n) /\ Archive(c.on) # ConfigOf(n)
    BY <2>1, FilesApart
  <2>5. ~IsTenantCommand(c) /\ c.op # "init"
    BY <1>3 DEF IsTenantCommand
  <2>6. Tail(c.due) = <<>>
    BY <2>2
  <2>7. Head(c.due)[1] \in CliFiles /\ Head(c.due)[1] # RegistryFile
        /\ \A n \in SpaceNames : Head(c.due)[1] # ManifestOf(n) /\ Head(c.due)[1] # ConfigOf(n)
    BY <2>3, <2>4
  <2>8. \A n \in SpaceNames :
          /\ Head(c.due)[1] = ManifestOf(n) =>
               c.op = "init" /\ SlugOf[c.on] = SlugOf[n] /\ Head(c.due)[2] = <<c.on>>
          /\ Head(c.due)[1] = ConfigOf(n) =>
               c.op = "init" /\ SlugOf[c.on] = SlugOf[n] /\ Head(c.due)[2] = <<c.on>>
    BY <2>7
  <2> QED BY <2>5, <2>6, <2>7, <2>8, Zenon
<1>4. CASE c.op = "init"
  <2>1. c.on \in SpaceNames
    BY <1>4 DEF CommandShape
  <2> DEFINE M == <<ManifestOf(c.on), <<c.on>>>>
             C == <<ConfigOf(c.on), <<c.on>>>>
  <2>2. c.due \in {<<M>>, <<C>>, <<M, C>>}
    BY <1>4 DEF CommandShape
  <2>3. CASE c.due = <<M>>
    <3>1. Head(c.due) = M /\ Tail(c.due) = <<>>
      BY <2>3, OneDue
    <3> QED BY <1>4, <2>1, <3>1, FilesApart DEF IsTenantCommand
  <2>4. CASE c.due = <<C>>
    <3>1. Head(c.due) = C /\ Tail(c.due) = <<>>
      BY <2>4, OneDue
    <3> QED BY <1>4, <2>1, <2>4, <3>1, FilesApart DEF IsTenantCommand
  <2>5. CASE c.due = <<M, C>>
    <3>1. Head(c.due) = M /\ Tail(c.due) = <<C>>
      BY <2>5, TwoDue
    <3> DEFINE d == [c EXCEPT !.at = "opening", !.due = <<C>>]
    <3>2. c \in [at : {c.at}, op : {c.op}, on : {c.on}, due : {c.due}, exit : {c.exit}]
      BY DEF CommandShape
    <3>3. d \in [at : {"opening"}, op : {"init"}, on : {c.on}, due : {<<C>>}, exit : {c.exit}]
      <4> HIDE DEF C
      <4>1. d \in [at : {"opening"}, op : {c.op}, on : {c.on}, due : {<<C>>}, exit : {c.exit}]
        BY <3>2, CommandChanged
      <4> QED BY <1>4, <4>1
    <3>4. d.at = "opening" /\ d.op = "init" /\ d.on = c.on /\ d.due = <<C>> /\ d.exit = c.exit
      BY <3>3
    <3>5. CommandShape(d)
      <4> HIDE DEF d
      <4> QED BY <2>1, <3>3, <3>4, OneDue DEF CommandShape, IsTenantCommand
    <3>6. CommandShape([c EXCEPT !.at = "opening", !.due = Tail(c.due)])
      BY <3>1, <3>5, Zenon
    <3>7. ~IsTenantCommand(c)
      BY <1>4 DEF IsTenantCommand
    <3>8. Head(c.due)[1] = ManifestOf(c.on) /\ Head(c.due)[2] = <<c.on>>
      BY <3>1
    <3> HIDE DEF M, C, d
    <3> QED BY <1>4, <2>1, <3>6, <3>7, <3>8, FilesApart
  <2> QED BY <2>2, <2>3, <2>4, <2>5
<1> QED BY <1>1, <1>2, <1>3, <1>4

\* A command that ends, that starts to write, or that goes on to its next write.
AsEnded(c, code) == [c EXCEPT !.at = "ended", !.due = <<>>, !.exit = code]
AsWriting(c) == [c EXCEPT !.at = "writing"]
AsOpening(c, due) == [c EXCEPT !.at = "opening", !.due = due]

HasEnded(d, c, code) ==
  /\ CommandShape(d) /\ d.at = "ended" /\ d.op = c.op /\ d.on = c.on
  /\ d.due = <<>> /\ d.exit = code

GoesOn(d, c, due) ==
  /\ d \in [at : {d.at}, op : {d.op}, on : {d.on}, due : {d.due}, exit : {d.exit}]
  /\ d.at = "opening" /\ d.op = c.op /\ d.on = c.on /\ d.due = due /\ d.exit = c.exit

LEMMA EndShape ==
  ASSUME NEW c, CommandShape(c), NEW code
  PROVE  HasEnded(AsEnded(c, code), c, code)
<1> DEFINE d == AsEnded(c, code)
<1>0. c \in [at : {c.at}, op : {c.op}, on : {c.on}, due : {c.due}, exit : {c.exit}]
  BY DEF CommandShape
<1>1. d \in [at : {"ended"}, op : {c.op}, on : {c.on}, due : {<<>>}, exit : {code}]
  BY <1>0, CommandChanged DEF AsEnded
<1> HIDE DEF d
<1>2. d.at = "ended" /\ d.op = c.op /\ d.on = c.on /\ d.due = <<>> /\ d.exit = code
  BY <1>1
<1>3. d \in [at : {d.at}, op : {d.op}, on : {d.on}, due : {d.due}, exit : {d.exit}]
  BY <1>1, <1>2
<1>4. CommandShape(d)
  <2>1. d.op = "init" => d.on \in SpaceNames
    BY <1>2 DEF CommandShape
  <2>2. /\ d.at \notin {"opening", "writing"} /\ d.at # "reading" /\ d.at # "posting"
        /\ d.due = <<>>
    BY <1>2
  <2>3. d.due \in {<<>>, <<<<ManifestOf(d.on), <<d.on>>>>>>, <<<<ConfigOf(d.on), <<d.on>>>>>>,
                   <<<<ManifestOf(d.on), <<d.on>>>>, <<ConfigOf(d.on), <<d.on>>>>>>}
    BY <2>2, Zenon
  <2>4. d.at \in {"opening", "writing"} <=> d.due # <<>>
    BY <2>2, Zenon
  <2>5. d.op = "init" =>
          /\ d.on \in SpaceNames
          /\ d.due \in {<<>>, <<<<ManifestOf(d.on), <<d.on>>>>>>, <<<<ConfigOf(d.on), <<d.on>>>>>>,
                        <<<<ManifestOf(d.on), <<d.on>>>>, <<ConfigOf(d.on), <<d.on>>>>>>}
    BY <2>1, <2>3, Zenon
  <2>6. /\ IsTenantCommand(d) => d.due = <<>> \/ \E ids : d.due = <<<<RegistryFile, ids>>>>
        /\ d.op = "backup" => d.due = <<>> \/ (d.on \in Tenants /\ d.due = <<<<Archive(d.on), <<>>>>>>)
        /\ d.op \notin {"init", "create", "delete", "backup"} => d.due = <<>>
    BY <2>2
  <2>7. /\ d.at = "reading" => d.op \in {"list", "create", "delete"}
        /\ d.at = "posting" => d.op \notin {"init", "create", "delete", "backup"}
    BY <2>2, Zenon
  <2> QED BY <1>3, <2>4, <2>5, <2>6, <2>7, Zenon DEF CommandShape
<1>5. HasEnded(d, c, code)
  BY <1>2, <1>4, Zenon DEF HasEnded
<1> QED BY <1>5, Zenon DEF d

LEMMA WriteShape ==
  ASSUME NEW c, CommandShape(c), c.due # <<>>
  PROVE  LET d == AsWriting(c)
         IN  /\ CommandShape(d) /\ d.at = "writing" /\ d.op = c.op /\ d.on = c.on
             /\ d.due = c.due /\ d.exit = c.exit
<1> DEFINE d == AsWriting(c)
<1>0. c \in [at : {c.at}, op : {c.op}, on : {c.on}, due : {c.due}, exit : {c.exit}]
  BY DEF CommandShape
<1>1. d \in [at : {"writing"}, op : {c.op}, on : {c.on}, due : {c.due}, exit : {c.exit}]
  BY <1>0, CommandChanged DEF AsWriting
<1> HIDE DEF d
<1>2. d.at = "writing" /\ d.op = c.op /\ d.on = c.on /\ d.due = c.due /\ d.exit = c.exit
  BY <1>1
<1>3. d \in [at : {d.at}, op : {d.op}, on : {d.on}, due : {d.due}, exit : {d.exit}]
  BY <1>1, <1>2
<1>4. CommandShape(d)
  <2>1. IsTenantCommand(d) <=> IsTenantCommand(c)
    BY <1>2 DEF IsTenantCommand
  <2>2. /\ IsTenantCommand(c) => c.due = <<>> \/ \E ids : c.due = <<<<RegistryFile, ids>>>>
        /\ c.op \notin {"init", "create", "delete", "backup"} => c.due = <<>>
        /\ c.op = "backup" => c.due = <<>> \/ (c.on \in Tenants /\ c.due = <<<<Archive(c.on), <<>>>>>>)
        /\ c.op = "init" =>
             /\ c.on \in SpaceNames
             /\ c.due \in {<<>>, <<<<ManifestOf(c.on), <<c.on>>>>>>, <<<<ConfigOf(c.on), <<c.on>>>>>>,
                           <<<<ManifestOf(c.on), <<c.on>>>>, <<ConfigOf(c.on), <<c.on>>>>>>}
    BY Zenon DEF CommandShape
  <2>3. d.at = "writing" /\ d.at # "reading" /\ d.at # "posting"
    BY <1>2
  <2> QED BY <1>2, <1>3, <2>1, <2>2, <2>3, Zenon DEF CommandShape
<1> QED BY <1>2, <1>4 DEF d

LEMMA OpenShape ==
  ASSUME NEW c, CommandShape(c), NEW due
  PROVE  GoesOn(AsOpening(c, due), c, due)
<1> DEFINE d == AsOpening(c, due)
<1>0. c \in [at : {c.at}, op : {c.op}, on : {c.on}, due : {c.due}, exit : {c.exit}]
  BY DEF CommandShape
<1>1. d \in [at : {"opening"}, op : {c.op}, on : {c.on}, due : {due}, exit : {c.exit}]
  BY <1>0, CommandChanged DEF AsOpening
<1> HIDE DEF d
<1>2. d.at = "opening" /\ d.op = c.op /\ d.on = c.on /\ d.due = due /\ d.exit = c.exit
  BY <1>1
<1>3. d \in [at : {d.at}, op : {d.op}, on : {d.on}, due : {d.due}, exit : {d.exit}]
  BY <1>1, <1>2
<1>4. GoesOn(d, c, due)
  BY <1>2, <1>3, Zenon DEF GoesOn
<1> QED BY <1>4, Zenon DEF d

\* One shell changes, and one file at most.
OnlyShell(s, c) == ShellInv' /\ \A p \in Shells : shell'[p] = IF p = s THEN c ELSE shell[p]

LEMMA ShellChanges ==
  ASSUME ShellInv, NEW s \in Shells, NEW c, CommandShape(c), shell' = [shell EXCEPT ![s] = c],
         files' = files
  PROVE  OnlyShell(s, c)
<1>1. \A p \in Shells : shell'[p] = IF p = s THEN c ELSE shell[p]
  BY DEF ShellInv
<1>2. shell' = [p \in Shells |-> shell'[p]]
  BY DEF ShellInv
<1>3. \A p \in Shells : CommandShape(shell'[p])
  BY <1>1, Zenon DEF ShellInv
<1>4. files' = [f \in CliFiles |-> files'[f]] /\ \A f \in CliFiles : TextShape(files'[f])
  BY Zenon DEF ShellInv
<1>5. ShellInv'
  BY <1>2, <1>3, <1>4 DEF ShellInv
<1> QED BY <1>1, <1>5, Zenon DEF OnlyShell

Put(f, text, holds) == [files EXCEPT ![f] = [text |-> text, holds |-> holds]]

Moved(s, c, f, text, holds) ==
  /\ ShellInv' /\ \A p \in Shells : shell'[p] = IF p = s THEN c ELSE shell[p]
  /\ files'[f].text = text /\ files'[f].holds = holds
  /\ \A g \in CliFiles : g # f => files'[g] = files[g]

LEMMA FilesChange ==
  ASSUME ShellInv, NEW s \in Shells, NEW c, CommandShape(c), shell' = [shell EXCEPT ![s] = c],
         NEW f \in CliFiles, NEW text \in {"absent", "torn", "whole"}, NEW holds,
         files' = Put(f, text, holds)
  PROVE  Moved(s, c, f, text, holds)
<1>1. \A p \in Shells : shell'[p] = IF p = s THEN c ELSE shell[p]
  BY DEF ShellInv
<1>2. shell' = [p \in Shells |-> shell'[p]]
  BY DEF ShellInv
<1>3. \A p \in Shells : CommandShape(shell'[p])
  BY <1>1, Zenon DEF ShellInv
<1> DEFINE x == [text |-> text, holds |-> holds]
<1>4. TextShape(x) /\ x.text = text /\ x.holds = holds
  BY DEF TextShape
<1> HIDE DEF x
<1>5. files' = [files EXCEPT ![f] = x]
  BY DEF x, Put
<1>6. files' = [g \in CliFiles |-> files'[g]] /\ \A g \in CliFiles : files'[g] = IF g = f THEN x ELSE files[g]
  BY <1>5 DEF ShellInv
<1>7. \A g \in CliFiles : TextShape(files'[g])
  BY <1>4, <1>6, Zenon DEF ShellInv
<1>8. ShellInv'
  BY <1>2, <1>3, <1>6, <1>7 DEF ShellInv
<1> QED BY <1>1, <1>4, <1>6, <1>8, Zenon DEF Moved

\* Where a file's name is the target of a command.
LEMMA TargetIsFile ==
  ASSUME ShellInv, NEW s \in Shells, shell[s].at \in {"opening", "writing"}
  PROVE  CommandShape(shell[s]) /\ shell[s].due # <<>> /\ Target(s) \in CliFiles
         /\ Target(s) = Head(shell[s].due)[1]
<1>1. CommandShape(shell[s])
  BY DEF ShellInv
<1>2. shell[s].due # <<>>
  BY <1>1 DEF CommandShape
<1> QED BY <1>1, <1>2, FirstDue DEF Target

-----------------------------------------------------------------------------

Busy(c) == c.at \notin {"ready", "ended"}
Aim(c) == Head(c.due)[1]
Touches(c) == Rewrites(c.op, c.on)
Past(c) ==
  c.op = "init" /\ ((c.at = "ended" /\ c.exit = 0) \/ (c.due # <<>> /\ Aim(c) = ConfigOf(c.on)))

\* The five things a step does to the command it belongs to.
Begun(c, d) ==
  /\ ~Busy(c) /\ Busy(d) /\ d.at # "writing" /\ ~Past(d)
  /\ d.at = "opening" => ~IsTenantCommand(d)
  /\ files' = files /\ ledger' = ledger

Decided(c, d) ==
  /\ c.at = "reading" /\ d.at = "opening" /\ d.op = c.op /\ d.on = c.on /\ IsTenantCommand(c)
  /\ d.due = <<<<RegistryFile,
                IF c.op = "create" THEN Append(ReadRegistry, c.on) ELSE Without(ReadRegistry, c.on)>>>>
  /\ files' = files /\ ledger' = ledger /\ disturbed' = disturbed

Stopped(c, d) ==
  /\ Busy(c) /\ d.at = "ended" /\ d.op = c.op /\ d.on = c.on /\ ~Past(d)
  /\ files' = files /\ ledger' = ledger /\ disturbed \subseteq disturbed'
  /\ c.at = "writing" => Aim(c) \in disturbed'

Truncated(c, d) ==
  /\ c.at = "opening" /\ d.at = "writing" /\ d.op = c.op /\ d.on = c.on /\ d.due = c.due
  /\ files'[Aim(c)].text = "torn" /\ \A f \in CliFiles : f # Aim(c) => files'[f] = files[f]
  /\ ledger' = ledger /\ disturbed' = disturbed

Written(c, d) ==
  /\ c.at = "writing" /\ d.at \in {"ended", "opening"} /\ d.op = c.op /\ d.on = c.on
  /\ IsTenantCommand(c) => d.at = "ended"
  /\ \A f \in CliFiles : f # Aim(c) => files'[f] = files[f]
  /\ files'[Aim(c)].text \in {"torn", "whole"}
  /\ files'[Aim(c)].text = "whole" => files'[Aim(c)].holds = Head(c.due)[2]
  /\ files[Aim(c)].text = "torn" => files'[Aim(c)].text = "whole"
  /\ ledger' = CASE c.op = "create" -> Append(ledger, c.on)
                 [] c.op = "delete" -> Without(ledger, c.on)
                 [] OTHER -> ledger
  /\ disturbed' = disturbed

Changed(s, c, d) ==
  /\ Begun(c, d) => disturbed' = disturbed \cup
       {f \in Touches(d) : \E p \in Shells \ {s} : Busy(shell[p]) /\ f \in Touches(shell[p])}
  /\ Begun(c, d) \/ Decided(c, d) \/ Stopped(c, d) \/ Truncated(c, d) \/ Written(c, d)

StepOf(s) ==
  /\ ShellInv' /\ \A p \in Shells : p # s => shell'[p] = shell[p]
  /\ Changed(s, shell[s], shell'[s])

LEMMA StoppedSteps ==
  ASSUME ShellInv, NEW s \in Shells, NEW code, Working(s), Ends(s, code),
         files' = files, ledger' = ledger, disturbed \subseteq disturbed',
         shell[s].op = "init" => code # 0,
         shell[s].at = "writing" => Target(s) \in disturbed'
  PROVE  StepOf(s)
<1> DEFINE c == shell[s]
           d == AsEnded(c, code)
<1>1. CommandShape(c)
  BY DEF ShellInv
<1>2. CommandShape(d) /\ d.at = "ended" /\ d.op = c.op /\ d.on = c.on /\ d.due = <<>> /\ d.exit = code
  <2>1. HasEnded(d, c, code)
    BY <1>1, EndShape, Zenon
  <2> QED BY <2>1, Zenon DEF HasEnded
<1>3. shell' = [shell EXCEPT ![s] = d]
  BY Zenon DEF Ends, AsEnded
<1>4. Busy(c) /\ (c.at = "writing" => Aim(c) \in disturbed')
  BY DEF Working, Target, Busy, Aim
<1>5. c.op = "init" => code # 0
  OBVIOUS
<1> HIDE DEF d
<1>6. ShellInv' /\ \A p \in Shells : shell'[p] = IF p = s THEN d ELSE shell[p]
    <2>1. OnlyShell(s, d)
    BY <1>2, <1>3, ShellChanges, Zenon
  <2> QED BY <2>1, Zenon DEF OnlyShell
<1>7. ~Past(d)
  BY <1>2, <1>5, Zenon DEF Past
<1>8. Stopped(c, d)
  BY <1>2, <1>4, <1>7, Zenon DEF Stopped
<1>9. ~Begun(c, d)
  BY <1>4, Zenon DEF Begun
<1>10. shell'[s] = d /\ \A p \in Shells : p # s => shell'[p] = shell[p]
  BY <1>6, Zenon
<1> QED BY <1>6, <1>8, <1>9, <1>10, Zenon DEF StepOf, Changed

LEMMA BegunSteps ==
  ASSUME ShellInv, NEW s \in Shells, NEW at, NEW op, NEW on, NEW due, Starts(s, at, op, on, due),
         CommandShape([at |-> at, op |-> op, on |-> on, due |-> due, exit |-> 0]),
         at \in {"reading", "opening", "posting"},
         at = "opening" => op \notin {"create", "delete"},
         op = "init" => due # <<>> /\ Head(due)[1] = ManifestOf(on) /\ on \in SpaceNames,
         files' = files, ledger' = ledger
  PROVE  StepOf(s)
<1> DEFINE d == [at |-> at, op |-> op, on |-> on, due |-> due, exit |-> 0]
<1>1. d.at = at /\ d.op = op /\ d.on = on /\ d.due = due /\ d.exit = 0 /\ CommandShape(d)
  OBVIOUS
<1>2. shell' = [shell EXCEPT ![s] = d]
  BY Zenon DEF Starts
<1> HIDE DEF d
<1>3. ShellInv' /\ \A p \in Shells : shell'[p] = IF p = s THEN d ELSE shell[p]
    <2>1. OnlyShell(s, d)
    BY <1>1, <1>2, ShellChanges, Zenon
  <2> QED BY <2>1, Zenon DEF OnlyShell
<1>4. Busy(d) /\ d.at # "writing" /\ (d.at = "opening" => ~IsTenantCommand(d))
  BY <1>1 DEF Busy, IsTenantCommand
<1>5. ~Past(d)
  <2>1. d.at # "ended"
    BY <1>1
  <2>2. d.op = "init" => Aim(d) # ConfigOf(d.on)
    BY <1>1, FilesApart, Zenon DEF Aim
  <2> QED BY <2>1, <2>2, Zenon DEF Past
<1>6. ~Busy(shell[s])
  BY DEF Starts, Working, Busy
<1>7. Begun(shell[s], d)
  BY <1>4, <1>5, <1>6, Zenon DEF Begun
<1>8. disturbed' = disturbed \cup
        {f \in Touches(d) : \E p \in Shells \ {s} : Busy(shell[p]) /\ f \in Touches(shell[p])}
  <2>1. Touches(d) = Rewrites(op, on) /\ \A p \in Shells : Touches(shell[p]) = Rewrites(shell[p].op, shell[p].on)
    BY <1>1, Zenon DEF Touches
  <2>2. \A p \in Shells : Busy(shell[p]) <=> Working(p)
    BY Zenon DEF Busy, Working
  <2>3. disturbed' = disturbed \cup
          {f \in Rewrites(op, on) :
             \E p \in Shells \ {s} : Working(p) /\ f \in Rewrites(shell[p].op, shell[p].on)}
    BY Zenon DEF Starts
  <2> HIDE DEF Rewrites, Working, Busy, Touches
  <2> QED BY <2>1, <2>2, <2>3
<1>9. shell'[s] = d /\ \A p \in Shells : p # s => shell'[p] = shell[p]
  BY <1>3, Zenon
<1> QED BY <1>3, <1>7, <1>8, <1>9, Zenon DEF StepOf, Changed

LEMMA SameSequence ==
  ASSUME NEW S, NEW q \in Seq(S), NEW t \in Seq(S), Len(q) = Len(t),
         \A i \in 1 .. Len(q) : q[i] = t[i]
  PROVE  q = t
OBVIOUS

LEMMA JoinedDue == ASSUME NEW a, NEW b PROVE <<a>> \o <<b>> = <<a, b>> /\ <<a>> \o <<>> = <<a>>
<1>1. <<a>> \in Seq({a, b}) /\ <<b>> \in Seq({a, b}) /\ <<a, b>> \in Seq({a, b}) /\ <<>> \in Seq({a, b})
  OBVIOUS
<1>2. /\ Len(<<a>> \o <<b>>) = 2 /\ <<a>> \o <<b>> \in Seq({a, b})
      /\ (<<a>> \o <<b>>)[1] = a /\ (<<a>> \o <<b>>)[2] = b
  BY <1>1
<1>3. Len(<<a>> \o <<>>) = 1 /\ <<a>> \o <<>> \in Seq({a, b}) /\ (<<a>> \o <<>>)[1] = a
  BY <1>1
<1>4. Len(<<a, b>>) = 2 /\ <<a, b>>[1] = a /\ <<a, b>>[2] = b /\ Len(<<a>>) = 1 /\ <<a>>[1] = a
  OBVIOUS
<1> DEFINE q == <<a>> \o <<b>>
           r == <<a>> \o <<>>
           t == <<a, b>>
           u == <<a>>
<1>5. /\ q \in Seq({a, b}) /\ t \in Seq({a, b}) /\ Len(q) = 2 /\ Len(t) = 2
      /\ q[1] = t[1] /\ q[2] = t[2]
      /\ r \in Seq({a, b}) /\ u \in Seq({a, b}) /\ Len(r) = 1 /\ Len(u) = 1 /\ r[1] = u[1]
  BY <1>1, <1>2, <1>3, <1>4
<1> HIDE DEF q, r, t, u
<1>6. q = t
  BY <1>5, SameSequence
<1>7. r = u
  BY <1>5, SameSequence
<1> QED BY <1>6, <1>7 DEF q, r, t, u

LEMMA NewShape ==
  ASSUME NEW at, NEW op, NEW on
  PROVE  /\ op \in {"list", "create", "delete"} =>
              CommandShape([at |-> "reading", op |-> op, on |-> on, due |-> <<>>, exit |-> 0])
         /\ op \notin {"init", "create", "delete", "backup"} =>
              CommandShape([at |-> "posting", op |-> op, on |-> on, due |-> <<>>, exit |-> 0])
         /\ on \in Tenants => CommandShape([at |-> "opening", op |-> "backup", on |-> on,
                                           due |-> <<<<Archive(on), <<>>>>>>, exit |-> 0])
         /\ \A due : /\ on \in SpaceNames
                    /\ \/ due = <<<<ManifestOf(on), <<on>>>>>>
                       \/ due = <<<<ManifestOf(on), <<on>>>>, <<ConfigOf(on), <<on>>>>>>
                   => CommandShape([at |-> "opening", op |-> "init", on |-> on, due |-> due, exit |-> 0])
<1>1. ASSUME op \in {"list", "create", "delete"}
      PROVE  CommandShape([at |-> "reading", op |-> op, on |-> on, due |-> <<>>, exit |-> 0])
  <2> DEFINE d == [at |-> "reading", op |-> op, on |-> on, due |-> <<>>, exit |-> 0]
  <2>1. d \in [at : {d.at}, op : {d.op}, on : {d.on}, due : {d.due}, exit : {d.exit}]
    OBVIOUS
  <2>2. d.at = "reading" /\ d.op = op /\ d.on = on /\ d.due = <<>>
    OBVIOUS
  <2>3. op \notin {"init", "backup"}
    BY <1>1
  <2> HIDE DEF d
  <2>4. CommandShape(d)
    BY <1>1, <2>1, <2>2, <2>3 DEF CommandShape, IsTenantCommand
  <2> QED BY <2>4 DEF d
<1>2. ASSUME op \notin {"init", "create", "delete", "backup"}
      PROVE  CommandShape([at |-> "posting", op |-> op, on |-> on, due |-> <<>>, exit |-> 0])
  <2> DEFINE d == [at |-> "posting", op |-> op, on |-> on, due |-> <<>>, exit |-> 0]
  <2>1. d \in [at : {d.at}, op : {d.op}, on : {d.on}, due : {d.due}, exit : {d.exit}]
    OBVIOUS
  <2>2. d.at = "posting" /\ d.op = op /\ d.on = on /\ d.due = <<>>
    OBVIOUS
  <2> HIDE DEF d
  <2>4. CommandShape(d)
    BY <1>2, <2>1, <2>2 DEF CommandShape, IsTenantCommand
  <2> QED BY <2>4 DEF d
<1>3. ASSUME on \in Tenants
      PROVE  CommandShape([at |-> "opening", op |-> "backup", on |-> on,
                           due |-> <<<<Archive(on), <<>>>>>>, exit |-> 0])
  <2> DEFINE due == <<<<Archive(on), <<>>>>>>
             d == [at |-> "opening", op |-> "backup", on |-> on, due |-> due, exit |-> 0]
  <2>1. due # <<>>
    OBVIOUS
  <2>5. due = <<<<Archive(on), <<>>>>>>
    OBVIOUS
  <2> HIDE DEF due
  <2>2. d \in [at : {d.at}, op : {d.op}, on : {d.on}, due : {d.due}, exit : {d.exit}]
    OBVIOUS
  <2>3. d.at = "opening" /\ d.op = "backup" /\ d.on = on /\ d.due = due
    OBVIOUS
  <2> HIDE DEF d
  <2>4. CommandShape(d)
    BY <1>3, <2>1, <2>2, <2>3, <2>5 DEF CommandShape, IsTenantCommand
  <2> QED BY <2>4 DEF d, due
<1>4. ASSUME NEW due, on \in SpaceNames,
             \/ due = <<<<ManifestOf(on), <<on>>>>>>
             \/ due = <<<<ManifestOf(on), <<on>>>>, <<ConfigOf(on), <<on>>>>>>
      PROVE  CommandShape([at |-> "opening", op |-> "init", on |-> on, due |-> due, exit |-> 0])
  <2> DEFINE d == [at |-> "opening", op |-> "init", on |-> on, due |-> due, exit |-> 0]
  <2>1. due # <<>>
    BY <1>4
  <2>2. d \in [at : {d.at}, op : {d.op}, on : {d.on}, due : {d.due}, exit : {d.exit}]
    OBVIOUS
  <2>3. d.at = "opening" /\ d.op = "init" /\ d.on = on /\ d.due = due
    OBVIOUS
  <2> HIDE DEF d
  <2>4. CommandShape(d)
    BY <1>4, <2>1, <2>2, <2>3 DEF CommandShape, IsTenantCommand
  <2> QED BY <2>4 DEF d
<1> QED BY <1>1, <1>2, <1>3, <1>4

LEMMA BeginSteps ==
  ASSUME ShellInv, NEW s \in Shells,
         BeginTenant(s) \/ BeginInit(s) \/ BeginBackup(s) \/ RestoreOrVerify(s) \/ BeginPost(s)
  PROVE  StepOf(s)
<1>1. CASE BeginTenant(s)
  <2>1. PICK op \in {"list", "create", "delete"}, id \in Tenants : Starts(s, "reading", op, id, <<>>)
    BY <1>1, Zenon DEF BeginTenant
  <2>2. op # "init" /\ CommandShape([at |-> "reading", op |-> op, on |-> id, due |-> <<>>, exit |-> 0])
    BY <2>1, NewShape
  <2>3. "reading" \in {"reading", "opening", "posting"} /\ "reading" # "opening"
    OBVIOUS
  <2>4. files' = files /\ ledger' = ledger
    BY <1>1, Zenon DEF BeginTenant
  <2> QED BY <2>1, <2>2, <2>3, <2>4, BegunSteps, Zenon
<1>2. CASE BeginInit(s)
  <2>1. PICK n, due :
          /\ n \in SpaceNames /\ Starts(s, "opening", "init", n, due)
          /\ \/ due = <<<<ManifestOf(n), <<n>>>>>>
             \/ due = <<<<ManifestOf(n), <<n>>>>, <<ConfigOf(n), <<n>>>>>>
    <3>1. PICK n \in SpaceNames, withConfig \in BOOLEAN :
            Starts(s, "opening", "init", n,
                   <<<<<<Slug(n), "manifest">>, <<n>>>>>>
                     \o (IF withConfig THEN <<<<<<Slug(n), "config">>, <<n>>>>>> ELSE <<>>))
      BY <1>2, Zenon DEF BeginInit
    <3> DEFINE M == <<ManifestOf(n), <<n>>>>
               C == <<ConfigOf(n), <<n>>>>
    <3>2. Starts(s, "opening", "init", n, <<M>> \o (IF withConfig THEN <<C>> ELSE <<>>))
      BY <3>1, Zenon DEF ManifestOf, ConfigOf, Slug
    <3> HIDE DEF M, C
    <3>3. <<M>> \o <<C>> = <<M, C>> /\ <<M>> \o <<>> = <<M>>
      BY JoinedDue
    <3>4. \/ Starts(s, "opening", "init", n, <<M>>)
          \/ Starts(s, "opening", "init", n, <<M, C>>)
      <4>1. CASE withConfig
        <5>1. (IF withConfig THEN <<C>> ELSE <<>>) = <<C>>
          BY <4>1
        <5> QED BY <3>2, <3>3, <5>1, Zenon
      <4>2. CASE ~withConfig
        <5>1. (IF withConfig THEN <<C>> ELSE <<>>) = <<>>
          BY <4>2
        <5> QED BY <3>2, <3>3, <5>1, Zenon
      <4> QED BY <4>1, <4>2
    <3> QED BY <3>4, Zenon DEF M, C
  <2>2. CommandShape([at |-> "opening", op |-> "init", on |-> n, due |-> due, exit |-> 0])
    BY <2>1, NewShape, Zenon
  <2>3. due # <<>> /\ Head(due)[1] = ManifestOf(n)
    <3> DEFINE M == <<ManifestOf(n), <<n>>>>
               C == <<ConfigOf(n), <<n>>>>
    <3>1. M[1] = ManifestOf(n)
      OBVIOUS
    <3>2. due = <<M>> \/ due = <<M, C>>
      BY <2>1
    <3> HIDE DEF M, C
    <3> QED BY <3>1, <3>2, OneDue, TwoDue
  <2>4. "opening" \in {"reading", "opening", "posting"} /\ "init" \notin {"create", "delete"}
    OBVIOUS
  <2>5. files' = files /\ ledger' = ledger
    BY <1>2, Zenon DEF BeginInit
  <2> QED BY <2>1, <2>2, <2>3, <2>4, <2>5, BegunSteps, Zenon
<1>3. CASE BeginBackup(s)
  <2>1. PICK id \in Tenants : Starts(s, "opening", "backup", id, <<<<Archive(id), <<>>>>>>)
    BY <1>3, Zenon DEF BeginBackup, Packed
  <2>2. CommandShape([at |-> "opening", op |-> "backup", on |-> id, due |-> <<<<Archive(id), <<>>>>>>, exit |-> 0])
    BY <2>1, NewShape, Zenon
  <2>3. "opening" \in {"reading", "opening", "posting"} /\ "backup" \notin {"create", "delete"}
        /\ "backup" # "init"
    OBVIOUS
  <2>4. files' = files /\ ledger' = ledger
    BY <1>3, Zenon DEF BeginBackup
  <2> QED BY <2>1, <2>2, <2>3, <2>4, BegunSteps, Zenon
<1>4. ASSUME NEW op, NEW on, Starts(s, "posting", op, on, <<>>), files' = files, ledger' = ledger,
             op \notin {"init", "create", "delete", "backup"}
      PROVE  StepOf(s)
  <2>1. CommandShape([at |-> "posting", op |-> op, on |-> on, due |-> <<>>, exit |-> 0])
    BY <1>4, NewShape, Zenon
  <2>2. "posting" \in {"reading", "opening", "posting"} /\ "posting" # "opening" /\ op # "init"
    BY <1>4
  <2> QED BY <1>4, <2>1, <2>2, BegunSteps, Zenon
<1>5. CASE RestoreOrVerify(s)
  <2>1. PICK id \in Tenants, op \in {"restore", "verify"} : Starts(s, "posting", op, id, <<>>)
    BY <1>5, Zenon DEF RestoreOrVerify
  <2>2. op \notin {"init", "create", "delete", "backup"}
    BY <2>1
  <2>3. files' = files /\ ledger' = ledger
    BY <1>5, Zenon DEF RestoreOrVerify
  <2> QED BY <1>4, <2>1, <2>2, <2>3, Zenon
<1>6. CASE BeginPost(s)
  <2>1. PICK op \in {"ingest", "query", "feedback", "queue", "migrate", "eval"} : Posts(s, op)
    BY <1>6, Zenon
      DEF BeginPost, IngestFile, AskQuestionOf, RateTurn, PrintQueue, PrintMigration, RunEval
  <2>2. op \notin {"init", "create", "delete", "backup"}
    BY <2>1
  <2>3. Starts(s, "posting", op, "none", <<>>) /\ files' = files /\ ledger' = ledger
    BY <2>1, Zenon DEF Posts
  <2> QED BY <1>4, <2>2, <2>3, Zenon
<1> QED BY <1>1, <1>2, <1>3, <1>5, <1>6

LEMMA DecideSteps ==
  ASSUME ShellInv, NEW s \in Shells, DecideTenant(s)
  PROVE  StepOf(s)
<1> DEFINE c == shell[s]
           ids == IF c.op = "create" THEN Append(ReadRegistry, c.on) ELSE Without(ReadRegistry, c.on)
           refused == (c.op = "create") = Listed(ReadRegistry, c.on)
           due == <<<<RegistryFile, ids>>>>
<1>1. /\ c.at = "reading" /\ c.op \in {"list", "create", "delete"}
      /\ files' = files /\ ledger' = ledger /\ disturbed' = disturbed
      /\ IF c.op = "list" THEN Ends(s, 0)
         ELSE IF refused THEN Ends(s, 1)
         ELSE shell' = [shell EXCEPT ![s] = [@ EXCEPT !.at = "opening", !.due = due]]
  BY Zenon DEF DecideTenant
<1> HIDE DEF ids, refused
<1>2. CommandShape(c)
  BY DEF ShellInv
<1>3. Working(s) /\ c.at # "writing" /\ c.op # "init"
  BY <1>1 DEF Working
<1>4. CASE Ends(s, 0) \/ Ends(s, 1)
  BY <1>1, <1>3, <1>4, StoppedSteps, Zenon
<1>5. CASE c.op \in {"create", "delete"} /\ shell' = [shell EXCEPT ![s] = [@ EXCEPT !.at = "opening", !.due = due]]
  <2> DEFINE d == AsOpening(c, due)
  <2>1. shell' = [shell EXCEPT ![s] = d]
    BY <1>5, Zenon DEF AsOpening
  <2> HIDE DEF due
  <2>2. /\ d \in [at : {d.at}, op : {d.op}, on : {d.on}, due : {d.due}, exit : {d.exit}]
        /\ d.at = "opening" /\ d.op = c.op /\ d.on = c.on /\ d.due = due /\ d.exit = c.exit
    <3>1. GoesOn(d, c, due)
      BY <1>2, OpenShape, Zenon
    <3> QED BY <3>1, Zenon DEF GoesOn
  <2> HIDE DEF d
  <2>3. due = <<<<RegistryFile, ids>>>> /\ due # <<>>
    BY DEF due
  <2>4. CommandShape(d)
    BY <1>5, <2>2, <2>3 DEF CommandShape, IsTenantCommand
  <2>5. ShellInv' /\ \A p \in Shells : shell'[p] = IF p = s THEN d ELSE shell[p]
    <3>1. OnlyShell(s, d)
      BY <1>1, <2>1, <2>4, ShellChanges, Zenon
    <3> QED BY <3>1, Zenon DEF OnlyShell
  <2>6. IsTenantCommand(c)
    BY <1>5 DEF IsTenantCommand
  <2>7. Decided(c, d)
    BY <1>1, <2>2, <2>3, <2>6, Zenon DEF Decided, ids
  <2>8. ~Begun(c, d)
    BY <1>3, Zenon DEF Begun, Busy, Working
  <2>9. shell'[s] = d /\ \A p \in Shells : p # s => shell'[p] = shell[p]
    BY <2>5, Zenon
  <2> QED BY <2>5, <2>7, <2>8, <2>9, Zenon DEF StepOf, Changed
<1>6. c.op # "list" => c.op \in {"create", "delete"}
  BY <1>1
<1> QED BY <1>1, <1>4, <1>5, <1>6, Zenon

LEMMA TruncateSteps ==
  ASSUME ShellInv, NEW s \in Shells, TruncateFile(s)
  PROVE  StepOf(s)
<1> DEFINE c == shell[s]
           d == AsWriting(c)
<1>1. c.at = "opening" /\ ledger' = ledger /\ disturbed' = disturbed
  BY Zenon DEF TruncateFile
<1>2. CommandShape(c) /\ c.due # <<>> /\ Target(s) \in CliFiles /\ Target(s) = Aim(c)
  BY <1>1, TargetIsFile DEF Aim
<1>3. Working(s) /\ c.at # "writing"
  BY <1>1 DEF Working
<1>4. CASE Target(s) = RegistryFile /\ ~homeMade
  <2>1. Ends(s, 1) /\ files' = files
    BY <1>4, Zenon DEF TruncateFile
  <2> QED BY <1>1, <1>3, <2>1, StoppedSteps
<1>5. CASE ~(Target(s) = RegistryFile /\ ~homeMade)
  <2>1. /\ shell' = [shell EXCEPT ![s] = d]
        /\ files' = Put(Aim(c), "torn", <<>>)
    BY <1>2, <1>5, Zenon DEF TruncateFile, AsWriting, Put
  <2>2. /\ CommandShape(d) /\ d.at = "writing" /\ d.op = c.op /\ d.on = c.on
        /\ d.due = c.due /\ d.exit = c.exit
    <3> HIDE DEF c
    <3> QED BY <1>2, WriteShape, Zenon
  <2> HIDE DEF d
  <2>3. "torn" \in {"absent", "torn", "whole"} /\ Aim(c) \in CliFiles
    BY <1>2
  <2>4. /\ ShellInv' /\ \A p \in Shells : shell'[p] = IF p = s THEN d ELSE shell[p]
        /\ files'[Aim(c)].text = "torn"
        /\ \A g \in CliFiles : g # Aim(c) => files'[g] = files[g]
    <3>1. Moved(s, d, Aim(c), "torn", <<>>)
      BY <2>1, <2>2, <2>3, FilesChange, Zenon
    <3> QED BY <3>1, Zenon DEF Moved
  <2>5. Truncated(c, d)
    BY <1>1, <2>2, <2>4, Zenon DEF Truncated
  <2>6. ~Begun(c, d)
    BY <1>3, Zenon DEF Begun, Busy, Working
  <2>7. shell'[s] = d /\ \A p \in Shells : p # s => shell'[p] = shell[p]
    BY <2>4, Zenon
  <2> QED BY <2>4, <2>5, <2>6, <2>7, Zenon DEF StepOf, Changed
<1> QED BY <1>4, <1>5

LEMMA WriteSteps ==
  ASSUME ShellInv, NEW s \in Shells, WriteFile(s)
  PROVE  StepOf(s)
<1> DEFINE c == shell[s]
           f == Aim(c)
           text == Head(c.due)[2]
           rest == Tail(c.due)
           d == IF rest = <<>> THEN AsEnded(c, 0) ELSE AsOpening(c, rest)
<1>1. /\ c.at = "writing" /\ disturbed' = disturbed
      /\ ledger' = CASE c.op = "create" -> Append(ledger, c.on)
                     [] c.op = "delete" -> Without(ledger, c.on)
                     [] OTHER -> ledger
  BY Zenon DEF WriteFile
<1>2. CommandShape(c) /\ c.due # <<>> /\ Target(s) \in CliFiles /\ Target(s) = f
  BY <1>1, TargetIsFile DEF Aim
<1>3. PICK kind, holds :
        /\ kind \in {"torn", "whole"}
        /\ files' = Put(f, kind, holds)
        /\ kind = "whole" => holds = text
        /\ files[f].text = "torn" => kind = "whole"
  <2>1. \/ files' = Put(f, "whole", text)
        \/ /\ files[f].text = "whole"
           /\ files' = Put(f, "torn", <<>>)
    BY <1>2, Zenon DEF WriteFile, Put
  <2>2. CASE files' = Put(f, "whole", text)
    <3>1. WITNESS "whole", text
    <3> QED BY <2>2
  <2>3. CASE files[f].text = "whole" /\ files' = Put(f, "torn", <<>>)
    <3>1. WITNESS "torn", <<>>
    <3> QED BY <2>3
  <2> QED BY <2>1, <2>2, <2>3
<1>4. shell' = [shell EXCEPT ![s] = d]
  <2>1. CASE rest = <<>>
    BY <2>1, Zenon DEF WriteFile, Ends, AsEnded
  <2>2. CASE rest # <<>>
    BY <2>2, Zenon DEF WriteFile, AsOpening
  <2> QED BY <2>1, <2>2
<1>5. /\ CommandShape(d) /\ d.at \in {"ended", "opening"} /\ d.op = c.op /\ d.on = c.on
      /\ IsTenantCommand(c) => d.at = "ended"
  <2>1. CASE rest = <<>>
    <3>1. d = AsEnded(c, 0)
      BY <2>1
    <3>2. CommandShape(d) /\ d.at = "ended" /\ d.op = c.op /\ d.on = c.on
      <4>1. HasEnded(AsEnded(c, 0), c, 0)
        BY <1>2, EndShape, Zenon
      <4> HIDE DEF c, d
      <4> QED BY <3>1, <4>1, Zenon DEF HasEnded
    <3> HIDE DEF d
    <3> QED BY <3>2
  <2>2. CASE rest # <<>>
    <3>1. d = AsOpening(c, rest)
      BY <2>2
    <3>2. ~IsTenantCommand(c)
      BY <1>2, <2>2, FirstDue, Zenon
    <3>3. CommandShape(d)
      <4>1. CommandShape([c EXCEPT !.at = "opening", !.due = Tail(c.due)])
        BY <1>2, <2>2, FirstDue, Zenon
      <4> QED BY <3>1, <4>1, Zenon DEF AsOpening
    <3>4. d.at = "opening" /\ d.op = c.op /\ d.on = c.on
      <4>1. GoesOn(AsOpening(c, rest), c, rest)
        BY <1>2, OpenShape, Zenon
      <4> HIDE DEF c, d, rest
      <4> QED BY <3>1, <4>1, Zenon DEF GoesOn
    <3> HIDE DEF d
    <3> QED BY <3>2, <3>3, <3>4
  <2> QED BY <2>1, <2>2
<1> HIDE DEF d
<1>6. kind \in {"absent", "torn", "whole"} /\ f \in CliFiles
  BY <1>2, <1>3
<1>7. /\ ShellInv' /\ \A p \in Shells : shell'[p] = IF p = s THEN d ELSE shell[p]
      /\ files'[f].text = kind /\ files'[f].holds = holds
      /\ \A g \in CliFiles : g # f => files'[g] = files[g]
  <2>1. Moved(s, d, f, kind, holds)
    BY <1>3, <1>4, <1>5, <1>6, FilesChange, Zenon
  <2> QED BY <2>1, Zenon DEF Moved
<1>8. Written(c, d)
  BY <1>1, <1>3, <1>5, <1>7, Zenon DEF Written
<1>9. ~Begun(c, d)
  BY <1>1 DEF Begun, Busy
<1>10. shell'[s] = d /\ \A p \in Shells : p # s => shell'[p] = shell[p]
  BY <1>7, Zenon
<1> QED BY <1>7, <1>8, <1>9, <1>10, Zenon DEF StepOf, Changed

LEMMA EndSteps ==
  ASSUME ShellInv, NEW s \in Shells, EndPost(s) \/ Kill(s)
  PROVE  StepOf(s)
<1>1. CASE EndPost(s)
  <2>1. PICK code \in 0 .. 1 : Ends(s, code)
    BY <1>1, Zenon DEF EndPost
  <2>2. shell[s].at = "posting" /\ files' = files /\ ledger' = ledger /\ disturbed' = disturbed
    BY <1>1, Zenon DEF EndPost
  <2>3. CommandShape(shell[s])
    BY DEF ShellInv
  <2>4. Working(s) /\ shell[s].at # "writing" /\ shell[s].op # "init"
    BY <2>2, <2>3 DEF Working, CommandShape
  <2> QED BY <2>1, <2>2, <2>4, StoppedSteps, Zenon
<1>2. CASE Kill(s)
  <2>1. /\ Working(s) /\ Ends(s, 1) /\ files' = files /\ ledger' = ledger
        /\ disturbed' = disturbed \cup {f \in CliFiles : shell[s].at = "writing" /\ f = Target(s)}
    BY <1>2, Zenon DEF Kill
  <2>2. shell[s].at = "writing" => Target(s) \in CliFiles
    BY TargetIsFile
  <2>3. disturbed \subseteq disturbed' /\ (shell[s].at = "writing" => Target(s) \in disturbed')
    BY <2>1, <2>2, Zenon
  <2>4. 1 # 0
    OBVIOUS
  <2> QED BY <2>1, <2>3, <2>4, StoppedSteps, Zenon
<1> QED BY <1>1, <1>2

LEMMA CommandSteps ==
  ASSUME ShellInv, CommandNext
  PROVE  \E s \in Shells : StepOf(s)
<1>1. PICK s \in Shells :
        \/ BeginTenant(s) \/ BeginInit(s) \/ BeginBackup(s) \/ RestoreOrVerify(s) \/ BeginPost(s)
        \/ DecideTenant(s) \/ TruncateFile(s) \/ WriteFile(s) \/ EndPost(s) \/ Kill(s)
  BY Zenon DEF CommandNext, TenantNext, SpaceNext
<1> QED BY <1>1, BeginSteps, DecideSteps, TruncateSteps, WriteSteps, EndSteps, Zenon

\* As long as no two commands worked on a file at once and none was killed in the middle
\* of writing it, one command at most works on it, and the file is torn exactly while
\* that command is writing.
FileAlone(f) ==
  /\ \A s, p \in Shells : /\ Busy(shell[s]) /\ Busy(shell[p])
                         /\ f \in Touches(shell[s]) /\ f \in Touches(shell[p]) => s = p
  /\ \A s \in Shells : shell[s].at = "writing" /\ Aim(shell[s]) = f => files[f].text = "torn"
  /\ files[f].text = "torn" => \E s \in Shells : shell[s].at = "writing" /\ Aim(shell[s]) = f

AloneInv == \A f \in CliFiles : f \notin disturbed => FileAlone(f)

LEMMA AimTouched ==
  ASSUME NEW c, CommandShape(c)
  PROVE  /\ c.due # <<>> => Aim(c) \in Touches(c)
         /\ IsTenantCommand(c) => RegistryFile \in Touches(c)
<1>1. /\ c.op \in {"create", "delete"} => Touches(c) = {RegistryFile}
      /\ c.op = "init" => Touches(c) = FilesOf(SlugOf[c.on])
      /\ c.op = "backup" => Touches(c) = {Archive(c.on)}
  BY DEF Touches, Rewrites
<1>2. IsTenantCommand(c) => RegistryFile \in Touches(c)
  BY <1>1 DEF IsTenantCommand
<1>3. ASSUME c.due # <<>> PROVE Aim(c) \in Touches(c)
  <2>1. CASE IsTenantCommand(c)
    BY <1>2, <1>3, <2>1, FirstDue DEF Aim
  <2>2. CASE c.op = "backup"
    <3>1. c.due = <<<<Archive(c.on), <<>>>>>>
      BY <1>3, <2>2 DEF CommandShape
    <3>2. Head(c.due) = <<Archive(c.on), <<>>>>
      BY <3>1, OneDue
    <3> QED BY <1>1, <2>2, <3>2 DEF Aim
  <2>3. CASE c.op = "init"
    <3> DEFINE M == <<ManifestOf(c.on), <<c.on>>>>
               C == <<ConfigOf(c.on), <<c.on>>>>
    <3>1. c.due \in {<<M>>, <<C>>, <<M, C>>}
      BY <1>3, <2>3 DEF CommandShape
    <3>2. M[1] = ManifestOf(c.on) /\ C[1] = ConfigOf(c.on)
      OBVIOUS
    <3> HIDE DEF M, C
    <3>3. Aim(c) \in {ManifestOf(c.on), ConfigOf(c.on)}
      BY <3>1, <3>2, OneDue, TwoDue DEF Aim
    <3>4. ManifestOf(c.on) \in FilesOf(SlugOf[c.on]) /\ ConfigOf(c.on) \in FilesOf(SlugOf[c.on])
      BY DEF ManifestOf, ConfigOf, FilesOf
    <3> QED BY <1>1, <2>3, <3>3, <3>4
  <2>4. IsTenantCommand(c) \/ c.op = "backup" \/ c.op = "init"
    BY <1>3 DEF CommandShape, IsTenantCommand
  <2> QED BY <2>1, <2>2, <2>3, <2>4
<1> QED BY <1>2, <1>3

LEMMA AloneStep ==
  ASSUME ShellInv, AloneInv, NEW s \in Shells, StepOf(s)
  PROVE  AloneInv'
<1> SUFFICES ASSUME NEW f \in CliFiles, f \notin disturbed'
             PROVE  FileAlone(f)'
  BY Zenon DEF AloneInv
<1> DEFINE c == shell[s]
           d == shell'[s]
<1>1. disturbed \subseteq disturbed' /\ \A p \in Shells : p # s => shell'[p] = shell[p]
  BY Zenon DEF StepOf, Changed, Decided, Stopped, Truncated, Written
<1>2. FileAlone(f)
  BY <1>1 DEF AloneInv
<1>3. /\ Busy(c) /\ f \in Touches(c) => \A p \in Shells : Busy(shell[p]) /\ f \in Touches(shell[p]) => p = s
      /\ \A p, q \in Shells : /\ Busy(shell[p]) /\ Busy(shell[q])
                             /\ f \in Touches(shell[p]) /\ f \in Touches(shell[q]) => p = q
      /\ \A p \in Shells : shell[p].at = "writing" /\ Aim(shell[p]) = f => files[f].text = "torn"
      /\ files[f].text = "torn" => \E p \in Shells : shell[p].at = "writing" /\ Aim(shell[p]) = f
  BY <1>2, Zenon DEF FileAlone
<1> DEFINE Holder(p) == shell'[p].at = "writing" /\ Aim(shell'[p]) = f
<1>4. SUFFICES /\ \A p \in Shells : Busy(d) /\ Busy(shell[p]) /\ f \in Touches(d) /\ f \in Touches(shell[p])
                                   => p = s
               /\ \A p \in Shells : Holder(p) => files'[f].text = "torn"
               /\ files'[f].text = "torn" => \E p \in Shells : Holder(p)
  <2>1. FileAlone(f)' <=>
          /\ \A p, q \in Shells : /\ Busy(shell'[p]) /\ Busy(shell'[q])
                                 /\ f \in Touches(shell'[p]) /\ f \in Touches(shell'[q]) => p = q
          /\ \A p \in Shells : Holder(p) => files'[f].text = "torn"
          /\ files'[f].text = "torn" => \E p \in Shells : Holder(p)
    BY Zenon DEF FileAlone
  <2> QED BY <1>1, <1>3, <2>1, Zenon
<1>5. Changed(s, c, d) /\ ShellInv'
  BY Zenon DEF StepOf
<1>6. CommandShape(c) /\ CommandShape(d)
  BY <1>5, Zenon DEF ShellInv
<1>7. c.at \in {"opening", "writing"} => Busy(c) /\ Aim(c) \in Touches(c)
  BY <1>6, AimTouched DEF CommandShape, Busy
<1>8. \A p \in Shells : p # s => (Holder(p) <=> shell[p].at = "writing" /\ Aim(shell[p]) = f)
  BY <1>1
<1>9. /\ c.at = "reading" => c.at # "writing" /\ Busy(c)
      /\ ~Busy(c) => c.at # "writing"
      /\ d.at \in {"ended", "opening"} => d.at # "writing"
      /\ d.at = "ended" => ~Busy(d)
      /\ c.at = "opening" => c.at # "writing"
  BY DEF Busy
<1>10. CASE Begun(c, d)
  <2>1. files' = files /\ d.at # "writing" /\ ~Busy(c)
    BY <1>10, Zenon DEF Begun
  <2>2. \A p \in Shells : Busy(shell[p]) /\ f \in Touches(d) /\ f \in Touches(shell[p]) => p = s
    BY <1>5, <1>10, Zenon DEF Changed
  <2> HIDE DEF c, d
  <2> QED BY <1>3, <1>8, <1>9, <2>1, <2>2, Zenon DEF c, d
<1>11. CASE Decided(c, d)
  <2>1. files' = files /\ d.at = "opening" /\ c.at = "reading" /\ Touches(d) = Touches(c)
    BY <1>11, Zenon DEF Decided, Touches
  <2> QED BY <1>3, <1>8, <1>9, <2>1
<1>12. CASE Stopped(c, d)
  <2>1. /\ files' = files /\ d.at = "ended" /\ Busy(c) /\ Touches(d) = Touches(c)
        /\ c.at = "writing" => Aim(c) # f
    BY <1>12, Zenon DEF Stopped, Touches
  <2> QED BY <1>3, <1>8, <1>9, <2>1
<1>13. CASE Truncated(c, d)
  <2>1. /\ c.at = "opening" /\ d.at = "writing" /\ Touches(d) = Touches(c) /\ Aim(d) = Aim(c)
        /\ files'[Aim(c)].text = "torn" /\ (f # Aim(c) => files'[f] = files[f])
    BY <1>13, Zenon DEF Truncated, Touches, Aim
  <2>2. Busy(c)
    BY <1>7, <2>1
  <2>3. CASE f = Aim(c)
    BY <1>3, <2>1, <2>2, <2>3
  <2>4. CASE f # Aim(c)
    BY <1>3, <1>8, <1>9, <2>1, <2>2, <2>4
  <2> QED BY <2>3, <2>4
<1>14. CASE Written(c, d)
  <2>1. /\ c.at = "writing" /\ d.at \in {"ended", "opening"} /\ Touches(d) = Touches(c)
        /\ files[Aim(c)].text = "torn" => files'[Aim(c)].text = "whole"
        /\ f # Aim(c) => files'[f] = files[f]
    BY <1>14, Zenon DEF Written, Touches
  <2>2. Busy(c) /\ Aim(c) \in Touches(c)
    BY <1>7, <2>1
  <2>3. CASE f = Aim(c)
    <3>1. files'[f].text # "torn"
      BY <1>3, <2>1, <2>3
    <3>2. ASSUME NEW p \in Shells, Holder(p) PROVE FALSE
      <4>1. p # s
        BY <1>9, <2>1, <3>2
      <4>2. shell[p].at = "writing" /\ Aim(shell[p]) = f
        BY <1>8, <3>2, <4>1
      <4>3. Busy(shell[p]) /\ f \in Touches(shell[p])
        <5>1. CommandShape(shell[p])
          BY DEF ShellInv
        <5> QED BY <4>2, <5>1, AimTouched DEF CommandShape, Busy
      <4> QED BY <1>3, <2>2, <2>3, <4>1, <4>3
    <3>3. \A p \in Shells : Busy(shell[p]) /\ f \in Touches(shell[p]) => p = s
      BY <1>3, <2>2, <2>3
    <3> QED BY <3>1, <3>2, <3>3
  <2>4. CASE f # Aim(c)
    BY <1>3, <1>8, <1>9, <2>1, <2>2, <2>4
  <2> QED BY <2>3, <2>4
<1> QED BY <1>5, <1>10, <1>11, <1>12, <1>13, <1>14, Zenon DEF Changed

\* What a step of any command does to a file: nothing, or it is torn by a command whose
\* next write it is, or gets the text of that write.
LEMMA FileStep ==
  ASSUME ShellInv, NEW s \in Shells, StepOf(s), NEW f \in CliFiles
  PROVE  \/ files'[f] = files[f]
         \/ /\ shell[s].due # <<>> /\ Aim(shell[s]) = f /\ files'[f].text \in {"torn", "whole"}
            /\ files'[f].text = "whole" => files'[f].holds = Head(shell[s].due)[2]
<1> DEFINE c == shell[s]
           d == shell'[s]
<1>1. Changed(s, c, d) /\ CommandShape(c)
  BY Zenon DEF StepOf, ShellInv
<1>2. c.at \in {"opening", "writing"} => c.due # <<>>
  BY <1>1 DEF CommandShape
<1>3. CASE Begun(c, d) \/ Decided(c, d) \/ Stopped(c, d)
  BY <1>3, Zenon DEF Begun, Decided, Stopped
<1>4. CASE Truncated(c, d)
  <2>1. /\ c.at = "opening" /\ files'[Aim(c)].text = "torn"
        /\ f # Aim(c) => files'[f] = files[f]
    BY <1>4, Zenon DEF Truncated
  <2> QED BY <1>2, <2>1
<1>5. CASE Written(c, d)
  <2>1. /\ c.at = "writing" /\ files'[Aim(c)].text \in {"torn", "whole"}
        /\ files'[Aim(c)].text = "whole" => files'[Aim(c)].holds = Head(c.due)[2]
        /\ f # Aim(c) => files'[f] = files[f]
    BY <1>5, Zenon DEF Written
  <2> QED BY <1>2, <2>1
<1> QED BY <1>1, <1>3, <1>4, <1>5, Zenon DEF Changed

\* A manifest whose directory no other name has is that of its name, and is there once
\* an init of the name has got past writing it.
InitInv ==
  \A n \in SpaceNames : (\A m \in SpaceNames : SlugOf[m] = SlugOf[n] => m = n) =>
    /\ files[ManifestOf(n)].text = "whole" => files[ManifestOf(n)].holds = <<n>>
    /\ \A s \in Shells : Past(shell[s]) /\ shell[s].on = n => files[ManifestOf(n)].text # "absent"

LEMMA InitStep ==
  ASSUME ShellInv, InitInv, NEW s \in Shells, StepOf(s)
  PROVE  InitInv'
<1> SUFFICES ASSUME NEW n \in SpaceNames, \A m \in SpaceNames : SlugOf[m] = SlugOf[n] => m = n
             PROVE  /\ files'[ManifestOf(n)].text = "whole" => files'[ManifestOf(n)].holds = <<n>>
                    /\ \A p \in Shells : Past(shell'[p]) /\ shell'[p].on = n
                                         => files'[ManifestOf(n)].text # "absent"
  BY Zenon DEF InitInv
<1> DEFINE c == shell[s]
           d == shell'[s]
           M == ManifestOf(n)
<1>1. Changed(s, c, d) /\ CommandShape(c) /\ CommandShape(d) /\ \A p \in Shells : p # s => shell'[p] = shell[p]
  BY Zenon DEF StepOf, ShellInv
<1>2. /\ files[M].text = "whole" => files[M].holds = <<n>>
      /\ \A p \in Shells : Past(shell[p]) /\ shell[p].on = n => files[M].text # "absent"
  BY Zenon DEF InitInv
<1>3. M \in CliFiles
  BY FilesApart
<1>4. c.due # <<>> /\ Aim(c) = M => c.op = "init" /\ c.on = n /\ Head(c.due)[2] = <<n>>
  <2> HIDE DEF c
  <2>1. c.due # <<>> /\ Aim(c) = M => c.op = "init" /\ SlugOf[c.on] = SlugOf[n] /\ Head(c.due)[2] = <<c.on>>
    BY <1>1, FirstDue, Zenon DEF Aim
  <2>2. c.op = "init" => c.on \in SpaceNames
    BY <1>1 DEF CommandShape
  <2> QED BY <2>1, <2>2
<1>5. \/ files'[M] = files[M]
      \/ /\ c.due # <<>> /\ Aim(c) = M /\ files'[M].text \in {"torn", "whole"}
         /\ files'[M].text = "whole" => files'[M].holds = Head(c.due)[2]
  BY <1>3, FileStep, Zenon
<1>6. files'[M].text = "whole" => files'[M].holds = <<n>>
  BY <1>2, <1>4, <1>5
<1>7. \/ files'[M] = files[M]
      \/ files'[M].text # "absent"
  BY <1>5
<1>8. ASSUME NEW p \in Shells, p # s, Past(shell'[p]), shell'[p].on = n
      PROVE  files'[M].text # "absent"
  <2>1. shell'[p] = shell[p]
    BY <1>1, <1>8, Zenon
  <2>2. Past(shell[p]) /\ shell[p].on = n
    BY <1>8, <2>1, Zenon
  <2> QED BY <1>2, <1>7, <1>8, <2>2, Zenon
<1>9. ASSUME Past(d), d.on = n
      PROVE  files'[M].text # "absent"
  <2>1. CASE Begun(c, d) \/ Decided(c, d) \/ Stopped(c, d)
    <3>1. IsTenantCommand(d) => ~Past(d)
      BY DEF IsTenantCommand, Past
    <3>2. Decided(c, d) => IsTenantCommand(d)
      BY Zenon DEF Decided, IsTenantCommand
    <3> QED BY <1>9, <2>1, <3>1, <3>2, Zenon DEF Begun, Stopped
  <2>2. CASE Truncated(c, d)
    <3>1. c.at = "opening" /\ d.at = "writing" /\ d.op = c.op /\ d.on = c.on /\ d.due = c.due
      BY <2>2, Zenon DEF Truncated
    <3>2. Past(c) /\ c.on = n
      BY <1>9, <3>1 DEF Past, Aim
    <3> QED BY <1>2, <1>7, <3>2, Zenon
  <2>3. CASE Written(c, d)
    <3>1. /\ c.at = "writing" /\ d.op = c.op /\ d.on = c.on
          /\ files'[Aim(c)].text \in {"torn", "whole"}
      BY <2>3, Zenon DEF Written
    <3>2. c.op = "init" /\ c.on = n /\ c.due # <<>>
      BY <1>1, <1>9, <3>1 DEF Past, CommandShape
    <3>3. CASE Aim(c) = M
      BY <3>1, <3>3
    <3>4. CASE Aim(c) # M
      <4>1. c.due = <<<<ConfigOf(n), <<n>>>>>>
        <5> HIDE DEF c, d
        <5> QED BY <1>1, <3>2, <3>4, FirstDue, Zenon DEF Aim
      <4>2. Aim(c) = ConfigOf(n)
        BY <4>1, OneDue DEF Aim
      <4>3. Past(c)
        BY <3>2, <4>2, Zenon DEF Past
      <4> QED BY <1>2, <1>7, <3>2, <4>3, Zenon
    <3> QED BY <3>3, <3>4
  <2> QED BY <1>1, <2>1, <2>2, <2>3, Zenon DEF Changed
<1> QED BY <1>6, <1>8, <1>9, Zenon

\* A whole configuration holds a name of its directory.
ConfigInv ==
  \A n \in SpaceNames : files[ConfigOf(n)].text = "whole" =>
    \E k \in SpaceNames : SlugOf[k] = SlugOf[n] /\ files[ConfigOf(n)].holds = <<k>>

LEMMA ConfigStep ==
  ASSUME ShellInv, ConfigInv, NEW s \in Shells, StepOf(s)
  PROVE  ConfigInv'
<1> SUFFICES ASSUME NEW n \in SpaceNames, files'[ConfigOf(n)].text = "whole"
             PROVE  \E k \in SpaceNames : SlugOf[k] = SlugOf[n] /\ files'[ConfigOf(n)].holds = <<k>>
  BY Zenon DEF ConfigInv
<1> DEFINE c == shell[s]
           C == ConfigOf(n)
<1>1. CommandShape(c) /\ C \in CliFiles
  BY FilesApart DEF ShellInv
<1>2. \/ files'[C] = files[C]
      \/ c.due # <<>> /\ Aim(c) = C /\ files'[C].holds = Head(c.due)[2]
  BY <1>1, FileStep, Zenon
<1>3. CASE files'[C] = files[C]
  BY <1>3, Zenon DEF ConfigInv
<1>4. CASE c.due # <<>> /\ Aim(c) = C /\ files'[C].holds = Head(c.due)[2]
  <2> HIDE DEF c
  <2>1. c.op = "init" /\ SlugOf[c.on] = SlugOf[n] /\ Head(c.due)[2] = <<c.on>>
    BY <1>1, <1>4, FirstDue, Zenon DEF Aim
  <2>2. c.on \in SpaceNames
    BY <1>1, <2>1 DEF CommandShape
  <2> QED BY <1>4, <2>1, <2>2, Zenon
<1> QED BY <1>2, <1>3, <1>4

\* While the registry is undisturbed, a command about to write it is going to write the
\* list that stands, changed by its own tenant; and but for the time of the write the
\* file is that list.
NextIds(c, ids) == IF c.op = "create" THEN Append(ids, c.on) ELSE Without(ids, c.on)
IdsOf(x) == IF x.text = "whole" THEN x.holds ELSE <<>>

RegistryInv ==
  RegistryFile \notin disturbed =>
    /\ \A s \in Shells : IsTenantCommand(shell[s]) /\ shell[s].at \in {"opening", "writing"}
                         => Head(shell[s].due)[2] = NextIds(shell[s], ledger)
    /\ (\A s \in Shells : ~(IsTenantCommand(shell[s]) /\ shell[s].at = "writing"))
         => IdsOf(files[RegistryFile]) = ledger

LEMMA RegistryStep ==
  ASSUME ShellInv, AloneInv, RegistryInv, NEW s \in Shells, StepOf(s)
  PROVE  RegistryInv'
<1> DEFINE R == RegistryFile
           c == shell[s]
           d == shell'[s]
           Due(x) == IsTenantCommand(x) /\ x.at \in {"opening", "writing"}
           Writes(x) == IsTenantCommand(x) /\ x.at = "writing"
<1> SUFFICES ASSUME R \notin disturbed'
             PROVE  /\ \A p \in Shells : Due(shell'[p]) => Head(shell'[p].due)[2] = NextIds(shell'[p], ledger')
                    /\ (\A p \in Shells : ~Writes(shell'[p])) => IdsOf(files'[R]) = ledger'
  BY Zenon DEF RegistryInv
<1>1. Changed(s, c, d) /\ CommandShape(c) /\ CommandShape(d) /\ \A p \in Shells : p # s => shell'[p] = shell[p]
  BY Zenon DEF StepOf, ShellInv
<1>2. R \notin disturbed
  BY Zenon DEF StepOf, Changed, Begun, Decided, Stopped, Truncated, Written
<1>3. /\ \A p \in Shells : Due(shell[p]) => Head(shell[p].due)[2] = NextIds(shell[p], ledger)
      /\ (\A p \in Shells : ~Writes(shell[p])) => IdsOf(files[R]) = ledger
  BY <1>2, Zenon DEF RegistryInv
<1>4. R \in CliFiles /\ FileAlone(R)
  BY <1>2, FilesApart, Zenon DEF AloneInv
<1>5. \A p \in Shells : IsTenantCommand(shell[p]) /\ Busy(shell[p]) /\ IsTenantCommand(c) /\ Busy(c) => p = s
  <2>1. \A p \in Shells : IsTenantCommand(shell[p]) => R \in Touches(shell[p])
    BY AimTouched, Zenon DEF ShellInv
  <2> QED BY <1>4, <2>1, Zenon DEF FileAlone
<1>6. \A p \in Shells : Due(shell[p]) => Busy(shell[p])
  BY DEF Busy
<1>7. /\ c.at \in {"opening", "writing"} => c.due # <<>>
      /\ c.due # <<>> => (Aim(c) = R <=> IsTenantCommand(c))
  <2>1. c.at \in {"opening", "writing"} => c.due # <<>>
    BY <1>1 DEF CommandShape
  <2> HIDE DEF c
  <2> QED BY <1>1, <2>1, FirstDue, Zenon DEF Aim
<1>8. ASSUME ledger' = ledger, Due(d) => Head(d.due)[2] = NextIds(d, ledger)
      PROVE  \A p \in Shells : Due(shell'[p]) => Head(shell'[p].due)[2] = NextIds(shell'[p], ledger')
  <2> SUFFICES ASSUME NEW p \in Shells, Due(shell'[p])
               PROVE  Head(shell'[p].due)[2] = NextIds(shell'[p], ledger)
    BY <1>8, Zenon
  <2>1. CASE p = s
    BY <1>8, <2>1, Zenon
  <2>2. CASE p # s
    <3>1. shell'[p] = shell[p]
      BY <1>1, <2>2, Zenon
    <3> QED BY <1>3, <3>1, Zenon
  <2> QED BY <2>1, <2>2
<1>9. ASSUME files'[R] = files[R], ledger' = ledger, Writes(c) => Writes(d)
      PROVE  (\A p \in Shells : ~Writes(shell'[p])) => IdsOf(files'[R]) = ledger'
  <2> SUFFICES ASSUME \A p \in Shells : ~Writes(shell'[p]) PROVE IdsOf(files[R]) = ledger
    BY <1>9, Zenon
  <2>1. ~Writes(c)
    BY <1>9, Zenon
  <2>2. ASSUME NEW p \in Shells, p # s PROVE ~Writes(shell[p])
    <3>1. shell'[p] = shell[p]
      BY <1>1, <2>2, Zenon
    <3> QED BY <3>1, Zenon
  <2> QED BY <1>3, <2>1, <2>2, Zenon
<1> HIDE DEF Due, Writes
<1>10. CASE Begun(c, d)
  <2>1. files' = files /\ ledger' = ledger /\ ~Busy(c) /\ d.at # "writing" /\ (d.at = "opening" => ~IsTenantCommand(d))
    BY <1>10, Zenon DEF Begun
  <2>2. ~Due(d) /\ ~Writes(c)
    BY <2>1 DEF Due, Writes, Busy
  <2> QED BY <1>8, <1>9, <2>1, <2>2, Zenon
<1>11. CASE Decided(c, d)
  <2>1. /\ files' = files /\ ledger' = ledger /\ c.at = "reading" /\ IsTenantCommand(c)
        /\ d.op = c.op /\ d.on = c.on
        /\ d.due = <<<<R, NextIds(c, ReadRegistry)>>>>
    BY <1>11, Zenon DEF Decided, NextIds
  <2>2. ReadRegistry = IdsOf(files[R])
    BY Zenon DEF ReadRegistry, IdsOf
  <2>3. \A p \in Shells : ~Writes(shell[p])
    <3>1. Busy(c) /\ ~Writes(c)
      BY <2>1 DEF Busy, Writes
    <3>2. \A p \in Shells : Writes(shell[p]) => IsTenantCommand(shell[p]) /\ Busy(shell[p])
      BY DEF Busy, Writes
    <3> QED BY <1>5, <2>1, <3>1, <3>2, Zenon
  <2>4. ReadRegistry = ledger
    BY <1>3, <2>2, <2>3, Zenon
  <2>5. Head(d.due)[2] = NextIds(c, ledger)
    <3> DEFINE w == <<R, NextIds(c, ledger)>>
    <3>1. w[2] = NextIds(c, ledger)
      OBVIOUS
    <3>2. d.due = <<w>>
      BY <2>1, <2>4, Zenon
    <3> HIDE DEF w
    <3> QED BY <3>1, <3>2, OneDue
  <2>6. NextIds(d, ledger) = NextIds(c, ledger)
    BY <2>1, Zenon DEF NextIds
  <2>7. ~Writes(c)
    BY <2>1 DEF Writes
  <2> QED BY <1>8, <1>9, <2>1, <2>5, <2>6, <2>7, Zenon
<1>12. CASE Stopped(c, d)
  <2>1. /\ files' = files /\ ledger' = ledger /\ d.at = "ended"
        /\ c.at = "writing" => Aim(c) # R
    BY <1>12, Zenon DEF Stopped
  <2>2. ~Due(d) /\ ~Writes(c)
    BY <1>7, <2>1 DEF Due, Writes
  <2> QED BY <1>8, <1>9, <2>1, <2>2, Zenon
<1>13. CASE Truncated(c, d)
  <2>1. /\ ledger' = ledger /\ c.at = "opening" /\ d.at = "writing" /\ d.op = c.op /\ d.on = c.on
        /\ d.due = c.due
        /\ R # Aim(c) => files'[R] = files[R]
    BY <1>4, <1>13, Zenon DEF Truncated
  <2>2. /\ IsTenantCommand(d) <=> IsTenantCommand(c)
        /\ Due(d) <=> Due(c)
        /\ NextIds(d, ledger) = NextIds(c, ledger)
        /\ ~Writes(c)
    BY <2>1 DEF IsTenantCommand, NextIds, Due, Writes
  <2>3. \A p \in Shells : Due(shell'[p]) => Head(shell'[p].due)[2] = NextIds(shell'[p], ledger')
    BY <1>3, <1>8, <2>1, <2>2, Zenon
  <2>4. (\A p \in Shells : ~Writes(shell'[p])) => IdsOf(files'[R]) = ledger'
    <3>1. CASE IsTenantCommand(c)
      <4>1. Writes(d)
        BY <2>1, <2>2, <3>1 DEF Writes
      <4> QED BY <4>1, Zenon
    <3>2. CASE ~IsTenantCommand(c)
      <4>1. R # Aim(c)
        BY <1>7, <2>1, <3>2
      <4> QED BY <1>9, <2>1, <2>2, <4>1, Zenon
    <3> QED BY <3>1, <3>2
  <2> QED BY <2>3, <2>4, Zenon
<1>14. CASE Written(c, d)
  <2>1. /\ c.at = "writing" /\ d.at \in {"ended", "opening"} /\ d.op = c.op /\ d.on = c.on
        /\ IsTenantCommand(c) => d.at = "ended"
        /\ R # Aim(c) => files'[R] = files[R]
        /\ files'[Aim(c)].text = "whole" => files'[Aim(c)].holds = Head(c.due)[2]
        /\ files[Aim(c)].text = "torn" => files'[Aim(c)].text = "whole"
        /\ ledger' = CASE c.op = "create" -> Append(ledger, c.on)
                       [] c.op = "delete" -> Without(ledger, c.on)
                       [] OTHER -> ledger
    BY <1>4, <1>14, Zenon DEF Written
  <2>2. ledger' = IF IsTenantCommand(c) THEN NextIds(c, ledger) ELSE ledger
    BY <2>1 DEF IsTenantCommand, NextIds
  <2>3. IsTenantCommand(d) <=> IsTenantCommand(c)
    BY <2>1 DEF IsTenantCommand
  <2>4. Busy(c)
    BY <2>1 DEF Busy
  <2>5. CASE IsTenantCommand(c)
    <3>1. Aim(c) = R
      BY <1>7, <2>1, <2>5
    <3>2. files[R].text = "torn"
      BY <1>4, <2>1, <3>1, Zenon DEF FileAlone
    <3>3. files'[R].text = "whole" /\ files'[R].holds = Head(c.due)[2]
      BY <2>1, <3>1, <3>2, Zenon
    <3>4. Head(c.due)[2] = NextIds(c, ledger)
      <4>1. Due(c)
        BY <2>1, <2>5 DEF Due
      <4> QED BY <1>3, <4>1, Zenon
    <3>5. IdsOf(files'[R]) = ledger'
      BY <2>2, <2>5, <3>3, <3>4, Zenon DEF IdsOf
    <3>6. ASSUME NEW p \in Shells PROVE ~Due(shell'[p])
      <4>1. CASE p = s
        BY <2>1, <2>5, <4>1 DEF Due
      <4>2. CASE p # s
        <5>1. shell'[p] = shell[p] /\ ~(IsTenantCommand(shell[p]) /\ Busy(shell[p]))
          BY <1>1, <1>5, <2>4, <2>5, <4>2, Zenon
        <5> QED BY <1>6, <5>1, Zenon DEF Due
      <4> QED BY <4>1, <4>2
    <3> QED BY <3>5, <3>6, Zenon
  <2>6. CASE ~IsTenantCommand(c)
    <3>1. Aim(c) # R
      BY <1>7, <2>1, <2>6
    <3>2. ~Due(d) /\ ~Writes(c)
      BY <2>3, <2>6, Zenon DEF Due, Writes
    <3> QED BY <1>8, <1>9, <2>1, <2>2, <2>6, <3>1, <3>2, Zenon
  <2> QED BY <2>5, <2>6
<1> QED BY <1>1, <1>10, <1>11, <1>12, <1>13, <1>14, Zenon DEF Changed

CommandsInv == ShellInv /\ AloneInv /\ InitInv /\ ConfigInv /\ RegistryInv

LEMMA CommandsBegin == CommandInit => CommandsInv
<1> SUFFICES ASSUME CommandInit PROVE CommandsInv
  OBVIOUS
<1>1. /\ \A f \in CliFiles : files[f] = [text |-> "absent", holds |-> <<>>]
      /\ files = [f \in CliFiles |-> files[f]]
      /\ shell = [s \in Shells |-> shell[s]] /\ \A s \in Shells : shell[s] = NoCommand
      /\ ledger = <<>>
  BY DEF CommandInit
<1> DEFINE x == [text |-> "absent", holds |-> <<>>]
<1>2. TextShape(x) /\ x.text = "absent"
  BY DEF TextShape
<1>3. CommandShape(NoCommand) /\ ~Busy(NoCommand) /\ NoCommand.at = "ready" /\ NoCommand.op = "none"
  <2> DEFINE d == NoCommand
  <2>1. d \in [at : {d.at}, op : {d.op}, on : {d.on}, due : {d.due}, exit : {d.exit}]
    BY DEF NoCommand
  <2>2. d.at = "ready" /\ d.op = "none" /\ d.due = <<>>
    BY DEF NoCommand
  <2> HIDE DEF d
  <2>3. CommandShape(d) /\ ~Busy(d)
    BY <2>1, <2>2 DEF CommandShape, IsTenantCommand, Busy
  <2> QED BY <2>2, <2>3 DEF d
<1>4. ~Past(NoCommand) /\ ~IsTenantCommand(NoCommand) /\ NoCommand.at # "writing"
  BY <1>3 DEF Past, IsTenantCommand
<1> HIDE DEF x
<1>5. /\ \A f \in CliFiles : files[f] = x /\ files[f].text = "absent" /\ files[f].text \notin {"torn", "whole"}
      /\ \A s \in Shells : /\ CommandShape(shell[s]) /\ ~Busy(shell[s]) /\ shell[s].at # "writing"
                           /\ ~Past(shell[s]) /\ ~IsTenantCommand(shell[s])
  <2>1. \A f \in CliFiles : files[f] = x
    BY <1>1, Zenon DEF x
  <2> QED BY <1>1, <1>2, <1>3, <1>4, <2>1
<1>6. ShellInv
  BY <1>1, <1>2, <1>5, Zenon DEF ShellInv
<1>7. AloneInv
  BY <1>5 DEF AloneInv, FileAlone
<1>8. InitInv /\ ConfigInv
  BY <1>5, FilesApart DEF InitInv, ConfigInv
<1>9. RegistryInv
  <2>1. IdsOf(files[RegistryFile]) = ledger
    BY <1>1, <1>5, FilesApart DEF IdsOf
  <2> QED BY <1>5, <2>1, Zenon DEF RegistryInv
<1> QED BY <1>6, <1>7, <1>8, <1>9 DEF CommandsInv

LEMMA CommandsStep == CommandsInv /\ [CommandNext]_commandVars => CommandsInv'
<1>1. ASSUME CommandsInv, CommandNext PROVE CommandsInv'
  <2>1. ShellInv /\ AloneInv /\ InitInv /\ ConfigInv /\ RegistryInv
    BY <1>1, Zenon DEF CommandsInv
  <2>2. PICK s \in Shells : StepOf(s)
    BY <1>1, <2>1, CommandSteps, Zenon
  <2>3. ShellInv'
    BY <2>2, Zenon DEF StepOf
  <2> QED BY <2>1, <2>2, <2>3, AloneStep, InitStep, ConfigStep, RegistryStep, Zenon DEF CommandsInv
<1>2. ASSUME CommandsInv, UNCHANGED commandVars PROVE CommandsInv'
  <2>1. files' = files /\ shell' = shell /\ ledger' = ledger /\ disturbed' = disturbed
    BY <1>2, Zenon DEF commandVars
  <2>2. ShellInv /\ AloneInv /\ InitInv /\ ConfigInv /\ RegistryInv
    BY <1>2, Zenon DEF CommandsInv
  <2>3. ShellInv' /\ RegistryInv'
    BY <2>1, <2>2, Zenon DEF ShellInv, RegistryInv
  <2>4. AloneInv'
    BY <2>1, <2>2, Zenon DEF AloneInv, FileAlone
  <2>5. InitInv' /\ ConfigInv'
    BY <2>1, <2>2, Zenon DEF InitInv, ConfigInv
  <2> QED BY <2>3, <2>4, <2>5, Zenon DEF CommandsInv
<1> QED BY <1>1, <1>2

\* Whoever is told that a workspace was initialised has a manifest of that name, whatever
\* other commands did beside, if no name has the same directory.
THEOREM InitIsFoundCorrect == CommandSpec => []InitIsFound
<1>1. CommandsInv => InitIsFound
  <2> SUFFICES ASSUME CommandsInv, NEW s \in Shells,
                      shell[s].op = "init", shell[s].at = "ended", shell[s].exit = 0,
                      \A m \in SpaceNames : SlugOf[m] = SlugOf[shell[s].on] => m = shell[s].on,
                      ManifestOf(shell[s].on) \notin disturbed,
                      \A p \in Shells : Working(p) /\ shell[p].due # <<>>
                                       => Target(p) # ManifestOf(shell[s].on)
               PROVE  files[ManifestOf(shell[s].on)] = [text |-> "whole", holds |-> <<shell[s].on>>]
    BY Zenon DEF InitIsFound, ManifestOf
  <2> DEFINE n == shell[s].on
             M == ManifestOf(n)
             x == files[M]
  <2>1. ShellInv /\ AloneInv /\ InitInv
    BY Zenon DEF CommandsInv
  <2>2. n \in SpaceNames
    BY <2>1 DEF ShellInv, CommandShape
  <2>3. M \in CliFiles
    BY <2>2, FilesApart
  <2>4. Past(shell[s])
    BY Zenon DEF Past
  <2>5. x.text # "absent" /\ (x.text = "whole" => x.holds = <<n>>)
    BY <2>1, <2>2, <2>4, Zenon DEF InitInv
  <2>6. x.text # "torn"
    <3>1. ASSUME NEW p \in Shells, shell[p].at = "writing", Aim(shell[p]) = M PROVE FALSE
      <4>1. shell[p].due # <<>> /\ Working(p)
        BY <2>1, <3>1 DEF ShellInv, CommandShape, Working
      <4> QED BY <3>1, <4>1, Zenon DEF Aim, Target
    <3> QED BY <2>1, <2>3, <3>1, Zenon DEF AloneInv, FileAlone
  <2>7. TextShape(x)
    BY <2>1, <2>3, Zenon DEF ShellInv
  <2> HIDE DEF x
  <2>8. x.text = "whole" /\ x.holds = <<n>>
    BY <2>5, <2>6, <2>7 DEF TextShape
  <2>9. x = [text |-> "whole", holds |-> <<n>>]
    <3> HIDE DEF n
    <3> QED BY <2>7, <2>8 DEF TextShape
  <2> QED BY <2>9, Zenon DEF x
<1> QED BY <1>1, CommandsBegin, CommandsStep, PTL DEF CommandSpec

\* A configuration that is shown was written for the directory it is read from.
THEOREM ConfigIsOfSpaceCorrect == CommandSpec => []ConfigIsOfSpace
<1>1. CommandsInv => ConfigIsOfSpace
  <2> SUFFICES ASSUME ConfigInv, NEW m \in SpaceNames, NEW i \in DOMAIN ShownConfig(SlugOf[m])
               PROVE  SlugOf[ShownConfig(SlugOf[m])[i]] = SlugOf[m]
    BY Zenon DEF CommandsInv, ConfigIsOfSpace
  <2> DEFINE x == files[ConfigOf(m)]
  <2>1. ShownConfig(SlugOf[m]) = IF x.text = "whole" THEN x.holds ELSE <<>>
    BY Zenon DEF ShownConfig, ConfigOf
  <2>2. x.text = "whole"
    BY <2>1
  <2>3. PICK k \in SpaceNames : SlugOf[k] = SlugOf[m] /\ x.holds = <<k>>
    BY <2>2, Zenon DEF ConfigInv
  <2>4. ShownConfig(SlugOf[m]) = <<k>>
    BY <2>1, <2>2, <2>3
  <2>5. i = 1
    BY <2>4
  <2> QED BY <2>3, <2>4, <2>5
<1> QED BY <1>1, CommandsBegin, CommandsStep, PTL DEF CommandSpec

\* While the registry is undisturbed and nobody is in the middle of writing it, it lists
\* the tenants that stand by the answers given, in their order.
THEOREM TenantsAreKeptCorrect == CommandSpec => []TenantsAreKept
<1>1. CommandsInv => TenantsAreKept
  <2>1. ReadRegistry = IdsOf(files[RegistryFile])
    BY Zenon DEF ReadRegistry, IdsOf
  <2> QED BY <2>1, Zenon DEF CommandsInv, RegistryInv, TenantsAreKept
<1> QED BY <1>1, CommandsBegin, CommandsStep, PTL DEF CommandSpec

-----------------------------------------------------------------------------
(* Accounts                                                                *)

USE AccountsAssumption

LoginRecords ==
  [at : {"idle", "scan", "found", "in", "refused"}, as : Regs \cup {Nobody},
   pw : Passwords \cup {Nobody}, list : Seq(Regs), home : Regs \cup {Nobody},
   hash : Passwords \cup {Nobody}, own : BOOLEAN]

ChangeRecords ==
  [at : {"idle", "verify", "hash", "done", "refused"}, by : Regs \cup {Nobody},
   reset : BOOLEAN, over : SUBSET Passwords]

AccountsTyped ==
  /\ reg \in [Regs -> RegStates]
  /\ directory \in Seq(Regs)
  /\ hashes \in [Regs -> Passwords \cup {Nobody}]
  /\ audits \in [Regs -> SUBSET (Regs \cup Changes \cup MemberOps)]
  /\ login \in [Logins -> LoginRecords]
  /\ change \in [Changes -> ChangeRecords]
  /\ answered \in Seq(Changes)

\* What a registration has written when it has come so far.
RegistrationInv ==
  \A r \in Regs :
    /\ reg[r] \in {"enlisted", "user", "owner", "settings", "done"} => r \in Range(directory)
    /\ reg[r] \in {"user", "owner", "settings", "done"} => hashes[r] # Nobody
    /\ reg[r] \in {"idle", "opened", "enlisted"} => hashes[r] = Nobody
    /\ reg[r] \in {"settings", "done"} => r \in settled
    /\ reg[r] = "done" => r \in audits[r]

Confirmed == {c \in Changes : change[c].at = "done"}

\* A password comes into a table when its request is answered, and a request
\* knows only passwords of registrations and of requests answered before it.
PasswordInv ==
  /\ \A r \in Regs : hashes[r] \in Regs \cup Confirmed \cup {Nobody}
  /\ Range(answered) \subseteq Confirmed
  /\ \A c \in Changes : change[c].at \in {"verify", "hash", "done"} =>
       /\ change[c].by \in Regs /\ hashes[change[c].by] # Nobody
       /\ change[c].over \subseteq Regs \cup Confirmed
       /\ c \notin change[c].over
  /\ AnsweredPasswordHolds

\* The workspace of the account is in the list of a login that still looks for
\* it, and no other can be taken for it; a password that was replaced since does
\* not come back.
LoginInvOf(l) ==
  LET q == login[l] IN
    q.own =>
      /\ q.at # "idle" /\ q.as \in Regs /\ reg[q.as] = "done"
      /\ q.pw \in Regs \cup Confirmed
      /\ Distinct(q.as) =>
           /\ q.at = "scan" => q.as \in Range(q.list)
           /\ q.at \in {"found", "in"} => q.home = q.as
           /\ hashes[q.as] = q.pw =>
                q.at # "refused" /\ (q.at = "found" => q.hash = q.pw)

LoginInv == \A l \in Logins : LoginInvOf(l)

LEMMA RangeOfEmpty == Range(<<>>) = {}
  BY DEF Range

LEMMA RangeOfAppend ==
  ASSUME NEW S, NEW s \in Seq(S), NEW e \in S
  PROVE  Range(Append(s, e)) = Range(s) \cup {e}
<1>1. /\ DOMAIN Append(s, e) = 1 .. Len(s) + 1 /\ DOMAIN s = 1 .. Len(s)
      /\ \A i \in 1 .. Len(s) : Append(s, e)[i] = s[i]
      /\ Append(s, e)[Len(s) + 1] = e /\ Len(s) \in Nat
  OBVIOUS
<1>2. Range(Append(s, e)) \subseteq Range(s) \cup {e}
  BY <1>1 DEF Range
<1>3. Range(s) \subseteq Range(Append(s, e))
  BY <1>1 DEF Range
<1>4. e \in Range(Append(s, e))
  BY <1>1 DEF Range
<1> QED BY <1>2, <1>3, <1>4

LEMMA RangeOfTail ==
  ASSUME NEW S, NEW s \in Seq(S), NEW e \in Range(s), e # Head(s)
  PROVE  e \in Range(Tail(s))
<1>1. PICK i \in 1 .. Len(s) : e = s[i]
  BY DEF Range
<1>2. i # 1 /\ s # <<>>
  BY <1>1
<1>3. i - 1 \in DOMAIN Tail(s) /\ Tail(s)[i - 1] = s[i]
  BY <1>1, <1>2
<1> QED BY <1>1, <1>3 DEF Range

LEMMA InitAccounts ==
  AccountsInit => AccountsTyped /\ RegistrationInv /\ PasswordInv /\ LoginInv
<1> SUFFICES ASSUME AccountsInit
             PROVE  AccountsTyped /\ RegistrationInv /\ PasswordInv /\ LoginInv
  OBVIOUS
<1> USE DEF AccountsInit
<1>1. AccountsTyped
  BY DEF AccountsTyped, RegStates, NoLogin, NoChange, LoginRecords, ChangeRecords
<1>2. RegistrationInv
  BY DEF RegistrationInv
<1>3. PasswordInv
  BY RangeOfEmpty DEF PasswordInv, AnsweredPasswordHolds, NoChange
<1>4. LoginInv
  BY DEF LoginInv, LoginInvOf, NoLogin
<1> QED BY <1>1, <1>2, <1>3, <1>4

\* What each kind of request does to the tables and to the other requests.
LEMMA RegisterEffect ==
  ASSUME AccountsTyped, NEW r \in Regs, Register(r)
  PROVE  /\ reg[r] # "done" /\ reg' \in [Regs -> RegStates]
         /\ \A q \in Regs : q # r => reg'[q] = reg[q]
         /\ directory' \in Seq(Regs)
         /\ audits' \in [Regs -> SUBSET (Regs \cup Changes \cup MemberOps)]
         /\ UNCHANGED <<login, change, answered>>
         /\ \/ hashes' = hashes
            \/ reg[r] = "enlisted" /\ reg'[r] = "user" /\ hashes' = [hashes EXCEPT ![r] = r]
<1> USE DEF AccountsTyped, RegStates, RegStep
<1>1. CASE OpenFile(r)
  BY <1>1 DEF OpenFile
<1>2. CASE Enlist(r)
  BY <1>2 DEF Enlist
<1>3. CASE CreateUser(r)
  BY <1>3 DEF CreateUser
<1>4. CASE AddOwner(r)
  BY <1>4 DEF AddOwner
<1>5. CASE WriteLlmSettings(r)
  BY <1>5 DEF WriteLlmSettings
<1>6. CASE Registered(r)
  BY <1>6 DEF Registered
<1>7. CASE RegisterThrows(r)
  BY <1>7 DEF RegisterThrows
<1> QED BY <1>1, <1>2, <1>3, <1>4, <1>5, <1>6, <1>7 DEF Register

LEMMA MemberEffect ==
  ASSUME AccountsTyped, NEW m \in MemberOps, MemberRequest(m)
  PROVE  /\ UNCHANGED <<reg, directory, hashes, settled, bound, login, change, answered>>
         /\ audits' \in [Regs -> SUBSET (Regs \cup Changes \cup MemberOps)]
         /\ \A r \in Regs : audits[r] \subseteq audits'[r]
<1> USE DEF AccountsTyped, NotForMembers
<1>1. ASSUME NEW r \in Regs, BeginMemberOp(m, r) \/ RemoveMember(m, r)
      PROVE  UNCHANGED <<NotForMembers, audits>>
  BY <1>1 DEF BeginMemberOp, RemoveMember
<1>2. CASE Invite(m) \/ ChangeRole(m)
  BY <1>2 DEF Invite, ChangeRole, Apply
<1>3. CASE AuditMemberOp(m)
  BY <1>3 DEF AuditMemberOp
<1> QED BY <1>1, <1>2, <1>3 DEF MemberRequest

\* A restart ends what was under way.
LEMMA RestartEffect ==
  ASSUME AccountsTyped, Restart
  PROVE  /\ UNCHANGED <<directory, hashes, settled, audits, answered>>
         /\ reg' \in [Regs -> RegStates]
         /\ \A r \in Regs : reg'[r] = reg[r] \/ (reg[r] \notin {"idle", "done"} /\ reg'[r] = "failed")
         /\ login' = [l \in Logins |->
                        IF login[l].at \in {"scan", "found"} THEN NoLogin ELSE login[l]]
         /\ change' = [c \in Changes |->
                         IF change[c].at \in {"idle", "done", "refused"} THEN change[c]
                         ELSE [change[c] EXCEPT !.at = "refused", !.by = Nobody]]
<1> USE DEF AccountsTyped, RegStates
<1>1. /\ UNCHANGED <<directory, hashes, settled, audits, answered>>
      /\ reg' = [r \in Regs |-> IF reg[r] \in {"idle", "done"} THEN reg[r] ELSE "failed"]
      /\ login' = [l \in Logins |->
                     IF login[l].at \in {"scan", "found"} THEN NoLogin ELSE login[l]]
  BY DEF Restart
<1>2. change' = [c \in DOMAIN change |->
                  IF change[c].at \in {"idle", "in", "done", "refused"} THEN change[c]
                  ELSE [change[c] EXCEPT !.at = "refused", !.by = Nobody]]
  BY DEF Restart
<1>3. DOMAIN change = Changes /\ \A c \in Changes : change[c].at # "in"
  BY DEF ChangeRecords
<1>4. \A c \in Changes :
        change[c].at \in {"idle", "in", "done", "refused"} <=>
        change[c].at \in {"idle", "done", "refused"}
  BY <1>3
<1>5. change' = [c \in Changes |->
                  IF change[c].at \in {"idle", "done", "refused"} THEN change[c]
                  ELSE [change[c] EXCEPT !.at = "refused", !.by = Nobody]]
  BY <1>2, <1>3, <1>4
<1> QED BY <1>1, <1>5

LoginRequest(l) ==
  (\E r \in Regs, pw \in Passwords : BeginLogin(l, r, pw)) \/ ScanEntry(l) \/ FinishLogin(l)

ChangeRequest(c) ==
  \/ \E r \in Regs : BeginChange(c, r) \/ BeginReset(c, r)
  \/ \E ok \in BOOLEAN : Verify(c, ok)
  \/ SetPassword(c)

LEMMA AccountsCases ==
  ASSUME [AccountsNext]_accountVars
  PROVE  \/ UNCHANGED accountVars
         \/ \E r \in Regs : Register(r)
         \/ \E l \in Logins : LoginRequest(l)
         \/ \E c \in Changes : ChangeRequest(c)
         \/ \E m \in MemberOps : MemberRequest(m)
         \/ Restart
  BY Zenon DEF AccountsNext, LoginRequest, ChangeRequest

LEMMA AccountsTypedStep == AccountsTyped /\ [AccountsNext]_accountVars => AccountsTyped'
<1> SUFFICES ASSUME AccountsTyped, [AccountsNext]_accountVars PROVE AccountsTyped'
  OBVIOUS
<1>1. CASE UNCHANGED accountVars
  BY <1>1 DEF accountVars, AccountsTyped
<1>2. ASSUME NEW r \in Regs, Register(r) PROVE AccountsTyped'
  BY ZenonT(60), <1>2, RegisterEffect DEF AccountsTyped, Passwords
<1>3. ASSUME NEW l \in Logins, LoginRequest(l) PROVE AccountsTyped'
  <2>1. UNCHANGED NotForLogin
    BY <1>3 DEF LoginRequest, BeginLogin, ScanEntry, FinishLogin
  <2>2. ASSUME NEW q \in LoginRecords, login' = [login EXCEPT ![l] = q] PROVE AccountsTyped'
    BY <2>1, <2>2 DEF AccountsTyped, NotForLogin
  <2>3. login[l] \in LoginRecords
    BY DEF AccountsTyped
  <2>4. ASSUME NEW r \in Regs, NEW pw \in Passwords, BeginLogin(l, r, pw) PROVE AccountsTyped'
    <3> DEFINE q == [at |-> "scan", as |-> r, pw |-> pw, list |-> directory, home |-> Nobody,
                     hash |-> Nobody, own |-> reg[r] = "done" /\ hashes[r] = pw]
    <3>1. q \in LoginRecords
      BY DEF LoginRecords, AccountsTyped
    <3> QED BY <2>2, <2>4, <3>1 DEF BeginLogin
  <2>5. CASE ScanEntry(l)
    <3> DEFINE w == Head(login[l].list)
               q == IF KeyOf[w] = KeyOf[login[l].as] /\ HasUser(w, login[l].as)
                    THEN [login[l] EXCEPT !.at = "found", !.home = w, !.hash = hashes[w]]
                    ELSE [login[l] EXCEPT !.list = Tail(@)]
    <3>1. w \in Regs /\ Tail(login[l].list) \in Seq(Regs)
      BY <2>3, <2>5 DEF ScanEntry, LoginRecords
    <3>2. hashes[w] \in Passwords \cup {Nobody}
      BY <3>1 DEF AccountsTyped
    <3>3. q \in LoginRecords
      BY <2>3, <3>1, <3>2 DEF LoginRecords
    <3>4. login' = [login EXCEPT ![l] = q]
      BY <2>5, Zenon DEF ScanEntry
    <3> QED BY <2>2, <3>3, <3>4
  <2>6. CASE FinishLogin(l)
    <3>1. PICK at \in {"in", "refused"} : login' = [login EXCEPT ![l].at = at]
      BY <2>6 DEF FinishLogin
    <3>2. [login[l] EXCEPT !.at = at] \in LoginRecords
      BY <2>3 DEF LoginRecords
    <3> QED BY <2>2, <3>1, <3>2
  <2> QED BY <1>3, <2>4, <2>5, <2>6 DEF LoginRequest
<1>4. ASSUME NEW c \in Changes, ChangeRequest(c) PROVE AccountsTyped'
  <2>1. UNCHANGED <<reg, directory, login>>
    BY <1>4 DEF ChangeRequest, BeginChange, BeginReset, Verify, SetPassword, NotForChange
  <2>2. Regs \cup Range(answered) \subseteq Passwords
    BY DEF Range, Passwords, AccountsTyped
  <2>3. change[c] \in ChangeRecords
    BY DEF AccountsTyped
  <2>4. ASSUME NEW q \in ChangeRecords, change' = [change EXCEPT ![c] = q]
        PROVE  change' \in [Changes -> ChangeRecords]
    BY <2>4 DEF AccountsTyped
  <2>5. ASSUME NEW r \in Regs, BeginChange(c, r) \/ BeginReset(c, r) PROVE AccountsTyped'
    <3>1. PICK at \in {"verify", "hash", "refused"}, reset \in BOOLEAN :
            change' = [change EXCEPT ![c] =
              [at |-> at, by |-> r, reset |-> reset, over |-> Regs \cup Range(answered)]]
      BY <2>5 DEF BeginChange, BeginReset
    <3>2. [at |-> at, by |-> r, reset |-> reset, over |-> Regs \cup Range(answered)] \in ChangeRecords
      BY <2>2 DEF ChangeRecords
    <3>3. UNCHANGED <<hashes, audits, answered>>
      BY <2>5 DEF BeginChange, BeginReset
    <3> QED BY <2>1, <2>4, <3>1, <3>2, <3>3 DEF AccountsTyped
  <2>6. ASSUME NEW ok \in BOOLEAN, Verify(c, ok) PROVE AccountsTyped'
    <3>1. PICK at \in {"hash", "refused"} : change' = [change EXCEPT ![c].at = at]
      BY <2>6 DEF Verify
    <3>2. [change[c] EXCEPT !.at = at] \in ChangeRecords
      BY <2>3 DEF ChangeRecords
    <3>3. UNCHANGED <<hashes, audits, answered>>
      BY <2>6 DEF Verify
    <3> QED BY <2>1, <2>4, <3>1, <3>2, <3>3 DEF AccountsTyped
  <2>7. CASE SetPassword(c)
    <3>1. hashes' \in [Regs -> Passwords \cup {Nobody}]
      BY <2>7 DEF SetPassword, Passwords, AccountsTyped
    <3>2. audits' \in [Regs -> SUBSET (Regs \cup Changes \cup MemberOps)]
      <4>1. c \in Regs \cup Changes \cup MemberOps
        OBVIOUS
      <4>2. CASE change[c].reset
        BY <2>7, <4>1, <4>2 DEF SetPassword, AccountsTyped
      <4>3. CASE ~change[c].reset
        BY <2>7, <4>3 DEF SetPassword, AccountsTyped
      <4> QED BY <4>2, <4>3
    <3>3. answered' \in Seq(Changes)
      BY <2>7 DEF SetPassword, AccountsTyped
    <3>4. [change[c] EXCEPT !.at = "done"] \in ChangeRecords
      BY <2>3 DEF ChangeRecords
    <3>5. change' = [change EXCEPT ![c] = [change[c] EXCEPT !.at = "done"]]
      BY <2>7 DEF SetPassword
    <3> QED BY <2>1, <2>4, <3>1, <3>2, <3>3, <3>4, <3>5 DEF AccountsTyped
  <2> QED BY <1>4, <2>5, <2>6, <2>7 DEF ChangeRequest
<1>5. ASSUME NEW m \in MemberOps, MemberRequest(m) PROVE AccountsTyped'
  BY <1>5, MemberEffect DEF AccountsTyped
<1>6. CASE Restart
  <2>1. login' \in [Logins -> LoginRecords]
    <3>1. NoLogin \in LoginRecords
      BY DEF LoginRecords, NoLogin
    <3> QED BY <1>6, <3>1, RestartEffect DEF AccountsTyped
  <2>2. change' \in [Changes -> ChangeRecords]
    <3>1. \A q \in ChangeRecords : [q EXCEPT !.at = "refused", !.by = Nobody] \in ChangeRecords
      BY DEF ChangeRecords
    <3>2. \A c \in Changes : change[c] \in ChangeRecords
      BY DEF AccountsTyped
    <3>3. change' = [c \in Changes |->
                      IF change[c].at \in {"idle", "done", "refused"} THEN change[c]
                      ELSE [change[c] EXCEPT !.at = "refused", !.by = Nobody]]
      BY <1>6, RestartEffect
    <3>4. \A c \in Changes :
            (IF change[c].at \in {"idle", "done", "refused"} THEN change[c]
             ELSE [change[c] EXCEPT !.at = "refused", !.by = Nobody]) \in ChangeRecords
      BY <3>1, <3>2
    <3> QED BY <3>3, <3>4
  <2> QED BY <1>6, <2>1, <2>2, RestartEffect DEF AccountsTyped
<1> QED BY <1>1, <1>2, <1>3, <1>4, <1>5, <1>6, AccountsCases

LEMMA RegistrationStep ==
  AccountsTyped /\ RegistrationInv /\ PasswordInv /\ [AccountsNext]_accountVars => RegistrationInv'
<1> SUFFICES ASSUME AccountsTyped, RegistrationInv, PasswordInv, [AccountsNext]_accountVars
             PROVE  RegistrationInv'
  OBVIOUS
<1> USE DEF RegistrationInv
<1>1. CASE UNCHANGED accountVars
  BY <1>1 DEF accountVars
<1>2. ASSUME NEW r \in Regs, Register(r) PROVE RegistrationInv'
  <2> USE DEF AccountsTyped, RegStates, RegStep
  <2>1. CASE OpenFile(r)
    BY <2>1 DEF OpenFile
  <2>2. CASE Enlist(r)
    <3>1. Range(directory') = Range(directory) \cup {r}
      BY <2>2, RangeOfAppend DEF Enlist
    <3> QED BY <2>2, <3>1 DEF Enlist
  <2>3. CASE CreateUser(r)
    BY <2>3 DEF CreateUser
  <2>4. CASE AddOwner(r)
    BY <2>4 DEF AddOwner
  <2>5. CASE WriteLlmSettings(r)
    BY <2>5 DEF WriteLlmSettings
  <2>6. CASE Registered(r)
    BY <2>6 DEF Registered
  <2>7. CASE RegisterThrows(r)
    BY <2>7 DEF RegisterThrows
  <2> QED BY <1>2, <2>1, <2>2, <2>3, <2>4, <2>5, <2>6, <2>7 DEF Register
<1>3. ASSUME NEW l \in Logins, LoginRequest(l) PROVE RegistrationInv'
  BY <1>3 DEF LoginRequest, BeginLogin, ScanEntry, FinishLogin, NotForLogin
<1>4. ASSUME NEW c \in Changes, ChangeRequest(c) PROVE RegistrationInv'
  <2>1. CASE SetPassword(c)
    <3>1. change[c].by \in Regs /\ hashes[change[c].by] # Nobody
      BY <1>4, <2>1 DEF SetPassword, PasswordInv
    <3>2. /\ UNCHANGED <<reg, directory, settled>> /\ hashes' = [hashes EXCEPT ![change[c].by] = c]
          /\ \A r \in Regs : audits[r] \subseteq audits'[r]
      BY <2>1, <3>1 DEF SetPassword, NotForChange, AccountsTyped
    <3> QED BY <3>1, <3>2 DEF AccountsTyped
  <2>2. CASE ~SetPassword(c)
    BY <1>4, <2>2 DEF ChangeRequest, BeginChange, BeginReset, Verify, NotForChange
  <2> QED BY <2>1, <2>2
<1>5. ASSUME NEW m \in MemberOps, MemberRequest(m) PROVE RegistrationInv'
  BY <1>5, MemberEffect
<1>6. CASE Restart
  BY <1>6, RestartEffect
<1> QED BY <1>1, <1>2, <1>3, <1>4, <1>5, <1>6, AccountsCases

\* A registration puts the password it was given, and only where none was.
LEMMA PasswordStepOfRegister ==
  ASSUME AccountsTyped, RegistrationInv, PasswordInv, NEW r \in Regs, Register(r)
  PROVE  PasswordInv'
<1>1. change' = change /\ answered' = answered /\ Confirmed' = Confirmed
  BY RegisterEffect DEF Confirmed
<1>2. CASE hashes' = hashes
  BY <1>1, <1>2 DEF PasswordInv, AnsweredPasswordHolds
<1>3. CASE reg[r] = "enlisted" /\ hashes' = [hashes EXCEPT ![r] = r]
  <2>1. hashes[r] = Nobody
    BY <1>3 DEF RegistrationInv
  <2>2. \A c \in Changes : change[c].at \in {"verify", "hash", "done"} =>
          change[c].by \in Regs /\ change[c].by # r /\ hashes'[change[c].by] = hashes[change[c].by]
    BY <1>3, <2>1 DEF PasswordInv, AccountsTyped
  <2>3. \A q \in Regs : hashes'[q] \in Regs \cup Confirmed \cup {Nobody}
    BY <1>3 DEF PasswordInv, AccountsTyped
  <2> QED BY <1>1, <2>2, <2>3 DEF PasswordInv, AnsweredPasswordHolds
<1> QED BY <1>2, <1>3, RegisterEffect

LEMMA PasswordStepOfChange ==
  ASSUME AccountsTyped, PasswordInv, NEW c \in Changes, ChangeRequest(c)
  PROVE  PasswordInv'
<1>1. \A d \in Changes : d # c => change'[d] = change[d]
  BY DEF ChangeRequest, BeginChange, BeginReset, Verify, SetPassword, AccountsTyped
<1>2. ASSUME NEW r \in Regs, BeginChange(c, r) \/ BeginReset(c, r) PROVE PasswordInv'
  <2>1. UNCHANGED <<hashes, answered>> /\ change[c].at = "idle"
    BY <1>2 DEF BeginChange, BeginReset
  <2>2. /\ change'[c].over = Regs \cup Range(answered) /\ change'[c].by = r
        /\ change'[c].at \in {"verify", "hash", "refused"}
        /\ change'[c].at # "refused" => hashes[r] # Nobody
    BY <1>2 DEF BeginChange, BeginReset, Known, AccountsTyped
  <2>3. Confirmed' = Confirmed
    BY <1>1, <2>1, <2>2 DEF Confirmed
  <2>4. c \notin Confirmed
    BY <2>1 DEF Confirmed
  <2>5. ASSUME NEW d \in Changes, change'[d].at \in {"verify", "hash", "done"}
        PROVE  /\ change'[d].by \in Regs /\ hashes[change'[d].by] # Nobody
               /\ change'[d].over \subseteq Regs \cup Confirmed /\ d \notin change'[d].over
    BY <1>1, <2>2, <2>4, <2>5 DEF PasswordInv
  <2>6. \A d \in Changes : change'[d].at = "done" => d # c
    BY <2>2
  <2> QED BY <1>1, <2>1, <2>3, <2>5, <2>6 DEF PasswordInv, AnsweredPasswordHolds
<1>3. ASSUME NEW ok \in BOOLEAN, Verify(c, ok) PROVE PasswordInv'
  <2>1. UNCHANGED <<hashes, answered>> /\ change[c].at = "verify"
    BY <1>3 DEF Verify
  <2>2. change'[c].by = change[c].by /\ change'[c].over = change[c].over
        /\ change'[c].at \in {"hash", "refused"}
    BY <1>3 DEF Verify, AccountsTyped, ChangeRecords
  <2>3. Confirmed' = Confirmed
    BY <1>1, <2>1, <2>2 DEF Confirmed
  <2> QED BY <1>1, <2>1, <2>2, <2>3 DEF PasswordInv, AnsweredPasswordHolds
<1>4. CASE SetPassword(c)
  <2> DEFINE r == change[c].by
  <2>1. change[c].at = "hash" /\ r \in Regs /\ hashes[r] # Nobody
    BY <1>4 DEF SetPassword, PasswordInv
  <2>2. hashes' = [hashes EXCEPT ![r] = c] /\ answered' = Append(answered, c)
    BY <1>4 DEF SetPassword
  <2>3. change'[c].by = r /\ change'[c].over = change[c].over /\ change'[c].at = "done"
    BY <1>4 DEF SetPassword, AccountsTyped, ChangeRecords
  <2>4. Confirmed' = Confirmed \cup {c} /\ c \notin Confirmed /\ c \notin Regs
    BY <1>1, <2>1, <2>3 DEF Confirmed
  <2>5. Range(answered') = Range(answered) \cup {c}
    BY <2>2, RangeOfAppend DEF AccountsTyped
  <2>6. \A q \in Regs : hashes'[q] = IF q = r THEN c ELSE hashes[q]
    BY <2>1, <2>2 DEF AccountsTyped
  <2>7. c # Nobody
    OBVIOUS
  <2>8. ASSUME NEW d \in Changes, change'[d].at \in {"verify", "hash", "done"}
        PROVE  /\ change'[d].by \in Regs /\ hashes'[change'[d].by] # Nobody
               /\ change'[d].over \subseteq Regs \cup Confirmed' /\ d \notin change'[d].over
    BY <1>1, <2>1, <2>3, <2>4, <2>6, <2>7, <2>8 DEF PasswordInv
  <2>9. ASSUME NEW d \in Changes, change'[d].at = "done"
        PROVE  hashes'[change'[d].by] \notin change'[d].over
    <3>1. c \notin change'[d].over
      BY <1>1, <2>1, <2>3, <2>4, <2>9 DEF PasswordInv
    <3>2. CASE d = c
      BY <2>1, <2>3, <2>6, <3>1, <3>2
    <3>3. CASE d # c
      BY <1>1, <2>6, <2>8, <2>9, <3>1, <3>3 DEF PasswordInv, AnsweredPasswordHolds
    <3> QED BY <3>2, <3>3
  <2>10. \A q \in Regs : hashes'[q] \in Regs \cup Confirmed' \cup {Nobody}
    BY <2>4, <2>6 DEF PasswordInv
  <2>11. Range(answered') \subseteq Confirmed'
    BY <2>4, <2>5 DEF PasswordInv
  <2> QED BY <2>8, <2>9, <2>10, <2>11 DEF PasswordInv, AnsweredPasswordHolds
<1> QED BY <1>2, <1>3, <1>4 DEF ChangeRequest

LEMMA PasswordStep ==
  AccountsTyped /\ RegistrationInv /\ PasswordInv /\ [AccountsNext]_accountVars => PasswordInv'
<1> SUFFICES ASSUME AccountsTyped, RegistrationInv, PasswordInv, [AccountsNext]_accountVars
             PROVE  PasswordInv'
  OBVIOUS
<1>1. CASE UNCHANGED <<hashes, change, answered>>
  BY <1>1 DEF PasswordInv, AnsweredPasswordHolds, Confirmed
<1>2. CASE UNCHANGED accountVars
  BY <1>1, <1>2 DEF accountVars
<1>3. ASSUME NEW l \in Logins, LoginRequest(l) PROVE PasswordInv'
  BY <1>1, <1>3 DEF LoginRequest, BeginLogin, ScanEntry, FinishLogin, NotForLogin
<1>4. ASSUME NEW m \in MemberOps, MemberRequest(m) PROVE PasswordInv'
  BY <1>1, <1>4, MemberEffect
<1>5. CASE Restart
  <2>1. UNCHANGED <<hashes, answered>>
    BY <1>5, RestartEffect
  <2>2. \A c \in Changes :
          \/ change'[c] = change[c]
          \/ change'[c].at = "refused" /\ change[c].at \in {"verify", "hash"}
    <3>1. change' = [c \in Changes |->
                      IF change[c].at \in {"idle", "done", "refused"} THEN change[c]
                      ELSE [change[c] EXCEPT !.at = "refused", !.by = Nobody]]
      BY <1>5, RestartEffect
    <3>2. \A q \in ChangeRecords : [q EXCEPT !.at = "refused", !.by = Nobody].at = "refused"
      BY DEF ChangeRecords
    <3>3. \A q \in ChangeRecords :
            q.at \notin {"idle", "done", "refused"} => q.at \in {"verify", "hash"}
      BY DEF ChangeRecords
    <3>4. \A c \in Changes : change[c] \in ChangeRecords
      BY DEF AccountsTyped
    <3>5. \A c \in Changes :
            change[c].at \in {"idle", "done", "refused"} => change'[c] = change[c]
      BY <3>1
    <3>6. ASSUME NEW c \in Changes, change[c].at \notin {"idle", "done", "refused"}
          PROVE  change'[c].at = "refused" /\ change[c].at \in {"verify", "hash"}
      <4>1. change'[c] = [change[c] EXCEPT !.at = "refused", !.by = Nobody]
        BY <3>1, <3>6
      <4> QED BY <3>2, <3>3, <3>4, <3>6, <4>1
    <3> QED BY <3>5, <3>6
  <2>3. Confirmed' = Confirmed
    BY <2>2 DEF Confirmed
  <2> QED BY <2>1, <2>2, <2>3 DEF PasswordInv, AnsweredPasswordHolds
<1> QED BY <1>2, <1>3, <1>4, <1>5, PasswordStepOfRegister, PasswordStepOfChange, AccountsCases

\* A login that does not step is none the worse for a step of another request,
\* which brings no old password back.
LEMMA LoginKept ==
  ASSUME NEW l \in Logins, LoginInvOf(l), login'[l] = login[l], Confirmed \subseteq Confirmed',
         \A r \in Regs : reg[r] = "done" =>
           /\ reg'[r] = "done"
           /\ hashes'[r] = hashes[r] \/ hashes'[r] \notin Regs \cup Confirmed
  PROVE  LoginInvOf(l)'
<1> SUFFICES ASSUME login[l].own PROVE LoginInvOf(l)'
  BY DEF LoginInvOf
<1> USE DEF LoginInvOf
<1>1. /\ login[l].at # "idle" /\ login[l].as \in Regs /\ reg[login[l].as] = "done"
      /\ login[l].pw \in Regs \cup Confirmed
  OBVIOUS
<1>2. hashes'[login[l].as] = login[l].pw => hashes[login[l].as] = login[l].pw
  BY <1>1
<1> QED BY <1>1, <1>2 DEF Distinct

LEMMA LoginStepOfLogin ==
  ASSUME AccountsTyped, RegistrationInv, PasswordInv, LoginInv, NEW l \in Logins, LoginRequest(l)
  PROVE  LoginInv'
<1>1. UNCHANGED <<reg, hashes, change>> /\ Confirmed' = Confirmed
  BY DEF LoginRequest, BeginLogin, ScanEntry, FinishLogin, NotForLogin, Confirmed
<1>2. \A k \in Logins : k # l => login'[k] = login[k]
  BY DEF LoginRequest, BeginLogin, ScanEntry, FinishLogin, AccountsTyped
<1>3. \A k \in Logins : k # l => LoginInvOf(k)'
  BY <1>1, <1>2, LoginKept DEF LoginInv
<1>4. SUFFICES LoginInvOf(l)'
  BY <1>3 DEF LoginInv
<1>5. LoginInvOf(l) /\ login[l] \in LoginRecords
  BY DEF LoginInv, AccountsTyped
<1>6. ASSUME NEW r \in Regs, NEW pw \in Passwords, BeginLogin(l, r, pw) PROVE LoginInvOf(l)'
  <2> DEFINE own == reg[r] = "done" /\ hashes[r] = pw
             q == [at |-> "scan", as |-> r, pw |-> pw, list |-> directory, home |-> Nobody,
                   hash |-> Nobody, own |-> own]
  <2>1. login'[l] = q
    BY <1>6 DEF BeginLogin, AccountsTyped
  <2>2. login'[l].own => reg[r] = "done" /\ hashes[r] = pw
    <3>1. q.own = own
      <4> HIDE DEF own
      <4> QED OBVIOUS
    <3> QED BY <2>1, <3>1, Zenon
  <2>3. reg[r] = "done" /\ hashes[r] = pw =>
          r \in Range(directory) /\ pw \in Regs \cup Confirmed
    BY DEF RegistrationInv, PasswordInv
  <2>4. login'[l].at = "scan" /\ login'[l].as = r /\ login'[l].pw = pw /\ login'[l].list = directory
    BY <2>1
  <2> QED BY <1>1, <2>2, <2>3, <2>4 DEF LoginInvOf
<1>7. CASE ScanEntry(l)
  <2> DEFINE q == login[l]
             w == Head(q.list)
  <2>0. q.at = "scan" /\ q.list # <<>> /\ q.list \in Seq(Regs) /\ w \in Regs
    BY <1>5, <1>7 DEF ScanEntry, LoginRecords
  <2>1. CASE KeyOf[w] = KeyOf[q.as] /\ HasUser(w, q.as)
    <3>1. login'[l] = [q EXCEPT !.at = "found", !.home = w, !.hash = hashes[w]]
      BY <1>7, <2>1 DEF ScanEntry, AccountsTyped
    <3>2. /\ login'[l].at = "found" /\ login'[l].home = w /\ login'[l].hash = hashes[w]
          /\ login'[l].own = q.own /\ login'[l].as = q.as /\ login'[l].pw = q.pw
      BY <1>5, <3>1 DEF LoginRecords
    <3>3. Distinct(q.as) /\ q.as \in Regs => w = q.as
      BY <2>0, <2>1 DEF Distinct, HasUser
    <3> QED BY <1>1, <1>5, <3>2, <3>3 DEF LoginInvOf, Distinct
  <2>2. CASE ~(KeyOf[w] = KeyOf[q.as] /\ HasUser(w, q.as))
    <3>1. login'[l] = [q EXCEPT !.list = Tail(q.list)]
      BY <1>7, <2>2 DEF ScanEntry, AccountsTyped
    <3>2. /\ login'[l].at = "scan" /\ login'[l].list = Tail(q.list)
          /\ login'[l].own = q.own /\ login'[l].as = q.as /\ login'[l].pw = q.pw
      BY <1>5, <2>0, <3>1 DEF LoginRecords
    <3>3. q.own => w # q.as
      BY <1>5, <2>2 DEF LoginInvOf, HasUser, RegistrationInv
    <3>4. q.own /\ q.as \in Range(q.list) => q.as \in Range(Tail(q.list))
      BY <2>0, <3>3, RangeOfTail
    <3> QED BY <1>1, <1>5, <2>0, <3>2, <3>4 DEF LoginInvOf, Distinct
  <2> QED BY <2>1, <2>2
<1>8. CASE FinishLogin(l)
  <2> DEFINE q == login[l]
  <2>1. PICK at \in {"in", "refused"} :
          /\ login' = [login EXCEPT ![l].at = at]
          /\ \/ q.at = "scan" /\ q.list = <<>> /\ at = "refused"
             \/ q.at = "found" /\ at = IF q.hash = q.pw THEN "in" ELSE "refused"
    BY <1>8 DEF FinishLogin
  <2>2. /\ login'[l].at = at /\ login'[l].own = q.own /\ login'[l].as = q.as
        /\ login'[l].pw = q.pw /\ login'[l].home = q.home
    BY <1>5, <2>1 DEF LoginRecords, AccountsTyped
  <2> QED BY <1>1, <1>5, <2>1, <2>2, RangeOfEmpty DEF LoginInvOf, Distinct
<1> QED BY <1>6, <1>7, <1>8 DEF LoginRequest

LEMMA LoginStep ==
  AccountsTyped /\ RegistrationInv /\ PasswordInv /\ LoginInv /\ [AccountsNext]_accountVars
    => LoginInv'
<1> SUFFICES ASSUME AccountsTyped, RegistrationInv, PasswordInv, LoginInv,
                    [AccountsNext]_accountVars
             PROVE  LoginInv'
  OBVIOUS
<1>1. CASE UNCHANGED <<reg, hashes, login, change>>
  BY <1>1 DEF LoginInv, LoginInvOf, Confirmed, Distinct
<1>2. CASE UNCHANGED accountVars
  BY <1>1, <1>2 DEF accountVars
<1>3. ASSUME NEW r \in Regs, Register(r) PROVE LoginInv'
  <2>1. \A q \in Regs : reg[q] = "done" => reg'[q] = "done" /\ hashes'[q] = hashes[q]
    BY <1>3, RegisterEffect DEF AccountsTyped
  <2>2. login' = login /\ Confirmed' = Confirmed
    BY <1>3, RegisterEffect DEF Confirmed
  <2> QED BY <2>1, <2>2, LoginKept DEF LoginInv
<1>4. ASSUME NEW c \in Changes, ChangeRequest(c) PROVE LoginInv'
  <2>1. reg' = reg /\ login' = login
    BY <1>4 DEF ChangeRequest, BeginChange, BeginReset, Verify, SetPassword, NotForChange
  <2>2. Confirmed \subseteq Confirmed'
    BY <1>4 DEF ChangeRequest, BeginChange, BeginReset, Verify, SetPassword, Confirmed,
                AccountsTyped
  <2>3. \A q \in Regs : hashes'[q] = hashes[q] \/ hashes'[q] \notin Regs \cup Confirmed
    <3>1. CASE SetPassword(c)
      <4>1. c \notin Regs /\ c \notin Confirmed
        BY <3>1 DEF SetPassword, Confirmed
      <4> QED BY <3>1, <4>1 DEF SetPassword, AccountsTyped
    <3>2. CASE ~SetPassword(c)
      BY <1>4, <3>2 DEF ChangeRequest, BeginChange, BeginReset, Verify
    <3> QED BY <3>1, <3>2
  <2> QED BY <2>1, <2>2, <2>3, LoginKept DEF LoginInv
<1>5. ASSUME NEW m \in MemberOps, MemberRequest(m) PROVE LoginInv'
  BY <1>1, <1>5, MemberEffect
<1>6. CASE Restart
  <2>1. /\ hashes' = hashes
        /\ \A q \in Regs : reg[q] = "done" => reg'[q] = "done"
        /\ \A l \in Logins : login'[l] = NoLogin \/ login'[l] = login[l]
        /\ \A c \in Changes : change[c].at = "done" => change'[c] = change[c]
    BY <1>6, RestartEffect
  <2>2. Confirmed \subseteq Confirmed'
    BY <2>1 DEF Confirmed
  <2>3. \A l \in Logins : login'[l] = login[l] => LoginInvOf(l)'
    BY <2>1, <2>2, LoginKept DEF LoginInv
  <2>4. \A l \in Logins : login'[l] = NoLogin => LoginInvOf(l)'
    BY DEF LoginInvOf, NoLogin
  <2> QED BY <2>1, <2>3, <2>4 DEF LoginInv
<1> QED BY <1>2, <1>3, <1>4, <1>5, <1>6, LoginStepOfLogin, AccountsCases

\* An answered registration can be used by whoever made it, and no password comes
\* back that was answered before the change which replaced it began, for any
\* number of requests and restarts.
THEOREM AccountsHoldCorrect == AccountsSpec => []AccountsHold
<1> DEFINE Inv == AccountsTyped /\ RegistrationInv /\ PasswordInv /\ LoginInv
<1>1. AccountsInit => Inv
  BY InitAccounts
<1>2. Inv /\ [AccountsNext]_accountVars => Inv'
  BY AccountsTypedStep, RegistrationStep, PasswordStep, LoginStep
<1>3. Inv => AccountsHold
  <2> SUFFICES ASSUME Inv PROVE AccountsHold
    OBVIOUS
  <2>1. RegisteredIsWhole
    BY DEF RegistrationInv, RegisteredIsWhole
  <2>2. LoginFindsAccount
    BY DEF LoginInv, LoginInvOf, LoginFindsAccount
  <2> QED BY <2>1, <2>2 DEF PasswordInv, AccountsHold, AccountsAreUsable
<1> QED BY <1>1, <1>2, <1>3, PTL DEF AccountsSpec

-----------------------------------------------------------------------------
(* RateLimit.  A bucket lives from its first request to resetAt, a window      *)
(* later.  A span of one window meets at most two buckets, and each lets the   *)
(* limit pass.                                                                 *)

LEMMA LimitConstants ==
  /\ Window \in Nat \ {0}
  /\ \A k \in Keys : LimitOf(k) \in Nat \ {0}
  BY LimitAssumption DEF LimitOf

USE LimitConstants

\* The entries of a list of times that are not before `from`, and those of them
\* that are before `to`.
SinceAt(times, from) == {i \in DOMAIN times : times[i] >= from}
Hits(times, from, to) == {i \in DOMAIN times : times[i] >= from /\ times[i] < to}

LEMMA TimesAreFinite ==
  ASSUME NEW times \in Seq(Nat), NEW from, NEW to
  PROVE  /\ IsFiniteSet(SinceAt(times, from)) /\ Cardinality(SinceAt(times, from)) \in Nat
         /\ IsFiniteSet(Hits(times, from, to)) /\ Cardinality(Hits(times, from, to)) \in Nat
<1>1. IsFiniteSet(DOMAIN times)
  <2>1. DOMAIN times = 1 .. Len(times) /\ Len(times) \in Nat
    OBVIOUS
  <2> QED BY <2>1, FS_Interval
<1>2. SinceAt(times, from) \subseteq DOMAIN times /\ Hits(times, from, to) \subseteq DOMAIN times
  BY DEF SinceAt, Hits
<1>3. IsFiniteSet(SinceAt(times, from)) /\ IsFiniteSet(Hits(times, from, to))
  BY <1>1, <1>2, FS_Subset
<1> QED BY <1>3, FS_CardinalityType

\* A later start leaves fewer entries.
LEMMA FewerSince ==
  ASSUME NEW times \in Seq(Nat), NEW a \in Int, NEW b \in Int, a <= b
  PROVE  Cardinality(SinceAt(times, b)) <= Cardinality(SinceAt(times, a))
<1>1. SinceAt(times, b) \subseteq SinceAt(times, a)
  <2>1. \A i \in DOMAIN times : times[i] \in Nat
    OBVIOUS
  <2> QED BY <2>1 DEF SinceAt
<1> QED BY <1>1, TimesAreFinite, FS_Subset

LEMMA HitsAreSince ==
  ASSUME NEW times \in Seq(Nat), NEW a \in Int, NEW b \in Int, NEW c \in Int, a <= c
  PROVE  Cardinality(Hits(times, c, b)) <= Cardinality(SinceAt(times, a))
<1>1. Hits(times, c, b) \subseteq SinceAt(times, a)
  <2>1. \A i \in DOMAIN times : times[i] \in Nat
    OBVIOUS
  <2> QED BY <2>1 DEF SinceAt, Hits
<1> QED BY <1>1, TimesAreFinite, FS_Subset

\* What is in a span that begins before m is before m or since.
LEMMA HitsSplit ==
  ASSUME NEW times \in Seq(Nat), NEW a \in Int, NEW b \in Int, NEW c \in Int, NEW m \in Int, c <= a
  PROVE  Cardinality(Hits(times, a, b)) <=
           Cardinality(Hits(times, c, m)) + Cardinality(SinceAt(times, m))
<1> DEFINE H == Hits(times, c, m)
           S == SinceAt(times, m)
<1>1. Hits(times, a, b) \subseteq H \cup S
  <2>1. \A i \in DOMAIN times : times[i] \in Nat
    OBVIOUS
  <2> QED BY <2>1 DEF SinceAt, Hits
<1>2. IsFiniteSet(H) /\ IsFiniteSet(S)
  BY TimesAreFinite
<1> HIDE DEF H, S
<1>3. IsFiniteSet(H \cup S) /\ IsFiniteSet(H \cap S)
      /\ Cardinality(H \cup S) = Cardinality(H) + Cardinality(S) - Cardinality(H \cap S)
  BY <1>2, FS_Union, FS_Intersection
<1>4. /\ Cardinality(H) \in Nat /\ Cardinality(S) \in Nat /\ Cardinality(H \cap S) \in Nat
      /\ Cardinality(Hits(times, a, b)) <= Cardinality(H \cup S)
      /\ Cardinality(Hits(times, a, b)) \in Nat
  BY <1>1, <1>2, <1>3, FS_Subset, FS_CardinalityType, TimesAreFinite
<1>5. Cardinality(Hits(times, a, b)) <= Cardinality(H) + Cardinality(S)
  BY <1>3, <1>4
<1> QED BY <1>5 DEF H, S

LEMMA SinceOfAppend ==
  ASSUME NEW times \in Seq(Nat), NEW e \in Nat, NEW a \in Int, a <= e
  PROVE  Cardinality(SinceAt(Append(times, e), a)) = Cardinality(SinceAt(times, a)) + 1
<1> DEFINE n == Len(times)
<1>1. /\ DOMAIN times = 1 .. n /\ DOMAIN Append(times, e) = 1 .. n + 1 /\ n \in Nat
      /\ \A i \in 1 .. n : Append(times, e)[i] = times[i]
      /\ Append(times, e)[n + 1] = e
  OBVIOUS
<1>2. SinceAt(Append(times, e), a) = SinceAt(times, a) \cup {n + 1}
  BY <1>1 DEF SinceAt
<1>3. n + 1 \notin SinceAt(times, a)
  BY <1>1 DEF SinceAt
<1> QED BY <1>2, <1>3, TimesAreFinite, FS_AddElement

LEMMA HitsOfAppend ==
  ASSUME NEW times \in Seq(Nat), NEW e \in Nat, NEW a \in Int, NEW b \in Int, e < a \/ e >= b
  PROVE  Hits(Append(times, e), a, b) = Hits(times, a, b)
<1>1. /\ DOMAIN times = 1 .. Len(times) /\ DOMAIN Append(times, e) = 1 .. Len(times) + 1
      /\ \A i \in 1 .. Len(times) : Append(times, e)[i] = times[i]
      /\ Append(times, e)[Len(times) + 1] = e /\ Len(times) \in Nat
  OBVIOUS
<1> QED BY <1>1 DEF Hits

LimitTyped ==
  /\ now \in Nat
  /\ buckets \in [Keys -> [count : Nat, resetAt : Nat]]
  /\ passed \in [Keys -> Seq(Nat)] /\ counted \in [Keys -> Seq(Nat)]
  /\ denied \subseteq Keys

\* A bucket that counts from s on: what passed since is within its count and the
\* limit, what passed in the window before s is within the limit, and everything
\* passed by its end.
BucketHolds(s, count, limit, p, c) ==
  /\ s \in Nat
  /\ Cardinality(SinceAt(p, s)) <= count /\ Cardinality(SinceAt(p, s)) <= limit
  /\ Cardinality(Hits(p, s - Window, s)) <= limit
  /\ count <= Cardinality(SinceAt(c, s))
  /\ \A i \in DOMAIN p : p[i] <= s + Window

\* Without a bucket nothing passed in this tick, and no more than the limit within
\* the last window.
NoBucketHolds(at, limit, p) ==
  /\ Cardinality(SinceAt(p, at - Window)) <= limit
  /\ \A i \in DOMAIN p : p[i] < at

KeyInv(k) ==
  LET s == buckets[k].resetAt - Window IN
  /\ IF buckets[k].count > 0
     THEN s <= now /\ BucketHolds(s, buckets[k].count, LimitOf(k), passed[k], counted[k])
     ELSE NoBucketHolds(now, LimitOf(k), passed[k])
  /\ \A t \in Nat : Within(passed[k], t) <= 2 * LimitOf(k)

LimitInv == LimitTyped /\ (\A k \in Keys : KeyInv(k)) /\ DenialIsEarned

LEMMA NothingPassed ==
  ASSUME NEW from \in Int, NEW t \in Int
  PROVE  Cardinality(SinceAt(<<>>, from)) = 0 /\ Within(<<>>, t) = 0
<1>1. SinceAt(<<>>, from) = {} /\ Hits(<<>>, t, t + Window) = {}
  BY DEF SinceAt, Hits
<1> QED BY <1>1, FS_EmptySet DEF Within, Hits

LEMMA InitLimitInv == LimitInit => LimitInv
<1> SUFFICES ASSUME LimitInit PROVE LimitInv
  OBVIOUS
<1>1. LimitTyped
  BY DEF LimitInit, LimitTyped, NoBucket
<1>2. ASSUME NEW k \in Keys PROVE KeyInv(k)
  <2>1. /\ buckets[k].count = 0 /\ passed[k] = <<>> /\ now = 0
        /\ LimitOf(k) \in Nat
    BY <1>2 DEF LimitInit, NoBucket, LimitOf
  <2>2. \A t \in Nat : Within(passed[k], t) <= 2 * LimitOf(k)
    BY <2>1, NothingPassed
  <2>3. NoBucketHolds(now, LimitOf(k), passed[k])
    BY <2>1, NothingPassed DEF NoBucketHolds
  <2> QED BY <2>1, <2>2, <2>3 DEF KeyInv
<1>3. DenialIsEarned
  BY DEF LimitInit, DenialIsEarned
<1> QED BY <1>1, <1>2, <1>3 DEF LimitInv

\* The ways of a bucket: it is begun, counts, turns away, and ends.
LEMMA BucketBegins ==
  ASSUME NEW p \in Seq(Nat), NEW c \in Seq(Nat), NEW at \in Nat, NEW limit \in Nat \ {0},
         NoBucketHolds(at, limit, p)
  PROVE  BucketHolds(at, 1, limit, Append(p, at), Append(c, at))
<1> USE DEF NoBucketHolds
<1>1. Cardinality(SinceAt(Append(p, at), at)) = 1
  <2>1. SinceAt(p, at) = {}
    <3>1. \A i \in DOMAIN p : p[i] \in Nat
      OBVIOUS
    <3> QED BY <3>1 DEF SinceAt
  <2>2. Cardinality(SinceAt(p, at)) = 0
    BY <2>1, FS_EmptySet
  <2> QED BY <2>2, SinceOfAppend
<1>2. Cardinality(Hits(Append(p, at), at - Window, at)) <= limit
  <2>1. Hits(Append(p, at), at - Window, at) = Hits(p, at - Window, at)
    <3>1. at - Window \in Int /\ at >= at
      OBVIOUS
    <3> QED BY <3>1, HitsOfAppend
  <2>2. Cardinality(Hits(p, at - Window, at)) <= Cardinality(SinceAt(p, at - Window))
    BY HitsAreSince
  <2>3. Cardinality(Hits(p, at - Window, at)) \in Nat /\ Cardinality(SinceAt(p, at - Window)) \in Nat
    BY TimesAreFinite
  <2> QED BY <2>1, <2>2, <2>3
<1>3. 1 <= Cardinality(SinceAt(Append(c, at), at))
  <2>1. Cardinality(SinceAt(c, at)) \in Nat
    BY TimesAreFinite
  <2> QED BY <2>1, SinceOfAppend
<1>4. \A i \in DOMAIN Append(p, at) : Append(p, at)[i] <= at + Window
  <2>1. \A i \in DOMAIN p : p[i] \in Nat
    OBVIOUS
  <2> QED BY <2>1
<1> QED BY <1>1, <1>2, <1>3, <1>4 DEF BucketHolds

LEMMA BucketCounts ==
  ASSUME NEW p \in Seq(Nat), NEW c \in Seq(Nat), NEW at \in Nat, NEW limit \in Nat \ {0},
         NEW s \in Nat, NEW count \in Nat, BucketHolds(s, count, limit, p, c),
         s <= at, at <= s + Window, count + 1 <= limit
  PROVE  BucketHolds(s, count + 1, limit, Append(p, at), Append(c, at))
<1>1. /\ Cardinality(SinceAt(Append(p, at), s)) = Cardinality(SinceAt(p, s)) + 1
      /\ Cardinality(SinceAt(Append(c, at), s)) = Cardinality(SinceAt(c, s)) + 1
      /\ Hits(Append(p, at), s - Window, s) = Hits(p, s - Window, s)
  BY SinceOfAppend, HitsOfAppend
<1>2. Cardinality(SinceAt(p, s)) \in Nat /\ Cardinality(SinceAt(c, s)) \in Nat
  BY TimesAreFinite
<1>3. \A i \in DOMAIN Append(p, at) : Append(p, at)[i] <= s + Window
  <2>1. \A i \in DOMAIN p : p[i] <= s + Window
    BY DEF BucketHolds
  <2> QED BY <2>1
<1>4. /\ Cardinality(SinceAt(p, s)) <= count /\ count <= Cardinality(SinceAt(c, s))
      /\ Cardinality(Hits(p, s - Window, s)) <= limit
  BY DEF BucketHolds
<1>5. /\ Cardinality(SinceAt(Append(p, at), s)) <= count + 1
      /\ Cardinality(SinceAt(Append(p, at), s)) <= limit
      /\ count + 1 <= Cardinality(SinceAt(Append(c, at), s))
  BY <1>1, <1>2, <1>4
<1> QED BY <1>1, <1>3, <1>4, <1>5 DEF BucketHolds

LEMMA BucketDenies ==
  ASSUME NEW p \in Seq(Nat), NEW c \in Seq(Nat), NEW at \in Nat, NEW limit \in Nat \ {0},
         NEW s \in Nat, NEW count \in Nat, BucketHolds(s, count, limit, p, c), s <= at
  PROVE  BucketHolds(s, count + 1, limit, p, Append(c, at))
<1>1. Cardinality(SinceAt(Append(c, at), s)) = Cardinality(SinceAt(c, s)) + 1
  BY SinceOfAppend
<1>2. Cardinality(SinceAt(p, s)) \in Nat /\ Cardinality(SinceAt(c, s)) \in Nat
  BY TimesAreFinite
<1> QED BY <1>1, <1>2 DEF BucketHolds

LEMMA BucketEnds ==
  ASSUME NEW p \in Seq(Nat), NEW c \in Seq(Nat), NEW at \in Nat, NEW limit \in Nat,
         NEW s \in Nat, NEW count \in Nat, BucketHolds(s, count, limit, p, c), s + Window < at
  PROVE  NoBucketHolds(at, limit, p)
<1> USE DEF BucketHolds
<1>1. Cardinality(SinceAt(p, at - Window)) <= limit
  <2>1. Cardinality(SinceAt(p, at - Window)) <= Cardinality(SinceAt(p, s))
    BY FewerSince
  <2>2. Cardinality(SinceAt(p, at - Window)) \in Nat /\ Cardinality(SinceAt(p, s)) \in Nat
    BY TimesAreFinite
  <2> QED BY <2>1, <2>2
<1>2. \A i \in DOMAIN p : p[i] < at
  <2>1. \A i \in DOMAIN p : p[i] \in Nat /\ p[i] <= s + Window
    OBVIOUS
  <2> QED BY <2>1
<1> QED BY <1>1, <1>2 DEF NoBucketHolds

LEMMA NoBucketLater ==
  ASSUME NEW p \in Seq(Nat), NEW at \in Nat, NEW limit \in Nat, NoBucketHolds(at, limit, p)
  PROVE  NoBucketHolds(at + 1, limit, p)
<1> USE DEF NoBucketHolds
<1>1. Cardinality(SinceAt(p, at + 1 - Window)) <= limit
  <2>1. Cardinality(SinceAt(p, at + 1 - Window)) <= Cardinality(SinceAt(p, at - Window))
    <3>1. at - Window \in Int /\ at + 1 - Window \in Int /\ at - Window <= at + 1 - Window
      OBVIOUS
    <3> QED BY <3>1, FewerSince
  <2>2. /\ Cardinality(SinceAt(p, at + 1 - Window)) \in Nat
        /\ Cardinality(SinceAt(p, at - Window)) \in Nat
    BY TimesAreFinite
  <2> QED BY <2>1, <2>2
<1>2. \A i \in DOMAIN p : p[i] < at + 1
  <2>1. \A i \in DOMAIN p : p[i] \in Nat /\ p[i] < at
    OBVIOUS
  <2> QED BY <2>1
<1> QED BY <1>1, <1>2

\* A span that contains the present meets the bucket of the present and the window
\* before it.
LEMMA TwiceInASpan ==
  ASSUME NEW p \in Seq(Nat), NEW c, NEW at \in Nat, NEW limit \in Nat, NEW s \in Nat, NEW count,
         BucketHolds(s, count, limit, Append(p, at), c), s <= at,
         \A t \in Nat : Within(p, t) <= 2 * limit
  PROVE  \A t \in Nat : Within(Append(p, at), t) <= 2 * limit
<1> DEFINE q == Append(p, at)
<1> SUFFICES ASSUME NEW t \in Nat PROVE Cardinality(Hits(q, t, t + Window)) <= 2 * limit
  BY DEF Within, Hits
<1>0. q \in Seq(Nat)
  OBVIOUS
<1>1. CASE at < t \/ at >= t + Window
  <2>1. Hits(q, t, t + Window) = Hits(p, t, t + Window)
    BY <1>1, HitsOfAppend
  <2> QED BY <2>1 DEF Within, Hits
<1>2. CASE t <= at /\ at < t + Window
  <2>1. s - Window <= t
    BY <1>2
  <2>2. Cardinality(Hits(q, t, t + Window)) <=
          Cardinality(Hits(q, s - Window, s)) + Cardinality(SinceAt(q, s))
    <3>1. s - Window \in Int /\ t + Window \in Int
      OBVIOUS
    <3> HIDE DEF q
    <3> QED BY <1>0, <2>1, <3>1, HitsSplit
  <2>3. Cardinality(Hits(q, s - Window, s)) <= limit /\ Cardinality(SinceAt(q, s)) <= limit
    BY DEF BucketHolds
  <2>4. /\ Cardinality(Hits(q, t, t + Window)) \in Nat /\ Cardinality(SinceAt(q, s)) \in Nat
        /\ Cardinality(Hits(q, s - Window, s)) \in Nat
    BY <1>0, TimesAreFinite
  <2> HIDE DEF q
  <2> QED BY <2>2, <2>3, <2>4
<1> QED BY <1>1, <1>2

LEMMA CountKeeps ==
  ASSUME LimitInv, NEW k \in Keys, Count(k), now' = now
  PROVE  LimitInv'
<1> DEFINE limit == LimitOf(k)
           p == passed[k]
           c == counted[k]
           b == Current(k)
           s == b.resetAt - Window
<1>1. /\ now \in Nat /\ p \in Seq(Nat) /\ c \in Seq(Nat) /\ limit \in Nat \ {0}
      /\ buckets[k].count \in Nat /\ buckets[k].resetAt \in Nat
      /\ KeyInv(k)
  BY DEF LimitInv, LimitTyped
<1>2. /\ b.count \in Nat /\ b.resetAt \in Nat /\ s \in Nat /\ s <= now /\ now <= s + Window
      /\ \/ b.count = 0 /\ s = now /\ NoBucketHolds(now, limit, p)
         \/ b.count > 0 /\ BucketHolds(s, b.count, limit, p, c)
  <2>1. CASE buckets[k].count = 0 \/ Expired(buckets[k])
    <3>1. b = [count |-> 0, resetAt |-> now + Window]
      BY <2>1 DEF Current
    <3>2. b.count = 0 /\ b.resetAt = now + Window /\ s = now
      BY <1>1, <3>1
    <3>3. CASE buckets[k].count = 0
      BY <1>1, <3>2, <3>3 DEF KeyInv
    <3>4. CASE buckets[k].count > 0
      <4>1. buckets[k].resetAt < now
        BY <1>1, <2>1, <3>4 DEF Expired
      <4> DEFINE z == buckets[k].resetAt - Window
      <4>2. BucketHolds(z, buckets[k].count, limit, p, c)
        BY <3>4, <1>1 DEF KeyInv
      <4>3. z \in Nat /\ z + Window < now
        BY <1>1, <4>1, <4>2 DEF BucketHolds
      <4> HIDE DEF z, p, c, limit
      <4>4. NoBucketHolds(now, limit, p)
        BY <1>1, <4>2, <4>3, BucketEnds
      <4> QED BY <1>1, <3>2, <4>4
    <3> QED BY <1>1, <3>3, <3>4
  <2>2. CASE ~(buckets[k].count = 0 \/ Expired(buckets[k]))
    <3>1. b = buckets[k] /\ b.count > 0 /\ b.resetAt >= now
      BY <1>1, <2>2 DEF Current, Expired
    <3>2. BucketHolds(s, b.count, limit, p, c) /\ s <= now
      BY <1>1, <3>1 DEF KeyInv
    <3>3. s \in Nat
      BY <3>2 DEF BucketHolds
    <3> QED BY <1>1, <3>1, <3>2, <3>3
  <2> QED BY <2>1, <2>2
<1>3. /\ buckets' = [buckets EXCEPT ![k] = [count |-> b.count + 1, resetAt |-> b.resetAt]]
      /\ counted' = [counted EXCEPT ![k] = Append(c, now)]
      /\ IF b.count + 1 <= limit
         THEN passed' = [passed EXCEPT ![k] = Append(p, now)] /\ denied' = {}
         ELSE passed' = passed /\ denied' = {k}
  <2>1. [Current(k) EXCEPT !.count = @ + 1] = [count |-> b.count + 1, resetAt |-> b.resetAt]
    <3>1. \A r \in [count : Nat, resetAt : Nat] :
            [r EXCEPT !.count = @ + 1] = [count |-> r.count + 1, resetAt |-> r.resetAt]
      OBVIOUS
    <3>2. Current(k) \in [count : Nat, resetAt : Nat]
      BY <1>1 DEF Current, LimitInv, LimitTyped
    <3> QED BY <3>1, <3>2
  <2> QED BY <2>1 DEF Count, Allowed
<1>4. /\ BucketHolds(s, b.count + 1, limit, passed'[k], counted'[k])
      /\ \A t \in Nat : Within(passed'[k], t) <= 2 * limit
  <2>1. counted'[k] = Append(c, now)
    BY <1>3 DEF LimitInv, LimitTyped
  <2>2. \A t \in Nat : Within(p, t) <= 2 * limit
    BY <1>1 DEF KeyInv
  <2>3. CASE b.count + 1 <= limit
    <3>1. passed'[k] = Append(p, now)
      BY <1>3, <2>3 DEF LimitInv, LimitTyped
    <3> HIDE DEF s, b, p, c, limit
    <3>2. BucketHolds(s, b.count + 1, limit, Append(p, now), Append(c, now))
      BY <1>1, <1>2, <2>3, BucketBegins, BucketCounts
    <3>3. \A t \in Nat : Within(Append(p, now), t) <= 2 * limit
      BY <1>1, <1>2, <2>2, <3>2, TwiceInASpan
    <3> QED BY <2>1, <3>1, <3>2, <3>3
  <2>4. CASE ~(b.count + 1 <= limit)
    <3>1. passed'[k] = p /\ b.count > 0
      BY <1>1, <1>2, <1>3, <2>4
    <3> HIDE DEF s, b, p, c, limit
    <3>2. BucketHolds(s, b.count + 1, limit, p, Append(c, now))
      BY <1>1, <1>2, <3>1, BucketDenies
    <3> QED BY <2>1, <2>2, <3>1, <3>2
  <2> QED BY <2>3, <2>4
<1>5. LimitTyped'
  <2>1. [count |-> b.count + 1, resetAt |-> b.resetAt] \in [count : Nat, resetAt : Nat]
    BY <1>2
  <2>2. Append(p, now) \in Seq(Nat) /\ Append(c, now) \in Seq(Nat)
    BY <1>1
  <2> DEFINE r == [count |-> b.count + 1, resetAt |-> b.resetAt]
  <2>3. /\ now' \in Nat /\ buckets \in [Keys -> [count : Nat, resetAt : Nat]]
        /\ passed \in [Keys -> Seq(Nat)] /\ counted \in [Keys -> Seq(Nat)] /\ k \in Keys
    BY DEF LimitInv, LimitTyped
  <2> HIDE DEF r, s, b, p, c, limit
  <2>4. buckets' \in [Keys -> [count : Nat, resetAt : Nat]]
    BY <1>3, <2>1, <2>3 DEF r
  <2>5. passed' \in [Keys -> Seq(Nat)] /\ counted' \in [Keys -> Seq(Nat)] /\ denied' \subseteq Keys
    BY <1>3, <2>2, <2>3
  <2> QED BY <2>3, <2>4, <2>5 DEF LimitTyped
<1>6. ASSUME NEW j \in Keys PROVE KeyInv(j)'
  <2>1. CASE j = k
    <3>1. buckets'[k] = [count |-> b.count + 1, resetAt |-> b.resetAt]
      BY <1>3 DEF LimitInv, LimitTyped
    <3>2. /\ buckets'[k].count = b.count + 1 /\ buckets'[k].resetAt - Window = s
          /\ b.count + 1 > 0
      BY <1>2, <3>1
    <3> HIDE DEF s, b
    <3> QED BY <1>2, <1>4, <2>1, <3>2 DEF KeyInv, Within
  <2>2. CASE j # k
    <3>1. buckets'[j] = buckets[j] /\ passed'[j] = passed[j] /\ counted'[j] = counted[j]
      BY <1>3, <2>2 DEF LimitInv, LimitTyped
    <3>2. KeyInv(j)
      BY <1>6 DEF LimitInv
    <3> QED BY <3>1, <3>2 DEF KeyInv, Within, BucketHolds, NoBucketHolds, SinceAt, Hits
  <2> QED BY <2>1, <2>2
<1>7. DenialIsEarned'
  <2> SUFFICES ASSUME k \in denied' PROVE Cardinality(SinceAt(counted'[k], now - Window)) > limit
    BY <1>3 DEF DenialIsEarned, SinceAt
  <2>1. b.count + 1 > limit
    BY <1>1, <1>2, <1>3
  <2>2. b.count + 1 <= Cardinality(SinceAt(counted'[k], s))
    BY <1>4 DEF BucketHolds
  <2>3. counted'[k] \in Seq(Nat)
    BY <1>5 DEF LimitTyped
  <2>4. now - Window \in Int /\ s \in Int /\ now - Window <= s
    BY <1>1, <1>2
  <2> HIDE DEF s, b
  <2>5. Cardinality(SinceAt(counted'[k], s)) <= Cardinality(SinceAt(counted'[k], now - Window))
    BY <2>3, <2>4, FewerSince
  <2>6. /\ Cardinality(SinceAt(counted'[k], s)) \in Nat
        /\ Cardinality(SinceAt(counted'[k], now - Window)) \in Nat
    BY <2>3, TimesAreFinite
  <2> QED BY <1>1, <1>2, <2>1, <2>2, <2>5, <2>6
<1> QED BY <1>5, <1>6, <1>7 DEF LimitInv

LEMMA LimitInvStep == LimitInv /\ [LimitNext]_limitVars => LimitInv'
<1> SUFFICES ASSUME LimitInv, [LimitNext]_limitVars PROVE LimitInv'
  OBVIOUS
<1>0. \A k \in Keys : KeyInv(k)
  BY DEF LimitInv
<1>1. CASE UNCHANGED limitVars
  BY ZenonT(60), <1>1 DEF limitVars, LimitInv, LimitTyped, DenialIsEarned, KeyInv, Within, BucketHolds,
              NoBucketHolds, SinceAt, Hits
<1>2. ASSUME NEW k \in Keys, Count(k), now' = now PROVE LimitInv'
  BY <1>2, CountKeeps
<1>3. ASSUME NEW ip \in Ips, Arrive(ip) PROVE LimitInv'
  BY <1>2, <1>3 DEF Arrive, Keys
<1>4. ASSUME NEW w \in Workspaces, Verified(w) PROVE LimitInv'
  BY <1>2, <1>4 DEF Verified, Keys
<1>5. CASE Cleanup
  <2>1. /\ UNCHANGED <<now, passed, counted>> /\ denied' = {}
        /\ buckets' = [k \in Keys |-> IF Expired(buckets[k]) THEN NoBucket ELSE buckets[k]]
    BY <1>5 DEF Cleanup
  <2>2. LimitTyped'
    BY <2>1 DEF LimitInv, LimitTyped, NoBucket
  <2>3. ASSUME NEW k \in Keys PROVE KeyInv(k)'
    <3> DEFINE s == buckets[k].resetAt - Window
    <3>1. /\ now \in Nat /\ passed[k] \in Seq(Nat) /\ counted[k] \in Seq(Nat)
          /\ buckets[k].count \in Nat /\ buckets[k].resetAt \in Nat /\ LimitOf(k) \in Nat
      BY DEF LimitInv, LimitTyped
    <3>2. \A t \in Nat : Within(passed'[k], t) <= 2 * LimitOf(k)
      BY <1>0, <2>1 DEF KeyInv
    <3>3. CASE Expired(buckets[k])
      <4>1. buckets'[k].count = 0
        BY <2>1, <3>3 DEF NoBucket
      <4>2. NoBucketHolds(now, LimitOf(k), passed[k])
        <5>1. CASE buckets[k].count = 0
          BY <1>0, <3>1, <5>1 DEF KeyInv
        <5>2. CASE buckets[k].count > 0
          <6>1. BucketHolds(s, buckets[k].count, LimitOf(k), passed[k], counted[k])
            BY <1>0, <5>2 DEF KeyInv
          <6>2. s \in Nat /\ s + Window < now
            BY <3>1, <3>3, <6>1 DEF BucketHolds, Expired
          <6> HIDE DEF s
          <6> QED BY <3>1, <6>1, <6>2, BucketEnds
        <5> QED BY <3>1, <5>1, <5>2
      <4> QED BY <2>1, <3>2, <4>1, <4>2 DEF KeyInv, Within
    <3>4. CASE ~Expired(buckets[k])
      <4>1. buckets'[k] = buckets[k]
        BY <2>1, <3>4
      <4>2. KeyInv(k)
        BY <1>0
      <4> QED BY <2>1, <4>1, <4>2 DEF KeyInv, Within
    <3> QED BY <3>3, <3>4
  <2> QED BY <2>1, <2>2, <2>3 DEF LimitInv, DenialIsEarned
<1>6. CASE Tick
  <2>1. now' = now + 1 /\ denied' = {} /\ UNCHANGED <<buckets, passed, counted>>
    BY <1>6 DEF Tick
  <2>2. LimitTyped'
    BY <2>1 DEF LimitInv, LimitTyped
  <2>3. ASSUME NEW k \in Keys PROVE KeyInv(k)'
    <3>1. /\ now \in Nat /\ passed[k] \in Seq(Nat) /\ LimitOf(k) \in Nat
          /\ buckets[k].count \in Nat /\ buckets[k].resetAt \in Nat
      BY DEF LimitInv, LimitTyped
    <3>2. KeyInv(k)
      BY <1>0
    <3>3. CASE buckets[k].count > 0
      BY SMTT(30), <2>1, <3>1, <3>2, <3>3 DEF KeyInv, Within
    <3>4. CASE ~(buckets[k].count > 0)
      <4>1. NoBucketHolds(now + 1, LimitOf(k), passed[k])
        BY <3>1, <3>2, <3>4, NoBucketLater DEF KeyInv
      <4> QED BY <2>1, <3>2, <3>4, <4>1 DEF KeyInv, Within
    <3> QED BY <3>3, <3>4
  <2> QED BY <2>1, <2>2, <2>3 DEF LimitInv, DenialIsEarned
<1> QED BY <1>1, <1>3, <1>4, <1>5, <1>6 DEF LimitNext

\* In no span of a window is a key let pass more than twice its limit, for any
\* limits, window and number of clients.
THEOREM AtMostTwiceCorrect == LimitSpec => []AtMostTwice
<1>1. LimitInv => AtMostTwice
  <2> SUFFICES ASSUME LimitInv, NEW k \in Keys, NEW t \in 0 .. now
               PROVE  Within(passed[k], t) <= 2 * LimitOf(k)
    BY DEF AtMostTwice
  <2> QED BY DEF LimitInv, LimitTyped, KeyInv
<1> QED BY InitLimitInv, LimitInvStep, <1>1, PTL DEF LimitSpec

\* A client that keeps to the limit is never turned away.
THEOREM DenialIsEarnedCorrect == LimitSpec => []DenialIsEarned
<1>1. LimitInv => DenialIsEarned
  BY DEF LimitInv
<1> QED BY InitLimitInv, LimitInvStep, <1>1, PTL DEF LimitSpec

\* Together: the limiter stops what exceeds its limits and nothing else.
THEOREM LimitsHoldCorrect == LimitSpec => []LimitsHold
  BY AtMostTwiceCorrect, DenialIsEarnedCorrect, PTL DEF LimitsHold

-----------------------------------------------------------------------------
(* MCServer                                                                *)

\* In every step of the whole server at most one component moves, and it makes a step of
\* its own.
LEMMA StepOfComponents ==
  ASSUME [Next]_serverVars
  PROVE  /\ [LimitNext]_limitVars /\ [AccountsNext]_accountVars /\ [AclNext]_aclVars
         /\ [RecordsNext]_recordVars /\ [QueuesNext]_queueVars
         /\ [StartupNext]_startupVars /\ [GateNext]_gateVars /\ [CommandNext]_commandVars
<1> DEFINE Tables == limitVars' = limitVars /\ accountVars' = accountVars /\ aclVars' = aclVars
                     /\ recordVars' = recordVars
           Rest == queueVars' = queueVars /\ startupVars' = startupVars /\ gateVars' = gateVars
<1>1. CASE UNCHANGED serverVars
  <2>1. Tables /\ Rest /\ commandVars' = commandVars
    BY <1>1, Zenon DEF serverVars
  <2> QED BY <2>1, Zenon
<1>2. CASE TablesNext /\ commandVars' = commandVars
  <2>1. Rest
    BY <1>2, Zenon DEF TablesNext
  <2>2. /\ [LimitNext]_limitVars /\ [AccountsNext]_accountVars /\ [AclNext]_aclVars
        /\ [RecordsNext]_recordVars
    BY <1>2, Zenon DEF TablesNext, RecordsNext
  <2> QED BY <1>2, <2>1, <2>2, Zenon
<1>3. CASE ClaimsNext /\ Tables /\ commandVars' = commandVars
  <2>1. startupVars' = startupVars /\ gateVars' = gateVars
    BY <1>3, Zenon DEF ClaimsNext
  <2>2. QueuesNext
    BY <1>3, Zenon DEF ClaimsNext, QueuesNext
  <2> QED BY <1>3, <2>1, <2>2, Zenon
<1>4. CASE BootNext /\ Tables /\ commandVars' = commandVars
  <2>1. queueVars' = queueVars /\ gateVars' = gateVars
    BY <1>4, Zenon DEF BootNext
  <2>2. StartupNext
    BY <1>4, Zenon DEF BootNext, StartupNext
  <2> QED BY <1>4, <2>1, <2>2, Zenon
<1>5. CASE RequestNext /\ Tables /\ commandVars' = commandVars
  <2>1. queueVars' = queueVars /\ startupVars' = startupVars
    BY <1>5, Zenon DEF RequestNext
  <2>2. GateNext
    BY <1>5, Zenon DEF RequestNext, GateNext
  <2> QED BY <1>5, <2>1, <2>2, Zenon
<1>6. CASE ShellNext /\ Tables
  <2>1. Rest
    BY <1>6, Zenon DEF ShellNext
  <2>2. CommandNext
    BY <1>6, Zenon DEF ShellNext, CommandNext
  <2> QED BY <1>6, <2>1, <2>2, Zenon
<1>7. \/ UNCHANGED serverVars
      \/ TablesNext /\ commandVars' = commandVars
      \/ (ClaimsNext \/ BootNext \/ RequestNext) /\ Tables /\ commandVars' = commandVars
      \/ ShellNext /\ Tables
  BY Zenon DEF Next
<1> QED BY <1>1, <1>2, <1>3, <1>4, <1>5, <1>6, <1>7, Zenon

\* The server around the documents is its components side by side: every behaviour of it
\* is one of each of them, so that what is proved of a component holds of the server.
THEOREM ServerIsItsComponents ==
  Spec => /\ LimitSpec /\ AccountsSpec /\ AclSpec /\ RecordsSpec
          /\ QueuesSpec /\ StartupSpec /\ GateSpec /\ CommandSpec
<1>1. Init => /\ LimitInit /\ AccountsInit /\ AclInit /\ RecordsInit
              /\ QueuesInit /\ StartupInit /\ GateInit /\ CommandInit
  BY Zenon DEF Init
<1>2. Spec => LimitSpec
  BY <1>1, StepOfComponents, PTL DEF Spec, LimitSpec
<1>3. Spec => AccountsSpec
  BY <1>1, StepOfComponents, PTL DEF Spec, AccountsSpec
<1>4. Spec => AclSpec
  BY <1>1, StepOfComponents, PTL DEF Spec, AclSpec
<1>5. Spec => RecordsSpec
  BY <1>1, StepOfComponents, PTL DEF Spec, RecordsSpec
<1>6. Spec => QueuesSpec
  BY <1>1, StepOfComponents, PTL DEF Spec, QueuesSpec
<1>7. Spec => StartupSpec
  BY <1>1, StepOfComponents, PTL DEF Spec, StartupSpec
<1>8. Spec => GateSpec
  BY <1>1, StepOfComponents, PTL DEF Spec, GateSpec
<1>9. Spec => CommandSpec
  BY <1>1, StepOfComponents, PTL DEF Spec, CommandSpec
<1> QED BY <1>2, <1>3, <1>4, <1>5, <1>6, <1>7, <1>8, <1>9, PTL

\* For any constants: the server starts with the settings, plugins and passphrase it was
\* configured with; lets nothing past its gate but by the rules and tells the truth of
\* its health; keeps subscriptions and ratings as they were answered; and its command
\* line loses none of its files, whichever processes, requests and commands run beside.
THEOREM PromisesAreKeptCorrect == Spec => []PromisesAreKept
<1>1. StartupSpec => [](SettingsAreHeard /\ BuiltInsStay /\ OnePassphrase /\ SecretsAreMasked)
  BY SettingsAreHeardCorrect, BuiltInsStayCorrect, OnePassphraseCorrect, SecretsAreMaskedCorrect, PTL
<1>2. GateSpec => [](AdmittedByRules /\ RefusedForAReason /\ ReportIsTrue /\ CleanupIsWhole)
  BY AdmittedByRulesCorrect, RefusedForAReasonCorrect, ReportIsTrueCorrect, CleanupIsWholeCorrect, PTL
<1>3. RecordsSpec => [](LogTellsSubscriptions /\ OnlyAdminsSubscribe /\ RatingsAreFound)
  BY LogTellsSubscriptionsCorrect, OnlyAdminsSubscribeCorrect, RatingsAreFoundCorrect, PTL
<1>4. CommandSpec => [](TenantsAreKept /\ InitIsFound /\ ConfigIsOfSpace)
  BY TenantsAreKeptCorrect, InitIsFoundCorrect, ConfigIsOfSpaceCorrect, PTL
<1>5. /\ SettingsAreHeard /\ BuiltInsStay /\ OnePassphrase /\ SecretsAreMasked
      /\ AdmittedByRules /\ RefusedForAReason /\ ReportIsTrue /\ CleanupIsWhole
      /\ LogTellsSubscriptions /\ OnlyAdminsSubscribe /\ RatingsAreFound
      /\ TenantsAreKept /\ InitIsFound /\ ConfigIsOfSpace
      => PromisesAreKept
  BY Zenon DEF PromisesAreKept, StartsAsConfigured, GateHolds, RecordsAreKept, CommandsKeepFiles
<1> QED BY <1>1, <1>2, <1>3, <1>4, <1>5, ServerIsItsComponents, PTL
=============================================================================
