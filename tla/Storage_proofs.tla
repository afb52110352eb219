--------------------------- MODULE Storage_proofs ---------------------------
(***************************************************************************)
(* Proofs about what a workspace stores.  Both searches always reach what  *)
(* is stored, and keyword hits are right as long as documents have only    *)
(* been ingested again or only been deleted (KeywordIndex); readers of a   *)
(* stored file see the whole value of one put (LocalFileStorage); versions *)
(* stay a history, saved images whole and manifests complete (KeptFiles).  *)
(***************************************************************************)
EXTENDS KeywordIndex, LocalFileStorage, KeptFiles, FiniteSetTheorems, WellFoundedInduction, TLAPS

-----------------------------------------------------------------------------
(* KeptFiles                                                               *)

\* Every set of numbers that is not empty has a least one.
LEMMA LeastNat == ASSUME NEW T, T \subseteq Nat, T # {} PROVE \E n \in T : \A m \in T : n <= m
<1>1. IsWellFoundedOn(OpToRel(<, Nat), Nat)
  BY NatLessThanWellFounded
<1>2. OpToRel(<, Nat) = {p \in Nat \X Nat : p[1] < p[2]}
  BY Zenon DEF OpToRel
<1>3. IsWellFoundedOn({p \in Nat \X Nat : p[1] < p[2]}, Nat)
  BY <1>1, <1>2, Zenon
<1> DEFINE R == {p \in Nat \X Nat : p[1] < p[2]}
<1> HIDE DEF R
<1>4. IsWellFoundedOn(R, Nat)
  BY <1>3 DEF R
<1>5. \E n \in T : \A m \in T : <<m, n>> \notin R
  BY <1>4, WFMin, Zenon
<1>6. \A m, n \in T : <<m, n>> \notin R => n <= m
  BY DEF R
<1> QED BY <1>5, <1>6

\* Every set of numbers up to a bound that is not empty has a greatest one.
LEMMA GreatestNat ==
  ASSUME NEW n \in Nat, NEW T, T \subseteq 1 .. n, T # {}
  PROVE  \E k \in T : \A m \in T : m <= k
<1> DEFINE D == {n - k : k \in T}
<1>1. D \subseteq Nat
  <2>1. ASSUME NEW k \in T PROVE n - k \in Nat
    OBVIOUS
  <2> QED BY <2>1
<1>0. D # {}
  OBVIOUS
<1> HIDE DEF D
<1>2. PICK e \in D : \A m \in D : e <= m
  BY <1>0, <1>1, LeastNat
<1>3. PICK k \in T : e = n - k
  BY DEF D
<1>4. \A m \in T : n - k <= n - m
  BY <1>2, <1>3 DEF D
<1> QED BY <1>4


\* The documents of records; an idle call names one, whatever it is.
AnyDoc == VersionedDocs \cup {CHOOSE d \in VersionedDocs : TRUE}
Row == [doc : AnyDoc, version : Nat, status : {"current", "superseded"}, by : Appends]

\* The records of a document before a place.
Before(rs, d, n) == {k \in 1 .. n : rs[k].doc = d}

LEMMA BeforeIsFinite ==
  ASSUME NEW rs, NEW d, NEW n \in Nat
  PROVE  IsFiniteSet(Before(rs, d, n)) /\ Cardinality(Before(rs, d, n)) \in Nat
<1>1. IsFiniteSet(1 .. n)
  BY FS_Interval
<1> QED BY <1>1, FS_Subset, FS_CardinalityType DEF Before

\* In a history the last version of a document is the number of its records.
LEMMA LatestIsCount ==
  ASSUME NEW rs \in Seq(Row), IsHistory(rs), NEW d
  PROVE  Max({r.version : r \in OfDoc(rs, d)} \cup {0}) = Cardinality(Before(rs, d, Len(rs)))
<1> DEFINE n == Len(rs)
           I == Before(rs, d, n)
           V == {r.version : r \in OfDoc(rs, d)} \cup {0}
           c == Cardinality(I)
<1>1. n \in Nat /\ DOMAIN rs = 1 .. n
  OBVIOUS
<1>2. IsFiniteSet(I) /\ c \in Nat
  BY <1>1, BeforeIsFinite
<1>3. V = {rs[i].version : i \in I} \cup {0}
  BY <1>1 DEF OfDoc, Before
<1>4. ASSUME NEW i \in I
      PROVE  /\ Before(rs, d, i - 1) \subseteq I \ {i} /\ i - 1 \in Nat
             /\ rs[i].version = 1 + Cardinality(Before(rs, d, i - 1))
  <2>1. i \in 1 .. n /\ rs[i].doc = d
    BY DEF Before
  <2>2. rs[i].version = 1 + Cardinality({k \in 1 .. i - 1 : rs[k].doc = rs[i].doc})
    BY <1>1, <2>1 DEF IsHistory
  <2> QED BY <1>1, <2>1, <2>2 DEF Before
<1>5. ASSUME NEW i \in I PROVE rs[i].version \in Nat /\ rs[i].version <= c
  <2>1. IsFiniteSet(I \ {i}) /\ Cardinality(I \ {i}) = c - 1
    BY <1>2, FS_RemoveElement
  <2>2. Cardinality(Before(rs, d, i - 1)) <= Cardinality(I \ {i})
    BY <1>4, <2>1, FS_Subset
  <2>3. Cardinality(Before(rs, d, i - 1)) \in Nat
    BY <1>4, BeforeIsFinite
  <2> QED BY <1>2, <1>4, <2>1, <2>2, <2>3
<1>6. c \in V
  <2>1. CASE I = {}
    BY <2>1, <1>3, FS_EmptySet
  <2>2. CASE I # {}
    <3>1. PICK m \in I : \A k \in I : k <= m
      BY <2>2, <1>1, GreatestNat DEF Before
    <3>2. I \ {m} = Before(rs, d, m - 1)
      BY <3>1, <1>1 DEF Before
    <3>3. Cardinality(I \ {m}) = c - 1
      BY <1>2, FS_RemoveElement
    <3>4. rs[m].version = 1 + Cardinality(Before(rs, d, m - 1))
      BY <1>4, <3>1
    <3>4a. Cardinality(Before(rs, d, m - 1)) = c - 1
      BY <3>2, <3>3
    <3>4b. rs[m].version = c
      <4> HIDE DEF c
      <4> QED BY <1>2, <3>4, <3>4a
    <3> DEFINE W == {rs[i].version : i \in I}
    <3>5. rs[m].version \in W
      BY <3>1
    <3> HIDE DEF I, W, V
    <3>6. V = W \cup {0}
      BY <1>3 DEF W
    <3> QED BY <3>4b, <3>5, <3>6
  <2> QED BY <2>1, <2>2
<1>7. ASSUME NEW v \in V PROVE v \in Nat /\ v <= c
  <2>1. CASE v = 0
    BY <2>1, <1>2
  <2>2. ASSUME NEW i \in I, v = rs[i].version PROVE v \in Nat /\ v <= c
    BY <2>2, <1>5
  <2>3. v = 0 \/ \E i \in I : v = rs[i].version
    BY <1>3
  <2> QED BY <2>1, <2>2, <2>3
<1> HIDE DEF V, c
<1> QED BY <1>2, <1>6, <1>7 DEF Max, V, c

\* An append continues the history.
LEMMA HistoryGrows ==
  ASSUME NEW rs \in Seq(Row), IsHistory(rs), NEW d \in AnyDoc, NEW q \in Appends
  PROVE  /\ Appended(rs, d, q) \in Seq(Row) /\ IsHistory(Appended(rs, d, q))
         /\ \E i \in DOMAIN Appended(rs, d, q) : Appended(rs, d, q)[i].by = q
         /\ \A i \in DOMAIN rs : i \in DOMAIN Appended(rs, d, q) /\ Appended(rs, d, q)[i].by = rs[i].by
<1> DEFINE n == Len(rs)
           isCurrent == \E r \in OfDoc(rs, d) : r.status = "current"
           older == IF isCurrent THEN [i \in DOMAIN rs |-> [rs[i] EXCEPT !.status = "superseded"]]
                                 ELSE rs
           row == [doc |-> d, version |-> Cardinality(Before(rs, d, n)) + 1,
                   status |-> "current", by |-> q]
           new == Append(older, row)
<1>1. n \in Nat /\ DOMAIN rs = 1 .. n /\ \A i \in 1 .. n : rs[i] \in Row
  OBVIOUS
<1>2. Appended(rs, d, q) = new
  BY LatestIsCount DEF Appended
<1>3. row \in Row
  BY <1>1, BeforeIsFinite DEF Row
<1>4. /\ older \in Seq(Row) /\ Len(older) = n
      /\ \A i \in 1 .. n : older[i].doc = rs[i].doc /\ older[i].version = rs[i].version /\ older[i].by = rs[i].by
      /\ \A i \in 1 .. n : older[i].status = "current" => rs[i].status = "current" /\ rs[i].doc # d
  <2>1. CASE isCurrent
    <3>1. older = [i \in 1 .. n |-> [rs[i] EXCEPT !.status = "superseded"]]
      BY <2>1, <1>1
    <3>2. ASSUME NEW i \in 1 .. n
          PROVE  /\ older[i] \in Row /\ older[i].status = "superseded" /\ older[i].doc = rs[i].doc
                 /\ older[i].version = rs[i].version /\ older[i].by = rs[i].by
      BY <3>1, <1>1 DEF Row
    <3>3. older \in Seq(Row) /\ Len(older) = n
      BY <3>1, <3>2, <1>1
    <3> QED BY <3>2, <3>3
  <2>2. CASE ~isCurrent
    <3>1. older = rs
      BY <2>2
    <3>2. ASSUME NEW i \in 1 .. n, rs[i].doc = d PROVE rs[i].status # "current"
      BY <2>2, <3>2, <1>1 DEF OfDoc
    <3> HIDE DEF older
    <3> QED BY <3>1, <3>2, <1>1
  <2> QED BY <2>1, <2>2
<1> HIDE DEF older, isCurrent
<1>5. /\ new \in Seq(Row) /\ DOMAIN new = 1 .. n + 1 /\ new[n + 1] = row
      /\ \A i \in 1 .. n : new[i] = older[i]
  BY <1>1, <1>3, <1>4
<1> HIDE DEF new
<1>6. \A i \in 1 .. n + 1 : new[i].doc = IF i = n + 1 THEN d ELSE rs[i].doc
  BY <1>1, <1>4, <1>5
<1>7. ASSUME NEW i \in 1 .. n + 1
      PROVE  new[i].version = 1 + Cardinality({k \in 1 .. i - 1 : new[k].doc = new[i].doc})
  <2>1. CASE i = n + 1
    <3>1. {k \in 1 .. i - 1 : new[k].doc = new[i].doc} = Before(rs, d, n)
      BY <2>1, <1>1, <1>6 DEF Before
    <3>2. new[i].version = Cardinality(Before(rs, d, n)) + 1
      BY <2>1, <1>5
    <3>3. Cardinality(Before(rs, d, n)) \in Nat
      BY <1>1, BeforeIsFinite
    <3>4. new[i].version = 1 + Cardinality(Before(rs, d, n))
      <4> DEFINE b == Cardinality(Before(rs, d, n))
      <4>1. b \in Nat /\ new[i].version = b + 1
        BY <3>2, <3>3
      <4> HIDE DEF b
      <4>2. new[i].version = 1 + b
        BY <4>1
      <4> QED BY <4>2 DEF b
    <3> QED BY <3>1, <3>4
  <2>2. CASE i \in 1 .. n
    <3>1. {k \in 1 .. i - 1 : new[k].doc = new[i].doc} = {k \in 1 .. i - 1 : rs[k].doc = rs[i].doc}
      BY <2>2, <1>1, <1>6
    <3>2. rs[i].version = 1 + Cardinality({k \in 1 .. i - 1 : rs[k].doc = rs[i].doc})
      BY <2>2, <1>1 DEF IsHistory
    <3>3. new[i].version = rs[i].version
      BY <2>2, <1>4, <1>5
    <3> QED BY <3>1, <3>2, <3>3
  <2> QED BY <2>1, <2>2, <1>1
<1>8. ASSUME NEW i \in 1 .. n + 1, new[i].status = "current", NEW k \in 1 .. n + 1, k > i
      PROVE  new[k].doc # new[i].doc
  <2>1. i \in 1 .. n
    BY <1>8, <1>1
  <2>2. rs[i].status = "current" /\ rs[i].doc # d
    BY <2>1, <1>4, <1>5, <1>8
  <2>3. CASE k = n + 1
    BY <2>1, <2>2, <2>3, <1>1, <1>6
  <2>4. CASE k \in 1 .. n
    <3>1. \A a, b \in 1 .. n : rs[a].status = "current" /\ b > a => rs[b].doc # rs[a].doc
      BY <1>1 DEF IsHistory
    <3>2. rs[k].doc # rs[i].doc
      BY <2>1, <2>2, <2>4, <1>8, <3>1
    <3>3. new[k].doc = rs[k].doc /\ new[i].doc = rs[i].doc
      BY <2>1, <2>4, <1>1, <1>6
    <3> QED BY <3>2, <3>3
  <2>5. k = n + 1 \/ k \in 1 .. n
    BY <1>1
  <2> QED BY <2>3, <2>4, <2>5
<1>9. IsHistory(new)
  BY <1>5, <1>7, <1>8 DEF IsHistory
<1>10. new[n + 1].by = q /\ \A i \in 1 .. n : new[i].by = rs[i].by
  BY <1>4, <1>5
<1> QED BY <1>1, <1>2, <1>5, <1>9, <1>10

-----------------------------------------------------------------------------
\* What is in memory, in the file and on its way there are histories, and what a
\* call that finished its first part while no other read the file appended stays
\* in memory.
IsVersions(rs) == rs \in Seq(Row) /\ IsHistory(rs)

VersionInv ==
  /\ IsVersions(records) /\ IsVersions(versionFile.rows)
  /\ isArray \in BOOLEAN /\ loaded \in BOOLEAN /\ processes \in Nat
  /\ DOMAIN appends = Appends
  /\ \A q \in Appends :
       /\ appends[q].at \in {"new", "reading", "saving", "opening", "writing", "done", "thrown", "gone"}
       /\ appends[q].doc \in AnyDoc /\ IsVersions(appends[q].text) /\ appends[q].warm \in BOOLEAN
       /\ DOMAIN appends[q] = {"at", "doc", "text", "warm"}
       /\ appends[q].at \in {"new", "reading"} => ~appends[q].warm
       /\ appends[q].warm /\ appends[q].at \notin {"gone", "thrown"} =>
            /\ isArray /\ loaded /\ \E i \in DOMAIN records : records[i].by = q
            /\ \A p \in Appends : appends[p].at # "reading"

LEMMA EmptyIsHistory == IsVersions(<<>>)
BY DEF IsVersions, IsHistory

LEMMA VersionInit == KeptInit => VersionInv
<1> SUFFICES ASSUME KeptInit PROVE VersionInv
  OBVIOUS
<1>1. (CHOOSE d \in VersionedDocs : TRUE) \in AnyDoc
  BY DEF AnyDoc
<1>2. \A q \in Appends : /\ appends[q].at = "new" /\ appends[q].doc \in AnyDoc /\ appends[q].text = <<>>
                         /\ appends[q].warm = FALSE /\ DOMAIN appends[q] = {"at", "doc", "text", "warm"}
  BY <1>1 DEF KeptInit, IdleAppend
<1>3. DOMAIN appends = Appends /\ records = <<>> /\ versionFile.rows = <<>> /\ isArray = TRUE
      /\ loaded = FALSE /\ processes = 0
  BY DEF KeptInit
<1> QED BY <1>2, <1>3, EmptyIsHistory DEF VersionInv

\* What an append does to the records from which it begins.
LEMMA PushKeeps ==
  ASSUME VersionInv, NEW q \in Appends, NEW d \in AnyDoc, NEW rs, IsVersions(rs),
         NEW array \in BOOLEAN, PushVersion(q, d, rs, array), loaded' = TRUE,
         appends[q].at \in {"new", "reading"}, UNCHANGED <<versionFile, processes>>,
         \/ appends[q].at = "reading"
         \/ loaded /\ rs = records /\ array = isArray
  PROVE  VersionInv'
<1>1. /\ isArray' = array
      /\ appends' = [appends EXCEPT ![q] =
           [appends[q] EXCEPT !.at = IF array THEN "saving" ELSE "thrown", !.doc = d,
                 !.warm = \A p \in Appends \ {q} : appends[p].at # "reading"]]
      /\ records' = IF array THEN Appended(rs, d, q) ELSE rs
  BY DEF PushVersion
<1> DEFINE w == \A p \in Appends \ {q} : appends[p].at # "reading"
<1>2. /\ appends'[q].at = IF array THEN "saving" ELSE "thrown"
      /\ appends'[q].doc = d /\ appends'[q].text = appends[q].text
      /\ DOMAIN appends'[q] = {"at", "doc", "text", "warm"} /\ DOMAIN appends' = Appends
      /\ \A p \in Appends \ {q} : appends'[p] = appends[p]
  BY <1>1 DEF VersionInv
<1>3. appends'[q].warm = w
  BY <1>1 DEF VersionInv
<1>4. /\ IsVersions(records')
      /\ array => \E i \in DOMAIN records' : records'[i].by = q
      /\ \A p \in Appends : (\E i \in DOMAIN rs : rs[i].by = p) => \E i \in DOMAIN records' : records'[i].by = p
  BY <1>1, HistoryGrows DEF IsVersions
<1>5. \A p \in Appends \ {q} : appends'[p].warm /\ appends'[p].at \notin {"gone", "thrown"} =>
        /\ isArray' /\ loaded' /\ \E i \in DOMAIN records' : records'[i].by = p
        /\ \A r \in Appends : appends'[r].at # "reading"
  BY <1>1, <1>2, <1>4 DEF VersionInv
<1>6. appends'[q].warm /\ appends'[q].at \notin {"gone", "thrown"} =>
        /\ isArray' /\ loaded' /\ \E i \in DOMAIN records' : records'[i].by = q
        /\ \A r \in Appends : appends'[r].at # "reading"
  BY <1>1, <1>2, <1>3, <1>4
<1>7. appends'[q].warm \in BOOLEAN /\ isArray' \in BOOLEAN /\ loaded' \in BOOLEAN
  BY <1>1, <1>3
<1>8. \A p \in Appends :
        /\ appends'[p].at \in {"new", "reading", "saving", "opening", "writing", "done", "thrown", "gone"}
        /\ appends'[p].doc \in AnyDoc /\ IsVersions(appends'[p].text) /\ appends'[p].warm \in BOOLEAN
        /\ DOMAIN appends'[p] = {"at", "doc", "text", "warm"}
        /\ appends'[p].at \in {"new", "reading"} => ~appends'[p].warm
  BY <1>2, <1>7 DEF VersionInv
<1>9. versionFile' = versionFile /\ processes' = processes
  OBVIOUS
<1> QED BY <1>2, <1>4, <1>5, <1>6, <1>7, <1>8, <1>9 DEF VersionInv, IsVersions

\* Of a call that only goes on to its next file operation.
LEMMA CallMoves ==
  ASSUME VersionInv, NEW q \in Appends, NEW at \in {"reading", "opening", "writing", "done"}, NEW doc \in AnyDoc, NEW text,
         IsVersions(text), appends' = [appends EXCEPT ![q] = [@ EXCEPT !.at = at, !.doc = doc, !.text = text]],
         IsVersions(versionFile'.rows), UNCHANGED <<records, isArray, loaded, processes>>,
         \/ appends[q].at = "new" /\ at = "reading" /\ ~loaded
         \/ appends[q].at \in {"saving", "opening", "writing"} /\ at # "reading"
  PROVE  VersionInv'
<1>1. /\ appends'[q].at = at /\ appends'[q].doc = doc /\ appends'[q].text = text
      /\ appends'[q].warm = appends[q].warm
      /\ DOMAIN appends'[q] = {"at", "doc", "text", "warm"} /\ DOMAIN appends' = Appends
      /\ \A p \in Appends \ {q} : appends'[p] = appends[p]
  BY DEF VersionInv
<1>2. \A p \in Appends : 
        /\ appends'[p].at \in {"new", "reading", "saving", "opening", "writing", "done", "thrown", "gone"}
        /\ appends'[p].doc \in AnyDoc /\ IsVersions(appends'[p].text) /\ appends'[p].warm \in BOOLEAN
        /\ DOMAIN appends'[p] = {"at", "doc", "text", "warm"}
        /\ appends'[p].at \in {"new", "reading"} => ~appends'[p].warm
  BY <1>1 DEF VersionInv
<1>3. \A p \in Appends : appends'[p].warm /\ appends'[p].at \notin {"gone", "thrown"} =>
        appends[p].warm /\ appends[p].at \notin {"gone", "thrown"}
  BY <1>1 DEF VersionInv
<1>4. at = "reading" => \A p \in Appends : ~(appends[p].warm /\ appends[p].at \notin {"gone", "thrown"})
  BY DEF VersionInv
<1>5. \A p \in Appends : appends'[p].at = "reading" => at = "reading" \/ appends[p].at = "reading"
  BY <1>1
<1>6. \A p \in Appends : appends'[p].warm /\ appends'[p].at \notin {"gone", "thrown"} =>
        /\ isArray' /\ loaded' /\ \E i \in DOMAIN records' : records'[i].by = p
        /\ \A r \in Appends : appends'[r].at # "reading"
  BY <1>3, <1>4, <1>5 DEF VersionInv
<1>7. UNCHANGED <<records, isArray, loaded, processes>> /\ IsVersions(versionFile'.rows)
  OBVIOUS
<1>8. /\ IsVersions(records') /\ isArray' \in BOOLEAN /\ loaded' \in BOOLEAN /\ processes' \in Nat
  BY <1>7 DEF VersionInv, IsVersions
<1> QED BY <1>1, <1>2, <1>6, <1>7, <1>8, Zenon DEF VersionInv

LEMMA VersionStep == VersionInv /\ [KeptNext]_keptVars => VersionInv'
<1> SUFFICES ASSUME VersionInv, [KeptNext]_keptVars PROVE VersionInv'
  OBVIOUS
<1>1. \A d \in VersionedDocs : d \in AnyDoc
  BY DEF AnyDoc
<1>2. CASE UNCHANGED versionVars /\ processes' = processes
  BY <1>2, Zenon DEF VersionInv, IsVersions, versionVars
<1>3. ASSUME NEW q \in Appends, BeginAppend(q) PROVE VersionInv'
  <2>1. appends[q].at = "new" /\ UNCHANGED <<versionFile, processes>>
    BY <1>3, Zenon DEF BeginAppend
  <2>2. PICK d \in VersionedDocs :
          IF loaded THEN PushVersion(q, d, records, isArray) /\ UNCHANGED loaded
          ELSE /\ appends' = [appends EXCEPT ![q] = [@ EXCEPT !.at = "reading", !.doc = d]]
               /\ UNCHANGED <<records, isArray, loaded>>
    BY <1>3, Zenon DEF BeginAppend, Warm
  <2>3. CASE loaded
    <3>1. PushVersion(q, d, records, isArray) /\ loaded' = TRUE
      BY <2>2, <2>3 DEF VersionInv
    <3> QED BY <1>1, <2>1, <2>3, <3>1, PushKeeps DEF VersionInv
  <2>4. CASE ~loaded
    <3>1. appends' = [appends EXCEPT ![q] = [@ EXCEPT !.at = "reading", !.doc = d, !.text = appends[q].text]]
      BY <2>2, <2>4 DEF VersionInv
    <3>2. IsVersions(versionFile'.rows) /\ IsVersions(appends[q].text)
      BY <2>1 DEF VersionInv
    <3>3. UNCHANGED <<records, isArray, loaded, processes>>
      BY <2>1, <2>2, <2>4
    <3> QED BY <1>1, <2>1, <2>4, <3>1, <3>2, <3>3, CallMoves, Zenon
  <2> QED BY <2>3, <2>4
<1>4. ASSUME NEW q \in Appends, Loaded(q) PROVE VersionInv'
  <2>1. /\ appends[q].at = "reading" /\ UNCHANGED <<versionFile, processes>> /\ loaded' = TRUE
        /\ PushVersion(q, appends[q].doc, <<>>, versionFile.text # "whole")
    BY <1>4, Zenon DEF Loaded
  <2>2. appends[q].doc \in AnyDoc
    BY DEF VersionInv
  <2>3. (versionFile.text # "whole") \in BOOLEAN
    OBVIOUS
  <2> QED BY <2>1, <2>2, <2>3, EmptyIsHistory, PushKeeps
<1>5. ASSUME NEW q \in Appends, FormatVersions(q) PROVE VersionInv'
  <2> DEFINE t == IF isArray THEN records ELSE <<>>
  <2>1. /\ appends[q].at = "saving" /\ UNCHANGED <<records, isArray, loaded, processes, versionFile>>
        /\ appends' = [appends EXCEPT ![q] = [@ EXCEPT !.at = "opening", !.text = t]]
    BY <1>5, Zenon DEF FormatVersions
  <2>2. IsVersions(t) /\ appends[q].doc \in AnyDoc /\ IsVersions(versionFile'.rows)
    BY <2>1, EmptyIsHistory DEF VersionInv
  <2> HIDE DEF t
  <2>3. appends' = [appends EXCEPT ![q] = [@ EXCEPT !.at = "opening", !.doc = appends[q].doc, !.text = t]]
    BY <2>1 DEF VersionInv
  <2>6. /\ "opening" \in {"reading", "opening", "writing", "done"} /\ "opening" # "reading"
        /\ appends[q].at \in {"saving", "opening", "writing"}
    BY <2>1
  <2>7. UNCHANGED <<records, isArray, loaded, processes>>
    BY <2>1
  <2> QED BY <2>2, <2>3, <2>6, <2>7, CallMoves, Zenon
<1>6. ASSUME NEW q \in Appends, TruncateVersions(q) PROVE VersionInv'
  <2>1. /\ appends[q].at = "opening" /\ UNCHANGED <<records, isArray, loaded, processes>>
        /\ appends' = [appends EXCEPT ![q].at = "writing"]
        /\ versionFile' = [text |-> "torn", rows |-> <<>>]
    BY <1>6, Zenon DEF TruncateVersions
  <2>2. IsVersions(appends[q].text) /\ appends[q].doc \in AnyDoc /\ IsVersions(versionFile'.rows)
    BY <2>1, EmptyIsHistory DEF VersionInv
  <2>3. appends' = [appends EXCEPT ![q] = [@ EXCEPT !.at = "writing", !.doc = appends[q].doc, !.text = appends[q].text]]
    BY <2>1 DEF VersionInv
  <2>6. /\ "writing" \in {"reading", "opening", "writing", "done"} /\ "writing" # "reading"
        /\ appends[q].at \in {"saving", "opening", "writing"}
    BY <2>1
  <2>7. UNCHANGED <<records, isArray, loaded, processes>>
    BY <2>1
  <2> QED BY <2>2, <2>3, <2>6, <2>7, CallMoves, Zenon
<1>7. ASSUME NEW q \in Appends, WriteVersions(q) PROVE VersionInv'
  <2>1. /\ appends[q].at = "writing" /\ UNCHANGED <<records, isArray, loaded, processes>>
        /\ appends' = [appends EXCEPT ![q].at = "done"]
    BY <1>7, Zenon DEF WriteVersions
  <2>2. versionFile'.rows = appends[q].text \/ versionFile'.rows = <<>>
    BY <1>7 DEF WriteVersions
  <2>3. IsVersions(appends[q].text) /\ appends[q].doc \in AnyDoc
    BY DEF VersionInv
  <2>4. appends' = [appends EXCEPT ![q] = [@ EXCEPT !.at = "done", !.doc = appends[q].doc, !.text = appends[q].text]]
    BY <2>1 DEF VersionInv
  <2>5. IsVersions(versionFile'.rows)
    BY <2>2, <2>3, EmptyIsHistory
  <2>6. /\ "done" \in {"reading", "opening", "writing", "done"} /\ "done" # "reading"
        /\ appends[q].at \in {"saving", "opening", "writing"}
    BY <2>1
  <2>7. UNCHANGED <<records, isArray, loaded, processes>>
    BY <2>1
  <2> QED BY <2>3, <2>4, <2>5, <2>6, <2>7, CallMoves, Zenon
<1>8. CASE EndProcess
  <2>1. /\ processes' = processes + 1 /\ records' = <<>> /\ isArray' = TRUE /\ loaded' = FALSE
        /\ versionFile' = versionFile
        /\ appends' = [q \in Appends |-> IF appends[q].at = "new" THEN appends[q]
                                         ELSE [appends[q] EXCEPT !.at = "gone"]]
    BY <1>8, Zenon DEF EndProcess
  <2>2. \A q \in Appends :
          /\ appends'[q].at \in {"new", "gone"}
          /\ appends'[q].doc = appends[q].doc /\ appends'[q].text = appends[q].text
          /\ appends'[q].warm = appends[q].warm /\ DOMAIN appends'[q] = {"at", "doc", "text", "warm"}
          /\ appends'[q].at = "new" => ~appends'[q].warm
    BY <2>1 DEF VersionInv
  <2>3. processes' \in Nat /\ IsVersions(records') /\ IsVersions(versionFile'.rows) /\ DOMAIN appends' = Appends
    BY <2>1, EmptyIsHistory DEF VersionInv
  <2>4. \A q \in Appends :
          /\ appends'[q].doc \in AnyDoc /\ IsVersions(appends'[q].text) /\ appends'[q].warm \in BOOLEAN
          /\ appends'[q].at \in {"new", "reading"} => ~appends'[q].warm
          /\ ~(appends'[q].warm /\ appends'[q].at \notin {"gone", "thrown"})
    BY <2>2 DEF VersionInv
  <2> QED BY <2>1, <2>2, <2>3, <2>4 DEF VersionInv, IsVersions
<1>9. ASSUME NEW c \in ImageCalls, BeginImage(c) \/ WriteImage(c) \/ UseImage(c) PROVE VersionInv'
  BY <1>2, <1>9, Zenon DEF BeginImage, WriteImage, UseImage
<1>10. CASE BeginWalk \/ VisitDirectory \/ VisitFile \/ EndWalk
  BY <1>2, <1>10, Zenon DEF BeginWalk, VisitDirectory, VisitFile, EndWalk
<1> QED BY <1>2, <1>3, <1>4, <1>5, <1>6, <1>7, <1>8, <1>9, <1>10, Zenon
      DEF KeptNext, VersionNext, ImageNext, keptVars

-----------------------------------------------------------------------------
\* A saved image is whole, and what was there when the walk began and has not been
\* removed is listed, due, or in a directory that was not visited yet.
ImageInv ==
  /\ \A f \in DOMAIN imageFiles : imageFiles[f] \in [whole : BOOLEAN, by : ImageCalls \cup {"none"}]
  /\ \A f \in saved : f \in DOMAIN imageFiles /\ imageFiles[f].whole
  /\ DOMAIN walkAt = {"at", "dirs", "due", "manifest", "first"}
  /\ walkAt.first \subseteq DOMAIN imageFiles
  /\ \A f \in walkAt.first : f \in walkAt.manifest \/ f \in walkAt.due \/ f[1] \in walkAt.dirs

LEMMA ImageInit == KeptInit => ImageInv
BY DEF KeptInit, ImageInv, IdleWalk, NoFiles

LEMMA ImageStep == ImageInv /\ [KeptNext]_keptVars => ImageInv'
<1> SUFFICES ASSUME ImageInv, [KeptNext]_keptVars PROVE ImageInv'
  OBVIOUS
<1>1. CASE UNCHANGED <<imageFiles, saved, walkAt>>
  BY <1>1, Zenon DEF ImageInv
<1>2. ASSUME NEW c \in ImageCalls, BeginImage(c) PROVE ImageInv'
  <2>1. UNCHANGED <<saved, walkAt>>
    BY <1>2, Zenon DEF BeginImage
  <2>2. imageFiles' = imageFiles \/ \E f : f \notin DOMAIN imageFiles /\ imageFiles' = Created(f, c)
    BY <1>2, Zenon DEF BeginImage, MayCreate
  <2>3. CASE imageFiles' = imageFiles
    BY <1>1, <2>1, <2>3
  <2>4. ASSUME NEW f, f \notin DOMAIN imageFiles, imageFiles' = Created(f, c) PROVE ImageInv'
    <3>1. /\ DOMAIN imageFiles' = DOMAIN imageFiles \cup {f}
          /\ imageFiles'[f] \in [whole : BOOLEAN, by : ImageCalls \cup {"none"}]
          /\ \A g \in DOMAIN imageFiles : imageFiles'[g] = imageFiles[g]
      BY <2>4 DEF Created
    <3> QED BY <2>1, <2>4, <3>1 DEF ImageInv
  <2> QED BY <2>2, <2>3, <2>4
<1>3. ASSUME NEW c \in ImageCalls, WriteImage(c) PROVE ImageInv'
  <2> DEFINE mine == {f \in DOMAIN imageFiles : imageFiles[f].by = c}
  <2>1. /\ walkAt' = walkAt /\ saved' = saved \cup mine
        /\ imageFiles' = [f \in DOMAIN imageFiles |->
                            IF f \in mine THEN [whole |-> TRUE, by |-> "none"] ELSE imageFiles[f]]
    BY <1>3, Zenon DEF WriteImage
  <2>2. /\ DOMAIN imageFiles' = DOMAIN imageFiles
        /\ \A f \in DOMAIN imageFiles : imageFiles'[f] \in [whole : BOOLEAN, by : ImageCalls \cup {"none"}]
        /\ \A f \in saved' : f \in DOMAIN imageFiles /\ imageFiles'[f].whole
    BY <2>1 DEF ImageInv
  <2> QED BY <2>1, <2>2 DEF ImageInv
<1>4. ASSUME NEW c \in ImageCalls, UseImage(c) PROVE ImageInv'
  <2> DEFINE f == imageCalls[c].file
             deletes == imageCalls[c].op = "delete" /\ f \in DOMAIN imageFiles
  <2>1. /\ imageFiles' = IF deletes THEN Without(f) ELSE imageFiles
        /\ saved' = IF deletes THEN saved \ {f} ELSE saved
        /\ walkAt' = IF deletes THEN [walkAt EXCEPT !.first = @ \ {f}] ELSE walkAt
    BY <1>4 DEF UseImage
  <2>2. CASE ~deletes
    BY <1>1, <2>1, <2>2
  <2>3. CASE deletes
    <3>1. /\ DOMAIN imageFiles' = DOMAIN imageFiles \ {f} /\ saved' = saved \ {f}
          /\ \A g \in DOMAIN imageFiles \ {f} : imageFiles'[g] = imageFiles[g]
      BY <2>1, <2>3 DEF Without
    <3>2. /\ walkAt'.first = walkAt.first \ {f} /\ walkAt'.manifest = walkAt.manifest
          /\ walkAt'.due = walkAt.due /\ walkAt'.dirs = walkAt.dirs /\ DOMAIN walkAt' = DOMAIN walkAt
      BY <2>1, <2>3 DEF ImageInv
    <3> QED BY <3>1, <3>2 DEF ImageInv
  <2> QED BY <2>2, <2>3
<1>5. CASE BeginWalk
  <2>1. UNCHANGED <<imageFiles, saved>>
    BY <1>5, Zenon DEF BeginWalk
  <2>2. PICK dirs : /\ {f[1] : f \in DOMAIN imageFiles} \subseteq dirs
                    /\ walkAt' = [at |-> "walking", dirs |-> dirs, due |-> {}, manifest |-> {},
                                  first |-> DOMAIN imageFiles]
    BY <1>5, Zenon DEF BeginWalk
  <2>3. walkAt'.first = DOMAIN imageFiles /\ walkAt'.dirs = dirs
        /\ DOMAIN walkAt' = {"at", "dirs", "due", "manifest", "first"}
    BY <2>2
  <2> QED BY <2>1, <2>2, <2>3 DEF ImageInv
<1>6. CASE VisitDirectory
  <2>1. UNCHANGED <<imageFiles, saved>> /\ walkAt.due = {}
    BY <1>6, Zenon DEF VisitDirectory
  <2>2. PICK h : walkAt' = [walkAt EXCEPT !.dirs = @ \ {h}, !.due = Found(h)]
    BY <1>6, Zenon DEF VisitDirectory
  <2>3. /\ walkAt'.dirs = walkAt.dirs \ {h} /\ walkAt'.due = {f \in DOMAIN imageFiles : f[1] = h}
        /\ walkAt'.first = walkAt.first /\ walkAt'.manifest = walkAt.manifest
        /\ DOMAIN walkAt' = DOMAIN walkAt
    BY <2>2 DEF ImageInv, Found
  <2> QED BY <2>1, <2>3 DEF ImageInv
<1>7. CASE VisitFile
  <2>1. UNCHANGED <<imageFiles, saved>>
    BY <1>7, Zenon DEF VisitFile
  <2>2. PICK f : walkAt' = IF f \in DOMAIN imageFiles
                           THEN [walkAt EXCEPT !.due = walkAt.due \ {f}, !.manifest = @ \cup {f}]
                           ELSE [walkAt EXCEPT !.at = "done"]
    BY <1>7, Zenon DEF VisitFile, Left
  <2>3. /\ walkAt'.first = walkAt.first /\ walkAt'.dirs = walkAt.dirs /\ DOMAIN walkAt' = DOMAIN walkAt
        /\ walkAt.manifest \subseteq walkAt'.manifest
        /\ walkAt.due \subseteq walkAt'.due \cup walkAt'.manifest
    BY <2>2 DEF ImageInv
  <2> QED BY <2>1, <2>3 DEF ImageInv
<1>8. CASE EndWalk
  <2>1. UNCHANGED <<imageFiles, saved>> /\ walkAt' = [walkAt EXCEPT !.at = "done"]
    BY <1>8, Zenon DEF EndWalk
  <2>2. /\ walkAt'.first = walkAt.first /\ walkAt'.dirs = walkAt.dirs /\ DOMAIN walkAt' = DOMAIN walkAt
        /\ walkAt'.manifest = walkAt.manifest /\ walkAt'.due = walkAt.due
    BY <2>1 DEF ImageInv
  <2> QED BY <2>1, <2>2 DEF ImageInv
<1>9. CASE EndProcess
  <2>1. /\ walkAt' = IdleWalk /\ saved' = saved
        /\ imageFiles' = [f \in DOMAIN imageFiles |-> [imageFiles[f] EXCEPT !.by = "none"]]
    BY <1>9, Zenon DEF EndProcess
  <2>2. /\ DOMAIN imageFiles' = DOMAIN imageFiles
        /\ \A f \in DOMAIN imageFiles :
             /\ imageFiles'[f] \in [whole : BOOLEAN, by : ImageCalls \cup {"none"}]
             /\ imageFiles'[f].whole = imageFiles[f].whole
    BY <2>1 DEF ImageInv
  <2>3. walkAt'.first = {} /\ DOMAIN walkAt' = {"at", "dirs", "due", "manifest", "first"}
    BY <2>1 DEF IdleWalk
  <2> QED BY <2>1, <2>2, <2>3 DEF ImageInv
<1>10. ASSUME NEW q \in Appends,
              BeginAppend(q) \/ Loaded(q) \/ FormatVersions(q) \/ TruncateVersions(q) \/ WriteVersions(q)
       PROVE  ImageInv'
  BY <1>1, <1>10, Zenon DEF BeginAppend, Loaded, FormatVersions, TruncateVersions, WriteVersions, imageVars
<1> QED BY <1>1, <1>2, <1>3, <1>4, <1>5, <1>6, <1>7, <1>8, <1>9, <1>10, Zenon
      DEF KeptNext, VersionNext, ImageNext, keptVars, imageVars

\* (Theorem) The versions of a document stay an unbroken history, in memory and in
\* a whole file; no append is lost once the history is loaded; a saved image stays
\* whole; a manifest lists what was there (document-versions.ts, images.ts,
\* snapshots.ts).
THEOREM FilesAreKeptCorrect == KeptSpec => []FilesAreKept
<1>1. VersionInv => VersionsAreHistory /\ AppendsAreRemembered
  BY Zenon DEF VersionInv, IsVersions, VersionsAreHistory, AppendsAreRemembered
<1>2. ImageInv => SavedStaysWhole /\ ManifestIsWhole
  BY DEF ImageInv, SavedStaysWhole, ManifestIsWhole
<1>3. VersionInv /\ ImageInv => FilesAreKept
  BY <1>1, <1>2 DEF FilesAreKept
<1> QED BY <1>3, VersionInit, VersionStep, ImageInit, ImageStep, PTL DEF KeptSpec

-----------------------------------------------------------------------------
(* KeywordIndex                                                            *)

\* Rows have distinct numbers, and each is filed under its own.
Filed ==
  /\ \A c, d \in Chunks : Stored(c) /\ rowid[c] = rowid[d] => c = d
  /\ \A c \in Chunks : Stored(c) => c \in vec /\ <<rowid[c], TextOf[c]>> \in index

\* Nothing is filed above the rows of the table, and what is filed under the
\* number of a row is that row's text.  Without deletions the first holds as
\* a replaced row moves up; without re-ingestion postings belong to rows.
NoReuse ==
  /\ \A e \in index : \A c \in Chunks : Stored(c) /\ rowid[c] = e[1] => e[2] = TextOf[c]
  /\ ~deleted => \A e \in index : \E c \in Chunks : Stored(c) /\ e[1] <= rowid[c]
  /\ ~replaced => \A e \in index : \E c \in Chunks : Stored(c) /\ e[1] = rowid[c]

\* It holds until a document was ingested again and one was deleted.
NoReuseUntil == ~(replaced /\ deleted) => NoReuse

USE DocOfAssumption, MaxRowidAssumption

LEMMA InitFiled == IndexInit => IndexTypeOK /\ Filed /\ NoReuseUntil
<1> SUFFICES ASSUME IndexInit PROVE IndexTypeOK /\ Filed /\ NoReuse
  BY DEF NoReuseUntil
<1>1. replaced \in BOOLEAN /\ deleted \in BOOLEAN
  BY DEF IndexInit
<1> QED BY <1>1 DEF IndexInit, IndexTypeOK, Filed, NoReuse, Stored, Texts

\* A step sets the history variables to truth values, and never back.
LEMMA HistoryStep ==
  ASSUME IndexTypeOK, [IndexNext]_indexVars
  PROVE  /\ replaced' \in BOOLEAN /\ deleted' \in BOOLEAN
         /\ replaced => replaced'
         /\ deleted => deleted'
<1>1. ASSUME NEW c \in Chunks, InsertOne(c)
      PROVE  replaced' = (replaced \/ Stored(c)) /\ deleted' = deleted
  BY <1>1 DEF InsertOne
<1>2. ASSUME NEW d \in Docs, DeleteByDocument(d)
      PROVE  deleted' \in BOOLEAN /\ (deleted => deleted') /\ replaced' = replaced
  BY <1>2, Zenon DEF DeleteByDocument
<1> QED BY <1>1, <1>2, Zenon DEF IndexNext, indexVars, IndexTypeOK

\* Whatever is replaced and deleted, rows stay filed.
LEMMA FiledStep == IndexTypeOK /\ Filed /\ [IndexNext]_indexVars => IndexTypeOK' /\ Filed'
<1> SUFFICES ASSUME IndexTypeOK, Filed, [IndexNext]_indexVars PROVE IndexTypeOK' /\ Filed'
  OBVIOUS
<1>0. replaced' \in BOOLEAN /\ deleted' \in BOOLEAN
  BY HistoryStep
<1> USE <1>0 DEF IndexTypeOK, Filed, Stored
<1>1. CASE UNCHANGED indexVars
  BY <1>1 DEF indexVars, Texts
<1>2. ASSUME NEW c \in Chunks, InsertOne(c) PROVE IndexTypeOK' /\ Filed'
  <2>1. PICK r \in 1 .. MaxRowid :
          /\ IsNextRowid(r)
          /\ rowid' = [rowid EXCEPT ![c] = r]
          /\ index' = index \cup {<<r, TextOf[c]>>}
    BY <1>2 DEF InsertOne
  <2>2. vec' = vec \cup {c}
    BY <1>2 DEF InsertOne
  <2>3. IndexTypeOK'
    BY <2>1, <2>2 DEF Texts
  <2>4. \A d \in Chunks : rowid[d] # r
    BY <2>1 DEF IsNextRowid
  <2>5. Filed'
    BY <2>1, <2>2, <2>4
  <2> QED BY <2>3, <2>5
<1>3. ASSUME NEW d \in Docs, DeleteByDocument(d) PROVE IndexTypeOK' /\ Filed'
  <2> DEFINE gone == {c \in Chunks : DocOf[c] = d /\ rowid[c] # 0}
  <2>1. /\ rowid' = [c \in Chunks |-> IF c \in gone THEN 0 ELSE rowid[c]]
        /\ vec' = vec \ gone
        /\ index' = index \ {<<rowid[c], TextOf[c]>> : c \in gone}
    BY <1>3 DEF DeleteByDocument
  <2>2. IndexTypeOK'
    BY <2>1 DEF Texts
  <2>3. ASSUME NEW c \in Chunks, rowid'[c] # 0
        PROVE c \in vec' /\ <<rowid'[c], TextOf[c]>> \in index'
    <3>1. c \notin gone /\ rowid'[c] = rowid[c] /\ rowid[c] # 0
      BY <2>1, <2>3
    <3>2. \A e \in gone : rowid[e] # rowid[c]
      BY <3>1
    <3> QED BY <3>1, <3>2, <2>1
  <2> QED BY <2>1, <2>2, <2>3
<1> QED BY <1>1, <1>2, <1>3 DEF IndexNext

LEMMA NoReuseStep ==
  IndexTypeOK /\ Filed /\ NoReuseUntil /\ [IndexNext]_indexVars => NoReuseUntil'
<1> SUFFICES ASSUME IndexTypeOK, Filed, NoReuseUntil, [IndexNext]_indexVars,
                    ~replaced' \/ ~deleted'
             PROVE  NoReuse'
  BY DEF NoReuseUntil
<1>0. NoReuse /\ (~replaced \/ ~deleted)
  <2>1. (replaced => replaced') /\ (deleted => deleted')
    BY HistoryStep
  <2> QED BY <2>1 DEF NoReuseUntil
<1> USE <1>0 DEF IndexTypeOK, Filed, NoReuse, Stored
<1>1. CASE UNCHANGED indexVars
  BY <1>1 DEF indexVars
<1>2. ASSUME NEW c \in Chunks, InsertOne(c) PROVE NoReuse'
  <2>1. PICK r \in 1 .. MaxRowid :
          /\ IsNextRowid(r)
          /\ rowid' = [rowid EXCEPT ![c] = r]
          /\ index' = index \cup {<<r, TextOf[c]>>}
    BY <1>2 DEF InsertOne
  <2>2. \A d \in Chunks : rowid[d] < r
    BY <2>1 DEF IsNextRowid
  <2>3. \A e \in index : e[1] < r /\ e[1] \in 1 .. MaxRowid
    <3> SUFFICES ASSUME NEW e \in index PROVE e[1] < r /\ e[1] \in 1 .. MaxRowid
      OBVIOUS
    <3>1. PICK d \in Chunks : rowid[d] # 0 /\ e[1] <= rowid[d]
      OBVIOUS
    <3> QED BY <2>2, <3>1
  <2>4. ASSUME NEW e \in index', NEW d \in Chunks, rowid'[d] # 0, rowid'[d] = e[1]
        PROVE e[2] = TextOf[d]
    BY <2>1, <2>2, <2>3, <2>4
  <2>5. ~deleted' =>
          \A e \in index' : \E d \in Chunks : rowid'[d] # 0 /\ e[1] <= rowid'[d]
    <3> SUFFICES ASSUME NEW e \in index' PROVE rowid'[c] # 0 /\ e[1] <= rowid'[c]
      OBVIOUS
    <3> QED BY <2>1, <2>3
  <2>6. ~replaced' =>
          \A e \in index' : \E d \in Chunks : rowid'[d] # 0 /\ e[1] = rowid'[d]
    <3> SUFFICES ASSUME ~replaced', NEW e \in index'
                 PROVE \E d \in Chunks : rowid'[d] # 0 /\ e[1] = rowid'[d]
      OBVIOUS
    <3>0. rowid[c] = 0
      BY <1>2 DEF InsertOne
    <3>3. ~replaced
      BY HistoryStep
    <3>1. CASE e \in index
      <4>1. PICK d \in Chunks : rowid[d] # 0 /\ e[1] = rowid[d]
        BY <3>1, <3>3
      <4> QED BY <4>1, <3>0, <2>1
    <3>2. CASE e = <<r, TextOf[c]>>
      BY <3>2, <2>1
    <3> QED BY <3>1, <3>2, <2>1
  <2> QED BY <2>4, <2>5, <2>6
<1>3. ASSUME NEW d \in Docs, DeleteByDocument(d) PROVE NoReuse'
  <2> DEFINE gone == {c \in Chunks : DocOf[c] = d /\ rowid[c] # 0}
  <2>0. CASE gone = {}
    <3>1. rowid' = rowid /\ index' = index
      BY <2>0, <1>3 DEF DeleteByDocument
    <3>2. (deleted => deleted') /\ (replaced => replaced')
      BY HistoryStep
    <3> QED BY <3>1, <3>2
  <2> SUFFICES ASSUME gone # {} PROVE NoReuse'
    BY <2>0
  <2>1. /\ deleted'
        /\ rowid' = [c \in Chunks |-> IF c \in gone THEN 0 ELSE rowid[c]]
        /\ index' = index \ {<<rowid[c], TextOf[c]>> : c \in gone}
    BY <1>3 DEF DeleteByDocument
  <2>2. ~replaced
    BY <2>1, <1>3 DEF DeleteByDocument
  <2>3. ASSUME NEW e \in index' PROVE \E c \in Chunks : rowid'[c] # 0 /\ e[1] = rowid'[c]
    <3>1. PICK c \in Chunks : rowid[c] # 0 /\ e[1] = rowid[c]
      BY <2>1, <2>2
    <3>2. e = <<e[1], e[2]>> /\ e[2] = TextOf[c]
      BY <3>1, <2>1
    <3>3. c \notin gone
      BY <3>1, <3>2, <2>1
    <3> QED BY <3>1, <3>3, <2>1
  <2> QED BY <2>1, <2>3
<1> QED BY <1>1, <1>2, <1>3 DEF IndexNext

\* Both searches reach every stored chunk, for any history of insertions,
\* replacements and deletions.
THEOREM StoredIsFoundCorrect == IndexSpec => []StoredIsFound
<1>1. IndexTypeOK /\ Filed => StoredIsFound
  BY DEF IndexTypeOK, Filed, StoredIsFound, SearchKeyword, SearchVector, Stored
<1> QED BY InitFiled, FiledStep, <1>1, PTL DEF IndexSpec

\* Keyword hits contain the keyword in a deployment that never re-ingests a
\* document, and in one that never deletes any.
THEOREM HitsContainKeywordCorrect == IndexSpec => []HitsContainKeyword
<1>1. NoReuseUntil => HitsContainKeyword
  BY DEF NoReuseUntil, NoReuse, HitsContainKeyword, HitsAreRight, SearchKeyword
<1> QED BY InitFiled, FiledStep, NoReuseStep, <1>1, PTL DEF IndexSpec

-----------------------------------------------------------------------------
(* LocalFileStorage                                                        *)

USE BlockAssumption, InodeAssumption

\* A put that runs holds the inode its process's temporary path names, alone,
\* and has written the blocks before its offset.
PutsHoldTmp ==
  /\ \A v, w \in Puts :
       putAt[v] = "open" /\ putAt[w] = "open" /\ ProcessOf[v] = ProcessOf[w] => v = w
  /\ \A w \in Puts : putAt[w] = "open" =>
       /\ fd[w] # NoInode /\ fd[w] = tmp[ProcessOf[w]]
       /\ \A b \in 1 .. offset[w] : disk[fd[w]][b] = ValueOf[w]
  /\ \A w \in Puts : putAt[w] # "thrown"

\* No inode a temporary path names is named by another path or read by a get,
\* whether a put of the process still runs or it died.
TmpIsApart ==
  \A p \in Processes : tmp[p] # NoInode =>
    /\ \A q \in Processes : tmp[q] = tmp[p] => q = p
    /\ tmp[p] # target
    /\ \A g \in Gets : getAt[g] = "open" => from[g] # tmp[p]

\* The inode a put may create is in no use before it.
IdleIsFresh ==
  \A w \in Puts : putAt[w] = "idle" =>
    /\ offset[w] = 0 /\ w # target
    /\ \A p \in Processes : tmp[p] # w
    /\ \A g \in Gets : getAt[g] = "open" => from[g] # w

\* Whatever is shared: an open get has an inode and a block to read.
GetsAreOpen ==
  \A g \in Gets :
    /\ getAt[g] \in {"idle", "exists"} => got[g] = <<>>
    /\ getAt[g] = "open" => from[g] # NoInode /\ Len(got[g]) < Blocks

\* What a get reads is whole, deleted or replaced as it may be meanwhile.
ReadIsWhole(g) ==
  /\ getAt[g] = "open" =>
       /\ IsWhole(disk[from[g]])
       /\ \A b \in 1 .. Len(got[g]) : got[g][b] = disk[from[g]][b]
  /\ getAt[g] = "done" => IsWhole(got[g])

\* So is what the key names.
ReadsAreWhole ==
  /\ target # NoInode => IsWhole(disk[target])
  /\ \A g \in Gets : ReadIsWhole(g)

FileInv == ~shared => PutsHoldTmp /\ TmpIsApart /\ IdleIsFresh /\ ReadsAreWhole

LEMMA InitFile == FileInit => FileTypeOK /\ GetsAreOpen /\ FileInv
<1> SUFFICES ASSUME FileInit PROVE FileTypeOK /\ GetsAreOpen /\ FileInv
  OBVIOUS
<1> USE DEF FileInit
<1>1. FileTypeOK
  <2>1. 0 \in 0 .. Blocks /\ 0 \in 0 .. MaxCrashes
    BY BlockAssumption
  <2>2. disk \in [Puts -> [1 .. Blocks -> Values \cup {Hole}]]
    BY DEF Empty
  <2>3. /\ target \in Inodes /\ tmp \in [Processes -> Inodes] /\ fd \in [Puts -> Inodes]
        /\ from \in [Gets -> Inodes]
    BY DEF Inodes
  <2>4. got \in [Gets -> Seq(Values \cup {Hole})] /\ offset \in [Puts -> 0 .. Blocks]
    BY <2>1
  <2> QED BY <2>1, <2>2, <2>3, <2>4 DEF FileTypeOK
<1>2. GetsAreOpen /\ ReadsAreWhole
  BY DEF GetsAreOpen, ReadsAreWhole, ReadIsWhole
<1>3. PutsHoldTmp /\ TmpIsApart
  BY DEF PutsHoldTmp, TmpIsApart
<1>4. IdleIsFresh
  <2>1. \A w \in Puts : w # NoInode
    BY InodeAssumption
  <2> QED BY <2>1 DEF IdleIsFresh
<1> QED BY <1>1, <1>2, <1>3, <1>4 DEF FileInv

\* An action that leaves the history variables alone keeps the types of the rest.
LEMMA FileTypeStep ==
  FileTypeOK /\ GetsAreOpen /\ [FileNext]_fileVars => FileTypeOK' /\ GetsAreOpen'
<1> SUFFICES ASSUME FileTypeOK, GetsAreOpen, [FileNext]_fileVars
             PROVE  FileTypeOK' /\ GetsAreOpen'
  OBVIOUS
<1> USE DEF FileTypeOK, GetsAreOpen, Inodes, TmpOf, puts, gets
<1>1. CASE UNCHANGED fileVars
  BY <1>1 DEF fileVars, Values, Processes
<1>2. ASSUME NEW w \in Puts, PutOpen(w) PROVE FileTypeOK' /\ GetsAreOpen'
  <2>1. shared' \in BOOLEAN
    BY <1>2, Zenon DEF PutOpen, Busy
  <2>0. ProcessOf[w] \in Processes
    BY DEF Processes
  <2> DEFINE j == IF tmp[TmpOf(w)] = NoInode THEN w ELSE tmp[TmpOf(w)]
  <2>5. j \in Puts
    BY <2>0
  <2>2. PICK i \in Puts :
          /\ tmp' = [tmp EXCEPT ![TmpOf(w)] = i]
          /\ disk' = [disk EXCEPT ![i] = Empty]
          /\ fd' = [fd EXCEPT ![w] = i]
    BY <1>2, <2>5 DEF PutOpen
  <2>6. tmp' \in [Processes -> Inodes] /\ fd' \in [Puts -> Inodes]
    BY <2>2
  <2>3. Empty \in [1 .. Blocks -> Values \cup {Hole}]
    BY DEF Empty
  <2>4. disk' \in [Puts -> [1 .. Blocks -> Values \cup {Hole}]]
    BY <2>2, <2>3
  <2> QED BY <1>2, <2>1, <2>4, <2>6 DEF PutOpen
<1>3. ASSUME NEW w \in Puts, PutWrite(w) PROVE FileTypeOK' /\ GetsAreOpen'
  <2>1. offset[w] + 1 \in 1 .. Blocks
    BY <1>3 DEF PutWrite
  <2>2. ValueOf[w] \in Values \cup {Hole}
    BY DEF Values
  <2>3. disk' \in [Puts -> [1 .. Blocks -> Values \cup {Hole}]]
    BY <1>3, <2>1, <2>2 DEF PutWrite
  <2> QED BY <1>3, <2>1, <2>3 DEF PutWrite
<1>4. ASSUME NEW w \in Puts, PutRename(w) PROVE FileTypeOK' /\ GetsAreOpen'
  <2>1. ProcessOf[w] \in Processes
    BY DEF Processes
  <2>2. target' \in Inodes /\ tmp' \in [Processes -> Inodes]
    <3>1. CASE UNCHANGED <<target, tmp>>
      BY <3>1
    <3>2. CASE target' = tmp[TmpOf(w)] /\ tmp' = [tmp EXCEPT ![TmpOf(w)] = NoInode]
      BY <2>1, <3>2
    <3> QED BY <1>4, <3>1, <3>2 DEF PutRename
  <2>3. putAt' \in [Puts -> {"idle", "open", "done", "thrown", "dead"}]
    BY <1>4 DEF PutRename
  <2> QED BY <1>4, <2>2, <2>3 DEF PutRename
<1>5. ASSUME NEW g \in Gets, GetExists(g) \/ GetOpen(g) PROVE FileTypeOK' /\ GetsAreOpen'
  <2>1. CASE GetExists(g)
    BY <2>1 DEF GetExists
  <2>2. CASE GetOpen(g)
    <3>1. got[g] = <<>>
      BY <2>2 DEF GetOpen
    <3> QED BY <2>2, <3>1 DEF GetOpen
  <2> QED BY <1>5, <2>1, <2>2
<1>6. ASSUME NEW g \in Gets, GetRead(g) PROVE FileTypeOK' /\ GetsAreOpen'
  <2> DEFINE n == Len(got[g]) + 1
  <2>1. n \in 1 .. Blocks /\ from[g] \in Puts
    BY <1>6 DEF GetRead
  <2>2. disk[from[g]][n] \in Values \cup {Hole}
    BY <2>1
  <2>3. Append(got[g], disk[from[g]][n]) \in Seq(Values \cup {Hole})
        /\ Len(Append(got[g], disk[from[g]][n])) = n
    BY <2>2
  <2>4. got' \in [Gets -> Seq(Values \cup {Hole})]
    BY <1>6, <2>3 DEF GetRead
  <2>5. GetsAreOpen'
    <3>1. got'[g] = Append(got[g], disk[from[g]][n])
      BY <1>6 DEF GetRead
    <3>2. getAt'[g] = "open" => n < Blocks
      BY <1>6, <2>1 DEF GetRead
    <3> QED BY <1>6, <2>3, <3>1, <3>2 DEF GetRead
  <2> QED BY <1>6, <2>4, <2>5 DEF GetRead
<1>7. CASE Delete
  BY <1>7 DEF Delete
<1>8. ASSUME NEW p \in Processes, Crash(p) PROVE FileTypeOK' /\ GetsAreOpen'
  BY <1>8 DEF Crash
<1> QED BY <1>1, <1>2, <1>3, <1>4, <1>5, <1>6, <1>7, <1>8 DEF FileNext

\* Sharing is never forgotten.
LEMMA SharedStays == FileTypeOK /\ [FileNext]_fileVars /\ ~shared' => ~shared
  BY Zenon DEF FileNext, fileVars, puts, gets, PutOpen, PutWrite, PutRename, GetExists, GetOpen,
               GetRead, Delete, Crash

\* What no step touches stays whole.
LEMMA ReadKept ==
  ASSUME NEW g \in Gets, ReadIsWhole(g),
         getAt'[g] = getAt[g], from'[g] = from[g], got'[g] = got[g],
         getAt[g] = "open" => disk'[from[g]] = disk[from[g]]
  PROVE  ReadIsWhole(g)'
<1>1. CASE getAt[g] = "open"
  <2>1. IsWhole(disk[from[g]]) /\ \A b \in 1 .. Len(got[g]) : got[g][b] = disk[from[g]][b]
    BY <1>1 DEF ReadIsWhole
  <2>2. disk'[from'[g]] = disk[from[g]] /\ got'[g] = got[g] /\ getAt'[g] # "done"
    BY <1>1
  <2>3. IsWhole(disk'[from'[g]])
    BY <2>1, <2>2 DEF IsWhole
  <2> QED BY <2>1, <2>2, <2>3 DEF ReadIsWhole, IsWhole, Values
<1>2. CASE getAt[g] = "done"
  BY <1>2 DEF ReadIsWhole, IsWhole, Values
<1>3. CASE getAt[g] \notin {"open", "done"}
  BY <1>3 DEF ReadIsWhole
<1> QED BY <1>1, <1>2, <1>3

LEMMA TargetKept ==
  ASSUME target # NoInode => IsWhole(disk[target]), target' = target,
         target # NoInode => disk'[target] = disk[target]
  PROVE  target' # NoInode => IsWhole(disk'[target'])
  BY DEF IsWhole, Values

\* Opening a temporary path creates it or truncates the file of a dead put.
LEMMA PutOpenFile ==
  ASSUME FileTypeOK, GetsAreOpen, FileInv, ~shared', NEW w \in Puts, PutOpen(w)
  PROVE  FileInv'
<1>1. ~shared /\ ~Busy(ProcessOf[w]) /\ putAt[w] = "idle"
  BY DEF PutOpen
<1> DEFINE p == ProcessOf[w]
           i == IF tmp[p] = NoInode THEN w ELSE tmp[p]
<1>2. p \in Processes /\ w # NoInode /\ i # NoInode
  BY DEF Processes
<1>3. i \in Puts
  BY <1>2 DEF FileTypeOK, Inodes
<1>4. /\ target' = target /\ offset' = offset /\ getAt' = getAt /\ from' = from /\ got' = got
      /\ tmp' = [tmp EXCEPT ![p] = i] /\ disk' = [disk EXCEPT ![i] = Empty]
      /\ fd' = [fd EXCEPT ![w] = i] /\ putAt' = [putAt EXCEPT ![w] = "open"]
  BY DEF PutOpen, TmpOf, gets
<1>5. PutsHoldTmp /\ TmpIsApart /\ IdleIsFresh /\ ReadsAreWhole
  BY <1>1 DEF FileInv
<1>6. /\ i # target
      /\ \A q \in Processes : q # p => tmp[q] # i
      /\ \A g \in Gets : getAt[g] = "open" => from[g] # i
  BY <1>1, <1>2, <1>5 DEF TmpIsApart, IdleIsFresh
<1>7. \A v \in Puts : putAt[v] = "open" => ProcessOf[v] # p
  BY <1>1 DEF Busy
<1> USE DEF FileTypeOK
<1>8. PutsHoldTmp'
  <2>1. \A u, v \in Puts :
          putAt'[u] = "open" /\ putAt'[v] = "open" /\ ProcessOf[u] = ProcessOf[v] => u = v
    BY <1>4, <1>5, <1>7 DEF PutsHoldTmp
  <2>2. ASSUME NEW v \in Puts, putAt'[v] = "open"
        PROVE  /\ fd'[v] # NoInode /\ fd'[v] = tmp'[ProcessOf[v]]
               /\ \A b \in 1 .. offset'[v] : disk'[fd'[v]][b] = ValueOf[v]
    <3>1. CASE v = w
      <4>1. offset'[v] = 0
        BY <1>1, <1>4, <1>5, <3>1 DEF IdleIsFresh
      <4> QED BY <1>2, <1>4, <3>1, <4>1
    <3>2. CASE v # w
      <4>1. putAt[v] = "open" /\ fd'[v] = fd[v] /\ ProcessOf[v] # p /\ ProcessOf[v] \in Processes
        BY <1>4, <1>7, <2>2, <3>2 DEF Processes
      <4>2. fd[v] # NoInode /\ fd[v] = tmp[ProcessOf[v]]
        BY <1>5, <4>1 DEF PutsHoldTmp
      <4>3. fd[v] # i /\ tmp'[ProcessOf[v]] = fd[v]
        BY <1>4, <1>6, <4>1, <4>2
      <4>4. disk'[fd[v]] = disk[fd[v]] /\ offset'[v] = offset[v]
        BY <1>4, <4>2, <4>3 DEF Inodes
      <4> QED BY <1>5, <4>1, <4>2, <4>3, <4>4 DEF PutsHoldTmp
    <3> QED BY <3>1, <3>2
  <2>3. \A v \in Puts : putAt'[v] # "thrown"
    BY <1>4, <1>5 DEF PutsHoldTmp
  <2> QED BY <2>1, <2>2, <2>3 DEF PutsHoldTmp
<1>9. TmpIsApart'
  <2>1. ASSUME NEW q \in Processes, tmp'[q] # NoInode
        PROVE  /\ \A r \in Processes : tmp'[r] = tmp'[q] => r = q
               /\ tmp'[q] # target'
               /\ \A g \in Gets : getAt'[g] = "open" => from'[g] # tmp'[q]
    <3>1. CASE q = p
      BY <1>2, <1>4, <1>6, <3>1
    <3>2. CASE q # p
      BY <1>2, <1>4, <1>5, <1>6, <2>1, <3>2 DEF TmpIsApart
    <3> QED BY <3>1, <3>2
  <2> QED BY <2>1 DEF TmpIsApart, Processes
<1>10. IdleIsFresh'
  <2>1. ASSUME NEW v \in Puts, putAt'[v] = "idle" PROVE i # v
    <3>1. v # w /\ putAt[v] = "idle"
      BY <1>4, <2>1
    <3> QED BY <1>2, <1>5, <3>1 DEF IdleIsFresh
  <2>2. \A v \in Puts : putAt'[v] = "idle" => putAt[v] = "idle"
    BY <1>4
  <2>3. \A v \in Puts : putAt'[v] = "idle" => \A q \in Processes : tmp'[q] # v
    BY <1>2, <1>4, <1>5, <2>1, <2>2 DEF IdleIsFresh
  <2> QED BY <1>4, <1>5, <2>2, <2>3 DEF IdleIsFresh, Processes
<1>11. ReadsAreWhole'
  <2>1. target # NoInode => disk'[target] = disk[target]
    BY <1>4, <1>6 DEF Inodes
  <2>2. \A g \in Gets : getAt[g] = "open" => disk'[from[g]] = disk[from[g]]
    BY <1>4, <1>6 DEF Inodes, GetsAreOpen
  <2>3. target' # NoInode => IsWhole(disk'[target'])
    BY <1>4, <1>5, <2>1, TargetKept DEF ReadsAreWhole
  <2>4. \A g \in Gets : ReadIsWhole(g)'
    BY <1>4, <1>5, <2>2, ReadKept DEF ReadsAreWhole
  <2> QED BY <2>3, <2>4 DEF ReadsAreWhole
<1> QED BY <1>8, <1>9, <1>10, <1>11 DEF FileInv

LEMMA PutWriteFile ==
  ASSUME FileTypeOK, GetsAreOpen, FileInv, ~shared', NEW w \in Puts, PutWrite(w)
  PROVE  FileInv'
<1> DEFINE p == ProcessOf[w]
           i == fd[w]
           n == offset[w] + 1
<1>1. ~shared /\ putAt[w] = "open" /\ n \in 1 .. Blocks /\ p \in Processes
  BY DEF PutWrite, FileTypeOK, Processes
<1>2. /\ UNCHANGED <<target, tmp, putAt, fd, getAt, from, got>>
      /\ disk' = [disk EXCEPT ![i][n] = ValueOf[w]]
      /\ offset' = [offset EXCEPT ![w] = n]
  BY DEF PutWrite, gets
<1>3. PutsHoldTmp /\ TmpIsApart /\ IdleIsFresh /\ ReadsAreWhole
  BY <1>1 DEF FileInv
<1>4. i # NoInode /\ i = tmp[p] /\ i \in Puts
  BY <1>1, <1>3 DEF PutsHoldTmp, FileTypeOK, Inodes
<1>5. i # target /\ \A g \in Gets : getAt[g] = "open" => from[g] # i
  BY <1>1, <1>3, <1>4 DEF TmpIsApart
<1> USE DEF FileTypeOK
<1>6. \A j \in Puts : j # i => disk'[j] = disk[j]
  BY <1>2
<1>7. PutsHoldTmp'
  <2>1. ASSUME NEW v \in Puts, putAt'[v] = "open"
        PROVE  \A b \in 1 .. offset'[v] : disk'[fd'[v]][b] = ValueOf[v]
    <3>1. CASE v = w
      <4> SUFFICES ASSUME NEW b \in 1 .. n PROVE disk'[i][b] = ValueOf[w]
        BY <1>2, <3>1
      <4>1. disk'[i] = [disk[i] EXCEPT ![n] = ValueOf[w]] /\ disk[i] \in [1 .. Blocks -> Values \cup {Hole}]
        BY <1>2, <1>4
      <4>2. b \in 1 .. Blocks /\ (b # n => b \in 1 .. offset[w])
        BY <1>1
      <4>3. b # n => disk[i][b] = ValueOf[w]
        BY <1>1, <1>3, <4>2 DEF PutsHoldTmp
      <4> QED BY <1>1, <4>1, <4>2, <4>3
    <3>2. CASE v # w
      <4>1. putAt[v] = "open" /\ fd[v] # NoInode /\ fd[v] = tmp[ProcessOf[v]]
        BY <1>2, <1>3, <2>1 DEF PutsHoldTmp
      <4>2. ProcessOf[v] # p /\ ProcessOf[v] \in Processes
        BY <1>1, <1>3, <3>2, <4>1 DEF PutsHoldTmp, Processes
      <4>3. fd[v] # i /\ fd[v] \in Puts
        BY <1>1, <1>3, <1>4, <4>1, <4>2 DEF TmpIsApart, Inodes
      <4>4. disk'[fd[v]] = disk[fd[v]] /\ offset'[v] = offset[v] /\ fd'[v] = fd[v]
        BY <1>2, <1>6, <3>2, <4>3
      <4>5. \A b \in 1 .. offset[v] : disk[fd[v]][b] = ValueOf[v]
        BY <1>3, <4>1 DEF PutsHoldTmp
      <4> QED BY <4>4, <4>5
    <3> QED BY <3>1, <3>2
  <2> QED BY <1>2, <1>3, <2>1 DEF PutsHoldTmp
<1>8. TmpIsApart'
  BY <1>2, <1>3 DEF TmpIsApart, Processes
<1>9. IdleIsFresh'
  BY <1>1, <1>2, <1>3 DEF IdleIsFresh, Processes
<1>10. ReadsAreWhole'
  <2>1. target # NoInode => disk'[target] = disk[target]
    BY <1>5, <1>6 DEF Inodes
  <2>2. \A g \in Gets : getAt[g] = "open" => disk'[from[g]] = disk[from[g]]
    BY <1>5, <1>6 DEF Inodes, GetsAreOpen
  <2>3. target' # NoInode => IsWhole(disk'[target'])
    BY <1>2, <1>3, <2>1, TargetKept DEF ReadsAreWhole
  <2>4. \A g \in Gets : ReadIsWhole(g)'
    BY <1>2, <1>3, <2>2, ReadKept DEF ReadsAreWhole
  <2> QED BY <2>3, <2>4 DEF ReadsAreWhole
<1> QED BY <1>7, <1>8, <1>9, <1>10 DEF FileInv

\* The rename moves a whole file to the key, and its put is the only one it had.
LEMMA PutRenameFile ==
  ASSUME FileTypeOK, GetsAreOpen, FileInv, ~shared', NEW w \in Puts, PutRename(w)
  PROVE  FileInv'
<1> DEFINE p == ProcessOf[w]
           i == tmp[p]
<1>1. ~shared /\ putAt[w] = "open" /\ offset[w] = Blocks /\ p \in Processes
  BY DEF PutRename, FileTypeOK, Processes
<1>2. PutsHoldTmp /\ TmpIsApart /\ IdleIsFresh /\ ReadsAreWhole
  BY <1>1 DEF FileInv
<1>3. i # NoInode /\ i = fd[w] /\ i \in Puts
  BY <1>1, <1>2 DEF PutsHoldTmp, FileTypeOK, Inodes
<1>4. /\ UNCHANGED <<disk, fd, offset, getAt, from, got>>
      /\ target' = i /\ tmp' = [tmp EXCEPT ![p] = NoInode]
      /\ putAt' = [putAt EXCEPT ![w] = "done"]
  BY <1>3 DEF PutRename, TmpOf, gets
<1> USE DEF FileTypeOK
<1>5. IsWhole(disk[i])
  <2>1. \A b \in 1 .. Blocks : disk[i][b] = ValueOf[w]
    BY ZenonT(60), <1>1, <1>2, <1>3 DEF PutsHoldTmp
  <2> QED BY <2>1 DEF IsWhole, Values
<1>6. PutsHoldTmp'
  <2>1. \A v \in Puts : putAt'[v] = "open" =>
          putAt[v] = "open" /\ v # w /\ ProcessOf[v] # p /\ ProcessOf[v] \in Processes
    BY <1>1, <1>2, <1>4 DEF PutsHoldTmp, Processes
  <2>2. \A v \in Puts : putAt'[v] = "open" => tmp'[ProcessOf[v]] = tmp[ProcessOf[v]]
    BY <1>4, <2>1
  <2>3. \A v \in Puts : putAt'[v] # "thrown"
    BY <1>2, <1>4 DEF PutsHoldTmp
  <2> QED BY <1>2, <1>4, <2>1, <2>2, <2>3 DEF PutsHoldTmp
<1>7. TmpIsApart'
  <2>1. ASSUME NEW q \in Processes, tmp'[q] # NoInode
        PROVE  tmp'[q] = tmp[q] /\ q # p /\ tmp[q] # i
    BY <1>1, <1>2, <1>3, <1>4, <2>1 DEF TmpIsApart
  <2>2. \A q, r \in Processes : tmp'[q] # NoInode /\ tmp'[r] = tmp'[q] => tmp[r] = tmp[q]
    BY <2>1
  <2> QED BY <1>2, <1>4, <2>1, <2>2 DEF TmpIsApart, Processes
<1>8. IdleIsFresh'
  <2>1. \A v \in Puts : putAt'[v] = "idle" => putAt[v] = "idle" /\ v # i
    BY <1>1, <1>2, <1>4 DEF IdleIsFresh
  <2>2. \A v \in Puts, q \in Processes : putAt'[v] = "idle" => tmp'[q] # v
    BY <1>2, <1>4, <2>1 DEF IdleIsFresh
  <2> QED BY <1>2, <1>4, <2>1, <2>2 DEF IdleIsFresh, Processes
<1>9. ReadsAreWhole'
  <2>1. IsWhole(disk'[target'])
    BY <1>4, <1>5
  <2>2. \A g \in Gets : ReadIsWhole(g)'
    BY <1>2, <1>4, ReadKept DEF ReadsAreWhole
  <2> QED BY <2>1, <2>2 DEF ReadsAreWhole
<1> QED BY <1>6, <1>7, <1>8, <1>9 DEF FileInv

LEMMA GetFile ==
  ASSUME FileTypeOK, GetsAreOpen, FileInv, ~shared',
         NEW g \in Gets, GetExists(g) \/ GetOpen(g) \/ GetRead(g)
  PROVE  FileInv'
<1>1. ~shared /\ UNCHANGED <<target, tmp, disk, putAt, fd, offset>>
  BY DEF GetExists, GetOpen, GetRead, puts
<1>2. PutsHoldTmp /\ TmpIsApart /\ IdleIsFresh /\ ReadsAreWhole
  BY <1>1 DEF FileInv
<1> USE DEF FileTypeOK
<1>3. PutsHoldTmp'
  BY <1>1, <1>2 DEF PutsHoldTmp
<1>4. CASE GetExists(g)
  <2>1. /\ from' = from /\ got' = got /\ getAt[g] = "idle"
        /\ \A h \in Gets : getAt'[h] \in {"open", "done"} => getAt[h] = getAt'[h]
    BY <1>4 DEF GetExists
  <2>2. TmpIsApart' /\ IdleIsFresh'
    BY <1>1, <1>2, <2>1 DEF TmpIsApart, IdleIsFresh, Processes
  <2>3. \A h \in Gets : ReadIsWhole(h)'
    <3>1. \A h \in Gets : h # g => ReadIsWhole(h)'
      BY <1>1, <1>2, <1>4, <2>1, ReadKept DEF ReadsAreWhole, GetExists
    <3>2. getAt'[g] \notin {"open", "done"}
      BY <1>4 DEF GetExists
    <3> QED BY <3>1, <3>2 DEF ReadIsWhole
  <2>4. ReadsAreWhole'
    BY <1>1, <1>2, <2>3, TargetKept DEF ReadsAreWhole
  <2> QED BY <1>3, <2>2, <2>4 DEF FileInv
<1>5. CASE GetOpen(g)
  <2>1. /\ got' = got /\ getAt[g] = "exists" /\ from' = [from EXCEPT ![g] = target]
        /\ getAt' = [getAt EXCEPT ![g] = IF target = NoInode THEN "thrown" ELSE "open"]
    BY <1>5 DEF GetOpen
  <2>2. /\ \A h \in Gets : h # g => from'[h] = from[h] /\ getAt'[h] = getAt[h]
        /\ from'[g] = target /\ getAt'[g] # "done"
        /\ getAt'[g] = "open" => target # NoInode
    BY <2>1
  <2>3. got[g] = <<>>
    BY <2>1 DEF GetsAreOpen
  <2>4. TmpIsApart'
    BY ZenonT(60), <1>1, <1>2, <2>2 DEF TmpIsApart, Processes
  <2>5. IdleIsFresh'
    BY ZenonT(60), <1>1, <1>2, <2>2 DEF IdleIsFresh, Processes
  <2>6. ReadsAreWhole'
    <3>1. \A h \in Gets : h # g => ReadIsWhole(h)'
      BY <1>1, <1>2, <2>1, <2>2, ReadKept DEF ReadsAreWhole
    <3>2. getAt'[g] = "open" => IsWhole(disk'[from'[g]])
      BY <1>1, <1>2, <2>2 DEF ReadsAreWhole
    <3>3. ReadIsWhole(g)'
      BY <2>1, <2>2, <2>3, <3>2 DEF ReadIsWhole
    <3> QED BY <1>1, <1>2, <3>1, <3>3, TargetKept DEF ReadsAreWhole
  <2> QED BY <1>3, <2>4, <2>5, <2>6 DEF FileInv
<1>6. CASE GetRead(g)
  <2> DEFINE n == Len(got[g]) + 1
             i == from[g]
  <2>1. /\ from' = from /\ getAt[g] = "open"
        /\ got' = [got EXCEPT ![g] = Append(got[g], disk[i][n])]
        /\ getAt' = [getAt EXCEPT ![g] = IF n = Blocks THEN "done" ELSE "open"]
    BY <1>6 DEF GetRead
  <2>2. \A h \in Gets : h # g => got'[h] = got[h] /\ getAt'[h] = getAt[h]
    BY <2>1
  <2>3. i \in Puts /\ n \in 1 .. Blocks /\ disk[i][n] \in Values \cup {Hole}
    BY <2>1 DEF GetsAreOpen, Inodes
  <2>4. Len(got'[g]) = n /\ \A b \in 1 .. n : got'[g][b] = disk[i][b]
    <3>1. got'[g] = Append(got[g], disk[i][n]) /\ got[g] \in Seq(Values \cup {Hole})
      BY <2>1
    <3>2. \A b \in 1 .. Len(got[g]) : got[g][b] = disk[i][b]
      BY <1>2, <2>1 DEF ReadsAreWhole, ReadIsWhole
    <3> QED BY <2>3, <3>1, <3>2
  <2>5. IsWhole(disk[i])
    BY <1>2, <2>1 DEF ReadsAreWhole, ReadIsWhole
  <2>6. getAt'[g] = "done" => IsWhole(got'[g])
    BY SMTT(30), <2>1, <2>4, <2>5 DEF IsWhole
  <2>7. TmpIsApart' /\ IdleIsFresh'
    BY <1>1, <1>2, <2>1, <2>2 DEF TmpIsApart, IdleIsFresh, Processes
  <2>8. ReadsAreWhole'
    <3>1. \A h \in Gets : h # g => ReadIsWhole(h)'
      BY <1>1, <1>2, <2>1, <2>2, ReadKept DEF ReadsAreWhole
    <3>2. ReadIsWhole(g)'
      BY <1>1, <2>1, <2>4, <2>5, <2>6 DEF ReadIsWhole
    <3> QED BY <1>1, <1>2, <3>1, <3>2, TargetKept DEF ReadsAreWhole
  <2> QED BY <1>3, <2>7, <2>8 DEF FileInv
<1> QED BY <1>4, <1>5, <1>6

LEMMA FileInvStep ==
  FileTypeOK /\ GetsAreOpen /\ FileInv /\ [FileNext]_fileVars => FileInv'
<1> SUFFICES ASSUME FileTypeOK, GetsAreOpen, FileInv, [FileNext]_fileVars, ~shared'
             PROVE  FileInv'
  BY DEF FileInv
<1>0. ~shared /\ PutsHoldTmp /\ TmpIsApart /\ IdleIsFresh /\ ReadsAreWhole
  BY SharedStays DEF FileInv
<1>1. CASE UNCHANGED fileVars
  BY <1>0, <1>1 DEF fileVars, puts, gets, FileInv, PutsHoldTmp, TmpIsApart, IdleIsFresh,
                    ReadsAreWhole, ReadIsWhole, IsWhole, Values, Processes
<1>2. CASE Delete
  BY <1>0, <1>2 DEF Delete, puts, gets, FileInv, PutsHoldTmp, TmpIsApart, IdleIsFresh,
                    ReadsAreWhole, ReadIsWhole, IsWhole, Values, Processes
<1>3. ASSUME NEW p \in Processes, Crash(p) PROVE FileInv'
  <2>1. /\ UNCHANGED <<target, tmp, disk, fd, offset, getAt, from, got>>
        /\ \A w \in Puts : putAt'[w] # "dead" => putAt'[w] = putAt[w]
    BY <1>3 DEF Crash, gets
  <2> QED BY <1>0, <2>1 DEF FileInv, PutsHoldTmp, TmpIsApart, IdleIsFresh, ReadsAreWhole,
                            ReadIsWhole, IsWhole, Values, Processes
<1> QED BY <1>1, <1>2, <1>3, PutOpenFile, PutWriteFile, PutRenameFile, GetFile DEF FileNext

\* A get returns the whole value of one put, for any number of puts, gets,
\* processes, blocks and crashes, as long as no process put the key twice at once.
THEOREM ReadersSeeWholeCorrect == FileSpec => []ReadersSeeWhole
<1>1. FileInv => ReadersSeeWhole
  BY DEF FileInv, ReadsAreWhole, ReadIsWhole, ReadersSeeWhole
<1> QED BY InitFile, FileTypeStep, FileInvStep, <1>1, PTL DEF FileSpec

\* Then the key always names a whole value, and no put fails.
THEOREM TargetIsWholeCorrect == FileSpec => []TargetIsWhole
<1>1. FileInv => TargetIsWhole
  BY DEF FileInv, ReadsAreWhole, PutsHoldTmp, TargetIsWhole
<1> QED BY InitFile, FileTypeStep, FileInvStep, <1>1, PTL DEF FileSpec
=============================================================================
