------------------------------ MODULE Qcow2Image ------------------------------
(***************************************************************************)
(* What the operations of Qcow2 do to an image, and that they keep it      *)
(* sound: counts that are the number of references (Balanced), layers that *)
(* share a cluster only in the same place (Placed), a cache of tables      *)
(* alone (OnlyTables) that agrees with the file where it is clean          *)
(* (Coherent), copied bits that are true (CopiedOK).  A write or a discard *)
(* also keeps what the file refers to since the last flush (Lasting), so   *)
(* that opening it after a crash finds a sound image: the two together are *)
(* Whole.                                                                  *)
(*                                                                         *)
(* Each operation comes as a predicate of what it changes, field by field  *)
(* (LoadEffect, GetsTable, Repointed, InPlace, ...), a lemma that the code *)
(* has that effect, and a lemma that the effect keeps the image sound.     *)
(***************************************************************************)
EXTENDS Qcow2, FiniteSetTheorems, TLAPS

\* A table entry: one that names a cluster is not flagged zero, one that names none
\* is not marked copied.
EntryType == {e \in [host : 0 .. HostClusters, copied : BOOLEAN, zero : BOOLEAN] :
                (e.host # 0 => ~e.zero) /\ (e.copied => e.host # 0)}
TableType == [Slot -> EntryType]
L1Type == [Area -> EntryType]
ClusterType == [Half -> Readable]
CacheType == UNION {[D -> [entries : TableType, dirty : BOOLEAN]] : D \in SUBSET Host}
SnapsType == UNION {[D -> [at : 0 .. HostClusters, l1 : L1Type]] : D \in SUBSET Name}

\* The images the operations work on.
ImageType ==
    [l1 : L1Type, rc : [Host -> Int], cache : CacheType,
     flushed : [l1 : L1Type, rc : [Host -> Int]],
     table : [Host -> TableType], data : [Host -> ClusterType],
     snaps : SnapsType, list : 0 .. HostClusters]

\* The layers that read the image: the active one and the snapshots.
Layers(i, sn) == {i.l1} \union {sn[n].l1 : n \in DOMAIN sn}

\* A clean table of the cache is the one in the file.
Coherent(i) == \A h \in DOMAIN i.cache : i.cache[h].dirty \/ i.cache[h].entries = i.table[h]

\* Every count is the number of references, with the snapshots sn.
Balanced(i, sn) ==
    \A h \in Host :
        i.rc[h] = Refs(i, i.l1, h) + Held(i, sn, h) + (IF i.list = h THEN 1 ELSE 0)

\* Layers share a cluster only in the same place: no two positions name one.
Placed(i, sn) ==
    \A l, m \in Layers(i, sn) : \A u, v \in Position :
        Target(i, l, u) # 0 /\ Target(i, l, u) = Target(i, m, v) => u = v

\* The cache holds tables: no layer keeps data in a cached cluster.
OnlyTables(i, sn) ==
    \A h \in DOMAIN i.cache, l \in Layers(i, sn), u \in Position :
        Target(i, l, u) = h => u[2] = 0

\* CopiedIsExclusive, of the image i.
CopiedOK(i) ==
    \A a \in Area : i.l1[a].host # 0 =>
        /\ i.l1[a].copied => i.rc[i.l1[a].host] = 1
        /\ \A s \in Slot : LET e == Table(i, i.l1[a].host)[s]
                          IN  e.copied => e.host # 0 /\ i.rc[e.host] = 1

\* What the file refers to since the last flush, the discarded clusters T apart, is
\* still counted, and is used in no other place.
Lasting(i, T) ==
    \A v \in Position \ ({"disk"} \X T) :
        LET d == Target(Reopened(i), i.flushed.l1, v)
        IN  d # 0 => /\ i.rc[d] > 0
                     /\ \A u \in Position : Target(i, i.l1, u) = d => u = v

\* A set of naturals has a least element.
LEMMA LeastNatural ==
    ASSUME NEW S \in SUBSET Nat, S # {}
    PROVE  Min(S) \in S
<1> DEFINE R == {ss \in Nat \X Nat : ss[1] < ss[2]}
<1>0. IsWellFoundedOn(R, Nat)  BY NatLessThanWellFounded, Zenon DEF OpToRel
<1>1. PICK x \in S : \A y \in S : ~(<<y, x>> \in R)
  <2> HIDE DEF R
  <2> QED BY <1>0, WFMin, Zenon
<1>2. \A y \in S : ~(y < x)
  <2> SUFFICES ASSUME NEW y \in S, y < x PROVE FALSE  OBVIOUS
  <2>1. <<y, x>> \in Nat \X Nat /\ <<y, x>>[1] = y /\ <<y, x>>[2] = x  BY SMT
  <2>2. <<y, x>> \in R  BY <2>1, Zenon
  <2> QED BY <1>1, <2>2
<1>3. \A y \in S : x =< y  BY <1>2, SMT
<1> QED BY <1>3, Zenon DEF Min

\* find_free finds a free cluster.
LEMMA FreeCluster ==
    ASSUME NEW i \in ImageType, Free(i) # {}
    PROVE  Lowest(i) \in Host /\ i.rc[Lowest(i)] = 0
<1>1. Free(i) \in SUBSET Nat  BY SizeAssumption DEF Free, Host
<1>2. Lowest(i) \in Free(i)  BY <1>1, LeastNatural DEF Lowest
<1> QED BY <1>2 DEF Free

\* What is in a cache.
LEMMA CacheFacts ==
    ASSUME NEW c \in CacheType
    PROVE  /\ DOMAIN c \subseteq Host
           /\ c = [h \in DOMAIN c |-> c[h]]
           /\ \A h \in DOMAIN c : /\ c[h] \in [entries : TableType, dirty : BOOLEAN]
                                  /\ c[h].entries \in TableType /\ c[h].dirty \in BOOLEAN
BY DEF CacheType

\* A function from clusters to cached tables is a cache.
LEMMA CacheIntro ==
    ASSUME NEW D \in SUBSET Host, NEW c \in [D -> [entries : TableType, dirty : BOOLEAN]]
    PROVE  c \in CacheType /\ DOMAIN c = D
BY DEF CacheType

\* The entries and the table that the code makes are of their types.
LEMMA BlankType ==
    /\ Unallocated \in EntryType /\ ZeroFlag \in EntryType /\ Blank \in TableType
    /\ \A h \in Host : Owned(h) \in EntryType
<1>1. 0 \in 0 .. HostClusters /\ Host \subseteq 0 .. HostClusters /\ 0 \notin Host
    BY SizeAssumption DEF Host
<1>2. Unallocated \in EntryType /\ ZeroFlag \in EntryType
    BY <1>1, Zenon DEF Unallocated, ZeroFlag, EntryType
<1>3. \A h \in Host : Owned(h) \in EntryType  BY <1>1, Zenon DEF Owned, EntryType
<1> QED BY <1>2, <1>3, Zenon DEF Blank, TableType

\* A count that is neither 0 nor 1.
LEMMA AboveOne == \A x \in Nat : x >= 1 /\ x # 1 => x >= 2
BY SMT

\* The types of the fields of an image.
LEMMA FieldTypes ==
    ASSUME NEW i \in ImageType
    PROVE  /\ i.l1 \in L1Type /\ i.rc \in [Host -> Int] /\ i.cache \in CacheType
           /\ i.flushed.l1 \in L1Type /\ i.flushed.rc \in [Host -> Int]
           /\ i.table \in [Host -> TableType] /\ i.data \in [Host -> ClusterType]
           /\ i.snaps \in SnapsType /\ i.list \in 0 .. HostClusters
           /\ DOMAIN i.cache \subseteq Host
           /\ \A h \in DOMAIN i.cache : /\ i.cache[h] \in [entries : TableType, dirty : BOOLEAN]
                                        /\ i.cache[h].entries \in TableType
                                        /\ i.cache[h].dirty \in BOOLEAN
           /\ \A h \in Host : i.table[h] \in TableType /\ Table(i, h) \in TableType
<1> USE Zenon
<1>1. /\ i.l1 \in L1Type /\ i.rc \in [Host -> Int] /\ i.cache \in CacheType
      /\ i.flushed.l1 \in L1Type /\ i.flushed.rc \in [Host -> Int]
      /\ i.table \in [Host -> TableType] /\ i.data \in [Host -> ClusterType]
      /\ i.snaps \in SnapsType /\ i.list \in 0 .. HostClusters
    BY DEF ImageType
<1> QED BY <1>1, CacheFacts DEF Table

\* What loading tables into the cache does to an image.
LoadEffect(i, H, j) ==
    /\ j \in ImageType
    /\ j.l1 = i.l1 /\ j.rc = i.rc /\ j.flushed = i.flushed /\ j.table = i.table
    /\ j.data = i.data /\ j.snaps = i.snaps /\ j.list = i.list
    /\ DOMAIN j.cache = DOMAIN i.cache \union H
    /\ \A h \in Host : Table(j, h) = Table(i, h)
    /\ Coherent(i) => Coherent(j)

\* load_l2 adds tables to the cache, as the file has them.
LEMMA LoadFacts ==
    ASSUME NEW i \in ImageType, NEW H \in SUBSET Host
    PROVE  LoadEffect(i, H, Load(i, H))
<1> USE Zenon
<1> DEFINE j == Load(i, H)
           c == [h \in DOMAIN i.cache \union H |->
                    IF h \in DOMAIN i.cache THEN i.cache[h]
                    ELSE [entries |-> i.table[h], dirty |-> FALSE]]
<1>1. j = [i EXCEPT !.cache = c]  BY DEF Load, ImageType
<1>2. c \in CacheType /\ DOMAIN c = DOMAIN i.cache \union H
  <2>1. DOMAIN i.cache \union H \in SUBSET Host  BY FieldTypes
  <2>2. \A h \in DOMAIN i.cache \union H : c[h] \in [entries : TableType, dirty : BOOLEAN]
    BY <2>1, FieldTypes
  <2> QED BY <2>1, <2>2, CacheIntro
<1>3. /\ \A h \in DOMAIN i.cache : c[h] = i.cache[h]
      /\ \A h \in H \ DOMAIN i.cache : c[h].entries = i.table[h] /\ c[h].dirty = FALSE
    OBVIOUS
<1> HIDE DEF c, j
<1>4. /\ j \in ImageType /\ j.cache = c
      /\ j.l1 = i.l1 /\ j.rc = i.rc /\ j.flushed = i.flushed /\ j.table = i.table
      /\ j.data = i.data /\ j.snaps = i.snaps /\ j.list = i.list
    BY <1>1, <1>2 DEF ImageType
<1>5. \A h \in Host : Table(j, h) = Table(i, h)  BY <1>2, <1>3, <1>4 DEF Table
<1>6. Coherent(i) => Coherent(j)  BY <1>2, <1>3, <1>4 DEF Coherent
<1>7. LoadEffect(i, H, j)  BY <1>2, <1>4, <1>5, <1>6 DEF LoadEffect
<1> QED BY <1>7 DEF j

\* What set_l2_entry does to an image.
EntryEffect(i, h, s, e, j) ==
    /\ j \in ImageType
    /\ j.l1 = i.l1 /\ j.rc = i.rc /\ j.flushed = i.flushed /\ j.table = i.table
    /\ j.data = i.data /\ j.snaps = i.snaps /\ j.list = i.list
    /\ DOMAIN j.cache = DOMAIN i.cache \union {h}
    /\ Table(j, h) = [Table(i, h) EXCEPT ![s] = e]
    /\ \A x \in Host : x # h => Table(j, x) = Table(i, x)
    /\ Coherent(i) => Coherent(j)

\* set_l2_entry changes one entry of one table, in the cache.
LEMMA SetEntryFacts ==
    ASSUME NEW i \in ImageType, NEW h \in Host, NEW s \in Slot, NEW e \in EntryType
    PROVE  EntryEffect(i, h, s, e, SetEntry(i, h, s, e))
<1> USE Zenon
<1> DEFINE j == SetEntry(i, h, s, e)
           L == Load(i, {h})
           new == [entries |-> [Table(i, h) EXCEPT ![s] = e], dirty |-> TRUE]
           c == [L.cache EXCEPT ![h] = new]
<1>1. LoadEffect(i, {h}, L)  BY LoadFacts
<1>2. /\ L \in ImageType /\ h \in DOMAIN L.cache /\ DOMAIN L.cache = DOMAIN i.cache \union {h}
      /\ L.l1 = i.l1 /\ L.rc = i.rc /\ L.flushed = i.flushed /\ L.table = i.table
      /\ L.data = i.data /\ L.snaps = i.snaps /\ L.list = i.list
      /\ \A x \in Host : Table(L, x) = Table(i, x)
      /\ Coherent(i) => Coherent(L)
    BY <1>1 DEF LoadEffect
<1>3. j = [L EXCEPT !.cache = c]  BY <1>2 DEF SetEntry, ImageType
<1> HIDE DEF L, j
<1>4. [Table(i, h) EXCEPT ![s] = e] \in TableType  BY FieldTypes DEF TableType
<1>5. new \in [entries : TableType, dirty : BOOLEAN]  BY <1>4
<1>6. DOMAIN c = DOMAIN L.cache /\ c[h] = new /\ \A x \in DOMAIN L.cache : x # h => c[x] = L.cache[x]
    BY <1>2
<1>7. c \in CacheType
  <2>1. DOMAIN L.cache \in SUBSET Host  BY <1>2, FieldTypes
  <2>2. \A x \in DOMAIN L.cache : c[x] \in [entries : TableType, dirty : BOOLEAN]
    BY <1>2, <1>5, <1>6, FieldTypes
  <2>3. c \in [DOMAIN L.cache -> [entries : TableType, dirty : BOOLEAN]]
    BY <2>2
  <2> QED BY <2>1, <2>3, CacheIntro
<1>8. new.entries = [Table(i, h) EXCEPT ![s] = e] /\ new.dirty = TRUE  OBVIOUS
<1> HIDE DEF c, new
<1>9. /\ j \in ImageType /\ j.cache = c
      /\ j.l1 = L.l1 /\ j.rc = L.rc /\ j.flushed = L.flushed /\ j.table = L.table
      /\ j.data = L.data /\ j.snaps = L.snaps /\ j.list = L.list
    BY <1>2, <1>3, <1>7 DEF ImageType
<1>10. DOMAIN j.cache = DOMAIN i.cache \union {h}  BY <1>2, <1>6, <1>9
<1>11. Table(j, h) = [Table(i, h) EXCEPT ![s] = e]  BY <1>6, <1>8, <1>9, <1>10 DEF Table
<1>12. ASSUME NEW x \in Host, x # h PROVE Table(j, x) = Table(i, x)
  <2>1. Table(j, x) = Table(L, x)  BY <1>6, <1>9, <1>12 DEF Table
  <2> QED BY <1>2, <2>1
<1>13. ASSUME Coherent(i) PROVE Coherent(j)
  <2> SUFFICES ASSUME NEW x \in DOMAIN j.cache
               PROVE  j.cache[x].dirty \/ j.cache[x].entries = j.table[x]
    BY DEF Coherent
  <2>1. CASE x = h  BY <1>6, <1>8, <1>9, <2>1
  <2>2. CASE x # h
    <3>1. x \in DOMAIN L.cache /\ j.cache[x] = L.cache[x]  BY <1>6, <1>9, <2>2
    <3> QED BY <1>2, <1>9, <1>13, <3>1 DEF Coherent
  <2> QED BY <2>1, <2>2
<1>14. EntryEffect(i, h, s, e, j)  BY <1>2, <1>9, <1>10, <1>11, <1>12, <1>13 DEF EntryEffect
<1> QED BY <1>14 DEF j

\* What taking the cluster n off the free ones does, whatever is written to it.
NewEffect(i, n, j) ==
    /\ n \in Host /\ i.rc[n] = 0 /\ n = Lowest(i)
    /\ j \in ImageType
    /\ j.l1 = i.l1 /\ j.flushed = i.flushed /\ j.snaps = i.snaps /\ j.list = i.list
    /\ j.rc = [i.rc EXCEPT ![n] = 1]
    /\ DOMAIN j.cache = (DOMAIN i.cache) \ {n}
    /\ \A x \in Host : x # n => /\ Table(j, x) = Table(i, x)
                                /\ j.table[x] = i.table[x] /\ j.data[x] = i.data[x]
    /\ Coherent(i) => Coherent(j)

\* alloc_cluster counts the cluster and drops its table from the cache.
LEMMA AllocFacts ==
    ASSUME NEW i \in ImageType, Free(i) # {}
    PROVE  NewEffect(i, Lowest(i), Alloc(i))
<1> USE Zenon
<1> DEFINE n == Lowest(i)
           j == Alloc(i)
           r == [i.rc EXCEPT ![n] = 1]
           c == [h \in (DOMAIN i.cache) \ {n} |-> i.cache[h]]
<1>1. n \in Host /\ i.rc[n] = 0  BY FreeCluster
<1> HIDE DEF n
<1>2. j = [i EXCEPT !.rc = r, !.cache = c]  BY DEF Alloc, Restrict, ImageType, n
<1>3. r \in [Host -> Int]  BY <1>1, FieldTypes, SMT
<1>4. c \in CacheType /\ DOMAIN c = (DOMAIN i.cache) \ {n}
  <2>1. (DOMAIN i.cache) \ {n} \in SUBSET Host  BY FieldTypes
  <2>2. c \in [(DOMAIN i.cache) \ {n} -> [entries : TableType, dirty : BOOLEAN]]  BY FieldTypes
  <2> QED BY <2>1, <2>2, CacheIntro
<1>5. \A x \in DOMAIN c : c[x] = i.cache[x]  OBVIOUS
<1> HIDE DEF r, c, j
<1>6. /\ j \in ImageType /\ j.rc = r /\ j.cache = c
      /\ j.l1 = i.l1 /\ j.flushed = i.flushed /\ j.table = i.table
      /\ j.data = i.data /\ j.snaps = i.snaps /\ j.list = i.list
    BY <1>2, <1>3, <1>4 DEF ImageType
<1>7. \A x \in Host : x # n => Table(j, x) = Table(i, x)  BY <1>4, <1>5, <1>6 DEF Table
<1>8. Coherent(i) => Coherent(j)  BY <1>4, <1>5, <1>6 DEF Coherent
<1>9. j.rc = [i.rc EXCEPT ![n] = 1]  BY <1>6 DEF r
<1>10. n = Lowest(i)  BY DEF n
<1>11. NewEffect(i, n, j)  BY <1>1, <1>4, <1>6, <1>7, <1>8, <1>9, <1>10 DEF NewEffect
<1> QED BY <1>11 DEF j, n

\* A table is written to a fresh cluster.
LEMMA NewTableFacts ==
    ASSUME NEW i \in ImageType, Free(i) # {}, NEW t \in TableType
    PROVE  LET j == WriteTable(Alloc(i), Lowest(i), t)
           IN  NewEffect(i, Lowest(i), j) /\ Table(j, Lowest(i)) = t
<1> USE Zenon
<1> DEFINE n == Lowest(i)
           k == Alloc(i)
           j == WriteTable(k, n, t)
           tt == [k.table EXCEPT ![n] = t]
           dd == [k.data EXCEPT ![n] = JunkCluster]
<1>1. NewEffect(i, n, k)  BY AllocFacts
<1> HIDE DEF n, k
<1>2. /\ n \in Host /\ i.rc[n] = 0 /\ n = Lowest(i) /\ k \in ImageType
      /\ k.l1 = i.l1 /\ k.flushed = i.flushed /\ k.snaps = i.snaps /\ k.list = i.list
      /\ k.rc = [i.rc EXCEPT ![n] = 1]
      /\ DOMAIN k.cache = (DOMAIN i.cache) \ {n}
      /\ \A x \in Host : x # n => /\ Table(k, x) = Table(i, x)
                                  /\ k.table[x] = i.table[x] /\ k.data[x] = i.data[x]
      /\ Coherent(i) => Coherent(k)
    BY <1>1 DEF NewEffect
<1>3. j = [k EXCEPT !.table = tt, !.data = dd]  BY <1>2 DEF WriteTable, ImageType
<1>4. /\ tt \in [Host -> TableType] /\ tt[n] = t
      /\ \A x \in Host : x # n => tt[x] = k.table[x]
    BY <1>2, FieldTypes
<1>5. JunkCluster \in ClusterType  BY DEF JunkCluster, ClusterType, Readable
<1>6. /\ dd \in [Host -> ClusterType]
      /\ \A x \in Host : x # n => dd[x] = k.data[x]
    BY <1>2, <1>5, FieldTypes
<1> HIDE DEF tt, dd, j
<1>7. /\ j \in ImageType /\ j.table = tt /\ j.data = dd /\ j.cache = k.cache
      /\ j.l1 = k.l1 /\ j.flushed = k.flushed /\ j.rc = k.rc
      /\ j.snaps = k.snaps /\ j.list = k.list
    BY <1>2, <1>3, <1>4, <1>6 DEF ImageType
<1>8. Table(j, n) = t  BY <1>2, <1>4, <1>7 DEF Table
<1>9. ASSUME NEW x \in Host, x # n
      PROVE  Table(j, x) = Table(i, x) /\ j.table[x] = i.table[x] /\ j.data[x] = i.data[x]
  <2>1. Table(j, x) = Table(k, x)  BY <1>4, <1>7, <1>9 DEF Table
  <2> QED BY <1>2, <1>4, <1>6, <1>7, <1>9, <2>1
<1>10. ASSUME Coherent(i) PROVE Coherent(j)
  <2>1. DOMAIN k.cache \subseteq Host  BY <1>2, FieldTypes
  <2> QED BY <1>2, <1>4, <1>7, <1>10, <2>1 DEF Coherent
<1>11. NewEffect(i, n, j)  BY <1>2, <1>7, <1>9, <1>10 DEF NewEffect
<1> QED BY <1>8, <1>11 DEF j, k, n

\* Data is written to a fresh cluster.
LEMMA NewDataFacts ==
    ASSUME NEW i \in ImageType, Free(i) # {}, NEW d \in ClusterType
    PROVE  LET j == WriteData(Alloc(i), Lowest(i), d)
           IN  NewEffect(i, Lowest(i), j) /\ j.data[Lowest(i)] = d
<1> USE Zenon
<1> DEFINE n == Lowest(i)
           k == Alloc(i)
           j == WriteData(k, n, d)
           tt == [k.table EXCEPT ![n] = Blank]
           dd == [k.data EXCEPT ![n] = d]
<1>1. NewEffect(i, n, k)  BY AllocFacts
<1> HIDE DEF n, k
<1>2. /\ n \in Host /\ i.rc[n] = 0 /\ n = Lowest(i) /\ k \in ImageType
      /\ k.l1 = i.l1 /\ k.flushed = i.flushed /\ k.snaps = i.snaps /\ k.list = i.list
      /\ k.rc = [i.rc EXCEPT ![n] = 1]
      /\ DOMAIN k.cache = (DOMAIN i.cache) \ {n}
      /\ \A x \in Host : x # n => /\ Table(k, x) = Table(i, x)
                                  /\ k.table[x] = i.table[x] /\ k.data[x] = i.data[x]
      /\ Coherent(i) => Coherent(k)
    BY <1>1 DEF NewEffect
<1>3. j = [k EXCEPT !.data = dd, !.table = tt]  BY <1>2 DEF WriteData, ImageType
<1>4. Blank \in TableType  BY BlankType
<1>5. /\ tt \in [Host -> TableType]
      /\ \A x \in Host : x # n => tt[x] = k.table[x]
    BY <1>2, <1>4, FieldTypes
<1>6. /\ dd \in [Host -> ClusterType] /\ dd[n] = d
      /\ \A x \in Host : x # n => dd[x] = k.data[x]
    BY <1>2, FieldTypes
<1> HIDE DEF tt, dd, j
<1>7. /\ j \in ImageType /\ j.table = tt /\ j.data = dd /\ j.cache = k.cache
      /\ j.l1 = k.l1 /\ j.flushed = k.flushed /\ j.rc = k.rc
      /\ j.snaps = k.snaps /\ j.list = k.list
    BY <1>2, <1>3, <1>5, <1>6 DEF ImageType
<1>8. j.data[n] = d  BY <1>6, <1>7
<1>9. ASSUME NEW x \in Host, x # n
      PROVE  Table(j, x) = Table(i, x) /\ j.table[x] = i.table[x] /\ j.data[x] = i.data[x]
  <2>1. Table(j, x) = Table(k, x)  BY <1>5, <1>7, <1>9 DEF Table
  <2> QED BY <1>2, <1>5, <1>6, <1>7, <1>9, <2>1
<1>10. ASSUME Coherent(i) PROVE Coherent(j)
  <2>1. DOMAIN k.cache \subseteq Host  BY <1>2, FieldTypes
  <2> QED BY <1>2, <1>5, <1>7, <1>10, <2>1 DEF Coherent
<1>11. NewEffect(i, n, j)  BY <1>2, <1>7, <1>9, <1>10 DEF NewEffect
<1> QED BY <1>8, <1>11 DEF j, k, n

\* What dec_refcount does to an image.
DecEffect(i, h, j) ==
    /\ j \in ImageType
    /\ j.l1 = i.l1 /\ j.cache = i.cache /\ j.flushed = i.flushed /\ j.table = i.table
    /\ j.data = i.data /\ j.snaps = i.snaps /\ j.list = i.list
    /\ \A x \in Host : j.rc[x] = IF x = h THEN i.rc[x] - 1 ELSE i.rc[x]
    /\ \A x \in Host : Table(j, x) = Table(i, x)
    /\ Coherent(i) => Coherent(j)

\* dec_refcount lowers one count.
LEMMA DecFacts ==
    ASSUME NEW i \in ImageType, NEW h \in 0 .. HostClusters
    PROVE  DecEffect(i, h, Dec(i, h))
<1> USE Zenon
<1>1. CASE h = 0
  <2>1. 0 \notin Host  BY SMT DEF Host
  <2> QED BY <1>1, <2>1 DEF Dec, DecEffect
<1>2. CASE h # 0
  <2> DEFINE j == Dec(i, h)
             r == [i.rc EXCEPT ![h] = i.rc[h] - 1]
  <2>1. h \in Host  BY <1>2, SizeAssumption, SMT DEF Host
  <2>2. j = [i EXCEPT !.rc = r]  BY <1>2 DEF Dec, ImageType
  <2>3. i.rc \in [Host -> Int]  BY FieldTypes
  <2>4. /\ r \in [Host -> Int]
        /\ \A x \in Host : r[x] = IF x = h THEN i.rc[x] - 1 ELSE i.rc[x]
    BY <2>1, <2>3, SMT
  <2> HIDE DEF r, j
  <2>5. /\ j \in ImageType /\ j.rc = r
        /\ j.l1 = i.l1 /\ j.cache = i.cache /\ j.flushed = i.flushed /\ j.table = i.table
        /\ j.data = i.data /\ j.snaps = i.snaps /\ j.list = i.list
    BY <2>2, <2>4 DEF ImageType
  <2>6. DecEffect(i, h, j)  BY <2>4, <2>5 DEF DecEffect, Table, Coherent
  <2> QED BY <2>6 DEF j
<1> QED BY <1>1, <1>2

-------------------------------------------------------------------------------
(* Counting references. *)

\* A layer has finitely many positions.
LEMMA PositionFinite == IsFiniteSet(Position)
<1> USE Zenon
<1>1. IsFiniteSet({"disk"}) /\ IsFiniteSet({0})  BY FS_Singleton
<1>2. IsFiniteSet({"disk"} \union {"state"})  BY <1>1, FS_AddElement
<1>3. Area = {"disk"} \union {"state"}  BY DEF Area
<1>4. IsFiniteSet(1 .. 2)
  <2>1. 1 \in Int /\ 2 \in Int  BY SMT
  <2> QED BY <2>1, FS_Interval
<1>5. IsFiniteSet({0} \union Slot)  BY <1>1, <1>4, FS_Union DEF Slot
<1> QED BY <1>2, <1>3, <1>5, FS_Product DEF Position

\* Two sets of positions that differ in one element at most.
LEMMA OneMoves ==
    ASSUME NEW S \in SUBSET Position, NEW T \in SUBSET Position, NEW v,
           \A u \in Position : u # v => (u \in S <=> u \in T)
    PROVE  Cardinality(T) = Cardinality(S) - (IF v \in S THEN 1 ELSE 0)
                                           + (IF v \in T THEN 1 ELSE 0)
<1>1. IsFiniteSet(S) /\ IsFiniteSet(T)  BY PositionFinite, FS_Subset, Zenon
<1>2. Cardinality(S) \in Nat /\ Cardinality(T) \in Nat  BY <1>1, FS_CardinalityType, Zenon
<1>3. S \ {v} = T \ {v}  OBVIOUS
<1>4. Cardinality(S \ {v}) = IF v \in S THEN Cardinality(S) - 1 ELSE Cardinality(S)
    BY <1>1, FS_RemoveElement, Zenon
<1>5. Cardinality(T \ {v}) = IF v \in T THEN Cardinality(T) - 1 ELSE Cardinality(T)
    BY <1>1, FS_RemoveElement, Zenon
<1> QED BY <1>2, <1>3, <1>4, <1>5, SMT

\* The references of a layer are a number.
LEMMA RefsType ==
    ASSUME NEW i, NEW l, NEW h
    PROVE  /\ IsFiniteSet({u \in Position : Target(i, l, u) = h})
           /\ Refs(i, l, h) \in Nat
<1> USE Zenon
<1> DEFINE S == {u \in Position : Target(i, l, u) = h}
<1>1. S \in SUBSET Position  OBVIOUS
<1>2. Refs(i, l, h) = Cardinality(S)  BY DEF Refs
<1> HIDE DEF S
<1>3. IsFiniteSet(S)  BY <1>1, PositionFinite, FS_Subset
<1> QED BY <1>2, <1>3, FS_CardinalityType DEF S

\* The references of the snapshots are a number.
LEMMA HeldType ==
    ASSUME NEW i, NEW sn, IsFiniteSet(DOMAIN sn), NEW h
    PROVE  /\ IsFiniteSet({x \in (DOMAIN sn) \X Position : Target(i, sn[x[1]].l1, x[2]) = h})
           /\ IsFiniteSet({n \in DOMAIN sn : sn[n].at = h})
           /\ Cardinality({x \in (DOMAIN sn) \X Position : Target(i, sn[x[1]].l1, x[2]) = h}) \in Nat
           /\ Cardinality({n \in DOMAIN sn : sn[n].at = h}) \in Nat
           /\ Held(i, sn, h) \in Nat
<1> DEFINE S == {x \in (DOMAIN sn) \X Position : Target(i, sn[x[1]].l1, x[2]) = h}
           T == {n \in DOMAIN sn : sn[n].at = h}
<1>1. S \in SUBSET ((DOMAIN sn) \X Position) /\ T \in SUBSET DOMAIN sn  BY Zenon
<1>2. Held(i, sn, h) = Cardinality(S) + Cardinality(T)  BY Zenon DEF Held
<1> HIDE DEF S, T
<1>3. IsFiniteSet((DOMAIN sn) \X Position)  BY PositionFinite, FS_Product, Zenon
<1>4. IsFiniteSet(S) /\ IsFiniteSet(T)  BY <1>1, <1>3, FS_Subset, Zenon
<1>5. Cardinality(S) \in Nat /\ Cardinality(T) \in Nat  BY <1>4, FS_CardinalityType, Zenon
<1>6. Held(i, sn, h) \in Nat  BY <1>2, <1>5, SMT
<1> QED BY <1>4, <1>5, <1>6, Zenon DEF S, T

\* A layer that refers to the same clusters makes the same references.
LEMMA SameRefs ==
    ASSUME NEW i, NEW j, NEW l, NEW m, NEW h,
           \A u \in Position : Target(j, m, u) = Target(i, l, u)
    PROVE  Refs(j, m, h) = Refs(i, l, h)
<1>1. {u \in Position : Target(j, m, u) = h} = {u \in Position : Target(i, l, u) = h}  BY Zenon
<1> QED BY <1>1, Zenon DEF Refs

\* Snapshots with the same references have the same count of them.
LEMMA SameHeld ==
    ASSUME NEW i, NEW j, NEW sn, NEW h,
           \A n \in DOMAIN sn, u \in Position : Target(j, sn[n].l1, u) = Target(i, sn[n].l1, u)
    PROVE  Held(j, sn, h) = Held(i, sn, h)
<1> DEFINE P == (DOMAIN sn) \X Position
<1>1. \A x \in P : x[1] \in DOMAIN sn /\ x[2] \in Position  OBVIOUS
<1>2. {x \in P : Target(j, sn[x[1]].l1, x[2]) = h} = {x \in P : Target(i, sn[x[1]].l1, x[2]) = h}
  <2> HIDE DEF P
  <2> QED BY <1>1, Zenon
<1> QED BY <1>2, Zenon DEF Held

\* A position that is given another cluster.
LEMMA MovedRefs ==
    ASSUME NEW i, NEW j, NEW l, NEW m, NEW h, NEW v \in Position,
           \A u \in Position : u # v => Target(j, m, u) = Target(i, l, u)
    PROVE  Refs(j, m, h) = Refs(i, l, h) - (IF Target(i, l, v) = h THEN 1 ELSE 0)
                                         + (IF Target(j, m, v) = h THEN 1 ELSE 0)
<1> DEFINE S == {u \in Position : Target(i, l, u) = h}
           T == {u \in Position : Target(j, m, u) = h}
<1>1. S \in SUBSET Position /\ T \in SUBSET Position  BY Zenon
<1>2. \A u \in Position : u # v => (u \in S <=> u \in T)  BY Zenon
<1>3. (v \in S <=> Target(i, l, v) = h) /\ (v \in T <=> Target(j, m, v) = h)  BY Zenon
<1>4. Refs(i, l, h) = Cardinality(S) /\ Refs(j, m, h) = Cardinality(T)  BY Zenon DEF Refs
<1> HIDE DEF S, T
<1>5. Cardinality(T) = Cardinality(S) - (IF v \in S THEN 1 ELSE 0) + (IF v \in T THEN 1 ELSE 0)
    BY <1>1, <1>2, OneMoves, Zenon
<1> QED BY <1>3, <1>4, <1>5, Zenon

\* A snapshot more.
HeldMore(i, sn, m, k, h) ==
    Held(i, m, h) = Held(i, sn, h) + Refs(i, m[k].l1, h) + (IF m[k].at = h THEN 1 ELSE 0)

\* A snapshot more adds the references of its layer, and that to its L1 table.
LEMMA OneMoreHeld ==
    ASSUME NEW i, NEW sn, NEW m, NEW k, NEW h,
           IsFiniteSet(DOMAIN sn), k \notin DOMAIN sn,
           DOMAIN m = DOMAIN sn \union {k}, \A n \in DOMAIN sn : m[n] = sn[n]
    PROVE  IsFiniteSet(DOMAIN m) /\ HeldMore(i, sn, m, k, h)
<1> DEFINE S == {x \in (DOMAIN sn) \X Position : Target(i, sn[x[1]].l1, x[2]) = h}
           SS == {x \in (DOMAIN m) \X Position : Target(i, m[x[1]].l1, x[2]) = h}
           R == {u \in Position : Target(i, m[k].l1, u) = h}
           A == {n \in DOMAIN sn : sn[n].at = h}
           AA == {n \in DOMAIN m : m[n].at = h}
<1>1. IsFiniteSet(DOMAIN m)  BY FS_AddElement, Zenon
<1>2. /\ Held(i, sn, h) = Cardinality(S) + Cardinality(A)
      /\ Held(i, m, h) = Cardinality(SS) + Cardinality(AA)
      /\ Refs(i, m[k].l1, h) = Cardinality(R)
    BY Zenon DEF Held, Refs
<1>3. IsFiniteSet(S) /\ IsFiniteSet(A) /\ IsFiniteSet(R)
  <2>1. S \in SUBSET ((DOMAIN sn) \X Position) /\ A \in SUBSET DOMAIN sn /\ R \in SUBSET Position
    BY Zenon
  <2>2. IsFiniteSet((DOMAIN sn) \X Position)  BY PositionFinite, FS_Product, Zenon
  <2> HIDE DEF S, A, R
  <2> QED BY <2>1, <2>2, PositionFinite, FS_Subset, Zenon
<1>4. SS = S \union ({k} \X R)
  <2>1. ASSUME NEW x \in SS PROVE x \in S \union ({k} \X R)
    <3>1. /\ x \in (DOMAIN m) \X Position /\ x[1] \in DOMAIN m /\ x[2] \in Position
          /\ Target(i, m[x[1]].l1, x[2]) = h
        OBVIOUS
    <3>2. CASE x[1] = k
      <4>1. x[2] \in R  BY <3>1, <3>2, Zenon
      <4>2. x = <<x[1], x[2]>>  BY <3>1
      <4> HIDE DEF R
      <4> QED BY <3>2, <4>1, <4>2
    <3>3. CASE x[1] # k
      <4>1. x[1] \in DOMAIN sn /\ m[x[1]] = sn[x[1]]  BY <3>1, <3>3, Zenon
      <4>2. x \in (DOMAIN sn) \X Position  BY <3>1, <4>1
      <4> QED BY <3>1, <4>1, <4>2, Zenon
    <3> QED BY <3>2, <3>3
  <2>2. ASSUME NEW x \in S PROVE x \in SS
    <3>1. x[1] \in DOMAIN sn /\ x[1] \in DOMAIN m /\ x \in (DOMAIN m) \X Position  OBVIOUS
    <3>2. m[x[1]] = sn[x[1]]  BY <3>1, Zenon
    <3> QED BY <3>1, <3>2, Zenon
  <2>3. ASSUME NEW x \in {k} \X R PROVE x \in SS
    <3>1. x[1] = k /\ x[2] \in R /\ x = <<x[1], x[2]>>  OBVIOUS
    <3>2. x[2] \in Position /\ Target(i, m[k].l1, x[2]) = h  BY <3>1, Zenon
    <3>3. x \in (DOMAIN m) \X Position  BY <3>1, <3>2, Zenon
    <3> QED BY <3>1, <3>2, <3>3, Zenon
  <2> QED BY <2>1, <2>2, <2>3, Zenon
<1>5. S \intersect ({k} \X R) = {}
  <2> SUFFICES ASSUME NEW x \in S, x \in {k} \X R PROVE FALSE  BY Zenon
  <2>1. x[1] \in DOMAIN sn /\ x[1] = k  OBVIOUS
  <2> QED BY <2>1
<1>6. AA = IF m[k].at = h THEN A \union {k} ELSE A  BY Zenon
<1>7. k \notin A  BY Zenon
<1> HIDE DEF S, SS, R, A, AA
<1>8. IsFiniteSet({k}) /\ Cardinality({k}) = 1  BY FS_Singleton, Zenon
<1>9. Cardinality(R) \in Nat /\ Cardinality(S) \in Nat /\ Cardinality(A) \in Nat
    BY <1>3, FS_CardinalityType, Zenon
<1>10. IsFiniteSet({k} \X R) /\ Cardinality({k} \X R) = 1 * Cardinality(R)
    BY <1>3, <1>8, FS_Product
<1>11. Cardinality(SS) = Cardinality(S) + Cardinality({k} \X R) - Cardinality({})
  <2> DEFINE K == {k} \X R
  <2>1. IsFiniteSet(K) /\ SS = S \union K /\ S \intersect K = {}  BY <1>4, <1>5, <1>10
  <2> HIDE DEF K
  <2>2. Cardinality(S \union K) = Cardinality(S) + Cardinality(K) - Cardinality(S \intersect K)
    BY <1>3, <2>1, FS_Union, Zenon
  <2> QED BY <2>1, <2>2, Zenon DEF K
<1>12. Cardinality({}) = 0  BY FS_EmptySet, Zenon
<1>13. Cardinality(AA) = Cardinality(A) + (IF m[k].at = h THEN 1 ELSE 0)
  <2>1. CASE m[k].at = h
    <3>1. Cardinality(AA) = Cardinality(A) + 1  BY <1>3, <1>6, <1>7, <2>1, FS_AddElement, Zenon
    <3> QED BY <2>1, <3>1, Zenon
  <2>2. CASE m[k].at # h
    <3>1. AA = A  BY <1>6, <2>2, Zenon
    <3> QED BY <1>9, <2>2, <3>1, SMT
  <2> QED BY <2>1, <2>2
<1>14. HeldMore(i, sn, m, k, h)
    BY <1>2, <1>9, <1>10, <1>11, <1>12, <1>13, SMT DEF HeldMore
<1> QED BY <1>1, <1>14

\* Nothing refers to h.
NotUsed(i, sn, h) ==
    /\ i.list # h
    /\ \A l \in Layers(i, sn), u \in Position : Target(i, l, u) # h
    /\ \A n \in DOMAIN sn : sn[n].at # h

\* u is the only position that refers to h.
SoleUse(i, sn, h, u) ==
    /\ i.list # h
    /\ \A v \in Position : Target(i, i.l1, v) = h => v = u
    /\ \A n \in DOMAIN sn, v \in Position : Target(i, sn[n].l1, v) # h
    /\ \A n \in DOMAIN sn : sn[n].at # h

\* A set without elements, and a set of one.
LEMMA NoElement ==
    ASSUME NEW S, IsFiniteSet(S), Cardinality(S) = 0
    PROVE  \A x : x \notin S
BY FS_EmptySet, Zenon

\* A set with an element has one at least, and no other if its size is one.
LEMMA OneElement ==
    ASSUME NEW S, IsFiniteSet(S), NEW x \in S
    PROVE  /\ Cardinality(S) >= 1
           /\ Cardinality(S) = 1 => \A y \in S : y = x
<1>1. Cardinality(S) \in Nat  BY FS_CardinalityType, Zenon
<1>2. Cardinality(S) # 0  BY NoElement, Zenon
<1>3. Cardinality(S) = 1 => \A y \in S : y = x
  <2> SUFFICES ASSUME Cardinality(S) = 1 PROVE \A y \in S : y = x  OBVIOUS
  <2>1. PICK z : S = {z}  BY FS_Singleton, Zenon
  <2> QED BY <2>1, Zenon
<1> QED BY <1>1, <1>2, <1>3, SMT

\* The references to h: of the active layer, of the snapshots' layers, of their L1 tables.
RefSet(i, h) == {u \in Position : Target(i, i.l1, u) = h}

\* The terms of a balance, as sets.
HeldSet(i, sn, h) == {x \in (DOMAIN sn) \X Position : Target(i, sn[x[1]].l1, x[2]) = h}
AtSet(sn, h) == {n \in DOMAIN sn : sn[n].at = h}

BalanceOf(i, sn, h) ==
    /\ IsFiniteSet(RefSet(i, h)) /\ IsFiniteSet(HeldSet(i, sn, h)) /\ IsFiniteSet(AtSet(sn, h))
    /\ Cardinality(RefSet(i, h)) \in Nat /\ Cardinality(HeldSet(i, sn, h)) \in Nat
    /\ Cardinality(AtSet(sn, h)) \in Nat
    /\ i.rc[h] = Cardinality(RefSet(i, h))
                   + (Cardinality(HeldSet(i, sn, h)) + Cardinality(AtSet(sn, h)))
                   + (IF i.list = h THEN 1 ELSE 0)

\* A count is the sum of finite sets of references.
LEMMA Terms ==
    ASSUME NEW i \in ImageType, NEW sn, IsFiniteSet(DOMAIN sn), Balanced(i, sn), NEW h \in Host
    PROVE  BalanceOf(i, sn, h)
<1> USE Zenon
<1>1. /\ HeldSet(i, sn, h) \in SUBSET ((DOMAIN sn) \X Position)
      /\ AtSet(sn, h) \in SUBSET DOMAIN sn /\ RefSet(i, h) \in SUBSET Position
    BY DEF HeldSet, AtSet, RefSet
<1>2. IsFiniteSet((DOMAIN sn) \X Position)  BY PositionFinite, FS_Product
<1>3. i.rc[h] = Cardinality(RefSet(i, h))
                  + (Cardinality(HeldSet(i, sn, h)) + Cardinality(AtSet(sn, h)))
                  + (IF i.list = h THEN 1 ELSE 0)
    BY DEF Balanced, Refs, Held, HeldSet, AtSet, RefSet
<1>4. IsFiniteSet(RefSet(i, h)) /\ IsFiniteSet(HeldSet(i, sn, h)) /\ IsFiniteSet(AtSet(sn, h))
    BY <1>1, <1>2, PositionFinite, FS_Subset
<1>5. /\ Cardinality(RefSet(i, h)) \in Nat /\ Cardinality(HeldSet(i, sn, h)) \in Nat
      /\ Cardinality(AtSet(sn, h)) \in Nat
    BY <1>4, FS_CardinalityType
<1> QED BY <1>3, <1>4, <1>5 DEF BalanceOf

\* A cluster counted 0 is used nowhere.
LEMMA FreeNotUsed ==
    ASSUME NEW i \in ImageType, NEW sn, IsFiniteSet(DOMAIN sn), Balanced(i, sn),
           NEW h \in Host, i.rc[h] = 0
    PROVE  NotUsed(i, sn, h)
<1> USE Zenon
<1> DEFINE R == RefSet(i, h)
           S == HeldSet(i, sn, h)
           A == AtSet(sn, h)
<1>0. BalanceOf(i, sn, h)  BY Terms
<1>1. /\ IsFiniteSet(R) /\ IsFiniteSet(S) /\ IsFiniteSet(A)
      /\ Cardinality(R) \in Nat /\ Cardinality(S) \in Nat /\ Cardinality(A) \in Nat
      /\ i.rc[h] = Cardinality(R) + (Cardinality(S) + Cardinality(A))
                     + (IF i.list = h THEN 1 ELSE 0)
    BY <1>0 DEF BalanceOf
<1>2. Cardinality(R) = 0 /\ Cardinality(S) = 0 /\ Cardinality(A) = 0 /\ i.list # h
  <2> HIDE DEF R, S, A
  <2> QED BY <1>1, SMTT(30)
<1>3. \A u \in Position : Target(i, i.l1, u) # h
  <2>1. \A u : u \notin R
    <3> HIDE DEF R
    <3> QED BY <1>1, <1>2, NoElement
  <2> QED BY <2>1 DEF RefSet
<1>4. \A n \in DOMAIN sn, u \in Position : Target(i, sn[n].l1, u) # h
  <2>1. \A x : x \notin S
    <3> HIDE DEF S
    <3> QED BY <1>1, <1>2, NoElement
  <2> SUFFICES ASSUME NEW n \in DOMAIN sn, NEW u \in Position, Target(i, sn[n].l1, u) = h
               PROVE  FALSE
    OBVIOUS
  <2>2. <<n, u>> \in S  BY DEF HeldSet
  <2> QED BY <2>1, <2>2
<1>5. \A n \in DOMAIN sn : sn[n].at # h
  <2>1. \A x : x \notin A
    <3> HIDE DEF A
    <3> QED BY <1>1, <1>2, NoElement
  <2> QED BY <2>1 DEF AtSet
<1> QED BY <1>2, <1>3, <1>4, <1>5 DEF NotUsed, Layers

\* A cluster counted 1 that the active layer uses is used nowhere else.
LEMMA UsedOnce ==
    ASSUME NEW i \in ImageType, NEW sn, IsFiniteSet(DOMAIN sn), Balanced(i, sn),
           NEW h \in Host, i.rc[h] = 1, NEW u \in Position, Target(i, i.l1, u) = h
    PROVE  SoleUse(i, sn, h, u)
<1> USE Zenon
<1> DEFINE R == RefSet(i, h)
           S == HeldSet(i, sn, h)
           A == AtSet(sn, h)
<1>0. BalanceOf(i, sn, h)  BY Terms
<1>1. /\ IsFiniteSet(R) /\ IsFiniteSet(S) /\ IsFiniteSet(A)
      /\ Cardinality(R) \in Nat /\ Cardinality(S) \in Nat /\ Cardinality(A) \in Nat
      /\ i.rc[h] = Cardinality(R) + (Cardinality(S) + Cardinality(A))
                     + (IF i.list = h THEN 1 ELSE 0)
    BY <1>0 DEF BalanceOf
<1>2. u \in R  BY DEF RefSet
<1>3. Cardinality(R) = 1 /\ Cardinality(S) = 0 /\ Cardinality(A) = 0 /\ i.list # h
  <2> HIDE DEF R, S, A
  <2>1. Cardinality(R) >= 1  BY <1>1, <1>2, OneElement
  <2> QED BY <1>1, <2>1, SMT
<1>4. \A v \in Position : Target(i, i.l1, v) = h => v = u
  <2>1. \A v \in R : v = u
    <3> HIDE DEF R
    <3> QED BY <1>1, <1>2, <1>3, OneElement
  <2> QED BY <2>1 DEF RefSet
<1>5. \A n \in DOMAIN sn, v \in Position : Target(i, sn[n].l1, v) # h
  <2>1. \A x : x \notin S
    <3> HIDE DEF S
    <3> QED BY <1>1, <1>3, NoElement
  <2> SUFFICES ASSUME NEW n \in DOMAIN sn, NEW v \in Position, Target(i, sn[n].l1, v) = h
               PROVE  FALSE
    OBVIOUS
  <2>2. <<n, v>> \in S  BY DEF HeldSet
  <2> QED BY <2>1, <2>2
<1>6. \A n \in DOMAIN sn : sn[n].at # h
  <2>1. \A x : x \notin A
    <3> HIDE DEF A
    <3> QED BY <1>1, <1>3, NoElement
  <2> QED BY <2>1 DEF AtSet
<1> QED BY <1>3, <1>4, <1>5, <1>6 DEF SoleUse

\* A cluster in use is counted.
LEMMA UsedCounted ==
    ASSUME NEW i \in ImageType, NEW sn, IsFiniteSet(DOMAIN sn), Balanced(i, sn), NEW h \in Host
    PROVE  /\ i.rc[h] \in Nat
           /\ ~NotUsed(i, sn, h) => i.rc[h] >= 1
<1> USE Zenon
<1>1. i.rc[h] \in Nat
  <2> DEFINE R == RefSet(i, h)
             S == HeldSet(i, sn, h)
             A == AtSet(sn, h)
  <2>1. /\ Cardinality(R) \in Nat /\ Cardinality(S) \in Nat /\ Cardinality(A) \in Nat
        /\ i.rc[h] = Cardinality(R) + (Cardinality(S) + Cardinality(A))
                       + (IF i.list = h THEN 1 ELSE 0)
    BY Terms DEF BalanceOf
  <2> HIDE DEF R, S, A
  <2> QED BY <2>1, SMT
<1>2. ~NotUsed(i, sn, h) => i.rc[h] # 0  BY FreeNotUsed
<1> QED BY <1>1, <1>2, SMT

-------------------------------------------------------------------------------
(* The clusters a layer refers to. *)

\* The image i with the snapshots sn: what the operations rely on and keep.
Sound(i, sn) ==
    /\ i \in ImageType /\ sn \in SnapsType /\ IsFiniteSet(DOMAIN sn)
    /\ Coherent(i) /\ Balanced(i, sn) /\ Placed(i, sn) /\ OnlyTables(i, sn)

\* The positions of a layer.
LEMMA Positions ==
    /\ \A u \in Position : /\ u[1] \in Area /\ u[2] \in {0} \union Slot
                           /\ u = <<u[1], u[2]>> /\ (u[2] # 0 => u[2] \in Slot)
    /\ \A a \in Area : <<a, 0>> \in Position /\ <<a, 0>>[1] = a /\ <<a, 0>>[2] = 0
    /\ \A a \in Area, s \in Slot : /\ <<a, s>> \in Position /\ <<a, s>>[1] = a
                                   /\ <<a, s>>[2] = s /\ s # 0
    /\ 0 \notin Slot
BY SMT DEF Position, Slot

\* No cluster is numbered 0.
LEMMA HostRange ==
    /\ 0 \notin Host /\ 0 .. HostClusters = {0} \union Host
BY SizeAssumption, SMT DEF Host

\* What an entry names is a cluster, or 0.
LEMMA EntryHost ==
    /\ \A l \in L1Type, a \in Area :
          l[a] \in EntryType /\ l[a].host \in 0 .. HostClusters /\ (l[a].host # 0 => l[a].host \in Host)
    /\ \A t \in TableType, s \in Slot :
          t[s] \in EntryType /\ t[s].host \in 0 .. HostClusters /\ (t[s].host # 0 => t[s].host \in Host)
<1> USE Zenon
<1>1. \A e \in EntryType : e.host \in 0 .. HostClusters  BY DEF EntryType
<1>2. \A e \in EntryType : e.host # 0 => e.host \in Host  BY <1>1, HostRange
<1> QED BY <1>1, <1>2 DEF L1Type, TableType

\* What is known of a snapshot.
LEMMA SnapFacts ==
    ASSUME NEW sn \in SnapsType
    PROVE  /\ DOMAIN sn \subseteq Name
           /\ \A n \in DOMAIN sn : /\ sn[n] \in [at : 0 .. HostClusters, l1 : L1Type]
                                   /\ sn[n].l1 \in L1Type /\ sn[n].at \in 0 .. HostClusters
BY Zenon DEF SnapsType

\* A layer is an L1 table.
LEMMA LayerTypes ==
    ASSUME NEW i \in ImageType, NEW sn \in SnapsType, NEW l \in Layers(i, sn)
    PROVE  l \in L1Type
<1> USE Zenon
<1>1. i.l1 \in L1Type  BY FieldTypes
<1> QED BY <1>1, SnapFacts DEF Layers

\* A position refers to a cluster, or to 0.
LEMMA TargetType ==
    ASSUME NEW i \in ImageType, NEW l \in L1Type, NEW u \in Position
    PROVE  /\ Target(i, l, u) \in 0 .. HostClusters
           /\ Target(i, l, u) # 0 => Target(i, l, u) \in Host
<1> USE Zenon
<1>1. u[1] \in Area /\ (u[2] # 0 => u[2] \in Slot)  BY Positions
<1>2. l[u[1]].host \in 0 .. HostClusters  BY <1>1, EntryHost
<1>3. Target(i, l, u) \in 0 .. HostClusters
  <2>1. CASE u[2] = 0  BY <1>2, <2>1 DEF Target
  <2>2. CASE u[2] # 0 /\ l[u[1]].host = 0  BY <1>2, <2>2 DEF Target
  <2>3. CASE u[2] # 0 /\ l[u[1]].host # 0
    <3>1. l[u[1]].host \in Host  BY <1>1, <2>3, EntryHost
    <3>2. Table(i, l[u[1]].host) \in TableType  BY <3>1, FieldTypes
    <3>3. Table(i, l[u[1]].host)[u[2]].host \in 0 .. HostClusters  BY <1>1, <2>3, <3>2, EntryHost
    <3> QED BY <2>3, <3>3 DEF Target
  <2> QED BY <2>1, <2>2, <2>3
<1> QED BY <1>3, HostRange

\* A cluster under a layer is in the layer's count.
LEMMA InUse ==
    ASSUME NEW i, NEW sn, Sound(i, sn), NEW l \in Layers(i, sn), NEW u \in Position,
           Target(i, l, u) # 0
    PROVE  Target(i, l, u) \in Host /\ i.rc[Target(i, l, u)] \in Nat /\ i.rc[Target(i, l, u)] >= 1
<1> USE Zenon
<1> DEFINE h == Target(i, l, u)
<1>1. l \in L1Type  BY LayerTypes DEF Sound
<1>2. h \in Host  BY <1>1, TargetType DEF Sound
<1>3. ~NotUsed(i, sn, h)  BY DEF NotUsed
<1> HIDE DEF h
<1>4. i.rc[h] \in Nat /\ i.rc[h] >= 1  BY <1>2, <1>3, UsedCounted DEF Sound
<1> QED BY <1>2, <1>4 DEF h

\* A free cluster is no table of any layer.
LEMMA FreeNoTable ==
    ASSUME NEW i, NEW sn, Sound(i, sn), NEW n \in Host, i.rc[n] = 0
    PROVE  /\ NotUsed(i, sn, n)
           /\ \A l \in Layers(i, sn), a \in Area : l[a].host # n
<1> USE Zenon
<1>1. NotUsed(i, sn, n)  BY FreeNotUsed DEF Sound
<1>2. ASSUME NEW l \in Layers(i, sn), NEW a \in Area PROVE l[a].host # n
  <2>1. <<a, 0>> \in Position  BY Positions
  <2>2. Target(i, l, <<a, 0>>) = l[a].host  BY Positions DEF Target
  <2> QED BY <1>1, <2>1, <2>2 DEF NotUsed
<1> QED BY <1>1, <1>2

-------------------------------------------------------------------------------
(* What keeps an image sound. *)

\* The same clusters referred to from the same positions.
SameShape(i, sn, j) ==
    /\ j \in ImageType /\ j.rc = i.rc /\ j.list = i.list
    /\ \A a \in Area : j.l1[a].host = i.l1[a].host
    /\ \A l \in Layers(i, sn), a \in Area, s \in Slot :
          l[a].host # 0 => Table(j, l[a].host)[s].host = Table(i, l[a].host)[s].host
    /\ \A h \in DOMAIN j.cache :
          h \in DOMAIN i.cache \/ \E l \in Layers(i, sn), a \in Area : l[a].host = h

\* Every position of j's layers refers to what it does in i.
SameUses(i, sn, j) ==
    /\ \A u \in Position : Target(j, j.l1, u) = Target(i, i.l1, u)
    /\ \A n \in DOMAIN sn, u \in Position : Target(j, sn[n].l1, u) = Target(i, sn[n].l1, u)

\* With the same shape, every position refers to what it did.
LEMMA ShapeUses ==
    ASSUME NEW i, NEW sn, NEW j, Sound(i, sn), SameShape(i, sn, j)
    PROVE  SameUses(i, sn, j)
<1> USE Zenon
<1>0. i \in ImageType /\ sn \in SnapsType  BY DEF Sound
<1>1. ASSUME NEW u \in Position PROVE Target(j, j.l1, u) = Target(i, i.l1, u)
  <2>1. u[1] \in Area /\ i.l1 \in Layers(i, sn)  BY Positions DEF Layers
  <2>2. j.l1[u[1]].host = i.l1[u[1]].host  BY <2>1 DEF SameShape
  <2>3. i.l1[u[1]].host # 0 =>
          \A s \in Slot : Table(j, i.l1[u[1]].host)[s].host = Table(i, i.l1[u[1]].host)[s].host
    BY <2>1 DEF SameShape
  <2> QED BY <2>2, <2>3, Positions DEF Target
<1>2. ASSUME NEW n \in DOMAIN sn, NEW u \in Position
      PROVE  Target(j, sn[n].l1, u) = Target(i, sn[n].l1, u)
  <2> DEFINE l == sn[n].l1
  <2>1. u[1] \in Area /\ l \in Layers(i, sn)  BY Positions DEF Layers
  <2> HIDE DEF l
  <2>2. l[u[1]].host # 0 =>
          \A s \in Slot : Table(j, l[u[1]].host)[s].host = Table(i, l[u[1]].host)[s].host
    BY <2>1 DEF SameShape
  <2>3. Target(j, l, u) = Target(i, l, u)  BY <2>2, Positions DEF Target
  <2> QED BY <2>3 DEF l
<1> QED BY <1>1, <1>2 DEF SameUses

\* With the same shape, an image stays sound.
LEMMA ShapeSound ==
    ASSUME NEW i, NEW sn, NEW j, Sound(i, sn), SameShape(i, sn, j), Coherent(j)
    PROVE  Sound(j, sn)
<1> USE Zenon
<1>0. SameUses(i, sn, j)  BY ShapeUses
<1>1. /\ i \in ImageType /\ sn \in SnapsType /\ IsFiniteSet(DOMAIN sn)
      /\ j \in ImageType /\ j.rc = i.rc /\ j.list = i.list
    BY DEF Sound, SameShape
<1>2. Balanced(j, sn)
  <2> SUFFICES ASSUME NEW h \in Host
               PROVE  j.rc[h] = Refs(j, j.l1, h) + Held(j, sn, h) + (IF j.list = h THEN 1 ELSE 0)
    BY DEF Balanced
  <2>1. Refs(j, j.l1, h) = Refs(i, i.l1, h)  BY <1>0, SameRefs, SMT DEF SameUses
  <2>2. Held(j, sn, h) = Held(i, sn, h)  BY <1>0, SameHeld, SMT DEF SameUses
  <2>3. i.rc[h] = Refs(i, i.l1, h) + Held(i, sn, h) + (IF i.list = h THEN 1 ELSE 0)
    BY DEF Sound, Balanced
  <2> QED BY <1>1, <2>1, <2>2, <2>3
<1>3. \A l \in Layers(j, sn) : \E m \in Layers(i, sn) :
         \A u \in Position : Target(j, l, u) = Target(i, m, u)
    BY <1>0 DEF Layers, SameUses
<1>4. Placed(j, sn)
  <2> SUFFICES ASSUME NEW l \in Layers(j, sn), NEW m \in Layers(j, sn),
                      NEW u \in Position, NEW v \in Position,
                      Target(j, l, u) # 0, Target(j, l, u) = Target(j, m, v)
               PROVE  u = v
    BY DEF Placed
  <2>1. PICK ll \in Layers(i, sn) : \A w \in Position : Target(j, l, w) = Target(i, ll, w)  BY <1>3
  <2>2. PICK mm \in Layers(i, sn) : \A w \in Position : Target(j, m, w) = Target(i, mm, w)  BY <1>3
  <2>3. Target(i, ll, u) # 0 /\ Target(i, ll, u) = Target(i, mm, v)  BY <2>1, <2>2
  <2> QED BY <2>3 DEF Sound, Placed
<1>5. OnlyTables(j, sn)
  <2> SUFFICES ASSUME NEW h \in DOMAIN j.cache, NEW l \in Layers(j, sn), NEW u \in Position,
                      Target(j, l, u) = h
               PROVE  u[2] = 0
    BY DEF OnlyTables
  <2>1. PICK ll \in Layers(i, sn) : \A w \in Position : Target(j, l, w) = Target(i, ll, w)  BY <1>3
  <2>2. Target(i, ll, u) = h  BY <2>1
  <2>3. CASE h \in DOMAIN i.cache  BY <2>2, <2>3 DEF Sound, OnlyTables
  <2>4. CASE \E m \in Layers(i, sn), a \in Area : m[a].host = h
    <3>1. PICK m \in Layers(i, sn), a \in Area : m[a].host = h  BY <2>4
    <3>2. <<a, 0>> \in Position /\ <<a, 0>>[2] = 0  BY Positions
    <3>3. Target(i, m, <<a, 0>>) = h  BY <3>1, Positions DEF Target
    <3>4. DOMAIN j.cache \subseteq Host  BY <1>1, FieldTypes
    <3>5. h # 0  BY <3>4, HostRange
    <3>6. u = <<a, 0>>  BY <2>2, <3>2, <3>3, <3>5 DEF Sound, Placed
    <3> QED BY <3>2, <3>6
  <2> QED BY <2>3, <2>4 DEF SameShape
<1> QED BY <1>1, <1>2, <1>4, <1>5 DEF Sound

\* Area a is given the free cluster n for its table: a copy of the one it shares, or an
\* empty one where it has none.
GetsTable(i, a, n, j) ==
    LET h == i.l1[a].host
    IN  /\ n \in Host /\ i.rc[n] = 0
        /\ j \in ImageType
        /\ j.flushed = i.flushed /\ j.snaps = i.snaps /\ j.list = i.list
        /\ j.l1 = [i.l1 EXCEPT ![a] = Owned(n)]
        /\ h = 0 \/ i.rc[h] >= 2
        /\ \A x \in Host : j.rc[x] = IF x = n THEN 1 ELSE IF x = h THEN i.rc[x] - 1 ELSE i.rc[x]
        /\ DOMAIN j.cache \subseteq (DOMAIN i.cache \union {h}) \ {n, 0}
        /\ \A x \in Host : x # n => /\ Table(j, x) = Table(i, x)
                                    /\ j.table[x] = i.table[x] /\ j.data[x] = i.data[x]
        /\ Table(j, n) = IF h = 0 THEN Blank ELSE Table(i, h)
        /\ Coherent(i) => Coherent(j)

\* What j's layers refer to: n from position <<a, 0>>, otherwise what i's do.
LEMMA GetsTableUses ==
    ASSUME NEW i, NEW sn, NEW j, NEW a \in Area, NEW n, Sound(i, sn), GetsTable(i, a, n, j)
    PROVE  /\ \A u \in Position : Target(j, j.l1, u) = IF u = <<a, 0>> THEN n
                                                       ELSE Target(i, i.l1, u)
           /\ \A k \in DOMAIN sn, u \in Position :
                 Target(j, sn[k].l1, u) = Target(i, sn[k].l1, u)
<1> USE Zenon
<1> DEFINE h == i.l1[a].host
<1>0. i \in ImageType /\ sn \in SnapsType /\ i.l1 \in L1Type  BY FieldTypes DEF Sound
<1>1. /\ n \in Host /\ i.rc[n] = 0
      /\ j.l1 = [i.l1 EXCEPT ![a] = Owned(n)]
      /\ \A x \in Host : x # n => Table(j, x) = Table(i, x)
      /\ Table(j, n) = IF h = 0 THEN Blank ELSE Table(i, h)
    BY DEF GetsTable
<1>2. \A l \in Layers(i, sn), b \in Area : l[b].host # n  BY <1>1, FreeNoTable, SMT
<1>3. ASSUME NEW k \in DOMAIN sn, NEW u \in Position
      PROVE  Target(j, sn[k].l1, u) = Target(i, sn[k].l1, u)
  <2> DEFINE l == sn[k].l1
  <2>1. u[1] \in Area /\ l \in L1Type /\ l \in Layers(i, sn)  BY <1>0, Positions, SnapFacts DEF Layers
  <2> HIDE DEF l
  <2>3. l[u[1]].host # 0 => l[u[1]].host \in Host  BY <2>1, EntryHost
  <2>4. l[u[1]].host # 0 => Table(j, l[u[1]].host) = Table(i, l[u[1]].host)
    BY <1>1, <1>2, <2>1, <2>3
  <2>5. Target(j, l, u) = Target(i, l, u)  BY <2>4, Positions DEF Target
  <2> QED BY <2>5 DEF l
<1>4. /\ j.l1[a].host = n
      /\ \A b \in Area : b # a => j.l1[b] = i.l1[b]
  <2>1. j.l1[a] = Owned(n) /\ \A b \in Area : b # a => j.l1[b] = i.l1[b]  BY <1>0, <1>1 DEF L1Type
  <2>2. Owned(n).host = n  BY DEF Owned
  <2> QED BY <2>1, <2>2
<1>5. ASSUME NEW u \in Position
      PROVE  Target(j, j.l1, u) = IF u = <<a, 0>> THEN n ELSE Target(i, i.l1, u)
  <2>1. u[1] \in Area /\ (u[2] # 0 => u[2] \in Slot) /\ u = <<u[1], u[2]>>  BY Positions
  <2>2. CASE u[1] # a
    <3>1. j.l1[u[1]] = i.l1[u[1]]  BY <1>4, <2>1, <2>2
    <3>2. i.l1[u[1]].host # 0 => i.l1[u[1]].host \in Host  BY <1>0, <2>1, EntryHost
    <3>3. i.l1[u[1]].host # n  BY <1>2, <2>1 DEF Layers
    <3>4. Target(j, j.l1, u) = Target(i, i.l1, u)  BY <1>1, <3>1, <3>2, <3>3 DEF Target
    <3>5. u # <<a, 0>>  BY <2>2, Positions
    <3> QED BY <3>4, <3>5
  <2>3. CASE u[1] = a /\ u[2] = 0
    <3>1. Target(j, j.l1, u) = n  BY <1>4, <2>3 DEF Target
    <3>2. u = <<a, 0>>  BY <2>1, <2>3
    <3> QED BY <3>1, <3>2
  <2>4. CASE u[1] = a /\ u[2] # 0
    <3>1. n # 0  BY <1>1, HostRange
    <3>2. Target(j, j.l1, u) = Table(j, n)[u[2]].host  BY <1>4, <2>4, <3>1 DEF Target
    <3>3. Blank[u[2]].host = 0  BY <2>1, <2>4 DEF Blank, Unallocated
    <3>4. Target(i, i.l1, u) = IF h = 0 THEN 0 ELSE Table(i, h)[u[2]].host  BY <2>4 DEF Target
    <3>5. u # <<a, 0>>  BY <2>4, Positions
    <3>6. Target(j, j.l1, u) = Target(i, i.l1, u)  BY <1>1, <3>2, <3>3, <3>4
    <3> QED BY <3>5, <3>6
  <2> QED BY <2>2, <2>3, <2>4
<1> QED BY <1>3, <1>5

\* cow_l2_if_shared, or a first table: the image stays sound.
LEMMA GetsTableSound ==
    ASSUME NEW i, NEW sn, NEW j, NEW a \in Area, NEW n, Sound(i, sn), GetsTable(i, a, n, j)
    PROVE  Sound(j, sn)
<1> USE Zenon
<1> DEFINE h == i.l1[a].host
           w == <<a, 0>>
<1>0. /\ i \in ImageType /\ sn \in SnapsType /\ IsFiniteSet(DOMAIN sn) /\ i.l1 \in L1Type
      /\ Coherent(i) /\ Balanced(i, sn) /\ Placed(i, sn) /\ OnlyTables(i, sn)
    BY FieldTypes DEF Sound
<1>1. /\ n \in Host /\ i.rc[n] = 0 /\ j \in ImageType /\ j.list = i.list
      /\ \A x \in Host : j.rc[x] = IF x = n THEN 1 ELSE IF x = h THEN i.rc[x] - 1 ELSE i.rc[x]
      /\ DOMAIN j.cache \subseteq (DOMAIN i.cache \union {h}) \ {n, 0}
      /\ Coherent(j)
    BY <1>0 DEF GetsTable
<1>2. /\ \A u \in Position : Target(j, j.l1, u) = IF u = w THEN n ELSE Target(i, i.l1, u)
      /\ \A k \in DOMAIN sn, u \in Position : Target(j, sn[k].l1, u) = Target(i, sn[k].l1, u)
    BY GetsTableUses, SMT
<1>3. w \in Position /\ w[2] = 0 /\ Target(i, i.l1, w) = h  BY Positions DEF Target
<1>4. NotUsed(i, sn, n)  BY <1>1, FreeNotUsed, <1>0
<1>6. i.l1 \in Layers(i, sn) /\ \A k \in DOMAIN sn : sn[k].l1 \in Layers(i, sn)  BY DEF Layers
<1> HIDE DEF w, h
<1>5. n # h /\ n # 0  BY <1>1, <1>3, <1>4, <1>6, HostRange DEF NotUsed
<1>7. Balanced(j, sn)
  <2> SUFFICES ASSUME NEW x \in Host
               PROVE  j.rc[x] = Refs(j, j.l1, x) + Held(j, sn, x) + (IF j.list = x THEN 1 ELSE 0)
    BY DEF Balanced
  <2>1. Refs(j, j.l1, x) = Refs(i, i.l1, x) - (IF Target(i, i.l1, w) = x THEN 1 ELSE 0)
                                         + (IF Target(j, j.l1, w) = x THEN 1 ELSE 0)
    BY <1>2, <1>3, MovedRefs, SMT
  <2>2. Target(j, j.l1, w) = n  BY <1>2, <1>3
  <2>3. Held(j, sn, x) = Held(i, sn, x)  BY <1>2, SameHeld, SMT
  <2>4. i.rc[x] = Refs(i, i.l1, x) + Held(i, sn, x) + (IF i.list = x THEN 1 ELSE 0)
    BY <1>0 DEF Balanced
  <2>5. Refs(i, i.l1, x) \in Nat /\ Held(i, sn, x) \in Nat  BY <1>0, RefsType, HeldType
  <2>6. j.rc[x] = IF x = n THEN 1 ELSE IF x = h THEN i.rc[x] - 1 ELSE i.rc[x]  BY <1>1
  <2>7. (x = n => i.rc[x] = 0) /\ j.list = i.list  BY <1>1
  <2> QED BY <1>3, <1>5, <2>1, <2>2, <2>3, <2>4, <2>5, <2>6, <2>7, SMT
\* A position of j's layers refers to n, and is w, or to what it does in i.
<1>8. \A l \in Layers(j, sn), u \in Position :
         \/ Target(j, l, u) = n /\ u = w
         \/ \E m \in Layers(i, sn) : Target(j, l, u) = Target(i, m, u)
    BY <1>2, <1>6 DEF Layers
<1>9. \A m \in Layers(i, sn), u \in Position : Target(i, m, u) # n  BY <1>4 DEF NotUsed
<1>10. Placed(j, sn)
  <2> SUFFICES ASSUME NEW l \in Layers(j, sn), NEW m \in Layers(j, sn),
                      NEW u \in Position, NEW v \in Position,
                      Target(j, l, u) # 0, Target(j, l, u) = Target(j, m, v)
               PROVE  u = v
    BY DEF Placed
  <2>1. CASE Target(j, l, u) = n
    <3>1. u = w /\ v = w  BY <1>8, <1>9, <2>1
    <3> QED BY <3>1
  <2>2. CASE Target(j, l, u) # n
    <3>1. PICK ll \in Layers(i, sn) : Target(j, l, u) = Target(i, ll, u)  BY <1>8, <2>2
    <3>2. PICK mm \in Layers(i, sn) : Target(j, m, v) = Target(i, mm, v)  BY <1>8, <2>2
    <3> QED BY <1>0, <3>1, <3>2 DEF Placed
  <2> QED BY <2>1, <2>2
<1>11. OnlyTables(j, sn)
  <2> SUFFICES ASSUME NEW x \in DOMAIN j.cache, NEW l \in Layers(j, sn), NEW u \in Position,
                      Target(j, l, u) = x
               PROVE  u[2] = 0
    BY DEF OnlyTables
  <2>1. CASE Target(j, l, u) = n  BY <1>3, <1>8, <1>9, <2>1
  <2>2. CASE Target(j, l, u) # n
    <3>1. PICK ll \in Layers(i, sn) : Target(j, l, u) = Target(i, ll, u)  BY <1>8, <2>2
    <3>2. CASE x = h
      <4>1. x # 0  BY <1>1
      <4>2. u = w  BY <1>0, <1>3, <1>6, <3>1, <3>2, <4>1 DEF Placed
      <4> QED BY <1>3, <4>2
    <3>3. CASE x # h
      <4>1. x \in DOMAIN i.cache  BY <1>1, <3>3
      <4> QED BY <1>0, <3>1, <4>1 DEF OnlyTables
    <3> QED BY <3>2, <3>3
  <2> QED BY <2>1, <2>2
<1> QED BY <1>0, <1>1, <1>7, <1>10, <1>11 DEF Sound

\* Position <<a, s>>, in a table that nothing but the active layer refers to, is given
\* the entry e: of a free cluster n, or of none.
Repointed(i, a, s, n, e, j) ==
    LET t == i.l1[a].host
        old == Table(i, t)[s].host
    IN  /\ t \in Host /\ i.rc[t] = 1
        /\ n = 0 \/ (n \in Host /\ i.rc[n] = 0)
        /\ e \in EntryType /\ e.host = n
        /\ j \in ImageType
        /\ j.l1 = i.l1 /\ j.flushed = i.flushed /\ j.snaps = i.snaps /\ j.list = i.list
        /\ \A x \in Host : j.rc[x] = IF x = n THEN 1 ELSE IF x = old THEN i.rc[x] - 1 ELSE i.rc[x]
        /\ DOMAIN j.cache \subseteq (DOMAIN i.cache \union {t}) \ {n, 0}
        /\ Table(j, t) = [Table(i, t) EXCEPT ![s] = e]
        /\ \A x \in Host : x \notin {t, n} => Table(j, x) = Table(i, x)
        /\ \A x \in Host : x # n => j.table[x] = i.table[x] /\ j.data[x] = i.data[x]
        /\ Coherent(i) => Coherent(j)

\* A table entry repointed changes one position of the active layer.
LEMMA RepointUses ==
    ASSUME NEW i, NEW sn, NEW j, NEW a \in Area, NEW s \in Slot, NEW n, NEW e,
           Sound(i, sn), Repointed(i, a, s, n, e, j)
    PROVE  /\ \A u \in Position : Target(j, j.l1, u) = IF u = <<a, s>> THEN n
                                                       ELSE Target(i, i.l1, u)
           /\ \A k \in DOMAIN sn, u \in Position :
                 Target(j, sn[k].l1, u) = Target(i, sn[k].l1, u)
<1> USE Zenon
<1> DEFINE t == i.l1[a].host
<1>0. i \in ImageType /\ sn \in SnapsType /\ i.l1 \in L1Type  BY FieldTypes DEF Sound
<1>1. /\ t \in Host /\ i.rc[t] = 1
      /\ n = 0 \/ (n \in Host /\ i.rc[n] = 0)
      /\ j.l1 = i.l1 /\ e.host = n
      /\ Table(j, t) = [Table(i, t) EXCEPT ![s] = e]
      /\ \A x \in Host : x \notin {t, n} => Table(j, x) = Table(i, x)
    BY DEF Repointed
<1>2. <<a, 0>> \in Position /\ Target(i, i.l1, <<a, 0>>) = t  BY Positions DEF Target
<1>3. SoleUse(i, sn, t, <<a, 0>>)  BY <1>1, <1>2, UsedOnce DEF Sound
<1>4. \A l \in Layers(i, sn), b \in Area : l[b].host # 0 => l[b].host # n
  <2>1. CASE n = 0  BY <2>1
  <2>2. CASE n \in Host /\ i.rc[n] = 0  BY <2>2, FreeNoTable, SMT
  <2> QED BY <1>1, <2>1, <2>2
<1>5. ASSUME NEW k \in DOMAIN sn, NEW u \in Position
      PROVE  Target(j, sn[k].l1, u) = Target(i, sn[k].l1, u)
  <2> DEFINE l == sn[k].l1
  <2>1. u[1] \in Area /\ l \in L1Type /\ l \in Layers(i, sn)  BY <1>0, Positions, SnapFacts DEF Layers
  <2>2. l[u[1]].host # t
    <3>1. <<u[1], 0>> \in Position /\ Target(i, l, <<u[1], 0>>) = l[u[1]].host
        BY <2>1, Positions DEF Target
    <3> QED BY <1>3, <3>1 DEF SoleUse
  <2> HIDE DEF l
  <2>3. l[u[1]].host # 0 => l[u[1]].host \in Host  BY <2>1, EntryHost
  <2>4. l[u[1]].host # 0 => Table(j, l[u[1]].host) = Table(i, l[u[1]].host)
    BY <1>1, <1>4, <2>1, <2>2, <2>3
  <2>5. Target(j, l, u) = Target(i, l, u)  BY <2>4, Positions DEF Target
  <2> QED BY <2>5 DEF l
<1>6. Table(j, t)[s] = e /\ \A r \in Slot : r # s => Table(j, t)[r] = Table(i, t)[r]
  <2>1. Table(i, t) \in TableType  BY <1>0, <1>1, FieldTypes
  <2> HIDE DEF t
  <2> QED BY <1>1, <2>1 DEF TableType
<1>7. ASSUME NEW u \in Position
      PROVE  Target(j, j.l1, u) = IF u = <<a, s>> THEN n ELSE Target(i, i.l1, u)
  <2>1. u[1] \in Area /\ (u[2] # 0 => u[2] \in Slot) /\ u = <<u[1], u[2]>>  BY Positions
  <2>2. CASE u[1] # a
    <3>1. i.l1[u[1]].host # t
      <4>1. <<u[1], 0>> \in Position /\ Target(i, i.l1, <<u[1], 0>>) = i.l1[u[1]].host
        BY <2>1, Positions DEF Target
      <4>2. <<u[1], 0>> # <<a, 0>>  BY <2>1, <2>2, Positions
      <4> QED BY <1>3, <4>1, <4>2 DEF SoleUse
    <3>2. i.l1[u[1]].host # 0 => i.l1[u[1]].host \in Host  BY <1>0, <2>1, EntryHost
    <3>3. i.l1[u[1]].host # 0 => i.l1[u[1]].host # n  BY <1>4, <2>1 DEF Layers
    <3>4. i.l1[u[1]].host # 0 => Table(j, i.l1[u[1]].host) = Table(i, i.l1[u[1]].host)
        BY <1>1, <3>1, <3>2, <3>3
    <3>5. Target(j, j.l1, u) = Target(i, i.l1, u)  BY <1>1, <3>4 DEF Target
    <3>6. u # <<a, s>>  BY <2>2, SMT
    <3> QED BY <3>5, <3>6
  <2>3. CASE u[1] = a /\ u[2] = 0
    <3>1. Target(j, j.l1, u) = Target(i, i.l1, u)  BY <1>1, <2>3 DEF Target
    <3>2. u # <<a, s>>  BY <2>3, Positions
    <3> QED BY <3>1, <3>2
  <2>4. CASE u[1] = a /\ u[2] # 0 /\ u[2] # s
    <3>1. t # 0  BY <1>1, HostRange
    <3>2. Table(j, t)[u[2]] = Table(i, t)[u[2]]  BY <1>6, <2>1, <2>4
    <3>3. Target(j, j.l1, u) = Target(i, i.l1, u)  BY <1>1, <2>4, <3>1, <3>2 DEF Target
    <3>4. u # <<a, s>>  BY <2>4, SMT
    <3> QED BY <3>3, <3>4
  <2>5. CASE u[1] = a /\ u[2] = s
    <3>1. t # 0 /\ s # 0  BY <1>1, HostRange, Positions
    <3>2. Target(j, j.l1, u) = n  BY <1>1, <1>6, <2>5, <3>1 DEF Target
    <3>3. u = <<a, s>>  BY <2>1, <2>5
    <3> QED BY <3>2, <3>3
  <2> QED BY <2>2, <2>3, <2>4, <2>5
<1> QED BY <1>5, <1>7

\* A table entry repointed leaves the image sound.
LEMMA RepointSound ==
    ASSUME NEW i, NEW sn, NEW j, NEW a \in Area, NEW s \in Slot, NEW n, NEW e,
           Sound(i, sn), Repointed(i, a, s, n, e, j)
    PROVE  Sound(j, sn)
<1> USE Zenon
<1> DEFINE t == i.l1[a].host
           old == Table(i, t)[s].host
           w == <<a, s>>
           z == <<a, 0>>
<1>0. /\ i \in ImageType /\ sn \in SnapsType /\ IsFiniteSet(DOMAIN sn) /\ i.l1 \in L1Type
      /\ Coherent(i) /\ Balanced(i, sn) /\ Placed(i, sn) /\ OnlyTables(i, sn)
    BY FieldTypes DEF Sound
<1>1. /\ t \in Host /\ j \in ImageType /\ j.list = i.list
      /\ n = 0 \/ (n \in Host /\ i.rc[n] = 0)
      /\ \A x \in Host : j.rc[x] = IF x = n THEN 1 ELSE IF x = old THEN i.rc[x] - 1 ELSE i.rc[x]
      /\ DOMAIN j.cache \subseteq (DOMAIN i.cache \union {t}) \ {n, 0}
      /\ Coherent(j)
    BY <1>0 DEF Repointed
<1>2. /\ \A u \in Position : Target(j, j.l1, u) = IF u = w THEN n ELSE Target(i, i.l1, u)
      /\ \A k \in DOMAIN sn, u \in Position : Target(j, sn[k].l1, u) = Target(i, sn[k].l1, u)
    BY RepointUses, SMT
<1>3. /\ w \in Position /\ Target(i, i.l1, w) = old
      /\ z \in Position /\ z[2] = 0 /\ Target(i, i.l1, z) = t
  <2>1. t # 0 /\ s # 0 BY <1>1, HostRange, Positions
  <2> QED BY <2>1, Positions DEF Target
<1>4. n # 0 => NotUsed(i, sn, n)
  <2> SUFFICES ASSUME n # 0 PROVE NotUsed(i, sn, n)  OBVIOUS
  <2> QED BY <1>0, <1>1, FreeNotUsed
<1>5. i.l1 \in Layers(i, sn) /\ \A k \in DOMAIN sn : sn[k].l1 \in Layers(i, sn)  BY DEF Layers
<1> HIDE DEF w, z, t, old
<1>6. n # 0 => n # old  BY <1>3, <1>4, <1>5 DEF NotUsed
<1>7. Balanced(j, sn)
  <2> SUFFICES ASSUME NEW x \in Host
               PROVE  j.rc[x] = Refs(j, j.l1, x) + Held(j, sn, x) + (IF j.list = x THEN 1 ELSE 0)
    BY DEF Balanced
  <2>1. Refs(j, j.l1, x) = Refs(i, i.l1, x) - (IF Target(i, i.l1, w) = x THEN 1 ELSE 0)
                                         + (IF Target(j, j.l1, w) = x THEN 1 ELSE 0)
    BY <1>2, <1>3, MovedRefs, SMT
  <2>2. Target(j, j.l1, w) = n  BY <1>2, <1>3
  <2>3. Held(j, sn, x) = Held(i, sn, x)  BY <1>2, SameHeld, SMT
  <2>4. i.rc[x] = Refs(i, i.l1, x) + Held(i, sn, x) + (IF i.list = x THEN 1 ELSE 0)
    BY <1>0 DEF Balanced
  <2>5. Refs(i, i.l1, x) \in Nat /\ Held(i, sn, x) \in Nat  BY <1>0, RefsType, HeldType
  <2>6. j.rc[x] = IF x = n THEN 1 ELSE IF x = old THEN i.rc[x] - 1 ELSE i.rc[x]  BY <1>1
  <2>7. (x = n => i.rc[x] = 0) /\ j.list = i.list /\ x # 0  BY <1>1, HostRange
  <2> QED BY <1>3, <1>6, <2>1, <2>2, <2>3, <2>4, <2>5, <2>6, <2>7, SMT
<1>8. \A l \in Layers(j, sn), u \in Position :
         \/ Target(j, l, u) = n /\ u = w
         \/ \E m \in Layers(i, sn) : Target(j, l, u) = Target(i, m, u)
    BY <1>2, <1>5 DEF Layers
<1>9. n # 0 => \A m \in Layers(i, sn), u \in Position : Target(i, m, u) # n
    BY <1>4 DEF NotUsed
<1>10. Placed(j, sn)
  <2> SUFFICES ASSUME NEW l \in Layers(j, sn), NEW m \in Layers(j, sn),
                      NEW u \in Position, NEW v \in Position,
                      Target(j, l, u) # 0, Target(j, l, u) = Target(j, m, v)
               PROVE  u = v
    BY DEF Placed
  <2>1. CASE Target(j, l, u) = n
    <3>1. n # 0  BY <2>1
    <3>2. u = w  BY <1>8, <1>9, <2>1, <3>1
    <3>3. v = w  BY <1>8, <1>9, <2>1, <3>1
    <3> QED BY <3>2, <3>3
  <2>2. CASE Target(j, l, u) # n
    <3>1. PICK ll \in Layers(i, sn) : Target(j, l, u) = Target(i, ll, u)  BY <1>8, <2>2
    <3>2. PICK mm \in Layers(i, sn) : Target(j, m, v) = Target(i, mm, v)  BY <1>8, <2>2
    <3> QED BY <1>0, <3>1, <3>2 DEF Placed
  <2> QED BY <2>1, <2>2
<1>11. OnlyTables(j, sn)
  <2> SUFFICES ASSUME NEW x \in DOMAIN j.cache, NEW l \in Layers(j, sn), NEW u \in Position,
                      Target(j, l, u) = x
               PROVE  u[2] = 0
    BY DEF OnlyTables
  <2>1. x # 0 /\ x # n  BY <1>1
  <2>2. PICK ll \in Layers(i, sn) : Target(j, l, u) = Target(i, ll, u)  BY <1>8, <2>1
  <2>3. CASE x = t
    <3>0. Target(i, ll, u) # 0 /\ Target(i, ll, u) = Target(i, i.l1, z)  BY <1>3, <2>1, <2>2, <2>3
    <3>1. u = z  BY <1>0, <1>3, <1>5, <3>0 DEF Placed
    <3> QED BY <1>3, <3>1
  <2>4. CASE x # t
    <3>1. x \in DOMAIN i.cache  BY <1>1, <2>4
    <3> QED BY <1>0, <2>2, <3>1 DEF OnlyTables
  <2> QED BY <2>3, <2>4
<1> QED BY <1>0, <1>1, <1>7, <1>10, <1>11 DEF Sound

-------------------------------------------------------------------------------
(* The operations on a layer. *)

\* What storing an L1 entry does to an image.
L1Effect(i, a, e, j) ==
    /\ j \in ImageType
    /\ j.l1 = [i.l1 EXCEPT ![a] = e]
    /\ j.rc = i.rc /\ j.cache = i.cache /\ j.flushed = i.flushed /\ j.table = i.table
    /\ j.data = i.data /\ j.snaps = i.snaps /\ j.list = i.list
    /\ \A x \in Host : Table(j, x) = Table(i, x)
    /\ Coherent(i) => Coherent(j)

\* An entry of the active L1 table is replaced.
LEMMA L1Facts ==
    ASSUME NEW i \in ImageType, NEW a \in Area, NEW e \in EntryType
    PROVE  L1Effect(i, a, e, [i EXCEPT !.l1[a] = e])
<1> USE Zenon
<1> DEFINE j == [i EXCEPT !.l1[a] = e]
           l == [i.l1 EXCEPT ![a] = e]
<1>1. i.l1 \in L1Type  BY FieldTypes
<1>2. l \in L1Type  BY <1>1 DEF L1Type
<1>3. j = [i EXCEPT !.l1 = l]  BY DEF ImageType
<1> HIDE DEF j, l
<1>4. /\ j \in ImageType /\ j.l1 = l
      /\ j.rc = i.rc /\ j.cache = i.cache /\ j.flushed = i.flushed /\ j.table = i.table
      /\ j.data = i.data /\ j.snaps = i.snaps /\ j.list = i.list
    BY <1>2, <1>3 DEF ImageType
<1>5. L1Effect(i, a, e, j)  BY <1>4 DEF L1Effect, Table, Coherent, l
<1> QED BY <1>5 DEF j

\* Room is a matter of the refcounts alone.
LEMMA SameFree ==
    ASSUME NEW i, NEW j, j.rc = i.rc
    PROVE  Free(j) = Free(i) /\ Lowest(j) = Lowest(i)
BY Zenon DEF Free, Lowest

\* The table of area a is the active layer's alone.
OwnsTable(i, a) == i.l1[a].host \in Host /\ i.rc[i.l1[a].host] = 1

\* cow_l2_if_shared leaves a table that nothing else refers to, and copies any other.
LEMMA CowFacts ==
    ASSUME NEW i, NEW sn, Sound(i, sn), NEW a \in Area, Free(i) # {}
    PROVE  \/ CowL2(i, a) = i /\ (i.l1[a].host = 0 \/ OwnsTable(i, a))
           \/ i.l1[a].host # 0 /\ GetsTable(i, a, Lowest(i), CowL2(i, a))
<1> USE Zenon
<1> DEFINE h == i.l1[a].host
           n == Lowest(i)
<1>0. i \in ImageType /\ i.l1 \in L1Type /\ i.rc \in [Host -> Int]  BY FieldTypes DEF Sound
<1>1. CASE h = 0
  <2>1. CowL2(i, a) = i  BY <1>1 DEF CowL2
  <2> QED BY <1>1, <2>1
<1>2. CASE h # 0
  <2>1. h \in Host  BY <1>0, <1>2, EntryHost
  <2>2. i.rc[h] \in Nat /\ i.rc[h] >= 1
    <3>1. <<a, 0>> \in Position /\ Target(i, i.l1, <<a, 0>>) = h  BY Positions DEF Target
    <3>2. i.l1 \in Layers(i, sn)  BY DEF Layers
    <3>3. ~NotUsed(i, sn, h)  BY <3>1, <3>2 DEF NotUsed
    <3> QED BY <1>0, <2>1, <3>3, UsedCounted DEF Sound
  <2>3. CASE i.rc[h] <= 1
    <3>1. CowL2(i, a) = i  BY <1>2, <2>3 DEF CowL2
    <3>2. i.rc[h] = 1  BY <2>2, <2>3, SMT
    <3> QED BY <2>1, <3>1, <3>2 DEF OwnsTable
  <2>4. CASE ~(i.rc[h] <= 1)
    <3> DEFINE t == Table(i, h)
               L == Load(i, {h})
               K == WriteTable(Alloc(L), n, t)
               D == Dec(K, h)
               j == CowL2(i, a)
    <3>1. j = [D EXCEPT !.l1[a] = Owned(n)]  BY <1>2, <2>4 DEF CowL2
    <3>2. LoadEffect(i, {h}, L)  BY <1>0, <2>1, LoadFacts
    <3> HIDE DEF L
    <3>3. L \in ImageType /\ L.rc = i.rc  BY <3>2 DEF LoadEffect
    <3>4. Free(L) # {} /\ Lowest(L) = n  BY <3>3, SameFree
    <3>5. t \in TableType  BY <1>0, <2>1, FieldTypes
    <3>6. NewEffect(L, n, K) /\ Table(K, n) = t
      <4> HIDE DEF t
      <4>1. NewEffect(L, Lowest(L), WriteTable(Alloc(L), Lowest(L), t))
        BY <3>3, <3>4, <3>5, NewTableFacts
      <4>2. Table(WriteTable(Alloc(L), Lowest(L), t), Lowest(L)) = t
        BY <3>3, <3>4, <3>5, NewTableFacts, SMT
      <4> QED BY <3>4, <4>1, <4>2
    <3> HIDE DEF K
    <3>7. h \in 0 .. HostClusters /\ n \in Host /\ K \in ImageType
        BY <1>0, <3>6, EntryHost DEF NewEffect
    <3>8. DecEffect(K, h, D)  BY <3>7, DecFacts
    <3> HIDE DEF D
    <3>9. L1Effect(D, a, Owned(n), j)  BY <3>1, <3>7, <3>8, L1Facts, BlankType DEF DecEffect
    <3> HIDE DEF j
    <3>10. /\ i.rc[n] = 0 /\ n \in Host /\ n # h
      <4>1. i.rc[n] = 0  BY <3>3, <3>6 DEF NewEffect
      <4>2. n # h  BY <2>4, <4>1, SMT
      <4> QED BY <3>7, <4>1, <4>2
    <3>11. /\ j \in ImageType
           /\ j.flushed = i.flushed /\ j.snaps = i.snaps /\ j.list = i.list
           /\ j.l1 = [i.l1 EXCEPT ![a] = Owned(n)]
      <4>1. /\ j \in ImageType
            /\ j.flushed = D.flushed /\ j.snaps = D.snaps /\ j.list = D.list
            /\ j.l1 = [D.l1 EXCEPT ![a] = Owned(n)]
        BY <3>9 DEF L1Effect
      <4>2. D.flushed = K.flushed /\ D.snaps = K.snaps /\ D.list = K.list /\ D.l1 = K.l1
        BY <3>8 DEF DecEffect
      <4>3. K.flushed = L.flushed /\ K.snaps = L.snaps /\ K.list = L.list /\ K.l1 = L.l1
        BY <3>6 DEF NewEffect
      <4>4. L.flushed = i.flushed /\ L.snaps = i.snaps /\ L.list = i.list /\ L.l1 = i.l1
        BY <3>2 DEF LoadEffect
      <4> QED BY <4>1, <4>2, <4>3, <4>4
    <3>12. \A x \in Host :
              j.rc[x] = IF x = n THEN 1 ELSE IF x = h THEN i.rc[x] - 1 ELSE i.rc[x]
      <4> SUFFICES ASSUME NEW x \in Host
                   PROVE  j.rc[x] = IF x = n THEN 1 ELSE IF x = h THEN i.rc[x] - 1 ELSE i.rc[x]
        OBVIOUS
      <4>1. j.rc[x] = IF x = h THEN K.rc[x] - 1 ELSE K.rc[x]  BY <3>8, <3>9 DEF L1Effect, DecEffect
      <4>2. K.rc = [i.rc EXCEPT ![n] = 1]  BY <3>3, <3>6 DEF NewEffect
      <4>3. K.rc[x] = IF x = n THEN 1 ELSE i.rc[x]  BY <1>0, <4>2
      <4> QED BY <3>10, <4>1, <4>3
    <3>13. DOMAIN j.cache \subseteq (DOMAIN i.cache \union {h}) \ {n, 0}
      <4>1. DOMAIN j.cache = (DOMAIN L.cache) \ {n}
        BY <3>6, <3>8, <3>9 DEF L1Effect, DecEffect, NewEffect
      <4>2. DOMAIN L.cache = DOMAIN i.cache \union {h} /\ DOMAIN L.cache \subseteq Host
        BY <3>2, <3>3, FieldTypes DEF LoadEffect
      <4> QED BY <4>1, <4>2, HostRange
    <3>14. \A x \in Host : x # n => /\ Table(j, x) = Table(i, x)
                                    /\ j.table[x] = i.table[x] /\ j.data[x] = i.data[x]
      <4> SUFFICES ASSUME NEW x \in Host, x # n
                   PROVE  /\ Table(j, x) = Table(i, x)
                          /\ j.table[x] = i.table[x] /\ j.data[x] = i.data[x]
        OBVIOUS
      <4>1. Table(j, x) = Table(K, x) /\ j.table = K.table /\ j.data = K.data
        BY <3>8, <3>9 DEF L1Effect, DecEffect
      <4>2. Table(K, x) = Table(L, x) /\ K.table[x] = L.table[x] /\ K.data[x] = L.data[x]
        BY <3>6 DEF NewEffect
      <4>3. Table(L, x) = Table(i, x) /\ L.table = i.table /\ L.data = i.data
        BY <3>2 DEF LoadEffect
      <4> QED BY <4>1, <4>2, <4>3
    <3>15. Table(j, n) = Table(i, h)
        BY <3>6, <3>7, <3>8, <3>9 DEF L1Effect, DecEffect
    <3>16. Coherent(i) => Coherent(j)
        BY <3>2, <3>6, <3>8, <3>9 DEF L1Effect, DecEffect, NewEffect, LoadEffect
    <3>17. i.rc[h] >= 2  BY <2>2, <2>4, SMT
    <3>18. GetsTable(i, a, n, j)
        BY <1>2, <3>10, <3>11, <3>12, <3>13, <3>14, <3>15, <3>16, <3>17 DEF GetsTable
    <3> QED BY <1>2, <3>18 DEF j
  <2> QED BY <2>3, <2>4
<1> QED BY <1>1, <1>2

\* write_bytes makes the table of its area the active layer's alone.
LEMMA OwnFacts ==
    ASSUME NEW i, NEW sn, Sound(i, sn), NEW a \in Area, Free(i) # {}
    PROVE  \/ OwnL2(i, a) = i /\ OwnsTable(i, a)
           \/ GetsTable(i, a, Lowest(i), OwnL2(i, a))
<1> USE Zenon
<1> DEFINE h == i.l1[a].host
           n == Lowest(i)
<1>0. i \in ImageType /\ i.l1 \in L1Type /\ i.rc \in [Host -> Int]  BY FieldTypes DEF Sound
<1>1. CASE h # 0
  <2>1. OwnL2(i, a) = CowL2(i, a)  BY <1>1 DEF OwnL2
  <2> QED BY <1>1, <2>1, CowFacts
<1>2. CASE h = 0
  <2> DEFINE K == WriteTable(Alloc(i), n, Blank)
             j == OwnL2(i, a)
  <2>1. j = [K EXCEPT !.l1[a] = Owned(n)]  BY <1>2 DEF OwnL2
  <2>2. NewEffect(i, n, K)  BY <1>0, BlankType, NewTableFacts
  <2>3. Table(K, n) = Blank  BY <1>0, BlankType, NewTableFacts, SMT
  <2> HIDE DEF K, j
  <2>4. L1Effect(K, a, Owned(n), j)  BY <2>1, <2>2, L1Facts, BlankType DEF NewEffect
  <2>5. /\ n \in Host /\ i.rc[n] = 0 /\ j \in ImageType
        /\ j.flushed = i.flushed /\ j.snaps = i.snaps /\ j.list = i.list
        /\ j.l1 = [i.l1 EXCEPT ![a] = Owned(n)]
        /\ Coherent(i) => Coherent(j)
        /\ Table(j, n) = Blank
      BY <2>2, <2>3, <2>4 DEF L1Effect, NewEffect
  <2>6. \A x \in Host :
           j.rc[x] = IF x = n THEN 1 ELSE IF x = h THEN i.rc[x] - 1 ELSE i.rc[x]
    <3> SUFFICES ASSUME NEW x \in Host
                 PROVE  j.rc[x] = IF x = n THEN 1 ELSE IF x = h THEN i.rc[x] - 1 ELSE i.rc[x]
      OBVIOUS
    <3>1. j.rc = [i.rc EXCEPT ![n] = 1]  BY <2>2, <2>4 DEF L1Effect, NewEffect
    <3>2. x # h  BY <1>2, HostRange
    <3> QED BY <1>0, <3>1, <3>2
  <2>7. DOMAIN j.cache \subseteq (DOMAIN i.cache \union {h}) \ {n, 0}
    <3>1. DOMAIN j.cache = (DOMAIN i.cache) \ {n}  BY <2>2, <2>4 DEF L1Effect, NewEffect
    <3>2. DOMAIN i.cache \subseteq Host  BY <1>0, FieldTypes
    <3> QED BY <3>1, <3>2, HostRange
  <2>8. \A x \in Host : x # n => /\ Table(j, x) = Table(i, x)
                                 /\ j.table[x] = i.table[x] /\ j.data[x] = i.data[x]
      BY <2>2, <2>4 DEF L1Effect, NewEffect
  <2>9. GetsTable(i, a, n, j)
      BY <1>2, <2>5, <2>6, <2>7, <2>8 DEF GetsTable
  <2> QED BY <2>9 DEF j
<1> QED BY <1>1, <1>2

\* A fresh table is the active layer's alone.
LEMMA GetsOwns ==
    ASSUME NEW i, NEW a \in Area, NEW n, NEW j, i \in ImageType, GetsTable(i, a, n, j)
    PROVE  OwnsTable(j, a)
<1>1. i.l1 \in L1Type  BY FieldTypes, Zenon
<1>2. j.l1[a] = Owned(n) /\ n \in Host /\ j.rc[n] = 1  BY <1>1, Zenon DEF GetsTable, L1Type
<1>3. Owned(n).host = n  BY Zenon DEF Owned
<1> QED BY <1>2, <1>3, Zenon DEF OwnsTable

\* What a step that takes at most the free cluster n leaves free.
LEMMA SpareFacts ==
    ASSUME NEW i, NEW j, NEW n, NEW k \in Nat,
           \A x \in Host : x # n /\ i.rc[x] = 0 => j.rc[x] = 0,
           Cardinality(Free(i)) >= k + 1
    PROVE  Cardinality(Free(j)) >= k
<1> USE Zenon
<1>1. IsFiniteSet(Host)  BY SizeAssumption, FS_Interval, SMT DEF Host
<1>2. /\ Free(i) \subseteq Host /\ Free(j) \subseteq Host
      /\ Free(i) \ {n} \subseteq Free(j)
    BY DEF Free
<1> HIDE DEF Free
<1>3. /\ IsFiniteSet(Free(i)) /\ IsFiniteSet(Free(j)) /\ IsFiniteSet(Free(i) \ {n})
    BY <1>1, <1>2, FS_Subset
<1>4. /\ Cardinality(Free(i)) \in Nat /\ Cardinality(Free(j)) \in Nat
      /\ Cardinality(Free(i) \ {n}) \in Nat
    BY <1>3, FS_CardinalityType
<1>5. Cardinality(Free(i) \ {n}) <= Cardinality(Free(j))  BY <1>2, <1>3, FS_Subset
<1>6. Cardinality(Free(i) \ {n}) >= Cardinality(Free(i)) - 1
  <2>1. Cardinality(Free(i) \ {n}) = IF n \in Free(i) THEN Cardinality(Free(i)) - 1
                                     ELSE Cardinality(Free(i))
    BY <1>3, FS_RemoveElement
  <2> QED BY <1>4, <2>1, SMT
<1> QED BY <1>4, <1>5, <1>6, SMT

\* With a number of free clusters there is one.
LEMMA SpareOne ==
    ASSUME NEW i, NEW k \in Nat, k >= 1, Cardinality(Free(i)) >= k
    PROVE  Free(i) # {}
<1>1. SUFFICES ASSUME Free(i) = {} PROVE FALSE  OBVIOUS
<1>2. Cardinality(Free(i)) = 0  BY <1>1, FS_EmptySet, Zenon
<1> QED BY <1>2, SMT

\* A new table takes one free cluster.
LEMMA GetsSpare ==
    ASSUME NEW i, NEW j, NEW a, NEW n, GetsTable(i, a, n, j), NEW k \in Nat,
           Cardinality(Free(i)) >= k + 1
    PROVE  Cardinality(Free(j)) >= k
<1>1. \A x \in Host : x # n /\ i.rc[x] = 0 => j.rc[x] = 0
  <2> SUFFICES ASSUME NEW x \in Host, x # n, i.rc[x] = 0 PROVE j.rc[x] = 0  OBVIOUS
  <2> DEFINE h == i.l1[a].host
  <2>1. /\ j.rc[x] = IF x = n THEN 1 ELSE IF x = h THEN i.rc[x] - 1 ELSE i.rc[x]
        /\ h = 0 \/ i.rc[h] >= 2
    BY Zenon DEF GetsTable
  <2>2. x # h
    <3>1. x # 0  BY HostRange, Zenon
    <3> HIDE DEF h
    <3> QED BY <2>1, <3>1, SMT
  <2> QED BY <2>1, <2>2, Zenon
<1> QED BY <1>1, SpareFacts, Zenon

\* Taking an entry of an own table away, as a discard and punch_vmstate do.
LEMMA DropFacts ==
    ASSUME NEW i, NEW sn, Sound(i, sn), NEW a \in Area, OwnsTable(i, a), NEW s \in Slot,
           NEW e \in EntryType, e.host = 0
    PROVE  LET t == i.l1[a].host
           IN  Repointed(i, a, s, 0, e, SetEntry(Dec(i, Table(i, t)[s].host), t, s, e))
<1> USE Zenon
<1> DEFINE t == i.l1[a].host
           old == Table(i, t)[s].host
           D == Dec(i, old)
           j == SetEntry(D, t, s, e)
<1>0. i \in ImageType /\ t \in Host /\ i.rc[t] = 1  BY DEF Sound, OwnsTable
<1>1. old \in 0 .. HostClusters  BY <1>0, FieldTypes, EntryHost
<1>2. DecEffect(i, old, D)  BY <1>0, <1>1, DecFacts
<1> HIDE DEF D, t
<1>3. EntryEffect(D, t, s, e, j)  BY <1>0, <1>2, SetEntryFacts DEF DecEffect
<1> HIDE DEF j
<1>4. /\ j \in ImageType
      /\ j.l1 = i.l1 /\ j.flushed = i.flushed /\ j.snaps = i.snaps /\ j.list = i.list
      /\ j.table = i.table /\ j.data = i.data
      /\ Coherent(i) => Coherent(j)
    BY <1>2, <1>3 DEF DecEffect, EntryEffect
<1>5. \A x \in Host : j.rc[x] = IF x = 0 THEN 1 ELSE IF x = old THEN i.rc[x] - 1 ELSE i.rc[x]
    BY <1>2, <1>3, HostRange DEF DecEffect, EntryEffect
<1>6. DOMAIN j.cache \subseteq (DOMAIN i.cache \union {t}) \ {0, 0}
  <2>1. DOMAIN j.cache = DOMAIN i.cache \union {t}  BY <1>2, <1>3 DEF DecEffect, EntryEffect
  <2>2. DOMAIN i.cache \subseteq Host  BY <1>0, FieldTypes
  <2> QED BY <1>0, <2>1, <2>2, HostRange
<1>7. Table(j, t) = [Table(i, t) EXCEPT ![s] = e]
    BY <1>0, <1>2, <1>3 DEF DecEffect, EntryEffect
<1>8. \A x \in Host : x \notin {t, 0} => Table(j, x) = Table(i, x)
    BY <1>2, <1>3 DEF DecEffect, EntryEffect
<1>9. Repointed(i, a, s, 0, e, j)
    BY <1>0, <1>4, <1>5, <1>6, <1>7, <1>8 DEF Repointed, t
<1> QED BY <1>9 DEF j, D, t

\* Writing a cluster elsewhere: the entry gets the fresh cluster, with the data in it.
LEMMA FreshFacts ==
    ASSUME NEW i, NEW sn, Sound(i, sn), NEW a \in Area, OwnsTable(i, a), NEW s \in Slot,
           Free(i) # {}, NEW d \in ClusterType
    PROVE  LET t == i.l1[a].host
               n == Lowest(i)
               j == SetEntry(Dec(WriteData(Alloc(Load(i, {t})), n, d), Table(i, t)[s].host),
                             t, s, Owned(n))
           IN  Repointed(i, a, s, n, Owned(n), j) /\ j.data[n] = d
<1> USE Zenon
<1> DEFINE t == i.l1[a].host
           n == Lowest(i)
           old == Table(i, t)[s].host
           L == Load(i, {t})
           K == WriteData(Alloc(L), n, d)
           D == Dec(K, old)
           j == SetEntry(D, t, s, Owned(n))
<1>0. i \in ImageType /\ t \in Host /\ i.rc[t] = 1 /\ i.rc \in [Host -> Int]
    BY FieldTypes DEF Sound, OwnsTable
<1>1. old \in 0 .. HostClusters  BY <1>0, FieldTypes, EntryHost
<1>2. n \in Host /\ i.rc[n] = 0 /\ n # t
  <2>1. n \in Host /\ i.rc[n] = 0  BY <1>0, FreeCluster
  <2> HIDE DEF n
  <2>2. n # t  BY <1>0, <2>1, SMT
  <2> QED BY <2>1, <2>2
<1>3. n # old
  <2> HIDE DEF n
  <2>1. SUFFICES ASSUME n = old PROVE FALSE  OBVIOUS
  <2>2. t # 0  BY <1>0, HostRange
  <2>3. <<a, s>> \in Position /\ Target(i, i.l1, <<a, s>>) = old
    BY <2>2, Positions DEF Target
  <2>4. NotUsed(i, sn, n)  BY <1>2, FreeNoTable
  <2>5. i.l1 \in Layers(i, sn)  BY DEF Layers
  <2> QED BY <2>1, <2>3, <2>4, <2>5 DEF NotUsed
<1>4. LoadEffect(i, {t}, L)  BY <1>0, LoadFacts
<1> HIDE DEF L
<1>5. L \in ImageType /\ L.rc = i.rc  BY <1>4 DEF LoadEffect
<1>6. Free(L) # {} /\ Lowest(L) = n  BY <1>5, SameFree
<1>7. NewEffect(L, n, K) /\ K.data[n] = d
  <2>1. NewEffect(L, Lowest(L), WriteData(Alloc(L), Lowest(L), d))  BY <1>5, <1>6, NewDataFacts
  <2>2. WriteData(Alloc(L), Lowest(L), d).data[Lowest(L)] = d
    BY <1>5, <1>6, NewDataFacts, SMT
  <2> QED BY <1>6, <2>1, <2>2
<1> HIDE DEF K
<1>8. DecEffect(K, old, D)  BY <1>1, <1>7, DecFacts DEF NewEffect
<1> HIDE DEF D, t, n
<1>9. EntryEffect(D, t, s, Owned(n), j)
    BY <1>0, <1>2, <1>8, SetEntryFacts, BlankType DEF DecEffect
<1> HIDE DEF j
<1>10. /\ j \in ImageType
       /\ j.l1 = i.l1 /\ j.flushed = i.flushed /\ j.snaps = i.snaps /\ j.list = i.list
       /\ Coherent(i) => Coherent(j)
       /\ j.data[n] = d
  <2>1. /\ j \in ImageType /\ j.data = D.data
        /\ j.l1 = D.l1 /\ j.flushed = D.flushed /\ j.snaps = D.snaps /\ j.list = D.list
        /\ Coherent(D) => Coherent(j)
    BY <1>9 DEF EntryEffect
  <2>2. /\ D.l1 = K.l1 /\ D.flushed = K.flushed /\ D.snaps = K.snaps /\ D.list = K.list
        /\ D.data = K.data /\ (Coherent(K) => Coherent(D))
    BY <1>8 DEF DecEffect
  <2>3. /\ K.l1 = L.l1 /\ K.flushed = L.flushed /\ K.snaps = L.snaps /\ K.list = L.list
        /\ Coherent(L) => Coherent(K)
    BY <1>7 DEF NewEffect
  <2>4. /\ L.l1 = i.l1 /\ L.flushed = i.flushed /\ L.snaps = i.snaps /\ L.list = i.list
        /\ Coherent(i) => Coherent(L)
    BY <1>4 DEF LoadEffect
  <2>5. /\ j.l1 = i.l1 /\ j.flushed = i.flushed /\ j.snaps = i.snaps /\ j.list = i.list
    BY <2>1, <2>2, <2>3, <2>4
  <2>6. Coherent(i) => Coherent(j)  BY <2>1, <2>2, <2>3, <2>4
  <2>7. j.data[n] = d
    <3>1. j.data = K.data  BY <2>1, <2>2
    <3>2. K.data[n] = d  BY <1>7
    <3> QED BY <3>1, <3>2
  <2> QED BY <2>1, <2>5, <2>6, <2>7
<1>11. \A x \in Host : j.rc[x] = IF x = n THEN 1 ELSE IF x = old THEN i.rc[x] - 1 ELSE i.rc[x]
  <2> SUFFICES ASSUME NEW x \in Host
               PROVE  j.rc[x] = IF x = n THEN 1 ELSE IF x = old THEN i.rc[x] - 1 ELSE i.rc[x]
    OBVIOUS
  <2>1. j.rc[x] = IF x = old THEN K.rc[x] - 1 ELSE K.rc[x]  BY <1>8, <1>9 DEF DecEffect, EntryEffect
  <2>2. K.rc = [i.rc EXCEPT ![n] = 1]  BY <1>5, <1>7 DEF NewEffect
  <2>3. K.rc[x] = IF x = n THEN 1 ELSE i.rc[x]  BY <1>0, <2>2
  <2> QED BY <1>3, <2>1, <2>3
<1>12. DOMAIN j.cache \subseteq (DOMAIN i.cache \union {t}) \ {n, 0}
  <2>1. DOMAIN j.cache = ((DOMAIN L.cache) \ {n}) \union {t}
    BY <1>7, <1>8, <1>9 DEF DecEffect, EntryEffect, NewEffect
  <2>2. DOMAIN L.cache = DOMAIN i.cache \union {t} /\ DOMAIN L.cache \subseteq Host
    BY <1>4, <1>5, FieldTypes DEF LoadEffect
  <2> QED BY <1>0, <1>2, <2>1, <2>2, HostRange
<1>13. \A x \in Host : x # n => /\ Table(D, x) = Table(i, x)
                                /\ j.table[x] = i.table[x] /\ j.data[x] = i.data[x]
  <2> SUFFICES ASSUME NEW x \in Host, x # n
               PROVE  /\ Table(D, x) = Table(i, x)
                      /\ j.table[x] = i.table[x] /\ j.data[x] = i.data[x]
    OBVIOUS
  <2>1. Table(D, x) = Table(K, x) /\ j.table = K.table /\ j.data = K.data
    BY <1>8, <1>9 DEF EntryEffect, DecEffect
  <2>2. Table(K, x) = Table(L, x) /\ K.table[x] = L.table[x] /\ K.data[x] = L.data[x]
    BY <1>7 DEF NewEffect
  <2>3. Table(L, x) = Table(i, x) /\ L.table = i.table /\ L.data = i.data
    BY <1>4 DEF LoadEffect
  <2> QED BY <2>1, <2>2, <2>3
<1>14. Table(j, t) = [Table(i, t) EXCEPT ![s] = Owned(n)]
    BY <1>0, <1>2, <1>9, <1>13 DEF EntryEffect
<1>15. \A x \in Host : x \notin {t, n} => Table(j, x) = Table(i, x)
    BY <1>9, <1>13 DEF EntryEffect
<1>16. Owned(n) \in EntryType /\ Owned(n).host = n  BY <1>2, BlankType DEF Owned
<1>17. Repointed(i, a, s, n, Owned(n), j)
    BY <1>0, <1>2, <1>10, <1>11, <1>12, <1>13, <1>14, <1>15, <1>16 DEF Repointed, t
<1> QED BY <1>10, <1>17 DEF j, D, K, L, t, n

\* Writing a cluster where it is: the table entry keeps the cluster.
InPlace(i, sn, a, s, d, j) ==
    LET t == i.l1[a].host
        e == Table(i, t)[s]
    IN  /\ t \in Host /\ e.host \in Host /\ i.rc[t] = 1 /\ i.rc[e.host] = 1
        /\ SameShape(i, sn, j) /\ Coherent(j)
        /\ j.l1 = i.l1 /\ j.flushed = i.flushed /\ j.snaps = i.snaps /\ j.table = i.table
        /\ j.data = [i.data EXCEPT ![e.host] = d]
        /\ \A x \in Host, r \in Slot : x # t \/ r # s => Table(j, x)[r] = Table(i, x)[r]

\* What the data of a cluster is written as.
LEMMA DataFacts ==
    ASSUME NEW i \in ImageType, NEW h \in Host, NEW d \in ClusterType
    PROVE  LET j == [i EXCEPT !.data[h] = d]
           IN  /\ j \in ImageType /\ j.data = [i.data EXCEPT ![h] = d]
               /\ j.l1 = i.l1 /\ j.rc = i.rc /\ j.cache = i.cache /\ j.flushed = i.flushed
               /\ j.table = i.table /\ j.snaps = i.snaps /\ j.list = i.list
<1> USE Zenon
<1> DEFINE c == [i.data EXCEPT ![h] = d]
<1>1. c \in [Host -> ClusterType]  BY FieldTypes
<1>2. [i EXCEPT !.data[h] = d] = [i EXCEPT !.data = c]  BY DEF ImageType
<1> HIDE DEF c
<1>3. LET j == [i EXCEPT !.data = c]
      IN  /\ j \in ImageType /\ j.data = c
          /\ j.l1 = i.l1 /\ j.rc = i.rc /\ j.cache = i.cache /\ j.flushed = i.flushed
          /\ j.table = i.table /\ j.snaps = i.snaps /\ j.list = i.list
    BY <1>1 DEF ImageType
<1> QED BY <1>2, <1>3 DEF c

\* write_bytes in place, in a cluster that the active layer alone uses.
LEMMA InPlaceFacts ==
    ASSUME NEW i, NEW sn, Sound(i, sn), CopiedOK(i), NEW a \in Area, OwnsTable(i, a),
           NEW s \in Slot, NEW d \in ClusterType,
           Table(i, i.l1[a].host)[s].host # 0,
           \/ Table(i, i.l1[a].host)[s].copied
           \/ i.rc[Table(i, i.l1[a].host)[s].host] = 1
    PROVE  LET t == i.l1[a].host
               e == Table(i, t)[s]
           IN  InPlace(i, sn, a, s, d,
                       [(IF e.copied THEN Load(i, {t}) ELSE SetEntry(i, t, s, Owned(e.host)))
                          EXCEPT !.data[e.host] = d])
<1> USE Zenon
<1> DEFINE t == i.l1[a].host
           e == Table(i, t)[s]
           K == IF e.copied THEN Load(i, {t}) ELSE SetEntry(i, t, s, Owned(e.host))
           j == [K EXCEPT !.data[e.host] = d]
<1>0. /\ i \in ImageType /\ t \in Host /\ i.rc[t] = 1 /\ t # 0
      /\ Table(i, t) \in TableType /\ Coherent(i)
    BY FieldTypes, HostRange DEF Sound, OwnsTable
<1>1. e.host \in Host /\ e \in EntryType  BY <1>0, EntryHost
<1>2. i.rc[e.host] = 1  BY <1>0 DEF CopiedOK
<1>3. /\ K \in ImageType /\ K.l1 = i.l1 /\ K.rc = i.rc /\ K.flushed = i.flushed
      /\ K.table = i.table /\ K.data = i.data /\ K.snaps = i.snaps /\ K.list = i.list
      /\ DOMAIN K.cache = DOMAIN i.cache \union {t}
      /\ Coherent(K)
      /\ \A x \in Host, r \in Slot :
            /\ Table(K, x)[r].host = Table(i, x)[r].host
            /\ x # t \/ r # s => Table(K, x)[r] = Table(i, x)[r]
  <2>1. CASE e.copied
    <3>1. LoadEffect(i, {t}, K)  BY <1>0, <2>1, LoadFacts
    <3> QED BY <1>0, <3>1 DEF LoadEffect
  <2>2. CASE ~e.copied
    <3>1. EntryEffect(i, t, s, Owned(e.host), K)  BY <1>0, <1>1, <2>2, SetEntryFacts, BlankType
    <3> HIDE DEF K
    <3>2. Table(K, t)[s] = Owned(e.host)  BY <1>0, <3>1 DEF EntryEffect, TableType
    <3>3. Owned(e.host).host = e.host  BY DEF Owned
    <3>4. \A r \in Slot : r # s => Table(K, t)[r] = Table(i, t)[r]
      BY <1>0, <3>1 DEF EntryEffect, TableType
    <3>5. \A x \in Host, r \in Slot : x # t \/ r # s => Table(K, x)[r] = Table(i, x)[r]
      BY <3>1, <3>4 DEF EntryEffect
    <3>6. \A x \in Host, r \in Slot : Table(K, x)[r].host = Table(i, x)[r].host
      BY <3>2, <3>3, <3>5
    <3> QED BY <1>0, <3>1, <3>5, <3>6 DEF EntryEffect
  <2> QED BY <2>1, <2>2
<1> HIDE DEF K
<1>4. /\ j \in ImageType /\ j.data = [i.data EXCEPT ![e.host] = d]
      /\ j.l1 = i.l1 /\ j.rc = i.rc /\ j.cache = K.cache /\ j.flushed = i.flushed
      /\ j.table = K.table /\ j.snaps = i.snaps /\ j.list = i.list
  <2>1. /\ j \in ImageType /\ j.data = [K.data EXCEPT ![e.host] = d]
        /\ j.l1 = K.l1 /\ j.rc = K.rc /\ j.cache = K.cache /\ j.flushed = K.flushed
        /\ j.table = K.table /\ j.snaps = K.snaps /\ j.list = K.list
    <3> HIDE DEF e
    <3> QED BY <1>1, <1>3, DataFacts, SMT
  <2> QED BY <1>3, <2>1
<1> HIDE DEF j
<1>5. (\A x \in Host : Table(j, x) = Table(K, x)) /\ Coherent(j)
    BY <1>3, <1>4 DEF Table, Coherent
<1>6. \A h \in DOMAIN j.cache :
         h \in DOMAIN i.cache \/ \E l \in Layers(i, sn), b \in Area : l[b].host = h
  <2>1. i.l1 \in Layers(i, sn)  BY DEF Layers
  <2>2. DOMAIN j.cache = DOMAIN i.cache \union {t}  BY <1>3, <1>4
  <2> QED BY <2>1, <2>2
<1>7. \A x \in Host, r \in Slot :
         /\ Table(j, x)[r].host = Table(i, x)[r].host
         /\ x # t \/ r # s => Table(j, x)[r] = Table(i, x)[r]
    BY <1>3, <1>5
<1>8. SameShape(i, sn, j)
  <2>1. \A b \in Area : j.l1[b].host = i.l1[b].host  BY <1>4
  <2>2. j \in ImageType /\ j.rc = i.rc /\ j.list = i.list  BY <1>4
  <2>3. \A l \in Layers(i, sn), b \in Area : l[b].host # 0 => l[b].host \in Host
    BY LayerTypes, EntryHost DEF Sound
  <2>4. \A l \in Layers(i, sn), b \in Area, r \in Slot :
           l[b].host # 0 => Table(j, l[b].host)[r].host = Table(i, l[b].host)[r].host
    BY <1>7, <2>3
  <2> QED BY <1>6, <2>1, <2>2, <2>4 DEF SameShape
<1>9. j.table = i.table /\ j.l1 = i.l1 /\ j.flushed = i.flushed /\ j.snaps = i.snaps
    BY <1>3, <1>4
<1>10. InPlace(i, sn, a, s, d, j)
  <2>1. t \in Host /\ e.host \in Host /\ i.rc[t] = 1 /\ i.rc[e.host] = 1  BY <1>0, <1>1, <1>2
  <2>2. j.data = [i.data EXCEPT ![e.host] = d] /\ Coherent(j)  BY <1>4, <1>5
  <2> QED BY <1>7, <1>8, <1>9, <2>1, <2>2 DEF InPlace
<1> QED BY <1>10 DEF j, K

-------------------------------------------------------------------------------
(* The file, as a crash would leave it. *)

\* What opening the file finds.
ReopenedEffect(i, r) ==
    /\ r \in ImageType
    /\ r.l1 = i.flushed.l1 /\ r.rc = i.flushed.rc /\ DOMAIN r.cache = {}
    /\ r.flushed = i.flushed /\ r.table = i.table /\ r.data = i.data
    /\ r.snaps = i.snaps /\ r.list = i.list
    /\ \A h \in Host : Table(r, h) = i.table[h]
    /\ Coherent(r)

\* What opening the file finds, field by field.
LEMMA ReopenedFacts ==
    ASSUME NEW i \in ImageType
    PROVE  ReopenedEffect(i, Reopened(i))
<1> USE Zenon
<1> DEFINE r == Reopened(i)
           none == <<>>
<1>1. DOMAIN none = {}  BY SMT
<1>2. none \in [{} -> [entries : TableType, dirty : BOOLEAN]]  BY SMT
<1> HIDE DEF none
<1>3. none \in CacheType  BY <1>2, CacheIntro
<1>4. i.flushed.l1 \in L1Type /\ i.flushed.rc \in [Host -> Int]  BY FieldTypes
<1>5. r = [i EXCEPT !.l1 = i.flushed.l1, !.rc = i.flushed.rc, !.cache = none]
    BY DEF Reopened, none
<1> HIDE DEF r
<1>6. /\ r \in ImageType
      /\ r.l1 = i.flushed.l1 /\ r.rc = i.flushed.rc /\ r.cache = none
      /\ r.flushed = i.flushed /\ r.table = i.table /\ r.data = i.data
      /\ r.snaps = i.snaps /\ r.list = i.list
    BY <1>3, <1>4, <1>5 DEF ImageType
<1>7. ReopenedEffect(i, r)  BY <1>1, <1>6 DEF ReopenedEffect, Table, Coherent
<1> QED BY <1>7 DEF r

\* The image and its file are sound, and what the last flush wrote is still there.
Whole(i, T) ==
    /\ Sound(i, i.snaps) /\ CopiedOK(i)
    /\ Sound(Reopened(i), i.snaps) /\ CopiedOK(Reopened(i))
    /\ Lasting(i, T)

\* A step that leaves the file alone but for a cluster that was free.
FileKept(i, n, j) ==
    /\ j \in ImageType
    /\ j.flushed = i.flushed /\ j.snaps = i.snaps /\ j.list = i.list
    /\ \A x \in Host : x # n => j.table[x] = i.table[x]
    /\ n \in Host => i.rc[n] = 0

\* A free cluster is no table of the file's layers.
LEMMA FileTables ==
    ASSUME NEW i, NEW T \in SUBSET Slot, Whole(i, T), NEW n \in Host, i.rc[n] = 0,
           NEW l \in Layers(Reopened(i), i.snaps), NEW a \in Area
    PROVE  l[a].host # n
<1> USE Zenon
<1>1. i \in ImageType  BY DEF Whole, Sound
<1>2. Reopened(i).l1 = i.flushed.l1  BY <1>1, ReopenedFacts DEF ReopenedEffect
<1>3. CASE l = i.flushed.l1
  <2> DEFINE v == <<a, 0>>
             d == Target(Reopened(i), i.flushed.l1, v)
  <2>1. v \in Position /\ d = l[a].host  BY <1>3, Positions DEF Target
  <2>2. v \notin {"disk"} \X T
    <3>1. v[2] = 0 /\ 0 \notin Slot  BY Positions
    <3> HIDE DEF v
    <3> QED BY <3>1, SMT
  <2>3. d # 0 => i.rc[d] > 0  BY <2>1, <2>2 DEF Whole, Lasting
  <2>4. n # 0  BY HostRange
  <2> HIDE DEF d, v
  <2>5. d # n  BY <2>3, <2>4, SMT
  <2> QED BY <2>1, <2>5
<1>4. CASE l # i.flushed.l1
  <2>1. l \in Layers(i, i.snaps)  BY <1>2, <1>4 DEF Layers
  <2> QED BY <2>1, FreeNoTable, SMT DEF Whole
<1> QED BY <1>3, <1>4

\* The copied bits go by the active tables and the refcounts.
LEMMA CopiedSame ==
    ASSUME NEW i, NEW j, CopiedOK(i), j.l1 = i.l1, j.rc = i.rc,
           \A a \in Area : i.l1[a].host # 0 => Table(j, i.l1[a].host) = Table(i, i.l1[a].host)
    PROVE  CopiedOK(j)
<1> USE Zenon
<1> SUFFICES ASSUME NEW a \in Area, j.l1[a].host # 0
             PROVE  /\ j.l1[a].copied => j.rc[j.l1[a].host] = 1
                    /\ \A s \in Slot : LET e == Table(j, j.l1[a].host)[s]
                                      IN  e.copied => e.host # 0 /\ j.rc[e.host] = 1
    BY DEF CopiedOK
<1> DEFINE h == i.l1[a].host
<1>1. j.l1[a].host = h /\ h # 0 /\ j.l1[a].copied = i.l1[a].copied  OBVIOUS
<1>2. Table(j, h) = Table(i, h)  BY <1>1
<1>3. /\ i.l1[a].copied => i.rc[h] = 1
      /\ \A s \in Slot : Table(i, h)[s].copied => /\ Table(i, h)[s].host # 0
                                                  /\ i.rc[Table(i, h)[s].host] = 1
    BY <1>1 DEF CopiedOK
<1> HIDE DEF h
<1> QED BY <1>1, <1>2, <1>3

\* A step that leaves the file alone but for a free cluster leaves the file sound.
LEMMA FileSound ==
    ASSUME NEW i, NEW T \in SUBSET Slot, Whole(i, T), NEW n, NEW j, FileKept(i, n, j)
    PROVE  /\ Sound(Reopened(j), j.snaps) /\ CopiedOK(Reopened(j))
           /\ \A u \in Position : Target(Reopened(j), j.flushed.l1, u)
                                    = Target(Reopened(i), i.flushed.l1, u)
<1> USE Zenon
<1> DEFINE r == Reopened(i)
           q == Reopened(j)
           sn == i.snaps
<1>0. /\ i \in ImageType /\ Sound(r, sn) /\ CopiedOK(r)
      /\ j \in ImageType /\ j.flushed = i.flushed /\ j.snaps = sn /\ j.list = i.list
      /\ \A x \in Host : x # n => j.table[x] = i.table[x]
    BY DEF Whole, Sound, FileKept
<1>1. ReopenedEffect(i, r) /\ ReopenedEffect(j, q)  BY <1>0, ReopenedFacts
<1>2. ASSUME NEW l \in Layers(r, sn), NEW a \in Area, l[a].host # 0
      PROVE  l[a].host \in Host /\ l[a].host # n
  <2>1. l[a].host \in Host  BY <1>0, <1>2, LayerTypes, EntryHost DEF Sound
  <2>2. CASE n \in Host
    <3>1. i.rc[n] = 0  BY <2>2 DEF FileKept
    <3> QED BY <1>2, <2>1, <2>2, <3>1, FileTables
  <2>3. CASE n \notin Host  BY <2>1, <2>3
  <2> QED BY <2>1, <2>2, <2>3
<1> HIDE DEF r, q
<1>3. \A l \in Layers(r, sn), a \in Area :
         l[a].host # 0 => Table(q, l[a].host) = Table(r, l[a].host)
  <2>1. \A x \in Host : x # n => Table(q, x) = Table(r, x)
    BY <1>0, <1>1 DEF ReopenedEffect
  <2> QED BY <1>2, <2>1
<1>4. /\ q \in ImageType /\ q.rc = r.rc /\ q.list = r.list /\ q.l1 = r.l1
      /\ DOMAIN q.cache = {} /\ Coherent(q) /\ r.l1 = i.flushed.l1 /\ j.flushed.l1 = r.l1
    BY <1>0, <1>1 DEF ReopenedEffect
<1>5. SameShape(r, sn, q)
  <2>1. \A a \in Area : q.l1[a].host = r.l1[a].host  BY <1>4
  <2>2. \A l \in Layers(r, sn), a \in Area, s \in Slot :
          l[a].host # 0 => Table(q, l[a].host)[s].host = Table(r, l[a].host)[s].host
    BY <1>3
  <2> QED BY <1>4, <2>1, <2>2 DEF SameShape
<1>6. Sound(q, sn)  BY <1>0, <1>4, <1>5, ShapeSound
<1>7. CopiedOK(q)
  <2>1. r.l1 \in Layers(r, sn)  BY DEF Layers
  <2>2. \A a \in Area : r.l1[a].host # 0 => Table(q, r.l1[a].host) = Table(r, r.l1[a].host)
    BY <1>3, <2>1
  <2> QED BY <1>0, <1>4, <2>2, CopiedSame
<1>8. \A u \in Position : Target(q, j.flushed.l1, u) = Target(r, i.flushed.l1, u)
  <2>1. SameUses(r, sn, q)  BY <1>0, <1>5, ShapeUses
  <2> QED BY <1>4, <2>1 DEF SameUses
<1> QED BY <1>0, <1>6, <1>7, <1>8 DEF r, q

-------------------------------------------------------------------------------
(* What keeps the image and its file whole. *)

\* A new table leaves the copied bits true: what it shares it no longer marks so,
\* since its clusters are counted for the old table too.
LEMMA GetsCopied ==
    ASSUME NEW i, NEW sn, Sound(i, sn), CopiedOK(i), NEW a \in Area, NEW n, NEW j,
           GetsTable(i, a, n, j)
    PROVE  CopiedOK(j)
<1> USE Zenon
<1> DEFINE h == i.l1[a].host
<1>0. i \in ImageType /\ i.l1 \in L1Type /\ i.rc \in [Host -> Int]  BY FieldTypes DEF Sound
<1>1. /\ n \in Host /\ i.rc[n] = 0 /\ (h = 0 \/ i.rc[h] >= 2)
      /\ j.l1 = [i.l1 EXCEPT ![a] = Owned(n)]
      /\ \A x \in Host : j.rc[x] = IF x = n THEN 1 ELSE IF x = h THEN i.rc[x] - 1 ELSE i.rc[x]
      /\ \A x \in Host : x # n => Table(j, x) = Table(i, x)
      /\ Table(j, n) = IF h = 0 THEN Blank ELSE Table(i, h)
    BY DEF GetsTable
<1>2. ASSUME NEW x \in Host, i.rc[x] = 1 PROVE j.rc[x] = 1
  <2> HIDE DEF h
  <2>1. x # 0  BY HostRange
  <2>2. x # n /\ x # h  BY <1>1, <1>2, <2>1, SMT
  <2> QED BY <1>1, <1>2, <2>2
<1>3. /\ j.l1[a].host = n /\ n # 0
      /\ \A b \in Area : b # a => j.l1[b] = i.l1[b]
  <2>1. j.l1[a] = Owned(n) /\ \A b \in Area : b # a => j.l1[b] = i.l1[b]  BY <1>0, <1>1 DEF L1Type
  <2>2. Owned(n).host = n  BY DEF Owned
  <2> QED BY <1>1, <2>1, <2>2, HostRange
<1>4. ASSUME NEW t \in Host, NEW s \in Slot, Table(i, t)[s].copied,
             Table(i, t)[s].host # 0, i.rc[Table(i, t)[s].host] = 1
      PROVE  Table(i, t)[s].host # 0 /\ j.rc[Table(i, t)[s].host] = 1
  <2>1. Table(i, t)[s].host \in Host  BY <1>0, <1>4, FieldTypes, EntryHost
  <2> QED BY <1>2, <1>4, <2>1
<1> SUFFICES ASSUME NEW b \in Area, j.l1[b].host # 0
             PROVE  /\ j.l1[b].copied => j.rc[j.l1[b].host] = 1
                    /\ \A s \in Slot : LET e == Table(j, j.l1[b].host)[s]
                                      IN  e.copied => e.host # 0 /\ j.rc[e.host] = 1
    BY DEF CopiedOK
<1>5. CASE b # a
  <2> DEFINE t == i.l1[b].host
  <2>1. j.l1[b] = i.l1[b] /\ t # 0  BY <1>3, <1>5
  <2>2. t \in Host  BY <1>0, <2>1, EntryHost
  <2>3. t # n
    <3>1. i.l1 \in Layers(i, sn)  BY DEF Layers
    <3> QED BY <1>1, <3>1, FreeNoTable, SMT
  <2>4. /\ i.l1[b].copied => i.rc[t] = 1
        /\ \A s \in Slot : Table(i, t)[s].copied => /\ Table(i, t)[s].host # 0
                                                    /\ i.rc[Table(i, t)[s].host] = 1
    BY <2>1 DEF CopiedOK
  <2>5. Table(j, t) = Table(i, t)  BY <1>1, <2>2, <2>3
  <2>6. i.l1[b].copied => j.rc[t] = 1  BY <1>2, <2>2, <2>4
  <2>7. \A s \in Slot : Table(i, t)[s].copied => /\ Table(i, t)[s].host # 0
                                                 /\ j.rc[Table(i, t)[s].host] = 1
    BY <1>4, <2>2, <2>4
  <2> QED BY <2>1, <2>5, <2>6, <2>7
<1>6. CASE b = a
  <2>1. j.rc[n] = 1  BY <1>1
  <2>2. ASSUME NEW s \in Slot, Table(j, n)[s].copied
        PROVE  Table(j, n)[s].host # 0 /\ j.rc[Table(j, n)[s].host] = 1
    <3>1. CASE h = 0
      <4>1. Table(j, n)[s] = Unallocated  BY <1>1, <3>1 DEF Blank
      <4>2. ~Unallocated.copied  BY DEF Unallocated
      <4> QED BY <2>2, <4>1, <4>2
    <3>2. CASE h # 0
      <4>1. h \in Host /\ Table(j, n) = Table(i, h)  BY <1>0, <1>1, <3>2, EntryHost
      <4>2. Table(i, h)[s].host # 0 /\ i.rc[Table(i, h)[s].host] = 1
        BY <2>2, <3>2, <4>1 DEF CopiedOK
      <4>3. Table(i, h)[s].host # 0 /\ j.rc[Table(i, h)[s].host] = 1
        BY <1>4, <2>2, <4>1, <4>2
      <4> QED BY <4>1, <4>3
    <3> QED BY <3>1, <3>2
  <2> QED BY <1>3, <1>6, <2>1, <2>2
<1> QED BY <1>5, <1>6

\* A new table leaves the image and its file whole.
LEMMA GetsKeeps ==
    ASSUME NEW i, NEW T \in SUBSET Slot, Whole(i, T), NEW a \in Area, NEW n, NEW j,
           GetsTable(i, a, n, j)
    PROVE  Whole(j, T)
<1> USE Zenon
<1> DEFINE h == i.l1[a].host
<1>0. Sound(i, i.snaps) /\ CopiedOK(i) /\ j.snaps = i.snaps /\ i \in ImageType
    BY DEF Whole, GetsTable, Sound
<1>1. Sound(j, j.snaps)  BY <1>0, GetsTableSound
<1>2. CopiedOK(j)  BY <1>0, GetsCopied
<1>3. FileKept(i, n, j)  BY DEF GetsTable, FileKept
<1>4. Sound(Reopened(j), j.snaps) /\ CopiedOK(Reopened(j))  BY <1>3, FileSound
<1>5. \A u \in Position : Target(Reopened(j), j.flushed.l1, u)
                            = Target(Reopened(i), i.flushed.l1, u)
    BY <1>3, FileSound, SMT
<1>6. \A u \in Position : Target(j, j.l1, u) = IF u = <<a, 0>> THEN n ELSE Target(i, i.l1, u)
    BY <1>0, GetsTableUses, SMT
<1>7. Lasting(j, T)
  <2> SUFFICES ASSUME NEW v \in Position \ ({"disk"} \X T),
                      Target(Reopened(j), j.flushed.l1, v) # 0
               PROVE  LET d == Target(Reopened(j), j.flushed.l1, v)
                      IN  /\ j.rc[d] > 0
                          /\ \A u \in Position : Target(j, j.l1, u) = d => u = v
    BY DEF Lasting
  <2> DEFINE d == Target(Reopened(i), i.flushed.l1, v)
  <2>1. Target(Reopened(j), j.flushed.l1, v) = d /\ d # 0  BY <1>5
  <2>2. i.rc[d] > 0 /\ \A u \in Position : Target(i, i.l1, u) = d => u = v
    BY <2>1 DEF Whole, Lasting
  <2>3. d \in Host
    <3>1. Reopened(i) \in ImageType /\ i.flushed.l1 \in L1Type
      BY <1>0, ReopenedFacts, FieldTypes DEF ReopenedEffect
    <3> QED BY <2>1, <3>1, TargetType
  <2> HIDE DEF d
  <2>4. /\ n \in Host /\ i.rc[n] = 0 /\ (h = 0 \/ i.rc[h] >= 2)
        /\ j.rc[d] = IF d = n THEN 1 ELSE IF d = h THEN i.rc[d] - 1 ELSE i.rc[d]
        /\ i.rc[d] \in Int
    <3>1. i.rc[d] \in Int  BY <1>0, <2>3, FieldTypes
    <3> QED BY <2>3, <3>1 DEF GetsTable
  <2> HIDE DEF h
  <2>5. d # n /\ j.rc[d] > 0  BY <2>1, <2>2, <2>4, SMT
  <2>6. \A u \in Position : Target(j, j.l1, u) = d => u = v  BY <1>6, <2>2, <2>5
  <2> QED BY <2>1, <2>5, <2>6
<1> QED BY <1>1, <1>2, <1>4, <1>7 DEF Whole

\* A step that moves no reference.
LEMMA ShapeKeeps ==
    ASSUME NEW i, NEW T \in SUBSET Slot, Whole(i, T), NEW j, SameShape(i, i.snaps, j),
           Coherent(j), CopiedOK(j), j.flushed = i.flushed, j.snaps = i.snaps, j.table = i.table
    PROVE  Whole(j, T)
<1> USE Zenon
<1>0. /\ Sound(i, i.snaps) /\ j \in ImageType /\ j.rc = i.rc /\ j.list = i.list
    BY DEF Whole, SameShape
<1>1. Sound(j, j.snaps) /\ SameUses(i, i.snaps, j)  BY <1>0, ShapeSound, ShapeUses
<1>2. FileKept(i, 0, j)  BY <1>0, HostRange DEF FileKept
<1>3. Sound(Reopened(j), j.snaps) /\ CopiedOK(Reopened(j))  BY <1>2, FileSound
<1>4. \A u \in Position : Target(Reopened(j), j.flushed.l1, u)
                            = Target(Reopened(i), i.flushed.l1, u)
    BY <1>2, FileSound, SMT
<1>5. Lasting(j, T)
  <2> SUFFICES ASSUME NEW v \in Position \ ({"disk"} \X T),
                      Target(Reopened(j), j.flushed.l1, v) # 0
               PROVE  LET d == Target(Reopened(j), j.flushed.l1, v)
                      IN  /\ j.rc[d] > 0
                          /\ \A u \in Position : Target(j, j.l1, u) = d => u = v
    BY DEF Lasting
  <2> DEFINE d == Target(Reopened(i), i.flushed.l1, v)
  <2>1. Target(Reopened(j), j.flushed.l1, v) = d /\ d # 0  BY <1>4
  <2>2. i.rc[d] > 0 /\ \A u \in Position : Target(i, i.l1, u) = d => u = v
    BY <2>1 DEF Whole, Lasting
  <2> HIDE DEF d
  <2> QED BY <1>0, <1>1, <2>1, <2>2 DEF SameUses
<1> QED BY <1>1, <1>3, <1>5 DEF Whole

\* A table entry repointed leaves the copied bits true.
LEMMA RepointCopied ==
    ASSUME NEW i, NEW sn, Sound(i, sn), CopiedOK(i), NEW a \in Area, NEW s \in Slot,
           NEW n, NEW e, NEW j, Repointed(i, a, s, n, e, j), e.copied => n # 0
    PROVE  CopiedOK(j)
<1> USE Zenon
<1> DEFINE t == i.l1[a].host
           old == Table(i, t)[s].host
<1>0. /\ i \in ImageType /\ i.l1 \in L1Type /\ i.rc \in [Host -> Int]
      /\ IsFiniteSet(DOMAIN sn) /\ Balanced(i, sn)
    BY FieldTypes DEF Sound
<1>1. /\ t \in Host /\ i.rc[t] = 1 /\ j.l1 = i.l1 /\ e.host = n
      /\ n = 0 \/ (n \in Host /\ i.rc[n] = 0)
      /\ \A x \in Host : j.rc[x] = IF x = n THEN 1 ELSE IF x = old THEN i.rc[x] - 1 ELSE i.rc[x]
      /\ Table(j, t) = [Table(i, t) EXCEPT ![s] = e]
      /\ \A x \in Host : x \notin {t, n} => Table(j, x) = Table(i, x)
    BY DEF Repointed
<1>2. t # 0 /\ t # n  BY <1>1, HostRange, SMT
\* The clusters of the other positions keep their count of one.
<1>3. ASSUME NEW u \in Position, u # <<a, s>>, Target(i, i.l1, u) # 0,
             i.rc[Target(i, i.l1, u)] = 1
      PROVE  j.rc[Target(i, i.l1, u)] = 1
  <2> DEFINE x == Target(i, i.l1, u)
  <2>1. x \in Host  BY <1>0, <1>3, TargetType
  <2>2. SoleUse(i, sn, x, u)  BY <1>0, <1>3, <2>1, UsedOnce
  <2>3. <<a, s>> \in Position /\ Target(i, i.l1, <<a, s>>) = old
    BY <1>2, Positions DEF Target
  <2>4. x # old  BY <1>3, <2>2, <2>3 DEF SoleUse
  <2>5. x # n
    <3> HIDE DEF x
    <3> QED BY <1>1, <1>3, SMT DEF x
  <2> QED BY <1>1, <1>3, <2>1, <2>4, <2>5
<1> SUFFICES ASSUME NEW b \in Area, j.l1[b].host # 0
             PROVE  /\ j.l1[b].copied => j.rc[j.l1[b].host] = 1
                    /\ \A r \in Slot : LET f == Table(j, j.l1[b].host)[r]
                                      IN  f.copied => f.host # 0 /\ j.rc[f.host] = 1
    BY DEF CopiedOK
<1> DEFINE h == i.l1[b].host
<1>4. /\ j.l1[b] = i.l1[b] /\ h # 0 /\ h \in Host
      /\ i.l1[b].copied => i.rc[h] = 1
      /\ \A r \in Slot : Table(i, h)[r].copied => /\ Table(i, h)[r].host # 0
                                                  /\ i.rc[Table(i, h)[r].host] = 1
  <2>1. j.l1[b] = i.l1[b] /\ h # 0  BY <1>1
  <2>2. h \in Host  BY <1>0, <2>1, EntryHost
  <2> QED BY <2>1, <2>2 DEF CopiedOK
<1>5. i.l1[b].copied => j.rc[h] = 1
  <2>1. <<b, 0>> \in Position /\ Target(i, i.l1, <<b, 0>>) = h  BY Positions DEF Target
  <2>2. <<b, 0>> # <<a, s>>  BY Positions, SMT
  <2> QED BY <1>3, <1>4, <2>1, <2>2
<1>6. ASSUME NEW r \in Slot, <<b, r>> # <<a, s>>, Table(i, h)[r].copied
      PROVE  Table(i, h)[r].host # 0 /\ j.rc[Table(i, h)[r].host] = 1
  <2>1. <<b, r>> \in Position /\ Target(i, i.l1, <<b, r>>) = Table(i, h)[r].host
    BY <1>4, Positions DEF Target
  <2> QED BY <1>3, <1>4, <1>6, <2>1
<1>7. h = t => b = a
  <2>1. i.l1 \in Layers(i, sn)  BY DEF Layers
  <2>2. /\ <<b, 0>> \in Position /\ Target(i, i.l1, <<b, 0>>) = h
        /\ <<a, 0>> \in Position /\ Target(i, i.l1, <<a, 0>>) = t
        /\ <<b, 0>>[1] = b /\ <<a, 0>>[1] = a
    BY Positions DEF Target
  <2>3. h = t => <<b, 0>> = <<a, 0>>  BY <1>4, <2>1, <2>2 DEF Sound, Placed
  <2> QED BY <2>2, <2>3
<1>8. h # n
  <2>1. i.l1 \in Layers(i, sn)  BY DEF Layers
  <2> QED BY <1>1, <1>4, <2>1, FreeNoTable, SMT
<1>9. ASSUME NEW r \in Slot, Table(j, h)[r].copied
      PROVE  Table(j, h)[r].host # 0 /\ j.rc[Table(j, h)[r].host] = 1
  <2>0. Table(i, t) \in TableType  BY <1>0, <1>1, FieldTypes
  <2>1. CASE h # t
    <3>1. Table(j, h) = Table(i, h)  BY <1>1, <1>4, <1>8, <2>1
    <3>2. b # a  BY <2>1
    <3>3. <<b, r>> # <<a, s>>  BY <3>2, SMT
    <3> QED BY <1>6, <1>9, <3>1, <3>3
  <2>2. CASE h = t /\ r # s
    <3>1. Table(j, h)[r] = Table(i, h)[r]  BY <1>1, <2>0, <2>2 DEF TableType
    <3>2. <<b, r>> # <<a, s>>  BY <2>2, SMT
    <3> QED BY <1>6, <1>9, <3>1, <3>2
  <2>3. CASE h = t /\ r = s
    <3>1. Table(j, h)[r] = e  BY <1>1, <2>0, <2>3 DEF TableType
    <3>2. n # 0 /\ n \in Host  BY <1>1, <1>9, <3>1
    <3>3. j.rc[n] = 1  BY <1>1, <3>2
    <3> QED BY <1>1, <3>1, <3>2, <3>3
  <2> QED BY <2>1, <2>2, <2>3
<1> QED BY <1>4, <1>5, <1>9

\* A table entry repointed to a fresh cluster, or to none, leaves the image whole: the
\* cluster it named is still the file's unless its count was 1.
LEMMA RepointKeeps ==
    ASSUME NEW i, NEW T \in SUBSET Slot, NEW V \in SUBSET Slot, T \subseteq V, Whole(i, T),
           NEW a \in Area, NEW s \in Slot, NEW n, NEW e, NEW j, Repointed(i, a, s, n, e, j),
           e.copied => n # 0,
           \/ Table(i, i.l1[a].host)[s].host = 0
           \/ i.rc[Table(i, i.l1[a].host)[s].host] >= 2
           \/ a = "disk" /\ s \in V
    PROVE  Whole(j, V)
<1> USE Zenon
<1> DEFINE t == i.l1[a].host
           old == Table(i, t)[s].host
<1>0. Sound(i, i.snaps) /\ CopiedOK(i) /\ j.snaps = i.snaps /\ i \in ImageType
    BY DEF Whole, Repointed, Sound
<1>1. Sound(j, j.snaps)  BY <1>0, RepointSound
<1>2. CopiedOK(j)  BY <1>0, RepointCopied
<1>3. FileKept(i, n, j)  BY HostRange DEF Repointed, FileKept
<1>4. Sound(Reopened(j), j.snaps) /\ CopiedOK(Reopened(j))  BY <1>3, FileSound
<1>5. \A u \in Position : Target(Reopened(j), j.flushed.l1, u)
                            = Target(Reopened(i), i.flushed.l1, u)
    BY <1>3, FileSound, SMT
<1>6. \A u \in Position : Target(j, j.l1, u) = IF u = <<a, s>> THEN n ELSE Target(i, i.l1, u)
    BY <1>0, RepointUses, SMT
<1>7. Lasting(j, V)
  <2> SUFFICES ASSUME NEW v \in Position \ ({"disk"} \X V),
                      Target(Reopened(j), j.flushed.l1, v) # 0
               PROVE  LET d == Target(Reopened(j), j.flushed.l1, v)
                      IN  /\ j.rc[d] > 0
                          /\ \A u \in Position : Target(j, j.l1, u) = d => u = v
    BY DEF Lasting
  <2> DEFINE d == Target(Reopened(i), i.flushed.l1, v)
  <2>1. Target(Reopened(j), j.flushed.l1, v) = d /\ d # 0  BY <1>5
  <2>2. i.rc[d] > 0 /\ \A u \in Position : Target(i, i.l1, u) = d => u = v
    <3>1. v \in Position \ ({"disk"} \X T)  OBVIOUS
    <3> QED BY <2>1, <3>1 DEF Whole, Lasting
  <2>3. d \in Host /\ i.rc[d] \in Int
    <3>1. Reopened(i) \in ImageType /\ i.flushed.l1 \in L1Type
      BY <1>0, ReopenedFacts, FieldTypes DEF ReopenedEffect
    <3> QED BY <1>0, <2>1, <3>1, TargetType, FieldTypes
  <2> HIDE DEF d
  <2>4. /\ n = 0 \/ i.rc[n] = 0
        /\ j.rc[d] = IF d = n THEN 1 ELSE IF d = old THEN i.rc[d] - 1 ELSE i.rc[d]
        /\ t \in Host
    BY <2>3 DEF Repointed
  <2>5. d # n  BY <2>1, <2>2, <2>4, SMT
  <2>6. d = old => i.rc[d] >= 2
    <3> SUFFICES ASSUME d = old PROVE i.rc[d] >= 2  OBVIOUS
    <3>1. <<a, s>> \in Position /\ Target(i, i.l1, <<a, s>>) = d
      BY <2>4, Positions, HostRange DEF Target
    <3>2. <<a, s>> = v  BY <2>2, <3>1
    <3>3. ~(a = "disk" /\ s \in V)  BY <3>2
    <3> QED BY <2>1, <3>3
  <2> HIDE DEF old
  <2>7. j.rc[d] > 0  BY <2>2, <2>3, <2>4, <2>5, <2>6, SMT
  <2>8. \A u \in Position : Target(j, j.l1, u) = d => u = v  BY <1>6, <2>2, <2>5
  <2> QED BY <2>1, <2>7, <2>8
<1> QED BY <1>1, <1>2, <1>4, <1>7 DEF Whole

-------------------------------------------------------------------------------
(* Reads, writes and discards. *)

\* What a sector is.
LEMMA SectorFacts ==
    ASSUME NEW x \in Sector
    PROVE  x[1] \in Area /\ x[2] \in Slot /\ x[3] \in Half /\ x = <<x[1], x[2], x[3]>>
<1>1. CASE x \in {"disk"} \X Slot \X Half  BY <1>1, SMT DEF Area
<1>2. CASE x \in {"state"} \X {1} \X Half  BY <1>2, SMT DEF Area, Slot
<1> QED BY <1>1, <1>2, Zenon DEF Sector

\* What is read where nothing is written.
LEMMA BaseType == ASSUME NEW x \in Sector PROVE Base[x] \in Readable
<1> USE Zenon
<1>1. x[2] \in Slot /\ x[3] \in Half  BY SectorFacts
<1>2. Backing[x[2]][x[3]] \in Value /\ Zero \in Value  BY <1>1, ValueAssumption
<1> QED BY <1>2 DEF Base, Readable

\* What a read finds: an entry with a cluster is never flagged zero.
LEMMA FillCases ==
    ASSUME NEW i, NEW e \in EntryType, NEW x
    PROVE  /\ e.zero => e.host = 0 /\ Fill(i, e, x) = Zero
           /\ e.host # 0 => Fill(i, e, x) = i.data[e.host][x[3]]
           /\ ~e.zero /\ e.host = 0 => Fill(i, e, x) = Base[x]
<1> USE Zenon
<1>1. e.host # 0 => ~e.zero  BY DEF EntryType
<1>2. CASE e.zero /\ e.host = 0  BY <1>2 DEF Fill
<1>3. CASE ~e.zero /\ e.host # 0  BY <1>3 DEF Fill
<1>4. CASE ~e.zero /\ e.host = 0  BY <1>4 DEF Fill
<1> QED BY <1>1, <1>2, <1>3, <1>4

\* What is read through an entry.
LEMMA FillType ==
    ASSUME NEW i \in ImageType, NEW e \in EntryType, NEW x \in Sector
    PROVE  Fill(i, e, x) \in Readable
<1> USE Zenon
<1>1. CASE e.host # 0
  <2>1. e.host \in Host  BY <1>1, HostRange DEF EntryType
  <2>2. i.data[e.host] \in [Half -> Readable]  BY <2>1, FieldTypes DEF ClusterType
  <2>3. i.data[e.host][x[3]] \in Readable  BY <2>2, SectorFacts
  <2>4. Fill(i, e, x) = i.data[e.host][x[3]]  BY <1>1, FillCases, SMT
  <2> QED BY <2>3, <2>4
<1>2. CASE e.zero
  <2>1. Zero \in Readable  BY ValueAssumption DEF Readable
  <2> QED BY <1>2, <2>1, FillCases
<1>3. CASE ~e.zero /\ e.host = 0
  <2>1. Fill(i, e, x) = Base[x]  BY <1>3, FillCases, SMT
  <2> QED BY <2>1, BaseType
<1> QED BY <1>1, <1>2, <1>3

\* The cluster write_bytes puts together.
NewCluster(i, a, s, halves, v) ==
    [k \in Half |-> IF k \in halves THEN v
                    ELSE Fill(i, Table(i, i.l1[a].host)[s], <<a, s, k>>)]

\* Cluster s of area a becomes d, where it is or in a fresh cluster.
WriteTo(i, a, s, d, j) ==
    \/ InPlace(i, i.snaps, a, s, d, j)
    \/ \E n \in Host :
          /\ Repointed(i, a, s, n, Owned(n), j) /\ j.data[n] = d
          /\ \/ Table(i, i.l1[a].host)[s].host = 0
             \/ i.rc[Table(i, i.l1[a].host)[s].host] >= 2

\* write_bytes: the active layer owns its table, then the cluster is written.
WriteEffect(i, T, a, s, halves, v, j, k) ==
    /\ Whole(j, T) /\ OwnsTable(j, a)
    /\ j = i \/ GetsTable(i, a, Lowest(i), j)
    /\ NewCluster(j, a, s, halves, v) \in ClusterType
    /\ WriteTo(j, a, s, NewCluster(j, a, s, halves, v), k)

\* write_bytes does one of these two things.
LEMMA WriteFacts ==
    ASSUME NEW i, NEW T \in SUBSET Slot, Whole(i, T), NEW a \in Area, NEW s \in Slot,
           NEW halves, NEW v \in Value, {a} \X {s} \X Half \subseteq Sector,
           Cardinality(Free(i)) >= 2
    PROVE  WriteEffect(i, T, a, s, halves, v, OwnL2(i, a), WriteBytes(i, a, s, halves, v))
<1> USE Zenon
<1> DEFINE j == OwnL2(i, a)
           t == j.l1[a].host
           e == Table(j, t)[s]
           d == NewCluster(j, a, s, halves, v)
           n == Lowest(j)
           k == WriteBytes(i, a, s, halves, v)
<1>0. Sound(i, i.snaps) /\ i \in ImageType  BY DEF Whole, Sound
<1>1. Free(i) # {}  BY SpareOne, SMT
<1>2. /\ j = i \/ GetsTable(i, a, Lowest(i), j)
      /\ OwnsTable(j, a) /\ Free(j) # {}
  <2>1. CASE j = i /\ OwnsTable(i, a)  BY <1>1, <2>1
  <2>2. CASE GetsTable(i, a, Lowest(i), j)
    <3>1. OwnsTable(j, a)  BY <1>0, <2>2, GetsOwns
    <3> HIDE DEF j
    <3>2. Cardinality(Free(i)) >= 1 + 1  BY SMT
    <3>3. Cardinality(Free(j)) >= 1  BY <2>2, <3>2, GetsSpare
    <3>4. Free(j) # {}  BY <3>3, SpareOne, SMT
    <3> QED BY <2>2, <3>1, <3>4
  <2> QED BY <1>0, <1>1, <2>1, <2>2, OwnFacts
<1>3. Whole(j, T)
  <2> HIDE DEF j
  <2> QED BY <1>2, GetsKeeps
<1>4. k = IF e.host # 0 /\ (e.copied \/ j.rc[e.host] = 1)
          THEN [(IF e.copied THEN Load(j, {t}) ELSE SetEntry(j, t, s, Owned(e.host)))
                  EXCEPT !.data[e.host] = d]
          ELSE SetEntry(Dec(WriteData(Alloc(Load(j, {t})), n, d), e.host), t, s, Owned(n))
    BY DEF WriteBytes, NewCluster
<1> HIDE DEF j, k
<1>5. Sound(j, j.snaps) /\ CopiedOK(j) /\ j \in ImageType  BY <1>3 DEF Whole, Sound
<1>6. t \in Host /\ t # 0 /\ e \in EntryType
  <2>1. t \in Host  BY <1>2 DEF OwnsTable
  <2>2. Table(j, t) \in TableType  BY <1>5, <2>1, FieldTypes
  <2> QED BY <2>1, <2>2, EntryHost, HostRange
<1>7. d \in ClusterType
  <2>1. ASSUME NEW x \in Half PROVE Fill(j, e, <<a, s, x>>) \in Readable
    <3>1. <<a, s, x>> \in Sector  BY SMT
    <3> HIDE DEF e
    <3> QED BY <1>5, <1>6, <3>1, FillType
  <2>2. v \in Readable  BY DEF Readable
  <2> QED BY <2>1, <2>2 DEF NewCluster, ClusterType
<1> HIDE DEF d
<1>8. WriteTo(j, a, s, d, k)
  <2>1. CASE e.host # 0 /\ (e.copied \/ j.rc[e.host] = 1)
    <3>1. k = [(IF e.copied THEN Load(j, {t}) ELSE SetEntry(j, t, s, Owned(e.host)))
                  EXCEPT !.data[e.host] = d]
      BY <1>4, <2>1
    <3>2. InPlace(j, j.snaps, a, s, d, k)  BY <1>2, <1>5, <1>7, <2>1, <3>1, InPlaceFacts
    <3> QED BY <3>2 DEF WriteTo
  <2>2. CASE ~(e.host # 0 /\ (e.copied \/ j.rc[e.host] = 1))
    <3>1. k = SetEntry(Dec(WriteData(Alloc(Load(j, {t})), n, d), e.host), t, s, Owned(n))
      BY <1>4, <2>2
    <3>2. Repointed(j, a, s, n, Owned(n), k) /\ k.data[n] = d
      BY <1>2, <1>5, <1>7, <3>1, FreshFacts
    <3>3. n \in Host  BY <1>2, <1>5, FreeCluster
    <3>4. e.host = 0 \/ j.rc[e.host] >= 2
      <4> SUFFICES ASSUME e.host # 0 PROVE j.rc[e.host] >= 2  OBVIOUS
      <4>1. <<a, s>> \in Position /\ Target(j, j.l1, <<a, s>>) = e.host
        BY <1>6, Positions DEF Target
      <4>2. j.l1 \in Layers(j, j.snaps)  BY DEF Layers
      <4>3. j.rc[e.host] \in Nat /\ j.rc[e.host] >= 1  BY <1>5, <4>1, <4>2, InUse
      <4>4. j.rc[e.host] # 1  BY <2>2
      <4> QED BY <4>3, <4>4, AboveOne
    <3> QED BY <3>2, <3>3, <3>4 DEF WriteTo
  <2> QED BY <2>1, <2>2
<1>9. WriteEffect(i, T, a, s, halves, v, j, k)
    BY <1>2, <1>3, <1>7, <1>8 DEF WriteEffect, d
<1> QED BY <1>9 DEF j, k

\* write_bytes leaves the image whole.
LEMMA WriteKeeps ==
    ASSUME NEW i, NEW T \in SUBSET Slot, Whole(i, T), NEW a \in Area, NEW s \in Slot,
           NEW d, NEW j, WriteTo(i, a, s, d, j)
    PROVE  Whole(j, T)
<1> USE Zenon
<1>0. CopiedOK(i) /\ Sound(i, i.snaps)  BY DEF Whole
<1>1. CASE InPlace(i, i.snaps, a, s, d, j)
  <2> DEFINE t == i.l1[a].host
             h == Table(i, t)[s].host
  <2>1. /\ t \in Host /\ h \in Host /\ i.rc[h] = 1
        /\ SameShape(i, i.snaps, j) /\ Coherent(j)
        /\ j.l1 = i.l1 /\ j.flushed = i.flushed /\ j.snaps = i.snaps /\ j.table = i.table
        /\ \A x \in Host, r \in Slot : x # t \/ r # s => Table(j, x)[r] = Table(i, x)[r]
    BY <1>1 DEF InPlace
  <2>2. j.rc = i.rc  BY <2>1 DEF SameShape
  <2>3. CopiedOK(j)
    <3> SUFFICES ASSUME NEW b \in Area, j.l1[b].host # 0
                 PROVE  /\ j.l1[b].copied => j.rc[j.l1[b].host] = 1
                        /\ \A r \in Slot : LET f == Table(j, j.l1[b].host)[r]
                                          IN  f.copied => f.host # 0 /\ j.rc[f.host] = 1
      BY DEF CopiedOK
    <3> DEFINE g == i.l1[b].host
    <3>1. /\ j.l1[b] = i.l1[b] /\ g # 0
          /\ i.l1[b].copied => i.rc[g] = 1
          /\ \A r \in Slot : Table(i, g)[r].copied => /\ Table(i, g)[r].host # 0
                                                      /\ i.rc[Table(i, g)[r].host] = 1
      BY <1>0, <2>1 DEF CopiedOK
    <3>2. g \in Host  BY <1>0, <3>1, FieldTypes, EntryHost DEF Sound
    <3>3. ASSUME NEW r \in Slot, Table(j, g)[r].copied
          PROVE  Table(j, g)[r].host # 0 /\ i.rc[Table(j, g)[r].host] = 1
      <4>1. CASE g # t \/ r # s
        <5>1. Table(j, g)[r] = Table(i, g)[r]  BY <2>1, <3>2, <4>1
        <5> QED BY <3>1, <3>3, <5>1
      <4>2. CASE g = t /\ r = s
        <5>1. i.l1 \in Layers(i, i.snaps)  BY DEF Layers
        <5>2. Table(j, g)[r].host = Table(i, g)[r].host  BY <2>1, <3>1, <5>1 DEF SameShape
        <5>3. Table(j, g)[r].host = h  BY <4>2, <5>2
        <5>4. h # 0  BY <2>1, HostRange
        <5> QED BY <2>1, <5>3, <5>4
      <4> QED BY <4>1, <4>2
    <3> QED BY <2>2, <3>1, <3>3
  <2> QED BY <2>1, <2>3, ShapeKeeps
<1>2. ASSUME NEW n \in Host, Repointed(i, a, s, n, Owned(n), j),
             \/ Table(i, i.l1[a].host)[s].host = 0
             \/ i.rc[Table(i, i.l1[a].host)[s].host] >= 2
      PROVE  Whole(j, T)
  <2>1. n # 0  BY HostRange
  <2> QED BY <1>2, <2>1, RepointKeeps
<1> QED BY <1>1, <1>2 DEF WriteTo

\* discard takes the entry of a cluster out of a table of the active layer's own.
DiscardEffect(i, T, s, j, k) ==
    /\ Whole(j, T)
    /\ j = i \/ GetsTable(i, "disk", Lowest(i), j)
    /\ IF j.l1["disk"].host = 0 THEN k = j
       ELSE Repointed(j, "disk", s, 0, Unallocated, k)

\* discard drops the entry, when there is a table.
LEMMA DiscardFacts ==
    ASSUME NEW i, NEW T \in SUBSET Slot, Whole(i, T), NEW s \in Slot,
           Cardinality(Free(i)) >= 1
    PROVE  DiscardEffect(i, T, s, CowL2(i, "disk"), DiscardCluster(i, s))
<1> USE Zenon
<1> DEFINE a == "disk"
           j == CowL2(i, a)
           t == j.l1[a].host
           k == DiscardCluster(i, s)
<1>0. Sound(i, i.snaps) /\ i \in ImageType /\ a \in Area  BY DEF Whole, Sound, Area
<1>1. Free(i) # {}  BY SpareOne, SMT
<1>2. k = IF t = 0 THEN j ELSE SetEntry(Dec(j, Table(j, t)[s].host), t, s, Unallocated)
    BY DEF DiscardCluster
<1> HIDE DEF k, a
<1>3. \/ j = i /\ (i.l1[a].host = 0 \/ OwnsTable(i, a))
      \/ GetsTable(i, a, Lowest(i), j)
    BY <1>0, <1>1, CowFacts
<1> HIDE DEF j
<1>4. (j = i \/ GetsTable(i, a, Lowest(i), j)) /\ (t # 0 => OwnsTable(j, a))
    BY <1>0, <1>3, GetsOwns
<1>5. Whole(j, T)  BY <1>0, <1>4, GetsKeeps
<1>6. IF t = 0 THEN k = j ELSE Repointed(j, a, s, 0, Unallocated, k)
  <2>1. CASE t = 0  BY <1>2, <2>1
  <2>2. CASE t # 0
    <3>1. Sound(j, j.snaps) /\ Unallocated \in EntryType /\ Unallocated.host = 0
      BY <1>5, BlankType DEF Whole, Unallocated
    <3>2. k = SetEntry(Dec(j, Table(j, t)[s].host), t, s, Unallocated)  BY <1>2, <2>2
    <3>3. Repointed(j, a, s, 0, Unallocated, k)
      BY <1>0, <1>4, <2>2, <3>1, <3>2, DropFacts
    <3> QED BY <2>2, <3>3
  <2> QED BY <2>1, <2>2
<1> QED BY <1>4, <1>5, <1>6 DEF DiscardEffect, a, j, k

\* discard leaves the image whole, the discarded cluster apart.
LEMMA DiscardKeeps ==
    ASSUME NEW i, NEW T \in SUBSET Slot, NEW s \in Slot, NEW j, NEW k,
           DiscardEffect(i, T, s, j, k)
    PROVE  Whole(k, T \union {s})
<1> USE Zenon
<1>0. "disk" \in Area /\ Whole(j, T) /\ T \union {s} \in SUBSET Slot
    BY DEF Area, DiscardEffect
<1>1. CASE j.l1["disk"].host = 0
  <2>1. k = j  BY <1>1 DEF DiscardEffect
  <2>2. Lasting(k, T \union {s})  BY <1>0, <2>1 DEF Whole, Lasting
  <2> QED BY <1>0, <2>1, <2>2 DEF Whole
<1>2. CASE j.l1["disk"].host # 0
  <2>1. Repointed(j, "disk", s, 0, Unallocated, k)  BY <1>2 DEF DiscardEffect
  <2>2. ~Unallocated.copied  BY DEF Unallocated
  <2>3. s \in T \union {s} /\ T \subseteq T \union {s}  OBVIOUS
  <2> QED BY <1>0, <2>1, <2>2, <2>3, RepointKeeps
<1> QED BY <1>1, <1>2

\* load_l2 of tables of the image's layers moves nothing.
LEMMA LoadKeeps ==
    ASSUME NEW i, NEW T \in SUBSET Slot, Whole(i, T), NEW a \in Area, i.l1[a].host # 0
    PROVE  Whole(Load(i, {i.l1[a].host}), T)
<1> USE Zenon
<1> DEFINE h == i.l1[a].host
           j == Load(i, {h})
           sn == i.snaps
<1>0. Sound(i, sn) /\ CopiedOK(i) /\ i \in ImageType /\ Coherent(i)  BY DEF Whole, Sound
<1>1. h \in Host  BY <1>0, FieldTypes, EntryHost
<1>2. LoadEffect(i, {h}, j)  BY <1>0, <1>1, LoadFacts
<1> HIDE DEF j
<1>3. /\ j \in ImageType /\ j.l1 = i.l1 /\ j.rc = i.rc /\ j.list = i.list
      /\ j.flushed = i.flushed /\ j.snaps = i.snaps /\ j.table = i.table
      /\ Coherent(j) /\ DOMAIN j.cache = DOMAIN i.cache \union {h}
      /\ \A x \in Host : Table(j, x) = Table(i, x)
    BY <1>0, <1>2 DEF LoadEffect
<1>4. \A l \in Layers(i, sn), b \in Area : l[b].host # 0 => l[b].host \in Host
    BY <1>0, LayerTypes, EntryHost DEF Sound
<1>5. i.l1 \in Layers(i, sn)  BY DEF Layers
<1>6. SameShape(i, sn, j)
  <2>1. \A l \in Layers(i, sn), b \in Area, r \in Slot :
           l[b].host # 0 => Table(j, l[b].host)[r].host = Table(i, l[b].host)[r].host
    BY <1>3, <1>4
  <2>2. \A x \in DOMAIN j.cache :
           x \in DOMAIN i.cache \/ \E l \in Layers(i, sn), b \in Area : l[b].host = x
    BY <1>3, <1>5
  <2>3. \A b \in Area : j.l1[b].host = i.l1[b].host  BY <1>3
  <2> QED BY <1>3, <2>1, <2>2, <2>3 DEF SameShape
<1>7. CopiedOK(j)
  <2>1. \A b \in Area : i.l1[b].host # 0 => Table(j, i.l1[b].host) = Table(i, i.l1[b].host)
    BY <1>3, <1>4, <1>5
  <2> QED BY <1>0, <1>3, <2>1, CopiedSame
<1>8. Whole(j, T)  BY <1>3, <1>6, <1>7, ShapeKeeps
<1> QED BY <1>8 DEF j

-------------------------------------------------------------------------------
(* Flushes and crashes. *)

\* The file and the memory agree.
LEMMA InStepWhole ==
    ASSUME NEW i, Sound(i, i.snaps), CopiedOK(i), i.flushed.l1 = i.l1, i.flushed.rc = i.rc,
           \A h \in Host : i.table[h] = Table(i, h)
    PROVE  Whole(i, {})
<1> USE Zenon
<1> DEFINE q == Reopened(i)
           sn == i.snaps
<1>0. i \in ImageType  BY DEF Sound
<1>1. ReopenedEffect(i, q)  BY <1>0, ReopenedFacts
<1> HIDE DEF q
<1>2. /\ q \in ImageType /\ q.l1 = i.l1 /\ q.rc = i.rc /\ q.list = i.list
      /\ DOMAIN q.cache = {} /\ Coherent(q)
      /\ \A h \in Host : Table(q, h) = Table(i, h)
    BY <1>1 DEF ReopenedEffect
<1>3. \A l \in Layers(i, sn), b \in Area : l[b].host # 0 => l[b].host \in Host
    BY <1>0, LayerTypes, EntryHost DEF Sound
<1>4. i.l1 \in Layers(i, sn)  BY DEF Layers
<1>5. SameShape(i, sn, q)
  <2>1. \A l \in Layers(i, sn), b \in Area, r \in Slot :
           l[b].host # 0 => Table(q, l[b].host)[r].host = Table(i, l[b].host)[r].host
    BY <1>2, <1>3
  <2>2. \A b \in Area : q.l1[b].host = i.l1[b].host  BY <1>2
  <2> QED BY <1>2, <2>1, <2>2 DEF SameShape
<1>6. Sound(q, sn) /\ SameUses(i, sn, q)  BY <1>2, <1>5, ShapeSound, ShapeUses
<1>7. CopiedOK(q)
  <2>1. \A b \in Area : i.l1[b].host # 0 => Table(q, i.l1[b].host) = Table(i, i.l1[b].host)
    BY <1>2, <1>3, <1>4
  <2> QED BY <1>2, <2>1, CopiedSame
<1>8. Lasting(i, {})
  <2> SUFFICES ASSUME NEW v \in Position, Target(q, i.flushed.l1, v) # 0
               PROVE  LET d == Target(q, i.flushed.l1, v)
                      IN  /\ i.rc[d] > 0
                          /\ \A u \in Position : Target(i, i.l1, u) = d => u = v
    BY DEF Lasting, q
  <2> DEFINE d == Target(i, i.l1, v)
  <2>1. Target(q, i.flushed.l1, v) = d /\ d # 0  BY <1>2, <1>6 DEF SameUses
  <2>2. i.rc[d] \in Nat /\ i.rc[d] >= 1  BY <1>4, <2>1, InUse
  <2>3. \A u \in Position : Target(i, i.l1, u) = d => u = v  BY <1>4, <2>1 DEF Sound, Placed
  <2> HIDE DEF d
  <2>4. i.rc[d] > 0  BY <2>2, SMT
  <2> QED BY <2>1, <2>3, <2>4
<1> QED BY <1>6, <1>7, <1>8 DEF Whole, q

\* Opening the file after a crash.
LEMMA CrashKeeps ==
    ASSUME NEW i, NEW T, Whole(i, T)
    PROVE  Whole(Reopened(i), {})
<1> USE Zenon
<1> DEFINE r == Reopened(i)
<1>1. /\ i \in ImageType /\ Sound(r, i.snaps) /\ CopiedOK(r)  BY DEF Whole, Sound
<1>2. ReopenedEffect(i, r)  BY <1>1, ReopenedFacts
<1> HIDE DEF r
<1>3. /\ r.snaps = i.snaps /\ r.flushed.l1 = r.l1 /\ r.flushed.rc = r.rc
      /\ \A h \in Host : r.table[h] = Table(r, h)
    BY <1>2 DEF ReopenedEffect
<1>4. Whole(r, {})  BY <1>1, <1>3, InStepWhole
<1> QED BY <1>4 DEF r

\* flush_metadata writes what is in memory, data apart.
FlushEffect(i, j) ==
    /\ j \in ImageType
    /\ j.l1 = i.l1 /\ j.rc = i.rc /\ j.snaps = i.snaps /\ j.list = i.list
    /\ j.flushed.l1 = i.l1 /\ j.flushed.rc = i.rc
    /\ DOMAIN j.cache = DOMAIN i.cache
    /\ \A h \in Host : Table(j, h) = Table(i, h) /\ j.table[h] = Table(i, h)
    /\ \A h \in Host \ (DOMAIN i.cache) : j.data[h] = i.data[h]
    /\ Coherent(j)

\* flush_metadata, field by field.
LEMMA FlushFacts ==
    ASSUME NEW i \in ImageType, Coherent(i)
    PROVE  FlushEffect(i, FlushMetadata(i))
<1> USE Zenon
<1> DEFINE j == FlushMetadata(i)
           f == [l1 |-> i.l1, rc |-> i.rc]
           tt == [h \in Host |-> IF h \in Dirty(i) THEN i.cache[h].entries ELSE i.table[h]]
           dd == [h \in Host |-> IF h \in Dirty(i) THEN JunkCluster ELSE i.data[h]]
           c == [h \in DOMAIN i.cache |-> [i.cache[h] EXCEPT !.dirty = FALSE]]
<1>0. /\ i.l1 \in L1Type /\ i.rc \in [Host -> Int] /\ DOMAIN i.cache \subseteq Host
      /\ i.table \in [Host -> TableType] /\ i.data \in [Host -> ClusterType]
      /\ \A h \in DOMAIN i.cache : /\ i.cache[h] \in [entries : TableType, dirty : BOOLEAN]
                                   /\ i.cache[h].entries \in TableType
    BY FieldTypes
<1>1. \A h \in Dirty(i) : h \in DOMAIN i.cache  BY DEF Dirty
<1>2. f \in [l1 : L1Type, rc : [Host -> Int]] /\ f.l1 = i.l1 /\ f.rc = i.rc  BY <1>0
<1>3. tt \in [Host -> TableType] /\ \A h \in Host : tt[h] = Table(i, h)
  <2>1. ASSUME NEW h \in Host PROVE tt[h] = Table(i, h) /\ tt[h] \in TableType
    <3>1. CASE h \in Dirty(i)  BY <1>0, <1>1, <3>1 DEF Table
    <3>2. CASE h \notin Dirty(i) /\ h \in DOMAIN i.cache
      <4>1. i.cache[h].entries = i.table[h]  BY <3>2 DEF Coherent, Dirty
      <4> QED BY <1>0, <3>2, <4>1 DEF Table
    <3>3. CASE h \notin Dirty(i) /\ h \notin DOMAIN i.cache  BY <1>0, <3>3 DEF Table
    <3> QED BY <3>1, <3>2, <3>3
  <2> QED BY <2>1
<1>4. /\ dd \in [Host -> ClusterType]
      /\ \A h \in Host \ (DOMAIN i.cache) : dd[h] = i.data[h]
  <2>1. JunkCluster \in ClusterType  BY DEF JunkCluster, ClusterType, Readable
  <2> QED BY <1>0, <1>1, <2>1
<1>5. /\ c \in CacheType /\ DOMAIN c = DOMAIN i.cache
      /\ \A h \in DOMAIN i.cache : c[h].entries = i.cache[h].entries
  <2>1. ASSUME NEW h \in DOMAIN i.cache
        PROVE  /\ [i.cache[h] EXCEPT !.dirty = FALSE] \in [entries : TableType, dirty : BOOLEAN]
               /\ [i.cache[h] EXCEPT !.dirty = FALSE].entries = i.cache[h].entries
    BY <1>0
  <2>2. c \in [DOMAIN i.cache -> [entries : TableType, dirty : BOOLEAN]]  BY <2>1
  <2>3. c \in CacheType /\ DOMAIN c = DOMAIN i.cache  BY <1>0, <2>2, CacheIntro
  <2> QED BY <2>1, <2>3
<1>6. j = [i EXCEPT !.flushed = f, !.table = tt, !.data = dd, !.cache = c]
    BY DEF FlushMetadata, ImageType
<1> HIDE DEF j, f, tt, dd, c
<1>7. /\ j \in ImageType /\ j.flushed = f /\ j.table = tt /\ j.data = dd /\ j.cache = c
      /\ j.l1 = i.l1 /\ j.rc = i.rc /\ j.snaps = i.snaps /\ j.list = i.list
    BY <1>2, <1>3, <1>4, <1>5, <1>6 DEF ImageType
<1>8. \A h \in Host : Table(j, h) = Table(i, h)  BY <1>3, <1>5, <1>7 DEF Table
<1>9. Coherent(j)
  <2> SUFFICES ASSUME NEW h \in DOMAIN c PROVE c[h].entries = tt[h]  BY <1>7 DEF Coherent
  <2>1. h \in DOMAIN i.cache /\ h \in Host  BY <1>0, <1>5
  <2>2. Table(i, h) = i.cache[h].entries  BY <2>1 DEF Table
  <2> QED BY <1>3, <1>5, <2>1, <2>2
<1>10. FlushEffect(i, j)  BY <1>2, <1>3, <1>4, <1>5, <1>7, <1>8, <1>9 DEF FlushEffect
<1> QED BY <1>10 DEF j

\* After flush_metadata the file is what is in memory, and as sound.
LEMMA FlushKeeps ==
    ASSUME NEW i, Sound(i, i.snaps), CopiedOK(i)
    PROVE  Whole(FlushMetadata(i), {})
<1> USE Zenon
<1> DEFINE j == FlushMetadata(i)
           sn == i.snaps
<1>0. i \in ImageType /\ Coherent(i)  BY DEF Sound
<1>1. FlushEffect(i, j)  BY <1>0, FlushFacts
<1> HIDE DEF j
<1>2. /\ j \in ImageType /\ j.l1 = i.l1 /\ j.rc = i.rc /\ j.snaps = i.snaps /\ j.list = i.list
      /\ j.flushed.l1 = j.l1 /\ j.flushed.rc = j.rc /\ DOMAIN j.cache = DOMAIN i.cache
      /\ \A h \in Host : Table(j, h) = Table(i, h) /\ j.table[h] = Table(j, h)
      /\ Coherent(j)
    BY <1>1 DEF FlushEffect
<1>3. \A l \in Layers(i, sn), b \in Area : l[b].host # 0 => l[b].host \in Host
    BY <1>0, LayerTypes, EntryHost DEF Sound
<1>4. i.l1 \in Layers(i, sn)  BY DEF Layers
<1>5. SameShape(i, sn, j)
  <2>1. \A l \in Layers(i, sn), b \in Area, r \in Slot :
           l[b].host # 0 => Table(j, l[b].host)[r].host = Table(i, l[b].host)[r].host
    BY <1>2, <1>3
  <2>2. \A b \in Area : j.l1[b].host = i.l1[b].host  BY <1>2
  <2>3. \A x \in DOMAIN j.cache :
           x \in DOMAIN i.cache \/ \E l \in Layers(i, sn), b \in Area : l[b].host = x
    BY <1>2
  <2> QED BY <1>2, <2>1, <2>2, <2>3 DEF SameShape
<1>6. Sound(j, j.snaps)  BY <1>2, <1>5, ShapeSound
<1>7. CopiedOK(j)
  <2>1. \A b \in Area : i.l1[b].host # 0 => Table(j, i.l1[b].host) = Table(i, i.l1[b].host)
    BY <1>2, <1>3, <1>4
  <2> QED BY <1>2, <2>1, CopiedSame
<1>8. Whole(j, {})  BY <1>2, <1>6, <1>7, InStepWhole
<1> QED BY <1>8 DEF j

===============================================================================
