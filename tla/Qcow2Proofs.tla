----------------------------- MODULE Qcow2Proofs -----------------------------
(***************************************************************************)
(* Snapshots, and the theorems about Qcow2.  Taking, applying and deleting *)
(* a snapshot walk a whole layer and move every count at once, so here the *)
(* image is sound with snapshots other than its own halfway through: the   *)
(* lemmas carry "the image i with the snapshots sn".  Every such operation *)
(* ends in a flush, after which the file is as sound as memory.            *)
(*                                                                         *)
(* The inductive invariant is IInv: the image is whole (Qcow2Image).       *)
(* RefcountsExact alone is not inductive.  A write in place keeps it only  *)
(* when the copied bit is true; that stays true only while the layers      *)
(* share a cluster in the same place, or a shared table could be counted   *)
(* once and read twice; and the file keeps true counts only while a        *)
(* cluster freed since the last flush is used for nothing the file names.  *)
(***************************************************************************)
EXTENDS Qcow2Image

-------------------------------------------------------------------------------
(* Snapshots. *)

\* Each layer of j is a layer of i, the copied bits apart, with the same tables.
SameLayers(i, sn, j, m) ==
    /\ \A l \in Layers(j, m) : \E k \in Layers(i, sn) : \A a \in Area : l[a].host = k[a].host
    /\ \A k \in Layers(i, sn), a \in Area, s \in Slot :
          k[a].host # 0 => Table(j, k[a].host)[s].host = Table(i, k[a].host)[s].host
    /\ \A h \in DOMAIN j.cache :
          h \in DOMAIN i.cache \/ \E k \in Layers(i, sn), a \in Area : k[a].host = h

\* A layer's references, found again in another image.
LEMMA LayerTargets ==
    ASSUME NEW i, NEW sn, NEW j, NEW m, SameLayers(i, sn, j, m), NEW k \in Layers(i, sn), NEW l,
           \A a \in Area : l[a].host = k[a].host
    PROVE  \A u \in Position : Target(j, l, u) = Target(i, k, u)
<1> USE Zenon
<1> SUFFICES ASSUME NEW u \in Position PROVE Target(j, l, u) = Target(i, k, u)  OBVIOUS
<1> DEFINE b == u[1]
<1>1. b \in Area /\ l[b].host = k[b].host  BY Positions
<1>2. k[b].host # 0 =>
         \A s \in Slot : Table(j, k[b].host)[s].host = Table(i, k[b].host)[s].host
  <2> HIDE DEF b
  <2> QED BY <1>1 DEF SameLayers
<1> QED BY <1>1, <1>2, Positions DEF Target

\* An image with the layers of a sound one, and true counts, is sound.
LEMMA LayersSound ==
    ASSUME NEW i, NEW sn, Sound(i, sn), NEW j \in ImageType, NEW m \in SnapsType,
           IsFiniteSet(DOMAIN m), SameLayers(i, sn, j, m), Coherent(j), Balanced(j, m)
    PROVE  Sound(j, m)
<1> USE Zenon
<1>1. \A l \in Layers(j, m) : \E k \in Layers(i, sn) :
         \A u \in Position : Target(j, l, u) = Target(i, k, u)
  <2> SUFFICES ASSUME NEW l \in Layers(j, m)
               PROVE  \E k \in Layers(i, sn) :
                         \A u \in Position : Target(j, l, u) = Target(i, k, u)
    OBVIOUS
  <2>1. PICK k \in Layers(i, sn) : \A a \in Area : l[a].host = k[a].host  BY DEF SameLayers
  <2>2. \A u \in Position : Target(j, l, u) = Target(i, k, u)  BY <2>1, LayerTargets, SMT
  <2> QED BY <2>2
<1>2. Placed(j, m)
  <2> SUFFICES ASSUME NEW l \in Layers(j, m), NEW p \in Layers(j, m),
                      NEW u \in Position, NEW v \in Position,
                      Target(j, l, u) # 0, Target(j, l, u) = Target(j, p, v)
               PROVE  u = v
    BY DEF Placed
  <2>1. PICK ll \in Layers(i, sn) : \A w \in Position : Target(j, l, w) = Target(i, ll, w)  BY <1>1
  <2>2. PICK pp \in Layers(i, sn) : \A w \in Position : Target(j, p, w) = Target(i, pp, w)  BY <1>1
  <2>3. Target(i, ll, u) # 0 /\ Target(i, ll, u) = Target(i, pp, v)  BY <2>1, <2>2
  <2> QED BY <2>3 DEF Sound, Placed
<1>3. OnlyTables(j, m)
  <2> SUFFICES ASSUME NEW h \in DOMAIN j.cache, NEW l \in Layers(j, m), NEW u \in Position,
                      Target(j, l, u) = h
               PROVE  u[2] = 0
    BY DEF OnlyTables
  <2>1. PICK ll \in Layers(i, sn) : \A w \in Position : Target(j, l, w) = Target(i, ll, w)  BY <1>1
  <2>2. Target(i, ll, u) = h  BY <2>1
  <2>3. CASE h \in DOMAIN i.cache  BY <2>2, <2>3 DEF Sound, OnlyTables
  <2>4. CASE \E k \in Layers(i, sn), a \in Area : k[a].host = h
    <3>1. PICK k \in Layers(i, sn), a \in Area : k[a].host = h  BY <2>4
    <3>2. <<a, 0>> \in Position /\ <<a, 0>>[2] = 0  BY Positions
    <3>3. Target(i, k, <<a, 0>>) = h  BY <3>1, Positions DEF Target
    <3>4. h # 0
      <4>1. DOMAIN j.cache \subseteq Host  BY FieldTypes
      <4> QED BY <4>1, HostRange
    <3>5. u = <<a, 0>>  BY <2>2, <3>2, <3>3, <3>4 DEF Sound, Placed
    <3> QED BY <3>2, <3>5
  <2> QED BY <2>3, <2>4 DEF SameLayers
<1> QED BY <1>2, <1>3 DEF Sound

\* walk_refcounts counts the references of a layer up or down.
WalkEffect(i, l, delta, j) ==
    /\ j \in ImageType
    /\ j.l1 = i.l1 /\ j.flushed = i.flushed /\ j.table = i.table
    /\ j.data = i.data /\ j.snaps = i.snaps /\ j.list = i.list
    /\ DOMAIN j.cache = DOMAIN i.cache \union Tables(l)
    /\ \A h \in Host : j.rc[h] = i.rc[h] + delta * Refs(i, l, h)
    /\ \A h \in Host : Table(j, h) = Table(i, h)
    /\ Coherent(i) => Coherent(j)

\* The tables of an L1 table.
LEMMA TablesOf ==
    ASSUME NEW l \in L1Type
    PROVE  Tables(l) \subseteq Host /\ \A h \in Tables(l) : \E a \in Area : l[a].host = h
<1> USE Zenon
<1>1. \A a \in Area : l[a].host # 0 => l[a].host \in Host  BY EntryHost
<1> QED BY <1>1 DEF Tables

\* walk_refcounts, field by field.
LEMMA WalkFacts ==
    ASSUME NEW i \in ImageType, NEW l \in L1Type, NEW delta \in {1, -1}
    PROVE  WalkEffect(i, l, delta, Walk(i, l, delta))
<1> USE Zenon
<1> DEFINE L == Load(i, Tables(l))
           j == Walk(i, l, delta)
           r == [h \in Host |-> L.rc[h] + delta * Refs(i, l, h)]
<1>1. LoadEffect(i, Tables(l), L)  BY TablesOf, LoadFacts
<1>2. j = [L EXCEPT !.rc = [h \in Host |-> @[h] + delta * Refs(i, l, h)]]  BY DEF Walk
<1> HIDE DEF L, j
<1>3. L \in ImageType /\ L.rc = i.rc /\ L.rc \in [Host -> Int]
    BY <1>1, FieldTypes DEF LoadEffect
<1>4. j = [L EXCEPT !.rc = r]  BY <1>2, <1>3 DEF ImageType
<1>5. r \in [Host -> Int]
  <2>1. ASSUME NEW h \in Host PROVE L.rc[h] + delta * Refs(i, l, h) \in Int
    <3>1. L.rc[h] \in Int  BY <1>3
    <3>2. Refs(i, l, h) \in Nat  BY RefsType
    <3>3. \A x, y \in Int : x + delta * y \in Int  BY SMT
    <3>4. Refs(i, l, h) \in Int  BY <3>2, SMT
    <3> QED BY <3>1, <3>3, <3>4
  <2> QED BY <2>1
<1>6. \A h \in Host : r[h] = i.rc[h] + delta * Refs(i, l, h)  BY <1>3
<1> HIDE DEF r
<1>7. /\ j \in ImageType /\ j.rc = r /\ j.cache = L.cache
      /\ j.l1 = L.l1 /\ j.flushed = L.flushed /\ j.table = L.table
      /\ j.data = L.data /\ j.snaps = L.snaps /\ j.list = L.list
    BY <1>3, <1>4, <1>5 DEF ImageType
<1>8. (\A h \in Host : Table(j, h) = Table(L, h)) /\ (Coherent(L) => Coherent(j))
    BY <1>7 DEF Table, Coherent
<1>9. /\ L.l1 = i.l1 /\ L.flushed = i.flushed /\ L.table = i.table
      /\ L.data = i.data /\ L.snaps = i.snaps /\ L.list = i.list
      /\ DOMAIN L.cache = DOMAIN i.cache \union Tables(l)
      /\ \A h \in Host : Table(L, h) = Table(i, h)
      /\ Coherent(i) => Coherent(L)
    BY <1>1 DEF LoadEffect
<1>10. WalkEffect(i, l, delta, j)
  <2>1. /\ j \in ImageType
        /\ j.l1 = i.l1 /\ j.flushed = i.flushed /\ j.table = i.table
        /\ j.data = i.data /\ j.snaps = i.snaps /\ j.list = i.list
        /\ DOMAIN j.cache = DOMAIN i.cache \union Tables(l)
    BY <1>7, <1>9
  <2>2. \A h \in Host : j.rc[h] = i.rc[h] + delta * Refs(i, l, h)  BY <1>6, <1>7
  <2>3. (\A h \in Host : Table(j, h) = Table(i, h)) /\ (Coherent(i) => Coherent(j))
    BY <1>8, <1>9
  <2> QED BY <2>1, <2>2, <2>3 DEF WalkEffect
<1> QED BY <1>10 DEF j

\* What one snapshot more makes of the snapshots.
SavedEffect(sn, n, x, m) ==
    /\ m \in SnapsType /\ DOMAIN m = DOMAIN sn \union {n} /\ m[n] = x
    /\ \A k \in DOMAIN sn : k # n => m[k] = sn[k]

\* One snapshot more, field by field.
LEMMA SavedFacts ==
    ASSUME NEW sn \in SnapsType, NEW n \in Name, NEW x \in [at : 0 .. HostClusters, l1 : L1Type]
    PROVE  SavedEffect(sn, n, x, Saved(sn, n, x))
<1> USE Zenon
<1> DEFINE m == Saved(sn, n, x)
           D == DOMAIN sn \union {n}
<1>1. DOMAIN m = D /\ m[n] = x /\ \A k \in DOMAIN sn : k # n => m[k] = sn[k]  BY DEF Saved
<1>2. D \in SUBSET Name  BY SnapFacts
<1>3. \A k \in D : m[k] \in [at : 0 .. HostClusters, l1 : L1Type]  BY SnapFacts, <1>1
<1>4. m \in [D -> [at : 0 .. HostClusters, l1 : L1Type]]  BY <1>3 DEF Saved
<1>5. m \in SnapsType  BY <1>2, <1>4 DEF SnapsType
<1> QED BY <1>1, <1>5 DEF SavedEffect

\* Layers of images that share their tables.
LEMMA ShareLayers ==
    ASSUME NEW i, NEW sn, Sound(i, sn), NEW j, NEW m,
           \A l \in Layers(j, m) : l \in Layers(i, sn),
           \A h \in Host : Table(j, h) = Table(i, h),
           \A h \in DOMAIN j.cache :
              h \in DOMAIN i.cache \/ \E k \in Layers(i, sn), a \in Area : k[a].host = h
    PROVE  SameLayers(i, sn, j, m)
<1> USE Zenon
<1>1. \A l \in Layers(i, sn), b \in Area : l[b].host # 0 => l[b].host \in Host
    BY LayerTypes, EntryHost DEF Sound
<1>2. \A k \in Layers(i, sn), a \in Area, s \in Slot :
         k[a].host # 0 => Table(j, k[a].host)[s].host = Table(i, k[a].host)[s].host
    BY <1>1
<1>3. \A l \in Layers(j, m) : \E k \in Layers(i, sn) : \A a \in Area : l[a].host = k[a].host
    OBVIOUS
<1> QED BY <1>2, <1>3 DEF SameLayers

\* The active layer counted once more, for a snapshot that shares it and has no
\* cluster for its L1 table yet.
LEMMA RaisedSound ==
    ASSUME NEW i, NEW sn, Sound(i, sn), NEW n \in Name, n \notin DOMAIN sn, NEW j,
           WalkEffect(i, i.l1, 1, j)
    PROVE  Sound(j, Saved(sn, n, [at |-> 0, l1 |-> i.l1]))
<1> USE Zenon
<1> DEFINE x == [at |-> 0, l1 |-> i.l1]
           m == Saved(sn, n, x)
<1>0. /\ i \in ImageType /\ i.l1 \in L1Type /\ sn \in SnapsType /\ IsFiniteSet(DOMAIN sn)
      /\ i.rc \in [Host -> Int] /\ Coherent(i) /\ Balanced(i, sn)
    BY FieldTypes DEF Sound
<1>1. x \in [at : 0 .. HostClusters, l1 : L1Type] /\ x.at = 0 /\ x.l1 = i.l1  BY <1>0, HostRange
<1>2. SavedEffect(sn, n, x, m)  BY <1>0, <1>1, SavedFacts
<1> HIDE DEF m, x
<1>3. /\ m \in SnapsType /\ DOMAIN m = DOMAIN sn \union {n} /\ m[n] = x
      /\ \A k \in DOMAIN sn : m[k] = sn[k]
    BY <1>2 DEF SavedEffect
<1>4. /\ j \in ImageType /\ j.l1 = i.l1 /\ j.list = i.list /\ Coherent(j)
      /\ DOMAIN j.cache = DOMAIN i.cache \union Tables(i.l1)
      /\ \A h \in Host : j.rc[h] = i.rc[h] + 1 * Refs(i, i.l1, h)
      /\ \A h \in Host : Table(j, h) = Table(i, h)
    BY <1>0 DEF WalkEffect
<1>5. i.l1 \in Layers(i, sn)  BY DEF Layers
<1>6. \A l \in Layers(j, m) : l \in Layers(i, sn)
  <2> SUFFICES ASSUME NEW l \in Layers(j, m) PROVE l \in Layers(i, sn)  OBVIOUS
  <2>1. l = i.l1 \/ \E k \in DOMAIN m : l = m[k].l1  BY <1>4 DEF Layers
  <2>2. ASSUME NEW k \in DOMAIN m, l = m[k].l1 PROVE l \in Layers(i, sn)
    <3>1. CASE k = n  BY <1>1, <1>3, <1>5, <2>2, <3>1
    <3>2. CASE k # n
      <4>1. k \in DOMAIN sn /\ m[k] = sn[k]  BY <1>3, <3>2
      <4> QED BY <2>2, <4>1 DEF Layers
    <3> QED BY <3>1, <3>2
  <2> QED BY <1>5, <2>1, <2>2
<1>7. \A h \in DOMAIN j.cache :
         h \in DOMAIN i.cache \/ \E k \in Layers(i, sn), a \in Area : k[a].host = h
    BY <1>0, <1>4, <1>5, TablesOf
<1>8. SameLayers(i, sn, j, m)  BY <1>4, <1>6, <1>7, ShareLayers
<1>9. \A l \in Layers(i, sn), u \in Position : Target(j, l, u) = Target(i, l, u)
    BY <1>8, LayerTargets, SMT
<1>10. Balanced(j, m)
  <2> SUFFICES ASSUME NEW h \in Host
               PROVE  j.rc[h] = Refs(j, j.l1, h) + Held(j, m, h) + (IF j.list = h THEN 1 ELSE 0)
    BY DEF Balanced
  <2>1. Refs(j, i.l1, h) = Refs(i, i.l1, h)  BY <1>5, <1>9, SameRefs, SMT
  <2>2. Held(j, sn, h) = Held(i, sn, h)
    <3>1. \A k \in DOMAIN sn, u \in Position : Target(j, sn[k].l1, u) = Target(i, sn[k].l1, u)
      BY <1>9 DEF Layers
    <3> QED BY <3>1, SameHeld, SMT
  <2>3. Held(j, m, h) = Held(j, sn, h) + Refs(j, m[n].l1, h) + (IF m[n].at = h THEN 1 ELSE 0)
    <3>1. HeldMore(j, sn, m, n, h)  BY <1>0, <1>3, OneMoreHeld
    <3> QED BY <3>1 DEF HeldMore
  <2>4. m[n].l1 = i.l1 /\ m[n].at # h  BY <1>1, <1>3, HostRange
  <2>5. i.rc[h] = Refs(i, i.l1, h) + Held(i, sn, h) + (IF i.list = h THEN 1 ELSE 0)
    BY <1>0 DEF Balanced
  <2>6. Refs(i, i.l1, h) \in Nat /\ Held(i, sn, h) \in Nat  BY <1>0, RefsType, HeldType
  <2>7. j.rc[h] = i.rc[h] + 1 * Refs(i, i.l1, h)  BY <1>4
  <2> QED BY <1>4, <2>1, <2>2, <2>3, <2>4, <2>5, <2>6, <2>7, SMT
<1>11. IsFiniteSet(DOMAIN m)  BY <1>0, <1>3, FS_AddElement
<1>12. Sound(j, m)  BY <1>3, <1>4, <1>8, <1>10, <1>11, LayersSound
<1> QED BY <1>12 DEF m, x

-------------------------------------------------------------------------------
\* rewrite_active_copied_bits changes copied bits of the active layer only.
RecopiedEffect(i, j) ==
    /\ j \in ImageType
    /\ j.rc = i.rc /\ j.flushed = i.flushed /\ j.table = i.table
    /\ j.data = i.data /\ j.snaps = i.snaps /\ j.list = i.list
    /\ \A a \in Area : j.l1[a] = Recopied(i, i.l1[a])
    /\ DOMAIN j.cache = DOMAIN i.cache \union Tables(i.l1)
    /\ \A h \in Tables(i.l1), s \in Slot : Table(j, h)[s] = Recopied(i, Table(i, h)[s])
    /\ \A h \in Host : h \notin Tables(i.l1) => Table(j, h) = Table(i, h)
    /\ Coherent(i) => Coherent(j)

\* An entry with its copied bit rewritten names what it did, and is marked as counted.
LEMMA RecopiedEntry ==
    ASSUME NEW i, NEW e \in EntryType
    PROVE  /\ Recopied(i, e) \in EntryType
           /\ Recopied(i, e).host = e.host /\ Recopied(i, e).zero = e.zero
           /\ Recopied(i, e).copied => e.host # 0 /\ i.rc[e.host] = 1
<1> USE Zenon
<1>1. CASE e.host = 0  BY <1>1 DEF Recopied, EntryType
<1>2. CASE e.host # 0
  <2> DEFINE f == [e EXCEPT !.copied = (i.rc[e.host] = 1)]
  <2>1. Recopied(i, e) = f  BY <1>2 DEF Recopied
  <2>2. /\ f \in [host : 0 .. HostClusters, copied : BOOLEAN, zero : BOOLEAN]
        /\ f.host = e.host /\ f.zero = e.zero /\ (f.copied <=> i.rc[e.host] = 1)
    BY DEF EntryType
  <2>3. e.host # 0 => ~e.zero  BY DEF EntryType
  <2> HIDE DEF f
  <2>4. f \in EntryType  BY <1>2, <2>2, <2>3 DEF EntryType
  <2> QED BY <1>2, <2>1, <2>2, <2>4
<1> QED BY <1>1, <1>2

\* rewrite_active_copied_bits, field by field.
LEMMA RecopiedFacts ==
    ASSUME NEW i \in ImageType
    PROVE  RecopiedEffect(i, RewriteCopied(i))
<1> USE Zenon
<1> DEFINE H == Tables(i.l1)
           L == Load(i, H)
           fresh(t) == [s \in Slot |-> Recopied(i, t[s])]
           l == [a \in Area |-> Recopied(i, L.l1[a])]
           c == [h \in DOMAIN L.cache |->
                   IF h \notin H \/ fresh(L.cache[h].entries) = L.cache[h].entries
                   THEN L.cache[h]
                   ELSE [entries |-> fresh(L.cache[h].entries), dirty |-> TRUE]]
           j == RewriteCopied(i)
<1>0. i.l1 \in L1Type  BY FieldTypes
<1>1. H \subseteq Host  BY <1>0, TablesOf
<1>2. LoadEffect(i, H, L)  BY <1>1, LoadFacts
<1>3. j = [L EXCEPT !.l1 = [a \in Area |-> Recopied(i, @[a])],
                    !.cache = [h \in DOMAIN @ |->
                      IF h \notin H \/ fresh(@[h].entries) = @[h].entries
                      THEN @[h]
                      ELSE [entries |-> fresh(@[h].entries), dirty |-> TRUE]]]
    BY DEF RewriteCopied
<1> HIDE DEF L, j
<1>4. /\ L \in ImageType /\ L.l1 = i.l1 /\ L.rc = i.rc /\ L.flushed = i.flushed
      /\ L.table = i.table /\ L.data = i.data /\ L.snaps = i.snaps /\ L.list = i.list
      /\ DOMAIN L.cache = DOMAIN i.cache \union H
      /\ \A h \in Host : Table(L, h) = Table(i, h)
      /\ Coherent(i) => Coherent(L)
    BY <1>2 DEF LoadEffect
<1>5. j = [L EXCEPT !.l1 = l, !.cache = c]  BY <1>3, <1>4 DEF ImageType
<1>6. l \in L1Type /\ \A a \in Area : l[a] = Recopied(i, i.l1[a])
  <2>1. \A a \in Area : i.l1[a] \in EntryType  BY <1>0 DEF L1Type
  <2>2. \A a \in Area : Recopied(i, i.l1[a]) \in EntryType  BY <2>1, RecopiedEntry
  <2> QED BY <1>4, <2>2 DEF L1Type
<1>7. ASSUME NEW t \in TableType PROVE fresh(t) \in TableType
  <2>1. \A s \in Slot : t[s] \in EntryType  BY DEF TableType
  <2>2. \A s \in Slot : Recopied(i, t[s]) \in EntryType  BY <2>1, RecopiedEntry
  <2> QED BY <2>2 DEF TableType
<1>8. \A h \in DOMAIN L.cache : /\ L.cache[h] \in [entries : TableType, dirty : BOOLEAN]
                                /\ L.cache[h].entries \in TableType /\ h \in Host
    BY <1>4, FieldTypes
<1>9. ASSUME NEW h \in DOMAIN L.cache
      PROVE  /\ c[h] \in [entries : TableType, dirty : BOOLEAN]
             /\ h \in H => c[h].entries = fresh(L.cache[h].entries)
             /\ h \notin H => c[h].entries = L.cache[h].entries
             /\ c[h] = L.cache[h] \/ c[h].dirty
  <2>1. CASE h \notin H \/ fresh(L.cache[h].entries) = L.cache[h].entries
    <3>1. c[h] = L.cache[h]  BY <2>1
    <3> HIDE DEF c
    <3> QED BY <1>8, <2>1, <3>1
  <2>2. CASE ~(h \notin H \/ fresh(L.cache[h].entries) = L.cache[h].entries)
    <3>1. c[h] = [entries |-> fresh(L.cache[h].entries), dirty |-> TRUE]  BY <2>2
    <3>2. fresh(L.cache[h].entries) \in TableType  BY <1>7, <1>8
    <3> DEFINE f == fresh(L.cache[h].entries)
    <3> DEFINE r == [entries |-> f, dirty |-> TRUE]
    <3>3. c[h] = r /\ f \in TableType /\ h \in H  BY <2>2, <3>1, <3>2
    <3> HIDE DEF c, f
    <3>4. r \in [entries : TableType, dirty : BOOLEAN]  BY <3>3
    <3>5. r.entries = f  OBVIOUS
    <3>6. r.dirty = TRUE  OBVIOUS
    <3> HIDE DEF r
    <3> QED BY <3>3, <3>4, <3>5, <3>6 DEF f
  <2> QED BY <2>1, <2>2
<1>10. c \in CacheType /\ DOMAIN c = DOMAIN L.cache
  <2>1. c \in [DOMAIN L.cache -> [entries : TableType, dirty : BOOLEAN]]
    <3>1. \A h \in DOMAIN L.cache : c[h] \in [entries : TableType, dirty : BOOLEAN]  BY <1>9
    <3> QED BY <3>1
  <2> HIDE DEF c
  <2> QED BY <1>8, <2>1, CacheIntro
<1> HIDE DEF c, l
<1>11. /\ j \in ImageType /\ j.l1 = l /\ j.cache = c /\ j.rc = L.rc /\ j.flushed = L.flushed
       /\ j.table = L.table /\ j.data = L.data /\ j.snaps = L.snaps /\ j.list = L.list
    BY <1>4, <1>5, <1>6, <1>10 DEF ImageType
<1>12. \A h \in H, s \in Slot : Table(j, h)[s] = Recopied(i, Table(i, h)[s])
  <2> SUFFICES ASSUME NEW h \in H, NEW s \in Slot
               PROVE  Table(j, h)[s] = Recopied(i, Table(i, h)[s])
    OBVIOUS
  <2>1. h \in DOMAIN L.cache /\ h \in DOMAIN j.cache  BY <1>4, <1>10, <1>11
  <2>2. Table(j, h) = c[h].entries /\ Table(L, h) = L.cache[h].entries
    BY <1>11, <2>1 DEF Table
  <2>3. Table(j, h) = fresh(L.cache[h].entries)  BY <1>9, <2>1, <2>2
  <2>4. L.cache[h].entries = Table(i, h)  BY <1>1, <1>4, <2>2
  <2> QED BY <2>3, <2>4
<1>13. \A h \in Host : h \notin H => Table(j, h) = Table(i, h)
  <2> SUFFICES ASSUME NEW h \in Host, h \notin H PROVE Table(j, h) = Table(L, h)  BY <1>4
  <2>1. CASE h \in DOMAIN L.cache  BY <1>9, <1>10, <1>11, <2>1 DEF Table
  <2>2. CASE h \notin DOMAIN L.cache  BY <1>10, <1>11, <2>2 DEF Table
  <2> QED BY <2>1, <2>2
<1>14. Coherent(i) => Coherent(j)
  <2> SUFFICES ASSUME Coherent(L), NEW h \in DOMAIN L.cache
               PROVE  c[h].dirty \/ c[h].entries = L.table[h]
    BY <1>4, <1>10, <1>11 DEF Coherent
  <2> QED BY <1>9 DEF Coherent
<1>15. RecopiedEffect(i, j)
  <2>1. /\ j \in ImageType /\ j.rc = i.rc /\ j.flushed = i.flushed /\ j.table = i.table
        /\ j.data = i.data /\ j.snaps = i.snaps /\ j.list = i.list
        /\ DOMAIN j.cache = DOMAIN i.cache \union H
    BY <1>4, <1>10, <1>11
  <2>2. \A a \in Area : j.l1[a] = Recopied(i, i.l1[a])  BY <1>6, <1>11
  <2> QED BY <1>12, <1>13, <1>14, <2>1, <2>2 DEF RecopiedEffect
<1> QED BY <1>15 DEF j

\* rewrite_active_copied_bits makes the copied bits true, whatever they were.
LEMMA RecopiedSound ==
    ASSUME NEW i, NEW sn, Sound(i, sn), NEW j, RecopiedEffect(i, j)
    PROVE  Sound(j, sn) /\ CopiedOK(j) /\ SameShape(i, sn, j)
<1> USE Zenon
<1> DEFINE H == Tables(i.l1)
<1>0. i \in ImageType /\ i.l1 \in L1Type /\ Coherent(i)  BY FieldTypes DEF Sound
<1>1. /\ j \in ImageType /\ j.rc = i.rc /\ j.list = i.list /\ Coherent(j)
      /\ \A a \in Area : j.l1[a] = Recopied(i, i.l1[a])
      /\ DOMAIN j.cache = DOMAIN i.cache \union H
      /\ \A h \in H, s \in Slot : Table(j, h)[s] = Recopied(i, Table(i, h)[s])
      /\ \A h \in Host : h \notin H => Table(j, h) = Table(i, h)
    BY <1>0 DEF RecopiedEffect
<1>2. H \subseteq Host /\ \A h \in H : \E a \in Area : i.l1[a].host = h  BY <1>0, TablesOf
<1>3. \A a \in Area : /\ j.l1[a].host = i.l1[a].host
                      /\ j.l1[a].copied => i.rc[i.l1[a].host] = 1
  <2> SUFFICES ASSUME NEW a \in Area
               PROVE  /\ j.l1[a].host = i.l1[a].host
                      /\ j.l1[a].copied => i.rc[i.l1[a].host] = 1
    OBVIOUS
  <2>1. i.l1[a] \in EntryType  BY <1>0, EntryHost
  <2>2. Recopied(i, i.l1[a]).host = i.l1[a].host  BY <2>1, RecopiedEntry, SMT
  <2>3. Recopied(i, i.l1[a]).copied => i.rc[i.l1[a].host] = 1  BY <2>1, RecopiedEntry
  <2> QED BY <1>1, <2>2, <2>3
<1>4. \A h \in H, s \in Slot : /\ Table(j, h)[s].host = Table(i, h)[s].host
                               /\ Table(j, h)[s].copied =>
                                    Table(i, h)[s].host # 0 /\ i.rc[Table(i, h)[s].host] = 1
  <2> SUFFICES ASSUME NEW h \in H, NEW s \in Slot
               PROVE  /\ Table(j, h)[s].host = Table(i, h)[s].host
                      /\ Table(j, h)[s].copied =>
                           Table(i, h)[s].host # 0 /\ i.rc[Table(i, h)[s].host] = 1
    OBVIOUS
  <2> DEFINE e == Table(i, h)[s]
  <2>1. Table(i, h) \in TableType  BY <1>0, <1>2, FieldTypes
  <2>2. e \in EntryType /\ Table(j, h)[s] = Recopied(i, e)  BY <1>1, <2>1, EntryHost
  <2> HIDE DEF e
  <2>3. Recopied(i, e).host = e.host  BY <2>2, RecopiedEntry, SMT
  <2>4. Recopied(i, e).copied => e.host # 0 /\ i.rc[e.host] = 1  BY <2>2, RecopiedEntry
  <2> QED BY <2>2, <2>3, <2>4 DEF e
<1>5. \A l \in Layers(i, sn), b \in Area : l[b].host # 0 => l[b].host \in Host
    BY LayerTypes, EntryHost DEF Sound
<1>6. SameShape(i, sn, j)
  <2>1. \A h \in Host, s \in Slot : Table(j, h)[s].host = Table(i, h)[s].host  BY <1>1, <1>4
  <2>2. \A l \in Layers(i, sn), b \in Area, s \in Slot :
           l[b].host # 0 => Table(j, l[b].host)[s].host = Table(i, l[b].host)[s].host
    BY <1>5, <2>1
  <2>3. \A h \in DOMAIN j.cache :
           h \in DOMAIN i.cache \/ \E l \in Layers(i, sn), a \in Area : l[a].host = h
    <3>1. i.l1 \in Layers(i, sn)  BY DEF Layers
    <3> QED BY <1>1, <1>2, <3>1
  <2>4. j \in ImageType /\ j.rc = i.rc /\ j.list = i.list  BY <1>1
  <2> QED BY <1>3, <2>2, <2>3, <2>4 DEF SameShape
<1>7. Sound(j, sn)  BY <1>1, <1>6, ShapeSound
<1>8. CopiedOK(j)
  <2> SUFFICES ASSUME NEW a \in Area, j.l1[a].host # 0
               PROVE  /\ j.l1[a].copied => j.rc[j.l1[a].host] = 1
                      /\ \A s \in Slot : LET e == Table(j, j.l1[a].host)[s]
                                        IN  e.copied => e.host # 0 /\ j.rc[e.host] = 1
    BY DEF CopiedOK
  <2> DEFINE h == i.l1[a].host
  <2>1. j.l1[a].host = h /\ h # 0 /\ (j.l1[a].copied => i.rc[h] = 1)  BY <1>3
  <2>2. h \in H  BY <2>1 DEF Tables
  <2> HIDE DEF h
  <2>3. \A s \in Slot : Table(j, h)[s].copied =>
                          Table(j, h)[s].host # 0 /\ i.rc[Table(j, h)[s].host] = 1
    BY <1>4, <2>2
  <2>4. j.rc = i.rc  BY <1>1
  <2> QED BY <2>1, <2>3, <2>4
<1> QED BY <1>6, <1>7, <1>8

\* rewrite_snapshot_table: the list moves to the free cluster n, or to none.
ListEffect(i, n, j) ==
    /\ n = 0 \/ (n \in Host /\ i.rc[n] = 0)
    /\ j \in ImageType /\ j.list = n
    /\ j.l1 = i.l1 /\ j.flushed = i.flushed /\ j.snaps = i.snaps
    /\ \A x \in Host : j.rc[x] = IF x = n THEN 1 ELSE IF x = i.list THEN i.rc[x] - 1 ELSE i.rc[x]
    /\ DOMAIN j.cache = (DOMAIN i.cache) \ {n}
    /\ \A x \in Host : x # n => /\ Table(j, x) = Table(i, x)
                                /\ j.table[x] = i.table[x] /\ j.data[x] = i.data[x]
    /\ Coherent(i) => Coherent(j)

\* An image with another snapshot list.
LEMMA ListField ==
    ASSUME NEW i \in ImageType, NEW n \in 0 .. HostClusters
    PROVE  LET j == [i EXCEPT !.list = n]
           IN  /\ j \in ImageType /\ j.list = n
               /\ j.l1 = i.l1 /\ j.rc = i.rc /\ j.cache = i.cache /\ j.flushed = i.flushed
               /\ j.table = i.table /\ j.data = i.data /\ j.snaps = i.snaps
BY Zenon DEF ImageType

\* rewrite_snapshot_table, field by field.
LEMMA ListFacts ==
    ASSUME NEW i, NEW sn, Sound(i, sn), DOMAIN i.snaps # {} => Free(i) # {}
    PROVE  \E n : ListEffect(i, n, RewriteList(i))
<1> USE Zenon
<1> DEFINE j == RewriteList(i)
<1>0. i \in ImageType /\ i.list \in 0 .. HostClusters /\ i.rc \in [Host -> Int]
    BY FieldTypes DEF Sound
<1>1. CASE DOMAIN i.snaps = {}
  <2> DEFINE D == Dec(i, i.list)
  <2>1. j = [D EXCEPT !.list = 0]  BY <1>1 DEF RewriteList
  <2>2. DecEffect(i, i.list, D)  BY <1>0, DecFacts
  <2> HIDE DEF D, j
  <2>3. D \in ImageType /\ 0 \in 0 .. HostClusters  BY <2>2, HostRange DEF DecEffect
  <2>4. /\ j \in ImageType /\ j.list = 0
        /\ j.l1 = D.l1 /\ j.rc = D.rc /\ j.cache = D.cache /\ j.flushed = D.flushed
        /\ j.table = D.table /\ j.data = D.data /\ j.snaps = D.snaps
    BY <2>1, <2>3, ListField
  <2>5. /\ D.l1 = i.l1 /\ D.cache = i.cache /\ D.flushed = i.flushed /\ D.table = i.table
        /\ D.data = i.data /\ D.snaps = i.snaps
        /\ \A x \in Host : D.rc[x] = IF x = i.list THEN i.rc[x] - 1 ELSE i.rc[x]
    BY <2>2 DEF DecEffect
  <2>6. DOMAIN j.cache = (DOMAIN i.cache) \ {0}
    <3>1. DOMAIN i.cache \subseteq Host  BY <1>0, FieldTypes
    <3>2. j.cache = i.cache  BY <2>4, <2>5
    <3> QED BY <3>1, <3>2, HostRange
  <2>7. \A x \in Host : j.rc[x] = IF x = 0 THEN 1 ELSE IF x = i.list THEN i.rc[x] - 1 ELSE i.rc[x]
    BY <2>4, <2>5, HostRange
  <2>8. (\A x \in Host : Table(j, x) = Table(i, x)) /\ (Coherent(i) => Coherent(j))
    <3>1. j.cache = i.cache /\ j.table = i.table  BY <2>4, <2>5
    <3> QED BY <3>1 DEF Table, Coherent
  <2>9. ListEffect(i, 0, j)  BY <2>4, <2>5, <2>6, <2>7, <2>8 DEF ListEffect
  <2> QED BY <2>9 DEF j
<1>2. CASE DOMAIN i.snaps # {}
  <2> DEFINE n == Lowest(i)
             K == WriteTable(Alloc(i), n, Blank)
             D == Dec(K, i.list)
  <2>1. j = [D EXCEPT !.list = n]  BY <1>2 DEF RewriteList
  <2>2. NewEffect(i, n, K)  BY <1>0, <1>2, BlankType, NewTableFacts
  <2> HIDE DEF K
  <2>3. DecEffect(K, i.list, D)  BY <1>0, <2>2, DecFacts DEF NewEffect
  <2> HIDE DEF D, j, n
  <2>4. D \in ImageType /\ n \in Host /\ n \in 0 .. HostClusters /\ i.rc[n] = 0
    BY <2>2, <2>3, HostRange DEF DecEffect, NewEffect
  <2>5. /\ j \in ImageType /\ j.list = n
        /\ j.l1 = D.l1 /\ j.rc = D.rc /\ j.cache = D.cache /\ j.flushed = D.flushed
        /\ j.table = D.table /\ j.data = D.data /\ j.snaps = D.snaps
    BY <2>1, <2>4, ListField
  <2>6. /\ D.l1 = K.l1 /\ D.cache = K.cache /\ D.flushed = K.flushed /\ D.table = K.table
        /\ D.data = K.data /\ D.snaps = K.snaps
        /\ \A x \in Host : D.rc[x] = IF x = i.list THEN K.rc[x] - 1 ELSE K.rc[x]
    BY <2>3 DEF DecEffect
  <2>7. /\ K.l1 = i.l1 /\ K.flushed = i.flushed /\ K.snaps = i.snaps
        /\ K.rc = [i.rc EXCEPT ![n] = 1] /\ DOMAIN K.cache = (DOMAIN i.cache) \ {n}
        /\ \A x \in Host : x # n => /\ Table(K, x) = Table(i, x)
                                    /\ K.table[x] = i.table[x] /\ K.data[x] = i.data[x]
        /\ Coherent(i) => Coherent(K)
    BY <2>2 DEF NewEffect
  <2>8. n # i.list
    <3>1. NotUsed(i, sn, n)  BY <2>4, FreeNoTable
    <3> QED BY <3>1 DEF NotUsed
  <2>9. \A x \in Host : j.rc[x] = IF x = n THEN 1 ELSE IF x = i.list THEN i.rc[x] - 1 ELSE i.rc[x]
    <3>1. \A x \in Host : K.rc[x] = IF x = n THEN 1 ELSE i.rc[x]  BY <1>0, <2>7
    <3>2. j.rc = D.rc  BY <2>5
    <3> QED BY <2>6, <2>8, <3>1, <3>2
  <2>10. (\A x \in Host : Table(j, x) = Table(K, x)) /\ (Coherent(K) => Coherent(j))
    <3>1. j.cache = K.cache /\ j.table = K.table  BY <2>5, <2>6
    <3> QED BY <3>1 DEF Table, Coherent
  <2>11. /\ j.l1 = i.l1 /\ j.flushed = i.flushed /\ j.snaps = i.snaps
         /\ DOMAIN j.cache = (DOMAIN i.cache) \ {n}
    BY <2>5, <2>6, <2>7
  <2>12. \A x \in Host : x # n => /\ Table(j, x) = Table(i, x)
                                  /\ j.table[x] = i.table[x] /\ j.data[x] = i.data[x]
    <3>1. j.table = K.table /\ j.data = K.data  BY <2>5, <2>6
    <3> QED BY <2>7, <2>10, <3>1
  <2>13. ListEffect(i, n, j)
    BY <2>4, <2>5, <2>7, <2>9, <2>10, <2>11, <2>12 DEF ListEffect
  <2> QED BY <2>13 DEF j
<1> QED BY <1>1, <1>2

\* rewrite_snapshot_table leaves the image sound.
LEMMA ListSound ==
    ASSUME NEW i, NEW sn, Sound(i, sn), NEW n, NEW j, ListEffect(i, n, j)
    PROVE  Sound(j, sn) /\ (CopiedOK(i) => CopiedOK(j))
<1> USE Zenon
<1>0. /\ i \in ImageType /\ i.l1 \in L1Type /\ i.rc \in [Host -> Int]
      /\ sn \in SnapsType /\ IsFiniteSet(DOMAIN sn) /\ Coherent(i) /\ Balanced(i, sn)
    BY FieldTypes DEF Sound
<1>1. /\ n = 0 \/ (n \in Host /\ i.rc[n] = 0)
      /\ j \in ImageType /\ j.list = n /\ j.l1 = i.l1 /\ Coherent(j)
      /\ \A x \in Host : j.rc[x] = IF x = n THEN 1 ELSE IF x = i.list THEN i.rc[x] - 1 ELSE i.rc[x]
      /\ DOMAIN j.cache = (DOMAIN i.cache) \ {n}
      /\ \A x \in Host : x # n => Table(j, x) = Table(i, x)
    BY <1>0 DEF ListEffect
<1>2. n \in Host => NotUsed(i, sn, n)
  <2> SUFFICES ASSUME n \in Host PROVE NotUsed(i, sn, n)  OBVIOUS
  <2>1. i.rc[n] = 0  BY <1>1, HostRange
  <2> QED BY <2>1, FreeNoTable
<1>3. \A l \in Layers(i, sn), a \in Area : l[a].host # 0 =>
         l[a].host \in Host /\ Table(j, l[a].host) = Table(i, l[a].host)
  <2> SUFFICES ASSUME NEW l \in Layers(i, sn), NEW a \in Area, l[a].host # 0
               PROVE  l[a].host \in Host /\ Table(j, l[a].host) = Table(i, l[a].host)
    OBVIOUS
  <2>1. l[a].host \in Host  BY LayerTypes, EntryHost DEF Sound
  <2>2. <<a, 0>> \in Position /\ Target(i, l, <<a, 0>>) = l[a].host  BY Positions DEF Target
  <2>3. l[a].host # n  BY <1>2, <2>1, <2>2 DEF NotUsed
  <2> QED BY <1>1, <2>1, <2>3
<1>4. Layers(j, sn) = Layers(i, sn)  BY <1>1 DEF Layers
<1>5. SameLayers(i, sn, j, sn)
  <2>1. \A l \in Layers(j, sn) : \E k \in Layers(i, sn) : \A a \in Area : l[a].host = k[a].host
    BY <1>4
  <2>2. \A k \in Layers(i, sn), a \in Area, s \in Slot :
           k[a].host # 0 => Table(j, k[a].host)[s].host = Table(i, k[a].host)[s].host
    BY <1>3
  <2>3. \A h \in DOMAIN j.cache : h \in DOMAIN i.cache  BY <1>1
  <2> QED BY <2>1, <2>2, <2>3 DEF SameLayers
<1>6. \A l \in Layers(i, sn), u \in Position : Target(j, l, u) = Target(i, l, u)
    BY <1>5, LayerTargets, SMT
<1>7. Balanced(j, sn)
  <2> SUFFICES ASSUME NEW h \in Host
               PROVE  j.rc[h] = Refs(j, j.l1, h) + Held(j, sn, h) + (IF j.list = h THEN 1 ELSE 0)
    BY DEF Balanced
  <2>1. Refs(j, i.l1, h) = Refs(i, i.l1, h)
    <3>1. \A u \in Position : Target(j, i.l1, u) = Target(i, i.l1, u)  BY <1>6 DEF Layers
    <3> QED BY <3>1, SameRefs, SMT
  <2>2. Held(j, sn, h) = Held(i, sn, h)
    <3>1. \A k \in DOMAIN sn, u \in Position : Target(j, sn[k].l1, u) = Target(i, sn[k].l1, u)
      BY <1>6 DEF Layers
    <3> QED BY <3>1, SameHeld, SMT
  <2>3. i.rc[h] = Refs(i, i.l1, h) + Held(i, sn, h) + (IF i.list = h THEN 1 ELSE 0)
    BY <1>0 DEF Balanced
  <2>4. Refs(i, i.l1, h) \in Nat /\ Held(i, sn, h) \in Nat  BY <1>0, RefsType, HeldType
  <2>5. j.rc[h] = IF h = n THEN 1 ELSE IF h = i.list THEN i.rc[h] - 1 ELSE i.rc[h]  BY <1>1
  <2>6. h = n => i.rc[h] = 0  BY <1>1, HostRange
  <2> QED BY <1>1, <2>1, <2>2, <2>3, <2>4, <2>5, <2>6, SMT
<1>8. Sound(j, sn)  BY <1>0, <1>1, <1>5, <1>7, LayersSound
\* A cluster with one reference from the active layer is neither the new list nor the old.
<1>9. ASSUME NEW u \in Position, Target(i, i.l1, u) # 0, i.rc[Target(i, i.l1, u)] = 1
      PROVE  j.rc[Target(i, i.l1, u)] = 1
  <2> DEFINE x == Target(i, i.l1, u)
  <2>1. x \in Host  BY <1>0, <1>9, TargetType
  <2>2. SoleUse(i, sn, x, u)  BY <1>0, <1>9, <2>1, UsedOnce
  <2>3. x # i.list  BY <2>2 DEF SoleUse
  <2>4. x # n  BY <1>2, <2>1 DEF NotUsed, Layers
  <2> QED BY <1>1, <1>9, <2>1, <2>3, <2>4
<1>10. ASSUME CopiedOK(i) PROVE CopiedOK(j)
  <2> SUFFICES ASSUME NEW a \in Area, j.l1[a].host # 0
               PROVE  /\ j.l1[a].copied => j.rc[j.l1[a].host] = 1
                      /\ \A s \in Slot : LET e == Table(j, j.l1[a].host)[s]
                                        IN  e.copied => e.host # 0 /\ j.rc[e.host] = 1
    BY DEF CopiedOK
  <2> DEFINE h == i.l1[a].host
  <2>1. j.l1[a] = i.l1[a] /\ h # 0  BY <1>1
  <2>2. Table(j, h) = Table(i, h)  BY <1>3, <2>1 DEF Layers
  <2>3. i.l1[a].copied => i.rc[h] = 1  BY <1>10, <2>1 DEF CopiedOK
  <2>4. i.l1[a].copied => j.rc[h] = 1
    <3>1. <<a, 0>> \in Position /\ Target(i, i.l1, <<a, 0>>) = h  BY Positions DEF Target
    <3> QED BY <1>9, <2>1, <2>3, <3>1
  <2>5. \A s \in Slot : Table(i, h)[s].copied => /\ Table(i, h)[s].host # 0
                                                 /\ j.rc[Table(i, h)[s].host] = 1
    <3> SUFFICES ASSUME NEW s \in Slot, Table(i, h)[s].copied
                 PROVE  Table(i, h)[s].host # 0 /\ j.rc[Table(i, h)[s].host] = 1
      OBVIOUS
    <3>1. Table(i, h)[s].host # 0 /\ i.rc[Table(i, h)[s].host] = 1
      BY <1>10, <2>1 DEF CopiedOK
    <3>2. <<a, s>> \in Position /\ Target(i, i.l1, <<a, s>>) = Table(i, h)[s].host
      BY <2>1, Positions DEF Target
    <3> QED BY <1>9, <3>1, <3>2
  <2> QED BY <2>1, <2>2, <2>4, <2>5
<1> QED BY <1>8, <1>10

-------------------------------------------------------------------------------
(* snapshot_create_impl. *)

\* punch_vmstate takes the saved machine state out of the active layer.
PunchEffect(i, m, c, j) ==
    /\ Sound(c, m) /\ c.snaps = i.snaps
    /\ c = i \/ GetsTable(i, "state", Lowest(i), c)
    /\ \/ j = c /\ (c.l1["state"].host = 0 \/ Table(c, c.l1["state"].host)[1] = Unallocated)
       \/ Repointed(c, "state", 1, 0, ZeroFlag, j)

\* punch_vmstate, step by step.
LEMMA PunchFacts ==
    ASSUME NEW i, NEW m, Sound(i, m), Free(i) # {}
    PROVE  PunchEffect(i, m, CowL2(i, "state"), Punch(i))
<1> USE Zenon
<1> DEFINE a == "state"
           c == CowL2(i, a)
           t == c.l1[a].host
           e == Table(c, t)[1]
           j == Punch(i)
<1>0. a \in Area /\ i \in ImageType /\ 1 \in Slot  BY SMT DEF Sound, Area, Slot
<1>1. j = IF t = 0 THEN c ELSE IF e = Unallocated THEN c
          ELSE SetEntry(Dec(c, e.host), t, 1, ZeroFlag)
    BY DEF Punch
<1> HIDE DEF a, j
<1>2. \/ c = i /\ (i.l1[a].host = 0 \/ OwnsTable(i, a))
      \/ GetsTable(i, a, Lowest(i), c)
    BY <1>0, CowFacts
<1> HIDE DEF c
<1>3. (c = i \/ GetsTable(i, a, Lowest(i), c)) /\ (t # 0 => OwnsTable(c, a))
    BY <1>0, <1>2, GetsOwns
<1>4. Sound(c, m)  BY <1>0, <1>3, GetsTableSound
<1>5. c.snaps = i.snaps  BY <1>3 DEF GetsTable
<1>6. CASE t = 0 \/ e = Unallocated
  <2>1. j = c  BY <1>1, <1>6
  <2> QED BY <1>3, <1>4, <1>5, <1>6, <2>1 DEF PunchEffect, a, c, j
<1>7. CASE ~(t = 0 \/ e = Unallocated)
  <2>1. j = SetEntry(Dec(c, e.host), t, 1, ZeroFlag)  BY <1>1, <1>7
  <2>2. ZeroFlag \in EntryType /\ ZeroFlag.host = 0  BY BlankType DEF ZeroFlag
  <2>3. Repointed(c, a, 1, 0, ZeroFlag, j)  BY <1>0, <1>3, <1>4, <1>7, <2>1, <2>2, DropFacts
  <2> QED BY <1>3, <1>4, <1>5, <2>3 DEF PunchEffect, a, c, j
<1> QED BY <1>6, <1>7

\* The free clusters are a number.
LEMMA FreeCount == ASSUME NEW i PROVE IsFiniteSet(Free(i)) /\ Cardinality(Free(i)) \in Nat
<1> USE Zenon
<1>1. IsFiniteSet(Host)  BY SizeAssumption, FS_Interval, SMT DEF Host
<1>2. Free(i) \subseteq Host  BY DEF Free
<1>3. IsFiniteSet(Free(i))  BY <1>1, <1>2, FS_Subset
<1> QED BY <1>3, FS_CardinalityType

\* What a step that frees clusters at most leaves free.
LEMMA SpareSame ==
    ASSUME NEW i, NEW j, \A x \in Host : i.rc[x] = 0 => j.rc[x] = 0, NEW k \in Nat,
           Cardinality(Free(i)) >= k
    PROVE  Cardinality(Free(j)) >= k
<1> USE Zenon
<1>1. Free(i) \subseteq Free(j)  BY DEF Free
<1>2. /\ IsFiniteSet(Free(j)) /\ Cardinality(Free(i)) \in Nat /\ Cardinality(Free(j)) \in Nat
    BY FreeCount
<1> HIDE DEF Free
<1>3. Cardinality(Free(i)) <= Cardinality(Free(j))  BY <1>1, <1>2, FS_Subset
<1> QED BY <1>2, <1>3, SMT

\* punch_vmstate leaves the image sound and takes one free cluster at most.
LEMMA PunchSound ==
    ASSUME NEW i, NEW m, NEW c, NEW j, PunchEffect(i, m, c, j)
    PROVE  /\ Sound(j, m) /\ j.snaps = i.snaps
           /\ \A k \in Nat : Cardinality(Free(i)) >= k + 1 => Cardinality(Free(j)) >= k
<1> USE Zenon
<1>0. "state" \in Area /\ 1 \in Slot /\ Sound(c, m)  BY SMT DEF Area, Slot, PunchEffect
<1>1. Sound(j, m) /\ j.snaps = i.snaps
  <2>1. CASE j = c  BY <2>1 DEF PunchEffect
  <2>2. CASE Repointed(c, "state", 1, 0, ZeroFlag, j)
    <3>1. Sound(j, m)  BY <1>0, <2>2, RepointSound
    <3>2. j.snaps = c.snaps  BY <2>2 DEF Repointed
    <3> QED BY <3>1, <3>2 DEF PunchEffect
  <2> QED BY <2>1, <2>2 DEF PunchEffect
<1>2. ASSUME NEW k \in Nat, Cardinality(Free(i)) >= k + 1 PROVE Cardinality(Free(j)) >= k
  <2>1. Cardinality(Free(c)) >= k
    <3>1. CASE c = i
      <4>1. Cardinality(Free(i)) >= k  BY <1>2, FreeCount, SMT
      <4> QED BY <3>1, <4>1
    <3>2. CASE GetsTable(i, "state", Lowest(i), c)  BY <1>2, <3>2, GetsSpare
    <3> QED BY <3>1, <3>2 DEF PunchEffect
  <2>2. \A x \in Host : c.rc[x] = 0 => j.rc[x] = 0
    <3>1. CASE j = c  BY <3>1
    <3>2. CASE Repointed(c, "state", 1, 0, ZeroFlag, j)
      <4> DEFINE t == c.l1["state"].host
                 old == Table(c, t)[1].host
      <4>1. /\ \A x \in Host : j.rc[x] = IF x = 0 THEN 1 ELSE IF x = old THEN c.rc[x] - 1 ELSE c.rc[x]
            /\ t \in Host
        BY <3>2 DEF Repointed
      <4> SUFFICES ASSUME NEW x \in Host, c.rc[x] = 0 PROVE j.rc[x] = 0  OBVIOUS
      <4>2. NotUsed(c, m, x)  BY <1>0, FreeNoTable
      <4>3. <<"state", 1>> \in Position /\ Target(c, c.l1, <<"state", 1>>) = old
        BY <1>0, <4>1, Positions, HostRange DEF Target
      <4>4. x # old  BY <4>2, <4>3 DEF NotUsed, Layers
      <4>5. x # 0  BY HostRange
      <4> QED BY <4>1, <4>4, <4>5
    <3> QED BY <3>1, <3>2 DEF PunchEffect
  <2> QED BY <2>1, <2>2, SpareSame
<1> QED BY <1>1, <1>2

\* An image with other snapshots.
LEMMA SnapsField ==
    ASSUME NEW i \in ImageType, NEW m \in SnapsType
    PROVE  LET j == [i EXCEPT !.snaps = m]
           IN  /\ j \in ImageType /\ j.snaps = m
               /\ j.l1 = i.l1 /\ j.rc = i.rc /\ j.cache = i.cache /\ j.flushed = i.flushed
               /\ j.table = i.table /\ j.data = i.data /\ j.list = i.list
BY Zenon DEF ImageType

\* The new snapshot's L1 table gets the cluster p, and l names the tables that its
\* layer shares.
KeptEffect(i, n, p, l, j) ==
    /\ p \in Host /\ i.rc[p] = 0
    /\ j \in ImageType /\ j.l1 = i.l1 /\ j.flushed = i.flushed /\ j.list = i.list
    /\ SavedEffect(i.snaps, n, [at |-> p, l1 |-> l], j.snaps)
    /\ \A x \in Host : j.rc[x] = IF x = p THEN 1 ELSE i.rc[x]
    /\ DOMAIN j.cache = (DOMAIN i.cache) \ {p}
    /\ \A x \in Host : x # p => /\ Table(j, x) = Table(i, x)
                                /\ j.table[x] = i.table[x] /\ j.data[x] = i.data[x]
    /\ Coherent(i) => Coherent(j)

\* The snapshot is added, field by field.
LEMMA KeptFacts ==
    ASSUME NEW i \in ImageType, Free(i) # {}, NEW n \in Name, NEW l \in L1Type
    PROVE  KeptEffect(i, n, Lowest(i), l,
                      [WriteTable(Alloc(i), Lowest(i), Blank)
                         EXCEPT !.snaps = Saved(@, n, [at |-> Lowest(i), l1 |-> l])])
<1> USE Zenon
<1> DEFINE p == Lowest(i)
           K == WriteTable(Alloc(i), p, Blank)
           x == [at |-> p, l1 |-> l]
           m == Saved(i.snaps, n, x)
           j == [K EXCEPT !.snaps = Saved(@, n, x)]
<1>1. NewEffect(i, p, K)  BY BlankType, NewTableFacts
<1> HIDE DEF K, p
<1>2. K \in ImageType /\ K.snaps = i.snaps /\ p \in Host  BY <1>1 DEF NewEffect
<1>3. j = [K EXCEPT !.snaps = m]  BY <1>2 DEF ImageType
<1>4. x \in [at : 0 .. HostClusters, l1 : L1Type]  BY <1>2, HostRange
<1>5. SavedEffect(i.snaps, n, x, m)  BY <1>4, SavedFacts, FieldTypes
<1> HIDE DEF m, j
<1>6. m \in SnapsType  BY <1>5 DEF SavedEffect
<1>7. /\ j \in ImageType /\ j.snaps = m
      /\ j.l1 = K.l1 /\ j.rc = K.rc /\ j.cache = K.cache /\ j.flushed = K.flushed
      /\ j.table = K.table /\ j.data = K.data /\ j.list = K.list
    BY <1>2, <1>3, <1>6, SnapsField
<1>8. /\ i.rc[p] = 0 /\ K.l1 = i.l1 /\ K.flushed = i.flushed /\ K.list = i.list
      /\ K.rc = [i.rc EXCEPT ![p] = 1] /\ DOMAIN K.cache = (DOMAIN i.cache) \ {p}
      /\ \A y \in Host : y # p => /\ Table(K, y) = Table(i, y)
                                  /\ K.table[y] = i.table[y] /\ K.data[y] = i.data[y]
      /\ Coherent(i) => Coherent(K)
    BY <1>1 DEF NewEffect
<1>9. (\A y \in Host : Table(j, y) = Table(K, y)) /\ (Coherent(K) => Coherent(j))
    BY <1>7 DEF Table, Coherent
<1>10. \A y \in Host : j.rc[y] = IF y = p THEN 1 ELSE i.rc[y]
  <2>1. i.rc \in [Host -> Int]  BY FieldTypes
  <2> QED BY <1>7, <1>8, <2>1
<1>11. /\ j.l1 = i.l1 /\ j.flushed = i.flushed /\ j.list = i.list
       /\ DOMAIN j.cache = (DOMAIN i.cache) \ {p}
    BY <1>7, <1>8
<1>12. \A y \in Host : y # p => /\ Table(j, y) = Table(i, y)
                                /\ j.table[y] = i.table[y] /\ j.data[y] = i.data[y]
  <2>1. j.table = K.table /\ j.data = K.data  BY <1>7
  <2> QED BY <1>8, <1>9, <2>1
<1>13. Coherent(i) => Coherent(j)  BY <1>8, <1>9
<1>14. p \in Host /\ i.rc[p] = 0 /\ j \in ImageType /\ SavedEffect(i.snaps, n, x, j.snaps)
    BY <1>2, <1>5, <1>7, <1>8
<1>15. KeptEffect(i, n, p, l, j)
    BY <1>10, <1>11, <1>12, <1>13, <1>14 DEF KeptEffect
<1> QED BY <1>15 DEF j, K, p

\* The references counted for the snapshot become its own.
LEMMA KeptSound ==
    ASSUME NEW i, NEW n \in Name, n \notin DOMAIN i.snaps, i.snaps \in SnapsType,
           IsFiniteSet(DOMAIN i.snaps), NEW k \in L1Type,
           Sound(i, Saved(i.snaps, n, [at |-> 0, l1 |-> k])),
           NEW l \in L1Type, \A a \in Area : l[a].host = k[a].host,
           NEW p, NEW j, KeptEffect(i, n, p, l, j)
    PROVE  Sound(j, j.snaps) /\ (CopiedOK(i) => CopiedOK(j))
<1> USE Zenon
<1> DEFINE sn == i.snaps
           x == [at |-> 0, l1 |-> k]
           y == [at |-> p, l1 |-> l]
           m == Saved(sn, n, x)
           q == j.snaps
<1>0. /\ i \in ImageType /\ i.l1 \in L1Type /\ i.rc \in [Host -> Int]
      /\ Coherent(i) /\ Balanced(i, m) /\ Sound(i, m) /\ IsFiniteSet(DOMAIN m)
    BY FieldTypes DEF Sound
<1>1. x.at = 0 /\ x.l1 = k /\ y.at = p /\ y.l1 = l  OBVIOUS
<1>2. SavedEffect(sn, n, x, m)
  <2>1. x \in [at : 0 .. HostClusters, l1 : L1Type]  BY HostRange
  <2> QED BY <2>1, SavedFacts
<1>3. /\ p \in Host /\ i.rc[p] = 0 /\ j \in ImageType /\ j.l1 = i.l1 /\ j.list = i.list
      /\ SavedEffect(sn, n, y, q) /\ Coherent(j)
      /\ \A h \in Host : j.rc[h] = IF h = p THEN 1 ELSE i.rc[h]
      /\ DOMAIN j.cache = (DOMAIN i.cache) \ {p}
      /\ \A h \in Host : h # p => Table(j, h) = Table(i, h)
    BY <1>0 DEF KeptEffect
<1> HIDE DEF x, y, m, q
<1>4. /\ DOMAIN m = DOMAIN sn \union {n} /\ m[n] = x /\ \A r \in DOMAIN sn : m[r] = sn[r]
      /\ DOMAIN q = DOMAIN sn \union {n} /\ q[n] = y /\ \A r \in DOMAIN sn : q[r] = sn[r]
      /\ q \in SnapsType
    BY <1>2, <1>3 DEF SavedEffect
<1>5. NotUsed(i, m, p)  BY <1>0, <1>3, FreeNoTable
<1>6. \A b \in Layers(i, m), a \in Area : b[a].host # 0 =>
         b[a].host \in Host /\ Table(j, b[a].host) = Table(i, b[a].host)
  <2> SUFFICES ASSUME NEW b \in Layers(i, m), NEW a \in Area, b[a].host # 0
               PROVE  b[a].host \in Host /\ Table(j, b[a].host) = Table(i, b[a].host)
    OBVIOUS
  <2>1. b[a].host \in Host  BY <1>0, LayerTypes, EntryHost DEF Sound
  <2>2. <<a, 0>> \in Position /\ Target(i, b, <<a, 0>>) = b[a].host  BY Positions DEF Target
  <2>3. b[a].host # p  BY <1>5, <2>1, <2>2 DEF NotUsed
  <2> QED BY <1>3, <2>1, <2>3
<1>7. k \in Layers(i, m) /\ i.l1 \in Layers(i, m) /\ \A r \in DOMAIN sn : sn[r].l1 \in Layers(i, m)
    BY <1>1, <1>4 DEF Layers
<1>8. SameLayers(i, m, j, q)
  <2>1. \A b \in Layers(j, q) : \E d \in Layers(i, m) : \A a \in Area : b[a].host = d[a].host
    <3> SUFFICES ASSUME NEW b \in Layers(j, q)
                 PROVE  \E d \in Layers(i, m) : \A a \in Area : b[a].host = d[a].host
      OBVIOUS
    <3>1. b = i.l1 \/ \E r \in DOMAIN q : b = q[r].l1  BY <1>3 DEF Layers
    <3>2. CASE b = i.l1  BY <1>7, <3>2
    <3>3. ASSUME NEW r \in DOMAIN q, b = q[r].l1
          PROVE  \E d \in Layers(i, m) : \A a \in Area : b[a].host = d[a].host
      <4>1. CASE r = n
        <5>1. b = l  BY <1>1, <1>4, <3>3, <4>1
        <5> QED BY <1>7, <5>1
      <4>2. CASE r # n
        <5>1. r \in DOMAIN sn /\ b = sn[r].l1  BY <1>4, <3>3, <4>2
        <5> QED BY <1>7, <5>1
      <4> QED BY <4>1, <4>2
    <3> QED BY <3>1, <3>2, <3>3
  <2>2. \A b \in Layers(i, m), a \in Area, s \in Slot :
           b[a].host # 0 => Table(j, b[a].host)[s].host = Table(i, b[a].host)[s].host
    BY <1>6
  <2>3. \A h \in DOMAIN j.cache : h \in DOMAIN i.cache  BY <1>3
  <2> QED BY <2>1, <2>2, <2>3 DEF SameLayers
<1>9. \A b \in Layers(i, m), u \in Position : Target(j, b, u) = Target(i, b, u)
    BY <1>8, LayerTargets, SMT
<1>10. \A u \in Position : Target(j, l, u) = Target(i, k, u)  BY <1>7, <1>8, LayerTargets, SMT
<1>11. Balanced(j, q)
  <2> SUFFICES ASSUME NEW h \in Host
               PROVE  j.rc[h] = Refs(j, j.l1, h) + Held(j, q, h) + (IF j.list = h THEN 1 ELSE 0)
    BY DEF Balanced
  <2>1. Refs(j, i.l1, h) = Refs(i, i.l1, h) /\ Refs(j, l, h) = Refs(i, k, h)
    BY <1>7, <1>9, <1>10, SameRefs, SMT
  <2>2. Held(j, sn, h) = Held(i, sn, h)
    <3>1. \A r \in DOMAIN sn, u \in Position : Target(j, sn[r].l1, u) = Target(i, sn[r].l1, u)
      BY <1>7, <1>9
    <3> QED BY <3>1, SameHeld, SMT
  <2>3. Held(j, q, h) = Held(j, sn, h) + Refs(j, l, h) + (IF p = h THEN 1 ELSE 0)
    <3>1. HeldMore(j, sn, q, n, h)  BY <1>4, OneMoreHeld
    <3> QED BY <1>1, <1>4, <3>1 DEF HeldMore
  <2>4. Held(i, m, h) = Held(i, sn, h) + Refs(i, k, h) + (IF 0 = h THEN 1 ELSE 0)
    <3>1. HeldMore(i, sn, m, n, h)  BY <1>4, OneMoreHeld
    <3> QED BY <1>1, <1>4, <3>1 DEF HeldMore
  <2>5. i.rc[h] = Refs(i, i.l1, h) + Held(i, m, h) + (IF i.list = h THEN 1 ELSE 0)
    BY <1>0 DEF Balanced
  <2>6. Refs(i, i.l1, h) \in Nat /\ Refs(i, k, h) \in Nat /\ Held(i, sn, h) \in Nat
    BY RefsType, HeldType
  <2>7. j.rc[h] = IF h = p THEN 1 ELSE i.rc[h]  BY <1>3
  <2>8. h # 0  BY HostRange
  <2> QED BY <1>3, <2>1, <2>2, <2>3, <2>4, <2>5, <2>6, <2>7, <2>8, SMT
<1>12. IsFiniteSet(DOMAIN q)  BY <1>4, FS_AddElement
<1>13. Sound(j, q)  BY <1>0, <1>3, <1>4, <1>8, <1>11, <1>12, LayersSound
<1>14. ASSUME CopiedOK(i) PROVE CopiedOK(j)
  <2>1. ASSUME NEW h \in Host, i.rc[h] = 1 PROVE j.rc[h] = 1
    <3>1. h # p  BY <1>3, <2>1, SMT
    <3> QED BY <1>3, <2>1, <3>1
  <2> SUFFICES ASSUME NEW a \in Area, j.l1[a].host # 0
               PROVE  /\ j.l1[a].copied => j.rc[j.l1[a].host] = 1
                      /\ \A s \in Slot : LET e == Table(j, j.l1[a].host)[s]
                                        IN  e.copied => e.host # 0 /\ j.rc[e.host] = 1
    BY DEF CopiedOK
  <2> DEFINE h == i.l1[a].host
  <2>2. j.l1[a] = i.l1[a] /\ h # 0  BY <1>3
  <2>3. Table(j, h) = Table(i, h) /\ h \in Host  BY <1>6, <1>7, <2>2
  <2>4. i.l1[a].copied => j.rc[h] = 1  BY <1>14, <2>1, <2>2, <2>3 DEF CopiedOK
  <2>5. \A s \in Slot : Table(i, h)[s].copied => /\ Table(i, h)[s].host # 0
                                                 /\ j.rc[Table(i, h)[s].host] = 1
    <3> SUFFICES ASSUME NEW s \in Slot, Table(i, h)[s].copied
                 PROVE  Table(i, h)[s].host # 0 /\ j.rc[Table(i, h)[s].host] = 1
      OBVIOUS
    <3>1. Table(i, h)[s].host # 0 /\ i.rc[Table(i, h)[s].host] = 1
      BY <1>14, <2>2 DEF CopiedOK
    <3>2. Table(i, h)[s].host \in Host  BY <1>0, <2>3, <3>1, FieldTypes, EntryHost
    <3> QED BY <2>1, <3>1, <3>2
  <2> QED BY <2>2, <2>3, <2>4, <2>5
<1> QED BY <1>13, <1>14 DEF q

\* The images snapshot_create_impl goes through, up to its flush: references counted,
\* machine state punched out, copied bits rewritten, snapshot added, list rewritten.
CreateChain(i, n, running, w, v, r, k, z) ==
    LET m == Saved(i.snaps, n, [at |-> 0, l1 |-> i.l1])
    IN  /\ WalkEffect(i, i.l1, 1, w) /\ Sound(w, m)
        /\ IF running THEN PunchEffect(w, m, CowL2(w, "state"), v) ELSE v = w
        /\ Sound(v, m) /\ RecopiedEffect(v, r) /\ Sound(r, m)
        /\ KeptEffect(r, n, Lowest(r), [a \in Area |-> Recopied(r, i.l1[a])], k)
        /\ Sound(k, k.snaps)
        /\ \E p : ListEffect(k, p, z)
        /\ Sound(z, z.snaps) /\ CopiedOK(z)

\* Raising the counts of the active layer takes no free cluster.
LEMMA RaisedSpare ==
    ASSUME NEW i, NEW sn, Sound(i, sn), NEW l \in Layers(i, sn), NEW j,
           NEW delta \in {1, -1}, WalkEffect(i, l, delta, j)
    PROVE  \A h \in Host : i.rc[h] = 0 => j.rc[h] = 0
<1> USE Zenon
<1> SUFFICES ASSUME NEW h \in Host, i.rc[h] = 0 PROVE j.rc[h] = 0  OBVIOUS
<1>1. NotUsed(i, sn, h)  BY FreeNoTable
<1>2. Refs(i, l, h) = 0
  <2> DEFINE R == {u \in Position : Target(i, l, u) = h}
  <2>1. R = {}  BY <1>1 DEF NotUsed
  <2>2. Refs(i, l, h) = Cardinality(R)  BY DEF Refs
  <2> HIDE DEF R
  <2> QED BY <2>1, <2>2, FS_EmptySet
<1>3. j.rc[h] = i.rc[h] + delta * Refs(i, l, h)  BY DEF WalkEffect
<1> QED BY <1>2, <1>3, SMT

\* Of two free clusters, one is left.
LEMMA SpareLess ==
    ASSUME NEW i, NEW j, NEW n, Cardinality(Free(i)) >= 2,
           \A h \in Host : h # n /\ i.rc[h] = 0 => j.rc[h] = 0
    PROVE  Free(j) # {}
<1>1. \A x \in Host : x # n /\ i.rc[x] = 0 => j.rc[x] = 0  OBVIOUS
<1>2. \A k \in Nat : Cardinality(Free(i)) >= k + 1 => Cardinality(Free(j)) >= k
    BY <1>1, SpareFacts, Zenon
<1>3. Cardinality(Free(j)) >= 1  BY <1>2, SMT
<1>4. 1 \in Nat /\ 1 >= 1  BY SMT
<1> QED BY <1>3, <1>4, SpareOne, Zenon

\* snapshot_create_impl goes through these images.
LEMMA CreateFacts ==
    ASSUME NEW i, NEW T, Whole(i, T), NEW n \in Name, n \notin DOMAIN i.snaps,
           NEW running \in BOOLEAN, Cardinality(Free(i)) >= 3
    PROVE  LET w == Walk(i, i.l1, 1)
               v == IF running THEN Punch(w) ELSE w
               r == RewriteCopied(v)
               k == [WriteTable(Alloc(r), Lowest(r), Blank)
                       EXCEPT !.snaps = Saved(@, n, [at |-> Lowest(r),
                                                     l1 |-> [a \in Area |-> Recopied(r, i.l1[a])]])]
           IN  CreateChain(i, n, running, w, v, r, k, RewriteList(k))
<1> USE Zenon
<1> DEFINE x == [at |-> 0, l1 |-> i.l1]
           m == Saved(i.snaps, n, x)
           w == Walk(i, i.l1, 1)
           v == IF running THEN Punch(w) ELSE w
           r == RewriteCopied(v)
           l == [a \in Area |-> Recopied(r, i.l1[a])]
           k == [WriteTable(Alloc(r), Lowest(r), Blank)
                   EXCEPT !.snaps = Saved(@, n, [at |-> Lowest(r), l1 |-> l])]
           z == RewriteList(k)
<1>0. /\ Sound(i, i.snaps) /\ i \in ImageType /\ i.l1 \in L1Type /\ i.snaps \in SnapsType
      /\ IsFiniteSet(DOMAIN i.snaps) /\ i.l1 \in Layers(i, i.snaps)
    BY FieldTypes DEF Whole, Sound, Layers
<1>1. WalkEffect(i, i.l1, 1, w)  BY <1>0, WalkFacts
<1> HIDE DEF w
<1>2. Sound(w, m) /\ w.snaps = i.snaps  BY <1>0, <1>1, RaisedSound DEF WalkEffect
<1>3. Cardinality(Free(w)) >= 3
  <2>1. \A h \in Host : i.rc[h] = 0 => w.rc[h] = 0  BY <1>0, <1>1, RaisedSpare
  <2>2. 3 \in Nat  BY SMT
  <2> QED BY <2>1, <2>2, SpareSame
<1> HIDE DEF m
<1>4. /\ IF running THEN PunchEffect(w, m, CowL2(w, "state"), v) ELSE v = w
      /\ Sound(v, m) /\ v.snaps = i.snaps /\ Cardinality(Free(v)) >= 2
  <2>1. CASE ~running
    <3>1. Cardinality(Free(w)) >= 2  BY <1>3, FreeCount, SMT
    <3> QED BY <1>2, <2>1, <3>1
  <2>2. CASE running
    <3>1. Free(w) # {}  BY <1>3, SpareOne, SMT
    <3>2. v = Punch(w)  BY <2>2
    <3> HIDE DEF v
    <3>3. PunchEffect(w, m, CowL2(w, "state"), v)  BY <1>2, <3>1, <3>2, PunchFacts
    <3>4. Sound(v, m) /\ v.snaps = i.snaps  BY <1>2, <3>3, PunchSound
    <3>5. Cardinality(Free(v)) >= 2
      <4>1. 2 \in Nat /\ Cardinality(Free(w)) >= 2 + 1  BY <1>3, SMT
      <4> QED BY <3>3, <4>1, PunchSound
    <3> QED BY <2>2, <3>3, <3>4, <3>5
  <2> QED BY <2>1, <2>2
<1> HIDE DEF v
<1>5. RecopiedEffect(v, r)  BY <1>4, RecopiedFacts DEF Sound
<1> HIDE DEF r
<1>6. Sound(r, m) /\ CopiedOK(r)  BY <1>4, <1>5, RecopiedSound
<1>7. r.snaps = i.snaps /\ r.rc = v.rc /\ r \in ImageType  BY <1>4, <1>5 DEF RecopiedEffect
<1>8. Cardinality(Free(r)) >= 2 /\ Free(r) # {}
  <2>1. Free(r) = Free(v)  BY <1>7, SameFree, SMT
  <2>2. Cardinality(Free(r)) >= 2  BY <1>4, <2>1
  <2> QED BY <2>2, SpareOne, SMT
<1>9. l \in L1Type /\ \A a \in Area : l[a].host = i.l1[a].host
  <2>1. \A a \in Area : i.l1[a] \in EntryType  BY <1>0 DEF L1Type
  <2>2. \A a \in Area : Recopied(r, i.l1[a]) \in EntryType  BY <2>1, RecopiedEntry
  <2>3. \A a \in Area : Recopied(r, i.l1[a]).host = i.l1[a].host  BY <2>1, RecopiedEntry, SMT
  <2> QED BY <2>2, <2>3 DEF L1Type
<1> HIDE DEF l
<1>10. KeptEffect(r, n, Lowest(r), l, k)  BY <1>7, <1>8, <1>9, KeptFacts
<1> HIDE DEF k
<1>11. Sound(k, k.snaps) /\ CopiedOK(k)
  <2>1. Sound(r, Saved(r.snaps, n, [at |-> 0, l1 |-> i.l1]))  BY <1>6, <1>7 DEF m
  <2>2. n \notin DOMAIN r.snaps /\ r.snaps \in SnapsType /\ IsFiniteSet(DOMAIN r.snaps)
    BY <1>0, <1>7
  <2> QED BY <1>0, <1>6, <1>9, <1>10, <2>1, <2>2, KeptSound
<1>12. Free(k) # {}
  <2>1. Lowest(r) \in Host /\ \A h \in Host : k.rc[h] = IF h = Lowest(r) THEN 1 ELSE r.rc[h]
    BY <1>10 DEF KeptEffect
  <2>2. \A h \in Host : h # Lowest(r) /\ r.rc[h] = 0 => k.rc[h] = 0  BY <2>1
  <2> QED BY <1>8, <2>2, SpareLess
<1>13. \E p : ListEffect(k, p, z)  BY <1>11, <1>12, ListFacts
<1> HIDE DEF z
<1>14. Sound(z, z.snaps) /\ CopiedOK(z)
  <2>1. PICK p : ListEffect(k, p, z)  BY <1>13
  <2>2. z.snaps = k.snaps  BY <2>1 DEF ListEffect
  <2> QED BY <1>11, <2>1, <2>2, ListSound
<1>15. CreateChain(i, n, running, w, v, r, k, z)
    BY <1>1, <1>2, <1>4, <1>5, <1>6, <1>10, <1>11, <1>13, <1>14 DEF CreateChain, m, l
<1> QED BY <1>15 DEF z, k, l, r, v, w

\* The image snapshot_apply_impl makes before it rewrites the copied bits: the
\* snapshot's layer is active, every table and cluster is as it was.
AppliedEffect(i, n, x) ==
    /\ Sound(x, i.snaps) /\ x.l1 = i.snaps[n].l1
    /\ x.flushed = i.flushed /\ x.table = i.table /\ x.data = i.data
    /\ x.snaps = i.snaps /\ x.list = i.list
    /\ \A h \in Host : Table(x, h) = Table(i, h)

\* An image with another active L1 table.
LEMMA L1Field ==
    ASSUME NEW i \in ImageType, NEW l \in L1Type
    PROVE  LET j == [i EXCEPT !.l1 = l]
           IN  /\ j \in ImageType /\ j.l1 = l
               /\ j.list = i.list /\ j.rc = i.rc /\ j.cache = i.cache /\ j.flushed = i.flushed
               /\ j.table = i.table /\ j.data = i.data /\ j.snaps = i.snaps
BY Zenon DEF ImageType

\* snapshot_apply_impl: the counts follow the layer that is now active.
LEMMA ApplyFacts ==
    ASSUME NEW i, Sound(i, i.snaps), NEW n \in DOMAIN i.snaps
    PROVE  AppliedEffect(i, n, [Walk(Walk(i, i.snaps[n].l1, 1), i.l1, -1)
                                  EXCEPT !.l1 = i.snaps[n].l1])
<1> USE Zenon
<1> DEFINE sn == i.snaps
           l == sn[n].l1
           u == Walk(i, l, 1)
           d == Walk(u, i.l1, -1)
           x == [d EXCEPT !.l1 = l]
<1>0. /\ i \in ImageType /\ i.l1 \in L1Type /\ sn \in SnapsType /\ IsFiniteSet(DOMAIN sn)
      /\ i.rc \in [Host -> Int] /\ Coherent(i) /\ Balanced(i, sn)
    BY FieldTypes DEF Sound
<1>1. l \in L1Type /\ i.l1 \in Layers(i, sn) /\ l \in Layers(i, sn)
    BY <1>0, SnapFacts DEF Layers
<1> HIDE DEF sn, l
<1>2. WalkEffect(i, l, 1, u)  BY <1>0, <1>1, WalkFacts
<1> HIDE DEF u
<1>3. /\ u \in ImageType /\ u.flushed = i.flushed /\ u.table = i.table
      /\ u.data = i.data /\ u.snaps = i.snaps /\ u.list = i.list
      /\ DOMAIN u.cache = DOMAIN i.cache \union Tables(l)
      /\ \A h \in Host : u.rc[h] = i.rc[h] + 1 * Refs(i, l, h)
      /\ \A h \in Host : Table(u, h) = Table(i, h)
      /\ Coherent(u)
    BY <1>0, <1>2 DEF WalkEffect
<1>4. WalkEffect(u, i.l1, -1, d)  BY <1>0, <1>3, WalkFacts
<1> HIDE DEF d
<1>5. /\ d \in ImageType /\ d.flushed = u.flushed /\ d.table = u.table
      /\ d.data = u.data /\ d.snaps = u.snaps /\ d.list = u.list
      /\ DOMAIN d.cache = DOMAIN u.cache \union Tables(i.l1)
      /\ \A h \in Host : d.rc[h] = u.rc[h] + (-1) * Refs(u, i.l1, h)
      /\ \A h \in Host : Table(d, h) = Table(u, h)
      /\ Coherent(d)
    BY <1>3, <1>4 DEF WalkEffect
<1>6. /\ x \in ImageType /\ x.l1 = l
      /\ x.list = d.list /\ x.rc = d.rc /\ x.cache = d.cache /\ x.flushed = d.flushed
      /\ x.table = d.table /\ x.data = d.data /\ x.snaps = d.snaps
    BY <1>1, <1>5, L1Field
<1> HIDE DEF x
<1>7. (\A h \in Host : Table(x, h) = Table(d, h)) /\ Coherent(x)
    BY <1>5, <1>6 DEF Table, Coherent
<1>8. /\ x.list = i.list /\ x.flushed = i.flushed /\ x.table = i.table /\ x.data = i.data
      /\ x.snaps = i.snaps /\ \A h \in Host : Table(x, h) = Table(i, h)
    BY <1>3, <1>5, <1>6, <1>7
<1>9. \A k \in Layers(x, sn) : k \in Layers(i, sn)  BY <1>1, <1>6 DEF Layers
<1>10. \A h \in DOMAIN x.cache :
          h \in DOMAIN i.cache \/ \E k \in Layers(i, sn), a \in Area : k[a].host = h
    BY <1>0, <1>1, <1>3, <1>5, <1>6, TablesOf
<1>11. Sound(i, sn)  BY DEF sn
<1>12. SameLayers(i, sn, x, sn)  BY <1>8, <1>9, <1>10, <1>11, ShareLayers
<1>13. \A k \in Layers(i, sn), v \in Position : Target(x, k, v) = Target(i, k, v)
    BY <1>12, LayerTargets, SMT
<1>14. \A v \in Position : Target(u, i.l1, v) = Target(i, i.l1, v)
  <2> SUFFICES ASSUME NEW v \in Position PROVE Target(u, i.l1, v) = Target(i, i.l1, v)  OBVIOUS
  <2>1. v[1] \in Area /\ (i.l1[v[1]].host # 0 => i.l1[v[1]].host \in Host)
    BY <1>0, Positions, EntryHost
  <2> QED BY <1>3, <2>1 DEF Target
<1>15. Balanced(x, sn)
  <2> SUFFICES ASSUME NEW h \in Host
               PROVE  x.rc[h] = Refs(x, x.l1, h) + Held(x, sn, h) + (IF x.list = h THEN 1 ELSE 0)
    BY DEF Balanced
  <2>1. Refs(x, l, h) = Refs(i, l, h)  BY <1>1, <1>13, SameRefs, SMT
  <2>2. Refs(u, i.l1, h) = Refs(i, i.l1, h)  BY <1>14, SameRefs, SMT
  <2>3. Held(x, sn, h) = Held(i, sn, h)
    <3>1. \A k \in DOMAIN sn, v \in Position : Target(x, sn[k].l1, v) = Target(i, sn[k].l1, v)
      BY <1>13 DEF Layers
    <3> QED BY <3>1, SameHeld, SMT
  <2>4. i.rc[h] = Refs(i, i.l1, h) + Held(i, sn, h) + (IF i.list = h THEN 1 ELSE 0)
    BY <1>0 DEF Balanced
  <2>5. Refs(i, i.l1, h) \in Nat /\ Refs(i, l, h) \in Nat /\ Held(i, sn, h) \in Nat
    BY <1>0, RefsType, HeldType
  <2>6. /\ x.rc[h] = u.rc[h] + (-1) * Refs(u, i.l1, h)
        /\ u.rc[h] = i.rc[h] + 1 * Refs(i, l, h)
    BY <1>3, <1>5, <1>6
  <2> QED BY <1>6, <1>8, <2>1, <2>2, <2>3, <2>4, <2>5, <2>6, SMT
<1>16. Sound(x, sn)  BY <1>0, <1>6, <1>7, <1>11, <1>12, <1>15, LayersSound
<1>17. AppliedEffect(i, n, x)  BY <1>6, <1>8, <1>16 DEF AppliedEffect, sn, l
<1> QED BY <1>17 DEF x, d, u, l, sn

-------------------------------------------------------------------------------
\* The image snapshot_delete_impl makes before it rewrites the snapshot list.
GoneEffect(i, n, x) ==
    /\ Sound(x, x.snaps)
    /\ DOMAIN x.snaps = (DOMAIN i.snaps) \ {n} /\ \A k \in DOMAIN x.snaps : x.snaps[k] = i.snaps[k]
    /\ x.l1 = i.l1 /\ x.flushed = i.flushed /\ x.table = i.table /\ x.data = i.data
    /\ x.list = i.list
    /\ \A h \in Host : Table(x, h) = Table(i, h)
    /\ \A h \in Host : i.rc[h] = 0 => x.rc[h] = 0

\* snapshot_delete_impl: the references of the snapshot leave with it.
LEMMA GoneFacts ==
    ASSUME NEW i, Sound(i, i.snaps), NEW n \in DOMAIN i.snaps
    PROVE  GoneEffect(i, n, [Dec(Walk(i, i.snaps[n].l1, -1), i.snaps[n].at)
                               EXCEPT !.snaps = Restrict(@, DOMAIN @ \ {n})])
<1> USE Zenon
<1> DEFINE sn == i.snaps
           l == sn[n].l1
           p == sn[n].at
           g == Walk(i, l, -1)
           d == Dec(g, p)
           m == Restrict(d.snaps, DOMAIN d.snaps \ {n})
           x == [d EXCEPT !.snaps = Restrict(@, DOMAIN @ \ {n})]
<1>0. /\ i \in ImageType /\ i.l1 \in L1Type /\ sn \in SnapsType /\ IsFiniteSet(DOMAIN sn)
      /\ i.rc \in [Host -> Int] /\ Coherent(i) /\ Balanced(i, sn)
    BY FieldTypes DEF Sound
<1>1. /\ l \in L1Type /\ p \in 0 .. HostClusters
      /\ i.l1 \in Layers(i, sn) /\ l \in Layers(i, sn) /\ n \in DOMAIN sn
    BY <1>0, SnapFacts DEF Layers
<1>2. Sound(i, sn)  OBVIOUS
<1>3. l = sn[n].l1 /\ p = sn[n].at /\ sn = i.snaps  OBVIOUS
<1> HIDE DEF sn, l, p
<1>4. WalkEffect(i, l, -1, g)  BY <1>0, <1>1, WalkFacts
<1> HIDE DEF g
<1>5. /\ g \in ImageType /\ g.l1 = i.l1 /\ g.flushed = i.flushed /\ g.table = i.table
      /\ g.data = i.data /\ g.snaps = i.snaps /\ g.list = i.list
      /\ DOMAIN g.cache = DOMAIN i.cache \union Tables(l)
      /\ \A h \in Host : g.rc[h] = i.rc[h] + (-1) * Refs(i, l, h)
      /\ \A h \in Host : Table(g, h) = Table(i, h)
      /\ Coherent(g)
    BY <1>0, <1>4 DEF WalkEffect
<1>6. DecEffect(g, p, d)  BY <1>1, <1>5, DecFacts
<1>7. x = [d EXCEPT !.snaps = m]
  <2>1. d \in ImageType  BY <1>6 DEF DecEffect
  <2> HIDE DEF d
  <2> QED BY <2>1 DEF ImageType
<1> HIDE DEF d, x
<1>8. /\ d \in ImageType /\ d.l1 = g.l1 /\ d.cache = g.cache /\ d.flushed = g.flushed
      /\ d.table = g.table /\ d.data = g.data /\ d.snaps = g.snaps /\ d.list = g.list
      /\ \A h \in Host : d.rc[h] = IF h = p THEN g.rc[h] - 1 ELSE g.rc[h]
      /\ \A h \in Host : Table(d, h) = Table(g, h)
      /\ Coherent(d)
    BY <1>5, <1>6 DEF DecEffect
<1>9. d.snaps = sn  BY <1>3, <1>5, <1>8
<1>10. /\ DOMAIN m = (DOMAIN sn) \ {n} /\ \A k \in DOMAIN m : m[k] = sn[k]
    BY <1>9 DEF Restrict
<1>11. m \in SnapsType
  <2> DEFINE D == (DOMAIN sn) \ {n}
  <2>1. D \in SUBSET Name /\ \A k \in D : sn[k] \in [at : 0 .. HostClusters, l1 : L1Type]
    BY <1>0, SnapFacts
  <2>2. m = [k \in D |-> sn[k]]
    <3>1. DOMAIN sn \cap D = D  OBVIOUS
    <3> QED BY <1>9, <3>1 DEF Restrict
  <2>3. m \in [D -> [at : 0 .. HostClusters, l1 : L1Type]]  BY <2>1, <2>2
  <2> QED BY <2>1, <2>3 DEF SnapsType
<1> HIDE DEF m
<1>12. /\ x \in ImageType /\ x.snaps = m /\ x.l1 = d.l1
       /\ x.list = d.list /\ x.rc = d.rc /\ x.cache = d.cache /\ x.flushed = d.flushed
       /\ x.table = d.table /\ x.data = d.data
    BY <1>7, <1>8, <1>11, SnapsField
<1>13. (\A h \in Host : Table(x, h) = Table(d, h)) /\ Coherent(x)
    BY <1>8, <1>12 DEF Table, Coherent
<1>14. /\ x.l1 = i.l1 /\ x.list = i.list /\ x.flushed = i.flushed /\ x.table = i.table
       /\ x.data = i.data /\ \A h \in Host : Table(x, h) = Table(i, h)
    BY <1>5, <1>8, <1>12, <1>13
<1>15. \A k \in Layers(x, m) : k \in Layers(i, sn)
  <2> SUFFICES ASSUME NEW k \in Layers(x, m) PROVE k \in Layers(i, sn)  OBVIOUS
  <2>1. k = i.l1 \/ \E y \in DOMAIN m : k = m[y].l1  BY <1>14 DEF Layers
  <2>2. ASSUME NEW y \in DOMAIN m, k = m[y].l1 PROVE k \in Layers(i, sn)
    <3>1. y \in DOMAIN sn /\ k = sn[y].l1  BY <1>10, <2>2
    <3> QED BY <3>1 DEF Layers
  <2> QED BY <1>1, <2>1, <2>2
<1>16. \A h \in DOMAIN x.cache :
          h \in DOMAIN i.cache \/ \E k \in Layers(i, sn), a \in Area : k[a].host = h
  <2>1. DOMAIN x.cache = DOMAIN i.cache \union Tables(l)
    <3>1. x.cache = g.cache  BY <1>8, <1>12
    <3> QED BY <1>5, <3>1
  <2> QED BY <1>1, <2>1, TablesOf
<1>17. SameLayers(i, sn, x, m)  BY <1>2, <1>14, <1>15, <1>16, ShareLayers
<1>18. \A k \in Layers(i, sn), v \in Position : Target(x, k, v) = Target(i, k, v)
    BY <1>17, LayerTargets, SMT
<1>19. IsFiniteSet(DOMAIN m)
  <2>1. DOMAIN m \subseteq DOMAIN sn  BY <1>10
  <2> QED BY <1>0, <2>1, FS_Subset
<1>20. ASSUME NEW h \in Host
       PROVE  x.rc[h] = Refs(x, x.l1, h) + Held(x, m, h) + (IF x.list = h THEN 1 ELSE 0)
  <2>1. Refs(x, i.l1, h) = Refs(i, i.l1, h)  BY <1>1, <1>18, SameRefs, SMT
  <2>2. Held(x, m, h) = Held(i, m, h)
    <3>1. \A k \in DOMAIN m, v \in Position : Target(x, m[k].l1, v) = Target(i, m[k].l1, v)
      <4> SUFFICES ASSUME NEW k \in DOMAIN m, NEW v \in Position
                   PROVE  Target(x, m[k].l1, v) = Target(i, m[k].l1, v)
        OBVIOUS
      <4>1. k \in DOMAIN sn /\ m[k].l1 = sn[k].l1  BY <1>10
      <4>2. m[k].l1 \in Layers(i, sn)  BY <4>1 DEF Layers
      <4> QED BY <1>18, <4>2
    <3> QED BY <3>1, SameHeld, SMT
  <2>3. Held(i, sn, h) = Held(i, m, h) + Refs(i, l, h) + (IF p = h THEN 1 ELSE 0)
    <3>1. n \notin DOMAIN m /\ DOMAIN sn = DOMAIN m \union {n}  BY <1>1, <1>10
    <3>2. \A k \in DOMAIN m : sn[k] = m[k]  BY <1>10
    <3>3. HeldMore(i, m, sn, n, h)  BY <1>19, <3>1, <3>2, OneMoreHeld
    <3> QED BY <1>3, <3>3 DEF HeldMore
  <2>4. i.rc[h] = Refs(i, i.l1, h) + Held(i, sn, h) + (IF i.list = h THEN 1 ELSE 0)
    BY <1>0 DEF Balanced
  <2>5. /\ Refs(i, i.l1, h) \in Nat /\ Refs(i, l, h) \in Nat
        /\ Held(i, sn, h) \in Nat /\ Held(i, m, h) \in Nat
    BY <1>0, <1>19, RefsType, HeldType
  <2>6. x.rc[h] = (IF h = p THEN g.rc[h] - 1 ELSE g.rc[h])  BY <1>8, <1>12
  <2>7. g.rc[h] = i.rc[h] + (-1) * Refs(i, l, h)  BY <1>5
  <2> QED BY <1>14, <2>1, <2>2, <2>3, <2>4, <2>5, <2>6, <2>7, SMT
<1>21. Balanced(x, m)  BY <1>20 DEF Balanced
<1>22. Sound(x, m)  BY <1>2, <1>11, <1>12, <1>13, <1>17, <1>19, <1>21, LayersSound
<1>23. ASSUME NEW h \in Host, i.rc[h] = 0 PROVE x.rc[h] = 0
  <2>1. NotUsed(i, sn, h)  BY <1>2, <1>23, FreeNoTable
  <2>2. p # h  BY <1>1, <1>3, <2>1 DEF NotUsed
  <2>3. g.rc[h] = 0  BY <1>1, <1>2, <1>4, <1>23, RaisedSpare
  <2> QED BY <1>8, <1>12, <2>2, <2>3
<1>24. GoneEffect(i, n, x)
  <2>1. Sound(x, x.snaps)  BY <1>12, <1>22
  <2>2. DOMAIN x.snaps = (DOMAIN i.snaps) \ {n} /\ \A k \in DOMAIN x.snaps : x.snaps[k] = i.snaps[k]
    BY <1>3, <1>10, <1>12
  <2> QED BY <1>14, <1>23, <2>1, <2>2 DEF GoneEffect
<1> QED BY <1>24 DEF x, d, g, p, l, sn

-------------------------------------------------------------------------------
(* The invariant. *)

\* The image is whole: what is in memory and what a crash would leave in the file.
IInv == trimmed \in SUBSET Slot /\ Whole(img, trimmed)

\* Taking, applying and deleting a snapshot leave the image whole.
LEMMA SnapshotKeeps ==
    ASSUME NEW i, NEW T, Whole(i, T)
    PROVE  /\ \A n \in Name \ DOMAIN i.snaps, running \in BOOLEAN :
                 Cardinality(Free(i)) >= 3 =>
                    LET shared == Walk(i, i.l1, 1)
                        active == RewriteCopied(IF running THEN Punch(shared) ELSE shared)
                        l1 == [a \in Area |-> Recopied(active, i.l1[a])]
                        at == Lowest(active)
                        kept == [WriteTable(Alloc(active), at, Blank)
                                   EXCEPT !.snaps = Saved(@, n, [at |-> at, l1 |-> l1])]
                    IN  Whole(FlushMetadata(RewriteList(kept)), {})
           /\ \A n \in DOMAIN i.snaps :
                 LET raised == Walk(i, i.snaps[n].l1, 1)
                     lowered == Walk(raised, i.l1, -1)
                 IN  Whole(FlushMetadata(RewriteCopied([lowered EXCEPT !.l1 = i.snaps[n].l1])), {})
           /\ \A n \in DOMAIN i.snaps :
                 Cardinality(Free(i)) >= (IF DOMAIN i.snaps = {n} THEN 0 ELSE 1) =>
                    LET lowered == Dec(Walk(i, i.snaps[n].l1, -1), i.snaps[n].at)
                        gone == [lowered EXCEPT !.snaps = Restrict(@, DOMAIN @ \ {n})]
                    IN  Whole(FlushMetadata(RewriteCopied(RewriteList(gone))), {})
<1> USE Zenon
<1>0. Sound(i, i.snaps)  BY DEF Whole
<1>1. ASSUME NEW n \in Name \ DOMAIN i.snaps, NEW running \in BOOLEAN,
             Cardinality(Free(i)) >= 3
      PROVE  LET shared == Walk(i, i.l1, 1)
                 active == RewriteCopied(IF running THEN Punch(shared) ELSE shared)
                 l1 == [a \in Area |-> Recopied(active, i.l1[a])]
                 at == Lowest(active)
                 kept == [WriteTable(Alloc(active), at, Blank)
                            EXCEPT !.snaps = Saved(@, n, [at |-> at, l1 |-> l1])]
             IN  Whole(FlushMetadata(RewriteList(kept)), {})
  <2> DEFINE w == Walk(i, i.l1, 1)
             v == IF running THEN Punch(w) ELSE w
             r == RewriteCopied(v)
             k == [WriteTable(Alloc(r), Lowest(r), Blank)
                     EXCEPT !.snaps = Saved(@, n, [at |-> Lowest(r),
                                                   l1 |-> [a \in Area |-> Recopied(r, i.l1[a])]])]
             z == RewriteList(k)
  <2>1. CreateChain(i, n, running, w, v, r, k, z)  BY <1>1, CreateFacts
  <2> HIDE DEF z
  <2>2. Sound(z, z.snaps) /\ CopiedOK(z)  BY <2>1 DEF CreateChain
  <2>3. Whole(FlushMetadata(z), {})  BY <2>2, FlushKeeps
  <2> QED BY <2>3 DEF z
<1>2. ASSUME NEW n \in DOMAIN i.snaps
      PROVE  LET raised == Walk(i, i.snaps[n].l1, 1)
                 lowered == Walk(raised, i.l1, -1)
             IN  Whole(FlushMetadata(RewriteCopied([lowered EXCEPT !.l1 = i.snaps[n].l1])), {})
  <2> DEFINE x == [Walk(Walk(i, i.snaps[n].l1, 1), i.l1, -1) EXCEPT !.l1 = i.snaps[n].l1]
             r == RewriteCopied(x)
  <2>1. AppliedEffect(i, n, x)  BY <1>0, ApplyFacts
  <2> HIDE DEF x
  <2>2. Sound(x, x.snaps)  BY <2>1 DEF AppliedEffect
  <2>3. RecopiedEffect(x, r)  BY <2>2, RecopiedFacts DEF Sound
  <2> HIDE DEF r
  <2>4. Sound(r, x.snaps) /\ CopiedOK(r)  BY <2>2, <2>3, RecopiedSound
  <2>5. r.snaps = x.snaps  BY <2>3 DEF RecopiedEffect
  <2>6. Whole(FlushMetadata(r), {})  BY <2>4, <2>5, FlushKeeps
  <2> QED BY <2>6 DEF r, x
<1>3. ASSUME NEW n \in DOMAIN i.snaps,
             Cardinality(Free(i)) >= (IF DOMAIN i.snaps = {n} THEN 0 ELSE 1)
      PROVE  LET lowered == Dec(Walk(i, i.snaps[n].l1, -1), i.snaps[n].at)
                 gone == [lowered EXCEPT !.snaps = Restrict(@, DOMAIN @ \ {n})]
             IN  Whole(FlushMetadata(RewriteCopied(RewriteList(gone))), {})
  <2> DEFINE x == [Dec(Walk(i, i.snaps[n].l1, -1), i.snaps[n].at)
                     EXCEPT !.snaps = Restrict(@, DOMAIN @ \ {n})]
             z == RewriteList(x)
             r == RewriteCopied(z)
  <2>1. GoneEffect(i, n, x)  BY <1>0, GoneFacts
  <2> HIDE DEF x
  <2>2. /\ Sound(x, x.snaps) /\ DOMAIN x.snaps = (DOMAIN i.snaps) \ {n}
        /\ \A h \in Host : i.rc[h] = 0 => x.rc[h] = 0
    BY <2>1 DEF GoneEffect
  <2>3. DOMAIN x.snaps # {} => Free(x) # {}
    <3> SUFFICES ASSUME DOMAIN x.snaps # {} PROVE Free(x) # {}  OBVIOUS
    <3>1. DOMAIN i.snaps # {n}  BY <2>2
    <3>2. Cardinality(Free(i)) >= 1  BY <1>3, <3>1
    <3>3. Free(i) # {}  BY <3>2, SpareOne, SMT
    <3> QED BY <2>2, <3>3 DEF Free
  <2>4. \E p : ListEffect(x, p, z)  BY <2>2, <2>3, ListFacts
  <2> HIDE DEF z
  <2>5. PICK p : ListEffect(x, p, z)  BY <2>4
  <2>6. Sound(z, x.snaps)  BY <2>2, <2>5, ListSound
  <2>7. z.snaps = x.snaps  BY <2>5 DEF ListEffect
  <2>8. RecopiedEffect(z, r)  BY <2>6, RecopiedFacts DEF Sound
  <2> HIDE DEF r
  <2>9. Sound(r, x.snaps) /\ CopiedOK(r)  BY <2>6, <2>8, RecopiedSound
  <2>10. r.snaps = x.snaps  BY <2>7, <2>8 DEF RecopiedEffect
  <2>11. Whole(FlushMetadata(r), {})  BY <2>9, <2>10, FlushKeeps
  <2> QED BY <2>11 DEF r, z, x
<1> QED BY <1>1, <1>2, <1>3

\* A new image is whole.
LEMMA InitWhole == ASSUME Init PROVE IInv
<1> USE Zenon
<1> DEFINE none == <<>>
           l == [a \in Area |-> Unallocated]
           r == [h \in Host |-> 0]
           f == [l1 |-> l, rc |-> r]
           t == [h \in Host |-> Blank]
           d == [h \in Host |-> JunkCluster]
           i == [l1 |-> l, rc |-> r, cache |-> none, flushed |-> f, table |-> t, data |-> d,
                 snaps |-> none, list |-> 0]
<1>1. img = i /\ trimmed = {}  BY DEF Init
<1>2. /\ none \in [{} -> [entries : TableType, dirty : BOOLEAN]] /\ DOMAIN none = {}
      /\ none \in [{} -> [at : 0 .. HostClusters, l1 : L1Type]]
    BY SMT
<1>3. Unallocated \in EntryType /\ Unallocated.host = 0 /\ ~Unallocated.copied
    BY HostRange DEF Unallocated, EntryType
<1>4. /\ l \in L1Type /\ \A a \in Area : l[a].host = 0
    BY <1>3 DEF L1Type
<1>5. r \in [Host -> Int] /\ \A h \in Host : r[h] = 0
  <2>1. 0 \in Int  BY SMT
  <2> QED BY <2>1
<1>6. t \in [Host -> TableType]  BY <1>3 DEF TableType, Blank
<1>7. d \in [Host -> ClusterType]
  <2>1. Junk \in Readable  BY DEF Readable
  <2> QED BY <2>1 DEF ClusterType, JunkCluster
<1>8. none \in CacheType /\ none \in SnapsType
  <2>1. {} \in SUBSET Name  OBVIOUS
  <2> HIDE DEF none
  <2>2. none \in CacheType  BY <1>2, CacheIntro
  <2> QED BY <1>2, <2>1, <2>2 DEF SnapsType
<1>9. f \in [l1 : L1Type, rc : [Host -> Int]] /\ f.l1 = l /\ f.rc = r  BY <1>4, <1>5
<1> HIDE DEF none, l, r, f, t, d
<1>10. /\ i \in ImageType /\ i.l1 = l /\ i.rc = r /\ i.cache = none /\ i.flushed = f
       /\ i.table = t /\ i.snaps = none /\ i.list = 0
    BY <1>4, <1>5, <1>6, <1>7, <1>8, <1>9, HostRange DEF ImageType
<1> HIDE DEF i
<1>11. \A k \in Layers(i, none) : k = l  BY <1>2, <1>10 DEF Layers
<1>12. \A u \in Position : Target(i, l, u) = 0  BY <1>4, Positions DEF Target
<1>13. Balanced(i, none)
  <2> SUFFICES ASSUME NEW h \in Host
               PROVE  i.rc[h] = Refs(i, i.l1, h) + Held(i, none, h) + (IF i.list = h THEN 1 ELSE 0)
    BY DEF Balanced
  <2>1. h # 0  BY HostRange
  <2> DEFINE R == {u \in Position : Target(i, l, u) = h}
             S == {x \in (DOMAIN none) \X Position : Target(i, none[x[1]].l1, x[2]) = h}
             A == {n \in DOMAIN none : none[n].at = h}
  <2>2. R = {}  BY <1>12, <2>1
  <2>3. S = {}  BY <1>2
  <2>4. A = {}  BY <1>2
  <2>5. Refs(i, l, h) = Cardinality(R) /\ Held(i, none, h) = Cardinality(S) + Cardinality(A)
    BY DEF Refs, Held
  <2> HIDE DEF R, S, A
  <2>6. Cardinality(R) = 0 /\ Cardinality(S) = 0 /\ Cardinality(A) = 0
    BY <2>2, <2>3, <2>4, FS_EmptySet
  <2>7. i.rc[h] = 0 /\ i.list # h /\ i.l1 = l  BY <1>5, <1>10, <2>1
  <2> QED BY <2>5, <2>6, <2>7, SMT
<1>14. Placed(i, none)  BY <1>11, <1>12 DEF Placed
<1>15. Coherent(i) /\ OnlyTables(i, none)  BY <1>2, <1>10 DEF Coherent, OnlyTables
<1>16. Sound(i, none)
  <2>1. IsFiniteSet(DOMAIN none)  BY <1>2, FS_EmptySet
  <2> QED BY <1>8, <1>10, <1>13, <1>14, <1>15, <2>1 DEF Sound
<1>17. CopiedOK(i)  BY <1>4, <1>10 DEF CopiedOK
<1>18. \A h \in Host : i.table[h] = Table(i, h)  BY <1>2, <1>10 DEF Table
<1>19. Whole(i, {})  BY <1>9, <1>10, <1>16, <1>17, <1>18, InStepWhole
<1> QED BY <1>1, <1>19 DEF IInv

\* Every operation, and a crash, leaves the image whole.
LEMMA StepWhole == ASSUME IInv, Next PROVE IInv'
<1> USE Zenon
<1>0. trimmed \in SUBSET Slot /\ Whole(img, trimmed)  BY DEF IInv
<1> DEFINE Kept == trimmed' \in SUBSET Slot /\ Whole(img', trimmed')
<1>1. SUFFICES Kept  BY DEF IInv
<1>2. ASSUME NEW a \in Area, Read(a) PROVE Kept
  <2>1. /\ img.l1[a].host # 0 /\ img' = Load(img, {img.l1[a].host}) /\ trimmed' = trimmed
    BY <1>2 DEF Read, Becomes
  <2> QED BY <1>0, <2>1, LoadKeeps
<1>3. ASSUME NEW w \in Writes, Write(w[1], w[2], w[3], w[4]) PROVE Kept
  <2> DEFINE a == w[1]  s == w[2]  j == OwnL2(img, a)  k == WriteBytes(img, a, s, w[3], w[4])
  <2>1. /\ a \in Area /\ s \in Slot /\ w[4] \in Value /\ {a} \X {s} \X Half \subseteq Sector
    <3>1. w \in Area \X Slot \X (SUBSET Half) \X Value /\ {w[1]} \X {w[2]} \X Half \subseteq Sector
      BY CallAssumption
    <3>2. w[1] \in Area /\ w[2] \in Slot /\ w[4] \in Value  BY <3>1, SMT
    <3> QED BY <3>1, <3>2
  <2>2. Cardinality(Free(img)) >= 2 /\ img' = k /\ trimmed' = trimmed
    BY <1>3 DEF Write, Room, Becomes
  <2>3. WriteEffect(img, trimmed, a, s, w[3], w[4], j, k)  BY <1>0, <2>1, <2>2, WriteFacts
  <2> HIDE DEF j, k
  <2>4. Whole(j, trimmed) /\ WriteTo(j, a, s, NewCluster(j, a, s, w[3], w[4]), k)
    BY <2>3 DEF WriteEffect
  <2>5. Whole(k, trimmed)  BY <1>0, <2>1, <2>4, WriteKeeps
  <2> QED BY <1>0, <2>2, <2>5
<1>4. ASSUME NEW s \in Discards, Discard(s) PROVE Kept
  <2> DEFINE j == CowL2(img, "disk")  k == DiscardCluster(img, s)
  <2>1. s \in Slot  BY CallAssumption
  <2>2. Cardinality(Free(img)) >= 1 /\ img' = k /\ trimmed' = trimmed \union {s}
    BY <1>4 DEF Discard, Room, Becomes
  <2>3. DiscardEffect(img, trimmed, s, j, k)  BY <1>0, <2>1, <2>2, DiscardFacts
  <2> HIDE DEF j, k
  <2>4. Whole(k, trimmed \union {s})  BY <1>0, <2>1, <2>3, DiscardKeeps
  <2> QED BY <1>0, <2>1, <2>2, <2>4
<1>5. ASSUME Flush PROVE Kept
  <2>1. img' = FlushMetadata(img) /\ trimmed' = {}  BY <1>5 DEF Flush, Becomes
  <2>2. Whole(FlushMetadata(img), {})  BY <1>0, FlushKeeps DEF Whole
  <2> QED BY <2>1, <2>2
<1>6. ASSUME Crash PROVE Kept
  <2>1. img' = Reopened(img) /\ trimmed' = {}  BY <1>6 DEF Crash, Becomes
  <2>2. Whole(Reopened(img), {})  BY <1>0, CrashKeeps
  <2> QED BY <2>1, <2>2
<1>7. ASSUME NEW n \in Name, NEW running \in BOOLEAN, SnapshotCreate(n, running) PROVE Kept
  <2>1. n \in Name \ DOMAIN img.snaps /\ Cardinality(Free(img)) >= 3 /\ trimmed' = {}
    BY <1>7 DEF SnapshotCreate, Room
  <2>2. Whole(img', {})
    <3> HIDE DEF Kept
    <3> QED BY <1>0, <1>7, <2>1, SnapshotKeeps DEF SnapshotCreate, Becomes
  <2> QED BY <2>1, <2>2
<1>8. ASSUME NEW n \in Name, SnapshotApply(n) PROVE Kept
  <2>1. n \in DOMAIN img.snaps /\ trimmed' = {}  BY <1>8 DEF SnapshotApply
  <2>2. Whole(img', {})  BY <1>0, <1>8, <2>1, SnapshotKeeps DEF SnapshotApply, Becomes
  <2> QED BY <2>1, <2>2
<1>9. ASSUME NEW n \in Name, SnapshotDelete(n) PROVE Kept
  <2>1. /\ n \in DOMAIN img.snaps /\ trimmed' = {}
        /\ Cardinality(Free(img)) >= (IF DOMAIN img.snaps = {n} THEN 0 ELSE 1)
    BY <1>9 DEF SnapshotDelete, Room
  <2>2. Whole(img', {})  BY <1>0, <1>9, <2>1, SnapshotKeeps DEF SnapshotDelete, Becomes
  <2> QED BY <2>1, <2>2
<1> HIDE DEF Kept
<1> QED BY <1>2, <1>3, <1>4, <1>5, <1>6, <1>7, <1>8, <1>9 DEF Next

\* A step that changes nothing.
LEMMA StutterWhole == ASSUME IInv, UNCHANGED vars PROVE IInv'
BY Zenon DEF IInv, vars

\* The image is whole in every reachable state.
THEOREM Invariance == Spec => []IInv
<1>1. Init => IInv  BY InitWhole
<1>2. IInv /\ [Next]_vars => IInv'  BY StepWhole, StutterWhole
<1> QED BY <1>1, <1>2, PTL DEF Spec

\* Whatever is written, discarded, snapshotted or lost to a crash, every refcount is
\* the number of references, in memory and in the file as a crash would leave it.
THEOREM RefcountsAreExact == Spec => []RefcountsExact
<1>1. IInv => RefcountsExact
  <2> SUFFICES ASSUME IInv PROVE RefcountsExact  OBVIOUS
  <2>1. /\ Balanced(img, img.snaps) /\ img \in ImageType
        /\ Balanced(Reopened(img), img.snaps)
    BY Zenon DEF IInv, Whole, Sound
  <2>2. Reopened(img).snaps = img.snaps
    <3>1. ReopenedEffect(img, Reopened(img))  BY <2>1, ReopenedFacts, Zenon
    <3> QED BY <3>1, Zenon DEF ReopenedEffect
  <2>3. Balanced(Reopened(img), Reopened(img).snaps)  BY <2>1, <2>2, Zenon
  <2> QED BY <2>1, <2>3, Zenon DEF RefcountsExact, Exact, Balanced
<1> QED BY <1>1, Invariance, PTL

\* An entry of the active layer marked copied is its cluster's only reference, so
\* that write_bytes never writes in place what a snapshot still reads.
THEOREM CopiedBitsAreTrue == Spec => []CopiedIsExclusive
<1>1. IInv => CopiedIsExclusive  BY Zenon DEF IInv, Whole, CopiedOK, CopiedIsExclusive
<1> QED BY <1>1, Invariance, PTL

===============================================================================
