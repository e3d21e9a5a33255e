-------------------------------- MODULE Qcow2 ---------------------------------
(***************************************************************************)
(* A qcow2 image with internal snapshots (vmlab-disk, src/qcow2).  The     *)
(* image is a `&mut self': operations follow one another, and the process  *)
(* may die between two of them, losing what has not been flushed.          *)
(*                                                                         *)
(* A cluster holds two sectors, an L2 table two entries.  The L1 table has *)
(* an entry for the disk and one for the saved machine state.  The lowest  *)
(* free host cluster is allocated; the image's header, its active L1 table *)
(* and its refcount structures have clusters of their own.                 *)
(***************************************************************************)
EXTENDS Integers, FiniteSets, FiniteSetsExt, Functions

CONSTANTS
    HostClusters,   \* bound: the clusters the file can grow to
    Name,           \* snapshot names
    Value,          \* what a sector can hold
    Zero,           \* a sector of zeros
    Junk,           \* the bytes of a table, read as a sector
    Backing,        \* what the backing file holds, a value for each disk sector
    Writes,         \* the writes: an area, a cluster of it, its sectors and a value
    Discards        \* the disk clusters that are discarded

ASSUME SizeAssumption == HostClusters \in Nat

Host == 1 .. HostClusters

Slot == 1 .. 2

Half == 1 .. 2

Area == {"disk", "state"}

ASSUME ValueAssumption ==
    /\ Zero \in Value
    /\ Backing \in [Slot -> [Half -> Value]]

\* The sectors a caller can reach: one cluster of machine state is saved.
Sector == ({"disk"} \X Slot \X Half) \union ({"state"} \X {1} \X Half)

ASSUME CallAssumption ==
    /\ \A w \in Writes : /\ w \in Area \X Slot \X (SUBSET Half) \X Value
                         /\ {w[1]} \X {w[2]} \X Half \subseteq Sector
    /\ Discards \subseteq Slot

Readable == Value \union {Junk}

\* read_unallocated
Base == [x \in Sector |-> IF x[1] = "disk" THEN Backing[x[2]][x[3]] ELSE Zero]

Unallocated == [host |-> 0, copied |-> FALSE, zero |-> FALSE]

ZeroFlag == [host |-> 0, copied |-> FALSE, zero |-> TRUE]

Owned(h) == [host |-> h, copied |-> TRUE, zero |-> FALSE]

Blank == [s \in Slot |-> Unallocated]

JunkCluster == [k \in Half |-> Junk]

VARIABLES
    img,            \* the image: its file, and what the process holds in memory
    reads,          \* what the image reads: the disk, the disk after a crash, each snapshot
    trimmed         \* the disk clusters discarded since the last flush

vars == <<img, reads, trimmed>>

\* An L2 table, through the cache.
Table(i, h) == IF h \in DOMAIN i.cache THEN i.cache[h].entries ELSE i.table[h]

\* ReadSource::from_entry
Fill(i, e, x) ==
    CASE e.zero -> Zero
      [] e.host # 0 -> i.data[e.host][x[3]]
      [] OTHER -> Base[x]

\* read_bytes of every sector, through an L1 table.
Contents(i, l1) ==
    [x \in Sector |->
        LET t == l1[x[1]].host
            e == Table(i, t)[x[2]]
        IN  IF t = 0 THEN Base[x] ELSE Fill(i, e, x)]

\* What opening the file finds.
Reopened(i) == [i EXCEPT !.l1 = i.flushed.l1, !.rc = i.flushed.rc, !.cache = <<>>]

Reads(i) ==
    [disk |-> Contents(i, i.l1),
     crashed |-> Contents(Reopened(i), i.flushed.l1),
     saved |-> [n \in Name |->
                  IF n \in DOMAIN i.snaps THEN Contents(i, i.snaps[n].l1) ELSE <<>>]]

\* l1, rc and cache are in memory; flushed, table, data, snaps and list in the file.
Init ==
    /\ img = [l1 |-> [a \in Area |-> Unallocated],
              rc |-> [h \in Host |-> 0],
              cache |-> <<>>,
              flushed |-> [l1 |-> [a \in Area |-> Unallocated], rc |-> [h \in Host |-> 0]],
              table |-> [h \in Host |-> Blank],
              data |-> [h \in Host |-> JunkCluster],
              snaps |-> <<>>,
              list |-> 0]
    /\ reads = Reads(img)
    /\ trimmed = {}
-------------------------------------------------------------------------------
(* Tables, refcounts and allocation: functions from image to image.          *)

\* load_l2
Load(i, hosts) ==
    [i EXCEPT !.cache =
        [h \in DOMAIN @ \union hosts |->
            IF h \in DOMAIN @ THEN @[h] ELSE [entries |-> i.table[h], dirty |-> FALSE]]]

\* set_l2_entry
SetEntry(i, h, s, e) ==
    [Load(i, {h}) EXCEPT !.cache[h] =
        [entries |-> [Table(i, h) EXCEPT ![s] = e], dirty |-> TRUE]]

\* dec_refcount
Dec(i, h) == IF h = 0 THEN i ELSE [i EXCEPT !.rc[h] = @ - 1]

Free(i) == {h \in Host : i.rc[h] = 0}

\* find_free
Lowest(i) == Min(Free(i))

\* Broken variant of Alloc: the cache keeps a table of the cluster's last owner.
Alloc_KeepsCache(i) == [i EXCEPT !.rc[Lowest(i)] = 1]

\* alloc_cluster: a freed cluster may still have a table in the cache.
Alloc(i) ==
    [i EXCEPT !.rc[Lowest(i)] = 1, !.cache = Restrict(@, DOMAIN @ \ {Lowest(i)})]

\* write_file, of a table and of a cluster of data.
WriteTable(i, h, t) == [i EXCEPT !.table[h] = t, !.data[h] = JunkCluster]

WriteData(i, h, d) == [i EXCEPT !.data[h] = d, !.table[h] = Blank]

\* cow_l2_if_shared
CowL2(i, a) ==
    LET h == i.l1[a].host
        n == Lowest(i)
    IN  IF h = 0 THEN i
        ELSE IF i.rc[h] <= 1 THEN i
        ELSE [Dec(WriteTable(Alloc(Load(i, {h})), n, Table(i, h)), h)
                EXCEPT !.l1[a] = Owned(n)]

\* The L2 table write_bytes may change.
OwnL2(i, a) ==
    IF i.l1[a].host = 0
    THEN [WriteTable(Alloc(i), Lowest(i), Blank) EXCEPT !.l1[a] = Owned(Lowest(i))]
    ELSE CowL2(i, a)

\* write_bytes, within one cluster.
WriteBytes(i, a, s, halves, v) ==
    LET j == OwnL2(i, a)
        t == j.l1[a].host
        e == Table(j, t)[s]
        own == e.host # 0 /\ (e.copied \/ j.rc[e.host] = 1)
        new == [k \in Half |-> IF k \in halves THEN v ELSE Fill(j, e, <<a, s, k>>)]
        n == Lowest(j)
    IN  IF own
        THEN [(IF e.copied THEN Load(j, {t}) ELSE SetEntry(j, t, s, Owned(e.host)))
                EXCEPT !.data[e.host] = new]
        ELSE SetEntry(Dec(WriteData(Alloc(Load(j, {t})), n, new), e.host), t, s, Owned(n))

\* Broken variant of DiscardCluster: the data cluster keeps its reference.
DiscardCluster_Leaks(i, s) ==
    LET j == CowL2(i, "disk")
        t == j.l1["disk"].host
    IN  IF t = 0 THEN j ELSE SetEntry(j, t, s, Unallocated)

\* discard, one cluster.
DiscardCluster(i, s) ==
    LET j == CowL2(i, "disk")
        t == j.l1["disk"].host
    IN  IF t = 0 THEN j ELSE SetEntry(Dec(j, Table(j, t)[s].host), t, s, Unallocated)

Tables(l1) == {l1[a].host : a \in Area} \ {0}

\* The cluster a position of a layer refers to, 0 for none: position <<a, 0>> is an
\* entry of the layer's L1 table, <<a, s>> an entry of the L2 table that one names.
Position == Area \X ({0} \union Slot)

Target(i, l1, u) ==
    LET t == l1[u[1]].host
    IN  IF u[2] = 0 THEN t ELSE IF t = 0 THEN 0 ELSE Table(i, t)[u[2]].host

\* How often the clusters under an L1 table refer to h.
Refs(i, l1, h) == Cardinality({u \in Position : Target(i, l1, u) = h})

\* walk_refcounts
Walk(i, l1, delta) ==
    [Load(i, Tables(l1)) EXCEPT !.rc = [h \in Host |-> @[h] + delta * Refs(i, l1, h)]]

\* punch_vmstate
Punch(i) ==
    LET j == CowL2(i, "state")
        t == j.l1["state"].host
        e == Table(j, t)[1]
    IN  IF t = 0 THEN j
        ELSE IF e = Unallocated THEN j
        ELSE SetEntry(Dec(j, e.host), t, 1, ZeroFlag)

\* The copied bit follows the refcount.
Recopied(i, e) == IF e.host = 0 THEN e ELSE [e EXCEPT !.copied = (i.rc[e.host] = 1)]

\* rewrite_active_copied_bits
RewriteCopied(i) ==
    LET j == Load(i, Tables(i.l1))
        fresh(t) == [s \in Slot |-> Recopied(i, t[s])]
    IN  [j EXCEPT
            !.l1 = [a \in Area |-> Recopied(i, @[a])],
            !.cache = [h \in DOMAIN @ |->
                IF h \notin Tables(i.l1) \/ fresh(@[h].entries) = @[h].entries
                THEN @[h]
                ELSE [entries |-> fresh(@[h].entries), dirty |-> TRUE]]]

\* take_dirty
Dirty(i) == {h \in DOMAIN i.cache : i.cache[h].dirty}

\* flush_metadata
FlushMetadata(i) ==
    [i EXCEPT
        !.flushed = [l1 |-> i.l1, rc |-> i.rc],
        !.table = [h \in Host |-> IF h \in Dirty(i) THEN i.cache[h].entries ELSE @[h]],
        !.data = [h \in Host |-> IF h \in Dirty(i) THEN JunkCluster ELSE @[h]],
        !.cache = [h \in DOMAIN @ |-> [@[h] EXCEPT !.dirty = FALSE]]]

\* rewrite_snapshot_table: to a fresh cluster, or to none when it is empty.
RewriteList(i) ==
    IF DOMAIN i.snaps = {}
    THEN [Dec(i, i.list) EXCEPT !.list = 0]
    ELSE [Dec(WriteTable(Alloc(i), Lowest(i), Blank), i.list) EXCEPT !.list = Lowest(i)]
-------------------------------------------------------------------------------
(* The operations.                                                           *)

\* The image is i, and reads as it does.
Becomes(i) == img' = i /\ reads' = Reads(i)

\* Bound: an operation finds the n clusters it may allocate.
Room(n) == Cardinality(Free(img)) >= n

\* A read changes nothing but the cache, when the table is not there yet.
Read(a) ==
    /\ img.l1[a].host \notin DOMAIN img.cache \union {0}
    /\ Becomes(Load(img, {img.l1[a].host}))
    /\ UNCHANGED trimmed

Write(a, s, halves, v) ==
    /\ Room(2)
    /\ Becomes(WriteBytes(img, a, s, halves, v))
    /\ UNCHANGED trimmed

Discard(s) ==
    /\ Room(1)
    /\ Becomes(DiscardCluster(img, s))
    /\ trimmed' = trimmed \union {s}

Flush ==
    /\ Becomes(FlushMetadata(img))
    /\ trimmed' = {}

\* The snapshots, with one more.
Saved(snaps, n, x) == [m \in DOMAIN snaps \union {n} |-> IF m = n THEN x ELSE snaps[m]]

\* Broken variant of SnapshotCreate: the copied bits are not rewritten.
SnapshotCreate_KeepsCopied(n, running) ==
    /\ Room(3)
    /\ n \notin DOMAIN img.snaps
    /\ LET shared == Walk(img, img.l1, 1)
           active == IF running THEN Punch(shared) ELSE shared
           l1 == [a \in Area |-> Recopied(active, img.l1[a])]
           at == Lowest(active)
           kept == [WriteTable(Alloc(active), at, Blank)
                      EXCEPT !.snaps = Saved(@, n, [at |-> at, l1 |-> l1])]
       IN  Becomes(FlushMetadata(RewriteList(kept)))
    /\ trimmed' = {}

\* snapshot_create_impl; a running machine's state is saved with the disk.
SnapshotCreate(n, running) ==
    /\ Room(3)
    /\ n \notin DOMAIN img.snaps
    /\ LET shared == Walk(img, img.l1, 1)
           active == RewriteCopied(IF running THEN Punch(shared) ELSE shared)
           l1 == [a \in Area |-> Recopied(active, img.l1[a])]
           at == Lowest(active)
           kept == [WriteTable(Alloc(active), at, Blank)
                      EXCEPT !.snaps = Saved(@, n, [at |-> at, l1 |-> l1])]
       IN  Becomes(FlushMetadata(RewriteList(kept)))
    /\ trimmed' = {}

\* snapshot_apply_impl
SnapshotApply(n) ==
    /\ n \in DOMAIN img.snaps
    /\ LET raised == Walk(img, img.snaps[n].l1, 1)
           lowered == Walk(raised, img.l1, -1)
       IN  Becomes(FlushMetadata(RewriteCopied([lowered EXCEPT !.l1 = img.snaps[n].l1])))
    /\ trimmed' = {}

\* snapshot_delete_impl
SnapshotDelete(n) ==
    /\ n \in DOMAIN img.snaps
    /\ Room(IF DOMAIN img.snaps = {n} THEN 0 ELSE 1)
    /\ LET lowered == Dec(Walk(img, img.snaps[n].l1, -1), img.snaps[n].at)
           gone == [lowered EXCEPT !.snaps = Restrict(@, DOMAIN @ \ {n})]
       IN  Becomes(FlushMetadata(RewriteCopied(RewriteList(gone))))
    /\ trimmed' = {}

\* The process dies, and the image is opened again.
Crash ==
    /\ Becomes(Reopened(img))
    /\ trimmed' = {}

Next ==
    \/ \E a \in Area : Read(a)
    \/ \E w \in Writes : Write(w[1], w[2], w[3], w[4])
    \/ \E s \in Discards : Discard(s)
    \/ Flush \/ Crash
    \/ \E n \in Name, running \in BOOLEAN : SnapshotCreate(n, running)
    \/ \E n \in Name : SnapshotApply(n) \/ SnapshotDelete(n)

Spec == Init /\ [][Next]_vars
-------------------------------------------------------------------------------
IsEntry(e) == e.host \in 0 .. HostClusters /\ e.copied \in BOOLEAN /\ e.zero \in BOOLEAN

\* Type invariant.
TypeOK ==
    /\ \A a \in Area : IsEntry(img.l1[a])
    /\ \A h \in Host : /\ img.rc[h] \in Nat /\ img.data[h] \in [Half -> Readable]
                       /\ \A s \in Slot : IsEntry(img.table[h][s])
    /\ DOMAIN img.cache \subseteq Host /\ DOMAIN img.snaps \subseteq Name
    /\ trimmed \subseteq Slot

\* How often the snapshots refer to h, the clusters that hold their L1 tables included.
Held(i, snaps, h) ==
    Cardinality({x \in (DOMAIN snaps) \X Position : Target(i, snaps[x[1]].l1, x[2]) = h})
      + Cardinality({n \in DOMAIN snaps : snaps[n].at = h})

Exact(i) ==
    \A h \in Host :
        i.rc[h] = Refs(i, i.l1, h) + Held(i, i.snaps, h) + (IF i.list = h THEN 1 ELSE 0)

\* Every refcount is the number of references there are, to the cluster, in memory
\* and in the file a crash would leave: nothing leaks and nothing in use is free.
RefcountsExact == Exact(img) /\ Exact(Reopened(img))

\* An entry of the active layer marked copied is its cluster's only reference:
\* write_bytes then writes in place without looking at the refcount.
CopiedIsExclusive ==
    \A a \in Area : img.l1[a].host # 0 =>
        /\ img.l1[a].copied => img.rc[img.l1[a].host] = 1
        /\ \A s \in Slot : LET e == Table(img, img.l1[a].host)[s]
                          IN  e.copied => e.host # 0 /\ img.rc[e.host] = 1

\* The image does what VirtualDisk promises.
Disk == INSTANCE VirtualDisk WITH
    Extent <- {{w[1]} \X {w[2]} \X w[3] : w \in Writes}
              \union {{"disk"} \X {s} \X Half : s \in Discards},
    State <- {x \in Sector : x[1] = "state"},
    content <- reads.disk,
    durable <- reads.crashed,
    saved <- reads.saved,
    trimmed <- {"disk"} \X trimmed \X Half

Implements == Disk!Spec
=============================================================================
