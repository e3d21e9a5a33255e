------------------------------ MODULE Reconcile ------------------------------
(***************************************************************************)
(* The decision half of the workspace syncer: what one reconciliation pass *)
(* does about every path, from what it saw on the two sides, what was last *)
(* agreed and what the developer has answered (labd/workspace/plan.rs),    *)
(* and what a re-seed does after a snapshot restore (reseed.rs).           *)
(*                                                                         *)
(* A path holds None or a copy: its content, and the (size, mtime) stamp   *)
(* the file system reports for it.  The content stands for its SHA-256     *)
(* digest; a content of Dirs is a directory, any other one is a file (a    *)
(* symlink is a file whose content is its target).  Two different contents *)
(* may carry the same stamp: that is the same-size write that preserves    *)
(* the modification time.  A content of Big is over the size cap.          *)
(***************************************************************************)
EXTENDS Integers, FiniteSets

CONSTANTS
    Path,           \* the paths of the synced set
    Data,           \* the contents a path can have
    Dirs,           \* the content that is a directory (at most one)
    Big,            \* the contents over workspace.max_file_bytes
    Stamp,          \* the (size, mtime) pairs a file system can report
    Floor,          \* BULK_DELETE_FLOOR
    None,           \* no copy, no agreement, no answer, no action
    Vouched,        \* seen, not hashed: the stamp is the recorded one
    Unhashed,       \* seen, not hashed: over the cap
    NoDigest        \* the empty digest of an unhashed, never agreed file

ASSUME DataAssumption ==
    /\ Dirs \subseteq Data
    /\ Big \subseteq Data \ Dirs
    /\ \A c, d \in Dirs : c = d

ASSUME MarkAssumption ==
    /\ None \notin Data \cup {Vouched, Unhashed, NoDigest}
    /\ Vouched \notin Data \cup {Unhashed, NoDigest}
    /\ Unhashed \notin Data \cup {NoDigest}
    /\ NoDigest \notin Data

ASSUME FloorAssumption == Floor \in Nat

Side == {"host", "guest"}
Other(side) == IF side = "host" THEN "guest" ELSE "host"

KindOf(d) == IF d \in Dirs THEN "dir" ELSE "file"

Copy   == [data : Data, stamp : Stamp]
Seen   == [kind : {"dir", "file"}, data : Data \cup {Vouched, Unhashed}, stamp : Stamp]
Agreed == [data : Data, stamp : [Side -> Stamp]]
Match  == [data : Data \cup {NoDigest}, stamp : [Side -> Stamp]]
Wanted == [kind : {"dir", "file"}, data : Data \cup {NoDigest}, stamp : Stamp]
Action == [op : {"remove"}, to : Side, path : Path, kind : {"dir", "file"}]
              \cup [op : {"put"}, to : Side, path : Path,
                    data : Data \cup {NoDigest}, stamp : Stamp]

\* None is not one of the records it stands in for.
ASSUME NoneAssumption == None \notin Copy \cup Seen \cup Match \cup Wanted \cup Action \cup Side

-----------------------------------------------------------------------------
(* Reading one side. *)

\* The pre-filter: a file is hashed unless its stamp is the one this side
\* recorded at the agreement.  A file over the cap has a size no agreement has.
NeedsDigest(was, copy, side) ==
    \/ was = None
    \/ copy.data \in Big
    \/ KindOf(was.data) # KindOf(copy.data)
    \/ was.stamp[side] # copy.stamp

\* What a scan (host) or a probe (guest) says about one path.
Look(copy, was, side) ==
    IF copy = None THEN None
    ELSE [kind  |-> KindOf(copy.data),
          data  |-> IF copy.data \in Dirs THEN copy.data
                    ELSE IF ~NeedsDigest(was, copy, side) THEN Vouched
                    ELSE IF copy.data \in Big THEN Unhashed
                    ELSE copy.data,
          stamp |-> copy.stamp]

\* Broken variant of DigestOf: no fallback to the agreed digest.
DigestOf_Raw(now, was) == now.data

\* The digest that stands for a side: the computed one, else the agreed one.
DigestOf(now, was) ==
    IF now.data \notin {Vouched, Unhashed} THEN now.data
    ELSE IF was = None THEN NoDigest
    ELSE was.data

\* Whether a side differs from what was last agreed.
Changed(now, was) ==
    IF now = None \/ was = None THEN now # was
    ELSE \/ now.kind # KindOf(was.data)
         \/ now.data = Unhashed
         \/ DigestOf(now, was) # was.data

-----------------------------------------------------------------------------
(* Deciding one path: s is what was seen on each side, was the agreement,  *)
(* answer the developer's winner for the path, or None.                    *)

BothMoved(s, was, answer) ==
    /\ Changed(s["host"], was)
    /\ Changed(s["guest"], was)
    /\ answer = None

Matching(s, was) ==
    /\ s["host"] # None /\ s["guest"] # None
    /\ s["host"].kind = s["guest"].kind
    /\ DigestOf(s["host"], was) = DigestOf(s["guest"], was)

Gone(s) == s["host"] = None /\ s["guest"] = None

AgreedOn(s, was) ==
    [data  |-> DigestOf(s["host"], was),
     stamp |-> [side \in Side |-> s[side].stamp]]

\* The side whose state is carried to the other one, or None.
Mover(s, was, answer) ==
    IF Gone(s) \/ BothMoved(s, was, answer) THEN None
    ELSE IF /\ answer # None
            /\ \E side \in Side : Changed(s[side], was)
      THEN answer
    ELSE IF Changed(s["host"], was) THEN "host"
    ELSE IF Changed(s["guest"], was) THEN "guest"
    ELSE None

Removal(to, p, kind) == [op |-> "remove", to |-> to, path |-> p, kind |-> kind]

\* place: a file over the cap is refused, never transferred.
Refused(now) == now.data = Unhashed
Placement(to, p, now, was) ==
    IF Refused(now) THEN {}
    ELSE {[op |-> "put", to |-> to, path |-> p,
           data |-> DigestOf(now, was), stamp |-> now.stamp]}

\* A kind replacement clears what stands there first.
Clearing(to, p, now, standing) ==
    IF standing # None /\ standing.kind # now.kind
    THEN {Removal(to, p, standing.kind)} ELSE {}

Carry(p, s, was, answer) ==
    LET m  == Mover(s, was, answer)
        to == Other(m)
    IN  IF m = None THEN {}
        ELSE IF s[m] = None
          THEN IF was = None THEN {} ELSE {Removal(to, p, KindOf(was.data))}
        ELSE Clearing(to, p, s[m], s[to]) \cup Placement(to, p, s[m], was)

-----------------------------------------------------------------------------
(* Deciding the whole pass: seen[side][p], led[p], answers[p]. *)

At(seen, p) == [side \in Side |-> seen[side][p]]

\* BulkDelete::triggered: more than the floor and more than half of the tree.
MassDeletion(paths, led) ==
    /\ Cardinality(paths) > Floor
    /\ 2 * Cardinality(paths) > Cardinality({p \in Path : led[p] # None})

\* The guest-to-host removals the mass guard takes back out of the plan: all
\* of them but the ones answered `guest'.
Withheld(removals, led, answers) ==
    LET doomed == {a.path : a \in {r \in removals : r.op = "remove" /\ r.to = "host"}}
    IN  IF MassDeletion(doomed, led)
        THEN {p \in doomed : answers[p] # "guest"} ELSE {}

\* Broken variant of WhileHalted: the halt stops nothing.
WhileHalted_All(halted, actions, answers) == actions

\* while_halted: what is carried out while a halt stands.
WhileHalted(halted, actions, answers) ==
    IF halted = {} THEN actions ELSE {a \in actions : answers[a.path] # None}

\* reconcile and Halt::of.
Decide(seen, led, undecided, answers) ==
    LET decided   == Path \ undecided
        both(p)   == ~Gone(At(seen, p)) /\ BothMoved(At(seen, p), led[p], answers[p])
        carried   == UNION {Carry(p, At(seen, p), led[p], answers[p]) : p \in decided}
        withheld  == Withheld(carried, led, answers)
        conflicts == {p \in decided : both(p) /\ ~Matching(At(seen, p), led[p])}
        halted    == conflicts \cup withheld
        allowed   == {a \in carried : ~(a.op = "remove" /\ a.to = "host" /\ a.path \in withheld)}
        adopted   == {p \in decided : both(p) /\ Matching(At(seen, p), led[p])}
        forget    == {p \in decided : Gone(At(seen, p)) /\ led[p] # None}
        refused   == {p \in decided :
                        LET m == Mover(At(seen, p), led[p], answers[p])
                        IN  m # None /\ seen[m][p] # None /\ Refused(seen[m][p])}
    IN  [adopt   |-> [p \in Path |-> IF p \in adopted
                                    THEN AgreedOn(At(seen, p), led[p]) ELSE None],
         forget  |-> forget,
         halt    |-> halted,
         refused |-> refused,
         actions |-> WhileHalted(halted, allowed, answers),
         \* ~nothing_to_record
         records |-> allowed # {} \/ adopted \cup forget \cup halted \cup refused # {}]

\* reseed::reseed: the host is the only source, and nothing is a conflict.
Reseed(seen, undecided) ==
    LET decided == Path \ undecided
        same(p) == /\ Matching(At(seen, p), None)
                   /\ seen["host"][p].data # Unhashed
    IN  [adopt   |-> [p \in Path |->
                        IF p \in decided /\ same(p)
                        THEN AgreedOn(At(seen, p), None) ELSE None],
         refused |-> {p \in decided : /\ seen["host"][p] # None /\ ~same(p)
                                      /\ Refused(seen["host"][p])},
         actions |-> UNION {IF seen["host"][p] = None
                            THEN IF seen["guest"][p] = None THEN {}
                                 ELSE {Removal("guest", p, seen["guest"][p].kind)}
                            ELSE IF same(p) THEN {}
                            ELSE Clearing("guest", p, seen["host"][p], seen["guest"][p])
                                   \cup Placement("guest", p, seen["host"][p], None)
                            : p \in decided}]

\* capture_expected: the destination's state as the plan saw it, with the
\* agreed digest where the pre-filter vouched for it.
Expected(seen, led, actions) ==
    [p \in Path |->
        IF \E a \in actions : a.path = p
        THEN LET a   == CHOOSE a \in actions : a.path = p
                 now == seen[a.to][p]
             IN  IF now # None /\ now.data = Vouched /\ led[p] # None
                 THEN [now EXCEPT !.data = led[p].data] ELSE now
        ELSE None]

\* verify_copy: the standing copy is the expected one, digest recomputed.
Verified(copy, expected) ==
    IF copy = None \/ expected = None THEN copy = expected
    ELSE /\ KindOf(copy.data) = expected.kind
         /\ \/ expected.kind = "dir"
            \/ copy.stamp = expected.stamp /\ copy.data = expected.data
=============================================================================
