------------------------- MODULE WorkspaceSyncProofs --------------------------
(***************************************************************************)
(* Invariants of the workspace syncer, for any set of paths and contents,  *)
(* any number of writes, failures, restores and replies.                   *)
(*                                                                         *)
(* The types come first, then four properties, each by an invariant of its *)
(* own.                                                                    *)
(*                                                                         *)
(* LedgerTruth (HeldInv): an entry is written from what the pass saw,      *)
(* planned and sent, so each of those has to be a content some side has    *)
(* held too.                                                               *)
(*                                                                         *)
(* NoUnseenLoss (LossInv): what a pass is about to replace is what it saw  *)
(* when it planned, and the other side has held it.                        *)
(*                                                                         *)
(* HaltOnRecord and HaltFreezes (HaltInv): a halted pass carries out only  *)
(* what the developer answered for, and has something to save.             *)
(*                                                                         *)
(* RewindNoted and RewoundStaysOff (RewindInv): a rewound path is noted    *)
(* before the guest goes back, so the loop that starts next owes a         *)
(* re-seed, which has the path on its list until it is dealt with, or      *)
(* among the failures that keep it owed.                                   *)
(*                                                                         *)
(* The last part states SyncInv, the invariant behind QuietInStep, and     *)
(* shows that what a pass decides keeps it; SyncQuietProofs has the other  *)
(* steps and the theorem.                                                  *)
(***************************************************************************)
EXTENDS WorkspaceSync, TLAPS

-----------------------------------------------------------------------------
(* What the operators of Reconcile return, for any input of their type.     *)

\* LookType, quantified, its types as the provers should see them.
MaybeCopy   == Copy \cup {None}
MaybeSeen   == Seen \cup {None}
MaybeAgreed == Agreed \cup {None}
MaybeSide   == Side \cup {None}
Readings    == [Side -> Seen \cup {None}]

\* LookType, quantified.
LEMMA LookForall ==
    \A copy \in MaybeCopy, was \in MaybeAgreed, side \in Side : Look(copy, was, side) \in MaybeSeen
\* What a scan or a probe says about a path (scan.rs) has the type of a reading.
<1>LookType. ASSUME NEW copy \in Copy \cup {None}, NEW was \in Agreed \cup {None}, NEW side \in Side
             PROVE  Look(copy, was, side) \in Seen \cup {None}
  BY NoneAssumption, Zenon DEF Look, Copy, Seen, KindOf
<1> QED
  BY <1>LookType, Zenon DEF MaybeCopy, MaybeAgreed, MaybeSeen

\* A digest is a content, or the empty digest of a file over the cap that was
\* never agreed on (digest_of, standalone_digest).
LEMMA DigestOfType ==
    ASSUME NEW now \in Seen, NEW was \in Agreed \cup {None}
    PROVE  DigestOf(now, was) \in Data \cup {NoDigest}
BY MarkAssumption, NoneAssumption, Zenon DEF DigestOf, Seen, Agreed

\* The agreement an adoption would record (settle_both).
LEMMA AgreedOnType ==
    ASSUME NEW s \in [Side -> Seen \cup {None}], NEW was \in Agreed \cup {None},
           Matching(s, was)
    PROVE  AgreedOn(s, was) \in Match
<1> USE Zenon
<1>1. "host" \in Side /\ "guest" \in Side
  BY DEF Side
<1>2. \A side \in Side : s[side] \in Seen
  BY DEF Matching, Side
<1>3. DigestOf(s["host"], was) \in Data \cup {NoDigest}
  BY <1>1, <1>2, DigestOfType
<1>4. \A side \in Side : s[side].stamp \in Stamp
  BY <1>2 DEF Seen
<1> QED
  BY <1>3, <1>4 DEF AgreedOn, Match

\* A copy verified against a match to adopt holds the very content of the match,
\* which therefore is not the empty digest (verify_copy).
LEMMA VerifiedMatch ==
    ASSUME NEW copy \in Copy \cup {None}, NEW m \in Match, NEW side \in Side,
           Verified(copy, [kind |-> KindOf(m.data), data |-> m.data, stamp |-> m.stamp[side]])
    PROVE  m \in Agreed /\ copy # None /\ copy.data = m.data
<1> USE Zenon
<1> DEFINE want == [kind |-> KindOf(m.data), data |-> m.data, stamp |-> m.stamp[side]]
<1>1. want \in Wanted
  BY DEF Match, KindOf, Wanted
<1>2. want # None
  BY <1>1, NoneAssumption
<1>3. copy # None /\ KindOf(copy.data) = KindOf(m.data)
  BY <1>2 DEF Verified
<1>4. KindOf(m.data) = "dir" \/ copy.data = m.data
  BY <1>2, <1>3 DEF Verified
<1>5. copy.data = m.data
  BY <1>3, <1>4, DataAssumption DEF KindOf
<1>6. m.data \in Data
  BY <1>3, <1>5 DEF Copy
<1> QED
  BY <1>3, <1>5, <1>6 DEF Match, Agreed

\* The winner of a path is a side or none.
LEMMA MoverType ==
    ASSUME NEW s, NEW was, NEW answer \in Side \cup {None}
    PROVE  Mover(s, was, answer) \in Side \cup {None}
BY Zenon DEF Mover, Side

\* The other side of a side is a side, and not that one.
LEMMA OtherType ==
    ASSUME NEW side \in Side
    PROVE  Other(side) \in Side /\ Other(side) # side /\ Other(Other(side)) = side
BY Zenon DEF Other, Side

\* CarryType, quantified.
LEMMA CarryForall ==
    \A p \in Path, s \in Readings, was \in MaybeAgreed, answer \in MaybeSide :
        \A a \in Carry(p, s, was, answer) :
            /\ a \in Action /\ a.path = p
            /\ Mover(s, was, answer) \in Side
            /\ a.to = Other(Mover(s, was, answer))
\* What is carried for one path is made of actions of that path, all of them to
\* the side that did not move (reconcile).
<1>CarryType. ASSUME NEW p \in Path, NEW s \in [Side -> Seen \cup {None}],
                     NEW was \in Agreed \cup {None}, NEW answer \in Side \cup {None}
              PROVE  /\ Carry(p, s, was, answer) \subseteq Action
                     /\ \A a \in Carry(p, s, was, answer) :
                           /\ a.path = p
                           /\ Mover(s, was, answer) \in Side
                           /\ a.to = Other(Mover(s, was, answer))
  <2> USE Zenon
  <2> DEFINE m == Mover(s, was, answer)
  <2>1. CASE m = None
    BY <2>1 DEF Carry
  <2>2. CASE m # None
    <3>1. m \in Side /\ Other(m) \in Side
      BY <2>2, MoverType, OtherType
    <3>2. \A kind \in {"dir", "file"} : Removal(Other(m), p, kind) \in Action
      BY <3>1 DEF Removal, Action
    <3>3. CASE s[m] = None
      <4>1. \/ Carry(p, s, was, answer) = {}
            \/ Carry(p, s, was, answer) = {Removal(Other(m), p, KindOf(was.data))}
        BY <2>2, <3>3 DEF Carry
      <4>2. KindOf(was.data) \in {"dir", "file"}
        BY DEF KindOf
      <4> QED
        BY <3>1, <3>2, <4>1, <4>2, SMTT(30) DEF Removal
    <3>4. CASE s[m] # None
      <4>1. s[m] \in Seen
        BY <3>1, <3>4
      <4>2. DigestOf(s[m], was) \in Data \cup {NoDigest} /\ s[m].stamp \in Stamp
        BY <4>1, DigestOfType DEF Seen
      <4>3. /\ Placement(Other(m), p, s[m], was) \subseteq Action
            /\ \A a \in Placement(Other(m), p, s[m], was) : a.path = p /\ a.to = Other(m)
        BY <3>1, <4>2, SMTT(30) DEF Placement, Action
      <4>4. s[Other(m)] # None => s[Other(m)].kind \in {"dir", "file"}
        BY <3>1 DEF Seen
      <4>5. /\ Clearing(Other(m), p, s[m], s[Other(m)]) \subseteq Action
            /\ \A a \in Clearing(Other(m), p, s[m], s[Other(m)]) : a.path = p /\ a.to = Other(m)
        BY <3>1, <3>2, <4>4, SMTT(30) DEF Clearing, Removal
      <4>6. Carry(p, s, was, answer)
              = Clearing(Other(m), p, s[m], s[Other(m)]) \cup Placement(Other(m), p, s[m], was)
        BY <2>2, <3>4 DEF Carry
      <4> QED
        BY <3>1, <4>3, <4>5, <4>6
    <3> QED
      BY <3>3, <3>4
  <2> QED
    BY <2>1, <2>2
<1> QED
  BY <1>CarryType DEF Readings, MaybeAgreed, MaybeSide

\* CarryType, for a path of a whole pass.
LEMMA CarryAt ==
    ASSUME NEW seen \in [Side -> [Path -> Seen \cup {None}]],
           NEW led \in [Path -> Agreed \cup {None}],
           NEW replies \in [Path -> Side \cup {None}],
           NEW p \in Path, NEW a \in Carry(p, At(seen, p), led[p], replies[p])
    PROVE  /\ a \in Action /\ a.path = p
           /\ Mover(At(seen, p), led[p], replies[p]) \in Side
           /\ a.to = Other(Mover(At(seen, p), led[p], replies[p]))
<1>1. At(seen, p) \in Readings
  BY DEF At, Readings
<1>2. led[p] \in MaybeAgreed /\ replies[p] \in MaybeSide
  BY Zenon DEF MaybeAgreed, MaybeSide
<1> QED
  BY ONLY p \in Path, CarryForall, <1>1, <1>2, a \in Carry(p, At(seen, p), led[p], replies[p])

\* A pass decides within its types, and all it plans for one path goes one way
\* (reconcile).
LEMMA DecideType ==
    ASSUME NEW seen \in [Side -> [Path -> Seen \cup {None}]],
           NEW led \in [Path -> Agreed \cup {None}],
           NEW undecided, NEW replies \in [Path -> Side \cup {None}]
    PROVE  LET plan == Decide(seen, led, undecided, replies) IN
           /\ plan.adopt \in [Path -> Match \cup {None}]
           /\ plan.forget \subseteq Path /\ plan.halt \subseteq Path
           /\ plan.refused \subseteq Path
           /\ plan.actions \subseteq Action
           /\ plan.records \in BOOLEAN
           /\ \A a \in plan.actions :
                 a \in Carry(a.path, At(seen, a.path), led[a.path], replies[a.path])
<1> USE Zenon
<1>1. \A p \in Path : At(seen, p) \in [Side -> Seen \cup {None}]
  BY SMTT(30) DEF At
<1> DEFINE decided   == Path \ undecided
           both(p)   == ~Gone(At(seen, p)) /\ BothMoved(At(seen, p), led[p], replies[p])
           carried   == UNION {Carry(p, At(seen, p), led[p], replies[p]) : p \in decided}
           adopted   == {p \in decided : both(p) /\ Matching(At(seen, p), led[p])}
           plan      == Decide(seen, led, undecided, replies)
<1>2. \A a \in carried : /\ a \in Action
                         /\ a \in Carry(a.path, At(seen, a.path), led[a.path], replies[a.path])
  <2> SUFFICES ASSUME NEW p \in Path, NEW a \in Carry(p, At(seen, p), led[p], replies[p])
               PROVE  a \in Action /\ a.path = p
    OBVIOUS
  <2> QED
    BY CarryAt, SMTT(30)
<1>3. plan.actions \subseteq carried
  BY ZenonT(30) DEF Decide, WhileHalted
<1>4. plan.adopt = [p \in Path |-> IF p \in adopted THEN AgreedOn(At(seen, p), led[p]) ELSE None]
  BY DEF Decide
<1>5. \A p \in adopted : AgreedOn(At(seen, p), led[p]) \in Match
  <2> SUFFICES ASSUME NEW p \in Path, Matching(At(seen, p), led[p])
               PROVE  AgreedOn(At(seen, p), led[p]) \in Match
    OBVIOUS
  <2> led[p] \in Agreed \cup {None}
    OBVIOUS
  <2> QED
    BY <1>1, AgreedOnType
<1>6. plan.adopt \in [Path -> Match \cup {None}]
  BY <1>4, <1>5, SMTT(30)
<1>7. plan.forget \subseteq Path /\ plan.refused \subseteq Path /\ plan.records \in BOOLEAN
  BY DEF Decide
<1>8. plan.halt \subseteq Path
  <2>1. \A a \in carried : a.path \in Path
    BY <1>2 DEF Action
  <2> DEFINE withheld == Withheld(carried, led, replies)
  <2>2. withheld \subseteq Path
    BY <2>1 DEF Withheld
  <2>3. plan.halt = {p \in decided : both(p) /\ ~Matching(At(seen, p), led[p])} \cup withheld
    BY DEF Decide
  <2> QED
    BY <2>2, <2>3
<1> QED
  BY <1>2, <1>3, <1>6, <1>7, <1>8

\* A re-seed decides within its types, and never writes to the host (reseed).
LEMMA ReseedType ==
    ASSUME NEW seen \in [Side -> [Path -> Seen \cup {None}]], NEW undecided
    PROVE  LET plan == Reseed(seen, undecided) IN
           /\ plan.adopt \in [Path -> Match \cup {None}]
           /\ plan.refused \subseteq Path
           /\ plan.actions \subseteq Action
           /\ \A a \in plan.actions : a.to = "guest"
<1> USE Zenon
<1>1. \A p \in Path : At(seen, p) \in [Side -> Seen \cup {None}]
  BY DEF At
<1> DEFINE decided == Path \ undecided
           same(p) == /\ Matching(At(seen, p), None)
                      /\ seen["host"][p].data # Unhashed
           here(p) == IF seen["host"][p] = None
                      THEN IF seen["guest"][p] = None THEN {}
                           ELSE {Removal("guest", p, seen["guest"][p].kind)}
                      ELSE IF same(p) THEN {}
                      ELSE Clearing("guest", p, seen["host"][p], seen["guest"][p])
                             \cup Placement("guest", p, seen["host"][p], None)
           plan    == Reseed(seen, undecided)
<1>2. plan.adopt = [p \in Path |-> IF p \in decided /\ same(p)
                                   THEN AgreedOn(At(seen, p), None) ELSE None]
  BY DEF Reseed
<1>3. plan.adopt \in [Path -> Match \cup {None}]
  BY <1>1, <1>2, AgreedOnType, SMTT(30)
<1>4. plan.refused \subseteq Path
  BY DEF Reseed
<1>5. plan.actions = UNION {here(p) : p \in decided}
  BY DEF Reseed
<1>6. \A p \in Path : here(p) \subseteq Action /\ \A a \in here(p) : a.to = "guest"
  <2> SUFFICES ASSUME NEW p \in Path
               PROVE  here(p) \subseteq Action /\ \A a \in here(p) : a.to = "guest"
    OBVIOUS
  <2>1. "guest" \in Side /\ "host" \in Side
    BY DEF Side
  <2>2. \A kind \in {"dir", "file"} : /\ Removal("guest", p, kind) \in Action
                                      /\ Removal("guest", p, kind).to = "guest"
    BY <2>1 DEF Removal, Action
  <2>3. \A side \in Side : seen[side][p] # None => /\ seen[side][p] \in Seen
                                                   /\ seen[side][p].kind \in {"dir", "file"}
                                                   /\ seen[side][p].stamp \in Stamp
    BY DEF Seen
  <2>4. seen["host"][p] # None =>
          DigestOf(seen["host"][p], None) \in Data \cup {NoDigest}
    BY <2>1, <2>3, DigestOfType
  <2>5. seen["host"][p] # None =>
          /\ Placement("guest", p, seen["host"][p], None) \subseteq Action
          /\ \A a \in Placement("guest", p, seen["host"][p], None) : a.to = "guest"
    BY <2>1, <2>3, <2>4, SMTT(30) DEF Placement, Action
  <2>6. /\ Clearing("guest", p, seen["host"][p], seen["guest"][p]) \subseteq Action
        /\ \A a \in Clearing("guest", p, seen["host"][p], seen["guest"][p]) : a.to = "guest"
    BY <2>1, <2>2, <2>3 DEF Clearing
  <2> QED
    BY <2>1, <2>2, <2>3, <2>5, <2>6
<1> QED
  BY <1>3, <1>4, <1>5, <1>6, SMTT(30)

\* The destination an action expects is what was seen there (capture_expected).
LEMMA ExpectedType ==
    ASSUME NEW seen \in [Side -> [Path -> Seen \cup {None}]],
           NEW led \in [Path -> Agreed \cup {None}], NEW actions \in SUBSET Action
    PROVE  Expected(seen, led, actions) \in [Path -> Seen \cup {None}]
<1> SUFFICES ASSUME NEW p \in Path, NEW a \in actions
             PROVE  LET now == seen[a.to][p]
                    IN  (IF now # None /\ now.data = Vouched /\ led[p] # None
                         THEN [now EXCEPT !.data = led[p].data] ELSE now) \in Seen \cup {None}
  BY ZenonT(30) DEF Expected
<1> USE Zenon
<1>1. a.to \in Side
  BY DEF Action
<1>2. seen[a.to][p] \in Seen \cup {None}
  BY <1>1
<1>3. led[p] # None => led[p].data \in Data
  BY DEF Agreed
<1> QED
  BY <1>2, <1>3 DEF Seen

-----------------------------------------------------------------------------
(* Type correctness of the syncer.                                           *)

\* What each stage of an action means: an adoption has a match to adopt, and
\* what is being placed has a content (one over the cap is never transferred).
StageOK ==
    /\ pass.stage = "adopt" => /\ pass.act \in [op : {"adopt"}, path : Path]
                               /\ pass.adopt[pass.act.path] # None
    /\ pass.stage \in {"sent", "ready", "placed"} =>
         /\ pass.act \in Action
         /\ pass.act.op = "put" => pass.act.data \in Data
    /\ pass.stage \in {"sent", "placed"} => pass.act.op = "put"
    /\ pc # "apply" => pass.stage = "none"

\* A restore under way has a snapshot to go back to.
SnapOK == op # "none" => snap # None

\* The types, and what goes with them.
TypeInv == TypeOK /\ StageOK /\ SnapOK

\* The empty values have their types.
LEMMA EmptyType ==
    /\ NoPass \in Passes /\ EmptyLedger \in Ledgers
    /\ Blank \in [halt : SUBSET Path, clean : BOOLEAN]
    /\ NoPaths \in [Side -> SUBSET Path] /\ NoAnswers \in [Path -> Side \cup {None}]
BY Zenon DEF EmptyLedger, Ledgers, NoAgreement, NoPaths, NoAnswers, Blank, NoPass, Passes, Stages

\* A syncer that never ran has its types.
LEMMA InitType == Init => TypeInv
<1> SUFFICES ASSUME Init
             PROVE  TypeInv
  BY Zenon
<1> USE Zenon
<1>1. TreesOK
  <2>1. held \in [Side -> [Path -> SUBSET Data]]
    BY SMTT(30) DEF Init, Copy
  <2>2. tree \in [Side -> [Path -> Copy \cup {None}]] /\ snap = None
    BY DEF Init
  <2> QED
    BY ONLY <2>1, <2>2 DEF TreesOK
<1>2. LedgersOK /\ LoopOK /\ pass \in Passes
  BY EmptyType, ZenonT(30) DEF Init, LedgersOK, LoopOK
<1>3. CommandOK /\ CountersOK /\ HistoryOK
  <2>1. CommandOK /\ HistoryOK
    BY EmptyType, ZenonT(30) DEF Init, CommandOK, HistoryOK
  <2>2. edits = 0 /\ faults = 0 /\ rewinds = 0 /\ answers = 0
    BY DEF Init
  <2> QED
    BY <2>1, <2>2, BoundAssumption, SMTT(30) DEF CountersOK
<1>4. StageOK
  BY DEF Init, StageOK, NoPass
<1>5. SnapOK
  BY DEF Init, SnapOK
<1> QED
  BY <1>1, <1>2, <1>3, <1>4, <1>5 DEF TypeInv, TypeOK

\* What the guest is probed for has the type of a reading.
LEMMA ReadGuestType ==
    ASSUME TypeInv, NEW skip
    PROVE  ReadGuest(skip) \in [Path -> Seen \cup {None}]
<1> USE Zenon
<1>1. \A p \in Path : Look(tree["guest"][p], Cached(p), "guest") \in Seen \cup {None}
  <2> SUFFICES ASSUME NEW p \in Path
               PROVE  Look(tree["guest"][p], Cached(p), "guest") \in Seen \cup {None}
    OBVIOUS
  <2>1. tree["guest"][p] \in Copy \cup {None} /\ "guest" \in Side
    BY DEF TypeInv, TypeOK, TreesOK, Side
  <2>2. Cached(p) \in Agreed \cup {None}
    BY DEF Cached, TypeInv, TypeOK, LedgersOK, Ledgers
  <2> QED
    BY ONLY <2>1, <2>2, LookForall DEF MaybeCopy, MaybeAgreed, MaybeSeen
<1> QED
  BY <1>1 DEF ReadGuest

\* What a probe sees and what a pass remembers to look at again.
LEMMA ProbeSeen ==
    ASSUME TypeInv, NEW skip \in SUBSET Path
    PROVE  LET seen == [host |-> pass.seen, guest |-> ReadGuest(skip)] IN
           /\ seen \in [Side -> [Path -> Seen \cup {None}]]
           /\ mem.agreed \in [Path -> Agreed \cup {None}]
           /\ pass.taken \in [Path -> Side \cup {None}]
           /\ pass.undecided \cup skip \in SUBSET Path
           /\ \A s \in Side, paths \in SUBSET Path : Rehash(s, seen[s], paths) \in SUBSET Path
<1> USE Zenon
<1>1. pass.seen \in [Path -> Seen \cup {None}] /\ ReadGuest(skip) \in [Path -> Seen \cup {None}]
  BY ReadGuestType DEF TypeInv, TypeOK, Passes
<1>2. [host |-> pass.seen, guest |-> ReadGuest(skip)] \in [Side -> [Path -> Seen \cup {None}]]
  BY <1>1, SMTT(60) DEF Side
<1>3. dirty \in [Side -> SUBSET Path]
  BY DEF TypeInv, TypeOK, LoopOK
<1>4. \A s \in Side, paths \in SUBSET Path : \A now : Rehash(s, now, paths) \in SUBSET Path
  BY <1>3 DEF Rehash
<1> QED
  BY <1>2, <1>4 DEF TypeInv, TypeOK, LedgersOK, Ledgers, Passes

\* What an ordinary pass plans once it has probed the guest has its type (run_pass).
LEMMA PlanType ==
    ASSUME TypeInv, pc = "read", NEW skip \in SUBSET Path, Plan(skip)
    PROVE  /\ pass' \in Passes /\ pass'.stage = "none" /\ mem' \in Ledgers
           /\ registered' \in BOOLEAN /\ missed' \in [Side -> SUBSET Path] /\ rolled' = rolled
<1> USE Zenon
<1> DEFINE seen == [host |-> pass.seen, guest |-> ReadGuest(skip)]
           undecided == pass.undecided \cup skip
           plan == Decide(seen, mem.agreed, undecided, pass.taken)
           expected == Expected(seen, mem.agreed, plan.actions)
           rehash(s) == Rehash(s, seen[s], IF s = "host" THEN pass.skips["host"] ELSE skip)
           later == [s \in Side |-> IF plan.halt # {} THEN rehash(s)
                                    ELSE rehash(s) \cap undecided]
<1>1. /\ seen \in [Side -> [Path -> Seen \cup {None}]]
      /\ mem.agreed \in [Path -> Agreed \cup {None}]
      /\ pass.taken \in [Path -> Side \cup {None}]
      /\ undecided \in SUBSET Path
  BY ProbeSeen
<1>2. /\ plan.adopt \in [Path -> Match \cup {None}]
      /\ plan.forget \subseteq Path /\ plan.halt \subseteq Path /\ plan.refused \subseteq Path
      /\ plan.actions \subseteq Action /\ plan.records \in BOOLEAN
  BY <1>1, DecideType, ZenonT(60)
<1>3. expected \in [Path -> Seen \cup {None}]
  BY <1>1, <1>2, ExpectedType, ZenonT(30)
<1>4. later \in [Side -> SUBSET Path]
  <2>1. pass.skips \in [Side -> SUBSET Path]
    BY DEF TypeInv, TypeOK, Passes
  <2>2. \A s \in Side : rehash(s) \in SUBSET Path
    <3>1. \A s \in Side, paths \in SUBSET Path : Rehash(s, seen[s], paths) \in SUBSET Path
      BY ProbeSeen, ZenonT(30)
    <3>2. \A s \in Side : (IF s = "host" THEN pass.skips["host"] ELSE skip) \in SUBSET Path
      BY <2>1 DEF Side
    <3> QED
      BY <3>1, <3>2, ZenonT(30)
  <2> QED
    BY <2>2, ZenonT(30)
<1>5. pass' = [pass EXCEPT
              !.seen = NoAgreement, !.undecided = undecided,
              !.adopt = plan.adopt, !.todo = plan.actions, !.expected = expected,
              !.halt = plan.halt, !.refused = plan.refused, !.records = plan.records,
              !.later = later]
  BY DEF Plan
<1>6. mem' = [mem EXCEPT !.agreed = [p \in Path |-> IF p \in plan.forget THEN None ELSE @[p]]]
  BY DEF Plan
<1>7. missed' \in [Side -> SUBSET Path]
  <2>1. missed["host"] \in SUBSET Path /\ missed["guest"] \in SUBSET Path
    BY DEF TypeInv, TypeOK, HistoryOK, Side
  <2>2. PICK mine \in SUBSET Path, theirs \in SUBSET Path :
            missed' = [host |-> mine, guest |-> theirs]
    BY <2>1, ZenonT(30) DEF Plan
  <2> QED
    BY <2>2, SMTT(30) DEF Side
<1>8. registered' \in BOOLEAN /\ rolled' = rolled
  BY DEF Plan
<1> HIDE DEF seen, undecided, plan, expected, later
<1>9. pass' \in Passes
  <2>1. NoAgreement \in [Path -> Seen \cup {None}]
    BY DEF NoAgreement
  <2> QED
    BY <1>1, <1>2, <1>3, <1>4, <1>5, <2>1, ZenonT(30) DEF TypeInv, TypeOK, Passes
<1>10. pass'.stage = "none"
  BY <1>5 DEF TypeInv, TypeOK, StageOK, Passes
<1>11. mem' \in Ledgers
  BY <1>2, <1>6 DEF TypeInv, TypeOK, LedgersOK, Ledgers
<1> QED
  BY <1>7, <1>8, <1>9, <1>10, <1>11

\* And so has what a re-seed plans (run_reseed).
LEMMA PlanReseedType ==
    ASSUME TypeInv, pc = "read", NEW skip \in SUBSET Path, PlanReseed(skip)
    PROVE  /\ pass' \in Passes /\ pass'.stage = "none" /\ mem' \in Ledgers
           /\ registered' = registered /\ missed' \in [Side -> SUBSET Path]
           /\ rolled' \in SUBSET rolled
<1> USE Zenon
<1> DEFINE seen == [host |-> pass.seen, guest |-> ReadGuest(skip)]
           undecided == pass.undecided \cup skip
           plan == Reseed(seen, undecided)
           expected == Expected(seen, NoAgreement, plan.actions)
<1>1. /\ seen \in [Side -> [Path -> Seen \cup {None}]]
      /\ undecided \in SUBSET Path
  BY ProbeSeen
<1>2. /\ plan.adopt \in [Path -> Match \cup {None}]
      /\ plan.refused \subseteq Path /\ plan.actions \subseteq Action
  BY <1>1, ReseedType, ZenonT(30)
<1>3. NoAgreement \in [Path -> Seen \cup {None}] /\ NoAgreement \in [Path -> Agreed \cup {None}]
  BY DEF NoAgreement
<1>4. expected \in [Path -> Seen \cup {None}]
  BY <1>1, <1>2, <1>3, ExpectedType, ZenonT(30)
<1>5. pass' = [pass EXCEPT
              !.seen = NoAgreement, !.undecided = undecided,
              !.adopt = plan.adopt, !.todo = plan.actions, !.expected = expected,
              !.refused = plan.refused]
  BY DEF PlanReseed
<1>6. mem' = [EmptyLedger EXCEPT !.owed = TRUE]
  BY DEF PlanReseed
<1>7. missed' \in [Side -> SUBSET Path]
  BY DEF PlanReseed, TypeInv, TypeOK, HistoryOK, Side
<1>8. registered' = registered /\ rolled' \in SUBSET rolled
  BY DEF PlanReseed
<1> HIDE DEF seen, undecided, plan, expected
<1>9. pass' \in Passes
  BY <1>1, <1>2, <1>3, <1>4, <1>5, ZenonT(30) DEF TypeInv, TypeOK, Passes
<1>10. pass'.stage = "none"
  BY <1>5 DEF TypeInv, TypeOK, StageOK, Passes
<1>11. mem' \in Ledgers
  BY <1>6, EmptyType, ZenonT(30) DEF Ledgers
<1> QED
  BY <1>7, <1>8, <1>9, <1>10, <1>11

\* A failed action leaves a pass with nothing under way.
LEMMA FailingType ==
    ASSUME TypeInv, NEW p \in Path
    PROVE  /\ Failing(p) \in Passes
           /\ Failing(p).stage = "none"
           /\ [Failing(p) EXCEPT !.adopt[p] = None] \in Passes
           /\ [Failing(p) EXCEPT !.adopt[p] = None].stage = "none"
           /\ \A a \in Action : /\ [Failing(p) EXCEPT !.todo = @ \ {a}] \in Passes
                                /\ [Failing(p) EXCEPT !.todo = @ \ {a}].stage = "none"
BY ZenonT(30) DEF TypeInv, TypeOK, Failing, Passes, Stages

\* What the commit of an action acts on.
LEMMA CommitActs ==
    ASSUME TypeInv, Commit
    PROVE  /\ pass.act \in Action /\ pass.act.to \in Side /\ pass.act.path \in Path
           /\ pass.act.op = "put" => pass.act.data \in Data
           /\ pc' = "apply"
           /\ pass.adopt \in [Path -> Match \cup {None}]
<1>1. pass.act \in Action /\ (pass.act.op = "put" => pass.act.data \in Data) /\ pc' = "apply"
  BY Zenon DEF TypeInv, StageOK, Commit, applyFrame
<1> QED
  BY <1>1, ZenonT(60) DEF Action, TypeInv, TypeOK, Passes

\* Replacing one copy keeps the trees' type.
Trees == [Side -> [Path -> Copy \cup {None}]]
Helds == [Side -> [Path -> SUBSET Data]]

\* The ways a removal can end.
LEMMA RemoveEnds ==
    ASSUME NEW a, NEW copy, Remove(a, copy)
    PROVE  /\ tree' = tree \/ tree' = [tree EXCEPT ![a.to][a.path] = None]
           /\ mem' = mem \/ mem' = [mem EXCEPT !.agreed[a.path] = None]
           /\ flight' = flight \/ flight' = Touched(a.to, a.path)
           /\ rolled' = rolled \/ rolled' = rolled \ {a.path}
           /\ faults' = faults \/ Fault
           /\ \/ pass' = Failing(a.path)
              \/ pass' = [pass EXCEPT !.act = None, !.stage = "none"]
              \/ pass' = [pass EXCEPT !.act = None, !.stage = "none", !.expected[a.path] = None]
<1> USE Zenon
<1>1. CASE copy = None
  BY <1>1 DEF Remove
<1>2. CASE copy # None /\ KindOf(copy.data) # a.kind
  BY <1>2 DEF Remove
<1>3. CASE copy # None /\ KindOf(copy.data) = a.kind /\ a.kind = "dir" /\ a.path \in Standing
  BY <1>3 DEF Remove
<1>4. CASE copy # None /\ KindOf(copy.data) = a.kind /\ ~(a.kind = "dir" /\ a.path \in Standing)
  BY <1>4 DEF Remove, ReplyLost
<1> QED
  BY <1>1, <1>2, <1>3, <1>4

\* The ways a placement can end.
LEMMA PutEnds ==
    ASSUME NEW a, NEW copy, Put(a, copy)
    PROVE  /\ \/ tree' = tree
              \/ \E s \in Stamp :
                   tree' = [tree EXCEPT ![a.to][a.path] = [data |-> a.data, stamp |-> s]]
           /\ held' = held \/ held' = [held EXCEPT ![a.to][a.path] = @ \cup {a.data}]
           /\ flight' = flight \/ flight' = Touched(a.to, a.path)
           /\ rolled' = rolled \/ rolled' = rolled \ {a.path}
           /\ faults' = faults \/ Fault
           /\ pass' = Failing(a.path) \/ pass' = [pass EXCEPT !.stage = "placed"]
<1>1. CASE Blocked(a, copy)
  BY <1>1, Zenon DEF Put
<1>2. CASE ~Blocked(a, copy)
  BY <1>2, ZenonT(30) DEF Put, ReplyLost
<1> QED
  BY <1>1, <1>2, ZenonT(30)

\* Every step of the syncer, its developers, its watches and the snapshot verbs
\* keeps the types and the meaning of the stages.
LEMMA StepType == TypeInv /\ [Next]_vars => TypeInv'
\* What the host is read as has the type of a reading (scan.rs).
<1>ReadHostType. ASSUME TreesOK, NEW cached \in [Path -> Agreed \cup {None}], NEW skip
                 PROVE  ReadHost(cached, skip) \in [Path -> Seen \cup {None}]
  <2> USE <1>ReadHostType, Zenon
  <2>1. \A p \in Path : Look(tree["host"][p], cached[p], "host") \in Seen \cup {None}
    <3> SUFFICES ASSUME NEW p \in Path
                 PROVE  Look(tree["host"][p], cached[p], "host") \in Seen \cup {None}
      OBVIOUS
    <3>1. tree["host"][p] \in Copy \cup {None} /\ cached[p] \in Agreed \cup {None} /\ "host" \in Side
      BY DEF TreesOK, Side
    <3> QED
      BY ONLY <3>1, LookForall DEF MaybeCopy, MaybeAgreed, MaybeSeen
  <2> QED
    BY <2>1 DEF ReadHost

\* A fresh run, or none, has everything it starts with in its type.
<1>FreshType. ASSUME TypeInv, NEW running \in BOOLEAN, Fresh(running)
              PROVE  /\ mem' \in Ledgers /\ LoopOK' /\ pass' \in Passes /\ StageOK'
                     /\ raced' \in BOOLEAN /\ missed' \in [Side -> SUBSET Path]
  <2> USE <1>FreshType
  <2>1. mem' \in Ledgers
    BY EmptyType, Zenon DEF TypeInv, TypeOK, LedgersOK, Fresh
  <2>2. LoopOK'
    BY EmptyType, ZenonT(30) DEF LoopOK, Fresh
  <2>3. StageOK'
    BY Zenon DEF StageOK, Fresh, NoPass
  <2> QED
    BY <2>1, <2>2, <2>3, EmptyType, ZenonT(30) DEF Fresh

\* A pass with nothing under way is in order.
<1>NoStage. pass'.stage = "none" => StageOK'
  BY Zenon DEF StageOK

\* Reading the host leaves a pass that has read nothing else yet.
<1>ReadType. ASSUME TypeInv, NEW mode \in {"pass", "reseed"}, NEW cached \in [Path -> Agreed \cup {None}],
                    NEW flying \in SUBSET Path, Read(mode, cached, flying)
             PROVE  /\ pc' = "read" /\ pass' \in Passes /\ StageOK' /\ faults' \in 0..MaxFaults
                    /\ missed' \in [Side -> SUBSET Path]
  <2> USE <1>ReadType, Zenon
  <2>1. PICK skip \in SUBSET Path :
          /\ Skipping(skip)
          /\ pass' = [NoPass EXCEPT
                        !.mode = mode, !.seen = ReadHost(cached, skip),
                        !.skips["host"] = skip, !.undecided = flying \cup skip,
                        !.taken = IF mode = "pass" THEN resolved ELSE NoAnswers]
          /\ missed' = [missed EXCEPT !["host"] =
               {p \in @ : \/ p \in skip
                          \/ /\ ReadHost(cached, skip)[p] # None
                             /\ ReadHost(cached, skip)[p].data = Vouched}]
    BY ZenonT(30) DEF Read
  <2>2. ReadHost(cached, skip) \in [Path -> Seen \cup {None}]
    BY <1>ReadHostType DEF TypeInv, TypeOK
  <2>3. (IF mode = "pass" THEN resolved ELSE NoAnswers) \in [Path -> Side \cup {None}]
    BY EmptyType DEF TypeInv, TypeOK, LoopOK
  <2>4. pass' \in Passes
    BY <2>1, <2>2, <2>3, EmptyType, ZenonT(30) DEF Passes, Side
  <2>5. StageOK'
    BY <2>1, EmptyType DEF StageOK, NoPass, Passes
  <2>6. faults' \in 0..MaxFaults
    BY <2>1, BoundAssumption, SMTT(30) DEF Skipping, Fault, TypeInv, TypeOK, CountersOK
  <2>7. missed' \in [Side -> SUBSET Path]
    BY <2>1, ZenonT(30) DEF TypeInv, TypeOK, HistoryOK
  <2> QED
    BY <2>4, <2>5, <2>6, <2>7 DEF Read

\* A pass given up leaves the loop with its answers back and a pass due.
<1>AbandonType. ASSUME TypeInv, Abandon
                PROVE  /\ pc' = "top" /\ pass' \in Passes /\ StageOK' /\ raced' \in BOOLEAN /\ due' \in BOOLEAN
                       /\ resolved' \in [Path -> Side \cup {None}]
                       /\ report' \in [halt : SUBSET Path, clean : BOOLEAN]
  <2> USE <1>AbandonType, Zenon
  <2>1. pass.taken \in [Path -> Side \cup {None}]
    BY DEF TypeInv, TypeOK, Passes
  <2>2. resolved' \in [Path -> Side \cup {None}]
    BY <2>1 DEF Abandon, Restored, TypeInv, TypeOK, LoopOK
  <2>3. report' \in [halt : SUBSET Path, clean : BOOLEAN]
    BY ZenonT(30) DEF Abandon, TypeInv, TypeOK, LoopOK
  <2>4. StageOK'
    BY DEF Abandon, StageOK, NoPass
  <2> QED
    BY <2>2, <2>3, <2>4, EmptyType, ZenonT(30) DEF Abandon

<1>WriteType. ASSUME TypeInv, NEW side \in Side, NEW p \in Path, Write(side, p)
              PROVE  TypeInv'
  <2> USE <1>WriteType, Zenon
  <2>1. LedgersOK' /\ pass' \in Passes /\ StageOK' /\ SnapOK' /\ CommandOK'
    BY DEF TypeInv, TypeOK, LedgersOK, StageOK, SnapOK, CommandOK, Write, command
  <2>2. TreesOK'
    BY SMTT(30) DEF TypeInv, TypeOK, TreesOK, Write, command, Copy
  <2>3. LoopOK'
    BY SMTT(30) DEF TypeInv, TypeOK, LoopOK, Write, command, Touched, Noticed
  <2>4. CountersOK'
    BY BoundAssumption, SMTT(30) DEF TypeInv, TypeOK, CountersOK, Write, command
  <2>5. HistoryOK'
    BY DEF TypeInv, TypeOK, HistoryOK, Write, command
  <2> QED
    BY <2>1, <2>2, <2>3, <2>4, <2>5 DEF TypeInv, TypeOK

<1>AskType. ASSUME TypeInv, Ask
            PROVE  TypeInv'
  <2> USE <1>AskType, Zenon
  <2>1. TreesOK' /\ LedgersOK' /\ pass' \in Passes /\ StageOK' /\ SnapOK' /\ CommandOK' /\ CountersOK' /\ HistoryOK'
    BY DEF TypeInv, TypeOK, TreesOK, LedgersOK, StageOK, SnapOK, CommandOK, CountersOK,
       HistoryOK, Ask, command, counters, ghosts
  <2>2. LoopOK'
    BY DEF TypeInv, TypeOK, LoopOK, Ask, command, counters, ghosts
  <2> QED
    BY <2>1, <2>2 DEF TypeInv, TypeOK

<1>ResolveType. ASSUME TypeInv, NEW p \in Path, NEW winner \in Side, Resolve(p, winner)
                PROVE  TypeInv'
  <2> USE <1>ResolveType, Zenon
  <2>1. TreesOK' /\ LedgersOK' /\ pass' \in Passes /\ StageOK' /\ SnapOK' /\ CommandOK' /\ HistoryOK'
    BY DEF TypeInv, TypeOK, TreesOK, LedgersOK, StageOK, SnapOK, CommandOK, HistoryOK,
       Resolve, command, ghosts
  <2>2. LoopOK'
    BY DEF TypeInv, TypeOK, LoopOK, Resolve, command, ghosts
  <2>3. CountersOK'
    BY BoundAssumption, SMTT(30) DEF TypeInv, TypeOK, CountersOK, Resolve, command, ghosts
  <2> QED
    BY <2>1, <2>2, <2>3 DEF TypeInv, TypeOK

<1>StartType. ASSUME TypeInv, Start
              PROVE  TypeInv'
  <2> USE <1>StartType, Zenon
  <2>1. LedgersOK' /\ LoopOK' /\ pass' \in Passes /\ StageOK' /\ HistoryOK'
    BY <1>FreshType, ZenonT(30) DEF TypeInv, TypeOK, LedgersOK, HistoryOK, Start
  <2>2. TreesOK' /\ CommandOK' /\ SnapOK'
    BY DEF TypeInv, TypeOK, TreesOK, CommandOK, SnapOK, Start, command, counters
  <2>3. CountersOK'
    BY DEF TypeInv, TypeOK, CountersOK, Start, command, counters
  <2> QED
    BY <2>1, <2>2, <2>3 DEF TypeInv, TypeOK

<1>StopType. ASSUME TypeInv, Stop
             PROVE  TypeInv'
  <2> USE <1>StopType, Zenon
  <2>1. LedgersOK' /\ LoopOK' /\ pass' \in Passes /\ StageOK' /\ HistoryOK'
    BY <1>FreshType, ZenonT(30) DEF TypeInv, TypeOK, LedgersOK, HistoryOK, Stop
  <2>2. TreesOK' /\ CommandOK' /\ SnapOK'
    BY DEF TypeInv, TypeOK, TreesOK, CommandOK, SnapOK, Stop, command, counters
  <2>3. CountersOK'
    BY DEF TypeInv, TypeOK, CountersOK, Stop, command, counters
  <2> QED
    BY <2>1, <2>2, <2>3 DEF TypeInv, TypeOK

<1>CrashType. ASSUME TypeInv, Crash
              PROVE  TypeInv'
  <2> USE <1>CrashType
  <2>1. LedgersOK' /\ LoopOK' /\ pass' \in Passes /\ StageOK' /\ HistoryOK'
    BY <1>FreshType, ZenonT(30) DEF TypeInv, TypeOK, LedgersOK, HistoryOK, Crash
  <2>2. TreesOK' /\ CommandOK' /\ SnapOK'
    BY ZenonT(30) DEF TypeInv, TypeOK, TreesOK, CommandOK, SnapOK, Crash
  <2>3. CountersOK'
    BY BoundAssumption DEF TypeInv, TypeOK, CountersOK, Crash, Fault
  <2> QED
    BY <2>1, <2>2, <2>3, Zenon DEF TypeInv, TypeOK

<1>SuspendType. ASSUME TypeInv, Suspend
                PROVE  TypeInv'
  <2> USE <1>SuspendType, Zenon
  <2>1. LedgersOK' /\ LoopOK' /\ pass' \in Passes /\ StageOK' /\ HistoryOK'
    BY <1>FreshType, ZenonT(30) DEF TypeInv, TypeOK, LedgersOK, HistoryOK, Suspend
  <2>2. TreesOK' /\ CommandOK' /\ SnapOK'
    BY DEF TypeInv, TypeOK, TreesOK, CommandOK, SnapOK, Suspend, counters
  <2>3. CountersOK'
    BY DEF TypeInv, TypeOK, CountersOK, Suspend, counters
  <2> QED
    BY <2>1, <2>2, <2>3 DEF TypeInv, TypeOK

<1>ResumeType. ASSUME TypeInv, Resume
               PROVE  TypeInv'
  <2> USE <1>ResumeType
  <2>1. LedgersOK' /\ LoopOK' /\ pass' \in Passes /\ StageOK' /\ HistoryOK'
    <3>1. CASE opRunning
      BY <3>1, <1>FreshType, ZenonT(30) DEF TypeInv, TypeOK, LedgersOK, HistoryOK, Resume
    <3>2. CASE ~opRunning
      BY <3>2 DEF TypeInv, TypeOK, LedgersOK, LoopOK, StageOK, HistoryOK, Resume, loop
    <3> QED
      BY <3>1, <3>2, Zenon
  <2>2. TreesOK' /\ CommandOK' /\ CountersOK' /\ SnapOK'
    BY ZenonT(30) DEF TypeInv, TypeOK, TreesOK, CommandOK, CountersOK, SnapOK, Resume, counters
  <2> QED
    BY <2>1, <2>2, Zenon DEF TypeInv, TypeOK

<1>SettleType. ASSUME TypeInv, NEW side \in Side, NEW p \in Path, Settle(side, p)
               PROVE  TypeInv'
  <2> USE <1>SettleType, Zenon
  <2>1. TreesOK' /\ LedgersOK' /\ pass' \in Passes /\ StageOK' /\ SnapOK' /\ CommandOK' /\ CountersOK' /\ HistoryOK'
    BY DEF TypeInv, TypeOK, TreesOK, LedgersOK, StageOK, SnapOK, CommandOK, CountersOK,
       HistoryOK, Settle, command, counters, ghosts
  <2>2. LoopOK'
    BY DEF TypeInv, TypeOK, LoopOK, Settle, command, counters, ghosts
  <2> QED
    BY <2>1, <2>2 DEF TypeInv, TypeOK

<1>LoseCoverageType. ASSUME TypeInv, NEW side \in Side, LoseCoverage(side)
                     PROVE  TypeInv'
  <2> USE <1>LoseCoverageType
  <2>1. TreesOK' /\ LedgersOK' /\ pass' \in Passes /\ StageOK' /\ SnapOK' /\ CommandOK' /\ HistoryOK'
    BY Zenon DEF TypeInv, TypeOK, TreesOK, LedgersOK, StageOK, SnapOK, CommandOK, HistoryOK,
       LoseCoverage, command, ghosts
  <2>2. LoopOK'
    BY DEF TypeInv, TypeOK, LoopOK, LoseCoverage, command, ghosts
  <2>3. CountersOK'
    BY BoundAssumption DEF TypeInv, TypeOK, CountersOK, LoseCoverage, command, ghosts, Fault
  <2> QED
    BY <2>1, <2>2, <2>3, Zenon DEF TypeInv, TypeOK

<1>HearOfLossType. ASSUME TypeInv, HearOfLoss
                   PROVE  TypeInv'
  <2> USE <1>HearOfLossType
  <2>1. TreesOK' /\ LedgersOK' /\ pass' \in Passes /\ StageOK' /\ SnapOK' /\ CommandOK' /\ CountersOK' /\ HistoryOK'
    BY Zenon DEF TypeInv, TypeOK, TreesOK, LedgersOK, StageOK, SnapOK, CommandOK, CountersOK,
       HistoryOK, HearOfLoss, command, counters, ghosts
  <2>2. LoopOK'
    BY ZenonT(30) DEF TypeInv, TypeOK, LoopOK, HearOfLoss, command, counters, ghosts
  <2> QED
    BY <2>1, <2>2, Zenon DEF TypeInv, TypeOK

<1>WatchDiesType. ASSUME TypeInv, WatchDies
                  PROVE  TypeInv'
  <2> USE <1>WatchDiesType
  <2>1. TreesOK' /\ LedgersOK' /\ pass' \in Passes /\ StageOK' /\ SnapOK' /\ CommandOK' /\ HistoryOK'
    BY Zenon DEF TypeInv, TypeOK, TreesOK, LedgersOK, StageOK, SnapOK, CommandOK, HistoryOK,
       WatchDies, command, ghosts
  <2>2. LoopOK'
    BY DEF TypeInv, TypeOK, LoopOK, WatchDies, command, ghosts, Side
  <2>3. CountersOK'
    BY BoundAssumption DEF TypeInv, TypeOK, CountersOK, WatchDies, command, ghosts, Fault
  <2> QED
    BY <2>1, <2>2, <2>3, Zenon DEF TypeInv, TypeOK

<1>DropWatchType. ASSUME TypeInv, DropWatch
                  PROVE  TypeInv'
  <2> USE <1>DropWatchType
  <2>1. TreesOK' /\ LedgersOK' /\ pass' \in Passes /\ StageOK' /\ SnapOK' /\ CommandOK' /\ CountersOK' /\ HistoryOK'
    BY Zenon DEF TypeInv, TypeOK, TreesOK, LedgersOK, StageOK, SnapOK, CommandOK, CountersOK,
       HistoryOK, DropWatch, command, counters, ghosts
  <2>2. LoopOK'
    BY ZenonT(30) DEF TypeInv, TypeOK, LoopOK, DropWatch, command, counters, ghosts
  <2> QED
    BY <2>1, <2>2, Zenon DEF TypeInv, TypeOK

<1>OpenWatchType. ASSUME TypeInv, OpenWatch
                  PROVE  TypeInv'
  <2> USE <1>OpenWatchType
  <2>1. TreesOK' /\ LedgersOK' /\ pass' \in Passes /\ StageOK' /\ SnapOK' /\ CommandOK' /\ CountersOK' /\ HistoryOK'
    BY Zenon DEF TypeInv, TypeOK, TreesOK, LedgersOK, StageOK, SnapOK, CommandOK, CountersOK,
       HistoryOK, OpenWatch, command, counters, ghosts
  <2>2. LoopOK'
    BY ZenonT(30) DEF TypeInv, TypeOK, LoopOK, OpenWatch, command, counters, ghosts
  <2> QED
    BY <2>1, <2>2, Zenon DEF TypeInv, TypeOK

<1>CaptureType. ASSUME TypeInv, Capture
                PROVE  TypeInv'
  <2> USE <1>CaptureType
  <2>1. LedgersOK' /\ LoopOK' /\ pass' \in Passes /\ StageOK' /\ SnapOK' /\ CommandOK' /\ CountersOK' /\ HistoryOK'
    BY DEF TypeInv, TypeOK, LedgersOK, LoopOK, StageOK, SnapOK, CommandOK, CountersOK,
       HistoryOK, Capture, loop, counters, ghosts
  <2>2. TreesOK'
    BY Zenon DEF TypeInv, TypeOK, TreesOK, Capture, loop, counters, ghosts, Side
  <2> QED
    BY <2>1, <2>2, Zenon DEF TypeInv, TypeOK

<1>BeginRestoreType. ASSUME TypeInv, NEW discard \in BOOLEAN, BeginRestore(discard)
                     PROVE  TypeInv'
  <2> USE <1>BeginRestoreType, Zenon
  <2>1. TreesOK' /\ LedgersOK' /\ LoopOK' /\ pass' \in Passes /\ StageOK' /\ SnapOK' /\ HistoryOK'
    BY SMTT(30) DEF TypeInv, TypeOK, TreesOK, LedgersOK, LoopOK, StageOK, SnapOK, HistoryOK,
       BeginRestore, loop, ghosts
  <2>2. CommandOK'
    BY DEF TypeInv, TypeOK, CommandOK, BeginRestore, loop, ghosts
  <2>3. CountersOK'
    <3>1. /\ edits' = edits /\ faults' = faults /\ answers' = answers
          /\ rewinds < MaxRewinds /\ rewinds' = rewinds + 1
      BY DEF BeginRestore
    <3>2. /\ edits \in 0..MaxEdits /\ faults \in 0..MaxFaults
          /\ rewinds \in 0..MaxRewinds /\ answers \in 0..MaxAnswers
      BY DEF TypeInv, TypeOK, CountersOK
    <3> QED
      BY <3>1, <3>2, BoundAssumption, SMTT(30) DEF CountersOK
  <2> QED
    BY <2>1, <2>2, <2>3 DEF TypeInv, TypeOK

<1>NoteRewoundType. ASSUME TypeInv, NoteRewound
                    PROVE  TypeInv'
  <2> USE <1>NoteRewoundType
  <2>1. TreesOK' /\ LoopOK' /\ pass' \in Passes /\ StageOK' /\ SnapOK' /\ HistoryOK'
    BY DEF TypeInv, TypeOK, TreesOK, LoopOK, StageOK, SnapOK, HistoryOK, NoteRewound, loop,
       ghosts
  <2>2. LedgersOK'
    BY ZenonT(30) DEF TypeInv, TypeOK, LedgersOK, NoteRewound, loop, ghosts, Ledgers
  <2>3. CommandOK'
    BY Zenon DEF TypeInv, TypeOK, CommandOK, NoteRewound, loop, ghosts
  <2>4. CountersOK'
    BY BoundAssumption DEF TypeInv, TypeOK, CountersOK, NoteRewound, loop, ghosts, Fault
  <2> QED
    BY <2>1, <2>2, <2>3, <2>4, Zenon DEF TypeInv, TypeOK

<1>RewindType. ASSUME TypeInv, Rewind
               PROVE  TypeInv'
  <2> USE <1>RewindType, Zenon
  <2>1. LedgersOK' /\ pass' \in Passes /\ StageOK' /\ SnapOK'
    BY DEF TypeInv, TypeOK, LedgersOK, StageOK, SnapOK, Rewind
  <2>2. TreesOK'
    BY SMTT(60) DEF TypeInv, TypeOK, TreesOK, Rewind, Side, SnapOK
  <2>3. LoopOK'
    BY DEF TypeInv, TypeOK, LoopOK, Rewind
  <2>4. CommandOK'
    BY DEF TypeInv, TypeOK, CommandOK, Rewind
  <2>5. CountersOK'
    BY BoundAssumption, SMTT(30) DEF TypeInv, TypeOK, CountersOK, Rewind, Fault
  <2>6. HistoryOK'
    BY DEF TypeInv, TypeOK, HistoryOK, Rewind
  <2> QED
    BY <2>1, <2>2, <2>3, <2>4, <2>5, <2>6 DEF TypeInv, TypeOK

<1>BeginReseedType. ASSUME TypeInv, BeginReseed
                    PROVE  TypeInv'
  <2> USE <1>BeginReseedType, Zenon
  <2>1. /\ pc' = "read" /\ pass' \in Passes /\ StageOK' /\ faults' \in 0..MaxFaults
        /\ missed' \in [Side -> SUBSET Path]
    <3>1. NoAgreement \in [Path -> Agreed \cup {None}]
      BY DEF NoAgreement
    <3> QED
      BY <3>1, <1>ReadType, SMTT(30) DEF BeginReseed
  <2>2. TreesOK' /\ LedgersOK' /\ SnapOK' /\ CommandOK'
    BY DEF TypeInv, TypeOK, TreesOK, LedgersOK, SnapOK, CommandOK, BeginReseed, command
  <2>3. LoopOK' /\ CountersOK' /\ HistoryOK'
    BY <2>1 DEF TypeInv, TypeOK, LoopOK, CountersOK, HistoryOK, BeginReseed
  <2> QED
    BY <2>1, <2>2, <2>3 DEF TypeInv, TypeOK

<1>BeginPassType. ASSUME TypeInv, BeginPass
                  PROVE  TypeInv'
  <2> USE <1>BeginPassType, Zenon
  <2>1. /\ pc' = "read" /\ pass' \in Passes /\ StageOK' /\ faults' \in 0..MaxFaults
        /\ missed' \in [Side -> SUBSET Path]
    <3> DEFINE cached == [p \in Path |-> Cached(p)]
    <3>1. cached \in [Path -> Agreed \cup {None}]
      BY DEF Cached, TypeInv, TypeOK, LedgersOK, Ledgers
    <3>2. PICK flying \in SUBSET (flight["host"] \cup flight["guest"]) : Read("pass", cached, flying)
      BY DEF BeginPass
    <3>3. flying \in SUBSET Path
      BY <3>2 DEF TypeInv, TypeOK, LoopOK, Side
    <3> HIDE DEF cached
    <3> QED
      BY <3>1, <3>2, <3>3, <1>ReadType
  <2>2. TreesOK' /\ LedgersOK' /\ SnapOK' /\ CommandOK'
    BY DEF TypeInv, TypeOK, TreesOK, LedgersOK, SnapOK, CommandOK, BeginPass, command
  <2>3. LoopOK'
    BY <2>1, EmptyType, ZenonT(30) DEF TypeInv, TypeOK, LoopOK, BeginPass
  <2>4. CountersOK' /\ HistoryOK'
    BY <2>1 DEF TypeInv, TypeOK, CountersOK, HistoryOK, BeginPass
  <2> QED
    BY <2>1, <2>2, <2>3, <2>4 DEF TypeInv, TypeOK

<1>PassFailsType. ASSUME TypeInv, PassFails
                  PROVE  TypeInv'
  <2> USE <1>PassFailsType, Zenon
  <2>1. TreesOK' /\ LedgersOK' /\ SnapOK' /\ CommandOK'
    BY ZenonT(30) DEF TypeInv, TypeOK, TreesOK, LedgersOK, SnapOK, CommandOK, PassFails, command
  <2>2. LoopOK'
    BY <1>AbandonType DEF TypeInv, TypeOK, LoopOK, PassFails
  <2>3. pass' \in Passes /\ StageOK' /\ raced' \in BOOLEAN
    BY <1>AbandonType DEF PassFails
  <2>4. CountersOK'
    BY BoundAssumption, SMTT(30) DEF TypeInv, TypeOK, CountersOK, PassFails, Fault
  <2>5. HistoryOK'
    BY <2>3 DEF TypeInv, TypeOK, HistoryOK, PassFails
  <2> QED
    BY <2>1, <2>2, <2>3, <2>4, <2>5 DEF TypeInv, TypeOK

<1>ProbeType. ASSUME TypeInv, Probe
              PROVE  TypeInv'
  <2> USE <1>ProbeType, Zenon
  <2>1. PICK skip \in SUBSET Path :
          Skipping(skip) /\ IF pass.mode = "pass" THEN Plan(skip) ELSE PlanReseed(skip)
    BY DEF Probe
  <2>2. /\ pass' \in Passes /\ pass'.stage = "none" /\ mem' \in Ledgers
        /\ registered' \in BOOLEAN /\ missed' \in [Side -> SUBSET Path] /\ rolled' \in SUBSET Path
    BY <2>1, PlanType, PlanReseedType, ZenonT(60) DEF Probe, TypeInv, TypeOK, LoopOK, HistoryOK
  <2>3. TreesOK' /\ SnapOK' /\ CommandOK'
    BY DEF TypeInv, TypeOK, TreesOK, SnapOK, CommandOK, Probe, command
  <2>4. LedgersOK' /\ LoopOK' /\ HistoryOK'
    BY <2>2 DEF TypeInv, TypeOK, LedgersOK, LoopOK, HistoryOK, Probe
  <2>5. CountersOK'
    BY <2>1, BoundAssumption, SMTT(60) DEF TypeInv, TypeOK, CountersOK, Skipping, Fault, Probe
  <2> QED
    BY <2>2, <2>3, <2>4, <2>5, <1>NoStage DEF TypeInv, TypeOK

<1>FailsType. ASSUME TypeInv, Fails
              PROVE  TypeInv'
  <2> USE <1>FailsType, Zenon
  <2>1. TreesOK' /\ LoopOK' /\ SnapOK' /\ CommandOK'
    BY SMTT(30) DEF TypeInv, TypeOK, TreesOK, LoopOK, SnapOK, CommandOK, Fails, applyFrame, command
  <2>2. LedgersOK'
    BY DEF TypeInv, TypeOK, LedgersOK, Fails, applyFrame, command, Ledgers, Passes, Action
  <2>3. pass' \in Passes
    BY ZenonT(40) DEF TypeInv, TypeOK, Passes, Fails, applyFrame, command, Failing, Passes, Action,
       Stages
  <2>4. StageOK'
    BY DEF TypeInv, TypeOK, StageOK, Fails, applyFrame, command, Failing, Passes, Stages
  <2>5. CountersOK'
    BY BoundAssumption, SMTT(30) DEF TypeInv, TypeOK, CountersOK, Fails, applyFrame, command, Fault
  <2>6. HistoryOK'
    BY DEF TypeInv, TypeOK, HistoryOK, Fails, applyFrame, command
  <2> QED
    BY <2>1, <2>2, <2>3, <2>4, <2>5, <2>6 DEF TypeInv, TypeOK

<1>AdoptHostType. ASSUME TypeInv, NEW p \in Path, AdoptHost(p)
                  PROVE  TypeInv'
  <2> USE <1>AdoptHostType, Zenon
  <2>1. TreesOK' /\ LedgersOK' /\ LoopOK' /\ SnapOK' /\ CommandOK' /\ CountersOK'
    BY SMTT(30) DEF TypeInv, TypeOK, TreesOK, LedgersOK, LoopOK, SnapOK, CommandOK, CountersOK,
       AdoptHost, applyFrame, command
  <2>2. pass' \in Passes
    <3>1. CASE pass' = [Failing(p) EXCEPT !.adopt[p] = None]
      BY <3>1, FailingType, <1>NoStage
    <3>2. CASE pass' = [pass EXCEPT !.act = [op |-> "adopt", path |-> p], !.stage = "adopt"]
      BY <3>2, ZenonT(30) DEF TypeInv, TypeOK, Passes, Stages
    <3> QED
      BY <3>1, <3>2 DEF AdoptHost
  <2>3. StageOK'
    <3>1. CASE pass' = [Failing(p) EXCEPT !.adopt[p] = None]
      BY <3>1, FailingType, <1>NoStage
    <3>2. CASE pass' = [pass EXCEPT !.act = [op |-> "adopt", path |-> p], !.stage = "adopt"]
      <4>1. pass'.act = [op |-> "adopt", path |-> p] /\ pass'.stage = "adopt" /\ pass'.adopt = pass.adopt
        BY <3>2 DEF TypeInv, TypeOK, Passes
      <4>2. pass.adopt[p] # None /\ pc' = "apply"
        BY DEF AdoptHost, applyFrame
      <4> QED
        BY <4>1, <4>2, SMTT(30) DEF StageOK
    <3> QED
      BY <3>1, <3>2 DEF AdoptHost
  <2>4. HistoryOK'
    BY DEF TypeInv, TypeOK, HistoryOK, AdoptHost, applyFrame, command
  <2> QED
    BY <2>1, <2>2, <2>3, <2>4 DEF TypeInv, TypeOK

<1>AdoptGuestType. ASSUME TypeInv, AdoptGuest
                   PROVE  TypeInv'
  <2> USE <1>AdoptGuestType, Zenon
  <2>1. TreesOK' /\ LoopOK' /\ SnapOK' /\ CommandOK' /\ CountersOK'
    <3>1. LoopOK'
      BY DEF TypeInv, TypeOK, LoopOK, AdoptGuest, applyFrame
    <3>2. TreesOK' /\ SnapOK' /\ CommandOK'
      BY DEF TypeInv, TypeOK, TreesOK, SnapOK, CommandOK, AdoptGuest, applyFrame, command
    <3>3. CountersOK'
      BY DEF TypeInv, TypeOK, CountersOK, AdoptGuest, applyFrame
    <3> QED
      BY <3>1, <3>2, <3>3
  <2>2. LedgersOK'
    <3> DEFINE p == pass.act.path
               m == pass.adopt[p]
               ok == Verified(tree["guest"][p],
                              [kind |-> KindOf(m.data), data |-> m.data, stamp |-> m.stamp["guest"]])
    <3>1. p \in Path /\ m \in Match /\ tree["guest"][p] \in Copy \cup {None}
      BY DEF TypeInv, TypeOK, TreesOK, StageOK, AdoptGuest, Passes, Side
    <3>2. CASE ok
      <4>1. m \in Agreed
        BY <3>1, <3>2, VerifiedMatch, ZenonT(30) DEF Side
      <4>2. mem' = [mem EXCEPT !.agreed[p] = m]
        BY <3>2 DEF AdoptGuest
      <4>3. mem \in Ledgers /\ disk' \in Ledgers
        BY DEF TypeInv, TypeOK, LedgersOK, AdoptGuest, applyFrame
      <4> HIDE DEF p, m
      <4> QED
        BY <3>1, <4>1, <4>2, <4>3 DEF LedgersOK, Ledgers
    <3>3. CASE ~ok
      BY <3>3 DEF TypeInv, TypeOK, LedgersOK, AdoptGuest, applyFrame
    <3> QED
      BY <3>2, <3>3
  <2>3. pass' \in Passes
    BY ZenonT(30) DEF TypeInv, TypeOK, Passes, AdoptGuest, applyFrame, command, StageOK, Failing, Passes,
       Stages
  <2>4. StageOK'
    BY DEF TypeInv, TypeOK, StageOK, AdoptGuest, applyFrame, command, Failing, Passes
  <2>5. HistoryOK'
    BY DEF TypeInv, TypeOK, HistoryOK, AdoptGuest, applyFrame, command
  <2> QED
    BY <2>1, <2>2, <2>3, <2>4, <2>5 DEF TypeInv, TypeOK

<1>TransferType. ASSUME TypeInv, NEW a \in pass.todo, Transfer(a)
                 PROVE  TypeInv'
  <2> USE <1>TransferType, Zenon
  <2>1. TreesOK' /\ LedgersOK' /\ LoopOK' /\ SnapOK' /\ CommandOK' /\ CountersOK'
    BY SMTT(30) DEF TypeInv, TypeOK, TreesOK, LedgersOK, LoopOK, SnapOK, CommandOK, CountersOK,
       Transfer, applyFrame, command
  <2>2. pass' \in Passes
    <3>1. a \in Action /\ a.path \in Path
      BY DEF TypeInv, TypeOK, Passes, Action
    <3>2. CASE pass' = [Failing(a.path) EXCEPT !.todo = @ \ {a}]
      BY <3>1, <3>2, FailingType, <1>NoStage, ZenonT(30)
    <3>3. CASE /\ pass' = [pass EXCEPT !.todo = @ \ {a}, !.act = a,
                                       !.stage = IF IsTransfer(a) THEN "sent" ELSE "ready"]
               /\ IsTransfer(a) => /\ tree[Other(a.to)][a.path] # None
                                   /\ tree[Other(a.to)][a.path].data = a.data
      BY <3>1, <3>3, ZenonT(30) DEF TypeInv, TypeOK, Passes, Stages
    <3> QED
      BY <3>2, <3>3 DEF Transfer
  <2>3. StageOK'
    <3>1. a \in Action /\ a.path \in Path
      BY DEF TypeInv, TypeOK, Passes, Action
    <3>2. CASE pass' = [Failing(a.path) EXCEPT !.todo = @ \ {a}]
      BY <3>1, <3>2, FailingType, <1>NoStage, ZenonT(30)
    <3>3. CASE /\ pass' = [pass EXCEPT !.todo = @ \ {a}, !.act = a,
                                       !.stage = IF IsTransfer(a) THEN "sent" ELSE "ready"]
               /\ IsTransfer(a) => /\ tree[Other(a.to)][a.path] # None
                                   /\ tree[Other(a.to)][a.path].data = a.data
      <4>1. a.to \in Side
        BY <3>1 DEF Action
      <4>2. Other(a.to) \in Side
        BY <4>1, OtherType
      <4>3. a.op = "put" => a.data \in Data
        BY <3>1, <3>3, <4>2, DataAssumption, SMTT(30) DEF IsTransfer, TypeInv, TypeOK, TreesOK, Copy
      <4>4. pass'.act = a /\ pass'.stage = IF IsTransfer(a) THEN "sent" ELSE "ready"
        BY <3>3 DEF TypeInv, TypeOK, Passes
      <4>5. pc' = "apply"
        BY DEF Transfer, applyFrame
      <4> QED
        BY <3>1, <4>3, <4>4, <4>5 DEF StageOK, IsTransfer
    <3> QED
      BY <3>2, <3>3 DEF Transfer
  <2>4. HistoryOK'
    BY ZenonT(30) DEF TypeInv, TypeOK, HistoryOK, Transfer, applyFrame, command
  <2> QED
    BY <2>1, <2>2, <2>3, <2>4 DEF TypeInv, TypeOK

<1>RecheckType. ASSUME TypeInv, Recheck
                PROVE  TypeInv'
  <2> USE <1>RecheckType
  <2>1. TreesOK' /\ LedgersOK' /\ LoopOK' /\ SnapOK' /\ CommandOK' /\ CountersOK'
    BY DEF TypeInv, TypeOK, TreesOK, LedgersOK, LoopOK, SnapOK, CommandOK, CountersOK,
       Recheck, applyFrame, command
  <2>2. pass' \in Passes
    BY ZenonT(40) DEF TypeInv, TypeOK, Passes, Recheck, applyFrame, command, StageOK, Failing, Passes,
       Stages, Action
  <2>3. StageOK'
    BY Zenon DEF TypeInv, TypeOK, StageOK, Recheck, applyFrame, command, Failing, Passes
  <2>4. HistoryOK'
    BY ZenonT(60) DEF TypeInv, TypeOK, HistoryOK, Recheck, applyFrame, command
  <2> QED
    BY <2>1, <2>2, <2>3, <2>4, Zenon DEF TypeInv, TypeOK

<1>RecordType. ASSUME TypeInv, Record
               PROVE  TypeInv'
  <2> USE <1>RecordType, Zenon
  <2>1. TreesOK' /\ LoopOK' /\ SnapOK' /\ CommandOK' /\ CountersOK'
    <3>1. LoopOK'
      BY DEF TypeInv, TypeOK, LoopOK, Record, applyFrame
    <3>2. TreesOK' /\ SnapOK' /\ CommandOK'
      BY DEF TypeInv, TypeOK, TreesOK, SnapOK, CommandOK, Record, applyFrame, command
    <3>3. CountersOK'
      BY DEF TypeInv, TypeOK, CountersOK, Record, applyFrame
    <3> QED
      BY <3>1, <3>2, <3>3
  <2>2. LedgersOK'
    <3> DEFINE a == pass.act
               copy == tree[a.to][a.path]
               now == [data |-> a.data,
                       stamp |-> [side \in Side |-> IF side = a.to THEN copy.stamp ELSE a.stamp]]
    <3>1. a \in Action /\ a.op = "put" /\ a.data \in Data
      BY DEF TypeInv, StageOK, Record
    <3>2. a.to \in Side /\ a.path \in Path /\ a.stamp \in Stamp
      BY <3>1 DEF Action
    <3>3. copy \in Copy \cup {None}
      BY <3>2 DEF TypeInv, TypeOK, TreesOK
    <3>4. copy # None => now \in Agreed
      BY <3>1, <3>2, <3>3 DEF Agreed, Copy
    <3>5. \/ copy # None /\ mem' = [mem EXCEPT !.agreed[a.path] = now]
          \/ mem' = [mem EXCEPT !.agreed[a.path] = None]
      BY ZenonT(30) DEF Record
    <3> HIDE DEF now, copy, a
    <3>6. mem' \in Ledgers
      BY <3>2, <3>4, <3>5, SMTT(30) DEF TypeInv, TypeOK, LedgersOK, Ledgers
    <3> QED
      BY <3>6, ZenonT(60) DEF TypeInv, TypeOK, LedgersOK, Record, applyFrame
  <2>3. pass' \in Passes
    BY ZenonT(40) DEF TypeInv, TypeOK, Passes, Record, applyFrame, command, StageOK, Failing, Passes,
       Stages, Action
  <2>4. StageOK'
    BY DEF TypeInv, TypeOK, StageOK, Record, applyFrame, command, Failing, Passes
  <2>5. HistoryOK'
    BY DEF TypeInv, TypeOK, HistoryOK, Record, applyFrame, command
  <2> QED
    BY <2>1, <2>2, <2>3, <2>4, <2>5 DEF TypeInv, TypeOK

<1>CommitType. ASSUME TypeInv, Commit
               PROVE  TypeInv'
  <2> USE <1>CommitType
  \* What no commit touches.
  <2>CommitFrame. ASSUME Commit
                  PROVE  UNCHANGED <<disk, snap, op, opRunning>> /\ raced' = FALSE
    <3> USE <2>CommitFrame
    <3>1. UNCHANGED applyFrame /\ raced' = FALSE
      BY ZenonT(30) DEF Commit
    <3> QED
      BY <3>1, Zenon DEF applyFrame, command
  <2>ReplaceType. \A t \in Trees, side \in Side, p \in Path :
                       /\ [t EXCEPT ![side][p] = None] \in Trees
                       /\ \A c \in Copy : [t EXCEPT ![side][p] = c] \in Trees
    BY Zenon DEF Trees
  <2>RemoveType. ASSUME TypeInv, Commit, Remove(pass.act, tree[pass.act.to][pass.act.path]), UNCHANGED held
                 PROVE  TypeInv'
    <3> USE <2>RemoveType
    \* An action that is over, its destination known to be gone or not.
    <3>EndedType. ASSUME NEW q \in Passes, NEW p \in Path
                  PROVE  /\ [q EXCEPT !.act = None, !.stage = "none"] \in Passes
                         /\ [q EXCEPT !.act = None, !.stage = "none", !.expected[p] = None] \in Passes
      BY ZenonT(30) DEF Passes, Stages
    <3> USE Zenon
    <3> DEFINE a == pass.act
               p == pass.act.path
    <3>0. a.to \in Side /\ p \in Path /\ pc' = "apply"
      BY CommitActs
    <3>1. SnapOK' /\ CommandOK'
      BY <2>CommitFrame DEF TypeInv, TypeOK, SnapOK, CommandOK
    <3> DEFINE copy == tree[a.to][p]
    <3>2. /\ tree' = tree \/ tree' = [tree EXCEPT ![a.to][p] = None]
          /\ mem' = mem \/ mem' = [mem EXCEPT !.agreed[p] = None]
          /\ flight' = flight \/ flight' = Touched(a.to, p)
          /\ rolled' = rolled \/ rolled' = rolled \ {p}
          /\ faults' = faults \/ Fault
          /\ \/ pass' = Failing(p)
             \/ pass' = [pass EXCEPT !.act = None, !.stage = "none"]
             \/ pass' = [pass EXCEPT !.act = None, !.stage = "none", !.expected[p] = None]
      BY RemoveEnds, ZenonT(60)
    <3> HIDE DEF a, p
    <3>3. TreesOK'
      <4>1. tree \in Trees
        BY DEF TypeInv, TypeOK, TreesOK, Trees
      <4>2. tree' \in Trees
        BY <3>0, <3>2, <4>1, <2>ReplaceType, SMTT(30)
      <4> QED
        BY <4>2, <2>CommitFrame DEF TypeInv, TypeOK, TreesOK, Trees
    <3>4. LedgersOK'
      BY <3>0, <3>2, SMTT(60) DEF TypeInv, TypeOK, LedgersOK, Ledgers, Commit, applyFrame
    <3>5. LoopOK'
      <4>1. flight' \in [Side -> SUBSET Path]
        BY <3>0, <3>2, SMTT(30) DEF TypeInv, TypeOK, LoopOK, Touched
      <4> QED
        BY <4>1 DEF TypeInv, TypeOK, LoopOK, Commit, applyFrame
    <3>6. pass' \in Passes /\ pass'.stage = "none"
      <4>1. CASE pass' = Failing(p)
        BY <3>0, <4>1, FailingType, ZenonT(30)
      <4>2. CASE \/ pass' = [pass EXCEPT !.act = None, !.stage = "none"]
                 \/ pass' = [pass EXCEPT !.act = None, !.stage = "none", !.expected[p] = None]
        <5>1. pass' \in Passes
          BY <3>0, <4>2, <3>EndedType, ZenonT(30) DEF TypeInv, TypeOK
        <5>2. pass'.stage = "none"
          BY <4>2, ZenonT(30) DEF TypeInv, TypeOK, Passes
        <5> QED
          BY <5>1, <5>2
      <4> QED
        BY <3>2, <4>1, <4>2
    <3>7. CountersOK'
      BY <3>2, BoundAssumption, SMTT(30) DEF TypeInv, TypeOK, CountersOK, Fault, Commit, applyFrame
    <3>8. HistoryOK'
      BY <3>2, ZenonT(30) DEF TypeInv, TypeOK, HistoryOK, Commit, applyFrame
    <3> QED
      BY <3>1, <3>3, <3>4, <3>5, <3>6, <3>7, <3>8, <1>NoStage DEF TypeInv, TypeOK
  <2>PutType. ASSUME TypeInv, Commit, pass.act.op = "put", Put(pass.act, tree[pass.act.to][pass.act.path]),
                     UNCHANGED mem
              PROVE  TypeInv'
    <3> USE <2>PutType
    \* So does holding one more content.
    <3>HoldType. ASSUME NEW h \in Helds, NEW side \in Side, NEW p \in Path, NEW d \in Data
                 PROVE  [h EXCEPT ![side][p] = @ \cup {d}] \in Helds
      <4> USE Zenon
      <4>1. h[side] \in [Path -> SUBSET Data]
        BY DEF Helds
      <4>2. [h[side] EXCEPT ![p] = @ \cup {d}] \in [Path -> SUBSET Data]
        BY <4>1
      <4> QED
        BY <4>2 DEF Helds
    <3> USE Zenon
    <3> DEFINE a == pass.act
               p == pass.act.path
    <3>0. a \in Action /\ a.to \in Side /\ p \in Path /\ a.data \in Data /\ pc' = "apply"
      BY CommitActs
    <3>1. LedgersOK' /\ SnapOK' /\ CommandOK'
      BY <2>CommitFrame DEF TypeInv, TypeOK, LedgersOK, SnapOK, CommandOK
    <3> DEFINE copy == tree[a.to][p]
    <3>2. /\ \/ tree' = tree
             \/ \E s \in Stamp : tree' = [tree EXCEPT ![a.to][p] = [data |-> a.data, stamp |-> s]]
          /\ held' = held \/ held' = [held EXCEPT ![a.to][p] = @ \cup {a.data}]
          /\ flight' = flight \/ flight' = Touched(a.to, p)
          /\ rolled' = rolled \/ rolled' = rolled \ {p}
          /\ faults' = faults \/ Fault
          /\ pass' = Failing(p) \/ pass' = [pass EXCEPT !.stage = "placed"]
      BY PutEnds, ZenonT(30)
    <3>3. TreesOK'
      <4>1. snap' = snap
        BY DEF Commit, applyFrame, command
      <4>2. tree \in Trees /\ held \in Helds
        BY DEF TypeInv, TypeOK, TreesOK, Trees, Helds
      <4>3. \A s \in Stamp : [data |-> a.data, stamp |-> s] \in Copy
        BY <3>0 DEF Copy
      <4> HIDE DEF a, p
      <4>4. held' \in Helds
        <5> DEFINE to == a.to
                   d == a.data
        <5>1. to \in Side /\ p \in Path /\ d \in Data
          BY <3>0
        <5>2. held' = held \/ held' = [held EXCEPT ![to][p] = @ \cup {d}]
          BY <3>2
        <5> HIDE DEF to, d
        <5> QED
          BY <4>2, <5>1, <5>2, <3>HoldType, SMTT(30)
      <4>5. tree' \in Trees
        <5>1. CASE tree' = tree
          BY <4>2, <5>1
        <5>2. CASE \E s \in Stamp : tree' = [tree EXCEPT ![a.to][p] = [data |-> a.data, stamp |-> s]]
          <6>1. PICK c \in Copy : tree' = [tree EXCEPT ![a.to][p] = c]
            BY <4>3, <5>2, ZenonT(30)
          <6> QED
            BY <3>0, <4>2, <6>1, <2>ReplaceType, ZenonT(30)
        <5> QED
          BY <3>2, <5>1, <5>2, ZenonT(30)
      <4> QED
        BY <4>1, <4>4, <4>5 DEF TypeInv, TypeOK, TreesOK, Trees, Helds
    <3>4. LoopOK'
      <4>1. flight' \in [Side -> SUBSET Path]
        BY <3>0, <3>2, SMTT(60) DEF TypeInv, TypeOK, LoopOK, Touched
      <4> QED
        BY <4>1 DEF TypeInv, TypeOK, LoopOK, Commit, applyFrame
    <3>5. pass' \in Passes /\ StageOK'
      <4>1. CASE pass' = Failing(p)
        BY <3>0, <4>1, FailingType, <1>NoStage, ZenonT(30)
      <4>2. CASE pass' = [pass EXCEPT !.stage = "placed"]
        <5>1. pass' \in Passes /\ pass'.stage = "placed" /\ pass'.act = pass.act
          BY <4>2 DEF TypeInv, TypeOK, Passes, Stages
        <5> QED
          BY <3>0, <5>1 DEF StageOK
      <4> QED
        BY <3>2, <4>1, <4>2
    <3>6. CountersOK'
      BY <3>2, BoundAssumption, SMTT(30) DEF TypeInv, TypeOK, CountersOK, Fault, Commit, applyFrame
    <3>7. HistoryOK'
      BY <3>2, ZenonT(30) DEF TypeInv, TypeOK, HistoryOK, Commit, applyFrame
    <3> QED
      BY <3>1, <3>3, <3>4, <3>5, <3>6, <3>7 DEF TypeInv, TypeOK
  <2> QED
    BY <2>RemoveType, <2>PutType, ZenonT(30) DEF Commit

<1>FinishPassType. ASSUME TypeInv, FinishPass
                   PROVE  TypeInv'
  <2> USE <1>FinishPassType, Zenon
  <2>1. TreesOK' /\ SnapOK' /\ CommandOK' /\ CountersOK'
    BY DEF TypeInv, TypeOK, TreesOK, SnapOK, CommandOK, CountersOK, FinishPass, finishFrame, command
  <2>2. LedgersOK'
    BY DEF TypeInv, TypeOK, LedgersOK, Ledgers, Passes, FinishPass
  <2>3. LoopOK'
    <3>1. pass.taken \in [Path -> Side \cup {None}] /\ pass.halt \in SUBSET Path
             /\ pass.failed \in SUBSET Path /\ pass.later \in [Side -> SUBSET Path]
      BY DEF TypeInv, TypeOK, Passes
    <3>2. resolved' \in [Path -> Side \cup {None}]
      BY <3>1 DEF FinishPass, Restored, TypeInv, TypeOK, LoopOK
    <3>3. report' \in [halt : SUBSET Path, clean : BOOLEAN]
      BY <3>1, SMTT(30) DEF FinishPass
    <3>4. dirty' \in [Side -> SUBSET Path]
      BY <3>1, SMTT(30) DEF FinishPass, Side
    <3> QED
      BY <3>2, <3>3, <3>4, ZenonT(30) DEF TypeInv, TypeOK, LoopOK, FinishPass, finishFrame
  <2>4. pass' \in Passes /\ StageOK'
    BY EmptyType, <1>NoStage DEF FinishPass, NoPass
  <2>5. HistoryOK'
    BY ZenonT(30) DEF TypeInv, TypeOK, HistoryOK, FinishPass, finishFrame
  <2> QED
    BY <2>1, <2>2, <2>3, <2>4, <2>5 DEF TypeInv, TypeOK

<1>SaveFailsType. ASSUME TypeInv, SaveFails
                  PROVE  TypeInv'
  <2> USE <1>SaveFailsType, Zenon
  <2>1. TreesOK' /\ SnapOK' /\ CommandOK'
    BY DEF TypeInv, TypeOK, TreesOK, SnapOK, CommandOK, SaveFails, finishFrame, command
  <2>2. LedgersOK'
    BY ZenonT(30) DEF TypeInv, TypeOK, LedgersOK, Ledgers, Passes, SaveFails
  <2>3. LoopOK'
    BY <1>AbandonType DEF TypeInv, TypeOK, LoopOK, SaveFails, finishFrame
  <2>4. pass' \in Passes /\ StageOK' /\ raced' \in BOOLEAN
    BY <1>AbandonType DEF SaveFails
  <2>5. CountersOK'
    BY BoundAssumption, SMTT(30) DEF TypeInv, TypeOK, CountersOK, SaveFails, Fault, finishFrame
  <2>6. HistoryOK'
    <3>1. pass.failed \in SUBSET Path /\ pass.later["guest"] \in SUBSET Path
      BY DEF TypeInv, TypeOK, Passes, Side
    <3> QED
      BY <2>4, <3>1, ZenonT(30) DEF TypeInv, TypeOK, HistoryOK, SaveFails, finishFrame
  <2> QED
    BY <2>1, <2>2, <2>3, <2>4, <2>5, <2>6 DEF TypeInv, TypeOK

<1>FinishReseedType. ASSUME TypeInv, FinishReseed
                     PROVE  TypeInv'
  <2> USE <1>FinishReseedType, Zenon
  <2>1. TreesOK' /\ SnapOK' /\ CommandOK' /\ CountersOK'
    BY DEF TypeInv, TypeOK, TreesOK, SnapOK, CommandOK, CountersOK, FinishReseed, command, counters
  <2>2. LedgersOK'
    BY ZenonT(30) DEF TypeInv, TypeOK, LedgersOK, Ledgers, FinishReseed, Complete
  <2>3. LoopOK'
    BY DEF TypeInv, TypeOK, LoopOK, FinishReseed, Complete
  <2>4. pass' \in Passes /\ StageOK'
    BY EmptyType, <1>NoStage DEF FinishReseed, NoPass
  <2>5. HistoryOK'
    BY ZenonT(30) DEF TypeInv, TypeOK, HistoryOK, FinishReseed
  <2> QED
    BY <2>1, <2>2, <2>3, <2>4, <2>5 DEF TypeInv, TypeOK
<1> SUFFICES ASSUME TypeInv, [Next]_vars
             PROVE  TypeInv'
  BY Zenon
<1> USE Zenon
<1>1. CASE Environment
  BY <1>1, <1>WriteType, <1>AskType, <1>ResolveType, <1>StartType, <1>StopType, <1>CrashType, <1>LoseCoverageType,
     <1>WatchDiesType, <1>PassFailsType, <1>FailsType, <1>SaveFailsType, <1>CaptureType, <1>BeginRestoreType
     DEF Environment
<1>2. CASE Waking
  BY <1>2, <1>SettleType, <1>HearOfLossType, <1>DropWatchType DEF Waking
<1>3. CASE Working
  BY <1>3, <1>OpenWatchType, <1>BeginReseedType, <1>BeginPassType, <1>ProbeType, <1>AdoptHostType,
     <1>AdoptGuestType, <1>TransferType, <1>RecheckType, <1>CommitType, <1>RecordType, <1>FinishPassType,
     <1>FinishReseedType DEF Working
<1>4. CASE Restoring
  BY <1>4, <1>SuspendType, <1>NoteRewoundType, <1>RewindType, <1>ResumeType DEF Restoring
<1>5. CASE UNCHANGED vars
  <2>1. TreesOK' /\ LedgersOK' /\ HistoryOK'
    BY <1>5 DEF vars, command, ghosts, TypeInv, TypeOK, TreesOK, LedgersOK, HistoryOK
  <2>2. LoopOK'
    BY <1>5 DEF vars, loop, TypeInv, TypeOK, LoopOK
  <2>3. pass' \in Passes /\ StageOK' /\ SnapOK'
    <3>1. pc' = pc /\ pass' = pass /\ op' = op /\ snap' = snap
      BY <1>5 DEF vars, loop, command
    <3> QED
      BY <3>1 DEF TypeInv, TypeOK, StageOK, SnapOK
  <2>4. CommandOK' /\ CountersOK'
    BY <1>5 DEF vars, command, counters, TypeInv, TypeOK, CommandOK, CountersOK
  <2> QED
    BY <2>1, <2>2, <2>3, <2>4, ZenonT(60) DEF TypeInv, TypeOK
<1> QED
  BY <1>1, <1>2, <1>3, <1>4, <1>5 DEF Next

\* The types hold of every behaviour, whatever the paths, contents and bounds.
THEOREM TypeCorrect == Spec => []TypeOK
<1>1. TypeInv => TypeOK
  BY Zenon DEF TypeInv
<1> QED
  BY InitType, StepType, <1>1, PTL DEF Spec

-----------------------------------------------------------------------------
\* An action of the pass is under way.
Active == {"sent", "ready", "placed"}

-----------------------------------------------------------------------------
(* What a step of the apply does to its pass. *)

\* What the plan laid down stays as it is.
SamePlan(q) ==
    /\ q.mode = pass.mode /\ q.taken = pass.taken /\ q.halt = pass.halt
    /\ q.records = pass.records /\ q.refused = pass.refused /\ q.undecided = pass.undecided
    /\ q.later = pass.later

\* An action that failed is named, and is over.
LEMMA FailingFields ==
    ASSUME pass \in Passes, NEW p \in Path
    PROVE  /\ SamePlan(Failing(p)) /\ Failing(p).todo = pass.todo
           /\ Failing(p).failed = pass.failed \cup {p} /\ Failing(p).stage = "none"
           /\ Failing(p).adopt = pass.adopt
BY Zenon DEF SamePlan, Failing, Passes

\* An adoption that failed is named and forgotten, and no other is.
LEMMA FailedAdoption ==
    ASSUME pass \in Passes, NEW p \in Path, pass' = [Failing(p) EXCEPT !.adopt[p] = None]
    PROVE  /\ SamePlan(pass') /\ pass'.todo = pass.todo
           /\ pass'.failed = pass.failed \cup {p} /\ pass'.stage = "none"
           /\ \A o \in Path : o # p => pass'.adopt[o] = pass.adopt[o]
<1>1. /\ Failing(p).adopt \in [Path -> Match \cup {None}]
      /\ DOMAIN Failing(p) = DOMAIN pass
  BY Zenon DEF Failing, Passes
<1> QED
  BY <1>1, Zenon DEF SamePlan, Failing, Passes

\* A transfer that failed is named, and is off the list.
LEMMA FailedTransfer ==
    ASSUME pass \in Passes, NEW p \in Path, NEW a, pass' = [Failing(p) EXCEPT !.todo = @ \ {a}]
    PROVE  /\ SamePlan(pass') /\ pass'.todo = pass.todo \ {a}
           /\ pass'.failed = pass.failed \cup {p} /\ pass'.stage = "none" /\ pass'.adopt = pass.adopt
BY Zenon DEF SamePlan, Failing, Passes

\* An action that succeeded is over.
LEMMA OverFields ==
    ASSUME pass \in Passes, NEW p \in Path,
           \/ pass' = [pass EXCEPT !.act = None, !.stage = "none"]
           \/ pass' = [pass EXCEPT !.act = None, !.stage = "none", !.expected[p] = None]
    PROVE  /\ SamePlan(pass') /\ pass'.todo = pass.todo /\ pass'.failed = pass.failed /\ pass'.stage = "none"
           /\ pass'.adopt = pass.adopt
<1> USE Zenon
<1>1. CASE pass' = [pass EXCEPT !.act = None, !.stage = "none"]
  BY <1>1 DEF SamePlan, Passes
<1>2. CASE pass' = [pass EXCEPT !.act = None, !.stage = "none", !.expected[p] = None]
  BY <1>2 DEF SamePlan, Passes
<1> QED
  BY <1>1, <1>2

\* No action is under way where there is none.
LEMMA NoAct ==
    ASSUME TypeInv, pass.act = None
    PROVE  pass.stage \notin Active
BY NoneAssumption, Zenon DEF TypeInv, StageOK, Active

\* What a re-seed carries into its apply.
LEMMA PlanReseedFields ==
    ASSUME TypeInv, NEW skip \in SUBSET Path, PlanReseed(skip)
    PROVE  LET plan == Reseed([host |-> pass.seen, guest |-> ReadGuest(skip)], pass.undecided \cup skip)
           IN  /\ pass'.mode = pass.mode /\ pass'.taken = pass.taken /\ pass'.halt = pass.halt
               /\ pass'.undecided = pass.undecided \cup skip
               /\ pass'.adopt = plan.adopt /\ pass'.todo = plan.actions /\ pass'.refused = plan.refused
<1> DEFINE plan == Reseed([host |-> pass.seen, guest |-> ReadGuest(skip)], pass.undecided \cup skip)
<1>1. pass \in Passes
  BY Zenon DEF TypeInv, TypeOK
<1>2. PICK e : pass' = [pass EXCEPT
              !.seen = NoAgreement, !.undecided = pass.undecided \cup skip,
              !.adopt = plan.adopt, !.todo = plan.actions, !.expected = e, !.refused = plan.refused]
  BY ZenonT(30) DEF PlanReseed
<1> HIDE DEF plan
<1>3. /\ pass'.mode = pass.mode /\ pass'.taken = pass.taken /\ pass'.halt = pass.halt
      /\ pass'.undecided = pass.undecided \cup skip
      /\ pass'.adopt = plan.adopt /\ pass'.todo = plan.actions /\ pass'.refused = plan.refused
  BY <1>1, <1>2, Zenon DEF Passes
<1> QED
  BY <1>3, ZenonT(30) DEF plan

\* A re-seed has something to do about every path either side holds, or
\* refuses it.
LEMMA ReseedCovers ==
    ASSUME NEW seen \in [Side -> [Path -> Seen \cup {None}]], NEW undecided, NEW p \in Path \ undecided,
           ~Gone(At(seen, p))
    PROVE  LET plan == Reseed(seen, undecided)
           IN  \/ plan.adopt[p] # None \/ p \in plan.refused
               \/ \E a \in plan.actions : a.path = p
<1> USE Zenon
<1> DEFINE same(q) == Matching(At(seen, q), None) /\ seen["host"][q].data # Unhashed
           acts(q) == IF seen["host"][q] = None
                      THEN IF seen["guest"][q] = None THEN {}
                           ELSE {Removal("guest", q, seen["guest"][q].kind)}
                      ELSE IF same(q) THEN {}
                      ELSE Clearing("guest", q, seen["host"][q], seen["guest"][q])
                             \cup Placement("guest", q, seen["host"][q], None)
           plan == Reseed(seen, undecided)
<1>1. /\ plan.adopt[p] = IF same(p) THEN AgreedOn(At(seen, p), None) ELSE None
      /\ p \in plan.refused <=> seen["host"][p] # None /\ ~same(p) /\ Refused(seen["host"][p])
      /\ plan.actions = UNION {acts(q) : q \in Path \ undecided}
  BY ZenonT(60) DEF Reseed
<1>2. acts(p) \subseteq plan.actions
  BY <1>1, ZenonT(30)
<1>3. same(p) => AgreedOn(At(seen, p), None) # None
  <2>1. At(seen, p) \in [Side -> Seen \cup {None}]
    BY DEF At
  <2>2. same(p) => AgreedOn(At(seen, p), None) \in Match
    BY <2>1, AgreedOnType
  <2> QED
    BY <2>2, NoneAssumption
<1>4. seen["host"][p] # None \/ seen["guest"][p] # None
  BY DEF Gone, At, Side
<1>5. \/ same(p)
      \/ seen["host"][p] # None /\ ~same(p) /\ Refused(seen["host"][p])
      \/ \E a \in acts(p) : a.path = p
  <2>1. CASE seen["host"][p] = None
    <3>1. Removal("guest", p, seen["guest"][p].kind) \in acts(p)
      BY <1>4, <2>1
    <3> QED
      BY <3>1 DEF Removal
  <2>2. CASE seen["host"][p] # None /\ ~same(p) /\ ~Refused(seen["host"][p])
    <3>1. PICK put \in Placement("guest", p, seen["host"][p], None) : put.path = p
      BY <2>2 DEF Placement
    <3> QED
      BY <2>2, <3>1
  <2> QED
    BY <2>1, <2>2
<1> HIDE DEF plan, acts, same
<1>6. \/ plan.adopt[p] # None \/ p \in plan.refused
      \/ \E a \in plan.actions : a.path = p
  BY <1>1, <1>2, <1>3, <1>5
<1> QED
  BY <1>6, ZenonT(30) DEF plan

-----------------------------------------------------------------------------
(* The ledger. *)

\* A ledger names only contents that both sides have held.
LedgerHeld(ledger) ==
    \A p \in Path : ledger.agreed[p] # None =>
        \A side \in Side : ledger.agreed[p].data \in held[side][p]

\* A copy on a side is one the side has held, and so is one in the snapshot.
TreeHeld ==
    \A side \in Side, p \in Path :
        tree[side][p] # None => tree[side][p].data \in held[side][p]

\* And so is one in the snapshot.
SnapHeld ==
    snap # None => \A p \in Path : snap[p] # None => snap[p].data \in held["guest"][p]

\* What the pass read on the host, the host has held.
SeenHeld ==
    \A p \in Path : pass.seen[p] # None /\ pass.seen[p].data \in Data
        => pass.seen[p].data \in held["host"][p]

\* What is to be placed on one side, the other one has held.
SentHeld(a) == a.op = "put" /\ a.data \in Data => a.data \in held[Other(a.to)][a.path]

\* So it is with all the pass has left to do.
TodoHeld == \A a \in pass.todo : SentHeld(a)

\* And with the action or the adoption under way.
ActHeld ==
    /\ pass.stage \in {"sent", "ready", "placed"} => SentHeld(pass.act)
    /\ pass.stage = "adopt" =>
         pass.adopt[pass.act.path].data \in held["host"][pass.act.path]

\* The inductive invariant behind LedgerTruth.
HeldInv ==
    /\ LedgerHeld(mem) /\ LedgerHeld(disk)
    /\ TreeHeld /\ SnapHeld /\ SeenHeld /\ TodoHeld /\ ActHeld

\* A side never un-holds a content.
Grows == \A side \in Side, p \in Path : held[side][p] \subseteq held'[side][p]

\* An empty ledger claims nothing.
LEMMA InitHeld == Init => HeldInv
<1> SUFFICES ASSUME Init
             PROVE  HeldInv
  BY Zenon
<1> USE Zenon
<1>1. LedgerHeld(mem) /\ LedgerHeld(disk)
  BY DEF Init, LedgerHeld, EmptyLedger, NoAgreement
<1>2. TreeHeld
  BY DEF Init, TreeHeld
<1>3. SnapHeld /\ SeenHeld /\ TodoHeld /\ ActHeld
  BY DEF Init, SnapHeld, SeenHeld, TodoHeld, ActHeld, NoPass, NoAgreement
<1> QED
  BY <1>1, <1>2, <1>3 DEF HeldInv

\* Whatever step is taken, what the ledger, the pass and the snapshot name is still
\* something the sides have held.
LEMMA StepHeld == TypeInv /\ HeldInv /\ [Next]_vars => HeldInv'
\* A reading that names a content names the one that is there.
<1>LookData. ASSUME NEW copy, NEW was, NEW side, Look(copy, was, side) # None,
                    Look(copy, was, side).data \in Data
             PROVE  copy # None /\ Look(copy, was, side).data = copy.data
  BY <1>LookData, MarkAssumption, Zenon DEF Look

\* No pass claims nothing.
<1>NoPassHeld. pass' = NoPass => SeenHeld' /\ TodoHeld' /\ ActHeld'
  BY DEF SeenHeld, TodoHeld, ActHeld, NoPass, NoAgreement

\* What the two sides are seen to hold at a probe, they have held.
<1>ProbeHeld. ASSUME TypeInv, HeldInv, NEW skip \in SUBSET Path
              PROVE  LET seen == [host |-> pass.seen, guest |-> ReadGuest(skip)] IN
                     \A side \in Side, p \in Path :
                        seen[side][p] # None /\ seen[side][p].data \in Data
                          => seen[side][p].data \in held[side][p]
  <2> USE <1>ProbeHeld, Zenon
  <2>1. ASSUME NEW p \in Path, ReadGuest(skip)[p] # None, ReadGuest(skip)[p].data \in Data
        PROVE  ReadGuest(skip)[p].data \in held["guest"][p]
    <3>1. ReadGuest(skip)[p] = Look(tree["guest"][p], Cached(p), "guest")
      BY <2>1 DEF ReadGuest
    <3>2. /\ tree["guest"][p] # None
          /\ Look(tree["guest"][p], Cached(p), "guest").data = tree["guest"][p].data
      BY <2>1, <3>1, <1>LookData
    <3> QED
      BY <3>1, <3>2 DEF HeldInv, TreeHeld, Side
  <2>2. ASSUME NEW p \in Path, pass.seen[p] # None, pass.seen[p].data \in Data
        PROVE  pass.seen[p].data \in held["host"][p]
    BY <2>2 DEF HeldInv, SeenHeld
  <2> QED
    BY <2>1, <2>2, SMTT(30) DEF Side

\* A step of the apply that changes neither tree nor ledger, and whose pass has
\* no action to do that was not there before.
<1>ApplyHeld. ASSUME TypeInv, HeldInv, UNCHANGED <<tree, held, snap, disk>>,
                     \A p \in Path : mem'.agreed[p] = None \/ mem'.agreed[p] = mem.agreed[p],
                     pass'.seen = pass.seen, pass'.todo \subseteq pass.todo, ActHeld'
              PROVE  HeldInv'
  <2> USE <1>ApplyHeld, Zenon
  <2>1. LedgerHeld(mem)' /\ LedgerHeld(disk)'
    BY DEF HeldInv, LedgerHeld
  <2>2. SeenHeld' /\ TodoHeld'
    BY DEF HeldInv, SeenHeld, TodoHeld, SentHeld
  <2> QED
    BY <2>1, <2>2 DEF HeldInv, TreeHeld, SnapHeld

\* What a failed action leaves of the pass.
<1>FailingPass. ASSUME TypeInv, NEW p \in Path
                PROVE  /\ Failing(p).seen = pass.seen /\ Failing(p).todo = pass.todo
                       /\ [Failing(p) EXCEPT !.adopt[p] = None].seen = pass.seen
                       /\ [Failing(p) EXCEPT !.adopt[p] = None].todo = pass.todo
                       /\ \A a : /\ [Failing(p) EXCEPT !.todo = @ \ {a}].seen = pass.seen
                                 /\ [Failing(p) EXCEPT !.todo = @ \ {a}].todo = pass.todo \ {a}
  BY <1>FailingPass, Zenon DEF TypeInv, TypeOK, Failing, Passes

<1>StageNoneHeld. pass'.stage = "none" => ActHeld'
  BY Zenon DEF ActHeld

<1>FrameHeld. ASSUME TypeInv, HeldInv, UNCHANGED <<tree, held, snap, mem, disk, pass>>
              PROVE  HeldInv'
  BY <1>FrameHeld, Zenon DEF HeldInv, LedgerHeld, TreeHeld, SnapHeld, SeenHeld, TodoHeld, SentHeld, ActHeld

\* Loading the ledger, or dropping it, ends the pass.
<1>FreshHeld. ASSUME TypeInv, HeldInv, NEW running \in BOOLEAN, Fresh(running),
                     UNCHANGED <<tree, held, snap, disk>>
              PROVE  HeldInv'
  <2> USE <1>FreshHeld, Zenon
  <2>1. LedgerHeld(mem)' /\ LedgerHeld(disk)'
    BY DEF HeldInv, LedgerHeld, Fresh, EmptyLedger, NoAgreement
  <2>2. TreeHeld' /\ SnapHeld'
    BY DEF HeldInv, TreeHeld, SnapHeld
  <2> QED
    BY <2>1, <2>2, <1>NoPassHeld DEF HeldInv, Fresh

<1>WriteHeld. ASSUME TypeInv, HeldInv, NEW side \in Side, NEW p \in Path, Write(side, p)
              PROVE  HeldInv'
  <2> USE <1>WriteHeld
  <2>PassKept. ASSUME TypeInv, HeldInv, Grows, UNCHANGED pass
               PROVE  SeenHeld' /\ TodoHeld' /\ ActHeld'
    <3> USE <2>PassKept, Zenon
    <3>1. SeenHeld'
      BY DEF HeldInv, SeenHeld, Grows, Side
    <3>2. \A a \in Action : SentHeld(a) => SentHeld(a)'
      BY OtherType DEF SentHeld, Grows, Action
    <3>3. TodoHeld'
      BY <3>2 DEF HeldInv, TodoHeld, TypeInv, TypeOK, Passes
    <3>4. ActHeld'
      BY <3>2 DEF HeldInv, ActHeld, Grows, TypeInv, StageOK, Side
    <3> QED
      BY <3>1, <3>3, <3>4
  <2> USE Zenon
  <2>1. PICK c \in Copy \cup {None} :
          /\ tree' = [tree EXCEPT ![side][p] = c]
          /\ held' = IF c = None THEN held ELSE [held EXCEPT ![side][p] = @ \cup {c.data}]
    BY ZenonT(30) DEF Write
  <2>2. tree \in Trees /\ held \in Helds
    BY DEF TypeInv, TypeOK, TreesOK, Trees, Helds
  <2>3. Grows
    BY <2>1, <2>2 DEF Grows, Helds
  <2>4. TreeHeld'
    BY <2>1, <2>2 DEF HeldInv, TreeHeld, Trees, Helds
  <2>5. LedgerHeld(mem)' /\ LedgerHeld(disk)' /\ SnapHeld'
    BY <2>3 DEF HeldInv, LedgerHeld, SnapHeld, Grows, Write, command, Side
  <2>6. UNCHANGED pass
    BY DEF Write
  <2> QED
    BY <2>3, <2>4, <2>5, <2>6, <2>PassKept DEF HeldInv

<1>CaptureHeld. ASSUME TypeInv, HeldInv, Capture
                PROVE  HeldInv'
  <2> USE <1>CaptureHeld, Zenon
  <2>1. UNCHANGED <<tree, held, mem, disk, pass>> /\ snap' = tree["guest"]
    BY DEF Capture, ghosts
  <2>2. SnapHeld'
    BY <2>1 DEF HeldInv, TreeHeld, SnapHeld, Side
  <2> QED
    BY <2>1, <2>2 DEF HeldInv, LedgerHeld, TreeHeld, SeenHeld, TodoHeld, SentHeld, ActHeld

<1>RewindHeld. ASSUME TypeInv, HeldInv, Rewind
               PROVE  HeldInv'
  <2> USE <1>RewindHeld, Zenon
  <2>1. UNCHANGED <<held, mem, disk, pass, snap>> /\ snap # None
    BY DEF Rewind, TypeInv, SnapOK
  <2>2. PICK back \in SUBSET Path :
          tree' = [tree EXCEPT !["guest"] = [p \in Path |-> IF p \in back THEN snap[p] ELSE @[p]]]
    BY ZenonT(30) DEF Rewind
  <2>3. TreeHeld'
    <3>1. tree \in Trees
      BY DEF TypeInv, TypeOK, TreesOK, Trees
    <3> QED
      BY <2>1, <2>2, <3>1 DEF HeldInv, TreeHeld, SnapHeld, Side, Trees
  <2> QED
    BY <2>1, <2>3 DEF HeldInv, LedgerHeld, SnapHeld, SeenHeld, TodoHeld, SentHeld, ActHeld

<1>NoteRewoundHeld. ASSUME TypeInv, HeldInv, NoteRewound
                    PROVE  HeldInv'
  <2> USE <1>NoteRewoundHeld, Zenon
  <2>1. UNCHANGED <<tree, held, mem, pass, snap>>
    BY DEF NoteRewound, ghosts
  <2>2. disk'.agreed = disk.agreed
    BY DEF NoteRewound, TypeInv, TypeOK, LedgersOK, Ledgers
  <2> QED
    BY <2>1, <2>2 DEF HeldInv, LedgerHeld, TreeHeld, SnapHeld, SeenHeld, TodoHeld, SentHeld, ActHeld

\* What the host is read as is what it holds.
<1>ReadHeld. ASSUME TypeInv, HeldInv, NEW mode \in {"pass", "reseed"},
                    NEW cached \in [Path -> Agreed \cup {None}], NEW flying \in SUBSET Path,
                    Read(mode, cached, flying), UNCHANGED <<tree, held, snap, mem, disk>>
             PROVE  HeldInv'
  <2> USE <1>ReadHeld, Zenon
  <2>1. PICK skip \in SUBSET Path :
          pass' = [NoPass EXCEPT
                        !.mode = mode, !.seen = ReadHost(cached, skip),
                        !.skips["host"] = skip, !.undecided = flying \cup skip,
                        !.taken = IF mode = "pass" THEN resolved ELSE NoAnswers]
    BY ZenonT(30) DEF Read
  <2>2. pass'.seen = ReadHost(cached, skip) /\ pass'.todo = {} /\ pass'.stage = "none"
    BY <2>1 DEF NoPass
  <2>3. SeenHeld'
    <3> SUFFICES ASSUME NEW p \in Path, ReadHost(cached, skip)[p] # None,
                        ReadHost(cached, skip)[p].data \in Data
                 PROVE  ReadHost(cached, skip)[p].data \in held["host"][p]
      BY <2>2 DEF SeenHeld
    <3>1. ReadHost(cached, skip)[p] = Look(tree["host"][p], cached[p], "host")
      BY DEF ReadHost
    <3>2. tree["host"][p] # None /\ Look(tree["host"][p], cached[p], "host").data = tree["host"][p].data
      BY <3>1, <1>LookData DEF TypeInv, TypeOK, TreesOK
    <3> QED
      BY <3>1, <3>2 DEF HeldInv, TreeHeld, Side
  <2>4. TodoHeld' /\ ActHeld'
    BY <2>2 DEF TodoHeld, ActHeld
  <2> QED
    BY <2>3, <2>4 DEF HeldInv, LedgerHeld, TreeHeld, SnapHeld

<1>PlanHeld. ASSUME TypeInv, HeldInv, pc = "read", NEW skip \in SUBSET Path, Plan(skip),
                    UNCHANGED <<tree, held, snap, disk>>
             PROVE  HeldInv'
  <2> USE <1>PlanHeld
  \* What is placed for a path is what its winner was seen to hold, or the content
  \* last agreed on (place, digest_of).
  <2>CarryData. ASSUME NEW p, NEW s, NEW was, NEW answer, NEW a \in Carry(p, s, was, answer),
                       a.op = "put", a.data \in Data
                PROVE  LET m == Mover(s, was, answer) IN
                       /\ a.to = Other(m) /\ s[m] # None
                       /\ a.data = s[m].data \/ (was # None /\ a.data = was.data)
    <3> USE <2>CarryData
    <3> DEFINE m == Mover(s, was, answer)
    <3>1. m # None /\ s[m] # None
      BY DEF Carry, Removal
    <3>2. a \in Clearing(Other(m), p, s[m], s[Other(m)]) \cup Placement(Other(m), p, s[m], was)
      BY <3>1, Zenon DEF Carry
    <3>3. a \in Placement(Other(m), p, s[m], was)
      BY <3>2 DEF Clearing, Removal
    <3>4. a.to = Other(m) /\ a.data = DigestOf(s[m], was)
      BY <3>3 DEF Placement
    <3> QED
      BY <3>1, <3>4, MarkAssumption, Zenon DEF DigestOf
  <2> USE Zenon
  <2> DEFINE seen == [host |-> pass.seen, guest |-> ReadGuest(skip)]
             undecided == pass.undecided \cup skip
             plan == Decide(seen, mem.agreed, undecided, pass.taken)
  <2>1. /\ seen \in [Side -> [Path -> Seen \cup {None}]]
        /\ mem.agreed \in [Path -> Agreed \cup {None}]
        /\ pass.taken \in [Path -> Side \cup {None}]
    BY ProbeSeen
  <2>2. /\ pass'.seen = NoAgreement /\ pass'.todo = plan.actions /\ pass'.stage = "none"
        /\ mem'.agreed = [p \in Path |-> IF p \in plan.forget THEN None ELSE mem.agreed[p]]
    BY DEF Plan, TypeInv, TypeOK, LedgersOK, Ledgers, Passes, StageOK
  <2>3. \A side \in Side, p \in Path :
           seen[side][p] # None /\ seen[side][p].data \in Data => seen[side][p].data \in held[side][p]
    BY <1>ProbeHeld
  <2>4. /\ plan.actions \subseteq Action
        /\ \A a \in plan.actions :
              a \in Carry(a.path, At(seen, a.path), mem.agreed[a.path], pass.taken[a.path])
    BY <2>1, DecideType
  <2> HIDE DEF seen, undecided, plan
  <2>5. \A a \in plan.actions : SentHeld(a)
    <3> SUFFICES ASSUME NEW a \in plan.actions, a.op = "put", a.data \in Data
                 PROVE  a.data \in held[Other(a.to)][a.path]
      BY DEF SentHeld
    <3> DEFINE p == a.path
               s == At(seen, p)
               m == Mover(s, mem.agreed[p], pass.taken[p])
    <3>1. p \in Path /\ a \in Carry(p, s, mem.agreed[p], pass.taken[p])
      BY <2>4 DEF Action
    <3>2. m \in Side /\ a.to = Other(m)
      BY <2>1, <3>1, CarryAt, SMTT(30)
    <3>3. s[m] # None /\ (a.data = s[m].data \/ (mem.agreed[p] # None /\ a.data = mem.agreed[p].data))
      BY <3>1, <2>CarryData, SMTT(30)
    <3>4. s[m] = seen[m][p] /\ Other(a.to) = m
      BY <3>2, OtherType DEF At
    <3> HIDE DEF m, s
    <3>5. CASE a.data = s[m].data
      BY <2>3, <3>1, <3>2, <3>3, <3>4, <3>5
    <3>6. CASE mem.agreed[p] # None /\ a.data = mem.agreed[p].data
      BY <3>1, <3>2, <3>4, <3>6 DEF HeldInv, LedgerHeld
    <3> QED
      BY <3>3, <3>5, <3>6
  <2>6. LedgerHeld(mem)' /\ LedgerHeld(disk)'
    BY <2>2 DEF HeldInv, LedgerHeld
  <2>7. SeenHeld' /\ TodoHeld' /\ ActHeld'
    BY <2>2, <2>5 DEF SeenHeld, TodoHeld, SentHeld, ActHeld, NoAgreement
  <2> QED
    BY <2>6, <2>7 DEF HeldInv, TreeHeld, SnapHeld

<1>PlanReseedHeld. ASSUME TypeInv, HeldInv, pc = "read", NEW skip \in SUBSET Path, PlanReseed(skip),
                          UNCHANGED <<tree, held, snap, disk>>
                   PROVE  HeldInv'
  <2> USE <1>PlanReseedHeld
  \* What a re-seed places on the guest is what the host was seen to hold.
  <2>ReseedData. ASSUME NEW seen, NEW undecided, NEW a \in Reseed(seen, undecided).actions,
                        a.op = "put", a.data \in Data
                 PROVE  /\ a.path \in Path /\ a.to = "guest" /\ seen["host"][a.path] # None
                        /\ a.data = seen["host"][a.path].data
    <3> USE <2>ReseedData
    <3> DEFINE host(p) == seen["host"][p]
               guest(p) == seen["guest"][p]
    <3>1. PICK p \in Path \ undecided :
            /\ host(p) # None
            /\ a \in Clearing("guest", p, host(p), guest(p)) \cup Placement("guest", p, host(p), None)
      BY SMTT(30) DEF Reseed, Removal
    <3>2. a \in Placement("guest", p, host(p), None)
      BY <3>1, SMTT(30) DEF Clearing, Removal
    <3>3. a.path = p /\ a.to = "guest" /\ a.data = DigestOf(host(p), None)
      BY <3>2, SMTT(30) DEF Placement
    <3> QED
      BY <3>1, <3>3, MarkAssumption, Zenon DEF DigestOf
  <2> USE Zenon
  <2> DEFINE seen == [host |-> pass.seen, guest |-> ReadGuest(skip)]
             undecided == pass.undecided \cup skip
             plan == Reseed(seen, undecided)
  <2>1. /\ pass'.seen = NoAgreement /\ pass'.todo = plan.actions /\ pass'.stage = "none"
        /\ mem'.agreed = NoAgreement
    BY DEF PlanReseed, TypeInv, TypeOK, Passes, StageOK, EmptyLedger
  <2>2. \A p \in Path : seen["host"][p] # None /\ seen["host"][p].data \in Data
                          => seen["host"][p].data \in held["host"][p]
    BY <1>ProbeHeld DEF Side
  <2>3. \A a \in plan.actions : SentHeld(a)
    <3> SUFFICES ASSUME NEW a \in plan.actions, a.op = "put", a.data \in Data
                 PROVE  a.data \in held[Other(a.to)][a.path]
      BY DEF SentHeld
    <3>1. /\ a.path \in Path /\ a.to = "guest" /\ seen["host"][a.path] # None
          /\ a.data = seen["host"][a.path].data
      BY <2>ReseedData
    <3>2. Other(a.to) = "host"
      BY <3>1 DEF Other
    <3> QED
      BY <2>2, <3>1, <3>2
  <2> HIDE DEF seen, undecided, plan
  <2>4. LedgerHeld(mem)' /\ LedgerHeld(disk)'
    BY <2>1 DEF HeldInv, LedgerHeld, NoAgreement
  <2>5. SeenHeld' /\ TodoHeld' /\ ActHeld'
    BY <2>1, <2>3 DEF SeenHeld, TodoHeld, SentHeld, ActHeld, NoAgreement
  <2> QED
    BY <2>4, <2>5 DEF HeldInv, TreeHeld, SnapHeld

<1>FailsHeld. ASSUME TypeInv, HeldInv, Fails
              PROVE  HeldInv'
  <2> USE <1>FailsHeld, Zenon
  <2>1. pass.act.path \in Path
    BY DEF Fails, TypeInv, TypeOK, Passes, Action
  <2>2. UNCHANGED <<tree, held, snap, disk>>
    BY DEF Fails, applyFrame, command
  <2>3. \A p \in Path : mem'.agreed[p] = None \/ mem'.agreed[p] = mem.agreed[p]
    BY <2>1 DEF Fails, TypeInv, TypeOK, LedgersOK, Ledgers
  <2>4. pass'.seen = pass.seen /\ pass'.todo = pass.todo /\ pass'.stage = "none"
    BY <2>1, <1>FailingPass, FailingType DEF Fails
  <2> QED
    BY <2>2, <2>3, <2>4, <1>ApplyHeld, <1>StageNoneHeld

<1>AdoptHostHeld. ASSUME TypeInv, HeldInv, NEW p \in Path, AdoptHost(p)
                  PROVE  HeldInv'
  <2> USE <1>AdoptHostHeld, Zenon
  <2> DEFINE m == pass.adopt[p]
             want == [kind |-> KindOf(m.data), data |-> m.data, stamp |-> m.stamp["host"]]
  <2>1. UNCHANGED <<tree, held, snap, disk, mem>> /\ m # None
    BY DEF AdoptHost, applyFrame, command
  <2>2. CASE Verified(tree["host"][p], want)
    <3>1. pass' = [pass EXCEPT !.act = [op |-> "adopt", path |-> p], !.stage = "adopt"]
      BY <2>2 DEF AdoptHost
    <3>2. /\ pass'.seen = pass.seen /\ pass'.todo = pass.todo /\ pass'.stage = "adopt"
          /\ pass'.adopt = pass.adopt /\ pass'.act.path = p
      BY <3>1, ZenonT(60) DEF TypeInv, TypeOK, Passes
    <3>3. m \in Match /\ tree["host"][p] \in Copy \cup {None}
      BY <2>1 DEF TypeInv, TypeOK, TreesOK, Passes, Side
    <3>4. tree["host"][p] # None /\ tree["host"][p].data = m.data
      BY <2>2, <3>3, VerifiedMatch, ZenonT(30) DEF Side
    <3>5. m.data \in held["host"][p]
      BY <3>4 DEF HeldInv, TreeHeld, Side
    <3>6. ActHeld'
      BY <2>1, <3>2, <3>5 DEF ActHeld
    <3> QED
      BY <2>1, <3>2, <3>6, <1>ApplyHeld
  <2>3. CASE ~Verified(tree["host"][p], want)
    <3>1. pass' = [Failing(p) EXCEPT !.adopt[p] = None]
      BY <2>3 DEF AdoptHost
    <3>2. pass'.seen = pass.seen /\ pass'.todo = pass.todo /\ pass'.stage = "none"
      BY <3>1, <1>FailingPass, FailingType, ZenonT(60)
    <3> QED
      BY <2>1, <3>2, <1>ApplyHeld, <1>StageNoneHeld
  <2> QED
    BY <2>2, <2>3

<1>AdoptGuestHeld. ASSUME TypeInv, HeldInv, AdoptGuest
                   PROVE  HeldInv'
  <2> USE <1>AdoptGuestHeld, Zenon
  <2> DEFINE p == pass.act.path
             m == pass.adopt[p]
             want == [kind |-> KindOf(m.data), data |-> m.data, stamp |-> m.stamp["guest"]]
  <2>1. /\ p \in Path /\ m \in Match /\ tree["guest"][p] \in Copy \cup {None}
        /\ m.data \in held["host"][p]
    BY DEF TypeInv, TypeOK, TreesOK, StageOK, AdoptGuest, Passes, Side, HeldInv, ActHeld
  <2>2. UNCHANGED <<tree, held, snap, disk>>
    BY DEF AdoptGuest, applyFrame, command
  <2>3. pass'.seen = pass.seen /\ pass'.todo = pass.todo /\ pass'.stage = "none"
    <3>1. \/ pass' = [Failing(p) EXCEPT !.adopt[p] = None]
          \/ pass' = [pass EXCEPT !.adopt[p] = None, !.act = None, !.stage = "none"]
      BY DEF AdoptGuest
    <3>2. CASE pass' = [Failing(p) EXCEPT !.adopt[p] = None]
      BY <2>1, <3>2, <1>FailingPass, FailingType, ZenonT(30)
    <3>3. CASE pass' = [pass EXCEPT !.adopt[p] = None, !.act = None, !.stage = "none"]
      BY <3>3 DEF TypeInv, TypeOK, Passes
    <3> QED
      BY <3>1, <3>2, <3>3
  <2>4. CASE Verified(tree["guest"][p], want)
    <3>1. tree["guest"][p] # None /\ tree["guest"][p].data = m.data
      BY <2>1, <2>4, VerifiedMatch, ZenonT(30) DEF Side
    <3>2. m.data \in held["guest"][p]
      BY <2>1, <3>1 DEF HeldInv, TreeHeld, Side
    <3>3. mem' = [mem EXCEPT !.agreed[p] = m]
      BY <2>4 DEF AdoptGuest
    <3> HIDE DEF m, p
    <3>4. \A q \in Path : mem'.agreed[q] = IF q = p THEN m ELSE mem.agreed[q]
      BY <2>1, <3>3 DEF TypeInv, TypeOK, LedgersOK, Ledgers
    <3>5. LedgerHeld(mem)' /\ LedgerHeld(disk)'
      BY <2>1, <2>2, <3>2, <3>4 DEF HeldInv, LedgerHeld, Side
    <3>6. SeenHeld' /\ TodoHeld'
      BY <2>2, <2>3 DEF HeldInv, SeenHeld, TodoHeld, SentHeld
    <3> QED
      BY <2>2, <2>3, <3>5, <3>6, <1>StageNoneHeld DEF HeldInv, TreeHeld, SnapHeld
  <2>5. CASE ~Verified(tree["guest"][p], want)
    <3>1. mem' = mem
      BY <2>5 DEF AdoptGuest
    <3> QED
      BY <2>2, <2>3, <3>1, <1>ApplyHeld, <1>StageNoneHeld
  <2> QED
    BY <2>4, <2>5

<1>TransferHeld. ASSUME TypeInv, HeldInv, NEW a \in pass.todo, Transfer(a)
                 PROVE  HeldInv'
  <2> USE <1>TransferHeld, Zenon
  <2>1. UNCHANGED <<tree, held, snap, disk, mem>>
    BY DEF Transfer, applyFrame, command
  <2>2. a \in Action /\ a.path \in Path
    BY DEF TypeInv, TypeOK, Passes, Action
  <2>3. CASE pass' = [Failing(a.path) EXCEPT !.todo = @ \ {a}]
    <3>1. pass'.seen = pass.seen /\ pass'.todo = pass.todo \ {a} /\ pass'.stage = "none"
      BY <2>2, <2>3, <1>FailingPass, FailingType, ZenonT(30)
    <3> QED
      BY <2>1, <3>1, <1>ApplyHeld, <1>StageNoneHeld
  <2>4. CASE pass' = [pass EXCEPT !.todo = @ \ {a}, !.act = a,
                                  !.stage = IF IsTransfer(a) THEN "sent" ELSE "ready"]
    <3>1. /\ pass'.seen = pass.seen /\ pass'.todo = pass.todo \ {a} /\ pass'.act = a
          /\ pass'.stage \in {"sent", "ready"}
      BY <2>4 DEF TypeInv, TypeOK, Passes
    <3>2. ActHeld'
      BY <2>1, <3>1 DEF HeldInv, TodoHeld, SentHeld, ActHeld
    <3> QED
      BY <2>1, <3>1, <3>2, <1>ApplyHeld
  <2> QED
    BY <2>3, <2>4 DEF Transfer

<1>RecheckHeld. ASSUME TypeInv, HeldInv, Recheck
                PROVE  HeldInv'
  <2> USE <1>RecheckHeld, Zenon
  <2>1. UNCHANGED <<tree, held, snap, disk, mem>>
    BY DEF Recheck, applyFrame, command
  <2>2. pass.act.path \in Path
    BY DEF Recheck, TypeInv, StageOK, Action
  <2>3. CASE pass' = Failing(pass.act.path)
    <3>1. pass'.seen = pass.seen /\ pass'.todo = pass.todo /\ pass'.stage = "none"
      BY <2>2, <2>3, <1>FailingPass, FailingType, ZenonT(60)
    <3> QED
      BY <2>1, <3>1, <1>ApplyHeld, <1>StageNoneHeld
  <2>4. CASE pass' = [pass EXCEPT !.stage = "ready"]
    <3>1. pass'.seen = pass.seen /\ pass'.todo = pass.todo /\ pass'.act = pass.act /\ pass'.stage = "ready"
      BY <2>4 DEF TypeInv, TypeOK, Passes
    <3>2. ActHeld'
      BY <2>1, <3>1, ZenonT(30) DEF Recheck, HeldInv, SentHeld, ActHeld
    <3> QED
      BY <2>1, <3>1, <3>2, <1>ApplyHeld
  <2> QED
    BY <2>3, <2>4 DEF Recheck

<1>CommitHeld. ASSUME TypeInv, HeldInv, Commit
               PROVE  HeldInv'
  <2> USE <1>CommitHeld
  <2>RemoveHeld. ASSUME TypeInv, HeldInv, Commit, Remove(pass.act, tree[pass.act.to][pass.act.path]),
                        UNCHANGED held
                 PROVE  HeldInv'
    <3> USE <2>RemoveHeld, Zenon
    <3> DEFINE to == pass.act.to
               p == pass.act.path
    <3>1. to \in Side /\ p \in Path
      BY CommitActs
    <3>2. UNCHANGED <<held, snap, disk>>
      BY DEF Commit, applyFrame, command
    <3>3. /\ tree' = tree \/ tree' = [tree EXCEPT ![to][p] = None]
          /\ mem' = mem \/ mem' = [mem EXCEPT !.agreed[p] = None]
          /\ \/ pass' = Failing(p)
             \/ pass' = [pass EXCEPT !.act = None, !.stage = "none"]
             \/ pass' = [pass EXCEPT !.act = None, !.stage = "none", !.expected[p] = None]
      BY RemoveEnds, ZenonT(30)
    <3> HIDE DEF to, p
    <3>4. pass'.seen = pass.seen /\ pass'.todo = pass.todo /\ pass'.stage = "none"
      <4>1. CASE pass' = Failing(p)
        BY <3>1, <4>1, <1>FailingPass, FailingType, ZenonT(30)
      <4>2. CASE \/ pass' = [pass EXCEPT !.act = None, !.stage = "none"]
                 \/ pass' = [pass EXCEPT !.act = None, !.stage = "none", !.expected[p] = None]
        BY <4>2, ZenonT(30) DEF TypeInv, TypeOK, Passes
      <4> QED
        BY <3>3, <4>1, <4>2
    <3>5. TreeHeld'
      <4>1. tree \in Trees
        BY DEF TypeInv, TypeOK, TreesOK, Trees
      <4> QED
        BY <3>1, <3>2, <3>3, <4>1, SMTT(30) DEF HeldInv, TreeHeld, Trees
    <3>6. LedgerHeld(mem)' /\ LedgerHeld(disk)'
      <4>1. \A q \in Path : mem'.agreed[q] = None \/ mem'.agreed[q] = mem.agreed[q]
        BY <3>1, <3>3 DEF TypeInv, TypeOK, LedgersOK, Ledgers
      <4> QED
        BY <3>2, <4>1 DEF HeldInv, LedgerHeld
    <3>7. SeenHeld' /\ TodoHeld' /\ SnapHeld'
      BY <3>2, <3>4 DEF HeldInv, SeenHeld, TodoHeld, SentHeld, SnapHeld
    <3> QED
      BY <3>4, <3>5, <3>6, <3>7, <1>StageNoneHeld DEF HeldInv
  <2>PutHeld. ASSUME TypeInv, HeldInv, Commit, pass.act.op = "put",
                     Put(pass.act, tree[pass.act.to][pass.act.path]), UNCHANGED mem
              PROVE  HeldInv'
    <3> USE <2>PutHeld, Zenon
    <3> DEFINE a == pass.act
               to == a.to
               p == a.path
               d == a.data
    <3>1. to \in Side /\ p \in Path /\ d \in Data /\ a \in Action /\ SentHeld(a)
      BY CommitActs, ZenonT(60) DEF HeldInv, ActHeld, Commit
    <3>2. UNCHANGED <<snap, disk>>
      BY ZenonT(30) DEF Commit, applyFrame, command
    <3>3. /\ \/ tree' = tree
             \/ \E s \in Stamp : tree' = [tree EXCEPT ![to][p] = [data |-> d, stamp |-> s]]
          /\ held' = held \/ held' = [held EXCEPT ![to][p] = @ \cup {d}]
          /\ tree' # tree => held' = [held EXCEPT ![to][p] = @ \cup {d}]
          /\ pass' = Failing(p) \/ pass' = [pass EXCEPT !.stage = "placed"]
      BY PutEnds, ZenonT(30) DEF Put
    <3>4. tree \in Trees /\ held \in Helds
      BY DEF TypeInv, TypeOK, TreesOK, Trees, Helds
    <3>5. pass'.seen = pass.seen /\ pass'.todo = pass.todo
            /\ (pass'.stage = "none" \/ (pass'.stage = "placed" /\ pass'.act = a))
      <4>1. CASE pass' = Failing(p)
        BY <3>1, <4>1, <1>FailingPass, FailingType, ZenonT(30)
      <4>2. CASE pass' = [pass EXCEPT !.stage = "placed"]
        BY <4>2 DEF TypeInv, TypeOK, Passes
      <4> QED
        BY <3>3, <4>1, <4>2
    <3>6. SentHeld(a) <=> d \in held[Other(to)][p]
      BY <3>1 DEF SentHeld
    <3> HIDE DEF to, p, d
    <3>7. Grows
      BY <3>1, <3>3, <3>4, SMTT(30) DEF Grows, Helds
    <3>8. TreeHeld'
      <4>1. CASE tree' = tree
        BY <3>7, <4>1 DEF HeldInv, TreeHeld, Grows
      <4>2. CASE tree' # tree
        <5>1. PICK s \in Stamp : tree' = [tree EXCEPT ![to][p] = [data |-> d, stamp |-> s]]
          BY <3>3, <4>2
        <5>2. held' = [held EXCEPT ![to][p] = @ \cup {d}]
          BY <3>3, <4>2, ZenonT(60)
        <5> QED
          BY <3>1, <3>4, <5>1, <5>2 DEF HeldInv, TreeHeld, Trees, Helds
      <4> QED
        BY <4>1, <4>2
    <3>9. LedgerHeld(mem)' /\ LedgerHeld(disk)' /\ SnapHeld'
      BY <3>2, <3>7 DEF HeldInv, LedgerHeld, SnapHeld, Grows, Side
    <3>10. SeenHeld'
      BY <3>5, <3>7 DEF HeldInv, SeenHeld, Grows, Side
    <3>11. \A b \in Action : SentHeld(b) => SentHeld(b)'
      BY <3>7, OtherType DEF SentHeld, Grows, Action
    <3>12. TodoHeld'
      BY <3>5, <3>11, ZenonT(60) DEF HeldInv, TodoHeld, TypeInv, TypeOK, Passes
    <3>13. ActHeld'
      BY <3>1, <3>5, <3>11 DEF ActHeld
    <3> QED
      BY <3>8, <3>9, <3>10, <3>12, <3>13 DEF HeldInv
  <2> QED
    BY <2>RemoveHeld, <2>PutHeld, ZenonT(60) DEF Commit

<1>RecordHeld. ASSUME TypeInv, HeldInv, Record
               PROVE  HeldInv'
  <2> USE <1>RecordHeld, Zenon
  <2> DEFINE a == pass.act
             to == a.to
             p == a.path
             copy == tree[to][p]
             now == [data |-> a.data,
                     stamp |-> [side \in Side |-> IF side = to THEN copy.stamp ELSE a.stamp]]
  <2>1. a \in Action /\ a.op = "put" /\ a.data \in Data /\ SentHeld(a)
    BY DEF TypeInv, StageOK, Record, HeldInv, ActHeld
  <2>2. to \in Side /\ p \in Path
    BY <2>1, ZenonT(60) DEF Action
  <2>3. UNCHANGED <<tree, held, snap, disk>>
    BY DEF Record, applyFrame, command
  <2>4. pass'.seen = pass.seen /\ pass'.todo = pass.todo /\ pass'.stage = "none"
    <3>1. CASE pass' = Failing(p)
      BY <2>2, <3>1, <1>FailingPass, FailingType, ZenonT(30)
    <3>2. CASE pass' = [pass EXCEPT !.act = None, !.stage = "none"]
      BY <3>2 DEF TypeInv, TypeOK, Passes
    <3> QED
      BY <3>1, <3>2, ZenonT(30) DEF Record
  <2>5. CASE mem' = [mem EXCEPT !.agreed[p] = None]
    <3>1. \A q \in Path : mem'.agreed[q] = None \/ mem'.agreed[q] = mem.agreed[q]
      BY <2>2, <2>5, ZenonT(60) DEF TypeInv, TypeOK, LedgersOK, Ledgers
    <3> QED
      BY <2>3, <2>4, <3>1, <1>ApplyHeld, <1>StageNoneHeld
  <2>6. CASE copy # None /\ copy.data = a.data /\ mem' = [mem EXCEPT !.agreed[p] = now]
    <3>1. now.data \in held[to][p] /\ now.data \in held[Other(to)][p]
      BY <2>1, <2>2, <2>6 DEF HeldInv, TreeHeld, SentHeld
    <3>2. \A side \in Side : now.data \in held[side][p]
      BY <2>2, <3>1 DEF Side, Other
    <3> HIDE DEF now, p
    <3>3. \A q \in Path : mem'.agreed[q] = IF q = p THEN now ELSE mem.agreed[q]
      BY <2>2, <2>6 DEF TypeInv, TypeOK, LedgersOK, Ledgers
    <3>4. LedgerHeld(mem)' /\ LedgerHeld(disk)'
      BY <2>3, <3>2, <3>3 DEF HeldInv, LedgerHeld
    <3>5. SeenHeld' /\ TodoHeld'
      BY <2>3, <2>4 DEF HeldInv, SeenHeld, TodoHeld, SentHeld
    <3> QED
      BY <2>3, <2>4, <3>4, <3>5, <1>StageNoneHeld DEF HeldInv, TreeHeld, SnapHeld
  <2> QED
    BY <2>5, <2>6, ZenonT(30) DEF Record

\* The ways a pass ends.
<1>FinishHeld. ASSUME TypeInv, HeldInv, FinishPass \/ FinishReseed \/ SaveFails \/ PassFails
               PROVE  HeldInv'
  <2> USE <1>FinishHeld
  \* A pass that is over, or given up, with the ledger's entries as they were.
  <2>EndHeld. ASSUME TypeInv, HeldInv, UNCHANGED <<tree, held, snap>>, pass' = NoPass,
                     mem'.agreed = mem.agreed, disk' = mem' \/ disk' = disk
              PROVE  HeldInv'
    <3> USE <2>EndHeld, Zenon
    <3>1. LedgerHeld(mem)' /\ LedgerHeld(disk)'
      BY DEF HeldInv, LedgerHeld
    <3>2. TreeHeld' /\ SnapHeld'
      BY DEF HeldInv, TreeHeld, SnapHeld
    <3> QED
      BY <3>1, <3>2, <1>NoPassHeld DEF HeldInv
  <2> USE Zenon
  <2>1. UNCHANGED <<tree, held, snap>> /\ pass' = NoPass
    BY DEF FinishPass, FinishReseed, SaveFails, PassFails, Abandon, finishFrame, command
  <2>2. mem'.agreed = mem.agreed /\ (disk' = mem' \/ disk' = disk)
    BY DEF FinishPass, FinishReseed, SaveFails, PassFails, TypeInv, TypeOK, LedgersOK, Ledgers
  <2> QED
    BY <2>1, <2>2, <2>EndHeld
<1> SUFFICES ASSUME TypeInv, HeldInv, [Next]_vars
             PROVE  HeldInv'
  BY Zenon
<1> USE Zenon
<1>1. CASE Environment
  <2>1. ASSUME NEW side \in Side, NEW p \in Path, Write(side, p)
        PROVE  HeldInv'
    BY <2>1, <1>WriteHeld, ZenonT(60)
  <2>2. CASE \/ Ask \/ (\E p \in Path, winner \in Side : Resolve(p, winner))
             \/ (\E side \in Side : LoseCoverage(side)) \/ WatchDies
             \/ (\E discard \in BOOLEAN : BeginRestore(discard))
    <3>1. CASE Ask \/ WatchDies
      BY <3>1, <1>FrameHeld, ZenonT(30) DEF Ask, WatchDies, command, ghosts
    <3>2. ASSUME NEW p \in Path, NEW winner \in Side, Resolve(p, winner)
          PROVE  HeldInv'
      BY <3>2, <1>FrameHeld, ZenonT(30) DEF Resolve, command, ghosts
    <3>3. ASSUME NEW side \in Side, LoseCoverage(side)
          PROVE  HeldInv'
      BY <3>3, <1>FrameHeld, ZenonT(30) DEF LoseCoverage, command, ghosts
    <3>4. ASSUME NEW discard \in BOOLEAN, BeginRestore(discard)
          PROVE  HeldInv'
      BY <3>4, <1>FrameHeld, ZenonT(30) DEF BeginRestore, command, ghosts
    <3> QED
      BY <2>2, <3>1, <3>2, <3>3, <3>4, ZenonT(30)
  <2>3. CASE Start \/ Stop \/ Crash
    BY <2>3, <1>FreshHeld, ZenonT(30) DEF Start, Stop, Crash, command
  <2>4. CASE PassFails \/ SaveFails
    BY <2>4, <1>FinishHeld
  <2> QED
    BY <1>1, <2>1, <2>2, <2>3, <2>4, <1>FailsHeld, <1>CaptureHeld DEF Environment
<1>2. CASE Waking
  BY <1>2, <1>FrameHeld DEF Waking, Settle, HearOfLoss, DropWatch, command, ghosts
<1>3. CASE Working
  <2>1. CASE OpenWatch
    BY <2>1, <1>FrameHeld DEF OpenWatch, command, ghosts
  <2>2. CASE BeginReseed
    <3>1. NoAgreement \in [Path -> Agreed \cup {None}]
      BY DEF NoAgreement
    <3> QED
      BY <2>2, <3>1, <1>ReadHeld, SMTT(30) DEF BeginReseed, command
  <2>3. CASE BeginPass
    <3> DEFINE cached == [p \in Path |-> Cached(p)]
    <3>1. cached \in [Path -> Agreed \cup {None}]
      BY DEF Cached, TypeInv, TypeOK, LedgersOK, Ledgers
    <3>2. PICK flying \in SUBSET (flight["host"] \cup flight["guest"]) :
            Read("pass", cached, flying)
      BY <2>3 DEF BeginPass
    <3>3. flying \in SUBSET Path /\ UNCHANGED <<tree, held, snap, mem, disk>>
      BY <2>3, <3>2 DEF TypeInv, TypeOK, LoopOK, Side, BeginPass, command
    <3> HIDE DEF cached
    <3> QED
      BY <3>1, <3>2, <3>3, <1>ReadHeld
  <2>4. CASE Probe
    BY <2>4, <1>PlanHeld, <1>PlanReseedHeld DEF Probe, command
  <2> QED
    BY <1>3, <2>1, <2>2, <2>3, <2>4, <1>AdoptHostHeld, <1>AdoptGuestHeld, <1>TransferHeld, <1>RecheckHeld,
       <1>CommitHeld, <1>RecordHeld, <1>FinishHeld DEF Working
<1>4. CASE Restoring
  <2>1. CASE Suspend
    BY <2>1, <1>FreshHeld, ZenonT(30) DEF Suspend
  <2>2. CASE Resume
    <3>1. CASE opRunning
      BY <2>2, <3>1, <1>FreshHeld, ZenonT(30) DEF Resume
    <3>2. CASE ~opRunning
      BY <2>2, <3>2, <1>FrameHeld DEF Resume
    <3> QED
      BY <3>1, <3>2
  <2> QED
    BY <1>4, <2>1, <2>2, <1>NoteRewoundHeld, <1>RewindHeld DEF Restoring
<1>5. CASE UNCHANGED vars
  BY <1>5, <1>FrameHeld DEF vars, command, ghosts
<1> QED
  BY <1>1, <1>2, <1>3, <1>4, <1>5 DEF Next

\* The ledger never invents an agreement (apply: "every entry in it by the time
\* this returns is one whose rename completed"), whatever the paths, contents
\* and bounds, and whether or not commands overlap.
THEOREM LedgerTruthHolds == Spec => []LedgerTruth
<1>1. HeldInv => LedgerTruth
  BY Zenon DEF HeldInv, LedgerHeld, LedgerTruth
<1> QED
  BY InitType, StepType, InitHeld, StepHeld, <1>1, PTL DEF Spec

-----------------------------------------------------------------------------
(***************************************************************************)
(* The syncer loses no work unseen, for any number of paths, contents,     *)
(* writes, failures, restores and answers.                                 *)
(*                                                                         *)
(* Two facts carry the property through a pass: what the plan expects to   *)
(* find at an action's destination is a content the other side has held    *)
(* (or the developer gave the path away, or the guest is being re-seeded), *)
(* and an action about to be committed has just found it there.            *)
(***************************************************************************)

\* What may be replaced at an action's destination without losing work.
Safe(a) ==
    \/ pass.mode = "reseed" /\ a.to = "guest"
    \/ pass.taken[a.path] = Other(a.to)
    \/ pass.expected[a.path] = None
    \/ /\ pass.expected[a.path].data \in held[Other(a.to)][a.path]
       /\ pass.expected[a.path].kind = "dir" => pass.expected[a.path].data \in Dirs

\* So it is with all the pass has left to do, and with the action under way.
PlanSafe ==
    /\ \A a \in pass.todo : Safe(a)
    /\ pass.stage \in {"sent", "ready", "placed"} => Safe(pass.act)

\* Unless a writer came in since, the destination is as the plan expects it.
ReadyVerified ==
    pass.stage = "ready" /\ ~raced
      => Verified(tree[pass.act.to][pass.act.path], pass.expected[pass.act.path])

\* A pass that is reading is an ordinary one or a re-seed.
ModeKnown == pc = "read" => pass.mode # "none"

\* The inductive invariant behind NoUnseenLoss.
LossInv == PlanSafe /\ ReadyVerified /\ ModeKnown

-----------------------------------------------------------------------------
(* What a pass decides. *)

\* What capture_expected makes of a reading and the agreement.
ExpectedOf(now, was) ==
    IF now # None /\ now.data = Vouched /\ was # None THEN [now EXCEPT !.data = was.data] ELSE now

-----------------------------------------------------------------------------
(* What the other steps keep. *)

\* An action stays safe while the pass expects no more than it did.
LEMMA SafeKept ==
    ASSUME Grows, NEW a \in Action, Safe(a), pass'.mode = pass.mode, pass'.taken = pass.taken,
           \A p \in Path : pass'.expected[p] = pass.expected[p] \/ pass'.expected[p] = None
    PROVE  Safe(a)'
<1>1. a.path \in Path /\ Other(a.to) \in Side
  BY OtherType, Zenon DEF Action
<1> QED
  BY <1>1, Zenon DEF Safe, Grows

\* Whatever step is taken, the pass is going to replace only what it has seen, and what
\* the other side has held.
LEMMA StepLoss == TypeInv /\ HeldInv /\ LossInv /\ [Next]_vars => LossInv'
\* A step of the apply: the pass has the actions it had, or fewer.
<1>ApplyLoss. ASSUME TypeInv, LossInv, Grows, pc' = "apply",
                     pass'.mode = pass.mode, pass'.taken = pass.taken,
                     \A p \in Path : pass'.expected[p] = pass.expected[p] \/ pass'.expected[p] = None,
                     pass'.todo \subseteq pass.todo,
                     pass'.stage \in {"sent", "ready", "placed"} =>
                        \/ pass'.act \in pass.todo
                        \/ pass'.act = pass.act /\ pass.stage \in {"sent", "ready", "placed"},
                     ReadyVerified'
              PROVE  LossInv'
  <2> USE <1>ApplyLoss, Zenon
  <2>1. \A a \in pass.todo : Safe(a)'
    BY SafeKept DEF TypeInv, TypeOK, Passes, LossInv, PlanSafe
  <2>2. ASSUME pass.stage \in {"sent", "ready", "placed"}, NEW a, a = pass.act
        PROVE  Safe(a)'
    BY <2>2, SafeKept DEF TypeInv, StageOK, LossInv, PlanSafe
  <2> QED
    BY <2>1, <2>2 DEF LossInv, PlanSafe, Safe, ModeKnown

\* Nothing planned, nothing to lose.
<1>IdleLoss. ASSUME pass'.todo = {}, pass'.stage = "none", pc' = "read" => pass'.mode # "none"
             PROVE  LossInv'
  BY <1>IdleLoss, Zenon DEF LossInv, PlanSafe, ReadyVerified, ModeKnown

\* A failed action is over; the others stand.
<1>FailingLoss. ASSUME TypeInv, LossInv, Grows, pc' = "apply", NEW p \in Path,
                       \/ pass' = Failing(p)
                       \/ pass' = [Failing(p) EXCEPT !.adopt[p] = None]
                       \/ \E a : pass' = [Failing(p) EXCEPT !.todo = @ \ {a}]
                PROVE  LossInv'
  <2> USE <1>FailingLoss, Zenon
  <2>1. /\ pass'.mode = pass.mode /\ pass'.taken = pass.taken /\ pass'.expected = pass.expected
        /\ pass'.todo \subseteq pass.todo /\ pass'.stage = "none"
    <3>1. CASE pass' = Failing(p)
      BY <3>1 DEF Failing, TypeInv, TypeOK, Passes
    <3>2. CASE pass' = [Failing(p) EXCEPT !.adopt[p] = None]
      BY <3>2 DEF Failing, TypeInv, TypeOK, Passes
    <3>3. CASE \E a : pass' = [Failing(p) EXCEPT !.todo = @ \ {a}]
      <4>1. PICK a : pass' = [Failing(p) EXCEPT !.todo = @ \ {a}]
        BY <3>3, ZenonT(30)
      <4> QED
        BY <4>1, ZenonT(30) DEF Failing, TypeInv, TypeOK, Passes
    <3> QED
      BY <3>1, <3>2, <3>3
  <2> QED
    BY <2>1, <1>ApplyLoss DEF ReadyVerified

\* An action that is over, its path expected to be gone or as it was.
<1>OverLoss. ASSUME TypeInv, LossInv, Grows, pc' = "apply", NEW p \in Path,
                    \/ pass' = [pass EXCEPT !.act = None, !.stage = "none"]
                    \/ pass' = [pass EXCEPT !.adopt[p] = None, !.act = None, !.stage = "none"]
                    \/ pass' = [pass EXCEPT !.act = None, !.stage = "none", !.expected[p] = None]
             PROVE  LossInv'
  <2> USE <1>OverLoss, Zenon
  <2>1. /\ pass'.mode = pass.mode /\ pass'.taken = pass.taken /\ pass'.todo = pass.todo
        /\ pass'.stage = "none"
        /\ \A q \in Path : pass'.expected[q] = pass.expected[q] \/ pass'.expected[q] = None
    <3>1. CASE pass' = [pass EXCEPT !.act = None, !.stage = "none"]
      BY <3>1 DEF TypeInv, TypeOK, Passes
    <3>2. CASE pass' = [pass EXCEPT !.adopt[p] = None, !.act = None, !.stage = "none"]
      BY <3>2 DEF TypeInv, TypeOK, Passes
    <3>3. CASE pass' = [pass EXCEPT !.act = None, !.stage = "none", !.expected[p] = None]
      BY <3>3 DEF TypeInv, TypeOK, Passes
    <3> QED
      BY <3>1, <3>2, <3>3
  <2> QED
    BY <2>1, <1>ApplyLoss DEF ReadyVerified

<1>PlanLoss. ASSUME TypeInv, HeldInv, NEW skip \in SUBSET Path, Plan(skip), pc = "read", pc' = "apply",
                    UNCHANGED held
             PROVE  LossInv'
  <2> USE <1>PlanLoss
  \* The side that is written to has not moved, unless the developer said so.
  <2>MoverStill. ASSUME NEW s, NEW was, NEW answer, answer = None, Mover(s, was, answer) \in Side
                 PROVE  ~Changed(s[Other(Mover(s, was, answer))], was)
    BY <2>MoverStill, NoneAssumption, Zenon DEF Mover, BothMoved, Other, Side
  <2>MoverAnswer. ASSUME NEW s, NEW was, NEW answer, answer # None, Mover(s, was, answer) \in Side
                  PROVE  Mover(s, was, answer) = answer
    BY <2>MoverAnswer, NoneAssumption, Zenon DEF Mover, BothMoved, Side
  \* A side that has not moved stands as it was agreed.
  <2>UnchangedData. ASSUME NEW now, now # None, NEW was \in Agreed \cup {None}, ~Changed(now, was)
                    PROVE  /\ was # None /\ now.kind = KindOf(was.data)
                           /\ now.data = Vouched \/ now.data = was.data
    BY <2>UnchangedData, Zenon DEF Changed, DigestOf
  \* The expected state of a planned action's destination.
  <2>ExpectedAt. ASSUME NEW seen, NEW led, NEW actions, NEW a \in actions, a.path \in Path,
                        \A b \in actions : b.path = a.path => b.to = a.to
                 PROVE  Expected(seen, led, actions)[a.path] = ExpectedOf(seen[a.to][a.path], led[a.path])
    <3> USE <2>ExpectedAt, Zenon
    <3> DEFINE p == a.path
               c == CHOOSE b \in actions : b.path = p
    <3>1. c \in actions /\ c.path = p
      OBVIOUS
    <3>2. c.to = a.to
      BY <3>1
    <3> HIDE DEF c
    <3>3. Expected(seen, led, actions)[p] = ExpectedOf(seen[c.to][p], led[p])
      BY <3>1, ZenonT(30) DEF Expected, ExpectedOf, c
    <3> QED
      BY <3>2, <3>3
  <2> USE Zenon
  <2> DEFINE seen == [host |-> pass.seen, guest |-> ReadGuest(skip)]
             undecided == pass.undecided \cup skip
             plan == Decide(seen, mem.agreed, undecided, pass.taken)
  <2>1. /\ seen \in [Side -> [Path -> Seen \cup {None}]]
        /\ mem.agreed \in [Path -> Agreed \cup {None}]
        /\ pass.taken \in [Path -> Side \cup {None}]
    BY ProbeSeen
  <2>2. /\ pass'.todo = plan.actions /\ pass'.stage = "none" /\ pass'.taken = pass.taken
        /\ pass'.expected = Expected(seen, mem.agreed, plan.actions)
    BY DEF Plan, TypeInv, TypeOK, Passes, StageOK
  <2>3. /\ plan.actions \subseteq Action
        /\ \A a \in plan.actions :
              a \in Carry(a.path, At(seen, a.path), mem.agreed[a.path], pass.taken[a.path])
    BY <2>1, DecideType
  <2>4. \A p \in Path : mem.agreed[p] # None => \A side \in Side : mem.agreed[p].data \in held[side][p]
    BY DEF HeldInv, LedgerHeld
  <2> HIDE DEF seen, undecided, plan
  <2>5. ASSUME NEW b \in plan.actions
        PROVE  LET m == Mover(At(seen, b.path), mem.agreed[b.path], pass.taken[b.path])
               IN  m \in Side /\ b.to = Other(m)
    <3>1. /\ b.path \in Path
          /\ b \in Carry(b.path, At(seen, b.path), mem.agreed[b.path], pass.taken[b.path])
      BY <2>3 DEF Action
    <3>2. /\ At(seen, b.path) \in Readings
          /\ mem.agreed[b.path] \in MaybeAgreed /\ pass.taken[b.path] \in MaybeSide
      BY <2>1, <3>1 DEF At, Readings, MaybeAgreed, MaybeSide
    <3> QED
      BY <3>1, <3>2, CarryForall, SMTT(30)
  <2>6. ASSUME NEW a \in plan.actions
        PROVE  Safe(a)'
    <3> DEFINE p == a.path
               s == At(seen, p)
               m == Mover(s, mem.agreed[p], pass.taken[p])
               now == seen[a.to][p]
               expected == pass'.expected[p]
    <3>1. p \in Path /\ a \in Carry(p, s, mem.agreed[p], pass.taken[p])
      BY <2>3 DEF Action
    <3>2. m \in Side /\ a.to = Other(m)
      BY <2>5
    <3>3. \A b \in plan.actions : b.path = p => b.to = a.to
      BY <2>5
    <3>4. a.to \in Side /\ Other(a.to) = m /\ s[a.to] = now
      BY <3>2, OtherType DEF At
    <3>5. expected = ExpectedOf(now, mem.agreed[p])
      BY <2>2, <3>1, <3>3, <2>ExpectedAt, SMTT(30)
    <3>6. now \in Seen \cup {None} /\ mem.agreed[p] \in Agreed \cup {None}
      BY <2>1, <3>1, <3>4
    <3>7. Safe(a)' <=> \/ pass'.mode = "reseed" /\ a.to = "guest"
                       \/ pass.taken[p] = Other(a.to)
                       \/ expected = None
                       \/ /\ expected.data \in held[Other(a.to)][p]
                          /\ expected.kind = "dir" => expected.data \in Dirs
      BY <2>2 DEF Safe
    <3>8. CASE pass.taken[p] # None
      BY <3>2, <3>4, <3>7, <3>8, <2>MoverAnswer
    <3>9. CASE pass.taken[p] = None
      <4>1. ~Changed(now, mem.agreed[p])
        BY <3>2, <3>4, <3>9, <2>MoverStill
      <4>2. CASE now = None
        BY <3>5, <3>7, <4>2 DEF ExpectedOf
      <4>3. CASE now # None
        <5>1. /\ mem.agreed[p] # None /\ now.kind = KindOf(mem.agreed[p].data)
              /\ now.data = Vouched \/ now.data = mem.agreed[p].data
          BY <3>6, <4>1, <4>3, <2>UnchangedData
        <5> HIDE DEF now
        <5>2. expected.data = mem.agreed[p].data /\ expected.kind = now.kind
          BY <3>5, <3>6, <4>3, <5>1 DEF Seen, ExpectedOf
        <5>3. mem.agreed[p].data \in held[Other(a.to)][p]
          BY <2>4, <3>1, <3>2, <3>4, <5>1, SMTT(30)
        <5>4. expected.kind = "dir" => expected.data \in Dirs
          BY <5>1, <5>2 DEF KindOf
        <5> QED
          BY <3>7, <5>2, <5>3, <5>4
      <4> QED
        BY <4>2, <4>3
    <3> QED
      BY <3>8, <3>9
  <2> QED
    BY <2>2, <2>6 DEF LossInv, PlanSafe, ReadyVerified, ModeKnown

\* A re-seed writes to the guest alone.
<1>PlanReseedLoss. ASSUME TypeInv, NEW skip \in SUBSET Path, PlanReseed(skip), pc = "read", pc' = "apply",
                          pass.mode = "reseed"
                   PROVE  LossInv'
  <2> USE <1>PlanReseedLoss
  <2> DEFINE seen == [host |-> pass.seen, guest |-> ReadGuest(skip)]
             undecided == pass.undecided \cup skip
             plan == Reseed(seen, undecided)
  <2>1. \A a \in plan.actions : a.to = "guest"
    BY ProbeSeen, ReseedType, ZenonT(30)
  <2>2. pass'.todo = plan.actions /\ pass'.stage = "none" /\ pass'.mode = "reseed"
    BY Zenon DEF PlanReseed, TypeInv, TypeOK, Passes, StageOK
  <2> HIDE DEF plan
  <2> QED
    BY <2>1, <2>2, Zenon DEF LossInv, PlanSafe, Safe, ReadyVerified, ModeKnown

<1>NoPassLoss. pass' = NoPass /\ pc' # "read" => LossInv'
  BY <1>IdleLoss, SMTT(30) DEF NoPass

<1>FrameLoss. ASSUME LossInv, UNCHANGED <<tree, held, pass, raced, pc>>
              PROVE  LossInv'
  BY <1>FrameLoss, Zenon DEF LossInv, PlanSafe, Safe, ReadyVerified, ModeKnown

<1>WriteLoss. ASSUME TypeInv, LossInv, NEW side \in Side, NEW p \in Path, Write(side, p)
              PROVE  LossInv'
  <2> USE <1>WriteLoss, Zenon
  <2>1. PICK c \in Copy \cup {None} :
          /\ tree' = [tree EXCEPT ![side][p] = c]
          /\ held' = IF c = None THEN held ELSE [held EXCEPT ![side][p] = @ \cup {c.data}]
    BY ZenonT(30) DEF Write
  <2>2. tree \in Trees /\ held \in Helds
    BY DEF TypeInv, TypeOK, TreesOK, Trees, Helds
  <2>3. Grows
    BY <2>1, <2>2 DEF Grows, Helds
  <2>4. UNCHANGED <<pass, pc>>
    BY DEF Write
  <2>5. ReadyVerified'
    <3> SUFFICES ASSUME pass.stage = "ready", ~raced'
                 PROVE  tree'[pass.act.to][pass.act.path] = tree[pass.act.to][pass.act.path] /\ ~raced
      BY <2>4 DEF ReadyVerified, LossInv
    <3>1. ~raced /\ ~(pass.act.path = p /\ pass.act.to = side)
      BY ZenonT(30) DEF Write
    <3>2. pass.act.to \in Side /\ pass.act.path \in Path
      BY DEF TypeInv, StageOK, Action
    <3> QED
      BY <2>1, <2>2, <3>1, <3>2, SMTT(30) DEF Trees
  <2>6. \A a \in Action : Safe(a) => Safe(a)'
    BY <2>3, <2>4, SafeKept
  <2> QED
    BY <2>4, <2>5, <2>6, SMTT(30) DEF LossInv, PlanSafe, ModeKnown, TypeInv, TypeOK, StageOK, Passes

<1>RewindLoss. ASSUME LossInv, Rewind
               PROVE  LossInv'
  BY <1>RewindLoss, ZenonT(30) DEF LossInv, PlanSafe, Safe, ReadyVerified, ModeKnown, Rewind

<1>AdoptHostLoss. ASSUME TypeInv, LossInv, NEW p \in Path, AdoptHost(p)
                  PROVE  LossInv'
  <2> USE <1>AdoptHostLoss, Zenon
  <2>1. pc' = "apply" /\ Grows
    BY DEF AdoptHost, applyFrame, Grows
  <2>2. CASE pass' = [Failing(p) EXCEPT !.adopt[p] = None]
    BY <2>1, <2>2, <1>FailingLoss
  <2>3. CASE pass' = [pass EXCEPT !.act = [op |-> "adopt", path |-> p], !.stage = "adopt"]
    <3>1. /\ pass'.mode = pass.mode /\ pass'.taken = pass.taken /\ pass'.expected = pass.expected
          /\ pass'.todo = pass.todo /\ pass'.stage = "adopt"
      BY <2>3 DEF TypeInv, TypeOK, Passes
    <3> QED
      BY <2>1, <3>1, <1>ApplyLoss DEF ReadyVerified
  <2> QED
    BY <2>2, <2>3 DEF AdoptHost

<1>AdoptGuestLoss. ASSUME TypeInv, LossInv, AdoptGuest
                   PROVE  LossInv'
  <2> USE <1>AdoptGuestLoss
  <2> DEFINE p == pass.act.path
  <2>1. pc' = "apply" /\ Grows /\ p \in Path
    BY Zenon DEF AdoptGuest, applyFrame, Grows, TypeInv, StageOK
  <2>2. \/ pass' = [pass EXCEPT !.adopt[p] = None, !.act = None, !.stage = "none"]
        \/ pass' = [Failing(p) EXCEPT !.adopt[p] = None]
    BY Zenon DEF AdoptGuest
  <2> QED
    BY <2>1, <2>2, <1>FailingLoss, <1>OverLoss, ZenonT(30)

<1>TransferLoss. ASSUME TypeInv, LossInv, NEW a \in pass.todo, Transfer(a)
                 PROVE  LossInv'
  <2> USE <1>TransferLoss, Zenon
  <2>1. pc' = "apply" /\ Grows /\ tree' = tree
    BY DEF Transfer, applyFrame, Grows
  <2>2. a \in Action /\ a.path \in Path
    BY DEF TypeInv, TypeOK, Passes, Action
  <2>3. CASE pass' = [Failing(a.path) EXCEPT !.todo = @ \ {a}]
    BY <2>1, <2>2, <2>3, <1>FailingLoss, ZenonT(30)
  <2>4. CASE /\ Verified(tree[a.to][a.path], pass.expected[a.path])
             /\ pass' = [pass EXCEPT !.todo = @ \ {a}, !.act = a,
                                     !.stage = IF IsTransfer(a) THEN "sent" ELSE "ready"]
    <3>1. /\ pass'.mode = pass.mode /\ pass'.taken = pass.taken /\ pass'.expected = pass.expected
          /\ pass'.todo \subseteq pass.todo /\ pass'.act = a
      BY <2>4 DEF TypeInv, TypeOK, Passes
    <3>2. ReadyVerified'
      BY <2>1, <2>4, <3>1 DEF ReadyVerified
    <3> QED
      BY <2>1, <3>1, <3>2, <1>ApplyLoss
  <2> QED
    BY <2>3, <2>4 DEF Transfer

<1>RecheckLoss. ASSUME TypeInv, LossInv, Recheck
                PROVE  LossInv'
  <2> USE <1>RecheckLoss, Zenon
  <2> DEFINE p == pass.act.path
  <2>1. pc' = "apply" /\ Grows /\ tree' = tree /\ p \in Path
    BY DEF Recheck, applyFrame, Grows, TypeInv, StageOK, Action
  <2>2. CASE pass' = Failing(p)
    BY <2>1, <2>2, <1>FailingLoss, ZenonT(30)
  <2>3. CASE /\ Verified(tree[pass.act.to][p], pass.expected[p])
             /\ pass' = [pass EXCEPT !.stage = "ready"]
    <3>1. /\ pass'.mode = pass.mode /\ pass'.taken = pass.taken /\ pass'.expected = pass.expected
          /\ pass'.todo = pass.todo /\ pass'.act = pass.act
      BY <2>3 DEF TypeInv, TypeOK, Passes
    <3>2. ReadyVerified'
      BY <2>1, <2>3, <3>1 DEF ReadyVerified
    <3> QED
      BY <2>1, <3>1, <3>2, <1>ApplyLoss, ZenonT(30) DEF Recheck
  <2> QED
    BY <2>2, <2>3 DEF Recheck

<1>CommitLoss. ASSUME TypeInv, LossInv, Commit
               PROVE  LossInv'
  <2> USE <1>CommitLoss, Zenon
  <2> DEFINE a == pass.act
             to == a.to
             p == a.path
  <2>1. pc' = "apply" /\ p \in Path /\ to \in Side
    BY CommitActs
  <2>2. CASE Remove(a, tree[to][p]) /\ UNCHANGED held
    <3>1. Grows
      BY <2>2 DEF Grows
    <3>2. \/ pass' = Failing(p)
          \/ pass' = [pass EXCEPT !.act = None, !.stage = "none"]
          \/ pass' = [pass EXCEPT !.act = None, !.stage = "none", !.expected[p] = None]
      BY <2>2, RemoveEnds, ZenonT(30)
    <3> QED
      BY <2>1, <3>1, <3>2, <1>FailingLoss, <1>OverLoss, ZenonT(30)
  <2>3. CASE Put(a, tree[to][p])
    <3>1. /\ held' = held \/ held' = [held EXCEPT ![to][p] = @ \cup {a.data}]
          /\ pass' = Failing(p) \/ pass' = [pass EXCEPT !.stage = "placed"]
      BY <2>3, PutEnds
    <3>2. Grows
      BY <2>1, <3>1, SMTT(30) DEF Grows, TypeInv, TypeOK, TreesOK
    <3>3. CASE pass' = Failing(p)
      BY <2>1, <3>2, <3>3, <1>FailingLoss, ZenonT(60)
    <3>4. CASE pass' = [pass EXCEPT !.stage = "placed"]
      <4>1. /\ pass'.mode = pass.mode /\ pass'.taken = pass.taken /\ pass'.expected = pass.expected
            /\ pass'.todo = pass.todo /\ pass'.act = pass.act /\ pass'.stage = "placed"
        BY <3>4 DEF TypeInv, TypeOK, Passes
      <4> QED
        BY <2>1, <3>2, <4>1, <1>ApplyLoss, SMTT(30) DEF ReadyVerified, Commit
    <3> QED
      BY <3>1, <3>3, <3>4
  <2> QED
    BY <2>2, <2>3 DEF Commit

<1>RecordLoss. ASSUME TypeInv, LossInv, Record
               PROVE  LossInv'
  <2> USE <1>RecordLoss
  <2> DEFINE p == pass.act.path
  <2>1. pc' = "apply" /\ Grows /\ p \in Path
    BY Zenon DEF Record, applyFrame, Grows, TypeInv, StageOK, Action
  <2>2. pass' = [pass EXCEPT !.act = None, !.stage = "none"] \/ pass' = Failing(p)
    BY ZenonT(30) DEF Record
  <2> QED
    BY <2>1, <2>2, <1>FailingLoss, <1>OverLoss, ZenonT(30)

<1>FailsLoss. ASSUME TypeInv, LossInv, Fails
              PROVE  LossInv'
  <2> USE <1>FailsLoss
  <2> DEFINE p == pass.act.path
  <2>1. pc' = "apply" /\ Grows /\ p \in Path
    BY Zenon DEF Fails, applyFrame, Grows, TypeInv, TypeOK, Passes, Action
  <2>2. pass' = [Failing(p) EXCEPT !.adopt[p] = None]
    BY Zenon DEF Fails
  <2> QED
    BY <2>1, <2>2, <1>FailingLoss, ZenonT(30)

\* A pass that begins has planned nothing.
<1>ReadLoss. ASSUME NEW mode \in {"pass", "reseed"}, NEW cached, NEW flying, Read(mode, cached, flying)
             PROVE  LossInv'
  <2> USE <1>ReadLoss
  <2>1. pass'.todo = {} /\ pass'.stage = "none" /\ pass'.mode = mode
    BY DEF Read, NoPass
  <2> QED
    BY <2>1, <1>IdleLoss, Zenon
<1> SUFFICES ASSUME TypeInv, HeldInv, LossInv, [Next]_vars
             PROVE  LossInv'
  BY Zenon
<1> USE Zenon
<1>1. CASE Environment
  <2>1. ASSUME NEW side \in Side, NEW p \in Path, Write(side, p)
        PROVE  LossInv'
    BY <2>1, <1>WriteLoss, ZenonT(60)
  <2>2. CASE \/ Ask \/ (\E p \in Path, winner \in Side : Resolve(p, winner))
             \/ (\E side \in Side : LoseCoverage(side)) \/ WatchDies \/ Capture
             \/ (\E discard \in BOOLEAN : BeginRestore(discard))
    BY <2>2, <1>FrameLoss
       DEF Ask, Resolve, LoseCoverage, WatchDies, Capture, BeginRestore, ghosts, loop
  <2>3. CASE Start \/ Stop \/ Crash
    BY <2>3, <1>NoPassLoss DEF Start, Stop, Crash, Fresh
  <2>4. CASE PassFails \/ SaveFails
    BY <2>4, <1>NoPassLoss DEF PassFails, SaveFails, Abandon
  <2> QED
    BY <1>1, <2>1, <2>2, <2>3, <2>4, <1>FailsLoss DEF Environment
<1>2. CASE Waking
  BY <1>2, <1>FrameLoss, ZenonT(60) DEF Waking, Settle, HearOfLoss, DropWatch, ghosts
<1>3. CASE Working
  <2>1. CASE OpenWatch
    BY <2>1, <1>FrameLoss DEF OpenWatch, ghosts
  <2>2. CASE BeginReseed \/ BeginPass
    BY <2>2, <1>ReadLoss, ZenonT(30) DEF BeginReseed, BeginPass
  <2>3. CASE Probe
    <3>1. pc = "read" /\ pc' = "apply" /\ UNCHANGED held
      BY <2>3 DEF Probe
    <3>2. PICK skip \in SUBSET Path : IF pass.mode = "pass" THEN Plan(skip) ELSE PlanReseed(skip)
      BY <2>3 DEF Probe
    <3>3. pass.mode \in {"pass", "reseed"}
      BY <3>1 DEF LossInv, ModeKnown, TypeInv, TypeOK, Passes
    <3> QED
      BY <3>1, <3>2, <3>3, <1>PlanLoss, <1>PlanReseedLoss
  <2>4. CASE FinishPass \/ FinishReseed
    BY <2>4, <1>NoPassLoss DEF FinishPass, FinishReseed
  <2> QED
    BY <1>3, <2>1, <2>2, <2>3, <2>4, <1>AdoptHostLoss, <1>AdoptGuestLoss, <1>TransferLoss, <1>RecheckLoss,
       <1>CommitLoss, <1>RecordLoss, ZenonT(60) DEF Working
<1>4. CASE Restoring
  <2>1. CASE Suspend
    BY <2>1, <1>NoPassLoss DEF Suspend, Fresh
  <2>2. CASE NoteRewound
    BY <2>2, <1>FrameLoss DEF NoteRewound, loop, ghosts
  <2>3. CASE Resume
    <3>1. CASE opRunning
      BY <2>3, <3>1, <1>NoPassLoss DEF Resume, Fresh
    <3>2. CASE ~opRunning
      BY <2>3, <3>2, <1>FrameLoss DEF Resume, loop
    <3> QED
      BY <3>1, <3>2
  <2> QED
    BY <1>4, <2>1, <2>2, <2>3, <1>RewindLoss DEF Restoring
<1>5. CASE UNCHANGED vars
  BY <1>5, <1>FrameLoss DEF vars, loop, ghosts
<1> QED
  BY <1>1, <1>2, <1>3, <1>4, <1>5 DEF Next

-----------------------------------------------------------------------------
(* The property. *)

\* Of the steps that end an action, a commit alone changes a tree.
LEMMA OnlyCommits ==
    ASSUME [Next]_vars, pass' # pass, tree' # tree
    PROVE  Commit
<1> USE Zenon
<1>1. CASE Environment
  BY <1>1, ZenonT(30) DEF Environment, Write, Ask, Resolve, Start, Stop, Crash, LoseCoverage, WatchDies,
     PassFails, Fails, SaveFails, Capture, BeginRestore, finishFrame
<1>2. CASE Waking
  BY <1>2 DEF Waking, Settle, HearOfLoss, DropWatch
<1>3. CASE Working
  BY <1>3, ZenonT(30) DEF Working, OpenWatch, BeginReseed, BeginPass, Probe, AdoptHost, AdoptGuest, Transfer,
     Recheck, Record, FinishPass, FinishReseed, finishFrame
<1>4. CASE Restoring
  BY <1>4, ZenonT(60) DEF Restoring, Suspend, NoteRewound, Rewind, Resume
<1>5. CASE UNCHANGED vars
  BY <1>5 DEF vars
<1> QED
  BY <1>1, <1>2, <1>3, <1>4, <1>5 DEF Next

\* A commit changes its destination and nothing else.
LEMMA CommitPlace ==
    ASSUME TypeInv, Commit, NEW side \in Side, NEW p \in Path, tree'[side][p] # tree[side][p]
    PROVE  side = pass.act.to /\ p = pass.act.path
<1> USE Zenon
<1> DEFINE a == pass.act
<1>1. a.path \in Path /\ a.to \in Side
  BY CommitActs, ZenonT(30)
<1>2. tree \in Trees
  BY DEF TypeInv, TypeOK, TreesOK, Trees
<1>3. tree' = tree \/ \E c : tree' = [tree EXCEPT ![a.to][a.path] = c]
  <2>1. CASE Remove(a, tree[a.to][a.path])
    BY <2>1, RemoveEnds, ZenonT(30)
  <2>2. CASE Put(a, tree[a.to][a.path])
    BY <2>2, PutEnds, ZenonT(30)
  <2> QED
    BY <2>1, <2>2, ZenonT(30) DEF Commit
<1>4. CASE tree' = tree
  BY <1>4
<1>5. ASSUME NEW c, tree' = [tree EXCEPT ![a.to][a.path] = c]
      PROVE  side = a.to /\ p = a.path
  BY <1>1, <1>2, <1>5 DEF Trees
<1> QED
  BY <1>3, <1>4, <1>5, ZenonT(30)

\* No work is lost unseen (verify_copy, capture_expected, reconcile), whatever
\* the paths, contents and bounds, and whether or not commands overlap.
THEOREM NoUnseenLossHolds == Spec => NoUnseenLoss
<1>InitLoss. Init => LossInv
  BY DEF Init, LossInv, PlanSafe, ReadyVerified, ModeKnown, NoPass

<1>CommitNoLoss. ASSUME TypeInv, LossInv, Commit, NEW side \in Side, NEW p \in Path,
                        tree[side][p] # None,
                        tree'[side][p] = None \/ tree'[side][p].data # tree[side][p].data
                 PROVE  \/ tree[side][p].data \in held[Other(side)][p]
                        \/ pass.taken[p] = Other(side)
                        \/ pass.mode = "reseed" /\ side = "guest"
                        \/ raced
  <2> USE <1>CommitNoLoss
  \* Finding what was expected is finding that content.
  <2>FoundExpected. ASSUME NEW copy, NEW expected, copy # None, Verified(copy, expected)
                    PROVE  /\ expected # None
                           /\ (expected.kind = "dir" => expected.data \in Dirs) => copy.data = expected.data
    BY <2>FoundExpected, DataAssumption, ZenonT(60) DEF Verified, KindOf
  <2> USE Zenon
  <2> DEFINE a == pass.act
  <2>1. a.path \in Path /\ a.to \in Side /\ pass.stage = "ready"
    BY CommitActs, ZenonT(30) DEF Commit
  <2>2. side = a.to /\ p = a.path
    <3>1. tree'[side][p] # tree[side][p]
      OBVIOUS
    <3> QED
      BY <3>1, CommitPlace
  <2>3. Safe(a) /\ (~raced => Verified(tree[side][p], pass.expected[p]))
    BY <2>1, <2>2 DEF LossInv, PlanSafe, ReadyVerified
  <2> QED
    BY <2>2, <2>3, <2>FoundExpected DEF Safe
<1> DEFINE Loss ==
        \A side \in Side, p \in Path :
          /\ pass.stage = "ready" /\ pass' # pass
          /\ tree[side][p] # None
          /\ tree'[side][p] = None \/ tree'[side][p].data # tree[side][p].data
          => \/ tree[side][p].data \in held[Other(side)][p]
             \/ pass.taken[p] = Other(side)
             \/ pass.mode = "reseed" /\ side = "guest"
             \/ raced
<1>1. TypeInv /\ LossInv /\ [Next]_vars => [Loss]_vars
  <2> SUFFICES ASSUME TypeInv, LossInv, [Next]_vars,
                      NEW side \in Side, NEW p \in Path, pass' # pass, tree[side][p] # None,
                      tree'[side][p] = None \/ tree'[side][p].data # tree[side][p].data
               PROVE  \/ tree[side][p].data \in held[Other(side)][p]
                      \/ pass.taken[p] = Other(side)
                      \/ pass.mode = "reseed" /\ side = "guest"
                      \/ raced
    BY Zenon
  <2>1. tree' # tree
    BY Zenon
  <2> QED
    BY <2>1, OnlyCommits, <1>CommitNoLoss, Zenon
<1>2. NoUnseenLoss <=> [][Loss]_vars
  BY Zenon DEF NoUnseenLoss
<1> QED
  BY InitType, StepType, InitHeld, StepHeld, <1>InitLoss, StepLoss, <1>1, <1>2, PTL DEF Spec

-----------------------------------------------------------------------------
(* What a step of the apply does to its pass. *)

\* A re-seed still has this path to deal with, or will be owed because of it.
Pending(p) ==
    \/ p \in pass.failed \cup pass.refused \cup pass.undecided
    \/ pass.adopt[p] # None
    \/ \E a \in pass.todo : a.path = p
    \/ pass.stage \in {"sent", "ready"} /\ pass.act.path = p

\* A step of the apply, seen from the plan: nothing is added to it, and a path
\* leaves a re-seed's list only when its guest copy is no longer a rewound one.
Applies ==
    /\ pc = "apply" /\ UNCHANGED <<disk, pc, due, op>>
    /\ mem'.owed = mem.owed /\ mem'.halted = mem.halted
    /\ SamePlan(pass') /\ pass'.todo \subseteq pass.todo
    /\ pass'.stage \in Active =>
           \/ pass'.act \in pass.todo
           \/ pass'.act = pass.act /\ pass.stage \in Active
    /\ rolled' \subseteq rolled
    /\ (pass.stage \in Active => pass.act.to = "guest") /\ Standing = {} =>
           \A p \in rolled' : Pending(p) => Pending(p)'

\* Every step of the apply is one.
LEMMA ApplyingApplies ==
    ASSUME TypeInv,
           \/ Fails \/ (\E p \in Path : AdoptHost(p)) \/ AdoptGuest
           \/ (\E a \in pass.todo : Transfer(a)) \/ Recheck \/ Commit \/ Record
    PROVE  Applies
\* Once an adoption failed, its path is among the failures and the others are
\* where they were.
<1>FailedPending. ASSUME NEW p \in Path, NEW o \in Path, Pending(o),
                         SamePlan(pass'), pass'.todo = pass.todo, pass'.failed = pass.failed \cup {p},
                         \A r \in Path : r # p => pass'.adopt[r] = pass.adopt[r],
                         pass.stage \in {"sent", "ready"} => pass.act.path = p
                  PROVE  Pending(o)'
  <2> USE <1>FailedPending, Zenon
  <2>1. CASE o = p
    BY <2>1 DEF Pending
  <2>2. CASE o # p
    <3>1. \/ o \in pass'.failed \cup pass'.refused \cup pass'.undecided
          \/ pass'.adopt[o] # None
          \/ \E a \in pass'.todo : a.path = o
      BY <2>2, ZenonT(30) DEF Pending, SamePlan
    <3> QED
      BY <3>1 DEF Pending
  <2> QED
    BY <2>1, <2>2

\* An action that fails leaves its path among the failures.
<1>FailingApplies. ASSUME TypeInv, NEW p \in Path, pass' = Failing(p),
                          pass.stage \in {"sent", "ready"} => pass.act.path = p,
                          pc = "apply", UNCHANGED <<disk, pc, due, op>>,
                          mem'.owed = mem.owed, mem'.halted = mem.halted, rolled' \subseteq rolled
                   PROVE  Applies
  <2> USE <1>FailingApplies, Zenon
  <2>1. pass \in Passes /\ rolled \in SUBSET Path
    BY DEF TypeInv, TypeOK, HistoryOK
  <2>2. /\ SamePlan(pass') /\ pass'.todo = pass.todo /\ pass'.adopt = pass.adopt
        /\ pass'.failed = pass.failed \cup {p} /\ pass'.stage = "none"
    BY <2>1, FailingFields
  <2>3. \A o \in rolled' : Pending(o) => Pending(o)'
    BY <2>1, <2>2, <1>FailedPending
  <2> QED
    BY <2>2, <2>3 DEF Applies, Active

\* An action that succeeds leaves nothing of its path to be done, and its path
\* is not a rewound one any more.
<1>OverApplies. ASSUME TypeInv, NEW p \in Path,
                       \/ pass' = [pass EXCEPT !.act = None, !.stage = "none"]
                       \/ pass' = [pass EXCEPT !.act = None, !.stage = "none", !.expected[p] = None],
                       pc = "apply", UNCHANGED <<disk, pc, due, op>>,
                       mem'.owed = mem.owed, mem'.halted = mem.halted, rolled' \subseteq rolled,
                       /\ pass.stage \in {"sent", "ready"} => pass.act.path = p
                       /\ pass.stage \in {"sent", "ready"} /\ pass.act.to = "guest" /\ Standing = {} => p \notin rolled'
                PROVE  Applies
  <2> USE <1>OverApplies, Zenon
  <2>1. pass \in Passes /\ rolled \in SUBSET Path
    BY DEF TypeInv, TypeOK, HistoryOK
  <2>2. /\ SamePlan(pass') /\ pass'.todo = pass.todo /\ pass'.adopt = pass.adopt
        /\ pass'.failed = pass.failed /\ pass'.stage = "none"
    BY <2>1, OverFields
  <2>3. ASSUME pass.stage \in Active => pass.act.to = "guest", Standing = {},
               NEW o \in rolled', Pending(o)
        PROVE  Pending(o)'
    <3>1. ~(pass.stage \in {"sent", "ready"} /\ pass.act.path = o)
      BY <2>3 DEF Active
    <3> QED
      BY <2>2, <2>3, <3>1 DEF Pending, SamePlan
  <2> QED
    BY <2>2, <2>3 DEF Applies, Active

<1>FailsApplies. ASSUME TypeInv, Fails
                 PROVE  Applies
  <2> USE <1>FailsApplies, Zenon
  <2> DEFINE p == pass.act.path
  <2>1. p \in Path /\ pass \in Passes /\ rolled \in SUBSET Path
    BY DEF Fails, TypeInv, TypeOK, HistoryOK, Passes, Action
  <2>2. pass' = [Failing(p) EXCEPT !.adopt[p] = None]
    BY DEF Fails
  <2>3. pc = "apply" /\ UNCHANGED <<disk, pc, due, op, rolled>>
    BY DEF Fails, applyFrame, command
  <2>4. mem'.owed = mem.owed /\ mem'.halted = mem.halted
    BY DEF Fails, TypeInv, TypeOK, LedgersOK, Ledgers
  <2> HIDE DEF p
  <2>5. /\ SamePlan(pass') /\ pass'.todo = pass.todo
        /\ pass'.failed = pass.failed \cup {p} /\ pass'.stage = "none"
        /\ \A o \in Path : o # p => pass'.adopt[o] = pass.adopt[o]
    BY <2>1, <2>2, FailedAdoption
  <2>6. \A o \in rolled' : Pending(o) => Pending(o)'
    BY <2>1, <2>3, <2>5, <1>FailedPending DEF p
  <2> QED
    BY <2>3, <2>4, <2>5, <2>6 DEF Applies, Active

<1>AdoptHostApplies. ASSUME TypeInv, NEW p \in Path, AdoptHost(p)
                     PROVE  Applies
  <2> USE <1>AdoptHostApplies, Zenon
  <2>1. pass \in Passes /\ rolled \in SUBSET Path /\ pass.stage \notin Active
    BY NoAct DEF AdoptHost, TypeInv, TypeOK, HistoryOK
  <2>2. pc = "apply" /\ UNCHANGED <<disk, mem, pc, due, op, rolled>>
    BY DEF AdoptHost, applyFrame, command
  <2>3. CASE pass' = [Failing(p) EXCEPT !.adopt[p] = None]
    <3>1. /\ SamePlan(pass') /\ pass'.todo = pass.todo
          /\ pass'.failed = pass.failed \cup {p} /\ pass'.stage = "none"
          /\ \A o \in Path : o # p => pass'.adopt[o] = pass.adopt[o]
      BY <2>1, <2>3, FailedAdoption
    <3>2. \A o \in rolled' : Pending(o) => Pending(o)'
      BY <2>1, <2>2, <3>1, <1>FailedPending DEF Active
    <3> QED
      BY <2>2, <3>1, <3>2 DEF Applies, Active
  <2>4. CASE pass' = [pass EXCEPT !.act = [op |-> "adopt", path |-> p], !.stage = "adopt"]
    <3>1. /\ SamePlan(pass') /\ pass'.todo = pass.todo /\ pass'.failed = pass.failed
          /\ pass'.adopt = pass.adopt /\ pass'.stage = "adopt"
      BY <2>1, <2>4 DEF SamePlan, Passes
    <3>2. \A o \in rolled' : Pending(o) => Pending(o)'
      BY <2>1, <3>1 DEF Pending, SamePlan, Active
    <3> QED
      BY <2>2, <3>1, <3>2 DEF Applies, Active
  <2> QED
    BY <2>3, <2>4 DEF AdoptHost

<1>AdoptGuestApplies. ASSUME TypeInv, AdoptGuest
                      PROVE  Applies
  <2> USE <1>AdoptGuestApplies, Zenon
  <2> DEFINE p == pass.act.path
  <2>1. pass \in Passes /\ rolled \in SUBSET Path /\ pass.stage = "adopt" /\ p \in Path
    BY DEF AdoptGuest, TypeInv, TypeOK, HistoryOK, StageOK
  <2>2. pc = "apply" /\ UNCHANGED <<disk, pc, due, op>>
    BY DEF AdoptGuest, applyFrame, command
  <2>3. mem'.owed = mem.owed /\ mem'.halted = mem.halted
    BY DEF AdoptGuest, TypeInv, TypeOK, LedgersOK, Ledgers
  <2>4. \/ pass' = [Failing(p) EXCEPT !.adopt[p] = None] /\ rolled' = rolled
        \/ /\ pass' = [pass EXCEPT !.adopt[p] = None, !.act = None, !.stage = "none"]
           /\ rolled' = rolled \ {p}
    BY ZenonT(30) DEF AdoptGuest
  <2> HIDE DEF p
  <2>5. CASE pass' = [Failing(p) EXCEPT !.adopt[p] = None] /\ rolled' = rolled
    <3>1. /\ SamePlan(pass') /\ pass'.todo = pass.todo
          /\ pass'.failed = pass.failed \cup {p} /\ pass'.stage = "none"
          /\ \A o \in Path : o # p => pass'.adopt[o] = pass.adopt[o]
      BY <2>1, <2>5, FailedAdoption
    <3>2. \A o \in rolled' : Pending(o) => Pending(o)'
      BY <2>1, <2>5, <3>1, <1>FailedPending
    <3> QED
      BY <2>2, <2>3, <2>5, <3>1, <3>2 DEF Applies, Active
  <2>6. CASE /\ pass' = [pass EXCEPT !.adopt[p] = None, !.act = None, !.stage = "none"]
             /\ rolled' = rolled \ {p}
    <3>1. /\ SamePlan(pass') /\ pass'.todo = pass.todo /\ pass'.failed = pass.failed
          /\ pass'.stage = "none"
          /\ \A o \in Path : o # p => pass'.adopt[o] = pass.adopt[o]
      BY <2>1, <2>6 DEF SamePlan, Passes
    <3>2. \A o \in rolled' : Pending(o) => Pending(o)'
      BY <2>1, <2>6, <3>1 DEF Pending, SamePlan
    <3> QED
      BY <2>2, <2>3, <2>6, <3>1, <3>2 DEF Applies, Active
  <2> QED
    BY <2>4, <2>5, <2>6

<1>TransferApplies. ASSUME TypeInv, NEW a \in pass.todo, Transfer(a)
                    PROVE  Applies
  <2> USE <1>TransferApplies, Zenon
  <2>1. pass \in Passes /\ rolled \in SUBSET Path /\ pass.stage \notin Active /\ a.path \in Path
    BY NoAct DEF Transfer, TypeInv, TypeOK, HistoryOK, Passes, Action
  <2>2. pc = "apply" /\ UNCHANGED <<disk, mem, pc, due, op, rolled>>
    BY DEF Transfer, applyFrame, command
  <2>3. CASE pass' = [Failing(a.path) EXCEPT !.todo = @ \ {a}]
    <3>1. /\ SamePlan(pass') /\ pass'.todo = pass.todo \ {a} /\ pass'.adopt = pass.adopt
          /\ pass'.failed = pass.failed \cup {a.path} /\ pass'.stage = "none"
      BY <2>1, <2>3, FailedTransfer
    <3>2. \A o \in rolled' : Pending(o) => Pending(o)'
      BY <2>1, <2>2, <3>1, ZenonT(30) DEF Pending, SamePlan, Active
    <3> QED
      BY <2>2, <3>1, <3>2 DEF Applies, Active
  <2>4. CASE pass' = [pass EXCEPT !.todo = @ \ {a}, !.act = a,
                                  !.stage = IF IsTransfer(a) THEN "sent" ELSE "ready"]
    <3>1. /\ SamePlan(pass') /\ pass'.todo = pass.todo \ {a} /\ pass'.adopt = pass.adopt
          /\ pass'.failed = pass.failed /\ pass'.act = a /\ pass'.stage \in {"sent", "ready"}
      BY <2>1, <2>4 DEF SamePlan, Passes
    <3>2. \A o \in rolled' : Pending(o) => Pending(o)'
      BY <2>1, <2>2, <3>1, ZenonT(30) DEF Pending, SamePlan, Active
    <3> QED
      BY <2>2, <3>1, <3>2 DEF Applies, Active
  <2> QED
    BY <2>3, <2>4 DEF Transfer

<1>RecheckApplies. ASSUME TypeInv, Recheck
                   PROVE  Applies
  <2> USE <1>RecheckApplies, Zenon
  <2>1. /\ pass \in Passes /\ rolled \in SUBSET Path /\ pass.stage = "sent"
        /\ pass.act.path \in Path
    BY DEF Recheck, TypeInv, TypeOK, HistoryOK, StageOK, Action
  <2>2. pc = "apply" /\ UNCHANGED <<disk, mem, pc, due, op, rolled>>
    BY DEF Recheck, applyFrame, command
  <2>3. CASE pass' = Failing(pass.act.path)
    BY <2>1, <2>2, <2>3, <1>FailingApplies
  <2>4. CASE pass' = [pass EXCEPT !.stage = "ready"]
    <3>1. /\ SamePlan(pass') /\ pass'.todo = pass.todo /\ pass'.adopt = pass.adopt
          /\ pass'.failed = pass.failed /\ pass'.act = pass.act /\ pass'.stage = "ready"
      BY <2>1, <2>4 DEF SamePlan, Passes
    <3>2. \A o \in rolled' : Pending(o) => Pending(o)'
      BY <2>1, <2>2, <3>1 DEF Pending, SamePlan
    <3> QED
      BY <2>1, <2>2, <3>1, <3>2 DEF Applies, Active
  <2> QED
    BY <2>3, <2>4 DEF Recheck

<1>CommitApplies. ASSUME TypeInv, Commit
                  PROVE  Applies
  <2> USE <1>CommitApplies
  <2>RemoveApplies. ASSUME TypeInv, Commit, Remove(pass.act, tree[pass.act.to][pass.act.path])
                    PROVE  Applies
    <3> USE <2>RemoveApplies, Zenon
    <3> DEFINE p == pass.act.path
    <3>1. pass \in Passes /\ rolled \in SUBSET Path /\ p \in Path
      BY CommitActs DEF TypeInv, TypeOK, HistoryOK
    <3>2. pc = "apply" /\ UNCHANGED <<disk, pc, due, op>>
      BY ZenonT(30) DEF Commit, applyFrame, command
    <3>3. mem'.owed = mem.owed /\ mem'.halted = mem.halted
      <4>1. mem' = mem \/ mem' = [mem EXCEPT !.agreed[p] = None]
        BY RemoveEnds, ZenonT(30)
      <4> QED
        BY <4>1 DEF TypeInv, TypeOK, LedgersOK, Ledgers
    <3>4. /\ rolled' \subseteq rolled
          /\ \/ pass' = Failing(p)
             \/ /\ \/ pass' = [pass EXCEPT !.act = None, !.stage = "none"]
                   \/ pass' = [pass EXCEPT !.act = None, !.stage = "none", !.expected[p] = None]
                /\ pass.act.to = "guest" /\ Standing = {} => p \notin rolled'
      BY ZenonT(60) DEF Remove, ReplyLost
    <3> HIDE DEF p
    <3>5. CASE pass' = Failing(p)
      BY <3>1, <3>2, <3>3, <3>4, <3>5, <1>FailingApplies DEF p
    <3>6. CASE /\ \/ pass' = [pass EXCEPT !.act = None, !.stage = "none"]
                  \/ pass' = [pass EXCEPT !.act = None, !.stage = "none", !.expected[p] = None]
               /\ pass.act.to = "guest" /\ Standing = {} => p \notin rolled'
      BY <3>1, <3>2, <3>3, <3>4, <3>6, <1>OverApplies DEF p
    <3> QED
      BY <3>4, <3>5, <3>6
  <2>PutApplies. ASSUME TypeInv, Commit, Put(pass.act, tree[pass.act.to][pass.act.path]), UNCHANGED mem
                 PROVE  Applies
    <3> USE <2>PutApplies, Zenon
    <3> DEFINE p == pass.act.path
    <3>1. pass \in Passes /\ rolled \in SUBSET Path /\ p \in Path
      BY CommitActs DEF TypeInv, TypeOK, HistoryOK
    <3>2. pc = "apply" /\ pass.stage = "ready" /\ UNCHANGED <<disk, pc, due, op>>
      BY ZenonT(30) DEF Commit, applyFrame, command
    <3>4. /\ rolled' \subseteq rolled
          /\ \/ pass' = Failing(p)
             \/ /\ pass' = [pass EXCEPT !.stage = "placed"]
                /\ pass.act.to = "guest" => p \notin rolled'
      BY ZenonT(60) DEF Put, ReplyLost
    <3> HIDE DEF p
    <3>5. CASE pass' = Failing(p)
      BY <3>1, <3>2, <3>4, <3>5, <1>FailingApplies DEF p
    <3>6. CASE /\ pass' = [pass EXCEPT !.stage = "placed"]
               /\ pass.act.to = "guest" => p \notin rolled'
      <4>1. /\ SamePlan(pass') /\ pass'.todo = pass.todo /\ pass'.adopt = pass.adopt
            /\ pass'.failed = pass.failed /\ pass'.act = pass.act /\ pass'.stage = "placed"
        BY <3>1, <3>6 DEF SamePlan, Passes
      <4>2. ASSUME pass.act.to = "guest", NEW o \in rolled', Pending(o)
            PROVE  Pending(o)'
        BY <3>1, <3>6, <4>1, <4>2 DEF Pending, SamePlan, p
      <4> QED
        BY <3>1, <3>2, <3>4, <4>1, <4>2 DEF Applies, Active
    <3> QED
      BY <3>4, <3>5, <3>6
  <2> QED
    BY <2>RemoveApplies, <2>PutApplies, ZenonT(30) DEF Commit

<1>RecordApplies. ASSUME TypeInv, Record
                  PROVE  Applies
  <2> USE <1>RecordApplies, Zenon
  <2>1. /\ pass \in Passes /\ rolled' = rolled /\ pass.stage = "placed"
        /\ pass.act.path \in Path
    BY DEF Record, TypeInv, TypeOK, StageOK, Action
  <2>2. pc = "apply" /\ UNCHANGED <<disk, pc, due, op>>
    BY DEF Record, applyFrame, command
  <2>3. mem'.owed = mem.owed /\ mem'.halted = mem.halted
    BY DEF Record, TypeInv, TypeOK, LedgersOK, Ledgers
  <2>4. pass' = Failing(pass.act.path) \/ pass' = [pass EXCEPT !.act = None, !.stage = "none"]
    BY ZenonT(30) DEF Record
  <2>5. CASE pass' = Failing(pass.act.path)
    BY <2>1, <2>2, <2>3, <2>5, <1>FailingApplies
  <2>6. CASE pass' = [pass EXCEPT !.act = None, !.stage = "none"]
    BY <2>1, <2>2, <2>3, <2>6, <1>OverApplies
  <2> QED
    BY <2>4, <2>5, <2>6
<1> QED
  BY <1>FailsApplies, <1>AdoptHostApplies, <1>AdoptGuestApplies, <1>TransferApplies, <1>RecheckApplies, <1>CommitApplies,
     <1>RecordApplies, ZenonT(30)

-----------------------------------------------------------------------------
(* Halts. *)

\* A halted pass carries out only what was answered, and has something to save;
\* the halt it found is in the file by the time the loop is between passes, or
\* the pass is due again.
HaltInv ==
    /\ pc = "read" => pass.halt = {}
    /\ pass.halt # {} =>
         /\ pass.mode = "pass" /\ pass.records
         /\ \A a \in pass.todo : pass.taken[a.path] # None
         /\ pass.stage \in Active => pass.taken[pass.act.path] # None
    /\ HaltOnRecord

\* No pass, no halt.
LEMMA InitHalt == Init => HaltInv
BY DEF Init, HaltInv, HaltOnRecord, NoPass

\* What an ordinary pass makes of its decision, and what it leaves alone.
LEMMA PlanFields ==
    ASSUME TypeInv, NEW skip \in SUBSET Path, Plan(skip)
    PROVE  LET plan == Decide([host |-> pass.seen, guest |-> ReadGuest(skip)], mem.agreed,
                              pass.undecided \cup skip, pass.taken)
           IN  /\ pass'.halt = plan.halt /\ pass'.records = plan.records
               /\ pass'.todo = plan.actions
               /\ pass'.mode = pass.mode /\ pass'.taken = pass.taken
<1> DEFINE plan == Decide([host |-> pass.seen, guest |-> ReadGuest(skip)], mem.agreed,
                          pass.undecided \cup skip, pass.taken)
<1>1. pass \in Passes
  BY Zenon DEF TypeInv, TypeOK
<1>2. PICK e, l : pass' = [pass EXCEPT
            !.seen = NoAgreement, !.undecided = pass.undecided \cup skip,
            !.adopt = plan.adopt, !.todo = plan.actions, !.expected = e,
            !.halt = plan.halt, !.refused = plan.refused, !.records = plan.records,
            !.later = l]
  BY ZenonT(30) DEF Plan
<1> HIDE DEF plan
<1>3. /\ pass'.halt = plan.halt /\ pass'.records = plan.records /\ pass'.todo = plan.actions
      /\ pass'.mode = pass.mode /\ pass'.taken = pass.taken
  BY <1>1, <1>2, Zenon DEF Passes
<1> QED
  BY <1>3, ZenonT(30) DEF plan

\* A pass that has just read the host has decided nothing.
LEMMA ReadFields ==
    ASSUME NEW mode, NEW cached, NEW flying, Read(mode, cached, flying)
    PROVE  /\ pc' = "read" /\ pass'.mode = mode /\ pass'.halt = {} /\ pass'.todo = {}
           /\ pass'.stage = "none"
<1>1. pc' = "read"
  BY Zenon DEF Read
<1>2. PICK skip \in SUBSET Path :
          pass' = [NoPass EXCEPT
                     !.mode = mode, !.seen = ReadHost(cached, skip),
                     !.skips["host"] = skip, !.undecided = flying \cup skip,
                     !.taken = IF mode = "pass" THEN resolved ELSE NoAnswers]
  BY ZenonT(30) DEF Read
<1> QED
  BY <1>1, <1>2, Zenon DEF NoPass

\* Whatever step is taken, a halted pass carries out only what was answered for, and the
\* halt is on record or about to be.
LEMMA StepHalt == TypeInv /\ HaltInv /\ [Next]_vars => HaltInv'
\* Between passes there is no halted pass, only the halt of the last one.
<1>NoPassHalt. ASSUME pass' = NoPass, pc' \in {"off", "top"},
                      pc' = "top" => mem'.halted = disk'.halted \/ mem'.halted = {} \/ due'
               PROVE  HaltInv'
  BY <1>NoPassHalt, Zenon DEF HaltInv, HaltOnRecord, NoPass

<1>HaltFrame. ASSUME HaltInv, UNCHANGED <<pc, pass, mem>>, disk'.halted = disk.halted, due => due'
              PROVE  HaltInv'
  BY <1>HaltFrame, Zenon DEF HaltInv, HaltOnRecord

<1>FreshHalt. ASSUME Fresh(TRUE) \/ Fresh(FALSE), UNCHANGED disk
              PROVE  HaltInv'
  BY <1>FreshHalt, <1>NoPassHalt, Zenon DEF Fresh

<1>AppliesHalt. ASSUME HaltInv, Applies
                PROVE  HaltInv'
  <2> USE <1>AppliesHalt, Zenon
  <2>1. HaltOnRecord' /\ pc' # "read"
    BY DEF Applies, HaltOnRecord
  <2>2. ASSUME pass'.halt # {}
        PROVE  /\ pass'.mode = "pass" /\ pass'.records
               /\ \A a \in pass'.todo : pass'.taken[a.path] # None
               /\ pass'.stage \in Active => pass'.taken[pass'.act.path] # None
    BY <2>2 DEF HaltInv, Applies, SamePlan
  <2> QED
    BY <2>1, <2>2 DEF HaltInv

<1>PlanHalt. ASSUME TypeInv, pc = "read", HaltInv, NEW skip \in SUBSET Path, Plan(skip),
                    pass.mode = "pass", pc' = "apply"
             PROVE  HaltInv'
  <2> USE <1>PlanHalt
  \* What a decision that halts carries out, and that there is something to save.
  <2>DecideHalt. ASSUME NEW seen, NEW led, NEW undecided, NEW taken,
                        Decide(seen, led, undecided, taken).halt # {}
                 PROVE  /\ Decide(seen, led, undecided, taken).records
                        /\ \A a \in Decide(seen, led, undecided, taken).actions : taken[a.path] # None
    <3> USE <2>DecideHalt
    <3> DEFINE decided   == Path \ undecided
               both(p)   == ~Gone(At(seen, p)) /\ BothMoved(At(seen, p), led[p], taken[p])
               carried   == UNION {Carry(p, At(seen, p), led[p], taken[p]) : p \in decided}
               withheld  == Withheld(carried, led, taken)
               halted    == {p \in decided : both(p) /\ ~Matching(At(seen, p), led[p])} \cup withheld
               allowed   == {a \in carried : ~(a.op = "remove" /\ a.to = "host" /\ a.path \in withheld)}
               adopted   == {p \in decided : both(p) /\ Matching(At(seen, p), led[p])}
               forget    == {p \in decided : Gone(At(seen, p)) /\ led[p] # None}
               refused   == {p \in decided :
                               LET m == Mover(At(seen, p), led[p], taken[p])
                               IN  m # None /\ seen[m][p] # None /\ Refused(seen[m][p])}
    <3>1. /\ Decide(seen, led, undecided, taken).halt = halted
          /\ Decide(seen, led, undecided, taken).actions = WhileHalted(halted, allowed, taken)
          /\ Decide(seen, led, undecided, taken).records
                = (allowed # {} \/ adopted \cup forget \cup halted \cup refused # {})
      BY ZenonT(60) DEF Decide
    <3> HIDE DEF halted, allowed, adopted, forget, refused
    <3> QED
      BY <3>1, Zenon DEF WhileHalted
  <2> DEFINE plan == Decide([host |-> pass.seen, guest |-> ReadGuest(skip)], mem.agreed,
                            pass.undecided \cup skip, pass.taken)
  <2>1. /\ pass'.halt = plan.halt /\ pass'.records = plan.records /\ pass'.todo = plan.actions
        /\ pass'.mode = pass.mode /\ pass'.taken = pass.taken
    BY PlanFields, ZenonT(30)
  <2>2. pass'.stage = "none"
    BY PlanType, ZenonT(30)
  <2>3. plan.halt # {} => plan.records /\ \A a \in plan.actions : pass.taken[a.path] # None
    BY <2>DecideHalt, ZenonT(30)
  <2> HIDE DEF plan
  <2> QED
    BY <2>1, <2>2, <2>3, Zenon DEF HaltInv, HaltOnRecord, Active
<1> SUFFICES ASSUME TypeInv, HaltInv, [Next]_vars
             PROVE  HaltInv'
  BY Zenon
<1> USE Zenon
<1>1. CASE Environment
  <2>1. CASE \/ (\E side \in Side, p \in Path : Write(side, p)) \/ Ask
             \/ (\E p \in Path, winner \in Side : Resolve(p, winner))
             \/ (\E side \in Side : LoseCoverage(side)) \/ WatchDies \/ Capture
             \/ (\E discard \in BOOLEAN : BeginRestore(discard))
    <3>1. UNCHANGED <<pc, pass, mem, disk>> /\ (due => due')
      BY <2>1, SMTT(30) DEF Write, Ask, Resolve, LoseCoverage, WatchDies, Capture, BeginRestore, loop
    <3> QED
      BY <3>1, <1>HaltFrame
  <2>2. CASE Start \/ Stop \/ Crash
    BY <2>2, <1>FreshHalt, ZenonT(30) DEF Start, Stop, Crash
  <2>3. CASE PassFails \/ SaveFails
    BY <2>3, <1>NoPassHalt DEF PassFails, SaveFails, Abandon
  <2> QED
    BY <1>1, <2>1, <2>2, <2>3, ApplyingApplies, <1>AppliesHalt, ZenonT(30) DEF Environment
<1>2. CASE Waking
  <2>1. UNCHANGED <<pc, pass, mem, disk>> /\ (due => due')
    BY <1>2, SMTT(30) DEF Waking, Settle, HearOfLoss, DropWatch
  <2> QED
    BY <2>1, <1>HaltFrame
<1>3. CASE Working
  <2>1. CASE OpenWatch
    BY <2>1, <1>HaltFrame DEF OpenWatch
  <2>2. CASE BeginReseed \/ BeginPass
    <3>1. pc' = "read" /\ pass'.halt = {}
      BY <2>2, ReadFields, ZenonT(30) DEF BeginReseed, BeginPass
    <3> QED
      BY <3>1 DEF HaltInv, HaltOnRecord
  <2>3. CASE Probe
    <3>1. pc = "read" /\ pc' = "apply"
      BY <2>3 DEF Probe
    <3>2. PICK skip \in SUBSET Path : IF pass.mode = "pass" THEN Plan(skip) ELSE PlanReseed(skip)
      BY <2>3 DEF Probe
    <3>3. CASE pass.mode = "pass"
      BY <3>1, <3>2, <3>3, <1>PlanHalt
    <3>4. CASE pass.mode # "pass"
      <4>1. pass'.halt = {}
        BY <3>1, <3>2, <3>4, PlanReseedFields DEF HaltInv
      <4> QED
        BY <3>1, <4>1 DEF HaltInv, HaltOnRecord
    <3> QED
      BY <3>3, <3>4
  <2>4. CASE FinishPass
    <3>1. pass' = NoPass /\ pc' = "top" /\ mem'.halted = pass.halt
      BY <2>4 DEF FinishPass, TypeInv, TypeOK, LedgersOK, Ledgers
    <3>2. pass.halt # {} => disk' = mem'
      BY <2>4 DEF FinishPass, Saves, HaltInv
    <3> QED
      BY <3>1, <3>2, <1>NoPassHalt
  <2>5. CASE FinishReseed
    BY <2>5, <1>NoPassHalt DEF FinishReseed
  <2> QED
    BY <1>3, <2>1, <2>2, <2>3, <2>4, <2>5, ApplyingApplies, <1>AppliesHalt, ZenonT(30) DEF Working
<1>4. CASE Restoring
  <2>1. CASE Suspend
    BY <2>1, <1>FreshHalt, ZenonT(30) DEF Suspend
  <2>2. CASE NoteRewound \/ Rewind
    <3>1. UNCHANGED <<pc, pass, mem, due>> /\ disk'.halted = disk.halted
      BY <2>2 DEF NoteRewound, Rewind, loop, TypeInv, TypeOK, LedgersOK, Ledgers
    <3> QED
      BY <3>1, <1>HaltFrame
  <2>3. CASE Resume
    <3>1. CASE opRunning
      BY <2>3, <3>1, <1>FreshHalt, ZenonT(30) DEF Resume
    <3>2. CASE ~opRunning
      BY <2>3, <3>2, <1>HaltFrame DEF Resume, loop
    <3> QED
      BY <3>1, <3>2
  <2> QED
    BY <1>4, <2>1, <2>2, <2>3 DEF Restoring
<1>5. CASE UNCHANGED vars
  BY <1>5, <1>HaltFrame DEF vars, loop
<1> QED
  BY <1>1, <1>2, <1>3, <1>4, <1>5 DEF Next

\* A halt the loop knows of is in the ledger file or about to be written there
\* (Halt::of, record_halt), through failed saves, restarts and restores.
THEOREM HaltOnRecordHolds == Spec => []HaltOnRecord
<1>1. HaltInv => HaltOnRecord
  BY Zenon DEF HaltInv
<1> QED
  BY InitType, StepType, InitHalt, StepHalt, <1>1, PTL DEF Spec

\* While a halt stands the syncer writes, on either side, only to paths the
\* developer has answered for (while_halted).
THEOREM HaltFreezesHolds == Spec => HaltFreezes
<1> DEFINE Frozen ==
        \A side \in Side, p \in Path :
          /\ pass.stage = "ready" /\ pass' # pass /\ pass.halt # {}
          /\ tree'[side][p] # tree[side][p]
          => pass.taken[p] # None
<1>1. TypeInv /\ HaltInv /\ [Next]_vars => [Frozen]_vars
  <2> SUFFICES ASSUME TypeInv, HaltInv, [Next]_vars, NEW side \in Side, NEW p \in Path,
                      pass.stage = "ready", pass' # pass, pass.halt # {},
                      tree'[side][p] # tree[side][p]
               PROVE  pass.taken[p] # None
    BY Zenon
  <2>1. tree' # tree
    BY Zenon
  <2>2. p = pass.act.path
    BY <2>1, OnlyCommits, CommitPlace, Zenon
  <2> QED
    BY <2>2, Zenon DEF HaltInv, Active
<1>2. HaltFreezes <=> [][Frozen]_vars
  BY Zenon DEF HaltFreezes
<1> QED
  BY InitType, StepType, InitHalt, StepHalt, <1>1, <1>2, PTL DEF Spec

-----------------------------------------------------------------------------
(* Restores. *)

\* The pass is a re-seed.
Reseeding == pass.mode = "reseed"

\* The syncer is down from the moment its end was waited for until the bracket
\* is closed; a pass under way is an ordinary one with nothing owed, or a
\* re-seed, which writes to the guest only and has every rewound path on its
\* list.
RewindInv ==
    /\ op \in {"suspended", "noted", "failed", "rewound"} => pc = "off"
    /\ op = "noted" => disk.owed
    /\ pc \in {"read", "apply"} =>
         IF Reseeding THEN mem.owed ELSE pass.mode = "pass" /\ ~mem.owed
    /\ Reseeding =>
         /\ \A a \in pass.todo : a.to = "guest"
         /\ pass.stage \in Active => pass.act.to = "guest"
    /\ pc = "apply" /\ Reseeding => \A p \in rolled : Pending(p)
    /\ RewindNoted

\* No guest has been rewound.
LEMMA InitRewind == Init => RewindInv
BY DEF Init, RewindInv, RewindNoted, Reseeding, NoPass, EmptyLedger, Active

\* Whatever step is taken, a rewound path is noted, owed or on the re-seed's list until
\* the guest has the host's copy of it.
LEMMA StepRewind ==
    ASSUME ConcurrentCommands = FALSE, Standing = {}
    PROVE  TypeInv /\ RewindInv /\ [Next]_vars => RewindInv'
\* Between passes only the note matters.
<1>NoPassRewind. ASSUME pass' = NoPass, pc' \in {"off", "top"},
                        op' \in {"suspended", "noted", "failed", "rewound"} => pc' = "off",
                        op' = "noted" => disk'.owed, RewindNoted'
                 PROVE  RewindInv'
  BY <1>NoPassRewind, Zenon DEF RewindInv, Reseeding, NoPass, Active

\* What a step must leave alone, and that it makes no path a rewound one.
<1>RewindFrame. ASSUME RewindInv, UNCHANGED <<disk, mem, pc, pass>>, rolled' \subseteq rolled,
                       op' \in {"none", "suspending"} \/ op' = op
                PROVE  RewindInv'
  BY <1>RewindFrame, Zenon DEF RewindInv, RewindNoted, Reseeding, Pending

\* A run that starts reads the note, and one that ends leaves it in the file.
<1>FreshRewind. ASSUME RewindInv, UNCHANGED <<disk, rolled>>,
                       Fresh(FALSE) \/ (Fresh(TRUE) /\ op' = "none"), op' \in {"none", "suspended"}
                PROVE  RewindInv'
  <2> USE <1>FreshRewind
  <2>1. RewindNoted'
    BY Zenon DEF RewindInv, RewindNoted, Fresh
  <2> QED
    BY <2>1, <1>NoPassRewind, Zenon DEF Fresh

<1>AppliesRewind. ASSUME RewindInv, Applies, Standing = {}
                  PROVE  RewindInv'
  <2> USE <1>AppliesRewind, Zenon
  <2>1. /\ op' = op /\ pc' = pc /\ disk' = disk /\ mem'.owed = mem.owed
        /\ pass'.mode = pass.mode /\ rolled' \subseteq rolled
    BY DEF Applies, SamePlan
  <2>2. RewindNoted'
    BY <2>1 DEF RewindInv, RewindNoted
  <2>3. Reseeding' = Reseeding
    BY <2>1 DEF Reseeding
  <2>4. ASSUME Reseeding
        PROVE  /\ \A a \in pass'.todo : a.to = "guest"
               /\ pass'.stage \in Active => pass'.act.to = "guest"
               /\ \A p \in rolled' : Pending(p)'
    BY <2>4 DEF RewindInv, Applies
  <2> QED
    BY <2>1, <2>2, <2>3, <2>4 DEF RewindInv

\* The re-seed's plan has every rewound path on its list.
<1>PlanReseedRewind. ASSUME TypeInv, RewindInv, pc = "read", pass.mode # "pass", NEW skip \in SUBSET Path,
                            PlanReseed(skip), pc' = "apply", UNCHANGED <<disk, op>>
                     PROVE  RewindInv'
  <2> USE <1>PlanReseedRewind, Zenon
  <2> DEFINE seen == [host |-> pass.seen, guest |-> ReadGuest(skip)]
             undecided == pass.undecided \cup skip
             plan == Reseed(seen, undecided)
  <2>1. seen \in [Side -> [Path -> Seen \cup {None}]]
    BY ProbeSeen, ZenonT(30)
  <2>2. /\ pass'.mode = "reseed" /\ pass'.undecided = undecided /\ pass'.refused = plan.refused
        /\ pass'.adopt = plan.adopt /\ pass'.todo = plan.actions
    <3>1. pass.mode = "reseed"
      BY DEF RewindInv, Reseeding
    <3> QED
      BY <3>1, PlanReseedFields, ZenonT(30)
  <2>3. pass'.stage = "none"
    BY PlanReseedType, ZenonT(30)
  <2>4. mem'.owed = TRUE
    BY DEF PlanReseed, EmptyLedger
  <2>5. rolled' = {p \in rolled : ~(Gone(At(seen, p)) /\ p \notin undecided)}
    BY ZenonT(30) DEF PlanReseed
  <2>6. \A a \in plan.actions : a.to = "guest"
    BY <2>1, ReseedType, ZenonT(30)
  <2>7. ASSUME NEW p \in rolled'
        PROVE  \/ p \in undecided \/ plan.adopt[p] # None \/ p \in plan.refused
               \/ \E a \in plan.actions : a.path = p
    <3>1. p \in Path /\ (p \in undecided \/ ~Gone(At(seen, p)))
      BY <2>5, <2>7, ZenonT(30) DEF TypeInv, TypeOK, HistoryOK
    <3>2. CASE p \notin undecided
      <4>1. p \in Path \ undecided /\ ~Gone(At(seen, p))
        BY <3>1, <3>2
      <4> HIDE DEF seen, undecided
      <4> QED
        BY <2>1, <4>1, ReseedCovers, SMTT(30) DEF plan
    <3> QED
      BY <3>2
  <2>8. RewindNoted'
    BY <2>4, <2>5 DEF RewindInv, RewindNoted
  <2> HIDE DEF seen, undecided, plan
  <2>9. \A p \in rolled' : Pending(p)'
    BY <2>2, <2>7 DEF Pending
  <2> QED
    BY <2>2, <2>3, <2>4, <2>6, <2>8, <2>9 DEF RewindInv, Reseeding, Active

\* An ordinary pass runs with nothing rewound.
<1>PlanRewind. ASSUME TypeInv, RewindInv, pc = "read", pass.mode = "pass", NEW skip \in SUBSET Path,
                      Plan(skip), pc' = "apply", UNCHANGED <<disk, op>>
               PROVE  RewindInv'
  <2> USE <1>PlanRewind
  <2>1. rolled = {} /\ rolled' = rolled /\ ~mem.owed
    BY ZenonT(30) DEF RewindInv, RewindNoted, Reseeding, Plan
  <2>2. mem'.owed = mem.owed
    <3>1. PICK agreed : mem' = [mem EXCEPT !.agreed = agreed]
      BY ZenonT(30) DEF Plan
    <3> QED
      BY <3>1, Zenon DEF TypeInv, TypeOK, LedgersOK, Ledgers
  <2>3. pass'.mode = "pass"
    BY PlanFields, ZenonT(30)
  <2> QED
    BY <2>1, <2>2, <2>3, Zenon DEF RewindInv, RewindNoted, Reseeding

\* A re-seed that is complete has left no path as the restore put it.
<1>FinishReseedRewind. ASSUME TypeInv, RewindInv, FinishReseed
                       PROVE  RewindInv'
  <2> USE <1>FinishReseedRewind, Zenon
  <2>1. /\ pass' = NoPass /\ pc' = "top" /\ UNCHANGED <<op, rolled>>
        /\ mem'.owed = ~Complete /\ disk'.owed = ~Complete
    BY DEF FinishReseed, command, TypeInv, TypeOK, LedgersOK, Ledgers
  <2>2. Complete => rolled = {}
    <3> SUFFICES ASSUME Complete, NEW p \in rolled
                 PROVE  FALSE
      OBVIOUS
    <3>1. Pending(p) /\ p \in Path
      BY DEF FinishReseed, Applied, RewindInv, Reseeding, TypeInv, TypeOK, HistoryOK
    <3>2. pass.stage \notin Active
      BY NoAct DEF FinishReseed, Applied
    <3>3. pass.todo = {} /\ pass.adopt[p] = None
      BY <3>1 DEF FinishReseed, Applied, NoAgreement
    <3> QED
      BY <3>1, <3>2, <3>3 DEF Pending, Complete, Active
  <2>3. RewindNoted'
    BY <2>1, <2>2 DEF RewindNoted
  <2>4. op \notin {"suspended", "noted", "failed", "rewound"}
    BY DEF FinishReseed, Applied, RewindInv
  <2> QED
    BY <2>1, <2>3, <2>4, <1>NoPassRewind

<1>FinishPassRewind. ASSUME TypeInv, RewindInv, FinishPass
                     PROVE  RewindInv'
  <2> USE <1>FinishPassRewind, Zenon
  <2>1. pass' = NoPass /\ pc' = "top" /\ UNCHANGED <<op, rolled>>
    BY DEF FinishPass, finishFrame, command
  <2>2. rolled = {}
    BY DEF FinishPass, Applied, RewindInv, RewindNoted, Reseeding
  <2>3. RewindNoted'
    BY <2>1, <2>2 DEF RewindNoted
  <2>4. op \notin {"suspended", "noted", "failed", "rewound"}
    BY DEF FinishPass, Applied, RewindInv
  <2> QED
    BY <2>1, <2>3, <2>4, <1>NoPassRewind

<1>AbandonRewind. ASSUME TypeInv, RewindInv, PassFails \/ SaveFails
                  PROVE  RewindInv'
  <2> USE <1>AbandonRewind, Zenon
  <2>1. pass' = NoPass /\ pc' = "top" /\ UNCHANGED <<op, rolled, disk>> /\ pc \in {"read", "apply"}
    BY DEF PassFails, SaveFails, Abandon, Applied, finishFrame, command
  <2>2. mem.owed => mem'.owed
    BY DEF PassFails, SaveFails, TypeInv, TypeOK, LedgersOK, Ledgers
  <2>3. RewindNoted'
    BY <2>1, <2>2 DEF RewindInv, RewindNoted
  <2>4. op \notin {"suspended", "noted", "failed", "rewound"}
    BY <2>1 DEF RewindInv
  <2> QED
    BY <2>1, <2>3, <2>4, <1>NoPassRewind

<1>ReadRewind. ASSUME TypeInv, RewindInv, BeginReseed \/ BeginPass
               PROVE  RewindInv'
  <2> USE <1>ReadRewind
  <2>1. /\ UNCHANGED <<disk, mem, op, rolled>> /\ pc = "top"
        /\ pc' = "read" /\ pass'.todo = {} /\ pass'.stage = "none"
        /\ IF mem.owed THEN pass'.mode = "reseed" ELSE pass'.mode = "pass"
    BY ReadFields, ZenonT(30) DEF BeginReseed, BeginPass, command
  <2> QED
    BY <2>1, Zenon DEF RewindInv, RewindNoted, Reseeding, Active

<1>RestoringRewind. ASSUME TypeInv, RewindInv, Restoring
                    PROVE  RewindInv'
  <2> USE <1>RestoringRewind, Zenon
  <2>1. CASE Suspend
    BY <2>1, <1>FreshRewind, ZenonT(30) DEF Suspend
  <2>2. CASE NoteRewound
    <3>1. UNCHANGED <<mem, pc, pass, rolled>> /\ pc = "off"
      BY <2>2 DEF NoteRewound, loop, ghosts, RewindInv
    <3>2. \/ op' = "noted" /\ disk'.owed
          \/ op' = "failed" /\ disk' = disk
      BY <2>2 DEF NoteRewound, TypeInv, TypeOK, LedgersOK, Ledgers
    <3> QED
      BY <3>1, <3>2 DEF RewindInv, RewindNoted, Reseeding
  <2>3. CASE Rewind
    BY <2>3 DEF Rewind, RewindInv, RewindNoted, Reseeding
  <2>4. CASE Resume
    <3>1. CASE opRunning
      BY <2>4, <3>1, <1>FreshRewind, ZenonT(30) DEF Resume
    <3>2. CASE ~opRunning
      BY <2>4, <3>2, <1>RewindFrame DEF Resume, loop
    <3> QED
      BY <3>1, <3>2
  <2> QED
    BY <2>1, <2>2, <2>3, <2>4 DEF Restoring
<1> SUFFICES ASSUME TypeInv, RewindInv, [Next]_vars
             PROVE  RewindInv'
  BY Zenon
<1> USE Zenon
<1>1. CASE Environment
  <2>1. CASE \/ (\E side \in Side, p \in Path : Write(side, p)) \/ Ask
             \/ (\E p \in Path, winner \in Side : Resolve(p, winner))
             \/ (\E side \in Side : LoseCoverage(side)) \/ WatchDies \/ Capture
             \/ (\E discard \in BOOLEAN : BeginRestore(discard))
    <3>1. /\ UNCHANGED <<pc, pass, mem, disk>> /\ rolled' \subseteq rolled
          /\ op' = "suspending" \/ op' = op
      BY <2>1
         DEF Write, Ask, Resolve, LoseCoverage, WatchDies, Capture, BeginRestore, loop, command, ghosts
    <3> QED
      BY <3>1, <1>RewindFrame
  <2>2. CASE Start
    BY <2>2, <1>FreshRewind, ZenonT(30) DEF Start, command
  <2>3. CASE Stop
    BY <2>3, <1>FreshRewind, ZenonT(30) DEF Stop, command
  <2>4. CASE Crash
    BY <2>4, <1>FreshRewind, ZenonT(30) DEF Crash
  <2> QED
    BY <1>1, <2>1, <2>2, <2>3, <2>4, <1>AbandonRewind, ApplyingApplies, <1>AppliesRewind, ZenonT(30)
       DEF Environment
<1>2. CASE Waking
  <2>1. UNCHANGED <<pc, pass, mem, disk, rolled, op>>
    BY <1>2 DEF Waking, Settle, HearOfLoss, DropWatch, command, ghosts
  <2> QED
    BY <2>1, <1>RewindFrame
<1>3. CASE Working
  <2>1. CASE OpenWatch
    BY <2>1, <1>RewindFrame DEF OpenWatch, command, ghosts
  <2>2. CASE Probe
    <3>1. pc = "read" /\ pc' = "apply" /\ UNCHANGED <<disk, op>>
      BY <2>2 DEF Probe, command
    <3>2. PICK skip \in SUBSET Path : IF pass.mode = "pass" THEN Plan(skip) ELSE PlanReseed(skip)
      BY <2>2 DEF Probe
    <3>3. CASE pass.mode = "pass"
      BY <3>1, <3>2, <3>3, <1>PlanRewind
    <3>4. CASE pass.mode # "pass"
      BY <3>1, <3>2, <3>4, <1>PlanReseedRewind
    <3> QED
      BY <3>3, <3>4
  <2> QED
    BY <1>3, <2>1, <2>2, <1>ReadRewind, <1>FinishPassRewind, <1>FinishReseedRewind, ApplyingApplies,
       <1>AppliesRewind, ZenonT(30) DEF Working
<1>4. CASE Restoring
  BY <1>4, <1>RestoringRewind
<1>5. CASE UNCHANGED vars
  BY <1>5, <1>RewindFrame DEF vars, loop, command, ghosts
<1> QED
  BY <1>1, <1>2, <1>3, <1>4, <1>5 DEF Next

\* While a path is as a restore left it the re-seed is owed, in the file and in
\* the loop (mark_rewound, Reconverged::complete), whatever crashed or failed
\* on the way; where no command overlaps a restore and no directory is left
\* standing (reseed does not count those as unfinished: see sync_left_standing).
THEOREM RewindNotedHolds ==
    ASSUME ConcurrentCommands = FALSE, Standing = {}
    PROVE  Spec => []RewindNoted
<1>1. RewindInv => RewindNoted
  BY Zenon DEF RewindInv
<1> QED
  BY InitType, StepType, InitRewind, StepRewind, <1>1, PTL DEF Spec

\* A rewound guest tree never reaches the host, under the same conditions.
THEOREM RewoundStaysOffHolds ==
    ASSUME ConcurrentCommands = FALSE, Standing = {}
    PROVE  Spec => RewoundStaysOff
<1> DEFINE Off ==
        \A p \in rolled :
          pass.stage = "ready" /\ pass' # pass /\ tree'["host"][p] # tree["host"][p]
            => pass.taken[p] = "guest"
<1>1. TypeInv /\ RewindInv /\ [Next]_vars => [Off]_vars
  <2> SUFFICES ASSUME TypeInv, RewindInv, [Next]_vars, NEW p \in rolled,
                      pass' # pass, tree'["host"][p] # tree["host"][p]
               PROVE  FALSE
    BY Zenon
  <2>1. p \in Path /\ "host" \in Side /\ tree' # tree
    BY Zenon DEF TypeInv, TypeOK, HistoryOK, Side
  <2>2. Commit
    BY <2>1, OnlyCommits, Zenon
  <2>3. pass.act.to = "host"
    BY <2>1, <2>2, CommitPlace, Zenon
  <2>4. pc = "apply" /\ pass.stage = "ready"
    BY <2>2, ZenonT(30) DEF Commit
  <2> QED
    BY <2>3, <2>4, Zenon DEF RewindInv, RewindNoted, Reseeding, Active
<1>2. RewoundStaysOff <=> [][Off]_vars
  BY Zenon DEF RewoundStaysOff
<1> QED
  BY InitType, StepType, InitRewind, StepRewind, <1>1, <1>2, PTL DEF Spec

-----------------------------------------------------------------------------
(* The invariant. *)

\* A side holds what the ledger says of the path, or what is reported by name: a file
\* over the cap, a directory that must stay.
Fine(s, p) ==
    LET c == Content(tree[s][p])
    IN  c = Content(mem.agreed[p]) \/ c \in Big \/ (p \in Standing /\ c \in Dirs)

\* The loop is going to hear of the path, or nobody could have told it.
Announced(s, p) ==
    p \in missed[s] \/ p \in flight[s] \/ lost \/ (s = "guest" /\ watch = "dead")

\* The next look at the path shows that it is not as agreed, stamps trusted.  The guest
\* is asked about the path only if it is in the ledger.
Shows(s, p) ==
    /\ Changed(Look(tree[s][p], mem.agreed[p], s), mem.agreed[p])
    /\ s = "guest" => mem.agreed[p] # None

\* The paths the next pass will look at without trusting a stamp.
Owed(s) == IF s = "host" THEN dirty["host"] \cup dirty["guest"] ELSE dirty["guest"]

\* A change of the path is not forgotten: between passes.
Accounted(s, p) ==
    Announced(s, p) \/ p \in Owed(s) \/ rescan \/ Fine(s, p) \/ Shows(s, p)

\* The pass has something to do about the path.
Busy(p) ==
    \/ pass.adopt[p] # None
    \/ \E a \in pass.todo : a.path = p
    \/ pass.act # None /\ pass.act.path = p

\* The paths the pass will leave to the next one.
Later(s) == IF s = "host" THEN pass.later["host"] \cup pass.later["guest"] ELSE pass.later["guest"]

\* A change of the path is not forgotten: while a pass is carried out.
Settling(s, p) ==
    \/ p \in pass.failed \/ Busy(p) \/ Announced(s, p) \/ Fine(s, p) \/ p \in Later(s)
    \/ Shows(s, p) /\ (pass.halt # {} \/ p \in pass.undecided)
    \/ pass.mode = "reseed" /\ p \in pass.refused \cup pass.undecided

\* What is to be placed is what its source holds.
Stands(a) ==
    \/ Content(tree[Other(a.to)][a.path]) = a.data
    \/ Announced(Other(a.to), a.path)

\* What is to be removed has nothing that could be placed instead, or it will be.
Vacant(a) ==
    \/ Content(tree[Other(a.to)][a.path]) \in {None} \cup Big
    \/ Announced(Other(a.to), a.path)
    \/ \E b \in pass.todo : b.op = "put" /\ b.path = a.path

\* When the loop is watching, when it walks, and what kind of pass it makes.
LoopInv ==
    /\ op \in {"suspended", "noted", "failed", "rewound"} => pc = "off"
    /\ pc # "off" /\ (mem.owed \/ seeded) => ~registered /\ watch = "none" /\ ~lost
    /\ seeded => ~rescan /\ ~mem.owed /\ pc = "top"
    /\ pc \in {"read", "apply"} =>
         /\ pass.mode = IF mem.owed THEN "reseed" ELSE "pass"
         /\ pass.mode = "pass" => watch # "none"
    /\ pc = "apply" /\ pass.mode = "pass" => registered
    /\ pc = "top" /\ watch = "none" /\ ~mem.owed => seeded \/ rescan
    /\ pc = "top" => pass.mode = "none"
    /\ pass.mode = "reseed" => pass.later = NoPaths

\* Between passes no change is forgotten; of the host's, during one neither.
BaseInv ==
    pc # "off" /\ ~mem.owed =>
        \A p \in Path : Accounted("host", p) /\ (pc # "apply" => Accounted("guest", p))

\* What was read of the host is still so, unless the loop will hear of it.
ReadInv ==
    pc = "read" =>
        /\ pass.skips["host"] \subseteq pass.undecided
        /\ \A p \in Path :
             \/ p \in pass.skips["host"] \/ Announced("host", p)
             \/ pass.seen[p] = Look(tree["host"][p], Cached(p), "host")

\* What a pass does not decide it leaves to the next one, or a touch is on its way.
UndecidedInv ==
    pc \in {"read", "apply"} /\ pass.mode = "pass" => \A p \in pass.undecided :
        \/ pc = "read" /\ p \in pass.skips["host"]
        \/ pc = "apply" /\ p \in Later("host")
        \/ p \in flight["host"] \cup flight["guest"] \/ lost \/ watch = "dead"

\* What an action relies on.
Sourced(a) ==
    /\ a.op = "remove" => Vacant(a)
    /\ pass.mode = "reseed" => a.to = "guest"

\* So it is with all the pass has left to do, the action under way and the adoption.
ActInv ==
    pc = "apply" =>
        /\ \A a \in pass.todo : Sourced(a) /\ (a.op = "put" /\ a.data \in Dirs => Stands(a))
        /\ pass.stage \in Active => Sourced(pass.act) /\ (pass.act.op = "put" => Stands(pass.act))
        /\ pass.stage = "adopt" =>
             \/ Content(tree["host"][pass.act.path]) = pass.adopt[pass.act.path].data
             \/ Announced("host", pass.act.path)

\* While a pass is carried out no change is forgotten.
ApplyInv == pc = "apply" => \A s \in Side, p \in Path : Settling(s, p)

\* A quiet loop has nothing left to hear of.
QuietInv == Quiet => \A s \in Side, p \in Path : p \in missed[s] \/ Fine(s, p)

\* The inductive invariant behind QuietInStep.
SyncInv ==
    /\ LoopInv /\ BaseInv /\ ReadInv /\ UndecidedInv /\ ActInv /\ ApplyInv /\ QuietInv

-----------------------------------------------------------------------------
(* What a look at a path shows. *)

\* A look at a copy: nothing, a stamp vouched for, a file over the cap, or the content.
Shown(v, copy, was) ==
    /\ v = None <=> copy = None
    /\ copy # None =>
         /\ copy.data \in Data /\ v.kind = KindOf(copy.data)
         /\ \/ /\ v.data = Vouched /\ was # None /\ copy.data \notin Dirs
               /\ KindOf(was.data) = KindOf(copy.data)
            \/ v.data = Unhashed /\ copy.data \in Big
            \/ v.data = copy.data

\* What a look at a copy shows (scan.rs).
LEMMA LookShows ==
    ASSUME NEW copy \in Copy \cup {None}, NEW was \in Agreed \cup {None}, NEW side \in Side
    PROVE  Shown(Look(copy, was, side), copy, was)
<1> USE Zenon
<1> DEFINE v == Look(copy, was, side)
<1>1. CASE copy = None
  BY <1>1 DEF Look, Shown
<1>2. CASE copy # None
  <2>1. copy \in Copy /\ copy.data \in Data  BY <1>2 DEF Copy
  <2>2. v \in Seen  BY <1>2, NoneAssumption DEF Look, Copy, Seen, KindOf
  <2>3. v # None  BY <2>2, NoneAssumption
  <2>4. v.kind = KindOf(copy.data)  BY <1>2 DEF Look
  <2>5. v.data = IF copy.data \in Dirs THEN copy.data
                 ELSE IF ~NeedsDigest(was, copy, side) THEN Vouched
                 ELSE IF copy.data \in Big THEN Unhashed
                 ELSE copy.data
    BY <1>2 DEF Look
  <2>6. \/ /\ v.data = Vouched /\ was # None /\ copy.data \notin Dirs
           /\ KindOf(was.data) = KindOf(copy.data)
        \/ v.data = Unhashed /\ copy.data \in Big
        \/ v.data = copy.data
    BY <2>5 DEF NeedsDigest
  <2> HIDE DEF v
  <2>7. Shown(v, copy, was)  BY <1>2, <2>1, <2>3, <2>4, <2>6 DEF Shown
  <2> QED BY <2>7 DEF v
<1> QED BY <1>1, <1>2

\* A look that shows no change shows what was agreed, or vouches for a stamp.
LEMMA NoChange ==
    ASSUME NEW copy \in Copy \cup {None}, NEW was \in Agreed \cup {None}, NEW side \in Side,
           NEW cached \in {None, was}, NEW v, v = Look(copy, cached, side), ~Changed(v, was)
    PROVE  \/ Content(copy) = Content(was)
           \/ v # None /\ v.data = Vouched /\ cached = was /\ was # None
<1> USE Zenon
<1>0. Shown(v, copy, cached)  BY LookShows
<1>1. CASE copy = None
  <2>1. v = None  BY <1>1 DEF Look
  <2>2. was = None  BY <2>1 DEF Changed
  <2> QED BY <1>1, <2>2 DEF Content
<1>2. CASE copy # None
  <2>1. v # None  BY <1>0, <1>2 DEF Shown
  <2>2. was # None  BY <2>1 DEF Changed
  <2>3. v.data # Unhashed /\ DigestOf(v, was) = was.data  BY <2>1, <2>2 DEF Changed
  <2>4. \/ v.data = Vouched /\ cached # None
        \/ v.data = copy.data /\ copy.data \in Data
    BY <1>0, <1>2, <2>3 DEF Shown
  <2>5. CASE v.data = Vouched /\ cached # None  BY <2>1, <2>2, <2>5
  <2>6. CASE v.data = copy.data /\ copy.data \in Data
    <3>1. DigestOf(v, was) = v.data  BY <2>6, MarkAssumption DEF DigestOf
    <3>2. copy.data = was.data  BY <2>3, <2>6, <3>1
    <3> QED BY <1>2, <2>2, <3>2 DEF Content
  <2> QED BY <2>4, <2>5, <2>6
<1> QED BY <1>1, <1>2

\* A stamp that is vouched for hides any change.
LEMMA VouchedHides ==
    ASSUME NEW copy \in Copy \cup {None}, NEW was \in Agreed \cup {None}, NEW side \in Side,
           NEW v, v = Look(copy, was, side), v # None, v.data = Vouched
    PROVE  ~Changed(v, was)
<1> USE Zenon
<1>0. Shown(v, copy, was)  BY LookShows
<1>1. copy # None  BY DEF Look
<1>2. copy.data \in Data /\ v.kind = KindOf(copy.data)  BY <1>0, <1>1 DEF Shown
<1>3. v.data # Unhashed /\ v.data # copy.data  BY <1>2, MarkAssumption
<1>4. was # None /\ KindOf(was.data) = KindOf(copy.data)  BY <1>0, <1>1, <1>3 DEF Shown
<1>5. DigestOf(v, was) = was.data  BY <1>4 DEF DigestOf
<1> QED BY <1>2, <1>3, <1>4, <1>5 DEF Changed

\* What a look tells of a copy that is not as agreed: it is over the cap or gone, its
\* stamp is vouched for, or the look itself differs from the ledger (rehash).
Differs(v, was) ==
    /\ v # None
    /\ \/ was = None \/ v.kind # KindOf(was.data)
       \/ v.data \notin {Vouched, Unhashed} /\ v.data # was.data

\* A look shows a copy that is not as agreed, unless the copy is over the cap or its
\* stamp is vouched for.
LEMMA LookDiffers ==
    ASSUME NEW copy \in Copy \cup {None}, NEW was \in Agreed \cup {None}, NEW side \in Side,
           NEW cached \in {None, was}, NEW v, v = Look(copy, cached, side)
    PROVE  \/ Content(copy) = Content(was) \/ Content(copy) \in Big
           \/ copy = None /\ was # None
           \/ v # None /\ v.data = Vouched /\ cached = was /\ was # None
           \/ Differs(v, was)
<1> USE Zenon
<1>0. Shown(v, copy, cached)  BY LookShows
<1>1. CASE copy = None
  BY <1>1 DEF Content
<1>2. CASE copy # None
  <2>1. v # None /\ copy.data \in Data  BY <1>0, <1>2 DEF Shown
  <2>2. Content(copy) = copy.data  BY <1>2 DEF Content
  <2>3. CASE was = None  BY <2>1, <2>3 DEF Differs
  <2>4. CASE was # None
    <3>1. Content(was) = was.data  BY <2>4 DEF Content
    <3>2. \/ v.data = Vouched /\ cached # None
          \/ copy.data \in Big
          \/ v.data = copy.data
      BY <1>0, <1>2 DEF Shown
    <3>3. CASE v.data = copy.data
      <4>1. v.data \notin {Vouched, Unhashed}  BY <2>1, <3>3, MarkAssumption
      <4> QED BY <2>1, <2>2, <3>1, <3>3, <4>1 DEF Differs
    <3> QED BY <2>1, <2>2, <2>4, <3>2, <3>3
  <2> QED BY <2>3, <2>4
<1> QED BY <1>1, <1>2

\* A refusal is of a file over the cap.
LEMMA RefusedBig ==
    ASSUME NEW copy \in Copy \cup {None}, NEW was \in Agreed \cup {None}, NEW side \in Side,
           NEW v, v = Look(copy, was, side), v # None, Refused(v)
    PROVE  Content(copy) \in Big
<1> USE Zenon
<1>0. Shown(v, copy, was)  BY LookShows
<1>1. copy # None  BY DEF Look
<1>2. copy.data \in Data  BY <1>0, <1>1 DEF Shown
<1>3. v.data # Vouched /\ v.data # copy.data  BY <1>2, MarkAssumption DEF Refused
<1>4. copy.data \in Big  BY <1>0, <1>1, <1>3 DEF Shown
<1> QED BY <1>1, <1>4 DEF Content

\* A digest that is a directory's is read, never vouched for.
LEMMA DirectoryRead ==
    ASSUME NEW copy \in Copy \cup {None}, NEW was \in Agreed \cup {None}, NEW side \in Side,
           NEW cached \in {None, was}, NEW v, v = Look(copy, cached, side), v # None,
           DigestOf(v, was) \in Dirs, ~Refused(v)
    PROVE  Content(copy) = DigestOf(v, was)
<1> USE Zenon
<1>0. Shown(v, copy, cached)  BY LookShows
<1>1. copy # None  BY DEF Look
<1>2. copy.data \in Data /\ v.data # Unhashed  BY <1>0, <1>1 DEF Refused, Shown
<1>3. CASE v.data = copy.data
  <2>1. DigestOf(v, was) = v.data  BY <1>2, <1>3, MarkAssumption DEF DigestOf
  <2> QED BY <1>1, <1>3, <2>1 DEF Content
<1>4. CASE v.data # copy.data
  <2>1. /\ v.data = Vouched /\ cached # None /\ copy.data \notin Dirs
        /\ KindOf(cached.data) = KindOf(copy.data)
    BY <1>0, <1>1, <1>2, <1>4 DEF Shown
  <2>2. cached = was /\ was # None  BY <2>1
  <2>3. DigestOf(v, was) = was.data  BY <2>1, <2>2 DEF DigestOf
  <2>4. was.data \in Dirs  BY <2>3
  <2> QED BY <2>1, <2>2, <2>4 DEF KindOf
<1> QED BY <1>3, <1>4

\* A stamp was vouched for.
Trusted(v) == v # None /\ v.data = Vouched

\* All of it: what a look v at a copy tells, was the agreement, cached the one whose
\* stamps are trusted.
Right(copy, was, cached, v, side) ==
    /\ v = None <=> copy = None
    /\ ~Changed(v, was) => Content(copy) = Content(was) \/ Trusted(v)
    /\ v # None /\ Refused(v) => Content(copy) \in Big
    /\ Trusted(v) => cached = was /\ was # None /\ ~Changed(Look(copy, was, side), was)
    /\ \/ Content(copy) = Content(was) \/ Content(copy) \in Big
       \/ copy = None /\ was # None
       \/ Trusted(v) \/ Differs(v, was)
    /\ v # None /\ ~Refused(v) /\ DigestOf(v, was) \in Dirs => Content(copy) = DigestOf(v, was)

\* A look is right about the copy it looks at.
LEMMA LookRight ==
    ASSUME NEW copy \in Copy \cup {None}, NEW was \in Agreed \cup {None}, NEW side \in Side,
           NEW cached \in {None, was}, NEW v, v = Look(copy, cached, side)
    PROVE  Right(copy, was, cached, v, side)
<1> USE Zenon
<1>0. Shown(v, copy, cached) /\ cached \in Agreed \cup {None}  BY LookShows
<1>1. v = None <=> copy = None  BY <1>0 DEF Shown
<1>2. ~Changed(v, was) => Content(copy) = Content(was) \/ Trusted(v)
  BY NoChange, SMTT(30) DEF Trusted
<1>3. v # None /\ Refused(v) => Content(copy) \in Big
  BY <1>0, RefusedBig, SMTT(30)
<1>4. ASSUME Trusted(v) PROVE cached = was /\ was # None /\ ~Changed(Look(copy, was, side), was)
  <2>1. v # None /\ v.data = Vouched /\ copy # None /\ copy.data \in Data  BY <1>0, <1>1, <1>4 DEF Trusted, Shown
  <2>2. cached # None  BY <1>0, <2>1, MarkAssumption DEF Shown
  <2>3. cached = was /\ v = Look(copy, was, side)  BY <2>2
  <2>4. ~Changed(v, was)  BY <2>1, <2>3, VouchedHides
  <2> QED BY <2>2, <2>3, <2>4
<1>5. \/ Content(copy) = Content(was) \/ Content(copy) \in Big
      \/ copy = None /\ was # None
      \/ Trusted(v) \/ Differs(v, was)
  BY LookDiffers, SMTT(30) DEF Trusted
<1>6. v # None /\ ~Refused(v) /\ DigestOf(v, was) \in Dirs => Content(copy) = DigestOf(v, was)
  BY DirectoryRead, SMTT(30)
<1> HIDE DEF Right
<1> QED BY <1>1, <1>2, <1>3, <1>4, <1>5, <1>6 DEF Right
-----------------------------------------------------------------------------
(* What a pass decides about one path. *)

\* The two sides.
LEMMA Sides ==
    /\ "host" \in Side /\ "guest" \in Side /\ Other("host") = "guest" /\ Other("guest") = "host"
    /\ \A s \in Side : /\ Other(s) \in Side /\ Other(Other(s)) = s /\ Other(s) # s
                       /\ s = "host" \/ s = "guest"
                       /\ \A t \in Side : t = s \/ t = Other(s)
BY Zenon DEF Side, Other

\* The change of side t is given up: the developer said that the other side wins, which
\* holds a file over the cap, or nothing where nothing was agreed.
Drops(s, was, answer, t) ==
    /\ answer = Other(t)
    /\ Changed(s[t], was)
    /\ IF s[Other(t)] = None THEN was = None ELSE Refused(s[Other(t)])

\* The winner is the answered side, or the only one that moved.
Wins(s, was, answer, m) ==
    IF m = None THEN \A t \in Side : ~Changed(s[t], was)
    ELSE \/ m = answer
         \/ answer = None /\ Changed(s[m], was) /\ ~Changed(s[Other(m)], was)

\* What an action was planned for: v is what was seen of its source, acts the plan.
Warranted(a, v, was, acts) ==
    /\ a.op = "put" => v # None /\ ~Refused(v) /\ a.data = DigestOf(v, was)
    /\ a.op = "remove" =>
         \/ v = None
         \/ v # None /\ Refused(v)
         \/ \E b \in acts : b.op = "put" /\ b.path = a.path

\* Every placement among them is in the plan.
PutsIn(some, acts) == \A b \in some : b.op = "put" => b \in acts

\* A pass that halts nothing: about every path it has decided it does something, or each
\* side's change is given up, refused or none.
Covers(plan, seen, led, answer, p, t) ==
    \/ plan.adopt[p] # None
    \/ \E a \in plan.actions : a.path = p
    \/ Gone(At(seen, p))
    \/ Drops(At(seen, p), led[p], answer, t)
    \/ ~Changed(seen[t][p], led[p])
    \/ seen[t][p] # None /\ Refused(seen[t][p])

\* Every action of the plan is warranted.
PlannedFor(a, seen, led, undecided, acts) ==
    /\ a.path \in Path \ undecided /\ a.to \in Side
    /\ Warranted(a, seen[Other(a.to)][a.path], led[a.path], acts)
    /\ a.op = "remove" /\ seen[Other(a.to)][a.path] = None => led[a.path] # None

-----------------------------------------------------------------------------
(* Deciding. *)

\* What an ordinary pass has seen, has not looked at, and decides.
SeenBy(skip)     == [host |-> pass.seen, guest |-> ReadGuest(skip)]
Skipped(s, skip) == IF s = "host" THEN pass.skips["host"] ELSE skip
PlanOf(skip)     == Decide(SeenBy(skip), mem.agreed, pass.undecided \cup skip, pass.taken)

\* What a pass forgets, and what stays or becomes unread.
LEMMA PlanMem ==
    ASSUME TypeInv, NEW skip \in SUBSET Path, Plan(skip)
    PROVE  /\ \A p \in Path : mem'.agreed[p] = IF p \in PlanOf(skip).forget THEN None ELSE mem.agreed[p]
           /\ mem'.owed = mem.owed
           /\ registered'
           /\ missed["host"] \subseteq missed'["host"]
           /\ \A p \in missed["guest"] :
                 p \in skip \/ ~Probed(p) \/ Trusted(ReadGuest(skip)[p]) => p \in missed'["guest"]
           /\ \A s \in Side, p \in Path \ (pass.undecided \cup skip) :
                 PlanOf(skip).halt = {} /\ Drops(At(SeenBy(skip), p), mem.agreed[p], pass.taken[p], s)
                   => p \in missed'[s]
<1> USE Zenon
<1> DEFINE plan == PlanOf(skip)
           seen == SeenBy(skip)
           undecided == pass.undecided \cup skip
           guest == ReadGuest(skip)
           dropped(s) == {p \in Path \ undecided :
                         /\ plan.halt = {} /\ pass.taken[p] = Other(s)
                         /\ Changed(seen[s][p], mem.agreed[p])
                         /\ IF seen[Other(s)][p] = None THEN mem.agreed[p] = None
                            ELSE Refused(seen[Other(s)][p])}
           unread == {p \in Path : p \in skip \/ ~Probed(p)
                                     \/ (guest[p] # None /\ guest[p].data = Vouched)}
<1>1. mem \in Ledgers /\ missed \in [Side -> SUBSET Path]
  BY DEF TypeInv, TypeOK, LedgersOK, HistoryOK
<1>2. mem' = [mem EXCEPT !.agreed = [p \in Path |-> IF p \in plan.forget THEN None ELSE @[p]]]
  BY ZenonT(30) DEF Plan, PlanOf, SeenBy
<1>3. missed' = [host  |-> missed["host"] \cup dropped("host"),
                 guest |-> (missed["guest"] \cap unread) \cup dropped("guest")]
  BY ZenonT(30) DEF Plan, PlanOf, SeenBy
<1>4. registered'  BY SMTT(30) DEF Plan
<1>5. /\ \A p \in Path : mem'.agreed[p] = IF p \in plan.forget THEN None ELSE mem.agreed[p]
      /\ mem'.owed = mem.owed
  <2> HIDE DEF plan
  <2> QED BY <1>1, <1>2 DEF Ledgers
<1>6. /\ missed'["host"] = missed["host"] \cup dropped("host")
      /\ missed'["guest"] = (missed["guest"] \cap unread) \cup dropped("guest")
  <2> HIDE DEF unread, dropped
  <2> QED BY <1>3
<1>7. ASSUME NEW p \in missed["guest"], p \in skip \/ ~Probed(p) \/ Trusted(guest[p])
      PROVE  p \in missed'["guest"]
  <2>1. p \in Path  BY <1>1, Sides
  <2>2. p \in unread  BY <1>7, <2>1 DEF Trusted
  <2> HIDE DEF unread, dropped
  <2> QED BY <1>6, <2>2
<1>8. ASSUME NEW s \in Side, NEW p \in Path \ undecided, plan.halt = {},
             Drops(At(seen, p), mem.agreed[p], pass.taken[p], s)
      PROVE  p \in missed'[s]
  <2>1. At(seen, p)[s] = seen[s][p] /\ At(seen, p)[Other(s)] = seen[Other(s)][p]  BY Sides DEF At
  <2>2. p \in dropped(s)
    <3> HIDE DEF seen, plan
    <3> QED BY <1>8, <2>1 DEF Drops
  <2> HIDE DEF unread, dropped
  <2> QED BY <1>6, <2>2, Sides
<1> HIDE DEF unread, dropped
<1>9. missed["host"] \subseteq missed'["host"]  BY <1>6
<1> QED BY <1>4, <1>5, <1>7, <1>8, <1>9

\* An ordinary pass has read the host and is about to probe the guest.
Deciding == TypeInv /\ SyncInv /\ pc = "read" /\ pass.mode = "pass"

\* What the pass has seen of a path is right, unless the path was not looked at.
SeenRight(s, p, v) == Right(tree[s][p], mem.agreed[p], Cached(p), v, s)

\* A re-seed is planned.
ReseedOf(skip) == Reseed(SeenBy(skip), pass.undecided \cup skip)

\* The guest is probed and the plan computed.
LEMMA ProbeSync ==
    ASSUME TypeInv, SyncInv, Probe
    PROVE  SyncInv'
<1>MoverWins. ASSUME NEW s, NEW was, NEW answer \in Side \cup {None}, ~Gone(s), ~BothMoved(s, was, answer)
              PROVE  Wins(s, was, answer, Mover(s, was, answer))
  <2> USE <1>MoverWins, Zenon
  <2> DEFINE m == Mover(s, was, answer)
  <2>0. None \notin Side  BY NoneAssumption
  <2>1. CASE answer # None /\ \E side \in Side : Changed(s[side], was)
    <3>1. m = answer  BY <2>1 DEF Mover
    <3> QED BY <2>1, <3>1 DEF Wins
  <2>2. CASE ~(answer # None /\ \E side \in Side : Changed(s[side], was))
    <3>1. CASE Changed(s["host"], was)
      <4>1. m = "host"  BY <2>2, <3>1 DEF Mover
      <4>2. answer = None  BY <2>2, <3>1, Sides
      <4>3. ~Changed(s["guest"], was)  BY <3>1, <4>2 DEF BothMoved
      <4> HIDE DEF m
      <4>4. m # None /\ Other(m) = "guest"  BY <2>0, <4>1, Sides
      <4>5. Wins(s, was, answer, m)  BY <3>1, <4>1, <4>2, <4>3, <4>4 DEF Wins
      <4> QED BY <4>5 DEF m
    <3>2. CASE ~Changed(s["host"], was) /\ Changed(s["guest"], was)
      <4>1. m = "guest"  BY <2>2, <3>2 DEF Mover
      <4>2. answer = None  BY <2>2, <3>2, Sides
      <4> QED BY <2>0, <3>2, <4>1, <4>2, Sides DEF Wins
    <3>3. CASE ~Changed(s["host"], was) /\ ~Changed(s["guest"], was)
      <4>1. m = None  BY <2>2, <3>3 DEF Mover
      <4> QED BY <3>3, <4>1, Sides DEF Wins
    <3> QED BY <3>1, <3>2, <3>3
  <2> QED BY <2>1, <2>2

\* A copy placed, and what it clears away first.
<1>PlacesWarranted. ASSUME NEW p, NEW to, NEW now, NEW was, NEW standing, NEW acts,
                           Placement(to, p, now, was) \subseteq acts, now # None,
                           NEW a \in Clearing(to, p, now, standing) \cup Placement(to, p, now, was)
                    PROVE  Warranted(a, now, was, acts) /\ a.path = p /\ a.to = to
  <2> USE <1>PlacesWarranted, Zenon
  <2>1. CASE a \in Placement(to, p, now, was)
    <3>1. /\ ~Refused(now)
          /\ a = [op |-> "put", to |-> to, path |-> p, data |-> DigestOf(now, was), stamp |-> now.stamp]
      BY <2>1 DEF Placement
    <3>2. a.op = "put" /\ a.data = DigestOf(now, was) /\ a.path = p /\ a.to = to  BY <3>1
    <3> QED BY <3>1, <3>2 DEF Warranted
  <2>2. CASE a \in Clearing(to, p, now, standing)
    <3>1. a = Removal(to, p, standing.kind)  BY <2>2 DEF Clearing
    <3>2. a.op = "remove" /\ a.path = p /\ a.to = to  BY <3>1 DEF Removal
    <3>3. CASE Refused(now)  BY <3>2, <3>3 DEF Warranted
    <3>4. CASE ~Refused(now)
      <4> DEFINE b == [op |-> "put", to |-> to, path |-> p, data |-> DigestOf(now, was),
                       stamp |-> now.stamp]
      <4>1. b \in acts  BY <3>4 DEF Placement
      <4>2. b.op = "put" /\ b.path = p  OBVIOUS
      <4> HIDE DEF b
      <4> QED BY <3>2, <4>1, <4>2 DEF Warranted
    <3> QED BY <3>3, <3>4
  <2> QED BY <2>1, <2>2

\* What is announced stays so, but for the guest's changes that the probe has seen.
<1>StaysAnnounced. ASSUME TypeInv, NEW skip \in SUBSET Path, Probe, Plan(skip), NEW s \in Side, NEW p \in Path,
                          Announced(s, p),
                          s = "host" \/ p \in skip \/ ~Probed(p) \/ Trusted(SeenBy(skip)["guest"][p])
                   PROVE  Announced(s, p)'
  <2> USE <1>StaysAnnounced, Zenon
  <2>1. flight' = flight /\ watch' = watch /\ (lost => lost')
    <3>1. UNCHANGED <<flight, watch, lost>>  BY DEF Probe
    <3> QED BY <3>1, SMTT(30)
  <2>2. /\ missed["host"] \subseteq missed'["host"]
        /\ \A q \in missed["guest"] :
                   q \in skip \/ ~Probed(q) \/ Trusted(ReadGuest(skip)[q]) => q \in missed'["guest"]
    BY PlanMem
  <2>3. SeenBy(skip)["guest"] = ReadGuest(skip)  BY DEF SeenBy
  <2>4. p \in missed[s] => p \in missed'[s]
    <3>1. CASE s = "host"  BY <2>2, <3>1
    <3>2. CASE s = "guest"
      <4>0. "guest" # "host"  OBVIOUS
      <4>1. p \in skip \/ ~Probed(p) \/ Trusted(ReadGuest(skip)[p])  BY <2>3, <3>2, <4>0
      <4> QED BY <2>2, <3>2, <4>1
    <3> QED BY <3>1, <3>2, Sides
  <2> QED BY <2>1, <2>4 DEF Announced

\* Where there is no conflict, every change is carried over, given up or refused.
<1>CarryCovers. ASSUME NEW p \in Path, NEW s \in Readings, NEW was \in MaybeAgreed, NEW answer \in MaybeSide,
                       ~Gone(s), ~BothMoved(s, was, answer), NEW t \in Side
                PROVE  \/ \E a \in Carry(p, s, was, answer) : a.path = p
                       \/ Drops(s, was, answer, t)
                       \/ ~Changed(s[t], was)
                       \/ s[t] # None /\ Refused(s[t])
  <2> USE <1>CarryCovers, Zenon
  <2> DEFINE m == Mover(s, was, answer)
  <2>0. None \notin Side /\ answer \in Side \cup {None}  BY NoneAssumption DEF MaybeSide
  <2>1. Wins(s, was, answer, m)  BY <2>0, <1>MoverWins
  <2>2. m \in Side \cup {None}  BY <2>0, MoverType
  <2>3. CASE m = None  BY <2>1, <2>3 DEF Wins
  <2>4. CASE m \in Side
    <3>0. m # None  BY <2>0, <2>4
    <3>1. t = m \/ t = Other(m)  BY <2>4, Sides
    <3>2. CASE s[m] = None /\ was # None
      <4>1. Removal(Other(m), p, KindOf(was.data)) \in Carry(p, s, was, answer)
        BY <3>0, <3>2 DEF Carry
      <4> QED BY <4>1 DEF Removal
    <3>3. CASE s[m] = None /\ was = None
      <4>1. ~Changed(s[m], was)  BY <3>3 DEF Changed
      <4>2. m = answer  BY <2>1, <3>0, <4>1 DEF Wins
      <4>3. t = Other(m) => Other(t) = m  BY <2>4, Sides
      <4> QED BY <3>1, <3>3, <4>1, <4>2, <4>3 DEF Drops
    <3>4. CASE s[m] # None /\ Refused(s[m])
      <4>1. m = answer \/ ~Changed(s[Other(m)], was)  BY <2>1, <3>0 DEF Wins
      <4>2. t = Other(m) => Other(t) = m  BY <2>4, Sides
      <4> QED BY <3>1, <3>4, <4>1, <4>2 DEF Drops
    <3>5. CASE s[m] # None /\ ~Refused(s[m])
      <4> DEFINE a == [op |-> "put", to |-> Other(m), path |-> p,
                       data |-> DigestOf(s[m], was), stamp |-> s[m].stamp]
      <4>1. a \in Placement(Other(m), p, s[m], was)  BY <3>5 DEF Placement
      <4>2. a \in Carry(p, s, was, answer)  BY <3>0, <3>5, <4>1 DEF Carry
      <4> QED BY <4>2
    <3> QED BY <3>2, <3>3, <3>4, <3>5
  <2> QED BY <2>2, <2>3, <2>4

<1>CarryWarranted. ASSUME NEW p \in Path, NEW s \in Readings, NEW was \in MaybeAgreed, NEW answer \in MaybeSide,
                          NEW acts, PutsIn(Carry(p, s, was, answer), acts),
                          NEW a \in Carry(p, s, was, answer)
                   PROVE  Warranted(a, s[Other(a.to)], was, acts) /\ (s[Other(a.to)] = None => was # None)
  <2> USE <1>CarryWarranted, Zenon
  <2> DEFINE m == Mover(s, was, answer)
  <2>1. m \in Side /\ a.to = Other(m)
    BY ONLY p \in Path, s \in Readings, was \in MaybeAgreed, answer \in MaybeSide,
            a \in Carry(p, s, was, answer), CarryForall
  <2>2. Other(a.to) = m /\ m # None  BY <2>1, Sides, NoneAssumption
  <2> HIDE DEF m
  <2>3. CASE s[m] = None
    <3>1. was # None /\ a = Removal(Other(m), p, KindOf(was.data))  BY <2>2, <2>3 DEF Carry, m
    <3>2. a.op = "remove"  BY <3>1 DEF Removal
    <3> QED BY <2>2, <2>3, <3>1, <3>2 DEF Warranted
  <2>4. CASE s[m] # None
    <3>1. Carry(p, s, was, answer)
            = Clearing(Other(m), p, s[m], s[Other(m)]) \cup Placement(Other(m), p, s[m], was)
      BY <2>2, <2>4 DEF Carry, m
    <3>2. Placement(Other(m), p, s[m], was) \subseteq acts
      <4>1. \A b \in Placement(Other(m), p, s[m], was) : b.op = "put"
        BY SMTT(30) DEF Placement
      <4> QED BY <3>1, <4>1 DEF PutsIn
    <3>3. Warranted(a, s[m], was, acts)  BY <2>4, <3>1, <3>2, <1>PlacesWarranted
    <3> QED BY <2>2, <2>4, <3>3
  <2> QED BY <2>3, <2>4

\* The paths the ledger forgets.
<1>PlanForgets. ASSUME NEW skip, NEW p \in Path
                PROVE  p \in PlanOf(skip).forget
                         <=> p \notin pass.undecided \cup skip /\ Gone(At(SeenBy(skip), p)) /\ mem.agreed[p] # None
  <2> USE Zenon
  <2>1. PlanOf(skip).forget = {q \in Path \ (pass.undecided \cup skip) :
                                 Gone(At(SeenBy(skip), q)) /\ mem.agreed[q] # None}
    BY ZenonT(60) DEF Decide, PlanOf
  <2> QED BY <2>1

<1>SeenTells. ASSUME TypeInv, SyncInv, pc = "read", NEW skip \in SUBSET Path, NEW s \in Side, NEW p \in Path,
                     p \notin Skipped(s, skip), NEW v, v = SeenBy(skip)[s][p]
              PROVE  \/ s = "host" /\ Announced(s, p)
                     \/ SeenRight(s, p, v)
                     \/ s = "guest" /\ ~Probed(p) /\ v = None
  <2> USE <1>SeenTells, Zenon
  <2>0. /\ tree[s][p] \in Copy \cup {None} /\ mem.agreed[p] \in Agreed \cup {None}
        /\ Cached(p) \in {None, mem.agreed[p]}
    <3>1. tree \in [Side -> [Path -> Copy \cup {None}]] /\ mem.agreed \in [Path -> Agreed \cup {None}]
      BY DEF TypeInv, TypeOK, TreesOK, LedgersOK, Ledgers
    <3>2. Cached(p) \in {None, mem.agreed[p]}  BY DEF Cached
    <3> QED BY <3>1, <3>2
  <2>1. ASSUME v = Look(tree[s][p], Cached(p), s) PROVE SeenRight(s, p, v)
    BY <2>0, <2>1, LookRight DEF SeenRight
  <2>2. CASE s = "host"
    <3>1. v = pass.seen[p] /\ p \notin pass.skips["host"]  BY <2>2 DEF SeenBy, Skipped
    <3>2. Announced("host", p) \/ pass.seen[p] = Look(tree["host"][p], Cached(p), "host")
      BY <3>1 DEF SyncInv, ReadInv
    <3> QED BY <2>1, <2>2, <3>1, <3>2
  <2>3. CASE s = "guest"
    <3>0. "guest" # "host"  OBVIOUS
    <3>1. v = ReadGuest(skip)[p] /\ p \notin skip  BY <2>3, <3>0 DEF SeenBy, Skipped
    <3>2. CASE ~Probed(p)  BY <2>3, <3>1, <3>2 DEF ReadGuest
    <3>3. CASE Probed(p)
      <4>1. v = Look(tree["guest"][p], Cached(p), "guest")  BY <3>1, <3>3 DEF ReadGuest
      <4> QED BY <2>1, <2>3, <4>1
    <3> QED BY <3>2, <3>3
  <2> QED BY <2>2, <2>3, Sides

\* A change that was not looked for is announced: the stamp is vouched for, or the guest
\* was not asked.
<1>Overlooked. ASSUME Deciding, NEW skip \in SUBSET Path, Probe, Plan(skip), NEW s \in Side, NEW p \in Path,
                      NEW v, v = SeenBy(skip)[s][p],
                      \/ SeenRight(s, p, v) /\ Trusted(v)
                      \/ s = "guest" /\ ~Probed(p)
               PROVE  Announced(s, p)' \/ Fine(s, p)
  <2> USE <1>Overlooked, Zenon
  <2>0. TypeInv /\ SyncInv /\ pc = "read" /\ pass.mode = "pass"  BY DEF Deciding
  <2>1. ~mem.owed /\ Accounted(s, p)
    <3>1. ~mem.owed  BY <2>0 DEF SyncInv, LoopInv
    <3> QED BY <2>0, <3>1, Sides DEF SyncInv, BaseInv
  <2>2. CASE SeenRight(s, p, v) /\ Trusted(v)
    <3>1. /\ Cached(p) = mem.agreed[p] /\ mem.agreed[p] # None
          /\ ~Changed(Look(tree[s][p], mem.agreed[p], s), mem.agreed[p])
      BY <2>2 DEF SeenRight, Right
    <3>2. ~rescan /\ p \notin dirty["host"] \cup dirty["guest"]  BY <3>1 DEF Cached
    <3>3. ~Shows(s, p)  BY <3>1 DEF Shows
    <3>4. p \notin Owed(s)  BY <3>2 DEF Owed
    <3>5. Announced(s, p) \/ Fine(s, p)  BY <2>1, <3>2, <3>3, <3>4 DEF Accounted
    <3>6. s = "host" \/ Trusted(SeenBy(skip)["guest"][p])  BY <2>2, Sides
    <3> QED BY <2>0, <3>5, <3>6, <1>StaysAnnounced
  <2>3. CASE s = "guest" /\ ~Probed(p)
    <3>0. "guest" # "host"  OBVIOUS
    <3>1. ~rescan /\ mem.agreed[p] = None /\ p \notin dirty["guest"]  BY <2>3 DEF Probed
    <3>2. ~Shows(s, p)  BY <2>3, <3>1 DEF Shows
    <3>3. p \notin Owed(s)  BY <2>3, <3>0, <3>1 DEF Owed
    <3>4. Announced(s, p) \/ Fine(s, p)  BY <2>1, <3>1, <3>2, <3>3 DEF Accounted
    <3> QED BY <2>0, <2>3, <3>4, <1>StaysAnnounced
  <2> QED BY <2>2, <2>3

<1>DecideCovers. ASSUME NEW seen \in [Side -> [Path -> Seen \cup {None}]],
                        NEW led \in [Path -> Agreed \cup {None}], NEW undecided,
                        NEW replies \in [Path -> Side \cup {None}],
                        NEW plan, plan = Decide(seen, led, undecided, replies), plan.halt = {},
                        NEW p \in Path \ undecided, NEW t \in Side
                 PROVE  Covers(plan, seen, led, replies[p], p, t)
  <2> USE <1>DecideCovers, Zenon
  <2> DEFINE s         == At(seen, p)
             decided   == Path \ undecided
             both(q)   == ~Gone(At(seen, q)) /\ BothMoved(At(seen, q), led[q], replies[q])
             carried   == UNION {Carry(q, At(seen, q), led[q], replies[q]) : q \in decided}
             withheld  == Withheld(carried, led, replies)
             halted    == {q \in decided : both(q) /\ ~Matching(At(seen, q), led[q])} \cup withheld
             allowed   == {a \in carried : ~(a.op = "remove" /\ a.to = "host" /\ a.path \in withheld)}
             adopted   == {q \in decided : both(q) /\ Matching(At(seen, q), led[q])}
  <2>1. /\ plan.halt = halted
        /\ plan.actions = WhileHalted(halted, allowed, replies)
        /\ plan.adopt = [q \in Path |-> IF q \in adopted THEN AgreedOn(At(seen, q), led[q]) ELSE None]
    BY ZenonT(60) DEF Decide
  <2>2. halted = {} /\ withheld = {}  BY <2>1
  <2>3. plan.actions = carried
    <3> HIDE DEF carried, withheld, halted
    <3>1. allowed = carried  BY <2>2
    <3> QED BY <2>1, <2>2, <3>1 DEF WhileHalted
  <2>4. Carry(p, s, led[p], replies[p]) \subseteq plan.actions  BY <2>3
  <2>5. s \in Readings /\ led[p] \in MaybeAgreed /\ replies[p] \in MaybeSide
    BY DEF At, Readings, MaybeAgreed, MaybeSide
  <2>6. s[t] = seen[t][p]  BY DEF At
  <2>7. CASE both(p)
    <3>1. p \in adopted  BY <2>2, <2>7
    <3>2. Matching(s, led[p]) /\ led[p] \in Agreed \cup {None} /\ s \in [Side -> Seen \cup {None}]
      BY <3>1 DEF At
    <3>3. plan.adopt[p] = AgreedOn(s, led[p])  BY <2>1, <3>1
    <3> HIDE DEF s
    <3>4. AgreedOn(s, led[p]) \in Match  BY <3>2, AgreedOnType
    <3>5. plan.adopt[p] # None  BY <3>3, <3>4, NoneAssumption
    <3> QED BY <3>5 DEF Covers
  <2>8. CASE ~both(p) /\ ~Gone(s)
    <3>1. ~BothMoved(s, led[p], replies[p]) /\ ~Gone(s)  BY <2>8
    <3> HIDE DEF s, carried, withheld, halted, allowed, adopted
    <3>2. \/ \E a \in Carry(p, s, led[p], replies[p]) : a.path = p
          \/ Drops(s, led[p], replies[p], t)
          \/ ~Changed(s[t], led[p])
          \/ s[t] # None /\ Refused(s[t])
      BY ONLY p \in Path \ undecided, t \in Side, <2>5, <3>1, <1>CarryCovers, Zenon
    <3>3. \/ \E a \in plan.actions : a.path = p
          \/ Drops(s, led[p], replies[p], t)
          \/ ~Changed(seen[t][p], led[p])
          \/ seen[t][p] # None /\ Refused(seen[t][p])
      BY <2>4, <2>6, <3>2
    <3> QED BY <3>3 DEF Covers, s
  <2> QED BY <2>7, <2>8 DEF Covers

<1>DecideWarranted. ASSUME NEW seen \in [Side -> [Path -> Seen \cup {None}]],
                           NEW led \in [Path -> Agreed \cup {None}], NEW undecided,
                           NEW replies \in [Path -> Side \cup {None}],
                           NEW plan, plan = Decide(seen, led, undecided, replies), NEW a \in plan.actions
                    PROVE  PlannedFor(a, seen, led, undecided, plan.actions)
  <2> USE <1>DecideWarranted, Zenon
  <2> DEFINE decided   == Path \ undecided
             both(q)   == ~Gone(At(seen, q)) /\ BothMoved(At(seen, q), led[q], replies[q])
             carried   == UNION {Carry(q, At(seen, q), led[q], replies[q]) : q \in decided}
             withheld  == Withheld(carried, led, replies)
             halted    == {q \in decided : both(q) /\ ~Matching(At(seen, q), led[q])} \cup withheld
             allowed   == {b \in carried : ~(b.op = "remove" /\ b.to = "host" /\ b.path \in withheld)}
  <2>1. plan.actions = WhileHalted(halted, allowed, replies)  BY ZenonT(60) DEF Decide
  <2>2. plan.actions \subseteq carried
    <3> HIDE DEF carried, withheld, halted
    <3> QED BY <2>1 DEF WhileHalted
  <2>3. PICK p \in decided : a \in Carry(p, At(seen, p), led[p], replies[p])  BY <2>2
  <2> DEFINE s == At(seen, p)
  <2>5. s \in Readings /\ led[p] \in MaybeAgreed /\ replies[p] \in MaybeSide /\ p \in Path
    BY DEF At, Readings, MaybeAgreed, MaybeSide
  <2>6. \A b \in Carry(p, s, led[p], replies[p]) : b \in Action /\ b.path = p
    <3>1. ASSUME NEW b \in Carry(p, s, led[p], replies[p]) PROVE b \in Action /\ b.path = p
      BY <2>5, CarryAt, SMTT(30)
    <3> QED BY <3>1
  <2>7. a.path = p /\ a.to \in Side  BY <2>3, <2>6 DEF Action
  <2>8. PutsIn(Carry(p, s, led[p], replies[p]), plan.actions)
    <3>0. ASSUME NEW b \in Carry(p, s, led[p], replies[p]) PROVE b \in carried  OBVIOUS
    <3> HIDE DEF carried, withheld, halted, s
    <3> SUFFICES ASSUME NEW b \in Carry(p, s, led[p], replies[p]), b.op = "put"
                 PROVE  b \in plan.actions
      BY DEF PutsIn
    <3>1. b \in allowed /\ b.path = a.path  BY <2>6, <2>7, <3>0
    <3>2. a \in WhileHalted(halted, allowed, replies)  BY <2>1
    <3> HIDE DEF allowed
    <3>3. b \in WhileHalted(halted, allowed, replies)  BY <3>1, <3>2 DEF WhileHalted
    <3> QED BY <2>1, <3>3
  <2>9. s[Other(a.to)] = seen[Other(a.to)][p]  BY <2>7, Sides DEF At
  <2> HIDE DEF s, carried, withheld, halted, allowed
  <2>10. a \in Carry(p, s, led[p], replies[p])  BY <2>3 DEF s
  <2>11. Warranted(a, s[Other(a.to)], led[p], plan.actions) /\ (s[Other(a.to)] = None => led[p] # None)
    BY ONLY <2>5, <2>8, <2>10, <1>CarryWarranted, SMTT(30)
  <2> QED BY <2>7, <2>9, <2>11 DEF PlannedFor

\* What a pass makes of its decision.
<1>PlanPass. ASSUME TypeInv, NEW skip \in SUBSET Path, Plan(skip)
             PROVE  /\ pass'.undecided = pass.undecided \cup skip
                    /\ pass'.adopt = PlanOf(skip).adopt /\ pass'.todo = PlanOf(skip).actions
                    /\ pass'.halt = PlanOf(skip).halt
                    /\ pass'.mode = pass.mode /\ pass'.stage = pass.stage
                    /\ pass'.later = [s \in Side |->
                           IF PlanOf(skip).halt # {} THEN Rehash(s, SeenBy(skip)[s], Skipped(s, skip))
                           ELSE Rehash(s, SeenBy(skip)[s], Skipped(s, skip)) \cap (pass.undecided \cup skip)]
  <2> USE <1>PlanPass, Zenon
  <2> DEFINE plan == PlanOf(skip)
             later == [s \in Side |->
                    IF PlanOf(skip).halt # {} THEN Rehash(s, SeenBy(skip)[s], Skipped(s, skip))
                    ELSE Rehash(s, SeenBy(skip)[s], Skipped(s, skip)) \cap (pass.undecided \cup skip)]
  <2>1. pass \in Passes  BY DEF TypeInv, TypeOK
  <2>2. PICK e : pass' = [pass EXCEPT
              !.seen = NoAgreement, !.undecided = pass.undecided \cup skip,
              !.adopt = plan.adopt, !.todo = plan.actions, !.expected = e,
              !.halt = plan.halt, !.refused = plan.refused, !.records = plan.records,
              !.later = later]
    BY ZenonT(30) DEF Plan, PlanOf, SeenBy, Skipped
  <2> HIDE DEF plan, later
  <2>3. /\ pass'.undecided = pass.undecided \cup skip
        /\ pass'.adopt = plan.adopt /\ pass'.todo = plan.actions /\ pass'.halt = plan.halt
        /\ pass'.mode = pass.mode /\ pass'.stage = pass.stage /\ pass'.later = later
    BY <2>1, <2>2 DEF Passes
  <2> QED BY <2>3 DEF plan, later

\* A path seen nowhere is nowhere, and what is agreed about it is gone.
<1>GoneSettles. ASSUME Deciding, NEW skip \in SUBSET Path, Probe, Plan(skip), NEW s \in Side,
                       NEW p \in Path \ (pass.undecided \cup skip), Gone(At(SeenBy(skip), p))
                PROVE  Announced(s, p)' \/ Fine(s, p)'
  <2> USE <1>GoneSettles, Zenon
  <2>0. TypeInv /\ SyncInv /\ pc = "read" /\ pass.mode = "pass"  BY DEF Deciding
  <2> DEFINE v == SeenBy(skip)[s][p]
  <2>1. v = None  BY Sides DEF Gone, At
  <2>2. p \notin Skipped(s, skip)  BY <2>0 DEF Skipped, SyncInv, ReadInv
  <2>3. p \in PlanOf(skip).forget <=> mem.agreed[p] # None
    <3>1. p \in PlanOf(skip).forget
            <=> p \notin pass.undecided \cup skip /\ Gone(At(SeenBy(skip), p)) /\ mem.agreed[p] # None
      BY <1>PlanForgets
    <3> QED BY <3>1
  <2>4. mem'.agreed[p] = None
    <3>1. mem'.agreed[p] = IF p \in PlanOf(skip).forget THEN None ELSE mem.agreed[p]  BY <2>0, PlanMem
    <3> QED BY <2>3, <3>1
  <2>5. tree' = tree  BY DEF Probe
  <2>6. tree[s][p] = None => Fine(s, p)'  BY <2>4, <2>5 DEF Fine, Content
  <2>7. \/ s = "host" /\ Announced(s, p)
        \/ SeenRight(s, p, v)
        \/ s = "guest" /\ ~Probed(p) /\ v = None
    BY <2>0, <2>2, <1>SeenTells
  <2> HIDE DEF v
  <2>8. CASE s = "host" /\ Announced(s, p)  BY <2>0, <2>8, <1>StaysAnnounced
  <2>9. CASE SeenRight(s, p, v)
    <3>1. tree[s][p] = None  BY <2>1, <2>9 DEF SeenRight, Right
    <3> QED BY <2>6, <3>1
  <2>10. CASE s = "guest" /\ ~Probed(p)
    <3>1. Announced(s, p)' \/ Fine(s, p)  BY <2>10, <1>Overlooked DEF v
    <3>2. mem.agreed[p] = None  BY <2>10 DEF Probed
    <3>3. Fine(s, p) => Fine(s, p)'  BY <2>4, <2>5, <3>2 DEF Fine
    <3> QED BY <3>1, <3>3
  <2> QED BY <2>7, <2>8, <2>9, <2>10

\* What is agreed about any other path stays.
<1>KeptAgreed. ASSUME Deciding, NEW skip \in SUBSET Path, Probe, Plan(skip), NEW s \in Side, NEW p \in Path,
                      p \in pass.undecided \cup skip \/ ~Gone(At(SeenBy(skip), p))
               PROVE  /\ mem'.agreed[p] = mem.agreed[p] /\ tree' = tree
                      /\ Fine(s, p) => Fine(s, p)'
                      /\ Shows(s, p) => Shows(s, p)'
  <2> USE <1>KeptAgreed, Zenon
  <2>0. TypeInv  BY DEF Deciding
  <2>1. p \notin PlanOf(skip).forget
    <3>1. p \in PlanOf(skip).forget
            <=> p \notin pass.undecided \cup skip /\ Gone(At(SeenBy(skip), p)) /\ mem.agreed[p] # None
      BY <1>PlanForgets
    <3> QED BY <3>1
  <2>2. mem'.agreed[p] = mem.agreed[p]
    <3>1. mem'.agreed[p] = IF p \in PlanOf(skip).forget THEN None ELSE mem.agreed[p]  BY <2>0, PlanMem
    <3> QED BY <2>1, <3>1
  <2>3. tree' = tree  BY DEF Probe
  <2>4. Fine(s, p) => Fine(s, p)'  BY <2>2, <2>3 DEF Fine
  <2>5. Shows(s, p) => Shows(s, p)'  BY <2>2, <2>3 DEF Shows
  <2> QED BY <2>2, <2>3, <2>4, <2>5

\* A pass that halts nothing settles every path it has decided.
<1>DecidedSettles. ASSUME Deciding, NEW skip \in SUBSET Path, Probe, Plan(skip), NEW s \in Side,
                          NEW p \in Path \ (pass.undecided \cup skip), PlanOf(skip).halt = {}
                   PROVE  Settling(s, p)'
  <2> USE <1>DecidedSettles, Zenon
  <2>0. TypeInv /\ SyncInv /\ pc = "read" /\ pass.mode = "pass"  BY DEF Deciding
  <2> DEFINE v == SeenBy(skip)[s][p]  plan == PlanOf(skip)
  <2>1. Announced(s, p)' \/ Fine(s, p)' \/ Busy(p)' => Settling(s, p)'  BY DEF Settling
  <2>2. CASE Gone(At(SeenBy(skip), p))
    <3>1. Announced(s, p)' \/ Fine(s, p)'  BY <2>2, <1>GoneSettles
    <3> QED BY <2>1, <3>1
  <2>3. CASE ~Gone(At(SeenBy(skip), p))
    <3>1. Covers(plan, SeenBy(skip), mem.agreed, pass.taken[p], p, s)
      <4>1. /\ SeenBy(skip) \in [Side -> [Path -> Seen \cup {None}]]
            /\ mem.agreed \in [Path -> Agreed \cup {None}] /\ pass.taken \in [Path -> Side \cup {None}]
        BY <2>0, ProbeSeen DEF SeenBy
      <4>2. plan = Decide(SeenBy(skip), mem.agreed, pass.undecided \cup skip, pass.taken) /\ plan.halt = {}
        BY DEF PlanOf
      <4> HIDE DEF plan
      <4> QED BY <4>1, <4>2, <1>DecideCovers
    <3>2. pass'.adopt = plan.adopt /\ pass'.todo = plan.actions  BY <2>0, <1>PlanPass
    <3>3. p \notin Skipped(s, skip)  BY <2>0 DEF Skipped, SyncInv, ReadInv
    <3>4. \/ s = "host" /\ Announced(s, p)
          \/ SeenRight(s, p, v)
          \/ s = "guest" /\ ~Probed(p) /\ v = None
      BY <2>0, <3>3, <1>SeenTells
    <3>5. Fine(s, p) => Fine(s, p)'  BY <2>3, <1>KeptAgreed
    <3>6. /\ SeenRight(s, p, v) /\ Trusted(v) => Announced(s, p)' \/ Fine(s, p)
          /\ s = "guest" /\ ~Probed(p) => Announced(s, p)' \/ Fine(s, p)
      BY <1>Overlooked
    <3>7. CASE s = "host" /\ Announced(s, p)
      <4>1. Announced(s, p)'  BY <2>0, <3>7, <1>StaysAnnounced
      <4> QED BY <2>1, <4>1
    <3>8. CASE s = "guest" /\ ~Probed(p)  BY <2>1, <3>5, <3>6, <3>8
    <3>9. CASE SeenRight(s, p, v)
      <4>1. CASE plan.adopt[p] # None \/ \E a \in plan.actions : a.path = p
        <5>1. Busy(p)'  BY <3>2, <4>1 DEF Busy
        <5> QED BY <2>1, <5>1
      <4>2. CASE Drops(At(SeenBy(skip), p), mem.agreed[p], pass.taken[p], s)
        <5>1. p \in missed'[s]  BY <2>0, <4>2, PlanMem
        <5> QED BY <2>1, <5>1 DEF Announced
      <4>3. CASE ~Changed(v, mem.agreed[p])
        <5>1. Content(tree[s][p]) = Content(mem.agreed[p]) \/ Trusted(v)
          BY <3>9, <4>3 DEF SeenRight, Right
        <5>2. Fine(s, p) \/ Trusted(v)  BY <5>1 DEF Fine
        <5> QED BY <2>1, <3>5, <3>6, <3>9, <5>2
      <4>4. CASE v # None /\ Refused(v)
        <5>1. Content(tree[s][p]) \in Big  BY <3>9, <4>4 DEF SeenRight, Right
        <5>2. Fine(s, p)  BY <5>1 DEF Fine
        <5> QED BY <2>1, <3>5, <5>2
      <4> HIDE DEF plan
      <4> QED BY <2>3, <3>1, <4>1, <4>2, <4>3, <4>4 DEF Covers
    <3> QED BY <3>4, <3>7, <3>8, <3>9
  <2> QED BY <2>2, <2>3

\* What a pass does not settle it remembers, or the next one sees it again.
<1>RememberedSettles. ASSUME Deciding, NEW skip \in SUBSET Path, Probe, Plan(skip), NEW s \in Side, NEW p \in Path,
                             p \in pass.undecided \cup skip \/ PlanOf(skip).halt # {}
                      PROVE  Settling(s, p)'
  <2> USE <1>RememberedSettles, Zenon
  <2>0. TypeInv /\ SyncInv /\ pc = "read" /\ pass.mode = "pass"  BY DEF Deciding
  <2> DEFINE v == SeenBy(skip)[s][p]  seen == SeenBy(skip)[s]
  <2>1. Announced(s, p)' \/ Fine(s, p)' \/ p \in Later(s)' => Settling(s, p)'  BY DEF Settling
  <2>2. CASE p \notin pass.undecided \cup skip /\ Gone(At(SeenBy(skip), p))
    <3>1. Announced(s, p)' \/ Fine(s, p)'  BY <2>2, <1>GoneSettles
    <3> QED BY <2>1, <3>1
  <2>3. CASE p \in pass.undecided \cup skip \/ ~Gone(At(SeenBy(skip), p))
    <3>1. (Fine(s, p) => Fine(s, p)') /\ (Shows(s, p) => Shows(s, p)')  BY <2>3, <1>KeptAgreed
    <3>2. p \in Rehash(s, seen, Skipped(s, skip)) => p \in Later(s)'
      <4>1. pass'.later = [t \in Side |->
                    IF PlanOf(skip).halt # {} THEN Rehash(t, SeenBy(skip)[t], Skipped(t, skip))
                    ELSE Rehash(t, SeenBy(skip)[t], Skipped(t, skip)) \cap (pass.undecided \cup skip)]
        BY <2>0, <1>PlanPass
      <4>2. p \in Rehash(s, seen, Skipped(s, skip)) => p \in pass'.later[s]  BY <4>1
      <4> QED BY <4>2, Sides DEF Later
    <3>3. Shows(s, p)' => Settling(s, p)'
      <4>1. pass'.undecided = pass.undecided \cup skip /\ pass'.halt = PlanOf(skip).halt
        BY <2>0, <1>PlanPass
      <4> QED BY <4>1 DEF Settling
    <3>4. CASE p \in Skipped(s, skip)
      <4>1. p \in Rehash(s, seen, Skipped(s, skip))  BY <3>4 DEF Rehash
      <4> QED BY <2>1, <3>2, <4>1
    <3>5. CASE p \notin Skipped(s, skip)
      <4>1. \/ s = "host" /\ Announced(s, p)
            \/ SeenRight(s, p, v)
            \/ s = "guest" /\ ~Probed(p) /\ v = None
        BY <2>0, <3>5, <1>SeenTells
      <4>2. /\ SeenRight(s, p, v) /\ Trusted(v) => Announced(s, p)' \/ Fine(s, p)
            /\ s = "guest" /\ ~Probed(p) => Announced(s, p)' \/ Fine(s, p)
        BY <1>Overlooked
      <4>3. CASE s = "host" /\ Announced(s, p)
        <5>1. Announced(s, p)'  BY <2>0, <4>3, <1>StaysAnnounced
        <5> QED BY <2>1, <5>1
      <4>4. CASE s = "guest" /\ ~Probed(p)  BY <2>1, <3>1, <4>2, <4>4
      <4>5. CASE SeenRight(s, p, v)
        <5>1. \/ Content(tree[s][p]) = Content(mem.agreed[p]) \/ Content(tree[s][p]) \in Big
              \/ tree[s][p] = None /\ mem.agreed[p] # None
              \/ Trusted(v) \/ Differs(v, mem.agreed[p])
          BY <4>5 DEF SeenRight, Right
        <5>2. CASE tree[s][p] = None /\ mem.agreed[p] # None
          <6>1. Shows(s, p)  BY <5>2 DEF Shows, Look, Changed
          <6> QED BY <3>1, <3>3, <6>1
        <5>3. CASE Differs(v, mem.agreed[p])
          <6>1. p \in Rehash(s, seen, Skipped(s, skip))  BY <5>3 DEF Rehash, Differs
          <6> QED BY <2>1, <3>2, <6>1
        <5>4. CASE Trusted(v)  BY <2>1, <3>1, <4>2, <4>5, <5>4
        <5>5. CASE Content(tree[s][p]) = Content(mem.agreed[p]) \/ Content(tree[s][p]) \in Big
          <6>1. Fine(s, p)  BY <5>5 DEF Fine
          <6> QED BY <2>1, <3>1, <6>1
        <5> QED BY <5>1, <5>2, <5>3, <5>4, <5>5
      <4> QED BY <4>1, <4>3, <4>4, <4>5
    <3> QED BY <3>4, <3>5
  <2> QED BY <2>2, <2>3

\* What an action was planned for holds of its source.
<1>PlanSourced. ASSUME Deciding, NEW skip \in SUBSET Path, Probe, Plan(skip), NEW a \in PlanOf(skip).actions
                PROVE  Sourced(a)' /\ (a.op = "put" /\ a.data \in Dirs => Stands(a)')
  <2> USE <1>PlanSourced, Zenon
  <2>0. TypeInv /\ SyncInv /\ pc = "read" /\ pass.mode = "pass"  BY DEF Deciding
  <2> DEFINE plan == PlanOf(skip)
             s == Other(a.to)
             p == a.path
             v == SeenBy(skip)[s][p]
  <2>1. /\ p \in Path \ (pass.undecided \cup skip) /\ a.to \in Side
        /\ Warranted(a, v, mem.agreed[p], plan.actions)
        /\ a.op = "remove" /\ v = None => mem.agreed[p] # None
    <3>1. /\ SeenBy(skip) \in [Side -> [Path -> Seen \cup {None}]]
          /\ mem.agreed \in [Path -> Agreed \cup {None}] /\ pass.taken \in [Path -> Side \cup {None}]
      BY <2>0, ProbeSeen DEF SeenBy
    <3>2. plan = Decide(SeenBy(skip), mem.agreed, pass.undecided \cup skip, pass.taken) /\ a \in plan.actions
      BY DEF PlanOf
    <3> HIDE DEF plan
    <3>3. PlannedFor(a, SeenBy(skip), mem.agreed, pass.undecided \cup skip, plan.actions)
      BY <3>1, <3>2, <1>DecideWarranted
    <3> QED BY <3>3 DEF PlannedFor
  <2>2. s \in Side /\ p \in Path  BY <2>1, Sides
  <2>3. p \notin Skipped(s, skip)  BY <2>0, <2>1 DEF Skipped, SyncInv, ReadInv
  <2>4. \/ s = "host" /\ Announced(s, p)
        \/ SeenRight(s, p, v)
        \/ s = "guest" /\ ~Probed(p) /\ v = None
    BY <2>0, <2>2, <2>3, <1>SeenTells
  <2>5. tree' = tree /\ pass'.todo = plan.actions /\ pass'.mode = "pass"
    BY <2>0, <1>PlanPass DEF Probe
  <2>6. (Announced(s, p)' => Vacant(a)') /\ (Announced(s, p)' => Stands(a)')  BY DEF Vacant, Stands
  <2>7. Vacant(a)' => Sourced(a)'  BY <2>5 DEF Sourced
  <2>8. a.op # "remove" => Sourced(a)'  BY <2>5 DEF Sourced
  <2> HIDE DEF plan, v
  <2>9. CASE s = "host" /\ Announced(s, p)
    <3>1. Announced(s, p)'  BY <2>0, <2>2, <2>9, <1>StaysAnnounced
    <3> QED BY <2>6, <2>7, <3>1
  <2>10. CASE s = "guest" /\ ~Probed(p) /\ v = None
    <3>1. mem.agreed[p] = None  BY <2>10 DEF Probed
    <3>2. a.op # "put"  BY <2>1, <2>10 DEF Warranted
    <3>3. a.op # "remove"  BY <2>1, <2>10, <3>1
    <3> QED BY <2>8, <3>2, <3>3
  <2>11. CASE SeenRight(s, p, v)
    <3>1. ASSUME a.op = "remove" PROVE Vacant(a)'
      <4>1. v = None \/ (v # None /\ Refused(v)) \/ \E b \in plan.actions : b.op = "put" /\ b.path = p
        BY <2>1, <3>1 DEF Warranted
      <4>2. CASE v = None
        <5>1. tree[s][p] = None  BY <2>11, <4>2 DEF SeenRight, Right
        <5> QED BY <2>5, <5>1 DEF Vacant, Content
      <4>3. CASE v # None /\ Refused(v)
        <5>1. Content(tree[s][p]) \in Big  BY <2>11, <4>3 DEF SeenRight, Right
        <5> QED BY <2>5, <5>1 DEF Vacant
      <4>4. CASE \E b \in plan.actions : b.op = "put" /\ b.path = p
        BY <2>5, <4>4 DEF Vacant
      <4> QED BY <4>1, <4>2, <4>3, <4>4
    <3>2. ASSUME a.op = "put", a.data \in Dirs PROVE Stands(a)'
      <4>1. v # None /\ ~Refused(v) /\ a.data = DigestOf(v, mem.agreed[p])  BY <2>1, <3>2 DEF Warranted
      <4>2. DigestOf(v, mem.agreed[p]) \in Dirs  BY <3>2, <4>1
      <4>3. Content(tree[s][p]) = DigestOf(v, mem.agreed[p])  BY <2>11, <4>1, <4>2 DEF SeenRight, Right
      <4>4. Content(tree[s][p]) = a.data  BY <4>1, <4>3
      <4> QED BY <2>5, <4>4 DEF Stands
    <3> QED BY <2>7, <2>8, <3>1, <3>2
  <2> QED BY <2>4, <2>9, <2>10, <2>11

<1>PlanReseedMade. ASSUME TypeInv, NEW skip \in SUBSET Path, PlanReseed(skip)
                   PROVE  /\ pass'.mode = pass.mode /\ pass'.halt = pass.halt
                          /\ pass'.undecided = pass.undecided \cup skip
                          /\ pass'.adopt = ReseedOf(skip).adopt /\ pass'.todo = ReseedOf(skip).actions
                          /\ pass'.refused = ReseedOf(skip).refused
                          /\ pass'.later = pass.later /\ pass'.stage = pass.stage
                          /\ mem'.agreed = NoAgreement /\ mem'.owed
                          /\ missed'["host"] = missed["host"] /\ registered' = registered
  <2> USE <1>PlanReseedMade, Zenon
  <2> DEFINE plan == ReseedOf(skip)
  <2>1. pass \in Passes /\ missed \in [Side -> SUBSET Path]  BY DEF TypeInv, TypeOK, HistoryOK
  <2>2. PICK e : pass' = [pass EXCEPT
                !.seen = NoAgreement, !.undecided = pass.undecided \cup skip,
                !.adopt = plan.adopt, !.todo = plan.actions, !.expected = e, !.refused = plan.refused]
    BY ZenonT(30) DEF PlanReseed, ReseedOf, SeenBy
  <2> HIDE DEF plan
  <2>3. /\ pass'.mode = pass.mode /\ pass'.halt = pass.halt
        /\ pass'.undecided = pass.undecided \cup skip
        /\ pass'.adopt = plan.adopt /\ pass'.todo = plan.actions /\ pass'.refused = plan.refused
        /\ pass'.later = pass.later /\ pass'.stage = pass.stage
    BY <2>1, <2>2 DEF Passes
  <2>4. /\ mem' = [EmptyLedger EXCEPT !.owed = TRUE] /\ registered' = registered
        /\ missed' = [missed EXCEPT !["guest"] = @ \cap skip]
    BY ZenonT(30) DEF PlanReseed
  <2>5. mem'.agreed = NoAgreement /\ mem'.owed  BY <2>4, SMTT(30) DEF EmptyLedger
  <2>6. missed'["host"] = missed["host"]  BY <2>1, <2>4, SMTT(30) DEF Side
  <2> QED BY <2>3, <2>4, <2>5, <2>6 DEF plan

\* An ordinary pass is planned.
<1>PlanSync. ASSUME Deciding, NEW skip \in SUBSET Path, Probe, Plan(skip)
             PROVE  SyncInv'
  <2> USE <1>PlanSync, Zenon
  <2>0. /\ TypeInv /\ SyncInv /\ pc = "read" /\ pass.mode = "pass"
        /\ LoopInv /\ BaseInv /\ ReadInv /\ UndecidedInv
    BY DEF Deciding, SyncInv
  <2>1. /\ pc' = "apply" /\ tree' = tree /\ watch' = watch /\ flight' = flight /\ dirty' = dirty
        /\ UNCHANGED <<seeded, op, rescan, lost>>
    BY DEF Probe, command
  <2>a. (rescan' <=> rescan) /\ (lost' <=> lost)  BY <2>1, SMTT(30)
  <2>2. /\ pass'.undecided = pass.undecided \cup skip
        /\ pass'.todo = PlanOf(skip).actions /\ pass'.halt = PlanOf(skip).halt
        /\ pass'.mode = "pass" /\ pass'.stage = "none"
    <3>1. pass.stage = "none"  BY <2>0 DEF TypeInv, StageOK
    <3> QED BY <2>0, <3>1, <1>PlanPass
  <2>3. LoopInv'
    <3>1. mem'.owed = mem.owed /\ registered'  BY <2>0, PlanMem
    <3>2. ~mem.owed /\ ~seeded /\ watch # "none" /\ (op \in {"suspended", "noted", "failed", "rewound"} => pc = "off")
      BY <2>0 DEF LoopInv
    <3>3. ~mem'.owed  BY <3>1, <3>2
    <3> QED BY <2>0, <2>1, <2>2, <3>1, <3>2, <3>3 DEF LoopInv
  <2>4. BaseInv'
    <3>1. ASSUME NEW p \in Path PROVE Accounted("host", p)'
      <4>1. Accounted("host", p)  BY <2>0 DEF BaseInv, LoopInv
      <4>2. Announced("host", p) => Announced("host", p)'  BY <2>0, Sides, <1>StaysAnnounced
      <4>3. p \in Owed("host") => p \in Owed("host")'  BY <2>1 DEF Owed
      <4>4. CASE p \in pass.undecided \cup skip \/ ~Gone(At(SeenBy(skip), p))
        <5>1. (Fine("host", p) => Fine("host", p)') /\ (Shows("host", p) => Shows("host", p)')
          BY <4>4, <1>KeptAgreed, Sides
        <5> QED BY <2>a, <4>1, <4>2, <4>3, <5>1 DEF Accounted
      <4>5. CASE p \notin pass.undecided \cup skip /\ Gone(At(SeenBy(skip), p))
        <5>1. Announced("host", p)' \/ Fine("host", p)'  BY <4>5, <1>GoneSettles, Sides
        <5> QED BY <5>1 DEF Accounted
      <4> QED BY <4>4, <4>5
    <3> QED BY <2>1, <3>1 DEF BaseInv
  <2>5. UndecidedInv'
    <3>1. pass'.later = [t \in Side |->
                    IF PlanOf(skip).halt # {} THEN Rehash(t, SeenBy(skip)[t], Skipped(t, skip))
                    ELSE Rehash(t, SeenBy(skip)[t], Skipped(t, skip)) \cap (pass.undecided \cup skip)]
      BY <2>0, <1>PlanPass
    <3>2. ASSUME NEW p \in pass.undecided \cup skip, NEW s \in Side, p \in Skipped(s, skip)
          PROVE  p \in Later("host")'
      <4>1. p \in Rehash(s, SeenBy(skip)[s], Skipped(s, skip))  BY <3>2 DEF Rehash
      <4>2. p \in pass'.later[s]  BY <3>1, <4>1
      <4> QED BY <4>2, Sides DEF Later
    <3>3. ASSUME NEW p \in pass.undecided \cup skip
          PROVE  p \in Later("host")' \/ p \in flight["host"] \cup flight["guest"] \/ lost \/ watch = "dead"
      <4>1. CASE p \in skip
        <5>1. p \in Skipped("guest", skip)  BY <4>1 DEF Skipped
        <5> QED BY <3>2, <5>1, Sides
      <4>2. CASE p \in pass.undecided
        <5>1. p \in pass.skips["host"] \/ p \in flight["host"] \cup flight["guest"] \/ lost \/ watch = "dead"
          BY <2>0, <4>2 DEF UndecidedInv
        <5>2. p \in pass.skips["host"] => p \in Skipped("host", skip)  BY DEF Skipped
        <5> QED BY <3>2, <5>1, <5>2, Sides
      <4> QED BY <4>1, <4>2
    <3> QED BY <2>1, <2>2, <2>a, <3>3 DEF UndecidedInv
  <2>6. ActInv'
    <3>1. \A a \in pass'.todo : Sourced(a)' /\ (a.op = "put" /\ a.data \in Dirs => Stands(a)')
      BY <2>2, <1>PlanSourced
    <3> QED BY <2>2, <3>1 DEF ActInv, Active
  <2>7. ApplyInv'
    <3>1. ASSUME NEW s \in Side, NEW p \in Path PROVE Settling(s, p)'
      <4>1. CASE p \in pass.undecided \cup skip \/ PlanOf(skip).halt # {}  BY <4>1, <1>RememberedSettles
      <4>2. CASE p \notin pass.undecided \cup skip /\ PlanOf(skip).halt = {}
        <5>1. p \in Path \ (pass.undecided \cup skip)  BY <4>2
        <5> QED BY <4>2, <5>1, <1>DecidedSettles
      <4> QED BY <4>1, <4>2
    <3> QED BY <3>1 DEF ApplyInv
  <2>8. ReadInv' /\ QuietInv'  BY <2>1 DEF ReadInv, QuietInv, Quiet, AtRest
  <2> QED BY <2>3, <2>4, <2>5, <2>6, <2>7, <2>8 DEF SyncInv

<1>PlanReseedSync. ASSUME TypeInv, SyncInv, pc = "read", pass.mode # "pass", NEW skip \in SUBSET Path, Probe,
                          PlanReseed(skip)
                   PROVE  SyncInv'
  \* The same of a re-seed, whose source is the host.
  <2>ReseedWarranted. ASSUME NEW seen \in [Side -> [Path -> Seen \cup {None}]], NEW undecided,
                             NEW plan, plan = Reseed(seen, undecided), NEW a \in plan.actions
                      PROVE  /\ a.path \in Path \ undecided /\ a.to = "guest"
                             /\ Warranted(a, seen["host"][a.path], None, plan.actions)
    <3> USE <2>ReseedWarranted, Zenon
    <3> DEFINE same(q) == Matching(At(seen, q), None) /\ seen["host"][q].data # Unhashed
               acts(q) == IF seen["host"][q] = None
                          THEN IF seen["guest"][q] = None THEN {}
                               ELSE {Removal("guest", q, seen["guest"][q].kind)}
                          ELSE IF same(q) THEN {}
                          ELSE Clearing("guest", q, seen["host"][q], seen["guest"][q])
                                 \cup Placement("guest", q, seen["host"][q], None)
    <3>1. plan.actions = UNION {acts(q) : q \in Path \ undecided}  BY ZenonT(60) DEF Reseed
    <3>2. PICK p \in Path \ undecided : a \in acts(p)  BY <3>1
    <3>3. acts(p) \subseteq plan.actions  BY <3>1
    <3>4. CASE seen["host"][p] = None
      <4>1. a = Removal("guest", p, seen["guest"][p].kind)  BY <3>2, <3>4
      <4>2. a.op = "remove" /\ a.path = p /\ a.to = "guest"  BY <4>1 DEF Removal
      <4> QED BY <3>4, <4>2 DEF Warranted
    <3>5. CASE seen["host"][p] # None
      <4>1. acts(p) = Clearing("guest", p, seen["host"][p], seen["guest"][p])
                        \cup Placement("guest", p, seen["host"][p], None)
        BY <3>2, <3>5
      <4> HIDE DEF acts
      <4> DEFINE now == seen["host"][p]  there == seen["guest"][p]
      <4>2. Placement("guest", p, now, None) \subseteq plan.actions  BY <3>3, <4>1
      <4>3. a \in Clearing("guest", p, now, there) \cup Placement("guest", p, now, None)
        BY <3>2, <4>1
      <4>4. now # None  BY <3>5
      <4> HIDE DEF now, there
      <4>5. Warranted(a, now, None, plan.actions)  BY <4>2, <4>3, <4>4, <1>PlacesWarranted
      <4>6. a.path = p /\ a.to = "guest"
        <5>1. CASE a \in Clearing("guest", p, now, there)
          <6>1. a = Removal("guest", p, there.kind)  BY ONLY <5>1, Zenon DEF Clearing
          <6> QED BY ONLY <6>1, Zenon DEF Removal
        <5>2. CASE a \in Placement("guest", p, now, None)
          <6>1. a = [op |-> "put", to |-> "guest", path |-> p,
                     data |-> DigestOf(now, None), stamp |-> now.stamp]
            BY ONLY <5>2, Zenon DEF Placement
          <6> QED BY ONLY <6>1, Zenon
        <5> QED BY <4>3, <5>1, <5>2
      <4> QED BY <4>5, <4>6 DEF now
    <3> QED BY <3>4, <3>5
  <2> USE <1>PlanReseedSync, Zenon
  <2>0. LoopInv /\ ReadInv  BY DEF SyncInv
  <2>1. /\ pc' = "apply" /\ tree' = tree /\ watch' = watch /\ flight' = flight /\ dirty' = dirty
        /\ UNCHANGED <<seeded, op, rescan, lost>>
    BY DEF Probe, command
  <2>2. mem.owed /\ pass.mode = "reseed" /\ ~seeded /\ ~registered /\ watch = "none" /\ ~lost /\ pass.later = NoPaths
    BY <2>0 DEF LoopInv
  <2>3. /\ pass'.mode = "reseed" /\ pass'.undecided = pass.undecided \cup skip
        /\ pass'.adopt = ReseedOf(skip).adopt /\ pass'.todo = ReseedOf(skip).actions
        /\ pass'.refused = ReseedOf(skip).refused /\ pass'.later = NoPaths
        /\ mem'.agreed = NoAgreement /\ mem'.owed
        /\ missed'["host"] = missed["host"] /\ registered' = registered
    BY <2>2, <1>PlanReseedMade
  <2>4. pass'.stage = "none"
    <3>1. pass.stage = "none"  BY DEF TypeInv, StageOK
    <3> QED BY <3>1, <1>PlanReseedMade
  <2>5. LoopInv'
    <3>1. ~registered' /\ ~seeded' /\ ~lost'  BY <2>1, <2>2, <2>3, SMTT(30)
    <3> QED BY <2>0, <2>1, <2>2, <2>3, <3>1 DEF LoopInv
  <2>6. ASSUME NEW p \in Path, Announced("host", p) PROVE Announced("host", p)'
    <3>1. p \in missed["host"] \/ p \in flight["host"]  BY <2>2, <2>6 DEF Announced
    <3> QED BY <2>1, <2>3, <3>1 DEF Announced
  <2>7. ASSUME NEW s \in Side, NEW p \in Path \ (pass.undecided \cup skip), NEW v, v = SeenBy(skip)[s][p]
        PROVE  \/ s = "host" /\ Announced(s, p)'
               \/ SeenRight(s, p, v)
    <3>1. p \notin Skipped(s, skip)  BY <2>0 DEF Skipped, ReadInv
    <3>2. Probed(p)  BY <2>2 DEF Probed
    <3>3. p \in Path /\ s \in Side /\ v = SeenBy(skip)[s][p]  BY <2>7
    <3>4. \/ s = "host" /\ Announced(s, p)
          \/ SeenRight(s, p, v)
          \/ s = "guest" /\ ~Probed(p) /\ v = None
      BY <3>1, <3>3, <1>SeenTells, SMTT(30)
    <3> QED BY <2>6, <3>2, <3>3, <3>4
  <2>8. SeenBy(skip) \in [Side -> [Path -> Seen \cup {None}]]  BY ProbeSeen DEF SeenBy
  <2>9. ActInv'
    <3>1. ASSUME NEW a \in ReseedOf(skip).actions
          PROVE  Sourced(a)' /\ (a.op = "put" /\ a.data \in Dirs => Stands(a)')
      <4> DEFINE plan == ReseedOf(skip)
                 p == a.path
                 v == SeenBy(skip)["host"][p]
      <4>1. p \in Path \ (pass.undecided \cup skip) /\ a.to = "guest" /\ Warranted(a, v, None, plan.actions)
        <5>1. plan = Reseed(SeenBy(skip), pass.undecided \cup skip) /\ a \in plan.actions  BY DEF ReseedOf
        <5> HIDE DEF plan
        <5>2. a.path \in Path \ (pass.undecided \cup skip)  BY <2>8, <5>1, <2>ReseedWarranted, SMTT(30)
        <5>3. a.to = "guest"  BY <2>8, <5>1, <2>ReseedWarranted, SMTT(30)
        <5>4. Warranted(a, SeenBy(skip)["host"][a.path], None, plan.actions)
          BY <2>8, <5>1, <2>ReseedWarranted, SMTT(30)
        <5> QED BY <5>2, <5>3, <5>4
      <4>2. Announced("host", p)' \/ SeenRight("host", p, v)  BY <2>7, <4>1, Sides
      <4>3. Other(a.to) = "host"  BY <4>1, Sides
      <4>4. (Announced("host", p)' => Vacant(a)') /\ (Announced("host", p)' => Stands(a)')
        BY <4>3 DEF Vacant, Stands
      <4>5. /\ Vacant(a)' => Sourced(a)'
            /\ a.op # "remove" => Sourced(a)'
        BY <4>1 DEF Sourced
      <4> HIDE DEF plan, v
      <4>6. CASE Announced("host", p)'  BY <4>4, <4>5, <4>6
      <4>7. CASE SeenRight("host", p, v)
        <5>1. ASSUME a.op = "remove" PROVE Vacant(a)'
          <6>1. v = None \/ (v # None /\ Refused(v)) \/ \E b \in plan.actions : b.op = "put" /\ b.path = p
            BY <4>1, <5>1 DEF Warranted
          <6>2. CASE v = None
            <7>1. tree["host"][p] = None  BY <4>7, <6>2 DEF SeenRight, Right
            <7> QED BY <2>1, <4>3, <7>1 DEF Vacant, Content
          <6>3. CASE v # None /\ Refused(v)
            <7>1. Content(tree["host"][p]) \in Big  BY <4>7, <6>3 DEF SeenRight, Right
            <7> QED BY <2>1, <4>3, <7>1 DEF Vacant
          <6>4. CASE \E b \in plan.actions : b.op = "put" /\ b.path = p
            BY <2>3, <6>4 DEF Vacant, plan
          <6> QED BY <6>1, <6>2, <6>3, <6>4
        <5>2. ASSUME a.op = "put", a.data \in Dirs PROVE Stands(a)'
          <6>1. v # None /\ ~Refused(v) /\ a.data = DigestOf(v, None)  BY <4>1, <5>2 DEF Warranted
          <6>2. a.data # NoDigest  BY <5>2, DataAssumption, MarkAssumption
          <6>3. v.data \notin {Vouched, Unhashed} /\ a.data = v.data  BY <6>1, <6>2 DEF DigestOf
          <6>4. DigestOf(v, mem.agreed[p]) = v.data  BY <6>3 DEF DigestOf
          <6>5. DigestOf(v, mem.agreed[p]) \in Dirs  BY <5>2, <6>3, <6>4
          <6>6. Content(tree["host"][p]) = DigestOf(v, mem.agreed[p])  BY <4>7, <6>1, <6>5 DEF SeenRight, Right
          <6>7. Content(tree["host"][p]) = a.data  BY <6>3, <6>4, <6>6
          <6> QED BY <2>1, <4>3, <6>7 DEF Stands
        <5> QED BY <4>5, <5>1, <5>2
      <4> QED BY <4>2, <4>6, <4>7
    <3>2. \A a \in pass'.todo : Sourced(a)' /\ (a.op = "put" /\ a.data \in Dirs => Stands(a)')
      BY <2>3, <3>1
    <3> QED BY <2>4, <3>2 DEF ActInv, Active
  <2>10. ApplyInv'
    <3>1. ASSUME NEW s \in Side, NEW p \in Path PROVE Settling(s, p)'
      <4>1. CASE p \in pass.undecided \cup skip  BY <2>3, <4>1 DEF Settling
      <4>2. CASE p \notin pass.undecided \cup skip /\ Gone(At(SeenBy(skip), p))
        <5> DEFINE v == SeenBy(skip)[s][p]
        <5>1. v = None  BY <4>2, Sides DEF Gone, At
        <5>2. p \in Path \ (pass.undecided \cup skip)  BY <4>2
        <5>3. Announced(s, p)' \/ SeenRight(s, p, v)  BY <2>7, <5>2
        <5> HIDE DEF v
        <5>4. SeenRight(s, p, v) => tree[s][p] = None  BY <5>1 DEF SeenRight, Right
        <5>5. mem'.agreed[p] = None  BY <2>3 DEF NoAgreement
        <5>6. tree[s][p] = None => Fine(s, p)'  BY <2>1, <5>5 DEF Fine, Content
        <5> QED BY <5>3, <5>4, <5>6 DEF Settling
      <4>3. CASE p \notin pass.undecided \cup skip /\ ~Gone(At(SeenBy(skip), p))
        <5> DEFINE plan == ReseedOf(skip)
        <5>1. p \in Path \ (pass.undecided \cup skip)  BY <4>3
        <5>2. \/ plan.adopt[p] # None \/ p \in plan.refused
              \/ \E a \in plan.actions : a.path = p
          BY <2>8, <4>3, <5>1, ReseedCovers DEF ReseedOf
        <5> HIDE DEF plan
        <5>3. plan.adopt[p] # None \/ (\E a \in plan.actions : a.path = p) => Busy(p)'
          BY <2>3 DEF Busy, plan
        <5>4. p \in plan.refused => p \in pass'.refused  BY <2>3 DEF plan
        <5> QED BY <2>3, <5>2, <5>3, <5>4 DEF Settling
      <4> QED BY <4>1, <4>2, <4>3
    <3> QED BY <3>1 DEF ApplyInv
  <2>11. BaseInv' /\ ReadInv' /\ UndecidedInv' /\ QuietInv'
    BY <2>1, <2>3 DEF BaseInv, ReadInv, UndecidedInv, QuietInv, Quiet, AtRest
  <2> QED BY <2>5, <2>9, <2>10, <2>11 DEF SyncInv
<1> USE Zenon
<1>1. PICK skip \in SUBSET Path : IF pass.mode = "pass" THEN Plan(skip) ELSE PlanReseed(skip)
  BY DEF Probe
<1>2. pc = "read"  BY DEF Probe
<1>3. CASE pass.mode = "pass"
  <2>1. Plan(skip) /\ Deciding  BY <1>1, <1>2, <1>3 DEF Deciding
  <2> QED BY <2>1, <1>PlanSync
<1>4. CASE pass.mode # "pass"  BY <1>1, <1>2, <1>4, <1>PlanReseedSync
<1> QED BY <1>3, <1>4

===============================================================================
