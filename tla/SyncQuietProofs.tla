--------------------------- MODULE SyncQuietProofs ----------------------------
(***************************************************************************)
(* A quiet syncer is in step: whenever the loop has nothing left to do and *)
(* nothing to hear of, each path is the same on both sides, but for what   *)
(* is reported by name and for what no watch could have told.  For any     *)
(* number of paths, contents, writes, failures, restores and replies, as   *)
(* long as a restore and another command do not overlap.                   *)
(*                                                                         *)
(* QuietInStep says nothing of a loop that is busy, so it is not           *)
(* inductive.  SyncInv follows every change of a side until it is in the   *)
(* ledger: between passes, the change is on its way to the loop, or owed a *)
(* look, or shows at the next one, stamps trusted (BaseInv); when a pass   *)
(* has read the host, what it read is still so (ReadInv); while a pass is  *)
(* carried out, the path is one it works on, or names as failed, or leaves *)
(* to the next (ApplyInv), and what it places is what the other side holds *)
(* (ActInv).                                                               *)
(*                                                                         *)
(* A step of the apply is about one path.  What it leaves alone is shown   *)
(* once for all of them (AroundSync).                                      *)
(***************************************************************************)
EXTENDS WorkspaceSyncProofs

-----------------------------------------------------------------------------
(* Steps outside the pass. *)

\* While the loop is off there is nothing to keep.
LEMMA OffSync ==
    ASSUME pc' = "off", ~seeded', pass'.mode = "reseed" => pass'.later = NoPaths
    PROVE  SyncInv'
BY Zenon DEF SyncInv, LoopInv, BaseInv, ReadInv, UndecidedInv, ActInv, ApplyInv, QuietInv, Quiet, AtRest

\* Between two passes only the changes of either side matter.
LEMMA TopSync ==
    ASSUME pc' = "top", LoopInv', BaseInv', QuietInv'
    PROVE  SyncInv'
BY Zenon DEF SyncInv, ReadInv, UndecidedInv, ActInv, ApplyInv

\* What the actions of a pass are about.
ActsOn(a) == a.path \in Path /\ a.to \in Side /\ Other(a.to) \in Side

\* An action of the pass, and an adoption, is about a path.
LEMMA ActionPlaces ==
    ASSUME TypeInv
    PROVE  /\ \A a \in pass.todo : ActsOn(a)
           /\ pass.stage \in Active => ActsOn(pass.act)
           /\ pass.stage = "adopt" => pass.act.path \in Path
<1> USE Zenon
<1>1. pass.todo \subseteq Action  BY DEF TypeInv, TypeOK, Passes
<1>2. StageOK  BY DEF TypeInv
<1>3. ASSUME NEW a \in Action PROVE ActsOn(a)  BY Sides DEF Action, ActsOn
<1> QED BY <1>1, <1>2, <1>3 DEF Active, StageOK

\* Nothing announced is forgotten, and nothing else changes.
Announces == \A s \in Side, p \in Path : Announced(s, p) => Announced(s, p)'

\* While the trees, the ledger and the pass are left alone, what has been announced only
\* has to stay so.
LEMMA CarriedSync ==
    ASSUME TypeInv, SyncInv, UNCHANGED <<tree, mem, pc, rescan, dirty, pass>>, Announces
    PROVE  BaseInv' /\ ReadInv' /\ ActInv' /\ ApplyInv'
<1> USE Zenon
<1>1. /\ BaseInv /\ ReadInv /\ ActInv /\ ApplyInv
      /\ tree' = tree /\ mem' = mem /\ pc' = pc /\ rescan' = rescan /\ dirty' = dirty /\ pass' = pass
  BY DEF SyncInv
<1>0. rescan' <=> rescan  BY SMTT(30)
<1>2. ASSUME NEW s \in Side, NEW p \in Path
      PROVE  /\ Fine(s, p)' <=> Fine(s, p)
             /\ Shows(s, p)' <=> Shows(s, p)
             /\ p \in Owed(s)' <=> p \in Owed(s)
             /\ p \in Later(s)' <=> p \in Later(s)
             /\ Busy(p)' <=> Busy(p)
             /\ Cached(p)' = Cached(p)
  <2>1. Fine(s, p)' <=> Fine(s, p)  BY <1>1 DEF Fine
  <2>2. Shows(s, p)' <=> Shows(s, p)  BY <1>1 DEF Shows
  <2>3. p \in Owed(s)' <=> p \in Owed(s)  BY <1>1 DEF Owed
  <2>4. p \in Later(s)' <=> p \in Later(s)  BY <1>1 DEF Later
  <2>5. Busy(p)' <=> Busy(p)  BY <1>1 DEF Busy
  <2>6. Cached(p)' = Cached(p)  BY <1>0, <1>1 DEF Cached
  <2> QED BY <2>1, <2>2, <2>3, <2>4, <2>5, <2>6
<1>3. BaseInv'
  <2>1. ASSUME NEW s \in Side, NEW p \in Path, Accounted(s, p) PROVE Accounted(s, p)'
    BY <1>0, <1>2, <2>1 DEF Accounted, Announces
  <2> QED BY <1>1, <2>1, Sides DEF BaseInv
<1>4. ReadInv'
  <2>1. ASSUME pc = "read", NEW p \in Path
        PROVE  \/ p \in pass.skips["host"] \/ Announced("host", p)'
               \/ pass.seen[p] = Look(tree["host"][p], Cached(p)', "host")
    <3>1. \/ p \in pass.skips["host"] \/ Announced("host", p)
          \/ pass.seen[p] = Look(tree["host"][p], Cached(p), "host")
      BY <1>1, <2>1 DEF ReadInv
    <3>2. Cached(p)' = Cached(p) /\ (Announced("host", p) => Announced("host", p)')
      BY <1>2, Sides DEF Announces
    <3> QED BY <3>1, <3>2
  <2>2. pc = "read" => pass.skips["host"] \subseteq pass.undecided  BY <1>1 DEF ReadInv
  <2> QED BY <1>1, <2>1, <2>2 DEF ReadInv
<1>5. ApplyInv'
  <2>1. ASSUME NEW s \in Side, NEW p \in Path, Settling(s, p) PROVE Settling(s, p)'
    BY <1>1, <1>2, <2>1 DEF Settling, Announces
  <2> QED BY <1>1, <2>1 DEF ApplyInv
<1>6. ActInv'
  <2>1. ASSUME NEW a, ActsOn(a)
        PROVE  (Stands(a) => Stands(a)') /\ (Sourced(a) => Sourced(a)')
    <3>1. Stands(a) => Stands(a)'  BY <1>1, <2>1 DEF Stands, Announces, ActsOn
    <3>2. Vacant(a) => Vacant(a)'  BY <1>1, <2>1 DEF Vacant, Announces, ActsOn
    <3> QED BY <1>1, <3>1, <3>2 DEF Sourced
  <2>2. pc = "apply" => \A a \in pass'.todo : Sourced(a)' /\ (a.op = "put" /\ a.data \in Dirs => Stands(a)')
    BY <1>1, <2>1, ActionPlaces DEF ActInv
  <2>3. pc = "apply" /\ pass.stage \in Active => Sourced(pass.act)' /\ (pass.act.op = "put" => Stands(pass.act)')
    <3>1. pass.stage \in Active => ActsOn(pass.act)  BY ActionPlaces
    <3>2. pc = "apply" /\ pass.stage \in Active => Sourced(pass.act) /\ (pass.act.op = "put" => Stands(pass.act))
      BY <1>1 DEF ActInv
    <3> DEFINE b == pass.act
    <3>3. ActsOn(b) => (Stands(b) => Stands(b)') /\ (Sourced(b) => Sourced(b)')  BY <2>1
    <3> QED BY <1>1, <3>1, <3>2, <3>3
  <2>4. pc = "apply" /\ pass.stage = "adopt" =>
             \/ Content(tree["host"][pass.act.path]) = pass.adopt[pass.act.path].data
             \/ Announced("host", pass.act.path)'
    <3>1. pass.stage = "adopt" => pass.act.path \in Path  BY ActionPlaces
    <3> QED BY <1>1, <3>1, Sides DEF ActInv, Announces
  <2> QED BY <1>1, <2>2, <2>3, <2>4 DEF ActInv
<1> QED BY <1>3, <1>4, <1>5, <1>6

\* Questions, answers, captures and the notes of a restore change nothing that matters
\* here.
LEMMA KeptSync ==
    ASSUME TypeInv, SyncInv,
           UNCHANGED <<tree, mem, pc, rescan, seeded, watch, registered, lost, flight, dirty,
                       pass, missed>>,
           due' = due \/ due',
           op' \in {"suspended", "noted", "failed", "rewound"} => pc = "off"
    PROVE  SyncInv'
<1> USE Zenon
<1>1. Announces  BY DEF Announces, Announced
<1>2. BaseInv' /\ ReadInv' /\ ActInv' /\ ApplyInv'  BY <1>1, CarriedSync
<1>3. LoopInv'  BY DEF SyncInv, LoopInv
<1>4. UndecidedInv'  BY DEF SyncInv, UndecidedInv, Later
<1>5. QuietInv'
  <2>1. Quiet' => Quiet  BY SMTT(30) DEF Quiet, AtRest
  <2>2. QuietInv  BY DEF SyncInv
  <2>3. ASSUME NEW s \in Side, NEW p \in Path PROVE Fine(s, p)' <=> Fine(s, p)  BY DEF Fine
  <2> QED BY <2>1, <2>2, <2>3 DEF QuietInv
<1> QED BY <1>2, <1>3, <1>4, <1>5 DEF SyncInv

\* A write is announced, or the next pass walks everything (or it is the guest's, while
\* a re-seed has yet to look at it).
LEMMA WriteAnnounced ==
    ASSUME TypeInv, SyncInv, NEW side \in Side, NEW q \in Path, Write(side, q), pc # "off"
    PROVE  /\ \/ Announced(side, q)'
              \/ pc = "top" /\ (mem.owed \/ rescan)
              \/ pc = "read" /\ side = "guest" /\ mem.owed
           /\ Quiet' => q \in missed'[side]
<1> USE Zenon
<1>0. /\ LoopInv /\ pc \in {"off", "top", "read", "apply"} /\ watch \in {"none", "open", "dead"}
      /\ flight \in [Side -> SUBSET Path] /\ missed \in [Side -> SUBSET Path]
  BY DEF SyncInv, TypeInv, TypeOK, LoopOK, HistoryOK
<1>1. /\ flight' = Touched(side, q)
      /\ missed' = [missed EXCEPT ![side] = IF Uncovered(side) THEN @ \cup {q} ELSE @ \ {q}]
      /\ UNCHANGED <<mem, pc, due, rescan, watch, lost>>
  BY DEF Write
<1>2. CASE Noticed(side)
  <2>1. q \in flight'[side]  BY <1>0, <1>1, <1>2, SMTT(30) DEF Touched
  <2>2. flight'[side] # {}  BY <2>1
  <2>3. ~Quiet'  BY <2>2 DEF Quiet, AtRest, NoPaths
  <2> QED BY <2>1, <2>3 DEF Announced
<1>3. CASE Uncovered(side)
  <2>1. q \in missed'[side]  BY <1>0, <1>1, <1>3, SMTT(30)
  <2> QED BY <2>1 DEF Announced
<1>4. CASE ~Noticed(side) /\ ~Uncovered(side)
  <2>1. CASE side = "host"
    <3>1. pc = "top" /\ (mem.owed \/ rescan)  BY <1>4, <2>1 DEF Uncovered
    <3>2. ~Quiet'  BY <1>1, <3>1, SMTT(30) DEF Quiet, AtRest
    <3> QED BY <3>1, <3>2
  <2>2. CASE side = "guest"
    <3>0. "guest" # "host"  OBVIOUS
    <3>1. watch # "open"  BY <1>4, <2>2, <3>0 DEF Noticed
    <3>2. ~Quiet'  BY <1>1, <3>1 DEF Quiet, AtRest
    <3>3. CASE watch = "dead"
      <4>1. watch' = "dead"  BY <1>1, <3>3
      <4> QED BY <2>2, <3>2, <4>1 DEF Announced
    <3>4. CASE watch = "none"
      <4>1. ~seeded /\ pc # "apply"  BY <1>4, <2>2, <3>0, <3>4 DEF Uncovered, Noticed
      <4>2. pc = "top" \/ pc = "read"  BY <1>0, <4>1
      <4>3. CASE pc = "top"  BY <1>0, <3>2, <3>4, <4>1, <4>3 DEF LoopInv
      <4>4. CASE pc = "read"
        <5>1. mem.owed  BY <1>0, <3>4, <4>4 DEF LoopInv
        <5> QED BY <2>2, <3>2, <4>4, <5>1
      <4> QED BY <4>2, <4>3, <4>4
    <3> QED BY <1>0, <3>1, <3>3, <3>4
  <2> QED BY <2>1, <2>2, Sides
<1> QED BY <1>2, <1>3, <1>4

-----------------------------------------------------------------------------
(* The apply: every step of it is about one path. *)

\* The actions of the pass stay, but one of the path's own, and a placement is
\* taken up only when no removal is left.
Shrinks(q) ==
    /\ pass'.todo \subseteq pass.todo
    /\ \A b \in pass.todo :
         \/ b \in pass'.todo
         \/ b.path = q /\ (b.op = "put" => \A c \in pass.todo : c.op = "put")

\* What a step about the path q leaves alone: of the pass, and all in all.
Steps(q) ==
    /\ SamePlan(pass') /\ pass.failed \subseteq pass'.failed
    /\ \A p \in Path : p # q => pass'.adopt[p] = pass.adopt[p]
    /\ pass.act = None \/ pass.act.path = q
    /\ Shrinks(q)

\* A step of the apply about the path q.
Around(q) ==
    /\ pc = "apply" /\ UNCHANGED applyFrame /\ (mem'.owed <=> mem.owed) /\ Steps(q)
    /\ \A s \in Side : flight[s] \subseteq flight'[s]
    /\ \A p \in Path : p # q => /\ mem'.agreed[p] = mem.agreed[p]
                                /\ \A s \in Side : tree'[s][p] = tree[s][p]
    /\ \A s \in Side : \/ tree'[s][q] = tree[s][q] \/ Announced(s, q)'
                       \/ s = "guest" /\ pass.mode = "reseed"

\* The host's side of q is still accounted for.
Follows(q) ==
    \/ mem'.agreed[q] \in {mem.agreed[q], None}
    \/ Announced("host", q)' \/ Fine("host", q)'

\* The action under way relies on what holds.
Underway ==
    /\ pass.stage \in Active => Sourced(pass.act) /\ (pass.act.op = "put" => Stands(pass.act))
    /\ pass.stage = "adopt" =>
         \/ Content(tree["host"][pass.act.path]) = pass.adopt[pass.act.path].data
         \/ Announced("host", pass.act.path)

\* A step about one path leaves the loop alone.
LEMMA AroundFrame ==
    ASSUME NEW q, Around(q)
    PROVE  /\ pc' = pc /\ dirty' = dirty /\ watch' = watch /\ missed' = missed /\ op' = op
           /\ (rescan' <=> rescan) /\ (seeded' <=> seeded) /\ (registered' <=> registered)
           /\ (lost' <=> lost) /\ (mem'.owed <=> mem.owed)
<1> USE Zenon
<1>1. UNCHANGED applyFrame /\ (mem'.owed <=> mem.owed)  BY DEF Around
<1>2. /\ pc' = pc /\ dirty' = dirty /\ watch' = watch /\ missed' = missed /\ op' = op
      /\ rescan' = rescan /\ seeded' = seeded /\ registered' = registered /\ lost' = lost
  BY <1>1 DEF applyFrame, command
<1>3. /\ (rescan' <=> rescan) /\ (seeded' <=> seeded) /\ (registered' <=> registered)
      /\ (lost' <=> lost)
  BY <1>2, SMTT(30)
<1> QED BY <1>1, <1>2, <1>3

\* What is announced stays so.
LEMMA AroundAnnounced ==
    ASSUME NEW q, Around(q), NEW s \in Side, NEW p, Announced(s, p)
    PROVE  Announced(s, p)'
<1> USE Zenon
<1>1. flight[s] \subseteq flight'[s]  BY DEF Around
<1>2. missed' = missed /\ watch' = watch /\ (lost => lost')  BY AroundFrame
<1> QED BY <1>1, <1>2 DEF Announced

\* Every other path stays as settled as it was.
LEMMA AroundOthers ==
    ASSUME NEW q, Around(q), NEW s \in Side, NEW p \in Path, p # q, Settling(s, p)
    PROVE  Settling(s, p)'
<1> USE Zenon
<1>1. /\ pass'.mode = pass.mode /\ pass'.halt = pass.halt /\ pass'.refused = pass.refused
      /\ pass'.undecided = pass.undecided /\ pass'.later = pass.later
      /\ pass.failed \subseteq pass'.failed
  BY DEF Around, Steps, SamePlan
<1>2. /\ mem'.agreed[p] = mem.agreed[p] /\ pass'.adopt[p] = pass.adopt[p]
      /\ tree'[s][p] = tree[s][p]
  BY DEF Around, Steps
<1>3. Busy(p) => Busy(p)'
  <2>1. \A b \in pass.todo : b.path = p => b \in pass'.todo  BY DEF Around, Steps, Shrinks
  <2>2. pass.act # None => pass.act.path # p  BY DEF Around, Steps
  <2> QED BY <1>2, <2>1, <2>2 DEF Busy
<1>4. Announced(s, p) => Announced(s, p)'  BY AroundAnnounced
<1>5. Fine(s, p) => Fine(s, p)'  BY <1>2 DEF Fine
<1>6. Shows(s, p) => Shows(s, p)'  BY <1>2 DEF Shows
<1>7. p \in Later(s) => p \in Later(s)'  BY <1>1 DEF Later
<1> QED BY <1>1, <1>3, <1>4, <1>5, <1>6, <1>7 DEF Settling

\* What the remaining actions rely on still holds.
LEMMA AroundTodo ==
    ASSUME TypeInv, NEW q, Around(q), NEW a \in pass'.todo,
           Sourced(a), a.op = "put" /\ a.data \in Dirs => Stands(a)
    PROVE  Sourced(a)' /\ (a.op = "put" /\ a.data \in Dirs => Stands(a)')
<1> USE Zenon
<1>1. a \in pass.todo /\ pass'.mode = pass.mode  BY DEF Around, Steps, Shrinks, SamePlan
<1>2. ActsOn(a)  BY <1>1, ActionPlaces
<1> DEFINE s == Other(a.to)
           p == a.path
<1>3. s \in Side /\ p \in Path  BY <1>2 DEF ActsOn
<1>4. tree'[s][p] = tree[s][p] \/ Announced(s, p)'
  <2>1. CASE p # q  BY <1>3, <2>1 DEF Around
  <2>2. CASE p = q
    <3>1. \/ tree'[s][p] = tree[s][p] \/ Announced(s, p)'
          \/ s = "guest" /\ pass.mode = "reseed"
      BY <1>3, <2>2 DEF Around
    <3>2. s = "guest" /\ pass.mode = "reseed" => FALSE
      <4>1. pass.mode = "reseed" => a.to = "guest"  BY DEF Sourced
      <4>2. "guest" # "host"  OBVIOUS
      <4> QED BY <4>1, <4>2, Sides
    <3> QED BY <3>1, <3>2
  <2> QED BY <2>1, <2>2
<1>5. Announced(s, p) => Announced(s, p)'  BY <1>3, AroundAnnounced
<1>6. Stands(a) => Stands(a)'  BY <1>4, <1>5 DEF Stands
<1>7. a.op = "remove" /\ Vacant(a) => Vacant(a)'
  <2>1. ASSUME a.op = "remove", NEW b \in pass.todo, b.op = "put" PROVE b \in pass'.todo
    <3>1. "remove" # "put"  OBVIOUS
    <3> QED BY <1>1, <2>1, <3>1 DEF Around, Steps, Shrinks
  <2> QED BY <1>4, <1>5, <2>1 DEF Vacant
<1> QED BY <1>1, <1>6, <1>7 DEF Sourced

\* The host's side of the path stays accounted for.
LEMMA AroundFollows ==
    ASSUME TypeInv, NEW q \in Path, Around(q), Follows(q), pass.mode # "reseed", Accounted("host", q)
    PROVE  Accounted("host", q)'
\* A path of which nothing is agreed is empty or shows.
<1>UnagreedShows. ASSUME NEW copy \in Copy \cup {None}
                  PROVE  Content(copy) = None \/ Changed(Look(copy, None, "host"), None)
  <2> USE Zenon
  <2> DEFINE v == Look(copy, None, "host")
  <2>1. Shown(v, copy, None)  BY LookShows, Sides
  <2> HIDE DEF v
  <2>2. Content(copy) = None \/ Changed(v, None)  BY <2>1 DEF Shown, Content, Changed
  <2> QED BY <2>2 DEF v
<1> USE Zenon
<1>0. "host" \in Side  BY Sides
<1>1. /\ dirty' = dirty /\ (rescan' <=> rescan)
      /\ (Announced("host", q) => Announced("host", q)')
  BY <1>0, AroundFrame, AroundAnnounced
<1>2. CASE Announced("host", q)' \/ Fine("host", q)'  BY <1>2 DEF Accounted
<1>3. CASE ~Announced("host", q)' /\ ~Fine("host", q)'
  <2>1. mem'.agreed[q] \in {mem.agreed[q], None}  BY <1>3 DEF Follows
  <2>2. tree'["host"][q] = tree["host"][q]  BY <1>0, <1>3 DEF Around
  <2>3. CASE mem'.agreed[q] = mem.agreed[q]
    <3>1. Fine("host", q) => Fine("host", q)'  BY <2>2, <2>3 DEF Fine
    <3>2. Shows("host", q) => Shows("host", q)'  BY <2>2, <2>3 DEF Shows
    <3>3. q \in Owed("host") => q \in Owed("host")'  BY <1>1 DEF Owed
    <3> QED BY <1>1, <3>1, <3>2, <3>3 DEF Accounted
  <2>4. CASE mem'.agreed[q] = None
    <3>1. tree["host"][q] \in Copy \cup {None}  BY <1>0 DEF TypeInv, TypeOK, TreesOK
    <3>2. \/ Content(tree["host"][q]) = None
          \/ Changed(Look(tree["host"][q], None, "host"), None)
      BY <3>1, <1>UnagreedShows
    <3>3. Content(tree["host"][q]) # None  BY <1>3, <2>2, <2>4 DEF Fine, Content
    <3>4. "host" # "guest"  OBVIOUS
    <3>5. Shows("host", q)'  BY <2>2, <2>4, <3>2, <3>3, <3>4 DEF Shows
    <3> QED BY <3>5 DEF Accounted
  <2> QED BY <2>1, <2>3, <2>4
<1> QED BY <1>2, <1>3

\* A step of the apply that settles its own path keeps the invariant.
LEMMA AroundSync ==
    ASSUME TypeInv, SyncInv, NEW q \in Path, Around(q), Follows(q), Underway',
           \A s \in Side : Settling(s, q)'
    PROVE  SyncInv'
<1> USE Zenon
<1>0. LoopInv /\ BaseInv /\ UndecidedInv /\ ActInv /\ ApplyInv /\ pc = "apply"  BY DEF SyncInv, Around
<1>1. /\ pc' = "apply" /\ dirty' = dirty /\ watch' = watch /\ op' = op
      /\ (rescan' <=> rescan) /\ (seeded' <=> seeded) /\ (registered' <=> registered)
      /\ (lost' <=> lost) /\ (mem'.owed <=> mem.owed)
  BY <1>0, AroundFrame
<1>2. /\ pass'.mode = pass.mode /\ pass'.undecided = pass.undecided /\ pass'.later = pass.later
      /\ \A s \in Side : flight[s] \subseteq flight'[s]
  BY DEF Around, Steps, SamePlan
<1>3. LoopInv'  BY <1>0, <1>1, <1>2 DEF LoopInv
<1>4. BaseInv'
  <2>1. ASSUME ~mem.owed, NEW p \in Path PROVE Accounted("host", p)'
    <3>1. Accounted("host", p) /\ pass.mode = "pass"  BY <1>0, <2>1 DEF BaseInv, LoopInv
    <3>2. "pass" # "reseed"  OBVIOUS
    <3>3. CASE p = q  BY <3>1, <3>2, <3>3, AroundFollows
    <3>4. CASE p # q
      <4>1. mem'.agreed[p] = mem.agreed[p] /\ tree'["host"][p] = tree["host"][p]
        BY <3>4, Sides DEF Around
      <4>2. Announced("host", p) => Announced("host", p)'  BY AroundAnnounced, Sides
      <4>3. Fine("host", p) => Fine("host", p)'  BY <4>1 DEF Fine
      <4>4. Shows("host", p) => Shows("host", p)'  BY <4>1 DEF Shows
      <4>5. p \in Owed("host") => p \in Owed("host")'  BY <1>1 DEF Owed
      <4> QED BY <1>1, <3>1, <4>2, <4>3, <4>4, <4>5 DEF Accounted
    <3> QED BY <3>3, <3>4
  <2> QED BY <1>1, <2>1 DEF BaseInv
<1>5. ReadInv' /\ QuietInv'
  <2>1. "apply" # "read" /\ "apply" # "top"  OBVIOUS
  <2> QED BY <1>1, <2>1 DEF ReadInv, QuietInv, Quiet, AtRest
<1>6. UndecidedInv'
  <2>1. ASSUME pass.mode = "pass", NEW p \in pass.undecided
        PROVE  p \in Later("host")' \/ p \in flight'["host"] \cup flight'["guest"] \/ lost' \/ watch' = "dead"
    <3>1. "apply" # "read"  OBVIOUS
    <3>2. p \in Later("host") \/ p \in flight["host"] \cup flight["guest"] \/ lost \/ watch = "dead"
      BY <1>0, <2>1, <3>1 DEF UndecidedInv
    <3>3. p \in Later("host") => p \in Later("host")'  BY <1>2 DEF Later
    <3> QED BY <1>1, <1>2, <3>2, <3>3, Sides
  <2> QED BY <1>1, <1>2, <2>1 DEF UndecidedInv
<1>7. ActInv'
  <2>1. ASSUME NEW a \in pass'.todo
        PROVE  Sourced(a)' /\ (a.op = "put" /\ a.data \in Dirs => Stands(a)')
    <3>1. a \in pass.todo  BY DEF Around, Steps, Shrinks
    <3>2. Sourced(a) /\ (a.op = "put" /\ a.data \in Dirs => Stands(a))  BY <1>0, <3>1 DEF ActInv
    <3> QED BY <3>2, AroundTodo
  <2> QED BY <2>1 DEF ActInv, Underway
<1>8. ApplyInv'
  <2>1. ASSUME NEW s \in Side, NEW p \in Path PROVE Settling(s, p)'
    <3>1. Settling(s, p)  BY <1>0 DEF ApplyInv
    <3>2. CASE p = q  BY <3>2
    <3>3. CASE p # q  BY <3>1, <3>3, AroundOthers, SMTT(30)
    <3> QED BY <3>2, <3>3
  <2> QED BY <2>1 DEF ApplyInv
<1> QED BY <1>3, <1>4, <1>5, <1>6, <1>7, <1>8 DEF SyncInv

\* A step that changes only the pass.
LEMMA StepsAround ==
    ASSUME NEW q, Steps(q), pc = "apply", UNCHANGED <<tree, mem, flight, applyFrame>>
    PROVE  Around(q) /\ Follows(q)
<1> USE Zenon
<1>1. tree' = tree /\ mem' = mem /\ flight' = flight /\ UNCHANGED applyFrame  OBVIOUS
<1>2. Follows(q)  BY <1>1 DEF Follows
<1>3. mem'.owed <=> mem.owed  BY <1>1
<1> QED BY <1>1, <1>2, <1>3 DEF Around

\* A failure names its path, which the next pass then owes.
LEMMA FailedSync ==
    ASSUME TypeInv, SyncInv, NEW q \in Path, Around(q), Follows(q),
           q \in pass'.failed, pass'.stage = "none"
    PROVE  SyncInv'
<1> USE Zenon
<1>1. \A s \in Side : Settling(s, q)'  BY DEF Settling
<1>2. Underway'
  <2>1. "none" \notin Active /\ "none" # "adopt"  BY DEF Active
  <2> QED BY <2>1 DEF Underway
<1> QED BY <1>1, <1>2, AroundSync

\* A failure is a step about the path it names.
LEMMA FailSteps ==
    ASSUME pass \in Passes, NEW q \in Path, pass.act = None \/ pass.act.path = q,
           pass' = Failing(q) \/ pass' = [Failing(q) EXCEPT !.adopt[q] = None]
    PROVE  Steps(q) /\ q \in pass'.failed /\ pass'.stage = "none"
<1> USE Zenon
<1>1. /\ SamePlan(pass') /\ pass'.todo = pass.todo
      /\ pass'.failed = pass.failed \cup {q} /\ pass'.stage = "none"
      /\ \A o \in Path : o # q => pass'.adopt[o] = pass.adopt[o]
  <2>1. CASE pass' = Failing(q)  BY <2>1, FailingFields
  <2>2. CASE pass' = [Failing(q) EXCEPT !.adopt[q] = None]  BY <2>2, FailedAdoption
  <2> QED BY <2>1, <2>2
<1> QED BY <1>1 DEF Steps, Shrinks

\* A step that changes the pass and what is agreed about its path.
LEMMA MemAround ==
    ASSUME TypeInv, NEW q \in Path, Steps(q), pc = "apply", UNCHANGED <<tree, flight, applyFrame>>,
           NEW m, mem' = [mem EXCEPT !.agreed[q] = m]
    PROVE  Around(q) /\ mem'.agreed[q] = m
<1> USE Zenon
<1>1. mem \in Ledgers  BY DEF TypeInv, TypeOK, LedgersOK
<1>2. mem.agreed \in [Path -> Agreed \cup {None}]  BY <1>1 DEF Ledgers
<1>3. mem'.agreed = [mem.agreed EXCEPT ![q] = m] /\ mem'.owed = mem.owed  BY <1>1, SMTT(30) DEF Ledgers
<1>4. mem'.agreed[q] = m /\ \A p \in Path : p # q => mem'.agreed[p] = mem.agreed[p]
  BY <1>2, <1>3
<1>5. mem'.owed <=> mem.owed  BY <1>3, SMTT(30)
<1>6. tree' = tree /\ flight' = flight /\ UNCHANGED applyFrame  OBVIOUS
<1> QED BY <1>4, <1>5, <1>6 DEF Around

\* What an action under way relies on, when only the pass has moved.
LEMMA KeptSourced ==
    ASSUME TypeInv, NEW q, Around(q), tree' = tree, NEW a, ActsOn(a),
           \A b \in pass.todo : b = a \/ b \in pass'.todo
    PROVE  (Sourced(a) => Sourced(a)') /\ (Stands(a) => Stands(a)')
<1> USE Zenon
<1> DEFINE s == Other(a.to)
           p == a.path
<1>1. s \in Side /\ p \in Path  BY DEF ActsOn
<1>2. Announced(s, p) => Announced(s, p)'  BY <1>1, AroundAnnounced
<1>3. Stands(a) => Stands(a)'  BY <1>2 DEF Stands
<1>4. a.op = "remove" /\ Vacant(a) => Vacant(a)'
  <2>1. "remove" # "put"  OBVIOUS
  <2>2. a.op = "remove" => \A b \in pass.todo : b.op = "put" => b \in pass'.todo  BY <2>1
  <2> QED BY <1>2, <2>2 DEF Vacant
<1>5. pass'.mode = pass.mode  BY DEF Around, Steps, SamePlan
<1> QED BY <1>3, <1>4, <1>5 DEF Sourced

-----------------------------------------------------------------------------
(* The rename, the removal and the reading back. *)

\* One copy is replaced and its watch told, or none is.
Replaced(to, q) ==
    \/ tree' = tree /\ flight' = flight
    \/ /\ \E c : tree' = [tree EXCEPT ![to][q] = c]
       /\ flight' = Touched(to, q)

\* What is agreed about the path stays or goes.
Given(q) == mem' = mem \/ mem' = [mem EXCEPT !.agreed[q] = None]

\* What an action that is over or has failed leaves of its pass.
LEMMA OverSteps ==
    ASSUME pass \in Passes, NEW q \in Path, pass.act = None \/ pass.act.path = q,
           \/ pass' = [pass EXCEPT !.act = None, !.stage = "none"]
           \/ pass' = [pass EXCEPT !.act = None, !.stage = "none", !.expected[q] = None]
    PROVE  Steps(q) /\ pass'.stage = "none" /\ pass'.todo = pass.todo
<1> USE Zenon
<1>1. SamePlan(pass') /\ pass'.todo = pass.todo /\ pass'.failed = pass.failed
      /\ pass'.stage = "none" /\ pass'.adopt = pass.adopt
  BY OverFields
<1> QED BY <1>1 DEF Steps, Shrinks

\* The state an action asked for at its destination: nothing there, or a
\* directory that must stay.
Cleared(to, q) ==
    LET c == Content(tree'[to][q]) IN c = None \/ (q \in Standing /\ c \in Dirs)

-----------------------------------------------------------------------------
(* The end of a pass. *)

\* When everything is applied a path is settled for one of these reasons.
LEMMA AppliedSettled ==
    ASSUME TypeInv, SyncInv, Applied, NEW s \in Side, NEW p \in Path
    PROVE  \/ p \in pass.failed \/ Announced(s, p) \/ Fine(s, p) \/ p \in Later(s)
           \/ Shows(s, p) /\ (pass.halt # {} \/ p \in pass.undecided)
           \/ pass.mode = "reseed" /\ p \in pass.refused \cup pass.undecided
<1> USE Zenon
<1>1. Settling(s, p)  BY DEF SyncInv, ApplyInv, Applied
<1>2. ~Busy(p)
  <2>1. pass.adopt[p] = None /\ pass.todo = {} /\ pass.act = None  BY DEF Applied, NoAgreement
  <2> QED BY <2>1 DEF Busy
<1> QED BY <1>1, <1>2 DEF Settling

\* Between passes, with the trees and the agreements as they were.
LEMMA LedgerSame ==
    ASSUME NEW s, NEW p, tree' = tree, mem'.agreed = mem.agreed
    PROVE  (Fine(s, p) => Fine(s, p)') /\ (Shows(s, p) => Shows(s, p)')
BY Zenon DEF Fine, Shows

-----------------------------------------------------------------------------
(* Every step, and the theorem. *)

\* While the loop has not started there is nothing to keep.
LEMMA InitSync == Init => SyncInv
<1> USE Zenon
<1> SUFFICES ASSUME Init PROVE SyncInv  OBVIOUS
<1>1. pc = "off" /\ op = "none" /\ ~seeded /\ pass.mode = "none"  BY DEF Init, NoPass
<1>2. "none" \notin {"suspended", "noted", "failed", "rewound"} /\ "none" # "reseed"  OBVIOUS
<1>3. "off" \notin {"top", "read", "apply"}  OBVIOUS
<1> QED BY <1>1, <1>2, <1>3 DEF SyncInv, LoopInv, BaseInv, ReadInv, UndecidedInv, ActInv, ApplyInv,
           QuietInv, Quiet, AtRest

\* Whatever step is taken, no change of either side is forgotten, unless a restore and a
\* running loop overlap.
LEMMA StepSync ==
    ASSUME TypeInv, SyncInv, ConcurrentCommands = FALSE, [Next]_vars
    PROVE  SyncInv'
\* A watch that lost coverage or died announces everything it could have told.
<1>LossSync. ASSUME TypeInv, SyncInv, WatchDies \/ \E side \in Side : LoseCoverage(side)
             PROVE  SyncInv'
  <2> USE <1>LossSync, Zenon
  <2>0. LoopInv /\ UndecidedInv /\ TypeOK /\ flight \in [Side -> SUBSET Path]
    BY DEF SyncInv, TypeInv, TypeOK, LoopOK
  <2>1. CASE WatchDies
    <3>1. /\ watch = "open" /\ watch' = "dead" /\ flight'["host"] = flight["host"]
          /\ UNCHANGED <<tree, mem, pc, rescan, seeded, registered, lost, dirty, pass, missed, op>>
      BY <2>0, <2>1, SMTT(30) DEF WatchDies, command, ghosts, Side
    <3>2. Announces  BY <3>1, Sides DEF Announces, Announced
    <3>3. BaseInv' /\ ReadInv' /\ ActInv' /\ ApplyInv'  BY <3>1, <3>2, CarriedSync
    <3>4. LoopInv'  BY <2>0, <3>1 DEF LoopInv
    <3>5. UndecidedInv'  BY <3>1 DEF UndecidedInv
    <3>6. QuietInv'  BY <3>1 DEF QuietInv, Quiet, AtRest
    <3> QED BY <3>3, <3>4, <3>5, <3>6 DEF SyncInv
  <2>2. ASSUME NEW side \in Side, LoseCoverage(side) PROVE SyncInv'
    <3>1. /\ pc # "off" /\ (registered \/ watch = "open") /\ lost'
          /\ UNCHANGED <<tree, mem, pc, rescan, seeded, watch, registered, dirty, pass, missed, op>>
      BY <2>2, SMTT(30) DEF LoseCoverage, Noticed, command, ghosts
    <3>2. Announces  BY <3>1 DEF Announces, Announced
    <3>3. BaseInv' /\ ReadInv' /\ ActInv' /\ ApplyInv'  BY <3>1, <3>2, CarriedSync
    <3>4. LoopInv'  BY <2>0, <3>1 DEF LoopInv
    <3>5. UndecidedInv'  BY <3>1 DEF UndecidedInv
    <3>6. QuietInv'  BY <3>1 DEF QuietInv, Quiet, AtRest
    <3> QED BY <3>3, <3>4, <3>5, <3>6 DEF SyncInv
  <2> QED BY <2>1, <2>2

\* What the loop hears between two passes it notes down.
<1>WakingSync. ASSUME TypeInv, SyncInv, Waking \/ OpenWatch
               PROVE  SyncInv'
  <2> USE <1>WakingSync, Zenon
  <2>0. /\ LoopInv /\ BaseInv /\ TypeOK
        /\ flight \in [Side -> SUBSET Path] /\ dirty \in [Side -> SUBSET Path]
    BY DEF SyncInv, TypeInv, TypeOK, LoopOK
  <2>1. ASSUME NEW side \in Side, NEW q \in Path, Settle(side, q) PROVE SyncInv'
    <3>1. /\ pc = "top" /\ due'
          /\ UNCHANGED <<tree, mem, pc, rescan, seeded, watch, registered, lost, pass, missed, op>>
      BY <2>1, SMTT(30) DEF Settle, command, ghosts
    <3>2. \A s \in Side, p \in Path :
            /\ p \in dirty[s] => p \in dirty'[s]
            /\ p \in flight[s] => p \in flight'[s] \/ p \in dirty'[s]
      BY <2>0, <2>1, SMTT(30) DEF Settle
    <3>3. LoopInv'  BY <2>0, <3>1 DEF LoopInv
    <3>4. ASSUME NEW s \in Side, NEW p \in Path, Accounted(s, p) PROVE Accounted(s, p)'
      <4>1. p \in Owed(s) => p \in Owed(s)'  BY <3>2, Sides DEF Owed
      <4>2. Fine(s, p) => Fine(s, p)'  BY <3>1 DEF Fine
      <4>3. Shows(s, p) => Shows(s, p)'  BY <3>1 DEF Shows
      <4>4. p \in flight[s] => p \in flight'[s] \/ p \in Owed(s)'  BY <3>2, Sides DEF Owed
      <4>5. Announced(s, p) => Announced(s, p)' \/ p \in Owed(s)'
        BY <3>1, <4>4, SMTT(30) DEF Announced
      <4>6. rescan => rescan'  BY <3>1, SMTT(30)
      <4> QED BY <3>4, <4>1, <4>2, <4>3, <4>5, <4>6 DEF Accounted
    <3>5. BaseInv'  BY <2>0, <3>1, <3>4, Sides DEF BaseInv
    <3>6. QuietInv'  BY <3>1 DEF QuietInv, Quiet, AtRest
    <3> QED BY <3>1, <3>3, <3>5, <3>6, TopSync
  <2>2. CASE HearOfLoss
    <3>1. /\ pc = "top" /\ lost /\ rescan' /\ ~lost'
          /\ UNCHANGED <<mem, pc, seeded, watch, registered, pass, op>>
      BY <2>2, SMTT(30) DEF HearOfLoss, command
    <3>2. LoopInv'  BY <2>0, <3>1 DEF LoopInv
    <3>3. BaseInv' /\ QuietInv'  BY <3>1 DEF BaseInv, Accounted, QuietInv, Quiet, AtRest
    <3> QED BY <3>1, <3>2, <3>3, TopSync
  <2>3. CASE DropWatch
    <3>1. /\ pc = "top" /\ watch = "dead" /\ watch' = "none" /\ rescan'
          /\ UNCHANGED <<mem, pc, seeded, registered, lost, pass, op>>
      BY <2>3, SMTT(30) DEF DropWatch, command
    <3>2. LoopInv'  BY <2>0, <3>1 DEF LoopInv
    <3>3. BaseInv' /\ QuietInv'  BY <3>1 DEF BaseInv, Accounted, QuietInv, Quiet, AtRest
    <3> QED BY <3>1, <3>2, <3>3, TopSync
  <2>4. CASE OpenWatch
    <3>1. /\ pc = "top" /\ ~mem.owed /\ watch = "none" /\ watch' = "open" /\ ~seeded' /\ due'
          /\ UNCHANGED <<tree, mem, pc, registered, lost, flight, dirty, pass, missed, op>>
      BY <2>4, SMTT(30) DEF OpenWatch, command, ghosts
    <3>2. LoopInv'  BY <2>0, <3>1 DEF LoopInv
    <3>3. CASE ~seeded
      <4>0. rescan' = ~seeded  BY <2>4 DEF OpenWatch
      <4>1. rescan'  BY <3>3, <4>0
      <4> QED BY <3>1, <3>2, <4>1, TopSync DEF BaseInv, Accounted, QuietInv, Quiet, AtRest
    <3>4. CASE seeded
      <4>1. ~rescan  BY <2>0, <3>4 DEF LoopInv
      <4>2. ASSUME NEW s \in Side, NEW p \in Path, Accounted(s, p) PROVE Accounted(s, p)'
        <5>1. p \in Owed(s) => p \in Owed(s)'  BY <3>1 DEF Owed
        <5>2. Fine(s, p) => Fine(s, p)'  BY <3>1 DEF Fine
        <5>3. Shows(s, p) => Shows(s, p)'  BY <3>1 DEF Shows
        <5>4. Announced(s, p) => Announced(s, p)'  BY <3>1, SMTT(30) DEF Announced
        <5> QED BY <4>1, <4>2, <5>1, <5>2, <5>3, <5>4 DEF Accounted
      <4>3. BaseInv'  BY <2>0, <3>1, <4>2, Sides DEF BaseInv
      <4>4. QuietInv'  BY <3>1 DEF QuietInv, Quiet, AtRest
      <4> QED BY <3>1, <3>2, <4>3, <4>4, TopSync
    <3> QED BY <3>3, <3>4
  <2> QED BY <2>1, <2>2, <2>3, <2>4 DEF Waking

\* A developer writes.
<1>WriteSync. ASSUME TypeInv, SyncInv, NEW side \in Side, NEW q \in Path, Write(side, q)
              PROVE  SyncInv'
  <2> USE <1>WriteSync, Zenon
  <2>0. /\ LoopInv /\ BaseInv /\ ReadInv /\ UndecidedInv /\ ActInv /\ ApplyInv /\ QuietInv
        /\ tree \in [Side -> [Path -> Copy \cup {None}]]
        /\ flight \in [Side -> SUBSET Path] /\ missed \in [Side -> SUBSET Path]
    BY DEF SyncInv, TypeInv, TypeOK, LoopOK, HistoryOK, TreesOK
  <2>1. /\ flight' = Touched(side, q)
        /\ missed' = [missed EXCEPT ![side] = IF Uncovered(side) THEN @ \cup {q} ELSE @ \ {q}]
        /\ \E c \in Copy \cup {None} : tree' = [tree EXCEPT ![side][q] = c]
        /\ UNCHANGED <<mem, pc, due, rescan, seeded, watch, registered, lost, dirty, pass, op>>
    BY DEF Write, command
  <2>a. /\ mem' = mem /\ pc' = pc /\ watch' = watch /\ dirty' = dirty /\ pass' = pass
        /\ (rescan' <=> rescan) /\ (lost' <=> lost) /\ op' = op
    BY <2>1, SMTT(30)
  <2>2. CASE pc = "off"
    <3>1. pc' = "off" /\ ~seeded' /\ (pass'.mode = "reseed" => pass'.later = NoPaths)
      BY <2>0, <2>1, <2>2 DEF LoopInv
    <3> QED BY <3>1, OffSync
  <2>3. CASE pc # "off"
    <3>1. /\ \/ Announced(side, q)'
             \/ pc = "top" /\ (mem.owed \/ rescan)
             \/ pc = "read" /\ side = "guest" /\ mem.owed
          /\ Quiet' => q \in missed'[side]
      BY <2>3, WriteAnnounced
    <3>2. /\ \A s \in Side, p \in Path : s # side \/ p # q => tree'[s][p] = tree[s][p]
          /\ \A s \in Side, p \in Path : p \in flight[s] => p \in flight'[s]
          /\ \A s \in Side, p \in Path : (s # side \/ p # q) /\ p \in missed[s] => p \in missed'[s]
      <4>1. \A s \in Side, p \in Path : s # side \/ p # q => tree'[s][p] = tree[s][p]
        BY <2>0, <2>1, SMTT(30)
      <4>2. \A s \in Side, p \in Path : p \in flight[s] => p \in flight'[s]
        BY <2>0, <2>1, SMTT(30) DEF Touched
      <4>3. \A s \in Side, p \in Path : (s # side \/ p # q) /\ p \in missed[s] => p \in missed'[s]
        BY <2>0, <2>1, SMTT(30)
      <4> QED BY <4>1, <4>2, <4>3
    <3>3. ASSUME NEW s \in Side, NEW p \in Path, s # side \/ p # q
          PROVE  /\ tree'[s][p] = tree[s][p]
                 /\ Announced(s, p) => Announced(s, p)'
                 /\ Fine(s, p) => Fine(s, p)'
                 /\ Shows(s, p) => Shows(s, p)'
      <4>1. tree'[s][p] = tree[s][p]  BY <3>2, <3>3
      <4>2. Announced(s, p) => Announced(s, p)'  BY <2>a, <3>2, <3>3 DEF Announced
      <4>3. Fine(s, p) => Fine(s, p)'  BY <2>a, <4>1 DEF Fine
      <4>4. Shows(s, p) => Shows(s, p)'  BY <2>a, <4>1 DEF Shows
      <4> QED BY <4>1, <4>2, <4>3, <4>4
    <3>4. LoopInv'  BY <2>0, <2>1 DEF LoopInv
    <3>5. BaseInv'
      <4>1. ASSUME NEW s \in Side, NEW p \in Path, Accounted(s, p), ~mem.owed,
                   s # side \/ p # q \/ Announced(side, q)' \/ rescan
            PROVE  Accounted(s, p)'
        <5>1. p \in Owed(s) => p \in Owed(s)'  BY <2>a DEF Owed
        <5>2. CASE s # side \/ p # q  BY <2>a, <3>3, <4>1, <5>1, <5>2 DEF Accounted
        <5>3. CASE s = side /\ p = q  BY <2>a, <4>1, <5>3 DEF Accounted
        <5> QED BY <5>2, <5>3
      <4> QED BY <2>0, <2>a, <3>1, <4>1, Sides DEF BaseInv
    <3>6. ReadInv'
      <4>1. CASE pc # "read"  BY <2>a, <4>1 DEF ReadInv
      <4>2. CASE pc = "read"
        <5>1. ASSUME NEW p \in Path
              PROVE  \/ p \in pass.skips["host"] \/ Announced("host", p)'
                     \/ pass.seen[p] = Look(tree'["host"][p], Cached(p)', "host")
          <6>1. \/ p \in pass.skips["host"] \/ Announced("host", p)
                \/ pass.seen[p] = Look(tree["host"][p], Cached(p), "host")
            BY <2>0, <4>2 DEF ReadInv
          <6>2. Cached(p)' = Cached(p)  BY <2>a DEF Cached
          <6>3. CASE side # "host" \/ p # q  BY <3>3, <6>1, <6>2, <6>3, Sides
          <6>4. CASE side = "host" /\ p = q
            <7>1. Announced(side, q)'  BY <3>1, <4>2, <6>4
            <7> QED BY <6>4, <7>1
          <6> QED BY <6>3, <6>4
        <5>2. pass.skips["host"] \subseteq pass.undecided  BY <2>0, <4>2 DEF ReadInv
        <5> QED BY <2>a, <5>1, <5>2 DEF ReadInv
      <4> QED BY <4>1, <4>2
    <3>7. UndecidedInv'
      BY <2>0, <2>a, <3>2, Sides DEF UndecidedInv, Later
    <3>8. ASSUME pc = "apply" PROVE ActInv' /\ ApplyInv'
      <4>1. Announced(side, q)'  BY <3>1, <3>8
      <4>2. ASSUME NEW s \in Side, NEW p \in Path
            PROVE  Announced(s, p)' \/ (/\ tree'[s][p] = tree[s][p]
                                        /\ Announced(s, p) => Announced(s, p)'
                                        /\ Fine(s, p) => Fine(s, p)'
                                        /\ Shows(s, p) => Shows(s, p)')
        BY <3>3, <4>1
      <4>3. ApplyInv'
        <5>1. ASSUME NEW s \in Side, NEW p \in Path PROVE Settling(s, p)'
          <6>1. Settling(s, p)  BY <2>0, <3>8 DEF ApplyInv
          <6>2. Busy(p) => Busy(p)'  BY <2>a DEF Busy
          <6>3. p \in Later(s) => p \in Later(s)'  BY <2>a DEF Later
          <6> QED BY <2>a, <4>2, <6>1, <6>2, <6>3 DEF Settling
        <5> QED BY <2>a, <5>1 DEF ApplyInv
      <4>4. ActInv'
        <5>1. ASSUME NEW a, ActsOn(a)
              PROVE  (Stands(a) => Stands(a)') /\ (Sourced(a) => Sourced(a)')
          <6>1. Stands(a) => Stands(a)'  BY <4>2, <5>1 DEF Stands, ActsOn
          <6>2. Vacant(a) => Vacant(a)'  BY <2>a, <4>2, <5>1 DEF Vacant, ActsOn
          <6> QED BY <2>a, <6>1, <6>2 DEF Sourced
        <5>2. \A a \in pass'.todo : Sourced(a)' /\ (a.op = "put" /\ a.data \in Dirs => Stands(a)')
          BY <2>0, <2>a, <3>8, <5>1, ActionPlaces DEF ActInv
        <5>3. pass.stage \in Active => Sourced(pass.act)' /\ (pass.act.op = "put" => Stands(pass.act)')
          <6> DEFINE b == pass.act
          <6>1. pass.stage \in Active => ActsOn(b)  BY ActionPlaces
          <6>2. pass.stage \in Active => Sourced(b) /\ (b.op = "put" => Stands(b))
            BY <2>0, <3>8 DEF ActInv
          <6>3. b' = b  BY <2>a
          <6>4. ActsOn(b) => (Stands(b) => Stands(b)') /\ (Sourced(b) => Sourced(b)')
            BY <5>1, <6>3
          <6> QED BY <6>1, <6>2, <6>3, <6>4
        <5>4. pass.stage = "adopt" =>
                   \/ Content(tree'["host"][pass.act.path]) = pass.adopt[pass.act.path].data
                   \/ Announced("host", pass.act.path)'
          <6> DEFINE r == pass.act.path
          <6>1. pass.stage = "adopt" => r \in Path  BY ActionPlaces
          <6>2. pass.stage = "adopt" => Content(tree["host"][r]) = pass.adopt[r].data \/ Announced("host", r)
            BY <2>0, <3>8 DEF ActInv
          <6>3. r' = r  BY <2>a
          <6>4. r \in Path => \/ Announced("host", r)'
                             \/ /\ tree'["host"][r] = tree["host"][r]
                                /\ Announced("host", r) => Announced("host", r)'
            BY <4>2, <6>3, Sides
          <6>5. tree'["host"][r] = tree["host"][r] => Content(tree'["host"][r]) = Content(tree["host"][r])
            OBVIOUS
          <6>6. pass.stage = "adopt" => Content(tree'["host"][r]) = pass.adopt[r].data \/ Announced("host", r)'
            BY <6>1, <6>2, <6>4, <6>5
          <6> QED BY <6>6
        <5> QED BY <2>a, <5>2, <5>3, <5>4 DEF ActInv
      <4> QED BY <4>3, <4>4
    <3>9. QuietInv'
      <4>1. CASE ~Quiet'  BY <4>1 DEF QuietInv
      <4>2. CASE Quiet'
        <5>1. Quiet
          <6>1. flight = NoPaths
            <7>1. \A s \in Side : flight'[s] = {}  BY <4>2 DEF Quiet, AtRest, NoPaths
            <7>2. \A s \in Side : flight[s] = {}  BY <2>0, <3>2, <7>1
            <7> QED BY <2>0, <7>2, SMTT(30) DEF NoPaths
          <6> QED BY <2>1, <4>2, <6>1, SMTT(30) DEF Quiet, AtRest
        <5>2. ASSUME NEW s \in Side, NEW p \in Path PROVE p \in missed'[s] \/ Fine(s, p)'
          <6>1. p \in missed[s] \/ Fine(s, p)  BY <2>0, <5>1 DEF QuietInv
          <6>2. CASE s # side \/ p # q  BY <3>2, <3>3, <6>1, <6>2
          <6>3. CASE s = side /\ p = q  BY <3>1, <4>2, <6>3
          <6> QED BY <6>2, <6>3
        <5> QED BY <5>2 DEF QuietInv
      <4> QED BY <4>1, <4>2
    <3>10. pc # "apply" => ActInv' /\ ApplyInv'  BY <2>a DEF ActInv, ApplyInv
    <3>11. ActInv' /\ ApplyInv'  BY <3>8, <3>10
    <3> QED BY <3>4, <3>5, <3>6, <3>7, <3>9, <3>11 DEF SyncInv
  <2> QED BY <2>2, <2>3

\* A pass begins: what it trusts a stamp for stays unread.
<1>ReadSync. ASSUME TypeInv, SyncInv, BeginReseed \/ BeginPass
             PROVE  SyncInv'
  <2> USE <1>ReadSync, Zenon
  <2>0. /\ LoopInv /\ BaseInv
        /\ tree \in [Side -> [Path -> Copy \cup {None}]] /\ mem.agreed \in [Path -> Agreed \cup {None}]
        /\ missed \in [Side -> SUBSET Path]
    BY DEF SyncInv, TypeInv, TypeOK, TreesOK, LedgersOK, Ledgers, HistoryOK
  <2> DEFINE mode == IF mem.owed THEN "reseed" ELSE "pass"
  <2>1. /\ pc = "top" /\ pc' = "read" /\ (mem.owed \/ watch # "none")
        /\ UNCHANGED <<tree, mem, rescan, seeded, watch, registered, lost, flight, dirty, op>>
    BY DEF BeginReseed, BeginPass, Read, command
  <2>a. /\ mem' = mem /\ tree' = tree /\ watch' = watch /\ flight' = flight /\ dirty' = dirty
        /\ (rescan' <=> rescan) /\ (lost' <=> lost)
    BY <2>1, SMTT(30)
  <2>2. \E cached \in [Path -> Agreed \cup {None}], flying \in SUBSET (flight["host"] \cup flight["guest"]) :
           /\ Read(mode, cached, flying)
           /\ mem.owed => cached = NoAgreement
           /\ ~mem.owed => cached = [p \in Path |-> Cached(p)]
    <3>1. CASE BeginReseed
      <4>1. mem.owed /\ Read("reseed", NoAgreement, {})  BY <3>1 DEF BeginReseed
      <4>2. NoAgreement \in [Path -> Agreed \cup {None}]  BY DEF NoAgreement
      <4> QED BY <4>1, <4>2
    <3>2. CASE BeginPass
      <4>1. ~mem.owed /\ \E flying \in SUBSET (flight["host"] \cup flight["guest"]) :
                           Read("pass", [p \in Path |-> Cached(p)], flying)
        BY <3>2 DEF BeginPass
      <4>2. [p \in Path |-> Cached(p)] \in [Path -> Agreed \cup {None}]  BY <2>0 DEF Cached
      <4> HIDE DEF mode
      <4>3. mode = "pass"  BY <4>1 DEF mode
      <4> QED BY <4>1, <4>2, <4>3
    <3> QED BY <3>1, <3>2
  <2>3. PICK cached \in [Path -> Agreed \cup {None}], flying \in SUBSET (flight["host"] \cup flight["guest"]) :
           /\ Read(mode, cached, flying)
           /\ mem.owed => cached = NoAgreement
           /\ ~mem.owed => cached = [p \in Path |-> Cached(p)]
    BY <2>2
  <2>4. PICK skip \in SUBSET Path :
          LET seen == ReadHost(cached, skip) IN
            /\ pass' = [NoPass EXCEPT
                          !.mode = mode, !.seen = seen,
                          !.skips["host"] = skip, !.undecided = flying \cup skip,
                          !.taken = IF mode = "pass" THEN resolved ELSE NoAnswers]
            /\ missed' = [missed EXCEPT !["host"] =
                            {p \in @ : p \in skip \/ (seen[p] # None /\ seen[p].data = Vouched)}]
    BY <2>3 DEF Read
  <2> DEFINE seen == ReadHost(cached, skip)
  <2>5. /\ pass'.mode = mode /\ pass'.seen = seen /\ pass'.undecided = flying \cup skip
        /\ pass'.later = NoPaths /\ pass'.skips["host"] = skip
    BY <2>4, SMTT(30) DEF NoPass, NoPaths, Side
  <2>6. /\ missed'["guest"] = missed["guest"]
        /\ \A p \in missed["host"] :
              p \in missed'["host"] \/ (p \notin skip /\ ~(seen[p] # None /\ seen[p].data = Vouched))
    BY <2>0, <2>4, SMTT(30) DEF Side
  <2>7. \A p \in Path : p \notin skip => seen[p] = Look(tree["host"][p], cached[p], "host")
    BY DEF ReadHost
  <2>8. mode = "reseed" <=> mem.owed  OBVIOUS
  <2> HIDE DEF seen, mode
  <2>9. ASSUME NEW p \in Path PROVE cached[p] = Cached(p)'
    <3>1. CASE mem.owed
      <4>1. cached[p] = None  BY <2>3, <3>1 DEF NoAgreement
      <4>2. pass'.mode = "reseed"  BY <2>5, <2>8, <3>1
      <4> QED BY <4>1, <4>2 DEF Cached
    <3>2. CASE ~mem.owed
      <4>1. cached[p] = Cached(p)  BY <2>3, <3>2
      <4>2. pass'.mode # "reseed" /\ pass.mode # "reseed"  BY <2>0, <2>1, <2>5, <2>8, <3>2 DEF LoopInv
      <4>3. Cached(p)' = Cached(p)  BY <2>a, <4>2 DEF Cached
      <4> QED BY <4>1, <4>3
    <3> QED BY <3>1, <3>2
  <2>10. LoopInv'
    <3>1. ~seeded  BY <2>0, <2>1 DEF LoopInv
    <3>2. pass'.mode = IF mem.owed THEN "reseed" ELSE "pass"  BY <2>5 DEF mode
    <3> QED BY <2>0, <2>1, <2>5, <3>1, <3>2 DEF LoopInv
  <2>11. BaseInv'
    <3>1. ASSUME NEW s \in Side, NEW p \in Path
          PROVE  /\ Fine(s, p) => Fine(s, p)'
                 /\ Shows(s, p) => Shows(s, p)'
                 /\ p \in Owed(s) => p \in Owed(s)'
                 /\ Announced(s, p) => Announced(s, p)' \/ (s = "host" /\ p \in missed["host"])
      <4>1. Fine(s, p) => Fine(s, p)'  BY <2>a DEF Fine
      <4>2. Shows(s, p) => Shows(s, p)'  BY <2>a DEF Shows
      <4>3. p \in Owed(s) => p \in Owed(s)'  BY <2>a DEF Owed
      <4>4. Announced(s, p) => Announced(s, p)' \/ (s = "host" /\ p \in missed["host"])
        BY <2>a, <2>6, Sides DEF Announced
      <4> QED BY <4>1, <4>2, <4>3, <4>4
    <3>2. ASSUME NEW s \in Side, NEW p \in Path, Accounted(s, p), ~mem.owed PROVE Accounted(s, p)'
      <4>1. CASE ~(s = "host" /\ p \in missed["host"])
        BY <2>a, <3>1, <3>2, <4>1 DEF Accounted
      <4>2. CASE s = "host" /\ p \in missed'["host"]
        BY <4>2 DEF Accounted, Announced
      <4>3. CASE s = "host" /\ p \in missed["host"] /\ p \notin missed'["host"]
        <5> DEFINE v == seen[p]  copy == tree["host"][p]  was == mem.agreed[p]
        <5>1. p \notin skip /\ ~(v # None /\ v.data = Vouched)  BY <2>6, <4>3
        <5>2. v = Look(copy, cached[p], "host")  BY <2>7, <5>1
        <5>3. cached[p] \in {None, was} /\ copy \in Copy \cup {None} /\ was \in Agreed \cup {None}
          <6>1. Cached(p)' \in {None, mem'.agreed[p]}  BY DEF Cached
          <6>2. cached[p] \in {None, mem.agreed[p]}  BY <2>9, <2>a, <6>1
          <6>3. tree["host"] \in [Path -> Copy \cup {None}]  BY <2>0, Sides
          <6>4. tree["host"][p] \in Copy \cup {None}  BY <6>3
          <6>5. mem.agreed[p] \in Agreed \cup {None}  BY <2>0
          <6> QED BY <6>2, <6>4, <6>5
        <5>4. cached[p] = was \/ rescan \/ p \in Owed("host")
          <6>1. pass'.mode # "reseed"  BY <2>5, <2>8, <3>2
          <6> QED BY <2>9, <2>a, <6>1 DEF Cached, Owed
        <5>5. Changed(Look(copy, was, "host"), was) => Shows("host", p)  BY DEF Shows
        <5>6. Content(copy) = Content(was) => Fine("host", p)  BY DEF Fine
        <5> HIDE DEF v, copy, was
        <5>7. CASE ~Changed(v, was)
          <6>0. Right(copy, was, cached[p], v, "host")  BY <5>2, <5>3, LookRight, Sides
          <6>1. Content(copy) = Content(was)  BY <5>1, <5>7, <6>0 DEF Right, Trusted
          <6> QED BY <3>1, <4>3, <5>6, <6>1 DEF Accounted
        <5>8. CASE Changed(v, was)
          <6>1. Shows("host", p) \/ rescan \/ p \in Owed("host")  BY <5>2, <5>4, <5>5, <5>8
          <6> QED BY <2>a, <3>1, <4>3, <6>1 DEF Accounted
        <5> QED BY <5>7, <5>8
      <4> QED BY <4>1, <4>2, <4>3
    <3> QED BY <2>0, <2>1, <2>a, <3>2, Sides DEF BaseInv
  <2>12. ReadInv'
    <3>1. ASSUME NEW p \in Path
          PROVE  p \in pass'.skips["host"] \/ pass'.seen[p] = Look(tree'["host"][p], Cached(p)', "host")
      BY <2>5, <2>7, <2>9, <2>a
    <3>2. pass'.skips["host"] \subseteq pass'.undecided  BY <2>5
    <3> QED BY <3>1, <3>2 DEF ReadInv
  <2>13. UndecidedInv'
    BY <2>1, <2>5, <2>a DEF UndecidedInv
  <2>14. ActInv' /\ ApplyInv' /\ QuietInv'
    BY <2>1 DEF ActInv, ApplyInv, QuietInv, Quiet, AtRest
  <2> QED BY <2>10, <2>11, <2>12, <2>13, <2>14 DEF SyncInv

\* A pass that could not reach the guest is owed again.
<1>PassFailsSync. ASSUME TypeInv, SyncInv, PassFails
                  PROVE  SyncInv'
  <2> USE <1>PassFailsSync, Zenon
  <2>0. LoopInv /\ BaseInv  BY DEF SyncInv
  <2>1. /\ pc = "read" /\ pc' = "top" /\ pass' = NoPass
        /\ registered' = (registered \/ pass.mode = "pass")
        /\ UNCHANGED <<tree, mem, rescan, seeded, watch, lost, flight, dirty, missed, op>>
    BY DEF PassFails, Abandon, command
  <2>2. due' /\ pass'.mode = "none"  BY SMTT(30) DEF PassFails, Abandon, NoPass
  <2>a. /\ mem' = mem /\ tree' = tree /\ watch' = watch /\ flight' = flight /\ dirty' = dirty
        /\ (rescan' <=> rescan) /\ (lost' <=> lost) /\ missed' = missed
    BY <2>1, SMTT(30)
  <2>3. LoopInv'
    <3>1. ~seeded  BY <2>0, <2>1 DEF LoopInv
    <3>2. mem.owed => ~registered /\ watch = "none" /\ ~lost /\ pass.mode = "reseed"  BY <2>0, <2>1 DEF LoopInv
    <3>3. ~mem.owed => watch # "none"  BY <2>0, <2>1 DEF LoopInv
    <3>4. mem.owed => ~registered'  BY <2>1, <3>2
    <3> QED BY <2>0, <2>1, <2>2, <3>1, <3>2, <3>3, <3>4 DEF LoopInv
  <2>4. ASSUME NEW s \in Side, NEW p \in Path, Accounted(s, p) PROVE Accounted(s, p)'
    <3>1. Fine(s, p) => Fine(s, p)'  BY <2>a DEF Fine
    <3>2. Shows(s, p) => Shows(s, p)'  BY <2>a DEF Shows
    <3>3. p \in Owed(s) => p \in Owed(s)'  BY <2>a DEF Owed
    <3>4. Announced(s, p) => Announced(s, p)'  BY <2>a DEF Announced
    <3> QED BY <2>4, <2>a, <3>1, <3>2, <3>3, <3>4 DEF Accounted
  <2>5. BaseInv'  BY <2>0, <2>1, <2>4, <2>a, Sides DEF BaseInv
  <2>6. QuietInv'  BY <2>2 DEF QuietInv, Quiet, AtRest
  <2> QED BY <2>1, <2>3, <2>5, <2>6, TopSync

\* An operation that fails (apply.rs: the action is put on the failed list).
<1>FailsSync. ASSUME TypeInv, SyncInv, Fails
              PROVE  SyncInv'
  <2> USE <1>FailsSync, Zenon
  <2>0. pass \in Passes /\ pass.act # None  BY DEF TypeInv, TypeOK, Fails
  <2>1. PICK q \in Path : q = pass.act.path
    <3>1. pass.act \in Action \cup [op : {"adopt"}, path : Path]  BY <2>0 DEF Passes
    <3> QED BY <3>1 DEF Action
  <2>2. /\ pc = "apply" /\ UNCHANGED <<tree, flight, applyFrame>>
        /\ pass' = [Failing(q) EXCEPT !.adopt[q] = None]
        /\ mem' = mem \/ mem' = [mem EXCEPT !.agreed[q] = None]
    BY <2>1 DEF Fails
  <2>3. Steps(q) /\ q \in pass'.failed /\ pass'.stage = "none"  BY <2>0, <2>1, <2>2, FailSteps
  <2>4. CASE mem' = mem
    <3>1. Around(q) /\ Follows(q)  BY <2>2, <2>3, <2>4, StepsAround
    <3> QED BY <2>3, <3>1, FailedSync
  <2>5. CASE mem' = [mem EXCEPT !.agreed[q] = None]
    <3>1. Around(q) /\ mem'.agreed[q] = None  BY <2>2, <2>3, <2>5, MemAround
    <3>2. Follows(q)  BY <3>1 DEF Follows
    <3> QED BY <2>3, <3>1, <3>2, FailedSync
  <2> QED BY <2>2, <2>4, <2>5

\* A match to adopt is verified on the host, or has failed.
<1>AdoptHostSync. ASSUME TypeInv, SyncInv, NEW q \in Path, AdoptHost(q)
                  PROVE  SyncInv'
  <2> USE <1>AdoptHostSync, Zenon
  <2> DEFINE m == pass.adopt[q]
             want == [kind |-> KindOf(m.data), data |-> m.data, stamp |-> m.stamp["host"]]
  <2>1. /\ pc = "apply" /\ pass.act = None /\ m # None /\ UNCHANGED <<tree, mem, flight, applyFrame>>
        /\ pass' = IF Verified(tree["host"][q], want)
                   THEN [pass EXCEPT !.act = [op |-> "adopt", path |-> q], !.stage = "adopt"]
                   ELSE [Failing(q) EXCEPT !.adopt[q] = None]
    BY DEF AdoptHost
  <2>2. pass \in Passes  BY DEF TypeInv, TypeOK
  <2>3. CASE ~Verified(tree["host"][q], want)
    <3>1. Steps(q) /\ q \in pass'.failed /\ pass'.stage = "none"  BY <2>1, <2>2, <2>3, FailSteps
    <3>2. Around(q) /\ Follows(q)  BY <2>1, <3>1, StepsAround
    <3> QED BY <3>1, <3>2, FailedSync
  <2>4. CASE Verified(tree["host"][q], want)
    <3>1. pass' = [pass EXCEPT !.act = [op |-> "adopt", path |-> q], !.stage = "adopt"]  BY <2>1, <2>4
    <3>2. /\ SamePlan(pass') /\ pass'.todo = pass.todo /\ pass'.failed = pass.failed
          /\ pass'.stage = "adopt" /\ pass'.adopt = pass.adopt
          /\ pass'.act = [op |-> "adopt", path |-> q]
      BY <2>2, <3>1 DEF SamePlan, Passes
    <3>3. Steps(q)  BY <2>1, <3>2 DEF Steps, Shrinks
    <3>4. Around(q) /\ Follows(q)  BY <2>1, <3>3, StepsAround
    <3>5. \A s \in Side : Settling(s, q)'  BY <2>1, <3>2 DEF Settling, Busy
    <3>6. Content(tree["host"][q]) = m.data
      <4>1. tree["host"][q] \in Copy \cup {None}  BY Sides, SMTT(30) DEF TypeInv, TypeOK, TreesOK
      <4>2. m \in Match  BY <2>1, <2>2 DEF Passes
      <4>3. Verified(tree["host"][q], [kind |-> KindOf(m.data), data |-> m.data, stamp |-> m.stamp["host"]])
        BY <2>4
      <4> HIDE DEF m, want
      <4>4. tree["host"][q] # None  BY <4>1, <4>2, <4>3, VerifiedMatch, Sides
      <4>5. tree["host"][q].data = m.data  BY <4>1, <4>2, <4>3, VerifiedMatch, Sides
      <4> QED BY <4>4, <4>5 DEF Content
    <3>7. Underway'
      <4>1. pass'.act.path = q  BY <3>2, SMTT(30)
      <4>2. "adopt" \notin Active  BY DEF Active
      <4> QED BY <2>1, <3>2, <3>6, <4>1, <4>2 DEF Underway
    <3> QED BY <3>4, <3>5, <3>7, AroundSync
  <2> QED BY <2>3, <2>4

\* A match verified on both sides is agreed.
<1>AdoptGuestSync. ASSUME TypeInv, SyncInv, AdoptGuest
                   PROVE  SyncInv'
  <2> USE <1>AdoptGuestSync, Zenon
  <2>0. pass.stage = "adopt" /\ pass \in Passes  BY DEF AdoptGuest, TypeInv, TypeOK
  <2>q. PICK q \in Path : q = pass.act.path  BY <2>0 DEF TypeInv, StageOK
  <2>m. PICK m : m = pass.adopt[q]  OBVIOUS
  <2> DEFINE want == [kind |-> KindOf(m.data), data |-> m.data, stamp |-> m.stamp["guest"]]
             ok == Verified(tree["guest"][q], want)
  <2>1. /\ pc = "apply" /\ pass.stage = "adopt" /\ UNCHANGED <<tree, flight, applyFrame>>
        /\ pass' = IF ok THEN [pass EXCEPT !.adopt[q] = None, !.act = None, !.stage = "none"]
                   ELSE [Failing(q) EXCEPT !.adopt[q] = None]
        /\ mem' = IF ok THEN [mem EXCEPT !.agreed[q] = m] ELSE mem
    BY <2>q, <2>m DEF AdoptGuest
  <2>2. m # None  BY <2>0, <2>q, <2>m DEF TypeInv, StageOK
  <2>3. CASE ~ok
    <3>1. Steps(q) /\ q \in pass'.failed /\ pass'.stage = "none"  BY <2>1, <2>2, <2>3, <2>0, <2>q, FailSteps
    <3>2. Around(q) /\ Follows(q)  BY <2>1, <2>3, <3>1, StepsAround
    <3> QED BY <2>2, <3>1, <3>2, FailedSync
  <2>4. CASE ok
    <3>1. /\ pass' = [pass EXCEPT !.adopt[q] = None, !.act = None, !.stage = "none"]
          /\ mem' = [mem EXCEPT !.agreed[q] = m]
      BY <2>1, <2>4
    <3>2. /\ SamePlan(pass') /\ pass'.todo = pass.todo /\ pass'.failed = pass.failed
          /\ pass'.stage = "none"
          /\ \A o \in Path : o # q => pass'.adopt[o] = pass.adopt[o]
      BY <2>0, <3>1 DEF SamePlan, Passes
    <3>3. Content(tree["guest"][q]) = m.data
      <4>1. tree["guest"][q] \in Copy \cup {None}  BY Sides, SMTT(30) DEF TypeInv, TypeOK, TreesOK
      <4>2. m \in Match  BY <2>0, <2>m, <2>2 DEF Passes
      <4>3. Verified(tree["guest"][q], [kind |-> KindOf(m.data), data |-> m.data, stamp |-> m.stamp["guest"]])
        BY <2>4
      <4> HIDE DEF want, ok
      <4>4. tree["guest"][q] # None  BY <4>1, <4>2, <4>3, VerifiedMatch, Sides
      <4>5. tree["guest"][q].data = m.data  BY <4>1, <4>2, <4>3, VerifiedMatch, Sides
      <4> QED BY <4>4, <4>5 DEF Content
    <3>4. Content(tree["host"][q]) = m.data \/ Announced("host", q)
      BY <2>q, <2>m, <2>1 DEF SyncInv, ActInv
    <3> HIDE DEF want, ok
    <3>6. Steps(q)  BY <2>q, <3>2 DEF Steps, Shrinks
    <3>7. Around(q) /\ mem'.agreed[q] = m  BY <2>1, <2>2, <3>1, <3>6, MemAround
    <3>8. Content(m) = m.data  BY <2>2 DEF Content
    <3>9. Fine("guest", q)' /\ (Content(tree["host"][q]) = m.data => Fine("host", q)')
      <4>1. tree' = tree  BY <2>1
      <4> QED BY <3>3, <3>7, <3>8, <4>1 DEF Fine
    <3>10. Fine("host", q)' \/ Announced("host", q)'  BY <3>4, <3>7, <3>9, AroundAnnounced, Sides
    <3>11. Follows(q)  BY <3>10 DEF Follows
    <3>12. \A s \in Side : Settling(s, q)'  BY <3>9, <3>10, Sides DEF Settling
    <3>13. Underway'
      <4>1. "none" \notin Active /\ "none" # "adopt"  BY DEF Active
      <4> QED BY <3>2, <4>1 DEF Underway
    <3> QED BY <2>2, <3>7, <3>11, <3>12, <3>13, AroundSync
  <2> QED BY <2>3, <2>4

\* An action is taken up: a file's source is what was planned.
<1>TransferSync. ASSUME TypeInv, SyncInv, NEW a \in pass.todo, Transfer(a)
                 PROVE  SyncInv'
  <2> USE <1>TransferSync, Zenon
  <2> DEFINE q == a.path
             source == tree[Other(a.to)][q]
             ok == /\ Verified(tree[a.to][q], pass.expected[q])
                   /\ IsTransfer(a) => source # None /\ source.data = a.data
  <2>1. /\ pc = "apply" /\ pass.act = None /\ UNCHANGED <<tree, mem, flight, applyFrame>>
        /\ pass' = IF ok
                   THEN [pass EXCEPT !.todo = @ \ {a}, !.act = a,
                                     !.stage = IF IsTransfer(a) THEN "sent" ELSE "ready"]
                   ELSE [Failing(q) EXCEPT !.todo = @ \ {a}]
        /\ a.op = "put" => \A b \in pass.todo : b.op = "put"
    BY DEF Transfer, Next1
  <2>2. pass \in Passes /\ ActsOn(a) /\ a # None
    <3>1. pass \in Passes  BY DEF TypeInv, TypeOK
    <3>2. a \in Action  BY <3>1 DEF Passes
    <3> QED BY <3>1, <3>2, ActionPlaces, NoneAssumption
  <2>3. q \in Path  BY <2>2 DEF ActsOn
  <2>4. pass'.todo = pass.todo \ {a} => Shrinks(q)  BY <2>1 DEF Shrinks
  <2>5. CASE ~ok
    <3>1. pass' = [Failing(q) EXCEPT !.todo = @ \ {a}]  BY <2>1, <2>5
    <3> HIDE DEF ok, q
    <3>2. /\ SamePlan(pass') /\ pass'.todo = pass.todo \ {a}
          /\ pass'.failed = pass.failed \cup {q} /\ pass'.stage = "none" /\ pass'.adopt = pass.adopt
      BY <2>2, <2>3, <3>1, FailedTransfer
    <3>3. Steps(q)  BY <2>1, <2>4, <3>2 DEF Steps
    <3>4. Around(q) /\ Follows(q)  BY <2>1, <3>3, StepsAround
    <3>5. q \in pass'.failed  BY <3>2
    <3> QED BY <2>3, <3>2, <3>4, <3>5, FailedSync
  <2>6. CASE ok
    <3>1. pass' = [pass EXCEPT !.todo = @ \ {a}, !.act = a,
                               !.stage = IF IsTransfer(a) THEN "sent" ELSE "ready"]
      BY <2>1, <2>6
    <3>2. /\ SamePlan(pass') /\ pass'.todo = pass.todo \ {a} /\ pass'.act = a
          /\ pass'.failed = pass.failed /\ pass'.adopt = pass.adopt /\ pass'.stage # "adopt"
      <4>1. /\ SamePlan(pass') /\ pass'.todo = pass.todo \ {a} /\ pass'.act = a
            /\ pass'.failed = pass.failed /\ pass'.adopt = pass.adopt
            /\ pass'.stage = IF IsTransfer(a) THEN "sent" ELSE "ready"
        BY <2>2, <3>1 DEF SamePlan, Passes
      <4> QED BY <4>1
    <3>3. Steps(q)  BY <2>1, <2>4, <3>2 DEF Steps
    <3>4. Around(q) /\ Follows(q)  BY <2>1, <3>3, StepsAround
    <3>5. \A s \in Side : Settling(s, q)'  BY <2>2, <3>2 DEF Settling, Busy
    <3>6. Sourced(a) /\ (a.op = "put" => Stands(a))
      <4>1. Sourced(a) /\ (a.op = "put" /\ a.data \in Dirs => Stands(a))  BY <2>1 DEF SyncInv, ActInv
      <4>2. a.op = "put" /\ a.data \notin Dirs => Stands(a)  BY <2>6 DEF IsTransfer, Stands, Content
      <4> QED BY <4>1, <4>2
    <3>7. \A b \in pass.todo : b = a \/ b \in pass'.todo  BY <3>2
    <3>8. Sourced(a)' /\ (a.op = "put" => Stands(a)')
      <4>1. tree' = tree  BY <2>1
      <4> HIDE DEF q
      <4>2. (Sourced(a) => Sourced(a)') /\ (Stands(a) => Stands(a)')
        BY <2>2, <3>4, <3>7, <4>1, KeptSourced
      <4> QED BY <3>6, <4>2
    <3>9. Underway'
      <4>1. Sourced(pass.act)' /\ (pass'.act.op = "put" => Stands(pass.act)')
        BY <3>2, <3>8 DEF Sourced, Vacant, Stands
      <4> QED BY <3>2, <4>1 DEF Underway
    <3> HIDE DEF q
    <3> QED BY <2>3, <3>4, <3>5, <3>9, AroundSync
  <2> QED BY <2>5, <2>6

\* The destination is verified a second time.
<1>RecheckSync. ASSUME TypeInv, SyncInv, Recheck
                PROVE  SyncInv'
  <2> USE <1>RecheckSync, Zenon
  <2>0. pass \in Passes /\ pass.stage = "sent" /\ pass.stage \in Active
    BY DEF Recheck, TypeInv, TypeOK, Active
  <2>a. PICK a : a = pass.act  OBVIOUS
  <2>1. ActsOn(a) /\ a # None /\ pass.act.path = a.path
    <3>1. a \in Action  BY <2>0, <2>a DEF TypeInv, StageOK
    <3> QED BY <2>0, <2>a, <3>1, ActionPlaces, NoneAssumption
  <2>q. PICK q \in Path : q = a.path  BY <2>1 DEF ActsOn
  <2>2. /\ pc = "apply" /\ UNCHANGED <<tree, mem, flight, applyFrame>>
        /\ pass' = [pass EXCEPT !.stage = "ready"] \/ pass' = Failing(q)
    BY <2>a, <2>q DEF Recheck
  <2>3. CASE pass' = Failing(q)
    <3>1. Steps(q) /\ q \in pass'.failed /\ pass'.stage = "none"  BY <2>0, <2>1, <2>q, <2>3, FailSteps
    <3>2. Around(q) /\ Follows(q)  BY <2>2, <3>1, StepsAround
    <3> QED BY <3>1, <3>2, FailedSync
  <2>4. CASE pass' = [pass EXCEPT !.stage = "ready"]
    <3>1. /\ SamePlan(pass') /\ pass'.todo = pass.todo /\ pass'.act = a
          /\ pass'.failed = pass.failed /\ pass'.adopt = pass.adopt /\ pass'.stage = "ready"
      BY <2>0, <2>a, <2>4 DEF SamePlan, Passes
    <3>2. Steps(q)  BY <2>1, <2>q, <3>1 DEF Steps, Shrinks
    <3>3. Around(q) /\ Follows(q)  BY <2>2, <3>2, StepsAround
    <3>4. \A s \in Side : Settling(s, q)'  BY <2>1, <2>q, <3>1 DEF Settling, Busy
    <3>5. Sourced(a) /\ (a.op = "put" => Stands(a))  BY <2>0, <2>2, <2>a DEF SyncInv, ActInv
    <3>6. Sourced(a)' /\ (a.op = "put" => Stands(a)')
      <4>1. tree' = tree /\ \A b \in pass.todo : b = a \/ b \in pass'.todo  BY <2>2, <3>1
      <4>2. (Sourced(a) => Sourced(a)') /\ (Stands(a) => Stands(a)')
        BY <2>1, <3>3, <4>1, KeptSourced
      <4> QED BY <3>5, <4>2
    <3>7. Underway'
      <4>1. Sourced(pass.act)' /\ (pass'.act.op = "put" => Stands(pass.act)')
        BY <3>1, <3>6 DEF Sourced, Vacant, Stands
      <4>2. "ready" # "adopt"  OBVIOUS
      <4> QED BY <3>1, <4>1, <4>2 DEF Underway
    <3> QED BY <3>3, <3>4, <3>7, AroundSync
  <2> QED BY <2>2, <2>3, <2>4

\* An action is carried out.
<1>CommitSync. ASSUME TypeInv, SyncInv, Commit
               PROVE  SyncInv'
  <2> USE <1>CommitSync
  <2>ReplacedFrame. ASSUME TypeInv, NEW q \in Path, NEW to \in Side, Replaced(to, q)
                    PROVE  /\ \A s \in Side : flight[s] \subseteq flight'[s]
                           /\ \A s \in Side, p \in Path : s # to \/ p # q => tree'[s][p] = tree[s][p]
                           /\ tree' = tree \/ (Noticed(to) => q \in flight'[to])
    <3> USE <2>ReplacedFrame, Zenon
    <3>1. flight \in [Side -> SUBSET Path] /\ tree \in [Side -> [Path -> Copy \cup {None}]]
      BY DEF TypeInv, TypeOK, LoopOK, TreesOK
    <3>2. CASE tree' = tree /\ flight' = flight  BY <3>2
    <3>3. ASSUME NEW c, tree' = [tree EXCEPT ![to][q] = c], flight' = Touched(to, q)
          PROVE  /\ \A s \in Side : flight[s] \subseteq flight'[s]
                 /\ \A s \in Side, p \in Path : s # to \/ p # q => tree'[s][p] = tree[s][p]
                 /\ Noticed(to) => q \in flight'[to]
      <4>1. \A s \in Side, p \in Path : s # to \/ p # q => tree'[s][p] = tree[s][p]
        BY <3>1, <3>3
      <4>2. CASE Noticed(to)
        <5>1. flight' = [flight EXCEPT ![to] = @ \cup {q}]  BY <3>3, <4>2 DEF Touched
        <5> QED BY <3>1, <4>1, <5>1
      <4>3. CASE ~Noticed(to)
        <5>1. flight' = flight  BY <3>3, <4>3 DEF Touched
        <5> QED BY <4>1, <4>3, <5>1
      <4> QED BY <4>2, <4>3
    <3> QED BY <3>2, <3>3 DEF Replaced
  <2>GivenFrame. ASSUME TypeInv, NEW q \in Path, Given(q)
                 PROVE  /\ mem'.owed <=> mem.owed
                        /\ \A p \in Path : p # q => mem'.agreed[p] = mem.agreed[p]
                        /\ mem'.agreed[q] \in {mem.agreed[q], None}
                        /\ mem' = mem \/ mem'.agreed[q] = None
    <3> USE <2>GivenFrame, Zenon
    <3>1. mem \in Ledgers  BY DEF TypeInv, TypeOK, LedgersOK
    <3>2. mem.agreed \in [Path -> Agreed \cup {None}]  BY <3>1 DEF Ledgers
    <3>3. CASE mem' = mem  BY <3>3
    <3>4. CASE mem' = [mem EXCEPT !.agreed[q] = None]
      <4>1. mem'.agreed = [mem.agreed EXCEPT ![q] = None] /\ mem'.owed = mem.owed
        BY <3>1, <3>4, SMTT(30) DEF Ledgers
      <4>2. mem'.owed <=> mem.owed  BY <4>1, SMTT(30)
      <4>3. mem'.agreed[q] = None /\ \A p \in Path : p # q => mem'.agreed[p] = mem.agreed[p]
        BY <3>2, <4>1
      <4> QED BY <4>2, <4>3
    <3> QED BY <3>3, <3>4 DEF Given
  \* What the syncer itself writes it hears of, but in the guest it re-seeds.
  <2>CommitAround. ASSUME TypeInv, LoopInv, NEW q \in Path, NEW to \in Side, pc = "apply", UNCHANGED applyFrame,
                          Steps(q), Replaced(to, q), Given(q), pass.mode = "reseed" => to = "guest"
                   PROVE  Around(q) /\ Follows(q)
    <3> USE <2>CommitAround, Zenon
    <3>1. /\ \A s \in Side : flight[s] \subseteq flight'[s]
          /\ \A s \in Side, p \in Path : s # to \/ p # q => tree'[s][p] = tree[s][p]
      BY <2>ReplacedFrame
    <3>2. tree' = tree \/ (Noticed(to) => q \in flight'[to])  BY <2>ReplacedFrame
    <3>3. /\ mem'.owed <=> mem.owed
          /\ \A p \in Path : p # q => mem'.agreed[p] = mem.agreed[p]
      BY <2>GivenFrame
    <3>4. Follows(q)
      <4>1. mem'.agreed[q] \in {mem.agreed[q], None}  BY <2>GivenFrame
      <4> QED BY <4>1 DEF Follows
    <3>5. watch' = watch  BY DEF applyFrame
    <3>6. ASSUME tree' # tree PROVE Announced(to, q)' \/ (to = "guest" /\ pass.mode = "reseed")
      <4>1. Noticed(to) => q \in flight'[to]  BY <3>2, <3>6
      <4>2. pass.mode = "pass" \/ pass.mode = "reseed"  BY DEF LoopInv
      <4>3. CASE pass.mode = "reseed"  BY <4>3
      <4>4. CASE pass.mode = "pass"
        <5>1. registered /\ watch # "none" /\ watch \in {"none", "open", "dead"}
          BY <4>4 DEF LoopInv, TypeInv, TypeOK, LoopOK
        <5>2. to = "host" \/ to = "guest"  BY Sides
        <5>3. pc # "off" /\ "guest" # "host"  OBVIOUS
        <5>4. CASE to = "host"
          <6>1. Noticed(to)  BY <5>1, <5>3, <5>4 DEF Noticed
          <6> QED BY <4>1, <6>1 DEF Announced
        <5>5. CASE to = "guest" /\ watch = "open"
          <6>1. Noticed(to)  BY <5>3, <5>5 DEF Noticed
          <6> QED BY <4>1, <6>1 DEF Announced
        <5>6. CASE to = "guest" /\ watch = "dead"  BY <3>5, <5>6 DEF Announced
        <5> QED BY <5>1, <5>2, <5>4, <5>5, <5>6
      <4> QED BY <4>2, <4>3, <4>4
    <3>7. \A s \in Side : \/ tree'[s][q] = tree[s][q] \/ Announced(s, q)'
                          \/ s = "guest" /\ pass.mode = "reseed"
      <4>1. CASE tree' = tree  BY <4>1
      <4>2. CASE tree' # tree
        <5>1. Announced(to, q)' \/ (to = "guest" /\ pass.mode = "reseed")  BY <3>6, <4>2
        <5>2. ASSUME NEW s \in Side, s # to PROVE tree'[s][q] = tree[s][q]  BY <3>1, <5>2
        <5> QED BY <5>1, <5>2
      <4> QED BY <4>1, <4>2
    <3> QED BY <3>1, <3>3, <3>4, <3>7 DEF Around
  \* The ways a removal ends.
  <2>RemoveOutcome. ASSUME TypeInv, NEW a, ActsOn(a), Remove(a, tree[a.to][a.path])
                    PROVE  /\ Replaced(a.to, a.path) /\ Given(a.path)
                           /\ \/ pass' = Failing(a.path)
                              \/ /\ mem' = [mem EXCEPT !.agreed[a.path] = None] /\ Cleared(a.to, a.path)
                                 /\ \/ pass' = [pass EXCEPT !.act = None, !.stage = "none"]
                                    \/ pass' = [pass EXCEPT !.act = None, !.stage = "none", !.expected[a.path] = None]
    <3> USE <2>RemoveOutcome, Zenon
    <3> DEFINE copy == tree[a.to][a.path]
    <3>0. a.to \in Side /\ a.path \in Path /\ tree \in [Side -> [Path -> Copy \cup {None}]]
      BY DEF ActsOn, TypeInv, TypeOK, TreesOK
    <3>1. CASE copy = None
      <4>1. /\ tree' = tree /\ flight' = flight
            /\ \/ pass' = Failing(a.path) /\ mem' = mem
               \/ /\ mem' = [mem EXCEPT !.agreed[a.path] = None]
                  /\ pass' = [pass EXCEPT !.act = None, !.stage = "none", !.expected[a.path] = None]
        BY <3>1 DEF Remove
      <4>2. Cleared(a.to, a.path)  BY <3>1, <4>1 DEF Cleared, Content
      <4> QED BY <4>1, <4>2 DEF Replaced, Given
    <3>2. CASE copy # None /\ KindOf(copy.data) # a.kind
      <4>1. tree' = tree /\ flight' = flight /\ mem' = mem /\ pass' = Failing(a.path)  BY <3>2 DEF Remove
      <4> QED BY <4>1 DEF Replaced, Given
    <3>3. CASE copy # None /\ KindOf(copy.data) = a.kind /\ a.kind = "dir" /\ a.path \in Standing
      <4>1. /\ tree' = tree /\ flight' = flight /\ mem' = [mem EXCEPT !.agreed[a.path] = None]
            /\ pass' = [pass EXCEPT !.act = None, !.stage = "none"]
        BY <3>3 DEF Remove
      <4>2. copy.data \in Dirs
        <5>1. "file" # "dir"  OBVIOUS
        <5> QED BY <3>3, <5>1 DEF KindOf
      <4>3. Cleared(a.to, a.path)  BY <3>3, <4>1, <4>2 DEF Cleared, Content
      <4> QED BY <4>1, <4>3 DEF Replaced, Given
    <3>4. CASE copy # None /\ KindOf(copy.data) = a.kind /\ ~(a.kind = "dir" /\ a.path \in Standing)
      <4>1. /\ tree' = [tree EXCEPT ![a.to][a.path] = None] /\ flight' = Touched(a.to, a.path)
            /\ \/ pass' = Failing(a.path) /\ mem' = mem
               \/ /\ mem' = [mem EXCEPT !.agreed[a.path] = None]
                  /\ pass' = [pass EXCEPT !.act = None, !.stage = "none", !.expected[a.path] = None]
        BY <3>4 DEF Remove, ReplyLost
      <4>2. tree'[a.to][a.path] = None  BY <3>0, <4>1
      <4>3. Cleared(a.to, a.path)  BY <4>2 DEF Cleared, Content
      <4> QED BY <4>1, <4>3 DEF Replaced, Given
    <3> QED BY <3>1, <3>2, <3>3, <3>4
  \* A removal settles both sides of its path, or names it.
  <2>RemoveSync. ASSUME TypeInv, SyncInv, NEW a, NEW q \in Path, a = pass.act, q = a.path, ActsOn(a), a.op = "remove",
                        pc = "apply", UNCHANGED applyFrame, Sourced(a), Remove(a, tree[a.to][a.path])
                 PROVE  SyncInv'
    <3> USE <2>RemoveSync, Zenon
    <3>0. LoopInv /\ pass \in Passes /\ a.to \in Side /\ pass.act.path = q
      BY DEF SyncInv, TypeInv, TypeOK, ActsOn
    <3>1. /\ Replaced(a.to, q) /\ Given(q)
          /\ \/ pass' = Failing(q)
             \/ /\ mem' = [mem EXCEPT !.agreed[q] = None] /\ Cleared(a.to, q)
                /\ \/ pass' = [pass EXCEPT !.act = None, !.stage = "none"]
                   \/ pass' = [pass EXCEPT !.act = None, !.stage = "none", !.expected[q] = None]
      BY <2>RemoveOutcome
    <3>2. pass.mode = "reseed" => a.to = "guest"  BY DEF Sourced
    <3>3. CASE pass' = Failing(q)
      <4>1. Steps(q) /\ q \in pass'.failed /\ pass'.stage = "none"  BY <3>0, <3>3, FailSteps
      <4>2. Around(q) /\ Follows(q)  BY <3>0, <3>1, <3>2, <4>1, <2>CommitAround
      <4> QED BY <4>1, <4>2, FailedSync
    <3>4. ASSUME mem' = [mem EXCEPT !.agreed[q] = None], Cleared(a.to, q),
                 \/ pass' = [pass EXCEPT !.act = None, !.stage = "none"]
                 \/ pass' = [pass EXCEPT !.act = None, !.stage = "none", !.expected[q] = None]
          PROVE  SyncInv'
      <4>1. Steps(q) /\ pass'.stage = "none" /\ pass'.todo = pass.todo  BY <3>0, <3>4, OverSteps
      <4>2. Around(q) /\ Follows(q)  BY <3>0, <3>1, <3>2, <4>1, <2>CommitAround
      <4>3. mem'.agreed[q] = None
        <5>1. mem \in Ledgers  BY DEF TypeInv, TypeOK, LedgersOK
        <5>2. mem.agreed \in [Path -> Agreed \cup {None}]  BY <5>1 DEF Ledgers
        <5>3. mem'.agreed = [mem.agreed EXCEPT ![q] = None]  BY <3>4, <5>1, SMTT(30) DEF Ledgers
        <5> QED BY <5>2, <5>3
      <4>4. Fine(a.to, q)'  BY <3>4, <4>3 DEF Cleared, Fine, Content
      <4> DEFINE s == Other(a.to)
      <4>5. s \in Side /\ s # a.to  BY <3>0, Sides
      <4>6. tree'[s][q] = tree[s][q]
        <5>1. \A o \in Side, p \in Path : o # a.to \/ p # q => tree'[o][p] = tree[o][p]
          BY <3>0, <3>1, <2>ReplacedFrame
        <5> QED BY <4>5, <5>1
      <4>7. Settling(s, q)'
        <5>1. Vacant(a)  BY DEF Sourced
        <5>2. CASE Content(tree[s][q]) \in {None} \cup Big
          <6>1. Fine(s, q)'  BY <4>3, <4>6, <5>2 DEF Fine, Content
          <6> QED BY <6>1 DEF Settling
        <5>3. CASE Announced(s, q)
          <6>1. Announced(s, q)'  BY <4>2, <4>5, <5>3, AroundAnnounced
          <6> QED BY <6>1 DEF Settling
        <5>4. CASE \E b \in pass.todo : b.op = "put" /\ b.path = q  BY <4>1, <5>4 DEF Settling, Busy
        <5> QED BY <5>1, <5>2, <5>3, <5>4 DEF Vacant
      <4> HIDE DEF s
      <4>8. \A o \in Side : Settling(o, q)'
        <5>1. Settling(a.to, q)'  BY <4>4 DEF Settling
        <5>2. \A o \in Side : o = a.to \/ o = s  BY <3>0, Sides DEF s
        <5> QED BY <4>7, <5>1, <5>2
      <4>9. Underway'
        <5>1. "none" \notin Active /\ "none" # "adopt"  BY DEF Active
        <5> QED BY <4>1, <5>1 DEF Underway
      <4> QED BY <4>2, <4>8, <4>9, AroundSync
    <3> QED BY <3>1, <3>3, <3>4
  \* A placement is read back next, or has failed.
  <2>PutSync. ASSUME TypeInv, SyncInv, NEW a, NEW q \in Path, a = pass.act, q = a.path, ActsOn(a), a # None,
                     a.op = "put", pc = "apply", UNCHANGED applyFrame, Sourced(a), Stands(a),
                     Put(a, tree[a.to][a.path]), mem' = mem
              PROVE  SyncInv'
    <3> USE <2>PutSync, Zenon
    <3>0. LoopInv /\ pass \in Passes /\ a.to \in Side /\ pass.act.path = q
      BY DEF SyncInv, TypeInv, TypeOK, ActsOn
    <3>1. /\ Replaced(a.to, q)
          /\ pass' = Failing(q) \/ pass' = [pass EXCEPT !.stage = "placed"]
      <4>1. CASE Blocked(a, tree[a.to][a.path])  BY <4>1 DEF Put, Replaced
      <4>2. CASE ~Blocked(a, tree[a.to][a.path])
        <5>1. pass' = Failing(q) \/ pass' = [pass EXCEPT !.stage = "placed"]  BY <4>2 DEF Put, ReplyLost
        <5>2. \/ tree' = tree /\ flight' = flight
              \/ /\ \E s \in Stamp : tree' = [tree EXCEPT ![a.to][q] = [data |-> a.data, stamp |-> s]]
                 /\ flight' = Touched(a.to, q)
          BY <4>2 DEF Put
        <5> QED BY <5>1, <5>2 DEF Replaced
      <4> QED BY <4>1, <4>2
    <3>2. Given(q) /\ (pass.mode = "reseed" => a.to = "guest")  BY DEF Given, Sourced
    <3>3. CASE pass' = Failing(q)
      <4>1. Steps(q) /\ q \in pass'.failed /\ pass'.stage = "none"  BY <3>0, <3>3, FailSteps
      <4>2. Around(q) /\ Follows(q)  BY <3>0, <3>1, <3>2, <4>1, <2>CommitAround
      <4> QED BY <4>1, <4>2, FailedSync
    <3>4. CASE pass' = [pass EXCEPT !.stage = "placed"]
      <4>1. /\ SamePlan(pass') /\ pass'.todo = pass.todo /\ pass'.act = a
            /\ pass'.failed = pass.failed /\ pass'.adopt = pass.adopt /\ pass'.stage = "placed"
        BY <3>0, <3>4 DEF SamePlan, Passes
      <4>2. Steps(q)  BY <3>0, <4>1 DEF Steps, Shrinks
      <4>3. Around(q) /\ Follows(q)  BY <3>0, <3>1, <3>2, <4>2, <2>CommitAround
      <4>4. \A s \in Side : Settling(s, q)'  BY <4>1 DEF Settling, Busy
      <4> DEFINE s == Other(a.to)
      <4>5. s \in Side /\ s # a.to  BY <3>0, Sides
      <4>6. tree'[s][q] = tree[s][q]
        <5>1. \A o \in Side, p \in Path : o # a.to \/ p # q => tree'[o][p] = tree[o][p]
          BY <3>0, <3>1, <2>ReplacedFrame
        <5> QED BY <4>5, <5>1
      <4>7. Stands(a)'
        <5>1. Announced(s, q) => Announced(s, q)'  BY <4>3, <4>5, AroundAnnounced
        <5> QED BY <4>6, <5>1 DEF Stands
      <4>8. Sourced(a)'
        <5>1. "put" # "remove"  OBVIOUS
        <5> QED BY <3>2, <4>1, <5>1 DEF Sourced, SamePlan
      <4>9. Underway'
        <5>1. Sourced(pass.act)' /\ Stands(pass.act)'  BY <4>1, <4>7, <4>8 DEF Sourced, Vacant, Stands
        <5>2. "placed" # "adopt"  OBVIOUS
        <5> QED BY <4>1, <5>1, <5>2 DEF Underway
      <4> QED BY <4>3, <4>4, <4>9, AroundSync
    <3> QED BY <3>1, <3>3, <3>4
  <2> USE Zenon
  <2>0. pass \in Passes /\ pass.stage = "ready" /\ pass.stage \in Active
    BY DEF Commit, TypeInv, TypeOK, Active
  <2>a. PICK a : a = pass.act  OBVIOUS
  <2>1. ActsOn(a) /\ a # None
    <3>1. a \in Action  BY <2>0, <2>a DEF TypeInv, StageOK
    <3> QED BY <2>0, <2>a, <3>1, ActionPlaces, NoneAssumption
  <2>q. PICK q \in Path : q = a.path  BY <2>1 DEF ActsOn
  <2>2. /\ pc = "apply" /\ UNCHANGED applyFrame
        /\ \/ a.op = "remove" /\ Remove(a, tree[a.to][a.path])
           \/ a.op = "put" /\ Put(a, tree[a.to][a.path]) /\ mem' = mem
    BY <2>a DEF Commit
  <2>3. Sourced(a) /\ (a.op = "put" => Stands(a))  BY <2>0, <2>2, <2>a DEF SyncInv, ActInv
  <2>4. CASE a.op = "remove" /\ Remove(a, tree[a.to][a.path])
    BY <2>a, <2>q, <2>1, <2>2, <2>3, <2>4, <2>RemoveSync
  <2>5. CASE a.op = "put" /\ Put(a, tree[a.to][a.path]) /\ mem' = mem
    BY <2>a, <2>q, <2>1, <2>2, <2>3, <2>5, <2>PutSync
  <2> QED BY <2>2, <2>4, <2>5

\* What was placed is read back and agreed, or it has failed.
<1>RecordSync. ASSUME TypeInv, SyncInv, Record
               PROVE  SyncInv'
  <2> USE <1>RecordSync, Zenon
  <2>0. pass \in Passes /\ pass.stage = "placed" /\ pass.stage \in Active
    BY DEF Record, TypeInv, TypeOK, Active
  <2>a. PICK a : a = pass.act  OBVIOUS
  <2>1. ActsOn(a) /\ a \in Action /\ a.op = "put" /\ a.data \in Data /\ a.to \in Side
    <3>1. a \in Action /\ a.op = "put" /\ a.data \in Data  BY <2>0, <2>a DEF TypeInv, StageOK
    <3>2. ActsOn(a)  BY <2>0, <2>a, <3>1, ActionPlaces
    <3> QED BY <3>1, <3>2 DEF ActsOn
  <2>q. PICK q \in Path : q = a.path  BY <2>1 DEF ActsOn
  <2> DEFINE copy == tree[a.to][q]
             ok == copy # None /\ KindOf(copy.data) = KindOf(a.data) /\ copy.data = a.data
             now == [data |-> a.data, stamp |-> [side \in Side |-> IF side = a.to THEN copy.stamp ELSE a.stamp]]
  <2>2. /\ pc = "apply" /\ UNCHANGED <<tree, flight, applyFrame>>
        /\ mem' = [mem EXCEPT !.agreed[q] = IF ok THEN now ELSE None]
        /\ pass' = IF ok THEN [pass EXCEPT !.act = None, !.stage = "none"] ELSE Failing(q)
    BY <2>a, <2>q DEF Record
  <2>3. CASE ~ok
    <3>1. pass' = Failing(q) /\ mem' = [mem EXCEPT !.agreed[q] = None]  BY <2>2, <2>3
    <3>2. Steps(q) /\ q \in pass'.failed /\ pass'.stage = "none"  BY <2>0, <2>a, <2>q, <3>1, FailSteps
    <3>3. Around(q) /\ mem'.agreed[q] = None  BY <2>2, <3>1, <3>2, MemAround
    <3>4. Follows(q)  BY <3>3 DEF Follows
    <3> QED BY <3>2, <3>3, <3>4, FailedSync
  <2>4. CASE ok
    <3>1. pass' = [pass EXCEPT !.act = None, !.stage = "none"] /\ mem' = [mem EXCEPT !.agreed[q] = now]
      BY <2>2, <2>4
    <3>2. Steps(q) /\ pass'.stage = "none"  BY <2>0, <2>a, <2>q, <3>1, OverSteps
    <3>3. Content(copy) = a.data  BY <2>4 DEF Content
    <3>n. PICK m : m = now  OBVIOUS
    <3>4. Content(m) = a.data
      <4>1. copy \in Copy
        <5>1. tree[a.to][q] \in Copy \cup {None}  BY <2>1, SMTT(30) DEF TypeInv, TypeOK, TreesOK
        <5> QED BY <2>4, <5>1
      <4>2. copy.stamp \in Stamp /\ a.stamp \in Stamp
        <5>1. a.stamp \in Stamp
          <6>1. "put" # "remove"  OBVIOUS
          <6> QED BY <2>1, <6>1 DEF Action
        <5>2. copy.stamp \in Stamp  BY <4>1 DEF Copy
        <5> QED BY <5>1, <5>2
      <4> HIDE DEF copy
      <4>3. m \in Match /\ m.data = a.data  BY <2>1, <3>n, <4>2 DEF Match
      <4> QED BY <4>3, NoneAssumption DEF Content
    <3>5. Sourced(a) /\ Stands(a)  BY <2>0, <2>1, <2>2, <2>a DEF SyncInv, ActInv
    <3>6. mem' = [mem EXCEPT !.agreed[q] = m] /\ Content(tree[a.to][q]) = a.data  BY <3>1, <3>3, <3>n
    <3> HIDE DEF now, ok, copy
    <3>7. Around(q) /\ mem'.agreed[q] = m  BY <2>2, <3>2, <3>6, MemAround
    <3>8. tree' = tree  BY <2>2
    <3>9. Fine(a.to, q)'  BY <3>4, <3>6, <3>7, <3>8 DEF Fine
    <3> DEFINE s == Other(a.to)
    <3>10. s \in Side  BY <2>1, Sides
    <3>11. Fine(s, q)' \/ Announced(s, q)'
      <4>1. CASE Content(tree[s][q]) = a.data  BY <3>4, <3>7, <3>8, <4>1 DEF Fine
      <4>2. CASE Announced(s, q)
        <5>1. Announced(s, q)'  BY <3>7, <3>10, <4>2, AroundAnnounced
        <5> QED BY <5>1
      <4> QED BY <2>q, <3>5, <4>1, <4>2 DEF Stands
    <3>12. \A o \in Side : o = a.to \/ o = s  BY <2>1, Sides
    <3> HIDE DEF s
    <3>13. \A o \in Side : Fine(o, q)' \/ Announced(o, q)'  BY <3>9, <3>11, <3>12
    <3>14. Follows(q)  BY <3>13, Sides DEF Follows
    <3>15. \A o \in Side : Settling(o, q)'  BY <3>13 DEF Settling
    <3>16. Underway'
      <4>1. "none" \notin Active /\ "none" # "adopt"  BY DEF Active
      <4> QED BY <3>2, <4>1 DEF Underway
    <3> QED BY <3>7, <3>14, <3>15, <3>16, AroundSync
  <2> QED BY <2>3, <2>4

<1>FinishPassSync. ASSUME TypeInv, SyncInv, FinishPass
                   PROVE  SyncInv'
  <2> USE <1>FinishPassSync, Zenon
  <2>0. LoopInv /\ UndecidedInv /\ Applied /\ pass.mode = "pass" /\ pc = "apply" /\ mem \in Ledgers
    BY DEF SyncInv, FinishPass, Applied, TypeInv, TypeOK, LedgersOK
  <2>1. /\ mem' = [mem EXCEPT !.halted = pass.halt] /\ pc' = "top" /\ pass' = NoPass
        /\ dirty' = [host |-> pass.later["host"], guest |-> pass.later["guest"] \cup pass.failed]
        /\ tree' = tree /\ watch' = watch /\ flight' = flight /\ missed' = missed
        /\ UNCHANGED <<seeded, registered, lost, op>>
    BY DEF FinishPass, finishFrame, command
  <2>2. (seeded' <=> seeded) /\ (registered' <=> registered) /\ (lost' <=> lost) /\ op' = op
    BY <2>1, SMTT(30)
  <2>3. mem'.agreed = mem.agreed /\ (mem'.owed <=> mem.owed) /\ mem'.halted = pass.halt
    BY <2>0, <2>1, SMTT(30) DEF Ledgers
  <2>4. /\ dirty'["host"] = pass.later["host"] /\ dirty'["guest"] = pass.later["guest"] \cup pass.failed
        /\ pass'.mode = "none"
    BY <2>1 DEF NoPass
  <2>5. LoopInv'
    <3>1. ~mem.owed /\ ~seeded /\ watch # "none"
      <4>1. "pass" # "reseed" /\ "apply" # "top"  OBVIOUS
      <4> QED BY <2>0, <4>1 DEF LoopInv
    <3>2. op' \notin {"suspended", "noted", "failed", "rewound"}
      <4>1. "apply" # "off"  OBVIOUS
      <4> QED BY <2>0, <2>2, <4>1 DEF LoopInv
    <3> QED BY <2>1, <2>2, <2>3, <2>4, <3>1, <3>2 DEF LoopInv
  <2>6. ASSUME NEW s \in Side, NEW p \in Path
        PROVE  /\ Announced(s, p) => Announced(s, p)'
               /\ Fine(s, p) => Fine(s, p)'
               /\ Shows(s, p) => Shows(s, p)'
               /\ p \in Later(s) \/ p \in pass.failed => p \in Owed(s)'
    <3>1. (Fine(s, p) => Fine(s, p)') /\ (Shows(s, p) => Shows(s, p)')  BY <2>1, <2>3, LedgerSame
    <3>2. Announced(s, p) => Announced(s, p)'  BY <2>1, <2>2 DEF Announced
    <3>3. p \in Later(s) \/ p \in pass.failed => p \in Owed(s)'  BY <2>4 DEF Later, Owed
    <3> QED BY <3>1, <3>2, <3>3
  <2>7. "pass" # "reseed"  OBVIOUS
  <2>8. BaseInv'
    <3>1. ASSUME NEW s \in Side, NEW p \in Path PROVE Accounted(s, p)'
      BY <2>0, <2>6, <2>7, AppliedSettled DEF Accounted
    <3> QED BY <3>1, Sides DEF BaseInv
  <2>9. QuietInv'
    <3>1. ASSUME Quiet', NEW s \in Side, NEW p \in Path PROVE p \in missed'[s] \/ Fine(s, p)'
      <4>1. /\ flight' = NoPaths /\ ~lost' /\ watch' = "open" /\ dirty' = NoPaths /\ mem'.halted = {}
        BY <3>1 DEF Quiet, AtRest
      <4>2. /\ flight["host"] = {} /\ flight["guest"] = {} /\ ~lost /\ watch = "open"
            /\ pass.halt = {} /\ pass.failed = {} /\ pass.later["host"] = {} /\ pass.later["guest"] = {}
        <5>1. dirty'["host"] = {} /\ dirty'["guest"] = {} /\ flight'["host"] = {} /\ flight'["guest"] = {}
          BY <4>1, Sides DEF NoPaths
        <5> QED BY <2>1, <2>2, <2>3, <2>4, <4>1, <5>1
      <4>3. p \notin Later(s) /\ p \notin Later("host")  BY <4>2 DEF Later
      <4>4. "open" # "dead" /\ "apply" # "read"  OBVIOUS
      <4>5. p \notin pass.undecided  BY <2>0, <4>2, <4>3, <4>4 DEF UndecidedInv
      <4>6. Announced(s, p) => p \in missed[s]
        <5>1. flight[s] = {}  BY <4>2, Sides
        <5> QED BY <4>2, <4>4, <5>1 DEF Announced
      <4>7. p \notin pass.failed  BY <4>2
      <4>8. Announced(s, p) \/ Fine(s, p)  BY <2>0, <2>7, <4>2, <4>3, <4>5, <4>7, AppliedSettled
      <4> QED BY <2>1, <2>6, <4>6, <4>8
    <3> QED BY <3>1 DEF QuietInv
  <2> QED BY <2>1, <2>5, <2>8, <2>9, TopSync

\* A pass that cannot save its ledger is owed again; what it found to be owed it loses.
<1>SaveFailsSync. ASSUME TypeInv, SyncInv, SaveFails
                  PROVE  SyncInv'
  <2> USE <1>SaveFailsSync, Zenon
  <2>0. LoopInv /\ BaseInv /\ Applied /\ pc = "apply" /\ mem \in Ledgers
    BY DEF SyncInv, SaveFails, Applied, TypeInv, TypeOK, LedgersOK
  <2>1. /\ pc' = "top" /\ pass' = NoPass /\ due' /\ tree' = tree /\ watch' = watch /\ flight' = flight
        /\ dirty' = dirty /\ UNCHANGED <<seeded, registered, lost, op, rescan>>
    BY DEF SaveFails, Abandon, finishFrame, command
  <2>2. /\ (seeded' <=> seeded) /\ (registered' <=> registered) /\ (lost' <=> lost) /\ op' = op
        /\ (rescan' <=> rescan)
    BY <2>1, SMTT(30)
  <2>3. /\ pass.mode = "pass" \/ pass.mode = "reseed"
        /\ mem'.agreed = mem.agreed /\ (mem'.owed <=> mem.owed)
    <3>1. pass.mode = IF mem.owed THEN "reseed" ELSE "pass"  BY <2>0 DEF LoopInv
    <3>2. CASE mem' = [mem EXCEPT !.halted = pass.halt]  BY <2>0, <3>1, <3>2, SMTT(30) DEF Ledgers
    <3>3. CASE pass.mode = "reseed" /\ mem' = [mem EXCEPT !.owed = TRUE]
      BY <2>0, <3>1, <3>3, SMTT(30) DEF Ledgers
    <3> QED BY <3>2, <3>3 DEF SaveFails
  <2>4. LoopInv'
    <3>1. pass'.mode = "none" /\ ~seeded
      <4>1. "apply" # "top"  OBVIOUS
      <4> QED BY <2>0, <2>1, <4>1 DEF LoopInv, NoPass
    <3>2. op' \notin {"suspended", "noted", "failed", "rewound"}
      <4>1. "apply" # "off"  OBVIOUS
      <4> QED BY <2>0, <2>2, <4>1 DEF LoopInv
    <3>3. (mem.owed => ~registered /\ watch = "none" /\ ~lost) /\ (~mem.owed => watch # "none")
      <4>1. "apply" # "off"  OBVIOUS
      <4> QED BY <2>0, <4>1 DEF LoopInv
    <3> QED BY <2>1, <2>2, <2>3, <3>1, <3>2, <3>3 DEF LoopInv
  <2>5. BaseInv'
    <3>1. ASSUME ~mem.owed, NEW p \in Path PROVE Accounted("host", p)' /\ Accounted("guest", p)'
      <4>0. pass.mode = "pass" /\ "pass" # "reseed" /\ "apply" # "off"  BY <2>0, <3>1 DEF LoopInv
      <4>1. CASE rescan  BY <2>2, <4>1 DEF Accounted
      <4>2. CASE ~rescan
        <5>1. missed' = [missed EXCEPT !["guest"] = @ \cup ((pass.failed \cup pass.later["guest"]) \ dirty["guest"])]
          BY <4>0, <4>2 DEF SaveFails
        <5>2. missed \in [Side -> SUBSET Path]  BY DEF TypeInv, TypeOK, HistoryOK
        <5>3. /\ missed'["host"] = missed["host"]
              /\ missed'["guest"] = missed["guest"] \cup ((pass.failed \cup pass.later["guest"]) \ dirty["guest"])
          BY <5>1, <5>2, SMTT(30) DEF Side
        <5>4. /\ (Fine("host", p) => Fine("host", p)') /\ (Shows("host", p) => Shows("host", p)')
              /\ (Fine("guest", p) => Fine("guest", p)') /\ (Shows("guest", p) => Shows("guest", p)')
          BY <2>1, <2>3, LedgerSame
        <5>5. /\ Announced("host", p) => Announced("host", p)'
              /\ Announced("guest", p) => Announced("guest", p)'
          BY <2>1, <2>2, <5>3 DEF Announced
        <5>6. Accounted("host", p)'
          <6>1. Accounted("host", p)  BY <2>0, <3>1, <4>0 DEF BaseInv
          <6>2. p \in Owed("host") => p \in Owed("host")'  BY <2>1 DEF Owed
          <6> QED BY <4>2, <5>4, <5>5, <6>1, <6>2 DEF Accounted
        <5>7. Accounted("guest", p)'
          <6>0. "guest" # "host"  OBVIOUS
          <6>1. p \in pass.failed \/ p \in Later("guest") => p \in Owed("guest")' \/ Announced("guest", p)'
            <7>1. p \in pass.failed \/ p \in Later("guest") => p \in dirty["guest"] \/ p \in missed'["guest"]
              BY <5>3, <6>0 DEF Later
            <7> QED BY <2>1, <6>0, <7>1 DEF Owed, Announced
          <6>2. \/ p \in pass.failed \/ Announced("guest", p) \/ Fine("guest", p) \/ p \in Later("guest")
                \/ Shows("guest", p)
            BY <2>0, <4>0, AppliedSettled, Sides
          <6> QED BY <5>4, <5>5, <6>1, <6>2 DEF Accounted
        <5> QED BY <5>6, <5>7
      <4> QED BY <4>1, <4>2
    <3> QED BY <2>3, <3>1 DEF BaseInv
  <2>6. QuietInv'  BY <2>1 DEF QuietInv, Quiet, AtRest
  <2> QED BY <2>1, <2>4, <2>5, <2>6, TopSync

\* A re-seed that is complete leaves nothing behind.
<1>FinishReseedSync. ASSUME TypeInv, SyncInv, FinishReseed
                     PROVE  SyncInv'
  <2> USE <1>FinishReseedSync, Zenon
  <2>0. LoopInv /\ Applied /\ pass.mode = "reseed" /\ pc = "apply" /\ mem \in Ledgers
    BY DEF SyncInv, FinishReseed, Applied, TypeInv, TypeOK, LedgersOK
  <2>1. /\ mem' = [mem EXCEPT !.owed = ~Complete] /\ pc' = "top" /\ pass' = NoPass
        /\ tree' = tree /\ watch' = watch /\ flight' = flight /\ dirty' = dirty /\ missed' = missed
        /\ op' = op /\ UNCHANGED <<registered, lost>>
        /\ seeded' = Complete /\ rescan' = (rescan /\ ~Complete)
    BY DEF FinishReseed, command
  <2>2. /\ (registered' <=> registered) /\ (lost' <=> lost) /\ (seeded' <=> Complete)
        /\ (rescan' <=> (rescan /\ ~Complete))
    <3>1. (registered' <=> registered) /\ (lost' <=> lost)  BY <2>1, SMTT(30)
    <3>2. (seeded' <=> Complete) /\ (rescan' <=> (rescan /\ ~Complete))  BY <2>1
    <3> QED BY <3>1, <3>2
  <2>3. mem'.agreed = mem.agreed /\ (mem'.owed <=> ~Complete)  BY <2>0, <2>1 DEF Ledgers
  <2>4. ~registered /\ watch = "none" /\ ~lost /\ pass.later = NoPaths
    <3>1. "apply" # "off" /\ "reseed" # "pass"  OBVIOUS
    <3>2. mem.owed  BY <2>0, <3>1 DEF LoopInv
    <3> QED BY <2>0, <3>1, <3>2 DEF LoopInv
  <2>5. LoopInv'
    <3>1. pass'.mode = "none"  BY <2>1 DEF NoPass
    <3>2. op' \notin {"suspended", "noted", "failed", "rewound"}
      <4>1. "apply" # "off"  OBVIOUS
      <4> QED BY <2>0, <2>1, <4>1 DEF LoopInv
    <3> QED BY <2>1, <2>2, <2>3, <2>4, <3>1, <3>2 DEF LoopInv
  <2>6. BaseInv'
    <3>1. ASSUME Complete, NEW s \in Side, NEW p \in Path PROVE Accounted(s, p)'
      <4>1. pass.failed = {} /\ pass.refused = {} /\ pass.undecided = {}  BY <3>1 DEF Complete
      <4>2. p \notin Later(s)  BY <2>4, Sides DEF Later, NoPaths
      <4>3. p \notin pass.failed /\ p \notin pass.refused \cup pass.undecided  BY <4>1
      <4>4. Announced(s, p) \/ Fine(s, p) \/ Shows(s, p)  BY <2>0, <4>2, <4>3, AppliedSettled
      <4>5. (Fine(s, p) => Fine(s, p)') /\ (Shows(s, p) => Shows(s, p)')  BY <2>1, <2>3, LedgerSame
      <4>6. Announced(s, p) => Announced(s, p)'  BY <2>1, <2>2 DEF Announced
      <4> QED BY <4>4, <4>5, <4>6 DEF Accounted
    <3> QED BY <2>3, <3>1, Sides DEF BaseInv
  <2>7. QuietInv'
    <3>1. "none" # "open"  OBVIOUS
    <3> QED BY <2>1, <2>4, <3>1 DEF QuietInv, Quiet, AtRest
  <2> QED BY <2>1, <2>5, <2>6, <2>7, TopSync

\* The steps that change nothing the invariant speaks of.
<1>IdleSync. ASSUME TypeInv, SyncInv,
                    \/ Ask \/ Capture \/ NoteRewound \/ UNCHANGED vars
                    \/ \E p \in Path, winner \in Side : Resolve(p, winner)
                    \/ \E discard \in BOOLEAN : BeginRestore(discard)
             PROVE  SyncInv'
  <2> USE <1>IdleSync, Zenon
  <2>0. op \in {"suspended", "noted", "failed", "rewound"} => pc = "off"  BY DEF SyncInv, LoopInv
  <2>1. CASE Ask
    <3>1. /\ UNCHANGED <<tree, mem, pc, rescan, seeded, watch, registered, lost, flight, dirty, pass, missed>>
          /\ op' = op /\ due'
      BY <2>1, SMTT(30) DEF Ask, command, ghosts
    <3> QED BY <2>0, <3>1, KeptSync
  <2>2. ASSUME NEW p \in Path, NEW winner \in Side, Resolve(p, winner) PROVE SyncInv'
    <3>1. /\ UNCHANGED <<tree, mem, pc, rescan, seeded, watch, registered, lost, flight, dirty, pass, missed>>
          /\ op' = op /\ due'
      BY <2>2, SMTT(30) DEF Resolve, command, ghosts
    <3> QED BY <2>0, <3>1, KeptSync
  <2>3. CASE Capture
    <3>1. /\ UNCHANGED <<tree, mem, pc, rescan, seeded, watch, registered, lost, flight, dirty, pass, missed>>
          /\ op' = op /\ due' = due
      BY <2>3, SMTT(30) DEF Capture, loop, ghosts
    <3> QED BY <2>0, <3>1, KeptSync
  <2>4. ASSUME NEW discard \in BOOLEAN, BeginRestore(discard) PROVE SyncInv'
    <3>1. /\ UNCHANGED <<tree, mem, pc, rescan, seeded, watch, registered, lost, flight, dirty, pass, missed>>
          /\ op' = "suspending" /\ due' = due
      BY <2>4, SMTT(30) DEF BeginRestore, loop, ghosts
    <3>2. "suspending" \notin {"suspended", "noted", "failed", "rewound"}  OBVIOUS
    <3> QED BY <3>1, <3>2, KeptSync
  <2>5. CASE NoteRewound
    <3>1. /\ UNCHANGED <<tree, mem, pc, rescan, seeded, watch, registered, lost, flight, dirty, pass, missed>>
          /\ op = "suspended" /\ due' = due
      BY <2>5, SMTT(30) DEF NoteRewound, loop, ghosts
    <3>2. pc = "off"  BY <2>0, <3>1
    <3> QED BY <3>1, <3>2, KeptSync
  <2>6. CASE UNCHANGED vars
    <3>1. /\ UNCHANGED <<tree, mem, pc, rescan, seeded, watch, registered, lost, flight, dirty, pass, missed>>
          /\ op' = op /\ due' = due
      BY <2>6, SMTT(30) DEF vars, loop, command, ghosts
    <3> QED BY <2>0, <3>1, KeptSync
  <2> QED BY <2>1, <2>2, <2>3, <2>4, <2>5, <2>6

\* The loop is started, stopped, killed, suspended, rewound under and resumed.
<1>LifeSync. ASSUME TypeInv, SyncInv, ConcurrentCommands = FALSE,
                    Start \/ Stop \/ Crash \/ Suspend \/ Rewind \/ Resume
             PROVE  SyncInv'
  <2> USE <1>LifeSync
  \* A fresh run walks everything first.
  <2>FreshSync. ASSUME NEW running \in BOOLEAN, Fresh(running),
                       running => op' \notin {"suspended", "noted", "failed", "rewound"}
                PROVE  SyncInv'
    <3> USE <2>FreshSync, Zenon
    <3>1. pass'.mode = "none" /\ ~seeded'  BY DEF Fresh, NoPass
    <3>2. CASE ~running
      <4>1. pc' = "off"  BY <3>2 DEF Fresh
      <4> QED BY <3>1, <4>1, OffSync
    <3>3. CASE running
      <4>1. pc' = "top" /\ due' /\ rescan' /\ watch' = "none" /\ ~registered' /\ ~lost'
        BY <3>3, SMTT(30) DEF Fresh
      <4>2. LoopInv'  BY <3>1, <3>3, <4>1 DEF LoopInv
      <4>3. BaseInv' /\ QuietInv'  BY <4>1 DEF BaseInv, Accounted, QuietInv, Quiet, AtRest
      <4> QED BY <4>1, <4>2, <4>3, TopSync
    <3> QED BY <3>2, <3>3
  <2> USE Zenon
  <2>0. op \in {"suspended", "noted", "failed", "rewound"} => pc = "off"  BY DEF SyncInv, LoopInv
  <2>1. CASE Start
    <3>1. Fresh(TRUE) /\ op' = "none"  BY <2>1 DEF Start, command
    <3>2. "none" \notin {"suspended", "noted", "failed", "rewound"} /\ TRUE \in BOOLEAN  OBVIOUS
    <3> QED BY <3>1, <3>2, <2>FreshSync
  <2>2. CASE Stop \/ Crash \/ Suspend
    <3>1. Fresh(FALSE)  BY <2>2 DEF Stop, Crash, Suspend
    <3>2. FALSE \in BOOLEAN  OBVIOUS
    <3> QED BY <3>1, <3>2, <2>FreshSync
  <2>3. CASE Rewind
    <3>1. op = "noted" /\ pc' = pc /\ pass' = pass /\ (seeded' <=> seeded)  BY <2>3, SMTT(30) DEF Rewind
    <3>2. pc = "off"  BY <2>0, <3>1
    <3>3. ~seeded /\ (pass.mode = "reseed" => pass.later = NoPaths)
      <4>1. "off" # "top"  OBVIOUS
      <4> QED BY <3>2, <4>1 DEF SyncInv, LoopInv
    <3>4. pass'.mode = "reseed" => pass'.later = NoPaths  BY <3>1, <3>3
    <3>5. ~seeded' /\ pc' = "off"  BY <3>1, <3>2, <3>3
    <3> QED BY <3>4, <3>5, OffSync
  <2>4. CASE Resume
    <3>0. "none" \notin {"suspended", "noted", "failed", "rewound"} /\ TRUE \in BOOLEAN  OBVIOUS
    <3>1. op' = "none"  BY <2>4 DEF Resume
    <3>2. CASE opRunning
      <4>1. Fresh(TRUE)  BY <2>4, <3>2 DEF Resume
      <4> QED BY <3>0, <3>1, <4>1, <2>FreshSync
    <3>3. CASE ~opRunning
      <4>1. /\ UNCHANGED <<tree, mem, pc, rescan, seeded, watch, registered, lost, flight, dirty, pass, missed>>
            /\ due' = due
        BY <2>4, <3>3, SMTT(30) DEF Resume, loop
      <4> QED BY <3>0, <3>1, <4>1, KeptSync
    <3> QED BY <3>2, <3>3
  <2> QED BY <2>1, <2>2, <2>3, <2>4
<1> USE Zenon
<1>1. CASE Environment
  <2>1. ASSUME NEW side \in Side, NEW p \in Path, Write(side, p) PROVE SyncInv'  BY <2>1, <1>WriteSync
  <2>2. CASE PassFails  BY <2>2, <1>PassFailsSync
  <2>3. CASE Fails  BY <2>3, <1>FailsSync
  <2>4. CASE SaveFails  BY <2>4, <1>SaveFailsSync
  <2>5. CASE WatchDies \/ \E side \in Side : LoseCoverage(side)  BY <2>5, <1>LossSync
  <2>6. CASE Start \/ Stop \/ Crash  BY <2>6, <1>LifeSync
  <2>7. CASE \/ Ask \/ Capture \/ \E p \in Path, winner \in Side : Resolve(p, winner)
             \/ \E discard \in BOOLEAN : BeginRestore(discard)
    BY <2>7, <1>IdleSync
  <2> QED BY <1>1, <2>1, <2>2, <2>3, <2>4, <2>5, <2>6, <2>7 DEF Environment
<1>2. CASE Waking  BY <1>2, <1>WakingSync
<1>3. CASE Working
  <2>1. CASE OpenWatch  BY <2>1, <1>WakingSync
  <2>2. CASE BeginReseed \/ BeginPass  BY <2>2, <1>ReadSync
  <2>3. CASE Probe  BY <2>3, ProbeSync
  <2>4. ASSUME NEW p \in Path, AdoptHost(p) PROVE SyncInv'  BY <2>4, <1>AdoptHostSync
  <2>5. CASE AdoptGuest  BY <2>5, <1>AdoptGuestSync
  <2>6. ASSUME NEW a \in pass.todo, Transfer(a) PROVE SyncInv'  BY <2>6, <1>TransferSync
  <2>7. CASE Recheck  BY <2>7, <1>RecheckSync
  <2>8. CASE Commit  BY <2>8, <1>CommitSync
  <2>9. CASE Record  BY <2>9, <1>RecordSync
  <2>10. CASE FinishPass  BY <2>10, <1>FinishPassSync
  <2>11. CASE FinishReseed  BY <2>11, <1>FinishReseedSync
  <2> QED
    BY <1>3, <2>1, <2>2, <2>3, <2>4, <2>5, <2>6, <2>7, <2>8, <2>9, <2>10, <2>11 DEF Working
<1>4. CASE Restoring
  <2>1. CASE Suspend \/ Rewind \/ Resume  BY <2>1, <1>LifeSync
  <2>2. CASE NoteRewound  BY <2>2, <1>IdleSync
  <2> QED BY <1>4, <2>1, <2>2 DEF Restoring
<1>5. CASE UNCHANGED vars  BY <1>5, <1>IdleSync
<1> QED BY <1>1, <1>2, <1>3, <1>4, <1>5 DEF Next

\* Two sides that are both as agreed are in step, or hold what is reported by name.
LEMMA SyncQuiet ==
    ASSUME SyncInv
    PROVE  QuietInStep
<1> USE Zenon
<1> SUFFICES ASSUME Quiet, NEW p \in Path \ (missed["host"] \cup missed["guest"])
             PROVE  InStep(p) \/ Oversize(p) \/ LeftStanding(p)
  BY DEF QuietInStep
<1>1. Fine("host", p) /\ Fine("guest", p)  BY Sides DEF SyncInv, QuietInv
<1>2. CASE \E s \in Side : Content(tree[s][p]) \in Big  BY <1>2 DEF Oversize
<1>3. CASE \E s \in Side : p \in Standing /\ Content(tree[s][p]) \in Dirs  BY <1>3 DEF LeftStanding
<1>4. CASE /\ Content(tree["host"][p]) = Content(mem.agreed[p])
           /\ Content(tree["guest"][p]) = Content(mem.agreed[p])
  BY <1>4 DEF InStep
<1> QED BY <1>1, <1>2, <1>3, <1>4, Sides DEF Fine

\* A quiet syncer is one whose two sides are in step, for any paths, contents and
\* stamps, through any number of writes, failures, lost watches, halts, answers,
\* crashes and restores, as long as no `up' starts a loop inside a restore's bracket.
THEOREM QuietIsInStep ==
    ASSUME ConcurrentCommands = FALSE
    PROVE  Spec => []QuietInStep
<1>1. Init => TypeInv /\ SyncInv
  BY InitType, InitSync
<1>2. (TypeInv /\ SyncInv) /\ [Next]_vars => (TypeInv /\ SyncInv)'
  BY StepType, StepSync
<1>3. TypeInv /\ SyncInv => QuietInStep
  BY SyncQuiet
<1> QED
  BY <1>1, <1>2, <1>3, PTL DEF Spec

===============================================================================
