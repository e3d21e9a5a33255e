---------------------------- MODULE LabPlanProofs ----------------------------
(***************************************************************************)
(* The schedule plan() makes is right for a lab of any size and any shape. *)
(*                                                                         *)
(* Three invariants carry it, one per loop.  While the targets are being   *)
(* closed, whatever has left the queue has pulled in all it must, and      *)
(* nothing has been pulled in that some complete set could do without.     *)
(* While waves are made, a machine is done exactly when it is in a wave,   *)
(* and every wave comes after what its machines wait for.  And no machine  *)
(* of a knot is ever done, which is why a knot ends in a refusal.          *)
(***************************************************************************)
EXTENDS LabPlan, TLAPS

ClosingInv ==
    /\ subset \subseteq wanted
    /\ subset = {} => wanted = Machine
    /\ phase # "closing" => queue = {}
    /\ \A m \in wanted \ queue : Follows(m) \subseteq wanted

LeastInv ==
    subset # {} =>
        \A c \in SUBSET Machine : subset \subseteq c /\ Complete(c) => wanted \subseteq c

Earlier(i) ==
    \A m \in waves[i] :
        /\ \A d \in Edges(m) \cap wanted : \E j \in 1 .. i - 1 : d \in waves[j]
        /\ \A j \in 1 .. Len(waves) : m \in waves[j] => j = i

WaveInv ==
    /\ phase = "closing" => remaining = {} /\ done = {} /\ waves = <<>>
    /\ phase # "closing" => done \cup remaining = wanted /\ done \cap remaining = {}
    /\ phase \in {"checking", "planned"} => remaining = {}
    /\ \A m \in Machine : m \in done <=> \E i \in 1 .. Len(waves) : m \in waves[i]
    /\ \A i \in 1 .. Len(waves) : Earlier(i)

KnotInv ==
    /\ \A k \in SUBSET wanted : KnotOfEdges(k) => k \cap done = {}
    /\ phase = "checking" => direction = "up"
    /\ phase \in {"checking", "planned"} /\ direction = "up" =>
           /\ waiting \subseteq wanted
           /\ \A k \in SUBSET wanted : KnotOfAfter(k) => k \subseteq waiting
    /\ phase = "planned" /\ direction = "up" => waiting = {}
    /\ phase = "refused" =>
           \E k \in SUBSET wanted : KnotOfEdges(k) \/ (direction = "up" /\ KnotOfAfter(k))

-----------------------------------------------------------------------------
(* Types. *)

LEMMA FollowsTyped ==
    ASSUME TypeOK, NEW m \in Machine
    PROVE  Edges(m) \subseteq Machine /\ Follows(m) \subseteq Machine
BY DEF TypeOK, Edges, Follows

LEMMA StepTyped == TypeOK /\ [Next]_vars => TypeOK'
<1> SUFFICES ASSUME TypeOK, [Next]_vars PROVE TypeOK'
  OBVIOUS
<1>1. ASSUME NEW m \in Machine, Follow(m) PROVE TypeOK'
  BY <1>1, FollowsTyped DEF Follow, TypeOK, input
<1>2. CASE Wave
  <2>1. Append(waves, {m \in remaining : Clear(m)}) \in Seq(SUBSET Machine)
    BY DEF TypeOK
  <2> QED
    BY <1>2, <2>1 DEF Wave, TypeOK, input
<1>3. CASE ProvisionRound
  BY <1>3 DEF ProvisionRound, TypeOK, input
<1>4. CASE Targeted \/ WaveDeadlock \/ Waved \/ ProvisionDeadlock \/ Planned
  BY <1>4 DEF Targeted, WaveDeadlock, Waved, ProvisionDeadlock, Planned, TypeOK, input
<1>5. CASE Over \/ UNCHANGED vars
  BY <1>5 DEF Over, TypeOK, vars, input
<1> QED
  BY <1>1, <1>2, <1>3, <1>4, <1>5 DEF Next, Step

LEMMA InitTyped == Init => TypeOK
<1>1. <<>> \in Seq(SUBSET Machine)
  OBVIOUS
<1> QED
  BY <1>1 DEF Init, TypeOK

\* Every set the planner keeps is one of the lab's machines, and it queues only
\* what it has already marked as wanted.
THEOREM PlanTypeCorrect == Spec => []TypeOK
BY InitTyped, StepTyped, PTL DEF Spec

-----------------------------------------------------------------------------
(* The targets. *)

\* What the edges mean does not change while the plan is made.
LEMMA InputKept ==
    ASSUME UNCHANGED input
    PROVE  /\ \A m : Edges(m)' = Edges(m) /\ Follows(m)' = Follows(m)
           /\ \A c : Complete(c)' = Complete(c)
BY DEF input, Edges, Follows, Complete

LEMMA InputStays == [Next]_vars => UNCHANGED input
BY DEF Next, Step, vars, Follow, Targeted, Wave, WaveDeadlock, Waved, ProvisionRound,
       ProvisionDeadlock, Planned, Over, input

\* The planner's edges are the ones a complete set is closed under.
LEMMA CompleteFollows ==
    ASSUME TypeOK, NEW c \in SUBSET Machine
    PROVE  Complete(c) <=> \A m \in c : Follows(m) \subseteq c
<1>1. CASE direction = "up"
  BY <1>1 DEF Complete, Follows
<1>2. CASE direction = "down"
  BY <1>2 DEF Complete, Follows, Edges
<1> QED
  BY <1>1, <1>2 DEF TypeOK

LEMMA StepClosing == TypeOK /\ ClosingInv /\ [Next]_vars => ClosingInv'
<1> SUFFICES ASSUME TypeOK, ClosingInv, [Next]_vars PROVE ClosingInv'
  OBVIOUS
<1>0. UNCHANGED input
  BY InputStays
<1>1. ASSUME NEW m \in Machine, Follow(m) PROVE ClosingInv'
  <2>1. \A n \in (wanted \ queue)' : Follows(n) \subseteq wanted'
    BY <1>1 DEF Follow, ClosingInv
  <2>2. Follows(m) \subseteq Machine
    BY FollowsTyped
  <2> QED
    BY <1>0, <1>1, <2>1, <2>2, InputKept DEF Follow, ClosingInv, input, TypeOK
<1>2. CASE UNCHANGED <<wanted, queue>> /\ (phase' = "closing" => phase = "closing")
           /\ (phase' # phase => queue = {})
  BY <1>0, <1>2, InputKept DEF ClosingInv, input
<1> QED
  BY <1>1, <1>2 DEF Next, Step, Targeted, Wave, WaveDeadlock, Waved, ProvisionRound,
                    ProvisionDeadlock, Planned, Over, vars, ClosingInv

LEMMA StepLeast == TypeOK /\ LeastInv /\ [Next]_vars => LeastInv'
<1> SUFFICES ASSUME TypeOK, LeastInv, [Next]_vars PROVE LeastInv'
  OBVIOUS
<1>0. UNCHANGED input
  BY InputStays
<1>1. ASSUME NEW m \in Machine, Follow(m) PROVE LeastInv'
  <2> SUFFICES ASSUME subset # {}, NEW c \in SUBSET Machine, subset \subseteq c, Complete(c)
               PROVE  wanted' \subseteq c
    BY <1>0, InputKept DEF LeastInv, input
  <2>1. wanted \subseteq c
    BY DEF LeastInv
  <2>2. Follows(m) \subseteq c
    BY <1>1, <2>1, CompleteFollows DEF Follow, TypeOK
  <2> QED
    BY <1>1, <2>1, <2>2 DEF Follow
<1>2. CASE UNCHANGED wanted
  BY <1>0, <1>2, InputKept DEF LeastInv, input
<1> QED
  BY <1>1, <1>2 DEF Next, Step, Targeted, Wave, WaveDeadlock, Waved, ProvisionRound,
                    ProvisionDeadlock, Planned, Over, vars

LEMMA TargetsInit == Init => ClosingInv /\ LeastInv
<1> SUFFICES ASSUME Init PROVE ClosingInv /\ LeastInv
  OBVIOUS
<1>1. ASSUME NEW m \in wanted \ queue PROVE Follows(m) \subseteq wanted
  BY <1>1, FollowsTyped, InitTyped DEF Init
<1> QED
  BY <1>1 DEF Init, ClosingInv, LeastInv

\* A partial `up' or `down' covers what it was asked for and everything that
\* pulls in: "a partial operation never leaves the lab in a state its own
\* depends_on declarations say is impossible".
THEOREM ClosedHolds == Spec => []Closed
<1>1. TypeOK /\ ClosingInv => Closed
  <2> SUFFICES ASSUME TypeOK, ClosingInv, phase # "closing" PROVE Complete(wanted)
    BY DEF Closed, ClosingInv
  <2> QED
    BY CompleteFollows DEF ClosingInv, TypeOK
<1> QED
  BY <1>1, PlanTypeCorrect, TargetsInit, StepClosing, PTL DEF Spec

\* ... and nothing that some complete set of machines could do without.
THEOREM LeastHolds == Spec => []Least
<1>1. LeastInv => Least
  BY DEF LeastInv, Least
<1> QED
  BY <1>1, PlanTypeCorrect, TargetsInit, StepLeast, PTL DEF Spec

-----------------------------------------------------------------------------
(* The waves. *)

LEMMA StepWaves == TypeOK /\ WaveInv /\ [Next]_vars => WaveInv'
<1> SUFFICES ASSUME TypeOK, WaveInv, [Next]_vars PROVE WaveInv'
  OBVIOUS
<1>0. UNCHANGED input
  BY InputStays
<1>1. CASE Wave
  <2> DEFINE w == {m \in remaining : Clear(m)}
  <2>0. PICK n \in Nat : n = Len(waves)
    BY DEF TypeOK
  <2>1. /\ Len(waves') = n + 1 /\ waves'[n + 1] = w
        /\ \A i \in 1 .. n : waves'[i] = waves[i]
    BY <1>1, <2>0 DEF Wave, TypeOK
  <2>2. w \subseteq remaining /\ remaining' = remaining \ w /\ done' = done \cup w
    BY <1>1 DEF Wave
  <2>3. phase = "waving" /\ phase' = "waving" /\ wanted' = wanted
    BY <1>1 DEF Wave
  <2>4. \A m \in w : Edges(m) \cap wanted \subseteq done
    BY DEF Clear
  <2> HIDE DEF w
  <2>5. \A m \in Machine : m \in done' <=> \E i \in 1 .. Len(waves') : m \in waves'[i]
    <3> SUFFICES ASSUME NEW m \in Machine
                 PROVE  m \in done' <=> \E i \in 1 .. n + 1 : m \in waves'[i]
      BY <2>1
    <3>1. (\E i \in 1 .. n + 1 : m \in waves'[i]) <=> m \in w \/ \E i \in 1 .. n : m \in waves[i]
      BY <2>1
    <3> QED
      BY <2>0, <2>2, <3>1 DEF WaveInv
  <2>6. ASSUME NEW i \in 1 .. n PROVE Earlier(i)'
    <3> SUFFICES ASSUME NEW m \in waves[i]
                 PROVE  /\ \A d \in Edges(m) \cap wanted : \E j \in 1 .. i - 1 : d \in waves'[j]
                        /\ \A j \in 1 .. n + 1 : m \in waves'[j] => j = i
      BY <1>0, <2>1, <2>3, InputKept DEF Earlier
    <3>1. Earlier(i) /\ waves[i] \subseteq Machine
      BY <2>0, <2>1 DEF WaveInv, TypeOK
    <3>2. m \in done /\ m \notin w
      BY <2>0, <2>2, <2>3, <3>1 DEF WaveInv
    <3>3. \A j \in 1 .. i - 1 : waves'[j] = waves[j]
      BY <2>1
    <3>4. \A j \in 1 .. n + 1 : m \in waves'[j] => j = i
      BY <2>0, <2>1, <3>1, <3>2 DEF Earlier
    <3> QED
      BY <3>1, <3>3, <3>4 DEF Earlier
  <2>7. Earlier(n + 1)'
    <3> SUFFICES ASSUME NEW m \in w
                 PROVE  /\ \A d \in Edges(m) \cap wanted : \E j \in 1 .. n : d \in waves'[j]
                        /\ \A j \in 1 .. n + 1 : m \in waves'[j] => j = n + 1
      BY <1>0, <2>1, <2>3, InputKept DEF Earlier
    <3>1. m \in Machine /\ m \notin done
      BY <2>2, <2>3 DEF WaveInv, TypeOK
    <3>2. \A d \in Edges(m) \cap wanted : \E j \in 1 .. n : d \in waves'[j]
      <4> SUFFICES ASSUME NEW d \in Edges(m) \cap wanted
                   PROVE  \E j \in 1 .. n : d \in waves'[j]
        OBVIOUS
      <4>1. d \in done /\ d \in Machine
        BY <2>4 DEF TypeOK
      <4>2. PICK j \in 1 .. n : d \in waves[j]
        BY <2>0, <4>1 DEF WaveInv
      <4> QED
        BY <2>1, <4>2
    <3>3. ASSUME NEW j \in 1 .. n + 1, m \in waves'[j] PROVE j = n + 1
      BY <2>0, <2>1, <3>1, <3>3 DEF WaveInv
    <3> QED
      BY <3>2, <3>3
  <2>8. \A i \in 1 .. Len(waves') : Earlier(i)'
    BY <2>1, <2>6, <2>7
  <2>9. done' \cup remaining' = wanted' /\ done' \cap remaining' = {}
    BY <2>2, <2>3 DEF WaveInv
  <2> QED
    BY <2>3, <2>5, <2>8, <2>9 DEF WaveInv
<1>2. ASSUME NEW m \in Machine, Follow(m) PROVE WaveInv'
  BY <1>2 DEF Follow, WaveInv, Earlier
<1>3. CASE Targeted
  BY <1>3 DEF Targeted, WaveInv, Earlier
<1>4. CASE /\ UNCHANGED <<wanted, remaining, done, waves>>
           /\ phase' = "closing" <=> phase = "closing"
           /\ phase' \in {"checking", "planned"} /\ phase' # phase => remaining = {}
  <2>1. \A i \in 1 .. Len(waves) : Earlier(i)'
    BY <1>0, <1>4, InputKept DEF WaveInv, Earlier
  <2> QED
    BY <1>4, <2>1 DEF WaveInv
<1> QED
  BY <1>1, <1>2, <1>3, <1>4 DEF Next, Step, WaveDeadlock, Waved, ProvisionRound,
                                ProvisionDeadlock, Planned, Over, vars, WaveInv

LEMMA WavesInit == Init => WaveInv
BY DEF Init, WaveInv

\* Every target is in exactly one wave, after everything it must come after: what
\* `up' starts together, and `down' stops together, never depends on each other.
THEOREM OrderedHolds == Spec => []Ordered
<1>1. TypeOK /\ WaveInv => Ordered
  <2> SUFFICES ASSUME TypeOK, WaveInv, phase \in {"checking", "planned"} PROVE Ordered
    BY DEF Ordered
  <2>1. done = wanted
    BY DEF WaveInv
  <2>2. \A i \in 1 .. Len(waves) : waves[i] \subseteq wanted
    BY <2>1 DEF WaveInv, TypeOK
  <2>3. \A m \in wanted : \E i \in 1 .. Len(waves) : m \in waves[i]
    BY <2>1 DEF WaveInv, TypeOK
  <2> QED
    BY <2>2, <2>3 DEF Ordered, WaveInv, Earlier
<1> QED
  BY <1>1, PlanTypeCorrect, WavesInit, StepWaves, PTL DEF Spec

-----------------------------------------------------------------------------
(* The knots. *)

LEMMA StepKnots == TypeOK /\ ClosingInv /\ WaveInv /\ KnotInv /\ [Next]_vars => KnotInv'
<1> SUFFICES ASSUME TypeOK, ClosingInv, WaveInv, KnotInv, [Next]_vars PROVE KnotInv'
  OBVIOUS
<1>0. /\ UNCHANGED input
      /\ \A k : KnotOfEdges(k)' = KnotOfEdges(k) /\ KnotOfAfter(k)' = KnotOfAfter(k)
  BY InputStays, InputKept DEF KnotOfEdges, KnotOfAfter, input
<1>1. ASSUME NEW m \in Machine, Follow(m) PROVE KnotInv'
  BY <1>1 DEF Follow, KnotInv, WaveInv
<1>2. CASE Targeted
  BY <1>2 DEF Targeted, KnotInv, WaveInv
<1>3. CASE Wave
  <2>1. ASSUME NEW k \in SUBSET wanted, KnotOfEdges(k), NEW m \in k, m \in done' PROVE FALSE
    <3>1. m \notin done
      BY <2>1 DEF KnotInv
    <3>2. Clear(m)
      BY <1>3, <2>1, <3>1 DEF Wave
    <3>3. PICK d \in k : d \in Edges(m)
      BY <2>1 DEF KnotOfEdges
    <3>4. d \in done
      BY <3>2, <3>3 DEF Clear
    <3> QED
      BY <2>1, <3>4 DEF KnotInv
  <2> QED
    BY <1>0, <1>3, <2>1 DEF Wave, KnotInv, input
<1>4. CASE WaveDeadlock
  <2>1. ASSUME NEW m \in remaining PROVE Edges(m) \cap remaining # {}
    BY <1>4, <2>1 DEF WaveDeadlock, Clear, WaveInv
  <2>2. KnotOfEdges(remaining) /\ remaining \in SUBSET wanted
    BY <1>4, <2>1 DEF WaveDeadlock, KnotOfEdges, WaveInv
  <2> QED
    BY <1>0, <1>4, <2>2 DEF WaveDeadlock, KnotInv, input
<1>5. CASE Waved
  BY <1>0, <1>5 DEF Waved, KnotInv, input, TypeOK
<1>6. CASE ProvisionRound
  <2>1. ASSUME NEW k \in SUBSET wanted, KnotOfAfter(k), NEW m \in k PROVE m \notin Provisionable
    <3>1. k \subseteq waiting
      BY <1>6, <2>1 DEF ProvisionRound, KnotInv
    <3>2. after[m] \cap k # {}
      BY <2>1 DEF KnotOfAfter
    <3> QED
      BY <3>1, <3>2 DEF Provisionable
  <2> QED
    BY <1>0, <1>6, <2>1 DEF ProvisionRound, KnotInv, input
<1>7. CASE ProvisionDeadlock
  <2>1. direction = "up" /\ waiting # {} /\ waiting \subseteq wanted
    BY <1>7 DEF ProvisionDeadlock, KnotInv
  <2>2. ASSUME NEW m \in waiting PROVE after[m] \cap waiting # {}
    <3>1. after[m] \subseteq wanted
      BY <1>7, <2>1 DEF ProvisionDeadlock, ClosingInv, Follows
    <3> QED
      BY <1>7, <3>1 DEF ProvisionDeadlock, Provisionable
  <2>3. KnotOfAfter(waiting)
    BY <2>1, <2>2 DEF KnotOfAfter
  <2> QED
    BY <1>0, <1>7, <2>1, <2>3 DEF ProvisionDeadlock, KnotInv, input
<1>8. CASE Planned
  BY <1>0, <1>8 DEF Planned, KnotInv, input
<1>9. CASE Over \/ UNCHANGED vars
  BY <1>0, <1>9 DEF Over, vars, KnotInv, input
<1> QED
  BY <1>1, <1>2, <1>3, <1>4, <1>5, <1>6, <1>7, <1>8, <1>9 DEF Next, Step

LEMMA KnotsInit == Init => KnotInv
BY DEF Init, KnotInv

\* plan() refuses a schedule that would wait for ever, and no other: it "keeps
\* the plan from ever handing the runtime a schedule that would wait forever".
THEOREM RefusesKnotsHolds == Spec => []RefusesKnots
<1>1. TypeOK /\ WaveInv /\ KnotInv => RefusesKnots
  <2> SUFFICES ASSUME TypeOK, WaveInv, KnotInv, phase = "planned", NEW k \in SUBSET wanted
               PROVE  ~KnotOfEdges(k) /\ (direction = "up" => ~KnotOfAfter(k))
    BY DEF RefusesKnots, KnotInv
  <2>1. ~KnotOfEdges(k)
    BY DEF WaveInv, KnotInv, KnotOfEdges
  <2>2. direction = "up" => ~KnotOfAfter(k)
    BY DEF KnotInv, KnotOfAfter
  <2> QED
    BY <2>1, <2>2
<1> QED
  BY <1>1, PlanTypeCorrect, TargetsInit, WavesInit, KnotsInit,
     StepClosing, StepWaves, StepKnots, PTL DEF Spec

-----------------------------------------------------------------------------
(* The loops end. *)

\* One round of a loop, whichever it is, is progress.
LEMMA StepProgresses == TypeOK /\ [Next]_vars => [Advances \/ Narrows]_vars
<1> SUFFICES ASSUME TypeOK, Next, vars' # vars
             PROVE  Advances \/ Narrows
  OBVIOUS
<1>1. ASSUME NEW m \in Machine, Follow(m)
      PROVE  Narrows
  <2>1. CASE Follows(m) \subseteq wanted
    BY <1>1, <2>1 DEF Follow, Narrows, Shrinks
  <2>2. CASE ~(Follows(m) \subseteq wanted)
    BY <1>1, <2>2 DEF Follow, Narrows
  <2> QED
    BY <2>1, <2>2
<1>2. CASE Targeted
  BY <1>2 DEF Targeted, Advances
<1>3. CASE Wave
  BY <1>3 DEF Wave, Narrows, Shrinks
<1>4. CASE WaveDeadlock
  BY <1>4 DEF WaveDeadlock, Advances
<1>5. CASE Waved
  BY <1>5 DEF Waved, Advances
<1>6. CASE ProvisionRound
  BY <1>6 DEF ProvisionRound, Provisionable, Narrows, Shrinks
<1>7. CASE ProvisionDeadlock
  BY <1>7 DEF ProvisionDeadlock, Advances
<1>8. CASE Planned
  BY <1>8 DEF Planned, Advances
<1>9. CASE Over
  BY <1>9 DEF Over
<1> QED
  BY <1>1, <1>2, <1>3, <1>4, <1>5, <1>6, <1>7, <1>8, <1>9 DEF Next, Step

\* plan()'s three loops make progress at every round, on every lab: none of them
\* goes round for ever on a cycle.
THEOREM ProgressesHolds == Spec => Progresses
BY PlanTypeCorrect, StepProgresses, PTL DEF Spec, Progresses
=============================================================================
