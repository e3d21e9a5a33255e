----------------------------- MODULE LabUpProofs -----------------------------
(***************************************************************************)
(* The orders an `up' and a `down' keep, and what a success of `up' means, *)
(* for any lab, any number of `up's and `down's at once and any mishaps.   *)
(* Most leaves are first-order, and USE Zenon makes it the prover of a     *)
(* proof; the leaves it does not find name SMT.                            *)
(***************************************************************************)
EXTENDS LabUp, TLAPS

FirstBooting == {"waking", "scripting", "scripted"}
TaskStage    == Live \cup Ended \cup {"stopping"}
ProvStage    == ProvLive \cup {"none", "ok", "failed", "cancelled", "joined"}

\* The type invariant in three parts, with what the stages mean for the types:
\* only a machine that owed a first boot is in one, ...
TaskInv ==
    /\ task \in [Call -> [Machine -> TaskStage]]
    /\ \A u \in Up, m \in Machine : task[u][m] \in FirstBooting => m \in FirstBoot

\* ... and steps are counted from zero to Steps.
StepInv ==
    /\ prov \in [Up -> [Machine -> ProvStage]]
    /\ step \in [Up -> [Machine -> Nat]]
    /\ \A u \in Up, m \in Machine :
           /\ step[u][m] <= Steps[m]
           /\ prov[u][m] \in {"none", "gate", "after"} => step[u][m] = 0
           /\ prov[u][m] = "stepping" => step[u][m] < Steps[m]

LabInv ==
    /\ running \subseteq Machine /\ answering \subseteq running
    /\ ready \subseteq Machine /\ wasReady \subseteq Machine
    /\ pending \subseteq FirstBoot /\ claims \subseteq FirstBoot
    /\ scripts \subseteq Up \X FirstBoot
    /\ crashes \in 0 .. MaxCrashes

CallInv ==
    /\ phase \in [Call -> {"idle", "waves", "draining", "abandoning", "ok", "failed"}]
    /\ wave \in [Call -> SUBSET Machine] /\ past \in [Call -> SUBSET Machine]
    /\ finished \in [Up -> SUBSET Machine]
    /\ alone \subseteq Down

TypeInv == TaskInv /\ StepInv /\ LabInv /\ CallInv

-----------------------------------------------------------------------------
(* Moves. *)

LEMMA Stages ==
    /\ {"starting", "started", "waking", "scripting", "scripted", "gating", "none", "ok",
        "failed", "joined", "aborted", "stopping"} \subseteq TaskStage
    /\ {"gate", "after", "stepping", "none", "ok", "failed", "cancelled", "joined"} \subseteq ProvStage
BY DEF TaskStage, ProvStage, Live, Ended, ProvLive

\* A task's move changes the stage of that task and of no other.
LEMMA TaskMoves ==
    ASSUME TaskInv, NEW c \in Call, NEW m \in Machine, NEW from, NEW to,
           TaskAt(c, m, from, to)
    PROVE  /\ task[c][m] = from /\ task'[c][m] = to
           /\ \A d \in Call, n \in Machine : d # c \/ n # m => task'[d][n] = task[d][n]
BY DEF TaskAt, TaskInv

LEMMA ProvMoves ==
    ASSUME StepInv, NEW u \in Up, NEW m \in Machine, NEW from, NEW to,
           ProvAt(u, m, from, to)
    PROVE  /\ prov[u][m] = from /\ prov'[u][m] = to
           /\ \A v \in Up, n \in Machine : v # u \/ n # m => prov'[v][n] = prov[v][n]
BY DEF ProvAt, StepInv

\* A call that begins a wave gives its machines a task, and touches no other.
LEMMA EnterLeaves ==
    ASSUME TaskInv, CallInv, NEW c, NEW done, NEW first, Enter(c, done, first),
           NEW d \in Call, d # c
    PROVE  /\ past'[d] = past[d] /\ wave'[d] = wave[d]
           /\ \A m \in Machine : task'[d][m] = task[d][m]
BY DEF Enter, TaskInv, CallInv

LEMMA EnterGives ==
    ASSUME TaskInv, CallInv, NEW c \in Call, NEW done, NEW first, Enter(c, done, first)
    PROVE  /\ past'[c] = done /\ wave'[c] = WaveAfter(c, done)
           /\ \A m \in WaveAfter(c, done) : task'[c][m] = first
           /\ \A m \in Machine \ WaveAfter(c, done) : task'[c][m] = task[c][m]
BY DEF Enter, TaskInv, CallInv, WaveAfter

LEMMA FinishMoves ==
    ASSUME CallInv, NEW u \in Up, NEW m \in Machine, Finish(u, m)
    PROVE  /\ finished' \in [Up -> SUBSET Machine]
           /\ finished'[u] = finished[u] \cup {m}
           /\ \A v \in Up \ {u} : finished'[v] = finished[v]
BY DEF Finish, CallInv

\* A `down' that stops a machine moves no `up'.
LEMMA StopKeepsUps ==
    ASSUME TaskInv, NEW d \in Down, NEW m \in Machine, Stop(d, m)
    PROVE  \A u \in Up, n \in Machine : task'[u][n] = task[u][n]
<1> USE Zenon
<1>1. d \in Call /\ Up \subseteq Call /\ d \notin Up
  BY LabAssumption DEF Call
<1>2. PICK to \in {"ok", "failed"} : TaskAt(d, m, "stopping", to)
  BY DEF Stop
<1>4. \A c \in Call, n \in Machine : c # d \/ n # m => task'[c][n] = task[c][n]
  BY <1>1, <1>2, TaskMoves, SMT
<1> QED
  BY <1>1, <1>4

-----------------------------------------------------------------------------
(* Frames: the steps that touch a part of the state. *)

TaskStep ==
    \/ \E u \in Up, m \in Machine :
           \/ Start(u, m) \/ TakeFirstBoot(u, m) \/ Wake(u, m) \/ ScriptEnds(u, m)
           \/ ScriptTimesOut(u, m) \/ FirstBootDone(u, m) \/ Gate(u, m) \/ JoinStarted(u, m)
    \/ \E u \in Up : UpAsks(u) \/ NextWave(u) \/ Abandon(u)
    \/ \E d \in Down : DownAsks(d) \/ DownNextWave(d)
    \/ \E d \in Down, m \in Machine : Stop(d, m)

\* Only these steps move a task or end a wave.
LEMMA TaskFrame == [Next]_vars => TaskStep \/ UNCHANGED <<past, task>>
<1> USE Zenon
<1>1. ASSUME NEW u \in Up, NEW m \in Machine, Provision(u, m) \/ JoinProvisioned(u, m)
      PROVE  UNCHANGED <<past, task>>
  BY <1>1 DEF Provision, ProvisionGate, ProvisionAfter, RunStep, JoinProvisioned
<1>2. ASSUME NEW c \in Call, Abandoned(c) \/ Drained(c) \/ DownFails(c)
      PROVE  UNCHANGED <<past, task>>
  BY <1>2 DEF Abandoned, Drained, DownFails
<1>3. ASSUME NEW m \in Machine, AgentAnswers(m) \/ BecomesReady(m) \/ Crash(m)
      PROVE  UNCHANGED <<past, task>>
  BY <1>3 DEF AgentAnswers, BecomesReady, Crash, calls
<1>4. ASSUME Rest \/ UNCHANGED vars
      PROVE  UNCHANGED <<past, task>>
  BY <1>4 DEF Rest, vars, calls
<1> QED
  BY <1>1, <1>2, <1>3, <1>4 DEF Next, Joins, Task, TaskStep, Call

ProvStep ==
    \E u \in Up, m \in Machine :
        \/ ProvisionGate(u, m) \/ ProvisionAfter(u, m) \/ RunStep(u, m)
        \/ JoinStarted(u, m) \/ JoinProvisioned(u, m)

\* Only these steps move a provisioning.
LEMMA ProvFrame == [Next]_vars => ProvStep \/ UNCHANGED <<prov, step, finished>>
<1> USE Zenon
<1>1. ASSUME NEW u \in Up, NEW m \in Machine, Task(u, m)
      PROVE  UNCHANGED <<prov, step, finished>>
  BY <1>1 DEF Task, Start, TakeFirstBoot, Wake, ScriptEnds, ScriptTimesOut, FirstBootDone, Gate
<1>2. ASSUME NEW u \in Up,
             UpAsks(u) \/ Abandon(u) \/ Abandoned(u) \/ NextWave(u) \/ Drained(u)
      PROVE  UNCHANGED <<prov, step, finished>>
  BY <1>2 DEF UpAsks, Abandon, Abandoned, NextWave, Drained
<1>3. ASSUME NEW d \in Down, DownAsks(d) \/ DownNextWave(d) \/ DownFails(d)
      PROVE  UNCHANGED <<prov, step, finished>>
  BY <1>3 DEF DownAsks, DownNextWave, DownFails
<1>4. ASSUME NEW d \in Down, NEW m \in Machine, Stop(d, m)
      PROVE  UNCHANGED <<prov, step, finished>>
  BY <1>4 DEF Stop
<1>5. ASSUME NEW m \in Machine, AgentAnswers(m) \/ BecomesReady(m) \/ Crash(m)
      PROVE  UNCHANGED <<prov, step, finished>>
  BY <1>5 DEF AgentAnswers, BecomesReady, Crash, calls
<1>6. ASSUME Rest \/ UNCHANGED vars
      PROVE  UNCHANGED <<prov, step, finished>>
  BY <1>6 DEF Rest, vars, calls
<1> QED
  BY <1>1, <1>2, <1>3, <1>4, <1>5, <1>6 DEF Next, Joins, Provision, ProvStep

-----------------------------------------------------------------------------
(* Types. *)

LEMMA InitTyped == Init => TypeInv
BY LabAssumption, Stages DEF Init, TypeInv, TaskInv, StepInv, LabInv, CallInv, FirstBooting,
   Call

LEMMA TaskKept ==
    ASSUME TaskInv, NEW c \in Call, NEW m \in Machine, NEW from, NEW to \in TaskStage,
           TaskAt(c, m, from, to), to \in FirstBooting => m \in FirstBoot
    PROVE  TaskInv'
<1>1. task' \in [Call -> [Machine -> TaskStage]]
  BY DEF TaskAt, TaskInv
<1>2. /\ task'[c][m] = to
      /\ \A d \in Call, n \in Machine : d # c \/ n # m => task'[d][n] = task[d][n]
  BY TaskMoves
<1> QED
  BY <1>1, <1>2 DEF TaskInv, Call

LEMMA EnterKept ==
    ASSUME TaskInv, CallInv, NEW c \in Call, NEW done \in SUBSET Machine,
           NEW first \in {"starting", "stopping"}, Enter(c, done, first)
    PROVE  TaskInv'
<1> USE Zenon
<1>1. first \in TaskStage
  BY Stages
<1>2. task' \in [Call -> [Machine -> TaskStage]]
  BY <1>1 DEF Enter, TaskInv
<1>3. /\ \A d \in Call \ {c}, m \in Machine : task'[d][m] = task[d][m]
      /\ \A m \in Machine : task'[c][m] \in {first, task[c][m]}
  BY EnterLeaves, EnterGives, SMT
<1> QED
  BY <1>2, <1>3 DEF TaskInv, Call, FirstBooting

LEMMA StepTask == TypeInv /\ [Next]_vars => TaskInv'
<1> SUFFICES ASSUME TypeInv, [Next]_vars PROVE TaskInv'
  OBVIOUS
<1> USE Zenon, Stages, LabAssumption DEF TypeInv, FirstBooting
<1>0. Up \subseteq Call /\ Down \subseteq Call
  BY DEF Call
<1>1. ASSUME NEW u \in Up, NEW m \in Machine, Start(u, m) PROVE TaskInv'
  BY <1>0, <1>1, TaskKept DEF Start
<1>2. ASSUME NEW u \in Up, NEW m \in Machine, TakeFirstBoot(u, m) PROVE TaskInv'
  <2>1. TaskAt(u, m, "started", "gating") \/ (TaskAt(u, m, "started", "waking") /\ m \in FirstBoot)
    BY <1>2 DEF TakeFirstBoot, LabInv
  <2> QED
    BY <1>0, <2>1, TaskKept
<1>3. ASSUME NEW u \in Up, NEW m \in Machine, Wake(u, m) \/ ScriptEnds(u, m) PROVE TaskInv'
  <2>1. task[u][m] \in FirstBooting => m \in FirstBoot
    BY DEF TaskInv
  <2>2. CASE Wake(u, m)
    <3>1. m \in FirstBoot
      BY <2>1, <2>2 DEF Wake, TaskAt
    <3> QED
      BY <1>0, <2>2, <3>1, TaskKept DEF Wake
  <2>3. CASE ScriptEnds(u, m) /\ task[u][m] = "scripting"
    BY <1>0, <2>1, <2>3, TaskKept DEF ScriptEnds
  <2>4. CASE UNCHANGED task
    BY <2>4 DEF TaskInv
  <2> QED
    BY <1>3, <2>2, <2>3, <2>4 DEF ScriptEnds
<1>4. ASSUME NEW u \in Up, NEW m \in Machine,
             ScriptTimesOut(u, m) \/ FirstBootDone(u, m) \/ Gate(u, m) \/ JoinStarted(u, m)
      PROVE  TaskInv'
  BY <1>0, <1>4, TaskKept DEF ScriptTimesOut, FirstBootDone, Gate, JoinStarted
<1>5. ASSUME NEW u \in Up, UpAsks(u) PROVE TaskInv'
  BY <1>0, <1>5, EnterKept DEF UpAsks
<1>6. ASSUME NEW c \in Call, NextWave(c) \/ DownNextWave(c) PROVE TaskInv'
  <2>1. past[c] \cup wave[c] \in SUBSET Machine
    BY DEF CallInv
  <2>2. CASE UNCHANGED task
    BY <2>2 DEF TaskInv
  <2> QED
    BY <1>6, <2>1, <2>2, EnterKept DEF NextWave, DownNextWave
<1>7. ASSUME NEW u \in Up, Abandon(u) PROVE TaskInv'
  <2>1. /\ task' \in [Call -> [Machine -> TaskStage]]
        /\ \A c \in Call, m \in Machine : task'[c][m] \in {"aborted", task[c][m]}
    BY <1>7, Zenon DEF Abandon, TaskInv
  <2> QED
    BY <1>0, <2>1 DEF TaskInv
<1>8. ASSUME NEW d \in Down, DownAsks(d) PROVE TaskInv'
  BY <1>0, <1>8, EnterKept DEF DownAsks
<1>9. ASSUME NEW d \in Down, NEW m \in Machine, Stop(d, m) PROVE TaskInv'
  BY <1>0, <1>9, TaskKept DEF Stop
<1>10. CASE UNCHANGED task
  BY <1>10 DEF TaskInv
<1> QED
  BY <1>0, <1>1, <1>2, <1>3, <1>4, <1>5, <1>6, <1>7, <1>8, <1>9, <1>10, TaskFrame DEF TaskStep

LEMMA ProvKept ==
    ASSUME StepInv, NEW u \in Up, NEW m \in Machine, NEW from, NEW to \in ProvStage,
           ProvAt(u, m, from, to), UNCHANGED step,
           to \in {"none", "gate", "after"} => step[u][m] = 0,
           to = "stepping" => step[u][m] < Steps[m]
    PROVE  StepInv'
<1>1. prov' \in [Up -> [Machine -> ProvStage]]
  BY DEF ProvAt, StepInv
<1>2. /\ prov'[u][m] = to
      /\ \A v \in Up, n \in Machine : v # u \/ n # m => prov'[v][n] = prov[v][n]
  BY ProvMoves
<1> QED
  BY <1>1, <1>2 DEF StepInv

LEMMA StepSteps == TypeInv /\ [Next]_vars => StepInv'
<1> SUFFICES ASSUME TypeInv, [Next]_vars PROVE StepInv'
  OBVIOUS
<1> USE Zenon, Stages, LabAssumption DEF TypeInv
<1>0. \A u \in Up, m \in Machine :
          /\ prov[u][m] \in {"none", "gate", "after"} => step[u][m] = 0
          /\ Steps[m] # 0 => 0 < Steps[m]
  BY SMT DEF StepInv
<1>1. ASSUME NEW u \in Up, NEW m \in Machine, ProvisionGate(u, m) PROVE StepInv'
  <2>1. step[u][m] = 0 /\ UNCHANGED step
    BY <1>0, <1>1 DEF ProvisionGate, ProvAt
  <2> QED
    BY <1>1, <2>1, ProvKept DEF ProvisionGate
<1>2. ASSUME NEW u \in Up, NEW m \in Machine, ProvisionAfter(u, m) PROVE StepInv'
  <2>1. step[u][m] = 0 /\ UNCHANGED step
    BY <1>0, <1>2 DEF ProvisionAfter, ProvAt
  <2> QED
    BY <1>0, <1>2, <2>1, ProvKept DEF ProvisionAfter
<1>3. ASSUME NEW u \in Up, NEW m \in Machine, RunStep(u, m) PROVE StepInv'
  <2>1. CASE UNCHANGED step
    <3>1. ProvAt(u, m, "stepping", "failed") \/ ProvAt(u, m, "stepping", "cancelled")
      <4>1. step[u][m] + 1 # step[u][m] /\ step # [step EXCEPT ![u][m] = @ + 1]
        BY SMT DEF StepInv
      <4> QED
        BY <1>3, <2>1, <4>1 DEF RunStep
    <3>2. PICK to \in {"failed", "cancelled"} : ProvAt(u, m, "stepping", to)
      BY <3>1
    <3>3. to \in ProvStage /\ to \notin {"none", "gate", "after", "stepping"} /\ StepInv
      BY <3>2
    <3> QED
      BY <2>1, <3>2, <3>3, ProvKept
  <2>2. CASE step' = [step EXCEPT ![u][m] = @ + 1]
    <3>1. /\ step' \in [Up -> [Machine -> Nat]] /\ step'[u][m] = step[u][m] + 1
          /\ \A v \in Up, n \in Machine : v # u \/ n # m => step'[v][n] = step[v][n]
      BY <2>2, SMT DEF StepInv
    <3>2. step[u][m] < Steps[m]
      BY <1>3 DEF RunStep, ProvAt, StepInv
    <3>0. step[u][m] \in Nat /\ Steps[m] \in Nat /\ step' # step
      BY <3>1, SMT DEF StepInv
    <3>3. \/ step[u][m] + 1 = Steps[m] /\ ProvAt(u, m, "stepping", "ok")
          \/ step[u][m] + 1 < Steps[m] /\ ProvAt(u, m, "stepping", "stepping")
      <4>1. CASE step[u][m] + 1 = Steps[m]
        BY <1>3, <3>0, <4>1 DEF RunStep
      <4>2. CASE step[u][m] + 1 # Steps[m]
        <5>1. ProvAt(u, m, "stepping", "stepping")
          BY <1>3, <3>0, <4>2 DEF RunStep
        <5> QED
          BY <3>0, <3>2, <4>2, <5>1, SMT
      <4> QED
        BY <4>1, <4>2
    <3>4. PICK to \in ProvStage :
              /\ ProvAt(u, m, "stepping", to) /\ to \notin {"none", "gate", "after"}
              /\ to = "stepping" => step[u][m] + 1 < Steps[m]
      BY <3>3
    <3>t. prov' \in [Up -> [Machine -> ProvStage]]
      BY <3>4 DEF ProvAt, StepInv
    <3>5. /\ prov'[u][m] = to
          /\ \A v \in Up, n \in Machine : v # u \/ n # m => prov'[v][n] = prov[v][n]
      BY <3>4, ProvMoves, SMT
    <3>6. /\ step'[u][m] <= Steps[m] /\ prov'[u][m] \notin {"none", "gate", "after"}
          /\ prov'[u][m] = "stepping" => step'[u][m] < Steps[m]
      BY <3>0, <3>1, <3>2, <3>4, <3>5, SMT
    <3>7. ASSUME NEW v \in Up, NEW n \in Machine
          PROVE  /\ step'[v][n] <= Steps[n]
                 /\ prov'[v][n] \in {"none", "gate", "after"} => step'[v][n] = 0
                 /\ prov'[v][n] = "stepping" => step'[v][n] < Steps[n]
      <4>1. CASE v = u /\ n = m
        BY <3>6, <4>1
      <4>2. CASE v # u \/ n # m
        BY <3>1, <3>5, <4>2, SMT DEF StepInv
      <4> QED
        BY <4>1, <4>2
    <3> QED
      BY <3>1, <3>t, <3>7 DEF StepInv
  <2> QED
    BY <1>3, <2>1, <2>2 DEF RunStep
<1>4. ASSUME NEW u \in Up, NEW m \in Machine, JoinStarted(u, m) \/ JoinProvisioned(u, m)
      PROVE  StepInv'
  <2>1. CASE UNCHANGED <<prov, step>>
    BY <2>1 DEF StepInv
  <2>2. CASE ProvAt(u, m, "none", "gate") /\ UNCHANGED step
    BY <1>0, <2>2, ProvKept, Zenon DEF ProvAt
  <2>3. CASE ProvAt(u, m, "ok", "joined") /\ UNCHANGED step
    BY <2>3, ProvKept
  <2> QED
    BY <1>4, <2>1, <2>2, <2>3 DEF JoinStarted, JoinProvisioned
<1>5. CASE UNCHANGED <<prov, step>>
  BY <1>5 DEF StepInv
<1> QED
  BY <1>1, <1>2, <1>3, <1>4, <1>5, ProvFrame DEF ProvStep

LEMMA StepLab == TypeInv /\ [Next]_vars => LabInv'
<1> SUFFICES ASSUME TypeInv, [Next]_vars PROVE LabInv'
  OBVIOUS
<1> USE Zenon, LabAssumption, Stages DEF TypeInv
<1>1. ASSUME NEW u \in Up, NEW m \in Machine, Start(u, m) PROVE LabInv'
  BY <1>1 DEF Start, LabInv
<1>2. ASSUME NEW u \in Up, NEW m \in Machine, TakeFirstBoot(u, m) PROVE LabInv'
  BY <1>2 DEF TakeFirstBoot, LabInv
<1>3. ASSUME NEW u \in Up, NEW m \in Machine, Wake(u, m) PROVE LabInv'
  <2>1. m \in FirstBoot
    BY <1>3 DEF Wake, TaskAt, TaskInv, FirstBooting
  <2> QED
    BY <1>3, <2>1, SMT DEF Wake, LabInv
<1>4. ASSUME NEW u \in Up, NEW m \in Machine,
             ScriptEnds(u, m) \/ ScriptTimesOut(u, m) \/ FirstBootDone(u, m)
      PROVE  LabInv'
  BY <1>4 DEF ScriptEnds, ScriptTimesOut, FirstBootDone, LabInv
<1>5. ASSUME NEW u \in Up, Abandon(u) PROVE LabInv'
  BY <1>5 DEF Abandon, LabInv
<1>6. ASSUME NEW d \in Down, NEW m \in Machine, Stop(d, m) PROVE LabInv'
  BY <1>6 DEF Stop, Stops, LabInv, lab
<1>7. ASSUME NEW m \in Machine, AgentAnswers(m) \/ BecomesReady(m) \/ Crash(m) PROVE LabInv'
  BY <1>7, SMT DEF AgentAnswers, BecomesReady, Crash, Stops, LabInv
<1>8. CASE UNCHANGED lab
  BY <1>8 DEF lab, LabInv
<1>9. ASSUME NEW u \in Up, NEW m \in Machine,
             Gate(u, m) \/ Provision(u, m) \/ JoinStarted(u, m) \/ JoinProvisioned(u, m)
      PROVE  UNCHANGED lab
  BY <1>9 DEF Gate, Provision, ProvisionGate, ProvisionAfter, RunStep, JoinStarted, JoinProvisioned
<1>10. ASSUME NEW u \in Up, UpAsks(u) \/ Abandoned(u) \/ NextWave(u) \/ Drained(u)
       PROVE  UNCHANGED lab
  BY <1>10 DEF UpAsks, Abandoned, NextWave, Drained
<1>11. ASSUME NEW d \in Down, DownAsks(d) \/ DownNextWave(d) \/ DownFails(d)
       PROVE  UNCHANGED lab
  BY <1>11 DEF DownAsks, DownNextWave, DownFails
<1>12. ASSUME Rest \/ UNCHANGED vars PROVE UNCHANGED lab
  BY <1>12 DEF Rest, vars
<1> QED
  BY <1>1, <1>2, <1>3, <1>4, <1>5, <1>6, <1>7, <1>8, <1>9, <1>10, <1>11, <1>12
     DEF Next, Joins, Task

LEMMA StepCall == TypeInv /\ [Next]_vars => CallInv'
<1> SUFFICES ASSUME TypeInv, [Next]_vars PROVE CallInv'
  OBVIOUS
<1> USE Zenon, LabAssumption, Stages DEF TypeInv, Call
<1>1. ASSUME NEW u \in Up, NEW m \in Machine,
             ProvisionAfter(u, m) \/ RunStep(u, m) \/ JoinStarted(u, m)
      PROVE  CallInv'
  <2>1. UNCHANGED <<phase, wave, past, alone>> /\ (Finish(u, m) \/ UNCHANGED finished)
    BY <1>1 DEF ProvisionAfter, RunStep, JoinStarted
  <2>2. finished' \in [Up -> SUBSET Machine]
    BY <2>1, FinishMoves DEF CallInv
  <2> QED
    BY <2>1, <2>2 DEF CallInv
<1>2. ASSUME NEW u \in Up, UpAsks(u) PROVE CallInv'
  BY <1>2 DEF UpAsks, Enter, WaveAfter, CallInv
<1>3. ASSUME NEW u \in Up, NextWave(u) PROVE CallInv'
  BY <1>3, SMT DEF NextWave, Enter, WaveAfter, CallInv
<1>4. ASSUME NEW u \in Up, Abandon(u) \/ Abandoned(u) \/ Drained(u) PROVE CallInv'
  BY <1>4 DEF Abandon, Abandoned, Drained, CallInv
<1>5. ASSUME NEW d \in Down, DownAsks(d) PROVE CallInv'
  BY <1>5 DEF DownAsks, Enter, WaveAfter, CallInv
<1>6. ASSUME NEW d \in Down, DownNextWave(d) PROVE CallInv'
  BY <1>6, SMT DEF DownNextWave, Enter, WaveAfter, CallInv
<1>7. ASSUME NEW d \in Down, DownFails(d) PROVE CallInv'
  BY <1>7 DEF DownFails, CallInv
<1>8. CASE UNCHANGED <<phase, wave, past, finished, alone>>
  BY <1>8 DEF CallInv
<1>9. ASSUME NEW u \in Up, NEW m \in Machine,
             Task(u, m) \/ ProvisionGate(u, m) \/ JoinProvisioned(u, m)
      PROVE  UNCHANGED <<phase, wave, past, finished, alone>>
  BY <1>9 DEF Task, Start, TakeFirstBoot, Wake, ScriptEnds, ScriptTimesOut, FirstBootDone, Gate,
     ProvisionGate, JoinProvisioned
<1>10. ASSUME NEW d \in Down, NEW m \in Machine, Stop(d, m)
       PROVE  UNCHANGED <<phase, wave, past, finished, alone>>
  BY <1>10 DEF Stop
<1>11. ASSUME NEW m \in Machine, AgentAnswers(m) \/ BecomesReady(m) \/ Crash(m)
       PROVE  UNCHANGED <<phase, wave, past, finished, alone>>
  BY <1>11 DEF AgentAnswers, BecomesReady, Crash, calls
<1>12. ASSUME Rest \/ UNCHANGED vars PROVE UNCHANGED <<phase, wave, past, finished, alone>>
  BY <1>12 DEF Rest, vars, calls
<1> QED
  BY <1>1, <1>2, <1>3, <1>4, <1>5, <1>6, <1>7, <1>8, <1>9, <1>10, <1>11, <1>12
     DEF Next, Joins, Provision

LEMMA TypeInvHolds == Spec => []TypeInv
<1>1. TypeInv /\ [Next]_vars => TypeInv'
  BY StepTask, StepSteps, StepLab, StepCall DEF TypeInv
<1> QED
  BY <1>1, InitTyped, PTL DEF Spec

\* Every stage, set and counter of the lab and of its calls keeps its type; a
\* script runs only for a machine that carries a first boot.
THEOREM UpTypeCorrect == Spec => []TypeOK
<1>1. TypeInv => TypeOK
  BY DEF TypeInv, TaskInv, StepInv, LabInv, CallInv, TypeOK, TaskStage, ProvStage
<1> QED
  BY <1>1, TypeInvHolds, PTL

-----------------------------------------------------------------------------
(* The order of starts. *)

\* What is ready has been so, and owes no first boot.
ReadyInv == ready \subseteq wasReady /\ wasReady \cap pending = {}

\* A task that has ended well was gated on readiness where anything depends on
\* its machine, and a wave is past once all of its tasks have ended so.
OrderInv ==
    /\ ReadyInv
    /\ \A u \in Up, m \in Machine :
           task[u][m] \in {"ok", "joined"} /\ HasDependents(m) => m \in wasReady
    /\ \A u \in Up : \A m \in past[u] : task[u][m] = "joined"
    /\ StartOrder

\* Readiness once reached is remembered.
LEMMA ReadyKept ==
    ASSUME TypeInv, ReadyInv, [Next]_vars
    PROVE  ReadyInv' /\ wasReady \subseteq wasReady' /\ pending' \subseteq pending
<1> USE Zenon
<1> DEFINE Kept == ReadyInv' /\ wasReady \subseteq wasReady' /\ pending' \subseteq pending
<1>1. ASSUME NEW u \in Up, NEW m \in Machine, FirstBootDone(u, m)
      PROVE  Kept
  BY <1>1 DEF FirstBootDone, ReadyInv
<1>2. ASSUME NEW m \in Machine, BecomesReady(m) \/ Crash(m)
      PROVE  Kept
  BY <1>2 DEF BecomesReady, Crash, Stops, ReadyInv
<1>3. ASSUME NEW d \in Down, NEW m \in Machine, Stop(d, m)
      PROVE  Kept
  <2>1. UNCHANGED <<wasReady, pending>> /\ ready' \subseteq ready
    BY <1>3 DEF Stop, Stops, lab
  <2> QED
    BY <2>1 DEF ReadyInv
<1>4. ASSUME UNCHANGED <<ready, wasReady, pending>> PROVE Kept
  BY <1>4 DEF ReadyInv
<1> HIDE DEF Kept
<1>5. ASSUME NEW u \in Up, NEW m \in Machine, Task(u, m) PROVE Kept
  BY <1>1, <1>4, <1>5 DEF Task, Start, TakeFirstBoot, Wake, ScriptEnds, ScriptTimesOut, Gate,
     lab
<1>6. ASSUME NEW u \in Up, NEW m \in Machine, Provision(u, m) PROVE Kept
  BY <1>4, <1>6 DEF Provision, ProvisionGate, ProvisionAfter, RunStep, lab
<1>7. ASSUME NEW u \in Up, UpAsks(u) \/ Joins(u) PROVE Kept
  BY <1>4, <1>7 DEF Joins, UpAsks, JoinStarted, JoinProvisioned, Abandon, Abandoned, NextWave,
                    Drained, lab
<1>8. ASSUME NEW d \in Down, DownAsks(d) \/ DownNextWave(d) \/ DownFails(d) PROVE Kept
  BY <1>4, <1>8 DEF DownAsks, DownNextWave, DownFails, lab
<1>9. ASSUME NEW m \in Machine, AgentAnswers(m) PROVE Kept
  BY <1>4, <1>9 DEF AgentAnswers
<1>10. ASSUME Rest \/ UNCHANGED vars PROVE Kept
  BY <1>4, <1>10 DEF Rest, vars, lab
<1>11. Kept
  BY <1>2, <1>3, <1>5, <1>6, <1>7, <1>8, <1>9, <1>10 DEF Next
<1> QED
  BY <1>11 DEF Kept

\* A task's move keeps the order, if one that ends well is ready where it must be
\* and one that was joined stays so.
LEMMA TaskOrdered ==
    ASSUME TypeInv, OrderInv, NEW u \in Up, NEW m \in Machine, NEW from, NEW to,
           TaskAt(u, m, from, to), from \notin {"none", "joined"}, UNCHANGED past,
           to \in {"ok", "joined"} /\ HasDependents(m) => m \in wasReady',
           wasReady \subseteq wasReady', ReadyInv'
    PROVE  OrderInv'
<1> USE Zenon
<1>0. u \in Call /\ Up \subseteq Call /\ TaskInv /\ past[u] \subseteq Machine
  BY DEF Call, TypeInv, CallInv
<1>1. /\ task[u][m] = from /\ task'[u][m] = to
      /\ \A d \in Call, n \in Machine : d # u \/ n # m => task'[d][n] = task[d][n]
  BY <1>0, TaskMoves, SMT
<1>2. \A v \in Up, n \in Machine : task'[v][n] # "none" => task[v][n] # "none"
  BY <1>0, <1>1
<1>3. StartOrder'
  BY <1>2 DEF OrderInv, StartOrder
<1>4. \A v \in Up : \A n \in past'[v] : task'[v][n] = "joined"
  <2> SUFFICES ASSUME NEW v \in Up, NEW n \in past[v] PROVE task'[v][n] = "joined"
    OBVIOUS
  <2>1. task[v][n] = "joined" /\ n \in Machine
    BY <1>0 DEF OrderInv, TypeInv, CallInv
  <2> QED
    BY <1>0, <1>1, <2>1
<1>5. \A v \in Up, n \in Machine :
          task'[v][n] \in {"ok", "joined"} /\ HasDependents(n) => n \in wasReady'
  BY <1>0, <1>1, SMT DEF OrderInv
<1> QED
  BY <1>3, <1>4, <1>5 DEF OrderInv, HasDependents, Dependents

\* What depends on nothing but machines of past waves may be started.
LEMMA EnterOrdered ==
    ASSUME TypeInv, OrderInv, NEW u \in Up, NEW done \in SUBSET Machine, Enter(u, done, "starting"),
           \A m \in done : task[u][m] = "joined", UNCHANGED <<ready, wasReady, pending>>
    PROVE  OrderInv'
<1> USE Zenon
<1>0. u \in Call /\ Up \subseteq Call /\ TaskInv /\ CallInv
  BY DEF Call, TypeInv
<1>1. /\ past'[u] = done /\ \A v \in Up \ {u} : past'[v] = past[v]
      /\ \A v \in Up \ {u}, m \in Machine : task'[v][m] = task[v][m]
      /\ \A m \in Machine : task'[u][m] = IF m \in WaveAfter(u, done) THEN "starting" ELSE task[u][m]
  BY <1>0, EnterLeaves, EnterGives, SMT
<1>2. ASSUME NEW m \in WaveAfter(u, done) PROVE DependsOn[m] \subseteq wasReady
  <2>1. m \in Machine /\ DependsOn[m] \subseteq done
    BY DEF WaveAfter, Before
  <2>2. \A n \in DependsOn[m] : HasDependents(n)
    BY <2>1 DEF HasDependents, Dependents
  <2> QED
    BY <2>1, <2>2 DEF OrderInv
<1>3. StartOrder'
  <2> SUFFICES ASSUME NEW v \in Up, NEW m \in Machine, task'[v][m] # "none"
               PROVE  DependsOn[m] \subseteq wasReady
    BY DEF StartOrder
  <2>1. CASE v = u /\ m \in WaveAfter(u, done)
    BY <1>2, <2>1
  <2>2. CASE v # u \/ m \notin WaveAfter(u, done)
    BY <1>1, <2>2, SMT DEF OrderInv, StartOrder
  <2> QED
    BY <2>1, <2>2
<1>4. \A v \in Up : \A n \in past'[v] : task'[v][n] = "joined"
  <2> SUFFICES ASSUME NEW v \in Up, NEW n \in past'[v] PROVE task'[v][n] = "joined"
    OBVIOUS
  <2>1. CASE v = u
    <3>1. n \in done /\ n \in Machine /\ n \notin WaveAfter(u, done)
      BY <1>1, <2>1 DEF WaveAfter
    <3> QED
      BY <1>1, <2>1, <3>1
  <2>2. CASE v # u
    <3>1. n \in Machine /\ task[v][n] = "joined"
      BY <1>0, <1>1, <2>2 DEF OrderInv, CallInv
    <3> QED
      BY <1>1, <2>2, <3>1
  <2> QED
    BY <2>1, <2>2
<1>5. \A v \in Up, n \in Machine :
          task'[v][n] \in {"ok", "joined"} /\ HasDependents(n) => n \in wasReady
  BY <1>1, SMT DEF OrderInv
<1> QED
  BY <1>3, <1>4, <1>5 DEF OrderInv, ReadyInv, HasDependents, Dependents

\* ... and so does a step that leaves every `up' where it is.
LEMMA StillOrdered ==
    ASSUME TypeInv, OrderInv, wasReady \subseteq wasReady', ReadyInv',
           \A u \in Up : past'[u] = past[u] /\ \A m \in Machine : task'[u][m] = task[u][m]
    PROVE  OrderInv'
<1>1. \A u \in Up : \A m \in past'[u] : task'[u][m] = "joined"
  BY DEF OrderInv, TypeInv, CallInv, Call
<1>2. StartOrder'
  BY DEF OrderInv, StartOrder
<1> QED
  BY <1>1, <1>2 DEF OrderInv, HasDependents, Dependents

LEMMA StepOrdered == TypeInv /\ OrderInv /\ [Next]_vars => OrderInv'
<1> SUFFICES ASSUME TypeInv, OrderInv, [Next]_vars PROVE OrderInv'
  OBVIOUS
<1> USE Zenon
<1>0. /\ wasReady \subseteq wasReady' /\ ReadyInv' /\ ready \subseteq wasReady
      /\ Up \subseteq Call /\ Down \subseteq Call /\ Up \cap Down = {}
      /\ TaskInv /\ CallInv
  BY ReadyKept, LabAssumption DEF OrderInv, ReadyInv, Call, TypeInv
<1>1. ASSUME NEW u \in Up, NEW m \in Machine,
             Start(u, m) \/ TakeFirstBoot(u, m) \/ Wake(u, m) \/ ScriptTimesOut(u, m)
               \/ FirstBootDone(u, m)
      PROVE  OrderInv'
  BY <1>0, <1>1, TaskOrdered, SMT DEF Start, TakeFirstBoot, Wake, ScriptTimesOut, FirstBootDone
<1>2. ASSUME NEW u \in Up, NEW m \in Machine, ScriptEnds(u, m) PROVE OrderInv'
  <2>1. CASE UNCHANGED task
    BY <1>0, <1>2, <2>1, StillOrdered DEF ScriptEnds
  <2> QED
    BY <1>0, <1>2, <2>1, TaskOrdered DEF ScriptEnds
<1>3. ASSUME NEW u \in Up, NEW m \in Machine, Gate(u, m) PROVE OrderInv'
  BY <1>0, <1>3, TaskOrdered, SMT DEF Gate
<1>4. ASSUME NEW u \in Up, NEW m \in Machine, JoinStarted(u, m) PROVE OrderInv'
  <2>1. HasDependents(m) => m \in wasReady
    BY <1>4 DEF JoinStarted, TaskAt, OrderInv
  <2> QED
    BY <1>0, <1>4, <2>1, TaskOrdered, SMT DEF JoinStarted
<1>5. ASSUME NEW u \in Up, UpAsks(u) PROVE OrderInv'
  BY <1>0, <1>5, EnterOrdered DEF UpAsks, lab
<1>6. ASSUME NEW u \in Up, NextWave(u) PROVE OrderInv'
  <2>1. CASE Enter(u, past[u] \cup wave[u], "starting")
    <3>1. /\ past[u] \cup wave[u] \in SUBSET Machine
          /\ \A m \in past[u] \cup wave[u] : task[u][m] = "joined"
      BY <1>0, <1>6 DEF NextWave, OrderInv, CallInv
    <3> QED
      BY <1>6, <2>1, <3>1, EnterOrdered DEF NextWave, lab
  <2>2. CASE UNCHANGED <<past, task>>
    BY <1>0, <2>2, StillOrdered
  <2> QED
    BY <1>6, <2>1, <2>2 DEF NextWave
<1>7. ASSUME NEW u \in Up, Abandon(u) PROVE OrderInv'
  <2>1. \A v \in Up, m \in Machine :
            task'[v][m] = IF v = u /\ task[u][m] \in Live THEN "aborted" ELSE task[v][m]
    BY <1>0, <1>7 DEF Abandon, TaskInv
  <2>2. UNCHANGED <<past, wasReady>> /\ {"none", "joined"} \cap Live = {}
    BY <1>7 DEF Abandon, Live
  <2>3. \A v \in Up : \A m \in past'[v] : task'[v][m] = "joined"
    BY <1>0, <2>1, <2>2, SMT DEF OrderInv, CallInv
  <2>4. StartOrder'
    BY <2>1, <2>2, SMT DEF OrderInv, StartOrder
  <2> QED
    BY <1>0, <2>1, <2>2, <2>3, <2>4, SMT DEF OrderInv, HasDependents, Dependents
<1>8. ASSUME NEW d \in Down, DownAsks(d) PROVE OrderInv'
  <2>1. Enter(d, {}, "stopping")
    BY <1>8 DEF DownAsks
  <2>2. \A u \in Up : past'[u] = past[u] /\ \A m \in Machine : task'[u][m] = task[u][m]
    BY <1>0, <2>1, EnterLeaves, SMT
  <2> QED
    BY <1>0, <2>2, StillOrdered
<1>9. ASSUME NEW d \in Down, DownNextWave(d) PROVE OrderInv'
  <2>1. CASE Enter(d, past[d] \cup wave[d], "stopping")
    <3>1. past[d] \cup wave[d] \in SUBSET Machine
      BY <1>0 DEF CallInv
    <3>2. \A u \in Up : past'[u] = past[u] /\ \A m \in Machine : task'[u][m] = task[u][m]
      BY <1>0, <2>1, <3>1, EnterLeaves, SMT
    <3> QED
      BY <1>0, <3>2, StillOrdered
  <2>2. CASE UNCHANGED <<past, task>>
    BY <1>0, <2>2, StillOrdered
  <2> QED
    BY <1>9, <2>1, <2>2 DEF DownNextWave
<1>10. ASSUME NEW d \in Down, NEW m \in Machine, Stop(d, m) PROVE OrderInv'
  <2>1. \A u \in Up, n \in Machine : task'[u][n] = task[u][n]
    BY <1>0, <1>10, StopKeepsUps
  <2> QED
    BY <1>0, <1>10, <2>1, StillOrdered DEF Stop
<1>11. CASE UNCHANGED <<past, task>>
  BY <1>0, <1>11, StillOrdered
<1> QED
  BY <1>1, <1>2, <1>3, <1>4, <1>5, <1>6, <1>7, <1>8, <1>9, <1>10, <1>11, TaskFrame DEF TaskStep

\* A machine is started only once every machine it depends on has been ready,
\* however many `up's, `down's, failures and deaths there are.
THEOREM StartOrderHolds == Spec => []StartOrder
<1>1. Init => OrderInv
  BY DEF Init, OrderInv, ReadyInv, StartOrder, Call
<1>2. OrderInv => StartOrder
  BY DEF OrderInv
<1> QED
  BY <1>1, <1>2, TypeInvHolds, StepOrdered, PTL DEF Spec

-----------------------------------------------------------------------------
(* The order of the configuration steps. *)

\* A provisioning that is past its gate has seen its machine ready, and a machine
\* is announced finished when its last step is.
ProvInv ==
    /\ ReadyInv
    /\ \A u \in Up, m \in Machine : prov[u][m] \in {"after", "stepping"} => m \in wasReady
    /\ \A u \in Up, m \in Machine : m \in finished[u] =>
           step[u][m] = Steps[m] /\ (Awaited(m) => m \in wasReady)
    /\ ProvisionOrder

\* A step that leaves every provisioning where it is.
LEMMA StillProvisioned ==
    ASSUME ProvInv, ReadyInv', wasReady \subseteq wasReady', pending' \subseteq pending,
           UNCHANGED <<prov, step, finished>>
    PROVE  ProvInv'
<1>1. ProvisionOrder'
  BY DEF ProvInv, ProvisionOrder
<1> QED
  BY <1>1 DEF ProvInv, Awaited

\* A provisioning moves on without a step.
LEMMA MoveProvisioned ==
    ASSUME StepInv, ProvInv, NEW u \in Up, NEW m \in Machine, NEW from, NEW to,
           ProvAt(u, m, from, to), UNCHANGED <<step, ready, wasReady, pending>>,
           to \in {"after", "stepping"} => m \in wasReady,
           to = "stepping" => After[m] \subseteq finished[u],
           \A v \in Up, n \in Machine : n \in finished'[v] =>
               n \in finished[v] \/ (step[v][n] = Steps[n] /\ (Awaited(n) => n \in wasReady))
    PROVE  ProvInv'
<1> USE Zenon
<1>1. /\ prov'[u][m] = to
      /\ \A v \in Up, n \in Machine : v # u \/ n # m => prov'[v][n] = prov[v][n]
  BY ProvMoves, SMT
<1>2. to = "stepping" =>
        /\ m \in wasReady \ pending
        /\ \A a \in After[m] : step[u][a] = Steps[a] /\ a \in wasReady
  BY LabAssumption DEF ProvInv, ReadyInv, Awaited
<1>3. ProvisionOrder'
  <2> SUFFICES ASSUME NEW v \in Up, NEW n \in Machine, prov'[v][n] = "stepping" \/ step[v][n] > 0
               PROVE  /\ n \in wasReady \ pending
                      /\ \A a \in After[n] : step[v][a] = Steps[a] /\ a \in wasReady
    BY DEF ProvisionOrder
  <2>1. CASE prov[v][n] = "stepping" \/ step[v][n] > 0
    BY <2>1 DEF ProvInv, ProvisionOrder
  <2>2. CASE v = u /\ n = m /\ to = "stepping"
    BY <1>2, <2>2
  <2> QED
    BY <1>1, <2>1, <2>2
<1>4. \A v \in Up, n \in Machine : prov'[v][n] \in {"after", "stepping"} => n \in wasReady
  BY <1>1, SMT DEF ProvInv
<1> QED
  BY <1>3, <1>4 DEF ProvInv, ReadyInv, Awaited

LEMMA StepProvisioned == TypeInv /\ ProvInv /\ [Next]_vars => ProvInv'
<1> SUFFICES ASSUME TypeInv, ProvInv, [Next]_vars PROVE ProvInv'
  OBVIOUS
<1> USE Zenon
<1>0. /\ ReadyInv' /\ ready \subseteq wasReady
      /\ wasReady \subseteq wasReady' /\ pending' \subseteq pending
      /\ StepInv /\ CallInv
  BY ReadyKept DEF ProvInv, ReadyInv, TypeInv
<1>1. ASSUME NEW u \in Up, NEW m \in Machine, ProvisionGate(u, m) PROVE ProvInv'
  <2>1. UNCHANGED <<step, ready, wasReady, pending, finished>>
    BY <1>1 DEF ProvisionGate, lab
  <2>2. \/ m \in wasReady /\ ProvAt(u, m, "gate", "after")
        \/ ProvAt(u, m, "gate", "failed") \/ ProvAt(u, m, "gate", "cancelled")
    BY <1>0, <1>1 DEF ProvisionGate
  <2> QED
    BY <1>0, <2>1, <2>2, MoveProvisioned
<1>2. ASSUME NEW u \in Up, NEW m \in Machine, ProvisionAfter(u, m) PROVE ProvInv'
  <2>1. UNCHANGED <<step, ready, wasReady, pending>>
    BY <1>2 DEF ProvisionAfter, lab
  <2>2. m \in wasReady /\ step[u][m] = 0
    BY <1>0, <1>2 DEF ProvisionAfter, ProvAt, ProvInv, StepInv
  <2>3. CASE ProvAt(u, m, "after", "ok") /\ Finish(u, m) /\ Steps[m] = 0
    <3>1. \A v \in Up, n \in Machine : n \in finished'[v] =>
              n \in finished[v] \/ (step[v][n] = Steps[n] /\ (Awaited(n) => n \in wasReady))
      BY <1>0, <2>2, <2>3, FinishMoves, SMT
    <3> QED
      BY <1>0, <2>1, <2>2, <2>3, <3>1, MoveProvisioned
  <2>4. CASE ProvAt(u, m, "after", "stepping") /\ After[m] \subseteq finished[u] /\ UNCHANGED finished
    BY <1>0, <2>1, <2>2, <2>4, MoveProvisioned
  <2>5. CASE ProvAt(u, m, "after", "cancelled") /\ UNCHANGED finished
    BY <1>0, <2>1, <2>2, <2>5, MoveProvisioned
  <2> QED
    BY <1>2, <2>3, <2>4, <2>5 DEF ProvisionAfter
<1>3. ASSUME NEW u \in Up, NEW m \in Machine, RunStep(u, m) PROVE ProvInv'
  <2>1. UNCHANGED <<ready, wasReady, pending>>
    BY <1>3 DEF RunStep, lab
  <2>2. CASE UNCHANGED <<step, finished>>
    <3>1. ProvAt(u, m, "stepping", "failed") \/ ProvAt(u, m, "stepping", "cancelled")
      BY <1>0, <1>3, <2>2, SMT DEF RunStep, StepInv
    <3> QED
      BY <1>0, <2>1, <2>2, <3>1, MoveProvisioned
  <2>3. CASE step' = [step EXCEPT ![u][m] = @ + 1]
    <3>1. /\ step'[u][m] = step[u][m] + 1 /\ step[u][m] \in Nat
          /\ \A v \in Up, n \in Machine : v # u \/ n # m => step'[v][n] = step[v][n]
      BY <1>0, <2>3 DEF StepInv
    <3>2. prov[u][m] = "stepping" /\ step[u][m] < Steps[m]
      BY <1>0, <1>3 DEF RunStep, ProvAt, StepInv
    <3>3. Steps[m] \in Nat /\ step[u][m] # Steps[m]
      BY <3>1, <3>2, LabAssumption, SMT
    <3>4. /\ m \in wasReady \ pending
          /\ \A a \in After[m] : a # m /\ step[u][a] = Steps[a] /\ a \in wasReady
      BY <3>2, <3>3 DEF ProvInv, ProvisionOrder
    <3>5. \A v \in Up, n \in Machine : v # u \/ n # m => prov'[v][n] = prov[v][n]
      BY <1>0, <1>3, ProvMoves, SMT DEF RunStep
    <3>6. ProvisionOrder'
      <4> SUFFICES ASSUME NEW v \in Up, NEW n \in Machine,
                          prov'[v][n] = "stepping" \/ step'[v][n] > 0
                   PROVE  /\ n \in wasReady \ pending
                          /\ \A a \in After[n] : step'[v][a] = Steps[a] /\ a \in wasReady
        BY <2>1 DEF ProvisionOrder
      <4>1. CASE v = u /\ n = m
        BY <3>1, <3>4, <4>1, LabAssumption
      <4>2. CASE v # u \/ n # m
        <5>1. /\ n \in wasReady \ pending
              /\ \A a \in After[n] : step[v][a] = Steps[a] /\ a \in wasReady
          BY <3>1, <3>5, <4>2, SMT DEF ProvInv, ProvisionOrder
        <5> QED
          BY <3>1, <3>3, <5>1, LabAssumption
      <4> QED
        BY <4>1, <4>2
    <3>7. \A v \in Up, n \in Machine : n \in finished'[v] =>
              step'[v][n] = Steps[n] /\ (Awaited(n) => n \in wasReady)
      <4>1. CASE UNCHANGED finished
        BY <3>1, <3>3, <4>1, SMT DEF ProvInv
      <4>2. CASE Finish(u, m) /\ step[u][m] + 1 = Steps[m]
        <5>1. /\ finished'[u] = finished[u] \cup {m}
              /\ \A v \in Up \ {u} : finished'[v] = finished[v]
          BY <1>0, <4>2, FinishMoves
        <5> QED
          BY <3>1, <3>3, <3>4, <4>2, <5>1, SMT DEF ProvInv
      <4> QED
        BY <1>3, <4>1, <4>2 DEF RunStep
    <3>8. \A v \in Up, n \in Machine : prov'[v][n] \in {"after", "stepping"} => n \in wasReady
      BY <3>4, <3>5 DEF ProvInv
    <3> QED
      BY <1>0, <2>1, <3>6, <3>7, <3>8 DEF ProvInv, Awaited
  <2> QED
    BY <1>3, <2>2, <2>3 DEF RunStep
<1>4. ASSUME NEW u \in Up, NEW m \in Machine, JoinStarted(u, m) PROVE ProvInv'
  <2>1. UNCHANGED <<step, ready, wasReady, pending>>
    BY <1>4 DEF JoinStarted, lab
  <2>2. CASE ProvAt(u, m, "none", "gate") /\ UNCHANGED finished
    BY <1>0, <2>1, <2>2, MoveProvisioned
  <2>3. CASE UNCHANGED prov /\ Finish(u, m) /\ Steps[m] = 0 /\ ~Awaited(m)
    <3>1. step[u][m] = Steps[m]
      BY <1>0, <2>3, SMT DEF StepInv
    <3>2. /\ finished'[u] = finished[u] \cup {m}
          /\ \A v \in Up \ {u} : finished'[v] = finished[v]
      BY <1>0, <2>3, FinishMoves
    <3>3. ProvisionOrder'
      BY <2>1, <2>3, SMT DEF ProvInv, ProvisionOrder
    <3> QED
      BY <1>0, <2>1, <2>3, <3>1, <3>2, <3>3, SMT DEF ProvInv, Awaited
  <2> QED
    BY <1>4, <2>2, <2>3 DEF JoinStarted
<1>5. ASSUME NEW u \in Up, NEW m \in Machine, JoinProvisioned(u, m) PROVE ProvInv'
  <2>1. UNCHANGED <<step, ready, wasReady, pending, finished>> /\ ProvAt(u, m, "ok", "joined")
    BY <1>5 DEF JoinProvisioned, lab
  <2> QED
    BY <1>0, <2>1, MoveProvisioned
<1>6. CASE UNCHANGED <<prov, step, finished>>
  BY <1>0, <1>6, StillProvisioned
<1> QED
  BY <1>1, <1>2, <1>3, <1>4, <1>5, <1>6, ProvFrame DEF ProvStep

\* A configuration step runs only on a machine that has been ready and owes no
\* first boot, and after every step of the machines it waits for.
THEOREM ProvisionOrderHolds == Spec => []ProvisionOrder
<1>1. Init => ProvInv
  BY DEF Init, ProvInv, ReadyInv, ProvisionOrder
<1>2. ProvInv => ProvisionOrder
  BY DEF ProvInv
<1> QED
  BY <1>1, <1>2, TypeInvHolds, StepProvisioned, PTL DEF Spec

-----------------------------------------------------------------------------
(* Silence after the return. *)

\* Once the waves are over no task is alive, and once `up' has returned no
\* provisioning is either.
QuietInv ==
    \A u \in Up, m \in Machine :
        /\ phase[u] \in {"draining", "abandoning", "ok", "failed"} => task[u][m] \notin Live
        /\ phase[u] \in {"ok", "failed"} => prov[u][m] \notin ProvLive

\* A step that ends tasks and provisionings, and begins none.
LEMMA StillQuiet ==
    ASSUME QuietInv,
           \A u \in Up : phase'[u] = phase[u],
           \A u \in Up, m \in Machine :
               /\ task'[u][m] \in Live => task[u][m] \in Live \/ phase[u] \in {"idle", "waves"}
               /\ prov'[u][m] \in ProvLive =>
                      prov[u][m] \in ProvLive \/ phase[u] \notin {"ok", "failed"}
    PROVE  QuietInv'
BY DEF QuietInv

LEMMA StepQuiet == TypeInv /\ OrderInv /\ QuietInv /\ [Next]_vars => QuietInv'
<1> SUFFICES ASSUME TypeInv, OrderInv, QuietInv, [Next]_vars PROVE QuietInv'
  OBVIOUS
<1> USE Zenon
<1>0. /\ Up \subseteq Call /\ Down \subseteq Call /\ Up \cap Down = {}
      /\ TaskInv /\ StepInv /\ CallInv
  BY LabAssumption DEF Call, TypeInv
<1>a. /\ {"starting", "started", "waking", "scripting", "scripted", "gating"} \subseteq Live
      /\ {"ok", "failed", "joined", "aborted"} \cap Live = {}
      /\ {"gate", "after", "stepping"} \subseteq ProvLive
      /\ {"none", "ok", "failed", "cancelled", "joined"} \cap ProvLive = {}
  BY DEF Live, ProvLive
<1>1. ASSUME NEW u \in Up, NEW m \in Machine, Task(u, m) PROVE QuietInv'
  <2>1. UNCHANGED <<phase, prov>>
    BY <1>1 DEF Task, Start, TakeFirstBoot, Wake, ScriptEnds, ScriptTimesOut, FirstBootDone,
       Gate
  <2>2. CASE UNCHANGED task
    BY <2>1, <2>2, StillQuiet
  <2>3. CASE \E from \in Live, to \in TaskStage : TaskAt(u, m, from, to)
    <3>1. PICK from \in Live, to \in TaskStage : TaskAt(u, m, from, to)
      BY <2>3
    <3>2. \A v \in Up, n \in Machine : task'[v][n] \in Live => task[v][n] \in Live
      BY <1>0, <3>1, TaskMoves, SMT
    <3> QED
      BY <2>1, <3>2, StillQuiet
  <2>4. (\E from \in Live, to \in TaskStage : TaskAt(u, m, from, to)) \/ UNCHANGED task
    BY <1>1, <1>a, Stages
       DEF Task, Start, TakeFirstBoot, Wake, ScriptEnds, ScriptTimesOut, FirstBootDone, Gate
  <2> QED
    BY <2>2, <2>3, <2>4
<1>2. ASSUME NEW u \in Up, NEW m \in Machine, Provision(u, m) \/ JoinProvisioned(u, m)
      PROVE  QuietInv'
  <2>1. UNCHANGED <<phase, task>>
    BY <1>2 DEF Provision, ProvisionGate, ProvisionAfter, RunStep, JoinProvisioned
  <2>2. \E from, to \in ProvStage :
            ProvAt(u, m, from, to) /\ (to \in ProvLive => from \in ProvLive)
    BY <1>2, <1>a, Stages DEF Provision, ProvisionGate, ProvisionAfter, RunStep, JoinProvisioned
  <2>3. PICK from, to \in ProvStage :
            ProvAt(u, m, from, to) /\ (to \in ProvLive => from \in ProvLive)
    BY <2>2
  <2>4. \A v \in Up, n \in Machine : prov'[v][n] \in ProvLive => prov[v][n] \in ProvLive
    BY <1>0, <2>3, ProvMoves, SMT
  <2> QED
    BY <2>1, <2>4, StillQuiet
<1>3. ASSUME NEW u \in Up, NEW m \in Machine, JoinStarted(u, m) PROVE QuietInv'
  <2>1. phase[u] = "waves" /\ UNCHANGED phase
    BY <1>3 DEF JoinStarted
  <2>2. \A v \in Up, n \in Machine : task'[v][n] \in Live => task[v][n] \in Live
    <3>1. TaskAt(u, m, "ok", "joined")
      BY <1>3 DEF JoinStarted
    <3>2. /\ task'[u][m] = "joined"
          /\ \A d \in Call, n \in Machine : d # u \/ n # m => task'[d][n] = task[d][n]
      BY <1>0, <3>1, TaskMoves, SMT
    <3> QED
      BY <1>0, <1>a, <3>2
  <2>3. \A v \in Up \ {u}, n \in Machine : prov'[v][n] = prov[v][n]
    <3>1. UNCHANGED prov \/ ProvAt(u, m, "none", "gate")
      BY <1>3 DEF JoinStarted
    <3> QED
      BY <1>0, <3>1, ProvMoves, SMT
  <2> QED
    BY <2>1, <2>2, <2>3, StillQuiet
<1>4. ASSUME NEW u \in Up, UpAsks(u) PROVE QuietInv'
  <2>1. phase'[u] = "waves" /\ \A v \in Up \ {u} : phase'[v] = phase[v]
    BY <1>0, <1>4 DEF UpAsks, CallInv
  <2>2. Enter(u, {}, "starting") /\ UNCHANGED prov
    BY <1>4 DEF UpAsks
  <2>3. \A d \in Call \ {u}, n \in Machine : task'[d][n] = task[d][n]
    BY <1>0, <2>2, EnterLeaves, SMT
  <2>4. \A v \in Up \ {u}, n \in Machine : task'[v][n] = task[v][n]
    BY <1>0, <2>3
  <2> QED
    BY <2>1, <2>2, <2>4 DEF QuietInv
<1>5. ASSUME NEW u \in Up, NextWave(u) PROVE QuietInv'
  <2>0. phase[u] = "waves" /\ UNCHANGED prov
    BY <1>5 DEF NextWave
  <2>1. CASE UNCHANGED phase /\ Enter(u, past[u] \cup wave[u], "starting")
    <3>1. past[u] \cup wave[u] \in SUBSET Machine
      BY <1>0 DEF CallInv
    <3>2. \A v \in Up \ {u}, n \in Machine : task'[v][n] = task[v][n]
      BY <1>0, <2>1, <3>1, EnterLeaves, SMT
    <3> QED
      BY <2>0, <2>1, <3>2, StillQuiet
  <2>2. CASE past[u] \cup wave[u] = Machine /\ phase' = [phase EXCEPT ![u] = "draining"]
               /\ UNCHANGED task
    <3>1. \A m \in Machine : task[u][m] = "joined"
      BY <1>5, <2>2 DEF NextWave, OrderInv
    <3>2. phase'[u] = "draining" /\ \A v \in Up \ {u} : phase'[v] = phase[v]
      BY <1>0, <2>2 DEF CallInv
    <3> QED
      BY <1>a, <2>0, <2>2, <3>1, <3>2 DEF QuietInv
  <2> QED
    BY <1>5, <2>1, <2>2 DEF NextWave
<1>6. ASSUME NEW u \in Up, Abandon(u) PROVE QuietInv'
  <2>1. phase'[u] = "abandoning" /\ \A v \in Up \ {u} : phase'[v] = phase[v]
    BY <1>0, <1>6 DEF Abandon, CallInv
  <2>2. /\ UNCHANGED prov
        /\ \A m \in Machine : task'[u][m] \notin Live
        /\ \A v \in Up \ {u}, m \in Machine : task'[v][m] = task[v][m]
    BY <1>0, <1>6, <1>a DEF Abandon, TaskInv
  <2> QED
    BY <2>1, <2>2 DEF QuietInv
<1>7. ASSUME NEW u \in Up, Abandoned(u) \/ Drained(u) PROVE QuietInv'
  <2>1. /\ phase'[u] \in {"ok", "failed"} /\ \A v \in Up \ {u} : phase'[v] = phase[v]
        /\ phase[u] \in {"draining", "abandoning"}
        /\ UNCHANGED <<task, prov>>
    BY <1>0, <1>7 DEF Abandoned, Drained, CallInv
  <2>2. \A m \in Machine : prov[u][m] \notin ProvLive
    BY <1>7, <1>a DEF Abandoned, Drained
  <2> QED
    BY <2>1, <2>2 DEF QuietInv
<1>8. ASSUME NEW d \in Down, DownAsks(d) \/ DownNextWave(d) \/ DownFails(d) PROVE QuietInv'
  <2>1. UNCHANGED prov /\ \A u \in Up : phase'[u] = phase[u]
    BY <1>0, <1>8 DEF DownAsks, DownNextWave, DownFails, CallInv
  <2>2. past[d] \cup wave[d] \in SUBSET Machine
    BY <1>0 DEF CallInv
  <2>3. CASE UNCHANGED task
    BY <2>1, <2>3, StillQuiet
  <2>4. CASE \E done \in SUBSET Machine : Enter(d, done, "stopping")
    <3>1. PICK done \in SUBSET Machine : Enter(d, done, "stopping")
      BY <2>4
    <3>2. \A u \in Up, m \in Machine : task'[u][m] = task[u][m]
      BY <1>0, <3>1, EnterLeaves, SMT
    <3> QED
      BY <2>1, <3>2, StillQuiet
  <2> QED
    BY <1>8, <2>2, <2>3, <2>4 DEF DownAsks, DownNextWave, DownFails
<1>9. ASSUME NEW d \in Down, NEW m \in Machine, Stop(d, m) PROVE QuietInv'
  <2>1. \A u \in Up, n \in Machine : task'[u][n] = task[u][n]
    BY <1>0, <1>9, StopKeepsUps
  <2> QED
    BY <1>9, <2>1, StillQuiet DEF Stop
<1>10. CASE UNCHANGED calls
  BY <1>10, StillQuiet DEF calls
<1> QED
  BY <1>1, <1>2, <1>3, <1>4, <1>5, <1>6, <1>7, <1>8, <1>9, <1>10
     DEF Next, Joins, AgentAnswers, BecomesReady, Crash, Rest, vars

\* Nothing of an `up' that has returned, well or not, still starts, gates or
\* configures a machine.
THEOREM UpQuietHolds == Spec => []UpQuiet
<1>1. Init => OrderInv /\ QuietInv
  BY DEF Init, OrderInv, ReadyInv, StartOrder, QuietInv, Call
<1>2. QuietInv => UpQuiet
  BY DEF QuietInv, UpQuiet
<1> QED
  BY <1>1, <1>2, TypeInvHolds, StepOrdered, StepQuiet, PTL DEF Spec

-----------------------------------------------------------------------------
(* First boots. *)

\* A first boot under way is claimed, owed, and nobody else's.
ClaimInv ==
    \A u \in Up, m \in Machine : task[u][m] \in FirstBooting =>
        /\ m \in claims /\ m \in pending
        /\ \A v \in Up : task[v][m] \in FirstBooting => v = u

\* A step that begins no first boot, and takes nothing from the ones under way.
LEMMA StillClaimed ==
    ASSUME ClaimInv,
           \A u \in Up, m \in Machine : task'[u][m] \in FirstBooting =>
               task[u][m] \in FirstBooting /\ m \in claims' /\ m \in pending'
    PROVE  ClaimInv'
BY DEF ClaimInv

\* A first boot that ends gives back its own claim only.
LEMMA ClaimReleased ==
    ASSUME TypeInv, ClaimInv, NEW u \in Up, NEW m \in Machine, NEW from \in FirstBooting,
           NEW to \in TaskStage \ FirstBooting, TaskAt(u, m, from, to),
           claims \ {m} \subseteq claims', pending \ {m} \subseteq pending'
    PROVE  ClaimInv'
<1> USE Zenon
<1>1. /\ task[u][m] = from /\ task'[u][m] = to
      /\ \A v \in Up, n \in Machine : v # u \/ n # m => task'[v][n] = task[v][n]
  BY TaskMoves, SMT DEF TypeInv, Call
<1>2. ASSUME NEW v \in Up, NEW n \in Machine, task'[v][n] \in FirstBooting
      PROVE  task[v][n] \in FirstBooting /\ n \in claims' /\ n \in pending'
  <2>1. task[v][n] \in FirstBooting /\ (v # u \/ n # m)
    BY <1>1, <1>2
  <2>2. n # m
    BY <1>1, <2>1 DEF ClaimInv
  <2> QED
    BY <2>1, <2>2 DEF ClaimInv
<1> QED
  BY <1>2, StillClaimed

LEMMA ClaimMoves ==
    ASSUME TypeInv, ClaimInv, NEW u \in Up, NEW m \in Machine, NEW from, NEW to,
           TaskAt(u, m, from, to), to \in FirstBooting => from \in FirstBooting,
           UNCHANGED <<claims, pending>>
    PROVE  ClaimInv'
<1>1. /\ task[u][m] = from /\ task'[u][m] = to
      /\ \A v \in Up, n \in Machine : v # u \/ n # m => task'[v][n] = task[v][n]
  BY TaskMoves DEF TypeInv, Call
<1> QED
  BY <1>1 DEF ClaimInv

LEMMA ClaimEnter ==
    ASSUME TypeInv, ClaimInv, NEW c \in Call, NEW done \in SUBSET Machine,
           NEW first \in {"starting", "stopping"}, Enter(c, done, first), UNCHANGED lab
    PROVE  ClaimInv'
<1> USE Zenon
<1>1. first \in TaskStage /\ first \notin FirstBooting /\ TaskInv /\ CallInv
  BY Stages DEF FirstBooting, TypeInv
<1>2. \A d \in Call, m \in Machine : task'[d][m] \in {first, task[d][m]}
  BY <1>1, EnterLeaves, EnterGives, SMT
<1>3. UNCHANGED <<claims, pending>> /\ Up \subseteq Call
  BY DEF lab, Call
<1> QED
  BY <1>1, <1>2, <1>3 DEF ClaimInv

LEMMA StepClaimed == TypeInv /\ ClaimInv /\ [Next]_vars => ClaimInv'
<1> SUFFICES ASSUME TypeInv, ClaimInv, [Next]_vars PROVE ClaimInv'
  OBVIOUS
<1> USE Zenon
<1>0. /\ Up \subseteq Call /\ Down \subseteq Call /\ Up \cap Down = {}
      /\ TaskInv /\ CallInv
      /\ {"starting", "started", "gating", "ok", "failed", "joined", "stopping"}
           \subseteq TaskStage \ FirstBooting
      /\ FirstBooting \subseteq TaskStage
      /\ {"waking", "scripting", "scripted"} \subseteq FirstBooting
  BY LabAssumption, Stages DEF Call, TypeInv, FirstBooting
<1>1. ASSUME NEW u \in Up, NEW m \in Machine,
             Start(u, m) \/ Gate(u, m) \/ JoinStarted(u, m)
      PROVE  ClaimInv'
  <2>1. UNCHANGED <<claims, pending>>
    BY <1>1 DEF Start, Gate, JoinStarted, lab
  <2>2. PICK from \in TaskStage, to \in TaskStage \ FirstBooting : TaskAt(u, m, from, to)
    BY <1>0, <1>1 DEF Start, Gate, JoinStarted
  <2> QED
    BY <2>1, <2>2, ClaimMoves
<1>2. ASSUME NEW u \in Up, NEW m \in Machine, TakeFirstBoot(u, m) PROVE ClaimInv'
  <2>1. CASE TaskAt(u, m, "started", "gating") /\ UNCHANGED <<claims, pending>>
    BY <1>0, <2>1, ClaimMoves
  <2>2. CASE /\ TaskAt(u, m, "started", "waking") /\ m \notin claims /\ m \in pending
             /\ claims' = claims \cup {m} /\ UNCHANGED pending
    <3>1. "waking" \in TaskStage
      BY <1>0
    <3>2. /\ task'[u][m] = "waking"
          /\ \A v \in Up, n \in Machine : v # u \/ n # m => task'[v][n] = task[v][n]
      BY <1>0, <2>2, <3>1, TaskMoves, SMT
    <3>3. \A v \in Up : task[v][m] \notin FirstBooting
      BY <2>2 DEF ClaimInv
    <3> QED
      BY <2>2, <3>2, <3>3, SMT DEF ClaimInv
  <2> QED
    BY <1>2, <2>1, <2>2 DEF TakeFirstBoot
<1>3. ASSUME NEW u \in Up, NEW m \in Machine, Wake(u, m) PROVE ClaimInv'
  <2>1. CASE TaskAt(u, m, "waking", "scripting") /\ UNCHANGED <<claims, pending>>
    BY <1>0, <2>1, ClaimMoves
  <2>2. CASE TaskAt(u, m, "waking", "failed") /\ claims' = claims \ {m} /\ UNCHANGED pending
    BY <1>0, <2>2, ClaimReleased
  <2> QED
    BY <1>3, <2>1, <2>2 DEF Wake
<1>4. ASSUME NEW u \in Up, NEW m \in Machine, ScriptEnds(u, m) \/ ScriptTimesOut(u, m)
      PROVE  ClaimInv'
  <2>1. CASE TaskAt(u, m, "scripting", "scripted") /\ UNCHANGED <<claims, pending>>
    BY <1>0, <2>1, ClaimMoves
  <2>2. CASE TaskAt(u, m, "scripting", "failed") /\ claims' = claims \ {m} /\ UNCHANGED pending
    BY <1>0, <2>2, ClaimReleased
  <2>3. CASE UNCHANGED <<task, claims, pending>>
    BY <2>3 DEF ClaimInv
  <2> QED
    BY <1>4, <2>1, <2>2, <2>3 DEF ScriptEnds, ScriptTimesOut
<1>5. ASSUME NEW u \in Up, NEW m \in Machine, FirstBootDone(u, m) PROVE ClaimInv'
  <2>1. /\ TaskAt(u, m, "scripted", "gating")
        /\ claims \ {m} \subseteq claims' /\ pending \ {m} \subseteq pending'
    BY <1>5 DEF FirstBootDone
  <2> QED
    BY <1>0, <2>1, ClaimReleased
<1>6. ASSUME NEW u \in Up, UpAsks(u) PROVE ClaimInv'
  BY <1>0, <1>6, ClaimEnter DEF UpAsks
<1>7. ASSUME NEW c \in Call, NextWave(c) \/ DownNextWave(c) PROVE ClaimInv'
  <2>1. past[c] \cup wave[c] \in SUBSET Machine /\ UNCHANGED lab
    BY <1>0, <1>7 DEF CallInv, NextWave, DownNextWave
  <2>2. CASE UNCHANGED task
    BY <2>1, <2>2 DEF ClaimInv, lab
  <2> QED
    BY <1>7, <2>1, <2>2, ClaimEnter DEF NextWave, DownNextWave
<1>8. ASSUME NEW u \in Up, Abandon(u) PROVE ClaimInv'
  <2>1. \A v \in Up, m \in Machine :
            task'[v][m] = IF v = u /\ task[u][m] \in Live THEN "aborted" ELSE task[v][m]
    BY <1>0, <1>8 DEF Abandon, TaskInv
  <2>2. /\ claims' = claims \ {m \in Machine : task[u][m] \in FirstBooting}
        /\ UNCHANGED pending
    BY <1>8 DEF Abandon, HoldsClaim, FirstBooting
  <2>3. FirstBooting \subseteq Live /\ "aborted" \notin FirstBooting
    BY DEF FirstBooting, Live
  <2>4. ASSUME NEW v \in Up, NEW m \in Machine, task'[v][m] \in FirstBooting
        PROVE  task[v][m] \in FirstBooting /\ m \in claims' /\ m \in pending'
    <3>1. v # u /\ task[v][m] \in FirstBooting
      BY <2>1, <2>3, <2>4
    <3> QED
      BY <2>2, <3>1 DEF ClaimInv
  <2> QED
    BY <2>4, StillClaimed
<1>9. ASSUME NEW d \in Down, DownAsks(d) PROVE ClaimInv'
  BY <1>0, <1>9, ClaimEnter DEF DownAsks
<1>10. ASSUME NEW d \in Down, NEW m \in Machine, Stop(d, m) PROVE ClaimInv'
  <2>1. \A u \in Up, n \in Machine : task'[u][n] = task[u][n]
    BY <1>0, <1>10, StopKeepsUps
  <2>2. UNCHANGED <<claims, pending>>
    BY <1>10 DEF Stop, Stops, lab
  <2> QED
    BY <2>1, <2>2 DEF ClaimInv
<1>11. CASE UNCHANGED <<task, claims, pending>>
  BY <1>11 DEF ClaimInv
<1>12. ASSUME NEW u \in Up, NEW m \in Machine, Provision(u, m) \/ JoinProvisioned(u, m)
       PROVE  ClaimInv'
  BY <1>11, <1>12 DEF Provision, ProvisionGate, ProvisionAfter, RunStep, JoinProvisioned, lab
<1>13. ASSUME NEW c \in Call, Abandoned(c) \/ Drained(c) \/ DownFails(c) PROVE ClaimInv'
  BY <1>11, <1>13 DEF Abandoned, Drained, DownFails, lab
<1>14. ASSUME NEW m \in Machine, AgentAnswers(m) \/ BecomesReady(m) \/ Crash(m) PROVE ClaimInv'
  BY <1>11, <1>14 DEF AgentAnswers, BecomesReady, Crash, Stops, calls
<1>15. CASE Rest \/ UNCHANGED vars
  BY <1>11, <1>15 DEF Rest, vars, lab, calls
<1> QED
  BY <1>0, <1>1, <1>2, <1>3, <1>4, <1>5, <1>6, <1>7, <1>8, <1>9, <1>10, <1>12, <1>13, <1>14,
     <1>15, SMT DEF Next, Joins, Task

\* A machine's first boot is claimed by one `up' at a time and by none once it has
\* succeeded, however `up's overlap, fail and are abandoned.
THEOREM OneFirstBootHolds == Spec => []OneFirstBoot
<1>1. Init => ClaimInv
  BY DEF Init, ClaimInv, FirstBooting, Call
<1>2. ClaimInv => OneFirstBoot
  BY DEF ClaimInv, OneFirstBoot, HoldsClaim, FirstBooting
<1> QED
  BY <1>1, <1>2, TypeInvHolds, StepClaimed, PTL DEF Spec

-----------------------------------------------------------------------------
(* What a success means. *)

\* A machine that was joined is provisioned, unless nobody asks for it; a
\* provisioning that ended well has run every step on a machine that was ready;
\* and `up' drains once every machine was joined.
DoneInv ==
    \A u \in Up, m \in Machine :
        /\ phase[u] \in {"draining", "ok"} => task[u][m] = "joined"
        /\ phase[u] = "ok" => prov[u][m] \in {"none", "joined"}
        /\ task[u][m] = "joined" => prov[u][m] # "none" \/ (Steps[m] = 0 /\ ~Awaited(m))
        /\ prov[u][m] \in {"ok", "joined"} => step[u][m] = Steps[m] /\ m \in wasReady

\* A step that joins no task and moves no provisioning.
LEMMA StillDone ==
    ASSUME DoneInv, wasReady \subseteq wasReady', UNCHANGED <<prov, step>>,
           \A u \in Up, m \in Machine :
               /\ phase'[u] \in {"draining", "ok"} => phase'[u] = phase[u]
               /\ task'[u][m] = "joined" <=> task[u][m] = "joined"
    PROVE  DoneInv'
BY DEF DoneInv, Awaited

\* A provisioning moves on.
LEMMA MoveDone ==
    ASSUME StepInv, DoneInv, wasReady \subseteq wasReady', UNCHANGED <<phase, task>>,
           NEW u \in Up, NEW m \in Machine, NEW from, NEW to,
           ProvAt(u, m, from, to), from \notin {"none", "joined"}, to # "none",
           to \in {"ok", "joined"} => step'[u][m] = Steps[m] /\ m \in wasReady,
           \A v \in Up, n \in Machine : v # u \/ n # m => step'[v][n] = step[v][n]
    PROVE  DoneInv'
<1>1. /\ prov[u][m] = from /\ prov'[u][m] = to
      /\ \A v \in Up, n \in Machine : v # u \/ n # m => prov'[v][n] = prov[v][n]
  BY ProvMoves
<1>2. ASSUME NEW v \in Up, NEW n \in Machine, v # u \/ n # m
      PROVE  prov'[v][n] = prov[v][n] /\ step'[v][n] = step[v][n]
  BY <1>1, <1>2
<1>3. phase[u] # "ok"
  BY <1>1 DEF DoneInv
<1> QED
  BY <1>1, <1>2, <1>3 DEF DoneInv, Awaited

LEMMA StepDone == TypeInv /\ OrderInv /\ ProvInv /\ DoneInv /\ [Next]_vars => DoneInv'
<1> SUFFICES ASSUME TypeInv, OrderInv, ProvInv, DoneInv, [Next]_vars PROVE DoneInv'
  OBVIOUS
<1> USE Zenon
<1>0. /\ Up \subseteq Call /\ Down \subseteq Call /\ Up \cap Down = {}
      /\ TaskInv /\ StepInv /\ CallInv
  BY LabAssumption DEF Call, TypeInv
<1>r. wasReady \subseteq wasReady'
  BY ReadyKept DEF OrderInv
<1>1. ASSUME NEW u \in Up, NEW m \in Machine, Task(u, m) PROVE DoneInv'
  <2>1. UNCHANGED <<phase, prov, step>>
    BY <1>1 DEF Task, Start, TakeFirstBoot, Wake, ScriptEnds, ScriptTimesOut, FirstBootDone,
       Gate
  <2>2. \/ UNCHANGED task
        \/ \E from, to \in TaskStage \ {"joined"} : TaskAt(u, m, from, to)
    BY <1>1, Stages DEF Task, Start, TakeFirstBoot, Wake, ScriptEnds, ScriptTimesOut, FirstBootDone,
       Gate
  <2>3. \A v \in Up, n \in Machine : task'[v][n] = "joined" <=> task[v][n] = "joined"
    <3>1. ASSUME NEW from \in TaskStage \ {"joined"}, NEW to \in TaskStage \ {"joined"},
                 TaskAt(u, m, from, to)
          PROVE  \A v \in Up, n \in Machine : task'[v][n] = "joined" <=> task[v][n] = "joined"
      <4>1. /\ task[u][m] = from /\ task'[u][m] = to
            /\ \A d \in Call, n \in Machine : d # u \/ n # m => task'[d][n] = task[d][n]
        BY <1>0, <3>1, TaskMoves, SMT
      <4> QED
        BY <1>0, <4>1
    <3> QED
      BY <2>2, <3>1
  <2> QED
    BY <1>r, <2>1, <2>3, StillDone
<1>2. ASSUME NEW u \in Up, NEW m \in Machine, ProvisionGate(u, m) PROVE DoneInv'
  <2>1. UNCHANGED <<phase, task, step>>
    BY <1>2 DEF ProvisionGate
  <2>2. PICK to \in {"after", "failed", "cancelled"} : ProvAt(u, m, "gate", to)
    BY <1>2 DEF ProvisionGate
  <2> QED
    BY <1>0, <1>r, <2>1, <2>2, MoveDone
<1>3. ASSUME NEW u \in Up, NEW m \in Machine, ProvisionAfter(u, m) PROVE DoneInv'
  <2>1. UNCHANGED <<phase, task, step>>
    BY <1>3 DEF ProvisionAfter
  <2>2. m \in wasReady /\ step[u][m] = 0
    BY <1>0, <1>3 DEF ProvisionAfter, ProvAt, ProvInv, StepInv
  <2>3. PICK to \in {"ok", "stepping", "cancelled"} :
            ProvAt(u, m, "after", to) /\ (to = "ok" => Steps[m] = 0)
    BY <1>3 DEF ProvisionAfter
  <2> QED
    BY <1>0, <1>r, <2>1, <2>2, <2>3, MoveDone
<1>4. ASSUME NEW u \in Up, NEW m \in Machine, RunStep(u, m) PROVE DoneInv'
  <2>1. UNCHANGED <<phase, task>> /\ m \in wasReady
    BY <1>4 DEF RunStep, ProvAt, ProvInv
  <2>2. CASE /\ step' = [step EXCEPT ![u][m] = @ + 1]
             /\ step[u][m] + 1 = Steps[m] /\ ProvAt(u, m, "stepping", "ok")
    <3>1. /\ step'[u][m] = Steps[m]
          /\ \A v \in Up, n \in Machine : v # u \/ n # m => step'[v][n] = step[v][n]
      BY <1>0, <2>2 DEF StepInv
    <3> QED
      BY <1>0, <1>r, <2>1, <2>2, <3>1, MoveDone, SMT
  <2>3. CASE /\ step' = [step EXCEPT ![u][m] = @ + 1] \/ UNCHANGED step
             /\ \E to \in {"stepping", "failed", "cancelled"} : ProvAt(u, m, "stepping", to)
    <3>1. \A v \in Up, n \in Machine : v # u \/ n # m => step'[v][n] = step[v][n]
      BY <1>0, <2>3, SMT DEF StepInv
    <3> QED
      BY <1>0, <1>r, <2>1, <2>3, <3>1, MoveDone
  <2> QED
    BY <1>4, <2>2, <2>3 DEF RunStep
<1>5. ASSUME NEW u \in Up, NEW m \in Machine, JoinProvisioned(u, m) PROVE DoneInv'
  <2>1. UNCHANGED <<phase, task, step>> /\ ProvAt(u, m, "ok", "joined")
    BY <1>5 DEF JoinProvisioned
  <2>2. step[u][m] = Steps[m] /\ m \in wasReady
    BY <2>1 DEF ProvAt, DoneInv
  <2> QED
    BY <1>0, <1>r, <2>1, <2>2, MoveDone, SMT
<1>6. ASSUME NEW u \in Up, NEW m \in Machine, JoinStarted(u, m) PROVE DoneInv'
  <2>1. phase[u] = "waves" /\ UNCHANGED <<phase, step>> /\ TaskAt(u, m, "ok", "joined")
    BY <1>6 DEF JoinStarted
  <2>2. /\ task'[u][m] = "joined"
        /\ \A v \in Up, n \in Machine : v # u \/ n # m => task'[v][n] = task[v][n]
    BY <1>0, <2>1, TaskMoves, SMT
  <2>3. CASE Steps[m] = 0 /\ ~Awaited(m) /\ UNCHANGED prov
    BY <1>r, <2>1, <2>2, <2>3, SMT DEF DoneInv, Awaited
  <2>4. CASE ProvAt(u, m, "none", "gate")
    <3>1. /\ prov'[u][m] = "gate"
          /\ \A v \in Up, n \in Machine : v # u \/ n # m => prov'[v][n] = prov[v][n]
      BY <1>0, <2>4, ProvMoves, SMT
    <3> QED
      BY <1>r, <2>1, <2>2, <3>1, SMT DEF DoneInv, Awaited
  <2> QED
    BY <1>6, <2>3, <2>4 DEF JoinStarted
<1>7. ASSUME NEW u \in Up, UpAsks(u) PROVE DoneInv'
  <2>1. phase[u] = "idle" /\ phase'[u] = "waves" /\ \A v \in Up \ {u} : phase'[v] = phase[v]
    BY <1>0, <1>7 DEF UpAsks, CallInv
  <2>2. Enter(u, {}, "starting") /\ UNCHANGED <<prov, step>>
    BY <1>7 DEF UpAsks
  <2>3. /\ \A d \in Call \ {u}, n \in Machine : task'[d][n] = task[d][n]
        /\ \A n \in Machine : task'[u][n] \in {"starting", task[u][n]}
    BY <1>0, <2>2, EnterLeaves, EnterGives, SMT
  <2> QED
    BY <1>0, <1>r, <2>1, <2>2, <2>3, SMT DEF DoneInv, Awaited
<1>8. ASSUME NEW u \in Up, NextWave(u) PROVE DoneInv'
  <2>0. phase[u] = "waves" /\ UNCHANGED <<prov, step>>
    BY <1>8 DEF NextWave
  <2>1. CASE UNCHANGED phase /\ Enter(u, past[u] \cup wave[u], "starting")
    <3>1. past[u] \cup wave[u] \in SUBSET Machine
      BY <1>0 DEF CallInv
    <3>2. /\ \A d \in Call \ {u}, n \in Machine : task'[d][n] = task[d][n]
          /\ \A n \in Machine : task'[u][n] \in {"starting", task[u][n]}
      BY <1>0, <2>1, EnterLeaves, EnterGives, SMT
    <3> QED
      BY <1>0, <1>r, <2>0, <2>1, <3>2, SMT DEF DoneInv, Awaited
  <2>2. CASE past[u] \cup wave[u] = Machine /\ phase' = [phase EXCEPT ![u] = "draining"]
               /\ UNCHANGED task
    <3>1. \A m \in Machine : task[u][m] = "joined"
      BY <1>8, <2>2 DEF NextWave, OrderInv
    <3>2. phase'[u] = "draining" /\ \A v \in Up \ {u} : phase'[v] = phase[v]
      BY <1>0, <2>2 DEF CallInv
    <3> QED
      BY <1>r, <2>0, <2>2, <3>1, <3>2, SMT DEF DoneInv, Awaited
  <2> QED
    BY <1>8, <2>1, <2>2 DEF NextWave
<1>9. ASSUME NEW u \in Up, Abandon(u) \/ Abandoned(u) PROVE DoneInv'
  <2>1. /\ phase'[u] \in {"abandoning", "failed"} /\ \A v \in Up \ {u} : phase'[v] = phase[v]
        /\ UNCHANGED <<prov, step>>
    BY <1>0, <1>9 DEF Abandon, Abandoned, CallInv
  <2>2. \A v \in Up, m \in Machine : task'[v][m] = "joined" <=> task[v][m] = "joined"
    BY <1>0, <1>9, SMT DEF Abandon, Abandoned, TaskInv, Live
  <2> QED
    BY <1>r, <2>1, <2>2, StillDone
<1>10. ASSUME NEW u \in Up, Drained(u) PROVE DoneInv'
  <2>1. /\ phase[u] = "draining" /\ phase'[u] = "ok" /\ \A v \in Up \ {u} : phase'[v] = phase[v]
        /\ \A m \in Machine : prov[u][m] \in {"none", "joined"}
        /\ UNCHANGED <<task, prov, step>>
    BY <1>0, <1>10 DEF Drained, CallInv
  <2> QED
    BY <1>r, <2>1, SMT DEF DoneInv, Awaited
<1>11. ASSUME NEW d \in Down, DownAsks(d) \/ DownNextWave(d) \/ DownFails(d) PROVE DoneInv'
  <2>1. UNCHANGED <<prov, step>> /\ \A u \in Up : phase'[u] = phase[u]
    BY <1>0, <1>11 DEF DownAsks, DownNextWave, DownFails, CallInv
  <2>2. past[d] \cup wave[d] \in SUBSET Machine
    BY <1>0 DEF CallInv
  <2>3. CASE UNCHANGED task
    BY <1>r, <2>1, <2>3, StillDone
  <2>4. CASE \E done \in SUBSET Machine : Enter(d, done, "stopping")
    <3>1. \A u \in Up, m \in Machine : task'[u][m] = task[u][m]
      BY <1>0, <2>4, EnterLeaves, SMT
    <3> QED
      BY <1>r, <2>1, <3>1, StillDone
  <2> QED
    BY <1>11, <2>2, <2>3, <2>4 DEF DownAsks, DownNextWave, DownFails
<1>12. ASSUME NEW d \in Down, NEW m \in Machine, Stop(d, m) PROVE DoneInv'
  <2>1. \A u \in Up, n \in Machine : task'[u][n] = task[u][n]
    BY <1>0, <1>12, StopKeepsUps
  <2> QED
    BY <1>r, <1>12, <2>1, StillDone DEF Stop
<1>13. CASE UNCHANGED calls
  BY <1>r, <1>13, StillDone DEF calls
<1> QED
  BY <1>1, <1>2, <1>3, <1>4, <1>5, <1>6, <1>7, <1>8, <1>9, <1>10, <1>11, <1>12, <1>13
     DEF Next, Joins, Provision, AgentAnswers, BecomesReady, Crash, Rest, vars

\* An `up' that returns well has run every configuration step, and left no first
\* boot owed on a machine that anything waits for.
THEOREM UpCompleteHolds == Spec => []UpComplete
<1>1. Init => OrderInv /\ ProvInv /\ DoneInv
  BY DEF Init, OrderInv, ProvInv, ReadyInv, StartOrder, ProvisionOrder, DoneInv, Call
<1>2. TypeInv /\ OrderInv /\ DoneInv => UpComplete
  <2> SUFFICES ASSUME TypeInv, OrderInv, DoneInv, NEW u \in Up, phase[u] = "ok", NEW m \in Machine
               PROVE  /\ step[u][m] = Steps[m]
                      /\ HasDependents(m) \/ Steps[m] > 0 \/ Awaited(m) => m \notin pending
    BY DEF UpComplete
  <2>1. task[u][m] = "joined" /\ prov[u][m] \in {"none", "joined"}
    BY DEF DoneInv
  <2>2. \/ prov[u][m] = "none" /\ step[u][m] = 0 /\ Steps[m] = 0 /\ ~Awaited(m)
        \/ step[u][m] = Steps[m] /\ m \in wasReady
    BY <2>1 DEF DoneInv, TypeInv, StepInv
  <2>3. HasDependents(m) => m \in wasReady
    BY <2>1 DEF OrderInv
  <2> QED
    BY <2>2, <2>3 DEF OrderInv, ReadyInv
<1> QED
  BY <1>1, <1>2, TypeInvHolds, StepOrdered, StepProvisioned, StepDone, PTL DEF Spec

-----------------------------------------------------------------------------
(* The order of stops. *)

\* A call that was not made has no task; and while a `down' is alone, no `up' is
\* alive, what it has stopped stays so, and what it stops is depended upon by
\* machines of its earlier waves only.
DownInv ==
    /\ \A c \in Call, m \in Machine : phase[c] = "idle" => task[c][m] = "none"
    /\ \A d \in alone :
           /\ \A u \in Up : ~UpLive(u)
           /\ past[d] \cap running = {}
           /\ \A m \in Machine :
                  /\ task[d][m] = "ok" => m \notin running
                  /\ task[d][m] = "stopping" => Dependents(m) \subseteq past[d]

LEMMA StillDown ==
    ASSUME TypeInv, DownInv, running' \subseteq running, alone' \subseteq alone,
           \A c \in Call, m \in Machine :
               phase'[c] = "idle" => phase[c] = "idle" /\ task'[c][m] = task[c][m],
           \A u \in Up : UpLive(u)' => UpLive(u),
           \A d \in Down : past'[d] = past[d] /\ \A m \in Machine : task'[d][m] = task[d][m]
    PROVE  DownInv'
<1>1. alone' \subseteq Down
  BY DEF TypeInv, CallInv
<1> QED
  BY <1>1 DEF DownInv, Dependents

LEMMA StepDown == TypeInv /\ QuietInv /\ DownInv /\ [Next]_vars => DownInv'
<1> SUFFICES ASSUME TypeInv, QuietInv, DownInv, [Next]_vars PROVE DownInv'
  OBVIOUS
<1> USE Zenon
<1>0. /\ Up \subseteq Call /\ Down \subseteq Call /\ Up \cap Down = {} /\ Call = Up \cup Down
      /\ TaskInv /\ CallInv /\ alone \subseteq Down
  BY LabAssumption DEF Call, TypeInv, CallInv
<1>a. ASSUME NEW u \in Up, NEW m \in Machine, NEW from \in Live \cup {"ok"},
             NEW to, TaskAt(u, m, from, to), UNCHANGED <<phase, past, alone>>,
             running' \subseteq running \/ alone = {}
      PROVE  DownInv'
  <2>1. /\ task[u][m] = from
        /\ \A c \in Call, n \in Machine : c # u \/ n # m => task'[c][n] = task[c][n]
    BY <1>0, <1>a, TaskMoves, SMT
  <2>2. phase[u] # "idle"
    BY <1>0, <2>1 DEF DownInv, Live
  <2>3. \A d \in Down, n \in Machine : task'[d][n] = task[d][n]
    BY <1>0, <2>1
  <2>4. \A c \in Call, n \in Machine : phase[c] = "idle" => task'[c][n] = task[c][n]
    BY <2>1, <2>2
  <2>5. CASE running' \subseteq running
    BY <1>a, <2>3, <2>4, <2>5, StillDown DEF UpLive
  <2>6. CASE alone = {}
    BY <1>a, <2>4, <2>6, SMT DEF DownInv
  <2> QED
    BY <1>a, <2>5, <2>6
<1>1. ASSUME NEW u \in Up, NEW m \in Machine, Start(u, m) PROVE DownInv'
  <2>1. PICK to \in {"started", "failed"} : TaskAt(u, m, "starting", to)
    BY <1>1 DEF Start
  <2>2. task[u][m] = "starting"
    BY <2>1 DEF TaskAt
  <2>3. UpLive(u)
    BY <1>0, <2>2 DEF QuietInv, DownInv, CallInv, UpLive, Live
  <2>4. alone = {}
    BY <2>3 DEF DownInv
  <2> QED
    BY <1>1, <1>a, <2>1, <2>4 DEF Start, Live
<1>2. ASSUME NEW u \in Up, NEW m \in Machine,
             \/ TakeFirstBoot(u, m) \/ Wake(u, m) \/ ScriptTimesOut(u, m)
             \/ FirstBootDone(u, m) \/ Gate(u, m) \/ JoinStarted(u, m)
      PROVE  DownInv'
  <2>1. UNCHANGED <<phase, past, alone, running>>
    BY <1>2 DEF TakeFirstBoot, Wake, ScriptTimesOut, FirstBootDone, Gate, JoinStarted, lab
  <2>2. \E from \in Live \cup {"ok"}, to \in TaskStage : TaskAt(u, m, from, to)
    BY <1>2, Stages DEF TakeFirstBoot, Wake, ScriptTimesOut, FirstBootDone, Gate, JoinStarted,
       Live
  <2> QED
    BY <1>a, <2>1, <2>2
<1>3. ASSUME NEW u \in Up, NEW m \in Machine, ScriptEnds(u, m) PROVE DownInv'
  <2>1. UNCHANGED <<phase, past, alone, running>>
    BY <1>3 DEF ScriptEnds
  <2>2. CASE UNCHANGED task
    BY <2>1, <2>2, StillDown DEF UpLive
  <2>3. CASE \E from \in Live \cup {"ok"}, to \in TaskStage : TaskAt(u, m, from, to)
    BY <1>a, <2>1, <2>3
  <2> QED
    BY <1>3, <2>2, <2>3, Stages DEF ScriptEnds, Live
<1>4. ASSUME NEW u \in Up, UpAsks(u) PROVE DownInv'
  <2>1. /\ phase'[u] = "waves" /\ \A c \in Call \ {u} : phase'[c] = phase[c]
        /\ alone' = {} /\ Enter(u, {}, "starting")
    BY <1>0, <1>4 DEF UpAsks, CallInv
  <2>2. \A c \in Call \ {u}, n \in Machine : task'[c][n] = task[c][n]
    BY <1>0, <2>1, EnterLeaves, SMT
  <2> QED
    BY <2>1, <2>2, SMT DEF DownInv
<1>5. ASSUME NEW u \in Up, NextWave(u) PROVE DownInv'
  <2>1. /\ phase[u] = "waves" /\ phase'[u] # "idle"
        /\ \A c \in Call \ {u} : phase'[c] = phase[c]
        /\ UNCHANGED <<alone, running>>
    BY <1>0, <1>5 DEF NextWave, CallInv, lab
  <2>2. alone = {}
    BY <2>1 DEF DownInv, UpLive
  <2>3. \A c \in Call \ {u}, n \in Machine : task'[c][n] = task[c][n]
    <3>1. past[u] \cup wave[u] \in SUBSET Machine
      BY <1>0 DEF CallInv
    <3>2. CASE Enter(u, past[u] \cup wave[u], "starting")
      BY <1>0, <3>1, <3>2, EnterLeaves, SMT
    <3> QED
      BY <1>5, <3>2 DEF NextWave
  <2> QED
    BY <2>1, <2>2, <2>3, SMT DEF DownInv
<1>6. ASSUME NEW u \in Up, Abandon(u) \/ Abandoned(u) \/ Drained(u) PROVE DownInv'
  <2>1. /\ UpLive(u) /\ phase'[u] # "idle"
        /\ \A c \in Call \ {u} : phase'[c] = phase[c]
        /\ UNCHANGED alone
    BY <1>0, <1>6 DEF Abandon, Abandoned, Drained, CallInv, UpLive
  <2>2. alone = {}
    BY <2>1 DEF DownInv
  <2>3. \A c \in Call \ {u}, n \in Machine : task'[c][n] = task[c][n]
    BY <1>0, <1>6 DEF Abandon, Abandoned, Drained, TaskInv
  <2> QED
    BY <2>1, <2>2, <2>3, SMT DEF DownInv
<1>7. ASSUME NEW u \in Up, NEW m \in Machine, Provision(u, m) \/ JoinProvisioned(u, m)
      PROVE  DownInv'
  <2>1. UNCHANGED <<phase, past, task, alone, running>>
    BY <1>7 DEF Provision, ProvisionGate, ProvisionAfter, RunStep, JoinProvisioned, lab
  <2> QED
    BY <2>1, StillDown DEF UpLive
<1>8. ASSUME NEW d \in Down, DownAsks(d) PROVE DownInv'
  <2>1. /\ phase[d] = "idle" /\ phase'[d] = "waves"
        /\ \A c \in Call \ {d} : phase'[c] = phase[c]
        /\ alone' = IF \E u \in Up : UpLive(u) THEN alone ELSE alone \cup {d}
        /\ UNCHANGED running
    BY <1>0, <1>8 DEF DownAsks, CallInv, lab
  <2>s. /\ d \in Call
        /\ Enter(d, {}, "stopping")
    BY <1>0, <1>8 DEF DownAsks
  <2>2. /\ past'[d] = {} /\ \A c \in Call \ {d} : past'[c] = past[c]
        /\ \A c \in Call \ {d}, n \in Machine : task'[c][n] = task[c][n]
    BY <1>0, <2>s, EnterLeaves, EnterGives, SMT
  <2>3. \A n \in Machine : /\ n \in WaveAfter(d, {}) => task'[d][n] = "stopping"
                           /\ n \notin WaveAfter(d, {}) => task'[d][n] = task[d][n]
    BY <1>0, <2>s, EnterGives, SMT
  <2>4. \A n \in Machine : task[d][n] = "none"
    BY <1>0, <2>1 DEF DownInv
  <2>5. \A n \in Machine : /\ task'[d][n] # "ok"
                           /\ task'[d][n] = "stopping" => Dependents(n) \subseteq {}
    BY <1>0, <2>3, <2>4 DEF WaveAfter, Before
  <2>6. \A u \in Up : phase'[u] = phase[u]
    BY <1>0, <2>1
  <2>7. ASSUME NEW e \in alone'
        PROVE  /\ \A u \in Up : ~UpLive(u)'
               /\ past'[e] \cap running' = {}
               /\ \A m \in Machine :
                     /\ task'[e][m] = "ok" => m \notin running'
                     /\ task'[e][m] = "stopping" => Dependents(m) \subseteq past'[e]
    <3>1. \A u \in Up : ~UpLive(u)'
      BY <2>1, <2>6, <2>7 DEF UpLive, DownInv
    <3>2. CASE e = d
      BY <2>2, <2>5, <3>1, <3>2
    <3>3. CASE e \in alone /\ e # d
      <4>1. e \in Call \ {d}
        BY <1>0, <3>3
      <4> QED
        BY <2>1, <2>2, <3>1, <3>3, <4>1, SMT DEF DownInv
    <3> QED
      BY <2>1, <2>7, <3>2, <3>3
  <2>8. \A c \in Call, m \in Machine : phase'[c] = "idle" => task'[c][m] = "none"
    BY <2>1, <2>2, SMT DEF DownInv
  <2> QED
    BY <2>7, <2>8 DEF DownInv, Dependents
<1>9. ASSUME NEW d \in Down, DownNextWave(d) PROVE DownInv'
  <2>0. /\ phase[d] = "waves" /\ UNCHANGED <<alone, running>>
        /\ \A m \in wave[d] : task[d][m] = "ok"
    BY <1>9 DEF DownNextWave, lab
  <2>1. CASE phase' = [phase EXCEPT ![d] = "ok"] /\ UNCHANGED <<past, task>>
    <3>1. phase'[d] = "ok" /\ \A c \in Call \ {d} : phase'[c] = phase[c]
      BY <1>0, <2>1 DEF CallInv
    <3> QED
      BY <1>0, <2>0, <2>1, <3>1, StillDown DEF UpLive
  <2>2. CASE UNCHANGED phase /\ Enter(d, past[d] \cup wave[d], "stopping")
    <3> DEFINE done == past[d] \cup wave[d]
    <3>1. done \in SUBSET Machine
      BY <1>0 DEF CallInv
    <3>s. d \in Call /\ Enter(d, done, "stopping")
      BY <1>0, <2>2
    <3> HIDE DEF done
    <3>2. /\ past'[d] = done /\ \A c \in Call \ {d} : past'[c] = past[c]
          /\ \A c \in Call \ {d}, n \in Machine : task'[c][n] = task[c][n]
      BY <1>0, <3>s, EnterLeaves, EnterGives, SMT
    <3>3. \A n \in Machine : /\ n \in WaveAfter(d, done) => task'[d][n] = "stopping"
                             /\ n \notin WaveAfter(d, done) => task'[d][n] = task[d][n]
      BY <1>0, <3>s, EnterGives, SMT
    <3>4. \A n \in WaveAfter(d, done) : Dependents(n) \subseteq done
      BY <1>0 DEF WaveAfter, Before
    <3>5. ASSUME NEW e \in alone'
          PROVE  /\ \A u \in Up : ~UpLive(u)'
                 /\ past'[e] \cap running' = {}
                 /\ \A m \in Machine :
                       /\ task'[e][m] = "ok" => m \notin running'
                       /\ task'[e][m] = "stopping" => Dependents(m) \subseteq past'[e]
      <4>1. e \in alone /\ e \in Call
        BY <1>0, <2>0
      <4>2. \A u \in Up : ~UpLive(u)'
        BY <2>2, <4>1 DEF UpLive, DownInv
      <4>3. CASE e = d
        <5>1. /\ past[d] \cap running = {}
              /\ \A m \in Machine :
                    /\ task[d][m] = "ok" => m \notin running
                    /\ task[d][m] = "stopping" => Dependents(m) \subseteq past[d]
          BY <4>1, <4>3 DEF DownInv
        <5>2. wave[d] \subseteq Machine
          BY <1>0 DEF CallInv
        <5>3. done \cap running = {}
          BY <2>0, <5>1, <5>2 DEF done
        <5>4. past[d] \subseteq done
          BY DEF done
        <5> QED
          BY <2>0, <3>2, <3>3, <3>4, <4>2, <4>3, <5>1, <5>3, <5>4
      <4>4. CASE e # d
        <5>1. past'[e] = past[e] /\ \A n \in Machine : task'[e][n] = task[e][n]
          BY <3>2, <4>1, <4>4
        <5> QED
          BY <2>0, <4>1, <4>2, <5>1 DEF DownInv
      <4> QED
        BY <4>3, <4>4
    <3>6. \A c \in Call, m \in Machine : phase'[c] = "idle" => task'[c][m] = "none"
      BY <2>0, <2>2, <3>2, SMT DEF DownInv
    <3> QED
      BY <3>5, <3>6 DEF DownInv, Dependents
  <2> QED
    BY <1>9, <2>1, <2>2 DEF DownNextWave
<1>10. ASSUME NEW d \in Down, DownFails(d) PROVE DownInv'
  <2>1. /\ phase'[d] = "failed" /\ \A c \in Call \ {d} : phase'[c] = phase[c]
        /\ UNCHANGED <<past, task, alone, running>>
    BY <1>0, <1>10 DEF DownFails, CallInv, lab
  <2> QED
    BY <1>0, <2>1, StillDown DEF UpLive
<1>11. ASSUME NEW d \in Down, NEW m \in Machine, Stop(d, m) PROVE DownInv'
  <2>1. PICK to \in {"ok", "failed"} :
            TaskAt(d, m, "stopping", to) /\ (to = "ok" => running' = running \ {m})
    BY <1>11 DEF Stop, Stops
  <2>2. UNCHANGED <<phase, past, alone>> /\ running' \subseteq running
    BY <1>11 DEF Stop, Stops, lab
  <2>3. /\ task[d][m] = "stopping" /\ task'[d][m] = to
        /\ \A c \in Call, n \in Machine : c # d \/ n # m => task'[c][n] = task[c][n]
    BY <1>0, <2>1, TaskMoves, SMT
  <2>4. ASSUME NEW e \in alone', NEW n \in Machine
        PROVE  /\ task'[e][n] = "ok" => n \notin running'
               /\ task'[e][n] = "stopping" => Dependents(n) \subseteq past'[e]
    <3>1. CASE e = d /\ n = m
      BY <2>1, <2>3, <3>1
    <3>2. CASE e # d \/ n # m
      <4>1. task'[e][n] = task[e][n] /\ e \in alone
        BY <1>0, <2>2, <2>3, <3>2
      <4> QED
        BY <2>2, <4>1 DEF DownInv
    <3> QED
      BY <3>1, <3>2
  <2>5. \A c \in Call, n \in Machine : phase'[c] = "idle" => task'[c][n] = "none"
    BY <1>0, <2>2, <2>3, SMT DEF DownInv
  <2>6. \A e \in alone' : past'[e] \cap running' = {} /\ \A u \in Up : ~UpLive(u)'
    BY <2>2 DEF DownInv, UpLive
  <2> QED
    BY <2>4, <2>5, <2>6 DEF DownInv, Dependents
<1>12. ASSUME NEW m \in Machine, AgentAnswers(m) \/ BecomesReady(m) \/ Crash(m) PROVE DownInv'
  <2>1. UNCHANGED <<phase, past, task, alone>> /\ running' \subseteq running
    BY <1>12 DEF AgentAnswers, BecomesReady, Crash, Stops, calls
  <2> QED
    BY <2>1, StillDown DEF UpLive
<1>13. CASE UNCHANGED vars
  <2>1. UNCHANGED <<phase, past, task, alone, running>>
    BY <1>13 DEF vars, lab, calls
  <2> QED
    BY <2>1, StillDown DEF UpLive
<1> QED
  BY <1>1, <1>2, <1>3, <1>4, <1>5, <1>6, <1>7, <1>8, <1>9, <1>10, <1>11, <1>12, <1>13
     DEF Next, Joins, Task, Rest

\* A `down' no `up' overlaps begins to stop a machine only when all that depends
\* on it is stopped, and they stay stopped while it does.
THEOREM DownOrderHolds == Spec => []DownOrder
<1>1. Init => OrderInv /\ QuietInv /\ DownInv
  BY DEF Init, OrderInv, ReadyInv, StartOrder, QuietInv, DownInv, Live, ProvLive, Call
<1>2. DownInv => DownOrder
  BY DEF DownInv, DownOrder
<1> QED
  BY <1>1, <1>2, TypeInvHolds, StepOrdered, StepQuiet, StepDown, PTL DEF Spec
=============================================================================
