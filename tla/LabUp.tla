-------------------------------- MODULE LabUp --------------------------------
(***************************************************************************)
(* `up' and `down' over a lab (labd/lab.rs): the waves of machines, each   *)
(* started by a task of its own, the template first boots, and the         *)
(* provisioning that runs beside the waves.  Nothing serialises two `up's, *)
(* or an `up' and a `down'.                                                *)
(*                                                                         *)
(* A machine is abstracted to what the callers see of it: whether it runs, *)
(* whether its agent answers and whether it is ready (VmLifecycle has the  *)
(* rest).  The targets are closed under both ordering keys, and no key has *)
(* a cycle: LabPlan shows that plan() sees to it.                          *)
(***************************************************************************)
EXTENDS Naturals

CONSTANTS
    Machine,            \* the targets
    DependsOn, After,   \* depends_on and depends_on_provision, by machine
    Steps,              \* how many configuration steps each machine has
    FirstBoot,          \* the machines whose template carries a first boot
    Up, Down,           \* the `up's and the `down's
    Mishaps,            \* what may go wrong: see MishapAssumption
    MaxCrashes          \* bound on the machines that stop by themselves

ASSUME LabAssumption ==
    /\ DependsOn \in [Machine -> SUBSET Machine]
    /\ After \in [Machine -> SUBSET Machine]
    /\ Steps \in [Machine -> Nat]
    /\ FirstBoot \subseteq Machine
    /\ Up \cap Down = {}
    /\ MaxCrashes \in Nat

\* start: a machine does not start; script: a first boot fails; timeout: a
\* wait or a first boot runs out of time; step: a configuration step fails;
\* stop: a machine does not stop.
ASSUME MishapAssumption == Mishaps \subseteq {"start", "script", "timeout", "step", "stop"}

VARIABLES
    running, answering, \* the machines that run, and whose agent answers
    ready,              \* the machines reported ready
    pending,            \* the machines that owe a first boot
    claims,             \* first_boots: the machines whose first boot is claimed
    scripts,            \* the first-boot scripts that run: <<up, machine>>
    phase,              \* where each `up' and `down' is
    wave, past,         \* its current wave, and the machines of earlier ones
    task,               \* where its wave's task for a machine is
    prov, step,         \* where its provisioning of a machine is, and the steps done
    finished,           \* the machines whose steps it has finished
    alone,              \* the `down's that no `up' has overlapped
    wasReady,           \* the machines that have ever been ready
    crashes

lab   == <<running, answering, ready, pending, claims, scripts, wasReady, crashes>>
calls == <<phase, wave, past, task, prov, step, finished, alone>>
vars  == <<lab, calls>>

Call == Up \cup Down

Dependents(m) == {n \in Machine : m \in DependsOn[n]}
Awaited(m)    == \E n \in Machine : m \in After[n]

\* Broken variant of Before: `down' goes the way of `up'.
Before_Forward(c, m) == DependsOn[m]

\* The wave after the machines of done: what `up' starts, or `down' stops, next.
Before(c, m)       == IF c \in Up THEN DependsOn[m] ELSE Dependents(m)
WaveAfter(c, done) == {m \in Machine \ done : Before(c, m) \subseteq done}

Live  == {"starting", "started", "waking", "scripting", "scripted", "gating"}
Ended == {"none", "ok", "failed", "joined", "aborted"}
ProvLive == {"gate", "after", "stepping"}

TypeOK ==
    /\ running \subseteq Machine /\ answering \subseteq running
    /\ ready \subseteq Machine /\ wasReady \subseteq Machine
    /\ pending \subseteq FirstBoot /\ claims \subseteq FirstBoot
    /\ scripts \subseteq Up \X FirstBoot
    /\ phase \in [Call -> {"idle", "waves", "draining", "abandoning", "ok", "failed"}]
    /\ wave \in [Call -> SUBSET Machine] /\ past \in [Call -> SUBSET Machine]
    /\ task \in [Call -> [Machine -> Live \cup Ended \cup {"stopping"}]]
    /\ prov \in [Up -> [Machine -> ProvLive \cup {"none", "ok", "failed", "cancelled", "joined"}]]
    /\ step \in [Up -> [Machine -> Nat]]
    /\ \A u \in Up, m \in Machine : step[u][m] <= Steps[m]
    /\ finished \in [Up -> SUBSET Machine]
    /\ alone \subseteq Down
    /\ crashes \in 0 .. MaxCrashes

Init ==
    /\ running = {} /\ answering = {} /\ ready = {} /\ wasReady = {}
    /\ pending = FirstBoot /\ claims = {} /\ scripts = {}
    /\ phase = [c \in Call |-> "idle"]
    /\ wave = [c \in Call |-> {}] /\ past = [c \in Call |-> {}]
    /\ task = [c \in Call |-> [m \in Machine |-> "none"]]
    /\ prov = [u \in Up |-> [m \in Machine |-> "none"]]
    /\ step = [u \in Up |-> [m \in Machine |-> 0]]
    /\ finished = [u \in Up |-> {}]
    /\ alone = {} /\ crashes = 0

-----------------------------------------------------------------------------
(* A wave's task for one machine. *)

TaskAt(c, m, from, to) == task[c][m] = from /\ task' = [task EXCEPT ![c][m] = to]

\* start_machine; a machine that runs already is left alone.
Start(u, m) ==
    /\ \/ running' = running \cup {m} /\ TaskAt(u, m, "starting", "started")
       \/ "start" \in Mishaps /\ UNCHANGED running /\ TaskAt(u, m, "starting", "failed")
    /\ UNCHANGED <<answering, ready, pending, claims, scripts, wasReady, crashes,
                   phase, wave, past, prov, step, finished, alone>>

\* Broken variant of TakeFirstBoot: the claim is not looked at.
TakeFirstBoot_Unclaimed(u, m) ==
    /\ IF m \in pending
       THEN TaskAt(u, m, "started", "waking") /\ claims' = claims \cup {m}
       ELSE TaskAt(u, m, "started", "gating") /\ UNCHANGED claims
    /\ UNCHANGED <<running, answering, ready, pending, scripts, wasReady, crashes,
                   phase, wave, past, prov, step, finished, alone>>

\* run_first_boot: claimed first, then asked for; one that is claimed is left
\* to the run that holds it.
TakeFirstBoot(u, m) ==
    /\ IF m \notin claims /\ m \in pending
       THEN TaskAt(u, m, "started", "waking") /\ claims' = claims \cup {m}
       ELSE TaskAt(u, m, "started", "gating") /\ UNCHANGED claims
    /\ UNCHANGED <<running, answering, ready, pending, scripts, wasReady, crashes,
                   phase, wave, past, prov, step, finished, alone>>

\* wait_until: a wait for m gives up: m is stopped, or the time is over.
Hopeless(m) == m \notin running \/ "timeout" \in Mishaps

\* wait_agent_up, and the script is handed to a thread of its own.
Wake(u, m) ==
    /\ \/ /\ m \in answering /\ TaskAt(u, m, "waking", "scripting")
          /\ scripts' = scripts \cup {<<u, m>>} /\ UNCHANGED claims
       \/ /\ Hopeless(m) /\ TaskAt(u, m, "waking", "failed")
          /\ claims' = claims \ {m} /\ UNCHANGED scripts
    /\ UNCHANGED <<running, answering, ready, pending, wasReady, crashes,
                   phase, wave, past, prov, step, finished, alone>>

\* The script's thread ends, and the task that waits for it, if it still does,
\* goes on.
ScriptEnds(u, m) ==
    /\ <<u, m>> \in scripts /\ scripts' = scripts \ {<<u, m>>}
    /\ IF task[u][m] # "scripting" THEN UNCHANGED <<task, claims>>
       ELSE \/ TaskAt(u, m, "scripting", "scripted") /\ UNCHANGED claims
            \/ /\ "script" \in Mishaps \/ m \notin running
               /\ TaskAt(u, m, "scripting", "failed") /\ claims' = claims \ {m}
    /\ UNCHANGED <<running, answering, ready, pending, wasReady, crashes,
                   phase, wave, past, prov, step, finished, alone>>

\* The wait for the script times out; the thread is not told.
ScriptTimesOut(u, m) ==
    /\ "timeout" \in Mishaps
    /\ TaskAt(u, m, "scripting", "failed") /\ claims' = claims \ {m}
    /\ UNCHANGED <<running, answering, ready, pending, scripts, wasReady, crashes,
                   phase, wave, past, prov, step, finished, alone>>

\* Broken variant of FirstBootDone: the sentinel is not written.
FirstBootDone_Unmarked(u, m) ==
    /\ TaskAt(u, m, "scripted", "gating")
    /\ ready' = ready \cup {m} /\ wasReady' = wasReady \cup {m}
    /\ claims' = claims \ {m}
    /\ UNCHANGED <<running, answering, pending, scripts, crashes,
                   phase, wave, past, prov, step, finished, alone>>

\* refresh_agent, first_boot_done, and the claim is given back.
FirstBootDone(u, m) ==
    /\ TaskAt(u, m, "scripted", "gating")
    /\ pending' = pending \ {m} /\ ready' = ready \cup {m} /\ wasReady' = wasReady \cup {m}
    /\ claims' = claims \ {m}
    /\ UNCHANGED <<running, answering, scripts, crashes,
                   phase, wave, past, prov, step, finished, alone>>

\* Broken variant of HasDependents: the machine's own dependencies.
HasDependents_Swapped(m) == DependsOn[m] # {}

HasDependents(m) == Dependents(m) # {}

\* The wave waits for readiness only where a machine depends on it.
Gate(u, m) ==
    /\ \/ (HasDependents(m) => m \in ready) /\ TaskAt(u, m, "gating", "ok")
       \/ HasDependents(m) /\ m \notin ready /\ Hopeless(m) /\ TaskAt(u, m, "gating", "failed")
    /\ UNCHANGED <<lab, phase, wave, past, prov, step, finished, alone>>

Task(u, m) ==
    \/ Start(u, m) \/ TakeFirstBoot(u, m) \/ Wake(u, m)
    \/ ScriptEnds(u, m) \/ ScriptTimesOut(u, m) \/ FirstBootDone(u, m) \/ Gate(u, m)

-----------------------------------------------------------------------------
(* One machine's provisioning, beside the waves. *)

ProvAt(u, m, from, to) == prov[u][m] = from /\ prov' = [prov EXCEPT ![u][m] = to]

Cancelled(u) == phase[u] = "abandoning"

\* The steps wait for the machine to be ready.
ProvisionGate(u, m) ==
    /\ \/ ~Cancelled(u) /\ m \in ready /\ ProvAt(u, m, "gate", "after")
       \/ ~Cancelled(u) /\ m \notin ready /\ Hopeless(m) /\ ProvAt(u, m, "gate", "failed")
       \/ Cancelled(u) /\ ProvAt(u, m, "gate", "cancelled")
    /\ UNCHANGED <<lab, phase, wave, past, task, step, finished, alone>>

\* All its steps are done: those who wait for them are told.
Finish(u, m) == finished' = [finished EXCEPT ![u] = @ \cup {m}]

\* Broken variant of ProvisionAfter: nothing is waited for.
ProvisionAfter_AtOnce(u, m) ==
    /\ IF Steps[m] = 0 THEN ProvAt(u, m, "after", "ok") /\ Finish(u, m)
                       ELSE ProvAt(u, m, "after", "stepping") /\ UNCHANGED finished
    /\ UNCHANGED <<lab, phase, wave, past, task, step, alone>>

\* ... and for the provisioning of every machine of depends_on_provision.
ProvisionAfter(u, m) ==
    /\ \/ /\ After[m] = {} \/ (~Cancelled(u) /\ After[m] \subseteq finished[u])
          /\ IF Steps[m] = 0 THEN ProvAt(u, m, "after", "ok") /\ Finish(u, m)
                             ELSE ProvAt(u, m, "after", "stepping") /\ UNCHANGED finished
       \/ /\ After[m] # {} /\ Cancelled(u)
          /\ ProvAt(u, m, "after", "cancelled") /\ UNCHANGED finished
    /\ UNCHANGED <<lab, phase, wave, past, task, step, alone>>

\* A step ends well, fails, or is cancelled at its next host call: a script that
\* makes none ends as it would have.
RunStep(u, m) ==
    /\ \/ /\ step' = [step EXCEPT ![u][m] = @ + 1]
          /\ IF step[u][m] + 1 = Steps[m]
             THEN ProvAt(u, m, "stepping", "ok") /\ Finish(u, m)
             ELSE ProvAt(u, m, "stepping", "stepping") /\ UNCHANGED finished
       \/ /\ "step" \in Mishaps \/ m \notin running
          /\ ProvAt(u, m, "stepping", "failed") /\ UNCHANGED <<step, finished>>
       \/ /\ Cancelled(u)
          /\ ProvAt(u, m, "stepping", "cancelled") /\ UNCHANGED <<step, finished>>
    /\ UNCHANGED <<lab, phase, wave, past, task, alone>>

Provision(u, m) == ProvisionGate(u, m) \/ ProvisionAfter(u, m) \/ RunStep(u, m)

-----------------------------------------------------------------------------
(* The caller. *)

Enter(c, done, first) ==
    LET next == WaveAfter(c, done) IN
    /\ past' = [past EXCEPT ![c] = done] /\ wave' = [wave EXCEPT ![c] = next]
    /\ task' = [task EXCEPT ![c] = [m \in Machine |-> IF m \in next THEN first ELSE @[m]]]

UpAsks(u) ==
    /\ phase[u] = "idle" /\ phase' = [phase EXCEPT ![u] = "waves"]
    /\ Enter(u, {}, "starting")
    /\ alone' = {}
    /\ UNCHANGED <<lab, prov, step, finished>>

\* A machine started: its provisioning is spawned, unless nobody asks for it.
JoinStarted(u, m) ==
    /\ phase[u] = "waves" /\ TaskAt(u, m, "ok", "joined")
    /\ IF Steps[m] = 0 /\ ~Awaited(m)
       THEN Finish(u, m) /\ UNCHANGED prov
       ELSE ProvAt(u, m, "none", "gate") /\ UNCHANGED finished
    /\ UNCHANGED <<lab, phase, wave, past, step, alone>>

JoinProvisioned(u, m) ==
    /\ phase[u] \in {"waves", "draining"} /\ ProvAt(u, m, "ok", "joined")
    /\ UNCHANGED <<lab, phase, wave, past, task, step, finished, alone>>

HoldsClaim(u, m) == task[u][m] \in {"waking", "scripting", "scripted"}

\* abandon_up: the steps are cancelled and the wave's tasks aborted, which gives
\* their claims back.
Abandon(u) ==
    /\ \E m \in Machine :
           \/ phase[u] = "waves" /\ task[u][m] = "failed"
           \/ phase[u] \in {"waves", "draining"} /\ prov[u][m] = "failed"
    /\ phase' = [phase EXCEPT ![u] = "abandoning"]
    /\ task' = [task EXCEPT ![u] = [m \in Machine |-> IF @[m] \in Live THEN "aborted" ELSE @[m]]]
    /\ claims' = claims \ {m \in Machine : HoldsClaim(u, m)}
    /\ UNCHANGED <<running, answering, ready, pending, scripts, wasReady, crashes,
                   wave, past, prov, step, finished, alone>>

\* Broken variant of Abandoned: the cancelled steps are not waited for.
Abandoned_AtOnce(u) ==
    /\ phase[u] = "abandoning" /\ phase' = [phase EXCEPT ![u] = "failed"]
    /\ UNCHANGED <<lab, wave, past, task, prov, step, finished, alone>>

\* `up' fails once every step has stopped.
Abandoned(u) ==
    /\ phase[u] = "abandoning" /\ \A m \in Machine : prov[u][m] \notin ProvLive
    /\ phase' = [phase EXCEPT ![u] = "failed"]
    /\ UNCHANGED <<lab, wave, past, task, prov, step, finished, alone>>

NextWave(u) ==
    /\ phase[u] = "waves" /\ \A m \in wave[u] : task[u][m] = "joined"
    /\ LET done == past[u] \cup wave[u] IN
       IF done # Machine THEN Enter(u, done, "starting") /\ UNCHANGED phase
       ELSE phase' = [phase EXCEPT ![u] = "draining"] /\ UNCHANGED <<wave, past, task>>
    /\ UNCHANGED <<lab, prov, step, finished, alone>>

\* `up' returns once every step has finished.
Drained(u) ==
    /\ phase[u] = "draining" /\ \A m \in Machine : prov[u][m] \in {"none", "joined"}
    /\ phase' = [phase EXCEPT ![u] = "ok"]
    /\ UNCHANGED <<lab, wave, past, task, prov, step, finished, alone>>

Joins(u) ==
    \/ \E m \in Machine : JoinStarted(u, m) \/ JoinProvisioned(u, m)
    \/ Abandon(u) \/ Abandoned(u) \/ NextWave(u) \/ Drained(u)

-----------------------------------------------------------------------------
(* `down', and what the machines do. *)

\* A stopped machine neither answers nor is ready.
Stops(m) ==
    /\ running' = running \ {m} /\ answering' = answering \ {m} /\ ready' = ready \ {m}
    /\ UNCHANGED <<pending, claims, scripts, wasReady>>

UpLive(u) == phase[u] \in {"waves", "draining", "abandoning"}

DownAsks(d) ==
    /\ phase[d] = "idle" /\ phase' = [phase EXCEPT ![d] = "waves"]
    /\ Enter(d, {}, "stopping")
    /\ alone' = IF \E u \in Up : UpLive(u) THEN alone ELSE alone \cup {d}
    /\ UNCHANGED <<lab, prov, step, finished>>

Stop(d, m) ==
    /\ \/ Stops(m) /\ UNCHANGED crashes /\ TaskAt(d, m, "stopping", "ok")
       \/ "stop" \in Mishaps /\ UNCHANGED lab /\ TaskAt(d, m, "stopping", "failed")
    /\ UNCHANGED <<phase, wave, past, prov, step, finished, alone>>

DownNextWave(d) ==
    /\ phase[d] = "waves" /\ \A m \in wave[d] : task[d][m] = "ok"
    /\ LET done == past[d] \cup wave[d] IN
       IF done # Machine THEN Enter(d, done, "stopping") /\ UNCHANGED phase
       ELSE phase' = [phase EXCEPT ![d] = "ok"] /\ UNCHANGED <<wave, past, task>>
    /\ UNCHANGED <<lab, prov, step, finished, alone>>

\* The first stop that fails ends the `down'; the wave's other stops go on.
DownFails(d) ==
    /\ phase[d] = "waves" /\ \E m \in wave[d] : task[d][m] = "failed"
    /\ phase' = [phase EXCEPT ![d] = "failed"]
    /\ UNCHANGED <<lab, wave, past, task, prov, step, finished, alone>>

AgentAnswers(m) ==
    /\ m \in running \ answering /\ answering' = answering \cup {m}
    /\ UNCHANGED <<running, ready, pending, claims, scripts, wasReady, crashes, calls>>

\* The readiness poller; a machine that owes a first boot is not its to report.
BecomesReady(m) ==
    /\ m \in answering \ (pending \cup ready)
    /\ ready' = ready \cup {m} /\ wasReady' = wasReady \cup {m}
    /\ UNCHANGED <<running, answering, pending, claims, scripts, crashes, calls>>

Crash(m) ==
    /\ m \in running /\ crashes < MaxCrashes /\ crashes' = crashes + 1
    /\ Stops(m)
    /\ UNCHANGED calls

\* Every call has returned and every script has ended.
Rest ==
    /\ \A c \in Call : phase[c] \in {"ok", "failed"}
    /\ scripts = {}
    /\ UNCHANGED vars

Next ==
    \/ \E u \in Up : UpAsks(u) \/ Joins(u) \/ \E m \in Machine : Task(u, m) \/ Provision(u, m)
    \/ \E d \in Down : \/ DownAsks(d) \/ DownNextWave(d) \/ DownFails(d)
                       \/ \E m \in Machine : Stop(d, m)
    \/ \E m \in Machine : AgentAnswers(m) \/ BecomesReady(m) \/ Crash(m)
    \/ Rest

Spec == Init /\ [][Next]_vars

-----------------------------------------------------------------------------
(* Properties. *)

\* A machine is started only once every machine it depends on has been ready:
\* a wave begins when the one before it has started, and starting includes
\* readiness where something depends on it.
StartOrder ==
    \A u \in Up, m \in Machine : task[u][m] # "none" => DependsOn[m] \subseteq wasReady

\* A configuration step runs only on a machine that has been ready and has made
\* its first boot, and after every step of the machines it waits for.
ProvisionOrder ==
    \A u \in Up, m \in Machine : prov[u][m] = "stepping" \/ step[u][m] > 0 =>
        /\ m \in wasReady \ pending
        /\ \A a \in After[m] : step[u][a] = Steps[a] /\ a \in wasReady

\* An `up' that succeeds has run every step, and left no first boot owed on a
\* machine that anything waits for.
UpComplete ==
    \A u \in Up : phase[u] = "ok" =>
        \A m \in Machine :
            /\ step[u][m] = Steps[m]
            /\ HasDependents(m) \/ Steps[m] > 0 \/ Awaited(m) => m \notin pending

\* Nothing of an `up' that has returned still starts, gates or configures a
\* machine: "when one machine in the wave fails the rest are aborted on the
\* spot", and the steps are waited for.
UpQuiet ==
    \A u \in Up : phase[u] \in {"ok", "failed"} =>
        \A m \in Machine : task[u][m] \notin Live /\ prov[u][m] \notin ProvLive

\* A machine's first boot is claimed by one `up' at a time, and by none once it
\* has succeeded: first_boots "is what keeps it to one run at a time".
OneFirstBoot ==
    \A m \in Machine, u \in Up : HoldsClaim(u, m) =>
        m \in pending /\ \A v \in Up : HoldsClaim(v, m) => v = u

\* A `down' that no `up' overlaps stops a machine only when everything that
\* depends on it is stopped: "a domain controller outlives the members".
DownOrder ==
    \A d \in alone, m \in Machine : task[d][m] = "stopping" => Dependents(m) \cap running = {}
=============================================================================
