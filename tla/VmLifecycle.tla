----------------------------- MODULE VmLifecycle -----------------------------
(***************************************************************************)
(* One machine's power state and the tasks that write it: the callers that *)
(* start and stop it, and, for every run, the exit monitor, the readiness  *)
(* poller and the watches on the guest's resets and sleep (labd/vm.rs; for *)
(* a container, labd/container.rs).  Every step ends at an await: between  *)
(* two steps of one task any other task may run, and a caller's start may  *)
(* be dropped (the JoinSet of an `up' that failed).                        *)
(*                                                                         *)
(* A run is one launch of the emulator.  An emulator is a process of its   *)
(* own: it outlives the handle to it (kill_on_drop(false)).                *)
(***************************************************************************)
EXTENDS Naturals, FiniteSets

CONSTANTS
    Starter,        \* callers that may start the machine
    Stopper,        \* callers that may stop it
    Kind,           \* "vm" or "container"
    MaxRuns,        \* bound on the runs
    MaxAborts,      \* bound on the starts dropped half-way
    MaxResets,      \* bound on the guest's in-place resets
    Mishaps,        \* what may go wrong: see MishapAssumption
    None

ASSUME KindAssumption == Kind \in {"vm", "container"}

ASSUME BoundAssumption == MaxRuns \in Nat /\ MaxAborts \in Nat /\ MaxResets \in Nat

\* early: a start fails before the emulator is spawned; mute: the emulator
\* never answers control; refused: before_resume or the resume fails; death:
\* an emulator ends by itself; sleep: the guest suspends to RAM.
ASSUME MishapAssumption == Mishaps \subseteq {"early", "mute", "refused", "death", "sleep"}

Run == 1 .. MaxRuns

ASSUME NoneAssumption == None \notin Run

VARIABLES
    state,          \* the power state
    qemu,           \* the run whose emulator handle is held, or None
    helpers,        \* the run whose swtpm and virtiofsds are held, or None
    ready,          \* the machine is reported ready
    runs,           \* how many runs were begun
    boot,           \* where each starter is
    mine,           \* the run each starter is booting
    stop,           \* where each stopper is
    victim,         \* the run each stopper is stopping
    monitor,        \* where each run's exit monitor is
    poller,         \* where each run's readiness poller is
    resetter,       \* where each run's reset watch is
    owed,           \* the readiness a reset took away, by run
    alive,          \* the emulators that run
    asleep,         \* of them, those whose guest sleeps
    answers,        \* of them, those whose guest's agent answers
    reset,          \* the runs with a reset not yet seen
    aborts, resets  \* counts, for the bounds

machine  == <<state, qemu, helpers, ready>>
callers  == <<runs, boot, mine, stop, victim>>
tasks    == <<monitor, poller, resetter, owed>>
guest    == <<alive, asleep, answers, reset>>
counters == <<aborts, resets>>
vars     == <<machine, callers, tasks, guest, counters>>

PowerState == {"stopped", "starting", "running", "suspended", "stopping"}
BootStage  == {"idle", "asked", "claimed", "prepared", "spawned", "paused", "resumed",
               "failed", "unwinding"}

TypeOK ==
    /\ state \in PowerState
    /\ qemu \in Run \cup {None} /\ helpers \in Run \cup {None}
    /\ ready \in BOOLEAN
    /\ runs \in 0 .. MaxRuns
    /\ boot \in [Starter -> BootStage]
    /\ mine \in [Starter -> Run \cup {None}]
    /\ stop \in [Stopper -> {"idle", "taken", "climbing", "settling"}]
    /\ victim \in [Stopper -> Run \cup {None}]
    /\ monitor \in [Run -> {"none", "watching", "torn", "settled", "cleared", "reported"}]
    /\ poller \in [Run -> {"none", "polling", "answered", "setting", "gone"}]
    /\ resetter \in [Run -> {"none", "listening", "waiting", "restoring", "gone"}]
    /\ owed \in [Run -> BOOLEAN]
    /\ alive \subseteq Run /\ asleep \subseteq alive /\ answers \subseteq alive
    /\ reset \subseteq Run
    /\ aborts \in 0 .. MaxAborts /\ resets \in 0 .. MaxResets

Init ==
    /\ state = "stopped" /\ qemu = None /\ helpers = None /\ ready = FALSE
    /\ runs = 0
    /\ boot = [s \in Starter |-> "idle"] /\ mine = [s \in Starter |-> None]
    /\ stop = [t \in Stopper |-> "idle"] /\ victim = [t \in Stopper |-> None]
    /\ monitor = [r \in Run |-> "none"] /\ poller = [r \in Run |-> "none"]
    /\ resetter = [r \in Run |-> "none"] /\ owed = [r \in Run |-> FALSE]
    /\ alive = {} /\ asleep = {} /\ answers = {} /\ reset = {}
    /\ aborts = 0 /\ resets = 0

-----------------------------------------------------------------------------
(* The emulator's process. *)

Ends(r) ==
    /\ alive' = alive \ {r}
    /\ asleep' = asleep \ {r}
    /\ answers' = answers \ {r}
    /\ UNCHANGED reset

\* What a run held is dropped: its helpers killed, its handles forgotten.  Only
\* a container's teardown also kills an emulator that still runs.
Teardown ==
    /\ qemu' = None /\ helpers' = None
    /\ IF Kind = "container" /\ qemu # None THEN Ends(qemu) ELSE UNCHANGED guest

\* The guest of r has its CPUs.
Executing(r) ==
    monitor[r] # "none" \/ \E s \in Starter : mine[s] = r /\ boot[s] = "resumed"

-----------------------------------------------------------------------------
(* Starting the machine. *)

At(s, from, to) == boot[s] = from /\ boot' = [boot EXCEPT ![s] = to]

\* Machine::start: only a stopped machine is booted (a sleeping one is woken,
\* any other is left alone).
Ask(s) ==
    /\ runs < MaxRuns
    /\ state = "stopped"
    /\ At(s, "idle", "asked")
    /\ UNCHANGED <<machine, runs, mine, stop, victim, tasks, guest, counters>>

\* Broken variant of Claim: the state is not looked at again.
Claim_Unchecked(s) ==
    /\ At(s, "asked", "claimed")
    /\ runs < MaxRuns
    /\ state' = "starting" /\ runs' = runs + 1 /\ mine' = [mine EXCEPT ![s] = runs + 1]
    /\ UNCHANGED <<qemu, helpers, ready, stop, victim, tasks, guest, counters>>

\* boot: the state is taken under its lock, or the start is refused.
Claim(s) ==
    /\ \/ /\ state = "stopped" /\ runs < MaxRuns
          /\ At(s, "asked", "claimed")
          /\ state' = "starting" /\ runs' = runs + 1 /\ mine' = [mine EXCEPT ![s] = runs + 1]
       \/ /\ state # "stopped" \/ runs = MaxRuns
          /\ At(s, "asked", "idle")
          /\ UNCHANGED <<state, runs, mine>>
    /\ UNCHANGED <<qemu, helpers, ready, stop, victim, tasks, guest, counters>>

Prepare(s) ==
    /\ At(s, "claimed", "prepared")
    /\ helpers' = mine[s]
    /\ UNCHANGED <<state, qemu, ready, runs, mine, stop, victim, tasks, guest, counters>>

Launch(s) ==
    /\ At(s, "prepared", "spawned")
    /\ alive' = alive \cup {mine[s]}
    /\ UNCHANGED <<machine, runs, mine, stop, victim, tasks, asleep, answers, reset, counters>>

\* Broken variant of Connect: the machine is called running too early.
Connect_SaysRunning(s) ==
    /\ mine[s] \in alive
    /\ At(s, "spawned", "paused")
    /\ qemu' = mine[s] /\ state' = "running"
    /\ UNCHANGED <<helpers, ready, runs, mine, stop, victim, tasks, guest, counters>>

\* start_emulator returns once control answers, and the handle is kept.
Connect(s) ==
    /\ mine[s] \in alive
    /\ At(s, "spawned", "paused")
    /\ qemu' = mine[s]
    /\ UNCHANGED <<state, helpers, ready, runs, mine, stop, victim, tasks, guest, counters>>

\* before_resume, and the CPUs are released.
Resume(s) ==
    /\ mine[s] \in alive
    /\ At(s, "paused", "resumed")
    /\ UNCHANGED <<machine, runs, mine, stop, victim, tasks, guest, counters>>

\* The machine runs, and its monitors are spawned.
Started(s) ==
    /\ At(s, "resumed", "idle")
    /\ state' = "running"
    /\ monitor' = [monitor EXCEPT ![mine[s]] = "watching"]
    /\ poller' = [poller EXCEPT ![mine[s]] = "polling"]
    /\ resetter' = [resetter EXCEPT ![mine[s]] = IF Kind = "vm" THEN "listening" ELSE @]
    /\ mine' = [mine EXCEPT ![s] = None]
    /\ UNCHANGED <<qemu, helpers, ready, runs, stop, victim, owed, guest, counters>>

\* A container's start also fails once its CPUs are released, when its control
\* socket does not answer.
Fails(s) ==
    /\ \/ /\ "early" \in Mishaps
          /\ At(s, "claimed", "failed") \/ At(s, "prepared", "failed")
       \/ ("mute" \in Mishaps \/ mine[s] \notin alive) /\ At(s, "spawned", "failed")
       \/ ("refused" \in Mishaps \/ mine[s] \notin alive) /\ At(s, "paused", "failed")
       \/ /\ Kind = "container" /\ ("refused" \in Mishaps \/ mine[s] \notin alive)
          /\ At(s, "resumed", "failed")
    /\ UNCHANGED <<machine, runs, mine, stop, victim, tasks, guest, counters>>

\* Broken variant of Unwind: the state is left as it was.
Unwind_KeepsState(s) ==
    /\ At(s, "failed", "unwinding")
    /\ UNCHANGED <<machine, runs, mine, stop, victim, tasks, guest, counters>>

\* A failed start writes the state first and tears down after.
Unwind(s) ==
    /\ At(s, "failed", "unwinding")
    /\ state' = "stopped"
    /\ UNCHANGED <<qemu, helpers, ready, runs, mine, stop, victim, tasks, guest, counters>>

Unwound(s) ==
    /\ At(s, "unwinding", "idle")
    /\ mine' = [mine EXCEPT ![s] = None]
    /\ Teardown
    /\ UNCHANGED <<state, ready, runs, stop, victim, tasks, counters>>

\* The caller's future is dropped where it stands.
Abort(s) ==
    /\ aborts < MaxAborts
    /\ boot[s] # "idle"
    /\ boot' = [boot EXCEPT ![s] = "idle"] /\ mine' = [mine EXCEPT ![s] = None]
    /\ aborts' = aborts + 1
    /\ UNCHANGED <<machine, runs, stop, victim, tasks, guest, resets>>

-----------------------------------------------------------------------------
(* Stopping it: stop_ladder. *)

StopAt(t, from, to) == stop[t] = from /\ stop' = [stop EXCEPT ![t] = to]

\* The handle is taken, and a sleeping guest is woken, before anything is said.
StopTakes(t) ==
    /\ qemu # None
    /\ StopAt(t, "idle", "taken")
    /\ victim' = [victim EXCEPT ![t] = qemu]
    /\ UNCHANGED <<machine, runs, boot, mine, tasks, guest, counters>>

\* Broken variant of StopMarks: the stop drops the handle itself.
StopMarks_Drops(t) ==
    /\ StopAt(t, "taken", "climbing")
    /\ state' = "stopping" /\ qemu' = None
    /\ UNCHANGED <<helpers, ready, runs, boot, mine, victim, tasks, guest, counters>>

StopMarks(t) ==
    /\ StopAt(t, "taken", "climbing")
    /\ state' = "stopping"
    /\ UNCHANGED <<qemu, helpers, ready, runs, boot, mine, victim, tasks, guest, counters>>

\* Broken variant of StopKills: the ladder ends before the kill.
StopKills_AsksOnly(t) ==
    /\ StopAt(t, "climbing", "settling")
    /\ UNCHANGED <<machine, runs, boot, mine, victim, tasks, guest, counters>>

\* The rungs: whichever ended the emulator, the last one kills it.
StopKills(t) ==
    /\ StopAt(t, "climbing", "settling")
    /\ Ends(victim[t])
    /\ UNCHANGED <<machine, runs, boot, mine, victim, tasks, counters>>

\* settle_stopped: the state settles, or the wait for it times out.
StopReturns(t) ==
    /\ StopAt(t, "settling", "idle")
    /\ victim' = [victim EXCEPT ![t] = None]
    /\ UNCHANGED <<machine, runs, boot, mine, tasks, guest, counters>>

-----------------------------------------------------------------------------
(* The exit monitor of a run. *)

\* Broken variant of MonitorTears: a stop is taken for the exit.
MonitorTears_OnStop(r) ==
    /\ monitor[r] = "watching" /\ (r \notin alive \/ state = "stopping")
    /\ monitor' = [monitor EXCEPT ![r] = "torn"]
    /\ Teardown
    /\ UNCHANGED <<state, ready, callers, poller, resetter, owed, counters>>

MonitorTears(r) ==
    /\ monitor[r] = "watching" /\ r \notin alive
    /\ monitor' = [monitor EXCEPT ![r] = "torn"]
    /\ Teardown
    /\ UNCHANGED <<state, ready, callers, poller, resetter, owed, counters>>

MonitorSettles(r) ==
    /\ monitor[r] = "torn"
    /\ monitor' = [monitor EXCEPT ![r] = "settled"]
    /\ state' = "stopped"
    /\ UNCHANGED <<qemu, helpers, ready, callers, poller, resetter, owed, guest, counters>>

MonitorClears(r) ==
    /\ monitor[r] = "settled"
    /\ monitor' = [monitor EXCEPT ![r] = "cleared"]
    /\ ready' = FALSE
    /\ UNCHANGED <<state, qemu, helpers, callers, poller, resetter, owed, guest, counters>>

\* on_exit.
MonitorReports(r) ==
    /\ monitor[r] = "cleared"
    /\ monitor' = [monitor EXCEPT ![r] = "reported"]
    /\ UNCHANGED <<machine, callers, poller, resetter, owed, guest, counters>>

-----------------------------------------------------------------------------
(* The readiness poller of a run: it looks at the machine, not at its run. *)

Up == state = "running" \/ (state = "suspended" /\ Kind = "vm")

PollAt(r, from, to) == poller[r] = from /\ poller' = [poller EXCEPT ![r] = to]

\* The agent answered its handshake (a container's entrypoint runs and is
\* healthy); a VM then runs what the lab owes the boot, before_ready, unless its
\* first boot is pending: readiness is then left to the one who provisions it.
PollAnswered(r) ==
    /\ state = "running" /\ answers # {}
    /\ IF Kind = "container" THEN PollAt(r, "polling", "setting")
       ELSE PollAt(r, "polling", "answered") \/ PollAt(r, "polling", "gone")
    /\ UNCHANGED <<machine, callers, monitor, resetter, owed, guest, counters>>

PollChecks(r) ==
    /\ Up
    /\ PollAt(r, "answered", "setting")
    /\ UNCHANGED <<machine, callers, monitor, resetter, owed, guest, counters>>

PollSets(r) ==
    /\ PollAt(r, "setting", "gone")
    /\ ready' = TRUE
    /\ UNCHANGED <<state, qemu, helpers, callers, monitor, resetter, owed, guest, counters>>

PollGivesUp(r) ==
    /\ ~Up
    /\ poller[r] \in {"polling", "answered"}
    /\ poller' = [poller EXCEPT ![r] = "gone"]
    /\ UNCHANGED <<machine, callers, monitor, resetter, owed, guest, counters>>

-----------------------------------------------------------------------------
(* The watch on a guest's in-place resets (a VM on vmlab-hv). *)

WatchAt(r, from, to) == resetter[r] \in from /\ resetter' = [resetter EXCEPT ![r] = to]

ResetSeen(r) ==
    /\ r \in reset
    /\ WatchAt(r, {"listening", "waiting"}, "waiting")
    /\ reset' = reset \ {r}
    /\ owed' = [owed EXCEPT ![r] = @ \/ ready]
    /\ ready' = FALSE
    /\ UNCHANGED <<state, qemu, helpers, callers, monitor, poller, alive, asleep, answers,
                   counters>>

ResetAnswered(r) ==
    /\ Up /\ r \notin reset /\ answers # {}
    /\ WatchAt(r, {"waiting"}, IF owed[r] THEN "restoring" ELSE "listening")
    /\ owed' = [owed EXCEPT ![r] = FALSE]
    /\ UNCHANGED <<machine, callers, monitor, poller, guest, counters>>

ResetRestores(r) ==
    /\ WatchAt(r, {"restoring"}, "listening")
    /\ ready' = TRUE
    /\ UNCHANGED <<state, qemu, helpers, callers, monitor, poller, owed, guest, counters>>

\* The run's control channel went, or the machine is not up any more.
ResetEnds(r) ==
    /\ \/ ~Up /\ WatchAt(r, {"waiting"}, "gone")
       \/ r \notin alive /\ r \notin reset /\ WatchAt(r, {"listening"}, "gone")
    /\ UNCHANGED <<machine, callers, monitor, poller, owed, guest, counters>>

\* The watch on the guest's sleep: only running and suspended trade places.
SleepSeen(r) ==
    /\ Kind = "vm" /\ monitor[r] = "watching"
    /\ \/ r \in asleep /\ state = "running" /\ state' = "suspended"
       \/ r \notin asleep /\ state = "suspended" /\ state' = "running"
    /\ UNCHANGED <<qemu, helpers, ready, callers, tasks, guest, counters>>

-----------------------------------------------------------------------------
(* The guest. *)

GuestAnswers(r) ==
    /\ r \in alive \ (answers \cup asleep) /\ Executing(r)
    /\ answers' = answers \cup {r}
    /\ UNCHANGED <<machine, callers, tasks, alive, asleep, reset, counters>>

GuestDies(r) ==
    /\ "death" \in Mishaps /\ r \in alive
    /\ Ends(r)
    /\ UNCHANGED <<machine, callers, tasks, counters>>

GuestSleeps(r) ==
    /\ "sleep" \in Mishaps /\ Kind = "vm" /\ r \in alive \ asleep /\ Executing(r)
    /\ asleep' = asleep \cup {r}
    /\ UNCHANGED <<machine, callers, tasks, alive, answers, reset, counters>>

\* By itself, or woken by a start, a stop or prevent_sleep.
GuestWakes(r) ==
    /\ r \in asleep
    /\ asleep' = asleep \ {r}
    /\ UNCHANGED <<machine, callers, tasks, alive, answers, reset, counters>>

GuestResets(r) ==
    /\ Kind = "vm" /\ r \in alive \ asleep /\ monitor[r] = "watching"
    /\ resets < MaxResets /\ resets' = resets + 1
    /\ reset' = reset \cup {r} /\ answers' = answers \ {r}
    /\ UNCHANGED <<machine, callers, tasks, alive, asleep, aborts>>

-----------------------------------------------------------------------------

Boots(s) ==
    \/ Claim(s) \/ Prepare(s) \/ Launch(s) \/ Connect(s) \/ Resume(s) \/ Started(s)
    \/ Fails(s) \/ Unwind(s) \/ Unwound(s)

Stops(t) == StopMarks(t) \/ StopKills(t) \/ StopReturns(t)

Monitors(r) == MonitorTears(r) \/ MonitorSettles(r) \/ MonitorClears(r) \/ MonitorReports(r)

Polls(r) == PollAnswered(r) \/ PollChecks(r) \/ PollSets(r) \/ PollGivesUp(r)

Watches(r) ==
    ResetSeen(r) \/ ResetAnswered(r) \/ ResetRestores(r) \/ ResetEnds(r) \/ SleepSeen(r)

Guest(r) ==
    GuestAnswers(r) \/ GuestDies(r) \/ GuestSleeps(r) \/ GuestWakes(r) \/ GuestResets(r)

Next ==
    \/ \E s \in Starter : Ask(s) \/ Boots(s) \/ Abort(s)
    \/ \E t \in Stopper : StopTakes(t) \/ Stops(t)
    \/ \E r \in Run : Monitors(r) \/ Polls(r) \/ Watches(r) \/ Guest(r)

Spec == Init /\ [][Next]_vars

\* Every task the runtime spawned is scheduled: what a start waits for is
\* bounded by the control channel's retries, each rung by its own timeout.
Fairness ==
    /\ \A s \in Starter : WF_vars(Boots(s))
    /\ \A t \in Stopper : WF_vars(Stops(t))
    /\ \A r \in Run : WF_vars(Monitors(r)) /\ WF_vars(Polls(r)) /\ WF_vars(Watches(r))

FairSpec == Spec /\ Fairness

-----------------------------------------------------------------------------
(* Properties. *)

\* A starter holds the machine: it claimed the state and has not given it back.
Booting(s) == boot[s] \in {"claimed", "prepared", "spawned", "paused", "resumed", "failed"}

\* The exit monitor that will write the state when its run is over.
Monitored == \E r \in Run : monitor[r] \in {"watching", "torn"}

\* Two starts never both proceed: however starts, stops, exits and dropped
\* starts overlap, at most one emulator of the machine runs, for "a second one
\* would fight it for the disks".
OneEmulator == \A q, r \in alive : q = r

\* A machine said to be up has an exit monitor that will say when it is not.
Watched == state \in {"running", "suspended"} => Monitored

\* A run keeps the emulator handle and the helpers it was started with until
\* its exit monitor tears them down: without the handle, a stop would call it
\* already stopped.
Kept == \A r \in Run : monitor[r] = "watching" => qemu = r /\ helpers = r

\* A stopped machine that nobody is starting has no emulator: "an error there
\* fails the start and leaves the VM stopped".
NoStray ==
    state = "stopped" /\ (\A s \in Starter : boot[s] \in {"idle", "asked"}) => alive = {}

\* Somebody is left to move the machine out of "starting": "a failed start
\* unwinds to Stopped, not Starting".
NotWedged == state = "starting" => \E s \in Starter : Booting(s)

\* A start is never stuck half-way: it ends in a machine that runs, or that is
\* stopped again.
BootSettles == state = "starting" ~> state # "starting"

\* A stop that climbs its ladder on a run that is still watched ends that run,
\* and the machine is said to be stopped, however the guest, the watches and
\* the other callers interfere.
StopStops ==
    \A t \in Stopper, r \in Run :
        stop[t] = "climbing" /\ victim[t] = r /\ monitor[r] = "watching" ~> state = "stopped"
=============================================================================
