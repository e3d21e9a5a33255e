-------------------------- MODULE VmLifecycleProofs --------------------------
(***************************************************************************)
(* A machine has at most one emulator, and one that is up has an exit      *)
(* monitor, for any number of callers, runs, dropped starts and resets.    *)
(*                                                                         *)
(* The power state works as a lock: a start takes it out of "stopped", and *)
(* only the start that holds it, or the exit monitor of the run it became, *)
(* puts it back.  OwnInv says so: one owner at most, none while the        *)
(* machine is stopped, and no emulator but the owner's.  A start dropped   *)
(* half-way leaves no owner, and so nobody who could free the state.       *)
(***************************************************************************)
EXTENDS VmLifecycle, TLAPS

\* No start fails with its emulator still running.
Clean == Mishaps \cap {"mute", "refused"} = {}

Standing == {"watching", "torn"}

MineOK == \A s \in Starter : Booting(s) => mine[s] \in Run

OneOwner ==
    /\ \A s, u \in Starter : Booting(s) /\ Booting(u) => s = u
    /\ \A s \in Starter, r \in Run : Booting(s) => monitor[r] \notin Standing
    /\ \A q, r \in Run : monitor[q] \in Standing /\ monitor[r] \in Standing => q = r

FreeWhenStopped ==
    state = "stopped" =>
        /\ \A s \in Starter : ~Booting(s)
        /\ \A r \in Run : monitor[r] \notin Standing
        /\ alive = {}

OwnerRuns ==
    /\ \A s \in Starter : boot[s] \in {"claimed", "prepared", "failed"} => alive = {}
    /\ \A s \in Starter : boot[s] \in {"spawned", "paused", "resumed"} => alive \subseteq {mine[s]}
    /\ \A r \in Run : monitor[r] = "watching" => alive \subseteq {r}
    /\ \A r \in Run : monitor[r] = "torn" => alive = {}

OwnInv == OneOwner /\ FreeWhenStopped /\ OwnerRuns /\ OneEmulator

-----------------------------------------------------------------------------
(* Type correctness. *)

LEMMA InitTyped == Init => TypeOK /\ MineOK
<1> SUFFICES ASSUME Init PROVE TypeOK /\ MineOK
  OBVIOUS
<1>1. runs \in 0 .. MaxRuns /\ aborts \in 0 .. MaxAborts /\ resets \in 0 .. MaxResets
  BY BoundAssumption DEF Init
<1>2. TypeOK
  BY <1>1 DEF Init, TypeOK, PowerState, BootStage
<1>3. MineOK
  BY DEF Init, MineOK, Booting
<1> QED
  BY <1>2, <1>3

\* Every step keeps the types, and a start that holds the machine its run.
LEMMA StepTyped ==
    ASSUME TypeOK, MineOK, [Next]_vars
    PROVE  TypeOK' /\ MineOK'
<1> USE BoundAssumption, NoneAssumption, SMTT(40), Zenon DEF TypeOK, MineOK, Booting, PowerState, BootStage,
        Run, vars, machine, callers, tasks, guest, counters
<1>1. ASSUME NEW s \in Starter, Ask(s) PROVE TypeOK' /\ MineOK'
  BY <1>1 DEF Ask, At
<1>2. ASSUME NEW s \in Starter, Claim(s) PROVE TypeOK' /\ MineOK'
  <2>1. CASE boot' = [boot EXCEPT ![s] = "idle"] /\ UNCHANGED <<state, runs, mine>>
    BY <1>2, <2>1 DEF Claim
  <2>2. CASE /\ state = "stopped" /\ runs < MaxRuns
             /\ At(s, "asked", "claimed")
             /\ state' = "starting" /\ runs' = runs + 1 /\ mine' = [mine EXCEPT ![s] = runs + 1]
    <3>1. runs + 1 \in Run
      BY <2>2
    <3>2. runs + 1 \in 0 .. MaxRuns
      BY <2>2
    <3>3. MineOK'
      BY <1>2, <2>2, <3>1 DEF Claim, At
    <3>4. TypeOK'
      BY <1>2, <2>2, <3>1, <3>2 DEF Claim, At
    <3> QED
      BY <3>3, <3>4
  <2> QED
    BY <1>2, <2>1, <2>2 DEF Claim, At
<1>3. ASSUME NEW s \in Starter, Prepare(s) PROVE TypeOK' /\ MineOK'
  BY <1>3 DEF Prepare, At
<1>4. ASSUME NEW s \in Starter, Launch(s) PROVE TypeOK' /\ MineOK'
  BY <1>4 DEF Launch, At
<1>5. ASSUME NEW s \in Starter, Connect(s) PROVE TypeOK' /\ MineOK'
  BY <1>5 DEF Connect, At
<1>6. ASSUME NEW s \in Starter, Resume(s) PROVE TypeOK' /\ MineOK'
  BY <1>6 DEF Resume, At
<1>7. ASSUME NEW s \in Starter, Started(s) PROVE TypeOK' /\ MineOK'
  BY <1>7 DEF Started, At
<1>8. ASSUME NEW s \in Starter, Fails(s) PROVE TypeOK' /\ MineOK'
  BY <1>8 DEF Fails, At
<1>9. ASSUME NEW s \in Starter, Unwind(s) PROVE TypeOK' /\ MineOK'
  BY <1>9 DEF Unwind, At
<1>10. ASSUME NEW s \in Starter, Unwound(s) PROVE TypeOK' /\ MineOK'
  BY <1>10 DEF Unwound, At, Teardown, Ends, guest
<1>11. ASSUME NEW s \in Starter, Abort(s) PROVE TypeOK' /\ MineOK'
  BY <1>11 DEF Abort
<1>12. ASSUME NEW t \in Stopper, StopTakes(t) PROVE TypeOK' /\ MineOK'
  BY <1>12 DEF StopTakes, StopAt
<1>13. ASSUME NEW t \in Stopper, StopMarks(t) PROVE TypeOK' /\ MineOK'
  BY <1>13 DEF StopMarks, StopAt
<1>14. ASSUME NEW t \in Stopper, StopKills(t) PROVE TypeOK' /\ MineOK'
  BY <1>14 DEF StopKills, StopAt, Ends
<1>15. ASSUME NEW t \in Stopper, StopReturns(t) PROVE TypeOK' /\ MineOK'
  BY <1>15 DEF StopReturns, StopAt
<1>16. ASSUME NEW r \in Run, MonitorTears(r) PROVE TypeOK' /\ MineOK'
  BY <1>16 DEF MonitorTears, Teardown, Ends
<1>17. ASSUME NEW r \in Run, MonitorSettles(r) PROVE TypeOK' /\ MineOK'
  BY <1>17 DEF MonitorSettles
<1>18. ASSUME NEW r \in Run, MonitorClears(r) PROVE TypeOK' /\ MineOK'
  BY <1>18 DEF MonitorClears
<1>19. ASSUME NEW r \in Run, MonitorReports(r) PROVE TypeOK' /\ MineOK'
  BY <1>19 DEF MonitorReports
<1>20. ASSUME NEW r \in Run, PollAnswered(r) PROVE TypeOK' /\ MineOK'
  BY <1>20 DEF PollAnswered, PollAt
<1>21. ASSUME NEW r \in Run, PollChecks(r) PROVE TypeOK' /\ MineOK'
  BY <1>21 DEF PollChecks, PollAt
<1>22. ASSUME NEW r \in Run, PollSets(r) PROVE TypeOK' /\ MineOK'
  BY <1>22 DEF PollSets, PollAt
<1>23. ASSUME NEW r \in Run, PollGivesUp(r) PROVE TypeOK' /\ MineOK'
  BY <1>23 DEF PollGivesUp
<1>24. ASSUME NEW r \in Run, ResetSeen(r) PROVE TypeOK' /\ MineOK'
  BY <1>24 DEF ResetSeen, WatchAt
<1>25. ASSUME NEW r \in Run, ResetAnswered(r) PROVE TypeOK' /\ MineOK'
  BY <1>25 DEF ResetAnswered, WatchAt
<1>26. ASSUME NEW r \in Run, ResetRestores(r) PROVE TypeOK' /\ MineOK'
  BY <1>26 DEF ResetRestores, WatchAt
<1>27. ASSUME NEW r \in Run, ResetEnds(r) PROVE TypeOK' /\ MineOK'
  BY <1>27 DEF ResetEnds, WatchAt
<1>28. ASSUME NEW r \in Run, SleepSeen(r) PROVE TypeOK' /\ MineOK'
  BY <1>28 DEF SleepSeen
<1>29. ASSUME NEW r \in Run, GuestAnswers(r) PROVE TypeOK' /\ MineOK'
  BY <1>29 DEF GuestAnswers
<1>30. ASSUME NEW r \in Run, GuestDies(r) PROVE TypeOK' /\ MineOK'
  BY <1>30 DEF GuestDies, Ends
<1>31. ASSUME NEW r \in Run, GuestSleeps(r) PROVE TypeOK' /\ MineOK'
  BY <1>31 DEF GuestSleeps
<1>32. ASSUME NEW r \in Run, GuestWakes(r) PROVE TypeOK' /\ MineOK'
  BY <1>32 DEF GuestWakes
<1>33. ASSUME NEW r \in Run, GuestResets(r) PROVE TypeOK' /\ MineOK'
  BY <1>33 DEF GuestResets
<1>34. CASE UNCHANGED vars
  BY <1>34
<1> QED
  BY <1>1, <1>2, <1>3, <1>4, <1>5, <1>6, <1>7, <1>8, <1>9, <1>10, <1>11, <1>12, <1>13, <1>14,
     <1>15, <1>16, <1>17, <1>18, <1>19, <1>20, <1>21, <1>22, <1>23, <1>24, <1>25, <1>26,
     <1>27, <1>28, <1>29, <1>30, <1>31, <1>32, <1>33, <1>34 DEF Next, Boots, Stops, Monitors,
     Polls, Watches, Guest

-----------------------------------------------------------------------------
(* One owner, one emulator. *)

LEMMA InitOwned == Init => OwnInv
BY DEF Init, OwnInv, OneOwner, FreeWhenStopped, OwnerRuns, OneEmulator, Booting, Standing

\* A step that moves no start, no exit monitor and no state, and starts no
\* emulator, leaves the owner alone.
LEMMA OwnKept ==
    ASSUME OwnInv, UNCHANGED <<boot, mine, monitor>>,
           state' = state \/ state' # "stopped", alive' \subseteq alive
    PROVE  OwnInv'
BY DEF OwnInv, OneOwner, FreeWhenStopped, OwnerRuns, OneEmulator, Booting

\* Every step keeps one owner at most, and no emulator but its own.
LEMMA StepOwned ==
    ASSUME Clean, TypeOK, MineOK, OwnInv, [Next]_vars
    PROVE  OwnInv'
<1> USE SMTT(40), Zenon DEF TypeOK, vars, machine, callers, tasks, guest, counters
<1>1. ASSUME NEW s \in Starter, Ask(s) PROVE OwnInv'
  <2>1. OneOwner'
    BY <1>1 DEF OwnInv, FreeWhenStopped, OneOwner, Booting, Standing, Ask, At
  <2>2. FreeWhenStopped'
    BY <1>1 DEF OwnInv, FreeWhenStopped, OneOwner, OwnerRuns, Booting, Standing, Ask, At
  <2>3. OwnerRuns'
    BY <1>1 DEF OwnInv, OwnerRuns, FreeWhenStopped, OneOwner, Booting, MineOK, Standing,
       Clean, Ask, At
  <2>4. OneEmulator'
    BY <1>1 DEF OwnInv, OneEmulator, OwnerRuns, Ask, At
  <2> QED
    BY <2>1, <2>2, <2>3, <2>4 DEF OwnInv
<1>2. ASSUME NEW s \in Starter, Claim(s) PROVE OwnInv'
  <2>1. OneOwner'
    BY <1>2 DEF OwnInv, FreeWhenStopped, OneOwner, Booting, Standing, Claim, At
  <2>2. FreeWhenStopped'
    BY <1>2 DEF OwnInv, FreeWhenStopped, OneOwner, OwnerRuns, Booting, Standing, Claim, At
  <2>3. OwnerRuns'
    BY <1>2 DEF OwnInv, OwnerRuns, FreeWhenStopped, OneOwner, Booting, MineOK, Standing,
       Clean, Claim, At
  <2>4. OneEmulator'
    BY <1>2 DEF OwnInv, OneEmulator, OwnerRuns, Claim, At
  <2> QED
    BY <2>1, <2>2, <2>3, <2>4 DEF OwnInv
<1>3. ASSUME NEW s \in Starter, Prepare(s) PROVE OwnInv'
  <2>1. OneOwner'
    BY <1>3 DEF OwnInv, FreeWhenStopped, OneOwner, Booting, Standing, Prepare, At
  <2>2. FreeWhenStopped'
    BY <1>3 DEF OwnInv, FreeWhenStopped, OneOwner, OwnerRuns, Booting, Standing, Prepare, At
  <2>3. OwnerRuns'
    BY <1>3 DEF OwnInv, OwnerRuns, FreeWhenStopped, OneOwner, Booting, MineOK, Standing,
       Clean, Prepare, At
  <2>4. OneEmulator'
    BY <1>3 DEF OwnInv, OneEmulator, OwnerRuns, Prepare, At
  <2> QED
    BY <2>1, <2>2, <2>3, <2>4 DEF OwnInv
<1>4. ASSUME NEW s \in Starter, Launch(s) PROVE OwnInv'
  <2>1. OneOwner'
    BY <1>4 DEF OwnInv, FreeWhenStopped, OneOwner, Booting, Standing, Launch, At
  <2>2. FreeWhenStopped'
    BY <1>4 DEF OwnInv, FreeWhenStopped, OneOwner, OwnerRuns, Booting, Standing, Launch, At
  <2>3. OwnerRuns'
    BY <1>4 DEF OwnInv, OwnerRuns, FreeWhenStopped, OneOwner, Booting, MineOK, Standing,
       Clean, Launch, At
  <2>4. OneEmulator'
    BY <1>4 DEF OwnInv, OneEmulator, OwnerRuns, Launch, At
  <2> QED
    BY <2>1, <2>2, <2>3, <2>4 DEF OwnInv
<1>5. ASSUME NEW s \in Starter, Connect(s) PROVE OwnInv'
  <2>1. OneOwner'
    BY <1>5 DEF OwnInv, FreeWhenStopped, OneOwner, Booting, Standing, Connect, At
  <2>2. FreeWhenStopped'
    BY <1>5 DEF OwnInv, FreeWhenStopped, OneOwner, OwnerRuns, Booting, Standing, Connect, At
  <2>3. OwnerRuns'
    BY <1>5 DEF OwnInv, OwnerRuns, FreeWhenStopped, OneOwner, Booting, MineOK, Standing,
       Clean, Connect, At
  <2>4. OneEmulator'
    BY <1>5 DEF OwnInv, OneEmulator, OwnerRuns, Connect, At
  <2> QED
    BY <2>1, <2>2, <2>3, <2>4 DEF OwnInv
<1>6. ASSUME NEW s \in Starter, Resume(s) PROVE OwnInv'
  <2>1. OneOwner'
    BY <1>6 DEF OwnInv, FreeWhenStopped, OneOwner, Booting, Standing, Resume, At
  <2>2. FreeWhenStopped'
    BY <1>6 DEF OwnInv, FreeWhenStopped, OneOwner, OwnerRuns, Booting, Standing, Resume, At
  <2>3. OwnerRuns'
    BY <1>6 DEF OwnInv, OwnerRuns, FreeWhenStopped, OneOwner, Booting, MineOK, Standing,
       Clean, Resume, At
  <2>4. OneEmulator'
    BY <1>6 DEF OwnInv, OneEmulator, OwnerRuns, Resume, At
  <2> QED
    BY <2>1, <2>2, <2>3, <2>4 DEF OwnInv
<1>7. ASSUME NEW s \in Starter, Started(s) PROVE OwnInv'
  <2>1. OneOwner'
    BY <1>7 DEF OwnInv, FreeWhenStopped, OneOwner, Booting, Standing, Started, At
  <2>2. FreeWhenStopped'
    BY <1>7 DEF OwnInv, FreeWhenStopped, OneOwner, OwnerRuns, Booting, Standing, Started, At
  <2>3. OwnerRuns'
    BY <1>7 DEF OwnInv, OwnerRuns, FreeWhenStopped, OneOwner, Booting, MineOK, Standing,
       Clean, Started, At
  <2>4. OneEmulator'
    BY <1>7 DEF OwnInv, OneEmulator, OwnerRuns, Started, At
  <2> QED
    BY <2>1, <2>2, <2>3, <2>4 DEF OwnInv
<1>8. ASSUME NEW s \in Starter, Fails(s) PROVE OwnInv'
  <2>1. OneOwner'
    BY <1>8 DEF OwnInv, FreeWhenStopped, OneOwner, Booting, Standing, Fails, At
  <2>2. FreeWhenStopped'
    BY <1>8 DEF OwnInv, FreeWhenStopped, OneOwner, OwnerRuns, Booting, Standing, Fails, At
  <2>3. OwnerRuns'
    BY <1>8 DEF OwnInv, OwnerRuns, FreeWhenStopped, OneOwner, Booting, MineOK, Standing,
       Clean, Fails, At
  <2>4. OneEmulator'
    BY <1>8 DEF OwnInv, OneEmulator, OwnerRuns, Fails, At
  <2> QED
    BY <2>1, <2>2, <2>3, <2>4 DEF OwnInv
<1>9. ASSUME NEW s \in Starter, Unwind(s) PROVE OwnInv'
  <2>1. OneOwner'
    BY <1>9 DEF OwnInv, FreeWhenStopped, OneOwner, Booting, Standing, Unwind, At
  <2>2. FreeWhenStopped'
    BY <1>9 DEF OwnInv, FreeWhenStopped, OneOwner, OwnerRuns, Booting, Standing, Unwind, At
  <2>3. OwnerRuns'
    BY <1>9 DEF OwnInv, OwnerRuns, FreeWhenStopped, OneOwner, Booting, MineOK, Standing,
       Clean, Unwind, At
  <2>4. OneEmulator'
    BY <1>9 DEF OwnInv, OneEmulator, OwnerRuns, Unwind, At
  <2> QED
    BY <2>1, <2>2, <2>3, <2>4 DEF OwnInv
<1>10. ASSUME NEW s \in Starter, Unwound(s) PROVE OwnInv'
  <2>1. OneOwner'
    BY <1>10 DEF OwnInv, FreeWhenStopped, OneOwner, Booting, Standing, Unwound, At, Teardown,
       Ends
  <2>2. FreeWhenStopped'
    BY <1>10 DEF OwnInv, FreeWhenStopped, OneOwner, OwnerRuns, Booting, Standing, Unwound, At,
       Teardown, Ends
  <2>3. OwnerRuns'
    BY <1>10 DEF OwnInv, OwnerRuns, FreeWhenStopped, OneOwner, Booting, MineOK, Standing,
       Clean, Unwound, At, Teardown, Ends
  <2>4. OneEmulator'
    BY <1>10 DEF OwnInv, OneEmulator, OwnerRuns, Unwound, At, Teardown, Ends
  <2> QED
    BY <2>1, <2>2, <2>3, <2>4 DEF OwnInv
<1>11. ASSUME NEW s \in Starter, Abort(s) PROVE OwnInv'
  <2>1. OneOwner'
    BY <1>11 DEF OwnInv, FreeWhenStopped, OneOwner, Booting, Standing, Abort
  <2>2. FreeWhenStopped'
    BY <1>11 DEF OwnInv, FreeWhenStopped, OneOwner, OwnerRuns, Booting, Standing, Abort
  <2>3. OwnerRuns'
    BY <1>11 DEF OwnInv, OwnerRuns, FreeWhenStopped, OneOwner, Booting, MineOK, Standing,
       Clean, Abort
  <2>4. OneEmulator'
    BY <1>11 DEF OwnInv, OneEmulator, OwnerRuns, Abort
  <2> QED
    BY <2>1, <2>2, <2>3, <2>4 DEF OwnInv
<1>12. ASSUME NEW t \in Stopper, StopTakes(t) PROVE OwnInv'
  BY <1>12, OwnKept DEF StopTakes, StopAt
<1>13. ASSUME NEW t \in Stopper, StopMarks(t) PROVE OwnInv'
  BY <1>13, OwnKept DEF StopMarks, StopAt
<1>14. ASSUME NEW t \in Stopper, StopKills(t) PROVE OwnInv'
  BY <1>14, OwnKept DEF StopKills, StopAt, Ends
<1>15. ASSUME NEW t \in Stopper, StopReturns(t) PROVE OwnInv'
  BY <1>15, OwnKept DEF StopReturns, StopAt
<1>16. ASSUME NEW r \in Run, MonitorTears(r) PROVE OwnInv'
  <2>1. OneOwner'
    BY <1>16 DEF OwnInv, FreeWhenStopped, OneOwner, Booting, Standing, MonitorTears, Teardown,
       Ends
  <2>2. FreeWhenStopped'
    BY <1>16 DEF OwnInv, FreeWhenStopped, OneOwner, OwnerRuns, Booting, Standing,
       MonitorTears, Teardown, Ends
  <2>3. OwnerRuns'
    BY <1>16 DEF OwnInv, OwnerRuns, FreeWhenStopped, OneOwner, Booting, MineOK, Standing,
       Clean, MonitorTears, Teardown, Ends
  <2>4. OneEmulator'
    BY <1>16 DEF OwnInv, OneEmulator, OwnerRuns, MonitorTears, Teardown, Ends
  <2> QED
    BY <2>1, <2>2, <2>3, <2>4 DEF OwnInv
<1>17. ASSUME NEW r \in Run, MonitorSettles(r) PROVE OwnInv'
  <2>1. OneOwner'
    BY <1>17 DEF OwnInv, FreeWhenStopped, OneOwner, Booting, Standing, MonitorSettles
  <2>2. FreeWhenStopped'
    BY <1>17 DEF OwnInv, FreeWhenStopped, OneOwner, OwnerRuns, Booting, Standing, MonitorSettles
  <2>3. OwnerRuns'
    BY <1>17 DEF OwnInv, OwnerRuns, FreeWhenStopped, OneOwner, Booting, MineOK, Standing,
       Clean, MonitorSettles
  <2>4. OneEmulator'
    BY <1>17 DEF OwnInv, OneEmulator, OwnerRuns, MonitorSettles
  <2> QED
    BY <2>1, <2>2, <2>3, <2>4 DEF OwnInv
<1>18. ASSUME NEW r \in Run, MonitorClears(r) PROVE OwnInv'
  <2>1. OneOwner'
    BY <1>18 DEF OwnInv, FreeWhenStopped, OneOwner, Booting, Standing, MonitorClears
  <2>2. FreeWhenStopped'
    BY <1>18 DEF OwnInv, FreeWhenStopped, OneOwner, OwnerRuns, Booting, Standing, MonitorClears
  <2>3. OwnerRuns'
    BY <1>18 DEF OwnInv, OwnerRuns, FreeWhenStopped, OneOwner, Booting, MineOK, Standing,
       Clean, MonitorClears
  <2>4. OneEmulator'
    BY <1>18 DEF OwnInv, OneEmulator, OwnerRuns, MonitorClears
  <2> QED
    BY <2>1, <2>2, <2>3, <2>4 DEF OwnInv
<1>19. ASSUME NEW r \in Run, MonitorReports(r) PROVE OwnInv'
  <2>1. OneOwner'
    BY <1>19 DEF OwnInv, FreeWhenStopped, OneOwner, Booting, Standing, MonitorReports
  <2>2. FreeWhenStopped'
    BY <1>19 DEF OwnInv, FreeWhenStopped, OneOwner, OwnerRuns, Booting, Standing, MonitorReports
  <2>3. OwnerRuns'
    BY <1>19 DEF OwnInv, OwnerRuns, FreeWhenStopped, OneOwner, Booting, MineOK, Standing,
       Clean, MonitorReports
  <2>4. OneEmulator'
    BY <1>19 DEF OwnInv, OneEmulator, OwnerRuns, MonitorReports
  <2> QED
    BY <2>1, <2>2, <2>3, <2>4 DEF OwnInv
<1>20. ASSUME NEW r \in Run, PollAnswered(r) PROVE OwnInv'
  BY <1>20, OwnKept DEF PollAnswered, PollAt
<1>21. ASSUME NEW r \in Run, PollChecks(r) PROVE OwnInv'
  BY <1>21, OwnKept DEF PollChecks, PollAt
<1>22. ASSUME NEW r \in Run, PollSets(r) PROVE OwnInv'
  BY <1>22, OwnKept DEF PollSets, PollAt
<1>23. ASSUME NEW r \in Run, PollGivesUp(r) PROVE OwnInv'
  BY <1>23, OwnKept DEF PollGivesUp
<1>24. ASSUME NEW r \in Run, ResetSeen(r) PROVE OwnInv'
  BY <1>24, OwnKept DEF ResetSeen, WatchAt
<1>25. ASSUME NEW r \in Run, ResetAnswered(r) PROVE OwnInv'
  BY <1>25, OwnKept DEF ResetAnswered, WatchAt
<1>26. ASSUME NEW r \in Run, ResetRestores(r) PROVE OwnInv'
  BY <1>26, OwnKept DEF ResetRestores, WatchAt
<1>27. ASSUME NEW r \in Run, ResetEnds(r) PROVE OwnInv'
  BY <1>27, OwnKept DEF ResetEnds, WatchAt
<1>28. ASSUME NEW r \in Run, SleepSeen(r) PROVE OwnInv'
  BY <1>28, OwnKept DEF SleepSeen
<1>29. ASSUME NEW r \in Run, GuestAnswers(r) PROVE OwnInv'
  BY <1>29, OwnKept DEF GuestAnswers
<1>30. ASSUME NEW r \in Run, GuestDies(r) PROVE OwnInv'
  BY <1>30, OwnKept DEF GuestDies, Ends
<1>31. ASSUME NEW r \in Run, GuestSleeps(r) PROVE OwnInv'
  BY <1>31, OwnKept DEF GuestSleeps
<1>32. ASSUME NEW r \in Run, GuestWakes(r) PROVE OwnInv'
  BY <1>32, OwnKept DEF GuestWakes
<1>33. ASSUME NEW r \in Run, GuestResets(r) PROVE OwnInv'
  BY <1>33, OwnKept DEF GuestResets
<1>34. CASE UNCHANGED vars
  BY <1>34, OwnKept
<1> QED
  BY <1>1, <1>2, <1>3, <1>4, <1>5, <1>6, <1>7, <1>8, <1>9, <1>10, <1>11, <1>12, <1>13, <1>14,
     <1>15, <1>16, <1>17, <1>18, <1>19, <1>20, <1>21, <1>22, <1>23, <1>24, <1>25, <1>26,
     <1>27, <1>28, <1>29, <1>30, <1>31, <1>32, <1>33, <1>34 DEF Next, Boots, Stops, Monitors,
     Polls, Watches, Guest

\* Only a start that spawned its exit monitor says the machine is up, and that
\* monitor takes the word back when it goes.
LEMMA StepWatched ==
    ASSUME TypeOK, MineOK, Watched, [Next]_vars
    PROVE  Watched'
<1> USE SMTT(40), Zenon DEF Watched, Monitored, TypeOK, vars, machine, callers, tasks, guest, counters
<1>1. ASSUME NEW s \in Starter, Ask(s) PROVE Watched'
  BY <1>1 DEF Ask, At
<1>2. ASSUME NEW s \in Starter, Claim(s) PROVE Watched'
  BY <1>2 DEF Claim, At
<1>3. ASSUME NEW s \in Starter, Prepare(s) PROVE Watched'
  BY <1>3 DEF Prepare, At
<1>4. ASSUME NEW s \in Starter, Launch(s) PROVE Watched'
  BY <1>4 DEF Launch, At
<1>5. ASSUME NEW s \in Starter, Connect(s) PROVE Watched'
  BY <1>5 DEF Connect, At
<1>6. ASSUME NEW s \in Starter, Resume(s) PROVE Watched'
  BY <1>6 DEF Resume, At
<1>7. ASSUME NEW s \in Starter, Started(s) PROVE Watched'
  BY <1>7 DEF Started, At, MineOK, Booting
<1>8. ASSUME NEW s \in Starter, Fails(s) PROVE Watched'
  BY <1>8 DEF Fails, At
<1>9. ASSUME NEW s \in Starter, Unwind(s) PROVE Watched'
  BY <1>9 DEF Unwind, At
<1>10. ASSUME NEW s \in Starter, Unwound(s) PROVE Watched'
  BY <1>10 DEF Unwound, At, Teardown, Ends
<1>11. ASSUME NEW s \in Starter, Abort(s) PROVE Watched'
  BY <1>11 DEF Abort
<1>12. ASSUME NEW t \in Stopper, StopTakes(t) PROVE Watched'
  BY <1>12 DEF StopTakes, StopAt
<1>13. ASSUME NEW t \in Stopper, StopMarks(t) PROVE Watched'
  BY <1>13 DEF StopMarks, StopAt
<1>14. ASSUME NEW t \in Stopper, StopKills(t) PROVE Watched'
  BY <1>14 DEF StopKills, StopAt, Ends
<1>15. ASSUME NEW t \in Stopper, StopReturns(t) PROVE Watched'
  BY <1>15 DEF StopReturns, StopAt
<1>16. ASSUME NEW r \in Run, MonitorTears(r) PROVE Watched'
  BY <1>16 DEF MonitorTears, Teardown, Ends
<1>17. ASSUME NEW r \in Run, MonitorSettles(r) PROVE Watched'
  BY <1>17 DEF MonitorSettles
<1>18. ASSUME NEW r \in Run, MonitorClears(r) PROVE Watched'
  BY <1>18 DEF MonitorClears
<1>19. ASSUME NEW r \in Run, MonitorReports(r) PROVE Watched'
  BY <1>19 DEF MonitorReports
<1>20. ASSUME NEW r \in Run, PollAnswered(r) PROVE Watched'
  BY <1>20 DEF PollAnswered, PollAt
<1>21. ASSUME NEW r \in Run, PollChecks(r) PROVE Watched'
  BY <1>21 DEF PollChecks, PollAt
<1>22. ASSUME NEW r \in Run, PollSets(r) PROVE Watched'
  BY <1>22 DEF PollSets, PollAt
<1>23. ASSUME NEW r \in Run, PollGivesUp(r) PROVE Watched'
  BY <1>23 DEF PollGivesUp
<1>24. ASSUME NEW r \in Run, ResetSeen(r) PROVE Watched'
  BY <1>24 DEF ResetSeen, WatchAt
<1>25. ASSUME NEW r \in Run, ResetAnswered(r) PROVE Watched'
  BY <1>25 DEF ResetAnswered, WatchAt
<1>26. ASSUME NEW r \in Run, ResetRestores(r) PROVE Watched'
  BY <1>26 DEF ResetRestores, WatchAt
<1>27. ASSUME NEW r \in Run, ResetEnds(r) PROVE Watched'
  BY <1>27 DEF ResetEnds, WatchAt
<1>28. ASSUME NEW r \in Run, SleepSeen(r) PROVE Watched'
  BY <1>28 DEF SleepSeen
<1>29. ASSUME NEW r \in Run, GuestAnswers(r) PROVE Watched'
  BY <1>29 DEF GuestAnswers
<1>30. ASSUME NEW r \in Run, GuestDies(r) PROVE Watched'
  BY <1>30 DEF GuestDies, Ends
<1>31. ASSUME NEW r \in Run, GuestSleeps(r) PROVE Watched'
  BY <1>31 DEF GuestSleeps
<1>32. ASSUME NEW r \in Run, GuestWakes(r) PROVE Watched'
  BY <1>32 DEF GuestWakes
<1>33. ASSUME NEW r \in Run, GuestResets(r) PROVE Watched'
  BY <1>33 DEF GuestResets
<1>34. CASE UNCHANGED vars
  BY <1>34
<1> QED
  BY <1>1, <1>2, <1>3, <1>4, <1>5, <1>6, <1>7, <1>8, <1>9, <1>10, <1>11, <1>12, <1>13, <1>14,
     <1>15, <1>16, <1>17, <1>18, <1>19, <1>20, <1>21, <1>22, <1>23, <1>24, <1>25, <1>26,
     <1>27, <1>28, <1>29, <1>30, <1>31, <1>32, <1>33, <1>34 DEF Next, Boots, Stops, Monitors,
     Polls, Watches, Guest

-----------------------------------------------------------------------------

\* The variables of the lifecycle keep their types in every reachable state of
\* boot, stop_ladder, the exit monitor, the poller and the watches.
THEOREM LifecycleTypeCorrect == Spec => []TypeOK
<1>1. Init => TypeOK /\ MineOK
  BY InitTyped
<1>2. TypeOK /\ MineOK /\ [Next]_vars => (TypeOK /\ MineOK)'
  BY StepTyped
<1> QED
  BY <1>1, <1>2, PTL DEF Spec

\* Two starts of a machine never both proceed: boot's claim of the power state
\* keeps its emulators to one, as long as no start fails with its emulator
\* still running.
THEOREM OneEmulatorHolds ==
    ASSUME Clean
    PROVE  Spec => []OneEmulator
<1>1. Init => TypeOK /\ MineOK /\ OwnInv
  BY InitTyped, InitOwned
<1>2. TypeOK /\ MineOK /\ OwnInv /\ [Next]_vars => (TypeOK /\ MineOK /\ OwnInv)'
  BY Clean, StepTyped, StepOwned
<1>3. OwnInv => OneEmulator
  BY DEF OwnInv
<1> QED
  BY <1>1, <1>2, <1>3, PTL DEF Spec

\* A machine that is said to run or to sleep has an exit monitor, whatever its
\* starts and stops run into.
THEOREM WatchedHolds == Spec => []Watched
<1>1. Init => TypeOK /\ MineOK /\ Watched
  BY InitTyped DEF Init, Watched
<1>2. TypeOK /\ MineOK /\ Watched /\ [Next]_vars => (TypeOK /\ MineOK /\ Watched)'
  BY StepTyped, StepWatched
<1> QED
  BY <1>1, <1>2, PTL DEF Spec

\* A stopped machine that nobody starts has no emulator left: the starts, stops
\* and exits that can be dropped or overlap leave none behind, as long as no
\* start fails with its emulator still running.
THEOREM NoStrayHolds ==
    ASSUME Clean
    PROVE  Spec => []NoStray
<1>1. Init => TypeOK /\ MineOK /\ OwnInv
  BY InitTyped, InitOwned
<1>2. TypeOK /\ MineOK /\ OwnInv /\ [Next]_vars => (TypeOK /\ MineOK /\ OwnInv)'
  BY Clean, StepTyped, StepOwned
<1>3. OwnInv => NoStray
  BY DEF OwnInv, FreeWhenStopped, NoStray
<1> QED
  BY <1>1, <1>2, <1>3, PTL DEF Spec

-----------------------------------------------------------------------------
(* What the handles belong to. *)

\* A step of a stop, a poller, a watch or the guest: it moves no start and no
\* exit monitor, touches no handle, starts no emulator, and neither frees the
\* power state nor claims it.
Aside ==
    /\ UNCHANGED <<boot, mine, monitor, qemu, helpers>>
    /\ alive' \subseteq alive
    /\ state' = state \/ state' \notin {"stopped", "starting"}

LEMMA Asides ==
    ASSUME TypeOK, [Next]_vars
    PROVE  \/ \E s \in Starter : Ask(s) \/ Boots(s) \/ Abort(s)
           \/ \E r \in Run : Monitors(r)
           \/ Aside
<1> USE DEF Aside, vars, machine, callers, tasks, guest, counters
<1>1. ASSUME NEW t \in Stopper, StopTakes(t) \/ Stops(t) PROVE Aside
  BY <1>1 DEF StopTakes, Stops, StopMarks, StopKills, StopReturns, Ends
<1>2. ASSUME NEW r \in Run, Polls(r) PROVE Aside
  BY <1>2 DEF Polls, PollAnswered, PollChecks, PollSets, PollGivesUp
<1>3. ASSUME NEW r \in Run, Watches(r) PROVE Aside
  BY <1>3 DEF Watches, ResetSeen, ResetAnswered, ResetRestores, ResetEnds, SleepSeen
<1>4. ASSUME NEW r \in Run, Guest(r) PROVE Aside
  BY <1>4 DEF Guest, GuestAnswers, GuestDies, GuestSleeps, GuestWakes, GuestResets, Ends
<1>5. CASE UNCHANGED vars
  BY <1>5
<1> QED
  BY <1>1, <1>2, <1>3, <1>4, <1>5 DEF Next

\* Only a claim says "starting", and the start that made it answers for it
\* unless it is dropped.
LEMMA StepWedged ==
    ASSUME MaxAborts = 0, TypeOK, NotWedged, [Next]_vars
    PROVE  NotWedged'
<1> USE SMTT(40), Zenon DEF NotWedged, Booting, TypeOK, At
<1>1. ASSUME NEW s \in Starter, Ask(s) PROVE NotWedged'
  BY <1>1 DEF Ask, machine
<1>2. ASSUME NEW s \in Starter, Claim(s) PROVE NotWedged'
  BY <1>2 DEF Claim
<1>3. ASSUME NEW s \in Starter, Prepare(s) \/ Launch(s) \/ Connect(s) \/ Resume(s)
      PROVE  NotWedged'
  BY <1>3 DEF Prepare, Launch, Connect, Resume, machine
<1>4. ASSUME NEW s \in Starter, Started(s) \/ Unwind(s) PROVE NotWedged'
  BY <1>4 DEF Started, Unwind
<1>5. ASSUME NEW s \in Starter, Fails(s) PROVE NotWedged'
  BY <1>5 DEF Fails, machine
<1>6. ASSUME NEW s \in Starter, Unwound(s) PROVE NotWedged'
  BY <1>6 DEF Unwound
<1>7. ASSUME NEW s \in Starter, Abort(s) PROVE NotWedged'
  BY <1>7 DEF Abort
<1>8. ASSUME NEW r \in Run, Monitors(r) PROVE NotWedged'
  BY <1>8 DEF Monitors, MonitorTears, MonitorSettles, MonitorClears, MonitorReports, machine,
     callers
<1>9. CASE Aside
  BY <1>9 DEF Aside
<1> QED
  BY <1>1, <1>2, <1>3, <1>4, <1>5, <1>6, <1>7, <1>8, <1>9, Asides DEF Boots

\* A machine is "starting" only while a start of it is under way, if no start is
\* dropped half-way: every path out of boot, failures included, moves the state on.
THEOREM NotWedgedHolds ==
    ASSUME MaxAborts = 0
    PROVE  Spec => []NotWedged
<1>1. Init => TypeOK /\ MineOK /\ NotWedged
  BY InitTyped DEF Init, NotWedged
<1>2. TypeOK /\ MineOK /\ NotWedged /\ [Next]_vars => (TypeOK /\ MineOK /\ NotWedged)'
  BY StepTyped, StepWedged
<1> QED
  BY <1>1, <1>2, PTL DEF Spec

\* The starts of the machine come from one caller.
OneStarter == \A s, u \in Starter : s = u

\* With one caller the power state is a lock even where a start fails with its
\* emulator alive, and the handles are the ones of the start or the run that
\* holds it.
KeepInv ==
    /\ \A s \in Starter, r \in Run :
           Booting(s) \/ boot[s] = "unwinding" => monitor[r] \notin Standing
    /\ \A q, r \in Run : monitor[q] \in Standing /\ monitor[r] \in Standing => q = r
    /\ state = "stopped" => /\ \A s \in Starter : ~Booting(s)
                            /\ \A r \in Run : monitor[r] \notin Standing
    /\ \A s \in Starter :
           /\ boot[s] \in {"prepared", "spawned", "paused", "resumed"} => helpers = mine[s]
           /\ boot[s] \in {"paused", "resumed"} => qemu = mine[s]
    /\ Kept

LEMMA StepKept ==
    ASSUME OneStarter, TypeOK, MineOK, KeepInv, [Next]_vars
    PROVE  KeepInv'
<1> USE SMTT(40), Zenon DEF KeepInv, Kept, OneStarter, Booting, Standing, TypeOK, At
<1>1. ASSUME NEW s \in Starter, Ask(s) PROVE KeepInv'
  BY <1>1 DEF Ask, machine, tasks
<1>2. ASSUME NEW s \in Starter, Claim(s) PROVE KeepInv'
  BY <1>2 DEF Claim, tasks
<1>3. ASSUME NEW s \in Starter, Prepare(s) PROVE KeepInv'
  BY <1>3 DEF Prepare, tasks
<1>4. ASSUME NEW s \in Starter, Launch(s) \/ Connect(s) \/ Resume(s) PROVE KeepInv'
  BY <1>4 DEF Launch, Connect, Resume, machine, tasks
<1>5. ASSUME NEW s \in Starter, Started(s) PROVE KeepInv'
  <2>1. mine[s] \in Run /\ \A r \in Run : monitor[r] \notin Standing
    BY <1>5 DEF Started, MineOK
  <2>2. monitor' = [monitor EXCEPT ![mine[s]] = "watching"] /\ qemu = mine[s] /\ helpers = mine[s]
    BY <1>5 DEF Started
  <2>3. \A r \in Run : monitor'[r] \in Standing => r = mine[s]
    BY <2>1, <2>2
  <2>4. \A u \in Starter : boot'[u] = "idle"
    BY <1>5 DEF Started
  <2> QED
    BY <1>5, <2>2, <2>3, <2>4 DEF Started
<1>6. ASSUME NEW s \in Starter, Fails(s) PROVE KeepInv'
  BY <1>6 DEF Fails, machine, tasks
<1>7. ASSUME NEW s \in Starter, Unwind(s) PROVE KeepInv'
  BY <1>7 DEF Unwind, tasks
<1>8. ASSUME NEW s \in Starter, Unwound(s) PROVE KeepInv'
  BY <1>8 DEF Unwound, Teardown, tasks
<1>9. ASSUME NEW s \in Starter, Abort(s) PROVE KeepInv'
  BY <1>9 DEF Abort, machine, tasks
<1>10. ASSUME NEW r \in Run, MonitorTears(r) PROVE KeepInv'
  BY <1>10 DEF MonitorTears, Teardown, callers
<1>11. ASSUME NEW r \in Run, MonitorSettles(r) PROVE KeepInv'
  BY <1>11 DEF MonitorSettles, callers
<1>12. ASSUME NEW r \in Run, MonitorClears(r) \/ MonitorReports(r) PROVE KeepInv'
  BY <1>12 DEF MonitorClears, MonitorReports, machine, callers
<1>13. CASE Aside
  BY <1>13 DEF Aside
<1> QED
  BY <1>1, <1>2, <1>3, <1>4, <1>5, <1>6, <1>7, <1>8, <1>9, <1>10, <1>11, <1>12, <1>13, Asides
     DEF Boots, Monitors

LEMMA KeepInvHolds ==
    ASSUME OneStarter
    PROVE  Spec => [](TypeOK /\ MineOK /\ KeepInv)
<1>1. Init => TypeOK /\ MineOK /\ KeepInv
  BY InitTyped DEF Init, KeepInv, Kept, Booting, Standing
<1>2. TypeOK /\ MineOK /\ KeepInv /\ [Next]_vars => (TypeOK /\ MineOK /\ KeepInv)'
  BY OneStarter, StepTyped, StepKept
<1> QED
  BY <1>1, <1>2, PTL DEF Spec

\* A run that is watched keeps the emulator handle and the helpers it was booted
\* with, whatever its stops, failed and dropped starts do, when one caller starts
\* the machine: a failed boot's teardown can then only find what that boot left.
THEOREM KeptHolds ==
    ASSUME OneStarter
    PROVE  Spec => []Kept
<1>1. KeepInv => Kept
  BY DEF KeepInv
<1> QED
  BY <1>1, KeepInvHolds, OneStarter, PTL

-----------------------------------------------------------------------------
(* A container's teardown. *)

\* A container's start may fail with its emulator alive, but then it still has
\* the handle to it.
HandledInv ==
    /\ state = "stopped" /\ (\A s \in Starter : boot[s] \in {"idle", "asked"}) => alive = {}
    /\ \A s \in Starter :
           /\ boot[s] \in {"claimed", "prepared"} => alive = {}
           /\ boot[s] \in {"spawned", "paused", "resumed"} => alive \subseteq {mine[s]}
           /\ boot[s] \in {"failed", "unwinding"} => alive \subseteq {qemu}
    /\ \A r \in Run : monitor[r] = "watching" => alive \subseteq {r}
    /\ \A r \in Run : monitor[r] = "torn" => alive = {}
    /\ OneEmulator

LEMMA StepHandled ==
    ASSUME Kind = "container", "mute" \notin Mishaps, MaxAborts = 0, OneStarter,
           TypeOK, MineOK, KeepInv, HandledInv, [Next]_vars
    PROVE  HandledInv'
<1> USE SMTT(40), Zenon DEF HandledInv, OneEmulator, OneStarter, TypeOK, At
<1>1. ASSUME NEW s \in Starter, Ask(s) PROVE HandledInv'
  BY <1>1 DEF Ask, machine, tasks, guest
<1>2. ASSUME NEW s \in Starter, Claim(s) PROVE HandledInv'
  BY <1>2 DEF Claim, tasks, guest
<1>3. ASSUME NEW s \in Starter, Prepare(s) PROVE HandledInv'
  BY <1>3 DEF Prepare, tasks, guest
<1>4. ASSUME NEW s \in Starter, Launch(s) PROVE HandledInv'
  BY <1>4 DEF Launch, machine, tasks, KeepInv, Booting, Standing
<1>5. ASSUME NEW s \in Starter, Connect(s) \/ Resume(s) PROVE HandledInv'
  BY <1>5 DEF Connect, Resume, machine, tasks, guest
<1>6. ASSUME NEW s \in Starter, Started(s) PROVE HandledInv'
  BY <1>6 DEF Started, guest, MineOK, KeepInv, Booting, Standing
<1>7. ASSUME NEW s \in Starter, Fails(s) PROVE HandledInv'
  BY <1>7 DEF Fails, machine, tasks, guest, KeepInv
<1>8. ASSUME NEW s \in Starter, Unwind(s) PROVE HandledInv'
  BY <1>8 DEF Unwind, tasks, guest
<1>9. ASSUME NEW s \in Starter, Unwound(s) PROVE HandledInv'
  <2>1. alive' = {}
    BY <1>9, NoneAssumption DEF Unwound, Teardown, Ends, guest
  <2> QED
    BY <1>9, <2>1 DEF Unwound, Teardown, tasks
<1>10. ASSUME NEW s \in Starter, Abort(s) PROVE HandledInv'
  BY <1>10 DEF Abort
<1>11. ASSUME NEW r \in Run, MonitorTears(r) PROVE HandledInv'
  <2>1. alive' = {}
    BY <1>11 DEF MonitorTears, Teardown, Ends, guest
  <2> QED
    BY <1>11, <2>1 DEF MonitorTears
<1>12. ASSUME NEW r \in Run, MonitorSettles(r) PROVE HandledInv'
  BY <1>12 DEF MonitorSettles, callers, guest
<1>13. ASSUME NEW r \in Run, MonitorClears(r) \/ MonitorReports(r) PROVE HandledInv'
  BY <1>13 DEF MonitorClears, MonitorReports, machine, callers, guest
<1>14. CASE Aside
  BY <1>14 DEF Aside
<1> QED
  BY <1>1, <1>2, <1>3, <1>4, <1>5, <1>6, <1>7, <1>8, <1>9, <1>10, <1>11, <1>12, <1>13, <1>14,
     Asides DEF Boots, Monitors

\* A container's start that fails once its handle is kept - before_resume, the
\* resume or the control socket - leaves no emulator, for teardown kills it: one
\* caller's starts, failed or stopped, never leave a second or a stray one, unless
\* an emulator never answered control, or a start is dropped while it unwinds.
THEOREM ContainerNoStray ==
    ASSUME Kind = "container", "mute" \notin Mishaps, MaxAborts = 0, OneStarter
    PROVE  Spec => [](OneEmulator /\ NoStray)
<1>1. Init => HandledInv
  BY DEF Init, HandledInv, OneEmulator
<1>2. TypeOK /\ MineOK /\ KeepInv /\ HandledInv /\ [Next]_vars => HandledInv'
  BY OneStarter, StepHandled
<1>3. HandledInv => OneEmulator /\ NoStray
  BY DEF HandledInv, NoStray
<1> QED
  BY <1>1, <1>2, <1>3, OneStarter, KeepInvHolds, PTL DEF Spec
=============================================================================
