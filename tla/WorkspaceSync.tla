---------------------------- MODULE WorkspaceSync ----------------------------
(***************************************************************************)
(* One workspace syncer (labd/workspace/syncer.rs): the loop that keeps    *)
(* the host's copy of a workspace and the guest's in step, the ledger it   *)
(* keeps of what the two sides last agreed on, the two watches that tell   *)
(* it what moved, and the bracket a snapshot restore puts around it        *)
(* (labd/lab.rs).  Developers write on both sides at any moment, guest     *)
(* operations fail, watches lose coverage, and the daemon may die between  *)
(* any two steps.                                                          *)
(*                                                                         *)
(* A pass is modelled at the granularity at which another writer can come  *)
(* in between: read the host, read the guest and decide, then for every    *)
(* planned action verify and transfer, verify again, put in place, read    *)
(* back; the ledger is saved once, at the end.                             *)
(***************************************************************************)
EXTENDS Reconcile

CONSTANTS
    Standing,           \* directories holding unsynced content: rmdir fails
    MaxEdits,           \* bound on developer writes
    MaxFaults,          \* bound on failures of any kind
    MaxRewinds,         \* bound on snapshot restores
    MaxAnswers,         \* bound on the paths a developer resolves
    ConcurrentCommands  \* may `up' run while a restore is under way?

ASSUME BoundAssumption ==
    /\ MaxEdits \in Nat /\ MaxFaults \in Nat /\ MaxRewinds \in Nat
    /\ MaxAnswers \in Nat
    /\ ConcurrentCommands \in BOOLEAN

VARIABLES
    tree,        \* tree[side][p]: the two copies of the workspace
    disk,        \* the ledger file in the lab's .vmlab/
    mem,         \* the ledger the loop holds
    pc,          \* "off", "top" (between passes), "read", "apply"
    due,         \* a pass is due
    rescan,      \* the next pass walks everything and trusts no stamp
    seeded,      \* the re-seed has just completed
    watch,       \* the guest's watch: "none", "open", "dead" (unnoticed)
    registered,  \* the host's directories are registered with the watch
    lost,        \* a watch lost coverage and the loop has yet to hear of it
    flight,      \* flight[side]: touched paths the loop has yet to settle
    dirty,       \* dirty[side]: settled paths a pass owes (host_dirty, owed)
    resolved,    \* resolved[p]: the developer's winner, not yet taken
    report,      \* the last published report: its halt, and nothing outstanding
    pass,        \* the pass under way
    op,          \* the restore command: where it is
    opRunning,   \* the restore command suspended a running syncer
    snap,        \* the guest tree of the captured snapshot, or None
    edits, faults, rewinds, answers,
    held,        \* history: held[side][p], every content the side has held
    raced,       \* history: a writer came between the last check and the commit
    rolled,      \* history: paths whose guest state is a rewound one
    missed       \* history: missed[side], writes no watch and no walk covers

ghosts   == <<held, raced, rolled, missed>>
counters == <<edits, faults, rewinds, answers>>
command  == <<op, opRunning, snap>>
loop     == <<pc, due, rescan, seeded, watch, registered, lost, flight, dirty,
              resolved, report>>
vars     == <<tree, disk, mem, loop, pass, command, counters, ghosts>>

NoAgreement == [p \in Path |-> None]
NoPaths     == [side \in Side |-> {}]
NoAnswers   == [p \in Path |-> None]

EmptyLedger == [agreed |-> NoAgreement, owed |-> FALSE, halted |-> {}]

Blank == [halt |-> {}, clean |-> FALSE]

NoPass ==
    [mode |-> "none", seen |-> NoAgreement, skips |-> NoPaths, undecided |-> {},
     taken |-> NoAnswers, adopt |-> NoAgreement, todo |-> {}, expected |-> NoAgreement,
     act |-> None, stage |-> "none", failed |-> {}, halt |-> {}, refused |-> {},
     later |-> NoPaths, records |-> FALSE]

Stages == {"none", "adopt", "sent", "ready", "placed"}

Ledgers == [agreed : [Path -> Agreed \cup {None}], owed : BOOLEAN, halted : SUBSET Path]

Passes ==
    [mode : {"none", "pass", "reseed"},
     seen : [Path -> Seen \cup {None}],
     skips : [Side -> SUBSET Path],
     undecided : SUBSET Path,
     taken : [Path -> Side \cup {None}],
     adopt : [Path -> Match \cup {None}],
     todo : SUBSET Action,
     expected : [Path -> Seen \cup {None}],
     act : Action \cup [op : {"adopt"}, path : Path] \cup {None},
     stage : Stages,
     failed : SUBSET Path,
     halt : SUBSET Path,
     refused : SUBSET Path,
     later : [Side -> SUBSET Path],
     records : BOOLEAN]

-----------------------------------------------------------------------------
Init ==
    /\ tree \in [Side -> [Path -> Copy \cup {None}]]
    /\ tree["guest"] = NoAgreement
    /\ disk = EmptyLedger /\ mem = EmptyLedger
    /\ pc = "off" /\ due = FALSE /\ rescan = FALSE /\ seeded = FALSE
    /\ watch = "none" /\ registered = FALSE /\ lost = FALSE
    /\ flight = NoPaths /\ dirty = NoPaths
    /\ resolved = NoAnswers /\ report = Blank /\ pass = NoPass
    /\ op = "none" /\ opRunning = FALSE /\ snap = None
    /\ edits = 0 /\ faults = 0 /\ rewinds = 0 /\ answers = 0
    /\ held = [side \in Side |-> [p \in Path |->
                 IF tree[side][p] = None THEN {} ELSE {tree[side][p].data}]]
    /\ raced = FALSE /\ rolled = {} /\ missed = NoPaths

Fault == faults < MaxFaults /\ faults' = faults + 1

-----------------------------------------------------------------------------
(* The developers. *)

\* Whether the watch on this side tells the loop of a write.
Noticed(side) ==
    pc # "off" /\ IF side = "host" THEN registered ELSE watch = "open"

Touched(side, p) ==
    IF Noticed(side) THEN [flight EXCEPT ![side] = @ \cup {p}] ELSE flight

\* A write that no watch reports and that comes after this run's last walk of
\* its side: between the host's first scan and the registration it ends with,
\* or, on either side, between a re-seed's walk and the opening of the watch.
Uncovered(side) ==
    /\ pc # "off" /\ ~Noticed(side)
    /\ IF side = "host" THEN ~(pc = "top" /\ (mem.owed \/ rescan))
       ELSE watch = "none" /\ (seeded \/ pc = "apply")

Write(side, p) ==
    /\ edits < MaxEdits
    /\ edits' = edits + 1
    /\ \E c \in Copy \cup {None} :
         /\ c # tree[side][p]
         /\ tree' = [tree EXCEPT ![side][p] = c]
         /\ held' = IF c = None THEN held ELSE [held EXCEPT ![side][p] = @ \cup {c.data}]
    /\ flight' = Touched(side, p)
    /\ raced' = (raced \/ /\ pass.stage = "ready"
                          /\ pass.act.path = p /\ pass.act.to = side)
    /\ rolled' = IF side = "guest" THEN rolled \ {p} ELSE rolled
    /\ missed' = [missed EXCEPT ![side] = IF Uncovered(side) THEN @ \cup {p} ELSE @ \ {p}]
    /\ UNCHANGED <<disk, mem, pc, due, rescan, seeded, watch, registered, lost, dirty,
                   resolved, report, pass, command, faults, rewinds, answers>>

\* `dev sync flush', and every other verb that asks for a pass.
Ask ==
    /\ pc = "top" /\ ~due
    /\ due' = TRUE
    /\ UNCHANGED <<tree, disk, mem, pc, rescan, seeded, watch, registered, lost, flight,
                   dirty, resolved, report, pass, command, counters, ghosts>>

\* `dev sync resolve'.
Resolve(p, winner) ==
    /\ pc # "off" /\ answers < MaxAnswers
    /\ answers' = answers + 1
    /\ resolved' = [resolved EXCEPT ![p] = winner]
    /\ due' = TRUE
    /\ UNCHANGED <<tree, disk, mem, pc, rescan, seeded, watch, registered, lost, flight,
                   dirty, report, pass, command, edits, faults, rewinds, ghosts>>

-----------------------------------------------------------------------------
(* Starting and stopping the loop. *)

\* A fresh run loads the ledger; everything else it knew is gone.
Fresh(running) ==
    /\ pc' = IF running THEN "top" ELSE "off"
    /\ mem' = IF running THEN disk ELSE EmptyLedger
    /\ due' = running /\ rescan' = running
    /\ seeded' = FALSE /\ watch' = "none" /\ registered' = FALSE /\ lost' = FALSE
    /\ flight' = NoPaths /\ dirty' = NoPaths
    /\ resolved' = NoAnswers /\ report' = Blank /\ pass' = NoPass
    /\ raced' = FALSE /\ missed' = NoPaths

\* start_workspaces, at the end of `up'.
Start ==
    /\ pc = "off"
    /\ op = "none" \/ ConcurrentCommands
    /\ Fresh(TRUE)
    /\ UNCHANGED <<tree, disk, command, counters, held, rolled>>

\* `down': the loop is asked to stop and leaves at its next look.
Stop ==
    /\ pc = "top" /\ op = "none"
    /\ Fresh(FALSE)
    /\ UNCHANGED <<tree, disk, command, counters, held, rolled>>

\* The daemon dies: the ledger file and the two trees are all that is left.
Crash ==
    /\ pc # "off" \/ op # "none"
    /\ Fault
    /\ Fresh(FALSE)
    /\ op' = "none" /\ opRunning' = FALSE
    /\ UNCHANGED <<tree, disk, snap, edits, rewinds, answers, held, rolled>>

-----------------------------------------------------------------------------
(* Waking: what the watches tell the loop between two passes. *)

\* Broken variant of Settle: the debounce never lets go of a path.
Settle_KeepsTouch(side, p) ==
    /\ pc = "top"
    /\ p \in flight[side]
    /\ dirty' = [dirty EXCEPT ![side] = @ \cup {p}]
    /\ due' = TRUE
    /\ UNCHANGED <<tree, disk, mem, pc, rescan, seeded, watch, registered, lost, flight,
                   resolved, report, pass, command, counters, ghosts>>

\* A path has been still for the quiet period, whichever side touched it.
Settle(side, p) ==
    /\ pc = "top"
    /\ p \in flight[side]
    /\ flight' = [flight EXCEPT ![side] = @ \ {p}]
    /\ dirty' = [dirty EXCEPT ![side] = @ \cup {p}]
    /\ due' = TRUE
    /\ UNCHANGED <<tree, disk, mem, pc, rescan, seeded, watch, registered, lost, resolved,
                   report, pass, command, counters, ghosts>>

\* A queue overflows: some of what was touched is forgotten.
LoseCoverage(side) ==
    /\ Noticed(side) /\ ~lost
    /\ Fault
    /\ lost' = TRUE
    /\ \E kept \in SUBSET flight[side] : flight' = [flight EXCEPT ![side] = kept]
    /\ UNCHANGED <<tree, disk, mem, pc, due, rescan, seeded, watch, registered, dirty,
                   resolved, report, pass, command, edits, rewinds, answers, ghosts>>

\* Broken variant of HearOfLoss: a pass, but no walk.
HearOfLoss_NoWalk ==
    /\ pc = "top" /\ lost
    /\ lost' = FALSE /\ due' = TRUE
    /\ report' = [report EXCEPT !.clean = FALSE]
    /\ UNCHANGED <<tree, disk, mem, pc, rescan, seeded, watch, registered, flight, dirty,
                   resolved, pass, command, counters, ghosts>>

HearOfLoss ==
    /\ pc = "top" /\ lost
    /\ lost' = FALSE /\ rescan' = TRUE /\ due' = TRUE
    /\ report' = [report EXCEPT !.clean = FALSE]
    /\ UNCHANGED <<tree, disk, mem, pc, seeded, watch, registered, flight, dirty, resolved,
                   pass, command, counters, ghosts>>

\* The guest's watch channel dies with what it had not yet delivered.
WatchDies ==
    /\ watch = "open"
    /\ Fault
    /\ watch' = "dead"
    /\ \E kept \in SUBSET flight["guest"] : flight' = [flight EXCEPT !["guest"] = kept]
    /\ UNCHANGED <<tree, disk, mem, pc, due, rescan, seeded, registered, lost, dirty,
                   resolved, report, pass, command, edits, rewinds, answers, ghosts>>

DropWatch ==
    /\ pc = "top" /\ watch = "dead"
    /\ watch' = "none" /\ rescan' = TRUE
    /\ report' = [report EXCEPT !.clean = FALSE]
    /\ UNCHANGED <<tree, disk, mem, pc, due, seeded, registered, lost, flight, dirty,
                   resolved, pass, command, counters, ghosts>>

\* Every opening is a discontinuity, but the one that follows a re-seed.
OpenWatch ==
    /\ pc = "top" /\ ~mem.owed /\ watch = "none"
    /\ watch' = "open"
    /\ rescan' = ~seeded
    /\ seeded' = FALSE /\ due' = TRUE
    /\ UNCHANGED <<tree, disk, mem, pc, registered, lost, flight, dirty, resolved, report,
                   pass, command, counters, ghosts>>

-----------------------------------------------------------------------------
(* Reading and deciding. *)

\* At most one unreadable path, and each costs a fault.
Skipping(skip) ==
    \/ skip = {} /\ UNCHANGED faults
    \/ Cardinality(skip) = 1 /\ Fault

\* Broken variant of Cached: a reported write may hide behind its stamp.
Cached_TrustsStamps(p) ==
    IF pass.mode = "reseed" \/ rescan THEN None ELSE mem.agreed[p]

\* The agreement a reading may trust stamps against.
Cached(p) ==
    IF pass.mode = "reseed" \/ rescan \/ p \in dirty["host"] \cup dirty["guest"]
    THEN None ELSE mem.agreed[p]

ReadHost(cached, skip) ==
    [p \in Path |-> IF p \in skip THEN None ELSE Look(tree["host"][p], cached[p], "host")]

Read(mode, cached, flying) ==
    /\ pc' = "read"
    /\ \E skip \in SUBSET Path :
         /\ Skipping(skip)
         /\ LET seen == ReadHost(cached, skip) IN
              /\ pass' = [NoPass EXCEPT
                            !.mode = mode, !.seen = seen,
                            !.skips["host"] = skip, !.undecided = flying \cup skip,
                            !.taken = IF mode = "pass" THEN resolved ELSE NoAnswers]
              /\ missed' = [missed EXCEPT !["host"] =
                              {p \in @ : p \in skip \/ (seen[p] # None /\ seen[p].data = Vouched)}]

\* The re-seed runs before anything else: no watch, no ordinary pass.
BeginReseed ==
    /\ pc = "top" /\ mem.owed
    /\ Read("reseed", NoAgreement, {})
    /\ UNCHANGED <<tree, disk, mem, due, rescan, seeded, watch, registered, lost, flight,
                   dirty, resolved, report, command, edits, rewinds, answers, held, raced, rolled>>

\* An event may still be on its way to the loop when the pass starts, so any
\* part of the touched paths is known to be in flight.
BeginPass ==
    /\ pc = "top" /\ ~mem.owed /\ watch # "none" /\ due
    /\ due' = FALSE
    /\ \E flying \in SUBSET (flight["host"] \cup flight["guest"]) :
         Read("pass", [p \in Path |-> Cached(p)], flying)
    /\ resolved' = NoAnswers
    /\ UNCHANGED <<tree, disk, mem, rescan, seeded, watch, registered, lost, flight, dirty,
                   report, command, edits, rewinds, answers, held, raced, rolled>>

Probed(p) ==
    \/ pass.mode = "reseed" \/ rescan
    \/ pass.seen[p] # None \/ mem.agreed[p] # None \/ p \in dirty["guest"]

ReadGuest(skip) ==
    [p \in Path |-> IF p \in skip \/ ~Probed(p) THEN None
                    ELSE Look(tree["guest"][p], Cached(p), "guest")]

\* What a pass that decides nothing about a path must still remember of it.
Rehash(side, seen, skip) ==
    dirty[side] \cup skip \cup
    {p \in Path : /\ seen[p] # None
                  /\ \/ mem.agreed[p] = None
                     \/ seen[p].kind # KindOf(mem.agreed[p].data)
                     \/ /\ seen[p].data \notin {Vouched, Unhashed}
                        /\ seen[p].data # mem.agreed[p].data}

\* An ordinary pass decides: what needs no guest is done at once, the paths
\* gone from both sides leave the ledger.
Plan(skip) ==
    LET guest     == ReadGuest(skip)
        seen      == [host |-> pass.seen, guest |-> guest]
        undecided == pass.undecided \cup skip
        plan      == Decide(seen, mem.agreed, undecided, pass.taken)
        rehash(s) == Rehash(s, seen[s], IF s = "host" THEN pass.skips["host"] ELSE skip)
        \* won by a side that holds a file over the cap, or nothing where nothing
        \* was agreed: the other side's change is forgotten
        dropped(s) == {p \in Path \ undecided :
                         /\ plan.halt = {} /\ pass.taken[p] = Other(s)
                         /\ Changed(seen[s][p], mem.agreed[p])
                         /\ IF seen[Other(s)][p] = None THEN mem.agreed[p] = None
                            ELSE Refused(seen[Other(s)][p])}
        unread    == {p \in Path : p \in skip \/ ~Probed(p)
                                     \/ (guest[p] # None /\ guest[p].data = Vouched)}
    IN  /\ pass' = [pass EXCEPT
              !.seen = NoAgreement, !.undecided = undecided,
              !.adopt = plan.adopt, !.todo = plan.actions,
              !.expected = Expected(seen, mem.agreed, plan.actions),
              !.halt = plan.halt, !.refused = plan.refused, !.records = plan.records,
              !.later = [s \in Side |-> IF plan.halt # {} THEN rehash(s)
                                        ELSE rehash(s) \cap undecided]]
        /\ mem' = [mem EXCEPT !.agreed =
                     [p \in Path |-> IF p \in plan.forget THEN None ELSE @[p]]]
        /\ registered' = TRUE
        /\ missed' = [host  |-> missed["host"] \cup dropped("host"),
                      guest |-> (missed["guest"] \cap unread) \cup dropped("guest")]
        /\ UNCHANGED rolled

\* A re-seed compares the two trees afresh and replaces the ledger.
PlanReseed(skip) ==
    LET seen      == [host |-> pass.seen, guest |-> ReadGuest(skip)]
        undecided == pass.undecided \cup skip
        plan      == Reseed(seen, undecided)
    IN  /\ pass' = [pass EXCEPT
              !.seen = NoAgreement, !.undecided = undecided,
              !.adopt = plan.adopt, !.todo = plan.actions,
              !.expected = Expected(seen, NoAgreement, plan.actions),
              !.refused = plan.refused]
        /\ mem' = [EmptyLedger EXCEPT !.owed = TRUE]
        /\ missed' = [missed EXCEPT !["guest"] = @ \cap skip]
        /\ rolled' = {p \in rolled : ~(Gone(At(seen, p)) /\ p \notin undecided)}
        /\ UNCHANGED registered

\* The guest is probed and the plan computed.
Probe ==
    /\ pc = "read"
    /\ pc' = "apply"
    /\ \E skip \in SUBSET Path :
         /\ Skipping(skip)
         /\ IF pass.mode = "pass" THEN Plan(skip) ELSE PlanReseed(skip)
    /\ UNCHANGED <<tree, disk, due, rescan, seeded, watch, lost, flight, dirty, resolved,
                   report, command, edits, rewinds, answers, held, raced>>

\* restore_resolutions: an answer given meanwhile is not overwritten.
Restored(paths) ==
    [p \in Path |-> IF resolved[p] = None /\ p \in paths THEN pass.taken[p] ELSE resolved[p]]

\* A pass that could not reach the guest, or could not save, agreed to nothing
\* and is owed again, its answers with it.
Abandon ==
    /\ pc' = "top" /\ pass' = NoPass /\ raced' = FALSE
    /\ resolved' = Restored(Path)
    /\ due' = TRUE
    /\ report' = [report EXCEPT !.clean = FALSE]

PassFails ==
    /\ pc = "read"
    /\ Fault
    /\ Abandon
    /\ registered' = (registered \/ pass.mode = "pass")
    /\ UNCHANGED <<tree, disk, mem, rescan, seeded, watch, lost, flight, dirty, command,
                   edits, rewinds, answers, held, rolled, missed>>

-----------------------------------------------------------------------------
(* Applying: one adoption or action at a time. *)

applyFrame == <<disk, pc, due, rescan, seeded, watch, registered, lost, dirty, resolved,
                report, command, edits, rewinds, answers, missed>>

Failing(p) == [pass EXCEPT !.failed = @ \cup {p}, !.act = None, !.stage = "none"]

\* An operation on the guest (or the host's disk) fails without effect.
Fails ==
    /\ pc = "apply" /\ pass.act # None
    /\ Fault
    /\ pass' = [Failing(pass.act.path) EXCEPT !.adopt[pass.act.path] = None]
    /\ mem' = IF pass.stage = "placed"
              THEN [mem EXCEPT !.agreed[pass.act.path] = None] ELSE mem
    /\ UNCHANGED <<tree, flight, held, raced, rolled, applyFrame>>

\* Adoptions come first: the host's copy is verified, then the guest's.
AdoptHost(p) ==
    /\ pc = "apply" /\ pass.act = None /\ pass.adopt[p] # None
    /\ LET want == [kind |-> KindOf(pass.adopt[p].data), data |-> pass.adopt[p].data,
                    stamp |-> pass.adopt[p].stamp["host"]]
       IN  pass' = IF Verified(tree["host"][p], want)
                   THEN [pass EXCEPT !.act = [op |-> "adopt", path |-> p], !.stage = "adopt"]
                   ELSE [Failing(p) EXCEPT !.adopt[p] = None]
    /\ UNCHANGED <<tree, mem, flight, faults, held, raced, rolled, applyFrame>>

AdoptGuest ==
    /\ pc = "apply" /\ pass.stage = "adopt"
    /\ LET p    == pass.act.path
           want == [kind |-> KindOf(pass.adopt[p].data), data |-> pass.adopt[p].data,
                    stamp |-> pass.adopt[p].stamp["guest"]]
           ok   == Verified(tree["guest"][p], want)
       IN  /\ pass' = IF ok THEN [pass EXCEPT !.adopt[p] = None, !.act = None, !.stage = "none"]
                      ELSE [Failing(p) EXCEPT !.adopt[p] = None]
           /\ mem' = IF ok THEN [mem EXCEPT !.agreed[p] = pass.adopt[p]] ELSE mem
           /\ rolled' = IF ok THEN rolled \ {p} ELSE rolled
    /\ UNCHANGED <<tree, flight, faults, held, raced, applyFrame>>

\* Removals before placements; the destination must be the one the plan saw.
\* A file's source is transferred to a temporary name and must still have the
\* planned digest; a removal and a new directory have nothing to transfer.
Next1(a) ==
    /\ a \in pass.todo
    /\ a.op = "put" => \A b \in pass.todo : b.op = "put"
    /\ pass.adopt = NoAgreement

IsTransfer(a) == a.op = "put" /\ a.data \notin Dirs

\* Broken variant of Transfer: agreed as soon as it is sent.
Transfer_RecordsEarly(a) ==
    /\ pc = "apply" /\ pass.act = None
    /\ Next1(a)
    /\ pass' = [pass EXCEPT !.todo = @ \ {a}, !.act = a,
                            !.stage = IF IsTransfer(a) THEN "sent" ELSE "ready"]
    /\ mem' = IF a.op = "remove" THEN mem
              ELSE [mem EXCEPT !.agreed[a.path] =
                      [data |-> a.data, stamp |-> [side \in Side |-> a.stamp]]]
    /\ raced' = FALSE
    /\ UNCHANGED <<tree, flight, faults, held, rolled, applyFrame>>

Transfer(a) ==
    /\ pc = "apply" /\ pass.act = None
    /\ Next1(a)
    /\ LET source == tree[Other(a.to)][a.path]
           ok == /\ Verified(tree[a.to][a.path], pass.expected[a.path])
                 /\ IsTransfer(a) => source # None /\ source.data = a.data
       IN  pass' = IF ok
                   THEN [pass EXCEPT !.todo = @ \ {a}, !.act = a,
                                     !.stage = IF IsTransfer(a) THEN "sent" ELSE "ready"]
                   ELSE [Failing(a.path) EXCEPT !.todo = @ \ {a}]
    /\ raced' = FALSE
    /\ UNCHANGED <<tree, mem, flight, faults, held, rolled, applyFrame>>

\* Broken variant of Recheck: no second look.
Recheck_Trusting ==
    /\ pc = "apply" /\ pass.stage = "sent"
    /\ pass' = [pass EXCEPT !.stage = "ready"]
    /\ raced' = FALSE
    /\ UNCHANGED <<tree, mem, flight, faults, held, rolled, applyFrame>>

\* The destination is verified again, right before the rename.
Recheck ==
    /\ pc = "apply" /\ pass.stage = "sent"
    /\ LET p == pass.act.path
       IN  pass' = IF Verified(tree[pass.act.to][p], pass.expected[p])
                   THEN [pass EXCEPT !.stage = "ready"] ELSE Failing(p)
    /\ raced' = FALSE
    /\ UNCHANGED <<tree, mem, flight, faults, held, rolled, applyFrame>>

\* The guest did as asked and its answer never came: the action has failed,
\* although it took effect.
ReplyLost(a) == a.to = "guest" /\ Fault /\ pass' = Failing(a.path)

Remove(a, copy) ==
    LET p == a.path IN
    \/ \* already gone: the state the action asked for, host-side only
       /\ copy = None
       /\ pass' = IF a.to = "host"
                  THEN [pass EXCEPT !.act = None, !.stage = "none", !.expected[p] = None]
                  ELSE Failing(p)
       /\ mem' = IF a.to = "host" THEN [mem EXCEPT !.agreed[p] = None] ELSE mem
       /\ UNCHANGED <<tree, flight, faults, rolled>>
    \/ /\ copy # None /\ KindOf(copy.data) # a.kind
       /\ pass' = Failing(p)
       /\ UNCHANGED <<tree, mem, flight, faults, rolled>>
    \/ \* LeftStanding: the directory stays, the agreement about it goes
       /\ copy # None /\ KindOf(copy.data) = a.kind /\ a.kind = "dir" /\ p \in Standing
       /\ pass' = [pass EXCEPT !.act = None, !.stage = "none"]
       /\ mem' = [mem EXCEPT !.agreed[p] = None]
       /\ UNCHANGED <<tree, flight, faults, rolled>>
    \/ /\ copy # None /\ KindOf(copy.data) = a.kind
       /\ ~(a.kind = "dir" /\ p \in Standing)
       /\ tree' = [tree EXCEPT ![a.to][p] = None]
       /\ flight' = Touched(a.to, p)
       /\ rolled' = IF a.to = "guest" THEN rolled \ {p} ELSE rolled
       /\ \/ /\ pass' = [pass EXCEPT !.act = None, !.stage = "none", !.expected[p] = None]
             /\ mem' = [mem EXCEPT !.agreed[p] = None]
             /\ UNCHANGED faults
          \/ ReplyLost(a) /\ UNCHANGED mem

\* Neither side renames a file over a directory or makes one over a file.
Blocked(a, copy) == copy # None /\ KindOf(copy.data) # KindOf(a.data)

Put(a, copy) ==
    LET p == a.path IN
    \/ /\ Blocked(a, copy)
       /\ pass' = Failing(p)
       /\ UNCHANGED <<tree, held, flight, faults, rolled>>
    \/ /\ ~Blocked(a, copy)
       /\ IF a.data \in Dirs /\ copy # None
          THEN UNCHANGED <<tree, flight>>
          ELSE /\ \E s \in Stamp :
                    tree' = [tree EXCEPT ![a.to][p] = [data |-> a.data, stamp |-> s]]
               /\ flight' = Touched(a.to, p)
       /\ held' = [held EXCEPT ![a.to][p] = @ \cup {a.data}]
       /\ rolled' = IF a.to = "guest" THEN rolled \ {p} ELSE rolled
       /\ \/ pass' = [pass EXCEPT !.stage = "placed"] /\ UNCHANGED faults
          \/ ReplyLost(a)

Commit ==
    /\ pc = "apply" /\ pass.stage = "ready"
    /\ LET a    == pass.act
           copy == tree[a.to][a.path]
       IN  \/ a.op = "remove" /\ Remove(a, copy) /\ UNCHANGED held
           \/ a.op = "put" /\ Put(a, copy) /\ UNCHANGED mem
    /\ raced' = FALSE
    /\ UNCHANGED applyFrame

\* What the receiving side now holds is read back; only then is it agreed.
Record ==
    /\ pc = "apply" /\ pass.stage = "placed"
    /\ LET a    == pass.act
           copy == tree[a.to][a.path]
           ok   == /\ copy # None
                   /\ KindOf(copy.data) = KindOf(a.data)
                   /\ copy.data = a.data
           now  == [data |-> a.data,
                    stamp |-> [side \in Side |-> IF side = a.to THEN copy.stamp ELSE a.stamp]]
       IN  /\ mem' = [mem EXCEPT !.agreed[a.path] = IF ok THEN now ELSE None]
           /\ pass' = IF ok THEN [pass EXCEPT !.act = None, !.stage = "none"]
                      ELSE Failing(a.path)
    /\ UNCHANGED <<tree, flight, faults, held, raced, rolled, applyFrame>>

-----------------------------------------------------------------------------
(* Ending the pass. *)

Applied ==
    /\ pc = "apply" /\ pass.act = None
    /\ pass.todo = {} /\ pass.adopt = NoAgreement

finishFrame == <<tree, seeded, watch, registered, lost, flight, command, edits, rewinds,
                 answers, held, rolled>>

\* Broken variant of Saves: a halted pass is not saved.
Saves_NotHalted == pass.halt = {} /\ pass.records

Saves == pass.records \/ mem.halted # pass.halt

FinishPass ==
    /\ Applied /\ pass.mode = "pass"
    /\ mem' = [mem EXCEPT !.halted = pass.halt]
    /\ disk' = IF Saves THEN mem' ELSE disk
    /\ dirty' = [host |-> pass.later["host"], guest |-> pass.later["guest"] \cup pass.failed]
    /\ rescan' = FALSE
    /\ due' = (due \/ pass.failed # {})
    /\ resolved' = Restored(pass.failed)
    /\ \E inflight \in SUBSET flight["guest"] :
         report' = [halt |-> pass.halt,
                    clean |-> pass.halt = {} /\ pass.failed = {}
                                /\ dirty'["guest"] \cup inflight = {}]
    /\ pc' = "top" /\ pass' = NoPass /\ raced' = FALSE
    /\ UNCHANGED <<faults, missed, finishFrame>>

\* The ledger in memory has moved on, the file has not, and the pass failed:
\* with it go the paths it found to be owed, among them those whose action
\* failed (one that could not be read back has lost its entry already).
SaveFails ==
    /\ Applied
    /\ Fault
    /\ \/ /\ pass.mode = "pass" /\ Saves
          /\ mem' = [mem EXCEPT !.halted = pass.halt]
       \/ /\ pass.mode = "reseed"
          /\ mem' = [mem EXCEPT !.owed = TRUE]
    /\ Abandon
    /\ missed' = IF pass.mode = "reseed" \/ rescan THEN missed
                 ELSE [missed EXCEPT !["guest"] =
                         @ \cup ((pass.failed \cup pass.later["guest"]) \ dirty["guest"])]
    /\ UNCHANGED <<disk, dirty, rescan, finishFrame>>

\* Broken variant of Complete: failed actions do not count.
Complete_DespiteFailures == pass.refused = {} /\ pass.undecided = {}

Complete == pass.failed = {} /\ pass.refused = {} /\ pass.undecided = {}

FinishReseed ==
    /\ Applied /\ pass.mode = "reseed"
    /\ mem' = [mem EXCEPT !.owed = ~Complete]
    /\ disk' = mem'
    /\ seeded' = Complete
    /\ rescan' = (rescan /\ ~Complete)
    /\ report' = [halt |-> {}, clean |-> Complete]
    /\ pc' = "top" /\ pass' = NoPass /\ raced' = FALSE
    /\ UNCHANGED <<tree, due, watch, registered, lost, flight, dirty, resolved, command,
                   counters, held, rolled, missed>>

-----------------------------------------------------------------------------
(* The snapshot bracket (lab.rs: snapshot, restore). *)

\* before_capture, then the capture.
Capture ==
    /\ op = "none" /\ rewinds < MaxRewinds
    /\ IF pc = "off" THEN disk.halted = {} /\ ~disk.owed ELSE report.clean
    /\ snap' = tree["guest"]
    /\ snap' # snap
    /\ UNCHANGED <<tree, disk, mem, loop, pass, op, opRunning, counters, ghosts>>

\* before_restore: refused while a halt stands, unless it may be discarded.
BeginRestore(discard) ==
    /\ op = "none" /\ snap # None /\ rewinds < MaxRewinds
    /\ rewinds' = rewinds + 1
    /\ \/ discard
       \/ IF pc = "off" THEN disk.halted = {} ELSE report.halt = {}
    /\ op' = "suspending"
    /\ UNCHANGED <<tree, disk, mem, loop, pass, opRunning, snap, edits, faults, answers, ghosts>>

\* The loop is stopped, and its end waited for.
Suspend ==
    /\ op = "suspending" /\ pc \in {"off", "top"}
    /\ opRunning' = (pc = "top")
    /\ op' = "suspended"
    /\ Fresh(FALSE)
    /\ UNCHANGED <<tree, disk, snap, counters, held, rolled>>

\* Broken variant of NoteRewound: the note never reaches the file.
NoteRewound_Unwritten ==
    /\ op = "suspended"
    /\ op' = "noted"
    /\ UNCHANGED <<tree, disk, mem, loop, pass, opRunning, snap, counters, ghosts>>

\* mark_rewound: refused over a running syncer, which would save over it.
NoteRewound ==
    /\ op = "suspended"
    /\ \/ /\ pc = "off"
          /\ disk' = [disk EXCEPT !.owed = TRUE]
          /\ op' = "noted" /\ UNCHANGED faults
       \/ /\ pc # "off"
          /\ op' = "failed" /\ UNCHANGED <<disk, faults>>
       \/ /\ Fault
          /\ op' = "failed" /\ UNCHANGED disk
    /\ UNCHANGED <<tree, mem, loop, pass, opRunning, snap, edits, rewinds, answers, ghosts>>

\* The guest's disk goes back to the snapshot: all of it, or, when the restore
\* fails, nobody can tell how much of it.
Rewind ==
    /\ op = "noted"
    /\ op' = "rewound"
    /\ \E back \in SUBSET Path :
         /\ \/ back = Path /\ UNCHANGED faults
            \/ back # Path /\ Fault
         /\ tree' = [tree EXCEPT !["guest"] = [p \in Path |-> IF p \in back THEN snap[p] ELSE @[p]]]
         /\ rolled' = rolled \cup back
    /\ watch' = IF watch = "open" THEN "dead" ELSE watch
    /\ raced' = (raced \/ pass.stage = "ready")
    /\ UNCHANGED <<disk, mem, pc, due, rescan, seeded, registered, lost, flight, dirty,
                   resolved, report, pass, opRunning, snap, edits, rewinds, answers, held, missed>>

\* The bracket is closed on the way out, whatever happened in between.
Resume ==
    /\ op \in {"rewound", "failed"}
    /\ op' = "none" /\ opRunning' = FALSE
    /\ IF opRunning
       THEN pc \in {"off", "top"} /\ Fresh(TRUE)
       ELSE UNCHANGED <<mem, loop, pass, raced, missed>>
    /\ UNCHANGED <<tree, disk, snap, counters, held, rolled>>

-----------------------------------------------------------------------------
Environment ==
    \/ \E side \in Side, p \in Path : Write(side, p)
    \/ Ask
    \/ \E p \in Path, winner \in Side : Resolve(p, winner)
    \/ Start \/ Stop \/ Crash
    \/ \E side \in Side : LoseCoverage(side)
    \/ WatchDies
    \/ PassFails \/ Fails \/ SaveFails
    \/ Capture \/ \E discard \in BOOLEAN : BeginRestore(discard)

Waking ==
    \/ \E side \in Side, p \in Path : Settle(side, p)
    \/ HearOfLoss \/ DropWatch

Working ==
    \/ OpenWatch \/ BeginReseed \/ BeginPass \/ Probe
    \/ (\E p \in Path : AdoptHost(p)) \/ AdoptGuest
    \/ (\E a \in pass.todo : Transfer(a)) \/ Recheck \/ Commit \/ Record
    \/ FinishPass \/ FinishReseed

Restoring == Suspend \/ NoteRewound \/ Rewind \/ Resume

Next == Environment \/ Waking \/ Working \/ Restoring

Spec == Init /\ [][Next]_vars

\* The loop runs on: it takes its next step, hears what the watches say when
\* it comes back to its select, and a restore command goes through.
Fairness ==
    /\ WF_vars(Working)
    /\ WF_vars(Restoring)
    /\ SF_vars(HearOfLoss) /\ SF_vars(DropWatch)
    /\ \A side \in Side, p \in Path : SF_vars(Settle(side, p))

FairSpec == Spec /\ Fairness

-----------------------------------------------------------------------------
(* Properties. *)

TreesOK ==
    /\ tree \in [Side -> [Path -> Copy \cup {None}]]
    /\ snap \in [Path -> Copy \cup {None}] \cup {None}
    /\ held \in [Side -> [Path -> SUBSET Data]]

LedgersOK == disk \in Ledgers /\ mem \in Ledgers

LoopOK ==
    /\ pc \in {"off", "top", "read", "apply"}
    /\ due \in BOOLEAN /\ rescan \in BOOLEAN /\ seeded \in BOOLEAN
    /\ watch \in {"none", "open", "dead"}
    /\ registered \in BOOLEAN /\ lost \in BOOLEAN
    /\ flight \in [Side -> SUBSET Path] /\ dirty \in [Side -> SUBSET Path]
    /\ resolved \in [Path -> Side \cup {None}]
    /\ report \in [halt : SUBSET Path, clean : BOOLEAN]

CommandOK ==
    /\ op \in {"none", "suspending", "suspended", "noted", "failed", "rewound"}
    /\ opRunning \in BOOLEAN

CountersOK ==
    /\ edits \in 0..MaxEdits /\ faults \in 0..MaxFaults
    /\ rewinds \in 0..MaxRewinds /\ answers \in 0..MaxAnswers

HistoryOK ==
    raced \in BOOLEAN /\ rolled \in SUBSET Path /\ missed \in [Side -> SUBSET Path]

\* Every variable stays in its type.
TypeOK ==
    /\ TreesOK /\ LedgersOK /\ LoopOK /\ pass \in Passes
    /\ CommandOK /\ CountersOK /\ HistoryOK

\* The ledger never invents an agreement: whatever it records for a path, in
\* memory or on disk, both sides have really held (apply: "every entry in it by
\* the time this returns is one whose rename completed").
LedgerTruth ==
    \A p \in Path, ledger \in {mem, disk} :
        ledger.agreed[p] # None =>
            \A side \in Side : ledger.agreed[p].data \in held[side][p]

\* No work is lost unseen: when the syncer replaces or removes a copy, the
\* other side has held that very content, or the developer said the other side
\* wins, or the guest is being re-seeded, or a writer came in between the last
\* verification and the rename (the race verify_copy only narrows).
NoUnseenLoss ==
    [][\A side \in Side, p \in Path :
          /\ pass.stage = "ready" /\ pass' # pass
          /\ tree[side][p] # None
          /\ tree'[side][p] = None \/ tree'[side][p].data # tree[side][p].data
          => \/ tree[side][p].data \in held[Other(side)][p]
             \/ pass.taken[p] = Other(side)
             \/ pass.mode = "reseed" /\ side = "guest"
             \/ raced]_vars

\* A rewound guest tree never reaches the host: the syncer changes nothing on
\* the host at a path whose guest state is one a restore brought back, until a
\* re-seed has replaced it, removed it or found the host to hold the same
\* (unless the developer says so): "old guest state cannot come back".
RewoundStaysOff ==
    [][\A p \in rolled :
          pass.stage = "ready" /\ pass' # pass /\ tree'["host"][p] # tree["host"][p]
            => pass.taken[p] = "guest"]_vars

\* While any path is still as a restore left it, the re-seed is owed on disk
\* and in the loop's memory, whatever crashed or failed on the way.
RewindNoted ==
    rolled # {} => disk.owed /\ (pc # "off" => mem.owed)

Content(copy) == IF copy = None THEN None ELSE copy.data

\* The loop has no pass to make, no watch to open and nothing still to hear of;
\* it is quiet when, besides, no path is owed and none is halted.
AtRest ==
    /\ pc = "top" /\ ~due /\ ~rescan /\ ~mem.owed /\ watch = "open" /\ ~lost
    /\ flight = NoPaths

Quiet == AtRest /\ dirty = NoPaths /\ mem.halted = {}

InStep(p) == Content(tree["host"][p]) = Content(tree["guest"][p])

Oversize(p) == \E side \in Side : Content(tree[side][p]) \in Big

\* A directory the syncer may not remove, for unsynced files are in it.
LeftStanding(p) == p \in Standing /\ \E side \in Side : Content(tree[side][p]) \in Dirs

\* A quiet syncer is one whose two sides are in step: no save is forgotten,
\* through failed passes, lost coverage, halts, restarts and re-seeds, but in
\* the windows no watch and no walk covers (and for a file over the cap, and a
\* directory left standing, which are reported by name).
QuietInStep ==
    Quiet => \A p \in Path \ (missed["host"] \cup missed["guest"]) :
                 InStep(p) \/ Oversize(p) \/ LeftStanding(p)

\* While a halt stands, on whatever path, the syncer changes neither side of a
\* path the developer has not answered for (while_halted).
HaltFreezes ==
    [][\A side \in Side, p \in Path :
          /\ pass.stage = "ready" /\ pass' # pass /\ pass.halt # {}
          /\ tree'[side][p] # tree[side][p]
          => pass.taken[p] # None]_vars

\* A halt the loop knows of is in the ledger file, where a stopped lab's
\* snapshot verbs look for it, or a pass that will write it there is due.
HaltOnRecord ==
    pc = "top" /\ mem.halted # {} => disk.halted = mem.halted \/ due

\* "Resolving part of a withheld mass deletion must not release the rest":
\* while the guest's tree stays wiped, a deletion the guard withheld is made on
\* the host only where the developer answered for that path.
WithheldStays ==
    [][\A p \in mem.halted :
          /\ pass.stage = "ready" /\ pass' # pass
          /\ \A q \in Path : tree["guest"][q] = None
          /\ tree["host"][p] # None /\ tree'["host"][p] = None
          => pass.taken[p] = "guest"]_vars

\* Once the developers pause and nothing more fails, the loop comes to rest,
\* with every action carried out or the whole workspace halted (what it could
\* not read it has named, and keeps owed).
Settles == []<>(AtRest \/ pc = "off")
=============================================================================
