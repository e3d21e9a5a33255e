------------------------------- MODULE LabPlan -------------------------------
(***************************************************************************)
(* plan(): the schedule of an `up' or a `down' over some machines of a lab *)
(* (labd/plan.rs), one step per round of its three loops.  The lab, the    *)
(* subset and the direction are any; a lab file is validated before, but   *)
(* the plan does not count on it.                                          *)
(***************************************************************************)
EXTENDS Naturals, Sequences

CONSTANT Machine

VARIABLES
    dependsOn, after,   \* the lab's two ordering keys
    subset,             \* the machines asked for; none means the whole lab
    direction,
    phase,
    wanted, queue,      \* the machines pulled in, and those yet to be followed
    remaining, done,    \* the machines not yet, and already, in a wave
    waves,
    waiting             \* the machines not yet cleared to provision

input == <<dependsOn, after, subset, direction>>
vars  == <<input, phase, wanted, queue, remaining, done, waves, waiting>>

\* Who must be in an earlier wave than m: its dependencies, or, stopping, its
\* dependents.
Edges(m) == IF direction = "up" THEN dependsOn[m] ELSE {n \in Machine : m \in dependsOn[n]}

\* Broken variant of Follows: a partial `up' forgets depends_on_provision.
Follows_DependsOn(m) == Edges(m)

\* Broken variant of Follows: a `down' follows depends_on_provision too.
Follows_BothKeys(m) == Edges(m) \cup after[m]

\* Whom m pulls in.
Follows(m) == IF direction = "up" THEN dependsOn[m] \cup after[m] ELSE Edges(m)

TypeOK ==
    /\ dependsOn \in [Machine -> SUBSET Machine] /\ after \in [Machine -> SUBSET Machine]
    /\ subset \subseteq Machine /\ direction \in {"up", "down"}
    /\ phase \in {"closing", "waving", "checking", "planned", "refused"}
    /\ wanted \subseteq Machine /\ queue \subseteq wanted
    /\ remaining \subseteq Machine /\ done \subseteq Machine /\ waiting \subseteq Machine
    /\ waves \in Seq(SUBSET Machine)

Init ==
    /\ dependsOn \in [Machine -> SUBSET Machine] /\ after \in [Machine -> SUBSET Machine]
    /\ subset \in SUBSET Machine /\ direction \in {"up", "down"}
    /\ phase = "closing"
    /\ wanted = IF subset = {} THEN Machine ELSE subset
    /\ queue = subset
    /\ remaining = {} /\ done = {} /\ waves = <<>> /\ waiting = {}

\* Broken variant of Follow: a machine is queued whether or not it was.
Follow_Requeues(m) ==
    /\ phase = "closing" /\ m \in queue
    /\ wanted' = wanted \cup Follows(m)
    /\ queue' = (queue \ {m}) \cup Follows(m)
    /\ UNCHANGED <<input, phase, remaining, done, waves, waiting>>

Follow(m) ==
    /\ phase = "closing" /\ m \in queue
    /\ wanted' = wanted \cup Follows(m)
    /\ queue' = (queue \ {m}) \cup (Follows(m) \ wanted)
    /\ UNCHANGED <<input, phase, remaining, done, waves, waiting>>

Targeted ==
    /\ phase = "closing" /\ queue = {}
    /\ phase' = "waving" /\ remaining' = wanted
    /\ UNCHANGED <<input, wanted, queue, done, waves, waiting>>

\* Broken variant of Clear: one dependency of several is enough.
Clear_Any(m) == Edges(m) \cap wanted = {} \/ Edges(m) \cap done # {}

\* Everything in scope that m must come after is in an earlier wave.
Clear(m) == Edges(m) \cap wanted \subseteq done

Wave ==
    LET wave == {m \in remaining : Clear(m)} IN
    /\ phase = "waving" /\ remaining # {} /\ wave # {}
    /\ remaining' = remaining \ wave /\ done' = done \cup wave
    /\ waves' = Append(waves, wave)
    /\ UNCHANGED <<input, phase, wanted, queue, waiting>>

WaveDeadlock ==
    /\ phase = "waving" /\ remaining # {} /\ \A m \in remaining : ~Clear(m)
    /\ phase' = "refused"
    /\ UNCHANGED <<input, wanted, queue, remaining, done, waves, waiting>>

\* A `down' has no configuration steps to order.
Waved ==
    /\ phase = "waving" /\ remaining = {}
    /\ IF direction = "up" THEN phase' = "checking" /\ waiting' = wanted
                           ELSE phase' = "planned" /\ UNCHANGED waiting
    /\ UNCHANGED <<input, wanted, queue, remaining, done, waves>>

\* provisioning_deadlock.
Provisionable == {m \in waiting : after[m] \subseteq wanted \ waiting}

ProvisionRound ==
    /\ phase = "checking" /\ Provisionable # {}
    /\ waiting' = waiting \ Provisionable
    /\ UNCHANGED <<input, phase, wanted, queue, remaining, done, waves>>

\* Broken variant of ProvisionDeadlock: the last round is taken for success.
ProvisionDeadlock_Passes ==
    /\ phase = "checking" /\ Provisionable = {}
    /\ phase' = "planned"
    /\ UNCHANGED <<input, wanted, queue, remaining, done, waves, waiting>>

ProvisionDeadlock ==
    /\ phase = "checking" /\ waiting # {} /\ Provisionable = {}
    /\ phase' = "refused"
    /\ UNCHANGED <<input, wanted, queue, remaining, done, waves, waiting>>

Planned ==
    /\ phase = "checking" /\ waiting = {}
    /\ phase' = "planned"
    /\ UNCHANGED <<input, wanted, queue, remaining, done, waves, waiting>>

\* The schedule is made, or refused, once.
Over == phase \in {"planned", "refused"} /\ UNCHANGED vars

Step ==
    \/ \E m \in Machine : Follow(m)
    \/ Targeted \/ Wave \/ WaveDeadlock \/ Waved
    \/ ProvisionRound \/ ProvisionDeadlock \/ Planned

Next == Step \/ Over

Spec == Init /\ [][Next]_vars

-----------------------------------------------------------------------------
(* Properties. *)

\* No machine of the schedule is in the same wave as, or an earlier one than,
\* a machine it must come after; every target is in exactly one wave.  What `up'
\* starts together, and `down' stops together, never depends on each other.
Ordered ==
    phase \in {"checking", "planned"} =>
        /\ \A m \in wanted : \E i \in 1 .. Len(waves) : m \in waves[i]
        /\ \A i \in 1 .. Len(waves) : \A m \in waves[i] :
               /\ m \in wanted
               /\ \A d \in Edges(m) \cap wanted : \E j \in 1 .. i - 1 : d \in waves[j]
               /\ \A j \in 1 .. Len(waves) : m \in waves[j] => j = i

\* Nothing outside of c has to come along with a machine of c.
Complete(c) ==
    IF direction = "up" THEN \A m \in c : dependsOn[m] \cup after[m] \subseteq c
    ELSE \A n \in Machine \ c : dependsOn[n] \cap c = {}

\* A partial `up' or `down' covers what it was asked for and everything that
\* pulls in, so every name a machine's steps wait for is in the plan.
Closed == phase # "closing" => subset \subseteq wanted /\ Complete(wanted)

\* ... and nothing else: `vmlab up web' starts no machine that web can do without.
Least ==
    phase # "closing" /\ subset # {} =>
        \A c \in SUBSET Machine : subset \subseteq c /\ Complete(c) => wanted \subseteq c

\* Machines each of which must come after another one of them.
KnotOfAfter(k)   == k # {} /\ \A m \in k : after[m] \cap k # {}
KnotOfEdges(k)   == k # {} /\ \A m \in k : Edges(m) \cap k # {}

\* plan() refuses a schedule that would wait for ever, and no other.
RefusesKnots ==
    /\ phase = "planned" =>
           \A k \in SUBSET wanted : ~KnotOfEdges(k) /\ (direction = "up" => ~KnotOfAfter(k))
    /\ phase = "refused" =>
           \E k \in SUBSET wanted : KnotOfEdges(k) \/ (direction = "up" /\ KnotOfAfter(k))
\* The loop under way is over for good.
Advances ==
    \/ phase = "closing" /\ phase' = "waving"
    \/ phase = "waving" /\ phase' = "checking"
    \/ phase' \in {"planned", "refused"} /\ phase \notin {"planned", "refused"}

Shrinks(before, now) == now \subseteq before /\ now # before

\* One machine more is pulled in, or one fewer is left to look at.
Narrows ==
    /\ phase' = phase /\ wanted \subseteq wanted'
    /\ \/ wanted' # wanted
       \/ Shrinks(queue, queue')
       \/ queue' = queue /\ Shrinks(remaining, remaining')
       \/ queue' = queue /\ Shrinks(waiting, waiting')

\* The loops end, on a lab with a cycle too: every round brings the next loop,
\* or pulls a machine in, or leaves one machine fewer to look at, and no round
\* undoes what an earlier one brought.
Progresses == [][Advances \/ Narrows]_vars
=============================================================================
