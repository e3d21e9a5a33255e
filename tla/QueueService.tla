----------------------------- MODULE QueueService -----------------------------
(***************************************************************************)
(* What a virtio device promises its driver and the machine's snapshots:   *)
(* every request put on a queue is served once, its completion reaches the *)
(* driver, and nothing is served while the device is still.                *)
(***************************************************************************)
EXTENDS Naturals

CONSTANTS
    Queue,          \* the device's queues
    Size            \* how many requests each queue holds

VARIABLES
    waiting,        \* requests on each queue not served yet
    done,           \* served, and the driver has not taken the completion
    still           \* the device is quiesced for a snapshot

vars == <<waiting, done, still>>

Init ==
    /\ waiting = [q \in Queue |-> 0]
    /\ done = [q \in Queue |-> 0]
    /\ still = FALSE

Submit(q) ==
    /\ waiting[q] + done[q] < Size[q]
    /\ waiting' = [waiting EXCEPT ![q] = @ + 1]
    /\ UNCHANGED <<done, still>>

Serve(q) ==
    /\ ~still
    /\ waiting[q] > 0
    /\ waiting' = [waiting EXCEPT ![q] = @ - 1]
    /\ done' = [done EXCEPT ![q] = @ + 1]
    /\ UNCHANGED still

Take(q) ==
    /\ done[q] > 0
    /\ done' = [done EXCEPT ![q] = @ - 1]
    /\ UNCHANGED <<waiting, still>>

Quiesce == still' = TRUE /\ UNCHANGED <<waiting, done>>

Resume == still' = FALSE /\ UNCHANGED <<waiting, done>>

\* The driver starts over with empty queues.
Reset ==
    /\ waiting' = [q \in Queue |-> 0]
    /\ done' = [q \in Queue |-> 0]
    /\ UNCHANGED still

Next ==
    \/ \E q \in Queue : Submit(q) \/ Serve(q) \/ Take(q)
    \/ Quiesce \/ Resume \/ Reset

\* A waiting request is served, and a completion taken, although snapshots
\* keep interrupting both, unless the driver starts over.
Fairness == \A q \in Queue : SF_vars(Serve(q) \/ Reset) /\ SF_vars(Take(q) \/ Reset)

Spec == Init /\ [][Next]_vars /\ Fairness
=============================================================================
