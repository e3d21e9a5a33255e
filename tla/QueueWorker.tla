------------------------------ MODULE QueueWorker ------------------------------
(***************************************************************************)
(* A virtio block device behind its queue worker (virtio/worker.rs,        *)
(* block.rs) and the PCI transport (virtio/pci.rs).  The vCPU that writes  *)
(* the notify register only marks the queue and wakes the worker, one      *)
(* thread that serves the queues; a reset, and a snapshot of the machine,  *)
(* wait for the worker with a barrier.                                     *)
(*                                                                         *)
(* The transport is a `&mut self': one caller at a time, a vCPU or the     *)
(* snapshot operation.  Ring indices wrap at IndexMod, 2^16 in the code.   *)
(* VIRTIO_F_EVENT_IDX is negotiated.  The guest's driver and the           *)
(* virtio_queue library are external.                                      *)
(***************************************************************************)
EXTENDS Naturals, Sequences

CONSTANTS
    NumQueues,      \* how many queues the device has
    Size,           \* how many requests each queue holds
    IndexMod        \* where the ring indices wrap

Queue == 0 .. NumQueues - 1

Index == 0 .. IndexMod - 1

ASSUME QueueAssumption == NumQueues \in Nat \ {0}

ASSUME IndexAssumption == IndexMod \in Nat \ {0}

\* A ring holds at most half of what its indices can count.
ASSUME SizeAssumption ==
    Size \in [Queue -> Nat \ {0}] /\ \A q \in Queue : 2 * Size[q] <= IndexMod

VARIABLES
    avail, used,            \* the rings' indices, in guest memory
    availEvent, usedEvent,  \* where each side asks to be notified
    seen,                   \* the completions the driver has taken
    submit,                 \* where the driver's submission on a queue is
    handler,                \* where its interrupt handler for a queue is
    irq,                    \* the queues whose interrupt is raised
    parked,                 \* the vCPUs are parked for a snapshot
    activated,              \* the transport handed its queues over
    handle,                 \* the device's interrupt handle
    next, added,            \* the device's queues: next_avail and num_added
    pending, scheduled,     \* struct Pending
    chan,                   \* the commands sent to the worker
    caller, calledFor,      \* where the transport's caller is, for which queue
    image,                  \* what the snapshot has saved of the device
    worker, index, paused,  \* where the worker is, and at which queue
    kicked                  \* the queues notified since the last reset

guest     == <<avail, availEvent, usedEvent, seen, submit, handler>>
device    == <<handle, next, added>>
transport == <<activated, parked, caller, calledFor, image, kicked>>
thread    == <<worker, index, paused>>
vars == <<guest, used, irq, device, transport, pending, scheduled, chan, thread>>

Zero == [q \in Queue |-> 0]

Succ(i) == IF i = IndexMod - 1 THEN 0 ELSE i + 1

\* How far a is ahead of b, in wrapping arithmetic.
Ahead(a, b) == IF a >= b THEN a - b ELSE (a + IndexMod) - b

Stages == {"pop", "complete", "arm", "recheck", "needs", "notify"}

\* The worker holds the device's lock.
DeviceHeld == worker \in Stages

Init ==
    /\ avail = Zero /\ used = Zero /\ availEvent = Zero /\ usedEvent = Zero
    /\ seen = Zero
    /\ submit = [q \in Queue |-> "idle"]
    /\ handler = [q \in Queue |-> "idle"]
    /\ irq = {}
    /\ parked = FALSE /\ activated = FALSE
    /\ handle = "none" /\ next = Zero /\ added = Zero
    /\ pending = {} /\ scheduled = FALSE /\ chan = <<>>
    /\ caller = "idle" /\ calledFor = 0 /\ image = <<>>
    /\ worker = "recv" /\ index = 0 /\ paused = FALSE
    /\ kicked = {}
-------------------------------------------------------------------------------
(* The guest's driver: it publishes a request, reads where the device asks   *)
(* to be kicked, and kicks.  External.                                       *)

\* Bound: one call of process_queue serves fewer requests than num_added counts,
\* 65,535 in the code.
WithinCount(q) == added[q] + Ahead(avail[q], used[q]) < IndexMod - 1

Publish(q) ==
    /\ ~parked /\ activated /\ submit[q] = "idle"
    /\ Ahead(avail[q], seen[q]) < Size[q] /\ WithinCount(q)
    /\ avail' = [avail EXCEPT ![q] = Succ(@)]
    /\ submit' = [submit EXCEPT ![q] = "check"]
    /\ UNCHANGED <<availEvent, usedEvent, seen, handler, used, irq, device,
                   transport, pending, scheduled, chan, thread>>

\* The device asked to be told of the request just published.
KickWanted(q) == Succ(availEvent[q]) = avail[q]

Check(q) ==
    /\ ~parked /\ submit[q] = "check"
    /\ submit' = [submit EXCEPT ![q] = IF KickWanted(q) THEN "kick" ELSE "idle"]
    /\ UNCHANGED <<avail, availEvent, usedEvent, seen, handler, used, irq, device,
                   transport, pending, scheduled, chan, thread>>

(* Its interrupt handler takes every completion, asks for the next interrupt *)
(* and looks again.                                                          *)

Interrupted(q) ==
    /\ ~parked /\ activated /\ q \in irq /\ handler[q] = "idle"
    /\ irq' = irq \ {q}
    /\ handler' = [handler EXCEPT ![q] = "take"]
    /\ UNCHANGED <<avail, availEvent, usedEvent, seen, submit, used, device,
                   transport, pending, scheduled, chan, thread>>

TakeUsed(q) ==
    /\ ~parked /\ handler[q] = "take"
    /\ IF seen[q] # used[q]
       THEN seen' = [seen EXCEPT ![q] = Succ(@)] /\ UNCHANGED handler
       ELSE handler' = [handler EXCEPT ![q] = "enable"] /\ UNCHANGED seen
    /\ UNCHANGED <<avail, availEvent, usedEvent, submit, used, irq, device,
                   transport, pending, scheduled, chan, thread>>

AskInterrupt(q) ==
    /\ ~parked /\ handler[q] = "enable"
    /\ usedEvent' = [usedEvent EXCEPT ![q] = seen[q]]
    /\ handler' = [handler EXCEPT ![q] = "look"]
    /\ UNCHANGED <<avail, availEvent, seen, submit, used, irq, device,
                   transport, pending, scheduled, chan, thread>>

LookAgain(q) ==
    /\ ~parked /\ handler[q] = "look"
    /\ handler' = [handler EXCEPT ![q] = IF seen[q] # used[q] THEN "take" ELSE "idle"]
    /\ UNCHANGED <<avail, availEvent, usedEvent, seen, submit, used, irq, device,
                   transport, pending, scheduled, chan, thread>>

\* The driver lets no submission and no handler run across a reset.
DriverIdle == \A q \in Queue : submit[q] = "idle" /\ handler[q] = "idle"
-------------------------------------------------------------------------------
(* The transport's caller.                                                   *)

Call(step) == caller' = step /\ UNCHANGED calledFor

\* bar_write to the notify register, and the store of QueueWorker::queue_notify.
Notify(q) ==
    /\ caller = "idle" /\ ~parked /\ activated /\ submit[q] = "kick"
    /\ pending' = pending \union {q}
    /\ caller' = "stored" /\ calledFor' = q
    /\ kicked' = kicked \union {q}
    /\ UNCHANGED <<guest, used, irq, device, parked, activated, image,
                   scheduled, chan, thread>>

\* The vCPU leaves the register write.
Return ==
    /\ submit' = [submit EXCEPT ![calledFor] = "idle"]
    /\ caller' = "idle" /\ calledFor' = 0

Schedule ==
    /\ caller = "stored"
    /\ scheduled' = TRUE
    /\ IF scheduled THEN Return
                    ELSE Call("send") /\ UNCHANGED submit
    /\ UNCHANGED <<avail, availEvent, usedEvent, seen, handler, used, irq, device,
                   activated, parked, image, kicked, pending, chan, thread>>

SendKick ==
    /\ caller = "send"
    /\ chan' = Append(chan, "kick")
    /\ Return
    /\ UNCHANGED <<avail, availEvent, usedEvent, seen, handler, used, irq, device,
                   activated, parked, image, kicked, pending, scheduled, thread>>

\* virtio_reset: the epoch moves on, so the handle given to the device is stale.
Outdated == IF handle = "none" THEN "none" ELSE "stale"

\* Broken variant of StatusZero: a reset that does not wait for the worker.
StatusZero_NoBarrier ==
    /\ caller = "idle" /\ ~parked /\ activated /\ DriverIdle
    /\ activated' = FALSE
    /\ handle' = Outdated
    /\ kicked' = {}
    /\ Call("clear")
    /\ UNCHANGED <<guest, used, irq, next, added, parked, image, pending, scheduled,
                   chan, thread>>

\* The driver writes 0 to device_status; QueueWorker::reset begins.
StatusZero ==
    /\ caller = "idle" /\ ~parked /\ activated /\ DriverIdle
    /\ activated' = FALSE
    /\ handle' = Outdated
    /\ kicked' = {}
    /\ chan' = Append(chan, "barrier")
    /\ Call("barrier")
    /\ UNCHANGED <<guest, used, irq, next, added, parked, image, pending, scheduled,
                   thread>>

\* The worker's answer to a barrier or a quiesce: a rendezvous.
Rendezvous ==
    /\ worker = "ack"
    /\ \/ caller = "barrier" /\ Call("clear")
       \/ caller = "quiesce" /\ Call("still")
    /\ worker' = "recv"
    /\ UNCHANGED <<guest, used, irq, device, activated, parked, image, kicked,
                   pending, scheduled, chan, index, paused>>

ClearPending ==
    /\ caller = "clear"
    /\ pending' = {}
    /\ Call("drop")
    /\ UNCHANGED <<guest, used, irq, device, activated, parked, image, kicked,
                   scheduled, chan, thread>>

\* The wrapped device forgets its queues, its memory and its handle.
DeviceReset ==
    /\ caller = "drop" /\ ~DeviceHeld
    /\ handle' = "none" /\ next' = Zero /\ added' = Zero
    /\ Call(IF parked THEN "restore" ELSE "idle")
    /\ UNCHANGED <<guest, used, irq, activated, parked, image, kicked,
                   pending, scheduled, chan, thread>>

\* The driver lays out fresh rings and writes DRIVER_OK.
Activate ==
    /\ caller = "idle" /\ ~parked /\ ~activated /\ ~DeviceHeld
    /\ avail' = Zero /\ used' = Zero /\ availEvent' = Zero /\ usedEvent' = Zero
    /\ seen' = Zero /\ irq' = {}
    /\ activated' = TRUE
    /\ handle' = "current" /\ next' = Zero /\ added' = Zero
    /\ UNCHANGED <<submit, handler, parked, caller, calledFor, image, kicked,
                   pending, scheduled, chan, thread>>

\* common_bytes holds the interrupt lock while it reads the capabilities, which
\* the worker's wrapper has cached: it never waits for the device.
ReadCommon ==
    /\ caller = "idle" /\ ~parked
    /\ Call("caps")
    /\ UNCHANGED <<guest, used, irq, device, activated, parked, image, kicked,
                   pending, scheduled, chan, thread>>

ReadCapabilities ==
    /\ caller = "caps"
    /\ Call("idle")
    /\ UNCHANGED <<guest, used, irq, device, activated, parked, image, kicked,
                   pending, scheduled, chan, thread>>

\* Broken variant of Freeze: the quiesce overtakes the commands sent before it.
Freeze_Overtakes ==
    /\ caller = "idle" /\ ~parked
    /\ parked' = TRUE
    /\ chan' = <<"quiesce">> \o chan
    /\ Call("quiesce")
    /\ UNCHANGED <<guest, used, irq, device, activated, image, kicked, pending,
                   scheduled, thread>>

\* stop_for_snapshot, and QuiescedDevices::new.
Freeze ==
    /\ caller = "idle" /\ ~parked
    /\ parked' = TRUE
    /\ chan' = Append(chan, "quiesce")
    /\ Call("quiesce")
    /\ UNCHANGED <<guest, used, irq, device, activated, image, kicked, pending,
                   scheduled, thread>>

\* save_state keeps the ring positions; guest memory is saved beside it.
Save ==
    /\ caller = "still" /\ image = <<>>
    /\ image' = [next |-> next, activated |-> activated]
    /\ UNCHANGED <<guest, used, irq, device, activated, parked, caller, calledFor, kicked,
                   pending, scheduled, chan, thread>>

\* A load that failed puts the checkpoint back: restore_transport resets the
\* device first.
Reload ==
    /\ caller = "still" /\ image # <<>>
    /\ activated' = FALSE
    /\ handle' = Outdated
    /\ chan' = Append(chan, "barrier")
    /\ Call("barrier")
    /\ UNCHANGED <<guest, used, irq, next, added, parked, image, kicked, pending,
                   scheduled, thread>>

\* restore_wrapped_state: the positions come back, and the device is activated
\* with a new handle when it was active.
Restore ==
    /\ caller = "restore" /\ ~DeviceHeld
    /\ next' = image.next
    /\ activated' = image.activated
    /\ handle' = IF image.activated THEN "current" ELSE "none"
    /\ Call("still")
    /\ UNCHANGED <<guest, used, irq, added, parked, image, kicked, pending,
                   scheduled, chan, thread>>

\* Broken variant of Thaw: the worker is not told.
Thaw_Silent ==
    /\ caller = "still"
    /\ parked' = FALSE /\ image' = <<>>
    /\ Call("idle")
    /\ UNCHANGED <<guest, used, irq, device, activated, kicked, pending, scheduled,
                   chan, thread>>

\* QuiescedDevices is dropped: the worker is told, not awaited, and the vCPUs run.
Thaw ==
    /\ caller = "still"
    /\ parked' = FALSE /\ image' = <<>>
    /\ chan' = Append(chan, "resume")
    /\ Call("idle")
    /\ UNCHANGED <<guest, used, irq, device, activated, kicked, pending, scheduled,
                   thread>>
-------------------------------------------------------------------------------
(* The worker's thread.                                                      *)

Receive(command) ==
    /\ worker = "recv" /\ chan # <<>>
    /\ Head(chan) = command
    /\ chan' = Tail(chan)

Drain == worker' = "drain" /\ index' = 0

\* Broken variant of TakeKick: scheduled stays set, so the next mark sends no kick.
TakeKick_Scheduled ==
    /\ Receive("kick")
    /\ IF paused THEN UNCHANGED <<worker, index>> ELSE Drain
    /\ UNCHANGED <<guest, used, irq, device, transport, pending, scheduled, paused>>

TakeKick ==
    /\ Receive("kick")
    /\ scheduled' = FALSE
    /\ IF paused THEN UNCHANGED <<worker, index>> ELSE Drain
    /\ UNCHANGED <<guest, used, irq, device, transport, pending, paused>>

TakeBarrier ==
    /\ Receive("barrier")
    /\ worker' = "ack"
    /\ UNCHANGED <<guest, used, irq, device, transport, pending, scheduled, index, paused>>

TakeQuiesce ==
    /\ Receive("quiesce")
    /\ paused' = TRUE
    /\ worker' = "ack"
    /\ UNCHANGED <<guest, used, irq, device, transport, pending, scheduled, index>>

TakeResume ==
    /\ Receive("resume")
    /\ paused' = FALSE
    /\ Drain
    /\ UNCHANGED <<guest, used, irq, device, transport, pending, scheduled>>

\* Pending::drain, at one queue: the flag is taken before the device is locked.
Swap ==
    /\ worker = "drain" /\ index \in Queue
    /\ pending' = pending \ {index}
    /\ IF index \in pending
       THEN worker' = "lock" /\ UNCHANGED index
       ELSE index' = index + 1 /\ UNCHANGED worker
    /\ UNCHANGED <<guest, used, irq, device, transport, scheduled, chan, paused>>

Drained ==
    /\ worker = "drain" /\ index \notin Queue
    /\ worker' = "recv" /\ index' = 0
    /\ UNCHANGED <<guest, used, irq, device, transport, pending, scheduled, chan, paused>>

NextQueue == worker' = "drain" /\ index' = index + 1

\* process_queue: a device without memory has nothing to serve.
Enter ==
    /\ worker = "lock"
    /\ IF handle = "none" THEN NextQueue ELSE worker' = "pop" /\ UNCHANGED index
    /\ UNCHANGED <<guest, used, irq, device, transport, pending, scheduled, chan, paused>>

Pop ==
    /\ worker = "pop"
    /\ IF next[index] # avail[index]
       THEN next' = [next EXCEPT ![index] = Succ(@)] /\ worker' = "complete"
       ELSE worker' = "arm" /\ UNCHANGED next
    /\ UNCHANGED <<guest, used, irq, handle, added, transport, pending, scheduled, chan,
                   index, paused>>

\* handle_chain and add_used.
Complete ==
    /\ worker = "complete"
    /\ used' = [used EXCEPT ![index] = Succ(@)]
    /\ added' = [added EXCEPT ![index] = Succ(@)]
    /\ worker' = "pop"
    /\ UNCHANGED <<guest, irq, handle, next, transport, pending, scheduled, chan, index,
                   paused>>

\* enable_notification publishes the event, and then looks again.
Arm ==
    /\ worker = "arm"
    /\ availEvent' = [availEvent EXCEPT ![index] = next[index]]
    /\ worker' = "recheck"
    /\ UNCHANGED <<avail, usedEvent, seen, submit, handler, used, irq, device, transport,
                   pending, scheduled, chan, index, paused>>

\* Broken variant of Recheck: what enable_notification finds is ignored.
Recheck_Blind ==
    /\ worker = "recheck"
    /\ worker' = "needs"
    /\ UNCHANGED <<guest, used, irq, device, transport, pending, scheduled, chan, index,
                   paused>>

Recheck ==
    /\ worker = "recheck"
    /\ worker' = IF next[index] # avail[index] THEN "pop" ELSE "needs"
    /\ UNCHANGED <<guest, used, irq, device, transport, pending, scheduled, chan, index,
                   paused>>

\* Broken variant of InterruptWanted: off by one.
InterruptWanted_Late(q) == Ahead(used[q], usedEvent[q]) < added[q]

\* needs_notification: used_event is among the completions just added.
InterruptWanted(q) == Ahead(used[q], Succ(usedEvent[q])) < added[q]

Needs ==
    /\ worker = "needs"
    /\ added' = [added EXCEPT ![index] = 0]
    /\ IF InterruptWanted(index) THEN worker' = "notify" /\ UNCHANGED index
                                 ELSE NextQueue
    /\ UNCHANGED <<guest, used, irq, handle, next, transport, pending, scheduled, chan,
                   paused>>

\* notify_queue takes the interrupt lock; a handle of an earlier epoch is mute.
NotifyQueue ==
    /\ worker = "notify" /\ caller # "caps"
    /\ irq' = IF handle = "current" THEN irq \union {index} ELSE irq
    /\ NextQueue
    /\ UNCHANGED <<guest, used, device, transport, pending, scheduled, chan, paused>>
-------------------------------------------------------------------------------
Submission(q) == Check(q) \/ Notify(q)

Handling(q) == Interrupted(q) \/ TakeUsed(q) \/ AskInterrupt(q) \/ LookAgain(q)

CallerStep ==
    \/ Schedule \/ SendKick \/ Rendezvous \/ ClearPending \/ DeviceReset
    \/ ReadCapabilities \/ Restore

WorkerStep ==
    \/ TakeKick \/ TakeBarrier \/ TakeQuiesce \/ TakeResume
    \/ Swap \/ Drained \/ Enter \/ Pop \/ Complete \/ Arm \/ Recheck \/ Needs \/ NotifyQueue

Next ==
    \/ \E q \in Queue : Publish(q) \/ Submission(q) \/ Handling(q)
    \/ CallerStep \/ StatusZero \/ Activate \/ ReadCommon
    \/ Freeze \/ Save \/ Reload \/ Thaw
    \/ WorkerStep

Spec == Init /\ [][Next]_vars

\* The caller inside a call is scheduled, and the worker's thread, which gets the
\* interrupt lock in the end.  A vCPU runs again after every snapshot and gets the
\* transport's lock in the end, so what it is about to do is done although
\* snapshots and other accesses come between.
\* A snapshot ends, and a driver that reset the device activates it.
Fairness ==
    /\ SF_vars(WorkerStep) /\ WF_vars(CallerStep) /\ SF_vars(Thaw) /\ SF_vars(Activate)
    /\ \A q \in Queue : SF_vars(Submission(q)) /\ SF_vars(Handling(q))

FairSpec == Spec /\ Fairness
-------------------------------------------------------------------------------
Command == {"kick", "barrier", "quiesce", "resume"}

RingTypes ==
    /\ avail \in [Queue -> Index] /\ used \in [Queue -> Index] /\ seen \in [Queue -> Index]
    /\ availEvent \in [Queue -> Index] /\ usedEvent \in [Queue -> Index]
    /\ next \in [Queue -> Index] /\ added \in [Queue -> Index]
    /\ image \in {<<>>} \union [next : [Queue -> Index], activated : BOOLEAN]

ControlTypes ==
    /\ submit \in [Queue -> {"idle", "check", "kick"}]
    /\ handler \in [Queue -> {"idle", "take", "enable", "look"}]
    /\ irq \subseteq Queue /\ pending \subseteq Queue /\ kicked \subseteq Queue
    /\ parked \in BOOLEAN /\ activated \in BOOLEAN
    /\ scheduled \in BOOLEAN /\ paused \in BOOLEAN
    /\ handle \in {"none", "current", "stale"}
    /\ chan \in Seq(Command)
    /\ caller \in {"idle", "stored", "send", "barrier", "clear", "drop", "restore",
                   "quiesce", "still", "caps"}
    /\ calledFor \in Queue
    /\ worker \in {"recv", "ack", "drain", "lock"} \union Stages
    /\ index \in 0 .. NumQueues

\* Type invariant.
TypeOK == RingTypes /\ ControlTypes

\* The worker is past the queues below q in its drain.
DrainsTo(q) ==
    \/ worker = "drain" /\ index <= q
    \/ worker \in {"lock"} \union Stages /\ index < q

Sent(command) == \E i \in 1 .. Len(chan) : chan[i] = command

\* A queue marked in queue_notify is drained: a wake-up is on its way to the
\* worker, about to be sent, or the worker's drain has yet to come to it.
NoLostKick ==
    \A q \in pending :
        Sent("kick") \/ Sent("resume") \/ caller \in {"stored", "send"} \/ DrainsTo(q)

\* A request on the ring has somebody who will see it: the driver about to
\* kick, a mark the worker will find, or the worker itself before its last look
\* (process_queue drains, re-enables notifications and drains again).
NoLostRequest ==
    activated =>
        \A q \in Queue : avail[q] # next[q] =>
            \/ submit[q] = "kick" \/ (submit[q] = "check" /\ KickWanted(q))
            \/ q \in pending
            \/ worker \in {"lock", "pop", "complete", "arm", "recheck"} /\ index = q

\* A completion the driver has not taken has an interrupt raised or about to be,
\* or a handler that will look again.
NoLostCompletion ==
    activated =>
        \A q \in Queue : seen[q] # used[q] =>
            \/ q \in irq \/ handler[q] # "idle"
            \/ worker \in Stages /\ index = q

\* When quiesce has returned, nothing the saved state leaves out is left over: no
\* mark, no command, no request half served, no completion not accounted for.
StillIsClean ==
    caller = "still" =>
        /\ paused /\ pending = {} /\ ~scheduled /\ chan = <<>> /\ worker = "recv"
        /\ added = Zero

\* Since a reset, the worker serves only queues the driver has kicked: a mark
\* or a drain from before the reset never reaches the new queues.
OwnKicks ==
    handle = "current" /\ worker \in {"lock"} \union Stages => index \in kicked

\* The device does what QueueService promises.
Waiting == [q \in Queue |-> Ahead(avail[q], used[q])]

Done == [q \in Queue |-> Ahead(used[q], seen[q])]

Service == INSTANCE QueueService WITH waiting <- Waiting, done <- Done, still <- paused

Serves == Service!Spec
=============================================================================
