-------------------------- MODULE QueueWorkerProofs --------------------------
(***************************************************************************)
(* Proofs about QueueWorker.  First the control of the worker and its      *)
(* callers: Control is the inductive invariant; the rings play no part in  *)
(* it.  Then the rings: Data is inductive beside Control, and the device   *)
(* implements QueueService's steps.                                        *)
(***************************************************************************)
EXTENDS QueueWorker, SequenceTheorems, TLAPS

\* Where the caller waits for the worker.
Asking == {"barrier", "quiesce"}

\* Where it has the worker to itself: parked in recv with nothing sent.
Bare == {"clear", "drop", "restore", "still"}

\* Inside QueueWorker::reset or the restore that begins with it.
Resetting == {"barrier", "clear", "drop", "restore"}

\* What the snapshot operation has done by each of its steps.
ParkInv ==
    /\ caller \in {"quiesce", "still", "restore"} => parked
    /\ parked => caller \in Asking \union Bare
    /\ ~parked \/ caller = "quiesce" => image = <<>>
    /\ parked /\ caller \in Resetting => image # <<>>

\* A barrier or a quiesce is the last command sent, and its caller waits for it.
ChanInv ==
    /\ worker = "ack" => chan = <<>> /\ caller \in Asking
    /\ caller \in Asking /\ worker # "ack" => chan # <<>> /\ chan[Len(chan)] = caller
    /\ \A i \in 1 .. Len(chan) : chan[i] \in Asking => i = Len(chan) /\ caller = chan[i]
    /\ caller \in Bare => chan = <<>> /\ worker = "recv"
    /\ parked /\ caller = "barrier" => Len(chan) <= 1 /\ worker \in {"recv", "ack"}

\* At most one kick is under way, and scheduled says whether one is.
KickInv ==
    /\ scheduled <=> (Sent("kick") \/ caller = "send")
    /\ caller = "send" => ~Sent("kick")
    /\ \A i, j \in 1 .. Len(chan) : chan[i] = "kick" /\ chan[j] = "kick" => i = j
    /\ caller \in Bare => pending = {}

\* The worker is paused from the quiesce it took to the resume it takes.
PauseInv ==
    /\ paused => worker \in {"recv", "ack"}
    /\ paused /\ ~parked => Sent("resume")
    /\ paused /\ caller = "quiesce" /\ worker # "ack" => Sent("resume")
    /\ caller = "quiesce" /\ worker = "ack" => paused
    /\ parked /\ caller # "quiesce" => paused

\* The device has queues: activated, or saved as activated.
Live == activated \/ (image # <<>> /\ image.activated)

\* What a device without queues leaves behind: nothing in the worker's hands.
LiveInv ==
    /\ activated <=> handle = "current"
    /\ ~activated /\ caller # "barrier" =>
         pending = {} /\ ~scheduled /\ worker \notin {"lock"} \union Stages
    /\ ~Live => \A q \in Queue : submit[q] = "idle" /\ handler[q] = "idle"
    /\ image # <<>> /\ caller = "still" => image.next = next /\ image.activated = activated
    /\ activated => caller \notin Resetting
    /\ handle = "none" => ~activated /\ worker \notin Stages
    /\ ~activated /\ caller \in {"idle", "caps", "quiesce", "still"} => handle = "none"
    /\ caller \in {"stored", "send"} => activated /\ submit[calledFor] = "kick"

\* Marks and drains belong to the current activation.
OwnInv ==
    activated => pending \subseteq kicked
                 /\ (worker \in {"lock"} \union Stages => index \in kicked)

\* The worker serves a queue the device has.
IndexInv == worker \in {"lock"} \union Stages => index \in Queue

\* c is appended to the commands.
Sends(c) ==
    /\ Len(chan) \in Nat /\ Len(chan') = Len(chan) + 1
    /\ \A i \in 1 .. Len(chan) : chan'[i] = chan[i]
    /\ chan'[Len(chan) + 1] = c
    /\ chan' # <<>>

\* c is taken from the front of the commands.
Receives(c) ==
    /\ Len(chan) \in Nat \ {0} /\ Len(chan') = Len(chan) - 1
    /\ \A i \in 1 .. Len(chan) - 1 : chan'[i] = chan[i + 1]
    /\ chan[1] = c
    /\ chan' = <<>> <=> Len(chan) = 1

\* The inductive invariant of the control.
Control ==
    TypeOK /\ IndexInv /\ ParkInv /\ ChanInv /\ KickInv /\ NoLostKick /\ PauseInv /\ LiveInv
    /\ OwnInv

\* Append, in the terms of Sends.
LEMMA Sending ==
    ASSUME chan \in Seq(Command), NEW c \in Command, chan' = Append(chan, c)
    PROVE  Sends(c) /\ chan' \in Seq(Command)
BY AppendProperties DEF Sends

\* Tail, in the terms of Receives.
LEMMA Receiving ==
    ASSUME NEW s \in Seq(Command), s # <<>>, NEW t, t = Tail(s)
    PROVE  /\ t \in Seq(Command)
           /\ Len(s) \in Nat \ {0} /\ Len(t) = Len(s) - 1
           /\ \A i \in 1 .. Len(s) - 1 : t[i] = s[i + 1]
           /\ s[1] = Head(s)
           /\ t = <<>> <=> Len(s) = 1
<1>1. Len(s) \in Nat /\ Len(s) # 0
  BY EmptySeq, Zenon
<1>2. /\ t \in Seq(Command) /\ Len(t) = Len(s) - 1
      /\ \A i \in 1 .. Len(s) - 1 : t[i] = s[i + 1]
  BY <1>1, HeadTailProperties, Zenon
<1>3. t = <<>> <=> Len(t) = 0
  BY <1>2, EmptySeq, ZenonT(30)
<1>4. s[1] = Head(s)
  BY HeadTailProperties
<1> QED BY <1>1, <1>2, <1>3, <1>4

\* What each action does to the commands: one that sends appends its own.
LEMMA SendKickChan == TypeOK /\ SendKick => Sends("kick") /\ chan' \in Seq(Command)
BY Sending, Zenon DEF TypeOK, ControlTypes, SendKick, Command

\* A reset sends a barrier.
LEMMA StatusZeroChan == TypeOK /\ StatusZero => Sends("barrier") /\ chan' \in Seq(Command)
BY Sending, Zenon DEF TypeOK, ControlTypes, StatusZero, Command

\* A snapshot sends a quiesce.
LEMMA FreezeChan == TypeOK /\ Freeze => Sends("quiesce") /\ chan' \in Seq(Command)
BY Sending, Zenon DEF TypeOK, ControlTypes, Freeze, Command

\* A restore sends a barrier.
LEMMA ReloadChan == TypeOK /\ Reload => Sends("barrier") /\ chan' \in Seq(Command)
BY Sending, Zenon DEF TypeOK, ControlTypes, Reload, Command

\* The end of a snapshot sends a resume.
LEMMA ThawChan == TypeOK /\ Thaw => Sends("resume") /\ chan' \in Seq(Command)
BY Sending, Zenon DEF TypeOK, ControlTypes, Thaw, Command

\* Receiving one command leaves every other one.
LEMMA StillSent ==
    ASSUME NEW c, Receives(c), NEW d, Sent(d), d # c
    PROVE  Sent(d)'
<1>1. PICK i \in 1 .. Len(chan) : chan[i] = d
  BY Zenon DEF Sent
<1>2. i # 1 /\ i - 1 \in 1 .. Len(chan) - 1 /\ (i - 1) + 1 = i
  BY <1>1 DEF Receives
<1>3. chan'[i - 1] = d /\ i - 1 \in 1 .. Len(chan')
  BY <1>1, <1>2, Zenon DEF Receives
<1> QED BY <1>3 DEF Sent

\* Receiving sends nothing.
LEMMA WasSent ==
    ASSUME NEW c, Receives(c), NEW d, Sent(d)'
    PROVE  Sent(d)
<1>1. PICK i \in 1 .. Len(chan') : chan'[i] = d
  BY Zenon DEF Sent
<1>2. i + 1 \in 1 .. Len(chan) /\ chan[i + 1] = d
  BY <1>1 DEF Receives
<1> QED BY <1>2 DEF Sent

\* What is received had been sent.
LEMMA FirstSent ==
    ASSUME NEW c, Receives(c)
    PROVE  Sent(c)
BY DEF Sent, Receives

\* Queues are numbers.
LEMMA QueueNat == Queue \subseteq Nat /\ \A q \in Queue : q < NumQueues /\ 0 <= q
BY QueueAssumption DEF Queue

\* The worker counts through them.
LEMMA QueueSteps ==
    /\ 0 \in Queue /\ 0 \in 0 .. NumQueues
    /\ \A q \in Queue : q + 1 \in 0 .. NumQueues /\ q \in 0 .. NumQueues
BY QueueAssumption DEF Queue

\* What receiving a command leaves alone.
rest == <<guest, used, irq, device, transport, pending>>

\* The worker takes a kick.
LEMMA TakeKickChan ==
    TypeOK /\ TakeKick =>
       /\ Receives("kick") /\ chan' \in Seq(Command)
       /\ worker = "recv" /\ scheduled' = FALSE /\ paused' = paused
       /\ (paused => worker' = worker /\ index' = index)
       /\ (~paused => worker' = "drain" /\ index' = 0)
       /\ UNCHANGED rest
<1> SUFFICES ASSUME TypeOK, TakeKick PROVE TakeKickChan!2
  BY Zenon
<1> USE Zenon
<1>1. chan \in Seq(Command) /\ chan # <<>> /\ chan' = Tail(chan) /\ Head(chan) = "kick"
  BY DEF TypeOK, ControlTypes, TakeKick, Receive, Command
<1>2. Receives("kick") /\ chan' \in Seq(Command)
  BY <1>1, Receiving DEF Receives
<1> QED BY <1>2 DEF TypeOK, ControlTypes, TakeKick, Receive, Drain, rest

\* The worker takes a barrier.
LEMMA TakeBarrierChan ==
    TypeOK /\ TakeBarrier =>
       /\ Receives("barrier") /\ chan' \in Seq(Command)
       /\ worker = "recv" /\ worker' = "ack" /\ UNCHANGED <<scheduled, index, paused>>
       /\ UNCHANGED rest
<1> SUFFICES ASSUME TypeOK, TakeBarrier PROVE TakeBarrierChan!2
  BY Zenon
<1> USE Zenon
<1>1. chan \in Seq(Command) /\ chan # <<>> /\ chan' = Tail(chan) /\ Head(chan) = "barrier"
  BY DEF TypeOK, ControlTypes, TakeBarrier, Receive, Command
<1>2. Receives("barrier") /\ chan' \in Seq(Command)
  BY <1>1, Receiving DEF Receives
<1> QED BY <1>2 DEF TypeOK, ControlTypes, TakeBarrier, Receive, Drain, rest

\* The worker takes a quiesce.
LEMMA TakeQuiesceChan ==
    TypeOK /\ TakeQuiesce =>
       /\ Receives("quiesce") /\ chan' \in Seq(Command)
       /\ worker = "recv" /\ worker' = "ack" /\ paused' /\ UNCHANGED <<scheduled, index>>
       /\ UNCHANGED rest
<1> SUFFICES ASSUME TypeOK, TakeQuiesce PROVE TakeQuiesceChan!2
  BY Zenon
<1> USE Zenon
<1>1. chan \in Seq(Command) /\ chan # <<>> /\ chan' = Tail(chan) /\ Head(chan) = "quiesce"
  BY DEF TypeOK, ControlTypes, TakeQuiesce, Receive, Command
<1>2. Receives("quiesce") /\ chan' \in Seq(Command)
  BY <1>1, Receiving DEF Receives
<1> QED BY <1>2 DEF TypeOK, ControlTypes, TakeQuiesce, Receive, Drain, rest

\* The worker takes a resume.
LEMMA TakeResumeChan ==
    TypeOK /\ TakeResume =>
       /\ Receives("resume") /\ chan' \in Seq(Command)
       /\ worker = "recv" /\ worker' = "drain" /\ index' = 0 /\ paused' = FALSE
       /\ UNCHANGED scheduled
       /\ UNCHANGED rest
<1> SUFFICES ASSUME TypeOK, TakeResume PROVE TakeResumeChan!2
  BY Zenon
<1> USE Zenon
<1>1. chan \in Seq(Command) /\ chan # <<>> /\ chan' = Tail(chan) /\ Head(chan) = "resume"
  BY DEF TypeOK, ControlTypes, TakeResume, Receive, Command
<1>2. Receives("resume") /\ chan' \in Seq(Command)
  BY <1>1, Receiving DEF Receives
<1> QED BY <1>2 DEF TypeOK, ControlTypes, TakeResume, Receive, Drain, rest

\* Succ stays among the indices and is injective.
LEMMA IndexSucc ==
    /\ 0 \in Index
    /\ \A a \in Index : Succ(a) \in Index
    /\ \A a \in Index : a # IndexMod - 1 => Succ(a) = a + 1
    /\ \A a, b \in Index : Succ(a) = Succ(b) => a = b
BY IndexAssumption DEF Index, Succ

\* A distance is an index, zero exactly between equals.
LEMMA AheadFacts ==
    /\ \A a, b \in Index : Ahead(a, b) \in Index
    /\ \A a \in Index : Ahead(a, a) = 0
    /\ \A a, b \in Index : Ahead(a, b) = 0 => a = b
BY IndexAssumption DEF Index, Ahead

\* Moving the front index on adds one to the distance, short of a full turn.
LEMMA AheadGrows ==
    \A a, b \in Index : Ahead(a, b) < IndexMod - 1 => Ahead(Succ(a), b) = Ahead(a, b) + 1
BY IndexAssumption DEF Index, Ahead, Succ

\* Moving the back index on takes one from it.
LEMMA AheadShrinks ==
    \A a, b \in Index : a # b => Ahead(a, Succ(b)) = Ahead(a, b) - 1
BY IndexAssumption DEF Index, Ahead, Succ

\* Indices are numbers below IndexMod.
LEMMA IndexNat == Index \subseteq Nat /\ IndexMod \in Nat /\ \A a \in Index : a <= IndexMod - 1
BY IndexAssumption DEF Index

\* SizeAssumption, queue by queue.
LEMMA SizeFacts == \A q \in Queue : Size[q] \in Nat \ {0} /\ 2 * Size[q] <= IndexMod
BY SizeAssumption, Zenon

\* A saved image means that the worker is at rest.
LEMMA ImageRest ==
    Control => /\ image # <<>> => worker \in {"recv", "ack"} /\ parked
               /\ worker \in Stages => handle # "none" /\ image = <<>>
               /\ ~parked => image = <<>>
BY Zenon DEF Control, ParkInv, ChanInv, LiveInv, Asking, Bare, Resetting, Stages

\* IndexInv survives a step.
LEMMA StepIndex == Control /\ [Next]_vars => IndexInv'
<1> SUFFICES ASSUME Control, [Next]_vars PROVE IndexInv'
  BY Zenon
<1> USE Zenon
<1>1. CASE UNCHANGED <<worker, index>>
  BY <1>1 DEF Control, IndexInv
<1>2. CASE worker' \in Stages /\ index' = index /\ worker \in Stages
  BY <1>2 DEF Control, IndexInv, Stages
<1>3. ASSUME NEW q \in Queue, Publish(q) \/ Submission(q) \/ Handling(q) PROVE IndexInv'
  <2>1. CASE Publish(q) \/ Check(q) \/ Interrupted(q) \/ TakeUsed(q) \/ AskInterrupt(q)
             \/ LookAgain(q) \/ Notify(q)
    BY <1>1, <2>1 DEF Publish, Check, Interrupted, TakeUsed, AskInterrupt, LookAgain, Notify,
       guest, device, transport, thread
  <2> QED BY <1>3, <2>1, SMTT(30) DEF Submission, Handling
<1>4. CASE Schedule \/ SendKick \/ ClearPending \/ DeviceReset \/ ReadCapabilities \/ Restore
  BY <1>1, <1>4 DEF Schedule, Call, Return, SendKick, ClearPending, DeviceReset,
     ReadCapabilities, Restore, guest, device, transport, thread
<1>5. CASE StatusZero \/ Activate \/ ReadCommon \/ Freeze \/ Save \/ Reload
  BY <1>1, <1>5 DEF StatusZero, Call, Outdated, Activate, ReadCommon, Freeze, Save, Reload,
     guest, device, transport, thread
<1>6. CASE Thaw
  BY <1>1, <1>6 DEF Thaw, Call, guest, device, transport, thread
<1>7. CASE Pop \/ Complete \/ Arm \/ Recheck
  BY <1>2, <1>7 DEF Stages, Pop, Complete, Arm, Recheck, guest, device, transport, thread
<1>8. CASE Rendezvous
  BY <1>8 DEF Control, IndexInv, Stages, TypeOK, ControlTypes, Queue, Rendezvous, Call, guest,
     device, transport, thread
<1>9. CASE TakeKick
  BY <1>9, TakeKickChan DEF Control, IndexInv, Stages, TypeOK, ControlTypes, Queue, rest,
     guest, device, transport
<1>10. CASE TakeBarrier
  BY <1>10, TakeBarrierChan DEF Control, IndexInv, Stages, TypeOK, ControlTypes, Queue, rest,
     guest, device, transport
<1>11. CASE TakeQuiesce
  BY <1>11, TakeQuiesceChan DEF Control, IndexInv, Stages, TypeOK, ControlTypes, Queue, rest,
     guest, device, transport
<1>12. CASE TakeResume
  BY <1>12, TakeResumeChan DEF Control, IndexInv, Stages, TypeOK, ControlTypes, Queue, rest,
     guest, device, transport
<1>13. CASE Swap
  BY <1>13 DEF Control, IndexInv, Stages, TypeOK, ControlTypes, Queue, Swap, guest, device,
     transport, thread
<1>14. CASE Drained
  BY <1>14 DEF Control, IndexInv, Stages, TypeOK, ControlTypes, Queue, Drained, guest, device,
     transport, thread
<1>15. CASE Enter
  BY <1>15 DEF Control, IndexInv, Stages, TypeOK, ControlTypes, Queue, Enter, NextQueue,
     guest, device, transport, thread
<1>16. CASE Needs
  BY <1>16 DEF Control, IndexInv, Stages, TypeOK, ControlTypes, Queue, Needs, NextQueue,
     guest, device, transport, thread
<1>17. CASE NotifyQueue
  BY <1>17 DEF Control, IndexInv, Stages, TypeOK, ControlTypes, Queue, NotifyQueue, NextQueue,
     guest, device, transport, thread
<1>18. CASE UNCHANGED vars
  BY <1>1, <1>18 DEF vars, guest, device, transport, thread
<1> QED
  BY <1>3, <1>4, <1>5, <1>6, <1>7, <1>8, <1>9, <1>10, <1>11, <1>12, <1>13, <1>14, <1>15,
     <1>16, <1>17, <1>18, SMTT(30) DEF Next, CallerStep, WorkerStep

\* ControlTypes survives a step.
LEMMA StepControlTypes == Control /\ [Next]_vars => ControlTypes'
<1> SUFFICES ASSUME Control, [Next]_vars PROVE ControlTypes'
  BY Zenon
<1> USE Zenon
<1>1. CASE UNCHANGED <<submit, handler, irq, pending, kicked, parked, activated, scheduled,
           paused, handle, chan, caller, calledFor, worker, index>>
  BY <1>1, SMT DEF Control, TypeOK, ControlTypes
<1>2. CASE worker' \in Stages /\ UNCHANGED <<submit, handler, irq, pending, kicked, parked,
           activated, scheduled, paused, handle, chan, caller, calledFor, index>>
  BY <1>2 DEF Control, TypeOK, ControlTypes
<1>3. ASSUME NEW q \in Queue, Publish(q) \/ Submission(q) \/ Handling(q) PROVE ControlTypes'
  <2>1. CASE Publish(q)
    BY <2>1, SMT DEF Control, TypeOK, ControlTypes, IndexInv, Stages, Publish, guest, device,
       transport, thread
  <2>2. CASE Check(q)
    BY <2>2, SMT DEF Control, TypeOK, ControlTypes, IndexInv, Stages, Check, guest, device,
       transport, thread
  <2>3. CASE Interrupted(q)
    BY <2>3, SMT DEF Control, TypeOK, ControlTypes, IndexInv, Stages, Interrupted, guest, device,
       transport, thread
  <2>4. CASE TakeUsed(q)
    BY <2>4, SMT DEF Control, TypeOK, ControlTypes, IndexInv, Stages, TakeUsed, guest, device,
       transport, thread
  <2>5. CASE AskInterrupt(q)
    BY <2>5, SMT DEF Control, TypeOK, ControlTypes, IndexInv, Stages, AskInterrupt, guest, device,
       transport, thread
  <2>6. CASE LookAgain(q)
    BY <2>6, SMT DEF Control, TypeOK, ControlTypes, IndexInv, Stages, LookAgain, guest, device,
       transport, thread
  <2>7. CASE Notify(q)
    BY <2>7 DEF Control, TypeOK, ControlTypes, IndexInv, Stages, Notify, guest, device,
       transport, thread
  <2> QED BY <1>3, <2>1, <2>2, <2>3, <2>4, <2>5, <2>6, <2>7, SMTT(30) DEF Submission, Handling
<1>4. CASE Save
  BY <1>1, <1>4 DEF Save, guest, device, transport, thread
<1>5. CASE Pop \/ Complete \/ Arm \/ Recheck
  BY <1>2, <1>5 DEF Stages, Pop, Complete, Arm, Recheck, guest, device, transport, thread
<1>6. CASE Schedule
  <2>1. submit' = submit \/ submit' = [submit EXCEPT ![calledFor] = "idle"]
    BY <1>6 DEF Schedule, Call, Return
  <2>2. submit' \in [Queue -> {"idle", "check", "kick"}]
    BY <2>1 DEF Control, TypeOK, ControlTypes
  <2>3. calledFor' \in Queue
    BY <1>6, QueueSteps DEF Schedule, Call, Return, Control, TypeOK, ControlTypes
  <2> QED BY <1>6, <2>2, <2>3 DEF Schedule, Call, Return, Control, TypeOK, ControlTypes,
      device, thread
<1>7. CASE SendKick
  <2>1. submit' = submit \/ submit' = [submit EXCEPT ![calledFor] = "idle"]
    BY <1>7 DEF SendKick, Call, Return
  <2>2. submit' \in [Queue -> {"idle", "check", "kick"}]
    BY <2>1 DEF Control, TypeOK, ControlTypes
  <2>3. calledFor' \in Queue
    BY <1>7, QueueSteps DEF SendKick, Call, Return, Control, TypeOK, ControlTypes
  <2> QED BY <1>7, <2>2, <2>3, SendKickChan, SMTT(30) DEF SendKick, Call, Return, Control,
      TypeOK, ControlTypes, device, thread
<1>8. CASE Rendezvous
  BY <1>8 DEF Control, TypeOK, ControlTypes, IndexInv, Stages, Rendezvous, Call, guest,
     device, transport, thread
<1>9. CASE ClearPending
  BY <1>9 DEF Control, TypeOK, ControlTypes, IndexInv, Stages, ClearPending, Call, guest,
     device, transport, thread
<1>10. CASE DeviceReset
  BY <1>10 DEF Control, TypeOK, ControlTypes, IndexInv, Stages, DeviceReset, Call, guest,
     device, transport, thread, DeviceHeld
<1>11. CASE ReadCapabilities
  BY <1>11 DEF Control, TypeOK, ControlTypes, IndexInv, Stages, ReadCapabilities, Call, guest,
     device, transport, thread
<1>12. CASE Restore
  <2>1. image.activated \in BOOLEAN
    BY <1>12 DEF Restore, Control, TypeOK, RingTypes, ParkInv, Resetting
  <2> QED BY <1>12, <2>1 DEF Restore, Call, Control, TypeOK, ControlTypes, guest, thread
<1>13. CASE StatusZero
  BY <1>13, StatusZeroChan, ZenonT(30) DEF Control, TypeOK, ControlTypes, IndexInv, Stages,
     StatusZero, Call, Outdated, guest, device, transport, thread, DriverIdle, Sends
<1>14. CASE Activate
  BY <1>14 DEF Control, TypeOK, ControlTypes, IndexInv, Stages, Activate, guest, device,
     transport, thread, DeviceHeld
<1>15. CASE ReadCommon
  BY <1>15 DEF Control, TypeOK, ControlTypes, IndexInv, Stages, ReadCommon, Call, guest,
     device, transport, thread
<1>16. CASE Freeze
  BY <1>16, FreezeChan, SMT DEF Control, TypeOK, ControlTypes, IndexInv, Stages, Freeze, Call,
     guest, device, transport, thread, Sends
<1>17. CASE Reload
  BY <1>17, ReloadChan, ZenonT(30) DEF Control, TypeOK, ControlTypes, IndexInv, Stages,
     Reload, Call, Outdated, guest, device, transport, thread, Sends
<1>18. CASE Thaw
  BY <1>18, ThawChan, ZenonT(30) DEF Control, TypeOK, ControlTypes, IndexInv, Stages, Thaw,
     Call, guest, device, transport, thread, Sends
<1>19. CASE TakeKick
  <2>1. index' \in 0 .. NumQueues /\ worker' \in {"recv", "drain"}
    BY <1>19, TakeKickChan, QueueSteps DEF Control, TypeOK, ControlTypes
  <2> QED BY <1>19, TakeKickChan, <2>1, ZenonT(30) DEF Control, TypeOK, ControlTypes, rest,
      guest, device, transport
<1>20. CASE TakeBarrier
  BY <1>20, TakeBarrierChan, SMT DEF Control, TypeOK, ControlTypes, IndexInv, Stages, rest, guest,
     device, transport, Receives
<1>21. CASE TakeQuiesce
  BY <1>21, TakeQuiesceChan, ZenonT(30) DEF Control, TypeOK, ControlTypes, IndexInv, Stages,
     rest, guest, device, transport, Receives
<1>22. CASE TakeResume
  <2>1. index' \in 0 .. NumQueues /\ worker' \in {"recv", "drain"}
    BY <1>22, TakeResumeChan, QueueSteps DEF Control, TypeOK, ControlTypes
  <2> QED BY <1>22, TakeResumeChan, <2>1, ZenonT(60) DEF Control, TypeOK, ControlTypes, rest,
      guest, device, transport
<1>23. CASE Swap
  <2>1. index' \in 0 .. NumQueues
    BY <1>23, QueueSteps DEF Swap, NextQueue, Control, TypeOK, ControlTypes, IndexInv, Stages
  <2>2. worker' \in {"drain", "lock", "recv", "pop", "notify"}
    BY <1>23 DEF Swap, NextQueue
  <2>3. irq' \subseteq Queue /\ pending' \subseteq Queue
    BY <1>23 DEF Swap, Control, TypeOK, ControlTypes, IndexInv, Stages
  <2> QED BY <1>23, <2>1, <2>2, <2>3, SMTT(30)
          DEF Swap, Control, TypeOK, ControlTypes, Stages, guest, device, transport
<1>24. CASE Drained
  <2>1. index' \in 0 .. NumQueues
    BY <1>24, QueueSteps DEF Drained, NextQueue, Control, TypeOK, ControlTypes, IndexInv, Stages
  <2>2. worker' \in {"drain", "lock", "recv", "pop", "notify"}
    BY <1>24 DEF Drained, NextQueue
  <2>3. irq' \subseteq Queue /\ pending' \subseteq Queue
    BY <1>24 DEF Drained, Control, TypeOK, ControlTypes, IndexInv, Stages
  <2> QED BY <1>24, <2>1, <2>2, <2>3, SMTT(30)
          DEF Drained, Control, TypeOK, ControlTypes, Stages, guest, device, transport
<1>25. CASE Enter
  <2>1. index' \in 0 .. NumQueues
    BY <1>25, QueueSteps DEF Enter, NextQueue, Control, TypeOK, ControlTypes,
       IndexInv, Stages
  <2>2. worker' \in {"drain", "lock", "recv", "pop", "notify"}
    BY <1>25 DEF Enter, NextQueue
  <2>3. irq' \subseteq Queue /\ pending' \subseteq Queue
    BY <1>25 DEF Enter, Control, TypeOK, ControlTypes, IndexInv, Stages
  <2> QED BY <1>25, <2>1, <2>2, <2>3, SMTT(30)
          DEF Enter, Control, TypeOK, ControlTypes, Stages, guest, device, transport
<1>26. CASE Needs
  <2>1. index' \in 0 .. NumQueues
    BY <1>26, QueueSteps DEF Needs, NextQueue, Control, TypeOK, ControlTypes,
       IndexInv, Stages
  <2>2. worker' \in {"drain", "lock", "recv", "pop", "notify"}
    BY <1>26 DEF Needs, NextQueue
  <2>3. irq' \subseteq Queue /\ pending' \subseteq Queue
    BY <1>26 DEF Needs, Control, TypeOK, ControlTypes, IndexInv, Stages
  <2> QED BY <1>26, <2>1, <2>2, <2>3
          DEF Needs, Control, TypeOK, ControlTypes, Stages, guest, device, transport
<1>27. CASE NotifyQueue
  <2>1. index' \in 0 .. NumQueues
    BY <1>27, QueueSteps DEF NotifyQueue, NextQueue, Control, TypeOK, ControlTypes, IndexInv,
       Stages
  <2>2. worker' \in {"drain", "lock", "recv", "pop", "notify"}
    BY <1>27 DEF NotifyQueue, NextQueue
  <2>3. irq' \subseteq Queue /\ pending' \subseteq Queue
    BY <1>27 DEF NotifyQueue, Control, TypeOK, ControlTypes, IndexInv, Stages
  <2> QED BY <1>27, <2>1, <2>2, <2>3
          DEF NotifyQueue, Control, TypeOK, ControlTypes, Stages, guest, device, transport
<1>28. CASE UNCHANGED vars
  BY <1>1, <1>28 DEF vars, guest, device, transport, thread
<1> QED
  BY <1>3, <1>4, <1>5, <1>6, <1>7, <1>8, <1>9, <1>10, <1>11, <1>12, <1>13, <1>14, <1>15,
     <1>16, <1>17, <1>18, <1>19, <1>20, <1>21, <1>22, <1>23, <1>24, <1>25, <1>26, <1>27,
     <1>28, SMTT(30) DEF Next, CallerStep, WorkerStep

\* ParkInv survives a step.
LEMMA StepPark == Control /\ [Next]_vars => ParkInv'
<1> SUFFICES ASSUME Control, [Next]_vars PROVE ParkInv'
  BY Zenon
<1> USE Zenon
<1>1. CASE UNCHANGED <<caller, parked, image>>
  BY <1>1 DEF Control, ParkInv
<1>2. ASSUME NEW q \in Queue, Publish(q) \/ Submission(q) \/ Handling(q) PROVE ParkInv'
  <2>1. CASE Publish(q) \/ Check(q) \/ Interrupted(q) \/ TakeUsed(q) \/ AskInterrupt(q)
             \/ LookAgain(q)
    BY <1>1, <2>1 DEF Publish, Check, Interrupted, TakeUsed, AskInterrupt, LookAgain, guest,
       device, transport, thread
  <2>2. CASE Notify(q)
    BY <2>2 DEF Control, ParkInv, Asking, Bare, Resetting, Notify, guest, device,
       transport, thread
  <2> QED BY <1>2, <2>1, <2>2, SMTT(60) DEF Submission, Handling
<1>3. CASE Activate \/ Swap \/ Drained \/ Enter \/ Pop \/ Complete
  BY <1>1, <1>3 DEF Activate, Swap, Drained, Enter, NextQueue, Pop, Complete, guest,
     device, transport, thread
<1>4. CASE Arm \/ Recheck \/ Needs \/ NotifyQueue
  BY <1>1, <1>4, ZenonT(30) DEF Arm, Recheck, Needs, NextQueue, NotifyQueue, guest, device,
     transport, thread
<1>5. CASE TakeKick \/ TakeBarrier \/ TakeQuiesce \/ TakeResume
  BY <1>1, <1>5, TakeKickChan, TakeBarrierChan, TakeQuiesceChan, TakeResumeChan DEF Control,
     rest, guest, device, transport
<1>6. CASE Schedule
  BY <1>6 DEF Control, ParkInv, Asking, Bare, Resetting, Schedule, Call, Return, guest,
     device, transport, thread
<1>7. CASE SendKick
  BY <1>7 DEF Control, ParkInv, Asking, Bare, Resetting, SendKick, Return, guest, device,
     transport, thread
<1>8. CASE Rendezvous
  BY <1>8 DEF Control, ParkInv, Asking, Bare, Resetting, Rendezvous, Call, guest, device,
     transport, thread
<1>9. CASE ClearPending
  BY <1>9 DEF Control, ParkInv, Asking, Bare, Resetting, ClearPending, Call, guest, device,
     transport, thread
<1>10. CASE DeviceReset
  BY <1>10 DEF Control, ParkInv, Asking, Bare, Resetting, DeviceReset, Call, guest, device,
     transport, thread, DeviceHeld
<1>11. CASE ReadCapabilities
  BY <1>11 DEF Control, ParkInv, Asking, Bare, Resetting, ReadCapabilities, Call, guest,
     device, transport, thread
<1>12. CASE Restore
  BY <1>12 DEF Control, ParkInv, Asking, Bare, Resetting, Restore, Call, guest, device,
     transport, thread, DeviceHeld
<1>13. CASE StatusZero
  BY <1>13 DEF Control, ParkInv, Asking, Bare, Resetting, StatusZero, Call, Outdated, guest,
     device, transport, thread, DriverIdle
<1>14. CASE ReadCommon
  BY <1>14 DEF Control, ParkInv, Asking, Bare, Resetting, ReadCommon, Call, guest, device,
     transport, thread
<1>15. CASE Freeze
  BY <1>15 DEF Control, ParkInv, Asking, Bare, Resetting, Freeze, Call, guest,
     device, transport, thread
<1>16. CASE Save
  BY <1>16 DEF Control, ParkInv, Asking, Bare, Resetting, Save, guest, device, transport, thread
<1>17. CASE Reload
  BY <1>17 DEF Control, ParkInv, Asking, Bare, Resetting, Reload, Call, Outdated, guest,
     device, transport, thread
<1>18. CASE Thaw
  BY <1>18 DEF Control, ParkInv, Asking, Bare, Resetting, Thaw, Call, guest, device,
     transport, thread
<1>19. CASE UNCHANGED vars
  BY <1>1, <1>19 DEF vars, guest, device, transport, thread
<1> QED
  BY <1>2, <1>3, <1>4, <1>5, <1>6, <1>7, <1>8, <1>9, <1>10, <1>11, <1>12, <1>13, <1>14, <1>15,
     <1>16, <1>17, <1>18, <1>19, SMTT(30) DEF Next, CallerStep, WorkerStep

\* ChanInv survives a step.
LEMMA StepChan == Control /\ [Next]_vars => ChanInv'
<1> SUFFICES ASSUME Control, [Next]_vars PROVE ChanInv'
  BY Zenon
<1> USE Zenon
<1>1. CASE UNCHANGED <<worker, chan, caller, parked>>
  BY <1>1 DEF Control, ChanInv
<1>2. CASE worker \notin {"recv", "ack"} /\ worker' # "ack" /\ UNCHANGED <<chan, caller, parked>>
  BY <1>2 DEF Control, ChanInv, Asking, Bare
<1>3. ASSUME NEW q \in Queue, Publish(q) \/ Submission(q) \/ Handling(q) PROVE ChanInv'
  <2>1. CASE Publish(q) \/ Check(q) \/ Interrupted(q) \/ TakeUsed(q) \/ AskInterrupt(q)
             \/ LookAgain(q)
    BY <1>1, <2>1, ZenonT(30) DEF Publish, Check, Interrupted, TakeUsed, AskInterrupt,
       LookAgain, guest, device, transport, thread
  <2>2. CASE Notify(q)
    BY <2>2 DEF Control, ChanInv, ParkInv, Asking, Bare, Resetting, Command, Notify,
       guest, device, transport, thread
  <2> QED BY <1>3, <2>1, <2>2 DEF Submission, Handling
<1>4. CASE Activate \/ Save
  BY <1>1, <1>4, ZenonT(30) DEF Activate, Save, guest, device, transport, thread
<1>5. CASE Swap \/ Drained \/ Enter \/ Pop \/ Complete
  BY <1>2, <1>5 DEF Stages, Swap, Drained, Enter, NextQueue, Pop, Complete, guest,
     device, transport, thread
<1>6. CASE Arm \/ Recheck \/ Needs \/ NotifyQueue
  BY <1>2, <1>6, ZenonT(30) DEF Stages, Arm, Recheck, Needs, NextQueue, NotifyQueue, guest,
     device, transport, thread
<1>7. CASE Schedule
  BY <1>7 DEF Control, ChanInv, ParkInv, Asking, Bare, Resetting, Command, Schedule, Call,
     Return, guest, device, transport, thread
<1>8. CASE SendKick
  BY <1>8, SendKickChan, SMT DEF Control, ChanInv, ParkInv, Asking, Bare, Resetting, Command,
     SendKick, Return, guest, device, transport, thread, Sends
<1>9. CASE Rendezvous
  BY <1>9, SMT DEF Control, ChanInv, ParkInv, Asking, Bare, Resetting, Command, Rendezvous, Call,
     guest, device, transport, thread
<1>10. CASE ClearPending
  BY <1>10 DEF Control, ChanInv, ParkInv, Asking, Bare, Resetting, Command, ClearPending,
     Call, guest, device, transport, thread
<1>11. CASE DeviceReset
  BY <1>11 DEF Control, ChanInv, ParkInv, Asking, Bare, Resetting, Command, DeviceReset, Call,
     guest, device, transport, thread, DeviceHeld
<1>12. CASE ReadCapabilities
  BY <1>12 DEF Control, ChanInv, ParkInv, Asking, Bare, Resetting, Command, ReadCapabilities,
     Call, guest, device, transport, thread
<1>13. CASE Restore
  BY <1>13 DEF Control, ChanInv, ParkInv, Asking, Bare, Resetting, Command, Restore,
     Call, guest, device, transport, thread, DeviceHeld
<1>14. CASE StatusZero
  BY <1>14, StatusZeroChan, SMTT(30) DEF Control, ChanInv, ParkInv, Asking, Bare, Resetting,
     Command, StatusZero, Call, Outdated, guest, device, transport, thread, DriverIdle, Sends
<1>15. CASE ReadCommon
  BY <1>15 DEF Control, ChanInv, ParkInv, Asking, Bare, Resetting, Command,
     ReadCommon, Call, guest, device, transport, thread
<1>16. CASE Freeze
  BY <1>16, FreezeChan, SMTT(30) DEF Control, ChanInv, ParkInv, Asking, Bare, Resetting,
     Command, Freeze, Call, guest, device, transport, thread, Sends
<1>17. CASE Reload
  BY <1>17, ReloadChan, SMTT(30) DEF Control, ChanInv, ParkInv, Asking, Bare, Resetting,
     Command, Reload, Call, Outdated, guest, device, transport, thread, Sends
<1>18. CASE Thaw
  BY <1>18, ThawChan, SMTT(30) DEF Control, ChanInv, ParkInv, Asking, Bare, Resetting,
     Command, Thaw, Call, guest, device, transport, thread, Sends
<1>19. CASE TakeKick
  BY <1>19, TakeKickChan, SMTT(30) DEF Control, ChanInv, ParkInv, Asking, Bare, Resetting,
     Command, rest, guest, device, transport, Receives
<1>20. CASE TakeBarrier
  BY <1>20, TakeBarrierChan, SMTT(30) DEF Control, ChanInv, ParkInv, Asking, Bare, Resetting,
     Command, rest, guest, device, transport, Receives
<1>21. CASE TakeQuiesce
  BY <1>21, TakeQuiesceChan, SMTT(30) DEF Control, ChanInv, ParkInv, Asking, Bare, Resetting,
     Command, rest, guest, device, transport, Receives
<1>22. CASE TakeResume
  BY <1>22, TakeResumeChan, SMT DEF Control, ChanInv, ParkInv, Asking, Bare, Resetting, Command,
     rest, guest, device, transport, Receives
<1>23. CASE UNCHANGED vars
  BY <1>1, <1>23 DEF vars, guest, device, transport, thread
<1> QED
  BY <1>3, <1>4, <1>5, <1>6, <1>7, <1>8, <1>9, <1>10, <1>11, <1>12, <1>13, <1>14, <1>15,
     <1>16, <1>17, <1>18, <1>19, <1>20, <1>21, <1>22, <1>23, SMTT(30) DEF Next, CallerStep,
     WorkerStep

\* KickInv survives a step.
LEMMA StepKick == Control /\ [Next]_vars => KickInv'
<1> SUFFICES ASSUME Control, [Next]_vars PROVE KickInv'
  BY Zenon
<1>1. CASE UNCHANGED <<scheduled, chan, caller, pending>>
  BY <1>1, Zenon DEF Control, KickInv, Sent
<1>2. ASSUME NEW q \in Queue, Publish(q) \/ Submission(q) \/ Handling(q) PROVE KickInv'
  <2>1. CASE Publish(q) \/ Check(q) \/ Interrupted(q) \/ TakeUsed(q) \/ AskInterrupt(q)
             \/ LookAgain(q)
    BY <1>1, <2>1, Zenon DEF Publish, Check, Interrupted, TakeUsed, AskInterrupt,
       LookAgain, guest, device, transport, thread
  <2>2. CASE Notify(q)
    BY <2>2, Zenon DEF Control, KickInv, ChanInv, NoLostKick, DrainsTo, Sent, Asking, Bare,
       ParkInv, Stages, Notify, guest, device, transport, thread
  <2> QED BY <1>2, <2>1, <2>2 DEF Submission, Handling
<1>3. CASE Activate \/ Save \/ Drained \/ Enter \/ Pop \/ Complete
  BY <1>1, <1>3, Zenon DEF Activate, Save, Drained, Enter, NextQueue, Pop, Complete, guest,
     device, transport, thread
<1>4. CASE Arm \/ Recheck \/ Needs \/ NotifyQueue
  BY <1>1, <1>4, ZenonT(30) DEF Arm, Recheck, Needs, NextQueue, NotifyQueue, guest, device,
     transport, thread
<1>5. CASE Schedule
  BY <1>5, Zenon DEF Control, KickInv, ChanInv, NoLostKick, DrainsTo, Sent, Asking, Bare,
     ParkInv, Stages, Schedule, Call, Return, guest, device, transport, thread
<1>6. CASE SendKick
  BY <1>6, SendKickChan, SMTT(30) DEF Control, KickInv, ChanInv, NoLostKick, DrainsTo, Sent,
     Asking, Bare, ParkInv, Stages, SendKick, Return, guest, device, transport, thread, Sends
<1>7. CASE Rendezvous
  BY <1>7, SMTT(30) DEF Control, KickInv, ChanInv, NoLostKick, DrainsTo, Sent, Asking, Bare,
     ParkInv, Stages, Rendezvous, Call, guest, device, transport, thread
<1>8. CASE ClearPending
  BY <1>8, SMTT(30) DEF Control, KickInv, ChanInv, NoLostKick, DrainsTo, Sent, Asking, Bare,
     ParkInv, Stages, ClearPending, Call, guest, device, transport, thread
<1>9. CASE DeviceReset
  BY <1>9, SMTT(30) DEF Control, KickInv, ChanInv, NoLostKick, DrainsTo, Sent, Asking, Bare,
     ParkInv, Stages, DeviceReset, Call, guest, device, transport, thread, DeviceHeld
<1>10. CASE ReadCapabilities
  BY <1>10, Zenon DEF Control, KickInv, ChanInv, NoLostKick, DrainsTo, Sent, Asking, Bare,
     ParkInv, Stages, ReadCapabilities, Call, guest, device, transport, thread
<1>11. CASE Restore
  BY <1>11, SMTT(30) DEF Control, KickInv, ChanInv, NoLostKick, DrainsTo, Sent, Asking, Bare,
     ParkInv, Stages, Restore, Call, guest, device, transport, thread, DeviceHeld
<1>12. CASE StatusZero
  BY <1>12, StatusZeroChan, SMTT(30) DEF Control, KickInv, ChanInv, NoLostKick, DrainsTo,
     Sent, Asking, Bare, ParkInv, Stages, StatusZero, Call, Outdated, guest, device,
     transport, thread, DriverIdle, Sends
<1>13. CASE ReadCommon
  BY <1>13, Zenon DEF Control, KickInv, ChanInv, NoLostKick, DrainsTo, Sent, Asking, Bare,
     ParkInv, Stages, ReadCommon, Call, guest, device, transport, thread
<1>14. CASE Freeze
  BY <1>14, FreezeChan, SMTT(30) DEF Control, KickInv, ChanInv, NoLostKick, DrainsTo, Sent,
     Asking, Bare, ParkInv, Stages, Freeze, Call, guest, device, transport, thread, Sends
<1>15. CASE Reload
  BY <1>15, ReloadChan, SMTT(30) DEF Control, KickInv, ChanInv, NoLostKick, DrainsTo, Sent,
     Asking, Bare, ParkInv, Stages, Reload, Call, Outdated, guest, device, transport, thread,
     Sends
<1>16. CASE Thaw
  BY <1>16, ThawChan, SMTT(30) DEF Control, KickInv, ChanInv, NoLostKick, DrainsTo, Sent,
     Asking, Bare, ParkInv, Stages, Thaw, Call, guest, device, transport, thread, Sends
<1>17. CASE TakeKick
  BY <1>17, TakeKickChan, SMTT(30) DEF Control, KickInv, ChanInv, NoLostKick, DrainsTo, Sent,
     Asking, Bare, ParkInv, Stages, rest, guest, device, transport, Receives
<1>18. CASE TakeBarrier
  BY <1>18, TakeBarrierChan, SMTT(30) DEF Control, KickInv, ChanInv, NoLostKick, DrainsTo,
     Sent, Asking, Bare, ParkInv, Stages, rest, guest, device, transport, Receives
<1>19. CASE TakeQuiesce
  BY <1>19, TakeQuiesceChan, SMTT(30) DEF Control, KickInv, ChanInv, NoLostKick, DrainsTo,
     Sent, Asking, Bare, ParkInv, Stages, rest, guest, device, transport, Receives
<1>20. CASE TakeResume
  BY <1>20, TakeResumeChan, StillSent, WasSent, SMTT(30) DEF Control, KickInv, ChanInv, Bare,
     Receives, rest, guest, device, transport
<1>21. CASE Swap
  BY <1>21, Zenon DEF Control, KickInv, ChanInv, NoLostKick, DrainsTo, Sent, Asking, Bare, ParkInv,
     Stages, Swap, guest, device, transport, thread
<1>22. CASE UNCHANGED vars
  BY <1>1, <1>22, Zenon DEF vars, guest, device, transport, thread
<1> QED
  BY <1>2, <1>3, <1>4, <1>5, <1>6, <1>7, <1>8, <1>9, <1>10, <1>11, <1>12, <1>13, <1>14, <1>15,
     <1>16, <1>17, <1>18, <1>19, <1>20, <1>21, <1>22, SMTT(30) DEF Next, CallerStep, WorkerStep

\* NoLostKick survives a step.
LEMMA StepLost == Control /\ [Next]_vars => NoLostKick'
<1> SUFFICES ASSUME Control, [Next]_vars PROVE NoLostKick'
  BY Zenon
<1> USE Zenon
<1>1. CASE UNCHANGED <<pending, chan, caller, worker, index>>
  BY <1>1 DEF Control, NoLostKick, DrainsTo, Sent, Stages
<1>2. CASE worker' \in Stages /\ worker \in Stages /\ UNCHANGED <<pending, chan, caller, index>>
  BY <1>2 DEF Control, NoLostKick, DrainsTo, Sent, Stages
<1>3. ASSUME NEW q \in Queue, Publish(q) \/ Submission(q) \/ Handling(q) PROVE NoLostKick'
  <2>1. CASE Publish(q) \/ Check(q) \/ Interrupted(q) \/ TakeUsed(q) \/ AskInterrupt(q)
             \/ LookAgain(q)
    BY <1>1, <2>1, ZenonT(30) DEF Publish, Check, Interrupted, TakeUsed, AskInterrupt,
       LookAgain, guest, device, transport, thread
  <2>2. CASE Notify(q)
    BY <2>2 DEF Control, NoLostKick, DrainsTo, Stages, Sent, Notify, guest, device,
       transport, thread
  <2> QED BY <1>3, <2>1, <2>2 DEF Submission, Handling
<1>4. CASE Activate \/ Save
  BY <1>1, <1>4 DEF Activate, Save, guest, device, transport, thread
<1>5. CASE Pop \/ Complete \/ Arm \/ Recheck
  BY <1>2, <1>5 DEF Stages, Pop, Complete, Arm, Recheck, guest, device, transport, thread
<1>6. CASE Schedule
  <2>1. CASE scheduled
    <3>1. Sent("kick")
      BY <1>6, <2>1 DEF Schedule, Control, KickInv
    <3> QED BY <1>6, <3>1, SMTT(30) DEF Schedule, NoLostKick, Sent
  <2>2. CASE ~scheduled
    BY <1>6, <2>2 DEF Schedule, Call, NoLostKick
  <2> QED BY <2>1, <2>2
<1>7. CASE SendKick
  BY <1>7, SendKickChan, SMTT(30) DEF Control, NoLostKick, DrainsTo, Stages, Sent, SendKick,
     Return, guest, device, transport, thread, Sends
<1>8. CASE Rendezvous
  BY <1>8 DEF Control, NoLostKick, DrainsTo, Stages, Sent, Rendezvous, Call, guest,
     device, transport, thread
<1>9. CASE ClearPending
  BY <1>9 DEF Control, NoLostKick, DrainsTo, Stages, Sent, ClearPending, Call,
     guest, device, transport, thread
<1>10. CASE DeviceReset
  BY <1>10 DEF Control, NoLostKick, DrainsTo, Stages, Sent, DeviceReset, Call,
     guest, device, transport, thread, DeviceHeld
<1>11. CASE ReadCapabilities
  BY <1>11 DEF Control, NoLostKick, DrainsTo, Stages, Sent, ReadCapabilities, Call,
     guest, device, transport, thread
<1>12. CASE Restore
  BY <1>12 DEF Control, NoLostKick, DrainsTo, Stages, Sent, Restore, Call, guest,
     device, transport, thread, DeviceHeld
<1>13. CASE StatusZero
  BY <1>13, StatusZeroChan, SMTT(30) DEF Control, NoLostKick, DrainsTo, Stages, Sent,
     StatusZero, Call, Outdated, guest, device, transport, thread, DriverIdle, Sends
<1>14. CASE ReadCommon
  BY <1>14 DEF Control, NoLostKick, DrainsTo, Stages, Sent, ReadCommon, Call, guest,
     device, transport, thread
<1>15. CASE Freeze
  BY <1>15, FreezeChan, SMTT(30) DEF Control, NoLostKick, DrainsTo, Stages, Sent, Freeze,
     Call, guest, device, transport, thread, Sends
<1>16. CASE Reload
  BY <1>16, ReloadChan, SMTT(30) DEF Control, NoLostKick, DrainsTo, Stages, Sent, Reload,
     Call, Outdated, guest, device, transport, thread, Sends
<1>17. CASE Thaw
  BY <1>17, ThawChan, SMT DEF Control, NoLostKick, DrainsTo, Stages, Sent, Thaw, Call, guest,
     device, transport, thread, Sends
<1>18. CASE TakeKick
  <2>1. CASE ~paused
    BY <1>18, <2>1, TakeKickChan, QueueNat, ZenonT(30) DEF Control, TypeOK, ControlTypes,
       NoLostKick, DrainsTo, rest
  <2>2. CASE paused
    <3>1. caller # "barrier" \/ ~parked
      BY <1>18, TakeKickChan, SMT DEF Control, ChanInv, Asking, Receives
    <3>2. caller \notin Bare
      BY <1>18, TakeKickChan, EmptySeq DEF Control, ChanInv, Receives
    <3>3. Sent("resume")
      BY <2>2, <3>1, <3>2, <1>18, TakeKickChan DEF Control, PauseInv, ParkInv, Asking
    <3>4. Sent("resume")'
      BY <3>3, <1>18, TakeKickChan, StillSent, SMT DEF Control
    <3> QED BY <3>4 DEF NoLostKick
  <2> QED BY <2>1, <2>2, SMTT(30)
<1>19. CASE TakeBarrier
  <2>1. ~Sent("kick") /\ ~Sent("resume") /\ caller \notin {"stored", "send"}
    BY <1>19, TakeBarrierChan, SMT DEF Control, ChanInv, Sent, Asking, Receives
  <2>2. \A q \in pending : FALSE
    BY <2>1, <1>19, TakeBarrierChan DEF Control, NoLostKick, DrainsTo, Stages
  <2>3. UNCHANGED pending
    BY <1>19, TakeBarrierChan DEF Control, rest
  <2> QED BY <2>2, <2>3 DEF NoLostKick
<1>20. CASE TakeQuiesce
  <2>1. ~Sent("kick") /\ ~Sent("resume") /\ caller \notin {"stored", "send"}
    BY <1>20, TakeQuiesceChan, SMT DEF Control, ChanInv, Sent, Asking, Receives
  <2>2. \A q \in pending : FALSE
    BY <2>1, <1>20, TakeQuiesceChan DEF Control, NoLostKick, DrainsTo, Stages
  <2>3. UNCHANGED pending
    BY <1>20, TakeQuiesceChan DEF Control, rest
  <2> QED BY <2>2, <2>3 DEF NoLostKick
<1>21. CASE TakeResume
  BY <1>21, TakeResumeChan, QueueNat, ZenonT(30) DEF Control, TypeOK, ControlTypes,
     NoLostKick, DrainsTo, rest
<1>22. CASE Swap
  BY <1>22, SMT DEF Control, ControlTypes, TypeOK, NoLostKick, KickInv, ChanInv, PauseInv, ParkInv,
     DrainsTo, Sent, Asking, Bare, Queue, Stages, Swap, guest, device, transport, thread
<1>23. CASE Drained
  <2>1. \A q \in pending : ~DrainsTo(q)
    BY <1>23, QueueAssumption, SMT DEF Control, TypeOK, ControlTypes, DrainsTo, Queue, Stages,
       Drained
  <2>2. UNCHANGED <<pending, chan, caller>>
    BY <1>23 DEF Drained, transport
  <2> QED BY <2>1, <2>2 DEF Control, NoLostKick, Sent
<1>24. CASE Enter
  BY <1>24, SMTT(60) DEF Control, ControlTypes, TypeOK, NoLostKick, KickInv, ChanInv,
     PauseInv, ParkInv, DrainsTo, Sent, Asking, Bare, Queue, Stages, Enter, NextQueue, guest,
     device, transport, thread
<1>25. CASE Needs
  BY <1>25, SMTT(30) DEF Control, ControlTypes, TypeOK, NoLostKick, KickInv, ChanInv,
     PauseInv, ParkInv, DrainsTo, Sent, Asking, Bare, Queue, Stages, Needs, NextQueue, guest,
     device, transport, thread
<1>26. CASE NotifyQueue
  BY <1>26, SMTT(30) DEF Control, ControlTypes, TypeOK, NoLostKick, KickInv, ChanInv,
     PauseInv, ParkInv, DrainsTo, Sent, Asking, Bare, Queue, Stages, NotifyQueue, NextQueue,
     guest, device, transport, thread
<1>27. CASE UNCHANGED vars
  BY <1>1, <1>27 DEF vars, guest, device, transport, thread
<1> QED
  BY <1>3, <1>4, <1>5, <1>6, <1>7, <1>8, <1>9, <1>10, <1>11, <1>12, <1>13, <1>14, <1>15,
     <1>16, <1>17, <1>18, <1>19, <1>20, <1>21, <1>22, <1>23, <1>24, <1>25, <1>26, <1>27,
     SMTT(30) DEF Next, CallerStep, WorkerStep

\* PauseInv survives a step.
LEMMA StepPause == Control /\ [Next]_vars => PauseInv'
<1> SUFFICES ASSUME Control, [Next]_vars PROVE PauseInv'
  BY Zenon
<1> USE Zenon
<1>1. CASE UNCHANGED <<paused, worker, parked, chan, caller>>
  BY <1>1 DEF Control, PauseInv, Sent
<1>2. CASE worker \notin {"recv", "ack"} /\ worker' # "ack" /\ UNCHANGED <<paused, chan,
           caller, parked>>
  BY <1>2 DEF Control, PauseInv, Sent, Asking
<1>3. ASSUME NEW q \in Queue, Publish(q) \/ Submission(q) \/ Handling(q) PROVE PauseInv'
  <2>1. CASE Publish(q) \/ Check(q) \/ Interrupted(q) \/ TakeUsed(q) \/ AskInterrupt(q)
             \/ LookAgain(q)
    BY <1>1, <2>1, ZenonT(30) DEF Publish, Check, Interrupted, TakeUsed, AskInterrupt,
       LookAgain, guest, device, transport, thread
  <2>2. CASE Notify(q)
    BY <2>2 DEF Control, PauseInv, ParkInv, ChanInv, KickInv, Sent, Asking, Bare,
       Stages, Notify, guest, device, transport, thread
  <2> QED BY <1>3, <2>1, <2>2 DEF Submission, Handling
<1>4. CASE Activate \/ Save
  BY <1>1, <1>4, ZenonT(30) DEF Activate, Save, guest, device, transport, thread
<1>5. CASE Swap \/ Drained \/ Enter \/ Pop \/ Complete
  BY <1>2, <1>5 DEF Stages, Swap, Drained, Enter, NextQueue, Pop, Complete, guest,
     device, transport, thread
<1>6. CASE Arm \/ Recheck \/ Needs \/ NotifyQueue
  BY <1>2, <1>6, ZenonT(30) DEF Stages, Arm, Recheck, Needs, NextQueue, NotifyQueue, guest,
     device, transport, thread
<1>7. CASE Schedule
  BY <1>7 DEF Control, PauseInv, ParkInv, ChanInv, KickInv, Sent, Asking, Bare,
     Stages, Schedule, Call, Return, guest, device, transport, thread
<1>8. CASE SendKick
  BY <1>8, SendKickChan, SMTT(30) DEF Control, PauseInv, ParkInv, ChanInv, KickInv, Sent,
     Asking, Bare, Stages, SendKick, Return, guest, device, transport, thread, Sends
<1>9. CASE Rendezvous
  BY <1>9 DEF Control, PauseInv, ParkInv, ChanInv, KickInv, Sent, Asking, Bare,
     Stages, Rendezvous, Call, guest, device, transport, thread
<1>10. CASE ClearPending
  BY <1>10 DEF Control, PauseInv, ParkInv, ChanInv, KickInv, Sent, Asking, Bare,
     Stages, ClearPending, Call, guest, device, transport, thread
<1>11. CASE DeviceReset
  BY <1>11 DEF Control, PauseInv, ParkInv, ChanInv, KickInv, Sent, Asking, Bare,
     Stages, DeviceReset, Call, guest, device, transport, thread, DeviceHeld
<1>12. CASE ReadCapabilities
  BY <1>12 DEF Control, PauseInv, ParkInv, ChanInv, KickInv, Sent, Asking, Bare,
     Stages, ReadCapabilities, Call, guest, device, transport, thread
<1>13. CASE Restore
  BY <1>13 DEF Control, PauseInv, ParkInv, ChanInv, KickInv, Sent, Asking, Bare,
     Stages, Restore, Call, guest, device, transport, thread, DeviceHeld
<1>14. CASE StatusZero
  BY <1>14, StatusZeroChan, SMTT(30) DEF Control, PauseInv, ParkInv, ChanInv, KickInv, Sent,
     Asking, Bare, Stages, StatusZero, Call, Outdated, guest, device, transport, thread,
     DriverIdle, Sends
<1>15. CASE ReadCommon
  BY <1>15 DEF Control, PauseInv, ParkInv, ChanInv, KickInv, Sent, Asking, Bare,
     Stages, ReadCommon, Call, guest, device, transport, thread
<1>16. CASE Freeze
  BY <1>16, FreezeChan, SMTT(30) DEF Control, PauseInv, ParkInv, ChanInv, KickInv, Sent,
     Asking, Bare, Stages, Freeze, Call, guest, device, transport, thread, Sends
<1>17. CASE Reload
  BY <1>17, ReloadChan DEF Control, PauseInv, ParkInv, ChanInv, KickInv, Sent,
     Asking, Bare, Stages, Reload, Call, Outdated, guest, device, transport, thread, Sends
<1>18. CASE Thaw
  BY <1>18, ThawChan, SMTT(30) DEF Control, PauseInv, ParkInv, ChanInv, KickInv, Sent, Asking,
     Bare, Stages, Thaw, Call, guest, device, transport, thread, Sends
<1>19. CASE TakeKick
  BY <1>19, TakeKickChan, StillSent, SMTT(30) DEF Control, PauseInv, ParkInv, ChanInv, Asking,
     Bare, rest, guest, device, transport
<1>20. CASE TakeBarrier
  BY <1>20, TakeBarrierChan, SMTT(30) DEF Control, PauseInv, ParkInv, ChanInv, KickInv, Sent,
     Asking, Bare, Stages, rest, guest, device, transport, Receives
<1>21. CASE TakeQuiesce
  BY <1>21, TakeQuiesceChan, SMTT(30) DEF Control, PauseInv, ParkInv, ChanInv, KickInv, Sent,
     Asking, Bare, Stages, rest, guest, device, transport, Receives
<1>22. CASE TakeResume
  BY <1>22, TakeResumeChan, SMTT(30) DEF Control, PauseInv, ParkInv, ChanInv, KickInv, Sent,
     Asking, Bare, Stages, rest, guest, device, transport, Receives
<1>23. CASE UNCHANGED vars
  BY <1>1, <1>23 DEF vars, guest, device, transport, thread
<1> QED
  BY <1>3, <1>4, <1>5, <1>6, <1>7, <1>8, <1>9, <1>10, <1>11, <1>12, <1>13, <1>14, <1>15,
     <1>16, <1>17, <1>18, <1>19, <1>20, <1>21, <1>22, <1>23, SMT DEF Next, CallerStep, WorkerStep

\* LiveInv survives a step.
LEMMA StepLive == Control /\ [Next]_vars => LiveInv'
<1> SUFFICES ASSUME Control, [Next]_vars PROVE LiveInv'
  BY Zenon
<1> USE Zenon
<1>1. CASE UNCHANGED <<activated, handle, caller, pending, scheduled, worker, image, submit,
           handler, next, calledFor>>
  BY <1>1 DEF Control, LiveInv, Live
<1>2. CASE worker' \in Stages /\ worker \in Stages /\ image = <<>>
           /\ UNCHANGED <<activated, handle, caller, pending, scheduled, image, submit,
           handler, calledFor>>
  BY <1>2 DEF Control, LiveInv, Live, Stages
<1>3. ASSUME NEW q \in Queue, Publish(q) \/ Submission(q) \/ Handling(q) PROVE LiveInv'
  <2>1. CASE Publish(q)
    BY <2>1, ZenonT(30) DEF Control, LiveInv, Live, Stages, Resetting, TypeOK, ControlTypes,
       Publish, guest, device, transport, thread
  <2>2. CASE Check(q)
    BY <2>2 DEF Control, LiveInv, Live, Stages, Resetting, TypeOK, ControlTypes, Check, guest,
       device, transport, thread
  <2>3. CASE Interrupted(q)
    BY <2>3, ZenonT(60) DEF Control, LiveInv, Live, Stages, Resetting, TypeOK, ControlTypes,
       Interrupted, guest, device, transport, thread
  <2>4. CASE TakeUsed(q)
    BY <2>4 DEF Control, LiveInv, Live, Stages, Resetting, TypeOK, ControlTypes, TakeUsed,
       guest, device, transport, thread
  <2>5. CASE AskInterrupt(q)
    BY <2>5 DEF Control, LiveInv, Live, Stages, Resetting, TypeOK, ControlTypes, AskInterrupt,
       guest, device, transport, thread
  <2>6. CASE LookAgain(q)
    BY <2>6 DEF Control, LiveInv, Live, Stages, Resetting, TypeOK, ControlTypes,
       LookAgain, guest, device, transport, thread
  <2>7. CASE Notify(q)
    BY <2>7 DEF Control, LiveInv, Live, Stages, Resetting, TypeOK, ControlTypes,
       Notify, guest, device, transport, thread
  <2> QED BY <1>3, <2>1, <2>2, <2>3, <2>4, <2>5, <2>6, <2>7 DEF Submission, Handling
<1>4. CASE Pop \/ Complete \/ Arm \/ Recheck
  BY <1>2, <1>4, ImageRest DEF Stages, Pop, Complete, Arm, Recheck, guest, device,
     transport, thread
<1>5. CASE Schedule
  BY <1>5, ZenonT(30) DEF Control, NoLostKick, DrainsTo, LiveInv, Live, KickInv, ParkInv,
     ChanInv, Sent, Asking, Bare, Resetting, Stages, Schedule, Call, Return, guest, device,
     transport, thread
<1>6. CASE SendKick
  BY <1>6, SendKickChan DEF Control, NoLostKick, DrainsTo, LiveInv, Live, KickInv, ParkInv,
     ChanInv, Sent, Asking, Bare, Resetting, Stages, SendKick, Return, guest, device,
     transport, thread, Sends
<1>7. CASE Rendezvous
  BY <1>7, SMT DEF Control, NoLostKick, DrainsTo, LiveInv, Live, KickInv, ParkInv, ChanInv, Sent,
     Asking, Bare, Resetting, Stages, Rendezvous, Call, guest, device, transport, thread
<1>8. CASE ClearPending
  BY <1>8 DEF Control, LiveInv, Live, Stages, Resetting, TypeOK, ControlTypes,
     ClearPending, Call, guest, device, transport, thread
<1>9. CASE DeviceReset
  BY <1>9 DEF Control, NoLostKick, DrainsTo, LiveInv, Live, KickInv, ParkInv,
     ChanInv, Sent, Asking, Bare, Resetting, Stages, DeviceReset, Call, guest, device,
     transport, thread, DeviceHeld
<1>10. CASE ReadCapabilities
  BY <1>10 DEF Control, LiveInv, Live, Stages, Resetting, TypeOK, ControlTypes,
     ReadCapabilities, Call, guest, device, transport, thread
<1>11. CASE Restore
  BY <1>11 DEF Control, NoLostKick, DrainsTo, LiveInv, Live, KickInv, ParkInv,
     ChanInv, Sent, Asking, Bare, Resetting, Stages, Restore, Call, guest, device, transport,
     thread, DeviceHeld
<1>12. CASE StatusZero
  BY <1>12, StatusZeroChan DEF Control, LiveInv, Live, Stages, Resetting, TypeOK,
     ControlTypes, StatusZero, Call, Outdated, guest, device, transport, thread, DriverIdle,
     Sends
<1>13. CASE Activate
  BY <1>13 DEF Control, LiveInv, Live, Stages, Resetting, TypeOK, ControlTypes,
     Activate, guest, device, transport, thread, DeviceHeld
<1>14. CASE ReadCommon
  BY <1>14 DEF Control, LiveInv, Live, Stages, Resetting, TypeOK, ControlTypes,
     ReadCommon, Call, guest, device, transport, thread
<1>15. CASE Freeze
  BY <1>15, FreezeChan DEF Control, LiveInv, Live, Stages, Resetting, TypeOK,
     ControlTypes, Freeze, Call, guest, device, transport, thread, Sends
<1>16. CASE Save
  BY <1>16 DEF Control, NoLostKick, DrainsTo, LiveInv, Live, KickInv, ParkInv,
     ChanInv, Sent, Asking, Bare, Resetting, Stages, Save, guest, device, transport, thread
<1>17. CASE Reload
  BY <1>17, ReloadChan DEF Control, LiveInv, Live, Stages, Resetting, TypeOK,
     ControlTypes, Reload, Call, Outdated, guest, device, transport, thread, Sends
<1>18. CASE Thaw
  BY <1>18, ThawChan DEF Control, NoLostKick, DrainsTo, LiveInv, Live, KickInv,
     ParkInv, ChanInv, Sent, Asking, Bare, Resetting, Stages, Thaw, Call, guest, device,
     transport, thread, Sends
<1>19. CASE TakeKick
  BY <1>19, TakeKickChan, SMTT(30) DEF Control, NoLostKick, DrainsTo, LiveInv, Live, KickInv,
     ParkInv, ChanInv, Sent, Asking, Bare, Resetting, Stages, rest, guest, device, transport,
     Receives
<1>20. CASE TakeBarrier
  BY <1>20, TakeBarrierChan, SMTT(60) DEF Control, NoLostKick, DrainsTo, LiveInv, Live,
     KickInv, ParkInv, ChanInv, Sent, Asking, Bare, Resetting, Stages, rest, guest, device,
     transport, Receives
<1>21. CASE TakeQuiesce
  BY <1>21, TakeQuiesceChan, SMTT(60) DEF Control, NoLostKick, DrainsTo, LiveInv, Live,
     KickInv, ParkInv, ChanInv, Sent, Asking, Bare, Resetting, Stages, rest, guest, device,
     transport, Receives
<1>22. CASE TakeResume
  BY <1>22, TakeResumeChan, SMTT(60) DEF Control, NoLostKick, DrainsTo, LiveInv, Live,
     KickInv, ParkInv, ChanInv, Sent, Asking, Bare, Resetting, Stages, rest, guest, device,
     transport, Receives
<1>23. CASE Swap
  BY <1>23 DEF Control, NoLostKick, DrainsTo, LiveInv, Live, KickInv, ParkInv,
     ChanInv, Sent, Asking, Bare, Resetting, Stages, Swap, guest, device, transport, thread
<1>24. CASE Drained
  BY <1>24 DEF Control, LiveInv, Live, Stages, Resetting, TypeOK, ControlTypes,
     Drained, guest, device, transport, thread
<1>25. CASE Enter
  BY <1>25 DEF Control, NoLostKick, DrainsTo, LiveInv, Live, KickInv, ParkInv,
     ChanInv, Sent, Asking, Bare, Resetting, Stages, Enter, NextQueue, guest, device,
     transport, thread
<1>26. CASE Needs
  BY <1>26 DEF Control, LiveInv, Live, Stages, Resetting, TypeOK, ControlTypes,
     Needs, NextQueue, guest, device, transport, thread
<1>27. CASE NotifyQueue
  BY <1>27 DEF Control, LiveInv, Live, Stages, Resetting, TypeOK, ControlTypes,
     NotifyQueue, NextQueue, guest, device, transport, thread
<1>28. CASE UNCHANGED vars
  BY <1>1, <1>28 DEF vars, guest, device, transport, thread
<1> QED
  BY <1>3, <1>4, <1>5, <1>6, <1>7, <1>8, <1>9, <1>10, <1>11, <1>12, <1>13, <1>14, <1>15,
     <1>16, <1>17, <1>18, <1>19, <1>20, <1>21, <1>22, <1>23, <1>24, <1>25, <1>26, <1>27,
     <1>28, SMTT(60) DEF Next, CallerStep, WorkerStep

\* OwnInv survives a step.
LEMMA StepOwn == Control /\ [Next]_vars => OwnInv'
<1> SUFFICES ASSUME Control, [Next]_vars PROVE OwnInv'
  BY Zenon
<1> USE Zenon
<1>1. CASE UNCHANGED <<activated, pending, kicked, worker, index>>
  BY <1>1 DEF Control, OwnInv
<1>2. CASE worker' \in Stages /\ worker \in Stages /\ UNCHANGED <<activated, pending, kicked,
           index>>
  BY <1>2 DEF Control, OwnInv, Stages
<1>3. ASSUME NEW q \in Queue, Publish(q) \/ Submission(q) \/ Handling(q) PROVE OwnInv'
  <2>1. CASE Publish(q) \/ Check(q) \/ Interrupted(q) \/ TakeUsed(q) \/ AskInterrupt(q)
             \/ LookAgain(q)
    BY <1>1, <2>1, ZenonT(60) DEF Publish, Check, Interrupted, TakeUsed, AskInterrupt,
       LookAgain, guest, device, transport, thread
  <2>2. CASE Notify(q)
    BY <2>2, ZenonT(30) DEF Control, OwnInv, LiveInv, Stages, Resetting, Notify, guest,
       device, transport, thread
  <2> QED BY <1>3, <2>1, <2>2 DEF Submission, Handling
<1>4. CASE Schedule \/ SendKick \/ DeviceReset \/ ReadCapabilities \/ ReadCommon \/ Freeze
  BY <1>1, <1>4 DEF Schedule, Call, Return, SendKick, DeviceReset, ReadCapabilities,
     ReadCommon, Freeze, guest, device, transport, thread
<1>5. CASE Save \/ Thaw
  BY <1>1, <1>5, ZenonT(60) DEF Save, Thaw, Call, guest, device, transport, thread
<1>6. CASE Pop \/ Complete \/ Arm \/ Recheck
  BY <1>2, <1>6 DEF Stages, Pop, Complete, Arm, Recheck, guest, device, transport,
     thread
<1>7. CASE Rendezvous
  BY <1>7, ZenonT(30) DEF Control, OwnInv, LiveInv, Stages, Resetting, Rendezvous, Call,
     guest, device, transport, thread
<1>8. CASE ClearPending
  BY <1>8 DEF Control, OwnInv, LiveInv, Stages, Resetting, ClearPending, Call,
     guest, device, transport, thread
<1>9. CASE Restore
  BY <1>9 DEF Control, OwnInv, LiveInv, Stages, Resetting, Restore, Call, guest,
     device, transport, thread, DeviceHeld
<1>10. CASE StatusZero
  BY <1>10 DEF Control, OwnInv, LiveInv, Stages, Resetting, StatusZero, Call,
     Outdated, guest, device, transport, thread, DriverIdle
<1>11. CASE Activate
  BY <1>11 DEF Control, OwnInv, LiveInv, Stages, Resetting, Activate, guest, device,
     transport, thread, DeviceHeld
<1>12. CASE Reload
  BY <1>12 DEF Control, OwnInv, LiveInv, Stages, Resetting, Reload, Call, Outdated,
     guest, device, transport, thread
<1>13. CASE TakeKick
  BY <1>13, TakeKickChan, ZenonT(30) DEF Control, OwnInv, LiveInv, Stages, Resetting, rest,
     guest, device, transport
<1>14. CASE TakeBarrier
  BY <1>14, TakeBarrierChan, ZenonT(30) DEF Control, OwnInv, LiveInv, Stages, Resetting, rest,
     guest, device, transport
<1>15. CASE TakeQuiesce
  BY <1>15, TakeQuiesceChan, ZenonT(30) DEF Control, OwnInv, LiveInv, Stages, Resetting, rest,
     guest, device, transport
<1>16. CASE TakeResume
  BY <1>16, TakeResumeChan, ZenonT(30) DEF Control, OwnInv, LiveInv, Stages, Resetting, rest,
     guest, device, transport
<1>17. CASE Swap
  BY <1>17 DEF Control, OwnInv, LiveInv, Stages, Resetting, Swap, guest, device, transport,
     thread
<1>18. CASE Drained
  BY <1>18 DEF Control, OwnInv, LiveInv, Stages, Resetting, Drained, guest, device, transport,
     thread
<1>19. CASE Enter
  BY <1>19 DEF Control, OwnInv, LiveInv, Stages, Resetting, Enter, NextQueue, guest,
     device, transport, thread
<1>20. CASE Needs
  BY <1>20 DEF Control, OwnInv, LiveInv, Stages, Resetting, Needs, NextQueue, guest,
     device, transport, thread
<1>21. CASE NotifyQueue
  BY <1>21 DEF Control, OwnInv, LiveInv, Stages, Resetting, NotifyQueue, NextQueue,
     guest, device, transport, thread
<1>22. CASE UNCHANGED vars
  BY <1>1, <1>22 DEF vars, guest, device, transport, thread
<1> QED
  BY <1>3, <1>4, <1>5, <1>6, <1>7, <1>8, <1>9, <1>10, <1>11, <1>12, <1>13, <1>14, <1>15,
     <1>16, <1>17, <1>18, <1>19, <1>20, <1>21, <1>22, SMTT(30) DEF Next, CallerStep, WorkerStep

\* A step leaves the rings' types alone.
LEMMA StepRingTypes == Control /\ [Next]_vars => RingTypes'
<1> SUFFICES ASSUME Control, [Next]_vars PROVE RingTypes'
  BY Zenon
<1> USE Zenon
<1> DEFINE data == <<avail, used, seen, availEvent, usedEvent, next, added, image>>
<1>0. RingTypes /\ Zero \in [Queue -> Index]
  BY IndexSucc DEF Control, TypeOK, Zero
<1>1. CASE UNCHANGED data
  BY <1>0, <1>1 DEF RingTypes
<1>2. ASSUME NEW q \in Queue, Publish(q) \/ Submission(q) \/ Handling(q) PROVE RingTypes'
  <2>1. CASE Publish(q)
    <3>1. avail' \in [Queue -> Index]
      BY <1>0, <2>1, IndexSucc DEF Publish, RingTypes
    <3> QED BY <1>0, <2>1, <3>1, SMTT(60) DEF Publish, RingTypes, device, transport
  <2>2. CASE TakeUsed(q)
    <3>1. seen' \in [Queue -> Index]
      BY <1>0, <2>2, IndexSucc, SMTT(60) DEF TakeUsed, RingTypes
    <3> QED BY <1>0, <2>2, <3>1, SMTT(30) DEF TakeUsed, RingTypes, device, transport
  <2>3. CASE AskInterrupt(q)
    <3>1. usedEvent' \in [Queue -> Index]
      BY <1>0, <2>3, ZenonT(60) DEF AskInterrupt, RingTypes
    <3> QED BY <1>0, <2>3, <3>1, SMTT(60) DEF AskInterrupt, RingTypes, device, transport
  <2>4. CASE Check(q) \/ Notify(q) \/ Interrupted(q) \/ LookAgain(q)
    BY <1>1, <2>4 DEF Check, Notify, Interrupted, LookAgain, guest, device, transport
  <2> QED BY <1>2, <2>1, <2>2, <2>3, <2>4, SMTT(60) DEF Submission, Handling
<1>3. CASE DeviceReset
  BY <1>0, <1>3, ZenonT(60) DEF DeviceReset, RingTypes, guest
<1>4. CASE Activate
  BY <1>0, <1>4 DEF Activate, RingTypes
<1>5. CASE Save
  <2>1. image' \in [next : [Queue -> Index], activated : BOOLEAN]
    BY <1>0, <1>5 DEF Save, RingTypes, Control, TypeOK, ControlTypes
  <2> QED BY <1>0, <1>5, <2>1, ZenonT(60) DEF Save, RingTypes, guest, device
<1>6. CASE Restore
  <2>1. image # <<>>
    BY <1>6 DEF Restore, Control, ParkInv, Resetting
  <2>2. next' \in [Queue -> Index]
    BY <1>0, <1>6, <2>1 DEF Restore, RingTypes
  <2> QED BY <1>0, <1>6, <2>2, SMTT(30) DEF Restore, RingTypes, guest
<1>7. CASE Thaw
  BY <1>0, <1>7 DEF Thaw, RingTypes, guest, device
<1>8. CASE Pop
  <2>1. next' \in [Queue -> Index]
    BY <1>0, <1>8, IndexSucc, SMTT(60) DEF Pop, RingTypes, Control, IndexInv, Stages
  <2> QED BY <1>0, <1>8, <2>1, SMTT(30) DEF Pop, RingTypes, guest, transport
<1>9. CASE Complete
  <2>1. used' \in [Queue -> Index] /\ added' \in [Queue -> Index]
    BY <1>0, <1>9, IndexSucc DEF Complete, RingTypes, Control, IndexInv, Stages
  <2> QED BY <1>0, <1>9, <2>1, SMTT(60) DEF Complete, RingTypes, guest, transport
<1>10. CASE Arm
  <2>1. availEvent' \in [Queue -> Index]
    BY <1>0, <1>10 DEF Arm, RingTypes, Control, IndexInv, Stages
  <2> QED BY <1>0, <1>10, <2>1, SMTT(60) DEF Arm, RingTypes, device, transport
<1>11. CASE Needs
  <2>1. added' \in [Queue -> Index]
    BY <1>0, <1>11, IndexSucc, ZenonT(60) DEF Needs, RingTypes
  <2> QED BY <1>0, <1>11, <2>1, SMTT(60) DEF Needs, RingTypes, guest, transport
<1>12. CASE Schedule \/ SendKick \/ Rendezvous \/ ClearPending \/ ReadCapabilities \/ ReadCommon
  BY <1>1, <1>12 DEF Schedule, SendKick, Rendezvous, ClearPending, ReadCapabilities, ReadCommon,
                     guest, device
<1>13. CASE StatusZero \/ Freeze \/ Reload
  BY <1>1, <1>13 DEF StatusZero, Freeze, Reload, guest, device
<1>14. CASE TakeKick \/ TakeBarrier \/ TakeQuiesce \/ TakeResume
  BY <1>1, <1>14 DEF TakeKick, TakeBarrier, TakeQuiesce, TakeResume, guest, device,
     transport
<1>15. CASE Swap \/ Drained \/ Enter \/ Recheck \/ NotifyQueue
  BY <1>1, <1>15 DEF Swap, Drained, Enter, Recheck, NotifyQueue, guest, device,
     transport
<1>16. CASE UNCHANGED vars
  BY <1>1, <1>16 DEF vars, guest, device, transport
<1> HIDE DEF data
<1> QED
  BY <1>2, <1>3, <1>4, <1>5, <1>6, <1>7, <1>8, <1>9, <1>10, <1>11, <1>12, <1>13, <1>14, <1>15,
     <1>16, SMTT(30) DEF Next, CallerStep, WorkerStep

\* Control holds initially.
LEMMA InitControl == Init => Control
<1> SUFFICES ASSUME Init PROVE Control
  BY Zenon
<1> USE Zenon DEF Init
<1>1. Zero \in [Queue -> Index] /\ \A q \in Queue : Zero[q] = 0
  BY IndexSucc DEF Zero
<1>2. chan = <<>> /\ chan \in Seq(Command) /\ Len(chan) = 0
  BY EmptySeq
<1>3. TypeOK /\ IndexInv
  BY <1>1, <1>2, QueueAssumption, SMTT(60)
     DEF TypeOK, RingTypes, ControlTypes, IndexInv, Command, Queue, Stages
<1>4. ParkInv /\ ChanInv /\ KickInv /\ NoLostKick /\ PauseInv
  BY <1>2, SMT DEF ParkInv, ChanInv, KickInv, NoLostKick, PauseInv, Sent, Asking, Bare, Resetting
<1>5. LiveInv /\ OwnInv
  BY DEF LiveInv, OwnInv, Live, Stages, Resetting
<1> QED BY <1>3, <1>4, <1>5 DEF Control

\* Control is inductive.
LEMMA StepControl == Control /\ [Next]_vars => Control'
BY StepRingTypes, StepControlTypes, StepIndex, StepPark, StepChan, StepKick, StepLost,
   StepPause, StepLive, StepOwn, ZenonT(30)
   DEF Control, TypeOK, RingTypes

\* The control invariant holds of every behaviour of the device.
THEOREM ControlHolds == Spec => []Control
BY InitControl, StepControl, PTL DEF Spec

\* Every variable of the device, its transport and its worker keeps its type,
\* the ring indices inside their wrap-around included.
THEOREM QueueTypeCorrect == Spec => []TypeOK
<1>1. Control => TypeOK
  BY Zenon DEF Control
<1> QED BY <1>1, ControlHolds, PTL

\* A queue marked by queue_notify is never forgotten by Pending::drain.
THEOREM NoLostKickHolds == Spec => []NoLostKick
<1>1. Control => NoLostKick
  BY Zenon DEF Control
<1> QED BY <1>1, ControlHolds, PTL

\* QueueWorker::reset leaves no mark and no drain behind for the device's next
\* activation.
THEOREM OwnKicksHolds == Spec => []OwnKicks
<1>1. Control => OwnKicks
  BY Zenon DEF Control, OwnInv, LiveInv, OwnKicks
<1> QED BY <1>1, ControlHolds, PTL

-----------------------------------------------------------------------------
(* The rings. *)

\* The ring position the device has, or will have again after a restore.
Position(q) == IF image # <<>> THEN image.next[q] ELSE next[q]

\* A request of q has been popped and not completed.
InHand(q) == worker = "complete" /\ index = q

\* The three indices of a ring are in order, seen, used and avail, inside its size;
\* num_added counts only inside process_queue; and the device's position is used, or
\* one ahead with a request in hand.
RingAt(q) ==
    /\ Ahead(avail[q], seen[q]) <= Size[q]
    /\ Ahead(used[q], seen[q]) + Ahead(avail[q], used[q]) = Ahead(avail[q], seen[q])
    /\ added[q] + Ahead(avail[q], used[q]) <= IndexMod - 1
    /\ ~(worker \in Stages \ {"notify"} /\ index = q) => added[q] = 0
    /\ Live \/ handle # "none" =>
         Position(q) = IF InHand(q) THEN Succ(used[q]) ELSE used[q]
    /\ InHand(q) => avail[q] # used[q]

\* Every ring is in order.
RingInv == \A q \in Queue : RingAt(q)

\* Somebody is going to look at q.
Owed(q) ==
    \/ submit[q] = "kick" /\ ~(caller \in {"stored", "send"} /\ calledFor = q)
    \/ submit[q] = "check" /\ KickWanted(q)
    \/ q \in pending
    \/ worker \in {"lock", "pop", "complete", "arm", "recheck"} /\ index = q

\* The device asks for a kick at its position unless it is busy there, and a
\* request past the position has somebody who will look.
RequestAt(q) ==
    /\ availEvent[q] = Position(q) \/ (worker \in {"pop", "complete", "arm"} /\ index = q)
    /\ avail[q] # Position(q) => Owed(q)

\* RequestAt of every queue, while the device has queues.
RequestInv == Live => \A q \in Queue : RequestAt(q)

\* Outside its handler's loop the driver asks for an interrupt at what it has
\* seen; with no interrupt on the way, what it has not seen was just added.
CompletionAt(q) ==
    /\ handler[q] \in {"idle", "look"} => usedEvent[q] = seen[q]
    /\ Live /\ handler[q] = "idle" /\ q \notin irq /\ ~(worker = "notify" /\ index = q) =>
         Ahead(used[q], seen[q]) <= added[q]

\* CompletionAt of every queue.
CompletionInv == \A q \in Queue : CompletionAt(q)

\* The inductive invariant of the rings, beside Control.
Data == RingInv /\ RequestInv /\ CompletionInv

\* A ring keeps its shape when only its surroundings move.
LEMMA RingKept ==
    ASSUME RingInv, NEW q \in Queue,
           UNCHANGED <<avail, used, seen, added, worker, index>>,
           Position(q)' = Position(q),
           (Live \/ handle # "none")' => Live \/ handle # "none"
    PROVE  RingAt(q)'
<1>1. RingAt(q)
  BY Zenon DEF RingInv
<1> QED BY <1>1 DEF RingAt, InHand

\* A ring keeps its shape when the worker comes to it, leaves it or looks at it again.
LEMMA RingPassed ==
    ASSUME RingInv, NEW q \in Queue,
           UNCHANGED <<avail, used, seen, added, next, image, handle, activated>>,
           worker # "complete" /\ worker' # "complete",
           \/ worker \notin Stages \ {"notify"}
           \/ worker' \in Stages \ {"notify"} /\ index' = index
    PROVE  RingAt(q)'
<1>1. RingAt(q)
  BY Zenon DEF RingInv
<1> QED BY <1>1 DEF RingAt, InHand, Position, Live

\* RingInv survives a step.
LEMMA StepRing == Control /\ Data /\ [Next]_vars => RingInv'
<1> SUFFICES ASSUME Control, Data, [Next]_vars PROVE RingInv'
  BY Zenon
<1> USE Zenon
<1>0. RingInv
  BY DEF Data
<1>1. CASE UNCHANGED <<avail, used, seen, added, worker, index, next, image, handle, activated>>
  <2> SUFFICES ASSUME NEW q \in Queue PROVE RingAt(q)'
    BY DEF RingInv
  <2>1. Position(q)' = Position(q) /\ ((Live \/ handle # "none")' => Live \/ handle # "none")
    BY <1>1 DEF Position, Live
  <2> QED BY <1>0, <1>1, <2>1, RingKept
<1>2. CASE /\ UNCHANGED <<avail, used, seen, added, next, image, handle, activated>>
           /\ worker # "complete" /\ worker' # "complete"
           /\ \/ worker \notin Stages \ {"notify"}
              \/ worker' \in Stages \ {"notify"} /\ index' = index
  BY <1>0, <1>2, RingPassed DEF RingInv
<1>3. ASSUME NEW q \in Queue, Publish(q) \/ Submission(q) \/ Handling(q) PROVE RingInv'
  <2>1. CASE Publish(q)
    <3> SUFFICES ASSUME NEW p \in Queue PROVE RingAt(p)'
      BY DEF RingInv
    <3>1. /\ avail' = [avail EXCEPT ![q] = Succ(@)]
          /\ UNCHANGED <<seen, used, added, worker, index, next, image, handle, activated>>
      BY <2>1 DEF Publish, device, transport, thread
    <3>2. RingAt(p)
      BY DEF Data, RingInv
    <3>3. CASE p # q
      <4>1. avail'[p] = avail[p]
        BY <3>1, <3>3 DEF Control, TypeOK, RingTypes
      <4> QED BY <3>1, <3>2, <4>1 DEF RingAt, Position, InHand, Live
    <3>4. CASE p = q
      <4>1. avail'[p] = Succ(avail[p]) /\ avail[p] \in Index /\ seen[p] \in Index
            /\ used[p] \in Index /\ added[p] \in Index
        BY <3>1, <3>4 DEF Control, TypeOK, RingTypes
      <4>2. Ahead(avail[p], seen[p]) < Size[p] /\ added[p] + Ahead(avail[p], used[p]) < IndexMod - 1
        BY <2>1, <3>4 DEF Publish, WithinCount
      <4>3. Ahead(avail[p], seen[p]) \in Nat /\ Ahead(avail[p], used[p]) \in Nat
            /\ Ahead(used[p], seen[p]) \in Nat /\ added[p] \in Nat
        BY <4>1, AheadFacts, IndexNat, ZenonT(30)
      <4>4. Ahead(avail[p], used[p]) < IndexMod - 1 /\ Ahead(avail[p], seen[p]) < IndexMod - 1
        BY <4>2, <4>3, SizeFacts, IndexNat, SMT
      <4>5. /\ Ahead(avail'[p], used[p]) = Ahead(avail[p], used[p]) + 1
            /\ Ahead(avail'[p], seen[p]) = Ahead(avail[p], seen[p]) + 1
        BY <4>1, <4>4, AheadGrows
      <4>6. avail'[p] # used[p]
        BY <4>1, <4>3, <4>5, AheadFacts, SMT
      <4> QED BY <3>1, <3>2, <4>2, <4>3, <4>5, <4>6, SizeFacts, IndexNat, SMTT(30)
              DEF RingAt, Position, InHand, Live
    <3> QED BY <3>3, <3>4
  <2>2. CASE TakeUsed(q)
    <3> SUFFICES ASSUME NEW p \in Queue PROVE RingAt(p)'
      BY DEF RingInv
    <3>1. UNCHANGED <<avail, used, added, worker, index, next, image, handle, activated>>
      BY <2>2 DEF TakeUsed, device, transport, thread
    <3>2. RingAt(p)
      BY DEF Data, RingInv
    <3>3. CASE seen'[p] = seen[p]
      BY <3>1, <3>2, <3>3 DEF RingAt, Position, InHand, Live
    <3>4. CASE seen'[p] # seen[p]
      <4>1. /\ seen'[p] = Succ(seen[p]) /\ seen[p] # used[p]
            /\ avail[p] \in Index /\ seen[p] \in Index /\ used[p] \in Index
        <5>1. seen' = seen \/ (seen' = [seen EXCEPT ![q] = Succ(@)] /\ seen[q] # used[q])
          BY <2>2 DEF TakeUsed
        <5>2. /\ avail[p] \in Index /\ seen[p] \in Index /\ used[p] \in Index
              /\ seen \in [Queue -> Index]
          BY DEF Control, TypeOK, RingTypes
        <5> QED BY <3>4, <5>1, <5>2
      <4>2. Ahead(avail[p], seen[p]) \in Nat /\ Ahead(avail[p], used[p]) \in Nat
            /\ Ahead(used[p], seen[p]) \in Nat \ {0}
        BY <4>1, AheadFacts, IndexNat, ZenonT(30)
      <4>3. avail[p] # seen[p]
        BY <3>2, <4>1, <4>2, AheadFacts, SMT DEF RingAt
      <4>4. /\ Ahead(avail[p], seen'[p]) = Ahead(avail[p], seen[p]) - 1
            /\ Ahead(used[p], seen'[p]) = Ahead(used[p], seen[p]) - 1
        BY <4>1, <4>3, AheadShrinks
      <4> QED BY <3>1, <3>2, <4>2, <4>4, SizeFacts, SMT DEF RingAt, Position, InHand, Live
    <3> QED BY <3>3, <3>4
  <2>3. CASE Check(q) \/ Notify(q) \/ Interrupted(q) \/ AskInterrupt(q) \/ LookAgain(q)
    BY <1>1, <2>3 DEF Check, Notify, Interrupted, AskInterrupt, LookAgain, guest, device,
       transport,
                      thread
  <2> QED BY <1>3, <2>1, <2>2, <2>3 DEF Submission, Handling
<1>4. CASE Schedule \/ SendKick \/ ClearPending \/ ReadCapabilities \/ ReadCommon \/ Freeze
  BY <1>1, <1>4 DEF Schedule, SendKick, ClearPending, ReadCapabilities, ReadCommon, Freeze,
                    guest, device, thread
<1>5. CASE Rendezvous
  BY <1>2, <1>5 DEF Rendezvous, guest, device, Stages
<1>6. CASE TakeKick \/ TakeBarrier \/ TakeQuiesce \/ TakeResume
  <2>1. worker = "recv" /\ worker' \in {"recv", "ack", "drain"} /\ UNCHANGED rest
    BY <1>6, TakeKickChan, TakeBarrierChan, TakeQuiesceChan, TakeResumeChan DEF Control
  <2> QED BY <1>2, <2>1 DEF rest, guest, device, transport, Stages
<1>7. CASE Swap \/ Drained \/ Enter
  BY <1>2, <1>7 DEF Swap, Drained, Enter, NextQueue, guest, device, transport, Stages
<1>8. CASE Arm \/ Recheck \/ NotifyQueue
  BY <1>2, <1>8 DEF Arm, Recheck, NotifyQueue, NextQueue, guest, device, transport, Stages
<1>9. CASE StatusZero
  <2>1. /\ UNCHANGED <<avail, used, seen, added, worker, index, next, image>>
        /\ image = <<>> /\ (handle' # "none" => handle # "none") /\ activated' = FALSE
    BY <1>9, ImageRest DEF StatusZero, Outdated, guest, thread
  <2>2. ASSUME NEW q \in Queue PROVE RingAt(q)'
    <3>1. Position(q)' = Position(q) /\ ((Live \/ handle # "none")' => Live \/ handle # "none")
      BY <2>1 DEF Position, Live
    <3> QED BY <1>0, <2>1, <3>1, RingKept
  <2> QED BY <2>2 DEF RingInv
<1>10. CASE Save \/ Thaw
  <2>1. /\ UNCHANGED <<avail, used, seen, added, worker, index, next, handle, activated>>
        /\ image # <<>> => image.next = next /\ image.activated = activated
    BY <1>10 DEF Save, Thaw, guest, device, thread, Control, LiveInv
  <2>2. image' # <<>> => image'.next = next /\ image'.activated = activated
    BY <1>10, SMT DEF Save, Thaw
  <2>3. ASSUME NEW q \in Queue PROVE RingAt(q)'
    <3>1. Position(q)' = Position(q) /\ ((Live \/ handle # "none")' => Live \/ handle # "none")
      BY <2>1, <2>2 DEF Position, Live
    <3> QED BY <1>0, <2>1, <3>1, RingKept
  <2> QED BY <2>3 DEF RingInv
<1>11. CASE Reload
  <2>1. /\ UNCHANGED <<avail, used, seen, added, worker, index, next, image>>
        /\ image # <<>> /\ image.activated = activated
        /\ handle' # "none" => handle # "none"
    BY <1>11 DEF Reload, Outdated, guest, thread, Control, LiveInv
  <2>2. ASSUME NEW q \in Queue PROVE RingAt(q)'
    <3>1. Position(q)' = Position(q)
      BY <2>1 DEF Position
    <3>2. (Live \/ handle # "none")' => Live \/ handle # "none"
      BY <1>11, <2>1 DEF Live, Reload
    <3> QED BY <1>0, <2>1, <3>1, <3>2, RingKept
  <2> QED BY <2>2 DEF RingInv
<1>12. CASE Restore
  <2>1. /\ UNCHANGED <<avail, used, seen, added, worker, index, image>> /\ image # <<>>
        /\ activated' = image.activated
        /\ handle' # "none" => image.activated
    BY <1>12 DEF Restore, guest, thread, Control, ParkInv, Resetting
  <2>2. ASSUME NEW q \in Queue PROVE RingAt(q)'
    <3>1. Position(q)' = Position(q) /\ ((Live \/ handle # "none")' => Live \/ handle # "none")
      BY <2>1 DEF Position, Live
    <3> QED BY <1>0, <2>1, <3>1, RingKept
  <2> QED BY <2>2 DEF RingInv
<1>13. CASE DeviceReset
  <2>1. /\ UNCHANGED <<avail, used, seen, worker, index, image, activated>>
        /\ worker \notin Stages /\ handle' = "none" /\ ~activated
        /\ \A q \in Queue : added'[q] = 0
    BY <1>13 DEF DeviceReset, DeviceHeld, guest, thread, Zero, Control, LiveInv, Resetting
  <2> SUFFICES ASSUME NEW q \in Queue PROVE RingAt(q)'
    BY DEF RingInv
  <2>2. RingAt(q) /\ added'[q] = 0 /\ added[q] = 0
    BY <1>0, <2>1 DEF RingInv, RingAt
  <2>3. (Live \/ handle # "none")' => Live /\ Position(q)' = Position(q)
    BY <2>1 DEF Live, Position
  <2> QED BY <2>1, <2>2, <2>3, SMTT(30) DEF RingAt, InHand, Stages
<1>14. CASE Activate
  <2>1. /\ UNCHANGED <<worker, index, image>> /\ worker \notin Stages /\ image = <<>>
        /\ \A q \in Queue : /\ avail'[q] = 0 /\ used'[q] = 0 /\ seen'[q] = 0
                            /\ added'[q] = 0 /\ next'[q] = 0
    BY <1>14, ImageRest DEF Activate, DeviceHeld, thread, Zero
  <2>2. Ahead(0, 0) = 0
    BY AheadFacts, IndexSucc
  <2>3. 0 <= IndexMod - 1 /\ \A q \in Queue : 0 <= Size[q]
    BY IndexAssumption, SizeFacts, SMT
  <2> SUFFICES ASSUME NEW q \in Queue PROVE RingAt(q)'
    BY DEF RingInv
  <2>4. Position(q)' = 0 /\ ~InHand(q)'
    BY <2>1 DEF Position, InHand, Stages
  <2> QED BY <2>1, <2>2, <2>3, <2>4, SMT DEF RingAt
<1>15. CASE Pop
  <2> SUFFICES ASSUME NEW p \in Queue PROVE RingAt(p)'
    BY DEF RingInv
  <2>1. /\ worker = "pop" /\ handle # "none" /\ image = <<>>
        /\ UNCHANGED <<avail, used, seen, added, index, image, handle, activated>>
    BY <1>15, ImageRest DEF Pop, guest, transport, Stages
  <2>2. RingAt(p)
    BY DEF Data, RingInv
  <2>3. Position(p) = used[p]
    BY <2>1, <2>2 DEF RingAt, InHand
  <2>4. CASE next[index] # avail[index]
    <3>1. worker' = "complete" /\ next' = [next EXCEPT ![index] = Succ(@)]
      BY <1>15, <2>4 DEF Pop
    <3>2. next'[p] = IF p = index THEN Succ(next[p]) ELSE next[p]
      BY <3>1 DEF Control, TypeOK, RingTypes
    <3> QED BY <2>1, <2>2, <2>3, <2>4, <3>1, <3>2 DEF RingAt, Position, InHand, Live, Stages
  <2>5. CASE next[index] = avail[index]
    <3>1. worker' = "arm" /\ next' = next
      BY <1>15, <2>5 DEF Pop
    <3> QED BY <2>1, <2>2, <2>3, <3>1 DEF RingAt, Position, InHand, Live, Stages
  <2> QED BY <2>4, <2>5
<1>16. CASE Complete
  <2> SUFFICES ASSUME NEW p \in Queue PROVE RingAt(p)'
    BY DEF RingInv
  <2>1. /\ worker = "complete" /\ worker' = "pop" /\ handle # "none" /\ image = <<>>
        /\ UNCHANGED <<avail, seen, next, index, image, handle, activated>>
        /\ used' = [used EXCEPT ![index] = Succ(@)]
        /\ added' = [added EXCEPT ![index] = Succ(@)]
    BY <1>16, ImageRest DEF Complete, guest, transport, Stages
  <2>2. RingAt(p)
    BY DEF Data, RingInv
  <2>3. CASE p # index
    <3>1. used'[p] = used[p] /\ added'[p] = added[p]
      BY <2>1, <2>3 DEF Control, TypeOK, RingTypes
    <3> QED BY <2>1, <2>2, <2>3, <3>1 DEF RingAt, Position, InHand, Live, Stages
  <2>4. CASE p = index
    <3>1. /\ used'[p] = Succ(used[p]) /\ added'[p] = Succ(added[p]) /\ InHand(p)
          /\ avail[p] \in Index /\ seen[p] \in Index /\ used[p] \in Index /\ added[p] \in Index
      BY <2>1, <2>4 DEF Control, TypeOK, RingTypes, InHand
    <3>2. avail[p] # used[p] /\ Position(p) = Succ(used[p])
      BY <2>1, <2>2, <3>1 DEF RingAt
    <3>3. /\ Ahead(avail[p], seen[p]) \in Nat /\ Ahead(avail[p], used[p]) \in Nat \ {0}
          /\ Ahead(used[p], seen[p]) \in Nat /\ added[p] \in Nat
      BY <3>1, <3>2, AheadFacts, IndexNat, ZenonT(30)
    <3>4. Ahead(used[p], seen[p]) < IndexMod - 1 /\ added[p] # IndexMod - 1
      BY <2>2, <3>3, SizeFacts, IndexNat, SMT DEF RingAt
    <3>5. /\ Ahead(avail[p], used'[p]) = Ahead(avail[p], used[p]) - 1
          /\ Ahead(used'[p], seen[p]) = Ahead(used[p], seen[p]) + 1
          /\ added'[p] = added[p] + 1
      BY <3>1, <3>2, <3>4, AheadShrinks, AheadGrows, IndexSucc, SMT
    <3> QED BY <2>1, <2>2, <2>4, <3>1, <3>2, <3>3, <3>5, SizeFacts, IndexNat, SMTT(30)
            DEF RingAt, Position, InHand, Live, Stages
  <2> QED BY <2>3, <2>4
<1>17. CASE Needs
  <2> SUFFICES ASSUME NEW p \in Queue PROVE RingAt(p)'
    BY DEF RingInv
  <2>1. /\ worker = "needs" /\ worker' \in {"notify", "drain"}
        /\ UNCHANGED <<avail, used, seen, next, image, handle, activated>>
        /\ added' = [added EXCEPT ![index] = 0]
    BY <1>17 DEF Needs, NextQueue, guest, transport
  <2>2. RingAt(p)
    BY DEF Data, RingInv
  <2>3. added'[p] = 0
    BY <2>1, <2>2 DEF RingAt, Control, TypeOK, RingTypes
  <2>4. Ahead(avail[p], used[p]) <= IndexMod - 1
    BY AheadFacts, IndexNat, ZenonT(30) DEF Control, TypeOK, RingTypes
  <2>5. Ahead(avail[p], used[p]) \in Nat
    BY AheadFacts, IndexNat, ZenonT(30) DEF Control, TypeOK, RingTypes
  <2> QED BY <2>1, <2>2, <2>3, <2>4, <2>5, SMT DEF RingAt, Position, InHand, Live, Stages
<1>18. CASE UNCHANGED vars
  BY <1>1, <1>18 DEF vars, guest, device, transport, thread
<1> QED
  BY <1>3, <1>4, <1>5, <1>6, <1>7, <1>8, <1>9, <1>10, <1>11, <1>12, <1>13, <1>14, <1>15,
     <1>16, SMTT(30),
     <1>17, <1>18 DEF Next, CallerStep, WorkerStep

\* What a queue is owed stays owed when nothing on it moves.
LEMMA RequestKept ==
    ASSUME RequestInv, Live, NEW q \in Queue,
           UNCHANGED <<avail, availEvent, submit, pending>>, Position(q)' = Position(q),
           caller' \notin {"stored", "send"} \/ UNCHANGED <<caller, calledFor>>,
           \/ UNCHANGED <<worker, index>>
           \/ worker \notin {"lock", "pop", "complete", "arm", "recheck"}
           \/ worker = "complete" /\ worker' = "pop" /\ index' = index
    PROVE  RequestAt(q)'
<1> USE Zenon
<1>1. RequestAt(q)
  BY DEF RequestInv
<1>2. availEvent[q] = Position(q) \/ (worker \in {"pop", "complete", "arm"} /\ index = q)
  BY <1>1 DEF RequestAt
<1>3. (availEvent[q] = Position(q) \/ (worker \in {"pop", "complete", "arm"} /\ index = q))'
  BY <1>2
<1>4. Owed(q) => Owed(q)'
  BY DEF Owed, KickWanted
<1> QED BY <1>1, <1>3, <1>4 DEF RequestAt

\* RequestInv survives a step.
LEMMA StepRequest == Control /\ Data /\ [Next]_vars => RequestInv'
<1> SUFFICES ASSUME Control, Data, [Next]_vars, Live', NEW p \in Queue PROVE RequestAt(p)'
  BY Zenon DEF RequestInv
<1> USE Zenon
<1>0. RequestInv
  BY DEF Data
<1>1. CASE /\ UNCHANGED <<avail, availEvent, submit, pending, next, image, activated>>
           /\ caller' \notin {"stored", "send"} \/ UNCHANGED <<caller, calledFor>>
           /\ \/ UNCHANGED <<worker, index>>
              \/ worker \notin {"lock", "pop", "complete", "arm", "recheck"}
              \/ worker = "complete" /\ worker' = "pop" /\ index' = index
  <2>1. Live /\ Position(p)' = Position(p)
    BY <1>1 DEF Live, Position
  <2> QED BY <1>0, <1>1, <2>1, RequestKept
<1>2. ASSUME NEW q \in Queue, Publish(q) \/ Submission(q) \/ Handling(q) PROVE RequestAt(p)'
  <2>1. CASE Publish(q)
    <3>1. /\ avail' = [avail EXCEPT ![q] = Succ(@)] /\ submit[q] = "idle"
          /\ submit' = [submit EXCEPT ![q] = "check"] /\ activated
          /\ UNCHANGED <<availEvent, next, image, activated, caller, calledFor, pending, worker,
                         index>>
      BY <2>1 DEF Publish, device, transport, thread
    <3>2. RequestAt(p) /\ Position(p)' = Position(p)
      BY <1>0, <3>1 DEF RequestInv, Live, Position
    <3>3. CASE p # q
      <4>1. avail'[p] = avail[p] /\ submit'[p] = submit[p]
        BY <3>1, <3>3 DEF Control, TypeOK, RingTypes, ControlTypes
      <4> QED BY <3>1, <3>2, <4>1, SMTT(30) DEF RequestAt, Owed, KickWanted
    <3>4. CASE p = q
      <4>1. avail'[p] = Succ(avail[p]) /\ submit'[p] = "check"
        BY <3>1, <3>4 DEF Control, TypeOK, RingTypes, ControlTypes
      <4>2. Owed(p)'
        <5>1. CASE worker \in {"lock", "pop", "complete", "arm", "recheck"} /\ index = p
          BY <3>1, <5>1 DEF Owed
        <5>2. CASE avail[p] # Position(p)
          BY <3>1, <3>2, <3>4, <5>2 DEF RequestAt, Owed
        <5>3. CASE avail[p] = availEvent[p]
          BY <3>1, <4>1, <5>3 DEF Owed, KickWanted
        <5> QED BY <3>2, <5>1, <5>2, <5>3 DEF RequestAt
      <4> QED BY <3>1, <3>2, <4>2, SMTT(30) DEF RequestAt
    <3> QED BY <3>3, <3>4, SMTT(60)
  <2>2. CASE Check(q)
    <3>1. /\ submit[q] = "check"
          /\ submit' = [submit EXCEPT ![q] = IF KickWanted(q) THEN "kick" ELSE "idle"]
          /\ UNCHANGED <<avail, availEvent, next, image, activated, caller, calledFor, pending,
                         worker, index>>
      BY <2>2 DEF Check, device, transport, thread
    <3>2. RequestAt(p) /\ Position(p)' = Position(p)
      BY <1>0, <3>1 DEF RequestInv, Live, Position
    <3>3. Owed(p) => Owed(p)'
      <4>1. CASE p # q
        <5>1. submit'[p] = submit[p]
          BY <3>1, <4>1 DEF Control, TypeOK, ControlTypes
        <5> QED BY <3>1, <5>1 DEF Owed, KickWanted
      <4>2. CASE p = q
        <5>1. submit'[p] = IF KickWanted(p) THEN "kick" ELSE "idle"
          BY <3>1, <4>2 DEF Control, TypeOK, ControlTypes
        <5>2. ~(caller \in {"stored", "send"} /\ calledFor = p)
          BY <3>1, <4>2 DEF Control, LiveInv
        <5> QED BY <3>1, <4>2, <5>1, <5>2, SMTT(30) DEF Owed, KickWanted
      <4> QED BY <4>1, <4>2, SMTT(30)
    <3> QED BY <3>1, <3>2, <3>3 DEF RequestAt
  <2>3. CASE Notify(q)
    <3>1. /\ caller = "idle" /\ caller' = "stored" /\ calledFor' = q
          /\ pending' = pending \union {q}
          /\ UNCHANGED <<avail, availEvent, submit, next, image, activated, worker, index>>
      BY <2>3 DEF Notify, guest, device, thread
    <3>2. RequestAt(p) /\ Position(p)' = Position(p)
      BY <1>0, <3>1 DEF RequestInv, Live, Position
    <3>3. Owed(p) => Owed(p)'
      BY <3>1 DEF Owed, KickWanted
    <3> QED BY <3>1, <3>2, <3>3 DEF RequestAt
  <2>4. CASE Handling(q)
    BY <1>1, <2>4 DEF Handling, Interrupted, TakeUsed, AskInterrupt, LookAgain,
       guest, device,
                      transport, thread
  <2> QED BY <1>2, <2>1, <2>2, <2>3, <2>4 DEF Submission
<1>3. CASE Schedule \/ SendKick
  <2>1. /\ caller \in {"stored", "send"}
        /\ UNCHANGED <<avail, availEvent, next, image, activated, pending, worker, index>>
        /\ \/ caller' = "send" /\ UNCHANGED <<calledFor, submit>>
           \/ caller' = "idle" /\ submit' = [submit EXCEPT ![calledFor] = "idle"]
    BY <1>3 DEF Schedule, SendKick, Call, Return, device, thread
  <2>2. RequestAt(p) /\ Position(p)' = Position(p)
    BY <1>0, <2>1 DEF RequestInv, Live, Position
  <2>3. submit[calledFor] = "kick" /\ (submit'[p] = submit[p] \/ p = calledFor)
    BY <2>1 DEF Control, TypeOK, ControlTypes, LiveInv
  <2>4. Owed(p) => Owed(p)'
    BY <2>1, <2>3 DEF Owed, KickWanted
  <2> QED BY <2>1, <2>2, <2>4, SMTT(30) DEF RequestAt
<1>4. CASE ReadCapabilities \/ ReadCommon \/ Freeze
  BY <1>1, <1>4 DEF ReadCapabilities, ReadCommon, Freeze, Call, guest, device, thread
<1>5. CASE Rendezvous
  BY <1>1, <1>5 DEF Rendezvous, Call, guest, device
<1>6. CASE TakeKick \/ TakeBarrier \/ TakeQuiesce \/ TakeResume
  <2>1. worker = "recv" /\ UNCHANGED rest
    BY <1>6, TakeKickChan, TakeBarrierChan, TakeQuiesceChan, TakeResumeChan DEF Control
  <2> QED BY <1>1, <2>1 DEF rest, guest, device, transport
<1>7. CASE Drained \/ Complete \/ Needs \/ NotifyQueue
  BY <1>1, <1>7 DEF Drained, Complete, Needs, NotifyQueue, guest, device, transport
<1>8. CASE ClearPending
  <2>1. pending = {}
    BY <1>8 DEF ClearPending, Control, KickInv, Bare
  <2> QED BY <1>1, <1>8, <2>1 DEF ClearPending, Call, guest, device, thread
<1>9. CASE StatusZero
  BY <1>9, ImageRest DEF StatusZero, Live
<1>10. CASE Save \/ Thaw
  <2>1. /\ UNCHANGED <<avail, availEvent, submit, pending, worker, index, next, activated>>
        /\ image # <<>> => image.next = next /\ image.activated = activated
        /\ caller' \notin {"stored", "send"}
    BY <1>10 DEF Save, Thaw, Call, guest, device, thread, Control, LiveInv
  <2>2. image' # <<>> => image'.next = next /\ image'.activated = activated
    BY <1>10, SMT DEF Save, Thaw
  <2>3. Live /\ Position(p)' = Position(p)
    BY <2>1, <2>2 DEF Position, Live
  <2> QED BY <1>0, <2>1, <2>3, RequestKept, SMTT(30)
<1>11. CASE Reload \/ Restore \/ DeviceReset
  <2>1. /\ UNCHANGED <<avail, availEvent, submit, pending, worker, index, image>>
        /\ caller' \notin {"stored", "send"}
    BY <1>11 DEF Reload, Restore, DeviceReset, Call, guest, thread
  <2>2. activated' => image # <<>> /\ image.activated
    BY <1>11, ZenonT(30) DEF Reload, Restore, DeviceReset, Control, LiveInv, ParkInv, Resetting
  <2>3. image # <<>> /\ image.activated
    BY <2>1, <2>2 DEF Live
  <2>4. Live /\ Position(p)' = Position(p)
    BY <2>1, <2>3 DEF Position, Live
  <2> QED BY <1>0, <2>1, <2>4, RequestKept, SMTT(30)
<1>12. CASE Activate
  <2>1. image' = <<>> /\ avail'[p] = 0 /\ availEvent'[p] = 0 /\ next'[p] = 0
    BY <1>12, ImageRest DEF Activate, Zero
  <2> QED BY <2>1 DEF RequestAt, Position
<1>13. CASE Swap
  <2>1. /\ UNCHANGED <<avail, availEvent, submit, next, image, activated, caller, calledFor>>
        /\ worker = "drain" /\ pending' = pending \ {index}
        /\ index \in pending => worker' = "lock" /\ index' = index
    BY <1>13 DEF Swap, guest, device, transport
  <2>2. RequestAt(p) /\ Position(p)' = Position(p)
    BY <1>0, <2>1 DEF RequestInv, Live, Position
  <2>3. Owed(p) => Owed(p)'
    BY <2>1 DEF Owed, KickWanted
  <2> QED BY <2>1, <2>2, <2>3 DEF RequestAt
<1>14. CASE Enter
  <2>1. /\ UNCHANGED <<avail, availEvent, submit, pending, next, image, activated, caller,
                       calledFor>>
        /\ worker = "lock"
        /\ handle # "none" => worker' = "pop" /\ index' = index
    BY <1>14 DEF Enter, guest, device, transport
  <2>2. image = <<>>
    BY <2>1, ImageRest
  <2>3. handle # "none"
    BY <2>1, <2>2 DEF Live, Control, LiveInv
  <2>4. RequestAt(p) /\ Position(p)' = Position(p)
    BY <1>0, <2>1 DEF RequestInv, Live, Position
  <2>5. Owed(p) => Owed(p)'
    BY <2>1, <2>3 DEF Owed, KickWanted
  <2> QED BY <2>1, <2>3, <2>4, <2>5 DEF RequestAt
<1>15. CASE Pop
  <2>1. /\ UNCHANGED <<avail, availEvent, submit, pending, image, activated, caller, calledFor,
                       index>>
        /\ worker = "pop" /\ worker' \in {"complete", "arm"} /\ image = <<>>
        /\ next' = next \/ next' = [next EXCEPT ![index] = Succ(@)]
    BY <1>15, ImageRest DEF Pop, guest, transport, Stages
  <2>2. RequestAt(p)
    BY <1>0, <2>1 DEF RequestInv, Live
  <2>3. p = index \/ Position(p)' = Position(p)
    BY <2>1 DEF Position, Control, TypeOK, RingTypes
  <2>4. Owed(p) => Owed(p)'
    BY <2>1 DEF Owed, KickWanted
  <2>5. CASE p = index
    BY <2>1, <2>5 DEF RequestAt, Owed
  <2>6. CASE p # index
    BY <2>1, <2>2, <2>3, <2>4, <2>6 DEF RequestAt
  <2> QED BY <2>5, <2>6, SMTT(30)
<1>16. CASE Arm
  <2>1. /\ UNCHANGED <<avail, submit, pending, next, image, activated, caller, calledFor, index>>
        /\ worker = "arm" /\ worker' = "recheck" /\ image = <<>>
        /\ availEvent' = [availEvent EXCEPT ![index] = next[index]]
    BY <1>16, ImageRest DEF Arm, device, transport, Stages
  <2>2. RequestAt(p) /\ Position(p)' = Position(p) /\ Position(p) = next[p]
    BY <1>0, <2>1 DEF RequestInv, Live, Position
  <2>3. CASE p = index
    <3>1. availEvent'[p] = next[p]
      BY <2>1, <2>3 DEF Control, TypeOK, RingTypes
    <3> QED BY <2>1, <2>2, <2>3, <3>1, SMTT(30) DEF RequestAt, Owed
  <2>4. CASE p # index
    <3>1. availEvent'[p] = availEvent[p]
      BY <2>1, <2>4 DEF Control, TypeOK, RingTypes
    <3>2. Owed(p) => Owed(p)'
      BY <2>1, <2>4, <3>1 DEF Owed, KickWanted
    <3> QED BY <2>1, <2>2, <2>4, <3>1, <3>2, SMTT(60) DEF RequestAt
  <2> QED BY <2>3, <2>4
<1>17. CASE Recheck
  <2>1. /\ UNCHANGED <<avail, availEvent, submit, pending, next, image, activated, caller,
                       calledFor, index>>
        /\ worker = "recheck" /\ image = <<>>
        /\ worker' = "pop" \/ next[index] = avail[index]
    BY <1>17, ImageRest DEF Recheck, guest, device, transport, Stages
  <2>2. RequestAt(p) /\ Position(p)' = Position(p) /\ Position(p) = next[p]
    BY <1>0, <2>1 DEF RequestInv, Live, Position
  <2>3. CASE p = index
    BY <2>1, <2>2, <2>3 DEF RequestAt, Owed
  <2>4. CASE p # index
    BY <2>1, <2>2, <2>4 DEF RequestAt, Owed, KickWanted
  <2> QED BY <2>3, <2>4
<1>18. CASE UNCHANGED vars
  BY <1>1, <1>18 DEF vars, guest, device, transport, thread
<1> QED
  BY <1>2, <1>3, <1>4, <1>5, <1>6, <1>7, <1>8, <1>9, <1>10, <1>11, <1>12, <1>13, <1>14, <1>15,
     SMTT(30),
     <1>16, <1>17, <1>18 DEF Next, CallerStep, WorkerStep

\* The completions of a queue stay accounted for when only its surroundings move.
LEMMA CompletionKept ==
    ASSUME CompletionInv, NEW q \in Queue,
           UNCHANGED <<used, seen, usedEvent, handler, irq>>, added'[q] = added[q],
           Live' => Live,
           worker # "notify" \/ UNCHANGED <<worker, index>>
    PROVE  CompletionAt(q)'
<1>1. CompletionAt(q)
  BY Zenon DEF CompletionInv
<1> QED BY <1>1, SMTT(60) DEF CompletionAt

\* CompletionInv survives a step.
LEMMA StepCompletion == Control /\ Data /\ [Next]_vars => CompletionInv'
<1> SUFFICES ASSUME Control, Data, [Next]_vars, NEW p \in Queue PROVE CompletionAt(p)'
  BY Zenon DEF CompletionInv
<1> USE Zenon
<1>0. CompletionInv
  BY DEF Data
<1>1. CASE /\ UNCHANGED <<used, seen, usedEvent, handler, irq, added, image, activated>>
           /\ worker # "notify" \/ UNCHANGED <<worker, index>>
  BY <1>0, <1>1, CompletionKept DEF Live
<1>2. ASSUME NEW q \in Queue, Publish(q) \/ Submission(q) \/ Handling(q) PROVE CompletionAt(p)'
  <2>0. CompletionAt(p)
    BY <1>0 DEF CompletionInv
  <2>1. CASE Publish(q) \/ Submission(q)
    BY <1>1, <2>1 DEF Publish, Submission, Check, Notify, guest, device, transport,
       thread
  <2>2. CASE Interrupted(q)
    <3>1. UNCHANGED <<used, seen, usedEvent, added, worker, index, image, activated>>
      BY <2>2 DEF Interrupted, device, transport, thread
    <3>2. handler'[p] = "take" \/ (handler'[p] = handler[p] /\ (p \in irq' <=> p \in irq))
      BY <2>2 DEF Interrupted, Control, TypeOK, ControlTypes
    <3> QED BY <2>0, <3>1, <3>2, ZenonT(30) DEF CompletionAt, Live
  <2>3. CASE TakeUsed(q)
    <3>1. UNCHANGED <<used, usedEvent, irq, added, worker, index, image, activated>>
      BY <2>3 DEF TakeUsed, device, transport, thread
    <3>2. CASE p # q
      <4>1. handler'[p] = handler[p] /\ seen'[p] = seen[p]
        BY <2>3, <3>2 DEF TakeUsed, Control, TypeOK, ControlTypes, RingTypes
      <4> QED BY <2>0, <3>1, <4>1, SMTT(30) DEF CompletionAt, Live
    <3>3. CASE p = q
      <4>1. handler'[p] \in {"take", "enable"}
        BY <2>3, <3>3 DEF TakeUsed, Control, TypeOK, ControlTypes
      <4> QED BY <4>1, SMTT(60) DEF CompletionAt
    <3> QED BY <3>2, <3>3, SMTT(60)
  <2>4. CASE AskInterrupt(q)
    <3>1. UNCHANGED <<used, seen, irq, added, worker, index, image, activated>>
      BY <2>4, ZenonT(30) DEF AskInterrupt, device, transport, thread
    <3>2. \/ handler'[p] = "look" /\ usedEvent'[p] = seen[p]
          \/ handler'[p] = handler[p] /\ usedEvent'[p] = usedEvent[p]
      BY <2>4 DEF AskInterrupt, Control, TypeOK, RingTypes, ControlTypes
    <3> QED BY <2>0, <3>1, <3>2, SMTT(60) DEF CompletionAt, Live
  <2>5. CASE LookAgain(q)
    <3>1. UNCHANGED <<used, seen, usedEvent, irq, added, worker, index, image, activated>>
      BY <2>5 DEF LookAgain, device, transport, thread
    <3>2. \/ handler'[p] = "take"
          \/ handler[p] = "look" /\ seen[p] = used[p]
          \/ handler'[p] = handler[p]
      BY <2>5 DEF LookAgain, Control, TypeOK, ControlTypes
    <3>3. used[p] = seen[p] => Ahead(used[p], seen[p]) <= added[p]
      <4>1. used[p] \in Index /\ added[p] \in Nat
        BY IndexNat, ZenonT(30) DEF Control, TypeOK, RingTypes
      <4> QED BY <4>1, AheadFacts, SMTT(30)
    <3> QED BY <2>0, <3>1, <3>2, <3>3, SMTT(30) DEF CompletionAt, Live
  <2> QED BY <1>2, <2>1, <2>2, <2>3, <2>4, <2>5 DEF Handling
<1>3. CASE Schedule \/ SendKick \/ ClearPending \/ ReadCapabilities \/ ReadCommon \/ Freeze
  BY <1>1, <1>3 DEF Schedule, SendKick, ClearPending, ReadCapabilities, ReadCommon, Freeze,
                    guest, device, thread
<1>4. CASE Rendezvous
  BY <1>1, <1>4 DEF Rendezvous, guest, device
<1>5. CASE TakeKick \/ TakeBarrier \/ TakeQuiesce \/ TakeResume
  <2>1. worker = "recv" /\ UNCHANGED rest
    BY <1>5, TakeKickChan, TakeBarrierChan, TakeQuiesceChan, TakeResumeChan DEF Control
  <2> QED BY <1>1, <2>1 DEF rest, guest, device, transport
<1>6. CASE Swap \/ Drained \/ Enter \/ Pop \/ Arm \/ Recheck
  BY <1>1, <1>6 DEF Swap, Drained, Enter, Pop, Arm, Recheck, guest, device, transport
<1>7. CASE StatusZero \/ Save \/ Thaw \/ Reload \/ Restore
  <2>1. UNCHANGED <<used, seen, usedEvent, handler, irq, added, worker, index>>
    BY <1>7, ZenonT(60) DEF StatusZero, Save, Thaw, Reload, Restore, guest, device, thread
  <2>2. Live' => Live
    BY <1>7, SMTT(30) DEF StatusZero, Save, Thaw, Reload, Restore, Live, Control, LiveInv,
       ParkInv, Resetting
  <2> QED BY <1>0, <2>1, <2>2, CompletionKept, SMTT(60)
<1>8. CASE DeviceReset
  <2>1. /\ UNCHANGED <<used, seen, usedEvent, handler, irq, worker, index, image, activated>>
        /\ worker \notin Stages /\ added'[p] = 0
    BY <1>8 DEF DeviceReset, DeviceHeld, guest, thread, Zero
  <2>2. added[p] = 0
    BY <2>1, ZenonT(60) DEF Data, RingInv, RingAt
  <2> QED BY <1>0, <2>1, <2>2, CompletionKept, SMTT(30) DEF Live
<1>9. CASE Activate
  <2>1. used'[p] = 0 /\ seen'[p] = 0 /\ usedEvent'[p] = 0 /\ added'[p] = 0
    BY <1>9 DEF Activate, Zero
  <2>2. Ahead(0, 0) = 0
    BY AheadFacts, IndexSucc
  <2> QED BY <2>1, <2>2, SMTT(30) DEF CompletionAt
<1>10. CASE Complete
  <2>1. /\ worker = "complete" /\ worker' = "pop"
        /\ UNCHANGED <<avail, seen, usedEvent, handler, irq, index, image, activated>>
        /\ used' = [used EXCEPT ![index] = Succ(@)]
        /\ added' = [added EXCEPT ![index] = Succ(@)]
    BY <1>10 DEF Complete, guest, transport
  <2>2. CompletionAt(p) /\ RingAt(p)
    BY DEF Data, CompletionInv, RingInv
  <2>3. CASE p # index
    <3>1. used'[p] = used[p] /\ added'[p] = added[p]
      BY <2>1, <2>3 DEF Control, TypeOK, RingTypes, ControlTypes
    <3> QED BY <2>1, <2>2, <2>3, <3>1, SMTT(30) DEF CompletionAt, Live
  <2>4. CASE p = index
    <3>1. /\ used'[p] = Succ(used[p]) /\ added'[p] = Succ(added[p]) /\ avail[p] # used[p]
          /\ avail[p] \in Index /\ seen[p] \in Index /\ used[p] \in Index /\ added[p] \in Index
      BY <2>1, <2>2, <2>4 DEF Control, TypeOK, RingTypes, ControlTypes, RingAt, InHand
    <3>2. /\ Ahead(avail[p], seen[p]) \in Nat /\ Ahead(avail[p], used[p]) \in Nat \ {0}
          /\ Ahead(used[p], seen[p]) \in Nat /\ added[p] \in Nat
      BY <3>1, AheadFacts, IndexNat, ZenonT(30)
    <3>3. Ahead(used[p], seen[p]) < IndexMod - 1 /\ added[p] # IndexMod - 1
      <4>1. /\ Ahead(avail[p], seen[p]) <= Size[p]
            /\ Ahead(used[p], seen[p]) + Ahead(avail[p], used[p]) = Ahead(avail[p], seen[p])
            /\ added[p] + Ahead(avail[p], used[p]) <= IndexMod - 1
        BY <2>2 DEF RingAt
      <4> QED BY <3>2, <4>1, SizeFacts, IndexNat, SMTT(30)
    <3>4. Ahead(Succ(used[p]), seen[p]) = Ahead(used[p], seen[p]) + 1
      BY <3>1, <3>3, AheadGrows
    <3>5. Succ(added[p]) = added[p] + 1
      BY <3>1, <3>3, IndexSucc
    <3>6. /\ Ahead(used'[p], seen[p]) = Ahead(used[p], seen[p]) + 1
          /\ added'[p] = added[p] + 1
      BY <3>1, <3>4, <3>5
    <3> QED BY <2>1, <2>2, <3>2, <3>6, SMTT(30) DEF CompletionAt, Live
  <2> QED BY <2>3, <2>4
<1>11. CASE Needs
  <2>1. /\ worker = "needs"
        /\ UNCHANGED <<used, seen, usedEvent, handler, irq, image, activated>>
        /\ added' = [added EXCEPT ![index] = 0]
        /\ \/ worker' = "notify" /\ index' = index
           \/ worker' = "drain" /\ ~InterruptWanted(index)
    BY <1>11 DEF Needs, NextQueue, guest, transport
  <2>2. CompletionAt(p)
    BY DEF Data, CompletionInv
  <2>3. CASE p # index
    <3>1. added'[p] = added[p]
      BY <2>1, <2>3 DEF Control, TypeOK, RingTypes, ControlTypes
    <3> QED BY <2>1, <2>2, <2>3, <3>1, SMTT(30) DEF CompletionAt, Live
  <2>4. CASE p = index /\ worker' = "notify"
    BY <2>1, <2>2, <2>4 DEF CompletionAt
  <2>5. CASE p = index /\ worker' = "drain"
    <3>1. /\ added'[p] = 0 /\ ~InterruptWanted(p)
          /\ used[p] \in Index /\ seen[p] \in Index /\ added[p] \in Index
      BY <2>1, <2>5 DEF Control, TypeOK, RingTypes, ControlTypes
    <3>2. Ahead(used[p], seen[p]) \in Nat /\ added[p] \in Nat
      BY <3>1, AheadFacts, IndexNat, ZenonT(30)
    <3>3. CASE used[p] = seen[p]
      <4>1. Ahead(used[p], seen[p]) <= added'[p]
        BY <3>1, <3>3, AheadFacts, SMT
      <4> QED BY <2>1, <2>2, <4>1 DEF CompletionAt
    <3>4. CASE used[p] # seen[p]
      <4>1. Ahead(used[p], Succ(seen[p])) = Ahead(used[p], seen[p]) - 1
        BY <3>1, <3>4, AheadShrinks
      <4>2. usedEvent[p] = seen[p] => ~(Ahead(used[p], seen[p]) <= added[p])
        BY <3>1, <3>2, <4>1, SMTT(60) DEF InterruptWanted
      <4> QED BY <2>1, <2>2, <2>5, <4>2, SMTT(30) DEF CompletionAt, Live
    <3> QED BY <3>3, <3>4, SMTT(30)
  <2> QED BY <2>1, <2>3, <2>4, <2>5, SMTT(30)
<1>12. CASE NotifyQueue
  <2>1. /\ UNCHANGED <<used, seen, usedEvent, handler, added, image, activated>>
        /\ worker = "notify" /\ image = <<>> /\ worker' = "drain"
        /\ irq' = IF handle = "current" THEN irq \union {index} ELSE irq
    BY <1>12, ImageRest DEF NotifyQueue, NextQueue, guest, device, transport, Stages
  <2>2. Live' => Live /\ handle = "current"
    BY <2>1 DEF Live, Control, LiveInv
  <2>3. CompletionAt(p)
    BY <1>0 DEF CompletionInv
  <2> QED BY <2>1, <2>2, <2>3, SMTT(30) DEF CompletionAt
<1>13. CASE UNCHANGED vars
  BY <1>1, <1>13 DEF vars, guest, device, transport, thread
<1> QED
  BY <1>2, <1>3, <1>4, <1>5, <1>6, <1>7, <1>8, <1>9, <1>10, <1>11, <1>12, <1>13
     DEF Next, CallerStep, WorkerStep

\* The whole inductive invariant.
IInv == Control /\ Data

\* It holds initially.
LEMMA InitIInv == Init => IInv
<1> SUFFICES ASSUME Init PROVE IInv
  BY Zenon
<1> USE Zenon DEF Init
<1>1. Zero \in [Queue -> Index] /\ \A q \in Queue : Zero[q] = 0
  BY IndexSucc DEF Zero
<1>2. Ahead(0, 0) = 0
  BY AheadFacts, IndexSucc
<1>3. RingInv
  BY <1>1, <1>2, SizeFacts, IndexNat, IndexAssumption, SMTT(30) DEF RingInv, RingAt, Live,
     InHand, Stages
<1>4. RequestInv
  BY DEF RequestInv, Live
<1>5. CompletionInv
  BY <1>1, <1>2 DEF CompletionInv, CompletionAt, Live
<1> QED BY <1>3, <1>4, <1>5, InitControl DEF IInv, Data

\* It is inductive.
LEMMA StepIInv == IInv /\ [Next]_vars => IInv'
BY StepControl, StepRing, StepRequest, StepCompletion, Zenon DEF IInv, Data

\* It holds of every behaviour of the device.
THEOREM IInvHolds == Spec => []IInv
BY InitIInv, StepIInv, PTL DEF Spec

\* process_queue's drain, re-enable and look again loses no request, for any
\* number of queues, any sizes and any wrap-around of the indices.
THEOREM NoLostRequestHolds == Spec => []NoLostRequest
<1>1. IInv => NoLostRequest
  <2> SUFFICES ASSUME IInv, activated, NEW q \in Queue, avail[q] # next[q]
               PROVE  \/ submit[q] = "kick" \/ (submit[q] = "check" /\ KickWanted(q))
                      \/ q \in pending
                      \/ worker \in {"lock", "pop", "complete", "arm", "recheck"} /\ index = q
    BY Zenon DEF NoLostRequest
  <2>1. Position(q) = next[q]
    BY ZenonT(30) DEF IInv, Control, ParkInv, LiveInv, Position, Asking, Bare, Resetting
  <2>2. RequestAt(q)
    BY Zenon DEF IInv, Data, RequestInv, Live
  <2> QED BY <2>1, <2>2, SMTT(30) DEF RequestAt, Owed
<1> QED BY <1>1, IInvHolds, PTL

\* needs_notification never keeps an interrupt back that the driver waits for.
THEOREM NoLostCompletionHolds == Spec => []NoLostCompletion
<1>1. IInv => NoLostCompletion
  <2> SUFFICES ASSUME IInv, activated, NEW q \in Queue, seen[q] # used[q],
                      q \notin irq, handler[q] = "idle"
               PROVE  worker \in Stages /\ index = q
    BY Zenon DEF NoLostCompletion
  <2>1. CompletionAt(q) /\ RingAt(q)
    BY Zenon DEF IInv, Data, CompletionInv, RingInv
  <2>2. seen[q] \in Index /\ used[q] \in Index
    BY Zenon DEF IInv, Control, TypeOK, RingTypes
  <2>3. Ahead(used[q], seen[q]) \in Nat \ {0}
    BY <2>2, AheadFacts, IndexNat, ZenonT(30)
  <2>4. (worker = "notify" /\ index = q) \/ added[q] # 0
    BY <2>1, <2>3 DEF CompletionAt, Live
  <2> QED BY <2>1, <2>4 DEF RingAt, Stages
<1> QED BY <1>1, IInvHolds, PTL

\* QuiescedDevices::new returns with nothing left over that save_state leaves out.
THEOREM StillIsCleanHolds == Spec => []StillIsClean
<1>1. IInv => StillIsClean
  <2> SUFFICES ASSUME IInv, caller = "still" PROVE StillIsClean
    BY Zenon DEF StillIsClean
  <2>1. pending = {} /\ chan = <<>> /\ worker = "recv" /\ paused
    BY Zenon DEF IInv, Control, ChanInv, KickInv, ParkInv, PauseInv, Bare
  <2>2. ~Sent("kick")
    BY <2>1, EmptySeq DEF Sent
  <2>3. ~scheduled
    BY <2>2, Zenon DEF IInv, Control, KickInv
  <2>4. \A q \in Queue : added[q] = 0
    BY <2>1, Zenon DEF IInv, Data, RingInv, RingAt, Stages
  <2>5. added = Zero
    BY <2>4, Zenon DEF IInv, Control, TypeOK, RingTypes, Zero
  <2> QED BY <2>1, <2>3, <2>5 DEF StillIsClean
<1> QED BY <1>1, IInvHolds, PTL

\* The device starts as QueueService does.
LEMMA InitServes == Init => Service!Init
<1> SUFFICES ASSUME Init PROVE Service!Init
  BY Zenon
<1>1. Ahead(0, 0) = 0
  BY AheadFacts, IndexSucc, Zenon
<1> QED BY <1>1, SMTT(30) DEF Init, Zero, Waiting, Done, Service!Init

\* A step that leaves rings and pause alone is a stutter of QueueService.
LEMMA SameService == UNCHANGED <<avail, used, seen, paused>> => UNCHANGED Service!vars
BY Zenon DEF Waiting, Done, Service!vars

\* A step at one queue changes Waiting there.
LEMMA WaitingMoves ==
    ASSUME IInv, NEW q \in Queue, NEW n,
           \A p \in Queue \ {q} : avail'[p] = avail[p] /\ used'[p] = used[p],
           Ahead(avail'[q], used'[q]) = n
    PROVE  Waiting' = [Waiting EXCEPT ![q] = n]
BY ZenonT(30) DEF Waiting

\* A step at one queue changes Done there.
LEMMA DoneMoves ==
    ASSUME IInv, NEW q \in Queue, NEW n,
           \A p \in Queue \ {q} : used'[p] = used[p] /\ seen'[p] = seen[p],
           Ahead(used'[q], seen'[q]) = n
    PROVE  Done' = [Done EXCEPT ![q] = n]
BY ZenonT(30) DEF Done

\* The driver's publication is a Submit: there is room.
LEMMA PublishServes ==
    ASSUME IInv, NEW q \in Queue, Publish(q)
    PROVE  Service!Submit(q)
<1> USE Zenon
<1>1. /\ avail'[q] = Succ(avail[q]) /\ UNCHANGED <<used, seen, paused>>
      /\ \A p \in Queue \ {q} : avail'[p] = avail[p]
      /\ avail[q] \in Index /\ used[q] \in Index /\ seen[q] \in Index /\ added[q] \in Index
  BY DEF Publish, thread, IInv, Control, TypeOK, RingTypes
<1>2. Ahead(avail[q], seen[q]) < Size[q] /\ added[q] + Ahead(avail[q], used[q]) < IndexMod - 1
  BY ZenonT(60) DEF Publish, WithinCount
<1>3. Ahead(avail[q], used[q]) \in Nat /\ added[q] \in Nat
  BY <1>1, AheadFacts, IndexNat, ZenonT(60)
<1>4. Ahead(avail'[q], used'[q]) = Ahead(avail[q], used[q]) + 1
  <2>1. Ahead(avail[q], used[q]) < IndexMod - 1
    BY <1>2, <1>3, IndexNat, SMT
  <2>2. Ahead(Succ(avail[q]), used[q]) = Ahead(avail[q], used[q]) + 1
    BY <1>1, <2>1, AheadGrows
  <2> QED BY <1>1, <2>2
<1>5. Waiting' = [Waiting EXCEPT ![q] = Ahead(avail[q], used[q]) + 1]
  BY <1>1, <1>4, WaitingMoves
<1>6. Waiting[q] = Ahead(avail[q], used[q]) /\ Done[q] = Ahead(used[q], seen[q])
  BY DEF Waiting, Done
<1>7. Waiting[q] + Done[q] < Size[q]
  <2>1. RingAt(q)
    BY DEF IInv, Data, RingInv
  <2>2. Ahead(used[q], seen[q]) \in Nat
    BY <1>1, AheadFacts, IndexNat, ZenonT(30)
  <2>3. Ahead(used[q], seen[q]) + Ahead(avail[q], used[q]) = Ahead(avail[q], seen[q])
    BY <2>1 DEF RingAt
  <2> QED BY <1>2, <1>3, <1>6, <2>2, <2>3, SMTT(30)
<1>8. Done' = Done
  BY <1>1 DEF Done
<1> QED BY <1>1, <1>5, <1>6, <1>7, <1>8, SMTT(60) DEF Service!Submit

\* A completion is a Serve: a request was waiting, and the device is not still.
LEMMA CompleteServes ==
    ASSUME IInv, Complete
    PROVE  index \in Queue /\ Service!Serve(index)
<1> USE Zenon
<1>1. /\ worker = "complete" /\ index \in Queue
      /\ used'[index] = Succ(used[index]) /\ UNCHANGED <<avail, seen, paused>>
      /\ \A p \in Queue \ {index} : used'[p] = used[p]
      /\ avail[index] \in Index /\ used[index] \in Index /\ seen[index] \in Index
  BY DEF Complete, guest, IInv, Control, TypeOK, RingTypes, IndexInv, Stages
<1>2. ~paused
  BY <1>1 DEF IInv, Control, PauseInv
<1>3. RingAt(index)
  BY <1>1 DEF IInv, Data, RingInv
<1>4. avail[index] # used[index]
  BY <1>1, <1>3 DEF RingAt, InHand
<1>5. /\ Ahead(avail[index], used[index]) \in Nat \ {0}
      /\ Ahead(used[index], seen[index]) \in Nat
      /\ Ahead(avail[index], seen[index]) \in Nat
  BY <1>1, <1>4, AheadFacts, IndexNat, ZenonT(30)
<1>6. Ahead(used[index], seen[index]) < IndexMod - 1
  BY <1>1, <1>3, <1>5, SizeFacts, IndexNat, SMT DEF RingAt
<1>7. /\ Ahead(avail'[index], used'[index]) = Ahead(avail[index], used[index]) - 1
      /\ Ahead(used'[index], seen'[index]) = Ahead(used[index], seen[index]) + 1
  BY <1>1, <1>4, <1>6, AheadGrows, AheadShrinks, SMT
<1>8. Waiting' = [Waiting EXCEPT ![index] = Ahead(avail[index], used[index]) - 1]
  BY <1>1, <1>7, WaitingMoves
<1>9. Done' = [Done EXCEPT ![index] = Ahead(used[index], seen[index]) + 1]
  BY <1>1, <1>7, DoneMoves
<1>10. /\ Waiting[index] = Ahead(avail[index], used[index])
       /\ Done[index] = Ahead(used[index], seen[index])
  BY <1>1 DEF Waiting, Done
<1>11. Waiting[index] > 0
  BY <1>5, <1>10, SMTT(60)
<1>12. /\ Waiting' = [Waiting EXCEPT ![index] = @ - 1]
       /\ Done' = [Done EXCEPT ![index] = @ + 1]
  BY <1>1, <1>8, <1>9, <1>10 DEF Waiting, Done
<1> QED BY <1>1, <1>2, <1>11, <1>12, SMTT(30) DEF Service!Serve

\* The handler's step is a Take or a stutter.
LEMMA TakeUsedServes ==
    ASSUME IInv, NEW q \in Queue, TakeUsed(q)
    PROVE  Service!Take(q) \/ UNCHANGED Service!vars
<1> USE Zenon
<1>1. UNCHANGED <<avail, used, paused>>
  BY DEF TakeUsed, thread
<1>2. CASE seen[q] = used[q]
  BY <1>1, <1>2, SameService DEF TakeUsed
<1>3. CASE seen[q] # used[q]
  <2>1. /\ seen'[q] = Succ(seen[q]) /\ \A p \in Queue \ {q} : seen'[p] = seen[p]
        /\ used[q] \in Index /\ seen[q] \in Index
    BY <1>3 DEF TakeUsed, IInv, Control, TypeOK, RingTypes
  <2>2. Ahead(used'[q], seen'[q]) = Ahead(used[q], seen[q]) - 1
    BY <1>1, <1>3, <2>1, AheadShrinks
  <2>3. Done' = [Done EXCEPT ![q] = Ahead(used[q], seen[q]) - 1]
    BY <1>1, <2>1, <2>2, DoneMoves
  <2>4. Done[q] = Ahead(used[q], seen[q]) /\ Done[q] \in Nat \ {0}
    BY <1>3, <2>1, AheadFacts, IndexNat, ZenonT(30) DEF Done
  <2>5. Waiting' = Waiting
    BY <1>1 DEF Waiting
  <2> QED BY <1>1, <2>3, <2>4, <2>5, SMTT(30) DEF Service!Take
<1> QED BY <1>2, <1>3, SMTT(30)

\* An activation is a Reset.
LEMMA ActivateServes == Activate => Service!Reset
<1> SUFFICES ASSUME Activate PROVE Service!Reset
  BY Zenon
<1> USE Zenon
<1>1. avail' = Zero /\ used' = Zero /\ seen' = Zero /\ paused' = paused
  BY DEF Activate, thread
<1>2. Ahead(0, 0) = 0
  BY AheadFacts, IndexSucc
<1> QED BY <1>1, <1>2 DEF Zero, Waiting, Done, Service!Reset

\* Quiesce and resume.
LEMMA PauseServes ==
    IInv => /\ TakeQuiesce => Service!Quiesce
            /\ TakeResume => Service!Resume
BY TakeQuiesceChan, TakeResumeChan, Zenon
   DEF IInv, Control, Waiting, Done, rest, guest, Service!Quiesce, Service!Resume

\* Every step of the device is a step of QueueService or a stutter.
LEMMA StepServes == IInv /\ [Next]_vars => [Service!Next]_(Service!vars)
<1> SUFFICES ASSUME IInv, [Next]_vars PROVE Service!Next \/ UNCHANGED Service!vars
  BY Zenon
<1> USE Zenon
<1>1. CASE UNCHANGED vars
  BY <1>1, SameService DEF vars, guest, thread
<1>2. ASSUME NEW q \in Queue, Publish(q) \/ Submission(q) \/ Handling(q)
      PROVE  Service!Next \/ UNCHANGED Service!vars
  <2>1. CASE Publish(q)
    BY <2>1, PublishServes DEF Service!Next
  <2>2. CASE TakeUsed(q)
    BY <2>2, TakeUsedServes DEF Service!Next
  <2>3. CASE Check(q) \/ Notify(q) \/ Interrupted(q) \/ AskInterrupt(q) \/ LookAgain(q)
    BY <2>3, SameService DEF Check, Notify, Interrupted, AskInterrupt, LookAgain, guest, thread
  <2> QED BY <1>2, <2>1, <2>2, <2>3 DEF Submission, Handling
<1>3. CASE Complete
  BY <1>3, CompleteServes DEF Service!Next
<1>4. CASE Activate
  BY <1>4, ActivateServes DEF Service!Next
<1>5. CASE TakeQuiesce \/ TakeResume
  BY <1>5, PauseServes DEF Service!Next
<1>6. CASE CallerStep
  BY <1>6, SameService DEF CallerStep, Schedule, SendKick, Rendezvous, ClearPending,
     DeviceReset,
     ReadCapabilities, Restore, Return, guest, thread
<1>7. CASE StatusZero \/ ReadCommon \/ Freeze \/ Save \/ Reload \/ Thaw
  BY <1>7, SameService, ZenonT(30) DEF StatusZero, ReadCommon, Freeze, Save, Reload, Thaw,
     guest, thread
<1>8. CASE TakeKick \/ TakeBarrier \/ Swap \/ Drained \/ Enter
  BY <1>8, SameService DEF TakeKick, TakeBarrier, Swap, Drained, Enter, guest
<1>9. CASE Pop \/ Arm \/ Recheck \/ Needs \/ NotifyQueue
  BY <1>9, SameService, ZenonT(30) DEF Pop, Arm, Recheck, Needs, NotifyQueue, guest
<1> QED
  BY <1>1, <1>2, <1>3, <1>4, <1>5, <1>6, <1>7, <1>8, <1>9 DEF Next, WorkerStep

\* The device, its worker, resets and snapshots included, takes only the steps
\* QueueService allows: no request is served twice, none while a snapshot holds the
\* device still, and no completion is taken that was not made.
THEOREM ServesSafely == Spec => Service!Init /\ [][Service!Next]_(Service!vars)
BY InitServes, StepServes, IInvHolds, PTL DEF Spec
=============================================================================
