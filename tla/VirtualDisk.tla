----------------------------- MODULE VirtualDisk ------------------------------
(***************************************************************************)
(* What a disk image promises: a sector reads what was last written to it, *)
(* a snapshot keeps what the disk held when it was taken, and after a      *)
(* crash a sector holds what it held at the last flush or something        *)
(* written since.  A discarded sector reads as the backing file, and a     *)
(* crash before the next flush may leave anything in it.                   *)
(***************************************************************************)
EXTENDS Naturals

CONSTANTS
    Sector,         \* the sectors of the disk and of the saved machine state
    Extent,         \* the runs of sectors that are written or discarded together
    State,          \* those of the saved machine state
    Name,           \* snapshot names
    Value,          \* what can be written to a sector
    Base,           \* what each sector reads before it is written
    Zero            \* a sector of zeros

VARIABLES
    content,        \* what each sector reads
    durable,        \* what it would read after a crash
    trimmed,        \* the sectors discarded since the last flush
    saved           \* what each snapshot holds, <<>> for no snapshot

vars == <<content, durable, trimmed, saved>>

\* c, with v in the sectors at.
Put(c, at, v) == [s \in Sector |-> IF s \in at THEN v ELSE c[s]]

\* Before the next flush, sectors may become durable as they are in c.
MayDrift(c, at) ==
    \A s \in Sector \ trimmed' : durable'[s] = durable[s] \/ (s \in at /\ durable'[s] = c[s])

\* What is read is durable.
Flushed == trimmed' = {} /\ durable' = content'

Init ==
    /\ content = Base /\ durable = Base
    /\ trimmed = {}
    /\ saved = [n \in Name |-> <<>>]

Write(at, v) ==
    /\ content' = Put(content, at, v)
    /\ MayDrift(Put(content, at, v), at)
    /\ UNCHANGED <<trimmed, saved>>

Discard(at) ==
    /\ trimmed' = trimmed \union at
    /\ content' = [s \in Sector |-> IF s \in at THEN Base[s] ELSE content[s]]
    /\ MayDrift(content, {})
    /\ UNCHANGED saved

Flush ==
    /\ Flushed
    /\ UNCHANGED <<content, saved>>

\* A snapshot of the running machine takes the machine's state off the disk.
Create(n, running) ==
    /\ saved[n] = <<>>
    /\ saved' = [saved EXCEPT ![n] = content]
    /\ content' = Put(content, IF running THEN State ELSE {}, Zero)
    /\ Flushed

Apply(n) ==
    /\ saved[n] # <<>>
    /\ content' = saved[n]
    /\ Flushed
    /\ UNCHANGED saved

Delete(n) ==
    /\ saved[n] # <<>>
    /\ saved' = [saved EXCEPT ![n] = <<>>]
    /\ Flushed
    /\ UNCHANGED content

Crash ==
    /\ trimmed' = {}
    /\ content' = durable /\ durable' = durable
    /\ UNCHANGED saved

Next ==
    \/ \E at \in Extent, v \in Value : Write(at, v)
    \/ \E at \in Extent : Discard(at)
    \/ Flush \/ Crash
    \/ \E n \in Name : Apply(n) \/ Delete(n)
    \/ \E n \in Name, running \in BOOLEAN : Create(n, running)

Spec == Init /\ [][Next]_vars
=============================================================================
