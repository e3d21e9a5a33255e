------------------------------- MODULE MCQcow2 -------------------------------
(* Qcow2 on a small image.                                                   *)
EXTENDS Qcow2

\* The backing file's sectors tell themselves from zeros and from what is written.
BackingFile == << <<2, 2>>, <<2, 2>> >>

\* A part of a cluster, a whole one, and a part of the machine's state.
SomeWrites == {<<"disk", 1, {1}, 1>>, <<"disk", 2, {1, 2}, 0>>, <<"state", 1, {1}, 1>>}

\* Two states are the same when they differ in what a free cluster holds, in the file
\* or in the cache, which is overwritten or dropped before it is read, or in a clean
\* copy of a table in use.
Distinct ==
    LET free == {h \in Host : img.rc[h] = 0 /\ img.flushed.rc[h] = 0}
        copies == {h \in DOMAIN img.cache : /\ img.rc[h] > 0 /\ ~img.cache[h].dirty
                                            /\ img.cache[h].entries = img.table[h]}
    IN  <<[img EXCEPT !.data = [h \in Host |-> IF h \in free THEN JunkCluster ELSE @[h]],
                      !.table = [h \in Host |-> IF h \in free THEN Blank ELSE @[h]],
                      !.cache = [h \in DOMAIN @ \ copies |->
                         IF img.rc[h] = 0 THEN [@[h] EXCEPT !.entries = Blank] ELSE @[h]]],
          reads, trimmed>>
=============================================================================
