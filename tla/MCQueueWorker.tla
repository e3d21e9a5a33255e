---------------------------- MODULE MCQueueWorker ----------------------------
(* A small instance of QueueWorker for TLC.                                   *)
EXTENDS QueueWorker

\* The first queue holds two requests, every other one.
Sizes == [q \in 0 .. NumQueues - 1 |-> IF q = 0 THEN 2 ELSE 1]
=============================================================================
