---------------------------- MODULE MCBufferPool ----------------------------
(* Small instances of BufferPool: two threads, two capacities.             *)
EXTENDS BufferPool

CONSTANTS t1, t2

TwoThreads == {t1, t2}
TwoSmall == [c \in Caps |-> IF c = 1 THEN 2 ELSE 1]
=============================================================================
