--------------------------- MODULE MCFairSemaphore ---------------------------
\* Instances of FairSemaphore for model checking.
EXTENDS FairSemaphore

CONSTANTS t1, t2, t3

\* acquire(1), acquire(2) and acquire_all(1).
ThreeRequests == [min : 1 .. 2, all : {FALSE}] \cup [min : {1}, all : {TRUE}]
=============================================================================
