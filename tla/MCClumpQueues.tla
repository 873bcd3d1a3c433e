--------------------------- MODULE MCClumpQueues ---------------------------
\* Five clumps on RunQ, RestQ and the WaitQ of one mutex.
EXTENDS ClumpLists

CONSTANTS c1, c2, c3, c4, c5, mutex

Program == {c1, c2, c3, c4, c5}
Dataspace == {mutex}
=============================================================================
