--------------------------- MODULE MCRemoteError ---------------------------
EXTENDS RemoteError

CONSTANTS w1, w2, shared, only1

\* Two calls whose datasets have one file name in common, as two COCO datasets
\* have their annotation file.
MCWriters == {w1, w2}
MCNames == {shared, only1}
MCFiles == [w \in MCWriters |-> IF w = w1 THEN {shared, only1} ELSE {shared}]
=============================================================================
