--------------------------- MODULE MCSnapshotFile ---------------------------
(* SnapshotFile for TLC: a monotonic clock that counts from before the first *)
(* start of the watcher or from after it.                                    *)
EXTENDS SnapshotFile

Boots == {-1, 1}
=============================================================================
