--------------------------- MODULE MCSnapshotStore ---------------------------
(* Instances of SnapshotStore for TLC. *)
EXTENDS SnapshotStore, TLC

CONSTANTS url, low, high

\* A connection URL: sensitive when it holds credentials.
UrlIsSensitive == {<<url, high>>}

MCSymmetry == Permutations(Procs) \cup Permutations(Refs)
=============================================================================
