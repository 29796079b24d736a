--------------------------- MODULE MCSnapshotSerial ---------------------------
(* One command at a time on two files. *)
EXTENDS SnapshotSerial, TLC

CONSTANTS url, low, high

\* A connection URL: sensitive when it holds credentials.
UrlIsSensitive == {<<url, high>>}

MCSymmetry == Permutations(Refs)
=============================================================================
