---------------------------- MODULE MCConnStore ----------------------------
(* Instances of ConnStore for TLC. *)
EXTENDS ConnStore, TLC

\* --port omitted, a port the automatic choice also reaches, one out of
\* range at each end.
MCRequests == {0, -1, Base + 1, MaxPort + 1}

\* Names and processes are interchangeable: ports are compared, names are not
\* ordered, and no temporal formula of these runs tells them apart.
MCSymmetry == Permutations(Names) \cup Permutations(Procs)
=============================================================================
