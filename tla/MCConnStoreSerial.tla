------------------------- MODULE MCConnStoreSerial -------------------------
(* One process, two keys and two names. *)
EXTENDS ConnStoreSerial

MCRequests == {0, Base + 1, MaxPort + 1}
=============================================================================
