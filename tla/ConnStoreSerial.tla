-------------------------- MODULE ConnStoreSerial --------------------------
(***************************************************************************)
(* ConnStore when one command runs at a time, as the operator of a single  *)
(* shell does it.  The save window is then invisible: a command takes      *)
(* effect at its truncation, unless it is interrupted inside the window,   *)
(* which loses the registry.                                               *)
(***************************************************************************)
EXTENDS ConnStore

ASSUME SerialAssumption == \A p, q \in Procs : p = q

Saving == \E p \in Procs : pc[p] = "write"

\* The registry as the user of the next command will find it.
View == IF Saving THEN mem[CHOOSE p \in Procs : pc[p] = "write"] ELSE Load(disk)

Lost == readable = "torn" /\ ~Saving

Atomic == INSTANCE AtomicRegistry WITH reg <- View, lost <- Lost

\* Run one at a time, the commands of store.go are the indivisible steps of
\* AtomicRegistry, crashes included.
CommandsAreAtomic == Atomic!Spec
=============================================================================
