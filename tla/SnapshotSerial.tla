---------------------------- MODULE SnapshotSerial ----------------------------
(***************************************************************************)
(* SnapshotStore when one command runs at a time.  Its save window is      *)
(* invisible, unless the command dies in it: then the file is lost.        *)
(***************************************************************************)
EXTENDS SnapshotStore

ASSUME SerialAssumption == \A p, q \in Procs : p = q

Saving(r) == \E p \in Procs : pc[p] = "write" /\ cmd[p].ref = r

\* An item without the key it is sealed with.
Visible(it) == IF it = NoItem THEN NoItem
               ELSE [val |-> it.val, secret |-> it.secret, safe |-> it.safe]

Seen(f) == IF Parsable(f) THEN [k \in Names |-> Visible(f[k])] ELSE f

\* Each file as the next command will find it.
View ==
  [r \in Refs |->
     Seen(IF Saving(r) THEN mem[CHOOSE p \in Procs : pc[p] = "write"] ELSE disk[r])]

Atomic == INSTANCE AtomicSnapshots WITH content <- View, Lost <- Torn

ASSUME VisibleAssumption ==
  /\ Absent \notin Atomic!Content /\ Torn \notin Atomic!Content /\ NoItem \notin Atomic!Entry

\* Run one at a time, the commands on snapshots are the indivisible steps of
\* AtomicSnapshots, whatever keys change and wherever one dies.
CommandsAreAtomic == Atomic!Spec
=============================================================================
