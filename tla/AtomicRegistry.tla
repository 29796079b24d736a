--------------------------- MODULE AtomicRegistry ---------------------------
(***************************************************************************)
(* What db.json promises its users when one command runs at a time: a      *)
(* registry on which each command is one indivisible step, stated by what  *)
(* the step may change and not by how it is computed.  The only other step *)
(* is Lose: a save was interrupted and the entries are gone for good.      *)
(***************************************************************************)
EXTENDS Connections

CONSTANT Requests

VARIABLES reg, lost

OnlyTouches(S) == \A n \in Names \ S : reg'[n] = reg[n]

\* A fresh token: no entry has it.
FreshToken(n) == \A m \in Registered(reg) : reg[m].tok.gen < reg'[n].tok.gen

\* `db add`: the entry is off, both its secrets open with the key of the
\* command, and its port is the one asked for, else the one it had, else free.
Register(n, requested) ==
  /\ OnlyTouches({n})
  /\ reg'[n] \in Entry
  /\ ~reg'[n].enabled
  /\ reg'[n].url.key = reg'[n].tok.key
  /\ FreshToken(n)
  /\ \A m \in Registered(reg) \ {n} : reg[m].port # reg'[n].port
  /\ requested # 0 => reg'[n].port = requested /\ requested <= MaxPort
  /\ requested = 0 /\ n \in Registered(reg) /\ reg[n].port # 0
       => reg'[n].port = reg[n].port
  /\ requested = 0 => reg'[n].port >= Base \/ n \in Registered(reg)

\* `db regen`: every target gets a fresh token and keeps everything else.
Rotate(S) ==
  /\ OnlyTouches(S)
  /\ \A n \in S :
       /\ FreshToken(n)
       /\ reg'[n] = [reg[n] EXCEPT !.tok = reg'[n].tok]

\* `db on`, `db off`: only the flag of the targets, and never for nothing
\* when applied to all.
Toggle(S, on) ==
  /\ OnlyTouches(S)
  /\ \A n \in S : reg'[n] = [reg[n] EXCEPT !.enabled = on]

Unregister(n) == OnlyTouches({n}) /\ n \in Registered(reg) /\ reg'[n] = NoEntry

Lose == reg' = Empty /\ lost' = TRUE

Next ==
  /\ ~lost
  /\ \/ Lose
     \/ /\ UNCHANGED lost
        /\ \/ \E n \in Names : Unregister(n) \/ \E r \in Requests : Register(n, r)
           \/ \E S \in SUBSET Registered(reg) :
                S # {} /\ (Rotate(S) \/ \E on \in BOOLEAN : Toggle(S, on))

Init == reg \in Registry /\ lost = FALSE /\ PortsUnique(reg)

Spec == Init /\ [][Next]_<<reg, lost>>
=============================================================================
