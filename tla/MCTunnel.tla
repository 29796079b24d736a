------------------------------ MODULE MCTunnel ------------------------------
(* Instances of Tunnel for TLC. *)
EXTENDS Tunnel, TLC

CONSTANTS n1, u1, k1

\* db.json does not exist, or holds one legacy entry: no dedicated token, on,
\* and no port.
LegacyReg ==
  [Empty EXCEPT ![n1] =
    [url |-> [key |-> k1, val |-> u1, nonce |-> 0], port |-> 0,
     tok |-> [key |-> k1, gen |-> 0], enabled |-> TRUE]]

MCInitRegs == {Empty, LegacyReg}
NoLegacy   == {Empty}

MCRequests == {0, Base + 1}
AutoOnly   == {0}
OneForeign == {Base}
NoForeign  == {}
MCEphemeral == {Base + 2}
MCSymmetry == Permutations(Clients)
=============================================================================
