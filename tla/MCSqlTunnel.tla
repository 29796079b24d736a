---------------------------- MODULE MCSqlTunnel ----------------------------
(* Instances of SqlTunnel for TLC. *)
EXTENDS SqlTunnel
=============================================================================
