---------------------------- MODULE MCMongoTunnel ----------------------------
(* Instances of MongoTunnel for TLC. *)
EXTENDS MongoTunnel, TLC

CONSTANTS orders, audit

\* Two registrations of one database: cursors of both are open at one backend.
OneBackend == [s \in Scopes |-> "mongod"]
\* Two databases that number their cursors alike.
OwnBackend == [s \in Scopes |-> s]

MCSymmetry == Permutations(Conns) \cup Permutations(Scopes)
SessionSymmetry == MCSymmetry \cup Permutations(Sessions)
=============================================================================
