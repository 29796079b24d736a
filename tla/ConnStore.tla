------------------------------ MODULE ConnStore ------------------------------
(***************************************************************************)
(* db.json under the commands of several host processes (the CLI, the UI   *)
(* server's request handlers): internal/dbproxy/store.go.                  *)
(*                                                                         *)
(* Every command reads the whole file, computes a new registry in memory   *)
(* and writes the whole file with os.WriteFile, which truncates it first.  *)
(* Nothing locks the file, so commands interleave at each of those steps;  *)
(* a process may die, or a write may fail, at any of them.                 *)
(***************************************************************************)
EXTENDS Connections

CONSTANTS
  Procs,      \* concurrent commands: CLI processes and UI request handlers
  Requests,   \* values of --port (0: omitted)
  MaxGen,     \* bound: commands that draw a token start only up to here
  NoCmd       \* the process runs no command

ASSUME RequestsAssumption == Requests \subseteq Int
ASSUME MaxGenAssumption == MaxGen \in Nat

VARIABLES
  readable,   \* db.json: "absent", "ok", or "torn" (not parsable: truncated,
              \* partly written, or the tail of a longer text left behind)
  disk,       \* its entries when it is "ok"
  pc,         \* where each command is: "idle", "load", "save", "write"
  cmd,        \* the command each process runs
  mem,        \* the registry it computed, the `s` of the Go functions
  dirty,      \* another process wrote since the last truncation: this one's
              \* bytes would land over text that is already there
  nextGen,    \* the generation of the next token drawn
  (* History variables: they record, and no action reads them. *)
  replaced,   \* the tokens the running regen is about to replace
  retired,    \* the tokens that regen commands which returned had replaced
  opened      \* the registrations some `on` command applied to

file == <<readable, disk>>
vars == <<readable, disk, pc, cmd, mem, dirty, nextGen, replaced, retired, opened>>

AddCmd    == [op : {"add"}, key : Keys, name : Names, url : URLs, port : Requests]
NamedCmd  == [op : {"regen", "remove", "on", "off"}, key : Keys, name : Names]
AllCmd    == [op : {"regenAll", "onAll", "offAll"}, key : Keys]
Commands  == AddCmd \cup NamedCmd \cup AllCmd

ASSUME NoCmdAssumption == NoCmd \notin Commands

Token == Names \X Nat

-----------------------------------------------------------------------------
\* db.json as earlier versions left it: no dedicated token, no nonce of ours,
\* any of the three spellings of the flag, and ports that do not collide.
LegacyEntry ==
  [url : [key : Keys, val : URLs, nonce : {0}], port : {0, Base},
   tok : [key : Keys, gen : {0}], enabled : {"absent"}, disabled : Flag]
LegacyFiles ==
  {d \in [Names -> LegacyEntry \cup {NoEntry}] : PortsUnique(Load(d))}

Init ==
  /\ \/ readable = "absent" /\ disk = Empty
     \/ readable = "ok" /\ disk \in LegacyFiles
  /\ pc = [p \in Procs |-> "idle"]
  /\ cmd = [p \in Procs |-> NoCmd]
  /\ mem = [p \in Procs |-> Empty]
  /\ dirty = [p \in Procs |-> FALSE]
  /\ nextGen = 1
  /\ replaced = [p \in Procs |-> {}]
  /\ retired = {}
  /\ opened = {<<n, 0>> : n \in {m \in Names : Load(disk)[m] # NoEntry
                                               /\ Load(disk)[m].enabled}}

-----------------------------------------------------------------------------
Draws(c) == c.op \in {"add", "regen", "regenAll"}

\* A command starts: its flags are parsed and DBKey() has returned a key.
Begin(p, c) ==
  /\ pc[p] = "idle"
  /\ Draws(c) => nextGen <= MaxGen
  /\ pc' = [pc EXCEPT ![p] = "load"]
  /\ cmd' = [cmd EXCEPT ![p] = c]
  /\ UNCHANGED <<file, mem, dirty, nextGen, replaced, retired, opened>>

\* The command returns: its locals are gone.
Return(p) ==
  /\ pc' = [pc EXCEPT ![p] = "idle"]
  /\ cmd' = [cmd EXCEPT ![p] = NoCmd]
  /\ mem' = [mem EXCEPT ![p] = Empty]
  /\ replaced' = [replaced EXCEPT ![p] = {}]

\* load() returned s; the command computed the registry t and calls save.
Compute(p, t) ==
  /\ pc' = [pc EXCEPT ![p] = "save"]
  /\ mem' = [mem EXCEPT ![p] = t]
  /\ UNCHANGED <<file, cmd, dirty, retired>>

\* Variant: a file that does not parse is taken for an empty one.
LoadingTornAsEmpty(p, op) == pc[p] = "load" /\ cmd[p].op = op

Loading(p, op) == pc[p] = "load" /\ cmd[p].op = op /\ readable # "torn"

\* Tokens of the entries S of s that a regen replaces.
TokensOf(s, S) == {<<n, s[n].tok.gen>> : n \in {m \in S : s[m].tok.gen # 0}}

LoadAdd(p) ==
  LET s == Load(disk)  c == cmd[p] IN
  /\ Loading(p, "add")
  /\ ~AddRefused(s, c.name, c.port)
  /\ Compute(p, Add(s, c.key, c.name, c.url, c.port, nextGen))
  /\ nextGen' = nextGen + 1
  /\ UNCHANGED <<replaced, opened>>

RegenTargets(p) ==
  IF cmd[p].op = "regen" THEN {cmd[p].name} ELSE Registered(disk)

LoadRegen(p) ==
  LET s == Load(disk)  S == RegenTargets(p) IN
  /\ Loading(p, "regen") \/ Loading(p, "regenAll")
  /\ S # {} /\ S \subseteq Registered(s)
  /\ Compute(p, Regen(s, cmd[p].key, S, nextGen))
  /\ nextGen' = nextGen + 1
  /\ replaced' = [replaced EXCEPT ![p] = TokensOf(s, S)]
  /\ UNCHANGED opened

LoadRemove(p) ==
  LET s == Load(disk)  n == cmd[p].name IN
  /\ Loading(p, "remove")
  /\ s[n] # NoEntry
  /\ Compute(p, Remove(s, n))
  /\ UNCHANGED <<nextGen, replaced, opened>>

Wants(c) == c.op \in {"on", "onAll"}

TunnelTargets(p) ==
  IF cmd[p].op \in {"on", "off"} THEN {cmd[p].name}
  ELSE Differing(Load(disk), Wants(cmd[p]))

LoadSetTunnel(p) ==
  LET s == Load(disk)  S == TunnelTargets(p) IN
  /\ \E op \in {"on", "off", "onAll", "offAll"} : Loading(p, op)
  /\ S # {} /\ S \subseteq Registered(s)
  /\ Compute(p, SetTunnel(s, S, Wants(cmd[p])))
  /\ opened' = IF Wants(cmd[p]) THEN opened \cup {<<n, s[n].url.nonce>> : n \in S}
                                ELSE opened
  /\ UNCHANGED <<nextGen, replaced>>

\* The command returns without saving: the file does not parse, the name is
\* not registered, the port is refused, or an --all command finds nothing to do.
LoadReturns(p) ==
  LET s == Load(disk)  c == cmd[p] IN
  /\ pc[p] = "load"
  /\ \/ readable = "torn"
     \/ c.op = "add" /\ AddRefused(s, c.name, c.port)
     \/ c.op \in {"regen", "remove", "on", "off"} /\ s[c.name] = NoEntry
     \/ c.op = "regenAll" /\ Registered(s) = {}
     \/ c.op \in {"onAll", "offAll"} /\ Differing(s, Wants(c)) = {}
  /\ Return(p)
  /\ UNCHANGED <<file, dirty, nextGen, retired, opened>>

\* os.WriteFile opens with O_CREATE|O_TRUNC.  The descriptor's offset is 0, so
\* a truncation also makes the file empty for whoever has it open.
Truncate(p) ==
  /\ pc[p] = "save"
  /\ readable' = "torn" /\ disk' = Empty
  /\ pc' = [pc EXCEPT ![p] = "write"]
  /\ dirty' = [q \in Procs |-> FALSE]
  /\ UNCHANGED <<cmd, mem, nextGen, replaced, retired, opened>>

\* Bytes of p are in the file: the other open writers no longer find it empty.
BytesLand(p) == dirty' = [q \in Procs |-> q # p /\ (dirty[q] \/ pc[q] = "write")]

\* The write lands.  Over another writer's longer text it leaves a tail that
\* does not parse; over a shorter one the file is exactly this registry.
Write(p) ==
  /\ pc[p] = "write"
  /\ \/ readable' = "ok" /\ disk' = Save(mem[p])
     \/ dirty[p] /\ readable' = "torn" /\ disk' = Empty
  /\ BytesLand(p)
  /\ retired' = retired \cup replaced[p]
  /\ Return(p)
  /\ UNCHANGED <<nextGen, opened>>

\* The process dies, or MkdirAll, the open or the write fails.  Before the
\* truncation the file is untouched; after it, any part of the text may be there.
Abort(p) ==
  /\ pc[p] \in {"load", "save", "write"}
  /\ \/ UNCHANGED file /\ dirty' = [dirty EXCEPT ![p] = FALSE]
     \/ pc[p] = "write" /\ readable' = "torn" /\ disk' = Empty /\ BytesLand(p)
  /\ Return(p)
  /\ UNCHANGED <<nextGen, retired, opened>>

Step(p) ==
  \/ \E c \in Commands : Begin(p, c)
  \/ LoadAdd(p) \/ LoadRegen(p) \/ LoadRemove(p) \/ LoadSetTunnel(p)
  \/ LoadReturns(p)
  \/ Truncate(p) \/ Write(p) \/ Abort(p)

Next == \E p \in Procs : Step(p)

Spec == Init /\ [][Next]_vars

-----------------------------------------------------------------------------
TypeOK ==
  /\ readable \in {"absent", "ok", "torn"}
  /\ disk \in WireRegistry
  /\ pc \in [Procs -> {"idle", "load", "save", "write"}]
  /\ cmd \in [Procs -> Commands \cup {NoCmd}]
  /\ \A p \in Procs : cmd[p] = NoCmd <=> pc[p] = "idle"
  /\ mem \in [Procs -> Registry]
  /\ dirty \in [Procs -> BOOLEAN]
  /\ nextGen \in Nat \ {0}
  /\ replaced \in [Procs -> SUBSET Token]
  /\ retired \in SUBSET Token
  /\ opened \in SUBSET Token

\* No two registered connections have the same tunnel port: not in the file,
\* and not in any registry a command is about to save, whatever commands
\* allocated ports at the same time (allocPort, and Add's exclusion of the
\* entry it replaces).
PortsUniqueEverywhere ==
  /\ PortsUnique(Load(disk))
  /\ \A p \in Procs : PortsUnique(mem[p])

\* Every name has room above DefaultPortBase.
RoomForAll == Base + Cardinality(Names) <= MaxPort + 1

InRange(s) == \A n \in Registered(s) : s[n].port \in 0 .. MaxPort

\* With room for every name above DefaultPortBase, no port leaves 1..65535
\* (0 only where a legacy file had none): the upward scan of allocPort, which
\* has no upper bound, never runs past the end.
PortsInRange ==
  RoomForAll => InRange(Load(disk)) /\ \A p \in Procs : InRange(mem[p])

OnWithin(s, registrations) ==
  \A n \in Registered(s) : s[n].enabled => <<n, s[n].url.nonce>> \in registrations

\* Registering never opens a tunnel: a connection is on only if an `on` command
\* was applied to THIS registration (this sealed URL), also when the commands
\* race with Add, and a legacy file's `disabled` survives every rewrite.
NeverOnUnasked ==
  OnWithin(Load(disk), opened) /\ \A p \in Procs : OnWithin(mem[p], opened)

\* A file that does not parse, with no writer past its load, is never written
\* again: load's error stops every command, so what is left of the entries is
\* not replaced by a registry that lost them.
UnparsableIsKept ==
  [][readable = "torn" /\ (\A p \in Procs : pc[p] \in {"idle", "load"})
       => readable' = "torn" /\ \A p \in Procs : pc'[p] \in {"idle", "load"}]_vars

\* The comment of RegenToken: the old token stops working immediately.  Once a
\* regen has returned, no token it replaced is in the file again.
OldTokensStayOut ==
  \A n \in Registered(disk) : <<n, disk[n].tok.gen>> \notin retired

=============================================================================
