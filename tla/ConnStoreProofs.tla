--------------------------- MODULE ConnStoreProofs ---------------------------
(***************************************************************************)
(* Invariants of db.json and of the commands in flight, for any number of  *)
(* concurrent commands, names, keys and URLs.  One argument serves all:    *)
(* the file and every registry in memory are Good, because every command   *)
(* makes a Good registry of a Good one and the file only ever receives     *)
(* such a registry, whole.                                                 *)
(***************************************************************************)
EXTENDS ConnStore, ConnectionsProofs

Good(s, O) == /\ s \in Registry
              /\ PortsUnique(s)
              /\ RoomForAll => InRange(s)
              /\ OnWithin(s, O)

Inv == /\ TypeOK
       /\ Good(Load(disk), opened)
       /\ \A p \in Procs : Good(mem[p], opened)

\* The fields a command carries, by its operation.
LEMMA CommandFields ==
  ASSUME NEW c \in Commands
  PROVE  /\ c.key \in Keys
         /\ c.op = "add" => c.name \in Names /\ c.url \in URLs /\ c.port \in Int
         /\ c.op \in {"regen", "remove", "on", "off"} => c.name \in Names
<1>1. CASE c \in AddCmd
  BY <1>1, RequestsAssumption DEF AddCmd
<1>2. CASE c \in NamedCmd
  BY <1>2 DEF NamedCmd
<1>3. CASE c \in AllCmd
  BY <1>3 DEF AllCmd
<1> QED
  BY <1>1, <1>2, <1>3 DEF Commands

\* The empty registry, the one of a fresh process or an absent file, is Good.
LEMMA EmptyGood ==
  (\A O : Good(Empty, O)) /\ Empty \in WireRegistry /\ Load(Empty) = Empty
<1>1. Empty \in Registry /\ Empty \in WireRegistry /\ Registered(Empty) = {}
  BY DEF Empty, Registry, WireRegistry, Registered
<1>2. Load(Empty) = Empty
  BY DEF Empty, Load
<1> QED
  BY <1>1, <1>2 DEF Good, PortsUnique, InRange, OnWithin

\* More registrations opened: a Good registry stays Good.
LEMMA GoodMonotone ==
  ASSUME NEW s, NEW O, NEW P, Good(s, O), O \subseteq P
  PROVE  Good(s, P)
BY DEF Good, OnWithin

\* What a save writes is Good when what it saves is.
LEMMA SaveGood ==
  ASSUME NEW s, NEW O, Good(s, O)
  PROVE  Save(s) \in WireRegistry /\ Good(Load(Save(s)), O)
BY LoadOfSave DEF Good

-----------------------------------------------------------------------------
(* Each command makes a Good registry of a Good one. *)

\* A registration keeps a good registry good: the port it allocates is free and in
\* range, and the entry is off (Add).
LEMMA AddGood ==
  ASSUME NEW s, NEW O, Good(s, O), NEW n \in Names, NEW r \in Int, ~AddRefused(s, n, r),
         NEW key \in Keys, NEW raw \in URLs, NEW gen \in Nat
  PROVE  Good(Add(s, key, n, raw, r, gen), O)
<1> DEFINE t == Add(s, key, n, raw, r, gen)
           p == AllocPort(Without(s, n), WantedPort(s, n, r))
<1>1. s \in Registry /\ PortsUnique(s)
  BY DEF Good
<1>2. t \in Registry /\ Registered(t) = Registered(s) \cup {n}
  BY <1>1, AddType
<1>3. PortsUnique(t)
  BY <1>1, AddPortsUnique
<1>4. /\ t[n].port = p /\ ~t[n].enabled
      /\ \A m \in Registered(t) \ {n} : m \in Registered(s) /\ t[m] = s[m]
  BY <1>1, <1>2 DEF Add, Registry, Registered
<1>5. ASSUME RoomForAll PROVE InRange(t)
  <2>1. p \in 0 .. MaxPort
    BY <1>1, <1>5, GrantedPort, PortsAssumption, NamesAssumption, FS_CardinalityType
       DEF RoomForAll
  <2>2. InRange(s)
    BY <1>5 DEF Good
  <2> HIDE DEF t, p
  <2> QED
    BY <1>4, <2>1, <2>2 DEF InRange
<1>6. OnWithin(t, O)
  <2>1. OnWithin(s, O)
    BY DEF Good
  <2> HIDE DEF t
  <2> QED
    BY <1>4, <2>1 DEF OnWithin
<1> QED
  BY <1>2, <1>3, <1>5, <1>6 DEF Good

\* A command that changes no port and leaves every flag and URL alone.
LEMMA SameMetadataGood ==
  ASSUME NEW s, NEW O, Good(s, O), NEW t \in Registry,
         Registered(t) \subseteq Registered(s),
         \A n \in Registered(t) : /\ t[n].port = s[n].port
                                  /\ t[n].enabled = s[n].enabled
                                  /\ t[n].url = s[n].url
  PROVE  Good(t, O)
BY SamePortsUnique DEF Good, InRange, OnWithin

\* New tokens change neither ports nor flags (RegenToken, RegenTokenAll).
LEMMA RegenGood ==
  ASSUME NEW s, NEW O, Good(s, O), NEW S \in SUBSET Registered(s),
         NEW key \in Keys, NEW gen \in Nat
  PROVE  Good(Regen(s, key, S, gen), O)
<1> DEFINE t == Regen(s, key, S, gen)
<1>1. /\ t \in Registry /\ Registered(t) = Registered(s)
      /\ \A n \in Registered(s) :
           /\ t[n].port = s[n].port
           /\ t[n].url = s[n].url
           /\ t[n].enabled = s[n].enabled
  BY RegenType DEF Good
<1> HIDE DEF t
<1>2. Good(t, O)
  BY <1>1, SameMetadataGood
<1> QED
  BY <1>2 DEF t

\* Removing an entry keeps a registry good (Remove).
LEMMA RemoveGood ==
  ASSUME NEW s, NEW O, Good(s, O), NEW n \in Names
  PROVE  Good(Remove(s, n), O)
<1>1. /\ Remove(s, n) \in Registry
      /\ Registered(Remove(s, n)) \subseteq Registered(s)
      /\ \A m \in Registered(Remove(s, n)) : Remove(s, n)[m] = s[m]
  BY WithoutType DEF Good, Remove, Registered
<1> QED
  BY <1>1, SameMetadataGood

\* The flag of the targets changes, and turning on is recorded (SetTunnel, SetTunnelAll).
LEMMA SetTunnelGood ==
  ASSUME NEW s, NEW O, Good(s, O), NEW S \in SUBSET Registered(s), NEW on \in BOOLEAN,
         NEW P, O \subseteq P, on => {<<n, s[n].url.nonce>> : n \in S} \subseteq P
  PROVE  Good(SetTunnel(s, S, on), P)
<1> DEFINE t == SetTunnel(s, S, on)
<1>1. /\ t \in Registry /\ Registered(t) = Registered(s)
      /\ \A n \in Registered(s) :
           /\ t[n].port = s[n].port
           /\ t[n].url = s[n].url
           /\ t[n].enabled = (IF n \in S THEN on ELSE s[n].enabled)
  BY SetTunnelType DEF Good
<1> HIDE DEF t
<1>2. PortsUnique(t)
  BY <1>1, SamePortsUnique DEF Good
<1>3. RoomForAll => InRange(t)
  BY <1>1 DEF Good, InRange
<1>4. OnWithin(t, P)
  BY <1>1 DEF Good, OnWithin
<1>5. Good(t, P)
  BY <1>1, <1>2, <1>3, <1>4 DEF Good
<1> QED
  BY <1>5 DEF t

-----------------------------------------------------------------------------
(* The invariant. *)

\* No command has started; a legacy file holds distinct ports.
LEMMA InitInv == Init => Inv
<1> SUFFICES ASSUME Init PROVE Inv
  OBVIOUS
<1>1. disk \in WireRegistry
  <2>1. CASE disk = Empty
    BY <2>1, EmptyGood
  <2>2. CASE disk \in LegacyFiles
    <3>1. LegacyEntry \subseteq WireEntry
      BY PortsAssumption DEF LegacyEntry, WireEntry, SealedURL, SealedToken, Flag
    <3> QED
      BY <2>2, <3>1 DEF LegacyFiles, WireRegistry
  <2> QED
    BY <2>1, <2>2 DEF Init
<1>2. Load(disk) \in Registry /\ Registered(Load(disk)) = Registered(disk)
  BY <1>1, LoadType
<1>3. TypeOK
  <2>1. opened \in SUBSET Token
    BY DEF Init, Token
  <2> QED
    BY <1>1, <2>1, EmptyGood DEF Init, TypeOK, Good
<1>4. PortsUnique(Load(disk))
  BY EmptyGood DEF Init, LegacyFiles, Good
<1>5. RoomForAll => InRange(Load(disk))
  <2>1. CASE disk = Empty
    BY <2>1, EmptyGood DEF Good
  <2>2. CASE disk \in LegacyFiles
    <3> SUFFICES ASSUME RoomForAll, NEW n \in Registered(Load(disk))
                 PROVE  Load(disk)[n].port \in 0 .. MaxPort
      BY DEF InRange
    <3>1. n \in Names /\ disk[n] \in LegacyEntry /\ Load(disk)[n].port = disk[n].port
      BY <1>2, <2>2 DEF LegacyFiles, Registered, Load, Decode
    <3>2. Base <= MaxPort
      <4>1. Cardinality(Names) # 0 /\ Cardinality(Names) \in Nat
        BY <3>1, NamesAssumption, FS_EmptySet, FS_CardinalityType
      <4> QED
        BY <4>1, PortsAssumption DEF RoomForAll
    <3> QED
      BY <3>1, <3>2, PortsAssumption DEF LegacyEntry
  <2> QED
    BY <2>1, <2>2 DEF Init
<1>6. OnWithin(Load(disk), opened)
  <2>1. CASE disk = Empty
    BY <2>1, EmptyGood DEF Good
  <2>2. CASE disk \in LegacyFiles
    <3> SUFFICES ASSUME NEW n \in Registered(Load(disk)), Load(disk)[n].enabled
                 PROVE  <<n, Load(disk)[n].url.nonce>> \in opened
      BY DEF OnWithin
    <3>1. n \in Names /\ disk[n] \in LegacyEntry /\ Load(disk)[n].url = disk[n].url
      BY <1>2, <2>2 DEF LegacyFiles, Registered, Load, Decode
    <3>2. Load(disk)[n].url.nonce = 0
      BY <3>1 DEF LegacyEntry
    <3> QED
      BY <3>1, <3>2 DEF Init, Registered
  <2> QED
    BY <2>1, <2>2 DEF Init
<1>7. \A p \in Procs : Good(mem[p], opened)
  BY EmptyGood DEF Init
<1> QED
  BY <1>2, <1>3, <1>4, <1>5, <1>6, <1>7 DEF Inv, Good

\* Return forgets the locals of a command; the other commands keep theirs.
LEMMA ReturnLocals ==
  ASSUME Inv, NEW p \in Procs, Return(p), opened' = opened
  PROVE  /\ pc' \in [Procs -> {"idle", "load", "save", "write"}]
         /\ cmd' \in [Procs -> Commands \cup {NoCmd}]
         /\ \A q \in Procs : cmd'[q] = NoCmd <=> pc'[q] = "idle"
         /\ mem' \in [Procs -> Registry]
         /\ replaced' \in [Procs -> SUBSET Token]
         /\ \A q \in Procs : Good(mem'[q], opened')
<1>1. Empty \in Registry /\ \A q \in Procs : mem'[q] = mem[q] \/ mem'[q] = Empty
  BY EmptyGood DEF Inv, TypeOK, Return, Good
<1> QED
  BY <1>1, EmptyGood DEF Inv, TypeOK, Return

\* A command that loaded s and computed t: the registries in memory stay Good.
LEMMA ComputeInv ==
  ASSUME Inv, NEW p \in Procs, NEW t, pc[p] = "load", Compute(p, t), opened \subseteq opened',
         opened' \subseteq Token, Good(t, opened'),
         nextGen' \in Nat \ {0}, replaced' \in [Procs -> SUBSET Token]
  PROVE  Inv'
<1>1. disk' = disk /\ Good(Load(disk'), opened')
  BY GoodMonotone DEF Inv, Compute, file
<1>2. mem' \in [Procs -> Registry] /\ \A q \in Procs : mem'[q] = mem[q] \/ mem'[q] = t
  BY DEF Inv, TypeOK, Compute, Good
<1>3. \A q \in Procs : Good(mem'[q], opened')
  BY <1>2, GoodMonotone DEF Inv
<1>4. TypeOK'
  BY <1>2 DEF Inv, TypeOK, Compute, file
<1> QED
  BY <1>1, <1>3, <1>4 DEF Inv

\* Every step of a command, crashes included, preserves the invariant.
LEMMA StepInv ==
  ASSUME Inv, NEW p \in Procs, Step(p)
  PROVE  Inv'
<1> DEFINE s == Load(disk)
           c == cmd[p]
<1>1. /\ s \in Registry /\ Registered(s) = Registered(disk)
      /\ Registered(s) \subseteq Names /\ Good(s, opened)
  BY LoadType DEF Inv, TypeOK, Registered
<1>2. ASSUME pc[p] = "load"
      PROVE  /\ c \in Commands /\ c.key \in Keys
             /\ c.op = "add" => c.name \in Names /\ c.url \in URLs /\ c.port \in Int
             /\ c.op \in {"regen", "remove", "on", "off"} => c.name \in Names
  BY <1>2, CommandFields DEF Inv, TypeOK
<1>3. ASSUME NEW d \in Commands, Begin(p, d) PROVE Inv'
  <2>1. disk' = disk /\ opened' = opened /\ mem' = mem
    BY <1>3 DEF Begin, file
  <2>2. TypeOK'
    BY <1>3, NoCmdAssumption DEF Inv, TypeOK, Begin, file
  <2> QED
    BY <2>1, <2>2 DEF Inv
<1>4. CASE LoadAdd(p)
  <2> DEFINE t == Add(s, c.key, c.name, c.url, c.port, nextGen)
  <2>1. /\ c.key \in Keys /\ c.name \in Names /\ c.url \in URLs /\ c.port \in Int
        /\ ~AddRefused(s, c.name, c.port)
    BY <1>2, <1>4 DEF LoadAdd, Loading
  <2>2. nextGen \in Nat
    BY DEF Inv, TypeOK
  <2>3. Good(t, opened)
    BY <1>1, <2>1, <2>2, AddGood
  <2>4. /\ pc[p] = "load" /\ Compute(p, t) /\ opened' = opened /\ opened' \subseteq Token
        /\ nextGen' \in Nat \ {0} /\ replaced' \in [Procs -> SUBSET Token]
    BY <1>4 DEF LoadAdd, Loading, Inv, TypeOK
  <2> HIDE DEF t
  <2> QED
    BY <2>3, <2>4, ComputeInv
<1>5. CASE LoadRegen(p)
  <2> DEFINE S == RegenTargets(p)
             t == Regen(s, c.key, S, nextGen)
  <2>1. c.key \in Keys /\ S \in SUBSET Registered(s)
    BY <1>2, <1>5 DEF LoadRegen, Loading
  <2>2. nextGen \in Nat
    BY DEF Inv, TypeOK
  <2>3. Good(t, opened)
    BY <1>1, <2>1, <2>2, RegenGood
  <2>4. TokensOf(s, S) \in SUBSET Token
    BY <1>1, <2>1 DEF TokensOf, Token, Registry, Entry, SealedToken, Registered
  <2>5. replaced' \in [Procs -> SUBSET Token]
    BY <1>5, <2>4 DEF LoadRegen, Inv, TypeOK
  <2>6. /\ pc[p] = "load" /\ Compute(p, t) /\ opened' = opened /\ opened' \subseteq Token
        /\ nextGen' \in Nat \ {0}
    BY <1>5 DEF LoadRegen, Loading, Inv, TypeOK
  <2> HIDE DEF t
  <2> QED
    BY <2>3, <2>5, <2>6, ComputeInv
<1>6. CASE LoadRemove(p)
  <2> DEFINE t == Remove(s, c.name)
  <2>1. c.name \in Names
    BY <1>2, <1>6 DEF LoadRemove, Loading
  <2>2. Good(t, opened)
    BY <1>1, <2>1, RemoveGood
  <2>3. /\ pc[p] = "load" /\ Compute(p, t) /\ opened' = opened /\ opened' \subseteq Token
        /\ nextGen' \in Nat \ {0} /\ replaced' \in [Procs -> SUBSET Token]
    BY <1>6 DEF LoadRemove, Loading, Inv, TypeOK
  <2> HIDE DEF t
  <2> QED
    BY <2>2, <2>3, ComputeInv
<1>7. CASE LoadSetTunnel(p)
  <2> DEFINE S == TunnelTargets(p)
             on == Wants(c)
             t == SetTunnel(s, S, on)
             regs == {<<n, s[n].url.nonce>> : n \in S}
  <2>1. S \in SUBSET Registered(s) /\ on \in BOOLEAN
    BY <1>7 DEF LoadSetTunnel, Wants
  <2>2. opened \subseteq opened' /\ (on => regs \subseteq opened')
    BY <1>7 DEF LoadSetTunnel
  <2>3. Good(t, opened')
    BY <1>1, <2>1, <2>2, SetTunnelGood
  <2>4. regs \in SUBSET Token
    BY <1>1, <2>1 DEF Token, Registry, Entry, SealedURL, Registered
  <2>5. opened' \subseteq Token
    BY <1>7, <2>4 DEF LoadSetTunnel, Inv, TypeOK
  <2>6. /\ pc[p] = "load" /\ Compute(p, t)
        /\ nextGen' \in Nat \ {0} /\ replaced' \in [Procs -> SUBSET Token]
    BY <1>7 DEF LoadSetTunnel, Loading, Inv, TypeOK
  <2> HIDE DEF t
  <2> QED
    BY <2>2, <2>3, <2>5, <2>6, ComputeInv
<1>8. CASE LoadReturns(p)
  <2>1. opened' = opened /\ disk' = disk /\ Return(p)
    BY <1>8 DEF LoadReturns, file
  <2>2. TypeOK'
    BY <1>8, <2>1, ReturnLocals DEF Inv, TypeOK, LoadReturns, file
  <2> QED
    BY <2>1, <2>2, ReturnLocals DEF Inv
<1>9. CASE Truncate(p)
  <2>1. disk' = Empty /\ opened' = opened /\ mem' = mem
    BY <1>9 DEF Truncate
  <2>2. TypeOK'
    BY <1>9, EmptyGood DEF Inv, TypeOK, Truncate
  <2> QED
    BY <2>1, <2>2, EmptyGood DEF Inv
<1>10. CASE Write(p)
  <2>1. opened' = opened /\ Return(p)
    BY <1>10 DEF Write
  <2>2. disk' = Save(mem[p]) \/ disk' = Empty
    BY <1>10 DEF Write
  <2>3. disk' \in WireRegistry /\ Good(Load(disk'), opened)
    BY <2>2, SaveGood, EmptyGood DEF Inv
  <2>4. TypeOK'
    BY <1>10, <2>1, <2>3, ReturnLocals DEF Inv, TypeOK, Write, BytesLand
  <2> QED
    BY <2>1, <2>3, <2>4, ReturnLocals DEF Inv
<1>11. CASE Abort(p)
  <2>1. opened' = opened /\ Return(p)
    BY <1>11 DEF Abort
  <2>2. disk' = disk \/ disk' = Empty
    BY <1>11 DEF Abort, file
  <2>3. disk' \in WireRegistry /\ Good(Load(disk'), opened)
    BY <2>2, EmptyGood DEF Inv, TypeOK
  <2>4. TypeOK'
    BY <1>11, <2>1, <2>3, ReturnLocals DEF Inv, TypeOK, Abort, BytesLand, file
  <2> QED
    BY <2>1, <2>3, <2>4, ReturnLocals DEF Inv
<1> QED
  BY <1>3, <1>4, <1>5, <1>6, <1>7, <1>8, <1>9, <1>10, <1>11 DEF Step

\* Stuttering disturbs nothing.
LEMMA StutterInv == Inv /\ UNCHANGED vars => Inv'
BY DEF Inv, TypeOK, vars

-----------------------------------------------------------------------------
(* The theorems. *)

\* The file and every registry in memory are Good, always.
THEOREM Invariance == Spec => []Inv
<1>1. Inv /\ [Next]_vars => Inv'
  BY StepInv, StutterInv DEF Next
<1> QED
  BY InitInv, <1>1, PTL DEF Spec

\* The variables of store.go's commands keep their types, and a process has a
\* command exactly while it is running one.
THEOREM TypeCorrect == Spec => []TypeOK
<1>1. Inv => TypeOK
  BY DEF Inv
<1> QED
  BY <1>1, Invariance, PTL

\* No two connections share a tunnel port, in the file or in a registry that a
\* command is about to save, whatever commands run at the same time.
THEOREM PortsAlwaysUnique == Spec => []PortsUniqueEverywhere
<1>1. Inv => PortsUniqueEverywhere
  BY DEF Inv, Good, PortsUniqueEverywhere
<1> QED
  BY <1>1, Invariance, PTL

\* With room above DefaultPortBase for every name, allocPort's scan stays below
\* the highest port: no entry ever gets a port that cannot be listened on.
THEOREM PortsAlwaysInRange == Spec => []PortsInRange
<1>1. Inv => PortsInRange
  BY DEF Inv, Good, PortsInRange
<1> QED
  BY <1>1, Invariance, PTL

\* A connection is on only if an `on` command was applied to its registration.
THEOREM NeverOnUnaskedAlways == Spec => []NeverOnUnasked
<1>1. Inv => NeverOnUnasked
  BY DEF Inv, Good, NeverOnUnasked
<1> QED
  BY <1>1, Invariance, PTL

\* A file that does not parse is not overwritten by commands that start later:
\* each of them stops at load's error.
THEOREM UnparsableAlwaysKept == Spec => UnparsableIsKept
<1> DEFINE quiet == readable = "torn" /\ \A p \in Procs : pc[p] \in {"idle", "load"}
<1>1. ASSUME quiet, TypeOK, NEW p \in Procs, Step(p)
      PROVE  readable' = "torn" /\ \A q \in Procs : pc'[q] \in {"idle", "load"}
  <2>1. CASE \E c \in Commands : Begin(p, c)
    BY <1>1, <2>1 DEF Begin, TypeOK, file
  <2>2. CASE LoadReturns(p)
    BY <1>1, <2>2 DEF LoadReturns, Return, TypeOK, file
  <2>3. CASE Abort(p)
    BY <1>1, <2>3 DEF Abort, Return, TypeOK, file
  <2>4. ~LoadAdd(p) /\ ~LoadRegen(p) /\ ~LoadRemove(p) /\ ~LoadSetTunnel(p)
    BY <1>1 DEF LoadAdd, LoadRegen, LoadRemove, LoadSetTunnel, Loading
  <2>5. ~Truncate(p) /\ ~Write(p)
    BY <1>1 DEF Truncate, Write
  <2> QED
    BY <1>1, <2>1, <2>2, <2>3, <2>4, <2>5 DEF Step
<1>2. TypeOK /\ [Next]_vars =>
        [quiet => readable' = "torn" /\ \A p \in Procs : pc'[p] \in {"idle", "load"}]_vars
  BY <1>1 DEF Next
<1> QED
  BY <1>2, TypeCorrect, PTL DEF Spec, UnparsableIsKept
=============================================================================
