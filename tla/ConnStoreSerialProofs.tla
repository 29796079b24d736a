------------------------- MODULE ConnStoreSerialProofs -------------------------
(***************************************************************************)
(* ConnStore, one command at a time, implements AtomicRegistry: for any    *)
(* names, keys, URLs and ports, and wherever a command dies.               *)
(***************************************************************************)
EXTENDS ConnStoreSerial, ConnStoreProofs

-----------------------------------------------------------------------------
(* What a command makes of the registry it loaded.                         *)

\* Every token of s was drawn before g.
Older(s, g) == \A n \in Registered(s) : s[n].tok.gen < g

\* t is what c makes of s, with the token g if it draws one.
Moved(s, t, c, g) ==
  \/ /\ c.op = "add" /\ ~AddRefused(s, c.name, c.port)
     /\ t = Add(s, c.key, c.name, c.url, c.port, g)
  \/ \E S \in SUBSET Registered(s) : S # {} /\ t = Regen(s, c.key, S, g)
  \/ c.op = "remove" /\ s[c.name] # NoEntry /\ t = Remove(s, c.name)
  \/ \E S \in SUBSET Registered(s), on \in BOOLEAN : S # {} /\ t = SetTunnel(s, S, on)

LEMMA SameEntries ==
  /\ Atomic!Registry = Registry /\ Atomic!Entry = Entry
  /\ \A s : Atomic!Registered(s) = Registered(s)
  /\ \A s : Atomic!PortsUnique(s) <=> PortsUnique(s)
BY DEF Atomic!Registry, Registry, Atomic!Entry, Entry, Atomic!SealedURL, SealedURL,
       Atomic!SealedToken, SealedToken, Atomic!Registered, Registered,
       Atomic!PortsUnique, PortsUnique

\* A registration is one Register.
LEMMA AddIsRegister ==
  ASSUME NEW s \in Registry, NEW n \in Names, NEW r \in Requests, ~AddRefused(s, n, r),
         NEW key \in Keys, NEW raw \in URLs, NEW g \in Nat, Older(s, g),
         View = s, View' = Add(s, key, n, raw, r, g)
  PROVE  Atomic!Register(n, r)
<1> DEFINE t == Add(s, key, n, raw, r, g)
           w == WantedPort(s, n, r)
           p == AllocPort(Without(s, n), w)
           e == [url |-> [key |-> key, val |-> raw, nonce |-> g], port |-> p,
                 tok |-> [key |-> key, gen |-> g], enabled |-> FALSE]
<1>1. r \in Int /\ t \in Registry
  BY RequestsAssumption, AddType
<1>2. t = [s EXCEPT ![n] = e]
  BY DEF Add
<1>3. p \in Nat \ {0} /\ \A m \in Registered(s) \ {n} : s[m].port # p
  BY <1>1, GrantedPort
<1>4. e \in Entry
  BY <1>3 DEF Entry, SealedURL, SealedToken
<1>5. w # 0 => p = w /\ w \in 1 .. MaxPort
  BY DEF AllocPort, AddRefused, PortRefused
<1>6. w = 0 => p >= Base
  <2> SUFFICES ASSUME w = 0 PROVE p >= Base
    OBVIOUS
  <2>1. Without(s, n) \in Registry
    BY WithoutType
  <2>2. p = AutoPort(Without(s, n))
    BY DEF AllocPort
  <2>3. p \in Reach(Without(s, n))
    BY <2>1, <2>2, AutoPortFree
  <2> QED
    BY <2>1, <2>3, ReachType, PortsAssumption DEF Reach
<1>7. r # 0 => w = r
  BY DEF WantedPort
<1>8. r = 0 /\ n \in Registered(s) => w = s[n].port
  BY DEF WantedPort, Registered
<1>9. r = 0 /\ n \notin Registered(s) => w = 0
  BY DEF WantedPort, Registered
<1>10. e.port = p /\ ~e.enabled /\ e.url.key = e.tok.key /\ e.tok.gen = g
  OBVIOUS
<1> HIDE DEF p, w, e
<1>11. t[n] = e /\ \A m \in Names \ {n} : t[m] = s[m]
  BY <1>2 DEF Registry
<1>12. \A m \in Registered(s) : s[m].tok.gen < e.tok.gen
  BY <1>10 DEF Older
<1> HIDE DEF t
<1>13. View' = t
  BY DEF t
<1> QED
  BY <1>3, <1>4, <1>5, <1>6, <1>7, <1>8, <1>9, <1>10, <1>11, <1>12, <1>13, SameEntries
     DEF Atomic!Register, Atomic!OnlyTouches, Atomic!FreshToken

\* Fresh tokens for some entries are one Rotate.
LEMMA RegenIsRotate ==
  ASSUME NEW s \in Registry, NEW S \in SUBSET Registered(s), NEW key \in Keys, NEW g \in Nat,
         Older(s, g), View = s, View' = Regen(s, key, S, g)
  PROVE  Atomic!Rotate(S)
<1> DEFINE x == [key |-> key, gen |-> g]
           t == Regen(s, key, S, g)
<1>1. \A n \in Names \ S : t[n] = s[n]
  BY DEF Regen
<1>2. \A n \in S : t[n] = [s[n] EXCEPT !.tok = x]
  BY DEF Regen, Registered
<1>3. \A e \in Entry : [e EXCEPT !.tok = x].tok = x
  BY DEF Entry
<1>4. \A n \in S : s[n] \in Entry
  BY DEF Registry, Registered
<1>5. \A n \in S : t[n].tok = x
  BY <1>2, <1>3, <1>4
<1>6. x.gen = g
  OBVIOUS
<1> HIDE DEF x, t
<1>7. View' = t
  BY DEF t
<1> QED
  BY <1>1, <1>2, <1>5, <1>6, <1>7, SameEntries
     DEF Atomic!Rotate, Atomic!OnlyTouches, Atomic!FreshToken, Older

\* What a command computed is one step of AtomicRegistry on what it loaded.
LEMMA MovedIsAtomic ==
  ASSUME NEW s \in Registry, NEW t, NEW c \in Commands, NEW g \in Nat, Older(s, g),
         Moved(s, t, c, g), View = s, View' = t, ~Lost, ~Lost'
  PROVE  Atomic!Next
<1>1. c.key \in Keys
  BY CommandFields
<1>2. CASE c.op = "add" /\ ~AddRefused(s, c.name, c.port) /\ t = Add(s, c.key, c.name, c.url, c.port, g)
  <2>1. c.name \in Names /\ c.url \in URLs /\ c.port \in Requests
    BY <1>2 DEF Commands, AddCmd, NamedCmd, AllCmd
  <2>2. Atomic!Register(c.name, c.port)
    BY <1>1, <1>2, <2>1, AddIsRegister
  <2> QED
    BY <2>1, <2>2 DEF Atomic!Next, Lost
<1>3. ASSUME NEW S \in SUBSET Registered(s), S # {}, t = Regen(s, c.key, S, g) PROVE Atomic!Next
  <2>1. Atomic!Rotate(S)
    BY <1>1, <1>3, RegenIsRotate
  <2>2. S \in SUBSET Atomic!Registered(View)
    BY SameEntries
  <2> QED
    BY <1>3, <2>1, <2>2 DEF Atomic!Next, Lost
<1>4. CASE c.op = "remove" /\ s[c.name] # NoEntry /\ t = Remove(s, c.name)
  <2>1. c.name \in Names
    BY <1>4, CommandFields
  <2>2. t[c.name] = NoEntry /\ \A m \in Names \ {c.name} : t[m] = s[m]
    BY <1>4, <2>1 DEF Remove, Without, Registry
  <2>3. Atomic!Unregister(c.name)
    BY <1>4, <2>1, <2>2, SameEntries DEF Atomic!Unregister, Atomic!OnlyTouches, Registered
  <2> QED
    BY <2>1, <2>3 DEF Atomic!Next, Lost
<1>5. ASSUME NEW S \in SUBSET Registered(s), NEW on \in BOOLEAN, S # {}, t = SetTunnel(s, S, on)
      PROVE  Atomic!Next
  <2>1. Atomic!Toggle(S, on)
    BY <1>5 DEF Atomic!Toggle, Atomic!OnlyTouches, SetTunnel, Registered
  <2>2. S \in SUBSET Atomic!Registered(View)
    BY SameEntries
  <2> QED
    BY <1>5, <2>1, <2>2 DEF Atomic!Next, Lost
<1> QED
  BY <1>2, <1>3, <1>4, <1>5 DEF Moved

-----------------------------------------------------------------------------
(* The invariant: what the only command at work holds.                     *)

Alone ==
  /\ \A p \in Procs : dirty[p] = FALSE
  /\ readable # "ok" => disk = Empty
  /\ Older(Load(disk), nextGen) /\ \A p \in Procs : Older(mem[p], nextGen)
  /\ \A p \in Procs : pc[p] = "write" => readable = "torn"
  /\ \A p \in Procs : pc[p] = "save" =>
       /\ readable # "torn"
       /\ \E g \in Nat : Older(Load(disk), g) /\ Moved(Load(disk), mem[p], cmd[p], g)

LEMMA AloneInit == Init => Alone
<1> SUFFICES ASSUME Init PROVE Alone
  OBVIOUS
<1>1. Older(Empty, nextGen) /\ Load(Empty) = Empty
  BY EmptyGood DEF Older, Empty, Registered
<1>2. Older(Load(disk), nextGen)
  <2>1. CASE disk = Empty
    BY <1>1, <2>1
  <2>2. CASE disk \in LegacyFiles
    <3> SUFFICES ASSUME NEW n \in Registered(Load(disk)) PROVE Load(disk)[n].tok.gen < nextGen
      BY DEF Older
    <3>1. disk[n] \in LegacyEntry /\ Load(disk)[n].tok = disk[n].tok
      BY <2>2 DEF LegacyFiles, Registered, Load, Decode
    <3>2. disk[n].tok.gen = 0
      BY <3>1 DEF LegacyEntry
    <3> QED
      BY <3>1, <3>2 DEF Init
  <2> QED
    BY <2>1, <2>2 DEF Init
<1> QED
  BY <1>1, <1>2 DEF Init, Alone

\* The tokens of what a command computes.
LEMMA TokensOlder ==
  ASSUME NEW s \in Registry, NEW g \in Nat, Older(s, g)
  PROVE  /\ Older(s, g + 1)
         /\ \A n \in Names, key \in Keys : \A raw, r : Older(Add(s, key, n, raw, r, g), g + 1)
         /\ \A S \in SUBSET Registered(s), key \in Keys : Older(Regen(s, key, S, g), g + 1)
         /\ \A n \in Names : Older(Remove(s, n), g)
         /\ \A S \in SUBSET Registered(s), on \in BOOLEAN : Older(SetTunnel(s, S, on), g)
<1>1. \A n \in Registered(s) : s[n].tok.gen \in Nat
  BY DEF Registry, Registered, Entry, SealedToken
<1>2. Older(s, g + 1)
  BY <1>1 DEF Older
<1>3. ASSUME NEW n \in Names, NEW key \in Keys, NEW raw, NEW r
      PROVE  Older(Add(s, key, n, raw, r, g), g + 1)
  BY <1>2 DEF Older, Add, Registry, Registered
<1>4. ASSUME NEW S \in SUBSET Registered(s), NEW key \in Keys
      PROVE  Older(Regen(s, key, S, g), g + 1)
  <2> DEFINE x == [key |-> key, gen |-> g]
  <2>1. \A e \in Entry : [e EXCEPT !.tok = x].tok.gen = g
    BY DEF Entry
  <2>2. \A n \in S : s[n] \in Entry
    BY DEF Registry, Registered
  <2>3. \A n \in S : Regen(s, key, S, g)[n].tok.gen = g
    BY <2>1, <2>2 DEF Regen, Registered
  <2>4. \A n \in Names \ S : Regen(s, key, S, g)[n] = s[n]
    BY DEF Regen
  <2> QED
    BY <1>2, <2>3, <2>4 DEF Older, Registered
<1>5. ASSUME NEW n \in Names PROVE Older(Remove(s, n), g)
  BY DEF Older, Remove, Without, Registry, Registered
<1>6. ASSUME NEW S \in SUBSET Registered(s), NEW on \in BOOLEAN
      PROVE  Older(SetTunnel(s, S, on), g)
  BY SetTunnelType DEF Older
<1> QED
  BY <1>2, <1>3, <1>4, <1>5, <1>6

\* A command has computed t from the file.
LEMMA AloneCompute ==
  ASSUME Inv, Alone, NEW p \in Procs, NEW t, pc[p] = "load", Compute(p, t),
         readable # "torn", Moved(Load(disk), t, cmd[p], nextGen),
         Older(Load(disk), nextGen'), Older(t, nextGen')
  PROVE  Alone'
<1>1. nextGen \in Nat /\ Procs = {p}
  BY SerialAssumption DEF Inv, TypeOK
<1>2. /\ mem'[p] = t /\ pc'[p] = "save"
      /\ UNCHANGED <<readable, disk, cmd, dirty>>
  BY DEF Compute, Inv, TypeOK, file
<1> QED
  BY <1>1, <1>2 DEF Alone

LEMMA AloneStep == Inv /\ Alone /\ [Next]_vars => Alone'
<1> SUFFICES ASSUME Inv, Alone, NEW p \in Procs, Step(p) PROVE Alone'
  BY DEF Next, vars, Alone
<1> DEFINE s == Load(disk)
           c == cmd[p]
<1>1. Procs = {p} /\ s \in Registry /\ nextGen \in Nat /\ Older(s, nextGen)
  BY SerialAssumption, LoadType DEF Inv, TypeOK, Alone
<1>2. pc[p] = "load" => c \in Commands /\ c.key \in Keys
  BY CommandFields DEF Inv, TypeOK
<1>3. Older(Empty, nextGen) /\ Load(Empty) = Empty
  BY EmptyGood DEF Older, Empty, Registered
<1>4. ASSUME Return(p), UNCHANGED <<readable, disk, nextGen>>, dirty'[p] = FALSE
      PROVE  Alone'
  <2>1. pc'[p] = "idle" /\ mem'[p] = Empty
    BY <1>4 DEF Return, Inv, TypeOK
  <2> QED
    BY <1>1, <1>3, <1>4, <2>1 DEF Alone
<1>5. ASSUME NEW d \in Commands, Begin(p, d) PROVE Alone'
  <2>1. pc'[p] = "load" /\ UNCHANGED <<readable, disk, nextGen, mem, dirty>>
    BY <1>5 DEF Begin, file, Inv, TypeOK
  <2> QED
    BY <1>1, <2>1 DEF Alone
<1>6. CASE LoadAdd(p)
  <2>1. c.name \in Names
    BY <1>2, <1>6, CommandFields DEF LoadAdd, Loading
  <2>2. /\ pc[p] = "load" /\ c.op = "add" /\ readable # "torn"
        /\ ~AddRefused(s, c.name, c.port) /\ nextGen' = nextGen + 1
        /\ Compute(p, Add(s, c.key, c.name, c.url, c.port, nextGen))
    BY <1>6 DEF LoadAdd, Loading
  <2>3. Moved(s, Add(s, c.key, c.name, c.url, c.port, nextGen), c, nextGen)
    BY <2>2 DEF Moved
  <2> QED
    BY <1>1, <1>2, <2>1, <2>2, <2>3, TokensOlder, AloneCompute
<1>7. CASE LoadRegen(p)
  <2> DEFINE S == RegenTargets(p)
  <2>1. /\ pc[p] = "load" /\ readable # "torn" /\ nextGen' = nextGen + 1
        /\ S # {} /\ S \in SUBSET Registered(s)
        /\ Compute(p, Regen(s, c.key, S, nextGen))
    BY <1>7 DEF LoadRegen, Loading
  <2>2. Moved(s, Regen(s, c.key, S, nextGen), c, nextGen)
    BY <2>1 DEF Moved
  <2> HIDE DEF S
  <2> QED
    BY <1>1, <1>2, <2>1, <2>2, TokensOlder, AloneCompute
<1>8. CASE LoadRemove(p)
  <2>1. /\ pc[p] = "load" /\ c.op = "remove" /\ readable # "torn" /\ nextGen' = nextGen
        /\ s[c.name] # NoEntry /\ Compute(p, Remove(s, c.name))
    BY <1>8 DEF LoadRemove, Loading
  <2>2. c.name \in Names
    BY <1>2, <2>1, CommandFields
  <2>3. Moved(s, Remove(s, c.name), c, nextGen)
    BY <2>1 DEF Moved
  <2> QED
    BY <1>1, <2>1, <2>2, <2>3, TokensOlder, AloneCompute
<1>9. CASE LoadSetTunnel(p)
  <2> DEFINE S == TunnelTargets(p)
             on == Wants(c)
  <2>1. /\ pc[p] = "load" /\ readable # "torn" /\ nextGen' = nextGen
        /\ S # {} /\ S \in SUBSET Registered(s) /\ Compute(p, SetTunnel(s, S, on))
    BY <1>9 DEF LoadSetTunnel, Loading
  <2>2. on \in BOOLEAN
    BY DEF Wants
  <2> HIDE DEF S, on
  <2>3. Moved(s, SetTunnel(s, S, on), c, nextGen)
    BY <2>1, <2>2 DEF Moved
  <2> QED
    BY <1>1, <2>1, <2>2, <2>3, TokensOlder, AloneCompute
<1>10. CASE LoadReturns(p)
  BY <1>4, <1>10 DEF LoadReturns, file, Alone
<1>11. CASE Truncate(p)
  <2>1. pc'[p] = "write" /\ readable' = "torn" /\ disk' = Empty /\ dirty'[p] = FALSE
        /\ UNCHANGED <<mem, nextGen>>
    BY <1>11 DEF Truncate, Inv, TypeOK
  <2> QED
    BY <1>1, <1>3, <2>1 DEF Alone
<1>12. CASE Write(p)
  <2>1. /\ readable' = "ok" /\ disk' = Save(mem[p]) /\ dirty'[p] = FALSE
        /\ nextGen' = nextGen /\ pc'[p] = "idle" /\ mem'[p] = Empty
    BY <1>12 DEF Write, BytesLand, Return, Alone, Inv, TypeOK
  <2>2. Load(disk') = mem[p] /\ Older(mem[p], nextGen)
    BY <2>1, LoadOfSave DEF Inv, TypeOK, Alone
  <2> QED
    BY <1>1, <1>3, <2>1, <2>2 DEF Alone
<1>13. CASE Abort(p)
  <2>1. CASE UNCHANGED file
    BY <1>4, <1>13, <2>1 DEF Abort, file, Alone, BytesLand, Inv, TypeOK
  <2>2. CASE ~UNCHANGED file
    <3>1. /\ readable' = "torn" /\ disk' = Empty /\ dirty'[p] = FALSE
          /\ nextGen' = nextGen /\ pc'[p] = "idle" /\ mem'[p] = Empty
      BY <1>13, <2>2 DEF Abort, BytesLand, Return, Inv, TypeOK
    <3> QED
      BY <1>1, <1>3, <3>1 DEF Alone
  <2> QED
    BY <2>1, <2>2
<1> QED
  BY <1>5, <1>6, <1>7, <1>8, <1>9, <1>10, <1>11, <1>12, <1>13 DEF Step

-----------------------------------------------------------------------------
(* The refinement.                                                         *)

\* Who looks at the file sees what it holds, or what is being written.
LEMMA ViewIs ==
  ASSUME NEW p \in Procs
  PROVE  /\ Saving <=> pc[p] = "write"
         /\ View = IF pc[p] = "write" THEN mem[p] ELSE Load(disk)
         /\ Lost <=> readable = "torn" /\ pc[p] # "write"
<1>1. Procs = {p}
  BY SerialAssumption
<1>2. pc[p] = "write" => (CHOOSE q \in Procs : pc[q] = "write") = p
  BY <1>1
<1> QED
  BY <1>1, <1>2 DEF Saving, View, Lost

LEMMA ViewIsNext ==
  ASSUME NEW p \in Procs
  PROVE  /\ View' = IF pc'[p] = "write" THEN mem'[p] ELSE Load(disk')
         /\ Lost' <=> readable' = "torn" /\ pc'[p] # "write"
<1>1. Procs = {p}
  BY SerialAssumption
<1>2. pc'[p] = "write" => (CHOOSE q \in Procs : pc'[q] = "write") = p
  BY <1>1
<1> QED
  BY <1>1, <1>2 DEF Saving, View, Lost

LEMMA InitAtomic == Init => Atomic!Init
<1> SUFFICES ASSUME Init PROVE Atomic!Init
  OBVIOUS
<1>1. Load(disk) \in Registry /\ PortsUnique(Load(disk))
  BY InitInv, LoadType DEF Inv, TypeOK, Good
<1>2. View = Load(disk) /\ Lost = FALSE
  BY DEF Init, View, Lost, Saving
<1> QED
  BY <1>1, <1>2, SameEntries DEF Atomic!Init

\* Every step of a command is a step of the abstract registry, or is not seen.
LEMMA StepAtomic == Inv /\ Alone /\ [Next]_vars => [Atomic!Next]_<<View, Lost>>
<1> SUFFICES ASSUME Inv, Alone, [Next]_vars
             PROVE  Atomic!Next \/ (View' = View /\ Lost' = Lost)
  OBVIOUS
<1>1. CASE UNCHANGED vars
  BY <1>1 DEF vars, View, Lost, Saving
<1>2. ASSUME NEW p \in Procs, Step(p) PROVE Atomic!Next \/ (View' = View /\ Lost' = Lost)
  <2>1. Load(disk) \in Registry /\ mem[p] \in Registry /\ Lost \in BOOLEAN /\ Lost' \in BOOLEAN
    BY LoadType DEF Inv, TypeOK, Lost
  <2>2. ASSUME pc[p] # "write", pc'[p] # "write", UNCHANGED file
        PROVE  View' = View /\ Lost' = Lost
    BY <2>1, <2>2, ViewIs, ViewIsNext DEF file
  <2>3. CASE \E c \in Commands : Begin(p, c)
    BY <2>2, <2>3 DEF Begin, Inv, TypeOK
  <2>4. CASE LoadAdd(p) \/ LoadRegen(p) \/ LoadRemove(p) \/ LoadSetTunnel(p)
    <3>1. pc[p] = "load" /\ pc'[p] = "save" /\ UNCHANGED file
      BY <2>4 DEF LoadAdd, LoadRegen, LoadRemove, LoadSetTunnel, Loading, Compute, Inv, TypeOK
    <3> QED
      BY <2>2, <3>1
  <2>5. CASE LoadReturns(p)
    BY <2>2, <2>5 DEF LoadReturns, Return, Inv, TypeOK
  <2>6. CASE Truncate(p)
    <3>1. pc[p] = "save" /\ pc'[p] = "write" /\ mem'[p] = mem[p]
      BY <2>6 DEF Truncate, Inv, TypeOK
    <3>2. readable # "torn"
      BY <3>1 DEF Alone
    <3>3. PICK g \in Nat : Older(Load(disk), g) /\ Moved(Load(disk), mem[p], cmd[p], g)
      BY <3>1 DEF Alone
    <3>4. View = Load(disk) /\ View' = mem[p] /\ ~Lost /\ ~Lost'
      BY <3>1, <3>2, ViewIs, ViewIsNext
    <3>5. cmd[p] \in Commands
      BY <3>1 DEF Inv, TypeOK
    <3> QED
      BY <2>1, <3>3, <3>4, <3>5, MovedIsAtomic
  <2>7. CASE Write(p)
    <3>1. pc[p] = "write" /\ pc'[p] = "idle" /\ readable' = "ok" /\ disk' = Save(mem[p])
      BY <2>7 DEF Write, Return, Alone, Inv, TypeOK
    <3>2. View = mem[p] /\ View' = mem[p] /\ ~Lost /\ ~Lost'
      BY <2>1, <3>1, ViewIs, ViewIsNext, LoadOfSave
    <3> QED
      BY <2>1, <3>2
  <2>8. CASE Abort(p)
    <3>1. pc'[p] = "idle"
      BY <2>8 DEF Abort, Return, Inv, TypeOK
    <3>2. CASE pc[p] # "write"
      BY <2>2, <2>8, <3>1, <3>2 DEF Abort
    <3>3. CASE pc[p] = "write"
      <4>1. readable' = "torn" /\ disk' = Empty
        BY <2>8, <3>3 DEF Abort, Alone, file
      <4>2. View' = Empty /\ ~Lost /\ Lost'
        BY <3>1, <3>3, <4>1, ViewIs, ViewIsNext, EmptyGood
      <4>3. Lost' = TRUE
        BY <2>1, <4>2
      <4> QED
        BY <4>2, <4>3 DEF Atomic!Next, Atomic!Lose, Atomic!Empty, Empty
    <3> QED
      BY <3>2, <3>3
  <2> QED
    BY <1>2, <2>3, <2>4, <2>5, <2>6, <2>7, <2>8 DEF Step
<1> QED
  BY <1>1, <1>2 DEF Next

\* Commands run one at a time are the indivisible steps of AtomicRegistry,
\* however many names, keys and ports there are and wherever one dies: the
\* window of os.WriteFile shows only as the loss of the file.
THEOREM CommandsAreAtomicAlways == Spec => CommandsAreAtomic
<1>1. Inv /\ Alone /\ [Next]_vars => Alone'
  BY AloneStep
<1>2. Spec => [](Inv /\ Alone)
  BY <1>1, AloneInit, Invariance, PTL DEF Spec
<1>3. Spec => [][Atomic!Next]_<<View, Lost>>
  BY <1>2, StepAtomic, PTL DEF Spec
<1> QED
  BY <1>3, InitAtomic, PTL DEF Spec, CommandsAreAtomic, Atomic!Spec

-----------------------------------------------------------------------------
(* Replaced tokens.                                                        *)

\* No entry of s has a token of R.
Clear(s, R) == \A n \in Registered(s) : <<n, s[n].tok.gen>> \notin R

\* A command is about to save a registry of its own.
Holds(p) == pc[p] \in {"save", "write"}

\* The tokens that were, or are about to be, replaced are old, and in no registry.
OldOnes ==
  /\ \A x \in retired : x[2] < nextGen
  /\ Clear(Load(disk), retired)
  /\ \A p \in Procs :
       /\ \A x \in replaced[p] : x[2] < nextGen
       /\ IF Holds(p) THEN Clear(mem[p], retired \cup replaced[p]) ELSE replaced[p] = {}

\* A command that computed t: what its new tokens are.
LEMMA OldOnesCompute ==
  ASSUME Inv, OldOnes, NEW p \in Procs, NEW t, pc[p] = "load", Compute(p, t),
         nextGen' \in {nextGen, nextGen + 1}, NEW R \in SUBSET Token,
         \A x \in R : x[2] < nextGen, Clear(t, retired \cup R),
         replaced' = [replaced EXCEPT ![p] = R]
  PROVE  OldOnes'
<1>1. /\ Procs = {p} /\ nextGen \in Nat
      /\ \A x \in retired \cup R : x[2] \in Nat
  BY SerialAssumption DEF Inv, TypeOK, Token
<1>2. /\ mem'[p] = t /\ pc'[p] = "save" /\ UNCHANGED <<disk, retired>> /\ replaced'[p] = R
  BY DEF Compute, Inv, TypeOK, file
<1>3. \A x \in retired \cup R : x[2] < nextGen'
  BY <1>1 DEF OldOnes
<1> QED
  BY <1>1, <1>2, <1>3 DEF OldOnes, Holds

LEMMA ClearOfCommands ==
  ASSUME NEW s \in Registry, NEW g \in Nat, NEW R, \A x \in R : x[2] < g, Clear(s, R)
  PROVE  /\ \A n \in Names, key \in Keys : \A raw, r : Clear(Add(s, key, n, raw, r, g), R)
         /\ \A S \in SUBSET Registered(s), key \in Keys :
              Older(s, g) => Clear(Regen(s, key, S, g), R \cup TokensOf(s, S))
         /\ \A n \in Names : Clear(Remove(s, n), R)
         /\ \A S \in SUBSET Registered(s), on \in BOOLEAN : Clear(SetTunnel(s, S, on), R)
<1>1. \A n : <<n, g>> \notin R
  BY DEF Clear
<1>2. ASSUME NEW n \in Names, NEW key \in Keys, NEW raw, NEW r
      PROVE  Clear(Add(s, key, n, raw, r, g), R)
  BY <1>1 DEF Clear, Add, Registry, Registered
<1>3. ASSUME NEW S \in SUBSET Registered(s), NEW key \in Keys, Older(s, g)
      PROVE  Clear(Regen(s, key, S, g), R \cup TokensOf(s, S))
  <2> DEFINE x == [key |-> key, gen |-> g]
  <2>1. \A e \in Entry : [e EXCEPT !.tok = x].tok.gen = g
    BY DEF Entry
  <2>2. \A n \in S : s[n] \in Entry
    BY DEF Registry, Registered
  <2>3. \A n \in S : Regen(s, key, S, g)[n].tok.gen = g
    BY <2>1, <2>2 DEF Regen, Registered
  <2>4. \A n \in Names \ S : Regen(s, key, S, g)[n] = s[n]
    BY DEF Regen
  <2>5. ASSUME NEW n \in S PROVE <<n, g>> \notin TokensOf(s, S)
    BY <1>3 DEF TokensOf, Older, Registered
  <2>6. ASSUME NEW n \in Names \ S, NEW h PROVE <<n, h>> \notin TokensOf(s, S)
    BY DEF TokensOf
  <2> QED
    BY <1>1, <2>3, <2>4, <2>5, <2>6 DEF Clear, Registered
<1>4. ASSUME NEW n \in Names PROVE Clear(Remove(s, n), R)
  BY DEF Clear, Remove, Without, Registry, Registered
<1>5. ASSUME NEW S \in SUBSET Registered(s), NEW on \in BOOLEAN
      PROVE  Clear(SetTunnel(s, S, on), R)
  BY SetTunnelType DEF Clear
<1> QED
  BY <1>2, <1>3, <1>4, <1>5

LEMMA OldOnesStep == Inv /\ Alone /\ OldOnes /\ [Next]_vars => OldOnes'
<1> SUFFICES ASSUME Inv, Alone, OldOnes, NEW p \in Procs, Step(p) PROVE OldOnes'
  BY DEF Next, vars, OldOnes, Holds
<1> DEFINE s == Load(disk)
           c == cmd[p]
<1>1. /\ Procs = {p} /\ s \in Registry /\ nextGen \in Nat /\ Older(s, nextGen)
      /\ Clear(s, retired) /\ \A x \in retired : x[2] < nextGen
  BY SerialAssumption, LoadType DEF Inv, TypeOK, Alone, OldOnes
<1>2. pc[p] = "load" =>
        /\ c \in Commands /\ c.key \in Keys
        /\ replaced[p] = {} /\ replaced = [replaced EXCEPT ![p] = {}]
  BY CommandFields DEF Inv, TypeOK, OldOnes, Holds
<1>3. /\ \A n \in Names, key \in Keys : \A raw, r : Clear(Add(s, key, n, raw, r, nextGen), retired)
      /\ \A S \in SUBSET Registered(s), key \in Keys :
           Clear(Regen(s, key, S, nextGen), retired \cup TokensOf(s, S))
      /\ \A n \in Names : Clear(Remove(s, n), retired)
      /\ \A S \in SUBSET Registered(s), on \in BOOLEAN : Clear(SetTunnel(s, S, on), retired)
  <2> HIDE DEF s
  <2> QED
    BY <1>1, ClearOfCommands
<1>4. retired \cup {} = retired
  OBVIOUS
<1>5. Clear(Empty, retired) /\ Load(Empty) = Empty
  BY EmptyGood DEF Clear, Empty, Registered
<1>6. ASSUME Return(p), disk' \in {disk, Empty}, UNCHANGED <<retired, nextGen>> PROVE OldOnes'
  <2>1. pc'[p] = "idle" /\ replaced'[p] = {}
    BY <1>6 DEF Return, Inv, TypeOK
  <2> QED
    BY <1>1, <1>5, <1>6, <2>1 DEF OldOnes, Holds
<1>7. ASSUME NEW d \in Commands, Begin(p, d) PROVE OldOnes'
  BY <1>1, <1>7 DEF Begin, file, Inv, TypeOK, OldOnes, Holds
<1>8. CASE LoadAdd(p)
  <2>1. c.name \in Names
    BY <1>2, <1>8, CommandFields DEF LoadAdd, Loading
  <2>2. /\ pc[p] = "load" /\ nextGen' = nextGen + 1 /\ replaced' = replaced
        /\ Compute(p, Add(s, c.key, c.name, c.url, c.port, nextGen))
    BY <1>8 DEF LoadAdd, Loading
  <2>3. Clear(Add(s, c.key, c.name, c.url, c.port, nextGen), retired \cup {})
    BY <1>3, <1>4, <1>2, <2>1, <2>2
  <2> QED
    BY <1>2, <2>2, <2>3, OldOnesCompute
<1>9. CASE LoadRegen(p)
  <2> DEFINE S == RegenTargets(p)
  <2>1. /\ pc[p] = "load" /\ nextGen' = nextGen + 1 /\ S \in SUBSET Registered(s)
        /\ Compute(p, Regen(s, c.key, S, nextGen))
        /\ replaced' = [replaced EXCEPT ![p] = TokensOf(s, S)]
    BY <1>9 DEF LoadRegen, Loading
  <2> HIDE DEF S
  <2>2. Clear(Regen(s, c.key, S, nextGen), retired \cup TokensOf(s, S))
    BY <1>3, <1>2, <2>1
  <2>3. TokensOf(s, S) \in SUBSET Token /\ \A x \in TokensOf(s, S) : x[2] < nextGen
    BY <1>1, <2>1 DEF TokensOf, Token, Older, Registered, Registry, Entry, SealedToken
  <2> QED
    BY <2>1, <2>2, <2>3, OldOnesCompute
<1>10. CASE LoadRemove(p)
  <2>1. /\ pc[p] = "load" /\ c.op = "remove" /\ nextGen' = nextGen /\ replaced' = replaced
        /\ Compute(p, Remove(s, c.name))
    BY <1>10 DEF LoadRemove, Loading
  <2>2. c.name \in Names
    BY <1>2, <2>1, CommandFields
  <2>3. Clear(Remove(s, c.name), retired \cup {})
    BY <1>3, <1>4, <2>2
  <2> QED
    BY <1>2, <2>1, <2>3, OldOnesCompute
<1>11. CASE LoadSetTunnel(p)
  <2> DEFINE S == TunnelTargets(p)
             on == Wants(c)
  <2>1. /\ pc[p] = "load" /\ nextGen' = nextGen /\ replaced' = replaced
        /\ S \in SUBSET Registered(s) /\ Compute(p, SetTunnel(s, S, on))
    BY <1>11 DEF LoadSetTunnel, Loading
  <2>2. on \in BOOLEAN
    BY DEF Wants
  <2> HIDE DEF S, on
  <2>3. Clear(SetTunnel(s, S, on), retired \cup {})
    BY <1>3, <1>4, <2>1, <2>2
  <2> QED
    BY <1>2, <2>1, <2>3, OldOnesCompute
<1>12. CASE LoadReturns(p)
  BY <1>6, <1>12 DEF LoadReturns, file
<1>13. CASE Truncate(p)
  <2>1. pc[p] = "save" /\ pc'[p] = "write" /\ disk' = Empty
        /\ UNCHANGED <<mem, nextGen, replaced, retired>>
    BY <1>13 DEF Truncate, Inv, TypeOK
  <2> QED
    BY <1>1, <1>5, <2>1 DEF OldOnes, Holds
<1>14. CASE Write(p)
  <2>1. /\ pc[p] = "write" /\ disk' = Save(mem[p]) /\ retired' = retired \cup replaced[p]
        /\ nextGen' = nextGen /\ pc'[p] = "idle" /\ replaced'[p] = {}
    BY <1>14 DEF Write, Return, Alone, Inv, TypeOK
  <2>2. Load(disk') = mem[p]
    BY <2>1, LoadOfSave DEF Inv, TypeOK
  <2> QED
    BY <1>1, <2>1, <2>2 DEF OldOnes, Holds
<1>15. CASE Abort(p)
  BY <1>6, <1>15 DEF Abort, file
<1> QED
  BY <1>7, <1>8, <1>9, <1>10, <1>11, <1>12, <1>13, <1>14, <1>15 DEF Step

\* RegenToken's promise, when commands run one at a time: once a regen returned, no
\* token it replaced is ever in the file again, wherever later commands die.
THEOREM OldTokensStayOutAlways == Spec => []OldTokensStayOut
<1>1. Init => OldOnes
  BY DEF Init, OldOnes, Clear, Holds
<1>2. ASSUME Inv, OldOnes PROVE OldTokensStayOut
  <2>1. Registered(Load(disk)) = Registered(disk)
    BY <1>2, LoadType DEF Inv, TypeOK
  <2>2. \A n \in Registered(disk) : Load(disk)[n].tok = disk[n].tok
    BY DEF Registered, Load, Decode
  <2> QED
    BY <1>2, <2>1, <2>2 DEF OldOnes, Clear, OldTokensStayOut
<1> QED
  BY <1>1, <1>2, AloneInit, AloneStep, OldOnesStep, Invariance, PTL DEF Spec
=============================================================================
