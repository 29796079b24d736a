-------------------------- MODULE ConnectionsProofs --------------------------
(***************************************************************************)
(* What the commands of store.go do to a registry, for every set of names, *)
(* keys and URLs: they keep it well-typed and keep its ports distinct.     *)
(***************************************************************************)
EXTENDS Connections, FiniteSetTheorems, WellFoundedInduction, TLAPS

\* A non-empty set of naturals has a least element.
LEMMA LeastOf ==
  ASSUME NEW T \in SUBSET Nat, T # {}
  PROVE  \E p \in T : \A q \in T : p <= q
<1> DEFINE below(t) == 0 .. t
           segments == {below(t) : t \in T}
           R == StrictSubsetOrdering(Nat)
<1>1. segments \subseteq FiniteSubsetsOf(Nat) /\ segments # {}
  <2>1. \A t \in T : below(t) \in SUBSET Nat /\ IsFiniteSet(below(t))
    BY FS_Interval
  <2> QED
    BY <2>1 DEF FiniteSubsetsOf
<1>2. PICK I \in segments : \A J \in segments : <<J, I>> \notin R
  <2>1. IsWellFoundedOn(R, FiniteSubsetsOf(Nat))
    BY FS_StrictSubsetOrderingWellFounded
  <2> QED
    BY <1>1, <2>1, WFMin
<1>3. PICK p \in T : I = below(p)
  OBVIOUS
<1>4. ASSUME NEW q \in T, q < p PROVE FALSE
  <2>1. below(q) \subseteq below(p) /\ below(q) # below(p)
    <3>1. p \in below(p) /\ p \notin below(q)
      BY <1>4
    <3>2. below(q) \subseteq below(p)
      BY <1>4
    <3> QED
      BY <3>1, <3>2
  <2>2. below(q) \in SUBSET Nat /\ below(p) \in SUBSET Nat
    OBVIOUS
  <2>3. IsFiniteSet(below(q)) /\ IsFiniteSet(below(p))
    BY FS_Interval
  <2>4. <<below(q), below(p)>> \in R
    BY <2>1, <2>2, <2>3 DEF StrictSubsetOrdering, FiniteSubsetsOf
  <2> QED
    BY <1>2, <1>3, <1>4, <2>4
<1> QED
  BY <1>4

Reach(s) == Base .. (Base + Cardinality(Registered(s)))

\* What the upward scan of allocPort may reach is a finite set of ports.
LEMMA ReachType ==
  ASSUME NEW s
  PROVE  /\ IsFiniteSet(Registered(s)) /\ Cardinality(Registered(s)) \in Nat
         /\ Cardinality(Registered(s)) <= Cardinality(Names)
         /\ Cardinality(Names) \in Nat
         /\ Reach(s) \subseteq PortSpan /\ PortSpan \subseteq Nat \ {0}
<1>1. Registered(s) \in SUBSET Names
  BY DEF Registered
<1>2. /\ IsFiniteSet(Registered(s)) /\ Cardinality(Registered(s)) \in Nat
      /\ Cardinality(Registered(s)) <= Cardinality(Names)
      /\ Cardinality(Names) \in Nat
  BY <1>1, NamesAssumption, FS_Subset, FS_CardinalityType
<1> QED
  BY <1>2, PortsAssumption DEF Reach, PortSpan

\* The upward scan of allocPort ends: among Base and the next ports, one more
\* than there are entries, some port is used by no entry.
LEMMA SomePortFree ==
  ASSUME NEW s \in Registry
  PROVE  Reach(s) \ UsedPorts(s) # {}
<1> DEFINE R == Registered(s)
<1>1. IsFiniteSet(R) /\ IsFiniteSet(Reach(s)) /\ Cardinality(R) < Cardinality(Reach(s))
  BY ReachType, PortsAssumption, FS_Interval DEF Reach
<1> SUFFICES ASSUME Reach(s) \subseteq UsedPorts(s) PROVE FALSE
  OBVIOUS
<1> DEFINE owner == [p \in Reach(s) |-> CHOOSE n \in R : s[n].port = p]
<1>2. \A p \in Reach(s) : owner[p] \in R /\ s[owner[p]].port = p
  BY DEF UsedPorts
<1>3. owner \in [Reach(s) -> R]
  BY <1>2
<1> HIDE DEF owner, R
<1>4. \E p, q \in Reach(s) : p # q /\ owner[p] = owner[q]
  BY <1>1, <1>3, FS_PigeonHole
<1> QED
  BY <1>2, <1>4

\* The port allocPort chooses is free, and at most as far above Base as there
\* are entries.
LEMMA AutoPortFree ==
  ASSUME NEW s \in Registry
  PROVE  AutoPort(s) \in Reach(s) /\ AutoPort(s) \notin UsedPorts(s)
<1> DEFINE free == PortSpan \ UsedPorts(s)
<1>1. free \in SUBSET Nat /\ free # {} /\ Reach(s) \ UsedPorts(s) \subseteq free
  BY SomePortFree, ReachType
<1>2. PICK p \in free : \A q \in free : p <= q
  BY <1>1, LeastOf
<1>3. \A q \in PortSpan : q < p => q \in UsedPorts(s)
  BY <1>1, <1>2
<1>4. /\ AutoPort(s) \in free
      /\ \A q \in PortSpan : q < AutoPort(s) => q \in UsedPorts(s)
  BY <1>2, <1>3 DEF AutoPort
<1>5. PICK r \in Reach(s) : r \in PortSpan /\ r \notin UsedPorts(s)
  BY SomePortFree, ReachType
<1>6. AutoPort(s) <= r
  BY <1>1, <1>4, <1>5, ReachType
<1> QED
  BY <1>4, <1>5, <1>6, ReachType, PortsAssumption DEF Reach, PortSpan

-----------------------------------------------------------------------------
(* The file format. *)

\* load() turns any file that parses into a registry (UnmarshalJSON).
LEMMA LoadType ==
  ASSUME NEW d \in WireRegistry
  PROVE  /\ Load(d) \in Registry
         /\ Registered(Load(d)) = Registered(d)
<1>1. \A n \in Names : d[n] # NoEntry => Decode(d[n]) \in Entry
  BY DEF WireRegistry, WireEntry, Decode, Entry, IsOn
<1>2. Load(d) \in Registry
  BY <1>1 DEF Load, Registry
<1>3. \A n \in Names : Load(d)[n] = NoEntry <=> d[n] = NoEntry
  BY <1>1, NoEntryAssumption DEF Load
<1> QED
  BY <1>2, <1>3 DEF Registered

\* What save writes, load reads back: the two spellings of the flag agree.
LEMMA LoadOfSave ==
  ASSUME NEW s \in Registry
  PROVE  Save(s) \in WireRegistry /\ Load(Save(s)) = s
<1>1. \A n \in Names : s[n] # NoEntry =>
         Encode(s[n]) \in WireEntry /\ Decode(Encode(s[n])) = s[n]
  <2> TAKE n \in Names
  <2> HAVE s[n] # NoEntry
  <2>1. s[n] \in Entry
    BY DEF Registry
  <2>2. Encode(s[n]) \in WireEntry
    BY <2>1 DEF Entry, Encode, WireEntry, Flag
  <2>3. IsOn(Encode(s[n])) = s[n].enabled
    <3>1. CASE s[n].enabled
      BY <2>1, <3>1 DEF IsOn, Encode, Entry
    <3>2. CASE ~s[n].enabled
      BY <2>1, <3>2 DEF IsOn, Encode, Entry
    <3> QED
      BY <3>1, <3>2
  <2>4. Decode(Encode(s[n])) =
          [url |-> s[n].url, port |-> s[n].port, tok |-> s[n].tok, enabled |-> s[n].enabled]
    BY <2>3 DEF Decode, Encode
  <2> QED
    BY <2>1, <2>2, <2>4 DEF Entry
<1>2. Save(s) \in WireRegistry
  BY <1>1 DEF Save, WireRegistry
<1>3. \A n \in Names : Load(Save(s))[n] = s[n]
  BY <1>1, NoEntryAssumption DEF Save, Load
<1>4. Load(Save(s)) \in [Names -> Entry \cup {NoEntry}]
  BY <1>2, LoadType DEF Registry
<1> QED
  BY <1>2, <1>3, <1>4 DEF Registry

-----------------------------------------------------------------------------
(* The commands keep a registry well-typed. *)

\* Taking an entry out leaves a registry (the delete in Add, and Remove).
LEMMA WithoutType ==
  ASSUME NEW s \in Registry, NEW n \in Names
  PROVE  /\ Without(s, n) \in Registry
         /\ Registered(Without(s, n)) = Registered(s) \ {n}
         /\ \A m \in Names \ {n} : Without(s, n)[m] = s[m]
BY DEF Without, Registry, Registered

\* A port that Add is granted is a port, and no other entry has it.
LEMMA GrantedPort ==
  ASSUME NEW s \in Registry, NEW n \in Names, NEW r \in Int, ~AddRefused(s, n, r)
  PROVE  LET p == AllocPort(Without(s, n), WantedPort(s, n, r))
         IN  /\ p \in Nat \ {0}
             /\ p \in 1 .. MaxPort \/ p < Base + Cardinality(Names)
             /\ \A m \in Registered(s) \ {n} : s[m].port # p
<1> DEFINE t == Without(s, n)
           w == WantedPort(s, n, r)
           p == AllocPort(t, w)
<1>1. t \in Registry /\ Registered(t) = Registered(s) \ {n}
      /\ \A m \in Registered(t) : t[m] = s[m]
  BY WithoutType DEF Registered
<1>2. p \in Nat \ {0} /\ p \notin UsedPorts(t)
      /\ (p \in 1 .. MaxPort \/ p < Base + Cardinality(Names))
  <2>1. CASE w = 0
    <3>1. p = AutoPort(t)
      BY <2>1 DEF AllocPort
    <3>2. p \in Reach(t) /\ p \notin UsedPorts(t)
      BY <1>1, <3>1, AutoPortFree
    <3>3. Cardinality(Registered(t)) < Cardinality(Names)
      <4>1. Registered(t) \in SUBSET (Names \ {n})
        BY <1>1 DEF Registered
      <4>2. IsFiniteSet(Names \ {n}) /\ Cardinality(Names \ {n}) = Cardinality(Names) - 1
        BY NamesAssumption, FS_RemoveElement
      <4> QED
        BY <4>1, <4>2, FS_Subset, ReachType, NamesAssumption, FS_CardinalityType
    <3> QED
      BY <3>2, <3>3, ReachType, PortsAssumption DEF Reach
  <2>2. CASE w # 0
    <3>1. p = w
      BY <2>2 DEF AllocPort
    <3>2. w \in 1 .. MaxPort /\ w \notin UsedPorts(t)
      BY <2>2 DEF AddRefused, PortRefused
    <3> QED
      BY <2>2, <3>1, <3>2, PortsAssumption
  <2> QED
    BY <2>1, <2>2
<1>3. \A m \in Registered(t) : t[m].port # p
  BY <1>2 DEF UsedPorts
<1> QED
  BY <1>1, <1>2, <1>3

\* A granted registration yields a registry (Add).
LEMMA AddType ==
  ASSUME NEW s \in Registry, NEW n \in Names, NEW r \in Int, ~AddRefused(s, n, r),
         NEW key \in Keys, NEW raw \in URLs, NEW gen \in Nat
  PROVE  /\ Add(s, key, n, raw, r, gen) \in Registry
         /\ Registered(Add(s, key, n, raw, r, gen)) = Registered(s) \cup {n}
<1> DEFINE p == AllocPort(Without(s, n), WantedPort(s, n, r))
           e == [url |-> [key |-> key, val |-> raw, nonce |-> gen], port |-> p,
                 tok |-> [key |-> key, gen |-> gen], enabled |-> FALSE]
<1>1. p \in Nat
  BY GrantedPort
<1>2. e \in Entry
  BY <1>1 DEF Entry, SealedURL, SealedToken
<1>3. Add(s, key, n, raw, r, gen) = [s EXCEPT ![n] = e]
  BY DEF Add
<1> HIDE DEF e
<1>4. e # NoEntry
  BY <1>2, NoEntryAssumption
<1> QED
  BY <1>2, <1>3, <1>4 DEF Registry, Registered

\* Replacing tokens of registered names yields a registry (RegenToken, RegenTokenAll).
LEMMA RegenType ==
  ASSUME NEW s \in Registry, NEW S \in SUBSET Registered(s), NEW key \in Keys, NEW gen \in Nat
  PROVE  /\ Regen(s, key, S, gen) \in Registry
         /\ Registered(Regen(s, key, S, gen)) = Registered(s)
         /\ \A n \in Registered(s) :
              /\ Regen(s, key, S, gen)[n].port = s[n].port
              /\ Regen(s, key, S, gen)[n].url = s[n].url
              /\ Regen(s, key, S, gen)[n].enabled = s[n].enabled
<1> DEFINE t == Regen(s, key, S, gen)
<1>1. \A n \in S : s[n] \in Entry /\ t[n] = [s[n] EXCEPT !.tok = [key |-> key, gen |-> gen]]
  BY DEF Regen, Registry, Registered
<1>2. \A n \in S : /\ t[n] \in Entry /\ t[n].port = s[n].port
                   /\ t[n].url = s[n].url /\ t[n].enabled = s[n].enabled
  <2> DEFINE x == [key |-> key, gen |-> gen]
  <2>1. x \in SealedToken
    BY DEF SealedToken
  <2> HIDE DEF x
  <2>2. \A e \in Entry : LET f == [e EXCEPT !.tok = x]
                        IN  f \in Entry /\ f.port = e.port /\ f.url = e.url /\ f.enabled = e.enabled
    BY <2>1 DEF Entry
  <2>3. \A n \in S : s[n] \in Entry /\ t[n] = [s[n] EXCEPT !.tok = x]
    BY <1>1 DEF x
  <2> HIDE DEF t
  <2> QED
    BY <2>2, <2>3
<1>3. \A n \in Names \ S : t[n] = s[n]
  BY DEF Regen
<1>4. t \in Registry
  BY <1>2, <1>3 DEF Registry, Regen, Registered
<1> QED
  BY <1>2, <1>3, <1>4, NoEntryAssumption DEF Registered

\* Switching registered names yields a registry (SetTunnel, SetTunnelAll).
LEMMA SetTunnelType ==
  ASSUME NEW s \in Registry, NEW S \in SUBSET Registered(s), NEW on \in BOOLEAN
  PROVE  /\ SetTunnel(s, S, on) \in Registry
         /\ Registered(SetTunnel(s, S, on)) = Registered(s)
         /\ \A n \in Registered(s) :
              /\ SetTunnel(s, S, on)[n].port = s[n].port
              /\ SetTunnel(s, S, on)[n].url = s[n].url
              /\ SetTunnel(s, S, on)[n].tok = s[n].tok
              /\ SetTunnel(s, S, on)[n].enabled = (IF n \in S THEN on ELSE s[n].enabled)
<1> DEFINE t == SetTunnel(s, S, on)
<1>1. \A n \in S : s[n] \in Entry /\ t[n] = [s[n] EXCEPT !.enabled = on]
  BY DEF SetTunnel, Registry, Registered
<1>2. \A n \in S : /\ t[n] \in Entry /\ t[n].port = s[n].port /\ t[n].url = s[n].url
                   /\ t[n].tok = s[n].tok /\ t[n].enabled = on
  BY <1>1 DEF Entry
<1>3. \A n \in Names \ S : t[n] = s[n]
  BY DEF SetTunnel
<1>4. t \in Registry
  BY <1>2, <1>3 DEF Registry, SetTunnel, Registered
<1> QED
  BY <1>2, <1>3, <1>4, NoEntryAssumption DEF Registered

-----------------------------------------------------------------------------
(* The commands keep the ports of a registry distinct. *)

\* A granted registration collides with no port of another entry (allocPort, Add).
LEMMA AddPortsUnique ==
  ASSUME NEW s \in Registry, NEW n \in Names, NEW r \in Int, ~AddRefused(s, n, r),
         NEW key \in Keys, NEW raw \in URLs, NEW gen \in Nat, PortsUnique(s)
  PROVE  PortsUnique(Add(s, key, n, raw, r, gen))
<1> DEFINE t == Add(s, key, n, raw, r, gen)
           p == AllocPort(Without(s, n), WantedPort(s, n, r))
<1>1. Registered(t) = Registered(s) \cup {n}
  BY AddType
<1>2. t[n].port = p /\ \A m \in Names \ {n} : t[m] = s[m]
  BY DEF Add, Registry
<1>3. \A m \in Registered(s) \ {n} : s[m].port # p
  BY GrantedPort
<1> HIDE DEF t, p
<1>4. \A m \in Registered(t) \ {n} : m \in Registered(s) \ {n} /\ t[m] = s[m]
  BY <1>1, <1>2 DEF Registered
<1>5. PortsUnique(t)
  BY <1>2, <1>3, <1>4 DEF PortsUnique
<1> QED
  BY <1>5 DEF t

\* Commands that keep names and ports keep ports distinct.
LEMMA SamePortsUnique ==
  ASSUME NEW s, NEW t, PortsUnique(s), Registered(t) \subseteq Registered(s),
         \A n \in Registered(t) : t[n].port = s[n].port
  PROVE  PortsUnique(t)
BY DEF PortsUnique
=============================================================================
