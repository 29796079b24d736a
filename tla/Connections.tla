----------------------------- MODULE Connections -----------------------------
(***************************************************************************)
(* The connection registry of internal/dbproxy/store.go as a value, and    *)
(* the pure part of its commands: what db.json holds, how an on-disk entry *)
(* is decoded, and the registry each command computes from the one it      *)
(* loaded.  Modules that say WHEN a registry is read and written (ConnStore, *)
(* Tunnel) build on this one.                                              *)
(*                                                                         *)
(* A registry is a total function on Names; NoEntry marks a name that is   *)
(* not registered.  A sealed string (URL or token) is the key that sealed  *)
(* it together with what tells two sealed strings apart: `open` succeeds   *)
(* with that key and fails with any other (AES-GCM authenticates).  A      *)
(* dedicated token is identified by the generation that drew it; the       *)
(* generations are never reused, as 128 random bits are not.  Generation 0 *)
(* stands for the legacy entry that has no dedicated token.                *)
(***************************************************************************)
EXTENDS Integers, FiniteSets

CONSTANTS
  Names,      \* connection names that pass ValidateConnName
  URLs,       \* database URLs that ConnTypeFromURL accepts
  Keys,       \* keys DBKey() may return: the environment override of the
              \* process, or the platform store before and after `db init --force`
  Base,       \* DefaultPortBase
  MaxPort,    \* the highest TCP port, 65535
  NoEntry     \* the name is not in the map

ASSUME NamesAssumption == IsFiniteSet(Names)
ASSUME PortsAssumption == Base \in Nat /\ MaxPort \in Nat /\ 1 <= Base

Flag == {"true", "false", "absent"}

SealedURL   == [key : Keys, val : URLs, nonce : Nat]
SealedToken == [key : Keys, gen : Nat]

Entry == [url : SealedURL, port : Nat, tok : SealedToken, enabled : BOOLEAN]
WireEntry == [url : SealedURL, port : Nat, tok : SealedToken,
              enabled : Flag, disabled : Flag]

ASSUME NoEntryAssumption == NoEntry \notin Entry /\ NoEntry \notin WireEntry

Registry     == [Names -> Entry \cup {NoEntry}]
WireRegistry == [Names -> WireEntry \cup {NoEntry}]

Empty == [n \in Names |-> NoEntry]
Registered(s) == {n \in Names : s[n] # NoEntry}

-----------------------------------------------------------------------------
(* Encoding.  A current file always has `enabled`; a legacy one may have   *)
(* `disabled` instead, or neither, which means on.                         *)

IsOn(w) == \/ w.enabled = "true"
           \/ w.enabled = "absent" /\ w.disabled # "true"

Decode(w) == [url |-> w.url, port |-> w.port, tok |-> w.tok, enabled |-> IsOn(w)]
Encode(e) == [url |-> e.url, port |-> e.port, tok |-> e.tok,
              enabled |-> IF e.enabled THEN "true" ELSE "false",
              disabled |-> "absent"]

Load(d) == [n \in Names |-> IF d[n] = NoEntry THEN NoEntry ELSE Decode(d[n])]
Save(s) == [n \in Names |-> IF s[n] = NoEntry THEN NoEntry ELSE Encode(s[n])]

-----------------------------------------------------------------------------
(* Ports.  Port 0 means that none was allocated (legacy entries).          *)

\* Variant: only the entries that are on count as using their port.
UsedPortsOfEnabled(s) == {s[n].port : n \in {m \in Registered(s) : s[m].enabled}} \ {0}

UsedPorts(s) == {s[n].port : n \in Registered(s)} \ {0}

\* The candidates the upward scan can reach: each step skips the port of
\* another entry, so it stops within one step more than there are names.
PortSpan == Base .. (Base + Cardinality(Names))

\* Variant: one past the highest port in use.
PastLastPort(s) ==
  CHOOSE p \in Base .. (MaxPort + 1) :
    /\ \A q \in UsedPorts(s) : q < p
    /\ p = Base \/ p - 1 \in UsedPorts(s)

AutoPort(s) ==
  CHOOSE p \in PortSpan :
    p \notin UsedPorts(s) /\ \A q \in PortSpan : q < p => q \in UsedPorts(s)

\* Variant: the lower end of the range is not checked.
NegativePortAccepted(s, requested) ==
  requested # 0 /\ (requested > MaxPort \/ requested \in UsedPorts(s))

PortRefused(s, requested) ==
  requested # 0 /\ (requested \notin 1 .. MaxPort \/ requested \in UsedPorts(s))

AllocPort(s, requested) == IF requested # 0 THEN requested ELSE AutoPort(s)

-----------------------------------------------------------------------------
(* What each command makes of the registry it loaded.                      *)

Without(s, n) == [s EXCEPT ![n] = NoEntry]

\* Variant: a re-registration forgets the port it had.
PortNotKept(s, n, requested) == requested

\* --port omitted: an existing entry keeps its port.
WantedPort(s, n, requested) ==
  IF requested = 0 /\ s[n] # NoEntry THEN s[n].port ELSE requested

AddRefused(s, n, requested) ==
  PortRefused(Without(s, n), WantedPort(s, n, requested))

\* Variant: a re-registration stays on when the entry was.
AddKeepsFlag(s, key, n, raw, requested, gen) ==
  [s EXCEPT ![n] =
    [url     |-> [key |-> key, val |-> raw, nonce |-> gen],
     port    |-> AllocPort(Without(s, n), WantedPort(s, n, requested)),
     tok     |-> [key |-> key, gen |-> gen],
     enabled |-> s[n] # NoEntry /\ s[n].enabled]]

Add(s, key, n, raw, requested, gen) ==
  [s EXCEPT ![n] =
    [url     |-> [key |-> key, val |-> raw, nonce |-> gen],
     port    |-> AllocPort(Without(s, n), WantedPort(s, n, requested)),
     tok     |-> [key |-> key, gen |-> gen],
     enabled |-> FALSE]]

\* Variant: the new token is sealed, but the entry is not put back in the map.
RegenNotStored(s, key, S, gen) == s

\* The target names of RegenToken are {n}, of RegenTokenAll every entry.
\* Only the token is sealed again: the URL stays under the key it had.
Regen(s, key, S, gen) ==
  [n \in Names |-> IF n \in S THEN [s[n] EXCEPT !.tok = [key |-> key, gen |-> gen]]
                              ELSE s[n]]

Remove(s, n) == Without(s, n)

SetTunnel(s, S, on) ==
  [n \in Names |-> IF n \in S THEN [s[n] EXCEPT !.enabled = on] ELSE s[n]]

\* SetTunnelAll touches the entries whose flag differs, and saves only then.
Differing(s, on) == {n \in Registered(s) : s[n].enabled # on}

-----------------------------------------------------------------------------
(* Reading a registry.                                                     *)

Opens(sealed, key) == sealed.key = key

\* List reports an entry whose URL this key does not open as broken.
Broken(e, key) == ~Opens(e.url, key)

\* Resolve succeeds: the entry is there, and its URL and its token (when it
\* has one) both open.
Resolvable(s, key, n) ==
  /\ s[n] # NoEntry
  /\ Opens(s[n].url, key)
  /\ s[n].tok.gen # 0 => Opens(s[n].tok, key)

PortsUnique(s) ==
  \A m, n \in Registered(s) : m # n /\ s[m].port # 0 => s[m].port # s[n].port
=============================================================================
