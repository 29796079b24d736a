------------------------------- MODULE Tunnel -------------------------------
(***************************************************************************)
(* `vaulty-keeper serve` and its database tunnels: the watcher that keeps  *)
(* one listener per enabled connection (Tunnel.Start), the accept loops,   *)
(* and the handlers that resolve and authenticate each client connection   *)
(* (internal/dbproxy/tunnel.go), while commands edit db.json.              *)
(*                                                                         *)
(* The edits are the indivisible ones of AtomicRegistry, which ConnStore   *)
(* implements when commands run one at a time; `readable` is FALSE while   *)
(* the file does not parse, during a save or after an interrupted one.     *)
(***************************************************************************)
EXTENDS Connections

CONSTANTS
  Clients,     \* slots for client connections accepted at the same time
  MongoURLs,   \* the URLs of type mongodb; the others relay raw bytes
  InitRegs,    \* what db.json may hold when serve starts
  Requests,    \* values of --port
  Foreign,     \* ports that another program of the host may hold
  Ephemeral,   \* ports the OS picks from when asked to listen on port 0
  MaxGen,      \* bound: registrations and regenerations
  MaxRuns,     \* bound: times serve is started
  Global,      \* the bridge token of the current run of serve
  NoToken      \* no token was presented yet

ASSUME TunnelAssumption ==
  /\ MongoURLs \subseteq URLs /\ InitRegs \subseteq Registry
  /\ Requests \subseteq Int
  /\ Foreign \subseteq 1 .. MaxPort /\ Ephemeral \subseteq 1 .. MaxPort
  /\ MaxGen \in Nat /\ MaxRuns \in Nat

\* The tokens db.json holds when serve starts were drawn before this behaviour.
ASSUME InitGensAssumption ==
  \A s \in InitRegs : \A n \in Registered(s) : s[n].tok.gen = 0

VARIABLES
  reg, readable, nextGen,  \* db.json, and the next generation
  taken,      \* ports held by other programs
  run,        \* which start of serve this is
  serveKey,   \* Tunnel.Key: the DB key read when serve started
  active,     \* active[n]: the port of n's listener, 0 when it has none
  accepting,  \* the names whose acceptLoop is running
  pc,         \* the watcher: "idle" or "reconcile"
  desired,    \* the List the current or last sync works from
  todo,       \* names of desired the current sync has still to visit
  client,     \* the client connection in each slot
  (* History variable: no action reads it. *)
  paired      \* every <<name, registration, token>> that was in db.json at once

file    == <<reg, readable, nextGen, paired>>
watcher == <<active, accepting, pc, desired, todo>>
vars    == <<file, taken, run, serveKey, watcher, client>>

Token == Names \X Nat
Issued == Names \X (1 .. nextGen - 1)

NoClient == [state |-> "none"]
\* `floor` records the generation of the token that was in db.json when the
\* connection was accepted; `nonce` identifies the registration whose URL the
\* handler holds, `tok` the dedicated token it compares with.
Accepted == [state : {"accepted"}, name : Names, floor : Nat]
Holding == [state : {"resolved", "open"}, name : Names, floor : Nat,
            url : URLs, nonce : Nat, tok : Token, via : Token \cup {Global, NoToken}]

Pairs(s) == {<<n, s[n].url.nonce, s[n].tok.gen>> : n \in Registered(s)}

Init ==
  /\ reg \in InitRegs /\ readable = TRUE /\ nextGen = 1
  /\ taken = {} /\ run = 1 /\ serveKey \in Keys
  /\ active = [n \in Names |-> 0] /\ accepting = {}
  /\ pc = "idle" /\ desired = Empty /\ todo = {}
  /\ client = [c \in Clients |-> NoClient]
  /\ paired = Pairs(reg)

-----------------------------------------------------------------------------
(* Commands of the user, and the rest of the host.                         *)

Edit(s) ==
  /\ readable
  /\ reg' = s /\ paired' = paired \cup Pairs(s)
  /\ UNCHANGED <<readable, taken, run, serveKey, watcher, client>>

EditAdd(n, u, r, k) ==
  /\ nextGen <= MaxGen
  /\ ~AddRefused(reg, n, r)
  /\ Edit(Add(reg, k, n, u, r, nextGen))
  /\ nextGen' = nextGen + 1

\* One name, or every name with --all.
Targets == {S \in SUBSET Registered(reg) : Cardinality(S) = 1} \cup {Registered(reg)}

EditRegen(S, k) ==
  /\ nextGen <= MaxGen /\ S # {}
  /\ Edit(Regen(reg, k, S, nextGen))
  /\ nextGen' = nextGen + 1

EditRemove(n) ==
  reg[n] # NoEntry /\ Edit(Remove(reg, n)) /\ UNCHANGED nextGen

EditTunnel(S, on) == Edit(SetTunnel(reg, S, on)) /\ UNCHANGED nextGen

\* A save truncates the file, and completes or never does.
Tear ==
  /\ readable' = ~readable
  /\ UNCHANGED <<reg, nextGen, paired, taken, run, serveKey, watcher, client>>

Commands ==
  \/ \E n \in Names, u \in URLs, r \in Requests, k \in Keys : EditAdd(n, u, r, k)
  \/ \E n \in Names : EditRemove(n)
  \/ \E S \in Targets : \/ \E k \in Keys : EditRegen(S, k)
                        \/ \E on \in BOOLEAN : EditTunnel(S, on)
  \/ Tear

Bound == {active[n] : n \in Names} \cup taken

\* Another program binds or releases a port.
ForeignPort(p) ==
  /\ p \notin Bound \/ p \in taken
  /\ taken' = IF p \in taken THEN taken \ {p} ELSE taken \cup {p}
  /\ UNCHANGED <<file, run, serveKey, watcher, client>>

-----------------------------------------------------------------------------
(* The watcher.  List fails on a file that does not parse: the tick is over *)
(* and every listener stays as it is.                                       *)

\* Variant: a tick does nothing when db.json is as the last sync read it.
SyncOnlyOnChange ==
  /\ pc = "idle" /\ readable /\ reg # desired
  /\ pc' = "reconcile"
  /\ desired' = reg /\ todo' = Registered(reg)
  /\ UNCHANGED <<file, taken, run, serveKey, active, accepting, client>>

SyncStart ==
  /\ pc = "idle" /\ readable
  /\ pc' = "reconcile"
  /\ desired' = reg /\ todo' = Registered(reg)
  /\ UNCHANGED <<file, taken, run, serveKey, active, accepting, client>>

Visit(n) ==
  /\ pc = "reconcile" /\ n \in todo
  /\ todo' = todo \ {n}
  /\ UNCHANGED <<file, taken, run, serveKey, pc, desired, client>>

\* Variant: the listener is forgotten without being closed, its loop goes on.
ForgetListeners(S) ==
  /\ active' = [n \in Names |-> IF n \in S THEN 0 ELSE active[n]]
  /\ UNCHANGED accepting

CloseListeners(S) ==
  /\ active' = [n \in Names |-> IF n \in S THEN 0 ELSE active[n]]
  /\ accepting' = accepting \ S

\* Variant: a listener that is up is left alone whatever the flag says.
SyncOffIgnored(n) ==
  /\ Visit(n)
  /\ ~desired[n].enabled
  /\ UNCHANGED <<active, accepting>>

\* The tunnel is off: stop its listener if one is up.
SyncOff(n) ==
  /\ Visit(n)
  /\ ~desired[n].enabled
  /\ CloseListeners({n})

\* Listening on port 0 lets the OS choose.
ListenPorts(n) ==
  (IF desired[n].port = 0 THEN Ephemeral ELSE {desired[n].port} \cap (1 .. MaxPort)) \ Bound

\* The tunnel is on and has no listener: open one and start its accept loop.
SyncListen(n) ==
  /\ Visit(n)
  /\ desired[n].enabled /\ active[n] = 0
  /\ \E p \in ListenPorts(n) : active' = [active EXCEPT ![n] = p]
  /\ accepting' = accepting \cup {n}

\* It already has one, or net.Listen fails: left for the next tick.
SyncKeep(n) ==
  /\ Visit(n)
  /\ desired[n].enabled
  /\ active[n] # 0 \/ ListenPorts(n) = {}
  /\ UNCHANGED <<active, accepting>>

\* Variant: names that are no longer registered are not looked at.
SyncNoSweep ==
  /\ pc = "reconcile" /\ todo = {}
  /\ pc' = "idle"
  /\ UNCHANGED <<file, taken, run, serveKey, active, accepting, desired, todo, client>>

\* The listeners of names that are no longer registered are closed last.
SyncSweep ==
  /\ pc = "reconcile" /\ todo = {}
  /\ pc' = "idle"
  /\ CloseListeners(Names \ Registered(desired))
  /\ UNCHANGED <<file, taken, run, serveKey, desired, todo, client>>

SyncName(n) == SyncOff(n) \/ SyncListen(n) \/ SyncKeep(n)

\* serve exits, at any point, and is started again with the key DBKey() gives
\* then: its listeners and client connections are gone.
Restart ==
  /\ run < MaxRuns
  /\ run' = run + 1
  /\ serveKey' \in Keys
  /\ CloseListeners(Names)
  /\ pc' = "idle" /\ desired' = Empty /\ todo' = {}
  /\ client' = [c \in Clients |-> NoClient]
  /\ UNCHANGED <<file, taken>>

-----------------------------------------------------------------------------
(* Client connections.                                                     *)

OthersUnchanged == UNCHANGED <<file, taken, run, serveKey, watcher>>

\* acceptLoop returns on any error of Accept; the listener stays in `active`.
AcceptFails(n) ==
  /\ n \in accepting
  /\ accepting' = accepting \ {n}
  /\ UNCHANGED <<file, taken, run, serveKey, active, pc, desired, todo, client>>

Accept(c, n) ==
  /\ n \in accepting /\ client[c] = NoClient
  /\ client' = [client EXCEPT ![c] =
       [state |-> "accepted", name |-> n,
        floor |-> IF reg[n] = NoEntry THEN nextGen ELSE reg[n].tok.gen]]
  /\ OthersUnchanged

\* Variant: the entry the last sync read is used instead of db.json.
ResolveCached(c) ==
  LET n == client[c].name  e == desired[n] IN
  /\ client[c].state = "accepted"
  /\ Resolvable(desired, serveKey, n)
  /\ client' = [client EXCEPT ![c] =
       [state |-> "resolved", name |-> n, floor |-> client[c].floor,
        url |-> e.url.val, nonce |-> e.url.nonce,
        tok |-> <<n, e.tok.gen>>, via |-> NoToken]]
  /\ OthersUnchanged

\* Variant: the token is read from db.json, the URL is the one of the last sync.
ResolveMixed(c) ==
  LET n == client[c].name IN
  /\ client[c].state = "accepted"
  /\ readable /\ Resolvable(reg, serveKey, n) /\ Resolvable(desired, serveKey, n)
  /\ client' = [client EXCEPT ![c] =
       [state |-> "resolved", name |-> n, floor |-> client[c].floor,
        url |-> desired[n].url.val, nonce |-> desired[n].url.nonce,
        tok |-> <<n, reg[n].tok.gen>>, via |-> NoToken]]
  /\ OthersUnchanged

\* Resolve reads db.json anew for this connection.
ResolveConn(c) ==
  LET n == client[c].name  e == reg[n] IN
  /\ client[c].state = "accepted"
  /\ readable /\ Resolvable(reg, serveKey, n)
  /\ client' = [client EXCEPT ![c] =
       [state |-> "resolved", name |-> n, floor |-> client[c].floor,
        url |-> e.url.val, nonce |-> e.url.nonce,
        tok |-> <<n, e.tok.gen>>, via |-> NoToken]]
  /\ OthersUnchanged

\* tokenOKAny: the dedicated token or the bridge token; for mongodb only the
\* dedicated one, and a legacy entry has none.
TokenOK(h, t) ==
  \/ t = h.tok /\ h.tok[2] # 0
  \/ t = Global /\ h.url \notin MongoURLs

\* The client presents a token and the backend accepts the registered
\* credentials; from here on the bytes are relayed.
Authenticate(c, t) ==
  /\ client[c].state = "resolved"
  /\ TokenOK(client[c], t)
  /\ client' = [client EXCEPT ![c].state = "open", ![c].via = t]
  /\ OthersUnchanged

\* The handler returns: Resolve or the token or the backend failed, or either
\* side closed.
Close(c) ==
  /\ client[c] # NoClient
  /\ client' = [client EXCEPT ![c] = NoClient]
  /\ OthersUnchanged

Handler(c) ==
  \/ \E n \in Names : Accept(c, n)
  \/ ResolveConn(c)
  \/ \E t \in Issued \cup {Global} : Authenticate(c, t)
  \/ Close(c)

Next ==
  \/ Commands
  \/ \E p \in Foreign : ForeignPort(p)
  \/ SyncStart \/ (\E n \in Names : SyncName(n)) \/ SyncSweep \/ Restart
  \/ \E n \in Names : AcceptFails(n)
  \/ \E c \in Clients : Handler(c)

Spec == Init /\ [][Next]_vars

\* The ticker fires every two seconds and a sync, once begun, runs to its end.
\* Nothing is assumed of users, clients or other programs.
Fairness ==
  /\ WF_vars(SyncStart) /\ WF_vars(SyncSweep)
  /\ \A n \in Names : WF_vars(SyncName(n))

FairSpec == Spec /\ Fairness

-----------------------------------------------------------------------------
TypeOK ==
  /\ reg \in Registry /\ readable \in BOOLEAN /\ nextGen \in Nat \ {0}
  /\ taken \subseteq Foreign /\ run \in Nat /\ serveKey \in Keys
  /\ active \in [Names -> 0 .. MaxPort]
  /\ accepting \subseteq {n \in Names : active[n] # 0}
  /\ pc \in {"idle", "reconcile"} /\ desired \in Registry
  /\ todo \subseteq Registered(desired) /\ (pc = "idle" => todo = {})
  /\ client \in [Clients -> {NoClient} \cup Accepted \cup Holding]
  /\ paired \subseteq Names \X Nat \X Nat

\* Between syncs a listener is up only for a name that the last db.json read
\* had, enabled: `db off`, `db rm` and a re-registration close it (doc of Start).
OnlyDesiredListen ==
  pc = "idle" => \A n \in Names : active[n] # 0 =>
    n \in Registered(desired) /\ desired[n].enabled

\* "Tunnels re-check on every connection": a connection opened with a dedicated
\* token used one that was in db.json when it was accepted, or a later one,
\* and one of its own name.
NoStaleToken ==
  \A c \in Clients : client[c].state = "open" /\ client[c].via # Global =>
    client[c].via[1] = client[c].name /\ client[c].via[2] >= client[c].floor

\* A handler holds the URL and the token of ONE registration: a connection
\* authenticated with a token never reaches a URL registered before or after it.
OneRegistration ==
  \A c \in Clients : client[c].state \in {"resolved", "open"} =>
    <<client[c].name, client[c].nonce, client[c].tok[2]>> \in paired

Off(n) == reg[n] = NoEntry \/ ~reg[n].enabled

\* A tunnel that is turned off, or removed, and stays so loses its listener for
\* good (db.json readable, no matter what else happens).
OffCloses ==
  \A n \in Names : <>[](readable /\ Off(n)) => <>[](active[n] = 0)

PortFree(n) ==
  /\ reg[n].port \in 1 .. MaxPort \ taken
  /\ \A m \in Names \ {n} : active[m] # reg[n].port

WantedAndFree(n) == readable /\ ~Off(n) /\ PortFree(n)

\* A tunnel that stays on, with its port left free by others, gets its listener
\* back and keeps it, whatever ports were swapped and whenever serve restarted.
OnOpens ==
  \A n \in Names : <>[]WantedAndFree(n) => <>[](active[n] # 0)

\* The comment of Start: it runs the per-connection listeners until ctx is done.
\* A tunnel that stays on, with its port free, is eventually served for good.
OnIsServed ==
  \A n \in Names : <>[]WantedAndFree(n) => <>[](n \in accepting)
=============================================================================
