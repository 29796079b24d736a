----------------------------- MODULE TunnelProofs -----------------------------
(***************************************************************************)
(* Safety of the tunnels for any number of names, clients, keys and ports. *)
(* Three facts are carried together: listeners follow the db.json of the   *)
(* last sync (Listening), generations of tokens only grow (Grows), and     *)
(* each handler holds what db.json held at once, at its accept or later    *)
(* (HandlerOK).                                                            *)
(***************************************************************************)
EXTENDS Tunnel, ConnectionsProofs

\* A listener is up only for a name the sync wanted on, or has still to close.
Listening ==
  \A n \in Names : active[n] # 0 =>
    \/ n \in Registered(desired) /\ desired[n].enabled
    \/ pc = "reconcile" /\ (n \in todo \/ n \notin Registered(desired))

Grows == \A n \in Registered(reg) : reg[n].tok.gen < nextGen

HandlerOK(h) ==
  /\ h.state = "accepted" =>
       /\ h.floor <= nextGen
       /\ h.name \in Registered(reg) => h.floor <= reg[h.name].tok.gen
  /\ h.state \in {"resolved", "open"} =>
       /\ h.tok[1] = h.name /\ h.floor <= h.tok[2]
       /\ <<h.name, h.nonce, h.tok[2]>> \in paired
  /\ h.state = "open" => h.via \in {h.tok, Global}

Inv ==
  /\ TypeOK
  /\ Listening
  /\ Grows
  /\ Pairs(reg) \subseteq paired
  /\ \A c \in Clients : HandlerOK(client[c])

-----------------------------------------------------------------------------
\* What db.json holds is typed, also as the pairs a handler may read at once.
LEMMA PairsType ==
  ASSUME NEW s \in Registry
  PROVE  Pairs(s) \subseteq Names \X Nat \X Nat
BY DEF Pairs, Registry, Registered, Entry, SealedURL, SealedToken

\* serve starts with no listener and no client.
LEMMA InitInv == Init => Inv
<1> SUFFICES ASSUME Init PROVE Inv
  OBVIOUS
<1>1. reg \in Registry /\ Empty \in Registry
  BY TunnelAssumption DEF Init, Registry, Empty
<1>2. TypeOK
  BY <1>1, PairsType, PortsAssumption DEF Init, TypeOK
<1>3. Grows
  BY InitGensAssumption DEF Init, Grows
<1>4. \A c \in Clients : HandlerOK(client[c])
  BY DEF Init, NoClient, HandlerOK
<1> QED
  BY <1>1, <1>2, <1>3, <1>4 DEF Inv, Listening, Init

-----------------------------------------------------------------------------
(* Commands. *)

\* An edit leaves each token as it was or replaces it by the next generation.
LaterGens(s) ==
  \A n \in Registered(s) :
    \/ s[n].tok.gen = nextGen /\ nextGen' = nextGen + 1
    \/ n \in Registered(reg) /\ s[n].tok.gen = reg[n].tok.gen

\* A command of the user preserves the invariant (store.go under a running serve).
LEMMA EditInv ==
  ASSUME Inv, NEW s \in Registry, Edit(s), LaterGens(s), nextGen' \in {nextGen, nextGen + 1}
  PROVE  Inv'
<1>1. /\ reg' = s /\ paired' = paired \cup Pairs(s) /\ client' = client
      /\ readable' = readable /\ taken' = taken /\ run' = run /\ serveKey' = serveKey
      /\ active' = active /\ accepting' = accepting /\ pc' = pc
      /\ desired' = desired /\ todo' = todo
  BY DEF Edit, watcher
<1>2. nextGen \in Nat /\ nextGen' \in Nat \ {0} /\ nextGen <= nextGen'
  BY DEF Inv, TypeOK
<1>3. \A n \in Registered(s) : s[n].tok.gen \in Nat
  BY DEF Registry, Registered, Entry, SealedToken
<1>4. TypeOK'
  BY <1>1, <1>2, PairsType DEF Inv, TypeOK
<1>5. \A n \in Registered(s) : s[n].tok.gen < nextGen'
  BY <1>2, <1>3 DEF LaterGens, Inv, Grows
<1>6. ASSUME NEW c \in Clients PROVE HandlerOK(client[c])'
  <2> DEFINE h == client[c]
  <2>1. HandlerOK(h) /\ h \in {NoClient} \cup Accepted \cup Holding
    BY DEF Inv, TypeOK
  <2>2. ASSUME h.state = "accepted"
        PROVE  h.floor <= nextGen' /\ (h.name \in Registered(s) => h.floor <= s[h.name].tok.gen)
    <3>1. h.floor \in Nat /\ h.floor <= nextGen
          /\ (h.name \in Registered(reg) => h.floor <= reg[h.name].tok.gen)
      BY <2>1, <2>2 DEF HandlerOK, NoClient, Accepted, Holding
    <3> QED
      BY <3>1, <1>2, <1>3 DEF LaterGens
  <2> QED
    BY <1>1, <2>1, <2>2 DEF HandlerOK
<1> QED
  BY <1>1, <1>4, <1>5, <1>6 DEF Inv, Listening, Grows

\* Every command, and the truncation of the file, preserves the invariant.
LEMMA CommandsInv ==
  ASSUME Inv, Commands
  PROVE  Inv'
<1>1. reg \in Registry /\ nextGen \in Nat
  BY DEF Inv, TypeOK
<1>2. ASSUME NEW n \in Names, NEW u \in URLs, NEW r \in Requests, NEW k \in Keys, EditAdd(n, u, r, k)
      PROVE  Inv'
  <2> DEFINE s == Add(reg, k, n, u, r, nextGen)
  <2>1. r \in Int /\ ~AddRefused(reg, n, r)
    BY <1>2, TunnelAssumption DEF EditAdd
  <2>2. s \in Registry /\ Registered(s) = Registered(reg) \cup {n}
    BY <1>1, <2>1, AddType
  <2>3. s[n].tok.gen = nextGen /\ \A m \in Names \ {n} : s[m] = reg[m]
    BY <1>1 DEF Add, Registry
  <2>4. Edit(s) /\ nextGen' = nextGen + 1
    BY <1>2 DEF EditAdd
  <2> HIDE DEF s
  <2>5. LaterGens(s)
    BY <2>2, <2>3, <2>4 DEF LaterGens, Registered
  <2> QED
    BY <2>2, <2>4, <2>5, EditInv
<1>3. ASSUME NEW n \in Names, EditRemove(n) PROVE Inv'
  <2> DEFINE s == Remove(reg, n)
  <2>1. /\ s \in Registry /\ Registered(s) = Registered(reg) \ {n}
        /\ \A m \in Names \ {n} : s[m] = reg[m]
    BY <1>1, WithoutType DEF Remove
  <2>2. Edit(s) /\ nextGen' = nextGen
    BY <1>3 DEF EditRemove
  <2> HIDE DEF s
  <2>3. LaterGens(s)
    BY <2>1 DEF LaterGens, Registered
  <2> QED
    BY <2>1, <2>2, <2>3, EditInv
<1>4. ASSUME NEW S \in Targets, NEW k \in Keys, EditRegen(S, k) PROVE Inv'
  <2> DEFINE s == Regen(reg, k, S, nextGen)
  <2>1. S \in SUBSET Registered(reg)
    BY DEF Targets
  <2>2. s \in Registry /\ Registered(s) = Registered(reg)
    BY <1>1, <2>1, RegenType
  <2>3. \A n \in Names : IF n \in S THEN s[n].tok.gen = nextGen ELSE s[n] = reg[n]
    <3>1. \A n \in S : n \in Names /\ s[n] = [reg[n] EXCEPT !.tok = [key |-> k, gen |-> nextGen]]
      BY <2>1 DEF Regen, Registered
    <3>2. \A e \in Entry : [e EXCEPT !.tok = [key |-> k, gen |-> nextGen]].tok.gen = nextGen
      BY DEF Entry
    <3>3. \A n \in S : reg[n] \in Entry
      BY <1>1, <2>1 DEF Registry, Registered
    <3> QED
      BY <3>1, <3>2, <3>3 DEF Regen
  <2>4. Edit(s) /\ nextGen' = nextGen + 1
    BY <1>4 DEF EditRegen
  <2> HIDE DEF s
  <2>5. LaterGens(s)
    BY <2>2, <2>3, <2>4 DEF LaterGens, Registered
  <2> QED
    BY <2>2, <2>4, <2>5, EditInv
<1>5. ASSUME NEW S \in Targets, NEW on \in BOOLEAN, EditTunnel(S, on) PROVE Inv'
  <2> DEFINE s == SetTunnel(reg, S, on)
  <2>1. S \in SUBSET Registered(reg)
    BY DEF Targets
  <2>2. /\ s \in Registry /\ Registered(s) = Registered(reg)
        /\ \A n \in Registered(reg) : s[n].tok = reg[n].tok
    BY <1>1, <2>1, SetTunnelType
  <2>3. Edit(s) /\ nextGen' = nextGen
    BY <1>5 DEF EditTunnel
  <2> HIDE DEF s
  <2>4. LaterGens(s)
    BY <2>2 DEF LaterGens
  <2> QED
    BY <2>2, <2>3, <2>4, EditInv
<1>6. CASE Tear
  BY <1>6 DEF Tear, watcher, Inv, TypeOK, Listening, Grows, HandlerOK
<1> QED
  BY <1>2, <1>3, <1>4, <1>5, <1>6 DEF Commands

-----------------------------------------------------------------------------
(* The watcher. *)

\* A step that leaves db.json and the handlers alone disturbs neither the
\* generations nor what a handler holds.
LEMMA WatcherFrame ==
  ASSUME Inv, UNCHANGED file, \A c \in Clients : client'[c] = client[c] \/ client'[c] = NoClient
  PROVE  /\ Grows' /\ Pairs(reg)' \subseteq paired'
         /\ \A c \in Clients : HandlerOK(client[c])'
<1>1. reg' = reg /\ nextGen' = nextGen /\ paired' = paired
  BY DEF file
<1>2. Grows' /\ Pairs(reg)' \subseteq paired'
  BY <1>1 DEF Inv, Grows
<1>3. ASSUME NEW c \in Clients PROVE HandlerOK(client[c])'
  BY <1>1 DEF Inv, HandlerOK, NoClient
<1> QED
  BY <1>2, <1>3

\* A sync, at any of its steps, and a restart of serve preserve the invariant.
LEMMA WatcherInv ==
  ASSUME Inv, SyncStart \/ (\E n \in Names : SyncName(n)) \/ SyncSweep \/ Restart
  PROVE  Inv'
<1>1. CASE SyncStart
  <2>1. TypeOK' /\ Listening'
    BY <1>1 DEF SyncStart, Inv, TypeOK, Listening, file
  <2> QED
    BY <1>1, <2>1, WatcherFrame DEF SyncStart, Inv
<1>2. ASSUME NEW n \in Names, SyncOff(n) PROVE Inv'
  <2>1. /\ active' = [m \in Names |-> IF m \in {n} THEN 0 ELSE active[m]]
        /\ accepting' = accepting \ {n} /\ todo' = todo \ {n}
        /\ pc = "reconcile" /\ pc' = pc /\ desired' = desired
        /\ UNCHANGED <<file, taken, run, serveKey, client>>
    BY <1>2 DEF SyncOff, Visit, CloseListeners
  <2>2. TypeOK'
    BY <2>1, PortsAssumption DEF Inv, TypeOK, file
  <2>3. Listening'
    BY <2>1 DEF Inv, TypeOK, Listening, file
  <2> QED
    BY <2>1, <2>2, <2>3, WatcherFrame DEF Inv
<1>3. ASSUME NEW n \in Names, SyncListen(n) PROVE Inv'
  <2>1. PICK p \in ListenPorts(n) : active' = [active EXCEPT ![n] = p]
    BY <1>3 DEF SyncListen
  <2>2. p \in 1 .. MaxPort
    BY <2>1, TunnelAssumption DEF ListenPorts
  <2>3. /\ accepting' = accepting \cup {n} /\ todo' = todo \ {n}
        /\ pc = "reconcile" /\ pc' = pc /\ desired' = desired /\ n \in todo
        /\ desired[n].enabled
        /\ UNCHANGED <<file, taken, run, serveKey, client>>
    BY <1>3 DEF SyncListen, Visit
  <2>4. TypeOK'
    BY <2>1, <2>2, <2>3, PortsAssumption DEF Inv, TypeOK, file
  <2>5. Listening'
    BY <2>1, <2>3 DEF Inv, TypeOK, Listening, file
  <2> QED
    BY <2>3, <2>4, <2>5, WatcherFrame DEF Inv
<1>4. ASSUME NEW n \in Names, SyncKeep(n) PROVE Inv'
  <2>1. /\ active' = active /\ accepting' = accepting /\ todo' = todo \ {n}
        /\ pc = "reconcile" /\ pc' = pc /\ desired' = desired /\ n \in todo
        /\ desired[n].enabled
        /\ UNCHANGED <<file, taken, run, serveKey, client>>
    BY <1>4 DEF SyncKeep, Visit
  <2>2. TypeOK' /\ Listening'
    BY <2>1 DEF Inv, TypeOK, Listening, file
  <2> QED
    BY <2>1, <2>2, WatcherFrame DEF Inv
<1>5. CASE SyncSweep
  <2>1. TypeOK' /\ Listening'
    BY <1>5, PortsAssumption DEF SyncSweep, CloseListeners, Inv, TypeOK, Listening, file
  <2> QED
    BY <1>5, <2>1, WatcherFrame DEF SyncSweep, Inv
<1>6. CASE Restart
  <2>1. Empty \in Registry /\ \A n \in Names : active'[n] = 0
    BY <1>6 DEF Restart, CloseListeners, Empty, Registry
  <2>2. TypeOK'
    BY <1>6, <2>1, PortsAssumption DEF Restart, CloseListeners, Inv, TypeOK, file
  <2>3. Listening'
    BY <2>1 DEF Listening
  <2>4. \A c \in Clients : client'[c] = NoClient
    BY <1>6 DEF Restart
  <2> QED
    BY <1>6, <2>2, <2>3, <2>4, WatcherFrame DEF Restart, Inv
<1> QED
  BY <1>1, <1>2, <1>3, <1>4, <1>5, <1>6 DEF SyncName

-----------------------------------------------------------------------------
(* Client connections. *)

\* A step of one handler: the others keep what they hold.
LEMMA HandlerFrame ==
  ASSUME Inv, OthersUnchanged, NEW c \in Clients,
         NEW h \in {NoClient} \cup Accepted \cup Holding,
         client' = [client EXCEPT ![c] = h], HandlerOK(h)
  PROVE  Inv'
<1>1. /\ reg' = reg /\ readable' = readable /\ nextGen' = nextGen /\ paired' = paired
      /\ taken' = taken /\ run' = run /\ serveKey' = serveKey
      /\ active' = active /\ accepting' = accepting /\ pc' = pc
      /\ desired' = desired /\ todo' = todo
  BY DEF OthersUnchanged, file, watcher
<1>2. \A d \in Clients : client'[d] = client[d] \/ client'[d] = h
  BY DEF Inv, TypeOK
<1>3. \A d \in Clients : HandlerOK(client'[d])
  BY <1>2 DEF Inv
<1>4. \A d \in Clients : HandlerOK(client[d])'
  BY <1>1, <1>3 DEF HandlerOK
<1>5. TypeOK'
  BY <1>1 DEF Inv, TypeOK
<1> QED
  BY <1>1, <1>4, <1>5 DEF Inv, Listening, Grows

\* Accepting, resolving, authenticating and closing preserve the invariant.
LEMMA HandlerInv ==
  ASSUME Inv, NEW c \in Clients, Handler(c)
  PROVE  Inv'
<1>1. /\ reg \in Registry /\ nextGen \in Nat
      /\ \A n \in Registered(reg) :
           reg[n] \in Entry /\ reg[n].tok.gen \in Nat /\ reg[n].tok.gen < nextGen
  BY DEF Inv, TypeOK, Grows, Registry, Registered, Entry, SealedToken
<1>2. client[c] \in {NoClient} \cup Accepted \cup Holding /\ HandlerOK(client[c])
  BY DEF Inv, TypeOK
<1>3. ASSUME NEW n \in Names, Accept(c, n) PROVE Inv'
  <2> DEFINE floor == IF reg[n] = NoEntry THEN nextGen ELSE reg[n].tok.gen
             h == [state |-> "accepted", name |-> n, floor |-> floor]
  <2>1. floor \in Nat /\ floor <= nextGen /\ (n \in Registered(reg) => floor <= reg[n].tok.gen)
    BY <1>1 DEF Registered
  <2>2. client' = [client EXCEPT ![c] = h] /\ OthersUnchanged
    BY <1>3 DEF Accept
  <2> HIDE DEF floor
  <2>3. h \in Accepted /\ HandlerOK(h)
    BY <2>1 DEF Accepted, HandlerOK
  <2> QED
    BY <2>2, <2>3, HandlerFrame
<1>4. CASE ResolveConn(c)
  <2> DEFINE n == client[c].name
             e == reg[n]
             h == [state |-> "resolved", name |-> n, floor |-> client[c].floor,
                   url |-> e.url.val, nonce |-> e.url.nonce,
                   tok |-> <<n, e.tok.gen>>, via |-> NoToken]
  <2>1. client[c] \in Accepted /\ client[c].state = "accepted"
    BY <1>2, <1>4 DEF ResolveConn, NoClient, Holding
  <2>2. n \in Registered(reg)
    BY <1>4, <2>1 DEF ResolveConn, Resolvable, Registered, Accepted
  <2>3. /\ client[c].floor \in Nat /\ n \in Names
        /\ client[c].floor <= e.tok.gen
    BY <1>2, <2>1, <2>2 DEF HandlerOK, Accepted
  <2>4. e.url.val \in URLs /\ e.url.nonce \in Nat /\ e.tok.gen \in Nat
    BY <1>1, <2>2 DEF Entry, SealedURL
  <2>5. <<n, e.url.nonce, e.tok.gen>> \in paired
    BY <2>2 DEF Inv, Pairs
  <2>6. client' = [client EXCEPT ![c] = h] /\ OthersUnchanged
    BY <1>4 DEF ResolveConn
  <2>7. h \in Holding
    BY <2>3, <2>4 DEF Holding, Token
  <2>8. HandlerOK(h)
    BY <2>3, <2>4, <2>5 DEF HandlerOK
  <2> QED
    BY <2>6, <2>7, <2>8, HandlerFrame
<1>5. ASSUME NEW t \in Issued \cup {Global}, Authenticate(c, t) PROVE Inv'
  <2> DEFINE g == client[c]
             h == [g EXCEPT !.state = "open", !.via = t]
  <2>1. g \in Holding /\ g.state = "resolved"
    BY <1>2, <1>5 DEF Authenticate, NoClient, Accepted
  <2>2. t \in {g.tok, Global}
    BY <1>5 DEF Authenticate, TokenOK
  <2>3. t \in Token \cup {Global}
    BY <2>1, <2>2 DEF Holding
  <2>4. client' = [client EXCEPT ![c] = h] /\ OthersUnchanged
    BY <1>5 DEF Authenticate
  <2>5. /\ h.state = "open" /\ h.via = t /\ h.tok = g.tok /\ h.name = g.name
        /\ h.floor = g.floor /\ h.nonce = g.nonce /\ h \in Holding
    BY <2>1, <2>3 DEF Holding
  <2> HIDE DEF h
  <2>6. HandlerOK(h)
    BY <1>2, <2>1, <2>2, <2>5 DEF HandlerOK
  <2> QED
    BY <2>4, <2>5, <2>6, HandlerFrame
<1>6. CASE Close(c)
  <2>1. HandlerOK(NoClient)
    BY DEF HandlerOK, NoClient
  <2> QED
    BY <1>6, <2>1, HandlerFrame DEF Close
<1> QED
  BY <1>3, <1>4, <1>5, <1>6 DEF Handler

\* The rest of the host, an accept loop that ends, and stuttering.
LEMMA OtherInv ==
  ASSUME Inv,
         (\E p \in Foreign : ForeignPort(p)) \/ (\E n \in Names : AcceptFails(n)) \/ UNCHANGED vars
  PROVE  Inv'
<1>1. ASSUME NEW p \in Foreign, ForeignPort(p) PROVE Inv'
  BY <1>1 DEF ForeignPort, file, watcher, Inv, TypeOK, Listening, Grows, HandlerOK
<1>2. ASSUME NEW n \in Names, AcceptFails(n) PROVE Inv'
  BY <1>2 DEF AcceptFails, file, Inv, TypeOK, Listening, Grows, HandlerOK
<1>3. CASE UNCHANGED vars
  BY <1>3 DEF vars, file, watcher, Inv, TypeOK, Listening, Grows, HandlerOK
<1> QED
  BY <1>1, <1>2, <1>3

-----------------------------------------------------------------------------
(* The theorems. *)

\* The invariant holds in every state of serve, for all values of the constants.
THEOREM Invariance == Spec => []Inv
<1>1. Inv /\ [Next]_vars => Inv'
  BY CommandsInv, WatcherInv, HandlerInv, OtherInv DEF Next
<1> QED
  BY InitInv, <1>1, PTL DEF Spec

\* The variables of Tunnel.Start and of the handlers keep their types; a name
\* has an accept loop only while it has a listener.
THEOREM TypeCorrect == Spec => []TypeOK
<1>1. Inv => TypeOK
  BY DEF Inv
<1> QED
  BY <1>1, Invariance, PTL

\* Between syncs no listener is up for a name the last db.json read did not
\* have on: `off`, `rm` and re-registration always reach the listener.
THEOREM OnlyDesiredListenAlways == Spec => []OnlyDesiredListen
<1>1. Inv => OnlyDesiredListen
  BY DEF Inv, Listening, OnlyDesiredListen
<1> QED
  BY <1>1, Invariance, PTL

\* A connection accepted after a regeneration never opens with the old token.
THEOREM NoStaleTokenAlways == Spec => []NoStaleToken
<1>1. Inv => NoStaleToken
  <2> SUFFICES ASSUME Inv, NEW c \in Clients, client[c].state = "open", client[c].via # Global
               PROVE  client[c].via[1] = client[c].name /\ client[c].via[2] >= client[c].floor
    BY DEF NoStaleToken
  <2>1. client[c] \in Holding /\ HandlerOK(client[c])
    BY DEF Inv, TypeOK, NoClient, Accepted
  <2>2. client[c].via = client[c].tok /\ client[c].tok[2] \in Nat /\ client[c].floor \in Nat
    BY <2>1 DEF HandlerOK, Holding, Token
  <2> QED
    BY <2>1, <2>2 DEF HandlerOK
<1> QED
  BY <1>1, Invariance, PTL

\* The URL a handler dials and the token it compares were in db.json together.
THEOREM OneRegistrationAlways == Spec => []OneRegistration
<1>1. Inv => OneRegistration
  BY DEF Inv, HandlerOK, OneRegistration
<1> QED
  BY <1>1, Invariance, PTL
=============================================================================
