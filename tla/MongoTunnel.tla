----------------------------- MODULE MongoTunnel -----------------------------
(***************************************************************************)
(* The MongoDB tunnel: the handlers of client connections, their SCRAM     *)
(* conversation, and the cursor table all of them share                    *)
(* (internal/dbproxy/mongodb.go).                                          *)
(*                                                                         *)
(* A handler serves one request at a time.  It checks ownership of cursors *)
(* under the lock of the table, releases the lock, runs the command at the *)
(* backend, and takes the lock again to record the reply: handlers         *)
(* interleave at each of those steps, and cursors move between connections *)
(* because ownership follows the scope (name, URL, token) and the session. *)
(* Which commands and options the policy lets through is MongoPolicy.      *)
(***************************************************************************)
EXTENDS Integers, FiniteSets

CONSTANTS
  Conns,        \* slots for client connections open at the same time
  Scopes,       \* hashes of a registered name, URL and token
  BackendOf,    \* the backend of each scope; several scopes may share one
  Namespaces, Sessions,
  OpenKinds,    \* commands that open a cursor: find, listCollections, ...
  MetaKinds,    \* those that list metadata: listCollections, listIndexes
  MaxConns,     \* capacity of the slots channel
  ScopeLimit, GlobalLimit, \* entries of one scope, and of all
  Lifetime,     \* ticks an entry may go unused
  MaxId,        \* bound: cursors one backend opens
  NoCursor, NoReq

Backends == {BackendOf[s] : s \in Scopes}
Ids == 1 .. MaxId
Keys == Scopes \X Ids

ASSUME ScopesAssumption == IsFiniteSet(Scopes) /\ BackendOf \in [Scopes -> Backends]
ASSUME LimitsAssumption ==
  /\ MaxConns \in Nat /\ ScopeLimit \in Nat \ {0} /\ GlobalLimit \in Nat \ {0}
  /\ Lifetime \in Nat /\ MaxId \in Nat

VARIABLES
  phase,    \* each handler: "none", "greeting" or "serving"
  scope,    \* the scope of its connection
  knows,    \* its client can prove the token of that scope
  sasl,     \* its conversation: "none", "challenged", "proved", "authed"
  skip,     \* the client asked to skip the empty exchange at its end
  req,      \* the request its handler is at work on
  table,    \* state.cursors
  live, nextId,   \* the backends: cursors open, next identifier
  (* History variable: no action reads it. *)
  opener    \* who opened each cursor, where and with which command

clients == <<phase, scope, knows, sasl, skip>>
servers == <<live, nextId, opener>>
vars    == <<clients, req, table, servers>>

Entry  == [ns : Namespaces, cmd : OpenKinds, ses : Sessions, age : 0 .. Lifetime + 1]
Origin == [scope : Scopes, ns : Namespaces, cmd : OpenKinds, ses : Sessions]

\* `public` is the command whose reply filter will be applied; `result` is the
\* cursor the backend's reply names, 0 when it is exhausted; `gone` are the
\* cursors the reply declares dead.
OpenReq == [op : {"open"}, stage : {"checked"}, ids : {{}}, ns : Namespaces,
            ses : Sessions, public : OpenKinds]
UseReq  == [op : {"getMore"}, stage : {"checked"}, ids : SUBSET Ids, ns : Namespaces,
            ses : Sessions, public : OpenKinds]
           \cup [op : {"killCursors"}, stage : {"checked"}, ids : SUBSET Ids,
                 ns : Namespaces, ses : Sessions, public : {"killCursors"}]
EndReq  == [op : {"endSessions"}, stage : {"checked"}, ends : SUBSET Sessions]
Replied == [stage : {"cursor"}, result : Ids \cup {0}, old : SUBSET Ids, ns : Namespaces,
            ses : Sessions, public : OpenKinds]
           \cup [stage : {"forget"}, gone : SUBSET Ids]
           \cup [stage : {"ended"}, ends : SUBSET Sessions]
           \cup [stage : {"failed"}, ids : SUBSET Ids]
Requests == {NoReq} \cup OpenReq \cup UseReq \cup EndReq \cup Replied

ASSUME SentinelsAssumption ==
  NoCursor \notin Entry \cup Origin /\ NoReq \notin OpenReq \cup UseReq \cup EndReq \cup Replied

Init ==
  /\ phase = [c \in Conns |-> "none"]
  /\ scope \in [Conns -> Scopes]
  /\ knows = [c \in Conns |-> FALSE]
  /\ sasl = [c \in Conns |-> "none"]
  /\ skip = [c \in Conns |-> FALSE]
  /\ req = [c \in Conns |-> NoReq]
  /\ table = [k \in Keys |-> NoCursor]
  /\ live = [b \in Backends |-> {}]
  /\ nextId = [b \in Backends |-> 1]
  /\ opener = [b \in Backends |-> [i \in Ids |-> NoCursor]]

-----------------------------------------------------------------------------
(* The cursor table: cursor, remember and forget.                          *)

Known(t) == {k \in Keys : t[k] # NoCursor}
Expired(e) == e.age > Lifetime
Of(s, S) == {k \in S : k[1] = s}

\* Variant: a cursor is looked up whatever session asks.
OwnsAnySession(t, s, i, ns, ses) ==
  LET e == t[<<s, i>>] IN e # NoCursor /\ e.ns = ns /\ ~Expired(e)

\* What cursor() accepts.
Owns(t, s, i, ns, ses) ==
  LET e == t[<<s, i>>] IN
  e # NoCursor /\ e.ns = ns /\ e.ses = ses /\ ~Expired(e)

\* remember() first deletes every expired entry, of any scope.
Purge(t) == [k \in Keys |-> IF t[k] # NoCursor /\ Expired(t[k]) THEN NoCursor ELSE t[k]]

\* Variant: the limit of a scope is checked only once it is exceeded.
FullOffByOne(t, s) ==
  Cardinality(Of(s, Known(t))) > ScopeLimit \/ Cardinality(Known(t)) >= GlobalLimit

\* A new entry of s does not fit.  t has been purged.
Full(t, s) ==
  Cardinality(Of(s, Known(t))) >= ScopeLimit \/ Cardinality(Known(t)) >= GlobalLimit

Refuses(t, s, i) == t[<<s, i>>] = NoCursor /\ Full(t, s)

Put(t, s, i, e) == [t EXCEPT ![<<s, i>>] = e]

Forget(t, s, S) == [k \in Keys |-> IF k[1] = s /\ k[2] \in S THEN NoCursor ELSE t[k]]

-----------------------------------------------------------------------------
(* Connections.                                                            *)

Busy == {c \in Conns : phase[c] # "none"}

\* handle() resolved the connection; the slots channel has room.
Accept(c, s, k) ==
  /\ phase[c] = "none" /\ Cardinality(Busy) < MaxConns
  /\ phase' = [phase EXCEPT ![c] = "greeting"]
  /\ scope' = [scope EXCEPT ![c] = s]
  /\ knows' = [knows EXCEPT ![c] = k]
  /\ UNCHANGED <<sasl, skip, req, table, servers>>

\* The first message is a hello, the backend was dialled and accepted the
\* stored credentials, and its hello was answered.
Greet(c) ==
  /\ phase[c] = "greeting"
  /\ phase' = [phase EXCEPT ![c] = "serving"]
  /\ UNCHANGED <<scope, knows, sasl, skip, req, table, servers>>

Leave(c) ==
  /\ phase' = [phase EXCEPT ![c] = "none"]
  /\ sasl' = [sasl EXCEPT ![c] = "none"]
  /\ skip' = [skip EXCEPT ![c] = FALSE]
  /\ knows' = [knows EXCEPT ![c] = FALSE]
  /\ req' = [req EXCEPT ![c] = NoReq]
  /\ UNCHANGED scope

\* The client hangs up or misses the deadline of the phase it is in, the dial
\* or the hello fails, a SASL step is refused: handleMongo returns.
Close(c) ==
  /\ phase[c] # "none" /\ req[c] = NoReq
  /\ Leave(c)
  /\ UNCHANGED <<table, servers>>

Idle(c) == phase[c] = "serving" /\ req[c] = NoReq

\* saslStart: the conversation is created and the client's first message gets
\* its challenge.  A second one is refused (Close).
SaslStart(c, b) ==
  /\ Idle(c) /\ sasl[c] = "none"
  /\ sasl' = [sasl EXCEPT ![c] = "challenged"]
  /\ skip' = [skip EXCEPT ![c] = b]
  /\ UNCHANGED <<phase, scope, knows, req, table, servers>>

\* saslContinue with the proof: authenticated at once, or after an empty
\* exchange.  A wrong proof is refused (Close).
SaslProof(c) ==
  /\ Idle(c) /\ sasl[c] = "challenged" /\ knows[c]
  /\ sasl' = [sasl EXCEPT ![c] = IF skip[c] THEN "authed" ELSE "proved"]
  /\ UNCHANGED <<phase, scope, knows, skip, req, table, servers>>

\* Variant: an empty exchange authenticates whatever the conversation is at.
SaslAckAnyTime(c) ==
  /\ Idle(c) /\ sasl[c] \in {"challenged", "proved"}
  /\ sasl' = [sasl EXCEPT ![c] = "authed"]
  /\ UNCHANGED <<phase, scope, knows, skip, req, table, servers>>

SaslAck(c) ==
  /\ Idle(c) /\ sasl[c] = "proved"
  /\ sasl' = [sasl EXCEPT ![c] = "authed"]
  /\ UNCHANGED <<phase, scope, knows, skip, req, table, servers>>

-----------------------------------------------------------------------------
(* execute, up to the backend: the request is parsed, cursors are looked   *)
(* up, the policy accepts it.  A denied request changes nothing.           *)

Start(c, r) ==
  /\ Idle(c) /\ sasl[c] = "authed"
  /\ req' = [req EXCEPT ![c] = r]
  /\ UNCHANGED <<clients, table, servers>>

Open(c, kind, ns, ses) ==
  Start(c, [op |-> "open", stage |-> "checked", ids |-> {}, ns |-> ns, ses |-> ses,
            public |-> kind])

\* Variant: the reply is filtered as that of a getMore.
GetMoreFiltersAsItself(c, i, ns, ses) ==
  /\ Owns(table, scope[c], i, ns, ses)
  /\ Start(c, [op |-> "getMore", stage |-> "checked", ids |-> {i}, ns |-> ns, ses |-> ses,
               public |-> "getMore"])

\* Variant: the reply of a getMore is always taken for business data.
GetMoreAsBusiness(c, i, ns, ses) ==
  /\ Owns(table, scope[c], i, ns, ses)
  /\ Start(c, [op |-> "getMore", stage |-> "checked", ids |-> {i}, ns |-> ns, ses |-> ses,
               public |-> CHOOSE kind \in OpenKinds : kind \notin MetaKinds])

\* The reply will be filtered as that of the command that opened the cursor.
GetMore(c, i, ns, ses) ==
  /\ Owns(table, scope[c], i, ns, ses)
  /\ Start(c, [op |-> "getMore", stage |-> "checked", ids |-> {i}, ns |-> ns, ses |-> ses,
               public |-> table[<<scope[c], i>>].cmd])

KillCursors(c, S, ns, ses) ==
  /\ S # {} /\ \A i \in S : Owns(table, scope[c], i, ns, ses)
  /\ Start(c, [op |-> "killCursors", stage |-> "checked", ids |-> S, ns |-> ns,
               ses |-> ses, public |-> "killCursors"])

EndSessions(c, T) ==
  T # {} /\
  Start(c, [op |-> "endSessions", stage |-> "checked", ends |-> T])

\* collectionAllowed says that the namespace is a view or a system collection;
\* the namespaces of metadata commands and cursors are not asked about.
Refuse(c) ==
  /\ req[c] # NoReq /\ req[c].stage = "checked"
  /\ req[c].op \in {"open", "getMore"} => req[c].public \notin MetaKinds
  /\ req[c].op # "endSessions"
  /\ req' = [req EXCEPT ![c] = NoReq]
  /\ UNCHANGED <<clients, table, servers>>

\* collectionAllowed or the command fails, before the backend acts on it, or
\* afterwards with the reply lost or invalid: the handler returns, and what the
\* backend has open stays there.
BackendFails(c) ==
  /\ req[c] # NoReq /\ req[c].stage \in {"checked", "cursor"}
  /\ Leave(c)
  /\ UNCHANGED <<table, servers>>

-----------------------------------------------------------------------------
(* The backend (external): what a mongod does with the commands the tunnel  *)
(* forwards.  Identifiers are never used twice.                             *)

Answer(c, r) == req' = [req EXCEPT ![c] = r]

BackendOpen(c) ==
  LET r == req[c]  b == BackendOf[scope[c]]  i == nextId[b]  IN
  /\ r # NoReq /\ r.stage = "checked" /\ r.op = "open"
  /\ \/ \* everything fits in the first batch
        /\ Answer(c, [stage |-> "cursor", result |-> 0, old |-> {}, ns |-> r.ns,
                      ses |-> r.ses, public |-> r.public])
        /\ UNCHANGED servers
     \/ /\ i \in Ids
        /\ Answer(c, [stage |-> "cursor", result |-> i, old |-> {}, ns |-> r.ns,
                      ses |-> r.ses, public |-> r.public])
        /\ live' = [live EXCEPT ![b] = @ \cup {i}]
        /\ nextId' = [nextId EXCEPT ![b] = i + 1]
        /\ opener' = [opener EXCEPT ![b][i] =
                        [scope |-> scope[c], ns |-> r.ns, cmd |-> r.public, ses |-> r.ses]]
  /\ UNCHANGED <<clients, table>>

\* The next batch, the last batch, an error that leaves the cursor as it is,
\* or error 43: there is no such cursor.
BackendGetMore(c) ==
  LET r == req[c]  b == BackendOf[scope[c]] IN
  /\ r # NoReq /\ r.stage = "checked" /\ r.op = "getMore"
  /\ \/ /\ r.ids \subseteq live[b]
        /\ \E i \in r.ids \cup {0} :
             /\ Answer(c, [stage |-> "cursor", result |-> i, old |-> r.ids, ns |-> r.ns,
                           ses |-> r.ses, public |-> r.public])
             /\ live' = [live EXCEPT ![b] = IF i = 0 THEN @ \ r.ids ELSE @]
     \/ /\ r.ids \subseteq live[b]
        /\ Answer(c, [stage |-> "failed", ids |-> r.ids]) /\ UNCHANGED live
     \/ /\ r.ids \cap live[b] = {}
        /\ Answer(c, [stage |-> "forget", gone |-> r.ids]) /\ UNCHANGED live
  /\ UNCHANGED <<clients, table, nextId, opener>>

\* Each cursor is reported killed or not found; or the command is an error.
BackendKill(c) ==
  LET r == req[c]  b == BackendOf[scope[c]] IN
  /\ r # NoReq /\ r.stage = "checked" /\ r.op = "killCursors"
  /\ \/ /\ live' = [live EXCEPT ![b] = @ \ r.ids]
        /\ Answer(c, [stage |-> "forget", gone |-> r.ids])
     \/ Answer(c, [stage |-> "failed", ids |-> r.ids]) /\ UNCHANGED live
  /\ UNCHANGED <<clients, table, nextId, opener>>

\* The backend ends the sessions, and their cursors with them, at once or later.
BackendEnd(c) ==
  LET r == req[c] IN
  /\ r # NoReq /\ r.stage = "checked" /\ r.op = "endSessions"
  /\ \/ Answer(c, [stage |-> "ended", ends |-> r.ends])
     \/ Answer(c, [stage |-> "failed", ids |-> {}])
  /\ UNCHANGED <<clients, table, servers>>

\* A cursor times out, its session ends, an administrator kills it.
BackendDrop(b, i) ==
  /\ i \in live[b]
  /\ live' = [live EXCEPT ![b] = @ \ {i}]
  /\ UNCHANGED <<clients, req, table, nextId, opener>>

-----------------------------------------------------------------------------
(* execute, after the backend: the reply is recorded and sent.             *)

Done(c) == req' = [req EXCEPT ![c] = NoReq] /\ UNCHANGED clients

\* Variant: the cursor that was asked for is forgotten also when the reply
\* names it again.
RememberForgetsOld(c) ==
  LET r == req[c]  s == scope[c]  t == Purge(table)
      e == [ns |-> r.ns, cmd |-> r.public, ses |-> r.ses, age |-> 0]
  IN
  /\ r # NoReq /\ r.stage = "cursor"
  /\ r.result # 0 => ~Refuses(t, s, r.result)
  /\ table' = IF r.result = 0 THEN Forget(table, s, r.old)
              ELSE Forget(Put(t, s, r.result, e), s, r.old)
  /\ Done(c)
  /\ UNCHANGED servers

\* The reply has a cursor document.  A cursor that is still open is recorded as
\* used now, under the command that opened it; the ones it replaces are not.
Remember(c) ==
  LET r == req[c]  s == scope[c]  t == Purge(table)
      e == [ns |-> r.ns, cmd |-> r.public, ses |-> r.ses, age |-> 0]
  IN
  /\ r # NoReq /\ r.stage = "cursor"
  /\ r.result # 0 => ~Refuses(t, s, r.result)
  /\ table' = IF r.result = 0 THEN Forget(table, s, r.old)
              ELSE Forget(Put(t, s, r.result, e), s, r.old \ {r.result})
  /\ Done(c)
  /\ UNCHANGED servers

\* "MongoDB cursor limit reached": the handler returns, the cursor stays open
\* at the backend.
RememberRefused(c) ==
  LET r == req[c]  s == scope[c] IN
  /\ r # NoReq /\ r.stage = "cursor" /\ r.result # 0
  /\ Refuses(Purge(table), s, r.result)
  /\ table' = Purge(table)
  /\ Leave(c)
  /\ UNCHANGED servers

\* Variant: any reply to a getMore renews the cursor it asked for.
ReplyFailedRenews(c) ==
  /\ req[c] # NoReq /\ req[c].stage = "failed"
  /\ table' = [k \in Keys |->
       IF k[1] = scope[c] /\ k[2] \in req[c].ids /\ table[k] # NoCursor
       THEN [table[k] EXCEPT !.age = 0] ELSE table[k]]
  /\ Done(c)
  /\ UNCHANGED servers

\* The reply is an error, other than 43: it is passed on, nothing is recorded.
ReplyFailed(c) ==
  /\ req[c] # NoReq /\ req[c].stage = "failed"
  /\ Done(c)
  /\ UNCHANGED <<table, servers>>

\* One cursor at a time, each under the lock.
ForgetOne(c, i) ==
  LET r == req[c] IN
  /\ r # NoReq /\ r.stage = "forget" /\ i \in r.gone
  /\ table' = Forget(table, scope[c], {i})
  /\ IF r.gone = {i} THEN Done(c)
     ELSE req' = [req EXCEPT ![c].gone = @ \ {i}] /\ UNCHANGED clients
  /\ UNCHANGED servers

\* The cursors of the sessions, of this scope only, under one lock.
ForgetSessions(c) ==
  LET r == req[c] IN
  /\ r # NoReq /\ r.stage = "ended"
  /\ table' = [k \in Keys |->
       IF k[1] = scope[c] /\ table[k] # NoCursor /\ table[k].ses \in r.ends
       THEN NoCursor ELSE table[k]]
  /\ Done(c)
  /\ UNCHANGED servers

-----------------------------------------------------------------------------
\* Time passes: every entry is unused for one more tick.
Tick ==
  /\ table' = [k \in Keys |->
       IF table[k] = NoCursor \/ Expired(table[k]) THEN table[k]
       ELSE [table[k] EXCEPT !.age = @ + 1]]
  /\ UNCHANGED <<clients, req, servers>>

\* serve stops, or the process dies, whatever its handlers are doing, and a
\* new run starts with an empty table.
Restart ==
  /\ phase' = [c \in Conns |-> "none"]
  /\ sasl' = [c \in Conns |-> "none"]
  /\ skip' = [c \in Conns |-> FALSE]
  /\ knows' = [c \in Conns |-> FALSE]
  /\ req' = [c \in Conns |-> NoReq]
  /\ table' = [k \in Keys |-> NoCursor]
  /\ UNCHANGED <<scope, servers>>

Handler(c) ==
  \/ \E s \in Scopes, k \in BOOLEAN : Accept(c, s, k)
  \/ Greet(c) \/ Close(c)
  \/ \E b \in BOOLEAN : SaslStart(c, b)
  \/ SaslProof(c) \/ SaslAck(c)
  \/ \E ns \in Namespaces, ses \in Sessions :
       \/ \E kind \in OpenKinds : Open(c, kind, ns, ses)
       \/ \E i \in Ids : GetMore(c, i, ns, ses)
       \/ \E S \in SUBSET Ids : KillCursors(c, S, ns, ses)
  \/ \E T \in SUBSET Sessions : EndSessions(c, T)
  \/ Refuse(c) \/ BackendFails(c)
  \/ Remember(c) \/ RememberRefused(c) \/ ReplyFailed(c) \/ ForgetSessions(c)
  \/ \E i \in Ids : ForgetOne(c, i)

Backend ==
  \/ \E c \in Conns : BackendOpen(c) \/ BackendGetMore(c) \/ BackendKill(c) \/ BackendEnd(c)
  \/ \E b \in Backends, i \in Ids : BackendDrop(b, i)

Next == (\E c \in Conns : Handler(c)) \/ Backend \/ Tick \/ Restart

Spec == Init /\ [][Next]_vars

-----------------------------------------------------------------------------
TypeOK ==
  /\ phase \in [Conns -> {"none", "greeting", "serving"}]
  /\ scope \in [Conns -> Scopes] /\ knows \in [Conns -> BOOLEAN]
  /\ sasl \in [Conns -> {"none", "challenged", "proved", "authed"}]
  /\ skip \in [Conns -> BOOLEAN]
  /\ req \in [Conns -> Requests]
  /\ table \in [Keys -> Entry \cup {NoCursor}]
  /\ live \in [Backends -> SUBSET Ids]
  /\ nextId \in [Backends -> 1 .. MaxId + 1]
  /\ opener \in [Backends -> [Ids -> Origin \cup {NoCursor}]]

\* "Cursor tracking permits 1,024 entries per scope, 16,384 across the shared
\* tunnel state": expired entries included, and whatever handlers record
\* replies at the same time (remember).
WithinLimits ==
  /\ \A s \in Scopes : Cardinality(Of(s, Known(table))) <= ScopeLimit
  /\ Cardinality(Known(table)) <= GlobalLimit

Asked(c, i) == req[c] # NoReq /\ req[c].stage = "checked"
               /\ req[c].op \in {"getMore", "killCursors"} /\ i \in req[c].ids
OpenerOf(c, i) == opener[BackendOf[scope[c]]][i]

\* A cursor is read or killed only for the scope, namespace and session that
\* opened it, also when the table changed after the check (execute).
OwnersOnly ==
  \A c \in Conns, i \in Ids : Asked(c, i) =>
    /\ OpenerOf(c, i) # NoCursor
    /\ OpenerOf(c, i).scope = scope[c]
    /\ OpenerOf(c, i).ns = req[c].ns
    /\ OpenerOf(c, i).ses = req[c].ses

\* However many batches a cursor has, each is filtered as the reply of the
\* command that opened it (publicCommand).
FilteredAsOpened ==
  \A c \in Conns, i \in Ids :
    Asked(c, i) /\ req[c].op = "getMore" => req[c].public = OpenerOf(c, i).cmd

\* Nothing is forwarded for a client that has not proved the token of its
\* connection, whichever way the conversation ended (handleMongo).
AuthFirst == \A c \in Conns : req[c] # NoReq => knows[c]

\* An entry becomes younger only by a reply of the backend that names its
\* cursor: asking, or an error, does not renew ownership (remember).
RenewedOnlyBySuccess ==
  [][\A k \in Keys :
       table'[k] # NoCursor /\ (table[k] = NoCursor \/ table'[k].age < table[k].age) =>
         \E c \in Conns : /\ req[c] # NoReq /\ req[c].stage = "cursor"
                          /\ scope[c] = k[1] /\ req[c].result = k[2]]_vars

Ending(k) == \E c \in Conns : /\ req[c] # NoReq /\ req[c].stage = "ended"
                              /\ scope[c] = k[1] /\ table[k].ses \in req[c].ends

\* A cursor the backend still has open is forgotten only when it expired, when
\* its own scope ended its session, or with the run of serve: no reply another
\* handler records makes a client lose its cursor.
ForgottenForAReason ==
  [][\A k \in Keys :
       table[k] # NoCursor /\ table'[k] = NoCursor =>
         \/ Expired(table[k]) \/ Ending(k)
         \/ k[2] \notin live[BackendOf[k[1]]]
         \/ \A c \in Conns : phase'[c] = "none"]_vars
=============================================================================
