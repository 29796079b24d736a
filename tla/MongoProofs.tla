----------------------------- MODULE MongoProofs -----------------------------
(***************************************************************************)
(* Theorems of MongoTunnel: for any number of connections, scopes,         *)
(* sessions and cursors, and limits of any size.  Then those of            *)
(* MongoPolicy: for any set of values and any depth.                       *)
(***************************************************************************)
EXTENDS MongoTunnel, MongoPolicy, FiniteSetTheorems, TLAPS

-----------------------------------------------------------------------------
(* Types.                                                                  *)

LEMMA Shape ==
  ASSUME NEW r \in Requests, r # NoReq
  PROVE  /\ r.stage = "checked" /\ r.op = "open" => r \in OpenReq
         /\ r.stage = "checked" /\ r.op \in {"getMore", "killCursors"} => r \in UseReq
         /\ r.stage = "checked" /\ r.op = "endSessions" => r \in EndReq
         /\ r.stage = "checked" => r.op \in {"open", "getMore", "killCursors", "endSessions"}
         /\ r.stage = "cursor" =>
              r \in [stage : {"cursor"}, result : Ids \cup {0}, old : SUBSET Ids,
                     ns : Namespaces, ses : Sessions, public : OpenKinds]
         /\ r.stage = "forget" => r \in [stage : {"forget"}, gone : SUBSET Ids]
         /\ r.stage = "ended" => r \in [stage : {"ended"}, ends : SUBSET Sessions]
         /\ r.stage = "failed" => r \in [stage : {"failed"}, ids : SUBSET Ids]
BY DEF Requests, OpenReq, UseReq, EndReq, Replied

LEMMA TypeStep == TypeOK /\ [Next]_vars => TypeOK'
<1> SUFFICES ASSUME TypeOK, [Next]_vars PROVE TypeOK'
  OBVIOUS
<1> USE DEF TypeOK, clients, servers
<1>1. ASSUME NEW c \in Conns, NEW r \in Requests, Start(c, r) PROVE TypeOK'
  BY <1>1 DEF Start
<1>2. ASSUME NEW c \in Conns, Leave(c), table' \in [Keys -> Entry \cup {NoCursor}],
             UNCHANGED servers
      PROVE  TypeOK'
  BY <1>2 DEF Leave, Requests
<1>3. ASSUME NEW c \in Conns, NEW r \in Requests, req' = [req EXCEPT ![c] = r],
             UNCHANGED clients, table' \in [Keys -> Entry \cup {NoCursor}],
             UNCHANGED servers
      PROVE  TypeOK'
  BY <1>3
<1>4. Purge(table) \in [Keys -> Entry \cup {NoCursor}]
  BY DEF Purge
<1>5. ASSUME NEW t \in [Keys -> Entry \cup {NoCursor}], NEW s, NEW S
      PROVE  Forget(t, s, S) \in [Keys -> Entry \cup {NoCursor}]
  BY DEF Forget
<1>6. ASSUME NEW c \in Conns, Handler(c) PROVE TypeOK'
  <2>1. ASSUME NEW s \in Scopes, NEW k \in BOOLEAN, Accept(c, s, k) PROVE TypeOK'
    BY <2>1 DEF Accept
  <2>2. CASE Greet(c)
    BY <2>2 DEF Greet
  <2>3. CASE Close(c)
    BY <2>3, <1>2 DEF Close
  <2>4. ASSUME NEW b \in BOOLEAN, SaslStart(c, b) PROVE TypeOK'
    BY <2>4 DEF SaslStart
  <2>5. CASE SaslProof(c)
    BY <2>5 DEF SaslProof
  <2>6. CASE SaslAck(c)
    BY <2>6 DEF SaslAck
  <2>7. ASSUME NEW ns \in Namespaces, NEW ses \in Sessions, NEW kind \in OpenKinds,
               Open(c, kind, ns, ses)
        PROVE  TypeOK'
    BY <2>7, <1>1 DEF Open, Requests, OpenReq
  <2>8. ASSUME NEW ns \in Namespaces, NEW ses \in Sessions, NEW i \in Ids,
               GetMore(c, i, ns, ses)
        PROVE  TypeOK'
    <3>1. <<scope[c], i>> \in Keys /\ table[<<scope[c], i>>] \in Entry
      BY <2>8 DEF GetMore, Owns, Keys
    <3>2. table[<<scope[c], i>>].cmd \in OpenKinds
      BY <3>1 DEF Entry
    <3> QED
      BY <2>8, <1>1, <3>2 DEF GetMore, Requests, UseReq
  <2>9. ASSUME NEW ns \in Namespaces, NEW ses \in Sessions, NEW S \in SUBSET Ids,
               KillCursors(c, S, ns, ses)
        PROVE  TypeOK'
    BY <2>9, <1>1 DEF KillCursors, Requests, UseReq
  <2>10. ASSUME NEW T \in SUBSET Sessions, EndSessions(c, T) PROVE TypeOK'
    BY <2>10, <1>1 DEF EndSessions, Requests, EndReq
  <2>11. CASE Refuse(c)
    BY <2>11 DEF Refuse, Requests
  <2>12. CASE BackendFails(c)
    BY <2>12, <1>2 DEF BackendFails
  <2>13. CASE Remember(c)
    <3> DEFINE r == req[c]
               s == scope[c]
               e == [ns |-> r.ns, cmd |-> r.public, ses |-> r.ses, age |-> 0]
    <3>1. r \in Requests /\ r # NoReq /\ r.stage = "cursor"
      BY <2>13 DEF Remember
    <3>2. r.result \in Ids \cup {0} /\ e \in Entry
      BY <3>1, Shape, LimitsAssumption DEF Entry
    <3>3. CASE r.result = 0
      BY <2>13, <3>3, <1>3, <1>5 DEF Remember, Done, Requests
    <3>4. CASE r.result # 0
      <4>1. Put(Purge(table), s, r.result, e) \in [Keys -> Entry \cup {NoCursor}]
        BY <1>4, <3>2, <3>4 DEF Put, Keys
      <4>2. table' = Forget(Put(Purge(table), s, r.result, e), s, r.old \ {r.result})
        BY <2>13, <3>4 DEF Remember
      <4>3. table' \in [Keys -> Entry \cup {NoCursor}]
        BY <4>1, <4>2, <1>5
      <4> QED
        BY <2>13, <4>3, <1>3 DEF Remember, Done, Requests
    <3> QED
      BY <3>3, <3>4
  <2>14. CASE RememberRefused(c)
    BY <2>14, <1>2, <1>4 DEF RememberRefused
  <2>15. CASE ReplyFailed(c)
    BY <2>15, <1>3 DEF ReplyFailed, Done, Requests
  <2>16. CASE ForgetSessions(c)
    <3>1. table' \in [Keys -> Entry \cup {NoCursor}]
      BY <2>16 DEF ForgetSessions
    <3> QED
      BY <2>16, <3>1, <1>3 DEF ForgetSessions, Done, Requests
  <2>17. ASSUME NEW i \in Ids, ForgetOne(c, i) PROVE TypeOK'
    <3>1. table' \in [Keys -> Entry \cup {NoCursor}]
      BY <2>17, <1>5 DEF ForgetOne
    <3>2. req[c] \in [stage : {"forget"}, gone : SUBSET Ids]
      BY <2>17, Shape DEF ForgetOne
    <3>3. [req[c] EXCEPT !.gone = @ \ {i}] \in Requests
      BY <3>2 DEF Requests, Replied
    <3> QED
      BY <2>17, <3>1, <3>3, <1>3 DEF ForgetOne, Done, Requests
  <2> QED
    BY <1>6, <2>1, <2>2, <2>3, <2>4, <2>5, <2>6, <2>7, <2>8, <2>9, <2>10, <2>11, <2>12,
       <2>13, <2>14, <2>15, <2>16, <2>17 DEF Handler
<1>7. ASSUME NEW c \in Conns, BackendOpen(c) PROVE TypeOK'
  <2> DEFINE r == req[c]
             b == BackendOf[scope[c]]
  <2>1. r \in OpenReq
    BY <1>7, Shape DEF BackendOpen
  <2>2. b \in Backends /\ nextId[b] \in 1 .. MaxId + 1
    BY DEF Backends
  <2>3. [scope |-> scope[c], ns |-> r.ns, cmd |-> r.public, ses |-> r.ses] \in Origin
    BY <2>1 DEF Origin, OpenReq
  <2>4. ASSUME NEW i \in Ids \cup {0}
        PROVE  [stage |-> "cursor", result |-> i, old |-> {}, ns |-> r.ns,
                ses |-> r.ses, public |-> r.public] \in Requests
    BY <2>1 DEF OpenReq, Requests, Replied
  <2>5. req' \in [Conns -> Requests]
    <3>1. PICK i \in Ids \cup {0} :
            Answer(c, [stage |-> "cursor", result |-> i, old |-> {}, ns |-> r.ns,
                       ses |-> r.ses, public |-> r.public])
      BY <1>7 DEF BackendOpen
    <3> QED
      BY <2>4, <3>1 DEF Answer
  <2>10. UNCHANGED <<clients, table>>
    BY <1>7 DEF BackendOpen
  <2>6. CASE UNCHANGED servers
    BY <2>5, <2>6, <2>10
  <2>7. CASE ~UNCHANGED servers
    <3> DEFINE i == nextId[b]
               o == [scope |-> scope[c], ns |-> r.ns, cmd |-> r.public, ses |-> r.ses]
    <3>1. /\ i \in Ids
          /\ live' = [live EXCEPT ![b] = @ \cup {i}]
          /\ nextId' = [nextId EXCEPT ![b] = i + 1]
          /\ opener' = [opener EXCEPT ![b][i] = o]
      BY <1>7, <2>7 DEF BackendOpen
    <3>2. i + 1 \in 1 .. MaxId + 1
      BY <3>1, LimitsAssumption DEF Ids
    <3> HIDE DEF i, o
    <3>3. live' \in [Backends -> SUBSET Ids] /\ nextId' \in [Backends -> 1 .. MaxId + 1]
      BY <2>2, <3>1, <3>2
    <3>4. o \in Origin
      BY <2>3 DEF o
    <3>5. opener[b] \in [Ids -> Origin \cup {NoCursor}]
      BY <2>2
    <3>6. [opener[b] EXCEPT ![i] = o] \in [Ids -> Origin \cup {NoCursor}]
      BY <3>4, <3>5
    <3>7. opener' = [opener EXCEPT ![b] = [opener[b] EXCEPT ![i] = o]]
      BY <3>1
    <3>8. opener' \in [Backends -> [Ids -> Origin \cup {NoCursor}]]
      BY <2>2, <3>6, <3>7
    <3> QED
      BY <2>5, <2>10, <3>3, <3>8
  <2> QED
    BY <2>6, <2>7
<1>8. ASSUME NEW c \in Conns, BackendGetMore(c) PROVE TypeOK'
  <2> DEFINE r == req[c]
             b == BackendOf[scope[c]]
  <2>1. r \in UseReq /\ r.op = "getMore"
    BY <1>8, Shape DEF BackendGetMore
  <2>2. r.public \in OpenKinds /\ r.ids \in SUBSET Ids
        /\ r.ns \in Namespaces /\ r.ses \in Sessions
    BY <2>1 DEF UseReq
  <2>3. ASSUME NEW i \in Ids \cup {0}
        PROVE  [stage |-> "cursor", result |-> i, old |-> r.ids, ns |-> r.ns,
                ses |-> r.ses, public |-> r.public] \in Requests
    BY <2>2 DEF Requests, Replied
  <2>4. [stage |-> "failed", ids |-> r.ids] \in Requests
        /\ [stage |-> "forget", gone |-> r.ids] \in Requests
    BY <2>2 DEF Requests, Replied
  <2>5. \/ \E i \in r.ids \cup {0} :
             /\ Answer(c, [stage |-> "cursor", result |-> i, old |-> r.ids, ns |-> r.ns,
                           ses |-> r.ses, public |-> r.public])
             /\ live' = [live EXCEPT ![b] = IF i = 0 THEN @ \ r.ids ELSE @]
        \/ Answer(c, [stage |-> "failed", ids |-> r.ids]) /\ UNCHANGED live
        \/ Answer(c, [stage |-> "forget", gone |-> r.ids]) /\ UNCHANGED live
    BY <1>8 DEF BackendGetMore
  <2>6. UNCHANGED <<clients, table, nextId, opener>>
    BY <1>8 DEF BackendGetMore
  <2> HIDE DEF r, b
  <2>7. req' \in [Conns -> Requests]
    BY <2>2, <2>3, <2>4, <2>5 DEF Answer
  <2>8. live' \in [Backends -> SUBSET Ids]
    <3>1. live \in [Backends -> SUBSET Ids]
      BY DEF TypeOK
    <3>2. live' = live \/ \E i \in r.ids \cup {0} :
            live' = [live EXCEPT ![b] = IF i = 0 THEN @ \ r.ids ELSE @]
      BY <2>5
    <3> QED
      BY <3>1, <3>2
  <2> QED
    BY <2>6, <2>7, <2>8
<1>9. ASSUME NEW c \in Conns, BackendKill(c) PROVE TypeOK'
  <2>1. req[c].ids \in SUBSET Ids
    BY <1>9, Shape DEF BackendKill, UseReq
  <2>2. req' \in [Conns -> Requests]
    BY <1>9, <2>1 DEF BackendKill, Answer, Requests, Replied
  <2> QED
    BY <1>9, <2>2 DEF BackendKill
<1>10. ASSUME NEW c \in Conns, BackendEnd(c) PROVE TypeOK'
  <2>1. req[c].ends \in SUBSET Sessions
    BY <1>10, Shape DEF BackendEnd, EndReq
  <2>2. req' \in [Conns -> Requests]
    BY <1>10, <2>1 DEF BackendEnd, Answer, Requests, Replied
  <2> QED
    BY <1>10, <2>2 DEF BackendEnd
<1>11. ASSUME NEW b \in Backends, NEW i \in Ids, BackendDrop(b, i) PROVE TypeOK'
  BY <1>11 DEF BackendDrop
<1>12. CASE Tick
  <2>1. ASSUME NEW k \in Keys, table[k] # NoCursor, ~Expired(table[k])
        PROVE  [table[k] EXCEPT !.age = @ + 1] \in Entry
    <3>1. table[k] \in Entry /\ table[k].age \in 0 .. Lifetime
      BY <2>1, LimitsAssumption DEF Entry, Expired
    <3> QED
      BY <3>1, LimitsAssumption DEF Entry
  <2>2. table' \in [Keys -> Entry \cup {NoCursor}]
    BY <1>12, <2>1 DEF Tick
  <2> QED
    BY <1>12, <2>2 DEF Tick
<1>13. CASE Restart
  BY <1>13 DEF Restart, Requests
<1>14. CASE UNCHANGED vars
  BY <1>14 DEF vars
<1> QED
  BY <1>6, <1>7, <1>8, <1>9, <1>10, <1>11, <1>12, <1>13, <1>14 DEF Next, Backend

LEMMA TypeInit == Init => TypeOK
BY LimitsAssumption DEF Init, TypeOK, Requests, Ids

\* Every variable keeps its type (handleMongo, execute and the cursor table).
THEOREM TypeCorrect == Spec => []TypeOK
BY TypeInit, TypeStep, PTL DEF Spec

-----------------------------------------------------------------------------
(* Authentication.                                                         *)

Authed ==
  \A c \in Conns :
    /\ phase[c] # "serving" => sasl[c] = "none" /\ req[c] = NoReq
    /\ req[c] # NoReq => sasl[c] = "authed"
    /\ sasl[c] \in {"proved", "authed"} => knows[c]

LEMMA AuthedStep == TypeOK /\ Authed /\ [Next]_vars => Authed'
<1> SUFFICES ASSUME TypeOK, Authed, [Next]_vars PROVE Authed'
  OBVIOUS
<1> USE DEF Authed, clients, servers
<1>1. ASSUME NEW c \in Conns, NEW r, Start(c, r) PROVE Authed'
  BY <1>1 DEF Start, Idle, TypeOK
<1>2. ASSUME NEW c \in Conns, Leave(c) PROVE Authed'
  BY <1>2 DEF Leave, TypeOK
<1>3. ASSUME NEW c \in Conns, NEW r, req[c] # NoReq, req' = [req EXCEPT ![c] = r],
             UNCHANGED clients
      PROVE  Authed'
  BY <1>3 DEF TypeOK
<1>4. ASSUME NEW c \in Conns, Handler(c) PROVE Authed'
  <2>1. ASSUME NEW s \in Scopes, NEW k \in BOOLEAN, Accept(c, s, k) PROVE Authed'
    BY <2>1 DEF Accept, TypeOK
  <2>2. CASE Greet(c)
    BY <2>2 DEF Greet, TypeOK
  <2>3. ASSUME NEW b \in BOOLEAN, SaslStart(c, b) PROVE Authed'
    BY <2>3 DEF SaslStart, Idle, TypeOK
  <2>4. CASE SaslProof(c)
    BY <2>4 DEF SaslProof, Idle, TypeOK
  <2>5. CASE SaslAck(c)
    BY <2>5 DEF SaslAck, Idle, TypeOK
  <2>6. CASE Close(c) \/ BackendFails(c) \/ RememberRefused(c)
    BY <2>6, <1>2 DEF Close, BackendFails, RememberRefused
  <2>7. CASE Refuse(c)
    BY <2>7, <1>3 DEF Refuse
  <2>8. CASE Remember(c) \/ ReplyFailed(c) \/ ForgetSessions(c)
    BY <2>8, <1>3 DEF Remember, ReplyFailed, ForgetSessions, Done
  <2>9. ASSUME NEW i \in Ids, ForgetOne(c, i) PROVE Authed'
    <3>1. PICK r : req' = [req EXCEPT ![c] = r]
      BY <2>9 DEF ForgetOne, Done
    <3> QED
      BY <2>9, <3>1, <1>3 DEF ForgetOne, Done
  <2>10. ASSUME NEW ns \in Namespaces, NEW ses \in Sessions, NEW kind \in OpenKinds,
                Open(c, kind, ns, ses)
         PROVE  Authed'
    BY <2>10, <1>1 DEF Open
  <2>11. ASSUME NEW ns \in Namespaces, NEW ses \in Sessions, NEW i \in Ids,
                GetMore(c, i, ns, ses)
         PROVE  Authed'
    BY <2>11, <1>1 DEF GetMore
  <2>12. ASSUME NEW ns \in Namespaces, NEW ses \in Sessions, NEW S \in SUBSET Ids,
                KillCursors(c, S, ns, ses)
         PROVE  Authed'
    BY <2>12, <1>1 DEF KillCursors
  <2>13. ASSUME NEW T \in SUBSET Sessions, EndSessions(c, T) PROVE Authed'
    BY <2>13, <1>1 DEF EndSessions
  <2> QED
    BY <1>4, <2>1, <2>2, <2>3, <2>4, <2>5, <2>6, <2>7, <2>8, <2>9, <2>10, <2>11, <2>12,
       <2>13 DEF Handler
<1>5. ASSUME NEW c \in Conns, BackendOpen(c) \/ BackendGetMore(c) \/ BackendKill(c) \/ BackendEnd(c)
      PROVE  Authed'
  <2>1. PICK r : req' = [req EXCEPT ![c] = r]
    BY <1>5 DEF BackendOpen, BackendGetMore, BackendKill, BackendEnd, Answer
  <2>2. req[c] # NoReq /\ UNCHANGED clients
    BY <1>5 DEF BackendOpen, BackendGetMore, BackendKill, BackendEnd
  <2> QED
    BY <2>1, <2>2, <1>3
<1>6. CASE Tick \/ (\E b \in Backends, i \in Ids : BackendDrop(b, i)) \/ UNCHANGED vars
  BY <1>6 DEF Tick, BackendDrop, vars
<1>7. CASE Restart
  BY <1>7 DEF Restart
<1> QED
  BY <1>4, <1>5, <1>6, <1>7 DEF Next, Backend

\* Whatever the order of its messages, no client that did not prove the token of its
\* connection gets a request as far as the backend (handleMongo).
THEOREM AuthFirstAlways == Spec => []AuthFirst
<1>1. Init => Authed
  BY DEF Init, Authed
<1>2. TypeOK /\ Authed => AuthFirst
  BY DEF Authed, AuthFirst
<1> QED
  BY <1>1, <1>2, TypeCorrect, AuthedStep, PTL DEF Spec

-----------------------------------------------------------------------------
(* The limits of the cursor table.                                         *)

Within(K) ==
  /\ \A s \in Scopes : Cardinality(Of(s, K)) <= ScopeLimit
  /\ Cardinality(K) <= GlobalLimit

LEMMA Finite == \A K \in SUBSET Keys : IsFiniteSet(K) /\ Cardinality(K) \in Nat
<1>1. IsFiniteSet(Ids)
  BY FS_Interval, LimitsAssumption DEF Ids
<1>2. IsFiniteSet(Keys)
  BY <1>1, FS_Product, ScopesAssumption DEF Keys
<1> QED
  BY <1>2, FS_Subset, FS_CardinalityType

\* Fewer entries are within the limits.
LEMMA FewerWithin ==
  ASSUME NEW K \in SUBSET Keys, Within(K), NEW L \in SUBSET K
  PROVE  Within(L)
<1>1. \A A, B \in SUBSET Keys : A \subseteq B => Cardinality(A) <= Cardinality(B)
  BY Finite, FS_Subset
<1>2. \A s \in Scopes : Of(s, L) \subseteq Of(s, K)
  BY DEF Of
<1>3. \A s \in Scopes : Of(s, K) \in SUBSET Keys /\ Of(s, L) \in SUBSET Keys
  BY DEF Of
<1> QED
  BY <1>1, <1>2, <1>3, Finite, LimitsAssumption DEF Within

\* An entry that is not refused fits (remember).
LEMMA OneMoreWithin ==
  ASSUME NEW K \in SUBSET Keys, Within(K), NEW s \in Scopes, NEW i \in Ids,
         \/ <<s, i>> \in K
         \/ Cardinality(Of(s, K)) < ScopeLimit /\ Cardinality(K) < GlobalLimit
  PROVE  Within(K \cup {<<s, i>>})
<1> DEFINE k == <<s, i>>
<1>1. CASE k \in K
  <2>1. K \cup {k} = K
    BY <1>1
  <2> QED
    BY <2>1
<1>2. CASE k \notin K
  <2>1. Cardinality(Of(s, K)) < ScopeLimit /\ Cardinality(K) < GlobalLimit
    BY <1>2
  <2>2. Cardinality(K \cup {k}) = Cardinality(K) + 1
    BY <1>2, Finite, FS_AddElement
  <2>3. Of(s, K) \in SUBSET Keys /\ k \notin Of(s, K)
    BY <1>2 DEF Of
  <2>4. Of(s, K \cup {k}) = Of(s, K) \cup {k}
    BY DEF Of
  <2>5. Cardinality(Of(s, K \cup {k})) = Cardinality(Of(s, K)) + 1
    BY <2>3, <2>4, Finite, FS_AddElement
  <2>6. \A u \in Scopes \ {s} : Of(u, K \cup {k}) = Of(u, K)
    BY DEF Of
  <2>7. Cardinality(K) \in Nat /\ Cardinality(Of(s, K)) \in Nat
    BY <2>3, Finite
  <2> HIDE DEF k
  <2>8. ScopeLimit \in Nat /\ GlobalLimit \in Nat
    BY LimitsAssumption
  <2>9. Cardinality(Of(s, K \cup {k})) <= ScopeLimit
    BY <2>1, <2>5, <2>7, <2>8
  <2>10. Cardinality(K \cup {k}) <= GlobalLimit
    BY <2>1, <2>2, <2>7, <2>8
  <2>11. \A u \in Scopes : Cardinality(Of(u, K \cup {k})) <= ScopeLimit
    BY <2>6, <2>9 DEF Within
  <2> QED
    BY <2>10, <2>11 DEF Within, k
<1> QED
  BY <1>1, <1>2

LEMMA LimitsStep == TypeOK /\ WithinLimits /\ [Next]_vars => WithinLimits'
<1> SUFFICES ASSUME TypeOK, WithinLimits, [Next]_vars PROVE WithinLimits'
  OBVIOUS
<1>1. Within(Known(table)) /\ Known(table) \in SUBSET Keys
  BY DEF WithinLimits, Within, Known
<1>2. SUFFICES Within(Known(table'))
  BY DEF WithinLimits, Within
<1>3. ASSUME Known(table') \subseteq Known(table) PROVE Within(Known(table'))
  BY <1>1, <1>3, FewerWithin
<1>4. Known(Purge(table)) \subseteq Known(table)
  BY DEF Known, Purge
<1>5. ASSUME NEW s, NEW S, table' = Forget(table, s, S) PROVE Within(Known(table'))
  BY <1>3, <1>5 DEF Known, Forget
<1>6. ASSUME NEW c \in Conns, Handler(c) PROVE Within(Known(table'))
  <2>1. CASE Remember(c)
    <3> DEFINE r == req[c]
               s == scope[c]
               e == [ns |-> r.ns, cmd |-> r.public, ses |-> r.ses, age |-> 0]
               t == Purge(table)
               u == Put(t, s, r.result, e)
    <3>1. r.result \in Ids \cup {0} /\ s \in Scopes
      BY <2>1, Shape DEF Remember, TypeOK
    <3>2. CASE r.result = 0
      BY <2>1, <3>2, <1>5 DEF Remember
    <3>3. CASE r.result # 0
      <4>1. ~Refuses(t, s, r.result)
            /\ table' = Forget(u, s, r.old \ {r.result})
        BY <2>1, <3>3 DEF Remember
      <4>2. Within(Known(t)) /\ Known(t) \in SUBSET Keys
        BY <1>1, <1>4, FewerWithin
      <4>3. \/ <<s, r.result>> \in Known(t)
            \/ Cardinality(Of(s, Known(t))) < ScopeLimit /\ Cardinality(Known(t)) < GlobalLimit
        <5>1. <<s, r.result>> \in Keys
          BY <3>1, <3>3 DEF Keys
        <5>2. Cardinality(Known(t)) \in Nat /\ Cardinality(Of(s, Known(t))) \in Nat
          <6>1. Of(s, Known(t)) \in SUBSET Keys
            BY <4>2 DEF Of
          <6> QED
            BY <4>2, <6>1, Finite
        <5> QED
          <6>1. t[<<s, r.result>>] = NoCursor => ~Full(t, s)
            BY <4>1 DEF Refuses
          <6>2. t[<<s, r.result>>] # NoCursor => <<s, r.result>> \in Known(t)
            BY <5>1 DEF Known
          <6> QED
            BY <5>2, <6>1, <6>2, LimitsAssumption DEF Full
      <4>4. Within(Known(t) \cup {<<s, r.result>>})
        BY <4>2, <4>3, <3>1, <3>3, OneMoreWithin
      <4>5. Known(table') \subseteq Known(t) \cup {<<s, r.result>>}
        BY <4>1 DEF Known, Forget, Put, Purge
      <4>6. Known(t) \cup {<<s, r.result>>} \in SUBSET Keys
        BY <4>2, <3>1, <3>3 DEF Keys
      <4> QED
        BY <4>4, <4>5, <4>6, FewerWithin
    <3> QED
      BY <3>2, <3>3
  <2>2. CASE RememberRefused(c)
    BY <2>2, <1>3, <1>4 DEF RememberRefused
  <2>3. CASE ForgetSessions(c)
    BY <2>3, <1>3 DEF ForgetSessions, Known
  <2>4. ASSUME NEW i \in Ids, ForgetOne(c, i) PROVE Within(Known(table'))
    BY <2>4, <1>5 DEF ForgetOne
  <2>5. CASE UNCHANGED table
    BY <2>5, <1>1
  <2> QED
    BY <1>6, <2>1, <2>2, <2>3, <2>4, <2>5 DEF Handler, Accept, Greet, Close, SaslStart, SaslProof,
       SaslAck, Open, GetMore, KillCursors, EndSessions, Start, Refuse, BackendFails, ReplyFailed
<1>7. CASE Backend
  <2>1. UNCHANGED table
    BY <1>7 DEF Backend, BackendOpen, BackendGetMore, BackendKill, BackendEnd, BackendDrop
  <2> QED
    BY <2>1, <1>1
<1>8. CASE Tick
  <2>1. Known(table') \subseteq Known(table)
    BY <1>8 DEF Tick, Known
  <2> QED
    BY <2>1, <1>3
<1>9. CASE Restart
  <2>1. Known(table') \subseteq Known(table)
    BY <1>9 DEF Restart, Known
  <2> QED
    BY <2>1, <1>3
<1>10. CASE UNCHANGED vars
  BY <1>10, <1>1 DEF vars
<1> QED
  BY <1>6, <1>7, <1>8, <1>9, <1>10 DEF Next

\* The cursor table never holds more than its limits, however many handlers record
\* replies at the same time and whatever expires (remember).
THEOREM WithinLimitsAlways == Spec => []WithinLimits
<1>1. Init => WithinLimits
  <2> SUFFICES ASSUME Init PROVE WithinLimits
    OBVIOUS
  <2>1. Known(table) = {} /\ \A s \in Scopes : Of(s, Known(table)) = {}
    BY DEF Init, Known, Of
  <2> QED
    BY <2>1, FS_EmptySet, LimitsAssumption DEF WithinLimits
<1> QED
  BY <1>1, TypeCorrect, LimitsStep, PTL DEF Spec

-----------------------------------------------------------------------------
(* Cursors: whatever handlers interleave between the check of ownership,   *)
(* the command and the reply.                                              *)

\* The backend's record op says that cursor i was opened in scope s as entry e says.
EntryFits(op, s, i, e) ==
  LET o == op[BackendOf[s]][i] IN
  o # NoCursor /\ o = [scope |-> s, ns |-> e.ns, cmd |-> e.cmd, ses |-> e.ses]

\* The request r of a connection of scope s is about cursors that belong to it.
ReqFits(op, s, r) ==
  /\ r.stage = "checked" /\ r.op \in {"getMore", "killCursors"} =>
       \A i \in r.ids :
         LET o == op[BackendOf[s]][i] IN
         /\ o # NoCursor /\ o.scope = s /\ o.ns = r.ns /\ o.ses = r.ses
         /\ r.op = "getMore" => o = [scope |-> s, ns |-> r.ns, cmd |-> r.public, ses |-> r.ses]
  /\ r.stage = "cursor" /\ r.result # 0 =>
       EntryFits(op, s, r.result, [ns |-> r.ns, cmd |-> r.public, ses |-> r.ses])

Cursors ==
  /\ \A k \in Keys : table[k] # NoCursor => EntryFits(opener, k[1], k[2], table[k])
  /\ \A c \in Conns : req[c] # NoReq => ReqFits(opener, scope[c], req[c])
  /\ \A b \in Backends, i \in Ids : i >= nextId[b] => opener[b][i] = NoCursor

\* A backend's record of a cursor is never rewritten.
Kept == \A b \in Backends, i \in Ids : opener[b][i] # NoCursor => opener'[b][i] = opener[b][i]

LEMMA FitsKept ==
  ASSUME TypeOK, Kept
  PROVE  /\ \A s \in Scopes, i \in Ids : \A e :
              EntryFits(opener, s, i, e) => EntryFits(opener', s, i, e)
         /\ \A s \in Scopes, r \in Requests :
              r # NoReq /\ ReqFits(opener, s, r) => ReqFits(opener', s, r)
<1>1. \A s \in Scopes : BackendOf[s] \in Backends
  BY DEF Backends
<1>2. \A s \in Scopes, i \in Ids : \A e :
        EntryFits(opener, s, i, e) => EntryFits(opener', s, i, e)
  BY <1>1 DEF Kept, EntryFits
<1>3. ASSUME NEW s \in Scopes, NEW r \in Requests, r # NoReq, ReqFits(opener, s, r)
      PROVE  ReqFits(opener', s, r)
  <2>1. CASE r.stage = "checked" /\ r.op \in {"getMore", "killCursors"}
    <3>1. ASSUME NEW i \in r.ids
          PROVE  /\ opener[BackendOf[s]][i] # NoCursor
                 /\ opener'[BackendOf[s]][i] = opener[BackendOf[s]][i]
      <4>1. r.ids \in SUBSET Ids
        BY <1>3, <2>1, Shape DEF UseReq
      <4>2. opener[BackendOf[s]][i] # NoCursor
        BY <1>3, <2>1 DEF ReqFits
      <4> QED
        BY <1>1, <4>1, <4>2 DEF Kept
    <3> QED
      BY <1>3, <2>1, <3>1 DEF ReqFits
  <2>2. CASE r.stage = "cursor" /\ r.result # 0
    <3>1. r.result \in Ids
      BY <1>3, <2>2, Shape
    <3>2. EntryFits(opener, s, r.result, [ns |-> r.ns, cmd |-> r.public, ses |-> r.ses])
      BY <1>3, <2>2 DEF ReqFits
    <3>3. EntryFits(opener', s, r.result, [ns |-> r.ns, cmd |-> r.public, ses |-> r.ses])
      BY <1>2, <3>1, <3>2
    <3> QED
      BY <2>2, <3>3 DEF ReqFits
  <2> QED
    BY <2>1, <2>2 DEF ReqFits
<1> QED
  BY <1>2, <1>3

\* Most steps leave the backends' records alone: what is left is what they do to the
\* table and to the requests.
LEMMA SameRecords ==
  ASSUME TypeOK, Cursors, UNCHANGED <<nextId, opener>>,
         \A k \in Keys : \/ table'[k] = NoCursor
                         \/ table[k] # NoCursor /\ table'[k] = table[k]
                         \/ EntryFits(opener, k[1], k[2], table'[k]),
         \A c \in Conns : \/ req'[c] = NoReq
                          \/ req'[c] = req[c] /\ scope'[c] = scope[c]
                          \/ ReqFits(opener, scope'[c], req'[c])
  PROVE  Cursors'
BY DEF Cursors

\* A step that only drops entries, or renews their age, keeps the table right.
Thinner == \A k \in Keys :
  \/ table'[k] = NoCursor
  \/ /\ table[k] # NoCursor /\ table'[k].ns = table[k].ns
     /\ table'[k].cmd = table[k].cmd /\ table'[k].ses = table[k].ses

LEMMA ThinnerFits ==
  ASSUME Cursors, Thinner
  PROVE  \A k \in Keys : \/ table'[k] = NoCursor
                         \/ EntryFits(opener, k[1], k[2], table'[k])
BY DEF Cursors, Thinner, EntryFits

LEMMA CursorsStep == TypeOK /\ Authed /\ Cursors /\ [Next]_vars => Cursors'
<1> SUFFICES ASSUME TypeOK, Authed, Cursors, [Next]_vars PROVE Cursors'
  OBVIOUS
<1> USE DEF clients, servers
<1>1. ASSUME NEW c \in Conns, NEW r, Start(c, r), ReqFits(opener, scope[c], r) PROVE Cursors'
  BY <1>1, SameRecords DEF Start, TypeOK
<1>2. ASSUME NEW c \in Conns, Leave(c), Thinner, UNCHANGED servers PROVE Cursors'
  BY <1>2, SameRecords, ThinnerFits DEF Leave, TypeOK
<1>3. ASSUME NEW c \in Conns, NEW r, req' = [req EXCEPT ![c] = r],
             r = NoReq \/ ReqFits(opener, scope[c], r),
             UNCHANGED clients, Thinner, UNCHANGED <<nextId, opener>>
      PROVE  Cursors'
  BY <1>3, SameRecords, ThinnerFits DEF TypeOK
<1>4. UNCHANGED table => Thinner
  BY DEF Thinner
<1>5. ASSUME UNCHANGED <<req, table, servers, scope>> PROVE Cursors'
  BY <1>5 DEF Cursors
<1>6. ASSUME NEW s, NEW S, table' = Forget(table, s, S) PROVE Thinner
  BY <1>6 DEF Forget, Thinner
<1>7. ASSUME NEW c \in Conns, Handler(c) PROVE Cursors'
  <2>1. ASSUME NEW s \in Scopes, NEW k \in BOOLEAN, Accept(c, s, k) PROVE Cursors'
    <3>1. req[c] = NoReq
      BY <2>1 DEF Accept, Authed
    <3> QED
      BY <2>1, <3>1, SameRecords DEF Accept, TypeOK
  <2>2. CASE Greet(c) \/ SaslProof(c) \/ SaslAck(c) \/ \E b \in BOOLEAN : SaslStart(c, b)
    BY <2>2, <1>5 DEF Greet, SaslProof, SaslAck, SaslStart
  <2>3. CASE Close(c) \/ BackendFails(c)
    BY <2>3, <1>2, <1>4 DEF Close, BackendFails
  <2>4. CASE RememberRefused(c)
    <3>1. Thinner
      BY <2>4 DEF RememberRefused, Purge, Thinner
    <3> QED
      BY <2>4, <3>1, <1>2 DEF RememberRefused
  <2>5. CASE Refuse(c) \/ ReplyFailed(c)
    BY <2>5, <1>3, <1>4 DEF Refuse, ReplyFailed, Done
  <2>6. CASE ForgetSessions(c)
    <3>1. Thinner
      BY <2>6 DEF ForgetSessions, Thinner
    <3> QED
      BY <2>6, <3>1, <1>3 DEF ForgetSessions, Done
  <2>7. ASSUME NEW i \in Ids, ForgetOne(c, i) PROVE Cursors'
    <3>1. PICK r : req' = [req EXCEPT ![c] = r] /\ (r = NoReq \/ r = [req[c] EXCEPT !.gone = @ \ {i}])
      BY <2>7 DEF ForgetOne, Done
    <3>2. req[c] \in [stage : {"forget"}, gone : SUBSET Ids]
      BY <2>7, Shape DEF ForgetOne, TypeOK
    <3>3. r = NoReq \/ ReqFits(opener, scope[c], r)
      BY <3>1, <3>2 DEF ReqFits
    <3> QED
      BY <2>7, <3>1, <3>3, <1>3, <1>6 DEF ForgetOne, Done
  <2>8. ASSUME NEW ns \in Namespaces, NEW ses \in Sessions, NEW kind \in OpenKinds,
               Open(c, kind, ns, ses)
        PROVE  Cursors'
    BY <2>8, <1>1 DEF Open, ReqFits
  <2>9. ASSUME NEW s \in Scopes, NEW i \in Ids, NEW ns, NEW ses, Owns(table, s, i, ns, ses)
        PROVE  /\ EntryFits(opener, s, i, table[<<s, i>>])
               /\ table[<<s, i>>].ns = ns /\ table[<<s, i>>].ses = ses
    BY <2>9 DEF Owns, Cursors, Keys
  <2>10. ASSUME NEW ns \in Namespaces, NEW ses \in Sessions, NEW i \in Ids,
                GetMore(c, i, ns, ses)
         PROVE  Cursors'
    <3> DEFINE e == table[<<scope[c], i>>]
               r == [op |-> "getMore", stage |-> "checked", ids |-> {i}, ns |-> ns,
                     ses |-> ses, public |-> e.cmd]
    <3>1. Start(c, r) /\ Owns(table, scope[c], i, ns, ses) /\ scope[c] \in Scopes
      BY <2>10 DEF GetMore, TypeOK
    <3>2. EntryFits(opener, scope[c], i, e) /\ e.ns = ns /\ e.ses = ses
      BY <2>9, <3>1
    <3>3. /\ opener[BackendOf[scope[c]]][i] # NoCursor
          /\ opener[BackendOf[scope[c]]][i]
               = [scope |-> scope[c], ns |-> ns, cmd |-> e.cmd, ses |-> ses]
      BY <3>2 DEF EntryFits
    <3> HIDE DEF e
    <3>4. ReqFits(opener, scope[c], r)
      BY <3>3 DEF ReqFits
    <3> HIDE DEF r
    <3> QED
      BY <1>1, <3>1, <3>4
  <2>11. ASSUME NEW ns \in Namespaces, NEW ses \in Sessions, NEW S \in SUBSET Ids,
                KillCursors(c, S, ns, ses)
         PROVE  Cursors'
    <3> DEFINE r == [op |-> "killCursors", stage |-> "checked", ids |-> S, ns |-> ns,
                     ses |-> ses, public |-> "killCursors"]
    <3>1. Start(c, r) /\ scope[c] \in Scopes
      BY <2>11 DEF KillCursors, TypeOK
    <3>2. ASSUME NEW i \in S
          PROVE  LET o == opener[BackendOf[scope[c]]][i] IN
                 o # NoCursor /\ o.scope = scope[c] /\ o.ns = ns /\ o.ses = ses
      <4>1. Owns(table, scope[c], i, ns, ses)
        BY <2>11 DEF KillCursors
      <4>2. EntryFits(opener, scope[c], i, table[<<scope[c], i>>])
            /\ table[<<scope[c], i>>].ns = ns /\ table[<<scope[c], i>>].ses = ses
        BY <2>9, <3>1, <4>1
      <4> QED
        BY <4>2 DEF EntryFits
    <3>3. ReqFits(opener, scope[c], r)
      BY <3>2 DEF ReqFits
    <3> QED
      BY <1>1, <3>1, <3>3
  <2>12. ASSUME NEW T \in SUBSET Sessions, EndSessions(c, T) PROVE Cursors'
    BY <2>12, <1>1 DEF EndSessions, ReqFits
  <2>13. CASE Remember(c)
    <3> DEFINE r == req[c]
               s == scope[c]
               e == [ns |-> r.ns, cmd |-> r.public, ses |-> r.ses, age |-> 0]
               u == Put(Purge(table), s, r.result, e)
    <3>1. CASE r.result = 0
      <4>1. Thinner
        BY <2>13, <3>1, <1>6 DEF Remember
      <4> QED
        BY <2>13, <4>1, <1>3 DEF Remember, Done
    <3>2. CASE r.result # 0
      <4>1. EntryFits(opener, s, r.result, e)
        BY <2>13, <3>2 DEF Remember, Cursors, ReqFits, EntryFits
      <4>2. table' = Forget(u, s, r.old \ {r.result})
        BY <2>13, <3>2 DEF Remember
      <4>3. ASSUME NEW k \in Keys
            PROVE  u[k] = NoCursor \/ u[k] = table[k] \/ (k = <<s, r.result>> /\ u[k] = e)
        BY DEF Put, Purge
      <4>4. ASSUME NEW k \in Keys
            PROVE  table'[k] = NoCursor \/ table'[k] = u[k]
        BY <4>2, <4>3 DEF Forget
      <4> HIDE DEF u, e
      <4>5. ASSUME NEW k \in Keys
            PROVE  \/ table'[k] = NoCursor
                   \/ table[k] # NoCursor /\ table'[k] = table[k]
                   \/ EntryFits(opener, k[1], k[2], table'[k])
        BY <4>1, <4>3, <4>4
      <4> QED
        BY <2>13, <4>5, SameRecords DEF Remember, Done, TypeOK
    <3> QED
      BY <3>1, <3>2
  <2> QED
    BY <1>7, <2>1, <2>2, <2>3, <2>4, <2>5, <2>6, <2>7, <2>8, <2>10, <2>11, <2>12, <2>13
       DEF Handler
<1>8. ASSUME NEW c \in Conns, BackendOpen(c) PROVE Cursors'
  <2> DEFINE r == req[c]
             b == BackendOf[scope[c]]
             o == [scope |-> scope[c], ns |-> r.ns, cmd |-> r.public, ses |-> r.ses]
             ans(i) == [stage |-> "cursor", result |-> i, old |-> {}, ns |-> r.ns,
                        ses |-> r.ses, public |-> r.public]
  <2>1. r \in OpenReq /\ UNCHANGED <<clients, table>>
    BY <1>8, Shape DEF BackendOpen, TypeOK
  <2>2. CASE UNCHANGED servers /\ Answer(c, ans(0))
    <3>1. ReqFits(opener, scope[c], ans(0))
      BY DEF ReqFits
    <3> QED
      BY <1>3, <1>4, <2>1, <2>2, <3>1 DEF Answer
  <2>3. ASSUME nextId[b] \in Ids, Answer(c, ans(nextId[b])),
               nextId' = [nextId EXCEPT ![b] = @ + 1],
               opener' = [opener EXCEPT ![b][nextId[b]] = o]
        PROVE  Cursors'
    <3> DEFINE i == nextId[b]
    <3>1. b \in Backends /\ i \in Ids /\ o # NoCursor
      <4>1. o \in Origin
        BY <2>1 DEF Origin, OpenReq, TypeOK
      <4> QED
        BY <2>3, <4>1, SentinelsAssumption DEF TypeOK, Backends
    <3>2. opener[b][i] = NoCursor
      BY <3>1, LimitsAssumption DEF Cursors, Ids
    <3>3. opener'[b][i] = o
      BY <2>3, <3>1 DEF TypeOK
    <3>4. ASSUME NEW d \in Backends, NEW j \in Ids, d # b \/ j # i
          PROVE  opener'[d][j] = opener[d][j]
      BY <2>3, <3>1, <3>4 DEF TypeOK
    <3>5. nextId'[b] = i + 1 /\ \A d \in Backends \ {b} : nextId'[d] = nextId[d]
      BY <2>3, <3>1 DEF TypeOK
    <3>6. Kept
      BY <3>2, <3>4 DEF Kept
    <3>7. ReqFits(opener', scope[c], ans(i))
      BY <3>1, <3>3 DEF ReqFits, EntryFits
    <3>8. req' = [req EXCEPT ![c] = ans(i)]
      BY <2>3 DEF Answer
    <3> HIDE DEF ans, i, o, b, r
    <3>9. ASSUME NEW k \in Keys, table'[k] # NoCursor
          PROVE  EntryFits(opener', k[1], k[2], table'[k])
      <4>1. k[1] \in Scopes /\ k[2] \in Ids
        BY DEF Keys
      <4>2. EntryFits(opener, k[1], k[2], table[k]) /\ table' = table
        BY <2>1, <3>9 DEF Cursors
      <4> QED
        BY <3>6, <4>1, <4>2, FitsKept
    <3>10. ASSUME NEW a \in Conns, req'[a] # NoReq
           PROVE  ReqFits(opener', scope'[a], req'[a])
      <4>1. CASE a = c
        BY <2>1, <3>7, <3>8, <4>1 DEF TypeOK
      <4>2. CASE a # c
        <5>1. req'[a] = req[a] /\ scope' = scope /\ scope[a] \in Scopes /\ req[a] \in Requests
          BY <2>1, <3>8, <4>2 DEF TypeOK
        <5> QED
          BY <3>6, <3>10, <5>1, FitsKept DEF Cursors
      <4> QED
        BY <4>1, <4>2
    <3>11. ASSUME NEW d \in Backends, NEW j \in Ids, j >= nextId'[d]
           PROVE  opener'[d][j] = NoCursor
      <4>1. CASE d = b
        <5>1. j > i /\ j >= i
          BY <3>1, <3>5, <3>11, <4>1 DEF Ids
        <5>2. opener'[d][j] = opener[d][j]
          BY <3>1, <3>4, <4>1, <5>1 DEF Ids
        <5>3. j >= nextId[d]
          BY <4>1, <5>1 DEF i
        <5> QED
          BY <5>2, <5>3 DEF Cursors
      <4>2. CASE d # b
        BY <3>4, <3>5, <3>11, <4>2 DEF Cursors
      <4> QED
        BY <4>1, <4>2
    <3> QED
      BY <3>9, <3>10, <3>11 DEF Cursors
  <2> QED
    BY <1>8, <2>2, <2>3 DEF BackendOpen
<1>9. ASSUME NEW c \in Conns, BackendGetMore(c) PROVE Cursors'
  <2> DEFINE r == req[c]
             s == scope[c]
             b == BackendOf[s]
             ans(i) == [stage |-> "cursor", result |-> i, old |-> r.ids, ns |-> r.ns,
                        ses |-> r.ses, public |-> r.public]
  <2>1. /\ UNCHANGED <<clients, table, nextId, opener>>
        /\ r # NoReq /\ r.stage = "checked" /\ r.op = "getMore"
    BY <1>9 DEF BackendGetMore
  <2>2. r.ids \in SUBSET Ids /\ ReqFits(opener, s, r)
    BY <2>1, Shape DEF UseReq, Cursors, TypeOK
  <2>3. \/ \E i \in r.ids \cup {0} : Answer(c, ans(i))
        \/ Answer(c, [stage |-> "failed", ids |-> r.ids])
        \/ Answer(c, [stage |-> "forget", gone |-> r.ids])
    BY <1>9 DEF BackendGetMore
  <2>4. ASSUME NEW i \in r.ids \cup {0}, Answer(c, ans(i)) PROVE Cursors'
    <3>1. ReqFits(opener, s, ans(i))
      BY <2>1, <2>2, <2>4 DEF ReqFits, EntryFits
    <3> QED
      BY <1>3, <1>4, <2>1, <2>4, <3>1 DEF Answer
  <2>5. ASSUME NEW q, Answer(c, q), q.stage \in {"failed", "forget"} PROVE Cursors'
    <3>1. ReqFits(opener, s, q)
      BY <2>5 DEF ReqFits
    <3> QED
      BY <1>3, <1>4, <2>1, <2>5, <3>1 DEF Answer
  <2> QED
    BY <2>3, <2>4, <2>5
<1>10. ASSUME NEW c \in Conns, BackendKill(c) \/ BackendEnd(c) PROVE Cursors'
  <2>1. PICK q : Answer(c, q) /\ q.stage \in {"failed", "forget", "ended"}
    BY <1>10 DEF BackendKill, BackendEnd
  <2>2. ReqFits(opener, scope[c], q)
    BY <2>1 DEF ReqFits
  <2> QED
    BY <1>3, <1>4, <1>10, <2>1, <2>2 DEF BackendKill, BackendEnd, Answer
<1>11. CASE (\E b \in Backends, i \in Ids : BackendDrop(b, i)) \/ UNCHANGED vars
  BY <1>11 DEF BackendDrop, vars, Cursors
<1>12. CASE Tick
  <2>1. ASSUME NEW k \in Keys
        PROVE  \/ table'[k] = NoCursor
               \/ /\ table[k] # NoCursor /\ table'[k].ns = table[k].ns
                  /\ table'[k].cmd = table[k].cmd /\ table'[k].ses = table[k].ses
    <3>1. table[k] = NoCursor \/ table[k] \in Entry
      BY DEF TypeOK
    <3> QED
      BY <1>12, <3>1 DEF Tick, Entry
  <2>2. Thinner
    BY <2>1 DEF Thinner
  <2> QED
    BY <1>12, <2>2, ThinnerFits, SameRecords DEF Tick
<1>13. CASE Restart
  BY <1>13 DEF Restart, Cursors
<1> QED
  BY <1>7, <1>8, <1>9, <1>10, <1>11, <1>12, <1>13 DEF Next, Backend

LEMMA CursorsAlways == Spec => []Cursors
<1>1. Init => Cursors
  BY DEF Init, Cursors
<1>2. Init => Authed
  BY DEF Init, Authed
<1> QED
  BY <1>1, <1>2, TypeCorrect, AuthedStep, CursorsStep, PTL DEF Spec

\* A cursor reaches the backend only for the scope, namespace and session that opened
\* it, also when the table changed between the check and the command (execute).
THEOREM OwnersOnlyAlways == Spec => []OwnersOnly
<1>1. Cursors => OwnersOnly
  BY DEF Cursors, OwnersOnly, Asked, OpenerOf, ReqFits
<1> QED
  BY <1>1, CursorsAlways, PTL

\* Every batch of a cursor is filtered as the reply of the command that opened it
\* (publicCommand), on whichever connection of its scope it is read.
THEOREM FilteredAlways == Spec => []FilteredAsOpened
<1>1. Cursors => FilteredAsOpened
  <2> SUFFICES ASSUME Cursors, NEW c \in Conns, NEW i \in Ids,
                      Asked(c, i), req[c].op = "getMore"
               PROVE  req[c].public = OpenerOf(c, i).cmd
    BY DEF FilteredAsOpened
  <2>1. ReqFits(opener, scope[c], req[c])
    BY DEF Cursors, Asked
  <2>2. OpenerOf(c, i) = [scope |-> scope[c], ns |-> req[c].ns, cmd |-> req[c].public,
                          ses |-> req[c].ses]
    BY <2>1 DEF Asked, OpenerOf, ReqFits
  <2> QED
    BY <2>2
<1> QED
  BY <1>1, CursorsAlways, PTL

-----------------------------------------------------------------------------
(* What is forgotten.                                                      *)

\* The cursors S were opened at b, and b has closed them.
Dead(lv, op, b, S) == \A i \in S : i \notin lv[b] /\ op[b][i] # NoCursor

\* What the reply r makes its handler forget is dead.
Forgets(lv, op, s, r) ==
  /\ r.stage = "checked" /\ r.op = "getMore" => \E i \in Ids : r.ids = {i}
  /\ r.stage = "cursor" => Dead(lv, op, BackendOf[s], r.old \ {r.result})
  /\ r.stage = "forget" => Dead(lv, op, BackendOf[s], r.gone)

Replies == \A c \in Conns : req[c] # NoReq => Forgets(live, opener, scope[c], req[c])

\* No backend opens a cursor a second time.
Worn == \A b \in Backends, i \in Ids :
  opener[b][i] # NoCursor => opener'[b][i] # NoCursor /\ (i \in live'[b] => i \in live[b])

LEMMA RepliesFrame ==
  ASSUME TypeOK, Replies, Worn,
         \A c \in Conns : \/ req'[c] = NoReq
                          \/ req'[c] = req[c] /\ scope'[c] = scope[c]
                          \/ Forgets(live', opener', scope'[c], req'[c])
  PROVE  Replies'
<1> SUFFICES ASSUME NEW c \in Conns, req'[c] = req[c], scope'[c] = scope[c], req[c] # NoReq
             PROVE  Forgets(live', opener', scope[c], req[c])
  BY DEF Replies
<1> DEFINE r == req[c]
           b == BackendOf[scope[c]]
<1>1. b \in Backends /\ r \in Requests /\ Forgets(live, opener, scope[c], r)
  BY DEF TypeOK, Backends, Replies
<1>2. ASSUME NEW S \in SUBSET Ids, Dead(live, opener, b, S) PROVE Dead(live', opener', b, S)
  BY <1>1, <1>2 DEF Dead, Worn
<1>3. /\ r.stage = "cursor" => r.old \ {r.result} \in SUBSET Ids
      /\ r.stage = "forget" => r.gone \in SUBSET Ids
  BY <1>1, Shape
<1> QED
  BY <1>1, <1>2, <1>3 DEF Forgets

LEMMA RepliesStep == TypeOK /\ Authed /\ Cursors /\ Replies /\ [Next]_vars => Replies'
<1> SUFFICES ASSUME TypeOK, Authed, Cursors, Replies, [Next]_vars PROVE Replies'
  OBVIOUS
<1> USE DEF clients, servers
<1>1. UNCHANGED <<live, opener>> => Worn
  BY DEF Worn
<1>2. ASSUME NEW c \in Conns, NEW r, req' = [req EXCEPT ![c] = r], UNCHANGED scope, Worn,
             r = NoReq \/ Forgets(live', opener', scope[c], r)
      PROVE  Replies'
  BY <1>2, RepliesFrame DEF TypeOK
<1>3. ASSUME UNCHANGED <<req, scope, opener>>, Worn PROVE Replies'
  BY <1>3, RepliesFrame
<1>4. ASSUME NEW c \in Conns, Handler(c) PROVE Replies'
  <2>1. UNCHANGED <<live, opener>> /\ Worn
    BY <1>1, <1>4 DEF Handler, Accept, Greet, Close, SaslStart, SaslProof, SaslAck, Open, GetMore,
       KillCursors, EndSessions, Start, Refuse, BackendFails, Remember, RememberRefused,
       ReplyFailed, ForgetOne, ForgetSessions
  <2>2. ASSUME NEW s \in Scopes, NEW k \in BOOLEAN, Accept(c, s, k) PROVE Replies'
    <3>1. req[c] = NoReq
      BY <2>2 DEF Accept, Authed
    <3> QED
      BY <2>1, <2>2, <3>1, RepliesFrame DEF Accept, TypeOK
  <2>3. CASE Greet(c) \/ SaslProof(c) \/ SaslAck(c) \/ \E b \in BOOLEAN : SaslStart(c, b)
    BY <2>1, <2>3, <1>3 DEF Greet, SaslProof, SaslAck, SaslStart
  <2>4. CASE \/ Close(c) \/ BackendFails(c) \/ Refuse(c) \/ Remember(c) \/ RememberRefused(c)
             \/ ReplyFailed(c) \/ ForgetSessions(c)
    <3>1. req' = [req EXCEPT ![c] = NoReq] /\ UNCHANGED scope
      BY <2>4 DEF Close, BackendFails, Refuse, Remember, RememberRefused, ReplyFailed,
         ForgetSessions, Done, Leave
    <3> QED
      BY <2>1, <3>1, <1>2
  <2>5. ASSUME NEW i \in Ids, ForgetOne(c, i) PROVE Replies'
    <3>1. PICK r : /\ req' = [req EXCEPT ![c] = r]
                   /\ r = NoReq \/ r = [req[c] EXCEPT !.gone = @ \ {i}]
      BY <2>5 DEF ForgetOne, Done
    <3>2. /\ req[c] \in [stage : {"forget"}, gone : SUBSET Ids] /\ UNCHANGED scope
          /\ Dead(live, opener, BackendOf[scope[c]], req[c].gone)
      BY <2>5, Shape DEF ForgetOne, Done, TypeOK, Replies, Forgets
    <3>3. r = NoReq \/ Forgets(live', opener', scope[c], r)
      BY <2>1, <3>1, <3>2 DEF Forgets, Dead
    <3> QED
      BY <2>1, <3>1, <3>2, <3>3, <1>2
  <2>6. ASSUME NEW r, Start(c, r), Forgets(live, opener, scope[c], r) PROVE Replies'
    BY <2>1, <2>6, <1>2 DEF Start
  <2>7. ASSUME NEW ns \in Namespaces, NEW ses \in Sessions,
               \/ \E kind \in OpenKinds : Open(c, kind, ns, ses)
               \/ \E i \in Ids : GetMore(c, i, ns, ses)
               \/ \E S \in SUBSET Ids : KillCursors(c, S, ns, ses)
        PROVE  Replies'
    BY <2>6, <2>7 DEF Open, GetMore, KillCursors, Forgets
  <2>8. ASSUME NEW T \in SUBSET Sessions, EndSessions(c, T) PROVE Replies'
    BY <2>6, <2>8 DEF EndSessions, Forgets
  <2> QED
    BY <1>4, <2>2, <2>3, <2>4, <2>5, <2>7, <2>8 DEF Handler
<1>5. ASSUME NEW c \in Conns, BackendOpen(c) PROVE Replies'
  <2> DEFINE b == BackendOf[scope[c]]
  <2>1. b \in Backends
    BY DEF TypeOK, Backends
  <2>2. Worn
    <3>1. CASE UNCHANGED servers
      BY <3>1 DEF Worn
    <3>2. CASE /\ nextId[b] \in Ids /\ live' = [live EXCEPT ![b] = @ \cup {nextId[b]}]
               /\ \E o : opener' = [opener EXCEPT ![b][nextId[b]] = o]
      <4>1. opener[b][nextId[b]] = NoCursor
        BY <2>1, <3>2, LimitsAssumption DEF Cursors, Ids
      <4>2. ASSUME NEW d \in Backends, NEW i \in Ids, opener[d][i] # NoCursor
            PROVE  opener'[d][i] = opener[d][i] /\ (i \in live'[d] => i \in live[d])
        BY <2>1, <3>2, <4>1, <4>2 DEF TypeOK
      <4> QED
        BY <4>2 DEF Worn
    <3> QED
      BY <1>5, <3>1, <3>2 DEF BackendOpen
  <2>3. PICK q : Answer(c, q) /\ q.stage = "cursor" /\ q.old = {}
    BY <1>5 DEF BackendOpen
  <2>4. Forgets(live', opener', scope[c], q) /\ UNCHANGED scope
    BY <1>5, <2>3 DEF BackendOpen, Forgets, Dead
  <2> QED
    BY <1>2, <2>2, <2>3, <2>4 DEF Answer
<1>6. ASSUME NEW c \in Conns, BackendGetMore(c) \/ BackendKill(c) PROVE Replies'
  <2> DEFINE r == req[c]
             b == BackendOf[scope[c]]
  <2>1. /\ r # NoReq /\ r.stage = "checked" /\ r.op \in {"getMore", "killCursors"}
        /\ UNCHANGED <<scope, opener>> /\ b \in Backends
    BY <1>6 DEF BackendGetMore, BackendKill, TypeOK, Backends
  <2>2. r.ids \in SUBSET Ids /\ \A i \in r.ids : opener[b][i] # NoCursor
    <3>1. r \in UseReq
      <4>1. r \in Requests
        BY DEF TypeOK
      <4> QED
        BY <2>1, <4>1, Shape
    <3>2. r.ids \in SUBSET Ids
      BY <3>1 DEF UseReq
    <3>3. ReqFits(opener, scope[c], r)
      BY <2>1 DEF Cursors
    <3> QED
      BY <2>1, <3>2, <3>3 DEF ReqFits
  <2>3. Worn
    BY <1>6, <2>1 DEF BackendGetMore, BackendKill, Worn, TypeOK
  <2>4. CASE BackendKill(c)
    <3>1. \/ Answer(c, [stage |-> "forget", gone |-> r.ids])
             /\ live' = [live EXCEPT ![b] = @ \ r.ids]
          \/ Answer(c, [stage |-> "failed", ids |-> r.ids])
      BY <2>4 DEF BackendKill
    <3>2. live' = [live EXCEPT ![b] = @ \ r.ids] =>
            Forgets(live', opener', scope[c], [stage |-> "forget", gone |-> r.ids])
      BY <2>1, <2>2 DEF Forgets, Dead, TypeOK
    <3>3. Forgets(live', opener', scope[c], [stage |-> "failed", ids |-> r.ids])
      BY DEF Forgets
    <3> QED
      BY <1>2, <2>1, <2>3, <3>1, <3>2, <3>3 DEF Answer
  <2>5. CASE BackendGetMore(c)
    <3> DEFINE ans(i) == [stage |-> "cursor", result |-> i, old |-> r.ids, ns |-> r.ns,
                          ses |-> r.ses, public |-> r.public]
    <3>1. PICK j \in Ids : r.ids = {j}
      BY <2>1, <2>5 DEF BackendGetMore, Replies, Forgets
    <3>2. CASE Answer(c, ans(0)) /\ live' = [live EXCEPT ![b] = @ \ r.ids]
      <4>1. Forgets(live', opener', scope[c], ans(0))
        BY <2>1, <2>2, <3>2 DEF Forgets, Dead, TypeOK
      <4> QED
        BY <1>2, <2>1, <2>3, <3>2, <4>1 DEF Answer
    <3>3. CASE Answer(c, ans(j))
      <4>1. Forgets(live', opener', scope[c], ans(j))
        BY <3>1 DEF Forgets, Dead
      <4> QED
        BY <1>2, <2>1, <2>3, <3>3, <4>1 DEF Answer
    <3>4. CASE Answer(c, [stage |-> "failed", ids |-> r.ids])
      <4>1. Forgets(live', opener', scope[c], [stage |-> "failed", ids |-> r.ids])
        BY DEF Forgets
      <4> QED
        BY <1>2, <2>1, <2>3, <3>4, <4>1 DEF Answer
    <3>5. CASE /\ r.ids \cap live[b] = {} /\ live' = live
               /\ Answer(c, [stage |-> "forget", gone |-> r.ids])
      <4>1. Forgets(live', opener', scope[c], [stage |-> "forget", gone |-> r.ids])
        BY <2>1, <2>2, <3>5 DEF Forgets, Dead
      <4> QED
        BY <1>2, <2>1, <2>3, <3>5, <4>1 DEF Answer
    <3> QED
      BY <2>5, <3>1, <3>2, <3>3, <3>4, <3>5 DEF BackendGetMore
  <2> QED
    BY <1>6, <2>4, <2>5
<1>7. ASSUME NEW c \in Conns, BackendEnd(c) PROVE Replies'
  <2>1. PICK q : Answer(c, q) /\ q.stage \in {"ended", "failed"}
    BY <1>7 DEF BackendEnd
  <2>2. Forgets(live', opener', scope[c], q)
    BY <2>1 DEF Forgets
  <2> QED
    BY <1>1, <1>2, <1>7, <2>1, <2>2 DEF BackendEnd, Answer
<1>8. ASSUME NEW b \in Backends, NEW i \in Ids, BackendDrop(b, i) PROVE Replies'
  <2>1. Worn
    BY <1>8 DEF BackendDrop, Worn, TypeOK
  <2> QED
    BY <1>3, <1>8, <2>1 DEF BackendDrop
<1>9. CASE Tick \/ UNCHANGED vars
  BY <1>1, <1>3, <1>9 DEF Tick, vars
<1>10. CASE Restart
  BY <1>10 DEF Restart, Replies
<1> QED
  BY <1>4, <1>5, <1>6, <1>7, <1>8, <1>9, <1>10 DEF Next, Backend

\* A cursor the backend still has open is forgotten only when it expired, when its own
\* scope ended its session, or with the run of serve: whatever replies other handlers
\* record meanwhile (execute, remember, forget).
THEOREM ForgottenForAReasonAlways == Spec => ForgottenForAReason
<1> DEFINE A == \A k \in Keys :
                  table[k] # NoCursor /\ table'[k] = NoCursor =>
                    \/ Expired(table[k]) \/ Ending(k)
                    \/ k[2] \notin live[BackendOf[k[1]]]
                    \/ \A c \in Conns : phase'[c] = "none"
<1>1. ASSUME TypeOK, Replies, Next PROVE A
  <2> SUFFICES ASSUME NEW k \in Keys, table[k] # NoCursor, table'[k] = NoCursor,
                      ~Expired(table[k]), ~\A c \in Conns : phase'[c] = "none"
               PROVE  Ending(k) \/ k[2] \notin live[BackendOf[k[1]]]
    OBVIOUS
  <2>1. k = <<k[1], k[2]>> /\ k[2] \in Ids
    BY DEF Keys
  <2>2. ~Restart
    BY DEF Restart
  <2>3. ~Tick
    <3>1. table[k] \in Entry
      BY <1>1 DEF TypeOK
    <3>2. [table[k] EXCEPT !.age = @ + 1] # NoCursor
      <4>1. [table[k] EXCEPT !.age = @ + 1] \in Entry
        BY <3>1, LimitsAssumption DEF Entry, Expired
      <4> QED
        BY <4>1, SentinelsAssumption
    <3> QED
      BY <3>2 DEF Tick
  <2>4. ~Backend
    BY DEF Backend, BackendOpen, BackendGetMore, BackendKill, BackendEnd, BackendDrop
  <2>5. PICK c \in Conns : Handler(c)
    BY <1>1, <2>2, <2>3, <2>4 DEF Next
  <2>6. Purge(table)[k] = table[k]
    BY DEF Purge
  <2>7. ASSUME NEW t, NEW S, t[k] # NoCursor, table' = Forget(t, scope[c], S)
        PROVE  k[1] = scope[c] /\ k[2] \in S
    BY <2>7 DEF Forget
  <2>8. CASE Remember(c)
    <3> DEFINE r == req[c]
               s == scope[c]
               e == [ns |-> r.ns, cmd |-> r.public, ses |-> r.ses, age |-> 0]
               u == Put(Purge(table), s, r.result, e)
    <3>1. /\ r # NoReq /\ r.stage = "cursor"
          /\ r \in [stage : {"cursor"}, result : Ids \cup {0}, old : SUBSET Ids,
                     ns : Namespaces, ses : Sessions, public : OpenKinds]
      BY <1>1, <2>8, Shape DEF Remember, TypeOK
    <3>2. Dead(live, opener, BackendOf[s], r.old \ {r.result})
      BY <1>1, <3>1 DEF Replies, Forgets
    <3>3. k[1] = s /\ k[2] \in r.old \ {r.result}
      <4>1. CASE r.result = 0
        <5>1. k[1] = s /\ k[2] \in r.old
          BY <2>7, <2>8, <4>1 DEF Remember
        <5> QED
          BY <2>1, <4>1, <5>1 DEF Ids
      <4>2. CASE r.result # 0
        <5>1. table' = Forget(u, s, r.old \ {r.result})
          BY <2>8, <4>2 DEF Remember
        <5>2. e \in Entry
          BY <3>1, LimitsAssumption DEF Entry
        <5>3. u[k] # NoCursor
          BY <2>6, <5>2, SentinelsAssumption DEF Put, Purge
        <5> QED
          BY <2>7, <5>1, <5>3
      <4> QED
        BY <4>1, <4>2
    <3> QED
      BY <3>2, <3>3 DEF Dead
  <2>9. CASE RememberRefused(c)
    BY <2>6, <2>9 DEF RememberRefused
  <2>10. ASSUME NEW i \in Ids, ForgetOne(c, i) PROVE k[2] \notin live[BackendOf[k[1]]]
    <3>1. k[1] = scope[c] /\ k[2] \in {i} /\ i \in req[c].gone
      BY <2>7, <2>10 DEF ForgetOne
    <3>2. Dead(live, opener, BackendOf[scope[c]], req[c].gone)
      BY <1>1, <2>10 DEF ForgetOne, Replies, Forgets
    <3> QED
      BY <3>1, <3>2 DEF Dead
  <2>11. CASE ForgetSessions(c)
    BY <2>11 DEF ForgetSessions, Ending
  <2>12. ~UNCHANGED table
    OBVIOUS
  <2> QED
    BY <2>5, <2>8, <2>9, <2>10, <2>11, <2>12 DEF Handler, Accept, Greet, Close, SaslStart,
       SaslProof, SaslAck, Open, GetMore, KillCursors, EndSessions, Start, Refuse,
       BackendFails, ReplyFailed
<1>2. TypeOK /\ Replies /\ [Next]_vars => [A]_vars
  BY <1>1
<1>3. Init => Replies /\ Authed
  BY DEF Init, Replies, Authed
<1>4. Spec => []Replies
  BY <1>3, TypeCorrect, AuthedStep, CursorsAlways, RepliesStep, PTL DEF Spec
<1> QED
  BY <1>2, <1>4, TypeCorrect, PTL DEF Spec, ForgottenForAReason

\* An entry is recorded, or becomes younger, only by a reply of the backend that names
\* its cursor, recorded by a handler of its scope (remember).
THEOREM RenewedOnlyBySuccessAlways == Spec => RenewedOnlyBySuccess
<1> DEFINE A == \A k \in Keys :
             table'[k] # NoCursor /\ (table[k] = NoCursor \/ table'[k].age < table[k].age) =>
               \E c \in Conns : /\ req[c] # NoReq /\ req[c].stage = "cursor"
                                /\ scope[c] = k[1] /\ req[c].result = k[2]
<1>1. ASSUME TypeOK, Next, NEW k \in Keys, table'[k] # NoCursor,
             table[k] = NoCursor \/ table'[k].age < table[k].age
      PROVE  \E c \in Conns : /\ req[c] # NoReq /\ req[c].stage = "cursor"
                              /\ scope[c] = k[1] /\ req[c].result = k[2]
  <2>1. table[k] # NoCursor => table[k] \in Entry /\ table[k].age \in Nat
    BY <1>1, LimitsAssumption DEF TypeOK, Entry
  <2>2. table'[k] # table[k]
    BY <1>1, <2>1
  <2>3. ASSUME NEW t, NEW S, NEW s, table' = Forget(t, s, S) PROVE t[k] = table'[k]
    BY <1>1, <2>3 DEF Forget
  <2>4. Purge(table)[k] \in {NoCursor, table[k]}
    BY DEF Purge
  <2>5. ~Tick
    <3>1. table[k] # NoCursor => [table[k] EXCEPT !.age = @ + 1].age = table[k].age + 1
      BY <2>1 DEF Entry
    <3>2. Tick /\ table[k] # NoCursor => table'[k].age \in {table[k].age, table[k].age + 1}
      BY <3>1 DEF Tick
    <3>3. Tick /\ table[k] = NoCursor => table'[k] = NoCursor
      BY DEF Tick
    <3>4. CASE table[k] = NoCursor
      BY <1>1, <3>3, <3>4
    <3>5. CASE table[k] # NoCursor
      BY <1>1, <2>1, <3>2, <3>5
    <3> QED
      BY <3>4, <3>5
  <2>6. ~Restart
    BY <1>1 DEF Restart
  <2>7. ~Backend
    BY <2>2 DEF Backend, BackendOpen, BackendGetMore, BackendKill, BackendEnd, BackendDrop
  <2>8. PICK c \in Conns : Handler(c)
    BY <1>1, <2>5, <2>6, <2>7 DEF Next
  <2>9. ~RememberRefused(c)
    BY <1>1, <2>2, <2>4 DEF RememberRefused
  <2>10. ~ForgetSessions(c)
    BY <1>1, <2>2 DEF ForgetSessions
  <2>11. ~\E i \in Ids : ForgetOne(c, i)
    BY <2>2, <2>3 DEF ForgetOne
  <2>12. Remember(c)
    BY <2>2, <2>8, <2>9, <2>10, <2>11 DEF Handler, Accept, Greet, Close, SaslStart,
       SaslProof, SaslAck, Open, GetMore, KillCursors, EndSessions, Start, Refuse,
       BackendFails, ReplyFailed
  <2> DEFINE r == req[c]
             s == scope[c]
             e == [ns |-> r.ns, cmd |-> r.public, ses |-> r.ses, age |-> 0]
             u == Put(Purge(table), s, r.result, e)
  <2>13. r # NoReq /\ r.stage = "cursor"
    BY <2>12 DEF Remember
  <2>14. r.result # 0
    BY <2>2, <2>3, <2>12 DEF Remember
  <2>15. u[k] = table'[k]
    BY <2>3, <2>12, <2>14 DEF Remember
  <2>16. k = <<s, r.result>>
    BY <1>1, <2>2, <2>4, <2>15 DEF Put, Purge
  <2> QED
    BY <2>13, <2>16
<1>2. TypeOK /\ [Next]_vars => [A]_vars
  BY <1>1
<1> QED
  BY <1>2, TypeCorrect, PTL DEF Spec, RenewedOnlyBySuccess

-----------------------------------------------------------------------------
(* The policy.  Its inductive invariant relates, one function of the code  *)
(* after the other, the call that checks a value to the way a mongod reads *)
(* it, to what the second walk does there, and to how deep it is: n counts *)
(* the values around it, of which the depth parameter counts at least      *)
(* every third one.                                                        *)

Fns == {"Command", "Documents", "Writes", "Write", "Listing", "Listings", "Predicate", "Patterns",
        "Match", "MatchArray", "Condition", "NotOperand", "ElementMatch", "AllItems", "AllItem",
        "Expression", "Operator", "Bindings", "Branches", "Branch", "Projection", "Projected",
        "Pipeline", "Stage", "Group", "Accumulator", "Sort", "Unset", "Lookup", "Union", "Facet",
        "ReplaceRoot", "Collection", "Update", "Modifier", "Pull", "Push", "Bit", "Is", "Data"}

\* A value the second walk does not come to, read in the way given.
Plain(c, e, w, n, way, offset) == e = way /\ w = "none" /\ n <= 3 * c.depth + offset
\* The same, checked by a function that does not look at its depth.
Shallow(c, e, w, n, way, offset) == Plain(c, e, w, n, way, offset) /\ c.depth <= MaxDepth
\* And by one that is called a level deeper.
Beyond(c, e, w, n, way, offset) == Plain(c, e, w, n, way, offset) /\ c.depth <= MaxDepth + 1
\* A part of a pipeline of aggregate.
Joined(m, c, n, offset) == m = "aggregate" /\ c.depth <= MaxDepth /\ n <= 3 * c.depth + offset

Fits(m, c, e, w, n) ==
  /\ m \in Commands /\ c.fn \in Fns /\ c.depth \in Nat /\ n \in Nat
  /\ c.fn = "Command" => c.op = m /\ c.depth = 0 /\ e = "command" /\ w = "command" /\ n = 0
  /\ c.fn = "Documents" => Shallow(c, e, w, n, "none", 1)
  /\ c.fn = "Writes" => Shallow(c, e, w, n, "writes", 1)
  /\ c.fn = "Write" => Shallow(c, e, w, n, "write", 2)
  /\ c.fn = "Listing" => Plain(c, e, w, n, "listing", 3)
  /\ c.fn = "Listings" => Shallow(c, e, w, n, "listings", 4)
  /\ c.fn = "Predicate" => Shallow(c, e, w, n, "predicate", 4)
  /\ c.fn = "Patterns" => Shallow(c, e, w, n, "none", 5)
  /\ c.fn = "Match" => Plain(c, e, w, n, "query", 3)
  /\ c.fn = "MatchArray" => Beyond(c, e, w, n, "queries", 3)
  /\ c.fn = "Condition" => Plain(c, e, w, n, "cond", 3)
  /\ c.fn = "NotOperand" => Shallow(c, e, w, n, "cond", 4)
  /\ c.fn = "ElementMatch" => Plain(c, e, w, n, "elem", 3)
  /\ c.fn = "AllItems" => Shallow(c, e, w, n, "alls", 4)
  /\ c.fn = "AllItem" => Shallow(c, e, w, n, "all", 5)
  /\ c.fn = "Expression" => Plain(c, e, w, n, "expr", 3)
  /\ c.fn = "Operator" =>
       Plain(c, e, w, n, IF c.op \in Operators THEN "expr" ELSE "unlisted", 3)
  /\ c.fn = "Bindings" => Beyond(c, e, w, n, "expr", 3)
  /\ c.fn = "Branches" => Shallow(c, e, w, n, "expr", 4)
  /\ c.fn = "Branch" => Shallow(c, e, w, n, "expr", 5)
  /\ c.fn = "Projection" =>
       Beyond(c, e, w, n, IF c.op = "find" THEN "projection" ELSE "expr", 3)
  /\ c.fn = "Projected" =>
       Beyond(c, e, w, n, IF c.op = "find" THEN "projected" ELSE "expr", 4)
  /\ c.fn = "Pipeline" =>
       /\ e = "stages" /\ n <= 3 * c.depth + 3
       /\ \/ c.op = "aggregate" /\ m = "aggregate" /\ w \in {"pipeline!", "pipeline"}
          \/ c.op = "update" /\ w = "none"
  /\ c.fn = "Stage" =>
       /\ e = "stage" /\ n <= 3 * c.depth + 4 /\ c.depth <= MaxDepth
       /\ \/ c.op = "aggregate" /\ m = "aggregate" /\ w = "stage"
          \/ c.op = "update" /\ w = "none"
  /\ c.fn = "Group" => Shallow(c, e, w, n, "expr", 5)
  /\ c.fn = "Accumulator" => Shallow(c, e, w, n, "expr", 6)
  /\ c.fn = "Sort" => Shallow(c, e, w, n, "none", 6)
  /\ c.fn = "Unset" => Shallow(c, e, w, n, "none", 5)
  /\ c.fn = "Lookup" => e = "join" /\ w = "lookup" /\ Joined(m, c, n, 5)
  /\ c.fn = "Union" => e = "join" /\ w = "union" /\ Joined(m, c, n, 5)
  /\ c.fn = "Facet" => e = "facet" /\ w = "facet" /\ Joined(m, c, n, 5)
  /\ c.fn = "ReplaceRoot" => Shallow(c, e, w, n, "expr", 5)
  /\ c.fn = "Collection" =>
       /\ e = "name" /\ w = "collection" /\ n <= 3 * c.depth + 6 /\ c.depth <= MaxDepth
       /\ m = "aggregate" \/ n = 1
  /\ c.fn = "Update" => Shallow(c, e, w, n, "update", 3)
  /\ c.fn = "Modifier" =>
       Shallow(c, e, w, n, IF c.op = "$pull" THEN "pulls" ELSE "none", 4)
  /\ c.fn = "Pull" => Beyond(c, e, w, n, "pull", 3)
  /\ c.fn = "Push" => Shallow(c, e, w, n, "none", 5)
  /\ c.fn = "Bit" => Shallow(c, e, w, n, "none", 5)
  /\ c.fn = "Is" => Shallow(c, e, w, n, IF c.op = "variable" THEN "expr" ELSE "none", 7)
  /\ c.fn = "Data" => c = Data /\ e = "none" /\ w = "none"

\* The path as it is fits.
PathFits == Fits(cmd, call, read, walk, level)

\* What a call has to fit: the lines of Fits for the calls that the functions make, d and n
\* being the depth and the level of the call.
LEMMA QueryCalls ==
  ASSUME NEW m \in Commands, NEW d \in Nat, NEW n \in Nat
  PROVE  /\ n <= 3 * d + 3 => Fits(m, At("Match", "", d), "query", "none", n)
         /\ n <= 3 * d + 3 /\ d <= MaxDepth + 1 =>
              Fits(m, At("MatchArray", "", d), "queries", "none", n)
         /\ n <= 3 * d + 3 => Fits(m, At("Condition", "", d), "cond", "none", n)
         /\ n <= 3 * d + 4 /\ d <= MaxDepth =>
              Fits(m, At("NotOperand", "", d), "cond", "none", n)
         /\ n <= 3 * d + 3 => Fits(m, At("ElementMatch", "", d), "elem", "none", n)
         /\ n <= 3 * d + 4 /\ d <= MaxDepth => Fits(m, At("AllItems", "", d), "alls", "none", n)
         /\ n <= 3 * d + 5 /\ d <= MaxDepth => Fits(m, At("AllItem", "", d), "all", "none", n)
         /\ n <= 3 * d + 3 => Fits(m, At("Listing", "", d), "listing", "none", n)
         /\ n <= 3 * d + 4 /\ d <= MaxDepth =>
              Fits(m, At("Listings", "", d), "listings", "none", n)
         /\ n <= 3 * d + 4 /\ d <= MaxDepth =>
              Fits(m, At("Predicate", "", d), "predicate", "none", n)
         /\ n <= 3 * d + 5 /\ d <= MaxDepth => Fits(m, At("Patterns", "", d), "none", "none", n)
BY DEF Fits, At, Fns, Plain, Shallow, Beyond

LEMMA ExpressionCalls ==
  ASSUME NEW m \in Commands, NEW d \in Nat, NEW n \in Nat
  PROVE  /\ n <= 3 * d + 3 => Fits(m, At("Expression", "", d), "expr", "none", n)
         /\ \A op : n <= 3 * d + 3 /\ op \in Operators =>
              Fits(m, At("Operator", op, d), "expr", "none", n)
         /\ \A op : n <= 3 * d + 3 /\ op \notin Operators =>
              Fits(m, At("Operator", op, d), "unlisted", "none", n)
         /\ n <= 3 * d + 3 /\ d <= MaxDepth + 1 =>
              Fits(m, At("Bindings", "", d), "expr", "none", n)
         /\ n <= 3 * d + 4 /\ d <= MaxDepth => Fits(m, At("Branches", "", d), "expr", "none", n)
         /\ n <= 3 * d + 5 /\ d <= MaxDepth => Fits(m, At("Branch", "", d), "expr", "none", n)
         /\ n <= 3 * d + 3 /\ d <= MaxDepth + 1 =>
              /\ Fits(m, At("Projection", "find", d), "projection", "none", n)
              /\ Fits(m, At("Projection", "stage", d), "expr", "none", n)
         /\ n <= 3 * d + 4 /\ d <= MaxDepth + 1 =>
              /\ Fits(m, At("Projected", "find", d), "projected", "none", n)
              /\ \A op : op # "find" => Fits(m, At("Projected", op, d), "expr", "none", n)
<1>1. n <= 3 * d + 3 => Fits(m, At("Expression", "", d), "expr", "none", n)
  BY DEF Fits, At, Fns, Plain, Shallow, Beyond
<1>2. \A op : n <= 3 * d + 3 /\ op \in Operators =>
       Fits(m, At("Operator", op, d), "expr", "none", n)
  BY DEF Fits, At, Fns, Plain, Shallow, Beyond
<1>3. \A op : n <= 3 * d + 3 /\ op \notin Operators =>
       Fits(m, At("Operator", op, d), "unlisted", "none", n)
  BY DEF Fits, At, Fns, Plain, Shallow, Beyond
<1>4. n <= 3 * d + 3 /\ d <= MaxDepth + 1 =>
       Fits(m, At("Bindings", "", d), "expr", "none", n)
  BY DEF Fits, At, Fns, Plain, Shallow, Beyond
<1>5. n <= 3 * d + 4 /\ d <= MaxDepth => Fits(m, At("Branches", "", d), "expr", "none", n)
  BY DEF Fits, At, Fns, Plain, Shallow, Beyond
<1>6. n <= 3 * d + 5 /\ d <= MaxDepth => Fits(m, At("Branch", "", d), "expr", "none", n)
  BY DEF Fits, At, Fns, Plain, Shallow, Beyond
<1>7. n <= 3 * d + 3 /\ d <= MaxDepth + 1 =>
       /\ Fits(m, At("Projection", "find", d), "projection", "none", n)
       /\ Fits(m, At("Projection", "stage", d), "expr", "none", n)
  BY DEF Fits, At, Fns, Plain, Shallow, Beyond
<1>8. n <= 3 * d + 4 /\ d <= MaxDepth + 1 =>
       /\ Fits(m, At("Projected", "find", d), "projected", "none", n)
       /\ \A op : op # "find" => Fits(m, At("Projected", op, d), "expr", "none", n)
  BY DEF Fits, At, Fns, Plain, Shallow, Beyond
<1> QED
  BY <1>1, <1>2, <1>3, <1>4, <1>5, <1>6, <1>7, <1>8

LEMMA PipelineCalls ==
  ASSUME NEW m \in Commands, NEW d \in Nat, NEW n \in Nat
  PROVE  /\ n <= 3 * d + 3 => Fits(m, At("Pipeline", "update", d), "stages", "none", n)
         /\ n <= 3 * d + 3 /\ m = "aggregate" =>
              /\ Fits(m, At("Pipeline", "aggregate", d), "stages", "pipeline!", n)
              /\ Fits(m, At("Pipeline", "aggregate", d), "stages", "pipeline", n)
         /\ n <= 3 * d + 4 /\ d <= MaxDepth => Fits(m, At("Stage", "update", d), "stage", "none", n)
         /\ n <= 3 * d + 4 /\ d <= MaxDepth /\ m = "aggregate" =>
              Fits(m, At("Stage", "aggregate", d), "stage", "stage", n)
         /\ n <= 3 * d + 5 /\ d <= MaxDepth => Fits(m, At("Group", "", d), "expr", "none", n)
         /\ n <= 3 * d + 6 /\ d <= MaxDepth =>
              Fits(m, At("Accumulator", "", d), "expr", "none", n)
         /\ n <= 3 * d + 5 /\ d <= MaxDepth => Fits(m, At("Unset", "", d), "none", "none", n)
         /\ n <= 3 * d + 5 /\ d <= MaxDepth => Fits(m, At("ReplaceRoot", "", d), "expr", "none", n)
         /\ n <= 3 * d + 5 /\ d <= MaxDepth /\ m = "aggregate" =>
              /\ Fits(m, At("Lookup", "", d), "join", "lookup", n)
              /\ Fits(m, At("Union", "", d), "join", "union", n)
              /\ Fits(m, At("Facet", "", d), "facet", "facet", n)
         /\ n <= 3 * d + 6 /\ d <= MaxDepth /\ (m = "aggregate" \/ n = 1) =>
              Fits(m, At("Collection", "", d), "name", "collection", n)
BY DEF Fits, At, Fns, Plain, Shallow, Beyond, Joined

LEMMA UpdateCalls ==
  ASSUME NEW m \in Commands, NEW d \in Nat, NEW n \in Nat, d <= MaxDepth
  PROVE  /\ n <= 3 * d + 1 => Fits(m, At("Documents", "", d), "none", "none", n)
         /\ \A op : n <= 3 * d + 1 => Fits(m, At("Writes", op, d), "writes", "none", n)
         /\ \A op : n <= 3 * d + 2 => Fits(m, At("Write", op, d), "write", "none", n)
         /\ n <= 3 * d + 3 => Fits(m, At("Update", "", d), "update", "none", n)
         /\ n <= 3 * d + 4 => Fits(m, At("Modifier", "$pull", d), "pulls", "none", n)
         /\ \A op : n <= 3 * d + 4 /\ op # "$pull" =>
              Fits(m, At("Modifier", op, d), "none", "none", n)
         /\ n <= 3 * d + 5 => Fits(m, At("Push", "", d), "none", "none", n)
         /\ n <= 3 * d + 5 => Fits(m, At("Bit", "", d), "none", "none", n)
         /\ \A op : n <= 3 * d + 6 => Fits(m, At("Sort", op, d), "none", "none", n)
         /\ \A op : n <= 3 * d + 7 /\ op # "variable" =>
              Fits(m, At("Is", op, d), "none", "none", n)
         /\ n <= 3 * d + 7 => Fits(m, At("Is", "variable", d), "expr", "none", n)
<1>1. n <= 3 * d + 1 => Fits(m, At("Documents", "", d), "none", "none", n)
  BY DEF Fits, At, Fns, Plain, Shallow, Beyond
<1>2. \A op : n <= 3 * d + 1 => Fits(m, At("Writes", op, d), "writes", "none", n)
  BY DEF Fits, At, Fns, Plain, Shallow, Beyond
<1>3. \A op : n <= 3 * d + 2 => Fits(m, At("Write", op, d), "write", "none", n)
  BY DEF Fits, At, Fns, Plain, Shallow, Beyond
<1>4. n <= 3 * d + 3 => Fits(m, At("Update", "", d), "update", "none", n)
  BY DEF Fits, At, Fns, Plain, Shallow, Beyond
<1>5. n <= 3 * d + 4 => Fits(m, At("Modifier", "$pull", d), "pulls", "none", n)
  BY DEF Fits, At, Fns, Plain, Shallow, Beyond
<1>6. \A op : n <= 3 * d + 4 /\ op # "$pull" =>
       Fits(m, At("Modifier", op, d), "none", "none", n)
  BY DEF Fits, At, Fns, Plain, Shallow, Beyond
<1>7. n <= 3 * d + 5 => Fits(m, At("Push", "", d), "none", "none", n)
  BY DEF Fits, At, Fns, Plain, Shallow, Beyond
<1>8. n <= 3 * d + 5 => Fits(m, At("Bit", "", d), "none", "none", n)
  BY DEF Fits, At, Fns, Plain, Shallow, Beyond
<1>9. \A op : n <= 3 * d + 6 => Fits(m, At("Sort", op, d), "none", "none", n)
  BY DEF Fits, At, Fns, Plain, Shallow, Beyond
<1>10. \A op : n <= 3 * d + 7 /\ op # "variable" =>
       Fits(m, At("Is", op, d), "none", "none", n)
  BY DEF Fits, At, Fns, Plain, Shallow, Beyond
<1>11. n <= 3 * d + 7 => Fits(m, At("Is", "variable", d), "expr", "none", n)
  BY DEF Fits, At, Fns, Plain, Shallow, Beyond
<1> QED
  BY <1>1, <1>2, <1>3, <1>4, <1>5, <1>6, <1>7, <1>8, <1>9, <1>10, <1>11

LEMMA PullCall ==
  ASSUME NEW m \in Commands, NEW d \in Nat, NEW n \in Nat
  PROVE  n <= 3 * d + 3 /\ d <= MaxDepth + 1 => Fits(m, At("Pull", "", d), "pull", "none", n)
BY DEF Fits, At, Fns, Plain, Shallow, Beyond

LEMMA DataCall ==
  ASSUME NEW m \in Commands, NEW n \in Nat
  PROVE  Fits(m, Data, "none", "none", n)
BY DEF Fits, At, Fns, Data

-----------------------------------------------------------------------------
(* The parts of a value.                                                   *)

\* The last function to check the value, once those that pass it on have.
Stands(c, v) ==
  /\ c.fn \notin {"ElementMatch", "Branch", "Accumulator"}
  /\ c.fn \in {"NotOperand", "Pull"} => v.t # "D"
  /\ c.fn = "Operator" => c.op = "$count" \/ Structured(c.op, v)
  /\ c.fn = "Projected" => c.op = "find" /\ ElementOnly(v)
  /\ c.fn = "Update" => v.t # "A"

\* The path stands at v, which passes, and goes on to its part number i.
Here(m, c, e, w, n, v, i) ==
  /\ Fits(m, c, e, w, n) /\ v \in Nodes /\ i \in DOMAIN v.k
  /\ Accepts(c, v) /\ Stands(c, v)

PartFits(m, c, e, w, n, v, i) ==
  Fits(m, Part(c, v, v.k[i]), ReadPart(m, Read(e, v), v, v.k[i]), WalkPart(m, w, v, i), n + 1)

LEMMA Unwalked ==
  ASSUME NEW m, NEW v, NEW i
  PROVE  WalkPart(m, "none", v, i) = "none"
BY DEF WalkPart

LEMMA Keyed ==
  ASSUME NEW v \in Nodes, NEW i \in DOMAIN v.k
  PROVE  /\ v.k[i] \in KeysOf(v) /\ v.t \in {"A", "D"}
         /\ v.t = "A" => v.k[i] = "item"
         /\ Len(v.k) \in Nat /\ i \in 1 .. Len(v.k) /\ v.k # <<>>
BY NodesAssumption DEF KeysOf

\* What a call that fits is told, and one deeper.
LEMMA Levels ==
  ASSUME NEW m, NEW c, NEW e, NEW w, NEW n, Fits(m, c, e, w, n)
  PROVE  /\ m \in Commands /\ c.depth \in Nat /\ n \in Nat /\ c.depth + 1 \in Nat /\ n + 1 \in Nat
         /\ 3 * (c.depth + 1) = 3 * c.depth + 3
BY DEF Fits

-----------------------------------------------------------------------------
(* One lemma for each function.  Where it stands gives the line of Fits it *)
(* is on (1) and the types (2), what it asks of the value (3), the call it *)
(* makes on the part (4), how that part is read and walked (5), and how    *)
(* deep the part is (6); the call then fits, key by key.                   *)

LEMMA MatchParts ==
  ASSUME NEW m, NEW c, NEW e, NEW w, NEW n, NEW v, NEW i,
         Here(m, c, e, w, n, v, i), c.fn = "Match"
  PROVE  PartFits(m, c, e, w, n, v, i)
<1> DEFINE k == v.k[i]
<1>1. e = "query" /\ w = "none" /\ n <= 3 * c.depth + 3
  BY DEF Here, Fits, Plain
<1>2. /\ m \in Commands /\ c.depth \in Nat /\ n \in Nat /\ c.depth + 1 \in Nat /\ n + 1 \in Nat
      /\ 3 * (c.depth + 1) = 3 * c.depth + 3 /\ MaxDepth \in Nat
  BY Levels, DepthAssumption DEF Here
<1>3. c.depth <= MaxDepth /\ v.t = "D" /\ (IsOperator(k) => k \in LogicKeys \cup {"$expr"})
  BY Keyed DEF Here, Accepts, MatchOK
<1>4. Part(c, v, k) = MatchPart(c, k)
  BY DEF Part
<1>5. ReadPart(m, Read(e, v), v, k) = ReadQuery(k) /\ WalkPart(m, w, v, i) = "none"
  BY <1>1, <1>3, Unwalked DEF ReadPart, Read
<1> HIDE DEF k
<1>6. /\ n + 1 <= 3 * (c.depth + 1) + 3 /\ n + 1 <= 3 * c.depth + 4 /\ n + 1 <= 3 * c.depth + 5
      /\ n + 1 <= 3 * c.depth + 6 /\ n + 1 <= 3 * c.depth + 7 /\ c.depth + 1 <= MaxDepth + 1
      /\ c.depth <= MaxDepth + 1
  BY <1>1, <1>2, <1>3
<1>7. CASE k \in LogicKeys
  BY <1>1, <1>2, <1>3, <1>4, <1>5, <1>6, <1>7, QueryCalls, ExpressionCalls
     DEF PartFits, k, MatchPart, ReadQuery, Deeper, LogicKeys
<1>8. CASE k = "$expr"
  BY <1>1, <1>2, <1>3, <1>4, <1>5, <1>6, <1>8, QueryCalls, ExpressionCalls
     DEF PartFits, k, MatchPart, ReadQuery, Deeper, LogicKeys
<1>9. CASE ~IsOperator(k)
  BY <1>1, <1>2, <1>3, <1>4, <1>5, <1>6, <1>9, QueryCalls, ExpressionCalls
     DEF PartFits, k, MatchPart, ReadQuery, Deeper, LogicKeys, IsOperator, FieldNames
<1> QED
  BY <1>3, <1>7, <1>8, <1>9

LEMMA MatchArrayParts ==
  ASSUME NEW m, NEW c, NEW e, NEW w, NEW n, NEW v, NEW i,
         Here(m, c, e, w, n, v, i), c.fn = "MatchArray"
  PROVE  PartFits(m, c, e, w, n, v, i)
<1> DEFINE k == v.k[i]
<1>1. e = "queries" /\ w = "none" /\ n <= 3 * c.depth + 3 /\ c.depth <= MaxDepth + 1
  BY DEF Here, Fits, Plain, Beyond
<1>2. /\ m \in Commands /\ c.depth \in Nat /\ n \in Nat /\ c.depth + 1 \in Nat /\ n + 1 \in Nat
      /\ 3 * (c.depth + 1) = 3 * c.depth + 3 /\ MaxDepth \in Nat
  BY Levels, DepthAssumption DEF Here
<1>3. v.t = "A"
  BY Keyed DEF Here, Accepts, NonEmpty
<1>4. Part(c, v, k) = At("Match", "", c.depth + 1)
  BY DEF Part, MatchArrayPart, Deeper
<1>5. ReadPart(m, Read(e, v), v, k) = "query" /\ WalkPart(m, w, v, i) = "none"
  BY <1>1, <1>3, Unwalked DEF ReadPart, Read
<1> HIDE DEF k
<1>6. /\ n + 1 <= 3 * (c.depth + 1) + 3 /\ n + 1 <= 3 * c.depth + 4 /\ n + 1 <= 3 * c.depth + 5
      /\ n + 1 <= 3 * c.depth + 6 /\ n + 1 <= 3 * c.depth + 7
  BY <1>1, <1>2, <1>3
<1> QED
  BY <1>1, <1>2, <1>4, <1>5, <1>6, QueryCalls DEF PartFits, k, Deeper

LEMMA AllItemsParts ==
  ASSUME NEW m, NEW c, NEW e, NEW w, NEW n, NEW v, NEW i,
         Here(m, c, e, w, n, v, i), c.fn = "AllItems"
  PROVE  PartFits(m, c, e, w, n, v, i)
<1> DEFINE k == v.k[i]
<1>1. e = "alls" /\ w = "none" /\ n <= 3 * c.depth + 4 /\ c.depth <= MaxDepth
  BY DEF Here, Fits, Plain, Shallow
<1>2. /\ m \in Commands /\ c.depth \in Nat /\ n \in Nat /\ c.depth + 1 \in Nat /\ n + 1 \in Nat
      /\ 3 * (c.depth + 1) = 3 * c.depth + 3 /\ MaxDepth \in Nat
  BY Levels, DepthAssumption DEF Here
<1>3. v.t = "A"
  BY Keyed DEF Here, Accepts
<1>4. Part(c, v, k) = At("AllItem", "", c.depth)
  BY DEF Part, Same
<1>5. ReadPart(m, Read(e, v), v, k) = "all" /\ WalkPart(m, w, v, i) = "none"
  BY <1>1, <1>3, Unwalked DEF ReadPart, Read
<1> HIDE DEF k
<1>6. /\ n + 1 <= 3 * (c.depth + 1) + 3 /\ n + 1 <= 3 * c.depth + 5 /\ n + 1 <= 3 * c.depth + 6
      /\ n + 1 <= 3 * c.depth + 7 /\ c.depth + 1 <= MaxDepth + 1 /\ c.depth <= MaxDepth + 1
  BY <1>1, <1>2, <1>3
<1> QED
  BY <1>1, <1>2, <1>4, <1>5, <1>6, QueryCalls DEF PartFits, k, Deeper

LEMMA ListingsParts ==
  ASSUME NEW m, NEW c, NEW e, NEW w, NEW n, NEW v, NEW i,
         Here(m, c, e, w, n, v, i), c.fn = "Listings"
  PROVE  PartFits(m, c, e, w, n, v, i)
<1> DEFINE k == v.k[i]
<1>1. e = "listings" /\ w = "none" /\ n <= 3 * c.depth + 4 /\ c.depth <= MaxDepth
  BY DEF Here, Fits, Plain, Shallow
<1>2. /\ m \in Commands /\ c.depth \in Nat /\ n \in Nat /\ c.depth + 1 \in Nat /\ n + 1 \in Nat
      /\ 3 * (c.depth + 1) = 3 * c.depth + 3 /\ MaxDepth \in Nat
  BY Levels, DepthAssumption DEF Here
<1>3. v.t = "A"
  BY Keyed DEF Here, Accepts, NonEmpty
<1>4. Part(c, v, k) = At("Listing", "", c.depth + 1)
  BY DEF Part, Deeper
<1>5. ReadPart(m, Read(e, v), v, k) = "listing" /\ WalkPart(m, w, v, i) = "none"
  BY <1>1, <1>3, Unwalked DEF ReadPart, Read
<1> HIDE DEF k
<1>6. /\ n + 1 <= 3 * (c.depth + 1) + 3 /\ n + 1 <= 3 * c.depth + 5 /\ n + 1 <= 3 * c.depth + 6
      /\ n + 1 <= 3 * c.depth + 7 /\ c.depth + 1 <= MaxDepth + 1 /\ c.depth <= MaxDepth + 1
  BY <1>1, <1>2, <1>3
<1> QED
  BY <1>1, <1>2, <1>4, <1>5, <1>6, QueryCalls DEF PartFits, k, Deeper

LEMMA ListingParts ==
  ASSUME NEW m, NEW c, NEW e, NEW w, NEW n, NEW v, NEW i,
         Here(m, c, e, w, n, v, i), c.fn = "Listing"
  PROVE  PartFits(m, c, e, w, n, v, i)
<1> DEFINE k == v.k[i]
<1>1. e = "listing" /\ w = "none" /\ n <= 3 * c.depth + 3
  BY DEF Here, Fits, Plain
<1>2. /\ m \in Commands /\ c.depth \in Nat /\ n \in Nat /\ c.depth + 1 \in Nat /\ n + 1 \in Nat
      /\ 3 * (c.depth + 1) = 3 * c.depth + 3 /\ MaxDepth \in Nat
  BY Levels, DepthAssumption DEF Here
<1>3. c.depth <= MaxDepth /\ k \in {"name", "type"} \cup LogicKeys
  BY Keyed DEF Here, Accepts, ListingOK, Fields
<1>4. Part(c, v, k) = ListingPart(c, k)
  BY DEF Part
<1>5. ReadPart(m, Read(e, v), v, k) = ReadListing(k) /\ WalkPart(m, w, v, i) = "none"
  BY <1>1, <1>3, Unwalked DEF ReadPart, Read
<1> HIDE DEF k
<1>6. /\ n + 1 <= 3 * (c.depth + 1) + 3 /\ n + 1 <= 3 * c.depth + 4 /\ n + 1 <= 3 * c.depth + 5
      /\ n + 1 <= 3 * c.depth + 6 /\ n + 1 <= 3 * c.depth + 7 /\ c.depth + 1 <= MaxDepth + 1
      /\ c.depth <= MaxDepth + 1
  BY <1>1, <1>2, <1>3
<1>7. CASE k \in LogicKeys
  BY <1>1, <1>2, <1>3, <1>4, <1>5, <1>6, <1>7, QueryCalls
     DEF PartFits, k, ListingPart, ReadListing, Same, LogicKeys
<1>8. CASE k \in {"name", "type"}
  BY <1>1, <1>2, <1>3, <1>4, <1>5, <1>6, <1>8, QueryCalls
     DEF PartFits, k, ListingPart, ReadListing, Same, LogicKeys
<1> QED
  BY <1>3, <1>7, <1>8

LEMMA PredicateParts ==
  ASSUME NEW m, NEW c, NEW e, NEW w, NEW n, NEW v, NEW i,
         Here(m, c, e, w, n, v, i), c.fn = "Predicate"
  PROVE  PartFits(m, c, e, w, n, v, i)
<1> DEFINE k == v.k[i]
<1>1. e = "predicate" /\ w = "none" /\ n <= 3 * c.depth + 4 /\ c.depth <= MaxDepth
  BY DEF Here, Fits, Plain, Shallow
<1>2. /\ m \in Commands /\ c.depth \in Nat /\ n \in Nat /\ c.depth + 1 \in Nat /\ n + 1 \in Nat
      /\ 3 * (c.depth + 1) = 3 * c.depth + 3 /\ MaxDepth \in Nat
  BY Levels, DepthAssumption DEF Here
<1>3. k \in PredicateKeys
  BY Keyed DEF Here, Accepts, PredicateOK, Fields, Strings
<1>4. Part(c, v, k) = PredicatePart(c, k)
  BY DEF Part
<1>5. ReadPart(m, Read(e, v), v, k) = "none" /\ WalkPart(m, w, v, i) = "none"
  BY <1>1, <1>3, Unwalked DEF ReadPart, Read, ReadPredicate
<1> HIDE DEF k
<1>6. /\ n + 1 <= 3 * (c.depth + 1) + 3 /\ n + 1 <= 3 * c.depth + 5 /\ n + 1 <= 3 * c.depth + 6
      /\ n + 1 <= 3 * c.depth + 7 /\ c.depth + 1 <= MaxDepth + 1 /\ c.depth <= MaxDepth + 1
  BY <1>1, <1>2, <1>3
<1>7. CASE k = "$in"
  BY <1>1, <1>2, <1>3, <1>4, <1>5, <1>6, <1>7, QueryCalls, UpdateCalls
     DEF PartFits, k, PredicatePart, Same
<1>8. CASE k = "$regex"
  BY <1>1, <1>2, <1>3, <1>4, <1>5, <1>6, <1>8, QueryCalls, UpdateCalls
     DEF PartFits, k, PredicatePart, Is
<1>9. CASE k \in {"$eq", "$options"}
  BY <1>1, <1>2, <1>3, <1>4, <1>5, <1>6, <1>9, QueryCalls, UpdateCalls
     DEF PartFits, k, PredicatePart, Is
<1> QED
  BY <1>3, <1>7, <1>8, <1>9 DEF PredicateKeys

LEMMA PatternsParts ==
  ASSUME NEW m, NEW c, NEW e, NEW w, NEW n, NEW v, NEW i,
         Here(m, c, e, w, n, v, i), c.fn = "Patterns"
  PROVE  PartFits(m, c, e, w, n, v, i)
<1> DEFINE k == v.k[i]
<1>1. e = "none" /\ w = "none" /\ n <= 3 * c.depth + 5 /\ c.depth <= MaxDepth
  BY DEF Here, Fits, Plain, Shallow
<1>2. /\ m \in Commands /\ c.depth \in Nat /\ n \in Nat /\ c.depth + 1 \in Nat /\ n + 1 \in Nat
      /\ 3 * (c.depth + 1) = 3 * c.depth + 3 /\ MaxDepth \in Nat
  BY Levels, DepthAssumption DEF Here
<1>3. v.t = "A"
  BY Keyed DEF Here, Accepts
<1>4. Part(c, v, k) = At("Is", "pattern", c.depth)
  BY DEF Part, Is
<1>5. ReadPart(m, Read(e, v), v, k) = "none" /\ WalkPart(m, w, v, i) = "none"
  BY <1>1, <1>3, Unwalked DEF ReadPart, Read
<1> HIDE DEF k
<1>6. /\ n + 1 <= 3 * (c.depth + 1) + 3 /\ n + 1 <= 3 * c.depth + 6 /\ n + 1 <= 3 * c.depth + 7
      /\ c.depth + 1 <= MaxDepth + 1 /\ c.depth <= MaxDepth + 1
  BY <1>1, <1>2, <1>3
<1> QED
  BY <1>1, <1>2, <1>4, <1>5, <1>6, UpdateCalls DEF PartFits, k, Is

LEMMA ConditionParts ==
  ASSUME NEW m, NEW c, NEW e, NEW w, NEW n, NEW v, NEW i,
         Here(m, c, e, w, n, v, i), c.fn = "Condition"
  PROVE  PartFits(m, c, e, w, n, v, i)
<1> DEFINE k == v.k[i]
<1>1. e = "cond" /\ w = "none" /\ n <= 3 * c.depth + 3
  BY DEF Here, Fits, Plain
<1>2. /\ m \in Commands /\ c.depth \in Nat /\ n \in Nat /\ c.depth + 1 \in Nat /\ n + 1 \in Nat
      /\ 3 * (c.depth + 1) = 3 * c.depth + 3 /\ MaxDepth \in Nat
  BY Levels, DepthAssumption DEF Here
<1>3. c.depth <= MaxDepth /\ (HasOperator(v) => k \in CondKeys)
  BY Keyed DEF Here, Accepts, ConditionOK, Fields
<1>4. Part(c, v, k) = ConditionPart(c, v, k)
  BY DEF Part
<1>5. /\ ReadPart(m, Read(e, v), v, k) = (IF HasOperator(v) THEN ReadCondition(k) ELSE "none")
      /\ WalkPart(m, w, v, i) = "none"
  BY <1>1, <1>3, Unwalked DEF ReadPart, Read
<1> HIDE DEF k
<1>6. /\ n + 1 <= 3 * (c.depth + 1) + 3 /\ n + 1 <= 3 * c.depth + 4 /\ n + 1 <= 3 * c.depth + 5
      /\ n + 1 <= 3 * c.depth + 6 /\ n + 1 <= 3 * c.depth + 7 /\ c.depth + 1 <= MaxDepth + 1
      /\ c.depth <= MaxDepth + 1
  BY <1>1, <1>2, <1>3
<1>7. CASE ~HasOperator(v)
  BY <1>1, <1>2, <1>3, <1>4, <1>5, <1>6, <1>7, QueryCalls, UpdateCalls, DataCall
     DEF PartFits, k, ConditionPart
<1>8. CASE HasOperator(v) /\ k = "$eq"
  BY <1>1, <1>2, <1>3, <1>4, <1>5, <1>6, <1>8, QueryCalls, UpdateCalls, DataCall
     DEF PartFits, k, ConditionPart, ReadCondition, CondKeys, Data
<1>9. CASE HasOperator(v) /\ k = "$in"
  BY <1>1, <1>2, <1>3, <1>4, <1>5, <1>6, <1>9, QueryCalls, UpdateCalls, DataCall
     DEF PartFits, k, ConditionPart, ReadCondition, CondKeys, Is
<1>10. CASE HasOperator(v) /\ k = "$exists"
  BY <1>1, <1>2, <1>3, <1>4, <1>5, <1>6, <1>10, QueryCalls, UpdateCalls, DataCall
     DEF PartFits, k, ConditionPart, ReadCondition, CondKeys, Is
<1>11. CASE HasOperator(v) /\ k = "$regex"
  BY <1>1, <1>2, <1>3, <1>4, <1>5, <1>6, <1>11, QueryCalls, UpdateCalls, DataCall
     DEF PartFits, k, ConditionPart, ReadCondition, CondKeys, Is
<1>12. CASE HasOperator(v) /\ k = "$options"
  BY <1>1, <1>2, <1>3, <1>4, <1>5, <1>6, <1>12, QueryCalls, UpdateCalls, DataCall
     DEF PartFits, k, ConditionPart, ReadCondition, CondKeys, Is
<1>13. CASE HasOperator(v) /\ k = "$not"
  BY <1>1, <1>2, <1>3, <1>4, <1>5, <1>6, <1>13, QueryCalls, UpdateCalls, DataCall
     DEF PartFits, k, ConditionPart, ReadCondition, CondKeys, Same
<1>14. CASE HasOperator(v) /\ k = "$elemMatch"
  BY <1>1, <1>2, <1>3, <1>4, <1>5, <1>6, <1>14, QueryCalls, UpdateCalls, DataCall
     DEF PartFits, k, ConditionPart, ReadCondition, CondKeys, Deeper
<1>15. CASE HasOperator(v) /\ k = "$all"
  BY <1>1, <1>2, <1>3, <1>4, <1>5, <1>6, <1>15, QueryCalls, UpdateCalls, DataCall
     DEF PartFits, k, ConditionPart, ReadCondition, CondKeys, Same
<1> QED
  BY <1>3, <1>7, <1>8, <1>9, <1>10, <1>11, <1>12, <1>13, <1>14, <1>15 DEF CondKeys

LEMMA AllItemParts ==
  ASSUME NEW m, NEW c, NEW e, NEW w, NEW n, NEW v, NEW i,
         Here(m, c, e, w, n, v, i), c.fn = "AllItem"
  PROVE  PartFits(m, c, e, w, n, v, i)
<1> DEFINE k == v.k[i]
<1>1. e = "all" /\ w = "none" /\ n <= 3 * c.depth + 5 /\ c.depth <= MaxDepth
  BY DEF Here, Fits, Plain, Shallow
<1>2. /\ m \in Commands /\ c.depth \in Nat /\ n \in Nat /\ c.depth + 1 \in Nat /\ n + 1 \in Nat
      /\ 3 * (c.depth + 1) = 3 * c.depth + 3 /\ MaxDepth \in Nat
  BY Levels, DepthAssumption DEF Here
<1>3. IF HasOperator(v) THEN k = "$elemMatch" ELSE k # "$elemMatch"
  BY Keyed DEF Here, Accepts, AllItemOK, HasOperator, IsOperator, FieldNames
<1>4. Part(c, v, k) = AllItemPart(c, k)
  BY DEF Part
<1>5. /\ ReadPart(m, Read(e, v), v, k) = (IF HasOperator(v) THEN ReadCondition(k) ELSE "none")
      /\ WalkPart(m, w, v, i) = "none"
  BY <1>1, <1>3, Unwalked DEF ReadPart, Read
<1> HIDE DEF k
<1>6. /\ n + 1 <= 3 * (c.depth + 1) + 3 /\ n + 1 <= 3 * c.depth + 6 /\ n + 1 <= 3 * c.depth + 7
      /\ c.depth + 1 <= MaxDepth + 1 /\ c.depth <= MaxDepth + 1
  BY <1>1, <1>2, <1>3
<1>7. CASE ~HasOperator(v)
  BY <1>1, <1>2, <1>3, <1>4, <1>5, <1>6, <1>7, QueryCalls, DataCall
     DEF PartFits, k, AllItemPart
<1>8. CASE HasOperator(v)
  BY <1>1, <1>2, <1>3, <1>4, <1>5, <1>6, <1>8, QueryCalls, DataCall
     DEF PartFits, k, AllItemPart, ReadCondition, Deeper
<1> QED
  BY <1>3, <1>7, <1>8

LEMMA ExpressionParts ==
  ASSUME NEW m, NEW c, NEW e, NEW w, NEW n, NEW v, NEW i,
         Here(m, c, e, w, n, v, i), c.fn = "Expression"
  PROVE  PartFits(m, c, e, w, n, v, i)
<1> DEFINE k == v.k[i]
<1>1. e = "expr" /\ w = "none" /\ n <= 3 * c.depth + 3
  BY DEF Here, Fits, Plain
<1>2. /\ m \in Commands /\ c.depth \in Nat /\ n \in Nat /\ c.depth + 1 \in Nat /\ n + 1 \in Nat
      /\ 3 * (c.depth + 1) = 3 * c.depth + 3 /\ MaxDepth \in Nat
  BY Levels, DepthAssumption DEF Here
<1>3. c.depth <= MaxDepth /\ v.t \in {"A", "D"}
  BY Keyed DEF Here, Accepts, ExpressionOK
<1>4. Part(c, v, k) = ExpressionPart(c, v, k)
  BY DEF Part
<1>5. /\ ReadPart(m, Read(e, v), v, k) = (IF v.t = "A" THEN "expr" ELSE ReadExpression(k))
      /\ WalkPart(m, w, v, i) = "none"
  BY <1>1, <1>3, Unwalked DEF ReadPart, Read
<1> HIDE DEF k
<1>6. /\ n + 1 <= 3 * (c.depth + 1) + 3 /\ n + 1 <= 3 * c.depth + 4 /\ n + 1 <= 3 * c.depth + 5
      /\ n + 1 <= 3 * c.depth + 6 /\ n + 1 <= 3 * c.depth + 7 /\ c.depth + 1 <= MaxDepth + 1
      /\ c.depth <= MaxDepth + 1
  BY <1>1, <1>2, <1>3
<1>7. CASE v.t = "A"
  BY <1>1, <1>2, <1>3, <1>4, <1>5, <1>6, <1>7, ExpressionCalls, DataCall
     DEF PartFits, k, ExpressionPart, Deeper
<1>8. CASE v.t = "D" /\ k = "$literal"
  BY <1>1, <1>2, <1>3, <1>4, <1>5, <1>6, <1>8, ExpressionCalls, DataCall
     DEF PartFits, k, ExpressionPart, ReadExpression, Deeper, Data
<1>9. CASE v.t = "D" /\ k # "$literal" /\ IsOperator(k) /\ k \in Operators
  BY <1>1, <1>2, <1>3, <1>4, <1>5, <1>6, <1>9, ExpressionCalls, DataCall
     DEF PartFits, k, ExpressionPart, ReadExpression, Deeper, Data
<1>10. CASE v.t = "D" /\ k # "$literal" /\ IsOperator(k) /\ k \notin Operators
  BY <1>1, <1>2, <1>3, <1>4, <1>5, <1>6, <1>10, ExpressionCalls, DataCall
     DEF PartFits, k, ExpressionPart, ReadExpression, Deeper, Data
<1>11. CASE v.t = "D" /\ k # "$literal" /\ ~IsOperator(k)
  BY <1>1, <1>2, <1>3, <1>4, <1>5, <1>6, <1>11, ExpressionCalls, DataCall
     DEF PartFits, k, ExpressionPart, ReadExpression, Deeper, Data
<1> QED
  BY <1>3, <1>7, <1>8, <1>9, <1>10, <1>11

LEMMA OperatorParts ==
  ASSUME NEW m, NEW c, NEW e, NEW w, NEW n, NEW v, NEW i,
         Here(m, c, e, w, n, v, i), c.fn = "Operator"
  PROVE  PartFits(m, c, e, w, n, v, i)
<1> DEFINE k == v.k[i]
<1>1. /\ (e = IF c.op \in Operators THEN "expr" ELSE "unlisted")
      /\ w = "none" /\ n <= 3 * c.depth + 3
  BY DEF Here, Fits, Plain
<1>2. /\ m \in Commands /\ c.depth \in Nat /\ n \in Nat /\ c.depth + 1 \in Nat /\ n + 1 \in Nat
      /\ 3 * (c.depth + 1) = 3 * c.depth + 3 /\ MaxDepth \in Nat
  BY Levels, DepthAssumption DEF Here
<1>3. c.depth <= MaxDepth /\ c.op \in Operators /\ v.t = "D" /\ ~IsOperator(k) /\ k # "$literal"
  BY Keyed DEF Here, Accepts, Stands, OperatorOK, Fields, Allowed, IsOperator, FieldNames, Doc
<1>4. Part(c, v, k) = OperatorPart(c, k)
  BY DEF Part
<1>5. ReadPart(m, Read(e, v), v, k) = "expr" /\ WalkPart(m, w, v, i) = "none"
  BY <1>1, <1>3, Unwalked DEF ReadPart, Read, ReadExpression
<1> HIDE DEF k
<1>6. /\ n + 1 <= 3 * (c.depth + 1) + 3 /\ n + 1 <= 3 * c.depth + 4 /\ n + 1 <= 3 * c.depth + 5
      /\ n + 1 <= 3 * c.depth + 6 /\ n + 1 <= 3 * c.depth + 7 /\ c.depth + 1 <= MaxDepth + 1
      /\ c.depth <= MaxDepth + 1
  BY <1>1, <1>2, <1>3
<1>7. CASE k = "as"
  BY <1>1, <1>2, <1>3, <1>4, <1>5, <1>6, <1>7, ExpressionCalls, UpdateCalls
     DEF PartFits, k, OperatorPart, Is
<1>8. CASE c.op = "$let" /\ k = "vars"
  BY <1>1, <1>2, <1>3, <1>4, <1>5, <1>6, <1>8, ExpressionCalls, UpdateCalls
     DEF PartFits, k, OperatorPart, Deeper
<1>9. CASE c.op = "$switch" /\ k = "branches"
  BY <1>1, <1>2, <1>3, <1>4, <1>5, <1>6, <1>9, ExpressionCalls, UpdateCalls
     DEF PartFits, k, OperatorPart, Same
<1>10. CASE k # "as" /\ ~(c.op = "$let" /\ k = "vars") /\ ~(c.op = "$switch" /\ k = "branches")
  BY <1>1, <1>2, <1>3, <1>4, <1>5, <1>6, <1>10, ExpressionCalls, UpdateCalls
     DEF PartFits, k, OperatorPart, Deeper
<1> QED
  BY <1>3, <1>7, <1>8, <1>9, <1>10

LEMMA BindingsParts ==
  ASSUME NEW m, NEW c, NEW e, NEW w, NEW n, NEW v, NEW i,
         Here(m, c, e, w, n, v, i), c.fn = "Bindings"
  PROVE  PartFits(m, c, e, w, n, v, i)
<1> DEFINE k == v.k[i]
<1>1. e = "expr" /\ w = "none" /\ n <= 3 * c.depth + 3 /\ c.depth <= MaxDepth + 1
  BY DEF Here, Fits, Plain, Beyond
<1>2. /\ m \in Commands /\ c.depth \in Nat /\ n \in Nat /\ c.depth + 1 \in Nat /\ n + 1 \in Nat
      /\ 3 * (c.depth + 1) = 3 * c.depth + 3 /\ MaxDepth \in Nat
  BY Levels, DepthAssumption DEF Here
<1>3. v.t = "D" /\ ~IsOperator(k) /\ k # "$literal"
  BY Keyed DEF Here, Accepts, FieldDoc, HasOperator, IsOperator, FieldNames
<1>4. Part(c, v, k) = At("Expression", "", c.depth + 1)
  BY DEF Part, Deeper
<1>5. ReadPart(m, Read(e, v), v, k) = "expr" /\ WalkPart(m, w, v, i) = "none"
  BY <1>1, <1>3, Unwalked DEF ReadPart, Read, ReadExpression
<1> HIDE DEF k
<1>6. /\ n + 1 <= 3 * (c.depth + 1) + 3 /\ n + 1 <= 3 * c.depth + 4 /\ n + 1 <= 3 * c.depth + 5
      /\ n + 1 <= 3 * c.depth + 6 /\ n + 1 <= 3 * c.depth + 7
  BY <1>1, <1>2, <1>3
<1> QED
  BY <1>1, <1>2, <1>4, <1>5, <1>6, ExpressionCalls DEF PartFits, k, Deeper

LEMMA BranchesParts ==
  ASSUME NEW m, NEW c, NEW e, NEW w, NEW n, NEW v, NEW i,
         Here(m, c, e, w, n, v, i), c.fn = "Branches"
  PROVE  PartFits(m, c, e, w, n, v, i)
<1> DEFINE k == v.k[i]
<1>1. e = "expr" /\ w = "none" /\ n <= 3 * c.depth + 4 /\ c.depth <= MaxDepth
  BY DEF Here, Fits, Plain, Shallow
<1>2. /\ m \in Commands /\ c.depth \in Nat /\ n \in Nat /\ c.depth + 1 \in Nat /\ n + 1 \in Nat
      /\ 3 * (c.depth + 1) = 3 * c.depth + 3 /\ MaxDepth \in Nat
  BY Levels, DepthAssumption DEF Here
<1>3. v.t = "A"
  BY Keyed DEF Here, Accepts, NonEmpty
<1>4. Part(c, v, k) = At("Branch", "", c.depth)
  BY DEF Part, Same
<1>5. ReadPart(m, Read(e, v), v, k) = "expr" /\ WalkPart(m, w, v, i) = "none"
  BY <1>1, <1>3, Unwalked DEF ReadPart, Read
<1> HIDE DEF k
<1>6. /\ n + 1 <= 3 * (c.depth + 1) + 3 /\ n + 1 <= 3 * c.depth + 5 /\ n + 1 <= 3 * c.depth + 6
      /\ n + 1 <= 3 * c.depth + 7 /\ c.depth + 1 <= MaxDepth + 1 /\ c.depth <= MaxDepth + 1
  BY <1>1, <1>2, <1>3
<1> QED
  BY <1>1, <1>2, <1>4, <1>5, <1>6, ExpressionCalls DEF PartFits, k, Same

LEMMA ProjectionParts ==
  ASSUME NEW m, NEW c, NEW e, NEW w, NEW n, NEW v, NEW i,
         Here(m, c, e, w, n, v, i), c.fn = "Projection"
  PROVE  PartFits(m, c, e, w, n, v, i)
<1> DEFINE k == v.k[i]
<1>1. /\ (e = IF c.op = "find" THEN "projection" ELSE "expr")
      /\ w = "none" /\ n <= 3 * c.depth + 3 /\ c.depth <= MaxDepth + 1
  BY DEF Here, Fits, Plain, Beyond
<1>2. /\ m \in Commands /\ c.depth \in Nat /\ n \in Nat /\ c.depth + 1 \in Nat /\ n + 1 \in Nat
      /\ 3 * (c.depth + 1) = 3 * c.depth + 3 /\ MaxDepth \in Nat
  BY Levels, DepthAssumption DEF Here
<1>3. v.t = "D" /\ ~IsOperator(k) /\ k # "$literal"
  BY Keyed DEF Here, Accepts, FieldDoc, HasOperator, IsOperator, FieldNames
<1>4. Part(c, v, k) = At("Projected", c.op, c.depth)
  BY DEF Part, ProjectionPart
<1>5. /\ ReadPart(m, Read(e, v), v, k) = (IF c.op = "find" THEN "projected" ELSE "expr")
      /\ WalkPart(m, w, v, i) = "none"
  BY <1>1, <1>3, Unwalked DEF ReadPart, Read, ReadExpression
<1> HIDE DEF k
<1>6. /\ n + 1 <= 3 * (c.depth + 1) + 3 /\ n + 1 <= 3 * c.depth + 4 /\ n + 1 <= 3 * c.depth + 5
      /\ n + 1 <= 3 * c.depth + 6 /\ n + 1 <= 3 * c.depth + 7
  BY <1>1, <1>2, <1>3
<1>7. CASE c.op = "find"
  BY <1>1, <1>2, <1>3, <1>4, <1>5, <1>6, <1>7, ExpressionCalls
     DEF PartFits, k, Same
<1>8. CASE c.op # "find"
  BY <1>1, <1>2, <1>3, <1>4, <1>5, <1>6, <1>8, ExpressionCalls
     DEF PartFits, k, Same
<1> QED
  BY <1>3, <1>7, <1>8

LEMMA ProjectedParts ==
  ASSUME NEW m, NEW c, NEW e, NEW w, NEW n, NEW v, NEW i,
         Here(m, c, e, w, n, v, i), c.fn = "Projected"
  PROVE  PartFits(m, c, e, w, n, v, i)
<1> DEFINE k == v.k[i]
<1>1. /\ (e = IF c.op = "find" THEN "projected" ELSE "expr")
      /\ w = "none" /\ n <= 3 * c.depth + 4 /\ c.depth <= MaxDepth + 1
  BY DEF Here, Fits, Plain, Beyond
<1>2. /\ m \in Commands /\ c.depth \in Nat /\ n \in Nat /\ c.depth + 1 \in Nat /\ n + 1 \in Nat
      /\ 3 * (c.depth + 1) = 3 * c.depth + 3 /\ MaxDepth \in Nat
  BY Levels, DepthAssumption DEF Here
<1>3. c.op = "find" /\ ElementOnly(v)
  BY Keyed DEF Here, Accepts, Stands
<1>4. Part(c, v, k) = At("ElementMatch", "", c.depth + 1)
  BY DEF Part, Deeper
<1>5. ReadPart(m, Read(e, v), v, k) = "elem" /\ WalkPart(m, w, v, i) = "none"
  BY <1>1, <1>3, Unwalked DEF ReadPart, Read
<1> HIDE DEF k
<1>6. /\ n + 1 <= 3 * (c.depth + 1) + 3 /\ n + 1 <= 3 * c.depth + 5 /\ n + 1 <= 3 * c.depth + 6
      /\ n + 1 <= 3 * c.depth + 7
  BY <1>1, <1>2, <1>3
<1> QED
  BY <1>1, <1>2, <1>4, <1>5, <1>6, QueryCalls DEF PartFits, k, Same

LEMMA GroupParts ==
  ASSUME NEW m, NEW c, NEW e, NEW w, NEW n, NEW v, NEW i,
         Here(m, c, e, w, n, v, i), c.fn = "Group"
  PROVE  PartFits(m, c, e, w, n, v, i)
<1> DEFINE k == v.k[i]
<1>1. e = "expr" /\ w = "none" /\ n <= 3 * c.depth + 5 /\ c.depth <= MaxDepth
  BY DEF Here, Fits, Plain, Shallow
<1>2. /\ m \in Commands /\ c.depth \in Nat /\ n \in Nat /\ c.depth + 1 \in Nat /\ n + 1 \in Nat
      /\ 3 * (c.depth + 1) = 3 * c.depth + 3 /\ MaxDepth \in Nat
  BY Levels, DepthAssumption DEF Here
<1>3. v.t = "D" /\ ~IsOperator(k) /\ k # "$literal"
  BY Keyed DEF Here, Accepts, GroupOK, FieldDoc, HasOperator, IsOperator, FieldNames
<1>4. Part(c, v, k) = GroupPart(c, k)
  BY DEF Part
<1>5. ReadPart(m, Read(e, v), v, k) = "expr" /\ WalkPart(m, w, v, i) = "none"
  BY <1>1, <1>3, Unwalked DEF ReadPart, Read, ReadExpression
<1> HIDE DEF k
<1>6. /\ n + 1 <= 3 * (c.depth + 1) + 3 /\ n + 1 <= 3 * c.depth + 6 /\ n + 1 <= 3 * c.depth + 7
      /\ c.depth + 1 <= MaxDepth + 1 /\ c.depth <= MaxDepth + 1
  BY <1>1, <1>2, <1>3
<1>7. CASE k = "_id"
  BY <1>1, <1>2, <1>3, <1>4, <1>5, <1>6, <1>7, ExpressionCalls, PipelineCalls
     DEF PartFits, k, GroupPart, Deeper
<1>8. CASE k # "_id"
  BY <1>1, <1>2, <1>3, <1>4, <1>5, <1>6, <1>8, ExpressionCalls, PipelineCalls
     DEF PartFits, k, GroupPart, Same
<1> QED
  BY <1>3, <1>7, <1>8

LEMMA ReplaceRootParts ==
  ASSUME NEW m, NEW c, NEW e, NEW w, NEW n, NEW v, NEW i,
         Here(m, c, e, w, n, v, i), c.fn = "ReplaceRoot"
  PROVE  PartFits(m, c, e, w, n, v, i)
<1> DEFINE k == v.k[i]
<1>1. e = "expr" /\ w = "none" /\ n <= 3 * c.depth + 5 /\ c.depth <= MaxDepth
  BY DEF Here, Fits, Plain, Shallow
<1>2. /\ m \in Commands /\ c.depth \in Nat /\ n \in Nat /\ c.depth + 1 \in Nat /\ n + 1 \in Nat
      /\ 3 * (c.depth + 1) = 3 * c.depth + 3 /\ MaxDepth \in Nat
  BY Levels, DepthAssumption DEF Here
<1>3. v.t = "D" /\ k = "newRoot"
  BY Keyed DEF Here, Accepts, ReplaceRootOK, Single
<1>4. Part(c, v, k) = At("Expression", "", c.depth + 1)
  BY DEF Part, Deeper
<1>5. ReadPart(m, Read(e, v), v, k) = "expr" /\ WalkPart(m, w, v, i) = "none"
  BY <1>1, <1>3, Unwalked DEF ReadPart, Read, ReadExpression, IsOperator, FieldNames
<1> HIDE DEF k
<1>6. /\ n + 1 <= 3 * (c.depth + 1) + 3 /\ n + 1 <= 3 * c.depth + 6 /\ n + 1 <= 3 * c.depth + 7
      /\ c.depth + 1 <= MaxDepth + 1 /\ c.depth <= MaxDepth + 1
  BY <1>1, <1>2, <1>3
<1> QED
  BY <1>1, <1>2, <1>4, <1>5, <1>6, ExpressionCalls DEF PartFits, k, Same

LEMMA SortParts ==
  ASSUME NEW m, NEW c, NEW e, NEW w, NEW n, NEW v, NEW i,
         Here(m, c, e, w, n, v, i), c.fn = "Sort"
  PROVE  PartFits(m, c, e, w, n, v, i)
<1> DEFINE k == v.k[i]
<1>1. e = "none" /\ w = "none" /\ n <= 3 * c.depth + 6 /\ c.depth <= MaxDepth
  BY DEF Here, Fits, Plain, Shallow
<1>2. /\ m \in Commands /\ c.depth \in Nat /\ n \in Nat /\ c.depth + 1 \in Nat /\ n + 1 \in Nat
      /\ 3 * (c.depth + 1) = 3 * c.depth + 3 /\ MaxDepth \in Nat
  BY Levels, DepthAssumption DEF Here
<1>3. v.t \in {"A", "D"}
  BY Keyed DEF Here, Accepts
<1>4. Part(c, v, k) = At("Is", "number", c.depth)
  BY DEF Part, Is
<1>5. ReadPart(m, Read(e, v), v, k) = "none" /\ WalkPart(m, w, v, i) = "none"
  BY <1>1, <1>3, Unwalked DEF ReadPart, Read
<1> HIDE DEF k
<1>6. /\ n + 1 <= 3 * c.depth + 7 /\ c.depth + 1 <= MaxDepth + 1 /\ c.depth <= MaxDepth + 1
  BY <1>1, <1>2, <1>3
<1> QED
  BY <1>1, <1>2, <1>4, <1>5, <1>6, UpdateCalls DEF PartFits, k, Is

LEMMA UnsetParts ==
  ASSUME NEW m, NEW c, NEW e, NEW w, NEW n, NEW v, NEW i,
         Here(m, c, e, w, n, v, i), c.fn = "Unset"
  PROVE  PartFits(m, c, e, w, n, v, i)
<1> DEFINE k == v.k[i]
<1>1. e = "none" /\ w = "none" /\ n <= 3 * c.depth + 5 /\ c.depth <= MaxDepth
  BY DEF Here, Fits, Plain, Shallow
<1>2. /\ m \in Commands /\ c.depth \in Nat /\ n \in Nat /\ c.depth + 1 \in Nat /\ n + 1 \in Nat
      /\ 3 * (c.depth + 1) = 3 * c.depth + 3 /\ MaxDepth \in Nat
  BY Levels, DepthAssumption DEF Here
<1>3. v.t \in {"A", "D"}
  BY Keyed DEF Here, Accepts
<1>4. Part(c, v, k) = At("Is", "field", c.depth)
  BY DEF Part, Is
<1>5. ReadPart(m, Read(e, v), v, k) = "none" /\ WalkPart(m, w, v, i) = "none"
  BY <1>1, <1>3, Unwalked DEF ReadPart, Read
<1> HIDE DEF k
<1>6. /\ n + 1 <= 3 * (c.depth + 1) + 3 /\ n + 1 <= 3 * c.depth + 6 /\ n + 1 <= 3 * c.depth + 7
      /\ c.depth + 1 <= MaxDepth + 1 /\ c.depth <= MaxDepth + 1
  BY <1>1, <1>2, <1>3
<1> QED
  BY <1>1, <1>2, <1>4, <1>5, <1>6, UpdateCalls DEF PartFits, k, Is

LEMMA BitParts ==
  ASSUME NEW m, NEW c, NEW e, NEW w, NEW n, NEW v, NEW i,
         Here(m, c, e, w, n, v, i), c.fn = "Bit"
  PROVE  PartFits(m, c, e, w, n, v, i)
<1> DEFINE k == v.k[i]
<1>1. e = "none" /\ w = "none" /\ n <= 3 * c.depth + 5 /\ c.depth <= MaxDepth
  BY DEF Here, Fits, Plain, Shallow
<1>2. /\ m \in Commands /\ c.depth \in Nat /\ n \in Nat /\ c.depth + 1 \in Nat /\ n + 1 \in Nat
      /\ 3 * (c.depth + 1) = 3 * c.depth + 3 /\ MaxDepth \in Nat
  BY Levels, DepthAssumption DEF Here
<1>3. v.t \in {"A", "D"}
  BY Keyed DEF Here, Accepts
<1>4. Part(c, v, k) = At("Is", "number", c.depth)
  BY DEF Part, Is
<1>5. ReadPart(m, Read(e, v), v, k) = "none" /\ WalkPart(m, w, v, i) = "none"
  BY <1>1, <1>3, Unwalked DEF ReadPart, Read
<1> HIDE DEF k
<1>6. /\ n + 1 <= 3 * (c.depth + 1) + 3 /\ n + 1 <= 3 * c.depth + 6 /\ n + 1 <= 3 * c.depth + 7
      /\ c.depth + 1 <= MaxDepth + 1 /\ c.depth <= MaxDepth + 1
  BY <1>1, <1>2, <1>3
<1> QED
  BY <1>1, <1>2, <1>4, <1>5, <1>6, UpdateCalls DEF PartFits, k, Is

LEMMA DocumentsParts ==
  ASSUME NEW m, NEW c, NEW e, NEW w, NEW n, NEW v, NEW i,
         Here(m, c, e, w, n, v, i), c.fn = "Documents"
  PROVE  PartFits(m, c, e, w, n, v, i)
<1> DEFINE k == v.k[i]
<1>1. e = "none" /\ w = "none" /\ n <= 3 * c.depth + 1 /\ c.depth <= MaxDepth
  BY DEF Here, Fits, Plain, Shallow
<1>2. /\ m \in Commands /\ c.depth \in Nat /\ n \in Nat /\ c.depth + 1 \in Nat /\ n + 1 \in Nat
      /\ 3 * (c.depth + 1) = 3 * c.depth + 3 /\ MaxDepth \in Nat
  BY Levels, DepthAssumption DEF Here
<1>3. v.t = "A"
  BY Keyed DEF Here, Accepts, NonEmpty
<1>4. Part(c, v, k) = At("Is", "document", c.depth)
  BY DEF Part, Is
<1>5. ReadPart(m, Read(e, v), v, k) = "none" /\ WalkPart(m, w, v, i) = "none"
  BY <1>1, <1>3, Unwalked DEF ReadPart, Read
<1> HIDE DEF k
<1>6. /\ n + 1 <= 3 * (c.depth + 1) + 3 /\ n + 1 <= 3 * c.depth + 2 /\ n + 1 <= 3 * c.depth + 3
      /\ n + 1 <= 3 * c.depth + 4 /\ n + 1 <= 3 * c.depth + 5 /\ n + 1 <= 3 * c.depth + 6
      /\ n + 1 <= 3 * c.depth + 7 /\ c.depth + 1 <= MaxDepth + 1 /\ c.depth <= MaxDepth + 1
  BY <1>1, <1>2, <1>3
<1> QED
  BY <1>1, <1>2, <1>4, <1>5, <1>6, UpdateCalls DEF PartFits, k, Is

LEMMA WritesParts ==
  ASSUME NEW m, NEW c, NEW e, NEW w, NEW n, NEW v, NEW i,
         Here(m, c, e, w, n, v, i), c.fn = "Writes"
  PROVE  PartFits(m, c, e, w, n, v, i)
<1> DEFINE k == v.k[i]
<1>1. e = "writes" /\ w = "none" /\ n <= 3 * c.depth + 1 /\ c.depth <= MaxDepth
  BY DEF Here, Fits, Plain, Shallow
<1>2. /\ m \in Commands /\ c.depth \in Nat /\ n \in Nat /\ c.depth + 1 \in Nat /\ n + 1 \in Nat
      /\ 3 * (c.depth + 1) = 3 * c.depth + 3 /\ MaxDepth \in Nat
  BY Levels, DepthAssumption DEF Here
<1>3. v.t = "A"
  BY Keyed DEF Here, Accepts, WritesOK, NonEmpty
<1>4. Part(c, v, k) = At("Write", c.op, c.depth)
  BY DEF Part, WritesPart
<1>5. ReadPart(m, Read(e, v), v, k) = "write" /\ WalkPart(m, w, v, i) = "none"
  BY <1>1, <1>3, Unwalked DEF ReadPart, Read
<1> HIDE DEF k
<1>6. /\ n + 1 <= 3 * (c.depth + 1) + 3 /\ n + 1 <= 3 * c.depth + 2 /\ n + 1 <= 3 * c.depth + 3
      /\ n + 1 <= 3 * c.depth + 4 /\ n + 1 <= 3 * c.depth + 5 /\ n + 1 <= 3 * c.depth + 6
      /\ n + 1 <= 3 * c.depth + 7 /\ c.depth + 1 <= MaxDepth + 1 /\ c.depth <= MaxDepth + 1
  BY <1>1, <1>2, <1>3
<1> QED
  BY <1>1, <1>2, <1>4, <1>5, <1>6, UpdateCalls DEF PartFits, k, Is

LEMMA WriteParts ==
  ASSUME NEW m, NEW c, NEW e, NEW w, NEW n, NEW v, NEW i,
         Here(m, c, e, w, n, v, i), c.fn = "Write"
  PROVE  PartFits(m, c, e, w, n, v, i)
<1> DEFINE k == v.k[i]
<1>1. e = "write" /\ w = "none" /\ n <= 3 * c.depth + 2 /\ c.depth <= MaxDepth
  BY DEF Here, Fits, Plain, Shallow
<1>2. /\ m \in Commands /\ c.depth \in Nat /\ n \in Nat /\ c.depth + 1 \in Nat /\ n + 1 \in Nat
      /\ 3 * (c.depth + 1) = 3 * c.depth + 3 /\ MaxDepth \in Nat
  BY Levels, DepthAssumption DEF Here
<1>3. k \in {"q", "u", "multi", "arrayFilters", "hint", "limit"}
  BY Keyed DEF Here, Accepts, WriteOK, Fields
<1>4. Part(c, v, k) = WritePart(c, k)
  BY DEF Part
<1>5. ReadPart(m, Read(e, v), v, k) = ReadWrite(k) /\ WalkPart(m, w, v, i) = "none"
  BY <1>1, <1>3, Unwalked DEF ReadPart, Read
<1> HIDE DEF k
<1>6. /\ n + 1 <= 3 * (c.depth + 1) + 3 /\ n + 1 <= 3 * c.depth + 3 /\ n + 1 <= 3 * c.depth + 4
      /\ n + 1 <= 3 * c.depth + 5 /\ n + 1 <= 3 * c.depth + 6 /\ n + 1 <= 3 * c.depth + 7
      /\ c.depth + 1 <= MaxDepth + 1 /\ c.depth <= MaxDepth + 1
  BY <1>1, <1>2, <1>3
<1>7. CASE k = "q"
  BY <1>1, <1>2, <1>3, <1>4, <1>5, <1>6, <1>7, QueryCalls, UpdateCalls
     DEF PartFits, k, WritePart, ReadWrite, Same
<1>8. CASE k = "u"
  BY <1>1, <1>2, <1>3, <1>4, <1>5, <1>6, <1>8, QueryCalls, UpdateCalls
     DEF PartFits, k, WritePart, ReadWrite, Same
<1>9. CASE k = "arrayFilters"
  BY <1>1, <1>2, <1>3, <1>4, <1>5, <1>6, <1>9, QueryCalls, UpdateCalls
     DEF PartFits, k, WritePart, ReadWrite, Same
<1>10. CASE k = "hint"
  BY <1>1, <1>2, <1>3, <1>4, <1>5, <1>6, <1>10, QueryCalls, UpdateCalls
     DEF PartFits, k, WritePart, ReadWrite
<1>11. CASE k = "multi"
  BY <1>1, <1>2, <1>3, <1>4, <1>5, <1>6, <1>11, QueryCalls, UpdateCalls
     DEF PartFits, k, WritePart, ReadWrite, Is
<1>12. CASE k = "limit"
  BY <1>1, <1>2, <1>3, <1>4, <1>5, <1>6, <1>12, QueryCalls, UpdateCalls
     DEF PartFits, k, WritePart, ReadWrite, Is
<1> QED
  BY <1>3, <1>7, <1>8, <1>9, <1>10, <1>11, <1>12

LEMMA UpdateParts ==
  ASSUME NEW m, NEW c, NEW e, NEW w, NEW n, NEW v, NEW i,
         Here(m, c, e, w, n, v, i), c.fn = "Update"
  PROVE  PartFits(m, c, e, w, n, v, i)
<1> DEFINE k == v.k[i]
<1>1. e = "update" /\ w = "none" /\ n <= 3 * c.depth + 3 /\ c.depth <= MaxDepth
  BY DEF Here, Fits, Plain, Shallow
<1>2. /\ m \in Commands /\ c.depth \in Nat /\ n \in Nat /\ c.depth + 1 \in Nat /\ n + 1 \in Nat
      /\ 3 * (c.depth + 1) = 3 * c.depth + 3 /\ MaxDepth \in Nat
  BY Levels, DepthAssumption DEF Here
<1>3. v.t = "D" /\ (HasOperator(v) => k \in Modifiers)
  BY Keyed DEF Here, Accepts, Stands, UpdateOK, Fields
<1>4. Part(c, v, k) = UpdatePart(c, v, k)
  BY DEF Part
<1>5. /\ ReadPart(m, Read(e, v), v, k) = (IF HasOperator(v) THEN ReadModifier(k) ELSE "none")
      /\ WalkPart(m, w, v, i) = "none"
  BY <1>1, <1>3, Unwalked DEF ReadPart, Read
<1> HIDE DEF k
<1>6. /\ n + 1 <= 3 * (c.depth + 1) + 3 /\ n + 1 <= 3 * c.depth + 4 /\ n + 1 <= 3 * c.depth + 5
      /\ n + 1 <= 3 * c.depth + 6 /\ n + 1 <= 3 * c.depth + 7 /\ c.depth + 1 <= MaxDepth + 1
      /\ c.depth <= MaxDepth + 1
  BY <1>1, <1>2, <1>3
<1>7. CASE ~HasOperator(v)
  BY <1>1, <1>2, <1>3, <1>4, <1>5, <1>6, <1>7, UpdateCalls, DataCall
     DEF PartFits, k, UpdatePart
<1>8. CASE HasOperator(v) /\ k = "$pull"
  BY <1>1, <1>2, <1>3, <1>4, <1>5, <1>6, <1>8, UpdateCalls, DataCall
     DEF PartFits, k, UpdatePart, ReadModifier
<1>9. CASE HasOperator(v) /\ k # "$pull"
  BY <1>1, <1>2, <1>3, <1>4, <1>5, <1>6, <1>9, UpdateCalls, DataCall
     DEF PartFits, k, UpdatePart, ReadModifier
<1> QED
  BY <1>3, <1>7, <1>8, <1>9

LEMMA ModifierParts ==
  ASSUME NEW m, NEW c, NEW e, NEW w, NEW n, NEW v, NEW i,
         Here(m, c, e, w, n, v, i), c.fn = "Modifier"
  PROVE  PartFits(m, c, e, w, n, v, i)
<1> DEFINE k == v.k[i]
<1>1. /\ (e = IF c.op = "$pull" THEN "pulls" ELSE "none")
      /\ w = "none" /\ n <= 3 * c.depth + 4 /\ c.depth <= MaxDepth
  BY DEF Here, Fits, Plain, Shallow
<1>2. /\ m \in Commands /\ c.depth \in Nat /\ n \in Nat /\ c.depth + 1 \in Nat /\ n + 1 \in Nat
      /\ 3 * (c.depth + 1) = 3 * c.depth + 3 /\ MaxDepth \in Nat
  BY Levels, DepthAssumption DEF Here
<1>3. v.t = "D"
  BY Keyed DEF Here, Accepts, FieldDoc
<1>4. Part(c, v, k) = ModifierPart(c, k)
  BY DEF Part
<1>5. /\ ReadPart(m, Read(e, v), v, k) = (IF c.op = "$pull" THEN "pull" ELSE "none")
      /\ WalkPart(m, w, v, i) = "none"
  BY <1>1, <1>3, Unwalked DEF ReadPart, Read
<1> HIDE DEF k
<1>6. /\ n + 1 <= 3 * (c.depth + 1) + 3 /\ n + 1 <= 3 * c.depth + 5 /\ n + 1 <= 3 * c.depth + 6
      /\ n + 1 <= 3 * c.depth + 7 /\ c.depth + 1 <= MaxDepth + 1 /\ c.depth <= MaxDepth + 1
  BY <1>1, <1>2, <1>3
<1>7. CASE c.op = "$pull"
  BY <1>1, <1>2, <1>3, <1>4, <1>5, <1>6, <1>7, UpdateCalls, PullCall, DataCall
     DEF PartFits, k, ModifierPart, Deeper
<1>8. CASE c.op = "$push"
  BY <1>1, <1>2, <1>3, <1>4, <1>5, <1>6, <1>8, UpdateCalls, PullCall, DataCall
     DEF PartFits, k, ModifierPart, Same
<1>9. CASE c.op = "$bit"
  BY <1>1, <1>2, <1>3, <1>4, <1>5, <1>6, <1>9, UpdateCalls, PullCall, DataCall
     DEF PartFits, k, ModifierPart, Same
<1>10. CASE c.op = "$inc"
  BY <1>1, <1>2, <1>3, <1>4, <1>5, <1>6, <1>10, UpdateCalls, PullCall, DataCall
     DEF PartFits, k, ModifierPart, Is
<1>11. CASE c.op \notin {"$pull", "$push", "$bit", "$inc"}
  BY <1>1, <1>2, <1>3, <1>4, <1>5, <1>6, <1>11, UpdateCalls, PullCall, DataCall
     DEF PartFits, k, ModifierPart
<1> QED
  BY <1>3, <1>7, <1>8, <1>9, <1>10, <1>11

LEMMA PushParts ==
  ASSUME NEW m, NEW c, NEW e, NEW w, NEW n, NEW v, NEW i,
         Here(m, c, e, w, n, v, i), c.fn = "Push"
  PROVE  PartFits(m, c, e, w, n, v, i)
<1> DEFINE k == v.k[i]
<1>1. e = "none" /\ w = "none" /\ n <= 3 * c.depth + 5 /\ c.depth <= MaxDepth
  BY DEF Here, Fits, Plain, Shallow
<1>2. /\ m \in Commands /\ c.depth \in Nat /\ n \in Nat /\ c.depth + 1 \in Nat /\ n + 1 \in Nat
      /\ 3 * (c.depth + 1) = 3 * c.depth + 3 /\ MaxDepth \in Nat
  BY Levels, DepthAssumption DEF Here
<1>3. v.t \in {"A", "D"}
  BY Keyed DEF Here, Accepts
<1>4. Part(c, v, k) = PushPart(c, v, k)
  BY DEF Part
<1>5. ReadPart(m, Read(e, v), v, k) = "none" /\ WalkPart(m, w, v, i) = "none"
  BY <1>1, <1>3, Unwalked DEF ReadPart, Read
<1> HIDE DEF k
<1>6. /\ n + 1 <= 3 * (c.depth + 1) + 3 /\ n + 1 <= 3 * c.depth + 6 /\ n + 1 <= 3 * c.depth + 7
      /\ c.depth + 1 <= MaxDepth + 1 /\ c.depth <= MaxDepth + 1
  BY <1>1, <1>2, <1>3
<1>7. CASE ~HasOperator(v)
  BY <1>1, <1>2, <1>3, <1>4, <1>5, <1>6, <1>7, UpdateCalls, DataCall
     DEF PartFits, k, PushPart
<1>8. CASE HasOperator(v) /\ k = "$each"
  BY <1>1, <1>2, <1>3, <1>4, <1>5, <1>6, <1>8, UpdateCalls, DataCall
     DEF PartFits, k, PushPart, Is
<1>9. CASE HasOperator(v) /\ k # "$each"
  BY <1>1, <1>2, <1>3, <1>4, <1>5, <1>6, <1>9, UpdateCalls, DataCall
     DEF PartFits, k, PushPart
<1> QED
  BY <1>3, <1>7, <1>8, <1>9

LEMMA PipelineParts ==
  ASSUME NEW m, NEW c, NEW e, NEW w, NEW n, NEW v, NEW i,
         Here(m, c, e, w, n, v, i), c.fn = "Pipeline"
  PROVE  PartFits(m, c, e, w, n, v, i)
<1> DEFINE k == v.k[i]
<1>1. /\ e = "stages" /\ n <= 3 * c.depth + 3
      /\ \/ c.op = "aggregate" /\ m = "aggregate" /\ w \in {"pipeline!", "pipeline"}
         \/ c.op = "update" /\ w = "none"
  BY DEF Here, Fits
<1>2. /\ m \in Commands /\ c.depth \in Nat /\ n \in Nat /\ n + 1 \in Nat /\ MaxDepth \in Nat
  BY Levels, DepthAssumption DEF Here
<1>3. c.depth <= MaxDepth /\ v.t = "A"
  BY DEF Here, Accepts, PipelineOK
<1>4. Part(c, v, k) = At("Stage", c.op, c.depth)
  BY DEF Part, PipelinePart
<1>5. ReadPart(m, Read(e, v), v, k) = "stage"
  BY <1>1 DEF ReadPart, Read
<1>6. WalkPart(m, w, v, i) = IF c.op = "aggregate" THEN "stage" ELSE "none"
  BY <1>1, <1>3 DEF WalkPart
<1> HIDE DEF k
<1>7. n + 1 <= 3 * c.depth + 4
  BY <1>1, <1>2
<1> QED
  BY <1>1, <1>2, <1>3, <1>4, <1>5, <1>6, <1>7, PipelineCalls DEF PartFits, k

LEMMA StageParts ==
  ASSUME NEW m, NEW c, NEW e, NEW w, NEW n, NEW v, NEW i,
         Here(m, c, e, w, n, v, i), c.fn = "Stage"
  PROVE  PartFits(m, c, e, w, n, v, i)
<1> DEFINE k == v.k[i]
<1>1. /\ e = "stage" /\ n <= 3 * c.depth + 4 /\ c.depth <= MaxDepth
      /\ \/ c.op = "aggregate" /\ m = "aggregate" /\ w = "stage"
         \/ c.op = "update" /\ w = "none"
  BY DEF Here, Fits
<1>2. /\ m \in Commands /\ c.depth \in Nat /\ n \in Nat /\ c.depth + 1 \in Nat /\ n + 1 \in Nat
      /\ 3 * (c.depth + 1) = 3 * c.depth + 3 /\ MaxDepth \in Nat
  BY Levels, DepthAssumption DEF Here
<1>3. i = 1
  BY Keyed DEF Here, Accepts, StageOK, Single
<1>4. /\ v.t = "D" /\ k \in Stages
      /\ c.op = "update" => k \in UpdateStages
  BY <1>3 DEF Here, Accepts, StageOK, Single
<1>5. Part(c, v, k) = StagePart(c, k)
  BY DEF Part
<1>6. ReadPart(m, Read(e, v), v, k) = ReadStage(k)
  BY <1>1 DEF ReadPart, Read
<1>7. WalkPart(m, w, v, i) = IF c.op = "aggregate" THEN WalkStage(k) ELSE "none"
  BY <1>1, <1>3 DEF WalkPart
<1> HIDE DEF k
<1>8. /\ n + 1 <= 3 * (c.depth + 1) + 3 /\ n + 1 <= 3 * c.depth + 5 /\ n + 1 <= 3 * c.depth + 6
      /\ n + 1 <= 3 * c.depth + 7 /\ c.depth + 1 <= MaxDepth + 1
  BY <1>1, <1>2
<1>9. CASE k \in {"$lookup", "$unionWith", "$facet"}
  <2>1. c.op = "aggregate" /\ m = "aggregate"
    BY <1>1, <1>4, <1>9 DEF UpdateStages
  <2> QED
    BY <2>1, <1>1, <1>2, <1>5, <1>6, <1>7, <1>8, <1>9, PipelineCalls
       DEF PartFits, k, StagePart, ReadStage, WalkStage, Same
<1>10. CASE k \notin {"$lookup", "$unionWith", "$facet"}
  <2>1. WalkPart(m, w, v, i) = "none"
    BY <1>7, <1>10 DEF WalkStage
  <2>2. CASE k = "$match"
    BY <1>2, <1>5, <1>6, <1>8, <2>1, <2>2, QueryCalls DEF PartFits, k, StagePart, ReadStage, Deeper
  <2>3. CASE k \in {"$project", "$set"}
    BY <1>2, <1>5, <1>6, <1>8, <2>1, <2>3, ExpressionCalls DEF PartFits, k, StagePart, ReadStage
  <2>4. CASE k \in {"$group", "$replaceRoot"}
    BY <1>1, <1>2, <1>5, <1>6, <1>8, <2>1, <2>4, PipelineCalls
       DEF PartFits, k, StagePart, ReadStage, Same
  <2>5. CASE k = "$replaceWith"
    BY <1>2, <1>5, <1>6, <1>8, <2>1, <2>5, ExpressionCalls
       DEF PartFits, k, StagePart, ReadStage, Deeper
  <2>6. CASE k = "$unset"
    BY <1>1, <1>2, <1>5, <1>6, <1>8, <2>1, <2>6, PipelineCalls
       DEF PartFits, k, StagePart, ReadStage, Same, Stages
  <2>7. CASE k \in {"$sort", "$limit"}
    BY <1>1, <1>2, <1>5, <1>6, <1>8, <2>1, <2>7, UpdateCalls
       DEF PartFits, k, StagePart, ReadStage, Is, Stages
  <2> QED
    BY <1>4, <1>10, <2>2, <2>3, <2>4, <2>5, <2>6, <2>7 DEF Stages
<1> QED
  BY <1>9, <1>10

LEMMA LookupParts ==
  ASSUME NEW m, NEW c, NEW e, NEW w, NEW n, NEW v, NEW i,
         Here(m, c, e, w, n, v, i), c.fn = "Lookup"
  PROVE  PartFits(m, c, e, w, n, v, i)
<1> DEFINE k == v.k[i]
<1>1. /\ e = "join" /\ w = "lookup" /\ m = "aggregate"
      /\ n <= 3 * c.depth + 5 /\ c.depth <= MaxDepth
  BY DEF Here, Fits, Joined
<1>2. /\ m \in Commands /\ c.depth \in Nat /\ n \in Nat /\ c.depth + 1 \in Nat /\ n + 1 \in Nat
      /\ 3 * (c.depth + 1) = 3 * c.depth + 3 /\ MaxDepth \in Nat
  BY Levels, DepthAssumption DEF Here
<1>3. k \in {"from", "as", "localField", "foreignField", "let", "pipeline"}
  BY Keyed DEF Here, Accepts, LookupOK, Fields
<1>4. Part(c, v, k) = LookupPart(c, k)
  BY DEF Part
<1>5. ReadPart(m, Read(e, v), v, k) = ReadJoin(k)
  BY <1>1 DEF ReadPart, Read
<1>6. WalkPart(m, w, v, i) = CASE k = "from" -> "collection"
                               [] k = "pipeline" -> "pipeline"
                               [] OTHER -> "none"
  BY <1>1 DEF WalkPart
<1> HIDE DEF k
<1>7. /\ n + 1 <= 3 * (c.depth + 1) + 3 /\ n + 1 <= 3 * c.depth + 6 /\ n + 1 <= 3 * c.depth + 7
      /\ c.depth + 1 <= MaxDepth + 1
  BY <1>1, <1>2
<1>8. CASE k = "from"
  BY <1>1, <1>2, <1>4, <1>5, <1>6, <1>7, <1>8, PipelineCalls
     DEF PartFits, k, LookupPart, ReadJoin, Same
<1>9. CASE k = "pipeline"
  BY <1>1, <1>2, <1>4, <1>5, <1>6, <1>7, <1>9, PipelineCalls
     DEF PartFits, k, LookupPart, ReadJoin
<1>10. CASE k = "let"
  BY <1>1, <1>2, <1>4, <1>5, <1>6, <1>7, <1>10, ExpressionCalls
     DEF PartFits, k, LookupPart, ReadJoin, Deeper
<1>11. CASE k \in {"as", "localField", "foreignField"}
  BY <1>1, <1>2, <1>4, <1>5, <1>6, <1>7, <1>11, UpdateCalls
     DEF PartFits, k, LookupPart, ReadJoin, Is, IsOperator, FieldNames
<1> QED
  BY <1>3, <1>8, <1>9, <1>10, <1>11

LEMMA UnionParts ==
  ASSUME NEW m, NEW c, NEW e, NEW w, NEW n, NEW v, NEW i,
         Here(m, c, e, w, n, v, i), c.fn = "Union"
  PROVE  PartFits(m, c, e, w, n, v, i)
<1> DEFINE k == v.k[i]
<1>1. /\ e = "join" /\ w = "union" /\ m = "aggregate"
      /\ n <= 3 * c.depth + 5 /\ c.depth <= MaxDepth
  BY DEF Here, Fits, Joined
<1>2. /\ m \in Commands /\ c.depth \in Nat /\ n \in Nat /\ c.depth + 1 \in Nat /\ n + 1 \in Nat
      /\ 3 * (c.depth + 1) = 3 * c.depth + 3 /\ MaxDepth \in Nat
  BY Levels, DepthAssumption DEF Here
<1>3. k \in {"coll", "pipeline"}
  BY Keyed DEF Here, Accepts, UnionOK, Fields, CollectionOK
<1>4. Part(c, v, k) = UnionPart(c, k)
  BY DEF Part
<1>5. ReadPart(m, Read(e, v), v, k) = ReadJoin(k)
  BY <1>1 DEF ReadPart, Read
<1>6. WalkPart(m, w, v, i) = IF k = "coll" THEN "collection" ELSE "pipeline"
  BY <1>1, <1>3 DEF WalkPart
<1> HIDE DEF k
<1>7. n + 1 <= 3 * (c.depth + 1) + 3 /\ n + 1 <= 3 * c.depth + 6
  BY <1>1, <1>2
<1>8. CASE k = "coll"
  BY <1>1, <1>2, <1>4, <1>5, <1>6, <1>7, <1>8, PipelineCalls
     DEF PartFits, k, UnionPart, ReadJoin, Same
<1>9. CASE k = "pipeline"
  BY <1>1, <1>2, <1>4, <1>5, <1>6, <1>7, <1>9, PipelineCalls
     DEF PartFits, k, UnionPart, ReadJoin
<1> QED
  BY <1>3, <1>8, <1>9

LEMMA FacetParts ==
  ASSUME NEW m, NEW c, NEW e, NEW w, NEW n, NEW v, NEW i,
         Here(m, c, e, w, n, v, i), c.fn = "Facet"
  PROVE  PartFits(m, c, e, w, n, v, i)
<1> DEFINE k == v.k[i]
<1>1. /\ e = "facet" /\ w = "facet" /\ m = "aggregate"
      /\ n <= 3 * c.depth + 5 /\ c.depth <= MaxDepth
  BY DEF Here, Fits, Joined
<1>2. /\ m \in Commands /\ c.depth \in Nat /\ n \in Nat /\ c.depth + 1 \in Nat /\ n + 1 \in Nat
      /\ 3 * (c.depth + 1) = 3 * c.depth + 3
  BY Levels DEF Here
<1>3. Part(c, v, k) = At("Pipeline", "aggregate", c.depth + 1)
  BY DEF Part, FacetPart
<1>4. ReadPart(m, Read(e, v), v, k) = "stages" /\ WalkPart(m, w, v, i) = "pipeline!"
  BY <1>1 DEF ReadPart, Read, WalkPart
<1> HIDE DEF k
<1>5. n + 1 <= 3 * (c.depth + 1) + 3
  BY <1>1, <1>2
<1> QED
  BY <1>1, <1>2, <1>3, <1>4, <1>5, PipelineCalls DEF PartFits, k

\* Which arguments only some commands take.
LEMMA TakesFacts ==
  ASSUME NEW m \in Commands
  PROVE  /\ Takes(m) \subseteq Arguments \ {"$db", "maxTimeMS"}
         /\ m \notin Takes(m) /\ m \notin {"$db", "maxTimeMS"}
         /\ "pipeline" \in Takes(m) => m = "aggregate"
         /\ "collection" \in Takes(m) => m = "getMore"
         /\ "update" \in Takes(m) => m # "update"
<1>1. CASE m = "find" BY <1>1 DEF Takes, Arguments
<1>2. CASE m = "aggregate" BY <1>2 DEF Takes, Arguments
<1>3. CASE m = "distinct" BY <1>3 DEF Takes, Arguments
<1>4. CASE m = "getMore" BY <1>4 DEF Takes, Arguments
<1>5. CASE m = "insert" BY <1>5 DEF Takes, Arguments
<1>6. CASE m = "update" BY <1>6 DEF Takes, Arguments
<1>7. CASE m = "delete" BY <1>7 DEF Takes, Arguments
<1>8. CASE m = "findAndModify" BY <1>8 DEF Takes, Arguments
<1>9. CASE m = "listCollections" BY <1>9 DEF Takes, Arguments
<1>10. CASE m = "ping" BY <1>10 DEF Takes, Arguments
<1> QED
  BY <1>1, <1>2, <1>3, <1>4, <1>5, <1>6, <1>7, <1>8, <1>9, <1>10 DEF Commands

LEMMA CommandParts ==
  ASSUME NEW m, NEW c, NEW e, NEW w, NEW n, NEW v, NEW i,
         Here(m, c, e, w, n, v, i), c.fn = "Command"
  PROVE  PartFits(m, c, e, w, n, v, i)
<1> DEFINE k == v.k[i]
<1>1. c.op = m /\ c.depth = 0 /\ e = "command" /\ w = "command" /\ n + 1 = 1
  BY DEF Here, Fits
<1>2. m \in Commands /\ 0 \in Nat /\ 1 \in Nat /\ MaxDepth \in Nat /\ 0 <= MaxDepth
  BY DepthAssumption DEF Here, Fits
<1>3. k \in {m, "$db", "maxTimeMS"} \cup Takes(m)
  BY <1>1, Keyed DEF Here, Accepts, CommandOK, Fields
<1>4. Part(c, v, k) = CommandPart(c, k)
  BY DEF Part
<1>5. ReadPart(m, Read(e, v), v, k) = ReadCommand(m, k) /\ WalkPart(m, w, v, i) = WalkCommand(m, k)
  BY <1>1 DEF ReadPart, Read, WalkPart
<1> HIDE DEF k
<1>6. /\ 1 <= 3 * 0 + 1 /\ 1 <= 3 * 0 + 3 /\ 1 <= 3 * 0 + 6 /\ 1 <= 3 * 0 + 7 /\ 0 <= MaxDepth + 1
  BY <1>2
<1>7. CASE k = m
  <2>1. m \in OnCollections \/ m \in {"ping", "getMore", "listCollections"}
    BY <1>2 DEF OnCollections
  <2>2. m \notin Arguments \ {"update"}
    BY <1>2 DEF Commands, Arguments
  <2>3. CommandPart(c, k) = IF m \in OnCollections THEN Same(c, "Collection") ELSE Is(c, "number")
    BY <1>1, <1>7, <2>2 DEF CommandPart, Arguments
  <2>4. ReadCommand(m, k) = IF m \in OnCollections THEN "name" ELSE "none"
    BY <1>7, <2>2 DEF ReadCommand, Arguments
  <2>5. WalkCommand(m, k) = IF m \in OnCollections THEN "collection" ELSE "none"
    BY <1>7, <2>2 DEF WalkCommand, Arguments, OnCollections
  <2>6. CASE m \in OnCollections
    BY <1>1, <1>2, <1>4, <1>5, <1>6, <2>3, <2>4, <2>5, <2>6, PipelineCalls DEF PartFits, k, Same
  <2>7. CASE m \notin OnCollections
    BY <1>1, <1>2, <1>4, <1>5, <1>6, <2>3, <2>4, <2>5, <2>7, UpdateCalls DEF PartFits, k, Is
  <2> QED
    BY <2>6, <2>7
<1>8. CASE k \in {"$db", "maxTimeMS"}
  <2>1. k # m
    BY <1>2, <1>8, TakesFacts
  <2>2. CommandPart(c, k) \in {Is(c, "name"), Is(c, "number")}
    BY <1>1, <1>8, <2>1 DEF CommandPart
  <2>3. ReadCommand(m, k) = "none" /\ WalkCommand(m, k) = "none"
    BY <1>8, <2>1 DEF ReadCommand, WalkCommand, Arguments
  <2> QED
    BY <1>1, <1>2, <1>4, <1>5, <1>6, <2>2, <2>3, UpdateCalls DEF PartFits, k, Is
<1>9. CASE k \in Takes(m)
  <2>1. /\ k \in Arguments \ {"$db", "maxTimeMS"} /\ k # m
        /\ k = "pipeline" => m = "aggregate"
        /\ k = "collection" => m = "getMore"
    BY <1>2, <1>9, TakesFacts
  <2>2. CASE k \in {"filter", "query"}
    BY <1>1, <1>2, <1>4, <1>5, <1>6, <2>1, <2>2, QueryCalls
       DEF PartFits, k, CommandPart, ReadCommand, WalkCommand, Same
  <2>3. CASE k \in {"projection", "fields", "let"}
    BY <1>1, <1>2, <1>4, <1>5, <1>6, <2>1, <2>3, ExpressionCalls
       DEF PartFits, k, CommandPart, ReadCommand, WalkCommand, Same
  <2>4. CASE k = "pipeline"
    BY <1>1, <1>2, <1>4, <1>5, <1>6, <2>1, <2>4, PipelineCalls
       DEF PartFits, k, CommandPart, ReadCommand, WalkCommand, OnCollections
  <2>5. CASE k \in {"updates", "deletes", "documents", "update"}
    BY <1>1, <1>2, <1>4, <1>5, <1>6, <2>1, <2>5, UpdateCalls
       DEF PartFits, k, CommandPart, ReadCommand, WalkCommand, Same
  <2>6. CASE k = "arrayFilters"
    BY <1>1, <1>2, <1>4, <1>5, <1>6, <2>1, <2>6, QueryCalls
       DEF PartFits, k, CommandPart, ReadCommand, WalkCommand, Same
  <2>7. CASE k \in {"sort", "hint"}
    <3>1. CommandPart(c, k) = At("Sort", k, 0)
      BY <1>1, <2>1, <2>7 DEF CommandPart
    <3>2. ReadCommand(m, k) = "none" /\ WalkCommand(m, k) = "none"
      BY <2>1, <2>7 DEF ReadCommand, WalkCommand, Arguments
    <3> QED
      BY <1>1, <1>2, <1>4, <1>5, <1>6, <3>1, <3>2, UpdateCalls DEF PartFits, k
  <2>8. CASE k \in {"key", "cursor", "ordered", "remove", "nameOnly", "limit", "batchSize"}
    <3>1. PICK what \in {"field", "document", "flag", "number"} : CommandPart(c, k) = Is(c, what)
      BY <1>1, <2>1, <2>8 DEF CommandPart
    <3>2. ReadCommand(m, k) = "none" /\ WalkCommand(m, k) = "none"
      BY <2>1, <2>8 DEF ReadCommand, WalkCommand, Arguments
    <3> QED
      BY <1>1, <1>2, <1>4, <1>5, <1>6, <3>1, <3>2, UpdateCalls DEF PartFits, k, Is
  <2>9. CASE k = "collection"
    BY <1>1, <1>2, <1>4, <1>5, <1>6, <2>1, <2>9, PipelineCalls
       DEF PartFits, k, CommandPart, ReadCommand, WalkCommand, Same, OnCollections
  <2> QED
    BY <2>1, <2>2, <2>3, <2>4, <2>5, <2>6, <2>7, <2>8, <2>9 DEF Arguments
<1> QED
  BY <1>3, <1>7, <1>8, <1>9

\* The functions that let no part be looked into: of what they pass, only a $pull of an array
\* has parts, and they are data.
LEMMA OtherParts ==
  ASSUME NEW m, NEW c, NEW e, NEW w, NEW n, NEW v, NEW i,
         Here(m, c, e, w, n, v, i), c.fn \in {"NotOperand", "Collection", "Pull", "Is", "Data"}
  PROVE  PartFits(m, c, e, w, n, v, i)
<1>1. v.t \in {"A", "D"} /\ m \in Commands /\ n + 1 \in Nat
  BY Keyed, Levels DEF Here
<1>2. c.fn \notin {"NotOperand", "Collection"}
  BY <1>1 DEF Here, Stands, Accepts, NotOperandOK, CollectionOK
<1>3. c.fn = "Is" => c.op # "variable"
  BY <1>1 DEF Here, Accepts, IsOK
<1>4. w = "none" /\ Read(e, v) = "none"
  BY <1>1, <1>2, <1>3 DEF Here, Stands, Fits, Plain, Shallow, Beyond, Read
<1>5. Part(c, v, v.k[i]) = Data
  BY <1>2 DEF Part
<1>6. ReadPart(m, Read(e, v), v, v.k[i]) = "none" /\ WalkPart(m, w, v, i) = "none"
  BY <1>4, Unwalked DEF ReadPart
<1> QED
  BY <1>1, <1>5, <1>6, DataCall DEF PartFits

LEMMA PartsFit ==
  ASSUME NEW m, NEW c, NEW e, NEW w, NEW n, NEW v, NEW i, Here(m, c, e, w, n, v, i)
  PROVE  PartFits(m, c, e, w, n, v, i)
<1>1. c.fn \in Fns \ {"ElementMatch", "Branch", "Accumulator"}
  BY DEF Here, Fits, Stands
<1>2. CASE c.fn \in {"Command", "Documents", "Writes", "Write", "Update", "Modifier", "Push", "Bit"}
  BY <1>2, CommandParts, DocumentsParts, WritesParts, WriteParts, UpdateParts, ModifierParts,
     PushParts, BitParts
<1>3. CASE c.fn \in {"Listing", "Listings", "Predicate", "Patterns", "Match", "MatchArray",
                     "Condition", "AllItems", "AllItem"}
  BY <1>3, ListingParts, ListingsParts, PredicateParts, PatternsParts, MatchParts,
     MatchArrayParts, ConditionParts, AllItemsParts, AllItemParts
<1>4. CASE c.fn \in {"Expression", "Operator", "Bindings", "Branches", "Projection", "Projected"}
  BY <1>4, ExpressionParts, OperatorParts, BindingsParts, BranchesParts, ProjectionParts,
     ProjectedParts
<1>5. CASE c.fn \in {"Pipeline", "Stage", "Group", "Sort", "Unset", "Lookup", "Union", "Facet",
                     "ReplaceRoot"}
  BY <1>5, PipelineParts, StageParts, GroupParts, SortParts, UnsetParts, LookupParts, UnionParts,
     FacetParts, ReplaceRootParts
<1>6. CASE c.fn \in {"NotOperand", "Collection", "Pull", "Is", "Data"}
  BY <1>6, OtherParts
<1> QED
  BY <1>1, <1>2, <1>3, <1>4, <1>5, <1>6 DEF Fns

-----------------------------------------------------------------------------
(* What passes a value on keeps the path fitting.                          *)

\* The call that has the last word on v fits too, with a way f of reading v that comes to the
\* same as the way it is read.
SettledFits(m, c, e, w, n, v) ==
  /\ Stands(Settled(c, v), v)
  /\ \E f : Fits(m, Settled(c, v), f, w, n) /\ Read(f, v) = Read(e, v)

LEMMA StandsAlone ==
  ASSUME NEW v, NEW op, NEW d
  PROVE  /\ Stands(At("Condition", op, d), v) /\ Stands(At("Match", op, d), v)
         /\ Stands(At("Expression", op, d), v) /\ Stands(At("Pipeline", op, d), v)
BY DEF At, Stands

LEMMA ElementFits ==
  ASSUME NEW m, NEW c, NEW e, NEW w, NEW n, NEW v \in Nodes,
         Fits(m, c, e, w, n), Accepts(c, v), c.fn \in {"ElementMatch", "Pull"}, v.t = "D"
  PROVE  SettledFits(m, c, e, w, n, v)
<1>1. e \in {"elem", "pull"} /\ w = "none" /\ n <= 3 * c.depth + 3
  BY DEF Fits, Plain, Beyond
<1>2. /\ m \in Commands /\ c.depth \in Nat /\ n \in Nat /\ c.depth + 1 \in Nat
      /\ 3 * (c.depth + 1) = 3 * c.depth + 3
  BY Levels
<1>3. n <= 3 * (c.depth + 1) + 3
  BY <1>1, <1>2
<1>4. Settled(c, v) = Element(c, v)
  BY DEF Settled
<1>5. CASE HoldsCondition(v)
  <2>1. HasOperator(v)
    BY <1>5, NodesAssumption DEF HoldsCondition, HasOperator, OperatorFirst, KeysOf
  <2>2. Read("cond", v) = Read(e, v)
    BY <1>1, <1>5, <2>1 DEF Read
  <2>3. Settled(c, v) = At("Condition", "", c.depth + 1)
    BY <1>4, <1>5 DEF Element, Deeper
  <2>4. Fits(m, Settled(c, v), "cond", w, n)
    BY <1>1, <1>2, <1>3, <2>3, QueryCalls
  <2>5. Stands(Settled(c, v), v)
    BY <2>3, StandsAlone
  <2> QED
    BY <2>2, <2>4, <2>5 DEF SettledFits
<1>6. CASE ~HoldsCondition(v)
  <2>1. Read("query", v) = Read(e, v)
    BY <1>1, <1>6 DEF Read
  <2>2. Settled(c, v) = At("Match", "", c.depth + 1)
    BY <1>4, <1>6 DEF Element, Deeper
  <2>3. Fits(m, Settled(c, v), "query", w, n)
    BY <1>1, <1>2, <1>3, <2>2, QueryCalls
  <2>4. Stands(Settled(c, v), v)
    BY <2>2, StandsAlone
  <2> QED
    BY <2>1, <2>3, <2>4 DEF SettledFits
<1> QED
  BY <1>5, <1>6

LEMMA ExpressionFits ==
  ASSUME NEW m, NEW c, NEW e, NEW w, NEW n, NEW v \in Nodes,
         Fits(m, c, e, w, n), Accepts(c, v),
         \/ c.fn = "Operator" /\ c.op # "$count" /\ ~Structured(c.op, v)
         \/ c.fn \in {"Branch", "Accumulator"}
         \/ c.fn = "Projected" /\ ~(c.op = "find" /\ ElementOnly(v))
  PROVE  SettledFits(m, c, e, w, n, v)
<1>1. Settled(c, v) = At("Expression", "", c.depth + 1)
  BY DEF Settled, Deeper
<1>2. w = "none" /\ n <= 3 * c.depth + 6
  BY DepthAssumption DEF Fits, Plain, Shallow, Beyond
<1>3. /\ m \in Commands /\ c.depth \in Nat /\ n \in Nat /\ c.depth + 1 \in Nat
      /\ 3 * (c.depth + 1) = 3 * c.depth + 3
  BY Levels
<1>4. Read("expr", v) = Read(e, v)
  BY DEF Fits, Plain, Shallow, Beyond, Accepts, OperatorOK, Read
<1>5. n <= 3 * (c.depth + 1) + 3
  BY <1>2, <1>3
<1>6. Fits(m, Settled(c, v), "expr", w, n)
  BY <1>1, <1>2, <1>3, <1>5, ExpressionCalls
<1>7. Stands(Settled(c, v), v)
  BY <1>1, StandsAlone
<1> QED
  BY <1>4, <1>6, <1>7 DEF SettledFits

LEMMA OperandFits ==
  ASSUME NEW m, NEW c, NEW e, NEW w, NEW n, NEW v \in Nodes,
         Fits(m, c, e, w, n), c.fn = "NotOperand", v.t = "D"
  PROVE  SettledFits(m, c, e, w, n, v)
<1>1. Settled(c, v) = At("Condition", "", c.depth + 1)
  BY DEF Settled, Deeper
<1>2. e = "cond" /\ w = "none" /\ n <= 3 * c.depth + 4
  BY DEF Fits, Plain, Shallow
<1>3. /\ m \in Commands /\ c.depth \in Nat /\ n \in Nat /\ c.depth + 1 \in Nat
      /\ 3 * (c.depth + 1) = 3 * c.depth + 3
  BY Levels
<1>4. n <= 3 * (c.depth + 1) + 3
  BY <1>2, <1>3
<1>5. Fits(m, Settled(c, v), e, w, n)
  BY <1>1, <1>2, <1>3, <1>4, QueryCalls
<1>6. Stands(Settled(c, v), v)
  BY <1>1, StandsAlone
<1> QED
  BY <1>5, <1>6 DEF SettledFits

LEMMA UpdateFits ==
  ASSUME NEW m, NEW c, NEW e, NEW w, NEW n, NEW v \in Nodes,
         Fits(m, c, e, w, n), c.fn = "Update", v.t = "A"
  PROVE  SettledFits(m, c, e, w, n, v)
<1>1. Settled(c, v) = At("Pipeline", "update", c.depth + 1)
  BY DEF Settled
<1>2. e = "update" /\ w = "none" /\ n <= 3 * c.depth + 3
  BY DEF Fits, Plain, Shallow
<1>3. /\ m \in Commands /\ c.depth \in Nat /\ n \in Nat /\ c.depth + 1 \in Nat
      /\ 3 * (c.depth + 1) = 3 * c.depth + 3
  BY Levels
<1>4. Read("stages", v) = Read(e, v)
  BY <1>2 DEF Read
<1>5. n <= 3 * (c.depth + 1) + 3
  BY <1>2, <1>3
<1>6. Fits(m, Settled(c, v), "stages", w, n)
  BY <1>1, <1>2, <1>3, <1>5, PipelineCalls
<1>7. Stands(Settled(c, v), v)
  BY <1>1, StandsAlone
<1> QED
  BY <1>4, <1>6, <1>7 DEF SettledFits

LEMMA SettlingFits ==
  ASSUME NEW m, NEW c, NEW e, NEW w, NEW n, NEW v \in Nodes,
         Fits(m, c, e, w, n), Accepts(c, v)
  PROVE  SettledFits(m, c, e, w, n, v)
<1>1. CASE c.fn = "NotOperand" /\ v.t = "D"
  BY <1>1, OperandFits
<1>2. CASE c.fn \in {"ElementMatch", "Pull"} /\ v.t = "D"
  BY <1>2, ElementFits
<1>3. CASE \/ c.fn = "Operator" /\ c.op # "$count" /\ ~Structured(c.op, v)
           \/ c.fn \in {"Branch", "Accumulator"}
           \/ c.fn = "Projected" /\ ~(c.op = "find" /\ ElementOnly(v))
  BY <1>3, ExpressionFits
<1>4. CASE c.fn = "Update" /\ v.t = "A"
  BY <1>4, UpdateFits
<1>5. CASE /\ ~(c.fn \in {"NotOperand", "ElementMatch", "Pull"} /\ v.t = "D")
           /\ ~(c.fn = "Operator" /\ c.op # "$count" /\ ~Structured(c.op, v))
           /\ c.fn \notin {"Branch", "Accumulator"}
           /\ ~(c.fn = "Projected" /\ ~(c.op = "find" /\ ElementOnly(v)))
           /\ ~(c.fn = "Update" /\ v.t = "A")
  <2>1. Settled(c, v) = c
    BY <1>5 DEF Settled
  <2>2. Stands(c, v)
    BY <1>5 DEF Stands, Accepts
  <2> QED
    BY <2>1, <2>2 DEF SettledFits
<1> QED
  BY <1>1, <1>2, <1>3, <1>4, <1>5

\* One step down the path.
LEMMA DescendFits == PathFits /\ Descend => PathFits'
<1> SUFFICES ASSUME PathFits, Descend
             PROVE  PathFits'
  OBVIOUS
<1>1. PICK v \in Nodes : \E i \in DOMAIN v.k :
        /\ Passes(call, v)
        /\ call' = Part(Settled(call, v), v, v.k[i])
        /\ read' = ReadPart(cmd, Read(read, v), v, v.k[i])
        /\ walk' = WalkPart(cmd, walk, v, i)
        /\ level' = level + 1 /\ cmd' = cmd
  BY DEF Descend
<1>2. PICK i \in DOMAIN v.k :
        /\ Passes(call, v)
        /\ call' = Part(Settled(call, v), v, v.k[i])
        /\ read' = ReadPart(cmd, Read(read, v), v, v.k[i])
        /\ walk' = WalkPart(cmd, walk, v, i)
        /\ level' = level + 1 /\ cmd' = cmd
  BY <1>1
<1>3. Accepts(call, v) /\ Accepts(Settled(call, v), v)
  BY <1>2 DEF Passes
<1>4. SettledFits(cmd, call, read, walk, level, v)
  BY <1>3, SettlingFits DEF PathFits
<1>5. PICK f : Fits(cmd, Settled(call, v), f, walk, level) /\ Read(f, v) = Read(read, v)
  BY <1>4 DEF SettledFits
<1>6. Here(cmd, Settled(call, v), f, walk, level, v, i)
  BY <1>2, <1>3, <1>4, <1>5 DEF Here, SettledFits
<1>7. PartFits(cmd, Settled(call, v), f, walk, level, v, i)
  BY <1>6, PartsFit
<1> QED
  BY <1>2, <1>5, <1>7 DEF PathFits, PartFits

\* Wherever a path has come to, the call, the reading and the second walk fit each other.
THEOREM PathAlwaysFits == Descent => []PathFits
<1>1. Top => PathFits
  BY DEF Top, PathFits, Fits, Fns, At
<1>2. PathFits /\ UNCHANGED place => PathFits'
  BY DEF PathFits, place
<1> QED
  BY <1>1, <1>2, DescendFits, PTL DEF Descent

-----------------------------------------------------------------------------
(* The properties of the policy.                                           *)

\* What passes is evaluated as an expression only by functions that let no server-side code
\* and no system variable stand as a value of its own.
LEMMA NothingRuns ==
  ASSUME NEW m, NEW c, NEW e, NEW w, NEW n, NEW v \in Nodes,
         Fits(m, c, e, w, n), Accepts(c, v), Stands(c, v)
  PROVE  ~Runs(Read(e, v), v)
<1> SUFFICES ASSUME Read(e, v) = "expr", v.t \in {"badvar", "code"}
             PROVE  FALSE
  BY DEF Runs
<1>1. v.t \notin {"A", "D"} /\ v.k = <<>>
  BY NodesAssumption
<1>2. c.fn \in {"Expression", "Operator", "Bindings", "Branches", "Branch", "Projection",
                "Projected", "Group", "Accumulator", "ReplaceRoot", "Is"}
  <2>1. e \in {"expr", "projected"}
    BY DEF Read
  <2> QED
    BY <2>1 DEF Fits, Fns, Plain, Shallow, Beyond, Joined
<1>3. c.fn = "Expression" => FALSE
  BY DEF Accepts, ExpressionOK
<1>4. c.fn = "Operator" => FALSE
  <2> SUFFICES ASSUME c.fn = "Operator"
               PROVE  FALSE
    OBVIOUS
  <2>1. CASE Structured(c.op, v)
    BY <1>1, <2>1 DEF Accepts, OperatorOK, Fields
  <2>2. CASE ~Structured(c.op, v)
    BY <1>1, <2>2 DEF Accepts, OperatorOK, Stands, Doc
  <2> QED
    BY <2>1, <2>2
<1>5. c.fn \in {"Bindings", "Branches", "Projection", "Projected", "Group", "ReplaceRoot"} => FALSE
  BY <1>1 DEF Accepts, FieldDoc, NonEmpty, GroupOK, ReplaceRootOK, Single, Stands, ElementOnly
<1>6. c.fn \in {"Branch", "Accumulator"} => FALSE
  BY DEF Stands
<1>7. c.fn = "Is" => FALSE
  <2> SUFFICES ASSUME c.fn = "Is"
               PROVE  FALSE
    OBVIOUS
  <2>1. c.op = "variable"
    BY DEF Fits, Plain, Shallow, Read
  <2> QED
    BY <2>1 DEF Accepts, IsOK
<1> QED
  BY <1>2, <1>3, <1>4, <1>5, <1>6, <1>7

\* Whatever passes evaluates only what the tables list, at any depth and however it is wrapped:
\* the functions of mongodb_policy.go leave no way around them.
THEOREM OnlyListedAlways == Descent => []OnlyListedEvaluates
<1>1. ASSUME PathFits
      PROVE  OnlyListedEvaluates
  <2> SUFFICES ASSUME NEW v \in Nodes, Passes(call, v)
               PROVE  read # "unlisted" /\ ~Runs(Read(read, v), v)
    BY DEF OnlyListedEvaluates
  <2>1. Accepts(call, v) /\ Accepts(Settled(call, v), v) /\ Fits(cmd, call, read, walk, level)
    BY <1>1 DEF Passes, PathFits
  <2>2. read # "unlisted"
    BY <2>1 DEF Fits, Fns, Plain, Shallow, Beyond, Joined, Accepts, OperatorOK
  <2>3. SettledFits(cmd, call, read, walk, level, v)
    BY <2>1, SettlingFits
  <2>4. PICK f : Fits(cmd, Settled(call, v), f, walk, level) /\ Read(f, v) = Read(read, v)
    BY <2>3 DEF SettledFits
  <2>5. ~Runs(Read(f, v), v)
    BY <2>1, <2>3, <2>4, NothingRuns DEF SettledFits
  <2> QED
    BY <2>2, <2>4, <2>5
<1> QED
  BY <1>1, PathAlwaysFits, PTL

\* No filter of listCollections that passes asks about a private field of the metadata.
THEOREM OnlyPublicMetadataAlways == Descent => []OnlyPublicMetadata
<1>1. PathFits => OnlyPublicMetadata
  BY DEF OnlyPublicMetadata, PathFits, Fits, Fns, Plain, Shallow, Beyond, Joined
<1> QED
  BY <1>1, PathAlwaysFits, PTL

\* A name or a join that fits is walked as one.
LEMMA NamesFit ==
  ASSUME NEW m, NEW c, NEW e, NEW w, NEW n, Fits(m, c, e, w, n)
  PROVE  /\ e = "name" => c.fn = "Collection"
         /\ e = "join" => c.fn \in {"Lookup", "Union"}
         /\ w = "collection" => c.fn = "Collection"
         /\ w = "union" => c.fn = "Union"
BY DEF Fits, Fns, Plain, Shallow, Beyond, Joined

\* Only a pipeline of aggregate, the one kind that is walked, can name another collection.
THEOREM NothingElseReadsAlways == Descent => []NothingElseReads
<1>1. ASSUME PathFits
      PROVE  NothingElseReads
  <2> SUFFICES ASSUME NEW v \in Nodes, Passes(call, v), cmd # "aggregate", level > 1,
                      Reads(read, v)
               PROVE  FALSE
    BY DEF NothingElseReads
  <2>1. Fits(cmd, call, read, walk, level)
    BY <1>1 DEF PathFits
  <2>2. CASE read = "name"
    <3>1. call.fn = "Collection"
      BY <2>1, <2>2, NamesFit
    <3>2. level = 1
      BY <2>1, <3>1 DEF Fits
    <3> QED
      BY <3>2
  <2>3. CASE read = "join"
    <3>1. call.fn \in {"Lookup", "Union"}
      BY <2>1, <2>3, NamesFit
    <3> QED
      BY <2>1, <3>1 DEF Fits, Joined
  <2> QED
    BY <2>2, <2>3 DEF Reads
<1> QED
  BY <1>1, PathAlwaysFits, PTL

\* The collections whose type the tunnel looks up are those the server reads: the walk of
\* mongoCommandNamespaces and the policy agree on every accepted command, however deep.
THEOREM EveryCollectionAlways == Descent => []EveryCollectionIsLookedUp
<1>1. ASSUME PathFits
      PROVE  EveryCollectionIsLookedUp
  <2> SUFFICES ASSUME NEW v \in Nodes, Passes(call, v)
               PROVE  Reads(read, v) <=> Adds(walk, v)
    BY DEF EveryCollectionIsLookedUp
  <2>1. Accepts(call, v) /\ Fits(cmd, call, read, walk, level)
    BY <1>1 DEF Passes, PathFits
  <2>2. CASE call.fn = "Collection"
    BY <2>1, <2>2 DEF Fits, Reads, Adds
  <2>3. CASE call.fn = "Union"
    BY <2>1, <2>3 DEF Fits, Joined, Reads, Adds
  <2>4. CASE call.fn = "Lookup"
    BY <2>1, <2>4 DEF Fits, Joined, Reads, Adds, Accepts, LookupOK, Fields, Strings
  <2>5. CASE call.fn \notin {"Collection", "Union", "Lookup"}
    BY <2>1, <2>5, NamesFit DEF Reads, Adds
  <2> QED
    BY <2>2, <2>3, <2>4, <2>5
<1> QED
  BY <1>1, PathAlwaysFits, PTL

\* The walk goes only into what was checked to be of the type it asserts.
LEMMA WalkedFit ==
  ASSUME NEW m, NEW c, NEW e, NEW w, NEW n, Fits(m, c, e, w, n)
  PROVE  /\ w = "command" => c.fn = "Command"
         /\ w \in {"pipeline!", "pipeline"} => c.fn = "Pipeline"
         /\ w = "stage" => c.fn = "Stage"
         /\ w = "lookup" => c.fn = "Lookup"
         /\ w = "union" => c.fn = "Union"
         /\ w = "facet" => c.fn = "Facet"
         /\ w = "collection" => c.fn = "Collection"
BY DEF Fits, Fns, Plain, Shallow, Beyond, Joined

\* No accepted command makes mongoCommandNamespaces panic.
THEOREM WalkNeverPanicsAlways == Descent => []WalkNeverPanics
<1>1. ASSUME PathFits
      PROVE  WalkNeverPanics
  <2> SUFFICES ASSUME NEW v \in Nodes, Passes(call, v)
               PROVE  Asserts(cmd, walk, v)
    BY DEF WalkNeverPanics
  <2>1. Accepts(call, v) /\ Fits(cmd, call, read, walk, level)
    BY <1>1 DEF Passes, PathFits
  <2>2. CASE walk = "command"
    <3>1. call.fn = "Command"
      BY <2>1, <2>2, WalkedFit
    <3>2. CommandOK(call, v) /\ call.op = cmd
      BY <2>1, <3>1 DEF Accepts, Fits
    <3>3. v.k # <<>>
      BY <3>2, NodesAssumption DEF CommandOK
    <3>4. /\ cmd = "getMore" => Needs(call.op) = {"collection"}
          /\ cmd = "aggregate" => Needs(call.op) = {"pipeline", "cursor"}
      BY <3>2 DEF Needs
    <3> QED
      BY <2>2, <3>2, <3>3, <3>4 DEF Asserts, CommandOK
  <2>3. CASE walk = "pipeline!"
    BY <2>1, <2>3, WalkedFit DEF Asserts, Accepts, PipelineOK
  <2>4. CASE walk = "stage"
    <3>1. Single(v)
      BY <2>1, <2>4, WalkedFit DEF Accepts, StageOK
    <3>2. v.k # <<>>
      BY <3>1 DEF Single
    <3> QED
      BY <2>4, <3>1, <3>2 DEF Asserts, Single
  <2>5. CASE walk = "lookup"
    BY <2>1, <2>5, WalkedFit DEF Asserts, Accepts, LookupOK, Fields
  <2>6. CASE walk = "union"
    BY <2>1, <2>6, WalkedFit DEF Asserts, Accepts, UnionOK, Fields, CollectionOK, Strings
  <2>7. CASE walk = "facet"
    BY <2>1, <2>7, WalkedFit DEF Asserts, Accepts, FieldDoc
  <2>8. CASE walk = "collection"
    BY <2>1, <2>8, WalkedFit DEF Asserts, Accepts, CollectionOK, Strings
  <2>9. CASE walk \notin {"command", "pipeline!", "stage", "lookup", "union", "facet", "collection"}
    BY <2>9 DEF Asserts
  <2> QED
    BY <2>2, <2>3, <2>4, <2>5, <2>6, <2>7, <2>8, <2>9
<1> QED
  BY <1>1, PathAlwaysFits, PTL

\* Every chain of calls of the policy ends: what it still looks at is in at most three times
\* MaxDepth values and seven more.
THEOREM DepthAlwaysBounded == Descent => []DepthIsBounded
<1>1. ASSUME PathFits
      PROVE  DepthIsBounded
  <2> SUFFICES ASSUME NEW v \in Nodes, Passes(call, v), ~Over
               PROVE  level <= 3 * MaxDepth + 7
    BY DEF DepthIsBounded
  <2>1. /\ Accepts(call, v) /\ Accepts(Settled(call, v), v)
        /\ Fits(cmd, call, read, walk, level)
    BY <1>1 DEF Passes, PathFits
  <2>2. level \in Nat /\ call.depth \in Nat /\ MaxDepth \in Nat /\ call.fn # "Data"
    BY <2>1, DepthAssumption DEF Fits, Over
  <2>3. CASE call.fn = "ElementMatch"
    <3>1. Settled(call, v) = Element(call, v)
      BY <2>1, <2>3 DEF Settled, Accepts
    <3>2. Element(call, v) \in {Deeper(call, "Condition"), Deeper(call, "Match")}
      BY DEF Element
    <3>3. \A fn : Deeper(call, fn).fn = fn /\ Deeper(call, fn).depth = call.depth + 1
      BY DEF Deeper, At
    <3>4. Element(call, v).depth <= MaxDepth
      BY <2>1, <3>1, <3>2, <3>3 DEF Accepts, ConditionOK, MatchOK
    <3>5. level <= 3 * call.depth + 3
      BY <2>1, <2>3 DEF Fits, Plain
    <3> QED
      BY <2>2, <3>2, <3>3, <3>4, <3>5
  <2>4. CASE call.fn \in {"Listing", "Match", "Condition", "Expression", "Operator", "Pipeline"}
    <3>1. call.depth <= MaxDepth
      BY <2>1, <2>4 DEF Accepts, ListingOK, MatchOK, ConditionOK, ExpressionOK, OperatorOK,
            PipelineOK
    <3>2. level <= 3 * call.depth + 3
      BY <2>1, <2>4 DEF Fits, Plain
    <3> QED
      BY <2>2, <3>1, <3>2
  <2>5. CASE call.fn \in {"MatchArray", "Bindings", "Projection", "Projected", "Pull"}
    <3>1. level <= 3 * call.depth + 4 /\ call.depth <= MaxDepth + 1
      BY <2>1, <2>2, <2>5 DEF Fits, Plain, Beyond
    <3> QED
      BY <2>2, <3>1
  <2>6. CASE call.fn \in Fns \ {"ElementMatch", "Listing", "Match", "Condition", "Expression",
                                "Operator", "Pipeline", "MatchArray", "Bindings", "Projection",
                                "Projected", "Pull", "Data"}
    <3>1. level <= 3 * call.depth + 7 /\ call.depth <= MaxDepth
      BY <2>1, <2>2, <2>6 DEF Fits, Fns, Plain, Shallow, Joined
    <3> QED
      BY <2>2, <3>1
  <2> QED
    BY <2>1, <2>2, <2>3, <2>4, <2>5, <2>6 DEF Fits
<1> QED
  BY <1>1, PathAlwaysFits, PTL
=============================================================================
