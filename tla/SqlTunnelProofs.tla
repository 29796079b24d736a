---------------------------- MODULE SqlTunnelProofs ----------------------------
(***************************************************************************)
(* Theorems of SqlTunnel: for any number of queries and of challenges,     *)
(* whatever the client and the backend say and whenever they close.        *)
(***************************************************************************)
EXTENDS SqlTunnel, SequenceTheorems, FiniteSetTheorems, TLAPS

-----------------------------------------------------------------------------
(* Types.                                                                  *)

LEMMA QueueTypes ==
  ASSUME NEW q \in Seq(Messages), NEW m \in Messages, NEW r \in Seq(Messages)
  PROVE  /\ Append(q, m) \in Seq(Messages) /\ q \o r \in Seq(Messages)
         /\ q # <<>> => Tail(q) \in Seq(Messages) /\ Head(q) \in Messages
         /\ \A n \in 1 .. Len(q) : /\ SubSeq(q, 2, n) \in Seq(Messages)
                                   /\ SubSeq(q, n + 1, Len(q)) \in Seq(Messages)
<1>1. ASSUME NEW n \in 1 .. Len(q)
      PROVE  /\ SubSeq(q, 2, n) \in Seq(Messages)
             /\ SubSeq(q, n + 1, Len(q)) \in Seq(Messages)
  <2>1. n \in Int /\ n + 1 \in Int /\ Len(q) \in Int /\ \A i \in 1 .. Len(q) : q[i] \in Messages
    BY LenProperties, ElementOfSeq
  <2>2. \A i \in 2 .. n : q[i] \in Messages
    BY <2>1
  <2>3. \A i \in n + 1 .. Len(q) : q[i] \in Messages
    BY <2>1
  <2> QED
    BY <2>1, <2>2, <2>3, SubSeqProperties
<1> QED
  BY <1>1, AppendProperties, ConcatProperties, HeadTailProperties

\* The messages of the handler, of the client and of the backend.
LEMMA MessageTypes ==
  /\ \A s \in {"ssl", "token", "wrong", "greeting", "N", "ready", "error", "startup", "password",
               "saslFirst", "saslProof", "askKey", "AUTH", "SELECT", "+", "askPassword", "sasl",
               "saslContinue", "saslFinal", "authOK", "param", "ok", "fastOK", "full", "key"} :
       Msg(s) \in Messages
  /\ \A n \in Nat : \A s \in {"query", "answer", "response", "sealed", "greeting", "switch"} :
       <<s, n>> \in Messages
BY DEF Messages, Msg

-----------------------------------------------------------------------------
(* Queues of queries.                                                      *)

Plain(q) == \A i \in 1 .. Len(q) : q[i][1] # "query"

Lacks(q, m) == \A i \in 1 .. Len(q) : q[i] # m

\* The queue w ends with the queries after number lo, up to number hi, and has no other.
Ord(w, lo, hi) ==
  /\ lo <= hi /\ hi - lo <= Len(w)
  /\ \A i \in 1 .. Len(w) :
       IF i <= Len(w) - (hi - lo) THEN w[i][1] # "query" ELSE w[i] = <<"query", hi - Len(w) + i>>

LEMMA OrdAppend ==
  ASSUME NEW w \in Seq(Messages), NEW lo \in Nat, NEW hi \in Nat, Ord(w, lo, hi), NEW m \in Messages
  PROVE  /\ m = <<"query", hi + 1>> => Ord(Append(w, m), lo, hi + 1)
         /\ m[1] # "query" /\ hi = lo => Ord(Append(w, m), lo, hi)
<1> DEFINE v == Append(w, m)
<1>1. /\ Len(v) = Len(w) + 1 /\ Len(w) \in Nat
      /\ \A i \in 1 .. Len(w) : v[i] = w[i]
      /\ v[Len(w) + 1] = m
  BY AppendProperties, LenProperties
<1> HIDE DEF v
<1>2. ASSUME m = <<"query", hi + 1>> PROVE Ord(v, lo, hi + 1)
  <2>1. Len(v) - (hi + 1 - lo) = Len(w) - (hi - lo)
    BY <1>1
  <2>2. ASSUME NEW i \in 1 .. Len(v)
        PROVE  IF i <= Len(w) - (hi - lo) THEN v[i][1] # "query"
               ELSE v[i] = <<"query", hi + 1 - Len(v) + i>>
    <3>1. CASE i \in 1 .. Len(w)
      <4>1. hi + 1 - Len(v) + i = hi - Len(w) + i
        BY <1>1
      <4> QED
        BY <1>1, <3>1, <4>1 DEF Ord
    <3>2. CASE i = Len(w) + 1
      <4>1. hi + 1 - Len(v) + i = hi + 1 /\ ~(i <= Len(w) - (hi - lo))
        BY <1>1, <3>2 DEF Ord
      <4> QED
        BY <1>1, <1>2, <3>2, <4>1
    <3> QED
      BY <1>1, <3>1, <3>2
  <2> QED
    BY <1>1, <2>1, <2>2 DEF Ord
<1>3. ASSUME m[1] # "query", hi = lo PROVE Ord(v, lo, hi)
  BY <1>1, <1>3 DEF Ord
<1> QED
  BY <1>2, <1>3 DEF v

LEMMA OrdTail ==
  ASSUME NEW w \in Seq(Messages), NEW lo \in Nat, NEW hi \in Nat, Ord(w, lo, hi), w # <<>>
  PROVE  /\ Head(w)[1] # "query" => Ord(Tail(w), lo, hi)
         /\ Head(w)[1] = "query" => /\ Head(w) = <<"query", lo + 1>> /\ lo + 1 <= hi
                                    /\ Len(w) = hi - lo /\ Ord(Tail(w), lo + 1, hi)
<1> DEFINE v == Tail(w)
<1>1. /\ Len(v) = Len(w) - 1 /\ Len(w) \in Nat \ {0} /\ Head(w) = w[1]
      /\ \A i \in 1 .. Len(v) : v[i] = w[i + 1]
  BY HeadTailProperties, LenProperties, EmptySeq
<1> HIDE DEF v
<1>2. ASSUME Head(w)[1] # "query" PROVE Ord(v, lo, hi)
  <2>1. Len(w) - (hi - lo) >= 1
    BY <1>1, <1>2 DEF Ord
  <2>2. Len(v) - (hi - lo) = Len(w) - (hi - lo) - 1 /\ Len(v) \in Nat
    BY <1>1
  <2>3. ASSUME NEW i \in 1 .. Len(v)
        PROVE  IF i <= Len(v) - (hi - lo) THEN v[i][1] # "query"
               ELSE v[i] = <<"query", hi - Len(v) + i>>
    <3>1. /\ i + 1 \in 1 .. Len(w) /\ v[i] = w[i + 1]
          /\ i <= Len(v) - (hi - lo) <=> i + 1 <= Len(w) - (hi - lo)
          /\ hi - Len(w) + (i + 1) = hi - Len(v) + i
      BY <1>1, <2>2
    <3>2. IF i + 1 <= Len(w) - (hi - lo) THEN w[i + 1][1] # "query"
          ELSE w[i + 1] = <<"query", hi - Len(w) + (i + 1)>>
      BY <3>1 DEF Ord
    <3> QED
      BY <3>1, <3>2
  <2>4. lo <= hi /\ hi - lo <= Len(v)
    BY <2>1, <2>2 DEF Ord
  <2> QED
    BY <2>3, <2>4 DEF Ord
<1>3. ASSUME Head(w)[1] = "query"
      PROVE  /\ Head(w) = <<"query", lo + 1>> /\ lo + 1 <= hi
             /\ Len(w) = hi - lo /\ Ord(v, lo + 1, hi)
  <2>1. Len(w) = hi - lo
    BY <1>1, <1>3 DEF Ord
  <2>2. \A i \in 1 .. Len(w) : w[i] = <<"query", lo + i>>
    <3>1. ASSUME NEW i \in 1 .. Len(w) PROVE w[i] = <<"query", lo + i>>
      <4>1. hi - Len(w) + i = lo + i /\ ~(i <= Len(w) - (hi - lo))
        BY <1>1, <2>1
      <4> QED
        BY <4>1 DEF Ord
    <3> QED
      BY <3>1
  <2>3. ASSUME NEW i \in 1 .. Len(v)
        PROVE  v[i] = <<"query", hi - Len(v) + i>>
    <3>1. i + 1 \in 1 .. Len(w) /\ hi - Len(v) + i = lo + (i + 1)
      BY <1>1, <2>1
    <3> QED
      BY <1>1, <2>2, <3>1
  <2>4. Ord(v, lo + 1, hi)
    BY <1>1, <2>1, <2>3 DEF Ord
  <2> QED
    BY <1>1, <2>1, <2>2, <2>4
<1> QED
  BY <1>2, <1>3 DEF v

\* What has no query may be put in front of a queue, or taken from there.
LEMMA OrdPrefix ==
  ASSUME NEW q \in Seq(Messages), NEW w \in Seq(Messages), NEW lo \in Nat, NEW hi \in Nat, Plain(q)
  PROVE  Ord(q \o w, lo, hi) <=> Ord(w, lo, hi)
<1> DEFINE v == q \o w
<1>1. /\ Len(q) \in Nat /\ Len(w) \in Nat /\ Len(v) = Len(q) + Len(w)
      /\ \A i \in 1 .. Len(q) : v[i] = q[i]
      /\ \A i \in 1 .. Len(w) : v[Len(q) + i] = w[i]
  BY ConcatProperties, LenProperties
<1> HIDE DEF v
<1>2. ASSUME Ord(w, lo, hi) PROVE Ord(v, lo, hi)
  <2>1. ASSUME NEW i \in 1 .. Len(v)
        PROVE  IF i <= Len(v) - (hi - lo) THEN v[i][1] # "query"
               ELSE v[i] = <<"query", hi - Len(v) + i>>
    <3>1. CASE i <= Len(q)
      BY <1>1, <1>2, <3>1 DEF Ord, Plain
    <3>2. CASE i > Len(q)
      <4> DEFINE j == i - Len(q)
      <4>1. /\ j \in 1 .. Len(w) /\ Len(q) + j = i
            /\ j <= Len(w) - (hi - lo) <=> i <= Len(v) - (hi - lo)
            /\ hi - Len(w) + j = hi - Len(v) + i
        BY <1>1, <3>2
      <4>2. v[i] = w[j]
        BY <1>1, <4>1
      <4> HIDE DEF j
      <4> QED
        BY <1>2, <4>1, <4>2 DEF Ord
    <3> QED
      BY <1>1, <3>1, <3>2
  <2> QED
    BY <1>1, <1>2, <2>1 DEF Ord
<1>3. ASSUME Ord(v, lo, hi) PROVE Ord(w, lo, hi)
  <2>1. hi - lo <= Len(w)
    <3> SUFFICES ASSUME hi - lo > Len(w) PROVE FALSE
      BY <1>1, <1>3 DEF Ord
    <3>1. Len(q) \in 1 .. Len(v) /\ ~(Len(q) <= Len(v) - (hi - lo)) /\ Len(q) \in 1 .. Len(q)
      BY <1>1, <1>3 DEF Ord
    <3>2. v[Len(q)] = <<"query", hi - Len(v) + Len(q)>>
      BY <1>3, <3>1 DEF Ord
    <3> QED
      BY <1>1, <3>1, <3>2 DEF Plain
  <2>2. \A i \in 1 .. Len(w) : Len(q) + i \in 1 .. Len(v) /\ v[Len(q) + i] = w[i]
    BY <1>1
  <2>3. ASSUME NEW i \in 1 .. Len(w)
        PROVE  IF i <= Len(w) - (hi - lo) THEN w[i][1] # "query"
               ELSE w[i] = <<"query", hi - Len(w) + i>>
    <3> DEFINE j == Len(q) + i
    <3>1. /\ j \in 1 .. Len(v) /\ v[j] = w[i]
          /\ j <= Len(v) - (hi - lo) <=> i <= Len(w) - (hi - lo)
          /\ hi - Len(v) + j = hi - Len(w) + i
      BY <1>1, <2>2
    <3> HIDE DEF j
    <3> QED
      BY <1>3, <3>1 DEF Ord
  <2> QED
    BY <1>3, <2>1, <2>3 DEF Ord
<1> QED
  BY <1>2, <1>3 DEF v

LEMMA OnePlain ==
  ASSUME NEW m \in Messages, m[1] # "query"
  PROVE  <<m>> \in Seq(Messages) /\ Plain(<<m>>)
BY DEF Plain

LEMMA TailOfConcat ==
  ASSUME NEW q \in Seq(Messages), NEW w \in Seq(Messages), q # <<>>
  PROVE  /\ Tail(q \o w) = Tail(q) \o w
         /\ q \o w # <<>> /\ Head(q \o w) = Head(q)
<1>1. /\ q \o w \in Seq(Messages) /\ Len(q \o w) = Len(q) + Len(w)
      /\ Len(q) \in Nat \ {0} /\ Len(w) \in Nat
      /\ \A i \in 1 .. Len(q) + Len(w) : (q \o w)[i] = IF i <= Len(q) THEN q[i] ELSE w[i - Len(q)]
  BY ConcatProperties, LenProperties, EmptySeq
<1>2. q \o w # <<>> /\ Head(q \o w) = Head(q)
  BY <1>1, EmptySeq
<1>3. /\ Tail(q \o w) \in Seq(Messages) /\ Len(Tail(q \o w)) = Len(q) + Len(w) - 1
      /\ \A i \in 1 .. Len(q) + Len(w) - 1 : Tail(q \o w)[i] = (q \o w)[i + 1]
  BY <1>1, <1>2, HeadTailProperties
<1>4. /\ Tail(q) \in Seq(Messages) /\ Len(Tail(q)) = Len(q) - 1
      /\ \A i \in 1 .. Len(q) - 1 : Tail(q)[i] = q[i + 1]
  BY HeadTailProperties
<1>5. /\ Tail(q) \o w \in Seq(Messages) /\ Len(Tail(q) \o w) = Len(q) - 1 + Len(w)
      /\ \A i \in 1 .. Len(q) - 1 + Len(w) :
           (Tail(q) \o w)[i] = IF i <= Len(q) - 1 THEN Tail(q)[i] ELSE w[i - (Len(q) - 1)]
  BY <1>4, ConcatProperties
<1>6. ASSUME NEW i \in 1 .. Len(q) + Len(w) - 1 PROVE Tail(q \o w)[i] = (Tail(q) \o w)[i]
  <2>1. i + 1 - Len(q) = i - (Len(q) - 1) /\ (i + 1 <= Len(q) <=> i <= Len(q) - 1)
    BY <1>1
  <2> QED
    BY <1>1, <1>3, <1>4, <1>5, <2>1
<1>7. Len(Tail(q \o w)) = Len(Tail(q) \o w)
  BY <1>1, <1>3, <1>5
<1> QED
  BY <1>2, <1>3, <1>5, <1>6, <1>7, SeqEqual

LEMMA AppendOfConcat ==
  ASSUME NEW q \in Seq(Messages), NEW w \in Seq(Messages), NEW m \in Messages
  PROVE  Append(q \o w, m) = q \o Append(w, m)
<1>1. <<m>> \in Seq(Messages) /\ q \o w \in Seq(Messages)
  BY ConcatProperties
<1>2. Append(q \o w, m) = (q \o w) \o <<m>> /\ Append(w, m) = w \o <<m>>
  BY <1>1, AppendIsConcat
<1> QED
  BY <1>1, <1>2, ConcatAssociative

LEMMA MoveHead ==
  ASSUME NEW q \in Seq(Messages), NEW w \in Seq(Messages), w # <<>>
  PROVE  Append(q, Head(w)) \o Tail(w) = q \o w
<1>1. /\ Head(w) \in Messages /\ Tail(w) \in Seq(Messages)
      /\ <<Head(w)>> \in Seq(Messages)
  BY HeadTailProperties
<1>2. Append(q, Head(w)) = q \o <<Head(w)>>
  BY <1>1, AppendIsConcat
<1>3. <<Head(w)>> \o Tail(w) = w
  <2>1. /\ Len(w) \in Nat \ {0} /\ Len(Tail(w)) = Len(w) - 1 /\ w[1] = Head(w)
        /\ \A i \in 1 .. Len(w) - 1 : Tail(w)[i] = w[i + 1]
    BY HeadTailProperties, EmptySeq
  <2>2. /\ <<Head(w)>> \o Tail(w) \in Seq(Messages)
        /\ Len(<<Head(w)>> \o Tail(w)) = 1 + Len(Tail(w))
        /\ \A i \in 1 .. 1 + Len(Tail(w)) : (<<Head(w)>> \o Tail(w))[i] =
             IF i <= 1 THEN Head(w) ELSE Tail(w)[i - 1]
    BY <1>1, ConcatProperties
  <2>3. ASSUME NEW i \in 1 .. Len(w) PROVE (<<Head(w)>> \o Tail(w))[i] = w[i]
    <3>1. CASE i = 1
      BY <2>1, <2>2, <3>1
    <3>2. CASE i > 1
      <4>1. i - 1 \in 1 .. Len(w) - 1 /\ (i - 1) + 1 = i
        BY <2>1, <3>2
      <4> QED
        BY <2>1, <2>2, <3>2, <4>1
    <3> QED
      BY <2>1, <3>1, <3>2
  <2>4. Len(<<Head(w)>> \o Tail(w)) = Len(w)
    BY <2>1, <2>2
  <2> QED
    BY <2>2, <2>3, <2>4, SeqEqual
<1> QED
  BY <1>1, <1>2, <1>3, ConcatAssociative

\* No query is missing in front of them: then there are none.
LEMMA OrdPlain ==
  ASSUME NEW w \in Seq(Messages), NEW lo \in Nat, Ord(w, lo, lo)
  PROVE  Plain(w)
BY LenProperties DEF Ord, Plain

LEMMA PlainParts ==
  ASSUME NEW q \in Seq(Messages), NEW w \in Seq(Messages)
  PROVE  /\ Plain(q \o w) <=> Plain(q) /\ Plain(w)
         /\ Plain(q) /\ q # <<>> => Head(q)[1] # "query" /\ Plain(Tail(q))
         /\ Plain(q) => \A n \in 1 .. Len(q) : Plain(SubSeq(q, 2, n))
<1>1. Plain(q \o w) <=> Plain(q) /\ Plain(w)
  <2> DEFINE v == q \o w
  <2>1. /\ Len(q) \in Nat /\ Len(w) \in Nat /\ Len(v) = Len(q) + Len(w)
        /\ \A i \in 1 .. Len(v) : v[i] = IF i <= Len(q) THEN q[i] ELSE w[i - Len(q)]
    BY ConcatProperties, LenProperties
  <2> HIDE DEF v
  <2>2. \A i \in 1 .. Len(w) : v[Len(q) + i] = w[i] /\ Len(q) + i \in 1 .. Len(v)
    BY <2>1
  <2> QED
    BY <2>1, <2>2 DEF Plain, v
<1>2. Plain(q) /\ q # <<>> => Head(q)[1] # "query" /\ Plain(Tail(q))
  BY HeadTailProperties, EmptySeq, LenProperties DEF Plain
<1>3. ASSUME Plain(q), NEW n \in 1 .. Len(q) PROVE Plain(SubSeq(q, 2, n))
  <2>1. \A i \in 2 .. n : q[i] \in Messages
    BY ElementOfSeq, LenProperties
  <2>2. /\ Len(SubSeq(q, 2, n)) = IF 2 <= n THEN n - 1 ELSE 0
        /\ \A i \in 1 .. n - 1 : SubSeq(q, 2, n)[i] = q[i + 1]
    BY <2>1, SubSeqProperties, LenProperties
  <2> QED
    BY <1>3, <2>2, LenProperties DEF Plain
<1> QED
  BY <1>1, <1>2, <1>3

LEMMA LacksFacts ==
  ASSUME NEW q \in Seq(Messages), NEW x \in Messages, NEW m
  PROVE  /\ Lacks(q, m) /\ x # m => Lacks(Append(q, x), m)
         /\ Lacks(q, m) /\ q # <<>> => Head(q) # m /\ Lacks(Tail(q), m)
<1>1. ASSUME Lacks(q, m), x # m PROVE Lacks(Append(q, x), m)
  BY <1>1, AppendProperties, LenProperties DEF Lacks
<1>2. ASSUME Lacks(q, m), q # <<>> PROVE Head(q) # m /\ Lacks(Tail(q), m)
  BY <1>2, HeadTailProperties, LenProperties, EmptySeq DEF Lacks
<1> QED
  BY <1>1, <1>2

\* What the client has sent and the backend not got.
Waiting == req \o (cbuf \o up)

InOrder ==
  /\ Ord(Waiting, Len(served), cli.sent)
  /\ QueriesInOrder
  \* Only queries follow a query.
  /\ cli.sent > 0 => cli.login
  /\ served # <<>> => Len(Waiting) = cli.sent - Len(served)
  \* Before the relay the backend gets nothing from the client.
  /\ step \notin {"relay", "closed"} => Plain(req) /\ served = <<>>
  \* What the reader of the client keeps until then.
  /\ type = "postgres" \/ step \in {"greet", "login"} => Plain(cbuf)
  /\ type # "postgres" => Lacks(up, Msg("ssl"))
  /\ type # "redis" /\ step \in {"greet", "login"} =>
       cli.sent = 0 /\ Lacks(cli.got, Msg("ready")) /\ Lacks(down, Msg("ready"))

\* The query the backend reads is the next one.
LEMMA NextQuery ==
  ASSUME TypeOK, InOrder, req # <<>>, Head(req)[1] = "query"
  PROVE  /\ Head(req)[2] = Len(served) + 1 /\ Head(req)[2] \in 1 .. MaxQueries
         /\ Head(req)[2] <= cli.sent
         /\ Len(Waiting) = cli.sent - Len(served)
         /\ Ord(Tail(Waiting), Len(served) + 1, cli.sent)
         /\ Tail(Waiting) = Tail(req) \o (cbuf \o up)
<1>1. /\ req \in Seq(Messages) /\ cbuf \o up \in Seq(Messages) /\ Waiting \in Seq(Messages)
      /\ Len(served) \in Nat /\ cli.sent \in Nat /\ cli.sent <= MaxQueries
  BY QueueTypes, LenProperties DEF TypeOK, Waiting
<1>2. Waiting # <<>> /\ Head(Waiting) = Head(req)
  BY <1>1, ConcatProperties, EmptySeq DEF Waiting
<1>3. Tail(Waiting) = Tail(req) \o (cbuf \o up)
  BY <1>1, TailOfConcat DEF Waiting
<1>4. /\ Head(req) = <<"query", Len(served) + 1>> /\ Len(served) + 1 <= cli.sent
      /\ Len(Waiting) = cli.sent - Len(served) /\ Ord(Tail(Waiting), Len(served) + 1, cli.sent)
  BY <1>1, <1>2, OrdTail DEF InOrder
<1>5. Head(req)[2] = Len(served) + 1
  BY <1>4
<1>6. Len(served) + 1 \in 1 .. MaxQueries
  BY <1>1, <1>4, BoundsAssumption
<1> QED
  BY <1>3, <1>4, <1>5, <1>6

-----------------------------------------------------------------------------
(* Steps keep the types.                                                   *)

LEMMA ClientTypes == TypeOK /\ Client => TypeOK'
<1> SUFFICES ASSUME TypeOK, Client PROVE TypeOK'
  OBVIOUS
<1>1. ASSUME NEW m \in Messages, ClientSends(m)
      PROVE  /\ up' \in Seq(Messages)
             /\ UNCHANGED <<connection, handler, down, toBackend, backend>>
  BY <1>1, QueueTypes DEF ClientSends, TypeOK
<1>2. CASE ClientAsksTLS
  BY <1>1, <1>2, MessageTypes
     DEF ClientAsksTLS, TypeOK, connection, handler, toBackend, backend
<1>3. ASSUME NEW m \in {"token", "wrong"}, ClientLogin(m) PROVE TypeOK'
  <2>1. Msg(m) \in Messages
    BY MessageTypes
  <2>2. up' \in Seq(Messages) /\ UNCHANGED <<connection, handler, down, toBackend, backend>>
    BY <1>1, <1>3, <2>1 DEF ClientLogin
  <2>3. cli' = [cli EXCEPT !.login = TRUE]
    BY <1>3 DEF ClientLogin
  <2> QED
    BY <2>2, <2>3 DEF TypeOK, connection, handler, toBackend, backend
<1>4. CASE ClientQuery
  <2>1. cli.sent + 1 \in 0 .. MaxQueries /\ cli.sent + 1 \in Nat
    BY <1>4, BoundsAssumption DEF ClientQuery, TypeOK
  <2>2. <<"query", cli.sent + 1>> \in Messages
    BY <2>1, MessageTypes
  <2>3. up' \in Seq(Messages) /\ UNCHANGED <<connection, handler, down, toBackend, backend>>
    BY <1>1, <1>4, <2>2 DEF ClientQuery
  <2>4. cli' = [cli EXCEPT !.sent = cli.sent + 1]
    BY <1>4 DEF ClientQuery
  <2> QED
    BY <2>1, <2>3, <2>4 DEF TypeOK, connection, handler, toBackend, backend
<1>5. CASE ClientReceive
  <2>1. /\ Head(down) \in Messages /\ down' \in Seq(Messages)
        /\ cli' = [cli EXCEPT !.got = Append(@, Head(down))]
    BY <1>5, QueueTypes DEF ClientReceive, TypeOK
  <2>2. Append(cli.got, Head(down)) \in Seq(Messages)
    BY <2>1, QueueTypes DEF TypeOK
  <2>3. UNCHANGED <<connection, handler, up, toBackend, backend>>
    BY <1>5 DEF ClientReceive
  <2> QED
    BY <2>1, <2>2, <2>3 DEF TypeOK, connection, handler, toBackend, backend
<1>6. CASE ClientCloses
  BY <1>6 DEF ClientCloses, TypeOK, connection, handler, toClient, toBackend, backend
<1> QED
  BY <1>2, <1>3, <1>4, <1>5, <1>6 DEF Client

BackendSteps == {"away", "login", "password", "sasl", "proof", "full", "ready", "closed"}

\* What a step of the backend changes: its queues, its step, its salt, the queries it got.
LEMMA BackendFrame ==
  ASSUME TypeOK, req' \in Seq(Messages), rep' \in Seq(Messages), srv' \in BackendSteps,
         challenge' \in 0 .. MaxSalt, served' \in Seq(1 .. MaxQueries),
         UNCHANGED <<connection, handler, toClient, cli>>
  PROVE  TypeOK'
BY DEF TypeOK, BackendSteps, connection, handler, toClient

LEMMA SaysTypes ==
  ASSUME TypeOK, NEW ms \in Seq(Messages), NEW s \in BackendSteps, req # <<>>,
         BackendSays(ms, s), UNCHANGED challenge
  PROVE  TypeOK'
BY QueueTypes, BackendFrame DEF BackendSays, TypeOK

LEMMA ChallengeTypes ==
  ASSUME TypeOK, NEW name \in {"greeting", "switch"}, Challenges(name),
         req' \in Seq(Messages)
  PROVE  TypeOK'
<1>1. challenge' \in 0 .. MaxSalt /\ challenge' \in Nat
  BY BoundsAssumption DEF Challenges, TypeOK
<1>2. <<name, challenge'>> \in Messages
  BY <1>1, MessageTypes
<1>3. rep' \in Seq(Messages)
  BY <1>2, QueueTypes DEF Challenges, TypeOK
<1> QED
  BY <1>1, <1>3, BackendFrame DEF Challenges, TypeOK, BackendSteps

\* No answer to a query.
Mute(q) == \A i \in 1 .. Len(q) : q[i][1] # "answer"

LEMMA MuteParts ==
  ASSUME NEW q \in Seq(Messages), NEW w \in Seq(Messages)
  PROVE  /\ Mute(q \o w) <=> Mute(q) /\ Mute(w)
         /\ Mute(q) => \A n \in 1 .. Len(q) :
              Mute(SubSeq(q, 2, n)) /\ Mute(SubSeq(q, n + 1, Len(q)))
<1>1. Mute(q \o w) <=> Mute(q) /\ Mute(w)
  <2> DEFINE v == q \o w
  <2>1. /\ Len(q) \in Nat /\ Len(w) \in Nat /\ Len(v) = Len(q) + Len(w)
        /\ \A i \in 1 .. Len(v) : v[i] = IF i <= Len(q) THEN q[i] ELSE w[i - Len(q)]
    BY ConcatProperties, LenProperties
  <2> HIDE DEF v
  <2>2. ASSUME NEW i \in 1 .. Len(q) PROVE i \in 1 .. Len(v) /\ v[i] = q[i]
    BY <2>1
  <2>3. ASSUME NEW i \in 1 .. Len(w) PROVE i + Len(q) \in 1 .. Len(v) /\ v[i + Len(q)] = w[i]
    BY <2>1
  <2>4. Mute(v) => Mute(q) /\ Mute(w)
    BY <2>2, <2>3 DEF Mute
  <2>5. Mute(q) /\ Mute(w) => Mute(v)
    BY <2>1 DEF Mute
  <2> QED
    BY <2>4, <2>5 DEF v
<1>2. ASSUME Mute(q), NEW n \in 1 .. Len(q)
      PROVE  Mute(SubSeq(q, 2, n)) /\ Mute(SubSeq(q, n + 1, Len(q)))
  <2>0. Len(q) \in Nat /\ \A i \in 1 .. Len(q) : q[i] \in Messages
    BY ElementOfSeq, LenProperties
  <2>1. (\A i \in 2 .. n : q[i] \in Messages) /\ \A i \in n + 1 .. Len(q) : q[i] \in Messages
    BY <2>0
  <2>2. /\ Len(SubSeq(q, 2, n)) = IF 2 <= n THEN n - 1 ELSE 0
        /\ \A i \in 1 .. n - 1 : SubSeq(q, 2, n)[i] = q[i + 1]
    BY <2>0, <2>1, SubSeqProperties
  <2>3. /\ Len(SubSeq(q, n + 1, Len(q))) = IF n + 1 <= Len(q) THEN Len(q) - n ELSE 0
        /\ \A i \in 1 .. Len(q) - n : SubSeq(q, n + 1, Len(q))[i] = q[n + i]
    BY <2>0, <2>1, SubSeqProperties
  <2> QED
    BY <1>2, <2>0, <2>2, <2>3 DEF Mute
<1> QED
  BY <1>1, <1>2

\* Whoever gets one of these is logged in.
NoWelcome(q) == Lacks(q, Msg("authOK")) /\ Lacks(q, Msg("ok"))

\* The backend plays a login.
LoggingIn == srv \notin {"away", "ready", "closed"}

\* The answers of a backend, but for its challenges and what it says to queries.
Saying ==
  \E ms \in Seq(Messages), s \in BackendSteps \ {"away"} :
    /\ LoggingIn /\ req # <<>> /\ Head(req)[1] # "query"
    /\ BackendSays(ms, s) /\ UNCHANGED challenge
    /\ s \in {"ready", "closed"} \/ NoWelcome(ms)
    /\ Mute(ms)

LEMMA RepliesAre ==
  ASSUME TypeOK, BackendReplies
  PROVE  \/ Saying \/ BackendGreets
         \/ BackendSwitches /\ LoggingIn /\ req # <<>> /\ Head(req)[1] # "query"
         \/ BackendAnswers
<1>1. /\ <<Msg("error")>> \in Seq(Messages) /\ <<Msg("ok")>> \in Seq(Messages)
      /\ <<Msg("fastOK"), Msg("ok")>> \in Seq(Messages)
      /\ PgDone \in Seq(Messages) /\ <<Msg("authOK"), Msg("error")>> \in Seq(Messages)
      /\ <<Msg("saslFinal")>> \o PgDone \in Seq(Messages)
      /\ Mute(<<Msg("error")>>) /\ Mute(<<Msg("ok")>>) /\ Mute(<<Msg("fastOK"), Msg("ok")>>)
      /\ Mute(PgDone) /\ Mute(<<Msg("authOK"), Msg("error")>>)
      /\ Mute(<<Msg("saslFinal")>> \o PgDone)
  <2>1. PgDone \in Seq(Messages) /\ <<Msg("saslFinal")>> \in Seq(Messages)
    BY MessageTypes DEF PgDone
  <2>2. \A s \in {"error", "ok", "saslFinal"} : Mute(<<Msg(s)>>)
    BY DEF Mute, Msg
  <2>3. Mute(<<Msg("fastOK"), Msg("ok")>>) /\ Mute(<<Msg("authOK"), Msg("error")>>) /\ Mute(PgDone)
    BY DEF Mute, Msg, PgDone
  <2>4. Mute(<<Msg("saslFinal")>> \o PgDone)
    BY <2>1, <2>2, <2>3, MuteParts
  <2> QED
    BY <2>1, <2>2, <2>3, <2>4, MessageTypes, ConcatProperties
<1>2. ASSUME NEW m \in {"+", "askPassword", "sasl", "saslContinue", "full", "key"},
             NEW s \in BackendSteps \ {"away"}, LoggingIn, req # <<>>, Head(req)[1] # "query",
             BackendAsks(m, s)
      PROVE  Saying
  <2>1. Msg(m) \in Messages
    BY MessageTypes
  <2>2. <<Msg(m)>> \in Seq(Messages)
    BY <2>1
  <2>3. Msg(m) \notin {Msg("ok"), Msg("fastOK"), Msg("authOK")}
    BY DEF Msg
  <2>4. NoWelcome(<<Msg(m)>>)
    <3>1. Len(<<Msg(m)>>) = 1 /\ <<Msg(m)>>[1] = Msg(m)
      OBVIOUS
    <3> QED
      BY <2>3, <3>1 DEF NoWelcome, Lacks
  <2>5. Mute(<<Msg(m)>>)
    BY DEF Mute, Msg
  <2> QED
    BY <1>2, <2>2, <2>4, <2>5 DEF Saying, BackendAsks
<1>3. "ready" \in BackendSteps \ {"away"} /\ "closed" \in BackendSteps \ {"away"}
  BY DEF BackendSteps
<1>4. LoggingIn /\ req # <<>> /\ Head(req)[1] # "query" /\ BackendRefuses => Saying
  BY <1>1, <1>3 DEF Saying, BackendRefuses
<1>5. ASSUME NEW ms \in Seq(Messages), LoggingIn, req # <<>>, Head(req)[1] # "query",
             BackendAccepts(ms), Mute(ms)
      PROVE  Saying
  BY <1>3, <1>5 DEF Saying, BackendAccepts
<1>6. LoggingIn /\ req # <<>> /\ Head(req)[1] # "query" /\ BackendPgLogin => Saying
  BY <1>1, <1>3, <1>5 DEF BackendPgLogin, Saying
<1>7. \A s, m, n : BackendExpects(s, <<m, n>>) /\ m # "query" /\ s \notin {"away", "ready", "closed"}
                      => LoggingIn /\ req # <<>> /\ Head(req)[1] # "query"
  BY DEF BackendExpects, LoggingIn
<1>8. ASSUME NEW c \in {"AUTH", "SELECT"}, BackendRedis(c) PROVE Saying
  <2>1. LoggingIn /\ req # <<>> /\ Head(req)[1] # "query"
    BY <1>7, <1>8 DEF BackendRedis, Msg
  <2> QED
    BY <1>2, <1>4, <1>8, <2>1 DEF BackendRedis, BackendSteps
<1>9. CASE BackendPostgres
  <2>1. LoggingIn /\ req # <<>> /\ Head(req)[1] # "query"
    BY <1>7, <1>9 DEF BackendPostgres, Msg
  <2> QED
    BY <1>1, <1>2, <1>4, <1>5, <1>6, <1>9, <2>1 DEF BackendPostgres, BackendSteps
<1>10. CASE BackendMySQL
  <2>1. LoggingIn /\ req # <<>> /\ Head(req)[1] # "query"
    BY <1>7, <1>10 DEF BackendMySQL, Msg
  <2> QED
    BY <1>1, <1>2, <1>4, <1>5, <1>10, <2>1 DEF BackendMySQL, BackendSteps
<1> QED
  BY <1>8, <1>9, <1>10 DEF BackendReplies

LEMMA BackendTypes == TypeOK /\ InOrder /\ (BackendReplies \/ BackendCloses) => TypeOK'
<1> SUFFICES ASSUME TypeOK, InOrder, BackendReplies \/ BackendCloses PROVE TypeOK'
  OBVIOUS
<1>1. CASE Saying
  BY <1>1, SaysTypes DEF Saying
<1>2. CASE BackendGreets
  BY <1>2, ChallengeTypes DEF BackendGreets, TypeOK
<1>3. CASE BackendSwitches /\ req # <<>>
  <2>1. req' \in Seq(Messages)
    BY <1>3, QueueTypes DEF BackendSwitches, TypeOK
  <2> QED
    BY <1>3, <2>1, ChallengeTypes DEF BackendSwitches
<1>4. CASE BackendAnswers
  <2> DEFINE n == Head(req)[2]
  <2>1. req # <<>> /\ Head(req)[1] = "query" /\ Tail(req) \in Seq(Messages)
    BY <1>4, QueueTypes DEF BackendAnswers, TypeOK
  <2>2. n \in 1 .. MaxQueries
    BY <2>1, NextQuery
  <2>6. n \in Nat
    BY <2>2, BoundsAssumption
  <2>3. <<"answer", n>> \in Messages
    BY <2>6, MessageTypes
  <2>4. rep' \in Seq(Messages)
    BY <1>4, <2>3, QueueTypes DEF BackendAnswers, TypeOK
  <2>5. served' \in Seq(1 .. MaxQueries)
    BY <1>4, <2>2, AppendProperties DEF BackendAnswers, TypeOK
  <2> QED
    BY <1>4, <2>1, <2>4, <2>5, BackendFrame DEF BackendAnswers, TypeOK, BackendSteps
<1>5. CASE BackendCloses
  BY <1>5, BackendFrame DEF BackendCloses, BackendSteps, TypeOK, toBackend
<1> QED
  BY <1>1, <1>2, <1>3, <1>4, <1>5, RepliesAre

HandlerSteps == {"greet", "login", "dial", "auth", "reply", "key", "relay", "closed"}

\* What a step of the handler changes.
LEMMA HandlerFrame ==
  ASSUME TypeOK, {cbuf', sbuf', up', down', req', rep'} \subseteq Seq(Messages),
         step' \in HandlerSteps, salt' \in 0 .. MaxSalt, srv' \in BackendSteps,
         todo' \in Seq({"AUTH", "SELECT"}), step' = "reply" => todo' # <<>>,
         UNCHANGED <<connection, cli, challenge, served>>
  PROVE  TypeOK'
BY DEF TypeOK, HandlerSteps, BackendSteps, connection

LEMMA TakesTypes ==
  ASSUME TypeOK, NEW s, NEW m, NEW n \in 1 .. Len(Pending), Takes(s, m, n)
  PROVE  /\ Pending \in Seq(Messages) /\ rep' \in Seq(Messages)
         /\ SubSeq(Pending, 2, n) \in Seq(Messages)
         /\ UNCHANGED <<connection, toClient, cli, backend>>
<1>1. Pending \in Seq(Messages)
  BY QueueTypes DEF Pending, TypeOK
<1>2. rep' = SubSeq(Pending, n + 1, Len(Pending))
  BY DEF Takes
<1> HIDE DEF Pending
<1> QED
  BY <1>1, <1>2, QueueTypes DEF Takes

\* A turn of a login: a message of the backend, and the handler's answer.
Turn ==
  /\ \E s \in {"auth", "key", "reply"} : \E m : Receives(s, m)
  /\ step' \in {"auth", "key", "closed"} /\ salt' \in 0 .. MaxSalt
  /\ \E ms \in Seq(Messages) : Plain(ms) /\ req' = req \o ms
  /\ todo' = todo /\ cbuf' = cbuf
  /\ step = "reply" => step' = "closed"

LEMMA LoginTurns ==
  ASSUME TypeOK, pgAuthenticate \/ myAuthenticate \/ AuthFails \/ AuthRefused
  PROVE  Turn \/ LoggedIn("authOK") \/ LoggedIn("ok")
<1>1. \A m : Receives("auth", m) \/ Receives("key", m) => step # "reply"
  BY DEF Receives, Takes
<1>2. ASSUME NEW m, NEW s \in {"auth", "key"}, Receives(s, m),
             NEW s2 \in {"auth", "key"}, NEW ms \in Seq(Messages), Plain(ms), ToBackend(s2, ms),
             salt' \in 0 .. MaxSalt, UNCHANGED <<todo, cbuf>>
      PROVE  Turn
  BY <1>1, <1>2 DEF Turn, ToBackend
<1>3. /\ salt \in 0 .. MaxSalt /\ req \in Seq(Messages)
      /\ <<>> \in Seq(Messages) /\ Plain(<<>>)
      /\ req \o <<>> = req
  <2>1. req \in Seq(Messages)
    BY DEF TypeOK
  <2> QED
    BY <2>1, EmptySeq, ConcatEmptySeq DEF TypeOK, Plain
<1>4. \A s \in {"startup", "password", "saslFirst", "saslProof", "askKey"} :
        <<Msg(s)>> \in Seq(Messages) /\ Plain(<<Msg(s)>>)
  <2>1. \A s \in {"startup", "password", "saslFirst", "saslProof", "askKey"} :
          Msg(s) \in Messages /\ Msg(s)[1] # "query"
    BY MessageTypes DEF Msg
  <2> QED
    BY <2>1, OnePlain
<1>5. \A n \in Nat : \A s \in {"response", "sealed"} :
        <<<<s, n>>>> \in Seq(Messages) /\ Plain(<<<<s, n>>>>)
  <2>1. \A n \in Nat : \A s \in {"response", "sealed"} :
          <<s, n>> \in Messages /\ <<s, n>>[1] # "query"
    BY MessageTypes
  <2> QED
    BY <2>1, OnePlain
<1>6. ASSUME NEW m, NEW ms \in Seq(Messages), Plain(ms), Replies(m, ms) PROVE Turn
  BY <1>2, <1>3, <1>6 DEF Replies
<1>7. CASE pgAuthenticate
  BY <1>3, <1>4, <1>6, <1>7 DEF pgAuthenticate
<1>8. CASE MyGreeted
  <2>1. PICK n \in 1 .. MaxSalt :
          /\ Receives("auth", <<"greeting", n>>) /\ salt' = n
          /\ ToBackend("auth", <<<<"response", n>>>>) /\ UNCHANGED <<todo, cbuf>>
    BY <1>8 DEF MyGreeted
  <2>2. n \in Nat /\ n \in 0 .. MaxSalt
    BY BoundsAssumption
  <2>3. <<<<"response", n>>>> \in Seq(Messages) /\ Plain(<<<<"response", n>>>>)
    BY <1>5, <2>2
  <2> QED
    BY <1>2, <2>1, <2>2, <2>3
<1>9. CASE MySwitched
  <2>1. PICK n \in 1 .. MaxSalt :
          /\ Receives("auth", <<"switch", n>>) /\ salt' = salt
          /\ ToBackend("auth", <<<<"response", n>>>>) /\ UNCHANGED <<todo, cbuf>>
    BY <1>9 DEF MySwitched
  <2>2. n \in Nat
    BY BoundsAssumption
  <2>3. <<<<"response", n>>>> \in Seq(Messages) /\ Plain(<<<<"response", n>>>>)
    BY <1>5, <2>2
  <2> QED
    BY <1>2, <1>3, <2>1, <2>3
<1>10. CASE myFullAuth
  <2>1. salt \in Nat
    BY <1>3, BoundsAssumption
  <2> QED
    BY <1>2, <1>3, <1>4, <1>5, <1>10, <2>1 DEF myFullAuth
<1>11. CASE MyFastOK
  BY <1>3, <1>6, <1>11 DEF MyFastOK
<1>12. CASE AuthFails \/ AuthRefused
  BY <1>3, <1>12 DEF AuthFails, AuthRefused, Turn
<1> QED
  BY <1>7, <1>8, <1>9, <1>10, <1>11, <1>12 DEF myAuthenticate

\* The reader of the client takes its login, and what came with it.
Read(m) ==
  /\ step = "login" /\ up # <<>> /\ Head(up) = Msg(m)
  /\ cbuf' \in Seq(Messages) /\ up' \in Seq(Messages) /\ cbuf' \o up' = Tail(up)
  /\ \E n \in 1 .. Len(up) : cbuf' = SubSeq(up, 2, n)
  /\ \A i \in 1 .. Len(up') : \E j \in 1 .. Len(up) : up'[i] = up[j]
  /\ UNCHANGED <<connection, todo, salt, sbuf, toBackend, cli, backend>>

LEMMA ReadsLogin ==
  ASSUME TypeOK, NEW m, LoginReads(m)
  PROVE  Read(m)
<1>1. up \in Seq(Messages) /\ Len(up) \in Nat \ {0}
  BY EmptySeq DEF TypeOK, LoginReads
<1>2. PICK n \in 1 .. Len(up) : cbuf' = SubSeq(up, 2, n) /\ up' = SubSeq(up, n + 1, Len(up))
  BY DEF LoginReads
<1>3. cbuf' \in Seq(Messages) /\ up' \in Seq(Messages)
  BY <1>1, <1>2, QueueTypes
<1>4. SubSeq(up, 2, n) \o SubSeq(up, n + 1, Len(up)) = SubSeq(up, 2, Len(up))
  <2>1. 2 \in 1 .. Len(up) + 1 /\ n \in 2 - 1 .. Len(up) /\ Len(up) \in n .. Len(up)
    BY <1>1
  <2> QED
    BY <1>1, <2>1, ConcatAdjacentSubSeq
<1>5. Tail(up) = SubSeq(up, 2, Len(up))
  BY <1>1, TailIsSubSeq DEF LoginReads
<1>6. \A i \in n + 1 .. Len(up) : up[i] \in Messages
  BY <1>1, ElementOfSeq
<1>7. /\ Len(up') = IF n + 1 <= Len(up) THEN Len(up) - n ELSE 0
      /\ \A i \in 1 .. Len(up) - n : up'[i] = up[n + i]
  BY <1>1, <1>2, <1>6, SubSeqProperties
<1>8. ASSUME NEW i \in 1 .. Len(up') PROVE \E j \in 1 .. Len(up) : up'[i] = up[j]
  BY <1>1, <1>7
<1> QED
  BY <1>2, <1>3, <1>4, <1>5, <1>8 DEF LoginReads, Read

LEMMA HandlerTypes == TypeOK /\ Handler => TypeOK'
<1> SUFFICES ASSUME TypeOK, Handler PROVE TypeOK'
  OBVIOUS
<1> USE DEF HandlerSteps, BackendSteps
<1>1. \A s \in {"N", "ready", "error", "greeting"} : Append(down, Msg(s)) \in Seq(Messages)
  BY MessageTypes, QueueTypes DEF TypeOK
<1>2. CASE MyGreet
  BY <1>1, <1>2, HandlerFrame DEF MyGreet, TypeOK, toBackend, backend
<1>3. ASSUME NEW m, LoginReads(m), down' \in Seq(Messages), step' \in {"login", "dial", "closed"}
      PROVE  TypeOK'
  <2>1. Read(m)
    BY <1>3, ReadsLogin
  <2> QED
    BY <1>3, <2>1, HandlerFrame DEF Read, TypeOK, toBackend, backend
<1>4. CASE PgRefusesTLS \/ LoginAccepted \/ LoginRefused
  BY <1>1, <1>3, <1>4 DEF PgRefusesTLS, LoginAccepted, LoginRefused, LoginReads, TypeOK
<1>5. CASE LoginCut \/ DialFails \/ AuthCut \/ EndUp \/ EndDown \/ UpFails
  BY <1>5, HandlerFrame DEF LoginCut, DialFails, AuthCut, EndUp, EndDown, UpFails, CopyEnds,
     TypeOK, toClient, toBackend, backend
<1>6. CASE DialSucceeds
  <2>1. <<Msg("startup")>> \in Seq(Messages) /\ <<>> \in Seq(Messages)
    BY MessageTypes, EmptySeq
  <2>2. req' \in Seq(Messages)
    BY <1>6, <2>1, ConcatProperties DEF DialSucceeds, ToBackend, TypeOK
  <2> QED
    BY <1>6, <2>2, HandlerFrame DEF DialSucceeds, ToBackend, TypeOK, toClient
<1>7. ASSUME NEW s, NEW m, Receives(s, m)
      PROVE  /\ sbuf' \in Seq(Messages) /\ rep' \in Seq(Messages)
             /\ UNCHANGED <<connection, toClient, cli, backend>>
  BY <1>7, TakesTypes DEF Receives
<1>8. CASE Turn
  <2>1. req' \in Seq(Messages)
    BY <1>8, ConcatProperties DEF Turn, TypeOK
  <2> QED
    BY <1>7, <1>8, <2>1, HandlerFrame DEF Turn, TypeOK, toClient, backend
<1>9. ASSUME NEW m, LoggedIn(m) PROVE TypeOK'
  <2>1. /\ rep' \in Seq(Messages) /\ UNCHANGED <<connection, toClient, cli, backend>>
    BY <1>9, TakesTypes DEF LoggedIn
  <2>2. {cbuf', sbuf'} \subseteq Seq(Messages) /\ step' \in {"closed", "relay"}
    BY <1>9, EmptySeq DEF LoggedIn, Spliced, TypeOK
  <2> QED
    BY <1>9, <2>1, <2>2, HandlerFrame DEF LoggedIn, TypeOK, toClient, backend
<1>10. CASE RedisAsks
  <2>1. Head(todo) \in {"AUTH", "SELECT"}
    BY <1>10, HeadTailProperties DEF RedisAsks, TypeOK
  <2>2. <<Msg(Head(todo))>> \in Seq(Messages)
    BY <2>1, MessageTypes
  <2>3. req' \in Seq(Messages)
    BY <1>10, <2>2, ConcatProperties DEF RedisAsks, ToBackend, TypeOK
  <2> QED
    BY <1>10, <2>3, HandlerFrame DEF RedisAsks, ToBackend, TypeOK, toClient, backend
<1>11. CASE RedisGranted
  <2>1. step = "reply" /\ todo # <<>>
    BY <1>11 DEF RedisGranted, Receives, Takes, TypeOK
  <2>2. todo' \in Seq({"AUTH", "SELECT"})
    BY <1>11, <2>1, HeadTailProperties DEF RedisGranted, TypeOK
  <2> QED
    BY <1>7, <1>11, <2>2, HandlerFrame DEF RedisGranted, TypeOK, toClient, backend
<1>12. CASE RedisReady
  <2>1. {cbuf', sbuf'} \subseteq Seq(Messages) /\ step' \in {"closed", "relay"}
    BY <1>12, EmptySeq DEF RedisReady, Spliced, TypeOK
  <2> QED
    BY <1>12, <2>1, HandlerFrame DEF RedisReady, TypeOK, toClient, toBackend, backend
<1>13. CASE CopyUp
  <2>1. Head(cbuf \o up) \in Messages /\ {cbuf', up'} \subseteq Seq(Messages)
    <3>1. cbuf \in Seq(Messages) /\ up \in Seq(Messages) /\ cbuf \o up \in Seq(Messages)
      BY ConcatProperties DEF TypeOK
    <3>2. cbuf = <<>> => up # <<>> /\ up' = Tail(up) /\ cbuf' = cbuf
      BY <1>13, <3>1, ConcatEmptySeq DEF CopyUp
    <3>3. cbuf # <<>> => cbuf' = Tail(cbuf) /\ up' = up
      BY <1>13 DEF CopyUp
    <3>4. cbuf \o up # <<>>
      BY <1>13 DEF CopyUp
    <3> QED
      BY <3>1, <3>2, <3>3, <3>4, HeadTailProperties
  <2>2. req' \in Seq(Messages)
    BY <1>13, <2>1, QueueTypes DEF CopyUp, TypeOK
  <2> QED
    BY <1>13, <2>1, <2>2, HandlerFrame DEF CopyUp, TypeOK, backend
<1>14. CASE CopyDown
  <2>1. rep' \in Seq(Messages) /\ down' \in Seq(Messages)
    BY <1>14, QueueTypes DEF CopyDown, TypeOK
  <2> QED
    BY <1>14, <2>1, HandlerFrame DEF CopyDown, TypeOK, handler, backend
<1> QED
  BY <1>2, <1>4, <1>5, <1>6, <1>8, <1>9, <1>10, <1>11, <1>12, <1>13, <1>14, LoginTurns
     DEF Handler, redisAuthenticate, splice

-----------------------------------------------------------------------------
(* Queries stay in order.                                                  *)

LEMMA OrderTypes ==
  ASSUME TypeOK
  PROVE  /\ req \in Seq(Messages) /\ cbuf \in Seq(Messages) /\ up \in Seq(Messages)
         /\ down \in Seq(Messages) /\ cli.got \in Seq(Messages)
         /\ cbuf \o up \in Seq(Messages) /\ Waiting \in Seq(Messages)
         /\ Len(served) \in Nat /\ cli.sent \in Nat
BY ConcatProperties, LenProperties DEF TypeOK, Waiting

\* A step that leaves the queries where they are.
LEMMA OrderFrame ==
  ASSUME InOrder, UNCHANGED <<type, cbuf, up, req, served, cli>>,
         step' \in {"relay", "closed"} \/ step' = step \/ step \notin {"relay", "closed"},
         step' \in {"greet", "login"} => step \in {"greet", "login"},
         type # "redis" /\ step' \in {"greet", "login"} /\ Lacks(down, Msg("ready")) =>
           Lacks(down', Msg("ready"))
  PROVE  InOrder'
BY DEF InOrder, Waiting, QueriesInOrder

LEMMA ClientSendsOrder ==
  ASSUME TypeOK, InOrder, NEW m \in Messages, ClientSends(m), m # Msg("ssl") \/ type = "postgres",
         cli'.got = cli.got,
         \/ m[1] # "query" /\ cli.sent = 0 /\ cli'.sent = 0
         \/ m = <<"query", cli.sent + 1>> /\ cli'.sent = cli.sent + 1 /\ cli'.login
            /\ (type # "redis" => step \notin {"greet", "login"})
  PROVE  InOrder'
<1>1. /\ Waiting' = Append(Waiting, m) /\ Len(Waiting') = Len(Waiting) + 1
      /\ Len(Waiting) \in Nat
  <2>1. up' = Append(up, m) /\ req' = req /\ cbuf' = cbuf
    BY DEF ClientSends, handler, toBackend
  <2>2. Append(cbuf \o up, m) = cbuf \o Append(up, m)
    BY OrderTypes, AppendOfConcat
  <2>3. Append(req \o (cbuf \o up), m) = req \o Append(cbuf \o up, m)
    BY OrderTypes, AppendOfConcat
  <2>4. Waiting' = Append(Waiting, m)
    BY <2>1, <2>2, <2>3 DEF Waiting
  <2> QED
    BY <2>4, OrderTypes, AppendProperties, LenProperties
<1>2. UNCHANGED <<type, step, cbuf, req, down, served>>
  BY DEF ClientSends, connection, handler, toBackend, backend
<1>3. Lacks(up, Msg("ssl")) /\ m # Msg("ssl") => Lacks(up', Msg("ssl"))
  BY OrderTypes, LacksFacts DEF ClientSends
<1>4. Ord(Waiting, Len(served), cli.sent)
  BY DEF InOrder
<1>5. CASE m[1] # "query" /\ cli.sent = 0 /\ cli'.sent = 0
  <2>1. Len(served) = 0 /\ served = <<>>
    BY <1>4, <1>5, OrderTypes, EmptySeq DEF Ord, TypeOK
  <2>2. Ord(Waiting', Len(served'), cli'.sent)
    BY <1>1, <1>2, <1>4, <1>5, <2>1, OrderTypes, OrdAppend
  <2> QED
    BY <1>2, <1>3, <1>5, <2>1, <2>2 DEF InOrder, QueriesInOrder
<1>6. CASE /\ m = <<"query", cli.sent + 1>> /\ cli'.sent = cli.sent + 1 /\ cli'.login
           /\ (type # "redis" => step \notin {"greet", "login"})
  <2>1. Ord(Waiting', Len(served'), cli'.sent)
    BY <1>1, <1>2, <1>4, <1>6, OrderTypes, OrdAppend
  <2>2. m # Msg("ssl")
    BY <1>6 DEF Msg
  <2>3. served # <<>> => Len(Waiting') = cli'.sent - Len(served')
    BY <1>1, <1>2, <1>6, OrderTypes DEF InOrder
  <2> QED
    BY <1>2, <1>3, <1>6, <2>1, <2>2, <2>3 DEF InOrder, QueriesInOrder
<1> QED
  BY <1>5, <1>6

LEMMA ClientOrder == TypeOK /\ InOrder /\ Client => InOrder'
<1> SUFFICES ASSUME TypeOK, InOrder, Client PROVE InOrder'
  OBVIOUS
<1>1. ~cli.login => cli.sent = 0
  BY OrderTypes DEF InOrder
<1>2. CASE ClientAsksTLS
  <2>1. Msg("ssl") \in Messages /\ Msg("ssl")[1] # "query"
    BY MessageTypes DEF Msg
  <2>2. cli'.sent = 0 /\ cli'.got = cli.got /\ cli.sent = 0
    BY <1>1, <1>2 DEF ClientAsksTLS, TypeOK
  <2> QED
    BY <1>2, <2>1, <2>2, ClientSendsOrder DEF ClientAsksTLS
<1>3. ASSUME NEW m \in {"token", "wrong"}, ClientLogin(m) PROVE InOrder'
  <2>1. Msg(m) \in Messages /\ Msg(m)[1] # "query" /\ Msg(m) # Msg("ssl")
    BY MessageTypes DEF Msg
  <2>2. cli'.sent = 0 /\ cli'.got = cli.got /\ cli.sent = 0
    BY <1>1, <1>3 DEF ClientLogin, TypeOK
  <2> QED
    BY <1>3, <2>1, <2>2, ClientSendsOrder DEF ClientLogin
<1>4. CASE ClientQuery
  <2> DEFINE m == <<"query", cli.sent + 1>>
  <2>1. m \in Messages /\ m # Msg("ssl") /\ m[1] = "query"
    <3>1. cli.sent + 1 \in Nat
      BY OrderTypes
    <3> QED
      BY <3>1, MessageTypes DEF Msg
  <2>2. cli'.sent = cli.sent + 1 /\ cli'.got = cli.got /\ cli'.login
    BY <1>4 DEF ClientQuery, TypeOK
  <2>3. type # "redis" => step \notin {"greet", "login"}
    <3> SUFFICES ASSUME type # "redis", step \in {"greet", "login"} PROVE FALSE
      OBVIOUS
    <3>1. cli.sent = 0 /\ Lacks(cli.got, Msg("ready"))
      BY DEF InOrder
    <3>2. Got(Msg("ready"))
      BY <1>4, <3>1 DEF ClientQuery, Answered
    <3> QED
      BY <3>1, <3>2, OrderTypes, LenProperties DEF Got, Lacks
  <2>4. ClientSends(m)
    BY <1>4 DEF ClientQuery
  <2> HIDE DEF m
  <2> QED
    BY <2>1, <2>2, <2>3, <2>4, ClientSendsOrder DEF m
<1>5. CASE ClientReceive
  <2>1. /\ Head(down) \in Messages /\ down # <<>> /\ down' = Tail(down)
        /\ cli'.got = Append(cli.got, Head(down))
        /\ cli'.sent = cli.sent /\ cli'.login = cli.login
    BY <1>5, OrderTypes, QueueTypes DEF ClientReceive, TypeOK
  <2>2. Lacks(cli.got, Msg("ready")) /\ Lacks(down, Msg("ready")) =>
          Lacks(cli'.got, Msg("ready")) /\ Lacks(down', Msg("ready"))
    BY <2>1, OrderTypes, LacksFacts
  <2>3. UNCHANGED <<type, step, cbuf, up, req, served>>
    BY <1>5 DEF ClientReceive, connection, handler, toBackend, backend
  <2> QED
    BY <2>1, <2>2, <2>3 DEF InOrder, Waiting, QueriesInOrder
<1>6. CASE ClientCloses
  <2>1. cli'.sent = cli.sent /\ cli'.login = cli.login /\ cli'.got = cli.got
    BY <1>6 DEF ClientCloses, TypeOK
  <2> QED
    BY <1>6, <2>1 DEF ClientCloses, InOrder, Waiting, QueriesInOrder, connection, handler,
       toClient, toBackend, backend
<1> QED
  BY <1>2, <1>3, <1>4, <1>5, <1>6 DEF Client

\* The backend reads what is no query.
LEMMA BackendReadsOrder ==
  ASSUME TypeOK, InOrder, req # <<>>, Head(req)[1] # "query", req' = Tail(req),
         UNCHANGED <<type, step, cbuf, up, down, served, cli>>
  PROVE  InOrder'
<1>1. /\ Tail(Waiting) = Waiting' /\ Waiting # <<>> /\ Head(Waiting) = Head(req)
  BY OrderTypes, TailOfConcat DEF Waiting
<1>2. Ord(Waiting, Len(served), cli.sent)
  BY DEF InOrder
<1>3. Ord(Waiting', Len(served), cli.sent)
  BY <1>1, <1>2, OrderTypes, OrdTail
<1>4. served = <<>>
  <2> SUFFICES ASSUME served # <<>> PROVE FALSE
    OBVIOUS
  <2>1. Len(Waiting) = cli.sent - Len(served) /\ Len(Waiting) \in Nat \ {0}
    BY <1>1, OrderTypes, EmptySeq DEF InOrder
  <2>2. Waiting[1] = <<"query", cli.sent - Len(Waiting) + 1>>
    BY <1>2, <2>1 DEF Ord
  <2> QED
    BY <1>1, <2>2
<1>5. Plain(req) => Plain(req')
  BY OrderTypes, PlainParts
<1> QED
  BY <1>3, <1>4, <1>5 DEF InOrder, QueriesInOrder

LEMMA AnswersOrder ==
  ASSUME TypeOK, InOrder, BackendAnswers
  PROVE  InOrder'
<1>1. /\ req # <<>> /\ Head(req)[1] = "query" /\ req' = Tail(req)
      /\ served' = Append(served, Head(req)[2])
      /\ UNCHANGED <<type, step, cbuf, up, down, cli>>
  BY DEF BackendAnswers, connection, handler, toClient
<1>2. /\ Head(req)[2] = Len(served) + 1 /\ Head(req)[2] \in 1 .. MaxQueries
      /\ Len(Waiting) = cli.sent - Len(served)
      /\ Ord(Tail(Waiting), Len(served) + 1, cli.sent)
      /\ Tail(Waiting) = Waiting'
  BY <1>1, NextQuery DEF Waiting
<1>3. /\ served' \in Seq(1 .. MaxQueries) /\ Len(served') = Len(served) + 1 /\ served' # <<>>
      /\ \A i \in 1 .. Len(served) : served'[i] = served[i]
      /\ served'[Len(served) + 1] = Len(served) + 1
  <2>1. served \in Seq(1 .. MaxQueries)
    BY DEF TypeOK
  <2> QED
    BY <1>1, <1>2, <2>1, AppendProperties
<1>4. Waiting # <<>> /\ Len(Waiting') = Len(Waiting) - 1
  <2>1. Waiting # <<>>
    BY <1>1, OrderTypes, TailOfConcat DEF Waiting
  <2> QED
    BY <1>2, <2>1, OrderTypes, HeadTailProperties
<1>5. served' = [k \in 1 .. Len(served') |-> k]
  <2>1. DOMAIN served' = 1 .. Len(served') /\ served' \in [1 .. Len(served') -> 1 .. MaxQueries]
    BY <1>3, LenProperties
  <2>2. ASSUME NEW i \in 1 .. Len(served') PROVE served'[i] = i
    <3>1. i \in 1 .. Len(served) => served[i] = i
      BY DEF InOrder, QueriesInOrder
    <3>2. i \in 1 .. Len(served) \/ i = Len(served) + 1
      BY <1>3, OrderTypes
    <3> QED
      BY <1>3, <3>1, <3>2
  <2> QED
    BY <2>1, <2>2
<1>6. step \in {"relay", "closed"}
  BY <1>1, OrderTypes, PlainParts DEF InOrder
<1>7. Len(Waiting') = cli.sent - Len(served')
  BY <1>2, <1>3, <1>4, OrderTypes
<1> QED
  BY <1>1, <1>2, <1>3, <1>5, <1>6, <1>7 DEF InOrder, QueriesInOrder

LEMMA BackendOrder == TypeOK /\ InOrder /\ (BackendReplies \/ BackendCloses) => InOrder'
<1> SUFFICES ASSUME TypeOK, InOrder, BackendReplies \/ BackendCloses PROVE InOrder'
  OBVIOUS
<1>1. CASE Saying
  BY <1>1, BackendReadsOrder DEF Saying, BackendSays, connection, handler, toClient
<1>2. CASE BackendGreets \/ BackendCloses
  BY <1>2, OrderFrame DEF BackendGreets, Challenges, BackendCloses, connection, handler,
     toClient, toBackend
<1>3. CASE BackendSwitches /\ req # <<>> /\ Head(req)[1] # "query"
  BY <1>3, BackendReadsOrder DEF BackendSwitches, Challenges, connection, handler, toClient
<1> QED
  BY <1>1, <1>2, <1>3, RepliesAre, AnswersOrder

\* The handler says something of its own to the backend.
LEMMA SpeaksOrder ==
  ASSUME TypeOK, InOrder, step \notin {"relay", "closed", "greet", "login"},
         step' \notin {"greet", "login"},
         NEW ms \in Seq(Messages), Plain(ms), req' = req \o ms,
         UNCHANGED <<type, cbuf, up, served, cli>>
  PROVE  InOrder'
<1>1. /\ Plain(req) /\ Plain(req') /\ req' \in Seq(Messages) /\ served = <<>>
  BY OrderTypes, PlainParts, ConcatProperties DEF InOrder
<1>2. Ord(Waiting', Len(served), cli.sent) <=> Ord(Waiting, Len(served), cli.sent)
  BY <1>1, OrderTypes, OrdPrefix DEF Waiting
<1> QED
  BY <1>1, <1>2 DEF InOrder, QueriesInOrder

LEMMA ReadOrder ==
  ASSUME TypeOK, InOrder, NEW m, m # "query", Read(m), step' \in {"login", "dial", "closed"},
         m = "ssl" \/ step' # "login",
         step' = "login" => down' = Append(down, Msg("N"))
  PROVE  InOrder'
<1>1. /\ step = "login" /\ up # <<>> /\ Head(up) = Msg(m) /\ req' = req
      /\ cbuf' \in Seq(Messages) /\ up' \in Seq(Messages) /\ cbuf' \o up' = Tail(up)
      /\ Tail(up) \in Seq(Messages)
      /\ UNCHANGED <<type, served, cli>>
  BY OrderTypes, HeadTailProperties DEF Read, connection, toBackend, backend
<1>2. Plain(req) /\ Plain(cbuf) /\ served = <<>>
  BY <1>1 DEF InOrder
<1>3. Ord(up, Len(served), cli.sent)
  BY <1>2, OrderTypes, OrdPrefix DEF InOrder, Waiting
<1>4. Ord(Tail(up), Len(served), cli.sent)
  <2>1. Head(up)[1] # "query"
    BY <1>1 DEF Msg
  <2> QED
    BY <1>1, <1>3, <2>1, OrderTypes, OrdTail
<1>5. Ord(Waiting', Len(served'), cli'.sent)
  BY <1>1, <1>2, <1>4, OrderTypes, OrdPrefix DEF Waiting
<1>6. type # "redis" => Plain(cbuf')
  <2> SUFFICES ASSUME type # "redis" PROVE Plain(cbuf')
    OBVIOUS
  <2>1. cli.sent = 0 /\ Len(served) = 0
    BY <1>1, <1>2, EmptySeq DEF InOrder
  <2>2. Plain(up)
    BY <1>3, <2>1, OrderTypes, OrdPlain
  <2> QED
    BY <2>2, OrderTypes, PlainParts DEF Read
<1>7. type # "postgres" => Lacks(up', Msg("ssl"))
  BY <1>1, OrderTypes DEF InOrder, Lacks, Read
<1>8. step' = "login" => type = "postgres"
  <2> SUFFICES ASSUME m = "ssl", type # "postgres" PROVE FALSE
    OBVIOUS
  <2>1. Lacks(up, Msg("ssl"))
    BY DEF InOrder
  <2> QED
    BY <1>1, <2>1, OrderTypes, LacksFacts
<1>9. Lacks(down, Msg("ready")) /\ step' = "login" => Lacks(down', Msg("ready"))
  <2>1. Msg("N") \in Messages /\ Msg("N") # Msg("ready")
    BY MessageTypes DEF Msg
  <2>2. Lacks(down, Msg("ready")) => Lacks(Append(down, Msg("N")), Msg("ready"))
    BY <2>1, OrderTypes, LacksFacts
  <2> QED
    BY <2>2
<1> QED
  BY <1>1, <1>2, <1>5, <1>6, <1>7, <1>8, <1>9 DEF InOrder, QueriesInOrder

LEMMA SplicedOrder ==
  ASSUME TypeOK, InOrder, Spliced, step \notin {"relay", "closed"},
         UNCHANGED <<type, up, req, served, cli>>
  PROVE  InOrder'
<1>1. step' \in {"relay", "closed"} /\ (type = "postgres" => cbuf' = <<>>)
      /\ (type # "postgres" => cbuf' = cbuf)
  BY DEF Spliced
<1>2. CASE type # "postgres"
  BY <1>1, <1>2 DEF InOrder, QueriesInOrder, Waiting
<1>3. CASE type = "postgres"
  <2>1. Plain(req) /\ Plain(cbuf) /\ served = <<>> /\ Plain(<<>>)
    BY <1>3 DEF InOrder, Plain
  <2>5. Ord(req \o (cbuf \o up), Len(served), cli.sent)
    BY DEF InOrder, Waiting
  <2>2. Ord(up, Len(served), cli.sent)
    BY <2>1, <2>5, OrderTypes, OrdPrefix
  <2>3. <<>> \o up = up /\ Waiting' = req \o (<<>> \o up)
    BY <1>1, <1>3, OrderTypes, ConcatEmptySeq DEF Waiting
  <2>4. Ord(Waiting', Len(served), cli.sent)
    BY <2>1, <2>2, <2>3, OrderTypes, OrdPrefix
  <2> QED
    BY <1>1, <1>3, <2>1, <2>4 DEF InOrder, QueriesInOrder
<1> QED
  BY <1>2, <1>3

LEMMA CopyUpOrder ==
  ASSUME TypeOK, InOrder, CopyUp
  PROVE  InOrder'
<1>1. /\ step = "relay" /\ step' = step /\ cbuf \o up # <<>>
      /\ req' = Append(req, Head(cbuf \o up))
      /\ UNCHANGED <<type, served, cli>>
  BY DEF CopyUp, connection, backend
<1>2. cbuf = <<>> => up # <<>> /\ cbuf \o up = up /\ up' = Tail(up) /\ cbuf' = <<>>
  BY <1>1, OrderTypes, ConcatEmptySeq DEF CopyUp
<1>3. cbuf # <<>> => cbuf' = Tail(cbuf) /\ up' = up
  BY DEF CopyUp
<1>4. cbuf' \o up' = Tail(cbuf \o up)
  <2>1. CASE cbuf = <<>>
    BY <1>2, <2>1, OrderTypes, HeadTailProperties, ConcatEmptySeq
  <2>2. CASE cbuf # <<>>
    BY <1>3, <2>2, OrderTypes, TailOfConcat
  <2> QED
    BY <2>1, <2>2
<1>5. Waiting' = Waiting
  <2> DEFINE w == cbuf \o up
  <2>1. w \in Seq(Messages) /\ w # <<>>
    BY <1>1, OrderTypes
  <2>2. Waiting' = Append(req, Head(w)) \o Tail(w)
    BY <1>1, <1>4 DEF Waiting
  <2> HIDE DEF w
  <2>3. Append(req, Head(w)) \o Tail(w) = req \o w
    BY <2>1, OrderTypes, MoveHead
  <2> QED
    BY <2>2, <2>3 DEF Waiting, w
<1>6. Plain(cbuf) => Plain(cbuf')
  <2>1. Plain(cbuf) /\ cbuf # <<>> => Plain(Tail(cbuf))
    BY OrderTypes, PlainParts
  <2> QED
    BY <1>2, <1>3, <2>1
<1>7. Lacks(up, Msg("ssl")) => Lacks(up', Msg("ssl"))
  <2>1. Lacks(up, Msg("ssl")) /\ up # <<>> => Lacks(Tail(up), Msg("ssl"))
    BY OrderTypes, LacksFacts, MessageTypes
  <2> QED
    BY <1>2, <1>3, <2>1
<1> QED
  BY <1>1, <1>5, <1>6, <1>7 DEF InOrder, QueriesInOrder

LEMMA HandlerOrder == TypeOK /\ InOrder /\ Handler => InOrder'
<1> SUFFICES ASSUME TypeOK, InOrder, Handler PROVE InOrder'
  OBVIOUS
<1>1. CASE MyGreet
  <2>1. Msg("greeting") \in Messages /\ Msg("greeting") # Msg("ready")
    BY MessageTypes DEF Msg
  <2>2. Lacks(down, Msg("ready")) => Lacks(down', Msg("ready"))
    BY <1>1, <2>1, OrderTypes, LacksFacts DEF MyGreet
  <2> QED
    BY <1>1, <2>2, OrderFrame DEF MyGreet, connection, toBackend, backend
<1>2. CASE PgRefusesTLS
  <2>1. Read("ssl")
    BY <1>2, ReadsLogin DEF PgRefusesTLS
  <2>2. step' = "login" /\ down' = Append(down, Msg("N"))
    BY <1>2 DEF PgRefusesTLS, LoginReads
  <2> QED
    BY <2>1, <2>2, ReadOrder
<1>3. CASE LoginAccepted
  BY <1>3, ReadsLogin, ReadOrder DEF LoginAccepted
<1>4. CASE LoginRefused
  BY <1>4, ReadsLogin, ReadOrder DEF LoginRefused
<1>5. CASE LoginCut \/ DialFails \/ AuthCut \/ EndUp \/ EndDown \/ UpFails
  BY <1>5, OrderFrame DEF LoginCut, DialFails, AuthCut, EndUp, EndDown, UpFails, CopyEnds,
     connection, toClient, toBackend, backend
<1>6. CASE DialSucceeds
  <2> DEFINE ms == IF type = "postgres" THEN <<Msg("startup")>> ELSE <<>>
  <2>1. ms \in Seq(Messages) /\ Plain(ms)
    <3>1. Msg("startup") \in Messages /\ Msg("startup")[1] # "query"
      BY MessageTypes DEF Msg
    <3> QED
      BY <3>1, OnePlain, EmptySeq DEF Plain
  <2>2. /\ step = "dial" /\ step' = "auth" /\ req' = req \o ms
        /\ UNCHANGED <<type, cbuf, up, served, cli>>
    BY <1>6 DEF DialSucceeds, ToBackend, connection, toClient
  <2> HIDE DEF ms
  <2> QED
    BY <2>1, <2>2, SpeaksOrder
<1>7. ASSUME NEW s, NEW m, Receives(s, m) PROVE step = s /\ UNCHANGED <<type, up, served, cli>>
  BY <1>7 DEF Receives, Takes, connection, toClient, backend
<1>8. CASE Turn
  <2>1. PICK s \in {"auth", "key", "reply"} : \E m : Receives(s, m)
    BY <1>8 DEF Turn
  <2>2. PICK ms \in Seq(Messages) : Plain(ms) /\ req' = req \o ms
    BY <1>8 DEF Turn
  <2>3. step \in {"auth", "key", "reply"} /\ UNCHANGED <<type, up, served, cli>>
    BY <1>7, <2>1
  <2> QED
    BY <1>8, <2>2, <2>3, SpeaksOrder DEF Turn
<1>9. ASSUME NEW m, LoggedIn(m) PROVE InOrder'
  BY <1>9, SplicedOrder DEF LoggedIn, Takes, connection, toClient, backend
<1>10. CASE RedisAsks
  <2>1. Head(todo) \in {"AUTH", "SELECT"}
    BY <1>10, HeadTailProperties DEF RedisAsks, TypeOK
  <2>2. Msg(Head(todo)) \in Messages /\ Msg(Head(todo))[1] # "query"
    BY <2>1, MessageTypes DEF Msg
  <2>3. <<Msg(Head(todo))>> \in Seq(Messages) /\ Plain(<<Msg(Head(todo))>>)
    BY <2>2, OnePlain
  <2> QED
    BY <1>10, <2>3, SpeaksOrder DEF RedisAsks, ToBackend, connection, toClient, backend
<1>11. CASE RedisGranted
  <2>1. step = "reply" /\ UNCHANGED <<type, up, served, cli>>
    BY <1>7, <1>11 DEF RedisGranted
  <2> QED
    BY <1>11, <2>1, OrderFrame DEF RedisGranted
<1>12. CASE RedisReady
  BY <1>12, SplicedOrder DEF RedisReady, connection, toClient, toBackend, backend
<1>13. CASE CopyDown
  BY <1>13, OrderFrame DEF CopyDown, connection, handler, backend
<1> QED
  BY <1>1, <1>2, <1>3, <1>4, <1>5, <1>6, <1>8, <1>9, <1>10, <1>11, <1>12, <1>13, LoginTurns,
     CopyUpOrder DEF Handler, redisAuthenticate, splice

LEMMA OrderInit == Init => TypeOK /\ InOrder
<1> SUFFICES ASSUME Init PROVE TypeOK /\ InOrder
  OBVIOUS
<1>1. TypeOK
  <2>1. todo \in Seq({"AUTH", "SELECT"})
    <3>1. {<<>>, <<"AUTH">>, <<"SELECT">>, <<"AUTH", "SELECT">>} \subseteq Seq({"AUTH", "SELECT"})
      OBVIOUS
    <3>2. todo \in {<<>>, <<"AUTH">>, <<"SELECT">>, <<"AUTH", "SELECT">>}
      BY DEF Init
    <3> QED
      BY <3>1, <3>2
  <2>2. /\ 0 \in 0 .. MaxSalt /\ 0 \in 0 .. MaxQueries
        /\ <<>> \in Seq(Messages) /\ <<>> \in Seq(1 .. MaxQueries)
    BY EmptySeq, BoundsAssumption
  <2>3. cli \in [sent : 0 .. MaxQueries, got : Seq(Messages),
                 ssl : BOOLEAN, login : BOOLEAN, open : BOOLEAN]
    BY <2>2 DEF Init
  <2>4. secure \in BOOLEAN /\ step # "reply"
    BY DEF Init
  <2> QED
    BY <2>1, <2>2, <2>3, <2>4 DEF Init, TypeOK
<1>2. Waiting = <<>>
  BY ConcatEmptySeq, OrderTypes, <1>1 DEF Init, Waiting
<1>3. InOrder
  BY <1>2 DEF Init, InOrder, Ord, Plain, Lacks, QueriesInOrder
<1> QED
  BY <1>1, <1>3

LEMMA OrderStep == TypeOK /\ InOrder /\ [Next]_vars => TypeOK' /\ InOrder'
<1> SUFFICES ASSUME TypeOK, InOrder, [Next]_vars PROVE TypeOK' /\ InOrder'
  OBVIOUS
<1>1. CASE UNCHANGED vars
  BY <1>1 DEF vars, connection, handler, toClient, toBackend, backend, TypeOK, InOrder, Waiting,
     QueriesInOrder
<1> QED
  BY <1>1, ClientTypes, ClientOrder, BackendTypes, BackendOrder, HandlerTypes, HandlerOrder
     DEF Next

LEMMA OrderAlways == Spec => [](TypeOK /\ InOrder)
BY OrderInit, OrderStep, PTL DEF Spec

\* Every variable keeps its type (a message in a queue is one of the protocols', and the
\* backend gets no query the client did not send).
THEOREM TypeCorrect == Spec => []TypeOK
<1>1. TypeOK /\ InOrder => TypeOK
  OBVIOUS
<1> QED
  BY <1>1, OrderAlways, PTL

\* However a login goes and however many queries came along with it, the backend gets the
\* client's queries in their order and with none missing: splice starts with what the
\* readers of the login had taken.
THEOREM QueriesInOrderAlways == Spec => []QueriesInOrder
<1>1. TypeOK /\ InOrder => QueriesInOrder
  BY DEF InOrder
<1> QED
  BY <1>1, OrderAlways, PTL

-----------------------------------------------------------------------------
(* Answers are delivered.                                                  *)

\* A connection that the client did not end is over before its first query was
\* answered, or its backend has closed with all it answered delivered.
Ended ==
  step = "closed" /\ cli.open =>
    \/ Plain(req) /\ served = <<>>
    \/ srv = "closed" /\ (rep = <<>> \/ served = <<>> \/ Len(served) < cli.sent)

LEMMA EndedStep == TypeOK /\ InOrder /\ Ended /\ [Next]_vars => Ended'
<1> SUFFICES ASSUME TypeOK, InOrder, Ended, [Next]_vars, step' = "closed", cli'.open
             PROVE  Ended'
  BY DEF Ended
<1>1. CASE UNCHANGED vars
  BY <1>1 DEF vars, connection, handler, toClient, toBackend, backend, Ended
<1>2. CASE Client
  <2>1. UNCHANGED <<step, req, rep, srv, served>>
    BY <1>2 DEF Client, ClientAsksTLS, ClientLogin, ClientQuery, ClientReceive,
       ClientCloses, ClientSends, handler, toBackend, backend
  <2>2. cli.open /\ cli'.sent >= cli.sent /\ cli'.sent \in Nat
    <3>0. /\ cli \in [sent : 0 .. MaxQueries, got : Seq(Messages),
                      ssl : BOOLEAN, login : BOOLEAN, open : BOOLEAN]
          /\ cli.sent \in Nat
      BY BoundsAssumption DEF TypeOK
    <3>1. CASE ClientAsksTLS
      BY <3>0, <3>1 DEF ClientAsksTLS, ClientSends
    <3>2. ASSUME NEW m \in {"token", "wrong"}, ClientLogin(m)
          PROVE  cli.open /\ cli'.sent >= cli.sent /\ cli'.sent \in Nat
      BY <3>0, <3>2 DEF ClientLogin, ClientSends
    <3>3. CASE ClientQuery
      BY <3>0, <3>3 DEF ClientQuery, ClientSends
    <3>4. CASE ClientReceive
      <4>1. cli' = [cli EXCEPT !.got = Append(cli.got, Head(down))]
        BY <3>4 DEF ClientReceive
      <4> QED
        BY <3>0, <4>1
    <3>5. ~ClientCloses
      BY <3>0 DEF ClientCloses
    <3> QED
      BY <1>2, <3>1, <3>2, <3>3, <3>4, <3>5 DEF Client
  <2> QED
    BY <2>1, <2>2, OrderTypes DEF Ended
<1>3. CASE BackendReplies \/ BackendCloses
  <2>1. UNCHANGED <<step, cli>>
    BY <1>3, RepliesAre DEF Saying, BackendSays, BackendGreets, BackendSwitches, Challenges,
       BackendAnswers, BackendCloses, connection, handler
  <2>2. ASSUME srv = "closed" PROVE FALSE
    BY <1>3, <2>2, RepliesAre DEF Saying, LoggingIn, BackendGreets, BackendAnswers, BackendCloses
  <2>3. Plain(req) /\ served = <<>>
    BY <2>1, <2>2 DEF Ended
  <2>4. req # <<>> => Head(req)[1] # "query" /\ Plain(Tail(req))
    BY <2>3, OrderTypes, PlainParts
  <2>5. Plain(req') /\ served' = <<>>
    BY <1>3, <2>3, <2>4, RepliesAre DEF Saying, BackendSays, BackendGreets, BackendSwitches,
       Challenges, BackendAnswers, BackendCloses, toBackend
  <2> QED
    BY <2>5 DEF Ended
<1>4. CASE Handler /\ step \notin {"relay", "closed"}
  <2>1. Plain(req) /\ served = <<>>
    BY <1>4 DEF InOrder
  <2>2. served' = served
    BY <1>4, LoginTurns DEF Handler, MyGreet, PgRefusesTLS, LoginAccepted, LoginRefused, LoginCut,
       LoginReads, DialSucceeds, DialFails, redisAuthenticate, RedisAsks, RedisGranted, RedisReady,
       Turn, LoggedIn, Receives, Takes, AuthCut, splice, CopyUp, CopyDown, EndUp, EndDown,
       UpFails, CopyEnds, backend
  <2>3. req' = req \/ \E ms \in Seq(Messages) : Plain(ms) /\ req' = req \o ms
    <3>1. CASE MyGreet \/ PgRefusesTLS \/ LoginAccepted \/ LoginRefused \/ LoginCut \/ DialFails
      BY <3>1 DEF MyGreet, PgRefusesTLS, LoginAccepted, LoginRefused, LoginCut, LoginReads,
         DialFails, toBackend
    <3>2. CASE DialSucceeds
      <4>1. req' = req \o <<Msg("startup")>> \/ req' = req \o <<>>
        BY <3>2 DEF DialSucceeds, ToBackend
      <4>2. Msg("startup") \in Messages /\ Msg("startup")[1] # "query"
        BY MessageTypes DEF Msg
      <4>3. <<>> \in Seq(Messages) /\ Plain(<<>>)
        BY EmptySeq DEF Plain
      <4> QED
        BY <4>1, <4>2, <4>3, OnePlain
    <3>3. CASE redisAuthenticate
      <4>1. req' = req \/ (todo # <<>> /\ req' = req \o <<Msg(Head(todo))>>)
        BY <3>3 DEF redisAuthenticate, RedisAsks, RedisGranted, RedisReady, ToBackend, toBackend
      <4>2. todo # <<>> => Head(todo) \in {"AUTH", "SELECT"}
        BY DEF TypeOK
      <4>3. \A s \in {"AUTH", "SELECT"} : Msg(s) \in Messages /\ Msg(s)[1] # "query"
        BY MessageTypes DEF Msg
      <4> QED
        BY <4>1, <4>2, <4>3, OnePlain
    <3>4. CASE pgAuthenticate \/ myAuthenticate \/ AuthFails \/ AuthRefused
      BY <3>4, LoginTurns DEF Turn, LoggedIn
    <3>5. CASE AuthCut
      BY <3>5 DEF AuthCut, toBackend
    <3>6. ~splice
      BY <1>4 DEF splice, CopyUp, CopyDown, EndUp, EndDown, UpFails
    <3> QED
      BY <1>4, <3>1, <3>2, <3>3, <3>4, <3>5, <3>6 DEF Handler
  <2>4. Plain(req')
    <3>1. CASE req' = req
      BY <2>1, <3>1
    <3>2. ASSUME NEW ms \in Seq(Messages), Plain(ms), req' = req \o ms PROVE Plain(req')
      <4>1. req \in Seq(Messages)
        BY OrderTypes
      <4> QED
        BY <2>1, <3>2, <4>1, PlainParts
    <3> QED
      BY <2>3, <3>1, <3>2
  <2> QED
    BY <2>1, <2>2, <2>4 DEF Ended
<1>5. CASE Handler /\ step \in {"relay", "closed"}
  <2>1. step = "relay" /\ UNCHANGED <<cli, rep, srv, served>> /\ (EndUp \/ EndDown \/ UpFails)
    BY <1>5, LoginTurns DEF Handler, MyGreet, PgRefusesTLS, LoginAccepted, LoginRefused, LoginCut,
       LoginReads, DialSucceeds, DialFails, redisAuthenticate, RedisAsks, RedisGranted, RedisReady,
       Turn, LoggedIn, Receives, Takes, AuthCut, splice, CopyUp, CopyDown, EndUp, EndDown,
       UpFails, CopyEnds, toBackend, backend, handler
  <2>2. CASE EndUp
    BY <2>1, <2>2 DEF EndUp
  <2>3. CASE EndDown
    BY <2>1, <2>3 DEF EndDown, Ended
  <2>4. CASE UpFails
    <3>1. srv = "closed" /\ cbuf \o up # <<>>
      BY <2>4 DEF UpFails
    <3>2. Len(Waiting) \in Nat \ {0}
      <4>1. Len(cbuf \o up) \in Nat \ {0} /\ Len(req) \in Nat
        BY <3>1, OrderTypes, EmptySeq, LenProperties
      <4>2. Len(Waiting) = Len(req) + Len(cbuf \o up)
        BY OrderTypes, ConcatProperties DEF Waiting
      <4> QED
        BY <4>1, <4>2
    <3>3. served # <<>> => Len(served) < cli.sent
      BY <3>2, OrderTypes DEF InOrder
    <3> QED
      BY <2>1, <3>1, <3>3 DEF Ended
  <2> QED
    BY <2>1, <2>2, <2>3, <2>4
<1> QED
  BY <1>1, <1>2, <1>3, <1>4, <1>5 DEF Next

\* When the backend answers all that the client has sent and closes, the client, unless
\* it closed itself, is given every answer before splice ends the connection.
THEOREM AnsweredIsDeliveredAlways == Spec => []AnsweredIsDelivered
<1>1. Init => Ended
  BY DEF Init, Ended
<1>2. TypeOK /\ InOrder /\ Ended => AnsweredIsDelivered
  BY OrderTypes DEF Ended, AnsweredIsDelivered
<1> QED
  BY <1>1, <1>2, OrderAlways, EndedStep, PTL DEF Spec

-----------------------------------------------------------------------------
(* Nobody is relayed before the backend let the connection in.             *)

LEMMA NoWelcomeParts ==
  ASSUME NEW q \in Seq(Messages), NEW w \in Seq(Messages), NoWelcome(q), NoWelcome(w)
  PROVE  /\ NoWelcome(q \o w)
         /\ \A n \in 1 .. Len(q) : /\ NoWelcome(SubSeq(q, 2, n))
                                   /\ NoWelcome(SubSeq(q, n + 1, Len(q)))
<1>1. ASSUME NEW m, Lacks(q, m), Lacks(w, m) PROVE Lacks(q \o w, m)
  <2> DEFINE v == q \o w
  <2>1. /\ Len(q) \in Nat /\ Len(w) \in Nat /\ Len(v) = Len(q) + Len(w)
        /\ \A i \in 1 .. Len(v) : v[i] = IF i <= Len(q) THEN q[i] ELSE w[i - Len(q)]
    BY ConcatProperties, LenProperties
  <2> HIDE DEF v
  <2> QED
    BY <1>1, <2>1 DEF Lacks, v
<1>2. ASSUME NEW m, Lacks(q, m), NEW n \in 1 .. Len(q)
      PROVE  Lacks(SubSeq(q, 2, n), m) /\ Lacks(SubSeq(q, n + 1, Len(q)), m)
  <2>0. Len(q) \in Nat /\ \A i \in 1 .. Len(q) : q[i] \in Messages
    BY ElementOfSeq, LenProperties
  <2>1. (\A i \in 2 .. n : q[i] \in Messages) /\ \A i \in n + 1 .. Len(q) : q[i] \in Messages
    BY <2>0
  <2>2. /\ Len(SubSeq(q, 2, n)) = IF 2 <= n THEN n - 1 ELSE 0
        /\ \A i \in 1 .. n - 1 : SubSeq(q, 2, n)[i] = q[i + 1]
    BY <2>0, <2>1, SubSeqProperties
  <2>3. /\ Len(SubSeq(q, n + 1, Len(q))) = IF n + 1 <= Len(q) THEN Len(q) - n ELSE 0
        /\ \A i \in 1 .. Len(q) - n : SubSeq(q, n + 1, Len(q))[i] = q[n + i]
    BY <2>0, <2>1, SubSeqProperties
  <2> QED
    BY <1>2, <2>0, <2>2, <2>3 DEF Lacks
<1> QED
  BY <1>1, <1>2 DEF NoWelcome

\* The step a Redis server is at when the commands q of the login are to come.
Due(q) == IF q = <<>> THEN "ready" ELSE "login"

\* The login of a Redis connection, command by command.
RedisTurn ==
  type = "redis" /\ step \notin {"relay", "closed"} =>
    /\ step # "key" /\ sbuf = <<>>
    /\ step # "reply" => req = <<>> /\ rep = <<>>
    /\ step = "auth" => srv \in {Due(todo), "closed"}
    /\ step = "reply" =>
         \/ req = <<Msg(Head(todo))>> /\ rep = <<>> /\ srv \in {"login", "closed"}
         \/ req = <<>> /\ rep = <<Msg("+")>> /\ srv \in {Due(Tail(todo)), "closed"}
         \/ req = <<>> /\ rep = <<Msg("error")>> /\ srv = "closed"

\* A backend that has not let the connection in has not said so either.
Entry ==
  /\ LoggingIn \/ srv = "away" => NoWelcome(rep) /\ NoWelcome(sbuf)
  /\ step \in {"greet", "login", "dial"} => srv = "away"
  /\ RelayedAfterLogin
  /\ RedisTurn

LEMMA EntryFrame ==
  ASSUME Entry, UNCHANGED <<type, step, todo, sbuf, req, rep, srv>>
  PROVE  Entry'
BY DEF Entry, RelayedAfterLogin, RedisTurn, LoggingIn, Due

LEMMA RedisReplies ==
  ASSUME TypeOK, Entry, type = "redis", step \notin {"relay", "closed"},
         BackendReplies \/ BackendCloses
  PROVE  RedisTurn'
<1>1. UNCHANGED <<type, step, todo, sbuf>>
  BY RepliesAre DEF Saying, BackendSays, BackendGreets, BackendSwitches, Challenges,
     BackendAnswers, BackendCloses, connection, handler
<1>2. CASE BackendCloses
  BY <1>1, <1>2 DEF BackendCloses, toBackend, Entry, RedisTurn
<1>3. CASE BackendReplies
  <2>1. req # <<>> /\ srv # "away"
    BY <1>3, RepliesAre DEF Saying, BackendGreets, BackendAnswers, LoggingIn
  <2>2. step = "reply" /\ req = <<Msg(Head(todo))>> /\ rep = <<>> /\ srv = "login"
    <3>1. step = "reply"
      BY <2>1 DEF Entry, RedisTurn
    <3>2. req = <<Msg(Head(todo))>> /\ rep = <<>> /\ srv \in {"login", "closed"}
      BY <2>1, <3>1 DEF Entry, RedisTurn
    <3>3. srv # "closed"
      BY <1>3, RepliesAre DEF Saying, BackendGreets, BackendSwitches, BackendAnswers, LoggingIn
    <3> QED
      BY <3>1, <3>2, <3>3
  <2>3. PICK c \in {"AUTH", "SELECT"} : BackendRedis(c)
    BY <1>3, <2>2 DEF BackendReplies, BackendPostgres, BackendGreets, BackendMySQL, BackendAnswers
  <2>4. Head(req) = Msg(Head(todo)) /\ Head(req) = Msg(c) /\ Tail(req) = <<>>
    BY <2>2, <2>3 DEF BackendRedis, BackendExpects
  <2>5. c = Head(todo)
    BY <2>4 DEF Msg
  <2>6. todo = <<c>> <=> Tail(todo) = <<>>
    <3>1. todo \in Seq({"AUTH", "SELECT"}) /\ todo # <<>>
      BY <2>2 DEF TypeOK
    <3>2. Len(todo) \in Nat \ {0} /\ Len(Tail(todo)) = Len(todo) - 1 /\ Head(todo) = todo[1]
      BY <3>1, EmptySeq, LenProperties, HeadTailProperties
    <3>3. ASSUME Tail(todo) = <<>> PROVE todo = <<c>>
      <4>1. Len(todo) = 1
        BY <3>2, <3>3
      <4> QED
        BY <2>5, <3>1, <3>2, <4>1
    <3>4. ASSUME todo = <<c>> PROVE Tail(todo) = <<>>
      BY <3>4
    <3> QED
      BY <3>3, <3>4
  <2>7. sbuf = <<>>
    BY <2>2 DEF Entry, RedisTurn
  <2>8. \A m : <<>> \o <<m>> = <<m>>
    OBVIOUS
  <2>9. CASE BackendRefuses
    <3>1. req' = <<>> /\ rep' = <<Msg("error")>> /\ srv' = "closed"
      BY <2>2, <2>4, <2>8, <2>9 DEF BackendRefuses, BackendSays
    <3> QED
      BY <1>1, <2>2, <2>7, <3>1 DEF RedisTurn
  <2>10. CASE BackendAsks("+", IF todo = <<c>> THEN "ready" ELSE "login")
    <3>1. req' = <<>> /\ rep' = <<Msg("+")>> /\ srv' = Due(Tail(todo))
      BY <2>2, <2>4, <2>6, <2>8, <2>10 DEF BackendAsks, BackendSays, Due
    <3> QED
      BY <1>1, <2>2, <2>7, <3>1 DEF RedisTurn
  <2> QED
    BY <2>3, <2>9, <2>10 DEF BackendRedis
<1> QED
  BY <1>2, <1>3

LEMMA EntryBackend == TypeOK /\ Entry /\ (BackendReplies \/ BackendCloses) => Entry'
<1> SUFFICES ASSUME TypeOK, Entry, BackendReplies \/ BackendCloses PROVE Entry'
  OBVIOUS
<1>1. UNCHANGED <<type, step, todo, sbuf>> /\ srv # "away" /\ srv' # "away"
  BY RepliesAre DEF Saying, BackendSays, BackendGreets, BackendSwitches, Challenges,
     BackendAnswers, BackendCloses, connection, handler, LoggingIn
<1>2. srv \in {"ready", "closed"} => srv' \in {"ready", "closed"}
  BY RepliesAre DEF Saying, LoggingIn, BackendGreets, BackendSwitches, BackendAnswers, BackendCloses
<1>3. ASSUME LoggingIn' PROVE NoWelcome(rep')
  <2>1. LoggingIn /\ NoWelcome(rep)
    BY <1>1, <1>2, <1>3 DEF Entry, LoggingIn
  <2>2. CASE Saying
    <3>1. PICK ms \in Seq(Messages), s \in BackendSteps \ {"away"} :
            BackendSays(ms, s) /\ (s \in {"ready", "closed"} \/ NoWelcome(ms))
      BY <2>2 DEF Saying
    <3> QED
      BY <1>3, <2>1, <3>1, OrderTypes, NoWelcomeParts DEF BackendSays, LoggingIn, TypeOK
  <2>3. ASSUME NEW name \in {"greeting", "switch"}, Challenges(name) PROVE NoWelcome(rep')
    <3>1. challenge' \in Nat /\ rep' = Append(rep, <<name, challenge'>>)
      BY <2>3 DEF Challenges, TypeOK
    <3>2. <<name, challenge'>> \in Messages /\ <<name, challenge'>> \notin {Msg("ok"), Msg("authOK")}
      BY <3>1, MessageTypes DEF Msg
    <3> QED
      BY <2>1, <3>1, <3>2, LacksFacts DEF NoWelcome, TypeOK
  <2>4. ~BackendAnswers /\ ~BackendCloses
    BY <1>3, <2>1 DEF BackendAnswers, BackendCloses, LoggingIn
  <2> QED
    BY <2>2, <2>3, <2>4, RepliesAre DEF BackendGreets, BackendSwitches
<1>4. NoWelcome(sbuf') \/ ~LoggingIn'
  BY <1>1, <1>2 DEF Entry, LoggingIn
<1>5. RedisTurn'
  BY <1>1, RedisReplies DEF RedisTurn
<1>6. RelayedAfterLogin'
  BY <1>1, <1>2 DEF Entry, RelayedAfterLogin
<1> QED
  BY <1>1, <1>3, <1>4, <1>5, <1>6 DEF Entry

LEMMA TakesEntry ==
  ASSUME TypeOK, Entry, NEW s, NEW m, NEW n \in 1 .. Len(Pending), Takes(s, m, n)
  PROVE  LoggingIn \/ srv = "away" =>
           /\ NoWelcome(rep') /\ NoWelcome(SubSeq(Pending, 2, n))
           /\ m \notin {Msg("authOK"), Msg("ok")}
<1> SUFFICES ASSUME LoggingIn \/ srv = "away"
             PROVE  /\ NoWelcome(rep') /\ NoWelcome(SubSeq(Pending, 2, n))
                    /\ m \notin {Msg("authOK"), Msg("ok")}
  OBVIOUS
<1>1. Pending \in Seq(Messages) /\ NoWelcome(sbuf) /\ NoWelcome(rep)
  BY TakesTypes DEF Entry
<1>2. NoWelcome(Pending)
  BY <1>1, NoWelcomeParts DEF Pending, TypeOK
<1>3. Pending # <<>> /\ Head(Pending) = m /\ rep' = SubSeq(Pending, n + 1, Len(Pending))
  BY EmptySeq DEF Takes
<1> HIDE DEF Pending
<1>4. m # Msg("authOK") /\ m # Msg("ok")
  <2>1. m \in Messages
    BY <1>1, <1>3, HeadTailProperties
  <2> QED
    BY <1>1, <1>2, <1>3, <2>1, LacksFacts DEF NoWelcome
<1> QED
  BY <1>1, <1>2, <1>3, <1>4, NoWelcomeParts

\* A Redis handler takes the reply to its command, which is all there is.
LEMMA RedisTakes ==
  ASSUME TypeOK, Entry, type = "redis", NEW s \in {"auth", "key", "reply"}, NEW m,
         NEW n \in 1 .. Len(Pending), Takes(s, m, n)
  PROVE  /\ step = "reply" /\ rep = <<m>> /\ req = <<>> /\ rep' = <<>>
         /\ SubSeq(Pending, 2, n) = <<>>
<1>1. /\ step = s /\ sbuf = <<>> /\ Pending = rep /\ Head(Pending) = m
      /\ rep' = SubSeq(Pending, n + 1, Len(Pending))
  <2>1. step = s /\ sbuf = <<>>
    BY DEF Takes, Entry, RedisTurn
  <2>2. Pending = rep
    BY <2>1, OrderTypes, ConcatEmptySeq DEF Pending, TypeOK
  <2> QED
    BY <2>1, <2>2 DEF Takes
<1>2. rep # <<>>
  BY <1>1
<1>3. step = "reply" /\ req = <<>> /\ (rep = <<Msg("+")>> \/ rep = <<Msg("error")>>)
  BY <1>1, <1>2 DEF Entry, RedisTurn
<1>4. \A x : SubSeq(<<x>>, 2, 1) = <<>>
  OBVIOUS
<1>5. n = 1 /\ Len(rep) = 1 /\ rep = <<m>>
  <2>1. PICK x : rep = <<x>>
    BY <1>3
  <2>2. Len(rep) = 1 /\ Head(rep) = x
    BY <2>1
  <2>3. n \in 1 .. 1 /\ x = m
    BY <1>1, <2>2
  <2> QED
    BY <2>1, <2>2, <2>3
<1> QED
  BY <1>1, <1>3, <1>4, <1>5

LEMMA EntryHandler == TypeOK /\ Entry /\ Handler => Entry'
<1> SUFFICES ASSUME TypeOK, Entry, Handler PROVE Entry'
  OBVIOUS
<1>1. ASSUME UNCHANGED <<type, todo, sbuf, req, rep, srv>>, step' \in {"login", "dial", "closed"},
             step' = "closed" \/ step \in {"greet", "login", "dial"}
      PROVE  Entry'
  BY <1>1 DEF Entry, RelayedAfterLogin, RedisTurn, LoggingIn
<1>2. CASE MyGreet \/ PgRefusesTLS \/ LoginAccepted \/ LoginRefused \/ LoginCut
  BY <1>1, <1>2 DEF MyGreet, PgRefusesTLS, LoginAccepted, LoginRefused, LoginCut, LoginReads,
     connection, toBackend, backend
<1>3. CASE DialFails \/ AuthCut \/ EndUp \/ EndDown \/ UpFails
  BY <1>1, <1>3 DEF DialFails, AuthCut, EndUp, EndDown, UpFails, CopyEnds, connection,
     toBackend, backend
<1>4. CASE DialSucceeds
  <2>1. UNCHANGED <<type, todo, sbuf, rep>> /\ step' = "auth" /\ srv' \in {"ready", "login"}
    BY <1>4 DEF DialSucceeds, ToBackend, connection
  <2>2. NoWelcome(rep') /\ NoWelcome(sbuf')
    BY <1>4, <2>1 DEF Entry, DialSucceeds
  <2>3. type = "redis" => req' = <<>> /\ srv' = Due(todo)
    <3>1. ASSUME type = "redis" PROVE req = <<>> /\ req' = req \o <<>>
      BY <1>4, <3>1 DEF DialSucceeds, ToBackend, Entry, RedisTurn
    <3> QED
      BY <1>4, <3>1 DEF DialSucceeds, Due
  <2>4. RedisTurn'
    BY <1>4, <2>1, <2>3 DEF DialSucceeds, Entry, RedisTurn
  <2> QED
    BY <2>1, <2>2, <2>4 DEF Entry, RelayedAfterLogin
<1>5. CASE RedisAsks
  <2>1. /\ type = "redis" /\ step = "auth" /\ todo # <<>> /\ step' = "reply"
        /\ req' = req \o <<Msg(Head(todo))>> /\ UNCHANGED <<type, todo, sbuf, rep, srv>>
    BY <1>5 DEF RedisAsks, ToBackend, connection, backend
  <2>2. req = <<>> /\ rep = <<>> /\ sbuf = <<>> /\ srv \in {"login", "closed"}
    BY <2>1 DEF Entry, RedisTurn, Due
  <2>3. req' = <<Msg(Head(todo))>>
    BY <2>1, <2>2
  <2>4. RedisTurn'
    BY <2>1, <2>2, <2>3 DEF RedisTurn
  <2> QED
    BY <2>1, <2>4 DEF Entry, RelayedAfterLogin, LoggingIn
<1>6. CASE RedisGranted
  <2>1. PICK n \in 1 .. Len(Pending) :
          Takes("reply", Msg("+"), n) /\ sbuf' = SubSeq(Pending, 2, n)
    BY <1>6 DEF RedisGranted, Receives
  <2>2. UNCHANGED <<type, req, srv>> /\ step = "reply" /\ step' = "auth" /\ todo' = Tail(todo)
    BY <1>6, <2>1 DEF RedisGranted, Takes, connection, backend
  <2>3. LoggingIn \/ srv = "away" => NoWelcome(rep') /\ NoWelcome(sbuf')
    BY <2>1, TakesEntry
  <2>4. CASE type = "redis"
    <3>1. rep = <<Msg("+")>> /\ req = <<>> /\ rep' = <<>> /\ sbuf' = <<>>
      BY <2>1, <2>4, RedisTakes
    <3>2. srv \in {Due(Tail(todo)), "closed"}
      <4>1. Msg("+") # Msg("error")
        BY DEF Msg
      <4> QED
        BY <2>2, <2>4, <3>1, <4>1 DEF Entry, RedisTurn
    <3>3. RedisTurn'
      BY <2>2, <3>1, <3>2 DEF RedisTurn
    <3> QED
      BY <2>2, <2>3, <3>3 DEF Entry, RelayedAfterLogin, LoggingIn
  <2> QED
    BY <2>2, <2>3, <2>4 DEF Entry, RelayedAfterLogin, RedisTurn, LoggingIn
<1>7. CASE RedisReady
  <2>1. /\ type = "redis" /\ step = "auth" /\ todo = <<>> /\ step' \in {"relay", "closed"}
        /\ sbuf' = <<>> /\ UNCHANGED <<type, rep, srv>>
    BY <1>7 DEF RedisReady, Spliced, connection, toBackend, backend
  <2>2. srv \in {"ready", "closed"}
    BY <2>1 DEF Entry, RedisTurn, Due
  <2> QED
    BY <2>1, <2>2 DEF Entry, RelayedAfterLogin, RedisTurn, LoggingIn
<1>8. ASSUME NEW m \in {"authOK", "ok"}, LoggedIn(m) PROVE Entry'
  <2>1. PICK n \in 1 .. Len(Pending) : Takes("auth", Msg(m), n)
    BY <1>8 DEF LoggedIn
  <2>2. srv \in {"ready", "closed"}
    BY <2>1, TakesEntry DEF LoggingIn
  <2>3. srv' = srv /\ step' \in {"relay", "closed"}
    BY <1>8, <2>1 DEF Takes, LoggedIn, Spliced, backend
  <2> QED
    BY <2>2, <2>3 DEF Entry, RelayedAfterLogin, RedisTurn, LoggingIn
<1>9. CASE Turn
  <2>1. PICK s \in {"auth", "key", "reply"} : \E m : Receives(s, m)
    BY <1>9 DEF Turn
  <2>2. PICK m : Receives(s, m)
    BY <2>1
  <2>3. PICK n \in 1 .. Len(Pending) : Takes(s, m, n) /\ sbuf' = SubSeq(Pending, 2, n)
    BY <2>2 DEF Receives
  <2>4. UNCHANGED <<type, srv>> /\ step' \in {"auth", "key", "closed"}
    BY <1>9, <2>3 DEF Turn, Takes, connection, backend
  <2>5. LoggingIn \/ srv = "away" => NoWelcome(rep') /\ NoWelcome(sbuf')
    BY <2>3, TakesEntry
  <2>6. type = "redis" => step' = "closed"
    BY <1>9, <2>3, RedisTakes DEF Turn
  <2> QED
    BY <2>4, <2>5, <2>6 DEF Entry, RelayedAfterLogin, RedisTurn, LoggingIn
<1>10. CASE CopyUp \/ CopyDown
  <2>1. step = "relay" /\ step' = "relay" /\ srv' = srv
    BY <1>10 DEF CopyUp, CopyDown, handler, backend
  <2> QED
    BY <2>1 DEF Entry, RelayedAfterLogin, RedisTurn, LoggingIn
<1> QED
  BY <1>2, <1>3, <1>4, <1>5, <1>6, <1>7, <1>8, <1>9, <1>10, LoginTurns
     DEF Handler, redisAuthenticate, splice

LEMMA EntryAlways == Spec => [](TypeOK /\ InOrder /\ Entry)
<1>1. Init => Entry
  BY DEF Init, Entry, NoWelcome, Lacks, RelayedAfterLogin, RedisTurn, LoggingIn
<1>2. TypeOK /\ Entry /\ [Next]_vars => Entry'
  <2> SUFFICES ASSUME TypeOK, Entry, [Next]_vars PROVE Entry'
    OBVIOUS
  <2>1. CASE Client
    BY <2>1, EntryFrame DEF Client, ClientAsksTLS, ClientLogin, ClientQuery, ClientReceive,
       ClientCloses, ClientSends, connection, handler, toBackend, backend
  <2>2. CASE UNCHANGED vars
    BY <2>2, EntryFrame DEF vars, connection, handler, toBackend, backend
  <2> QED
    BY <2>1, <2>2, EntryBackend, EntryHandler DEF Next
<1> QED
  BY <1>1, <1>2, OrderAlways, PTL DEF Spec

\* A client is relayed, and what it sent along with its login passed on, only when the
\* backend has let the connection in: pgAuthenticate and myAuthenticate wait for the
\* message that says so, redisAuthenticate for the reply to each of its commands.
THEOREM RelayedAfterLoginAlways == Spec => []RelayedAfterLogin
<1>1. Entry => RelayedAfterLogin
  BY DEF Entry
<1> QED
  BY <1>1, EntryAlways, PTL

-----------------------------------------------------------------------------
(* Redis and MySQL clients get session traffic only.                       *)

\* What the client got, and what it will get of the messages under way.
Told == cli.got \o down

\* After the handler's word that the client is logged in, nothing of a login.
Clean(q) ==
  \A i \in 1 .. Len(q) : \A k \in 1 .. i - 1 : q[k] = Msg("ready") => q[i] \notin OfTheLogin

SessionOnly(q) == \A i \in 1 .. Len(q) : q[i] \notin OfTheLogin

\* A MySQL server's OK is the last it says of the login, and nothing follows
\* until the relay.
OkIsLast(q) == Lacks(q, Msg("authOK")) /\ \A i \in 1 .. Len(q) : q[i] = Msg("ok") => i = Len(q)

Traffic ==
  /\ step \in {"greet", "login"} => Lacks(Told, Msg("ready"))
  /\ type # "postgres" => Clean(Told)
  /\ type # "postgres" /\ step = "relay" => SessionOnly(rep)
  /\ type = "mysql" /\ step \notin {"relay", "closed"} => sbuf = <<>> /\ OkIsLast(rep)

LEMMA CleanAppend ==
  ASSUME NEW q \in Seq(Messages), NEW m \in Messages, Clean(q),
         m \notin OfTheLogin \/ Lacks(q, Msg("ready"))
  PROVE  Clean(Append(q, m))
<1> DEFINE v == Append(q, m)
<1>1. /\ Len(v) = Len(q) + 1 /\ Len(q) \in Nat /\ v[Len(q) + 1] = m
      /\ \A i \in 1 .. Len(q) : v[i] = q[i]
  BY AppendProperties, LenProperties
<1> HIDE DEF v
<1>2. ASSUME NEW i \in 1 .. Len(v), NEW k \in 1 .. i - 1, v[k] = Msg("ready")
      PROVE  v[i] \notin OfTheLogin
  <2>1. k \in 1 .. Len(q) /\ q[k] = Msg("ready")
    BY <1>1, <1>2
  <2>2. CASE i \in 1 .. Len(q)
    BY <1>1, <2>1, <2>2 DEF Clean
  <2>3. CASE i = Len(q) + 1
    BY <1>1, <2>1, <2>3 DEF Lacks
  <2> QED
    BY <1>1, <2>2, <2>3
<1> QED
  BY <1>2 DEF Clean, v

LEMMA SessionOnlyParts ==
  ASSUME NEW q \in Seq(Messages), NEW m \in Messages, SessionOnly(q)
  PROVE  /\ m \notin OfTheLogin => SessionOnly(Append(q, m))
         /\ q # <<>> => Head(q) \notin OfTheLogin /\ SessionOnly(Tail(q))
<1>1. m \notin OfTheLogin => SessionOnly(Append(q, m))
  BY AppendProperties, LenProperties DEF SessionOnly
<1>2. ASSUME q # <<>> PROVE Head(q) \notin OfTheLogin /\ SessionOnly(Tail(q))
  BY <1>2, HeadTailProperties, LenProperties, EmptySeq DEF SessionOnly
<1> QED
  BY <1>1, <1>2

\* A message that is not OK may be said after others only while there was no OK.
LEMMA OkIsLastParts ==
  ASSUME NEW q \in Seq(Messages)
  PROVE  /\ \A m \in Messages : OkIsLast(q) /\ Lacks(q, Msg("ok")) /\ m # Msg("authOK") =>
              OkIsLast(Append(q, m))
         /\ OkIsLast(q) /\ q # <<>> => OkIsLast(Tail(q)) /\ Head(q) # Msg("authOK")
         /\ OkIsLast(q) /\ q # <<>> /\ Head(q) = Msg("ok") => Tail(q) = <<>>
<1>1. ASSUME NEW m \in Messages, OkIsLast(q), Lacks(q, Msg("ok")), m # Msg("authOK")
      PROVE  OkIsLast(Append(q, m))
  <2>1. Lacks(Append(q, m), Msg("authOK"))
    BY <1>1, LacksFacts DEF OkIsLast
  <2>2. \A i \in 1 .. Len(Append(q, m)) : Append(q, m)[i] = Msg("ok") => i = Len(Append(q, m))
    BY <1>1, AppendProperties, LenProperties DEF Lacks
  <2> QED
    BY <2>1, <2>2 DEF OkIsLast
<1>2. ASSUME OkIsLast(q), q # <<>>
      PROVE  /\ OkIsLast(Tail(q)) /\ Head(q) # Msg("authOK")
             /\ Head(q) = Msg("ok") => Tail(q) = <<>>
  <2> DEFINE t == Tail(q)
             ok == Msg("ok")
  <2>1. /\ Len(t) = Len(q) - 1 /\ Len(q) \in Nat \ {0} /\ Head(q) = q[1]
        /\ t \in Seq(Messages) /\ \A i \in 1 .. Len(t) : t[i] = q[i + 1]
    BY <1>2, HeadTailProperties, LenProperties, EmptySeq
  <2>2. /\ \A i \in 1 .. Len(q) : q[i] # Msg("authOK")
        /\ \A i \in 1 .. Len(q) : q[i] = ok => i = Len(q)
    BY <1>2 DEF OkIsLast, Lacks
  <2> HIDE DEF t, ok
  <2>3. \A i \in 1 .. Len(t) : i + 1 \in 1 .. Len(q)
    BY <2>1
  <2>4. Lacks(t, Msg("authOK")) /\ Head(q) # Msg("authOK")
    BY <2>1, <2>2, <2>3 DEF Lacks
  <2>5. \A i \in 1 .. Len(t) : t[i] = ok => i = Len(t)
    BY <2>1, <2>2, <2>3
  <2>6. Head(q) = ok => Len(q) = 1
    BY <2>1, <2>2
  <2>7. Head(q) = ok => t = <<>>
    BY <2>1, <2>6, EmptySeq
  <2> QED
    BY <2>4, <2>5, <2>7 DEF OkIsLast, t, ok
<1> QED
  BY <1>1, <1>2

LEMMA ToldTypes == TypeOK => Told \in Seq(Messages)
BY OrderTypes, ConcatProperties DEF Told

\* What the handler says to the client is told after the rest.
LEMMA ToldMore ==
  ASSUME TypeOK, NEW m \in Messages, down' = Append(down, m), cli' = cli
  PROVE  Told' = Append(Told, m)
BY OrderTypes, AppendOfConcat DEF Told

\* The client takes note of nothing it was not told.
LEMMA ClientTold == TypeOK /\ Client => Told' = Told
<1> SUFFICES ASSUME TypeOK, Client PROVE Told' = Told
  OBVIOUS
<1>0. cli \in [sent : 0 .. MaxQueries, got : Seq(Messages),
               ssl : BOOLEAN, login : BOOLEAN, open : BOOLEAN]
  BY DEF TypeOK
<1>1. CASE ClientReceive
  <2>1. cli'.got = Append(cli.got, Head(down)) /\ down' = Tail(down) /\ down # <<>>
    BY <1>0, <1>1 DEF ClientReceive
  <2> QED
    BY <2>1, OrderTypes, MoveHead DEF Told
<1>2. CASE Client /\ ~ClientReceive
  <2>1. cli'.got = cli.got /\ down' = down
    BY <1>0, <1>2 DEF Client, ClientAsksTLS, ClientLogin, ClientQuery, ClientCloses, ClientSends,
       toClient
  <2> QED
    BY <2>1 DEF Told
<1> QED
  BY <1>1, <1>2

\* What the MySQL server of a login says.
LEMMA MySQLSays ==
  ASSUME TypeOK, InOrder, Entry, type = "mysql", step \notin {"relay", "closed"},
         OkIsLast(rep), BackendReplies \/ BackendCloses
  PROVE  OkIsLast(rep')
<1>1. Plain(req)
  BY DEF InOrder
<1>2. ~BackendAnswers
  BY <1>1, OrderTypes, PlainParts DEF BackendAnswers
<1>3. CASE BackendCloses
  BY <1>3 DEF BackendCloses, toBackend
<1>4. CASE BackendReplies
  <2>1. BackendGreets \/ BackendMySQL
    BY <1>2, <1>4 DEF BackendReplies, BackendRedis, BackendPostgres
  <2>2. srv \in {"login", "full"}
    BY <2>1 DEF BackendGreets, BackendMySQL, BackendExpects
  <2>3. rep \in Seq(Messages) /\ Lacks(rep, Msg("ok"))
    BY <2>2 DEF Entry, NoWelcome, LoggingIn, TypeOK
  <2>4. ASSUME NEW m \in {"ok", "full", "key", "error"}, NEW s, BackendSays(<<Msg(m)>>, s)
        PROVE  OkIsLast(rep')
    <3>1. Msg(m) \in Messages /\ Msg(m) # Msg("authOK")
      BY MessageTypes DEF Msg
    <3>2. rep' = Append(rep, Msg(m))
      BY <2>3, <2>4, <3>1, AppendIsConcat DEF BackendSays
    <3> QED
      BY <2>3, <3>1, <3>2, OkIsLastParts
  <2>5. ASSUME NEW s, BackendSays(<<Msg("fastOK"), Msg("ok")>>, s) PROVE OkIsLast(rep')
    <3> DEFINE f == Msg("fastOK")
               o == Msg("ok")
    <3>1. f \in Messages /\ o \in Messages /\ f # Msg("authOK") /\ o # Msg("authOK") /\ f # o
      BY MessageTypes DEF Msg
    <3>2. rep' = rep \o <<f, o>>
      BY <2>5 DEF BackendSays
    <3>3. <<f, o>> = Append(<<f>>, o) /\ <<f>> \in Seq(Messages)
      BY <3>1
    <3> HIDE DEF f, o
    <3>4. rep' = Append(rep \o <<f>>, o) /\ rep \o <<f>> = Append(rep, f)
      BY <2>3, <3>1, <3>2, <3>3, AppendOfConcat, AppendIsConcat
    <3>5. Append(rep, f) \in Seq(Messages) /\ OkIsLast(Append(rep, f)) /\ Lacks(Append(rep, f), o)
      <4>1. OkIsLast(Append(rep, f))
        BY <2>3, <3>1, OkIsLastParts
      <4>2. Lacks(rep, o)
        BY <2>3 DEF o
      <4> QED
        BY <2>3, <3>1, <4>1, <4>2, LacksFacts, AppendProperties
    <3>6. Lacks(Append(rep, f), Msg("ok"))
      BY <3>5 DEF o
    <3> QED
      BY <3>1, <3>4, <3>5, <3>6, OkIsLastParts
  <2>6. ASSUME NEW name \in {"greeting", "switch"}, Challenges(name) PROVE OkIsLast(rep')
    <3>1. challenge' \in Nat /\ rep' = Append(rep, <<name, challenge'>>)
      BY <2>6 DEF Challenges, TypeOK
    <3>2. <<name, challenge'>> \in Messages /\ <<name, challenge'>> # Msg("authOK")
      BY <3>1, MessageTypes DEF Msg
    <3> QED
      BY <2>3, <3>1, <3>2, OkIsLastParts
  <2> QED
    BY <2>1, <2>4, <2>5, <2>6 DEF BackendGreets, BackendMySQL, BackendAccepts, BackendAsks,
       BackendRefuses, BackendSwitches
<1> QED
  BY <1>3, <1>4

LEMMA TrafficBackend == TypeOK /\ InOrder /\ Entry /\ Traffic /\ (BackendReplies \/ BackendCloses) => Traffic'
<1> SUFFICES ASSUME TypeOK, InOrder, Entry, Traffic, BackendReplies \/ BackendCloses PROVE Traffic'
  OBVIOUS
<1>1. UNCHANGED <<type, step, sbuf, cli, down>>
  BY RepliesAre DEF Saying, BackendSays, BackendGreets, BackendSwitches, Challenges,
     BackendAnswers, BackendCloses, connection, handler, toClient
<1>2. Told' = Told
  BY <1>1 DEF Told
<1>3. ASSUME type # "postgres", step = "relay" PROVE SessionOnly(rep')
  <2>1. SessionOnly(rep) /\ rep \in Seq(Messages) /\ ~LoggingIn /\ srv \in {"ready", "closed"}
    BY <1>3 DEF Traffic, TypeOK, Entry, RelayedAfterLogin, LoggingIn
  <2>2. BackendAnswers \/ rep' = rep
    BY <2>1, RepliesAre DEF Saying, BackendGreets, BackendCloses, toBackend
  <2>3. CASE BackendAnswers
    <3>1. /\ rep' = Append(rep, <<"answer", Head(req)[2]>>) /\ req # <<>>
      BY <2>3 DEF BackendAnswers
    <3>2. Head(req) \in Messages
      BY <3>1, OrderTypes, HeadTailProperties
    <3>3. Head(req)[2] \in Nat
      BY <3>2 DEF Messages
    <3>4. <<"answer", Head(req)[2]>> \in Messages /\ <<"answer", Head(req)[2]>> \notin OfTheLogin
      BY <3>3, MessageTypes DEF OfTheLogin
    <3> QED
      BY <2>1, <3>1, <3>4, SessionOnlyParts
  <2> QED
    BY <2>1, <2>2, <2>3
<1>4. type = "mysql" /\ step \notin {"relay", "closed"} => OkIsLast(rep')
  BY MySQLSays DEF Traffic
<1> QED
  BY <1>1, <1>2, <1>3, <1>4 DEF Traffic

\* The code that logs in to MySQL takes one message at a time.
LEMMA MySQLTakes ==
  ASSUME TypeOK, Traffic, type = "mysql", NEW s \in {"auth", "key", "reply"}, NEW m,
         NEW n \in 1 .. Len(Pending), Takes(s, m, n)
  PROVE  /\ SubSeq(Pending, 2, n) = <<>> /\ OkIsLast(rep') /\ m # Msg("authOK")
         /\ m = Msg("ok") => rep' = <<>>
<1>1. step = s /\ sbuf = <<>> /\ OkIsLast(rep)
  BY DEF Takes, Traffic
<1>2. Pending = rep /\ rep \in Seq(Messages)
  BY <1>1, ConcatEmptySeq DEF Pending, TypeOK
<1>3. n = 1 /\ Head(rep) = m /\ rep' = SubSeq(rep, 2, Len(rep))
  BY <1>1, <1>2 DEF Takes
<1>4. rep # <<>> /\ Len(rep) \in Nat \ {0}
  BY <1>2, EmptySeq, LenProperties
<1>5. rep' = Tail(rep)
  BY <1>2, <1>3, <1>4, TailIsSubSeq
<1>6. SubSeq(Pending, 2, n) = <<>>
  <2>1. SubSeq(rep, 2, 1) = <<>>
    BY <1>2
  <2> QED
    BY <1>2, <1>3, <2>1
<1>7. /\ OkIsLast(Tail(rep)) /\ Head(rep) # Msg("authOK")
      /\ Head(rep) = Msg("ok") => Tail(rep) = <<>>
  BY <1>1, <1>2, <1>4, OkIsLastParts
<1> QED
  BY <1>3, <1>5, <1>6, <1>7

LEMMA TrafficHandler == TypeOK /\ Entry /\ Traffic /\ Handler => Traffic'
<1> SUFFICES ASSUME TypeOK, Entry, Traffic, Handler PROVE Traffic'
  OBVIOUS
<1>0. Told \in Seq(Messages) /\ rep \in Seq(Messages) /\ down \in Seq(Messages)
  BY ToldTypes, OrderTypes DEF TypeOK
<1>1. ASSUME UNCHANGED <<type, sbuf, rep, cli>>,
             step' \notin {"greet", "login", "relay"}, step \in {"relay", "closed"} => step' = "closed",
             \/ down' = down
             \/ \E m \in Messages : /\ down' = Append(down, m)
                                    /\ m \notin OfTheLogin \/ step \in {"greet", "login"}
      PROVE  Traffic'
  <2>1. type # "postgres" => Clean(Told')
    <3>1. CASE down' = down
      BY <1>1, <3>1 DEF Traffic, Told
    <3>2. ASSUME NEW m \in Messages, down' = Append(down, m),
                 m \notin OfTheLogin \/ step \in {"greet", "login"}
          PROVE  type # "postgres" => Clean(Told')
      <4>1. Told' = Append(Told, m)
        BY <1>1, <3>2, ToldMore
      <4>2. m \notin OfTheLogin \/ Lacks(Told, Msg("ready"))
        BY <3>2 DEF Traffic
      <4> QED
        BY <1>0, <4>1, <4>2, CleanAppend DEF Traffic
    <3> QED
      BY <1>1, <3>1, <3>2
  <2> QED
    BY <1>1, <2>1 DEF Traffic
<1>2. ASSUME NEW m \in {"greeting", "N"}, UNCHANGED <<type, sbuf, rep, cli>>,
             down' = Append(down, Msg(m)), step \in {"greet", "login"}, step' = "login"
      PROVE  Traffic'
  <2>1. Msg(m) \in Messages /\ Msg(m) \notin OfTheLogin /\ Msg(m) # Msg("ready")
    BY MessageTypes DEF Msg, OfTheLogin
  <2>2. Told' = Append(Told, Msg(m))
    BY <1>2, <2>1, ToldMore
  <2>3. Lacks(Told, Msg("ready"))
    BY <1>2 DEF Traffic
  <2>4. Lacks(Told', Msg("ready"))
    BY <1>0, <2>1, <2>2, <2>3, LacksFacts
  <2>5. type # "postgres" => Clean(Told')
    BY <1>0, <2>1, <2>2, CleanAppend DEF Traffic
  <2> QED
    BY <1>2, <2>4, <2>5 DEF Traffic
<1>3. CASE MyGreet
  BY <1>2, <1>3 DEF MyGreet, connection, toBackend
<1>4. CASE PgRefusesTLS
  BY <1>2, <1>4 DEF PgRefusesTLS, LoginReads, connection, toBackend
<1>5. CASE LoginAccepted \/ LoginRefused
  <2>1. /\ Msg("ready") \in Messages /\ Msg("error") \in Messages
        /\ step \in {"greet", "login"} /\ step' \in {"dial", "closed"}
        /\ UNCHANGED <<type, sbuf, rep, cli>>
    BY <1>5, MessageTypes DEF LoginAccepted, LoginRefused, LoginReads, connection, toBackend
  <2>2. down' = down \/ \E m \in Messages : down' = Append(down, m)
    BY <1>5, <2>1 DEF LoginAccepted, LoginRefused
  <2> QED
    BY <1>1, <2>1, <2>2
<1>6. CASE LoginCut \/ DialFails \/ AuthCut \/ EndUp \/ EndDown \/ UpFails
  BY <1>1, <1>6 DEF LoginCut, DialFails, AuthCut, EndUp, EndDown, UpFails, CopyEnds, connection,
     toClient, toBackend
<1>7. CASE DialSucceeds
  BY <1>1, <1>7 DEF DialSucceeds, ToBackend, connection, toClient
<1>8. CASE RedisAsks
  BY <1>1, <1>8 DEF RedisAsks, ToBackend, connection, toClient
\* A turn of the login that does not end it.
<1>9. ASSUME NEW s \in {"auth", "key", "reply"}, NEW m, Receives(s, m),
             step' \in {"auth", "key", "reply", "closed"}
      PROVE  Traffic'
  <2>1. PICK n \in 1 .. Len(Pending) : Takes(s, m, n) /\ sbuf' = SubSeq(Pending, 2, n)
    BY <1>9 DEF Receives
  <2>2. UNCHANGED <<type, cli, down>>
    BY <2>1 DEF Takes, connection, toClient
  <2>3. type = "mysql" => sbuf' = <<>> /\ OkIsLast(rep')
    BY <2>1, MySQLTakes
  <2> QED
    BY <1>9, <2>2, <2>3 DEF Traffic, Told
<1>10. CASE RedisGranted
  BY <1>9, <1>10 DEF RedisGranted
<1>11. CASE Turn
  BY <1>9, <1>11 DEF Turn
<1>12. CASE RedisReady
  <2>1. rep = <<>> /\ type = "redis"
    BY <1>12 DEF RedisReady, Entry, RedisTurn
  <2>2. SessionOnly(rep)
    BY <2>1 DEF SessionOnly
  <2>3. UNCHANGED <<type, rep, cli, down>> /\ step' \in {"relay", "closed"}
    BY <1>12 DEF RedisReady, Spliced, connection, toClient, toBackend
  <2> QED
    BY <2>1, <2>2, <2>3 DEF Traffic, Told
<1>13. ASSUME NEW m \in {"authOK", "ok"}, LoggedIn(m) PROVE Traffic'
  <2>1. PICK n \in 1 .. Len(Pending) : Takes("auth", Msg(m), n)
    BY <1>13 DEF LoggedIn
  <2>2. UNCHANGED <<type, cli, down>> /\ step = "auth" /\ step' \in {"relay", "closed"}
    BY <1>13, <2>1 DEF LoggedIn, Takes, Spliced, connection, toClient
  <2>3. type # "redis"
    BY <2>1, <2>2, RedisTakes
  <2>4. type = "mysql" => rep' = <<>>
    <3>1. type = "mysql" => Msg(m) # Msg("authOK") /\ (Msg(m) = Msg("ok") => rep' = <<>>)
      BY <2>1, MySQLTakes
    <3>2. m = "authOK" \/ m = "ok"
      OBVIOUS
    <3> QED
      BY <3>1, <3>2
  <2>5. type \in {"redis", "postgres", "mysql"}
    BY TypesAssumption DEF TypeOK
  <2>6. type # "postgres" => SessionOnly(rep')
    BY <2>3, <2>4, <2>5 DEF SessionOnly
  <2> QED
    BY <2>2, <2>6 DEF Traffic, Told
<1>14. CASE CopyUp
  BY <1>14 DEF CopyUp, connection, Traffic, Told
<1>15. CASE CopyDown
  <2>1. /\ step = "relay" /\ step' = "relay" /\ rep # <<>> /\ rep' = Tail(rep)
        /\ down' = Append(down, Head(rep)) /\ UNCHANGED <<type, cli>>
    BY <1>15 DEF CopyDown, connection, handler
  <2>2. Head(rep) \in Messages
    BY <1>0, <2>1, HeadTailProperties
  <2>3. type # "postgres" => Head(rep) \notin OfTheLogin /\ SessionOnly(rep')
    BY <1>0, <2>1, <2>2, SessionOnlyParts DEF Traffic
  <2>4. Told' = Append(Told, Head(rep))
    BY <2>1, <2>2, ToldMore
  <2>5. type # "postgres" => Clean(Told')
    BY <1>0, <2>2, <2>3, <2>4, CleanAppend DEF Traffic
  <2> QED
    BY <2>1, <2>3, <2>5 DEF Traffic
<1> QED
  BY <1>3, <1>4, <1>5, <1>6, <1>7, <1>8, <1>10, <1>11, <1>12, <1>13, <1>14, <1>15, LoginTurns
     DEF Handler, redisAuthenticate, splice

\* Of the login that the handler makes itself nothing reaches a Redis or MySQL client: when
\* redisAuthenticate or myAuthenticate returns, the backend has said all it says of it.
THEOREM SessionTrafficAlways == Spec => []RedisMySQLSessionTraffic
<1>1. Init => Traffic
  <2> SUFFICES ASSUME Init PROVE Traffic
    OBVIOUS
  <2>1. Told = <<>>
    BY ConcatEmptySeq DEF Init, Told
  <2> QED
    BY <2>1 DEF Init, Traffic, Clean, SessionOnly, OkIsLast, Lacks
<1>2. TypeOK /\ InOrder /\ Entry /\ Traffic /\ [Next]_vars => Traffic'
  <2> SUFFICES ASSUME TypeOK, InOrder, Entry, Traffic, [Next]_vars PROVE Traffic'
    OBVIOUS
  <2>1. CASE Client
    <3>1. UNCHANGED <<type, step, sbuf, rep>>
      BY <2>1 DEF Client, ClientAsksTLS, ClientLogin, ClientQuery, ClientReceive,
         ClientCloses, ClientSends, connection, handler, toBackend
    <3> QED
      BY <2>1, <3>1, ClientTold DEF Traffic
  <2>2. CASE UNCHANGED vars
    BY <2>2 DEF vars, connection, handler, toClient, toBackend, Traffic, Told
  <2> QED
    BY <2>1, <2>2, TrafficBackend, TrafficHandler DEF Next
<1>3. TypeOK /\ Traffic => RedisMySQLSessionTraffic
  <2> SUFFICES ASSUME TypeOK, Traffic, type # "postgres" PROVE FromBackend \cap OfTheLogin = {}
    BY DEF RedisMySQLSessionTraffic, OnlySessionTraffic
  <2>1. DOMAIN Told = 1 .. Len(Told) /\ Told \in Seq(Messages)
    BY ToldTypes
  <2>2. FromBackend = {Told[i] : i \in {j \in DOMAIN Told : \E k \in 1 .. j - 1 : Told[k] = Msg("ready")}}
    BY DEF FromBackend, Told
  <2> QED
    BY <2>1, <2>2 DEF Traffic, Clean
<1> QED
  BY <1>1, <1>2, <1>3, EntryAlways, PTL DEF Spec

-----------------------------------------------------------------------------
(* Answers stay in order.                                                  *)

\* The last n messages of q are the answers 1 .. n, and it has no other.
Ends(q, n) ==
  /\ n <= Len(q)
  /\ \A i \in 1 .. Len(q) :
       IF i <= Len(q) - n THEN q[i][1] # "answer" ELSE q[i] = <<"answer", i - (Len(q) - n)>>

LEMMA EndsFacts ==
  ASSUME NEW q \in Seq(Messages)
  PROVE  /\ Ends(q, 0) <=> Mute(q)
         /\ \A n \in Nat : Ends(q, n) => Ends(Append(q, <<"answer", n + 1>>), n + 1)
<1>1. Ends(q, 0) <=> Mute(q)
  BY LenProperties DEF Ends, Mute
<1>2. ASSUME NEW n \in Nat, Ends(q, n) PROVE Ends(Append(q, <<"answer", n + 1>>), n + 1)
  <2> DEFINE m == <<"answer", n + 1>>
             v == Append(q, m)
  <2>1. m \in Messages
    <3>1. n + 1 \in Nat
      OBVIOUS
    <3> QED
      BY <3>1, MessageTypes
  <2> HIDE DEF m
  <2>2. /\ Len(v) = Len(q) + 1 /\ Len(q) \in Nat /\ v[Len(q) + 1] = m
        /\ \A i \in 1 .. Len(q) : v[i] = q[i]
    BY <2>1, AppendProperties, LenProperties
  <2> HIDE DEF v
  <2>3. Len(v) - (n + 1) = Len(q) - n /\ n + 1 <= Len(v) /\ (Len(q) + 1) - (Len(q) - n) = n + 1
    BY <1>2, <2>2 DEF Ends
  <2>4. ASSUME NEW i \in 1 .. Len(v)
        PROVE  IF i <= Len(q) - n THEN v[i][1] # "answer" ELSE v[i] = <<"answer", i - (Len(q) - n)>>
    <3>1. CASE i \in 1 .. Len(q)
      BY <1>2, <2>2, <3>1 DEF Ends
    <3>2. CASE i = Len(q) + 1
      BY <2>2, <2>3, <3>2 DEF m
    <3> QED
      BY <2>2, <3>1, <3>2
  <2> QED
    BY <2>3, <2>4 DEF Ends, v, m
<1> QED
  BY <1>1, <1>2

\* What the client got, and what it would get if the backend said no more.
Coming == Told \o rep

Answering ==
  /\ Ends(Coming, Len(served))
  /\ step \notin {"relay", "closed"} => Mute(sbuf)
  /\ LoggingIn \/ srv = "away" => served = <<>>

LEMMA ComingTypes == TypeOK => /\ Coming \in Seq(Messages) /\ Told \in Seq(Messages)
                               /\ rep \in Seq(Messages) /\ down \in Seq(Messages)
BY ToldTypes, OrderTypes, ConcatProperties DEF Coming, TypeOK

\* Without an answer so far none is on its way.
LEMMA NothingServed ==
  ASSUME TypeOK, Answering, served = <<>>
  PROVE  Mute(Told) /\ Mute(rep)
<1>1. Ends(Coming, 0)
  BY DEF Answering
<1> QED
  BY <1>1, ComingTypes, EndsFacts, MuteParts DEF Coming

LEMMA AnsweringBackend ==
  TypeOK /\ InOrder /\ Answering /\ (BackendReplies \/ BackendCloses) => Answering'
<1> SUFFICES ASSUME TypeOK, InOrder, Answering, BackendReplies \/ BackendCloses PROVE Answering'
  OBVIOUS
<1>1. UNCHANGED <<step, sbuf, cli, down>>
  BY RepliesAre DEF Saying, BackendSays, BackendGreets, BackendSwitches, Challenges,
     BackendAnswers, BackendCloses, connection, handler, toClient
<1>2. Told' = Told
  BY <1>1 DEF Told
<1>3. ASSUME served' = served, rep' = rep \/ (served = <<>> /\ Mute(rep')), rep' \in Seq(Messages),
             srv' \in {"ready", "closed"} \/ served = <<>>
      PROVE  Answering'
  <2>1. Ends(Coming', Len(served))
    <3>1. CASE rep' = rep
      BY <1>2, <3>1 DEF Answering, Coming
    <3>2. CASE served = <<>> /\ Mute(rep')
      <4>1. Mute(Coming') /\ Coming' \in Seq(Messages)
        BY <1>2, <1>3, <3>2, NothingServed, ComingTypes, MuteParts, ConcatProperties DEF Coming
      <4>2. Ends(Coming', 0)
        BY <4>1, EndsFacts
      <4> QED
        BY <3>2, <4>2
    <3> QED
      BY <1>3, <3>1, <3>2
  <2> QED
    BY <1>1, <1>3, <2>1 DEF Answering, LoggingIn
<1>4. CASE Saying
  <2>1. PICK ms \in Seq(Messages), s \in BackendSteps \ {"away"} :
          LoggingIn /\ BackendSays(ms, s) /\ Mute(ms)
    BY <1>4 DEF Saying
  <2>2. served = <<>> /\ served' = served /\ rep' = rep \o ms
    BY <2>1 DEF Answering, BackendSays
  <2>3. Mute(rep') /\ rep' \in Seq(Messages)
    BY <2>1, <2>2, NothingServed, ComingTypes, MuteParts, ConcatProperties
  <2> QED
    BY <1>3, <2>2, <2>3
<1>5. ASSUME NEW name \in {"greeting", "switch"}, Challenges(name), LoggingIn PROVE Answering'
  <2>1. /\ challenge' \in Nat /\ rep' = Append(rep, <<name, challenge'>>)
        /\ served = <<>> /\ served' = served
    BY <1>5 DEF Challenges, TypeOK, Answering
  <2>2. <<name, challenge'>> \in Messages /\ <<name, challenge'>>[1] # "answer"
    BY <2>1, MessageTypes
  <2>3. rep' = rep \o <<<<name, challenge'>>>> /\ <<<<name, challenge'>>>> \in Seq(Messages)
    <3>1. rep \in Seq(Messages)
      BY ComingTypes
    <3>2. \A m \in Messages : Append(rep, m) = rep \o <<m>> /\ <<m>> \in Seq(Messages)
      BY <3>1, AppendIsConcat
    <3> QED
      BY <2>1, <2>2, <3>2
  <2>4. Mute(<<<<name, challenge'>>>>)
    BY <2>2 DEF Mute
  <2>5. Mute(rep') /\ rep' \in Seq(Messages)
    BY <2>1, <2>3, <2>4, NothingServed, ComingTypes, MuteParts, ConcatProperties
  <2> QED
    BY <1>3, <2>1, <2>5
<1>6. CASE BackendGreets \/ (BackendSwitches /\ LoggingIn)
  BY <1>5, <1>6 DEF BackendGreets, BackendSwitches, LoggingIn
<1>7. CASE BackendAnswers
  <2>1. /\ req # <<>> /\ Head(req)[1] = "query" /\ served' = Append(served, Head(req)[2])
        /\ rep' = Append(rep, <<"answer", Head(req)[2]>>) /\ srv' = srv /\ srv = "ready"
    BY <1>7 DEF BackendAnswers
  <2>2. Head(req)[2] = Len(served) + 1 /\ Head(req)[2] \in 1 .. MaxQueries /\ Len(served) \in Nat
    BY <2>1, NextQuery, OrderTypes
  <2>3. Len(served') = Len(served) + 1
    <3>1. served \in Seq(1 .. MaxQueries)
      BY DEF TypeOK
    <3> QED
      BY <2>1, <2>2, <3>1, AppendProperties
  <2>4. <<"answer", Len(served) + 1>> \in Messages
    <3>1. Len(served) + 1 \in Nat
      BY <2>2
    <3> QED
      BY <3>1, MessageTypes
  <2>5. Coming' = Append(Coming, <<"answer", Len(served) + 1>>)
    <3>1. Told \in Seq(Messages) /\ rep \in Seq(Messages)
      BY ComingTypes
    <3>2. \A m \in Messages : Append(Told \o rep, m) = Told \o Append(rep, m)
      BY <3>1, AppendOfConcat
    <3>3. rep' = Append(rep, <<"answer", Len(served) + 1>>)
      BY <2>1, <2>2
    <3> QED
      BY <1>2, <2>4, <3>2, <3>3 DEF Coming
  <2>6. Ends(Coming', Len(served'))
    BY <2>2, <2>3, <2>5, ComingTypes, EndsFacts DEF Answering
  <2> QED
    BY <1>1, <2>1, <2>6 DEF Answering, LoggingIn
<1>8. CASE BackendCloses
  <2>1. served' = served /\ rep' = rep /\ srv' = "closed" /\ rep \in Seq(Messages)
    BY <1>8, ComingTypes DEF BackendCloses, toBackend
  <2> QED
    BY <1>3, <2>1
<1> QED
  BY <1>4, <1>6, <1>7, <1>8, RepliesAre

LEMMA AnsweringHandler == TypeOK /\ InOrder /\ Answering /\ Handler => Answering'
<1> SUFFICES ASSUME TypeOK, InOrder, Answering, Handler PROVE Answering'
  OBVIOUS
\* Before the relay there is no answer anywhere.
<1>1. ASSUME step \notin {"relay", "closed"}, UNCHANGED <<cli, served>>,
             Mute(rep'), rep' \in Seq(Messages), step' \in {"relay", "closed"} \/ Mute(sbuf'),
             down' = down \/ \E m \in Messages : m[1] # "answer" /\ down' = Append(down, m)
      PROVE  Answering'
  <2>1. served = <<>> /\ Mute(Told)
    BY <1>1, NothingServed DEF InOrder
  <2>2. Mute(Told') /\ Told' \in Seq(Messages)
    <3>1. CASE down' = down
      BY <1>1, <2>1, <3>1, ComingTypes DEF Told
    <3>2. ASSUME NEW m \in Messages, m[1] # "answer", down' = Append(down, m)
          PROVE  Mute(Told') /\ Told' \in Seq(Messages)
      <4>1. Told' = Told \o <<m>> /\ <<m>> \in Seq(Messages)
        <5>1. <<m>> \in Seq(Messages)
          OBVIOUS
        <5>2. Told' = Append(Told, m)
          BY <1>1, <3>2, ToldMore
        <5> QED
          BY <5>1, <5>2, ComingTypes, AppendIsConcat
      <4>2. Mute(<<m>>)
        BY <3>2 DEF Mute
      <4> QED
        BY <2>1, <4>1, <4>2, ComingTypes, MuteParts, ConcatProperties
    <3> QED
      BY <1>1, <3>1, <3>2
  <2>3. Mute(Coming') /\ Coming' \in Seq(Messages)
    BY <1>1, <2>2, MuteParts, ConcatProperties DEF Coming
  <2>4. Ends(Coming', 0)
    BY <2>3, EndsFacts
  <2> QED
    BY <1>1, <2>1, <2>4 DEF Answering, LoggingIn
<1>2. ASSUME step \notin {"relay", "closed"}, UNCHANGED <<cli, served, rep>>,
             step' \in {"relay", "closed"} \/ sbuf' = sbuf,
             down' = down \/ \E m \in {"greeting", "N", "ready", "error"} : down' = Append(down, Msg(m))
      PROVE  Answering'
  <2>1. Mute(rep') /\ rep' \in Seq(Messages)
    <3>1. served = <<>>
      BY <1>2 DEF InOrder
    <3> QED
      BY <1>2, <3>1, NothingServed, ComingTypes
  <2>2. step' \in {"relay", "closed"} \/ Mute(sbuf')
    BY <1>2 DEF Answering
  <2>3. \A m \in {"greeting", "N", "ready", "error"} : Msg(m) \in Messages /\ Msg(m)[1] # "answer"
    BY MessageTypes DEF Msg
  <2>4. down' = down \/ \E m \in Messages : m[1] # "answer" /\ down' = Append(down, m)
    BY <1>2, <2>3
  <2> QED
    BY <1>1, <1>2, <2>1, <2>2, <2>4
<1>3. CASE MyGreet \/ PgRefusesTLS \/ LoginAccepted \/ LoginRefused \/ LoginCut
  <2>1. /\ step \notin {"relay", "closed"} /\ UNCHANGED <<cli, served, rep, sbuf>>
    BY <1>3 DEF MyGreet, PgRefusesTLS, LoginAccepted, LoginRefused, LoginCut, LoginReads,
       toBackend, backend
  <2>2. down' = down \/ \E m \in {"greeting", "N", "ready", "error"} : down' = Append(down, Msg(m))
    BY <1>3 DEF MyGreet, PgRefusesTLS, LoginAccepted, LoginRefused, LoginCut, toClient
  <2> QED
    BY <1>2, <2>1, <2>2
<1>4. CASE DialFails \/ DialSucceeds \/ AuthCut \/ RedisAsks \/ RedisReady
  BY <1>2, <1>4 DEF DialFails, DialSucceeds, AuthCut, RedisAsks, RedisReady, Spliced, ToBackend,
     toClient, toBackend, backend
\* A message of the backend is taken.
<1>5. ASSUME NEW s \in {"auth", "key", "reply"}, NEW m, NEW n \in 1 .. Len(Pending), Takes(s, m, n),
             step' \in {"relay", "closed"} \/ sbuf' = SubSeq(Pending, 2, n)
      PROVE  Answering'
  <2>1. /\ step \notin {"relay", "closed"} /\ UNCHANGED <<cli, served, down>>
        /\ rep' = SubSeq(Pending, n + 1, Len(Pending))
    BY <1>5 DEF Takes, toClient, backend
  <2>2. Mute(rep) /\ Mute(sbuf)
    BY <2>1, NothingServed DEF InOrder, Answering
  <2>3. Mute(Pending) /\ Pending \in Seq(Messages) /\ rep' \in Seq(Messages)
    BY <1>5, <2>2, TakesTypes, MuteParts DEF Pending, TypeOK
  <2> HIDE DEF Pending
  <2>4. Mute(rep') /\ Mute(SubSeq(Pending, 2, n))
    BY <2>1, <2>3, MuteParts
  <2> QED
    BY <1>1, <1>5, <2>1, <2>3, <2>4
<1>6. CASE RedisGranted
  BY <1>5, <1>6 DEF RedisGranted, Receives
<1>7. CASE Turn
  BY <1>5, <1>7 DEF Turn, Receives
<1>8. ASSUME NEW m \in {"authOK", "ok"}, LoggedIn(m) PROVE Answering'
  <2>1. PICK n \in 1 .. Len(Pending) : Takes("auth", Msg(m), n)
    BY <1>8 DEF LoggedIn
  <2>2. step' \in {"relay", "closed"}
    BY <1>8 DEF LoggedIn, Spliced
  <2> QED
    BY <1>5, <2>1, <2>2
<1>9. CASE CopyUp \/ EndUp \/ EndDown \/ UpFails
  BY <1>9 DEF CopyUp, EndUp, EndDown, UpFails, CopyEnds, toClient, toBackend, backend,
     Answering, Coming, Told, LoggingIn
<1>10. CASE CopyDown
  <2>1. /\ step = "relay" /\ step' = "relay" /\ rep # <<>> /\ rep' = Tail(rep)
        /\ down' = Append(down, Head(rep)) /\ UNCHANGED <<cli, served, srv>>
    BY <1>10 DEF CopyDown, handler, backend
  <2>2. Head(rep) \in Messages
    BY <2>1, ComingTypes, HeadTailProperties
  <2>3. Coming' = Coming
    BY <2>1, <2>2, ToldMore, ComingTypes, MoveHead DEF Coming
  <2> QED
    BY <2>1, <2>3 DEF Answering, LoggingIn
<1> QED
  BY <1>3, <1>4, <1>6, <1>7, <1>8, <1>9, <1>10, LoginTurns DEF Handler, redisAuthenticate, splice

LEMMA AnsweringStep == TypeOK /\ InOrder /\ Answering /\ [Next]_vars => Answering'
<1> SUFFICES ASSUME TypeOK, InOrder, Answering, [Next]_vars PROVE Answering'
  OBVIOUS
<1>1. CASE Client
  <2>1. UNCHANGED <<step, sbuf, rep, srv, served>>
    BY <1>1 DEF Client, ClientAsksTLS, ClientLogin, ClientQuery, ClientReceive,
       ClientCloses, ClientSends, handler, toBackend, backend
  <2> QED
    BY <1>1, <2>1, ClientTold DEF Answering, Coming, LoggingIn
<1>2. CASE UNCHANGED vars
  BY <1>2 DEF vars, handler, toClient, toBackend, backend, Answering, Coming, Told, LoggingIn
<1> QED
  BY <1>1, <1>2, AnsweringBackend, AnsweringHandler DEF Next

LEMMA AnsweringInit == Init => Answering
<1> SUFFICES ASSUME Init PROVE Answering
  OBVIOUS
<1>1. Coming = <<>>
  BY ConcatEmptySeq DEF Init, Coming, Told
<1> QED
  BY <1>1 DEF Init, Answering, Ends, Mute

\* What a prefix w of such a queue holds of the answers.
LEMMA EndsPrefix ==
  ASSUME NEW w \in Seq(Messages), NEW v \in Seq(Messages), NEW n \in Nat, Ends(w \o v, n),
         NEW s, s = Len(w) + Len(v) - n
  PROVE  /\ s \in Nat
         /\ \A i \in 1 .. Len(w) : IF i <= s THEN w[i][1] # "answer" ELSE w[i] = <<"answer", i - s>>
<1> DEFINE q == w \o v
<1>1. /\ Len(q) = Len(w) + Len(v) /\ Len(w) \in Nat /\ Len(v) \in Nat
      /\ \A i \in 1 .. Len(w) : q[i] = w[i]
  BY ConcatProperties, LenProperties
<1>2. Ends(q, n)
  OBVIOUS
<1> HIDE DEF q
<1>3. s \in Nat /\ s = Len(q) - n
  BY <1>1, <1>2 DEF Ends
<1> QED
  BY <1>1, <1>2, <1>3 DEF Ends

\* However many queries a client sends before it reads, the answers come in their order,
\* each once, without a gap, after all that belongs to the login: splice has one copy to
\* the client, and the reader of a login leaves what follows it where it is.
THEOREM AnswersInOrderAlways == Spec => []AnswersInOrder
<1>1. TypeOK /\ Answering => AnswersInOrder
  <2> SUFFICES ASSUME TypeOK, Answering PROVE AnswersInOrder
    OBVIOUS
  <2> DEFINE s == Len(Told) + Len(rep) - Len(served)
  <2>1. /\ Told \in Seq(Messages) /\ rep \in Seq(Messages) /\ Len(served) \in Nat
        /\ Ends(Told \o rep, Len(served)) /\ Len(Told) \in Nat
    BY ComingTypes, OrderTypes, LenProperties DEF Answering, Coming
  <2>2. /\ s \in Nat
        /\ \A i \in 1 .. Len(Told) : IF i <= s THEN Told[i][1] # "answer" ELSE Told[i] = <<"answer", i - s>>
    BY <2>1, EndsPrefix
  <2> HIDE DEF s
  <2> DEFINE t == IF s <= Len(Told) THEN s ELSE Len(Told)
  <2>3. t \in 0 .. Len(Told)
    BY <2>1, <2>2
  <2>4. \A i \in 1 .. Len(Told) : IF i <= t THEN Told[i][1] # "answer" ELSE Told[i] = <<"answer", i - t>>
    BY <2>1, <2>2
  <2> HIDE DEF t
  <2> QED
    BY <2>3, <2>4 DEF AnswersInOrder, Told
<1> QED
  BY <1>1, AnsweringInit, AnsweringStep, OrderAlways, PTL DEF Spec

-----------------------------------------------------------------------------
(* The tunnel is the pipeline of RelayedSession.                           *)

\* What Pipeline maps to, counted from the answers that are still to come.
Phase == IF step \in {"relay", "closed"} THEN step ELSE "login"
Beyond(k) == IF k < Len(served) THEN Len(served) - k ELSE 0
Given == Beyond(Len(rep))
Received == Beyond(Len(down) + Len(rep))

LEMMA AnswersCounted ==
  ASSUME NEW w \in Seq(Messages), NEW v \in Seq(Messages), NEW n \in Nat, Ends(w \o v, n)
  PROVE  Cardinality(AnswersIn(w)) = IF Len(v) < n THEN n - Len(v) ELSE 0
<1> DEFINE s == Len(w) + Len(v) - n
<1>1. Len(w) \in Nat /\ Len(v) \in Nat
  BY LenProperties
<1>2. /\ s \in Nat
      /\ \A i \in 1 .. Len(w) : IF i <= s THEN w[i][1] # "answer" ELSE w[i] = <<"answer", i - s>>
  BY EndsPrefix
<1>3. s = Len(w) + Len(v) - n
  OBVIOUS
<1> HIDE DEF s
<1>4. ASSUME NEW i \in 1 .. Len(w) PROVE w[i][1] = "answer" <=> i > s
  BY <1>1, <1>2
<1>5. AnswersIn(w) = s + 1 .. Len(w)
  BY <1>1, <1>2, <1>4 DEF AnswersIn
<1>6. Cardinality(s + 1 .. Len(w)) = IF s + 1 > Len(w) THEN 0 ELSE Len(w) - (s + 1) + 1
  <2>1. s + 1 \in Int /\ Len(w) \in Int
    BY <1>1, <1>2
  <2> QED
    BY <2>1, FS_Interval
<1> QED
  BY <1>1, <1>2, <1>3, <1>5, <1>6

\* The same for the answers the client was told of and those it got.
LEMMA Counted ==
  TypeOK /\ Answering => /\ Cardinality(AnswersIn(Told)) = Given
                         /\ Cardinality(AnswersIn(cli.got)) = Received
<1> SUFFICES ASSUME TypeOK, Answering
             PROVE  /\ Cardinality(AnswersIn(Told)) = Given
                    /\ Cardinality(AnswersIn(cli.got)) = Received
  OBVIOUS
<1>1. /\ Told \in Seq(Messages) /\ rep \in Seq(Messages) /\ Len(served) \in Nat
      /\ down \in Seq(Messages) /\ cli.got \in Seq(Messages) /\ Ends(Told \o rep, Len(served))
  BY ComingTypes, OrderTypes DEF Answering, Coming
<1>2. Cardinality(AnswersIn(Told)) = Given
  BY <1>1, AnswersCounted DEF Given, Beyond
<1>3. /\ down \o rep \in Seq(Messages) /\ Len(down \o rep) = Len(down) + Len(rep)
      /\ Told \o rep = cli.got \o (down \o rep)
  <2>1. \A w, v, q \in Seq(Messages) : (w \o v) \o q = w \o (v \o q)
    BY ConcatAssociative
  <2>2. Told \o rep = cli.got \o (down \o rep)
    BY <1>1, <2>1 DEF Told
  <2> QED
    BY <1>1, <2>2, ConcatProperties
<1>4. Cardinality(AnswersIn(cli.got)) =
        IF Len(down \o rep) < Len(served) THEN Len(served) - Len(down \o rep) ELSE 0
  BY <1>1, <1>3, AnswersCounted
<1> QED
  BY <1>2, <1>3, <1>4 DEF Received, Beyond

\* Its variables, mapped.
Session == <<cli.open, Phase, cli.sent, Len(served), Given, Received>>

\* Each step of the specification, as one of the pipeline or as none.
Moves ==
  \/ Session' = Session
  \/ /\ cli.open /\ cli.sent < MaxQueries
     /\ Session' = <<cli.open, Phase, cli.sent + 1, Len(served), Given, Received>>
  \/ /\ cli.open
     /\ Session' = <<FALSE, Phase, cli.sent, Len(served), Given, Received>>
  \/ /\ Phase = "login"
     /\ Session' = <<cli.open, "relay", cli.sent, Len(served), Given, Received>>
  \/ /\ Phase = "relay" \/ (Phase = "closed" /\ ~cli.open)
     /\ Len(served) < cli.sent
     /\ Session' = <<cli.open, Phase, cli.sent, Len(served) + 1, Given, Received>>
  \/ /\ Phase = "relay" /\ Given < Len(served)
     /\ Session' = <<cli.open, Phase, cli.sent, Len(served), Given + 1, Received>>
  \/ /\ Received < Given
     /\ Session' = <<cli.open, Phase, cli.sent, Len(served), Given, Received + 1>>
  \/ /\ Phase # "closed" /\ (cli.open => Given = Len(served) \/ Len(served) < cli.sent)
     /\ Session' = <<cli.open, "closed", cli.sent, Len(served), Given, Received>>

LEMMA Lengths ==
  TypeOK => /\ Len(rep) \in Nat /\ Len(down) \in Nat /\ Len(served) \in Nat
            /\ rep \in Seq(Messages) /\ down \in Seq(Messages)
BY LenProperties DEF TypeOK

\* Nothing was served: nothing is counted.
LEMMA NoneCounted ==
  ASSUME TypeOK, served = <<>>
  PROVE  Len(served) = 0 /\ Given = 0 /\ Received = 0
<1>1. Len(served) = 0 /\ Len(rep) \in Nat /\ Len(down) \in Nat
  BY Lengths
<1> QED
  BY <1>1 DEF Given, Received, Beyond

LEMMA ClientMoves == TypeOK /\ Client => Moves
<1> SUFFICES ASSUME TypeOK, Client PROVE Moves
  OBVIOUS
<1>0. cli \in [sent : 0 .. MaxQueries, got : Seq(Messages),
               ssl : BOOLEAN, login : BOOLEAN, open : BOOLEAN]
  BY DEF TypeOK
<1>1. UNCHANGED <<step, rep, served>>
  BY DEF Client, ClientAsksTLS, ClientLogin, ClientQuery, ClientReceive,
     ClientCloses, ClientSends, handler, toBackend, backend
<1>2. Phase' = Phase /\ Given' = Given /\ Len(served') = Len(served)
  BY <1>1 DEF Phase, Given, Beyond
<1>3. ASSUME down' = down PROVE Received' = Received
  BY <1>1, <1>3 DEF Received, Beyond
<1>4. CASE ClientQuery
  <2>1. /\ cli.open /\ cli.sent < MaxQueries /\ down' = down
        /\ cli'.open = cli.open /\ cli'.sent = cli.sent + 1
    BY <1>0, <1>4 DEF ClientQuery, ClientSends
  <2> QED
    BY <1>2, <1>3, <2>1 DEF Moves, Session
<1>5. CASE ClientCloses
  <2>1. cli.open /\ down' = down /\ cli'.open = FALSE /\ cli'.sent = cli.sent
    BY <1>0, <1>5 DEF ClientCloses, toClient
  <2> QED
    BY <1>2, <1>3, <2>1 DEF Moves, Session
<1>6. CASE ClientReceive
  <2>1. /\ down # <<>> /\ down' = Tail(down)
        /\ cli'.open = cli.open /\ cli'.sent = cli.sent
    BY <1>0, <1>6 DEF ClientReceive
  <2>2. Len(down') = Len(down) - 1 /\ Len(down) >= 1
    BY <2>1, Lengths, HeadTailProperties, EmptySeq
  <2>3. IF Len(down) + Len(rep) <= Len(served)
        THEN Received < Given /\ Received' = Received + 1 ELSE Received' = Received
    BY <1>1, <2>2, Lengths DEF Given, Received, Beyond
  <2> QED
    BY <1>2, <2>1, <2>3 DEF Moves, Session
<1>7. CASE ClientAsksTLS \/ \E m \in {"token", "wrong"} : ClientLogin(m)
  <2>1. down' = down /\ cli'.open = cli.open /\ cli'.sent = cli.sent
    BY <1>0, <1>7 DEF ClientAsksTLS, ClientLogin, ClientSends
  <2> QED
    BY <1>2, <1>3, <2>1 DEF Moves, Session
<1> QED
  BY <1>4, <1>5, <1>6, <1>7 DEF Client

LEMMA BackendMoves ==
  TypeOK /\ InOrder /\ Ended /\ Answering /\ TypeOK' /\ (BackendReplies \/ BackendCloses) => Moves
<1> SUFFICES ASSUME TypeOK, InOrder, Ended, Answering, TypeOK', BackendReplies \/ BackendCloses
             PROVE  Moves
  OBVIOUS
<1>1. UNCHANGED <<step, cli, down>>
  BY RepliesAre DEF Saying, BackendSays, BackendGreets, BackendSwitches, Challenges,
     BackendAnswers, BackendCloses, connection, handler, toClient
<1>2. Phase' = Phase
  BY <1>1 DEF Phase
<1>3. CASE BackendAnswers
  <2>1. /\ req # <<>> /\ Head(req)[1] = "query" /\ srv = "ready"
        /\ served' = Append(served, Head(req)[2]) /\ rep' = Append(rep, <<"answer", Head(req)[2]>>)
    BY <1>3 DEF BackendAnswers
  <2>2. Head(req)[2] \in 1 .. MaxQueries /\ Len(served) < cli.sent
    <3>1. /\ Head(req)[2] = Len(served) + 1 /\ Head(req)[2] \in 1 .. MaxQueries
          /\ Head(req)[2] <= cli.sent
      BY <2>1, NextQuery
    <3>2. Len(served) \in Nat /\ cli.sent \in Nat
      BY OrderTypes
    <3> QED
      BY <3>1, <3>2
  <2>3. Len(served') = Len(served) + 1
    <3>1. served \in Seq(1 .. MaxQueries)
      BY DEF TypeOK
    <3> QED
      BY <2>1, <2>2, <3>1, AppendProperties
  <2>4. Len(rep') = Len(rep) + 1
    <3>1. Head(req)[2] \in Nat
      BY <2>2
    <3>2. <<"answer", Head(req)[2]>> \in Messages
      BY <3>1, MessageTypes
    <3> QED
      BY <2>1, <3>2, Lengths, AppendProperties
  <2>5. Given' = Given /\ Received' = Received
    BY <1>1, <2>3, <2>4, Lengths DEF Given, Received, Beyond
  <2>6. ~Plain(req)
    BY <2>1, OrderTypes, PlainParts
  <2>7. Phase = "relay" \/ (Phase = "closed" /\ ~cli.open)
    BY <2>1, <2>6 DEF InOrder, Ended, Phase
  <2> QED
    BY <1>1, <1>2, <2>2, <2>3, <2>5, <2>7 DEF Moves, Session
<1>4. CASE ~BackendAnswers
  <2>1. served' = served /\ (rep' = rep \/ served = <<>>)
    BY <1>4, RepliesAre DEF Saying, BackendSays, BackendGreets, BackendSwitches, Challenges,
       BackendCloses, toBackend, Answering, LoggingIn
  <2>2. Given' = Given /\ Received' = Received
    <3>1. CASE rep' = rep
      BY <1>1, <2>1, <3>1 DEF Given, Received, Beyond
    <3>2. CASE served = <<>>
      <4>1. Given = 0 /\ Received = 0 /\ Len(served) = 0
        BY <3>2, NoneCounted
      <4>2. Len(rep') \in Nat /\ Len(down') \in Nat
        BY LenProperties DEF TypeOK
      <4> QED
        BY <2>1, <4>1, <4>2 DEF Given, Received, Beyond
    <3> QED
      BY <2>1, <3>1, <3>2
  <2> QED
    BY <1>1, <1>2, <2>1, <2>2 DEF Moves, Session
<1> QED
  BY <1>3, <1>4

LEMMA HandlerMoves ==
  TypeOK /\ InOrder /\ TypeOK' /\ Ended' /\ Handler => Moves
<1> SUFFICES ASSUME TypeOK, InOrder, TypeOK', Ended', Handler PROVE Moves
  OBVIOUS
\* The login: nothing is counted yet.
<1>1. ASSUME step \notin {"relay", "closed"}, UNCHANGED <<cli, served>> PROVE Moves
  <2>1. served = <<>>
    BY <1>1 DEF InOrder
  <2>2. Len(served) = 0 /\ Given = 0 /\ Received = 0 /\ served' = served
    BY <1>1, <2>1, NoneCounted
  <2>3. Given' = 0 /\ Received' = 0
    <3>1. Len(rep') \in Nat /\ Len(down') \in Nat
      BY LenProperties DEF TypeOK
    <3> QED
      BY <2>2, <3>1 DEF Given, Received, Beyond
  <2>4. Phase = "login" /\ Phase' \in {"login", "relay", "closed"}
    BY <1>1 DEF Phase
  <2> QED
    BY <1>1, <2>2, <2>3, <2>4 DEF Moves, Session
<1>2. CASE \/ MyGreet \/ PgRefusesTLS \/ LoginAccepted \/ LoginRefused \/ LoginCut
           \/ DialFails \/ DialSucceeds
  <2>1. step \in {"greet", "login", "dial"} /\ UNCHANGED <<cli, served>>
    BY <1>2 DEF MyGreet, PgRefusesTLS, LoginAccepted, LoginRefused, LoginCut, LoginReads,
       DialFails, DialSucceeds, backend
  <2> QED
    BY <1>1, <2>1
<1>3. CASE RedisAsks \/ RedisReady \/ AuthCut
  <2>1. step \in {"auth", "reply", "key"} /\ UNCHANGED <<cli, served>>
    BY <1>3 DEF RedisAsks, RedisReady, AuthCut, backend
  <2> QED
    BY <1>1, <2>1
<1>4. ASSUME NEW s \in {"auth", "reply", "key"}, NEW m, NEW n \in 1 .. Len(Pending), Takes(s, m, n)
      PROVE  Moves
  <2>1. step \in {"auth", "reply", "key"} /\ UNCHANGED <<cli, served>>
    BY <1>4 DEF Takes, backend
  <2> QED
    BY <1>1, <2>1
<1>5. CASE RedisGranted \/ Turn \/ \E m \in {"authOK", "ok"} : LoggedIn(m)
  BY <1>4, <1>5 DEF RedisGranted, Turn, Receives, LoggedIn
<1>6. CASE CopyUp
  <2>1. UNCHANGED <<step, rep, down, cli, served>>
    BY <1>6 DEF CopyUp, backend
  <2> QED
    BY <2>1 DEF Moves, Session, Phase, Given, Received, Beyond
<1>7. CASE CopyDown
  <2>1. /\ step = "relay" /\ step' = "relay" /\ rep # <<>> /\ rep' = Tail(rep)
        /\ down' = Append(down, Head(rep)) /\ UNCHANGED <<cli, served>>
    BY <1>7 DEF CopyDown, handler, backend
  <2>2. Head(rep) \in Messages /\ Len(rep') = Len(rep) - 1 /\ Len(rep) >= 1
    BY <2>1, Lengths, HeadTailProperties, EmptySeq
  <2>3. Len(down') = Len(down) + 1
    BY <2>1, <2>2, Lengths, AppendProperties
  <2>4. Received' = Received
    <3>1. Len(down') + Len(rep') = Len(down) + Len(rep)
      BY <2>2, <2>3, Lengths
    <3> QED
      BY <2>1, <3>1 DEF Received, Beyond
  <2>5. IF Len(rep) <= Len(served)
        THEN Given < Len(served) /\ Given' = Given + 1 ELSE Given' = Given
    BY <2>1, <2>2, Lengths DEF Given, Beyond
  <2> QED
    BY <2>1, <2>4, <2>5 DEF Moves, Session, Phase
<1>8. CASE EndUp \/ EndDown \/ UpFails
  <2>1. step = "relay" /\ step' = "closed" /\ UNCHANGED <<down, rep, cli, served>>
    BY <1>8 DEF EndUp, EndDown, UpFails, CopyEnds, toClient, toBackend, backend
  <2>2. cli.open => served = <<>> \/ rep = <<>> \/ Len(served) < cli.sent
    BY <2>1 DEF Ended
  <2>3. cli.open => Given = Len(served) \/ Len(served) < cli.sent
    <3>1. rep = <<>> => Len(rep) = 0
      BY EmptySeq
    <3>2. rep = <<>> => Given = Len(served)
      BY <3>1, Lengths DEF Given, Beyond
    <3> QED
      BY <2>2, <3>2, NoneCounted
  <2> QED
    BY <2>1, <2>3 DEF Moves, Session, Phase, Given, Received, Beyond
<1> QED
  BY <1>2, <1>3, <1>5, <1>6, <1>7, <1>8, LoginTurns DEF Handler, redisAuthenticate, splice

LEMMA StepMoves ==
  TypeOK /\ InOrder /\ Ended /\ Answering /\ TypeOK' /\ Ended' /\ [Next]_vars => Moves
<1>1. UNCHANGED vars => Moves
  BY DEF vars, connection, handler, toClient, toBackend, backend, Moves, Session, Phase,
     Given, Received, Beyond
<1> QED
  BY <1>1, ClientMoves, BackendMoves, HandlerMoves DEF Next

\* Whatever its protocol, the login and the buffers on the way, a connection of the tunnel is
\* the pipeline of RelayedSession: queries are served in their order once the handler has
\* logged in, their answers passed on and received once each, and a client that stays is cut
\* off by splice only with all its answers or when the backend left a query without one.
THEOREM RelaysASessionAlways == Spec => RelaysASession
<1> DEFINE I == TypeOK /\ InOrder /\ Ended /\ Answering
           given == Cardinality(AnswersIn(cli.got \o down))
           got == Cardinality(AnswersIn(cli.got))
<1>1. Init => I /\ Pipeline!Init
  <2> SUFFICES ASSUME Init PROVE I /\ Pipeline!Init
    OBVIOUS
  <2>1. I
    BY OrderInit, AnsweringInit DEF Init, Ended
  <2>2. Given = 0 /\ Received = 0
    BY <2>1, NoneCounted DEF Init
  <2>3. given = 0 /\ got = 0
    BY <2>1, <2>2, Counted DEF Told
  <2> QED
    BY <2>1, <2>3 DEF Init, Pipeline!Init
<1> DEFINE Mapped == given = Given /\ got = Received
<1>2. I => Mapped
  BY Counted DEF Told
<1> HIDE DEF Mapped
<1>3. I /\ [Next]_vars => I'
  BY OrderStep, EndedStep, AnsweringStep
<1>4. I /\ I' /\ Mapped /\ Mapped' /\ [Next]_vars => [Pipeline!Next]_(Pipeline!session)
  <2> SUFFICES ASSUME I, I', Mapped, Mapped', [Next]_vars
               PROVE  [Pipeline!Next]_(Pipeline!session)
    OBVIOUS
  <2>1. Moves
    BY StepMoves
  <2>2. given = Given /\ got = Received /\ given' = Given' /\ got' = Received'
    BY DEF Mapped
  <2> QED
    BY <2>1, <2>2 DEF Moves, Session, Phase, Pipeline!Next, Pipeline!session, Pipeline!Ask,
       Pipeline!Leave, Pipeline!LetIn, Pipeline!Serve, Pipeline!PassOn, Pipeline!Receive, Pipeline!End
<1> QED
  BY <1>1, <1>2, <1>3, <1>4, PTL DEF Spec, RelaysASession, Pipeline!Spec
=============================================================================
