------------------------------ MODULE SqlTunnel ------------------------------
(***************************************************************************)
(* One connection of the tunnel to a PostgreSQL, MySQL or Redis backend:   *)
(* the login the handler plays for the client, the one it makes itself     *)
(* (postgres.go, mysql.go, redis.go), and the relay that follows (splice   *)
(* in tunnel.go); or a connection test, which stops after the second login *)
(* (testconn.go).  The client and the backend are external.                *)
(*                                                                         *)
(* A message is a pair <<name, n>>: n numbers a query and its answer, or   *)
(* the salt of a challenge and of the reply to it.  The four directions    *)
(* are queues.  Readers differ: pgproto3 and bufio take whatever is there, *)
(* the MySQL and Redis code take one message from the backend.             *)
(***************************************************************************)
EXTENDS Integers, Sequences, FiniteSets

CONSTANTS
  Types,       \* the connection types of this instance
  MaxQueries,  \* bound: queries of the client
  MaxSalt      \* bound: 1, and one more for each AuthSwitchRequest

ASSUME TypesAssumption == Types \subseteq {"redis", "postgres", "mysql"}
ASSUME BoundsAssumption == MaxQueries \in Nat /\ MaxSalt \in Nat \ {0}

VARIABLES
  type, secure,  \* of the registered URL: its scheme, and MySQL's tls=true
  test,          \* a connection test: there is no client
  step,          \* the handler: "greet", "login", "dial", "auth", "reply", "key",
                 \* "relay", "closed"
  todo,          \* commands its URL asks of a Redis server: AUTH, SELECT
  salt,          \* the salt it keeps, of the first greeting
  cbuf, sbuf,    \* what its readers took from the client and the server, unused
  up, down,      \* messages under way from and to the client
  req, rep,      \* messages under way to and from the backend
  cli,           \* the client: how many queries it sent, which messages it got, whether
                 \* it asked for TLS, sent its login, can still send
  srv, challenge, served  \* the backend: its step, its last salt, queries it got

connection == <<type, secure, test>>
handler == <<step, todo, salt, cbuf, sbuf>>
toClient == <<up, down>>
toBackend == <<req, rep>>
backend == <<srv, challenge, served>>
vars == <<connection, handler, toClient, toBackend, cli, backend>>

Msg(name) == <<name, 0>>

Init ==
  /\ type \in Types /\ test \in BOOLEAN
  /\ secure \in IF type = "mysql" THEN BOOLEAN ELSE {FALSE}
  /\ todo \in IF type = "redis"
              THEN {<<>>, <<"AUTH">>, <<"SELECT">>, <<"AUTH", "SELECT">>} ELSE {<<>>}
  /\ step = IF test THEN "dial" ELSE IF type = "mysql" THEN "greet" ELSE "login"
  /\ salt = 0 /\ cbuf = <<>> /\ sbuf = <<>>
  /\ up = <<>> /\ down = <<>> /\ req = <<>> /\ rep = <<>>
  /\ cli = [sent |-> 0, got |-> <<>>, ssl |-> FALSE, login |-> FALSE, open |-> ~test]
  /\ srv = "away" /\ challenge = 0 /\ served = <<>>

-----------------------------------------------------------------------------
(* The client (external): a login, then queries.  Redis clients send them  *)
(* without waiting; the others wait for the previous answer.               *)

Got(m) == \E i \in DOMAIN cli.got : cli.got[i] = m
Answered == Got(IF cli.sent = 0 THEN Msg("ready") ELSE <<"answer", cli.sent>>)

ClientSends(m) ==
  /\ cli.open
  /\ up' = Append(up, m)
  /\ UNCHANGED <<connection, handler, down, toBackend, backend>>

ClientAsksTLS ==
  /\ type = "postgres" /\ ~cli.ssl /\ ~cli.login
  /\ ClientSends(Msg("ssl"))
  /\ cli' = [cli EXCEPT !.ssl = TRUE]

ClientLogin(m) ==
  /\ ~cli.login
  /\ type = "mysql" => Got(Msg("greeting"))
  /\ cli.ssl => Got(Msg("N"))
  /\ ClientSends(Msg(m))
  /\ cli' = [cli EXCEPT !.login = TRUE]

ClientQuery ==
  /\ cli.login /\ cli.sent < MaxQueries
  /\ type # "redis" => Answered
  /\ ClientSends(<<"query", cli.sent + 1>>)
  /\ cli' = [cli EXCEPT !.sent = @ + 1]

ClientReceive ==
  /\ down # <<>>
  /\ cli' = [cli EXCEPT !.got = Append(@, Head(down))]
  /\ down' = Tail(down)
  /\ UNCHANGED <<connection, handler, up, toBackend, backend>>

\* It will send no more.
ClientCloses ==
  /\ cli.open
  /\ cli' = [cli EXCEPT !.open = FALSE]
  /\ UNCHANGED <<connection, handler, toClient, toBackend, backend>>

Client ==
  \/ ClientAsksTLS \/ ClientQuery \/ ClientReceive \/ ClientCloses
  \/ \E m \in {"token", "wrong"} : ClientLogin(m)

-----------------------------------------------------------------------------
(* The backend (external): it answers each message it expects, and a proof *)
(* made with another salt than its last only with an error.                *)

BackendSays(ms, s) ==
  /\ rep' = rep \o ms /\ srv' = s
  /\ req' = Tail(req)
  /\ UNCHANGED <<connection, handler, toClient, cli, served>>

BackendExpects(s, m) ==
  /\ srv = s /\ req # <<>>
  /\ Head(req) = m

BackendRefuses == BackendSays(<<Msg("error")>>, "closed") /\ UNCHANGED challenge

BackendAccepts(ms) == BackendSays(ms, "ready") /\ UNCHANGED challenge

BackendAsks(m, s) == BackendSays(<<Msg(m)>>, s) /\ UNCHANGED challenge

BackendRedis(c) ==
  /\ type = "redis" /\ BackendExpects("login", Msg(c))
  /\ \/ BackendRefuses
     \/ BackendAsks("+", IF todo = <<c>> THEN "ready" ELSE "login")

\* A database that does not exist is refused after AuthenticationOk.
PgDone == <<Msg("authOK"), Msg("param"), Msg("ready")>>
BackendPgLogin ==
  \/ BackendAccepts(PgDone)
  \/ BackendSays(<<Msg("authOK"), Msg("error")>>, "closed") /\ UNCHANGED challenge

BackendPostgres ==
  /\ type = "postgres"
  /\ \/ /\ BackendExpects("login", Msg("startup"))
        /\ BackendPgLogin \/ BackendAsks("askPassword", "password") \/ BackendAsks("sasl", "sasl")
     \/ BackendExpects("password", Msg("password")) /\ (BackendPgLogin \/ BackendRefuses)
     \/ BackendExpects("sasl", Msg("saslFirst")) /\ BackendAsks("saslContinue", "proof")
     \/ /\ BackendExpects("proof", Msg("saslProof"))
        /\ BackendAccepts(<<Msg("saslFinal")>> \o PgDone) \/ BackendRefuses

Challenges(name) ==
  /\ challenge < MaxSalt
  /\ challenge' = challenge + 1
  /\ rep' = Append(rep, <<name, challenge'>>)
  /\ UNCHANGED <<connection, handler, toClient, cli, srv, served>>

BackendGreets ==
  /\ type = "mysql" /\ srv = "login" /\ challenge = 0
  /\ Challenges("greeting") /\ UNCHANGED req

BackendSwitches == Challenges("switch") /\ req' = Tail(req)

BackendMySQL ==
  /\ type = "mysql"
  /\ \/ /\ BackendExpects("login", <<"response", challenge>>)
        /\ \/ BackendAccepts(<<Msg("ok")>>) \/ BackendAccepts(<<Msg("fastOK"), Msg("ok")>>)
           \/ BackendAsks("full", "full") \/ BackendSwitches \/ BackendRefuses
     \/ BackendExpects("full", Msg("password")) /\ (BackendAccepts(<<Msg("ok")>>) \/ BackendRefuses)
     \/ BackendExpects("full", Msg("askKey")) /\ BackendAsks("key", "full")
     \/ BackendExpects("full", <<"sealed", challenge>>) /\ BackendAccepts(<<Msg("ok")>>)
     \/ \E n \in 1 .. MaxSalt : BackendExpects("full", <<"sealed", n>>) /\ BackendRefuses

BackendAnswers ==
  /\ srv = "ready" /\ req # <<>> /\ Head(req)[1] = "query"
  /\ served' = Append(served, Head(req)[2])
  /\ rep' = Append(rep, <<"answer", Head(req)[2]>>)
  /\ req' = Tail(req)
  /\ UNCHANGED <<connection, handler, toClient, cli, srv, challenge>>

BackendCloses ==
  /\ srv \notin {"away", "closed"}
  /\ srv' = "closed"
  /\ UNCHANGED <<connection, handler, toClient, toBackend, cli, challenge, served>>

BackendReplies ==
  \/ \E c \in {"AUTH", "SELECT"} : BackendRedis(c)
  \/ BackendPostgres \/ BackendGreets \/ BackendMySQL \/ BackendAnswers

-----------------------------------------------------------------------------
(* The handler plays the server's part for the client.                     *)

MyGreet ==
  /\ step = "greet"
  /\ step' = "login" /\ down' = Append(down, Msg("greeting"))
  /\ UNCHANGED <<connection, todo, salt, cbuf, sbuf, up, toBackend, cli, backend>>

\* The reader takes what has arrived, n messages of it.
LoginReads(m) ==
  /\ step = "login" /\ up # <<>> /\ Head(up) = Msg(m)
  /\ \E n \in 1 .. Len(up) :
       cbuf' = SubSeq(up, 2, n) /\ up' = SubSeq(up, n + 1, Len(up))
  /\ UNCHANGED <<connection, todo, salt, sbuf, toBackend, cli, backend>>

PgRefusesTLS == LoginReads("ssl") /\ down' = Append(down, Msg("N")) /\ UNCHANGED step

LoginAccepted == LoginReads("token") /\ down' = Append(down, Msg("ready")) /\ step' = "dial"

\* Redis answers before it closes; the others just close.
LoginRefused ==
  /\ LoginReads("wrong") /\ step' = "closed"
  /\ down' = IF type = "redis" THEN Append(down, Msg("error")) ELSE down

LoginCut ==
  /\ step = "login" /\ ~cli.open /\ up = <<>>
  /\ step' = "closed"
  /\ UNCHANGED <<connection, todo, salt, cbuf, sbuf, toClient, toBackend, cli, backend>>

-----------------------------------------------------------------------------
(* The handler logs in to the backend.                                     *)

ToBackend(s, ms) == step' = s /\ req' = req \o ms

\* Or the URL has no user or database.
DialFails ==
  /\ step = "dial" /\ step' = "closed"
  /\ UNCHANGED <<connection, todo, salt, cbuf, sbuf, toClient, toBackend, cli, backend>>

\* pgAuthenticate writes first, the MySQL server does, and so does Redis only
\* when the URL asks for it.
DialSucceeds ==
  /\ step = "dial"
  /\ ToBackend("auth", IF type = "postgres" THEN <<Msg("startup")>> ELSE <<>>)
  /\ srv' = IF type = "redis" /\ todo = <<>> THEN "ready" ELSE "login"
  /\ UNCHANGED <<connection, todo, salt, cbuf, sbuf, toClient, rep, cli, challenge, served>>

\* pgproto3 takes what has arrived, the Redis and MySQL code one message.
Pending == sbuf \o rep
Takes(s, m, n) ==
  /\ step = s /\ n <= Len(Pending) /\ Head(Pending) = m
  /\ IF sbuf # <<>> THEN n = Len(sbuf) ELSE type = "postgres" \/ n = 1
  /\ rep' = SubSeq(Pending, n + 1, Len(Pending))
  /\ UNCHANGED <<connection, toClient, cli, backend>>

Receives(s, m) ==
  \E n \in 1 .. Len(Pending) : Takes(s, m, n) /\ sbuf' = SubSeq(Pending, 2, n)

Replies(m, reply) ==
  /\ Receives("auth", Msg(m))
  /\ ToBackend("auth", reply)
  /\ UNCHANGED <<todo, salt, cbuf>>

\* Variant: what the reader of the client took along with the login is dropped.
SplicedBare ==
  /\ step' = IF test THEN "closed" ELSE "relay"
  /\ sbuf' = <<>> /\ cbuf' = <<>>

\* The frontend of pgproto3, and what it took, is left behind, and so is the
\* reader of the client's startup message; the other two hand theirs to splice.
Spliced ==
  /\ step' = IF test THEN "closed" ELSE "relay"
  /\ sbuf' = <<>> /\ cbuf' = IF type = "postgres" THEN <<>> ELSE cbuf

LoggedIn(m) ==
  /\ \E n \in 1 .. Len(Pending) : Takes("auth", Msg(m), n)
  /\ Spliced
  /\ UNCHANGED <<todo, salt, req>>

\* Variant: a command is taken for granted when it is sent.
RedisAsksAhead ==
  /\ type = "redis" /\ step = "auth" /\ todo # <<>>
  /\ ToBackend("auth", <<Msg(Head(todo))>>)
  /\ todo' = Tail(todo)
  /\ UNCHANGED <<connection, salt, cbuf, sbuf, toClient, rep, cli, backend>>

RedisAsks ==
  /\ type = "redis" /\ step = "auth" /\ todo # <<>>
  /\ ToBackend("reply", <<Msg(Head(todo))>>)
  /\ UNCHANGED <<connection, todo, salt, cbuf, sbuf, toClient, rep, cli, backend>>

\* Variant: the handler goes on waiting after the reply.
RedisGrantedStays ==
  /\ Receives("reply", Msg("+"))
  /\ todo' = Tail(todo) /\ UNCHANGED step
  /\ UNCHANGED <<salt, cbuf, req>>

RedisGranted ==
  /\ Receives("reply", Msg("+"))
  /\ todo' = Tail(todo) /\ step' = "auth"
  /\ UNCHANGED <<salt, cbuf, req>>

RedisReady ==
  /\ type = "redis" /\ step = "auth" /\ todo = <<>>
  /\ Spliced
  /\ UNCHANGED <<connection, todo, salt, toClient, toBackend, cli, backend>>

redisAuthenticate == RedisAsks \/ RedisGranted \/ RedisReady

pgAuthenticate ==
  \/ Replies("askPassword", <<Msg("password")>>)
  \/ Replies("sasl", <<Msg("saslFirst")>>)
  \/ Replies("saslContinue", <<Msg("saslProof")>>)
  \/ Replies("saslFinal", <<>>)
  \/ LoggedIn("authOK")

MyGreeted ==
  \E n \in 1 .. MaxSalt :
    /\ Receives("auth", <<"greeting", n>>)
    /\ salt' = n /\ ToBackend("auth", <<<<"response", n>>>>)
    /\ UNCHANGED <<todo, cbuf>>

\* The salt of the first greeting is kept.
MySwitched ==
  \E n \in 1 .. MaxSalt :
    /\ Receives("auth", <<"switch", n>>)
    /\ ToBackend("auth", <<<<"response", n>>>>)
    /\ UNCHANGED <<todo, salt, cbuf>>

\* Variant: over TLS nothing is sent.
MyFullAuthOnlyRSA ==
  \/ /\ Receives("auth", Msg("full"))
     /\ ToBackend(IF secure THEN "auth" ELSE "key", IF secure THEN <<>> ELSE <<Msg("askKey")>>)
     /\ UNCHANGED <<todo, salt, cbuf>>
  \/ /\ Receives("key", Msg("key"))
     /\ ToBackend("auth", <<<<"sealed", salt>>>>)
     /\ UNCHANGED <<todo, salt, cbuf>>

\* Over TLS the password in the clear; else sealed, with the server's key.
myFullAuth ==
  \/ /\ Receives("auth", Msg("full"))
     /\ IF secure THEN ToBackend("auth", <<Msg("password")>>)
                  ELSE ToBackend("key", <<Msg("askKey")>>)
     /\ UNCHANGED <<todo, salt, cbuf>>
  \/ /\ Receives("key", Msg("key"))
     /\ ToBackend("auth", <<<<"sealed", salt>>>>)
     /\ UNCHANGED <<todo, salt, cbuf>>

\* Variant: fast authentication is taken for the end of the login.
MyFastOKEnds == LoggedIn("fastOK")
MyFastOK == Replies("fastOK", <<>>)

myAuthenticate ==
  \/ MyGreeted \/ MySwitched \/ myFullAuth \/ MyFastOK
  \/ LoggedIn("ok")

\* A plugin or a mechanism that is not supported, a key or a proof that is wrong,
\* a TLS handshake that fails.
AuthFails ==
  /\ \E s \in {"auth", "key"}, n \in 0 .. MaxSalt,
        m \in {"greeting", "switch", "key", "sasl", "saslContinue", "saslFinal"} :
       Receives(s, <<m, n>>)
  /\ step' = "closed"
  /\ UNCHANGED <<todo, salt, cbuf, req>>

AuthRefused ==
  /\ \E s \in {"auth", "reply", "key"} : Receives(s, Msg("error"))
  /\ step' = "closed"
  /\ UNCHANGED <<todo, salt, cbuf, req>>

AuthCut ==
  /\ step \in {"auth", "reply", "key"}
  /\ srv = "closed" /\ Pending = <<>>
  /\ step' = "closed"
  /\ UNCHANGED <<connection, todo, salt, cbuf, sbuf, toClient, toBackend, cli, backend>>

-----------------------------------------------------------------------------
(* splice: two copies, and the first to end ends the connection.           *)

CopyUp ==
  /\ step = "relay" /\ cbuf \o up # <<>>
  /\ req' = Append(req, Head(cbuf \o up))
  /\ IF cbuf # <<>> THEN cbuf' = Tail(cbuf) /\ UNCHANGED up
                    ELSE up' = Tail(up) /\ UNCHANGED cbuf
  /\ UNCHANGED <<connection, step, todo, salt, sbuf, down, rep, cli, backend>>

\* Variant: a write that was cut short is made again from the start.
CopyDownAgain ==
  /\ step = "relay" /\ rep # <<>>
  /\ down' = Append(down, Head(rep)) /\ rep' \in {rep, Tail(rep)}
  /\ UNCHANGED <<connection, handler, up, req, cli, backend>>

CopyDown ==
  /\ step = "relay" /\ rep # <<>>
  /\ down' = Append(down, Head(rep)) /\ rep' = Tail(rep)
  /\ UNCHANGED <<connection, handler, up, req, cli, backend>>

CopyEnds ==
  /\ step' = "closed"
  /\ UNCHANGED <<connection, todo, salt, cbuf, sbuf, toClient, toBackend, cli, backend>>

\* Variant: the relay ends when the client has nothing to say.
EndIdle == step = "relay" /\ cbuf \o up = <<>> /\ CopyEnds
EndUp == step = "relay" /\ ~cli.open /\ cbuf \o up = <<>> /\ CopyEnds
\* Variant: the connection ends with the backend, not with what it sent.
EndDownEarly == step = "relay" /\ srv = "closed" /\ CopyEnds
EndDown == step = "relay" /\ srv = "closed" /\ rep = <<>> /\ CopyEnds
\* A write to a backend that is gone.
UpFails == step = "relay" /\ srv = "closed" /\ cbuf \o up # <<>> /\ CopyEnds

splice == CopyUp \/ CopyDown \/ EndUp \/ EndDown \/ UpFails

Handler ==
  \/ MyGreet \/ PgRefusesTLS \/ LoginAccepted \/ LoginRefused \/ LoginCut
  \/ DialSucceeds \/ DialFails
  \/ redisAuthenticate \/ pgAuthenticate \/ myAuthenticate \/ AuthFails \/ AuthRefused \/ AuthCut
  \/ splice

Next == Client \/ BackendReplies \/ BackendCloses \/ Handler

Spec == Init /\ [][Next]_vars

-----------------------------------------------------------------------------
(* Fairness: the handler's goroutine runs and the backend answers.  The    *)
(* code has no deadline of its own after the dial.                         *)
FairSpec == Spec /\ WF_vars(Handler) /\ WF_vars(BackendReplies)

-----------------------------------------------------------------------------
(* Properties.                                                             *)

Messages == {"query", "answer", "greeting", "switch", "response", "sealed", "ssl", "token", "wrong",
  "N", "ready", "error", "+", "AUTH", "SELECT", "startup", "askPassword", "password", "sasl",
  "saslFirst", "saslContinue", "saslProof", "saslFinal", "authOK", "param", "full", "askKey",
  "key", "fastOK", "ok"} \X Nat

\* The types of the variables; a Redis handler that waits for a reply still has
\* the command it is for.
TypeOK ==
  /\ type \in Types /\ secure \in BOOLEAN /\ test \in BOOLEAN
  /\ step \in {"greet", "login", "dial", "auth", "reply", "key", "relay", "closed"}
  /\ salt \in 0 .. MaxSalt /\ challenge \in 0 .. MaxSalt
  /\ {cbuf, sbuf, up, down, req, rep} \subseteq Seq(Messages)
  /\ todo \in Seq({"AUTH", "SELECT"}) /\ (step = "reply" => todo # <<>>)
  /\ cli \in [sent : 0 .. MaxQueries, got : Seq(Messages),
              ssl : BOOLEAN, login : BOOLEAN, open : BOOLEAN]
  /\ srv \in {"away", "login", "password", "sasl", "proof", "full", "ready", "closed"}
  /\ served \in Seq(1 .. MaxQueries)

\* The queries the backend gets are the client's, in their order and with none
\* missing, those it sent along with its login included.
QueriesInOrder == served = [k \in 1 .. Len(served) |-> k]

\* A connection is relayed only when the backend has let it in: what the client
\* sends meanwhile waits.
RelayedAfterLogin == step = "relay" => srv \in {"ready", "closed"}

\* When the backend answers all the client has sent and closes, the client, if
\* it has not closed, is given every answer before its connection ends.
AnsweredIsDelivered ==
  step = "closed" /\ cli.open /\ served # <<>> /\ Len(served) = cli.sent => rep = <<>>

OfTheLogin == {"+", "authOK", "param", "ready", "ok", "fastOK", "full", "switch"} \X Nat
FromBackend ==
  LET all == cli.got \o down
  IN  {all[i] : i \in {j \in DOMAIN all : \E k \in 1 .. j - 1 : all[k] = Msg("ready")}}

\* "the raw byte splice carries only the session traffic that follows"
\* (postgres.go): nothing of the handler's own login reaches the client.
OnlySessionTraffic == FromBackend \cap OfTheLogin = {}

\* So it is for Redis and MySQL, whose readers take no more than the login.
RedisMySQLSessionTraffic == type # "postgres" => OnlySessionTraffic

\* Its answers come to the client in the order of its queries, each once and none
\* missing in between, and nothing else comes after the first.
AnswersInOrder ==
  LET all == cli.got \o down
  IN  \E s \in 0 .. Len(all) : \A i \in 1 .. Len(all) :
        IF i <= s THEN all[i][1] # "answer" ELSE all[i] = <<"answer", i - s>>

\* A tunnelled connection is the pipeline of RelayedSession, its buffers and the
\* messages under way being invisible there.
AnswersIn(q) == {i \in 1 .. Len(q) : q[i][1] = "answer"}

Pipeline == INSTANCE RelayedSession WITH
  open <- cli.open,
  phase <- IF step \in {"relay", "closed"} THEN step ELSE "login",
  sent <- cli.sent,
  served <- Len(served),
  given <- Cardinality(AnswersIn(cli.got \o down)),
  got <- Cardinality(AnswersIn(cli.got))

RelaysASession == Pipeline!Spec

\* A login to a backend that answers ends, in the relay or in an error: no turn
\* of the exchange leaves both sides waiting.
LoginEnds == step = "dial" ~> step \in {"relay", "closed"}
=============================================================================
