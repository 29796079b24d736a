# Verification of vaulty-keeper

TLA+ models of vaulty-keeper, the TLC runs that check them on small instances,
and theorems about them that TLAPS checks for every value of the constants.
vaulty-keeper keeps configuration snapshots and database URLs encrypted on a
host, and gives isolated programs masked reads (the bridge) and
credential-injecting TCP tunnels (`serve`). The models say what its stores and
tunnels promise when commands, listeners, clients and backends interleave, and
when a process dies at a bad moment.

All source paths below are relative to `src/`.

## The system

| Part | State | Operations | Talks to | Status |
|---|---|---|---|---|
| Connection registry, `internal/dbproxy/store.go` | `~/.vaulty/db.json`: per name a sealed URL, a sealed token, a port, the `enabled` flag | `Add`, `RegenToken(All)`, `Remove`, `SetTunnel(All)`, `List`, `Resolve` | called by the CLI, by UI request handlers and by the tunnels; all share the file | modelled, proved |
| Tunnels, `internal/dbproxy/tunnel.go` | `active` listeners, one accept loop each, one goroutine per client | `Start` (reconcile every 2 s), `acceptLoop`, `handle`, `splice` | reads db.json with the key `serve` read at start | modelled, proved |
| Handshakes, `redis.go`, `postgres.go`, `mysql.go`; `testconn.go` | per connection: buffers, the salt, the turn of the login | token check, backend login, relay | client and backend | modelled, proved |
| MongoDB tunnel, `mongodb.go` | 128 slots and the cursor table shared by all connections; per connection a SCRAM conversation | `handleMongo`, `execute`, cursor bookkeeping | client and backend | modelled, proved |
| MongoDB policy, `mongodb_policy.go` | none | `mongoCheckCommand` and the walks it calls | MongoDB tunnel | commands and documents modelled; reply filter not |
| Snapshot store, `internal/apollo/store.go`, `internal/app/snapshot.go` | one JSON file per snapshot: items with `secret` and `safe`, two keys | `Import`, `SetValue`, `MarkValue`, `DeleteValue`, `EditApply`, `Remove`, `Compare`, the readers | CLI, UI, bridge | modelled, proved |
| Key store, `internal/apollo/keyring.go` | three keys in the platform store, overridable by the environment | `Generate*`, `SnapshotKey`, `SensitiveKey`, `DBKey` | everything that encrypts | not modelled; key changes are |
| Named AES keys, `internal/app/aes.go` | `aes.json` | `AESConfigAdd`, `Remove`, `Save` | CLI, UI | not modelled |
| Bridge, `internal/bridge/bridge.go` | the token of the run, the shared failure counter | masked reads, throttling | snapshot store, `List` | not modelled |
| `serve`, `internal/cli/remote.go` | the key and token of the run | starts bridge and tunnels | | with the tunnels |
| CLI, UI server, `internal/cli`, `internal/ui` | none that outlives a request, apart from the stores above | guards, prompts and checks around the stores | stores | with the stores |
| Page, translations, packaging | | | | not modelled |

What makes it hard:

- **No file is locked.** Every command is load, compute, `os.WriteFile`; the CLI
  and any number of UI request handlers do it at once. `os.WriteFile` truncates
  first, so a crash, or a second writer, can leave text that does not parse.
- **A command looks more than once.** `import` stats before it saves, `mark --plain`
  loads the value it warns about and loads it again to mark it, an editor keeps a text open for
  minutes, and keys are read before the file they open.
- **Tunnels are reconciled, not told.** The watcher compares db.json with its
  listeners every two seconds, in the random order of a Go map, against ports
  that other programs may hold.
- **Handlers read db.json again**, after they were accepted and with the key of
  the start of `serve`, while commands replace tokens, URLs and keys.
- **A handler plays two logins**, the server's part for its client and the client's
  part for the backend, through readers that buffer differently: what one of
  them takes too much is lost, what it leaves is relayed.
- **A shared table with limits** (MongoDB cursors), checked under a lock
  that is released before the backend is asked.
- **A policy over documents that nest**, written as mutually recursive Go
  functions, with a second walk for the collections.

What makes each part correct: the registry must keep ports distinct and in
range, never turn a tunnel on by itself, never replace a damaged file by an
empty registry, and a replaced token must stay out; the tunnels must follow the
flags, serve what is on, and authenticate a client only against the current
token of the very registration whose URL they dial; a relay must start only
after the backend let the connection in, lose and reorder nothing, and
carry nothing of the handler's own login; a cursor must be used only
by the scope and session that own it and the table must stay within its limits; what the
policy accepts must evaluate only what its tables list; a snapshot
must never show a value that nobody marked, or that was revoked.
`PROJECT.json` lists the hazards line by line.

## Modules

    Connections          registry values and the pure part of each command
     |-- ConnStore         commands as load / compute / truncate / write steps, crashes
     |    |-- ConnStoreSerial   one command at a time; refines AtomicRegistry
     |    |-- MCConnStore, MCConnStoreSerial
     |    `-- ConnStoreProofs -- ConnStoreSerialProofs
     |-- Tunnel            watcher, accept loops, handlers, over indivisible edits
     |    |-- MCTunnel
     |    `-- TunnelProofs
     `-- ConnectionsProofs   lemmas about ports, the file format and the commands
    AtomicRegistry       the abstract registry: one indivisible step per command
    SqlTunnel            one redis, postgres or mysql connection: two logins and the relay
     |-- MCSqlTunnel
     `-- SqlTunnelProofs
    RelayedSession       the abstract pipeline a tunnelled connection implements
    MongoTunnel          MongoDB handlers, SCRAM, the shared cursor table, the backends
     `-- MCMongoTunnel
    MongoPolicy          a path down a command: the policy, what a mongod reads, the second walk
     `-- MCMongoPolicy     the values that stand on the path
    MongoProofs          theorems of both MongoDB modules
    SnapshotStore        snapshot commands and readers, the two keys, crashes
     |-- SnapshotSerial    one command at a time; refines AtomicSnapshots
     |    `-- MCSnapshotSerial
     |-- MCSnapshotStore
     `-- SnapshotStoreProofs -- SnapshotSerialProofs
    AtomicSnapshots      the abstract files: one indivisible step per command

**Connections** is `store.go` without the file: `Load`/`Save` are the JSON
decoding and encoding with the legacy flag, `AllocPort`, `AddRefused`, `Add`,
`Regen`, `Remove`, `SetTunnel` are what the functions compute, `Resolvable` is
`Resolve`. A sealed string is its key and what identifies the plaintext; it opens
with that key only. A token is the number of the draw that produced it
(generation), 0 for a legacy entry without one.

**ConnStore** runs those operators in concurrent processes. One action per step at
which another process can intervene: `Begin` (flags parsed, `DBKey()` returned),
the `Load*` actions (read and parse the file, compute the new registry: nothing
another process can see happens in between), `LoadReturns` (every early return),
`Truncate` and `Write` (the two effects of `os.WriteFile`), and `Abort` (a crash
or an I/O error at any of them). The file is `absent`, `ok` with its entries, or
`torn`: its text does not parse. Bytes are abstracted to what a reader can tell:
a truncated file, a part of the text, and a longer text with the tail of another
are all `torn`. `dirty[p]` remembers that another writer's bytes landed since the last
truncation, so that p's write may leave a tail; it may also happen to be the
longer text and leave a clean file, so both outcomes are allowed.

**AtomicRegistry** states what the commands promise by what they may change.
**ConnStoreSerial** maps ConnStore to it: during a save the registry is the one
about to be written (`View`); it is `Lost` when the file is torn and nobody is writing.

**Tunnel** is `Tunnel.Start`, `acceptLoop` and `handle`. `SyncStart` is the `List` at a
tick; `SyncOff`, `SyncListen`, `SyncKeep` visit the names in any order, as ranging over a
Go map does; `SyncSweep` closes what is no longer registered. A handler is
accepted, resolves its connection (`ResolveConn`, all of `Resolve` reads the file
once), authenticates, relays, closes. Commands edit db.json indivisibly, which is
what ConnStoreSerial shows of commands run one at a time; `Tear` covers the moments
when the file does not parse. `Restart` is `serve` stopped at any point and started
again with whichever key `DBKey()` returns then. Other programs of the host take and
free ports (`ForeignPort`, external). The login and the relay of a handler are one step
here and a module of their own, SqlTunnel or MongoTunnel. The model starts when `serve` does, with db.json present and a key
available: otherwise `runServe` starts no tunnels at all.

**SqlTunnel** is one connection after `Resolve`: `up`, `down`, `req` and `rep` are the four
directions, `cbuf` and `sbuf` what the handler's readers took beyond what they used.
The reader of the client takes whatever has arrived (`LoginReads`), as bufio and
pgproto3 do; towards the backend only pgproto3 does, the MySQL and Redis code reads one
message (`Takes`). `Spliced` is the moment the relay starts: MySQL and Redis hand the
client's reader to `splice`, the PostgreSQL code leaves both of its readers behind. Each
turn of a login is an action named after what it answers; refusals,
unsupported mechanisms and cut connections are `LoginRefused`, `LoginCut`, `DialFails`, `AuthFails`,
`AuthRefused`, `AuthCut`. `splice` is two copies; the first to end ends the
connection (`EndUp`, `EndDown`, `UpFails`). With `test` there is no client and the connection
closes where the relay would start: `TestConn`. Salts are numbered, so that a
proof made with the wrong one is refused. The client and the backend are external:
they follow their protocol, may send the next message before the answer to the last
one where the protocol allows it (Redis), and may close at any moment.

**RelayedSession** is what a tunnelled connection promises its client, with no protocol, login
or buffer in it: queries are served in the order they were sent, once the login is over; their
answers are passed on and received once each; a client that stays is cut off only with every
answer it is owed, or when the backend left a query without one. SqlTunnel implements it with
the mapping `Pipeline`: a query or an answer that sits in a socket, in a reader of the handler or in
the hands of `splice` is on its way, and every step of a login but the last stutters.

**MongoTunnel** is `handleMongo` and `execute` for all connections of one `serve`, with the
table they share. A request goes through the stages at which the lock is free: `checked` (ownership
looked up, command not yet run), `cursor` and `forget` (the reply is in, the table not
yet changed), `ended`. A backend numbers its cursors, opens them, exhausts them, and
loses them whenever it likes. `opener` is a history variable, who opened each
cursor, where and with which command; properties compare it with what the handler believes. `Tick` is
the clock, by which entries expire; a restart of `serve` forgets everything but the backends' cursors.

**MongoPolicy** turns the recursion of the policy into steps. A behaviour goes down one command, from a
value to any part of it: `call` is the Go function that checks the value, with its depth parameter
(`XOK` what the function X asks of the value itself, `XPart` the call it makes on a part), `read` is
how a mongod reads the same value (external), `walk` what `mongoCommandNamespaces` does with it, and `level` how
many documents and arrays it is in. A value is its kind and its keys in their order, so that
every document, however deep, is covered by its paths. What the code asks of two parts at once (`localField` and
`foreignField`, `remove` and `update`) is asked of their keys. Operators, stages and arguments the code treats alike are one.
A path may leave a command whose other parts would be refused: the properties hold for these too.

**SnapshotStore** has the commands of the CLI and of the page as processes: `Begin` with
the keys read at the start, the early checks (`StatImport`, `Guard`, `OpenEditor`), a load
that computes (`ComputeSet`, `ComputeMark`, ...), `Truncate`, `Write`, `Crash`. An item has its
value, the key that seals it, `secret` and `safe`; whether a value is sensitive is the
constant `Sensitive`. `Regenerate` replaces a key between any two steps. `Shown` is the set of what the
readers print in plaintext to a script or to the page: `SafeNames` (`maskedFor`), `PageShows`,
`GetShows`, `MultiShows`, `KeyShows`, `CompareShows`. `asked` and `revoked` are history variables.

**AtomicSnapshots** states the commands by what they may change, without keys;
**SnapshotSerial** maps SnapshotStore to it as ConnStoreSerial does for the registry.

Definitions marked `Variant` are deliberately wrong versions of another
definition. No specification uses them; each is put in the place of the right one
to confirm that the property it is paired with in `PROJECT.json` notices.

## Runs

| Run | Instance | Question |
|---|---|---|
| `store_concurrent` | 2 commands at a time, 2 names, ports 3-4, one token drawn before the bound stops new draws | `PortsUniqueEverywhere`, `PortsInRange`, `NeverOnUnasked`, `UnparsableIsKept`, `TypeOK` |
| `store_serial` | 1 command at a time, 2 names, 2 keys, 2 draws | `CommandsAreAtomic` (refinement of AtomicRegistry), `OldTokensStayOut` |
| `store_lost_update` | 2 commands at a time, 2 draws | expected violation of `OldTokensStayOut`: see Findings |
| `tunnel_listeners` | 2 names, 2 URLs (one mongodb), 1 client, a foreign program, 2 draws, 2 runs of serve | `OnlyDesiredListen`, `NoStaleToken`, `OneRegistration`, `TypeOK` |
| `tunnel_live` | 2 names, requested ports, a foreign program, 2 runs of serve, 2 draws | `OffCloses`, `OnOpens` under fairness |
| `tunnel_accept_dies` | 1 name | expected violation of `OnIsServed`: see Findings |
| `mongo_cursors` | 2 connections, 2 scopes on one mongod, 2 sessions, 2 cursors, limits 1 and 2, lifetime 0 | `OwnersOnly`, `FilteredAsOpened`, `AuthFirst`, `WithinLimits`, `RenewedOnlyBySuccess`, `ForgottenForAReason`, `TypeOK` |
| `policy` | depth limit 2; documents of any 2 keys of a mixed set, of every single key, and of the forms the tables ask for | `OnlyListedEvaluates`, `OnlyPublicMetadata`, `NothingElseReads`, `EveryCollectionIsLookedUp`, `WalkNeverPanics`, `DepthIsBounded` |
| `snapshot_concurrent` | 2 commands at a time on 1 file with 1 name, 2 values (one sensitive) | `SecretsUnderSensitiveKey`, `TypeOK` |
| `snapshot_serial` | 1 command at a time on 2 files, each key regenerated once | `ShownWasAsked`, `RevokedStaysHidden`, `CommandsAreAtomic` (refinement of AtomicSnapshots) |
| `sql_logins` | the 3 types, 4 queries, 2 salts, tunnel or connection test | `QueriesInOrder`, `RelayedAfterLogin`, `AnsweredIsDelivered`, `RedisMySQLSessionTraffic`, `AnswersInOrder`, `RelaysASession` (refinement of RelayedSession), `LoginEnds` under fairness, `TypeOK` |
| `sql_postgres_relay` | postgres, 1 query | expected violation of `OnlySessionTraffic`: see Findings |

Bounds. Two processes are enough for every race in the stores: a command touches
its file twice, and what a third process does between those two moments a second
one can also do by running several commands. Two names are the least for which a port can
collide, be swapped, or be written back by a command that is about another name. Base and
MaxPort leave exactly as many ports as names, so that automatic choice, requested
choice, both ends of the range and exhaustion all occur; `MCRequests` holds an
omitted port, one below, one inside and one above the range. `MaxGen` bounds the
commands that draw a token; the other commands are unbounded. With MaxGen = 1 two concurrent
draws still happen (both may start before either has drawn). `MaxRuns` bounds restarts, and
`Ephemeral` is the one port the OS gives when a legacy entry asks for port 0.
In `mongo_cursors` two connections of one scope race on one cursor, the
second scope is the stranger, and limits of 1 and 2 are reached with two cursors;
`MaxId` bounds the cursors a backend opens, and a lifetime of 0 ticks lets an entry expire between the
check and the reply. In `policy` a depth limit of 2 lets every function call every other one it can, at the limit and beyond it; two
keys let a wrong one hide behind a right one, in either order, and the documents of `Wholes` meet
the checks that relate more keys. One name per snapshot is enough, since items are independent in every
command but `import` and `edit`, which `ParseKV` gives up to two lines for one name; two files
let a command touch the wrong one. Four queries in `sql_logins` fill every buffer at once
(one under way, one in the reader, one at the backend, one answered); two salts are one AuthSwitchRequest.
Symmetry is used only in runs without liveness properties, over names, processes, files, sessions or clients
that the specification does not tell apart. Deadlock is checked except where the system stops by
itself: a connection that is over (`sql_*`) and a path that has come to data (`policy`).

Fairness. `Tunnel!FairSpec` assumes of the watcher what the code schedules: the ticker fires
every two seconds, and a sync, once it has begun, runs to its end in a goroutine
that never blocks (weak fairness of `SyncStart`, `SyncName(n)`, `SyncSweep`). Nothing is
assumed of users, clients or other programs. The liveness properties are
conditional on what the user and the host eventually stop doing (`<>[]` of the flag and of a
free port), because a tunnel toggled for ever is never settled. `SqlTunnel!FairSpec` assumes that
the handler's goroutine runs and that a dial ends and the backend answers what it is sent: the code has no
deadline of its own after the dial, so `LoginEnds` says that no turn leaves both sides waiting, and
nothing about a backend that is silent.

## What is proved

For any number of processes, names, keys, files, connections, messages and cursors; crashes
included. Each module `XProofs` proves about `X`, and MongoProofs about MongoTunnel and MongoPolicy.

**ConnStoreProofs**: `TypeCorrect`, `PortsAlwaysUnique`, `PortsAlwaysInRange`, `NeverOnUnaskedAlways`
and `UnparsableAlwaysKept` (an action property).
The argument is one inductive invariant, `Inv`: the file and every registry in
memory are `Good`, that is typed, with distinct ports, in range when there is room, and on
only where somebody turned it on. `PortsUniqueEverywhere` of the file alone is not inductive: a
command that loaded earlier writes the registry it holds, so the registries in memory must be
in the invariant too. That is also why these properties survive lost updates, which
`OldTokensStayOut` does not: a Good registry stays Good however old it is. Each command maps a
Good registry to a Good one (`AddGood`, `RegenGood`, `RemoveGood`, `SetTunnelGood`), and
`LoadOfSave` says that the file format loses nothing. The port argument is a
pigeonhole (`SomePortFree`, in `ConnectionsProofs`): among Base and as many ports above it as there are
entries, one is free, so the unbounded scan of `allocPort` stops there (`AutoPortFree`).

**ConnStoreSerialProofs**: `CommandsAreAtomicAlways`, the refinement of AtomicRegistry, and
`OldTokensStayOutAlways`. `Alone` says what one command at a time may rely on: what it holds at its save was
computed (`Moved`) from what is still in the file, so the step that starts the save is the
abstract command, and every other step stutters or is the loss of the file. For the tokens, `OldOnes` adds that
nothing in the file or about to be written holds a retired draw.

**TunnelProofs**: `TypeCorrect`, `OnlyDesiredListenAlways`, `NoStaleTokenAlways` and
`OneRegistrationAlways`. Its `Inv` adds what holds in the middle of a sync (`Listening`: a listener
of a name that is off or gone is still to be visited or swept), that generations only grow
(`Grows`), and what a handler holds (`HandlerOK`).

**MongoProofs**, of MongoTunnel: `TypeCorrect`, `AuthFirstAlways`, `WithinLimitsAlways`, `OwnersOnlyAlways`,
`FilteredAlways`, and the action properties `ForgottenForAReasonAlways` and `RenewedOnlyBySuccessAlways`. `Authed`
relates the SCRAM conversation to what the client can prove. `Cursors` says that every entry of the
table, and every request between its check and its reply, agrees with who opened the cursor; it is
inductive because a backend never rewrites what it knows of a cursor (`Kept`) and never opens one
twice (`Worn`), although the entry may be gone, expired or renewed by another
handler meanwhile. `Replies` says that what a handler is about to forget is dead at the backend. `Within` bounds
the table with finite cardinalities, expired entries included.

**MongoProofs**, of MongoPolicy, for any set of values and any `MaxDepth`: `OnlyListedAlways`,
`OnlyPublicMetadataAlways`, `NothingElseReadsAlways`, `EveryCollectionAlways`, `WalkNeverPanicsAlways` and
`DepthAlwaysBounded`. None of the six is inductive: each speaks of a value where it stands, and what keeps it true of
the parts is what the functions above checked. The invariant `PathFits` is a table with one line for each function of the
policy (`Fits`): the one way a mongod may read what the function checks, what the second walk may do
there, and how many values may be around it for the depth the function was given, `3 * depth` plus what the
functions between two increments add, so that the limit on the depth limits the nesting (`Plain`, `Shallow` and `Beyond` say how far
the depth itself may have got). `XParts` proves for the function X that what it accepts hands its parts to functions
whose lines they fit; `SettlingFits` does so for the functions that pass a value on as it is, and
`DescendFits` is one step of a path. A path never meets a value whose kind and keys are not what `NodesAssumption` says: a leaf
has no parts, and those of an array no names.

**SnapshotStoreProofs**: `TypeCorrect`, `SecretsAlways` and `ShownWasAskedAlways`. `Held` says that files and
copies in memory alike are `Sound`: each item under its key, and safe only where somebody asked. Like
`Good`, it does not mind lost updates.

**SnapshotSerialProofs**: `CommandsAreAtomicAlways`, the refinement of AtomicSnapshots, and
`RevokedStaysHiddenAlways`, along the lines of the registry (`Alone`, `Hidden`).

**SqlTunnelProofs**: `TypeCorrect`, `QueriesInOrderAlways`, `AnsweredIsDeliveredAlways`,
`RelayedAfterLoginAlways`, `SessionTrafficAlways`, `AnswersInOrderAlways` and `RelaysASessionAlways`, the
refinement of RelayedSession. `InOrder` says of the queue `Waiting` (request in flight, client's
reader, client's socket, joined) that it ends with exactly the queries the backend has not got, in order
(`Ord`), and that before the relay nothing of the client is at the backend. `Ended` says why a connection is over. `Entry`
says that a backend that has not let the connection in has not sent a message that says so,
and follows the commands of a Redis login one by one (`RedisTurn`). `Traffic` adds what
`RedisMySQLSessionTraffic` needs: the message that lets a MySQL or Redis connection in is the last one of its
login (`OkIsLast`), and no other message of a login is left where `splice` could take it.
`Answering` says of the answers under way what `InOrder` says of the queries: what the client has, `splice` holds and
the backend has sent, joined, ends with the answers to exactly what was served. The refinement
counts them: every step changes the four counters of the pipeline by what one of its actions allows (`Moves`),
and `Counted` equates those counters with the cardinalities of its mapping.

Assumptions, all named in the modules that declare the constants: names and scopes are finitely many, Base is
at least 1, the sentinels (NoEntry, NoCmd, Absent, Torn, NoItem, ...) are not among the values they stand apart from, requested
ports are integers, limits are naturals and leave room for one cursor, the file
`serve` starts with holds only tokens drawn earlier, and the serial modules have one process. TLC evaluates them in the runs.

Only model-checked: the liveness properties `OffCloses`, `OnOpens` and `LoginEnds` (liveness under fairness and
ENABLED are outside the prover). The policy is recursive over documents; it can be proved about because
MongoPolicy descends one path instead, so that no induction over data is needed.

## Findings

- **A replaced token can come back.** `RegenToken`'s comment says that the old token stops
  working immediately. A command that loaded db.json before the regen saved (`db on` of
  another connection is enough) writes the old entry back afterwards. Run `store_lost_update`
  shows the shortest case; `store_serial` shows that it needs two commands at once.
- **An accept loop that ends is never restarted.** `acceptLoop` returns on any error of `Accept`;
  the listener stays in `active`, and each later sync takes the name for served. Run
  `tunnel_accept_dies`.
- **The PostgreSQL relay carries the end of the handler's login.** The comment above
  `handlePostgres` says that the relay carries only the session traffic that follows. `pgAuthenticate`
  stops at AuthenticationOk: ParameterStatus and ReadyForQuery that arrive later reach a client that
  already got its own. Run `sql_postgres_relay`; `sql_logins` shows that Redis and MySQL have nothing like it.

Modelled, and not called findings because nothing in the repository promises otherwise: a
`set` that loaded the snapshot before `mark --secret` saved brings the mark back (which is why
`RevokedStaysHidden` is a property of one command at a time); an import of a repeated key classifies it by its first line; after an
AuthSwitchRequest the MySQL full authentication uses the salt of the first greeting, and is
refused; an edit overwrites what changed since the editor was opened; a re-registration within one tick keeps the
listener on its old port.

## Not modelled

- The reply filter of the MongoDB policy: tables of fields that are copied, compared with nothing but themselves.
  Ranges, names of types and other leaves of the policy are kinds of values; sessions, read preferences and
  concerns of a command are left out.
- The MySQL sha256_password exchange: the README of the program names the two other plugins.
- Deadlines of the operating system, and the wait of a client whose backend is silent.
- The key store: a check and a set of one value. What the rest of the program sees of it,
  a key that is another one from one step to the next, is in ConnStore, Tunnel and SnapshotStore.
- Named AES keys: one more load, change and save without a lock; no reader relies on more than the file.
- The bridge: stateless requests that load snapshots and print only safe values; its counter only delays answers.
- Token checks, static files and the requests on keys of the UI server; flags, `encrypt` and
  `decrypt` of the CLI.
- Byte-level parsing (wire formats, RESP, BSON, `ParseKV`, the rules of what is sensitive), ciphers, help texts,
  translations, the web page, packaging: stateless, or without a promise a model could break.
