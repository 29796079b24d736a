---------------------------- MODULE SnapshotStore ----------------------------
(***************************************************************************)
(* Snapshots: the commands of the CLI (internal/cli/cli.go) and of the UI  *)
(* server (internal/ui/ui.go) on the encrypted files of internal/apollo,   *)
(* through internal/app/snapshot.go.                                       *)
(*                                                                         *)
(* There is no lock: a command loads a file, works on its copy and writes  *)
(* the copy back, and commands of other processes run in between.  A value *)
(* is a model value; Sensitive stands for what IsSensitiveKeyValue says of it. *)
(***************************************************************************)
EXTENDS Integers, Sequences, FiniteSets

CONSTANTS
  Procs,      \* CLI commands and UI requests running at the same time
  Refs,       \* environment and App ID: one file each
  Names,      \* keys of a snapshot
  Values,
  Sensitive,  \* pairs of a name and a value that IsSensitiveKeyValue holds of
  MaxKey,     \* bound: how often a key is regenerated
  Absent, Torn, NoItem, NoCmd, NoText

ASSUME SensitiveAssumption == Sensitive \subseteq Names \X Values
ASSUME MaxKeyAssumption == MaxKey \in Nat \ {0}

VARIABLES
  disk,     \* each file: a snapshot, Absent, or Torn, which does not parse
  ring,     \* the two keys of the platform key store
  pc, cmd, keys, mem, text, \* each process: its step, its command, the keys it
                            \* read at its start, its snapshot, the edited text
  asked,    \* history: where somebody ever asked for --plain
  revoked   \* history: where --secret returned, and no --plain since

local == <<pc, cmd, keys, mem, text>>
vars == <<disk, ring, local, asked, revoked>>

Kinds == {"snap", "sens"}
KeyIds == Kinds \X (1 .. MaxKey)
KeyPair == [Kinds -> 1 .. MaxKey]
Item == [val : Values, key : KeyIds, secret : BOOLEAN, safe : BOOLEAN]
Snapshot == [Names -> Item \cup {NoItem}]
Parsable(f) == f \notin {Absent, Torn}

\* Who runs a command: a script, a person at a terminal, the page of the UI.
Origins == {"pipe", "tty", "page"}
Flags == {"none", "plain", "secret"}

\* Text to import: the values of each name, in the order of its lines.
Lines == {<<>>} \cup {<<v>> : v \in Values} \cup {<<v, w>> : v, w \in Values}
Texts == [Names -> Lines]
Blank(t) == \A k \in Names : t[k] = <<>>

\* The commands of the CLI, and the requests of the page.
SetCmds     == [op : {"set"}, ref : Refs, by : {"pipe", "tty"}, k : Names, v : Values,
                flag : Flags]
UpdateItems == [op : {"set"}, ref : Refs, by : {"page"}, k : Names, v : Values, flag : Flags]
MarkCmds    == [op : {"mark"}, ref : Refs, by : {"pipe", "tty"}, k : Names,
                flag : {"plain", "secret"}]
UnsetCmds   == [op : {"unset"}, ref : Refs, by : {"pipe", "tty"}, k : Names]
DeleteItems == [op : {"unset"}, ref : Refs, by : {"page"}, k : Names]
ImportCmds  == [op : {"import"}, ref : Refs, by : {"pipe", "tty"}, text : Texts, force : BOOLEAN]
Creations   == [op : {"import"}, ref : Refs, by : {"page"}, text : Texts, force : {FALSE}]
EditCmds    == [op : {"edit"}, ref : Refs, by : {"tty"}]
PageEdits   == [op : {"edit"}, ref : Refs, by : {"page"}]
RmCmds      == [op : {"rm"}, ref : Refs, by : {"pipe", "tty"}]
Removals    == [op : {"rm"}, ref : Refs, by : {"page"}]

Commands == SetCmds \cup UpdateItems \cup MarkCmds \cup UnsetCmds \cup DeleteItems
            \cup ImportCmds \cup Creations \cup EditCmds \cup PageEdits
            \cup RmCmds \cup Removals

ASSUME SentinelsAssumption ==
  /\ Absent # Torn /\ Absent \notin Snapshot /\ Torn \notin Snapshot
  /\ NoItem \notin Item /\ NoText \notin Texts /\ NoCmd \notin Commands

-----------------------------------------------------------------------------
(* Items: encryption, decryption, Set and ParseKV's list applied by Set.   *)

\* Variant: a sensitive item is sealed with the snapshot key.
SealWithSnapshotKey(v, secret, safe, kp) ==
  [val |-> v, key |-> <<"snap", kp["snap"]>>, secret |-> secret, safe |-> safe]

Seal(v, secret, safe, kp) ==
  LET kind == IF secret THEN "sens" ELSE "snap" IN
  [val |-> v, key |-> <<kind, kp[kind]>>, secret |-> secret, safe |-> safe]

\* Old snapshots have sensitive items under the snapshot key.
Readable(it, kp) ==
  \/ it.key = <<"snap", kp["snap"]>>
  \/ it.secret /\ it.key = <<"sens", kp["sens"]>>
AllReadable(s, kp) == \A k \in Names : s[k] # NoItem => Readable(s[k], kp)

\* Without a flag the classification of an existing item is kept.
SetItem(s, k, v, flag, kp) ==
  LET secret == IF flag # "none" THEN flag = "secret"
                ELSE IF s[k] # NoItem THEN s[k].secret ELSE <<k, v>> \in Sensitive
      safe == IF flag # "none" THEN flag = "plain" ELSE s[k] # NoItem /\ s[k].safe
  IN [s EXCEPT ![k] = Seal(v, secret, safe, kp)]

\* A new snapshot, set line by line: a later line of a name replaces the value
\* and keeps the classification of the first.
FromText(t, kp) ==
  [k \in Names |->
     IF t[k] = <<>> THEN NoItem
     ELSE Seal(t[k][Len(t[k])], <<k, t[k][1]>> \in Sensitive, FALSE, kp)]

\* EditLoad: one line for each item.
ToText(s) == [k \in Names |-> IF s[k] = NoItem THEN <<>> ELSE <<s[k].val>>]

\* guardPlainMark: scripts may not mark what looks sensitive; a person is asked.
GuardRefuses(by, k, v) == by = "pipe" /\ <<k, v>> \in Sensitive

-----------------------------------------------------------------------------
(* Readers: where each of them prints a plaintext to a script or to the    *)
(* page.  Each loads a file once.  --reveal and the page's plaintext       *)
(* requests need a terminal or a UI started for them.                      *)

SafeNames(s) == {k \in Names : s[k] # NoItem /\ s[k].safe}

\* apollo list: nothing when an item fails.
ListShows(r) ==
  {<<r, k>> : k \in IF Parsable(disk[r]) /\ AllReadable(disk[r], ring)
                    THEN SafeNames(disk[r]) ELSE {}}

\* The page's view of a snapshot: VisibleItems fails with any of its items.
PageShows(r) ==
  IF ~Parsable(disk[r]) \/ ~AllReadable(disk[r], ring) THEN {}
  ELSE {r} \X SafeNames(disk[r])

\* apollo get, one item.
GetShows(r) ==
  IF ~Parsable(disk[r]) THEN {}
  ELSE {<<r, k>> : k \in {j \in SafeNames(disk[r]) : Readable(disk[r][j], ring)}}

\* The page's table of many snapshots: a file that does not load fails it, an item
\* that does not open has no value (compareValue).
MultiShows(R) ==
  IF \E r \in R : ~Parsable(disk[r]) THEN {} ELSE UNION {GetShows(r) : r \in R}

\* The page's row of one key: files that do not load are left out.
KeyShows(k) == (UNION {GetShows(r) : r \in Refs}) \cap (Refs \X {k})

\* Variant: a changed value is shown when either side is safe.
CompareShowsEither(r, q) ==
  LET a == disk[r]  b == disk[q] IN
  IF ~Parsable(a) \/ ~Parsable(b) THEN {}
  ELSE IF ~AllReadable(a, ring) \/ ~AllReadable(b, ring) THEN {}
  ELSE LET both == {k \in Names : a[k] # NoItem /\ b[k] # NoItem} IN
       {<<r, k>> : k \in SafeNames(a) \ both} \cup {<<q, k>> : k \in SafeNames(b) \ both}
       \cup {r, q} \X {k \in both : a[k].val # b[k].val /\ (a[k].safe \/ b[k].safe)}

\* apollo compare, and the page's compare, through Diff: a name on one side only,
\* or values that differ and are both safe.
CompareShows(r, q) ==
  LET a == disk[r]  b == disk[q] IN
  IF ~Parsable(a) \/ ~Parsable(b) THEN {}
  ELSE IF ~AllReadable(a, ring) \/ ~AllReadable(b, ring) THEN {}
  ELSE LET both == {k \in Names : a[k] # NoItem /\ b[k] # NoItem} IN
       {<<r, k>> : k \in SafeNames(a) \ both} \cup {<<q, k>> : k \in SafeNames(b) \ both}
       \cup {r, q} \X {k \in both : a[k].val # b[k].val /\ a[k].safe /\ b[k].safe}

Shown ==
  (UNION {ListShows(r) \cup PageShows(r) \cup GetShows(r) : r \in Refs})
  \cup (UNION {CompareShows(r, q) : r, q \in Refs})
  \cup (UNION {MultiShows(R) : R \in SUBSET Refs}) \cup (UNION {KeyShows(k) : k \in Names})

-----------------------------------------------------------------------------
(* Commands.                                                               *)

\* Snapshots written before there was a sensitive key.
OldItem(k, v) == [val |-> v, key |-> <<"snap", 1>>, secret |-> <<k, v>> \in Sensitive,
                  safe |-> FALSE]

Init ==
  /\ disk \in [Refs -> {Absent} \cup
       {[k \in Names |-> OldItem(k, v)] : v \in Values}]
  /\ ring = [kind \in Kinds |-> 1]
  /\ pc = [p \in Procs |-> "idle"]
  /\ cmd = [p \in Procs |-> NoCmd]
  /\ keys = [p \in Procs |-> [kind \in Kinds |-> 1]]
  /\ mem = [p \in Procs |-> Absent]
  /\ text = [p \in Procs |-> NoText]
  /\ asked = {}
  /\ revoked = {}

FirstStep(c) ==
  CASE c.op = "import" -> IF c.force THEN "load" ELSE "stat"
    [] c.op = "rm" -> "stat"
    [] c.op = "edit" -> "open"
    [] c.op = "mark" -> IF c.flag = "plain" THEN "guard" ELSE "load"
    [] OTHER -> "load"

Refused(c) ==
  \/ c.op = "import" /\ Blank(c.text)
  \/ c.op = "set" /\ c.flag = "plain" /\ GuardRefuses(c.by, c.k, c.v)

\* The command line or the request is checked, and both keys are read.
Begin(p, c) ==
  /\ pc[p] = "idle" /\ ~Refused(c)
  /\ pc' = [pc EXCEPT ![p] = FirstStep(c)]
  /\ cmd' = [cmd EXCEPT ![p] = c]
  /\ keys' = [keys EXCEPT ![p] = ring]
  /\ asked' = IF c.op \in {"set", "mark"} /\ c.flag = "plain"
              THEN asked \cup {<<c.ref, c.k>>} ELSE asked
  /\ UNCHANGED <<disk, ring, mem, text, revoked>>

\* createSnapshot and editApply read the keys later.
CmdKeys(p) ==
  IF cmd[p].by = "page" /\ cmd[p].op \in {"import", "edit"} THEN ring ELSE keys[p]

Goto(p, step) == pc' = [pc EXCEPT ![p] = step]

\* The command ends, or its process dies.
Leave(p) ==
  /\ Goto(p, "idle")
  /\ cmd' = [cmd EXCEPT ![p] = NoCmd]
  /\ mem' = [mem EXCEPT ![p] = Absent]
  /\ text' = [text EXCEPT ![p] = NoText]
  /\ UNCHANGED <<keys, ring, asked>>

File(p) == disk[cmd[p].ref]

Fail(p) == Leave(p) /\ UNCHANGED <<disk, revoked>>

\* Is the file there?  A person at a terminal may let an import replace it; a
\* script and the page get an error.
StatImport(p) ==
  /\ pc[p] = "stat" /\ cmd[p].op = "import"
  /\ \/ /\ File(p) = Absent \/ cmd[p].by = "tty"
        /\ Goto(p, "load") /\ UNCHANGED <<disk, ring, cmd, keys, mem, text, asked, revoked>>
     \/ File(p) # Absent /\ Fail(p)

StatRemove(p) ==
  /\ pc[p] = "stat" /\ cmd[p].op = "rm"
  /\ IF File(p) = Absent THEN Fail(p)
     ELSE Goto(p, "remove") /\ UNCHANGED <<disk, ring, cmd, keys, mem, text, asked, revoked>>

RemoveFile(p) ==
  /\ pc[p] = "remove"
  /\ disk' = [disk EXCEPT ![cmd[p].ref] = Absent]
  /\ Leave(p) /\ UNCHANGED revoked

\* mark --plain looks at the value first; MarkValue will load it again.
Guard(p) ==
  /\ pc[p] = "guard"
  /\ IF \/ ~Parsable(File(p))
        \/ /\ File(p)[cmd[p].k] # NoItem
           /\ \/ ~Readable(File(p)[cmd[p].k], keys[p])
              \/ GuardRefuses(cmd[p].by, cmd[p].k, File(p)[cmd[p].k].val)
     THEN Fail(p)
     ELSE Goto(p, "load") /\ UNCHANGED <<disk, ring, cmd, keys, mem, text, asked, revoked>>

\* The text in the editor: at most one name is changed in it.
OpenEditor(p) ==
  /\ pc[p] = "open"
  /\ IF ~Parsable(File(p)) THEN Fail(p)
     ELSE IF ~AllReadable(File(p), keys[p]) THEN Fail(p)
     ELSE \E k \in Names, l \in Lines :
            /\ text' = [text EXCEPT ![p] = [ToText(File(p)) EXCEPT ![k] = l]]
            /\ Goto(p, "load")
            /\ UNCHANGED <<disk, ring, cmd, keys, mem, asked, revoked>>

Computed(p, s) ==
  /\ mem' = [mem EXCEPT ![p] = s]
  /\ Goto(p, "truncate")
  /\ UNCHANGED <<disk, ring, cmd, keys, text, asked, revoked>>

ComputeImport(p) ==
  /\ pc[p] = "load" /\ cmd[p].op = "import"
  /\ Computed(p, FromText(cmd[p].text, CmdKeys(p)))

\* EditApply loads the file for its name only, and writes what the text says.
ComputeEdit(p) ==
  /\ pc[p] = "load" /\ cmd[p].op = "edit"
  /\ IF ~Parsable(File(p)) \/ Blank(text[p]) THEN Fail(p)
     ELSE Computed(p, FromText(text[p], CmdKeys(p)))

\* Variant: text that does not parse is an empty snapshot.
ComputeSetTornAsEmpty(p) ==
  /\ pc[p] = "load" /\ cmd[p].op = "set"
  /\ IF File(p) = Absent THEN Fail(p)
     ELSE Computed(p, SetItem(IF File(p) = Torn THEN [k \in Names |-> NoItem] ELSE File(p),
                              cmd[p].k, cmd[p].v, cmd[p].flag, keys[p]))

ComputeSet(p) ==
  /\ pc[p] = "load" /\ cmd[p].op = "set"
  /\ IF ~Parsable(File(p)) THEN Fail(p)
     ELSE Computed(p, SetItem(File(p), cmd[p].k, cmd[p].v, cmd[p].flag, keys[p]))

\* Variant: a mark is given once.
ComputeMarkOnce(p) ==
  /\ pc[p] = "load" /\ cmd[p].op = "mark"
  /\ IF ~Parsable(File(p)) THEN Fail(p)
     ELSE LET it == File(p)[cmd[p].k] IN
          IF it = NoItem THEN Fail(p)
          ELSE IF ~Readable(it, keys[p]) THEN Fail(p)
          ELSE Computed(p, SetItem(File(p), cmd[p].k, it.val,
                                   IF it.safe THEN "none" ELSE cmd[p].flag, keys[p]))

ComputeMark(p) ==
  /\ pc[p] = "load" /\ cmd[p].op = "mark"
  /\ IF ~Parsable(File(p)) THEN Fail(p)
     ELSE LET it == File(p)[cmd[p].k] IN
          IF it = NoItem THEN Fail(p)
          ELSE IF ~Readable(it, keys[p]) THEN Fail(p)
          ELSE Computed(p, SetItem(File(p), cmd[p].k, it.val, cmd[p].flag, keys[p]))

\* Variant: DeleteValue saves whatever Load and Delete returned.
ComputeUnsetUnchecked(p) ==
  /\ pc[p] = "load" /\ cmd[p].op = "unset"
  /\ Computed(p, IF Parsable(File(p)) THEN [File(p) EXCEPT ![cmd[p].k] = NoItem] ELSE File(p))

ComputeUnset(p) ==
  /\ pc[p] = "load" /\ cmd[p].op = "unset"
  /\ IF ~Parsable(File(p)) THEN Fail(p)
     ELSE IF File(p)[cmd[p].k] = NoItem THEN Fail(p)
     ELSE Computed(p, [File(p) EXCEPT ![cmd[p].k] = NoItem])

\* Save: os.WriteFile empties the file, then writes.
Truncate(p) ==
  /\ pc[p] = "truncate"
  /\ disk' = [disk EXCEPT ![cmd[p].ref] = Torn]
  /\ Goto(p, "write")
  /\ UNCHANGED <<ring, cmd, keys, mem, text, asked, revoked>>

\* The bytes of another command may have landed since, and stick out.
Write(p) ==
  /\ pc[p] = "write"
  /\ \E f \in {mem[p]} \cup (IF File(p) = Torn THEN {} ELSE {Torn}) :
       disk' = [disk EXCEPT ![cmd[p].ref] = f]
  /\ revoked' =
       IF cmd[p].op \notin {"set", "mark"} THEN revoked
       ELSE LET at == {<<cmd[p].ref, cmd[p].k>>} IN
            CASE cmd[p].flag = "secret" -> revoked \cup at
              [] cmd[p].flag = "plain" -> revoked \ at
              [] OTHER -> revoked
  /\ Leave(p)

\* The process dies at any step.
Crash(p) == pc[p] # "idle" /\ Fail(p)

\* apollo init --force, sensitive init --force.
Regenerate(kind) ==
  /\ ring[kind] < MaxKey
  /\ ring' = [ring EXCEPT ![kind] = @ + 1]
  /\ UNCHANGED <<disk, local, asked, revoked>>

Step(p) ==
  \/ StatImport(p) \/ StatRemove(p) \/ RemoveFile(p) \/ Guard(p) \/ OpenEditor(p)
  \/ ComputeImport(p) \/ ComputeEdit(p) \/ ComputeSet(p) \/ ComputeMark(p) \/ ComputeUnset(p)
  \/ Truncate(p) \/ Write(p) \/ Crash(p)

Next ==
  \/ \E p \in Procs : (\E c \in Commands : Begin(p, c)) \/ Step(p)
  \/ \E kind \in Kinds : Regenerate(kind)

Spec == Init /\ [][Next]_vars

-----------------------------------------------------------------------------
Steps == {"idle", "stat", "remove", "guard", "open", "load", "truncate", "write"}

TypeOK ==
  /\ disk \in [Refs -> Snapshot \cup {Absent, Torn}]
  /\ ring \in KeyPair
  /\ pc \in [Procs -> Steps]
  /\ cmd \in [Procs -> Commands \cup {NoCmd}]
  /\ \A p \in Procs : (pc[p] = "idle") <=> (cmd[p] = NoCmd)
  /\ keys \in [Procs -> KeyPair]
  /\ mem \in [Procs -> Snapshot \cup {Absent}]
  /\ \A p \in Procs : pc[p] \in {"truncate", "write"} => mem[p] \in Snapshot
  /\ text \in [Procs -> Texts \cup {NoText}]
  /\ asked \subseteq Refs \X Names
  /\ revoked \subseteq Refs \X Names

\* "Only keys explicitly marked safe print plaintext": whatever commands overlap
\* or die, no reader shows a script or the page a value where nobody ever asked
\* for --plain (maskedFor, VisibleItems, Diff, compareValue).
ShownWasAsked == Shown \subseteq asked

\* "Revoke the allowlist": once --secret returned, no reader shows the value to a
\* script or the page until --plain is asked for again (Set keeps the flag of an
\* item it rewrites; an import and an edit reset it).
RevokedStaysHidden == Shown \cap revoked = {}

\* Revealing a secret item takes the sensitive key: only items of old snapshots,
\* never shown as safe, are under the snapshot key (DecryptItem's fallback).
SecretsUnderSensitiveKey ==
  \A r \in Refs : Parsable(disk[r]) => \A k \in Names :
    LET it == disk[r][k] IN
    it # NoItem =>
      /\ it.secret /\ it.key[1] = "snap" => it = OldItem(k, it.val)
      /\ ~it.secret => it.key[1] = "snap"
=============================================================================
