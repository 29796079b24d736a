-------------------------- MODULE SnapshotStoreProofs --------------------------
(***************************************************************************)
(* Theorems of SnapshotStore: for any number of processes, files, names    *)
(* and values, and whatever commands overlap or die.                       *)
(***************************************************************************)
EXTENDS SnapshotStore, TLAPS

-----------------------------------------------------------------------------
(* The operators on items and texts.                                       *)

LEMMA LinesHaveEnds ==
  ASSUME NEW l \in Lines, l # <<>>
  PROVE  l[1] \in Values /\ l[Len(l)] \in Values
<1>1. CASE \E v \in Values : l = <<v>>
  BY <1>1
<1>2. CASE \E v, w \in Values : l = <<v, w>>
  BY <1>2
<1> QED
  BY <1>1, <1>2 DEF Lines

LEMMA SealFacts ==
  ASSUME NEW v \in Values, NEW secret \in BOOLEAN, NEW safe \in BOOLEAN, NEW kp \in KeyPair
  PROVE  /\ Seal(v, secret, safe, kp) \in Item
         /\ Seal(v, secret, safe, kp).secret = secret
         /\ Seal(v, secret, safe, kp).safe = safe
         /\ Seal(v, secret, safe, kp).key[1] = IF secret THEN "sens" ELSE "snap"
<1> DEFINE kind == IF secret THEN "sens" ELSE "snap"
<1>1. kind \in Kinds
  BY DEF Kinds
<1>2. <<kind, kp[kind]>> \in KeyIds
  BY <1>1 DEF KeyIds, KeyPair
<1>3. Seal(v, secret, safe, kp) =
        [val |-> v, key |-> <<kind, kp[kind]>>, secret |-> secret, safe |-> safe]
  BY DEF Seal
<1>4. <<kind, kp[kind]>>[1] = kind
  OBVIOUS
<1> HIDE DEF kind
<1>5. Seal(v, secret, safe, kp) \in Item
  BY <1>2, <1>3 DEF Item
<1> QED
  BY <1>3, <1>4, <1>5 DEF kind

\* What is said of an item of name k: under which key it is.
UnderItsKey(it, k) ==
  /\ it.secret /\ it.key[1] = "snap" => it = OldItem(k, it.val)
  /\ ~it.secret => it.key[1] = "snap"

\* The snapshot s has its items under their keys, and only those of S are safe.
Sound(s, S) ==
  \A k \in Names : s[k] # NoItem => UnderItsKey(s[k], k) /\ (s[k].safe => k \in S)

LEMMA SetItemFacts ==
  ASSUME NEW s \in Snapshot, NEW k \in Names, NEW v \in Values, NEW flag \in Flags,
         NEW kp \in KeyPair, NEW S, Sound(s, S), flag = "plain" => k \in S
  PROVE  SetItem(s, k, v, flag, kp) \in Snapshot /\ Sound(SetItem(s, k, v, flag, kp), S)
<1> DEFINE secret == IF flag # "none" THEN flag = "secret"
                     ELSE IF s[k] # NoItem THEN s[k].secret ELSE <<k, v>> \in Sensitive
           safe == IF flag # "none" THEN flag = "plain" ELSE s[k] # NoItem /\ s[k].safe
           it == Seal(v, secret, safe, kp)
<1>1. s[k] # NoItem => s[k].secret \in BOOLEAN /\ s[k].safe \in BOOLEAN
  BY DEF Snapshot, Item
<1>2. secret \in BOOLEAN
  <2>1. CASE flag # "none"
    BY <2>1
  <2>2. CASE flag = "none" /\ s[k] # NoItem
    BY <1>1, <2>2
  <2>3. CASE flag = "none" /\ s[k] = NoItem
    BY <2>3
  <2> QED
    BY <2>1, <2>2, <2>3
<1>8. safe \in BOOLEAN
  <2>1. CASE flag # "none"
    BY <2>1
  <2>2. CASE flag = "none"
    BY <2>2
  <2> QED
    BY <2>1, <2>2
<1>3. safe => k \in S
  BY DEF Sound
<1>4. SetItem(s, k, v, flag, kp) = [s EXCEPT ![k] = it]
  BY DEF SetItem
<1> HIDE DEF secret, safe
<1>5. it \in Item /\ UnderItsKey(it, k) /\ it.safe = safe
  BY <1>2, <1>8, SealFacts DEF UnderItsKey
<1> HIDE DEF it
<1>6. [s EXCEPT ![k] = it] \in Snapshot
  BY <1>5 DEF Snapshot
<1>7. Sound([s EXCEPT ![k] = it], S)
  BY <1>3, <1>5 DEF Sound, Snapshot
<1> QED
  BY <1>4, <1>6, <1>7

LEMMA FromTextFacts ==
  ASSUME NEW t \in Texts, NEW kp \in KeyPair, NEW S
  PROVE  FromText(t, kp) \in Snapshot /\ Sound(FromText(t, kp), S)
<1>1. ASSUME NEW k \in Names, t[k] # <<>>
      PROVE  LET it == Seal(t[k][Len(t[k])], <<k, t[k][1]>> \in Sensitive, FALSE, kp) IN
             it \in Item /\ UnderItsKey(it, k) /\ it.safe = FALSE
  <2>1. t[k] \in Lines
    BY DEF Texts
  <2>2. t[k][Len(t[k])] \in Values
    BY <1>1, <2>1, LinesHaveEnds
  <2> DEFINE secret == <<k, t[k][1]>> \in Sensitive
             v == t[k][Len(t[k])]
  <2>3. secret \in BOOLEAN
    OBVIOUS
  <2> HIDE DEF secret, v
  <2>4. LET it == Seal(v, secret, FALSE, kp) IN
        it \in Item /\ UnderItsKey(it, k) /\ it.safe = FALSE
    <3> DEFINE no == FALSE
               it == Seal(v, secret, no, kp)
    <3>1. v \in Values /\ no \in BOOLEAN
      BY <2>2 DEF v
    <3> HIDE DEF no
    <3>2. /\ it \in Item /\ it.secret = secret /\ it.safe = no
          /\ it.key[1] = IF secret THEN "sens" ELSE "snap"
      BY <2>3, <3>1, SealFacts
    <3> HIDE DEF it
    <3>3. UnderItsKey(it, k)
      BY <3>2 DEF UnderItsKey
    <3> QED
      BY <3>2, <3>3 DEF it, no
  <2> QED
    BY <2>4 DEF secret, v
<1> QED
  BY <1>1 DEF FromText, Snapshot, Sound

LEMMA DeleteFacts ==
  ASSUME NEW s \in Snapshot, NEW k \in Names, NEW S, Sound(s, S)
  PROVE  [s EXCEPT ![k] = NoItem] \in Snapshot /\ Sound([s EXCEPT ![k] = NoItem], S)
BY DEF Snapshot, Sound

LEMMA CommandFacts ==
  ASSUME NEW c \in Commands
  PROVE  /\ c.ref \in Refs
         /\ c.op = "set" => c.k \in Names /\ c.v \in Values /\ c.flag \in Flags
         /\ c.op = "mark" => c.k \in Names /\ c.flag \in Flags
         /\ c.op = "unset" => c.k \in Names
         /\ c.op = "import" => c.text \in Texts
BY DEF Commands, SetCmds, UpdateItems, MarkCmds, UnsetCmds, DeleteItems, ImportCmds,
       Creations, EditCmds, PageEdits, RmCmds, Removals, Flags

-----------------------------------------------------------------------------
(* The invariant.                                                          *)

At(a, r) == {k \in Names : <<r, k>> \in a}

\* What is on disk, what a command is about to write, and what a command was asked.
Held ==
  /\ \A r \in Refs : Parsable(disk[r]) => Sound(disk[r], At(asked, r))
  /\ \A p \in Procs : pc[p] \in {"truncate", "write"} =>
       Sound(mem[p], At(asked, cmd[p].ref))
  /\ \A p \in Procs : cmd[p] # NoCmd /\ cmd[p].op \in {"set", "mark"} /\ cmd[p].flag = "plain" =>
       cmd[p].k \in At(asked, cmd[p].ref)
  \* Only a mark looks at the value; an edit has its text from the editor on.
  /\ \A p \in Procs : pc[p] = "guard" => cmd[p].op = "mark"
  /\ \A p \in Procs : pc[p] = "load" /\ cmd[p].op = "edit" => text[p] \in Texts

Inv == TypeOK /\ Held

LEMMA SoundMore ==
  ASSUME NEW s \in Snapshot, NEW S, NEW T, Sound(s, S), S \subseteq T
  PROVE  Sound(s, T)
BY DEF Sound

\* A step of one process that leaves the files and the history alone.
LEMMA OtherSteps ==
  ASSUME Inv, NEW p \in Procs, UNCHANGED <<disk, ring, keys, asked, revoked>>,
         pc' \in [Procs -> Steps], cmd' \in [Procs -> Commands \cup {NoCmd}],
         mem' \in [Procs -> Snapshot \cup {Absent}], text' \in [Procs -> Texts \cup {NoText}],
         \A q \in Procs \ {p} : /\ pc'[q] = pc[q] /\ cmd'[q] = cmd[q]
                               /\ mem'[q] = mem[q] /\ text'[q] = text[q],
         cmd'[p] \in {cmd[p], NoCmd}, (pc'[p] = "idle") <=> (cmd'[p] = NoCmd),
         pc'[p] # "guard",
         pc'[p] \in {"truncate", "write"} =>
           mem'[p] \in Snapshot /\ Sound(mem'[p], At(asked, cmd'[p].ref)),
         pc'[p] = "load" /\ cmd'[p].op = "edit" => text'[p] \in Texts
  PROVE  Inv'
<1>1. TypeOK'
  BY DEF Inv, TypeOK
<1>2. \A r : At(asked', r) = At(asked, r)
  BY DEF At
<1>3. \A r \in Refs : Parsable(disk'[r]) => Sound(disk'[r], At(asked', r))
  BY <1>2 DEF Inv, Held, Parsable
<1>4. \A q \in Procs : pc'[q] \in {"truncate", "write"} =>
        Sound(mem'[q], At(asked', cmd'[q].ref))
  BY <1>2 DEF Inv, Held
<1>5. \A q \in Procs : cmd'[q] # NoCmd /\ cmd'[q].op \in {"set", "mark"}
        /\ cmd'[q].flag = "plain" => cmd'[q].k \in At(asked', cmd'[q].ref)
  BY <1>2 DEF Inv, Held
<1>6. /\ \A q \in Procs : pc'[q] = "guard" => cmd'[q].op = "mark"
      /\ \A q \in Procs : pc'[q] = "load" /\ cmd'[q].op = "edit" => text'[q] \in Texts
  BY DEF Inv, Held
<1>7. Held'
  BY <1>3, <1>4, <1>5, <1>6 DEF Held
<1> QED
  BY <1>1, <1>7 DEF Inv

LEMMA FileSnapshot ==
  ASSUME Inv, NEW p \in Procs, pc[p] # "idle", Parsable(File(p))
  PROVE  /\ cmd[p] \in Commands /\ File(p) \in Snapshot
         /\ Sound(File(p), At(asked, cmd[p].ref))
<1>1. cmd[p] \in Commands
  BY DEF Inv, TypeOK
<1>2. cmd[p].ref \in Refs
  BY <1>1, CommandFacts
<1> QED
  BY <1>1, <1>2 DEF Inv, TypeOK, Held, File, Parsable

LEMMA FailStep ==
  ASSUME Inv, NEW p \in Procs, Fail(p)
  PROVE  Inv'
<1>1. "idle" \in Steps
  BY DEF Steps
<1> QED
  BY <1>1, OtherSteps DEF Fail, Leave, Goto, Inv, TypeOK

\* A step to the next point of the command, nothing else.
LEMMA GotoStep ==
  ASSUME Inv, NEW p \in Procs, NEW q \in {"load", "remove"}, Goto(p, q), pc[p] # "idle",
         q = "load" => cmd[p].op # "edit",
         UNCHANGED <<disk, ring, cmd, keys, mem, text, asked, revoked>>
  PROVE  Inv'
<1>1. q \in Steps /\ q \notin {"idle", "guard", "truncate", "write"}
  BY DEF Steps
<1> QED
  BY <1>1, OtherSteps DEF Goto, Inv, TypeOK

\* A command has worked out what it will write.
LEMMA ComputedStep ==
  ASSUME Inv, NEW p \in Procs, pc[p] # "idle", NEW s \in Snapshot,
         Sound(s, At(asked, cmd[p].ref)), Computed(p, s)
  PROVE  Inv'
<1>1. "truncate" \in Steps
  BY DEF Steps
<1> QED
  BY <1>1, OtherSteps DEF Computed, Goto, Inv, TypeOK

LEMMA KeysType ==
  ASSUME Inv, NEW p \in Procs
  PROVE  keys[p] \in KeyPair /\ CmdKeys(p) \in KeyPair
BY DEF Inv, TypeOK, CmdKeys

LEMMA BeginStep ==
  ASSUME Inv, NEW p \in Procs, NEW c \in Commands, Begin(p, c)
  PROVE  Inv'
<1>1. /\ pc[p] = "idle" /\ cmd[p] = NoCmd
      /\ pc' = [pc EXCEPT ![p] = FirstStep(c)] /\ cmd' = [cmd EXCEPT ![p] = c]
      /\ keys' = [keys EXCEPT ![p] = ring]
      /\ UNCHANGED <<disk, ring, mem, text, revoked>>
  BY DEF Begin, Inv, TypeOK
<1>2. /\ FirstStep(c) \in {"load", "stat", "open", "guard"}
      /\ FirstStep(c) = "guard" => c.op = "mark"
      /\ FirstStep(c) = "load" => c.op # "edit"
  BY DEF FirstStep
<1>3. c # NoCmd
  BY SentinelsAssumption
<1>4. asked' \subseteq Refs \X Names
  BY CommandFacts DEF Begin, Inv, TypeOK
<1>5. \A r \in Refs : At(asked, r) \subseteq At(asked', r)
  BY DEF Begin, At
<1>6. c.op \in {"set", "mark"} /\ c.flag = "plain" => c.k \in At(asked', c.ref)
  BY CommandFacts DEF Begin, At
<1>7. TypeOK'
  <2>1. FirstStep(c) \in Steps /\ FirstStep(c) \notin {"idle", "truncate", "write"}
    BY <1>2 DEF Steps
  <2> QED
    BY <1>1, <1>3, <1>4, <2>1 DEF Inv, TypeOK
<1>8. \A r \in Refs : Parsable(disk'[r]) => Sound(disk'[r], At(asked', r))
  <2>1. ASSUME NEW r \in Refs, Parsable(disk[r])
        PROVE  Sound(disk[r], At(asked', r))
    <3>1. disk[r] \in Snapshot /\ Sound(disk[r], At(asked, r))
      BY <2>1 DEF Inv, TypeOK, Held, Parsable
    <3> QED
      BY <3>1, <1>5, SoundMore
  <2> QED
    BY <1>1, <2>1 DEF Parsable
<1>9. ASSUME NEW q \in Procs, pc'[q] \in {"truncate", "write"}
      PROVE  Sound(mem'[q], At(asked', cmd'[q].ref))
  <2>1. q # p /\ pc[q] \in {"truncate", "write"} /\ cmd'[q] = cmd[q] /\ mem' = mem
    BY <1>1, <1>2, <1>9 DEF Inv, TypeOK
  <2>2. cmd[q] \in Commands /\ mem[q] \in Snapshot
    BY <2>1 DEF Inv, TypeOK
  <2>3. Sound(mem[q], At(asked, cmd[q].ref)) /\ cmd[q].ref \in Refs
    BY <2>1, <2>2, CommandFacts DEF Inv, Held
  <2>4. Sound(mem[q], At(asked', cmd[q].ref))
    BY <2>2, <2>3, <1>5, SoundMore
  <2> QED
    BY <2>1, <2>4 DEF At
<1>10. ASSUME NEW q \in Procs, cmd'[q] # NoCmd, cmd'[q].op \in {"set", "mark"},
              cmd'[q].flag = "plain"
       PROVE  cmd'[q].k \in At(asked', cmd'[q].ref)
  <2>1. CASE q = p
    <3>1. cmd'[q] = c
      BY <1>1, <2>1 DEF Inv, TypeOK
    <3> QED
      BY <1>6, <1>10, <3>1
  <2>2. CASE q # p
    <3>1. cmd'[q] = cmd[q] /\ cmd[q] \in Commands
      BY <1>1, <1>10, <2>2 DEF Inv, TypeOK
    <3>2. cmd[q].k \in At(asked, cmd[q].ref)
      BY <1>10, <3>1 DEF Inv, Held
    <3> QED
      BY <3>1, <3>2, <1>5, CommandFacts DEF At
  <2> QED
    BY <2>1, <2>2
<1>11. /\ \A q \in Procs : pc'[q] = "guard" => cmd'[q].op = "mark"
       /\ \A q \in Procs : pc'[q] = "load" /\ cmd'[q].op = "edit" => text'[q] \in Texts
  BY <1>1, <1>2 DEF Inv, TypeOK, Held
<1> QED
  BY <1>7, <1>8, <1>9, <1>10, <1>11 DEF Inv, Held, At

LEMMA OpenEditorStep ==
  ASSUME Inv, NEW p \in Procs, OpenEditor(p)
  PROVE  Inv'
<1>1. CASE Fail(p)
  BY <1>1, FailStep
<1>2. ASSUME NEW k \in Names, NEW l \in Lines, Parsable(File(p)), pc[p] = "open",
             text' = [text EXCEPT ![p] = [ToText(File(p)) EXCEPT ![k] = l]],
             Goto(p, "load"), UNCHANGED <<disk, ring, cmd, keys, mem, asked, revoked>>
      PROVE  Inv'
  <2>1. File(p) \in Snapshot
    BY <1>2, FileSnapshot
  <2>2. ToText(File(p)) \in Texts
    BY <2>1 DEF ToText, Texts, Snapshot, Item, Lines
  <2>3. [ToText(File(p)) EXCEPT ![k] = l] \in Texts
    BY <2>2 DEF Texts
  <2>4. "load" \in Steps
    BY DEF Steps
  <2> QED
    BY <1>2, <2>3, <2>4, OtherSteps DEF Goto, Inv, TypeOK
<1> QED
  BY <1>1, <1>2 DEF OpenEditor

LEMMA ComputeStep ==
  ASSUME Inv, NEW p \in Procs,
         \/ ComputeImport(p) \/ ComputeEdit(p) \/ ComputeSet(p)
         \/ ComputeMark(p) \/ ComputeUnset(p)
  PROVE  Inv'
<1> DEFINE c == cmd[p]
           S == At(asked, c.ref)
<1>1. pc[p] = "load" /\ c \in Commands /\ keys[p] \in KeyPair /\ CmdKeys(p) \in KeyPair
  BY KeysType DEF ComputeImport, ComputeEdit, ComputeSet, ComputeMark, ComputeUnset, Inv, TypeOK
<1>2. CASE Fail(p)
  BY <1>2, FailStep
<1>3. ASSUME ComputeImport(p) PROVE Inv'
  <2>1. c.text \in Texts
    BY <1>1, <1>3, CommandFacts DEF ComputeImport
  <2> QED
    BY <1>1, <1>3, <2>1, FromTextFacts, ComputedStep DEF ComputeImport
<1>4. ASSUME ComputeEdit(p), ~Fail(p) PROVE Inv'
  <2>1. text[p] \in Texts
    BY <1>1, <1>4 DEF ComputeEdit, Inv, Held
  <2> QED
    BY <1>1, <1>4, <2>1, FromTextFacts, ComputedStep DEF ComputeEdit
<1>5. ASSUME Parsable(File(p))
      PROVE  File(p) \in Snapshot /\ Sound(File(p), S)
  BY <1>1, <1>5, FileSnapshot
<1>6. c.op \in {"set", "mark"} /\ c.flag = "plain" => c.k \in S
  BY <1>1, SentinelsAssumption DEF Inv, Held
<1>7. ASSUME ComputeSet(p), ~Fail(p) PROVE Inv'
  <2> DEFINE s == SetItem(File(p), c.k, c.v, c.flag, keys[p])
  <2>1. Parsable(File(p)) /\ c.op = "set" /\ Computed(p, s)
    BY <1>7 DEF ComputeSet
  <2>2. c.k \in Names /\ c.v \in Values /\ c.flag \in Flags
    BY <1>1, <2>1, CommandFacts
  <2>3. s \in Snapshot /\ Sound(s, S)
    BY <1>1, <1>5, <1>6, <2>1, <2>2, SetItemFacts
  <2> QED
    BY <1>1, <2>1, <2>3, ComputedStep
<1>8. ASSUME ComputeMark(p), ~Fail(p) PROVE Inv'
  <2> DEFINE s == SetItem(File(p), c.k, File(p)[c.k].val, c.flag, keys[p])
  <2>1. Parsable(File(p)) /\ c.op = "mark" /\ File(p)[c.k] # NoItem /\ Computed(p, s)
    BY <1>8 DEF ComputeMark
  <2>2. c.k \in Names /\ c.flag \in Flags
    BY <1>1, <2>1, CommandFacts
  <2>3. File(p)[c.k].val \in Values
    BY <1>5, <2>1, <2>2 DEF Snapshot, Item
  <2>4. s \in Snapshot /\ Sound(s, S)
    BY <1>1, <1>5, <1>6, <2>1, <2>2, <2>3, SetItemFacts
  <2> QED
    BY <1>1, <2>1, <2>4, ComputedStep
<1>9. ASSUME ComputeUnset(p), ~Fail(p) PROVE Inv'
  <2>1. /\ Parsable(File(p)) /\ c.op = "unset"
        /\ Computed(p, [File(p) EXCEPT ![c.k] = NoItem])
    BY <1>9 DEF ComputeUnset
  <2>2. c.k \in Names
    BY <1>1, <2>1, CommandFacts
  <2> QED
    BY <1>1, <1>5, <2>1, <2>2, DeleteFacts, ComputedStep
<1> QED
  BY <1>2, <1>3, <1>4, <1>7, <1>8, <1>9

\* What is on disk changes for one file; the rest of the step is OtherSteps'.
LEMMA FileStep ==
  ASSUME Inv, NEW r \in Refs, NEW f \in Snapshot \cup {Absent, Torn},
         Parsable(f) => Sound(f, At(asked, r)), disk' = [disk EXCEPT ![r] = f]
  PROVE  /\ disk' \in [Refs -> Snapshot \cup {Absent, Torn}]
         /\ \A q \in Refs : Parsable(disk'[q]) => Sound(disk'[q], At(asked, q))
BY DEF Inv, TypeOK, Held, Parsable

\* A process leaves, or goes on to write: the others are where they were.
LEMMA ProcessesStep ==
  ASSUME Inv, NEW p \in Procs, UNCHANGED <<keys, ring, asked>>,
         \/ Leave(p)
         \/ pc[p] # "idle" /\ pc[p] = "truncate" /\ Goto(p, "write")
            /\ UNCHANGED <<cmd, mem, text>>,
         disk' \in [Refs -> Snapshot \cup {Absent, Torn}],
         \A q \in Refs : Parsable(disk'[q]) => Sound(disk'[q], At(asked, q)),
         revoked' \subseteq Refs \X Names
  PROVE  Inv'
<1>1. "idle" \in Steps /\ "write" \in Steps
  BY DEF Steps
<1>2. CASE Leave(p)
  <2>1. TypeOK'
    BY <1>1, <1>2 DEF Leave, Goto, Inv, TypeOK
  <2>2. Held'
    BY <1>2 DEF Leave, Goto, Inv, TypeOK, Held, At
  <2> QED
    BY <2>1, <2>2 DEF Inv
<1>3. CASE pc[p] = "truncate" /\ Goto(p, "write") /\ UNCHANGED <<cmd, mem, text>>
  <2>1. TypeOK'
    BY <1>1, <1>3 DEF Goto, Inv, TypeOK
  <2>2. Held'
    BY <1>3 DEF Goto, Inv, TypeOK, Held, At
  <2> QED
    BY <2>1, <2>2 DEF Inv
<1> QED
  BY <1>2, <1>3

LEMMA SaveStep ==
  ASSUME Inv, NEW p \in Procs, RemoveFile(p) \/ Truncate(p) \/ Write(p)
  PROVE  Inv'
<1>1. cmd[p] \in Commands /\ cmd[p].ref \in Refs
  <2>1. pc[p] # "idle"
    BY DEF RemoveFile, Truncate, Write
  <2> QED
    BY <2>1, CommandFacts DEF Inv, TypeOK
<1>2. ~Parsable(Absent) /\ ~Parsable(Torn)
  BY DEF Parsable
<1>3. CASE RemoveFile(p)
  <2>1. disk' = [disk EXCEPT ![cmd[p].ref] = Absent]
    BY <1>3 DEF RemoveFile
  <2>2. revoked' \subseteq Refs \X Names
    BY <1>3 DEF RemoveFile, Inv, TypeOK
  <2> QED
    BY <1>1, <1>2, <1>3, <2>1, <2>2, FileStep, ProcessesStep DEF RemoveFile, Leave
<1>4. CASE Truncate(p)
  <2>1. disk' = [disk EXCEPT ![cmd[p].ref] = Torn]
    BY <1>4 DEF Truncate
  <2>2. revoked' \subseteq Refs \X Names
    BY <1>4 DEF Truncate, Inv, TypeOK
  <2> QED
    BY <1>1, <1>2, <1>4, <2>1, <2>2, FileStep, ProcessesStep DEF Truncate
<1>5. CASE Write(p)
  <2>1. mem[p] \in Snapshot /\ Sound(mem[p], At(asked, cmd[p].ref))
    BY <1>5 DEF Write, Inv, TypeOK, Held
  <2>2. PICK f \in {mem[p], Torn} : disk' = [disk EXCEPT ![cmd[p].ref] = f]
    BY <1>5 DEF Write
  <2>3. f \in Snapshot \cup {Absent, Torn} /\ (Parsable(f) => Sound(f, At(asked, cmd[p].ref)))
    BY <1>2, <2>1
  <2>4. /\ disk' \in [Refs -> Snapshot \cup {Absent, Torn}]
        /\ \A q \in Refs : Parsable(disk'[q]) => Sound(disk'[q], At(asked, q))
    BY <1>1, <2>2, <2>3, FileStep
  <2>5. revoked' \subseteq Refs \X Names
    <3>1. CASE cmd[p].op \notin {"set", "mark"}
      BY <1>5, <3>1 DEF Write, Inv, TypeOK
    <3>2. CASE cmd[p].op \in {"set", "mark"}
      <4>1. <<cmd[p].ref, cmd[p].k>> \in Refs \X Names
        BY <1>1, <3>2, CommandFacts
      <4>2. revoked' \subseteq revoked \cup {<<cmd[p].ref, cmd[p].k>>}
        BY <1>5, <3>2 DEF Write
      <4> QED
        BY <4>1, <4>2 DEF Inv, TypeOK
    <3> QED
      BY <3>1, <3>2
  <2>6. Leave(p)
    BY <1>5 DEF Write
  <2> QED
    BY <2>4, <2>5, <2>6, ProcessesStep DEF Leave
<1> QED
  BY <1>3, <1>4, <1>5

LEMMA InvStep == Inv /\ [Next]_vars => Inv'
<1> SUFFICES ASSUME Inv, [Next]_vars PROVE Inv'
  OBVIOUS
<1>1. ASSUME NEW p \in Procs, NEW c \in Commands, Begin(p, c) PROVE Inv'
  BY <1>1, BeginStep
<1>2. ASSUME NEW p \in Procs, Step(p) PROVE Inv'
  <2>1. CASE StatImport(p) \/ StatRemove(p)
    BY <2>1, FailStep, GotoStep DEF StatImport, StatRemove
  <2>2. CASE RemoveFile(p) \/ Truncate(p) \/ Write(p)
    BY <2>2, SaveStep
  <2>3. CASE Guard(p)
    <3>1. pc[p] = "guard" /\ cmd[p].op = "mark"
      BY <2>3 DEF Guard, Inv, Held
    <3> QED
      BY <2>3, <3>1, FailStep, GotoStep DEF Guard
  <2>4. CASE OpenEditor(p)
    BY <2>4, OpenEditorStep
  <2>5. CASE \/ ComputeImport(p) \/ ComputeEdit(p) \/ ComputeSet(p)
             \/ ComputeMark(p) \/ ComputeUnset(p)
    BY <2>5, ComputeStep
  <2>6. CASE Crash(p)
    BY <2>6, FailStep DEF Crash
  <2> QED
    BY <1>2, <2>1, <2>2, <2>3, <2>4, <2>5, <2>6 DEF Step
<1>3. ASSUME NEW kind \in Kinds, Regenerate(kind) PROVE Inv'
  <2>1. ring' \in KeyPair
    <3>1. ring[kind] + 1 \in 1 .. MaxKey
      BY <1>3, MaxKeyAssumption DEF Regenerate, Inv, TypeOK, KeyPair
    <3> QED
      BY <1>3, <3>1 DEF Regenerate, Inv, TypeOK, KeyPair
  <2> QED
    BY <1>3, <2>1 DEF Regenerate, local, Inv, TypeOK, Held, At
<1>4. CASE UNCHANGED vars
  BY <1>4 DEF vars, local, Inv, TypeOK, Held, At
<1> QED
  BY <1>1, <1>2, <1>3, <1>4 DEF Next

LEMMA OldItemType ==
  ASSUME NEW k \in Names, NEW v \in Values
  PROVE  /\ OldItem(k, v) \in Item /\ UnderItsKey(OldItem(k, v), k)
         /\ OldItem(k, v).safe = FALSE
<1>1. <<"snap", 1>> \in KeyIds
  BY MaxKeyAssumption DEF KeyIds, Kinds
<1> DEFINE secret == <<k, v>> \in Sensitive
<1>2. secret \in BOOLEAN
  OBVIOUS
<1>3. OldItem(k, v) = [val |-> v, key |-> <<"snap", 1>>, secret |-> secret, safe |-> FALSE]
  BY DEF OldItem
<1> HIDE DEF secret
<1>4. OldItem(k, v) \in Item
  BY <1>1, <1>2, <1>3 DEF Item
<1>5. OldItem(k, v).val = v /\ OldItem(k, v).key[1] = "snap" /\ OldItem(k, v).safe = FALSE
  BY <1>3
<1> QED
  BY <1>4, <1>5 DEF UnderItsKey

LEMMA InvInit == Init => Inv
<1> SUFFICES ASSUME Init PROVE Inv
  OBVIOUS
<1>1. \A k \in Names, v \in Values : /\ OldItem(k, v) \in Item /\ UnderItsKey(OldItem(k, v), k)
                                   /\ OldItem(k, v).safe = FALSE
  BY OldItemType
<1>2. [kind \in Kinds |-> 1] \in KeyPair
  BY MaxKeyAssumption DEF KeyPair
<1>3. ASSUME NEW r \in Refs
      PROVE  /\ disk[r] \in Snapshot \cup {Absent, Torn}
             /\ Parsable(disk[r]) => Sound(disk[r], At(asked, r))
  <2>1. disk[r] = Absent \/ \E v \in Values : disk[r] = [k \in Names |-> OldItem(k, v)]
    BY DEF Init
  <2>2. CASE disk[r] = Absent
    BY <2>2 DEF Parsable
  <2>3. ASSUME NEW v \in Values, disk[r] = [k \in Names |-> OldItem(k, v)]
        PROVE  disk[r] \in Snapshot /\ Sound(disk[r], At(asked, r))
    BY <1>1, <2>3 DEF Snapshot, Sound
  <2> QED
    BY <2>1, <2>2, <2>3
<1>4. TypeOK
  BY <1>2, <1>3 DEF Init, TypeOK, Steps
<1>5. Held
  BY <1>3 DEF Init, Held
<1> QED
  BY <1>4, <1>5 DEF Inv

LEMMA InvAlways == Spec => []Inv
BY InvInit, InvStep, PTL DEF Spec

\* Every variable keeps its type (Save, Load, Set and the commands of cli.go, ui.go).
THEOREM TypeCorrect == Spec => []TypeOK
<1>1. Inv => TypeOK
  BY DEF Inv
<1> QED
  BY <1>1, InvAlways, PTL

\* However commands overlap or die, a secret item that any of them wrote is under the
\* sensitive key: the fallback of DecryptItem only ever opens items of old snapshots.
THEOREM SecretsAlways == Spec => []SecretsUnderSensitiveKey
<1>1. Inv => SecretsUnderSensitiveKey
  BY DEF Inv, Held, Sound, UnderItsKey, SecretsUnderSensitiveKey
<1> QED
  BY <1>1, InvAlways, PTL

-----------------------------------------------------------------------------
(* What readers show.                                                      *)

\* Whatever reader it is, it shows values of safe items of files that load.
LEMMA ShownIsSafe ==
  ASSUME NEW S, \A r \in Refs : Parsable(disk[r]) => \A k \in SafeNames(disk[r]) : <<r, k>> \in S
  PROVE  Shown \subseteq S
<1>1. ASSUME NEW r \in Refs PROVE ListShows(r) \cup PageShows(r) \cup GetShows(r) \subseteq S
  <2>1. \A k : k \in SafeNames(disk[r]) /\ Parsable(disk[r]) => <<r, k>> \in S
    OBVIOUS
  <2>2. ListShows(r) \subseteq S
    BY <2>1 DEF ListShows
  <2>3. PageShows(r) \subseteq S
    BY <2>1 DEF PageShows
  <2>4. GetShows(r) \subseteq S
    BY <2>1 DEF GetShows
  <2> QED
    BY <2>2, <2>3, <2>4
<1>2. ASSUME NEW r \in Refs, NEW q \in Refs PROVE CompareShows(r, q) \subseteq S
  <2>1. CASE Parsable(disk[r]) /\ Parsable(disk[q])
    <3>1. \A k : k \in SafeNames(disk[r]) => <<r, k>> \in S
      BY <2>1
    <3>2. \A k : k \in SafeNames(disk[q]) => <<q, k>> \in S
      BY <2>1
    <3>3. ASSUME NEW k \in Names, disk[r][k] # NoItem, disk[q][k] # NoItem,
                 disk[r][k].safe, disk[q][k].safe
          PROVE  <<r, k>> \in S /\ <<q, k>> \in S
      BY <3>1, <3>2, <3>3 DEF SafeNames
    <3>4. ASSUME NEW x \in CompareShows(r, q)
          PROVE  \/ \E k \in SafeNames(disk[r]) : x = <<r, k>>
                 \/ \E k \in SafeNames(disk[q]) : x = <<q, k>>
                 \/ \E k \in Names :
                      /\ x = <<r, k>> \/ x = <<q, k>>
                      /\ disk[r][k] # NoItem /\ disk[q][k] # NoItem
                      /\ disk[r][k].safe /\ disk[q][k].safe
      <4> DEFINE a == disk[r]
                 b == disk[q]
                 both == {k \in Names : a[k] # NoItem /\ b[k] # NoItem}
      <4>1. x \in {<<r, k>> : k \in SafeNames(a) \ both}
                  \cup {<<q, k>> : k \in SafeNames(b) \ both}
                  \cup {r, q} \X {k \in both : a[k].val # b[k].val /\ a[k].safe /\ b[k].safe}
        BY <2>1, <3>4 DEF CompareShows
      <4> QED
        BY <4>1
    <3> QED
      BY <3>1, <3>2, <3>3, <3>4
  <2>2. CASE ~Parsable(disk[r]) \/ ~Parsable(disk[q])
    BY <2>2 DEF CompareShows
  <2> QED
    BY <2>1, <2>2
<1>3. ASSUME NEW R \in SUBSET Refs PROVE MultiShows(R) \subseteq S
  BY <1>1 DEF MultiShows
<1>4. ASSUME NEW k \in Names PROVE KeyShows(k) \subseteq S
  BY <1>1 DEF KeyShows
<1> DEFINE A == UNION {ListShows(r) \cup PageShows(r) \cup GetShows(r) : r \in Refs}
           B == UNION {CompareShows(r, q) : r, q \in Refs}
           C == UNION {MultiShows(R) : R \in SUBSET Refs}
           D == UNION {KeyShows(k) : k \in Names}
<1>5. A \subseteq S /\ B \subseteq S
  BY <1>1, <1>2
<1>6. C \subseteq S /\ D \subseteq S
  BY <1>3, <1>4
<1>7. Shown = A \cup B \cup C \cup D
  BY DEF Shown
<1> HIDE DEF A, B, C, D
<1> QED
  BY <1>5, <1>6, <1>7

\* No reader shows a value to a script or the page where nobody ever asked for --plain,
\* whatever commands overlap or die (maskedFor, VisibleItems, Diff, compareValue).
THEOREM ShownWasAskedAlways == Spec => []ShownWasAsked
<1>1. ASSUME Inv PROVE ShownWasAsked
  <2>1. ASSUME NEW r \in Refs, Parsable(disk[r]), NEW k \in SafeNames(disk[r])
        PROVE  <<r, k>> \in asked
    BY <1>1, <2>1 DEF Inv, Held, Sound, SafeNames, At
  <2> QED
    BY <2>1, ShownIsSafe DEF ShownWasAsked
<1> QED
  BY <1>1, InvAlways, PTL
=============================================================================
