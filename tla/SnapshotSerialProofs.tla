-------------------------- MODULE SnapshotSerialProofs --------------------------
(***************************************************************************)
(* SnapshotStore, one command at a time, implements AtomicSnapshots and    *)
(* keeps what was revoked hidden: for any files, names and values, however *)
(* keys are regenerated and wherever a command dies.                       *)
(***************************************************************************)
EXTENDS SnapshotSerial, SnapshotStoreProofs

-----------------------------------------------------------------------------
(* What a command makes of the file it loaded.                             *)

\* Set with some keys.
SetTo(s, t, k, v, flag) == \E kp \in KeyPair : t = SetItem(s, k, v, flag, kp)

\* t is what c makes of the file s.
Moved(s, t, c) ==
  \/ /\ c.op \in {"import", "edit"}
     /\ \E txt \in Texts, kp \in KeyPair : ~Blank(txt) /\ t = FromText(txt, kp)
  \/ c.op = "set" /\ Parsable(s) /\ SetTo(s, t, c.k, c.v, c.flag)
  \/ /\ c.op = "mark" /\ Parsable(s) /\ s[c.k] # NoItem
     /\ SetTo(s, t, c.k, s[c.k].val, c.flag)
  \/ c.op = "unset" /\ Parsable(s) /\ s[c.k] # NoItem /\ t = [s EXCEPT ![c.k] = NoItem]

LEMMA MarkFlags ==
  ASSUME NEW c \in Commands, c.op = "mark"
  PROVE  c.flag \in {"plain", "secret"}
BY DEF Commands, SetCmds, UpdateItems, MarkCmds, UnsetCmds, DeleteItems, ImportCmds,
       Creations, EditCmds, PageEdits, RmCmds, Removals

LEMMA FileKinds ==
  ASSUME NEW f \in Snapshot \cup {Absent, Torn}
  PROVE  Parsable(f) <=> f \in Snapshot
BY SentinelsAssumption DEF Parsable

LEMMA SeenFacts ==
  ASSUME NEW f \in Snapshot \cup {Absent, Torn}
  PROVE  /\ Parsable(f) => /\ Seen(f) \in Atomic!Content
                           /\ Seen(f) \notin {Absent, Torn}
                           /\ \A k \in Names : /\ Seen(f)[k] = Visible(f[k])
                                               /\ f[k] = NoItem <=> Seen(f)[k] = NoItem
         /\ ~Parsable(f) => Seen(f) = f
<1>1. \A it \in Item : /\ Visible(it) \in Atomic!Entry /\ Visible(it) # NoItem
                       /\ it # NoItem
  <2> SUFFICES ASSUME NEW it \in Item
               PROVE  Visible(it) \in Atomic!Entry /\ Visible(it) # NoItem /\ it # NoItem
    OBVIOUS
  <2>1. it # NoItem
    BY SentinelsAssumption
  <2>2. Visible(it) \in Atomic!Entry
    BY <2>1 DEF Visible, Item, Atomic!Entry
  <2> QED
    BY <2>1, <2>2, VisibleAssumption
<1>2. Visible(NoItem) = NoItem
  BY DEF Visible
<1>3. ASSUME Parsable(f)
      PROVE  /\ Seen(f) = [k \in Names |-> Visible(f[k])]
             /\ \A k \in Names : f[k] \in Item \cup {NoItem}
  BY <1>3, FileKinds DEF Seen, Snapshot
<1>4. ASSUME Parsable(f) PROVE Seen(f) \in Atomic!Content
  BY <1>1, <1>2, <1>3, <1>4 DEF Atomic!Content
<1> QED
  BY <1>1, <1>2, <1>3, <1>4, VisibleAssumption DEF Seen

\* The item that set and mark seal.
LEMMA SetItemIs ==
  ASSUME NEW s \in Snapshot, NEW k \in Names, NEW v \in Values, NEW flag \in Flags,
         NEW kp \in KeyPair
  PROVE  LET t == SetItem(s, k, v, flag, kp) IN
         /\ \A j \in Names \ {k} : t[j] = s[j]
         /\ t[k] \in Item /\ t[k].val = v
         /\ flag # "none" => t[k].safe = (flag = "plain") /\ t[k].secret = (flag = "secret")
         /\ flag = "none" /\ s[k] # NoItem => t[k].safe = s[k].safe /\ t[k].secret = s[k].secret
         /\ flag = "none" /\ s[k] = NoItem => ~t[k].safe
<1> DEFINE secret == IF flag # "none" THEN flag = "secret"
                     ELSE IF s[k] # NoItem THEN s[k].secret ELSE <<k, v>> \in Sensitive
           safe == IF flag # "none" THEN flag = "plain" ELSE s[k] # NoItem /\ s[k].safe
           it == Seal(v, secret, safe, kp)
<1>1. s[k] # NoItem => s[k].secret \in BOOLEAN /\ s[k].safe \in BOOLEAN
  BY DEF Snapshot, Item
<1>2. CASE flag # "none"
  <2> DEFINE sec == flag = "secret"
             plain == flag = "plain"
             x == Seal(v, sec, plain, kp)
  <2>1. SetItem(s, k, v, flag, kp) = [s EXCEPT ![k] = x]
    BY <1>2 DEF SetItem
  <2>2. sec \in BOOLEAN /\ plain \in BOOLEAN
    OBVIOUS
  <2> HIDE DEF sec, plain
  <2>3. x \in Item /\ x.secret = sec /\ x.safe = plain
    BY <2>2, SealFacts
  <2>4. x.val = v
    BY DEF Seal
  <2> HIDE DEF x
  <2>5. SetItem(s, k, v, flag, kp) \in Snapshot /\ SetItem(s, k, v, flag, kp)[k] = x
    BY <2>1, <2>3 DEF Snapshot
  <2> QED
    BY <1>2, <2>1, <2>3, <2>4, <2>5 DEF sec, plain, Snapshot
<1>3. CASE flag = "none" /\ s[k] # NoItem
  <2> DEFINE x == Seal(v, s[k].secret, s[k].safe, kp)
  <2>1. s[k].safe = (s[k] # NoItem /\ s[k].safe)
    BY <1>1, <1>3
  <2>2. SetItem(s, k, v, flag, kp) = [s EXCEPT ![k] = x]
    BY <1>3, <2>1 DEF SetItem
  <2>3. x \in Item /\ x.secret = s[k].secret /\ x.safe = s[k].safe
    BY <1>1, <1>3, SealFacts
  <2>4. x.val = v
    BY DEF Seal
  <2> HIDE DEF x
  <2> QED
    BY <1>3, <2>2, <2>3, <2>4 DEF Snapshot
<1>4. CASE flag = "none" /\ s[k] = NoItem
  <2> DEFINE sec == <<k, v>> \in Sensitive
             x == Seal(v, sec, FALSE, kp)
  <2>1. SetItem(s, k, v, flag, kp) = [s EXCEPT ![k] = x]
    BY <1>4 DEF SetItem
  <2>2. sec \in BOOLEAN
    OBVIOUS
  <2> HIDE DEF sec
  <2> DEFINE no == FALSE
  <2>3. x \in Item /\ x.safe = FALSE
    <3>1. no \in BOOLEAN
      OBVIOUS
    <3>2. x = Seal(v, sec, no, kp)
      OBVIOUS
    <3> HIDE DEF no
    <3>3. Seal(v, sec, no, kp) \in Item /\ Seal(v, sec, no, kp).safe = no
      BY <2>2, <3>1, SealFacts
    <3> QED
      BY <3>2, <3>3 DEF no
  <2>4. x.val = v
    BY DEF Seal
  <2> HIDE DEF x
  <2> QED
    BY <1>4, <2>1, <2>3, <2>4 DEF Snapshot
<1> QED
  BY <1>2, <1>3, <1>4

LEMMA FromTextIs ==
  ASSUME NEW t \in Texts, NEW kp \in KeyPair, ~Blank(t)
  PROVE  LET s == FromText(t, kp) IN
         /\ s \in Snapshot
         /\ \E k \in Names : s[k] # NoItem
         /\ \A k \in Names : s[k] # NoItem => ~s[k].safe
<1> DEFINE s == FromText(t, kp)
<1>1. s \in Snapshot /\ Sound(s, {})
  BY FromTextFacts
<1>2. PICK k \in Names : t[k] # <<>>
  BY DEF Blank
<1>3. t[k][Len(t[k])] \in Values
  BY <1>2, LinesHaveEnds DEF Texts
<1> DEFINE secret == <<k, t[k][1]>> \in Sensitive
           v == t[k][Len(t[k])]
<1>4. s[k] = Seal(v, secret, FALSE, kp)
  BY <1>2 DEF FromText
<1>5. secret \in BOOLEAN /\ v \in Values
  BY <1>3
<1> HIDE DEF secret, v, s
<1>6. s[k] \in Item
  <2>1. Seal(v, secret, FALSE, kp) \in Item
    BY <1>5, SealFacts
  <2> QED
    BY <1>4, <2>1
<1>7. s[k] # NoItem
  BY <1>6, SentinelsAssumption
<1>8. \A j \in Names : s[j] # NoItem => ~s[j].safe
  BY <1>1 DEF Sound
<1> QED
  BY <1>1, <1>7, <1>8 DEF s

\* What is safe in what a command saves: what it was asked for, or what was safe.
LEMMA MovedSafe ==
  ASSUME NEW s \in Snapshot \cup {Absent, Torn}, NEW t, NEW c \in Commands, Moved(s, t, c),
         NEW k \in SafeNames(t)
  PROVE  LET marks == c.op \in {"set", "mark"} /\ c.k = k IN
         \/ marks /\ c.flag = "plain"
         \/ Parsable(s) /\ k \in SafeNames(s) /\ ~(marks /\ c.flag = "secret")
<1>1. k \in Names /\ t[k] # NoItem /\ t[k].safe
  BY DEF SafeNames
<1>2. CASE c.op \in {"import", "edit"}
  BY <1>1, <1>2, FromTextIs DEF Moved
<1>3. ASSUME Parsable(s), c.op \in {"set", "mark"}, NEW v \in Values, SetTo(s, t, c.k, v, c.flag)
      PROVE  LET marks == c.k = k IN
             \/ marks /\ c.flag = "plain"
             \/ k \in SafeNames(s) /\ ~(marks /\ c.flag = "secret")
  <2>1. s \in Snapshot /\ c.k \in Names /\ c.flag \in Flags
    BY <1>3, FileKinds, CommandFacts
  <2>2. PICK kp \in KeyPair : t = SetItem(s, c.k, v, c.flag, kp)
    BY <1>3 DEF SetTo
  <2>3. /\ \A j \in Names \ {c.k} : t[j] = s[j]
        /\ c.flag # "none" => t[c.k].safe = (c.flag = "plain")
        /\ c.flag = "none" /\ s[c.k] # NoItem => t[c.k].safe = s[c.k].safe
        /\ c.flag = "none" /\ s[c.k] = NoItem => ~t[c.k].safe
    BY <2>1, <2>2, SetItemIs
  <2> QED
    BY <1>1, <2>1, <2>3 DEF SafeNames, Flags
<1>4. CASE c.op = "set"
  BY <1>3, <1>4, CommandFacts DEF Moved
<1>5. CASE c.op = "mark"
  <2>1. Parsable(s) /\ s[c.k] # NoItem /\ SetTo(s, t, c.k, s[c.k].val, c.flag)
    BY <1>5 DEF Moved
  <2>2. s[c.k].val \in Values
    BY <1>5, <2>1, FileKinds, CommandFacts DEF Snapshot, Item
  <2> QED
    BY <1>3, <1>5, <2>1, <2>2
<1>6. CASE c.op = "unset"
  <2>1. /\ Parsable(s) /\ c.k \in Names /\ s \in Snapshot
        /\ t = [s EXCEPT ![c.k] = NoItem]
    BY <1>6, FileKinds, CommandFacts DEF Moved
  <2> QED
    BY <1>1, <1>6, <2>1 DEF Snapshot, SafeNames
<1> QED
  BY <1>2, <1>4, <1>5, <1>6 DEF Moved

\* What a command makes of the file is one step of AtomicSnapshots.
LEMMA MovedIsAtomic ==
  ASSUME NEW s \in Snapshot \cup {Absent, Torn}, NEW t \in Snapshot, NEW c \in Commands,
         Moved(s, t, c), View[c.ref] = Seen(s), View'[c.ref] = Seen(t),
         \A q \in Refs \ {c.ref} : View'[q] = View[q]
  PROVE  Atomic!Next
<1> DEFINE r == c.ref
<1>1. r \in Refs /\ Atomic!OnlyTouches(r)
  BY CommandFacts DEF Atomic!OnlyTouches
<1>2. /\ View'[r] \in Atomic!Content
      /\ \A k \in Names : View'[r][k] = Visible(t[k]) /\ (t[k] = NoItem <=> View'[r][k] = NoItem)
  BY FileKinds, SeenFacts
<1>3. ASSUME Parsable(s)
      PROVE  /\ s \in Snapshot /\ Atomic!Present(r)
             /\ \A k \in Names : View[r][k] = Visible(s[k]) /\ (s[k] = NoItem <=> View[r][k] = NoItem)
  BY <1>3, FileKinds, SeenFacts DEF Atomic!Present
<1>4. \A it : it # NoItem => /\ Visible(it).val = it.val /\ Visible(it).safe = it.safe
                             /\ Visible(it).secret = it.secret
  BY DEF Visible
<1>5. CASE c.op \in {"import", "edit"}
  <2>1. PICK txt \in Texts, kp \in KeyPair : ~Blank(txt) /\ t = FromText(txt, kp)
    BY <1>5 DEF Moved
  <2>2. (\E k \in Names : t[k] # NoItem) /\ \A k \in Names : t[k] # NoItem => ~t[k].safe
    BY <2>1, FromTextIs
  <2>3. Atomic!Replace(r)
    BY <1>1, <1>2, <1>4, <2>2 DEF Atomic!Replace
  <2> QED
    BY <1>1, <2>3 DEF Atomic!Next
<1>6. ASSUME Parsable(s), NEW k \in Names, NEW v \in Values, NEW flag \in Flags,
             SetTo(s, t, k, v, flag)
      PROVE  Atomic!Put(r, k, v, flag)
  <2>1. PICK kp \in KeyPair : t = SetItem(s, k, v, flag, kp)
    BY <1>6 DEF SetTo
  <2>2. /\ \A j \in Names \ {k} : t[j] = s[j]
        /\ t[k] \in Item /\ t[k].val = v
        /\ flag # "none" => t[k].safe = (flag = "plain") /\ t[k].secret = (flag = "secret")
        /\ flag = "none" /\ s[k] # NoItem => t[k].safe = s[k].safe /\ t[k].secret = s[k].secret
        /\ flag = "none" /\ s[k] = NoItem => ~t[k].safe
    BY <1>3, <1>6, <2>1, SetItemIs
  <2>3. t[k] # NoItem
    BY <2>2, SentinelsAssumption
  <2>4. Atomic!OnlyItem(r, k)
    BY <1>1, <1>2, <1>3, <1>6, <2>2 DEF Atomic!OnlyItem
  <2>5. /\ View'[r][k] # NoItem /\ View'[r][k].val = v
        /\ View'[r][k].safe = t[k].safe /\ View'[r][k].secret = t[k].secret
    BY <1>2, <1>4, <2>2, <2>3
  <2>6. /\ s[k] = NoItem <=> View[r][k] = NoItem
        /\ s[k] # NoItem => View[r][k].safe = s[k].safe /\ View[r][k].secret = s[k].secret
    BY <1>3, <1>4, <1>6
  <2> QED
    BY <2>2, <2>4, <2>5, <2>6 DEF Atomic!Put
<1>7. CASE c.op = "set"
  <2>1. /\ Parsable(s) /\ c.k \in Names /\ c.v \in Values /\ c.flag \in Flags
        /\ SetTo(s, t, c.k, c.v, c.flag)
    BY <1>7, CommandFacts DEF Moved
  <2>2. Atomic!Put(r, c.k, c.v, c.flag)
    BY <1>6, <2>1
  <2> QED
    BY <1>1, <1>3, <2>1, <2>2 DEF Atomic!Next, Flags
<1>8. CASE c.op = "mark"
  <2>1. /\ Parsable(s) /\ c.k \in Names /\ s[c.k] # NoItem
        /\ SetTo(s, t, c.k, s[c.k].val, c.flag)
    BY <1>8, CommandFacts DEF Moved
  <2>2. c.flag \in {"plain", "secret"} /\ c.flag \in Flags
    BY <1>8, MarkFlags DEF Flags
  <2>3. s[c.k].val \in Values
    BY <1>3, <2>1 DEF Snapshot, Item
  <2>4. Atomic!Put(r, c.k, s[c.k].val, c.flag)
    BY <1>6, <2>1, <2>2, <2>3
  <2>5. View[r][c.k] # NoItem /\ View[r][c.k].val = s[c.k].val
    BY <1>3, <1>4, <2>1
  <2>6. Atomic!Mark(r, c.k, c.flag)
    BY <2>4, <2>5 DEF Atomic!Mark
  <2> QED
    BY <1>1, <1>3, <2>1, <2>2, <2>6 DEF Atomic!Next
<1>9. CASE c.op = "unset"
  <2>1. /\ Parsable(s) /\ c.k \in Names /\ s[c.k] # NoItem
        /\ t = [s EXCEPT ![c.k] = NoItem]
    BY <1>9, CommandFacts DEF Moved
  <2>2. t[c.k] = NoItem /\ \A j \in Names \ {c.k} : t[j] = s[j]
    BY <1>3, <2>1 DEF Snapshot
  <2>3. Atomic!OnlyItem(r, c.k)
    <3>1. Atomic!Present(r) /\ View'[r] \in Atomic!Content
      BY <1>2, <1>3, <2>1
    <3>2. \A j \in Names : View[r][j] = Visible(s[j]) /\ View'[r][j] = Visible(t[j])
      BY <1>2, <1>3, <2>1
    <3>3. \A j \in Names \ {c.k} : View'[r][j] = View[r][j]
      BY <2>2, <3>2
    <3> QED
      BY <1>1, <3>1, <3>3 DEF Atomic!OnlyItem
  <2>4. Atomic!Delete(r, c.k)
    BY <1>2, <1>3, <2>1, <2>2, <2>3 DEF Atomic!Delete
  <2> QED
    BY <1>1, <1>3, <2>1, <2>4 DEF Atomic!Next
<1> QED
  BY <1>5, <1>7, <1>8, <1>9 DEF Moved

-----------------------------------------------------------------------------
(* The command is alone.                                                   *)

\* What the command loaded is still in its file, until it truncates it.
Alone ==
  \A p \in Procs :
    /\ cmd[p] # NoCmd /\ cmd[p].op = "import" => ~Blank(cmd[p].text)
    /\ pc[p] = "remove" => File(p) # Absent
    /\ pc[p] = "truncate" => Moved(File(p), mem[p], cmd[p])
    /\ pc[p] = "write" => File(p) = Torn

LEMMA AloneInit == Init => Inv /\ Alone
BY InvInit DEF Init, Alone

\* A step that stays short of the save.
LEMMA AloneBefore ==
  ASSUME Inv, Alone, NEW p \in Procs, pc'[p] \notin {"remove", "truncate", "write"},
         cmd'[p] \in {cmd[p], NoCmd}
  PROVE  Alone'
BY SerialAssumption DEF Alone

LEMMA AloneFail ==
  ASSUME Inv, Alone, NEW p \in Procs, Leave(p)
  PROVE  Alone'
<1>1. pc'[p] = "idle" /\ cmd'[p] = NoCmd
  BY DEF Leave, Goto, Inv, TypeOK
<1> QED
  BY <1>1, AloneBefore

LEMMA AloneComputed ==
  ASSUME Inv, Alone, NEW p \in Procs, NEW t, Computed(p, t), Moved(File(p), t, cmd[p])
  PROVE  Alone'
<1>1. /\ pc'[p] = "truncate" /\ mem'[p] = t /\ UNCHANGED <<cmd, disk>>
  BY DEF Computed, Goto, Inv, TypeOK
<1>2. Procs = {p} /\ File(p)' = File(p)
  BY <1>1, SerialAssumption DEF File
<1> QED
  BY <1>1, <1>2 DEF Alone

LEMMA AloneStep == Inv /\ Alone /\ [Next]_vars => Alone'
<1> SUFFICES ASSUME Inv, Alone, [Next]_vars PROVE Alone'
  OBVIOUS
<1>1. CASE UNCHANGED vars
  BY <1>1 DEF vars, local, Alone, File
<1>2. ASSUME NEW kind \in Kinds, Regenerate(kind) PROVE Alone'
  BY <1>2 DEF Regenerate, local, Alone, File
<1>3. ASSUME NEW p \in Procs, NEW c \in Commands, Begin(p, c) PROVE Alone'
  <2>1. /\ pc'[p] = FirstStep(c) /\ cmd'[p] = c /\ ~Refused(c)
    BY <1>3 DEF Begin, Inv, TypeOK
  <2>2. FirstStep(c) \notin {"remove", "truncate", "write"}
    BY DEF FirstStep
  <2>3. Procs = {p}
    BY SerialAssumption
  <2> QED
    BY <2>1, <2>2, <2>3 DEF Alone, Refused
<1>4. ASSUME NEW p \in Procs, Step(p) PROVE Alone'
  <2> DEFINE c == cmd[p]
  <2>1. Procs = {p}
    BY SerialAssumption
  <2>2. pc[p] # "idle" => c \in Commands /\ c # NoCmd /\ keys[p] \in KeyPair /\ CmdKeys(p) \in KeyPair
    BY KeysType DEF Inv, TypeOK
  <2>3. CASE Leave(p)
    BY <2>3, AloneFail
  <2>4. CASE StatImport(p) /\ ~Leave(p)
    BY <2>4, AloneBefore DEF StatImport, Fail, Goto, Inv, TypeOK
  <2>5. CASE StatRemove(p) /\ ~Leave(p)
    <3>1. /\ File(p) # Absent /\ pc'[p] = "remove" /\ UNCHANGED <<cmd, disk>>
      BY <2>5 DEF StatRemove, Fail, Goto, Inv, TypeOK
    <3>2. File(p)' = File(p)
      BY <3>1 DEF File
    <3> QED
      BY <2>1, <3>1, <3>2 DEF Alone
  <2>6. CASE RemoveFile(p) \/ Write(p) \/ Crash(p)
    BY <2>6, <2>3 DEF RemoveFile, Write, Crash, Fail
  <2>7. CASE Guard(p) /\ ~Leave(p)
    BY <2>7, AloneBefore DEF Guard, Fail, Goto, Inv, TypeOK
  <2>8. CASE OpenEditor(p) /\ ~Leave(p)
    BY <2>8, AloneBefore DEF OpenEditor, Fail, Goto, Inv, TypeOK
  <2>9. CASE ComputeImport(p)
    <3>1. /\ pc[p] = "load" /\ c.op = "import"
          /\ Computed(p, FromText(c.text, CmdKeys(p)))
      BY <2>9 DEF ComputeImport
    <3>2. ~Blank(c.text) /\ c.text \in Texts
      BY <2>2, <3>1, CommandFacts DEF Alone
    <3>3. Moved(File(p), FromText(c.text, CmdKeys(p)), c)
      BY <2>2, <3>1, <3>2 DEF Moved
    <3> QED
      BY <3>1, <3>3, AloneComputed
  <2>10. CASE ComputeEdit(p) /\ ~Leave(p)
    <3>1. /\ pc[p] = "load" /\ c.op = "edit" /\ ~Blank(text[p])
          /\ Computed(p, FromText(text[p], CmdKeys(p)))
      BY <2>10 DEF ComputeEdit, Fail
    <3>2. text[p] \in Texts
      BY <3>1 DEF Inv, Held
    <3>3. Moved(File(p), FromText(text[p], CmdKeys(p)), c)
      BY <2>2, <3>1, <3>2 DEF Moved
    <3> QED
      BY <3>1, <3>3, AloneComputed
  <2>11. CASE ComputeSet(p) /\ ~Leave(p)
    <3>1. /\ pc[p] = "load" /\ c.op = "set" /\ Parsable(File(p))
          /\ Computed(p, SetItem(File(p), c.k, c.v, c.flag, keys[p]))
      BY <2>11 DEF ComputeSet, Fail
    <3>2. Moved(File(p), SetItem(File(p), c.k, c.v, c.flag, keys[p]), c)
      BY <2>2, <3>1 DEF Moved, SetTo
    <3> QED
      BY <3>1, <3>2, AloneComputed
  <2>12. CASE ComputeMark(p) /\ ~Leave(p)
    <3>1. /\ pc[p] = "load" /\ c.op = "mark" /\ Parsable(File(p)) /\ File(p)[c.k] # NoItem
          /\ Computed(p, SetItem(File(p), c.k, File(p)[c.k].val, c.flag, keys[p]))
      BY <2>12 DEF ComputeMark, Fail
    <3>2. Moved(File(p), SetItem(File(p), c.k, File(p)[c.k].val, c.flag, keys[p]), c)
      BY <2>2, <3>1 DEF Moved, SetTo
    <3> QED
      BY <3>1, <3>2, AloneComputed
  <2>13. CASE ComputeUnset(p) /\ ~Leave(p)
    <3>1. /\ pc[p] = "load" /\ c.op = "unset" /\ Parsable(File(p)) /\ File(p)[c.k] # NoItem
          /\ Computed(p, [File(p) EXCEPT ![c.k] = NoItem])
      BY <2>13 DEF ComputeUnset, Fail
    <3>2. Moved(File(p), [File(p) EXCEPT ![c.k] = NoItem], c)
      BY <3>1 DEF Moved
    <3> QED
      BY <3>1, <3>2, AloneComputed
  <2>14. CASE Truncate(p)
    <3>1. /\ pc[p] = "truncate" /\ pc'[p] = "write" /\ UNCHANGED cmd
          /\ disk' = [disk EXCEPT ![c.ref] = Torn]
      BY <2>14 DEF Truncate, Goto, Inv, TypeOK
    <3>2. c.ref \in Refs /\ disk'[c.ref] = Torn
      BY <2>2, <3>1, CommandFacts DEF Inv, TypeOK
    <3>3. File(p)' = Torn
      BY <3>1, <3>2 DEF File
    <3> QED
      BY <2>1, <3>1, <3>3 DEF Alone
  <2> QED
    BY <1>4, <2>3, <2>4, <2>5, <2>6, <2>7, <2>8, <2>9, <2>10, <2>11, <2>12, <2>13, <2>14 DEF Step
<1> QED
  BY <1>1, <1>2, <1>3, <1>4 DEF Next

LEMMA AloneAlways == Spec => [](Inv /\ Alone)
BY AloneInit, InvStep, AloneStep, PTL DEF Spec

-----------------------------------------------------------------------------
(* The refinement.                                                         *)

\* Who looks at a file sees what it holds, or what is being written to it.
LEMMA ViewIs ==
  ASSUME NEW p \in Procs
  PROVE  View = [r \in Refs |->
                   Seen(IF pc[p] = "write" /\ cmd[p].ref = r THEN mem[p] ELSE disk[r])]
<1>1. Procs = {p}
  BY SerialAssumption
<1>2. pc[p] = "write" => (CHOOSE q \in Procs : pc[q] = "write") = p
  BY <1>1
<1> QED
  BY <1>1, <1>2 DEF Saving, View

LEMMA ViewIsNext ==
  ASSUME NEW p \in Procs
  PROVE  View' = [r \in Refs |->
                    Seen(IF pc'[p] = "write" /\ cmd'[p].ref = r THEN mem'[p] ELSE disk'[r])]
<1>1. Procs = {p}
  BY SerialAssumption
<1>2. pc'[p] = "write" => (CHOOSE q \in Procs : pc'[q] = "write") = p
  BY <1>1
<1> QED
  BY <1>1, <1>2 DEF Saving, View

LEMMA InitAtomic == Init => Atomic!Init
<1> SUFFICES ASSUME Init PROVE Atomic!Init
  OBVIOUS
<1>1. View = [r \in Refs |-> Seen(disk[r])]
  BY DEF Init, View, Saving
<1>2. ASSUME NEW r \in Refs PROVE Seen(disk[r]) \in Atomic!Content \cup {Absent}
  <2>1. disk[r] \in Snapshot \cup {Absent, Torn}
    BY InvInit DEF Inv, TypeOK
  <2>2. disk[r] # Torn
    <3>1. disk[r] = Absent \/ \E v \in Values : disk[r] = [k \in Names |-> OldItem(k, v)]
      BY DEF Init
    <3>2. ASSUME NEW v \in Values PROVE [k \in Names |-> OldItem(k, v)] \in Snapshot
      <4>1. \A k \in Names : OldItem(k, v) \in Item
        BY OldItemType
      <4> QED
        BY <4>1 DEF Snapshot
    <3> QED
      BY <3>1, <3>2, SentinelsAssumption
  <2> QED
    BY <2>1, <2>2, SeenFacts DEF Parsable
<1> QED
  BY <1>1, <1>2 DEF Atomic!Init

\* Every step of a command is a step of the abstract one, or is not seen.
LEMMA StepAtomic == Inv /\ Alone /\ [Next]_vars => [Atomic!Next]_View
<1> SUFFICES ASSUME Inv, Alone, [Next]_vars PROVE Atomic!Next \/ View' = View
  OBVIOUS
<1>1. CASE UNCHANGED vars
  BY <1>1 DEF vars, local, View, Saving
<1>2. ASSUME NEW kind \in Kinds, Regenerate(kind) PROVE View' = View
  BY <1>2 DEF Regenerate, local, View, Saving
<1>3. ASSUME NEW p \in Procs, UNCHANGED disk, pc[p] # "write", pc'[p] # "write"
      PROVE  View' = View
  BY <1>3, ViewIs, ViewIsNext
<1>4. ASSUME NEW p \in Procs, NEW c \in Commands, Begin(p, c) PROVE View' = View
  <2>1. pc[p] = "idle" /\ pc'[p] # "write" /\ UNCHANGED disk
    BY <1>4 DEF Begin, FirstStep, Inv, TypeOK
  <2> QED
    BY <1>3, <2>1
<1>5. ASSUME NEW p \in Procs, Step(p) PROVE Atomic!Next \/ View' = View
  <2>1. pc[p] # "idle" => /\ cmd[p] \in Commands /\ cmd[p].ref \in Refs
    BY CommandFacts DEF Inv, TypeOK
  <2>2. PICK c : c = cmd[p]
    OBVIOUS
  <2>3. disk \in [Refs -> Snapshot \cup {Absent, Torn}]
    BY DEF Inv, TypeOK
  <2>4. CASE /\ pc[p] # "write"
             /\ \/ StatImport(p) \/ StatRemove(p) \/ Guard(p) \/ OpenEditor(p) \/ Crash(p)
                \/ ComputeImport(p) \/ ComputeEdit(p) \/ ComputeSet(p)
                \/ ComputeMark(p) \/ ComputeUnset(p)
    <3>1. pc'[p] # "write" /\ UNCHANGED disk
      BY <2>4 DEF StatImport, StatRemove, Guard, OpenEditor, Crash, ComputeImport, ComputeEdit,
           ComputeSet, ComputeMark, ComputeUnset, Computed, Fail, Leave, Goto, Inv, TypeOK
    <3> QED
      BY <1>3, <2>4, <3>1
  <2>5. CASE RemoveFile(p)
    <3>1. /\ pc[p] = "remove" /\ pc'[p] = "idle" /\ c \in Commands /\ c.ref \in Refs
          /\ disk' = [disk EXCEPT ![c.ref] = Absent] /\ disk[c.ref] # Absent
      BY <2>1, <2>2, <2>5 DEF RemoveFile, Leave, Goto, Alone, File, Inv, TypeOK
    <3>2. /\ View = [r \in Refs |-> Seen(disk[r])] /\ View' = [r \in Refs |-> Seen(disk'[r])]
      BY <3>1, ViewIs, ViewIsNext
    <3>3. Seen(disk'[c.ref]) = Absent
      BY <2>3, <3>1 DEF Seen, Parsable
    <3>4. Seen(disk[c.ref]) # Absent
      BY <2>3, <3>1, SeenFacts
    <3>5. Atomic!Remove(c.ref)
      BY <2>3, <3>1, <3>2, <3>3, <3>4 DEF Atomic!Remove, Atomic!OnlyTouches
    <3> QED
      BY <3>1, <3>5 DEF Atomic!Next
  <2>6. CASE Truncate(p)
    <3>1. /\ pc[p] = "truncate" /\ pc'[p] = "write" /\ c \in Commands /\ c.ref \in Refs
          /\ cmd' = cmd /\ mem' = mem /\ mem[p] \in Snapshot
          /\ disk' = [disk EXCEPT ![c.ref] = Torn] /\ Moved(disk[c.ref], mem[p], c)
      BY <2>1, <2>2, <2>6 DEF Truncate, Goto, Alone, File, Inv, TypeOK
    <3>2. View = [r \in Refs |-> Seen(disk[r])]
      BY <3>1, ViewIs
    <3>3. View' = [r \in Refs |-> Seen(IF c.ref = r THEN mem[p] ELSE disk'[r])]
      BY <2>2, <3>1, ViewIsNext
    <3>4. /\ View[c.ref] = Seen(disk[c.ref]) /\ View'[c.ref] = Seen(mem[p])
          /\ \A q \in Refs \ {c.ref} : View'[q] = View[q]
      BY <2>3, <3>1, <3>2, <3>3
    <3>5. PICK s \in Snapshot \cup {Absent, Torn}, t \in Snapshot : s = disk[c.ref] /\ t = mem[p]
      BY <2>3, <3>1
    <3> QED
      BY <3>1, <3>4, <3>5, MovedIsAtomic
  <2>7. CASE Write(p)
    <3>1. /\ pc[p] = "write" /\ pc'[p] = "idle" /\ c \in Commands /\ c.ref \in Refs
          /\ disk' = [disk EXCEPT ![c.ref] = mem[p]]
      BY <2>1, <2>2, <2>7 DEF Write, Leave, Goto, Alone, Inv, TypeOK
    <3>2. View = [r \in Refs |-> Seen(IF c.ref = r THEN mem[p] ELSE disk[r])]
      BY <2>2, <3>1, ViewIs
    <3>3. View' = [r \in Refs |-> Seen(disk'[r])]
      BY <3>1, ViewIsNext
    <3> QED
      BY <2>3, <3>1, <3>2, <3>3
  <2>8. CASE Crash(p) /\ pc[p] = "write"
    <3>1. /\ pc'[p] = "idle" /\ c \in Commands /\ c.ref \in Refs
          /\ disk' = disk /\ disk[c.ref] = Torn
      BY <2>1, <2>2, <2>8 DEF Crash, Fail, Leave, Goto, Alone, File, Inv, TypeOK
    <3>2. View = [r \in Refs |-> Seen(IF c.ref = r THEN mem[p] ELSE disk[r])]
      BY <2>2, <2>8, ViewIs
    <3>3. View' = [r \in Refs |-> Seen(disk[r])]
      BY <3>1, ViewIsNext
    <3>4. Seen(Torn) = Torn
      BY DEF Seen, Parsable
    <3>5. Atomic!Lose(c.ref)
      BY <3>1, <3>2, <3>3, <3>4 DEF Atomic!Lose, Atomic!OnlyTouches
    <3> QED
      BY <3>1, <3>5 DEF Atomic!Next
  <2> QED
    BY <1>5, <2>4, <2>5, <2>6, <2>7, <2>8
       DEF Step, StatImport, StatRemove, Guard, OpenEditor, ComputeImport, ComputeEdit,
           ComputeSet, ComputeMark, ComputeUnset
<1> QED
  BY <1>1, <1>2, <1>4, <1>5 DEF Next

\* Commands on snapshots run one at a time are the indivisible steps of
\* AtomicSnapshots, however many files and names there are, however keys are
\* regenerated and wherever a command dies: what os.WriteFile leaves half done shows
\* only as the loss of the file.
THEOREM CommandsAreAtomicAlways == Spec => CommandsAreAtomic
<1>1. Spec => [][Atomic!Next]_View
  BY AloneAlways, StepAtomic, PTL DEF Spec
<1> QED
  BY <1>1, InitAtomic, PTL DEF Spec, CommandsAreAtomic, Atomic!Spec

-----------------------------------------------------------------------------
(* What was revoked.                                                       *)

\* What is revoked once the command of p returned.
RevokedAfter(p) ==
  IF cmd[p].op \notin {"set", "mark"} THEN revoked
  ELSE LET at == {<<cmd[p].ref, cmd[p].k>>} IN
       CASE cmd[p].flag = "secret" -> revoked \cup at
         [] cmd[p].flag = "plain" -> revoked \ at
         [] OTHER -> revoked

\* Nothing that is safe was revoked, or will be by the command that writes it.
Hidden ==
  /\ \A r \in Refs : Parsable(disk[r]) => \A k \in SafeNames(disk[r]) : <<r, k>> \notin revoked
  /\ \A p \in Procs : pc[p] = "write" =>
       \A k \in SafeNames(mem[p]) : <<cmd[p].ref, k>> \notin RevokedAfter(p)

LEMMA RevokedAfterFacts ==
  ASSUME NEW p \in Procs, NEW r, NEW k, <<r, k>> \in RevokedAfter(p)
  PROVE  LET marks == cmd[p].op \in {"set", "mark"} /\ <<r, k>> = <<cmd[p].ref, cmd[p].k>> IN
         \/ <<r, k>> \in revoked /\ ~(marks /\ cmd[p].flag = "plain")
         \/ marks /\ cmd[p].flag = "secret"
BY DEF RevokedAfter

\* What a command is about to write is hidden if what it loaded was.
LEMMA SavedHidden ==
  ASSUME Inv, Hidden, NEW p \in Procs, pc[p] = "truncate",
         Moved(File(p), mem[p], cmd[p])
  PROVE  \A k \in SafeNames(mem[p]) : <<cmd[p].ref, k>> \notin RevokedAfter(p)
<1> SUFFICES ASSUME NEW k \in SafeNames(mem[p]), <<cmd[p].ref, k>> \in RevokedAfter(p)
             PROVE  FALSE
  OBVIOUS
<1>1. /\ cmd[p] \in Commands /\ cmd[p].ref \in Refs
      /\ File(p) \in Snapshot \cup {Absent, Torn} /\ File(p) = disk[cmd[p].ref]
  BY CommandFacts DEF Inv, TypeOK, File
<1> DEFINE marks == cmd[p].op \in {"set", "mark"} /\ cmd[p].k = k
<1>2. \/ marks /\ cmd[p].flag = "plain"
      \/ Parsable(File(p)) /\ k \in SafeNames(File(p)) /\ ~(marks /\ cmd[p].flag = "secret")
  BY <1>1, MovedSafe
<1>3. \/ <<cmd[p].ref, k>> \in revoked /\ ~(marks /\ cmd[p].flag = "plain")
      \/ marks /\ cmd[p].flag = "secret"
  BY RevokedAfterFacts
<1>4. Parsable(File(p)) /\ k \in SafeNames(File(p)) => <<cmd[p].ref, k>> \notin revoked
  BY <1>1 DEF Hidden
<1> QED
  BY <1>2, <1>3, <1>4

LEMMA HiddenStep == Inv /\ Alone /\ Hidden /\ [Next]_vars => Hidden'
<1> SUFFICES ASSUME Inv, Alone, Hidden, [Next]_vars PROVE Hidden'
  OBVIOUS
<1>1. CASE UNCHANGED vars
  BY <1>1 DEF vars, local, Hidden, RevokedAfter
<1>2. ASSUME NEW kind \in Kinds, Regenerate(kind) PROVE Hidden'
  BY <1>2 DEF Regenerate, local, Hidden, RevokedAfter
<1>3. ASSUME NEW p \in Procs, UNCHANGED revoked, pc'[p] # "write",
             \A r \in Refs : disk'[r] \in {disk[r], Absent, Torn}
      PROVE  Hidden'
  BY <1>3, SerialAssumption DEF Hidden, Parsable
<1>4. ASSUME NEW p \in Procs, NEW c \in Commands, Begin(p, c) PROVE Hidden'
  <2>1. pc'[p] # "write" /\ UNCHANGED <<disk, revoked>>
    BY <1>4 DEF Begin, FirstStep, Inv, TypeOK
  <2> QED
    BY <1>3, <2>1
<1>5. ASSUME NEW p \in Procs, Step(p) PROVE Hidden'
  <2>1. pc[p] # "idle" => cmd[p] \in Commands /\ cmd[p].ref \in Refs
    BY CommandFacts DEF Inv, TypeOK
  <2>2. CASE \/ StatImport(p) \/ StatRemove(p) \/ Guard(p) \/ OpenEditor(p) \/ Crash(p)
             \/ ComputeImport(p) \/ ComputeEdit(p) \/ ComputeSet(p)
             \/ ComputeMark(p) \/ ComputeUnset(p)
    <3>1. pc'[p] # "write" /\ UNCHANGED <<disk, revoked>>
      BY <2>2 DEF StatImport, StatRemove, Guard, OpenEditor, Crash, ComputeImport, ComputeEdit,
           ComputeSet, ComputeMark, ComputeUnset, Computed, Fail, Leave, Goto, Inv, TypeOK
    <3> QED
      BY <1>3, <3>1
  <2>3. CASE RemoveFile(p)
    <3>1. /\ pc'[p] # "write" /\ UNCHANGED revoked
          /\ \A r \in Refs : disk'[r] \in {disk[r], Absent, Torn}
      BY <2>3 DEF RemoveFile, Leave, Goto, Inv, TypeOK
    <3> QED
      BY <1>3, <3>1
  <2>4. CASE Truncate(p)
    <3>1. /\ pc[p] = "truncate" /\ UNCHANGED <<cmd, mem, revoked>>
          /\ \A r \in Refs : disk'[r] \in {disk[r], Torn}
      BY <2>4 DEF Truncate, Goto, Inv, TypeOK
    <3>2. \A k \in SafeNames(mem[p]) : <<cmd[p].ref, k>> \notin RevokedAfter(p)
      BY <3>1, SavedHidden DEF Alone
    <3>3. RevokedAfter(p)' = RevokedAfter(p)
      BY <3>1 DEF RevokedAfter
    <3>4. Procs = {p}
      BY SerialAssumption
    <3> QED
      BY <3>1, <3>2, <3>3, <3>4 DEF Hidden, Parsable
  <2>5. CASE Write(p)
    <3>1. /\ pc[p] = "write" /\ pc'[p] = "idle" /\ cmd[p] \in Commands /\ cmd[p].ref \in Refs
          /\ disk' = [disk EXCEPT ![cmd[p].ref] = mem[p]] /\ revoked' = RevokedAfter(p)
      BY <2>1, <2>5 DEF Write, RevokedAfter, Leave, Goto, Alone, Inv, TypeOK
    <3>2. ASSUME NEW r \in Refs, Parsable(disk'[r]), NEW k \in SafeNames(disk'[r])
          PROVE  <<r, k>> \notin revoked'
      <4>1. CASE r = cmd[p].ref
        <5>1. disk'[r] = mem[p]
          BY <3>1, <4>1 DEF Inv, TypeOK
        <5> QED
          BY <3>1, <3>2, <4>1, <5>1 DEF Hidden
      <4>2. CASE r # cmd[p].ref
        <5>1. disk'[r] = disk[r]
          BY <3>1, <4>2 DEF Inv, TypeOK
        <5>2. <<r, k>> \notin revoked
          BY <3>2, <5>1 DEF Hidden
        <5> QED
          BY <3>1, <4>2, <5>2, RevokedAfterFacts
      <4> QED
        BY <4>1, <4>2
    <3>3. Procs = {p}
      BY SerialAssumption
    <3> QED
      BY <3>1, <3>2, <3>3 DEF Hidden
  <2> QED
    BY <1>5, <2>2, <2>3, <2>4, <2>5 DEF Step
<1> QED
  BY <1>1, <1>2, <1>4, <1>5 DEF Next

\* "Revoke the allowlist", when commands run one at a time: once --secret returned, no
\* reader shows the value to a script or the page until --plain is asked for again,
\* through any number of sets, imports, edits, comparisons and commands that die.
THEOREM RevokedStaysHiddenAlways == Spec => []RevokedStaysHidden
<1>1. Init => Hidden
  BY DEF Init, Hidden
<1>2. ASSUME Hidden PROVE RevokedStaysHidden
  <2> DEFINE S == (Refs \X Names) \ revoked
  <2>1. ASSUME NEW r \in Refs, Parsable(disk[r]), NEW k \in SafeNames(disk[r])
        PROVE  <<r, k>> \in S
    BY <1>2, <2>1 DEF Hidden, SafeNames
  <2> HIDE DEF S
  <2>2. Shown \subseteq S
    BY <2>1, ShownIsSafe
  <2> QED
    BY <2>2 DEF RevokedStaysHidden, S
<1> QED
  BY <1>1, <1>2, AloneAlways, HiddenStep, PTL DEF Spec
=============================================================================
