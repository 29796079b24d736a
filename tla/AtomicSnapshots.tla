--------------------------- MODULE AtomicSnapshots ---------------------------
(***************************************************************************)
(* What the snapshot files promise when one command runs at a time: each   *)
(* command is one indivisible step, stated by what it may change.  Keys    *)
(* are invisible here, and so are the reads a command makes before its     *)
(* save.  Lose: a save was interrupted and the file no longer parses.      *)
(***************************************************************************)
CONSTANTS Refs, Names, Values, Absent, Lost, NoItem

VARIABLE content

Entry == [val : Values, secret : BOOLEAN, safe : BOOLEAN]
Content == [Names -> Entry \cup {NoItem}]
Present(r) == content[r] \notin {Absent, Lost}
OnlyTouches(r) == \A q \in Refs \ {r} : content'[q] = content[q]
OnlyItem(r, k) ==
  /\ OnlyTouches(r) /\ Present(r) /\ content'[r] \in Content
  /\ \A j \in Names \ {k} : content'[r][j] = content[r][j]

\* set: the item is safe, or secret, as the flags say; without one it keeps its
\* classification, and a new item is not safe.
Put(r, k, v, flag) ==
  /\ OnlyItem(r, k)
  /\ content'[r][k] # NoItem /\ content'[r][k].val = v
  /\ LET new == content'[r][k]  old == content[r][k] IN
     IF flag # "none" THEN new.safe = (flag = "plain") /\ new.secret = (flag = "secret")
     ELSE IF old # NoItem THEN new.safe = old.safe /\ new.secret = old.secret
     ELSE ~new.safe

\* mark: as set with the value the item has.
Mark(r, k, flag) ==
  content[r][k] # NoItem /\ Put(r, k, content[r][k].val, flag)

Delete(r, k) == OnlyItem(r, k) /\ content[r][k] # NoItem /\ content'[r][k] = NoItem

\* import, edit: the whole snapshot is replaced, and nothing in it is safe.
Replace(r) ==
  /\ OnlyTouches(r) /\ content'[r] \in Content
  /\ \E k \in Names : content'[r][k] # NoItem
  /\ \A k \in Names : content'[r][k] # NoItem => ~content'[r][k].safe

Remove(r) == OnlyTouches(r) /\ content[r] # Absent /\ content'[r] = Absent

Lose(r) == OnlyTouches(r) /\ content'[r] = Lost

Init == content \in [Refs -> Content \cup {Absent}]

Next ==
  \E r \in Refs :
    \/ Replace(r) \/ Remove(r) \/ Lose(r)
    \/ /\ Present(r)
       /\ \E k \in Names :
            \/ Delete(r, k)
            \/ \E flag \in {"plain", "secret"} : Mark(r, k, flag)
            \/ \E v \in Values, flag \in {"none", "plain", "secret"} : Put(r, k, v, flag)

Spec == Init /\ [][Next]_content
=============================================================================
