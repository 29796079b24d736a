---------------------------- MODULE RelayedSession ----------------------------
(***************************************************************************)
(* What a tunnelled connection promises its client, whatever the protocol, *)
(* the login and the buffers on the way: a pipeline.  Queries are served   *)
(* in the order they were sent, after the login only; their answers are    *)
(* passed on and received once each; and a client that stays is cut off    *)
(* only when it has been given every answer to what was served, or when    *)
(* the backend left one of its queries unanswered.                         *)
(***************************************************************************)
EXTENDS Integers

CONSTANT MaxQueries

VARIABLES
  open,      \* the client may still send
  phase,     \* "login", "relay", "closed"
  sent, served, given, got  \* queries sent and served, answers passed on and received

session == <<open, phase, sent, served, given, got>>

Init ==
  /\ open \in BOOLEAN /\ phase = "login"
  /\ sent = 0 /\ served = 0 /\ given = 0 /\ got = 0

Ask ==
  /\ open /\ sent < MaxQueries
  /\ sent' = sent + 1
  /\ UNCHANGED <<open, phase, served, given, got>>

Leave ==
  /\ open /\ open' = FALSE
  /\ UNCHANGED <<phase, sent, served, given, got>>

LetIn ==
  /\ phase = "login" /\ phase' = "relay"
  /\ UNCHANGED <<open, sent, served, given, got>>

\* Also when the client left: what it had sent is served all the same.
Serve ==
  /\ phase = "relay" \/ (phase = "closed" /\ ~open)
  /\ served < sent /\ served' = served + 1
  /\ UNCHANGED <<open, phase, sent, given, got>>

PassOn ==
  /\ phase = "relay" /\ given < served
  /\ given' = given + 1
  /\ UNCHANGED <<open, phase, sent, served, got>>

Receive ==
  /\ got < given /\ got' = got + 1
  /\ UNCHANGED <<open, phase, sent, served, given>>

End ==
  /\ phase # "closed" /\ phase' = "closed"
  /\ open => given = served \/ served < sent
  /\ UNCHANGED <<open, sent, served, given, got>>

Next == Ask \/ Leave \/ LetIn \/ Serve \/ PassOn \/ Receive \/ End

Spec == Init /\ [][Next]_session
=============================================================================
