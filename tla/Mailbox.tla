------------------------------ MODULE Mailbox ------------------------------
(***************************************************************************)
(* What a conversation promises its participants, whoever works on it at   *)
(* the same time: every operation takes effect at one instant, on the      *)
(* state it finds at that instant.  Thread implements this with MongoDB    *)
(* transactions and single-document updates.                               *)
(***************************************************************************)
EXTENDS Naturals

CONSTANTS
  Participants,
  Ids,          \* message ids
  None          \* there is no thread

VARIABLE thread    \* None, or the thread: its messages and per-user state

Empty == [log    |-> {},
          hidden |-> {},
          unread |-> [u \in Participants |-> 0],
          muted  |-> {}]

Init == thread = None

Create == thread = None /\ thread' = Empty

(* A message is newer than all before it, counts as unread for everybody   *)
(* else and brings the thread back into every inbox.                       *)
Post(u, i) ==
  /\ thread # None
  /\ \A m \in thread.log : m.id < i
  /\ thread' = [thread EXCEPT
                  !.log    = @ \cup {[id |-> i, from |-> u, unsent |-> FALSE]},
                  !.hidden = {},
                  !.unread = [p \in Participants |-> IF p = u THEN @[p] ELSE @[p] + 1]]

(* "Delete for me" hides the thread from u; the last participant to hide a *)
(* thread that bears messages removes it with all of them.                 *)
Discard(u) ==
  /\ thread # None
  /\ thread' = IF thread.log # {} /\ thread.hidden \cup {u} = Participants
               THEN None
               ELSE [thread EXCEPT !.hidden = @ \cup {u}, !.unread[u] = 0]

(* Unsend: the sender takes the message back for everyone.                 *)
Retract(u, i) ==
  /\ thread # None
  /\ \E m \in thread.log :
       /\ m.id = i
       /\ m.from = u
       /\ thread' = [thread EXCEPT
                       !.log = (@ \ {m}) \cup {[m EXCEPT !.unsent = TRUE]}]

See(u) == thread # None /\ thread' = [thread EXCEPT !.unread[u] = 0]

Mute(u, on) ==
  /\ thread # None
  /\ thread' = [thread EXCEPT !.muted = IF on THEN @ \cup {u} ELSE @ \ {u}]

Next ==
  \/ Create
  \/ \E u \in Participants :
       \/ \E i \in Ids : Post(u, i) \/ Retract(u, i)
       \/ Discard(u)
       \/ See(u)
       \/ \E on \in BOOLEAN : Mute(u, on)

Spec == Init /\ [][Next]_thread
=============================================================================
