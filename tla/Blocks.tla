------------------------------- MODULE Blocks -------------------------------
(***************************************************************************)
(* Blocking: the rows of the blocks collection, the requests that change   *)
(* them, and the three ways a client learns of it: block:update, which     *)
(* tells both users of a pair, the status in the answer to the caller, and *)
(* GET /blocks at the start of a session.                                  *)
(*                                                                         *)
(* A request writes its row and then reads both directions of the pair     *)
(* back; other requests run between the write, the read, the emission and  *)
(* the arrival of the answer.  An emission reaches all devices of a user   *)
(* in the order of emissions; an answer may come long after the read it    *)
(* was made from.                                                          *)
(***************************************************************************)
EXTENDS Naturals

CONSTANTS
  Users,
  Callers,      \* bound: the users who change their blocks
  Requests      \* slots for concurrently running requests

ASSUME CallersAssumption == Callers \subseteq Users

VARIABLES
  rows,         \* the pairs <<blockerId, blockedId>>
  req,          \* what each request wants, has read and where it stands
  load,         \* GET /blocks of each user: the rows it has read
  view,         \* the BlockStatus each user's devices show of each other user
  alone         \* history: the requests no other change of the pair overlapped

vars == <<rows, req, load, view, alone>>

BlockStatus == [blockedByMe : BOOLEAN, blockedByThem : BOOLEAN]

(* directionsBetween, framed for me; canMessage is what neither of them is.*)
StatusBetween(me, other) ==
  [blockedByMe   |-> <<me, other>> \in rows,
   blockedByThem |-> <<other, me>> \in rows]

(* existsBetween, the guard of the write paths.                            *)
ExistsBetween(a, b) == <<a, b>> \in rows \/ <<b, a>> \in rows

(* blockedPairsFor: one query for the inbox, then each row found is filed  *)
(* under the other user.  Defect: under the blocked user always.           *)
PairRows(me, others) ==
  {p \in rows : (p[1] = me /\ p[2] \in others) \/ (p[2] = me /\ p[1] \in others)}

FiledOneKey(pairs, me, o) ==
  [blockedByMe   |-> \E p \in pairs : p[1] = me /\ p[2] = o,
   blockedByThem |-> \E p \in pairs : p[1] # me /\ p[2] = o]
Filed(pairs, me, o) ==
  [blockedByMe   |-> \E p \in pairs : p[1] = me /\ p[2] = o,
   blockedByThem |-> \E p \in pairs : p[1] # me /\ p[1] = o]

StatusMap(me, others) == [o \in others |-> Filed(PairRows(me, others), me, o)]

(* listBothDirections.                                                     *)
Touching(me) == {p \in rows : p[1] = me \/ p[2] = me}
Outgoing(me, read) == {p[2] : p \in {q \in read : q[1] = me}}
Incoming(me, read) == {p[1] : p \in {q \in read : q[1] # me}}

Mirrored(status) ==
  [blockedByMe |-> status.blockedByThem, blockedByThem |-> status.blockedByMe]

Steps == {"exists", "create", "remove", "read", "emit", "answer"}
Unread == [blockedByMe |-> FALSE, blockedByThem |-> FALSE]
Call  == [pc : Steps, me : Users, other : Users, status : BlockStatus]
Load  == [pc : {"loading"}, rows : SUBSET (Users \X Users)]
Idle  == [pc |-> "idle"]

Busy(r) == req[r] # Idle
Goto(r, q) == req' = [req EXCEPT ![r] = q]

Finish(r) ==
  /\ Goto(r, Idle)
  /\ alone' = alone \ {r}

(* The running changes of a pair.                                          *)
Rivals(u, v) ==
  {r \in Requests : Busy(r) /\ {req[r].me, req[r].other} = {u, v}}
Begun(r, u, v) ==
  alone' = IF Rivals(u, v) = {} THEN alone \cup {r} ELSE (alone \ Rivals(u, v)) \ {r}

(* The devices have loaded their lists.                                    *)
Init ==
  /\ rows \in SUBSET {p \in Users \times Users : p[1] # p[2]}
  /\ req = [r \in Requests |-> Idle]
  /\ load = [u \in Users |-> Idle]
  /\ view = [u \in Users |-> [v \in Users |-> StatusBetween(u, v)]]
  /\ alone = {}

-----------------------------------------------------------------------------
(* block: not oneself, and only a user who exists.                         *)
Block(r, u, v) ==
  /\ ~Busy(r)
  /\ u # v
  /\ Goto(r, [pc |-> "exists", me |-> u, other |-> v, status |-> Unread])
  /\ Begun(r, u, v)
  /\ UNCHANGED <<rows, load, view>>

UserExists(r) ==
  /\ req[r].pc = "exists"
  /\ \/ /\ Goto(r, [req[r] EXCEPT !.pc = "create"])
        /\ UNCHANGED alone
     \/ Finish(r)
  /\ UNCHANGED <<rows, load, view>>

(* Both writes are idempotent.                                             *)
Create(r) ==
  /\ req[r].pc = "create"
  /\ rows' = rows \cup {<<req[r].me, req[r].other>>}
  /\ Goto(r, [req[r] EXCEPT !.pc = "read"])
  /\ UNCHANGED <<load, view, alone>>

Unblock(r, u, v) ==
  /\ ~Busy(r)
  /\ Goto(r, [pc |-> "remove", me |-> u, other |-> v, status |-> Unread])
  /\ Begun(r, u, v)
  /\ UNCHANGED <<rows, load, view>>

Remove(r) ==
  /\ req[r].pc = "remove"
  /\ rows' = rows \ {<<req[r].me, req[r].other>>}
  /\ Goto(r, [req[r] EXCEPT !.pc = "read"])
  /\ UNCHANGED <<load, view, alone>>

(* #afterChange: one query for the pair, then one emission to each user.   *)
(* Defect: the state is not read back but taken as written.                *)
ReadNothing(q) == [Unread EXCEPT !.blockedByMe = ~@]
ReadPair(q) == StatusBetween(q.me, q.other)

ReadBack(r) ==
  LET q == req[r] IN
  /\ q.pc = "read"
  /\ Goto(r, [q EXCEPT !.pc = "emit", !.status = ReadPair(q)])
  /\ UNCHANGED <<rows, load, view, alone>>

(* Defect: both are sent the caller's side of it.                          *)
ShownSame(q) == [view EXCEPT ![q.me][q.other] = q.status,
                             ![q.other][q.me] = q.status]
Shown(q) == [view EXCEPT ![q.me][q.other] = q.status,
                         ![q.other][q.me] = Mirrored(q.status)]

Emit(r) ==
  /\ req[r].pc = "emit"
  /\ view' = Shown(req[r])
  /\ Goto(r, [req[r] EXCEPT !.pc = "answer"])
  /\ UNCHANGED <<rows, load, alone>>

(* The caller applies the status of the answer, if it still arrives.       *)
Answered(q) == [view EXCEPT ![q.me][q.other] = q.status]

Answer(r) ==
  /\ req[r].pc = "answer"
  /\ view' \in {view, Answered(req[r])}
  /\ Finish(r)
  /\ UNCHANGED <<rows, load>>

(* The query fails: the row is written and nobody is told.                 *)
Fail(r) ==
  /\ req[r].pc = "read"
  /\ Finish(r)
  /\ UNCHANGED <<rows, load, view>>

-----------------------------------------------------------------------------
(* GET /blocks, at the start of a session and after a new login: one query *)
(* of the rows, then the names of those blocked, then the answer replaces  *)
(* all the user shows - or the request failed.                             *)
ReadList(u) ==
  /\ load[u] = Idle
  /\ load' = [load EXCEPT ![u] = [pc |-> "loading", rows |-> Touching(u)]]
  /\ UNCHANGED <<rows, req, view, alone>>

Replaced(u) ==
  [o \in Users |-> [blockedByMe   |-> o \in Outgoing(u, load[u].rows),
                    blockedByThem |-> o \in Incoming(u, load[u].rows)]]

AnswerList(u) ==
  /\ load[u] # Idle
  /\ view' \in {view, [view EXCEPT ![u] = Replaced(u)]}
  /\ load' = [load EXCEPT ![u] = Idle]
  /\ UNCHANGED <<rows, req, alone>>

Next ==
  \/ \E r \in Requests :
       \/ \E u \in Callers, v \in Users : Block(r, u, v) \/ Unblock(r, u, v)
       \/ UserExists(r) \/ Create(r) \/ Remove(r) \/ ReadBack(r) \/ Emit(r)
       \/ Answer(r) \/ Fail(r)
  \/ \E u \in Users : ReadList(u) \/ AnswerList(u)

Spec == Init /\ [][Next]_vars

-----------------------------------------------------------------------------
(* Properties.                                                             *)

(* The shape of the rows, the requests and the views.                      *)
TypeOK ==
  /\ rows \subseteq Users \times Users
  /\ req \in [Requests -> Call \cup {Idle}]
  /\ load \in [Users -> Load \cup {Idle}]
  /\ view \in [Users -> [Users -> BlockStatus]]
  /\ alone \subseteq Requests

(* The four queries that answer "who blocks whom" agree: the guard of the  *)
(* write paths, the status of a pair, the inbox annotation and the lists.  *)
ReadersAgree ==
  \A me \in Users : \A other \in Users \ {me} :
    LET status == StatusBetween(me, other)
        row    == StatusMap(me, Users \ {me})[other]
    IN
    /\ ExistsBetween(me, other) <=> status.blockedByMe \/ status.blockedByThem
    /\ row.blockedByMe <=> status.blockedByMe
    /\ row.blockedByThem <=> status.blockedByThem
    /\ other \in Outgoing(me, Touching(me)) <=> status.blockedByMe
    /\ other \in Incoming(me, Touching(me)) <=> status.blockedByThem

(* A change that no other change of the pair overlapped leaves both users  *)
(* with the stored state, whatever was shown before: what two overlapping  *)
(* changes, a list read too early or a failure left stale, the next one    *)
(* repairs.  Its answer, which the caller applies after the event, shows   *)
(* the caller the stored state as well.                                    *)
SoloChangeSettles ==
  [][\A r \in alone : \A u, v \in Users :
       /\ Emit(r) /\ {u, v} = {req[r].me, req[r].other} /\ u # v =>
            view'[u][v] = StatusBetween(u, v)'
       /\ Answer(r) /\ view' # view /\ <<u, v>> = <<req[r].me, req[r].other>> =>
            view'[u][v] = StatusBetween(u, v)']_vars
=============================================================================
