------------------------------ MODULE Delivery ------------------------------
(***************************************************************************)
(* How a stored message reaches the devices: message:new to the rooms of   *)
(* the gateway, the ack of the sender, history and conversation:sync.      *)
(*                                                                         *)
(* A message is stored by a transaction (module Thread) and announced by a *)
(* later step, so announcements come in any order and are lost when the    *)
(* process dies.  A socket delivers in order what it was sent, until its   *)
(* transport closes.  A client asks for a sync once per connection, from   *)
(* the newest message its device holds.  Delete-for-me is left to Thread.  *)
(***************************************************************************)
EXTENDS Gateway, Sequences

CONSTANTS
  Devices,
  Device,      \* the device behind each socket
  MaxMsg,      \* bound: messages sent
  PageSize,    \* DEFAULT_PAGE_SIZE
  None         \* no socket: sent over REST

ASSUME DeviceAssumption == Device \in [Sockets -> Devices]
ASSUME PageAssumption == MaxMsg \in Nat /\ PageSize \in Nat \ {0}

MsgIds  == 1..MaxMsg
Message == [id : MsgIds, conv : Convs, from : Users]

VARIABLES
  log,       \* the messages collection
  pending,   \* committed sends whose side effects are still to come
  wire,      \* message:new on its way to each socket
  held,      \* the messages each device has
  sync       \* the conversation:sync of each socket

mail == <<log, pending, wire, held, sync>>
vars == <<gate, mail>>

(* cursor: newest id held per conversation, 0 where none is; found: the    *)
(* messages of the answer.                                                 *)
SyncState == [at     : {"none", "asked", "read", "answered", "failed", "ignored"},
              cursor : [Convs -> 0..MaxMsg],
              found  : SUBSET MsgIds]
NoSync == [at |-> "none", cursor |-> [c \in Convs |-> 0], found |-> {}]

Init ==
  /\ GateInit
  /\ log = {}
  /\ pending = {}
  /\ wire = [s \in Sockets |-> <<>>]
  /\ held = [e \in Devices |-> {}]
  /\ sync = [s \in Sockets |-> NoSync]

Stored(c) == {m.id : m \in {n \in log : n.conv = c}}
MsgOf(i) == CHOOSE m \in log : m.id = i
Newest(I) == IF I = {} THEN 0 ELSE CHOOSE i \in I : \A j \in I : j <= i
Served(s) == s \in open /\ phase[s] = "ready"

(* limit(PageSize) after an ascending or a descending sort.                *)
FirstPage(I) == {i \in I : Cardinality({j \in I : j < i}) < PageSize}
LastPage(I)  == {i \in I : Cardinality({j \in I : j > i}) < PageSize}

(***************************************************************************)
(* A send over a socket or over REST.  The transaction lists the thread in *)
(* both inboxes; its id is the newest.                                     *)
(***************************************************************************)
Send(u, c, via) ==
  LET i == Cardinality(log) + 1 IN
  /\ i <= MaxMsg
  /\ u \in Pair[c]
  /\ \E v \in Users : c \in inbox[v]
  /\ via # None => Served(via) /\ Owner[via] = u
  /\ log' = log \cup {[id |-> i, conv |-> c, from |-> u]}
  /\ pending' = pending \cup {[id |-> i, via |-> via]}
  /\ List(c)
  /\ UNCHANGED <<wire, held, sync>>

(* The conversation's room without the sender's own room, then the         *)
(* sender's room.  Defect: the sender is not excluded.                     *)
CopiesTwice(m, w) ==
  (IF w \in open /\ m.conv \in rooms[w] THEN <<m.id>> ELSE <<>>)
    \o (IF w \in open /\ Owner[w] = m.from THEN <<m.id>> ELSE <<>>)
Copies(m, w) ==
  (IF w \in open /\ m.conv \in rooms[w] /\ Owner[w] # m.from THEN <<m.id>> ELSE <<>>)
    \o (IF w \in open /\ Owner[w] = m.from THEN <<m.id>> ELSE <<>>)

(* After the commit: the emissions, and for a socket's send the join of    *)
(* the conversation's room and the ack.                                    *)
Announce(p) ==
  LET m == MsgOf(p.id) IN
  /\ p \in pending
  /\ pending' = pending \ {p}
  /\ wire' = [w \in Sockets |-> wire[w] \o Copies(m, w)]
  /\ IF p.via \in open
     THEN /\ rooms' = [rooms EXCEPT ![p.via] = @ \cup {m.conv}]
          /\ held' = [held EXCEPT ![Device[p.via]] = @ \cup {m.id}]
     ELSE UNCHANGED <<rooms, held>>
  /\ UNCHANGED <<inbox, phase, open, convIds, log, sync>>

Receive(s) ==
  /\ s \in open
  /\ wire[s] # <<>>
  /\ wire' = [wire EXCEPT ![s] = Tail(@)]
  /\ held' = [held EXCEPT ![Device[s]] = @ \cup {Head(wire[s])}]
  /\ UNCHANGED <<gate, log, pending, sync>>

(* GET .../messages: the newest page.                                      *)
History(s, c) ==
  /\ Owner[s] \in Pair[c]
  /\ held' = [held EXCEPT ![Device[s]] = @ \cup LastPage(Stored(c))]
  /\ UNCHANGED <<gate, log, pending, wire, sync>>

(***************************************************************************)
(* conversation:sync.                                                      *)
(***************************************************************************)
AskSync(s) ==
  LET cursor == [c \in Convs |-> Newest(held[Device[s]] \cap Stored(c))] IN
  /\ s \in open
  /\ sync[s].at = "none"
  /\ \E c \in Convs : cursor[c] # 0
  /\ sync' = [sync EXCEPT ![s] = [NoSync EXCEPT !.at = "asked", !.cursor = cursor]]
  /\ UNCHANGED <<gate, log, pending, wire, held>>

(* Without a registered handler the event goes nowhere and is not acked.   *)
IgnoreSync(s) ==
  /\ sync[s].at = "asked"
  /\ phase[s] # "ready"
  /\ sync' = [sync EXCEPT ![s].at = "ignored"]
  /\ UNCHANGED <<gate, log, pending, wire, held>>

(* syncSince for each conversation with a cursor, oldest first.            *)
(* Defect: newest first, as in history.                                    *)
MissedNewest(cursor) ==
  UNION {LastPage({i \in Stored(c) : i > cursor[c]}) : c \in {d \in Convs : cursor[d] # 0}}
Missed(cursor) ==
  UNION {FirstPage({i \in Stored(c) : i > cursor[c]}) : c \in {d \in Convs : cursor[d] # 0}}

ReadSync(s) ==
  /\ sync[s].at = "asked"
  /\ phase[s] = "ready"
  /\ sync' = [sync EXCEPT ![s].at = "read", ![s].found = Missed(sync[s].cursor)]
  /\ UNCHANGED <<gate, log, pending, wire, held>>

AckSync(s) ==
  /\ sync[s].at = "read"
  /\ sync' = [sync EXCEPT ![s].at = "answered"]
  /\ held' = [held EXCEPT ![Device[s]] = @ \cup sync[s].found]
  /\ UNCHANGED <<gate, log, pending, wire>>

(* One syncSince that rejects (a read that fails, a caller who is not in   *)
(* the conversation) fails the whole sync: the error ack carries no message.      *)
FailSync(s) ==
  /\ sync[s].at = "asked"
  /\ phase[s] = "ready"
  /\ sync' = [sync EXCEPT ![s].at = "failed"]
  /\ UNCHANGED <<gate, log, pending, wire, held>>

(***************************************************************************)
(* The gateway's own steps.  What is under way to a closed socket is lost, *)
(* and the join and the ack of its sends do nothing; a process that dies   *)
(* loses the side effects to come.                                         *)
(***************************************************************************)
Close(s) ==
  /\ Disconnect(s)
  /\ pending' = {[p EXCEPT !.via = IF @ = s THEN None ELSE @] : p \in pending}
  /\ wire' = [wire EXCEPT ![s] = <<>>]
  /\ sync' = [sync EXCEPT ![s] = NoSync]
  /\ UNCHANGED <<log, held>>

(* Here nothing remembers the id of a closed socket, so that its place     *)
(* serves the next connection of the device.                               *)
Reuse(s) ==
  /\ s \notin open
  /\ phase[s] \in {"ready", "done"}
  /\ phase' = [phase EXCEPT ![s] = "new"]
  /\ convIds' = [convIds EXCEPT ![s] = {}]
  /\ UNCHANGED <<inbox, open, rooms, mail>>

Crash ==
  /\ Restart
  /\ pending' = {}
  /\ wire' = [s \in Sockets |-> <<>>]
  /\ sync' = [s \in Sockets |-> NoSync]
  /\ UNCHANGED <<log, held>>

Next ==
  \/ \E u \in Users, c \in Convs, via \in Sockets \cup {None} : Send(u, c, via)
  \/ \E p \in pending : Announce(p)
  \/ \E s \in Sockets :
       \/ Receive(s)
       \/ \E c \in Convs : History(s, c)
       \/ AskSync(s) \/ IgnoreSync(s) \/ ReadSync(s) \/ AckSync(s) \/ FailSync(s)
       \/ Close(s) \/ Reuse(s)
       \/ (Connect(s) \/ ListInbox(s) \/ ListFails(s) \/ Enter(s)) /\ UNCHANGED mail
  \/ \E c \in Convs : List(c) /\ UNCHANGED mail
  \/ Crash

(* The event loop runs every continuation whose result is there, and an    *)
(* open transport delivers.                                                *)
Fairness ==
  /\ \A i \in MsgIds, via \in Sockets \cup {None} :
       WF_vars(Announce([id |-> i, via |-> via]))
  /\ \A s \in Sockets :
       /\ WF_vars(Receive(s))
       /\ WF_vars((ListInbox(s) \/ ListFails(s) \/ Enter(s)) /\ UNCHANGED mail)
       /\ WF_vars(IgnoreSync(s) \/ ReadSync(s) \/ AckSync(s) \/ FailSync(s))

Spec == Init /\ [][Next]_vars
FairSpec == Spec /\ Fairness

-----------------------------------------------------------------------------
(* Properties.                                                             *)

(* The rooms are joined before the sync handler exists, so nothing falls   *)
(* between the answer of a sync and the live stream: what was stored after *)
(* the cursor is held, on its way or about to be announced, unless it lies *)
(* beyond a full page.                                                     *)
SyncLeavesNoGap ==
  \A s \in {t \in open : sync[t].at = "answered"} :
    \A m \in {n \in log : n.conv \in convIds[s]} :
      LET k    == sync[s].cursor[m.conv]
          page == sync[s].found \cap Stored(m.conv)
      IN k # 0 /\ m.id > k /\ (Cardinality(page) < PageSize \/ m.id <= Newest(page))
           => \/ m.id \in held[Device[s]]
              \/ \E i \in 1..Len(wire[s]) : wire[s][i] = m.id
              \/ \E p \in pending : p.id = m.id

(* A device sees message:new of a message once, although the sender is in  *)
(* the conversation's room and in the room of the user.                    *)
OncePerSocket ==
  \A s \in Sockets : \A i, j \in 1..Len(wire[s]) : wire[s][i] = wire[s][j] => i = j

(* A message still to be announced reaches every served socket that stays  *)
(* connected and whose inbox listed the conversation when it connected, or *)
(* that has written in it since.  A conversation that came later is not    *)
(* promised: its room is joined at the next connection.                    *)
PendingArrives ==
  \A i \in MsgIds, s \in Sockets :
    (\E p \in pending :
       p.id = i /\ phase[s] = "ready" /\ MsgOf(i).conv \in convIds[s] \cup rooms[s])
      ~> (i \in held[Device[s]] \/ s \notin open)
=============================================================================
