------------------------------ MODULE Gateway ------------------------------
(***************************************************************************)
(* The realtime gateway: the life of a socket and the conversation rooms   *)
(* it is in.  Presence and Delivery extend it with what the same handlers  *)
(* do for presence and for messages.                                       *)
(*                                                                         *)
(* The connection handler awaits listInbox before it joins rooms and       *)
(* registers the other handlers, disconnect among them.  The transport may *)
(* close while it waits, and the handler then carries on with a dead       *)
(* socket, whose join does nothing.  A socket id is used for one           *)
(* connection.                                                             *)
(***************************************************************************)
EXTENDS Naturals, FiniteSets

CONSTANTS
  Users,
  Sockets,       \* socket ids, each for one connection
  Owner,         \* socket.userId of each socket
  Convs,         \* conversations
  Pair           \* participantIds of each conversation

ASSUME OwnerAssumption == Owner \in [Sockets -> Users]
ASSUME PairAssumption == Pair \in [Convs -> SUBSET Users]

VARIABLES
  inbox,      \* the conversations listByParticipant finds for each user
  phase,      \* where the connection handler of each socket stands
  open,       \* the sockets whose transport is connected
  convIds,    \* the conversation ids the handler captured
  rooms       \* the conversation rooms each socket is in

gate == <<inbox, phase, open, convIds, rooms>>

Phases == {"new", "joining", "listed", "ready", "done"}

ConvsOf(u) == {c \in Convs : u \in Pair[c]}
SocketsOf(u) == {s \in Sockets : Owner[s] = u}

(* The server starts with any conversations listed in both inboxes.        *)
GateInit ==
  /\ \E C \in SUBSET Convs : inbox = [u \in Users |-> C \cap ConvsOf(u)]
  /\ phase = [s \in Sockets |-> "new"]
  /\ open = {}
  /\ convIds = [s \in Sockets |-> {}]
  /\ rooms = [s \in Sockets |-> {}]

-----------------------------------------------------------------------------
(* The conversations of an inbox come and go: findOrCreate and a new       *)
(* message list one for both sides, delete-for-me takes it out for one.    *)
List(c) ==
  /\ inbox' = [u \in Users |-> inbox[u] \cup ({c} \cap ConvsOf(u))]
  /\ UNCHANGED <<phase, open, convIds, rooms>>

Unlist(u, c) ==
  /\ c \in inbox[u]
  /\ inbox' = [inbox EXCEPT ![u] = @ \ {c}]
  /\ UNCHANGED <<phase, open, convIds, rooms>>

(* The handler starts: the user room is joined at once.                    *)
Connect(s) ==
  /\ phase[s] = "new"
  /\ phase' = [phase EXCEPT ![s] = "joining"]
  /\ open' = open \cup {s}
  /\ UNCHANGED <<inbox, convIds, rooms>>

(* Of what listInbox answers, the block states are in Blocks.              *)
Listing(u) == inbox[u]

ListInbox(s) ==
  /\ phase[s] = "joining"
  /\ phase' = [phase EXCEPT ![s] = "listed"]
  /\ convIds' = [convIds EXCEPT ![s] = Listing(Owner[s])]
  /\ UNCHANGED <<inbox, open, rooms>>

(* A failed listing is logged, and the handler goes on without rooms.      *)
ListFails(s) ==
  /\ phase[s] = "joining"
  /\ phase' = [phase EXCEPT ![s] = "listed"]
  /\ UNCHANGED <<inbox, open, convIds, rooms>>

(* The rest of the handler.  Awaiting the presence store, which lives in   *)
(* memory, lets no other event run.                                        *)
(* Defect: the rooms are not joined.                                       *)
JoinedNot(s) == {}
Joined(s) == IF s \in open THEN convIds[s] ELSE {}

Enter(s) ==
  /\ phase[s] = "listed"
  /\ phase' = [phase EXCEPT ![s] = "ready"]
  /\ rooms' = [rooms EXCEPT ![s] = Joined(s)]
  /\ UNCHANGED <<inbox, open, convIds>>

(* The transport closes: the socket leaves its rooms, and the disconnect   *)
(* handler runs if it is registered by then.                               *)
Disconnect(s) ==
  /\ s \in open
  /\ open' = open \ {s}
  /\ rooms' = [rooms EXCEPT ![s] = {}]
  /\ IF phase[s] = "ready"
     THEN /\ phase' = [phase EXCEPT ![s] = "done"]
          /\ convIds' = [convIds EXCEPT ![s] = {}]
     ELSE UNCHANGED <<phase, convIds>>
  /\ UNCHANGED inbox

(* The process dies and starts again without sockets and rooms.            *)
Restart ==
  /\ \E s \in Sockets : phase[s] \notin {"new", "done"}
  /\ phase' = [s \in Sockets |-> IF phase[s] = "new" THEN "new" ELSE "done"]
  /\ open' = {}
  /\ convIds' = [s \in Sockets |-> {}]
  /\ rooms' = [s \in Sockets |-> {}]
  /\ UNCHANGED inbox

-----------------------------------------------------------------------------
(* The shape of the gateway's state.                                       *)
GateTypeOK ==
  /\ inbox \in [Users -> SUBSET Convs]
  /\ phase \in [Sockets -> Phases]
  /\ open \subseteq Sockets
  /\ convIds \in [Sockets -> SUBSET Convs]
  /\ rooms \in [Sockets -> SUBSET Convs]
=============================================================================
