------------------------------ MODULE Presence ------------------------------
(***************************************************************************)
(* Who is online: the in-memory presence store, the presence part of the   *)
(* gateway's handlers and what the clients are told.                       *)
(*                                                                         *)
(* Socket.io delivers in order, so what a client knows of a user is the    *)
(* last update its socket was sent.                                        *)
(***************************************************************************)
EXTENDS Gateway, Sequences

CONSTANTS
  MaxLastSeen    \* maxLastSeen of the store

ASSUME CapAssumption == MaxLastSeen \in Nat \ {0}

VARIABLES
  online,     \* the socket ids the store counts for each user
  lastSeen,   \* the users of its lastSeen map, oldest first
  view,       \* the presence each socket was last told of each user
  settled     \* history: conversations that every inbox always listed

vars == <<gate, online, lastSeen, view, settled>>

Status == {"unknown", "online", "offline"}
Nothing == [u \in Users |-> "unknown"]

Init ==
  /\ GateInit
  /\ online = [u \in Users |-> {}]
  /\ lastSeen = <<>>
  /\ view = [s \in Sockets |-> Nothing]
  /\ settled = UNION {inbox[u] : u \in Users}

-----------------------------------------------------------------------------
(* noteLastSeen: delete + set moves the user to the tail; the oldest entry *)
(* goes when the cap is exceeded.  Defects: the one just noted goes; no    *)
(* cap.                                                                    *)
Deleted(seen, u) ==
  IF \E i \in DOMAIN seen : seen[i] = u
  THEN LET i == CHOOSE i \in DOMAIN seen : seen[i] = u
       IN  SubSeq(seen, 1, i - 1) \o SubSeq(seen, i + 1, Len(seen))
  ELSE seen

NotedUncapped(seen, u) == Append(Deleted(seen, u), u)
NotedCutNewest(seen, u) ==
  LET moved == Append(Deleted(seen, u), u)
  IN IF Len(moved) > MaxLastSeen THEN SubSeq(moved, 1, MaxLastSeen) ELSE moved
Noted(seen, u) ==
  LET moved == Append(Deleted(seen, u), u)
  IN IF Len(moved) > MaxLastSeen THEN Tail(moved) ELSE moved

(* online and offline report the first and the last socket of a user.      *)
(* Defect: offline reports any socket that leaves.                         *)
WentOnline(u) == online[u] = {}
WentOfflineAny(u, s) == s \in online[u]
WentOffline(u, s) == online[u] # {} /\ online[u] \ {s} = {}

(* The sockets left after offline.  Defect: the user is dropped whole.     *)
RemainingNone(u, s) == {}
Remaining(u, s) == online[u] \ {s}

(* socket.to(room).emit: everyone in the rooms but the socket itself.      *)
Audience(s) == {w \in Sockets \ {s} : rooms[w] \cap convIds[s] # {}}

Told(ws, u, status) ==
  [w \in Sockets |-> IF w \in ws THEN [view[w] EXCEPT ![u] = status] ELSE view[w]]

(* Connecting: count the socket, announce the first one.                   *)
GoOnline(s) ==
  LET u == Owner[s] IN
  /\ Enter(s)
  /\ online' = [online EXCEPT ![u] = @ \cup {s}]
  /\ lastSeen' = Noted(lastSeen, u)
  /\ view' = IF WentOnline(u) THEN Told(Audience(s), u, "online") ELSE view
  /\ UNCHANGED settled

(* The disconnect handler, and a transport that closes before the handler  *)
(* is registered.                                                          *)
GoOffline(s) ==
  LET u == Owner[s] IN
  /\ Disconnect(s)
  /\ phase[s] = "ready"
  /\ online' = [online EXCEPT ![u] = Remaining(u, s)]
  /\ lastSeen' = Noted(lastSeen, u)
  /\ view' = [Told(IF WentOffline(u, s) THEN Audience(s) ELSE {}, u, "offline")
                EXCEPT ![s] = Nothing]
  /\ UNCHANGED settled

Vanish(s) ==
  /\ Disconnect(s)
  /\ phase[s] # "ready"
  /\ view' = [view EXCEPT ![s] = Nothing]
  /\ UNCHANGED <<online, lastSeen, settled>>

(* presence:heartbeat.                                                     *)
Heartbeat(s) ==
  /\ s \in open
  /\ phase[s] = "ready"
  /\ lastSeen' = Noted(lastSeen, Owner[s])
  /\ UNCHANGED <<gate, online, view, settled>>

(* "Lost on restart": clients reconnect and announce themselves again.     *)
Forget ==
  /\ Restart
  /\ online' = [u \in Users |-> {}]
  /\ lastSeen' = <<>>
  /\ view' = [s \in Sockets |-> Nothing]
  /\ UNCHANGED settled

Next ==
  \/ \E s \in Sockets :
       \/ (Connect(s) \/ ListInbox(s)) /\ UNCHANGED <<online, lastSeen, view, settled>>
       \/ /\ ListFails(s)
          /\ settled' = settled \ ConvsOf(Owner[s])
          /\ UNCHANGED <<online, lastSeen, view>>
       \/ GoOnline(s) \/ GoOffline(s) \/ Vanish(s) \/ Heartbeat(s)
  \/ \E c \in Convs : List(c) /\ UNCHANGED <<online, lastSeen, view, settled>>
  \/ \E u \in Users, c \in Convs :
       /\ Unlist(u, c)
       /\ settled' = settled \ {c}
       /\ UNCHANGED <<online, lastSeen, view>>
  \/ Forget

Spec == Init /\ [][Next]_vars

-----------------------------------------------------------------------------
(* Properties.                                                             *)

(* The shape of the presence store and of the clients' views.              *)
TypeOK ==
  /\ GateTypeOK
  /\ online \in [Users -> SUBSET Sockets]
  /\ lastSeen \in Seq(Users) /\ Len(lastSeen) <= MaxLastSeen
  /\ \A i, j \in DOMAIN lastSeen : lastSeen[i] = lastSeen[j] => i = j
  /\ view \in [Sockets -> [Users -> Status]]
  /\ settled \subseteq Convs

(* The sockets the handlers serve, and those whose transport closed while  *)
(* the connection handler still waited for listInbox: it registered them   *)
(* for presence all the same, and no disconnect handler is left to run.    *)
Served(u)   == {s \in SocketsOf(u) \cap open : phase[s] = "ready"}
Outlived(u) == {s \in SocketsOf(u) \ open : phase[s] = "ready"}

(* A user counts as online as long as one device is served, whatever the   *)
(* other devices do, and besides for every handler that outlived its       *)
(* transport - for good, see below -, but never for any other socket.      *)
PresenceCounted == \A u \in Users : online[u] = Served(u) \cup Outlived(u)

(* "sockets is cleaned up when a user's last socket disconnects": with no  *)
(* device connected and no handler at work a user is not online.  Broken   *)
(* by a transport that closes while the handler waits.                     *)
PresenceCleaned ==
  \A u \in Users :
    (\A s \in SocketsOf(u) : s \notin open /\ phase[s] \notin {"joining", "listed"})
      => online[u] = {}

(* Two users who share a conversation that was in both inboxes all along:  *)
(* what a socket of one was last told about the other is true of the       *)
(* store, although updates go only to the rooms captured at connect and    *)
(* only on the first and the last socket of a user.                        *)
ViewTrue ==
  \A c \in settled : \A w \in {s \in Sockets : c \in rooms[s]}, u \in Pair[c] :
    u # Owner[w] =>
      /\ view[w][u] = "online" => online[u] # {}
      /\ view[w][u] = "offline" => online[u] = {}

(* The bounded lastSeen still holds the user whose departure is announced, *)
(* so that the announcement carries a time.                                *)
DepartureHasTime ==
  [][\A u \in Users :
       (\E w \in Sockets : view[w][u] # "offline" /\ view'[w][u] = "offline")
         => \E i \in 1..Len(lastSeen') : lastSeen'[i] = u]_vars
=============================================================================
