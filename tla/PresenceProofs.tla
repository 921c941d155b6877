--------------------------- MODULE PresenceProofs ---------------------------
(***************************************************************************)
(* Proofs about Presence, for any users, sockets and conversations.        *)
(***************************************************************************)
EXTENDS Presence, SequenceTheorems, TLAPS

(* What the counting of sockets rests on: where the handlers stand and     *)
(* whom the store counts, with or without a transport.                     *)
Counted ==
  \A u \in Users : online[u] = {s \in SocketsOf(u) : phase[s] = "ready"}

CountInv ==
  /\ phase \in [Sockets -> Phases]
  /\ online \in [Users -> SUBSET Sockets]
  /\ Counted

LEMMA CountInit == Init => CountInv
<1> SUFFICES ASSUME Init PROVE CountInv
  OBVIOUS
<1>1. phase = [s \in Sockets |-> "new"] /\ online = [u \in Users |-> {}]
  BY DEF Init, GateInit
<1> QED
  BY <1>1 DEF CountInv, Counted, Phases, SocketsOf

(* A step that makes nobody ready and leaves nobody ready out.             *)
LEMMA QuietCount ==
  ASSUME CountInv, phase' \in [Sockets -> Phases], UNCHANGED online,
         \A s \in Sockets : phase'[s] = "ready" <=> phase[s] = "ready"
  PROVE  CountInv'
  BY DEF CountInv, Counted, SocketsOf

LEMMA GoOnlineCount ==
  ASSUME CountInv, NEW s \in Sockets, GoOnline(s)
  PROVE  CountInv'
<1>1. Owner[s] \in Users
  BY OwnerAssumption
<1>2. phase' = [phase EXCEPT ![s] = "ready"]
  BY DEF GoOnline, Enter
<1>3. online' = [online EXCEPT ![Owner[s]] = @ \cup {s}]
  BY DEF GoOnline
<1>4. phase' \in [Sockets -> Phases] /\ online' \in [Users -> SUBSET Sockets]
  BY <1>1, <1>2, <1>3 DEF CountInv, Phases
<1>5. ASSUME NEW u \in Users
      PROVE  online'[u] = {t \in SocketsOf(u) : phase'[t] = "ready"}
  <2>1. online[u] = {t \in SocketsOf(u) : phase[t] = "ready"}
    BY DEF CountInv, Counted
  <2>2. CASE u = Owner[s]
    BY <2>1, <2>2, <1>1, <1>2, <1>3 DEF CountInv, SocketsOf
  <2>3. CASE u # Owner[s]
    BY <2>1, <2>3, <1>2, <1>3 DEF CountInv, SocketsOf
  <2> QED
    BY <2>2, <2>3
<1> QED
  BY <1>4, <1>5 DEF CountInv, Counted, SocketsOf

LEMMA GoOfflineCount ==
  ASSUME CountInv, NEW s \in Sockets, GoOffline(s)
  PROVE  CountInv'
<1>1. Owner[s] \in Users
  BY OwnerAssumption
<1>2. phase' = [phase EXCEPT ![s] = "done"]
  BY DEF GoOffline, Disconnect
<1>3. online' = [online EXCEPT ![Owner[s]] = online[Owner[s]] \ {s}]
  BY DEF GoOffline, Remaining
<1>4. phase' \in [Sockets -> Phases] /\ online' \in [Users -> SUBSET Sockets]
  BY <1>1, <1>2, <1>3 DEF CountInv, Phases
<1>5. ASSUME NEW u \in Users
      PROVE  online'[u] = {t \in SocketsOf(u) : phase'[t] = "ready"}
  <2>1. online[u] = {t \in SocketsOf(u) : phase[t] = "ready"}
    BY DEF CountInv, Counted
  <2>2. CASE u = Owner[s]
    BY <2>1, <2>2, <1>1, <1>2, <1>3 DEF CountInv, SocketsOf
  <2>3. CASE u # Owner[s]
    BY <2>1, <2>3, <1>2, <1>3 DEF CountInv, SocketsOf
  <2> QED
    BY <2>2, <2>3
<1> QED
  BY <1>4, <1>5 DEF CountInv, Counted, SocketsOf

LEMMA ForgetCount ==
  ASSUME CountInv, Forget
  PROVE  CountInv'
<1>1. phase' = [s \in Sockets |-> IF phase[s] = "new" THEN "new" ELSE "done"]
  BY DEF Forget, Restart
<1>2. online' = [u \in Users |-> {}]
  BY DEF Forget
<1> QED
  BY <1>1, <1>2 DEF CountInv, Counted, Phases, SocketsOf

LEMMA CountStep == CountInv /\ [Next]_vars => CountInv'
<1> SUFFICES ASSUME CountInv, [Next]_vars PROVE CountInv'
  OBVIOUS
<1>1. ASSUME NEW s \in Sockets, Connect(s), UNCHANGED online PROVE CountInv'
  <2>1. phase[s] = "new" /\ phase' = [phase EXCEPT ![s] = "joining"]
    BY <1>1 DEF Connect
  <2> QED
    BY <1>1, <2>1, QuietCount DEF CountInv, Phases
<1>2. ASSUME NEW s \in Sockets, ListInbox(s) \/ ListFails(s), UNCHANGED online
      PROVE  CountInv'
  <2>1. phase[s] = "joining" /\ phase' = [phase EXCEPT ![s] = "listed"]
    BY <1>2 DEF ListInbox, Listing, ListFails
  <2> QED
    BY <1>2, <2>1, QuietCount DEF CountInv, Phases
<1>3. ASSUME NEW s \in Sockets, Vanish(s) PROVE CountInv'
  <2>1. UNCHANGED <<phase, online>>
    BY <1>3 DEF Vanish, Disconnect
  <2> QED
    BY <2>1, QuietCount DEF CountInv
<1>4. CASE UNCHANGED <<phase, online>>
  BY <1>4, QuietCount DEF CountInv
<1>5. ASSUME NEW s \in Sockets, Heartbeat(s) PROVE CountInv'
  BY <1>5, <1>4 DEF Heartbeat, gate
<1>6. ASSUME NEW c \in Convs, List(c), UNCHANGED online PROVE CountInv'
  BY <1>6, <1>4 DEF List
<1>7. ASSUME NEW u \in Users, NEW c \in Convs, Unlist(u, c), UNCHANGED online
      PROVE  CountInv'
  BY <1>7, <1>4 DEF Unlist
<1>8. CASE UNCHANGED vars
  BY <1>8, <1>4 DEF vars, gate
<1> QED
  BY <1>1, <1>2, <1>3, <1>5, <1>6, <1>7, <1>8, GoOnlineCount, GoOfflineCount,
     ForgetCount DEF Next

(* However many devices a user connects and disconnects, the store counts  *)
(* every socket that is served; beyond these it counts only the sockets    *)
(* whose transport closed while their connection handler still waited,     *)
(* which nothing removes any more.                                         *)
THEOREM PresenceIsCounted == Spec => []PresenceCounted
<1>1. CountInv => PresenceCounted
  BY DEF CountInv, Counted, PresenceCounted, Served, Outlived
<1> QED
  BY CountInit, CountStep, <1>1, PTL DEF Spec

(***************************************************************************)
(* lastSeen.                                                               *)
(***************************************************************************)
SeenOK(seen) ==
  /\ seen \in Seq(Users) /\ Len(seen) <= MaxLastSeen
  /\ \A i, j \in DOMAIN seen : seen[i] = seen[j] => i = j

(* What is left after a delete: the same entries, without u.               *)
LEMMA DeletedKeeps ==
  ASSUME NEW seen, SeenOK(seen), NEW u \in Users
  PROVE  LET d == Deleted(seen, u) IN
         /\ SeenOK(d)
         /\ \A i \in 1..Len(d) : d[i] # u
<1> DEFINE d == Deleted(seen, u)
<1>1. seen \in Seq(Users) /\ Len(seen) \in Nat /\ DOMAIN seen = 1..Len(seen)
  BY DEF SeenOK
<1>2. CASE ~\E i \in DOMAIN seen : seen[i] = u
  BY <1>1, <1>2 DEF Deleted
<1>3. CASE \E i \in DOMAIN seen : seen[i] = u
  <2> DEFINE k == CHOOSE i \in DOMAIN seen : seen[i] = u
             left == SubSeq(seen, 1, k - 1)
             right == SubSeq(seen, k + 1, Len(seen))
  <2>1. k \in 1..Len(seen) /\ seen[k] = u
    BY <1>1, <1>3
  <2>2. d = left \o right
    BY <1>3 DEF Deleted
  <2> HIDE DEF k, d
  <2>3. /\ left \in Seq(Users) /\ Len(left) = k - 1
        /\ \A i \in 1..(k - 1) : left[i] = seen[i]
    <3>1. \A i \in 1..(k - 1) : seen[i] \in Users
      BY <1>1, <2>1
    <3> QED
      BY <1>1, <2>1, <3>1, SubSeqProperties
  <2>4. /\ right \in Seq(Users) /\ Len(right) = Len(seen) - k
        /\ \A i \in 1..(Len(seen) - k) : right[i] = seen[k + i]
    <3>1. \A i \in (k + 1)..Len(seen) : seen[i] \in Users
      BY <1>1, <2>1
    <3>2. /\ right \in Seq(Users)
          /\ Len(right) = IF k + 1 <= Len(seen) THEN Len(seen) - (k + 1) + 1 ELSE 0
          /\ \A i \in 1..(Len(seen) - (k + 1) + 1) : right[i] = seen[(k + 1) + i - 1]
      BY <1>1, <2>1, <3>1, SubSeqProperties
    <3> HIDE DEF right
    <3>3. Len(right) = Len(seen) - k
      <4>1. Len(right) = IF k + 1 <= Len(seen) THEN Len(seen) - (k + 1) + 1 ELSE 0
        BY <3>2
      <4>2. k \in Nat /\ Len(seen) \in Nat /\ k <= Len(seen)
        BY <1>1, <2>1
      <4> QED
        BY <4>1, <4>2
    <3>4. ASSUME NEW i \in 1..(Len(seen) - k)
          PROVE  right[i] = seen[k + i]
      <4>1. i \in 1..(Len(seen) - (k + 1) + 1) /\ (k + 1) + i - 1 = k + i
        BY <1>1, <2>1
      <4> QED
        BY <3>2, <4>1
    <3> QED
      BY <3>2, <3>3, <3>4
  <2> HIDE DEF left, right
  <2>5. /\ d \in Seq(Users) /\ Len(d) = Len(seen) - 1
        /\ \A i \in 1..Len(d) : d[i] = IF i < k THEN seen[i] ELSE seen[i + 1]
    <3>1. /\ d \in Seq(Users) /\ Len(d) = Len(left) + Len(right)
          /\ \A i \in 1..(Len(left) + Len(right)) :
               d[i] = IF i <= Len(left) THEN left[i] ELSE right[i - Len(left)]
      BY <2>2, <2>3, <2>4, ConcatProperties
    <3> QED
      BY <1>1, <2>1, <2>3, <2>4, <3>1
  <2>6. \A i \in 1..Len(d) : d[i] # u
    BY <1>1, <2>1, <2>5 DEF SeenOK
  <2>7. \A i, j \in 1..Len(d) : d[i] = d[j] => i = j
    <3> SUFFICES ASSUME NEW i \in 1..Len(d), NEW j \in 1..Len(d), d[i] = d[j]
                 PROVE  i = j
      OBVIOUS
    <3> DEFINE f(n) == IF n < k THEN n ELSE n + 1
    <3>1. f(i) \in 1..Len(seen) /\ f(j) \in 1..Len(seen)
      BY <1>1, <2>1, <2>5
    <3>2. seen[f(i)] = seen[f(j)]
      BY <2>5
    <3>3. f(i) = f(j)
      BY <1>1, <3>1, <3>2 DEF SeenOK
    <3> QED
      BY <1>1, <2>1, <2>5, <3>3
  <2>8. Len(d) <= MaxLastSeen
    BY <1>1, <2>5, CapAssumption DEF SeenOK
  <2> QED
    BY <2>5, <2>6, <2>7, <2>8 DEF SeenOK, d
<1> QED
  BY <1>2, <1>3

(* The user just noted is the newest entry, and only the oldest goes.      *)
LEMMA NotedKeeps ==
  ASSUME NEW seen, SeenOK(seen), NEW u \in Users
  PROVE  /\ SeenOK(Noted(seen, u))
         /\ \E i \in 1..Len(Noted(seen, u)) : Noted(seen, u)[i] = u
<1> DEFINE d == Deleted(seen, u)
           moved == Append(d, u)
           n == Noted(seen, u)
<1>1. /\ d \in Seq(Users) /\ Len(d) \in Nat /\ Len(d) <= MaxLastSeen
      /\ \A i, j \in 1..Len(d) : d[i] = d[j] => i = j
      /\ \A i \in 1..Len(d) : d[i] # u
  BY DeletedKeeps DEF SeenOK
<1>2. n = IF Len(moved) > MaxLastSeen THEN Tail(moved) ELSE moved
  BY DEF Noted
<1> HIDE DEF d
<1>3. /\ moved \in Seq(Users) /\ Len(moved) = Len(d) + 1 /\ moved[Len(d) + 1] = u
      /\ \A i \in 1..Len(d) : moved[i] = d[i]
  BY <1>1
<1> HIDE DEF moved, n
<1>4. \A i, j \in 1..Len(moved) : moved[i] = moved[j] => i = j
  BY <1>1, <1>3
<1>5. CASE Len(moved) > MaxLastSeen
  <2>1. /\ n \in Seq(Users) /\ Len(n) = Len(d)
        /\ \A i \in 1..Len(d) : n[i] = moved[i + 1]
    BY <1>1, <1>2, <1>3, <1>5
  <2>2. Len(d) >= 1
    BY <1>1, <1>3, <1>5, CapAssumption
  <2>3. n[Len(d)] = u
    BY <1>1, <1>3, <2>1, <2>2
  <2>4. \A i, j \in 1..Len(n) : n[i] = n[j] => i = j
    BY <1>1, <1>3, <1>4, <2>1
  <2> QED
    BY <1>1, <2>1, <2>2, <2>3, <2>4 DEF SeenOK, n
<1>6. CASE ~(Len(moved) > MaxLastSeen)
  <2>1. n = moved
    BY <1>2, <1>6
  <2>2. Len(n) <= MaxLastSeen /\ Len(n) \in 1..Len(n)
    BY <1>1, <1>3, <1>6, <2>1, CapAssumption
  <2> QED
    BY <1>1, <1>3, <1>4, <2>1, <2>2 DEF SeenOK, n
<1> QED
  BY <1>5, <1>6

(***************************************************************************)
(* What the clients know.                                                  *)
(***************************************************************************)

(* Only a served socket is in rooms, and they are those it captured.       *)
Housed ==
  \A s \in Sockets : rooms[s] # {} =>
    s \in open /\ phase[s] = "ready" /\ rooms[s] = convIds[s]

(* A settled conversation is in both inboxes, and captured by every socket *)
(* of its pair that has listed the inbox.                                  *)
Listed ==
  \A c \in settled :
    /\ \A u \in Pair[c] : c \in inbox[u]
    /\ \A s \in Sockets :
         (phase[s] \in {"listed", "ready"} /\ Owner[s] \in Pair[c]) => c \in convIds[s]

(* A socket without rooms was told nothing.                                *)
Untold == \A s \in Sockets : rooms[s] = {} => view[s] = Nothing

IInv == TypeOK /\ Counted /\ Housed /\ Listed /\ Untold /\ ViewTrue

LEMMA TypeInit == Init => IInv
<1> SUFFICES ASSUME Init PROVE IInv
  OBVIOUS
<1>1. PICK C \in SUBSET Convs : inbox = [u \in Users |-> C \cap ConvsOf(u)]
  BY DEF Init, GateInit
<1>2. GateTypeOK
  BY <1>1 DEF Init, GateInit, GateTypeOK, Phases, ConvsOf
<1>3. settled \subseteq Convs /\ \A c \in settled : \A u \in Pair[c] : c \in inbox[u]
  <2>1. settled = UNION {inbox[u] : u \in Users}
    BY DEF Init
  <2>2. \A c \in settled : c \in C /\ c \in Convs
    BY <1>1, <2>1 DEF ConvsOf
  <2> QED
    BY <1>1, <2>2, PairAssumption DEF ConvsOf
<1>4. TypeOK
  <2>1. lastSeen \in Seq(Users) /\ Len(lastSeen) = 0 /\ DOMAIN lastSeen = {}
    BY DEF Init
  <2>2. view \in [Sockets -> [Users -> Status]]
    BY DEF Init, Nothing, Status
  <2>3. online \in [Users -> SUBSET Sockets]
    BY DEF Init
  <2> QED
    BY <1>2, <1>3, <2>1, <2>2, <2>3, CapAssumption DEF TypeOK
<1>5. Counted
  BY CountInit DEF CountInv
<1>6. Housed /\ Untold /\ ViewTrue
  BY DEF Init, GateInit, Housed, Untold, ViewTrue
<1>7. Listed
  BY <1>3 DEF Listed, Init, GateInit
<1> QED
  BY <1>4, <1>5, <1>6, <1>7 DEF IInv

(* A step of the gateway that changes no room, tells nobody anything and   *)
(* settles nothing.                                                        *)
LEMMA QuietView ==
  ASSUME IInv, GateTypeOK', SeenOK(lastSeen'), Counted',
         UNCHANGED <<online, view, rooms>>, settled' \subseteq settled,
         \A s \in Sockets : rooms[s] # {} =>
           s \in open' /\ phase'[s] = phase[s] /\ convIds'[s] = convIds[s],
         Listed'
  PROVE  IInv'
<1>1. TypeOK'
  BY DEF IInv, TypeOK, SeenOK
<1>2. Housed'
  BY DEF IInv, Housed, TypeOK, GateTypeOK
<1>3. Untold'
  BY DEF IInv, Untold
<1>4. ViewTrue'
  BY DEF IInv, ViewTrue
<1> QED
  BY <1>1, <1>2, <1>3, <1>4 DEF IInv

LEMMA IInvSeen == IInv => SeenOK(lastSeen)
BY DEF IInv, TypeOK, SeenOK

LEMMA CountOf ==
  ASSUME IInv, [Next]_vars
  PROVE  Counted'
BY CountStep DEF IInv, TypeOK, GateTypeOK, CountInv

LEMMA ConnectView ==
  ASSUME IInv, Counted', NEW s \in Sockets,
         UNCHANGED <<online, lastSeen, view>>,
         \/ (Connect(s) \/ ListInbox(s)) /\ settled' = settled
         \/ ListFails(s) /\ settled' = settled \ ConvsOf(Owner[s])
  PROVE  IInv'
<1>1. /\ GateTypeOK /\ Owner[s] \in Users
      /\ settled \subseteq Convs
  BY OwnerAssumption DEF IInv, TypeOK
<1>2. CASE Connect(s) /\ settled' = settled
  <2>1. /\ phase[s] = "new" /\ phase' = [phase EXCEPT ![s] = "joining"]
        /\ open' = open \cup {s} /\ UNCHANGED <<inbox, convIds, rooms>>
    BY <1>2 DEF Connect
  <2>2. GateTypeOK'
    BY <1>1, <2>1 DEF GateTypeOK, Phases
  <2>3. Listed'
    BY <1>1, <1>2, <2>1 DEF IInv, Listed, GateTypeOK
  <2> QED
    BY <1>1, <1>2, <2>1, <2>2, <2>3, IInvSeen, QuietView DEF IInv, Housed, GateTypeOK
<1>3. CASE ListInbox(s) /\ settled' = settled
  <2>1. /\ phase[s] = "joining" /\ phase' = [phase EXCEPT ![s] = "listed"]
        /\ convIds' = [convIds EXCEPT ![s] = inbox[Owner[s]]]
        /\ UNCHANGED <<inbox, open, rooms>>
    BY <1>3 DEF ListInbox, Listing
  <2>2. GateTypeOK' /\ settled' \subseteq settled
    BY <1>1, <1>3, <2>1 DEF GateTypeOK, Phases
  <2>3. Listed'
    BY <1>1, <2>1, <2>2 DEF IInv, Listed, GateTypeOK
  <2> QED
    BY <1>1, <2>1, <2>2, <2>3, IInvSeen, QuietView DEF IInv, Housed, GateTypeOK
<1>4. CASE ListFails(s) /\ settled' = settled \ ConvsOf(Owner[s])
  <2>1. /\ phase[s] = "joining" /\ phase' = [phase EXCEPT ![s] = "listed"]
        /\ UNCHANGED <<inbox, open, convIds, rooms>>
    BY <1>4 DEF ListFails
  <2>2. GateTypeOK' /\ settled' \subseteq settled
    BY <1>1, <1>4, <2>1 DEF GateTypeOK, Phases
  <2>3. \A c \in settled' : Owner[s] \notin Pair[c]
    BY <1>1, <1>4 DEF ConvsOf
  <2>4. Listed'
    BY <1>1, <2>1, <2>2, <2>3 DEF IInv, Listed, GateTypeOK
  <2> QED
    BY <1>1, <2>1, <2>2, <2>4, IInvSeen, QuietView DEF IInv, Housed, GateTypeOK
<1> QED
  BY <1>2, <1>3, <1>4

(* The inboxes may gain conversations; one that an inbox loses is not      *)
(* settled any more.                                                       *)
LEMMA InboxView ==
  ASSUME IInv, Counted', NEW c \in Convs,
         UNCHANGED <<online, lastSeen, view>>,
         \/ List(c) /\ UNCHANGED settled
         \/ \E u \in Users : Unlist(u, c) /\ settled' = settled \ {c}
  PROVE  IInv'
<1>1. GateTypeOK /\ UNCHANGED <<phase, open, convIds, rooms>> /\ settled' \subseteq settled
  BY DEF IInv, TypeOK, List, Unlist
<1>2. inbox' \in [Users -> SUBSET Convs]
  BY <1>1 DEF List, Unlist, GateTypeOK
<1>3. \A d \in settled' : \A u \in Pair[d] : d \in inbox'[u]
  <2>1. \A d \in settled : d \in Convs /\ Pair[d] \subseteq Users
    BY PairAssumption DEF IInv, TypeOK
  <2>2. CASE List(c) /\ UNCHANGED settled
    BY <2>1, <2>2 DEF List, IInv, Listed
  <2>3. ASSUME NEW u \in Users, Unlist(u, c), settled' = settled \ {c}
        PROVE  \A d \in settled' : \A v \in Pair[d] : d \in inbox'[v]
    BY <1>1, <2>1, <2>3 DEF Unlist, IInv, Listed, GateTypeOK
  <2> QED
    BY <2>2, <2>3
<1>4. GateTypeOK'
  BY <1>1, <1>2 DEF GateTypeOK
<1>5. Listed'
  BY <1>1, <1>3 DEF IInv, Listed
<1> QED
  BY <1>1, <1>4, <1>5, IInvSeen, QuietView DEF IInv, Housed

LEMMA HeartbeatView ==
  ASSUME IInv, Counted', NEW s \in Sockets, Heartbeat(s)
  PROVE  IInv'
<1>1. /\ UNCHANGED <<inbox, phase, open, convIds, rooms, online, view, settled>>
      /\ lastSeen' = Noted(lastSeen, Owner[s]) /\ Owner[s] \in Users
  BY OwnerAssumption DEF Heartbeat, gate
<1>2. SeenOK(lastSeen')
  BY <1>1, IInvSeen, NotedKeeps
<1>3. GateTypeOK' /\ Listed'
  BY <1>1 DEF IInv, TypeOK, GateTypeOK, Listed
<1> QED
  BY <1>1, <1>2, <1>3, QuietView DEF IInv, Housed

(* What is told changes the views of the audience only, and of one user.   *)
LEMMA ToldViews ==
  ASSUME TypeOK, NEW ws, NEW u \in Users, NEW status \in Status
  PROVE  /\ Told(ws, u, status) \in [Sockets -> [Users -> Status]]
         /\ \A w \in Sockets, v \in Users :
              Told(ws, u, status)[w][v] =
                IF w \in ws /\ v = u THEN status ELSE view[w][v]
BY DEF TypeOK, Told

LEMMA ToldOthers ==
  ASSUME NEW ws, NEW u, NEW status, NEW w \in Sockets, w \notin ws
  PROVE  Told(ws, u, status)[w] = view[w]
BY DEF Told

(* Everybody in a settled room hears of the other side's sockets.          *)
LEMMA Hears ==
  ASSUME IInv, NEW s \in Sockets, phase[s] \in {"listed", "ready"},
         NEW c \in settled, Owner[s] \in Pair[c],
         NEW w \in Sockets, c \in rooms[w], Owner[w] # Owner[s]
  PROVE  w \in Audience(s)
BY DEF IInv, Listed, Audience

LEMMA GoOnlineView ==
  ASSUME IInv, Counted', NEW s \in Sockets, GoOnline(s)
  PROVE  IInv'
<1> DEFINE u == Owner[s]
<1>1. /\ TypeOK /\ GateTypeOK /\ u \in Users /\ settled' = settled
      /\ phase[s] = "listed" /\ phase' = [phase EXCEPT ![s] = "ready"]
      /\ rooms' = [rooms EXCEPT ![s] = Joined(s)]
      /\ UNCHANGED <<inbox, open, convIds>>
      /\ online' = [online EXCEPT ![u] = @ \cup {s}]
      /\ lastSeen' = Noted(lastSeen, u)
      /\ view' = IF WentOnline(u) THEN Told(Audience(s), u, "online") ELSE view
  BY OwnerAssumption DEF GoOnline, Enter, IInv, TypeOK
<1>2. /\ Joined(s) \in SUBSET Convs /\ rooms[s] = {}
      /\ Joined(s) # {} => s \in open /\ Joined(s) = convIds[s]
  BY <1>1 DEF Joined, GateTypeOK, IInv, Housed
<1>3. /\ view' \in [Sockets -> [Users -> Status]]
      /\ \A w \in Sockets, v \in Users :
           view'[w][v] = IF WentOnline(u) /\ w \in Audience(s) /\ v = u
                         THEN "online" ELSE view[w][v]
      /\ \A w \in Sockets : w \notin Audience(s) => view'[w] = view[w]
  <2> DEFINE told == Told(Audience(s), u, "online")
  <2>1. /\ told \in [Sockets -> [Users -> Status]]
        /\ \A w \in Sockets, v \in Users :
             told[w][v] = IF w \in Audience(s) /\ v = u THEN "online" ELSE view[w][v]
        /\ \A w \in Sockets : w \notin Audience(s) => told[w] = view[w]
    <3>1. TypeOK /\ u \in Users /\ "online" \in Status
      BY <1>1 DEF Status
    <3>2. \A w \in Sockets : w \notin Audience(s) => told[w] = view[w]
      BY ToldOthers
    <3>3. told \in [Sockets -> [Users -> Status]]
      BY <3>1, ToldViews
    <3>4. \A w \in Sockets, v \in Users :
            told[w][v] = IF w \in Audience(s) /\ v = u THEN "online" ELSE view[w][v]
      BY <3>1, ToldViews DEF Status
    <3> HIDE DEF told
    <3> QED
      BY <3>2, <3>3, <3>4
  <2>2. view' = IF WentOnline(u) THEN told ELSE view
    BY <1>1
  <2>3. view \in [Sockets -> [Users -> Status]]
    BY <1>1 DEF TypeOK
  <2> HIDE DEF told
  <2>4. CASE WentOnline(u)
    BY <2>1, <2>2, <2>4
  <2>5. CASE ~WentOnline(u)
    BY <2>2, <2>3, <2>5
  <2> QED
    BY <2>4, <2>5
<1>4. TypeOK'
  <2>1. SeenOK(lastSeen')
    BY <1>1, IInvSeen, NotedKeeps
  <2>2. GateTypeOK'
    BY <1>1, <1>2 DEF GateTypeOK, Phases
  <2>3. online' \in [Users -> SUBSET Sockets]
    BY <1>1 DEF TypeOK
  <2> QED
    BY <1>1, <1>3, <2>1, <2>2, <2>3 DEF TypeOK, SeenOK
<1>5. Housed'
  BY <1>1, <1>2 DEF IInv, Housed, GateTypeOK
<1>6. Listed'
  BY <1>1 DEF IInv, Listed, GateTypeOK
<1>7. Untold'
  BY <1>1, <1>2, <1>3 DEF IInv, Untold, Audience, GateTypeOK
<1>8. ViewTrue'
  <2> SUFFICES ASSUME NEW c \in settled, NEW w \in Sockets, c \in rooms'[w],
                      NEW v \in Pair[c], v # Owner[w]
               PROVE  /\ view'[w][v] = "online" => online'[v] # {}
                      /\ view'[w][v] = "offline" => online'[v] = {}
    BY <1>1 DEF ViewTrue
  <2>1. v \in Users /\ c \in Convs
    BY <1>1, PairAssumption DEF TypeOK
  <2>2. CASE w = s
    <3>1. view'[w][v] = "unknown"
      BY <1>2, <1>3, <2>1, <2>2 DEF Audience, IInv, Untold, Nothing
    <3> QED
      BY <3>1
  <2>3. CASE w # s
    <3>1. c \in rooms[w]
      BY <1>1, <2>3 DEF GateTypeOK
    <3>2. /\ view[w][v] = "online" => online[v] # {}
          /\ view[w][v] = "offline" => online[v] = {}
      BY <3>1 DEF IInv, ViewTrue
    <3>3. CASE v # u
      BY <1>1, <1>3, <2>1, <3>2, <3>3 DEF TypeOK
    <3>4. CASE v = u
      <4>1. w \in Audience(s)
        BY <1>1, <3>1, <3>4, Hears
      <4>2. online'[v] # {}
        BY <1>1, <3>4 DEF TypeOK
      <4> QED
        BY <1>3, <2>1, <3>2, <3>4, <4>1, <4>2 DEF WentOnline
    <3> QED
      BY <3>3, <3>4
  <2> QED
    BY <2>2, <2>3
<1> QED
  BY <1>4, <1>5, <1>6, <1>7, <1>8 DEF IInv

LEMMA GoOfflineView ==
  ASSUME IInv, Counted', NEW s \in Sockets, GoOffline(s)
  PROVE  IInv'
<1> DEFINE u == Owner[s]
           ws == IF WentOffline(u, s) THEN Audience(s) ELSE {}
<1>1. /\ TypeOK /\ GateTypeOK /\ u \in Users /\ settled' = settled
      /\ phase[s] = "ready" /\ phase' = [phase EXCEPT ![s] = "done"]
      /\ open' = open \ {s} /\ inbox' = inbox
      /\ rooms' = [rooms EXCEPT ![s] = {}] /\ convIds' = [convIds EXCEPT ![s] = {}]
      /\ online' = [online EXCEPT ![u] = online[u] \ {s}]
      /\ lastSeen' = Noted(lastSeen, u)
      /\ view' = [Told(ws, u, "offline") EXCEPT ![s] = Nothing]
  BY OwnerAssumption DEF GoOffline, Disconnect, Remaining, IInv, TypeOK
<1>2. /\ view' \in [Sockets -> [Users -> Status]]
      /\ \A w \in Sockets \ {s}, v \in Users :
           view'[w][v] = IF w \in ws /\ v = u THEN "offline" ELSE view[w][v]
      /\ \A w \in Sockets \ {s} : w \notin ws => view'[w] = view[w]
      /\ view'[s] = Nothing
  <2> DEFINE told == Told(ws, u, "offline")
  <2>1. "offline" \in Status /\ Nothing \in [Users -> Status]
    BY DEF Status, Nothing
  <2>3. view' = [told EXCEPT ![s] = Nothing]
    BY <1>1
  <2> HIDE DEF ws
  <2>2. /\ told \in [Sockets -> [Users -> Status]]
        /\ \A w \in Sockets, v \in Users :
             told[w][v] = IF w \in ws /\ v = u THEN "offline" ELSE view[w][v]
        /\ \A w \in Sockets : w \notin ws => told[w] = view[w]
    <3>1. TypeOK /\ u \in Users /\ "offline" \in Status
      BY <1>1, <2>1
    <3>2. \A w \in Sockets : w \notin ws => told[w] = view[w]
      BY ToldOthers
    <3>3. told \in [Sockets -> [Users -> Status]]
      BY <3>1, ToldViews
    <3>4. \A w \in Sockets, v \in Users :
            told[w][v] = IF w \in ws /\ v = u THEN "offline" ELSE view[w][v]
      BY <3>1, ToldViews DEF Status
    <3> HIDE DEF told
    <3> QED
      BY <3>2, <3>3, <3>4
  <2> HIDE DEF told
  <2> QED
    BY <2>1, <2>2, <2>3
<1>3. TypeOK'
  <2>1. SeenOK(lastSeen')
    BY <1>1, IInvSeen, NotedKeeps
  <2>2. GateTypeOK'
    BY <1>1 DEF GateTypeOK, Phases
  <2>3. online' \in [Users -> SUBSET Sockets]
    BY <1>1 DEF TypeOK
  <2> QED
    BY <1>1, <1>2, <2>1, <2>2, <2>3 DEF TypeOK, SeenOK
<1>4. Housed'
  BY <1>1 DEF IInv, Housed, GateTypeOK
<1>5. Listed'
  BY <1>1 DEF IInv, Listed, GateTypeOK
<1>6. Untold'
  BY <1>1, <1>2 DEF IInv, Untold, Audience, GateTypeOK
<1>7. ViewTrue'
  <2> SUFFICES ASSUME NEW c \in settled, NEW w \in Sockets, c \in rooms'[w],
                      NEW v \in Pair[c], v # Owner[w]
               PROVE  /\ view'[w][v] = "online" => online'[v] # {}
                      /\ view'[w][v] = "offline" => online'[v] = {}
    BY <1>1 DEF ViewTrue
  <2>1. v \in Users /\ c \in Convs
    BY <1>1, PairAssumption DEF TypeOK
  <2>2. w # s /\ c \in rooms[w]
    BY <1>1 DEF GateTypeOK
  <2>3. /\ view[w][v] = "online" => online[v] # {}
        /\ view[w][v] = "offline" => online[v] = {}
    BY <2>2 DEF IInv, ViewTrue
  <2>4. CASE v # u
    BY <1>1, <1>2, <2>1, <2>2, <2>3, <2>4 DEF TypeOK
  <2>5. CASE v = u
    <3>1. w \in Audience(s) /\ online'[v] = online[u] \ {s}
      BY <1>1, <2>2, <2>5, Hears DEF TypeOK
    <3>2. s \in online[u]
      BY <1>1 DEF IInv, Counted, SocketsOf
    <3>3. CASE WentOffline(u, s)
      <4>1. w \in ws /\ online'[v] = {}
        BY <3>1, <3>3 DEF WentOffline
      <4> HIDE DEF ws
      <4>2. view'[w][v] = "offline"
        BY <1>2, <2>1, <2>2, <2>5, <4>1
      <4> QED
        BY <4>1, <4>2
    <3>4. CASE ~WentOffline(u, s)
      <4>1. view'[w][v] = view[w][v]
        BY <1>2, <2>1, <2>2, <3>4
      <4> QED
        BY <2>3, <2>5, <3>1, <3>2, <3>4, <4>1 DEF WentOffline
    <3> QED
      BY <3>3, <3>4
  <2> QED
    BY <2>4, <2>5
<1> QED
  BY <1>3, <1>4, <1>5, <1>6, <1>7 DEF IInv

LEMMA VanishView ==
  ASSUME IInv, Counted', NEW s \in Sockets, Vanish(s)
  PROVE  IInv'
<1>1. /\ TypeOK /\ GateTypeOK /\ phase[s] # "ready" /\ rooms[s] = {}
      /\ open' = open \ {s} /\ rooms' = [rooms EXCEPT ![s] = {}]
      /\ view' = [view EXCEPT ![s] = Nothing]
      /\ UNCHANGED <<inbox, phase, convIds, online, lastSeen, settled>>
  BY DEF Vanish, Disconnect, IInv, TypeOK, Housed
<1>2. rooms' = rooms /\ view' = view
  BY <1>1 DEF IInv, Untold, TypeOK, GateTypeOK
<1>3. GateTypeOK' /\ Listed'
  BY <1>1, <1>2 DEF GateTypeOK, IInv, Listed
<1> QED
  BY <1>1, <1>2, <1>3, IInvSeen, QuietView DEF IInv, Housed

LEMMA ForgetView ==
  ASSUME IInv, Counted', Forget
  PROVE  IInv'
<1>1. /\ GateTypeOK /\ settled' = settled /\ inbox' = inbox
      /\ phase' = [s \in Sockets |-> IF phase[s] = "new" THEN "new" ELSE "done"]
      /\ open' = {} /\ convIds' = [s \in Sockets |-> {}]
      /\ rooms' = [s \in Sockets |-> {}]
      /\ online' = [u \in Users |-> {}] /\ lastSeen' = <<>>
      /\ view' = [s \in Sockets |-> Nothing]
  BY DEF Forget, Restart, IInv, TypeOK
<1>2. GateTypeOK'
  BY <1>1 DEF GateTypeOK, Phases
<1>3. TypeOK'
  <2>1. lastSeen' \in Seq(Users) /\ Len(lastSeen') = 0 /\ DOMAIN lastSeen' = {}
    BY <1>1
  <2>2. view' \in [Sockets -> [Users -> Status]]
    BY <1>1 DEF Nothing, Status
  <2>3. online' \in [Users -> SUBSET Sockets] /\ settled' \subseteq Convs
    BY <1>1 DEF IInv, TypeOK
  <2> QED
    BY <1>2, <2>1, <2>2, <2>3, CapAssumption DEF TypeOK
<1>4. Housed' /\ Untold' /\ ViewTrue'
  BY <1>1 DEF Housed, Untold, ViewTrue
<1>5. Listed'
  BY <1>1 DEF IInv, Listed
<1> QED
  BY <1>3, <1>4, <1>5 DEF IInv

LEMMA IInvStep == IInv /\ [Next]_vars => IInv'
<1> SUFFICES ASSUME IInv, [Next]_vars PROVE IInv'
  OBVIOUS
<1>1. Counted'
  BY CountOf
<1>2. CASE UNCHANGED vars
  <2>1. GateTypeOK' /\ Listed'
    BY <1>2 DEF vars, gate, IInv, TypeOK, GateTypeOK, Listed
  <2> QED
    BY <1>1, <1>2, <2>1, IInvSeen, QuietView DEF vars, gate, IInv, Housed
<1>3. ASSUME NEW s \in Sockets, Connect(s) \/ ListInbox(s),
             UNCHANGED <<online, lastSeen, view, settled>>
      PROVE  IInv'
  BY <1>1, <1>3, ConnectView
<1>4. ASSUME NEW s \in Sockets, ListFails(s), settled' = settled \ ConvsOf(Owner[s]),
             UNCHANGED <<online, lastSeen, view>>
      PROVE  IInv'
  BY <1>1, <1>4, ConnectView
<1>5. ASSUME NEW s \in Sockets, GoOnline(s) \/ GoOffline(s) \/ Vanish(s) \/ Heartbeat(s)
      PROVE  IInv'
  BY <1>1, <1>5, GoOnlineView, GoOfflineView, VanishView, HeartbeatView
<1>6. ASSUME NEW c \in Convs, UNCHANGED <<online, lastSeen, view>>,
             \/ List(c) /\ UNCHANGED settled
             \/ \E u \in Users : Unlist(u, c) /\ settled' = settled \ {c}
      PROVE  IInv'
  BY <1>1, <1>6, InboxView
<1>7. CASE Forget
  BY <1>1, <1>7, ForgetView
<1> QED
  BY <1>2, <1>3, <1>4, <1>5, <1>6, <1>7 DEF Next

(* The presence store and the views keep their shape; lastSeen has one     *)
(* entry per user and never more than its cap.                             *)
THEOREM PresenceTypeCorrect == Spec => []TypeOK
<1>1. IInv => TypeOK
  BY DEF IInv
<1> QED
  BY TypeInit, IInvStep, <1>1, PTL DEF Spec

(* For a conversation that every inbox listed at every connect since the   *)
(* start, the rooms captured at connect are enough: what a device was last *)
(* told of the other side is what the store counts, with any number of     *)
(* devices on either side.  Of other conversations it says nothing.        *)
THEOREM ViewsAreTrue == Spec => []ViewTrue
<1>1. IInv => ViewTrue
  BY DEF IInv
<1> QED
  BY TypeInit, IInvStep, <1>1, PTL DEF Spec

(* A user is announced as offline only by the departure that notes the     *)
(* time, and eviction takes the oldest entry, never the one just noted.    *)
THEOREM DeparturesHaveTimes == Spec => DepartureHasTime
<1> DEFINE Timed ==
      \A u \in Users :
        (\E w \in Sockets : view[w][u] # "offline" /\ view'[w][u] = "offline")
          => \E i \in 1..Len(lastSeen') : lastSeen'[i] = u
<1>1. IInv /\ [Next]_vars => [Timed]_vars
  <2> SUFFICES ASSUME IInv, Next, NEW v \in Users, NEW w \in Sockets,
                      view[w][v] # "offline", view'[w][v] = "offline"
               PROVE  \E i \in 1..Len(lastSeen') : lastSeen'[i] = v
    BY Zenon
  <2>1. CASE UNCHANGED view
    BY <2>1
  <2>2. ASSUME NEW s \in Sockets, GoOffline(s)
        PROVE  \E i \in 1..Len(lastSeen') : lastSeen'[i] = v
    <3> DEFINE u == Owner[s]
               ws == IF WentOffline(u, s) THEN Audience(s) ELSE {}
    <3>1. /\ TypeOK /\ u \in Users /\ lastSeen' = Noted(lastSeen, u)
          /\ view' = [Told(ws, u, "offline") EXCEPT ![s] = Nothing]
      BY <2>2, OwnerAssumption DEF GoOffline, IInv
    <3>2. v = u
      <4> DEFINE told == Told(ws, u, "offline")
      <4>1. told \in [Sockets -> [Users -> Status]]
            /\ \A x \in Sockets, y \in Users :
                 told[x][y] = IF x \in ws /\ y = u THEN "offline" ELSE view[x][y]
        BY <3>1, ToldViews DEF Status
      <4>2. view' = [told EXCEPT ![s] = Nothing] /\ Nothing[v] = "unknown"
        BY <3>1 DEF Nothing
      <4> HIDE DEF told, ws
      <4> QED
        BY <4>1, <4>2
    <3> QED
      BY <3>1, <3>2, IInvSeen, NotedKeeps
  <2>3. ASSUME NEW s \in Sockets, GoOnline(s)
        PROVE  FALSE
    <3>1. Owner[s] \in Users /\ "online" \in Status
      BY OwnerAssumption DEF Status
    <3>2. \A x \in Sockets, y \in Users :
            Told(Audience(s), Owner[s], "online")[x][y] =
              IF x \in Audience(s) /\ y = Owner[s] THEN "online" ELSE view[x][y]
      BY <3>1, ToldViews DEF IInv
    <3> QED
      BY <2>3, <3>2 DEF GoOnline
  <2>4. ASSUME NEW s \in Sockets, Vanish(s)
        PROVE  FALSE
    BY <2>4 DEF Vanish, IInv, TypeOK, Nothing
  <2>5. CASE Forget
    BY <2>5 DEF Forget, Nothing
  <2>6. ASSUME NEW s \in Sockets, Heartbeat(s)
        PROVE  UNCHANGED view
    BY <2>6 DEF Heartbeat
  <2> QED
    BY <2>1, <2>2, <2>3, <2>4, <2>5, <2>6 DEF Next
<1> HIDE DEF Timed
<1>2. [][Timed]_vars => DepartureHasTime
  BY PTL DEF DepartureHasTime, Timed
<1> QED
  BY TypeInit, IInvStep, <1>1, <1>2, PTL DEF Spec
=============================================================================
