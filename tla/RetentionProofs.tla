--------------------------- MODULE RetentionProofs ---------------------------
(***************************************************************************)
(* Proofs about the deadlines of Retention, for any number of requests,    *)
(* websockets and old messages, any retention time and any bounds.         *)
(***************************************************************************)
EXTENDS Retention, WellFoundedInduction, TLAPS

(* A bounded set of naturals has a greatest element.                       *)
LEMMA Greatest ==
  ASSUME NEW k \in Nat, NEW S \in SUBSET (0..k), S # {}
  PROVE  \E x \in S : \A y \in S : y <= x
<1> DEFINE R == {ss \in Nat \X Nat : ss[1] < ss[2]}
           T == {k - x : x \in S}
<1>1. IsWellFoundedOn(R, Nat)
  BY NatLessThanWellFounded DEF OpToRel
<1>2. \A x \in S : k - x \in Nat
  OBVIOUS
<1>3. T \subseteq Nat /\ T # {}
  BY <1>2
<1> HIDE DEF R, T
<1>4. PICK t \in T : \A u \in T : ~(<<u, t>> \in R)
  BY <1>1, <1>3, WFMin
<1>5. PICK x \in S : t = k - x
  BY <1>4 DEF T
<1>6. ASSUME NEW y \in S PROVE y <= x
  <2>1. k - y \in T /\ k - y \in Nat /\ t \in Nat
    BY <1>3, <1>4 DEF T
  <2>2. ~(k - y < t)
    BY <2>1, <1>4 DEF R
  <2> QED
    BY <2>2, <1>5
<1> QED
  BY <1>6

-----------------------------------------------------------------------------
NatOrNone == Nat \cup {None}
Msg   == [id : Nat, conv : Nat, created : Nat, expires : NatOrNone]
Thread == [id : Nat, created : Nat, expires : NatOrNone]
Sending == [pc : {"stamp", "append", "commit"}, rest : BOOLEAN, conv : Nat,
            deadline : NatOrNone, created : Nat, mid : Nat, stale : BOOLEAN]

Shape ==
  /\ proc \in Phases /\ migrated \in BOOLEAN
  /\ clock \in Nat /\ nextMsg \in Nat /\ nextConv \in Nat
  /\ msgs \subseteq Msg
  /\ convo # None => convo \in Thread
  /\ req \in [Requests -> Sending \cup {Idle}]

(* Ids are handed out once, and later ids to later messages.               *)
Ids ==
  /\ nextMsg > Legacy
  /\ \A m \in msgs : m.id < nextMsg /\ m.conv < nextConv /\ m.created <= clock
  /\ convo # None => convo.id < nextConv
  /\ \A r \in Requests : req[r].pc \in {"append", "commit"} => req[r].created <= clock
  /\ \A r \in Requests : req[r].pc = "commit" => req[r].mid > Legacy /\ req[r].mid < nextMsg

Ordered ==
  \A m, n \in msgs : /\ m.id < n.id => m.created <= n.created
                     /\ m.id = n.id => m = n

(* What a transaction that met no write can rely on.                       *)
SnapshotCurrent ==
  \A r \in Requests : (Busy(r) /\ ~req[r].stale) =>
    /\ convo # None /\ req[r].conv = convo.id /\ req[r].deadline = convo.expires
    /\ req[r].pc \in {"append", "commit"} => \A m \in msgs : m.created <= req[r].created
    /\ req[r].pc = "commit" => \A m \in msgs : m.id < req[r].mid

(* Nothing is served before the migration ends; what is served later is    *)
(* sent with the deadline it gives.                                        *)
Booting == proc \in {"down", "messages", "lookup", "merge"}
Served ==
  /\ (Booting \/ proc = "ioClosed") => clients = {}
  /\ Booting => (\A r \in Requests : ~Busy(r))
  /\ ~Booting => migrated
  /\ \A m \in msgs : m.id > Legacy => migrated
AllRight ==
  (migrated \/ proc \in {"lookup", "merge"}) => \A m \in msgs : Right(m)

(* The deadline about to be merged, and the one in force, cover the        *)
(* messages.                                                               *)
Covers(d) == d \in Nat /\ \A m \in MessagesOf(convo.id) : m.expires <= d
Targeted ==
  (proc = "merge" /\ convo # None) => target # None /\ Covers(target.expires)
Covered ==
  (migrated /\ convo # None) => Covers(convo.expires)

Inv == /\ Shape /\ Ids /\ Ordered /\ SnapshotCurrent /\ Served /\ AllRight
       /\ Targeted /\ Covered /\ LiveHasConversation /\ ShutdownDrains

LEMMA InvInit == Init => Inv
<1> SUFFICES ASSUME Init PROVE Inv
  OBVIOUS
<1>1. PICK c \in [id : {1}, created : 0..Now, expires : Deadlines] :
        /\ convo = c
        /\ \E f \in [1..Legacy -> c.created..Now], d \in [1..Legacy -> Deadlines] :
             /\ \A i, k \in 1..Legacy : i < k => f[i] <= f[k]
             /\ msgs = {[id |-> i, conv |-> 1, created |-> f[i], expires |-> d[i]] : i \in 1..Legacy}
  BY DEF Init
<1>11. PICK f \in [1..Legacy -> c.created..Now], d \in [1..Legacy -> Deadlines] :
        /\ \A i, k \in 1..Legacy : i < k => f[i] <= f[k]
        /\ msgs = {[id |-> i, conv |-> 1, created |-> f[i], expires |-> d[i]] : i \in 1..Legacy}
  BY <1>1
<1>2. /\ proc = "down" /\ clock = Now /\ nextMsg = Legacy + 1 /\ nextConv = 2
      /\ target = None /\ req = [r \in Requests |-> Idle] /\ clients = {} /\ migrated = FALSE
  BY DEF Init
<1>12. /\ c.created \in Nat /\ Now \in Nat /\ Legacy \in Nat /\ convo \in Thread
       /\ Deadlines \subseteq NatOrNone
  BY <1>1, TimeAssumption DEF Thread, NatOrNone, Deadlines, Times
<1>3. \A i \in 1..Legacy : f[i] \in Nat /\ f[i] <= Now /\ d[i] \in NatOrNone
  <2>1. ASSUME NEW i \in 1..Legacy PROVE f[i] \in c.created..Now /\ d[i] \in Deadlines
    BY <1>11
  <2> QED
    BY <2>1, <1>12
<1>4. ASSUME NEW m \in msgs
      PROVE  /\ m \in Msg /\ m.id \in 1..Legacy /\ m.conv = 1 /\ m.created = f[m.id]
             /\ m.expires = d[m.id]
             /\ m = [id |-> m.id, conv |-> 1, created |-> f[m.id], expires |-> d[m.id]]
  BY <1>11, <1>3, TimeAssumption DEF Msg
<1>5. Shape
  <2>1. msgs \subseteq Msg
    BY <1>4
  <2>2. req \in [Requests -> Sending \cup {Idle}]
    BY <1>2
  <2>3. nextMsg \in Nat /\ nextConv \in Nat /\ clock \in Nat
    BY <1>2, <1>12
  <2>4. proc \in Phases /\ migrated \in BOOLEAN
    BY <1>2 DEF Phases
  <2> QED
    BY <1>12, <2>1, <2>2, <2>3, <2>4 DEF Shape
<1>6. Ids
  BY <1>1, <1>2, <1>3, <1>4, TimeAssumption DEF Ids, Idle
<1>7. Ordered
  BY <1>11, <1>4 DEF Ordered
<1>8. SnapshotCurrent /\ Served
  BY <1>2, <1>4, TimeAssumption DEF SnapshotCurrent, Served, Booting, Busy
<1>13. ShutdownDrains
  BY <1>2 DEF ShutdownDrains
<1>9. AllRight /\ Targeted /\ Covered
  BY <1>2 DEF AllRight, Targeted, Covered
<1>10. LiveHasConversation
  BY <1>4, TimeAssumption DEF LiveHasConversation
<1> QED
  BY <1>5, <1>6, <1>7, <1>8, <1>9, <1>10, <1>13 DEF Inv

-----------------------------------------------------------------------------
(* The requests.                                                           *)

(* One request moves.                                                      *)
LEMMA RequestStep ==
  ASSUME Inv, NEW r \in Requests, NEW q \in Sending \cup {Idle},
         req' = [req EXCEPT ![r] = q], UNCHANGED <<proc, clock, convo, msgs, nextConv, target,
                                                   clients, migrated>>,
         nextMsg' \in Nat, nextMsg' >= nextMsg,
         q # Idle => ~Booting,
         (proc = "ioClosed" /\ q # Idle) => ~q.rest,
         q.pc \in {"append", "commit"} => q.created <= clock,
         q.pc = "commit" => q.mid > Legacy /\ q.mid < nextMsg',
         (q # Idle /\ ~q.stale) =>
           /\ convo # None /\ q.conv = convo.id /\ q.deadline = convo.expires
           /\ q.pc \in {"append", "commit"} => \A m \in msgs : m.created <= q.created
           /\ q.pc = "commit" => \A m \in msgs : m.id < q.mid
  PROVE  Inv'
<1>1. req'[r] = q /\ \A s \in Requests \ {r} : req'[s] = req[s]
  BY DEF Inv, Shape
<1>2. Shape'
  BY DEF Inv, Shape
<1>3. Ids'
  <2>1. nextMsg' > Legacy
    BY TimeAssumption DEF Inv, Ids, Shape
  <2>2. \A m \in msgs : m.id < nextMsg'
    BY DEF Inv, Ids, Shape, Msg
  <2>3. \A s \in Requests : req'[s].pc \in {"append", "commit"} => req'[s].created <= clock
    BY <1>1 DEF Inv, Ids
  <2>4. \A s \in Requests : req'[s].pc = "commit" => req'[s].mid > Legacy /\ req'[s].mid < nextMsg'
    <3>1. ASSUME NEW s \in Requests, s # r, req[s].pc = "commit"
          PROVE  req[s].mid > Legacy /\ req[s].mid < nextMsg'
      <4>1. req[s] \in Sending
        BY <3>1 DEF Inv, Shape, Idle
      <4> QED
        BY <3>1, <4>1 DEF Inv, Ids, Shape, Sending
    <3> QED
      BY <3>1, <1>1
  <2> QED
    BY <2>1, <2>2, <2>3, <2>4 DEF Inv, Ids
<1>4. Ordered'
  BY DEF Inv, Ordered
<1>5. SnapshotCurrent'
  BY <1>1 DEF Inv, SnapshotCurrent, Busy
<1>6. Served'
  BY <1>1 DEF Inv, Served, Booting, Busy
<1>7. AllRight' /\ Targeted' /\ Covered' /\ LiveHasConversation'
  BY DEF Inv, AllRight, Targeted, Covered, LiveHasConversation, Right, Covers, MessagesOf
<1>8. ShutdownDrains'
  BY <1>1 DEF Inv, ShutdownDrains, Busy
<1> QED
  BY <1>2, <1>3, <1>4, <1>5, <1>6, <1>7, <1>8 DEF Inv

LEMMA AttemptFacts ==
  ASSUME Inv, convo # None, NEW rest \in BOOLEAN
  PROVE  LET q == Attempt(rest, convo) IN
         /\ q \in Sending /\ q # Idle /\ q.pc = "stamp" /\ ~q.stale
         /\ q.conv = convo.id /\ q.deadline = convo.expires /\ q.rest = rest
  BY DEF Inv, Shape, Attempt, Sending, Thread, Idle, NatOrNone

LEMMA SendBeginStep ==
  ASSUME Inv, NEW r \in Requests, SendBegin(r)
  PROVE  Inv'
<1>1. PICK rest \in BOOLEAN :
        /\ IF rest THEN Listens ELSE clients # {}
        /\ req' = [req EXCEPT ![r] = Attempt(rest, convo)]
  BY DEF SendBegin
<1> DEFINE q == Attempt(rest, convo)
<1>2. /\ q \in Sending /\ q # Idle /\ q.pc = "stamp" /\ ~q.stale
      /\ q.conv = convo.id /\ q.deadline = convo.expires /\ q.rest = rest
  BY AttemptFacts DEF SendBegin
<1> HIDE DEF q
<1>3. ~Booting /\ req' = [req EXCEPT ![r] = q]
  BY <1>1 DEF Inv, Served, Booting, Listens, q
<1>6. proc = "ioClosed" => ~q.rest
  BY <1>1, <1>2 DEF Inv, Served, Listens
<1>4. UNCHANGED <<proc, clock, convo, msgs, nextMsg, nextConv, target, clients, migrated>>
      /\ convo # None /\ nextMsg \in Nat
  BY DEF SendBegin, store, Inv, Shape
<1>5. nextMsg' \in Nat /\ nextMsg' >= nextMsg
  BY <1>4
<1> QED
  BY <1>2, <1>3, <1>4, <1>5, <1>6, RequestStep

LEMMA StampStep ==
  ASSUME Inv, NEW r \in Requests, SendStamp(r)
  PROVE  Inv'
<1>1. req[r] \in Sending /\ req[r].pc = "stamp" /\ clock \in Nat /\ nextMsg \in Nat
  BY DEF SendStamp, Inv, Shape, Idle
<1> DEFINE q == [req[r] EXCEPT !.pc = "append", !.created = clock]
<1>2. /\ q \in Sending /\ q.pc = "append" /\ q.created = clock /\ q.stale = req[r].stale
      /\ q.conv = req[r].conv /\ q.deadline = req[r].deadline /\ q.rest = req[r].rest
  BY <1>1 DEF Sending
<1> HIDE DEF q
<1>3. /\ req' = [req EXCEPT ![r] = q]
      /\ UNCHANGED <<proc, clock, convo, msgs, nextMsg, nextConv, target, clients, migrated>>
  BY DEF SendStamp, store, q, Inv, Shape
<1>4. Busy(r) /\ ~Booting /\ (proc = "ioClosed" => ~q.rest)
  BY <1>1, <1>2 DEF Inv, Served, ShutdownDrains, Busy, Idle
<1>5. ~q.stale => convo # None /\ q.conv = convo.id /\ q.deadline = convo.expires
  BY <1>2, <1>4 DEF Inv, SnapshotCurrent
<1>6. \A m \in msgs : m.created <= q.created
  BY <1>2 DEF Inv, Ids
<1>7. nextMsg' \in Nat /\ nextMsg' >= nextMsg /\ q.created <= clock
  BY <1>1, <1>2, <1>3
<1> QED
  BY <1>2, <1>3, <1>4, <1>5, <1>6, <1>7, RequestStep

LEMMA AppendStep ==
  ASSUME Inv, NEW r \in Requests, SendAppend(r)
  PROVE  Inv'
<1>1. req[r] \in Sending /\ req[r].pc = "append" /\ nextMsg \in Nat
  BY DEF SendAppend, Inv, Shape, Idle
<1> DEFINE q == [req[r] EXCEPT !.pc = "commit", !.mid = nextMsg]
<1>2. /\ q \in Sending /\ q.pc = "commit" /\ q.created = req[r].created
      /\ q.stale = req[r].stale /\ q.mid = nextMsg
      /\ q.conv = req[r].conv /\ q.deadline = req[r].deadline /\ q.rest = req[r].rest
  BY <1>1 DEF Sending
<1> HIDE DEF q
<1>3. /\ req' = [req EXCEPT ![r] = q] /\ nextMsg' = nextMsg + 1
      /\ UNCHANGED <<proc, clock, convo, msgs, nextConv, target, clients, migrated>>
  BY DEF SendAppend, q, Inv, Shape
<1>4. Busy(r) /\ ~Booting /\ (proc = "ioClosed" => ~q.rest)
  BY <1>1, <1>2 DEF Inv, Served, ShutdownDrains, Busy, Idle
<1>5. ~q.stale =>
        /\ convo # None /\ q.conv = convo.id /\ q.deadline = convo.expires
        /\ \A m \in msgs : m.created <= q.created
  BY <1>1, <1>2, <1>4 DEF Inv, SnapshotCurrent
<1>6. q.created <= clock /\ \A m \in msgs : m.id < q.mid
  BY <1>1, <1>2 DEF Inv, Ids
<1>7. /\ nextMsg' \in Nat /\ nextMsg' >= nextMsg
      /\ q.mid > Legacy /\ q.mid < nextMsg'
  BY <1>1, <1>2, <1>3 DEF Inv, Ids
<1> QED
  BY <1>2, <1>3, <1>4, <1>5, <1>6, <1>7, RequestStep

LEMMA RetryStep ==
  ASSUME Inv, NEW r \in Requests, TxnRetry(r) \/ Fail(r)
  PROVE  Inv'
<1>1. /\ UNCHANGED <<proc, clock, convo, msgs, nextMsg, nextConv, target, clients, migrated>>
      /\ Busy(r) /\ nextMsg \in Nat
  BY DEF TxnRetry, Fail, store, Inv, Shape
<1>2. nextMsg' \in Nat /\ nextMsg' >= nextMsg /\ ~Booting /\ req[r] \in Sending
  BY <1>1 DEF Inv, Served, Shape, Busy
<1>3. CASE req' = [req EXCEPT ![r] = Idle]
  <2>1. Idle.pc = "idle"
    BY DEF Idle
  <2> QED
    BY <1>1, <1>2, <1>3, <2>1, RequestStep
<1>4. CASE convo # None /\ req' = [req EXCEPT ![r] = Attempt(req[r].rest, convo)]
  <2> DEFINE q == Attempt(req[r].rest, convo)
  <2>1. req[r].rest \in BOOLEAN
    BY <1>2 DEF Sending
  <2>2. /\ q \in Sending /\ q # Idle /\ q.pc = "stamp" /\ ~q.stale
        /\ q.conv = convo.id /\ q.deadline = convo.expires /\ q.rest = req[r].rest
    BY <1>4, <2>1, AttemptFacts
  <2> HIDE DEF q
  <2>3. req' = [req EXCEPT ![r] = q]
    BY <1>4 DEF q
  <2>4. proc = "ioClosed" => ~q.rest
    BY <1>1, <2>2 DEF Inv, ShutdownDrains
  <2> QED
    BY <1>1, <1>2, <1>4, <2>2, <2>3, <2>4, RequestStep
<1> QED
  BY <1>3, <1>4 DEF TxnRetry, Fail, Inv, Shape

(* A write leaves no other transaction current, and changes nothing else   *)
(* of it.                                                                  *)
LEMMA StaleFacts ==
  ASSUME NEW q \in Sending \cup {Idle}
  PROVE  /\ Stale(q) \in Sending \cup {Idle}
         /\ q = Idle => Stale(q) = Idle
         /\ q # Idle => /\ Stale(q) # Idle /\ Stale(q).stale /\ Stale(q).pc = q.pc
                        /\ Stale(q).created = q.created /\ Stale(q).mid = q.mid
                        /\ Stale(q).rest = q.rest
  BY DEF Stale, Sending, Idle

LEMMA WroteFacts ==
  ASSUME Inv, NEW r \in Requests, req' = Wrote(r)
  PROVE  /\ req' \in [Requests -> Sending \cup {Idle}]
         /\ \A s \in Requests : \/ req'[s] = Idle
                                \/ /\ req[s] # Idle /\ req'[s].stale /\ req'[s].pc = req[s].pc
                                   /\ req'[s].created = req[s].created /\ req'[s].mid = req[s].mid
                                   /\ req'[s].rest = req[s].rest
<1>1. ASSUME NEW s \in Requests
      PROVE  /\ req'[s] \in Sending \cup {Idle}
             /\ \/ req'[s] = Idle
                \/ /\ req[s] # Idle /\ req'[s].stale /\ req'[s].pc = req[s].pc
                   /\ req'[s].created = req[s].created /\ req'[s].mid = req[s].mid
                   /\ req'[s].rest = req[s].rest
  <2>1. req[s] \in Sending \cup {Idle}
    BY DEF Inv, Shape
  <2>2. req'[s] = IF s = r THEN Idle ELSE Stale(req[s])
    BY DEF Wrote
  <2> QED
    BY <2>1, <2>2, StaleFacts
<1>2. req' = [s \in Requests |-> req'[s]]
  BY DEF Wrote
<1> QED
  BY <1>1, <1>2

(* A first request for the thread makes one that no message is in yet.     *)
LEMMA FindOrCreateStep ==
  ASSUME Inv, NEW r \in Requests, FindOrCreate(r)
  PROVE  Inv'
<1>1. /\ UNCHANGED <<proc, clock, msgs, nextMsg, target, clients, migrated>>
      /\ ~Busy(r) /\ Listens /\ req' = Wrote(r)
  BY DEF FindOrCreate
<1>2. /\ req' \in [Requests -> Sending \cup {Idle}]
      /\ \A s \in Requests : \/ req'[s] = Idle
                             \/ /\ req[s] # Idle /\ req'[s].stale /\ req'[s].pc = req[s].pc
                                /\ req'[s].created = req[s].created /\ req'[s].mid = req[s].mid
                                /\ req'[s].rest = req[s].rest
  BY <1>1, WroteFacts
<1>21. Idle.pc = "idle"
  BY DEF Idle
<1>3. \/ UNCHANGED <<convo, nextConv>> /\ convo # None
      \/ /\ convo = None /\ nextConv' = nextConv + 1
         /\ convo' = [id |-> nextConv, created |-> clock, expires |-> clock + TTL]
  BY DEF FindOrCreate
<1>4. nextConv' \in Nat /\ nextConv' >= nextConv /\ (convo' # None => convo' \in Thread /\ convo'.id < nextConv')
  BY <1>3, TimeAssumption DEF Inv, Shape, Ids, Thread, NatOrNone
<1>5. Shape'
  BY <1>1, <1>2, <1>4 DEF Inv, Shape
<1>6. Ids'
  <2>1. \A m \in msgs : m.conv < nextConv'
    BY <1>4 DEF Inv, Ids, Shape, Msg
  <2> QED
    BY <1>1, <1>2, <1>21, <1>4, <2>1 DEF Inv, Ids
<1>7. Ordered' /\ AllRight' /\ Targeted'
  BY <1>1 DEF Inv, Ordered, AllRight, Targeted, Right, Listens
<1>8. SnapshotCurrent' /\ Served'
  BY <1>1, <1>2 DEF Inv, Served, Booting, SnapshotCurrent, Busy
<1>9. Covered'
  <2>1. CASE UNCHANGED <<convo, nextConv>>
    BY <1>1, <2>1 DEF Inv, Covered, Covers, MessagesOf
  <2>2. CASE convo' = [id |-> nextConv, created |-> clock, expires |-> clock + TTL]
    <3>1. \A m \in msgs : m.conv # convo'.id
      BY <2>2 DEF Inv, Ids, Shape, Msg
    <3>2. convo'.expires \in Nat
      BY <2>2, TimeAssumption DEF Inv, Shape
    <3> QED
      BY <1>1, <3>1, <3>2 DEF Covered, Covers, MessagesOf
  <2> QED
    BY <1>3, <2>1, <2>2
<1>10. LiveHasConversation' /\ ShutdownDrains'
  BY <1>1, <1>2, <1>3 DEF Inv, LiveHasConversation, ShutdownDrains, Busy
<1> QED
  BY <1>5, <1>6, <1>7, <1>8, <1>9, <1>10 DEF Inv

(* A commit: nothing was written since the snapshot, so the new message is *)
(* the last in every order.                                                *)
LEMMA CommitStep ==
  ASSUME Inv, NEW r \in Requests, SendCommit(r)
  PROVE  Inv'
<1> DEFINE q == req[r]
           n == [id |-> q.mid, conv |-> q.conv, created |-> q.created, expires |-> q.created + TTL]
<1>1. /\ q.pc = "commit" /\ ~q.stale /\ msgs' = msgs \cup {n} /\ req' = Wrote(r)
      /\ convo' = [convo EXCEPT !.expires = Later(q.deadline, q.created + TTL)]
      /\ UNCHANGED <<proc, clock, nextMsg, nextConv, target, clients, migrated>>
  BY DEF SendCommit, MayCommit
<1>2. q \in Sending /\ Busy(r) /\ ~Booting /\ migrated
  BY <1>1 DEF Inv, Shape, Served, Idle, Busy
<1>3. /\ convo # None /\ convo \in Thread /\ q.conv = convo.id /\ q.deadline = convo.expires
      /\ \A m \in msgs : m.created <= q.created /\ m.id < q.mid
      /\ q.created <= clock /\ q.mid > Legacy /\ q.mid < nextMsg
  BY <1>1, <1>2 DEF Inv, Shape, Ids, SnapshotCurrent
<1>4. convo.expires \in Nat /\ \A m \in MessagesOf(convo.id) : m.expires <= convo.expires
  BY <1>2, <1>3 DEF Inv, Covered, Covers
<1>5. n \in Msg /\ n.id = q.mid /\ n.conv = convo.id /\ n.created = q.created
      /\ n.expires = q.created + TTL /\ n.expires \in Nat
  BY <1>2, <1>3, TimeAssumption DEF Sending, Msg, NatOrNone
<1>6. /\ convo' \in Thread /\ convo'.id = convo.id /\ convo'.expires \in Nat
      /\ convo'.expires >= convo.expires /\ convo'.expires >= n.expires
  BY <1>1, <1>3, <1>4, <1>5 DEF Thread, Later, NatOrNone
<1>7. /\ req' \in [Requests -> Sending \cup {Idle}]
      /\ \A s \in Requests : \/ req'[s] = Idle
                             \/ /\ req[s] # Idle /\ req'[s].stale /\ req'[s].pc = req[s].pc
                                /\ req'[s].created = req[s].created /\ req'[s].mid = req[s].mid
                                /\ req'[s].rest = req[s].rest
  BY <1>1, WroteFacts
<1>8. Idle.pc = "idle"
  BY DEF Idle
<1> HIDE DEF n, q
<1>9. Shape'
  BY <1>1, <1>5, <1>6, <1>7 DEF Inv, Shape
<1>10. Ids'
  BY <1>1, <1>3, <1>5, <1>6, <1>7, <1>8 DEF Inv, Ids
<1>11. Ordered'
  <2>1. ASSUME NEW m \in msgs PROVE m.created <= n.created /\ ~(n.id < m.id) /\ m.id # n.id
    BY <1>2, <1>3, <1>5 DEF Inv, Shape, Msg, Sending
  <2>2. n.created <= n.created /\ ~(n.id < n.id)
    BY <1>5 DEF Msg
  <2> QED
    BY <1>1, <2>1, <2>2 DEF Inv, Ordered
<1>12. SnapshotCurrent' /\ Served'
  BY <1>1, <1>2, <1>7 DEF Inv, Served, Booting, SnapshotCurrent, Busy
<1>13. AllRight' /\ Targeted'
  BY <1>1, <1>2, <1>5 DEF Inv, AllRight, Targeted, Right, Booting
<1>14. Covered'
  <2>1. ASSUME NEW m \in MessagesOf(convo.id)' PROVE m.expires <= convo'.expires
    <3>1. CASE m = n
      BY <1>5, <1>6, <3>1
    <3>2. CASE m \in msgs
      <4>1. m \in MessagesOf(convo.id) /\ m.expires = m.created + TTL /\ m.created \in Nat
        BY <1>2, <1>6, <2>1, <3>2 DEF MessagesOf, Inv, AllRight, Right, Shape, Msg
      <4> QED
        BY <1>4, <1>6, <4>1, TimeAssumption
    <3> QED
      BY <1>1, <2>1, <3>1, <3>2 DEF MessagesOf
  <2> QED
    BY <1>6, <2>1 DEF Covered, Covers
<1>15. LiveHasConversation'
  <2>1. convo' # None
    <3>1. convo' \in [id : Nat, created : Nat, expires : Nat]
      BY <1>6 DEF Thread
    <3> QED
      BY <3>1, NoneAssumption
  <2> QED
    BY <1>1, <1>5, <1>6, <2>1 DEF Inv, LiveHasConversation
<1>16. ShutdownDrains'
  BY <1>1, <1>7 DEF Inv, ShutdownDrains, Busy
<1> QED
  BY <1>9, <1>10, <1>11, <1>12, <1>13, <1>14, <1>15, <1>16 DEF Inv

-----------------------------------------------------------------------------
(* The database.                                                           *)
LEMMA TickStep ==
  ASSUME Inv, Tick
  PROVE  Inv'
<1>1. /\ clock' = clock + 1
      /\ UNCHANGED <<proc, convo, msgs, nextMsg, nextConv, target, req, clients, migrated>>
  BY DEF Tick, store
<1>2. clock \in Nat /\ clock' \in Nat
  BY <1>1 DEF Inv, Shape
<1>3. Shape' /\ Ordered' /\ SnapshotCurrent' /\ Served' /\ ShutdownDrains'
  BY <1>1, <1>2 DEF Inv, Shape, Ordered, SnapshotCurrent, Served, Booting, Busy, ShutdownDrains
<1>4. AllRight' /\ Targeted' /\ Covered'
  BY <1>1 DEF Inv, AllRight, Right, Targeted, Covered, Covers, MessagesOf
<1>5. Ids'
  <2>1. ASSUME NEW m \in msgs PROVE m.created <= clock'
    BY <1>1, <1>2 DEF Inv, Ids, Shape, Msg
  <2>2. ASSUME NEW s \in Requests, req[s].pc \in {"append", "commit"} PROVE req[s].created <= clock'
    <3>1. req[s] \in Sending
      BY <2>2 DEF Inv, Shape, Idle
    <3> QED
      BY <1>1, <1>2, <2>2, <3>1 DEF Inv, Ids, Sending
  <2> QED
    BY <1>1, <2>1, <2>2 DEF Inv, Ids
<1>6. LiveHasConversation'
  <2>1. ASSUME NEW m \in msgs, m.id > Legacy, m.expires > clock' PROVE m.expires > clock
    <3>1. m.expires = m.created + TTL /\ m.created \in Nat
      BY <2>1 DEF Inv, Served, AllRight, Right, Shape, Msg
    <3> QED
      BY <1>1, <1>2, <2>1, <3>1, TimeAssumption
  <2> QED
    BY <1>1, <2>1 DEF Inv, LiveHasConversation
<1> QED
  BY <1>3, <1>4, <1>5, <1>6 DEF Inv

LEMMA SweepMessageStep ==
  ASSUME Inv, NEW m \in msgs, SweepMessage(m)
  PROVE  Inv'
<1>1. /\ msgs' \subseteq msgs
      /\ UNCHANGED <<proc, clock, convo, nextMsg, nextConv, target, req, clients, migrated>>
  BY DEF SweepMessage
<1>2. Shape' /\ Ids' /\ Ordered' /\ SnapshotCurrent' /\ Served' /\ ShutdownDrains'
  BY <1>1 DEF Inv, Shape, Ids, Ordered, SnapshotCurrent, Served, Booting, Busy, ShutdownDrains
<1>3. AllRight' /\ Targeted' /\ Covered' /\ LiveHasConversation'
  BY <1>1 DEF Inv, AllRight, Right, Targeted, Covered, Covers, MessagesOf, LiveHasConversation
<1> QED
  BY <1>2, <1>3 DEF Inv

(* A conversation that is due covers its messages, so they are due too.    *)
LEMMA SweepConvoStep ==
  ASSUME Inv, SweepConvo
  PROVE  Inv'
<1>1. /\ convo # None /\ Due(convo) /\ convo' = None
      /\ req' = [r \in Requests |-> Stale(req[r])]
      /\ UNCHANGED <<proc, clock, msgs, nextMsg, nextConv, target, clients, migrated>>
  BY DEF SweepConvo
<1>2. \A s \in Requests : /\ req[s] \in Sending \cup {Idle} /\ req'[s] = Stale(req[s])
                          /\ req'[s] \in Sending \cup {Idle}
  BY <1>1, StaleFacts DEF Inv, Shape
<1>3. \A s \in Requests : /\ req[s] = Idle => req'[s] = Idle
                          /\ req[s] # Idle => /\ req'[s].stale /\ req'[s].pc = req[s].pc
                                              /\ req'[s].created = req[s].created /\ req'[s].mid = req[s].mid
                                              /\ req'[s].rest = req[s].rest
  BY <1>2, StaleFacts
<1>4. Shape'
  BY <1>1, <1>2 DEF Inv, Shape
<1>5. Ids'
  BY <1>1, <1>3 DEF Inv, Ids
<1>6. Ordered' /\ AllRight' /\ Targeted' /\ Covered'
  BY <1>1 DEF Inv, Ordered, AllRight, Right, Targeted, Covered
<1>7. SnapshotCurrent' /\ Served' /\ ShutdownDrains'
  BY <1>1, <1>3 DEF Inv, SnapshotCurrent, Served, Booting, Busy, ShutdownDrains
<1>8. LiveHasConversation'
  <2>1. SUFFICES ASSUME NEW m \in msgs, m.id > Legacy, m.expires > clock PROVE FALSE
    BY <1>1 DEF LiveHasConversation
  <2>2. convo.id = m.conv /\ migrated /\ m.expires = m.created + TTL /\ m.created \in Nat
    BY <2>1 DEF Inv, LiveHasConversation, Served, AllRight, Right, Shape, Msg
  <2>3. convo.expires \in Nat /\ m.expires <= convo.expires
    BY <1>1, <2>1, <2>2 DEF Inv, Covered, Covers, MessagesOf
  <2>4. convo.expires <= clock /\ clock \in Nat
    BY <1>1 DEF Due, Inv, Shape
  <2> QED
    BY <2>1, <2>2, <2>3, <2>4, TimeAssumption
<1> QED
  BY <1>4, <1>5, <1>6, <1>7, <1>8 DEF Inv

-----------------------------------------------------------------------------
(* The migration.                                                          *)

(* Only a message from before the first migration is ever corrected.       *)
LEMMA MigrateMessageStep ==
  ASSUME Inv, NEW m \in msgs, MigrateMessage(m)
  PROVE  Inv'
<1> DEFINE n == [m EXCEPT !.expires = m.created + TTL]
<1>1. /\ proc = "messages" /\ ~Right(m) /\ msgs' = (msgs \ {m}) \cup {n}
      /\ UNCHANGED <<proc, clock, convo, nextMsg, nextConv, target, req, clients, migrated>>
  BY DEF MigrateMessage
<1>2. /\ m \in Msg /\ n \in Msg /\ n.id = m.id /\ n.conv = m.conv /\ n.created = m.created
      /\ n.id \in Nat
  BY TimeAssumption DEF Inv, Shape, Msg, NatOrNone
<1>3. ~migrated /\ ~(n.id > Legacy)
  BY <1>1, <1>2 DEF Inv, AllRight, Served
<1> HIDE DEF n
<1>4. Shape' /\ Ids'
  BY <1>1, <1>2 DEF Inv, Shape, Ids
<1>5. Ordered'
  <2>1. ASSUME NEW k \in msgs \ {m}
        PROVE  /\ k.id < n.id => k.created <= n.created
               /\ n.id < k.id => n.created <= k.created
               /\ k.id # n.id
    BY <1>2, <2>1 DEF Inv, Ordered
  <2>2. n.created <= n.created /\ ~(n.id < n.id)
    BY <1>2 DEF Msg
  <2> QED
    BY <1>1, <2>1, <2>2 DEF Inv, Ordered
<1>6. SnapshotCurrent' /\ Served' /\ ShutdownDrains'
  BY <1>1, <1>3 DEF Inv, SnapshotCurrent, Served, Booting, Busy, ShutdownDrains
<1>7. AllRight' /\ Targeted' /\ Covered'
  BY <1>1, <1>3 DEF AllRight, Targeted, Covered
<1>8. LiveHasConversation'
  BY <1>1, <1>3 DEF Inv, LiveHasConversation
<1> QED
  BY <1>4, <1>5, <1>6, <1>7, <1>8 DEF Inv

(* Newest is the message with the highest id.                              *)
LEMMA NewestIs ==
  ASSUME Inv, NEW id, MessagesOf(id) # {}
  PROVE  /\ Newest(id) \in MessagesOf(id)
         /\ \A k \in MessagesOf(id) : k.id <= Newest(id).id
<1> DEFINE M == MessagesOf(id)
           S == {m.id : m \in M}
<1>1. S \in SUBSET (0..nextMsg) /\ S # {} /\ nextMsg \in Nat
  BY DEF MessagesOf, Inv, Shape, Ids, Msg
<1>2. PICK x \in S : \A y \in S : y <= x
  BY <1>1, Greatest
<1>3. PICK m \in M : x = m.id
  BY <1>2
<1>4. \A k \in M : k.id <= m.id
  BY <1>2, <1>3
<1> QED
  BY <1>4 DEF Newest

(* It has the latest deadline of its conversation, since later ids were    *)
(* created later: this is what the migration relies on.                    *)
LEMMA NewestCovers ==
  ASSUME Inv, convo # None, \A m \in msgs : Right(m)
  PROVE  Covers(RetentionTarget(convo))
<1> DEFINE M == MessagesOf(convo.id)
<1>1. M \subseteq msgs /\ \A m \in M : m \in Msg /\ m.id \in Nat /\ m.created \in Nat
                                       /\ m.expires = m.created + TTL
  BY DEF MessagesOf, Right, Inv, Shape, Msg
<1>2. CASE M = {}
  <2>1. RetentionTarget(convo) = convo.created + TTL
    BY <1>2 DEF RetentionTarget
  <2> QED
    BY <1>2, <2>1, TimeAssumption DEF Covers, Inv, Shape, Thread
<1>3. CASE M # {}
  <2> DEFINE top == Newest(convo.id)
  <2>1. top \in M /\ \A k \in M : k.id <= top.id
    BY <1>3, NewestIs
  <2>2. RetentionTarget(convo) = top.expires
    BY <1>3 DEF RetentionTarget
  <2> HIDE DEF top, M
  <2>3. ASSUME NEW k \in M PROVE k.created <= top.created
    <3>1. k.id < top.id \/ k.id = top.id
      BY <1>1, <2>1, <2>3
    <3>2. k \in msgs /\ top \in msgs /\ k.created \in Nat
      BY <1>1, <2>1, <2>3
    <3> QED
      BY <3>1, <3>2 DEF Inv, Ordered
  <2>4. top.expires \in Nat /\ \A k \in M : k.expires <= top.expires
    BY <1>1, <2>1, <2>3, TimeAssumption
  <2> QED
    BY <2>2, <2>4 DEF Covers, M
<1> QED
  BY <1>2, <1>3

LEMMA LookupStep ==
  ASSUME Inv, LookupNewest
  PROVE  Inv'
<1>1. /\ proc = "lookup" /\ proc' = "merge"
      /\ target' = IF convo = None THEN None ELSE [id |-> convo.id, expires |-> RetentionTarget(convo)]
      /\ UNCHANGED <<clock, convo, msgs, nextMsg, nextConv, req, clients, migrated>>
  BY DEF LookupNewest, store
<1>2. \A m \in msgs : Right(m)
  BY <1>1 DEF Inv, AllRight
<1>3. Shape' /\ Ids' /\ Ordered' /\ SnapshotCurrent'
  BY <1>1 DEF Inv, Shape, Phases, Ids, Ordered, SnapshotCurrent, Busy
<1>4. Served' /\ AllRight' /\ Covered' /\ LiveHasConversation' /\ ShutdownDrains'
  BY <1>1, <1>2 DEF Inv, Served, Booting, Busy, AllRight, Right, Covered, Covers, MessagesOf,
                    LiveHasConversation, ShutdownDrains
<1>5. Targeted'
  <2>1. SUFFICES ASSUME convo # None PROVE (target # None /\ Covers(target.expires))'
    BY <1>1 DEF Targeted
  <2>2. Covers(RetentionTarget(convo))
    BY <1>2, <2>1, NewestCovers
  <2>3. target' = [id |-> convo.id, expires |-> RetentionTarget(convo)]
    BY <1>1, <2>1
  <2>4. target' \in [id : Nat, expires : Nat] /\ target'.expires = RetentionTarget(convo)
    BY <2>1, <2>2, <2>3 DEF Covers, Inv, Shape, Thread
  <2>5. target' # None
    BY <2>4, NoneAssumption
  <2> QED
    BY <1>1, <2>2, <2>4, <2>5 DEF Covers, MessagesOf
<1> QED
  BY <1>3, <1>4, <1>5 DEF Inv

LEMMA MergeStep ==
  ASSUME Inv, Merge
  PROVE  Inv'
<1>1. /\ proc = "merge" /\ proc' = "serving" /\ migrated' = TRUE
      /\ convo' = IF target # None /\ convo # None THEN [convo EXCEPT !.expires = target.expires]
                  ELSE convo
      /\ UNCHANGED <<clock, msgs, nextMsg, nextConv, req, clients>>
  BY DEF Merge
<1>2. \A m \in msgs : Right(m)
  BY <1>1 DEF Inv, AllRight
<1>3. \A s \in Requests : ~Busy(s)
  BY <1>1 DEF Inv, Served, Booting
<1>4. CASE convo = None
  <2>1. convo' = None
    BY <1>1, <1>4
  <2>2. Shape' /\ Ids' /\ Ordered'
    BY <1>1, <2>1 DEF Inv, Shape, Phases, Ids, Ordered
  <2>3. SnapshotCurrent' /\ Served' /\ AllRight' /\ Targeted' /\ Covered'
    BY <1>1, <1>2, <1>3, <2>1 DEF SnapshotCurrent, Busy, Inv, Served, Booting, AllRight, Right,
                                 Targeted, Covered
  <2>4. LiveHasConversation' /\ ShutdownDrains'
    BY <1>1, <1>4, <2>1 DEF Inv, LiveHasConversation, ShutdownDrains
  <2> QED
    BY <2>2, <2>3, <2>4 DEF Inv
<1>5. CASE convo # None
  <2>1. target # None /\ Covers(target.expires) /\ convo \in Thread
    BY <1>1, <1>5 DEF Inv, Targeted, Shape
  <2>2. convo' = [convo EXCEPT !.expires = target.expires]
    BY <1>1, <1>5, <2>1
  <2>3. convo' \in Thread /\ convo'.id = convo.id /\ convo'.expires = target.expires
        /\ convo' \in [id : Nat, created : Nat, expires : Nat]
    BY <2>1, <2>2 DEF Thread, NatOrNone, Covers
  <2>4. convo' # None
    BY <2>3, NoneAssumption
  <2>5. Shape' /\ Ids' /\ Ordered'
    BY <1>1, <1>5, <2>3 DEF Inv, Shape, Phases, Ids, Ordered
  <2>6. SnapshotCurrent' /\ Served' /\ AllRight' /\ Targeted'
    BY <1>1, <1>2, <1>3 DEF SnapshotCurrent, Busy, Inv, Served, Booting, AllRight, Right, Targeted
  <2>7. Covered'
    BY <1>1, <2>1, <2>3 DEF Covered, Covers, MessagesOf
  <2>8. LiveHasConversation' /\ ShutdownDrains'
    BY <1>1, <1>5, <2>3, <2>4 DEF Inv, LiveHasConversation, ShutdownDrains
  <2> QED
    BY <2>5, <2>6, <2>7, <2>8 DEF Inv
<1> QED
  BY <1>4, <1>5

-----------------------------------------------------------------------------
(* The life of the process.  The documents stay as they are.               *)
LEMMA ProcessStep ==
  ASSUME Inv, UNCHANGED <<clock, convo, msgs, nextMsg, nextConv, migrated>>,
         proc' \in Phases, Served', AllRight', ShutdownDrains',
         proc' # "merge",
         UNCHANGED req \/ req' = [r \in Requests |-> Idle]
  PROVE  Inv'
<1>1. Idle.pc = "idle"
  BY DEF Idle
<1>2. /\ req' \in [Requests -> Sending \cup {Idle}]
      /\ \A r \in Requests : req'[r] = req[r] \/ req'[r] = Idle
  BY DEF Inv, Shape
<1>3. Shape' /\ Ids' /\ Ordered' /\ SnapshotCurrent'
  BY <1>1, <1>2 DEF Inv, Shape, Ids, Ordered, SnapshotCurrent, Busy
<1>4. Targeted' /\ Covered' /\ LiveHasConversation'
  BY DEF Inv, Targeted, Covered, Covers, MessagesOf, LiveHasConversation
<1> QED
  BY <1>3, <1>4 DEF Inv

LEMMA LifeStep ==
  ASSUME Inv,
         \/ Boot \/ MessagesDone \/ Signal \/ Close \/ Crash
         \/ \E s \in Clients : Join(s) \/ Leave(s)
  PROVE  Inv'
<1>1. CASE Boot
  <2>1. Served' /\ AllRight' /\ ShutdownDrains'
    BY <1>1 DEF Boot, store, Inv, Served, Booting, Busy, AllRight, Right,
                  ShutdownDrains
  <2> QED
    BY <1>1, <2>1, ProcessStep DEF Boot, store, Phases
<1>2. CASE MessagesDone
  <2>1. Served' /\ AllRight' /\ ShutdownDrains'
    BY <1>2 DEF MessagesDone, store, Inv, Served, Booting, Busy, AllRight, Right,
                  ShutdownDrains
  <2> QED
    BY <1>2, <2>1, ProcessStep DEF MessagesDone, store, Phases
<1>3. CASE Signal
  <2>1. Served' /\ AllRight' /\ ShutdownDrains'
    BY <1>3 DEF Signal, store, Inv, Served, Booting, Busy, AllRight, Right,
                  ShutdownDrains
  <2> QED
    BY <1>3, <2>1, ProcessStep DEF Signal, store, Phases
<1>4. CASE CloseHttpAndIo
  <2>1. Served' /\ AllRight' /\ ShutdownDrains'
    BY <1>4 DEF CloseHttpAndIo, Drained, store, Inv, Served, Booting, Busy, AllRight, Right,
                  ShutdownDrains
  <2> QED
    BY <1>4, <2>1, ProcessStep DEF CloseHttpAndIo, store, Phases
<1>5. CASE CloseDatabases
  <2>1. Served' /\ AllRight' /\ ShutdownDrains'
    BY <1>5 DEF CloseDatabases, store, Inv, Served, Booting, Busy, AllRight, Right,
                  ShutdownDrains
  <2> QED
    BY <1>5, <2>1, ProcessStep DEF CloseDatabases, store, Phases
<1>6. CASE Crash
  <2>1. Served' /\ AllRight' /\ ShutdownDrains'
    BY <1>6 DEF Crash, store, Inv, Served, Booting, Busy, AllRight, Right,
                  ShutdownDrains
  <2> QED
    BY <1>6, <2>1, ProcessStep DEF Crash, store, Phases
<1>7. CASE \E s \in Clients : Join(s) \/ Leave(s)
  <2>1. PICK s \in Clients : Join(s) \/ Leave(s)
    BY <1>7
  <2>2. UNCHANGED <<proc, clock, convo, msgs, nextMsg, nextConv, req, migrated>>
    BY <2>1 DEF Join, Leave, store
  <2>3. Served' /\ ShutdownDrains'
    BY <2>1, <2>2 DEF Join, Leave, Inv, Served, Booting, Busy, ShutdownDrains
  <2>4. AllRight'
    BY <2>2 DEF Inv, AllRight, Right
  <2>5. Shape' /\ Ids' /\ Ordered' /\ SnapshotCurrent' /\ Covered' /\ LiveHasConversation'
    BY <2>2 DEF Inv, Shape, Ids, Ordered, SnapshotCurrent, Busy, Covered, Covers, MessagesOf,
                LiveHasConversation
  <2>6. Targeted'
    BY <2>1 DEF Join, Leave, store, Inv, Targeted, Covers, MessagesOf
  <2> QED
    BY <2>3, <2>4, <2>5, <2>6 DEF Inv
<1> QED
  BY <1>1, <1>2, <1>3, <1>4, <1>5, <1>6, <1>7 DEF Close

-----------------------------------------------------------------------------
(* Every action keeps the invariant.                                       *)
LEMMA InvStep ==
  ASSUME Inv, [Next]_vars
  PROVE  Inv'
<1>1. CASE Boot \/ MessagesDone \/ Signal \/ Close \/ Crash \/ \E s \in Clients : Join(s) \/ Leave(s)
  BY <1>1, LifeStep
<1>2. CASE LookupNewest
  BY <1>2, LookupStep
<1>3. CASE Merge
  BY <1>3, MergeStep
<1>4. CASE \E m \in msgs : MigrateMessage(m) \/ SweepMessage(m)
  BY <1>4, MigrateMessageStep, SweepMessageStep
<1>5. CASE \E r \in Requests : FindOrCreate(r) \/ SendBegin(r) \/ Serve(r)
  BY <1>5, FindOrCreateStep, SendBeginStep, StampStep, AppendStep, CommitStep, RetryStep DEF Serve
<1>6. CASE Tick
  BY <1>6, TickStep
<1>7. CASE SweepConvo
  BY <1>7, SweepConvoStep
<1>8. CASE UNCHANGED vars
  BY <1>8 DEF vars, store, Inv, Shape, Ids, Ordered, SnapshotCurrent, Served, Booting, Busy,
              AllRight, Right, Targeted, Covered, Covers, MessagesOf, LiveHasConversation,
              ShutdownDrains
<1> QED
  BY <1>1, <1>2, <1>3, <1>4, <1>5, <1>6, <1>7, <1>8 DEF Next

(***************************************************************************)
(* Types, with the bounds.                                                 *)
(***************************************************************************)
Typed == TypeOK /\ (convo # None => convo.created <= clock)

LEMMA ClockTimes ==
  ASSUME NEW t \in Nat, t <= clock, clock \in 0..MaxTime
  PROVE  t \in Times /\ t + TTL \in Times /\ t + TTL \in Deadlines
BY TimeAssumption DEF Times, Deadlines

LEMMA TypedInit == Init => Typed
<1> SUFFICES ASSUME Init PROVE Typed
  OBVIOUS
<1>1. PICK c \in [id : {1}, created : 0..Now, expires : Deadlines] :
        /\ convo = c
        /\ \E f \in [1..Legacy -> c.created..Now], d \in [1..Legacy -> Deadlines] :
             /\ \A i, k \in 1..Legacy : i < k => f[i] <= f[k]
             /\ msgs = {[id |-> i, conv |-> 1, created |-> f[i], expires |-> d[i]] : i \in 1..Legacy}
  BY DEF Init
<1>2. PICK f \in [1..Legacy -> c.created..Now], d \in [1..Legacy -> Deadlines] :
        msgs = {[id |-> i, conv |-> 1, created |-> f[i], expires |-> d[i]] : i \in 1..Legacy}
  BY <1>1
<1>3. /\ proc = "down" /\ clock = Now /\ nextMsg = Legacy + 1 /\ nextConv = 2
      /\ target = None /\ req = [r \in Requests |-> Idle] /\ clients = {} /\ migrated = FALSE
  BY DEF Init
<1>4. /\ 0..Now \subseteq Times /\ Now \in Nat
      /\ 1 \in ConvIds /\ 1..Legacy \subseteq MsgIds
  BY TimeAssumption, BoundAssumption DEF Times, Deadlines, ConvIds, MsgIds
<1>5. convo \in Convo /\ c.created \in Nat /\ c.created <= Now
  BY <1>1, <1>4, TimeAssumption DEF Convo
<1>6. ASSUME NEW i \in 1..Legacy
      PROVE  [id |-> i, conv |-> 1, created |-> f[i], expires |-> d[i]] \in Message
  <2>1. f[i] \in 0..Now
    BY <1>5, TimeAssumption
  <2>2. d[i] \in Deadlines
    OBVIOUS
  <2> QED
    BY <1>4, <2>1, <2>2 DEF Message
<1>7. msgs \subseteq Message
  BY <1>2, <1>6
<1>8. proc \in Phases /\ migrated \in BOOLEAN /\ clients \subseteq Clients
      /\ req \in [Requests -> Send \cup {Idle}]
  BY <1>3 DEF Phases
<1>9. clock \in 0..MaxTime /\ nextMsg \in 1..(MaxMsg + 1) /\ nextConv \in 1..(MaxConv + 1)
  BY <1>3, TimeAssumption, BoundAssumption
<1> QED
  BY <1>1, <1>3, <1>5, <1>7, <1>8, <1>9 DEF Typed, TypeOK

LEMMA StaleTyped ==
  ASSUME NEW q \in Send \cup {Idle}
  PROVE  Stale(q) \in Send \cup {Idle}
BY DEF Stale, Send, Idle

LEMMA WroteTyped ==
  ASSUME TypeOK, NEW r \in Requests
  PROVE  Wrote(r) \in [Requests -> Send \cup {Idle}]
<1>1. ASSUME NEW s \in Requests
      PROVE  (IF s = r THEN Idle ELSE Stale(req[s])) \in Send \cup {Idle}
  BY StaleTyped DEF TypeOK
<1> QED
  BY <1>1 DEF Wrote

LEMMA AttemptTyped ==
  ASSUME TypeOK, convo # None, NEW rest \in BOOLEAN
  PROVE  Attempt(rest, convo) \in Send
<1>1. convo.id \in ConvIds /\ convo.expires \in Deadlines
  BY DEF TypeOK, Convo
<1>2. 0 \in Times /\ 0 \in 0..MaxMsg
  BY TimeAssumption, BoundAssumption DEF Times
<1> QED
  BY <1>1, <1>2 DEF Attempt, Send

(* A request moves on.                                                     *)
LEMMA RequestTyped ==
  ASSUME Inv, Typed, NEW r \in Requests,
         SendBegin(r) \/ SendStamp(r) \/ SendAppend(r) \/ TxnRetry(r) \/ Fail(r)
  PROVE  Typed'
<1>1. ASSUME NEW q \in Send \cup {Idle}, req' = [req EXCEPT ![r] = q],
             nextMsg' \in 1..(MaxMsg + 1),
             UNCHANGED <<proc, clock, convo, msgs, nextConv, target, clients, migrated>>
      PROVE  Typed'
  BY <1>1 DEF Typed, TypeOK
<1>2. nextMsg \in 1..(MaxMsg + 1)
  BY DEF Typed, TypeOK
<1>3. CASE SendBegin(r)
  <2>1. PICK rest \in BOOLEAN : req' = [req EXCEPT ![r] = Attempt(rest, convo)]
    BY <1>3 DEF SendBegin
  <2>2. Attempt(rest, convo) \in Send
    BY <1>3, AttemptTyped DEF SendBegin, Typed
  <2> QED
    BY <1>1, <1>2, <1>3, <2>1, <2>2 DEF SendBegin, store
<1>4. CASE SendStamp(r)
  <2> DEFINE q == [req[r] EXCEPT !.pc = "append", !.created = clock]
  <2>1. req[r] \in Send
    BY <1>4 DEF SendStamp, Typed, TypeOK, Idle
  <2>2. clock \in Times
    BY TimeAssumption DEF Typed, TypeOK, Times
  <2>3. q \in Send
    BY <2>1, <2>2 DEF Send
  <2>4. req' = [req EXCEPT ![r] = q]
    BY <1>4 DEF SendStamp, Typed, TypeOK
  <2> HIDE DEF q
  <2> QED
    BY <1>1, <1>2, <1>4, <2>3, <2>4 DEF SendStamp, store
<1>5. CASE SendAppend(r)
  <2> DEFINE q == [req[r] EXCEPT !.pc = "commit", !.mid = nextMsg]
  <2>1. req[r] \in Send
    BY <1>5 DEF SendAppend, Typed, TypeOK, Idle
  <2>2. nextMsg \in 0..MaxMsg /\ nextMsg' \in 1..(MaxMsg + 1)
    BY <1>2, <1>5, BoundAssumption DEF SendAppend
  <2>3. q \in Send
    BY <2>1, <2>2 DEF Send
  <2>4. req' = [req EXCEPT ![r] = q]
    BY <1>5 DEF SendAppend, Typed, TypeOK
  <2> HIDE DEF q
  <2> QED
    BY <1>1, <1>5, <2>2, <2>3, <2>4 DEF SendAppend
<1>6. CASE TxnRetry(r) \/ Fail(r)
  <2>1. UNCHANGED <<proc, clock, convo, msgs, nextMsg, nextConv, target, clients, migrated>>
    BY <1>6 DEF TxnRetry, Fail, store
  <2>2. req[r] \in Send
    BY <1>6 DEF TxnRetry, Fail, Busy, Typed, TypeOK
  <2>3. CASE req' = [req EXCEPT ![r] = Idle]
    BY <1>1, <1>2, <2>1, <2>3
  <2>4. CASE convo # None /\ req' = [req EXCEPT ![r] = Attempt(req[r].rest, convo)]
    <3>1. req[r].rest \in BOOLEAN
      BY <2>2 DEF Send
    <3>2. Attempt(req[r].rest, convo) \in Send
      BY <2>4, <3>1, AttemptTyped DEF Typed
    <3> QED
      BY <1>1, <1>2, <2>1, <2>4, <3>2
  <2> QED
    BY <1>6, <2>3, <2>4 DEF TxnRetry, Fail
<1> QED
  BY <1>3, <1>4, <1>5, <1>6

(* A request writes.                                                       *)
LEMMA WriteTyped ==
  ASSUME Inv, Typed, NEW r \in Requests, FindOrCreate(r) \/ SendCommit(r)
  PROVE  Typed'
<1>1. req' \in [Requests -> Send \cup {Idle}]
  BY WroteTyped DEF FindOrCreate, SendCommit, Typed
<1>2. CASE FindOrCreate(r)
  <2>1. UNCHANGED <<proc, clock, msgs, nextMsg, target, clients, migrated>>
    BY <1>2 DEF FindOrCreate
  <2>2. CASE UNCHANGED <<convo, nextConv>>
    BY <1>1, <2>1, <2>2 DEF Typed, TypeOK
  <2>3. CASE /\ nextConv <= MaxConv
             /\ convo' = [id |-> nextConv, created |-> clock, expires |-> clock + TTL]
             /\ nextConv' = nextConv + 1
    <3>1. clock \in Nat /\ clock <= clock /\ clock \in 0..MaxTime
      BY TimeAssumption DEF Typed, TypeOK
    <3>2. clock \in Times /\ clock + TTL \in Deadlines
      BY <3>1, ClockTimes
    <3>3. nextConv \in ConvIds /\ nextConv' \in 1..(MaxConv + 1)
      BY <2>3, BoundAssumption DEF Typed, TypeOK, ConvIds
    <3>4. convo' \in Convo /\ convo'.created <= clock
      BY <2>3, <3>1, <3>2, <3>3 DEF Convo
    <3> QED
      BY <1>1, <2>1, <3>3, <3>4 DEF Typed, TypeOK
  <2> QED
    BY <1>2, <2>2, <2>3 DEF FindOrCreate
<1>3. CASE SendCommit(r)
  <2> DEFINE q == req[r]
             n == [id |-> q.mid, conv |-> q.conv, created |-> q.created, expires |-> q.created + TTL]
  <2>1. /\ q.pc = "commit" /\ ~q.stale /\ msgs' = msgs \cup {n}
        /\ convo' = [convo EXCEPT !.expires = Later(q.deadline, q.created + TTL)]
        /\ UNCHANGED <<proc, clock, nextMsg, nextConv, target, clients, migrated>>
    BY <1>3 DEF SendCommit, MayCommit
  <2>2. q \in Send
    BY <2>1 DEF Typed, TypeOK, Idle
  <2>3. q.mid \in 0..MaxMsg /\ q.conv \in ConvIds /\ q.deadline \in Deadlines /\ q.created \in Times
    BY <2>2 DEF Send
  <2>4. q.mid \in MsgIds
    BY <2>1, <2>3, TimeAssumption, BoundAssumption DEF Inv, Ids, MsgIds
  <2>5. q.created \in Nat /\ q.created <= clock /\ clock \in 0..MaxTime
    BY <2>1, <2>3, TimeAssumption DEF Inv, Ids, Typed, TypeOK, Times
  <2>6. q.created + TTL \in Deadlines
    BY <2>5, ClockTimes
  <2>7. n \in Message
    BY <2>3, <2>4, <2>6 DEF Message
  <2>8. convo # None
    BY <2>1, <2>2 DEF Inv, SnapshotCurrent, Busy, Send, Idle
  <2>9. Later(q.deadline, q.created + TTL) \in Deadlines
    BY <2>3, <2>6 DEF Later
  <2> HIDE DEF n, q
  <2>10. convo' \in Convo /\ convo'.created = convo.created
    BY <2>1, <2>8, <2>9 DEF Typed, TypeOK, Convo
  <2> QED
    BY <1>1, <2>1, <2>7, <2>8, <2>10 DEF Typed, TypeOK
<1> QED
  BY <1>2, <1>3

(* The migration, time and the TTL monitor.                                *)
LEMMA DeadlineTyped ==
  ASSUME Inv, Typed,
         \/ LookupNewest \/ Merge \/ Tick \/ SweepConvo
         \/ \E m \in msgs : MigrateMessage(m) \/ SweepMessage(m)
  PROVE  Typed'
<1>1. CASE LookupNewest
  <2>1. /\ proc' = "merge"
        /\ target' = IF convo = None THEN None ELSE [id |-> convo.id, expires |-> RetentionTarget(convo)]
        /\ UNCHANGED <<clock, convo, msgs, nextMsg, nextConv, req, clients, migrated>>
    BY <1>1 DEF LookupNewest, store
  <2>2. ASSUME convo # None PROVE convo.id \in ConvIds /\ RetentionTarget(convo) \in Deadlines
    <3>1. convo \in Convo /\ convo.created \in Nat /\ convo.created <= clock /\ clock \in 0..MaxTime
      BY <2>2, TimeAssumption DEF Typed, TypeOK, Convo, Times
    <3>2. CASE MessagesOf(convo.id) = {}
      BY <3>1, <3>2, ClockTimes DEF RetentionTarget, Convo
    <3>3. CASE MessagesOf(convo.id) # {}
      <4>1. Newest(convo.id) \in msgs
        BY <3>3, NewestIs DEF MessagesOf
      <4>2. Newest(convo.id).expires \in Deadlines
        BY <4>1 DEF Typed, TypeOK, Message
      <4> QED
        BY <3>1, <3>3, <4>2 DEF RetentionTarget, Convo
    <3> QED
      BY <3>2, <3>3
  <2>3. target' \in [id : ConvIds, expires : Deadlines] \cup {None}
    BY <2>1, <2>2
  <2> QED
    BY <2>1, <2>3 DEF Typed, TypeOK, Phases
<1>2. CASE Merge
  <2>1. /\ proc' = "serving" /\ target' = None /\ migrated' = TRUE
        /\ UNCHANGED <<clock, msgs, nextMsg, nextConv, req, clients>>
    BY <1>2 DEF Merge
  <2>2. convo' \in Convo \cup {None} /\ (convo' # None => convo'.created <= clock)
    <3>1. CASE UNCHANGED convo
      BY <3>1 DEF Typed, TypeOK
    <3>2. CASE target # None /\ convo # None /\ convo' = [convo EXCEPT !.expires = target.expires]
      <4>1. convo \in Convo /\ target.expires \in Deadlines
        BY <3>2 DEF Typed, TypeOK
      <4>2. convo' \in Convo /\ convo'.created = convo.created
        BY <3>2, <4>1 DEF Convo
      <4> QED
        BY <3>2, <4>2 DEF Typed
    <3> QED
      BY <1>2, <3>1, <3>2 DEF Merge
  <2> QED
    BY <2>1, <2>2 DEF Typed, TypeOK, Phases
<1>3. CASE Tick
  <2>1. /\ clock < MaxTime /\ clock' = clock + 1
        /\ UNCHANGED <<proc, convo, msgs, nextMsg, nextConv, target, req, clients, migrated>>
    BY <1>3 DEF Tick, store
  <2>2. clock' \in 0..MaxTime /\ clock \in Nat
    BY <2>1, TimeAssumption DEF Typed, TypeOK
  <2>3. ASSUME convo # None PROVE convo.created <= clock'
    <3>1. convo.created \in Nat /\ convo.created <= clock
      BY <2>3, TimeAssumption DEF Typed, TypeOK, Convo, Times
    <3> QED
      BY <2>1, <2>2, <3>1
  <2> QED
    BY <2>1, <2>2, <2>3 DEF Typed, TypeOK
<1>4. CASE SweepConvo
  <2>1. req' = [r \in Requests |-> Stale(req[r])] /\ convo' = None
        /\ UNCHANGED <<proc, clock, msgs, nextMsg, nextConv, target, clients, migrated>>
    BY <1>4 DEF SweepConvo
  <2>2. \A r \in Requests : Stale(req[r]) \in Send \cup {Idle}
    BY StaleTyped DEF Typed, TypeOK
  <2>3. req' \in [Requests -> Send \cup {Idle}]
    BY <2>1, <2>2
  <2> QED
    BY <2>1, <2>3 DEF Typed, TypeOK
<1>5. ASSUME NEW m \in msgs, MigrateMessage(m) PROVE Typed'
  <2> DEFINE n == [m EXCEPT !.expires = m.created + TTL]
  <2>1. /\ msgs' = (msgs \ {m}) \cup {n}
        /\ UNCHANGED <<proc, clock, convo, nextMsg, nextConv, target, req, clients, migrated>>
    BY <1>5 DEF MigrateMessage
  <2>2. m \in Message /\ m.created \in Nat /\ m.created <= clock /\ clock \in 0..MaxTime
    BY TimeAssumption DEF Typed, TypeOK, Message, Times, Inv, Ids
  <2>3. n \in Message
    BY <2>2, ClockTimes DEF Message
  <2> HIDE DEF n
  <2> QED
    BY <2>1, <2>3 DEF Typed, TypeOK
<1>6. ASSUME NEW m \in msgs, SweepMessage(m) PROVE Typed'
  BY <1>6 DEF SweepMessage, Typed, TypeOK
<1> QED
  BY <1>1, <1>2, <1>3, <1>4, <1>5, <1>6

(* The life of the process.                                                *)
LEMMA LifeTyped ==
  ASSUME Inv, Typed,
         \/ Boot \/ MessagesDone \/ Signal \/ Close \/ Crash
         \/ \E s \in Clients : Join(s) \/ Leave(s)
  PROVE  Typed'
<1>1. /\ UNCHANGED <<clock, convo, msgs, nextMsg, nextConv, migrated>>
      /\ proc' \in Phases
      /\ target' = target \/ target' = None
      /\ req' = req \/ req' = [r \in Requests |-> Idle]
      /\ clients' \subseteq Clients
  BY DEF Typed, TypeOK, Boot, MessagesDone, Signal, Close, CloseHttpAndIo, CloseDatabases, Crash,
         Join, Leave, store, Phases
<1> QED
  BY <1>1 DEF Typed, TypeOK

LEMMA Invariance == Spec => []Inv
<1>1. Init => Inv
  BY InvInit
<1>2. Inv /\ [Next]_vars => Inv'
  BY InvStep
<1> QED
  BY <1>1, <1>2, PTL DEF Spec

(* Types and bounds hold throughout, of the documents and of the requests: *)
(* no deadline that a send, a creation or the migration computes exceeds   *)
(* MaxTime + TTL.                                                          *)
THEOREM TypeCorrect == Spec => []TypeOK
<1>1. Inv /\ Typed /\ [Next]_vars => Typed'
  <2> SUFFICES ASSUME Inv, Typed, [Next]_vars PROVE Typed'
    OBVIOUS
  <2>1. CASE UNCHANGED vars
    BY <2>1 DEF vars, store, Typed, TypeOK
  <2> QED
    BY <2>1, RequestTyped, WriteTyped, DeadlineTyped, LifeTyped DEF Next, Serve
<1>2. Typed => TypeOK
  BY DEF Typed
<1> QED
  BY <1>1, <1>2, TypedInit, Invariance, PTL DEF Spec

(* Once the migration has ended, no message outlives its conversation and  *)
(* every message has the deadline of the policy: through crashes at any    *)
(* point of a later migration, sends that race it to the commit, and the   *)
(* TTL monitor (chat.migrations.js, applyNewMessage).                      *)
THEOREM DeadlinesCover == Spec => []DeadlineCovers
<1>1. Inv => DeadlineCovers
  BY DEF Inv, DeadlineCovers, AllRight, Covered, Covers, MessagesOf
<1> QED
  BY <1>1, Invariance, PTL

(* Messages of a conversation expire in the order of their ids, although   *)
(* createdAt is taken before the database hands out the id (send).         *)
THEOREM ExpiryFollowsIds == Spec => []NewerExpiresLater
<1>1. Inv => NewerExpiresLater
  BY DEF Inv, NewerExpiresLater, Ordered
<1> QED
  BY <1>1, Invariance, PTL

(* The TTL monitor never takes a conversation away from under a message    *)
(* that was sent and has not expired, and no send lands in a conversation  *)
(* that was swept.                                                         *)
THEOREM LiveMessagesKeepTheirThread == Spec => []LiveHasConversation
<1>1. Inv => LiveHasConversation
  BY DEF Inv
<1> QED
  BY <1>1, Invariance, PTL

(* When the databases are closed no REST request is under way, although    *)
(* kept-alive connections bring requests in until httpServer.close ends    *)
(* (shutdown in server.js).                                                *)
THEOREM ShutdownsDrain == Spec => []ShutdownDrains
<1>1. Inv => ShutdownDrains
  BY DEF Inv
<1> QED
  BY <1>1, Invariance, PTL
=============================================================================
