------------------------------ MODULE Retention ------------------------------
(***************************************************************************)
(* Retention and the life of the process: the expiry deadlines of a        *)
(* conversation and its messages, the TTL monitor of the database that     *)
(* sweeps each document by its own deadline, the migration every boot runs *)
(* over the deadlines of older versions, and the shutdown.                 *)
(*                                                                         *)
(* Only what moves a deadline is kept of the requests: findOrCreate and    *)
(* the transaction of send, which fixes createdAt between its snapshot and *)
(* its append.  The process may crash anywhere, in the migration too; the  *)
(* database and its TTL monitor go on without it.                          *)
(***************************************************************************)
EXTENDS Integers, FiniteSets

CONSTANTS
  Requests,      \* slots for requests, over REST or a websocket
  Clients,       \* websocket connections
  TTL,           \* CHAT_TTL_MS, in ticks
  Legacy,        \* the first Legacy message ids are from before the migration
  Now,           \* the time of the first boot
  MaxTime,       \* bound on the clock
  MaxMsg,        \* bound: message ids
  MaxConv,       \* bound: conversation ids
  None

ASSUME TimeAssumption == {TTL, Now, MaxTime, Legacy} \subseteq Nat
ASSUME BoundAssumption == /\ MaxMsg \in Nat /\ MaxConv \in Nat \ {0}
                          /\ Now <= MaxTime /\ Legacy <= MaxMsg
ASSUME NoneAssumption == /\ None \notin [id : Nat, created : Nat, expires : Nat]
                         /\ None \notin [id : Nat, expires : Nat]

VARIABLES
  proc,          \* where the process stands
  clock,
  convo,         \* the conversation of a pair and item, or None
  msgs,          \* the messages
  nextMsg,
  nextConv,
  target,        \* the deadline the migration is about to merge, or None
  req,           \* the requests
  clients,       \* the websockets that are connected
  migrated       \* history: a migration has been completed

store == <<convo, msgs, nextMsg, nextConv>>
vars  == <<proc, clock, store, target, req, clients, migrated>>

Phases == {"down", "messages", "lookup", "merge", "serving", "closing", "ioClosed"}

Times     == 0..(MaxTime + TTL)
Deadlines == Times \cup {None}
ConvIds   == 1..MaxConv
MsgIds    == 1..MaxMsg

Convo   == [id : ConvIds, created : Times, expires : Deadlines]
Message == [id : MsgIds, conv : ConvIds, created : Times, expires : Deadlines]

(* A send: how it came, the deadline of the snapshot, createdAt, the       *)
(* message's id, and whether the conversation was written since.           *)
Send == [pc : {"stamp", "append", "commit"}, rest : BOOLEAN, conv : ConvIds, deadline : Deadlines,
         created : Times, mid : 0..MaxMsg, stale : BOOLEAN]
Idle == [pc |-> "idle"]

Busy(r) == req[r] # Idle
Stale(q) == IF q = Idle THEN Idle ELSE [q EXCEPT !.stale = TRUE]

(* r wrote the conversation; every other transaction missed the write.     *)
Wrote(r) == [q \in Requests |-> IF q = r THEN Idle ELSE Stale(req[q])]

(* Older versions gave deadlines of another policy, past or to come, or    *)
(* none; ids and creation times of one conversation go together.           *)
Init ==
  /\ proc = "down"
  /\ clock = Now
  /\ \E c \in [id : {1}, created : 0..Now, expires : Deadlines] :
       /\ convo = c
       /\ \E f \in [1..Legacy -> c.created..Now], d \in [1..Legacy -> Deadlines] :
            /\ \A i, k \in 1..Legacy : i < k => f[i] <= f[k]
            /\ msgs = {[id |-> i, conv |-> 1, created |-> f[i], expires |-> d[i]] : i \in 1..Legacy}
  /\ nextMsg = Legacy + 1
  /\ nextConv = 2
  /\ target = None
  /\ req = [r \in Requests |-> Idle]
  /\ clients = {}
  /\ migrated = FALSE

-----------------------------------------------------------------------------
(* Boot: the migration ends before anything is served.  updateMany changes *)
(* one message at a time.                                                  *)
Boot ==
  /\ proc = "down"
  /\ proc' = "messages"
  /\ UNCHANGED <<clock, store, target, req, clients, migrated>>

Right(m) == m.expires = m.created + TTL

MigrateMessage(m) ==
  /\ proc = "messages"
  /\ m \in msgs
  /\ ~Right(m)
  /\ msgs' = (msgs \ {m}) \cup {[m EXCEPT !.expires = m.created + TTL]}
  /\ UNCHANGED <<proc, clock, convo, nextMsg, nextConv, target, req, clients, migrated>>

MessagesDone ==
  /\ proc = "messages"
  /\ \A m \in msgs : Right(m)
  /\ proc' = "lookup"
  /\ UNCHANGED <<clock, store, target, req, clients, migrated>>

(* The newest message by id gives the conversation's deadline, creation    *)
(* the one of an empty conversation.  Defect: sorted the other way round.  *)
MessagesOf(id) == {m \in msgs : m.conv = id}
NewestFirst(id) == CHOOSE m \in MessagesOf(id) : \A n \in MessagesOf(id) : n.id >= m.id
Newest(id) == CHOOSE m \in MessagesOf(id) : \A n \in MessagesOf(id) : n.id <= m.id

RetentionTarget(c) ==
  IF MessagesOf(c.id) = {} THEN c.created + TTL ELSE Newest(c.id).expires

LookupNewest ==
  /\ proc = "lookup"
  /\ proc' = "merge"
  /\ target' = IF convo = None THEN None ELSE [id |-> convo.id, expires |-> RetentionTarget(convo)]
  /\ UNCHANGED <<clock, store, req, clients, migrated>>

(* whenNotMatched: a conversation that was swept meanwhile is discarded.   *)
Merge ==
  /\ proc = "merge"
  /\ proc' = "serving"
  /\ target' = None
  /\ convo' = IF target # None /\ convo # None THEN [convo EXCEPT !.expires = target.expires]
              ELSE convo
  /\ migrated' = TRUE
  /\ UNCHANGED <<clock, msgs, nextMsg, nextConv, req, clients>>

-----------------------------------------------------------------------------
(* REST: a connection kept alive brings requests while the server closes.  *)
Listens == proc \in {"serving", "closing"}

(* findOrCreate: an existing conversation keeps its deadline; its other    *)
(* timestamps move, which disturbs open transactions.                      *)
FindOrCreate(r) ==
  /\ Listens
  /\ ~Busy(r)
  /\ \/ /\ convo # None
        /\ UNCHANGED <<convo, nextConv>>
     \/ /\ convo = None
        /\ nextConv <= MaxConv
        /\ convo' = [id |-> nextConv, created |-> clock, expires |-> clock + TTL]
        /\ nextConv' = nextConv + 1
  /\ req' = Wrote(r)
  /\ UNCHANGED <<proc, clock, msgs, nextMsg, target, clients, migrated>>

(* send: snapshot, createdAt, append, commit.                              *)
Attempt(rest, c) == [pc |-> "stamp", rest |-> rest, conv |-> c.id, deadline |-> c.expires,
                     created |-> 0, mid |-> 0, stale |-> FALSE]

SendBegin(r) ==
  /\ ~Busy(r)
  /\ convo # None
  /\ \E rest \in BOOLEAN :
       /\ IF rest THEN Listens ELSE clients # {}
       /\ req' = [req EXCEPT ![r] = Attempt(rest, convo)]
  /\ UNCHANGED <<proc, clock, store, target, clients, migrated>>

SendStamp(r) ==
  /\ req[r].pc = "stamp"
  /\ req' = [req EXCEPT ![r].pc = "append", ![r].created = clock]
  /\ UNCHANGED <<proc, clock, store, target, clients, migrated>>

SendAppend(r) ==
  /\ req[r].pc = "append"
  /\ nextMsg <= MaxMsg
  /\ req' = [req EXCEPT ![r].pc = "commit", ![r].mid = nextMsg]
  /\ nextMsg' = nextMsg + 1
  /\ UNCHANGED <<proc, clock, convo, msgs, nextConv, target, clients, migrated>>

(* applyNewMessage: $max expiresAt.  Defects: the deadline stays; $inc.   *)
LaterKept(old, new) == old
LaterSum(old, new) == old + new
Later(old, new) == IF old >= new THEN old ELSE new

(* No write conflict.  Defect: the update is done without the session.     *)
MayCommitAlways(q) == convo # None
MayCommit(q) == ~q.stale

SendCommit(r) ==
  LET q == req[r] IN
  /\ q.pc = "commit"
  /\ MayCommit(q)
  /\ msgs' = msgs \cup {[id |-> q.mid, conv |-> q.conv, created |-> q.created,
                         expires |-> q.created + TTL]}
  /\ convo' = [convo EXCEPT !.expires = Later(q.deadline, q.created + TTL)]
  /\ req' = Wrote(r)
  /\ UNCHANGED <<proc, clock, nextMsg, nextConv, target, clients, migrated>>

(* The callback runs again from its snapshot, with a new createdAt.        *)
TxnRetry(r) ==
  /\ Busy(r)
  /\ req[r].stale
  /\ req' = [req EXCEPT ![r] = IF convo # None /\ convo.id = @.conv THEN Attempt(@.rest, convo)
                               ELSE Idle]
  /\ UNCHANGED <<proc, clock, store, target, clients, migrated>>

(* A database error answers the request.                                   *)
Fail(r) ==
  /\ Busy(r)
  /\ req' = [req EXCEPT ![r] = Idle]
  /\ UNCHANGED <<proc, clock, store, target, clients, migrated>>

-----------------------------------------------------------------------------
(* The database: time, and the TTL monitor some time after each deadline.  *)
Tick ==
  /\ clock < MaxTime
  /\ clock' = clock + 1
  /\ UNCHANGED <<proc, store, target, req, clients, migrated>>

Due(doc) == doc.expires # None /\ doc.expires <= clock

SweepMessage(m) ==
  /\ m \in msgs
  /\ Due(m)
  /\ msgs' = msgs \ {m}
  /\ UNCHANGED <<proc, clock, convo, nextMsg, nextConv, target, req, clients, migrated>>

SweepConvo ==
  /\ convo # None
  /\ Due(convo)
  /\ convo' = None
  /\ req' = [r \in Requests |-> Stale(req[r])]
  /\ UNCHANGED <<proc, clock, msgs, nextMsg, nextConv, target, clients, migrated>>

-----------------------------------------------------------------------------
(* Websockets, and the end of the process.  httpServer.close stops the     *)
(* listening and waits for every connection: websockets, which may send on *)
(* meanwhile, and running REST requests, but not for a handler whose       *)
(* websocket has gone.  A second signal is ignored.                        *)
Join(s) ==
  /\ proc = "serving"
  /\ clients' = clients \cup {s}
  /\ UNCHANGED <<proc, clock, store, target, req, migrated>>

Leave(s) ==
  /\ s \in clients
  /\ clients' = clients \ {s}
  /\ UNCHANGED <<proc, clock, store, target, req, migrated>>

Signal ==
  /\ proc = "serving"
  /\ proc' = "closing"
  /\ UNCHANGED <<clock, store, target, req, clients, migrated>>

(* Defect: the promise of httpServer.close is not awaited.                 *)
DrainedAtOnce == TRUE
Drained == clients = {} /\ \A r \in Requests : Busy(r) => ~req[r].rest

(* io.close disconnects whoever is left.                                   *)
CloseHttpAndIo ==
  /\ proc = "closing"
  /\ Drained
  /\ proc' = "ioClosed"
  /\ clients' = {}
  /\ UNCHANGED <<clock, store, target, req, migrated>>

CloseDatabases ==
  /\ proc = "ioClosed"
  /\ proc' = "down"
  /\ req' = [r \in Requests |-> Idle]
  /\ UNCHANGED <<clock, store, target, clients, migrated>>

Crash ==
  /\ proc # "down"
  /\ proc' = "down"
  /\ target' = None
  /\ req' = [r \in Requests |-> Idle]
  /\ clients' = {}
  /\ UNCHANGED <<clock, store, migrated>>

Serve(r) == SendStamp(r) \/ SendAppend(r) \/ SendCommit(r) \/ TxnRetry(r) \/ Fail(r)
Close == CloseHttpAndIo \/ CloseDatabases

Next ==
  \/ Boot \/ MessagesDone \/ LookupNewest \/ Merge
  \/ \E m \in msgs : MigrateMessage(m) \/ SweepMessage(m)
  \/ \E r \in Requests : FindOrCreate(r) \/ SendBegin(r) \/ Serve(r)
  \/ Tick \/ SweepConvo
  \/ \E s \in Clients : Join(s) \/ Leave(s)
  \/ Signal \/ Close \/ Crash

Spec == Init /\ [][Next]_vars

(* A running request goes on, if only to fail, and so does the shutdown.   *)
FairSpec == Spec /\ WF_vars(Close) /\ \A r \in Requests : WF_vars(Serve(r))

-----------------------------------------------------------------------------
(* Properties.                                                             *)

(* The shape of the documents, the requests and the process.               *)
TypeOK ==
  /\ proc \in Phases
  /\ clock \in 0..MaxTime
  /\ convo \in Convo \cup {None}
  /\ msgs \subseteq Message
  /\ nextMsg \in 1..(MaxMsg + 1)
  /\ nextConv \in 1..(MaxConv + 1)
  /\ target \in [id : ConvIds, expires : Deadlines] \cup {None}
  /\ req \in [Requests -> Send \cup {Idle}]
  /\ clients \subseteq Clients
  /\ migrated \in BOOLEAN

(* Once migrated, a conversation is kept at least as long as any of its    *)
(* messages, through every later send, crash and repeated migration.       *)
DeadlineCovers ==
  migrated /\ convo # None =>
    \A m \in MessagesOf(convo.id) : Right(m) /\ m.expires <= convo.expires

(* Of two messages of a conversation the newer one expires no earlier,     *)
(* although createdAt is taken before the database hands out the id.  The  *)
(* migration rests on it: it asks only the newest message.                 *)
NewerExpiresLater ==
  \A m, n \in msgs : m.conv = n.conv /\ m.id < n.id => m.created <= n.created

(* A message that was sent and has not expired has its conversation: the   *)
(* TTL monitor never takes a thread away under a live message, and no send *)
(* lands in a thread that was just swept.                                  *)
LiveHasConversation ==
  \A m \in msgs : m.id > Legacy /\ m.expires > clock =>
    convo # None /\ convo.id = m.conv

(* An orderly shutdown cuts off no REST request: whatever came over a      *)
(* connection kept alive while the server closed has been answered when    *)
(* the databases are closed.  The handler of a websocket that has gone is  *)
(* not waited for.                                                         *)
ShutdownDrains ==
  proc = "ioClosed" => \A r \in Requests : Busy(r) => ~req[r].rest

(* Once asked to stop, the process exits: it stops accepting, drains and   *)
(* closes Socket.io, which disconnects the clients (server.js).            *)
ShutdownEnds == proc = "closing" ~> proc = "down"
=============================================================================
