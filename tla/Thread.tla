------------------------------- MODULE Thread -------------------------------
(***************************************************************************)
(* One conversation thread of the chat server: the conversation document,  *)
(* its message partition and the requests that work on them concurrently.  *)
(*                                                                         *)
(* send and hide ("delete for me") run inside a MongoDB transaction: they  *)
(* read a snapshot, keep their writes to themselves and commit only if no  *)
(* other write reached the conversation document since the snapshot.       *)
(* findOrCreate, markRead, setMute and unsend are not transactional: each  *)
(* await is a step of its own and other requests run in between.           *)
(*                                                                         *)
(* Message ids stand for ObjectIds: the database hands them out in         *)
(* increasing order, 0 is null.  A request of a user who is no participant *)
(* is refused by isMember before it touches anything, so callers range     *)
(* over the participants.                                                  *)
(***************************************************************************)
EXTENDS Naturals, FiniteSets

CONSTANTS
  Participants,   \* participantIds of the conversation
  Requests,       \* slots for concurrently running requests
  Cids,           \* clientMessageId values
  Kinds,          \* the kinds of request that arrive
  MaxMsg,         \* bound: message ids the database hands out
  MaxConv,        \* bound: conversation ids (findOrCreate after a hard delete)
  None            \* no document, no value

ASSUME BoundsAssumption == MaxMsg \in Nat /\ MaxConv \in Nat

AllKinds == {"create", "send", "hide", "unsend", "read", "mute", "block", "fail"}

ConvIds == 1..MaxConv
MsgIds  == 1..MaxMsg
MsgRefs == 0..MaxMsg

(* lastMessage: the inbox preview.  "unsent" is deletedAt # null, which goes  *)
(* with an emptied body.                                                      *)
Preview == [messageId : MsgRefs, unsent : BOOLEAN]
NoPreview == [messageId |-> 0, unsent |-> FALSE]

Convo == [id           : ConvIds,
          lastMessage  : Preview,
          deletedFor   : SUBSET Participants,
          clearedAt    : [Participants -> MsgRefs],
          unreadCounts : [Participants -> Nat],
          mutedBy      : SUBSET Participants]

Message == [id     : MsgIds,
            conv   : ConvIds,
            cid    : Cids,
            from   : Participants,
            unsent : BOOLEAN]

(* Per user, the messages cleared with "delete for me" and the newest id when *)
(* the badge was last reset; per message, who had muted when it was committed;*)
(* and the requests whose current attempt met a moment without a block.       *)
History == [sawOpen   : SUBSET Requests,
            discarded : [Participants -> SUBSET MsgIds],
            resetAt   : [Participants -> MsgRefs],
            silenced  : [MsgIds -> SUBSET Participants]]

ASSUME NoneAssumption == None \notin Convo

VARIABLES
  convo,       \* the conversation document, or None
  msgs,        \* the messages collection
  blockedBy,   \* the participants who block the other one
  nextMsg,     \* the next message id of the database
  nextConv,    \* the next conversation id of the database
  req,         \* what each request has read and where it stands
  announced,   \* how often message:new was emitted for each message
  retracted,   \* the messages message:deleted was emitted for
  pushed,      \* the users a push was sent to for each message
  hist         \* history, read by the properties only

db   == <<convo, msgs, blockedBy, nextMsg, nextConv>>
out  == <<announced, retracted, pushed>>
vars == <<convo, msgs, blockedBy, nextMsg, nextConv, req,
          announced, retracted, pushed, hist>>

-----------------------------------------------------------------------------
(* Requests.                                                               *)

TxnPcs == {"sendCheck", "sendAppend", "sendCommit", "hideCommit"}

Pcs == TxnPcs \cup {"create", "announce", "unsendLoad", "unsendMark",
        "unsendLatest", "unsendRewrite", "unsendEmit", "read", "mute"}

(* mid is the message a send appends or an unsend targets;                 *)
(* dup the message that already has the send's clientMessageId; stale says *)
(* that the conversation was written since the transaction's snapshot.     *)
Call == [pc : Pcs, user : Participants, conv : 0..MaxConv, cid : Cids \cup {None},
         mid : MsgRefs, snap : Convo \cup {None}, dup : MsgRefs,
         latest : Preview, on : BOOLEAN, stale : BOOLEAN]

Idle == [pc |-> "idle"]

Busy(r)  == req[r] # Idle
InTxn(r) == req[r].pc \in TxnPcs

NewCall(pc, u, c, i) ==
  [pc |-> pc, user |-> u, conv |-> 0, cid |-> c, mid |-> i,
   snap |-> None, dup |-> 0, latest |-> NoPreview, on |-> FALSE,
   stale |-> FALSE]

Goto(r, call) == req' = [req EXCEPT ![r] = call]

(* r wrote the conversation document: every other open transaction now has *)
(* a snapshot that misses the write.                                       *)
GotoWriting(r, call) ==
  req' = [q \in Requests |->
            IF q = r THEN call
            ELSE IF InTxn(q) THEN [req[q] EXCEPT !.stale = TRUE]
            ELSE req[q]]

HasConvo(id)  == convo # None /\ convo.id = id
Open          == blockedBy = {}

(* isBlockedBetween: a block in either direction bars u.                   *)
(* Defect: only the blocks of the other side count.                        *)
MayMessageOneWay(u) == blockedBy \subseteq {u}
MayMessage(u) == Open

(* No write conflict.  Defect: the update is done without the session.     *)
MayCommitAlways(q) == TRUE
MayCommit(q) == ~q.stale
Others(u)     == Participants \ {u}

(* The message of conversation id that already carries clientMessageId c.  *)
(* Defect: a plain insert instead of the upsert.                           *)
DupUnchecked(id, c) == 0
Dup(id, c) == LET hit == {m \in msgs : m.conv = id /\ m.cid = c}
              IN  IF hit = {} THEN 0 ELSE (CHOOSE m \in hit : TRUE).id

(* What history and syncSince return to u: nothing at or before clearedAt. *)
Visible(u) == IF convo = None THEN {}
              ELSE {m \in msgs : m.conv = convo.id /\ m.id > convo.clearedAt[u]}

-----------------------------------------------------------------------------
Init ==
  /\ convo = None
  /\ msgs = {}
  /\ blockedBy = {}
  /\ nextMsg = 1
  /\ nextConv = 1
  /\ req = [r \in Requests |-> Idle]
  /\ announced = [i \in MsgIds |-> 0]
  /\ retracted = {}
  /\ pushed = [i \in MsgIds |-> {}]
  /\ hist = [sawOpen   |-> Requests,
             discarded |-> [u \in Participants |-> {}],
             resetAt   |-> [u \in Participants |-> 0],
             silenced  |-> [i \in MsgIds |-> {}]]

(***************************************************************************)
(* findOrCreate.  The item and block checks come first; the upsert writes  *)
(* the document also when it exists (its timestamps move), so it disturbs  *)
(* open transactions either way.                                           *)
(***************************************************************************)
CreateBegin(r, u) ==
  /\ "create" \in Kinds
  /\ ~Busy(r)
  /\ MayMessage(u)
  /\ Goto(r, NewCall("create", u, None, 0))
  /\ UNCHANGED <<db, out, hist>>

NewConvo(id) ==
  [id           |-> id,
   lastMessage  |-> NoPreview,
   deletedFor   |-> {},
   clearedAt    |-> [u \in Participants |-> 0],
   unreadCounts |-> [u \in Participants |-> 0],
   mutedBy      |-> {}]

CreateUpsert(r) ==
  /\ req[r].pc = "create"
  /\ GotoWriting(r, Idle)
  /\ \/ /\ convo # None
        /\ UNCHANGED <<convo, nextConv, hist>>
     \/ /\ convo = None
        /\ nextConv <= MaxConv
        /\ convo' = NewConvo(nextConv)
        /\ nextConv' = nextConv + 1
        /\ hist' = [hist EXCEPT !.discarded = [u \in Participants |-> {}]]
  /\ UNCHANGED <<msgs, blockedBy, nextMsg, out>>

(***************************************************************************)
(* send.  SendAttempt is the first operation of the transaction: it fixes  *)
(* the snapshot that the membership check, append and recordMessage see.   *)
(***************************************************************************)
SendAttempt(r, u, id, c) ==
  /\ Goto(r, [NewCall("sendCheck", u, c, 0) EXCEPT
                !.conv = id, !.snap = convo, !.dup = Dup(id, c)])
  /\ hist' = [hist EXCEPT !.sawOpen = IF Open THEN @ \cup {r} ELSE @ \ {r}]

SendBegin(r, u, c) ==
  /\ "send" \in Kinds
  /\ ~Busy(r)
  /\ convo # None
  /\ SendAttempt(r, u, convo.id, c)
  /\ UNCHANGED <<db, out>>

(* isBlockedBetween is not part of the transaction's snapshot.             *)
SendCheckBlock(r) ==
  /\ req[r].pc = "sendCheck"
  /\ Goto(r, IF MayMessage(req[r].user) THEN [req[r] EXCEPT !.pc = "sendAppend"] ELSE Idle)
  /\ UNCHANGED <<db, out, hist>>

(* append: a known clientMessageId returns the stored message and nothing  *)
(* is recorded or emitted; a new one gets the next id of the database.     *)
(* Defect: "created" is ignored.                                           *)
DedupedEmits(q) == [q EXCEPT !.pc = "announce", !.mid = q.dup]
Deduped(q) == Idle

SendAppend(r) ==
  /\ req[r].pc = "sendAppend"
  /\ \/ /\ req[r].dup # 0
        /\ Goto(r, Deduped(req[r]))
        /\ UNCHANGED nextMsg
     \/ /\ req[r].dup = 0
        /\ nextMsg <= MaxMsg
        /\ nextMsg' = nextMsg + 1
        /\ Goto(r, [req[r] EXCEPT !.pc = "sendCommit", !.mid = nextMsg])
  /\ UNCHANGED <<convo, msgs, blockedBy, nextConv, out, hist>>

(* applyNewMessage on the snapshot: $set lastMessage, $inc unread of every *)
(* recipient, $pull every participant from deletedFor.                     *)
(* Defects: the sender's own badge counts too; resurfacing forgets the     *)
(* watermarks.                                                             *)
RecordedForAll(c, i, u) ==
  [c EXCEPT !.lastMessage  = [messageId |-> i, unsent |-> FALSE],
            !.unreadCounts = [p \in Participants |-> @[p] + 1],
            !.deletedFor   = {}]
RecordedAnew(c, i, u) ==
  [c EXCEPT !.lastMessage  = [messageId |-> i, unsent |-> FALSE],
            !.unreadCounts = [p \in Participants |-> IF p = u THEN @[p] ELSE @[p] + 1],
            !.deletedFor   = {},
            !.clearedAt    = [p \in Participants |-> 0]]
Recorded(c, i, u) ==
  [c EXCEPT !.lastMessage  = [messageId |-> i, unsent |-> FALSE],
            !.unreadCounts = [p \in Participants |-> IF p = u THEN @[p] ELSE @[p] + 1],
            !.deletedFor   = {}]

SendCommit(r) ==
  LET q == req[r] IN
  /\ q.pc = "sendCommit"
  /\ MayCommit(q)
  /\ convo' = Recorded(q.snap, q.mid, q.user)
  /\ msgs' = msgs \cup {[id |-> q.mid, conv |-> q.conv, cid |-> q.cid,
                         from |-> q.user, unsent |-> FALSE]}
  /\ GotoWriting(r, [NewCall("announce", q.user, None, q.mid) EXCEPT !.snap = q.snap])
  /\ hist' = [hist EXCEPT !.silenced[q.mid] = convo.mutedBy]
  /\ UNCHANGED <<blockedBy, nextMsg, nextConv, out>>

(* After the commit: one message:new, and a push to every recipient the    *)
(* transaction saw unmuted.                                                *)
Announce(r) ==
  LET q == req[r] IN
  /\ q.pc = "announce"
  /\ announced' = [announced EXCEPT ![q.mid] = @ + 1]
  /\ pushed' = [pushed EXCEPT ![q.mid] = @ \cup (Others(q.user) \ q.snap.mutedBy)]
  /\ Goto(r, Idle)
  /\ UNCHANGED <<db, retracted, hist>>

(***************************************************************************)
(* hideForUser.                                                            *)
(***************************************************************************)
HideAttempt(r, u, id) ==
  Goto(r, [NewCall("hideCommit", u, None, 0) EXCEPT !.conv = id, !.snap = convo])

HideBegin(r, u) ==
  /\ "hide" \in Kinds
  /\ ~Busy(r)
  /\ convo # None
  /\ HideAttempt(r, u, convo.id)
  /\ UNCHANGED <<db, out, hist>>

(* The watermark is the snapshot's preview, whatever it is.                *)
Hidden(c, u) ==
  [c EXCEPT !.deletedFor      = @ \cup {u},
            !.unreadCounts[u] = 0,
            !.clearedAt[u]    = c.lastMessage.messageId]

(* deleteByConversation.  Defect: the messages stay behind.                *)
PurgedNot(ms, id) == ms
Purged(ms, id) == {m \in ms : m.conv # id}

HiddenForAll(c) == c.lastMessage.messageId # 0 /\ c.deletedFor = Participants

HideCommit(r) ==
  LET q == req[r]
      c == Hidden(q.snap, q.user)
  IN
  /\ q.pc = "hideCommit"
  /\ MayCommit(q)
  /\ \/ /\ HiddenForAll(c)
        /\ convo' = None
        /\ msgs' = Purged(msgs, q.conv)
     \/ /\ ~HiddenForAll(c)
        /\ convo' = c
        /\ UNCHANGED msgs
  /\ GotoWriting(r, Idle)
  /\ hist' = [hist EXCEPT !.discarded[q.user] = @ \cup {m.id : m \in msgs},
                          !.resetAt[q.user]   = nextMsg - 1]
  /\ UNCHANGED <<blockedBy, nextMsg, nextConv, out>>

(* withTransaction: a write conflict, or any transient error, drops the    *)
(* attempt and runs the callback again from its first read, which throws   *)
(* notFound when the conversation is gone.                                 *)
TxnRetry(r) ==
  LET q == req[r] IN
  /\ InTxn(r)
  /\ \/ /\ HasConvo(q.conv)
        /\ q.pc # "hideCommit"
        /\ SendAttempt(r, q.user, q.conv, q.cid)
     \/ /\ HasConvo(q.conv)
        /\ q.pc = "hideCommit"
        /\ HideAttempt(r, q.user, q.conv)
        /\ UNCHANGED hist
     \/ /\ ~HasConvo(q.conv)
        /\ Goto(r, Idle)
        /\ UNCHANGED hist
  /\ UNCHANGED <<db, out>>

(***************************************************************************)
(* deleteMessage (unsend), step by step as it awaits.  A client only knows *)
(* the ids of messages that are stored.                                    *)
(***************************************************************************)
UnsendBegin(r, u, i) ==
  /\ "unsend" \in Kinds
  /\ ~Busy(r)
  /\ convo # None
  /\ \E m \in msgs : m.id = i
  /\ Goto(r, [NewCall("unsendLoad", u, None, i) EXCEPT
                !.conv = convo.id, !.snap = convo])
  /\ UNCHANGED <<db, out, hist>>

(* Only the sender may unsend, and a message that is already unsent is     *)
(* returned as it is.                                                      *)
UnsendLoad(r) ==
  LET q == req[r] IN
  /\ q.pc = "unsendLoad"
  /\ Goto(r, IF \E m \in msgs : /\ m.id = q.mid
                                /\ m.conv = q.conv
                                /\ m.from = q.user
                                /\ ~m.unsent
             THEN [q EXCEPT !.pc = "unsendMark"] ELSE Idle)
  /\ UNCHANGED <<db, out, hist>>

(* Defect: the filter matches nothing.                                     *)
TombstoneMissed(ms, id, i) == ms
Tombstone(ms, id, i) ==
  {IF m.id = i /\ m.conv = id THEN [m EXCEPT !.unsent = TRUE] ELSE m : m \in ms}

(* softDelete, and then wasPreview on the document read at the beginning.  *)
UnsendMark(r) ==
  LET q == req[r]
      wasPreview == q.snap.lastMessage.messageId \in {0, q.mid}
  IN
  /\ q.pc = "unsendMark"
  /\ msgs' = Tombstone(msgs, q.conv, q.mid)
  /\ Goto(r, [q EXCEPT !.pc = IF wasPreview THEN "unsendLatest" ELSE "unsendEmit",
                       !.snap = None])
  /\ UNCHANGED <<convo, blockedBy, nextMsg, nextConv, out, hist>>

(* The rewritten preview.  Defect: an unsent newest message clears it.     *)
PreviewOfLive(m) == IF m.unsent THEN NoPreview
                    ELSE [messageId |-> m.id, unsent |-> FALSE]
PreviewOf(m) == [messageId |-> m.id, unsent |-> m.unsent]

UnsendLatest(r) ==
  LET q  == req[r]
      ms == {m \in msgs : m.conv = q.conv}
  IN
  /\ q.pc = "unsendLatest"
  /\ \/ /\ ms = {}
        /\ Goto(r, [q EXCEPT !.pc = "unsendEmit"])
     \/ \E m \in ms :
          /\ \A n \in ms : n.id <= m.id
          /\ Goto(r, [q EXCEPT !.pc = "unsendRewrite", !.latest = PreviewOf(m)])
  /\ UNCHANGED <<db, out, hist>>

(* setLastMessage overwrites the preview without looking at it.            *)
UnsendRewrite(r) ==
  LET q    == req[r]
      next == [q EXCEPT !.pc = "unsendEmit"]
  IN
  /\ q.pc = "unsendRewrite"
  /\ \/ /\ HasConvo(q.conv)
        /\ convo' = [convo EXCEPT !.lastMessage = q.latest]
        /\ GotoWriting(r, next)
     \/ /\ ~HasConvo(q.conv)
        /\ UNCHANGED convo
        /\ Goto(r, next)
  /\ UNCHANGED <<msgs, blockedBy, nextMsg, nextConv, out, hist>>

UnsendEmit(r) ==
  /\ req[r].pc = "unsendEmit"
  /\ retracted' = retracted \cup {req[r].mid}
  /\ Goto(r, Idle)
  /\ UNCHANGED <<db, announced, pushed, hist>>

(***************************************************************************)
(* markRead and setMute: a membership read, then one targeted update.  The *)
(* read also stores how far the user read; no other request looks at that, *)
(* and it is left out.                                                     *)
(***************************************************************************)
ReadBegin(r, u) ==
  /\ "read" \in Kinds
  /\ ~Busy(r)
  /\ convo # None
  /\ Goto(r, [NewCall("read", u, None, 0) EXCEPT !.conv = convo.id])
  /\ UNCHANGED <<db, out, hist>>

ReadApply(r) ==
  LET q == req[r] IN
  /\ q.pc = "read"
  /\ \/ /\ HasConvo(q.conv)
        /\ convo' = [convo EXCEPT !.unreadCounts[q.user] = 0]
        /\ hist' = [hist EXCEPT !.resetAt[q.user] = nextMsg - 1]
        /\ GotoWriting(r, Idle)
     \/ /\ ~HasConvo(q.conv)
        /\ UNCHANGED <<convo, hist>>
        /\ Goto(r, Idle)
  /\ UNCHANGED <<msgs, blockedBy, nextMsg, nextConv, out>>

MuteBegin(r, u, on) ==
  /\ "mute" \in Kinds
  /\ ~Busy(r)
  /\ convo # None
  /\ Goto(r, [NewCall("mute", u, None, 0) EXCEPT !.conv = convo.id, !.on = on])
  /\ UNCHANGED <<db, out, hist>>

MuteApply(r) ==
  LET q == req[r] IN
  /\ q.pc = "mute"
  /\ \/ /\ HasConvo(q.conv)
        /\ convo' = [convo EXCEPT !.mutedBy = IF q.on THEN @ \cup {q.user}
                                              ELSE @ \ {q.user}]
        /\ GotoWriting(r, Idle)
     \/ /\ ~HasConvo(q.conv)
        /\ UNCHANGED convo
        /\ Goto(r, Idle)
  /\ UNCHANGED <<msgs, blockedBy, nextMsg, nextConv, out, hist>>

(***************************************************************************)
(* The block rows of the pair, kept by the blocks module.                  *)
(***************************************************************************)
Block(u) ==
  /\ "block" \in Kinds
  /\ blockedBy' = blockedBy \cup {u}
  /\ UNCHANGED <<convo, msgs, nextMsg, nextConv, req, out, hist>>

Unblock(u) ==
  /\ "block" \in Kinds
  /\ blockedBy' = blockedBy \ {u}
  /\ hist' = [hist EXCEPT !.sawOpen = IF Open' THEN Requests ELSE @]
  /\ UNCHANGED <<convo, msgs, nextMsg, nextConv, req, out>>

(* The process dies, the connection to the database is lost or the answer  *)
(* to a commit never arrives: the request ends where it stands, an open    *)
(* transaction is rolled back and what was written stays.                  *)
Fail(r) ==
  /\ "fail" \in Kinds
  /\ Busy(r)
  /\ Goto(r, Idle)
  /\ UNCHANGED <<db, out, hist>>

Next ==
  \/ \E r \in Requests :
       \/ \E u \in Participants :
            \/ CreateBegin(r, u)
            \/ \E c \in Cids : SendBegin(r, u, c)
            \/ HideBegin(r, u)
            \/ \E i \in MsgIds : UnsendBegin(r, u, i)
            \/ ReadBegin(r, u)
            \/ \E on \in BOOLEAN : MuteBegin(r, u, on)
       \/ CreateUpsert(r)
       \/ SendCheckBlock(r) \/ SendAppend(r) \/ SendCommit(r) \/ Announce(r)
       \/ HideCommit(r)
       \/ TxnRetry(r)
       \/ UnsendLoad(r) \/ UnsendMark(r) \/ UnsendLatest(r)
       \/ UnsendRewrite(r) \/ UnsendEmit(r)
       \/ ReadApply(r)
       \/ MuteApply(r)
       \/ Fail(r)
  \/ \E u \in Participants : Block(u) \/ Unblock(u)

Spec == Init /\ [][Next]_vars

-----------------------------------------------------------------------------
(* Properties.                                                             *)

(* The shape of the documents, of the requests and of the outputs.         *)
TypeOK ==
  /\ convo \in Convo \cup {None}
  /\ msgs \subseteq Message
  /\ blockedBy \subseteq Participants
  /\ nextMsg \in 1..(MaxMsg + 1)
  /\ nextConv \in 1..(MaxConv + 1)
  /\ req \in [Requests -> Call \cup {Idle}]
  /\ announced \in [MsgIds -> Nat]
  /\ retracted \subseteq MsgIds
  /\ pushed \in [MsgIds -> SUBSET Participants]
  /\ hist \in History

(* A send that overlaps the final delete never leaves a message without    *)
(* its conversation, and a conversation created anew starts without the    *)
(* messages of the deleted one.                                            *)
NoOrphans == \A m \in msgs : HasConvo(m.conv)

(* A clientMessageId sent twice, concurrently or as a retry after a lost   *)
(* answer, is stored once.                                                 *)
UniqueCid ==
  \A m, n \in msgs : (m.conv = n.conv /\ m.cid = n.cid) => m = n

(* No message of the thread has been unsent.                               *)
NoneUnsent == \A m \in msgs : ~m.unsent

(* Sends commit in the order of their ids, so the preview is the newest    *)
(* message of the thread as long as nobody unsends.                        *)
PreviewNewest ==
  convo # None /\ NoneUnsent => \A m \in msgs : m.id <= convo.lastMessage.messageId

(* hideForUser decides by the preview whether a thread bears messages: the *)
(* preview is null exactly when there are none, and else a stored message. *)
PreviewBacked ==
  convo # None =>
    IF msgs = {} THEN convo.lastMessage.messageId = 0
    ELSE \E m \in msgs : m.id = convo.lastMessage.messageId

(* The badge counts each message of the other side once: those committed   *)
(* since the user last read or hid, no increment lost and none repeated.   *)
UnreadExact ==
  convo # None =>
    \A u \in Participants :
      convo.unreadCounts[u] =
        Cardinality({m \in msgs : m.from # u /\ m.id > hist.resetAt[u]})

(* What a user cleared with "delete for me" stays invisible to that user,  *)
(* also after a new message resurfaces the thread, as long as nobody       *)
(* unsends: the watermark is the preview, which an unsend rewrites.        *)
ClearedStaysHidden ==
  NoneUnsent =>
    \A u \in Participants : \A m \in Visible(u) : m.id \notin hist.discarded[u]

(* message:new goes out at most once for a message, whatever was retried.  *)
AnnouncedOnce == \A i \in MsgIds : announced[i] <= 1

(* A message whose sending attempt ran under a block from its first read   *)
(* to its end is never stored, however often the transaction is retried.   *)
BlockedNeverLands ==
  \A r \in Requests :
    req[r].pc \in {"sendAppend", "sendCommit", "announce"} => r \in hist.sawOpen

(* Nobody gets a push for a message that was committed after the user's    *)
(* mute was, although the push is sent from the transaction's first read.  *)
MuteHonoured == \A i \in MsgIds : pushed[i] \cap hist.silenced[i] = {}

(* Once message:deleted went out for a message, the stored message is a    *)
(* tombstone, which history and syncs return without its body, and nothing *)
(* undoes it.  The inbox shows the preview, a copy: see below.             *)
RetractedIsUnsent == \A m \in msgs : m.id \in retracted => m.unsent

Quiescent == \A r \in Requests : ~Busy(r)

(* When no request runs, a preview of an unsent message says so: its body  *)
(* is not shown in the inbox.  Broken by two unsends that overlap.         *)
PreviewHonoursUnsend ==
  (Quiescent /\ convo # None) =>
    \A m \in msgs : (m.id = convo.lastMessage.messageId /\ m.unsent)
                       => convo.lastMessage.unsent

(* The thread a client sees of the database at an instant.                 *)
Entries == [id : MsgIds, from : Participants, unsent : BOOLEAN]

Views == [log    : SUBSET Entries,
          hidden : SUBSET Participants,
          unread : [Participants -> Nat],
          muted  : SUBSET Participants]

ASSUME ViewAssumption == None \notin Views

ThreadView ==
  IF convo = None THEN None
  ELSE [log    |-> {[id |-> m.id, from |-> m.from, unsent |-> m.unsent] : m \in msgs},
        hidden |-> convo.deletedFor,
        unread |-> convo.unreadCounts,
        muted  |-> convo.mutedBy]

Abstract == INSTANCE Mailbox WITH Ids <- MsgIds, thread <- ThreadView

(* Every request takes effect at one instant: the transactions compute     *)
(* from a snapshot and the other requests in several steps, and yet the    *)
(* database only moves as the atomic operations of Mailbox do.             *)
ImplementsMailbox == Abstract!Spec
=============================================================================
