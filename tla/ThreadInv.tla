------------------------------ MODULE ThreadInv ------------------------------
(***************************************************************************)
(* The inductive invariant of Thread.  The safety properties follow from   *)
(* it; none of them is inductive alone, because what a transaction commits *)
(* was computed from a snapshot taken several steps before.                *)
(***************************************************************************)
EXTENDS Thread

SendPcs   == {"sendCheck", "sendAppend", "sendCommit"}
DraftPcs  == {"sendCommit", "announce"}
TargetPcs == {"unsendLoad", "unsendMark", "unsendLatest", "unsendRewrite", "unsendEmit"}
MarkedPcs == {"unsendLatest", "unsendRewrite", "unsendEmit"}

(* What the fields of a running request hold at each stage.                *)
Shape(q, ids, convs) ==
  /\ q.pc \in TxnPcs => q.snap \in Convo /\ q.conv = q.snap.id
  /\ q.pc \in SendPcs => q.cid \in Cids
  /\ q.pc = "announce" => q.snap \in Convo
  /\ q.pc \in DraftPcs \cup TargetPcs => q.mid \in MsgIds /\ q.mid < ids
  /\ q.pc \in {"unsendLoad", "unsendMark"} => q.snap \in Convo
  /\ q.pc # "idle" => q.conv < convs

CallShape == \A r \in Requests : Shape(req[r], nextMsg, nextConv)

(* A transaction that met no write still sees the current document, and    *)
(* the messages it looked its clientMessageId up in.                       *)
Current(q, c, ms) ==
  (q.pc \in TxnPcs /\ ~q.stale) =>
    /\ q.snap = c
    /\ q.dup = 0 /\ q.pc \in SendPcs
         => \A m \in ms : ~(m.conv = q.conv /\ m.cid = q.cid)

SnapshotCurrent == \A r \in Requests : Current(req[r], convo, msgs)

(* A message id is handed out once, and the id of a send that may still    *)
(* commit is newer than every stored message.                              *)
FreshIds ==
  /\ \A m \in msgs : m.id < nextMsg
  /\ \A m, n \in msgs : m.id = n.id => m = n
  /\ \A r, s \in Requests :
       (req[r].pc \in DraftPcs /\ req[s].pc \in DraftPcs /\ req[r].mid = req[s].mid)
         => r = s
  /\ \A r \in Requests :
       req[r].pc = "sendCommit" =>
         /\ req[r].dup = 0
         /\ ~req[r].stale => \A m \in msgs : m.id < req[r].mid

(* Conversation ids are never reused.                                      *)
FreshConvo == convo # None => convo.id < nextConv

(* A preview about to be written refers to a message of its conversation.  *)
LatestBacked ==
  \A r \in Requests :
    (req[r].pc = "unsendRewrite" /\ HasConvo(req[r].conv)) =>
      \E m \in msgs : m.id = req[r].latest.messageId

(* Whoever hides the thread has cleared every message stored in it.        *)
HiddenHasDiscarded ==
  convo # None =>
    \A u \in convo.deletedFor : \A m \in msgs : m.id \in hist.discarded[u]

(* An unsend that is about to tombstone works on a message of its caller   *)
(* and its conversation, which is unsent once the tombstone is written; no *)
(* send can still commit under the id it aims at.                          *)
TargetOwned ==
  \A r \in Requests :
    /\ req[r].pc = "unsendMark" =>
         \A m \in msgs : m.id = req[r].mid => m.from = req[r].user /\ m.conv = req[r].conv
    /\ req[r].pc \in MarkedPcs =>
         \A m \in msgs : m.id = req[r].mid => m.unsent
    /\ req[r].pc \in TargetPcs =>
         \A s \in Requests :
           (req[s].pc = "sendCommit" /\ ~req[s].stale) => req[r].mid < req[s].mid

(* What was retracted, and what the badges were reset at, is older than    *)
(* every message still to come.                                            *)
RetractedPast ==
  \A i \in MsgIds : i \in retracted =>
    /\ i < nextMsg
    /\ \A s \in Requests :
         (req[s].pc = "sendCommit" /\ ~req[s].stale) => i < req[s].mid

ResetPast ==
  /\ IsFiniteSet(msgs)
  /\ \A u \in Participants :
       /\ hist.resetAt[u] < nextMsg
       /\ \A s \in Requests :
            (req[s].pc = "sendCommit" /\ ~req[s].stale) => hist.resetAt[u] < req[s].mid

(* What was cleared from a thread that still exists is still stored.       *)
DiscardedStored ==
  convo # None =>
    \A u \in Participants : \A i \in hist.discarded[u] : \E m \in msgs : m.id = i

(* Only an unsend puts an older message into the preview.                  *)
NoUnsend == "unsend" \notin Kinds

NewestShown ==
  convo # None => \A m \in msgs : m.id <= convo.lastMessage.messageId

ClearedHidden ==
  \A u \in Participants : \A m \in Visible(u) : m.id \notin hist.discarded[u]

PreviewOnlyGrows ==
  NoUnsend =>
    /\ \A r \in Requests : req[r].pc \notin TargetPcs
    /\ NewestShown
    /\ ClearedHidden

(* A send that has yet to look at the blocks will only find the pair open  *)
(* if it was open at some time of the attempt.                             *)
OpenSeen ==
  Open => \A r \in Requests : req[r].pc = "sendCheck" => r \in hist.sawOpen

(* Nothing was emitted or pushed yet for a message that is not announced,  *)
(* and the push list that waits is the mute state at the commit.           *)
OutputPending ==
  /\ \A i \in MsgIds :
       (i >= nextMsg \/ \E r \in Requests : req[r].pc \in DraftPcs /\ req[r].mid = i)
         => announced[i] = 0 /\ pushed[i] = {}
  /\ \A r \in Requests :
       req[r].pc = "announce" => req[r].snap.mutedBy = hist.silenced[req[r].mid]

IInv ==
  /\ TypeOK
  /\ CallShape
  /\ SnapshotCurrent
  /\ FreshIds
  /\ FreshConvo
  /\ NoOrphans
  /\ UniqueCid
  /\ PreviewBacked
  /\ LatestBacked
  /\ HiddenHasDiscarded
  /\ TargetOwned
  /\ OpenSeen
  /\ BlockedNeverLands
  /\ OutputPending
  /\ AnnouncedOnce
  /\ MuteHonoured
  /\ RetractedPast
  /\ RetractedIsUnsent
  /\ ResetPast
  /\ UnreadExact
  /\ DiscardedStored
  /\ PreviewOnlyGrows
=============================================================================
