---------------------------- MODULE ThreadProofs ----------------------------
(***************************************************************************)
(* Theorems about Thread, for every value of its constants.  First types,  *)
(* and CoreInv: stored messages have their conversation, and no            *)
(* clientMessageId is stored twice.  Then the rest of IInv, which gives    *)
(* every safety property that TLC checks on the small instances.  The last *)
(* part proves from it that Thread implements Mailbox.                     *)
(***************************************************************************)
EXTENDS ThreadInv, FiniteSetTheorems, TLAPS

-----------------------------------------------------------------------------
(* Type correctness.                                                       *)

(***************************************************************************)
(* What the parts of a step return.                                        *)
(***************************************************************************)

(* A fresh request record is well formed.                                  *)
LEMMA NewCallType ==
  ASSUME NEW pc \in Pcs, NEW u \in Participants, NEW c \in Cids \cup {None},
         NEW i \in MsgRefs
  PROVE  /\ NewCall(pc, u, c, i) \in Call
         /\ NewCall(pc, u, c, i).pc = pc
         /\ NewCall(pc, u, c, i).user = u
         /\ NewCall(pc, u, c, i).cid = c
         /\ NewCall(pc, u, c, i).mid = i
BY BoundsAssumption DEF NewCall, Call, MsgRefs, Preview, NoPreview

LEMMA BusyCall ==
  ASSUME TypeOK, NEW r \in Requests, req[r].pc \in Pcs
  PROVE  req[r] \in Call
BY DEF TypeOK, Pcs, TxnPcs, Idle

(* Moving one request keeps the table of requests well formed.             *)
LEMMA GotoType ==
  ASSUME TypeOK, NEW r \in Requests, NEW call \in Call \cup {Idle},
         Goto(r, call) \/ GotoWriting(r, call)
  PROVE  req' \in [Requests -> Call \cup {Idle}]
<1>1. CASE Goto(r, call)
  BY <1>1 DEF Goto, TypeOK
<1>2. CASE GotoWriting(r, call)
  <2>1. ASSUME NEW q \in Requests, InTxn(q)
        PROVE  [req[q] EXCEPT !.stale = TRUE] \in Call
    <3>1. req[q] \in Call
      BY <2>1, BusyCall DEF InTxn, Pcs
    <3> QED
      BY <3>1 DEF Call
  <2> QED
    BY <1>2, <2>1 DEF GotoWriting, TypeOK
<1> QED
  BY <1>1, <1>2

LEMMA ConvoTypes ==
  /\ \A id \in ConvIds : NewConvo(id) \in Convo /\ NewConvo(id).id = id
  /\ \A c \in Convo, i \in MsgRefs, u \in Participants :
       /\ Recorded(c, i, u) \in Convo
       /\ Recorded(c, i, u).id = c.id
       /\ Recorded(c, i, u).lastMessage.messageId = i
       /\ Recorded(c, i, u).deletedFor = {}
       /\ Recorded(c, i, u).mutedBy = c.mutedBy
  /\ \A c \in Convo, u \in Participants :
       /\ Hidden(c, u) \in Convo
       /\ Hidden(c, u).id = c.id
       /\ Hidden(c, u).lastMessage = c.lastMessage
       /\ Hidden(c, u).deletedFor = c.deletedFor \cup {u}
       /\ Hidden(c, u).mutedBy = c.mutedBy
<1>1. ASSUME NEW id \in ConvIds
      PROVE  NewConvo(id) \in Convo /\ NewConvo(id).id = id
  BY BoundsAssumption DEF NewConvo, Convo, NoPreview, Preview, MsgRefs
<1>2. ASSUME NEW c \in Convo, NEW i \in MsgRefs, NEW u \in Participants
      PROVE  /\ Recorded(c, i, u) \in Convo
             /\ Recorded(c, i, u).id = c.id
             /\ Recorded(c, i, u).lastMessage.messageId = i
             /\ Recorded(c, i, u).deletedFor = {}
             /\ Recorded(c, i, u).mutedBy = c.mutedBy
  <2> DEFINE badge == [p \in Participants |-> IF p = u THEN c.unreadCounts[p]
                                             ELSE c.unreadCounts[p] + 1]
             last  == [messageId |-> i, unsent |-> FALSE]
  <2>1. badge \in [Participants -> Nat]
    BY DEF Convo
  <2>2. last \in Preview /\ last.messageId = i
    BY DEF Preview
  <2>3. Recorded(c, i, u) = [c EXCEPT !.lastMessage = last, !.unreadCounts = badge,
                                      !.deletedFor = {}]
    BY DEF Recorded
  <2> HIDE DEF badge, last
  <2> QED
    BY <2>1, <2>2, <2>3 DEF Convo
<1>3. ASSUME NEW c \in Convo, NEW u \in Participants
      PROVE  /\ Hidden(c, u) \in Convo
             /\ Hidden(c, u).id = c.id
             /\ Hidden(c, u).lastMessage = c.lastMessage
             /\ Hidden(c, u).deletedFor = c.deletedFor \cup {u}
             /\ Hidden(c, u).mutedBy = c.mutedBy
  BY DEF Hidden, Convo, Preview
<1> QED
  BY <1>1, <1>2, <1>3

(* A tombstone changes nothing but the mark.                               *)
LEMMA TombstoneKeeps ==
  ASSUME NEW ms \in SUBSET Message, NEW id, NEW i
  PROVE  /\ Tombstone(ms, id, i) \subseteq Message
         /\ \A m \in Tombstone(ms, id, i) :
              \E n \in ms : /\ n.id = m.id /\ n.conv = m.conv
                           /\ n.cid = m.cid /\ n.from = m.from
                           /\ m = IF n.id = i /\ n.conv = id
                                  THEN [n EXCEPT !.unsent = TRUE] ELSE n
         /\ \A n \in ms :
              \E m \in Tombstone(ms, id, i) :
                 /\ n.id = m.id /\ n.conv = m.conv
                 /\ n.cid = m.cid /\ n.from = m.from
<1>1. ASSUME NEW n \in ms
      PROVE  LET m == IF n.id = i /\ n.conv = id
                      THEN [n EXCEPT !.unsent = TRUE] ELSE n
             IN  /\ m \in Message
                 /\ n.id = m.id /\ n.conv = m.conv
                 /\ n.cid = m.cid /\ n.from = m.from
  BY DEF Message
<1> QED
  BY <1>1 DEF Tombstone

LEMMA DupType ==
  ASSUME TypeOK, NEW id, NEW c
  PROVE  /\ Dup(id, c) \in MsgRefs
         /\ Dup(id, c) = 0 => \A m \in msgs : ~(m.conv = id /\ m.cid = c)
<1> DEFINE hit == {m \in msgs : m.conv = id /\ m.cid = c}
<1>1. CASE hit = {}
  BY <1>1, BoundsAssumption DEF Dup, MsgRefs
<1>2. CASE hit # {}
  <2>1. PICK x : x = (CHOOSE m \in hit : TRUE)
    OBVIOUS
  <2>2. x \in hit /\ Dup(id, c) = x.id
    BY <1>2, <2>1 DEF Dup
  <2> QED
    BY <2>2, BoundsAssumption DEF TypeOK, Message, MsgIds, MsgRefs
<1> QED
  BY <1>1, <1>2

(***************************************************************************)
(* Types.                                                                  *)
(***************************************************************************)
TypeInv == TypeOK /\ CallShape

LEMMA TypeInit == Init => TypeInv
<1> SUFFICES ASSUME Init PROVE TypeInv
  OBVIOUS
<1>1. TypeOK
  <2>1. hist \in History
    BY BoundsAssumption DEF Init, History, MsgRefs
  <2> QED
    BY <2>1, BoundsAssumption DEF Init, TypeOK
<1>2. CallShape
  BY DEF Init, CallShape, Shape, Idle, TxnPcs, SendPcs, DraftPcs, TargetPcs
<1> QED
  BY <1>1, <1>2 DEF TypeInv

(* The other requests keep their shape: a conflicting write only marks     *)
(* them, and the id counters only grow.                                    *)
LEMMA ShapeStep ==
  ASSUME TypeInv, NEW r \in Requests, NEW call \in Call \cup {Idle},
         Goto(r, call) \/ GotoWriting(r, call),
         TypeOK', nextMsg <= nextMsg', nextConv <= nextConv',
         Shape(call, nextMsg', nextConv')
  PROVE  CallShape'
<1> SUFFICES ASSUME NEW q \in Requests
             PROVE  Shape(req'[q], nextMsg', nextConv')
  BY DEF CallShape
<1>1. CASE q = r
  BY <1>1 DEF Goto, GotoWriting, TypeInv, TypeOK
<1>2. CASE q # r
  <2>1. \/ req'[q] = req[q]
        \/ InTxn(q) /\ req'[q] = [req[q] EXCEPT !.stale = TRUE]
    BY <1>2 DEF Goto, GotoWriting, TypeInv, TypeOK
  <2>2. req[q] = Idle \/ req[q] \in Call
    BY DEF TypeInv, TypeOK
  <2>3. CASE req[q] = Idle
    BY <2>1, <2>3 DEF Idle, InTxn, TxnPcs, SendPcs, DraftPcs, TargetPcs, Shape
  <2>4. CASE req[q] \in Call
    <3>1. /\ req'[q].pc = req[q].pc /\ req'[q].snap = req[q].snap
          /\ req'[q].conv = req[q].conv /\ req'[q].cid = req[q].cid
          /\ req'[q].mid = req[q].mid
      BY <2>1, <2>4 DEF Call
    <3>2. /\ req[q].mid \in Nat /\ req[q].conv \in Nat
          /\ nextMsg \in Nat /\ nextMsg' \in Nat /\ nextConv \in Nat /\ nextConv' \in Nat
      BY <2>4, BoundsAssumption DEF Call, MsgRefs, TypeInv, TypeOK
    <3>3. Shape(req[q], nextMsg, nextConv)
      BY DEF TypeInv, CallShape
    <3> QED
      BY <3>1, <3>2, <3>3 DEF Shape
  <2> QED
    BY <2>2, <2>3, <2>4
<1> QED
  BY <1>1, <1>2

(* What a step must establish for TypeInv to survive it.                   *)
LEMMA TypeBy ==
  ASSUME TypeInv, NEW r \in Requests, NEW call \in Call \cup {Idle},
         Goto(r, call) \/ GotoWriting(r, call),
         convo' \in Convo \cup {None}, msgs' \subseteq Message,
         blockedBy' = blockedBy,
         nextMsg' \in 1..(MaxMsg + 1), nextConv' \in 1..(MaxConv + 1),
         nextMsg <= nextMsg', nextConv <= nextConv',
         announced' \in [MsgIds -> Nat], retracted' \subseteq MsgIds,
         pushed' \in [MsgIds -> SUBSET Participants],
         hist' \in History,
         Shape(call, nextMsg', nextConv')
  PROVE  TypeInv'
<1>1. TypeOK'
  BY GotoType DEF TypeInv, TypeOK
<1>2. CallShape'
  BY <1>1, ShapeStep
<1> QED
  BY <1>1, <1>2 DEF TypeInv

LEMMA IdleShape ==
  /\ \A ids, convs : Shape(Idle, ids, convs)
  /\ Idle.pc \notin TxnPcs \cup SendPcs \cup DraftPcs \cup TargetPcs
  /\ Idle.pc = "idle"
BY DEF Idle, TxnPcs, SendPcs, DraftPcs, TargetPcs, Shape

(* The fields of a running request.                                        *)
LEMMA CallFields ==
  ASSUME TypeInv, NEW r \in Requests, req[r].pc \in Pcs
  PROVE  /\ req[r] \in Call
         /\ req[r].user \in Participants
         /\ req[r].mid \in MsgRefs /\ req[r].dup \in MsgRefs
         /\ req[r].conv \in 0..MaxConv /\ req[r].conv < nextConv
         /\ req[r].latest \in Preview
BY BusyCall DEF TypeInv, Call, CallShape, Shape, Pcs, TxnPcs

LEMMA AttemptType ==
  ASSUME TypeInv, NEW r \in Requests, NEW u \in Participants, NEW c \in Cids,
         NEW id, HasConvo(id), FreshConvo, SendAttempt(r, u, id, c), UNCHANGED <<db, out>>
  PROVE  TypeInv'
<1> DEFINE call == [NewCall("sendCheck", u, c, 0) EXCEPT
                      !.conv = id, !.snap = convo, !.dup = Dup(id, c)]
<1>1. /\ convo \in Convo /\ convo.id = id /\ id \in ConvIds /\ id < nextConv
  BY DEF HasConvo, TypeInv, TypeOK, Convo, FreshConvo
<1>2. Dup(id, c) \in MsgRefs
  BY DupType DEF TypeInv
<1>3. /\ call \in Call /\ call.pc = "sendCheck" /\ call.snap = convo
      /\ call.conv = id /\ call.cid = c
  <2> DEFINE base == NewCall("sendCheck", u, c, 0)
  <2>1. base \in Call /\ base.pc = "sendCheck" /\ base.cid = c
    BY NewCallType, BoundsAssumption DEF Pcs, TxnPcs, MsgRefs
  <2>2. call = [base EXCEPT !.conv = id, !.snap = convo, !.dup = Dup(id, c)]
    OBVIOUS
  <2> HIDE DEF base, call
  <2> QED
    <3>1. id \in 0..MaxConv /\ convo \in Convo \cup {None}
      BY <1>1, BoundsAssumption DEF ConvIds
    <3>2. PICK d \in MsgRefs : d = Dup(id, c)
      BY <1>2
    <3>3. call = [base EXCEPT !.conv = id, !.snap = convo, !.dup = d]
      BY <2>2, <3>2
    <3> QED
      BY <2>1, <3>1, <3>3 DEF Call
<1>4. Goto(r, call) /\ UNCHANGED <<db, out>>
  BY DEF SendAttempt
<1>5. hist' \in History
  BY DEF SendAttempt, TypeInv, TypeOK, History
<1> HIDE DEF call
<1> QED
  BY <1>1, <1>3, <1>4, <1>5, TypeBy
     DEF db, out, TypeInv, TypeOK, TxnPcs, SendPcs, DraftPcs, TargetPcs, Shape

LEMMA HideAttemptType ==
  ASSUME TypeInv, NEW r \in Requests, NEW u \in Participants, NEW id,
         HasConvo(id), FreshConvo, HideAttempt(r, u, id), UNCHANGED <<db, out, hist>>
  PROVE  TypeInv'
<1> DEFINE base == NewCall("hideCommit", u, None, 0)
           call == [base EXCEPT !.conv = id, !.snap = convo]
<1>1. /\ convo \in Convo /\ convo.id = id /\ id \in ConvIds /\ id < nextConv
  BY DEF HasConvo, TypeInv, TypeOK, Convo, FreshConvo
<1>2. base \in Call /\ base.pc = "hideCommit"
  BY NewCallType, BoundsAssumption DEF Pcs, TxnPcs, MsgRefs
<1>3. Goto(r, call)
  BY DEF HideAttempt
<1> HIDE DEF base
<1>4. /\ call \in Call /\ call.pc = "hideCommit" /\ call.snap = convo /\ call.conv = id
  <2>1. id \in 0..MaxConv /\ convo \in Convo \cup {None}
    BY <1>1, BoundsAssumption DEF ConvIds
  <2> QED
    BY <1>2, <2>1 DEF Call
<1> HIDE DEF call
<1> QED
  BY <1>1, <1>3, <1>4, TypeBy DEF TypeInv, TypeOK, db, out, TxnPcs, SendPcs, DraftPcs, TargetPcs, Shape

(* A request that ends, or that moves on without a write.                  *)
LEMMA EndType ==
  ASSUME TypeInv, NEW r \in Requests, Goto(r, Idle), UNCHANGED <<db, out, hist>>
  PROVE  TypeInv'
BY TypeBy, IdleShape DEF TypeInv, TypeOK, db, out

LEMMA SendStepsType ==
  ASSUME TypeInv, NEW r \in Requests
  PROVE  /\ SendCheckBlock(r) => TypeInv'
         /\ SendAppend(r) => TypeInv'
<1>1. ASSUME SendCheckBlock(r) PROVE TypeInv'
  <2> DEFINE next == [req[r] EXCEPT !.pc = "sendAppend"]
  <2>1. req[r] \in Call /\ req[r].pc = "sendCheck"
    BY <1>1, CallFields DEF SendCheckBlock, Pcs, TxnPcs
  <2>2. /\ next \in Call /\ next.pc = "sendAppend" /\ next.snap = req[r].snap
        /\ next.conv = req[r].conv /\ next.cid = req[r].cid
    BY <2>1 DEF Call, Pcs, TxnPcs
  <2>3. /\ req[r].snap \in Convo /\ req[r].conv = req[r].snap.id
        /\ req[r].cid \in Cids /\ req[r].conv < nextConv
    BY <2>1 DEF TypeInv, CallShape, Shape, TxnPcs, SendPcs
  <2>4. UNCHANGED <<db, out, hist>> /\ (Goto(r, next) \/ Goto(r, Idle))
    BY <1>1 DEF SendCheckBlock
  <2> HIDE DEF next
  <2>5. CASE Goto(r, next)
    BY <2>2, <2>3, <2>4, <2>5, TypeBy DEF TypeInv, TypeOK, db, out, TxnPcs, SendPcs, DraftPcs, TargetPcs, Shape
  <2> QED
    BY <2>4, <2>5, EndType
<1>2. ASSUME SendAppend(r) PROVE TypeInv'
  <2> DEFINE next == [req[r] EXCEPT !.pc = "sendCommit", !.mid = nextMsg]
  <2>1. req[r] \in Call /\ req[r].pc = "sendAppend"
    BY <1>2, CallFields DEF SendAppend, Pcs, TxnPcs
  <2>2. /\ req[r].snap \in Convo /\ req[r].conv = req[r].snap.id
        /\ req[r].cid \in Cids /\ req[r].conv < nextConv
    BY <2>1 DEF TypeInv, CallShape, Shape, TxnPcs, SendPcs
  <2>3. CASE Goto(r, Idle) /\ UNCHANGED nextMsg
    BY <1>2, <2>3, EndType DEF SendAppend, db
  <2>4. CASE nextMsg <= MaxMsg /\ nextMsg' = nextMsg + 1 /\ Goto(r, next)
    <3>1. nextMsg \in MsgIds /\ nextMsg \in MsgRefs /\ nextMsg' \in 1..(MaxMsg + 1)
      BY <2>4, BoundsAssumption DEF TypeInv, TypeOK, MsgIds, MsgRefs
    <3>2. /\ next \in Call /\ next.pc = "sendCommit" /\ next.snap = req[r].snap
          /\ next.conv = req[r].conv /\ next.cid = req[r].cid /\ next.mid = nextMsg
      BY <2>1, <3>1 DEF Call, Pcs, TxnPcs
    <3>3. nextMsg < nextMsg' /\ nextMsg <= nextMsg'
      BY <2>4, <3>1, BoundsAssumption DEF MsgIds
    <3> HIDE DEF next
    <3> QED
      BY <1>2, <2>2, <2>4, <3>1, <3>2, <3>3, TypeBy
         DEF SendAppend, TypeInv, TypeOK, db, out, TxnPcs, SendPcs, DraftPcs, TargetPcs, Shape
  <2> QED
    BY <1>2, <2>3, <2>4 DEF SendAppend, Deduped
<1> QED
  BY <1>1, <1>2

(* The single-document updates keep the conversation document well formed. *)
LEMMA UpdateTypes ==
  /\ \A c \in Convo, u \in Participants :
       LET d == [c EXCEPT !.unreadCounts[u] = 0] IN
       d \in Convo /\ d.id = c.id /\ d.lastMessage = c.lastMessage
         /\ d.deletedFor = c.deletedFor /\ d.mutedBy = c.mutedBy
  /\ \A c \in Convo, ms \in SUBSET Participants :
       LET d == [c EXCEPT !.mutedBy = ms] IN
       d \in Convo /\ d.id = c.id /\ d.lastMessage = c.lastMessage
         /\ d.deletedFor = c.deletedFor
  /\ \A c \in Convo, l \in Preview :
       LET d == [c EXCEPT !.lastMessage = l] IN
       d \in Convo /\ d.id = c.id /\ d.lastMessage = l
         /\ d.deletedFor = c.deletedFor /\ d.mutedBy = c.mutedBy
<1>1. ASSUME NEW c \in Convo, NEW u \in Participants
      PROVE  LET d == [c EXCEPT !.unreadCounts[u] = 0] IN
             d \in Convo /\ d.id = c.id /\ d.lastMessage = c.lastMessage
               /\ d.deletedFor = c.deletedFor /\ d.mutedBy = c.mutedBy
  <2>1. [c.unreadCounts EXCEPT ![u] = 0] \in [Participants -> Nat]
    BY DEF Convo
  <2> QED
    BY <2>1 DEF Convo
<1>2. ASSUME NEW c \in Convo, NEW ms \in SUBSET Participants
      PROVE  LET d == [c EXCEPT !.mutedBy = ms] IN
             d \in Convo /\ d.id = c.id /\ d.lastMessage = c.lastMessage
               /\ d.deletedFor = c.deletedFor
  BY DEF Convo
<1>3. ASSUME NEW c \in Convo, NEW l \in Preview
      PROVE  LET d == [c EXCEPT !.lastMessage = l] IN
             d \in Convo /\ d.id = c.id /\ d.lastMessage = l
               /\ d.deletedFor = c.deletedFor /\ d.mutedBy = c.mutedBy
  BY DEF Convo
<1> QED
  BY <1>1, <1>2, <1>3

(* Requests that begin outside a transaction.                              *)
LEMMA BeginType ==
  ASSUME TypeInv, FreshConvo, NEW r \in Requests, NEW u \in Participants
  PROVE  /\ CreateBegin(r, u) => TypeInv'
         /\ ReadBegin(r, u) => TypeInv'
         /\ \A on \in BOOLEAN : MuteBegin(r, u, on) => TypeInv'
         /\ \A i \in MsgIds : (FreshIds /\ UnsendBegin(r, u, i)) => TypeInv'
<1>0. 0 \in MsgRefs /\ None \in Cids \cup {None}
  BY BoundsAssumption DEF MsgRefs
<1>1. ASSUME CreateBegin(r, u) PROVE TypeInv'
  <2> DEFINE call == NewCall("create", u, None, 0)
  <2>1. call \in Call /\ call.pc = "create" /\ call.conv = 0
    BY <1>0, NewCallType DEF Pcs, NewCall
  <2>2. Goto(r, call) /\ UNCHANGED <<db, out, hist>>
    BY <1>1 DEF CreateBegin
  <2> HIDE DEF call
  <2> QED
    BY <2>1, <2>2, TypeBy DEF TypeInv, TypeOK, db, out, TxnPcs, SendPcs, DraftPcs, TargetPcs, Shape
<1>2. ASSUME ReadBegin(r, u) PROVE TypeInv'
  <2> DEFINE base == NewCall("read", u, None, 0)
             call == [base EXCEPT !.conv = convo.id]
  <2>0. "read" \in Pcs
    BY DEF Pcs
  <2>1. base \in Call /\ base.pc = "read"
    BY <1>0, <2>0, NewCallType
  <2>2. Goto(r, call) /\ UNCHANGED <<db, out, hist>>
    BY <1>2 DEF ReadBegin
  <2>3. convo.id \in 0..MaxConv /\ convo.id < nextConv
    BY <1>2, BoundsAssumption DEF ReadBegin, FreshConvo, TypeInv, TypeOK, Convo, ConvIds
  <2> HIDE DEF base
  <2>4. call \in Call /\ call.pc = "read" /\ call.conv = convo.id
    BY <2>1, <2>3 DEF Call
  <2> HIDE DEF call
  <2> QED
    BY <2>2, <2>3, <2>4, TypeBy DEF TypeInv, TypeOK, db, out, TxnPcs, SendPcs, DraftPcs, TargetPcs, Shape
<1>3. ASSUME NEW on \in BOOLEAN, MuteBegin(r, u, on) PROVE TypeInv'
  <2> DEFINE base == NewCall("mute", u, None, 0)
             call == [base EXCEPT !.conv = convo.id, !.on = on]
  <2>1. base \in Call /\ base.pc = "mute"
    BY <1>0, NewCallType DEF Pcs
  <2>2. Goto(r, call) /\ UNCHANGED <<db, out, hist>>
    BY <1>3 DEF MuteBegin
  <2>3. convo.id \in 0..MaxConv /\ convo.id < nextConv
    BY <1>3, BoundsAssumption DEF MuteBegin, FreshConvo, TypeInv, TypeOK, Convo, ConvIds
  <2> HIDE DEF base
  <2>4. call \in Call /\ call.pc = "mute" /\ call.conv = convo.id
    BY <2>1, <2>3 DEF Call
  <2> HIDE DEF call
  <2> QED
    BY <2>2, <2>3, <2>4, TypeBy DEF TypeInv, TypeOK, db, out, TxnPcs, SendPcs, DraftPcs, TargetPcs, Shape
<1>4. ASSUME NEW i \in MsgIds, FreshIds, UnsendBegin(r, u, i) PROVE TypeInv'
  <2> DEFINE base == NewCall("unsendLoad", u, None, i)
             call == [base EXCEPT !.conv = convo.id, !.snap = convo]
  <2>0. i \in MsgRefs
    BY DEF MsgIds, MsgRefs
  <2>1. base \in Call /\ base.pc = "unsendLoad" /\ base.mid = i
    BY <1>0, <2>0, NewCallType DEF Pcs
  <2>2. Goto(r, call) /\ UNCHANGED <<db, out, hist>>
    BY <1>4 DEF UnsendBegin
  <2>3. convo.id \in 0..MaxConv /\ convo.id < nextConv /\ convo \in Convo
    BY <1>4, BoundsAssumption DEF UnsendBegin, FreshConvo, TypeInv, TypeOK, Convo, ConvIds
  <2>4. i < nextMsg
    BY <1>4 DEF UnsendBegin, FreshIds
  <2> HIDE DEF base
  <2>5. /\ call \in Call /\ call.pc = "unsendLoad" /\ call.conv = convo.id
        /\ call.snap = convo /\ call.mid = i
    <3>1. PICK k \in 0..MaxConv : k = convo.id
      BY <2>3
    <3>2. call = [base EXCEPT !.conv = k, !.snap = convo]
      BY <3>1
    <3>3. convo \in Convo \cup {None}
      BY <2>3
    <3> HIDE DEF call
    <3>4. call \in Call /\ call.pc = base.pc /\ call.conv = k /\ call.snap = convo /\ call.mid = base.mid
      BY <2>1, <3>2, <3>3 DEF Call
    <3> QED
      BY <2>1, <3>1, <3>4
  <2> HIDE DEF call
  <2> QED
    BY <2>2, <2>3, <2>4, <2>5, TypeBy
       DEF TypeInv, TypeOK, db, out, TxnPcs, SendPcs, DraftPcs, TargetPcs, Shape
<1> QED
  BY <1>1, <1>2, <1>3, <1>4

LEMMA CreateType ==
  ASSUME TypeInv, NEW r \in Requests, CreateUpsert(r)
  PROVE  TypeInv'
<1>1. GotoWriting(r, Idle) /\ UNCHANGED <<msgs, blockedBy, nextMsg, out>>
  BY DEF CreateUpsert
<1>2. CASE UNCHANGED <<convo, nextConv, hist>>
  BY <1>1, <1>2, TypeBy, IdleShape DEF TypeInv, TypeOK, out
<1>3. CASE /\ nextConv <= MaxConv /\ convo' = NewConvo(nextConv) /\ nextConv' = nextConv + 1
           /\ hist' = [hist EXCEPT !.discarded = [u \in Participants |-> {}]]
  <2>1. /\ nextConv \in ConvIds /\ nextConv' \in 1..(MaxConv + 1) /\ nextConv <= nextConv'
        /\ nextMsg <= nextMsg'
    BY <1>1, <1>3, BoundsAssumption DEF TypeInv, TypeOK, ConvIds
  <2>2. convo' \in Convo
    BY <1>3, <2>1, ConvoTypes
  <2>3. hist' \in History
    BY <1>3 DEF TypeInv, TypeOK, History
  <2> QED
    BY <1>1, <2>1, <2>2, <2>3, TypeBy, IdleShape DEF TypeInv, TypeOK, out, History
<1> QED
  BY <1>2, <1>3 DEF CreateUpsert

LEMMA SendCommitType ==
  ASSUME TypeInv, NEW r \in Requests, convo \in Convo, SendCommit(r)
  PROVE  TypeInv'
<1> DEFINE q    == req[r]
           base == NewCall("announce", q.user, None, q.mid)
           call == [base EXCEPT !.snap = q.snap]
           m    == [id |-> q.mid, conv |-> q.conv, cid |-> q.cid,
                    from |-> q.user, unsent |-> FALSE]
<1>1. /\ q \in Call /\ q.pc = "sendCommit" /\ q.user \in Participants /\ q.mid \in MsgRefs
  BY CallFields DEF SendCommit, Pcs, TxnPcs
<1>2. /\ q.snap \in Convo /\ q.conv = q.snap.id /\ q.cid \in Cids
      /\ q.mid \in MsgIds /\ q.mid < nextMsg
  BY <1>1 DEF TypeInv, CallShape, Shape, TxnPcs, SendPcs, DraftPcs
<1>3. base \in Call /\ base.pc = "announce" /\ base.mid = q.mid /\ base.conv = 0
  BY <1>1, NewCallType DEF Pcs, NewCall
<1>4. GotoWriting(r, call) /\ UNCHANGED <<blockedBy, nextMsg, nextConv, out>>
  BY DEF SendCommit
<1>5. convo' = Recorded(q.snap, q.mid, q.user) /\ msgs' = msgs \cup {m}
  BY DEF SendCommit
<1>6. hist' = [hist EXCEPT !.silenced[q.mid] = convo.mutedBy]
  BY DEF SendCommit
<1>7. m \in Message
  BY <1>1, <1>2 DEF Message, Convo
<1> HIDE DEF q, base, m
<1>8. call \in Call /\ call.pc = "announce" /\ call.snap = q.snap /\ call.mid = q.mid /\ call.conv = 0
  BY <1>2, <1>3 DEF Call
<1>9. convo' \in Convo
  BY <1>1, <1>2, <1>5, ConvoTypes
<1>10. hist' \in History
  <2>1. convo.mutedBy \in SUBSET Participants /\ hist \in History
    BY DEF Convo, TypeInv, TypeOK, History
  <2>2. hist' = [hist EXCEPT !.silenced = [hist.silenced EXCEPT ![q.mid] = convo.mutedBy]]
    BY <1>6, <2>1 DEF History
  <2>3. [hist.silenced EXCEPT ![q.mid] = convo.mutedBy] \in [MsgIds -> SUBSET Participants]
    BY <2>1, <1>2 DEF History
  <2> QED
    BY <2>1, <2>2, <2>3 DEF History
<1> HIDE DEF call
<1>11. 0 < nextConv' /\ nextMsg <= nextMsg' /\ nextConv <= nextConv'
  BY <1>4, BoundsAssumption DEF TypeInv, TypeOK
<1> QED
  BY <1>2, <1>4, <1>5, <1>7, <1>8, <1>9, <1>10, <1>11, TypeBy
     DEF TypeInv, TypeOK, out, History, TxnPcs, SendPcs, DraftPcs, TargetPcs, Shape

LEMMA HideCommitType ==
  ASSUME TypeInv, NEW r \in Requests, HideCommit(r)
  PROVE  TypeInv'
<1> DEFINE q == req[r]
           c == Hidden(q.snap, q.user)
<1>1. /\ q \in Call /\ q.pc = "hideCommit" /\ q.user \in Participants
  BY CallFields DEF HideCommit, Pcs, TxnPcs
<1>2. q.snap \in Convo
  BY <1>1 DEF TypeInv, CallShape, Shape, TxnPcs
<1>3. c \in Convo
  BY <1>1, <1>2, ConvoTypes
<1>4. convo' \in Convo \cup {None} /\ msgs' \subseteq Message
  BY <1>3 DEF HideCommit, Purged, TypeInv, TypeOK
<1>5. GotoWriting(r, Idle) /\ UNCHANGED <<blockedBy, nextMsg, nextConv, out>>
  BY DEF HideCommit
<1>6. hist' \in History
  <2> DEFINE ids == {m.id : m \in msgs}
  <2>1. ids \in SUBSET MsgIds
    BY DEF TypeInv, TypeOK, Message
  <2>2. nextMsg - 1 \in MsgRefs
    BY BoundsAssumption DEF TypeInv, TypeOK, MsgRefs
  <2>3. hist' = [hist EXCEPT !.discarded[q.user] = hist.discarded[q.user] \cup ids,
                             !.resetAt[q.user]   = nextMsg - 1]
    BY DEF HideCommit
  <2> HIDE DEF q, ids
  <2>4. PICK k \in MsgRefs : k = nextMsg - 1
    BY <2>2
  <2>5. PICK d \in [Participants -> SUBSET MsgIds] :
          d = [hist.discarded EXCEPT ![q.user] = hist.discarded[q.user] \cup ids]
    BY <2>1, <1>1 DEF TypeInv, TypeOK, History
  <2>6. PICK a \in [Participants -> MsgRefs] : a = [hist.resetAt EXCEPT ![q.user] = k]
    BY <2>4, <1>1 DEF TypeInv, TypeOK, History
  <2>7. hist' = [hist EXCEPT !.discarded = d, !.resetAt = a]
    BY <2>3, <2>4, <2>5, <2>6 DEF TypeInv, TypeOK, History
  <2> QED
    BY <2>5, <2>6, <2>7 DEF TypeInv, TypeOK, History
<1> QED
  BY <1>4, <1>5, <1>6, TypeBy, IdleShape DEF TypeInv, TypeOK, out

(* An unsend moves on.                                                     *)
LEMMA UnsendMoves ==
  ASSUME TypeInv, NEW r \in Requests, req[r].pc \in TargetPcs,
         NEW pc \in TargetPcs \ {"unsendLoad", "unsendMark"},
         NEW s \in Convo \cup {None}, NEW l \in Preview
  PROVE  LET call == [req[r] EXCEPT !.pc = pc, !.snap = s, !.latest = l] IN
         /\ call \in Call /\ call.pc = pc
         /\ call.mid = req[r].mid /\ call.conv = req[r].conv
         /\ call.user = req[r].user /\ call.latest = l
         /\ Shape(call, nextMsg, nextConv)
<1> DEFINE call == [req[r] EXCEPT !.pc = pc, !.snap = s, !.latest = l]
<1>1. req[r] \in Call
  BY CallFields DEF Pcs, TargetPcs
<1>2. /\ call \in Call /\ call.pc = pc
      /\ call.mid = req[r].mid /\ call.conv = req[r].conv
      /\ call.user = req[r].user /\ call.latest = l
  BY <1>1 DEF Call, Pcs, TargetPcs
<1>3. req[r].mid \in MsgIds /\ req[r].mid < nextMsg /\ req[r].conv < nextConv
  BY DEF TypeInv, CallShape, Shape, TargetPcs
<1> HIDE DEF call
<1>4. Shape(call, nextMsg, nextConv)
  BY <1>2, <1>3 DEF Shape, TxnPcs, SendPcs, DraftPcs, TargetPcs
<1> QED
  BY <1>2, <1>4 DEF call

LEMMA UnsendTypes ==
  ASSUME TypeInv, NEW r \in Requests
  PROVE  /\ UnsendLoad(r) => TypeInv'
         /\ UnsendMark(r) => TypeInv'
         /\ UnsendLatest(r) => TypeInv'
         /\ UnsendRewrite(r) => TypeInv'
         /\ UnsendEmit(r) => TypeInv'
<1> DEFINE q == req[r]
<1>1. ASSUME UnsendLoad(r) PROVE TypeInv'
  <2> DEFINE call == [q EXCEPT !.pc = "unsendMark"]
  <2>1. q \in Call /\ q.pc = "unsendLoad"
    BY <1>1, CallFields DEF UnsendLoad, Pcs, TxnPcs
  <2>2. /\ q.mid \in MsgIds /\ q.mid < nextMsg /\ q.snap \in Convo /\ q.conv < nextConv
    BY <2>1 DEF TypeInv, CallShape, Shape, TargetPcs
  <2>3. /\ call \in Call /\ call.pc = "unsendMark" /\ call.mid = q.mid
        /\ call.snap = q.snap /\ call.conv = q.conv
    BY <2>1 DEF Call, Pcs
  <2>4. (Goto(r, call) \/ Goto(r, Idle)) /\ UNCHANGED <<db, out, hist>>
    BY <1>1 DEF UnsendLoad
  <2> HIDE DEF call, q
  <2>5. Shape(call, nextMsg, nextConv)
    BY <2>2, <2>3 DEF Shape, TxnPcs, SendPcs, DraftPcs, TargetPcs
  <2>6. CASE Goto(r, call)
    BY <2>3, <2>4, <2>5, <2>6, TypeBy DEF TypeInv, TypeOK, db, out
  <2> QED
    BY <2>4, <2>6, EndType
<1>2. ASSUME UnsendMark(r) PROVE TypeInv'
  <2>1. q \in Call /\ q.pc = "unsendMark" /\ q.latest \in Preview
    BY <1>2, CallFields DEF UnsendMark, Pcs, TxnPcs
  <2>2. PICK pc \in {"unsendLatest", "unsendEmit"} : Goto(r, [q EXCEPT !.pc = pc, !.snap = None])
    BY <1>2 DEF UnsendMark
  <2> DEFINE call == [q EXCEPT !.pc = pc, !.snap = None, !.latest = q.latest]
  <2>3. call \in Call /\ Shape(call, nextMsg, nextConv)
    BY <2>1, UnsendMoves DEF TargetPcs
  <2>4. [q EXCEPT !.pc = pc, !.snap = None] = call
    BY <2>1 DEF Call
  <2>5. Goto(r, call)
    BY <2>2, <2>4
  <2>6. /\ msgs' \subseteq Message
        /\ UNCHANGED <<convo, blockedBy, nextMsg, nextConv, out, hist>>
    BY <1>2, TombstoneKeeps DEF UnsendMark, TypeInv, TypeOK
  <2> HIDE DEF call, q
  <2> QED
    BY <2>3, <2>5, <2>6, TypeBy DEF TypeInv, TypeOK, out
<1>3. ASSUME UnsendLatest(r) PROVE TypeInv'
  <2>1. q \in Call /\ q.pc = "unsendLatest" /\ q.latest \in Preview /\ q.snap \in Convo \cup {None}
    BY <1>3, CallFields DEF UnsendLatest, Pcs, TxnPcs, Call
  <2>2. PICK pc \in {"unsendEmit", "unsendRewrite"}, l \in Preview :
          Goto(r, [q EXCEPT !.pc = pc, !.latest = l])
    <3>1. CASE Goto(r, [q EXCEPT !.pc = "unsendEmit"])
      <4>1. [q EXCEPT !.pc = "unsendEmit"] = [q EXCEPT !.pc = "unsendEmit", !.latest = q.latest]
        BY <2>1 DEF Call
      <4> QED
        BY <2>1, <3>1, <4>1
    <3>2. ASSUME NEW m \in msgs, Goto(r, [q EXCEPT !.pc = "unsendRewrite", !.latest = PreviewOf(m)])
          PROVE  \E l \in Preview : Goto(r, [q EXCEPT !.pc = "unsendRewrite", !.latest = l])
      <4>1. PreviewOf(m) \in Preview
        BY BoundsAssumption DEF PreviewOf, Preview, TypeInv, TypeOK, Message, MsgIds, MsgRefs
      <4> QED
        BY <3>2, <4>1
    <3> QED
      BY <1>3, <3>1, <3>2 DEF UnsendLatest
  <2> DEFINE call == [q EXCEPT !.pc = pc, !.snap = q.snap, !.latest = l]
  <2>3. call \in Call /\ Shape(call, nextMsg, nextConv)
    BY <2>1, UnsendMoves DEF TargetPcs
  <2>4. [q EXCEPT !.pc = pc, !.latest = l] = call
    BY <2>1 DEF Call
  <2>5. Goto(r, call)
    BY <2>2, <2>4
  <2>6. UNCHANGED <<db, out, hist>>
    BY <1>3 DEF UnsendLatest
  <2> HIDE DEF call, q
  <2> QED
    BY <2>3, <2>5, <2>6, TypeBy DEF TypeInv, TypeOK, db, out
<1>4. ASSUME UnsendRewrite(r) PROVE TypeInv'
  <2>1. q \in Call /\ q.pc = "unsendRewrite" /\ q.latest \in Preview /\ q.snap \in Convo \cup {None}
    BY <1>4, CallFields DEF UnsendRewrite, Pcs, TxnPcs, Call
  <2> DEFINE call == [q EXCEPT !.pc = "unsendEmit", !.snap = q.snap, !.latest = q.latest]
  <2>3. call \in Call /\ Shape(call, nextMsg, nextConv)
    BY <2>1, UnsendMoves DEF TargetPcs
  <2>4. [q EXCEPT !.pc = "unsendEmit"] = call
    BY <2>1 DEF Call
  <2>5. Goto(r, call) \/ GotoWriting(r, call)
    BY <1>4, <2>4 DEF UnsendRewrite
  <2>6. UNCHANGED <<msgs, blockedBy, nextMsg, nextConv, out, hist>>
    BY <1>4 DEF UnsendRewrite
  <2>7. convo' \in Convo \cup {None}
    <3>1. CASE UNCHANGED convo
      BY <3>1 DEF TypeInv, TypeOK
    <3>2. CASE HasConvo(q.conv) /\ convo' = [convo EXCEPT !.lastMessage = q.latest]
      <4>1. convo \in Convo
        BY <3>2 DEF HasConvo, TypeInv, TypeOK
      <4> QED
        BY <2>1, <3>2, <4>1, UpdateTypes
    <3> QED
      BY <1>4, <3>1, <3>2 DEF UnsendRewrite
  <2> HIDE DEF call, q
  <2> QED
    BY <2>3, <2>5, <2>6, <2>7, TypeBy DEF TypeInv, TypeOK, out
<1>5. ASSUME UnsendEmit(r) PROVE TypeInv'
  <2>1. q.pc = "unsendEmit"
    BY <1>5 DEF UnsendEmit
  <2>2. q.mid \in MsgIds
    BY <2>1 DEF TypeInv, CallShape, Shape, TargetPcs
  <2>3. retracted' \subseteq MsgIds
    BY <1>5, <2>2 DEF UnsendEmit, TypeInv, TypeOK
  <2> QED
    BY <1>5, <2>3, TypeBy, IdleShape DEF UnsendEmit, TypeInv, TypeOK, db
<1> QED
  BY <1>1, <1>2, <1>3, <1>4, <1>5

(* The steps that end a request and move one variable.                     *)
LEMMA LastStepTypes ==
  ASSUME TypeInv, NEW r \in Requests
  PROVE  /\ Announce(r) => TypeInv'
         /\ ReadApply(r) => TypeInv'
         /\ MuteApply(r) => TypeInv'
         /\ Fail(r) => TypeInv'
<1> DEFINE q == req[r]
<1>1. ASSUME Announce(r) PROVE TypeInv'
  <2>1. q.pc = "announce" /\ q.user \in Participants
    BY <1>1, CallFields DEF Announce, Pcs
  <2>2. q.mid \in MsgIds
    BY <2>1 DEF TypeInv, CallShape, Shape, DraftPcs
  <2>3. announced' \in [MsgIds -> Nat]
    BY <1>1, <2>2 DEF Announce, TypeInv, TypeOK
  <2>4. pushed' \in [MsgIds -> SUBSET Participants]
    BY <1>1, <2>2 DEF Announce, Others, TypeInv, TypeOK
  <2> QED
    BY <1>1, <2>3, <2>4, TypeBy, IdleShape DEF Announce, TypeInv, TypeOK, db
<1>2. ASSUME ReadApply(r) PROVE TypeInv'
  <2>1. q.pc = "read" /\ q.user \in Participants /\ q.mid \in MsgRefs
    BY <1>2, CallFields DEF ReadApply, Pcs
  <2>2. CASE Goto(r, Idle) /\ UNCHANGED <<convo, hist>>
    BY <1>2, <2>2, EndType DEF ReadApply, db
  <2>3. CASE /\ HasConvo(q.conv) /\ GotoWriting(r, Idle)
             /\ convo' = [convo EXCEPT !.unreadCounts[q.user] = 0]
             /\ hist' = [hist EXCEPT !.resetAt[q.user] = nextMsg - 1]
    <3>1. convo' \in Convo
      BY <2>1, <2>3, UpdateTypes DEF HasConvo, TypeInv, TypeOK
    <3>2. nextMsg - 1 \in MsgRefs
      BY BoundsAssumption DEF TypeInv, TypeOK, MsgRefs
    <3>3. hist' \in History
      BY <2>1, <2>3, <3>2 DEF TypeInv, TypeOK, History
    <3> QED
      BY <1>2, <2>3, <3>1, <3>3, TypeBy, IdleShape DEF ReadApply, TypeInv, TypeOK, out
  <2> QED
    BY <1>2, <2>2, <2>3 DEF ReadApply
<1>3. ASSUME MuteApply(r) PROVE TypeInv'
  <2>1. q.pc = "mute" /\ q.user \in Participants
    BY <1>3, CallFields DEF MuteApply, Pcs
  <2>2. CASE Goto(r, Idle) /\ UNCHANGED convo
    BY <1>3, <2>2, EndType DEF MuteApply, db
  <2>3. CASE /\ HasConvo(q.conv) /\ GotoWriting(r, Idle)
             /\ convo' = [convo EXCEPT !.mutedBy = IF q.on THEN convo.mutedBy \cup {q.user}
                                                   ELSE convo.mutedBy \ {q.user}]
    <3> DEFINE ms == IF q.on THEN convo.mutedBy \cup {q.user} ELSE convo.mutedBy \ {q.user}
    <3>1. convo \in Convo
      BY <2>3 DEF HasConvo, TypeInv, TypeOK
    <3>2. ms \in SUBSET Participants /\ convo' = [convo EXCEPT !.mutedBy = ms]
      BY <2>1, <2>3, <3>1 DEF Convo
    <3> HIDE DEF ms
    <3>3. convo' \in Convo
      BY <3>1, <3>2, UpdateTypes
    <3>4. /\ GotoWriting(r, Idle)
          /\ UNCHANGED <<msgs, blockedBy, nextMsg, nextConv, out, hist>>
      BY <1>3, <2>3 DEF MuteApply
    <3> QED
      BY <3>3, <3>4, TypeBy, IdleShape DEF TypeInv, TypeOK, out
  <2> QED
    BY <1>3, <2>2, <2>3 DEF MuteApply
<1>4. ASSUME Fail(r) PROVE TypeInv'
  BY <1>4, EndType DEF Fail
<1> QED
  BY <1>1, <1>2, <1>3, <1>4

LEMMA BlockType ==
  ASSUME TypeInv, NEW u \in Participants, Block(u) \/ Unblock(u)
  PROVE  TypeInv'
<1>1. /\ blockedBy' \subseteq Participants
      /\ UNCHANGED <<convo, msgs, nextMsg, nextConv, req, announced, retracted, pushed>>
  BY DEF Block, Unblock, TypeInv, TypeOK, out
<1>2. hist' \in History
  BY DEF Block, Unblock, TypeInv, TypeOK, History
<1>3. TypeOK'
  BY <1>1, <1>2 DEF TypeInv, TypeOK
<1>4. CallShape'
  BY <1>1 DEF TypeInv, CallShape, Shape
<1> QED
  BY <1>3, <1>4 DEF TypeInv

-----------------------------------------------------------------------------
(* Stored messages and their conversation.                                 *)

(* The part of IInv that these two properties rest on.                     *)
CoreInv ==
  /\ TypeInv
  /\ SnapshotCurrent
  /\ FreshIds
  /\ FreshConvo
  /\ NoOrphans
  /\ UniqueCid

(***************************************************************************)
(* What a step leaves of the other requests.                               *)
(***************************************************************************)
LEMMA OthersAfter ==
  ASSUME TypeInv, NEW r \in Requests, NEW call,
         Goto(r, call) \/ GotoWriting(r, call)
  PROVE  /\ req'[r] = call
         /\ \A q \in Requests \ {r} :
              \/ req'[q] = req[q]
              \/ /\ req[q].pc \in TxnPcs /\ req'[q].stale
                 /\ req'[q].pc = req[q].pc /\ req'[q].mid = req[q].mid
                 /\ req'[q].dup = req[q].dup /\ req'[q].snap = req[q].snap
         /\ GotoWriting(r, call) =>
              \A q \in Requests \ {r} : req'[q].pc \in TxnPcs => req'[q].stale
<1>1. req'[r] = call
  BY DEF Goto, GotoWriting, TypeInv, TypeOK
<1>2. CASE Goto(r, call) /\ ~GotoWriting(r, call)
  BY <1>1, <1>2 DEF Goto, TypeInv, TypeOK
<1>3. CASE GotoWriting(r, call)
  <2>1. ASSUME NEW q \in Requests \ {r}
        PROVE  \/ ~InTxn(q) /\ req'[q] = req[q]
               \/ /\ InTxn(q) /\ req'[q].stale
                  /\ req'[q].pc = req[q].pc /\ req'[q].mid = req[q].mid
                  /\ req'[q].dup = req[q].dup /\ req'[q].snap = req[q].snap
    <3>1. CASE ~InTxn(q)
      BY <1>3, <3>1 DEF GotoWriting
    <3>2. CASE InTxn(q)
      <4>1. req[q] \in Call
        BY <3>2, CallFields DEF InTxn, Pcs
      <4>2. req'[q] = [req[q] EXCEPT !.stale = TRUE]
        BY <1>3, <3>2 DEF GotoWriting
      <4> QED
        BY <3>2, <4>1, <4>2 DEF Call
    <3> QED
      BY <3>1, <3>2
  <2> QED
    BY <1>1, <2>1 DEF InTxn
<1> QED
  BY <1>2, <1>3

(* A write to the conversation document leaves no open transaction with a  *)
(* snapshot that could still commit.                                       *)
LEMMA CurrentAfterWrite ==
  ASSUME TypeInv, NEW r \in Requests, NEW call,
         GotoWriting(r, call), call.pc \notin TxnPcs
  PROVE  SnapshotCurrent'
BY OthersAfter DEF SnapshotCurrent, Current

LEMMA CurrentAfterRead ==
  ASSUME TypeInv, SnapshotCurrent, NEW r \in Requests, NEW call, Goto(r, call),
         Current(call, convo, msgs), UNCHANGED convo,
         \A m \in msgs' : \E n \in msgs : n.conv = m.conv /\ n.cid = m.cid
  PROVE  SnapshotCurrent'
<1> SUFFICES ASSUME NEW q \in Requests PROVE Current(req'[q], convo', msgs')
  BY DEF SnapshotCurrent
<1>1. req'[q] = IF q = r THEN call ELSE req[q]
  BY DEF Goto, TypeInv, TypeOK
<1>2. Current(req'[q], convo, msgs)
  BY <1>1 DEF SnapshotCurrent
<1> QED
  BY <1>2 DEF Current

(* Ids stay fresh when no message is stored and a new draft has a new id.  *)
LEMMA FreshAfter ==
  ASSUME TypeInv, FreshIds, NEW r \in Requests, NEW call,
         Goto(r, call) \/ GotoWriting(r, call),
         nextMsg <= nextMsg', nextMsg' \in Nat,
         \A m \in msgs' : \E n \in msgs : n.id = m.id,
         \A m, n \in msgs' : m.id = n.id => m = n,
         call.pc \in DraftPcs =>
           \A s \in Requests \ {r} : req[s].pc \in DraftPcs => req[s].mid # call.mid,
         call.pc = "sendCommit" =>
           call.dup = 0 /\ (~call.stale => \A m \in msgs : m.id < call.mid)
  PROVE  FreshIds'
<1>1. \A m \in msgs' : m.id < nextMsg'
  BY BoundsAssumption DEF FreshIds, TypeInv, TypeOK, Message, MsgIds
<1>2. \A q \in Requests \ {r} : req'[q].pc = req[q].pc /\ (req[q].pc \in DraftPcs => req'[q].mid = req[q].mid)
  BY OthersAfter
<1>3. ASSUME NEW q \in Requests, NEW s \in Requests,
             req'[q].pc \in DraftPcs, req'[s].pc \in DraftPcs, req'[q].mid = req'[s].mid
      PROVE  q = s
  BY <1>2, <1>3, OthersAfter DEF FreshIds
<1>4. ASSUME NEW q \in Requests, req'[q].pc = "sendCommit"
      PROVE  /\ req'[q].dup = 0
             /\ ~req'[q].stale => \A m \in msgs' : m.id < req'[q].mid
  <2>1. CASE q = r
    BY <1>4, <2>1, OthersAfter
  <2>2. CASE q # r
    BY <1>4, <2>2, OthersAfter DEF FreshIds
  <2> QED
    BY <2>1, <2>2
<1> QED
  BY <1>1, <1>3, <1>4 DEF FreshIds

(* A step that only moves its own request to a stage outside transactions. *)
LEMMA QuietStep ==
  ASSUME CoreInv, TypeInv', NEW r \in Requests, NEW call, Goto(r, call),
         call.pc \notin TxnPcs \cup DraftPcs,
         UNCHANGED <<convo, msgs, nextMsg, nextConv>>
  PROVE  CoreInv'
<1>1. SnapshotCurrent'
  BY CurrentAfterRead DEF CoreInv, Current
<1>2. FreshIds'
  BY FreshAfter DEF CoreInv, FreshIds, TypeInv, TypeOK, TxnPcs
<1>3. FreshConvo' /\ NoOrphans' /\ UniqueCid'
  BY DEF CoreInv, FreshConvo, NoOrphans, HasConvo, UniqueCid
<1> QED
  BY <1>1, <1>2, <1>3 DEF CoreInv

(* An update of the conversation document in place.                        *)
LEMMA UpdateStep ==
  ASSUME CoreInv, TypeInv', NEW r \in Requests, NEW call, GotoWriting(r, call),
         call.pc \notin TxnPcs \cup DraftPcs,
         convo # None, convo' # None, convo'.id = convo.id,
         UNCHANGED <<msgs, nextMsg, nextConv>>
  PROVE  CoreInv'
<1>1. SnapshotCurrent'
  BY CurrentAfterWrite DEF CoreInv
<1>2. FreshIds'
  BY FreshAfter DEF CoreInv, FreshIds, TypeInv, TypeOK, TxnPcs
<1>3. FreshConvo' /\ NoOrphans' /\ UniqueCid'
  BY DEF CoreInv, FreshConvo, NoOrphans, HasConvo, UniqueCid
<1> QED
  BY <1>1, <1>2, <1>3 DEF CoreInv

(***************************************************************************)
(* One lemma per operation.                                                *)
(***************************************************************************)
LEMMA CreateSafe ==
  ASSUME CoreInv, NEW r \in Requests
  PROVE  /\ \A u \in Participants : CreateBegin(r, u) => CoreInv'
         /\ CreateUpsert(r) => CoreInv'
<1>1. ASSUME NEW u \in Participants, CreateBegin(r, u) PROVE CoreInv'
  <2> DEFINE call == NewCall("create", u, None, 0)
  <2>1. call.pc = "create"
    BY DEF NewCall
  <2>2. Goto(r, call) /\ UNCHANGED <<convo, msgs, nextMsg, nextConv>>
    BY <1>1 DEF CreateBegin, db
  <2>3. TypeInv'
    BY <1>1, BeginType DEF CoreInv
  <2> HIDE DEF call
  <2> QED
    BY <2>1, <2>2, <2>3, QuietStep DEF TxnPcs, DraftPcs
<1>2. ASSUME CreateUpsert(r) PROVE CoreInv'
  <2>1. TypeInv' /\ GotoWriting(r, Idle) /\ UNCHANGED <<msgs, nextMsg>>
    BY <1>2, CreateType DEF CoreInv, CreateUpsert
  <2>2. CASE convo # None /\ UNCHANGED <<convo, nextConv, hist>>
    BY <2>1, <2>2, UpdateStep, IdleShape
  <2>3. CASE convo = None /\ nextConv <= MaxConv /\ convo' = NewConvo(nextConv) /\ nextConv' = nextConv + 1
    <3>1. msgs = {}
      BY <2>3 DEF CoreInv, NoOrphans, HasConvo
    <3>2. SnapshotCurrent'
      BY <2>1, CurrentAfterWrite, IdleShape DEF CoreInv
    <3>3. FreshIds'
      BY <2>1, FreshAfter, IdleShape DEF CoreInv, FreshIds, TypeInv, TypeOK
    <3>4. FreshConvo'
      BY <2>3, ConvoTypes, BoundsAssumption DEF CoreInv, FreshConvo, TypeInv, TypeOK, ConvIds
    <3>5. NoOrphans' /\ UniqueCid'
      BY <2>1, <3>1 DEF NoOrphans, UniqueCid
    <3> QED
      BY <2>1, <3>2, <3>3, <3>4, <3>5 DEF CoreInv
  <2> QED
    BY <1>2, <2>2, <2>3 DEF CreateUpsert
<1> QED
  BY <1>1, <1>2

LEMMA AttemptSafe ==
  ASSUME CoreInv, NEW r \in Requests, NEW u \in Participants, NEW c \in Cids,
         NEW id, HasConvo(id), SendAttempt(r, u, id, c), UNCHANGED <<db, out>>
  PROVE  CoreInv'
<1> DEFINE call == [NewCall("sendCheck", u, c, 0) EXCEPT
                      !.conv = id, !.snap = convo, !.dup = Dup(id, c)]
<1>1. /\ call.pc = "sendCheck" /\ call.snap = convo /\ call.conv = id
      /\ call.cid = c /\ call.dup = Dup(id, c)
  BY DEF NewCall
<1>2. Goto(r, call) /\ UNCHANGED <<convo, msgs, nextMsg, nextConv>>
  BY DEF SendAttempt, db
<1> HIDE DEF call
<1>3. TypeInv'
  BY AttemptType DEF CoreInv
<1>4. Current(call, convo, msgs)
  BY <1>1, DupType DEF Current, CoreInv, TypeInv
<1>5. SnapshotCurrent'
  BY <1>2, <1>4, CurrentAfterRead DEF CoreInv
<1>6. FreshIds'
  BY <1>1, <1>2, FreshAfter DEF CoreInv, FreshIds, TypeInv, TypeOK, DraftPcs
<1>7. FreshConvo' /\ NoOrphans' /\ UniqueCid'
  BY <1>2 DEF CoreInv, FreshConvo, NoOrphans, HasConvo, UniqueCid
<1> QED
  BY <1>3, <1>5, <1>6, <1>7 DEF CoreInv

LEMMA SendBeginSafe ==
  ASSUME CoreInv, NEW r \in Requests, NEW u \in Participants, NEW c \in Cids,
         SendBegin(r, u, c)
  PROVE  CoreInv'
BY AttemptSafe DEF SendBegin, HasConvo

LEMMA SendCheckSafe ==
  ASSUME CoreInv, NEW r \in Requests, SendCheckBlock(r)
  PROVE  CoreInv'
<1> DEFINE call == [req[r] EXCEPT !.pc = "sendAppend"]
<1>1. TypeInv' /\ UNCHANGED <<convo, msgs, nextMsg, nextConv>>
  BY SendStepsType DEF CoreInv, SendCheckBlock, db
<1>2. CASE Goto(r, Idle)
  BY <1>1, <1>2, QuietStep, IdleShape
<1>3. CASE Goto(r, call)
  <2>1. req[r] \in Call /\ req[r].pc = "sendCheck"
    BY CallFields DEF CoreInv, SendCheckBlock, Pcs, TxnPcs
  <2>2. /\ call.pc = "sendAppend" /\ call.snap = req[r].snap /\ call.dup = req[r].dup
        /\ call.conv = req[r].conv /\ call.cid = req[r].cid /\ call.stale = req[r].stale
    BY <2>1 DEF Call
  <2> HIDE DEF call
  <2>3. Current(req[r], convo, msgs)
    BY DEF CoreInv, SnapshotCurrent
  <2>4. Current(call, convo, msgs)
    BY <2>1, <2>2, <2>3 DEF Current, TxnPcs, SendPcs
  <2>5. SnapshotCurrent'
    BY <1>1, <1>3, <2>4, CurrentAfterRead DEF CoreInv
  <2>6. FreshIds'
    BY <1>1, <1>3, <2>2, FreshAfter DEF CoreInv, FreshIds, TypeInv, TypeOK, DraftPcs
  <2>7. FreshConvo' /\ NoOrphans' /\ UniqueCid'
    BY <1>1 DEF CoreInv, FreshConvo, NoOrphans, HasConvo, UniqueCid
  <2> QED
    BY <1>1, <2>5, <2>6, <2>7 DEF CoreInv
<1> QED
  BY <1>2, <1>3 DEF SendCheckBlock

LEMMA SendAppendSafe ==
  ASSUME CoreInv, NEW r \in Requests, SendAppend(r)
  PROVE  CoreInv'
<1> DEFINE call == [req[r] EXCEPT !.pc = "sendCommit", !.mid = nextMsg]
<1>1. TypeInv' /\ UNCHANGED <<convo, msgs, nextConv>>
  BY SendStepsType DEF CoreInv, SendAppend
<1>2. CASE Goto(r, Idle) /\ UNCHANGED nextMsg
  BY <1>1, <1>2, QuietStep, IdleShape
<1>3. CASE req[r].dup = 0 /\ nextMsg' = nextMsg + 1 /\ Goto(r, call)
  <2>1. req[r] \in Call /\ req[r].pc = "sendAppend" /\ nextMsg \in Nat
    BY CallFields, BoundsAssumption DEF CoreInv, SendAppend, Pcs, TxnPcs, TypeInv, TypeOK
  <2>2. /\ call.pc = "sendCommit" /\ call.mid = nextMsg
        /\ call.snap = req[r].snap /\ call.dup = req[r].dup
        /\ call.conv = req[r].conv /\ call.cid = req[r].cid /\ call.stale = req[r].stale
    BY <2>1 DEF Call
  <2> HIDE DEF call
  <2>3. Current(req[r], convo, msgs)
    BY DEF CoreInv, SnapshotCurrent
  <2>4. Current(call, convo, msgs)
    BY <2>1, <2>2, <2>3 DEF Current, TxnPcs, SendPcs
  <2>5. SnapshotCurrent'
    BY <1>1, <1>3, <2>4, CurrentAfterRead DEF CoreInv
  <2>6. \A s \in Requests \ {r} : req[s].pc \in DraftPcs => req[s].mid # call.mid
    BY <2>1, <2>2 DEF CoreInv, TypeInv, CallShape, Shape, MsgIds
  <2>7. FreshIds'
    <3>1. nextMsg <= nextMsg' /\ nextMsg' \in Nat
      BY <1>3, <2>1
    <3> QED
      BY <1>1, <1>3, <2>2, <2>6, <3>1, FreshAfter DEF CoreInv, FreshIds
  <2>8. FreshConvo' /\ NoOrphans' /\ UniqueCid'
    BY <1>1 DEF CoreInv, FreshConvo, NoOrphans, HasConvo, UniqueCid
  <2> QED
    BY <1>1, <2>5, <2>7, <2>8 DEF CoreInv
<1> QED
  BY <1>2, <1>3 DEF SendAppend, Deduped

(* The commit of a send: its snapshot is the current document, its id is   *)
(* the newest and its clientMessageId is still unknown.                    *)
LEMMA SendCommitSafe ==
  ASSUME CoreInv, NEW r \in Requests, SendCommit(r)
  PROVE  CoreInv'
<1> DEFINE q    == req[r]
           base == NewCall("announce", q.user, None, q.mid)
           call == [base EXCEPT !.snap = q.snap]
           m    == [id |-> q.mid, conv |-> q.conv, cid |-> q.cid,
                    from |-> q.user, unsent |-> FALSE]
<1>1. /\ q.pc = "sendCommit" /\ ~q.stale /\ q.dup = 0
      /\ q.user \in Participants /\ q.mid \in MsgIds /\ q.mid < nextMsg
      /\ q.snap \in Convo /\ q.conv = q.snap.id
  <2>1. q.pc = "sendCommit" /\ ~q.stale
    BY DEF SendCommit, MayCommit
  <2>2. q.dup = 0
    BY <2>1 DEF CoreInv, FreshIds
  <2>3. q.user \in Participants
    BY <2>1, CallFields DEF CoreInv, Pcs, TxnPcs
  <2>4. Shape(q, nextMsg, nextConv)
    BY DEF CoreInv, TypeInv, CallShape
  <2> QED
    BY <2>1, <2>2, <2>3, <2>4 DEF Shape, TxnPcs, DraftPcs
<1>2. q.snap = convo /\ \A n \in msgs : ~(n.conv = q.conv /\ n.cid = q.cid)
  BY <1>1 DEF CoreInv, SnapshotCurrent, Current, TxnPcs, SendPcs
<1>3. \A n \in msgs : n.id < q.mid
  BY <1>1 DEF CoreInv, FreshIds
<1>4. /\ GotoWriting(r, call) /\ UNCHANGED <<nextMsg, nextConv>>
      /\ msgs' = msgs \cup {m} /\ convo' = Recorded(q.snap, q.mid, q.user)
  BY DEF SendCommit
<1>5. call.pc = "announce" /\ call.mid = q.mid
  BY DEF NewCall
<1>6. m.id = q.mid /\ m.conv = q.conv /\ m.cid = q.cid
  OBVIOUS
<1>7. convo' # None /\ convo'.id = convo.id
  <2>1. q.mid \in MsgRefs
    BY <1>1, BoundsAssumption DEF MsgIds, MsgRefs
  <2> QED
    BY <1>1, <1>2, <1>4, <2>1, ConvoTypes, NoneAssumption
<1>8. TypeInv'
  BY <1>1, <1>2, SendCommitType DEF CoreInv
<1> HIDE DEF q, base, call, m
<1>9. SnapshotCurrent'
  BY <1>4, <1>5, CurrentAfterWrite DEF CoreInv, TxnPcs
<1>10. FreshIds'
  <2>1. \A n \in msgs' : n.id < nextMsg'
    BY <1>1, <1>4, <1>6 DEF CoreInv, FreshIds
  <2>2. \A n, o \in msgs' : n.id = o.id => n = o
    BY <1>1, <1>3, <1>4, <1>6 DEF CoreInv, FreshIds, TypeInv, TypeOK, Message, MsgIds
  <2>3. ASSUME NEW a \in Requests, NEW b \in Requests,
               req'[a].pc \in DraftPcs, req'[b].pc \in DraftPcs, req'[a].mid = req'[b].mid
        PROVE  a = b
    <3>1. \A s \in Requests : req'[s].pc \in DraftPcs =>
            req[s].pc \in DraftPcs /\ req'[s].mid = req[s].mid
      BY <1>1, <1>4, <1>5, OthersAfter DEF CoreInv, q, DraftPcs
    <3> QED
      BY <2>3, <3>1 DEF CoreInv, FreshIds
  <2>4. ASSUME NEW s \in Requests, req'[s].pc = "sendCommit"
        PROVE  req'[s].dup = 0 /\ req'[s].stale
    BY <1>4, <1>5, <2>4, OthersAfter DEF CoreInv, FreshIds, TxnPcs
  <2> QED
    BY <2>1, <2>2, <2>3, <2>4 DEF FreshIds
<1>11. FreshConvo' /\ NoOrphans'
  <2>1. FreshConvo'
    BY <1>1, <1>2, <1>4, <1>7, NoneAssumption DEF CoreInv, FreshConvo
  <2>2. m.conv = convo.id
    BY <1>1, <1>2, <1>6
  <2>3. ASSUME NEW n \in msgs' PROVE convo' # None /\ convo'.id = n.conv
    BY <1>4, <1>7, <2>2, <2>3 DEF CoreInv, NoOrphans, HasConvo
  <2> QED
    BY <2>1, <2>3 DEF NoOrphans, HasConvo
<1>12. UniqueCid'
  BY <1>2, <1>4, <1>6 DEF CoreInv, UniqueCid
<1> QED
  BY <1>8, <1>9, <1>10, <1>11, <1>12 DEF CoreInv

LEMMA HideAttemptSafe ==
  ASSUME CoreInv, NEW r \in Requests, NEW u \in Participants, NEW id,
         HasConvo(id), HideAttempt(r, u, id), UNCHANGED <<db, out, hist>>
  PROVE  CoreInv'
<1> DEFINE call == [NewCall("hideCommit", u, None, 0) EXCEPT !.conv = id, !.snap = convo]
<1>1. call.pc = "hideCommit" /\ call.snap = convo /\ call.conv = id
  BY DEF NewCall
<1>2. Goto(r, call) /\ UNCHANGED <<convo, msgs, nextMsg, nextConv>>
  BY DEF HideAttempt, db
<1> HIDE DEF call
<1>3. TypeInv'
  BY HideAttemptType DEF CoreInv
<1>4. SnapshotCurrent'
  BY <1>1, <1>2, CurrentAfterRead DEF CoreInv, Current, SendPcs
<1>5. FreshIds'
  BY <1>1, <1>2, FreshAfter DEF CoreInv, FreshIds, TypeInv, TypeOK, DraftPcs
<1>6. FreshConvo' /\ NoOrphans' /\ UniqueCid'
  BY <1>2 DEF CoreInv, FreshConvo, NoOrphans, HasConvo, UniqueCid
<1> QED
  BY <1>3, <1>4, <1>5, <1>6 DEF CoreInv

LEMMA HideBeginSafe ==
  ASSUME CoreInv, NEW r \in Requests, NEW u \in Participants, HideBegin(r, u)
  PROVE  CoreInv'
BY HideAttemptSafe DEF HideBegin, HasConvo

(* The commit of a hide: the document it may delete is the current one, so *)
(* the messages it purges are all there are.                               *)
LEMMA HideCommitSafe ==
  ASSUME CoreInv, NEW r \in Requests, HideCommit(r)
  PROVE  CoreInv'
<1> DEFINE q == req[r]
           c == Hidden(q.snap, q.user)
<1>1. /\ q.pc = "hideCommit" /\ ~q.stale /\ q.user \in Participants
      /\ q.snap \in Convo /\ q.conv = q.snap.id
  <2>1. q.pc = "hideCommit" /\ ~q.stale
    BY DEF HideCommit, MayCommit
  <2>2. q.user \in Participants
    BY <2>1, CallFields DEF CoreInv, Pcs, TxnPcs
  <2>3. Shape(q, nextMsg, nextConv)
    BY DEF CoreInv, TypeInv, CallShape
  <2> QED
    BY <2>1, <2>2, <2>3 DEF Shape, TxnPcs
<1>2. q.snap = convo
  BY <1>1 DEF CoreInv, SnapshotCurrent, Current, TxnPcs
<1>3. GotoWriting(r, Idle) /\ UNCHANGED <<nextMsg, nextConv>>
  BY DEF HideCommit
<1>4. TypeInv'
  BY HideCommitType DEF CoreInv
<1>5. CASE convo' = None /\ msgs' = Purged(msgs, q.conv)
  <2>1. msgs' = {}
    BY <1>1, <1>2, <1>5 DEF CoreInv, NoOrphans, HasConvo, Purged
  <2>2. SnapshotCurrent'
    BY <1>3, CurrentAfterWrite, IdleShape DEF CoreInv
  <2>3. FreshIds'
    BY <1>3, <2>1, FreshAfter, IdleShape DEF CoreInv, TypeInv, TypeOK
  <2>4. FreshConvo' /\ NoOrphans' /\ UniqueCid'
    BY <1>5, <2>1 DEF FreshConvo, NoOrphans, UniqueCid
  <2> QED
    BY <1>4, <2>2, <2>3, <2>4 DEF CoreInv
<1>6. CASE convo' = c /\ UNCHANGED msgs
  <2>1. c \in Convo /\ c.id = convo.id
    BY <1>1, <1>2, ConvoTypes
  <2>2. convo # None /\ convo' # None /\ convo'.id = convo.id
    BY <1>1, <1>2, <1>6, <2>1, NoneAssumption
  <2> QED
    BY <1>3, <1>4, <1>6, <2>2, UpdateStep, IdleShape
<1> QED
  BY <1>5, <1>6 DEF HideCommit

LEMMA TxnRetrySafe ==
  ASSUME CoreInv, NEW r \in Requests, TxnRetry(r)
  PROVE  CoreInv'
<1> DEFINE q == req[r]
<1>1. q.pc \in TxnPcs /\ UNCHANGED <<db, out>>
  BY DEF TxnRetry, InTxn
<1>2. q.user \in Participants /\ (q.pc # "hideCommit" => q.cid \in Cids)
  BY <1>1, CallFields DEF CoreInv, TypeInv, CallShape, Shape, Pcs, TxnPcs, SendPcs
<1>3. CASE HasConvo(q.conv) /\ q.pc # "hideCommit" /\ SendAttempt(r, q.user, q.conv, q.cid)
  BY <1>1, <1>2, <1>3, AttemptSafe
<1>4. CASE HasConvo(q.conv) /\ HideAttempt(r, q.user, q.conv) /\ UNCHANGED hist
  BY <1>1, <1>2, <1>4, HideAttemptSafe
<1>5. CASE Goto(r, Idle) /\ UNCHANGED hist
  <2>1. TypeInv'
    BY <1>1, <1>5, EndType DEF CoreInv
  <2> QED
    BY <1>1, <1>5, <2>1, QuietStep, IdleShape DEF db
<1> QED
  BY <1>3, <1>4, <1>5 DEF TxnRetry

LEMMA UnsendSafe ==
  ASSUME CoreInv, NEW r \in Requests
  PROVE  /\ \A u \in Participants : \A i \in MsgIds : UnsendBegin(r, u, i) => CoreInv'
         /\ UnsendLoad(r) => CoreInv'
         /\ UnsendMark(r) => CoreInv'
         /\ UnsendLatest(r) => CoreInv'
         /\ UnsendRewrite(r) => CoreInv'
         /\ UnsendEmit(r) => CoreInv'
<1> DEFINE q == req[r]
<1>1. ASSUME NEW u \in Participants, NEW i \in MsgIds, UnsendBegin(r, u, i) PROVE CoreInv'
  <2> DEFINE call == [NewCall("unsendLoad", u, None, i) EXCEPT !.conv = convo.id, !.snap = convo]
  <2>1. call.pc = "unsendLoad"
    BY DEF NewCall
  <2>2. Goto(r, call) /\ UNCHANGED <<convo, msgs, nextMsg, nextConv>>
    BY <1>1 DEF UnsendBegin, db
  <2>3. TypeInv'
    BY <1>1, BeginType DEF CoreInv
  <2> HIDE DEF call
  <2> QED
    BY <2>1, <2>2, <2>3, QuietStep DEF TxnPcs, DraftPcs
<1>2. ASSUME UnsendLoad(r) PROVE CoreInv'
  <2> DEFINE call == [q EXCEPT !.pc = "unsendMark"]
  <2>1. q \in Call
    BY <1>2, CallFields DEF CoreInv, UnsendLoad, Pcs, TxnPcs
  <2>2. call.pc = "unsendMark"
    BY <2>1 DEF Call
  <2>3. UNCHANGED <<convo, msgs, nextMsg, nextConv>> /\ (Goto(r, call) \/ Goto(r, Idle))
    BY <1>2 DEF UnsendLoad, db
  <2>4. TypeInv'
    BY <1>2, UnsendTypes DEF CoreInv
  <2> HIDE DEF call
  <2> QED
    BY <2>2, <2>3, <2>4, QuietStep, IdleShape DEF TxnPcs, DraftPcs
<1>3. ASSUME UnsendMark(r) PROVE CoreInv'
  <2>1. q \in Call /\ q.pc = "unsendMark"
    BY <1>3, CallFields DEF CoreInv, UnsendMark, Pcs, TxnPcs
  <2>2. PICK pc \in {"unsendLatest", "unsendEmit"} : Goto(r, [q EXCEPT !.pc = pc, !.snap = None])
    BY <1>3 DEF UnsendMark
  <2>3. PICK call : Goto(r, call) /\ call.pc = pc
    <3>1. [q EXCEPT !.pc = pc, !.snap = None].pc = pc
      BY <2>1 DEF Call
    <3> QED
      BY <2>2, <3>1
  <2>4. UNCHANGED <<convo, nextMsg, nextConv>> /\ msgs' = Tombstone(msgs, q.conv, q.mid)
    BY <1>3 DEF UnsendMark
  <2>5. TypeInv'
    BY <1>3, UnsendTypes DEF CoreInv
  <2>6. msgs \in SUBSET Message
    BY DEF CoreInv, TypeInv, TypeOK
  <2> DEFINE ms == Tombstone(msgs, q.conv, q.mid)
             mark(n) == IF n.id = q.mid /\ n.conv = q.conv
                        THEN [n EXCEPT !.unsent = TRUE] ELSE n
  <2>7. \A m \in msgs' : \E n \in msgs :
          n.id = m.id /\ n.conv = m.conv /\ n.cid = m.cid /\ m = mark(n)
    <3>1. \A m \in ms : \E n \in msgs :
            n.id = m.id /\ n.conv = m.conv /\ n.cid = m.cid /\ m = mark(n)
      <4>1. PICK id, i : id = q.conv /\ i = q.mid
        OBVIOUS
      <4>2. ASSUME NEW m \in Tombstone(msgs, id, i)
            PROVE  \E n \in msgs : /\ n.id = m.id /\ n.conv = m.conv
                                   /\ n.cid = m.cid /\ n.from = m.from
                                   /\ m = IF n.id = i /\ n.conv = id
                                          THEN [n EXCEPT !.unsent = TRUE] ELSE n
        BY <2>6, TombstoneKeeps
      <4> QED
        BY <4>1, <4>2
    <3> HIDE DEF mark
    <3> QED
      BY <2>4, <3>1
  <2> HIDE DEF q, mark
  <2>8. SnapshotCurrent'
    BY <2>3, <2>4, <2>7, CurrentAfterRead DEF CoreInv, Current, TxnPcs
  <2>9. \A m, n \in msgs' : m.id = n.id => m = n
    BY <2>7 DEF CoreInv, FreshIds
  <2>10. FreshIds'
    BY <2>3, <2>4, <2>7, <2>9, FreshAfter DEF CoreInv, TypeInv, TypeOK, DraftPcs
  <2>11. FreshConvo' /\ NoOrphans'
    BY <2>4, <2>7 DEF CoreInv, FreshConvo, NoOrphans, HasConvo
  <2>12. UniqueCid'
    BY <2>7, <2>9 DEF CoreInv, UniqueCid
  <2> QED
    BY <2>5, <2>8, <2>10, <2>11, <2>12 DEF CoreInv
<1>4. ASSUME UnsendLatest(r) PROVE CoreInv'
  <2>1. q \in Call
    BY <1>4, CallFields DEF CoreInv, UnsendLatest, Pcs
  <2>2. \E call : Goto(r, call) /\ call.pc \in {"unsendEmit", "unsendRewrite"}
    <3>1. [q EXCEPT !.pc = "unsendEmit"].pc = "unsendEmit"
      BY <2>1 DEF Call
    <3>2. ASSUME NEW m
          PROVE  [q EXCEPT !.pc = "unsendRewrite", !.latest = PreviewOf(m)].pc = "unsendRewrite"
      BY <2>1 DEF Call
    <3> QED
      BY <1>4, <3>1, <3>2 DEF UnsendLatest
  <2>3. UNCHANGED <<convo, msgs, nextMsg, nextConv>>
    BY <1>4 DEF UnsendLatest, db
  <2>4. TypeInv'
    BY <1>4, UnsendTypes DEF CoreInv
  <2> QED
    BY <2>2, <2>3, <2>4, QuietStep DEF TxnPcs, DraftPcs
<1>5. ASSUME UnsendRewrite(r) PROVE CoreInv'
  <2> DEFINE call == [q EXCEPT !.pc = "unsendEmit"]
  <2>1. q \in Call /\ q.latest \in Preview
    BY <1>5, CallFields DEF CoreInv, UnsendRewrite, Pcs
  <2>2. call.pc = "unsendEmit"
    BY <2>1 DEF Call
  <2>3. TypeInv' /\ UNCHANGED <<msgs, nextMsg, nextConv>>
    BY <1>5, UnsendTypes DEF CoreInv, UnsendRewrite
  <2>4. CASE Goto(r, call) /\ UNCHANGED convo
    <3> HIDE DEF call
    <3> QED
      BY <2>2, <2>3, <2>4, QuietStep DEF TxnPcs, DraftPcs
  <2>5. CASE /\ HasConvo(q.conv) /\ GotoWriting(r, call)
             /\ convo' = [convo EXCEPT !.lastMessage = q.latest]
    <3>1. convo \in Convo /\ convo # None
      BY <2>5 DEF HasConvo, CoreInv, TypeInv, TypeOK
    <3>2. convo' # None /\ convo'.id = convo.id
      BY <2>1, <2>5, <3>1, UpdateTypes, NoneAssumption
    <3>3. GotoWriting(r, call)
      BY <2>5
    <3> HIDE DEF call
    <3> QED
      BY <2>2, <2>3, <3>1, <3>2, <3>3, UpdateStep DEF TxnPcs, DraftPcs
  <2> QED
    BY <1>5, <2>4, <2>5 DEF UnsendRewrite
<1>6. ASSUME UnsendEmit(r) PROVE CoreInv'
  BY <1>6, UnsendTypes, QuietStep, IdleShape DEF CoreInv, UnsendEmit, db
<1> QED
  BY <1>1, <1>2, <1>3, <1>4, <1>5, <1>6

LEMMA ReadSafe ==
  ASSUME CoreInv, NEW r \in Requests
  PROVE  /\ \A u \in Participants : ReadBegin(r, u) => CoreInv'
         /\ ReadApply(r) => CoreInv'
<1> DEFINE q == req[r]
<1>1. ASSUME NEW u \in Participants, ReadBegin(r, u) PROVE CoreInv'
  <2> DEFINE call == [NewCall("read", u, None, 0) EXCEPT !.conv = convo.id]
  <2>1. call.pc = "read"
    BY DEF NewCall
  <2>2. Goto(r, call) /\ UNCHANGED <<convo, msgs, nextMsg, nextConv>>
    BY <1>1 DEF ReadBegin, db
  <2>3. TypeInv'
    BY <1>1, BeginType DEF CoreInv
  <2> HIDE DEF call
  <2> QED
    BY <2>1, <2>2, <2>3, QuietStep DEF TxnPcs, DraftPcs
<1>2. ASSUME ReadApply(r) PROVE CoreInv'
  <2>1. TypeInv' /\ UNCHANGED <<msgs, nextMsg, nextConv>>
    BY <1>2, LastStepTypes DEF CoreInv, ReadApply
  <2>2. CASE Goto(r, Idle) /\ UNCHANGED convo
    BY <2>1, <2>2, QuietStep, IdleShape
  <2>3. CASE /\ HasConvo(q.conv) /\ GotoWriting(r, Idle)
             /\ convo' = [convo EXCEPT !.unreadCounts[q.user] = 0]
    <3>1. q.user \in Participants /\ q.mid \in MsgRefs
      BY <1>2, CallFields DEF CoreInv, ReadApply, Pcs
    <3>2. convo \in Convo /\ convo # None
      BY <2>3 DEF HasConvo, CoreInv, TypeInv, TypeOK
    <3>3. convo' # None /\ convo'.id = convo.id
      <4>1. convo' \in Convo
        BY <2>3, <3>1, <3>2, UpdateTypes
      <4>2. convo'.id = convo.id
        BY <2>3, <3>2 DEF Convo
      <4> QED
        BY <4>1, <4>2, NoneAssumption
    <3>4. GotoWriting(r, Idle)
      BY <2>3
    <3> QED
      BY <2>1, <3>2, <3>3, <3>4, UpdateStep, IdleShape
  <2> QED
    BY <1>2, <2>2, <2>3 DEF ReadApply
<1> QED
  BY <1>1, <1>2

LEMMA MuteSafe ==
  ASSUME CoreInv, NEW r \in Requests
  PROVE  /\ \A u \in Participants : \A on \in BOOLEAN : MuteBegin(r, u, on) => CoreInv'
         /\ MuteApply(r) => CoreInv'
<1> DEFINE q == req[r]
<1>1. ASSUME NEW u \in Participants, NEW on \in BOOLEAN, MuteBegin(r, u, on) PROVE CoreInv'
  <2> DEFINE call == [NewCall("mute", u, None, 0) EXCEPT !.conv = convo.id, !.on = on]
  <2>1. call.pc = "mute"
    BY DEF NewCall
  <2>2. Goto(r, call) /\ UNCHANGED <<convo, msgs, nextMsg, nextConv>>
    BY <1>1 DEF MuteBegin, db
  <2>3. TypeInv'
    BY <1>1, BeginType DEF CoreInv
  <2> HIDE DEF call
  <2> QED
    BY <2>1, <2>2, <2>3, QuietStep DEF TxnPcs, DraftPcs
<1>2. ASSUME MuteApply(r) PROVE CoreInv'
  <2>1. TypeInv' /\ UNCHANGED <<msgs, nextMsg, nextConv>>
    BY <1>2, LastStepTypes DEF CoreInv, MuteApply
  <2>2. CASE Goto(r, Idle) /\ UNCHANGED convo
    BY <2>1, <2>2, QuietStep, IdleShape
  <2>3. CASE /\ HasConvo(q.conv) /\ GotoWriting(r, Idle)
             /\ convo' = [convo EXCEPT !.mutedBy = IF q.on THEN convo.mutedBy \cup {q.user}
                                                   ELSE convo.mutedBy \ {q.user}]
    <3> DEFINE ms == IF q.on THEN convo.mutedBy \cup {q.user} ELSE convo.mutedBy \ {q.user}
    <3>1. convo \in Convo /\ convo # None /\ q.user \in Participants
      BY <1>2, <2>3, CallFields DEF MuteApply, Pcs, HasConvo, CoreInv, TypeInv, TypeOK
    <3>2. ms \in SUBSET Participants /\ convo' = [convo EXCEPT !.mutedBy = ms]
      BY <2>3, <3>1 DEF Convo
    <3> HIDE DEF ms
    <3>3. convo' # None /\ convo'.id = convo.id
      BY <3>1, <3>2, UpdateTypes, NoneAssumption
    <3>4. GotoWriting(r, Idle)
      BY <2>3
    <3> QED
      BY <2>1, <3>1, <3>3, <3>4, UpdateStep, IdleShape
  <2> QED
    BY <1>2, <2>2, <2>3 DEF MuteApply
<1> QED
  BY <1>1, <1>2

(* A request that ends without a write, and the block rows.                *)
LEMMA OtherSafe ==
  ASSUME CoreInv
  PROVE  /\ \A r \in Requests : Announce(r) => CoreInv'
         /\ \A r \in Requests : Fail(r) => CoreInv'
         /\ \A u \in Participants : (Block(u) \/ Unblock(u)) => CoreInv'
<1>1. ASSUME NEW r \in Requests, Announce(r) PROVE CoreInv'
  BY <1>1, LastStepTypes, QuietStep, IdleShape DEF CoreInv, Announce, db
<1>2. ASSUME NEW r \in Requests, Fail(r) PROVE CoreInv'
  BY <1>2, LastStepTypes, QuietStep, IdleShape DEF CoreInv, Fail, db
<1>3. ASSUME NEW u \in Participants, Block(u) \/ Unblock(u) PROVE CoreInv'
  <2>1. TypeInv' /\ UNCHANGED <<convo, msgs, nextMsg, nextConv, req>>
    BY <1>3, BlockType DEF CoreInv, Block, Unblock
  <2>2. SnapshotCurrent' /\ FreshIds' /\ FreshConvo'
    BY <2>1 DEF CoreInv, SnapshotCurrent, Current, FreshIds, FreshConvo
  <2>3. NoOrphans' /\ UniqueCid'
    BY <2>1 DEF CoreInv, NoOrphans, HasConvo, UniqueCid
  <2> QED
    BY <2>1, <2>2, <2>3 DEF CoreInv
<1> QED
  BY <1>1, <1>2, <1>3

(***************************************************************************)
(* The theorems.                                                           *)
(***************************************************************************)
LEMMA CoreInit == Init => CoreInv
<1> SUFFICES ASSUME Init PROVE CoreInv
  OBVIOUS
<1>1. TypeInv
  BY TypeInit
<1>2. SnapshotCurrent /\ FreshIds
  BY DEF Init, SnapshotCurrent, Current, FreshIds, Idle, TxnPcs, DraftPcs
<1>3. FreshConvo /\ NoOrphans /\ UniqueCid
  BY DEF Init, FreshConvo, NoOrphans, UniqueCid
<1> QED
  BY <1>1, <1>2, <1>3 DEF CoreInv

(* Every step of the thread preserves the core of the invariant.           *)
LEMMA CoreStep == CoreInv /\ [Next]_vars => CoreInv'
<1> SUFFICES ASSUME CoreInv, [Next]_vars PROVE CoreInv'
  OBVIOUS
<1>1. ASSUME NEW r \in Requests, NEW u \in Participants,
             \/ CreateBegin(r, u)
             \/ \E c \in Cids : SendBegin(r, u, c)
             \/ HideBegin(r, u)
             \/ \E i \in MsgIds : UnsendBegin(r, u, i)
             \/ ReadBegin(r, u)
             \/ \E on \in BOOLEAN : MuteBegin(r, u, on)
      PROVE  CoreInv'
  BY <1>1, CreateSafe, SendBeginSafe, HideBeginSafe, UnsendSafe, ReadSafe, MuteSafe
<1>2. ASSUME NEW r \in Requests,
             \/ CreateUpsert(r)
             \/ SendCheckBlock(r) \/ SendAppend(r) \/ SendCommit(r) \/ Announce(r)
             \/ HideCommit(r)
             \/ TxnRetry(r)
      PROVE  CoreInv'
  BY <1>2, CreateSafe, SendCheckSafe, SendAppendSafe, SendCommitSafe, OtherSafe,
     HideCommitSafe, TxnRetrySafe
<1>3. ASSUME NEW r \in Requests,
             \/ UnsendLoad(r) \/ UnsendMark(r) \/ UnsendLatest(r)
             \/ UnsendRewrite(r) \/ UnsendEmit(r)
             \/ ReadApply(r)
             \/ MuteApply(r)
             \/ Fail(r)
      PROVE  CoreInv'
  BY <1>3, UnsendSafe, ReadSafe, MuteSafe, OtherSafe
<1>4. ASSUME NEW u \in Participants, Block(u) \/ Unblock(u) PROVE CoreInv'
  BY <1>4, OtherSafe
<1>5. CASE UNCHANGED vars
  <2>1. TypeInv'
    BY <1>5 DEF vars, CoreInv, TypeInv, TypeOK, CallShape, Shape
  <2>2. SnapshotCurrent' /\ FreshIds' /\ FreshConvo'
    BY <1>5 DEF vars, CoreInv, SnapshotCurrent, Current, FreshIds, FreshConvo
  <2>3. NoOrphans' /\ UniqueCid'
    BY <1>5 DEF vars, CoreInv, NoOrphans, HasConvo, UniqueCid
  <2> QED
    BY <2>1, <2>2, <2>3 DEF CoreInv
<1> QED
  BY <1>1, <1>2, <1>3, <1>4, <1>5 DEF Next

(* The documents, the requests and the outputs keep their shape.           *)
THEOREM TypeCorrect == Spec => []TypeOK
<1>1. Spec => []CoreInv
  BY CoreInit, CoreStep, PTL DEF Spec
<1>2. CoreInv => TypeOK
  BY DEF CoreInv, TypeInv
<1> QED
  BY <1>1, <1>2, PTL

(* However sends, hides and creations overlap, a stored message belongs to *)
(* the conversation that is stored.                                        *)
THEOREM MessagesHaveConversation == Spec => []NoOrphans
<1>1. Spec => []CoreInv
  BY CoreInit, CoreStep, PTL DEF Spec
<1>2. CoreInv => NoOrphans
  BY DEF CoreInv
<1> QED
  BY <1>1, <1>2, PTL

(* However often and from however many requests a clientMessageId is sent, *)
(* it is stored once.                                                      *)
THEOREM SendsAreIdempotent == Spec => []UniqueCid
<1>1. Spec => []CoreInv
  BY CoreInit, CoreStep, PTL DEF Spec
<1>2. CoreInv => UniqueCid
  BY DEF CoreInv
<1> QED
  BY <1>1, <1>2, PTL

-----------------------------------------------------------------------------
(***************************************************************************)
(* The invariant IInv, and the properties that follow from it.             *)
(***************************************************************************)
LandPcs == {"sendAppend", "sendCommit", "announce"}

(* IInv in the groups that a step disturbs together.                       *)
GateInv  == OpenSeen /\ BlockedNeverLands
OutInv   == OutputPending /\ AnnouncedOnce /\ MuteHonoured
DocInv   == PreviewBacked /\ LatestBacked /\ HiddenHasDiscarded
AimInv   == TargetOwned /\ RetractedPast /\ RetractedIsUnsent
BadgeInv == ResetPast /\ UnreadExact
ClearInv == DiscardedStored /\ PreviewOnlyGrows

SafeInv == GateInv /\ OutInv /\ DocInv /\ AimInv /\ BadgeInv /\ ClearInv

(* A request moves on, with or without a write to the document.            *)
Moved(r, call) == Goto(r, call) \/ GotoWriting(r, call)

(* A send whose transaction may still commit.                              *)
Pending(q) == q.pc = "sendCommit" /\ ~q.stale

(***************************************************************************)
(* What a step leaves of each group.                                       *)
(***************************************************************************)

(* A request that was moved by another one only ever loses its commit.     *)
LEMMA OthersLeft ==
  ASSUME CoreInv, NEW r \in Requests, NEW call, Moved(r, call)
  PROVE  /\ req'[r] = call
         /\ \A q \in Requests \ {r} :
              /\ req'[q].pc = req[q].pc /\ req'[q].mid = req[q].mid
              /\ req[q].pc \notin TxnPcs => req'[q] = req[q]
              /\ Pending(req'[q]) => Pending(req[q])
         /\ GotoWriting(r, call) => \A q \in Requests \ {r} : ~Pending(req'[q])
BY OthersAfter DEF Moved, Pending, CoreInv, TxnPcs

LEMMA MsgNat ==
  ASSUME CoreInv
  PROVE  /\ nextMsg \in Nat
         /\ \A i \in MsgRefs : i \in Nat
         /\ \A i \in MsgIds : i \in MsgRefs /\ i > 0
         /\ \A m \in msgs : m \in Message /\ m.id \in MsgIds /\ m.id < nextMsg
         /\ \A r \in Requests : req[r].pc \in DraftPcs \cup TargetPcs =>
              req[r].mid \in MsgIds /\ req[r].mid < nextMsg
         /\ \A u \in Participants : hist.resetAt[u] \in MsgRefs
BY BoundsAssumption DEF CoreInv, TypeInv, TypeOK, CallShape, Shape, Message, MsgIds, MsgRefs,
   FreshIds, History

LEMMA GateAfter ==
  ASSUME CoreInv, GateInv, NEW r \in Requests, NEW call, Moved(r, call),
         blockedBy' = blockedBy, hist'.sawOpen = hist.sawOpen,
         call.pc # "sendCheck",
         call.pc \in LandPcs => req[r].pc \in LandPcs
  PROVE  GateInv'
<1>1. \A q \in Requests \ {r} : req'[q].pc = req[q].pc
  BY OthersLeft
<1>2. req'[r] = call
  BY OthersLeft
<1>3. OpenSeen'
  BY <1>1, <1>2 DEF GateInv, OpenSeen, Open
<1>4. BlockedNeverLands'
  BY <1>1, <1>2 DEF GateInv, BlockedNeverLands, LandPcs
<1> QED
  BY <1>3, <1>4 DEF GateInv

LEMMA OutAfter ==
  ASSUME CoreInv, OutInv, NEW r \in Requests, NEW call, Moved(r, call),
         UNCHANGED <<announced, pushed>>, hist'.silenced = hist.silenced,
         nextMsg' \in Nat, nextMsg <= nextMsg',
         call.pc # "announce",
         call.pc = "sendCommit" => call.mid >= nextMsg
  PROVE  OutInv'
<1>1. /\ \A q \in Requests \ {r} : /\ req'[q].pc = req[q].pc /\ req'[q].mid = req[q].mid
                                   /\ req[q].pc = "announce" => req'[q] = req[q]
      /\ req'[r] = call
  BY OthersLeft DEF TxnPcs
<1>2. AnnouncedOnce' /\ MuteHonoured'
  BY DEF OutInv, AnnouncedOnce, MuteHonoured
<1>3. ASSUME NEW i \in MsgIds,
             i >= nextMsg' \/ \E q \in Requests : req'[q].pc \in DraftPcs /\ req'[q].mid = i
      PROVE  announced'[i] = 0 /\ pushed'[i] = {}
  <2>1. i \in Nat /\ nextMsg \in Nat
    BY MsgNat
  <2>2. CASE i >= nextMsg'
    BY <2>1, <2>2 DEF OutInv, OutputPending
  <2>3. ASSUME NEW q \in Requests, req'[q].pc \in DraftPcs, req'[q].mid = i
        PROVE  i >= nextMsg \/ (req[q].pc \in DraftPcs /\ req[q].mid = i)
    BY <1>1, <2>3 DEF DraftPcs
  <2> QED
    BY <1>3, <2>2, <2>3 DEF OutInv, OutputPending
<1>4. \A q \in Requests : req'[q].pc = "announce" => req'[q].snap.mutedBy = hist'.silenced[req'[q].mid]
  BY <1>1 DEF OutInv, OutputPending
<1>5. OutputPending'
  BY <1>3, <1>4 DEF OutputPending
<1> QED
  BY <1>2, <1>5 DEF OutInv

LEMMA DocAfter ==
  ASSUME CoreInv, DocInv, NEW r \in Requests, NEW call, Moved(r, call),
         \A m \in msgs : \E n \in msgs' : n.id = m.id,
         \A n \in msgs' : \E m \in msgs : m.id = n.id,
         hist'.discarded = hist.discarded,
         \/ convo' = convo
         \/ /\ convo # None /\ convo' # None /\ convo'.id = convo.id
            /\ convo'.lastMessage = convo.lastMessage
            /\ convo'.deletedFor = convo.deletedFor,
         (call.pc = "unsendRewrite" /\ HasConvo(call.conv)) =>
            \E m \in msgs : m.id = call.latest.messageId
  PROVE  DocInv'
<1>1. PreviewBacked'
  <2>1. msgs = {} <=> msgs' = {}
    OBVIOUS
  <2>2. convo' # None => convo # None /\ convo'.lastMessage = convo.lastMessage
    OBVIOUS
  <2> QED
    BY <2>1, <2>2 DEF DocInv, PreviewBacked
<1>2. LatestBacked'
  <2> SUFFICES ASSUME NEW q \in Requests, req'[q].pc = "unsendRewrite", HasConvo(req[q].conv)'
               PROVE  \E m \in msgs' : m.id = req'[q].latest.messageId
    BY DEF LatestBacked
  <2>1. HasConvo((req[q].conv)')
    BY DEF HasConvo
  <2>2. \E m \in msgs : m.id = req'[q].latest.messageId
    <3>1. CASE q = r
      BY <2>1, <3>1, OthersLeft
    <3>2. CASE q # r
      BY <2>1, <3>2, OthersLeft DEF DocInv, LatestBacked, TxnPcs
    <3> QED
      BY <3>1, <3>2
  <2> QED
    BY <2>2
<1>3. HiddenHasDiscarded'
  BY DEF DocInv, HiddenHasDiscarded
<1> QED
  BY <1>1, <1>2, <1>3 DEF DocInv

LEMMA AimAfter ==
  ASSUME CoreInv, AimInv, NEW r \in Requests, NEW call, Moved(r, call),
         UNCHANGED <<msgs, retracted>>, nextMsg' \in Nat, nextMsg <= nextMsg',
         call.pc = "sendCommit" => call.mid = nextMsg,
         call.pc = "unsendMark" =>
           \A m \in msgs : m.id = call.mid => m.from = call.user /\ m.conv = call.conv,
         call.pc \in MarkedPcs => \A m \in msgs : m.id = call.mid => m.unsent,
         call.pc \in TargetPcs =>
           \A s \in Requests \ {r} : Pending(req[s]) => call.mid < req[s].mid
  PROVE  AimInv'
<1>1. /\ \A q \in Requests \ {r} : /\ req'[q].pc = req[q].pc /\ req'[q].mid = req[q].mid
                                   /\ req[q].pc \in TargetPcs => req'[q] = req[q]
                                   /\ Pending((req[q])') => Pending(req[q])
      /\ req'[r] = call
  BY OthersLeft DEF TxnPcs, TargetPcs, Pending
<1>2. TargetOwned'
  <2> SUFFICES ASSUME NEW q \in Requests
               PROVE  /\ req'[q].pc = "unsendMark" =>
                           \A m \in msgs : m.id = req'[q].mid => m.from = req'[q].user /\ m.conv = req'[q].conv
                      /\ req'[q].pc \in MarkedPcs => \A m \in msgs : m.id = req'[q].mid => m.unsent
                      /\ req'[q].pc \in TargetPcs =>
                           \A s \in Requests : Pending((req[s])') => req'[q].mid < req'[s].mid
    BY DEF TargetOwned, Pending
  <2>1. CASE q = r
    <3>1. call.pc \in TargetPcs => ~Pending(call)
      BY DEF Pending, TargetPcs
    <3> QED
      BY <1>1, <2>1, <3>1
  <2>2. CASE q # r
    <3>1. req'[q].pc \in TargetPcs =>
            req'[q] = req[q] /\ req[q].pc \in TargetPcs /\ req[q].mid < nextMsg
      BY <1>1, <2>2, MsgNat
    <3>2. req'[q].pc \in MarkedPcs \cup {"unsendMark"} => req'[q].pc \in TargetPcs
      BY DEF MarkedPcs, TargetPcs
    <3>3. ASSUME req'[q].pc \in TargetPcs, NEW s \in Requests, Pending((req[s])')
          PROVE  req'[q].mid < req'[s].mid
      <4>1. CASE s = r
        <5>1. req'[s].pc = "sendCommit"
          BY <3>3 DEF Pending
        <5> QED
          BY <1>1, <3>1, <3>3, <4>1, <5>1
      <4>2. CASE s # r
        BY <1>1, <3>1, <3>3, <4>2 DEF AimInv, TargetOwned, Pending
      <4> QED
        BY <4>1, <4>2
    <3>4. /\ req[q].pc = "unsendMark" =>
               \A m \in msgs : m.id = req[q].mid => m.from = req[q].user /\ m.conv = req[q].conv
          /\ req[q].pc \in MarkedPcs => \A m \in msgs : m.id = req[q].mid => m.unsent
      BY DEF AimInv, TargetOwned
    <3> QED
      BY <3>1, <3>2, <3>3, <3>4
  <2> QED
    BY <2>1, <2>2
<1>3. RetractedPast'
  <2> SUFFICES ASSUME NEW i \in MsgIds, i \in retracted
               PROVE  i < nextMsg' /\ \A s \in Requests : Pending((req[s])') => i < req'[s].mid
    BY DEF RetractedPast, Pending
  <2>1. i < nextMsg /\ \A s \in Requests : Pending(req[s]) => i < req[s].mid
    BY DEF AimInv, RetractedPast, Pending
  <2>2. i \in Nat /\ nextMsg \in Nat
    BY MsgNat
  <2>3. ASSUME NEW s \in Requests, Pending((req[s])') PROVE i < req'[s].mid
    <3>1. CASE s = r
      BY <1>1, <2>1, <2>3, <3>1 DEF Pending
    <3>2. CASE s # r
      BY <1>1, <2>1, <2>3, <3>2
    <3> QED
      BY <3>1, <3>2
  <2> QED
    BY <2>1, <2>2, <2>3
<1>4. RetractedIsUnsent'
  BY DEF AimInv, RetractedIsUnsent
<1> QED
  BY <1>2, <1>3, <1>4 DEF AimInv

LEMMA BadgeAfter ==
  ASSUME CoreInv, BadgeInv, NEW r \in Requests, NEW call, Moved(r, call),
         UNCHANGED msgs, nextMsg' \in Nat, nextMsg <= nextMsg',
         hist'.resetAt = hist.resetAt,
         call.pc = "sendCommit" => call.mid = nextMsg,
         \/ convo' = convo
         \/ convo # None /\ convo' # None /\ convo'.unreadCounts = convo.unreadCounts
  PROVE  BadgeInv'
<1>1. ResetPast'
  <2>1. \A u \in Participants : hist.resetAt[u] \in Nat /\ nextMsg \in Nat
    BY MsgNat
  <2>2. ASSUME NEW u \in Participants
        PROVE  /\ hist.resetAt[u] < nextMsg'
               /\ \A s \in Requests : Pending((req[s])') => hist.resetAt[u] < req'[s].mid
    <3>1. hist.resetAt[u] < nextMsg /\ \A s \in Requests : Pending(req[s]) => hist.resetAt[u] < req[s].mid
      BY DEF BadgeInv, ResetPast, Pending
    <3>2. ASSUME NEW s \in Requests, Pending((req[s])') PROVE hist.resetAt[u] < req'[s].mid
      <4>1. CASE s = r
        BY <3>1, <3>2, <4>1, OthersLeft DEF Pending
      <4>2. CASE s # r
        BY <3>1, <3>2, <4>2, OthersLeft DEF Pending
      <4> QED
        BY <4>1, <4>2
    <3> QED
      BY <2>1, <3>1, <3>2
  <2>3. IsFiniteSet(msgs)
    BY DEF BadgeInv, ResetPast
  <2> QED
    BY <2>2, <2>3 DEF ResetPast, Pending
<1>2. UnreadExact'
  BY DEF BadgeInv, UnreadExact
<1> QED
  BY <1>1, <1>2 DEF BadgeInv

LEMMA ClearAfter ==
  ASSUME CoreInv, ClearInv, NEW r \in Requests, NEW call, Moved(r, call),
         UNCHANGED msgs, hist'.discarded = hist.discarded,
         NoUnsend => call.pc \notin TargetPcs,
         \/ convo' = convo
         \/ /\ convo # None /\ convo' # None /\ convo'.id = convo.id
            /\ convo'.lastMessage = convo.lastMessage
            /\ convo'.clearedAt = convo.clearedAt
  PROVE  ClearInv'
<1>1. DiscardedStored'
  BY DEF ClearInv, DiscardedStored
<1>2. ASSUME NoUnsend PROVE \A q \in Requests : req'[q].pc \notin TargetPcs
  BY <1>2, OthersLeft DEF ClearInv, PreviewOnlyGrows
<1>3. ASSUME NoUnsend PROVE NewestShown'
  BY <1>3 DEF ClearInv, PreviewOnlyGrows, NewestShown
<1>4. ASSUME NoUnsend PROVE ClearedHidden'
  <2>1. \A u \in Participants : Visible(u)' \subseteq Visible(u)
    BY DEF Visible
  <2> QED
    BY <1>4, <2>1 DEF ClearInv, PreviewOnlyGrows, ClearedHidden
<1> QED
  BY <1>1, <1>2, <1>3, <1>4 DEF ClearInv, PreviewOnlyGrows, NoUnsend

(* The document as the properties see it, but for mutes.                   *)
SameDoc(c, d) ==
  /\ c # None /\ d # None /\ d.id = c.id
  /\ d.lastMessage = c.lastMessage
  /\ d.deletedFor = c.deletedFor
  /\ d.clearedAt = c.clearedAt
  /\ d.unreadCounts = c.unreadCounts

(* A step that moves a request to a stage outside sends and unsends.       *)
LEMMA PlainStep ==
  ASSUME CoreInv, SafeInv, NEW r \in Requests, NEW call, Moved(r, call),
         call.pc \notin SendPcs \cup DraftPcs \cup TargetPcs,
         UNCHANGED <<msgs, blockedBy, nextMsg, out, hist>>,
         convo' = convo \/ SameDoc(convo, convo')
  PROVE  SafeInv'
<1>1. /\ call.pc \notin {"sendCheck", "sendCommit", "announce", "unsendMark", "unsendRewrite"}
      /\ call.pc \notin LandPcs /\ call.pc \notin MarkedPcs /\ call.pc \notin TargetPcs
  BY DEF SendPcs, DraftPcs, TargetPcs, LandPcs, MarkedPcs
<1>2. nextMsg' \in Nat /\ nextMsg <= nextMsg'
  BY MsgNat
<1>3. UNCHANGED <<announced, retracted, pushed>>
  BY DEF out
<1>4. GateInv'
  BY <1>1, GateAfter DEF SafeInv
<1>5. OutInv'
  BY <1>1, <1>2, <1>3, OutAfter DEF SafeInv
<1>6. DocInv'
  BY <1>1, DocAfter DEF SafeInv, SameDoc
<1>7. AimInv'
  BY <1>1, <1>2, <1>3, AimAfter DEF SafeInv
<1>8. BadgeInv'
  BY <1>1, <1>2, BadgeAfter DEF SafeInv, SameDoc
<1>9. ClearInv'
  BY <1>1, ClearAfter DEF SafeInv, SameDoc
<1> QED
  BY <1>4, <1>5, <1>6, <1>7, <1>8, <1>9 DEF SafeInv

(***************************************************************************)
(* One lemma per operation.                                                *)
(***************************************************************************)

LEMMA PlainPcs ==
  {"idle", "create", "hideCommit", "read", "mute"}
    \cap (SendPcs \cup DraftPcs \cup TargetPcs) = {}
BY DEF SendPcs, DraftPcs, TargetPcs

(* Requests that begin, give up or end without a write.                    *)
LEMMA QuietRest ==
  ASSUME CoreInv, SafeInv, NEW r \in Requests
  PROVE  /\ (Goto(r, Idle) /\ UNCHANGED <<db, out, hist>>) => SafeInv'
         /\ \A u \in Participants : CreateBegin(r, u) => SafeInv'
         /\ \A u \in Participants : \A id :
              (HideAttempt(r, u, id) /\ UNCHANGED <<db, out, hist>>) => SafeInv'
         /\ \A u \in Participants : ReadBegin(r, u) => SafeInv'
         /\ \A u \in Participants : \A on \in BOOLEAN : MuteBegin(r, u, on) => SafeInv'
<1>1. ASSUME NEW call, Goto(r, call), UNCHANGED <<db, out, hist>>,
             call.pc \in {"idle", "create", "hideCommit", "read", "mute"}
      PROVE  SafeInv'
  BY <1>1, PlainPcs, PlainStep DEF Moved, db
<1>2. ASSUME Goto(r, Idle), UNCHANGED <<db, out, hist>> PROVE SafeInv'
  BY <1>1, <1>2, IdleShape
<1>3. ASSUME NEW u \in Participants, CreateBegin(r, u) PROVE SafeInv'
  <2>1. NewCall("create", u, None, 0).pc = "create"
    BY DEF NewCall
  <2> QED
    BY <1>1, <1>3, <2>1 DEF CreateBegin
<1>4. ASSUME NEW u \in Participants, NEW id, HideAttempt(r, u, id), UNCHANGED <<db, out, hist>>
      PROVE  SafeInv'
  <2> DEFINE call == [NewCall("hideCommit", u, None, 0) EXCEPT !.conv = id, !.snap = convo]
  <2>1. call.pc = "hideCommit"
    BY DEF NewCall
  <2>2. Goto(r, call)
    BY <1>4 DEF HideAttempt
  <2> HIDE DEF call
  <2> QED
    BY <1>1, <1>4, <2>1, <2>2
<1>5. ASSUME NEW u \in Participants, ReadBegin(r, u) PROVE SafeInv'
  <2> DEFINE call == [NewCall("read", u, None, 0) EXCEPT !.conv = convo.id]
  <2>1. call.pc = "read"
    BY DEF NewCall
  <2>2. Goto(r, call) /\ UNCHANGED <<db, out, hist>>
    BY <1>5 DEF ReadBegin
  <2> HIDE DEF call
  <2> QED
    BY <1>1, <2>1, <2>2
<1>6. ASSUME NEW u \in Participants, NEW on \in BOOLEAN, MuteBegin(r, u, on) PROVE SafeInv'
  <2> DEFINE call == [NewCall("mute", u, None, 0) EXCEPT !.conv = convo.id, !.on = on]
  <2>1. call.pc = "mute"
    BY DEF NewCall
  <2>2. Goto(r, call) /\ UNCHANGED <<db, out, hist>>
    BY <1>6 DEF MuteBegin
  <2> HIDE DEF call
  <2> QED
    BY <1>1, <2>1, <2>2
<1> QED
  BY <1>2, <1>3, <1>4, <1>5, <1>6

(* The conversation is created anew: nothing is stored, nothing was read.  *)
LEMMA CreateRest ==
  ASSUME CoreInv, SafeInv, NEW r \in Requests, CreateUpsert(r)
  PROVE  SafeInv'
<1>1. GotoWriting(r, Idle) /\ UNCHANGED <<msgs, blockedBy, nextMsg, out>>
  BY DEF CreateUpsert
<1>2. CASE convo # None /\ UNCHANGED <<convo, nextConv, hist>>
  BY <1>1, <1>2, PlainStep, IdleShape, PlainPcs DEF Moved
<1>3. CASE /\ convo = None /\ convo' = NewConvo(nextConv) /\ nextConv <= MaxConv
           /\ hist' = [hist EXCEPT !.discarded = [u \in Participants |-> {}]]
  <2>1. msgs = {} /\ msgs' = {}
    BY <1>1, <1>3 DEF CoreInv, NoOrphans, HasConvo
  <2>2. /\ hist'.sawOpen = hist.sawOpen /\ hist'.silenced = hist.silenced
        /\ hist'.resetAt = hist.resetAt
        /\ hist'.discarded = [u \in Participants |-> {}]
    BY <1>3 DEF CoreInv, TypeInv, TypeOK, History
  <2>3. nextMsg' \in Nat /\ nextMsg <= nextMsg' /\ UNCHANGED <<announced, retracted, pushed>>
    BY <1>1, MsgNat DEF out
  <2>4. Idle.pc \notin {"sendCheck", "sendCommit", "announce", "unsendMark", "unsendRewrite"}
                         \cup LandPcs \cup MarkedPcs \cup TargetPcs
    BY DEF Idle, LandPcs, MarkedPcs, TargetPcs
  <2>5. Moved(r, Idle)
    BY <1>1 DEF Moved
  <2>6. GateInv'
    BY <1>1, <2>2, <2>4, <2>5, GateAfter DEF SafeInv
  <2>7. OutInv'
    BY <2>2, <2>3, <2>4, <2>5, OutAfter DEF SafeInv
  <2>8. AimInv'
    BY <1>1, <2>3, <2>4, <2>5, AimAfter DEF SafeInv
  <2>9. /\ convo'.id = nextConv /\ convo'.lastMessage.messageId = 0 /\ convo'.deletedFor = {}
        /\ convo'.unreadCounts = [u \in Participants |-> 0]
    BY <1>3 DEF NewConvo, NoPreview
  <2>10. DocInv'
    <3>1. PreviewBacked' /\ HiddenHasDiscarded'
      BY <2>1, <2>9 DEF PreviewBacked, HiddenHasDiscarded
    <3>2. ASSUME NEW q \in Requests, req'[q].pc = "unsendRewrite" PROVE req'[q].conv # convo'.id
      <4>1. req'[q].pc = req[q].pc /\ req'[q] = req[q]
        BY <2>4, <2>5, <3>2, OthersLeft DEF TxnPcs
      <4>2. req[q] \in Call /\ req[q].conv < nextConv
        BY <3>2, <4>1, CallFields DEF CoreInv, Pcs
      <4> QED
        BY <2>9, <4>1, <4>2, BoundsAssumption DEF CoreInv, TypeInv, TypeOK, Call
    <3>3. LatestBacked'
      BY <3>2 DEF LatestBacked, HasConvo
    <3> QED
      BY <3>1, <3>3 DEF DocInv
  <2>11. BadgeInv'
    <3>1. ResetPast'
      <4>1. \A s \in Requests : ~Pending((req[s])')
        BY <1>1, <2>4, <2>5, OthersLeft DEF Pending
      <4> QED
        BY <1>1, <2>2, <4>1 DEF SafeInv, BadgeInv, ResetPast, Pending
    <3>2. UnreadExact'
      <4>1. ASSUME NEW u \in Participants
            PROVE  Cardinality({m \in msgs' : m.from # u /\ m.id > hist'.resetAt[u]}) = 0
        <5>1. {m \in msgs' : m.from # u /\ m.id > hist'.resetAt[u]} = {}
          BY <2>1
        <5> QED
          BY <5>1, FS_EmptySet
      <4> QED
        BY <2>9, <4>1 DEF UnreadExact
    <3> QED
      BY <3>1, <3>2 DEF BadgeInv
  <2>12. ClearInv'
    <3>1. DiscardedStored'
      BY <2>2 DEF DiscardedStored
    <3>2. NoUnsend => \A q \in Requests : req'[q].pc \notin TargetPcs
      BY <2>4, <2>5, OthersLeft DEF SafeInv, ClearInv, PreviewOnlyGrows
    <3>3. NewestShown'
      BY <2>1 DEF NewestShown
    <3>4. ClearedHidden'
      <4>1. \A u \in Participants : Visible(u)' = {}
        BY <2>1 DEF Visible
      <4> QED
        BY <4>1 DEF ClearedHidden
    <3> QED
      BY <3>1, <3>2, <3>3, <3>4 DEF ClearInv, PreviewOnlyGrows, NoUnsend
  <2> QED
    BY <2>6, <2>7, <2>8, <2>10, <2>11, <2>12 DEF SafeInv
<1> QED
  BY <1>2, <1>3 DEF CreateUpsert

(* A send's attempt begins: whether the pair is open is noted for it.      *)
LEMMA AttemptRest ==
  ASSUME CoreInv, SafeInv, NEW r \in Requests, NEW u \in Participants, NEW c \in Cids,
         NEW id, SendAttempt(r, u, id, c), UNCHANGED <<db, out>>
  PROVE  SafeInv'
<1> DEFINE call == [NewCall("sendCheck", u, c, 0) EXCEPT
                      !.conv = id, !.snap = convo, !.dup = Dup(id, c)]
<1>1. call.pc = "sendCheck"
  BY DEF NewCall
<1>2. Moved(r, call)
  BY DEF Moved, SendAttempt
<1> HIDE DEF call
<1>3. /\ hist'.sawOpen = IF Open THEN hist.sawOpen \cup {r} ELSE hist.sawOpen \ {r}
      /\ hist'.silenced = hist.silenced
      /\ hist'.resetAt = hist.resetAt
      /\ hist'.discarded = hist.discarded
  BY DEF SendAttempt, CoreInv, TypeInv, TypeOK, History
<1>4. /\ call.pc \notin {"sendCommit", "announce", "unsendMark", "unsendRewrite"}
      /\ call.pc \notin LandPcs /\ call.pc \notin MarkedPcs /\ call.pc \notin TargetPcs
  BY <1>1 DEF TargetPcs, LandPcs, MarkedPcs
<1>5. /\ nextMsg' \in Nat /\ nextMsg <= nextMsg'
      /\ UNCHANGED <<convo, msgs, blockedBy, announced, retracted, pushed>>
  BY MsgNat DEF out, db
<1>6. GateInv'
  <2>1. req'[r] = call /\ \A q \in Requests \ {r} : req'[q].pc = req[q].pc
    BY <1>2, OthersLeft
  <2>2. OpenSeen'
    BY <1>3, <1>5, <2>1 DEF SafeInv, GateInv, OpenSeen, Open
  <2>3. BlockedNeverLands'
    BY <1>3, <1>4, <2>1 DEF SafeInv, GateInv, BlockedNeverLands, LandPcs
  <2> QED
    BY <2>2, <2>3 DEF GateInv
<1>7. OutInv'
  BY <1>2, <1>3, <1>4, <1>5, OutAfter DEF SafeInv
<1>8. DocInv'
  BY <1>2, <1>3, <1>4, <1>5, DocAfter DEF SafeInv
<1>9. AimInv'
  BY <1>2, <1>4, <1>5, AimAfter DEF SafeInv
<1>10. BadgeInv'
  BY <1>2, <1>3, <1>4, <1>5, BadgeAfter DEF SafeInv
<1>11. ClearInv'
  BY <1>2, <1>3, <1>4, <1>5, ClearAfter DEF SafeInv
<1> QED
  BY <1>6, <1>7, <1>8, <1>9, <1>10, <1>11 DEF SafeInv

(* A send passes the block check only while the pair is open.              *)
LEMMA SendCheckRest ==
  ASSUME CoreInv, SafeInv, NEW r \in Requests, SendCheckBlock(r)
  PROVE  SafeInv'
<1> DEFINE call == [req[r] EXCEPT !.pc = "sendAppend"]
<1>1. req[r] \in Call /\ req[r].pc = "sendCheck" /\ UNCHANGED <<db, out, hist>>
  BY CallFields DEF SendCheckBlock, CoreInv, Pcs, TxnPcs
<1>2. CASE Goto(r, Idle)
  BY <1>1, <1>2, QuietRest
<1>3. CASE Open /\ Goto(r, call)
  <2>1. call.pc = "sendAppend"
    BY <1>1 DEF Call
  <2>2. Moved(r, call)
    BY <1>3 DEF Moved
  <2> HIDE DEF call
  <2>3. /\ call.pc \notin {"sendCommit", "announce", "unsendMark", "unsendRewrite"}
        /\ call.pc \notin MarkedPcs /\ call.pc \notin TargetPcs
    BY <2>1 DEF TargetPcs, MarkedPcs
  <2>4. /\ nextMsg' \in Nat /\ nextMsg <= nextMsg'
        /\ UNCHANGED <<convo, msgs, blockedBy, announced, retracted, pushed>>
    BY <1>1, MsgNat DEF out, db
  <2>5. GateInv'
    <3>1. req'[r] = call /\ \A q \in Requests \ {r} : req'[q].pc = req[q].pc
      BY <2>2, OthersLeft
    <3>2. r \in hist.sawOpen
      BY <1>1, <1>3 DEF SafeInv, GateInv, OpenSeen
    <3>3. OpenSeen'
      BY <1>1, <2>1, <2>4, <3>1 DEF SafeInv, GateInv, OpenSeen, Open
    <3>4. BlockedNeverLands'
      BY <1>1, <3>1, <3>2 DEF SafeInv, GateInv, BlockedNeverLands
    <3> QED
      BY <3>3, <3>4 DEF GateInv
  <2>6. OutInv'
    BY <1>1, <2>2, <2>3, <2>4, OutAfter DEF SafeInv
  <2>7. DocInv'
    BY <1>1, <2>2, <2>3, <2>4, DocAfter DEF SafeInv
  <2>8. AimInv'
    BY <2>2, <2>3, <2>4, AimAfter DEF SafeInv
  <2>9. BadgeInv'
    BY <1>1, <2>2, <2>3, <2>4, BadgeAfter DEF SafeInv
  <2>10. ClearInv'
    BY <1>1, <2>2, <2>3, <2>4, ClearAfter DEF SafeInv
  <2> QED
    BY <2>5, <2>6, <2>7, <2>8, <2>9, <2>10 DEF SafeInv
<1> QED
  BY <1>2, <1>3 DEF SendCheckBlock, MayMessage

(* A send gets an id that is newer than all there is.                      *)
LEMMA SendAppendRest ==
  ASSUME CoreInv, SafeInv, NEW r \in Requests, SendAppend(r)
  PROVE  SafeInv'
<1> DEFINE call == [req[r] EXCEPT !.pc = "sendCommit", !.mid = nextMsg]
<1>1. /\ req[r] \in Call /\ req[r].pc = "sendAppend"
      /\ UNCHANGED <<convo, msgs, blockedBy, nextConv, out, hist>>
  BY CallFields DEF SendAppend, CoreInv, Pcs, TxnPcs
<1>2. CASE Goto(r, Idle) /\ UNCHANGED nextMsg
  BY <1>1, <1>2, QuietRest DEF db
<1>3. CASE nextMsg' = nextMsg + 1 /\ Goto(r, call)
  <2>1. call.pc = "sendCommit" /\ call.mid = nextMsg
    BY <1>1 DEF Call
  <2>2. Moved(r, call)
    BY <1>3 DEF Moved
  <2> HIDE DEF call
  <2>3. /\ call.pc \notin {"sendCheck", "announce", "unsendMark", "unsendRewrite"}
        /\ call.pc \notin MarkedPcs /\ call.pc \notin TargetPcs
        /\ req[r].pc \in LandPcs
    BY <1>1, <2>1 DEF TargetPcs, MarkedPcs, LandPcs
  <2>4. /\ nextMsg \in Nat /\ nextMsg' \in Nat /\ nextMsg <= nextMsg'
        /\ UNCHANGED <<convo, msgs, blockedBy, announced, retracted, pushed>>
    BY <1>1, <1>3, MsgNat DEF out
  <2>5. GateInv'
    BY <1>1, <2>2, <2>3, <2>4, GateAfter DEF SafeInv
  <2>6. OutInv'
    <3>1. call.mid >= nextMsg
      BY <2>1, <2>4
    <3> QED
      BY <1>1, <2>2, <2>3, <2>4, <3>1, OutAfter DEF SafeInv
  <2>7. DocInv'
    BY <1>1, <2>2, <2>3, <2>4, DocAfter DEF SafeInv
  <2>8. AimInv'
    BY <2>1, <2>2, <2>3, <2>4, AimAfter DEF SafeInv
  <2>9. BadgeInv'
    BY <1>1, <2>1, <2>2, <2>3, <2>4, BadgeAfter DEF SafeInv
  <2>10. ClearInv'
    BY <1>1, <2>2, <2>3, <2>4, ClearAfter DEF SafeInv
  <2> QED
    BY <2>5, <2>6, <2>7, <2>8, <2>9, <2>10 DEF SafeInv
<1> QED
  BY <1>2, <1>3 DEF SendAppend, Deduped

LEMMA RecordedFields ==
  ASSUME NEW c \in Convo, NEW i, NEW u
  PROVE  /\ Recorded(c, i, u).id = c.id
         /\ Recorded(c, i, u).lastMessage.messageId = i
         /\ Recorded(c, i, u).deletedFor = {}
         /\ Recorded(c, i, u).clearedAt = c.clearedAt
         /\ Recorded(c, i, u).mutedBy = c.mutedBy
         /\ \A p \in Participants : Recorded(c, i, u).unreadCounts[p] =
              IF p = u THEN c.unreadCounts[p] ELSE c.unreadCounts[p] + 1
BY DEF Recorded, Convo

(* What the badge of u counts when it was last reset at k.                 *)
Badge(ms, u, k) == Cardinality({n \in ms : n.from # u /\ n.id > k})

LEMMA BadgeNew ==
  ASSUME NEW ms, IsFiniteSet(ms), NEW m, m \notin ms, NEW u, NEW k
  PROVE  Badge(ms \cup {m}, u, k) =
           IF m.from # u /\ m.id > k THEN Badge(ms, u, k) + 1 ELSE Badge(ms, u, k)
<1> DEFINE old == {n \in ms : n.from # u /\ n.id > k}
           new == {n \in ms \cup {m} : n.from # u /\ n.id > k}
<1>0. Badge(ms \cup {m}, u, k) = Cardinality(new) /\ Badge(ms, u, k) = Cardinality(old)
  BY DEF Badge
<1>1. IsFiniteSet(old)
  BY FS_Subset
<1>2. CASE m.from # u /\ m.id > k
  <2>1. new = old \cup {m} /\ m \notin old
    BY <1>2
  <2> QED
    BY <1>0, <1>1, <1>2, <2>1, FS_AddElement
<1>3. CASE ~(m.from # u /\ m.id > k)
  <2>1. new = old
    BY <1>3
  <2> QED
    BY <1>0, <1>3, <2>1
<1> QED
  BY <1>2, <1>3

LEMMA BadgeMeaning ==
  UnreadExact <=>
    (convo # None =>
       \A u \in Participants : convo.unreadCounts[u] = Badge(msgs, u, hist.resetAt[u]))
BY DEF UnreadExact, Badge

(* The commit of a send.                                                   *)
LEMMA SendCommitRest ==
  ASSUME CoreInv, SafeInv, NEW r \in Requests, SendCommit(r)
  PROVE  SafeInv'
<1> DEFINE q    == req[r]
           base == NewCall("announce", q.user, None, q.mid)
           call == [base EXCEPT !.snap = q.snap]
           m    == [id |-> q.mid, conv |-> q.conv, cid |-> q.cid,
                    from |-> q.user, unsent |-> FALSE]
<1>1. /\ q.pc = "sendCommit" /\ ~q.stale /\ Pending(q) /\ q.user \in Participants
      /\ q.mid \in MsgIds /\ q.mid \in Nat /\ q.mid < nextMsg
  <2>1. q.pc = "sendCommit" /\ ~q.stale
    BY DEF SendCommit, MayCommit
  <2> QED
    BY <2>1, CallFields, MsgNat DEF CoreInv, Pcs, TxnPcs, DraftPcs, Pending
<1>2. q.snap = convo /\ convo \in Convo /\ q.conv = convo.id
  BY <1>1 DEF CoreInv, SnapshotCurrent, Current, TxnPcs, TypeInv, CallShape, Shape
<1>3. \A n \in msgs : n.id < q.mid
  BY <1>1 DEF CoreInv, FreshIds
<1>4. /\ GotoWriting(r, call) /\ UNCHANGED <<blockedBy, nextMsg, nextConv>>
      /\ UNCHANGED <<announced, retracted, pushed>>
      /\ msgs' = msgs \cup {m} /\ convo' = Recorded(convo, q.mid, q.user)
  BY <1>2 DEF SendCommit, out
<1>5. call.pc = "announce" /\ call.mid = q.mid /\ call.snap = convo
  BY <1>2 DEF NewCall
<1>6. m.id = q.mid /\ m.conv = q.conv /\ m.from = q.user /\ m.unsent = FALSE
  OBVIOUS
<1>7. /\ convo' # None /\ convo' \in Convo /\ convo # None /\ convo'.id = convo.id
      /\ convo'.lastMessage.messageId = q.mid /\ convo'.deletedFor = {}
      /\ convo'.clearedAt = convo.clearedAt
      /\ \A p \in Participants : convo'.unreadCounts[p] =
           IF p = q.user THEN convo.unreadCounts[p] ELSE convo.unreadCounts[p] + 1
  <2>1. q.mid \in MsgRefs
    BY <1>1, MsgNat
  <2>2. convo' \in Convo
    BY <1>1, <1>2, <1>4, <2>1, ConvoTypes
  <2> QED
    BY <1>2, <1>4, <2>2, RecordedFields, NoneAssumption
<1>8. /\ hist'.sawOpen = hist.sawOpen /\ hist'.resetAt = hist.resetAt
      /\ hist'.discarded = hist.discarded
      /\ \A i \in MsgIds : hist'.silenced[i] = IF i = q.mid THEN convo.mutedBy ELSE hist.silenced[i]
  BY DEF SendCommit, CoreInv, TypeInv, TypeOK, History
<1>9. Moved(r, call)
  BY <1>4 DEF Moved
<1> HIDE DEF base, call, m
<1>10. /\ req'[r] = call
       /\ \A s \in Requests \ {r} :
            /\ req'[s].pc = req[s].pc /\ req'[s].mid = req[s].mid
            /\ req[s].pc \notin TxnPcs => req'[s] = req[s]
       /\ \A s \in Requests : ~Pending((req[s])')
  <2>1. ~Pending(call)
    BY <1>5 DEF Pending
  <2> QED
    BY <1>4, <1>9, <2>1, OthersLeft
<1>11. GateInv'
  <2>1. call.pc # "sendCheck" /\ q.pc \in LandPcs
    BY <1>1, <1>5 DEF LandPcs
  <2> QED
    BY <1>4, <1>8, <1>9, <2>1, GateAfter DEF SafeInv
<1>12. OutInv'
  <2>0. OutInv
    BY DEF SafeInv
  <2>1. announced[q.mid] = 0 /\ pushed[q.mid] = {}
    BY <1>1, <2>0 DEF OutInv, OutputPending, DraftPcs
  <2>2. AnnouncedOnce'
    BY <1>4, <2>0 DEF OutInv, AnnouncedOnce
  <2>3. MuteHonoured'
    BY <1>4, <1>8, <2>0, <2>1 DEF OutInv, MuteHonoured
  <2>4. ASSUME NEW i \in MsgIds,
               i >= nextMsg' \/ \E s \in Requests : req'[s].pc \in DraftPcs /\ req'[s].mid = i
        PROVE  announced'[i] = 0 /\ pushed'[i] = {}
    <3>1. \A s \in Requests : req'[s].pc \in DraftPcs => req[s].pc \in DraftPcs /\ req'[s].mid = req[s].mid
      BY <1>1, <1>5, <1>10 DEF DraftPcs
    <3> QED
      BY <1>4, <2>0, <2>4, <3>1 DEF OutInv, OutputPending
  <2>5. ASSUME NEW s \in Requests, req'[s].pc = "announce"
        PROVE  req'[s].snap.mutedBy = hist'.silenced[req'[s].mid]
    <3>1. CASE s = r
      BY <1>1, <1>5, <1>8, <1>10, <3>1
    <3>2. CASE s # r
      <4>1. req'[s] = req[s] /\ req[s].pc = "announce"
        BY <1>10, <2>5, <3>2 DEF TxnPcs
      <4>2. req[s].mid # q.mid /\ req[s].mid \in MsgIds
        BY <1>1, <3>2, <4>1, MsgNat DEF CoreInv, FreshIds, DraftPcs
      <4> QED
        BY <1>8, <2>0, <4>1, <4>2 DEF OutInv, OutputPending
    <3> QED
      BY <3>1, <3>2
  <2>6. OutputPending'
    BY <2>4, <2>5 DEF OutputPending
  <2> QED
    BY <2>2, <2>3, <2>6 DEF OutInv
<1>13. DocInv'
  <2>1. PreviewBacked'
    BY <1>4, <1>6, <1>7 DEF PreviewBacked
  <2>2. HiddenHasDiscarded'
    BY <1>7 DEF HiddenHasDiscarded
  <2>3. LatestBacked'
    <3> SUFFICES ASSUME NEW s \in Requests, req'[s].pc = "unsendRewrite", HasConvo(req[s].conv)'
                 PROVE  \E n \in msgs' : n.id = req'[s].latest.messageId
      BY DEF LatestBacked
    <3>1. req'[s] = req[s]
      BY <1>5, <1>10 DEF TxnPcs
    <3>2. HasConvo(req[s].conv)
      BY <1>7, <3>1 DEF HasConvo
    <3> QED
      BY <1>4, <3>1, <3>2 DEF SafeInv, DocInv, LatestBacked
  <2> QED
    BY <2>1, <2>2, <2>3 DEF DocInv
<1>14. AimInv'
  <2>0. AimInv
    BY DEF SafeInv
  <2>1. ASSUME NEW s \in Requests, req'[s].pc \in TargetPcs
        PROVE  req'[s] = req[s] /\ req[s].mid < q.mid /\ req[s].mid \in Nat
    <3>1. req'[s] = req[s]
      BY <1>5, <1>10, <2>1 DEF TxnPcs, TargetPcs
    <3>2. req[s].mid \in Nat
      BY <2>1, <3>1, MsgNat
    <3> QED
      BY <1>1, <2>0, <2>1, <3>1, <3>2 DEF AimInv, TargetOwned, Pending
  <2>2. TargetOwned'
    <3>1. ASSUME NEW s \in Requests, req'[s].pc = "unsendMark", NEW n \in msgs', n.id = req'[s].mid
          PROVE  n.from = req'[s].user /\ n.conv = req'[s].conv
      <4>1. req'[s].pc \in TargetPcs
        BY <3>1 DEF TargetPcs
      <4>2. n \in msgs
        BY <1>1, <1>4, <1>6, <2>1, <3>1, <4>1
      <4> QED
        BY <2>0, <2>1, <3>1, <4>1, <4>2 DEF AimInv, TargetOwned
    <3>2. ASSUME NEW s \in Requests, req'[s].pc \in MarkedPcs, NEW n \in msgs', n.id = req'[s].mid
          PROVE  n.unsent
      <4>1. req'[s].pc \in TargetPcs
        BY <3>2 DEF TargetPcs, MarkedPcs
      <4>2. n \in msgs
        BY <1>1, <1>4, <1>6, <2>1, <3>2, <4>1
      <4> QED
        BY <2>0, <2>1, <3>2, <4>1, <4>2 DEF AimInv, TargetOwned
    <3> QED
      BY <1>10, <3>1, <3>2 DEF TargetOwned, Pending
  <2>3. RetractedPast'
    BY <1>4, <1>10, <2>0 DEF AimInv, RetractedPast, Pending
  <2>4. RetractedIsUnsent'
    <3>1. q.mid \notin retracted
      <4>1. q.mid < q.mid => FALSE
        BY <1>1
      <4> QED
        BY <1>1, <2>0, <4>1 DEF AimInv, RetractedPast, Pending
    <3> QED
      BY <1>4, <1>6, <2>0, <3>1 DEF AimInv, RetractedIsUnsent
  <2> QED
    BY <2>2, <2>3, <2>4 DEF AimInv
<1>15. BadgeInv'
  <2>0. BadgeInv
    BY DEF SafeInv
  <2>1. IsFiniteSet(msgs) /\ IsFiniteSet(msgs')
    BY <1>4, <2>0, FS_AddElement DEF BadgeInv, ResetPast
  <2>2. ResetPast'
    BY <1>4, <1>8, <1>10, <2>0, <2>1 DEF BadgeInv, ResetPast, Pending
  <2>3. m \notin msgs
    BY <1>1, <1>3, <1>6
  <2>4. ASSUME NEW u \in Participants
        PROVE  convo'.unreadCounts[u] = Badge(msgs', u, hist'.resetAt[u])
    <3>1. q.mid > hist.resetAt[u]
      <4>1. hist.resetAt[u] < q.mid
        BY <1>1, <2>0 DEF BadgeInv, ResetPast, Pending
      <4>2. hist.resetAt[u] \in Nat
        BY MsgNat
      <4> QED
        BY <1>1, <4>1, <4>2
    <3>2. Badge(msgs \cup {m}, u, hist.resetAt[u]) =
            IF q.user # u THEN Badge(msgs, u, hist.resetAt[u]) + 1
            ELSE Badge(msgs, u, hist.resetAt[u])
      BY <1>6, <2>1, <2>3, <3>1, BadgeNew
    <3>3. convo.unreadCounts[u] = Badge(msgs, u, hist.resetAt[u])
      BY <1>7, <2>0, BadgeMeaning DEF BadgeInv
    <3> QED
      BY <1>4, <1>7, <1>8, <3>2, <3>3
  <2>5. UnreadExact'
    BY <2>4 DEF UnreadExact, Badge
  <2> QED
    BY <2>2, <2>5 DEF BadgeInv
<1>16. ClearInv'
  <2>0. ClearInv
    BY DEF SafeInv
  <2>1. DiscardedStored'
    BY <1>4, <1>7, <1>8, <2>0 DEF ClearInv, DiscardedStored
  <2>2. NoUnsend => \A s \in Requests : req'[s].pc \notin TargetPcs
    BY <1>5, <1>10, <2>0 DEF ClearInv, PreviewOnlyGrows, TargetPcs
  <2>3. NewestShown'
    <3>1. \A n \in msgs' : n.id <= q.mid
      BY <1>1, <1>3, <1>4, <1>6, MsgNat
    <3> QED
      BY <1>7, <3>1 DEF NewestShown
  <2>4. ASSUME NoUnsend PROVE ClearedHidden'
    <3> SUFFICES ASSUME NEW u \in Participants, NEW n \in Visible(u)' PROVE n.id \notin hist.discarded[u]
      BY <1>8 DEF ClearedHidden
    <3>1. n \in Visible(u) \cup {m}
      BY <1>4, <1>7 DEF Visible
    <3>2. q.mid \notin hist.discarded[u]
      BY <1>1, <1>3, <1>7, <2>0 DEF ClearInv, DiscardedStored
    <3> QED
      BY <1>6, <2>0, <2>4, <3>1, <3>2 DEF ClearInv, PreviewOnlyGrows, ClearedHidden
  <2> QED
    BY <2>1, <2>2, <2>3, <2>4 DEF ClearInv, PreviewOnlyGrows, NoUnsend
<1> QED
  BY <1>11, <1>12, <1>13, <1>14, <1>15, <1>16 DEF SafeInv

(* The one emission and the one push for a message.                        *)
LEMMA AnnounceRest ==
  ASSUME CoreInv, SafeInv, NEW r \in Requests, Announce(r)
  PROVE  SafeInv'
<1> DEFINE q == req[r]
<1>1. /\ q.pc = "announce" /\ q.mid \in MsgIds /\ q.mid < nextMsg
      /\ Goto(r, Idle) /\ UNCHANGED <<db, retracted, hist>>
      /\ announced' = [announced EXCEPT ![q.mid] = announced[q.mid] + 1]
      /\ pushed' = [pushed EXCEPT ![q.mid] = pushed[q.mid] \cup (Others(q.user) \ q.snap.mutedBy)]
  BY MsgNat DEF Announce, DraftPcs
<1>2. /\ Idle.pc \notin {"sendCheck", "sendCommit", "announce", "unsendMark", "unsendRewrite"}
      /\ Idle.pc \notin LandPcs /\ Idle.pc \notin MarkedPcs /\ Idle.pc \notin TargetPcs
      /\ Idle.pc \notin DraftPcs
  BY DEF Idle, LandPcs, MarkedPcs, TargetPcs, DraftPcs
<1>3. /\ nextMsg' = nextMsg /\ nextMsg' \in Nat /\ nextMsg <= nextMsg'
      /\ UNCHANGED <<convo, msgs, blockedBy, retracted>> /\ Moved(r, Idle)
  BY <1>1, MsgNat DEF db, Moved
<1>4. GateInv'
  BY <1>1, <1>2, <1>3, GateAfter DEF SafeInv
<1>5. DocInv'
  BY <1>1, <1>2, <1>3, DocAfter DEF SafeInv
<1>6. AimInv'
  BY <1>2, <1>3, AimAfter DEF SafeInv
<1>7. BadgeInv'
  BY <1>1, <1>2, <1>3, BadgeAfter DEF SafeInv
<1>8. ClearInv'
  BY <1>1, <1>2, <1>3, ClearAfter DEF SafeInv
<1>9. OutInv'
  <2>0. OutInv
    BY DEF SafeInv
  <2>1. /\ announced[q.mid] = 0 /\ pushed[q.mid] = {}
        /\ q.snap.mutedBy = hist.silenced[q.mid]
    BY <1>1, <2>0 DEF OutInv, OutputPending, DraftPcs
  <2>2. \A i \in MsgIds : /\ announced'[i] = IF i = q.mid THEN 1 ELSE announced[i]
                          /\ pushed'[i] = IF i = q.mid THEN Others(q.user) \ q.snap.mutedBy ELSE pushed[i]
    BY <1>1, <2>1 DEF CoreInv, TypeInv, TypeOK
  <2>3. AnnouncedOnce'
    BY <2>0, <2>2 DEF OutInv, AnnouncedOnce
  <2>4. MuteHonoured'
    BY <1>1, <2>0, <2>1, <2>2 DEF OutInv, MuteHonoured
  <2>5. ASSUME NEW i \in MsgIds,
               i >= nextMsg' \/ \E s \in Requests : req'[s].pc \in DraftPcs /\ req'[s].mid = i
        PROVE  i # q.mid /\ (i >= nextMsg \/ \E s \in Requests : req[s].pc \in DraftPcs /\ req[s].mid = i)
    <3>1. CASE i >= nextMsg'
      BY <1>1, <1>3, <3>1, MsgNat
    <3>2. ASSUME NEW s \in Requests, req'[s].pc \in DraftPcs, req'[s].mid = i
          PROVE  i # q.mid /\ req[s].pc \in DraftPcs /\ req[s].mid = i
      <4>1. s # r
        BY <1>2, <1>3, <3>2, OthersLeft
      <4>2. req[s].pc \in DraftPcs /\ req[s].mid = i
        BY <1>3, <3>2, <4>1, OthersLeft
      <4>3. q.pc \in DraftPcs
        BY <1>1 DEF DraftPcs
      <4> QED
        BY <4>1, <4>2, <4>3 DEF CoreInv, FreshIds
    <3> QED
      BY <2>5, <3>1, <3>2
  <2>6. ASSUME NEW s \in Requests, req'[s].pc = "announce"
        PROVE  req'[s].snap.mutedBy = hist'.silenced[req'[s].mid]
    <3>1. s # r
      BY <1>2, <1>3, <2>6, OthersLeft
    <3>2. req'[s] = req[s]
      BY <1>3, <2>6, <3>1, OthersLeft DEF TxnPcs
    <3> QED
      BY <1>1, <2>0, <2>6, <3>2 DEF OutInv, OutputPending
  <2>7. OutputPending'
    BY <2>0, <2>2, <2>5, <2>6 DEF OutInv, OutputPending
  <2> QED
    BY <2>3, <2>4, <2>7 DEF OutInv
<1> QED
  BY <1>4, <1>5, <1>6, <1>7, <1>8, <1>9 DEF SafeInv

LEMMA HiddenFields ==
  ASSUME NEW c \in Convo, NEW u \in Participants
  PROVE  /\ Hidden(c, u).id = c.id
         /\ Hidden(c, u).lastMessage = c.lastMessage
         /\ Hidden(c, u).deletedFor = c.deletedFor \cup {u}
         /\ \A p \in Participants :
              /\ Hidden(c, u).unreadCounts[p] = IF p = u THEN 0 ELSE c.unreadCounts[p]
              /\ Hidden(c, u).clearedAt[p] = IF p = u THEN c.lastMessage.messageId
                                             ELSE c.clearedAt[p]
BY DEF Hidden, Convo

(* Nothing is newer than the newest message.                               *)
LEMMA BadgeReset ==
  ASSUME CoreInv, NEW u, NEW k \in Nat, k = nextMsg - 1
  PROVE  Badge(msgs, u, k) = 0
<1>1. {n \in msgs : n.from # u /\ n.id > k} = {}
  <2>1. \A n \in msgs : ~(n.id > k)
    BY MsgNat
  <2> QED
    BY <2>1
<1> QED
  BY <1>1, FS_EmptySet DEF Badge

(* A write that clears the badge of u resets its count.                    *)
LEMMA BadgeCleared ==
  ASSUME CoreInv, BadgeInv, NEW r \in Requests, NEW call, GotoWriting(r, call),
         ~Pending(call), NEW u \in Participants, convo # None,
         UNCHANGED <<msgs, nextMsg>>,
         \A p \in Participants :
           /\ hist'.resetAt[p] = IF p = u THEN nextMsg - 1 ELSE hist.resetAt[p]
           /\ convo'.unreadCounts[p] = IF p = u THEN 0 ELSE convo.unreadCounts[p]
  PROVE  BadgeInv'
<1>1. ResetPast'
  <2>1. ASSUME NEW p \in Participants PROVE hist'.resetAt[p] < nextMsg'
    <3>1. hist.resetAt[p] < nextMsg
      BY DEF BadgeInv, ResetPast
    <3>2. nextMsg - 1 < nextMsg
      BY MsgNat
    <3>3. hist'.resetAt[p] = nextMsg - 1 \/ hist'.resetAt[p] = hist.resetAt[p]
      OBVIOUS
    <3> QED
      BY <3>1, <3>2, <3>3
  <2>2. \A s \in Requests : ~Pending((req[s])')
    BY OthersLeft DEF Moved
  <2> QED
    BY <2>1, <2>2 DEF BadgeInv, ResetPast, Pending
<1>2. ASSUME NEW p \in Participants
      PROVE  convo'.unreadCounts[p] = Badge(msgs', p, hist'.resetAt[p])
  <2>1. convo.unreadCounts[p] = Badge(msgs, p, hist.resetAt[p])
    BY BadgeMeaning DEF BadgeInv
  <2>2. CASE p = u
    <3>1. hist'.resetAt[p] = nextMsg - 1 /\ convo'.unreadCounts[p] = 0
      BY <2>2
    <3>2. PICK k \in Nat : k = nextMsg - 1
      BY BoundsAssumption DEF CoreInv, TypeInv, TypeOK
    <3>3. Badge(msgs, p, k) = 0
      BY <3>2, BadgeReset
    <3> QED
      BY <3>1, <3>2, <3>3
  <2>3. CASE p # u
    BY <2>1, <2>3
  <2> QED
    BY <2>2, <2>3
<1>3. UnreadExact'
  BY <1>2 DEF UnreadExact, Badge
<1> QED
  BY <1>1, <1>3 DEF BadgeInv

(* The commit of a hide.                                                   *)
LEMMA HideCommitRest ==
  ASSUME CoreInv, SafeInv, NEW r \in Requests, HideCommit(r)
  PROVE  SafeInv'
<1> DEFINE q == req[r]
           u == q.user
           ids == {m.id : m \in msgs}
<1>1. q.pc = "hideCommit" /\ ~q.stale /\ u \in Participants
  <2>1. q.pc = "hideCommit" /\ ~q.stale
    BY DEF HideCommit, MayCommit
  <2> QED
    BY <2>1, CallFields DEF CoreInv, Pcs, TxnPcs
<1>2. q.snap = convo /\ convo \in Convo /\ convo # None /\ q.conv = convo.id
  BY <1>1, NoneAssumption DEF CoreInv, SnapshotCurrent, Current, TxnPcs, TypeInv, CallShape, Shape
<1>3. GotoWriting(r, Idle) /\ UNCHANGED <<blockedBy, nextMsg, announced, retracted, pushed>>
  BY DEF HideCommit, out
<1>4. /\ hist'.sawOpen = hist.sawOpen /\ hist'.silenced = hist.silenced
      /\ \A p \in Participants :
           /\ hist'.discarded[p] = IF p = u THEN hist.discarded[p] \cup ids ELSE hist.discarded[p]
           /\ hist'.resetAt[p] = IF p = u THEN nextMsg - 1 ELSE hist.resetAt[p]
  BY <1>1 DEF HideCommit, CoreInv, TypeInv, TypeOK, History
<1>5. /\ Idle.pc \notin {"sendCheck", "sendCommit", "announce", "unsendMark", "unsendRewrite"}
      /\ Idle.pc \notin LandPcs /\ Idle.pc \notin MarkedPcs /\ Idle.pc \notin TargetPcs
      /\ ~Pending(Idle)
  BY DEF Idle, LandPcs, MarkedPcs, TargetPcs, Pending
<1>6. nextMsg' = nextMsg /\ nextMsg \in Nat /\ nextMsg' \in Nat /\ nextMsg <= nextMsg'
  BY <1>3, MsgNat
<1>7. Moved(r, Idle)
  BY <1>3 DEF Moved
<1>8. \A s \in Requests :
        /\ ~Pending((req[s])')
        /\ req'[s].pc \in TargetPcs => req'[s] = req[s]
  BY <1>3, <1>5, <1>7, OthersLeft DEF TxnPcs, TargetPcs
<1>9. GateInv'
  BY <1>3, <1>4, <1>5, <1>7, GateAfter DEF SafeInv
<1>10. OutInv'
  BY <1>3, <1>4, <1>5, <1>6, <1>7, OutAfter DEF SafeInv
<1>11. NoUnsend => \A s \in Requests : req'[s].pc \notin TargetPcs
  BY <1>8 DEF SafeInv, ClearInv, PreviewOnlyGrows
<1> HIDE DEF ids
<1>12. CASE convo' = None /\ msgs' = Purged(msgs, q.conv)
  <2>1. msgs' = {}
    BY <1>2, <1>12 DEF CoreInv, NoOrphans, HasConvo, Purged
  <2>2. DocInv'
    BY <1>12 DEF DocInv, PreviewBacked, LatestBacked, HasConvo, HiddenHasDiscarded
  <2>3. AimInv'
    <3>1. TargetOwned'
      BY <1>8, <2>1 DEF TargetOwned, Pending
    <3>2. RetractedPast'
      BY <1>3, <1>8 DEF SafeInv, AimInv, RetractedPast, Pending
    <3>3. RetractedIsUnsent'
      BY <2>1 DEF RetractedIsUnsent
    <3> QED
      BY <3>1, <3>2, <3>3 DEF AimInv
  <2>4. BadgeInv'
    <3>1. ASSUME NEW p \in Participants PROVE hist'.resetAt[p] < nextMsg'
      <4>1. hist.resetAt[p] < nextMsg /\ nextMsg - 1 < nextMsg
        BY <1>6 DEF SafeInv, BadgeInv, ResetPast
      <4>2. hist'.resetAt[p] = nextMsg - 1 \/ hist'.resetAt[p] = hist.resetAt[p]
        BY <1>4
      <4> QED
        BY <1>6, <4>1, <4>2
    <3>2. IsFiniteSet(msgs')
      BY <2>1, FS_EmptySet
    <3> QED
      BY <1>8, <1>12, <3>1, <3>2 DEF BadgeInv, ResetPast, UnreadExact, Pending
  <2>5. ClearInv'
    <3>1. \A p \in Participants : Visible(p)' = {}
      BY <1>12 DEF Visible
    <3>2. DiscardedStored' /\ NewestShown' /\ ClearedHidden'
      BY <1>12, <3>1 DEF DiscardedStored, NewestShown, ClearedHidden
    <3> QED
      BY <1>11, <3>2 DEF ClearInv, PreviewOnlyGrows, NoUnsend
  <2> QED
    BY <1>9, <1>10, <2>2, <2>3, <2>4, <2>5 DEF SafeInv
<1>13. CASE convo' = Hidden(q.snap, u) /\ UNCHANGED msgs
  <2>1. /\ convo' # None /\ convo'.id = convo.id
        /\ convo'.lastMessage = convo.lastMessage
        /\ convo'.deletedFor = convo.deletedFor \cup {u}
        /\ \A p \in Participants :
             /\ convo'.unreadCounts[p] = IF p = u THEN 0 ELSE convo.unreadCounts[p]
             /\ convo'.clearedAt[p] = IF p = u THEN convo.lastMessage.messageId ELSE convo.clearedAt[p]
    <3>1. convo' \in Convo
      BY <1>1, <1>2, <1>13, ConvoTypes
    <3> QED
      BY <1>1, <1>2, <1>13, <3>1, HiddenFields, NoneAssumption
  <2>2. DocInv'
    <3>1. PreviewBacked'
      BY <1>2, <1>13, <2>1 DEF SafeInv, DocInv, PreviewBacked
    <3>2. LatestBacked'
      <4>1. \A s \in Requests : req'[s].pc = "unsendRewrite" => req'[s] = req[s]
        BY <1>8 DEF TargetPcs
      <4> QED
        BY <1>2, <1>13, <2>1, <4>1 DEF SafeInv, DocInv, LatestBacked, HasConvo
    <3>3. HiddenHasDiscarded'
      <4> SUFFICES ASSUME NEW p \in convo'.deletedFor, NEW m \in msgs
                   PROVE  m.id \in hist'.discarded[p]
        BY <1>13 DEF HiddenHasDiscarded
      <4>1. p \in Participants
        BY <1>1, <1>2, <2>1 DEF Convo
      <4>2. m.id \in ids
        BY DEF ids
      <4> QED
        BY <1>2, <1>4, <2>1, <4>1, <4>2 DEF SafeInv, DocInv, HiddenHasDiscarded
    <3> QED
      BY <3>1, <3>2, <3>3 DEF DocInv
  <2>3. AimInv'
    BY <1>3, <1>5, <1>6, <1>7, <1>13, AimAfter DEF SafeInv
  <2>4. BadgeInv'
    BY <1>1, <1>2, <1>3, <1>4, <1>5, <1>13, <2>1, BadgeCleared DEF SafeInv
  <2>5. ClearInv'
    <3>1. DiscardedStored'
      <4> SUFFICES ASSUME NEW p \in Participants, NEW i \in hist'.discarded[p]
                   PROVE  \E m \in msgs : m.id = i
        BY <1>13 DEF DiscardedStored
      <4>1. CASE i \in hist.discarded[p]
        BY <1>2, <4>1 DEF SafeInv, ClearInv, DiscardedStored
      <4>2. CASE i \in ids
        BY <4>2 DEF ids
      <4> QED
        BY <1>4, <4>1, <4>2
    <3>2. ASSUME NoUnsend PROVE NewestShown'
      BY <1>2, <1>13, <2>1, <3>2 DEF SafeInv, ClearInv, PreviewOnlyGrows, NewestShown
    <3>3. ASSUME NoUnsend PROVE ClearedHidden'
      <4> SUFFICES ASSUME NEW p \in Participants, NEW m \in Visible(p)'
                   PROVE  m.id \notin hist'.discarded[p]
        BY DEF ClearedHidden
      <4>1. m \in msgs /\ m.conv = convo.id /\ m.id > convo'.clearedAt[p]
        BY <1>13, <2>1 DEF Visible
      <4>2. p # u
        <5>1. m.id <= convo.lastMessage.messageId
          BY <1>2, <3>3, <4>1 DEF SafeInv, ClearInv, PreviewOnlyGrows, NewestShown
        <5>2. m.id \in Nat /\ convo.lastMessage.messageId \in Nat
          BY <1>2, <4>1, MsgNat DEF Convo, Preview
        <5> QED
          BY <2>1, <4>1, <5>1, <5>2
      <4>3. m \in Visible(p)
        BY <1>2, <2>1, <4>1, <4>2 DEF Visible
      <4> QED
        BY <1>4, <3>3, <4>2, <4>3 DEF SafeInv, ClearInv, PreviewOnlyGrows, ClearedHidden
    <3> QED
      BY <1>11, <3>1, <3>2, <3>3 DEF ClearInv, PreviewOnlyGrows, NoUnsend
  <2> QED
    BY <1>9, <1>10, <2>2, <2>3, <2>4, <2>5 DEF SafeInv
<1> QED
  BY <1>12, <1>13 DEF HideCommit

(* markRead, setMute and requests that are cut off.                        *)
LEMMA ReadRest ==
  ASSUME CoreInv, SafeInv, NEW r \in Requests, ReadApply(r)
  PROVE  SafeInv'
<1> DEFINE q == req[r]
           u == q.user
<1>1. /\ u \in Participants /\ q.mid \in MsgRefs
      /\ UNCHANGED <<msgs, blockedBy, nextMsg, nextConv, out>>
  BY CallFields DEF ReadApply, CoreInv, Pcs
<1>2. CASE Goto(r, Idle) /\ UNCHANGED <<convo, hist>>
  BY <1>1, <1>2, QuietRest DEF db
<1>3. CASE /\ HasConvo(q.conv) /\ GotoWriting(r, Idle)
           /\ convo' = [convo EXCEPT !.unreadCounts[u] = 0]
           /\ hist' = [hist EXCEPT !.resetAt[u] = nextMsg - 1]
  <2>1. convo \in Convo /\ convo # None
    BY <1>3 DEF HasConvo, CoreInv, TypeInv, TypeOK
  <2>2. /\ convo' # None /\ convo'.id = convo.id
        /\ convo'.lastMessage = convo.lastMessage
        /\ convo'.deletedFor = convo.deletedFor
        /\ convo'.clearedAt = convo.clearedAt
        /\ \A p \in Participants : convo'.unreadCounts[p] = IF p = u THEN 0 ELSE convo.unreadCounts[p]
    <3>1. convo' \in Convo
      BY <1>1, <1>3, <2>1, UpdateTypes
    <3> QED
      BY <1>3, <2>1, <3>1, NoneAssumption DEF Convo
  <2>3. /\ hist'.sawOpen = hist.sawOpen /\ hist'.silenced = hist.silenced
        /\ hist'.discarded = hist.discarded
        /\ \A p \in Participants :
             hist'.resetAt[p] = IF p = u THEN nextMsg - 1 ELSE hist.resetAt[p]
    BY <1>1, <1>3 DEF CoreInv, TypeInv, TypeOK, History
  <2>4. /\ Idle.pc \notin {"sendCheck", "sendCommit", "announce", "unsendMark", "unsendRewrite"}
        /\ Idle.pc \notin LandPcs /\ Idle.pc \notin MarkedPcs /\ Idle.pc \notin TargetPcs
        /\ ~Pending(Idle)
    BY DEF Idle, LandPcs, MarkedPcs, TargetPcs, Pending
  <2>5. /\ nextMsg' \in Nat /\ nextMsg <= nextMsg'
        /\ UNCHANGED <<msgs, blockedBy, announced, retracted, pushed>>
    BY <1>1, MsgNat DEF out
  <2>6. Moved(r, Idle)
    BY <1>3 DEF Moved
  <2>7. GateInv'
    BY <2>3, <2>4, <2>5, <2>6, GateAfter DEF SafeInv
  <2>8. OutInv'
    BY <2>3, <2>4, <2>5, <2>6, OutAfter DEF SafeInv
  <2>9. DocInv'
    BY <2>1, <2>2, <2>3, <2>4, <2>5, <2>6, DocAfter DEF SafeInv
  <2>10. AimInv'
    BY <2>4, <2>5, <2>6, AimAfter DEF SafeInv
  <2>11. BadgeInv'
    BY <1>1, <1>3, <2>1, <2>2, <2>3, <2>4, BadgeCleared DEF SafeInv
  <2>12. ClearInv'
    BY <2>1, <2>2, <2>3, <2>4, <2>5, <2>6, ClearAfter DEF SafeInv
  <2> QED
    BY <2>7, <2>8, <2>9, <2>10, <2>11, <2>12 DEF SafeInv
<1> QED
  BY <1>2, <1>3 DEF ReadApply

LEMMA MuteRest ==
  ASSUME CoreInv, SafeInv, NEW r \in Requests, MuteApply(r)
  PROVE  SafeInv'
<1> DEFINE q == req[r]
<1>1. q.user \in Participants /\ UNCHANGED <<msgs, blockedBy, nextMsg, nextConv, out, hist>>
  BY CallFields DEF MuteApply, CoreInv, Pcs
<1>2. CASE Goto(r, Idle) /\ UNCHANGED convo
  BY <1>1, <1>2, QuietRest DEF db
<1>3. ASSUME NEW ms, HasConvo(q.conv), GotoWriting(r, Idle), ms \subseteq Participants,
             convo' = [convo EXCEPT !.mutedBy = ms]
      PROVE  SafeInv'
  <2>1. convo \in Convo /\ convo # None
    BY <1>3 DEF HasConvo, CoreInv, TypeInv, TypeOK
  <2>2. SameDoc(convo, convo')
    <3>1. convo' \in Convo
      BY <1>3, <2>1, UpdateTypes
    <3> QED
      BY <1>3, <2>1, <3>1, NoneAssumption DEF Convo, SameDoc
  <2> QED
    BY <1>1, <1>3, <2>2, PlainStep, IdleShape, PlainPcs DEF Moved
<1>4. CASE /\ HasConvo(q.conv) /\ GotoWriting(r, Idle)
           /\ convo' = [convo EXCEPT !.mutedBy = IF q.on THEN convo.mutedBy \cup {q.user}
                                                 ELSE convo.mutedBy \ {q.user}]
  <2>1. convo \in Convo
    BY <1>4 DEF HasConvo, CoreInv, TypeInv, TypeOK
  <2>2. (IF q.on THEN convo.mutedBy \cup {q.user} ELSE convo.mutedBy \ {q.user}) \subseteq Participants
    BY <1>1, <2>1 DEF Convo
  <2> QED
    BY <1>3, <1>4, <2>2
<1> QED
  BY <1>2, <1>4 DEF MuteApply

LEMMA RetryRest ==
  ASSUME CoreInv, SafeInv, NEW r \in Requests, TxnRetry(r)
  PROVE  SafeInv'
<1> DEFINE q == req[r]
<1>1. q.pc \in TxnPcs /\ UNCHANGED <<db, out>>
  BY DEF TxnRetry, InTxn
<1>2. q.user \in Participants /\ (q.pc # "hideCommit" => q.cid \in Cids)
  BY <1>1, CallFields DEF CoreInv, TypeInv, CallShape, Shape, Pcs, TxnPcs, SendPcs
<1>3. CASE q.pc # "hideCommit" /\ SendAttempt(r, q.user, q.conv, q.cid)
  BY <1>1, <1>2, <1>3, AttemptRest
<1>4. CASE HideAttempt(r, q.user, q.conv) /\ UNCHANGED hist
  BY <1>1, <1>2, <1>4, QuietRest
<1>5. CASE Goto(r, Idle) /\ UNCHANGED hist
  BY <1>1, <1>5, QuietRest
<1> QED
  BY <1>3, <1>4, <1>5 DEF TxnRetry

(* Blocks and unblocks move no request.                                    *)
LEMMA BlockRest ==
  ASSUME CoreInv, SafeInv, NEW u \in Participants, Block(u) \/ Unblock(u)
  PROVE  SafeInv'
<1>1. UNCHANGED <<convo, msgs, nextMsg, nextConv, req, announced, retracted, pushed>>
  BY DEF Block, Unblock, out
<1>2. /\ hist'.discarded = hist.discarded /\ hist'.resetAt = hist.resetAt
      /\ hist'.silenced = hist.silenced
  BY DEF Block, Unblock, CoreInv, TypeInv, TypeOK, History
<1>3. GateInv'
  <2>1. CASE Block(u)
    <3>1. ~(Open') /\ hist' = hist
      BY <2>1 DEF Block, Open
    <3> QED
      BY <1>1, <3>1 DEF SafeInv, GateInv, OpenSeen, BlockedNeverLands
  <2>2. CASE Unblock(u)
    <3>1. hist'.sawOpen = IF Open' THEN Requests ELSE hist.sawOpen
      BY <2>2 DEF Unblock, CoreInv, TypeInv, TypeOK, History
    <3> QED
      BY <1>1, <3>1 DEF SafeInv, GateInv, OpenSeen, BlockedNeverLands
  <2> QED
    BY <2>1, <2>2
<1>4. OutInv'
  BY <1>1, <1>2 DEF SafeInv, OutInv, OutputPending, AnnouncedOnce, MuteHonoured
<1>5. DocInv'
  BY <1>1, <1>2 DEF SafeInv, DocInv, PreviewBacked, LatestBacked, HiddenHasDiscarded, HasConvo
<1>6. AimInv'
  BY <1>1 DEF SafeInv, AimInv, TargetOwned, RetractedPast, RetractedIsUnsent
<1>7. BadgeInv'
  BY <1>1, <1>2 DEF SafeInv, BadgeInv, ResetPast, UnreadExact
<1>8. ClearInv'
  BY <1>1, <1>2 DEF SafeInv, ClearInv, DiscardedStored, PreviewOnlyGrows, NewestShown,
     ClearedHidden, Visible, NoUnsend
<1> QED
  BY <1>3, <1>4, <1>5, <1>6, <1>7, <1>8 DEF SafeInv

LEMMA SameSize ==
  ASSUME NEW S, NEW T, IsFiniteSet(S), NEW f \in [S -> T],
         \A x, y \in S : f[x] = f[y] => x = y,
         \A y \in T : \E x \in S : f[x] = y
  PROVE  IsFiniteSet(T) /\ Cardinality(T) = Cardinality(S)
<1>1. f \in Bijection(S, T)
  BY DEF Bijection, Injection, Surjection, IsInjective
<1> QED
  BY <1>1, FS_Bijection DEF ExistsBijection

(* A tombstone leaves as many messages, and as many unread ones.           *)
LEMMA BadgeTombstone ==
  ASSUME NEW ms \in SUBSET Message, IsFiniteSet(ms),
         \A m, n \in ms : m.id = n.id => m = n, NEW id, NEW i
  PROVE  /\ IsFiniteSet(Tombstone(ms, id, i))
         /\ \A u, k : Badge(Tombstone(ms, id, i), u, k) = Badge(ms, u, k)
<1> DEFINE mark(n) == IF n.id = i /\ n.conv = id THEN [n EXCEPT !.unsent = TRUE] ELSE n
           ts == Tombstone(ms, id, i)
<1>1. ASSUME NEW n \in ms
      PROVE  mark(n) \in ts /\ mark(n).id = n.id /\ mark(n).from = n.from
  BY DEF Message, Tombstone
<1>2. \A m \in ts : \E n \in ms : m = mark(n)
  BY DEF Tombstone
<1> HIDE DEF mark, ts
<1>3. IsFiniteSet(ts)
  <2> DEFINE f == [n \in ms |-> mark(n)]
  <2>1. f \in [ms -> ts]
    BY <1>1
  <2>2. \A x, y \in ms : f[x] = f[y] => x = y
    BY <1>1
  <2>3. \A y \in ts : \E x \in ms : f[x] = y
    BY <1>2
  <2> HIDE DEF f
  <2> QED
    BY <2>1, <2>2, <2>3, SameSize
<1>4. ASSUME NEW u, NEW k PROVE Badge(ts, u, k) = Badge(ms, u, k)
  <2> DEFINE S == {n \in ms : n.from # u /\ n.id > k}
             T == {n \in ts : n.from # u /\ n.id > k}
             f == [n \in S |-> mark(n)]
  <2>0. Badge(ts, u, k) = Cardinality(T) /\ Badge(ms, u, k) = Cardinality(S)
    BY DEF Badge
  <2>1. f \in [S -> T]
    BY <1>1
  <2>2. \A x, y \in S : f[x] = f[y] => x = y
    BY <1>1
  <2>3. \A y \in T : \E x \in S : f[x] = y
    BY <1>1, <1>2
  <2>4. IsFiniteSet(S)
    BY FS_Subset
  <2> HIDE DEF f, S, T
  <2> QED
    BY <2>0, <2>1, <2>2, <2>3, <2>4, SameSize
<1> QED
  BY <1>3, <1>4 DEF ts

(* An unsend, until it tombstones and after.                               *)
LEMMA UnsendKind ==
  ASSUME ClearInv, NEW r \in Requests, req[r].pc \in TargetPcs
  PROVE  ~NoUnsend
BY DEF ClearInv, PreviewOnlyGrows

LEMMA ClearUnsend ==
  ASSUME ClearInv, ~NoUnsend, hist'.discarded = hist.discarded,
         convo' # None => convo # None,
         \A m \in msgs : \E n \in msgs' : n.id = m.id
  PROVE  ClearInv'
<1>1. DiscardedStored'
  <2> SUFFICES ASSUME convo' # None, NEW u \in Participants, NEW i \in hist'.discarded[u]
               PROVE  \E n \in msgs' : n.id = i
    BY DEF DiscardedStored
  <2>1. PICK m \in msgs : m.id = i
    BY DEF ClearInv, DiscardedStored
  <2> QED
    BY <2>1
<1> QED
  BY <1>1 DEF ClearInv, PreviewOnlyGrows, NoUnsend

LEMMA UnsendBeginRest ==
  ASSUME CoreInv, SafeInv, NEW r \in Requests, NEW u \in Participants, NEW i \in MsgIds,
         UnsendBegin(r, u, i)
  PROVE  SafeInv'
<1> DEFINE call == [NewCall("unsendLoad", u, None, i) EXCEPT !.conv = convo.id, !.snap = convo]
<1>1. call.pc = "unsendLoad" /\ call.mid = i
  BY DEF NewCall
<1>2. Moved(r, call) /\ UNCHANGED <<db, out, hist>> /\ ~NoUnsend
  BY DEF UnsendBegin, Moved, NoUnsend
<1>3. PICK m \in msgs : m.id = i
  BY DEF UnsendBegin
<1> HIDE DEF call
<1>4. call.pc \notin {"sendCheck", "sendCommit", "announce", "unsendMark", "unsendRewrite"}
                       \cup LandPcs \cup MarkedPcs
  BY <1>1 DEF LandPcs, MarkedPcs
<1>5. /\ nextMsg' \in Nat /\ nextMsg <= nextMsg'
      /\ UNCHANGED <<convo, msgs, blockedBy, announced, retracted, pushed>>
  BY <1>2, MsgNat DEF db, out
<1>6. \A s \in Requests \ {r} : Pending(req[s]) => call.mid < req[s].mid
  BY <1>1, <1>3 DEF CoreInv, FreshIds, Pending
<1>7. GateInv'
  BY <1>2, <1>4, <1>5, GateAfter DEF SafeInv
<1>8. OutInv'
  BY <1>2, <1>4, <1>5, OutAfter DEF SafeInv
<1>9. DocInv'
  BY <1>2, <1>4, <1>5, DocAfter DEF SafeInv
<1>10. AimInv'
  BY <1>2, <1>4, <1>5, <1>6, AimAfter DEF SafeInv
<1>11. BadgeInv'
  BY <1>2, <1>4, <1>5, BadgeAfter DEF SafeInv
<1>12. ClearInv'
  BY <1>2, <1>5, ClearUnsend DEF SafeInv
<1> QED
  BY <1>7, <1>8, <1>9, <1>10, <1>11, <1>12 DEF SafeInv

(* The reads of an unsend: what it found is still so.                      *)
LEMMA UnsendLoadRest ==
  ASSUME CoreInv, SafeInv, NEW r \in Requests, UnsendLoad(r)
  PROVE  SafeInv'
<1> DEFINE q == req[r]
           call == [q EXCEPT !.pc = "unsendMark"]
<1>1. q \in Call /\ q.pc = "unsendLoad" /\ UNCHANGED <<db, out, hist>>
  BY CallFields DEF UnsendLoad, CoreInv, Pcs
<1>2. CASE Goto(r, Idle)
  BY <1>1, <1>2, QuietRest
<1>3. ASSUME NEW m \in msgs, m.id = q.mid, m.conv = q.conv, m.from = q.user, Goto(r, call)
      PROVE  SafeInv'
  <2>1. /\ call.pc = "unsendMark" /\ call.mid = q.mid
        /\ call.user = q.user /\ call.conv = q.conv
    BY <1>1 DEF Call
  <2>2. Moved(r, call) /\ q.pc \in TargetPcs
    BY <1>1, <1>3 DEF Moved, TargetPcs
  <2> HIDE DEF call
  <2>3. /\ call.pc \notin {"sendCheck", "sendCommit", "announce", "unsendRewrite"}
                             \cup LandPcs \cup MarkedPcs
    BY <2>1 DEF LandPcs, MarkedPcs
  <2>4. /\ nextMsg' \in Nat /\ nextMsg <= nextMsg'
        /\ UNCHANGED <<convo, msgs, blockedBy, announced, retracted, pushed>>
    BY <1>1, MsgNat DEF db, out
  <2>5. \A n \in msgs : n.id = call.mid => n.from = call.user /\ n.conv = call.conv
    BY <1>3, <2>1 DEF CoreInv, FreshIds
  <2>6. \A s \in Requests \ {r} : Pending(req[s]) => call.mid < req[s].mid
    BY <2>1, <2>2 DEF SafeInv, AimInv, TargetOwned, Pending
  <2>7. GateInv'
    BY <1>1, <2>2, <2>3, <2>4, GateAfter DEF SafeInv
  <2>8. OutInv'
    BY <1>1, <2>2, <2>3, <2>4, OutAfter DEF SafeInv
  <2>9. DocInv'
    BY <1>1, <2>2, <2>3, <2>4, DocAfter DEF SafeInv
  <2>10. AimInv'
    BY <2>2, <2>3, <2>4, <2>5, <2>6, AimAfter DEF SafeInv
  <2>11. BadgeInv'
    BY <1>1, <2>2, <2>3, <2>4, BadgeAfter DEF SafeInv
  <2>12. ClearInv'
    BY <1>1, <2>2, <2>4, UnsendKind, ClearUnsend DEF SafeInv
  <2> QED
    BY <2>7, <2>8, <2>9, <2>10, <2>11, <2>12 DEF SafeInv
<1> QED
  BY <1>2, <1>3 DEF UnsendLoad

LEMMA TombstoneMarks ==
  ASSUME NEW ms \in SUBSET Message, NEW id, NEW i
  PROVE  /\ \A m \in Tombstone(ms, id, i) : \E n \in ms :
              /\ n.id = m.id /\ n.conv = m.conv /\ n.from = m.from
              /\ n.unsent => m.unsent
              /\ (n.id = i /\ n.conv = id) => m.unsent
         /\ \A n \in ms : \E m \in Tombstone(ms, id, i) : m.id = n.id
<1>1. ASSUME NEW n \in ms
      PROVE  LET m == IF n.id = i /\ n.conv = id
                      THEN [n EXCEPT !.unsent = TRUE] ELSE n
             IN  /\ n.id = m.id /\ n.conv = m.conv /\ n.from = m.from
                 /\ n.unsent => m.unsent
                 /\ (n.id = i /\ n.conv = id) => m.unsent
  BY DEF Message
<1> QED
  BY <1>1 DEF Tombstone

(* The tombstone: the one message with that id is unsent from now on.      *)
LEMMA UnsendMarkRest ==
  ASSUME CoreInv, SafeInv, NEW r \in Requests, UnsendMark(r)
  PROVE  SafeInv'
<1> DEFINE q == req[r]
<1>1. /\ q \in Call /\ q.pc = "unsendMark" /\ q.pc \in TargetPcs
      /\ UNCHANGED <<convo, blockedBy, nextMsg, nextConv, out, hist>>
      /\ msgs' = Tombstone(msgs, q.conv, q.mid)
  BY CallFields DEF UnsendMark, CoreInv, Pcs, TargetPcs
<1>2. PICK call : /\ Moved(r, call) /\ call.pc \in {"unsendLatest", "unsendEmit"}
                  /\ call.mid = q.mid
  <2>1. PICK pc \in {"unsendLatest", "unsendEmit"} : Goto(r, [q EXCEPT !.pc = pc, !.snap = None])
    BY DEF UnsendMark
  <2>2. [q EXCEPT !.pc = pc, !.snap = None].pc = pc /\ [q EXCEPT !.pc = pc, !.snap = None].mid = q.mid
    BY <1>1 DEF Call
  <2> QED
    BY <2>1, <2>2 DEF Moved
<1>3. msgs \in SUBSET Message
  BY DEF CoreInv, TypeInv, TypeOK
<1>4. \A m \in msgs' : \E n \in msgs :
        /\ n.id = m.id /\ n.conv = m.conv /\ n.from = m.from
        /\ n.unsent => m.unsent
        /\ (n.id = q.mid /\ n.conv = q.conv) => m.unsent
  <2>1. PICK id, i : id = q.conv /\ i = q.mid
    OBVIOUS
  <2>2. \A m \in Tombstone(msgs, id, i) : \E n \in msgs :
          /\ n.id = m.id /\ n.conv = m.conv /\ n.from = m.from
          /\ n.unsent => m.unsent
          /\ (n.id = i /\ n.conv = id) => m.unsent
    BY <1>3, TombstoneMarks
  <2> QED
    BY <1>1, <2>1, <2>2
<1>5. \A n \in msgs : \E m \in msgs' : m.id = n.id
  <2>1. PICK id, i : id = q.conv /\ i = q.mid
    OBVIOUS
  <2>2. \A n \in msgs : \E m \in Tombstone(msgs, id, i) : m.id = n.id
    BY <1>3, TombstoneMarks
  <2> QED
    BY <1>1, <2>1, <2>2
<1>6. call.pc \notin {"sendCheck", "sendCommit", "announce", "unsendMark", "unsendRewrite"} \cup LandPcs
  BY <1>2 DEF LandPcs
<1>7. /\ nextMsg' \in Nat /\ nextMsg <= nextMsg'
      /\ UNCHANGED <<convo, nextMsg, blockedBy, announced, retracted, pushed>>
  BY <1>1, MsgNat DEF out
<1>8. /\ req'[r] = call
      /\ \A s \in Requests \ {r} : /\ req[s].pc \notin TxnPcs => req'[s] = req[s]
                                   /\ req'[s].pc = req[s].pc /\ req'[s].mid = req[s].mid
      /\ \A s \in Requests : Pending((req[s])') => Pending(req[s]) /\ req'[s].mid = req[s].mid
  <2>1. ~Pending(call)
    BY <1>6 DEF Pending
  <2> QED
    BY <1>2, <2>1, OthersLeft
<1> HIDE DEF q
<1>9. GateInv'
  BY <1>1, <1>2, <1>6, <1>7, GateAfter DEF SafeInv
<1>10. OutInv'
  BY <1>1, <1>2, <1>6, <1>7, OutAfter DEF SafeInv
<1>11. DocInv'
  <2>1. \A m \in msgs' : \E n \in msgs : n.id = m.id
    BY <1>4
  <2> QED
    BY <1>1, <1>2, <1>5, <1>6, <1>7, <2>1, DocAfter DEF SafeInv
<1>12. AimInv'
  <2>0. AimInv
    BY DEF SafeInv
  <2>1. ASSUME NEW s \in Requests, req'[s].pc \in TargetPcs
        PROVE  /\ req[s].pc \in TargetPcs /\ req'[s].mid = req[s].mid
               /\ s # r => req'[s] = req[s]
    BY <1>1, <1>2, <1>8, <2>1 DEF q, TxnPcs, TargetPcs
  <2>2. \A s \in Requests : req'[s].pc \in TargetPcs =>
          \A t \in Requests : Pending((req[t])') => req'[s].mid < req'[t].mid
    BY <1>8, <2>0, <2>1 DEF AimInv, TargetOwned, Pending
  <2>3. ASSUME NEW s \in Requests, req'[s].pc = "unsendMark", NEW m \in msgs', m.id = req'[s].mid
        PROVE  m.from = req'[s].user /\ m.conv = req'[s].conv
    <3>1. req'[s] = req[s]
      BY <1>6, <1>8, <2>1, <2>3 DEF TargetPcs
    <3> QED
      BY <1>4, <2>0, <2>3, <3>1 DEF AimInv, TargetOwned
  <2>4. ASSUME NEW s \in Requests, req'[s].pc \in MarkedPcs, NEW m \in msgs', m.id = req'[s].mid
        PROVE  m.unsent
    <3>1. PICK n \in msgs : /\ n.id = m.id /\ n.conv = m.conv /\ n.from = m.from
                            /\ n.unsent => m.unsent
                            /\ (n.id = q.mid /\ n.conv = q.conv) => m.unsent
      BY <1>4
    <3>2. CASE s = r
      <4>1. n.id = q.mid
        BY <1>2, <1>8, <2>4, <3>1, <3>2
      <4>2. n.conv = q.conv
        BY <1>1, <2>0, <4>1 DEF AimInv, TargetOwned, q
      <4> QED
        BY <3>1, <4>1, <4>2
    <3>3. CASE s # r
      <4>1. req'[s] = req[s]
        BY <2>1, <2>4, <3>3 DEF TargetPcs, MarkedPcs
      <4> QED
        BY <2>0, <2>4, <3>1, <4>1 DEF AimInv, TargetOwned
    <3> QED
      BY <3>2, <3>3
  <2>5. TargetOwned'
    BY <2>2, <2>3, <2>4 DEF TargetOwned, Pending
  <2>6. RetractedPast'
    BY <1>7, <1>8, <2>0 DEF AimInv, RetractedPast, Pending
  <2>7. RetractedIsUnsent'
    BY <1>4, <1>7, <2>0 DEF AimInv, RetractedIsUnsent
  <2> QED
    BY <2>5, <2>6, <2>7 DEF AimInv
<1>13. BadgeInv'
  <2>0. BadgeInv /\ IsFiniteSet(msgs)
    BY DEF SafeInv, BadgeInv, ResetPast
  <2>1. \A m, n \in msgs : m.id = n.id => m = n
    BY DEF CoreInv, FreshIds
  <2>2. IsFiniteSet(msgs') /\ \A u, k : Badge(msgs', u, k) = Badge(msgs, u, k)
    BY <1>1, <1>3, <2>0, <2>1, BadgeTombstone
  <2>3. ResetPast'
    BY <1>1, <1>7, <1>8, <2>0, <2>2 DEF BadgeInv, ResetPast, Pending
  <2>4. ASSUME convo' # None, NEW u \in Participants
        PROVE  convo'.unreadCounts[u] = Badge(msgs', u, hist'.resetAt[u])
    BY <1>1, <2>0, <2>2, <2>4, BadgeMeaning DEF BadgeInv
  <2>5. UnreadExact'
    BY <2>4 DEF UnreadExact, Badge
  <2> QED
    BY <2>3, <2>5 DEF BadgeInv
<1>14. ClearInv'
  BY <1>1, <1>5, UnsendKind, ClearUnsend DEF SafeInv, q
<1> QED
  BY <1>9, <1>10, <1>11, <1>12, <1>13, <1>14 DEF SafeInv

(* The newest message that the preview will show is stored.                *)
LEMMA UnsendLatestRest ==
  ASSUME CoreInv, SafeInv, NEW r \in Requests, UnsendLatest(r)
  PROVE  SafeInv'
<1> DEFINE q == req[r]
<1>1. q \in Call /\ q.pc = "unsendLatest" /\ UNCHANGED <<db, out, hist>>
  BY CallFields DEF UnsendLatest, CoreInv, Pcs
<1>2. PICK call : /\ Moved(r, call) /\ call.pc \in {"unsendEmit", "unsendRewrite"}
                  /\ call.mid = q.mid
                  /\ call.pc = "unsendRewrite" => \E m \in msgs : m.id = call.latest.messageId
  <2>1. CASE Goto(r, [q EXCEPT !.pc = "unsendEmit"])
    <3>1. [q EXCEPT !.pc = "unsendEmit"].pc = "unsendEmit" /\ [q EXCEPT !.pc = "unsendEmit"].mid = q.mid
      BY <1>1 DEF Call
    <3> QED
      BY <2>1, <3>1 DEF Moved
  <2>2. ASSUME NEW m \in msgs, Goto(r, [q EXCEPT !.pc = "unsendRewrite", !.latest = PreviewOf(m)])
        PROVE  \E call : /\ Moved(r, call) /\ call.pc \in {"unsendEmit", "unsendRewrite"}
                         /\ call.mid = q.mid
                         /\ call.pc = "unsendRewrite" => \E n \in msgs : n.id = call.latest.messageId
    <3> DEFINE call == [q EXCEPT !.pc = "unsendRewrite", !.latest = PreviewOf(m)]
    <3>1. call.pc = "unsendRewrite" /\ call.mid = q.mid /\ call.latest = PreviewOf(m)
      BY <1>1 DEF Call
    <3>2. PreviewOf(m).messageId = m.id
      BY DEF PreviewOf
    <3>3. Moved(r, call)
      BY <2>2 DEF Moved
    <3> HIDE DEF call
    <3> QED
      BY <3>1, <3>2, <3>3
  <2> QED
    BY <2>1, <2>2 DEF UnsendLatest
<1>3. /\ nextMsg' \in Nat /\ nextMsg <= nextMsg'
      /\ UNCHANGED <<convo, msgs, blockedBy, announced, retracted, pushed>>
  BY <1>1, MsgNat DEF db, out
<1>4. /\ call.pc \notin {"sendCheck", "sendCommit", "announce", "unsendMark"} \cup LandPcs
      /\ q.pc \in TargetPcs /\ q.pc \in MarkedPcs
  BY <1>1, <1>2 DEF LandPcs, TargetPcs, MarkedPcs
<1>5. /\ \A n \in msgs : n.id = call.mid => n.unsent
      /\ \A s \in Requests \ {r} : Pending(req[s]) => call.mid < req[s].mid
  BY <1>2, <1>4 DEF SafeInv, AimInv, TargetOwned, Pending
<1>6. GateInv'
  BY <1>1, <1>2, <1>3, <1>4, GateAfter DEF SafeInv
<1>7. OutInv'
  BY <1>1, <1>2, <1>3, <1>4, OutAfter DEF SafeInv
<1>8. DocInv'
  BY <1>1, <1>2, <1>3, DocAfter DEF SafeInv
<1>9. AimInv'
  BY <1>2, <1>3, <1>4, <1>5, AimAfter DEF SafeInv
<1>10. BadgeInv'
  BY <1>1, <1>2, <1>3, <1>4, BadgeAfter DEF SafeInv
<1>11. ClearInv'
  BY <1>1, <1>3, <1>4, UnsendKind, ClearUnsend DEF SafeInv
<1> QED
  BY <1>6, <1>7, <1>8, <1>9, <1>10, <1>11 DEF SafeInv

(* The rewritten preview is a stored message.                              *)
LEMMA UnsendRewriteRest ==
  ASSUME CoreInv, SafeInv, NEW r \in Requests, UnsendRewrite(r)
  PROVE  SafeInv'
<1> DEFINE q == req[r]
           call == [q EXCEPT !.pc = "unsendEmit"]
<1>1. /\ q \in Call /\ q.latest \in Preview /\ q.pc = "unsendRewrite"
      /\ UNCHANGED <<msgs, blockedBy, nextMsg, nextConv, out, hist>>
  BY CallFields DEF UnsendRewrite, CoreInv, Pcs
<1>2. call.pc = "unsendEmit" /\ call.mid = q.mid
  BY <1>1 DEF Call
<1>3. Moved(r, call)
  BY DEF UnsendRewrite, Moved
<1> HIDE DEF call
<1>4. /\ nextMsg' \in Nat /\ nextMsg <= nextMsg'
      /\ UNCHANGED <<announced, retracted, pushed>>
  BY <1>1, MsgNat DEF out
<1>5. /\ call.pc \notin {"sendCheck", "sendCommit", "announce", "unsendMark", "unsendRewrite"} \cup LandPcs
      /\ q.pc \in TargetPcs /\ q.pc \in MarkedPcs
  BY <1>1, <1>2 DEF LandPcs, TargetPcs, MarkedPcs
<1>6. /\ \A n \in msgs : n.id = call.mid => n.unsent
      /\ \A s \in Requests \ {r} : Pending(req[s]) => call.mid < req[s].mid
  BY <1>2, <1>5 DEF SafeInv, AimInv, TargetOwned, Pending
<1>7. \/ convo' = convo
      \/ /\ HasConvo(q.conv) /\ convo # None /\ convo' # None /\ convo'.id = convo.id
         /\ convo'.lastMessage = q.latest
         /\ convo'.deletedFor = convo.deletedFor
         /\ convo'.unreadCounts = convo.unreadCounts
  <2>1. CASE HasConvo(q.conv) /\ convo' = [convo EXCEPT !.lastMessage = q.latest]
    <3>1. convo \in Convo /\ convo # None
      BY <2>1 DEF HasConvo, CoreInv, TypeInv, TypeOK
    <3>2. convo' \in Convo
      BY <1>1, <2>1, <3>1, UpdateTypes
    <3> QED
      BY <2>1, <3>1, <3>2, NoneAssumption DEF Convo
  <2> QED
    BY <2>1 DEF UnsendRewrite
<1>8. GateInv'
  BY <1>1, <1>3, <1>5, GateAfter DEF SafeInv
<1>9. OutInv'
  BY <1>1, <1>3, <1>4, <1>5, OutAfter DEF SafeInv
<1>10. DocInv'
  <2>1. CASE convo' = convo
    BY <1>1, <1>3, <1>5, <2>1, DocAfter DEF SafeInv
  <2>2. CASE /\ HasConvo(q.conv) /\ convo # None /\ convo' # None /\ convo'.id = convo.id
             /\ convo'.lastMessage = q.latest
             /\ convo'.deletedFor = convo.deletedFor
    <3>1. \E m \in msgs : m.id = q.latest.messageId
      BY <1>1, <2>2 DEF SafeInv, DocInv, LatestBacked
    <3>2. PreviewBacked'
      BY <1>1, <2>2, <3>1 DEF PreviewBacked
    <3>3. HiddenHasDiscarded'
      BY <1>1, <2>2 DEF SafeInv, DocInv, HiddenHasDiscarded
    <3>4. \A s \in Requests : req'[s].pc = "unsendRewrite" => req'[s] = req[s]
      BY <1>3, <1>5, OthersLeft DEF TxnPcs
    <3>5. LatestBacked'
      BY <1>1, <2>2, <3>4 DEF SafeInv, DocInv, LatestBacked, HasConvo
    <3> QED
      BY <3>2, <3>3, <3>5 DEF DocInv
  <2> QED
    BY <1>7, <2>1, <2>2
<1>11. AimInv'
  BY <1>1, <1>3, <1>4, <1>5, <1>6, AimAfter DEF SafeInv
<1>12. BadgeInv'
  BY <1>1, <1>3, <1>4, <1>5, <1>7, BadgeAfter DEF SafeInv
<1>13. ClearInv'
  BY <1>1, <1>5, <1>7, UnsendKind, ClearUnsend DEF SafeInv
<1> QED
  BY <1>8, <1>9, <1>10, <1>11, <1>12, <1>13 DEF SafeInv

LEMMA UnsendEmitRest ==
  ASSUME CoreInv, SafeInv, NEW r \in Requests, UnsendEmit(r)
  PROVE  SafeInv'
<1> DEFINE q == req[r]
<1>1. /\ q.pc = "unsendEmit" /\ q.pc \in TargetPcs /\ q.pc \in MarkedPcs
      /\ UNCHANGED <<db, announced, pushed, hist>> /\ Goto(r, Idle)
      /\ retracted' = retracted \cup {q.mid}
  BY DEF UnsendEmit, TargetPcs, MarkedPcs
<1>2. q.mid \in MsgIds /\ q.mid < nextMsg
  BY <1>1, MsgNat
<1>3. /\ Idle.pc \notin {"sendCheck", "sendCommit", "announce", "unsendMark", "unsendRewrite"}
      /\ Idle.pc \notin LandPcs /\ Idle.pc \notin MarkedPcs /\ Idle.pc \notin TargetPcs
      /\ ~Pending(Idle)
  BY DEF Idle, LandPcs, MarkedPcs, TargetPcs, Pending
<1>4. /\ nextMsg' \in Nat /\ nextMsg <= nextMsg' /\ Moved(r, Idle)
      /\ UNCHANGED <<convo, msgs, blockedBy, nextMsg>>
  BY <1>1, MsgNat DEF db, Moved
<1>5. GateInv'
  BY <1>1, <1>3, <1>4, GateAfter DEF SafeInv
<1>6. OutInv'
  BY <1>1, <1>3, <1>4, OutAfter DEF SafeInv
<1>7. DocInv'
  BY <1>1, <1>3, <1>4, DocAfter DEF SafeInv
<1>8. AimInv'
  <2>0. AimInv
    BY DEF SafeInv
  <2>1. \A i \in MsgIds : i \in retracted' => i \in retracted \/ i = q.mid
    BY <1>1 DEF CoreInv, TypeInv, TypeOK
  <2>2. /\ \A s \in Requests : req'[s].pc \in TargetPcs => req'[s] = req[s]
        /\ \A s \in Requests : Pending((req[s])') => Pending(req[s]) /\ req'[s].mid = req[s].mid
    BY <1>3, <1>4, OthersLeft DEF TxnPcs, TargetPcs
  <2>3. TargetOwned'
    <3>1. \A s \in Requests : req'[s].pc = "unsendMark" \/ req'[s].pc \in MarkedPcs => req'[s].pc \in TargetPcs
      BY DEF MarkedPcs, TargetPcs
    <3>2. \A s \in Requests : req'[s].pc = "unsendMark" =>
            \A m \in msgs' : m.id = req'[s].mid => m.from = req'[s].user /\ m.conv = req'[s].conv
      BY <1>4, <2>0, <2>2, <3>1 DEF AimInv, TargetOwned
    <3>3. \A s \in Requests : req'[s].pc \in MarkedPcs => \A m \in msgs' : m.id = req'[s].mid => m.unsent
      BY <1>4, <2>0, <2>2, <3>1 DEF AimInv, TargetOwned
    <3>4. \A s \in Requests : req'[s].pc \in TargetPcs =>
            \A t \in Requests : Pending((req[t])') => req'[s].mid < req'[t].mid
      BY <2>0, <2>2 DEF AimInv, TargetOwned, Pending
    <3> QED
      BY <3>2, <3>3, <3>4 DEF TargetOwned, Pending
  <2>4. RetractedPast'
    <3> SUFFICES ASSUME NEW i \in MsgIds, i \in retracted'
                 PROVE  i < nextMsg' /\ \A s \in Requests : Pending((req[s])') => i < req'[s].mid
      BY DEF RetractedPast, Pending
    <3>1. CASE i \in retracted
      BY <1>4, <2>0, <2>2, <3>1 DEF AimInv, RetractedPast, Pending
    <3>2. CASE i = q.mid
      BY <1>1, <1>2, <1>4, <2>0, <2>2, <3>2 DEF AimInv, TargetOwned, Pending
    <3> QED
      BY <2>1, <3>1, <3>2
  <2>5. RetractedIsUnsent'
    <3> SUFFICES ASSUME NEW m \in msgs, m.id \in retracted' PROVE m.unsent
      BY <1>4 DEF RetractedIsUnsent
    <3>1. m.id \in retracted \/ m.id = q.mid
      BY <2>1, MsgNat
    <3> QED
      BY <1>1, <2>0, <3>1 DEF AimInv, TargetOwned, RetractedIsUnsent
  <2> QED
    BY <2>3, <2>4, <2>5 DEF AimInv
<1>9. BadgeInv'
  BY <1>1, <1>3, <1>4, BadgeAfter DEF SafeInv
<1>10. ClearInv'
  BY <1>1, <1>3, <1>4, ClearAfter DEF SafeInv
<1> QED
  BY <1>5, <1>6, <1>7, <1>8, <1>9, <1>10 DEF SafeInv

(***************************************************************************)
(* The theorems.                                                           *)
(***************************************************************************)
LEMMA SafeInit == Init => SafeInv
<1> SUFFICES ASSUME Init PROVE SafeInv
  OBVIOUS
<1>1. \A r \in Requests : req[r] = Idle
  BY DEF Init
<1>2. /\ Idle.pc \notin {"sendCheck", "sendCommit", "announce", "unsendMark", "unsendRewrite"}
      /\ Idle.pc \notin LandPcs /\ Idle.pc \notin MarkedPcs /\ Idle.pc \notin TargetPcs
      /\ Idle.pc \notin DraftPcs
  BY DEF Idle, LandPcs, MarkedPcs, TargetPcs, DraftPcs
<1>3. GateInv
  BY <1>1, <1>2 DEF GateInv, OpenSeen, BlockedNeverLands, LandPcs
<1>4. OutInv
  BY <1>1, <1>2 DEF Init, OutInv, OutputPending, AnnouncedOnce, MuteHonoured
<1>5. DocInv
  BY <1>1, <1>2 DEF Init, DocInv, PreviewBacked, LatestBacked, HiddenHasDiscarded
<1>6. AimInv
  BY <1>1, <1>2 DEF Init, AimInv, TargetOwned, RetractedPast, RetractedIsUnsent
<1>7. BadgeInv
  BY <1>1, <1>2, FS_EmptySet DEF Init, BadgeInv, ResetPast, UnreadExact
<1>8. ClearInv
  BY <1>1, <1>2 DEF Init, ClearInv, DiscardedStored, PreviewOnlyGrows, NewestShown,
     ClearedHidden, Visible
<1> QED
  BY <1>3, <1>4, <1>5, <1>6, <1>7, <1>8 DEF SafeInv

LEMMA SafeStep == CoreInv /\ SafeInv /\ [Next]_vars => SafeInv'
<1> SUFFICES ASSUME CoreInv, SafeInv, [Next]_vars PROVE SafeInv'
  OBVIOUS
<1>1. ASSUME NEW r \in Requests, NEW u \in Participants,
             \/ CreateBegin(r, u)
             \/ \E c \in Cids : SendBegin(r, u, c)
             \/ HideBegin(r, u)
             \/ \E i \in MsgIds : UnsendBegin(r, u, i)
             \/ ReadBegin(r, u)
             \/ \E on \in BOOLEAN : MuteBegin(r, u, on)
      PROVE  SafeInv'
  <2>1. ASSUME NEW c \in Cids, SendBegin(r, u, c) PROVE SafeInv'
    BY <2>1, AttemptRest DEF SendBegin
  <2>2. ASSUME HideBegin(r, u) PROVE SafeInv'
    BY <2>2, QuietRest DEF HideBegin
  <2> QED
    BY <1>1, <2>1, <2>2, QuietRest, UnsendBeginRest
<1>2. ASSUME NEW r \in Requests,
             \/ CreateUpsert(r)
             \/ SendCheckBlock(r) \/ SendAppend(r) \/ SendCommit(r) \/ Announce(r)
             \/ HideCommit(r)
             \/ TxnRetry(r)
      PROVE  SafeInv'
  BY <1>2, CreateRest, SendCheckRest, SendAppendRest, SendCommitRest, AnnounceRest,
     HideCommitRest, RetryRest
<1>3. ASSUME NEW r \in Requests,
             \/ UnsendLoad(r) \/ UnsendMark(r) \/ UnsendLatest(r)
             \/ UnsendRewrite(r) \/ UnsendEmit(r)
             \/ ReadApply(r)
             \/ MuteApply(r)
             \/ Fail(r)
      PROVE  SafeInv'
  <2>1. Fail(r) => SafeInv'
    BY QuietRest DEF Fail
  <2> QED
    BY <1>3, <2>1, UnsendLoadRest, UnsendMarkRest, UnsendLatestRest, UnsendRewriteRest,
       UnsendEmitRest, ReadRest, MuteRest
<1>4. ASSUME NEW u \in Participants, Block(u) \/ Unblock(u) PROVE SafeInv'
  BY <1>4, BlockRest
<1>5. CASE UNCHANGED vars
  <2>0. UNCHANGED <<convo, msgs, blockedBy, nextMsg, nextConv, req, announced, retracted, pushed, hist>>
    BY <1>5 DEF vars
  <2>1. GateInv'
    BY <2>0 DEF SafeInv, GateInv, OpenSeen, Open, BlockedNeverLands
  <2>2. OutInv'
    BY <2>0 DEF SafeInv, OutInv, OutputPending, AnnouncedOnce, MuteHonoured
  <2>3. DocInv'
    BY <2>0 DEF SafeInv, DocInv, PreviewBacked, LatestBacked, HiddenHasDiscarded, HasConvo
  <2>4. AimInv'
    BY <2>0 DEF SafeInv, AimInv, TargetOwned, RetractedPast, RetractedIsUnsent
  <2>5. BadgeInv'
    BY <2>0 DEF SafeInv, BadgeInv, ResetPast, UnreadExact
  <2>6. ClearInv'
    BY <2>0 DEF SafeInv, ClearInv, DiscardedStored, PreviewOnlyGrows, NewestShown,
       ClearedHidden, Visible, NoUnsend
  <2> QED
    BY <2>1, <2>2, <2>3, <2>4, <2>5, <2>6 DEF SafeInv
<1> QED
  BY <1>1, <1>2, <1>3, <1>4, <1>5 DEF Next

LEMMA IInvParts == IInv <=> (CoreInv /\ SafeInv)
BY DEF IInv, CoreInv, TypeInv, SafeInv, GateInv, OutInv, DocInv, AimInv, BadgeInv, ClearInv

LEMMA IInvStep == IInv /\ [Next]_vars => IInv'
<1> SUFFICES ASSUME IInv, [Next]_vars PROVE IInv'
  OBVIOUS
<1>1. CoreInv /\ SafeInv
  BY IInvParts
<1>2. CoreInv' /\ SafeInv'
  BY <1>1, CoreStep, SafeStep
<1> QED
  BY <1>2 DEF IInv, CoreInv, TypeInv, SafeInv, GateInv, OutInv, DocInv, AimInv, BadgeInv, ClearInv

(* What TLC checks as IInv holds of every instance, because it is          *)
(* inductive: no transaction, however often it conflicts, and no cut off   *)
(* request leaves the thread in a state that the next one cannot bear.     *)
THEOREM InvariantHolds == Spec => []IInv
<1>1. Init => IInv
  BY CoreInit, SafeInit, IInvParts
<1> QED
  BY <1>1, IInvStep, PTL DEF Spec

(* However its transaction is retried, a send that met a block throughout  *)
(* its attempt never reaches the collection.                               *)
THEOREM BlockedSendsNeverLand == Spec => []BlockedNeverLands
<1>1. IInv => BlockedNeverLands
  BY DEF IInv
<1> QED
  BY <1>1, InvariantHolds, PTL

(* message:new is emitted at most once for a message.  An emission a crash *)
(* cut off is not made up for.                                             *)
THEOREM AnnouncedAtMostOnce == Spec => []AnnouncedOnce
<1>1. IInv => AnnouncedOnce
  BY DEF IInv
<1> QED
  BY <1>1, InvariantHolds, PTL

(* The push list was read with the snapshot of the transaction, and that   *)
(* is the mute state at its commit: a mute that was stored before the      *)
(* message is honoured.                                                    *)
THEOREM MutesAreHonoured == Spec => []MuteHonoured
<1>1. IInv => MuteHonoured
  BY DEF IInv
<1> QED
  BY <1>1, InvariantHolds, PTL

(* Whatever rewrites the preview, it is null exactly when the thread bears *)
(* no message and a stored message otherwise.                              *)
THEOREM PreviewsAreBacked == Spec => []PreviewBacked
<1>1. IInv => PreviewBacked
  BY DEF IInv
<1> QED
  BY <1>1, InvariantHolds, PTL

(* message:deleted goes out only for a message whose stored document is a  *)
(* tombstone, and no later write to the messages brings the body back.     *)
THEOREM RetractionsAreStored == Spec => []RetractedIsUnsent
<1>1. IInv => RetractedIsUnsent
  BY DEF IInv
<1> QED
  BY <1>1, InvariantHolds, PTL

(* The badge is the number of messages of the other side since the last    *)
(* reset, whatever kinds of request run.                                   *)
THEOREM BadgesAreExact == Spec => []UnreadExact
<1>1. IInv => UnreadExact
  BY DEF IInv
<1> QED
  BY <1>1, InvariantHolds, PTL

(* Where nobody unsends, the preview is the newest message.                *)
THEOREM PreviewsAreNewest == Spec => [](NoUnsend => PreviewNewest)
<1>1. IInv => (NoUnsend => PreviewNewest)
  BY DEF IInv, PreviewOnlyGrows, NewestShown, PreviewNewest
<1> QED
  BY <1>1, InvariantHolds, PTL

(* Where nobody unsends, what was cleared stays hidden.  The watermark is  *)
(* the preview, so an unsend that put an older message there uncovers what *)
(* is newer.                                                               *)
THEOREM ClearedMessagesStayHidden == Spec => [](NoUnsend => ClearedStaysHidden)
<1>1. IInv => (NoUnsend => ClearedStaysHidden)
  BY DEF IInv, PreviewOnlyGrows, ClearedHidden, ClearedStaysHidden
<1> QED
  BY <1>1, InvariantHolds, PTL

-----------------------------------------------------------------------------
(***************************************************************************)
(* Thread implements Mailbox: each write is the one instant at which an    *)
(* operation takes effect, and every other step of a request changes       *)
(* nothing that a client sees.                                             *)
(***************************************************************************)

(***************************************************************************)
(* The log of a set of messages.                                           *)
(***************************************************************************)
Entry(m) == [id |-> m.id, from |-> m.from, unsent |-> m.unsent]
Log(ms)  == {Entry(m) : m \in ms}

View(c, ms) ==
  [log |-> Log(ms), hidden |-> c.deletedFor, unread |-> c.unreadCounts, muted |-> c.mutedBy]

LEMMA EntryType ==
  ASSUME NEW m \in Message
  PROVE  Entry(m) \in Entries
BY DEF Entry, Entries, Message

LEMMA MarkedEntry ==
  ASSUME NEW v \in Entries, NEW w \in Entries,
         w.id = v.id, w.from = v.from, w.unsent = TRUE
  PROVE  w = [v EXCEPT !.unsent = TRUE]
<1> DEFINE e == [v EXCEPT !.unsent = TRUE]
<1>1. e \in Entries
  BY DEF Entries
<1>2. e.id = v.id /\ e.from = v.from /\ e.unsent = TRUE
  BY DEF Entries
<1>3. ASSUME NEW a \in Entries, NEW b \in Entries,
             a.id = b.id, a.from = b.from, a.unsent = b.unsent
      PROVE  a = b
  BY <1>3 DEF Entries
<1> HIDE DEF e
<1>4. w = e
  BY <1>1, <1>2, <1>3
<1> QED
  BY <1>4 DEF e

(* Views are equal when their parts are.                                   *)
LEMMA SameView ==
  ASSUME NEW v \in Views, NEW w \in Views, v.log = w.log, v.hidden = w.hidden,
         v.unread = w.unread, v.muted = w.muted
  PROVE  v = w
BY DEF Views

LEMMA LogAdds ==
  ASSUME NEW ms, NEW m
  PROVE  Log(ms \cup {m}) = Log(ms) \cup {Entry(m)}
BY DEF Log

LEMMA EmptyLog ==
  ASSUME NEW ms
  PROVE  Log(ms) = {} <=> ms = {}
BY DEF Log

(* Ids identify entries as they identify messages, so that a tombstone     *)
(* replaces one entry of the log.                                          *)
LEMMA LogTombstone ==
  ASSUME NEW ms \in SUBSET Message, NEW m \in ms,
         \A n \in ms : n.id = m.id => n = m
  PROVE  /\ Log(Tombstone(ms, m.conv, m.id)) =
              (Log(ms) \ {Entry(m)}) \cup {[Entry(m) EXCEPT !.unsent = TRUE]}
         /\ \A id, i : (\A n \in ms : n.id # i) => Tombstone(ms, id, i) = ms
<1> DEFINE mark(n) == IF n.id = m.id /\ n.conv = m.conv
                      THEN [n EXCEPT !.unsent = TRUE] ELSE n
<1>1. Tombstone(ms, m.conv, m.id) = {mark(n) : n \in ms}
  BY DEF Tombstone
<1>2. \A n \in ms \ {m} : mark(n) = n /\ Entry(n) # Entry(m)
  BY DEF Entry
<1>3. Entry(mark(m)) = [Entry(m) EXCEPT !.unsent = TRUE]
  <2>1. m \in Message
    OBVIOUS
  <2>2. /\ mark(m) \in Message /\ mark(m).id = m.id /\ mark(m).from = m.from
        /\ mark(m).unsent = TRUE
    BY <2>1 DEF Message
  <2> HIDE DEF mark
  <2>3. Entry(m) \in Entries /\ Entry(mark(m)) \in Entries
    BY <2>1, <2>2, EntryType
  <2>4. /\ Entry(mark(m)).id = Entry(m).id /\ Entry(mark(m)).from = Entry(m).from
        /\ Entry(mark(m)).unsent = TRUE
    BY <2>2 DEF Entry
  <2> QED
    BY <2>3, <2>4, MarkedEntry
<1>4. Log(Tombstone(ms, m.conv, m.id)) = {Entry(mark(n)) : n \in ms}
  BY <1>1 DEF Log
<1> HIDE DEF mark
<1>5. {Entry(mark(n)) : n \in ms} = {Entry(n) : n \in ms \ {m}} \cup {Entry(mark(m))}
  BY <1>2
<1>6. {Entry(n) : n \in ms \ {m}} = Log(ms) \ {Entry(m)}
  BY <1>2 DEF Log
<1>7. \A id, i : (\A n \in ms : n.id # i) => Tombstone(ms, id, i) = ms
  BY DEF Tombstone
<1> QED
  BY <1>3, <1>4, <1>5, <1>6, <1>7

(***************************************************************************)
(* The view.                                                               *)
(***************************************************************************)
LEMMA ViewOfConvo ==
  ASSUME TypeOK, convo # None
  PROVE  /\ ThreadView = View(convo, msgs) /\ ThreadView \in Views /\ ThreadView # None
         /\ convo \in Convo
<1>1. convo \in Convo /\ msgs \subseteq Message
  BY DEF TypeOK
<1>2. ThreadView = View(convo, msgs)
  BY DEF ThreadView, View, Log, Entry
<1>3. Log(msgs) \subseteq Entries
  BY <1>1, EntryType DEF Log
<1>4. View(convo, msgs) \in Views
  BY <1>1, <1>3 DEF View, Views, Convo
<1> QED
  BY <1>1, <1>2, <1>4, ViewAssumption

LEMMA ViewAfter ==
  ASSUME TypeOK', convo' # None
  PROVE  ThreadView' = View(convo', msgs') /\ ThreadView' \in Views /\ ThreadView' # None
<1>1. convo' \in Convo /\ msgs' \subseteq Message
  BY DEF TypeOK
<1>2. ThreadView' = View(convo', msgs')
  BY DEF ThreadView, View, Log, Entry
<1>3. Log(msgs') \subseteq Entries
  BY <1>1, EntryType DEF Log
<1>4. View(convo', msgs') \in Views
  BY <1>1, <1>3 DEF View, Views, Convo
<1> QED
  BY <1>1, <1>2, <1>4, ViewAssumption

(* A step that leaves both documents alone is a stutter.                   *)
LEMMA Unseen ==
  ASSUME UNCHANGED <<convo, msgs>>
  PROVE  UNCHANGED ThreadView
BY DEF ThreadView

(* So is one that changes nothing of the document that the view shows.     *)
LEMMA UnseenWrite ==
  ASSUME TypeOK, convo # None, convo' # None, UNCHANGED msgs,
         convo'.deletedFor = convo.deletedFor,
         convo'.unreadCounts = convo.unreadCounts, convo'.mutedBy = convo.mutedBy
  PROVE  UNCHANGED ThreadView
BY DEF ThreadView

(***************************************************************************)
(* The writes, one by one.  TxnPcs whose snapshot met no write hold the    *)
(* current document, so what they commit is computed from it.              *)
(***************************************************************************)
LEMMA CommitsCurrent ==
  ASSUME IInv, NEW r \in Requests, req[r].pc \in TxnPcs, MayCommit(req[r])
  PROVE  /\ req[r].snap = convo /\ convo \in Convo /\ convo # None
         /\ req[r].user \in Participants /\ req[r].conv = convo.id
<1>1. req[r].user \in Participants
  BY CallFields DEF IInv, TypeInv, Pcs
<1>2. req[r].snap \in Convo /\ req[r].conv = req[r].snap.id
  BY DEF IInv, CallShape, Shape
<1>3. req[r].snap = convo
  BY DEF IInv, SnapshotCurrent, Current, MayCommit
<1> QED
  BY <1>1, <1>2, <1>3, NoneAssumption

(* The upsert that creates the document starts with an empty thread: no    *)
(* message of an earlier conversation is left.                             *)
LEMMA UpsertCreates ==
  ASSUME IInv, IInv', NEW r \in Requests, CreateUpsert(r)
  PROVE  Abstract!Create \/ UNCHANGED ThreadView
<1>1. CASE UNCHANGED convo
  BY <1>1, Unseen DEF CreateUpsert
<1>2. CASE convo = None /\ convo' = NewConvo(nextConv)
  <2>1. msgs = {} /\ msgs' = {}
    BY <1>2 DEF CreateUpsert, IInv, NoOrphans, HasConvo
  <2>2. convo' # None
    <3>1. nextConv \in ConvIds
      BY <1>2, BoundsAssumption, NoneAssumption DEF CreateUpsert, IInv, TypeOK, ConvIds
    <3> QED
      BY <1>2, <3>1, ConvoTypes, NoneAssumption
  <2> QED
    BY <1>2, <2>1 DEF Abstract!Create, Abstract!Empty, ThreadView, NewConvo
<1> QED
  BY <1>1, <1>2 DEF CreateUpsert

(* The commit of a send posts the message.                                 *)
LEMMA CommitPosts ==
  ASSUME IInv, IInv', NEW r \in Requests, SendCommit(r)
  PROVE  Abstract!Post(req[r].user, req[r].mid) /\ req[r].user \in Participants
         /\ req[r].mid \in MsgIds
<1> DEFINE q == req[r]
           m == [id |-> q.mid, conv |-> q.conv, cid |-> q.cid, from |-> q.user, unsent |-> FALSE]
<1>1. q.pc = "sendCommit" /\ ~q.stale /\ MayCommit(q)
  BY DEF SendCommit, MayCommit
<1>2. /\ q.snap = convo /\ convo \in Convo /\ convo # None
      /\ q.user \in Participants
  BY <1>1, CommitsCurrent DEF TxnPcs
<1>3. q.mid \in MsgIds
  BY <1>1 DEF IInv, CallShape, Shape, DraftPcs
<1>4. convo' = Recorded(convo, q.mid, q.user) /\ msgs' = msgs \cup {m}
  BY <1>2 DEF SendCommit
<1>5. \A n \in msgs : n.id < q.mid
  BY <1>1 DEF IInv, FreshIds
<1>6. Entry(m) = [id |-> q.mid, from |-> q.user, unsent |-> FALSE]
  BY DEF Entry
<1> HIDE DEF m
<1>7. Log(msgs') = Log(msgs) \cup {[id |-> q.mid, from |-> q.user, unsent |-> FALSE]}
  BY <1>4, <1>6, LogAdds
<1>8. /\ convo'.deletedFor = {} /\ convo'.mutedBy = convo.mutedBy
      /\ convo'.unreadCounts = [p \in Participants |->
           IF p = q.user THEN convo.unreadCounts[p] ELSE convo.unreadCounts[p] + 1]
      /\ convo' \in Convo \cup {None}
  BY <1>2, <1>4 DEF Recorded, Convo, IInv, TypeOK
<1>9. convo' # None
  BY <1>2, <1>3, <1>4, ConvoTypes, NoneAssumption DEF MsgRefs, MsgIds
<1>10. ThreadView = View(convo, msgs) /\ ThreadView \in Views /\ ThreadView # None
  BY <1>2, ViewOfConvo DEF IInv
<1>11. ThreadView' = View(convo', msgs') /\ ThreadView' \in Views
  BY <1>9, ViewAfter DEF IInv
<1>12. \A n \in ThreadView.log : n.id < q.mid
  BY <1>5, <1>10 DEF View, Log, Entry
<1>13. ThreadView' = [ThreadView EXCEPT
          !.log    = @ \cup {[id |-> q.mid, from |-> q.user, unsent |-> FALSE]},
          !.hidden = {},
          !.unread = [p \in Participants |-> IF p = q.user THEN @[p] ELSE @[p] + 1]]
  <2> DEFINE x == [id |-> q.mid, from |-> q.user, unsent |-> FALSE]
             e == [ThreadView EXCEPT
                     !.log    = @ \cup {x},
                     !.hidden = {},
                     !.unread = [p \in Participants |-> IF p = q.user THEN @[p] ELSE @[p] + 1]]
             w == ThreadView'
  <2>1. x \in Entries
    BY <1>2, <1>3 DEF Entries
  <2>2. /\ w \in Views /\ w.hidden = {} /\ w.muted = ThreadView.muted
        /\ w.log = ThreadView.log \cup {x}
        /\ w.unread = [p \in Participants |->
             IF p = q.user THEN ThreadView.unread[p] ELSE ThreadView.unread[p] + 1]
    BY <1>7, <1>8, <1>10, <1>11 DEF View
  <2> HIDE DEF x, w
  <2>3. e \in Views /\ e.hidden = {} /\ e.muted = ThreadView.muted
    <3> DEFINE badges == [p \in Participants |-> IF p = q.user THEN ThreadView.unread[p]
                                                 ELSE ThreadView.unread[p] + 1]
               log == ThreadView.log \cup {x}
    <3>1. badges \in [Participants -> Nat] /\ log \in SUBSET Entries
      BY <1>10, <2>1 DEF Views
    <3>2. e = [ThreadView EXCEPT !.log = log, !.hidden = {}, !.unread = badges]
      OBVIOUS
    <3> HIDE DEF badges, log, e
    <3> QED
      BY <1>10, <3>1, <3>2 DEF Views
  <2>4. /\ e.log = ThreadView.log \cup {x}
        /\ e.unread = [p \in Participants |->
             IF p = q.user THEN ThreadView.unread[p] ELSE ThreadView.unread[p] + 1]
    BY <1>10 DEF Views
  <2> HIDE DEF e
  <2>5. w = e
    BY <2>2, <2>3, <2>4, SameView
  <2> QED
    BY <2>5 DEF x, e, w
<1> QED
  BY <1>2, <1>3, <1>10, <1>12, <1>13 DEF Abstract!Post

(* The commit of a hide discards the thread for its user, and for everyone *)
(* when the user was the last one and the thread bears messages, which the *)
(* code reads off the preview.                                             *)
LEMMA CommitDiscards ==
  ASSUME IInv, IInv', NEW r \in Requests, HideCommit(r)
  PROVE  Abstract!Discard(req[r].user) /\ req[r].user \in Participants
<1> DEFINE q == req[r]
           u == q.user
<1>1. q.pc = "hideCommit" /\ MayCommit(q)
  BY DEF HideCommit
<1>2. /\ q.snap = convo /\ convo \in Convo /\ convo # None
      /\ u \in Participants
  BY <1>1, CommitsCurrent DEF TxnPcs
<1> DEFINE c == Hidden(convo, u)
<1>3. /\ c.lastMessage = convo.lastMessage
      /\ c.deletedFor = convo.deletedFor \cup {u}
      /\ c.unreadCounts = [convo.unreadCounts EXCEPT ![u] = 0]
      /\ c.mutedBy = convo.mutedBy
  BY <1>2 DEF Hidden, Convo
<1>4. ThreadView = View(convo, msgs) /\ ThreadView \in Views /\ ThreadView # None
  BY <1>2, ViewOfConvo DEF IInv
<1>5. Log(msgs) # {} <=> convo.lastMessage.messageId # 0
  <2>1. \A m \in msgs : m.id # 0
    BY BoundsAssumption DEF IInv, TypeOK, Message, MsgIds
  <2> QED
    BY <1>2, <2>1, EmptyLog DEF IInv, PreviewBacked
<1>6. HiddenForAll(c) <=>
        ThreadView.log # {} /\ ThreadView.hidden \cup {u} = Participants
  BY <1>3, <1>4, <1>5 DEF HiddenForAll, View
<1>7. \/ HiddenForAll(c) /\ convo' = None
      \/ ~HiddenForAll(c) /\ convo' = c /\ msgs' = msgs
  BY <1>2 DEF HideCommit
<1> HIDE DEF c
<1>8. CASE HiddenForAll(c) /\ convo' = None
  <2>1. ThreadView' = None
    BY <1>8 DEF ThreadView
  <2> QED
    BY <1>2, <1>4, <1>6, <1>8, <2>1 DEF Abstract!Discard
<1>9. CASE ~HiddenForAll(c) /\ convo' = c /\ msgs' = msgs
  <2>1. c # None
    BY <1>2, ConvoTypes, NoneAssumption DEF c
  <2>2. ThreadView' = View(c, msgs) /\ ThreadView' \in Views
    BY <1>9, <2>1, ViewAfter DEF IInv
  <2>3. ThreadView' = [ThreadView EXCEPT !.hidden = @ \cup {u}, !.unread[u] = 0]
    <3> DEFINE e == [ThreadView EXCEPT !.hidden = @ \cup {u}, !.unread[u] = 0]
               w == ThreadView'
    <3>1. /\ w \in Views /\ w.hidden = ThreadView.hidden \cup {u}
          /\ w.unread = [ThreadView.unread EXCEPT ![u] = 0]
          /\ w.log = ThreadView.log /\ w.muted = ThreadView.muted
      BY <1>3, <1>4, <2>2 DEF View
    <3> HIDE DEF w
    <3>2. /\ e.hidden = ThreadView.hidden \cup {u}
          /\ e.unread = [ThreadView.unread EXCEPT ![u] = 0]
          /\ e.log = ThreadView.log /\ e.muted = ThreadView.muted
      BY <1>4 DEF Views
    <3>3. e \in Views
      BY <1>2, <1>4 DEF Views
    <3> HIDE DEF e
    <3>4. w = e
      BY <3>1, <3>2, <3>3, SameView
    <3> QED
      BY <3>4 DEF e, w
  <2> QED
    BY <1>2, <1>4, <1>6, <1>9, <2>3 DEF Abstract!Discard
<1> QED
  BY <1>7, <1>8, <1>9

(* The tombstone retracts the message, if it is still there: its sender is *)
(* the caller and no other message has its id.                             *)
LEMMA MarkRetracts ==
  ASSUME IInv, IInv', NEW r \in Requests, UnsendMark(r)
  PROVE  \/ UNCHANGED ThreadView
         \/ /\ Abstract!Retract(req[r].user, req[r].mid)
            /\ req[r].user \in Participants /\ req[r].mid \in MsgIds
<1> DEFINE q == req[r]
<1>1. /\ q.pc = "unsendMark" /\ UNCHANGED convo
      /\ msgs' = Tombstone(msgs, q.conv, q.mid)
  BY DEF UnsendMark
<1>2. q.user \in Participants /\ q.mid \in MsgIds /\ msgs \in SUBSET Message
  BY <1>1, CallFields DEF IInv, TypeInv, TypeOK, Pcs, CallShape, Shape, TargetPcs
<1>3. CASE convo = None
  BY <1>1, <1>3 DEF ThreadView
<1>4. CASE \A m \in msgs : m.id # q.mid
  <2>1. msgs' = msgs
    BY <1>1, <1>4 DEF Tombstone
  <2> QED
    BY <1>1, <2>1, Unseen
<1>5. ASSUME convo # None, NEW m \in msgs, m.id = q.mid
      PROVE  Abstract!Retract(q.user, q.mid)
  <2>1. /\ m \in Message /\ m.from = q.user /\ m.conv = q.conv
        /\ \A n \in msgs : n.id = m.id => n = m
    BY <1>1, <1>2, <1>5 DEF IInv, TargetOwned, FreshIds
  <2>2. Log(msgs') = (Log(msgs) \ {Entry(m)}) \cup {[Entry(m) EXCEPT !.unsent = TRUE]}
    BY <1>1, <1>2, <1>5, <2>1, LogTombstone
  <2>3. ThreadView = View(convo, msgs) /\ ThreadView \in Views /\ ThreadView # None
    BY <1>5, ViewOfConvo DEF IInv
  <2>4. ThreadView' = View(convo, msgs') /\ ThreadView' \in Views
    BY <1>1, <1>5, ViewAfter DEF IInv
  <2> DEFINE x == Entry(m)
             log == (ThreadView.log \ {x}) \cup {[x EXCEPT !.unsent = TRUE]}
             e == [ThreadView EXCEPT !.log = log]
             w == ThreadView'
  <2>5. x \in ThreadView.log /\ x.id = q.mid /\ x.from = q.user
    BY <1>5, <2>1, <2>3 DEF View, Log, Entry
  <2>6. /\ w \in Views /\ w.log = log /\ w.hidden = ThreadView.hidden
        /\ w.unread = ThreadView.unread /\ w.muted = ThreadView.muted
    BY <2>2, <2>3, <2>4 DEF View
  <2> HIDE DEF log, w, x
  <2>7. /\ e \in Views /\ e.log = log /\ e.hidden = ThreadView.hidden
        /\ e.unread = ThreadView.unread /\ e.muted = ThreadView.muted
    BY <2>3, <2>6 DEF Views
  <2> HIDE DEF e
  <2>8. w = e
    BY <2>6, <2>7, SameView
  <2>9. ThreadView' = [ThreadView EXCEPT
           !.log = (@ \ {x}) \cup {[x EXCEPT !.unsent = TRUE]}]
    BY <2>8 DEF e, w, log
  <2> QED
    BY <2>3, <2>5, <2>9 DEF Abstract!Retract
<1> QED
  BY <1>2, <1>3, <1>4, <1>5

(* The rewrite of the preview shows in no part of the view.                *)
LEMMA RewriteUnseen ==
  ASSUME IInv, IInv', NEW r \in Requests, UnsendRewrite(r)
  PROVE  UNCHANGED ThreadView
<1>1. CASE UNCHANGED convo
  BY <1>1, Unseen DEF UnsendRewrite
<1>2. CASE HasConvo(req[r].conv) /\ convo' = [convo EXCEPT !.lastMessage = req[r].latest]
  <2>1. convo # None /\ convo \in Convo
    BY <1>2 DEF HasConvo, IInv, TypeOK
  <2>2. /\ convo'.deletedFor = convo.deletedFor /\ convo'.mutedBy = convo.mutedBy
        /\ convo'.unreadCounts = convo.unreadCounts
    BY <1>2, <2>1 DEF Convo
  <2>3. convo' \in Convo
    <3>1. req[r].latest \in Preview
      BY CallFields DEF UnsendRewrite, IInv, TypeInv, Pcs
    <3> QED
      BY <1>2, <2>1, <3>1, UpdateTypes
  <2> QED
    BY <2>1, <2>2, <2>3, UnseenWrite, NoneAssumption DEF UnsendRewrite, IInv
<1> QED
  BY <1>1, <1>2 DEF UnsendRewrite

(* The $set of a read receipt clears the badge.                            *)
LEMMA ReadSees ==
  ASSUME IInv, IInv', NEW r \in Requests, ReadApply(r)
  PROVE  \/ UNCHANGED ThreadView
         \/ Abstract!See(req[r].user) /\ req[r].user \in Participants
<1> DEFINE q == req[r]
           u == q.user
<1>1. u \in Participants /\ q.mid \in MsgRefs
  BY CallFields DEF ReadApply, IInv, TypeInv, Pcs
<1>2. CASE UNCHANGED convo
  BY <1>2, Unseen DEF ReadApply
<1>3. CASE /\ HasConvo(q.conv)
           /\ convo' = [convo EXCEPT !.unreadCounts[u] = 0]
  <2>1. convo # None /\ convo \in Convo /\ msgs' = msgs
    BY <1>3 DEF HasConvo, IInv, TypeOK, ReadApply
  <2>2. /\ convo'.deletedFor = convo.deletedFor /\ convo'.mutedBy = convo.mutedBy
        /\ convo'.unreadCounts = [convo.unreadCounts EXCEPT ![u] = 0]
    BY <1>3, <2>1 DEF Convo
  <2>3. convo' # None
    <3>1. convo' \in Convo
      BY <1>1, <1>3, <2>1, UpdateTypes
    <3> QED
      BY <3>1, NoneAssumption
  <2>4. ThreadView = View(convo, msgs) /\ ThreadView \in Views /\ ThreadView # None
    BY <2>1, ViewOfConvo DEF IInv
  <2>5. ThreadView' = View(convo', msgs) /\ ThreadView' \in Views
    BY <2>1, <2>3, ViewAfter DEF IInv
  <2> DEFINE e == [ThreadView EXCEPT !.unread[u] = 0]
             w == ThreadView'
  <2>6. /\ w \in Views /\ w.log = ThreadView.log /\ w.hidden = ThreadView.hidden
        /\ w.unread = [ThreadView.unread EXCEPT ![u] = 0] /\ w.muted = ThreadView.muted
    BY <2>2, <2>4, <2>5 DEF View
  <2> HIDE DEF w
  <2>7. /\ e.log = ThreadView.log /\ e.hidden = ThreadView.hidden
        /\ e.unread = [ThreadView.unread EXCEPT ![u] = 0] /\ e.muted = ThreadView.muted
    BY <2>4 DEF Views
  <2>8. e \in Views
    BY <1>1, <2>4 DEF Views
  <2> HIDE DEF e
  <2>9. w = e
    BY <2>6, <2>7, <2>8, SameView
  <2> QED
    BY <1>1, <2>4, <2>9 DEF e, w, Abstract!See
<1> QED
  BY <1>2, <1>3 DEF ReadApply

(* The $addToSet or $pull of setMute.                                      *)
LEMMA MuteMutes ==
  ASSUME IInv, IInv', NEW r \in Requests, MuteApply(r)
  PROVE  \/ UNCHANGED ThreadView
         \/ /\ Abstract!Mute(req[r].user, req[r].on)
            /\ req[r].user \in Participants /\ req[r].on \in BOOLEAN
<1> DEFINE q == req[r]
           u == q.user
           ms == IF q.on THEN convo.mutedBy \cup {u} ELSE convo.mutedBy \ {u}
<1>1. u \in Participants /\ q.on \in BOOLEAN
  BY CallFields DEF MuteApply, IInv, TypeInv, Pcs, Call
<1>2. CASE UNCHANGED convo
  BY <1>2, Unseen DEF MuteApply
<1>3. CASE HasConvo(q.conv) /\ convo' = [convo EXCEPT !.mutedBy = ms]
  <2>1. convo # None /\ convo \in Convo /\ msgs' = msgs
    BY <1>3 DEF HasConvo, IInv, TypeOK, MuteApply
  <2>2. ms \in SUBSET Participants
    BY <1>1, <2>1 DEF Convo
  <2>3. ThreadView = View(convo, msgs) /\ ThreadView \in Views /\ ThreadView # None
    BY <2>1, ViewOfConvo DEF IInv
  <2>4. ms = IF q.on THEN ThreadView.muted \cup {u} ELSE ThreadView.muted \ {u}
    BY <2>3 DEF View
  <2> HIDE DEF ms
  <2>5. /\ convo'.deletedFor = convo.deletedFor /\ convo'.mutedBy = ms
        /\ convo'.unreadCounts = convo.unreadCounts
    BY <1>3, <2>1 DEF Convo
  <2>6. convo' # None
    BY <1>3, <2>1, <2>2, UpdateTypes, NoneAssumption
  <2>7. ThreadView' = View(convo', msgs) /\ ThreadView' \in Views
    BY <2>1, <2>6, ViewAfter DEF IInv
  <2> DEFINE e == [ThreadView EXCEPT !.muted = ms]
             w == ThreadView'
  <2>8. /\ w \in Views /\ w.log = ThreadView.log /\ w.hidden = ThreadView.hidden
        /\ w.unread = ThreadView.unread /\ w.muted = ms
    BY <2>3, <2>5, <2>7 DEF View
  <2> HIDE DEF w
  <2>9. /\ e \in Views /\ e.log = ThreadView.log /\ e.hidden = ThreadView.hidden
        /\ e.unread = ThreadView.unread /\ e.muted = ms
    BY <2>2, <2>3 DEF Views
  <2> HIDE DEF e
  <2>10. w = e
    BY <2>8, <2>9, SameView
  <2>11. ThreadView' = [ThreadView EXCEPT !.muted = ms]
    BY <2>10 DEF e, w
  <2> QED
    BY <1>1, <2>3, <2>4, <2>11 DEF Abstract!Mute
<1> QED
  BY <1>2, <1>3 DEF MuteApply

(***************************************************************************)
(* The refinement.                                                         *)
(***************************************************************************)
LEMMA ViewInit == Init => Abstract!Init
BY DEF Init, Abstract!Init, ThreadView

LEMMA ViewStep == IInv /\ IInv' /\ [Next]_vars => [Abstract!Next]_ThreadView
<1> SUFFICES ASSUME IInv, IInv', [Next]_vars PROVE [Abstract!Next]_ThreadView
  OBVIOUS
<1>1. CASE UNCHANGED vars
  BY <1>1, Unseen DEF vars
<1>2. ASSUME NEW r \in Requests,
             \/ CreateUpsert(r) \/ SendCommit(r) \/ HideCommit(r) \/ UnsendMark(r)
             \/ UnsendRewrite(r) \/ ReadApply(r) \/ MuteApply(r)
      PROVE  [Abstract!Next]_ThreadView
  <2>1. CASE CreateUpsert(r)
    BY <2>1, UpsertCreates DEF Abstract!Next
  <2>2. CASE SendCommit(r)
    BY <2>2, CommitPosts DEF Abstract!Next
  <2>3. CASE HideCommit(r)
    BY <2>3, CommitDiscards DEF Abstract!Next
  <2>4. CASE UnsendMark(r)
    BY <2>4, MarkRetracts DEF Abstract!Next
  <2>5. CASE UnsendRewrite(r)
    BY <2>5, RewriteUnseen
  <2>6. CASE ReadApply(r)
    BY <2>6, ReadSees DEF Abstract!Next
  <2>7. CASE MuteApply(r)
    BY <2>7, MuteMutes DEF Abstract!Next
  <2> QED
    BY <1>2, <2>1, <2>2, <2>3, <2>4, <2>5, <2>6, <2>7
<1>3. ASSUME NEW r \in Requests, NEW u \in Participants,
             \/ CreateBegin(r, u) \/ (\E c \in Cids : SendBegin(r, u, c))
             \/ HideBegin(r, u) \/ (\E i \in MsgIds : UnsendBegin(r, u, i))
             \/ ReadBegin(r, u)
             \/ (\E on \in BOOLEAN : MuteBegin(r, u, on))
      PROVE  UNCHANGED ThreadView
  <2>1. UNCHANGED <<convo, msgs>>
    BY <1>3 DEF CreateBegin, SendBegin, HideBegin, UnsendBegin, ReadBegin, MuteBegin, db
  <2> QED
    BY <2>1, Unseen
<1>4. ASSUME NEW r \in Requests,
             \/ SendCheckBlock(r) \/ SendAppend(r) \/ Announce(r) \/ TxnRetry(r)
             \/ UnsendLoad(r) \/ UnsendLatest(r) \/ UnsendEmit(r) \/ Fail(r)
      PROVE  UNCHANGED ThreadView
  <2>1. UNCHANGED <<convo, msgs>>
    BY <1>4 DEF SendCheckBlock, SendAppend, Announce, TxnRetry, UnsendLoad,
                UnsendLatest, UnsendEmit, Fail, db
  <2> QED
    BY <2>1, Unseen
<1>5. ASSUME NEW u \in Participants, Block(u) \/ Unblock(u)
      PROVE  UNCHANGED ThreadView
  <2>1. UNCHANGED <<convo, msgs>>
    BY <1>5 DEF Block, Unblock
  <2> QED
    BY <2>1, Unseen
<1> QED
  BY <1>1, <1>2, <1>3, <1>4, <1>5 DEF Next

(* To whoever reads the database, every request takes effect at one        *)
(* instant: snapshots, retries, crashes and the steps of an unsend do not  *)
(* show.                                                                   *)
THEOREM ThreadImplementsMailbox == Spec => ImplementsMailbox
<1>1. Init => Abstract!Init
  BY ViewInit
<1>2. IInv /\ IInv' /\ [Next]_vars => [Abstract!Next]_ThreadView
  BY ViewStep
<1> QED
  BY <1>1, <1>2, InvariantHolds, PTL DEF Spec, ImplementsMailbox, Abstract!Spec
=============================================================================
