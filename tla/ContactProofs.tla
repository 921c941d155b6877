---------------------------- MODULE ContactProofs ----------------------------
(***************************************************************************)
(* Proofs about Blocks and about Contact, which extends it, for any users, *)
(* items, prices, requests and calls.                                      *)
(***************************************************************************)
EXTENDS Contact, TLAPS

-----------------------------------------------------------------------------
(* Blocks: the rows, the status events and the views of the clients.       *)


(* The mirror image of a status is one.                                    *)
LEMMA MirrorStatus ==
  ASSUME NEW status \in BlockStatus
  PROVE  Mirrored(status) \in BlockStatus
  BY DEF Mirrored, BlockStatus

(* A status read from the rows is a status, and the other side of the pair *)
(* reads its mirror image.                                                 *)
LEMMA StatusMirrors ==
  ASSUME NEW u, NEW v
  PROVE  /\ StatusBetween(u, v) \in BlockStatus
         /\ StatusBetween(v, u) = Mirrored(StatusBetween(u, v))
  BY DEF StatusBetween, Mirrored, BlockStatus

Inv == TypeOK

LEMMA InvInit == Init => Inv
<1> SUFFICES ASSUME Init PROVE Inv
  OBVIOUS
<1>1. rows \subseteq Users \times Users
  BY DEF Init
<1>2. req \in [Requests -> Call \cup {Idle}] /\ load \in [Users -> Load \cup {Idle}]
  BY DEF Init
<1>3. view \in [Users -> [Users -> BlockStatus]]
  BY StatusMirrors DEF Init
<1>4. alone \subseteq Requests
  BY DEF Init
<1> QED
  BY <1>1, <1>2, <1>3, <1>4 DEF Inv, TypeOK

(* Most steps move one request and perhaps the rows.                       *)
LEMMA MoveInv ==
  ASSUME Inv, NEW r \in Requests, NEW q \in Call \cup {Idle},
         Goto(r, q), rows' \subseteq Users \times Users, UNCHANGED <<load, view>>,
         alone' \subseteq Requests
  PROVE  Inv'
  BY DEF Inv, TypeOK, Goto

(* The event and the answer of a request write its status into the views.  *)
LEMMA TellInv ==
  ASSUME Inv, NEW r \in Requests, Emit(r) \/ Answer(r)
  PROVE  Inv'
<1> DEFINE q == req[r]
<1>1. q \in Call
  BY DEF Inv, TypeOK, Emit, Answer, Idle
<1>2. q.me \in Users /\ q.other \in Users /\ q.status \in BlockStatus
  BY <1>1 DEF Call
<1>3. Mirrored(q.status) \in BlockStatus
  BY <1>2, MirrorStatus
<1>4. [q EXCEPT !.pc = "answer"] \in Call
  BY <1>1 DEF Call, Steps
<1> HIDE DEF q
<1>5. \/ view' = [view EXCEPT ![q.me][q.other] = q.status,
                              ![q.other][q.me] = Mirrored(q.status)]
      \/ view' = [view EXCEPT ![q.me][q.other] = q.status]
      \/ view' = view
  BY DEF Emit, Answer, Shown, Answered, q
<1>6. view' \in [Users -> [Users -> BlockStatus]]
  BY <1>2, <1>3, <1>5 DEF Inv, TypeOK
<1>7. req' \in [Requests -> Call \cup {Idle}]
  BY <1>4 DEF Inv, TypeOK, Emit, Answer, Finish, Goto, q
<1>8. /\ rows' \subseteq Users \times Users /\ alone' \subseteq Requests
      /\ load' \in [Users -> Load \cup {Idle}]
  BY DEF Inv, TypeOK, Emit, Answer, Finish
<1> QED
  BY <1>6, <1>7, <1>8 DEF Inv, TypeOK

(* A list is read from the rows and replaces one user's view.              *)
LEMMA ListInv ==
  ASSUME Inv, NEW u \in Users, ReadList(u) \/ AnswerList(u)
  PROVE  Inv'
<1>1. CASE ReadList(u)
  <2>1. Touching(u) \subseteq Users \times Users
    BY DEF Inv, TypeOK, Touching
  <2>2. [pc |-> "loading", rows |-> Touching(u)] \in Load
    BY <2>1 DEF Load
  <2> QED
    BY <1>1, <2>2 DEF ReadList, Inv, TypeOK
<1>2. CASE AnswerList(u)
  <2>1. Replaced(u) \in [Users -> BlockStatus]
    BY DEF Replaced, BlockStatus
  <2> HIDE DEF Replaced
  <2>2. view' = view \/ view' = [view EXCEPT ![u] = Replaced(u)]
    BY <1>2 DEF AnswerList
  <2>3. view' \in [Users -> [Users -> BlockStatus]]
    BY <2>1, <2>2 DEF Inv, TypeOK
  <2> QED
    BY <1>2, <2>3 DEF AnswerList, Inv, TypeOK
<1> QED
  BY <1>1, <1>2

LEMMA InvStep == Inv /\ [Next]_vars => Inv'
<1> SUFFICES ASSUME Inv, [Next]_vars PROVE Inv'
  OBVIOUS
<1>0. ASSUME NEW r \in Requests, req[r].pc \in Steps
      PROVE  req[r] \in Call
  BY <1>0 DEF Inv, TypeOK, Idle, Steps
<1>1. ASSUME NEW r \in Requests, NEW u \in Callers, NEW v \in Users,
             Block(r, u, v) \/ Unblock(r, u, v)
      PROVE  Inv'
  <2>1. Unread \in BlockStatus
    BY DEF Unread, BlockStatus
  <2>2. PICK pc \in {"exists", "remove"} :
          Goto(r, [pc |-> pc, me |-> u, other |-> v, status |-> Unread])
    BY <1>1 DEF Block, Unblock
  <2>3. [pc |-> pc, me |-> u, other |-> v, status |-> Unread] \in Call
    BY <2>1, CallersAssumption DEF Call, Steps
  <2>4. rows' \subseteq Users \times Users /\ UNCHANGED <<load, view>>
    BY <1>1 DEF Block, Unblock, Inv, TypeOK
  <2>5. alone' \subseteq Requests
    BY <1>1 DEF Block, Unblock, Begun, Inv, TypeOK
  <2> QED
    BY <2>2, <2>3, <2>4, <2>5, MoveInv
<1>2. ASSUME NEW r \in Requests, UserExists(r) PROVE Inv'
  <2>1. req[r] \in Call
    BY <1>0, <1>2 DEF UserExists, Steps
  <2>2. [req[r] EXCEPT !.pc = "create"] \in Call
    BY <2>1 DEF Call, Steps
  <2>3. rows' \subseteq Users \times Users /\ UNCHANGED <<load, view>> /\ alone' \subseteq Requests
    BY <1>2 DEF UserExists, Finish, Inv, TypeOK
  <2> QED
    BY <1>2, <2>2, <2>3, MoveInv DEF UserExists, Finish
<1>3. ASSUME NEW r \in Requests, Create(r) \/ Remove(r) PROVE Inv'
  <2>1. req[r] \in Call
    BY <1>0, <1>3 DEF Create, Remove, Steps
  <2>2. [req[r] EXCEPT !.pc = "read"] \in Call
    BY <2>1 DEF Call, Steps
  <2>3. rows' \subseteq Users \times Users /\ UNCHANGED <<load, view>> /\ alone' \subseteq Requests
    BY <1>3, <2>1 DEF Create, Remove, Inv, TypeOK, Call
  <2> QED
    BY <1>3, <2>2, <2>3, MoveInv DEF Create, Remove
<1>4. ASSUME NEW r \in Requests, ReadBack(r) PROVE Inv'
  <2>1. req[r] \in Call
    BY <1>0, <1>4 DEF ReadBack, Steps
  <2>2. PICK status \in BlockStatus :
          Goto(r, [req[r] EXCEPT !.pc = "emit", !.status = status])
    BY <1>4, StatusMirrors DEF ReadBack, ReadPair
  <2>3. [req[r] EXCEPT !.pc = "emit", !.status = status] \in Call
    BY <2>1 DEF Call, Steps
  <2>4. rows' \subseteq Users \times Users /\ UNCHANGED <<load, view>> /\ alone' \subseteq Requests
    BY <1>4 DEF ReadBack, Inv, TypeOK
  <2> QED
    BY <2>2, <2>3, <2>4, MoveInv
<1>6. ASSUME NEW r \in Requests, Fail(r) PROVE Inv'
  <2>1. rows' \subseteq Users \times Users /\ UNCHANGED <<load, view>> /\ alone' \subseteq Requests
    BY <1>6 DEF Fail, Finish, Inv, TypeOK
  <2> QED
    BY <1>6, <2>1, MoveInv DEF Fail, Finish
<1>5. CASE UNCHANGED vars
  BY <1>5 DEF vars, Inv, TypeOK
<1> QED
  BY <1>1, <1>2, <1>3, <1>4, <1>5, <1>6, TellInv, ListInv DEF Next

(* The rows, the requests and the views keep their shape.                  *)
THEOREM BlocksTypeCorrect == Spec => []TypeOK
<1>1. Inv => TypeOK
  BY DEF Inv
<1> QED
  BY InvInit, InvStep, <1>1, PTL DEF Spec

(* A request that ran alone is still running, no other change of its pair  *)
(* is, and what it is about to emit or to answer is what is stored.        *)
Solo ==
  \A r \in alone :
    /\ req[r] # Idle
    /\ \A q \in Requests \ {r} :
         req[q] # Idle => {req[q].me, req[q].other} # {req[r].me, req[r].other}
Telling == {"emit", "answer"}

Fresh ==
  \A r \in alone :
    req[r].pc \in Telling => req[r].status = StatusBetween(req[r].me, req[r].other)

IInv == Inv /\ Solo /\ Fresh

LEMMA SoloInit == Init => Solo /\ Fresh
  BY DEF Init, Solo, Fresh

(* A running request moves on: its pair stays, and the rows of no other    *)
(* pair change.                                                            *)
LEMMA SoloMove ==
  ASSUME IInv, NEW r \in Requests, NEW q \in Call, req[r] # Idle, Goto(r, q),
         q.me = req[r].me, q.other = req[r].other, UNCHANGED alone,
         r \in alone /\ q.pc \in Telling => q.status = StatusBetween(q.me, q.other),
         \/ UNCHANGED rows
         \/ q.pc \notin Telling /\ rows' = rows \cup {<<q.me, q.other>>}
         \/ q.pc \notin Telling /\ rows' = rows \ {<<q.me, q.other>>}
  PROVE  Solo' /\ Fresh'
<1>1. q # Idle
  BY DEF Call, Steps, Idle
<1>2. req' = [req EXCEPT ![r] = q] /\ req \in [Requests -> Call \cup {Idle}]
  BY DEF Goto, IInv, Inv, TypeOK
<1>3. Solo'
  <2>1. \A t \in Requests : /\ req'[t] # Idle <=> req[t] # Idle
                            /\ req'[t].me = req[t].me /\ req'[t].other = req[t].other
    BY <1>1, <1>2
  <2>2. alone \subseteq Requests
    BY DEF IInv, Inv, TypeOK
  <2> SUFFICES ASSUME NEW s \in alone'
               PROVE  /\ req'[s] # Idle
                      /\ \A t \in Requests \ {s} : req'[t] # Idle =>
                           {req'[t].me, req'[t].other} # {req'[s].me, req'[s].other}
    BY DEF Solo
  <2>3. s \in alone /\ s \in Requests
    BY <2>2
  <2>4. /\ req'[s] # Idle
        /\ req'[s].me = req[s].me /\ req'[s].other = req[s].other
    BY <2>1, <2>3 DEF IInv, Solo
  <2>5. ASSUME NEW t \in Requests \ {s}, req'[t] # Idle
        PROVE  {req'[t].me, req'[t].other} # {req'[s].me, req'[s].other}
    <3>1. req[t] # Idle /\ req'[t].me = req[t].me /\ req'[t].other = req[t].other
      BY <2>1, <2>5
    <3>2. {req[t].me, req[t].other} # {req[s].me, req[s].other}
      BY <2>3, <3>1 DEF IInv, Solo
    <3> QED
      BY <2>4, <3>1, <3>2
  <2> QED
    BY <2>4, <2>5
<1>4. Fresh'
  <2> SUFFICES ASSUME NEW s \in alone, req'[s].pc \in Telling
               PROVE  req'[s].status = StatusBetween(req[s].me, req[s].other)'
    BY DEF Fresh
  <2>0. s \in Requests
    BY DEF IInv, Inv, TypeOK
  <2>1. CASE s = r
    <3>1. UNCHANGED rows /\ req'[s] = q
      BY <2>1, <2>0, <1>2
    <3> QED
      BY <2>1, <3>1 DEF StatusBetween
  <2>2. CASE s # r
    <3>1. req'[s] = req[s] /\ req[s].status = StatusBetween(req[s].me, req[s].other)
      BY <2>0, <2>2, <1>2 DEF IInv, Fresh
    <3>2. {q.me, q.other} # {req[s].me, req[s].other}
      BY <2>0, <2>2 DEF IInv, Solo
    <3>3. /\ <<req[s].me, req[s].other>> # <<q.me, q.other>>
          /\ <<req[s].other, req[s].me>> # <<q.me, q.other>>
      BY <3>2
    <3> QED
      BY <3>1, <3>3 DEF StatusBetween
  <2> QED
    BY <2>1, <2>2
<1> QED
  BY <1>3, <1>4

(* A request that ends leaves the others as they are.                      *)
LEMMA SoloFinish ==
  ASSUME IInv, NEW r \in Requests, Finish(r), UNCHANGED rows
  PROVE  Solo' /\ Fresh'
<1>1. /\ req' = [req EXCEPT ![r] = Idle] /\ alone' = alone \ {r}
      /\ req \in [Requests -> Call \cup {Idle}] /\ alone \subseteq Requests
  BY DEF Finish, Goto, IInv, Inv, TypeOK
<1>2. Solo'
  BY <1>1 DEF IInv, Solo
<1>3. Fresh'
  BY <1>1 DEF IInv, Fresh, StatusBetween
<1> QED
  BY <1>2, <1>3

(* A request that begins takes the requests of its pair out of alone.      *)
LEMMA SoloBegin ==
  ASSUME IInv, NEW r \in Requests, NEW q \in Call, req[r] = Idle, Goto(r, q),
         q.pc \notin Telling, Begun(r, q.me, q.other), UNCHANGED rows
  PROVE  Solo' /\ Fresh'
<1>1. q # Idle
  BY DEF Call, Steps, Idle
<1>2. /\ req' = [req EXCEPT ![r] = q] /\ req \in [Requests -> Call \cup {Idle}]
      /\ alone \subseteq Requests
  BY DEF Goto, IInv, Inv, TypeOK
<1>3. \A s \in Requests : s \in Rivals(q.me, q.other) <=>
         req[s] # Idle /\ {req[s].me, req[s].other} = {q.me, q.other}
  BY DEF Rivals, Busy
<1>4. \A s \in alone' : s \in Requests /\ (s = r \/ s \in alone)
  BY <1>2 DEF Begun
<1>5. r \in alone' => Rivals(q.me, q.other) = {}
  BY DEF Begun
<1>6. \A s \in alone' : s # r => s \notin Rivals(q.me, q.other)
  BY DEF Begun
<1>7. Solo'
  <2> SUFFICES ASSUME NEW s \in alone'
               PROVE  /\ req'[s] # Idle
                      /\ \A t \in Requests \ {s} : req'[t] # Idle =>
                           {req'[t].me, req'[t].other} # {req'[s].me, req'[s].other}
    BY DEF Solo
  <2>1. CASE s = r
    <3>1. req'[s] = q
      BY <2>1, <1>2
    <3>2. \A t \in Requests \ {s} : req'[t] = req[t] /\ t \notin Rivals(q.me, q.other)
      BY <2>1, <1>2, <1>5
    <3> QED
      BY <3>1, <3>2, <1>1, <1>3
  <2>2. CASE s # r
    <3>1. s \in Requests /\ s \in alone /\ req'[s] = req[s]
      BY <2>2, <1>2, <1>4
    <3>2. req[s] # Idle /\ {q.me, q.other} # {req[s].me, req[s].other}
      BY <2>2, <3>1, <1>3, <1>6 DEF IInv, Solo
    <3>3. ASSUME NEW t \in Requests \ {s}, req'[t] # Idle
          PROVE  {req'[t].me, req'[t].other} # {req'[s].me, req'[s].other}
      <4>1. CASE t = r
        BY <4>1, <3>1, <3>2, <1>2
      <4>2. CASE t # r
        BY <4>2, <3>1, <3>3, <1>2 DEF IInv, Solo
      <4> QED
        BY <4>1, <4>2
    <3> QED
      BY <3>1, <3>2, <3>3
  <2> QED
    BY <2>1, <2>2
<1>8. Fresh'
  BY <1>2, <1>4 DEF IInv, Fresh, StatusBetween
<1> QED
  BY <1>7, <1>8

LEMMA IInvStep == IInv /\ [Next]_vars => IInv'
<1> SUFFICES ASSUME IInv, [Next]_vars PROVE Solo' /\ Fresh'
  BY InvStep DEF IInv
<1>0. ASSUME NEW r \in Requests, req[r].pc \in Steps
      PROVE  req[r] \in Call /\ req[r] # Idle
  BY <1>0 DEF IInv, Inv, TypeOK, Idle, Steps
<1>1. ASSUME NEW r \in Requests, NEW u \in Callers, NEW v \in Users,
             Block(r, u, v) \/ Unblock(r, u, v)
      PROVE  Solo' /\ Fresh'
  <2>1. Unread \in BlockStatus
    BY DEF Unread, BlockStatus
  <2>2. PICK pc \in {"exists", "remove"} :
          Goto(r, [pc |-> pc, me |-> u, other |-> v, status |-> Unread])
    BY <1>1 DEF Block, Unblock
  <2> DEFINE q == [pc |-> pc, me |-> u, other |-> v, status |-> Unread]
  <2>3. q \in Call /\ q.pc \notin Telling /\ q.me = u /\ q.other = v
    BY <2>1, CallersAssumption DEF Call, Steps, Telling
  <2>4. req[r] = Idle /\ Begun(r, u, v) /\ UNCHANGED rows
    BY <1>1 DEF Block, Unblock, Busy
  <2> HIDE DEF q
  <2>5. Goto(r, q)
    BY <2>2 DEF q
  <2>6. Begun(r, q.me, q.other)
    BY <2>3, <2>4
  <2> QED
    BY <2>3, <2>4, <2>5, <2>6, SoloBegin
<1>2. ASSUME NEW r \in Requests, UserExists(r) PROVE Solo' /\ Fresh'
  <2>1. req[r] \in Call /\ req[r] # Idle
    BY <1>0, <1>2 DEF UserExists, Steps
  <2> DEFINE q == [req[r] EXCEPT !.pc = "create"]
  <2>2. q \in Call /\ q.pc \notin Telling /\ q.me = req[r].me /\ q.other = req[r].other
    BY <2>1 DEF Call, Steps, Telling
  <2>3. CASE Goto(r, q) /\ UNCHANGED alone
    <3>1. UNCHANGED rows
      BY <1>2 DEF UserExists
    <3> HIDE DEF q
    <3> QED
      BY <2>1, <2>2, <2>3, <3>1, SoloMove
  <2>4. CASE Finish(r)
    BY <1>2, <2>4, SoloFinish DEF UserExists
  <2> QED
    BY <1>2, <2>3, <2>4 DEF UserExists
<1>3. ASSUME NEW r \in Requests, Create(r) \/ Remove(r) PROVE Solo' /\ Fresh'
  <2>1. req[r] \in Call /\ req[r] # Idle
    BY <1>0, <1>3 DEF Create, Remove, Steps
  <2> DEFINE q == [req[r] EXCEPT !.pc = "read"]
  <2>2. q \in Call /\ q.pc \notin Telling /\ q.me = req[r].me /\ q.other = req[r].other
    BY <2>1 DEF Call, Steps, Telling
  <2>3. Goto(r, q) /\ UNCHANGED alone
    BY <1>3 DEF Create, Remove
  <2>4. \/ rows' = rows \cup {<<q.me, q.other>>}
        \/ rows' = rows \ {<<q.me, q.other>>}
    BY <1>3, <2>2 DEF Create, Remove
  <2> HIDE DEF q
  <2> QED
    BY <2>1, <2>2, <2>3, <2>4, SoloMove
<1>4. ASSUME NEW r \in Requests, ReadBack(r) PROVE Solo' /\ Fresh'
  <2>1. req[r] \in Call /\ req[r] # Idle
    BY <1>0, <1>4 DEF ReadBack, Steps
  <2>2. ReadPair(req[r]) = StatusBetween(req[r].me, req[r].other)
        /\ ReadPair(req[r]) \in BlockStatus
    BY StatusMirrors DEF ReadPair
  <2> DEFINE q == [req[r] EXCEPT !.pc = "emit", !.status = ReadPair(req[r])]
  <2>3. q \in Call /\ q.status = StatusBetween(q.me, q.other)
        /\ q.me = req[r].me /\ q.other = req[r].other
    BY <2>1, <2>2 DEF Call, Steps
  <2>4. Goto(r, q) /\ UNCHANGED <<rows, alone>>
    BY <1>4 DEF ReadBack
  <2> HIDE DEF q
  <2> QED
    BY <2>1, <2>3, <2>4, SoloMove
<1>5. ASSUME NEW r \in Requests, Answer(r) \/ Fail(r) PROVE Solo' /\ Fresh'
  BY <1>5, SoloFinish DEF Answer, Fail
<1>7. ASSUME NEW r \in Requests, Emit(r) PROVE Solo' /\ Fresh'
  <2>1. req[r] \in Call /\ req[r] # Idle
    BY <1>0, <1>7 DEF Emit, Steps
  <2> DEFINE q == [req[r] EXCEPT !.pc = "answer"]
  <2>2. /\ q \in Call /\ q.me = req[r].me /\ q.other = req[r].other
        /\ q.status = req[r].status
    BY <2>1 DEF Call, Steps
  <2>3. r \in alone => req[r].status = StatusBetween(req[r].me, req[r].other)
    BY <1>7 DEF IInv, Fresh, Telling, Emit
  <2>4. r \in alone /\ q.pc \in Telling => q.status = StatusBetween(q.me, q.other)
    BY <2>2, <2>3
  <2>5. Goto(r, q) /\ UNCHANGED <<rows, alone>>
    BY <1>7 DEF Emit
  <2> HIDE DEF q
  <2> QED
    BY <2>1, <2>2, <2>4, <2>5, SoloMove
<1>8. ASSUME NEW u \in Users, ReadList(u) \/ AnswerList(u) PROVE Solo' /\ Fresh'
  BY <1>8 DEF ReadList, AnswerList, IInv, Solo, Fresh, StatusBetween
<1>6. CASE UNCHANGED vars
  BY <1>6 DEF vars, IInv, Solo, Fresh, StatusBetween
<1> QED
  BY <1>1, <1>2, <1>3, <1>4, <1>5, <1>6, <1>7, <1>8 DEF Next

(* A change no other change of its pair overlapped leaves both users with  *)
(* the stored state when it emits, whatever lists and late answers showed  *)
(* before, and its answer, should it change anything, shows the caller the *)
(* stored state too.                                                       *)
THEOREM SoloChangesSettle == Spec => SoloChangeSettles
<1>1. Init => IInv
  BY InvInit, SoloInit DEF IInv
<1>2. ASSUME IInv, NEW r \in alone, NEW u \in Users, NEW v \in Users,
             Emit(r), {u, v} = {req[r].me, req[r].other}, u # v
      PROVE  view'[u][v] = StatusBetween(u, v)'
  <2> DEFINE q == req[r]
  <2>1. q \in Call /\ q.status = StatusBetween(q.me, q.other)
    BY <1>2 DEF IInv, Inv, TypeOK, Fresh, Emit, Idle, Telling
  <2>2. q.me \in Users /\ q.other \in Users /\ view \in [Users -> [Users -> BlockStatus]]
    BY <2>1, <1>2 DEF Call, IInv, Inv, TypeOK
  <2>3. view' = [view EXCEPT ![q.me][q.other] = q.status,
                             ![q.other][q.me] = Mirrored(q.status)]
    BY <1>2 DEF Emit, Shown
  <2>4. StatusBetween(u, v)' = StatusBetween(u, v)
    BY <1>2 DEF Emit, StatusBetween
  <2>5. Mirrored(q.status) = StatusBetween(q.other, q.me)
    BY <2>1, <2>2, StatusMirrors
  <2>6. CASE u = q.me /\ v = q.other
    <3> HIDE DEF q
    <3>1. view'[u][v] = q.status
      BY <2>2, <2>3, <2>6, <1>2
    <3> QED
      BY <3>1, <2>1, <2>4, <2>6
  <2>7. CASE u = q.other /\ v = q.me
    <3> HIDE DEF q
    <3>1. view'[u][v] = Mirrored(q.status)
      BY <2>2, <2>3, <2>7, <1>2
    <3> QED
      BY <3>1, <2>5, <2>4, <2>7
  <2> QED
    BY <1>2, <2>6, <2>7
<1>3. ASSUME IInv, NEW r \in alone, NEW u \in Users, NEW v \in Users,
             Answer(r), view' # view, <<u, v>> = <<req[r].me, req[r].other>>
      PROVE  view'[u][v] = StatusBetween(u, v)'
  <2>1. req[r] \in Call /\ req[r].status = StatusBetween(u, v)
    BY <1>3 DEF IInv, Inv, TypeOK, Fresh, Answer, Idle, Telling
  <2>2. view' = [view EXCEPT ![u][v] = req[r].status]
    BY <1>3 DEF Answer, Answered
  <2>3. view'[u][v] = req[r].status
    BY <2>2, <1>3 DEF IInv, Inv, TypeOK
  <2>4. StatusBetween(u, v)' = StatusBetween(u, v)
    BY <1>3 DEF Answer, StatusBetween
  <2> QED
    BY <2>1, <2>3, <2>4
<1>4. IInv /\ [Next]_vars =>
        [\A r \in alone : \A u, v \in Users :
           /\ Emit(r) /\ {u, v} = {req[r].me, req[r].other} /\ u # v =>
                view'[u][v] = StatusBetween(u, v)'
           /\ Answer(r) /\ view' # view /\ <<u, v>> = <<req[r].me, req[r].other>> =>
                view'[u][v] = StatusBetween(u, v)']_vars
  BY <1>2, <1>3
<1> QED
  BY <1>1, <1>4, IInvStep, PTL DEF Spec, SoloChangeSettles
-----------------------------------------------------------------------------
(* The four ways to ask who blocks whom agree, for any users and rows.     *)
THEOREM ReadersAlwaysAgree == Spec => []ReadersAgree
<1>1. ASSUME rows \subseteq Users \times Users
      PROVE  ReadersAgree
  <2> SUFFICES ASSUME NEW me \in Users, NEW other \in Users \ {me}
               PROVE  LET status == StatusBetween(me, other)
                          row    == StatusMap(me, Users \ {me})[other]
                      IN
                      /\ ExistsBetween(me, other) <=> status.blockedByMe \/ status.blockedByThem
                      /\ row.blockedByMe <=> status.blockedByMe
                      /\ row.blockedByThem <=> status.blockedByThem
                      /\ other \in Outgoing(me, Touching(me)) <=> status.blockedByMe
                      /\ other \in Incoming(me, Touching(me)) <=> status.blockedByThem
    BY DEF ReadersAgree
  <2> DEFINE mine == <<me, other>> \in rows
             theirs == <<other, me>> \in rows
  <2>1. /\ StatusBetween(me, other).blockedByMe = mine
        /\ StatusBetween(me, other).blockedByThem = theirs
    BY DEF StatusBetween
  <2>2. \A p \in rows : p = <<p[1], p[2]>>
    BY <1>1
  <2>3. (\E p \in PairRows(me, Users \ {me}) : p[1] = me /\ p[2] = other) <=> mine
    <3>1. mine => <<me, other>> \in PairRows(me, Users \ {me})
      BY DEF PairRows
    <3>2. ASSUME NEW p \in PairRows(me, Users \ {me}), p[1] = me, p[2] = other
          PROVE  mine
      BY <3>2, <2>2 DEF PairRows
    <3> QED
      BY <3>1, <3>2
  <2>4. (\E p \in PairRows(me, Users \ {me}) : p[1] # me /\ p[1] = other) <=> theirs
    <3>1. theirs => <<other, me>> \in PairRows(me, Users \ {me})
      BY DEF PairRows
    <3>2. ASSUME NEW p \in PairRows(me, Users \ {me}), p[1] # me, p[1] = other
          PROVE  theirs
      BY <3>2, <2>2 DEF PairRows
    <3> QED
      BY <3>1, <3>2
  <2>5. /\ StatusMap(me, Users \ {me})[other].blockedByMe <=> mine
        /\ StatusMap(me, Users \ {me})[other].blockedByThem <=> theirs
    <3> DEFINE out == \E p \in PairRows(me, Users \ {me}) : p[1] = me /\ p[2] = other
               in  == \E p \in PairRows(me, Users \ {me}) : p[1] # me /\ p[1] = other
    <3>1. StatusMap(me, Users \ {me})[other] = [blockedByMe |-> out, blockedByThem |-> in]
      BY DEF StatusMap, Filed
    <3>2. (out <=> mine) /\ (in <=> theirs)
      BY <2>3, <2>4
    <3> HIDE DEF mine, theirs, out, in
    <3> QED
      BY <3>1, <3>2
  <2>6. other \in Outgoing(me, Touching(me)) <=> mine
    <3>1. mine => <<me, other>> \in {p \in Touching(me) : p[1] = me}
      BY DEF Touching
    <3>2. ASSUME NEW p \in {p \in Touching(me) : p[1] = me}, p[2] = other
          PROVE  mine
      BY <3>2, <2>2 DEF Touching
    <3> QED
      BY <3>1, <3>2 DEF Outgoing
  <2>7. other \in Incoming(me, Touching(me)) <=> theirs
    <3>1. theirs => <<other, me>> \in {p \in Touching(me) : p[1] # me}
      BY DEF Touching
    <3>2. ASSUME NEW p \in {p \in Touching(me) : p[1] # me}, p[1] = other
          PROVE  theirs
      BY <3>2, <2>2 DEF Touching
    <3> QED
      BY <3>1, <3>2 DEF Incoming
  <2>8. ExistsBetween(me, other) <=> mine \/ theirs
    BY DEF ExistsBetween
  <2> HIDE DEF mine, theirs
  <2> QED
    BY <2>1, <2>5, <2>6, <2>7, <2>8
<1>2. TypeOK => ReadersAgree
  BY <1>1 DEF TypeOK
<1> QED
  BY <1>2, BlocksTypeCorrect, PTL

-----------------------------------------------------------------------------
(* Contact: findOrCreate and open, with the blocks among what they read.   *)


Parties  == Users \cup {None}
Item     == [at : {"shown", "hidden", "deleted"}, price : Prices \cup {None},
             accepted : SUBSET Users]
Conv     == [item : Items, pair : Users \X Parties, price : Prices \cup {None}]
Creation == [pc : {"snapshot", "bid", "block", "upsert"}, me : Users, item : Items,
             named : Parties, price : Prices \cup {None}]
Opening  == [pc : {"live", "status"}, me : Users, conv : Conv]

Shape ==
  /\ item \in [Items -> Item]
  /\ convs \subseteq Conv
  /\ call \in [Calls -> Creation \cup Opening \cup {NoCall}]

(* A conversation is one of a buyer with the seller of its item, and the   *)
(* only one of the two.                                                    *)
Seated ==
  \A c \in convs : c.pair[2] = Seller[c.item] /\ c.pair[1] # c.pair[2]
Unique ==
  \A c, d \in convs : c.item = d.item /\ c.pair = d.pair => c = d

(* What a creation has passed was true at some moment.                     *)
PassedAt(r) ==
  LET q == call[r] IN
  /\ q.pc \in {"bid", "block", "upsert"} =>
       "shown" \in ever[r] /\ (q.named # None => q.me = Seller[q.item])
  /\ q.pc \in {"block", "upsert"} => (q.named # None => "accepted" \in ever[r])
  /\ q.pc = "upsert" => "clear" \in ever[r] /\ BuyerOf(q) # Seller[q.item]

Passed == \A r \in Calls : PassedAt(r)

CInv == Shape /\ Seated /\ Unique /\ Passed

LEMMA CInvInit == ContactInit => CInv
<1> SUFFICES ASSUME ContactInit PROVE CInv
  OBVIOUS
<1>1. Shape
  BY DEF ContactInit, Shape, Item
<1>2. Seated /\ Unique
  BY DEF ContactInit, Seated, Unique
<1>3. Passed
  BY DEF ContactInit, Passed, PassedAt, NoCall
<1> QED
  BY <1>1, <1>2, <1>3 DEF CInv

(* The buyer of a creation is a user.                                      *)
LEMMA BuyerIsUser ==
  ASSUME NEW q \in Creation
  PROVE  BuyerOf(q) \in Users
  BY DEF BuyerOf, Creation, Parties

(* A call that does not move keeps what it has passed.                     *)
LEMMA StillPassed ==
  ASSUME Passed, Remember, NEW r \in Calls, call'[r] = call[r]
  PROVE  PassedAt(r)'
<1>1. CASE call[r] = NoCall
  BY <1>1 DEF PassedAt, NoCall
<1>2. CASE call[r] # NoCall
  <2>1. ever[r] \subseteq ever'[r]
    BY <1>2 DEF Remember
  <2> QED
    BY <2>1 DEF Passed, PassedAt, BuyerOf
<1> QED
  BY <1>1, <1>2

(* Block changes, the main site and the end of a thread move no call.      *)
LEMMA OutsideStep ==
  ASSUME CInv, Remember, item' \in [Items -> Item], convs' \subseteq convs, UNCHANGED call
  PROVE  CInv'
<1>1. Shape' /\ Seated' /\ Unique'
  BY DEF CInv, Shape, Seated, Unique
<1>2. Passed'
  BY StillPassed DEF CInv, Passed
<1> QED
  BY <1>1, <1>2 DEF CInv

(* One call moves.                                                         *)
LEMMA CallStep ==
  ASSUME CInv, Remember, NEW r \in Calls, NEW q \in Creation \cup Opening \cup {NoCall},
         call' = [call EXCEPT ![r] = q], UNCHANGED <<item, convs>>, PassedAt(r)'
  PROVE  CInv'
<1>1. Shape' /\ Seated' /\ Unique'
  BY DEF CInv, Shape, Seated, Unique
<1>2. \A t \in Calls \ {r} : call'[t] = call[t]
  BY DEF CInv, Shape
<1>3. Passed'
  BY <1>2, StillPassed DEF CInv, Passed
<1> QED
  BY <1>1, <1>3 DEF CInv

(* What a step remembers of the call it moved.                             *)
LEMMA Remembered ==
  ASSUME Remember, NEW r \in Calls, NEW q \in Creation, call'[r] = q
  PROVE  /\ ever[r] \subseteq ever'[r]
         /\ item'[q.item].at = "shown" => "shown" \in ever'[r]
         /\ {<<BuyerOf(q), Seller[q.item]>>, <<Seller[q.item], BuyerOf(q)>>} \cap rows' = {}
              => "clear" \in ever'[r]
         /\ q.named \in item'[q.item].accepted => "accepted" \in ever'[r]
<1>1. q # NoCall /\ q.pc \in {"snapshot", "bid", "block", "upsert"}
  BY DEF Creation, NoCall
<1>2. ever'[r] = ever[r] \cup Facts(q, item', rows')
  BY <1>1 DEF Remember
<1> QED
  BY <1>1, <1>2 DEF Facts

(* A call that returns or has just begun has passed nothing.               *)
LEMMA NothingPassed ==
  ASSUME NEW r \in Calls, call'[r].pc \notin {"bid", "block", "upsert"}
  PROVE  PassedAt(r)'
  BY DEF PassedAt

LEMMA ReturnStep ==
  ASSUME CInv, Remember, NEW r \in Calls, Return(r), UNCHANGED <<item, convs>>
  PROVE  CInv'
<1>1. call' = [call EXCEPT ![r] = NoCall] /\ call'[r] = NoCall
  BY DEF Return, CInv, Shape
<1>2. PassedAt(r)'
  BY <1>1, NothingPassed DEF NoCall
<1> QED
  BY <1>1, <1>2, CallStep

LEMMA BeginStep ==
  ASSUME CInv, Remember, NEW r \in Calls, NEW u \in Users,
         \/ \E i \in Items, v \in Users \cup {None} : FindOrCreate(r, u, i, v)
         \/ \E c \in convs : Open(r, u, c)
  PROVE  CInv'
<1>1. PICK q \in Creation \cup Opening :
        q.pc \in {"snapshot", "live"} /\ call' = [call EXCEPT ![r] = q]
  <2>1. CASE \E i \in Items, v \in Users \cup {None} : FindOrCreate(r, u, i, v)
    BY <2>1 DEF FindOrCreate, Begin, Creation, Parties
  <2>2. CASE \E c \in convs : Open(r, u, c)
    BY <2>2 DEF Open, Begin, Opening, CInv, Shape
  <2> QED
    BY <2>1, <2>2
<1>2. UNCHANGED <<item, convs>>
  BY DEF FindOrCreate, Open, Begin
<1>3. call'[r] = q
  BY <1>1 DEF CInv, Shape
<1>4. PassedAt(r)'
  BY <1>1, <1>3, NothingPassed
<1> QED
  BY <1>1, <1>2, <1>4, CallStep

LEMMA SnapshotStep ==
  ASSUME CInv, Remember, NEW r \in Calls, ReadSnapshot(r)
  PROVE  CInv'
<1>1. CASE Return(r) /\ UNCHANGED <<vars, item, convs>>
  BY <1>1, ReturnStep
<1>2. CASE ~(Return(r) /\ UNCHANGED <<vars, item, convs>>)
  <2>1. call[r] \in Creation
    BY DEF ReadSnapshot, CInv, Shape, Opening, NoCall
  <2>2. /\ item[call[r].item].at = "shown"
        /\ call[r].named # None => call[r].me = Seller[call[r].item]
    BY <1>2 DEF ReadSnapshot, OnOffer
  <2> DEFINE q == [call[r] EXCEPT !.pc = IF call[r].named = None THEN "block" ELSE "bid",
                                  !.price = item[call[r].item].price]
  <2>3. Move(r, q)
    BY <1>2 DEF ReadSnapshot
  <2>4. item[call[r].item].price \in Prices \cup {None}
    BY <2>1 DEF CInv, Shape, Creation, Item
  <2>5. /\ q \in Creation /\ q.pc \in {"bid", "block"} /\ q.item = call[r].item
        /\ q.named = call[r].named /\ q.me = call[r].me
        /\ q.pc = "block" => q.named = None
    BY <2>1, <2>4 DEF Creation
  <2> HIDE DEF q
  <2>6. call' = [call EXCEPT ![r] = q] /\ call'[r] = q /\ UNCHANGED <<vars, item, convs>>
    BY <2>3 DEF Move, CInv, Shape
  <2>7. "shown" \in ever'[r]
    BY <2>2, <2>5, <2>6, Remembered
  <2>8. PassedAt(r)'
    BY <2>2, <2>5, <2>6, <2>7 DEF PassedAt
  <2> QED
    BY <2>5, <2>6, <2>8, CallStep
<1> QED
  BY <1>1, <1>2

LEMMA BidStep ==
  ASSUME CInv, Remember, NEW r \in Calls, ReadBid(r)
  PROVE  CInv'
<1>1. CASE Return(r) /\ UNCHANGED <<vars, item, convs>>
  BY <1>1, ReturnStep
<1>2. CASE ~(Return(r) /\ UNCHANGED <<vars, item, convs>>)
  <2>1. call[r] \in Creation /\ call[r].pc = "bid"
    BY DEF ReadBid, CInv, Shape, Opening, NoCall
  <2>2. call[r].named \in item[call[r].item].accepted
    BY <1>2 DEF ReadBid, HasAcceptedBid
  <2> DEFINE q == [call[r] EXCEPT !.pc = "block"]
  <2>3. Move(r, q)
    BY <1>2 DEF ReadBid
  <2>4. /\ q \in Creation /\ q.pc = "block" /\ q.item = call[r].item
        /\ q.named = call[r].named /\ q.me = call[r].me
    BY <2>1 DEF Creation
  <2> HIDE DEF q
  <2>5. call' = [call EXCEPT ![r] = q] /\ call'[r] = q /\ UNCHANGED <<vars, item, convs>>
    BY <2>3 DEF Move, CInv, Shape
  <2>6. ever[r] \subseteq ever'[r] /\ "accepted" \in ever'[r]
    BY <2>2, <2>4, <2>5, Remembered
  <2>7. "shown" \in ever[r] /\ (q.named # None => q.me = Seller[q.item])
    BY <2>1, <2>4 DEF CInv, Passed, PassedAt
  <2>8. PassedAt(r)'
    BY <2>4, <2>5, <2>6, <2>7 DEF PassedAt
  <2> QED
    BY <2>4, <2>5, <2>8, CallStep
<1> QED
  BY <1>1, <1>2

LEMMA BlockStep ==
  ASSUME CInv, Remember, NEW r \in Calls, ReadBlock(r)
  PROVE  CInv'
<1>1. CASE Return(r) /\ UNCHANGED <<vars, item, convs>>
  BY <1>1, ReturnStep
<1>2. CASE ~(Return(r) /\ UNCHANGED <<vars, item, convs>>)
  <2>1. call[r] \in Creation /\ call[r].pc = "block"
    BY DEF ReadBlock, CInv, Shape, Opening, NoCall
  <2>2. /\ BuyerOf(call[r]) # Seller[call[r].item]
        /\ ~ExistsBetween(BuyerOf(call[r]), Seller[call[r].item])
    BY <1>2 DEF ReadBlock
  <2> DEFINE q == [call[r] EXCEPT !.pc = "upsert"]
  <2>3. Move(r, q)
    BY <1>2 DEF ReadBlock
  <2>4. /\ q \in Creation /\ q.pc = "upsert" /\ q.item = call[r].item
        /\ q.named = call[r].named /\ q.me = call[r].me
    BY <2>1 DEF Creation
  <2>5. BuyerOf(q) = BuyerOf(call[r])
    BY <2>4 DEF BuyerOf
  <2> HIDE DEF q
  <2>6. call' = [call EXCEPT ![r] = q] /\ call'[r] = q /\ UNCHANGED <<vars, item, convs>>
    BY <2>3 DEF Move, CInv, Shape
  <2>7. {<<BuyerOf(q), Seller[q.item]>>, <<Seller[q.item], BuyerOf(q)>>} \cap rows' = {}
    BY <2>2, <2>4, <2>5, <2>6 DEF ExistsBetween, vars
  <2>8. ever[r] \subseteq ever'[r] /\ "clear" \in ever'[r]
    BY <2>4, <2>6, <2>7, Remembered
  <2>9. /\ "shown" \in ever[r] /\ (q.named # None => q.me = Seller[q.item])
        /\ q.named # None => "accepted" \in ever[r]
    BY <2>1, <2>4 DEF CInv, Passed, PassedAt
  <2>10. BuyerOf(q) # Seller[q.item]
    BY <2>2, <2>4, <2>5
  <2>11. BuyerOf(call[r])' = BuyerOf(q)
    BY <2>6 DEF BuyerOf
  <2>12. PassedAt(r)'
    BY <2>4, <2>6, <2>8, <2>9, <2>10, <2>11 DEF PassedAt
  <2> QED
    BY <2>4, <2>6, <2>12, CallStep
<1> QED
  BY <1>1, <1>2

LEMMA OpenStep ==
  ASSUME CInv, Remember, NEW r \in Calls, ReadLive(r) \/ AnswerOpen(r)
  PROVE  CInv'
<1>1. CASE AnswerOpen(r)
  BY <1>1, ReturnStep DEF AnswerOpen
<1>2. CASE ReadLive(r)
  <2>1. call[r] \in Opening
    BY <1>2 DEF ReadLive, CInv, Shape, Creation, NoCall
  <2> DEFINE q == [call[r] EXCEPT !.pc = "status"]
  <2>2. q \in Opening /\ q.pc = "status"
    BY <2>1 DEF Opening
  <2>3. call' = [call EXCEPT ![r] = q] /\ UNCHANGED <<item, convs>>
    BY <1>2 DEF ReadLive, Overlaid
  <2> HIDE DEF q
  <2>4. call'[r] = q
    BY <2>3 DEF CInv, Shape
  <2>5. PassedAt(r)'
    BY <2>2, <2>4, NothingPassed
  <2> QED
    BY <2>2, <2>3, <2>5, CallStep
<1> QED
  BY <1>1, <1>2

(* What an upsert finds or inserts.                                        *)
LEMMA UpsertAdds ==
  ASSUME CInv, NEW r \in Calls, Upsert(r)
  PROVE  \E new \in Conv :
           /\ new.item = call[r].item
           /\ new.pair = <<BuyerOf(call[r]), Seller[call[r].item]>>
           /\ \/ convs' = convs
              \/ /\ convs' = convs \cup {new}
                 /\ \A c \in convs : c.item # new.item \/ c.pair # new.pair
<1> DEFINE q == call[r]
           new == [item |-> q.item, pair |-> PairKey(q), price |-> q.price]
<1>1. q \in Creation
  BY DEF Upsert, CInv, Shape, Opening, NoCall
<1>2. q.item \in Items /\ q.price \in Prices \cup {None}
  BY <1>1 DEF Creation
<1>3. PairKey(q) = <<BuyerOf(q), Seller[q.item]>> /\ PairKey(q) \in Users \X Parties
  BY <1>1, <1>2, BuyerIsUser, SellerAssumption DEF PairKey, Parties
<1>4. /\ new \in Conv /\ new.item = q.item
      /\ new.pair = <<BuyerOf(q), Seller[q.item]>>
  BY <1>2, <1>3 DEF Conv
<1>5. \/ convs' = convs
      \/ /\ convs' = convs \cup {new}
         /\ \A c \in convs : c.item # new.item \/ c.pair # new.pair
  BY DEF Upsert, Upserted
<1> HIDE DEF new
<1> QED
  BY <1>4, <1>5

LEMMA UpsertStep ==
  ASSUME CInv, Remember, NEW r \in Calls, Upsert(r)
  PROVE  CInv'
<1>1. PICK new \in Conv :
        /\ new.item = call[r].item
        /\ new.pair = <<BuyerOf(call[r]), Seller[call[r].item]>>
        /\ \/ convs' = convs
           \/ /\ convs' = convs \cup {new}
              /\ \A c \in convs : c.item # new.item \/ c.pair # new.pair
  BY UpsertAdds
<1>2. /\ call' = [call EXCEPT ![r] = NoCall] /\ call[r].pc = "upsert"
      /\ UNCHANGED item /\ call \in [Calls -> Creation \cup Opening \cup {NoCall}]
  BY DEF Upsert, Return, CInv, Shape
<1>3. new.pair[2] = Seller[new.item] /\ new.pair[1] # new.pair[2]
  BY <1>1, <1>2 DEF CInv, Passed, PassedAt
<1>4. Shape'
  BY <1>1, <1>2 DEF CInv, Shape
<1>5. Seated'
  BY <1>1, <1>3 DEF CInv, Seated
<1>6. Unique'
  BY <1>1 DEF CInv, Unique
<1>7. call'[r].pc = "idle" /\ \A t \in Calls \ {r} : call'[t] = call[t]
  BY <1>2 DEF NoCall
<1>8. Passed'
  BY <1>7, NothingPassed, StillPassed DEF CInv, Passed
<1> QED
  BY <1>4, <1>5, <1>6, <1>8 DEF CInv

LEMMA CInvStep == CInv /\ [ContactNext]_allVars => CInv'
<1> SUFFICES ASSUME CInv, [ContactNext]_allVars PROVE CInv'
  OBVIOUS
<1>1. CASE UNCHANGED allVars
  BY <1>1 DEF allVars, contact, CInv, Shape, Seated, Unique, Passed, PassedAt
<1>2. CASE ChangeBlocks /\ Remember
  BY <1>2, OutsideStep DEF ChangeBlocks, CInv, Shape
<1>3. ASSUME NEW i \in Items, EditItem(i), Remember PROVE CInv'
  <2>1. PICK t \in Listed(i) \cup {Deleted} : item' = [item EXCEPT ![i] = t]
    BY <1>3 DEF EditItem
  <2>2. t \in Item
    BY DEF Listed, Deleted, Item
  <2>3. item' \in [Items -> Item]
    BY <2>1, <2>2 DEF CInv, Shape
  <2> QED
    BY <1>3, <2>3, OutsideStep DEF EditItem
<1>4. ASSUME NEW c \in convs, End(c), Remember PROVE CInv'
  BY <1>4, OutsideStep DEF End, CInv, Shape
<1>5. ASSUME NEW r \in Calls, Remember,
             \/ \E u \in Users, i \in Items, v \in Users \cup {None} : FindOrCreate(r, u, i, v)
             \/ \E u \in Users, c \in convs : Open(r, u, c)
      PROVE  CInv'
  BY <1>5, BeginStep
<1>6. ASSUME NEW r \in Calls, Remember, FailCall(r) PROVE CInv'
  BY <1>6, ReturnStep DEF FailCall
<1> QED
  BY <1>1, <1>2, <1>3, <1>4, <1>5, <1>6, SnapshotStep, BidStep, BlockStep, UpsertStep, OpenStep
     DEF ContactNext, ContactStep

(* However many calls of the two run at once, a buyer and a seller have    *)
(* one conversation about an item.                                         *)
THEOREM OneConversationEach == ContactSpec => []OneThreadPerPair
<1>1. CInv => OneThreadPerPair
  <2> SUFFICES ASSUME CInv, NEW c \in convs, NEW d \in convs,
                      c.item = d.item, Members(c) = Members(d)
               PROVE  c = d
    BY DEF OneThreadPerPair
  <2>1. /\ c.pair \in Users \X Parties /\ d.pair \in Users \X Parties
    BY DEF CInv, Shape, Conv
  <2>2. /\ c.pair[2] = d.pair[2] /\ c.pair[1] # c.pair[2] /\ d.pair[1] # d.pair[2]
    BY DEF CInv, Seated
  <2>3. c.pair[1] = d.pair[1]
    BY <2>2 DEF Members
  <2>4. c.pair = d.pair
    BY <2>1, <2>2, <2>3
  <2> QED
    BY <2>4 DEF CInv, Unique
<1> QED
  BY CInvInit, CInvStep, <1>1, PTL DEF ContactSpec

(* Which steps change the conversations.                                   *)
LEMMA OnlyUpsertAdds ==
  ASSUME CInv, [ContactNext]_allVars
  PROVE  convs' \subseteq convs \/ \E r \in Calls : Upsert(r)
  BY DEF ContactNext, ContactStep, ChangeBlocks, EditItem, End, FindOrCreate, Open, Begin,
         ReadSnapshot, ReadBid, ReadBlock, Move, ReadLive, Overlaid, AnswerOpen, FailCall,
         allVars, contact

(* Every check a creation passed was true while it ran, and nothing but a  *)
(* creation that passed them all adds a conversation.                      *)
THEOREM CreationsAreEntitled == ContactSpec => StartsEntitled
<1> DEFINE Entitled ==
      \A c \in convs' \ convs :
        \E r \in Calls :
          /\ Running(r) /\ call'[r] = NoCall
          /\ c.pair = <<BuyerOf(call[r]), Seller[call[r].item]>>
          /\ {"shown", "clear"} \subseteq ever[r]
          /\ call[r].named # None => "accepted" \in ever[r] /\ call[r].me = c.pair[2]
<1>1. CInv /\ [ContactNext]_allVars => [Entitled]_allVars
  <2> SUFFICES ASSUME CInv, [ContactNext]_allVars, NEW c \in convs' \ convs
               PROVE  \E r \in Calls :
                        /\ Running(r) /\ call'[r] = NoCall
                        /\ c.pair = <<BuyerOf(call[r]), Seller[call[r].item]>>
                        /\ {"shown", "clear"} \subseteq ever[r]
                        /\ call[r].named # None =>
                             "accepted" \in ever[r] /\ call[r].me = c.pair[2]
    BY Zenon
  <2>1. PICK r \in Calls : Upsert(r)
    BY OnlyUpsertAdds
  <2>2. c.pair = <<BuyerOf(call[r]), Seller[call[r].item]>>
    BY <2>1, UpsertAdds
  <2>3. c.pair[2] = Seller[call[r].item]
    BY <2>2
  <2>4. Running(r) /\ call'[r] = NoCall /\ call[r].pc = "upsert"
    BY <2>1 DEF Upsert, Return, Running, NoCall, CInv, Shape
  <2>5. /\ {"shown", "clear"} \subseteq ever[r]
        /\ call[r].named # None =>
             "accepted" \in ever[r] /\ call[r].me = Seller[call[r].item]
    BY <2>4 DEF CInv, Passed, PassedAt
  <2> QED
    BY <2>2, <2>3, <2>4, <2>5
<1> QED
  BY CInvInit, CInvStep, <1>1, PTL DEF ContactSpec, StartsEntitled

(* No step puts another snapshot into a conversation that exists.          *)
THEOREM SnapshotsAreKept == ContactSpec => SnapshotKept
<1> DEFINE Kept ==
      \A c \in convs, d \in convs' : c.item = d.item /\ c.pair = d.pair => c = d
<1>1. CInv /\ [ContactNext]_allVars => [Kept]_allVars
  <2> SUFFICES ASSUME CInv, [ContactNext]_allVars, NEW c \in convs, NEW d \in convs',
                      c.item = d.item, c.pair = d.pair
               PROVE  c = d
    BY Zenon
  <2>1. d \in convs
    BY OnlyUpsertAdds, UpsertAdds
  <2> QED
    BY <2>1 DEF CInv, Unique
<1> QED
  BY CInvInit, CInvStep, <1>1, PTL DEF ContactSpec, SnapshotKept
=============================================================================
