-------------------------------- MODULE Contact --------------------------------
(***************************************************************************)
(* Starting and opening conversations: findOrCreate and open, composed     *)
(* with the block changes of Blocks and with the main site, whose items    *)
(* and bids change on their own.                                           *)
(*                                                                         *)
(* Each call reads the item, the bids and the blocks in one await after    *)
(* another, and anything may change between two of them.  A conversation   *)
(* is stored with a snapshot of the item (its price stands for the whole)  *)
(* and goes when both sides deleted it or it expired; Thread and Retention *)
(* have that.                                                              *)
(***************************************************************************)
EXTENDS Blocks, FiniteSets

CONSTANTS
  Items,
  Seller,        \* addedBy of each item, or None
  Prices,
  Calls,         \* slots for calls
  MaxRunning,    \* bound: calls, block changes and lists running at once
  None

ASSUME SellerAssumption == Seller \in [Items -> Users \cup {None}]
ASSUME NoUserAssumption == None \notin Users

VARIABLES
  item,          \* the main site's items
  convs,         \* the conversations
  call,          \* what each call has read and where it stands
  ever           \* history: what was true at some moment of each call

contact == <<item, convs, call, ever>>
allVars == <<vars, contact>>

Deleted == [at |-> "deleted", price |-> None, accepted |-> {}]
Listed(i) == [at : {"shown", "hidden"}, price : Prices, accepted : SUBSET (Users \ {Seller[i]})]

Members(c) == {c.pair[1], c.pair[2]}

NoCall == [pc |-> "idle"]
Running(r) == call[r] # NoCall
Begin(r, q) ==
  /\ ~Running(r)
  /\ Cardinality({s \in Calls : Running(s)} \cup {s \in Requests : Busy(s)}
                   \cup {v \in Users : load[v] # Idle}) < MaxRunning
  /\ call' = [call EXCEPT ![r] = q]
  /\ UNCHANGED <<vars, item, convs>>
Move(r, q) ==
  /\ call' = [call EXCEPT ![r] = q]
  /\ UNCHANGED <<vars, item, convs>>
Return(r) == call' = [call EXCEPT ![r] = NoCall]

ContactInit ==
  /\ Init
  /\ item \in [Items -> [at : {"shown"}, price : Prices, accepted : {{}}]]
  /\ convs = {}
  /\ call = [r \in Calls |-> NoCall]
  /\ ever = [r \in Calls |-> {}]

-----------------------------------------------------------------------------
(* The main site.  A deleted item does not come back.                      *)
EditItem(i) ==
  /\ item[i] # Deleted
  /\ \E t \in Listed(i) \cup {Deleted} : item' = [item EXCEPT ![i] = t]
  /\ UNCHANGED <<vars, convs, call>>

(* The thread ends: deleted for both, or expired.                          *)
End(c) ==
  /\ c \in convs
  /\ convs' = convs \ {c}
  /\ UNCHANGED <<vars, item, call>>

-----------------------------------------------------------------------------
(* findOrCreate.  The caller is the buyer, or the seller who names one.    *)
FindOrCreate(r, u, i, v) ==
  Begin(r, [pc |-> "snapshot", me |-> u, item |-> i, named |-> v, price |-> None])

BuyerOf(q) == IF q.named = None THEN q.me ELSE q.named

(* getItemSnapshot: the item is there, shown and has a seller; who names a *)
(* buyer is that seller.                                                   *)
(* Defect: hidden is not looked at.                                        *)
OnOfferHidden(t) == t.at # "deleted"
OnOffer(t) == t.at = "shown"

ReadSnapshot(r) ==
  LET q == call[r] IN
  /\ q.pc = "snapshot"
  /\ IF OnOffer(item[q.item]) /\ Seller[q.item] # None
          /\ (q.named # None => q.me = Seller[q.item])
     THEN Move(r, [q EXCEPT !.pc = IF q.named = None THEN "block" ELSE "bid",
                            !.price = item[q.item].price])
     ELSE Return(r) /\ UNCHANGED <<vars, item, convs>>

(* hasAcceptedBid.  Defect: any bid does.                                  *)
HasAcceptedBidAny(i, u) == TRUE
HasAcceptedBid(i, u) == u \in item[i].accepted

ReadBid(r) ==
  LET q == call[r] IN
  /\ q.pc = "bid"
  /\ IF HasAcceptedBid(q.item, q.named)
     THEN Move(r, [q EXCEPT !.pc = "block"])
     ELSE Return(r) /\ UNCHANGED <<vars, item, convs>>

(* Not with oneself, and not across a block.                               *)
ReadBlock(r) ==
  LET q == call[r] IN
  /\ q.pc = "block"
  /\ IF BuyerOf(q) # Seller[q.item] /\ ~ExistsBetween(BuyerOf(q), Seller[q.item])
     THEN Move(r, [q EXCEPT !.pc = "upsert"])
     ELSE Return(r) /\ UNCHANGED <<vars, item, convs>>

(* pairKey.  Defect: the caller first.                                     *)
PairKeyCaller(q) == IF q.named = None THEN <<q.me, Seller[q.item]>> ELSE <<q.me, q.named>>
PairKey(q) == <<BuyerOf(q), Seller[q.item]>>

(* $setOnInsert.  Defect: $set.                                            *)
UpsertedOver(q) ==
  {c \in convs : c.item # q.item \/ c.pair # PairKey(q)}
    \cup {[item |-> q.item, pair |-> PairKey(q), price |-> q.price]}
Upserted(q) ==
  IF \E c \in convs : c.item = q.item /\ c.pair = PairKey(q) THEN convs
  ELSE convs \cup {[item |-> q.item, pair |-> PairKey(q), price |-> q.price]}

(* getUserSummaries decides nothing; then the upsert.                      *)
Upsert(r) ==
  /\ call[r].pc = "upsert"
  /\ convs' = Upserted(call[r])
  /\ Return(r)
  /\ UNCHANGED <<vars, item>>

-----------------------------------------------------------------------------
(* open: for a participant, the conversation as stored.                    *)
Open(r, u, c) ==
  /\ c \in convs
  /\ u \in Members(c)
  /\ Begin(r, [pc |-> "live", me |-> u, conv |-> c])

(* The live item is laid over the answer while the item exists.            *)
(* Defect: it is also stored.                                              *)
OverlaidStored(c) ==
  {IF d = c /\ item[c.item] # Deleted THEN [d EXCEPT !.price = item[c.item].price] ELSE d : d \in convs}
Overlaid(c) == convs

ReadLive(r) ==
  /\ call[r].pc = "live"
  /\ convs' = Overlaid(call[r].conv)
  /\ call' = [call EXCEPT ![r].pc = "status"]
  /\ UNCHANGED <<vars, item>>

(* statusBetween, and the answer.                                          *)
AnswerOpen(r) ==
  /\ call[r].pc = "status"
  /\ Return(r)
  /\ UNCHANGED <<vars, item, convs>>

(* A read or the upsert fails.                                             *)
FailCall(r) ==
  /\ Running(r)
  /\ Return(r)
  /\ UNCHANGED <<vars, item, convs>>

-----------------------------------------------------------------------------
(* What a creation asks for and holds now.                                 *)
Facts(q, items, blocks) ==
  IF q.pc \notin {"snapshot", "bid", "block", "upsert"} THEN {}
  ELSE LET p == <<BuyerOf(q), Seller[q.item]>> IN
    (IF items[q.item].at = "shown" THEN {"shown"} ELSE {})
      \cup (IF {p, <<p[2], p[1]>>} \cap blocks = {} THEN {"clear"} ELSE {})
      \cup (IF q.named \in items[q.item].accepted THEN {"accepted"} ELSE {})

Remember ==
  ever' = [r \in Calls |-> IF call'[r] = NoCall THEN {}
                           ELSE ever[r] \cup Facts(call'[r], item', rows')]

ChangeBlocks ==
  /\ Next
  /\ Cardinality({s \in Calls : Running(s)} \cup {s \in Requests : req'[s] # Idle}
                   \cup {v \in Users : load'[v] # Idle}) <= MaxRunning
  /\ UNCHANGED <<item, convs, call>>

ContactStep ==
  \/ ChangeBlocks
  \/ \E i \in Items : EditItem(i)
  \/ \E c \in convs : End(c)
  \/ \E r \in Calls :
       \/ \E u \in Users, i \in Items, v \in Users \cup {None} : FindOrCreate(r, u, i, v)
       \/ ReadSnapshot(r) \/ ReadBid(r) \/ ReadBlock(r) \/ Upsert(r)
       \/ \E u \in Users, c \in convs : Open(r, u, c)
       \/ ReadLive(r) \/ AnswerOpen(r) \/ FailCall(r)

ContactNext == ContactStep /\ Remember

ContactSpec == ContactInit /\ [][ContactNext]_allVars

-----------------------------------------------------------------------------
(* Properties.                                                             *)

(* Buyer and seller have one conversation about an item, whoever starts it *)
(* and however many calls run at once.                                     *)
OneThreadPerPair ==
  \A c, d \in convs : c.item = d.item /\ Members(c) = Members(d) => c = d

(* Although the item, the bids and the blocks are read one after another,  *)
(* a conversation starts only if during the call the item was on offer,    *)
(* neither side blocked the other and, where the seller starts it, the     *)
(* buyer's bid was accepted - each at some moment of its own.              *)
StartsEntitled ==
  [][\A c \in convs' \ convs :
       \E r \in Calls :
         /\ Running(r) /\ call'[r] = NoCall
         /\ c.pair = <<BuyerOf(call[r]), Seller[call[r].item]>>
         /\ {"shown", "clear"} \subseteq ever[r]
         /\ call[r].named # None => "accepted" \in ever[r] /\ call[r].me = c.pair[2]]_allVars

(* A conversation keeps the snapshot it was created with, whatever the     *)
(* main site does and whatever later calls find.                           *)
SnapshotKept ==
  [][\A c \in convs, d \in convs' :
       c.item = d.item /\ c.pair = d.pair => c = d]_allVars
=============================================================================
