--------------------------- MODULE DeliveryProofs ---------------------------
(***************************************************************************)
(* Proofs about Delivery, for any users, sockets, devices, conversations   *)
(* and page size.                                                          *)
(***************************************************************************)
EXTENDS Delivery, FiniteSetTheorems, SequenceTheorems, WellFoundedInduction, TLAPS

(***************************************************************************)
(* Bounded sets of naturals.                                               *)
(***************************************************************************)

(* A nonempty set of naturals has a least element.                         *)
LEMMA Least ==
  ASSUME NEW S \in SUBSET Nat, S # {}
  PROVE  \E x \in S : \A y \in S : x <= y
<1> DEFINE R == {ss \in Nat \X Nat : ss[1] < ss[2]}
<1>1. IsWellFoundedOn(R, Nat)
  BY NatLessThanWellFounded DEF OpToRel
<1> HIDE DEF R
<1>2. PICK x \in S : \A y \in S : ~(<<y, x>> \in R)
  BY <1>1, WFMin
<1>3. ASSUME NEW y \in S PROVE x <= y
  <2>1. x \in Nat /\ y \in Nat
    OBVIOUS
  <2>2. ~(y < x)
    BY <1>2, <2>1 DEF R
  <2> QED
    BY <2>1, <2>2
<1> QED
  BY <1>3

(* Newest is the greatest element.                                         *)
LEMMA NewestIs ==
  ASSUME NEW n \in Nat, NEW I \in SUBSET (0..n), I # {}
  PROVE  Newest(I) \in I /\ \A j \in I : j <= Newest(I)
<1> DEFINE T == {n - x : x \in I}
<1>1. \A x \in I : x \in Nat /\ n - x \in Nat
  OBVIOUS
<1>2. T \in SUBSET Nat /\ T # {}
  BY <1>1
<1> HIDE DEF T
<1>3. PICK t \in T : \A u \in T : t <= u
  BY <1>2, Least
<1>4. PICK x \in I : t = n - x
  BY <1>3 DEF T
<1>5. ASSUME NEW j \in I PROVE j <= x
  <2>1. n - j \in T
    BY DEF T
  <2>2. n - x <= n - j
    BY <1>3, <1>4, <2>1
  <2> QED
    BY <1>1, <2>2
<1> QED
  BY <1>5 DEF Newest

(* What a first page leaves out lies beyond a full page.                   *)
LEMMA FirstPageFull ==
  ASSUME NEW n \in Nat, NEW I \in SUBSET (0..n), NEW i \in I, i \notin FirstPage(I)
  PROVE  /\ ~(Cardinality(FirstPage(I)) < PageSize)
         /\ FirstPage(I) # {}
         /\ \A j \in FirstPage(I) : j < i
<1> DEFINE P == FirstPage(I)
           Below(x) == {j \in I : j < x}
<1>a. IsFiniteSet(0..n)
  BY FS_Interval
<1>1. IsFiniteSet(I) /\ PageSize \in Nat \ {0}
  BY <1>a, FS_Subset, PageAssumption
<1>b. \A x \in I : x \in Nat
  OBVIOUS
<1>2. P \subseteq I /\ \A x \in I : x \in P <=> Cardinality(Below(x)) < PageSize
  BY DEF FirstPage
<1>c. i \notin P
  OBVIOUS
<1> HIDE DEF P
<1>3. IsFiniteSet(P) /\ Cardinality(P) \in Nat
  BY <1>1, <1>2, FS_Subset, FS_CardinalityType
<1>4. \A x \in I : IsFiniteSet(Below(x)) /\ Cardinality(Below(x)) \in Nat
  BY <1>1, FS_Subset, FS_CardinalityType
<1>5. ~(Cardinality(P) < PageSize)
  <2> SUFFICES ASSUME Cardinality(P) < PageSize PROVE FALSE
    OBVIOUS
  <2>1. I \ P \in SUBSET Nat /\ I \ P # {}
    BY <1>b, <1>c
  <2>2. PICK x \in I \ P : \A y \in I \ P : x <= y
    BY <2>1, Least
  <2>3. Below(x) \subseteq P
    <3> SUFFICES ASSUME NEW j \in I, j < x, j \notin P PROVE FALSE
      OBVIOUS
    <3>1. x <= j /\ j \in Nat /\ x \in Nat
      BY <1>b, <2>2
    <3> QED
      BY <3>1
  <2>4. Cardinality(Below(x)) <= Cardinality(P)
    BY <1>3, <2>3, FS_Subset
  <2>5. ~(Cardinality(Below(x)) < PageSize)
    BY <1>2, <2>2
  <2>6. Cardinality(Below(x)) \in Nat
    BY <1>4, <2>2
  <2> HIDE DEF Below
  <2> QED
    BY <1>1, <1>3, <2>4, <2>5, <2>6
<1>6. P # {}
  BY <1>1, <1>5, FS_EmptySet
<1>7. ASSUME NEW j \in P, ~(j < i) PROVE FALSE
  <2>0. j \in I /\ j \in Nat /\ i \in Nat /\ i <= j
    BY <1>b, <1>2, <1>7
  <2>1. Below(i) \subseteq Below(j)
    <3> SUFFICES ASSUME NEW k \in I, k < i PROVE k < j
      OBVIOUS
    <3> QED
      BY <1>b, <2>0
  <2>2. Cardinality(Below(i)) <= Cardinality(Below(j))
    BY <2>0, <1>4, <2>1, FS_Subset
  <2>3. /\ Cardinality(Below(i)) \in Nat /\ Cardinality(Below(j)) \in Nat
        /\ Cardinality(Below(j)) < PageSize /\ ~(Cardinality(Below(i)) < PageSize)
    BY <2>0, <1>2, <1>c, <1>4
  <2> HIDE DEF Below
  <2> QED
    BY <1>1, <2>2, <2>3
<1> QED
  BY <1>5, <1>6, <1>7 DEF P

(***************************************************************************)
(* The inductive invariant.                                                *)
(***************************************************************************)
Ids(ms) == {m.id : m \in ms}
On(q, i) == \E k \in 1..Len(q) : q[k] = i
OnWire(s, i) == On(wire[s], i)
Pending(i) == \E p \in pending : p.id = i

Frames == [at : {"none", "asked", "read", "answered", "failed", "ignored"},
           cursor : [Convs -> Nat], found : SUBSET Nat]

(* Messages are numbered in the order of their commits.                    *)
LogInv ==
  /\ IsFiniteSet(log)
  /\ log \subseteq [id : Nat, conv : Convs, from : Users]
  /\ \A m \in log : m.id \in 1..Cardinality(log)
  /\ \A m, n \in log : m.id = n.id => m = n

(* A message is announced once: one pending entry each, and nothing on a   *)
(* wire before.                                                            *)
OnceInv ==
  /\ pending \subseteq [id : Ids(log), via : Sockets \cup {None}]
  /\ \A p, q \in pending : p.id = q.id => p = q
  /\ wire \in [Sockets -> Seq(Ids(log))]
  /\ \A s \in Sockets, i \in Nat : OnWire(s, i) => ~Pending(i)
  /\ OncePerSocket

(* A sync runs on an open socket whose rooms have been joined.             *)
TypesInv ==
  /\ GateTypeOK
  /\ sync \in [Sockets -> Frames]
  /\ held \in [Devices -> SUBSET Nat]

InStep(s) ==
  /\ s \in open => /\ phase[s] \notin {"new", "done"}
                   /\ phase[s] = "ready" => convIds[s] \subseteq rooms[s]
  /\ sync[s].at # "none" => s \in open
  /\ sync[s].at \in {"read", "answered"} =>
       phase[s] = "ready" /\ sync[s].found \subseteq Ids(log)

RoomsInv == TypesInv /\ \A s \in Sockets : InStep(s)

(* What a sync that has been read owes: every message between the cursor   *)
(* and the end of its page.                                                *)
Page(s, c) == sync[s].found \cap Stored(c)
Owed(s, m) ==
  /\ m.conv \in convIds[s]
  /\ sync[s].cursor[m.conv] # 0
  /\ m.id > sync[s].cursor[m.conv]
  /\ \/ Cardinality(Page(s, m.conv)) < PageSize
     \/ m.id <= Newest(Page(s, m.conv))

Covered(s, m) ==
  \/ m.id \in held[Device[s]]
  \/ OnWire(s, m.id)
  \/ Pending(m.id)
  \/ sync[s].at = "read" /\ m.id \in sync[s].found

NoGap(s) ==
  \A m \in log : sync[s].at \in {"read", "answered"} /\ Owed(s, m) => Covered(s, m)
GapInv == \A s \in Sockets : NoGap(s)

IInv == LogInv /\ OnceInv /\ RoomsInv /\ GapInv

LEMMA GapIsDone == GapInv /\ RoomsInv => SyncLeavesNoGap
<1> SUFFICES ASSUME GapInv, RoomsInv, NEW s \in open, sync[s].at = "answered", NEW m \in log,
                    Owed(s, m)
             PROVE  \/ m.id \in held[Device[s]] \/ OnWire(s, m.id) \/ Pending(m.id)
  BY DEF SyncLeavesNoGap, Owed, Page, OnWire, On, Pending
<1>1. s \in Sockets
  BY DEF RoomsInv, TypesInv, GateTypeOK
<1> QED
  BY <1>1 DEF GapInv, NoGap, Covered

(***************************************************************************)
(* The log.                                                                *)
(***************************************************************************)
LEMMA StoredIds ==
  ASSUME LogInv, NEW c
  PROVE  /\ Cardinality(log) \in Nat
         /\ Stored(c) \in SUBSET (0..Cardinality(log))
         /\ Stored(c) \subseteq Ids(log) /\ Ids(log) \subseteq Nat
         /\ \A d : d # c => Stored(c) \cap Stored(d) = {}
<1>1. Cardinality(log) \in Nat
  BY FS_CardinalityType DEF LogInv
<1>2. \A m \in log : m.id \in 1..Cardinality(log) /\ m.id \in Nat
  BY DEF LogInv
<1>3. \A m, n \in log : m.id = n.id => m = n
  BY DEF LogInv
<1> QED
  BY <1>1, <1>2, <1>3 DEF Stored, Ids

LEMMA TheMessage ==
  ASSUME LogInv, NEW m \in log
  PROVE  MsgOf(m.id) = m
BY DEF LogInv, MsgOf

(***************************************************************************)
(* Steps that leave log, pending and the wires alone.                      *)
(***************************************************************************)
LEMMA SameMail ==
  ASSUME LogInv, OnceInv, UNCHANGED <<log, pending, wire>>
  PROVE  LogInv' /\ OnceInv'
<1>1. LogInv'
  BY DEF LogInv
<1>2. OnceInv'
  BY DEF OnceInv, OncePerSocket, OnWire, On, Pending, Ids
<1> QED
  BY <1>1, <1>2

(* What was covered stays covered, for a sync that goes on.                *)
LEMMA GapStep ==
  ASSUME GapInv, UNCHANGED log, NEW s \in Sockets,
         sync'[s].at \in {"read", "answered"} =>
           /\ sync[s].at \in {"read", "answered"}
           /\ sync'[s].cursor = sync[s].cursor /\ sync'[s].found = sync[s].found
           /\ convIds'[s] = convIds[s]
           /\ \A m \in log : m.conv \in convIds[s] /\ Covered(s, m) => Covered(s, m)'
  PROVE  NoGap(s)'
<1> SUFFICES ASSUME NEW m \in log, sync'[s].at \in {"read", "answered"}, Owed(s, m)'
             PROVE  Covered(s, m)'
  BY DEF NoGap
<1>1. Owed(s, m) /\ m.conv \in convIds[s]
  BY DEF Owed, Page, Stored
<1>2. Covered(s, m)
  BY <1>1 DEF GapInv, NoGap
<1> QED
  BY <1>1, <1>2

(***************************************************************************)
(* What devices hold only grows.                                           *)
(***************************************************************************)
LEMMA HeldGrows ==
  ASSUME held \in [Devices -> SUBSET Nat], NEW s \in Sockets, NEW X \in SUBSET Nat,
         held' = [held EXCEPT ![Device[s]] = @ \cup X]
  PROVE  /\ held' \in [Devices -> SUBSET Nat]
         /\ \A w \in Sockets : held[Device[w]] \subseteq held'[Device[w]]
         /\ X \subseteq held'[Device[s]]
<1>1. \A w \in Sockets : Device[w] \in Devices
  BY DeviceAssumption
<1> QED
  BY <1>1

LEMMA InitHolds == Init => IInv
<1> SUFFICES ASSUME Init PROVE IInv
  OBVIOUS
<1>1. LogInv
  BY FS_EmptySet DEF Init, LogInv
<1>2. OnceInv
  BY DEF Init, OnceInv, OncePerSocket, OnWire, On, Pending
<1>3. RoomsInv
  <2>1. GateTypeOK
    BY DEF Init, GateInit, GateTypeOK, Phases, ConvsOf
  <2>2. NoSync \in Frames /\ NoSync.at = "none"
    BY DEF NoSync, Frames
  <2> QED
    BY <2>1, <2>2 DEF Init, GateInit, RoomsInv, TypesInv, InStep
<1>4. GapInv
  BY DEF Init, GapInv, NoGap
<1> QED
  BY <1>1, <1>2, <1>3, <1>4 DEF IInv

(***************************************************************************)
(* send and its announcement.                                              *)
(***************************************************************************)
LEMMA SendStep ==
  ASSUME IInv, NEW u \in Users, NEW c \in Convs, NEW via \in Sockets \cup {None},
         Send(u, c, via)
  PROVE  IInv'
<1> DEFINE i == Cardinality(log) + 1
           m == [id |-> i, conv |-> c, from |-> u]
           p == [id |-> i, via |-> via]
<1>1. /\ log' = log \cup {m} /\ pending' = pending \cup {p}
      /\ UNCHANGED <<wire, held, sync, phase, open, convIds, rooms>>
  BY DEF Send, List
<1>2. /\ Cardinality(log) \in Nat /\ i \in Nat /\ i \notin Ids(log)
      /\ \A n \in log : n.id \in 1..Cardinality(log) /\ n.id \in 1..i /\ n.id # i
  BY FS_CardinalityType DEF IInv, LogInv, Ids
<1>3. m.id = i /\ m.conv = c /\ m \in [id : Nat, conv : Convs, from : Users]
  BY <1>2
<1>4. p.id = i /\ p \in [id : {i}, via : Sockets \cup {None}]
  OBVIOUS
<1>5. i = Cardinality(log) + 1 /\ i \in 1..i
  BY <1>2
<1> HIDE DEF i, m, p
<1>6. m \notin log /\ IsFiniteSet(log)
  BY <1>2, <1>3 DEF IInv, LogInv
<1>7. Cardinality(log') = i /\ IsFiniteSet(log')
  BY <1>1, <1>5, <1>6, FS_AddElement
<1>8. Ids(log') = Ids(log) \cup {i}
  BY <1>1, <1>3 DEF Ids
<1>9. \A n \in log' : n = m \/ n \in log
  BY <1>1
<1>10. LogInv'
  <2>1. log' \subseteq [id : Nat, conv : Convs, from : Users]
    BY <1>1, <1>3 DEF IInv, LogInv
  <2>2. \A n \in log' : n.id \in 1..Cardinality(log')
    BY <1>2, <1>3, <1>5, <1>7, <1>9
  <2>3. \A x, n \in log' : x.id = n.id => x = n
    BY <1>2, <1>3, <1>9 DEF IInv, LogInv
  <2> QED
    BY <1>7, <2>1, <2>2, <2>3 DEF LogInv
<1>11. \A s \in Sockets, j \in Nat : OnWire(s, j) => j \in Ids(log)
  BY DEF IInv, OnceInv, OnWire, On
<1>12. \A q \in pending : q.id \in Ids(log)
  BY DEF IInv, OnceInv
<1>13. OnceInv'
  <2>1. pending' \subseteq [id : Ids(log'), via : Sockets \cup {None}]
    BY <1>1, <1>4, <1>8 DEF IInv, OnceInv
  <2>2. \A q, r \in pending' : q.id = r.id => q = r
    BY <1>1, <1>2, <1>4, <1>12 DEF IInv, OnceInv
  <2>3. wire' \in [Sockets -> Seq(Ids(log'))]
    <3>1. Ids(log) \subseteq Ids(log')
      BY <1>8
    <3>2. \A q \in Seq(Ids(log)) : q \in Seq(Ids(log'))
      BY <3>1
    <3> QED
      BY <1>1, <3>2 DEF IInv, OnceInv
  <2>4. ASSUME NEW s \in Sockets, NEW j \in Nat, OnWire(s, j)' PROVE ~Pending(j)'
    <3>1. OnWire(s, j)
      BY <1>1, <2>4 DEF OnWire, On
    <3>2. j \in Ids(log) /\ ~Pending(j)
      BY <1>11, <3>1 DEF IInv, OnceInv
    <3> QED
      BY <1>1, <1>2, <1>4, <3>2 DEF Pending
  <2>5. OncePerSocket'
    BY <1>1 DEF IInv, OnceInv, OncePerSocket
  <2> QED
    BY <2>1, <2>2, <2>3, <2>4, <2>5 DEF OnceInv
<1>14. RoomsInv'
  <2>1. inbox' \in [Users -> SUBSET Convs]
    BY DEF Send, List, IInv, RoomsInv, TypesInv, GateTypeOK
  <2> QED
    BY <1>1, <1>8, <2>1 DEF IInv, RoomsInv, TypesInv, InStep, GateTypeOK
<1>15. GapInv'
  <2> SUFFICES ASSUME NEW s \in Sockets, NEW n \in log', sync[s].at \in {"read", "answered"},
                      Owed(s, n)'
               PROVE  Covered(s, n)'
    BY <1>1 DEF GapInv, NoGap
  <2>1. CASE n = m
    <3>1. Pending(n.id)'
      BY <1>1, <1>3, <1>4, <2>1 DEF Pending
    <3> QED
      BY <3>1 DEF Covered
  <2>2. CASE n \in log
    <3>1. \A d : Stored(d)' \subseteq Stored(d) \cup {i} /\ Stored(d) \subseteq Stored(d)'
      BY <1>1, <1>3 DEF Stored
    <3>2. i \notin sync[s].found
      BY <1>2 DEF IInv, RoomsInv, InStep
    <3>3. \A d : Page(s, d)' = Page(s, d)
      BY <1>1, <3>1, <3>2 DEF Page
    <3>4. Owed(s, n)
      BY <1>1, <3>3 DEF Owed
    <3>5. Covered(s, n)
      BY <2>2, <3>4 DEF IInv, GapInv, NoGap
    <3> QED
      BY <1>1, <3>5 DEF Covered, OnWire, On, Pending
  <2> QED
    BY <1>9, <2>1, <2>2
<1> QED
  BY <1>10, <1>13, <1>14, <1>15 DEF IInv

(* At most one copy of the message goes to a socket, and one to every open *)
(* socket in its room.                                                     *)
LEMMA CopiesOf ==
  ASSUME NEW m, NEW w
  PROVE  /\ Copies(m, w) = <<>> \/ Copies(m, w) = <<m.id>>
         /\ w \in open /\ m.conv \in rooms[w] => Copies(m, w) = <<m.id>>
<1>1. <<>> \o <<m.id>> = <<m.id>> /\ <<m.id>> \o <<>> = <<m.id>> /\ <<>> \o <<>> = <<>>
  <2>1. <<m.id>> \in Seq({m.id})
    OBVIOUS
  <2> QED
    BY <2>1
<1> QED
  BY <1>1 DEF Copies

(* A wire that takes one more message, or none.                            *)
LEMMA Appended ==
  ASSUME NEW S, NEW q \in Seq(S), NEW x \in S, NEW C, C = <<>> \/ C = <<x>>, ~On(q, x),
         \A i, j \in 1..Len(q) : q[i] = q[j] => i = j
  PROVE  /\ q \o C \in Seq(S)
         /\ \A y : On(q \o C, y) <=> On(q, y) \/ (C = <<x>> /\ y = x)
         /\ \A i, j \in 1..Len(q \o C) : (q \o C)[i] = (q \o C)[j] => i = j
<1>1. CASE C = <<>>
  <2>1. q \o C = q
    BY <1>1, ConcatEmptySeq
  <2> QED
    BY <1>1, <2>1
<1>2. CASE C = <<x>>
  <2>1. C \in Seq(S) /\ Len(C) = 1 /\ C[1] = x
    BY <1>2
  <2> DEFINE r == q \o C
             n == Len(q)
  <2>2. r \in Seq(S) /\ Len(r) = n + 1 /\ n \in Nat
    BY <2>1, ConcatProperties, LenProperties
  <2>3. \A i \in 1..n : r[i] = q[i]
    BY <2>1, <2>2, ConcatProperties
  <2>4. r[n + 1] = x
    BY <2>1, <2>2, ConcatProperties
  <2> HIDE DEF r
  <2>5. \A i \in 1..Len(r) : i \in 1..n \/ i = n + 1
    BY <2>2
  <2>6. \A y : On(r, y) <=> On(q, y) \/ y = x
    <3> SUFFICES ASSUME NEW y PROVE On(r, y) <=> On(q, y) \/ y = x
      OBVIOUS
    <3>1. 1..n \subseteq 1..Len(r) /\ n + 1 \in 1..Len(r)
      BY <2>2
    <3> QED
      BY <3>1, <2>3, <2>4, <2>5 DEF On
  <2>7. \A i \in 1..n : q[i] # x
    BY DEF On
  <2>8. ASSUME NEW i \in 1..Len(r), NEW j \in 1..Len(r), r[i] = r[j] PROVE i = j
    BY <2>3, <2>4, <2>5, <2>7, <2>8
  <2> QED
    BY <1>2, <2>2, <2>6, <2>8 DEF r
<1> QED
  BY <1>1, <1>2

LEMMA AnnounceStep ==
  ASSUME IInv, NEW p \in pending, Announce(p)
  PROVE  IInv'
<1> DEFINE m == MsgOf(p.id)
<1>1. m \in log /\ m.id = p.id
  BY TheMessage DEF IInv, OnceInv, Ids
<1>2. /\ pending' = pending \ {p}
      /\ wire' = [w \in Sockets |-> wire[w] \o Copies(m, w)]
      /\ UNCHANGED <<inbox, phase, open, convIds, log, sync>>
  BY DEF Announce
<1>3. /\ rooms' \in [Sockets -> SUBSET Convs]
      /\ \A w \in Sockets : rooms[w] \subseteq rooms'[w]
      /\ held' \in [Devices -> SUBSET Nat]
      /\ \A w \in Sockets : held[Device[w]] \subseteq held'[Device[w]]
  <2>1. /\ rooms \in [Sockets -> SUBSET Convs] /\ held \in [Devices -> SUBSET Nat]
        /\ open \subseteq Sockets
    BY DEF IInv, RoomsInv, TypesInv, GateTypeOK
  <2>2. CASE p.via \in open
    <3>1. p.via \in Sockets /\ m.conv \in Convs /\ {m.id} \in SUBSET Nat
      BY <2>1, <2>2, <1>1 DEF IInv, LogInv
    <3>2. /\ rooms' = [rooms EXCEPT ![p.via] = @ \cup {m.conv}]
          /\ held' = [held EXCEPT ![Device[p.via]] = @ \cup {m.id}]
      BY <2>2 DEF Announce
    <3> HIDE DEF m
    <3>3. /\ held' \in [Devices -> SUBSET Nat]
          /\ \A w \in Sockets : held[Device[w]] \subseteq held'[Device[w]]
      BY <2>1, <3>1, <3>2, HeldGrows
    <3> QED
      BY <2>1, <3>1, <3>2, <3>3
  <2>3. CASE p.via \notin open
    BY <2>1, <2>3 DEF Announce
  <2> QED
    BY <2>2, <2>3
<1> HIDE DEF m
<1>4. m.id \in Ids(log) /\ m.id \in Nat /\ Pending(m.id)
  BY <1>1 DEF IInv, LogInv, Ids, Pending
<1>5. \A w \in Sockets : wire[w] \in Seq(Ids(log)) /\ ~On(wire[w], m.id)
  BY <1>4 DEF IInv, OnceInv, OnWire
<1>6. ASSUME NEW w \in Sockets
      PROVE  /\ wire'[w] \in Seq(Ids(log))
             /\ \A y : On(wire'[w], y) <=>
                       On(wire[w], y) \/ (Copies(m, w) = <<m.id>> /\ y = m.id)
             /\ \A i, j \in 1..Len(wire'[w]) : wire'[w][i] = wire'[w][j] => i = j
  <2>1. \A i, j \in 1..Len(wire[w]) : wire[w][i] = wire[w][j] => i = j
    BY DEF IInv, OnceInv, OncePerSocket
  <2>2. Copies(m, w) = <<>> \/ Copies(m, w) = <<m.id>>
    BY CopiesOf
  <2>3. wire'[w] = wire[w] \o Copies(m, w)
    BY <1>2
  <2> DEFINE q == wire[w]
             C == Copies(m, w)
             S == Ids(log)
             x == m.id
  <2>4. /\ q \in Seq(S) /\ x \in S /\ ~On(q, x) /\ (C = <<>> \/ C = <<x>>)
    BY <1>4, <1>5, <2>2
  <2>5. \A i, j \in 1..Len(q) : q[i] = q[j] => i = j
    BY <2>1
  <2> HIDE DEF q, C, S, x
  <2>6. /\ q \o C \in Seq(S)
        /\ \A y : On(q \o C, y) <=> On(q, y) \/ (C = <<x>> /\ y = x)
        /\ \A i, j \in 1..Len(q \o C) : (q \o C)[i] = (q \o C)[j] => i = j
    BY <2>4, <2>5, Appended
  <2> QED
    BY <2>3, <2>6 DEF q, C, S, x
<1>7. \A j : Pending(j)' <=> Pending(j) /\ j # m.id
  BY <1>1, <1>2 DEF Pending, IInv, OnceInv
<1>8. LogInv'
  BY <1>2 DEF IInv, LogInv
<1>9. OnceInv'
  <2>1. pending' \subseteq [id : Ids(log'), via : Sockets \cup {None}]
    BY <1>2 DEF IInv, OnceInv
  <2>2. \A q, r \in pending' : q.id = r.id => q = r
    BY <1>2 DEF IInv, OnceInv
  <2>3. wire' \in [Sockets -> Seq(Ids(log'))]
    <3>1. wire' = [w \in Sockets |-> wire'[w]]
      BY <1>2
    <3>2. \A w \in Sockets : wire'[w] \in Seq(Ids(log'))
      BY <1>2, <1>6
    <3> QED
      BY <3>1, <3>2
  <2>4. ASSUME NEW s \in Sockets, NEW j \in Nat, OnWire(s, j)' PROVE ~Pending(j)'
    <3>1. On(wire'[s], j)
      BY <2>4 DEF OnWire
    <3>2. CASE j = m.id
      BY <3>2, <1>7
    <3>3. CASE j # m.id
      <4>1. OnWire(s, j)
        BY <3>1, <3>3, <1>6 DEF OnWire
      <4> QED
        BY <4>1, <1>7 DEF IInv, OnceInv
    <3> QED
      BY <3>2, <3>3
  <2>5. OncePerSocket'
    BY <1>6 DEF OncePerSocket
  <2> QED
    BY <2>1, <2>2, <2>3, <2>4, <2>5 DEF OnceInv
<1>10. RoomsInv'
  <2>1. TypesInv'
    BY <1>2, <1>3 DEF IInv, RoomsInv, TypesInv, GateTypeOK
  <2>2. ASSUME NEW s \in Sockets PROVE InStep(s)'
    BY <1>2, <1>3 DEF IInv, RoomsInv, InStep
  <2> QED
    BY <2>1, <2>2 DEF RoomsInv
<1>11. GapInv'
  <2> SUFFICES ASSUME NEW s \in Sockets PROVE NoGap(s)'
    BY DEF GapInv
  <2> SUFFICES ASSUME sync[s].at \in {"read", "answered"}, NEW n \in log,
                      n.conv \in convIds[s], Covered(s, n)
               PROVE  Covered(s, n)'
    BY <1>2, GapStep DEF IInv
  <2>1. s \in open /\ phase[s] = "ready" /\ convIds[s] \subseteq rooms[s]
    BY DEF IInv, RoomsInv, InStep
  <2>2. OnWire(s, n.id) => OnWire(s, n.id)'
    BY <1>6 DEF OnWire
  <2>3. CASE Pending(n.id)
    <3>1. CASE n.id = m.id
      <4>1. n = m
        BY <3>1, <1>1 DEF IInv, LogInv
      <4>2. Copies(m, s) = <<m.id>>
        BY <2>1, <4>1, CopiesOf
      <4>3. OnWire(s, n.id)'
        BY <4>2, <3>1, <1>6 DEF OnWire
      <4> QED
        BY <4>3 DEF Covered
    <3>2. CASE n.id # m.id
      BY <2>3, <3>2, <1>7 DEF Covered
    <3> QED
      BY <3>1, <3>2
  <2>4. CASE ~Pending(n.id)
    BY <2>2, <2>4, <1>2, <1>3 DEF Covered
  <2> QED
    BY <2>3, <2>4
<1> QED
  BY <1>8, <1>9, <1>10, <1>11 DEF IInv

(***************************************************************************)
(* The devices: delivery, history and the acks of conversation:sync.       *)
(***************************************************************************)
LEMMA Taken ==
  ASSUME NEW S, NEW q \in Seq(S), q # <<>>,
         \A i, j \in 1..Len(q) : q[i] = q[j] => i = j
  PROVE  /\ Head(q) \in S /\ Tail(q) \in Seq(S)
         /\ \A y : On(q, y) <=> y = Head(q) \/ On(Tail(q), y)
         /\ \A i, j \in 1..Len(Tail(q)) : Tail(q)[i] = Tail(q)[j] => i = j
<1> DEFINE t == Tail(q)
           n == Len(q)
<1>1. /\ Head(q) \in S /\ Head(q) = q[1] /\ t \in Seq(S)
      /\ Len(t) = n - 1 /\ n \in Nat /\ n >= 1
  BY HeadTailProperties, LenProperties, EmptySeq
<1>2. \A i \in 1..Len(t) : t[i] = q[i + 1] /\ i + 1 \in 1..n
  BY <1>1, HeadTailProperties
<1> HIDE DEF t
<1>3. \A k \in 1..n : k = 1 \/ (k - 1 \in 1..Len(t) /\ (k - 1) + 1 = k)
  BY <1>1
<1>4. ASSUME NEW y PROVE On(q, y) <=> y = Head(q) \/ On(t, y)
  <2>1. ASSUME NEW k \in 1..n, q[k] = y PROVE y = Head(q) \/ On(t, y)
    <3>1. CASE k = 1
      BY <1>1, <2>1, <3>1
    <3>2. CASE k # 1
      <4>1. k - 1 \in 1..Len(t) /\ t[k - 1] = y
        BY <1>2, <1>3, <2>1, <3>2
      <4> QED
        BY <4>1 DEF On
    <3> QED
      BY <3>1, <3>2
  <2>2. ASSUME On(t, y) PROVE On(q, y)
    BY <1>2, <2>2 DEF On
  <2>3. 1 \in 1..n
    BY <1>1
  <2> QED
    BY <1>1, <2>1, <2>2, <2>3 DEF On
<1>5. ASSUME NEW i \in 1..Len(t), NEW j \in 1..Len(t), t[i] = t[j] PROVE i = j
  <2>1. i + 1 = j + 1
    BY <1>2, <1>5
  <2> QED
    BY <2>1
<1> QED
  BY <1>1, <1>4, <1>5 DEF t

LEMMA ReceiveStep ==
  ASSUME IInv, NEW s \in Sockets, Receive(s)
  PROVE  IInv'
<1> DEFINE x == Head(wire[s])
<1>1. /\ wire[s] # <<>> /\ wire' = [wire EXCEPT ![s] = Tail(@)]
      /\ held' = [held EXCEPT ![Device[s]] = @ \cup {x}]
      /\ UNCHANGED <<inbox, phase, open, convIds, rooms, log, pending, sync>>
  BY DEF Receive, gate
<1>2. wire \in [Sockets -> Seq(Ids(log))] /\ Ids(log) \subseteq Nat
  BY DEF IInv, OnceInv, LogInv, Ids
<1>3. \A i, j \in 1..Len(wire[s]) : wire[s][i] = wire[s][j] => i = j
  BY DEF IInv, OnceInv, OncePerSocket
<1>4. /\ x \in Ids(log) /\ Tail(wire[s]) \in Seq(Ids(log))
      /\ \A y : On(wire[s], y) <=> y = x \/ On(Tail(wire[s]), y)
      /\ \A i, j \in 1..Len(Tail(wire[s])) : Tail(wire[s])[i] = Tail(wire[s])[j] => i = j
  <2> DEFINE q == wire[s]
             S == Ids(log)
  <2>1. q \in Seq(S) /\ q # <<>> /\ \A i, j \in 1..Len(q) : q[i] = q[j] => i = j
    BY <1>1, <1>2, <1>3
  <2> HIDE DEF q, S
  <2>2. /\ Head(q) \in S /\ Tail(q) \in Seq(S)
        /\ \A y : On(q, y) <=> y = Head(q) \/ On(Tail(q), y)
        /\ \A i, j \in 1..Len(Tail(q)) : Tail(q)[i] = Tail(q)[j] => i = j
    BY <2>1, Taken
  <2> QED
    BY <2>2 DEF q, S
<1>5. {x} \in SUBSET Nat /\ held \in [Devices -> SUBSET Nat]
  BY <1>2, <1>4 DEF IInv, RoomsInv, TypesInv
<1> HIDE DEF x
<1>6. /\ held' \in [Devices -> SUBSET Nat]
      /\ \A w \in Sockets : held[Device[w]] \subseteq held'[Device[w]]
      /\ {x} \subseteq held'[Device[s]]
  BY <1>1, <1>5, HeldGrows
<1>7. /\ wire'[s] = Tail(wire[s])
      /\ \A w \in Sockets : w # s => wire'[w] = wire[w]
  BY <1>1, <1>2
<1>8. LogInv'
  BY <1>1 DEF IInv, LogInv
<1>9. OnceInv'
  <2>1. wire' \in [Sockets -> Seq(Ids(log'))]
    BY <1>1, <1>2, <1>4
  <2>2. ASSUME NEW w \in Sockets, NEW j \in Nat, OnWire(w, j)' PROVE ~Pending(j)'
    <3>1. OnWire(w, j)
      BY <2>2, <1>4, <1>7 DEF OnWire
    <3> QED
      BY <3>1, <1>1 DEF IInv, OnceInv, Pending
  <2>3. OncePerSocket'
    <3> SUFFICES ASSUME NEW w \in Sockets
                 PROVE  \A i, j \in 1..Len(wire'[w]) : wire'[w][i] = wire'[w][j] => i = j
      BY DEF OncePerSocket
    <3>1. CASE w = s
      BY <3>1, <1>4, <1>7
    <3>2. CASE w # s
      BY <3>2, <1>7 DEF IInv, OnceInv, OncePerSocket
    <3> QED
      BY <3>1, <3>2
  <2> QED
    BY <1>1, <2>1, <2>2, <2>3 DEF IInv, OnceInv
<1>10. RoomsInv'
  <2>1. TypesInv'
    BY <1>1, <1>6 DEF IInv, RoomsInv, TypesInv, GateTypeOK
  <2>2. ASSUME NEW w \in Sockets PROVE InStep(w)'
    BY <1>1 DEF IInv, RoomsInv, InStep
  <2> QED
    BY <2>1, <2>2 DEF RoomsInv
<1>11. GapInv'
  <2> SUFFICES ASSUME NEW w \in Sockets PROVE NoGap(w)'
    BY DEF GapInv
  <2>1. ASSUME NEW m \in log, Covered(w, m) PROVE Covered(w, m)'
    <3>1. CASE OnWire(w, m.id)
      <4>1. OnWire(w, m.id)' \/ (w = s /\ m.id = x)
        BY <3>1, <1>4, <1>7 DEF OnWire
      <4> QED
        BY <4>1, <1>6 DEF Covered
    <3>2. CASE ~OnWire(w, m.id)
      BY <2>1, <3>2, <1>1, <1>6 DEF Covered, Pending
    <3> QED
      BY <3>1, <3>2
  <2> QED
    BY <2>1, <1>1, GapStep DEF IInv
<1> QED
  BY <1>8, <1>9, <1>10, <1>11 DEF IInv

(* The device of a socket takes in stored messages, and nothing else       *)
(* changes but what a sync goes through.                                   *)
LEMMA TakeIn ==
  ASSUME IInv, NEW s \in Sockets, NEW X \in SUBSET Nat,
         held' = [held EXCEPT ![Device[s]] = @ \cup X], UNCHANGED <<gate, log, pending, wire>>
  PROVE  /\ LogInv' /\ OnceInv' /\ GateTypeOK'
         /\ held' \in [Devices -> SUBSET Nat] /\ X \subseteq held'[Device[s]]
         /\ \A w \in Sockets : held[Device[w]] \subseteq held'[Device[w]]
<1>1. held \in [Devices -> SUBSET Nat]
  BY DEF IInv, RoomsInv, TypesInv
<1>2. GateTypeOK'
  BY DEF IInv, RoomsInv, TypesInv, GateTypeOK, gate
<1> QED
  BY <1>1, <1>2, HeldGrows, SameMail DEF IInv

LEMMA HistoryStep ==
  ASSUME IInv, NEW s \in Sockets, NEW c \in Convs, History(s, c)
  PROVE  IInv'
<1> DEFINE X == LastPage(Stored(c))
<1>1. X \in SUBSET Nat
  BY StoredIds DEF IInv, LastPage
<1>2. /\ held' = [held EXCEPT ![Device[s]] = @ \cup X]
      /\ UNCHANGED <<gate, log, pending, wire, sync>>
  BY DEF History
<1> HIDE DEF X
<1>3. /\ LogInv' /\ OnceInv' /\ GateTypeOK' /\ held' \in [Devices -> SUBSET Nat]
      /\ \A w \in Sockets : held[Device[w]] \subseteq held'[Device[w]]
  BY <1>1, <1>2, TakeIn
<1>4. RoomsInv'
  <2>1. TypesInv'
    BY <1>2, <1>3 DEF IInv, RoomsInv, TypesInv
  <2>2. ASSUME NEW w \in Sockets PROVE InStep(w)'
    BY <1>2 DEF IInv, RoomsInv, InStep, gate
  <2> QED
    BY <2>1, <2>2 DEF RoomsInv
<1>5. GapInv'
  <2> SUFFICES ASSUME NEW w \in Sockets PROVE NoGap(w)'
    BY DEF GapInv
  <2>1. ASSUME NEW m \in log, Covered(w, m) PROVE Covered(w, m)'
    BY <2>1, <1>2, <1>3 DEF Covered, OnWire, Pending
  <2> QED
    BY <2>1, <1>2, GapStep DEF IInv, gate
<1> QED
  BY <1>3, <1>4, <1>5 DEF IInv

(* A step of one sync that leaves its cursor, its messages and the mail    *)
(* alone, or starts it.                                                    *)
LEMMA SyncStep ==
  ASSUME IInv, NEW s \in Sockets, NEW f \in Frames, sync' = [sync EXCEPT ![s] = f],
         f.at # "none", s \in open, f.at \in {"read", "answered"} => phase[s] = "ready" /\ f.found \subseteq Ids(log),
         NoGap(s)', held' \in [Devices -> SUBSET Nat],
         \A w \in Sockets : held[Device[w]] \subseteq held'[Device[w]],
         UNCHANGED <<gate, log, pending, wire>>
  PROVE  IInv'
<1>1. LogInv' /\ OnceInv'
  BY SameMail DEF IInv
<1>2. sync \in [Sockets -> Frames]
  BY DEF IInv, RoomsInv, TypesInv
<1>3. sync' \in [Sockets -> Frames] /\ sync'[s] = f /\ \A w \in Sockets : w # s => sync'[w] = sync[w]
  BY <1>2
<1>4. RoomsInv'
  <2>1. TypesInv'
    BY <1>3 DEF IInv, RoomsInv, TypesInv, GateTypeOK, gate
  <2>2. ASSUME NEW w \in Sockets PROVE InStep(w)'
    <3>1. CASE w = s
      <4>1. InStep(s)
        BY DEF IInv, RoomsInv
      <4> QED
        BY <3>1, <4>1, <1>3 DEF InStep, gate
    <3>2. CASE w # s
      <4>1. InStep(w)
        BY DEF IInv, RoomsInv
      <4> QED
        BY <3>2, <4>1, <1>3 DEF InStep, gate
    <3> QED
      BY <3>1, <3>2
  <2> QED
    BY <2>1, <2>2 DEF RoomsInv
<1>5. GapInv'
  <2> SUFFICES ASSUME NEW w \in Sockets PROVE NoGap(w)'
    BY DEF GapInv
  <2>1. CASE w = s
    BY <2>1
  <2>2. CASE w # s
    <3>1. sync'[w] = sync[w]
      BY <1>3, <2>2
    <3>2. ASSUME NEW m \in log, Covered(w, m) PROVE Covered(w, m)'
      BY <3>1, <3>2 DEF Covered, OnWire, Pending
    <3> QED
      BY <3>1, <3>2, GapStep DEF IInv, gate
  <2> QED
    BY <2>1, <2>2
<1> QED
  BY <1>1, <1>4, <1>5 DEF IInv

LEMMA AskSyncStep ==
  ASSUME IInv, NEW s \in Sockets, AskSync(s)
  PROVE  IInv'
<1> DEFINE cursor == [c \in Convs |-> Newest(held[Device[s]] \cap Stored(c))]
           f == [NoSync EXCEPT !.at = "asked", !.cursor = cursor]
<1>1. s \in open /\ sync' = [sync EXCEPT ![s] = f] /\ UNCHANGED <<gate, log, pending, wire, held>>
  BY DEF AskSync
<1>2. ASSUME NEW c \in Convs PROVE Newest(held[Device[s]] \cap Stored(c)) \in Nat
  <2> DEFINE I == held[Device[s]] \cap Stored(c)
  <2>1. Cardinality(log) \in Nat /\ I \in SUBSET (0..Cardinality(log))
    BY StoredIds DEF IInv
  <2> HIDE DEF I
  <2>2. I # {} => Newest(I) \in I
    BY <2>1, NewestIs
  <2>3. I = {} => Newest(I) = 0
    BY DEF Newest
  <2>4. CASE I = {}
    BY <2>3, <2>4 DEF I
  <2>5. CASE I # {}
    <3>1. Newest(I) \in 0..Cardinality(log)
      BY <2>1, <2>2, <2>5
    <3> QED
      BY <2>1, <3>1 DEF I
  <2> QED
    BY <2>4, <2>5
<1>3. f.at = "asked" /\ f \in Frames
  <2>1. f = [at |-> "asked", cursor |-> cursor, found |-> {}]
    <3> DEFINE z == [c \in Convs |-> 0]
    <3>1. NoSync = [at |-> "none", cursor |-> z, found |-> {}]
      BY DEF NoSync
    <3>2. f = [[at |-> "none", cursor |-> z, found |-> {}]
                 EXCEPT !.at = "asked", !.cursor = cursor]
      BY <3>1, Zenon
    <3> HIDE DEF z, cursor, f
    <3> QED
      BY <3>2
  <2>2. cursor \in [Convs -> Nat]
    BY <1>2
  <2> HIDE DEF cursor
  <2> QED
    BY <2>1, <2>2 DEF Frames
<1> HIDE DEF f
<1>4. held \in [Devices -> SUBSET Nat] /\ sync \in [Sockets -> Frames]
  BY DEF IInv, RoomsInv, TypesInv
<1>5. NoGap(s)'
  BY <1>1, <1>3, <1>4 DEF NoGap
<1> QED
  BY <1>1, <1>3, <1>4, <1>5, SyncStep

LEMMA IgnoreSyncStep ==
  ASSUME IInv, NEW s \in Sockets, IgnoreSync(s)
  PROVE  IInv'
<1> DEFINE f == [sync[s] EXCEPT !.at = "ignored"]
<1>1. /\ sync' = [sync EXCEPT ![s] = f] /\ sync[s].at = "asked"
      /\ UNCHANGED <<gate, log, pending, wire, held>>
  BY DEF IgnoreSync
<1>2. held \in [Devices -> SUBSET Nat] /\ sync \in [Sockets -> Frames]
  BY DEF IInv, RoomsInv, TypesInv
<1>3. f \in Frames /\ f.at = "ignored"
  BY <1>2 DEF Frames
<1> HIDE DEF f
<1>4. s \in open
  BY <1>1 DEF IInv, RoomsInv, InStep
<1>5. NoGap(s)'
  BY <1>1, <1>2, <1>3 DEF NoGap
<1> QED
  BY <1>1, <1>2, <1>3, <1>4, <1>5, SyncStep

LEMMA FailSyncStep ==
  ASSUME IInv, NEW s \in Sockets, FailSync(s)
  PROVE  IInv'
<1> DEFINE f == [sync[s] EXCEPT !.at = "failed"]
<1>1. /\ sync' = [sync EXCEPT ![s] = f] /\ sync[s].at = "asked"
      /\ UNCHANGED <<gate, log, pending, wire, held>>
  BY DEF FailSync
<1>2. held \in [Devices -> SUBSET Nat] /\ sync \in [Sockets -> Frames]
  BY DEF IInv, RoomsInv, TypesInv
<1>3. f \in Frames /\ f.at = "failed"
  BY <1>2 DEF Frames
<1> HIDE DEF f
<1>4. s \in open
  BY <1>1 DEF IInv, RoomsInv, InStep
<1>5. NoGap(s)'
  BY <1>1, <1>2, <1>3 DEF NoGap
<1> QED
  BY <1>1, <1>2, <1>3, <1>4, <1>5, SyncStep

(* The answer misses nothing above the cursor but what lies beyond a full  *)
(* page.                                                                   *)
LEMMA AnswerOf ==
  ASSUME LogInv, NEW k \in [Convs -> Nat], NEW m \in log, k[m.conv] # 0, m.id > k[m.conv],
         LET page == Missed(k) \cap Stored(m.conv)
         IN Cardinality(page) < PageSize \/ m.id <= Newest(page)
  PROVE  m.id \in Missed(k)
<1> DEFINE c == m.conv
           I(d) == {i \in Stored(d) : i > k[d]}
           n == Cardinality(log)
<1>1. c \in Convs /\ m.id \in Nat /\ m.id \in I(c)
  BY DEF LogInv, Stored
<1>2. /\ n \in Nat /\ I(c) \in SUBSET (0..n)
      /\ \A d \in Convs : d # c => Stored(c) \cap Stored(d) = {}
  BY StoredIds
<1>3. Missed(k) \cap Stored(c) = FirstPage(I(c))
  <2>1. \A d \in Convs : FirstPage(I(d)) \subseteq Stored(d)
    BY DEF FirstPage
  <2>2. Missed(k) = UNION {FirstPage(I(d)) : d \in {e \in Convs : k[e] # 0}}
    BY DEF Missed
  <2> HIDE DEF I
  <2>3. \A x : x \in Missed(k) <=> \E d \in Convs : k[d] # 0 /\ x \in FirstPage(I(d))
    BY <2>2
  <2> QED
    BY <1>1, <1>2, <2>1, <2>3
<1> DEFINE P == FirstPage(I(c))
<1>4. Cardinality(P) < PageSize \/ m.id <= Newest(P)
  BY <1>3
<1> DEFINE J == I(c)
<1> HIDE DEF c, I, n
<1>5. CASE m.id \notin P
  <2>1. J \in SUBSET (0..n) /\ m.id \in J /\ m.id \notin FirstPage(J) /\ n \in Nat
    BY <1>1, <1>2, <1>5
  <2> HIDE DEF J
  <2>2. /\ ~(Cardinality(FirstPage(J)) < PageSize) /\ FirstPage(J) # {}
        /\ \A j \in FirstPage(J) : j < m.id
    BY <2>1, FirstPageFull
  <2>3. FirstPage(J) \in SUBSET (0..n)
    BY <2>1 DEF FirstPage
  <2>4. Newest(FirstPage(J)) \in FirstPage(J)
    BY <2>1, <2>2, <2>3, NewestIs
  <2>5. Newest(FirstPage(J)) < m.id /\ Newest(FirstPage(J)) \in Nat
    BY <2>2, <2>3, <2>4
  <2>6. m.id <= Newest(FirstPage(J))
    BY <1>4, <2>2 DEF J
  <2> QED
    BY <1>1, <2>5, <2>6
<1> QED
  BY <1>3, <1>5

LEMMA ReadSyncStep ==
  ASSUME IInv, NEW s \in Sockets, ReadSync(s)
  PROVE  IInv'
<1> DEFINE k == sync[s].cursor
           f == [sync[s] EXCEPT !.at = "read", !.found = Missed(k)]
<1>1. /\ sync' = [sync EXCEPT ![s].at = "read", ![s].found = Missed(k)] /\ sync[s].at = "asked"
      /\ phase[s] = "ready" /\ UNCHANGED <<gate, log, pending, wire, held>>
  BY DEF ReadSync
<1>2. held \in [Devices -> SUBSET Nat] /\ sync \in [Sockets -> Frames]
  BY DEF IInv, RoomsInv, TypesInv
<1>3. k \in [Convs -> Nat]
  BY <1>2 DEF Frames
<1>4. Missed(k) \subseteq Ids(log) /\ Ids(log) \subseteq Nat
  BY StoredIds DEF IInv, Missed, FirstPage
<1>5. f \in Frames /\ f.at = "read" /\ f.found = Missed(k) /\ f.cursor = k
  BY <1>2, <1>4 DEF Frames
<1>6. sync' = [sync EXCEPT ![s] = f]
  BY <1>1, <1>2
<1> HIDE DEF f, k
<1>7. s \in open
  BY <1>1 DEF IInv, RoomsInv, InStep
<1>8. sync'[s] = f
  BY <1>2, <1>6
<1>9. NoGap(s)'
  <2> SUFFICES ASSUME NEW m \in log, Owed(s, m)' PROVE Covered(s, m)'
    BY <1>1 DEF NoGap
  <2>1. /\ k[m.conv] # 0 /\ m.id > k[m.conv]
        /\ LET page == Missed(k) \cap Stored(m.conv)
           IN Cardinality(page) < PageSize \/ m.id <= Newest(page)
    BY <1>1, <1>5, <1>8 DEF Owed, Page, Stored
  <2>2. m.id \in Missed(k)
    BY <1>3, <2>1, AnswerOf DEF IInv
  <2> QED
    BY <2>2, <1>5, <1>8 DEF Covered
<1> QED
  BY <1>1, <1>2, <1>4, <1>5, <1>6, <1>7, <1>9, SyncStep

LEMMA AckSyncStep ==
  ASSUME IInv, NEW s \in Sockets, AckSync(s)
  PROVE  IInv'
<1> DEFINE f == [sync[s] EXCEPT !.at = "answered"]
           X == sync[s].found
<1>1. /\ sync' = [sync EXCEPT ![s] = f] /\ sync[s].at = "read"
      /\ held' = [held EXCEPT ![Device[s]] = @ \cup X]
      /\ UNCHANGED <<gate, log, pending, wire>>
  BY DEF AckSync
<1>2. held \in [Devices -> SUBSET Nat] /\ sync \in [Sockets -> Frames]
  BY DEF IInv, RoomsInv, TypesInv
<1>3. /\ f \in Frames /\ f.at = "answered" /\ f.found = X /\ f.cursor = sync[s].cursor
      /\ X \in SUBSET Nat
  BY <1>2 DEF Frames
<1>4. s \in open /\ phase[s] = "ready" /\ X \subseteq Ids(log)
  BY <1>1 DEF IInv, RoomsInv, InStep
<1> HIDE DEF f
<1>5. /\ held' \in [Devices -> SUBSET Nat] /\ X \subseteq held'[Device[s]]
      /\ \A w \in Sockets : held[Device[w]] \subseteq held'[Device[w]]
  BY <1>1, <1>3, TakeIn
<1>6. sync'[s] = f
  BY <1>1, <1>2
<1>7. NoGap(s)'
  <2>1. ASSUME NEW m \in log, Covered(s, m) PROVE Covered(s, m)'
    <3>1. CASE m.id \in X
      BY <3>1, <1>5 DEF Covered
    <3>2. CASE m.id \notin X
      BY <2>1, <3>2, <1>1, <1>5 DEF Covered, OnWire, Pending
    <3> QED
      BY <3>1, <3>2
  <2> QED
    BY <2>1, <1>1, <1>3, <1>6, GapStep DEF IInv, gate
<1> QED
  BY <1>1, <1>3, <1>4, <1>5, <1>7, SyncStep

(***************************************************************************)
(* The gateway: what only moves the connection handlers.                   *)
(***************************************************************************)
LEMMA GateStep ==
  ASSUME IInv, UNCHANGED mail, GateTypeOK',
         ASSUME NEW s \in Sockets
         PROVE  /\ s \in open' => /\ phase'[s] \notin {"new", "done"}
                                  /\ phase'[s] = "ready" => convIds'[s] \subseteq rooms'[s]
                /\ sync[s].at # "none" => s \in open'
                /\ sync[s].at \in {"read", "answered"} =>
                     phase'[s] = "ready" /\ convIds'[s] = convIds[s]
  PROVE  IInv'
<1>1. LogInv' /\ OnceInv'
  BY SameMail DEF IInv, mail
<1>2. RoomsInv'
  <2>1. TypesInv'
    BY DEF IInv, RoomsInv, TypesInv, mail
  <2>2. ASSUME NEW s \in Sockets PROVE InStep(s)'
    BY DEF IInv, RoomsInv, InStep, mail
  <2> QED
    BY <2>1, <2>2 DEF RoomsInv
<1>3. GapInv'
  <2> SUFFICES ASSUME NEW s \in Sockets PROVE NoGap(s)'
    BY DEF GapInv
  <2>1. ASSUME NEW m \in log, Covered(s, m) PROVE Covered(s, m)'
    BY <2>1 DEF Covered, OnWire, Pending, mail
  <2> QED
    BY <2>1, GapStep DEF IInv, mail
<1> QED
  BY <1>1, <1>2, <1>3 DEF IInv

LEMMA HandlerStep ==
  ASSUME IInv, NEW s \in Sockets, Connect(s) \/ ListInbox(s) \/ ListFails(s) \/ Enter(s),
         UNCHANGED mail
  PROVE  IInv'
<1>1. GateTypeOK /\ \A w \in Sockets : InStep(w)
  BY DEF IInv, RoomsInv, TypesInv
<1>2. Owner[s] \in Users
  BY OwnerAssumption
<1>3. CASE Connect(s)
  <2>1. GateTypeOK'
    BY <1>1, <1>3 DEF Connect, GateTypeOK, Phases
  <2> QED
    BY <1>1, <1>3, <2>1, GateStep DEF Connect, InStep, GateTypeOK
<1>4. CASE ListInbox(s)
  <2>1. GateTypeOK'
    BY <1>1, <1>2, <1>4 DEF ListInbox, Listing, GateTypeOK, Phases
  <2> QED
    BY <1>1, <1>4, <2>1, GateStep DEF ListInbox, InStep, GateTypeOK
<1>5. CASE ListFails(s)
  <2>1. GateTypeOK'
    BY <1>1, <1>5 DEF ListFails, GateTypeOK, Phases
  <2> QED
    BY <1>1, <1>5, <2>1, GateStep DEF ListFails, InStep, GateTypeOK
<1>6. CASE Enter(s)
  <2>1. GateTypeOK'
    BY <1>1, <1>6 DEF Enter, Joined, GateTypeOK, Phases
  <2> QED
    BY <1>1, <1>6, <2>1, GateStep DEF Enter, Joined, InStep, GateTypeOK
<1> QED
  BY <1>3, <1>4, <1>5, <1>6

LEMMA ListStep ==
  ASSUME IInv, NEW c \in Convs, List(c), UNCHANGED mail
  PROVE  IInv'
<1>1. GateTypeOK /\ \A w \in Sockets : InStep(w)
  BY DEF IInv, RoomsInv, TypesInv
<1>2. GateTypeOK'
  BY <1>1 DEF List, GateTypeOK
<1> QED
  BY <1>1, <1>2, GateStep DEF List, InStep

LEMMA ReuseStep ==
  ASSUME IInv, NEW s \in Sockets, Reuse(s)
  PROVE  IInv'
<1>1. GateTypeOK /\ \A w \in Sockets : InStep(w)
  BY DEF IInv, RoomsInv, TypesInv
<1>2. GateTypeOK'
  BY <1>1 DEF Reuse, GateTypeOK, Phases
<1> QED
  BY <1>1, <1>2, GateStep DEF Reuse, InStep, GateTypeOK

(***************************************************************************)
(* A transport that closes, and the death of the process.                  *)
(***************************************************************************)
LEMMA NoSyncType == NoSync \in Frames /\ NoSync.at = "none"
<1> DEFINE z == [c \in Convs |-> 0]
<1>1. NoSync = [at |-> "none", cursor |-> z, found |-> {}] /\ z \in [Convs -> Nat]
  BY DEF NoSync
<1> HIDE DEF z
<1> QED
  BY <1>1 DEF Frames

LEMMA CloseStep ==
  ASSUME IInv, NEW s \in Sockets, Close(s)
  PROVE  IInv'
<1> DEFINE Lost(p) == [p EXCEPT !.via = IF @ = s THEN None ELSE @]
<1>1. /\ wire' = [wire EXCEPT ![s] = <<>>] /\ sync' = [sync EXCEPT ![s] = NoSync]
      /\ UNCHANGED <<log, held>> /\ pending' = {Lost(p) : p \in pending}
  BY DEF Close
<1>2. /\ open' = open \ {s} /\ rooms' = [rooms EXCEPT ![s] = {}] /\ inbox' = inbox
      /\ \/ phase' = [phase EXCEPT ![s] = "done"] /\ convIds' = [convIds EXCEPT ![s] = {}]
         \/ UNCHANGED <<phase, convIds>>
  BY DEF Close, Disconnect
<1>3. /\ GateTypeOK /\ held \in [Devices -> SUBSET Nat] /\ sync \in [Sockets -> Frames]
      /\ wire \in [Sockets -> Seq(Ids(log))]
      /\ pending \subseteq [id : Ids(log), via : Sockets \cup {None}]
  BY DEF IInv, RoomsInv, TypesInv, OnceInv
<1>4. \A p \in pending : Lost(p).id = p.id /\ Lost(p) \in [id : Ids(log), via : Sockets \cup {None}]
  BY <1>3
<1> HIDE DEF Lost
<1>5. \A j : Pending(j)' <=> Pending(j)
  BY <1>1, <1>4 DEF Pending
<1>6. /\ sync' \in [Sockets -> Frames] /\ sync'[s].at = "none" /\ wire'[s] = <<>>
      /\ \A w \in Sockets : w # s => sync'[w] = sync[w] /\ wire'[w] = wire[w]
  BY <1>1, <1>3, NoSyncType
<1>7. LogInv'
  BY <1>1 DEF IInv, LogInv
<1>8. OnceInv'
  <2>1. pending' \subseteq [id : Ids(log'), via : Sockets \cup {None}]
    BY <1>1, <1>4
  <2>2. \A p, q \in pending' : p.id = q.id => p = q
    <3> SUFFICES ASSUME NEW p \in pending, NEW q \in pending, Lost(p).id = Lost(q).id
                 PROVE  Lost(p) = Lost(q)
      BY <1>1
    <3>1. p = q
      BY <1>4 DEF IInv, OnceInv
    <3> QED
      BY <3>1
  <2>3. wire' \in [Sockets -> Seq(Ids(log'))]
    <3>1. <<>> \in Seq(Ids(log))
      OBVIOUS
    <3> QED
      BY <3>1, <1>1, <1>3
  <2>4. ASSUME NEW w \in Sockets, NEW j \in Nat, OnWire(w, j)' PROVE ~Pending(j)'
    <3>1. OnWire(w, j)
      BY <2>4, <1>6 DEF OnWire, On
    <3> QED
      BY <3>1, <1>5 DEF IInv, OnceInv
  <2>5. OncePerSocket'
    <3> SUFFICES ASSUME NEW w \in Sockets
                 PROVE  \A i, j \in 1..Len(wire'[w]) : wire'[w][i] = wire'[w][j] => i = j
      BY DEF OncePerSocket
    <3>1. CASE w = s
      BY <3>1, <1>6
    <3>2. CASE w # s
      BY <3>2, <1>6 DEF IInv, OnceInv, OncePerSocket
    <3> QED
      BY <3>1, <3>2
  <2> QED
    BY <2>1, <2>2, <2>3, <2>4, <2>5 DEF OnceInv
<1>9. RoomsInv'
  <2>1. TypesInv'
    BY <1>1, <1>2, <1>3, <1>6 DEF TypesInv, GateTypeOK, Phases
  <2>2. ASSUME NEW w \in Sockets PROVE InStep(w)'
    <3>1. InStep(w)
      BY DEF IInv, RoomsInv
    <3>2. CASE w = s
      BY <3>2, <1>2, <1>6 DEF InStep
    <3>3. CASE w # s
      <4>1. /\ phase'[w] = phase[w] /\ convIds'[w] = convIds[w] /\ rooms'[w] = rooms[w]
            /\ w \in open' <=> w \in open
        BY <3>3, <1>2, <1>3 DEF GateTypeOK
      <4> QED
        BY <3>1, <3>3, <4>1, <1>1, <1>6 DEF InStep
    <3> QED
      BY <3>2, <3>3
  <2> QED
    BY <2>1, <2>2 DEF RoomsInv
<1>10. GapInv'
  <2> SUFFICES ASSUME NEW w \in Sockets PROVE NoGap(w)'
    BY DEF GapInv
  <2>1. CASE w = s
    BY <2>1, <1>6 DEF NoGap
  <2>2. CASE w # s
    <3>1. sync'[w] = sync[w] /\ convIds'[w] = convIds[w]
      BY <2>2, <1>2, <1>3, <1>6 DEF GateTypeOK
    <3>2. ASSUME NEW m \in log, Covered(w, m) PROVE Covered(w, m)'
      BY <2>2, <3>1, <3>2, <1>1, <1>5, <1>6 DEF Covered, OnWire
    <3> QED
      BY <3>1, <3>2, <1>1, GapStep DEF IInv
  <2> QED
    BY <2>1, <2>2
<1> QED
  BY <1>7, <1>8, <1>9, <1>10 DEF IInv

LEMMA CrashStep ==
  ASSUME IInv, Crash
  PROVE  IInv'
<1>1. /\ pending' = {} /\ wire' = [s \in Sockets |-> <<>>] /\ sync' = [s \in Sockets |-> NoSync]
      /\ open' = {} /\ UNCHANGED <<log, held>>
  BY DEF Crash, Restart
<1>2. GateTypeOK'
  BY DEF Crash, Restart, IInv, RoomsInv, TypesInv, GateTypeOK, Phases
<1>3. \A s \in Sockets : sync'[s] = NoSync /\ wire'[s] = <<>>
  BY <1>1
<1>4. LogInv'
  BY <1>1 DEF IInv, LogInv
<1>5. OnceInv'
  BY <1>1, <1>3 DEF OnceInv, OncePerSocket, OnWire, On, Pending
<1>6. RoomsInv'
  <2>1. TypesInv'
    BY <1>1, <1>2, NoSyncType DEF IInv, RoomsInv, TypesInv
  <2>2. ASSUME NEW s \in Sockets PROVE InStep(s)'
    BY <1>1, <1>3, NoSyncType DEF InStep
  <2> QED
    BY <2>1, <2>2 DEF RoomsInv
<1>7. GapInv'
  BY <1>3, NoSyncType DEF GapInv, NoGap
<1> QED
  BY <1>4, <1>5, <1>6, <1>7 DEF IInv

LEMMA StepHolds == IInv /\ [Next]_vars => IInv'
<1> SUFFICES ASSUME IInv, [Next]_vars PROVE IInv'
  OBVIOUS
<1>1. ASSUME NEW u \in Users, NEW c \in Convs, NEW via \in Sockets \cup {None}, Send(u, c, via)
      PROVE  IInv'
  BY <1>1, SendStep
<1>2. ASSUME NEW p \in pending, Announce(p) PROVE IInv'
  BY <1>2, AnnounceStep
<1>3. ASSUME NEW s \in Sockets, Receive(s) PROVE IInv'
  BY <1>3, ReceiveStep
<1>4. ASSUME NEW s \in Sockets, NEW c \in Convs, History(s, c) PROVE IInv'
  BY <1>4, HistoryStep
<1>5. ASSUME NEW s \in Sockets, AskSync(s) PROVE IInv'
  BY <1>5, AskSyncStep
<1>6. ASSUME NEW s \in Sockets, IgnoreSync(s) PROVE IInv'
  BY <1>6, IgnoreSyncStep
<1>7. ASSUME NEW s \in Sockets, ReadSync(s) PROVE IInv'
  BY <1>7, ReadSyncStep
<1>8. ASSUME NEW s \in Sockets, AckSync(s) PROVE IInv'
  BY <1>8, AckSyncStep
<1>9. ASSUME NEW s \in Sockets, Close(s) PROVE IInv'
  BY <1>9, CloseStep
<1>10. ASSUME NEW s \in Sockets, Reuse(s) PROVE IInv'
  BY <1>10, ReuseStep
<1>11. ASSUME NEW s \in Sockets, Connect(s) \/ ListInbox(s) \/ ListFails(s) \/ Enter(s),
              UNCHANGED mail
       PROVE  IInv'
  BY <1>11, HandlerStep
<1>12. ASSUME NEW c \in Convs, List(c), UNCHANGED mail PROVE IInv'
  BY <1>12, ListStep
<1>13. CASE Crash
  BY <1>13, CrashStep
<1>14. CASE UNCHANGED vars
  <2>1. UNCHANGED <<gate, mail>>
    BY <1>14 DEF vars
  <2> QED
    BY <2>1, GateStep DEF IInv, RoomsInv, TypesInv, InStep, GateTypeOK, gate
<1>15. ASSUME NEW s \in Sockets, FailSync(s) PROVE IInv'
  BY <1>15, FailSyncStep
<1> QED
  BY <1>1, <1>2, <1>3, <1>4, <1>5, <1>6, <1>7, <1>8, <1>9, <1>10, <1>11, <1>12, <1>13, <1>14, <1>15
     DEF Next

(***************************************************************************)
(* The theorems.                                                           *)
(***************************************************************************)

(* A sync leaves no message out between the cursor and the live stream:    *)
(* the rooms are joined before its handler exists, so what it does not     *)
(* answer is still to be announced or on its way (conversation:sync in     *)
(* message.handler.js and syncSince).                                      *)
THEOREM SyncsLeaveNoGap == Spec => []SyncLeavesNoGap
<1>1. IInv => SyncLeavesNoGap
  BY GapIsDone DEF IInv
<1> QED
  BY <1>1, InitHolds, StepHolds, PTL DEF Spec

(* No device is sent message:new of one message twice (emitMessageNew).    *)
THEOREM SentOncePerSocket == Spec => []OncePerSocket
<1>1. IInv => OncePerSocket
  BY DEF IInv, OnceInv
<1> QED
  BY <1>1, InitHolds, StepHolds, PTL DEF Spec
=============================================================================
