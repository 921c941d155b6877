--------------------------- MODULE RateLimitProofs ---------------------------
(***************************************************************************)
(* Proofs about RateLimit, for any keys, windows, limits and cap.          *)
(***************************************************************************)
EXTENDS RateLimit, FiniteSetTheorems, SequenceTheorems, WellFoundedInduction, TLAPS

(***************************************************************************)
(* The Map.                                                                *)
(***************************************************************************)

(* A nonempty set of naturals has a least element.                         *)
LEMMA Least ==
  ASSUME NEW S \in SUBSET Nat, S # {}
  PROVE  \E x \in S : \A y \in S : x <= y
<1> DEFINE R == {ss \in Nat \X Nat : ss[1] < ss[2]}
<1>1. IsWellFoundedOn(R, Nat)
  BY NatLessThanWellFounded DEF OpToRel
<1> HIDE DEF R
<1>2. PICK x \in S : \A y \in S : ~(<<y, x>> \in R)
  BY <1>1, WFMin
<1>3. ASSUME NEW y \in S PROVE x <= y
  <2>1. x \in Nat /\ y \in Nat
    OBVIOUS
  <2>2. ~(y < x)
    BY <1>2, <2>1 DEF R
  <2> QED
    BY <2>1, <2>2
<1> QED
  BY <1>3

(* Of some entries one was inserted first: the one with the fewest before  *)
(* it.                                                                     *)
LEMMA OldestIsThere ==
  ASSUME TypeOK, NEW ks \in SUBSET Live, ks # {}
  PROVE  Oldest(ks) \in ks
<1> DEFINE Before(k) == {j \in ks : <<j, k>> \in older}
           Size(k) == Cardinality(Before(k))
           T == {Size(k) : k \in ks}
<1>1. IsFiniteSet(ks)
  BY FS_Subset DEF TypeOK
<1>2. \A k \in ks : IsFiniteSet(Before(k)) /\ Size(k) \in Nat
  BY <1>1, FS_Subset, FS_CardinalityType
<1>3. T \in SUBSET Nat /\ T # {}
  BY <1>2
<1> HIDE DEF T
<1>4. PICK t \in T : \A u \in T : t <= u
  BY <1>3, Least
<1>5. PICK k \in ks : t = Size(k)
  BY <1>4 DEF T
<1>6. ASSUME NEW j \in ks \ {k} PROVE <<k, j>> \in older
  <2> SUFFICES ASSUME <<k, j>> \notin older PROVE FALSE
    OBVIOUS
  <2>1. <<j, k>> \in older /\ <<j, j>> \notin older
    BY DEF TypeOK
  <2>2. j \in Before(k) /\ Before(j) \subseteq Before(k) \ {j}
    BY <2>1 DEF TypeOK
  <2>3. IsFiniteSet(Before(k) \ {j}) /\ Cardinality(Before(k) \ {j}) = Size(k) - 1
    BY <1>2, <2>2, FS_RemoveElement
  <2>4. Size(j) <= Cardinality(Before(k) \ {j})
    BY <2>2, <2>3, FS_Subset
  <2>5. Size(j) \in T /\ Size(j) \in Nat /\ Size(k) \in Nat
    BY <1>2 DEF T
  <2>6. Size(k) <= Size(j)
    BY <1>4, <1>5, <2>5
  <2> HIDE DEF Size
  <2> QED
    BY <2>3, <2>4, <2>5, <2>6
<1> QED
  BY <1>6 DEF Oldest

(* Room for one more entry; a running window makes way only in a Map that  *)
(* is full of them.                                                        *)
LEMMA RoomFacts ==
  ASSUME TypeOK
  PROVE  /\ RoomMade(Live) \subseteq Live /\ IsFiniteSet(RoomMade(Live))
         /\ Cardinality(RoomMade(Live)) \in Nat /\ Cardinality(RoomMade(Live)) < MaxBuckets
         /\ (\E k \in Live \ RoomMade(Live) : ~Expired(buckets[k])) =>
              Cardinality(Live) = MaxBuckets /\ \A k \in Live : ~Expired(buckets[k])
<1> DEFINE S == Swept(Live)
           n == Cardinality(Live)
           m == Cardinality(S)
<1>1. /\ IsFiniteSet(Live) /\ n \in Nat /\ n <= MaxBuckets /\ MaxBuckets \in Nat \ {0}
  BY FS_CardinalityType, RateAssumption DEF TypeOK
<1>2. S \subseteq Live /\ \A k \in Live : k \in S <=> ~Expired(buckets[k])
  BY DEF Swept
<1>3. IsFiniteSet(S) /\ m \in Nat /\ m <= n /\ (m = n => S = Live)
  BY <1>1, <1>2, FS_Subset, FS_CardinalityType
<1>4. RoomMade(Live) = IF n < MaxBuckets THEN Live ELSE IF m < MaxBuckets THEN S ELSE Evicted(S)
  BY DEF RoomMade
<1>5. CASE n < MaxBuckets
  BY <1>1, <1>4, <1>5
<1>6. CASE ~(n < MaxBuckets) /\ m < MaxBuckets
  BY <1>2, <1>3, <1>4, <1>6
<1>7. CASE ~(n < MaxBuckets) /\ ~(m < MaxBuckets)
  <2>1. m = n /\ n = MaxBuckets /\ S = Live
    BY <1>1, <1>3, <1>7
  <2>2. S # {}
    BY <2>1, <1>1, FS_EmptySet
  <2>3. Oldest(S) \in S
    BY <1>2, <2>2, OldestIsThere
  <2>4. IsFiniteSet(Evicted(S)) /\ Cardinality(Evicted(S)) = m - 1
    BY <1>3, <2>3, FS_RemoveElement DEF Evicted
  <2>5. RoomMade(Live) = Evicted(S) /\ Evicted(S) \subseteq Live
    BY <1>2, <1>4, <1>7 DEF Evicted
  <2> QED
    BY <1>1, <1>2, <2>1, <2>4, <2>5
<1> QED
  BY <1>5, <1>6, <1>7

(***************************************************************************)
(* When the requests of one key were let through: s are the times, L the   *)
(* limit and W the length of a window.                                     *)
(***************************************************************************)
Ordered(s, t) ==
  \A i, j \in 1..Len(s) : s[i] <= t /\ (i <= j => s[i] <= s[j])
Spaced(s, L, W) ==
  \A i, j \in 1..Len(s) : j + 1 = i + 2 * L => s[j] >= s[i] + W

(* The last max requests began at least a window ago.                      *)
Rested(s, L, W, t) ==
  \A e \in 1..Len(s) : e + L = Len(s) + 1 => s[e] + W <= t

(* The window was opened by request f and has let through what it counted, *)
(* up to the limit; max requests earlier lies a window before.             *)
InWindow(s, c, end, L, W) ==
  \E f \in 1..Len(s) :
    /\ c <= L => f + c = Len(s) + 1
    /\ c >= L => f + L = Len(s) + 1
    /\ s[f] + W = end
    /\ \A e \in 1..Len(s) : e + L = f => s[e] + W <= s[f]

LEMMA Appended ==
  ASSUME NEW s \in Seq(Nat), NEW t \in Nat
  PROVE  /\ Append(s, t) \in Seq(Nat) /\ Len(s) \in Nat /\ Len(Append(s, t)) = Len(s) + 1
         /\ \A i \in 1..Len(s) : Append(s, t)[i] = s[i] /\ s[i] \in Nat
         /\ Append(s, t)[Len(s) + 1] = t
BY AppendProperties, LenProperties, ElementOfSeq

(* A request in a new window, once the last one is over.                   *)
LEMMA WindowOpens ==
  ASSUME NEW s \in Seq(Nat), NEW t \in Nat, NEW L \in Nat \ {0}, NEW W \in Nat \ {0},
         Ordered(s, t), Spaced(s, L, W), Rested(s, L, W, t)
  PROVE  /\ Ordered(Append(s, t), t) /\ Spaced(Append(s, t), L, W)
         /\ InWindow(Append(s, t), 1, t + W, L, W)
<1> DEFINE r == Append(s, t)
           n == Len(s)
<1>1. /\ n \in Nat /\ Len(r) = n + 1 /\ r[n + 1] = t
      /\ \A i \in 1..n : r[i] = s[i] /\ r[i] \in Nat
  BY Appended
<1>2. Ordered(s, t) /\ Spaced(s, L, W) /\ Rested(s, L, W, t)
  OBVIOUS
<1>3. /\ \A i, j \in 1..n : r[i] <= t /\ (i <= j => r[i] <= r[j])
      /\ \A i, j \in 1..n : j + 1 = i + 2 * L => r[j] >= r[i] + W
      /\ \A e \in 1..n : e + L = n + 1 => r[e] + W <= t
  BY <1>1, <1>2 DEF Ordered, Spaced, Rested
<1> HIDE DEF r, n
<1>4. Ordered(r, t)
  BY <1>1, <1>3 DEF Ordered
<1>5. Spaced(r, L, W)
  <2> SUFFICES ASSUME NEW i \in 1..(n + 1), NEW j \in 1..(n + 1), j + 1 = i + 2 * L
               PROVE  r[j] >= r[i] + W
    BY <1>1 DEF Spaced
  <2>1. CASE j \in 1..n
    <3>1. i \in 1..n
      BY <1>1, <2>1
    <3> QED
      BY <1>3, <2>1, <3>1
  <2>2. CASE j = n + 1
    <3> DEFINE e == n + 1 - L
    <3>1. e \in 1..n /\ e + L = n + 1 /\ i \in 1..n /\ i <= e
      BY <1>1, <2>2
    <3> HIDE DEF e
    <3>2. r[e] + W <= t /\ r[i] <= r[e] /\ r[e] \in Nat /\ r[i] \in Nat
      BY <1>1, <1>3, <3>1
    <3> QED
      BY <1>1, <2>2, <3>2
  <2> QED
    BY <1>1, <2>1, <2>2
<1>6. InWindow(r, 1, t + W, L, W)
  <2>1. \A e \in 1..(n + 1) : e + L = n + 1 => r[e] + W <= r[n + 1]
    BY <1>1, <1>3
  <2>2. n + 1 \in 1..Len(r)
    BY <1>1
  <2> QED
    BY <1>1, <2>1, <2>2 DEF InWindow
<1> QED
  BY <1>4, <1>5, <1>6 DEF r

(* One more request in a window that is not used up.                       *)
LEMMA WindowCounts ==
  ASSUME NEW s \in Seq(Nat), NEW t \in Nat, NEW L \in Nat \ {0}, NEW W \in Nat \ {0},
         NEW c \in Nat, NEW end \in Nat,
         Ordered(s, t), Spaced(s, L, W), InWindow(s, c, end, L, W), c + 1 <= L
  PROVE  /\ Ordered(Append(s, t), t) /\ Spaced(Append(s, t), L, W)
         /\ InWindow(Append(s, t), c + 1, end, L, W)
<1> DEFINE r == Append(s, t)
           n == Len(s)
<1>1. /\ n \in Nat /\ Len(r) = n + 1 /\ r[n + 1] = t
      /\ \A i \in 1..n : r[i] = s[i] /\ r[i] \in Nat
  BY Appended
<1>2. Ordered(s, t) /\ Spaced(s, L, W) /\ InWindow(s, c, end, L, W)
  OBVIOUS
<1>3. /\ \A i, j \in 1..n : r[i] <= t /\ (i <= j => r[i] <= r[j])
      /\ \A i, j \in 1..n : j + 1 = i + 2 * L => r[j] >= r[i] + W
  BY <1>1, <1>2 DEF Ordered, Spaced
<1>4. PICK f \in 1..n : /\ f + c = n + 1 /\ r[f] + W = end
                        /\ \A e \in 1..n : e + L = f => r[e] + W <= r[f]
  <2>1. PICK f \in 1..n : /\ c <= L => f + c = n + 1
                          /\ s[f] + W = end
                          /\ \A e \in 1..n : e + L = f => s[e] + W <= s[f]
    BY DEF InWindow
  <2>2. c <= L /\ r[f] = s[f] /\ \A e \in 1..n : r[e] = s[e]
    BY <1>1
  <2> HIDE DEF r, n
  <2>3. \A e \in 1..n : e + L = f => r[e] + W <= r[f]
    BY <2>1, <2>2
  <2> QED
    BY <2>1, <2>2, <2>3
<1> HIDE DEF r, n
<1>5. Ordered(r, t)
  <2>1. \A i \in 1..(n + 1) : i \in 1..n \/ i = n + 1
    BY <1>1
  <2>2. ASSUME NEW i \in 1..(n + 1) PROVE r[i] <= t
    <3>1. CASE i = n + 1
      BY <1>1, <3>1
    <3>2. CASE i \in 1..n
      BY <1>3, <3>2
    <3> QED
      BY <2>1, <3>1, <3>2
  <2>3. ASSUME NEW i \in 1..(n + 1), NEW j \in 1..(n + 1), i <= j PROVE r[i] <= r[j]
    <3>1. CASE j = n + 1
      BY <1>1, <2>2, <3>1
    <3>2. CASE j # n + 1
      <4>1. i \in 1..n /\ j \in 1..n
        BY <1>1, <2>1, <2>3, <3>2
      <4> QED
        BY <1>3, <2>3, <4>1
    <3> QED
      BY <3>1, <3>2
  <2> QED
    BY <1>1, <2>2, <2>3 DEF Ordered
<1>6. Spaced(r, L, W)
  <2> SUFFICES ASSUME NEW i \in 1..(n + 1), NEW j \in 1..(n + 1), j + 1 = i + 2 * L
               PROVE  r[j] >= r[i] + W
    BY <1>1 DEF Spaced
  <2>1. CASE j \in 1..n
    <3>1. i \in 1..n
      BY <1>1, <2>1
    <3> QED
      BY <1>3, <2>1, <3>1
  <2>2. CASE j = n + 1
    <3> DEFINE e == f - L
    <3>1. e \in 1..n /\ e + L = f /\ i \in 1..n /\ i <= e
      BY <1>1, <1>4, <2>2
    <3> HIDE DEF e
    <3>2. r[e] + W <= r[f] /\ r[i] <= r[e] /\ r[f] <= t
      BY <1>3, <1>4, <3>1
    <3>3. r[e] \in Nat /\ r[i] \in Nat /\ r[f] \in Nat
      BY <1>1, <1>4, <3>1
    <3> QED
      BY <1>1, <2>2, <3>2, <3>3
  <2> QED
    BY <1>1, <2>1, <2>2
<1>7. InWindow(r, c + 1, end, L, W)
  <2>1. f \in 1..Len(r) /\ f + (c + 1) = Len(r) + 1
    BY <1>1, <1>4
  <2>2. \A e \in 1..Len(r) : e + L = f => r[e] + W <= r[f]
    <3> SUFFICES ASSUME NEW e \in 1..(n + 1), e + L = f PROVE r[e] + W <= r[f]
      BY <1>1
    <3>1. e \in 1..n
      BY <1>1, <1>4
    <3> QED
      BY <1>4, <3>1
  <2>3. c + 1 >= L => f + L = Len(r) + 1
    BY <2>1
  <2> QED
    BY <1>4, <2>1, <2>2, <2>3 DEF InWindow
<1> QED
  BY <1>5, <1>6, <1>7 DEF r

(* A refused request.                                                      *)
LEMMA WindowRefuses ==
  ASSUME NEW s, NEW L \in Nat \ {0}, NEW W, NEW c \in Nat, NEW end,
         InWindow(s, c, end, L, W), ~(c + 1 <= L)
  PROVE  InWindow(s, c + 1, end, L, W)
<1>1. c >= L /\ c + 1 >= L
  OBVIOUS
<1> QED
  BY <1>1 DEF InWindow

(* The end of a window.                                                    *)
LEMMA WindowEnds ==
  ASSUME NEW s \in Seq(Nat), NEW t \in Nat, NEW L \in Nat \ {0}, NEW W \in Nat \ {0},
         NEW c \in Nat, NEW end \in Nat, NEW u \in Nat,
         Ordered(s, u), InWindow(s, c, end, L, W), end <= t
  PROVE  Rested(s, L, W, t)
<1> DEFINE n == Len(s)
<1>1. n \in Nat /\ \A i \in 1..n : s[i] \in Nat
  BY LenProperties, ElementOfSeq
<1>2. PICK f \in 1..n : /\ c <= L => f + c = n + 1
                        /\ c >= L => f + L = n + 1
                        /\ s[f] + W = end
  BY DEF InWindow
<1>3. ASSUME NEW e \in 1..n, e + L = n + 1 PROVE s[e] + W <= t
  <2>1. e <= f
    BY <1>1, <1>2, <1>3
  <2>2. s[e] <= s[f] /\ s[e] \in Nat /\ s[f] \in Nat
    BY <1>1, <2>1 DEF Ordered
  <2> QED
    BY <1>2, <2>2
<1> QED
  BY <1>3 DEF Rested

(***************************************************************************)
(* The inductive invariant.                                                *)
(***************************************************************************)
Runs(k) == k \in Live /\ ~Expired(buckets[k])

KeyInv(k) ==
  /\ Ordered(granted[k], now)
  /\ Spaced(granted[k], Limit[k], WindowMs[k])
  /\ Runs(k) => InWindow(granted[k], buckets[k].count, buckets[k].resetAt, Limit[k], WindowMs[k])
  /\ ~Runs(k) => Rested(granted[k], Limit[k], WindowMs[k], now)

IInv == TypeOK /\ \A k \in Keys : KeyInv(k)

LEMMA LargerRange ==
  ASSUME NEW S, NEW T, S \subseteq T
  PROVE  \A s \in Seq(S) : s \in Seq(T)
OBVIOUS

LEMMA TypesOf ==
  ASSUME TypeOK, NEW k \in Keys
  PROVE  /\ granted[k] \in Seq(Nat) /\ granted \in [Keys -> Seq(Times)] /\ now \in Nat
         /\ Limit[k] \in Nat \ {0} /\ WindowMs[k] \in Nat \ {0}
         /\ k \in Live => buckets[k] \in Bucket
<1>1. granted[k] \in Seq(Times) /\ Times \subseteq Nat
  BY RateAssumption DEF TypeOK, Times
<1>2. \A s \in Seq(Times) : s \in Seq(Nat)
  BY <1>1, LargerRange
<1>3. now \in Nat
  BY <1>1 DEF TypeOK
<1> QED
  BY <1>1, <1>2, <1>3, RateAssumption DEF TypeOK

(* A key that is let through at the start of a window.                     *)
LEMMA Opens ==
  ASSUME IInv, NEW k \in Keys, ~Runs(k)
  PROVE  LET s == Append(granted[k], now) IN
         /\ Ordered(s, now) /\ Spaced(s, Limit[k], WindowMs[k])
         /\ InWindow(s, 1, now + WindowMs[k], Limit[k], WindowMs[k])
<1>1. KeyInv(k) /\ TypeOK
  BY DEF IInv
<1> QED
  BY <1>1, TypesOf, WindowOpens DEF KeyInv

LEMMA GrantType ==
  ASSUME TypeOK, NEW k \in Keys
  PROVE  /\ Grant(k) \in [Keys -> Seq(Times)]
         /\ Grant(k)[k] = Append(granted[k], now)
         /\ \A j \in Keys \ {k} : Grant(k)[j] = granted[j]
<1>1. granted[k] \in Seq(Times) /\ now \in Times /\ granted \in [Keys -> Seq(Times)]
  BY DEF TypeOK
<1>2. Append(granted[k], now) \in Seq(Times)
  BY <1>1
<1> QED
  BY <1>1, <1>2 DEF Grant

LEMMA InitHolds == Init => IInv
<1> SUFFICES ASSUME Init PROVE IInv
  OBVIOUS
<1>1. now = 0 /\ buckets = <<>> /\ older = {} /\ granted = [k \in Keys |-> <<>>]
  BY DEF Init
<1>2. Live = {} /\ buckets \in [Live -> Bucket]
  BY <1>1 DEF Live
<1>3. TypeOK
  <2>1. Cardinality(Live) <= MaxBuckets /\ IsFiniteSet(Live)
    BY <1>2, FS_EmptySet, RateAssumption
  <2>2. now \in Times
    BY <1>1, RateAssumption DEF Times
  <2>3. granted \in [Keys -> Seq(Times)]
    BY <1>1
  <2> QED
    BY <1>1, <1>2, <2>1, <2>2, <2>3 DEF TypeOK
<1>4. ASSUME NEW k \in Keys PROVE KeyInv(k)
  <2>1. granted[k] = <<>> /\ ~Runs(k) /\ 1..Len(granted[k]) = {}
    BY <1>1, <1>2 DEF Runs
  <2> QED
    BY <2>1 DEF KeyInv, Ordered, Spaced, Rested
<1> QED
  BY <1>3, <1>4 DEF IInv

(* A key whose window and history stay as they are.                        *)
LEMMA KeyStays ==
  ASSUME IInv, NEW k \in Keys, UNCHANGED now, granted'[k] = granted[k],
         Runs(k)' <=> Runs(k), Runs(k) => buckets'[k] = buckets[k]
  PROVE  KeyInv(k)'
<1>1. KeyInv(k)
  BY DEF IInv
<1> QED
  BY <1>1 DEF KeyInv

LEMMA HitNewStep ==
  ASSUME IInv, NEW k \in Keys, HitNew(k)
  PROVE  IInv'
<1> DEFINE kept == RoomMade(Live)
<1>1. /\ k \notin Live /\ now' = now
      /\ buckets' = [j \in kept \cup {k} |-> IF j = k THEN Opened(k) ELSE buckets[j]]
      /\ older' = Among(kept) \cup (kept \X {k})
      /\ granted' = Restarted(Grant(k), kept)
  BY DEF HitNew
<1>2. /\ kept \subseteq Live /\ IsFiniteSet(kept)
      /\ Cardinality(kept) \in Nat /\ Cardinality(kept) < MaxBuckets
  BY RoomFacts DEF IInv
<1> HIDE DEF kept
<1>3. /\ Live' = kept \cup {k} /\ buckets'[k] = Opened(k)
      /\ \A j \in kept : j # k /\ buckets'[j] = buckets[j]
  BY <1>1, <1>2 DEF Live
<1>4. TypeOK /\ now \in Nat /\ WindowMs[k] \in Nat /\ MaxBuckets \in Nat
  BY TypesOf, RateAssumption DEF IInv
<1>5. Opened(k) \in Bucket
  BY <1>4 DEF Opened, Bucket
<1>6. TypeOK'
  <2>1. Live' \subseteq Keys /\ buckets' \in [Live' -> Bucket]
    BY <1>1, <1>2, <1>3, <1>4, <1>5 DEF TypeOK
  <2>2. IsFiniteSet(Live') /\ Cardinality(Live') = Cardinality(kept) + 1
    BY <1>1, <1>2, <1>3, FS_AddElement
  <2>3. Cardinality(Live') <= MaxBuckets
    BY <1>2, <1>4, <2>2
  <2>4. older' \subseteq Live' \X Live'
    BY <1>1, <1>2, <1>3, <1>4 DEF TypeOK, Among
  <2>5. /\ \A j, l \in kept : <<j, l>> \in older' <=> <<j, l>> \in older
        /\ \A j \in kept : <<j, k>> \in older' /\ <<k, j>> \notin older'
        /\ <<k, k>> \notin older'
    BY <1>1, <1>2, <1>3 DEF Among
  <2>6. \A j \in Live' : j = k \/ j \in kept
    BY <1>3
  <2>7. \A j, l \in Live' : <<j, l>> \in older' <=> j # l /\ <<l, j>> \notin older'
    BY <1>2, <1>3, <1>4, <2>5, <2>6 DEF TypeOK
  <2>8. \A j, l, i \in Live' : <<j, l>> \in older' /\ <<l, i>> \in older' => <<j, i>> \in older'
    <3> SUFFICES ASSUME NEW j \in Live', NEW l \in Live', NEW i \in Live',
                        <<j, l>> \in older', <<l, i>> \in older'
                 PROVE  <<j, i>> \in older'
      OBVIOUS
    <3>1. j \in kept /\ l \in kept
      BY <2>5, <2>6
    <3>2. CASE i = k
      BY <2>5, <3>1, <3>2
    <3>3. CASE i \in kept
      <4>1. <<j, l>> \in older /\ <<l, i>> \in older
        BY <2>5, <3>1, <3>3
      <4>2. <<j, i>> \in older
        BY <1>2, <1>4, <3>1, <3>3, <4>1 DEF TypeOK
      <4> QED
        BY <2>5, <3>1, <3>3, <4>2
    <3> QED
      BY <2>6, <3>2, <3>3
  <2>9. granted' \in [Keys -> Seq(Times)]
    <3>1. <<>> \in Seq(Times) /\ Grant(k) \in [Keys -> Seq(Times)]
      BY <1>4, GrantType
    <3> QED
      BY <1>1, <3>1 DEF Restarted
  <2> QED
    BY <1>1, <1>4, <2>1, <2>2, <2>3, <2>4, <2>7, <2>8, <2>9 DEF TypeOK
<1>7. ASSUME NEW j \in Keys PROVE KeyInv(j)'
  <2>1. granted'[j] = IF j \in Live \ kept /\ ~Expired(buckets[j]) THEN <<>> ELSE Grant(k)[j]
    BY <1>1 DEF Restarted
  <2>2. CASE j = k
    <3>1. granted'[k] = Append(granted[k], now)
      BY <1>1, <1>4, <2>1, <2>2, GrantType
    <3>2. ~Runs(k)
      BY <1>1 DEF Runs
    <3>3. Runs(k)' /\ buckets'[k].count = 1 /\ buckets'[k].resetAt = now + WindowMs[k]
      <4>1. buckets'[k].count = 1 /\ buckets'[k].resetAt = now + WindowMs[k]
        BY <1>3 DEF Opened
      <4>2. k \in Live' /\ ~(now' >= buckets'[k].resetAt)
        BY <1>1, <1>3, <4>1, TypesOf DEF IInv
      <4> QED
        BY <4>1, <4>2 DEF Runs, Expired
    <3> QED
      BY <1>1, <2>2, <3>1, <3>2, <3>3, Opens DEF KeyInv
  <2>3. CASE j # k /\ Runs(j) /\ j \notin kept
    <3>1. granted'[j] = <<>> /\ 1..Len(granted'[j]) = {} /\ ~Runs(j)'
      BY <1>3, <2>1, <2>3 DEF Runs
    <3> QED
      BY <3>1 DEF KeyInv, Ordered, Spaced, Rested
  <2>4. CASE j # k /\ ~(Runs(j) /\ j \notin kept)
    <3>1. granted'[j] = granted[j]
      BY <1>4, <2>1, <2>4, GrantType DEF Runs
    <3>2. Runs(j)' <=> Runs(j)
      BY <1>1, <1>2, <1>3, <2>4 DEF Runs, Expired
    <3>3. Runs(j) => buckets'[j] = buckets[j]
      BY <1>3, <2>4
    <3> QED
      BY <1>1, <3>1, <3>2, <3>3, KeyStays
  <2> QED
    BY <2>2, <2>3, <2>4
<1> QED
  BY <1>6, <1>7 DEF IInv

(* A new value of an entry leaves the entries and their order.             *)
LEMMA SameEntries ==
  ASSUME TypeOK, NEW k \in Live, NEW b \in Bucket, buckets' = [buckets EXCEPT ![k] = b],
         UNCHANGED <<now, older>>, granted' \in [Keys -> Seq(Times)]
  PROVE  /\ TypeOK' /\ Live' = Live /\ buckets'[k] = b
         /\ \A j \in Live \ {k} : buckets'[j] = buckets[j]
<1>1. buckets \in [Live -> Bucket]
  BY DEF TypeOK
<1>2. Live' = Live /\ buckets' \in [Live -> Bucket]
  BY <1>1 DEF Live
<1> QED
  BY <1>1, <1>2 DEF TypeOK

LEMMA HitExpiredStep ==
  ASSUME IInv, NEW k \in Keys, HitExpired(k)
  PROVE  IInv'
<1>1. /\ k \in Live /\ Expired(buckets[k]) /\ buckets' = [buckets EXCEPT ![k] = Opened(k)]
      /\ granted' = Grant(k) /\ UNCHANGED <<now, older>>
  BY DEF HitExpired
<1>2. TypeOK /\ now \in Nat /\ WindowMs[k] \in Nat \ {0}
  BY TypesOf DEF IInv
<1>3. Opened(k) \in Bucket
  BY <1>2 DEF Opened, Bucket
<1>4. /\ granted' \in [Keys -> Seq(Times)] /\ granted'[k] = Append(granted[k], now)
      /\ \A j \in Keys \ {k} : granted'[j] = granted[j]
  BY <1>1, <1>2, GrantType
<1>5. /\ TypeOK' /\ Live' = Live /\ buckets'[k] = Opened(k)
      /\ \A j \in Live \ {k} : buckets'[j] = buckets[j]
  BY <1>1, <1>2, <1>3, <1>4, SameEntries
<1>6. ASSUME NEW j \in Keys PROVE KeyInv(j)'
  <2>1. CASE j = k
    <3>1. ~Runs(k)
      BY <1>1 DEF Runs
    <3>2. buckets'[k].count = 1 /\ buckets'[k].resetAt = now + WindowMs[k]
      BY <1>5 DEF Opened
    <3>3. ~(now' >= buckets'[k].resetAt)
      BY <1>1, <1>2, <3>2
    <3>4. Runs(k)'
      BY <1>1, <1>5, <3>3 DEF Runs, Expired
    <3> QED
      BY <1>1, <1>4, <2>1, <3>1, <3>2, <3>4, Opens DEF KeyInv
  <2>2. CASE j # k
    BY <1>1, <1>4, <1>5, <2>2, KeyStays DEF Runs, Expired
  <2> QED
    BY <2>1, <2>2
<1> QED
  BY <1>5, <1>6 DEF IInv

LEMMA Counted ==
  ASSUME NEW w \in Bucket
  PROVE  LET b == [w EXCEPT !.count = w.count + 1] IN
         /\ w.count \in Nat /\ w.resetAt \in Nat /\ b \in Bucket
         /\ b.count = w.count + 1 /\ b.resetAt = w.resetAt
BY DEF Bucket

LEMMA HitRunningStep ==
  ASSUME IInv, NEW k \in Keys, HitRunning(k)
  PROVE  IInv'
<1> DEFINE c == buckets[k].count
           b == [buckets[k] EXCEPT !.count = c + 1]
           end == buckets[k].resetAt
<1>1. /\ k \in Live /\ ~Expired(buckets[k]) /\ buckets' = [buckets EXCEPT ![k] = b]
      /\ granted' = IF c + 1 <= Limit[k] THEN Grant(k) ELSE granted
      /\ UNCHANGED <<now, older>>
  BY DEF HitRunning
<1>2. /\ TypeOK /\ now \in Nat /\ Limit[k] \in Nat \ {0} /\ WindowMs[k] \in Nat \ {0}
      /\ granted[k] \in Seq(Nat) /\ granted \in [Keys -> Seq(Times)] /\ buckets[k] \in Bucket
  BY <1>1, TypesOf DEF IInv
<1>3. c \in Nat /\ end \in Nat /\ b \in Bucket /\ b.count = c + 1 /\ b.resetAt = end
  BY <1>2, Counted
<1>4. /\ granted' \in [Keys -> Seq(Times)]
      /\ granted'[k] = IF c + 1 <= Limit[k] THEN Append(granted[k], now) ELSE granted[k]
      /\ \A j \in Keys \ {k} : granted'[j] = granted[j]
  BY <1>1, <1>2, GrantType
<1> HIDE DEF b
<1>5. /\ TypeOK' /\ Live' = Live /\ buckets'[k] = b
      /\ \A j \in Live \ {k} : buckets'[j] = buckets[j]
  BY <1>1, <1>2, <1>3, <1>4, SameEntries
<1>6. Runs(k) /\ KeyInv(k)
  BY <1>1 DEF Runs, IInv
<1>7. /\ Ordered(granted[k], now) /\ Spaced(granted[k], Limit[k], WindowMs[k])
      /\ InWindow(granted[k], c, end, Limit[k], WindowMs[k])
  BY <1>6 DEF KeyInv
<1>8. Runs(k)' /\ buckets'[k].count = c + 1 /\ buckets'[k].resetAt = end
  BY <1>1, <1>3, <1>5 DEF Runs, Expired
<1> HIDE DEF c, end
<1>9. KeyInv(k)'
  <2>1. CASE c + 1 <= Limit[k]
    <3>1. granted'[k] = Append(granted[k], now) /\ now' = now
      BY <1>1, <1>4, <2>1
    <3>2. /\ Ordered(granted'[k], now) /\ Spaced(granted'[k], Limit[k], WindowMs[k])
          /\ InWindow(granted'[k], c + 1, end, Limit[k], WindowMs[k])
      <4> DEFINE s == granted[k]
                 L == Limit[k]
                 W == WindowMs[k]
      <4>1. /\ s \in Seq(Nat) /\ L \in Nat \ {0} /\ W \in Nat \ {0} /\ c + 1 <= L
            /\ Ordered(s, now) /\ Spaced(s, L, W) /\ InWindow(s, c, end, L, W)
        BY <1>2, <1>7, <2>1
      <4> HIDE DEF s, L, W
      <4>2. /\ Ordered(Append(s, now), now) /\ Spaced(Append(s, now), L, W)
            /\ InWindow(Append(s, now), c + 1, end, L, W)
        BY <1>2, <1>3, <4>1, WindowCounts
      <4> QED
        BY <3>1, <4>2 DEF s, L, W
    <3> QED
      BY <1>8, <3>1, <3>2 DEF KeyInv
  <2>2. CASE ~(c + 1 <= Limit[k])
    <3>1. granted'[k] = granted[k] /\ now' = now
      BY <1>1, <1>4, <2>2
    <3>2. InWindow(granted[k], c + 1, end, Limit[k], WindowMs[k])
      BY <1>2, <1>3, <1>7, <2>2, WindowRefuses
    <3> QED
      BY <1>7, <1>8, <3>1, <3>2 DEF KeyInv
  <2> QED
    BY <2>1, <2>2
<1>10. ASSUME NEW j \in Keys, j # k PROVE KeyInv(j)'
  BY <1>1, <1>4, <1>5, <1>10, KeyStays DEF Runs, Expired
<1> QED
  BY <1>5, <1>9, <1>10 DEF IInv

LEMMA SweepStep ==
  ASSUME IInv, Sweep
  PROVE  IInv'
<1> DEFINE kept == Swept(Live)
<1>1. /\ buckets' = [k \in kept |-> buckets[k]] /\ older' = Among(kept)
      /\ UNCHANGED <<now, granted>>
  BY DEF Sweep
<1>2. kept \subseteq Live /\ \A k \in Live : k \in kept <=> ~Expired(buckets[k])
  BY DEF Swept
<1> HIDE DEF kept
<1>3. Live' = kept /\ \A k \in kept : buckets'[k] = buckets[k]
  BY <1>1 DEF Live
<1>4. TypeOK /\ MaxBuckets \in Nat
  BY RateAssumption DEF IInv
<1>5. TypeOK'
  <2>1. /\ IsFiniteSet(kept) /\ Cardinality(kept) <= Cardinality(Live)
        /\ Cardinality(Live) \in Nat /\ Cardinality(kept) \in Nat
    BY <1>2, <1>4, FS_Subset, FS_CardinalityType DEF TypeOK
  <2>2. Cardinality(kept) <= MaxBuckets
    BY <1>4, <2>1 DEF TypeOK
  <2>3. /\ older' \subseteq kept \X kept
        /\ \A j, l \in kept : <<j, l>> \in older' <=> <<j, l>> \in older
    BY <1>1, <1>2, <1>4 DEF Among, TypeOK
  <2>4. buckets' \in [kept -> Bucket] /\ kept \subseteq Keys
    BY <1>1, <1>2, <1>4 DEF TypeOK
  <2>5. \A j, l \in kept : <<j, l>> \in older' <=> j # l /\ <<l, j>> \notin older'
    BY <1>2, <1>4, <2>3 DEF TypeOK
  <2>6. \A j, l, i \in kept : <<j, l>> \in older' /\ <<l, i>> \in older' => <<j, i>> \in older'
    BY <1>2, <1>4, <2>3 DEF TypeOK
  <2> QED
    BY <1>1, <1>3, <1>4, <2>1, <2>2, <2>3, <2>4, <2>5, <2>6 DEF TypeOK
<1>6. ASSUME NEW k \in Keys PROVE KeyInv(k)'
  <2>1. Runs(k)' <=> Runs(k)
    BY <1>1, <1>2, <1>3 DEF Runs, Expired
  <2>2. Runs(k) => buckets'[k] = buckets[k]
    BY <1>2, <1>3 DEF Runs
  <2> QED
    BY <1>1, <2>1, <2>2, KeyStays
<1> QED
  BY <1>5, <1>6 DEF IInv

LEMMA TickStep ==
  ASSUME IInv, Tick
  PROVE  IInv'
<1>1. now' = now + 1 /\ now < MaxTime /\ UNCHANGED <<buckets, older, granted>>
  BY DEF Tick
<1>2. TypeOK'
  BY <1>1, RateAssumption DEF IInv, TypeOK, Times, Live
<1>3. ASSUME NEW k \in Keys PROVE KeyInv(k)'
  <2> DEFINE s == granted[k]
  <2>1. /\ s \in Seq(Nat) /\ now \in Nat /\ now' \in Nat /\ now <= now'
        /\ Limit[k] \in Nat \ {0} /\ WindowMs[k] \in Nat \ {0}
        /\ k \in Live => buckets[k] \in Bucket
    BY <1>1, TypesOf DEF IInv
  <2>2. KeyInv(k) /\ granted'[k] = s /\ Live' = Live /\ buckets' = buckets
    BY <1>1 DEF IInv, Live
  <2>3. Ordered(s, now) /\ Spaced(s, Limit[k], WindowMs[k])
    BY <2>2 DEF KeyInv
  <2> HIDE DEF s
  <2>4. Len(s) \in Nat /\ \A i \in 1..Len(s) : s[i] \in Nat
    BY <2>1, LenProperties, ElementOfSeq
  <2>5. Ordered(s, now')
    <3>1. ASSUME NEW i \in 1..Len(s) PROVE s[i] <= now'
      <4>1. s[i] <= now /\ s[i] \in Nat
        BY <2>3, <2>4 DEF Ordered
      <4> QED
        BY <2>1, <4>1
    <3> QED
      BY <2>3, <3>1 DEF Ordered
  <2>6. CASE ~Runs(k)
    <3>1. ASSUME NEW e \in 1..Len(s), e + Limit[k] = Len(s) + 1
          PROVE  s[e] + WindowMs[k] <= now'
      <4>1. s[e] + WindowMs[k] <= now /\ s[e] \in Nat
        BY <2>2, <2>4, <2>6, <3>1 DEF KeyInv, Rested, s
      <4> QED
        BY <2>1, <4>1
    <3>2. Rested(s, Limit[k], WindowMs[k], now')
      BY <3>1 DEF Rested
    <3>3. ~Runs(k)'
      <4>1. CASE k \notin Live
        BY <2>2, <4>1 DEF Runs
      <4>2. CASE k \in Live
        <5>1. now >= buckets[k].resetAt /\ buckets[k].resetAt \in Nat
          BY <2>1, <2>6, <4>2 DEF Runs, Expired, Bucket
        <5>2. now' >= buckets[k].resetAt
          BY <2>1, <5>1
        <5> QED
          BY <2>2, <5>2 DEF Runs, Expired
      <4> QED
        BY <4>1, <4>2
    <3> QED
      BY <2>2, <2>3, <2>5, <3>2, <3>3 DEF KeyInv
  <2>7. CASE Runs(k)
    <3> DEFINE c == buckets[k].count
               end == buckets[k].resetAt
    <3>1. c \in Nat /\ end \in Nat /\ InWindow(s, c, end, Limit[k], WindowMs[k])
      BY <2>1, <2>2, <2>7 DEF KeyInv, Runs, Bucket, s
    <3>2. CASE now' >= end
      <4>1. Rested(s, Limit[k], WindowMs[k], now')
        BY <2>1, <2>3, <3>1, <3>2, WindowEnds
      <4>2. ~Runs(k)'
        BY <2>2, <3>2 DEF Runs, Expired
      <4> QED
        BY <2>2, <2>3, <2>5, <4>1, <4>2 DEF KeyInv
    <3>3. CASE ~(now' >= end)
      <4>1. Runs(k)'
        BY <2>2, <2>7, <3>3 DEF Runs, Expired
      <4> QED
        BY <2>2, <2>3, <2>5, <3>1, <4>1 DEF KeyInv
    <3> QED
      BY <3>2, <3>3
  <2> QED
    BY <2>6, <2>7
<1> QED
  BY <1>2, <1>3 DEF IInv

LEMMA StepHolds == IInv /\ [Next]_vars => IInv'
<1> SUFFICES ASSUME IInv, [Next]_vars PROVE IInv'
  OBVIOUS
<1>1. ASSUME NEW k \in Keys, HitNew(k) PROVE IInv'
  BY <1>1, HitNewStep
<1>2. ASSUME NEW k \in Keys, HitExpired(k) PROVE IInv'
  BY <1>2, HitExpiredStep
<1>3. ASSUME NEW k \in Keys, HitRunning(k) PROVE IInv'
  BY <1>3, HitRunningStep
<1>4. CASE Sweep
  BY <1>4, SweepStep
<1>5. CASE Tick
  BY <1>5, TickStep
<1>6. CASE UNCHANGED vars
  <2>1. UNCHANGED <<now, buckets, older, granted>>
    BY <1>6 DEF vars
  <2>2. TypeOK'
    BY <2>1 DEF IInv, TypeOK, Live
  <2>3. ASSUME NEW k \in Keys PROVE KeyInv(k)'
    BY <2>1, KeyStays DEF Runs, Live, Expired
  <2> QED
    BY <2>2, <2>3 DEF IInv
<1> QED
  BY <1>1, <1>2, <1>3, <1>4, <1>5, <1>6 DEF Next

(***************************************************************************)
(* The theorems.                                                           *)
(***************************************************************************)

(* The cap holds at every moment, whatever is swept, evicted or set again  *)
(* (hit, sweep and evictOldest).                                           *)
THEOREM CapHolds == Spec => []TypeOK
<1>1. IInv => TypeOK
  BY DEF IInv
<1> QED
  BY <1>1, InitHolds, StepHolds, PTL DEF Spec

(* A fixed window lets through up to max requests on each side of its      *)
(* boundary, but never 2 * max of them within windowMs, for any limits.    *)
THEOREM NeverTwiceTheLimit == Spec => []LessThanTwice
<1>1. IInv => LessThanTwice
  BY DEF IInv, KeyInv, Spaced, LessThanTwice
<1> QED
  BY <1>1, InitHolds, StepHolds, PTL DEF Spec

(* A refusal always follows max requests within the last windowMs,         *)
(* although every refused request is counted too.                          *)
THEOREM RefusalsAreEarned == Spec => []RefusalEarned
<1>1. IInv => RefusalEarned
  <2> SUFFICES ASSUME IInv, NEW k \in Live, ~Expired(buckets[k]), buckets[k].count >= Limit[k]
               PROVE  \E i \in 1..Len(granted[k]) :
                        /\ i + Limit[k] = Len(granted[k]) + 1
                        /\ granted[k][i] + WindowMs[k] > now
    BY DEF RefusalEarned
  <2>1. k \in Keys /\ KeyInv(k) /\ Runs(k) /\ now \in Nat /\ buckets[k] \in Bucket
    <3>1. k \in Keys
      BY DEF IInv, TypeOK
    <3> QED
      BY <3>1, TypesOf DEF IInv, Runs
  <2>2. PICK f \in 1..Len(granted[k]) :
          f + Limit[k] = Len(granted[k]) + 1 /\ granted[k][f] + WindowMs[k] = buckets[k].resetAt
    BY <2>1 DEF KeyInv, InWindow
  <2>3. buckets[k].resetAt > now
    BY <2>1 DEF Expired, Bucket
  <2> QED
    BY <2>2, <2>3
<1> QED
  BY <1>1, InitHolds, StepHolds, PTL DEF Spec

(* A running window is dropped only by evictOldest, after a sweep that     *)
(* found none expired in a full Map.                                       *)
THEOREM EvictionsAreForced == Spec => EvictsOnlyWhenFull
<1> DEFINE Forced ==
      \A k \in Live \ Live' : now < buckets[k].resetAt =>
        /\ Cardinality(Live) = MaxBuckets
        /\ \A j \in Live : now < buckets[j].resetAt
<1>1. IInv /\ [Next]_vars => [Forced]_vars
  <2> SUFFICES ASSUME IInv, Next PROVE Forced
    BY Zenon
  <2> SUFFICES ASSUME NEW k \in Live \ Live', now < buckets[k].resetAt
               PROVE  /\ Cardinality(Live) = MaxBuckets
                      /\ \A j \in Live : now < buckets[j].resetAt
    OBVIOUS
  <2>1. TypeOK /\ now \in Nat /\ \A j \in Live : buckets[j].resetAt \in Nat
    <3>1. now \in Nat
      BY RateAssumption DEF IInv, TypeOK, Times
    <3>2. \A j \in Live : buckets[j] \in Bucket
      BY DEF IInv, TypeOK
    <3> QED
      BY <3>1, <3>2 DEF IInv, Bucket
  <2>2. \A j \in Live : ~Expired(buckets[j]) <=> now < buckets[j].resetAt
    BY <2>1 DEF Expired
  <2>3. CASE \E l \in Keys : HitNew(l)
    <3>1. RoomMade(Live) \subseteq Live'
      BY <2>3 DEF HitNew, Live
    <3>2. k \in Live \ RoomMade(Live) /\ ~Expired(buckets[k])
      BY <2>2, <3>1
    <3> QED
      BY <2>1, <2>2, <3>2, RoomFacts
  <2>4. CASE \E l \in Keys : HitExpired(l) \/ HitRunning(l)
    BY <2>4 DEF HitExpired, HitRunning, Live
  <2>5. CASE Sweep
    BY <2>2, <2>5 DEF Sweep, Swept, Live
  <2>6. CASE Tick
    BY <2>6 DEF Tick, Live
  <2> QED
    BY <2>3, <2>4, <2>5, <2>6 DEF Next
<1> QED
  BY <1>1, InitHolds, StepHolds, PTL DEF Spec, EvictsOnlyWhenFull
=============================================================================
