----------------------------- MODULE RateLimit -----------------------------
(***************************************************************************)
(* The in-memory rate limiter: one fixed window per key (route prefix and  *)
(* user or address), a periodic sweep and a cap on the number of windows.  *)
(*                                                                         *)
(* buckets is a JavaScript Map: its entries, and in older which of two was *)
(* inserted first; an entry keeps its place when its value is set again.   *)
(* Time is Date.now() in units of the model, and does not go back.         *)
(***************************************************************************)
EXTENDS Naturals, Sequences, FiniteSets

CONSTANTS
  Keys,
  WindowMs,      \* windowMs of each key's route
  Limit,         \* max of each key's route
  MaxBuckets,    \* maxBuckets
  MaxTime,       \* bound: the clock
  MaxHits        \* bound: requests of a key in one window

ASSUME RateAssumption ==
  /\ WindowMs \in [Keys -> Nat \ {0}]
  /\ Limit \in [Keys -> Nat \ {0}]
  /\ MaxBuckets \in Nat \ {0}
  /\ MaxTime \in Nat /\ MaxHits \in Nat

VARIABLES
  now,
  buckets,    \* the windows by key
  older,      \* <<j, k>>: the entry of j was inserted before that of k
  granted     \* history: when requests of each key were let through, since
              \* a running window of the key was last evicted

vars == <<now, buckets, older, granted>>

Times == 0..MaxTime
Bucket == [count : Nat, resetAt : Nat]

Init ==
  /\ now = 0
  /\ buckets = <<>>
  /\ older = {}
  /\ granted = [k \in Keys |-> <<>>]

-----------------------------------------------------------------------------
Live == DOMAIN buckets

(* now >= resetAt starts a new window.  Defect: > does.                    *)
ExpiredLate(b) == now > b.resetAt
Expired(b) == now >= b.resetAt

(* A window's first request.  Defect: it is not counted.                   *)
OpenedUncounted(k) == [count |-> 0, resetAt |-> now + WindowMs[k]]
Opened(k) == [count |-> 1, resetAt |-> now + WindowMs[k]]

(* What sweep leaves of the keys.  Defect: it does nothing.                *)
SweptNot(ks) == ks
Swept(ks) == {k \in ks : ~Expired(buckets[k])}

(* evictOldest(1).                                                         *)
Oldest(ks) == CHOOSE k \in ks : \A j \in ks \ {k} : <<k, j>> \in older
Evicted(ks) == ks \ {Oldest(ks)}

(* Room for one more: sweep at the cap, and if that was not enough drop    *)
(* the entry inserted first.  Defect: off by one at the cap.               *)
RoomMadeLate(ks) ==
  IF Cardinality(ks) <= MaxBuckets THEN ks
  ELSE IF Cardinality(Swept(ks)) <= MaxBuckets THEN Swept(ks) ELSE Evicted(Swept(ks))
RoomMade(ks) ==
  IF Cardinality(ks) < MaxBuckets THEN ks
  ELSE IF Cardinality(Swept(ks)) < MaxBuckets THEN Swept(ks) ELSE Evicted(Swept(ks))

Among(ks) == {o \in older : o[1] \in ks /\ o[2] \in ks}

Grant(k) == [granted EXCEPT ![k] = Append(@, now)]

(* Keys whose running window is gone start their history again.            *)
Restarted(g, kept) ==
  [k \in Keys |-> IF k \in Live \ kept /\ ~Expired(buckets[k]) THEN <<>> ELSE g[k]]

(* hit: a key without a window, with an expired one, with a running one.   *)
HitNew(k) ==
  LET kept == RoomMade(Live) IN
  /\ k \notin Live
  /\ buckets' = [j \in kept \cup {k} |-> IF j = k THEN Opened(k) ELSE buckets[j]]
  /\ older' = Among(kept) \cup (kept \X {k})
  /\ granted' = Restarted(Grant(k), kept)
  /\ UNCHANGED now

HitExpired(k) ==
  /\ k \in Live
  /\ Expired(buckets[k])
  /\ buckets' = [buckets EXCEPT ![k] = Opened(k)]
  /\ granted' = Grant(k)
  /\ UNCHANGED <<now, older>>

(* count <= max lets the request through; every request counts.            *)
HitRunning(k) ==
  /\ k \in Live
  /\ ~Expired(buckets[k])
  /\ buckets[k].count < MaxHits
  /\ buckets' = [buckets EXCEPT ![k].count = @ + 1]
  /\ granted' = IF buckets[k].count + 1 <= Limit[k] THEN Grant(k) ELSE granted
  /\ UNCHANGED <<now, older>>

Sweep ==
  /\ buckets' = [k \in Swept(Live) |-> buckets[k]]
  /\ older' = Among(Swept(Live))
  /\ UNCHANGED <<now, granted>>

Tick ==
  /\ now < MaxTime
  /\ now' = now + 1
  /\ UNCHANGED <<buckets, older, granted>>

Next ==
  \/ \E k \in Keys : HitNew(k) \/ HitExpired(k) \/ HitRunning(k)
  \/ Sweep
  \/ Tick

Spec == Init /\ [][Next]_vars

-----------------------------------------------------------------------------
(* Properties.                                                             *)

(* The Map never holds more entries than its cap, and they were inserted   *)
(* one after the other.                                                    *)
TypeOK ==
  /\ now \in Times
  /\ Live \subseteq Keys /\ buckets \in [Live -> Bucket]
  /\ IsFiniteSet(Live) /\ Cardinality(Live) <= MaxBuckets
  /\ older \subseteq Live \X Live
  /\ \A j, k \in Live : <<j, k>> \in older <=> j # k /\ <<k, j>> \notin older
  /\ \A j, k, l \in Live : <<j, k>> \in older /\ <<k, l>> \in older => <<j, l>> \in older
  /\ granted \in [Keys -> Seq(Times)]

(* However the windows fall, of 2 * max requests of a key let through in a *)
(* row the last comes windowMs after the first, or later: no span of       *)
(* windowMs sees 2 * max of them, unless a running window is evicted.      *)
LessThanTwice ==
  \A k \in Keys : \A i, j \in 1..Len(granted[k]) :
    j + 1 = i + 2 * Limit[k] => granted[k][j] >= granted[k][i] + WindowMs[k]

(* Whoever would be refused now was let through max times within the last  *)
(* windowMs: refused requests do not prolong the refusal.                  *)
RefusalEarned ==
  \A k \in Live : ~Expired(buckets[k]) /\ buckets[k].count >= Limit[k] =>
    \E i \in 1..Len(granted[k]) :
      i + Limit[k] = Len(granted[k]) + 1 /\ granted[k][i] + WindowMs[k] > now

(* A caller's running window is forgotten only when as many windows run as *)
(* the cap allows.                                                         *)
EvictsOnlyWhenFull ==
  [][\A k \in Live \ Live' : now < buckets[k].resetAt =>
       /\ Cardinality(Live) = MaxBuckets
       /\ \A j \in Live : now < buckets[j].resetAt]_vars
=============================================================================
