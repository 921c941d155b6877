------------------------- MODULE NotificationsProofs -------------------------
(***************************************************************************)
(* Proofs about Notifications, for any users, tokens and notifications.    *)
(***************************************************************************)
EXTENDS Notifications, TLAPS

Fields == {"pc", "user", "to", "dead", "tickets", "judged", "touched"}

Shape ==
  /\ rows \subseteq Device
  /\ DOMAIN last = Tokens
  /\ DOMAIN job = Jobs
  /\ \A j \in Jobs : job[j] = Idle \/ (DOMAIN job[j] = Fields /\ job[j].pc \in Steps
                                         /\ job[j] = [f \in Fields |-> job[j][f]])

(* A device belongs to the user who logged in on it last.                  *)
RowsFollowLogin ==
  \A d \in rows : last[d.token] = d.user

(* What will be deleted is what Expo reported as gone, and what is about   *)
(* to be pushed to are tokens.                                             *)
DeadWereJudged ==
  \A j \in Jobs : job[j].pc \in {"prune", "drop"} => job[j].dead = job[j].judged
ToTokens ==
  \A j \in Jobs : job[j].pc = "push" => \A i \in DOMAIN job[j].to : job[j].to[i] \in Tokens

Inv == /\ Shape /\ RowsFollowLogin /\ DeadWereJudged /\ ToTokens
       /\ PushFollowsLogin /\ DeadArePruned

LEMMA InvInit == Init => Inv
<1> SUFFICES ASSUME Init PROVE Inv
  OBVIOUS
<1>1. PICK R \in SUBSET [token : Tokens \ ExpoTokens, user : Users] :
        /\ \A d, e \in R : d.token = e.token => d = e
        /\ rows = R
        /\ last = [t \in Tokens |-> IF \E d \in R : d.token = t
                                    THEN (CHOOSE d \in R : d.token = t).user
                                    ELSE None]
  BY DEF Init
<1>2. job = [j \in Jobs |-> Idle]
  BY DEF Init
<1>3. Shape
  BY <1>1, <1>2 DEF Shape, Device
<1>4. RowsFollowLogin
  <2> SUFFICES ASSUME NEW d \in rows PROVE last[d.token] = d.user
    BY DEF RowsFollowLogin
  <2>1. d \in R /\ d.token \in Tokens
    BY <1>1
  <2>2. (CHOOSE e \in R : e.token = d.token) = d
    BY <2>1, <1>1
  <2> QED
    BY <2>1, <2>2, <1>1
<1>5. DeadWereJudged /\ ToTokens /\ PushFollowsLogin /\ DeadArePruned
  BY <1>2 DEF Idle, DeadWereJudged, ToTokens, PushFollowsLogin, DeadArePruned
<1> QED
  BY <1>3, <1>4, <1>5 DEF Inv

(* What a device request does to the notifications on their way.           *)
LEMMA TouchedAll ==
  ASSUME Shape, NEW t \in Tokens, job' = Touched(t), NEW j \in Jobs
  PROVE  /\ job[j] = Idle => job'[j] = Idle
         /\ job[j] # Idle =>
              /\ DOMAIN job'[j] = Fields /\ job'[j].touched = job[j].touched \cup {t}
              /\ job'[j] = [f \in Fields |-> job'[j][f]]
              /\ job'[j].pc = job[j].pc /\ job'[j].user = job[j].user /\ job'[j].to = job[j].to
              /\ job'[j].dead = job[j].dead /\ job'[j].judged = job[j].judged
  BY DEF Shape, Touched, Fields

(* A device request: the rows keep following the logins, and whatever else *)
(* changes is about the touched token.                                     *)
LEMMA DeviceStep ==
  ASSUME Inv, NEW t \in Tokens, job' = Touched(t),
         rows' \subseteq Device, DOMAIN last' = Tokens, RowsFollowLogin',
         \A x \in Tokens \ {t} : last'[x] = last[x],
         \A d \in rows' : d.token # t => d \in rows
  PROVE  Inv'
<1>0. Shape
  BY DEF Inv
<1>1. Shape'
  BY <1>0, TouchedAll DEF Shape, Touched
<1>7. ASSUME NEW j \in Jobs, job'[j].pc # "idle"
      PROVE  /\ job[j] # Idle /\ job'[j].touched = job[j].touched \cup {t}
             /\ job'[j].pc = job[j].pc /\ job'[j].user = job[j].user /\ job'[j].to = job[j].to
             /\ job'[j].dead = job[j].dead /\ job'[j].judged = job[j].judged
  <2>1. job[j] = Idle => job'[j] = Idle
    BY <1>0, TouchedAll
  <2>2. job[j] # Idle
    BY <2>1, <1>7 DEF Idle
  <2> QED
    BY <1>0, <2>2, TouchedAll
<1>2. DeadWereJudged' /\ ToTokens'
  BY <1>7 DEF Inv, DeadWereJudged, ToTokens
<1>3. PushFollowsLogin'
  <2> SUFFICES ASSUME NEW j \in Jobs, job'[j].pc = "push", NEW i \in DOMAIN job'[j].to
               PROVE  last'[job'[j].to[i]] = job'[j].user \/ job'[j].to[i] \in job'[j].touched
    BY DEF PushFollowsLogin
  <2>1. job[j] # Idle /\ job[j].pc = "push" /\ job'[j].to = job[j].to
        /\ job'[j].user = job[j].user /\ job'[j].touched = job[j].touched \cup {t}
    BY <1>7
  <2>2. job[j].to[i] \in Tokens
    BY <2>1 DEF Inv, ToTokens
  <2> QED
    BY <2>1, <2>2 DEF Inv, PushFollowsLogin
<1>4. DeadArePruned'
  <2> SUFFICES ASSUME NEW j \in Jobs, job'[j].pc \in {"timer", "done"}, NEW d \in rows',
                      d.token \in job'[j].judged
               PROVE  d.token \in job'[j].touched
    BY DEF DeadArePruned
  <2>1. job[j] # Idle /\ job[j].pc \in {"timer", "done"} /\ job'[j].judged = job[j].judged
        /\ job'[j].touched = job[j].touched \cup {t}
    BY <1>7
  <2> QED
    BY <2>1 DEF Inv, DeadArePruned
<1> QED
  BY <1>1, <1>2, <1>3, <1>4 DEF Inv

LEMMA RegisterStep ==
  ASSUME Inv, NEW t \in Tokens, NEW u \in Users, RegisterDevice(t, u)
  PROVE  Inv'
<1>1. /\ rows' = {d \in rows : d.token # t} \cup {[token |-> t, user |-> u]}
      /\ last' = [last EXCEPT ![t] = u] /\ job' = Touched(t)
      /\ rows \subseteq Device /\ DOMAIN last = Tokens
  BY DEF RegisterDevice, Upserted, Inv, Shape
<1>2. rows' \subseteq Device /\ DOMAIN last' = Tokens
  BY <1>1 DEF Device
<1>3. RowsFollowLogin'
  BY <1>1 DEF Inv, RowsFollowLogin, Device
<1> QED
  BY <1>1, <1>2, <1>3, DeviceStep

LEMMA UnregisterStep ==
  ASSUME Inv, NEW t \in Tokens, NEW u \in Users, UnregisterDevice(t, u)
  PROVE  Inv'
<1>1. /\ rows' = rows \ {[token |-> t, user |-> u]}
      /\ last' = [last EXCEPT ![t] = IF @ = u THEN None ELSE @] /\ job' = Touched(t)
      /\ rows \subseteq Device /\ DOMAIN last = Tokens
  BY DEF UnregisterDevice, Removed, Inv, Shape
<1>2. RowsFollowLogin'
  <2> SUFFICES ASSUME NEW d \in rows' PROVE last'[d.token] = d.user
    BY DEF RowsFollowLogin
  <2>1. d \in rows /\ d \in Device /\ last[d.token] = d.user
    BY <1>1 DEF Inv, RowsFollowLogin
  <2>2. d.token = t => d.user # u
    BY <2>1, <1>1 DEF Device
  <2> QED
    BY <2>1, <2>2, <1>1 DEF Device
<1> QED
  BY <1>1, <1>2, DeviceStep

(* One notification moves; rows may go, logins stay.                       *)
LEMMA JobStep ==
  ASSUME Inv, NEW j \in Jobs, job' = [job EXCEPT ![j] = job'[j]], UNCHANGED last,
         rows' \subseteq rows,
         \/ job'[j] = Idle
         \/ /\ DOMAIN job'[j] = Fields /\ job'[j].pc \in Steps
            /\ job'[j] = [f \in Fields |-> job'[j][f]],
         job'[j].pc \in {"prune", "drop"} => job'[j].dead = job'[j].judged,
         job'[j].pc = "push" => \A i \in DOMAIN job'[j].to :
           job'[j].to[i] \in Tokens /\ last[job'[j].to[i]] = job'[j].user,
         job'[j].pc \in {"timer", "done"} => \A d \in rows' :
           d.token \in job'[j].judged => d.token \in job'[j].touched
  PROVE  Inv'
<1>1. \A k \in Jobs \ {j} : job'[k] = job[k]
  BY DEF Inv, Shape
<1>2. Shape'
  BY <1>1 DEF Inv, Shape
<1>3. RowsFollowLogin'
  BY DEF Inv, RowsFollowLogin
<1>4. DeadWereJudged' /\ ToTokens'
  BY <1>1 DEF Inv, DeadWereJudged, ToTokens
<1>5. PushFollowsLogin'
  BY <1>1 DEF Inv, PushFollowsLogin
<1>6. DeadArePruned'
  BY <1>1 DEF Inv, DeadArePruned
<1> QED
  BY <1>2, <1>3, <1>4, <1>5, <1>6 DEF Inv

LEMMA NotifyStep ==
  ASSUME Inv, NEW j \in Jobs, NEW u \in Users, Notify(j, u)
  PROVE  Inv'
<1>1. PICK s \in InAnyOrder(DevicesOf(u)) :
        job' = [job EXCEPT ![j] = [pc |-> "push", user |-> u, to |-> s, dead |-> {},
                                   tickets |-> {}, judged |-> {}, touched |-> {}]]
  BY DEF Notify, Goto
<1> DEFINE q == [pc |-> "push", user |-> u, to |-> s, dead |-> {}, tickets |-> {},
                 judged |-> {}, touched |-> {}]
<1>2. DOMAIN q = Fields /\ q = [f \in Fields |-> q[f]]
  BY DEF Fields
<1>3. q.pc = "push" /\ q.user = u /\ q.to = s
  OBVIOUS
<1> HIDE DEF q
<1>4. job'[j] = q /\ job' = [job EXCEPT ![j] = q]
  BY <1>1 DEF q, Inv, Shape
<1>5. ASSUME NEW i \in DOMAIN s PROVE s[i] \in Tokens /\ last[s[i]] = u
  <2>1. s[i] \in DevicesOf(u)
    BY DEF InAnyOrder
  <2>2. PICK d \in rows : d.token = s[i] /\ d.user = u
    BY <2>1 DEF DevicesOf
  <2> QED
    BY <2>2 DEF Inv, Shape, Device, RowsFollowLogin
<1>6. UNCHANGED <<rows, last>>
  BY DEF Notify
<1> QED
  BY <1>2, <1>3, <1>4, <1>5, <1>6, JobStep DEF Steps

LEMMA PushStep ==
  ASSUME Inv, NEW j \in Jobs, Push(j)
  PROVE  Inv'
<1>1. job[j].pc = "push" /\ DOMAIN job[j] = Fields /\ UNCHANGED <<rows, last>>
  BY DEF Push, Inv, Shape, Idle
<1> DEFINE v == Valid(job[j].to)
<1>2. PICK answers \in [1..Len(v) -> {"ok", "gone", "error"}] :
        job' = [job EXCEPT ![j] =
                 [job[j] EXCEPT !.pc      = "prune",
                                !.to      = <<>>,
                                !.dead    = Ticketed(job[j].to, answers, "gone"),
                                !.tickets = Ticketed(job[j].to, answers, "ok"),
                                !.judged  = {v[i] : i \in {k \in 1..Len(v) : answers[k] = "gone"}},
                                !.touched = {}]]
  BY DEF Push, Goto
<1> DEFINE gone == {v[i] : i \in {k \in 1..Len(v) : answers[k] = "gone"}}
           ok   == Ticketed(job[j].to, answers, "ok")
           q    == [job[j] EXCEPT !.pc = "prune", !.to = <<>>, !.dead = gone, !.tickets = ok,
                                  !.judged = gone, !.touched = {}]
<1>3. Ticketed(job[j].to, answers, "gone") = gone
  BY DEF Ticketed
<1> HIDE DEF gone, ok, v
<1>4. /\ DOMAIN q = Fields /\ q.pc = "prune" /\ q.dead = q.judged
      /\ q = [f \in Fields |-> q[f]]
  BY <1>1 DEF Fields
<1>5. job' = [job EXCEPT ![j] = q]
  BY <1>2, <1>3 DEF gone, ok
<1> HIDE DEF q
<1>6. job'[j] = q
  BY <1>5 DEF Inv, Shape
<1> QED
  BY <1>1, <1>4, <1>5, <1>6, JobStep DEF Steps

LEMMA PruneStep ==
  ASSUME Inv, NEW j \in Jobs, Prune(j) \/ Drop(j)
  PROVE  Inv'
<1>1. /\ job[j].pc \in {"prune", "drop"} /\ DOMAIN job[j] = Fields
      /\ rows' = Without(job[j].dead) /\ UNCHANGED last
  BY DEF Prune, Drop, Inv, Shape, Idle
<1>2. PICK pc \in {"timer", "done"} : job' = [job EXCEPT ![j] = [job[j] EXCEPT !.pc = pc, !.dead = {}]]
  BY DEF Prune, Drop, Goto
<1> DEFINE q == [job[j] EXCEPT !.pc = pc, !.dead = {}]
<1>3. /\ DOMAIN q = Fields /\ q.pc = pc /\ q.judged = job[j].judged
      /\ q = [f \in Fields |-> q[f]]
  BY <1>1 DEF Fields
<1> HIDE DEF q
<1>4. job'[j] = q /\ job' = [job EXCEPT ![j] = q]
  BY <1>2 DEF q, Inv, Shape
<1>5. rows' \subseteq rows /\ \A d \in rows' : d.token \notin q.judged
  BY <1>1, <1>3 DEF Without, Inv, DeadWereJudged
<1> QED
  BY <1>1, <1>3, <1>4, <1>5, JobStep DEF Steps

LEMMA ReceiptStep ==
  ASSUME Inv, NEW j \in Jobs, FetchReceipts(j)
  PROVE  Inv'
<1>1. job[j].pc = "timer" /\ DOMAIN job[j] = Fields /\ UNCHANGED <<rows, last>>
  BY DEF FetchReceipts, Inv, Shape, Idle
<1>2. PICK gone \in SUBSET (job[j].tickets \ installed) :
        job' = [job EXCEPT ![j] = [job[j] EXCEPT !.pc = "drop", !.dead = gone, !.tickets = {},
                                                 !.judged = gone, !.touched = {}]]
  BY DEF FetchReceipts, Goto
<1> DEFINE q == [job[j] EXCEPT !.pc = "drop", !.dead = gone, !.tickets = {},
                               !.judged = gone, !.touched = {}]
<1>3. /\ DOMAIN q = Fields /\ q.pc = "drop" /\ q.dead = q.judged
      /\ q = [f \in Fields |-> q[f]]
  BY <1>1 DEF Fields
<1> HIDE DEF q
<1>4. job'[j] = q /\ job' = [job EXCEPT ![j] = q]
  BY <1>2 DEF q, Inv, Shape
<1> QED
  BY <1>1, <1>3, <1>4, JobStep DEF Steps

LEMMA CaughtStep ==
  ASSUME Inv, NEW j \in Jobs, Caught(j)
  PROVE  Inv'
<1>1. job' = [job EXCEPT ![j] = Idle] /\ job'[j] = Idle /\ UNCHANGED <<rows, last>>
  BY DEF Caught, Goto, Inv, Shape
<1>2. Idle.pc = "idle"
  BY DEF Idle
<1>3. job'[j].pc \notin {"push", "prune", "drop", "timer", "done"}
  BY <1>1, <1>2
<1>4. job' = [job EXCEPT ![j] = job'[j]]
  BY <1>1
<1> QED
  BY <1>1, <1>3, <1>4, JobStep

LEMMA InvStep == Inv /\ [Next]_vars => Inv'
<1> SUFFICES ASSUME Inv, [Next]_vars PROVE Inv'
  OBVIOUS
<1>1. CASE UNCHANGED vars
  BY <1>1 DEF vars, Inv, Shape, RowsFollowLogin, DeadWereJudged, ToTokens, PushFollowsLogin,
              DeadArePruned
<1>2. ASSUME NEW t \in Tokens, Uninstall(t) \/ Reinstall(t) PROVE Inv'
  BY <1>2 DEF Uninstall, Reinstall, Inv, Shape, RowsFollowLogin, DeadWereJudged, ToTokens,
              PushFollowsLogin, DeadArePruned
<1>3. CASE Crash
  <2>1. job' = [j \in Jobs |-> Idle] /\ UNCHANGED <<rows, last>>
    BY <1>3 DEF Crash
  <2> QED
    BY <2>1 DEF Idle, Inv, Shape, RowsFollowLogin, DeadWereJudged, ToTokens, PushFollowsLogin,
                DeadArePruned
<1> QED
  <2>1. ASSUME NEW t \in Tokens, NEW u \in Users, RegisterDevice(t, u) \/ UnregisterDevice(t, u)
        PROVE  Inv'
    BY <2>1, RegisterStep, UnregisterStep
  <2>2. ASSUME NEW j \in Jobs, NEW u \in Users, Notify(j, u) PROVE Inv'
    BY <2>2, NotifyStep
  <2>3. ASSUME NEW j \in Jobs,
               Push(j) \/ Prune(j) \/ FetchReceipts(j) \/ Drop(j) \/ Caught(j)
        PROVE  Inv'
    BY <2>3, PushStep, PruneStep, ReceiptStep, CaughtStep
  <2> QED
    BY <1>1, <1>2, <1>3, <2>1, <2>2, <2>3 DEF Next

(* A notification that starts after another user's login on a device is    *)
(* not pushed to that device.                                              *)
THEOREM PushesFollowLogin == Spec => []PushFollowsLogin
<1>1. Inv => PushFollowsLogin
  BY DEF Inv
<1> QED
  BY InvInit, InvStep, <1>1, PTL DEF Spec

(* A finished round of pruning leaves none of the tokens Expo reported.    *)
THEOREM GoneArePruned == Spec => []DeadArePruned
<1>1. Inv => DeadArePruned
  BY DEF Inv
<1> QED
  BY InvInit, InvStep, <1>1, PTL DEF Spec

(* A device leaves the collection for one of three reasons only.           *)
THEOREM NothingIsLostQuietly == Spec => NothingLostQuietly
<1> DEFINE Accounted ==
      \A d \in rows \ rows' :
        \/ \E e \in rows' : e.token = d.token
        \/ last[d.token] = d.user /\ last'[d.token] = None
        \/ \E j \in Jobs : Busy(j) /\ d.token \in job[j].judged
<1>1. Inv /\ [Next]_vars => [Accounted]_vars
  <2> SUFFICES ASSUME Inv, [Next]_vars, NEW d \in rows, d \notin rows'
               PROVE  \/ \E e \in rows' : e.token = d.token
                      \/ last[d.token] = d.user /\ last'[d.token] = None
                      \/ \E j \in Jobs : Busy(j) /\ d.token \in job[j].judged
    BY Zenon
  <2>1. d \in Device /\ last[d.token] = d.user /\ DOMAIN last = Tokens
    BY DEF Inv, Shape, RowsFollowLogin
  <2>2. ASSUME NEW t \in Tokens, NEW u \in Users, RegisterDevice(t, u)
        PROVE  \E e \in rows' : e.token = d.token
    <3>1. d.token = t /\ [token |-> t, user |-> u] \in rows'
      BY <2>2 DEF RegisterDevice, Upserted
    <3> QED
      BY <3>1
  <2>3. ASSUME NEW t \in Tokens, NEW u \in Users, UnregisterDevice(t, u)
        PROVE  last[d.token] = d.user /\ last'[d.token] = None
    <3>1. d = [token |-> t, user |-> u] /\ last' = [last EXCEPT ![t] = IF @ = u THEN None ELSE @]
      BY <2>3 DEF UnregisterDevice, Removed
    <3> QED
      BY <3>1, <2>1
  <2>4. ASSUME NEW j \in Jobs, Prune(j) \/ Drop(j)
        PROVE  Busy(j) /\ d.token \in job[j].judged
    <3>1. job[j].pc \in {"prune", "drop"} /\ rows' = Without(job[j].dead)
      BY <2>4 DEF Prune, Drop
    <3>2. job[j].dead = job[j].judged
      BY <3>1 DEF Inv, DeadWereJudged
    <3> QED
      BY <3>1, <3>2 DEF Without, Busy
  <2> QED
    BY <2>2, <2>3, <2>4 DEF Next, vars, Uninstall, Reinstall, Notify, Push, FetchReceipts,
       Caught, Crash
<1> QED
  BY InvInit, InvStep, <1>1, PTL DEF Spec, NothingLostQuietly
=============================================================================
