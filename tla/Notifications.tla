---------------------------- MODULE Notifications ----------------------------
(***************************************************************************)
(* Push notifications: the devices collection, the requests that register  *)
(* and unregister push tokens, and notify with its delivery check.         *)
(*                                                                         *)
(* notify reads the devices, hands the push to Expo, prunes what Expo      *)
(* reports as gone and leaves a timer that asks for the receipts much      *)
(* later and prunes again.  Device requests are handled between any two of *)
(* these steps.  Of any user, for any token, in any order: a request can   *)
(* be late, repeated or lost on its way.  The timer dies with the process. *)
(***************************************************************************)
EXTENDS Naturals, Sequences, FiniteSets

CONSTANTS
  Users,
  Tokens,        \* push tokens, one per app installation
  ExpoTokens,    \* those isExpoPushToken accepts
  Jobs,          \* slots for notifications on their way
  None

ASSUME TokensAssumption == ExpoTokens \subseteq Tokens
ASSUME NoUserAssumption == None \notin Users

VARIABLES
  rows,          \* the devices collection
  installed,     \* the tokens Expo can reach
  job,           \* each notification: what it has read and where it stands
  last           \* history: who registered a token last and did not log out since

vars == <<rows, installed, job, last>>

Device  == [token : Tokens, user : Users]

(* to are the tokens read, in the order of the messages; dead what will be *)
(* deleted; tickets the tokens whose receipts will be asked for.  judged   *)
(* and touched are history: what Expo reported as gone, and the tokens a   *)
(* device request was handled for since the report, or since the start.    *)
Steps == {"push", "prune", "timer", "drop", "done"}
Job   == [pc : Steps, user : Users, to : Seq(Tokens), dead : SUBSET Tokens,
          tickets : SUBSET Tokens, judged : SUBSET Tokens, touched : SUBSET Tokens]
Idle  == [pc |-> "idle"]

Busy(j) == job[j].pc \notin {"idle", "done"}
Goto(j, q) == job' = [job EXCEPT ![j] = q]

DevicesOf(u) == {r.token : r \in {d \in rows : d.user = u}}

(* Rows from before tokens were validated may hold anything.               *)
Init ==
  /\ \E R \in SUBSET [token : Tokens \ ExpoTokens, user : Users] :
       /\ \A d, e \in R : d.token = e.token => d = e
       /\ rows = R
       /\ last = [t \in Tokens |-> IF \E d \in R : d.token = t
                                   THEN (CHOOSE d \in R : d.token = t).user
                                   ELSE None]
  /\ installed = Tokens
  /\ job = [j \in Jobs |-> Idle]

-----------------------------------------------------------------------------
(* Apps come and go: Expo learns of it on its own.                         *)
Uninstall(t) ==
  /\ t \in installed
  /\ installed' = installed \ {t}
  /\ UNCHANGED <<rows, job, last>>

Reinstall(t) ==
  /\ t \notin installed
  /\ installed' = installed \cup {t}
  /\ UNCHANGED <<rows, job, last>>

Touched(t) == [j \in Jobs |-> IF job[j] = Idle THEN Idle
                              ELSE [job[j] EXCEPT !.touched = @ \cup {t}]]

(* The upsert is keyed by the token alone, so that a token has one user.   *)
(* Defect: keyed by token and user.                                        *)
UpsertedBoth(t, u) == rows \cup {[token |-> t, user |-> u]}
Upserted(t, u) == {d \in rows : d.token # t} \cup {[token |-> t, user |-> u]}

(* Only an Expo token gets this far.                                       *)
RegisterDevice(t, u) ==
  /\ t \in ExpoTokens
  /\ rows' = Upserted(t, u)
  /\ last' = [last EXCEPT ![t] = u]
  /\ job' = Touched(t)
  /\ UNCHANGED installed

(* Defect: deleted by the token alone.                                     *)
RemovedAnyones(t, u) == {d \in rows : d.token # t}
Removed(t, u) == rows \ {[token |-> t, user |-> u]}

UnregisterDevice(t, u) ==
  /\ rows' = Removed(t, u)
  /\ last' = [last EXCEPT ![t] = IF @ = u THEN None ELSE @]
  /\ job' = Touched(t)
  /\ UNCHANGED installed

-----------------------------------------------------------------------------
(* notify: find the devices; a user without one ends it.                   *)
InAnyOrder(S) ==
  {s \in [1..Cardinality(S) -> S] : \A i, k \in DOMAIN s : s[i] = s[k] => i = k}

Notify(j, u) ==
  /\ ~Busy(j)
  /\ DevicesOf(u) # {}
  /\ \E s \in InAnyOrder(DevicesOf(u)) :
       Goto(j, [pc |-> "push", user |-> u, to |-> s, dead |-> {}, tickets |-> {},
                judged |-> {}, touched |-> {}])
  /\ UNCHANGED <<rows, installed, last>>

(* send: messages to other than Expo tokens are skipped; the tickets come  *)
(* back in the order of the rest.  A chunk Expo rejects is an error for    *)
(* each of its messages.                                                   *)
(* Defect: the tickets are matched with all the messages.                  *)
Valid(s) == SelectSeq(s, LAMBDA t : t \in ExpoTokens)

TicketedAll(s, answers, outcome) == {s[i] : i \in {k \in DOMAIN answers : answers[k] = outcome}}
Ticketed(s, answers, outcome) ==
  {Valid(s)[i] : i \in {k \in DOMAIN answers : answers[k] = outcome}}

Push(j) ==
  LET q == job[j]
      v == Valid(q.to)
  IN
  /\ q.pc = "push"
  /\ \E answers \in [1..Len(v) -> {"ok", "gone", "error"}] :
       /\ \A i \in 1..Len(v) : answers[i] = "gone" => v[i] \notin installed
       /\ Goto(j, [q EXCEPT !.pc      = "prune",
                            !.to      = <<>>,
                            !.dead    = Ticketed(q.to, answers, "gone"),
                            !.tickets = Ticketed(q.to, answers, "ok"),
                            !.judged  = {v[i] : i \in {k \in 1..Len(v) : answers[k] = "gone"}},
                            !.touched = {}])
  /\ UNCHANGED <<rows, installed, last>>

Without(dead) == {d \in rows : d.token \notin dead}

Prune(j) ==
  LET q == job[j] IN
  /\ q.pc = "prune"
  /\ rows' = Without(q.dead)
  /\ Goto(j, [q EXCEPT !.pc = IF q.tickets = {} THEN "done" ELSE "timer",
                       !.dead = {}])
  /\ UNCHANGED <<installed, last>>

(* The timer fires: the receipts that can be had, each ok or an error.     *)
FetchReceipts(j) ==
  LET q == job[j] IN
  /\ q.pc = "timer"
  /\ \E gone \in SUBSET (q.tickets \ installed) :
       Goto(j, [q EXCEPT !.pc = "drop", !.dead = gone, !.tickets = {},
                         !.judged = gone, !.touched = {}])
  /\ UNCHANGED <<rows, installed, last>>

Drop(j) ==
  /\ job[j].pc = "drop"
  /\ rows' = Without(job[j].dead)
  /\ Goto(j, [job[j] EXCEPT !.pc = "done", !.dead = {}])
  /\ UNCHANGED <<installed, last>>

(* A database error is caught and logged: the notification ends, and with  *)
(* a failed prune its receipts are never asked for.                        *)
Caught(j) ==
  /\ job[j].pc \in {"prune", "drop"}
  /\ Goto(j, Idle)
  /\ UNCHANGED <<rows, installed, last>>

Crash ==
  /\ \E j \in Jobs : Busy(j)
  /\ job' = [j \in Jobs |-> Idle]
  /\ UNCHANGED <<rows, installed, last>>

Next ==
  \/ \E t \in Tokens : \/ Uninstall(t) \/ Reinstall(t)
                       \/ \E u \in Users : RegisterDevice(t, u) \/ UnregisterDevice(t, u)
  \/ \E j \in Jobs : \/ \E u \in Users : Notify(j, u)
                     \/ Push(j) \/ Prune(j) \/ FetchReceipts(j) \/ Drop(j) \/ Caught(j)
  \/ Crash

Spec == Init /\ [][Next]_vars

-----------------------------------------------------------------------------
(* Properties.                                                             *)

(* A notification that starts after another user's login on a device was   *)
(* handled is not pushed to that device: what notify is about to push to   *)
(* belongs to its recipient, or changed hands since it read the devices.   *)
PushFollowsLogin ==
  \A j \in Jobs : job[j].pc = "push" =>
    \A i \in DOMAIN job[j].to :
      \/ last[job[j].to[i]] = job[j].user
      \/ job[j].to[i] \in job[j].touched

(* When a round of pruning is over, no token Expo reported as gone in it   *)
(* is left, unless its app registered again after the report.              *)
DeadArePruned ==
  \A j \in Jobs : job[j].pc \in {"timer", "done"} =>
    \A d \in rows : d.token \in job[j].judged => d.token \in job[j].touched

(* A user's device leaves the collection only because another user logs in *)
(* on it, because a logout of that same user arrives, or because Expo      *)
(* reported it as gone: a late logout of an earlier user, or a prune, never *)
(* takes another device away.                                              *)
NothingLostQuietly ==
  [][\A d \in rows \ rows' :
       \/ \E e \in rows' : e.token = d.token
       \/ last[d.token] = d.user /\ last'[d.token] = None
       \/ \E j \in Jobs : Busy(j) /\ d.token \in job[j].judged]_vars
=============================================================================
