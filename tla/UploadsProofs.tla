---------------------------- MODULE UploadsProofs ----------------------------
(***************************************************************************)
(* Proofs about Uploads, for any images, messages and requests.            *)
(***************************************************************************)
EXTENDS Uploads, TLAPS

(* A running unsend, and what is always the shape of the state.            *)
Running == [pc : {"mark", "preview", "delete"}, of : Msgs, doomed : SUBSET Images]

Shape ==
  /\ image \in [Images -> ImageState]
  /\ DOMAIN msg = Msgs
  /\ named \in [Msgs -> SUBSET Images]
  /\ unsend \in [Unsends -> Running \cup {Idle}]

(* What the server finds in a message that can be read is what it was sent *)
(* with; one that was never sent has none.                                 *)
Named ==
  \A m \in Msgs : /\ msg[m].state = "live" => ImageIds(msg[m].files) = named[m]
                  /\ msg[m].state = "none" => named[m] = {}

(* An unsend holds all images of its message until it deletes them, and it *)
(* deletes only when the message cannot be read any more.                  *)
Held ==
  \A u \in Unsends : unsend[u] # Idle =>
    LET q == unsend[u] IN
    /\ msg[q.of].state # "none"
    /\ q.doomed \subseteq named[q.of]
    /\ q.pc # "delete" => q.doomed = named[q.of]
    /\ q.pc # "mark" => msg[q.of].state # "live"

(* What was deleted belonged to a message that cannot be read any more.    *)
Deserved ==
  \A i \in Images : image[i] = "deleted" =>
    \E n \in Msgs : i \in named[n] /\ msg[n].state \notin {"live", "none"}

Inv == Shape /\ Named /\ Held /\ Deserved /\ UnsentImagesGo

(* An attachment that was sent has a key, whatever its URL.                *)
LEMMA SentIds ==
  ASSUME NEW A \in SUBSET Attachment
  PROVE  ImageIds(A) = {a.key : a \in A} \cap Images
<1>1. \A a \in A : a.key # None
  BY NoImageAssumption DEF Attachment
<1> QED
  BY <1>1 DEF ImageIds

(* The same for a row from before attachments had a key.                   *)
LEMMA LegacyIds ==
  ASSUME NEW i \in Images
  PROVE  ImageIds({[key |-> None, url |-> Delivery(i)]}) = {i}
  BY DEF ImageIds, Delivery

LEMMA InvInit == Init => Inv
<1> SUFFICES ASSUME Init PROVE Inv
  OBVIOUS
<1>1. PICK f \in [Legacy -> Images] :
        /\ image = [i \in Images |-> IF \E m \in Legacy : f[m] = i THEN "stored" ELSE "unused"]
        /\ msg = [m \in Msgs |-> IF m \in Legacy
                                 THEN [state |-> "live", files |-> {[key |-> None, url |-> Delivery(f[m])]}]
                                 ELSE [state |-> "none", files |-> {}]]
        /\ named = [m \in Msgs |-> IF m \in Legacy THEN {f[m]} ELSE {}]
  BY DEF Init
<1>2. unsend = [u \in Unsends |-> Idle]
  BY DEF Init
<1>3. Shape
  BY <1>1, <1>2 DEF Shape, ImageState
<1>4. Named
  BY <1>1, LegacyIds DEF Named
<1>5. Held
  BY <1>2 DEF Held
<1>6. Deserved /\ UnsentImagesGo
  BY <1>1 DEF Deserved, UnsentImagesGo
<1> QED
  BY <1>3, <1>4, <1>5, <1>6 DEF Inv

(* Images are minted, uploaded and expire; a deleted or expired one stays  *)
(* what it is.                                                             *)
LEMMA ImageStep ==
  ASSUME Inv, NEW i \in Images, NEW s \in ImageState \ {"deleted"},
         image[i] \in {"unused", "draft"},
         image' = [image EXCEPT ![i] = s], UNCHANGED <<msg, unsend, named, spared>>
  PROVE  Inv'
<1>1. Shape'
  BY DEF Inv, Shape
<1>2. Named' /\ Held'
  BY DEF Inv, Named, Held
<1>3. \A k \in Images : /\ image[k] \in {"deleted", "expired"} => image'[k] = image[k]
                        /\ image'[k] = "deleted" => image[k] = "deleted"
  BY DEF Inv, Shape
<1>4. Deserved'
  BY <1>3 DEF Inv, Deserved
<1>5. UnsentImagesGo'
  BY <1>3 DEF Inv, UnsentImagesGo, Shape
<1> QED
  BY <1>1, <1>2, <1>4, <1>5 DEF Inv

(* A message is sent.                                                      *)
LEMMA SendStep ==
  ASSUME Inv, NEW m \in Msgs, NEW A \in SUBSET Attachment, SendImages(m, A)
  PROVE  Inv'
<1> DEFINE I == {a.key : a \in A} \cap Images
<1>1. /\ msg[m].state = "none" /\ DOMAIN msg = Msgs /\ named \in [Msgs -> SUBSET Images]
      /\ msg' = [msg EXCEPT ![m] = [state |-> "live", files |-> A]]
      /\ named' = [named EXCEPT ![m] = I]
      /\ UNCHANGED <<image, unsend, spared>>
  BY DEF SendImages, Inv, Shape
<1>9. ImageIds(A) = I /\ I \subseteq Images
  BY SentIds
<1> HIDE DEF I
<1>2. \A n \in Msgs \ {m} : msg'[n] = msg[n] /\ named'[n] = named[n]
  BY <1>1
<1>3. msg'[m] = [state |-> "live", files |-> A] /\ named'[m] = I
  BY <1>1
<1>4. Shape'
  BY <1>1, <1>9 DEF Inv, Shape
<1>5. Named'
  BY <1>2, <1>3, <1>9 DEF Inv, Named
<1>6. Held'
  <2> SUFFICES ASSUME NEW u \in Unsends, unsend[u] # Idle
               PROVE  unsend[u].of \in Msgs \ {m}
    BY <1>1, <1>2 DEF Inv, Held
  <2> QED
    BY <1>1 DEF Inv, Held, Shape, Running
<1>7. Deserved'
  <2> SUFFICES ASSUME NEW i \in Images, image[i] = "deleted"
               PROVE  \E n \in Msgs : i \in named'[n] /\ msg'[n].state \notin {"live", "none"}
    BY <1>1 DEF Deserved
  <2>1. PICK n \in Msgs : i \in named[n] /\ msg[n].state \notin {"live", "none"}
    BY DEF Inv, Deserved
  <2> QED
    BY <2>1, <1>1, <1>2
<1>8. UnsentImagesGo'
  BY <1>1, <1>2, <1>3 DEF Inv, UnsentImagesGo
<1> QED
  BY <1>4, <1>5, <1>6, <1>7, <1>8 DEF Inv

(* A message goes; nothing it named has to be removed for that.          *)
LEMMA VanishStep ==
  ASSUME Inv, NEW m \in Msgs, Vanish(m)
  PROVE  Inv'
<1>1. /\ msg' = [msg EXCEPT ![m] = [state |-> "gone", files |-> {}]] /\ DOMAIN msg = Msgs
      /\ msg[m].state \in {"live", "unsent"}
      /\ UNCHANGED <<image, unsend, named, spared>>
  BY DEF Vanish, Inv, Shape
<1>2. \A n \in Msgs : /\ msg'[n].state \in {msg[n].state, "gone"}
                      /\ msg[n].state \in {"gone", "unsent"} => msg'[n].state # "live"
                      /\ msg'[n].state # "gone" => msg'[n] = msg[n]
  BY <1>1
<1>3. Shape'
  BY <1>1 DEF Inv, Shape
<1>4. Named'
  BY <1>1, <1>2 DEF Inv, Named
<1>5. Held'
  <2> SUFFICES ASSUME NEW u \in Unsends, unsend[u] # Idle
               PROVE  /\ msg'[unsend[u].of].state # "none"
                      /\ unsend[u].pc # "mark" => msg'[unsend[u].of].state # "live"
    BY <1>1 DEF Inv, Held
  <2>1. unsend[u].of \in Msgs
    BY DEF Inv, Shape, Running
  <2> QED
    BY <2>1, <1>2 DEF Inv, Held
<1>6. Deserved'
  <2> SUFFICES ASSUME NEW i \in Images, image[i] = "deleted"
               PROVE  \E n \in Msgs : i \in named[n] /\ msg'[n].state \notin {"live", "none"}
    BY <1>1 DEF Deserved
  <2>1. PICK n \in Msgs : i \in named[n] /\ msg[n].state \notin {"live", "none"}
    BY DEF Inv, Deserved
  <2> QED
    BY <2>1, <1>2
<1>7. UnsentImagesGo'
  BY <1>1, <1>2 DEF Inv, UnsentImagesGo
<1> QED
  BY <1>3, <1>4, <1>5, <1>6, <1>7 DEF Inv

(* An unsend that only moves on, keeping its message and its images.       *)
LEMMA MoveStep ==
  ASSUME Inv, NEW u \in Unsends, NEW q \in Running,
         unsend' = [unsend EXCEPT ![u] = q], UNCHANGED <<image, msg, named, spared>>,
         msg[q.of].state # "none", q.doomed \subseteq named[q.of],
         q.pc # "delete" => q.doomed = named[q.of],
         q.pc # "mark" => msg[q.of].state # "live",
         unsend[u] # Idle => unsend[u].of = q.of /\ unsend[u].doomed = q.doomed
  PROVE  Inv'
<1>1. unsend \in [Unsends -> Running \cup {Idle}] /\ q # Idle
  BY DEF Inv, Shape, Running, Idle
<1>2. unsend'[u] = q /\ \A v \in Unsends \ {u} : unsend'[v] = unsend[v]
  BY <1>1
<1>3. Shape'
  BY <1>1 DEF Inv, Shape
<1>4. Named' /\ Deserved'
  BY DEF Inv, Named, Deserved
<1>5. Held'
  BY <1>2 DEF Inv, Held
<1>6. UnsentImagesGo'
  <2> SUFFICES ASSUME NEW m \in Msgs, msg[m].state = "unsent", NEW i \in named[m],
                      image[i] \notin {"deleted", "expired"}, i \notin spared
               PROVE  \E v \in Unsends : unsend'[v] # Idle /\ unsend'[v].of = m
                                           /\ i \in unsend'[v].doomed
    BY DEF UnsentImagesGo
  <2>1. PICK v \in Unsends : unsend[v] # Idle /\ unsend[v].of = m /\ i \in unsend[v].doomed
    BY DEF Inv, UnsentImagesGo
  <2> QED
    BY <2>1, <1>1, <1>2
<1> QED
  BY <1>3, <1>4, <1>5, <1>6 DEF Inv

LEMMA BeginStep ==
  ASSUME Inv, NEW u \in Unsends, NEW m \in Msgs, DeleteMessage(u, m)
  PROVE  Inv'
<1> DEFINE q == [pc |-> After("load"), of |-> m, doomed |-> Doomed(m)]
<1>1. After("load") = "mark"
  BY DEF After
<1>2. Doomed(m) = named[m] /\ named[m] \subseteq Images
  BY DEF Inv, Shape, Named, Doomed, DeleteMessage
<1>3. q \in Running /\ q.pc = "mark" /\ q.of = m /\ q.doomed = named[m]
  BY <1>1, <1>2 DEF Running
<1>4. /\ unsend' = [unsend EXCEPT ![u] = q] /\ unsend[u] = Idle /\ msg[m].state = "live"
      /\ UNCHANGED <<image, msg, named, spared>>
  BY DEF DeleteMessage
<1> HIDE DEF q
<1> QED
  BY <1>3, <1>4, MoveStep

LEMMA PreviewStep ==
  ASSUME Inv, NEW u \in Unsends, Preview(u)
  PROVE  Inv'
<1>1. unsend[u].pc = "preview" /\ unsend[u] \in Running /\ unsend[u] # Idle
  BY DEF Preview, Inv, Shape, Running, Idle
<1> DEFINE q == [unsend[u] EXCEPT !.pc = "delete"]
<1>2. /\ q \in Running /\ q.pc = "delete" /\ q.of = unsend[u].of
      /\ q.doomed = unsend[u].doomed
  BY <1>1 DEF Running
<1>3. After("preview") = "delete"
  BY DEF After
<1>4. unsend' = [unsend EXCEPT ![u] = q] /\ UNCHANGED <<image, msg, named, spared>>
  BY <1>1, <1>3 DEF Preview
<1>5. /\ msg[q.of].state # "none" /\ q.doomed \subseteq named[q.of]
      /\ msg[q.of].state # "live"
  BY <1>1, <1>2 DEF Inv, Held
<1> HIDE DEF q
<1> QED
  BY <1>1, <1>2, <1>4, <1>5, MoveStep

(* softDelete: from here on the unsend answers for the message's images.   *)
LEMMA SoftDeleteStep ==
  ASSUME Inv, NEW u \in Unsends, SoftDelete(u)
  PROVE  Inv'
<1>1. unsend[u].pc = "mark" /\ unsend[u] \in Running /\ unsend[u] # Idle
  BY DEF SoftDelete, Inv, Shape, Running, Idle
<1> DEFINE m == unsend[u].of
           q == [unsend[u] EXCEPT !.pc = "preview"]
<1>2. m \in Msgs /\ msg[m].state # "none" /\ unsend[u].doomed = named[m]
  BY <1>1 DEF Inv, Held, Running
<1>3. /\ q \in Running /\ q.pc = "preview" /\ q.of = m /\ q.doomed = named[m] /\ q # Idle
  BY <1>1, <1>2 DEF Running, Idle
<1>4. After("mark") = "preview"
  BY DEF After
<1>5. unsend' = [unsend EXCEPT ![u] = q] /\ UNCHANGED <<image, named, spared>>
  BY <1>1, <1>4 DEF SoftDelete
<1>6. /\ msg' = [msg EXCEPT ![m] = IF @.state = "gone" THEN @
                                   ELSE [state |-> "unsent", files |-> {}]]
      /\ DOMAIN msg = Msgs
  BY DEF SoftDelete, Inv, Shape
<1> HIDE DEF m, q
<1>7. /\ \A n \in Msgs \ {m} : msg'[n] = msg[n]
      /\ msg'[m].state \in {"unsent", "gone"}
  BY <1>2, <1>6
<1>8. unsend'[u] = q /\ \A v \in Unsends \ {u} : unsend'[v] = unsend[v]
  BY <1>5 DEF Inv, Shape
<1>9. Shape'
  BY <1>3, <1>5, <1>6 DEF Inv, Shape
<1>10. Named'
  BY <1>5, <1>7 DEF Inv, Named
<1>11. Held'
  <2> SUFFICES ASSUME NEW v \in Unsends \ {u}, unsend[v] # Idle
               PROVE  /\ msg'[unsend[v].of].state # "none"
                      /\ unsend[v].pc # "mark" => msg'[unsend[v].of].state # "live"
    BY <1>3, <1>5, <1>7, <1>8 DEF Inv, Held
  <2>1. unsend[v].of \in Msgs
    BY DEF Inv, Shape, Running
  <2> QED
    BY <2>1, <1>7 DEF Inv, Held
<1>12. Deserved'
  <2> SUFFICES ASSUME NEW i \in Images, image[i] = "deleted"
               PROVE  \E n \in Msgs : i \in named[n] /\ msg'[n].state \notin {"live", "none"}
    BY <1>5 DEF Deserved
  <2>1. PICK n \in Msgs : i \in named[n] /\ msg[n].state \notin {"live", "none"}
    BY DEF Inv, Deserved
  <2> QED
    BY <2>1, <1>7
<1>13. UnsentImagesGo'
  <2> SUFFICES ASSUME NEW n \in Msgs, msg'[n].state = "unsent", NEW i \in named[n],
                      image[i] \notin {"deleted", "expired"}, i \notin spared
               PROVE  \E v \in Unsends : unsend'[v] # Idle /\ unsend'[v].of = n
                                           /\ i \in unsend'[v].doomed
    BY <1>5 DEF UnsentImagesGo
  <2>1. CASE n = m
    BY <2>1, <1>3, <1>8
  <2>2. CASE n # m
    <3>1. PICK v \in Unsends : unsend[v] # Idle /\ unsend[v].of = n /\ i \in unsend[v].doomed
      BY <2>2, <1>7 DEF Inv, UnsentImagesGo
    <3>2. v # u
      BY <2>2, <3>1 DEF m
    <3> QED
      BY <3>1, <3>2, <1>8
  <2> QED
    BY <2>1, <2>2
<1> QED
  BY <1>9, <1>10, <1>11, <1>12, <1>13 DEF Inv

(* One image is deleted, or the attempt fails.                             *)
LEMMA DeleteStep ==
  ASSUME Inv, NEW u \in Unsends, NEW i \in Images, NEW ok \in BOOLEAN, DeleteImage(u, i, ok)
  PROVE  Inv'
<1>1. unsend[u].pc = "delete" /\ unsend[u] \in Running /\ unsend[u] # Idle
  BY DEF DeleteImage, Inv, Shape, Running, Idle
<1> DEFINE q == [unsend[u] EXCEPT !.doomed = @ \ {i}]
<1>2. /\ q \in Running /\ q # Idle /\ q.pc = "delete" /\ q.of = unsend[u].of
      /\ q.doomed = unsend[u].doomed \ {i}
  BY <1>1 DEF Running, Idle
<1>3. unsend' = [unsend EXCEPT ![u] = q] /\ UNCHANGED <<msg, named>>
  BY <1>1 DEF DeleteImage
<1> HIDE DEF q
<1>4. \/ image' = [image EXCEPT ![i] = "deleted"] /\ UNCHANGED spared
      \/ spared' = spared \cup {i} /\ UNCHANGED image
  BY DEF DeleteImage
<1>5. unsend'[u] = q /\ \A v \in Unsends \ {u} : unsend'[v] = unsend[v]
  BY <1>3 DEF Inv, Shape
<1>6. /\ unsend[u].of \in Msgs /\ i \in named[unsend[u].of]
      /\ msg[unsend[u].of].state \notin {"live", "none"}
  BY <1>1 DEF DeleteImage, Inv, Held, Running
<1>7. Shape'
  BY <1>2, <1>3, <1>4 DEF Inv, Shape, ImageState
<1>8. Named'
  BY <1>3 DEF Inv, Named
<1>9. Held'
  BY <1>1, <1>2, <1>3, <1>5 DEF Inv, Held
<1>10. Deserved'
  <2> SUFFICES ASSUME NEW k \in Images, image'[k] = "deleted"
               PROVE  \E n \in Msgs : k \in named[n] /\ msg[n].state \notin {"live", "none"}
    BY <1>3 DEF Deserved
  <2>1. CASE k = i
    BY <2>1, <1>6
  <2>2. CASE k # i
    BY <2>2, <1>4 DEF Inv, Deserved, Shape
  <2> QED
    BY <2>1, <2>2
<1>11. UnsentImagesGo'
  <2> SUFFICES ASSUME NEW n \in Msgs, msg[n].state = "unsent", NEW k \in named[n],
                      image'[k] \notin {"deleted", "expired"}, k \notin spared'
               PROVE  \E v \in Unsends : unsend'[v] # Idle /\ unsend'[v].of = n
                                           /\ k \in unsend'[v].doomed
    BY <1>3 DEF UnsentImagesGo
  <2>1. k # i /\ image'[k] = image[k] /\ k \notin spared
    BY <1>4 DEF Inv, Shape
  <2>2. PICK v \in Unsends : unsend[v] # Idle /\ unsend[v].of = n /\ k \in unsend[v].doomed
    BY <2>1 DEF Inv, UnsentImagesGo
  <2> QED
    BY <2>1, <2>2, <1>2, <1>5
<1> QED
  BY <1>7, <1>8, <1>9, <1>10, <1>11 DEF Inv

(* Unsends that stop leave behind what they still held.                    *)
LEMMA StopStep ==
  ASSUME Inv, NEW U \in SUBSET Unsends,
         unsend' = [u \in Unsends |-> IF u \in U THEN Idle ELSE unsend[u]],
         UNCHANGED <<image, msg, named>>, spared \subseteq spared',
         \A u \in U : unsend[u] # Idle => unsend[u].doomed \subseteq spared'
  PROVE  Inv'
<1>1. \A u \in Unsends : unsend'[u] # Idle => u \notin U /\ unsend'[u] = unsend[u]
  OBVIOUS
<1>2. Shape'
  BY DEF Inv, Shape
<1>3. Named' /\ Deserved'
  BY DEF Inv, Named, Deserved
<1>4. Held'
  BY <1>1 DEF Inv, Held
<1>5. UnsentImagesGo'
  <2> SUFFICES ASSUME NEW n \in Msgs, msg[n].state = "unsent", NEW k \in named[n],
                      image[k] \notin {"deleted", "expired"}, k \notin spared'
               PROVE  \E v \in Unsends : unsend'[v] # Idle /\ unsend'[v].of = n
                                           /\ k \in unsend'[v].doomed
    BY DEF UnsentImagesGo
  <2>1. PICK v \in Unsends : unsend[v] # Idle /\ unsend[v].of = n /\ k \in unsend[v].doomed
    BY DEF Inv, UnsentImagesGo
  <2>2. v \notin U
    BY <2>1
  <2> QED
    BY <2>1, <2>2
<1> QED
  BY <1>2, <1>3, <1>4, <1>5 DEF Inv

(* One unsend ends: done, not configured, or by an error.                *)
LEMMA EndStep ==
  ASSUME Inv, NEW u \in Unsends, Ended(u) \/ Fail(u) \/ SkipImages(u)
  PROVE  Inv'
<1>1. /\ unsend' = [v \in Unsends |-> IF v \in {u} THEN Idle ELSE unsend[v]]
      /\ UNCHANGED <<image, msg, named>> /\ spared \subseteq spared'
  BY DEF Ended, Fail, SkipImages, Inv, Shape
<1>2. unsend[u].doomed \subseteq spared'
  BY DEF Ended, Fail, SkipImages
<1> QED
  BY <1>1, <1>2, StopStep

LEMMA CrashStep == Inv /\ Crash => Inv'
<1> SUFFICES ASSUME Inv, Crash PROVE Inv'
  OBVIOUS
<1>1. /\ unsend' = [v \in Unsends |-> IF v \in Unsends THEN Idle ELSE unsend[v]]
      /\ UNCHANGED <<image, msg, named>> /\ spared \subseteq spared'
  BY DEF Crash
<1>2. \A v \in Unsends : unsend[v] # Idle => unsend[v].doomed \subseteq spared'
  BY DEF Crash
<1> QED
  BY <1>1, <1>2, StopStep

(* The upload requests touch only drafts.                                  *)
LEMMA AskStep ==
  ASSUME Inv, NEW r \in Asks,
         \/ \E count \in 1..MaxFiles : CreateDirectUploads(r, count)
         \/ \E k \in 1..MaxFiles : MintFails(r, k)
         \/ Answer(r)
  PROVE  Inv'
<1>1. UNCHANGED <<image, msg, unsend, named, spared>>
  BY DEF CreateDirectUploads, MintFails, Answer, Settle
<1> QED
  BY <1>1 DEF Inv, Shape, Named, Held, Deserved, UnsentImagesGo

LEMMA DraftStep ==
  ASSUME Inv, NEW i \in Images,
         \/ \E r \in Asks, k \in 1..MaxFiles : Mint(r, k, i)
         \/ Upload(i) \/ Expire(i)
  PROVE  Inv'
<1>1. PICK s \in {"draft", "stored", "expired"} :
        image[i] \in {"unused", "draft"} /\ image' = [image EXCEPT ![i] = s]
  BY DEF Mint, Upload, Expire
<1>2. UNCHANGED <<msg, unsend, named, spared>>
  BY DEF Mint, Upload, Expire, Settle
<1>3. s \in ImageState \ {"deleted"}
  BY DEF ImageState
<1> QED
  BY <1>1, <1>2, <1>3, ImageStep

LEMMA InvStep == Inv /\ [Next]_vars => Inv'
<1> SUFFICES ASSUME Inv, [Next]_vars PROVE Inv'
  OBVIOUS
<1>1. CASE UNCHANGED vars
  BY <1>1 DEF vars, Inv, Shape, Named, Held, Deserved, UnsentImagesGo
<1>2. ASSUME NEW m \in Msgs, NEW count \in 1..MaxFiles, NEW f \in [1..count -> Attachment],
             SendImages(m, Range(f))
      PROVE  Inv'
  <2>1. Range(f) \in SUBSET Attachment
    BY DEF Range
  <2> QED
    BY <1>2, <2>1, SendStep
<1>3. ASSUME NEW m \in Msgs, Vanish(m) PROVE Inv'
  BY <1>3, VanishStep
<1>4. ASSUME NEW u \in Unsends, NEW m \in Msgs, DeleteMessage(u, m) PROVE Inv'
  BY <1>4, BeginStep
<1>5. ASSUME NEW u \in Unsends, SoftDelete(u) \/ Preview(u) PROVE Inv'
  BY <1>5, SoftDeleteStep, PreviewStep
<1>6. ASSUME NEW u \in Unsends, Ended(u) \/ Fail(u) \/ SkipImages(u) PROVE Inv'
  BY <1>6, EndStep
<1>7. ASSUME NEW u \in Unsends, NEW i \in Images, NEW ok \in BOOLEAN, DeleteImage(u, i, ok)
      PROVE  Inv'
  BY <1>7, DeleteStep
<1> QED
  BY <1>1, <1>2, <1>3, <1>4, <1>5, <1>6, <1>7, AskStep, DraftStep, CrashStep DEF Next

(* Whatever unsends overlap or fail, the images an unsent message names,   *)
(* whatever its URLs show, are removed, held by a running unsend, or were  *)
(* given up by one (deleteMessage and deleteImages).                       *)
THEOREM UnsentImagesAreRemoved == Spec => []UnsentImagesGo
<1>1. Inv => UnsentImagesGo
  BY DEF Inv
<1> QED
  BY InvInit, InvStep, <1>1, PTL DEF Spec

(* A message that can be read loses an image that it names or shows only   *)
(* to another message that named it and was unsent or is gone.             *)
THEOREM LiveImagesAreKept == Spec => []LiveImagesStay
<1>1. Inv => LiveImagesStay
  <2> SUFFICES ASSUME Inv, NEW m \in Msgs, msg[m].state = "live", NEW i \in Images,
                      image[i] = "deleted"
               PROVE  \E n \in Msgs \ {m} : i \in named[n] /\ msg[n].state # "live"
    BY DEF LiveImagesStay
  <2>1. PICK n \in Msgs : i \in named[n] /\ msg[n].state \notin {"live", "none"}
    BY DEF Inv, Deserved
  <2> QED
    BY <2>1
<1> QED
  BY InvInit, InvStep, <1>1, PTL DEF Spec
=============================================================================
