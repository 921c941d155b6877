-------------------------------- MODULE Uploads --------------------------------
(***************************************************************************)
(* Images: the one-time upload URLs the server mints at Cloudflare, the    *)
(* messages that carry the images, and their removal when a message is     *)
(* unsent.                                                                 *)
(*                                                                         *)
(* The URLs of a request are minted concurrently; Cloudflare may create an *)
(* image and the answer be lost.  Clients upload to Cloudflare directly.   *)
(* An attachment names an image by a key and shows one by a URL, and       *)
(* nothing makes the two agree.  Of deleteMessage the steps that lead to   *)
(* the removal are kept; Thread has the others.                            *)
(***************************************************************************)
EXTENDS Naturals, Sequences, Functions

CONSTANTS
  Images,      \* the ids Cloudflare gives out
  Msgs,        \* messages
  Legacy,      \* those stored before attachments had a key
  Asks,        \* slots for upload requests
  Unsends,     \* slots for unsend requests
  MaxFiles,    \* MAX_ATTACHMENTS
  Unknown,     \* a key that is the id of no image
  None         \* no key, or no image

ASSUME FilesAssumption == MaxFiles \in Nat \ {0}
ASSUME NoImageAssumption == None \notin Images /\ Unknown \notin Images /\ None # Unknown

VARIABLES
  enabled,     \* Cloudflare is configured
  image,       \* what Cloudflare has under each id
  ask,         \* the outcome of each mint of a request
  known,       \* the images clients know of
  msg,         \* the messages
  unsend,      \* the unsend requests
  named,       \* history: the images each message was sent with, by what
               \*          the server goes by
  spared       \* history: the images whose removal failed or was cut off

vars == <<enabled, image, ask, known, msg, unsend, named, spared>>

(* A draft can be uploaded to once; expired and deleted ids stay unused.   *)
ImageState == {"unused", "draft", "stored", "expired", "deleted"}

(* The delivery URL of an image, and any other URL: the image it shows,    *)
(* and the second to last segment of its path.                             *)
Delivery(i)  == [shows |-> i, segment |-> i]
Elsewhere(i) == [shows |-> None, segment |-> i]
Urls == {Delivery(i) : i \in Images} \cup {Elsewhere(i) : i \in Images \cup {None}}

Attachment == [key : Images \cup {Unknown}, url : Urls]
Shown(A) == {a.url.shows : a \in A} \ {None}

(* deleteImages: the key, or else what parseImageId finds in the URL;      *)
(* under an id that no image has there is nothing to delete.               *)
(* Defect: only the key.                                                   *)
ImageIdsKeyed(A) == {a.key : a \in A} \cap Images
ImageIds(A) == {IF a.key # None THEN a.key ELSE a.url.segment : a \in A} \cap Images

Steps == {"load", "mark", "preview", "delete"}
Idle  == [pc |-> "idle"]

Init ==
  /\ enabled \in BOOLEAN
  /\ \E f \in {h \in [Legacy -> Images] : IsInjective(h)} :
       /\ image = [i \in Images |-> IF \E m \in Legacy : f[m] = i THEN "stored" ELSE "unused"]
       /\ msg = [m \in Msgs |-> IF m \in Legacy
                                THEN [state |-> "live", files |-> {[key |-> None, url |-> Delivery(f[m])]}]
                                ELSE [state |-> "none", files |-> {}]]
       /\ named = [m \in Msgs |-> IF m \in Legacy THEN {f[m]} ELSE {}]
       /\ known = Range(f)
  /\ ask = [r \in Asks |-> <<>>]
  /\ unsend = [u \in Unsends |-> Idle]
  /\ spared = {}

-----------------------------------------------------------------------------
(* POST /uploads/direct-upload: 1 to MaxFiles mints.                       *)
CreateDirectUploads(r, count) ==
  /\ enabled
  /\ ask[r] = <<>>
  /\ ask' = [ask EXCEPT ![r] = [k \in 1..count |-> "open"]]
  /\ UNCHANGED <<enabled, image, known, msg, unsend, named, spared>>

Settle(r, k, outcome) ==
  /\ k \in DOMAIN ask[r]
  /\ ask[r][k] = "open"
  /\ ask' = [ask EXCEPT ![r][k] = outcome]
  /\ UNCHANGED <<enabled, known, msg, unsend, named, spared>>

(* Cloudflare creates the image; with a timeout or a broken answer the     *)
(* server does not learn its id.                                           *)
Mint(r, k, i) ==
  /\ image[i] = "unused"
  /\ image' = [image EXCEPT ![i] = "draft"]
  /\ Settle(r, k, i) \/ Settle(r, k, "failed")

MintFails(r, k) ==
  /\ Settle(r, k, "failed")
  /\ UNCHANGED image

(* allSettled: what succeeded is answered, what failed is listed; a 503    *)
(* when nothing succeeded.                                                 *)
Answer(r) ==
  /\ ask[r] # <<>>
  /\ \A k \in DOMAIN ask[r] : ask[r][k] # "open"
  /\ known' = known \cup (Range(ask[r]) \cap Images)
  /\ ask' = [ask EXCEPT ![r] = <<>>]
  /\ UNCHANGED <<enabled, image, msg, unsend, named, spared>>

(* The client and Cloudflare.                                              *)
Upload(i) ==
  /\ i \in known
  /\ image[i] = "draft"
  /\ image' = [image EXCEPT ![i] = "stored"]
  /\ UNCHANGED <<enabled, ask, known, msg, unsend, named, spared>>

Expire(i) ==
  /\ image[i] = "draft"
  /\ image' = [image EXCEPT ![i] = "expired"]
  /\ UNCHANGED <<enabled, ask, known, msg, unsend, named, spared>>

(* The attachments of a message are taken as they come, at most MaxFiles:  *)
(* any key beside any URL.                                                 *)
SendImages(m, A) ==
  /\ msg[m].state = "none"
  /\ \A a \in A : {a.key, a.url.shows} \subseteq known \cup {Unknown, None}
  /\ msg' = [msg EXCEPT ![m] = [state |-> "live", files |-> A]]
  /\ named' = [named EXCEPT ![m] = {a.key : a \in A} \cap Images]
  /\ UNCHANGED <<enabled, image, ask, known, unsend, spared>>

(* A message expires or goes with its thread; its images stay.             *)
Vanish(m) ==
  /\ msg[m].state \in {"live", "unsent"}
  /\ msg' = [msg EXCEPT ![m] = [state |-> "gone", files |-> {}]]
  /\ UNCHANGED <<enabled, image, ask, known, unsend, named, spared>>

-----------------------------------------------------------------------------
(* deleteMessage: a message that is gone or already unsent ends it; the    *)
(* attachments are captured before softDelete clears them.                 *)
(* Defects: they are taken from what softDelete returned; the images are   *)
(* deleted first.                                                          *)
DoomedLate(m) == {}
Doomed(m) == ImageIds(msg[m].files)

AfterEager(pc) == [load |-> "delete", mark |-> "preview", preview |-> "delete"][pc]
After(pc) == [load |-> "mark", mark |-> "preview", preview |-> "delete"][pc]

DeleteMessage(u, m) ==
  /\ unsend[u] = Idle
  /\ msg[m].state = "live"
  /\ unsend' = [unsend EXCEPT ![u] = [pc |-> After("load"), of |-> m, doomed |-> Doomed(m)]]
  /\ UNCHANGED <<enabled, image, ask, known, msg, named, spared>>

SoftDelete(u) ==
  LET q == unsend[u] IN
  /\ q.pc = "mark"
  /\ msg' = [msg EXCEPT ![q.of] = IF @.state = "gone" THEN @
                                  ELSE [state |-> "unsent", files |-> {}]]
  /\ unsend' = [unsend EXCEPT ![u].pc = After(@)]
  /\ UNCHANGED <<enabled, image, ask, known, named, spared>>

(* The inbox preview and message:deleted.                                  *)
Preview(u) ==
  /\ unsend[u].pc = "preview"
  /\ unsend' = [unsend EXCEPT ![u].pc = After(@)]
  /\ UNCHANGED <<enabled, image, ask, known, msg, named, spared>>

(* deleteImages: one DELETE for each image; a failed one is let go.        *)
DeleteImage(u, i, ok) ==
  LET q == unsend[u] IN
  /\ enabled
  /\ q.pc = "delete"
  /\ i \in q.doomed
  /\ IF ok THEN /\ image' = [image EXCEPT ![i] = "deleted"]
                /\ UNCHANGED spared
           ELSE /\ spared' = spared \cup {i}
                /\ UNCHANGED image
  /\ unsend' = [unsend EXCEPT ![u].doomed = @ \ {i}]
  /\ UNCHANGED <<enabled, ask, known, msg, named>>

(* Without Cloudflare's configuration nothing is deleted.                  *)
SkipImages(u) ==
  /\ ~enabled
  /\ unsend[u].pc = "delete"
  /\ unsend' = [unsend EXCEPT ![u] = Idle]
  /\ spared' = spared \cup unsend[u].doomed
  /\ UNCHANGED <<enabled, image, ask, known, msg, named>>

Ended(u) ==
  /\ unsend[u].pc = "delete"
  /\ unsend[u].doomed = {}
  /\ unsend' = [unsend EXCEPT ![u] = Idle]
  /\ UNCHANGED <<enabled, image, ask, known, msg, named, spared>>

(* A database error ends the unsend: once marked, no later unsend of the   *)
(* message comes this far, and the images stay.                            *)
Fail(u) ==
  /\ unsend[u].pc \in {"mark", "preview"}
  /\ unsend' = [unsend EXCEPT ![u] = Idle]
  /\ spared' = spared \cup unsend[u].doomed
  /\ UNCHANGED <<enabled, image, ask, known, msg, named>>

(* The next process may be configured otherwise.                           *)
Crash ==
  /\ enabled' \in BOOLEAN
  /\ ask' = [r \in Asks |-> <<>>]
  /\ unsend' = [u \in Unsends |-> Idle]
  /\ spared' = spared \cup UNION {unsend[u].doomed : u \in {v \in Unsends : unsend[v] # Idle}}
  /\ UNCHANGED <<image, known, msg, named>>

Next ==
  \/ \E r \in Asks :
       \/ \E count \in 1..MaxFiles : CreateDirectUploads(r, count)
       \/ \E k \in 1..MaxFiles : MintFails(r, k) \/ \E i \in Images : Mint(r, k, i)
       \/ Answer(r)
  \/ \E i \in Images : Upload(i) \/ Expire(i)
  \/ \E m \in Msgs :
       \/ Vanish(m)
       \/ \E count \in 1..MaxFiles : \E f \in [1..count -> Attachment] : SendImages(m, Range(f))
  \/ \E u \in Unsends :
       \/ \E m \in Msgs : DeleteMessage(u, m)
       \/ SoftDelete(u) \/ Preview(u) \/ SkipImages(u) \/ Ended(u) \/ Fail(u)
       \/ \E i \in Images, ok \in BOOLEAN : DeleteImage(u, i, ok)
  \/ Crash

Spec == Init /\ [][Next]_vars

-----------------------------------------------------------------------------
(* Properties.                                                             *)

(* The images an unsent message names are removed, by its keys or, in a    *)
(* row from before there were keys, by its delivery URL, however many      *)
(* unsends overlap, unless a removal is still under way or one failed or   *)
(* was skipped.  An image that a URL shows beside the key of another is    *)
(* not removed.                                                            *)
UnsentImagesGo ==
  \A m \in Msgs : msg[m].state = "unsent" =>
    \A i \in named[m] :
      \/ image[i] \in {"deleted", "expired"}
      \/ i \in spared
      \/ \E u \in Unsends : unsend[u] # Idle /\ unsend[u].of = m /\ i \in unsend[u].doomed

(* No image is removed under a message that names or shows it and can      *)
(* still be read, unless another message that named it was unsent or is    *)
(* gone: an unsend that fails half-way, or finds its message gone, has not *)
(* removed too much.                                                       *)
LiveImagesStay ==
  \A m \in Msgs : msg[m].state = "live" =>
    \A i \in Images :
      i \in named[m] \cup Shown(msg[m].files) /\ image[i] = "deleted"
        => \E n \in Msgs \ {m} : i \in named[n] /\ msg[n].state # "live"
=============================================================================
