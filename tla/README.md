# Verification of the gratisoglasi.ba chat server

TLA+ models of the chat server in `src/`, checked with TLC and, where marked, proved with TLAPS for
every value of the constants.

## The system

| part | state it keeps | operations | hard behaviour |
|---|---|---|---|
| conversations (`modules/conversations`) | one document per (item, buyer, seller): preview `lastMessage`, `deletedFor`, `clearedAt`, `unreadCounts`, `mutedBy`, `expiresAt` | findOrCreate, listInbox, open, recordMessage, hideForUser, setMute, markRead, replaceLastMessage | transactions and single-document updates on the same document |
| messages (`modules/messages`) | the messages of a conversation, unique per `clientMessageId`, tombstoned by unsend | send, history, syncSince, deleteMessage | one transaction over two collections, side effects after it, an unsend in several awaits |
| transactions (`common/mongo.transaction.js`) | none | run | snapshot, write conflict, retry of the whole callback |
| blocks (`modules/blocks`) | one row per (blocker, blocked) | block, unblock, listings, isBlockedBetween | read outside the transaction; `block:update` and the answer from a read after the write, and a list that may have been read before it |
| realtime (`realtime/`) | rooms of each socket | connect, disconnect, message:send / delivered / read, conversation:sync, typing, emitToConversation, emitToUser | handlers registered after awaits, rooms joined once, emissions unordered |
| presence (`modules/presence`) | socket ids per user, bounded lastSeen | online, offline, touch, getLastSeen | a disconnect during the connect |
| notifications (`modules/notifications`) | device rows by token | notify, receipt check, register, unregister | tokens that move between users while a push or a receipt check is under way |
| rate limiter (`common/middleware/rateLimit.js`) | one window per key | hit, sweep, evictOldest | boundary of the window, eviction at the cap |
| retention (`loaders/chat.migrations.js`, TTL indexes) | `expiresAt` of conversations and messages | TTL monitor, startup migration | two collections that expire on their own, sends that retry with an earlier clock |
| uploads (`modules/uploads`) | none here; images at Cloudflare | createDirectUploads, deleteImages | minting that half succeeds, unsends that stop half-way, images that several messages share, a key that names another image than its URL shows |
| gratis integration (`integrations/gratis`) | none here; items, bids and users of the main site | getItemSnapshot, hasAcceptedBid, userExists, getUserSummaries | read in awaits of their own while the main site edits and deletes |
| bootstrap and shutdown (`server.js`, `loaders`) | the life of the process | boot, migration, signal, shutdown | requests and websockets that are open when the signal comes |
| auth, validation, scripts, placeholders | none | checks on one request | not modelled: no state of their own |

A request enters through REST or a socket handler, and both call the same service. `messageService.send`
reads the conversation, the blocks and the message partition, writes messages and conversation in one
transaction, and after the commit emits to the rooms of the gateway and hands the push to notifications.
`hideForUser` writes the conversation and, when both sides have hidden it, purges the partition in one
transaction. Everything else is a sequence of single-document operations between which other requests run.

What makes each part correct, and at which line it could go wrong, is the list `hazards` of
`PROJECT.json`.

## Modules

- `Thread` - one (item, buyer, seller) pair with its conversation document, its messages and the block
  rows of the pair, and a fixed number of request slots. Each action is one await of a handler:
  `SendBegin` / `SendCheckBlock` / `SendAppend` / `SendCommit` / `Announce` for send, `HideBegin` /
  `HideCommit` for delete-for-me, `UnsendBegin` to `UnsendEmit` for deleteMessage, two steps each for
  findOrCreate, markRead and setMute, `Block` / `Unblock`, `TxnRetry` for the driver's retry and `Fail`
  for a request that dies where it stands.
- `Mailbox` - what the thread promises: the same operations, each atomic, on what a client can see.
  `Thread!ImplementsMailbox` is the refinement (`Abstract == INSTANCE Mailbox WITH ...`).
- `ThreadInv` - the inductive invariant `IInv` of `Thread`.
- `ThreadProofs` - the TLAPS proofs about `Thread`: types, `IInv` and what follows from it, the refinement.
- `Gateway` - the life of a socket (connect, listInbox, the rest of the handler, disconnect, restart), the
  rooms it joins and the inboxes they come from. It has no specification of its own; two modules extend it.
- `Presence` - the presence store, the announcements to the rooms and what each client was last told.
  `PresenceProofs` proves what the store counts and what the clients are told.
- `Delivery` - messages between commit and device: announcements in any order, the channel of each socket,
  the ack of the sender, history and `conversation:sync`, reconnects and crashes, with fairness.
- `RateLimit` - the fixed-window store with its sweep, its cap and the insertion order of a JavaScript Map.
- `Blocks` - block and unblock await by await, the four queries that answer who blocks whom, and what the
  clients show: after a `block:update`, after the answer to a POST or DELETE, after a reload of `GET /blocks`.
- `Contact` - extends `Blocks`: findOrCreate check by check and open with its live overlay, against a main
  site that edits, hides and deletes items and accepts bids.
- `Notifications` - device rows, notify from the read of the devices to the pruning, the receipt check
  long after it, and register and unregister in any order.
- `Retention` - the deadlines of a conversation and its messages, the TTL monitor, the startup migration
  statement by statement, and the process from boot to the end of its shutdown.
- `Uploads` - images from the mint to their removal by unsend, with Cloudflare external.
- `DeliveryProofs`, `RateLimitProofs`, `ContactProofs`, `NotificationsProofs`, `RetentionProofs`,
  `UploadsProofs` - the TLAPS proofs about the modules they are named for; `ContactProofs` begins with those
  about `Blocks`, which `Contact` extends.
- `MCThread`, `MCPresence`, `MCDelivery`, `MCRateLimit`, `MCContact`, `MCNotifications`, `MCRetention`,
  `MCUploads` - the instances for TLC; the `.cfg` files choose what runs together.

### How Thread abstracts the code

- A message is its id, conversation, clientMessageId, sender and whether it is unsent. Bodies, types,
  attachments and times are left out; the preview keeps the message id and whether it shows an unsent
  message. `updatedAt`, and with it the order of the inbox, is left out. So is `readState`: the update that
  resets the badge writes it, and no other request looks at it.
- Message ids stand for the ObjectIds the database hands out on insert. They grow in the order of the
  inserts of one primary, which the code itself relies on (`_id` is its ordering key).
- MongoDB is external: a transaction reads from the snapshot of its first operation (`snap`), and it
  commits only if nobody wrote the conversation document since (`stale`), because every transaction here
  writes that document. A transaction that lost the race, or met any transient error, runs its callback
  again (`TxnRetry`). MongoDB detects some conflicts before the commit; the model lets the attempt run
  on, which adds no new outcome. A conflict between unsend's write of a message and the purge of the
  partition is not modelled: the model allows both orders.
- `isBlockedBetween` has no session, so it reads the rows of the moment.
- Callers are participants: `#getMemberConvo` refuses everyone else before anything is written.
- `hist` is a history variable that only properties read: which messages each user has cleared, when a
  badge was last reset, who had muted when a message was committed, and which running send met a moment
  without a block. `retracted` is the set of ids for which a `message:deleted` went out; two overlapping
  unsends of a message send two, and the model does not count them.

### How Gateway, Presence and Delivery abstract the code

- One step is what the event loop runs between two awaits of the database. The presence store and socket.io
  rooms live in memory: awaiting them lets no other event run in between, so the end of the connection
  handler (`Enter`) is one step, and so is the disconnect handler.
- socket.io is external: a join on a closed socket does nothing, a closed socket is in no room before its
  disconnect handler runs, a socket delivers in order and forgets what it could not deliver.
- A transport may close at any time. If the disconnect handler is registered it runs; if not, the connection
  handler still goes on to the end. In `Presence` a socket id is used once, because the store may remember
  it; in `Delivery` nothing does, and the slot of a closed socket serves the device's next connection.
- The presence store is told of a socket at the end of the connection handler, whether or not its transport
  is still open. `Served` are the sockets of a user that are open and registered, `Outlived` those that were
  registered after their transport had closed.
- `settled` in `Presence` is a history variable: the conversations which every inbox listed at every
  connect. Only for those can a client's picture of the other side be complete.
- A message in `Delivery` is its id, conversation and sender. The transaction is one step, which `Thread`
  justifies (`ImplementsMailbox`); the emissions are a later one (`pending`). A client asks for a sync once
  per connection, from the newest message its device holds in each conversation, as the integration guide
  tells it; one `syncSince` that fails answers the whole sync with an error (`FailSync`). Delete-for-me, and
  with it the `clearAfter` bound of a page, stays in `Thread`; older pages (`before`) are left out, since only
  the newest page matters to the cursor.
- The inbox is not cut at 50 conversations.

### How RateLimit, Blocks and Contact abstract the code

- Time is a small counter that does not go back. The sweep may happen at any moment, which covers every
  sweep interval. The JavaScript Map is its entries (`buckets`) and which of two was inserted first
  (`older`); setting an entry again keeps its place. `granted` is a history variable: when the requests of
  each key were let through, since a running window of that key was last evicted.
- `Blocks` keeps the rows as pairs. `canMessage` is left out, because it is computed from the other two
  fields. A client follows the integration guide: it shows what the last `block:update`, the last answer to
  its own POST or DELETE (which may be lost, and comes when it comes: `Answer`), or the last list it loaded
  left (`ReadList`, then `AnswerList`, with other steps between). Emissions reach all devices of a user in
  the order they were made, and the users of the model are connected. The annotation of the inbox and of
  open are other fields of the client and appear among the queries only (`StatusMap`).
  `alone` is a history variable: the running requests that no other change of their pair has overlapped.
- In `Contact` an item is where it stands (shown, hidden, deleted), its price, which stands for the whole
  snapshot, and the buyers whose bid was accepted; its seller does not change. `End` stands for the two ways
  a thread disappears, which `Thread` and `Retention` have in full. `ever` is a history variable: what was
  true at some moment of each running call.

### How Notifications, Retention and Uploads abstract the code

- Expo is external. It knows which tokens are installed, answers each message with ok, an error, or "not
  registered" (only for a token that is not installed at that moment), and its receipts likewise. A chunk
  it rejects is an error for each of its messages. The wording of a push, mutes and batching sizes are left
  out. `last` (who logged in last on a device), `judged` and `touched` are history variables.
- `Retention` counts time in ticks and keeps one conversation of one pair and item, which may be swept and
  created again. Of send it keeps the snapshot, the moment `createdAt` is taken, the append, and the commit
  with `$max`; conflicts are those of `Thread`. Documents from before the migration may hold any deadline,
  past or to come, or none; `createdAt` of those agrees with the order of their ids. `$lookup` and `$merge`
  are two steps, each seeing one state of the collections.
- `httpServer.close` is external: it resolves when no connection is left, upgraded websockets included; a
  handler whose websocket has gone does not hold it. Until then a connection that was kept alive may bring
  further REST requests (`Listens`), and a websocket that stays may send. `io.close` disconnects whoever is
  left, which by then is nobody. A second signal is ignored. A shutdown that throws also ends in `process.exit`,
  which is where it stops in the model (`Crash`).
- An image in `Uploads` is unused, a draft, stored, expired or deleted, and ids are not reused. An attachment
  is a key and a URL, and the schema asks nothing of the two together: a client may put any key, its own,
  another user's or one that names nothing, beside any URL. A URL is the image it shows and the second to
  last segment of its path, which is all that `parseImageId` looks at; the delivery URL of an image has its
  id there. The key, where there is one, decides what is removed (`ImageIds`). Without the configuration of
  Cloudflare (`enabled`, which may change between two processes) nothing is minted and nothing is removed.
  Of deleteMessage only the steps that lead to the removal are kept. `named`, the images by which the server
  goes, and `spared`, those whose removal failed or was skipped, are history variables.

## Runs

| run | what runs together | what it shows |
|---|---|---|
| `thread_core` | create, send, hide, unsend, read | no orphans, a preview that refers to a stored message (the newest, while nothing is unsent), exact badges, nothing cleared returns, retracted messages stay unsent, refinement of Mailbox |
| `thread_guards` | create, send, mute, block, requests that die | one message and one announcement per clientMessageId, blocks and mutes honoured, `IInv` |
| `thread_preview` | create, send, unsend, hide | **violated**: two unsends leave the body of an unsent message in the inbox |
| `contact` | findOrCreate and open by both sides, block and unblock, item edits, accepted bids, endings, failures | one conversation per pair and item, started only by those entitled to it, its snapshot kept; the four readers of blocks agree, a change that ran alone settles what both users are shown |
| `presence` | two devices of a user, one of another, two conversations that come and go, lastSeen capped at 1, restarts | the store counts the served and the outlived sockets and no other, clients are told the truth, a departure carries a time |
| `presence_leak` | the same | **violated**: a user without any connected device stays online |
| `delivery` | sends over REST and the socket, a device that reconnects, crashes | no gap between a sync and the live stream, one copy per socket, announced messages arrive |
| `notifications` | a notification and its checks, devices that come and go, change user and sign out, crashes | the push follows the login, dead tokens go, no device is lost without a reason |
| `retention` | two sends, TTL monitor, migration over two old rows, crashes, shutdown | a thread outlives its messages, newer messages expire later, a shutdown cuts off no REST request |
| `shutdown` | one websocket that stays, fair continuations | **violated**: the shutdown does not end |
| `uploads` | mints, uploads, two unsends, an image in two messages, keys that disagree with URLs, failures | the images that unsent messages name go, the images of others stay |
| `rate_limit` | three callers, two routes, room for two windows | less than twice the limit in any window, refusals are earned, only a full store evicts |

Bounds of `Thread`. Two participants is what the schema enforces (`participantIds` has length 2). Two requests
at a time are enough for a write between a read and its use, which is every hazard listed for this part. Two
messages (`thread_core`) are a target of an unsend or a hide and one beside it; the first may exist before
the transaction that writes the second begins, or be written by another beside it. Three (`thread_guards`)
also let an attempt that died leave its id unused. Two conversation ids let a thread be deleted for good and
created again. Two client message ids let a resend and a new message compete. Requests die at any await in
`thread_guards` only. `thread_core` does not check deadlock: when the ids of the bound are used up, the
requests that wait for one stop.

Bounds of the others. `Presence`: a first and a last device need two sockets of one user, a listener needs
a third; one conversation is in both inboxes, the other comes and goes; a cap of 1 makes every note of a
second user evict the first. Deadlock is not checked there, because socket ids are used up. `Delivery`: a
page of one message and three messages give a cursor, a full page and a message beyond it; one socket slot
is enough because the slot is reused for the next connection of the device, and the second participant
writes over REST. `RateLimit`: windows of 2 and 3 time units and a clock of 4 hold a window, its boundary and
the next window; three keys exceed the cap of two; the clock saturates, so nothing deadlocks. `Contact`: a
buyer and a seller of one item with two prices; two calls and two block changes compete, two of them running
at once, which puts any one step between any two others; the seller changes his blocks during the run, the
buyer's is there or not from the start. `Notifications`: two users, two apps and a row from
before tokens were validated, one notification slot that is used again and again. `Retention`: two messages
from before the migration and two more, a lifetime of 2 in a clock that lets what is sent after the boot
expire. `Uploads`: a message stored without keys and one with up to two attachments of two images, which may
name one and show the other, two concurrent unsends.

Fairness. `Thread` assumes none and claims no liveness: a request may die at any step, and what a request
promises is what the database holds whenever it stops. `Delivery` assumes weak fairness of the steps the
event loop owes: a continuation whose result is there runs (`Announce`, the connection handler, the sync
handler), and an open transport delivers (`Receive`). Nothing is assumed of users, of reconnects, of crashes
or of closing transports; a crash may take a message's announcement with it, and `PendingArrives` then ends
with the socket closed. The run `shutdown` assumes that a running request goes on, if only to fail, and that
the shutdown's continuation runs once its promise is resolved; nothing is assumed of clients, since nothing
makes them leave. `retention` checks safety and assumes nothing.

### The violated properties, and what else was seen

- `thread_preview`, `PreviewHonoursUnsend`. `deleteMessage` computes the new preview in one await and stores
  it in a later one without looking at what is there (`message.service.js:180-182`,
  `conversation.repository.js:86`). The unsend of A, the preview when it began, reads the newer message B,
  body and all, as the preview to come. The unsend of B finds itself the preview, tombstones B and writes the
  tombstone as the preview. Then the first writes what it had read: B's body is back in the inbox, and no
  request is left that would repair it. The integration guide says the preview is recomputed when the unsent
  message was the preview (`docs/FRONTEND_CHAT_INTEGRATION.md:634`). `RetractedIsUnsent` is therefore about
  the stored messages, which history and syncs return, and not about this copy.
- `presence_leak`, `PresenceCleaned`. The connection handler awaits `listInbox` before it registers any
  listener (`gateway.js:50`, `:65-69`). A transport that closes in between is counted by the store afterwards
  and nothing ever removes it: the user stays online with no device connected. The store says it is cleaned up
  when a user's last socket disconnects (`presence.store.memory.js:7`). `PresenceCounted` shows that such
  sockets are the only surplus, and is proved; `PresenceCleaned` is what the surplus breaks.
- `shutdown`, `ShutdownEnds`. `shutdown` awaits `httpServer.close`, which waits for the websockets, before it
  calls `io.close`, which would disconnect them (`server.js:27-29`). While one client stays, the process does
  not exit, where the file promises to close Socket.io and exit (`server.js:5-6`, `:28`). What holds is
  `ShutdownDrains`: the databases are closed under no REST request.

The following behaviours are in the models, and no run is spent on them; the passing properties are stated
so that they hold beside them.

- The same race with a send instead of the second unsend leaves A as the preview although B is newer. A user
  who then deletes the thread for himself gets A as watermark and B stays visible. `ClearedStaysHidden` is
  about threads in which nothing stored is unsent.
- Because the listeners come last, a `conversation:sync` emitted on `connect` can be dropped without an ack
  (`IgnoreSync`), where the guide shows exactly that call (`docs/FRONTEND_CHAT_INTEGRATION.md:1020`).
- Conversation rooms are joined once, at connect. For a conversation created later the server does not send
  `message:new` to a recipient who is already connected, where the guide speaks of all participants (`:817`)
  and of a room that was joined automatically (`:974`). `PendingArrives` promises arrival in the
  conversations of the inbox at connect, and in those the socket has written in.
- `BlockService.#afterChange` reads the pair in one await and emits later (`block.service.js:128-146`). Two
  overlapping changes may emit in the order opposite to their reads and leave both users with an outdated
  state; an answer or a list that arrives after a later event leaves one of them with it, so that the two
  contradict each other. `SoloChangeSettles` is what remains: the next change that runs alone repairs both.
- Two messages can name the same image, and unsending one removes it under the other; `LiveImagesStay` says
  that this is the only way to lose an image.
- An attachment whose key names one image and whose URL shows another loses the first when it is unsent; the
  one it showed stays at Cloudflare (`upload.service.js:102`). `UnsentImagesGo` is about what the keys name.
- A handler whose websocket has gone is not waited for by the shutdown, and the databases close under it.
- An accepted bid, a shown item and the absence of a block are each true at some moment of findOrCreate, not
  at one moment; `StartsEntitled` says so.

## Proofs

Every safety property of the passing runs, invariants and action properties alike, is also proved for every
value of the constants. Each proof module has the same shape: the inductive invariant in named parts, a lemma
for the initial state, one lemma per action (or per group of actions that disturb the same parts), and the
theorems, which combine them with `PTL`. The assumptions are those the modules name; each is evaluated by TLC
in the runs.

### Thread (`ThreadProofs`)

For any number of participants, request slots, client message ids and bounds, and any kinds of request, from
`BoundsAssumption` (the bounds are naturals), `NoneAssumption` and `ViewAssumption` (`None` is neither a
document nor a view of one).

| theorem | states |
|---|---|
| `TypeCorrect`, `MessagesHaveConversation`, `SendsAreIdempotent` | `[]TypeOK`, `[]NoOrphans`, `[]UniqueCid` |
| `InvariantHolds` | `[]IInv` |
| `BlockedSendsNeverLand`, `AnnouncedAtMostOnce`, `MutesAreHonoured` | `[]BlockedNeverLands`, `[]AnnouncedOnce`, `[]MuteHonoured` |
| `PreviewsAreBacked`, `RetractionsAreStored`, `BadgesAreExact` | `[]PreviewBacked`, `[]RetractedIsUnsent`, `[]UnreadExact` |
| `PreviewsAreNewest`, `ClearedMessagesStayHidden` | `[](NoUnsend => PreviewNewest)`, `[](NoUnsend => ClearedStaysHidden)` |
| `ThreadImplementsMailbox` | `Spec => ImplementsMailbox` |

None of these properties is inductive: what a transaction commits was computed from a snapshot taken several
steps before. `CoreInv` holds the shape of a running request (`CallShape`), that a transaction nobody disturbed
still sees the current document and an unused clientMessageId (`SnapshotCurrent`), that the id of a send that
may still commit is newer than every stored message (`FreshIds`), and that conversation ids are never reused
(`FreshConvo`). It gives types, `NoOrphans` and `UniqueCid`. On top of it come six groups, each with lemmas for
the steps that can disturb it:

- `GateInv`: if the pair is open now, every send that has yet to look at the blocks is among those that saw it
  open (`OpenSeen`), so that a send gets past the check only if it was open during its attempt.
- `OutInv`: nothing was emitted or pushed for an id that is not handed out, or whose request has not announced
  it (`OutputPending`). The mute list that waits with the announcement is the one at the commit, because a
  commit succeeds only on the current snapshot.
- `DocInv`: the preview refers to a stored message, and so does the preview an unsend is about to write
  (`LatestBacked`). The only way to lose a message is the purge, which deletes the document
  with them; a request that still holds the old conversation id then finds none. A purge needs both sides to have hidden the
  thread, and whoever hid it has cleared all that is stored (`HiddenHasDiscarded`).
- `AimInv`: an unsend aims at a message of its caller, which is older than whatever may still be committed
  (`TargetOwned`, `RetractedPast`); no later write therefore brings a retracted message back.
- `BadgeInv`: a badge was reset at an id below those still to come (`ResetPast`), so a commit adds exactly one
  message to the set that `UnreadExact` counts, and an unsend or a failed attempt none.
- `ClearInv`: what was cleared from a living thread is still stored (`DiscardedStored`); and as long as nobody
  unsends, the preview is the newest message and thus the right watermark (`PreviewOnlyGrows`).

`PreviewsAreNewest` and `ClearedMessagesStayHidden` carry the condition `NoUnsend`: an unsend may put an older
message into the preview (see above), and a clear then takes too low a watermark. Both properties are stated
for threads in which no stored message is unsent (`NoneUnsent`). TLC checks them in `thread_core` beside unsends;
the theorems are about servers that get none.

`ThreadImplementsMailbox` follows from `IInv` by one lemma per action: `SendCommit`, `HideCommit`, the create,
read and mute updates and the tombstone of an unsend map to the operation of `Mailbox` that they are the
moment of, every other step to a stutter. `SnapshotCurrent` is what makes a commit of an old snapshot equal to
an atomic operation on the current state.

### Presence (`PresenceProofs`)

For any users, sockets, conversations and cap, from `OwnerAssumption`, `PairAssumption` and `CapAssumption`:
`PresenceIsCounted` (`[]PresenceCounted`), `PresenceTypeCorrect` (`[]TypeOK`, with the cap and the absence of
repetitions in lastSeen), `ViewsAreTrue` (`[]ViewTrue`) and `DeparturesHaveTimes` (`DepartureHasTime`).
The count needs only where each handler stands; it includes the sockets of `Outlived`, without which it is
false. What the clients know rests on three facts: only a served socket is in rooms, and in exactly those it
captured at connect (`Housed`); a settled conversation was captured by every socket of its pair (`Listed`);
and a socket without rooms was told nothing (`Untold`). A departure is noted at the tail of lastSeen, and with
a cap of at least one the entry that goes is another one.

### Delivery (`DeliveryProofs`)

For any users, devices, sockets, conversations and page size, from `DeviceAssumption` and `PageAssumption` and
the two of `Gateway`: `SyncsLeaveNoGap` (`[]SyncLeavesNoGap`) and `SentOncePerSocket` (`[]OncePerSocket`).
Ids are dense (`LogInv`), and a message that waits to be announced is on no wire yet (`OnceInv`), so that
no announcement repeats one. For the gap, `GapInv` follows each owed message, which lies between the cursor
and the end of the page, from the read of the page to its answer: it is held, on the wire, about to be
announced, or in the page that was read. A message committed after the read is pending, and the socket's rooms
were joined before its handlers were registered (`InStep`), so that the announcement reaches it. That a page
which is not full has everything after the cursor, and a full one everything up to its newest, is
`FirstPageFull`, a lemma on pages as sets ranked by id.

### RateLimit (`RateLimitProofs`)

For any keys, windows, limits and cap, from `RateAssumption`: `CapHolds` (`[]TypeOK`), `NeverTwiceTheLimit`
(`[]LessThanTwice`), `RefusalsAreEarned` (`[]RefusalEarned`) and `EvictionsAreForced` (`EvictsOnlyWhenFull`).
The invariant speaks of positions in `granted[k]`. While a window of `k` runs, it was opened by a request `f`
of that sequence, which is as many places from the end as the window has counted, up to the limit; and the
request `max` places before `f` lies a whole window earlier (`InWindow`). When none runs, the last `max`
requests began at least a window ago (`Rested`). Hence of `2 * max` requests in a row the last comes a window
after the first, and a refused caller had his `max` since the window opened.

### Blocks and Contact (`ContactProofs`)

About `Blocks`, for any users, callers and requests, from `CallersAssumption`:

- `BlocksTypeCorrect` - `Spec => []TypeOK`;
- `ReadersAlwaysAgree` - `Spec => []ReadersAgree`: the write guard, the status of a pair, the inbox
  annotation and the lists are four projections of one set of rows;
- `SoloChangesSettle` - `Spec => SoloChangeSettles`, from the invariant that a request in `alone` is running,
  that no running request shares its pair (`Solo`), and that what it is about to emit or to answer is still
  what is stored (`Fresh`).

About `Contact`, for any users, items, prices and calls, from `SellerAssumption`:

- `OneConversationEach` - `ContactSpec => []OneThreadPerPair`;
- `CreationsAreEntitled` - `ContactSpec => StartsEntitled`;
- `SnapshotsAreKept` - `ContactSpec => SnapshotKept`.

The invariant says that the second of a pair is the seller of the item and never the first (`Seated`), so that
the pair key does not depend on who called; that the key is unique (`Unique`); and that each check a creation
has behind it is in `ever`, the facts that held at some moment of the call (`Passed`).

### Notifications, Retention and Uploads

`NotificationsProofs` proves about `Notifications`, for any users, tokens and jobs and from no assumption:

- `PushesFollowLogin` - `Spec => []PushFollowsLogin`;
- `GoneArePruned` - `Spec => []DeadArePruned`;
- `NothingIsLostQuietly` - `Spec => NothingLostQuietly`.

They rest on a device row belonging to the last user who logged in on it (`RowsFollowLogin`), and on what is
about to be deleted being exactly what Expo reported (`DeadWereJudged`).

`RetentionProofs` proves about `Retention`, for any retention time, any old messages with any deadlines, and
any number of sends and websockets, from `TimeAssumption`, `NoneAssumption` and, for the types alone,
`BoundAssumption` (the bounds leave room for what the first boot finds):

- `TypeCorrect` - `Spec => []TypeOK`;
- `DeadlinesCover` - `Spec => []DeadlineCovers`;
- `ExpiryFollowsIds` - `Spec => []NewerExpiresLater`;
- `LiveMessagesKeepTheirThread` - `Spec => []LiveHasConversation`;
- `ShutdownsDrain` - `Spec => []ShutdownDrains`.

`DeadlinesCover`, `ExpiryFollowsIds` and `LiveMessagesKeepTheirThread` need each other. A send that met no
write still sees the current deadline, and every message is older than its createdAt and its id
(`SnapshotCurrent`), so a commit keeps ids and creation times in one order (`Ordered`); with that order the
newest message has the latest deadline (`NewestCovers`), which is what the migration merges (`Targeted`,
`Covered`); and a conversation that covers its messages is due only when they are. Nothing is served before
the migration has ended (`Served`), so it corrects only messages from before it. The types rest on the same
invariant: nothing was created later than now, so a new deadline lies at most a retention time ahead.
`ShutdownsDrain` is inductive beside the phases of the process: nothing begins over REST once
`httpServer.close` has resolved.

`UploadsProofs` proves about `Uploads`, for any images, messages and unsends, and any key beside any URL:

- `UnsentImagesAreRemoved` - `Spec => []UnsentImagesGo`;
- `LiveImagesAreKept` - `Spec => []LiveImagesStay`.

An unsend holds all images its message names until it deletes them, and deletes only when the message cannot be
read any more (`Held`); so whatever was deleted belonged to such a message (`Deserved`).

### What stays with TLC

Liveness under fairness (`PendingArrives` of `Delivery`) is beyond the prover. `PreviewHonoursUnsend`,
`PresenceCleaned` and `ShutdownEnds` are violated, so there is nothing to prove. The bounds on the clock, on
ids and on requests are parameters of the theorems: the proofs hold for all their values, but say nothing of
an unbounded run of ids that the bound cuts off.

## Plan

1. (done) `Thread`, `Mailbox`, `ThreadInv`, the proofs of types, orphans and idempotence.
2. (done) `Gateway`, `Presence`, `Delivery`; `RateLimit`; `Blocks`; the proof of `PresenceCounted`.
3. (done) `Notifications`, `Retention`, `Uploads`, `Contact`; the proofs of `ReadersAgree` and
   `SoloChangeSettles`, and of the properties of these four.
4. (done) The whole of `IInv`, the refinement of `Mailbox`, `ViewTrue` and `DepartureHasTime`, the invariants of
   `Delivery` and `RateLimit`, the types of `Retention`.
5. To come: `Delivery`: a property for the messages a device misses because its cursor has passed them, with
   its proof; lemmas on the pages of `Delivery` that such a proof shares with `SyncsLeaveNoGap`; the shape
   facts of `Delivery`, `Notifications`, `Contact` and `Uploads`, which their proofs carry, as theorems.

## Not modelled

- Typing and the delivered and read receipts: each relays one event and keeps no state.
- The order of the inbox (`updatedAt`) and its cut at 50 conversations; display names of the block list.
- Authentication and request validation: checks on one request without state.
- The wiring of container, express and socket.io; health and metrics.
- The placeholders for other stores, which are not used, and the security scripts, which are development
  tooling.
