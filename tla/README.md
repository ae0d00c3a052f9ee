# xTorChat in TLA+

xTorChat is an iOS XMPP messenger (Swift and Objective-C) with OTR and OMEMO
encryption and optional Tor transport.  This directory holds TLA+ models of its
core logic, the TLC configurations that check them on small instances, and
TLAPS proofs about them for every instance.

All paths below are relative to `src/xTorChat/Classes/Controllers/` unless they
start with `src/`.

## 1. The system

| component | state it keeps | operations | talks to |
|---|---|---|---|
| Outgoing queue: `MessageQueueHandler.swift`, `OTRXMPPMessageStatusModule.swift`, `OTRYapMessageSendAction` | send actions in the database (a FIFO per thread), `outstandingAccounts`, `outstandingBuddies`, `outstandingMessages`, OTR timers | `handleNextItem`, `didConnectAccount`, encryption notification, OTR timeout, `didSendMessage`, `didFailToSendMessage` | broker (YapTaskQueue), connection, OTR, OMEMO, rooms |
| Connection: `XMPP/OTRXMPPManager.m` over `XMPPStream`, with `XMPPReconnect` beside it | `loginStatus`, the stream's state, flags and timer of the reconnect module | connect, disconnect, stream callbacks, presence, enqueue, send | everything that uses the stream |
| Rooms: `XMPP/OTRXMPPRoomManager.m`, `XMPP/Storage/RoomStorage.swift` | one `XMPPRoom` per joined room, stored rooms, messages and occupants | join, leave, invite, receive, echo matching | connection, queue |
| OTR: `OTREncryptionManager.m` over OTRKit | session state per buddy | encode, decode, state changes | queue, connection |
| OMEMO session set-up: `OTROMEMOSignalCoordinator.swift` over `OMEMOModule` | outstanding stanza blocks, device-fetch callbacks, own bundle | prepare a session, encrypt, decrypt, publish and remove devices | connection, key storage, trust |
| OMEMO trust: `OTROMEMOStorageManager.swift`, `OMEMODevice`, `KeyManagementViewController` | devices with a trust level, a key and a date | store device lists, save an identity, switch, save, remove | set-up, key storage, screen |
| Signal keys: `OTRSignalStorageManager.swift`, `OTRAccountSignalEncryptionManager.swift` | identity, sessions, prekeys | generate, consume, top up | set-up |
| Incoming messages: `XMPP/Storage/MessageStorage.swift` with XMPPFramework's archive and carbons modules | messages, receipts, `lastHistoryFetchDate`, `mamCatchupInProgress` | live, carbon and archived delivery, fetch of the history at login | connection, rooms, OTR, OMEMO |
| Roster: `XMPP/Storage/RosterStorage.swift` | buddies, pending approvals | roster pushes, presence | connection, queue |
| Stream management: `XMPP/Storage/OTRStreamManagementYapStorage.m` over XEP-0198 | counters, unacknowledged stanzas | ack, resume | connection |
| File transfers: `FileTransferManager.swift` | media messages, uploads, downloads | request slot, upload, download | queue, connection |
| Push: `PushController.swift`, `PushStorage.swift` | tokens | create, exchange, revoke | OTR data, push server |
| Tor: `OTRTorManager.m`, `XMPP/OTRXMPPTorManager.m` | proxy state | start, connect through | connection |
| Registry, cache, migration: `OTRProtocolManager.m`, `OTRBuddyCache.m`, `OTRAccountMigrator.m` | managers per account, presence cache | create, disconnect all before suspension, purge, migrate | all |

The user interface, the database configuration and the vendored libraries are
listed in `PROJECT.json` and not modelled for themselves.

**What is hard.**  Work crosses threads all the time: the stream's queue, the
modules' queues, the main queue, the handler's operation queue, global queues
and database transactions.  A block reads state, dispatches another block, and
acts on what it read.  Timers race the answers they guard.  A completion
handler is put in a table and must be found again by exactly one later event.
The process may be killed between any two steps, and then only the database is
left.  `PROJECT.json` lists the places under `hazards`.

**What makes each component correct.**

* Queue: a thread's messages go out in order and once, a busy queue has somebody
  who will free it, a removed message was sent or shows an error.  The last two
  have exceptions in the code, and the properties list them.
* Connection: `loginStatus` says "authenticated" only of a stream that is, once
  all notifications are handled; a connection lost by accident comes back; a
  process that is about to be suspended gets its accounts disconnected.
* OMEMO set-up: the clients of an account agree with the server's device list
  and are on it; a message is encrypted when everybody has been prepared, and to
  trusted devices only; `encryptAndSendMessage` answers its caller (it does not
  always: section 3).
* Trust: trust on first use applies to the first list only; what the user
  decided about a device stands until the user decides again.
* Keys: a prekey identifier names one key for ever; a consumed key never comes
  back.
* Incoming messages: one row per message, whichever way it arrives; no message
  of the archive is skipped for good; no queue waits for ever.
* Stream management: nothing acknowledged is lost or delivered twice.

## 2. Modules

| module | what it is |
|---|---|
| `MessageQueue` | the outgoing queue and everything that drives it |
| `Outbox` | abstract specification: what a thread's queue promises |
| `MCMessageQueue` | instances for TLC |
| `MessageQueueProofs` | TLAPS proofs about `MessageQueue`: who holds a completion |
| `OutboxProofs` | TLAPS proofs: what is written, and the refinement of `Outbox` |
| `DeliveryProofs` | TLAPS proofs: verdicts, removal, OTR waits and their timers, dropped completions |
| `DeviceTrust` | the OMEMO device rows of one buddy or of the account, and everything that writes them |
| `MCDeviceTrust` | instances for TLC |
| `DeviceTrustProofs` | TLAPS proofs about `DeviceTrust` |
| `DeviceList` | the account's device list on the server and the clients that overwrite it |
| `MCDeviceList` | instance for TLC |
| `DeviceListProofs` | TLAPS proofs about `DeviceList` |
| `OmemoSend` | preparing sessions and encrypting a message, on the coordinator's and the module's queue |
| `Encryption` | abstract specification: what sending a message with OMEMO promises |
| `MCOmemoSend` | instance for TLC |
| `OmemoSendProofs` | TLAPS proofs about `OmemoSend`, and the refinement of `Encryption` |
| `Connection` | the connection of one account: manager, stream, reconnect module, main thread |
| `MCConnection` | instance for TLC |
| `ConnectionProofs` | TLAPS proofs about `Connection` |
| `History` | how messages get into the database: live, again, as carbons and from the archive, over three queues |
| `MCHistory` | instance for TLC |
| `HistoryProofs` | TLAPS proofs about `History` |

How they fit together: `Connection` says what the `login` of `MessageQueue` is
worth (`StatusIsTrue`); `OmemoSend` is what `MessageQueue` abstracts into the
answer of the encryption library; `OmemoSend` uses rows and sessions that
`DeviceTrust` says the trust of, and the lists it fetches for the account are
those of `DeviceList`.  `up` of `History` is the authenticated stream of
`Connection`.  They share no variables and are checked apart: each
takes from the others only what is said here.

### MessageQueue

State and code:

| variable | code |
|---|---|
| `saved`, `result` | the message row: unsaved, saved, deleted, or saved again after deletion; and its delivery state and error |
| `flaw` | what is wrong with the stored message: no text (nil or empty), a type or security the handler does not support, or a thread, account or protocol that is not found |
| `queue` | the `OTRYapMessageSendAction` rows of each thread, by date |
| `slot`, `paused` | the broker: action in process, and whether it awaits its retry timeout |
| `calls` | blocks that were dispatched (`DispatchQueue.main.async`, `global().async`, operation queue, stream queue) and have not run |
| `outstandingAccounts`, `outstandingBuddies`, `outstandingMessages` | the handler's tables of the same names; a value stands for the completion block |
| `timers` | scheduled `otrInitatiateTimeout` timers |
| `login`, `loginNotes` | `loginStatus` and undelivered `kOTRProtocolLoginSuccess` notifications |
| `otr`, `otrNotes` | OTRKit's message state and undelivered state notifications |
| `rooms` | existing `XMPPRoom` objects |
| `wire` | stanzas written since the process started (history variable) |

`handleNextItem` becomes one action per branch (`Handle...`, `Send...`,
`RequestSession`); every block it leaves behind is a record in `calls` with an
action of its own.  The early returns are branches too: `HandleMissing` and
`HandleUnsupported` (lines 293-320), `SendGroupNowhere` and
`SendGroupUnsupported` (lines 244-257; the second files the completion and
leaves it there), `SendOTRWithoutText` (lines 550-553, nil only), and
`OmemoWithoutText` and `OmemoUnavailable` (lines 577-591; the second dispatches
the write of its error, `SaveOmemoError`).  The check of `loginStatus`, the registration in
`outstandingAccounts` and the connect call are three steps, because they run on
a global queue while the notification runs on the handler's operation queue.
Faults, bounded by `MaxFaults`, are `Delete`, `Restart`, `DidDisconnect`,
`StatusFalls`, `SessionEnds`, `Orphan` (the owner of a message goes),
`OmemoUnavailable`, a message that is saved with a flaw (`Enqueue`), and the
encryption libraries' ways of not answering: `EncodeFails`, `EncodedToNothing`
(`OTREncryptionManager.m:277`: no error, and nothing to send) and
`OmemoUnanswered`.  The last stands for what `OmemoSend` looks at closely: a
closure that was overwritten (`OTROMEMOSignalCoordinator.swift:180`), a block
that returns without a word (lines 307-316), and an answer "success" to a
message for a room that has no stanza to send (lines 367-379).

`login` is what the manager has heard, and `Connection` shows how little that
says: the status can lag behind the stream, and a connect that was begun earlier
sets it from Authenticated back to Connecting.  So `StatusFalls` may lower it at
any time, and `Write` and `WriteFails` ask for no status: a stanza may be written
or rejected in each.

The broker is outside the repository.  It is modelled from the way
`handleNextItem` uses it: one action per queue at a time, removed on
`completion(true, _)`, tried again after the timeout on `completion(false, t)`.

Left out: the text of messages beyond whether there is any, media items, the roster manager's own states
(a roster action is handed to the stream and completed), OTR data messages.

`Outbox` forgets accounts, encryption and callbacks.  Per thread there are the
persistent rows, the action taken, and the wire; `ImplementsOutbox` states that
`MessageQueue` implements it with `pending <- queue, taken <- slot`.  The order
of the rows and the taking of the first are `Outbox`'s too; that the stanzas
follow that order is `SentInOrder`.

### DeviceTrust

The rows of one parent.  `Own` is this app's device when the parent is the
account and `NoDevice` when it is a buddy; no code path writes the rows of two
parents together, so one parent is enough.

| variable | code |
|---|---|
| `trust` | `OMEMODevice.trustLevel` per row; `"none"` is no row |
| `fresh` | rows for which `isExpired` is false |
| `keyed`, `sessions` | rows with `publicIdentityKeyData`; Signal session records |
| `known` | whether the roster has brought the buddy |
| `fetching` | bundles `prepareSession` has asked for |
| `stores` | lists handed to `asyncReadWrite` and not yet stored |
| `sheet`, `saving` | the copies of `OMEMODevice` the key management screen shows, and those a pressed Save writes |
| `first`, `approved`, `verdict`, `lastList` | history, read by the properties only |

One action per writer: `StoreList` and `StoreEmptyList` (`storeDevices`),
`SaveIdentity` (called by bundles and by messages that carry an identity),
`MessageFrom` (the date), `CommitSave` (Save's transaction), `RemoveDevice`.
The actions that decide to write (`ReceiveList`, `PressSave`, `PrepareSession`)
are separate from those that write, as in the code.

Two abstractions.  `Expire` stands for thirty days without a write of the
date.  The screen is not opened again before its own Save is committed.

### DeviceList

A personal eventing node holds the account's list as a whole, and every client
that stores a list without itself publishes the list with itself added.  All
clients are assumed to run this program.

| variable | code |
|---|---|
| `created`, `node` | the node on the server and its list |
| `interested` | connections whose presence asked for changes of the node |
| `online`, `toServer`, `toClient` | authenticated streams and the stanzas on them, in order; `Drop` loses them |
| `tracked` | `XMPPIDTracker`'s table; `late` marks a request whose timer has run its block |
| `list` | the rows `storeOurDevices` keeps of the list (without the marks, see `DeviceTrust`) |
| `asked` | the numbers `fixElementId` has given out |
| `unconfirmed` | history: changes that the server refused or never got |

`Login`, `RemoveDevice`, `Timeout`, `ReceiveAnswer` and `ReceiveEvent` are the
handlers of `OMEMOModule.m` and `XMPPIDTracker.m`; `ServeFetch`, `ServeHello`
and `ServePublish` are the server, modelled from what the handlers expect of
it.  `RefusePublish` is a publication that fails, which the coordinator only
logs.  A timed-out request stays in the tracker's table, so that its answer
runs the block a second time, as in the code.  Left out: bundles, the lists of
other accounts (they are `OmemoSend`'s), and the completion of a removal.

### OmemoSend

| variable | code |
|---|---|
| `rows`, `sessions` | devices with a row; with a Signal session and an identity key |
| `prep`, `snapshot` | per message and *leg*, how far `prepareSession` is, and its local `devices` |
| `waiting` | `outstandingXMPPStanzaResponseBlocks`, as the devices whose bundle is awaited |
| `waiter` | `deviceIdFetchCallbacks`, by JID |
| `workQueue` | the coordinator's serial queue |
| `removing` | between the call of a closure and its removal (`callAndRemoveOutstandingDeviceIdFetch`), per queue |
| `tracked` | requests in `XMPPIDTracker`'s table |
| `outcome` | what `encryptAndSendMessage` has come to |
| `crashed` | a `DispatchGroup` was left more often than entered, which traps |
| `forgotten` | history: preparations whose closure was overwritten or removed uncalled |

A leg is one entry of the list of buddies that a message goes to, or the account
itself.  `allBuddyKeysForOutgoingMessage` puts one entry per occupant on a room's
list and may name a buddy twice (`OTRXMPPRoomMessage.swift:452-463`); the group is
entered and the buddy prepared once per entry, and the second closure overwrites
the first like that of another message would.

`encryptAndSendMessage` either answers at once, when nobody is on the list
(`Refuse`, lines 282-285), or enters the group for each leg and begins.  A
preparation may be over as soon as it starts, for a buddy without a user name or
JID (`StartUnknown`, lines 125-131).  `Finish` ends a message: it was sent, there
was no device to encrypt to, or the block gave up without calling the completion
(`"silent"`).

A task of the work queue is one action.  The one place where the two queues
touch the same dictionary is split: `CallWaiter` finds and calls the closure,
`RemoveWaiter` removes it.  Data is reduced
to what decides control: whether a device has a row and a session; trust
only enters the choice of `Finish`, which may find no trusted device.

`Encryption` forgets lists, bundles, queues, closures and timers: a message is
refused when it is handed over, with nothing prepared, or every entry of its list
and the account are prepared, in any order and no entry twice, and then what
became of it is settled once.  (Whether the caller hears of it is not part of the
promise: `"silent"` is one of the results.)  `ImplementsEncryption` states that
`OmemoSend` implements it; a preparation counts as complete when it has left the
message's group.

### Connection

| variable | code |
|---|---|
| `stream`, `authed`, `closing` | `XMPPStream`'s state (the states between the socket's connection and the end of the negotiation are one), `isAuthenticated`, and a socket told to close |
| `login` | `OTRXMPPManager.loginStatus` |
| `workQueue`, `reconQueue` | notifications on the way to the manager and to `XMPPReconnect`, and the manager's blocks |
| `should`, `restart`, `querying`, `timer`, `retry`, `deciding` | `XMPPReconnect`'s flags, timer, delayed restart and attempts under decision |
| `caller` | `startConnection` on the caller's thread, between its steps |
| `main`, `active` | blocks on the main queue; the app's state |
| `wait`, `crashed` | the main thread in `dispatch_group_wait`; the group left too often |
| `entitled` | history: authenticated, and not ended on purpose since |

Disconnecting an account "socket only" is not a call: it sets the status and
sends a presence, and the notification that the presence was sent disconnects.
The presence carries the date of the last interaction, which is fetched over the
main queue.  A host name may stand for several hosts: while the stream is
opening, a socket that closes takes it to the next one, even if the stream was
told to disconnect (`NextHost`, `XMPPStream.m:4382-4385`); without such an order
the step changes nothing that is modelled, and the last host is `SocketCloses`.
Left out: registration, certificates (beyond the refusal of one), vCards,
passwords, client state indication, and starting Tor.

### History

| variable | code |
|---|---|
| `sent` | the account's archive on the server, whose length serves as the clock |
| `up`, `unacked` | the stream is authenticated; what the server delivers again because XEP-0198 has not acknowledged it |
| `asked`, `roomAsked` | archive queries under way, the account's and rooms' (`retrieveMessageArchiveAt:`) |
| `failed` | history: a query of this connection was refused, or will never be answered |
| `carbons` | `messageCarbonsEnabled` and the enable request in the tracker; `"lost"`: it will never be answered |
| `inbox` | what `MessageStorage`'s module queue is still to be told of, in order |
| `blocks` | `asyncRead`, `asyncReadWrite` and `readWriteWithBlock` on the write connection, which every user of it shares |
| `msWaits` | `MessageStorage`'s queue waits in `room(for:)` for the room manager's queue |
| `rmWaits` | the room manager's queue waits for its block on the write connection |
| `fetching`, `lastFetch` | `mamCatchupInProgress`, `lastHistoryFetchDate` |
| `copies` | rows per message |
| `strangers` | messages whose buddy is not in the database |
| `passed` | history: messages discarded for that, and those older than a week when the archive was first asked |

A callback of `MessageStorage` is one action and the block it queues another:
`ReceiveMessage` and then `SaveMessage` or `SaveArchived`, `DidAuthenticate`
and then `FetchHistory`, `DidFinishReceiving` and then `SaveFetchDate`.
`UpdateLastFetch` and `FetchHistory` need the module queue (`performBlock`,
`xmppStream`), so they do not run while `msWaits`.  The queues of the archive
and carbons modules only pass on what they receive and are folded into
`inbox`.

What goes wrong without anything being lost is modelled as well:

* `QueryFails`: a query that the server refuses, or that is not answered within
  60 seconds (`XMPPMessageArchiveManagement.m:99-102, 134-137`), reaches
  `didFailToReceiveMessages`, which is empty (`MessageStorage.swift:403-404`): the
  flag stays set, and with it the date stands still, until the next login or until
  a room's archive ends.
* `DiscardMessage`: a message whose buddy is not in the database is dropped in
  its block (`MessageStorage.swift:182-185, 244-249`), whichever way it came;
  `BuddyStored` is the roster, or whoever else adds the buddy.
* `Ask`: the query leaves out what is not after the date, or, without a date,
  what is older than seven days (`MessageStorage.swift:340-346`), which is any
  beginning of the archive.
* `CarbonsAnswered`: the request to enable carbons may be refused, and they stay
  off until the next login.

The archive of a room is asked for on the main queue (`FetchRoomHistory`,
`OTRXMPPRoomManager`'s continuation of `fetchAllListsForRoom`); the room
manager's own queue waits for the database in its other callbacks
(`CallDatabase`).

`Identified` are the messages whose id is in the message itself on every path,
such as an origin id.  The stanza id is taken from the inner, forwarded message
(`MessageStorage.swift:425, 493`), and the id of the archive's result is not
looked at; a message whose id comes from there alone is one without an id here.

Assumed: the server handles queries on a connection in order, keeps its
archive, and its clock agrees with the app's.  Not modelled is the resumption of
a stream.  Left out: receipts, chat states, errors, OTR text, notifications, and
the storing of a room's messages.

## 3. Runs

All bounds are in the `.cfg` files.  The `.cfg` files switch deadlock checking
off: a queue with nothing to send, or a process whose faults are used up, may
come to rest.

| run | instance | question |
|---|---|---|
| `MQDirect` | 2 accounts x 1 thread, 4 actions (OTR and OTR, which are alike; plain and opportunistic OTR), 1 fault: drop, status, restart, end of a session, a message without text or of an unsupported type | without OMEMO and as long as one action waits per account, no completion of a message with text is lost; OTR waits are never overwritten |
| `MQShared` | 1 account, a buddy (OTR, OMEMO) and a room (OMEMO, which is filed twice), any 1 of all 11 faults | one owner and one holder per completion, at most one stanza per message and in order, implements `Outbox`; an OTR wait has a timer; verdicts are final; by which steps a completion is lost or a message removed without a verdict, and what becomes of it |
| `MQDrains` | 1 account the user connects, a buddy (OTR, roster action) and a room (plain), 1 fault, fairness | the queue drains; OTR waits end |
| `DTBuddy` | a buddy, 2 devices, 2 lists, 1 visit to the screen, expiry | trust has a cause (first use or the user), and first use is granted once; a device switched off stays untrusted |
| `DTOwn` | the account, this device and another, 3 lists (also empty ones), removals, expiry | this device always has a row |
| `DTStaleSave` | a list is stored while the screen is open | counterexample to `TrustedIsListed` |
| `DLAgree` | 2 clients, 1 device nobody uses, any 5 logins, removals, timeouts, refusals and errors, unlimited drops, fairness | when nothing is in flight, who is connected agrees with the server and is on its list; the traffic ends |
| `OSAnswered` | 2 messages to 1 buddy without rows, or 1 to a room whose list names that buddy twice, 1 pushed list, at most 2 requests waiting for a late answer, fairness | no message is encrypted while one of its bundle requests is open; whoever waits has somebody who carries on; a crash has one cause; every completion is called, but for the cases listed in `EverySendAnswered`; implements `Encryption` |
| `CNHeals` | 1 account, 2 connects, any 2 of 12 events, fairness | "authenticated" is true; the reconnect module knows what is wanted, is armed when it is needed, and after a logout is heard begins nothing; an accidental loss of the connection heals |
| `CNMainWaits` | 1 connect, background, expiration of the background task; no timeout | counterexample to `WaitIsAnswered` |
| `HSKeeps` | 2 messages, both with an id: a carbon's, whose buddy may be unknown, then a direct one; 1 drop, restart or fetch of a room's archive, any number of failed queries, refused carbons and calls of the room manager, fairness | a message with an id is stored once; only known causes skip a message; the catch-up's flag has an end in sight unless a query failed; the queues lock in one way only; the catch-up ends, unless they do or a query failed |
| `HSLocked` | 1 direct message, 1 drop, restart or fetch of a room's archive, any calls of the room manager, fairness | counterexample to `WaitIsServed` |

**What the code does that its readers may not expect.**  The three runs above
whose result is a counterexample are findings in `PROJECT.json`.  The
following behaviours are in the models too, without a run of their own; each
can be shown by checking the property named on an instance that allows the
step.

* `MQ` (`NothingDropped`, which only a narrow instance satisfies): a queue's
  completion is lost when the login notification pops the account's whole set of
  waiting actions and resumes its first member only
  (`MessageQueueHandler.swift:426`); when the message, or its buddy, goes while it
  is in flight; when OTRKit answers with an error, or with no error and no text
  (`OTREncryptionManager.m:277`); when the OMEMO coordinator does not answer
  (`OTROMEMOSignalCoordinator.swift:180, 307-316`) or answers "success" with
  nothing sent (367-379); when a room message has a security rooms do not have
  (`MessageQueueHandler.swift:254-257`); and when a plaintext message has no text
  (`OTRXMPPManager.m:1188-1190`).  The thread stays busy until the next start of
  the app (`DropIsForever`).  In the steps of the model these are all
  (`DropHasCause`).
* `MQ` (`QueueDrains`, with an autologin account): a login notification between
  the check of `loginStatus` (line 311) and the registration in
  `outstandingAccounts` is lost.  `QueueDrains` is false there, so no run claims
  it of such an account.
* `MQ`: the timer of an OTR wait is invalidated in a copy that has none
  (line 450); it fires later and may hit the next message of that buddy.
* `MQ` (`RemovedIsSettled`, which no run checks): a message leaves the queue as
  if it had been sent, with no verdict, when its room is not joined yet
  (`MessageQueueHandler.swift:246`) or the stream rejects the stanza of a room
  message (`OTRXMPPManager.m:915`); when its thread, account or protocol is not
  found (293-302) or its type is not supported (317-320); when an OTR message's
  text is nil (550-553) or an OMEMO message has none (577-580).  Where the account
  has no OMEMO coordinator (581-591) the error is stored by a later write.
  `RemovalHasCause` lists these.  That the verdict of a room message falls back to
  pending if the stream answers before the handler writes that state, and no
  verdict in any other step, is `VerdictIsFinal`.
* `DT` (`FirstIsFinal`): an empty list deletes every row, and the next list is
  trusted on first use again (`OTROMEMOStorageManager.swift:96`); so does the
  removal of the last device.
* `DT`: `saveIdentity` renews the date of an expired device, because the
  initialiser of `OMEMODevice` ignores its `lastSeenDate`.  This device's row
  keeps the mark "removed" after a foreign list left it out, although
  `OMEMOModule.m:421` calls that temporary.
* `DL`: an own list that is not answered in time counts as empty, and this
  client publishes a list of itself alone (`OMEMOModule.m:114`); the others add
  themselves again.  A removal's completion is never called when the removal
  succeeds (`OTROMEMOSignalCoordinator.swift:456`; the test
  `OTROMEMOIntegrationTest.swift:168` expects the call).
* `OS`: a second message to a buddy without rows overwrites the closure of the
  first (`OTROMEMOSignalCoordinator.swift:180`), whose caller is never answered;
  a room message whose list names a buddy without rows twice does this to itself.
  The block that encrypts returns without calling the completion when there is no
  text or the payload comes back empty (lines 307-316).
  `callAndRemoveOutstandingDeviceIdFetch` is documented "Always call on internal
  work queue" (line 89), but `storeDeviceIds` calls it on the module's queue
  (line 756): when a pushed list meets a failed fetch of the same JID, both queues
  call the closure and its group is left twice, which traps (`crashed`);
  `CrashHasCause` says that nothing else in the model leads to the trap.
* `HS` (`GapHasCause` without one of its causes): the end of a room's archive
  clears the flag and sets the date while the account's own history is still
  coming (`MessageStorage.swift:391`), and if the connection then drops the rest
  is not asked for again; a block left over from an earlier connection moves
  the date before the new login has read it; the date is the time at which a
  block runs, so that messages which are lost on their way at a drop lie
  behind it; and a query that failed leaves a flag that a room's "fin" clears, so
  that the date passes what was never fetched.
* `HS` (`FlagHasEnd` and `CatchUpEnds` without their exception): after a failed
  query the flag stays set for the rest of the connection, unless the end of a
  room's archive clears it.
* `HS` (`GapHasCause` without `passed`): a message whose buddy is not stored is
  dropped, and the "fin" moves the date past it; what is older than a week at the
  first fetch is not asked for, and then lies before the date.
* `HS`: a request to enable carbons that is refused is not made again on that
  connection.  One that is never answered stays in the tracker
  for ever (`XMPPMessageCarbons.m:161`), and carbons are not enabled again by
  later logins, although `XMPPMessageCarbons.h:10-15` calls that automatic.
* `HS` (`StoredOnce` for all messages): messages without a XEP-0359 id are
  stored once for every way they arrive.
* `CN`: `startConnection` of a login under way may authenticate the stream a
  second time; a failed connect leaves `loginStatus` at Connecting; an attempt
  that was decided before a logout is carried out after it, and `StopStands` says
  that the module begins no other; a stream that is told to disconnect while it
  is opening goes on with the next host of its name, so that such a logout has no
  effect; an account that is
  connected but not authenticated is waited for and not disconnected; a Tor
  account set to Disconnecting sends no presence and so does not disconnect.

**Why these bounds.**  Threads interact only through an account (login) and
messages of a thread only through its queue and its OTR entry; two of each are
enough for one to overtake, replace or wake another.  A fault can come at any
point, so one meets every state of the others; a fault during the recovery from
another is left to the proofs, which hold for any number of them.  A rule of `storeDevices` or
`saveIdentity` looks at one device and at whether there are others, so two
devices suffice; a device can appear, vanish and return with two or three lists
(identities, which are not bounded, create rows as well).  `DTBuddy` has
neither empty lists nor removals by the user: both empty the table and grant
first use again, which `FirstIsFinal` excludes; the other properties do not
depend on it and are proved with both.  A device list is overwritten by one other client or by this
one's past; two clients and five events allow a removal against a login, with
a timeout, its late answer and a refusal, and the proof lifts the bound.  In
`OmemoSend` the tables are kept by JID or by request, so what can meet in them is
two messages to one buddy, or two entries of one message's list: `Batches` has one
of each.  The one pushed list is what may come between a call and a removal, and
two late answers (`MaxLate`) can hit both preparations that share a table.  In `Connection` two events are a fault and another during the
recovery from it; a third event or connect repeats the states that two reach,
and the safety part is proved without the bounds.
In `History` one message comes live and one as a carbon, so that each can come
a second time (again, or from the archive) and each can be overtaken by the
other's date; the carbon's buddy may be unknown, so that what is discarded is
also what another's date passes.  One event is a drop or restart, which leaves
stanzas and blocks of two connections in the queues, or the end of a room's
archive during the account's own; failed queries, refused carbons and calls of
the room manager, of which the lock needs one, are not bounded.  The proofs lift
all of these bounds.

**Fairness.**  In `MessageQueue`, weak fairness of: dispatched
blocks, delivered notifications, scheduled timers, the stream's answer to a
write, and the encryption library's answer.  These are local to the device:
libdispatch runs queued blocks, `NSNotificationCenter` calls observers
synchronously, a run-loop timer fires.  Nothing is assumed of server, peer,
user or process; `QueueDrains` therefore has the hypothesis that the accounts
stay connected in the end.  In `DeviceList`, the server works off each
connection and the run loop handles what has arrived; logins, drops, timeouts
and removals are not forced, so `TrafficEnds` is about what the clients cause
each other.  In `OmemoSend`, as long as a queue has something to run or a request
is open, some task, answer or timer comes: the timer is local, so nothing is
assumed of the server, nor of which comes first.  In
`Connection`, queues, timers and threads run on; connecting, negotiating and
authenticating succeed in the end unless one of the bounded events says
otherwise, which is the hypothesis that the network comes back.  In `History`,
the three queues run what is not waiting, and something becomes of each query
while the connection stays: an answer, a refusal, or the timeout.  The block that
`MessageStorage`'s queue waits for gets its turn on the room manager's queue,
although that queue is often busy (strong fairness: it is first in, first out).
That the connection stays is the hypothesis of `CatchUpEnds`, which also leaves
out failed queries and the locked queues that `HSLocked` shows.

## 4. Proofs

`MessageQueueProofs` proves, for any sets of actions, threads and accounts and
any number of faults, assuming only `ConstantsAssumption` (an action belongs to
one thread, a thread to one account):

* `OwnershipHolds`: `Spec => []Ownership`, the inductive invariant
  `TypeOK /\ FiledByOwner /\ CompletionOwned /\ SingleHolder`;
* its parts `TypeCorrect`, `FiledCorrect`, `CompletionIsOwned`, `HolderIsSingle`.

None of the parts is inductive alone.  `TypeOK` needs to know that a paused
thread has an action (`RetryFires` hands `slot[t]` to the handler);
`CompletionOwned` needs `SingleHolder`, since completing one holder's action
frees the slot that a second holder would rely on; and both need
`FiledByOwner`, since a notification for one thread or account must not touch
what belongs to another.  The proof has one lemma per group of actions; the
helpers `Finish`, `Then` and `Holds` get lemmas of their own.

`OutboxProofs` builds on `Ownership`, under the same assumption:

* `WrittenOnceCorrect`: `Spec => []WrittenOnce`, with every kind of fault.  The
  invariant `WireInv` adds what keeps a written action from being taken again:
  its row occurs once (`RowsOnce`), is gone when its turn is over (`DoneIsGone`),
  an action that awaits its retry was not written (`RetryIsUnwritten`), and one
  that was never saved is nowhere (`NewIsUnknown`).
* `OrderKept`: `Spec => SentInOrder`, with every kind of fault.  `InTurn`: the
  action in process is first in its queue, or has no row any more;
  `WrittenInTurn`: what is written was in process.
* `OutboxImplemented`: `Spec => ImplementsOutbox`.  `StepShapes` sorts the steps
  of the handler into eight shapes (a message is submitted, taken, sent,
  finished, withdrawn, paused, waited for, or the process restarts); each shape
  is a step of `Outbox` or a stutter.

`DeliveryProofs` says what becomes of a message.  `DeliveryInv` adds to the above
that a message on its way to the stream is in `outstandingMessages` (`EntryKept`),
that only room messages are marked as pending (`PendingIsGroup`), and that a
direct message with a verdict has no row, no holder and no retry
(`SettledIsOver`).

* `WaitNotOverwritten`: `Spec => NoOverwrittenWait`, from `Ownership` alone: the
  new waiter and the old one would both be their thread's action in process.
* `VerdictStands`: `Spec => VerdictIsFinal`, with every kind of fault; whoever
  changes a verdict uses the completion, and a settled direct message has none;
  for a room message `VerdictStep` adds that its state is written only by the
  stream's answer and by the handler's block that marks it as pending.
* `RemovedCorrect`: `Spec => []RemovedIsSettled` for an `Ordinary` instance: no
  rooms, and every message has text, a supported type, its thread, account and
  protocol, and an account with OMEMO if it needs one.  Drops, deletions,
  restarts and encryptions that fail or are not answered are not excluded.
* `NothingIsDropped`: `Spec => []NothingDropped` for a `Kept` instance: no two
  threads share an account, neither messages nor their owners are deleted, OTRKit
  encodes what it is given, rooms get supported messages, and OMEMO encryption, if
  there are OMEMO messages, is always answered.  Each assumption takes away one of
  the ways of dropping a completion that `DropHasCause` lists; the property itself
  leaves out messages without text.  That the code does not meet the assumptions
  in general is said in section 3.
* `DropsExplained`: `Spec => DropHasCause`, without those assumptions: in the step
  in which a queue is left with nobody to free it, its message or owner was gone,
  or a login woke another action, or the completion was with OTRKit or the OMEMO
  coordinator, or the message was one of the two that are given up silently.
  `LastHolderGoes` looks at the holder a thread had before the step, `TurnBegins`
  at a turn that the step begins.
* `DropsLast`: `Spec => DropIsForever`, from `Ownership` alone: every step that
  frees or refills a slot uses a completion, a pause or a call for the action in
  process, and there is none.
* `WaitIsTimed`: `Spec => []WaitHasTimer`, for all faults: a timer that fires takes
  away its buddy's wait, whichever message started it, so no wait loses its timer
  and stays.
* `RemovalsExplained`: `Spec => RemovalHasCause`, with rooms and every kind of
  fault: for each step that removes a row, which early return, or which answer to
  a room message, it is.  `DeliveryInv` needs two parts for it: `LateErrorIsOver`,
  a message whose error is still to be stored is out of the handler's hands, and
  `CausesKnown`, what is wrong with a message is the work of a fault.

`DeviceTrustProofs` proves, for any set of devices, any number of lists and
visits, and both kinds of parent, assuming only `DeviceAssumption`:

* `TypeCorrect`: `Spec => []TypeOK`; inductive by itself.
* `DecisionsStand`: `Spec => []DecisionStands`, with every optional event.  The
  invariant `DecisionInv` adds that a verdict belongs to an existing row of
  another device, that the open screen and a pressed Save exclude each other,
  and that their copies trust nothing the user has switched off unless the user
  has touched it since.
* `TrustIsEarned`: `Spec => []TrustHasCause`, with every optional event.  The
  invariant `CauseInv` adds that the copies on the screen and those of a pressed
  Save trust only what was seen first, approved, or touched: a removal takes the
  device out of the copies too, so no Save brings its trust back.
* `FirstUseOnce`: `Spec => FirstIsFinal` if `Events` has neither empty lists nor
  removals.  The invariant `FilledInv` adds that no waiting list is empty and
  that the table is empty only before the parent is first seen; with either
  event the statement is false (section 3).
* `OwnRowCorrect`: `Spec => []OwnRowExists`, with every optional event.  The
  invariant `OwnInv` adds that the last waiting list names this device: an empty
  list takes the row away, but a list with this device is always behind it.

`DeviceListProofs` proves, for any clients, unused devices and number of
events, assuming only `ListAssumption`:

* `TypeCorrect`: types, and that no request has a number yet to be given out.
* `QuietCorrect`: `Spec => []QuietAgreement`.  Agreement is broken as soon as
  anything is in flight, so the invariant `IndInv` says what is in flight then.
  `Pending(c)` collects the changes of a client that the server has refused or
  not got yet.  A client agrees with the node up to these, or it has been sent a
  list (`Told`), or its own fetch is about to fail and it will publish itself
  (`Stale`).  `Current`: behind every list on its way that is not the node's
  there is another one, so the last list stored is right.  `Greets` and `Opens`:
  a connection begins with its hello, before which the server sends nothing.
  `OwnAnswer`: the failing fetch is not a removal's, which needs the numbers of
  requests to be new.

`OmemoSendProofs` proves, for any messages, buddies, devices, first contents of
the database and number of pushed lists, assuming only `SendAssumption`:

* `TypeCorrect`: types, and that a preparation waits for bundles exactly at that
  stage and only of devices of its snapshot.
* `PendingCorrect`: `Spec => []NothingPending`.  The property looks at outcomes
  and requests, which only meet at the end, so `IndInv` follows a preparation
  from its start: `OneEach`, no leg's preparation has two tasks that take it on, and
  no message two that end it;
  `TasksFit`, a task is met by the stage it was added at, and one that reports a
  bundle leaves no open request of the same bundle behind; `RequestsFit`, an
  open request is waited for by its preparation; `StagesFit`, a message whose
  group was left has no preparation in between.
* `EncryptionImplemented`: `Spec => ImplementsEncryption`, from `IndInv`, for any
  lists of buddies, with one of them named more than once or not.
  `MoveRefines` covers every step that moves one preparation on: it completes it
  for the first time or `Encryption` sees nothing.  That nobody is passed over
  needs `StagesFit` (whoever belongs to a message that was begun is past "idle"),
  that the end is told once needs `OneEach` and `TasksFit`.
* `CarriedCorrect`: `Spec => []SomebodyCarriesOn`, the safety core of
  `EverySendAnswered`: unless the process has crashed or the closure is one of
  the forgotten, each preparation has a task, a request or a closure that takes
  it on.  It is inductive together with `IndInv`.
* `CrashExplained`: `Spec => []CrashHasCause`: the group is left too often only
  while a closure that was called on one queue has yet to be removed there.
  `CalledIsRemoved` is what the property lacks: a closure that has been called
  and is still in the table is about to be removed.

`ConnectionProofs` proves, for any bounds and any set of optional events,
assuming only `ConnectionAssumption`:

* `TypeCorrect`: types, an authenticated stream is up, and only a stream that
  is up is being closed.
* `StatusCorrect`: `Spec => []StatusIsTrue`.  The invariant `HeardLast` speaks
  of the notifications on their way: if the manager would believe in an
  authenticated stream after hearing all of them, the stream is authenticated.
* `HealCorrect`: `Spec => []HealIsArmed`, the safety core of `AccidentHeals`.  The
  property speaks of a reconnect module that has heard everything.  `Armed`
  (`ArmedHolds`) follows its flag and its timer while notifications are on their
  way: the last of those that arm, disarm or end decides what the module will
  believe (`FlagFollows`, `TimerFollows`), and a query is always somebody's to
  decide (`Decided`).
* `StopsStand`: `Spec => StopStands`, an action property, from the same invariant:
  a module that has heard of the logout has its flag down, and without the flag
  neither timer nor network begins an attempt.

`HistoryProofs` proves, for any messages, with or without ids, and any number of
drops, restarts and calls, assuming only `HistoryAssumption`:

* `TypeCorrect`: types, and no query without a connection.
* `StoredOnceCorrect`: `Spec => []StoredOnce`.
* `GapCorrect`: `Spec => GapHasCause`, an action property.  Its invariant `IndInv`
  explains why a fetch asks for all that may be missing.  `Covered`: while
  connected, with carbons on or asked for and no query failed, each archived
  message is stored or was passed over, is on its way, lies at or before the date,
  or will be asked for; without one of the three conditions a known cause is at
  hand.  `LoginFirst`: on each queue, what a connection brings
  comes behind its login, so the query's date is read before anything new moves
  it.  `FreshIsUp`: without a connection only leftovers are in the queues.
  `Redelivered` and `CarbonsFit` give `Covered` at the two ends: for what the
  server holds, and for what is sent before carbons are on.  `WaitFits` says
  whom the waiting queue waits for, `Bare` that other stanzas carry no message.
  `KeptStep` shows that what is on its way is lost to a known cause or passed
  over, `DateStep` that the date does not pass a message that is still to be
  fetched.
* `OnlyLockCorrect`: `Spec => []OnlyLock`: if `MessageStorage`'s queue and the room
  manager's both wait, the next block of the write connection can run or the
  three have locked each other as in `HSLocked`.  It needs `WaitsForBlock`: the
  block the room manager's queue waits for is still to run.
* `LockForever`: `Spec => [][Locked => Locked' \/ Restart]_vars`: nothing but the
  end of the process gets the queues out of that lock.
* `FlagCorrect`: `Spec => []FlagHasEnd`, the safety core of `CatchUpEnds`: on a
  connection the flag is set only while a query is unanswered, or its end, or the
  login that clears it, is still to be handled, or a query of the connection has
  failed.

Model-checked only: liveness under fairness (`OtrWaitEnds`, `QueueDrains`,
`TrafficEnds`, `EverySendAnswered`, `AccidentHeals`, `CatchUpEnds`), which with
`ENABLED` is outside TLAPS.  What is proved of them is that somebody is always
there to take the next step: `WaitHasTimer`, `SomebodyCarriesOn`, `HealIsArmed`
and `FlagHasEnd`.  That each such step is one the fairness forces, and that the
steps come to an end, is left to TLC.  Every safety property that a run checks
is proved for every instance, with the assumptions given above.  Without them
`NothingDropped` and `FirstIsFinal`, and `RemovedIsSettled`, do not hold: section
3 says how the code breaks them.  `DropHasCause`, `RemovalHasCause` and
`GapHasCause` are the statements that hold of everything that is modelled.

## 5. Plan

Done: `MessageQueue` with `Outbox`, `DeviceTrust`, `DeviceList`, `OmemoSend` with `Encryption`,
`Connection`, `History`, and the proofs above.  Next, in this order:

1. `SignalKeys`: prekey identifiers, consumption, top-up, identity creation.
2. `StreamManagement` (XEP-0198) with its storage: counters modulo 2^32,
   resumption, nothing acknowledged is lost.
3. The rest of `MessageStorage` (receipts, errors, OTR text); the rooms'
   occupants and echoes; the roster.
4. File transfers, push tokens.

## 6. Not modelled

Signal keys beyond what decides which rows exist, receipts and chat states,
rooms beyond joining and fetching their archive, the roster, stream management,
file transfers, push tokens, the buddy cache and the migration of accounts:
planned, or, for the cache, derived data without a protocol. Server checks and
capabilities are queries with a table of results. The user interface, the
database views and the vendored libraries are presentation, configuration, and
code of others; where the code above depends on a library (XMPPFramework's
stream, tracker, `OMEMOModule`, archive and carbons modules and `XMPPReconnect`,
libdispatch, YapTaskQueue), its behaviour is in the model that needs it.
